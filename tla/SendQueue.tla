----------------------------- MODULE SendQueue -----------------------------
(***************************************************************************)
(* The list of unfinished messages of CMsgSender                           *)
(* (dcframe/tools/dtframe/dcf_dtframe.cpp): a ring of slots in the order of *)
(* the 16-bit sequence numbers, filled by SendMsg on the application's     *)
(* thread and emptied by the worker, which handles the peer's answers and  *)
(* the one-second timer. No lock protects it.                              *)
(*                                                                         *)
(* The loops of the worker (ProcTimer, Proc_RecvAckedSeq) and SendMsg are  *)
(* split into steps; the constant Racing says whether a call of SendMsg    *)
(* may overlap a call of the worker, as in the code, where no lock keeps   *)
(* them apart. Of a node's frames only the number that is confirmed is     *)
(* kept: FrameTransfer follows one message in detail.                      *)
(*                                                                         *)
(* The peer is an environment that may answer anything that can be true of  *)
(* the numbers given out; confirmed records what its answers have said. An *)
(* answer that comes late or twice still says nothing false, so it needs   *)
(* no channel of its own.                                                  *)
(***************************************************************************)
EXTENDS SortedRing, FiniteSets

CONSTANTS
  SEQ_MOD,    \* values of a WORD: 65536
  SEQ_BEGIN,  \* m_SequenceNumber at the start: DBT_SEQ_BEGIN or a later value
  FirstPt,    \* the slot of the empty list at the start: 0 or a later one
  LastSeq,    \* bound: the number of the last message that is sent
  Racing      \* a call of SendMsg may overlap one of the worker

ASSUME ConstantsAssumption ==
  /\ SEQ_MOD \in Nat /\ SEQ_MOD >= 4
  /\ SEQ_BEGIN \in 0 .. SEQ_MOD - 1 /\ LastSeq \in 1 .. SEQ_MOD - 1
  /\ FirstPt \in 0 .. SLOTS - 1
  /\ Racing \in BOOLEAN

VARIABLES
  list,      \* m_sequence_list
  beginPt,   \* m_beginPt
  endPt,     \* m_endPt
  seqNo,     \* m_SequenceNumber
  app,       \* where the application is in SendMsg, and its local newPt
  worker,    \* the loop the worker is in, and its local positions
  confirmed, \* history: numbers the peer has said it has
  told       \* history: messages before the ranges SendSeqRange has announced

ring == <<list, beginPt, endPt>>
vars == <<ring, seqNo, app, worker, confirmed, told>>

Seqs == 1 .. SEQ_MOD - 1

\* The fields of FrameSend the list depends on; spent: the head frame was
\* sent RETRY_TOTAL_TIMES times. An empty slot is a node without frames, a
\* node SendMsg has not numbered yet has the number 0.
Nodes == [seq : Seqs \cup {0}, total : 1 .. 2, begin : 0 .. 1, spent : BOOLEAN]
NULL == [seq |-> 0, total |-> 0, begin |-> 0, spent |-> FALSE]

GetSequence(pt) == list[pt].seq
Numbers == [k \in Slots |-> list[k].seq]
Used == {k \in Slots : list[k] # NULL}
Held == {list[k] : k \in Slots} \ {NULL}

\* Fault: the counter is set but not incremented after the first message.
FaultSeqRepeated(n) == IF n = 0 THEN 1 ELSE n

\* The numbers in the order SendMsg gives them out; 0 is left out.
NextSeq(n) == IF n = SEQ_MOD - 1 THEN 1 ELSE n + 1
Position(n) == IF n >= SEQ_BEGIN THEN n - SEQ_BEGIN ELSE n - SEQ_BEGIN + SEQ_MOD - 1
Numbered == {n \in Seqs : Position(n) \in 1 .. Position(seqNo)}

Idle == [at |-> "idle", pt |-> 0, to |-> 0, seq |-> 0]
NotSending == [at |-> "idle", pt |-> 0]

TypeOK ==
  /\ list \in [Slots -> Nodes \cup {NULL}]
  /\ beginPt \in Slots /\ endPt \in Slots
  /\ seqNo \in 0 .. SEQ_MOD - 1
  /\ app \in [at : {"idle", "checked", "placed"}, pt : Slots]
  /\ worker \in [at : {"idle", "timer", "purge", "compact"}, pt : Slots, to : Slots,
                 seq : 0 .. SEQ_MOD - 1]
  /\ confirmed \in SUBSET Seqs /\ told \in 0 .. SEQ_MOD - 1

Init ==
  /\ list = [k \in Slots |-> NULL] /\ beginPt = FirstPt /\ endPt = FirstPt
  /\ seqNo = SEQ_BEGIN
  /\ app = NotSending /\ worker = Idle
  /\ confirmed = {} /\ told = 0

-----------------------------------------------------------------------------
(***************************************************************************)
(* Helpers of CMsgSender.                                                  *)
(***************************************************************************)

\* FinishNode(Pt).
FinishNode(pt) ==
  /\ list' = Closed(list, endPt, pt, NULL)
  /\ endPt' = IF endPt # beginPt THEN Before(endPt) ELSE endPt
  /\ UNCHANGED beginPt

\* Full_Search: the slot of a number, SLOTS if it is not found.
Full_Search(seq) ==
  LET found == {k \in Slots \ {beginPt, endPt} :
                  list[k].seq = seq /\ (beginPt # endPt => k \in Span(beginPt, endPt))}
  IN IF GetSequence(beginPt) = 0 \/ GetSequence(endPt) = 0 THEN SLOTS
     ELSE IF seq = GetSequence(beginPt) THEN beginPt
     ELSE IF seq = GetSequence(endPt) THEN endPt
     ELSE IF found = {} THEN SLOTS
     ELSE Nearest(beginPt, found)

\* FindSequence: the reason and the slot.
FindSequence(seq) == Search(Numbers, Used, beginPt, endPt, seq)

\* Fault: a number before the list is not told from one behind it.
FaultOldTakenForNew(seq) ==
  LET found == FindSequence(seq)
  IN IF found.reson \in {"old", "new"} THEN endPt ELSE found.pt

\* The slot before which Proc_RecvAckedSeq frees single messages; SLOTS for a
\* number it drops as FR_OLD.
AckedUpTo(seq) ==
  LET found == FindSequence(seq)
  IN CASE found.reson = "new" -> endPt
       [] found.reson = "near" -> Before(found.pt)
       [] OTHER -> found.pt

\* Fault: the range is announced from the number given out last.
FaultRangeFromLast(first) == told' = Position(seqNo)

\* CopyNode: a message of that many frames, not sent yet.
CopyNode(total) == [seq |-> 0, total |-> total, begin |-> 0, spent |-> FALSE]

\* SendSeqRange: the first number still in the list is announced to the peer
\* (0, of an empty list, tells it nothing).
SendSeqRange(first) ==
  told' = IF first # 0 /\ Position(first) - 1 > told THEN Position(first) - 1 ELSE told

-----------------------------------------------------------------------------
(***************************************************************************)
(* SendMsg, on the application's thread.                                   *)
(***************************************************************************)

\* The list is full: nothing is queued, the range is announced.
SendRefused ==
  /\ app.at = "idle" /\ (Racing \/ worker.at = "idle")
  /\ After(endPt) = beginPt
  /\ SendSeqRange(GetSequence(beginPt))
  /\ UNCHANGED <<ring, seqNo, app, worker, confirmed>>

SendCheck ==
  /\ app.at = "idle" /\ (Racing \/ worker.at = "idle")
  /\ seqNo # LastSeq /\ After(endPt) # beginPt
  /\ app' = [at |-> "checked", pt |-> After(endPt)]
  /\ UNCHANGED <<ring, seqNo, worker, confirmed, told>>

\* The node is stored, over one that is still there if need be.
SendPlace(total) ==
  /\ app.at = "checked"
  /\ list' = [list EXCEPT ![app.pt] = CopyNode(total)]
  /\ endPt' = app.pt
  /\ beginPt' = HeadOf(Used \cup {app.pt}, beginPt, app.pt)
  /\ app' = [app EXCEPT !.at = "placed"]
  /\ UNCHANGED <<seqNo, worker, confirmed, told>>

\* The next number, 0 left out, goes to the node just stored, wherever the
\* worker has moved it; check_send_window sends the first frames.
SendNumber ==
  /\ app.at = "placed"
  /\ seqNo' = NextSeq(seqNo)
  /\ list' = [k \in Slots |->
                IF list[k] # NULL /\ list[k].seq = 0
                THEN [list[k] EXCEPT !.seq = NextSeq(seqNo)] ELSE list[k]]
  /\ app' = NotSending
  /\ UNCHANGED <<beginPt, endPt, worker, confirmed, told>>

-----------------------------------------------------------------------------
(***************************************************************************)
(* The worker: answers of the peer (ProcRecvMsg).                          *)
(***************************************************************************)

WorkerFree == worker.at = "idle" /\ (Racing \/ app.at = "idle")

\* RCC_FRAME_REJECT: the peer had the message before.
RecvReject(seq) ==
  /\ WorkerFree /\ seq \in Numbered
  /\ Full_Search(seq) # SLOTS /\ FinishNode(Full_Search(seq))
  /\ confirmed' = confirmed \cup {seq}
  /\ UNCHANGED <<seqNo, app, worker, told>>

\* A frame is confirmed up to cur: the message is finished (and the
\* application told) or goes on with its next frame.
RecvAck(seq, cur) ==
  LET pt == Full_Search(seq)
  IN /\ WorkerFree /\ seq \in Numbered
     /\ pt # SLOTS /\ cur > list[pt].begin /\ cur <= list[pt].total
     /\ IF cur = list[pt].total
        THEN confirmed' = confirmed \cup {seq} /\ FinishNode(pt)
        ELSE /\ list' = [list EXCEPT ![pt].begin = cur, ![pt].spent = FALSE]
             /\ UNCHANGED <<beginPt, endPt, confirmed>>
     /\ UNCHANGED <<seqNo, app, worker, told>>

\* The head frame is asked for once more; that may be its last try.
RecvAsk(seq) ==
  LET pt == Full_Search(seq)
  IN /\ WorkerFree /\ seq \in Numbered /\ pt # SLOTS
     /\ list' = [list EXCEPT ![pt].spent = TRUE]
     /\ UNCHANGED <<beginPt, endPt, seqNo, app, worker, confirmed, told>>

\* Proc_RecvAckedSeq: the peer has the single messages before seq, and the
\* first frame of the longer ones. Nothing happens when the begin or the end
\* of the list has no number.
RecvAckedSeq(seq) ==
  /\ WorkerFree /\ Position(seq) \in 1 .. Position(seqNo) + 1
  /\ GetSequence(beginPt) # 0 /\ GetSequence(endPt) # 0
  /\ AckedUpTo(seq) # SLOTS
  /\ worker' = [at |-> "purge", pt |-> beginPt, to |-> AckedUpTo(seq), seq |-> seq]
  /\ confirmed' = confirmed \cup
       {n.seq : n \in {m \in Held : /\ m.total = 1 /\ m.seq # 0
                                    /\ Position(m.seq) < Position(seq)}}
  /\ UNCHANGED <<ring, seqNo, app, told>>

\* Its first loop: single messages are freed, longer ones stay; the begin
\* follows by one slot when it has become empty.
Purge ==
  /\ worker.at = "purge"
  /\ IF worker.pt = worker.to
     THEN /\ worker' = [worker EXCEPT !.at = "compact", !.pt = beginPt]
          /\ UNCHANGED ring
     ELSE /\ worker' = [worker EXCEPT !.pt = After(@)]
          /\ list' = IF list[worker.pt].total = 1
                     THEN [list EXCEPT ![worker.pt] = NULL] ELSE list
          /\ beginPt' = IF list[worker.pt] # NULL /\ list'[beginPt] = NULL
                        THEN After(beginPt) ELSE beginPt
          /\ UNCHANGED endPt
  /\ UNCHANGED <<seqNo, app, confirmed, told>>

\* Its second loop closes the gaps; at its end an empty last slot is given up.
Compact ==
  /\ worker.at = "compact"
  /\ \/ /\ worker.pt # endPt /\ list[worker.pt] # NULL
        /\ worker' = [worker EXCEPT !.pt = After(@)]
        /\ UNCHANGED ring
     \/ /\ worker.pt # endPt /\ list[worker.pt] = NULL
        /\ list' = Closed(list, endPt, worker.pt, NULL)
        /\ endPt' = Before(endPt)
        /\ beginPt' = IF beginPt = worker.pt THEN After(beginPt) ELSE beginPt
        /\ UNCHANGED worker
     \/ /\ worker.pt = endPt
        /\ worker' = Idle
        /\ endPt' = IF list[endPt] = NULL /\ beginPt # endPt THEN Before(endPt) ELSE endPt
        /\ UNCHANGED <<list, beginPt>>
  /\ UNCHANGED <<seqNo, app, confirmed, told>>

-----------------------------------------------------------------------------
(***************************************************************************)
(* The worker: ProcTimer.                                                  *)
(***************************************************************************)

TimerStart ==
  /\ WorkerFree
  /\ worker' = [Idle EXCEPT !.at = "timer", !.pt = beginPt]
  /\ UNCHANGED <<ring, seqNo, app, confirmed, told>>

\* NodeTimer_Main: a spent head frame is skipped, with the last one the node
\* is finished; otherwise the frame may be sent once more. SendMsg is over
\* before a node without a number has been tried that often.
NodeTimer(pt) ==
  LET n == list[pt]
  IN \/ n.spent /\ n.begin + 1 >= n.total /\ FinishNode(pt)
     \/ /\ n.spent /\ n.begin + 1 < n.total
        /\ list' = [list EXCEPT ![pt].begin = @ + 1, ![pt].spent = FALSE]
        /\ UNCHANGED <<beginPt, endPt>>
     \/ /\ n # NULL /\ ~n.spent /\ n.seq # 0
        /\ list' = [list EXCEPT ![pt].spent = TRUE]
        /\ UNCHANGED <<beginPt, endPt>>
     \/ ~n.spent /\ UNCHANGED ring

\* One round of the walk. Its end is compared with the m_endPt FinishNode
\* has just moved. After the last round the range may be announced.
TimerStep ==
  /\ worker.at = "timer"
  /\ NodeTimer(worker.pt)
  /\ IF worker.pt = endPt'
     THEN worker' = Idle /\ SendSeqRange(list'[beginPt].seq)
     ELSE worker' = [worker EXCEPT !.pt = After(@)] /\ UNCHANGED told
  /\ UNCHANGED <<seqNo, app, confirmed>>

-----------------------------------------------------------------------------
AppStep == SendRefused \/ SendCheck \/ (\E total \in 1 .. 2 : SendPlace(total)) \/ SendNumber

WorkerStep == Purge \/ Compact \/ TimerStep

Next ==
  \/ AppStep
  \/ WorkerStep
  \/ TimerStart
  \/ \E seq \in Seqs : \/ RecvReject(seq)
                       \/ \E cur \in 1 .. 2 : RecvAck(seq, cur)
                       \/ RecvAsk(seq)
                       \/ RecvAckedSeq(seq)

Spec == Init /\ [][Next]_vars

\* The worker goes on with a loop it is in.
FairSpec == Spec /\ WF_vars(WorkerStep)

-----------------------------------------------------------------------------
AtRest == worker.at = "idle" /\ app.at = "idle"

\* Between two calls the nodes fill the ring from the begin to the end without
\* a gap, or there is none at all: FinishNode, Proc_RecvAckedSeq and
\* AdjustHeadPtr move nodes and positions so that they stay together.
RingShape ==
    \/ Held = {} /\ beginPt = endPt
    \/ \A k \in Slots : list[k] # NULL <=> k \in Span(beginPt, endPt)
\* "a circular array, sorted by sequence number" (dcf_dtframe.h:115): between
\* two calls the messages lie in the order in which they were numbered.
SortedBySeq ==
  \A j, k \in Span(beginPt, endPt) :
    list[j] # NULL /\ list[k] # NULL /\ Dist(beginPt, j) < Dist(beginPt, k) =>
      Position(list[j].seq) < Position(list[k].seq)
ListShape == AtRest => RingShape /\ SortedBySeq

\* What is announced to the peer never leaves a message behind that is still
\* in the list: the peer would take it for an old one and drop it.
NotPassedOver ==
  \A n \in Held : n.seq # 0 => Position(n.seq) > told

\* A message leaves the list only when an answer has said that the peer has it
\* or its last frame was tried for the last time; no answer, reordered or
\* repeated, and no movement of other nodes loses it.
KeptUntilConfirmed ==
  [][\A n \in Held : n.seq # 0 /\ n.seq \notin {m.seq : m \in Held'} =>
       n.seq \in confirmed' \/ (n.spent /\ n.begin + 1 >= n.total)]_vars

\* The loops of the worker come to their end although they move the end of
\* the list, against which they compare, themselves.
WorkerReturns == worker.at # "idle" ~> worker.at = "idle"

\* Full_Search, "a search of everything" (dcf_dtframe.cpp:339, 371), finds
\* every message in the list.
FoundInList ==
  \A n \in Held : n.seq # 0 /\ AtRest => Full_Search(n.seq) # SLOTS
=============================================================================
