-------------------------- MODULE MessageReceiver --------------------------
(***************************************************************************)
(* CMsgRecver (dcframe/tools/dtframe/dcf_dtframe.cpp): which messages are   *)
(* taken and handed to the application. The window SeqWindow notes the      *)
(* numbers that have arrived; the sorted ring holds the messages of more    *)
(* than one frame that are still open. All of it runs on the worker.        *)
(*                                                                         *)
(* Messages are their sequence numbers. One with more frames has a first    *)
(* one, which opens it, and further ones, of which the last to arrive       *)
(* completes it; FrameTransfer follows them one by one. The sender is an    *)
(* environment: it gives out numbers, holds at most SLOTS - 1 unfinished    *)
(* messages, finishes or gives up any of them, and announces the first it   *)
(* holds. Every frame it ever sent may arrive, late, repeatedly, in any     *)
(* order, or never.                                                        *)
(***************************************************************************)
EXTENDS SortedRing, SeqWindow, FiniteSets

CONSTANTS
  MOVE_SIZE,  \* WND_TOTAL_MOVE_SIZE_BIT: 64
  SEQ_BEGIN,  \* the sender's number before its first message
  FirstPt,    \* the slot of the empty list at the start: 0 or a later one
  LastSeq,    \* bound: the number of the last message that is sent
  Long        \* the numbers of the messages with more than one frame

\* The numbers in a window that may be moved by force: 768.
CAN_MOVE_SIZE == (WND_BITS * 3) \div 4

ASSUME ConstantsAssumption ==
  /\ MOVE_SIZE \in 1 .. CAN_MOVE_SIZE - 1
  /\ SEQ_BEGIN \in Words /\ LastSeq \in Words \ {0}
  /\ FirstPt \in Slots
  /\ Long \in SUBSET (Words \ {0})

VARIABLES
  wnd,         \* m_seq_sure_total
  ageing,      \* m_seq_ageing_tools
  needMove,    \* m_bNeedMoveWndSeq
  list,        \* m_sequence_multi_list: the numbers of the nodes, 0 for NULL
  beginPt,     \* m_mult_beginPt
  endPt,       \* m_mult_endPt
  walk,        \* the index of the loop in ProcTimer, NoWalk outside of it
  seqNo,       \* of the sender: m_SequenceNumber
  held,        \* of the sender: the messages in its list
  first,       \* history: the number that initialised the window
  handed,      \* history: the messages the application has
  again,       \* history: the messages it was given once more
  left,        \* history: the messages held and not arrived that a move by
               \* force has left behind
  edge         \* history: a bit of the bitmap's last byte was set

window == <<wnd, ageing>>
ring == <<list, beginPt, endPt>>
sender == <<seqNo, held>>
application == <<handed, again>>
vars == <<window, needMove, ring, walk, sender, first, application, left, edge>>

Seqs == Words \ {0}
NoWalk == SLOTS + 1
Used == {k \in Slots : list[k] # 0}
Open == {list[k] : k \in Used}

\* The numbers in the order SendMsg gives them out; 0 is left out.
NextSeq(n) == IF n = MAX_SEQ THEN 1 ELSE n + 1
Position(n) == IF n >= SEQ_BEGIN THEN n - SEQ_BEGIN ELSE n - SEQ_BEGIN + MAX_SEQ
\* What has arrived of the numbers, with the first frame.
Arrived == handed \cup Open
Sent == {n \in Seqs : Position(n) \in 1 .. Position(seqNo)}

TypeOK ==
  /\ wnd \in Windows /\ ageing \in AgeingTables
  /\ needMove \in BOOLEAN /\ edge \in BOOLEAN
  /\ list \in [Slots -> Words] /\ beginPt \in Slots /\ endPt \in Slots
  /\ walk \in 0 .. SLOTS + 1
  /\ seqNo \in Words /\ held \in SUBSET Seqs
  /\ first \in Words
  /\ handed \in SUBSET Seqs /\ again \in SUBSET Seqs /\ left \in SUBSET Seqs

Init ==
  /\ wnd = EmptyWindow /\ ageing = EmptyTable
  /\ needMove = FALSE
  /\ list = [k \in Slots |-> 0] /\ beginPt = FirstPt /\ endPt = FirstPt
  /\ walk = NoWalk
  /\ seqNo = SEQ_BEGIN /\ held = {}
  /\ first = 0 /\ handed = {} /\ again = {} /\ left = {}
  /\ edge = FALSE

-----------------------------------------------------------------------------
(***************************************************************************)
(* The sender, as SendQueue has it.                                        *)
(***************************************************************************)

\* Nothing keeps it from running ahead of a message that does not get through.
SenderSends ==
  /\ seqNo # LastSeq /\ Cardinality(held) < SLOTS - 1
  /\ seqNo' = NextSeq(seqNo) /\ held' = held \cup {NextSeq(seqNo)}
  /\ UNCHANGED <<window, needMove, ring, walk, first, application, left, edge>>

\* The message was confirmed, or its frames were tried for the last time.
SenderFinishes(n) ==
  /\ held' = held \ {n}
  /\ UNCHANGED <<window, needMove, ring, walk, seqNo, first, application, left, edge>>

\* The numbers a range may begin with: the first one held, now or at an
\* earlier time; 0 of a list that has just become empty.
RangeBegins ==
  {n \in Sent : \A m \in held : Position(m) >= Position(n)}
    \cup {n \in {0} : held = {} /\ seqNo # SEQ_BEGIN}

-----------------------------------------------------------------------------
(***************************************************************************)
(* Helpers of CMsgRecver.                                                  *)
(***************************************************************************)

HandUp(n) == handed' = handed \cup {n} /\ again' = again \cup (handed \cap {n})

\* Fault: the number behind the first one that is missing.
FaultAckedBeyond(w) ==
  IF wnd_can_move_nums(w) = 0 THEN 0 ELSE Word(w.begin + wnd_can_move_nums(w) + 1)

\* Notify_AckSeq(0): the number behind the run of received ones; 0 when there
\* is no run, and nothing is sent. Sending it changes nothing here.
Notify_AckSeq(w) ==
  IF wnd_can_move_nums(w) = 0 THEN 0 ELSE Word(w.begin + wnd_can_move_nums(w))

\* TryMoveTotalWnd: it returns when the number is the head.
TryMoveTotalWnd(w, seq) ==
  IF w.begin = seq \/ wnd_can_move_nums(w) = 0 THEN w
  ELSE wnd_move(w, wnd_can_move_nums(w))

\* precheck_by_total turns the number down. m_bNeedNotifySeq, which it also sets,
\* and a frame that was tried often only make Notify_AckSeq send; the reject of
\* the latter is a subject of FrameTransfer.
TurnedDown(cmp) ==
  needMove' = (needMove \/ cmp = "out_wnd")

\* wnd_save, TryMoveTotalWnd and push_idx of a number that is taken.
Noted(seq, cmp) ==
  LET saved == wnd_save(wnd, seq, cmp)
  IN /\ wnd' = TryMoveTotalWnd(saved, seq)
     /\ ageing' = push_idx(ageing, seq)
     /\ first' = IF wnd.begin = 0 /\ first = 0 THEN seq ELSE first
     /\ edge' = (edge \/ idx_to_pt(saved, seq) >= WND_BITS - BYTE_BITS)

FindMultSequence(seq) == Search(list, Used, beginPt, endPt, seq)

\* Fault: a number before the begin is put at the end.
FaultAddUnsorted(seq) ==
  LET pt == After(endPt)
  IN /\ pt # beginPt
     /\ list' = [list EXCEPT ![pt] = seq]
     /\ endPt' = pt
     /\ beginPt' = HeadOf(Used \cup {pt}, beginPt, pt)

\* AddIntoMultiQue: behind the end, or before the next greater number, whose
\* followers are moved back. A full list, and a number before the begin, are
\* refused.
AddIntoMultiQue(seq) ==
  LET found == FindMultSequence(seq)
      pt == IF found.reson = "new" THEN After(endPt) ELSE found.pt
  IN /\ After(endPt) # beginPt /\ found.reson \in {"new", "near"}
     /\ endPt' = After(endPt)
     /\ list' = [k \in Slots |-> IF k = pt THEN seq
                                 ELSE IF k \in Span(pt, endPt') THEN list[Before(k)]
                                 ELSE list[k]]
     /\ beginPt' = HeadOf({k \in Slots : list'[k] # 0}, beginPt, endPt')

FinishNode(pt) ==
  /\ list' = Closed(list, endPt, pt, 0)
  /\ endPt' = IF endPt # beginPt THEN Before(endPt) ELSE endPt
  /\ UNCHANGED beginPt

-----------------------------------------------------------------------------
(***************************************************************************)
(* ProcRecvMsg.                                                            *)
(***************************************************************************)

WorkerFree == walk = NoWalk

\* ProcOnceFrame, ProcNewMultiFrame: the number was seen or is out of the window.
RecvKnown(seq) ==
  LET cmp == wnd_compare(wnd, seq)
  IN /\ WorkerFree
     /\ cmp = "out_wnd" \/ \E stray \in BOOLEAN : IsAcked(wnd, seq, cmp, stray)
     /\ TurnedDown(cmp)
     /\ UNCHANGED <<window, ring, walk, sender, first, application, left, edge>>

\* precheck_by_total lets the number pass.
Fresh(seq) ==
  LET cmp == wnd_compare(wnd, seq)
  IN cmp # "out_wnd" /\ \E stray \in BOOLEAN : ~IsAcked(wnd, seq, cmp, stray)

\* ProcOnceFrame of a new message.
RecvOnce(seq) ==
  /\ WorkerFree /\ seq \notin Long /\ Fresh(seq)
  /\ Noted(seq, wnd_compare(wnd, seq))
  /\ HandUp(seq)
  /\ UNCHANGED <<needMove, ring, walk, sender, left>>

\* ProcNewMultiFrame of a new message the list takes; else it does nothing.
RecvFirst(seq) ==
  /\ WorkerFree /\ seq \in Long /\ Fresh(seq)
  /\ AddIntoMultiQue(seq)
  /\ Noted(seq, wnd_compare(wnd, seq))
  /\ UNCHANGED <<needMove, walk, sender, application, left>>

\* ProcNextFrame, Multi_Add_Frame: the frame that completes an open message.
RecvNext(seq) ==
  /\ WorkerFree /\ seq \in Long
  /\ FindMultSequence(seq).reson = "ok"
  /\ HandUp(seq)
  /\ FinishNode(FindMultSequence(seq).pt)
  /\ UNCHANGED <<window, needMove, walk, sender, first, left, edge>>

\* ProcNextFrame without a node: only precheck_by_total has an effect.
RecvNextUnknown(seq) ==
  LET cmp == wnd_compare(wnd, seq)
  IN /\ WorkerFree /\ seq \in Long
     /\ FindMultSequence(seq).reson # "ok"
     /\ cmp = "out_wnd" \/ \E stray \in BOOLEAN : IsAcked(wnd, seq, cmp, stray)
     /\ TurnedDown(cmp)
     /\ UNCHANGED <<window, ring, walk, sender, first, application, left, edge>>

\* SureSenderSeqWnd: the window moves up to what the sender still holds.
SureSenderSeqWnd(begin) ==
  /\ WorkerFree
  /\ wnd_compare(wnd, begin) # "old" /\ begin # wnd.begin
  /\ wnd' = wnd_move(wnd, idx_to_pt(wnd, begin))
  /\ UNCHANGED <<ageing, needMove, ring, walk, sender, first, application, left, edge>>

-----------------------------------------------------------------------------
(***************************************************************************)
(* ProcTimer.                                                              *)
(***************************************************************************)

\* Timer_Total_Maintain: a window that is three quarters full and in which a
\* number found no room is moved by force.
MustMove(w) == needMove /\ range_size(w) >= CAN_MOVE_SIZE
ForcedMove(w) == IF MustMove(w) THEN wnd_move(w, MOVE_SIZE) ELSE w
LeavesBehind(w) ==
  {n \in held \ Arrived : MustMove(w) /\ w.begin <= n /\ n < w.begin + MOVE_SIZE}

\* Timer_Total_Ageing: what was received before the oldest number of the table
\* is left behind.
Aged(w, old) ==
  LET run == wnd_can_move_nums(w)
      age == idx_to_pt(w, old)
      len == IF age > run THEN run ELSE age
  IN IF old = 0 \/ wnd_compare(w, old) \in {"old", "out_wnd"} \/ len = 0
     THEN w ELSE wnd_move(w, len)

\* The walk over the open messages: the index is compared with the end before
\* it is wrapped.
WalkAt(i) == IF i = endPt THEN NoWalk ELSE i

\* The first two parts of ProcTimer; a window without numbers is not touched.
TimerTotal ==
  LET forced == ForcedMove(wnd)
      aged == Aged(forced, oldest(ageing))
  IN /\ WorkerFree
     /\ walk' = WalkAt(beginPt)
     /\ IF range_size(wnd) = 0
        THEN UNCHANGED <<window, left>>
        ELSE /\ wnd' = aged
             /\ ageing' = increase(ageing, forced.end)
             /\ left' = left \cup LeavesBehind(wnd)
     /\ UNCHANGED <<needMove, ring, sender, first, application, edge>>

TimerWalk ==
  /\ walk # NoWalk
  /\ walk' = WalkAt((walk % SLOTS) + 1)
  /\ UNCHANGED <<window, needMove, ring, sender, first, application, left, edge>>

-----------------------------------------------------------------------------
Next ==
  \/ SenderSends
  \/ \E n \in held : SenderFinishes(n)
  \/ \E n \in Sent : RecvKnown(n) \/ RecvOnce(n) \/ RecvFirst(n) \/ RecvNext(n)
                     \/ RecvNextUnknown(n)
  \/ \E n \in RangeBegins : SureSenderSeqWnd(n)
  \/ TimerTotal
  \/ TimerWalk

Spec == Init /\ [][Next]_vars

\* The worker goes on with the loop it is in.
FairSpec == Spec /\ WF_vars(TimerWalk)

-----------------------------------------------------------------------------
\* No message is handed to the application twice, whatever frames come again and
\* however the window has moved over their numbers (the comment of
\* ProcOnceFrame: "the problem of repeated receipt has to be solved"); as long
\* as no number comes near the end of the window.
HandedOnce == edge \/ again = {}

\* What the window takes for seen was seen, among the messages the sender still
\* holds: a frame of a message the receiver does not have is dropped as a
\* repeated one only where the message came before the first that arrived, or
\* was left behind by a move by force; and such a move leaves behind only
\* messages behind which the sender has given out as many numbers as the window
\* holds at that time, less those it moves over.
Lost(n) ==
  n \in left /\ Position(seqNo) - Position(n) >= CAN_MOVE_SIZE - MOVE_SIZE
Had(n) == n \in Arrived \/ Position(n) < Position(first) \/ Lost(n)
SeenWasSeen ==
  \A n \in held : IsAcked(wnd, n, wnd_compare(wnd, n), FALSE) => edge \/ Had(n)

\* The number Notify_AckSeq sends makes the sender free the messages before it:
\* those it still holds have arrived, with their first frame, or were lost as
\* above.
ToldWasSeen ==
  LET told == Notify_AckSeq(wnd)
  IN \A n \in held : told # 0 /\ Position(n) < Position(told) => edge \/ Had(n)
WasSeen == SeenWasSeen /\ ToldWasSeen

\* Between two calls the open messages fill the ring from the begin to the end in
\* the order of their numbers, and none is open twice.
OpenSorted ==
  \/ Open = {} /\ beginPt = endPt
  \/ /\ Used = Span(beginPt, endPt)
     /\ \A j, k \in Used : Dist(beginPt, j) < Dist(beginPt, k) =>
          Position(list[j]) < Position(list[k])

\* The window knows every open message, so that its first frame, when it comes
\* again, does not open it anew.
OpenIsKnown ==
  \A n \in Open : edge \/ IsAcked(wnd, n, wnd_compare(wnd, n), FALSE)
OpenList == OpenSorted /\ OpenIsKnown

\* The walk over the "circular array" comes to its end.
WalkEnds == walk # NoWalk ~> walk = NoWalk

(* What the sources say beyond that, which the code does not keep.           *)

\* The comment in IsAcked (dcf_bits.cpp): "what the window has passed is all OK".
\* A number before the window is that of a message that has arrived, or came
\* before the first one; the move by force leaves behind others.
PassedIsOk ==
  \A n \in held : wnd_compare(wnd, n) = "old" =>
                    edge \/ n \in Arrived \/ Position(n) < Position(first)

\* The comment in SendMsg: "0 is used for frame numbers that need no
\* acknowledgement". The number behind a run of received ones, which
\* Notify_AckSeq announces, is never 0.
AckedIsANumber ==
  wnd_can_move_nums(wnd) # 0 => Notify_AckSeq(wnd) # 0
=============================================================================
