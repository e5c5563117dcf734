--------------------------- MODULE SendQueueProofs ---------------------------
(***************************************************************************)
(* Proofs about SendQueue, for every number of slots. Types hold for any   *)
(* interleaving and any numbers. That the ring keeps its shape and order   *)
(* and loses no message holds when calls of SendMsg and of the worker do   *)
(* not overlap (the run SendQueueRace shows why) and as long as the numbers*)
(* have not wrapped: behind the wrap FindSequence takes a number at the end*)
(* of the list for one before its begin (README, section 6).               *)
(***************************************************************************)
EXTENDS SendQueue, SortedRingProofs

\* Calls of SendMsg and of the worker do not overlap; the last number given out
\* is not below the first.
OneThread == ~Racing
BelowWrap == SEQ_BEGIN <= LastSeq

D(k) == Dist(beginPt, k)

\* Nothing lies outside the span from the begin to the end.
Inside == \A k \in Slots : list[k] # NULL => D(k) <= D(endPt)

\* There is no message at all, or no gap.
Filled ==
  \/ beginPt = endPt /\ list[beginPt] = NULL
  \/ \A k \in Slots : D(k) <= D(endPt) => list[k] # NULL

Shape == worker.at \in {"idle", "timer"} => Filled

\* A call of SendMsg and a loop of the worker do not overlap.
Turns == app.at = "idle" \/ worker.at = "idle"

\* SendMsg between its steps: the slot behind the end is free, then it is the
\* end, and its node has no number.
Queued ==
  /\ app.at = "checked" => app.pt = After(endPt) /\ app.pt # beginPt
  /\ app.at = "placed" => app.pt = endPt /\ list[endPt] # NULL /\ list[endPt].seq = 0
  /\ app.at # "idle" => seqNo < LastSeq

\* Every message was numbered, not before the ranges announced to the peer.
Counted ==
  /\ seqNo \in SEQ_BEGIN .. LastSeq /\ told <= seqNo - SEQ_BEGIN
  /\ \A k \in Slots : list[k] # NULL =>
       \/ SEQ_BEGIN + told < list[k].seq /\ list[k].seq <= seqNo
       \/ list[k].seq = 0 /\ app.at = "placed" /\ k = endPt

\* The same of another list, when every message has a number.
Above(l) ==
  \A k \in Slots :
    l[k] # NULL => SEQ_BEGIN + told < l[k].seq /\ l[k].seq <= seqNo

\* The messages lie in the order of their numbers.
Ordered ==
  \A j, k \in Slots :
    list[j].seq # 0 /\ list[k].seq # 0 /\ D(j) < D(k) => list[j].seq < list[k].seq

\* The first loop of Proc_RecvAckedSeq: what lies before it is a longer message
\* or a gap, what lies behind it is whole, what it still frees was confirmed.
Purging ==
  worker.at = "purge" =>
    /\ list[beginPt] # NULL
    /\ D(worker.pt) <= D(worker.to) /\ D(worker.to) <= D(endPt)
    /\ \A k \in Slots : D(worker.pt) <= D(k) /\ D(k) <= D(endPt) => list[k] # NULL
    /\ \A k \in Slots :
         list[k].total = 1 /\ D(k) < D(worker.to) => list[k].seq \in confirmed

\* The second loop: no gap lies before it, and both ends hold a message.
Compacting ==
  worker.at = "compact" =>
    /\ list[beginPt] # NULL /\ list[endPt] # NULL
    /\ D(worker.pt) <= D(endPt)
    /\ \A k \in Slots : D(k) < D(worker.pt) => list[k] # NULL

IInv ==
  /\ TypeOK /\ Inside /\ Shape /\ Turns /\ Queued /\ Counted /\ Ordered
  /\ Purging /\ Compacting

-----------------------------------------------------------------------------
(***************************************************************************)
(* Nodes, numbers and the helpers of CMsgSender.                           *)
(***************************************************************************)

LEMMA NullIs ==
  /\ NULL \notin Nodes
  /\ NULL.seq = 0 /\ NULL.total = 0 /\ NULL.begin = 0 /\ NULL.spent = FALSE
BY DEF NULL, Nodes

LEMMA NodeIs ==
  ASSUME NEW n \in Nodes \cup {NULL}
  PROVE  /\ n.seq \in 0 .. SEQ_MOD - 1 /\ n.seq \in Nat
         /\ n.seq # 0 => n # NULL
         /\ n # NULL => n \in Nodes /\ n.total \in 1 .. 2 /\ n.begin \in 0 .. 1
                        /\ n.spent \in BOOLEAN
         /\ n.spent \/ n.total # 0 => n # NULL
BY ConstantsAssumption, NullIs DEF Nodes, Seqs

\* A node whose fields are changed is a node.
LEMMA NodeChanged ==
  ASSUME NEW n \in Nodes
  PROVE  /\ \A b \in 0 .. 1, s \in BOOLEAN : [n EXCEPT !.begin = b, !.spent = s] \in Nodes
         /\ \A s \in BOOLEAN : [n EXCEPT !.spent = s] \in Nodes
         /\ \A q \in Seqs : [n EXCEPT !.seq = q] \in Nodes
BY DEF Nodes

LEMMA NumbersAre ==
  ASSUME NEW n \in 0 .. SEQ_MOD - 1
  PROVE  /\ NextSeq(n) \in Seqs
         /\ Position(n) \in 0 .. SEQ_MOD - 1
BY ConstantsAssumption DEF NextSeq, Seqs, Position

LEMMA ListTyped ==
  ASSUME TypeOK
  PROVE  /\ \A k \in Slots : list[k] \in Nodes \cup {NULL}
         /\ list \in [Slots -> Nodes \cup {NULL}]
         /\ Used \subseteq Slots
         /\ Numbers \in [Slots -> Nat] /\ \A k \in Slots : Numbers[k] = list[k].seq
<1>1. \A k \in Slots : list[k] \in Nodes \cup {NULL}
  BY DEF TypeOK
<1>2. \A k \in Slots : list[k].seq \in Nat
  BY <1>1, NodeIs
<1> QED BY <1>1, <1>2 DEF TypeOK, Used, Numbers

\* Full_Search returns no slot or the slot of the number.
LEMMA FullSearchIs ==
  ASSUME TypeOK, NEW seq \in Seqs, NEW pt, pt = Full_Search(seq), pt # SLOTS
  PROVE  pt \in Slots /\ list[pt].seq = seq /\ list[pt] \in Nodes /\ list[pt] # NULL
<1> DEFINE found == {k \in Slots \ {beginPt, endPt} :
                       list[k].seq = seq /\ (beginPt # endPt => k \in Span(beginPt, endPt))}
<1>1. beginPt \in Slots /\ endPt \in Slots /\ seq # 0
  BY DEF TypeOK, Seqs
<1>2. found # {} => Nearest(beginPt, found) \in found
  <2>1. found \subseteq Slots
    OBVIOUS
  <2> HIDE DEF found
  <2> QED BY <1>1, <2>1, NearestIs
<1>3. pt \in Slots /\ list[pt].seq = seq
  BY <1>1, <1>2 DEF Full_Search, GetSequence
<1> QED BY <1>1, <1>3, ListTyped, NodeIs

\* Where Proc_RecvAckedSeq stops is a slot of the list.
LEMMA AckedSlot ==
  ASSUME TypeOK, NEW seq, AckedUpTo(seq) # SLOTS
  PROVE  AckedUpTo(seq) \in Slots
<1> DEFINE found == FindSequence(seq)
           stops == StopsAt(Numbers, Used, beginPt, endPt, seq)
<1>1. beginPt \in Slots /\ endPt \in Slots
  BY DEF TypeOK
<1>2. stops # {} => Nearest(beginPt, stops) \in Slots
  <2>1. stops \subseteq Slots
    BY SpanIs, <1>1 DEF StopsAt
  <2> HIDE DEF stops
  <2> QED BY <1>1, <2>1, NearestIs
<1>3. found.pt \in Slots \/ (found.pt = SLOTS /\ found.reson \in {"old", "new"})
  BY <1>1, <1>2 DEF FindSequence, Search
<1> HIDE DEF found
<1>4. AckedUpTo(seq) = CASE found.reson = "new" -> endPt
                         [] found.reson = "near" -> Before(found.pt)
                         [] OTHER -> found.pt
  BY DEF AckedUpTo, found
<1>5. CASE found.reson = "new"
  BY <1>1, <1>4, <1>5
<1>6. CASE found.reson = "near"
  BY <1>3, <1>4, <1>6, Steps
<1>7. CASE found.reson # "new" /\ found.reson # "near"
  BY <1>3, <1>4, <1>7
<1> QED BY <1>5, <1>6, <1>7

LEMMA FinishTyped ==
  ASSUME TypeOK, NEW pt \in Slots, FinishNode(pt)
  PROVE  list' \in [Slots -> Nodes \cup {NULL}] /\ endPt' \in Slots /\ beginPt' = beginPt
<1>1. \A k \in Slots : After(k) \in Slots /\ Before(k) \in Slots
  BY Steps
<1> QED BY <1>1 DEF FinishNode, TypeOK, Closed

LEMMA RangeTyped ==
  ASSUME told \in 0 .. SEQ_MOD - 1, NEW first \in 0 .. SEQ_MOD - 1, SendSeqRange(first)
  PROVE  told' \in 0 .. SEQ_MOD - 1
BY NumbersAre, ConstantsAssumption DEF SendSeqRange

-----------------------------------------------------------------------------
(***************************************************************************)
(* Types, for any interleaving and any numbers.                            *)
(***************************************************************************)

LEMMA NodeTimerTyped ==
  ASSUME TypeOK, NEW pt \in Slots, NodeTimer(pt)
  PROVE  /\ list' \in [Slots -> Nodes \cup {NULL}] /\ endPt' \in Slots
         /\ beginPt' = beginPt
<1> DEFINE n == list[pt]
<1>1. n \in Nodes \cup {NULL} /\ beginPt \in Slots /\ endPt \in Slots
  BY ListTyped DEF TypeOK
<1>2. CASE FinishNode(pt)
  BY <1>2, FinishTyped
<1>3. CASE /\ n.spent /\ n.begin + 1 < n.total
           /\ list' = [list EXCEPT ![pt].begin = @ + 1, ![pt].spent = FALSE]
           /\ UNCHANGED <<beginPt, endPt>>
  <2>1. n \in Nodes /\ n.begin + 1 \in 0 .. 1
    BY <1>1, <1>3, NodeIs
  <2>2. list' = [list EXCEPT ![pt] = [n EXCEPT !.begin = n.begin + 1, !.spent = FALSE]]
    BY <1>3
  <2>3. [n EXCEPT !.begin = n.begin + 1, !.spent = FALSE] \in Nodes
    BY <2>1, NodeChanged
  <2>4. list \in [Slots -> Nodes \cup {NULL}] /\ beginPt' = beginPt /\ endPt' = endPt
    BY <1>3, ListTyped
  <2>5. \A m \in Nodes : [list EXCEPT ![pt] = m] \in [Slots -> Nodes \cup {NULL}]
    BY <2>4
  <2> QED BY <1>1, <2>2, <2>3, <2>4, <2>5, Zenon
<1>4. CASE /\ n # NULL /\ list' = [list EXCEPT ![pt].spent = TRUE]
           /\ UNCHANGED <<beginPt, endPt>>
  <2>1. [n EXCEPT !.spent = TRUE] \in Nodes
    BY <1>1, <1>4, NodeChanged
  <2>2. list' = [list EXCEPT ![pt] = [n EXCEPT !.spent = TRUE]]
    BY <1>4
  <2> HIDE DEF n
  <2> QED BY <1>1, <1>4, <2>1, <2>2, ListTyped
<1>5. CASE UNCHANGED ring
  BY <1>1, <1>5, ListTyped DEF ring
<1> QED BY <1>2, <1>3, <1>4, <1>5 DEF NodeTimer

LEMMA AppTyped ==
  ASSUME TypeOK, AppStep
  PROVE  TypeOK'
<1>1. /\ beginPt \in Slots /\ endPt \in Slots /\ seqNo \in 0 .. SEQ_MOD - 1
      /\ app \in [at : {"idle", "checked", "placed"}, pt : Slots]
      /\ app.pt \in Slots /\ told \in 0 .. SEQ_MOD - 1
  BY DEF TypeOK
<1>2. list \in [Slots -> Nodes \cup {NULL}]
  BY ListTyped
<1>3. \A k \in Slots : list[k].seq \in 0 .. SEQ_MOD - 1
  BY ListTyped, NodeIs
<1>4. CASE SendRefused
  <2>1. told' \in 0 .. SEQ_MOD - 1
    BY <1>1, <1>3, <1>4, RangeTyped DEF SendRefused, GetSequence
  <2> QED BY <1>4, <2>1 DEF SendRefused, TypeOK, ring
<1>5. CASE SendCheck
  <2>1. app' \in [at : {"idle", "checked", "placed"}, pt : Slots]
    BY <1>1, <1>5, Steps DEF SendCheck
  <2> QED BY <1>5, <2>1 DEF SendCheck, TypeOK, ring
<1>6. ASSUME NEW total \in 1 .. 2, SendPlace(total) PROVE TypeOK'
  <2>1. CopyNode(total) \in Nodes
    BY DEF CopyNode, Nodes
  <2>2. list' \in [Slots -> Nodes \cup {NULL}] /\ endPt' \in Slots
    BY <1>1, <1>2, <1>6, <2>1 DEF SendPlace
  <2>3. beginPt' \in Slots
    <3>1. Used \cup {app.pt} \subseteq Slots
      BY <1>1, ListTyped
    <3> QED BY <1>1, <1>6, <3>1, HeadOfIs DEF SendPlace
  <2>4. app' \in [at : {"idle", "checked", "placed"}, pt : Slots]
    BY <1>1, <1>6 DEF SendPlace
  <2> QED BY <1>6, <2>2, <2>3, <2>4 DEF SendPlace, TypeOK
<1>7. CASE SendNumber
  <2>1. seqNo' \in 0 .. SEQ_MOD - 1 /\ NextSeq(seqNo) \in Seqs
    BY <1>1, <1>7, NumbersAre DEF SendNumber, Seqs
  <2>2. \A k \in Slots : list'[k] \in Nodes \cup {NULL}
    <3> SUFFICES ASSUME NEW k \in Slots PROVE list'[k] \in Nodes \cup {NULL}
      OBVIOUS
    <3>1. list[k] # NULL => [list[k] EXCEPT !.seq = NextSeq(seqNo)] \in Nodes
      BY <1>2, <2>1, NodeChanged
    <3> QED BY <1>2, <1>7, <3>1 DEF SendNumber
  <2>3. list' \in [Slots -> Nodes \cup {NULL}]
    BY <1>7, <2>2 DEF SendNumber
  <2>4. app' \in [at : {"idle", "checked", "placed"}, pt : Slots]
    BY <1>7, SlotsAre DEF SendNumber, NotSending
  <2> QED BY <1>7, <2>1, <2>3, <2>4 DEF SendNumber, TypeOK
<1> QED BY <1>4, <1>5, <1>6, <1>7 DEF AppStep

LEMMA AnswerTyped ==
  ASSUME TypeOK, NEW seq \in Seqs,
         \/ RecvReject(seq)
         \/ \E cur \in 1 .. 2 : RecvAck(seq, cur)
         \/ RecvAsk(seq)
         \/ RecvAckedSeq(seq)
  PROVE  TypeOK'
<1> DEFINE pt == Full_Search(seq)
<1>1. /\ beginPt \in Slots /\ endPt \in Slots /\ confirmed \in SUBSET Seqs
      /\ list \in [Slots -> Nodes \cup {NULL}] /\ SEQ_MOD \in Nat
  BY ConstantsAssumption DEF TypeOK
<1>2. pt # SLOTS => pt \in Slots /\ list[pt] \in Nodes /\ list[pt].seq = seq
  BY FullSearchIs
<1>3. CASE RecvReject(seq)
  <2>1. list' \in [Slots -> Nodes \cup {NULL}] /\ endPt' \in Slots /\ beginPt' = beginPt
    <3> HIDE DEF pt
    <3>1. pt # SLOTS /\ FinishNode(pt)
      BY <1>3 DEF RecvReject, pt
    <3> QED BY <1>2, <3>1, FinishTyped
  <2> QED BY <1>1, <1>3, <2>1 DEF RecvReject, TypeOK
<1>4. ASSUME NEW cur \in 1 .. 2, RecvAck(seq, cur) PROVE TypeOK'
  <2> HIDE DEF pt
  <2>0. pt # SLOTS /\ cur > list[pt].begin /\ cur <= list[pt].total
    BY <1>4 DEF RecvAck, pt
  <2>1. CASE cur = list[pt].total
    <3>1. FinishNode(pt) /\ confirmed' = confirmed \cup {seq}
      BY <1>4, <2>1 DEF RecvAck, pt
    <3>2. list' \in [Slots -> Nodes \cup {NULL}] /\ endPt' \in Slots /\ beginPt' = beginPt
      BY <1>2, <2>0, <3>1, FinishTyped
    <3> QED BY <1>1, <1>4, <3>1, <3>2 DEF RecvAck, TypeOK
  <2>2. CASE cur # list[pt].total
    <3>1. list' = [list EXCEPT ![pt] = [list[pt] EXCEPT !.begin = cur, !.spent = FALSE]]
      BY <1>4, <2>2 DEF RecvAck, pt
    <3>2. cur \in 0 .. 1
      BY <1>2, <2>0, <2>2, NodeIs
    <3>3. [list[pt] EXCEPT !.begin = cur, !.spent = FALSE] \in Nodes
      BY <1>2, <2>0, <3>2, NodeChanged
    <3>4. list' \in [Slots -> Nodes \cup {NULL}]
      BY <1>1, <3>1, <3>3
    <3>5. UNCHANGED <<beginPt, endPt, confirmed>>
      BY <1>4, <2>2 DEF RecvAck, pt
    <3> QED BY <1>4, <3>4, <3>5 DEF RecvAck, TypeOK
  <2> QED BY <2>1, <2>2
<1>5. CASE RecvAsk(seq)
  <2> HIDE DEF pt
  <2>1. pt # SLOTS /\ list' = [list EXCEPT ![pt] = [list[pt] EXCEPT !.spent = TRUE]]
    BY <1>5 DEF RecvAsk, pt
  <2>2. [list[pt] EXCEPT !.spent = TRUE] \in Nodes
    BY <1>2, <2>1, NodeChanged
  <2>3. list' \in [Slots -> Nodes \cup {NULL}]
    BY <1>1, <2>1, <2>2
  <2> QED BY <1>5, <2>3 DEF RecvAsk, TypeOK
<1>6. CASE RecvAckedSeq(seq)
  <2>1. worker' \in [at : {"idle", "timer", "purge", "compact"}, pt : Slots, to : Slots,
                     seq : 0 .. SEQ_MOD - 1]
    <3>1. AckedUpTo(seq) \in Slots
      BY <1>6, AckedSlot DEF RecvAckedSeq
    <3>2. seq \in 0 .. SEQ_MOD - 1
      BY <1>1 DEF Seqs
    <3> QED BY <1>1, <1>6, <3>1, <3>2 DEF RecvAckedSeq
  <2>2. confirmed' \in SUBSET Seqs
    <3>1. \A n \in Held : n.seq # 0 => n.seq \in Seqs
      BY <1>1, ListTyped, NodeIs DEF Held, Seqs
    <3> QED BY <1>1, <1>6, <3>1 DEF RecvAckedSeq
  <2> QED BY <1>6, <2>1, <2>2 DEF RecvAckedSeq, TypeOK, ring
<1> QED BY <1>3, <1>4, <1>5, <1>6

LEMMA LoopTyped ==
  ASSUME TypeOK, WorkerStep \/ TimerStart
  PROVE  TypeOK'
<1> DEFINE Workers == [at : {"idle", "timer", "purge", "compact"}, pt : Slots, to : Slots,
                       seq : 0 .. SEQ_MOD - 1]
<1>1. /\ beginPt \in Slots /\ endPt \in Slots /\ list \in [Slots -> Nodes \cup {NULL}]
      /\ worker \in Workers /\ worker.pt \in Slots /\ After(worker.pt) \in Slots
      /\ After(beginPt) \in Slots /\ Before(endPt) \in Slots
  BY Steps DEF TypeOK
<1>2. Idle \in Workers
  BY SlotsAre, ConstantsAssumption DEF Idle
<1>3. \A p \in Slots : [worker EXCEPT !.pt = p] \in Workers
  BY <1>1
<1>4. CASE Purge
  <2>1. CASE worker.pt = worker.to
    <3>1. worker' \in Workers
      BY <1>1, <1>4, <2>1 DEF Purge
    <3> QED BY <1>4, <2>1, <3>1 DEF Purge, TypeOK, ring
  <2>2. CASE worker.pt # worker.to
    <3>1. worker' \in Workers
      BY <1>1, <1>3, <1>4, <2>2 DEF Purge
    <3>2. list' \in [Slots -> Nodes \cup {NULL}]
      BY <1>1, <1>4, <2>2 DEF Purge
    <3>3. beginPt' \in Slots /\ endPt' = endPt
      BY <1>1, <1>4, <2>2 DEF Purge
    <3> QED BY <1>4, <3>1, <3>2, <3>3 DEF Purge, TypeOK
  <2> QED BY <2>1, <2>2
<1>5. CASE Compact
  <2>1. CASE /\ worker.pt # endPt /\ list[worker.pt] = NULL
             /\ list' = Closed(list, endPt, worker.pt, NULL)
             /\ endPt' = Before(endPt)
             /\ beginPt' = IF beginPt = worker.pt THEN After(beginPt) ELSE beginPt
             /\ UNCHANGED worker
    <3>1. list' \in [Slots -> Nodes \cup {NULL}]
      BY <1>1, <2>1, Steps DEF Closed
    <3> QED BY <1>1, <1>5, <2>1, <3>1 DEF Compact, TypeOK
  <2>2. CASE /\ worker' = [worker EXCEPT !.pt = After(@)]
             /\ UNCHANGED ring
    BY <1>1, <1>3, <1>5, <2>2 DEF Compact, TypeOK, ring
  <2>3. CASE /\ worker' = Idle
             /\ endPt' = IF list[endPt] = NULL /\ beginPt # endPt THEN Before(endPt) ELSE endPt
             /\ UNCHANGED <<list, beginPt>>
    BY <1>1, <1>2, <1>5, <2>3 DEF Compact, TypeOK
  <2> QED BY <1>5, <2>1, <2>2, <2>3 DEF Compact
<1>6. CASE TimerStep
  <2>1. /\ list' \in [Slots -> Nodes \cup {NULL}] /\ endPt' \in Slots
        /\ beginPt' = beginPt
    BY <1>1, <1>6, NodeTimerTyped DEF TimerStep
  <2>2. worker' \in Workers
    BY <1>1, <1>2, <1>3, <1>6 DEF TimerStep
  <2>3. told' \in 0 .. SEQ_MOD - 1
    <3>1. list'[beginPt].seq \in 0 .. SEQ_MOD - 1
      BY <1>1, <2>1, NodeIs
    <3>2. told \in 0 .. SEQ_MOD - 1
      BY DEF TypeOK
    <3> QED BY <1>6, <3>1, <3>2, RangeTyped DEF TimerStep
  <2> QED BY <1>1, <1>6, <2>1, <2>2, <2>3 DEF TimerStep, TypeOK
<1>7. CASE TimerStart
  <2>1. worker' \in Workers
    BY <1>1, <1>2, <1>7 DEF TimerStart
  <2> QED BY <1>7, <2>1 DEF TimerStart, TypeOK, ring
<1> QED BY <1>4, <1>5, <1>6, <1>7 DEF WorkerStep

\* Types: m_beginPt, m_endPt and the positions of the loops are slots, a node
\* keeps its frames and numbers within their bounds, on one thread or on two.
THEOREM QueueTypeCorrect == Spec => []TypeOK
<1>1. Init => TypeOK
  BY ConstantsAssumption, SlotsAre
  DEF Init, TypeOK, NotSending, Idle, Slots, Seqs
<1>2. TypeOK /\ [Next]_vars => TypeOK'
  <2> SUFFICES ASSUME TypeOK, [Next]_vars PROVE TypeOK'
    OBVIOUS
  <2>1. CASE AppStep
    BY <2>1, AppTyped
  <2>2. CASE WorkerStep \/ TimerStart
    BY <2>2, LoopTyped
  <2>3. ASSUME NEW seq \in Seqs,
               \/ RecvReject(seq)
               \/ \E cur \in 1 .. 2 : RecvAck(seq, cur)
               \/ RecvAsk(seq)
               \/ RecvAckedSeq(seq)
        PROVE  TypeOK'
    BY <2>3, AnswerTyped
  <2>4. CASE UNCHANGED vars
    BY <2>4 DEF vars, ring, TypeOK
  <2> QED BY <2>1, <2>2, <2>3, <2>4 DEF Next
<1> QED BY <1>1, <1>2, PTL DEF Spec

-----------------------------------------------------------------------------
(***************************************************************************)
(* What the steps of the list have in common, below the wrap.              *)
(***************************************************************************)

LEMMA Below ==
  ASSUME BelowWrap
  PROVE  /\ SEQ_BEGIN \in Nat /\ LastSeq \in Nat /\ LastSeq < SEQ_MOD /\ SEQ_MOD \in Nat
         /\ \A n \in Nat : SEQ_BEGIN <= n => Position(n) = n - SEQ_BEGIN
         /\ \A n \in Nat : SEQ_BEGIN <= n /\ n < LastSeq => NextSeq(n) = n + 1
BY ConstantsAssumption DEF BelowWrap, Position, NextSeq

LEMMA Facts ==
  ASSUME IInv
  PROVE  /\ beginPt \in Slots /\ endPt \in Slots /\ worker.pt \in Slots /\ worker.to \in Slots
         /\ \A k \in Slots : D(k) \in Nat /\ D(k) < SLOTS
         /\ D(beginPt) = 0
         /\ seqNo \in Nat /\ told \in Nat /\ SEQ_BEGIN \in Nat
         /\ SEQ_BEGIN <= seqNo /\ seqNo <= LastSeq
         /\ \A k \in Slots : list[k].seq \in Nat /\ (list[k].seq # 0 => list[k] # NULL)
<1>1. /\ beginPt \in Slots /\ endPt \in Slots /\ worker.pt \in Slots /\ worker.to \in Slots
      /\ seqNo \in 0 .. SEQ_MOD - 1 /\ told \in 0 .. SEQ_MOD - 1
  BY DEF IInv, TypeOK
<1>2. \A k \in Slots : list[k].seq \in Nat /\ (list[k].seq # 0 => list[k] # NULL)
  <2>1. TypeOK
    BY DEF IInv
  <2> QED BY <2>1, ListTyped, NodeIs
<1>3. SEQ_BEGIN <= seqNo /\ seqNo <= LastSeq
  BY DEF IInv, Counted
<1> QED BY <1>1, <1>2, <1>3, Distances, ConstantsAssumption DEF D

\* Between two calls every message has a number.
LEMMA AllNumbered ==
  ASSUME IInv, app.at # "placed", NEW k \in Slots, list[k] # NULL
  PROVE  list[k].seq # 0 /\ SEQ_BEGIN + told < list[k].seq /\ list[k].seq <= seqNo
BY Facts DEF IInv, Counted

\* What a step leaves of Counted when it announces no range.
LEMMA CountedNext ==
  ASSUME IInv, Above(list'), UNCHANGED <<seqNo, told>>
  PROVE  Counted'
BY DEF IInv, Counted, Above

\* The nodes change, the messages and their places do not.
LEMMA Touched ==
  ASSUME IInv, app.at = "idle", UNCHANGED <<beginPt, endPt, seqNo, app>>,
         \A k \in Slots : list'[k].seq = list[k].seq /\ (list'[k] = NULL <=> list[k] = NULL)
  PROVE  Inside' /\ (Filled => Filled') /\ Queued' /\ Above(list') /\ Ordered'
<1>1. beginPt \in Slots /\ endPt \in Slots
  BY Facts
<1>2. Inside' /\ (Filled => Filled')
  BY <1>1 DEF IInv, Inside, Filled, D
<1>3. Queued'
  BY DEF Queued
<1>4. Above(list')
  BY AllNumbered DEF Above
<1>5. Ordered'
  BY DEF IInv, Ordered, D
<1> QED BY <1>2, <1>3, <1>4, <1>5

\* A slot is closed: its node is gone, the others keep their order.
LEMMA Closes ==
  ASSUME IInv, app.at = "idle", NEW pt \in Slots, D(pt) <= D(endPt),
         list' = Closed(list, endPt, pt, NULL),
         endPt' = IF endPt # beginPt THEN Before(endPt) ELSE endPt,
         UNCHANGED <<beginPt, seqNo, app>>
  PROVE  /\ Inside' /\ Queued' /\ Above(list') /\ Ordered'
         /\ Kept(list', list, NULL, pt) /\ Shifted(list', list, NULL, beginPt, endPt, pt)
         /\ \A k \in Slots : D(k)' = D(k)
         /\ D(endPt)' = IF endPt # beginPt THEN D(endPt) - 1 ELSE 0
<1>1. /\ beginPt \in Slots /\ endPt \in Slots /\ D(endPt) \in Nat
      /\ \A k \in Slots : D(k) \in Nat /\ D(k) = Dist(beginPt, k) /\ D(k)' = D(k)
  BY Facts DEF D
<1>2. Lies(list, NULL, beginPt, Dist(beginPt, endPt) + 1)
  BY <1>1 DEF IInv, Inside, Lies
<1>3. /\ Shifted(list', list, NULL, beginPt, endPt, pt)
      /\ Lies(list', NULL, beginPt, Dist(beginPt, endPt))
      /\ Kept(list', list, NULL, pt) /\ SameOrder(list', list, NULL, beginPt)
  <2>1. Dist(beginPt, pt) <= Dist(beginPt, endPt) /\ beginPt \in Slots /\ endPt \in Slots
    BY <1>1 DEF D
  <2> QED BY <1>2, <2>1, ClosedKeeps
<1>4. /\ endPt' \in Slots
      /\ D(endPt)' = IF endPt # beginPt THEN D(endPt) - 1 ELSE 0
  BY <1>1, Steps, DistAfter, Distances DEF D
<1>5. Inside'
  <2> SUFFICES ASSUME NEW k \in Slots, list'[k] # NULL PROVE D(k) <= D(endPt)'
    BY <1>1 DEF Inside
  <2>1. D(k) < D(endPt) /\ D(k) \in Nat /\ D(endPt) \in Nat
    BY <1>1, <1>3 DEF Lies
  <2>2. endPt # beginPt
    BY <1>1, <2>1, Facts
  <2> QED BY <1>4, <2>1, <2>2
<1>6. Queued'
  BY DEF Queued
<1>7. Above(list')
  <2> SUFFICES ASSUME NEW k \in Slots, list'[k] # NULL
               PROVE  SEQ_BEGIN + told < list'[k].seq /\ list'[k].seq <= seqNo
    BY DEF Above
  <2>1. PICK j \in Slots : list'[k] = list[j]
    BY <1>3 DEF Kept
  <2> QED BY <2>1, AllNumbered
<1>8. Ordered'
  <2> SUFFICES ASSUME NEW j \in Slots, NEW k \in Slots,
                      list'[j].seq # 0, list'[k].seq # 0, D(j) < D(k)
               PROVE  list'[j].seq < list'[k].seq
    BY <1>1 DEF Ordered
  <2>1. list'[j] # NULL /\ list'[k] # NULL
    BY NullIs
  <2>2. \E x, y \in Slots :
          list'[j] = list[x] /\ list'[k] = list[y] /\ Dist(beginPt, x) < Dist(beginPt, y)
    BY <1>1, <1>3, <2>1 DEF SameOrder
  <2> QED BY <2>2 DEF IInv, Ordered, D
<1> QED BY <1>1, <1>3, <1>4, <1>5, <1>6, <1>7, <1>8

\* FinishNode leaves no gap.
LEMMA Finished ==
  ASSUME IInv, app.at = "idle", Filled, NEW pt \in Slots, list[pt] # NULL, FinishNode(pt),
         UNCHANGED <<seqNo, app>>
  PROVE  /\ Inside' /\ Filled' /\ Queued' /\ Above(list') /\ Ordered'
         /\ Kept(list', list, NULL, pt)
<1>1. /\ beginPt \in Slots /\ endPt \in Slots /\ D(endPt) \in Nat /\ D(pt) \in Nat
      /\ \A k \in Slots : D(k) \in Nat
  BY Facts
<1>2. D(pt) <= D(endPt)
  BY DEF IInv, Inside
<1>3. \A k \in Slots : D(k) <= D(endPt) => list[k] # NULL
  <2>1. CASE beginPt = endPt /\ list[beginPt] = NULL
    <3>1. D(endPt) = 0 /\ D(pt) = 0
      BY <1>1, <1>2, <2>1, Facts
    <3> QED BY <1>1, <2>1, <3>1, Distances DEF D
  <2> QED BY <2>1 DEF Filled
<1>4. /\ list' = Closed(list, endPt, pt, NULL)
      /\ endPt' = IF endPt # beginPt THEN Before(endPt) ELSE endPt
      /\ UNCHANGED <<beginPt, seqNo, app>>
  BY DEF FinishNode
<1>5. /\ Inside' /\ Queued' /\ Above(list') /\ Ordered'
      /\ Kept(list', list, NULL, pt) /\ Shifted(list', list, NULL, beginPt, endPt, pt)
      /\ \A k \in Slots : D(k)' = D(k)
      /\ D(endPt)' = IF endPt # beginPt THEN D(endPt) - 1 ELSE 0
  BY <1>2, <1>4, Closes
<1>6. Filled'
  <2>1. CASE endPt = beginPt
    BY <1>1, <1>4, <1>5, <2>1 DEF Filled, Shifted
  <2>2. CASE endPt # beginPt
    <3> SUFFICES ASSUME NEW k \in Slots, D(k) <= D(endPt) - 1 PROVE list'[k] # NULL
      BY <1>5, <2>2 DEF Filled
    <3>1. D(k) < D(endPt) /\ D(k) <= D(endPt) /\ D(k) + 1 <= D(endPt) /\ D(k) \in Nat
      BY <1>1
    <3>2. CASE D(k) < D(pt)
      BY <1>3, <1>5, <3>1, <3>2 DEF Shifted, D
    <3>3. CASE ~(D(k) < D(pt))
      <4>1. D(pt) <= D(k)
        BY <1>1, <3>3
      <4>2. list'[k] = list[After(k)] /\ After(k) \in Slots /\ D(After(k)) = D(k) + 1
        BY <1>5, <3>1, <4>1 DEF Shifted, D
      <4> QED BY <1>3, <3>1, <4>2
    <3> QED BY <3>2, <3>3
  <2> QED BY <2>1, <2>2
<1> QED BY <1>5, <1>6

\* The range that is announced ends before the first message, so before all.
LEMMA RangeKept ==
  ASSUME BelowWrap, NEW l \in [Slots -> Nodes \cup {NULL}], NEW b \in Slots,
         NEW q \in Nat, SEQ_BEGIN <= q, q <= LastSeq, told \in Nat, told <= q - SEQ_BEGIN,
         \A k \in Slots : l[k] # NULL => SEQ_BEGIN + told < l[k].seq /\ l[k].seq <= q,
         \A j, k \in Slots : l[j].seq # 0 /\ l[k].seq # 0 /\ Dist(b, j) < Dist(b, k) =>
                               l[j].seq < l[k].seq,
         SendSeqRange(l[b].seq)
  PROVE  /\ told' \in Nat /\ told' <= q - SEQ_BEGIN
         /\ \A k \in Slots : l[k] # NULL => SEQ_BEGIN + told' < l[k].seq
<1>1. \A k \in Slots : l[k].seq \in Nat /\ (l[k].seq # 0 => l[k] # NULL)
  BY NodeIs
<1>2. CASE l[b].seq = 0 \/ ~(Position(l[b].seq) - 1 > told)
  BY <1>2 DEF SendSeqRange
<1>3. CASE l[b].seq # 0 /\ Position(l[b].seq) - 1 > told
  <2>1. /\ SEQ_BEGIN + told < l[b].seq /\ l[b].seq <= q /\ l[b].seq \in Nat
        /\ SEQ_BEGIN \in Nat
    BY <1>1, <1>3, Below
  <2>2. Position(l[b].seq) = l[b].seq - SEQ_BEGIN
    BY <2>1, Below
  <2>3. told' = l[b].seq - SEQ_BEGIN - 1
    BY <1>3, <2>2 DEF SendSeqRange
  <2>4. ASSUME NEW k \in Slots, l[k] # NULL PROVE l[b].seq <= l[k].seq
    <3>1. CASE k = b
      BY <1>1, <3>1
    <3>2. CASE k # b
      <4>1. Dist(b, b) < Dist(b, k)
        BY <3>2, Distances
      <4>2. l[k].seq # 0
        BY <1>1, <2>1, <2>4
      <4> QED BY <1>1, <1>3, <4>1, <4>2
    <3> QED BY <3>1, <3>2
  <2> QED BY <1>1, <1>3, <2>1, <2>2, <2>3, <2>4
<1> QED BY <1>2, <1>3

\* Every message is still in the list, or confirmed, or tried for the last time.
Keeps ==
  \A k \in Slots : list[k].seq # 0 =>
    \/ \E j \in Slots : list'[j].seq = list[k].seq
    \/ list[k].seq \in confirmed'
    \/ list[k].spent /\ list[k].begin + 1 >= list[k].total

\* Proc_RecvAckedSeq frees nothing but numbers below the one acknowledged.
LEMMA AckedBefore ==
  ASSUME IInv, BelowWrap, app.at # "placed", NEW seq \in Seqs,
         GetSequence(beginPt) # 0, GetSequence(endPt) # 0,
         NEW to, to = AckedUpTo(seq), to # SLOTS
  PROVE  /\ to \in Slots /\ D(to) <= D(endPt)
         /\ \A k \in Slots : list[k] # NULL /\ D(k) < D(to) =>
              Position(list[k].seq) < Position(seq)
<1> DEFINE r == FindSequence(seq)
<1>1. /\ beginPt \in Slots /\ endPt \in Slots /\ D(endPt) \in Nat /\ D(beginPt) = 0
      /\ \A k \in Slots : D(k) \in Nat /\ list[k].seq \in Nat
      /\ list[beginPt].seq # 0 /\ list[endPt].seq # 0
  BY Facts DEF GetSequence
<1>2. seq \in Nat /\ SEQ_BEGIN \in Nat
  BY Below DEF Seqs
<1>3. /\ Numbers \in [Slots -> Nat] /\ Used \subseteq Slots
      /\ \A k \in Slots : Numbers[k] = list[k].seq
  <2>1. TypeOK
    BY DEF IInv
  <2> QED BY <2>1, ListTyped
<1>4. \A k \in Slots : list[k] # NULL => list[k].seq # 0 /\ SEQ_BEGIN < list[k].seq
  <2> SUFFICES ASSUME NEW k \in Slots, list[k] # NULL
               PROVE  list[k].seq # 0 /\ SEQ_BEGIN < list[k].seq
    OBVIOUS
  <2>1. list[k].seq # 0 /\ SEQ_BEGIN + told < list[k].seq
    BY AllNumbered
  <2> QED BY <1>1, <2>1, Facts
<1>5. \A j, k \in Slots :
        list[j].seq # 0 /\ list[k].seq # 0 /\ D(j) < D(k) => list[j].seq < list[k].seq
  BY DEF IInv, Ordered
<1>6. Numbers[beginPt] # 0 /\ Numbers[beginPt] <= Numbers[endPt]
  <2>1. CASE beginPt = endPt
    BY <1>1, <1>3, <2>1
  <2>2. CASE beginPt # endPt
    <3>1. D(beginPt) < D(endPt)
      BY <1>1, <2>2, Distances DEF D
    <3> QED BY <1>1, <1>3, <1>5, <3>1
  <2> QED BY <2>1, <2>2
<1>7. \/ r = [reson |-> "old", pt |-> SLOTS]
      \/ r = [reson |-> "new", pt |-> SLOTS] /\ seq > Numbers[endPt]
      \/ /\ r.reson = "ok" /\ r.pt \in Slots /\ Dist(beginPt, r.pt) <= Dist(beginPt, endPt)
         /\ Numbers[r.pt] = seq
      \/ /\ r.reson = "near" /\ r.pt \in Used /\ Dist(beginPt, r.pt) <= Dist(beginPt, endPt)
         /\ Numbers[beginPt] < seq /\ Numbers[r.pt] > seq
         /\ \A k \in Used : Dist(beginPt, k) < Dist(beginPt, r.pt) => Numbers[k] < seq
  <2>1. r = Search(Numbers, Used, beginPt, endPt, seq)
    BY DEF FindSequence
  <2> HIDE DEF r
  <2> QED BY <1>1, <1>2, <1>3, <1>6, <2>1, SearchUnwrapped
<1>8. to = CASE r.reson = "new" -> endPt
             [] r.reson = "near" -> Before(r.pt)
             [] OTHER -> r.pt
  BY DEF AckedUpTo
<1> HIDE DEF r
<1>9. SUFFICES /\ to \in Slots /\ D(to) <= D(endPt)
               /\ \A k \in Slots : list[k] # NULL /\ D(k) < D(to) => list[k].seq < seq
  <2> SUFFICES ASSUME NEW k \in Slots, list[k] # NULL, list[k].seq < seq
               PROVE  Position(list[k].seq) < Position(seq)
    BY <1>9
  <2>1. SEQ_BEGIN < list[k].seq /\ list[k].seq \in Nat
    BY <1>1, <1>4
  <2>2. Position(list[k].seq) = list[k].seq - SEQ_BEGIN /\ Position(seq) = seq - SEQ_BEGIN
    BY <1>2, <2>1, Below
  <2> QED BY <1>2, <2>1, <2>2
<1>10. CASE r = [reson |-> "old", pt |-> SLOTS]
  BY <1>8, <1>10
<1>11. CASE r = [reson |-> "new", pt |-> SLOTS] /\ seq > Numbers[endPt]
  <2>1. to = endPt
    BY <1>8, <1>11
  <2>2. list[endPt].seq < seq
    BY <1>1, <1>2, <1>3, <1>11
  <2>3. \A k \in Slots : list[k] # NULL /\ D(k) < D(endPt) => list[k].seq < list[endPt].seq
    BY <1>1, <1>4, <1>5
  <2> QED BY <1>1, <1>2, <2>1, <2>2, <2>3
<1>12. CASE /\ r.reson = "ok" /\ r.pt \in Slots /\ Dist(beginPt, r.pt) <= Dist(beginPt, endPt)
            /\ Numbers[r.pt] = seq
  <2>1. to = r.pt
    BY <1>8, <1>12
  <2>2. list[to].seq = seq /\ to \in Slots /\ seq # 0
    BY <1>3, <1>12, <2>1 DEF Seqs
  <2>3. \A k \in Slots : list[k] # NULL /\ D(k) < D(to) => list[k].seq < seq
    BY <1>4, <1>5, <2>2
  <2> QED BY <1>12, <2>1, <2>2, <2>3 DEF D
<1>13. CASE /\ r.reson = "near" /\ r.pt \in Used /\ Dist(beginPt, r.pt) <= Dist(beginPt, endPt)
            /\ Numbers[beginPt] < seq /\ Numbers[r.pt] > seq
            /\ \A k \in Used : Dist(beginPt, k) < Dist(beginPt, r.pt) => Numbers[k] < seq
  <2>1. to = Before(r.pt) /\ r.pt \in Slots
    BY <1>3, <1>8, <1>13
  <2>2. r.pt # beginPt
    <3>1. \A k \in Slots : Numbers[k] \in Nat
      BY <1>3
    <3> QED BY <1>1, <1>2, <1>13, <2>1, <3>1
  <2>3. to \in Slots /\ D(to) = D(r.pt) - 1
    BY <1>1, <2>1, <2>2, Steps, DistAfter DEF D
  <2>4. D(r.pt) <= D(endPt) /\ D(r.pt) \in Nat
    BY <1>1, <1>13, <2>1 DEF D
  <2>5. ASSUME NEW k \in Slots, list[k] # NULL, D(k) < D(to) PROVE list[k].seq < seq
    <3>1. k \in Used
      BY <2>5 DEF Used
    <3>2. Dist(beginPt, k) < Dist(beginPt, r.pt)
      <4>1. D(k) < D(r.pt)
        BY <1>1, <2>3, <2>4, <2>5
      <4> QED BY <4>1 DEF D
    <3> QED BY <1>3, <1>13, <3>1, <3>2
  <2> QED BY <1>1, <2>3, <2>4, <2>5
<1> QED BY <1>7, <1>10, <1>11, <1>12, <1>13

-----------------------------------------------------------------------------
(***************************************************************************)
(* SendMsg.                                                                *)
(***************************************************************************)

\* What SendMsg finds when it starts: the list as it is between two calls.
LEMMA Starts ==
  ASSUME IInv, OneThread, app.at # "idle" \/ worker.at = "idle"
  PROVE  worker.at = "idle" /\ Filled
BY DEF IInv, Turns, Shape

\* The loops' parts of the invariant say nothing while the worker is idle.
LEMMA NoLoop ==
  ASSUME worker'.at = "idle"
  PROVE  Turns' /\ Purging' /\ Compacting' /\ (Filled' => Shape')
BY DEF Turns, Purging, Compacting, Shape

LEMMA RefusedInv ==
  ASSUME IInv, OneThread, BelowWrap, SendRefused
  PROVE  IInv' /\ Keeps
<1>1. app.at = "idle" /\ UNCHANGED <<list, beginPt, endPt, seqNo, app, worker, confirmed>>
  BY DEF SendRefused, ring
<1>2. worker.at = "idle" /\ Filled
  BY DEF OneThread, SendRefused, IInv, Shape
<1>3. /\ told' \in Nat /\ told' <= seqNo - SEQ_BEGIN
      /\ \A k \in Slots : list[k] # NULL => SEQ_BEGIN + told' < list[k].seq
  <2>1. /\ list \in [Slots -> Nodes \cup {NULL}] /\ beginPt \in Slots
        /\ seqNo \in Nat /\ SEQ_BEGIN <= seqNo /\ seqNo <= LastSeq
        /\ told \in Nat /\ told <= seqNo - SEQ_BEGIN
    BY Facts, ListTyped DEF IInv, Counted
  <2>2. \A k \in Slots :
          list[k] # NULL => SEQ_BEGIN + told < list[k].seq /\ list[k].seq <= seqNo
    BY <1>1, AllNumbered
  <2>3. \A j, k \in Slots :
          list[j].seq # 0 /\ list[k].seq # 0 /\ Dist(beginPt, j) < Dist(beginPt, k) =>
            list[j].seq < list[k].seq
    BY DEF IInv, Ordered, D
  <2>4. SendSeqRange(list[beginPt].seq)
    BY DEF SendRefused, GetSequence
  <2> QED BY <2>1, <2>2, <2>3, <2>4, RangeKept
<1>4. TypeOK'
  BY AppTyped DEF AppStep, IInv
<1>5. Inside' /\ Filled' /\ Ordered' /\ Queued'
  BY <1>1, <1>2 DEF IInv, Inside, Filled, Ordered, Queued, D
<1>6. Counted'
  BY <1>1, <1>3, AllNumbered DEF IInv, Counted
<1>7. Turns' /\ Purging' /\ Compacting' /\ Shape'
  BY <1>1, <1>2, <1>5, NoLoop
<1>8. Keeps
  BY <1>1 DEF Keeps
<1> QED BY <1>4, <1>5, <1>6, <1>7, <1>8 DEF IInv

LEMMA CheckInv ==
  ASSUME IInv, OneThread, BelowWrap, SendCheck
  PROVE  IInv' /\ Keeps
<1>1. /\ app.at = "idle" /\ app' = [at |-> "checked", pt |-> After(endPt)]
      /\ After(endPt) # beginPt /\ seqNo # LastSeq
      /\ UNCHANGED <<list, beginPt, endPt, seqNo, worker, confirmed, told>>
  BY DEF SendCheck, ring
<1>2. worker.at = "idle" /\ Filled
  BY DEF OneThread, SendCheck, IInv, Shape
<1>3. TypeOK'
  BY AppTyped DEF AppStep, IInv
<1>4. Inside' /\ Filled' /\ Ordered'
  BY <1>1, <1>2 DEF IInv, Inside, Filled, Ordered, D
<1>5. Queued'
  <2>1. seqNo < LastSeq
    BY <1>1, Facts, Below
  <2> QED BY <1>1, <2>1 DEF Queued
<1>6. Counted'
  BY <1>1 DEF IInv, Counted
<1>7. Turns' /\ Purging' /\ Compacting' /\ Shape'
  BY <1>1, <1>2, <1>4, NoLoop
<1>8. Keeps
  BY <1>1 DEF Keeps
<1> QED BY <1>3, <1>4, <1>5, <1>6, <1>7, <1>8 DEF IInv

\* The node is stored behind the end, in a slot that was free.
LEMMA PlaceInv ==
  ASSUME IInv, OneThread, BelowWrap, NEW total \in 1 .. 2, SendPlace(total)
  PROVE  IInv' /\ Keeps
<1> DEFINE n == CopyNode(total)
           p == app.pt
<1>1. /\ app.at = "checked" /\ list' = [list EXCEPT ![p] = n] /\ endPt' = p
      /\ beginPt' = HeadOf(Used \cup {p}, beginPt, p)
      /\ app' = [app EXCEPT !.at = "placed"]
      /\ UNCHANGED <<seqNo, worker, confirmed, told>>
  BY DEF SendPlace
<1>2. worker.at = "idle" /\ Filled
  BY <1>1, Starts
<1>3. n # NULL /\ n.seq = 0
  BY DEF n, CopyNode, NULL
<1>4. /\ p \in Slots /\ p = After(endPt) /\ p # beginPt /\ seqNo < LastSeq
      /\ beginPt \in Slots /\ endPt \in Slots /\ app' = [at |-> "placed", pt |-> p]
  <2>1. app \in [at : {"idle", "checked", "placed"}, pt : Slots]
    BY DEF IInv, TypeOK
  <2> QED BY <1>1, <2>1, Facts DEF IInv, Queued
<1>5. D(p) = D(endPt) + 1 /\ D(endPt) \in Nat /\ \A k \in Slots : D(k) \in Nat
  BY <1>4, Facts, DistAfter DEF D
<1>6. list[p] = NULL
  BY <1>4, <1>5 DEF IInv, Inside
<1>7. list \in [Slots -> Nodes \cup {NULL}]
  BY DEF IInv, TypeOK
<1> HIDE DEF n, p
<1>8. \A k \in Slots : list'[k] = IF k = p THEN n ELSE list[k]
  BY <1>1, <1>4, <1>7
<1>9. /\ beginPt' \in Slots /\ Dist(beginPt, beginPt') <= D(p)
      /\ beginPt' \in Used \cup {p}
      /\ \A k \in Used \cup {p} : D(k) <= D(p) => Dist(beginPt, beginPt') <= D(k)
  <2>1. Used \cup {p} \subseteq Slots
    BY <1>4, ListTyped DEF IInv
  <2> QED BY <1>1, <1>4, <2>1, HeadOfIs DEF D
<1>10. TypeOK'
  BY AppTyped DEF AppStep, IInv
<1>11. CASE beginPt = endPt /\ list[beginPt] = NULL
  <2>1. \A k \in Slots : list[k] = NULL
    BY <1>4, <1>11, Facts, Distances DEF IInv, Inside, D
  <2>2. beginPt' = p
    BY <1>9, <2>1 DEF Used
  <2>3. \A k \in Slots : list'[k] # NULL <=> k = p
    BY <1>3, <1>8, <2>1
  <2>4. /\ \A k \in Slots : Dist(p, k) \in Nat /\ (Dist(p, k) <= Dist(p, p) => k = p)
        /\ Dist(p, p) \in Nat
    BY <1>4, Distances
  <2>5. Inside' /\ Filled'
    <3>1. beginPt' = p /\ endPt' = p
      BY <1>1, <2>2
    <3>2. \A k \in Slots : D(k)' = Dist(p, k)
      BY <3>1 DEF D
    <3>3. D(endPt)' = Dist(p, p) /\ Dist(p, p) <= Dist(p, p)
      BY <2>4, <3>1 DEF D
    <3> QED BY <2>3, <2>4, <3>2, <3>3 DEF Inside, Filled
  <2>6. Ordered'
    BY <1>3, <1>8, <2>1, NullIs DEF Ordered
  <2>7. Counted'
    BY <1>1, <1>3, <1>4, <1>8, <2>1 DEF IInv, Counted
  <2>8. Queued'
    BY <1>1, <1>3, <1>4, <1>8 DEF Queued
  <2>9. Keeps
    BY <2>1, NullIs DEF Keeps
  <2> QED BY <1>1, <1>2, <1>10, <2>5, <2>6, <2>7, <2>8, <2>9, NoLoop DEF IInv
<1>12. CASE ~(beginPt = endPt /\ list[beginPt] = NULL)
  <2>1. \A k \in Slots : list[k] # NULL <=> D(k) <= D(endPt)
    BY <1>2, <1>12 DEF IInv, Inside, Filled
  <2>2. beginPt \in Used /\ D(beginPt) = 0
    BY <1>4, <1>5, <2>1, Facts DEF Used
  <2>3. beginPt' = beginPt
    <3>1. Dist(beginPt, beginPt') <= 0
      BY <1>5, <1>9, <2>2, <1>4
    <3>2. Dist(beginPt, beginPt') \in Nat
      BY <1>4, <1>9, Distances
    <3>3. Dist(beginPt, beginPt') = 0
      BY <3>1, <3>2
    <3> QED BY <1>4, <1>9, <3>3, Distances
  <2>4. \A k \in Slots : D(k)' = D(k)
    BY <2>3 DEF D
  <2>5. D(endPt)' = D(endPt) + 1
    BY <1>1, <1>5, <2>3 DEF D
  <2>6. \A k \in Slots : D(k) = D(p) => k = p
    BY <1>4, DistanceTells DEF D
  <2>7. \A k \in Slots : list'[k] # NULL <=> D(k) <= D(endPt) + 1
    <3> SUFFICES ASSUME NEW k \in Slots PROVE list'[k] # NULL <=> D(k) <= D(endPt) + 1
      OBVIOUS
    <3>1. CASE k = p
      BY <1>3, <1>5, <1>8, <3>1
    <3>2. CASE k # p
      <4>1. D(k) # D(endPt) + 1 /\ D(k) \in Nat
        BY <1>5, <2>6, <3>2
      <4> QED BY <1>5, <1>8, <2>1, <3>2, <4>1
    <3> QED BY <3>1, <3>2
  <2>8. Inside' /\ Filled'
    BY <2>4, <2>5, <2>7 DEF Inside, Filled
  <2>9. Ordered'
    BY <1>3, <1>8, <2>4 DEF IInv, Ordered
  <2>10. Counted'
    BY <1>1, <1>3, <1>4, <1>8 DEF IInv, Counted
  <2>11. Queued'
    BY <1>1, <1>3, <1>4, <1>8 DEF Queued
  <2>12. Keeps
    BY <1>6, <1>8, NullIs DEF Keeps
  <2> QED BY <1>1, <1>2, <1>10, <2>8, <2>9, <2>10, <2>11, <2>12, NoLoop DEF IInv
<1> QED BY <1>11, <1>12

\* The new number is above all others, and its node is the last.
LEMMA NumberInv ==
  ASSUME IInv, OneThread, BelowWrap, SendNumber
  PROVE  IInv' /\ Keeps
<1>1. /\ app.at = "placed" /\ app' = NotSending /\ app'.at = "idle"
      /\ UNCHANGED <<beginPt, endPt, worker, confirmed, told>>
  BY DEF SendNumber, NotSending
<1>2. /\ worker.at = "idle" /\ Filled /\ endPt \in Slots /\ beginPt \in Slots
      /\ seqNo < LastSeq /\ list[endPt] # NULL /\ list[endPt].seq = 0
  BY <1>1, Starts, Facts DEF IInv, Queued
<1>3. seqNo' = seqNo + 1 /\ seqNo \in Nat /\ SEQ_BEGIN \in Nat /\ told \in Nat
  BY <1>2, Facts, Below DEF SendNumber
<1>4. \A k \in Slots : list[k] # NULL /\ list[k].seq = 0 <=> k = endPt
  BY <1>2, <1>3 DEF IInv, Counted
<1>5. \A k \in Slots :
        /\ k # endPt => list'[k] = list[k]
        /\ k = endPt => list'[k].seq = seqNo + 1 /\ list'[k] # NULL
  <2> SUFFICES ASSUME NEW k \in Slots
               PROVE  /\ k # endPt => list'[k] = list[k]
                      /\ k = endPt => list'[k].seq = seqNo + 1 /\ list'[k] # NULL
    OBVIOUS
  <2>1. list'[k] = IF k = endPt THEN [list[k] EXCEPT !.seq = seqNo + 1] ELSE list[k]
    BY <1>3, <1>4 DEF SendNumber
  <2>2. CASE k = endPt
    <3>1. list[k] \in Nodes
      BY <1>2, <2>2, ListTyped DEF IInv
    <3>2. [list[k] EXCEPT !.seq = seqNo + 1].seq = seqNo + 1
      BY <3>1 DEF Nodes
    <3>3. list'[k].seq = seqNo + 1 /\ seqNo + 1 # 0
      BY <1>3, <2>1, <2>2, <3>2
    <3> QED BY <2>2, <3>3, NullIs
  <2> QED BY <2>1, <2>2
<1>6. TypeOK'
  BY AppTyped DEF AppStep, IInv
<1>7. \A k \in Slots : list'[k] = NULL <=> list[k] = NULL
  BY <1>2, <1>5
<1>8. Inside' /\ Filled'
  BY <1>1, <1>2, <1>7 DEF IInv, Inside, Filled, D
<1>9. \A k \in Slots : list[k].seq # 0 =>
        k # endPt /\ list[k] # NULL /\ list[k].seq <= seqNo /\ D(k) <= D(endPt)
  BY <1>2, <1>4, Facts DEF IInv, Inside, Counted
<1>10. Ordered'
  <2> SUFFICES ASSUME NEW j \in Slots, NEW k \in Slots,
                      list'[j].seq # 0, list'[k].seq # 0, D(j) < D(k)
               PROVE  list'[j].seq < list'[k].seq
    BY <1>1 DEF Ordered, D
  <2>1. j # endPt
    <3>1. D(k) <= D(endPt) /\ D(k) \in Nat /\ D(j) \in Nat /\ D(endPt) \in Nat
      BY <1>2, <1>5, <1>9, Facts
    <3> QED BY <3>1
  <2>2. list'[j].seq = list[j].seq /\ list[j].seq <= seqNo /\ list[j].seq \in Nat
    BY <1>5, <1>9, <2>1, Facts
  <2>3. CASE k = endPt
    BY <1>3, <1>5, <2>2, <2>3
  <2>4. CASE k # endPt
    BY <1>5, <2>1, <2>4 DEF IInv, Ordered
  <2> QED BY <2>3, <2>4
<1>11. Counted'
  <2>1. seqNo' \in SEQ_BEGIN .. LastSeq /\ told <= seqNo' - SEQ_BEGIN
    BY <1>2, <1>3, Facts, Below DEF IInv, Counted
  <2>2. \A k \in Slots : list'[k] # NULL =>
          SEQ_BEGIN + told < list'[k].seq /\ list'[k].seq <= seqNo'
    <3> SUFFICES ASSUME NEW k \in Slots, list'[k] # NULL
                 PROVE  SEQ_BEGIN + told < list'[k].seq /\ list'[k].seq <= seqNo'
      OBVIOUS
    <3>1. CASE k = endPt
      <4>1. told <= seqNo - SEQ_BEGIN
        BY DEF IInv, Counted
      <4> QED BY <1>3, <1>5, <3>1, <4>1
    <3>2. CASE k # endPt
      <4>1. list'[k] = list[k] /\ list[k] # NULL /\ list[k].seq \in Nat
        BY <1>5, <1>7, <3>2, Facts
      <4>2. SEQ_BEGIN + told < list[k].seq /\ list[k].seq <= seqNo
        BY <3>2, <4>1 DEF IInv, Counted
      <4> QED BY <1>3, <4>1, <4>2
    <3> QED BY <3>1, <3>2
  <2> QED BY <1>1, <2>1, <2>2 DEF Counted
<1>12. Queued'
  BY <1>1 DEF Queued
<1>13. Keeps
  BY <1>5, <1>9 DEF Keeps
<1> QED BY <1>1, <1>2, <1>6, <1>8, <1>10, <1>11, <1>12, <1>13, NoLoop DEF IInv

-----------------------------------------------------------------------------
(***************************************************************************)
(* The answers of the peer.                                                *)
(***************************************************************************)

\* A handler of the worker starts between two calls of SendMsg.
LEMMA Free ==
  ASSUME IInv, OneThread, WorkerFree
  PROVE  worker.at = "idle" /\ app.at = "idle" /\ Filled
BY DEF IInv, OneThread, WorkerFree, Shape

\* A message that is finished may be gone, if it was confirmed or given up.
LEMMA FinishedKeeps ==
  ASSUME IInv, NEW pt \in Slots, Kept(list', list, NULL, pt),
         \/ list[pt].seq \in confirmed'
         \/ list[pt].spent /\ list[pt].begin + 1 >= list[pt].total
  PROVE  Keeps
<1> SUFFICES ASSUME NEW k \in Slots, list[k].seq # 0
             PROVE  \/ \E j \in Slots : list'[j].seq = list[k].seq
                    \/ list[k].seq \in confirmed'
                    \/ list[k].spent /\ list[k].begin + 1 >= list[k].total
  BY DEF Keeps
<1>1. CASE k = pt
  BY <1>1
<1>2. CASE k # pt
  BY <1>2, Facts DEF Kept
<1> QED BY <1>1, <1>2

LEMMA RejectInv ==
  ASSUME IInv, OneThread, BelowWrap, NEW seq \in Seqs, RecvReject(seq)
  PROVE  IInv' /\ Keeps
<1> DEFINE pt == Full_Search(seq)
<1>1. /\ WorkerFree /\ pt # SLOTS /\ FinishNode(pt) /\ confirmed' = confirmed \cup {seq}
      /\ UNCHANGED <<seqNo, app, worker, told>>
  BY DEF RecvReject
<1>2. worker.at = "idle" /\ app.at = "idle" /\ Filled
  BY <1>1, Free
<1> HIDE DEF pt
<1>3. pt \in Slots /\ list[pt].seq = seq /\ list[pt] # NULL
  BY <1>1, FullSearchIs DEF IInv, pt
<1>4. Inside' /\ Filled' /\ Queued' /\ Above(list') /\ Ordered' /\ Kept(list', list, NULL, pt)
  BY <1>1, <1>2, <1>3, Finished
<1>7. Counted'
  BY <1>1, <1>4, CountedNext
<1>5. TypeOK'
  BY AnswerTyped DEF IInv
<1>6. Keeps
  BY <1>1, <1>3, <1>4, FinishedKeeps
<1> QED BY <1>1, <1>2, <1>4, <1>5, <1>6, <1>7, NoLoop DEF IInv

LEMMA AckInv ==
  ASSUME IInv, OneThread, BelowWrap, NEW seq \in Seqs, NEW cur \in 1 .. 2, RecvAck(seq, cur)
  PROVE  IInv' /\ Keeps
<1> DEFINE pt == Full_Search(seq)
<1>1. WorkerFree /\ pt # SLOTS /\ UNCHANGED <<seqNo, app, worker, told>>
  BY DEF RecvAck
<1>2. worker.at = "idle" /\ app.at = "idle" /\ Filled
  BY <1>1, Free
<1>3. TypeOK'
  BY AnswerTyped DEF IInv
<1> HIDE DEF pt
<1>4. pt \in Slots /\ list[pt].seq = seq /\ list[pt] # NULL /\ list[pt] \in Nodes
  BY <1>1, FullSearchIs DEF IInv, pt
<1>5. CASE cur = list[pt].total
  <2>1. FinishNode(pt) /\ confirmed' = confirmed \cup {seq}
    BY <1>5 DEF RecvAck, pt
  <2>2. Inside' /\ Filled' /\ Queued' /\ Above(list') /\ Ordered' /\ Kept(list', list, NULL, pt)
    BY <1>1, <1>2, <1>4, <2>1, Finished
  <2>4. Counted'
    BY <1>1, <2>2, CountedNext
  <2>3. Keeps
    BY <1>4, <2>1, <2>2, FinishedKeeps
  <2> QED BY <1>1, <1>2, <1>3, <2>2, <2>3, <2>4, NoLoop DEF IInv
<1>6. CASE cur # list[pt].total
  <2>1. /\ list' = [list EXCEPT ![pt] = [list[pt] EXCEPT !.begin = cur, !.spent = FALSE]]
        /\ UNCHANGED <<beginPt, endPt, confirmed>>
    BY <1>6 DEF RecvAck, pt
  <2>2. /\ [list[pt] EXCEPT !.begin = cur, !.spent = FALSE].seq = seq
        /\ seq # 0
    BY <1>4 DEF Nodes, Seqs
  <2>3. \A k \in Slots :
          list'[k].seq = list[k].seq /\ (list'[k] = NULL <=> list[k] = NULL)
    <3>1. \A k \in Slots : list'[k] = IF k = pt
                                      THEN [list[pt] EXCEPT !.begin = cur, !.spent = FALSE]
                                      ELSE list[k]
      BY <1>4, <2>1, ListTyped DEF IInv
    <3> QED BY <1>4, <2>2, <3>1, NullIs
  <2>4. Inside' /\ Filled' /\ Queued' /\ Above(list') /\ Ordered'
    BY <1>1, <1>2, <2>1, <2>3, Touched
  <2>6. Counted'
    BY <1>1, <2>4, CountedNext
  <2>5. Keeps
    BY <2>3 DEF Keeps
  <2> QED BY <1>1, <1>2, <1>3, <2>4, <2>5, <2>6, NoLoop DEF IInv
<1> QED BY <1>5, <1>6

LEMMA AskInv ==
  ASSUME IInv, OneThread, BelowWrap, NEW seq \in Seqs, RecvAsk(seq)
  PROVE  IInv' /\ Keeps
<1> DEFINE pt == Full_Search(seq)
<1>1. /\ WorkerFree /\ pt # SLOTS
      /\ list' = [list EXCEPT ![pt] = [list[pt] EXCEPT !.spent = TRUE]]
      /\ UNCHANGED <<beginPt, endPt, seqNo, app, worker, confirmed, told>>
  BY DEF RecvAsk
<1>2. worker.at = "idle" /\ app.at = "idle" /\ Filled
  BY <1>1, Free
<1>3. TypeOK'
  BY AnswerTyped DEF IInv
<1> HIDE DEF pt
<1>4. pt \in Slots /\ list[pt].seq = seq /\ list[pt] # NULL /\ list[pt] \in Nodes
  BY <1>1, FullSearchIs DEF IInv, pt
<1>5. [list[pt] EXCEPT !.spent = TRUE].seq = seq /\ seq # 0
  BY <1>4 DEF Nodes, Seqs
<1>6. \A k \in Slots :
        list'[k].seq = list[k].seq /\ (list'[k] = NULL <=> list[k] = NULL)
  <2>1. \A k \in Slots :
          list'[k] = IF k = pt THEN [list[pt] EXCEPT !.spent = TRUE] ELSE list[k]
    BY <1>1, <1>4, ListTyped DEF IInv
  <2> QED BY <1>4, <1>5, <2>1, NullIs
<1>7. Inside' /\ Filled' /\ Queued' /\ Above(list') /\ Ordered'
  BY <1>1, <1>2, <1>6, Touched
<1>9. Counted'
  BY <1>1, <1>7, CountedNext
<1>8. Keeps
  BY <1>6 DEF Keeps
<1> QED BY <1>1, <1>2, <1>3, <1>7, <1>8, <1>9, NoLoop DEF IInv

\* The loop starts at the begin of a list without gaps; what lies before its
\* end was confirmed by the number it starts with.
LEMMA AckedSeqInv ==
  ASSUME IInv, OneThread, BelowWrap, NEW seq \in Seqs, RecvAckedSeq(seq)
  PROVE  IInv' /\ Keeps
<1> DEFINE to == AckedUpTo(seq)
<1>1. /\ WorkerFree /\ GetSequence(beginPt) # 0 /\ GetSequence(endPt) # 0 /\ to # SLOTS
      /\ worker' = [at |-> "purge", pt |-> beginPt, to |-> to, seq |-> seq]
      /\ confirmed' = confirmed \cup
           {n.seq : n \in {m \in Held : /\ m.total = 1 /\ m.seq # 0
                                        /\ Position(m.seq) < Position(seq)}}
      /\ UNCHANGED <<list, beginPt, endPt, seqNo, app, told>>
  BY DEF RecvAckedSeq, ring
<1>2. worker.at = "idle" /\ app.at = "idle" /\ Filled
  BY <1>1, Free
<1> HIDE DEF to
<1>3. /\ to \in Slots /\ D(to) <= D(endPt)
      /\ \A k \in Slots : list[k] # NULL /\ D(k) < D(to) =>
           Position(list[k].seq) < Position(seq)
  BY <1>1, <1>2, AckedBefore DEF to
<1>4. /\ beginPt \in Slots /\ endPt \in Slots /\ D(beginPt) = 0 /\ D(to) \in Nat
      /\ list[beginPt] # NULL
  BY <1>1, <1>3, Facts, NullIs DEF GetSequence
<1>5. TypeOK'
  BY AnswerTyped DEF IInv
<1>6. Inside' /\ Queued' /\ Counted' /\ Ordered'
  BY <1>1 DEF IInv, Inside, Queued, Counted, Ordered, D
<1>7. Turns' /\ Shape' /\ Compacting'
  BY <1>1, <1>2 DEF Turns, Shape, Compacting
<1>8. Purging'
  <2>1. /\ \A k \in Slots : D(k)' = D(k)
        /\ D(worker.pt)' = 0 /\ D(worker.to)' = D(to) /\ D(endPt)' = D(endPt)
    BY <1>1, <1>4 DEF D
  <2>2. \A k \in Slots : D(k) <= D(endPt) => list[k] # NULL
    BY <1>2, <1>4 DEF Filled
  <2>3. ASSUME NEW k \in Slots, list[k].total = 1, D(k) < D(to)
        PROVE  list[k].seq \in confirmed'
    <3>1. list[k] # NULL
      BY <2>3, NullIs
    <3>2. list[k] \in Held /\ list[k].seq # 0
      BY <1>2, <3>1, AllNumbered DEF Held
    <3>3. list[k] \in {m \in Held : /\ m.total = 1 /\ m.seq # 0
                                    /\ Position(m.seq) < Position(seq)}
      BY <1>3, <2>3, <3>1, <3>2
    <3> QED BY <1>1, <3>3
  <2> QED BY <1>1, <1>3, <1>4, <2>1, <2>2, <2>3 DEF Purging
<1>9. Keeps
  BY <1>1 DEF Keeps
<1> QED BY <1>5, <1>6, <1>7, <1>8, <1>9 DEF IInv

-----------------------------------------------------------------------------
(***************************************************************************)
(* The loops of the worker.                                                *)
(***************************************************************************)

LEMMA TimerStartInv ==
  ASSUME IInv, OneThread, BelowWrap, TimerStart
  PROVE  IInv' /\ Keeps
<1>1. /\ WorkerFree /\ worker' = [Idle EXCEPT !.at = "timer", !.pt = beginPt]
      /\ UNCHANGED <<list, beginPt, endPt, seqNo, app, confirmed, told>>
  BY DEF TimerStart, ring
<1>2. worker.at = "idle" /\ app.at = "idle" /\ Filled
  BY <1>1, Free
<1>3. TypeOK'
  BY LoopTyped DEF IInv
<1>4. worker'.at = "timer"
  BY <1>1 DEF Idle
<1>5. Inside' /\ Filled' /\ Queued' /\ Counted' /\ Ordered'
  BY <1>1, <1>2 DEF IInv, Inside, Filled, Queued, Counted, Ordered, D
<1>6. Turns' /\ Shape' /\ Purging' /\ Compacting'
  BY <1>1, <1>2, <1>4, <1>5 DEF Turns, Shape, Purging, Compacting
<1>7. Keeps
  BY <1>1 DEF Keeps
<1> QED BY <1>3, <1>5, <1>6, <1>7 DEF IInv

\* NodeTimer_Main finishes a node or changes its tries; the walk may run past
\* an end that has moved, into slots that are empty.
LEMMA NodeTimerInv ==
  ASSUME IInv, app.at = "idle", Filled, NEW pt \in Slots, NodeTimer(pt),
         UNCHANGED <<seqNo, app>>
  PROVE  Inside' /\ Filled' /\ Queued' /\ Above(list') /\ Ordered' /\ Keeps
<1> DEFINE n == list[pt]
<1>1. n \in Nodes \cup {NULL}
  BY ListTyped DEF IInv
<1>2. CASE n.spent /\ n.begin + 1 >= n.total /\ FinishNode(pt)
  <2>1. n # NULL
    BY <1>2, NullIs
  <2>2. Inside' /\ Filled' /\ Queued' /\ Above(list') /\ Ordered' /\ Kept(list', list, NULL, pt)
    BY <1>2, <2>1, Finished
  <2>3. Keeps
    BY <1>2, <2>2, FinishedKeeps
  <2> QED BY <2>2, <2>3
<1>3. ASSUME NEW new \in Nodes, n # NULL, new.seq = n.seq,
             list' = [list EXCEPT ![pt] = new], UNCHANGED <<beginPt, endPt>>
      PROVE  Inside' /\ Filled' /\ Queued' /\ Above(list') /\ Ordered' /\ Keeps
  <2>1. \A k \in Slots : list'[k] = IF k = pt THEN new ELSE list[k]
    BY <1>3, ListTyped DEF IInv
  <2>2. \A k \in Slots :
          list'[k].seq = list[k].seq /\ (list'[k] = NULL <=> list[k] = NULL)
    BY <1>3, <2>1, NullIs
  <2>3. Inside' /\ Filled' /\ Queued' /\ Above(list') /\ Ordered'
    BY <1>3, <2>2, Touched
  <2> QED BY <2>2, <2>3 DEF Keeps
<1>4. CASE /\ n.spent /\ n.begin + 1 < n.total
           /\ list' = [list EXCEPT ![pt].begin = @ + 1, ![pt].spent = FALSE]
           /\ UNCHANGED <<beginPt, endPt>>
  <2>1. n # NULL /\ n \in Nodes /\ n.begin + 1 \in 0 .. 1
    BY <1>1, <1>4, NodeIs
  <2>2. list' = [list EXCEPT ![pt] = [n EXCEPT !.begin = n.begin + 1, !.spent = FALSE]]
    BY <1>4
  <2>3. /\ [n EXCEPT !.begin = n.begin + 1, !.spent = FALSE] \in Nodes
        /\ [n EXCEPT !.begin = n.begin + 1, !.spent = FALSE].seq = n.seq
    BY <2>1, NodeChanged DEF Nodes
  <2> HIDE DEF n
  <2> QED BY <1>3, <1>4, <2>1, <2>2, <2>3
<1>5. CASE /\ n # NULL /\ list' = [list EXCEPT ![pt].spent = TRUE]
           /\ UNCHANGED <<beginPt, endPt>>
  <2>1. n \in Nodes
    BY <1>1, <1>5
  <2>2. list' = [list EXCEPT ![pt] = [n EXCEPT !.spent = TRUE]]
    BY <1>5
  <2>3. [n EXCEPT !.spent = TRUE] \in Nodes /\ [n EXCEPT !.spent = TRUE].seq = n.seq
    BY <2>1, NodeChanged DEF Nodes
  <2> HIDE DEF n
  <2> QED BY <1>3, <1>5, <2>2, <2>3
<1>6. CASE UNCHANGED ring
  <2>1. UNCHANGED <<list, beginPt, endPt>>
    BY <1>6 DEF ring
  <2>2. Inside' /\ Filled' /\ Queued' /\ Above(list') /\ Ordered'
    BY <2>1, Touched
  <2> QED BY <2>1, <2>2 DEF Keeps
<1> QED BY <1>2, <1>4, <1>5, <1>6 DEF NodeTimer

LEMMA TimerStepInv ==
  ASSUME IInv, OneThread, BelowWrap, TimerStep
  PROVE  IInv' /\ Keeps
<1>1. /\ worker.at = "timer" /\ NodeTimer(worker.pt) /\ UNCHANGED <<seqNo, app, confirmed>>
      /\ \/ worker' = Idle /\ SendSeqRange(list'[beginPt].seq)
         \/ worker' = [worker EXCEPT !.pt = After(@)] /\ UNCHANGED told
  BY DEF TimerStep
<1>2. app.at = "idle" /\ Filled
  BY <1>1 DEF IInv, Turns, Shape
<1>3. TypeOK'
  BY LoopTyped DEF IInv, WorkerStep
<1>4. worker.pt \in Slots /\ worker'.at \in {"idle", "timer"}
  <2>1. worker \in [at : {"idle", "timer", "purge", "compact"}, pt : Slots, to : Slots,
                    seq : 0 .. SEQ_MOD - 1]
    BY DEF IInv, TypeOK
  <2> QED BY <1>1, <2>1 DEF Idle
<1>5. Inside' /\ Filled' /\ Queued' /\ Above(list') /\ Ordered' /\ Keeps
  BY <1>1, <1>2, <1>4, NodeTimerInv
<1>6. beginPt' = beginPt /\ beginPt \in Slots /\ list' \in [Slots -> Nodes \cup {NULL}]
  BY <1>1, <1>4, NodeTimerTyped, Facts DEF IInv
<1>7. Counted'
  <2>1. CASE UNCHANGED told
    BY <1>1, <1>5, <2>1, CountedNext
  <2>2. CASE SendSeqRange(list'[beginPt].seq)
    <3>1. /\ seqNo \in Nat /\ SEQ_BEGIN <= seqNo /\ seqNo <= LastSeq
          /\ told \in Nat /\ told <= seqNo - SEQ_BEGIN
      BY Facts DEF IInv, Counted
    <3>2. \A k \in Slots :
            list'[k] # NULL => SEQ_BEGIN + told < list'[k].seq /\ list'[k].seq <= seqNo
      BY <1>5 DEF Above
    <3>3. \A j, k \in Slots :
            list'[j].seq # 0 /\ list'[k].seq # 0 /\ Dist(beginPt, j) < Dist(beginPt, k) =>
              list'[j].seq < list'[k].seq
      BY <1>5, <1>6 DEF Ordered, D
    <3>4. /\ told' \in Nat /\ told' <= seqNo - SEQ_BEGIN
          /\ \A k \in Slots : list'[k] # NULL => SEQ_BEGIN + told' < list'[k].seq
      BY <1>6, <2>2, <3>1, <3>2, <3>3, RangeKept
    <3> QED BY <1>1, <3>2, <3>4 DEF IInv, Counted
  <2> QED BY <1>1, <2>1, <2>2
<1> QED BY <1>1, <1>2, <1>3, <1>4, <1>5, <1>7 DEF IInv, Shape, Turns, Purging, Compacting

\* A message is freed by the first loop of Proc_RecvAckedSeq.
LEMMA PurgeFrees ==
  ASSUME IInv, OneThread, BelowWrap, Purge, worker.pt # worker.to, list[worker.pt].total = 1
  PROVE  /\ Inside' /\ Ordered' /\ Purging' /\ Keeps /\ Above(list')
<1> DEFINE x == worker.pt
           to == worker.to
<1>1. /\ worker.at = "purge" /\ list' = [list EXCEPT ![x] = NULL]
      /\ beginPt' = IF list[x] # NULL /\ list'[beginPt] = NULL
                    THEN After(beginPt) ELSE beginPt
      /\ worker' = [worker EXCEPT !.pt = After(x)]
      /\ UNCHANGED <<endPt, seqNo, app, confirmed, told>>
  BY DEF Purge
<1>2. /\ list[beginPt] # NULL /\ D(x) <= D(to) /\ D(to) <= D(endPt)
      /\ \A k \in Slots : D(x) <= D(k) /\ D(k) <= D(endPt) => list[k] # NULL
      /\ \A k \in Slots : list[k].total = 1 /\ D(k) < D(to) => list[k].seq \in confirmed
  BY <1>1 DEF IInv, Purging
<1>3. /\ x \in Slots /\ to \in Slots /\ beginPt \in Slots /\ endPt \in Slots
      /\ \A k \in Slots : D(k) \in Nat /\ D(k) < SLOTS
      /\ D(beginPt) = 0 /\ app.at = "idle" /\ SLOTS \in Nat
      /\ list \in [Slots -> Nodes \cup {NULL}]
  BY <1>1, Facts, SlotsAre, ListTyped DEF IInv, Turns
<1>4. worker'.at = "purge" /\ worker'.pt = After(x) /\ worker'.to = to
  <2>1. worker \in [at : {"idle", "timer", "purge", "compact"}, pt : Slots, to : Slots,
                    seq : 0 .. SEQ_MOD - 1]
    BY DEF IInv, TypeOK
  <2> QED BY <1>1, <2>1
<1> HIDE DEF x, to
<1>5. D(x) < D(to)
  <2>1. D(x) # D(to)
    <3>1. x # to
      BY DEF x, to
    <3> QED BY <1>3, <3>1, DistanceTells DEF D
  <2> QED BY <1>2, <1>3, <2>1
<1>6. /\ After(x) \in Slots /\ D(After(x)) = D(x) + 1
      /\ \A k \in Slots : list'[k] = IF k = x THEN NULL ELSE list[k]
      /\ list[x] # NULL /\ list[x].seq \in confirmed
  <2>1. After(x) \in Slots /\ D(After(x)) = D(x) + 1
    BY <1>3, <1>5, Steps, DistAfter DEF D
  <2>2. \A k \in Slots : list'[k] = IF k = x THEN NULL ELSE list[k]
    BY <1>1, <1>3
  <2>3. list[x].total = 1
    BY DEF x
  <2> QED BY <1>2, <1>3, <1>5, <2>1, <2>2, <2>3, NullIs
<1>7. Above(list')
  BY <1>3, <1>6, AllNumbered DEF Above
<1>8. Keeps
  BY <1>1, <1>6 DEF Keeps
<1>9. CASE x # beginPt
  <2>1. beginPt' = beginPt /\ endPt' = endPt /\ confirmed' = confirmed
    BY <1>1, <1>2, <1>3, <1>6, <1>9
  <2>2. \A k \in Slots : D(k)' = D(k)
    BY <2>1 DEF D
  <2>3. Inside' /\ Ordered'
    BY <1>3, <1>6, <2>1, <2>2, NullIs DEF IInv, Inside, Ordered, D
  <2>4. Purging'
    <3>1. list'[beginPt] # NULL
      BY <1>2, <1>3, <1>6, <1>9
    <3>2. D(x) + 1 <= D(to)
      BY <1>3, <1>5
    <3>3. \A k \in Slots : D(x) + 1 <= D(k) /\ D(k) <= D(endPt) => list'[k] # NULL
      <4> SUFFICES ASSUME NEW k \in Slots, D(x) + 1 <= D(k), D(k) <= D(endPt)
                   PROVE  list'[k] # NULL
        OBVIOUS
      <4>1. D(x) <= D(k) /\ k # x
        BY <1>3
      <4> QED BY <1>2, <1>6, <4>1
    <3>4. \A k \in Slots : list'[k].total = 1 /\ D(k) < D(to) => list'[k].seq \in confirmed
      BY <1>2, <1>6, NullIs
    <3>5. /\ D(worker.pt)' = D(x) + 1 /\ D(worker.to)' = D(to) /\ D(endPt)' = D(endPt)
      BY <1>4, <1>6, <2>1 DEF D
    <3> QED BY <1>2, <2>1, <2>2, <3>1, <3>2, <3>3, <3>4, <3>5 DEF Purging
  <2> QED BY <1>7, <1>8, <2>3, <2>4
<1>10. CASE x = beginPt
  <2>1. /\ beginPt' = After(beginPt) /\ endPt' = endPt /\ confirmed' = confirmed
        /\ D(x) = 0 /\ D(to) > 0 /\ D(endPt) > 0 /\ to # beginPt /\ endPt # beginPt
    BY <1>1, <1>2, <1>3, <1>5, <1>6, <1>10
  <2>2. \A k \in Slots : k # beginPt => D(k)' = D(k) - 1 /\ D(k) >= 1
    <3> SUFFICES ASSUME NEW k \in Slots, k # beginPt
                 PROVE  Dist(After(beginPt), k) = D(k) - 1 /\ D(k) >= 1
      BY <2>1 DEF D
    <3>1. Dist(After(beginPt), k) = D(k) - 1
      BY <1>3, DistFromNext DEF D
    <3>2. D(k) # 0
      BY <1>3, Distances DEF D
    <3> QED BY <1>3, <3>1, <3>2
  <2>3. D(beginPt') = 1 /\ beginPt' \in Slots /\ beginPt' # beginPt
    BY <1>3, <1>6, <1>10, <2>1, Steps
  <2>4. Dist(beginPt', beginPt) = SLOTS - 1
    <3>1. After(Before(beginPt)) = beginPt /\ Before(After(beginPt)) = beginPt
      BY <1>3, Steps
    <3> QED BY <1>3, <2>1, SlotsAre DEF Dist, After
  <2>5. Inside' /\ Ordered'
    <3>1. \A k \in Slots : list'[k] # NULL => k # beginPt /\ list'[k] = list[k]
      BY <1>6, <1>10
    <3>2. Inside'
      <4> SUFFICES ASSUME NEW k \in Slots, list'[k] # NULL PROVE D(k)' <= D(endPt)'
        BY DEF Inside
      <4>1. D(k)' = D(k) - 1 /\ D(endPt)' = D(endPt) - 1 /\ D(k) <= D(endPt)
        <5>1. D(k) <= D(endPt)
          BY <3>1 DEF IInv, Inside
        <5>2. Dist(beginPt', endPt) = D(endPt) - 1
          BY <1>3, <2>1, <2>2 DEF D
        <5> QED BY <2>1, <2>2, <3>1, <5>1, <5>2 DEF D
      <4> QED BY <1>3, <4>1
    <3>3. Ordered'
      <4> SUFFICES ASSUME NEW j \in Slots, NEW k \in Slots,
                          list'[j].seq # 0, list'[k].seq # 0, D(j)' < D(k)'
                   PROVE  list'[j].seq < list'[k].seq
        BY DEF Ordered
      <4>1. j # beginPt /\ list'[j] = list[j] /\ k # beginPt /\ list'[k] = list[k]
        BY <3>1, NullIs
      <4>2. D(j)' = D(j) - 1 /\ D(k)' = D(k) - 1
        BY <2>2, <4>1
      <4>3. D(j) < D(k)
        BY <1>3, <4>2
      <4> QED BY <4>1, <4>3 DEF IInv, Ordered
    <3> QED BY <3>2, <3>3
  <2>6. Purging'
    <3>1. list'[beginPt'] # NULL
      <4>1. D(x) <= D(beginPt') /\ D(beginPt') <= D(endPt)
        BY <1>3, <2>1, <2>3
      <4> QED BY <1>2, <1>6, <1>10, <2>3, <4>1
    <3>2. /\ worker'.pt = beginPt' /\ D(worker.pt)' = 0
          /\ D(worker.to)' = D(to) - 1 /\ D(endPt)' = D(endPt) - 1
      <4>1. worker'.pt = beginPt'
        BY <1>4, <1>10, <2>1
      <4>2. Dist(beginPt', beginPt') = 0
        BY <2>3, Distances
      <4>3. Dist(beginPt', to) = D(to) - 1 /\ Dist(beginPt', endPt) = D(endPt) - 1
        BY <1>3, <2>1, <2>2 DEF D
      <4> QED BY <1>4, <2>1, <4>1, <4>2, <4>3 DEF D
    <3>3. 0 <= D(to) - 1 /\ D(to) - 1 <= D(endPt) - 1
      BY <1>2, <1>3, <2>1
    <3>4. ASSUME NEW k \in Slots, D(k)' <= D(endPt) - 1 PROVE list'[k] # NULL
      <4>1. k # beginPt
        <5> SUFFICES ASSUME k = beginPt PROVE FALSE
          OBVIOUS
        <5>1. D(k)' = SLOTS - 1
          BY <2>4 DEF D
        <5> QED BY <1>3, <3>4, <5>1
      <4>2. D(x) <= D(k) /\ D(k) <= D(endPt)
        BY <1>3, <2>1, <2>2, <3>4, <4>1
      <4> QED BY <1>2, <1>6, <1>10, <4>1, <4>2
    <3>5. ASSUME NEW k \in Slots, list'[k].total = 1, D(k)' < D(to) - 1
          PROVE  list'[k].seq \in confirmed'
      <4>1. k # beginPt /\ list'[k] = list[k]
        BY <1>6, <1>10, <3>5, NullIs
      <4>2. D(k) < D(to)
        BY <1>3, <2>2, <3>5, <4>1
      <4> QED BY <1>2, <2>1, <3>5, <4>1, <4>2
    <3> QED BY <3>1, <3>2, <3>3, <3>4, <3>5 DEF Purging
  <2> QED BY <1>7, <1>8, <2>5, <2>6
<1> QED BY <1>9, <1>10

LEMMA PurgeInv ==
  ASSUME IInv, OneThread, BelowWrap, Purge
  PROVE  IInv' /\ Keeps
<1>1. worker.at = "purge" /\ UNCHANGED <<seqNo, app, confirmed, told>>
  BY DEF Purge
<1>2. /\ app.at = "idle" /\ worker.pt \in Slots /\ worker.to \in Slots
      /\ beginPt \in Slots /\ endPt \in Slots /\ D(beginPt) = 0
      /\ \A k \in Slots : D(k) \in Nat
  BY <1>1, Facts DEF IInv, Turns
<1>3. /\ list[beginPt] # NULL /\ D(worker.pt) <= D(worker.to) /\ D(worker.to) <= D(endPt)
      /\ \A k \in Slots : D(worker.pt) <= D(k) /\ D(k) <= D(endPt) => list[k] # NULL
      /\ \A k \in Slots :
           list[k].total = 1 /\ D(k) < D(worker.to) => list[k].seq \in confirmed
  BY <1>1 DEF IInv, Purging
<1>4. worker \in [at : {"idle", "timer", "purge", "compact"}, pt : Slots, to : Slots,
                  seq : 0 .. SEQ_MOD - 1]
  BY DEF IInv, TypeOK
<1>5. TypeOK'
  BY LoopTyped DEF IInv, WorkerStep
<1>6. CASE worker.pt = worker.to
  <2>1. /\ worker' = [worker EXCEPT !.at = "compact", !.pt = beginPt]
        /\ UNCHANGED <<list, beginPt, endPt>>
    BY <1>6 DEF Purge, ring
  <2>2. worker'.at = "compact" /\ worker'.pt = beginPt
    BY <1>4, <2>1
  <2>3. Inside' /\ Queued' /\ Counted' /\ Ordered'
    BY <1>1, <2>1 DEF IInv, Inside, Queued, Counted, Ordered, D
  <2>4. Compacting'
    <3>1. D(worker.pt)' = 0 /\ D(endPt)' = D(endPt) /\ \A k \in Slots : D(k)' = D(k)
      BY <1>2, <2>1, <2>2 DEF D
    <3>2. list[endPt] # NULL
      <4>1. D(worker.pt) <= D(endPt) /\ D(endPt) <= D(endPt)
        BY <1>2, <1>3
      <4> QED BY <1>2, <1>3, <4>1
    <3> QED BY <1>2, <1>3, <2>1, <3>1, <3>2 DEF Compacting
  <2>5. Shape' /\ Turns' /\ Purging'
    BY <1>1, <1>2, <2>2 DEF Shape, Turns, Purging
  <2>6. Keeps
    BY <2>1 DEF Keeps
  <2> QED BY <1>5, <2>3, <2>4, <2>5, <2>6 DEF IInv
<1>7. CASE worker.pt # worker.to
  <2>1. worker' = [worker EXCEPT !.pt = After(worker.pt)] /\ UNCHANGED endPt
    BY <1>7 DEF Purge
  <2>2. worker'.at = "purge" /\ worker'.pt = After(worker.pt) /\ worker'.to = worker.to
    BY <1>1, <1>4, <2>1
  <2>3. Shape' /\ Turns' /\ Compacting' /\ Queued'
    BY <1>1, <1>2, <2>2 DEF Shape, Turns, Compacting, Queued
  <2>4. CASE list[worker.pt].total = 1
    <3>1. Inside' /\ Ordered' /\ Purging' /\ Keeps /\ Above(list')
      BY <1>7, <2>4, PurgeFrees
    <3>2. Counted'
      BY <1>1, <3>1, CountedNext
    <3> QED BY <1>5, <2>3, <3>1, <3>2 DEF IInv
  <2>5. CASE list[worker.pt].total # 1
    <3>1. UNCHANGED <<list, beginPt, endPt>>
      BY <1>3, <1>7, <2>1, <2>5 DEF Purge
    <3>2. Inside' /\ Counted' /\ Ordered' /\ Keeps
      BY <1>1, <3>1 DEF IInv, Inside, Counted, Ordered, D, Keeps
    <3>3. D(worker.pt) < D(worker.to)
      <4>1. D(worker.pt) # D(worker.to)
        BY <1>2, <1>7, DistanceTells DEF D
      <4> QED BY <1>2, <1>3, <4>1
    <3>4. D(After(worker.pt)) = D(worker.pt) + 1
      BY <1>2, <3>3, DistAfter DEF D
    <3>5. Purging'
      <4>1. /\ \A k \in Slots : D(k)' = D(k)
            /\ D(worker.pt)' = D(worker.pt) + 1 /\ D(worker.to)' = D(worker.to)
            /\ D(endPt)' = D(endPt)
        BY <2>2, <3>1, <3>4 DEF D
      <4>2. D(worker.pt) + 1 <= D(worker.to)
        BY <1>2, <3>3
      <4>3. \A k \in Slots : D(worker.pt) + 1 <= D(k) => D(worker.pt) <= D(k)
        BY <1>2
      <4> QED BY <1>1, <1>3, <3>1, <4>1, <4>2, <4>3 DEF Purging
    <3> QED BY <1>5, <2>3, <3>2, <3>5 DEF IInv
  <2> QED BY <2>4, <2>5
<1> QED BY <1>6, <1>7

LEMMA CompactInv ==
  ASSUME IInv, OneThread, BelowWrap, Compact
  PROVE  IInv' /\ Keeps
<1> DEFINE x == worker.pt
<1>1. worker.at = "compact" /\ UNCHANGED <<seqNo, app, confirmed, told>>
  BY DEF Compact
<1>2. /\ app.at = "idle" /\ x \in Slots /\ beginPt \in Slots /\ endPt \in Slots
      /\ D(beginPt) = 0 /\ \A k \in Slots : D(k) \in Nat
  BY <1>1, Facts DEF IInv, Turns
<1>3. /\ list[beginPt] # NULL /\ list[endPt] # NULL /\ D(x) <= D(endPt)
      /\ \A k \in Slots : D(k) < D(x) => list[k] # NULL
  BY <1>1 DEF IInv, Compacting
<1>4. \A j, k \in Slots : D(j) = D(k) => j = k
  BY <1>2, DistanceTells DEF D
<1>5. TypeOK'
  BY LoopTyped DEF IInv, WorkerStep
<1>6. CASE /\ x # endPt /\ list[x] # NULL
           /\ worker' = [worker EXCEPT !.pt = After(@)] /\ UNCHANGED ring
  <2>1. UNCHANGED <<list, beginPt, endPt>>
    BY <1>6 DEF ring
  <2>2. worker'.at = "compact" /\ worker'.pt = After(x)
    <3>1. worker \in [at : {"idle", "timer", "purge", "compact"}, pt : Slots, to : Slots,
                      seq : 0 .. SEQ_MOD - 1]
      BY DEF IInv, TypeOK
    <3> QED BY <1>1, <1>6, <3>1
  <2> HIDE DEF x
  <2>3. D(x) < D(endPt)
    BY <1>2, <1>3, <1>4, <1>6
  <2>4. D(After(x)) = D(x) + 1
    BY <1>2, <2>3, DistAfter DEF D
  <2>5. Compacting'
    <3>1. /\ D(worker.pt)' = D(x) + 1 /\ D(endPt)' = D(endPt)
          /\ \A k \in Slots : D(k)' = D(k)
      BY <2>1, <2>2, <2>4 DEF D
    <3>2. D(x) + 1 <= D(endPt)
      BY <1>2, <2>3
    <3>3. ASSUME NEW k \in Slots, D(k) < D(x) + 1 PROVE list[k] # NULL
      <4>1. D(k) < D(x) \/ k = x
        BY <1>2, <1>4, <3>3
      <4> QED BY <1>3, <1>6, <4>1
    <3> QED BY <1>3, <2>1, <3>1, <3>2, <3>3 DEF Compacting
  <2>6. Inside' /\ Queued' /\ Counted' /\ Ordered' /\ Keeps
    BY <1>1, <2>1 DEF IInv, Inside, Queued, Counted, Ordered, D, Keeps
  <2>7. Shape' /\ Turns' /\ Purging'
    BY <1>1, <1>2, <2>2 DEF Shape, Turns, Purging
  <2> QED BY <1>5, <2>5, <2>6, <2>7 DEF IInv
<1>7. CASE /\ x # endPt /\ list[x] = NULL /\ list' = Closed(list, endPt, x, NULL)
           /\ endPt' = Before(endPt) /\ UNCHANGED worker
           /\ beginPt' = IF beginPt = x THEN After(beginPt) ELSE beginPt
  <2> HIDE DEF x
  <2>1. D(x) < D(endPt) /\ 0 < D(x) /\ endPt # beginPt /\ beginPt' = beginPt
    <3>1. D(x) < D(endPt)
      BY <1>2, <1>3, <1>4, <1>7
    <3>2. x # beginPt
      BY <1>3, <1>7
    <3> QED BY <1>2, <1>4, <1>7, <3>1, <3>2
  <2>2. /\ Inside' /\ Queued' /\ Above(list') /\ Ordered'
        /\ Kept(list', list, NULL, x) /\ Shifted(list', list, NULL, beginPt, endPt, x)
        /\ \A k \in Slots : D(k)' = D(k)
        /\ D(endPt)' = D(endPt) - 1
    BY <1>1, <1>2, <1>3, <1>7, <2>1, Closes
  <2>3. Counted'
    BY <1>1, <2>2, CountedNext
  <2>4. endPt' \in Slots /\ D(endPt') = D(endPt) - 1 /\ After(endPt') = endPt
    <3>1. endPt' \in Slots /\ After(endPt') = endPt
      BY <1>2, <1>7, Steps
    <3> QED BY <1>2, <1>7, <2>1, <3>1, DistAfter DEF D
  <2>5. list'[endPt'] = list[endPt]
    <3>1. D(x) <= D(endPt') /\ D(endPt') < D(endPt)
      BY <1>2, <2>1, <2>4
    <3> QED BY <2>2, <2>4, <3>1 DEF Shifted, D
  <2>6. \A k \in Slots : D(k) < D(x) => list'[k] = list[k]
    BY <2>2 DEF Shifted, D
  <2>7. Compacting'
    <3>1. worker' = worker /\ D(worker.pt)' = D(x)
      BY <1>2, <1>7, <2>1 DEF x, D
    <3>2. list'[beginPt] # NULL
      BY <1>2, <1>3, <2>1, <2>6
    <3>3. D(x) <= D(endPt) - 1
      BY <1>2, <2>1
    <3> QED BY <1>3, <2>1, <2>2, <2>5, <2>6, <3>1, <3>2, <3>3 DEF Compacting
  <2>8. Shape' /\ Turns' /\ Purging'
    BY <1>1, <1>2, <1>7 DEF Shape, Turns, Purging
  <2>9. Keeps
    <3> SUFFICES ASSUME NEW k \in Slots, list[k].seq # 0
                 PROVE  \E j \in Slots : list'[j].seq = list[k].seq
      BY DEF Keeps
    <3>1. k # x /\ list[k] # NULL
      BY <1>7, NullIs
    <3> QED BY <2>2, <3>1 DEF Kept
  <2> QED BY <1>5, <2>2, <2>3, <2>7, <2>8, <2>9 DEF IInv
<1>8. CASE /\ x = endPt /\ worker' = Idle
           /\ endPt' = IF list[endPt] = NULL /\ beginPt # endPt THEN Before(endPt) ELSE endPt
           /\ UNCHANGED <<list, beginPt>>
  <2>1. UNCHANGED <<list, beginPt, endPt>> /\ worker'.at = "idle"
    BY <1>3, <1>8 DEF Idle
  <2>2. Filled'
    <3>1. \A k \in Slots : D(k) <= D(endPt) => list[k] # NULL
      <4> SUFFICES ASSUME NEW k \in Slots, D(k) <= D(endPt) PROVE list[k] # NULL
        OBVIOUS
      <4>1. D(k) < D(x) \/ k = endPt
        BY <1>2, <1>4, <1>8
      <4> QED BY <1>3, <4>1
    <3> QED BY <2>1, <3>1 DEF Filled, D
  <2>3. Inside' /\ Queued' /\ Counted' /\ Ordered' /\ Keeps
    BY <1>1, <2>1 DEF IInv, Inside, Queued, Counted, Ordered, D, Keeps
  <2> QED BY <1>5, <2>1, <2>2, <2>3, NoLoop DEF IInv
<1> QED BY <1>6, <1>7, <1>8 DEF Compact

-----------------------------------------------------------------------------
(***************************************************************************)
(* The invariant holds, and what follows from it.                          *)
(***************************************************************************)

LEMMA InitInv ==
  ASSUME BelowWrap, Init
  PROVE  IInv
<1>1. /\ beginPt = FirstPt /\ endPt = FirstPt /\ FirstPt \in Slots
      /\ \A k \in Slots : list[k] = NULL
      /\ seqNo = SEQ_BEGIN /\ told = 0 /\ app.at = "idle" /\ worker.at = "idle"
  BY ConstantsAssumption DEF Init, NotSending, Idle, Slots
<1>2. TypeOK
  BY ConstantsAssumption, SlotsAre
  DEF Init, TypeOK, NotSending, Idle, Slots, Seqs
<1>3. Inside /\ Filled /\ Queued
  BY <1>1 DEF Inside, Filled, Queued
<1>4. Counted
  <2>1. SEQ_BEGIN \in SEQ_BEGIN .. LastSeq /\ 0 <= SEQ_BEGIN - SEQ_BEGIN
    BY Below DEF BelowWrap
  <2> QED BY <1>1, <2>1 DEF Counted
<1>5. Ordered
  BY <1>1, NullIs DEF Ordered
<1>6. Shape /\ Turns /\ Purging /\ Compacting
  BY <1>1, <1>3 DEF Shape, Turns, Purging, Compacting
<1> QED BY <1>2, <1>3, <1>4, <1>5, <1>6 DEF IInv

LEMMA StepInv ==
  ASSUME IInv, OneThread, BelowWrap, Next
  PROVE  IInv' /\ Keeps
<1>1. CASE AppStep
  BY <1>1, RefusedInv, CheckInv, PlaceInv, NumberInv DEF AppStep
<1>2. CASE WorkerStep
  BY <1>2, PurgeInv, CompactInv, TimerStepInv DEF WorkerStep
<1>3. CASE TimerStart
  BY <1>3, TimerStartInv
<1>4. ASSUME NEW seq \in Seqs, RecvReject(seq) PROVE IInv' /\ Keeps
  BY <1>4, RejectInv
<1>5. ASSUME NEW seq \in Seqs, NEW cur \in 1 .. 2, RecvAck(seq, cur) PROVE IInv' /\ Keeps
  BY <1>5, AckInv
<1>6. ASSUME NEW seq \in Seqs, RecvAsk(seq) PROVE IInv' /\ Keeps
  BY <1>6, AskInv
<1>7. ASSUME NEW seq \in Seqs, RecvAckedSeq(seq) PROVE IInv' /\ Keeps
  BY <1>7, AckedSeqInv
<1> QED BY <1>1, <1>2, <1>3, <1>4, <1>5, <1>6, <1>7 DEF Next

LEMMA StutterInv ==
  ASSUME IInv, UNCHANGED vars
  PROVE  IInv'
BY DEF vars, ring, IInv, TypeOK, Inside, Filled, Shape, Turns, Queued, Counted, Ordered,
       Purging, Compacting, D

\* Every step of the list keeps the invariant.
THEOREM QueueInvariant ==
  ASSUME OneThread, BelowWrap
  PROVE  Spec => []IInv
<1>1. Init => IInv
  BY InitInv
<1>2. IInv /\ [Next]_vars => IInv'
  BY StepInv, StutterInv
<1> QED BY <1>1, <1>2, PTL DEF Spec

\* "a circular array, sorted by sequence number": between two calls the
\* messages lie without a gap, in the order in which they were numbered.
THEOREM RingStaysSorted ==
  ASSUME OneThread, BelowWrap
  PROVE  Spec => []ListShape
<1>1. IInv => ListShape
  <2> SUFFICES ASSUME IInv, AtRest PROVE RingShape /\ SortedBySeq
    BY DEF ListShape
  <2>1. /\ beginPt \in Slots /\ endPt \in Slots /\ app.at = "idle" /\ Filled /\ Inside
        /\ D(beginPt) = 0 /\ \A k \in Slots : D(k) \in Nat
    BY Facts DEF AtRest, IInv, Shape
  <2>2. \A k \in Slots : k \in Span(beginPt, endPt) <=> D(k) <= D(endPt)
    BY <2>1, SpanIs DEF D
  <2>3. RingShape
    <3>1. CASE beginPt = endPt /\ list[beginPt] = NULL
      <4>1. \A k \in Slots : D(k) <= 0 => k = beginPt
        BY <2>1, Distances DEF D
      <4>2. \A k \in Slots : list[k] = NULL
        BY <2>1, <3>1, <4>1 DEF Inside
      <4> QED BY <3>1, <4>2 DEF RingShape, Held
    <3>2. CASE \A k \in Slots : D(k) <= D(endPt) => list[k] # NULL
      BY <2>1, <2>2, <3>2 DEF Inside, RingShape
    <3> QED BY <2>1, <3>1, <3>2 DEF Filled
  <2>4. SortedBySeq
    <3> SUFFICES ASSUME NEW j \in Slots, NEW k \in Slots, list[j] # NULL, list[k] # NULL,
                        D(j) < D(k)
                 PROVE  Position(list[j].seq) < Position(list[k].seq)
      BY <2>1, SpanIs DEF SortedBySeq, D
    <3>1. list[j].seq # 0 /\ list[k].seq # 0
      BY <2>1, AllNumbered
    <3>2. list[j].seq < list[k].seq
      BY <3>1 DEF IInv, Ordered
    <3>3. /\ list[j].seq \in Nat /\ list[k].seq \in Nat
          /\ SEQ_BEGIN <= list[j].seq /\ SEQ_BEGIN <= list[k].seq
      BY <2>1, AllNumbered, Facts
    <3> QED BY <3>2, <3>3, Below
  <2> QED BY <2>3, <2>4
<1> QED BY <1>1, QueueInvariant, PTL

\* No range SendSeqRange announces passes over a message that is still in the
\* list.
THEOREM RangesPassNothing ==
  ASSUME OneThread, BelowWrap
  PROVE  Spec => []NotPassedOver
<1>1. IInv => NotPassedOver
  <2> SUFFICES ASSUME IInv, NEW k \in Slots, list[k] # NULL, list[k].seq # 0
               PROVE  Position(list[k].seq) > told
    BY DEF NotPassedOver, Held
  <2>1. /\ list[k].seq \in Nat /\ SEQ_BEGIN + told < list[k].seq
        /\ told \in Nat /\ SEQ_BEGIN \in Nat
    BY Facts DEF IInv, Counted
  <2>2. Position(list[k].seq) = list[k].seq - SEQ_BEGIN
    BY <2>1, Below
  <2> QED BY <2>1, <2>2
<1> QED BY <1>1, QueueInvariant, PTL

\* A message leaves the list only when the peer has said that it has it or its
\* last frame was tried for the last time.
THEOREM QueueKeepsMessages ==
  ASSUME OneThread, BelowWrap
  PROVE  Spec => KeptUntilConfirmed
<1> DEFINE Left == \A n \in Held : n.seq # 0 /\ n.seq \notin {m.seq : m \in Held'} =>
                     n.seq \in confirmed' \/ (n.spent /\ n.begin + 1 >= n.total)
<1>1. IInv /\ [Next]_vars => [Left]_vars
  <2> SUFFICES ASSUME IInv, Next PROVE Left
    OBVIOUS
  <2>1. Keeps
    BY StepInv
  <2> SUFFICES ASSUME NEW k \in Slots, list[k].seq # 0, list[k].seq \notin {m.seq : m \in Held'}
               PROVE  \/ list[k].seq \in confirmed'
                      \/ list[k].spent /\ list[k].begin + 1 >= list[k].total
    BY DEF Held
  <2>2. ASSUME NEW j \in Slots, list'[j].seq = list[k].seq PROVE FALSE
    BY <2>2, NullIs DEF Held
  <2> QED BY <2>1, <2>2 DEF Keeps
<1> QED BY <1>1, QueueInvariant, PTL DEF Spec, KeptUntilConfirmed
=============================================================================
