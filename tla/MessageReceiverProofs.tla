----------------------- MODULE MessageReceiverProofs -----------------------
(***************************************************************************)
(* Proofs about MessageReceiver, for every size of the window and of the   *)
(* list. Types hold for any numbers. What the window knows and the order of*)
(* the list hold while no window reaches beyond MAX_SEQ: wnd_compare, and a*)
(* begin that has become 0, lose what was seen behind the wrap.            *)
(***************************************************************************)
EXTENDS MessageReceiver, SortedRingProofs

-----------------------------------------------------------------------------
(***************************************************************************)
(* Bitmaps and numbers.                                                    *)
(***************************************************************************)

LEMMA Sizes ==
  /\ BYTE_BITS \in Nat /\ BYTE_BITS >= 1
  /\ WND_BITS \in Nat /\ WND_BITS >= 2 * BYTE_BITS /\ WND_BITS >= 2
  /\ MAX_SEQ \in Nat /\ MAX_SEQ > 2 * WND_BITS
  /\ CAN_MOVE_SIZE \in Nat /\ MOVE_SIZE \in Nat
  /\ MOVE_SIZE < CAN_MOVE_SIZE /\ MOVE_SIZE >= 1
BY WindowAssumption, ConstantsAssumption DEF CAN_MOVE_SIZE

LEMMA WordIs ==
  /\ \A n \in Int : Word(n) \in Words
  /\ \A n \in Words : Word(n) = n
BY Sizes DEF Word, Words

Bitmaps == SUBSET (0 .. WND_BITS - 1)

\* left_move gives a bitmap; it is exact while the last byte is empty.
LEMMA LeftMoves ==
  ASSUME NEW bits \in Bitmaps, NEW n \in Nat
  PROVE  /\ left_move(bits, WND_BITS, n) \in Bitmaps
         /\ (\A c \in bits : c < WND_BITS - BYTE_BITS) =>
              left_move(bits, WND_BITS, n) = {b \in 0 .. WND_BITS - 1 : b + n \in bits}
<1> DEFINE part  == n % BYTE_BITS
           whole == n - part
           moved == { c - whole : c \in {d \in bits : d >= whole} }
           last  == WND_BITS - whole - BYTE_BITS
           M == left_move(bits, WND_BITS, n)
<1>1. part \in 0 .. BYTE_BITS - 1
  BY Sizes
<1>2. whole \in Int /\ last \in Int /\ part \in Int /\ whole + part = n
  BY <1>1, Sizes
<1>3. \A x : x \in moved <=> x \in Nat /\ x + whole \in bits
  BY <1>2, Sizes DEF Bitmaps
<1>4. M = IF n >= WND_BITS THEN {}
          ELSE IF part = 0 THEN moved
          ELSE { b \in 0 .. WND_BITS - 1 :
                   \/ b < last /\ b + part \in moved
                   \/ b >= last /\ b \in moved }
  BY DEF left_move
<1>5. \A c \in bits : c \in Nat /\ c < WND_BITS
  BY Sizes DEF Bitmaps
<1> HIDE DEF part, moved, M
<1>6. M \in Bitmaps
  <2>1. ASSUME NEW x \in moved, part = 0 PROVE x \in 0 .. WND_BITS - 1
    BY <1>2, <1>3, <1>5, <2>1, Sizes
  <2> QED BY <1>4, <2>1 DEF Bitmaps
<1>7. ASSUME \A c \in bits : c < WND_BITS - BYTE_BITS
      PROVE  M = {b \in 0 .. WND_BITS - 1 : b + n \in bits}
  <2> SUFFICES ASSUME NEW b \in 0 .. WND_BITS - 1 PROVE b \in M <=> b + n \in bits
    BY <1>6 DEF Bitmaps
  <2>1. b \in Nat /\ b + whole + part = b + n /\ b + n \in Nat /\ b >= 0
    BY <1>2, Sizes
  <2>2. CASE n >= WND_BITS
    BY <1>4, <1>5, <2>1, <2>2, Sizes
  <2>3. CASE n < WND_BITS /\ part = 0
    BY <1>2, <1>3, <1>4, <2>1, <2>3, Sizes
  <2>4. CASE n < WND_BITS /\ part # 0
    <3>1. b \in M <=> (b < last /\ b + part \in moved) \/ (b >= last /\ b \in moved)
      BY <1>4, <2>4, Sizes
    <3>2. b + part \in moved <=> b + n \in bits
      <4>1. b + part \in Nat /\ (b + part) + whole = b + n
        BY <1>1, <1>2, <2>1, Sizes
      <4> QED BY <1>3, <4>1
    <3>3. ASSUME b >= last PROVE b \notin moved /\ b + n \notin bits
      <4>1. b + whole >= WND_BITS - BYTE_BITS /\ b + n >= WND_BITS - BYTE_BITS
        BY <1>1, <1>2, <2>1, <3>3, Sizes
      <4>2. ~(b + whole < WND_BITS - BYTE_BITS) /\ ~(b + n < WND_BITS - BYTE_BITS)
        BY <1>2, <2>1, <4>1, Sizes
      <4> QED BY <1>3, <1>7, <4>2
    <3>4. b < last \/ b >= last
      BY <1>2, <2>1
    <3> QED BY <3>1, <3>2, <3>3, <3>4
  <2> QED BY <1>2, <2>2, <2>3, <2>4, Sizes
<1> QED BY <1>6, <1>7 DEF M

\* con_nums_from_head counts the ones at the head.
LEMMA RunIs ==
  ASSUME NEW bits
  PROVE  LET n == con_nums_from_head(bits, WND_BITS)
         IN /\ n \in 0 .. WND_BITS /\ \A b \in 0 .. n - 1 : b \in bits
            /\ n = WND_BITS \/ n \notin bits
<1> DEFINE T == {n \in Nat : n = WND_BITS \/ n \notin bits}
<1>1. WND_BITS \in T /\ T \subseteq Nat
  BY Sizes
<1>2. PICK x \in T : \A y \in T : ~(<<y, x>> \in OpToRel(<, Nat))
  <2> HIDE DEF T
  <2> QED BY <1>1, WFMin, NatLessThanWellFounded, Zenon
<1>3. \A y \in T : ~(y < x)
  <2> HIDE DEF T
  <2> QED BY <1>1, <1>2, Zenon DEF OpToRel
<1>4. x \in 0 .. WND_BITS
  BY <1>1, <1>3, Sizes
<1>5. \A b \in 0 .. x - 1 : b \in bits
  BY <1>3, <1>4, Sizes
<1>6. x = WND_BITS \/ x \notin bits
  OBVIOUS
<1> HIDE DEF T
<1> QED BY <1>4, <1>5, <1>6, Zenon DEF con_nums_from_head

-----------------------------------------------------------------------------
(***************************************************************************)
(* Types, for any numbers.                                                 *)
(***************************************************************************)

LEMMA WindowFields ==
  ASSUME NEW w \in Windows
  PROVE  w.begin \in Words /\ w.end \in Words /\ w.bits \in Bitmaps
BY DEF Windows, Bitmaps

LEMMA WindowPlaced ==
  ASSUME NEW w \in Windows, NEW b \in Words, NEW e \in Words
  PROVE  [w EXCEPT !.begin = b, !.end = e] \in Windows
BY DEF Windows

LEMMA WindowMarked ==
  ASSUME NEW w \in Windows, NEW bits \in Bitmaps, NEW e \in Words
  PROVE  /\ [w EXCEPT !.bits = bits, !.end = e] \in Windows
         /\ [w EXCEPT !.bits = bits] \in Windows
BY DEF Windows, Bitmaps

LEMMA PointIs ==
  ASSUME NEW w \in Windows, NEW n \in Words
  PROVE  idx_to_pt(w, n) \in Words
<1>1. w.begin \in Int /\ w.end \in Int /\ n \in Int /\ MAX_SEQ \in Int /\ 0 \in Words
  BY WindowFields, Sizes DEF Words
<1>2. n - w.begin \in Int /\ MAX_SEQ - w.begin + n \in Int
  BY <1>1
<1> QED BY <1>1, <1>2, WordIs DEF idx_to_pt

LEMMA SavedTyped ==
  ASSUME NEW w \in Windows, NEW n \in Words, NEW cmp
  PROVE  wnd_save(w, n, cmp) \in Windows
<1> DEFINE v == IF w.begin = 0 THEN [w EXCEPT !.begin = n, !.end = n] ELSE w
           bits == v.bits \cup ({idx_to_pt(v, n)} \cap 0 .. WND_BITS - 1)
<1>1. v \in Windows
  BY WindowPlaced, WindowFields
<1> HIDE DEF v
<1>2. bits \in Bitmaps /\ v.end \in Words
  BY <1>1, WindowFields DEF Bitmaps
<1> DEFINE end == IF cmp = "in_wnd" THEN n ELSE v.end
<1>3. wnd_save(w, n, cmp) = [v EXCEPT !.bits = bits, !.end = end]
  BY DEF wnd_save, v
<1>4. end \in Words
  BY <1>2
<1> HIDE DEF bits, end
<1>5. [v EXCEPT !.bits = bits, !.end = end] \in Windows
  BY <1>1, <1>2, <1>4, WindowMarked
<1> QED BY <1>3, <1>5, Zenon

LEMMA MovedTyped ==
  ASSUME NEW w \in Windows, NEW n \in Nat
  PROVE  wnd_move(w, n) \in Windows
<1> DEFINE bits == left_move(w.bits, WND_BITS, n)
           v == [w EXCEPT !.bits = bits]
           begin == Word(w.begin + n)
           end == IF n >= range_size(v) THEN begin ELSE v.end
<1>1. bits \in Bitmaps /\ w.begin \in Words /\ w.end \in Words
  BY WindowFields, LeftMoves
<1>2. begin \in Words
  <2>1. w.begin + n \in Int
    BY <1>1, Sizes DEF Words
  <2> QED BY <2>1, WordIs
<1>3. wnd_move(w, n) = [v EXCEPT !.begin = begin, !.end = end]
  BY DEF wnd_move
<1> HIDE DEF bits
<1>4. v \in Windows
  BY <1>1, WindowMarked
<1> HIDE DEF v, begin
<1>5. end \in Words
  BY <1>2, <1>4, WindowFields
<1> HIDE DEF end
<1> QED BY <1>2, <1>3, <1>4, <1>5, WindowPlaced

\* How far the window is moved when its head has arrived.
LEMMA RunTyped ==
  ASSUME NEW w
  PROVE  wnd_can_move_nums(w) \in Nat
BY RunIs, Sizes DEF wnd_can_move_nums

LEMMA TryMoveTyped ==
  ASSUME NEW w \in Windows, NEW n
  PROVE  TryMoveTotalWnd(w, n) \in Windows
BY RunTyped, MovedTyped DEF TryMoveTotalWnd

LEMMA ForcedTyped ==
  ASSUME NEW w \in Windows
  PROVE  ForcedMove(w) \in Windows
BY Sizes, MovedTyped DEF ForcedMove

LEMMA AgedTyped ==
  ASSUME NEW w \in Windows, NEW old \in Words
  PROVE  Aged(w, old) \in Windows
<1>1. wnd_can_move_nums(w) \in Nat /\ idx_to_pt(w, old) \in Nat
  BY RunTyped, PointIs, Sizes DEF Words
<1>2. (IF idx_to_pt(w, old) > wnd_can_move_nums(w)
       THEN wnd_can_move_nums(w) ELSE idx_to_pt(w, old)) \in Nat
  BY <1>1
<1> QED BY <1>2, MovedTyped DEF Aged

\* The ageing table keeps its length.
LEMMA TableTyped ==
  ASSUME NEW t \in AgeingTables, NEW n \in Words
  PROVE  /\ push_idx(t, n) \in AgeingTables /\ increase(t, n) \in AgeingTables
         /\ oldest(t) \in Words
<1>1. AGEING_SIZE \in Nat /\ AGEING_SIZE >= 2 /\ t \in [1 .. AGEING_SIZE -> Words]
  BY WindowAssumption DEF AgeingTables
<1>2. push_idx(t, n) \in AgeingTables
  BY <1>1 DEF push_idx, AgeingTables
<1>3. t \in Seq(Words) /\ Len(t) = AGEING_SIZE
  BY <1>1
<1>4. oldest(t) \in Words
  BY <1>1, <1>3 DEF oldest
<1>5. Tail(t) \in Seq(Words) /\ Len(Tail(t)) = AGEING_SIZE - 1
  BY <1>1, <1>3
<1>6. Append(Tail(t), n) \in Seq(Words) /\ Len(Append(Tail(t), n)) = AGEING_SIZE
  BY <1>1, <1>5
<1>7. increase(t, n) \in [1 .. AGEING_SIZE -> Words]
  <2> DEFINE u == Append(Tail(t), n)
  <2>1. u \in Seq(Words) /\ Len(u) = AGEING_SIZE
    BY <1>6
  <2> HIDE DEF u
  <2>2. u \in [1 .. Len(u) -> Words]
    BY <2>1
  <2> QED BY <2>1, <2>2 DEF increase, u
<1> QED BY <1>2, <1>4, <1>7 DEF AgeingTables

LEMMA ListTyped ==
  ASSUME TypeOK
  PROVE  /\ Used \subseteq Slots /\ \A k \in Slots : list[k] \in Words
         /\ beginPt \in Slots /\ endPt \in Slots
BY DEF TypeOK, Used

\* A message that is found, or the one before which it belongs, has a slot.
LEMMA FoundTyped ==
  ASSUME TypeOK, NEW seq, FindMultSequence(seq).reson \in {"ok", "near"}
  PROVE  FindMultSequence(seq).pt \in Slots
<1> DEFINE stops == StopsAt(list, Used, beginPt, endPt, seq)
<1>1. beginPt \in Slots /\ endPt \in Slots
  BY ListTyped
<1>2. stops # {} => Nearest(beginPt, stops) \in Slots
  <2>1. stops \subseteq Slots
    BY SpanIs, <1>1 DEF StopsAt
  <2> HIDE DEF stops
  <2> QED BY <1>1, <2>1, NearestIs
<1> QED BY <1>1, <1>2 DEF FindMultSequence, Search

LEMMA AddTyped ==
  ASSUME TypeOK, NEW seq \in Words, AddIntoMultiQue(seq)
  PROVE  list' \in [Slots -> Words] /\ beginPt' \in Slots /\ endPt' \in Slots
<1>1. endPt' = After(endPt) /\ endPt' \in Slots
  BY ListTyped, Steps DEF AddIntoMultiQue
<1>2. list' \in [Slots -> Words]
  <2>1. \A k \in Slots : list[Before(k)] \in Words /\ list[k] \in Words
    BY ListTyped, Steps
  <2> QED BY <2>1 DEF AddIntoMultiQue
<1>3. beginPt' \in Slots
  <2> DEFINE used == {k \in Slots : list'[k] # 0}
  <2>1. beginPt' = HeadOf(used, beginPt, endPt') /\ used \subseteq Slots
    BY DEF AddIntoMultiQue
  <2> HIDE DEF used
  <2> QED BY <1>1, <2>1, ListTyped, HeadOfIs
<1> QED BY <1>1, <1>2, <1>3

LEMMA FinishTyped ==
  ASSUME TypeOK, NEW pt \in Slots, FinishNode(pt)
  PROVE  list' \in [Slots -> Words] /\ beginPt' \in Slots /\ endPt' \in Slots
<1>1. \A k \in Slots : After(k) \in Slots /\ Before(k) \in Slots
  BY Steps
<1>2. 0 \in Words /\ \A k \in Slots : list[k] \in Words /\ list[After(k)] \in Words
  BY <1>1, ListTyped, Sizes DEF Words
<1> QED BY <1>1, <1>2, ListTyped DEF FinishNode, Closed

LEMMA NotedTyped ==
  ASSUME TypeOK, NEW seq \in Words, NEW cmp, Noted(seq, cmp)
  PROVE  wnd' \in Windows /\ ageing' \in AgeingTables /\ first' \in Words /\ edge' \in BOOLEAN
<1>1. wnd \in Windows /\ ageing \in AgeingTables /\ first \in Words /\ edge \in BOOLEAN
  BY DEF TypeOK
<1>2. wnd_save(wnd, seq, cmp) \in Windows
  BY <1>1, SavedTyped
<1>3. wnd' \in Windows
  BY <1>2, TryMoveTyped DEF Noted
<1>4. ageing' \in AgeingTables
  BY <1>1, TableTyped DEF Noted
<1> QED BY <1>1, <1>3, <1>4 DEF Noted

LEMMA WalkTyped ==
  ASSUME NEW i \in 0 .. SLOTS
  PROVE  WalkAt(i) \in 0 .. SLOTS + 1
BY SlotsAre DEF WalkAt, NoWalk

LEMMA StepTyped ==
  ASSUME TypeOK, [Next]_vars
  PROVE  TypeOK'
<1>1. CASE SenderSends
  <2>1. NextSeq(seqNo) \in Seqs /\ seqNo' = NextSeq(seqNo)
    BY <1>1, Sizes DEF SenderSends, NextSeq, Seqs, Words, TypeOK
  <2>2. seqNo' \in Words /\ held' \in SUBSET Seqs
    BY <1>1, <2>1 DEF SenderSends, Seqs, TypeOK
  <2> QED BY <1>1, <2>2
      DEF SenderSends, TypeOK, window, ring, application
<1>2. ASSUME NEW n \in held, SenderFinishes(n) PROVE TypeOK'
  BY <1>2 DEF SenderFinishes, TypeOK, window, ring, application
<1>3. ASSUME NEW n \in Sent, RecvKnown(n) \/ RecvNextUnknown(n) PROVE TypeOK'
  BY <1>3 DEF RecvKnown, RecvNextUnknown, TurnedDown, TypeOK, window, ring, sender, application
<1>4. ASSUME NEW n \in Sent, RecvOnce(n) PROVE TypeOK'
  <2>1. n \in Words /\ n \in Seqs
    BY DEF Sent, Seqs
  <2>2. wnd' \in Windows /\ ageing' \in AgeingTables /\ first' \in Words /\ edge' \in BOOLEAN
    BY <1>4, <2>1, NotedTyped DEF RecvOnce
  <2>3. handed' \in SUBSET Seqs /\ again' \in SUBSET Seqs
    BY <1>4, <2>1 DEF RecvOnce, HandUp, TypeOK
  <2> QED BY <1>4, <2>2, <2>3 DEF RecvOnce, TypeOK, ring, sender
<1>5. ASSUME NEW n \in Sent, RecvFirst(n) PROVE TypeOK'
  <2>1. n \in Words /\ n \in Seqs
    BY DEF Sent, Seqs
  <2>2. wnd' \in Windows /\ ageing' \in AgeingTables /\ first' \in Words /\ edge' \in BOOLEAN
    BY <1>5, <2>1, NotedTyped DEF RecvFirst
  <2>3. list' \in [Slots -> Words] /\ beginPt' \in Slots /\ endPt' \in Slots
    BY <1>5, <2>1, AddTyped DEF RecvFirst
  <2> QED BY <1>5, <2>2, <2>3 DEF RecvFirst, TypeOK, sender, application
<1>6. ASSUME NEW n \in Sent, RecvNext(n) PROVE TypeOK'
  <2>1. n \in Seqs
    BY DEF Sent
  <2>2. FindMultSequence(n).pt \in Slots
    BY <1>6, FoundTyped DEF RecvNext
  <2>3. list' \in [Slots -> Words] /\ beginPt' \in Slots /\ endPt' \in Slots
    BY <1>6, <2>2, FinishTyped DEF RecvNext
  <2>4. handed' \in SUBSET Seqs /\ again' \in SUBSET Seqs
    BY <1>6, <2>1 DEF RecvNext, HandUp, TypeOK
  <2> QED BY <1>6, <2>3, <2>4 DEF RecvNext, TypeOK, window, sender
<1>7. ASSUME NEW n \in RangeBegins, SureSenderSeqWnd(n) PROVE TypeOK'
  <2>1. n \in Words
    BY Sizes DEF RangeBegins, Sent, Seqs, Words
  <2>2. wnd \in Windows /\ idx_to_pt(wnd, n) \in Nat
    BY <2>1, PointIs, Sizes DEF TypeOK, Words
  <2>3. wnd' \in Windows
    BY <1>7, <2>2, MovedTyped DEF SureSenderSeqWnd
  <2> QED BY <1>7, <2>3 DEF SureSenderSeqWnd, TypeOK, ring, sender, application
<1>8. CASE TimerTotal
  <2>1. /\ wnd \in Windows /\ ageing \in AgeingTables /\ beginPt \in 0 .. SLOTS
        /\ oldest(ageing) \in Words
    <3>1. wnd \in Windows /\ ageing \in AgeingTables /\ beginPt \in Slots
      BY DEF TypeOK
    <3>2. 0 \in Words
      BY Sizes DEF Words
    <3> QED BY <3>1, <3>2, TableTyped, SlotsAre
  <2>2. ForcedMove(wnd) \in Windows
    BY <2>1, ForcedTyped
  <2>3. Aged(ForcedMove(wnd), oldest(ageing)) \in Windows
    BY <2>1, <2>2, AgedTyped
  <2>4. increase(ageing, ForcedMove(wnd).end) \in AgeingTables
    BY <2>1, <2>2, WindowFields, TableTyped
  <2>5. wnd' \in Windows /\ ageing' \in AgeingTables
    BY <1>8, <2>1, <2>3, <2>4 DEF TimerTotal, window
  <2>6. walk' \in 0 .. SLOTS + 1
    BY <1>8, <2>1, WalkTyped DEF TimerTotal
  <2>7. left' \in SUBSET Seqs
    BY <1>8 DEF TimerTotal, LeavesBehind, TypeOK
  <2> QED BY <1>8, <2>5, <2>6, <2>7 DEF TimerTotal, TypeOK, ring, sender, application
<1>9. CASE TimerWalk
  <2>1. (walk % SLOTS) + 1 \in 0 .. SLOTS
    BY SlotsAre DEF TypeOK
  <2>2. walk' \in 0 .. SLOTS + 1
    BY <1>9, <2>1, WalkTyped DEF TimerWalk
  <2> QED BY <1>9, <2>2 DEF TimerWalk, TypeOK, window, ring, sender, application
<1>10. CASE UNCHANGED vars
  BY <1>10 DEF vars, TypeOK, window, ring, sender, application
<1> QED BY <1>1, <1>2, <1>3, <1>4, <1>5, <1>6, <1>7, <1>8, <1>9, <1>10 DEF Next

\* The variables of the receiver keep their types, whatever arrives in whatever
\* order, and whether or not the numbers have wrapped.
THEOREM ReceiverTypeCorrect == Spec => []TypeOK
<1>1. Init => TypeOK
  <2> SUFFICES ASSUME Init PROVE TypeOK
    OBVIOUS
  <2>1. 0 \in Words /\ NoWalk \in 0 .. SLOTS + 1
    BY Sizes, SlotsAre DEF Words, NoWalk
  <2>2. EmptyWindow \in Windows /\ EmptyTable \in AgeingTables
    BY <2>1 DEF EmptyWindow, Windows, EmptyTable, AgeingTables
  <2> QED BY <2>1, <2>2, ConstantsAssumption DEF Init, TypeOK
<1>2. TypeOK /\ [Next]_vars => TypeOK'
  BY StepTyped
<1> QED BY <1>1, <1>2, PTL DEF Spec

-----------------------------------------------------------------------------
(***************************************************************************)
(* The inductive invariant.                                                *)
(***************************************************************************)

\* No window reaches beyond the greatest number.
NoWrap == SEQ_BEGIN <= LastSeq /\ LastSeq + WND_BITS < MAX_SEQ

\* A window that does not wrap: its bits stand for numbers up to its end, and
\* none of them is in the last byte, which left_move does not shift.
InLine(w) ==
  /\ 0 < w.begin /\ w.begin <= w.end /\ w.begin + WND_BITS <= MAX_SEQ
  /\ w.end - w.begin < WND_BITS - BYTE_BITS
  /\ \A b \in w.bits : b <= w.end - w.begin

\* The window takes the number for seen.
Takes(w, n) == n < w.begin \/ n - w.begin \in w.bits

\* What a window says of the messages that have arrived (got), of those the sender
\* holds (kept), of the last number given out and the first that arrived: its
\* bits and nothing else stand for arrived messages, and it has moved over no
\* message the sender holds that did not arrive.
Tells(w, got, kept, last, from) ==
  /\ InLine(w)
  /\ from <= w.begin /\ w.begin <= last + 1 /\ (w.end <= last \/ w.end = w.begin)
  /\ \A b \in w.bits : w.begin + b \in got
  /\ \A n \in got : Takes(w, n)
  /\ \A n \in kept : n < w.begin => n \in got \/ n < from

\* Messages were numbered by the sender.
Given == (SEQ_BEGIN + 1) .. seqNo
Counted ==
  /\ seqNo \in SEQ_BEGIN .. LastSeq
  /\ held \subseteq Given /\ handed \subseteq Given /\ Open \subseteq Given

\* The list l from b to e: nothing outside, no gap, sorted.
Ring(l, b, e) ==
  /\ \A k \in Slots : l[k] # 0 => Dist(b, k) <= Dist(b, e)
  /\ \/ b = e /\ l[b] = 0
     \/ \A k \in Slots : Dist(b, k) <= Dist(b, e) => l[k] # 0
  /\ \A j, k \in Slots :
       l[j] # 0 /\ l[k] # 0 /\ Dist(b, j) < Dist(b, k) => l[j] < l[k]

\* What a move by force left behind is far behind the last number given out; of
\* the rest of what the sender holds the window tells.
LeftFar == \A n \in left : n \in Given /\ seqNo - n >= CAN_MOVE_SIZE - MOVE_SIZE
Tended == held \ left

WindowKnows ==
  /\ again = {} /\ Open \cap handed = {} /\ LeftFar
  /\ first = 0 => wnd = EmptyWindow /\ Arrived = {}
  /\ first # 0 => SEQ_BEGIN < first /\ Tells(wnd, Arrived, Tended, seqNo, first)

IInv == TypeOK /\ Counted /\ Ring(list, beginPt, endPt) /\ (edge \/ WindowKnows)

-----------------------------------------------------------------------------
(***************************************************************************)
(* A window that does not wrap.                                            *)
(***************************************************************************)

LEMMA Numbers ==
  ASSUME NoWrap
  PROVE  /\ SEQ_BEGIN \in Nat /\ LastSeq \in Nat /\ LastSeq + 1 + WND_BITS <= MAX_SEQ
         /\ \A n \in Nat : SEQ_BEGIN <= n => Position(n) = n - SEQ_BEGIN
         /\ \A n \in Nat : SEQ_BEGIN <= n /\ n < LastSeq => NextSeq(n) = n + 1
         /\ \A n \in Nat : n < SEQ_BEGIN => Position(n) = n - SEQ_BEGIN + MAX_SEQ
BY ConstantsAssumption, Sizes DEF NoWrap, Position, NextSeq, Words

LEMMA LineFacts ==
  ASSUME NEW w \in Windows, InLine(w)
  PROVE  /\ w.begin \in Nat /\ w.end \in Nat /\ w.begin # 0 /\ w.begin <= w.end
         /\ w.begin <= MAX_SEQ /\ w.end <= MAX_SEQ
         /\ w.bits \in Bitmaps
         /\ \A b \in w.bits : /\ b \in Nat /\ b <= w.end - w.begin
                              /\ b < WND_BITS - BYTE_BITS /\ b < WND_BITS
<1>1. w.begin \in Nat /\ w.end \in Nat /\ w.bits \in Bitmaps /\ w.end <= MAX_SEQ
  BY WindowFields, Sizes DEF Words
<1> QED BY <1>1, Sizes DEF InLine, Bitmaps

LEMMA Compares ==
  ASSUME NEW w \in Windows, InLine(w), NEW idx \in Words
  PROVE  /\ wnd_compare(w, idx) =
              IF idx < w.begin THEN "old"
              ELSE IF idx <= w.end THEN "in_range"
              ELSE IF idx <= w.begin + WND_BITS THEN "in_wnd" ELSE "out_wnd"
         /\ idx >= w.begin => idx_to_pt(w, idx) = idx - w.begin
<1>1. /\ w.begin \in Nat /\ w.end \in Nat /\ w.begin # 0 /\ w.begin <= w.end
      /\ idx \in Nat /\ idx <= MAX_SEQ /\ WND_BITS \in Nat /\ MAX_SEQ \in Nat
      /\ w.begin + WND_BITS <= MAX_SEQ
  BY LineFacts, Sizes DEF Words, InLine
<1>2. idx >= w.begin => idx_to_pt(w, idx) = idx - w.begin
  <2>1. idx >= w.begin => idx - w.begin \in Words
    BY <1>1 DEF Words
  <2> QED BY <1>1, <2>1, WordIs DEF idx_to_pt
<1> QED BY <1>1, <1>2 DEF wnd_compare

\* Of a window that does not wrap, IsAcked tells what it takes for seen; the
\* bit behind the bitmap is not read.
LEMMA AckedIs ==
  ASSUME NEW w \in Windows, InLine(w), NEW idx \in Words, NEW stray \in BOOLEAN
  PROVE  IsAcked(w, idx, wnd_compare(w, idx), stray) <=> Takes(w, idx)
<1>1. /\ w.begin \in Nat /\ w.end \in Nat /\ w.begin <= w.end /\ idx \in Nat
      /\ w.end - w.begin < WND_BITS - BYTE_BITS
      /\ BYTE_BITS \in Nat /\ WND_BITS \in Nat
      /\ \A b \in w.bits : b \in Nat /\ b <= w.end - w.begin
  BY LineFacts, Sizes DEF Words, InLine
<1>2. CASE idx < w.begin
  BY <1>2, Compares DEF IsAcked, Takes
<1>3. CASE w.begin <= idx /\ idx <= w.end
  <2>1. wnd_compare(w, idx) = "in_range" /\ idx_to_pt(w, idx) = idx - w.begin
    BY <1>1, <1>3, Compares
  <2>2. idx - w.begin # WND_BITS /\ ~(idx < w.begin)
    BY <1>1, <1>3
  <2> QED BY <2>1, <2>2 DEF IsAcked, Takes
<1>4. CASE w.end < idx
  <2>1. wnd_compare(w, idx) \notin {"old", "in_range"}
    BY <1>1, <1>4, Compares
  <2>2. ~(idx < w.begin) /\ ~(idx - w.begin <= w.end - w.begin)
    BY <1>1, <1>4
  <2> QED BY <1>1, <2>1, <2>2 DEF IsAcked, Takes
<1> QED BY <1>1, <1>2, <1>3, <1>4

LEMMA Moves ==
  ASSUME NEW w \in Windows, InLine(w), NEW n \in Nat, w.begin + n + WND_BITS <= MAX_SEQ,
         NEW v, v = wnd_move(w, n)
  PROVE  /\ v \in Windows /\ InLine(v) /\ v.begin = w.begin + n
         /\ v.end = IF w.begin + n <= w.end THEN w.end ELSE w.begin + n
         /\ v.bits = {b \in 0 .. WND_BITS - 1 : b + n \in w.bits}
<1> DEFINE bits == left_move(w.bits, WND_BITS, n)
           m == [w EXCEPT !.bits = bits]
           begin == Word(w.begin + n)
           end == IF n >= range_size(m) THEN begin ELSE w.end
<1>1. /\ w.begin \in Nat /\ w.end \in Nat /\ w.begin # 0 /\ w.begin <= w.end
      /\ w.end <= MAX_SEQ /\ WND_BITS \in Nat /\ BYTE_BITS \in Nat /\ MAX_SEQ \in Nat
      /\ w.end - w.begin < WND_BITS - BYTE_BITS
  BY LineFacts, Sizes DEF InLine
<1>2. bits = {b \in 0 .. WND_BITS - 1 : b + n \in w.bits}
  BY LineFacts, LeftMoves
<1>3. begin = w.begin + n
  <2>1. w.begin + n \in Words
    BY <1>1 DEF Words
  <2> QED BY <2>1, WordIs
<1>4. m.begin = w.begin /\ m.end = w.end /\ m.bits = bits
  BY DEF Windows
<1>5. w.begin # w.end => range_size(m) = w.end - w.begin + 1
  <2>1. w.end - w.begin \in Words /\ w.end - w.begin + 1 \in Words
    BY <1>1 DEF Words
  <2> HIDE DEF m, bits
  <2>2. idx_to_pt(m, m.end) = w.end - w.begin
    BY <1>1, <1>4, <2>1, WordIs DEF idx_to_pt
  <2> QED BY <1>4, <2>1, <2>2, WordIs DEF range_size
<1>6. w.begin = w.end => range_size(m) \in {0, 1}
  BY <1>4 DEF range_size
<1>7. v = [m EXCEPT !.begin = begin, !.end = end]
  BY <1>4 DEF wnd_move
<1>8. end = IF w.begin + n <= w.end THEN w.end ELSE w.begin + n
  <2> HIDE DEF m, begin
  <2>1. CASE w.begin = w.end
    BY <1>1, <1>3, <1>6, <2>1
  <2>2. CASE w.begin # w.end
    BY <1>1, <1>3, <1>5, <2>2
  <2> QED BY <2>1, <2>2
<1>9. v \in Windows
  BY MovedTyped
<1> HIDE DEF end, begin
<1>10. v.begin = begin /\ v.end = end /\ v.bits = bits
  BY <1>7 DEF Windows
<1>11. InLine(v)
  <2>1. v.begin = w.begin + n
    BY <1>3, <1>10
  <2>2. v.end = IF w.begin + n <= w.end THEN w.end ELSE w.begin + n
    BY <1>8, <1>10
  <2>3. ASSUME NEW b \in v.bits PROVE b <= v.end - v.begin
    <3>1. b \in Nat /\ b + n <= w.end - w.begin
      <4>1. b \in 0 .. WND_BITS - 1 /\ b + n \in w.bits
        BY <1>2, <1>10, <2>3
      <4> QED BY <1>1, <4>1, LineFacts
    <3> QED BY <1>1, <2>1, <2>2, <3>1
  <2> QED BY <1>1, <2>1, <2>2, <2>3, Sizes DEF InLine
<1> QED BY <1>2, <1>3, <1>8, <1>9, <1>10, <1>11

\* The size of the range is the number of its positions.
LEMMA RangeIs ==
  ASSUME NEW w \in Windows, InLine(w), w.begin # w.end
  PROVE  range_size(w) = w.end - w.begin + 1
<1>1. /\ w.begin \in Nat /\ w.end \in Nat /\ w.begin # 0 /\ w.begin <= w.end
      /\ w.end <= MAX_SEQ /\ MAX_SEQ \in Nat
  BY LineFacts, Sizes
<1>2. w.end - w.begin \in Words /\ w.end - w.begin + 1 \in Words
  BY <1>1 DEF Words
<1>3. idx_to_pt(w, w.end) = w.end - w.begin
  BY <1>1, <1>2, WordIs DEF idx_to_pt
<1> QED BY <1>2, <1>3, WordIs DEF range_size

\* A window nothing has arrived in stays as it is when it is moved by nothing.
LEMMA EmptyStays == wnd_move(EmptyWindow, 0) = EmptyWindow
<1> DEFINE v == wnd_move(EmptyWindow, 0)
           m == [EmptyWindow EXCEPT !.bits = left_move(@, WND_BITS, 0)]
<1>1. /\ EmptyWindow \in Windows /\ {} \in Bitmaps /\ 0 \in Words
      /\ EmptyWindow.begin = 0 /\ EmptyWindow.end = 0 /\ EmptyWindow.bits = {}
  BY Sizes DEF EmptyWindow, Windows, Words, Bitmaps
<1>2. left_move({}, WND_BITS, 0) = {}
  BY <1>1, LeftMoves
<1>3. m.begin = 0 /\ m.end = 0 /\ m.bits = {} /\ m \in Windows
  BY <1>1, <1>2, WindowMarked DEF Windows
<1>4. Word(0 + 0) = 0
  BY <1>1, WordIs
<1>5. range_size(m) = 0
  <2> HIDE DEF m
  <2> QED BY <1>3 DEF range_size
<1>6. v = [m EXCEPT !.begin = 0, !.end = 0]
  BY <1>1, <1>4, <1>5 DEF wnd_move
<1> HIDE DEF m
<1>7. v \in Windows /\ v.begin = 0 /\ v.end = 0 /\ v.bits = {}
  BY <1>1, <1>3, <1>6, WindowPlaced DEF Windows
<1>8. \A x \in Windows : x.begin = 0 /\ x.end = 0 /\ x.bits = {} => x = EmptyWindow
  BY DEF Windows, EmptyWindow
<1> QED BY <1>7, <1>8

-----------------------------------------------------------------------------
(***************************************************************************)
(* What a window tells, when it is moved and when a number is noted.       *)
(***************************************************************************)

\* A window may be moved over messages that have arrived or were given up.
LEMMA MoveTells ==
  ASSUME NEW w \in Windows, NEW got, NEW kept, NEW last \in Nat, NEW from \in Nat,
         Tells(w, got, kept, last, from), got \subseteq Nat, kept \subseteq Nat,
         last + 1 + WND_BITS <= MAX_SEQ, NEW n \in Nat, w.begin + n <= last + 1,
         \A m \in kept : w.begin <= m /\ m < w.begin + n => m \in got \/ m < from,
         NEW v, v = wnd_move(w, n)
  PROVE  Tells(v, got, kept, last, from)
<1>1. /\ InLine(w) /\ from <= w.begin /\ (w.end <= last \/ w.end = w.begin)
      /\ \A b \in w.bits : w.begin + b \in got
      /\ \A m \in got : Takes(w, m)
      /\ \A m \in kept : m < w.begin => m \in got \/ m < from
  BY DEF Tells
<1>2. w.begin \in Nat /\ w.end \in Nat /\ WND_BITS \in Nat /\ MAX_SEQ \in Nat
      /\ \A b \in w.bits : b \in Nat /\ b < WND_BITS
  BY <1>1, LineFacts, Sizes
<1>3. /\ InLine(v) /\ v.begin = w.begin + n
      /\ v.end = IF w.begin + n <= w.end THEN w.end ELSE w.begin + n
      /\ v.bits = {b \in 0 .. WND_BITS - 1 : b + n \in w.bits}
  <2>1. w.begin + n + WND_BITS <= MAX_SEQ
    BY <1>2
  <2> QED BY <1>1, <2>1, Moves
<1>4. ASSUME NEW b \in v.bits PROVE v.begin + b \in got
  <2>1. b \in Nat /\ b + n \in w.bits /\ w.begin + (b + n) \in got
    BY <1>1, <1>2, <1>3
  <2>2. v.begin + b = w.begin + (b + n)
    BY <1>2, <1>3, <2>1
  <2> QED BY <2>1, <2>2
<1>5. ASSUME NEW m \in got PROVE Takes(v, m)
  <2>1. m \in Nat /\ (m < w.begin \/ m - w.begin \in w.bits)
    BY <1>1 DEF Takes
  <2>2. CASE m < w.begin + n
    BY <1>3, <2>2 DEF Takes
  <2>3. CASE ~(m < w.begin + n)
    <3>1. m - w.begin \in w.bits
      BY <1>2, <2>1, <2>3
    <3>2. m - v.begin \in 0 .. WND_BITS - 1 /\ (m - v.begin) + n = m - w.begin
      BY <1>2, <1>3, <2>1, <2>3, <3>1
    <3> QED BY <1>3, <3>1, <3>2 DEF Takes
  <2> QED BY <2>2, <2>3
<1>6. ASSUME NEW m \in kept, m < v.begin PROVE m \in got \/ m < from
  BY <1>1, <1>2, <1>3, <1>6
<1>7. from <= v.begin /\ v.begin <= last + 1 /\ (v.end <= last \/ v.end = v.begin)
  BY <1>1, <1>2, <1>3
<1> QED BY <1>3, <1>4, <1>5, <1>6, <1>7 DEF Tells

\* The run of ones at the head stands for messages that have arrived, and the
\* window may be moved over any part of it.
LEMMA RunArrived ==
  ASSUME NEW w \in Windows, NEW got, NEW kept, NEW last \in Nat, NEW from \in Nat,
         Tells(w, got, kept, last, from), got \subseteq 1 .. last,
         NEW n \in Nat, n <= wnd_can_move_nums(w)
  PROVE  /\ w.begin + n <= last + 1
         /\ \A m \in Nat : w.begin <= m /\ m < w.begin + n => m \in got
<1>1. /\ InLine(w) /\ w.begin <= last + 1
      /\ \A b \in w.bits : w.begin + b \in got
  BY DEF Tells
<1>2. w.begin \in Nat
  BY <1>1, LineFacts
<1>3. \A b \in Nat : b < n => b \in w.bits
  <2> DEFINE run == wnd_can_move_nums(w)
  <2>1. run \in Nat /\ \A b \in 0 .. run - 1 : b \in w.bits
    BY RunIs, Sizes DEF wnd_can_move_nums
  <2> HIDE DEF run
  <2> SUFFICES ASSUME NEW b \in Nat, b < n PROVE b \in w.bits
    OBVIOUS
  <2>2. b \in 0 .. run - 1
    BY <2>1 DEF run
  <2> QED BY <2>1, <2>2
<1>4. ASSUME NEW m \in Nat, w.begin <= m, m < w.begin + n PROVE m \in got
  <2>1. m - w.begin \in Nat /\ m - w.begin < n /\ w.begin + (m - w.begin) = m
    BY <1>2, <1>4
  <2> QED BY <1>1, <1>3, <2>1
<1>5. w.begin + n <= last + 1
  <2>1. CASE n = 0
    BY <1>1, <1>2, <2>1
  <2>2. CASE n # 0
    <3>1. w.begin + n - 1 \in Nat /\ w.begin <= w.begin + n - 1 /\ w.begin + n - 1 < w.begin + n
      BY <1>2, <2>2
    <3>2. w.begin + n - 1 \in got
      BY <1>4, <3>1
    <3> QED BY <1>2, <3>2
  <2> QED BY <2>1, <2>2
<1> QED BY <1>4, <1>5

LEMMA MoveRunTells ==
  ASSUME NEW w \in Windows, NEW got, NEW kept, NEW last \in Nat, NEW from \in Nat,
         Tells(w, got, kept, last, from), got \subseteq 1 .. last, kept \subseteq Nat,
         last + 1 + WND_BITS <= MAX_SEQ, NEW n \in Nat, n <= wnd_can_move_nums(w)
  PROVE  Tells(wnd_move(w, n), got, kept, last, from)
<1>1. /\ w.begin + n <= last + 1
      /\ \A m \in Nat : w.begin <= m /\ m < w.begin + n => m \in got
  BY RunArrived
<1>2. got \subseteq Nat
  OBVIOUS
<1> QED BY <1>1, <1>2, MoveTells

\* A number in the reach of the window is noted.
LEMMA SaveTells ==
  ASSUME NEW w \in Windows, NEW got, NEW kept, NEW last \in Nat, NEW from \in Nat,
         Tells(w, got, kept, last, from), got \subseteq Nat,
         NEW seq \in Words, w.begin <= seq, seq <= last,
         NEW v, v = wnd_save(w, seq, wnd_compare(w, seq)),
         idx_to_pt(v, seq) < WND_BITS - BYTE_BITS
  PROVE  v \in Windows /\ Tells(v, got \cup {seq}, kept, last, from)
<1> DEFINE pt == seq - w.begin
           cmp == wnd_compare(w, seq)
           end == IF cmp = "in_wnd" THEN seq ELSE w.end
<1>1. /\ InLine(w) /\ from <= w.begin /\ w.begin <= last + 1
      /\ (w.end <= last \/ w.end = w.begin)
      /\ \A b \in w.bits : w.begin + b \in got
      /\ \A m \in got : Takes(w, m)
      /\ \A m \in kept : m < w.begin => m \in got \/ m < from
  BY DEF Tells
<1>2. /\ w.begin \in Nat /\ w.end \in Nat /\ w.begin # 0 /\ w.begin <= w.end
      /\ w.end <= MAX_SEQ /\ seq \in Nat /\ seq <= MAX_SEQ /\ pt \in Nat
      /\ WND_BITS \in Nat /\ BYTE_BITS \in Nat /\ BYTE_BITS >= 1 /\ MAX_SEQ \in Nat
      /\ w.end - w.begin < WND_BITS - BYTE_BITS
  BY <1>1, LineFacts, Sizes DEF InLine, Words
<1>3. idx_to_pt(w, seq) = pt
  BY <1>1, Compares
<1>4. v = [w EXCEPT !.bits = w.bits \cup ({pt} \cap 0 .. WND_BITS - 1), !.end = end]
  BY <1>2, <1>3 DEF wnd_save
<1>5. v \in Windows
  BY SavedTyped
<1>6. /\ v.begin = w.begin /\ v.end = end
      /\ v.bits = w.bits \cup ({pt} \cap 0 .. WND_BITS - 1)
  BY <1>4 DEF Windows
<1>7. end = IF seq <= w.end THEN w.end
            ELSE IF seq <= w.begin + WND_BITS THEN seq ELSE w.end
  BY <1>1, <1>2, Compares
<1>8. idx_to_pt(v, seq) = pt
  <2>1. v.begin <= v.end
    BY <1>2, <1>6, <1>7
  <2>2. pt \in Words
    BY <1>2 DEF Words
  <2> QED BY <1>2, <1>6, <2>1, <2>2, WordIs DEF idx_to_pt
<1>9. pt < WND_BITS - BYTE_BITS /\ end = IF seq <= w.end THEN w.end ELSE seq
  <2>1. pt < WND_BITS - BYTE_BITS
    BY <1>8
  <2>2. seq <= w.begin + WND_BITS
    BY <1>2, <2>1
  <2> QED BY <1>7, <2>1, <2>2
<1> HIDE DEF cmp, end
<1>10. \A b : b \in v.bits <=> b \in w.bits \/ b = pt
  <2>1. pt \in 0 .. WND_BITS - 1
    BY <1>2, <1>9
  <2> QED BY <1>6, <2>1
<1>11. InLine(v)
  <2>1. /\ 0 < v.begin /\ v.begin <= v.end /\ v.begin + WND_BITS <= MAX_SEQ
        /\ v.end - v.begin < WND_BITS - BYTE_BITS
    BY <1>1, <1>2, <1>6, <1>9 DEF InLine
  <2>2. ASSUME NEW b \in v.bits PROVE b <= v.end - v.begin
    <3>1. b = pt \/ (b \in Nat /\ b <= w.end - w.begin)
      BY <1>1, <1>10, LineFacts
    <3> QED BY <1>2, <1>6, <1>9, <3>1
  <2> QED BY <2>1, <2>2 DEF InLine
<1>12. ASSUME NEW b \in v.bits PROVE v.begin + b \in got \cup {seq}
  <2>1. CASE b \in w.bits
    BY <1>1, <1>6, <2>1
  <2>2. CASE b = pt
    BY <1>2, <1>6, <2>2
  <2> QED BY <1>10, <2>1, <2>2
<1>13. ASSUME NEW m \in got \cup {seq} PROVE Takes(v, m)
  <2>1. CASE m = seq
    BY <1>6, <1>10, <2>1 DEF Takes
  <2>2. CASE m \in got
    BY <1>1, <1>6, <1>10, <2>2 DEF Takes
  <2> QED BY <2>1, <2>2
<1>14. v.end <= last \/ v.end = v.begin
  BY <1>1, <1>2, <1>6, <1>9
<1> QED BY <1>1, <1>5, <1>6, <1>11, <1>12, <1>13, <1>14 DEF Tells

\* The first number that arrives makes the window.
LEMMA FirstTells ==
  ASSUME NEW kept, NEW last \in Nat, NEW seq \in Nat, 0 < seq, seq <= last,
         last + 1 + WND_BITS <= MAX_SEQ,
         NEW v, v = wnd_save(EmptyWindow, seq, "in_wnd")
  PROVE  /\ v.begin = seq /\ idx_to_pt(v, seq) = 0
         /\ Tells(v, {seq}, kept, last, seq)
<1> DEFINE u == [EmptyWindow EXCEPT !.begin = seq, !.end = seq]
           bits == u.bits \cup ({idx_to_pt(u, seq)} \cap 0 .. WND_BITS - 1)
<1>1. seq \in Words /\ 0 \in Words /\ {} \in Bitmaps /\ EmptyWindow \in Windows
  BY Sizes DEF Words, EmptyWindow, Windows, Bitmaps
<1>2. EmptyWindow.begin = 0 /\ EmptyWindow.bits = {}
  BY DEF EmptyWindow
<1>3. u.begin = seq /\ u.end = seq /\ u.bits = {} /\ u \in Windows
  BY <1>1, <1>2, WindowPlaced DEF Windows
<1>4. v = [u EXCEPT !.bits = bits, !.end = seq]
  BY <1>2 DEF wnd_save
<1> HIDE DEF u
<1>5. \A x \in Windows : x.begin = seq /\ x.end = seq => idx_to_pt(x, seq) = 0
  <2>1. seq - seq = 0 /\ seq # 0 /\ seq <= seq
    OBVIOUS
  <2> QED BY <1>1, <2>1, WordIs DEF idx_to_pt
<1>6. bits = {0}
  BY <1>3, <1>5, Sizes
<1>7. v.begin = seq /\ v.end = seq /\ v.bits = {0} /\ v \in Windows
  <2>1. {0} \in Bitmaps
    BY Sizes DEF Bitmaps
  <2> HIDE DEF bits
  <2> QED BY <1>1, <1>3, <1>4, <1>6, <2>1, WindowMarked DEF Windows
<1>8. idx_to_pt(v, seq) = 0
  BY <1>5, <1>7
<1>9. InLine(v)
  BY <1>7, Sizes DEF InLine
<1>10. seq - seq = 0 /\ seq + 0 = seq
  OBVIOUS
<1> QED BY <1>7, <1>8, <1>9, <1>10 DEF Tells, Takes

-----------------------------------------------------------------------------
(***************************************************************************)
(* The list of open messages.                                              *)
(***************************************************************************)

\* The numbers in a list.
In(l) == {l[k] : k \in Slots} \ {0}

\* A list is empty or reaches from its first number to its last.
LEMMA RingIs ==
  ASSUME NEW l \in [Slots -> Words], NEW b \in Slots, NEW e \in Slots, Ring(l, b, e)
  PROVE  \/ b = e /\ l[b] = 0 /\ \A k \in Slots : l[k] = 0
         \/ /\ l[b] # 0 /\ l[e] # 0 /\ l[b] <= l[e]
            /\ \A k \in Slots : l[k] # 0 <=> Dist(b, k) <= Dist(b, e)
            /\ \A k \in Slots : l[k] <= l[e]
<1>1. /\ \A k \in Slots : Dist(b, k) \in Nat /\ (Dist(b, k) = 0 <=> b = k)
      /\ \A k \in Slots : Dist(b, k) = Dist(b, e) <=> k = e
      /\ \A k \in Slots : l[k] \in Nat
  <2>1. \A k \in Slots : l[k] \in Nat
    BY Sizes DEF Words
  <2> QED BY <2>1, Distances, DistanceTells
<1>2. CASE b = e /\ l[b] = 0
  <2>1. Dist(b, e) = 0
    BY <1>1, <1>2
  <2> QED BY <1>1, <1>2, <2>1 DEF Ring
<1>3. CASE \A k \in Slots : Dist(b, k) <= Dist(b, e) => l[k] # 0
  <2>1. \A k \in Slots : l[k] # 0 <=> Dist(b, k) <= Dist(b, e)
    BY <1>3 DEF Ring
  <2>2. l[b] # 0 /\ l[e] # 0
    <3>1. Dist(b, b) <= Dist(b, e) /\ Dist(b, e) <= Dist(b, e)
      BY <1>1
    <3> QED BY <2>1, <3>1
  <2>3. ASSUME NEW k \in Slots PROVE l[k] <= l[e]
    <3>1. CASE l[k] = 0 \/ k = e
      BY <1>1, <3>1
    <3>2. CASE l[k] # 0 /\ k # e
      <4>1. Dist(b, k) < Dist(b, e)
        BY <1>1, <2>1, <3>2
      <4>2. l[k] < l[e]
        BY <2>2, <3>2, <4>1 DEF Ring
      <4> QED BY <1>1, <4>2
    <3> QED BY <3>1, <3>2
  <2> QED BY <2>1, <2>2, <2>3
<1> QED BY <1>2, <1>3 DEF Ring

\* FinishNode takes one number out.
LEMMA RingCloses ==
  ASSUME NEW l \in [Slots -> Words], NEW b \in Slots, NEW e \in Slots, Ring(l, b, e),
         NEW pt \in Slots, l[pt] # 0, NEW c, c = Closed(l, e, pt, 0),
         NEW f, f = IF e # b THEN Before(e) ELSE e
  PROVE  Ring(c, b, f) /\ In(c) = In(l) \ {l[pt]}
<1>1. /\ \A k \in Slots : Dist(b, k) \in Nat /\ (Dist(b, k) = 0 <=> b = k)
      /\ \A k \in Slots : Dist(b, k) = Dist(b, pt) => k = pt
      /\ \A k \in Slots : l[k] \in Nat
  <2>1. \A k \in Slots : l[k] \in Nat
    BY Sizes DEF Words
  <2> QED BY <2>1, Distances, DistanceTells
<1>2. \A k \in Slots : l[k] # 0 <=> Dist(b, k) <= Dist(b, e)
  BY RingIs
<1>3. /\ Shifted(c, l, 0, b, e, pt) /\ Lies(c, 0, b, Dist(b, e))
      /\ Kept(c, l, 0, pt) /\ SameOrder(c, l, 0, b)
  <2>1. Dist(b, pt) <= Dist(b, e)
    BY <1>2
  <2>2. Lies(l, 0, b, Dist(b, e) + 1)
    BY <1>1, <1>2 DEF Lies
  <2> QED BY <2>1, <2>2, ClosedKeeps
<1>4. f \in Slots /\ Dist(b, f) = IF e # b THEN Dist(b, e) - 1 ELSE 0
  BY <1>1, Steps, DistAfter
<1>5. ASSUME NEW k \in Slots, c[k] # 0 PROVE Dist(b, k) <= Dist(b, f)
  <2>1. Dist(b, k) < Dist(b, e)
    BY <1>3, <1>5 DEF Lies
  <2> QED BY <1>1, <1>4, <2>1
<1>6. \/ b = f /\ c[b] = 0
      \/ \A k \in Slots : Dist(b, k) <= Dist(b, f) => c[k] # 0
  <2>1. CASE e = b
    BY <1>3, <2>1 DEF Shifted
  <2>2. CASE e # b
    <3> SUFFICES ASSUME NEW k \in Slots, Dist(b, k) <= Dist(b, e) - 1 PROVE c[k] # 0
      BY <1>4, <2>2
    <3>1. /\ Dist(b, k) < Dist(b, e) /\ Dist(b, k) <= Dist(b, e) /\ Dist(b, k) + 1 <= Dist(b, e)
          /\ Dist(b, k) < Dist(b, pt) \/ Dist(b, pt) <= Dist(b, k)
      BY <1>1
    <3>2. CASE Dist(b, k) < Dist(b, pt)
      BY <1>2, <1>3, <3>1, <3>2 DEF Shifted
    <3>3. CASE Dist(b, pt) <= Dist(b, k)
      <4>1. c[k] = l[After(k)] /\ After(k) \in Slots /\ Dist(b, After(k)) = Dist(b, k) + 1
        BY <1>3, <3>1, <3>3 DEF Shifted
      <4> QED BY <1>2, <3>1, <4>1
    <3> QED BY <3>1, <3>2, <3>3
  <2> QED BY <2>1, <2>2
<1>7. ASSUME NEW j \in Slots, NEW k \in Slots, c[j] # 0, c[k] # 0, Dist(b, j) < Dist(b, k)
      PROVE  c[j] < c[k]
  <2>1. \E x, y \in Slots : c[j] = l[x] /\ c[k] = l[y] /\ Dist(b, x) < Dist(b, y)
    BY <1>3, <1>7 DEF SameOrder
  <2> QED BY <1>7, <2>1 DEF Ring
<1>8. In(c) = In(l) \ {l[pt]}
  <2>1. ASSUME NEW k \in Slots, k # pt, l[k] # 0 PROVE l[k] # l[pt]
    <3>1. Dist(b, k) < Dist(b, pt) \/ Dist(b, pt) < Dist(b, k)
      BY <1>1, <2>1
    <3>2. l[k] < l[pt] \/ l[pt] < l[k]
      BY <2>1, <3>1 DEF Ring
    <3> QED BY <1>1, <3>2
  <2>2. ASSUME NEW k \in Slots, c[k] # 0 PROVE c[k] \in In(l) \ {l[pt]}
    <3>1. PICK j \in Slots \ {pt} : c[k] = l[j]
      BY <1>3, <2>2 DEF Kept
    <3> QED BY <2>1, <2>2, <3>1 DEF In
  <2>3. ASSUME NEW j \in Slots, l[j] # 0, l[j] # l[pt] PROVE l[j] \in In(c)
    <3>1. \E k \in Slots : c[k] = l[j]
      BY <1>3, <2>3 DEF Kept
    <3> QED BY <2>3, <3>1 DEF In
  <2> QED BY <2>2, <2>3 DEF In
<1> QED BY <1>5, <1>6, <1>7, <1>8 DEF Ring

\* The list with a number put into slot p; its followers, up to the new end f,
\* are moved back.
Inserted(l, f, p, seq) ==
  [k \in Slots |-> IF k = p THEN seq ELSE IF k \in Span(p, f) THEN l[Before(k)] ELSE l[k]]

\* What the insertion leaves in each slot, seen from the begin.
LEMMA InsertedIs ==
  ASSUME NEW l \in [Slots -> Words], NEW b \in Slots, NEW e \in Slots, After(e) # b,
         NEW f, f = After(e), NEW p \in Slots, Dist(b, p) <= Dist(b, f),
         NEW seq \in Words, NEW c, c = Inserted(l, f, p, seq), NEW k \in Slots
  PROVE  /\ f \in Slots /\ Dist(b, f) = Dist(b, e) + 1
         /\ Dist(b, k) < Dist(b, p) => c[k] = l[k]
         /\ Dist(b, k) = Dist(b, p) => c[k] = seq
         /\ Dist(b, p) < Dist(b, k) /\ Dist(b, k) <= Dist(b, f) =>
              /\ c[k] = l[Before(k)]
              /\ Before(k) \in Slots /\ Dist(b, Before(k)) = Dist(b, k) - 1
         /\ Dist(b, k) > Dist(b, f) => c[k] = l[k]
<1>1. f \in Slots /\ Dist(b, f) = Dist(b, e) + 1
  BY Steps, DistAfter
<1>2. /\ Dist(b, k) \in Nat /\ Dist(b, p) \in Nat /\ Dist(b, f) \in Nat
      /\ k = p <=> Dist(b, k) = Dist(b, p)
      /\ Dist(b, k) = 0 <=> k = b
  BY <1>1, Distances, DistanceTells
<1>3. k \in Span(p, f) <=> Dist(b, p) <= Dist(b, k) /\ Dist(b, k) <= Dist(b, f)
  BY <1>1, SpanWithin
<1>4. c[k] = IF k = p THEN seq ELSE IF k \in Span(p, f) THEN l[Before(k)] ELSE l[k]
  BY DEF Inserted
<1>5. Dist(b, k) # 0 => Before(k) \in Slots /\ Dist(b, Before(k)) = Dist(b, k) - 1
  BY <1>2, Steps, DistAfter
<1> QED BY <1>1, <1>2, <1>3, <1>4, <1>5

\* A number goes between the smaller ones and the greater ones of a list that
\* is not empty.
LEMMA RingInserts ==
  ASSUME NEW l \in [Slots -> Words], NEW b \in Slots, NEW e \in Slots, Ring(l, b, e),
         l[b] # 0, After(e) # b, NEW f, f = After(e),
         NEW p \in Slots, 0 < Dist(b, p), Dist(b, p) <= Dist(b, f),
         NEW seq \in Words, seq # 0,
         \A k \in Slots : Dist(b, k) < Dist(b, p) => l[k] < seq,
         \A k \in Slots : Dist(b, p) <= Dist(b, k) /\ Dist(b, k) <= Dist(b, e) => seq < l[k],
         NEW c, c = Inserted(l, f, p, seq)
  PROVE  Ring(c, b, f) /\ In(c) = In(l) \cup {seq} /\ c[b] # 0
<1>1. /\ \A k \in Slots : Dist(b, k) \in Nat /\ (Dist(b, k) = 0 <=> b = k)
      /\ \A k \in Slots : Dist(b, k) = Dist(b, p) => k = p
      /\ \A k \in Slots : l[k] \in Nat
      /\ seq \in Nat
  <2>1. \A k \in Slots : l[k] \in Nat
    BY Sizes DEF Words
  <2>2. seq \in Nat
    BY Sizes DEF Words
  <2> QED BY <2>1, <2>2, Distances, DistanceTells
<1>2. \A k \in Slots : l[k] # 0 <=> Dist(b, k) <= Dist(b, e)
  BY RingIs
<1>3. f \in Slots /\ Dist(b, f) = Dist(b, e) + 1
  BY InsertedIs
<1>4. \A k \in Slots :
        /\ Dist(b, k) < Dist(b, p) => c[k] = l[k]
        /\ Dist(b, k) = Dist(b, p) => c[k] = seq
        /\ Dist(b, p) < Dist(b, k) /\ Dist(b, k) <= Dist(b, f) =>
             /\ c[k] = l[Before(k)]
             /\ Before(k) \in Slots /\ Dist(b, Before(k)) = Dist(b, k) - 1
        /\ Dist(b, k) > Dist(b, f) => c[k] = l[k]
  BY InsertedIs
<1>5. \A k \in Slots : c[k] # 0 <=> Dist(b, k) <= Dist(b, f)
  <2> SUFFICES ASSUME NEW k \in Slots PROVE c[k] # 0 <=> Dist(b, k) <= Dist(b, f)
    OBVIOUS
  <2>1. CASE Dist(b, k) < Dist(b, p)
    <3>1. Dist(b, k) <= Dist(b, e) /\ Dist(b, k) <= Dist(b, f)
      BY <1>1, <1>3, <2>1
    <3> QED BY <1>2, <1>4, <2>1, <3>1
  <2>2. CASE Dist(b, k) = Dist(b, p)
    BY <1>4, <2>2
  <2>3. CASE Dist(b, p) < Dist(b, k) /\ Dist(b, k) <= Dist(b, f)
    <3>1. Before(k) \in Slots /\ Dist(b, Before(k)) <= Dist(b, e) /\ c[k] = l[Before(k)]
      BY <1>1, <1>3, <1>4, <2>3
    <3> QED BY <1>2, <2>3, <3>1
  <2>4. CASE Dist(b, k) > Dist(b, f)
    <3>1. ~(Dist(b, k) <= Dist(b, e)) /\ ~(Dist(b, k) <= Dist(b, f))
      BY <1>1, <1>3, <2>4
    <3> QED BY <1>2, <1>4, <2>4, <3>1
  <2> QED BY <1>1, <1>3, <2>1, <2>2, <2>3, <2>4
<1>6. ASSUME NEW j \in Slots, NEW k \in Slots, c[j] # 0, c[k] # 0, Dist(b, j) < Dist(b, k)
      PROVE  c[j] < c[k]
  <2>1. Dist(b, j) <= Dist(b, f) /\ Dist(b, k) <= Dist(b, f)
    BY <1>5, <1>6
  <2>2. CASE Dist(b, k) < Dist(b, p)
    <3>1. Dist(b, j) < Dist(b, p)
      BY <1>1, <1>6, <2>2
    <3>2. c[j] = l[j] /\ c[k] = l[k]
      BY <1>4, <2>2, <3>1
    <3> QED BY <1>6, <3>2 DEF Ring
  <2>3. CASE Dist(b, k) = Dist(b, p)
    <3>1. Dist(b, j) < Dist(b, p)
      BY <1>6, <2>3
    <3> QED BY <1>4, <2>3, <3>1
  <2>4. CASE Dist(b, p) < Dist(b, k)
    <3> DEFINE x == Before(k)
    <3>1. c[k] = l[x] /\ x \in Slots /\ Dist(b, x) = Dist(b, k) - 1
      BY <1>4, <2>1, <2>4
    <3> HIDE DEF x
    <3>2. Dist(b, p) <= Dist(b, x) /\ Dist(b, x) <= Dist(b, e)
      BY <1>1, <1>3, <2>1, <2>4, <3>1
    <3>3. CASE Dist(b, j) < Dist(b, p)
      <4>1. c[j] = l[j]
        BY <1>4, <3>3
      <4>2. Dist(b, j) < Dist(b, x)
        BY <1>1, <3>1, <3>2, <3>3
      <4> QED BY <1>6, <3>1, <4>1, <4>2 DEF Ring
    <3>4. CASE Dist(b, j) = Dist(b, p)
      BY <1>4, <3>1, <3>2, <3>4
    <3>5. CASE Dist(b, p) < Dist(b, j)
      <4>1. c[j] = l[Before(j)] /\ Before(j) \in Slots /\ Dist(b, Before(j)) = Dist(b, j) - 1
        BY <1>4, <2>1, <3>5
      <4>2. Dist(b, Before(j)) < Dist(b, x)
        BY <1>1, <1>6, <3>1, <4>1
      <4> QED BY <1>6, <3>1, <4>1, <4>2 DEF Ring
    <3> QED BY <1>1, <3>3, <3>4, <3>5
  <2> QED BY <1>1, <2>2, <2>3, <2>4
<1>7. In(c) = In(l) \cup {seq}
  <2>1. ASSUME NEW k \in Slots, c[k] # 0 PROVE c[k] \in In(l) \cup {seq}
    <3>1. Dist(b, k) <= Dist(b, f)
      BY <1>5, <2>1
    <3>2. c[k] = seq \/ \E j \in Slots : c[k] = l[j]
      BY <1>1, <1>4, <3>1
    <3> QED BY <2>1, <3>2 DEF In
  <2>2. ASSUME NEW j \in Slots, l[j] # 0 PROVE l[j] \in In(c)
    <3>1. Dist(b, j) <= Dist(b, e)
      BY <1>2, <2>2
    <3>2. CASE Dist(b, j) < Dist(b, p)
      BY <1>4, <2>2, <3>2 DEF In
    <3>3. CASE Dist(b, p) <= Dist(b, j)
      <4>1. After(j) \in Slots /\ Before(After(j)) = j
        BY Steps
      <4>2. Dist(b, After(j)) = Dist(b, j) + 1
        <5>1. Dist(b, j) < Dist(b, f)
          BY <1>1, <1>3, <3>1
        <5> QED BY <1>3, <5>1, DistAfter
      <4>3. c[After(j)] = l[j]
        <5>1. Dist(b, p) < Dist(b, After(j)) /\ Dist(b, After(j)) <= Dist(b, f)
          BY <1>1, <1>3, <3>1, <3>3, <4>2
        <5> QED BY <1>4, <4>1, <5>1
      <4> QED BY <2>2, <4>1, <4>3 DEF In
    <3> QED BY <1>1, <3>2, <3>3
  <2>3. seq \in In(c)
    BY <1>4 DEF In
  <2> QED BY <2>1, <2>2, <2>3 DEF In
<1>8. c[b] # 0
  <2>1. Dist(b, b) <= Dist(b, f)
    BY <1>1, <1>3
  <2> QED BY <1>5, <2>1
<1> QED BY <1>5, <1>6, <1>7, <1>8 DEF Ring

\* AddIntoMultiQue puts a number into its place, or refuses it.
LEMMA Adds ==
  ASSUME TypeOK, Ring(list, beginPt, endPt), NEW seq \in Words, seq # 0,
         AddIntoMultiQue(seq)
  PROVE  Ring(list', beginPt', endPt') /\ In(list') = In(list) \cup {seq}
<1> DEFINE found == FindMultSequence(seq)
           p == IF found.reson = "new" THEN After(endPt) ELSE found.pt
           f == After(endPt)
           used == {k \in Slots : list'[k] # 0}
<1>1. /\ list \in [Slots -> Words] /\ list \in [Slots -> Nat]
      /\ beginPt \in Slots /\ endPt \in Slots
      /\ seq \in Nat /\ Used \subseteq Slots
      /\ \A k \in Slots : k \in Used <=> list[k] # 0
  BY Sizes DEF TypeOK, Used, Words
<1>2. /\ f # beginPt /\ found.reson \in {"new", "near"} /\ endPt' = f
      /\ list' = Inserted(list, f, p, seq)
      /\ beginPt' = HeadOf(used, beginPt, f)
  BY DEF AddIntoMultiQue, Inserted
<1>3. /\ f \in Slots /\ Dist(beginPt, f) = Dist(beginPt, endPt) + 1
      /\ \A k \in Slots : Dist(beginPt, k) \in Nat /\ (Dist(beginPt, k) = 0 <=> beginPt = k)
  BY <1>1, <1>2, Steps, DistAfter, Distances
<1>4. /\ beginPt' \in Slots /\ (beginPt' \in used \/ beginPt' = f)
      /\ \A k \in used : Dist(beginPt, k) <= Dist(beginPt, f) =>
           Dist(beginPt, beginPt') <= Dist(beginPt, k)
  <2>1. used \subseteq Slots
    OBVIOUS
  <2> HIDE DEF used
  <2> QED BY <1>1, <1>2, <1>3, <2>1, HeadOfIs
<1>5. CASE beginPt = endPt /\ list[beginPt] = 0 /\ \A k \in Slots : list[k] = 0
  <2>1. found.reson = "new" /\ p = f
    BY <1>5 DEF FindMultSequence, Search
  <2>2. \A k \in Slots : list'[k] = IF k = f THEN seq ELSE 0
    <3>1. \A k \in Slots : k \in Span(f, f) <=> k = f
      BY <1>3, SpanIs, Distances
    <3>2. \A k \in Slots : list[Before(k)] = 0
      BY <1>5, Steps
    <3> QED BY <1>2, <1>5, <2>1, <3>1, <3>2 DEF Inserted
  <2> HIDE DEF f
  <2>3. beginPt' = f
    BY <1>4, <2>2
  <2>4. Ring(list', f, f)
    <3>1. \A k \in Slots : Dist(f, k) \in Nat /\ (Dist(f, k) = 0 <=> f = k)
      BY <1>3, Distances
    <3>2. Dist(f, f) = 0 /\ \A k \in Slots : Dist(f, k) <= 0 <=> k = f
      BY <1>3, <3>1
    <3>3. \A k \in Slots : list'[k] # 0 <=> k = f
      BY <2>2
    <3> QED BY <3>1, <3>2, <3>3 DEF Ring
  <2>5. In(list') = In(list) \cup {seq}
    BY <1>3, <1>5, <2>2 DEF In
  <2> QED BY <1>2, <2>3, <2>4, <2>5
<1>6. CASE /\ list[beginPt] # 0 /\ list[endPt] # 0 /\ list[beginPt] <= list[endPt]
           /\ \A k \in Slots : list[k] # 0 <=> Dist(beginPt, k) <= Dist(beginPt, endPt)
           /\ \A k \in Slots : list[k] <= list[endPt]
  <2>1. \/ found = [reson |-> "old", pt |-> SLOTS]
        \/ found = [reson |-> "new", pt |-> SLOTS] /\ seq > list[endPt]
        \/ /\ found.reson = "ok" /\ found.pt \in Slots
           /\ Dist(beginPt, found.pt) <= Dist(beginPt, endPt) /\ list[found.pt] = seq
        \/ /\ found.reson = "near" /\ found.pt \in Used
           /\ Dist(beginPt, found.pt) <= Dist(beginPt, endPt)
           /\ list[beginPt] < seq /\ list[found.pt] > seq
           /\ \A k \in Used : Dist(beginPt, k) < Dist(beginPt, found.pt) => list[k] < seq
    BY <1>1, <1>6, SearchUnwrapped DEF FindMultSequence
  <2> HIDE DEF found
  <2>2. /\ p \in Slots /\ 0 < Dist(beginPt, p) /\ Dist(beginPt, p) <= Dist(beginPt, f)
        /\ \A k \in Slots : Dist(beginPt, k) < Dist(beginPt, p) => list[k] < seq
        /\ \A k \in Slots : Dist(beginPt, p) <= Dist(beginPt, k)
                            /\ Dist(beginPt, k) <= Dist(beginPt, endPt) => seq < list[k]
    <3>1. CASE found.reson = "new" /\ seq > list[endPt]
      <4>1. p = f /\ \A k \in Slots : list[k] < seq
        BY <1>1, <1>6, <3>1
      <4>2. \A k \in Slots : ~(Dist(beginPt, f) <= Dist(beginPt, k)
                               /\ Dist(beginPt, k) <= Dist(beginPt, endPt))
        BY <1>1, <1>3
      <4>3. 0 < Dist(beginPt, f)
        BY <1>1, <1>3
      <4> HIDE DEF p, f
      <4> QED BY <1>3, <4>1, <4>2, <4>3
    <3>2. CASE /\ found.reson = "near" /\ found.pt \in Used
               /\ Dist(beginPt, found.pt) <= Dist(beginPt, endPt)
               /\ list[beginPt] < seq /\ list[found.pt] > seq
               /\ \A k \in Used : Dist(beginPt, k) < Dist(beginPt, found.pt) => list[k] < seq
      <4>1. p = found.pt /\ p \in Slots /\ list[p] > seq
        BY <1>1, <3>2
      <4> HIDE DEF p, f
      <4>2. 0 < Dist(beginPt, p)
        <5>1. p # beginPt
          BY <1>1, <3>2, <4>1
        <5> QED BY <1>3, <4>1, <5>1
      <4>3. Dist(beginPt, p) <= Dist(beginPt, f)
        BY <1>1, <1>3, <3>2, <4>1
      <4>4. ASSUME NEW k \in Slots, Dist(beginPt, k) < Dist(beginPt, p) PROVE list[k] < seq
        <5>1. Dist(beginPt, k) <= Dist(beginPt, endPt)
          BY <1>1, <1>3, <3>2, <4>1, <4>4
        <5> QED BY <1>1, <1>6, <3>2, <4>1, <4>4, <5>1
      <4>5. ASSUME NEW k \in Slots, Dist(beginPt, p) <= Dist(beginPt, k),
                   Dist(beginPt, k) <= Dist(beginPt, endPt)
            PROVE  seq < list[k]
        <5>1. CASE k = p
          BY <4>1, <5>1
        <5>2. CASE k # p
          <6>1. Dist(beginPt, p) < Dist(beginPt, k)
            BY <1>1, <1>3, <4>1, <4>5, <5>2, DistanceTells
          <6>2. list[k] # 0 /\ list[p] # 0
            BY <1>1, <1>6, <3>2, <4>1, <4>5
          <6>3. list[p] < list[k]
            BY <4>1, <6>1, <6>2 DEF Ring
          <6> QED BY <1>1, <4>1, <6>3
        <5> QED BY <5>1, <5>2
      <4> QED BY <4>1, <4>2, <4>3, <4>4, <4>5
    <3> QED BY <1>2, <2>1, <3>1, <3>2
  <2> HIDE DEF p
  <2>3. /\ Ring(list', beginPt, f) /\ In(list') = In(list) \cup {seq} /\ list'[beginPt] # 0
    BY <1>1, <1>2, <1>6, <2>2, RingInserts
  <2>4. beginPt' = beginPt
    <3>1. beginPt \in used /\ Dist(beginPt, beginPt) <= Dist(beginPt, f)
      BY <1>1, <1>3, <2>3
    <3>2. Dist(beginPt, beginPt') <= 0 /\ Dist(beginPt, beginPt') \in Nat
      BY <1>1, <1>3, <1>4, <3>1
    <3> QED BY <1>3, <1>4, <3>2
  <2> QED BY <1>2, <2>3, <2>4
<1> QED BY <1>1, <1>5, <1>6, RingIs

-----------------------------------------------------------------------------
(***************************************************************************)
(* What the steps do to the sets the invariant is about.                   *)
(***************************************************************************)

\* Numbers do not wrap, so what was sent is what lies between the begin and the
\* last number.
LEMMA SentIs ==
  ASSUME IInv, NoWrap
  PROVE  /\ Sent = Given /\ Open = In(list)
         /\ Arrived \subseteq 1 .. seqNo /\ held \subseteq 1 .. seqNo
         /\ held \subseteq Nat /\ Arrived \subseteq Nat
         /\ seqNo \in Nat /\ seqNo + 1 + WND_BITS <= MAX_SEQ
         /\ \A n \in Given : n \in Words /\ n \in Nat /\ 0 < n /\ SEQ_BEGIN < n /\ n <= seqNo
<1>1. /\ SEQ_BEGIN \in Nat /\ LastSeq \in Nat /\ MAX_SEQ \in Nat /\ WND_BITS \in Nat
      /\ LastSeq + 1 + WND_BITS <= MAX_SEQ
      /\ seqNo \in Nat /\ SEQ_BEGIN <= seqNo /\ seqNo <= LastSeq
      /\ held \subseteq Given /\ handed \subseteq Given /\ Open \subseteq Given
  <2>1. SEQ_BEGIN \in Nat /\ LastSeq \in Nat /\ LastSeq + 1 + WND_BITS <= MAX_SEQ
    BY Numbers
  <2> QED BY <2>1, Sizes DEF IInv, Counted
<1>2. \A n \in Given : n \in Words /\ n \in Nat /\ 0 < n /\ SEQ_BEGIN < n /\ n <= seqNo
  BY <1>1 DEF Given, Words
<1>3. Sent = Given
  <2>1. Position(seqNo) = seqNo - SEQ_BEGIN
    BY <1>1, Numbers
  <2>2. ASSUME NEW n \in Seqs PROVE n \in Sent <=> n \in Given
    <3>1. n \in Nat /\ n <= MAX_SEQ
      BY <1>1 DEF Seqs, Words
    <3>2. CASE SEQ_BEGIN <= n
      <4>1. Position(n) = n - SEQ_BEGIN
        BY <3>1, <3>2, Numbers
      <4> QED BY <1>1, <2>1, <3>1, <3>2, <4>1 DEF Sent, Given
    <3>3. CASE n < SEQ_BEGIN
      <4>1. Position(n) = n - SEQ_BEGIN + MAX_SEQ
        BY <3>1, <3>3, Numbers
      <4> QED BY <1>1, <2>1, <3>1, <3>3, <4>1 DEF Sent, Given
    <3> QED BY <1>1, <3>1, <3>2, <3>3
  <2>3. Given \subseteq Seqs /\ Sent \subseteq Seqs
    BY <1>2 DEF Seqs, Sent
  <2> QED BY <2>2, <2>3
<1>4. Open = In(list)
  BY DEF Open, Used, In
<1>5. Given \subseteq 1 .. seqNo
  BY <1>1, <1>2
<1>6. Arrived \subseteq Given
  BY <1>1 DEF Arrived
<1> QED BY <1>1, <1>2, <1>3, <1>4, <1>5, <1>6

LEMMA SameLists ==
  ASSUME UNCHANGED <<list, handed>>
  PROVE  Used' = Used /\ Open' = Open /\ Arrived' = Arrived
BY DEF Used, Open, Arrived

\* A window that is known is one of these two.
LEMMA Knowing ==
  ASSUME IInv, NoWrap, ~edge
  PROVE  /\ wnd \in Windows /\ first \in Nat
         /\ again = {} /\ Open \cap handed = {} /\ LeftFar
         /\ \/ first = 0 /\ wnd = EmptyWindow /\ Arrived = {}
            \/ /\ first # 0 /\ SEQ_BEGIN < first /\ InLine(wnd)
               /\ Tells(wnd, Arrived, Tended, seqNo, first)
BY Sizes DEF IInv, WindowKnows, TypeOK, Words, Tells

\* A number that is let pass and noted has not arrived before, and the window
\* tells of it from then on.
LEMMA NotedKnows ==
  ASSUME IInv, NoWrap, NEW seq \in Given, Fresh(seq),
         Noted(seq, wnd_compare(wnd, seq)), ~edge'
  PROVE  /\ ~edge /\ seq \notin Arrived /\ first' # 0 /\ SEQ_BEGIN < first'
         /\ Tells(wnd', Arrived \cup {seq}, Tended, seqNo, first')
<1> DEFINE cmp == wnd_compare(wnd, seq)
           saved == wnd_save(wnd, seq, cmp)
<1>1. /\ wnd' = TryMoveTotalWnd(saved, seq)
      /\ first' = IF wnd.begin = 0 /\ first = 0 THEN seq ELSE first
      /\ ~edge /\ ~(idx_to_pt(saved, seq) >= WND_BITS - BYTE_BITS)
  BY DEF Noted
<1>2. /\ seq \in Words /\ seq \in Nat /\ 0 < seq /\ SEQ_BEGIN < seq /\ seq <= seqNo
      /\ seqNo \in Nat /\ seqNo + 1 + WND_BITS <= MAX_SEQ
      /\ Arrived \subseteq 1 .. seqNo /\ Tended \subseteq Nat /\ Arrived \subseteq Nat
  BY SentIs DEF Tended
<1>3. CASE first = 0 /\ wnd = EmptyWindow /\ Arrived = {}
  <2>1. wnd.begin = 0 /\ cmp = "in_wnd"
    BY <1>3 DEF EmptyWindow, wnd_compare
  <2>2. saved.begin = seq /\ Tells(saved, {seq}, Tended, seqNo, seq)
    BY <1>2, <1>3, <2>1, FirstTells
  <2> HIDE DEF saved
  <2>3. wnd' = saved
    BY <1>1, <2>2 DEF TryMoveTotalWnd
  <2> QED BY <1>1, <1>2, <1>3, <2>1, <2>2, <2>3
<1>4. CASE first # 0 /\ SEQ_BEGIN < first /\ InLine(wnd)
           /\ Tells(wnd, Arrived, Tended, seqNo, first)
  <2>1. wnd \in Windows /\ first \in Nat
    BY <1>1, Knowing
  <2>2. ~Takes(wnd, seq)
    <3>1. PICK stray \in BOOLEAN : ~IsAcked(wnd, seq, cmp, stray)
      BY DEF Fresh
    <3> QED BY <1>2, <1>4, <2>1, <3>1, AckedIs
  <2>3. seq \notin Arrived
    BY <1>4, <2>2 DEF Tells
  <2>4. wnd.begin <= seq
    BY <1>2, <1>4, <2>1, <2>2, LineFacts DEF Takes
  <2>5. saved \in Windows
    BY <1>2, <2>1, SavedTyped
  <2>6. idx_to_pt(saved, seq) < WND_BITS - BYTE_BITS
    <3> HIDE DEF saved
    <3>1. idx_to_pt(saved, seq) \in Words
      BY <1>2, <2>5, PointIs
    <3>2. idx_to_pt(saved, seq) \in Int
      BY <3>1, Sizes DEF Words
    <3> QED BY <1>1, <3>2, Sizes
  <2>7. Tells(saved, Arrived \cup {seq}, Tended, seqNo, first)
    BY <1>2, <1>4, <2>1, <2>4, <2>6, SaveTells
  <2> HIDE DEF saved
  <2>8. Tells(wnd', Arrived \cup {seq}, Tended, seqNo, first)
    <3>1. CASE wnd' = saved
      BY <2>7, <3>1
    <3>2. CASE wnd' = wnd_move(saved, wnd_can_move_nums(saved))
      <4>1. Arrived \cup {seq} \subseteq 1 .. seqNo
        BY <1>2
      <4>2. /\ wnd_can_move_nums(saved) \in Nat
            /\ wnd_can_move_nums(saved) <= wnd_can_move_nums(saved)
        BY RunTyped
      <4> QED BY <1>2, <2>1, <2>5, <2>7, <3>2, <4>1, <4>2, MoveRunTells
    <3> QED BY <1>1, <3>1, <3>2 DEF TryMoveTotalWnd
  <2> QED BY <1>1, <1>4, <2>3, <2>8
<1> QED BY <1>1, <1>3, <1>4, Knowing

-----------------------------------------------------------------------------
(***************************************************************************)
(* Every step keeps the invariant.                                         *)
(***************************************************************************)

\* What is left of the invariant when neither list nor window nor sender change.
LEMMA QuietKeeps ==
  ASSUME IInv, TypeOK', UNCHANGED <<wnd, ring, sender, first, application, left, edge>>
  PROVE  IInv'
<1>1. /\ wnd' = wnd /\ list' = list /\ beginPt' = beginPt /\ endPt' = endPt
      /\ seqNo' = seqNo /\ held' = held /\ first' = first /\ handed' = handed
      /\ again' = again /\ left' = left /\ edge' = edge
  BY DEF ring, sender, application
<1>2. Open' = Open /\ Arrived' = Arrived
  BY <1>1, SameLists
<1> QED BY <1>1, <1>2 DEF IInv, Counted, WindowKnows, LeftFar, Tended, Given

LEMMA SendsKeeps ==
  ASSUME IInv, NoWrap, TypeOK', SenderSends
  PROVE  IInv'
<1>1. /\ seqNo \in Nat /\ SEQ_BEGIN <= seqNo /\ seqNo < LastSeq
      /\ SEQ_BEGIN \in Nat /\ LastSeq \in Nat
  BY Numbers, Sizes DEF IInv, Counted, SenderSends
<1>2. seqNo' = seqNo + 1 /\ held' = held \cup {seqNo + 1}
  <2>1. NextSeq(seqNo) = seqNo + 1
    BY <1>1, Numbers
  <2> QED BY <2>1 DEF SenderSends
<1>3. /\ wnd' = wnd /\ list' = list /\ beginPt' = beginPt /\ endPt' = endPt
      /\ first' = first /\ handed' = handed /\ again' = again /\ left' = left
      /\ edge' = edge
  BY DEF SenderSends, window, ring, application
<1>4. Open' = Open /\ Arrived' = Arrived
  BY <1>3, SameLists
<1>5. Counted'
  <2>1. Given \subseteq Given' /\ seqNo + 1 \in Given'
    BY <1>1, <1>2 DEF Given
  <2>2. held \subseteq Given /\ handed \subseteq Given /\ Open \subseteq Given
    BY DEF IInv, Counted
  <2>3. seqNo' \in SEQ_BEGIN .. LastSeq
    BY <1>1, <1>2
  <2> QED BY <1>2, <1>3, <1>4, <2>1, <2>2, <2>3 DEF Counted
<1>6. ASSUME ~edge PROVE WindowKnows'
  <2>1. LeftFar'
    <3>1. LeftFar
      BY <1>6, Knowing
    <3>2. \A n \in Given : n \in Given' /\ n \in Nat /\ (seqNo + 1) - n >= seqNo - n
      BY <1>1, <1>2 DEF Given
    <3> QED BY <1>1, <1>2, <1>3, <3>1, <3>2, Sizes DEF LeftFar
  <2>2. ASSUME first # 0 PROVE Tells(wnd', Arrived', Tended', seqNo', first')
    <3>1. Tells(wnd, Arrived, Tended, seqNo, first) /\ wnd \in Windows
      BY <1>6, <2>2, Knowing
    <3>2. wnd.begin \in Nat /\ wnd.end \in Nat
      BY <3>1, LineFacts DEF Tells
    <3>3. /\ wnd.begin <= (seqNo + 1) + 1
          /\ (wnd.end <= seqNo + 1 \/ wnd.end = wnd.begin)
          /\ ~(seqNo + 1 < wnd.begin)
      BY <1>1, <3>1, <3>2 DEF Tells
    <3>4. Tended' \subseteq Tended \cup {seqNo + 1}
      BY <1>2, <1>3 DEF Tended
    <3> QED BY <1>2, <1>3, <1>4, <3>1, <3>3, <3>4 DEF Tells
  <2> QED BY <1>3, <1>4, <1>6, <2>1, <2>2 DEF IInv, WindowKnows
<1> QED BY <1>3, <1>5, <1>6 DEF IInv

LEMMA FinishesKeeps ==
  ASSUME IInv, TypeOK', NEW n, SenderFinishes(n)
  PROVE  IInv'
<1>1. /\ wnd' = wnd /\ list' = list /\ beginPt' = beginPt /\ endPt' = endPt
      /\ first' = first /\ handed' = handed /\ again' = again /\ edge' = edge
      /\ seqNo' = seqNo /\ left' = left /\ held' \subseteq held
  BY DEF SenderFinishes, window, ring, application
<1>2. Open' = Open /\ Arrived' = Arrived
  BY <1>1, SameLists
<1>3. Counted'
  BY <1>1, <1>2 DEF IInv, Counted, Given
<1>4. LeftFar => LeftFar'
  BY <1>1 DEF LeftFar, Given
<1>5. Tells(wnd, Arrived, Tended, seqNo, first) => Tells(wnd, Arrived, Tended', seqNo, first)
  BY <1>1 DEF Tells, Tended
<1> QED BY <1>1, <1>2, <1>3, <1>4, <1>5 DEF IInv, WindowKnows

\* A window in which a number was noted, when the message is handed up or is put
\* into the list.
LEMMA TakenKeeps ==
  ASSUME IInv, NoWrap, TypeOK', NEW seq \in Given, Fresh(seq),
         Noted(seq, wnd_compare(wnd, seq)), UNCHANGED <<sender, left>>,
         Ring(list', beginPt', endPt'), Arrived' = Arrived \cup {seq},
         Open' \subseteq Given, handed' \subseteq Given,
         seq \notin Arrived => (again = {} => again' = {})
                               /\ (Open \cap handed = {} => Open' \cap handed' = {})
  PROVE  IInv'
<1>1. seqNo' = seqNo /\ held' = held /\ left' = left /\ Given' = Given /\ Tended' = Tended
  BY DEF sender, Given, Tended
<1>2. Counted'
  BY <1>1 DEF IInv, Counted
<1>3. ASSUME ~edge' PROVE WindowKnows'
  <2>1. /\ ~edge /\ seq \notin Arrived /\ first' # 0 /\ SEQ_BEGIN < first'
        /\ Tells(wnd', Arrived \cup {seq}, Tended, seqNo, first')
    BY <1>3, NotedKnows
  <2>2. again = {} /\ Open \cap handed = {} /\ LeftFar
    BY <2>1, Knowing
  <2>3. LeftFar'
    BY <1>1, <2>2 DEF LeftFar
  <2> QED BY <1>1, <2>1, <2>2, <2>3 DEF WindowKnows
<1> QED BY <1>2, <1>3 DEF IInv

LEMMA OnceKeeps ==
  ASSUME IInv, NoWrap, TypeOK', NEW seq \in Given, RecvOnce(seq)
  PROVE  IInv'
<1>1. /\ Fresh(seq) /\ Noted(seq, wnd_compare(wnd, seq)) /\ UNCHANGED <<sender, left>>
      /\ list' = list /\ beginPt' = beginPt /\ endPt' = endPt
      /\ handed' = handed \cup {seq} /\ again' = again \cup (handed \cap {seq})
  BY DEF RecvOnce, HandUp, ring
<1>2. Open' = Open
  BY <1>1 DEF Open, Used
<1>3. Arrived' = Arrived \cup {seq}
  BY <1>1, <1>2 DEF Arrived
<1>4. Open' \subseteq Given /\ handed' \subseteq Given
  BY <1>1, <1>2 DEF IInv, Counted
<1>5. seq \notin Arrived => seq \notin handed /\ seq \notin Open
  BY DEF Arrived
<1>6. Ring(list', beginPt', endPt')
  BY <1>1 DEF IInv
<1>7. seq \notin Arrived => (again = {} => again' = {})
                            /\ (Open \cap handed = {} => Open' \cap handed' = {})
  BY <1>1, <1>2, <1>5
<1> QED BY <1>1, <1>3, <1>4, <1>6, <1>7, TakenKeeps

LEMMA FirstKeeps ==
  ASSUME IInv, NoWrap, TypeOK', NEW seq \in Given, RecvFirst(seq)
  PROVE  IInv'
<1>1. /\ Fresh(seq) /\ Noted(seq, wnd_compare(wnd, seq)) /\ UNCHANGED <<sender, left>>
      /\ AddIntoMultiQue(seq) /\ handed' = handed /\ again' = again
  BY DEF RecvFirst, application
<1>2. Ring(list', beginPt', endPt') /\ In(list') = In(list) \cup {seq}
  <2>1. seq \in Words /\ seq # 0
    BY SentIs
  <2> QED BY <1>1, <2>1, Adds DEF IInv
<1>3. Open' = Open \cup {seq}
  <2>1. Open' = In(list') /\ Open = In(list)
    BY DEF Open, Used, In
  <2> QED BY <1>2, <2>1
<1>4. Arrived' = Arrived \cup {seq}
  BY <1>1, <1>3 DEF Arrived
<1>5. Open' \subseteq Given /\ handed' \subseteq Given
  BY <1>1, <1>3 DEF IInv, Counted
<1>6. seq \notin Arrived => (again = {} => again' = {})
                            /\ (Open \cap handed = {} => Open' \cap handed' = {})
  BY <1>1, <1>3 DEF Arrived
<1> QED BY <1>1, <1>2, <1>4, <1>5, <1>6, TakenKeeps

\* The message the search finds is the one that is looked for, and is taken out
\* of the list when it is handed up.
LEMMA NextKeeps ==
  ASSUME IInv, NoWrap, TypeOK', NEW seq \in Given, RecvNext(seq)
  PROVE  IInv'
<1> DEFINE found == FindMultSequence(seq)
           pt == found.pt
<1>1. /\ found.reson = "ok" /\ FinishNode(pt)
      /\ handed' = handed \cup {seq} /\ again' = again \cup (handed \cap {seq})
      /\ wnd' = wnd /\ seqNo' = seqNo /\ held' = held /\ first' = first
      /\ left' = left /\ edge' = edge
  BY DEF RecvNext, HandUp, window, sender
<1>2. /\ TypeOK /\ list \in [Slots -> Words] /\ list \in [Slots -> Nat]
      /\ beginPt \in Slots /\ endPt \in Slots /\ Used \subseteq Slots
      /\ Ring(list, beginPt, endPt) /\ seq \in Nat /\ seq # 0
  <2>1. seq \in Nat /\ seq # 0
    BY SentIs
  <2> QED BY <2>1, Sizes DEF IInv, TypeOK, Used, Words
<1>3. pt \in Slots /\ list[pt] = seq
  <2>1. list[beginPt] # 0 /\ list[beginPt] <= list[endPt]
    <3>1. list[beginPt] # 0
      BY <1>1 DEF FindMultSequence, Search
    <3> QED BY <1>2, <3>1, RingIs
  <2>2. \/ found = [reson |-> "old", pt |-> SLOTS]
        \/ found = [reson |-> "new", pt |-> SLOTS] /\ seq > list[endPt]
        \/ /\ found.reson = "ok" /\ found.pt \in Slots
           /\ Dist(beginPt, found.pt) <= Dist(beginPt, endPt) /\ list[found.pt] = seq
        \/ /\ found.reson = "near" /\ found.pt \in Used
           /\ Dist(beginPt, found.pt) <= Dist(beginPt, endPt)
           /\ list[beginPt] < seq /\ list[found.pt] > seq
           /\ \A k \in Used : Dist(beginPt, k) < Dist(beginPt, found.pt) => list[k] < seq
    <3>1. found = Search(list, Used, beginPt, endPt, seq)
      BY DEF FindMultSequence
    <3>2. /\ list \in [Slots -> Nat] /\ Used \subseteq Slots /\ seq \in Nat
          /\ beginPt \in Slots /\ endPt \in Slots
      BY <1>2
    <3> HIDE DEF found
    <3> QED BY <2>1, <3>1, <3>2, SearchUnwrapped
  <2> HIDE DEF found
  <2> QED BY <1>1, <2>2
<1> HIDE DEF found
<1>4. Ring(list', beginPt', endPt') /\ In(list') = In(list) \ {seq}
  <2>1. /\ list' = Closed(list, endPt, pt, 0) /\ beginPt' = beginPt
        /\ endPt' = IF endPt # beginPt THEN Before(endPt) ELSE endPt
    BY <1>1 DEF FinishNode
  <2> QED BY <1>2, <1>3, <2>1, RingCloses
<1>5. Open' = Open \ {seq} /\ seq \in Open
  <2>1. Open' = In(list') /\ Open = In(list)
    BY DEF Open, Used, In
  <2>2. seq \in In(list)
    BY <1>2, <1>3 DEF In
  <2> QED BY <1>4, <2>1, <2>2
<1>6. Arrived' = Arrived
  BY <1>1, <1>5 DEF Arrived
<1>7. Counted'
  BY <1>1, <1>5 DEF IInv, Counted, Given
<1>8. ASSUME WindowKnows PROVE WindowKnows'
  <2>1. again' = {} /\ Open' \cap handed' = {}
    BY <1>1, <1>5, <1>8 DEF WindowKnows
  <2> QED BY <1>1, <1>6, <1>8, <2>1 DEF WindowKnows, LeftFar, Tended, Given
<1> QED BY <1>1, <1>4, <1>7, <1>8 DEF IInv

\* The sender's announcement moves the window only over what it no longer holds.
LEMMA SureKeeps ==
  ASSUME IInv, NoWrap, TypeOK', NEW n \in RangeBegins, SureSenderSeqWnd(n)
  PROVE  IInv'
<1>1. /\ wnd' = wnd_move(wnd, idx_to_pt(wnd, n)) /\ wnd_compare(wnd, n) # "old"
      /\ list' = list /\ beginPt' = beginPt /\ endPt' = endPt
      /\ seqNo' = seqNo /\ held' = held /\ first' = first
      /\ handed' = handed /\ again' = again /\ left' = left /\ edge' = edge
  BY DEF SureSenderSeqWnd, ring, sender, application
<1>2. Open' = Open /\ Arrived' = Arrived
  BY <1>1, SameLists
<1>3. Counted'
  BY <1>1, <1>2 DEF IInv, Counted, Given
<1>4. ASSUME ~edge PROVE WindowKnows'
  <2>1. CASE first = 0 /\ wnd = EmptyWindow /\ Arrived = {}
    <3>1. wnd' = EmptyWindow
      <4>1. idx_to_pt(wnd, n) = 0
        BY <2>1 DEF idx_to_pt, EmptyWindow
      <4> QED BY <1>1, <2>1, <4>1, EmptyStays
    <3> QED BY <1>1, <1>2, <1>4, <2>1, <3>1, Knowing DEF WindowKnows, LeftFar, Given
  <2>2. CASE first # 0 /\ SEQ_BEGIN < first /\ InLine(wnd)
             /\ Tells(wnd, Arrived, Tended, seqNo, first)
    <3>1. /\ wnd \in Windows /\ wnd.begin \in Nat /\ wnd.begin # 0 /\ first \in Nat
          /\ seqNo \in Nat /\ seqNo + 1 + WND_BITS <= MAX_SEQ
          /\ held \subseteq Nat /\ Tended \subseteq held /\ Arrived \subseteq Nat
      BY <1>4, <2>2, Knowing, LineFacts, SentIs DEF Tended
    <3>2. n \in Words /\ n \in Nat /\ n >= wnd.begin
      <4>1. n \in Words /\ n \in Nat
        BY SentIs, Sizes DEF RangeBegins, Words
      <4> QED BY <1>1, <2>2, <3>1, <4>1, Compares
    <3>3. /\ n \in Given /\ SEQ_BEGIN <= n /\ n <= seqNo
          /\ \A m \in held : Position(m) >= Position(n)
      <4>1. n # 0
        BY <3>1, <3>2
      <4> QED BY <4>1, SentIs, Numbers DEF RangeBegins
    <3>4. ASSUME NEW m \in held PROVE ~(m < n)
      <4>1. m \in Nat /\ SEQ_BEGIN <= m /\ SEQ_BEGIN \in Nat
        BY SentIs, Numbers DEF IInv, Counted
      <4>2. Position(m) = m - SEQ_BEGIN /\ Position(n) = n - SEQ_BEGIN
        BY <3>2, <3>3, <4>1, Numbers
      <4> QED BY <3>2, <3>3, <4>1, <4>2
    <3> DEFINE k == n - wnd.begin
    <3>5. k \in Nat /\ wnd.begin + k = n /\ n <= seqNo + 1
      BY <3>1, <3>2, <3>3
    <3>6. wnd' = wnd_move(wnd, k)
      BY <1>1, <2>2, <3>1, <3>2, Compares
    <3> HIDE DEF k
    <3>7. \A m \in Tended : wnd.begin <= m /\ m < wnd.begin + k => m \in Arrived \/ m < first
      BY <3>1, <3>4, <3>5
    <3>8. wnd.begin + k <= seqNo + 1
      BY <3>5
    <3>9. Tells(wnd', Arrived, Tended, seqNo, first)
      BY <2>2, <3>1, <3>5, <3>6, <3>7, <3>8, MoveTells
    <3> QED BY <1>1, <1>2, <1>4, <2>2, <3>9, Knowing DEF WindowKnows, LeftFar, Tended, Given
  <2> QED BY <1>4, <2>1, <2>2, Knowing
<1> QED BY <1>1, <1>3, <1>4 DEF IInv

\* A move by force takes what it leaves behind from the messages the window tells
\* of. The window is so long then that those are far behind the last number.
LEMMA ForcedTells ==
  ASSUME IInv, NoWrap, ~edge, first # 0
  PROVE  /\ Tells(ForcedMove(wnd), Arrived, Tended \ LeavesBehind(wnd), seqNo, first)
         /\ \A n \in LeavesBehind(wnd) :
              n \in Given /\ seqNo - n >= CAN_MOVE_SIZE - MOVE_SIZE
<1> DEFINE kept == Tended \ LeavesBehind(wnd)
<1>1. /\ wnd \in Windows /\ first \in Nat /\ InLine(wnd)
      /\ Tells(wnd, Arrived, Tended, seqNo, first)
  BY Knowing
<1>2. /\ wnd.begin \in Nat /\ wnd.end \in Nat /\ wnd.begin <= wnd.end
      /\ wnd.begin # 0 /\ wnd.end <= MAX_SEQ
      /\ seqNo \in Nat /\ seqNo + 1 + WND_BITS <= MAX_SEQ
      /\ held \subseteq Nat /\ held \subseteq Given /\ Arrived \subseteq Nat
      /\ (wnd.end <= seqNo \/ wnd.end = wnd.begin)
  BY <1>1, LineFacts, SentIs DEF Tells, IInv, Counted
<1>3. /\ CAN_MOVE_SIZE \in Nat /\ MOVE_SIZE \in Nat
      /\ MOVE_SIZE < CAN_MOVE_SIZE /\ MOVE_SIZE >= 1
  BY Sizes
<1>4. kept \subseteq Nat /\ Tells(wnd, Arrived, kept, seqNo, first)
  BY <1>1, <1>2 DEF Tells, Tended
<1>5. CASE ~MustMove(wnd)
  BY <1>4, <1>5 DEF ForcedMove, LeavesBehind
<1>6. CASE MustMove(wnd)
  <2>1. range_size(wnd) >= CAN_MOVE_SIZE /\ ForcedMove(wnd) = wnd_move(wnd, MOVE_SIZE)
    BY <1>6 DEF MustMove, ForcedMove
  <2>2. wnd.end <= seqNo /\ wnd.end - wnd.begin + 1 >= CAN_MOVE_SIZE
    <3>1. wnd.begin # wnd.end
      <4>1. wnd.begin = wnd.end => range_size(wnd) \in {0, 1}
        BY DEF range_size
      <4> QED BY <1>3, <2>1, <4>1
    <3>2. range_size(wnd) = wnd.end - wnd.begin + 1
      BY <1>1, <3>1, RangeIs
    <3> QED BY <1>2, <2>1, <3>1, <3>2
  <2>3. wnd.begin + MOVE_SIZE <= seqNo + 1
    BY <1>2, <1>3, <2>2
  <2>4. \A m \in kept : wnd.begin <= m /\ m < wnd.begin + MOVE_SIZE
                        => m \in Arrived \/ m < first
    BY <1>6 DEF LeavesBehind, Tended
  <2>5. Tells(ForcedMove(wnd), Arrived, kept, seqNo, first)
    <3> HIDE DEF kept
    <3> QED BY <1>1, <1>2, <1>3, <1>4, <2>1, <2>3, <2>4, MoveTells
  <2>6. ASSUME NEW n \in LeavesBehind(wnd)
        PROVE  n \in Given /\ seqNo - n >= CAN_MOVE_SIZE - MOVE_SIZE
    <3>1. n \in Given /\ n \in Nat /\ n < wnd.begin + MOVE_SIZE
      BY <1>2, <2>6 DEF LeavesBehind
    <3> QED BY <1>2, <1>3, <2>2, <3>1
  <2> QED BY <2>5, <2>6
<1> QED BY <1>5, <1>6

\* Ageing leaves behind only a part of the run of ones.
LEMMA AgedTells ==
  ASSUME NEW w \in Windows, NEW got, NEW kept, NEW last \in Nat, NEW from \in Nat,
         Tells(w, got, kept, last, from), got \subseteq 1 .. last, kept \subseteq Nat,
         last + 1 + WND_BITS <= MAX_SEQ, NEW old \in Words
  PROVE  Tells(Aged(w, old), got, kept, last, from)
<1> DEFINE run == wnd_can_move_nums(w)
           age == idx_to_pt(w, old)
           len == IF age > run THEN run ELSE age
<1>1. run \in Nat /\ age \in Nat
  BY RunTyped, PointIs, Sizes DEF Words
<1>2. Aged(w, old) = w \/ Aged(w, old) = wnd_move(w, len)
  BY DEF Aged
<1>3. len \in Nat /\ len <= run
  <2> HIDE DEF run, age
  <2> QED BY <1>1
<1>4. Tells(wnd_move(w, len), got, kept, last, from)
  <2> HIDE DEF len
  <2> QED BY <1>3, MoveRunTells
<1> QED BY <1>2, <1>4

LEMMA TimerKeeps ==
  ASSUME IInv, NoWrap, TypeOK', TimerTotal
  PROVE  IInv'
<1>1. /\ list' = list /\ beginPt' = beginPt /\ endPt' = endPt
      /\ seqNo' = seqNo /\ held' = held /\ first' = first
      /\ handed' = handed /\ again' = again /\ edge' = edge
      /\ IF range_size(wnd) = 0 THEN wnd' = wnd /\ left' = left
         ELSE /\ wnd' = Aged(ForcedMove(wnd), oldest(ageing))
              /\ left' = left \cup LeavesBehind(wnd)
  BY DEF TimerTotal, window, ring, sender, application
<1>2. Open' = Open /\ Arrived' = Arrived
  BY <1>1, SameLists
<1>3. Counted'
  BY <1>1, <1>2 DEF IInv, Counted, Given
<1>4. ASSUME ~edge PROVE WindowKnows'
  <2>1. CASE first = 0 /\ wnd = EmptyWindow /\ Arrived = {}
    <3>1. range_size(wnd) = 0
      BY <2>1 DEF range_size, EmptyWindow
    <3> QED BY <1>1, <1>2, <1>4, <2>1, <3>1, Knowing DEF WindowKnows, LeftFar, Given
  <2>2. CASE first # 0 /\ SEQ_BEGIN < first
             /\ Tells(wnd, Arrived, Tended, seqNo, first)
    <3> DEFINE w == ForcedMove(wnd)
               kept == Tended \ LeavesBehind(wnd)
    <3>1. /\ wnd \in Windows /\ first \in Nat /\ oldest(ageing) \in Words
          /\ kept \subseteq Nat /\ LeftFar
      <4>1. ageing \in AgeingTables /\ 0 \in Words
        BY Sizes DEF IInv, TypeOK, Words
      <4>2. kept \subseteq Nat
        BY SentIs DEF Tended
      <4> QED BY <1>4, <4>1, <4>2, Knowing, TableTyped
    <3>2. w \in Windows /\ Tells(w, Arrived, kept, seqNo, first)
      BY <1>4, <2>2, <3>1, ForcedTyped, ForcedTells
    <3>3. \A n \in LeavesBehind(wnd) :
            n \in Given /\ seqNo - n >= CAN_MOVE_SIZE - MOVE_SIZE
      BY <1>4, <2>2, ForcedTells
    <3> HIDE DEF w, kept
    <3>4. Tells(Aged(w, oldest(ageing)), Arrived, kept, seqNo, first)
      BY <3>1, <3>2, SentIs, AgedTells
    <3>5. CASE range_size(wnd) = 0
      BY <1>1, <1>2, <1>4, <2>2, <3>5, Knowing DEF WindowKnows, LeftFar, Tended, Given
    <3>6. CASE range_size(wnd) # 0
      <4>1. wnd' = Aged(w, oldest(ageing)) /\ left' = left \cup LeavesBehind(wnd)
        BY <1>1, <3>6 DEF w
      <4>2. Tended' = kept
        BY <1>1, <4>1 DEF Tended, kept
      <4>3. LeftFar'
        BY <1>1, <3>1, <3>3, <4>1 DEF LeftFar, Given
      <4> QED BY <1>1, <1>2, <1>4, <2>2, <3>4, <4>1, <4>2, <4>3, Knowing DEF WindowKnows
    <3> QED BY <3>5, <3>6
  <2> QED BY <1>4, <2>1, <2>2, Knowing
<1> QED BY <1>1, <1>3, <1>4 DEF IInv

\* IInv is inductive.
LEMMA StepKeeps ==
  ASSUME IInv, NoWrap, [Next]_vars
  PROVE  IInv'
<1>1. TypeOK'
  BY StepTyped DEF IInv
<1>2. CASE SenderSends
  BY <1>1, <1>2, SendsKeeps
<1>3. ASSUME NEW n \in held, SenderFinishes(n) PROVE IInv'
  BY <1>1, <1>3, FinishesKeeps
<1>4. ASSUME NEW n \in Sent, RecvKnown(n) \/ RecvOnce(n) \/ RecvFirst(n) \/ RecvNext(n)
                             \/ RecvNextUnknown(n)
      PROVE  IInv'
  <2>1. n \in Given
    BY SentIs
  <2>2. CASE RecvKnown(n) \/ RecvNextUnknown(n)
    BY <1>1, <2>2, QuietKeeps DEF RecvKnown, RecvNextUnknown, window
  <2>3. CASE RecvOnce(n)
    BY <1>1, <2>1, <2>3, OnceKeeps
  <2>4. CASE RecvFirst(n)
    BY <1>1, <2>1, <2>4, FirstKeeps
  <2>5. CASE RecvNext(n)
    BY <1>1, <2>1, <2>5, NextKeeps
  <2> QED BY <1>4, <2>2, <2>3, <2>4, <2>5
<1>5. ASSUME NEW n \in RangeBegins, SureSenderSeqWnd(n) PROVE IInv'
  BY <1>1, <1>5, SureKeeps
<1>6. CASE TimerTotal
  BY <1>1, <1>6, TimerKeeps
<1>7. CASE TimerWalk
  BY <1>1, <1>7, QuietKeeps DEF TimerWalk, window
<1>8. CASE UNCHANGED vars
  BY <1>1, <1>8, QuietKeeps DEF vars, window
<1> QED BY <1>2, <1>3, <1>4, <1>5, <1>6, <1>7, <1>8 DEF Next

-----------------------------------------------------------------------------
(***************************************************************************)
(* What the runs check.                                                    *)
(***************************************************************************)

LEMMA StartKnows ==
  ASSUME Init, NoWrap
  PROVE  IInv
<1>1. TypeOK
  <2>1. 0 \in Words /\ NoWalk \in 0 .. SLOTS + 1
    BY Sizes, SlotsAre DEF Words, NoWalk
  <2>2. EmptyWindow \in Windows /\ EmptyTable \in AgeingTables
    BY <2>1 DEF EmptyWindow, Windows, EmptyTable, AgeingTables
  <2> QED BY <2>1, <2>2, ConstantsAssumption DEF Init, TypeOK
<1>2. Used = {} /\ Open = {} /\ Arrived = {} /\ \A k \in Slots : list[k] = 0
  BY DEF Init, Used, Open, Arrived
<1>3. Counted
  BY <1>2, Numbers DEF Init, Counted, NoWrap
<1>4. Ring(list, beginPt, endPt)
  BY <1>2, ConstantsAssumption DEF Init, Ring
<1>5. WindowKnows
  BY <1>2 DEF Init, WindowKnows, LeftFar
<1> QED BY <1>1, <1>3, <1>4, <1>5 DEF IInv

\* What the invariant says of the list, and of the window for it.
LEMMA ListOpen ==
  ASSUME IInv, NoWrap
  PROVE  OpenList
<1>1. /\ list \in [Slots -> Words] /\ beginPt \in Slots /\ endPt \in Slots
      /\ Ring(list, beginPt, endPt) /\ Open \subseteq Given
  BY DEF IInv, TypeOK, Counted
<1>2. OpenSorted
  <2>1. CASE beginPt = endPt /\ \A k \in Slots : list[k] = 0
    BY <2>1 DEF OpenSorted, Open, Used
  <2>2. CASE \A k \in Slots : list[k] # 0 <=> Dist(beginPt, k) <= Dist(beginPt, endPt)
    <3>1. Used = Span(beginPt, endPt)
      BY <2>2 DEF Used, Span
    <3>2. ASSUME NEW j \in Used, NEW k \in Used, Dist(beginPt, j) < Dist(beginPt, k)
          PROVE  Position(list[j]) < Position(list[k])
      <4>1. list[j] < list[k]
        BY <1>1, <3>2 DEF Ring, Used
      <4>2. list[j] \in Given /\ list[k] \in Given
        BY <1>1 DEF Open
      <4>3. /\ SEQ_BEGIN \in Nat
            /\ list[j] \in Nat /\ SEQ_BEGIN <= list[j]
            /\ list[k] \in Nat /\ SEQ_BEGIN <= list[k]
        BY <4>2, SentIs, Numbers
      <4>4. Position(list[j]) = list[j] - SEQ_BEGIN /\ Position(list[k]) = list[k] - SEQ_BEGIN
        BY <4>3, Numbers
      <4> QED BY <4>1, <4>3, <4>4
    <3> QED BY <3>1, <3>2 DEF OpenSorted
  <2> QED BY <1>1, <2>1, <2>2, RingIs
<1>3. OpenIsKnown
  <2> SUFFICES ASSUME NEW n \in Open, ~edge
               PROVE  IsAcked(wnd, n, wnd_compare(wnd, n), FALSE)
    BY DEF OpenIsKnown
  <2>1. n \in Arrived /\ n \in Words /\ wnd \in Windows
    BY <1>1, SentIs, Knowing DEF Arrived
  <2>2. InLine(wnd) /\ Takes(wnd, n)
    BY <2>1, Knowing DEF Tells
  <2> QED BY <2>1, <2>2, AckedIs
<1> QED BY <1>2, <1>3 DEF OpenList

\* What the window takes for seen or confirms, by cases: nothing has arrived yet,
\* or the window tells of what has.
LEMMA SeenSeen ==
  ASSUME IInv, NoWrap
  PROVE  WasSeen
<1>1. ASSUME ~edge, NEW n \in held
      PROVE  /\ n \in Nat /\ n \in Words
             /\ first # 0 /\ n < first => Had(n)
             /\ n \in left => Had(n)
  <2>1. n \in Given /\ n \in Nat /\ n \in Words /\ SEQ_BEGIN <= n /\ SEQ_BEGIN \in Nat
    <3>1. n \in Given
      BY DEF IInv, Counted
    <3> QED BY <3>1, SentIs, Numbers
  <2>2. ASSUME first # 0, n < first PROVE Had(n)
    <3>1. first \in Nat /\ SEQ_BEGIN <= first
      BY <1>1, <2>1, <2>2, Knowing
    <3>2. Position(n) = n - SEQ_BEGIN /\ Position(first) = first - SEQ_BEGIN
      BY <2>1, <3>1, Numbers
    <3> QED BY <2>1, <2>2, <3>1, <3>2 DEF Had
  <2>3. ASSUME n \in left PROVE Had(n)
    <3>1. seqNo - n >= CAN_MOVE_SIZE - MOVE_SIZE
      BY <1>1, <2>3, Knowing DEF LeftFar
    <3>2. seqNo \in Nat /\ SEQ_BEGIN <= seqNo
      BY Numbers DEF IInv, Counted
    <3>3. Position(n) = n - SEQ_BEGIN /\ Position(seqNo) = seqNo - SEQ_BEGIN
      BY <2>1, <3>2, Numbers
    <3> QED BY <2>1, <2>3, <3>1, <3>2, <3>3 DEF Had, Lost
  <2> QED BY <2>1, <2>2, <2>3
<1>2. ASSUME ~edge, first = 0, wnd = EmptyWindow, NEW n \in held
      PROVE  /\ ~IsAcked(wnd, n, wnd_compare(wnd, n), FALSE)
             /\ Notify_AckSeq(wnd) = 0
  <2>1. wnd_compare(wnd, n) = "in_wnd"
    BY <1>2 DEF EmptyWindow, wnd_compare
  <2>2. wnd_can_move_nums(wnd) = 0
    <3> DEFINE run == wnd_can_move_nums(wnd)
    <3>1. wnd.bits = {}
      BY <1>2 DEF EmptyWindow
    <3>2. run \in 0 .. WND_BITS /\ \A b \in 0 .. run - 1 : b \in {}
      BY <3>1, RunIs DEF wnd_can_move_nums
    <3> HIDE DEF run
    <3>3. run = 0
      BY <3>2, Sizes
    <3> QED BY <3>3 DEF run
  <2> QED BY <2>1, <2>2 DEF IsAcked, Notify_AckSeq
<1>3. ASSUME ~edge, first # 0, InLine(wnd), Tells(wnd, Arrived, Tended, seqNo, first),
             NEW n \in held
      PROVE  /\ Takes(wnd, n) => Had(n)
             /\ n < wnd.begin + wnd_can_move_nums(wnd) => Had(n)
  <2>1. /\ wnd \in Windows /\ wnd.begin \in Nat /\ first \in Nat /\ n \in Nat
        /\ wnd_can_move_nums(wnd) \in Nat
    BY <1>1, <1>3, Knowing, LineFacts, RunTyped
  <2>2. n < wnd.begin => Had(n)
    <3>1. n < wnd.begin => n \in Arrived \/ n < first \/ n \in left
      BY <1>3 DEF Tells, Tended
    <3> QED BY <1>1, <1>3, <3>1 DEF Had
  <2>3. n - wnd.begin \in wnd.bits => Had(n)
    <3>1. n - wnd.begin \in wnd.bits => wnd.begin + (n - wnd.begin) \in Arrived
      BY <1>3 DEF Tells
    <3>2. wnd.begin + (n - wnd.begin) = n
      BY <2>1
    <3> QED BY <3>1, <3>2 DEF Had
  <2>4. ASSUME n < wnd.begin + wnd_can_move_nums(wnd), ~(n < wnd.begin) PROVE Had(n)
    <3>1. wnd_can_move_nums(wnd) <= wnd_can_move_nums(wnd) /\ wnd.begin <= n
      BY <2>1, <2>4
    <3>2. seqNo \in Nat /\ Arrived \subseteq 1 .. seqNo
      BY SentIs
    <3>3. n \in Arrived
      BY <1>3, <2>1, <2>4, <3>1, <3>2, RunArrived
    <3> QED BY <3>3 DEF Had
  <2> QED BY <2>2, <2>3, <2>4 DEF Takes
<1>4. SeenWasSeen
  <2> SUFFICES ASSUME NEW n \in held, ~edge, IsAcked(wnd, n, wnd_compare(wnd, n), FALSE)
               PROVE  Had(n)
    BY DEF SeenWasSeen
  <2>1. first # 0 /\ InLine(wnd) /\ Tells(wnd, Arrived, Tended, seqNo, first)
    BY <1>2, Knowing
  <2>2. Takes(wnd, n)
    BY <1>1, <2>1, Knowing, AckedIs
  <2> QED BY <1>3, <2>1, <2>2
<1>5. ToldWasSeen
  <2> DEFINE told == Notify_AckSeq(wnd)
             run == wnd_can_move_nums(wnd)
  <2> SUFFICES ASSUME NEW n \in held, ~edge, told # 0, Position(n) < Position(told)
               PROVE  Had(n)
    BY DEF ToldWasSeen
  <2>1. first # 0 /\ InLine(wnd) /\ Tells(wnd, Arrived, Tended, seqNo, first)
    BY <1>2, Knowing
  <2>2. /\ wnd \in Windows /\ wnd.begin \in Nat /\ first \in Nat /\ run \in Nat /\ run <= run
        /\ SEQ_BEGIN \in Nat /\ SEQ_BEGIN < first /\ first <= wnd.begin
        /\ seqNo \in Nat /\ Arrived \subseteq 1 .. seqNo
        /\ seqNo + 1 + WND_BITS <= MAX_SEQ
        /\ n \in Nat /\ SEQ_BEGIN <= n
    <3>1. n \in Given
      BY DEF IInv, Counted
    <3> QED BY <2>1, <3>1, Knowing, LineFacts, RunTyped, SentIs, Numbers DEF Tells
  <2>3. wnd.begin + run <= seqNo + 1
    BY <2>1, <2>2, RunArrived
  <2> HIDE DEF run
  <2>4. told = wnd.begin + run
    <3>1. wnd.begin + run \in Words
      BY <2>2, <2>3, Sizes DEF Words
    <3> QED BY <3>1, WordIs DEF Notify_AckSeq, run
  <2> HIDE DEF told
  <2>5. n < wnd.begin + run
    <3>1. told \in Nat /\ SEQ_BEGIN <= told
      BY <2>2, <2>4
    <3>2. Position(n) = n - SEQ_BEGIN /\ Position(told) = told - SEQ_BEGIN
      BY <2>2, <3>1, Numbers
    <3> QED BY <2>2, <2>4, <3>1, <3>2
  <2> QED BY <1>3, <2>1, <2>5 DEF run
<1> QED BY <1>4, <1>5 DEF WasSeen

\* While the numbers have not wrapped, what is noted in the window is what has
\* arrived, and the list of open messages is sorted and has no gap.
THEOREM ReceiverInvariant ==
  ASSUME NoWrap
  PROVE  Spec => []IInv
<1>1. Init => IInv
  BY StartKnows
<1>2. IInv /\ [Next]_vars => IInv'
  BY StepKeeps
<1> QED BY <1>1, <1>2, PTL DEF Spec

\* No message is handed to the application twice, in whatever order and however
\* often its frames come, and however the window has moved over its number.
THEOREM NothingTwice ==
  ASSUME NoWrap
  PROVE  Spec => []HandedOnce
<1>1. IInv => HandedOnce
  BY DEF IInv, WindowKnows, HandedOnce
<1> QED BY <1>1, ReceiverInvariant, PTL

\* A message the sender still holds is taken for seen, or confirmed by
\* Notify_AckSeq, only if its first frame has arrived, if it came before the first
\* one that arrived, or if Timer_Total_Maintain left it behind by force, which it
\* does only to messages at least CAN_MOVE_SIZE - MOVE_SIZE numbers behind the last
\* one given out. How far the sender runs ahead is not bounded; the numbers have
\* not wrapped (NoWrap).
THEOREM SeenOnlyIfArrived ==
  ASSUME NoWrap
  PROVE  Spec => []WasSeen
<1>1. IInv => WasSeen
  BY SeenSeen
<1> QED BY <1>1, ReceiverInvariant, PTL

\* The open messages fill the ring from its begin to its end in their order, and
\* the window knows each of them.
THEOREM OpenMessagesSorted ==
  ASSUME NoWrap
  PROVE  Spec => []OpenList
<1>1. IInv => OpenList
  BY ListOpen
<1> QED BY <1>1, ReceiverInvariant, PTL
=============================================================================
