----------------------------- MODULE SortedRing -----------------------------
(***************************************************************************)
(* The circular array, sorted by sequence number, in which CMsgSender and   *)
(* CMsgRecver (dcframe/tools/dtframe/dcf_dtframe.cpp) keep their nodes. Both *)
(* have the same search, the same closing of a gap and the same walk from   *)
(* the begin to the end. The operators take the numbers of the slots (0 of  *)
(* an empty slot), the set of the used slots, the begin and the end.        *)
(***************************************************************************)
EXTENDS Integers

CONSTANT SLOTS  \* MAX_MSG_SEQ_NUM: 128

ASSUME SlotsAssumption == SLOTS \in Nat /\ SLOTS >= 2

Slots == 0 .. SLOTS - 1

\* Faults: the wrap of a slot forgotten, or made one slot too early.
FaultBeforeUnwrapped(pt) == pt - 1
FaultAfterTooEarly(pt) == IF pt >= SLOTS - 2 THEN 0 ELSE pt + 1
After(pt) == IF pt = SLOTS - 1 THEN 0 ELSE pt + 1
Before(pt) == IF pt = 0 THEN SLOTS - 1 ELSE pt - 1
\* Steps of a loop that walks from slot p up to slot q.
Dist(p, q) == IF p <= q THEN q - p ELSE q - p + SLOTS
\* The slots from p to q, both included.
Span(p, q) == {k \in Slots : Dist(p, k) <= Dist(p, q)}
\* The first slot from p on that is in the set.
Nearest(p, set) == CHOOSE k \in set : \A j \in set : Dist(p, k) <= Dist(p, j)

\* Fault: the slot is emptied and nothing moved.
FaultGapLeft(nodes, end, pt, empty) == [nodes EXCEPT ![pt] = empty]

\* The nodes after those behind pt were moved forward over it; the last slot
\* becomes empty.
Closed(nodes, end, pt, empty) ==
  [k \in Slots |->
     IF k = end THEN empty
     ELSE IF k \in Span(pt, end) THEN nodes[After(k)]
     ELSE nodes[k]]

\* AdjustHeadPtr: the begin moves to the first used slot up to the end.
HeadOf(used, begin, end) == Nearest(begin, (used \cup {end}) \cap Span(begin, end))

\* The slots at which the walk of Search stops: the number itself or the
\* first one behind it; a list whose numbers have wrapped has two parts.
StopsAt(nums, used, begin, end, seq) ==
  LET b == nums[begin]
      e == nums[end]
      Stop(n) == \/ n = seq
                 \/ e >= b /\ n > seq
                 \/ e < b /\ seq >= b /\ (n > seq \/ n < b)
                 \/ e < b /\ seq < b /\ n <= b /\ n > seq
  IN {k \in Span(begin, end) \ {end} : k \in used /\ Stop(nums[k])}

\* FindSequence, FindMultSequence: the reason and the slot; SLOTS stands for
\* no slot.
Search(nums, used, begin, end, seq) ==
  LET b == nums[begin]
      e == nums[end]
      stops == StopsAt(nums, used, begin, end, seq)
      k == Nearest(begin, stops)
      Found(reson, pt) == [reson |-> reson, pt |-> pt]
  IN IF b = 0 \/ e = 0 THEN Found("new", SLOTS)
     ELSE IF seq = b THEN Found("ok", begin)
     ELSE IF seq = e THEN Found("ok", end)
     ELSE IF e >= b /\ seq < b THEN Found("old", SLOTS)
     ELSE IF e >= b /\ seq > e THEN Found("new", SLOTS)
     ELSE IF e < b /\ seq < b /\ seq > e
          THEN Found(IF b - seq > seq - e THEN "new" ELSE "old", SLOTS)
     ELSE IF stops # {} THEN Found(IF nums[k] = seq THEN "ok" ELSE "near", k)
     ELSE Found(IF e >= b THEN "old" ELSE "new", SLOTS)
=============================================================================
