-------------------------- MODULE SortedRingProofs --------------------------
(***************************************************************************)
(* Lemmas about the circular arrays of CMsgSender and CMsgRecver, for every*)
(* number of slots: distances along the ring, the nearest slot of a set,   *)
(* what closing a gap keeps, where AdjustHeadPtr and the search stop.      *)
(***************************************************************************)
EXTENDS SortedRing, WellFoundedInduction, TLAPS

-----------------------------------------------------------------------------
(***************************************************************************)
(* Distances.                                                              *)
(***************************************************************************)

LEMMA SlotsAre == SLOTS \in Nat /\ SLOTS >= 2 /\ \A k : k \in Slots <=> k \in Nat /\ k < SLOTS
BY SlotsAssumption DEF Slots

LEMMA Steps ==
  ASSUME NEW k \in Slots
  PROVE  /\ After(k) \in Slots /\ Before(k) \in Slots
         /\ Before(After(k)) = k /\ After(Before(k)) = k
         /\ After(k) # k /\ Before(k) # k
BY SlotsAre DEF After, Before

LEMMA Distances ==
  ASSUME NEW p \in Slots, NEW q \in Slots
  PROVE  /\ Dist(p, q) \in Nat /\ Dist(p, q) < SLOTS
         /\ Dist(p, q) = 0 <=> p = q
BY SlotsAre DEF Dist

LEMMA DistanceTells ==
  ASSUME NEW p \in Slots, NEW j \in Slots, NEW k \in Slots, Dist(p, j) = Dist(p, k)
  PROVE  j = k
BY SlotsAre DEF Dist

\* One step along the ring, seen from a fixed slot.
LEMMA DistAfter ==
  ASSUME NEW p \in Slots, NEW k \in Slots
  PROVE  /\ After(k) # p => Dist(p, After(k)) = Dist(p, k) + 1
         /\ k # p => Dist(p, Before(k)) = Dist(p, k) - 1
         /\ (\E q \in Slots : Dist(p, k) < Dist(p, q)) => After(k) # p
BY SlotsAre DEF Dist, After, Before

\* The slot the distances are taken from moves by one.
LEMMA DistFromNext ==
  ASSUME NEW p \in Slots, NEW k \in Slots, k # p
  PROVE  Dist(After(p), k) = Dist(p, k) - 1
BY SlotsAre DEF Dist, After

\* A span that lies within another one.
LEMMA SpanWithin ==
  ASSUME NEW p \in Slots, NEW q \in Slots, NEW e \in Slots, NEW k \in Slots,
         Dist(p, q) <= Dist(p, e)
  PROVE  k \in Span(q, e) <=> Dist(p, q) <= Dist(p, k) /\ Dist(p, k) <= Dist(p, e)
BY SlotsAre DEF Dist, Span

LEMMA SpanIs ==
  ASSUME NEW p \in Slots, NEW e \in Slots
  PROVE  /\ Span(p, e) \subseteq Slots
         /\ \A k \in Slots : k \in Span(p, e) <=> Dist(p, k) <= Dist(p, e)
BY DEF Span

\* There is a nearest slot, and Nearest is one.
LEMMA NearestIs ==
  ASSUME NEW p \in Slots, NEW S, S \subseteq Slots, S # {}
  PROVE  Nearest(p, S) \in S /\ \A j \in S : Dist(p, Nearest(p, S)) <= Dist(p, j)
<1> DEFINE T == {Dist(p, k) : k \in S}
<1>1. T \subseteq Nat /\ T # {}
  BY Distances
<1>2. PICK x \in T : \A y \in T : ~(<<y, x>> \in OpToRel(<, Nat))
  <2> HIDE DEF T
  <2> QED BY <1>1, WFMin, NatLessThanWellFounded, Zenon
<1>3. \A y \in T : ~(y < x)
  <2> HIDE DEF T
  <2> QED BY <1>1, <1>2, Zenon DEF OpToRel
<1>4. PICK k \in S : x = Dist(p, k)
  OBVIOUS
<1>5. \A j \in S : Dist(p, k) <= Dist(p, j)
  <2> SUFFICES ASSUME NEW j \in S PROVE Dist(p, k) <= Dist(p, j)
    OBVIOUS
  <2>1. ~(Dist(p, j) < Dist(p, k))
    BY <1>3, <1>4
  <2> QED BY <2>1, Distances
<1> QED BY <1>5 DEF Nearest

-----------------------------------------------------------------------------
(***************************************************************************)
(* Closing a gap: what lies in the list l before, and in c afterwards.     *)
(***************************************************************************)

\* All that is not empty lies within n slots from b on.
Lies(l, empty, b, n) == \A k \in Slots : l[k] # empty => Dist(b, k) < n

\* The nodes behind pt, up to the one in e, were moved by one slot.
Shifted(c, l, empty, b, e, pt) ==
  \A k \in Slots :
    /\ Dist(b, k) < Dist(b, pt) => c[k] = l[k]
    /\ Dist(b, pt) <= Dist(b, k) /\ Dist(b, k) < Dist(b, e) =>
         /\ c[k] = l[After(k)]
         /\ After(k) \in Slots /\ Dist(b, After(k)) = Dist(b, k) + 1
    /\ k = e => c[k] = empty
    /\ Dist(b, k) > Dist(b, e) => c[k] = l[k]

\* Nothing but the node at pt is gone, nothing was added.
Kept(c, l, empty, pt) ==
  /\ \A j \in Slots \ {pt} : l[j] # empty => \E k \in Slots : c[k] = l[j]
  /\ \A k \in Slots : c[k] # empty => \E j \in Slots \ {pt} : c[k] = l[j]

\* What lies in this order lay in this order.
SameOrder(c, l, empty, b) ==
  \A j, k \in Slots :
    c[j] # empty /\ c[k] # empty /\ Dist(b, j) < Dist(b, k) =>
      \E x, y \in Slots : c[j] = l[x] /\ c[k] = l[y] /\ Dist(b, x) < Dist(b, y)

LEMMA ClosedShifts ==
  ASSUME NEW l, NEW empty, NEW b \in Slots, NEW e \in Slots, NEW pt \in Slots,
         Dist(b, pt) <= Dist(b, e)
  PROVE  Shifted(Closed(l, e, pt, empty), l, empty, b, e, pt)
<1> DEFINE c == Closed(l, e, pt, empty)
<1> SUFFICES ASSUME NEW k \in Slots
             PROVE  /\ Dist(b, k) < Dist(b, pt) => c[k] = l[k]
                    /\ Dist(b, pt) <= Dist(b, k) /\ Dist(b, k) < Dist(b, e) =>
                         /\ c[k] = l[After(k)]
                         /\ After(k) \in Slots /\ Dist(b, After(k)) = Dist(b, k) + 1
                    /\ k = e => c[k] = empty
                    /\ Dist(b, k) > Dist(b, e) => c[k] = l[k]
  BY DEF Shifted
<1>1. c[k] = IF k = e THEN empty ELSE IF k \in Span(pt, e) THEN l[After(k)] ELSE l[k]
  BY DEF Closed
<1>2. k \in Span(pt, e) <=> Dist(b, pt) <= Dist(b, k) /\ Dist(b, k) <= Dist(b, e)
  BY SpanWithin
<1>3. /\ Dist(b, k) \in Nat /\ Dist(b, e) \in Nat /\ Dist(b, pt) \in Nat
      /\ k = e <=> Dist(b, k) = Dist(b, e)
  BY Distances, DistanceTells
<1>4. ASSUME Dist(b, k) < Dist(b, e)
      PROVE After(k) \in Slots /\ Dist(b, After(k)) = Dist(b, k) + 1
  BY <1>4, Steps, DistAfter
<1> HIDE DEF c
<1> QED BY <1>1, <1>2, <1>3, <1>4

\* Closing the gap at pt moves the nodes behind it, keeps all others, and
\* their order, and leaves the slot at the end free.
LEMMA ClosedKeeps ==
  ASSUME NEW l, NEW empty, NEW b \in Slots, NEW e \in Slots, NEW pt \in Slots,
         Dist(b, pt) <= Dist(b, e), Lies(l, empty, b, Dist(b, e) + 1),
         NEW c, c = Closed(l, e, pt, empty)
  PROVE  /\ Shifted(c, l, empty, b, e, pt) /\ Lies(c, empty, b, Dist(b, e))
         /\ Kept(c, l, empty, pt) /\ SameOrder(c, l, empty, b)
<1>1. \A k \in Slots :
         /\ Dist(b, k) \in Nat /\ Dist(b, e) \in Nat /\ Dist(b, pt) \in Nat
         /\ k = e <=> Dist(b, k) = Dist(b, e)
         /\ k = pt <=> Dist(b, k) = Dist(b, pt)
  BY Distances, DistanceTells
<1>2. Shifted(c, l, empty, b, e, pt)
  BY ClosedShifts
<1>3. \A k \in Slots : l[k] # empty => Dist(b, k) <= Dist(b, e)
  BY <1>1 DEF Lies
<1>4. ASSUME NEW k \in Slots, c[k] # empty PROVE Dist(b, k) < Dist(b, e)
  BY <1>1, <1>2, <1>3, <1>4 DEF Shifted
<1>5. ASSUME NEW k \in Slots, c[k] # empty
      PROVE  \E j \in Slots \ {pt} :
               /\ c[k] = l[j]
               /\ Dist(b, j) = IF Dist(b, k) < Dist(b, pt) THEN Dist(b, k) ELSE Dist(b, k) + 1
  <2>1. CASE Dist(b, k) < Dist(b, pt)
    BY <1>1, <1>2, <2>1 DEF Shifted
  <2>2. CASE ~(Dist(b, k) < Dist(b, pt))
    <3>1. /\ c[k] = l[After(k)] /\ After(k) \in Slots
          /\ Dist(b, After(k)) = Dist(b, k) + 1
      BY <1>1, <1>2, <1>4, <1>5, <2>2 DEF Shifted
    <3>2. After(k) # pt
      BY <1>1, <2>2, <3>1
    <3> QED BY <2>2, <3>1, <3>2
  <2> QED BY <2>1, <2>2
<1>6. ASSUME NEW j \in Slots \ {pt}, l[j] # empty PROVE \E k \in Slots : c[k] = l[j]
  <2>1. CASE Dist(b, j) < Dist(b, pt)
    BY <1>2, <2>1 DEF Shifted
  <2>2. CASE ~(Dist(b, j) < Dist(b, pt))
    <3>1. /\ Dist(b, j) > Dist(b, pt) /\ Dist(b, j) <= Dist(b, e) /\ j # b
          /\ Dist(b, j) \in Nat /\ Dist(b, pt) \in Nat /\ Dist(b, e) \in Nat
      BY <1>1, <1>3, <1>6, <2>2, Distances
    <3>2. Before(j) \in Slots /\ After(Before(j)) = j /\ Dist(b, Before(j)) = Dist(b, j) - 1
      BY <3>1, Steps, DistAfter
    <3>3. c[Before(j)] = l[j]
      <4>1. Dist(b, pt) <= Dist(b, Before(j)) /\ Dist(b, Before(j)) < Dist(b, e)
        BY <3>1, <3>2
      <4> QED BY <1>2, <3>2, <4>1 DEF Shifted
    <3> QED BY <3>2, <3>3
  <2> QED BY <2>1, <2>2
<1>7. Lies(c, empty, b, Dist(b, e))
  BY <1>4 DEF Lies
<1>8. Kept(c, l, empty, pt)
  BY <1>5, <1>6 DEF Kept
<1>9. SameOrder(c, l, empty, b)
  <2> SUFFICES ASSUME NEW j \in Slots, NEW k \in Slots, c[j] # empty, c[k] # empty,
                      Dist(b, j) < Dist(b, k)
               PROVE  \E x, y \in Slots :
                        c[j] = l[x] /\ c[k] = l[y] /\ Dist(b, x) < Dist(b, y)
    BY DEF SameOrder
  <2>1. PICK x \in Slots :
          /\ c[j] = l[x]
          /\ Dist(b, x) = IF Dist(b, j) < Dist(b, pt) THEN Dist(b, j) ELSE Dist(b, j) + 1
    BY <1>5
  <2>2. PICK y \in Slots :
          /\ c[k] = l[y]
          /\ Dist(b, y) = IF Dist(b, k) < Dist(b, pt) THEN Dist(b, k) ELSE Dist(b, k) + 1
    BY <1>5
  <2>3. Dist(b, x) < Dist(b, y)
    BY <1>1, <2>1, <2>2
  <2> QED BY <2>1, <2>2, <2>3
<1> QED BY <1>2, <1>7, <1>8, <1>9

-----------------------------------------------------------------------------
(***************************************************************************)
(* Walks.                                                                  *)
(***************************************************************************)

\* AdjustHeadPtr stops at the first used slot up to the end, or at the end.
LEMMA HeadOfIs ==
  ASSUME NEW b \in Slots, NEW e \in Slots, NEW used, used \subseteq Slots
  PROVE  LET h == HeadOf(used, b, e)
         IN /\ h \in Slots /\ Dist(b, h) <= Dist(b, e) /\ (h \in used \/ h = e)
            /\ \A k \in used : Dist(b, k) <= Dist(b, e) => Dist(b, h) <= Dist(b, k)
<1> DEFINE S == (used \cup {e}) \cap Span(b, e)
<1>1. S \subseteq Slots /\ e \in S
  BY SpanIs, Distances
<1>2. Nearest(b, S) \in S /\ \A j \in S : Dist(b, Nearest(b, S)) <= Dist(b, j)
  BY <1>1, NearestIs
<1>3. Nearest(b, S) = HeadOf(used, b, e)
  BY DEF HeadOf
<1>4. \A k \in S : k \in Slots /\ Dist(b, k) <= Dist(b, e) /\ (k \in used \/ k = e)
  BY SpanIs
<1>5. \A k \in used : Dist(b, k) <= Dist(b, e) => k \in S
  BY SpanIs
<1> QED BY <1>2, <1>3, <1>4, <1>5

\* The search in a list whose numbers have not wrapped: a number outside the
\* list, the slot of the number, or the first slot behind it.
LEMMA SearchUnwrapped ==
  ASSUME NEW nums \in [Slots -> Nat], NEW used, used \subseteq Slots,
         NEW b \in Slots, NEW e \in Slots, NEW seq \in Nat,
         nums[b] # 0, nums[b] <= nums[e],
         NEW r, r = Search(nums, used, b, e, seq)
  PROVE  \/ r = [reson |-> "old", pt |-> SLOTS]
         \/ r = [reson |-> "new", pt |-> SLOTS] /\ seq > nums[e]
         \/ /\ r.reson = "ok" /\ r.pt \in Slots /\ Dist(b, r.pt) <= Dist(b, e)
            /\ nums[r.pt] = seq
         \/ /\ r.reson = "near" /\ r.pt \in used /\ Dist(b, r.pt) <= Dist(b, e)
            /\ nums[b] < seq /\ nums[r.pt] > seq
            /\ \A k \in used : Dist(b, k) < Dist(b, r.pt) => nums[k] < seq
<1> DEFINE stops == StopsAt(nums, used, b, e, seq)
           k == Nearest(b, stops)
<1>1. nums[b] \in Nat /\ nums[e] \in Nat /\ nums[e] # 0 /\ nums[e] >= nums[b]
  OBVIOUS
<1>2. \A j : j \in stops <=> j \in Span(b, e) \ {e} /\ j \in used /\ nums[j] >= seq
  <2>1. \A j \in Slots : nums[j] \in Nat
    OBVIOUS
  <2> QED BY <1>1, <2>1, SpanIs DEF StopsAt
<1>3. CASE seq = nums[b]
  BY <1>1, <1>3, Distances DEF Search
<1>4. CASE seq # nums[b] /\ seq = nums[e]
  BY <1>1, <1>4, Distances DEF Search
<1>5. CASE seq < nums[b]
  BY <1>1, <1>5 DEF Search
<1>6. CASE seq > nums[e]
  BY <1>1, <1>6 DEF Search
<1>7. CASE seq > nums[b] /\ seq < nums[e]
  <2>1. CASE stops = {}
    BY <1>1, <1>7, <2>1 DEF Search
  <2>2. CASE stops # {}
    <3>1. stops \subseteq Slots
      BY <1>2, SpanIs
    <3>2. k \in stops /\ \A j \in stops : Dist(b, k) <= Dist(b, j)
      BY <2>2, <3>1, NearestIs
    <3>3. r = [reson |-> IF nums[k] = seq THEN "ok" ELSE "near", pt |-> k]
      BY <1>1, <1>7, <2>2 DEF Search
    <3>4. k \in Slots /\ k \in used /\ Dist(b, k) <= Dist(b, e) /\ nums[k] >= seq
      BY <1>2, <3>1, <3>2, SpanIs
    <3>5. ASSUME NEW j \in used, Dist(b, j) < Dist(b, k) PROVE nums[j] < seq
      <4>1. j \in Slots /\ Dist(b, j) \in Nat /\ Dist(b, k) \in Nat /\ Dist(b, e) \in Nat
        BY <3>4, Distances
      <4>2. j # e /\ j \in Span(b, e)
        BY <3>4, <3>5, <4>1, SpanIs
      <4>3. j \notin stops
        BY <3>2, <3>5, <4>1
      <4>4. ~(nums[j] >= seq)
        BY <1>2, <4>2, <4>3
      <4> QED BY <4>1, <4>4
    <3> HIDE DEF k
    <3>6. nums[k] \in Nat
      BY <3>4
    <3> QED BY <1>7, <3>3, <3>4, <3>5, <3>6
  <2> QED BY <2>1, <2>2
<1> QED BY <1>1, <1>3, <1>4, <1>5, <1>6, <1>7
=============================================================================
