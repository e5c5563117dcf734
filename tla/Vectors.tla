------------------------------ MODULE Vectors ------------------------------
(***************************************************************************)
(* The vectors of dcframe/tools/vector/dcf_vector.cpp. dcf_vector is a     *)
(* record of its memory (a sequence of nodes, position n of the code is    *)
(* n + 1 here), how many nodes are used, and whether something was written *)
(* behind the memory. CPtrVector is a sequence of keys: the pointers are   *)
(* told apart by what GET_KEY says of them.                                *)
(***************************************************************************)
EXTENDS Integers, Sequences, SequencesExt

CONSTANTS
  MinSize,   \* m_min_size
  Step       \* m_node_size_step

ASSUME VectorsAssumption == MinSize \in Nat /\ MinSize >= 4 /\ Step \in Nat \ {0}

Zero == 0   \* a node of zero bytes

NewVector == [mem |-> [i \in 1 .. MinSize |-> Zero], used |-> 0, over |-> FALSE]

\* What is used is copied to the new memory, however long that is.
adjust_size(v, new_size) ==
  LET wanted == IF new_size < MinSize THEN MinSize ELSE new_size
      need == ((wanted + Step - 1) \div Step) * Step
  IN IF need = Len(v.mem) THEN v
     ELSE [v EXCEPT !.mem = [i \in 1 .. need |-> IF i <= v.used /\ i <= Len(v.mem) THEN @[i] ELSE Zero],
                    !.over = @ \/ v.used > need]

ensure_size(v, n) == IF n < Len(v.mem) THEN v ELSE adjust_size(v, n + 1)

adjust_used_size(v, n) == IF n + 1 > v.used THEN [v EXCEPT !.used = n + 1] ELSE v

get(v, n) == adjust_used_size(ensure_size(v, n), n)

\* memcpy to get_pt(n).
Put(v, n, x) ==
  IF n < Len(v.mem) THEN [v EXCEPT !.mem[n + 1] = x] ELSE [v EXCEPT !.over = TRUE]

\* The node behind the used ones is cleared before the number of them is counted
\* down: the last one keeps its content.
remove_at(v, n) ==
  IF n >= v.used THEN v
  ELSE LET moved == [v EXCEPT !.mem = [i \in DOMAIN @ |-> IF i > n /\ i < v.used THEN @[i + 1] ELSE @[i]]]
           less == [Put(moved, v.used, Zero) EXCEPT !.used = @ - 1]
       IN adjust_size(less, less.used)

\* The memory shrinks to its least size while all nodes still count as used.
remove_all(v) ==
  LET cleared == [v EXCEPT !.mem = [i \in DOMAIN @ |-> Zero]]
  IN [adjust_size(cleared, MinSize) EXCEPT !.used = 0]

exchange(v, n1, n2) ==
  LET w == adjust_used_size(adjust_used_size(ensure_size(ensure_size(v, n1), n2), n1), n2)
  IN [w EXCEPT !.mem[n1 + 1] = w.mem[n2 + 1], !.mem[n2 + 1] = w.mem[n1 + 1]]

insert(v, n, x) ==
  IF n >= v.used THEN Put(get(v, n), n, x)
  ELSE LET w == ensure_size(v, v.used)
           moved == [w EXCEPT !.mem = [i \in DOMAIN @ |->
                       IF i > n + 1 /\ i <= v.used + 1 THEN @[i - 1] ELSE @[i]]]
       IN [Put(moved, n, x) EXCEPT !.used = @ + 1]

replace(v, n, x) == Put(get(v, n), n, x)

push(v, x) == replace(v, v.used, x)

find(v, x) ==
  LET hits == {n \in 0 .. v.used - 1 : v.mem[n + 1] = x}
  IN IF hits = {} THEN -1 ELSE CHOOSE n \in hits : \A k \in hits : n <= k

----------------------------------------------------------------------------
(* CPtrVector *)

\* FindItem: where key is, -1 if it is not found, and the last place looked at.
FindItem(s, key) ==
  LET Look[left \in 0 .. Len(s), right \in -1 .. Len(s) - 1, last \in -1 .. Len(s) - 1] ==
        LET mid == left + (right - left) \div 2
        IN CASE left > right -> [pt |-> -1, sim |-> last]
             [] left <= right /\ s[mid + 1] = key -> [pt |-> mid, sim |-> mid]
             [] left <= right /\ s[mid + 1] > key -> Look[left, mid - 1, mid]
             [] left <= right /\ s[mid + 1] < key -> Look[mid + 1, right, mid]
  IN IF s = <<>> THEN [pt |-> -1, sim |-> -1] ELSE Look[0, Len(s) - 1, -1]

insert_sort(s, key) ==
  LET sim == FindItem(s, key).sim
  IN CASE sim < 0 -> Append(s, key)
       [] sim >= 0 /\ s[sim + 1] >= key -> InsertAt(s, sim + 1, key)
       [] sim >= 0 /\ s[sim + 1] < key -> InsertAt(s, sim + 2, key)

sort_swap(s, pt1, pt2) == [s EXCEPT ![pt1 + 1] = s[pt2 + 1], ![pt2 + 1] = s[pt1 + 1]]

\* The node at position p sinks below the greater of its children.
RECURSIVE sort_heap_adjust(_, _, _)
sort_heap_adjust(s, p, length) ==
  LET left == 2 * p + 1
      child == IF left + 1 < length /\ s[left + 1] < s[left + 2] THEN left + 1 ELSE left
  IN IF left >= length \/ s[p + 1] >= s[child + 1] THEN s
     ELSE sort_heap_adjust(sort_swap(s, p, child), child, length)

sort_heap(s) ==
  LET n == Len(s)
      heap == FoldLeft(LAMBDA t, k : sort_heap_adjust(t, n \div 2 - k, n), s,
                       [k \in 1 .. n \div 2 |-> k])
  IN FoldLeft(LAMBDA t, k : sort_heap_adjust(sort_swap(t, 0, n - k), 0, n - k), heap,
              [k \in 1 .. n - 1 |-> k])

remove_item(s, pt) == IF pt >= Len(s) THEN s ELSE RemoveAt(s, pt + 1)
=============================================================================
