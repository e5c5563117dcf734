----------------------------- MODULE KeyArrays -----------------------------
(***************************************************************************)
(* Arrays of a fixed number of nodes that are found by a key:              *)
(* CNumKeyPtrFixArray and CNumKeyStructArray of                            *)
(* dcframe/tools/array/dcf_numsfixarray.cpp, CFixStrArray of               *)
(* dcframe/tools/array/dcf_strfixarray.cpp. An array is a function from    *)
(* the places 0 .. ConfigNums - 1 to nodes. The keys of a CFixStrArray are *)
(* the hashes and the length of its strings: two strings that agree in all *)
(* of them are one to the code.                                            *)
(***************************************************************************)
EXTENDS Naturals, Sequences, FiniteSets, SequencesExt

CONSTANT ConfigNums   \* m_wConfigNums

ASSUME KeyArraysAssumption == ConfigNums \in Nat \ {0}

Places == 0 .. ConfigNums - 1
NoPlace == ConfigNums    \* (DWORD)-1: no place of the array
NULL == 0
Free == [use |-> FALSE, key |-> 0, data |-> 0]
NewArray == [p \in Places |-> Free]

\* The places as the code goes round them, from start on.
Round(start) == [k \in 1 .. ConfigNums |-> (start + k - 1) % ConfigNums]

FirstThat(places, Test(_)) ==
  LET hits == SelectSeq(places, Test) IN IF hits = <<>> THEN NoPlace ELSE hits[1]

FaultStopsAtFree(node, key) ==
  LET pt == FirstThat(Round(key % ConfigNums), LAMBDA p : ~node[p].use \/ node[p].key = key)
  IN IF pt # NoPlace /\ node[pt].use THEN pt ELSE NoPlace

\* All places are looked at: a node that was removed ends no search.
FindNodePt(node, key) ==
  FirstThat(Round(key % ConfigNums), LAMBDA p : node[p].use /\ node[p].key = key)

FindEmptyNode(node, start) ==
  FirstThat(Tail(Round(start % ConfigNums)), LAMBDA p : ~node[p].use)

\* A new node goes to its place or to the next free one. The keys below the
\* number of places have their places kept for them: another key makes room.
Placed(node, key, data) ==
  LET pt == key % ConfigNums
      empty == FindEmptyNode(node, pt)
      new == [use |-> TRUE, key |-> key, data |-> data]
  IN CASE ~node[pt].use -> [node EXCEPT ![pt] = new]
       [] node[pt].use /\ empty = NoPlace -> node
       [] node[pt].use /\ empty # NoPlace /\ key = pt -> [node EXCEPT ![empty] = node[pt], ![pt] = new]
       [] node[pt].use /\ empty # NoPlace /\ key # pt -> [node EXCEPT ![empty] = new]

Full(node) == \A p \in Places : node[p].use

\* CNumKeyPtrFixArray::AddNode: the same node once more is no error.
PtrAddNode(node, key, data) ==
  LET pt == FindNodePt(node, key)
  IN IF pt # NoPlace
     THEN [node |-> node, ret |-> IF node[pt].data = data THEN "SUCCESS" ELSE "REPEAT"]
     ELSE [node |-> Placed(node, key, data), ret |-> IF Full(node) THEN "FULL" ELSE "SUCCESS"]

\* CNumKeyStructArray::AddNode.
StructAddNode(node, key, data) ==
  IF FindNodePt(node, key) # NoPlace THEN [node |-> node, ret |-> "REPEAT"]
  ELSE [node |-> Placed(node, key, data), ret |-> IF Full(node) THEN "FULL" ELSE "SUCCESS"]

\* FindNode of the pointers, GetNode of the structures.
FindNode(node, key) ==
  LET pt == FindNodePt(node, key) IN IF pt = NoPlace THEN NULL ELSE node[pt].data

ModifyNode(node, key, data) ==
  LET pt == FindNodePt(node, key) IN IF pt = NoPlace THEN node ELSE [node EXCEPT ![pt].data = data]

RemoveNode(node, key) ==
  LET pt == FindNodePt(node, key) IN IF pt = NoPlace THEN node ELSE [node EXCEPT ![pt] = Free]

\* GetFirst and then GetNext until there is none.
Visited(node) == SelectSeq(Round(0), LAMBDA p : node[p].use)

----------------------------------------------------------------------------
(* CFixStrArray *)

\* The node whose hashes agree; a free one has none, and every string has a length.
StrFindNode(node, key) ==
  FirstThat(Round(key % ConfigNums), LAMBDA p : node[p].use /\ node[p].key = key)

StrAddNode(node, key, data) ==
  LET pt == FirstThat(Round(key % ConfigNums), LAMBDA p : ~node[p].use)
  IN CASE StrFindNode(node, key) # NoPlace -> [node |-> node, ret |-> "REPEAT"]
       [] StrFindNode(node, key) = NoPlace /\ pt = NoPlace -> [node |-> node, ret |-> "FULL"]
       [] StrFindNode(node, key) = NoPlace /\ pt # NoPlace ->
            [node |-> [node EXCEPT ![pt] = [use |-> TRUE, key |-> key, data |-> data]], ret |-> "SUCCESS"]

\* RemoveNode by the string, Remove_Pt and RemoveNode by the place.
StrRemoveNode(node, key) ==
  LET pt == StrFindNode(node, key) IN IF pt = NoPlace THEN node ELSE [node EXCEPT ![pt] = Free]

\* GetNext begins where GetFirst stopped: the same node is found again, for ever.
StrGetFirst(node) == FirstThat(Round(0), LAMBDA p : node[p].use)
StrGetNext(node, pt) == FirstThat([k \in 1 .. ConfigNums - pt |-> pt + k - 1], LAMBDA p : node[p].use)
=============================================================================
