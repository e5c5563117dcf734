------------------------------- MODULE Lists -------------------------------
(***************************************************************************)
(* SingleList of dcframe/tools/list/dcf_slist.cpp and CQueArray of         *)
(* dcframe/tools/list/dcf_fixarraylist.cpp. A SingleList is the function   *)
(* pNext over its nodes and the head of the list; a CQueArray is a ring of *)
(* QueNums places, with m_wHeadPt, m_wTailPt and m_wNodeNums.              *)
(***************************************************************************)
EXTENDS Integers, Sequences, SequencesExt

CONSTANTS
  Nodes,     \* the nodes that can be put into a SingleList: not 0
  QueNums    \* m_wConfignums

ASSUME ListsAssumption == Nodes \subseteq Nat \ {0} /\ QueNums \in Nat \ {0}

Nil == 0
HeadNode == -1   \* m_Head

NewList == [n \in Nodes \cup {HeadNode} |-> Nil]

\* The nodes from n on, in the order of the list.
RECURSIVE NodesFrom(_, _)
NodesFrom(next, n) == IF next[n] = Nil THEN <<>> ELSE <<next[n]>> \o NodesFrom(next, next[n])

InList(next) == NodesFrom(next, HeadNode)

ListPushHead(next, n) == [next EXCEPT ![n] = next[HeadNode], ![HeadNode] = n]

ListPopHead(next) ==
  LET n == next[HeadNode]
  IN IF n = Nil THEN next ELSE [next EXCEPT ![HeadNode] = next[n], ![n] = Nil]

ListPushTail(next, n) ==
  LET last == IF next[HeadNode] = Nil THEN HeadNode ELSE Last(InList(next))
  IN [next EXCEPT ![last] = n, ![n] = Nil]

FindIf(next, Comp(_)) ==
  LET hits == SelectSeq(InList(next), Comp) IN IF hits = <<>> THEN Nil ELSE hits[1]

RemoveIf(next, Comp(_)) ==
  LET n == FindIf(next, Comp)
      before == CHOOSE m \in DOMAIN next : next[m] = n
  IN IF n = Nil THEN next ELSE [next EXCEPT ![before] = next[n], ![n] = Nil]

\* The nodes are freed: pNext of none of them means anything afterwards.
RemoveAll(next) == NewList

----------------------------------------------------------------------------
(* CQueArray: what the calls return is in ret, SUCCESS, FULL, a node or Nil. *)

NewQueue == [data |-> [p \in 0 .. QueNums - 1 |-> Nil], head |-> 0, tail |-> 0, num |-> 0, ret |-> "SUCCESS"]

FaultPopsPast(q) ==
  IF q.num = 0 THEN [q EXCEPT !.ret = Nil]
  ELSE [q EXCEPT !.num = @ - 1, !.ret = q.data[q.head], !.head = (@ + 1) % QueNums]

\* The last node leaves both positions where they are.
PopNode(q) ==
  IF q.num = 0 THEN [q EXCEPT !.ret = Nil]
  ELSE [q EXCEPT !.num = @ - 1, !.ret = q.data[q.head],
                 !.head = IF q.num > 1 THEN (@ + 1) % QueNums ELSE @]

PushHead(q, x) ==
  IF q.num >= QueNums THEN [q EXCEPT !.ret = "FULL"]
  ELSE LET at == IF q.num = 0 THEN q.head ELSE IF q.head > 0 THEN q.head - 1 ELSE QueNums - 1
       IN [q EXCEPT !.data[at] = x, !.head = at, !.num = @ + 1, !.ret = "SUCCESS"]

PushTail(q, x) ==
  IF q.num >= QueNums THEN [q EXCEPT !.ret = "FULL"]
  ELSE LET at == IF q.num = 0 THEN q.tail ELSE (q.tail + 1) % QueNums
       IN [q EXCEPT !.data[at] = x, !.tail = at, !.num = @ + 1, !.ret = "SUCCESS"]

\* Push, for PushHead and PushTail of a whole queue: both say bHead, so that
\* both put one node after the other in front.
PushQueue(q, nodes) ==
  IF Len(nodes) + q.num > QueNums THEN [q EXCEPT !.ret = "FULL"]
  ELSE FoldLeft(PushHead, [q EXCEPT !.ret = "SUCCESS"], nodes)

\* The node counts from the start of the memory, not from the head.
GetQueNode(q, pt) == IF pt >= q.num THEN Nil ELSE q.data[pt]

InQueue(q) == [k \in 1 .. q.num |-> q.data[(q.head + k - 1) % QueNums]]
=============================================================================
