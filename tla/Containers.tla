----------------------------- MODULE Containers -----------------------------
(***************************************************************************)
(* One object of each of the containers of dcframe/tools at a time, and    *)
(* any calls on it in any order, beside what its caller believes is in it: *)
(* a sequence of nodes, or a function from keys to data. The calls do not  *)
(* lock; their callers do.                                                 *)
(*                                                                         *)
(* A call that writes behind the memory of a dcf_vector ends the           *)
(* behaviour: what the heap does then is not the container's to say.       *)
(***************************************************************************)
EXTENDS Vectors, Lists, KeyArrays

CONSTANTS
  Keys,    \* keys of the arrays and of CPtrVector
  Data,    \* contents of nodes: not 0
  MaxLen   \* bound: nodes in a vector

ASSUME ContainersAssumption == Keys \subseteq Nat /\ Data \subseteq Nat \ {0} /\ MaxLen \in Nat

VARIABLES
  subject,  \* which container it is
  c,        \* its state
  spec,     \* what is in it, to its caller
  told      \* the result of the last call that has one, the expected one, and
            \* which departure from what it is for the call may be, if any

vars == <<subject, c, spec, told>>

NoMap == [k \in {} |-> 0]
NotTold == [about |-> "", got |-> 0, want |-> 0]
Told(got, want) == [about |-> "", got |-> got, want |-> want]
May(departure, answer) == [answer EXCEPT !.about = departure]

New ==
  [vector |-> NewVector, ptrvector |-> <<>>, slist |-> NewList, queue |-> NewQueue,
   ptrkeys |-> NewArray, structkeys |-> NewArray, strkeys |-> NewArray]

KeyArray == {"ptrkeys", "structkeys", "strkeys"}

\* The calls whose answers are not what they are for. For those that a comment
\* speaks of there is a property of its own below.
Departures ==
  {"node behind the last", "same node again", "queue behind the tail", "node of a queue", "next of a string array"}

ContainersInit ==
  /\ subject \in DOMAIN New /\ c = New[subject]
  /\ spec = IF subject \in KeyArray THEN NoMap ELSE <<>>
  /\ told = NotTold

Do(s, new, ref) == subject = s /\ c' = new /\ spec' = ref /\ told' = NotTold /\ UNCHANGED subject
Answer(s, answer) == subject = s /\ told' = answer /\ UNCHANGED <<subject, c, spec>>
Tell(s, got, want) == Answer(s, Told(got, want))

----------------------------------------------------------------------------
(* dcf_vector: get makes a node, which is zero, when it is told the place    *)
(* behind the last one. The caller goes on with what it finds there.         *)

VectorUp == subject = "vector" /\ ~c.over
Grown(n) == IF n < Len(spec) THEN spec ELSE Append(spec, Zero)
Room(n) == n <= Len(spec) /\ n < MaxLen

VectorGet ==
  VectorUp /\ \E n \in 0 .. MaxLen :
    LET v == get(c, n)
        made == IF n = Len(spec) THEN "node behind the last" ELSE ""
    IN /\ Room(n)
       /\ c' = v
       /\ spec' = [Grown(n) EXCEPT ![n + 1] = v.mem[n + 1]]
       /\ told' = May(made, Told(v.mem[n + 1], Grown(n)[n + 1]))
       /\ UNCHANGED subject

VectorPush == VectorUp /\ \E x \in Data : Len(spec) < MaxLen /\ Do("vector", push(c, x), Append(spec, x))

VectorReplace ==
  VectorUp /\ \E n \in 0 .. MaxLen, x \in Data :
    Room(n) /\ Do("vector", replace(c, n, x), [Grown(n) EXCEPT ![n + 1] = x])

VectorInsert ==
  VectorUp /\ \E n \in 0 .. Len(spec), x \in Data :
    Len(spec) < MaxLen /\ Do("vector", insert(c, n, x), InsertAt(spec, n + 1, x))

VectorExchange ==
  VectorUp /\ \E n1, n2 \in 0 .. Len(spec) - 1 :
    Do("vector", exchange(c, n1, n2), [spec EXCEPT ![n1 + 1] = spec[n2 + 1], ![n2 + 1] = spec[n1 + 1]])

VectorRemoveAt ==
  VectorUp /\ \E n \in 0 .. MaxLen :
    Do("vector", remove_at(c, n), IF n < Len(spec) THEN RemoveAt(spec, n + 1) ELSE spec)

VectorRemoveAll == VectorUp /\ Do("vector", remove_all(c), <<>>)

VectorFind ==
  VectorUp /\ \E x \in Data : Tell("vector", find(c, x), SelectInSeq(spec, LAMBDA y : y = x) - 1)

----------------------------------------------------------------------------
(* CPtrVector: searching and inserting by key are for sorted vectors.       *)

Below(s, key) == Cardinality({i \in 1 .. Len(s) : s[i] < key})

PtrPushTail ==
  \E k \in Keys : subject = "ptrvector" /\ Len(c) < MaxLen /\ Do("ptrvector", Append(c, k), Append(spec, k))

PtrInsertSort ==
  \E k \in Keys :
    /\ subject = "ptrvector" /\ Len(c) < MaxLen /\ IsSorted(c, <=)
    /\ Do("ptrvector", insert_sort(c, k), InsertAt(spec, Below(spec, k) + 1, k))

PtrSort ==
  subject = "ptrvector" /\ Do("ptrvector", sort_heap(c), SortSeq(spec, LAMBDA a, b : a < b))

PtrRemoveAt ==
  \E n \in 0 .. MaxLen :
    subject = "ptrvector"
    /\ Do("ptrvector", remove_item(c, n), IF n < Len(spec) THEN RemoveAt(spec, n + 1) ELSE spec)

PtrFindItem ==
  \E k \in Keys :
    subject = "ptrvector" /\ IsSorted(c, <=)
    /\ Tell("ptrvector", FindItem(c, k).pt >= 0, \E i \in 1 .. Len(spec) : spec[i] = k)

----------------------------------------------------------------------------
(* SingleList and CQueArray *)

Outside == Nodes \ ToSet(spec)

SListPushHead == \E n \in Outside : Do("slist", ListPushHead(c, n), <<n>> \o spec)
SListPushTail == \E n \in Outside : Do("slist", ListPushTail(c, n), Append(spec, n))
SListPopHead == Do("slist", ListPopHead(c), IF spec = <<>> THEN spec ELSE Tail(spec))
SListRemoveAll == Do("slist", RemoveAll(c), <<>>)

\* The first node that is at least v.
FirstFrom(v) == SelectInSeq(spec, LAMBDA n : n >= v)
SListRemoveIf ==
  \E v \in Nodes : subject = "slist" /\
    Do("slist", RemoveIf(c, LAMBDA n : n >= v), IF FirstFrom(v) = 0 THEN spec ELSE RemoveAt(spec, FirstFrom(v)))
SListFindIf ==
  \E v \in Nodes : subject = "slist" /\
    Tell("slist", FindIf(c, LAMBDA n : n >= v), IF FirstFrom(v) = 0 THEN Nil ELSE spec[FirstFrom(v)])

QueueCall(new, ref, want) ==
  subject = "queue" /\ c' = new /\ spec' = ref /\ told' = Told(new.ret, want) /\ UNCHANGED subject

HasRoom(n) == Len(spec) + n <= QueNums

QueuePushHead ==
  \E x \in Data : subject = "queue"
    /\ QueueCall(PushHead(c, x), IF HasRoom(1) THEN <<x>> \o spec ELSE spec, IF HasRoom(1) THEN "SUCCESS" ELSE "FULL")
QueuePushTail ==
  \E x \in Data : subject = "queue"
    /\ QueueCall(PushTail(c, x), IF HasRoom(1) THEN Append(spec, x) ELSE spec, IF HasRoom(1) THEN "SUCCESS" ELSE "FULL")
QueuePop ==
  subject = "queue"
    /\ QueueCall(PopNode(c), IF spec = <<>> THEN spec ELSE Tail(spec), IF spec = <<>> THEN Nil ELSE spec[1])

Pairs == {<<>>} \cup {<<x, y>> : x \in Data, y \in Data}
QueuePushHeadQueue ==
  \E s \in Pairs : subject = "queue"
    /\ QueueCall(PushQueue(c, s), IF HasRoom(Len(s)) THEN Reverse(s) \o spec ELSE spec,
                 IF HasRoom(Len(s)) THEN "SUCCESS" ELSE "FULL")

\* The nodes of the other queue go behind those of this one, in their order; the
\* caller goes on with what it finds.
QueuePushTailQueue ==
  \E s \in Pairs :
    LET q == PushQueue(c, s)
        fits == HasRoom(Len(s))
        put == IF fits /\ s # <<>> THEN "queue behind the tail" ELSE ""
    IN /\ subject = "queue"
       /\ c' = q
       /\ spec' = InQueue(q)
       /\ told' = May(put, Told(<<q.ret, InQueue(q)>>,
                               IF fits THEN <<"SUCCESS", spec \o s>> ELSE <<"FULL", spec>>))
       /\ UNCHANGED subject

QueueGetNode ==
  \E n \in 0 .. QueNums :
    Answer("queue", May(IF n < Len(spec) /\ c.head # 0 THEN "node of a queue" ELSE "",
                        Told(GetQueNode(c, n), IF n < Len(spec) THEN spec[n + 1] ELSE Nil)))

----------------------------------------------------------------------------
(* The arrays with keys *)

Has(key) == key \in DOMAIN spec
With(key, data) == [k \in DOMAIN spec \cup {key} |-> IF k = key THEN data ELSE spec[k]]
Without(key) == [k \in DOMAIN spec \ {key} |-> spec[k]]
IsFull == Cardinality(DOMAIN spec) = ConfigNums

Added(node, key, data) ==
  CASE subject = "ptrkeys" -> PtrAddNode(node, key, data)
    [] subject = "structkeys" -> StructAddNode(node, key, data)
    [] subject = "strkeys" -> StrAddNode(node, key, data)

\* A node that is in the array may be added again with the same data, and with no
\* other.
Again(key, data) == Has(key) /\ spec[key] = data
AddResult(key, data) ==
  CASE Again(key, data) /\ subject # "strkeys" -> "SUCCESS"
    [] Has(key) /\ ~(Again(key, data) /\ subject # "strkeys") -> "REPEAT"
    [] ~Has(key) /\ IsFull -> "FULL"
    [] ~Has(key) /\ ~IsFull -> "SUCCESS"

AddKey ==
  /\ subject \in KeyArray
  /\ \E k \in Keys, d \in Data :
       LET a == Added(c, k, d)
           repeated == IF subject = "structkeys" /\ Again(k, d) THEN "same node again" ELSE ""
       IN /\ c' = a.node
          /\ spec' = IF Has(k) \/ IsFull THEN spec ELSE With(k, d)
          /\ told' = May(repeated, Told(a.ret, AddResult(k, d)))
  /\ UNCHANGED subject

ModifyKey ==
  /\ subject \in {"ptrkeys", "structkeys"}
  /\ \E k \in Keys, d \in Data : Do(subject, ModifyNode(c, k, d), IF Has(k) THEN With(k, d) ELSE spec)

RemoveKey ==
  /\ subject \in KeyArray
  /\ \E k \in Keys :
       Do(subject, IF subject = "strkeys" THEN StrRemoveNode(c, k) ELSE RemoveNode(c, k), Without(k))

FindKey ==
  /\ subject \in {"ptrkeys", "structkeys"}
  /\ \E k \in Keys : Tell(subject, FindNode(c, k), IF Has(k) THEN spec[k] ELSE NULL)

Iterate ==
  /\ subject \in {"ptrkeys", "structkeys"}
  /\ Tell(subject, [keys |-> {c[p].key : p \in ToSet(Visited(c))}, calls |-> Len(Visited(c))],
          [keys |-> DOMAIN spec, calls |-> Cardinality(DOMAIN spec)])

\* From the first node to the next one, if there is another.
IterateStr ==
  /\ subject = "strkeys" /\ StrGetFirst(c) # NoPlace
  /\ LET first == StrGetFirst(c)
     IN Answer(subject, May("next of a string array",
                            Told(StrGetNext(c, first), FirstThat(Tail(Round(first)), LAMBDA p : p > first /\ c[p].use))))

----------------------------------------------------------------------------
VectorNext ==
  \/ VectorGet \/ VectorPush \/ VectorReplace \/ VectorInsert
  \/ VectorExchange \/ VectorRemoveAt \/ VectorRemoveAll \/ VectorFind
PtrVectorNext == PtrPushTail \/ PtrInsertSort \/ PtrSort \/ PtrRemoveAt \/ PtrFindItem
SListNext ==
  /\ subject = "slist"
  /\ \/ SListPushHead \/ SListPushTail \/ SListPopHead
     \/ SListRemoveAll \/ SListRemoveIf \/ SListFindIf
QueueNext == QueuePushHead \/ QueuePushTail \/ QueuePop \/ QueuePushHeadQueue \/ QueuePushTailQueue \/ QueueGetNode
KeyNext == AddKey \/ ModifyKey \/ RemoveKey \/ FindKey \/ Iterate \/ IterateStr

ContainersNext == VectorNext \/ PtrVectorNext \/ SListNext \/ QueueNext \/ KeyNext

----------------------------------------------------------------------------
(* What Tools says of the containers *)

\* Each container is well formed: a vector uses no more than it has, which is its
\* least size or more; no node outside a list points anywhere; a queue's head and
\* tail are as far apart as its nodes say; a key is in an array once, and one below
\* the number of places in its own place.
VectorOK == c.used <= Len(c.mem) /\ Len(c.mem) >= MinSize
SListOK == \A n \in Outside : c[n] = Nil
QueueOK ==
  /\ c.num \in 0 .. QueNums /\ c.head \in 0 .. QueNums - 1
  /\ c.tail = IF c.num = 0 THEN c.head ELSE (c.head + c.num - 1) % QueNums
KeyArrayOK ==
  /\ \A p, q \in Places : c[p].use /\ c[q].use /\ c[p].key = c[q].key => p = q
  /\ subject # "strkeys" => \A p \in Places : c[p].use /\ c[p].key \in Places => c[p].key = p
ContainerOK ==
  CASE subject = "vector" -> VectorOK
    [] subject = "ptrvector" -> c \in Seq(Keys)
    [] subject = "slist" -> SListOK
    [] subject = "queue" -> QueueOK
    [] subject \in KeyArray -> KeyArrayOK

\* What is in the container is what its calls have put there and not taken out,
\* in that order, and the results are those of a caller's sequence or function.
Contents ==
  CASE subject = "vector" -> SubSeq(c.mem, 1, c.used)
    [] subject = "ptrvector" -> c
    [] subject = "slist" -> InList(c)
    [] subject = "queue" -> InQueue(c)
    [] subject \in KeyArray ->
         [k \in {c[p].key : p \in {q \in Places : c[q].use}} |->
            c[CHOOSE p \in Places : c[p].use /\ c[p].key = k].data]
ContentsAgree ==
  /\ told.got = told.want \/ told.about \in Departures
  /\ Contents = spec
=============================================================================
