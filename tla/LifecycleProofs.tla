-------------------------- MODULE LifecycleProofs --------------------------
(***************************************************************************)
(* Proofs about Lifecycle, for any number of clients and messages.         *)
(*                                                                         *)
(* IInv is inductive: pointers, lives and places of the threads in its     *)
(* first half, queues, lock and pointers while only the application ends   *)
(* a client in its second. There is one lemma for each action, which shows *)
(* each part of IInv after it; the theorems at the end read off what IInv  *)
(* says. The case of a step for any thread splits into the application's   *)
(* thread, a worker and a looper.                                          *)
(***************************************************************************)
EXTENDS Lifecycle, FiniteSetTheorems, TLAPS

USE LifecycleAssumption

\* A pointer that is not NULL points to the one object of its kind that lives.
Pointers ==
  \A g \in Gens : /\ (client[g] = "alive") <=> (rpc = g)
                  /\ (looper[g] = "alive") <=> (lp = g)

\* What was not made has no thread and no messages.
Unmade ==
  \A g \in Gens :
    /\ client[g] = "unmade" => at[Worker(g)] = "none"
    /\ looper[g] = "unmade" =>
         at[Looper(g)] = "none" /\ queue[g] = << >> /\ posted[g] = 0 /\ handed[g] = 0

\* A thread that works on an object knows which one.
Targets ==
  /\ \A t \in Threads :
       at[t] \in {"join", "joinLooper", "logoutJoin", "sending"} => this[t] \in Gens
  /\ \A c \in Gens : at[Worker(c)] = "join" => this[Worker(c)] = c

\* Nobody frees the client of a worker that handles a datagram or ends it.
Handling ==
  \A c \in Gens : at[Worker(c)] \in Datagrams \cup {"quit", "join", "logoutJoin"} => rpc = c

\* A worker outlives its client only when the gateway ended the session.
WorkersLive ==
  \A c \in Gens :
    /\ at[Worker(c)] \notin {"none", "ended"} => client[c] = "alive" \/ over[c]
    /\ at[Worker(c)] \in Quitting \cup {"logoutJoin", "callback", "calling"} => over[c]

\* A looper outlives its object only when a callback has called quit.
LoopersLive ==
  \A l \in Gens :
    /\ at[Looper(l)] \notin {"none", "ended"} => looper[l] = "alive" \/ inside
    /\ at[Looper(l)] \in Quitting \cup {"leaving"} => inside

\* The bound on messages.
Bounded ==
  /\ \A l \in Gens : posted[l] <= MaxPost + 1
  /\ \A c \in Gens : at[Worker(c)] \in {"server", "message"} /\ lp # 0 => posted[lp] <= MaxPost

\* While only the application ends clients, what it works on lives.
AppAlone ==
  ~inside /\ (\A c \in Gens : ~over[c]) =>
    /\ at[App] \in {"join", "sending"} => client[this[App]] = "alive"
    /\ at[App] = "joinLooper" => looper[this[App]] = "alive"
    /\ at[App] = "beating" => rpc # 0
    /\ at[App] \in {"quitLooper", "joinLooper"} => rpc = 0
    /\ \A c \in Gens : at[Worker(c)] \notin {"none", "ended"} => lp # 0 \/ at[App] = "making"

\* Only the thread that holds the lock is in a callback.
HoldsLock ==
  ~relocked => \A g \in Gens :
    /\ at[Worker(g)] = "calling" => cb = Worker(g)
    /\ at[Looper(g)] \in {"calling", "leaving"} \cup Quitting => cb = Looper(g)

\* Who posts quit to a looper stays until it is deleted.
QuitIn(q) == \E k \in DOMAIN q : q[k] = QUIT
Awaited(l) == \E t \in Threads : at[t] \in {"joinLooper", "logoutJoin"} /\ this[t] = l
QuitAwaited ==
  \A l \in Gens :
    looper[l] = "alive" /\ (at[Looper(l)] = "ended" \/ QuitIn(queue[l])) => Awaited(l)

\* A queue holds the messages not handed yet, in order, and behind them only
\* quit.
Pending(q, last, all) ==
  /\ all - last \in Nat /\ all - last <= Len(q)
  /\ \A k \in DOMAIN q : q[k] = IF k <= all - last THEN last + k ELSE QUIT
InOrder == ~crossed => \A l \in Gens : Pending(queue[l], handed[l], posted[l])

\* No client works while a thread ends a looper.
NoClient ==
  ~crossed => \A t \in Threads : at[t] \in {"quitLooper", "joinLooper"} => rpc = 0

IInv ==
  /\ TypeOK /\ Pointers /\ Unmade /\ Targets
  /\ Handling /\ WorkersLive /\ LoopersLive /\ Bounded
  /\ AppAlone /\ HoldsLock /\ QuitAwaited /\ InOrder /\ NoClient /\ NothingLost

-----------------------------------------------------------------------------
\* The threads are told apart by their names.
LEMMA Apart ==
  /\ App \in Threads /\ NONE \notin Threads
  /\ \A g \in Gens : /\ Worker(g) \in Threads /\ Looper(g) \in Threads
                     /\ Worker(g) \in Workers /\ Looper(g) \in Loopers
                     /\ Worker(g) \notin Loopers /\ Looper(g) \notin Workers
                     /\ Worker(g) # App /\ Looper(g) # App /\ Worker(g)[2] = g /\ Looper(g)[2] = g
  /\ App \notin Workers /\ App \notin Loopers
  /\ \A g, h \in Gens : /\ Worker(g) # Looper(h)
                        /\ Worker(g) = Worker(h) => g = h
                        /\ Looper(g) = Looper(h) => g = h
  /\ \A t \in Threads : t = App \/ \E g \in Gens : t = Worker(g) \/ t = Looper(g)
  /\ \A t \in Workers : \E g \in Gens : t = Worker(g)
  /\ \A t \in Loopers : \E g \in Gens : t = Looper(g)
BY DEF App, Worker, Looper, Workers, Loopers, Threads, NONE, Gens

\* There are three kinds of threads.
LEMMA ThreadKinds ==
  ASSUME NEW t \in Threads
  PROVE  t = App \/ (\E g \in Gens : t = Worker(g)) \/ (\E g \in Gens : t = Looper(g))
BY Apart

\* TypeOK in parts: where the threads are, and the rest.
AtOK ==
  /\ DOMAIN at = Threads
  /\ at[App] \in Quitting \cup {"idle", "making", "sending", "beating"}
  /\ \A g \in Gens : at[Worker(g)] \in Quitting \cup Datagrams \cup
       {"none", "loop", "logoutJoin", "callback", "calling", "ended"}
  /\ \A g \in Gens : at[Looper(g)] \in Quitting \cup
       {"none", "waiting", "callback", "calling", "leaving", "ended"}
ObjectsOK ==
  /\ this \in [Threads -> Gens \cup {0}]
  /\ rpc \in Gens \cup {0} /\ lp \in Gens \cup {0}
  /\ client \in [Gens -> Lives] /\ looper \in [Gens -> Lives]
  /\ stop \in [Gens -> BOOLEAN] /\ over \in [Gens -> BOOLEAN]
  /\ transport \in [Gens -> 0 .. 2] /\ taken \in 0 .. 2
TrafficOK ==
  /\ queue \in [Gens -> Seq(0 .. MaxPost + MaxInit)]
  /\ posted \in [Gens -> 0 .. MaxPost + MaxInit]
  /\ handed \in [Gens -> 0 .. MaxPost + MaxInit]
LocksOK ==
  /\ cb \in Threads \cup {NONE} /\ relocked \in BOOLEAN /\ crossed \in BOOLEAN /\ inside \in BOOLEAN
  /\ fault \in Faults

\* These are TypeOK.
LEMMA TypeParts == TypeOK <=> AtOK /\ ObjectsOK /\ TrafficOK /\ LocksOK
<1>1. (\A t \in Workers : at[t] \in Quitting \cup Datagrams \cup
        {"none", "loop", "logoutJoin", "callback", "calling", "ended"})
      <=> \A g \in Gens : at[Worker(g)] \in Quitting \cup Datagrams \cup
        {"none", "loop", "logoutJoin", "callback", "calling", "ended"}
  BY DEF Workers
<1>2. (\A t \in Loopers : at[t] \in Quitting \cup
        {"none", "waiting", "callback", "calling", "leaving", "ended"})
      <=> \A g \in Gens : at[Looper(g)] \in Quitting \cup
        {"none", "waiting", "callback", "calling", "leaving", "ended"}
  BY DEF Loopers
<1> QED
  BY <1>1, <1>2 DEF TypeOK, AtOK, ObjectsOK, TrafficOK, LocksOK

\* The same of the next state.
LEMMA TypePartsNext == TypeOK' <=> AtOK' /\ ObjectsOK' /\ TrafficOK' /\ LocksOK'
BY TypeParts, PTL

\* What GoTo does, for each kind of thread.
AppMoved(place) ==
  /\ DOMAIN at' = Threads /\ at'[App] = place
  /\ \A t \in Threads : t # App => at'[t] = at[t]
  /\ \A g \in Gens : at'[Worker(g)] = at[Worker(g)] /\ at'[Looper(g)] = at[Looper(g)]
WorkerMoved(c, place) ==
  /\ DOMAIN at' = Threads /\ at'[Worker(c)] = place /\ at'[App] = at[App]
  /\ \A t \in Threads : t # Worker(c) => at'[t] = at[t]
  /\ \A g \in Gens : at'[Looper(g)] = at[Looper(g)] /\ (g # c => at'[Worker(g)] = at[Worker(g)])
LooperMoved(l, place) ==
  /\ DOMAIN at' = Threads /\ at'[Looper(l)] = place /\ at'[App] = at[App]
  /\ \A t \in Threads : t # Looper(l) => at'[t] = at[t]
  /\ \A g \in Gens : at'[Worker(g)] = at[Worker(g)] /\ (g # l => at'[Looper(g)] = at[Looper(g)])

\* The names of the other threads, seen from one of each kind.
LEMMA AppApart ==
  App \in Threads /\ \A h \in Gens : Worker(h) \in Threads /\ Looper(h) \in Threads /\ Worker(h) # App /\ Looper(h) # App
BY Apart
LEMMA WorkerApart ==
  ASSUME NEW g \in Gens
  PROVE  /\ Worker(g) \in Threads /\ App \in Threads /\ App # Worker(g)
         /\ \A h \in Gens : /\ Looper(h) \in Threads /\ Looper(h) # Worker(g)
                            /\ Worker(h) \in Threads /\ (h # g => Worker(h) # Worker(g))
<1>1. \A h \in Gens : h # g => Worker(h) # Worker(g)
  BY Apart
<1>2. \A h \in Gens : Looper(h) \in Threads /\ Looper(h) # Worker(g)
  BY Apart
<1> QED BY <1>1, <1>2, Apart
LEMMA LooperApart ==
  ASSUME NEW g \in Gens
  PROVE  /\ Looper(g) \in Threads /\ App \in Threads /\ App # Looper(g)
         /\ \A h \in Gens : /\ Worker(h) \in Threads /\ Worker(h) # Looper(g)
                            /\ Looper(h) \in Threads /\ (h # g => Looper(h) # Looper(g))
<1>1. \A h \in Gens : h # g => Looper(h) # Looper(g)
  BY Apart
<1>2. \A h \in Gens : Worker(h) \in Threads /\ Worker(h) # Looper(g)
  BY Apart
<1> QED BY <1>1, <1>2, Apart

\* GoTo moves one thread.
LEMMA AppGoes == ASSUME AtOK, NEW place, GoTo(App, place) PROVE AppMoved(place)
BY AppApart DEF AtOK, GoTo, AppMoved
LEMMA WorkerGoes ==
  ASSUME AtOK, NEW c \in Gens, NEW place, GoTo(Worker(c), place) PROVE WorkerMoved(c, place)
BY WorkerApart DEF AtOK, GoTo, WorkerMoved
LEMMA LooperGoes ==
  ASSUME AtOK, NEW l \in Gens, NEW place, GoTo(Looper(l), place) PROVE LooperMoved(l, place)
BY LooperApart DEF AtOK, GoTo, LooperMoved

\* Head and tail.
LEMMA SeqHeadTail ==
  ASSUME NEW S, NEW s \in Seq(S), s # << >>
  PROVE  /\ Head(s) \in S /\ Head(s) = s[1] /\ Tail(s) \in Seq(S)
         /\ Len(s) \in Nat /\ Len(s) >= 1 /\ Len(Tail(s)) = Len(s) - 1
         /\ \A k \in 1 .. Len(s) - 1 : Tail(s)[k] = s[k + 1]
OBVIOUS

\* The parts of TypeOK that a step leaves alone.
LEMMA TypeStays ==
  ASSUME IInv
  PROVE  /\ AtOK /\ ObjectsOK /\ TrafficOK /\ LocksOK
         /\ UNCHANGED <<this, rpc, lp, client, looper, stop, over, transport, taken>> => ObjectsOK'
         /\ UNCHANGED <<queue, posted, handed>> => TrafficOK'
         /\ UNCHANGED <<cb, relocked, crossed, inside, fault>> => LocksOK'
<1>1. AtOK /\ ObjectsOK /\ TrafficOK /\ LocksOK
  BY TypeParts DEF IInv
<1>2. UNCHANGED <<this, rpc, lp, client, looper, stop, over, transport, taken>> => ObjectsOK'
  BY <1>1 DEF ObjectsOK
<1>3. UNCHANGED <<queue, posted, handed>> => TrafficOK'
  BY <1>1 DEF TrafficOK
<1>4. UNCHANGED <<cb, relocked, crossed, inside, fault>> => LocksOK'
  BY <1>1 DEF LocksOK
<1> QED BY <1>1, <1>2, <1>3, <1>4

\* A looper stays awaited while those who wait for it stay.
LEMMA AwaitedStays ==
  ASSUME NEW l \in Gens, Awaited(l),
         \A t \in Threads : at[t] \in {"joinLooper", "logoutJoin"} /\ this[t] = l =>
                              at'[t] = at[t] /\ this'[t] = this[t]
  PROVE  Awaited(l)'
<1>1. PICK t \in Threads : at[t] \in {"joinLooper", "logoutJoin"} /\ this[t] = l
  BY DEF Awaited
<1>2. at'[t] \in {"joinLooper", "logoutJoin"} /\ this'[t] = l
  BY <1>1
<1> QED BY <1>2 DEF Awaited

\* A step that posts no quit and ends no looper.
LEMMA NoQuitPosted ==
  ASSUME QuitAwaited,
         \A t \in Threads : at[t] \in {"joinLooper", "logoutJoin"} /\ looper'[this[t]] = "alive" =>
                              at'[t] = at[t] /\ this'[t] = this[t],
         \A l \in Gens :
           looper'[l] = "alive" /\ (at'[Looper(l)] = "ended" \/ QuitIn(queue'[l])) =>
             looper[l] = "alive" /\ (at[Looper(l)] = "ended" \/ QuitIn(queue[l]))
  PROVE  QuitAwaited'
<1>1. ASSUME NEW l \in Gens, looper'[l] = "alive", at'[Looper(l)] = "ended" \/ QuitIn(queue'[l])
      PROVE  Awaited(l)'
  <2>1. Awaited(l)
    BY <1>1 DEF QuitAwaited
  <2> QED BY <1>1, <2>1, AwaitedStays
<1> QED BY <1>1 DEF QuitAwaited

\* A step that leaves queues alone and makes no looper.
LEMMA TrafficStays ==
  ASSUME IInv, UNCHANGED <<queue, posted, handed>>, crossed => crossed',
         \A t \in Threads : at[t] \in {"joinLooper", "logoutJoin"} /\ looper'[this[t]] = "alive" =>
                              at'[t] = at[t] /\ this'[t] = this[t],
         \A l \in Gens : looper'[l] = "alive" => looper[l] = "alive",
         \A l \in Gens : at'[Looper(l)] = "ended" => at[Looper(l)] = "ended"
  PROVE  QuitAwaited' /\ InOrder' /\ NothingLost'
<1>1. QuitAwaited'
  BY NoQuitPosted DEF IInv
<1>2. InOrder'
  BY DEF IInv, InOrder
<1>3. NothingLost'
  BY DEF IInv, NothingLost
<1> QED BY <1>1, <1>2, <1>3

\* The queue of a looper: what is posted goes behind, what is handed up comes
\* from the front.
LEMMA TakePending ==
  ASSUME NEW q \in Seq(Nat), NEW last \in Nat, NEW all \in Nat, Pending(q, last, all), q # << >>
  PROVE  /\ Head(q) = QUIT => last = all /\ Pending(Tail(q), last, all)
         /\ Head(q) # QUIT => Pending(Tail(q), Head(q), all)
<1>1. /\ Head(q) = q[1] /\ Len(q) \in Nat /\ Len(q) >= 1 /\ Tail(q) \in Seq(Nat)
      /\ Len(Tail(q)) = Len(q) - 1 /\ DOMAIN q = 1 .. Len(q) /\ DOMAIN Tail(q) = 1 .. Len(q) - 1
      /\ \A k \in 1 .. Len(q) - 1 : Tail(q)[k] = q[k + 1]
  OBVIOUS
<1>2. 1 \in DOMAIN q /\ \A k \in DOMAIN Tail(q) : k + 1 \in DOMAIN q /\ Tail(q)[k] = q[k + 1]
  BY <1>1
<1>3. ASSUME Head(q) = QUIT PROVE last = all /\ Pending(Tail(q), last, all)
  <2>1. q[1] = QUIT /\ ~ (1 <= all - last)
    BY <1>1, <1>2, <1>3 DEF Pending, QUIT
  <2>2. last = all
    BY <2>1 DEF Pending
  <2>3. \A k \in DOMAIN Tail(q) : Tail(q)[k] = QUIT /\ ~ (k <= all - last)
    BY <1>1, <1>2, <2>2 DEF Pending
  <2>4. Pending(Tail(q), last, all)
    BY <1>1, <2>2, <2>3 DEF Pending
  <2> QED BY <2>2, <2>4
<1>4. ASSUME Head(q) # QUIT PROVE Pending(Tail(q), Head(q), all)
  <2>1. 1 <= all - last /\ q[1] = last + 1
    BY <1>1, <1>2, <1>4 DEF Pending
  <2>2. Head(q) = last + 1
    BY <1>1, <2>1
  <2>3. \A k \in DOMAIN Tail(q) : Tail(q)[k] = IF k <= all - (last + 1) THEN last + 1 + k ELSE QUIT
    <3>1. \A k \in DOMAIN Tail(q) : k \in Nat /\ k + 1 \in DOMAIN q
      BY <1>1
    <3>2. \A k \in DOMAIN Tail(q) : Tail(q)[k] = IF k + 1 <= all - last THEN last + (k + 1) ELSE QUIT
      BY <1>2, <3>1 DEF Pending
    <3>3. \A k \in DOMAIN Tail(q) : (k + 1 <= all - last) <=> (k <= all - (last + 1))
      BY <3>1
    <3>4. \A k \in DOMAIN Tail(q) : last + (k + 1) = last + 1 + k
      BY <3>1
    <3> QED BY <3>2, <3>3, <3>4
  <2>4. all - (last + 1) \in Nat /\ all - (last + 1) <= Len(Tail(q))
    BY <1>1, <2>1 DEF Pending
  <2> QED BY <2>2, <2>3, <2>4 DEF Pending
<1> QED BY <1>3, <1>4

\* quit is in a queue before it is taken, and a message is not quit.
LEMMA TakeQuit ==
  ASSUME NEW q \in Seq(Nat), q # << >>
  PROVE  /\ Head(q) = QUIT => QuitIn(q)
         /\ QuitIn(Tail(q)) => QuitIn(q)
<1>1. /\ Head(q) = q[1] /\ 1 \in DOMAIN q
      /\ \A k \in DOMAIN Tail(q) : k + 1 \in DOMAIN q /\ Tail(q)[k] = q[k + 1]
  OBVIOUS
<1> QED BY <1>1 DEF QuitIn

LEMMA AppendQuit ==
  ASSUME NEW q \in Seq(Nat), NEW x \in Nat \ {QUIT}
  PROVE  QuitIn(Append(q, x)) => QuitIn(q)
<1>1. /\ DOMAIN q = 1 .. Len(q) /\ DOMAIN Append(q, x) = 1 .. Len(q) + 1 /\ Len(q) \in Nat
      /\ \A k \in 1 .. Len(q) : Append(q, x)[k] = q[k]
      /\ Append(q, x)[Len(q) + 1] = x
  OBVIOUS
<1>2. \A k \in 1 .. Len(q) + 1 : k \in 1 .. Len(q) \/ k = Len(q) + 1
  BY <1>1
<1> QED BY <1>1, <1>2 DEF QuitIn

\* A message goes behind messages, quit behind everything.
LEMMA AppendPending ==
  ASSUME NEW q \in Seq(Nat), NEW last \in Nat, NEW all \in Nat, Pending(q, last, all)
  PROVE  /\ Pending(Append(q, QUIT), last, all)
         /\ ~QuitIn(q) => Pending(Append(q, all + 1), last, all + 1)
<1>1. ASSUME NEW x \in Nat
      PROVE  /\ Len(q) \in Nat /\ DOMAIN q = 1 .. Len(q) /\ Len(Append(q, x)) = Len(q) + 1
             /\ DOMAIN Append(q, x) = 1 .. Len(q) + 1
             /\ \A k \in 1 .. Len(q) : Append(q, x)[k] = q[k]
             /\ Append(q, x)[Len(q) + 1] = x
  OBVIOUS
<1>2. Pending(Append(q, QUIT), last, all)
  <2>1. QUIT \in Nat
    BY DEF QUIT
  <2>2. \A k \in DOMAIN Append(q, QUIT) :
          Append(q, QUIT)[k] = IF k <= all - last THEN last + k ELSE QUIT
    BY <1>1, <2>1 DEF Pending
  <2> QED BY <1>1, <2>1, <2>2 DEF Pending
<1>3. ASSUME ~QuitIn(q) PROVE Pending(Append(q, all + 1), last, all + 1)
  <2>1. Len(q) = all - last
    <3>1. SUFFICES ASSUME Len(q) > all - last PROVE FALSE
      BY <1>1 DEF Pending
    <3>2. q[Len(q)] = QUIT /\ Len(q) \in DOMAIN q
      BY <1>1, <3>1 DEF Pending
    <3> QED BY <1>3, <3>2 DEF QuitIn
  <2>2. \A k \in DOMAIN Append(q, all + 1) :
          Append(q, all + 1)[k] = IF k <= (all + 1) - last THEN last + k ELSE QUIT
    <3> SUFFICES ASSUME NEW k \in DOMAIN Append(q, all + 1)
                 PROVE  Append(q, all + 1)[k] = last + k /\ k <= (all + 1) - last
      OBVIOUS
    <3>1. CASE k \in 1 .. Len(q)
      BY <1>1, <2>1, <3>1 DEF Pending
    <3>2. CASE k = Len(q) + 1
      BY <1>1, <2>1, <3>2
    <3> QED BY <1>1, <3>1, <3>2
  <2> QED BY <1>1, <2>1, <2>2 DEF Pending
<1> QED BY <1>2, <1>3

-----------------------------------------------------------------------------
(***************************************************************************)
(* Each action keeps IInv.                                                 *)
(***************************************************************************)

\* loop() takes the head of the queue: the next message, or quit behind all.
LEMMA LooperTakesKeeps == ASSUME IInv, NEW l \in Gens, LooperTakes(l) PROVE IInv'
<1>1. AtOK /\ ObjectsOK /\ TrafficOK /\ LocksOK
  BY TypeStays
<1>2. /\ at[Looper(l)] = "waiting" /\ queue[l] # << >>
      /\ UNCHANGED <<this, rpc, lp, client, looper, stop, over, transport, taken>>
      /\ UNCHANGED <<posted, cb, relocked, crossed, inside, fault>>
  BY DEF LooperTakes, objects, session, locks
<1>3. queue[l] \in Seq(0 .. MaxPost + MaxInit) /\ queue[l] \in Seq(Nat)
  BY <1>1 DEF TrafficOK
<1>4. PICK q \in Seq(0 .. MaxPost + MaxInit), h \in 0 .. MaxPost + MaxInit,
           place \in {"ended", "callback"} :
        /\ q = Tail(queue[l]) /\ queue' = [queue EXCEPT ![l] = q]
        /\ handed' = [handed EXCEPT ![l] = h]
        /\ \/ Head(queue[l]) = QUIT /\ place = "ended" /\ h = handed[l]
           \/ Head(queue[l]) # QUIT /\ place = "callback" /\ h = Head(queue[l])
        /\ LooperMoved(l, place)
  <2>1. Tail(queue[l]) \in Seq(0 .. MaxPost + MaxInit) /\ Head(queue[l]) \in 0 .. MaxPost + MaxInit
    BY <1>2, <1>3, SeqHeadTail
  <2>2. handed[l] \in 0 .. MaxPost + MaxInit /\ handed = [handed EXCEPT ![l] = handed[l]]
    BY <1>1 DEF TrafficOK
  <2>3. queue' = [queue EXCEPT ![l] = Tail(queue[l])]
    BY DEF LooperTakes
  <2>4. CASE Head(queue[l]) = QUIT
    <3>1. LooperMoved(l, "ended") /\ handed' = handed
      BY <1>1, <2>4, LooperGoes DEF LooperTakes
    <3> QED BY <2>1, <2>2, <2>3, <2>4, <3>1
  <2>5. CASE Head(queue[l]) # QUIT
    <3>1. LooperMoved(l, "callback") /\ handed' = [handed EXCEPT ![l] = Head(queue[l])]
      BY <1>1, <2>5, LooperGoes DEF LooperTakes
    <3> QED BY <2>1, <2>2, <2>3, <2>5, <3>1
  <2> QED BY <2>4, <2>5
<1>5. /\ queue'[l] = q /\ handed'[l] = h
      /\ \A g \in Gens : g # l => queue'[g] = queue[g] /\ handed'[g] = handed[g]
  BY <1>1, <1>4 DEF TrafficOK
<1>6. AtOK' /\ ObjectsOK' /\ LocksOK'
  BY <1>1, <1>2, <1>4, TypeStays DEF AtOK, LocksOK, LooperMoved
<1>7. TrafficOK'
  BY <1>1, <1>2, <1>4 DEF TrafficOK
<1>8. looper[l] # "unmade"
  BY <1>2 DEF IInv, Unmade
<1>9. Unmade'
  BY <1>2, <1>4, <1>5, <1>8 DEF IInv, Unmade, LooperMoved
<1>10. Pointers' /\ Targets'
  BY <1>1, <1>2, <1>4 DEF IInv, Pointers, Targets, LooperMoved
<1>11. Handling' /\ WorkersLive' /\ LoopersLive'
  BY <1>1, <1>2, <1>4 DEF IInv, AtOK, Handling, WorkersLive, LoopersLive, LooperMoved, Quitting, Datagrams
<1>12. Bounded'
  BY <1>2, <1>4 DEF IInv, Bounded, LooperMoved
<1>13. AppAlone'
  BY <1>1, <1>2, <1>4 DEF IInv, AppAlone, ObjectsOK, LooperMoved
<1>14. HoldsLock'
  BY <1>2, <1>4 DEF IInv, HoldsLock, LooperMoved, Quitting
<1>15. NoClient'
  BY <1>2, <1>4 DEF IInv, NoClient, LooperMoved
<1>16. QuitAwaited'
  <2>1. \A t \in Threads : t # Looper(l) => at'[t] = at[t] /\ this'[t] = this[t]
    BY <1>2, <1>4 DEF LooperMoved
  <2>2. (at'[Looper(l)] = "ended" => QuitIn(queue[l])) /\ (QuitIn(queue'[l]) => QuitIn(queue[l]))
    BY <1>2, <1>3, <1>4, <1>5, TakeQuit DEF LooperMoved
  <2>3. \A g \in Gens : at'[Looper(g)] = "ended" => at[Looper(g)] = "ended" \/ QuitIn(queue[g])
    BY <1>4, <2>2 DEF LooperMoved
  <2>4. \A g \in Gens : QuitIn(queue'[g]) => QuitIn(queue[g])
    BY <1>5, <2>2
  <2> QED BY <1>2, <2>1, <2>3, <2>4, NoQuitPosted, LooperApart DEF IInv
<1>17. InOrder' /\ NothingLost'
  <2>1. SUFFICES ASSUME ~crossed PROVE InOrder' /\ NothingLost'
    BY <1>2 DEF InOrder, NothingLost
  <2>2. Pending(queue[l], handed[l], posted[l]) /\ handed[l] \in Nat /\ posted[l] \in Nat
    BY <1>1, <2>1 DEF IInv, InOrder, TrafficOK
  <2>3. Pending(q, h, posted[l]) /\ (place = "ended" => h = posted[l])
    BY <1>2, <1>3, <1>4, <2>2, TakePending
  <2>4. InOrder'
    BY <1>2, <1>5, <2>1, <2>3 DEF IInv, InOrder
  <2>5. NothingLost'
    BY <1>2, <1>4, <1>5, <2>1, <2>3 DEF IInv, NothingLost, LooperMoved
  <2> QED BY <2>4, <2>5
<1> QED BY <1>6, <1>7, <1>9, <1>10, <1>11, <1>12, <1>13, <1>14, <1>15, <1>16, <1>17, TypePartsNext DEF IInv

\* A callback calls quit while it holds the lock.
LEMMA CallbackQuitKeeps == ASSUME IInv, NEW l \in Gens, CallbackQuit(l) PROVE IInv'
<1>1. AtOK
  BY TypeStays
<1>2. /\ at[Looper(l)] = "calling" /\ inside' = TRUE
      /\ UNCHANGED <<this, rpc, lp, client, looper, stop, over, transport, taken>>
      /\ UNCHANGED <<queue, posted, handed>>
      /\ UNCHANGED <<cb, relocked, crossed, fault>>
  BY DEF CallbackQuit, objects, session, traffic
<1>3. LooperMoved(l, "quit")
  BY <1>1, LooperGoes DEF CallbackQuit
<1>4. AtOK' /\ ObjectsOK' /\ TrafficOK' /\ LocksOK'
  <2>1. AtOK'
    BY <1>1, <1>2, <1>3 DEF AtOK, LooperMoved, Quitting
  <2>2. LocksOK'
    BY <1>2, TypeStays DEF LocksOK
  <2> QED BY <1>2, <2>1, <2>2, TypeStays
<1>5. Pointers' /\ Unmade' /\ Targets'
  BY <1>2, <1>3 DEF IInv, Pointers, Unmade, Targets, LooperMoved
<1>6. Handling' /\ WorkersLive' /\ LoopersLive'
  BY <1>2, <1>3 DEF IInv, Handling, WorkersLive, LoopersLive, LooperMoved
<1>7. Bounded'
  BY <1>2, <1>3 DEF IInv, Bounded, LooperMoved
<1>8. AppAlone'
  BY <1>1, <1>2, <1>3 DEF IInv, AppAlone, ObjectsOK, LooperMoved
<1>9. HoldsLock'
  BY <1>2, <1>3 DEF IInv, HoldsLock, LooperMoved, Quitting, Datagrams
<1>10. NoClient'
  BY <1>2, <1>3 DEF IInv, NoClient, LooperMoved, Datagrams
<1>11. QuitAwaited' /\ InOrder' /\ NothingLost'
  <2>1. \A t \in Threads : t # Looper(l) => at'[t] = at[t] /\ this'[t] = this[t]
    BY <1>1, <1>2, <1>3 DEF ObjectsOK, LooperMoved
  <2>2. \A g \in Gens : at'[Looper(g)] = "ended" => at[Looper(g)] = "ended"
    BY <1>2, <1>3 DEF LooperMoved
  <2> QED BY <1>2, <2>1, <2>2, TrafficStays, LooperApart
<1> QED BY <1>4, <1>5, <1>6, <1>7, <1>8, <1>9, <1>10, <1>11, TypePartsNext DEF IInv

\* zhw_bs_initialize: with a client already there, or a new one.
LEMMA InitializeKeeps == ASSUME IInv, Initialize PROVE IInv'
<1>1. /\ at[App] = "idle" /\ cb' = NONE /\ relocked' = (relocked \/ cb # NONE)
      /\ UNCHANGED <<this, lp, looper, stop, over, transport, taken>>
      /\ UNCHANGED <<queue, posted, handed>>
      /\ UNCHANGED <<inside, fault>>
  BY DEF Initialize, session, traffic
<1>2. AtOK /\ ObjectsOK /\ LocksOK
  BY TypeStays
<1>3. HoldsLock /\ ~relocked' => \A g \in Gens : /\ at[Worker(g)] # "calling"
                                              /\ at[Looper(g)] \notin {"calling", "leaving"} \cup Quitting
  <2>1. \A g \in Gens : Worker(g) # NONE /\ Looper(g) # NONE
    BY Apart
  <2> QED BY <1>1, <2>1 DEF HoldsLock
<1>4. CASE UNCHANGED <<rpc, client, at, crossed>>
  <2>1. AtOK' /\ ObjectsOK' /\ TrafficOK' /\ LocksOK'
    BY <1>1, <1>2, <1>4, TypeStays DEF AtOK, LocksOK
  <2>2. Pointers' /\ Unmade' /\ Targets' /\ Handling' /\ WorkersLive' /\ LoopersLive' /\ Bounded'
    BY <1>1, <1>4 DEF IInv, Pointers, Unmade, Targets, Handling, WorkersLive, LoopersLive, Bounded
  <2>3. AppAlone' /\ NoClient'
    BY <1>1, <1>4 DEF IInv, AppAlone, NoClient
  <2>4. HoldsLock'
    BY <1>4, <1>3 DEF IInv, HoldsLock
  <2>5. QuitAwaited' /\ InOrder' /\ NothingLost'
    BY <1>1, <1>4, TrafficStays
  <2> QED BY <2>1, <2>2, <2>3, <2>4, <2>5, TypePartsNext DEF IInv
<1>5. ASSUME NEW c \in Gens, rpc = 0, \A d \in Gens : (client[d] = "unmade") <=> (d >= c),
             rpc' = c, client' = [client EXCEPT ![c] = "alive"],
             crossed' = (crossed \/ \E t \in Threads \ {App} : at[t] \notin {"none", "ended"}),
             \/ UNCHANGED at
             \/ at' = [at EXCEPT ![Worker(c)] = "loop", ![App] = "making"]
      PROVE  IInv'
  <2>1. client[c] = "unmade" /\ at[Worker(c)] = "none"
    BY <1>5 DEF IInv, Unmade, Gens
  <2>2. /\ DOMAIN at' = Threads
        /\ \A t \in Threads : t # Worker(c) /\ t # App => at'[t] = at[t]
        /\ \A g \in Gens : at'[Looper(g)] = at[Looper(g)] /\ (g # c => at'[Worker(g)] = at[Worker(g)])
        /\ at'[Worker(c)] \in {"none", "loop"} /\ at'[App] \in {"idle", "making"}
        /\ at'[Worker(c)] = "loop" => at'[App] = "making"
    <3>1. CASE UNCHANGED at
      BY <1>1, <1>2, <2>1, <3>1 DEF AtOK
    <3>2. CASE at' = [at EXCEPT ![Worker(c)] = "loop", ![App] = "making"]
      <4>1. /\ DOMAIN at' = Threads
            /\ \A t \in Threads : at'[t] = IF t = App THEN "making" ELSE
                                          IF t = Worker(c) THEN "loop" ELSE at[t]
        BY <1>2, <3>2 DEF AtOK
      <4> QED BY <4>1, WorkerApart, AppApart
    <3> QED BY <1>5, <3>1, <3>2
  <2>3. AtOK'
    BY <1>2, <2>2 DEF AtOK
  <2>4. ObjectsOK' /\ LocksOK'
    BY <1>1, <1>2, <1>5 DEF ObjectsOK, LocksOK, Lives
  <2>5. Pointers'
    BY <1>1, <1>2, <1>5 DEF IInv, Pointers, ObjectsOK, Gens
  <2>6. Unmade' /\ Handling' /\ WorkersLive' /\ LoopersLive'
    BY <1>1, <1>2, <1>5, <2>2 DEF IInv, Unmade, Handling, WorkersLive, LoopersLive, ObjectsOK, Datagrams, Quitting, Gens
  <2>7. Targets'
    BY <1>1, <2>2 DEF IInv, Targets
  <2>8. Bounded'
    BY <1>1, <2>2 DEF IInv, Bounded
  <2>9. AppAlone'
    BY <1>1, <1>5, <2>2 DEF IInv, AppAlone, Gens
  <2>10. HoldsLock'
    BY <1>3, <2>2 DEF IInv, HoldsLock
  <2>11. NoClient'
    BY <1>5, <2>2 DEF NoClient
  <2>12. QuitAwaited' /\ InOrder' /\ NothingLost'
    <3>1. \A t \in Threads : at[t] \in {"joinLooper", "logoutJoin"} => at'[t] = at[t] /\ this'[t] = this[t]
      BY <1>1, <2>1, <2>2
    <3>2. crossed => crossed'
      BY <1>5
    <3> QED BY <1>1, <2>2, <3>1, <3>2, TrafficStays
  <2> QED BY <1>1, <2>3, <2>4, <2>5, <2>6, <2>7, <2>8, <2>9, <2>10, <2>11, <2>12, TypeStays, TypePartsNext DEF IInv
<1> QED BY <1>4, <1>5 DEF Initialize

\* ... and then the looper, which has no message yet.
LEMMA MakeLooperKeeps == ASSUME IInv, MakeLooper PROVE IInv'
<1>1. /\ at[App] = "making"
      /\ UNCHANGED <<this, rpc, client, stop, over, transport, taken>>
      /\ UNCHANGED <<queue, posted, handed>>
      /\ UNCHANGED <<cb, relocked, crossed, inside, fault>>
  BY DEF MakeLooper, session, traffic, locks
<1>2. AtOK /\ ObjectsOK /\ TrafficOK /\ LocksOK
  BY TypeStays
<1>3. CASE lp # 0 /\ GoTo(App, "idle") /\ UNCHANGED <<lp, looper>>
  <2>1. AppMoved("idle")
    BY <1>2, <1>3, AppGoes
  <2>2. AtOK' /\ ObjectsOK' /\ TrafficOK' /\ LocksOK'
    BY <1>1, <1>2, <1>3, <2>1, TypeStays DEF AtOK, AppMoved
  <2>3. Pointers' /\ Unmade' /\ Targets' /\ Handling' /\ WorkersLive' /\ LoopersLive' /\ Bounded'
    BY <1>1, <1>3, <2>1 DEF IInv, Pointers, Unmade, Targets, Handling, WorkersLive, LoopersLive, Bounded, AppMoved
  <2>4. AppAlone' /\ HoldsLock' /\ NoClient'
    BY <1>1, <1>3, <2>1 DEF IInv, AppAlone, HoldsLock, NoClient, AppMoved
  <2>5. QuitAwaited' /\ InOrder' /\ NothingLost'
    BY <1>1, <1>3, <2>1, TrafficStays DEF AppMoved
  <2> QED BY <2>2, <2>3, <2>4, <2>5, TypePartsNext DEF IInv
<1>4. ASSUME NEW l \in Gens, lp = 0, \A d \in Gens : (looper[d] = "unmade") <=> (d >= l),
             lp' = l, looper' = [looper EXCEPT ![l] = "alive"],
             at' = [at EXCEPT ![Looper(l)] = "waiting", ![App] = "idle"]
      PROVE  IInv'
  <2>1. looper[l] = "unmade"
    BY <1>4 DEF Gens
  <2>2. /\ DOMAIN at' = Threads
        /\ \A t \in Threads : t # Looper(l) /\ t # App => at'[t] = at[t]
        /\ \A g \in Gens : at'[Worker(g)] = at[Worker(g)] /\ (g # l => at'[Looper(g)] = at[Looper(g)])
        /\ at'[Looper(l)] = "waiting" /\ at'[App] = "idle"
    <3>1. /\ DOMAIN at' = Threads
          /\ \A t \in Threads : at'[t] = IF t = App THEN "idle" ELSE
                                        IF t = Looper(l) THEN "waiting" ELSE at[t]
      BY <1>2, <1>4 DEF AtOK
    <3> QED BY <3>1, LooperApart, AppApart
  <2>3. AtOK'
    BY <1>2, <2>2 DEF AtOK
  <2>4. ObjectsOK'
    BY <1>1, <1>2, <1>4 DEF ObjectsOK, Lives
  <2>5. Pointers'
    BY <1>1, <1>2, <1>4 DEF IInv, Pointers, ObjectsOK, Gens
  <2>6. Unmade'
    BY <1>1, <1>2, <1>4, <2>2 DEF IInv, Unmade, ObjectsOK
  <2>7. Handling' /\ WorkersLive'
    BY <1>1, <2>2 DEF IInv, Handling, WorkersLive
  <2>8. LoopersLive'
    BY <1>1, <1>2, <1>4, <2>2 DEF IInv, LoopersLive, ObjectsOK, Quitting
  <2>9. Targets'
    BY <1>1, <2>2 DEF IInv, Targets
  <2>10. Bounded'
    BY <1>1, <1>4, <2>1, <2>2 DEF IInv, Bounded, Unmade
  <2>11. AppAlone' /\ HoldsLock' /\ NoClient'
    <3>1. AppAlone'
      BY <1>1, <1>4, <2>2 DEF AppAlone, Gens
    <3>2. HoldsLock'
      BY <1>1, <2>2 DEF IInv, HoldsLock, Quitting
    <3>3. NoClient'
      BY <1>1, <2>2 DEF IInv, NoClient
    <3> QED BY <3>1, <3>2, <3>3
  <2>12. QuitAwaited'
    <3>1. \A t \in Threads : at[t] \in {"joinLooper", "logoutJoin"} => at'[t] = at[t] /\ this'[t] = this[t]
      BY <1>1, <2>1, <2>2 DEF IInv, Unmade
    <3>2. ~QuitIn(queue[l])
      BY <2>1 DEF IInv, Unmade, QuitIn
    <3>3. \A g \in Gens : g # l => looper'[g] = looper[g] /\ at'[Looper(g)] = at[Looper(g)]
      BY <1>2, <1>4, <2>2 DEF ObjectsOK
    <3> QED BY <1>1, <2>2, <3>1, <3>2, <3>3, NoQuitPosted DEF IInv
  <2>13. InOrder' /\ NothingLost'
    BY <1>1, <2>2 DEF IInv, InOrder, NothingLost
  <2> QED BY <1>1, <2>3, <2>4, <2>5, <2>6, <2>9, <2>8, <2>7, <2>10, <2>11, <2>12, <2>13, TypeStays, TypePartsNext DEF IInv
<1> QED BY <1>3, <1>4 DEF MakeLooper

\* What is appended.
LEMMA AppendIn ==
  ASSUME NEW S, NEW s \in Seq(S), NEW x \in S PROVE Append(s, x) \in Seq(S)
OBVIOUS

\* A worker that may post keeps the bound.
LEMMA PostKeeps ==
  ASSUME IInv, NEW c \in Gens, at[Worker(c)] \in {"server", "message"}, lp # 0,
         queue' = [queue EXCEPT ![lp] = Append(@, posted[lp] + 1)],
         posted' = [posted EXCEPT ![lp] = @ + 1], UNCHANGED <<handed, lp>>,
         WorkerMoved(c, "loop")
  PROVE  TrafficOK' /\ Bounded'
<1>1. TrafficOK /\ lp \in Gens
  BY TypeStays DEF ObjectsOK
<1>2. posted[lp] \in Nat /\ posted[lp] <= MaxPost
  BY <1>1 DEF IInv, Bounded, TrafficOK
<1>3. posted[lp] + 1 \in 0 .. MaxPost + MaxInit
  BY <1>2
<1>4. queue[lp] \in Seq(0 .. MaxPost + MaxInit)
  BY <1>1 DEF TrafficOK
<1>5. PICK q \in Seq(0 .. MaxPost + MaxInit) : queue' = [queue EXCEPT ![lp] = q]
  BY <1>3, <1>4, AppendIn
<1>6. TrafficOK'
  BY <1>1, <1>3, <1>5 DEF TrafficOK
<1>7. \A l \in Gens : posted'[l] <= MaxPost + 1
  BY <1>1, <1>2 DEF IInv, Bounded, TrafficOK
<1>8. \A d \in Gens : at'[Worker(d)] \notin {"server", "message"}
  BY DEF IInv, Handling, WorkerMoved, Datagrams
<1> QED BY <1>6, <1>7, <1>8 DEF Bounded

\* quit fits into a queue.
LEMMA QuitPosted ==
  ASSUME TrafficOK, NEW l \in Gens, queue' = [queue EXCEPT ![l] = Append(@, QUIT)],
         UNCHANGED <<posted, handed>>
  PROVE  TrafficOK'
<1>1. queue[l] \in Seq(0 .. MaxPost + MaxInit) /\ QUIT \in 0 .. MaxPost + MaxInit
  BY DEF TrafficOK, QUIT
<1>2. PICK q \in Seq(0 .. MaxPost + MaxInit) : queue' = [queue EXCEPT ![l] = q]
  BY <1>1, AppendIn
<1> QED BY <1>2 DEF TrafficOK

\* A message is posted only behind messages: while the worker of the client
\* handles a datagram nobody has asked the looper to quit.
LEMMA PostInOrder ==
  ASSUME IInv, NEW c \in Gens, at[Worker(c)] \in {"server", "message"}, lp # 0,
         queue' = [queue EXCEPT ![lp] = Append(@, posted[lp] + 1)],
         posted' = [posted EXCEPT ![lp] = @ + 1], UNCHANGED <<handed, looper, this, crossed>>,
         WorkerMoved(c, "loop")
  PROVE  QuitAwaited' /\ InOrder' /\ NothingLost'
<1>1. AtOK /\ ObjectsOK /\ TrafficOK /\ lp \in Gens /\ looper[lp] = "alive" /\ rpc = c
  BY TypeStays DEF ObjectsOK, IInv, Pointers, Handling, Datagrams
<1>2. /\ queue[lp] \in Seq(0 .. MaxPost + MaxInit) /\ queue[lp] \in Seq(Nat)
      /\ posted[lp] \in Nat /\ handed[lp] \in Nat
      /\ posted[lp] + 1 \in Nat \ {QUIT}
  BY <1>1 DEF TrafficOK, QUIT
<1>3. /\ queue'[lp] = Append(queue[lp], posted[lp] + 1) /\ posted'[lp] = posted[lp] + 1
      /\ \A g \in Gens : g # lp => queue'[g] = queue[g] /\ posted'[g] = posted[g]
  BY <1>1 DEF TrafficOK
<1>4. QuitAwaited'
  <2>1. \A g \in Gens : QuitIn(queue'[g]) => QuitIn(queue[g])
    BY <1>2, <1>3, AppendQuit
  <2>2. \A t \in Threads : at[t] \in {"joinLooper", "logoutJoin"} => at'[t] = at[t] /\ this'[t] = this[t]
    BY DEF WorkerMoved
  <2>3. \A g \in Gens : at'[Looper(g)] = at[Looper(g)]
    BY DEF WorkerMoved
  <2> QED BY <2>1, <2>2, <2>3, NoQuitPosted DEF IInv
<1>5. ASSUME ~crossed PROVE ~QuitIn(queue[lp]) /\ at[Looper(lp)] # "ended"
  <2>1. \A t \in Threads : at[t] # "joinLooper"
    BY <1>1, <1>5 DEF IInv, NoClient, Gens
  <2>2. \A t \in Threads : at[t] # "logoutJoin"
    <3>1. at[App] # "logoutJoin" /\ \A g \in Gens : at[Looper(g)] # "logoutJoin"
      BY <1>1 DEF AtOK, Quitting
    <3>2. \A g \in Gens : at[Worker(g)] # "logoutJoin"
      BY <1>1 DEF IInv, Handling
    <3> QED BY <3>1, <3>2, ThreadKinds
  <2>3. ~Awaited(lp)
    BY <2>1, <2>2 DEF Awaited
  <2> QED BY <1>1, <2>3 DEF IInv, QuitAwaited
<1>6. InOrder'
  <2>1. SUFFICES ASSUME ~crossed PROVE \A g \in Gens : Pending(queue'[g], handed'[g], posted'[g])
    BY DEF InOrder
  <2>2. Pending(queue'[lp], handed'[lp], posted'[lp])
    <3>1. Pending(queue[lp], handed[lp], posted[lp])
      BY <1>1, <2>1 DEF IInv, InOrder
    <3> QED BY <1>2, <1>3, <1>5, <2>1, <3>1, AppendPending
  <2>3. \A g \in Gens : g # lp => Pending(queue'[g], handed'[g], posted'[g])
    BY <1>3, <2>1 DEF IInv, InOrder
  <2> QED BY <2>2, <2>3
<1>7. NothingLost'
  BY <1>3, <1>5 DEF IInv, NothingLost, WorkerMoved
<1> QED BY <1>4, <1>6, <1>7

\* Who posts quit waits for the looper.
LEMMA QuitInOrder ==
  ASSUME IInv, lp # 0, queue' = [queue EXCEPT ![lp] = Append(@, QUIT)],
         UNCHANGED <<posted, handed, lp, looper, crossed>>,
         NEW u \in Threads, at[u] \notin {"joinLooper", "logoutJoin"},
         at'[u] \in {"joinLooper", "logoutJoin"}, this'[u] = lp,
         \A t \in Threads : t # u => at'[t] = at[t] /\ this'[t] = this[t]
  PROVE  QuitAwaited' /\ InOrder' /\ NothingLost'
<1>1. TrafficOK /\ lp \in Gens
  BY TypeStays DEF ObjectsOK
<1>2. queue[lp] \in Seq(0 .. MaxPost + MaxInit) /\ queue[lp] \in Seq(Nat)
      /\ posted[lp] \in Nat /\ handed[lp] \in Nat
  BY <1>1 DEF TrafficOK
<1>3. /\ queue'[lp] = Append(queue[lp], QUIT)
      /\ \A g \in Gens : g # lp => queue'[g] = queue[g]
  BY <1>1 DEF TrafficOK
<1>4. \A g \in Gens : at'[Looper(g)] = "ended" => at[Looper(g)] = "ended"
  BY LooperApart
<1>5. QuitAwaited'
  <2>1. Awaited(lp)'
    BY DEF Awaited
  <2>2. ASSUME NEW g \in Gens, g # lp, looper'[g] = "alive", at'[Looper(g)] = "ended" \/ QuitIn(queue'[g])
        PROVE  Awaited(g)'
    <3>1. Awaited(g)
      BY <1>3, <1>4, <2>2 DEF IInv, QuitAwaited
    <3>2. \A t \in Threads : at[t] \in {"joinLooper", "logoutJoin"} => at'[t] = at[t] /\ this'[t] = this[t]
      OBVIOUS
    <3> QED BY <3>1, <3>2, AwaitedStays
  <2> QED BY <2>1, <2>2 DEF QuitAwaited
<1>6. InOrder'
  <2>1. SUFFICES ASSUME ~crossed PROVE \A g \in Gens : Pending(queue'[g], handed'[g], posted'[g])
    BY DEF InOrder
  <2>2. Pending(queue'[lp], handed'[lp], posted'[lp])
    <3>1. Pending(queue[lp], handed[lp], posted[lp])
      BY <1>1, <2>1 DEF IInv, InOrder
    <3> QED BY <1>2, <1>3, <3>1, AppendPending
  <2>3. \A g \in Gens : g # lp => Pending(queue'[g], handed'[g], posted'[g])
    BY <1>3, <2>1 DEF IInv, InOrder
  <2> QED BY <2>2, <2>3
<1>7. NothingLost'
  BY <1>4 DEF IInv, NothingLost
<1> QED BY <1>5, <1>6, <1>7

\* The steps of the application and of the worker that touch no pointer.
LEMMA QuitKeeps == ASSUME IInv, Quit PROVE IInv'
<1>1. AtOK /\ ObjectsOK /\ TrafficOK /\ LocksOK
  BY TypeStays
<1>2. at[App] = "idle"
      /\ UNCHANGED <<this, rpc, lp, client, looper, stop, over, transport, taken>>
      /\ UNCHANGED <<queue, posted, handed>>
      /\ UNCHANGED <<cb, relocked, crossed, inside, fault>>
  BY DEF Quit, objects, session, traffic, locks
<1>3. PICK place \in {"quit"} : AppMoved(place)
  BY <1>1, AppGoes DEF Quit
<1>4. AtOK'
  BY <1>1, <1>2, <1>3 DEF AtOK, AppMoved, Quitting, Datagrams
<1>5. ObjectsOK' /\ TrafficOK' /\ LocksOK'
  BY <1>1, <1>2, TypeStays
<1>6. Pointers' /\ Unmade'
  BY <1>2, <1>3 DEF IInv, Pointers, Unmade, AppMoved, Quitting, Datagrams
<1>7. Targets'
  BY <1>1, <1>2, <1>3 DEF IInv, Targets, AppMoved, Quitting, Datagrams, ObjectsOK
<1>8. Handling' /\ LoopersLive'
  BY <1>2, <1>3 DEF IInv, Pointers, Handling, LoopersLive, AppMoved, Quitting, Datagrams
<1>9. WorkersLive'
  BY <1>1, <1>2, <1>3 DEF IInv, ObjectsOK, WorkersLive, AppMoved, Quitting, Datagrams
<1>10. Bounded'
  BY <1>1, <1>2, <1>3 DEF IInv, Bounded, TrafficOK, AppMoved
<1>11. AppAlone'
  BY <1>1, <1>2, <1>3 DEF IInv, AppAlone, ObjectsOK, AppMoved
<1>12. HoldsLock'
  BY <1>2, <1>3 DEF IInv, HoldsLock, AppMoved, Quitting, Datagrams
<1>13. NoClient'
  BY <1>2, <1>3 DEF IInv, NoClient, AppMoved, Datagrams
<1>14. QuitAwaited' /\ InOrder' /\ NothingLost'
  <2>1. \A t \in Threads : t # App => at'[t] = at[t] /\ this'[t] = this[t]
    BY <1>1, <1>2, <1>3 DEF ObjectsOK, AppMoved
  <2>2. \A l \in Gens : at'[Looper(l)] = "ended" => at[Looper(l)] = "ended"
    BY <1>2, <1>3 DEF AppMoved
  <2> QED BY <1>2, <2>1, <2>2, TrafficStays, AppApart
<1> QED BY <1>4, <1>5, <1>6, <1>7, <1>8, <1>9, <1>10, <1>11, <1>12, <1>13, <1>14, TypePartsNext DEF IInv

LEMMA BeginSendKeeps == ASSUME IInv, BeginSend PROVE IInv'
<1>1. AtOK /\ ObjectsOK /\ TrafficOK /\ LocksOK
  BY TypeStays
<1>2. at[App] = "idle" /\ rpc # 0
      /\ UNCHANGED <<rpc, lp, client, looper, stop, over, transport>>
      /\ UNCHANGED <<queue, posted, handed>>
      /\ UNCHANGED <<cb, relocked, crossed, inside, fault>>
  BY DEF BeginSend, objects, session, traffic, locks
<1>3. PICK place \in {"sending", "beating"} :
        /\ AppMoved(place)
        /\ \/ taken' = transport[rpc] /\ this' = [this EXCEPT ![App] = rpc]
           \/ place = "beating" /\ UNCHANGED <<this, taken>>
  BY <1>1, AppGoes DEF BeginSend
<1>4. AtOK'
  BY <1>1, <1>2, <1>3 DEF AtOK, AppMoved, Quitting, Datagrams
<1>5. ObjectsOK' /\ TrafficOK' /\ LocksOK'
  BY <1>1, <1>2, <1>3, AppApart, TypeStays DEF ObjectsOK
<1>6. Pointers' /\ Unmade'
  BY <1>2, <1>3 DEF IInv, Pointers, Unmade, AppMoved
<1>7. Targets'
  <2>1. \A t \in Threads : t # App => this'[t] = this[t]
    BY <1>1, <1>3 DEF ObjectsOK
  <2>2. at'[App] = "sending" => this'[App] \in Gens
    BY <1>1, <1>2, <1>3, AppApart DEF ObjectsOK, AppMoved
  <2>3. at'[App] \notin {"join", "joinLooper", "logoutJoin"}
    BY <1>3 DEF AppMoved
  <2> QED BY <1>3, <2>1, <2>2, <2>3, WorkerApart DEF IInv, Targets, AppMoved
<1>8. Handling' /\ LoopersLive'
  BY <1>2, <1>3 DEF IInv, Pointers, Handling, LoopersLive, AppMoved, Quitting, Datagrams
<1>9. WorkersLive'
  BY <1>1, <1>2, <1>3 DEF IInv, ObjectsOK, WorkersLive, AppMoved, Quitting, Datagrams
<1>10. Bounded'
  BY <1>1, <1>2, <1>3 DEF IInv, Bounded, TrafficOK, AppMoved
<1>11. AppAlone'
  <2>1. client[rpc] = "alive"
    BY <1>1, <1>2 DEF IInv, Pointers, ObjectsOK
  <2>2. place = "sending" => this'[App] = rpc
    BY <1>1, <1>3, AppApart DEF ObjectsOK
  <2> QED BY <1>2, <1>3, <2>1, <2>2 DEF IInv, AppAlone, AppMoved
<1>12. HoldsLock'
  BY <1>2, <1>3 DEF IInv, HoldsLock, AppMoved, Quitting, Datagrams
<1>13. NoClient'
  BY <1>2, <1>3 DEF IInv, NoClient, AppMoved, Datagrams
<1>14. QuitAwaited' /\ InOrder' /\ NothingLost'
  <2>1. \A t \in Threads : t # App => at'[t] = at[t] /\ this'[t] = this[t]
    BY <1>1, <1>2, <1>3 DEF ObjectsOK, AppMoved
  <2>2. \A l \in Gens : at'[Looper(l)] = "ended" => at[Looper(l)] = "ended"
    BY <1>2, <1>3 DEF AppMoved
  <2> QED BY <1>2, <2>1, <2>2, TrafficStays, AppApart
<1> QED BY <1>4, <1>5, <1>6, <1>7, <1>8, <1>9, <1>10, <1>11, <1>12, <1>13, <1>14, TypePartsNext DEF IInv

LEMMA EndSendKeeps == ASSUME IInv, EndSend PROVE IInv'
<1>1. AtOK /\ ObjectsOK /\ TrafficOK /\ LocksOK
  BY TypeStays
<1>2. at[App] \in {"sending", "beating"}
      /\ UNCHANGED <<rpc, lp, client, looper, stop, over, transport>>
      /\ UNCHANGED <<queue, posted, handed>>
      /\ UNCHANGED <<cb, relocked, crossed, inside, fault>>
      /\ taken' = 0 /\ this' = [this EXCEPT ![App] = 0]
  BY DEF EndSend, objects, session, traffic, locks
<1>3. PICK place \in {"idle"} : AppMoved(place)
  BY <1>1, AppGoes DEF EndSend
<1>4. AtOK'
  BY <1>1, <1>2, <1>3 DEF AtOK, AppMoved, Quitting, Datagrams
<1>5. ObjectsOK' /\ TrafficOK' /\ LocksOK'
  <2>1. this' \in [Threads -> Gens \cup {0}]
    BY <1>1, <1>2 DEF ObjectsOK
  <2>2. ObjectsOK'
    BY <1>1, <1>2, <2>1 DEF ObjectsOK
  <2> QED BY <1>2, <2>2, TypeStays
<1>6. Pointers' /\ Unmade'
  BY <1>2, <1>3 DEF IInv, Pointers, Unmade, AppMoved, Quitting, Datagrams
<1>7. Targets'
  BY <1>1, <1>2, <1>3, AppApart DEF IInv, Targets, AppMoved, ObjectsOK
<1>8. Handling' /\ LoopersLive'
  BY <1>2, <1>3 DEF IInv, Pointers, Handling, LoopersLive, AppMoved, Quitting, Datagrams
<1>9. WorkersLive'
  BY <1>1, <1>2, <1>3 DEF IInv, ObjectsOK, WorkersLive, AppMoved, Quitting, Datagrams
<1>10. Bounded'
  BY <1>1, <1>2, <1>3 DEF IInv, Bounded, TrafficOK, AppMoved
<1>11. AppAlone'
  BY <1>1, <1>2, <1>3 DEF IInv, AppAlone, ObjectsOK, AppMoved
<1>12. HoldsLock'
  BY <1>2, <1>3 DEF IInv, HoldsLock, AppMoved, Quitting, Datagrams
<1>13. NoClient'
  BY <1>2, <1>3 DEF IInv, NoClient, AppMoved, Datagrams
<1>14. QuitAwaited' /\ InOrder' /\ NothingLost'
  <2>1. \A t \in Threads : t # App => at'[t] = at[t] /\ this'[t] = this[t]
    BY <1>1, <1>2, <1>3 DEF ObjectsOK, AppMoved
  <2>2. \A l \in Gens : at'[Looper(l)] = "ended" => at[Looper(l)] = "ended"
    BY <1>2, <1>3 DEF AppMoved
  <2> QED BY <1>2, <2>1, <2>2, TrafficStays, AppApart
<1> QED BY <1>4, <1>5, <1>6, <1>7, <1>8, <1>9, <1>10, <1>11, <1>12, <1>13, <1>14, TypePartsNext DEF IInv

LEMMA LeaveKeeps == ASSUME IInv, NEW c \in Gens, Leave(c) PROVE IInv'
<1>1. AtOK /\ ObjectsOK /\ TrafficOK /\ LocksOK
  BY TypeStays
<1>2. at[Worker(c)] = "loop"
      /\ UNCHANGED <<this, rpc, lp, client, looper, stop, over, transport, taken>>
      /\ UNCHANGED <<queue, posted, handed>>
      /\ UNCHANGED <<cb, relocked, crossed, inside, fault>>
  BY DEF Leave, objects, session, traffic, locks
<1>3. PICK place \in {"ended"} : WorkerMoved(c, place)
  BY <1>1, WorkerGoes DEF Leave
<1>4. AtOK'
  BY <1>1, <1>2, <1>3 DEF AtOK, WorkerMoved, Quitting, Datagrams
<1>5. ObjectsOK' /\ TrafficOK' /\ LocksOK'
  BY <1>1, <1>2, TypeStays
<1>6. Pointers' /\ Unmade'
  BY <1>2, <1>3 DEF IInv, Pointers, Unmade, WorkerMoved, Quitting, Datagrams
<1>7. Targets'
  BY <1>1, <1>2, <1>3 DEF IInv, Targets, WorkerMoved, Quitting, Datagrams, ObjectsOK
<1>8. Handling' /\ LoopersLive'
  BY <1>2, <1>3 DEF IInv, Pointers, Handling, LoopersLive, WorkerMoved, Quitting, Datagrams
<1>9. WorkersLive'
  BY <1>1, <1>2, <1>3 DEF IInv, ObjectsOK, WorkersLive, WorkerMoved, Quitting, Datagrams
<1>10. Bounded'
  BY <1>1, <1>2, <1>3 DEF IInv, Bounded, TrafficOK, WorkerMoved
<1>11. AppAlone'
  BY <1>1, <1>2, <1>3 DEF IInv, AppAlone, ObjectsOK, WorkerMoved
<1>12. HoldsLock'
  BY <1>2, <1>3 DEF IInv, HoldsLock, WorkerMoved, Quitting, Datagrams
<1>13. NoClient'
  BY <1>2, <1>3 DEF IInv, NoClient, WorkerMoved, Datagrams
<1>14. QuitAwaited' /\ InOrder' /\ NothingLost'
  <2>1. \A t \in Threads : t # Worker(c) => at'[t] = at[t] /\ this'[t] = this[t]
    BY <1>1, <1>2, <1>3 DEF ObjectsOK, WorkerMoved
  <2>2. \A l \in Gens : at'[Looper(l)] = "ended" => at[Looper(l)] = "ended"
    BY <1>2, <1>3 DEF WorkerMoved
  <2> QED BY <1>2, <2>1, <2>2, TrafficStays, WorkerApart
<1> QED BY <1>4, <1>5, <1>6, <1>7, <1>8, <1>9, <1>10, <1>11, <1>12, <1>13, <1>14, TypePartsNext DEF IInv

LEMMA ReceiveKeeps == ASSUME IInv, NEW c \in Gens, Receive(c) PROVE IInv'
<1>1. AtOK /\ ObjectsOK /\ TrafficOK /\ LocksOK
  BY TypeStays
<1>2. at[Worker(c)] = "loop" /\ client[c] = "alive"
      /\ UNCHANGED <<this, rpc, lp, client, looper, stop, over, transport, taken>>
      /\ UNCHANGED <<queue, posted, handed>>
      /\ UNCHANGED <<cb, relocked, crossed, inside, fault>>
  BY DEF Receive, objects, session, traffic, locks
<1>3. PICK place \in Datagrams :
        /\ WorkerMoved(c, place)
        /\ lp # 0 /\ place \in {"server", "message"} => posted[lp] < MaxPost
  <2>1. PICK place \in Arriving : GoTo(Worker(c), place)
    BY DEF Receive
  <2>2. lp # 0 /\ place \in {"server", "message"} => ~ (posted[lp] >= MaxPost)
    BY <2>1 DEF Arriving
  <2>3. lp # 0 => lp \in Gens /\ posted[lp] \in Nat
    BY <1>1 DEF ObjectsOK, TrafficOK
  <2>4. place \in Datagrams
    BY <2>1 DEF Arriving
  <2> QED BY <1>1, <2>1, <2>2, <2>3, <2>4, WorkerGoes
<1>4. AtOK'
  BY <1>1, <1>2, <1>3 DEF AtOK, WorkerMoved, Quitting, Datagrams
<1>5. ObjectsOK' /\ TrafficOK' /\ LocksOK'
  BY <1>1, <1>2, TypeStays
<1>6. Pointers' /\ Unmade'
  BY <1>2, <1>3 DEF IInv, Pointers, Unmade, WorkerMoved, Quitting, Datagrams
<1>7. Targets'
  BY <1>1, <1>2, <1>3 DEF IInv, Targets, WorkerMoved, Quitting, Datagrams, ObjectsOK
<1>8. Handling' /\ LoopersLive'
  BY <1>2, <1>3 DEF IInv, Pointers, Handling, LoopersLive, WorkerMoved, Quitting, Datagrams
<1>9. WorkersLive'
  BY <1>1, <1>2, <1>3 DEF IInv, ObjectsOK, WorkersLive, WorkerMoved, Quitting, Datagrams
<1>10. Bounded'
  <2>1. lp # 0 => lp \in Gens /\ posted[lp] \in Nat
    BY <1>1 DEF ObjectsOK, TrafficOK
  <2> QED BY <1>2, <1>3, <2>1 DEF IInv, Bounded, WorkerMoved
<1>11. AppAlone'
  BY <1>1, <1>2, <1>3 DEF IInv, AppAlone, ObjectsOK, WorkerMoved
<1>12. HoldsLock'
  BY <1>2, <1>3 DEF IInv, HoldsLock, WorkerMoved, Quitting, Datagrams
<1>13. NoClient'
  BY <1>2, <1>3 DEF IInv, NoClient, WorkerMoved, Datagrams
<1>14. QuitAwaited' /\ InOrder' /\ NothingLost'
  <2>1. \A t \in Threads : t # Worker(c) => at'[t] = at[t] /\ this'[t] = this[t]
    BY <1>1, <1>2, <1>3 DEF ObjectsOK, WorkerMoved
  <2>2. \A l \in Gens : at'[Looper(l)] = "ended" => at[Looper(l)] = "ended"
    BY <1>2, <1>3 DEF WorkerMoved
  <2> QED BY <1>2, <2>1, <2>2, TrafficStays, WorkerApart
<1> QED BY <1>4, <1>5, <1>6, <1>7, <1>8, <1>9, <1>10, <1>11, <1>12, <1>13, <1>14, TypePartsNext DEF IInv

LEMMA ProcLoginKeeps == ASSUME IInv, NEW c \in Gens, ProcLogin(c) PROVE IInv'
<1>1. AtOK /\ ObjectsOK /\ TrafficOK /\ LocksOK
  BY TypeStays
<1>2. at[Worker(c)] = "login"
      /\ UNCHANGED <<this, rpc, lp, client, looper, over, transport, taken>>
      /\ UNCHANGED <<queue, posted, handed>>
      /\ UNCHANGED <<cb, relocked, crossed, inside, fault>>
      /\ stop' = [stop EXCEPT ![c] = FALSE]
  BY DEF ProcLogin, objects, session, traffic, locks
<1>3. PICK place \in {"loop"} : WorkerMoved(c, place)
  BY <1>1, WorkerGoes DEF ProcLogin
<1>4. AtOK'
  BY <1>1, <1>2, <1>3 DEF AtOK, WorkerMoved, Quitting, Datagrams
<1>5. ObjectsOK' /\ TrafficOK' /\ LocksOK'
  BY <1>1, <1>2, TypeStays DEF ObjectsOK
<1>6. Pointers' /\ Unmade'
  BY <1>2, <1>3 DEF IInv, Pointers, Unmade, WorkerMoved, Quitting, Datagrams
<1>7. Targets'
  BY <1>1, <1>2, <1>3 DEF IInv, Targets, WorkerMoved, Quitting, Datagrams, ObjectsOK
<1>8. Handling' /\ LoopersLive'
  BY <1>2, <1>3 DEF IInv, Pointers, Handling, LoopersLive, WorkerMoved, Quitting, Datagrams
<1>9. WorkersLive'
  BY <1>1, <1>2, <1>3 DEF IInv, ObjectsOK, WorkersLive, WorkerMoved, Quitting, Datagrams
<1>10. Bounded'
  BY <1>1, <1>2, <1>3 DEF IInv, Bounded, TrafficOK, WorkerMoved
<1>11. AppAlone'
  BY <1>1, <1>2, <1>3 DEF IInv, AppAlone, ObjectsOK, WorkerMoved
<1>12. HoldsLock'
  BY <1>2, <1>3 DEF IInv, HoldsLock, WorkerMoved, Quitting, Datagrams
<1>13. NoClient'
  BY <1>2, <1>3 DEF IInv, NoClient, WorkerMoved, Datagrams
<1>14. QuitAwaited' /\ InOrder' /\ NothingLost'
  <2>1. \A t \in Threads : t # Worker(c) => at'[t] = at[t] /\ this'[t] = this[t]
    BY <1>1, <1>2, <1>3 DEF ObjectsOK, WorkerMoved
  <2>2. \A l \in Gens : at'[Looper(l)] = "ended" => at[Looper(l)] = "ended"
    BY <1>2, <1>3 DEF WorkerMoved
  <2> QED BY <1>2, <2>1, <2>2, TrafficStays, WorkerApart
<1> QED BY <1>4, <1>5, <1>6, <1>7, <1>8, <1>9, <1>10, <1>11, <1>12, <1>13, <1>14, TypePartsNext DEF IInv

LEMMA ProcRefusedKeeps == ASSUME IInv, NEW c \in Gens, ProcRefused(c) PROVE IInv'
<1>1. AtOK /\ ObjectsOK /\ TrafficOK /\ LocksOK
  BY TypeStays
<1>2. at[Worker(c)] = "refused"
      /\ UNCHANGED <<this, rpc, lp, client, looper, transport, taken>>
      /\ UNCHANGED <<queue, posted, handed>>
      /\ UNCHANGED <<cb, relocked, crossed, inside, fault>>
      /\ over' = [over EXCEPT ![c] = TRUE]
      /\ \E s \in BOOLEAN : stop' = [stop EXCEPT ![c] = s]
  BY DEF ProcRefused, objects, session, traffic, locks
<1>3. PICK place \in {"quit"} : WorkerMoved(c, place)
  BY <1>1, WorkerGoes DEF ProcRefused
<1>4. AtOK'
  BY <1>1, <1>2, <1>3 DEF AtOK, WorkerMoved, Quitting, Datagrams
<1>5. ObjectsOK' /\ TrafficOK' /\ LocksOK'
  BY <1>1, <1>2, TypeStays DEF ObjectsOK
<1>6. Pointers' /\ Unmade'
  BY <1>2, <1>3 DEF IInv, Pointers, Unmade, WorkerMoved, Quitting, Datagrams
<1>7. Targets'
  BY <1>1, <1>2, <1>3 DEF IInv, Targets, WorkerMoved, Quitting, Datagrams, ObjectsOK
<1>8. Handling' /\ LoopersLive'
  BY <1>2, <1>3 DEF IInv, Pointers, Handling, LoopersLive, WorkerMoved, Quitting, Datagrams
<1>9. WorkersLive'
  BY <1>1, <1>2, <1>3 DEF IInv, ObjectsOK, WorkersLive, WorkerMoved, Quitting, Datagrams
<1>10. Bounded'
  BY <1>1, <1>2, <1>3 DEF IInv, Bounded, TrafficOK, WorkerMoved
<1>11. AppAlone'
  BY <1>1, <1>2, <1>3 DEF IInv, AppAlone, ObjectsOK, WorkerMoved
<1>12. HoldsLock'
  BY <1>2, <1>3 DEF IInv, HoldsLock, WorkerMoved, Quitting, Datagrams
<1>13. NoClient'
  BY <1>2, <1>3 DEF IInv, NoClient, WorkerMoved, Datagrams
<1>14. QuitAwaited' /\ InOrder' /\ NothingLost'
  <2>1. \A t \in Threads : t # Worker(c) => at'[t] = at[t] /\ this'[t] = this[t]
    BY <1>1, <1>2, <1>3 DEF ObjectsOK, WorkerMoved
  <2>2. \A l \in Gens : at'[Looper(l)] = "ended" => at[Looper(l)] = "ended"
    BY <1>2, <1>3 DEF WorkerMoved
  <2> QED BY <1>2, <2>1, <2>2, TrafficStays, WorkerApart
<1> QED BY <1>4, <1>5, <1>6, <1>7, <1>8, <1>9, <1>10, <1>11, <1>12, <1>13, <1>14, TypePartsNext DEF IInv

\* The steps that post.
LEMMA ProcServerLoginKeeps == ASSUME IInv, NEW c \in Gens, ProcServerLogin(c) PROVE IInv'
<1>1. AtOK /\ ObjectsOK /\ TrafficOK /\ LocksOK
  BY TypeStays
<1>2. at[Worker(c)] = "server" /\ lp # 0
      /\ UNCHANGED <<this, rpc, lp, client, looper, stop, over, taken>>
      /\ UNCHANGED <<handed>>
      /\ UNCHANGED <<cb, relocked, crossed, inside, fault>>
      /\ transport' = [transport EXCEPT ![c] = IF @ = 1 THEN 2 ELSE 1]
      /\ queue' = [queue EXCEPT ![lp] = Append(@, posted[lp] + 1)]
      /\ posted' = [posted EXCEPT ![lp] = @ + 1]
  BY DEF ProcServerLogin, post, addmsg, objects, session, traffic, locks
<1>3. PICK place \in {"loop"} : WorkerMoved(c, place)
  BY <1>1, WorkerGoes DEF ProcServerLogin, post, addmsg
<1>4. AtOK'
  BY <1>1, <1>2, <1>3 DEF AtOK, WorkerMoved, Quitting, Datagrams
<1>5. ObjectsOK' /\ TrafficOK' /\ LocksOK'
  <2>1. ObjectsOK'
    BY <1>1, <1>2 DEF ObjectsOK
  <2> QED BY <1>2, <1>3, <2>1, PostKeeps, TypeStays
<1>6. Pointers' /\ Unmade'
  BY <1>2, <1>3 DEF IInv, Pointers, Unmade, WorkerMoved, Quitting, Datagrams
<1>7. Targets'
  BY <1>1, <1>2, <1>3 DEF IInv, Targets, WorkerMoved, Quitting, Datagrams, ObjectsOK
<1>8. Handling' /\ LoopersLive'
  BY <1>2, <1>3 DEF IInv, Pointers, Handling, LoopersLive, WorkerMoved, Quitting, Datagrams
<1>9. WorkersLive'
  BY <1>1, <1>2, <1>3 DEF IInv, ObjectsOK, WorkersLive, WorkerMoved, Quitting, Datagrams
<1>10. Bounded'
  BY <1>2, <1>3, PostKeeps
<1>11. AppAlone'
  BY <1>1, <1>2, <1>3 DEF IInv, AppAlone, ObjectsOK, WorkerMoved
<1>12. HoldsLock' /\ NoClient'
  BY <1>2, <1>3 DEF IInv, HoldsLock, NoClient, WorkerMoved
<1>13. QuitAwaited' /\ InOrder' /\ NothingLost'
  BY <1>2, <1>3, PostInOrder
<1> QED BY <1>4, <1>5, <1>6, <1>7, <1>8, <1>9, <1>10, <1>11, <1>12, <1>13, TypePartsNext DEF IInv

LEMMA ProcMessageKeeps == ASSUME IInv, NEW c \in Gens, ProcMessage(c) PROVE IInv'
<1>1. AtOK /\ ObjectsOK /\ TrafficOK /\ LocksOK
  BY TypeStays
<1>2. at[Worker(c)] = "message" /\ lp # 0
      /\ UNCHANGED <<this, rpc, lp, client, looper, stop, over, transport, taken>>
      /\ UNCHANGED <<handed>>
      /\ UNCHANGED <<cb, relocked, crossed, inside, fault>>
      /\ queue' = [queue EXCEPT ![lp] = Append(@, posted[lp] + 1)]
      /\ posted' = [posted EXCEPT ![lp] = @ + 1]
  BY DEF ProcMessage, post, addmsg, objects, session, traffic, locks
<1>3. PICK place \in {"loop"} : WorkerMoved(c, place)
  BY <1>1, WorkerGoes DEF ProcMessage, post, addmsg
<1>4. AtOK'
  BY <1>1, <1>2, <1>3 DEF AtOK, WorkerMoved, Quitting, Datagrams
<1>5. ObjectsOK' /\ TrafficOK' /\ LocksOK'
  BY <1>2, <1>3, PostKeeps, TypeStays
<1>6. Pointers' /\ Unmade'
  BY <1>2, <1>3 DEF IInv, Pointers, Unmade, WorkerMoved, Quitting, Datagrams
<1>7. Targets'
  BY <1>1, <1>2, <1>3 DEF IInv, Targets, WorkerMoved, Quitting, Datagrams, ObjectsOK
<1>8. Handling' /\ LoopersLive'
  BY <1>2, <1>3 DEF IInv, Pointers, Handling, LoopersLive, WorkerMoved, Quitting, Datagrams
<1>9. WorkersLive'
  BY <1>1, <1>2, <1>3 DEF IInv, ObjectsOK, WorkersLive, WorkerMoved, Quitting, Datagrams
<1>10. Bounded'
  BY <1>2, <1>3, PostKeeps
<1>11. AppAlone'
  BY <1>1, <1>2, <1>3 DEF IInv, AppAlone, ObjectsOK, WorkerMoved
<1>12. HoldsLock' /\ NoClient'
  BY <1>2, <1>3 DEF IInv, HoldsLock, NoClient, WorkerMoved
<1>13. QuitAwaited' /\ InOrder' /\ NothingLost'
  BY <1>2, <1>3, PostInOrder
<1> QED BY <1>4, <1>5, <1>6, <1>7, <1>8, <1>9, <1>10, <1>11, <1>12, <1>13, TypePartsNext DEF IInv

\* zhw_bs_recv_logout.
LEMMA ProcLogoutCmdKeeps == ASSUME IInv, NEW c \in Gens, ProcLogoutCmd(c) PROVE IInv'
<1>1. AtOK /\ ObjectsOK /\ TrafficOK /\ LocksOK
  BY TypeStays
<1>2. at[Worker(c)] = "logout" /\ lp # 0
      /\ UNCHANGED <<rpc, lp, client, looper, transport, taken>>
      /\ UNCHANGED <<posted, handed>>
      /\ UNCHANGED <<cb, relocked, crossed, inside, fault>>
      /\ stop' = [stop EXCEPT ![c] = TRUE] /\ over' = [over EXCEPT ![c] = TRUE]
      /\ queue' = [queue EXCEPT ![lp] = Append(@, QUIT)]
      /\ this' = [this EXCEPT ![Worker(c)] = lp]
  BY DEF ProcLogoutCmd, addmsg, objects, session, traffic, locks
<1>3. PICK place \in {"logoutJoin"} : WorkerMoved(c, place)
  BY <1>1, WorkerGoes DEF ProcLogoutCmd, addmsg
<1>4. AtOK'
  BY <1>1, <1>2, <1>3 DEF AtOK, WorkerMoved, Quitting, Datagrams
<1>5. ObjectsOK' /\ TrafficOK' /\ LocksOK'
  <2>1. ObjectsOK'
    BY <1>1, <1>2 DEF ObjectsOK
  <2>2. TrafficOK'
    BY <1>1, <1>2, QuitPosted DEF ObjectsOK
  <2> QED BY <1>2, <2>1, <2>2, TypeStays
<1>6. Pointers' /\ Unmade'
  BY <1>2, <1>3 DEF IInv, Pointers, Unmade, WorkerMoved, Quitting, Datagrams
<1>7. Targets'
  BY <1>1, <1>2, <1>3 DEF IInv, Targets, WorkerMoved, Quitting, Datagrams, ObjectsOK
<1>8. Handling' /\ LoopersLive'
  BY <1>2, <1>3 DEF IInv, Pointers, Handling, LoopersLive, WorkerMoved, Quitting, Datagrams
<1>9. WorkersLive'
  BY <1>1, <1>2, <1>3 DEF IInv, ObjectsOK, WorkersLive, WorkerMoved, Quitting, Datagrams
<1>10. Bounded'
  BY <1>1, <1>2, <1>3 DEF IInv, Bounded, TrafficOK, WorkerMoved
<1>11. AppAlone'
  BY <1>1, <1>2 DEF AppAlone, ObjectsOK
<1>12. HoldsLock' /\ NoClient'
  BY <1>2, <1>3 DEF IInv, HoldsLock, NoClient, WorkerMoved
<1>13. QuitAwaited' /\ InOrder' /\ NothingLost'
  <2>1. this'[Worker(c)] = lp /\ \A t \in Threads : t # Worker(c) => this'[t] = this[t]
    BY <1>1, <1>2, WorkerApart DEF ObjectsOK
  <2> QED BY <1>2, <1>3, <2>1, QuitInOrder, WorkerApart DEF WorkerMoved
<1> QED BY <1>4, <1>5, <1>6, <1>7, <1>8, <1>9, <1>10, <1>11, <1>12, <1>13, TypePartsNext DEF IInv

LEMMA LogoutJoinedKeeps == ASSUME IInv, NEW c \in Gens, LogoutJoined(c) PROVE IInv'
<1> DEFINE l == this[Worker(c)]
<1>1. AtOK /\ ObjectsOK /\ TrafficOK /\ LocksOK
  BY TypeStays
<1>2. /\ at[Worker(c)] = "logoutJoin" /\ at[Looper(l)] = "ended" /\ looper[l] = "alive" /\ rpc # 0
      /\ UNCHANGED <<stop, over, taken>>
      /\ UNCHANGED <<queue, posted, handed>>
      /\ UNCHANGED <<cb, relocked, crossed, inside, fault>>
      /\ looper' = [looper EXCEPT ![l] = "freed"] /\ lp' = 0
      /\ client' = [client EXCEPT ![rpc] = "freed"] /\ rpc' = 0
      /\ transport' = [transport EXCEPT ![rpc] = 0]
      /\ this' = [this EXCEPT ![Worker(c)] = 0]
  BY DEF LogoutJoined, traffic, locks
<1>3. WorkerMoved(c, "callback")
  BY <1>1, WorkerGoes DEF LogoutJoined
<1>4. rpc = c /\ l \in Gens
  BY <1>1, <1>2, WorkerApart DEF IInv, Handling, Targets, ObjectsOK
<1> HIDE DEF l
<1>5. AtOK'
  BY <1>1, <1>3 DEF AtOK, WorkerMoved
<1>6. ObjectsOK' /\ TrafficOK' /\ LocksOK'
  <2>1. this' \in [Threads -> Gens \cup {0}]
    BY <1>1, <1>2 DEF ObjectsOK
  <2>2. transport' \in [Gens -> 0 .. 2]
    BY <1>1, <1>2 DEF ObjectsOK
  <2>3. client' \in [Gens -> Lives] /\ looper' \in [Gens -> Lives]
    BY <1>1, <1>2, <1>4 DEF ObjectsOK, Lives
  <2>4. ObjectsOK'
    BY <1>1, <1>2, <2>1, <2>3, <2>2 DEF ObjectsOK
  <2> QED BY <1>2, <2>4, TypeStays
<1>7. Pointers' /\ Unmade'
  <2>1. Pointers'
    BY <1>1, <1>2, <1>4 DEF IInv, Pointers, ObjectsOK, Gens
  <2>2. Unmade'
    BY <1>1, <1>2, <1>3, <1>4 DEF IInv, Unmade, ObjectsOK, WorkerMoved
  <2> QED BY <2>1, <2>2
<1>8. Targets'
  BY <1>1, <1>2, <1>3, WorkerApart DEF IInv, Targets, WorkerMoved, ObjectsOK
<1>9. Handling' /\ LoopersLive'
  BY <1>1, <1>2, <1>3, <1>4 DEF IInv, Handling, LoopersLive, WorkerMoved, ObjectsOK, Datagrams
<1>10. WorkersLive'
  BY <1>1, <1>2, <1>3, <1>4 DEF IInv, WorkersLive, WorkerMoved, ObjectsOK
<1>11. Bounded'
  BY <1>2, <1>3 DEF IInv, Bounded, WorkerMoved
<1>12. AppAlone'
  BY <1>2, <1>4 DEF IInv, AppAlone, WorkersLive
<1>13. HoldsLock' /\ NoClient'
  BY <1>2, <1>3 DEF IInv, HoldsLock, NoClient, WorkerMoved
<1>14. QuitAwaited' /\ InOrder' /\ NothingLost'
  <2>1. /\ \A g \in Gens : looper'[g] = "alive" => g # l /\ looper[g] = "alive"
        /\ looper'[this[Worker(c)]] # "alive"
    BY <1>1, <1>2, <1>4 DEF ObjectsOK, l
  <2>2. \A t \in Threads : t # Worker(c) => at'[t] = at[t] /\ this'[t] = this[t]
    BY <1>1, <1>2, <1>3 DEF ObjectsOK, WorkerMoved
  <2>3. \A g \in Gens : at'[Looper(g)] = at[Looper(g)]
    BY <1>3 DEF WorkerMoved
  <2> QED BY <1>2, <2>1, <2>2, <2>3, TrafficStays
<1> QED BY <1>5, <1>6, <1>7, <1>8, <1>9, <1>10, <1>11, <1>12, <1>13, <1>14, TypePartsNext DEF IInv

\* An undefined step only names its fault.
LEMMA UndefinedKeeps == ASSUME IInv, Undefined PROVE IInv'
<1>1. AtOK /\ ObjectsOK /\ TrafficOK /\ LocksOK
  BY TypeStays
<1>2. /\ UNCHANGED <<at, this, rpc, lp, client, looper, stop, over, transport, taken>>
      /\ UNCHANGED <<queue, posted, handed>>
      /\ UNCHANGED <<cb, relocked, crossed, inside>>
      /\ fault' \in Faults
  BY DEF Undefined, objects, traffic, session, locks, Faults
<1>3. AtOK' /\ LocksOK'
  BY <1>1, <1>2 DEF AtOK, LocksOK
<1>4. Pointers' /\ Unmade' /\ Targets' /\ Handling' /\ WorkersLive' /\ LoopersLive' /\ Bounded'
  BY <1>2 DEF IInv, Pointers, Unmade, Targets, Handling, WorkersLive, LoopersLive, Bounded
<1>5. AppAlone' /\ HoldsLock' /\ NoClient'
  BY <1>2 DEF IInv, AppAlone, HoldsLock, NoClient
<1>6. QuitAwaited' /\ InOrder' /\ NothingLost'
  BY <1>2, TrafficStays
<1> QED BY <1>2, <1>3, <1>4, <1>5, <1>6, TypeStays, TypePartsNext DEF IInv

\* The lock around callbacks.
LEMMA CallbackBeginsKeeps == ASSUME IInv, NEW t \in Threads, CallbackBegins(t) PROVE IInv'
<1>1. AtOK /\ ObjectsOK /\ TrafficOK /\ LocksOK
  BY TypeStays
<1>2. /\ at[t] = "callback" /\ cb' = t
      /\ UNCHANGED <<this, rpc, lp, client, looper, stop, over, transport, taken>>
      /\ UNCHANGED <<queue, posted, handed>>
      /\ UNCHANGED <<relocked, crossed, inside, fault>>
  BY DEF CallbackBegins, objects, traffic, session
<1>3. ObjectsOK' /\ TrafficOK' /\ LocksOK'
  BY <1>1, <1>2, TypeStays DEF LocksOK
<1>4. /\ cb = NONE /\ \A g \in Gens : Worker(g) # NONE /\ Looper(g) # NONE
      /\ \A u \in Threads : u # t => at'[u] = at[u]
  BY <1>1, Apart DEF CallbackBegins, GoTo, AtOK
<1>5. ASSUME \A g \in Gens : at'[Looper(g)] = "ended" => at[Looper(g)] = "ended"
      PROVE  QuitAwaited' /\ InOrder' /\ NothingLost'
  BY <1>2, <1>4, <1>5, TrafficStays
<1>6. ASSUME NEW c \in Gens, t = Worker(c) PROVE IInv'
  <2>1. WorkerMoved(c, "calling")
    BY <1>1, <1>6, WorkerGoes DEF CallbackBegins
  <2>2. AtOK'
    BY <1>1, <2>1 DEF AtOK, WorkerMoved
  <2>3. Pointers' /\ Unmade' /\ Targets' /\ Handling'
    BY <1>2, <1>6, <2>1 DEF IInv, Pointers, Unmade, Targets, Handling, WorkerMoved, Datagrams
  <2>4. WorkersLive' /\ LoopersLive' /\ Bounded'
    BY <1>2, <1>6, <2>1 DEF IInv, WorkersLive, LoopersLive, Bounded, WorkerMoved
  <2>5. AppAlone'
    BY <1>1, <1>2, <1>6, <2>1 DEF IInv, AppAlone, WorkerMoved
  <2>6. HoldsLock' /\ NoClient'
    BY <1>2, <1>6, <1>4, <2>1 DEF IInv, HoldsLock, NoClient, WorkerMoved
  <2>7. QuitAwaited' /\ InOrder' /\ NothingLost'
    BY <1>5, <2>1 DEF WorkerMoved
  <2> QED BY <1>3, <2>2, <2>3, <2>4, <2>5, <2>6, <2>7, TypePartsNext DEF IInv
<1>7. ASSUME NEW l \in Gens, t = Looper(l) PROVE IInv'
  <2>1. LooperMoved(l, "calling")
    BY <1>1, <1>7, LooperGoes DEF CallbackBegins
  <2>2. AtOK'
    BY <1>1, <2>1 DEF AtOK, LooperMoved
  <2>3. Pointers' /\ Unmade' /\ Targets' /\ Handling'
    BY <1>2, <1>7, <2>1 DEF IInv, Pointers, Unmade, Targets, Handling, LooperMoved
  <2>4. WorkersLive' /\ LoopersLive' /\ Bounded'
    BY <1>2, <1>7, <2>1 DEF IInv, WorkersLive, LoopersLive, Bounded, LooperMoved, Quitting
  <2>5. AppAlone'
    BY <1>1, <1>2, <1>7, <2>1 DEF IInv, AppAlone, LooperMoved
  <2>6. HoldsLock' /\ NoClient'
    BY <1>2, <1>7, <1>4, <2>1 DEF IInv, HoldsLock, NoClient, LooperMoved
  <2>7. QuitAwaited' /\ InOrder' /\ NothingLost'
    BY <1>5, <2>1 DEF LooperMoved
  <2> QED BY <1>3, <2>2, <2>3, <2>4, <2>5, <2>6, <2>7, TypePartsNext DEF IInv
<1>8. t # App
  BY <1>1, <1>2 DEF AtOK, Quitting
<1> QED BY <1>6, <1>7, <1>8, Apart

LEMMA CallbackEndsKeeps == ASSUME IInv, NEW t \in Threads, CallbackEnds(t) PROVE IInv'
<1>1. AtOK /\ ObjectsOK /\ TrafficOK /\ LocksOK
  BY TypeStays
<1>2. /\ at[t] \in {"calling", "leaving"} /\ cb' = NONE
      /\ UNCHANGED <<this, rpc, lp, client, looper, stop, over, transport, taken>>
      /\ UNCHANGED <<queue, posted, handed>>
      /\ UNCHANGED <<relocked, crossed, inside, fault>>
  BY DEF CallbackEnds, objects, traffic, session
<1>3. ObjectsOK' /\ TrafficOK' /\ LocksOK'
  BY <1>1, <1>2, TypeStays DEF LocksOK
<1>4. \A u \in Threads : u # t => at'[u] = at[u]
  BY <1>1 DEF CallbackEnds, GoTo, AtOK
<1>5. ASSUME \A g \in Gens : at'[Looper(g)] = "ended" => at[Looper(g)] = "ended"
      PROVE  QuitAwaited' /\ InOrder' /\ NothingLost'
  BY <1>2, <1>4, <1>5, TrafficStays
<1>6. ASSUME NEW c \in Gens, t = Worker(c) PROVE IInv'
  <2>1. t \in Workers
    BY <1>6 DEF Workers
  <2>2. WorkerMoved(c, "loop")
    BY <1>1, <1>6, <2>1, WorkerGoes DEF CallbackEnds
  <2>3. AtOK'
    BY <1>1, <2>2 DEF AtOK, WorkerMoved
  <2>4. Pointers' /\ Unmade' /\ Targets' /\ Handling'
    BY <1>2, <1>6, <2>2 DEF IInv, Pointers, Unmade, Targets, Handling, WorkerMoved, Datagrams
  <2>5. WorkersLive' /\ LoopersLive' /\ Bounded'
    BY <1>2, <1>6, <2>2 DEF IInv, WorkersLive, LoopersLive, Bounded, WorkerMoved, Quitting
  <2>6. AppAlone'
    BY <1>1, <1>2, <1>6, <2>2 DEF IInv, AppAlone, WorkerMoved
  <2>7. HoldsLock'
    <3>1. relocked \/ cb = Worker(c)
      BY <1>1, <1>2, <1>6 DEF IInv, HoldsLock, AtOK, Quitting, Datagrams
    <3> QED BY <1>2, <2>2, <3>1, WorkerApart DEF IInv, HoldsLock, WorkerMoved
  <2>8. NoClient'
    BY <1>2, <1>6, <2>2 DEF IInv, NoClient, WorkerMoved
  <2>9. QuitAwaited' /\ InOrder' /\ NothingLost'
    BY <1>5, <2>2 DEF WorkerMoved
  <2> QED BY <1>3, <2>3, <2>4, <2>5, <2>6, <2>7, <2>8, <2>9, TypePartsNext DEF IInv
<1>7. ASSUME NEW l \in Gens, t = Looper(l) PROVE IInv'
  <2>1. t \notin Workers
    BY <1>7, Apart
  <2>2. LooperMoved(l, "waiting")
    BY <1>1, <1>7, <2>1, LooperGoes DEF CallbackEnds
  <2>3. AtOK'
    BY <1>1, <2>2 DEF AtOK, LooperMoved
  <2>4. Pointers' /\ Unmade' /\ Targets' /\ Handling'
    BY <1>2, <1>7, <2>2 DEF IInv, Pointers, Unmade, Targets, Handling, LooperMoved
  <2>5. WorkersLive' /\ LoopersLive' /\ Bounded'
    BY <1>2, <1>7, <2>2 DEF IInv, WorkersLive, LoopersLive, Bounded, LooperMoved, Quitting
  <2>6. AppAlone'
    BY <1>1, <1>2, <1>7, <2>2 DEF IInv, AppAlone, LooperMoved
  <2>7. HoldsLock'
    <3>1. relocked \/ cb = Looper(l)
      BY <1>2, <1>7 DEF IInv, HoldsLock
    <3> QED BY <1>2, <2>2, <3>1, LooperApart DEF IInv, HoldsLock, LooperMoved, Quitting
  <2>8. NoClient'
    BY <1>2, <1>7, <2>2 DEF IInv, NoClient, LooperMoved
  <2>9. QuitAwaited' /\ InOrder' /\ NothingLost'
    BY <1>5, <2>2 DEF LooperMoved
  <2> QED BY <1>3, <2>3, <2>4, <2>5, <2>6, <2>7, <2>8, <2>9, TypePartsNext DEF IInv
<1>8. t # App
  BY <1>1, <1>2 DEF AtOK, Quitting
<1> QED BY <1>6, <1>7, <1>8, Apart

\* zhw_bs_quit, step by step, for each kind of thread.
LEMMA DestroyKeeps == ASSUME IInv, NEW t \in Threads, Destroy(t) PROVE IInv'
<1>1. AtOK /\ ObjectsOK /\ TrafficOK /\ LocksOK
  BY TypeStays
<1>2. /\ at[t] = "quit"
      /\ UNCHANGED <<rpc, lp, client, looper, over, transport, taken>>
      /\ UNCHANGED <<queue, posted, handed>>
      /\ UNCHANGED <<cb, relocked, crossed, inside, fault>>
  BY DEF Destroy, objects, traffic, locks
<1>3. PICK place \in {"quitLooper", "join"} :
        /\ GoTo(t, place)
        /\ \/ rpc = 0 /\ place = "quitLooper" /\ UNCHANGED <<this, stop>>
           \/ /\ rpc # 0 /\ place = "join"
              /\ stop' = [stop EXCEPT ![rpc] = TRUE] /\ this' = [this EXCEPT ![t] = rpc]
  BY DEF Destroy
<1>4. ObjectsOK' /\ TrafficOK' /\ LocksOK'
  <2>1. ObjectsOK'
    BY <1>1, <1>2, <1>3 DEF ObjectsOK
  <2> QED BY <1>2, <2>1, TypeStays
<1>5. /\ \A u \in Threads : u # t => this'[u] = this[u]
      /\ place = "join" => this'[t] = rpc /\ rpc \in Gens
  BY <1>1, <1>3 DEF ObjectsOK
<1>6. \A u \in Threads : u # t => at'[u] = at[u]
  BY <1>1, <1>3 DEF GoTo, AtOK
<1>7. ASSUME \A g \in Gens : at'[Looper(g)] = "ended" => at[Looper(g)] = "ended"
       PROVE  QuitAwaited' /\ InOrder' /\ NothingLost'
  BY <1>2, <1>5, <1>6, <1>7, TrafficStays
<1>8. NoClient'
  <2>1. at'[t] = place
    BY <1>1, <1>3 DEF GoTo, AtOK
  <2> QED BY <1>2, <1>3, <1>6, <2>1 DEF IInv, NoClient
<1>9. CASE t = App
  <2>1. AppMoved(place)
    BY <1>1, <1>3, <1>9, AppGoes
  <2>2. AtOK'
    BY <1>1, <2>1 DEF AtOK, AppMoved, Quitting
  <2>3. Targets'
    BY <1>3, <1>5, <1>9, <2>1, WorkerApart DEF IInv, Targets, AppMoved
  <2>4. Pointers' /\ Unmade' /\ Handling' /\ WorkersLive' /\ LoopersLive' /\ Bounded'
    BY <1>2, <2>1 DEF IInv, Pointers, Unmade, Handling, WorkersLive, LoopersLive, Bounded, AppMoved
  <2>5. AppAlone'
    <3>1. place = "join" => client[rpc] = "alive"
      BY <1>1, <1>3 DEF IInv, Pointers, ObjectsOK
    <3> QED BY <1>2, <1>3, <1>5, <1>9, <2>1, <3>1 DEF IInv, AppAlone, AppMoved
  <2>6. HoldsLock'
    BY <1>2, <2>1 DEF IInv, HoldsLock, AppMoved
  <2>7. QuitAwaited' /\ InOrder' /\ NothingLost'
    BY <1>7, <2>1 DEF AppMoved
  <2> QED BY <1>4, <1>8, <2>2, <2>3, <2>4, <2>5, <2>6, <2>7, TypePartsNext DEF IInv
<1>10. ASSUME NEW c \in Gens, t = Worker(c) PROVE IInv'
  <2>1. WorkerMoved(c, place)
    BY <1>1, <1>3, <1>10, WorkerGoes
  <2>2. rpc = c
    BY <1>2, <1>10 DEF IInv, Handling
  <2>3. AtOK'
    BY <1>1, <2>1 DEF AtOK, WorkerMoved, Quitting
  <2>4. Targets'
    BY <1>3, <1>5, <1>10, <2>1, <2>2, WorkerApart DEF IInv, Targets, WorkerMoved
  <2>5. Pointers' /\ Unmade' /\ Handling'
    BY <1>2, <1>10, <2>1, <2>2 DEF IInv, Pointers, Unmade, Handling, WorkerMoved
  <2>6. WorkersLive' /\ LoopersLive' /\ Bounded'
    BY <1>2, <1>10, <2>1 DEF IInv, WorkersLive, LoopersLive, Bounded, WorkerMoved, Quitting
  <2>7. AppAlone'
    BY <1>2, <1>10 DEF IInv, AppAlone, WorkersLive, Quitting
  <2>8. HoldsLock'
    BY <1>2, <1>10, <2>1 DEF IInv, HoldsLock, WorkerMoved
  <2>9. QuitAwaited' /\ InOrder' /\ NothingLost'
    BY <1>7, <2>1 DEF WorkerMoved
  <2> QED BY <1>4, <1>8, <2>3, <2>4, <2>5, <2>6, <2>7, <2>8, <2>9, TypePartsNext DEF IInv
<1>11. ASSUME NEW l \in Gens, t = Looper(l) PROVE IInv'
  <2>1. LooperMoved(l, place)
    BY <1>1, <1>3, <1>11, LooperGoes
  <2>2. AtOK'
    BY <1>1, <2>1 DEF AtOK, LooperMoved, Quitting
  <2>3. Targets'
    BY <1>3, <1>5, <1>11, <2>1, LooperApart DEF IInv, Targets, LooperMoved
  <2>4. Pointers' /\ Unmade' /\ Handling'
    BY <1>2, <1>11, <2>1 DEF IInv, Pointers, Unmade, Handling, LooperMoved
  <2>5. WorkersLive' /\ LoopersLive' /\ Bounded'
    BY <1>2, <1>11, <2>1 DEF IInv, WorkersLive, LoopersLive, Bounded, LooperMoved, Quitting
  <2>6. AppAlone'
    BY <1>2, <1>11 DEF IInv, AppAlone, LoopersLive, Quitting
  <2>7. HoldsLock'
    BY <1>2, <1>11, <2>1 DEF IInv, HoldsLock, LooperMoved, Quitting
  <2>8. QuitAwaited' /\ InOrder' /\ NothingLost'
    BY <1>7, <2>1 DEF LooperMoved
  <2> QED BY <1>4, <1>8, <2>2, <2>3, <2>4, <2>5, <2>6, <2>7, <2>8, TypePartsNext DEF IInv
<1> QED BY <1>9, <1>10, <1>11, Apart

LEMMA JoinedKeeps == ASSUME IInv, NEW t \in Threads, Joined(t) PROVE IInv'
<1> DEFINE c == this[t]
<1>1. AtOK /\ ObjectsOK /\ TrafficOK /\ LocksOK
  BY TypeStays
<1>2. /\ at[t] = "join" /\ client[c] = "alive"
      /\ t = Worker(c) \/ at[Worker(c)] = "ended"
      /\ UNCHANGED <<lp, looper, stop, over, taken>>
      /\ UNCHANGED <<queue, posted, handed>>
      /\ UNCHANGED <<cb, relocked, crossed, inside, fault>>
      /\ client' = [client EXCEPT ![c] = "freed"] /\ rpc' = 0
      /\ transport' = [transport EXCEPT ![c] = 0]
      /\ this' = [this EXCEPT ![t] = 0]
      /\ GoTo(t, "quitLooper")
  BY DEF Joined, HasEnded, traffic, locks
<1>3. c \in Gens /\ rpc = c
  BY <1>1, <1>2 DEF IInv, Targets, Pointers
<1>4. \A u \in Threads : u # t => this'[u] = this[u]
  BY <1>1, <1>2 DEF ObjectsOK
<1> HIDE DEF c
<1>5. ObjectsOK' /\ TrafficOK' /\ LocksOK'
  <2>1. this' \in [Threads -> Gens \cup {0}] /\ transport' \in [Gens -> 0 .. 2]
    BY <1>1, <1>2, <1>3 DEF ObjectsOK
  <2>2. client' \in [Gens -> Lives]
    BY <1>1, <1>2, <1>3 DEF ObjectsOK, Lives
  <2>3. ObjectsOK'
    BY <1>1, <1>2, <2>1, <2>2 DEF ObjectsOK
  <2> QED BY <1>2, <2>3, TypeStays
<1>6. Pointers'
  BY <1>1, <1>2, <1>3 DEF IInv, Pointers, ObjectsOK, Gens
<1>7. \A d \in Gens : d # c => client'[d] = client[d]
  BY <1>1, <1>2 DEF ObjectsOK
<1>8. client'[c] = "freed"
  BY <1>1, <1>2, <1>3 DEF ObjectsOK
<1>9. \A d \in Gens : at[Worker(d)] \in Datagrams \cup {"quit", "join", "logoutJoin"} => d = c /\ t = Worker(c)
  BY <1>2, <1>3 DEF IInv, Handling, Datagrams
<1>10. \A u \in Threads : u # t => at'[u] = at[u]
  BY <1>1, <1>2 DEF GoTo, AtOK
<1>11. ASSUME \A g \in Gens : at'[Looper(g)] = "ended" => at[Looper(g)] = "ended"
       PROVE  QuitAwaited' /\ InOrder' /\ NothingLost'
  BY <1>2, <1>4, <1>10, <1>11, TrafficStays
<1>12. NoClient'
  BY <1>2 DEF NoClient
<1>13. CASE t = App
  <2>1. AppMoved("quitLooper")
    BY <1>1, <1>2, <1>13, AppGoes
  <2>2. AtOK'
    BY <1>1, <2>1 DEF AtOK, AppMoved, Quitting
  <2>3. Targets'
    BY <1>4, <1>13, <2>1, WorkerApart DEF IInv, Targets, AppMoved
  <2>4. at[Worker(c)] = "ended" /\ App # Worker(c)
    BY <1>2, <1>3, <1>13, WorkerApart
  <2>5. Unmade' /\ Handling' /\ WorkersLive' /\ LoopersLive' /\ Bounded'
    BY <1>2, <1>3, <1>7, <1>8, <1>9, <1>13, <2>1, <2>4 DEF IInv, Unmade, Handling, WorkersLive, LoopersLive, Bounded, AppMoved
  <2>6. AppAlone'
    BY <1>2, <1>13, <2>1 DEF IInv, AppAlone, AppMoved
  <2>7. HoldsLock'
    BY <1>2, <2>1 DEF IInv, HoldsLock, AppMoved
  <2>8. QuitAwaited' /\ InOrder' /\ NothingLost'
    BY <1>11, <2>1 DEF AppMoved
  <2> QED BY <1>5, <1>6, <1>12, <2>2, <2>3, <2>5, <2>6, <2>7, <2>8, TypePartsNext DEF IInv
<1>14. ASSUME NEW d \in Gens, t = Worker(d) PROVE IInv'
  <2>1. WorkerMoved(d, "quitLooper")
    BY <1>1, <1>2, <1>14, WorkerGoes
  <2>2. d = c
    BY <1>2, <1>3, <1>14 DEF IInv, Handling
  <2>3. AtOK'
    BY <1>1, <2>1 DEF AtOK, WorkerMoved, Quitting
  <2>4. Targets'
    BY <1>4, <1>14, <2>1, WorkerApart DEF IInv, Targets, WorkerMoved
  <2>5. Unmade' /\ Handling' /\ Bounded'
    BY <1>2, <1>3, <1>7, <1>8, <1>9, <1>14, <2>1, <2>2 DEF IInv, Unmade, Handling, Bounded, WorkerMoved, Datagrams
  <2>6. WorkersLive' /\ LoopersLive'
    BY <1>2, <1>7, <1>14, <2>1, <2>2 DEF IInv, WorkersLive, LoopersLive, WorkerMoved, Quitting
  <2>7. AppAlone'
    BY <1>2, <1>14 DEF IInv, AppAlone, WorkersLive, Quitting
  <2>8. HoldsLock'
    BY <1>2, <1>14, <2>1 DEF IInv, HoldsLock, WorkerMoved
  <2>9. QuitAwaited' /\ InOrder' /\ NothingLost'
    BY <1>11, <2>1 DEF WorkerMoved
  <2> QED BY <1>5, <1>6, <1>12, <2>3, <2>4, <2>5, <2>6, <2>7, <2>8, <2>9, TypePartsNext DEF IInv
<1>15. ASSUME NEW l \in Gens, t = Looper(l) PROVE IInv'
  <2>1. LooperMoved(l, "quitLooper")
    BY <1>1, <1>2, <1>15, LooperGoes
  <2>2. AtOK'
    BY <1>1, <2>1 DEF AtOK, LooperMoved, Quitting
  <2>3. Targets'
    BY <1>4, <1>15, <2>1, LooperApart DEF IInv, Targets, LooperMoved
  <2>4. at[Worker(c)] = "ended"
    BY <1>2, <1>3, <1>15, LooperApart
  <2>5. Unmade' /\ Handling' /\ Bounded'
    BY <1>2, <1>3, <1>7, <1>8, <1>9, <1>15, <2>1, <2>4 DEF IInv, Unmade, Handling, Bounded, LooperMoved
  <2>6. WorkersLive' /\ LoopersLive'
    BY <1>2, <1>7, <1>15, <2>1, <2>4 DEF IInv, WorkersLive, LoopersLive, LooperMoved, Quitting
  <2>7. AppAlone'
    BY <1>2, <1>15 DEF IInv, AppAlone, LoopersLive, Quitting
  <2>8. HoldsLock'
    BY <1>2, <1>15, <2>1 DEF IInv, HoldsLock, LooperMoved, Quitting
  <2>9. QuitAwaited' /\ InOrder' /\ NothingLost'
    BY <1>11, <2>1 DEF LooperMoved
  <2> QED BY <1>5, <1>6, <1>12, <2>2, <2>3, <2>5, <2>6, <2>7, <2>8, <2>9, TypePartsNext DEF IInv
<1> QED BY <1>13, <1>14, <1>15, Apart

\* Where a thread goes on after zhw_bs_quit.
ReturnsTo(t) == IF t = App THEN "idle" ELSE IF t \in Workers THEN "callback" ELSE "leaving"

LEMMA QuitLooperKeeps == ASSUME IInv, NEW t \in Threads, QuitLooper(t) PROVE IInv'
<1>1. AtOK /\ ObjectsOK /\ TrafficOK /\ LocksOK
  BY TypeStays
<1>2. /\ at[t] = "quitLooper"
      /\ UNCHANGED <<rpc, lp, client, looper, stop, over, transport, taken>>
      /\ UNCHANGED <<posted, handed>>
      /\ UNCHANGED <<cb, relocked, crossed, inside, fault>>
  BY DEF QuitLooper, objects, session, locks
<1>3. PICK place \in {"joinLooper", ReturnsTo(t)} :
        /\ GoTo(t, place)
        /\ \/ lp = 0 /\ place = ReturnsTo(t) /\ UNCHANGED <<this, queue>>
           \/ /\ lp # 0 /\ place = "joinLooper"
              /\ queue' = [queue EXCEPT ![lp] = Append(@, QUIT)] /\ this' = [this EXCEPT ![t] = lp]
  BY DEF QuitLooper, Returned, ReturnsTo, addmsg
<1>4. ObjectsOK' /\ TrafficOK' /\ LocksOK'
  <2>1. ObjectsOK'
    BY <1>1, <1>2, <1>3 DEF ObjectsOK
  <2>2. TrafficOK'
    BY <1>1, <1>2, <1>3, QuitPosted, TypeStays DEF ObjectsOK
  <2> QED BY <1>2, <2>1, <2>2, TypeStays
<1>5. /\ \A u \in Threads : u # t => this'[u] = this[u]
      /\ place = "joinLooper" => this'[t] = lp /\ lp \in Gens
  BY <1>1, <1>3 DEF ObjectsOK, ReturnsTo
<1>6. Pointers'
  BY <1>2 DEF IInv, Pointers
<1>7. \A g \in Gens : looper[g] = "unmade" => queue'[g] = queue[g]
  BY <1>1, <1>3 DEF IInv, Pointers, ObjectsOK, TrafficOK
<1>8. at'[t] = place /\ \A u \in Threads : u # t => at'[u] = at[u]
  BY <1>1, <1>3 DEF GoTo, AtOK
<1>9. ASSUME \A g \in Gens : at'[Looper(g)] = "ended" => at[Looper(g)] = "ended"
       PROVE  QuitAwaited' /\ InOrder' /\ NothingLost'
  <2>1. CASE lp = 0
    BY <1>2, <1>3, <1>5, <1>8, <1>9, <2>1, TrafficStays
  <2>2. CASE lp # 0
    BY <1>2, <1>3, <1>5, <1>8, <2>2, QuitInOrder
  <2> QED BY <2>1, <2>2
<1>10. NoClient'
  BY <1>2, <1>8 DEF IInv, NoClient, ReturnsTo
<1>11. CASE t = App
  <2>1. AppMoved(place) /\ place \in {"idle", "joinLooper"}
    BY <1>1, <1>3, <1>11, AppGoes DEF ReturnsTo
  <2>2. AtOK'
    BY <1>1, <2>1 DEF AtOK, AppMoved, Quitting
  <2>3. Targets'
    BY <1>5, <1>11, <2>1, WorkerApart DEF IInv, Targets, AppMoved
  <2>4. Unmade' /\ Handling' /\ WorkersLive' /\ LoopersLive' /\ Bounded'
    BY <1>2, <1>7, <2>1 DEF IInv, Unmade, Handling, WorkersLive, LoopersLive, Bounded, AppMoved
  <2>5. AppAlone'
    <3>1. lp # 0 => looper[lp] = "alive"
      BY <1>1 DEF IInv, Pointers, ObjectsOK
    <3>2. place = "joinLooper" => looper[this'[App]] = "alive"
      BY <1>3, <1>5, <1>11, <2>1, <3>1 DEF ReturnsTo
    <3> QED BY <1>2, <1>11, <2>1, <3>2 DEF IInv, AppAlone, AppMoved
  <2>6. HoldsLock'
    BY <1>2, <2>1 DEF IInv, HoldsLock, AppMoved
  <2>7. QuitAwaited' /\ InOrder' /\ NothingLost'
    BY <1>9, <2>1 DEF AppMoved
  <2> QED BY <1>4, <1>6, <1>10, <2>2, <2>3, <2>4, <2>5, <2>6, <2>7, TypePartsNext DEF IInv
<1>12. ASSUME NEW c \in Gens, t = Worker(c) PROVE IInv'
  <2>1. WorkerMoved(c, place) /\ place \in {"callback", "joinLooper"}
    BY <1>1, <1>3, <1>12, WorkerGoes, Apart DEF ReturnsTo
  <2>2. AtOK'
    BY <1>1, <2>1 DEF AtOK, WorkerMoved, Quitting
  <2>3. Targets'
    BY <1>5, <1>12, <2>1, WorkerApart DEF IInv, Targets, WorkerMoved
  <2>4. Unmade' /\ Handling' /\ Bounded'
    BY <1>2, <1>7, <1>12, <2>1 DEF IInv, Unmade, Handling, Bounded, WorkerMoved, Datagrams
  <2>5. WorkersLive' /\ LoopersLive'
    BY <1>2, <1>12, <2>1 DEF IInv, WorkersLive, LoopersLive, WorkerMoved, Quitting
  <2>6. AppAlone'
    BY <1>2, <1>12 DEF IInv, AppAlone, WorkersLive, Quitting
  <2>7. HoldsLock'
    BY <1>2, <1>12, <2>1 DEF IInv, HoldsLock, WorkerMoved
  <2>8. QuitAwaited' /\ InOrder' /\ NothingLost'
    BY <1>9, <2>1 DEF WorkerMoved
  <2> QED BY <1>4, <1>6, <1>10, <2>2, <2>3, <2>4, <2>5, <2>6, <2>7, <2>8, TypePartsNext DEF IInv
<1>13. ASSUME NEW l \in Gens, t = Looper(l) PROVE IInv'
  <2>1. LooperMoved(l, place) /\ place \in {"leaving", "joinLooper"}
    BY <1>1, <1>3, <1>13, LooperGoes, Apart DEF ReturnsTo
  <2>2. AtOK'
    BY <1>1, <2>1 DEF AtOK, LooperMoved, Quitting
  <2>3. Targets'
    BY <1>5, <1>13, <2>1, LooperApart DEF IInv, Targets, LooperMoved
  <2>4. Unmade' /\ Handling' /\ Bounded'
    BY <1>2, <1>7, <1>13, <2>1 DEF IInv, Unmade, Handling, Bounded, LooperMoved
  <2>5. WorkersLive' /\ LoopersLive'
    BY <1>2, <1>13, <2>1 DEF IInv, WorkersLive, LoopersLive, LooperMoved, Quitting
  <2>6. AppAlone'
    BY <1>2, <1>13 DEF IInv, AppAlone, LoopersLive, Quitting
  <2>7. HoldsLock'
    BY <1>2, <1>13, <2>1 DEF IInv, HoldsLock, LooperMoved, Quitting
  <2>8. QuitAwaited' /\ InOrder' /\ NothingLost'
    BY <1>9, <2>1 DEF LooperMoved
  <2> QED BY <1>4, <1>6, <1>10, <2>2, <2>3, <2>4, <2>5, <2>6, <2>7, <2>8, TypePartsNext DEF IInv
<1> QED BY <1>11, <1>12, <1>13, Apart

LEMMA JoinedLooperKeeps == ASSUME IInv, NEW t \in Threads, JoinedLooper(t) PROVE IInv'
<1> DEFINE l == this[t]
<1>1. AtOK /\ ObjectsOK /\ TrafficOK /\ LocksOK
  BY TypeStays
<1>2. /\ at[t] = "joinLooper" /\ looper[l] = "alive"
      /\ t = Looper(l) \/ at[Looper(l)] = "ended"
      /\ UNCHANGED <<rpc, client, stop, over, transport, taken>>
      /\ UNCHANGED <<queue, posted, handed>>
      /\ UNCHANGED <<cb, relocked, crossed, inside, fault>>
      /\ looper' = [looper EXCEPT ![l] = "freed"] /\ lp' = 0
      /\ this' = [this EXCEPT ![t] = 0]
      /\ GoTo(t, ReturnsTo(t))
  BY DEF JoinedLooper, HasEnded, Returned, ReturnsTo, session, traffic, locks
<1>3. l \in Gens /\ lp = l
  BY <1>1, <1>2 DEF IInv, Targets, Pointers
<1>4. \A u \in Threads : u # t => this'[u] = this[u]
  BY <1>1, <1>2 DEF ObjectsOK
<1> HIDE DEF l
<1>5. ObjectsOK' /\ TrafficOK' /\ LocksOK'
  <2>1. this' \in [Threads -> Gens \cup {0}]
    BY <1>1, <1>2, <1>3 DEF ObjectsOK
  <2>2. looper' \in [Gens -> Lives]
    BY <1>1, <1>2, <1>3 DEF ObjectsOK, Lives
  <2>3. ObjectsOK'
    BY <1>1, <1>2, <2>1, <2>2 DEF ObjectsOK
  <2> QED BY <1>2, <2>3, TypeStays
<1>6. Pointers'
  BY <1>1, <1>2, <1>3 DEF IInv, Pointers, ObjectsOK, Gens
<1>7. /\ \A g \in Gens : g # l => looper'[g] = looper[g]
      /\ looper'[l] = "freed"
  BY <1>1, <1>2, <1>3 DEF ObjectsOK
<1>8. at'[t] = ReturnsTo(t) /\ \A u \in Threads : u # t => at'[u] = at[u]
  BY <1>1, <1>2 DEF GoTo, AtOK
<1>9. ASSUME \A g \in Gens : at'[Looper(g)] = "ended" => at[Looper(g)] = "ended"
       PROVE  QuitAwaited' /\ InOrder' /\ NothingLost'
  <2>1. looper'[this[t]] # "alive" /\ \A g \in Gens : looper'[g] = "alive" => looper[g] = "alive"
    BY <1>7 DEF l
  <2> QED BY <1>2, <1>4, <1>8, <1>9, <2>1, TrafficStays
<1>10. NoClient'
  BY <1>2, <1>8 DEF IInv, NoClient, ReturnsTo
<1>11. CASE t = App
  <2>1. AppMoved("idle")
    BY <1>1, <1>2, <1>11, AppGoes DEF ReturnsTo
  <2>2. AtOK'
    BY <1>1, <2>1 DEF AtOK, AppMoved, Quitting
  <2>3. Targets'
    BY <1>4, <1>11, <2>1, WorkerApart DEF IInv, Targets, AppMoved
  <2>4. at[Looper(l)] = "ended" /\ App # Looper(l)
    BY <1>2, <1>3, <1>11, LooperApart
  <2>5. Unmade' /\ Handling' /\ WorkersLive' /\ LoopersLive' /\ Bounded'
    BY <1>2, <1>7, <2>1, <2>4 DEF IInv, Unmade, Handling, WorkersLive, LoopersLive, Bounded, AppMoved
  <2>6. AppAlone'
    <3>1. rpc = 0 => \A c \in Gens : client[c] # "alive"
      BY DEF IInv, Pointers, Gens
    <3> QED BY <1>2, <1>11, <2>1, <3>1 DEF IInv, AppAlone, WorkersLive, AppMoved
  <2>7. HoldsLock'
    BY <1>2, <2>1 DEF IInv, HoldsLock, AppMoved
  <2>8. QuitAwaited' /\ InOrder' /\ NothingLost'
    BY <1>9, <2>1 DEF AppMoved
  <2> QED BY <1>5, <1>6, <1>10, <2>2, <2>3, <2>5, <2>6, <2>7, <2>8, TypePartsNext DEF IInv
<1>12. ASSUME NEW c \in Gens, t = Worker(c) PROVE IInv'
  <2>1. WorkerMoved(c, "callback")
    BY <1>1, <1>2, <1>12, WorkerGoes, Apart DEF ReturnsTo
  <2>2. AtOK'
    BY <1>1, <2>1 DEF AtOK, WorkerMoved
  <2>3. Targets'
    BY <1>4, <1>12, <2>1, WorkerApart DEF IInv, Targets, WorkerMoved
  <2>4. at[Looper(l)] = "ended"
    BY <1>2, <1>3, <1>12, WorkerApart
  <2>5. Unmade' /\ Handling' /\ Bounded'
    BY <1>2, <1>7, <1>12, <2>1, <2>4 DEF IInv, Unmade, Handling, Bounded, WorkerMoved, Datagrams
  <2>6. WorkersLive' /\ LoopersLive'
    BY <1>2, <1>7, <1>12, <2>1, <2>4 DEF IInv, WorkersLive, LoopersLive, WorkerMoved, Quitting
  <2>7. AppAlone'
    BY <1>2, <1>12 DEF IInv, AppAlone, WorkersLive, Quitting
  <2>8. HoldsLock'
    BY <1>2, <1>12, <2>1 DEF IInv, HoldsLock, WorkerMoved
  <2>9. QuitAwaited' /\ InOrder' /\ NothingLost'
    BY <1>9, <2>1 DEF WorkerMoved
  <2> QED BY <1>5, <1>6, <1>10, <2>2, <2>3, <2>5, <2>6, <2>7, <2>8, <2>9, TypePartsNext DEF IInv
<1>13. ASSUME NEW g \in Gens, t = Looper(g) PROVE IInv'
  <2>1. LooperMoved(g, "leaving")
    BY <1>1, <1>2, <1>13, LooperGoes, Apart DEF ReturnsTo
  <2>2. inside
    BY <1>2, <1>13 DEF IInv, LoopersLive, Quitting
  <2>3. AtOK'
    BY <1>1, <2>1 DEF AtOK, LooperMoved
  <2>4. Targets'
    BY <1>4, <1>13, <2>1, LooperApart DEF IInv, Targets, LooperMoved
  <2>5. Unmade' /\ Handling' /\ Bounded'
    BY <1>2, <1>7, <1>13, <2>1 DEF IInv, Unmade, Handling, Bounded, LooperMoved
  <2>6. WorkersLive' /\ LoopersLive'
    BY <1>2, <1>7, <1>13, <2>1, <2>2 DEF IInv, WorkersLive, LoopersLive, LooperMoved, Quitting
  <2>7. AppAlone'
    BY <1>2, <2>2 DEF AppAlone
  <2>8. HoldsLock'
    BY <1>2, <1>13, <2>1 DEF IInv, HoldsLock, LooperMoved, Quitting
  <2>9. QuitAwaited' /\ InOrder' /\ NothingLost'
    BY <1>9, <2>1 DEF LooperMoved
  <2> QED BY <1>5, <1>6, <1>10, <2>3, <2>4, <2>5, <2>6, <2>7, <2>8, <2>9, TypePartsNext DEF IInv
<1> QED BY <1>11, <1>12, <1>13, Apart

LEMMA OfQuitKeeps == ASSUME IInv, NEW t \in Threads, OfQuit(t) PROVE IInv'
BY DestroyKeeps, JoinedKeeps, QuitLooperKeeps, JoinedLooperKeeps DEF OfQuit

-----------------------------------------------------------------------------
(***************************************************************************)
(* The invariant.                                                          *)
(***************************************************************************)
LEMMA InitKeeps == Init => IInv
<1> SUFFICES ASSUME Init PROVE IInv
  OBVIOUS
<1>1. /\ DOMAIN at = Threads /\ at[App] = "idle"
      /\ \A g \in Gens : at[Worker(g)] = "none" /\ at[Looper(g)] = "none"
      /\ \A t \in Threads : at[t] \in {"idle", "none"}
  BY AppApart DEF Init
<1>2. AtOK /\ ObjectsOK /\ TrafficOK /\ LocksOK
  <2>1. AtOK
    BY <1>1 DEF AtOK
  <2>2. ObjectsOK
    BY DEF Init, ObjectsOK, Lives
  <2>3. TrafficOK
    BY DEF Init, TrafficOK
  <2>4. LocksOK
    BY DEF Init, LocksOK, Faults
  <2> QED BY <2>1, <2>2, <2>3, <2>4
<1>3. Pointers /\ Unmade /\ Targets /\ Handling /\ WorkersLive /\ LoopersLive /\ Bounded
  <2>1. Pointers
    BY DEF Init, Pointers, Gens
  <2>2. Unmade
    BY <1>1 DEF Init, Unmade
  <2>3. Targets
    BY <1>1 DEF Targets
  <2>4. Handling /\ WorkersLive /\ LoopersLive
    BY <1>1 DEF Handling, WorkersLive, LoopersLive, Datagrams, Quitting
  <2>5. Bounded
    BY <1>1 DEF Init, Bounded
  <2> QED BY <2>1, <2>2, <2>3, <2>4, <2>5
<1>4. AppAlone /\ HoldsLock /\ QuitAwaited /\ InOrder /\ NoClient /\ NothingLost
  <2>1. AppAlone /\ HoldsLock /\ NoClient /\ NothingLost
    BY <1>1 DEF AppAlone, HoldsLock, NoClient, NothingLost, Quitting
  <2>2. QuitAwaited
    BY DEF Init, QuitAwaited
  <2>3. InOrder
    BY DEF Init, InOrder, Pending
  <2> QED BY <2>1, <2>2, <2>3
<1> QED BY <1>2, <1>3, <1>4, TypeParts DEF IInv

LEMMA NextKeeps == IInv /\ [Next]_vars => IInv'
<1> SUFFICES ASSUME IInv, [Next]_vars PROVE IInv'
  OBVIOUS
<1>1. CASE UNCHANGED vars
  <2>1. UNCHANGED <<at, this, rpc, lp, client, looper, stop, over, transport, taken, queue, posted,
                    handed, cb, relocked, crossed, inside, fault>>
    BY <1>1 DEF vars, objects, traffic, session, locks
  <2>2. AtOK' /\ ObjectsOK' /\ TrafficOK' /\ LocksOK'
    BY <2>1, TypeStays DEF AtOK
  <2>3. Pointers' /\ Unmade' /\ Targets' /\ Handling' /\ WorkersLive' /\ LoopersLive' /\ Bounded'
    BY <2>1 DEF IInv, Pointers, Unmade, Targets, Handling, WorkersLive, LoopersLive, Bounded
  <2>4. AppAlone' /\ HoldsLock' /\ NoClient'
    BY <2>1 DEF IInv, AppAlone, HoldsLock, NoClient
  <2>5. QuitAwaited' /\ InOrder' /\ NothingLost'
    BY <2>1, TrafficStays
  <2> QED BY <2>2, <2>3, <2>4, <2>5, TypePartsNext DEF IInv
<1>2. CASE Initialize \/ Quit \/ BeginSend \/ Undefined
  BY <1>2, InitializeKeeps, QuitKeeps, BeginSendKeeps, UndefinedKeeps
<1>3. CASE OfApp
  BY <1>3, MakeLooperKeeps, EndSendKeeps, OfQuitKeeps, AppApart DEF OfApp
<1>4. ASSUME NEW g \in Gens, OfWorker(g) PROVE IInv'
  <2> USE WorkerApart
  <2>1. CASE CallbackBegins(Worker(g)) \/ CallbackEnds(Worker(g)) \/ OfQuit(Worker(g))
    BY <2>1, CallbackBeginsKeeps, CallbackEndsKeeps, OfQuitKeeps
  <2>2. CASE Leave(g) \/ ProcLogin(g) \/ ProcRefused(g) \/ ProcLogoutCmd(g) \/ LogoutJoined(g)
             \/ ProcServerLogin(g) \/ ProcMessage(g)
    BY <2>2, LeaveKeeps, ProcLoginKeeps, ProcRefusedKeeps, ProcLogoutCmdKeeps, LogoutJoinedKeeps, ProcServerLoginKeeps, ProcMessageKeeps
  <2> QED BY <1>4, <2>1, <2>2 DEF OfWorker
<1>5. ASSUME NEW g \in Gens, OfLooper(g) PROVE IInv'
  BY <1>5, LooperApart, LooperTakesKeeps, CallbackBeginsKeeps, CallbackEndsKeeps, OfQuitKeeps DEF OfLooper
<1> QED BY <1>1, <1>2, <1>3, <1>4, <1>5, ReceiveKeeps, CallbackQuitKeeps DEF Next

\* IInv holds always.
LEMMA LifecycleInvariant == Spec => []IInv
BY InitKeeps, NextKeeps, PTL DEF Spec

-----------------------------------------------------------------------------
(***************************************************************************)
(* What the invariant says.                                                *)
(***************************************************************************)

\* Types: every pointer, queue, history and lock keeps its type, for any
\* number of clients and messages.
THEOREM LifecycleTypeCorrect == Spec => []TypeOK
<1>1. IInv => TypeOK
  BY DEF IInv
<1> QED BY <1>1, LifecycleInvariant, PTL

\* zhw_bs_quit and zhw_bs_recv_logout end a looper only after it has handed
\* up all that was posted to it.
THEOREM LooperLosesNothing == Spec => []NothingLost
<1>1. IInv => NothingLost
  BY DEF IInv
<1> QED BY <1>1, LifecycleInvariant, PTL

\* After zhw_bs_quit has returned no thread of a client runs, unless the
\* gateway ended the session or a callback called quit.
THEOREM QuitEndsThreads == Spec => []QuietAfterQuit
<1>1. IInv => QuietAfterQuit
  <2>1. SUFFICES ASSUME IInv, rpc = 0, lp = 0, ~inside
                 PROVE  \A g \in Gens : /\ at[Looper(g)] \in {"none", "ended"}
                                        /\ ~over[g] => at[Worker(g)] \in {"none", "ended"}
    BY DEF QuietAfterQuit
  <2>2. \A g \in Gens : client[g] # "alive" /\ looper[g] # "alive"
    BY <2>1 DEF IInv, Pointers, Gens
  <2> QED BY <2>1, <2>2 DEF IInv, WorkersLive, LoopersLive
<1> QED BY <1>1, LifecycleInvariant, PTL

\* mut_callback lets one thread at a time call the application, unless
\* zhw_bs_initialize made the lock anew while a callback ran.
THEOREM CallbacksTakeTurns == Spec => []OneCallback
<1>1. IInv => OneCallback
  <2>1. SUFFICES ASSUME IInv, ~relocked PROVE Cardinality(InCallback) <= 1
    BY DEF OneCallback
  <2>2. AtOK
    BY <2>1, TypeStays
  <2>3. ASSUME NEW t \in Threads, at[t] = "calling" \/ (t \in Loopers /\ at[t] \in {"leaving"} \cup Quitting)
        PROVE  t = cb
    <3>1. CASE t = App
      BY <2>2, <2>3, <3>1, Apart DEF AtOK, Quitting
    <3>2. ASSUME NEW g \in Gens, t = Worker(g) PROVE t = cb
      <4>1. t \notin Loopers
        BY <3>2, Apart
      <4> QED BY <2>1, <2>3, <3>2, <4>1 DEF IInv, HoldsLock
    <3>3. ASSUME NEW g \in Gens, t = Looper(g) PROVE t = cb
      BY <2>1, <2>3, <3>3 DEF IInv, HoldsLock
    <3> QED BY <3>1, <3>2, <3>3, ThreadKinds
  <2>4. InCallback \subseteq {cb}
    <3>1. Loopers \subseteq Threads
      BY DEF Threads
    <3>2. \A t \in InCallback :
            t \in Threads /\ (at[t] = "calling" \/ (t \in Loopers /\ at[t] \in {"leaving"} \cup Quitting))
      BY <3>1 DEF InCallback
    <3> QED BY <2>3, <3>2
  <2>5. IsFiniteSet({cb}) /\ Cardinality({cb}) = 1
    BY FS_Singleton
  <2>6. Cardinality(InCallback) <= Cardinality({cb})
    BY <2>4, <2>5, FS_Subset
  <2> QED BY <2>5, <2>6
<1> QED BY <1>1, LifecycleInvariant, PTL

\* Only Undefined names a fault.
LEMMA FaultIsUndefined ==
  ASSUME [Next]_vars, ~Undefined PROVE fault' = fault
<1>1. CASE UNCHANGED vars
  BY <1>1 DEF vars
<1>2. ASSUME NEW t, OfQuit(t) \/ CallbackBegins(t) \/ CallbackEnds(t) PROVE fault' = fault
  BY <1>2 DEF OfQuit, Destroy, Joined, QuitLooper, JoinedLooper, CallbackBegins, CallbackEnds
<1>3. CASE Initialize \/ Quit \/ BeginSend \/ OfApp
  BY <1>2, <1>3 DEF Initialize, Quit, BeginSend, OfApp, MakeLooper, EndSend
<1>4. ASSUME NEW g \in Gens, Receive(g) \/ OfLooper(g) \/ CallbackQuit(g) PROVE fault' = fault
  BY <1>2, <1>4 DEF Receive, OfLooper, LooperTakes, CallbackQuit
<1>5. ASSUME NEW g \in Gens, OfWorker(g) PROVE fault' = fault
  BY <1>2, <1>5 DEF OfWorker, Leave, ProcLogin, ProcRefused, ProcLogoutCmd, LogoutJoined,
                    ProcServerLogin, ProcMessage
<1> QED BY <1>1, <1>3, <1>4, <1>5 DEF Next

\* Each undefined step, traced to what made it possible.
LEMMA UndefinedIsExplained == ASSUME IInv, Undefined PROVE FaultsExplained'
<1>1. UNCHANGED <<at, inside, over>>
  BY DEF Undefined, session, locks
<1>2. AtOK
  BY TypeStays
<1> DEFINE Alone == ~inside /\ \A c \in Gens : ~over[c]
<1>3. ASSUME NEW t \in Threads, at[t] \in {"server", "message", "logout"}, lp = 0, Alone
      PROVE  at[App] = "making"
  <2>1. t # App /\ \A g \in Gens : t # Looper(g)
    BY <1>2, <1>3 DEF AtOK, Quitting
  <2>2. PICK g \in Gens : t = Worker(g)
    BY <2>1, ThreadKinds
  <2> QED BY <1>3, <2>2 DEF IInv, AppAlone
<1>4. ASSUME NEW t \in Threads, at[t] \in {"beating", "logoutJoin"}, rpc = 0 PROVE ~Alone
  <2>1. \A g \in Gens : t # Looper(g)
    BY <1>2, <1>4 DEF AtOK, Quitting
  <2>2. CASE t = App
    BY <1>2, <1>4, <2>2 DEF IInv, AppAlone, AtOK, Quitting
  <2>3. ASSUME NEW g \in Gens, t = Worker(g) PROVE ~Alone
    BY <1>2, <1>4, <2>3 DEF IInv, AtOK, WorkersLive, Quitting, Datagrams
  <2> QED BY <2>1, <2>2, <2>3, ThreadKinds
<1>5. ASSUME NEW t \in Threads, Freed(t) PROVE ~Alone
  <2>1. CASE t = App
    <3>1. t \notin Workers
      BY <2>1, Apart
    <3> QED BY <1>5, <2>1, <3>1 DEF Freed, IInv, AppAlone
  <2>2. ASSUME NEW g \in Gens, t = Worker(g) PROVE ~Alone
    <3>1. t[2] = g /\ at[t] # "sending"
      BY <1>2, <2>2 DEF Worker, AtOK, Quitting, Datagrams
    <3> QED BY <1>5, <2>2, <3>1 DEF Freed, IInv, WorkersLive, Quitting
  <2>3. ASSUME NEW g \in Gens, t = Looper(g) PROVE ~Alone
    <3>1. t \notin Workers /\ at[t] # "sending"
      BY <1>2, <2>3, Apart DEF AtOK, Quitting
    <3> QED BY <1>5, <2>3, <3>1 DEF Freed, IInv, LoopersLive, Quitting
  <2> QED BY <2>1, <2>2, <2>3, ThreadKinds
<1>6. ASSUME NEW t \in Threads, LooperFreed(t) PROVE ~Alone
  <2>1. CASE t = App
    <3>1. t \notin Loopers /\ at[t] # "logoutJoin"
      BY <1>2, <2>1, Apart DEF AtOK, Quitting
    <3> QED BY <1>6, <2>1, <3>1 DEF LooperFreed, IInv, AppAlone
  <2>2. ASSUME NEW g \in Gens, t = Worker(g) PROVE ~Alone
    <3>1. t \notin Loopers
      BY <2>2, Apart
    <3> QED BY <1>6, <2>2, <3>1 DEF LooperFreed, IInv, WorkersLive, Quitting
  <2>3. ASSUME NEW g \in Gens, t = Looper(g) PROVE ~Alone
    <3>1. t[2] = g /\ at[t] # "logoutJoin"
      BY <1>2, <2>3 DEF Looper, AtOK, Quitting
    <3> QED BY <1>6, <2>3, <3>1 DEF LooperFreed, IInv, LoopersLive, Quitting
  <2> QED BY <2>1, <2>2, <2>3, ThreadKinds
<1>7. ASSUME NEW t \in Threads, at[t] = "sending" PROVE at[App] = "sending"
  <2>1. \A g \in Gens : t # Worker(g) /\ t # Looper(g)
    BY <1>2, <1>7 DEF AtOK, Quitting, Datagrams
  <2> QED BY <1>7, <2>1, ThreadKinds
<1> HIDE DEF Alone
<1>8. /\ fault' \in {"clientFreed", "looperFreed", "noClient"} => ~Alone
      /\ fault' = "noLooper" => at[App] = "making" \/ ~Alone
      /\ fault' = "senderFreed" => at[App] = "sending"
  BY <1>3, <1>4, <1>5, <1>6, <1>7 DEF Undefined
<1> QED BY <1>1, <1>8 DEF Alone, FaultsExplained

\* No freed object and no null pointer while only the application's own
\* thread ends the client, but for a message posted before the looper is made
\* and a sender replaced while SendMessage uses it.
THEOREM FaultsHaveCauses == Spec => []FaultsExplained
<1>1. Init => FaultsExplained
  BY DEF Init, FaultsExplained
<1>2. IInv /\ FaultsExplained /\ [Next]_vars => FaultsExplained'
  <2>1. SUFFICES ASSUME IInv, FaultsExplained, [Next]_vars PROVE FaultsExplained'
    OBVIOUS
  <2>2. CASE Undefined
    BY <2>1, <2>2, UndefinedIsExplained
  <2>3. CASE UNCHANGED vars
    <3>1. UNCHANGED <<at, inside, over, fault>>
      BY <2>3 DEF vars, session, locks
    <3> QED BY <2>1, <3>1 DEF FaultsExplained
  <2>4. CASE Next /\ ~Undefined
    <3>1. fault' = "none"
      BY <2>1, <2>4, FaultIsUndefined DEF Next
    <3> QED BY <3>1 DEF FaultsExplained
  <2> QED BY <2>1, <2>2, <2>3, <2>4
<1> QED BY <1>1, <1>2, LifecycleInvariant, PTL DEF Spec
=============================================================================
