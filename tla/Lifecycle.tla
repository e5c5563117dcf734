----------------------------- MODULE Lifecycle -----------------------------
(***************************************************************************)
(* How a client comes up and goes away: zhw_bs_initialize, zhw_bs_quit and  *)
(* zhw_bs_recv_logout (zhw_bs_main.cpp), the constructor and destructor of *)
(* CBSClient (bsc_rpc_init.cpp), its thread (bsc_rpc.cpp), the looper that  *)
(* carries messages to the application (looper.cpp) and the lock around    *)
(* the application's callbacks (dcframe_proc.cpp).                         *)
(*                                                                         *)
(* Three kinds of threads share the pointers g_bsc_rpc and                 *)
(* g_bs_resp_looper, which no lock protects: the application's thread, the *)
(* worker of each client and the thread of each looper. A step is what a   *)
(* thread does between two points at which another one can matter: an      *)
(* access to a shared pointer, a join, the callback lock, the queue.       *)
(*                                                                         *)
(* A step the language leaves undefined (an object that was freed, a null  *)
(* pointer, a thread handle never set) is named in fault and ends the      *)
(* behaviour. The read of m_stop_work or of the looper's queue in freed    *)
(* memory may instead find the old value.                                  *)
(***************************************************************************)
EXTENDS Naturals, Sequences, FiniteSets

CONSTANTS
  MaxInit,       \* bound: clients that are created
  MaxPost,       \* bound: with this many posted to a looper no message more is received
  CallbackQuits  \* a callback of the application may call quit

ASSUME LifecycleAssumption ==
  MaxInit \in Nat \ {0} /\ MaxPost \in Nat /\ CallbackQuits \in BOOLEAN

VARIABLES
  at,        \* where each thread is
  this,      \* the object whose destructor or quit() a thread is in
  rpc,       \* g_bsc_rpc, 0 for NULL
  lp,        \* g_bs_resp_looper, 0 for NULL
  client,    \* the life of each CBSClient
  stop,      \* m_stop_work of each client
  transport, \* which m_SafeFrame_Sender a client has: login answers, mod 2
  taken,     \* the sender the application's SendMessage has read
  looper,    \* the life of each BsRespLooper
  queue,     \* its messages: numbers in the order they were posted, QUIT
  posted,    \* history: how many were posted
  handed,    \* history: how many the looper has taken out
  cb,        \* the thread that holds mut_callback
  relocked,  \* history: mut_callback was initialised while it was held
  over,      \* history: the gateway has ended this client's session
  crossed,   \* history: a client was made while a thread of an older one ran
  inside,    \* history: a callback has called quit
  fault      \* the undefined step that was taken

objects == <<rpc, lp, client, looper>>
traffic == <<queue, posted, handed>>
session == <<stop, transport, over>>
locks == <<cb, relocked, crossed, inside>>
vars == <<at, this, objects, traffic, session, locks, taken, fault>>

Gens == 1 .. MaxInit
App == <<"app", 0>>
Worker(c) == <<"worker", c>>
Looper(l) == <<"looper", l>>
Workers == {Worker(c) : c \in Gens}
Loopers == {Looper(l) : l \in Gens}
Threads == {App} \cup Workers \cup Loopers
NONE == <<"none", 0>>
QUIT == 0

Datagrams == {"login", "refused", "logout", "server", "message"}
Quitting == {"quit", "join", "quitLooper", "joinLooper"}
Lives == {"unmade", "alive", "freed"}
Faults == {"none", "noLooper", "noClient", "clientFreed", "looperFreed",
           "senderFreed", "joinUnstarted"}

TypeOK ==
  /\ DOMAIN at = Threads
  /\ at[App] \in Quitting \cup {"idle", "making", "sending", "beating"}
  /\ \A t \in Workers : at[t] \in Quitting \cup Datagrams \cup
       {"none", "loop", "logoutJoin", "callback", "calling", "ended"}
  /\ \A t \in Loopers : at[t] \in Quitting \cup
       {"none", "waiting", "callback", "calling", "leaving", "ended"}
  /\ this \in [Threads -> Gens \cup {0}]
  /\ rpc \in Gens \cup {0} /\ lp \in Gens \cup {0}
  /\ client \in [Gens -> Lives] /\ looper \in [Gens -> Lives]
  /\ stop \in [Gens -> BOOLEAN] /\ over \in [Gens -> BOOLEAN]
  /\ transport \in [Gens -> 0 .. 2] /\ taken \in 0 .. 2
  /\ queue \in [Gens -> Seq(0 .. MaxPost + MaxInit)]
  /\ {posted, handed} \subseteq [Gens -> 0 .. MaxPost + MaxInit]
  /\ cb \in Threads \cup {NONE} /\ {relocked, crossed, inside} \subseteq BOOLEAN
  /\ fault \in Faults

Init ==
  /\ at = [t \in Threads |-> IF t = App THEN "idle" ELSE "none"]
  /\ this = [t \in Threads |-> 0]
  /\ rpc = 0 /\ lp = 0 /\ taken = 0
  /\ client = [c \in Gens |-> "unmade"] /\ looper = [l \in Gens |-> "unmade"]
  /\ stop = [c \in Gens |-> FALSE] /\ over = [c \in Gens |-> FALSE]
  /\ transport = [c \in Gens |-> 0]
  /\ queue = [l \in Gens |-> << >>]
  /\ posted = [l \in Gens |-> 0] /\ handed = [l \in Gens |-> 0]
  /\ cb = NONE /\ relocked = FALSE /\ crossed = FALSE /\ inside = FALSE
  /\ fault = "none"

GoTo(t, place) == at' = [at EXCEPT ![t] = place]

-----------------------------------------------------------------------------
(***************************************************************************)
(* The looper.                                                             *)
(***************************************************************************)

\* Fault: the message goes before those that wait.
FaultAddAtHead(l, msg) == queue' = [queue EXCEPT ![l] = <<msg>> \o @]

\* Fault: quit is posted with flush.
FaultQuitFlushes(l, msg) ==
  queue' = [queue EXCEPT ![l] = IF msg = QUIT THEN <<QUIT>> ELSE Append(@, msg)]

\* addmsg without flush, which no caller asks for; its semaphores make it one
\* step.
addmsg(l, msg) == queue' = [queue EXCEPT ![l] = Append(@, msg)]

\* zhw_bs_recv_db_idx, zhw_bs_recv_callback, zhw_bc_recv_progress.
post ==
  /\ lp # 0
  /\ addmsg(lp, posted[lp] + 1)
  /\ posted' = [posted EXCEPT ![lp] = @ + 1]
  /\ UNCHANGED handed

\* loop(): the next message; quit ends the thread. A looper deleted by a
\* callback of its own may find its memory as it was.
LooperTakes(l) ==
  LET t == Looper(l)
  IN /\ at[t] = "waiting" /\ queue[l] # << >>
     /\ queue' = [queue EXCEPT ![l] = Tail(@)]
     /\ IF Head(queue[l]) = QUIT
        THEN GoTo(t, "ended") /\ UNCHANGED handed
        ELSE GoTo(t, "callback") /\ handed' = [handed EXCEPT ![l] = Head(queue[l])]
     /\ UNCHANGED <<objects, session, locks, posted, this, taken, fault>>

\* Fault: the lock is not taken.
FaultNoLock(t) ==
  /\ at[t] = "callback"
  /\ GoTo(t, "calling") /\ cb' = t
  /\ UNCHANGED <<objects, traffic, session, relocked, crossed, inside, this, taken, fault>>

\* A Proc function takes the lock, calls the application and unlocks.
CallbackBegins(t) ==
  /\ at[t] = "callback" /\ cb = NONE
  /\ GoTo(t, "calling") /\ cb' = t
  /\ UNCHANGED <<objects, traffic, session, relocked, crossed, inside, this, taken, fault>>

CallbackEnds(t) ==
  /\ at[t] \in {"calling", "leaving"}
  /\ GoTo(t, IF t \in Workers THEN "loop" ELSE "waiting") /\ cb' = NONE
  /\ UNCHANGED <<objects, traffic, session, relocked, crossed, inside, this, taken, fault>>

\* The application quits the client from a callback of the looper.
CallbackQuit(l) ==
  /\ CallbackQuits /\ at[Looper(l)] = "calling"
  /\ GoTo(Looper(l), "quit") /\ inside' = TRUE
  /\ UNCHANGED <<objects, traffic, session, cb, relocked, crossed, this, taken, fault>>

-----------------------------------------------------------------------------
(***************************************************************************)
(* zhw_bs_quit, which the application's thread, a refused worker and a      *)
(* callback run.                                                           *)
(***************************************************************************)

\* ~CBSClient asks the worker to stop ...
Destroy(t) ==
  /\ at[t] = "quit"
  /\ IF rpc = 0
     THEN GoTo(t, "quitLooper") /\ UNCHANGED <<this, stop>>
     ELSE /\ at[Worker(rpc)] # "none"
          /\ stop' = [stop EXCEPT ![rpc] = TRUE]
          /\ this' = [this EXCEPT ![t] = rpc]
          /\ GoTo(t, "join")
  /\ UNCHANGED <<objects, traffic, locks, transport, over, taken, fault>>

\* Fault: the worker is not waited for.
FaultNotJoined(thread, caller) ==
  thread \in Workers \/ thread = caller \/ at[thread] = "ended"

\* Fault: a thread that joins itself waits.
FaultJoinsItself(thread, caller) == at[thread] = "ended"

\* pthread_join fails at once for the calling thread.
HasEnded(thread, caller) == thread = caller \/ at[thread] = "ended"

\* ... waits for it, frees what the client owns; delete runs the destructor
\* again, whose join of a thread joined before fails, and frees the object.
Joined(t) ==
  /\ at[t] = "join" /\ HasEnded(Worker(this[t]), t)
  /\ client[this[t]] = "alive"
  /\ client' = [client EXCEPT ![this[t]] = "freed"] /\ rpc' = 0
  /\ transport' = [transport EXCEPT ![this[t]] = 0]
  /\ GoTo(t, "quitLooper") /\ this' = [this EXCEPT ![t] = 0]
  /\ UNCHANGED <<traffic, stop, over, locks, lp, looper, taken, fault>>

\* Fault: every thread but the application's goes on as the worker does.
FaultReturned(t) == GoTo(t, IF t = App THEN "idle" ELSE "loop")

\* Where a thread goes on after zhw_bs_quit: the worker reports the refusal,
\* loginError.
Returned(t) ==
  GoTo(t, IF t = App THEN "idle" ELSE IF t \in Workers THEN "callback" ELSE "leaving")

QuitLooper(t) ==
  /\ at[t] = "quitLooper"
  /\ IF lp = 0
     THEN Returned(t) /\ UNCHANGED <<this, queue>>
     ELSE /\ addmsg(lp, QUIT) /\ this' = [this EXCEPT ![t] = lp]
          /\ GoTo(t, "joinLooper")
  /\ UNCHANGED <<objects, session, locks, posted, handed, taken, fault>>

JoinedLooper(t) ==
  /\ at[t] = "joinLooper" /\ HasEnded(Looper(this[t]), t)
  /\ looper[this[t]] = "alive"
  /\ looper' = [looper EXCEPT ![this[t]] = "freed"] /\ lp' = 0
  /\ Returned(t) /\ this' = [this EXCEPT ![t] = 0]
  /\ UNCHANGED <<traffic, session, locks, rpc, client, taken, fault>>

-----------------------------------------------------------------------------
(***************************************************************************)
(* The application's thread.                                               *)
(***************************************************************************)

\* smartdog_scango_dcframe_BSClient_init initialises the lock anew, then
\* zhw_bs_initialize makes a client and starts its worker. Without a socket
\* or a thread the client stays, without a worker.
Initialize ==
  /\ at[App] = "idle"
  /\ cb' = NONE /\ relocked' = (relocked \/ cb # NONE)
  /\ \/ rpc # 0 /\ UNCHANGED <<rpc, client, at, crossed>>
     \/ \E c \in Gens :
          /\ rpc = 0 /\ \A d \in Gens : (client[d] = "unmade") <=> (d >= c)
          /\ rpc' = c /\ client' = [client EXCEPT ![c] = "alive"]
          /\ crossed' = (crossed \/ \E t \in Threads \ {App} : at[t] \notin {"none", "ended"})
          /\ \/ UNCHANGED at
             \/ at' = [at EXCEPT ![Worker(c)] = "loop", ![App] = "making"]
  /\ UNCHANGED <<traffic, session, inside, lp, looper, this, taken, fault>>

\* Only then the looper, unless an old one is still there.
MakeLooper ==
  /\ at[App] = "making"
  /\ \/ lp # 0 /\ GoTo(App, "idle") /\ UNCHANGED <<lp, looper>>
     \/ \E l \in Gens :
          /\ lp = 0 /\ \A d \in Gens : (looper[d] = "unmade") <=> (d >= l)
          /\ lp' = l /\ looper' = [looper EXCEPT ![l] = "alive"]
          /\ at' = [at EXCEPT ![Looper(l)] = "waiting", ![App] = "idle"]
  /\ UNCHANGED <<traffic, session, locks, rpc, client, this, taken, fault>>

Quit ==
  /\ at[App] = "idle" /\ GoTo(App, "quit")
  /\ UNCHANGED <<objects, traffic, session, locks, this, taken, fault>>

\* SendMessage finds a sender and then sends with it; zhw_bs_active_server
\* finds a client and then asks it to send. No lock is held in between.
BeginSend ==
  /\ at[App] = "idle" /\ rpc # 0
  /\ \/ /\ transport[rpc] # 0 /\ taken' = transport[rpc]
        /\ GoTo(App, "sending") /\ this' = [this EXCEPT ![App] = rpc]
     \/ GoTo(App, "beating") /\ UNCHANGED <<this, taken>>
  /\ UNCHANGED <<objects, traffic, session, locks, fault>>

EndSend ==
  /\ \/ at[App] = "sending" /\ client[this[App]] = "alive" /\ transport[this[App]] = taken
     \/ at[App] = "beating" /\ rpc # 0
  /\ GoTo(App, "idle") /\ taken' = 0 /\ this' = [this EXCEPT ![App] = 0]
  /\ UNCHANGED <<objects, traffic, session, locks, fault>>

-----------------------------------------------------------------------------
(***************************************************************************)
(* The worker.                                                             *)
(***************************************************************************)

\* MainLoop and TryRecvSocketMsg look at m_stop_work, also in the memory of a
\* client the worker itself has freed.
Leave(c) ==
  /\ at[Worker(c)] = "loop" /\ stop[c]
  /\ GoTo(Worker(c), "ended")
  /\ UNCHANGED <<objects, traffic, session, locks, this, taken, fault>>

\* The bound on messages is kept here.
Arriving == IF lp # 0 /\ posted[lp] >= MaxPost
            THEN Datagrams \ {"server", "message"} ELSE Datagrams

\* A datagram is taken from the socket: the gateway's answer to a login, its
\* refusal, its logout, the server's login answer, another message.
Receive(c) ==
  /\ at[Worker(c)] = "loop" /\ ~stop[c] /\ client[c] = "alive"
  /\ \E d \in Arriving : GoTo(Worker(c), d)
  /\ UNCHANGED <<objects, traffic, session, locks, this, taken, fault>>

\* gateway_recv_msg_entry: an answer to a login means that the client works.
ProcLogin(c) ==
  /\ at[Worker(c)] = "login"
  /\ stop' = [stop EXCEPT ![c] = FALSE]
  /\ GoTo(Worker(c), "loop")
  /\ UNCHANGED <<objects, traffic, locks, transport, over, this, taken, fault>>

\* A refusal, which comes as MOD_CMD_BSG_LOGIN or as MOD_CMD_BSG_LOGIN_ERR.
ProcRefused(c) ==
  /\ at[Worker(c)] = "refused"
  /\ \E s \in BOOLEAN : stop' = [stop EXCEPT ![c] = s]
  /\ over' = [over EXCEPT ![c] = TRUE]
  /\ GoTo(Worker(c), "quit")
  /\ UNCHANGED <<objects, traffic, locks, transport, this, taken, fault>>

\* zhw_bs_recv_logout: the looper goes first, then the client.
ProcLogoutCmd(c) ==
  /\ at[Worker(c)] = "logout" /\ lp # 0
  /\ stop' = [stop EXCEPT ![c] = TRUE]
  /\ over' = [over EXCEPT ![c] = TRUE]
  /\ addmsg(lp, QUIT) /\ this' = [this EXCEPT ![Worker(c)] = lp]
  /\ GoTo(Worker(c), "logoutJoin")
  /\ UNCHANGED <<objects, locks, transport, posted, handed, taken, fault>>

LogoutJoined(c) ==
  LET l == this[Worker(c)]
  IN /\ at[Worker(c)] = "logoutJoin" /\ at[Looper(l)] = "ended"
     /\ looper[l] = "alive" /\ rpc # 0
     /\ looper' = [looper EXCEPT ![l] = "freed"] /\ lp' = 0
     /\ client' = [client EXCEPT ![rpc] = "freed"] /\ rpc' = 0
     /\ transport' = [transport EXCEPT ![rpc] = 0]
     /\ GoTo(Worker(c), "callback") /\ this' = [this EXCEPT ![Worker(c)] = 0]
  /\ UNCHANGED <<traffic, stop, over, locks, taken, fault>>

\* server_rsp_login replaces sender and receiver and reports the databases.
ProcServerLogin(c) ==
  /\ at[Worker(c)] = "server"
  /\ transport' = [transport EXCEPT ![c] = IF @ = 1 THEN 2 ELSE 1]
  /\ post /\ GoTo(Worker(c), "loop")
  /\ UNCHANGED <<objects, locks, stop, over, this, taken, fault>>

\* An active answer, a message, a report of progress.
ProcMessage(c) ==
  /\ at[Worker(c)] = "message"
  /\ post /\ GoTo(Worker(c), "loop")
  /\ UNCHANGED <<objects, session, locks, this, taken, fault>>

-----------------------------------------------------------------------------
(***************************************************************************)
(* The undefined steps.                                                    *)
(***************************************************************************)

Freed(t) ==
  \/ t \in Workers /\ at[t] = "loop" /\ client[t[2]] = "freed"
  \/ at[t] = "join" /\ HasEnded(Worker(this[t]), t) /\ client[this[t]] = "freed"
  \/ at[t] = "sending" /\ client[this[t]] = "freed"

LooperFreed(t) ==
  \/ t \in Loopers /\ at[t] = "waiting" /\ looper[t[2]] = "freed"
  \/ at[t] = "joinLooper" /\ HasEnded(Looper(this[t]), t) /\ looper[this[t]] = "freed"
  \/ at[t] = "logoutJoin" /\ looper[this[t]] = "freed"

Undefined ==
  /\ \E t \in Threads :
       \/ at[t] \in {"server", "message", "logout"} /\ lp = 0 /\ fault' = "noLooper"
       \/ at[t] \in {"beating", "logoutJoin"} /\ rpc = 0 /\ fault' = "noClient"
       \/ Freed(t) /\ fault' = "clientFreed"
       \/ LooperFreed(t) /\ fault' = "looperFreed"
       \/ /\ at[t] = "sending" /\ client[this[t]] = "alive" /\ transport[this[t]] # taken
          /\ fault' = "senderFreed"
       \/ /\ at[t] = "quit" /\ rpc # 0 /\ at[Worker(rpc)] = "none"
          /\ fault' = "joinUnstarted"
  /\ UNCHANGED <<at, this, objects, traffic, session, locks, taken>>

\* The steps a thread takes by itself.
OfQuit(t) == Destroy(t) \/ Joined(t) \/ QuitLooper(t) \/ JoinedLooper(t)
OfApp == MakeLooper \/ EndSend \/ OfQuit(App)
OfLooper(l) ==
  LET t == Looper(l)
  IN LooperTakes(l) \/ CallbackBegins(t) \/ CallbackEnds(t) \/ OfQuit(t)
OfWorker(c) ==
  LET t == Worker(c)
  IN \/ Leave(c) \/ ProcLogin(c) \/ ProcRefused(c) \/ ProcLogoutCmd(c) \/ LogoutJoined(c)
     \/ ProcServerLogin(c) \/ ProcMessage(c)
     \/ CallbackBegins(t) \/ CallbackEnds(t) \/ OfQuit(t)

Next ==
  /\ fault = "none"
  /\ \/ Initialize \/ Quit \/ BeginSend \/ OfApp
     \/ \E g \in Gens : Receive(g) \/ OfWorker(g) \/ OfLooper(g) \/ CallbackQuit(g)
     \/ Undefined

Spec == Init /\ [][Next]_vars

\* Every thread that can go on goes on. No fairness for what the application
\* begins, for the datagrams, nor for a callback that quits; callbacks return.
Fairness ==
  /\ WF_vars(fault = "none" /\ Undefined) /\ WF_vars(fault = "none" /\ OfApp)
  /\ \A g \in Gens : /\ WF_vars(fault = "none" /\ OfWorker(g))
                     /\ WF_vars(fault = "none" /\ OfLooper(g))
FairSpec == Spec /\ Fairness

-----------------------------------------------------------------------------
(***************************************************************************)
(* Properties.                                                             *)
(***************************************************************************)

\* A looper ends with nothing left: the worker, which alone posts, has ended
\* before or ends the looper itself, and quit goes behind all it posted. Not
\* so when a client is made while an older worker is still on its way out: it
\* gets the looper that worker is about to end.
NothingLost ==
  crossed \/ \A l \in Gens : at[Looper(l)] = "ended" => handed[l] = posted[l]

\* When quit has returned no thread of a client runs and no callback comes,
\* unless the gateway ended the session or a callback had called quit.
QuietAfterQuit ==
  at[App] = "idle" /\ rpc = 0 /\ lp = 0 /\ fault = "none" /\ ~inside =>
    \A g \in Gens : /\ at[Looper(g)] \in {"none", "ended"}
                    /\ ~over[g] => at[Worker(g)] \in {"none", "ended"}

\* The application is called by one thread at a time, unless init was called
\* while a callback ran.
InCallback == {t \in Threads : at[t] = "calling"}
              \cup {t \in Loopers : at[t] \in {"leaving"} \cup Quitting}
OneCallback == relocked \/ Cardinality(InCallback) <= 1

\* Where the application alone ends the client, from a thread of its own, no
\* freed object is used and no pointer is null, but for two cases: a message
\* is posted before the looper is made, and a sender is replaced while the
\* application sends with it.
FaultsExplained ==
  /\ fault \in {"clientFreed", "looperFreed", "noClient"} =>
       inside \/ \E c \in Gens : over[c]
  /\ fault = "noLooper" => at[App] = "making" \/ inside \/ \E c \in Gens : over[c]
  /\ fault = "senderFreed" => at[App] = "sending"

\* The worker cleared the request to stop that quit waits for.
Withdrawn == at[App] = "join" /\ ~stop[this[App]]

\* A call of quit returns, unless a datagram that was being handled withdrew
\* its request, or a callback called quit.
QuitReturns ==
  at[App] \in Quitting ~> at[App] = "idle" \/ fault # "none" \/ Withdrawn \/ inside

\* A message that was posted reaches the application, unless a callback
\* called quit.
PostedIsHanded ==
  \A l \in Gens : posted[l] > handed[l] ~> posted[l] = handed[l] \/ fault # "none" \/ inside \/ crossed

\* What MainLoop says of m_stop_work: who has asked the worker to end gets it
\* to end.
StopIsObeyed ==
  at[App] = "join" ~> at[App] # "join" \/ fault # "none" \/ inside
=============================================================================
