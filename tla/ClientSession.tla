--------------------------- MODULE ClientSession ---------------------------
(***************************************************************************)
(* The session of CBSClient (bsc_rpc.cpp): the worker thread logs in at    *)
(* the gateway (BSG), which names a server (BSS), logs in there, receives  *)
(* a code (cirtifyid) and builds the reliable transport with it; timers    *)
(* retry a login and watch the session. Answers come over UDP, carry no    *)
(* request number, and are accepted in every state. What the transport     *)
(* carries is the matter of FrameTransfer; here it is the code it was      *)
(* created with.                                                           *)
(***************************************************************************)
EXTENDS Integers, FiniteSets

CONSTANTS
  Servers,                 \* addresses the gateway may name
  NoServer,                \* any other value of m_dwServiceIP, m_wServicePort
  Codes,                   \* bound: codes the servers hand out altogether
  NoCode,                  \* cirtifyid 0, and: no transport
  LOGIN_TICKS,             \* TIMEOUT_SPBC_GB_LOGIN / TIMEOUT_SPBC_1S: 10
  MAX_ACTIVE_NOACK_TIMES,  \* keepalive periods without an answer: 3
  MaxInFlight              \* bound: datagrams the channel holds at once

ASSUME ConstantsAssumption ==
  /\ NoServer \notin Servers /\ NoCode \notin Codes
  /\ LOGIN_TICKS \in Nat \ {0} /\ MAX_ACTIVE_NOACK_TIMES \in Nat \ {0}
  /\ MaxInFlight \in Nat

VARIABLES
  client,          \* the object g_bsc_rpc: created, its worker running, deleted
  gateway_state,   \* m_gateway_state
  server_state,    \* m_server_state
  loginTicks,      \* dwLoginTimeout, in seconds
  noack,           \* m_times_noack_with_server
  service,         \* m_dwServiceIP, m_wServicePort
  code,            \* m_sbs_cirtifyid
  transport,       \* the code of m_SafeFrame_Sender and m_SafeFrame_Recver
  app,             \* an application thread inside zhw_bs_active_server
  issuer,          \* environment: the server that handed out a code
  net              \* datagrams in flight, both directions

vars == <<client, gateway_state, server_state, loginTicks, noack, service, code,
          transport, app, issuer, net>>

\* Requests of the client.
GwLogin      == [type |-> "gw_login"]
SvLogin(s)   == [type |-> "sv_login", to |-> s]
Active(s, c) == [type |-> "active", to |-> s, code |-> c]
\* Answers, and what gateway and server send of their own accord.
GwOk(s)         == [type |-> "gw_ok", service |-> s]
GwError         == [type |-> "gw_error"]
GwLogout        == [type |-> "gw_logout"]
SvOk(s, c)      == [type |-> "sv_ok", from |-> s, code |-> c]
SvError(s)      == [type |-> "sv_error", from |-> s]
SvLogout(s, c)  == [type |-> "sv_logout", from |-> s, code |-> c]
ActiveAck(s, c) == [type |-> "active_ack", from |-> s, code |-> c]
\* A reliable frame that completes a message or acknowledges one of ours.
SureFrame(s, c) == [type |-> "sure", from |-> s, code |-> c]

AnyServer == Servers \cup {NoServer}
AnyCode   == Codes \cup {NoCode}

Msgs ==
  {GwLogin, GwError, GwLogout}
    \cup [type : {"sv_login"}, to : Servers]
    \cup [type : {"active"}, to : AnyServer, code : AnyCode]
    \cup [type : {"gw_ok"}, service : Servers]
    \cup [type : {"sv_error"}, from : Servers]
    \cup [type : {"sv_ok", "sv_logout", "active_ack", "sure"}, from : Servers, code : Codes]

\* A step puts its datagrams in flight; any may vanish, and one that was
\* received may still be there to arrive again.
Transmit(out) ==
  net' \in {n \in SUBSET (net \cup out) : Cardinality(n) <= MaxInFlight}

Up == client = "up"
Deaf == UNCHANGED <<client, app, issuer>>

-----------------------------------------------------------------------------
(***************************************************************************)
(* The worker thread: MainLoop and its timers.                             *)
(***************************************************************************)

\* gateway_login: everything from the start.
GatewayLogin ==
  /\ gateway_state' = 1 /\ server_state' = 0
  /\ loginTicks' = 0 /\ noack' = 0
  /\ Transmit({GwLogin})
  /\ UNCHANGED <<service, code, transport, app, issuer>>

\* MainLoop is entered.
Start == client = "new" /\ client' = "up" /\ GatewayLogin

\* Fault: the time the server takes to answer a login is not counted.
FaultGatewayOnly == gateway_state = 1

\* A login is pending, at the gateway or at the server.
Pending == gateway_state = 1 \/ (gateway_state = 2 /\ server_state = 1)

\* Fault: the login is due one tick late.
FaultTickLate ==
  /\ Up /\ Pending
  /\ IF loginTicks >= LOGIN_TICKS THEN GatewayLogin
     ELSE /\ loginTicks' = loginTicks + 1
          /\ UNCHANGED <<gateway_state, server_state, noack, service, code, transport,
                         app, issuer, net>>
  /\ UNCHANGED client

\* The 1 s timer counts while a login is pending, and starts again when
\* TIMER_ID_SPBC_GB_LOGIN or TIMER_ID_SPBC_SV_LOGIN is due.
Tick ==
  /\ Up /\ Pending
  /\ IF loginTicks + 1 >= LOGIN_TICKS THEN GatewayLogin
     ELSE /\ loginTicks' = loginTicks + 1
          /\ UNCHANGED <<gateway_state, server_state, noack, service, code, transport,
                         app, issuer, net>>
  /\ UNCHANGED client

\* Fault: sending the keepalive frame counts as contact with the server.
FaultKeepAliveForgets ==
  /\ Up /\ server_state >= 2
  /\ noack' = 0 /\ Transmit({Active(service, code)})
  /\ UNCHANGED <<client, gateway_state, server_state, loginTicks, service, code,
                 transport, app, issuer>>

\* TIMER_ID_SPBC_PB_ACTIVE.
KeepAlive ==
  /\ Up /\ server_state >= 2
  /\ IF noack + 1 >= MAX_ACTIVE_NOACK_TIMES THEN GatewayLogin
     ELSE /\ noack' = noack + 1
          /\ Transmit({Active(service, code)})
          /\ UNCHANGED <<gateway_state, server_state, loginTicks, service, code,
                         transport, app, issuer>>
  /\ UNCHANGED client

-----------------------------------------------------------------------------
(***************************************************************************)
(* The worker thread: TryRecvSocketMsg and the handlers of the answers.    *)
(***************************************************************************)

\* gateway_rsp_login, without an error.
GatewayAccepts ==
  /\ Up
  /\ \E m \in net :
       /\ m.type = "gw_ok"
       /\ service' = m.service
       /\ gateway_state' = 2 /\ server_state' = 1 /\ loginTicks' = 0
       /\ Transmit({SvLogin(m.service)})
  /\ UNCHANGED <<noack, code, transport>> /\ Deaf

\* ~CBSClient: the transport and all fields go with the object.
Destroy ==
  /\ client' = "gone"
  /\ gateway_state' = 0 /\ server_state' = 0 /\ loginTicks' = 0 /\ noack' = 0
  /\ service' = NoServer /\ code' = NoCode /\ transport' = NoCode
  /\ UNCHANGED issuer

\* gateway_rsp_login with an error: zhw_bs_quit, called by the worker itself.
GatewayRefuses ==
  /\ Up /\ GwError \in net
  /\ Destroy /\ Transmit({}) /\ UNCHANGED app

\* gateway_rsp_logout: zhw_bs_recv_logout.
GatewayLogsOut ==
  /\ Up /\ GwLogout \in net
  /\ Destroy /\ Transmit({}) /\ UNCHANGED app

\* Fault: the address a datagram came from is not compared.
FaultFromAnyone(m) == m.from \in Servers

\* The address a datagram came from is the one the gateway named last.
FromService(m) == m.from = service

\* server_rsp_login without an error: the transport is built anew, whatever the
\* old one still has to send.
ServerAccepts ==
  /\ Up
  /\ \E m \in net :
       /\ m.type = "sv_ok" /\ FromService(m)
       /\ code' = m.code /\ transport' = m.code
  /\ server_state' = 2 /\ loginTicks' = 0
  /\ Transmit({})
  /\ UNCHANGED <<gateway_state, noack, service>> /\ Deaf

\* server_rsp_login with an error.
ServerRefuses ==
  /\ Up /\ \E m \in net : m.type = "sv_error" /\ FromService(m)
  /\ server_state' = 3
  /\ Transmit({})
  /\ UNCHANGED <<gateway_state, loginTicks, noack, service, code, transport>> /\ Deaf

\* Fault: a forced logout leaves the gateway's state as it is.
FaultLogoutKeepsGateway ==
  /\ Up /\ \E m \in net : m.type = "sv_logout" /\ FromService(m) /\ m.code = code
  /\ server_state' = 0 /\ loginTicks' = LOGIN_TICKS - 1
  /\ Transmit({})
  /\ UNCHANGED <<gateway_state, noack, service, code, transport>> /\ Deaf

\* server_rsp_logout: one more tick, and the login starts again.
ServerLogsOut ==
  /\ Up /\ \E m \in net : m.type = "sv_logout" /\ FromService(m) /\ m.code = code
  /\ gateway_state' = 1 /\ server_state' = 0 /\ loginTicks' = LOGIN_TICKS - 1
  /\ Transmit({})
  /\ UNCHANGED <<noack, service, code, transport>> /\ Deaf

\* What resets the count of unanswered periods: server_rsp_active for the code of
\* the session, and a message the transport hands up (safe_frame_recv_callback,
\* safe_frame_Response_callback), for the code of the transport.
Heard ==
  /\ Up
  /\ \E m \in net :
       /\ \/ m.type = "active_ack" /\ FromService(m) /\ m.code = code
          \/ m.type = "sure" /\ FromService(m) /\ m.code = transport
  /\ noack' = 0
  /\ Transmit({})
  /\ UNCHANGED <<gateway_state, server_state, loginTicks, service, code, transport>>
  /\ Deaf

-----------------------------------------------------------------------------
(***************************************************************************)
(* The application's threads: zhw_bs_active_server reads the state, then   *)
(* sends with whatever the worker has written meanwhile. (A thread caught   *)
(* inside while the object is deleted is not followed any further.)        *)
(***************************************************************************)

AppChecks ==
  /\ client \in {"new", "up"} /\ app = "idle" /\ server_state = 2
  /\ app' = "sending"
  /\ UNCHANGED <<client, gateway_state, server_state, loginTicks, noack, service, code,
                 transport, issuer, net>>

AppSends ==
  /\ client \in {"new", "up"} /\ app = "sending" /\ app' = "idle"
  /\ Transmit({Active(service, code)})
  /\ UNCHANGED <<client, gateway_state, server_state, loginTicks, noack, service, code,
                 transport, issuer>>

\* zhw_bs_quit, by the application.
AppQuits ==
  /\ client \in {"new", "up"} /\ app = "idle"
  /\ Destroy /\ UNCHANGED <<app, net>>

\* zhw_bs_initialize, after a quit: datagrams of the old session may still arrive.
\* CBSClient() leaves the states and the server's address unset; the server's
\* state and its address can be read before the worker sets them.
AppInitializes ==
  /\ client = "gone" /\ client' = "new" /\ app' = "idle"
  /\ server_state' \in 0 .. 3 /\ service' \in AnyServer
  /\ UNCHANGED <<gateway_state, loginTicks, noack, code, transport, issuer, net>>

-----------------------------------------------------------------------------
(***************************************************************************)
(* Gateway and servers, as the client can see them.                        *)
(***************************************************************************)

ClientAsleep ==
  UNCHANGED <<client, gateway_state, server_state, loginTicks, noack, service, code,
              transport, app>>

GatewayAnswers ==
  /\ GwLogin \in net
  /\ \E answer \in {GwOk(s) : s \in Servers} \cup {GwError} : Transmit({answer})
  /\ UNCHANGED issuer /\ ClientAsleep

\* The user logged in elsewhere.
GatewayKicks == Transmit({GwLogout}) /\ UNCHANGED issuer /\ ClientAsleep

ServerAnswers ==
  /\ \E m \in net :
       /\ m.type = "sv_login"
       /\ \/ \E c \in Codes : /\ issuer[c] = NoServer
                              /\ issuer' = [issuer EXCEPT ![c] = m.to]
                              /\ Transmit({SvOk(m.to, c)})
          \/ Transmit({SvError(m.to)}) /\ UNCHANGED issuer
  /\ ClientAsleep

ServerAcks ==
  /\ \E m \in net : /\ m.type = "active" /\ m.code \in Codes
                    /\ m.to \in Servers /\ issuer[m.code] = m.to
                    /\ Transmit({ActiveAck(m.to, m.code)})
  /\ UNCHANGED issuer /\ ClientAsleep

ServerSpeaks ==
  /\ \E c \in Codes : /\ issuer[c] # NoServer
                      /\ \/ Transmit({SvLogout(issuer[c], c)})
                         \/ Transmit({SureFrame(issuer[c], c)})
  /\ UNCHANGED issuer /\ ClientAsleep

-----------------------------------------------------------------------------
Init ==
  /\ client = "new" /\ app = "idle"
  /\ server_state \in 0 .. 3 /\ service \in AnyServer
  /\ gateway_state = 0 /\ loginTicks = 0 /\ noack = 0
  /\ code = NoCode /\ transport = NoCode
  /\ issuer = [c \in Codes |-> NoServer] /\ net = {}

Worker ==
  \/ Start \/ Tick \/ KeepAlive
  \/ GatewayAccepts \/ GatewayRefuses \/ GatewayLogsOut
  \/ ServerAccepts \/ ServerRefuses \/ ServerLogsOut \/ Heard

Application == AppChecks \/ AppSends \/ AppQuits \/ AppInitializes

Environment ==
  GatewayAnswers \/ GatewayKicks \/ ServerAnswers \/ ServerAcks \/ ServerSpeaks

Next == Worker \/ Application \/ Environment

Spec == Init /\ [][Next]_vars

\* MainLoop comes round: its two timers fall due again and again.
FairSpec == Spec /\ WF_vars(Tick) /\ WF_vars(KeepAlive)

-----------------------------------------------------------------------------
(***************************************************************************)
(* Properties.                                                             *)
(***************************************************************************)

TypeOK ==
  /\ client \in {"new", "up", "gone"}
  /\ gateway_state \in 0 .. 2 /\ server_state \in 0 .. 3
  /\ loginTicks \in 0 .. LOGIN_TICKS - 1
  /\ noack \in 0 .. MAX_ACTIVE_NOACK_TIMES - 1
  /\ service \in AnyServer /\ code \in AnyCode /\ transport \in AnyCode
  /\ app \in {"idle", "sending"}
  /\ issuer \in [Codes -> AnyServer]
  /\ net \in SUBSET Msgs

\* Whatever answers arrive, late, twice or out of order, one of the timers of
\* MainLoop is armed: the client never rests logged out.
RetryArmed == Up => Pending \/ server_state >= 2

\* A session is held with the server the gateway named last: its code, and the
\* transport built with it, come from that server and from no earlier one.
SessionOfService ==
  (Up /\ server_state = 2) =>
    /\ service \in Servers /\ code \in Codes
    /\ transport = code /\ issuer[code] = service

\* A client that stays in a session hears from its server again and again: a
\* server that fell silent is noticed, by the count of unanswered periods.
SilenceNoticed ==
  <>[](Up /\ server_state >= 2) => []<><<Heard>>_vars

\* A client that stays logged out tries again and again, unless the gateway's
\* answers keep restarting the clock.
LoginRetried ==
  <>[](Up /\ server_state < 2)
    => []<><<Tick /\ GatewayLogin>>_vars \/ []<><<GatewayAccepts>>_vars
=============================================================================
