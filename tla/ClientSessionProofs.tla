------------------------ MODULE ClientSessionProofs ------------------------
(***************************************************************************)
(* For any servers, codes, timeouts and channel: the fields stay in their  *)
(* ranges, a timer is always armed, and a session is held with the server  *)
(* the gateway named last.                                                 *)
(***************************************************************************)
EXTENDS ClientSession, TLAPS

USE ConstantsAssumption

\* A login answer in flight carries a code its sender handed out: what makes
\* the comparison of addresses in TryRecvSocketMsg enough.
HonestAnswers == \A m \in net : m.type = "sv_ok" => issuer[m.code] = m.from

IInv == TypeOK /\ RetryArmed /\ SessionOfService /\ HonestAnswers

\* After a transmission every datagram in flight was there before or is new.
LEMMA TransmitKeeps ==
  ASSUME NEW out, Transmit(out), net \in SUBSET Msgs, out \in SUBSET Msgs
  PROVE  /\ net' \in SUBSET Msgs
         /\ \A m \in net' : m \in net \/ m \in out
<1>1. net' \in SUBSET (net \cup out)
  BY DEF Transmit
<1> QED
  BY <1>1

\* A datagram that carries no login answer leaves HonestAnswers alone.
LEMMA OtherMessages ==
  ASSUME TypeOK, HonestAnswers, UNCHANGED issuer, NEW out, out \in SUBSET Msgs,
         Transmit(out), \A m \in out : m.type # "sv_ok"
  PROVE  net' \in SUBSET Msgs /\ HonestAnswers'
<1>1. net' \in SUBSET Msgs /\ \A m \in net' : m \in net \/ m \in out
  BY TransmitKeeps DEF TypeOK
<1> QED
  BY <1>1 DEF HonestAnswers

\* Every datagram but sv_ok, by constructor.
LEMMA Requests ==
  /\ {} \in SUBSET Msgs
  /\ {GwLogin} \in SUBSET Msgs
  /\ \A s \in Servers : {SvLogin(s)} \in SUBSET Msgs
  /\ \A s \in AnyServer, c \in AnyCode : {Active(s, c)} \in SUBSET Msgs
  /\ \A m \in {GwLogin} : m.type # "sv_ok"
  /\ \A s \in Servers : \A m \in {SvLogin(s)} : m.type # "sv_ok"
  /\ \A s \in AnyServer, c \in AnyCode : \A m \in {Active(s, c)} : m.type # "sv_ok"
BY DEF Msgs, GwLogin, SvLogin, Active

\* gateway_login restores the invariant from any state.
LEMMA LoginKeeps ==
  ASSUME TypeOK, HonestAnswers, GatewayLogin, client' = "up"
  PROVE  IInv'
<1>1. net' \in SUBSET Msgs /\ HonestAnswers'
  BY OtherMessages, Requests DEF GatewayLogin
<1>2. TypeOK'
  BY <1>1 DEF GatewayLogin, TypeOK
<1>3. RetryArmed' /\ SessionOfService'
  BY DEF GatewayLogin, RetryArmed, SessionOfService, Pending, Up
<1> QED
  BY <1>1, <1>2, <1>3 DEF IInv

LEMMA StartKeeps == ASSUME IInv, Start PROVE IInv'
BY LoginKeeps DEF IInv, Start

LEMMA TickKeeps == ASSUME IInv, Tick PROVE IInv'
<1>1. CASE loginTicks + 1 >= LOGIN_TICKS
  BY <1>1, LoginKeeps DEF IInv, Tick, Up
<1>2. CASE ~ (loginTicks + 1 >= LOGIN_TICKS)
  <2>1. loginTicks' = loginTicks + 1
        /\ UNCHANGED <<client, gateway_state, server_state, noack, service, code,
                       transport, app, issuer, net>>
    BY <1>2 DEF Tick
  <2>2. TypeOK'
    BY <1>2, <2>1 DEF IInv, TypeOK
  <2> QED
    BY <2>1, <2>2 DEF IInv, RetryArmed, SessionOfService, HonestAnswers, Pending, Up
<1> QED
  BY <1>1, <1>2

LEMMA KeepAliveKeeps == ASSUME IInv, KeepAlive PROVE IInv'
<1>1. CASE noack + 1 >= MAX_ACTIVE_NOACK_TIMES
  BY <1>1, LoginKeeps DEF IInv, KeepAlive, Up
<1>2. CASE ~ (noack + 1 >= MAX_ACTIVE_NOACK_TIMES)
  <2>1. noack' = noack + 1 /\ Transmit({Active(service, code)})
        /\ UNCHANGED <<client, gateway_state, server_state, loginTicks, service, code,
                       transport, app, issuer>>
    BY <1>2 DEF KeepAlive
  <2>2. net' \in SUBSET Msgs /\ HonestAnswers'
    BY <2>1, OtherMessages, Requests DEF IInv, TypeOK
  <2>3. TypeOK'
    BY <1>2, <2>1, <2>2 DEF IInv, TypeOK
  <2> QED
    BY <2>1, <2>2, <2>3 DEF IInv, RetryArmed, SessionOfService, Pending, Up
<1> QED
  BY <1>1, <1>2

LEMMA GatewayAcceptsKeeps == ASSUME IInv, GatewayAccepts PROVE IInv'
<1>1. PICK m \in net : m.type = "gw_ok" /\ service' = m.service /\ Transmit({SvLogin(m.service)})
  BY DEF GatewayAccepts
<1>2. m.service \in Servers
  BY <1>1 DEF IInv, TypeOK, Msgs, GwLogin, GwError, GwLogout
<1>3. net' \in SUBSET Msgs /\ HonestAnswers'
  BY <1>1, <1>2, OtherMessages, Requests DEF IInv, GatewayAccepts, Deaf
<1>4. TypeOK'
  BY <1>1, <1>2, <1>3 DEF IInv, GatewayAccepts, Deaf, TypeOK, AnyServer
<1> QED
  BY <1>3, <1>4 DEF IInv, GatewayAccepts, RetryArmed, SessionOfService, Pending, Up

\* Deleting the client: nothing is left to hold.
LEMMA DestroyKeeps ==
  ASSUME IInv, Destroy, app' \in {"idle", "sending"}, net' \in SUBSET Msgs, HonestAnswers'
  PROVE  IInv'
BY DEF IInv, Destroy, TypeOK, RetryArmed, SessionOfService, Up, AnyServer, AnyCode

LEMMA EndKeeps ==
  ASSUME IInv, GatewayRefuses \/ GatewayLogsOut \/ AppQuits PROVE IInv'
<1>1. CASE GatewayRefuses \/ GatewayLogsOut
  <2>1. net' \in SUBSET Msgs /\ HonestAnswers'
    BY <1>1, OtherMessages, Requests DEF IInv, GatewayRefuses, GatewayLogsOut, Destroy
  <2> QED
    BY <1>1, <2>1, DestroyKeeps DEF IInv, TypeOK, GatewayRefuses, GatewayLogsOut
<1>2. CASE AppQuits
  <2>1. net' \in SUBSET Msgs /\ HonestAnswers'
    BY <1>2 DEF IInv, TypeOK, AppQuits, Destroy, HonestAnswers
  <2> QED
    BY <1>2, <2>1, DestroyKeeps DEF IInv, TypeOK, AppQuits
<1> QED
  BY <1>1, <1>2

LEMMA ServerAcceptsKeeps == ASSUME IInv, ServerAccepts PROVE IInv'
<1>1. PICK m \in net : /\ m.type = "sv_ok" /\ FromService(m)
                       /\ code' = m.code /\ transport' = m.code
  BY DEF ServerAccepts
<1>2. m.code \in Codes /\ issuer[m.code] = service /\ service \in Servers
  BY <1>1 DEF IInv, HonestAnswers, FromService, TypeOK, Msgs, GwLogin, GwError, GwLogout
<1>3. net' \in SUBSET Msgs /\ HonestAnswers'
  BY OtherMessages, Requests DEF IInv, ServerAccepts, Deaf
<1>4. TypeOK'
  BY <1>1, <1>2, <1>3 DEF IInv, ServerAccepts, Deaf, TypeOK, AnyCode
<1>5. RetryArmed'
  BY DEF ServerAccepts, RetryArmed
<1>6. SessionOfService'
  BY <1>1, <1>2 DEF ServerAccepts, Deaf, SessionOfService
<1> QED
  BY <1>3, <1>4, <1>5, <1>6 DEF IInv

LEMMA OtherAnswersKeep ==
  ASSUME IInv, ServerRefuses \/ ServerLogsOut \/ Heard PROVE IInv'
<1>1. net' \in SUBSET Msgs /\ HonestAnswers'
  BY OtherMessages, Requests DEF IInv, ServerRefuses, ServerLogsOut, Heard, Deaf
<1>2. TypeOK'
  BY <1>1 DEF IInv, TypeOK, ServerRefuses, ServerLogsOut, Heard, Deaf
<1>3. RetryArmed' /\ SessionOfService'
  BY DEF IInv, ServerRefuses, ServerLogsOut, Heard, Deaf, RetryArmed, SessionOfService,
         Pending, Up
<1> QED
  BY <1>1, <1>2, <1>3 DEF IInv

LEMMA ApplicationKeeps == ASSUME IInv, Application PROVE IInv'
<1>1. CASE AppChecks
  BY <1>1 DEF AppChecks, IInv, TypeOK, RetryArmed, SessionOfService, HonestAnswers,
              Pending, Up
<1>2. CASE AppSends
  <2>1. net' \in SUBSET Msgs /\ HonestAnswers'
    BY <1>2, OtherMessages, Requests DEF IInv, TypeOK, AppSends
  <2> QED
    BY <1>2, <2>1 DEF AppSends, IInv, TypeOK, RetryArmed, SessionOfService, Pending, Up
<1>3. CASE AppQuits
  BY <1>3, EndKeeps
<1>4. CASE AppInitializes
  BY <1>4 DEF AppInitializes, IInv, TypeOK, RetryArmed, SessionOfService, HonestAnswers, Up
<1> QED
  BY <1>1, <1>2, <1>3, <1>4 DEF Application

\* A server hands out a code once, so an answer in flight stays honest.
LEMMA ServerAnswersKeeps == ASSUME IInv, ServerAnswers PROVE IInv'
<1>1. PICK m \in net :
        /\ m.type = "sv_login"
        /\ \/ \E c \in Codes : /\ issuer[c] = NoServer
                               /\ issuer' = [issuer EXCEPT ![c] = m.to]
                               /\ Transmit({SvOk(m.to, c)})
           \/ Transmit({SvError(m.to)}) /\ UNCHANGED issuer
  BY DEF ServerAnswers
<1>2. m.to \in Servers
  BY <1>1 DEF IInv, TypeOK, Msgs, GwLogin, GwError, GwLogout
<1>3. UNCHANGED <<client, gateway_state, server_state, loginTicks, noack, service, code,
                  transport, app>>
  BY DEF ServerAnswers, ClientAsleep
<1>4. CASE Transmit({SvError(m.to)}) /\ UNCHANGED issuer
  <2>1. {SvError(m.to)} \in SUBSET Msgs /\ \A n \in {SvError(m.to)} : n.type # "sv_ok"
    BY <1>2 DEF SvError, Msgs
  <2>2. net' \in SUBSET Msgs /\ HonestAnswers'
    BY <1>4, <2>1, OtherMessages DEF IInv
  <2> QED
    BY <1>3, <1>4, <2>2 DEF IInv, TypeOK, RetryArmed, SessionOfService, Pending, Up
<1>5. ASSUME NEW c \in Codes, issuer[c] = NoServer,
             issuer' = [issuer EXCEPT ![c] = m.to], Transmit({SvOk(m.to, c)})
      PROVE  IInv'
  <2>1. {SvOk(m.to, c)} \in SUBSET Msgs
    BY <1>2 DEF SvOk, Msgs
  <2>2. net' \in SUBSET Msgs /\ \A n \in net' : n \in net \/ n = SvOk(m.to, c)
    BY <1>5, <2>1, TransmitKeeps DEF IInv, TypeOK
  <2>3. issuer' \in [Codes -> AnyServer] /\ issuer'[c] = m.to
        /\ \A d \in Codes : issuer[d] # NoServer => issuer'[d] = issuer[d]
    BY <1>2, <1>5 DEF IInv, TypeOK, AnyServer
  <2>4. HonestAnswers'
    <3> SUFFICES ASSUME NEW n \in net', n.type = "sv_ok" PROVE issuer'[n.code] = n.from
      BY DEF HonestAnswers
    <3>1. CASE n \in net
      <4>1. n.code \in Codes /\ n.from \in Servers
        BY <3>1 DEF IInv, TypeOK, Msgs, GwLogin, GwError, GwLogout
      <4>2. issuer[n.code] = n.from
        BY <3>1 DEF IInv, HonestAnswers
      <4> QED
        BY <4>1, <4>2, <2>3
    <3>2. CASE n = SvOk(m.to, c)
      BY <3>2, <2>3 DEF SvOk
    <3> QED
      BY <2>2, <3>1, <3>2
  <2>5. TypeOK'
    BY <1>3, <2>2, <2>3 DEF IInv, TypeOK
  <2>6. RetryArmed'
    BY <1>3 DEF IInv, RetryArmed, Pending, Up
  <2>7. SessionOfService'
    <3> SUFFICES ASSUME Up, server_state = 2
                 PROVE  /\ service \in Servers /\ code \in Codes
                        /\ transport = code /\ issuer'[code] = service
      BY <1>3 DEF SessionOfService, Up
    <3>1. /\ service \in Servers /\ code \in Codes
          /\ transport = code /\ issuer[code] = service
      BY DEF IInv, SessionOfService
    <3> QED
      BY <2>3, <3>1
  <2> QED
    BY <2>2, <2>4, <2>5, <2>6, <2>7 DEF IInv
<1> QED
  BY <1>1, <1>4, <1>5

LEMMA EnvironmentKeeps == ASSUME IInv, Environment PROVE IInv'
<1>1. CASE ServerAnswers
  BY <1>1, ServerAnswersKeeps
<1>2. CASE GatewayAnswers \/ GatewayKicks \/ ServerAcks \/ ServerSpeaks
  <2>1. UNCHANGED <<client, gateway_state, server_state, loginTicks, noack, service, code,
                    transport, app, issuer>>
    BY <1>2 DEF GatewayAnswers, GatewayKicks, ServerAcks, ServerSpeaks, ClientAsleep
  <2>2. \E m \in Msgs : m.type # "sv_ok" /\ Transmit({m})
    <3>1. CASE GatewayAnswers
      BY <3>1 DEF GatewayAnswers, GwOk, GwError, Msgs
    <3>2. CASE GatewayKicks
      BY <3>2 DEF GatewayKicks, GwLogout, Msgs
    <3>3. CASE ServerAcks
      <4>1. PICK m \in net : m.code \in Codes /\ m.to \in Servers
                             /\ Transmit({ActiveAck(m.to, m.code)})
        BY <3>3 DEF ServerAcks
      <4> QED
        BY <4>1 DEF ActiveAck, Msgs
    <3>4. CASE ServerSpeaks
      <4>1. PICK c \in Codes : /\ issuer[c] # NoServer
                               /\ \/ Transmit({SvLogout(issuer[c], c)})
                                  \/ Transmit({SureFrame(issuer[c], c)})
        BY <3>4 DEF ServerSpeaks
      <4>2. issuer[c] \in Servers
        BY <4>1 DEF IInv, TypeOK, AnyServer
      <4> QED
        BY <4>1, <4>2 DEF SvLogout, SureFrame, Msgs
    <3> QED
      BY <1>2, <3>1, <3>2, <3>3, <3>4
  <2>3. PICK m \in Msgs : m.type # "sv_ok" /\ Transmit({m})
    BY <2>2
  <2>4. net' \in SUBSET Msgs /\ HonestAnswers'
    BY <2>1, <2>3, OtherMessages DEF IInv
  <2> QED
    BY <2>1, <2>4 DEF IInv, TypeOK, RetryArmed, SessionOfService, Pending, Up
<1> QED
  BY <1>1, <1>2 DEF Environment

LEMMA InitHolds == Init => IInv
BY DEF Init, IInv, TypeOK, RetryArmed, SessionOfService, HonestAnswers, Up, AnyServer, AnyCode

LEMMA NextKeeps == ASSUME IInv, [Next]_vars PROVE IInv'
<1>1. CASE Worker
  BY <1>1, StartKeeps, TickKeeps, KeepAliveKeeps, GatewayAcceptsKeeps, EndKeeps,
     ServerAcceptsKeeps, OtherAnswersKeep DEF Worker
<1>2. CASE Application
  BY <1>2, ApplicationKeeps
<1>3. CASE Environment
  BY <1>3, EnvironmentKeeps
<1>4. CASE UNCHANGED vars
  BY <1>4 DEF vars, IInv, TypeOK, RetryArmed, SessionOfService, HonestAnswers, Pending, Up
<1> QED
  BY <1>1, <1>2, <1>3, <1>4 DEF Next

\* The inductive invariant of the session.
THEOREM SessionInductive == Spec => []IInv
BY InitHolds, NextKeeps, PTL DEF Spec

\* The fields of CBSClient stay in the ranges of bsc_rpc.h, the counters below
\* the limits MainLoop and TimerEntry compare them with.
THEOREM SessionTypeCorrect == Spec => []TypeOK
BY SessionInductive, PTL DEF IInv

\* One of MainLoop's timers is always armed: no order of answers leaves the
\* client logged out for good.
THEOREM AlwaysRetries == Spec => []RetryArmed
BY SessionInductive, PTL DEF IInv

\* Code and transport of a session come from the server the gateway named last.
THEOREM SessionIsOfService == Spec => []SessionOfService
BY SessionInductive, PTL DEF IInv
=============================================================================
