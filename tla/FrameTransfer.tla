--------------------------- MODULE FrameTransfer ---------------------------
(***************************************************************************)
(* The transfer of one multi-frame message by the sliding-window transport *)
(* of dcframe/tools/dtframe/dcf_dtframe.cpp: one FrameSend node of         *)
(* CMsgSender, the FrameRecv node of the peer's CMsgRecver, and a datagram *)
(* channel that loses, duplicates and reorders.                            *)
(*                                                                         *)
(* Congestion control is left open: the window a round uses, the ticks     *)
(* that end a round, the repeated asks that trigger a resend and the frame *)
(* counts after which the receiver answers are chosen freely, so that what *)
(* holds here holds for every pace NodeTimer_Jibie may set.                *)
(***************************************************************************)
EXTENDS BitTools, FiniteSets

CONSTANTS
  Total,              \* totalFrame: frames of the message, at least two
  RCV_WND,            \* g_swnd_size_table_rtt[wnd_table_size-1], in every ack
  SWD_BYTES,          \* bytes of msgSurebit
  RETRY_TOTAL_TIMES,  \* sends of one head frame before it is skipped
  SEND_DELAY_TIMES,   \* ticks between two unconditional resends of the head
  ACK_RETRY_TIMES,    \* send_times from which the receiver must answer
  MaxInFlight         \* bound: datagrams the channel holds at once

ASSUME ConstantsAssumption ==
  /\ Total \in Nat /\ Total >= 2
  /\ RCV_WND \in Nat \ {0}
  /\ BYTE_BITS \in Nat \ {0} /\ SWD_BYTES \in Nat \ {0}
  /\ RETRY_TOTAL_TIMES \in Nat \ {0} /\ SEND_DELAY_TIMES \in Nat \ {0}
  /\ ACK_RETRY_TIMES \in 1 .. RETRY_TOTAL_TIMES
  /\ MaxInFlight \in Nat \ {0}

MAX_WINDOW_SIZE == SWD_BYTES * BYTE_BITS

VARIABLES
  phase,      \* of the sender's node: the way FinishNode was reached
  node,       \* the control fields of FrameSend
  skips,      \* history: frames the sender gave up on (forced moves)
  rphase,     \* of the receiver's node: not there, in the list, finished
  rbegin,     \* FrameRecv.Frame_curBegin
  rbits,      \* FrameRecv.msgSurebit, as the set of its one bits
  saved,      \* history: frames copied into pRecvMsg by Multi_Save_Frame
  delivered,  \* history: calls of NotifyMultiData
  wnd,        \* what the receiver's total window says of this sequence number
  net         \* datagrams in flight, both directions

vars == <<phase, node, skips, rphase, rbegin, rbits, saved, delivered, wnd, net>>
senderVars == <<phase, node, skips>>
receiverVars == <<rphase, rbegin, rbits, saved, delivered, wnd>>

Frames == 0 .. Total - 1

\* A data frame; hot says that its send_times is at least ACK_RETRY_TIMES.
Data == [type : {"data"}, idx : Frames, hot : BOOLEAN]
\* A confirmation: CurFrames is the frame the receiver expects next.
Acks == [type : {"ack"}, cur : 1 .. Total]
\* SendFrameAck(pMsg, true): RCC_FRAME_REJECT for this sequence number.
Reject == [type |-> "reject"]
Msgs == Data \cup Acks \cup {Reject}

Ack(c) == [type |-> "ack", cur |-> c]

Node == [begin : 0 .. Total, wait : 0 .. Total, stimes : 0 .. RETRY_TOTAL_TIMES,
         failed : BOOLEAN, left : 0 .. RETRY_TOTAL_TIMES]

AtMost(a, b) == IF a <= b THEN a ELSE b
AtLeast(a, b) == IF a >= b THEN a ELSE b

(***************************************************************************)
(* The channel. A step puts its frames in flight; any frame may vanish,    *)
(* and a frame that was received may still be there to arrive again.       *)
(***************************************************************************)
Transmit(out) ==
  net' \in {n \in SUBSET (net \cup out) : Cardinality(n) <= MaxInFlight}

-----------------------------------------------------------------------------
(***************************************************************************)
(* The sender. An operation maps a result [node, out] to the set of its    *)
(* possible results: out collects what was handed to the channel, and the  *)
(* channel may refuse a frame (m_channel.Sender returns an error).         *)
(***************************************************************************)

\* curBegin_stimes is compared with RETRY_TOTAL_TIMES and ACK_RETRY_TIMES only.
OneMore(stimes) == AtMost(stimes + 1, RETRY_TOTAL_TIMES)

\* curBegin_stimes when frame i leaves in a run of sends that starts at n.wait.
StimesAt(n, i) ==
  IF n.begin \in n.wait .. i THEN OneMore(n.stimes) ELSE n.stimes

DataFrame(i, stimes) ==
  [type |-> "data", idx |-> i, hot |-> stimes >= ACK_RETRY_TIMES]

\* Fault: a refused send of the head frame is not counted.
FaultHeadUncounted(r) ==
  LET n == [r.node EXCEPT !.stimes = OneMore(@)] IN
  { [node |-> [n EXCEPT !.wait = AtLeast(@, n.begin + 1)],
     out  |-> r.out \cup {DataFrame(n.begin, n.stimes)}],
    r }

\* SendFrame of the head frame: counted as a send even when it is refused.
SendHead(r) ==
  LET n == [r.node EXCEPT !.stimes = OneMore(@)] IN
  { [node |-> [n EXCEPT !.wait = AtLeast(@, n.begin + 1)],
     out  |-> r.out \cup {DataFrame(n.begin, n.stimes)}],
    [r EXCEPT !.node = n] }

\* Fault: the end of the window is not cut at the last frame.
FaultWindowUncut(r, swnd) ==
  LET n == r.node IN
  IF n.wait - n.begin >= swnd
  THEN { [r EXCEPT !.node.failed = FALSE] }
  ELSE { [r EXCEPT !.node.wait = n.begin + swnd, !.node.failed = FALSE] }

\* check_send_window: frames from frame_send_wait up to the end of the window,
\* as far as frame k, the first one the channel refuses.
CheckSendWindow(r, swnd) ==
  LET n   == r.node
      end == AtMost(n.begin + swnd, Total)
  IN  IF n.wait - n.begin >= swnd \/ n.wait >= end
      THEN { [r EXCEPT !.node.failed = FALSE] }
      ELSE { [node |-> [n EXCEPT !.wait = k, !.failed = k < end,
                                 !.stimes = StimesAt(n, AtMost(k, end - 1))],
              out  |-> r.out \cup {DataFrame(i, StimesAt(n, i)) : i \in n.wait .. k - 1}]
             : k \in n.wait .. end }

\* check_send_window, and the head frame when it sent nothing.
WindowOrHead(r, swnd, insist) ==
  UNION { IF insist /\ w.node.wait = r.node.wait THEN SendHead(w) ELSE {w}
          : w \in CheckSendWindow(r, swnd) }

NewNode == [begin |-> 0, wait |-> 0, stimes |-> 0, failed |-> FALSE, left |-> 0]

Result(n) == [node |-> n, out |-> {}]

\* MakeSureToFrame(c).
MakeSure(n, c) == [n EXCEPT !.begin = c, !.stimes = 0]

\* CMsgSender::SendMsg for this message: CopyNode and the first window.
SendMsg ==
  /\ phase = "idle"
  /\ phase' = "sending"
  /\ \E swnd \in 1 .. RCV_WND : \E r \in CheckSendWindow(Result(NewNode), swnd) :
       node' = r.node /\ Transmit(r.out)
  /\ UNCHANGED <<skips, receiverVars>>

\* Fault: the message counts as finished once its last frame has been sent.
FaultFinishWhenSent ==
  /\ phase = "sending"
  /\ \E m \in net :
       /\ m.type = "ack"
       /\ m.cur <= node.wait /\ m.cur > node.begin
       /\ phase' = IF node.wait >= Total THEN "notified" ELSE phase
       /\ node' = MakeSure(node, m.cur) /\ Transmit({})
  /\ UNCHANGED <<skips, receiverVars>>

\* CMsgSender::ProcRecvMsg with a confirmation of frames the sender has sent
\* and that moves its window.
RecvAck ==
  /\ phase = "sending"
  /\ \E m \in net :
       /\ m.type = "ack"
       /\ m.cur <= node.wait /\ m.cur > node.begin
       /\ LET n == [MakeSure(node, m.cur) EXCEPT !.failed = FALSE,
                                                 !.left = RETRY_TOTAL_TIMES] IN
          IF m.cur >= Total
          THEN phase' = "notified" /\ node' = n /\ Transmit({})
          ELSE /\ \E swnd \in 1 .. RCV_WND, ask \in BOOLEAN :
                    \E r \in WindowOrHead(Result(n), swnd, ask) :
                      node' = r.node /\ Transmit(r.out)
               /\ UNCHANGED phase
  /\ UNCHANGED <<skips, receiverVars>>

\* CMsgSender::ProcRecvMsg with RCC_FRAME_REJECT: FinishNode, and no NotifyData.
RecvReject ==
  /\ phase = "sending" /\ Reject \in net
  /\ phase' = "rejected"
  /\ Transmit({})
  /\ UNCHANGED <<node, skips, receiverVars>>

\* Fault: a message whose last frame is skipped is reported like a finished one.
FaultSkipNotifies ==
  /\ phase = "sending" /\ node.stimes >= RETRY_TOTAL_TIMES
  /\ skips' = skips + 1
  /\ LET n == MakeSure(node, node.begin + 1) IN
     IF n.begin >= Total
     THEN phase' = "notified" /\ node' = n /\ Transmit({})
     ELSE /\ \E r \in SendHead(Result(n)) : node' = r.node /\ Transmit(r.out)
          /\ UNCHANGED phase
  /\ UNCHANGED receiverVars

\* NodeTimer_Main, the head frame has been sent RETRY_TOTAL_TIMES times: the
\* sender moves past it, and the message ends when it was the last one.
TimerSkip ==
  /\ phase = "sending" /\ node.stimes >= RETRY_TOTAL_TIMES
  /\ skips' = skips + 1
  /\ LET n == MakeSure(node, node.begin + 1) IN
     IF n.begin >= Total
     THEN phase' = "givenup" /\ node' = n /\ Transmit({})
     ELSE /\ \E r \in SendHead(Result(n)) : node' = r.node /\ Transmit(r.out)
          /\ UNCHANGED phase
  /\ UNCHANGED receiverVars

\* NodeTimer_Main otherwise: a burst that failed is taken up again, the head is
\* resent every SEND_DELAY_TIMES ticks, and a tick that ends a round sends a
\* window, or the head frame when the window is full.
TimerResend(r) ==
  LET n == r.node IN
  IF n.left = 0
  THEN { [r EXCEPT !.node.left = RETRY_TOTAL_TIMES] }
  ELSE LET m == [r EXCEPT !.node.left = @ - 1] IN
       IF (n.left - 1) % SEND_DELAY_TIMES = 0 THEN SendHead(m) ELSE {m}

TimerSend ==
  /\ phase = "sending" /\ node.stimes < RETRY_TOTAL_TIMES
  /\ \E swnd \in 1 .. RCV_WND, cwnd \in 1 .. RCV_WND, round \in BOOLEAN :
     \E a \in IF node.failed THEN CheckSendWindow(Result(node), swnd)
                             ELSE {Result(node)} :
     \E b \in TimerResend(a) :
     \E c \in IF round THEN WindowOrHead(b, cwnd, TRUE) ELSE {b} :
       node' = c.node /\ Transmit(c.out)
  /\ UNCHANGED <<phase, skips, receiverVars>>

SenderTimer == TimerSkip \/ TimerSend

-----------------------------------------------------------------------------
(***************************************************************************)
(* The receiver.                                                           *)
(***************************************************************************)

\* dcf_bittools::left_move over msgSurebit.
LeftMove(bits, n) == left_move(bits, MAX_WINDOW_SIZE, n)

\* Fault: the run is counted one too long.
FaultRunTooLong(bits) ==
  { n + 1 : n \in {k \in 0 .. MAX_WINDOW_SIZE : /\ \A b \in 0 .. k - 1 : b \in bits
                                                /\ k \notin bits} }

\* con_nums_from_head: the length of the run of ones, the only member.
ConNums(bits) ==
  { n \in 1 .. MAX_WINDOW_SIZE : /\ \A b \in 0 .. n - 1 : b \in bits
                                 /\ n = MAX_WINDOW_SIZE \/ n \notin bits }

\* IsAcked(CurFrames, cwr): certain when the window has passed this message;
\* else the bit of another sequence number, whatever it happens to be.
IsAckedVerdicts == IF wnd = "old" THEN {TRUE} ELSE BOOLEAN

\* The answer to a frame of a message that is not in the list of open ones.
RejectIfHot(m) ==
  /\ \E acked \in IsAckedVerdicts :
       Transmit(IF m.hot /\ acked THEN {Reject} ELSE {})
  /\ UNCHANGED receiverVars

\* Fault: wnd_save is forgotten, the sequence number stays unseen.
FaultFirstNotRecorded ==
  /\ \E m \in net :
       /\ m.type = "data" /\ m.idx = 0
       /\ rphase' = "open" /\ rbegin' = 1 /\ rbits' = {} /\ saved' = {0}
       /\ Transmit({Ack(1)})
       /\ UNCHANGED <<delivered, wnd>>
  /\ UNCHANGED senderVars

\* CMsgRecver::ProcNewMultiFrame: the first frame opens the node and records
\* the sequence number in the total window, which may move past it at once. (A
\* full list or a number beyond the window drops the frame like a loss does.)
RecvFirst ==
  /\ \E m \in net :
       /\ m.type = "data" /\ m.idx = 0
       /\ IF wnd # "unseen" THEN RejectIfHot(m)
          ELSE /\ rphase' = "open" /\ rbegin' = 1 /\ rbits' = {} /\ saved' = {0}
               /\ wnd' \in {"inrange", "old"}
               /\ Transmit({Ack(1)})
               /\ UNCHANGED delivered
  /\ UNCHANGED senderVars

\* CMsgRecver::ProcNextFrame and Multi_Add_Frame, by where frame m lies.
NextNotOpen(m) == rphase # "open" /\ RejectIfHot(m)

\* Fault: SendFrameAck asks for the frame after the one expected next.
FaultPassedAsksLater(m) ==
  /\ rphase = "open" /\ m.idx < rbegin
  /\ Transmit(IF m.hot THEN {Ack(m.idx + 2)} ELSE {})
  /\ UNCHANGED receiverVars

NextPassed(m) ==
  /\ rphase = "open" /\ m.idx < rbegin
  /\ Transmit(IF m.hot THEN {Ack(m.idx + 1)} ELSE {})
  /\ UNCHANGED receiverVars

NextBeyond(m) ==
  /\ rphase = "open" /\ m.idx > rbegin + MAX_WINDOW_SIZE
  /\ Transmit({}) /\ UNCHANGED receiverVars

\* The check is one too weak: the bit at offset MAX_WINDOW_SIZE belongs to the
\* field behind msgSurebit (stray), so it may read as set, and is not moved.
Holds(off, stray) == off \in rbits \/ (off = MAX_WINDOW_SIZE /\ stray)

NextRepeated(m, stray) ==
  /\ rphase = "open" /\ m.idx >= rbegin /\ m.idx <= rbegin + MAX_WINDOW_SIZE
  /\ Holds(m.idx - rbegin, stray)
  /\ \E ask \in BOOLEAN : Transmit(IF ask THEN {Ack(rbegin)} ELSE {})
  /\ UNCHANGED receiverVars

NextStored(m, stray) ==
  /\ rphase = "open" /\ m.idx > rbegin /\ m.idx <= rbegin + MAX_WINDOW_SIZE
  /\ ~ Holds(m.idx - rbegin, stray)
  /\ saved' = saved \cup {m.idx}
  /\ rbits' = (rbits \cup {m.idx - rbegin}) \ {MAX_WINDOW_SIZE}
  /\ Transmit({})
  /\ UNCHANGED <<rphase, rbegin, delivered, wnd>>

\* The expected frame: the window moves over the run it completes, and the last
\* frame answers first, then hands the message over and frees the node. (The
\* sender ignores an answer beyond Total: it never sent so many frames.)
NextExpected(m) ==
  /\ rphase = "open" /\ m.idx = rbegin /\ 0 \notin rbits
  /\ saved' = saved \cup {m.idx}
  /\ \E n \in ConNums(rbits \cup {0}) :
       /\ rbegin' = rbegin + n
       /\ IF rbegin + n < Total
          THEN /\ rbits' = LeftMove(rbits \cup {0}, n)
               /\ \E ask \in BOOLEAN : Transmit(IF ask THEN {Ack(rbegin + n)} ELSE {})
               /\ UNCHANGED <<rphase, delivered>>
          ELSE /\ rbits' = {}
               /\ Transmit(IF rbegin + n = Total THEN {Ack(Total)} ELSE {})
               /\ rphase' = "done" /\ delivered' = delivered + 1
  /\ UNCHANGED wnd

RecvNext ==
  /\ \E m \in net :
       /\ m.type = "data" /\ m.idx > 0
       /\ \/ NextNotOpen(m) \/ NextPassed(m) \/ NextBeyond(m) \/ NextExpected(m)
          \/ \E stray \in BOOLEAN : NextRepeated(m, stray) \/ NextStored(m, stray)
  /\ UNCHANGED senderVars

\* Timer_Mult_ProcNode: asks for the expected frame.
ReceiverTimer ==
  /\ rphase = "open"
  /\ Transmit({Ack(rbegin)})
  /\ UNCHANGED <<senderVars, receiverVars>>

\* Other messages, the ageing table, a forced move or a range frame of the sender
\* move the total window past this sequence number, seen or not.
WindowPasses ==
  /\ wnd \in {"unseen", "inrange"} /\ wnd' = "old"
  /\ UNCHANGED <<senderVars, rphase, rbegin, rbits, saved, delivered, net>>

-----------------------------------------------------------------------------
Init ==
  /\ phase = "idle" /\ node = NewNode /\ skips = 0
  /\ rphase = "absent" /\ rbegin = 0 /\ rbits = {} /\ saved = {}
  /\ delivered = 0 /\ wnd = "unseen" /\ net = {}

Next ==
  \/ SendMsg \/ RecvAck \/ RecvReject \/ SenderTimer
  \/ RecvFirst \/ RecvNext \/ ReceiverTimer \/ WindowPasses

Spec == Init /\ [][Next]_vars

\* The 1 s timer of the worker thread ticks as long as the client runs.
FairSpec == Spec /\ WF_vars(SenderTimer)

-----------------------------------------------------------------------------
(***************************************************************************)
(* Properties.                                                             *)
(***************************************************************************)

TypeOK ==
  /\ phase \in {"idle", "sending", "notified", "rejected", "givenup"}
  /\ node \in Node
  /\ skips \in Nat
  /\ rphase \in {"absent", "open", "done"}
  /\ rbegin \in Nat
  /\ rbits \in SUBSET (0 .. MAX_WINDOW_SIZE - 1)
  /\ saved \in SUBSET Frames
  /\ delivered \in Nat
  /\ wnd \in {"unseen", "inrange", "old"}
  /\ net \in SUBSET Msgs

\* The offsets a receiver can see stay below the last byte of its bitmap, the
\* one left_move does not shift: 24 skips with the code's 8 bytes and 32 frames.
FewSkips == skips + RCV_WND <= MAX_WINDOW_SIZE - BYTE_BITS

\* The head of the sender's window is never ahead of the receiver's by more than
\* the frames the timer gave up on: an acknowledged frame is a received frame,
\* however late or often acknowledgements arrive (ProcRecvMsg, MakeSureToFrame).
SenderNotAhead == node.begin <= rbegin + skips

\* NotifyMultiData hands over no message with a hole: every frame was copied
\* into pRecvMsg, whatever the order, loss and duplication of frames.
DeliveredComplete == (delivered > 0 /\ FewSkips) => saved = Frames

\* NotifyData tells the sender's application of success only when the
\* receiver's application has the message, even after forced skips.
NotifiedDelivered == phase = "notified" => delivered > 0

\* A message is handed over once, though all its frames may arrive again after
\* the receiver freed its node.
DeliveredOnce == delivered <= 1

\* With the receiver's frames, its hand-over and the sender's outcome alone, the
\* protocol is InOrderTransfer.
Abs == INSTANCE InOrderTransfer WITH
         copy   <- saved,
         handed <- delivered > 0,
         told   <- CASE phase \in {"idle", "sending"} -> "pending"
                     [] phase = "notified" -> "success"
                     [] OTHER -> "dropped"
Promise == Abs!Spec

\* With nothing but the sender's own timer, a message never stays in the list
\* for ever: RETRY_TOTAL_TIMES sends per frame bound every wait.
EventuallyResolved == (phase = "sending") ~> (phase # "sending")

\* ProcNextFrame and ProcNewMultiFrame call a frame they reject one that "has
\* already been signed for": the sender then frees the message.
RejectMeansReceived == phase = "rejected" => rphase = "done"
=============================================================================
