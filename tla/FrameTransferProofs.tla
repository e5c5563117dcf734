------------------------ MODULE FrameTransferProofs ------------------------
(***************************************************************************)
(* Proofs about FrameTransfer, for every message length, window, retry     *)
(* limit and channel capacity. The inductive invariant IInv ties the       *)
(* sender's window, the frames in flight and the receiver's bitmap         *)
(* together; the safety properties and the refinement of InOrderTransfer   *)
(* follow from it.                                                         *)
(***************************************************************************)
EXTENDS FrameTransfer, TLAPS

\* What is in flight: a data frame lies below the end of the largest window the
\* sender can have, an acknowledgement asks for nothing beyond what is held.
InFlightOK ==
  \A m \in net :
    /\ m.type = "data" => m.idx < rbegin + skips + RCV_WND
    /\ m.type = "ack" => m.cur <= rbegin

\* The receiver's node and its stage belong together.
StageOK ==
  /\ rphase = "absent" => rbegin = 0 /\ rbits = {} /\ saved = {} /\ delivered = 0
  /\ rphase = "open" => rbegin >= 1 /\ rbegin < Total /\ delivered = 0
  /\ rphase = "done" => rbegin >= Total /\ delivered = 1
  /\ wnd = "unseen" => rphase = "absent"

\* A one bit of the bitmap stands for a frame that is in the copy, and it lies
\* where left_move moves it.
BitsOK ==
  \A b \in rbits : rbegin + b \in saved /\ b < MAX_WINDOW_SIZE - BYTE_BITS

\* The copy: everything before the expected frame, and what the bitmap says.
CopyOK ==
  /\ rphase = "open" => (\A i \in 0 .. rbegin - 1 : i \in saved) /\ BitsOK
  /\ rphase = "done" => saved = Frames

IInv ==
  /\ TypeOK
  /\ phase = "sending" => node.begin < Total
  /\ SenderNotAhead
  /\ InFlightOK
  /\ StageOK
  /\ FewSkips => CopyOK
  /\ NotifiedDelivered

-----------------------------------------------------------------------------
(***************************************************************************)
(* Lemmas about the operators.                                             *)
(***************************************************************************)

\* msgSurebit has a size.
LEMMA WindowSizeNat == MAX_WINDOW_SIZE \in Nat
BY ConstantsAssumption, SMT DEF MAX_WINDOW_SIZE

\* Nothing appears in the channel that was not there or was not sent.
LEMMA TransmitOnly ==
  ASSUME NEW out, Transmit(out)
  PROVE  net' \subseteq net \cup out
BY Zenon DEF Transmit

\* The results of the sender's operations for a window that starts at b.
Results == [node : Node, out : SUBSET Data]

Good(r, b) ==
  /\ r \in Results
  /\ r.node.begin = b
  /\ \A m \in r.out : m.idx < b + RCV_WND

\* SendFrame of the head frame stays inside the window.
LEMMA SendHeadGood ==
  ASSUME NEW b \in 0 .. Total - 1, NEW r, Good(r, b), NEW q \in SendHead(r)
  PROVE  Good(q, b)
<1> DEFINE n == [r.node EXCEPT !.stimes = OneMore(@)]
           f == DataFrame(n.begin, n.stimes)
<1>1. /\ r \in Results /\ r.node \in Node /\ r.node.begin = b
      /\ r.out \in SUBSET Data /\ \A m \in r.out : m.idx < b + RCV_WND
  BY DEF Good, Results
<1>2. n \in Node /\ n.begin = b
  BY <1>1, ConstantsAssumption DEF Node, OneMore, AtMost
<1>3. f \in Data /\ f.idx = b
  BY <1>2, ConstantsAssumption DEF DataFrame, Data, Frames, Node
<1>4. [n EXCEPT !.wait = AtLeast(@, n.begin + 1)] \in Node
  <2>1. AtLeast(n.wait, n.begin + 1) \in 0 .. Total
    BY <1>2, ConstantsAssumption DEF Node, AtLeast
  <2>2. n \in Node
    BY <1>2
  <2> HIDE DEF n
  <2> QED BY <2>1, <2>2 DEF Node
<1>5. CASE q = [node |-> [n EXCEPT !.wait = AtLeast(@, n.begin + 1)],
                out |-> r.out \cup {f}]
  <2>1. q.node \in Node /\ q.node.begin = b
    BY <1>2, <1>4, <1>5 DEF Node
  <2>2. q.out = r.out \cup {f}
    BY <1>5
  <2>3. q \in Results
    BY <1>1, <1>3, <1>4, <1>5 DEF Results
  <2>4. \A m \in q.out : m.idx < b + RCV_WND
    BY <2>2, <1>1, <1>3, ConstantsAssumption
  <2> QED BY <2>1, <2>3, <2>4 DEF Good
<1>6. CASE q = [r EXCEPT !.node = n]
  BY <1>1, <1>2, <1>6 DEF Good, Results
<1> QED BY <1>5, <1>6 DEF SendHead

\* Three fields of a node change at once.
LEMMA NodeUpdate ==
  ASSUME NEW n \in Node, NEW w \in 0 .. Total, NEW f \in BOOLEAN,
         NEW s \in 0 .. RETRY_TOTAL_TIMES
  PROVE  [n EXCEPT !.wait = w, !.failed = f, !.stimes = s] \in Node
BY DEF Node

\* check_send_window sends frames of the window and of the message only.
LEMMA WindowGood ==
  ASSUME NEW b \in 0 .. Total, NEW r, Good(r, b), NEW swnd \in 1 .. RCV_WND,
         NEW q \in CheckSendWindow(r, swnd)
  PROVE  Good(q, b)
<1> DEFINE n == r.node
           end == AtMost(n.begin + swnd, Total)
<1>1. /\ r \in Results /\ n \in Node /\ n.begin = b
      /\ r.out \in SUBSET Data /\ \A m \in r.out : m.idx < b + RCV_WND
  BY DEF Good, Results
<1>2. end \in 0 .. Total /\ end <= b + RCV_WND
  BY <1>1, ConstantsAssumption DEF AtMost, Node
<1>3. CASE n.wait - n.begin >= swnd \/ n.wait >= end
  <2>1. q = [r EXCEPT !.node.failed = FALSE]
    BY <1>3 DEF CheckSendWindow
  <2> QED BY <2>1, <1>1 DEF Good, Results, Node
<1>4. CASE ~ (n.wait - n.begin >= swnd \/ n.wait >= end)
  <2>1. PICK k \in n.wait .. end :
          q = [node |-> [n EXCEPT !.wait = k, !.failed = k < end,
                                  !.stimes = StimesAt(n, AtMost(k, end - 1))],
               out  |-> r.out \cup {DataFrame(i, StimesAt(n, i)) : i \in n.wait .. k - 1}]
    BY <1>4 DEF CheckSendWindow
  <2>2. /\ n.wait \in 0 .. Total /\ n.stimes \in 0 .. RETRY_TOTAL_TIMES
        /\ k \in 0 .. Total /\ k <= end
    BY <1>1, <1>2, <2>1, ConstantsAssumption DEF Node
  <2>3. \A i : StimesAt(n, i) \in 0 .. RETRY_TOTAL_TIMES
    BY <2>2, ConstantsAssumption DEF StimesAt, OneMore, AtMost
  <2>4. [n EXCEPT !.wait = k, !.failed = k < end,
                  !.stimes = StimesAt(n, AtMost(k, end - 1))] \in Node
    <3>1. (k < end) \in BOOLEAN
      OBVIOUS
    <3>2. StimesAt(n, AtMost(k, end - 1)) \in 0 .. RETRY_TOTAL_TIMES
      BY <2>3
    <3>3. n \in Node
      BY <1>1
    <3> QED BY <2>2, <3>1, <3>2, <3>3, NodeUpdate, Zenon
  <2>5. \A i \in n.wait .. k - 1 :
          /\ DataFrame(i, StimesAt(n, i)) \in Data
          /\ DataFrame(i, StimesAt(n, i)).idx < b + RCV_WND
    BY <2>2, <1>1, <1>2, ConstantsAssumption DEF DataFrame, Data, Frames
  <2>6. q.out = r.out \cup {DataFrame(i, StimesAt(n, i)) : i \in n.wait .. k - 1}
    BY <2>1
  <2>7. q.out \in SUBSET Data /\ \A m \in q.out : m.idx < b + RCV_WND
    BY <2>5, <2>6, <1>1
  <2>8. q.node \in Node /\ q.node.begin = b
    BY <2>1, <2>4, <1>1 DEF Node
  <2>9. q \in Results
    BY <2>1, <2>4, <2>7 DEF Results
  <2> QED BY <2>7, <2>8, <2>9 DEF Good
<1> QED BY <1>3, <1>4

\* check_send_window followed by the head frame.
LEMMA WindowOrHeadGood ==
  ASSUME NEW b \in 0 .. Total - 1, NEW r, Good(r, b), NEW swnd \in 1 .. RCV_WND,
         NEW insist, NEW q \in WindowOrHead(r, swnd, insist)
  PROVE  Good(q, b)
<1>1. PICK w \in CheckSendWindow(r, swnd) : q = w \/ q \in SendHead(w)
  BY Zenon DEF WindowOrHead
<1>2. b \in 0 .. Total
  BY ConstantsAssumption
<1>3. Good(w, b)
  BY <1>2, WindowGood
<1> QED BY <1>1, <1>3, SendHeadGood

\* The unconditional resend of NodeTimer_Main.
LEMMA TimerResendGood ==
  ASSUME NEW b \in 0 .. Total - 1, NEW r, Good(r, b), NEW q \in TimerResend(r)
  PROVE  Good(q, b)
<1> DEFINE m == [r EXCEPT !.node.left = @ - 1]
<1>1. r \in Results /\ r.node \in Node /\ r.node.left \in 0 .. RETRY_TOTAL_TIMES
  BY DEF Good, Results, Node
<1>2. CASE r.node.left = 0
  <2>1. q = [r EXCEPT !.node.left = RETRY_TOTAL_TIMES]
    BY <1>2 DEF TimerResend
  <2> QED BY <2>1, <1>1, ConstantsAssumption DEF Good, Results, Node
<1>3. CASE r.node.left # 0
  <2>1. q = m \/ q \in SendHead(m)
    BY <1>3 DEF TimerResend
  <2>2. r.node.left - 1 \in 0 .. RETRY_TOTAL_TIMES
    BY <1>1, <1>3, ConstantsAssumption
  <2>3. Good(m, b)
    BY <2>2, <1>1 DEF Good, Results, Node
  <2> QED BY <2>1, <2>3, SendHeadGood
<1> QED BY <1>2, <1>3

\* A node at the start of an operation.
LEMMA ResultGood ==
  ASSUME NEW n \in Node
  PROVE  Good(Result(n), n.begin)
BY DEF Good, Result, Results

\* MakeSureToFrame keeps a node a node.
LEMMA MakeSureNode ==
  ASSUME NEW n \in Node, NEW c \in 0 .. Total
  PROVE  MakeSure(n, c) \in Node /\ MakeSure(n, c).begin = c
<1>1. 0 \in 0 .. RETRY_TOTAL_TIMES
  BY ConstantsAssumption
<1> QED BY <1>1 DEF MakeSure, Node

\* left_move is exact as long as the last byte of the bitmap is empty.
LEMMA LeftMoveSound ==
  ASSUME NEW bits \in SUBSET (0 .. MAX_WINDOW_SIZE - 1),
         \A c \in bits : c < MAX_WINDOW_SIZE - BYTE_BITS,
         NEW n \in 1 .. MAX_WINDOW_SIZE, NEW b \in LeftMove(bits, n)
  PROVE  b + n \in bits
<1> DEFINE part  == n % BYTE_BITS
           whole == n - part
           moved == { c - whole : c \in {d \in bits : d >= whole} }
           last  == MAX_WINDOW_SIZE - whole - BYTE_BITS
<1>1. MAX_WINDOW_SIZE \in Nat /\ part \in Int /\ whole \in Int /\ last \in Int
  BY WindowSizeNat, ConstantsAssumption
<1>2. n < MAX_WINDOW_SIZE
  BY <1>1 DEF LeftMove, left_move
<1>3. \A x \in moved : x \in Int /\ x + whole \in bits
  BY <1>1
<1>4. CASE part = 0
  <2>1. b \in moved
    BY <1>2, <1>4, <1>1 DEF LeftMove, left_move
  <2> QED BY <2>1, <1>3, <1>4, <1>1
<1>5. CASE part # 0
  <2>1. /\ b \in 0 .. MAX_WINDOW_SIZE - 1
        /\ \/ b < last /\ b + part \in moved
           \/ b >= last /\ b \in moved
    <3>1. LeftMove(bits, n) = { c \in 0 .. MAX_WINDOW_SIZE - 1 :
                                  \/ c < last /\ c + part \in moved
                                  \/ c >= last /\ c \in moved }
      BY <1>2, <1>5, <1>1, Zenon DEF LeftMove, left_move
    <3> HIDE DEF part, whole, moved, last
    <3> QED BY <3>1, Zenon
  <2>2. CASE b + part \in moved
    <3>1. (b + part) + whole \in bits
      BY <2>2, <1>3
    <3>2. (b + part) + whole = b + n
      BY <2>1, <1>1
    <3> QED BY <3>1, <3>2
  <2>3. CASE b >= last /\ b \in moved
    <3>1. b + whole \in bits
      BY <2>3, <1>3
    <3>2. b + whole < MAX_WINDOW_SIZE - BYTE_BITS
      BY <3>1
    <3>3. b + whole >= MAX_WINDOW_SIZE - BYTE_BITS
      BY <2>1, <2>3, <1>1, ConstantsAssumption
    <3> QED BY <3>2, <3>3, <2>1, <1>1, ConstantsAssumption
  <2> QED BY <2>1, <2>2, <2>3
<1> QED BY <1>4, <1>5

\* left_move gives a bitmap.
LEMMA LeftMoveType ==
  ASSUME NEW bits \in SUBSET (0 .. MAX_WINDOW_SIZE - 1), NEW n \in 1 .. MAX_WINDOW_SIZE
  PROVE  LeftMove(bits, n) \in SUBSET (0 .. MAX_WINDOW_SIZE - 1)
<1>1. MAX_WINDOW_SIZE \in Nat /\ n % BYTE_BITS \in Int
  BY WindowSizeNat, ConstantsAssumption
<1>2. CASE n % BYTE_BITS = 0
  BY <1>1, <1>2 DEF LeftMove, left_move
<1>3. CASE n % BYTE_BITS # 0
  BY <1>1, <1>3 DEF LeftMove, left_move
<1> QED BY <1>2, <1>3

\* con_nums_from_head gives a count of the ones it found.
LEMMA ConNumsRange ==
  ASSUME NEW bits, NEW n \in ConNums(bits)
  PROVE  n \in 1 .. MAX_WINDOW_SIZE /\ \A b \in 0 .. n - 1 : b \in bits
BY DEF ConNums

-----------------------------------------------------------------------------
(***************************************************************************)
(* The inductive invariant.                                                *)
(***************************************************************************)

LEMMA InitIInv == Init => IInv
<1> SUFFICES ASSUME Init PROVE IInv
  OBVIOUS
<1>1. NewNode \in Node /\ NewNode.begin = 0
  BY ConstantsAssumption DEF NewNode, Node
<1>2. TypeOK
  BY <1>1, ConstantsAssumption DEF Init, TypeOK
<1> QED BY <1>1, <1>2, ConstantsAssumption
       DEF Init, IInv, SenderNotAhead, InFlightOK, StageOK, CopyOK, NotifiedDelivered

\* Skips are only counted up.
LEMMA FewerSkips ==
  ASSUME skips \in Nat, skips' \in Nat, skips' >= skips, FewSkips'
  PROVE  FewSkips
<1>1. RCV_WND \in Nat /\ BYTE_BITS \in Nat /\ MAX_WINDOW_SIZE \in Nat
  BY ConstantsAssumption, WindowSizeNat
<1>2. skips' + RCV_WND <= MAX_WINDOW_SIZE - BYTE_BITS
  BY DEF FewSkips, MAX_WINDOW_SIZE
<1>3. ASSUME NEW s \in Nat, NEW t \in Nat, t >= s, t + RCV_WND <= MAX_WINDOW_SIZE - BYTE_BITS
      PROVE  s + RCV_WND <= MAX_WINDOW_SIZE - BYTE_BITS
  BY <1>1, <1>3
<1>4. skips + RCV_WND <= MAX_WINDOW_SIZE - BYTE_BITS
  BY <1>2, <1>3
<1> QED BY <1>4 DEF FewSkips

\* What a step of the sender has to keep: its head not ahead of the receiver's,
\* and the frames it sends inside the window of that head.
LEMMA SenderStep ==
  ASSUME IInv, UNCHANGED receiverVars,
         NEW out \in SUBSET Data, Transmit(out),
         node' \in Node, skips' \in Nat, skips' >= skips,
         phase' \in {"idle", "sending", "notified", "rejected", "givenup"},
         phase' = "sending" => node'.begin < Total,
         node'.begin <= rbegin + skips',
         \A m \in out : m.idx < rbegin + skips' + RCV_WND,
         phase' = "notified" => delivered > 0
  PROVE  IInv'
<1>1. /\ rphase' = rphase /\ rbegin' = rbegin /\ rbits' = rbits /\ saved' = saved
      /\ delivered' = delivered /\ wnd' = wnd
  BY DEF receiverVars
<1>2. TypeOK /\ InFlightOK /\ StageOK /\ (FewSkips => CopyOK)
  BY DEF IInv
<1>3. net' \subseteq net \cup out
  BY TransmitOnly
<1>4. TypeOK'
  BY <1>1, <1>2, <1>3 DEF TypeOK, Msgs
<1>5. InFlightOK'
  <2> SUFFICES ASSUME NEW m \in net'
               PROVE  /\ m.type = "data" => m.idx < rbegin + skips' + RCV_WND
                      /\ m.type = "ack" => m.cur <= rbegin
    BY <1>1 DEF InFlightOK
  <2>1. CASE m \in out
    BY <2>1 DEF Data
  <2>2. CASE m \in net
    BY <2>2, <1>2, ConstantsAssumption DEF InFlightOK, TypeOK, Msgs, Data, Acks, Reject, Frames
  <2> QED BY <2>1, <2>2, <1>3
<1>6. StageOK'
  BY <1>1, <1>2 DEF StageOK
<1>7. FewSkips' => CopyOK'
  <2>1. FewSkips' => FewSkips
    BY <1>2, FewerSkips DEF TypeOK
  <2> QED BY <2>1, <1>1, <1>2 DEF CopyOK, BitsOK
<1>8. SenderNotAhead' /\ NotifiedDelivered'
  BY <1>1 DEF SenderNotAhead, NotifiedDelivered
<1> QED BY <1>4, <1>5, <1>6, <1>7, <1>8 DEF IInv

\* What a step of the receiver has to keep: it never asks for a frame beyond the
\* one it expects, and its own stage, bitmap and copy fit together.
LEMMA ReceiverStep ==
  ASSUME IInv, UNCHANGED senderVars,
         NEW out \in SUBSET (Acks \cup {Reject}), Transmit(out),
         \A m \in out : m.type = "ack" => m.cur <= rbegin',
         rphase' \in {"absent", "open", "done"},
         rbegin' \in Nat, rbegin' >= rbegin,
         rbits' \in SUBSET (0 .. MAX_WINDOW_SIZE - 1), saved' \in SUBSET Frames,
         delivered' \in Nat, delivered' >= delivered,
         wnd' \in {"unseen", "inrange", "old"},
         StageOK', FewSkips => CopyOK'
  PROVE  IInv'
<1>1. phase' = phase /\ node' = node /\ skips' = skips
  BY DEF senderVars
<1>2. TypeOK /\ InFlightOK /\ SenderNotAhead /\ NotifiedDelivered
      /\ (phase = "sending" => node.begin < Total)
  BY DEF IInv
<1>3. net' \subseteq net \cup out
  BY TransmitOnly
<1>4. TypeOK'
  BY <1>1, <1>2, <1>3 DEF TypeOK, Msgs
<1>5. InFlightOK'
  <2> SUFFICES ASSUME NEW m \in net'
               PROVE  /\ m.type = "data" => m.idx < rbegin' + skips + RCV_WND
                      /\ m.type = "ack" => m.cur <= rbegin'
    BY <1>1 DEF InFlightOK
  <2>1. CASE m \in out
    BY <2>1 DEF Acks, Reject
  <2>2. CASE m \in net
    BY <2>2, <1>2, ConstantsAssumption DEF InFlightOK, TypeOK, Msgs, Data, Acks, Reject, Frames
  <2> QED BY <2>1, <2>2, <1>3
<1>6. SenderNotAhead'
  BY <1>1, <1>2, ConstantsAssumption DEF SenderNotAhead, TypeOK, Node
<1>7. NotifiedDelivered'
  BY <1>1, <1>2 DEF NotifiedDelivered, TypeOK
<1>8. FewSkips' => CopyOK'
  BY <1>1 DEF FewSkips
<1> QED BY <1>1, <1>2, <1>4, <1>5, <1>6, <1>7, <1>8 DEF IInv

\* Facts of the type invariant in the form the steps below use.
LEMMA Typing ==
  ASSUME IInv
  PROVE  /\ node \in Node /\ node.begin \in 0 .. Total /\ skips \in Nat /\ rbegin \in Nat
         /\ delivered \in Nat /\ saved \in SUBSET Frames
         /\ rbits \in SUBSET (0 .. MAX_WINDOW_SIZE - 1)
         /\ rphase \in {"absent", "open", "done"} /\ wnd \in {"unseen", "inrange", "old"}
         /\ \A m \in net : m.type = "data" => m \in Data
         /\ \A m \in net : m.type = "ack" => m \in Acks
BY DEF IInv, TypeOK, Node, Msgs, Data, Acks, Reject

\* Every step of the sender that leaves a window whose head is not ahead.
LEMMA WindowStep ==
  ASSUME IInv, UNCHANGED receiverVars, phase' = "sending", skips' \in Nat, skips' >= skips,
         NEW b \in 0 .. Total - 1, b <= rbegin + skips',
         NEW r, Good(r, b), node' = r.node, Transmit(r.out)
  PROVE  IInv'
<1>1. r.node \in Node /\ r.node.begin = b /\ r.out \in SUBSET Data
      /\ \A m \in r.out : m.idx < b + RCV_WND
  BY DEF Good, Results
<1>2. \A m \in r.out : m.idx < rbegin + skips' + RCV_WND
  <2>1. rbegin \in Nat /\ RCV_WND \in Nat
    BY Typing, ConstantsAssumption
  <2>2. ASSUME NEW s \in Nat, NEW i \in Nat, b <= rbegin + s, i < b + RCV_WND
        PROVE  i < rbegin + s + RCV_WND
    BY <2>1, <2>2
  <2>3. \A m \in r.out : m.idx \in Nat
    BY <1>1, ConstantsAssumption DEF Data, Frames
  <2> QED BY <1>1, <2>2, <2>3
<1>3. node'.begin < Total
  BY <1>1, ConstantsAssumption
<1> QED BY <1>1, <1>2, <1>3, SenderStep

LEMMA SendMsgStep == IInv /\ SendMsg => IInv'
<1> SUFFICES ASSUME IInv, SendMsg PROVE IInv'
  OBVIOUS
<1>0. PICK swnd \in 1 .. RCV_WND : \E r \in CheckSendWindow(Result(NewNode), swnd) :
        node' = r.node /\ Transmit(r.out)
  BY DEF SendMsg
<1>1. PICK r \in CheckSendWindow(Result(NewNode), swnd) : node' = r.node /\ Transmit(r.out)
  BY <1>0
<1>2. NewNode \in Node /\ NewNode.begin = 0
  BY ConstantsAssumption DEF NewNode, Node
<1>3. Good(r, 0)
  <2>1. Good(Result(NewNode), 0)
    BY <1>2, ResultGood
  <2>2. 0 \in 0 .. Total
    BY ConstantsAssumption
  <2> QED BY <1>1, <2>1, <2>2, WindowGood
<1>4. /\ UNCHANGED receiverVars /\ phase' = "sending" /\ skips' = skips
  BY DEF SendMsg
<1>5. 0 \in 0 .. Total - 1 /\ 0 <= rbegin + skips /\ skips \in Nat /\ skips >= skips
  BY Typing, ConstantsAssumption
<1> QED BY <1>1, <1>3, <1>4, <1>5, WindowStep

\* An answer asks for a frame the receiver does not hold yet, so the head it sets
\* is not ahead; an answer for Total comes from a receiver that has handed over.
LEMMA RecvAckStep == IInv /\ RecvAck => IInv'
<1> SUFFICES ASSUME IInv, RecvAck PROVE IInv'
  OBVIOUS
<1> DEFINE n(c) == [MakeSure(node, c) EXCEPT !.failed = FALSE, !.left = RETRY_TOTAL_TIMES]
<1>1. PICK m \in net :
        /\ m.type = "ack" /\ m.cur <= node.wait /\ m.cur > node.begin
        /\ IF m.cur >= Total
           THEN phase' = "notified" /\ node' = n(m.cur) /\ Transmit({})
           ELSE /\ \E swnd \in 1 .. RCV_WND, ask \in BOOLEAN :
                     \E r \in WindowOrHead(Result(n(m.cur)), swnd, ask) :
                       node' = r.node /\ Transmit(r.out)
                /\ UNCHANGED phase
  BY DEF RecvAck
<1>2. phase = "sending" /\ UNCHANGED receiverVars /\ skips' = skips
  BY DEF RecvAck
<1>3. m.cur \in 1 .. Total /\ m.cur <= rbegin
  BY <1>1, Typing DEF IInv, InFlightOK, Acks
<1>4. n(m.cur) \in Node /\ n(m.cur).begin = m.cur
  <2>1. m.cur \in 0 .. Total /\ RETRY_TOTAL_TIMES \in 0 .. RETRY_TOTAL_TIMES
    BY <1>3, ConstantsAssumption
  <2>2. MakeSure(node, m.cur) \in Node /\ MakeSure(node, m.cur).begin = m.cur
    BY <2>1, Typing, MakeSureNode
  <2> QED BY <2>1, <2>2 DEF Node
<1> HIDE DEF n
<1>5. skips \in Nat /\ skips >= skips /\ rbegin \in Nat
  BY Typing
<1>6. CASE m.cur >= Total
  <2>1. rbegin >= Total
    BY <1>3, <1>5, <1>6, ConstantsAssumption
  <2>2. delivered > 0
    BY <2>1, Typing, ConstantsAssumption DEF IInv, StageOK
  <2>3. phase' = "notified" /\ node' = n(m.cur) /\ Transmit({})
    BY <1>1, <1>6
  <2>4. n(m.cur).begin <= rbegin + skips
    BY <1>3, <1>4, <1>5
  <2>5. {} \in SUBSET Data /\ \A x \in {} : x.idx < rbegin + skips' + RCV_WND
    OBVIOUS
  <2> QED BY <1>2, <1>4, <1>5, <2>2, <2>3, <2>4, <2>5, SenderStep
<1>7. CASE ~ (m.cur >= Total)
  <2>0. PICK swnd \in 1 .. RCV_WND, ask \in BOOLEAN :
          \E r \in WindowOrHead(Result(n(m.cur)), swnd, ask) : node' = r.node /\ Transmit(r.out)
    BY <1>1, <1>7
  <2>1. PICK r \in WindowOrHead(Result(n(m.cur)), swnd, ask) : node' = r.node /\ Transmit(r.out)
    BY <2>0
  <2>2. m.cur \in 0 .. Total - 1 /\ m.cur <= rbegin + skips
    BY <1>3, <1>5, <1>7, ConstantsAssumption
  <2>3. Good(Result(n(m.cur)), m.cur)
    BY <1>4, ResultGood
  <2>4. Good(r, m.cur)
    BY <2>1, <2>2, <2>3, WindowOrHeadGood
  <2>5. phase' = "sending"
    BY <1>1, <1>2, <1>7
  <2> QED BY <1>2, <1>5, <2>1, <2>2, <2>4, <2>5, WindowStep
<1> QED BY <1>6, <1>7

LEMMA RecvRejectStep == IInv /\ RecvReject => IInv'
<1> SUFFICES ASSUME IInv, RecvReject PROVE IInv'
  OBVIOUS
<1>1. UNCHANGED receiverVars /\ node' = node /\ skips' = skips /\ phase' = "rejected"
      /\ Transmit({})
  BY DEF RecvReject
<1>2. node \in Node /\ skips \in Nat /\ skips >= skips /\ node.begin <= rbegin + skips
  BY Typing DEF IInv, SenderNotAhead
<1>3. {} \in SUBSET Data /\ \A x \in {} : x.idx < rbegin + skips' + RCV_WND
  OBVIOUS
<1> QED BY <1>1, <1>2, <1>3, SenderStep

\* A forced move of the head is one more skip.
LEMMA TimerSkipStep == IInv /\ TimerSkip => IInv'
<1> SUFFICES ASSUME IInv, TimerSkip PROVE IInv'
  OBVIOUS
<1> DEFINE c == node.begin + 1
           n == MakeSure(node, c)
<1>1. phase = "sending" /\ UNCHANGED receiverVars /\ skips' = skips + 1
  BY DEF TimerSkip
<1>2. /\ IF n.begin >= Total
         THEN phase' = "givenup" /\ node' = n /\ Transmit({})
         ELSE /\ \E r \in SendHead(Result(n)) : node' = r.node /\ Transmit(r.out)
              /\ UNCHANGED phase
  BY DEF TimerSkip
<1>3. node \in Node /\ node.begin \in 0 .. Total /\ skips \in Nat /\ rbegin \in Nat
      /\ node.begin < Total /\ node.begin <= rbegin + skips
  BY <1>1, Typing DEF IInv, SenderNotAhead
<1>4. skips' \in Nat /\ skips' >= skips /\ c \in 0 .. Total /\ c <= rbegin + skips'
  BY <1>1, <1>3, ConstantsAssumption
<1>5. n \in Node /\ n.begin = c
  BY <1>3, <1>4, MakeSureNode
<1> HIDE DEF n, c
<1>6. CASE n.begin >= Total
  <2>1. {} \in SUBSET Data /\ \A x \in {} : x.idx < rbegin + skips' + RCV_WND
    OBVIOUS
  <2> QED BY <1>1, <1>2, <1>4, <1>5, <1>6, <2>1, SenderStep
<1>7. CASE ~ (n.begin >= Total)
  <2>1. PICK r \in SendHead(Result(n)) : node' = r.node /\ Transmit(r.out)
    BY <1>2, <1>7
  <2>2. c \in 0 .. Total - 1
    BY <1>4, <1>5, <1>7, ConstantsAssumption
  <2>3. Good(Result(n), c)
    BY <1>5, ResultGood
  <2>4. Good(r, c)
    BY <2>1, <2>2, <2>3, SendHeadGood
  <2>5. phase' = "sending"
    BY <1>1, <1>2, <1>7
  <2> QED BY <1>1, <1>4, <2>1, <2>2, <2>4, <2>5, WindowStep
<1> QED BY <1>6, <1>7

LEMMA TimerSendStep == IInv /\ TimerSend => IInv'
<1> SUFFICES ASSUME IInv, TimerSend PROVE IInv'
  OBVIOUS
<1>a. PICK swnd \in 1 .. RCV_WND, cwnd \in 1 .. RCV_WND, round \in BOOLEAN :
        \E a \in IF node.failed THEN CheckSendWindow(Result(node), swnd) ELSE {Result(node)} :
        \E b \in TimerResend(a) :
        \E c \in IF round THEN WindowOrHead(b, cwnd, TRUE) ELSE {b} :
          node' = c.node /\ Transmit(c.out)
  BY DEF TimerSend
<1>b. PICK a \in IF node.failed THEN CheckSendWindow(Result(node), swnd) ELSE {Result(node)} :
        \E b \in TimerResend(a) :
        \E c \in IF round THEN WindowOrHead(b, cwnd, TRUE) ELSE {b} :
          node' = c.node /\ Transmit(c.out)
  BY <1>a
<1>c. PICK b \in TimerResend(a) :
        \E c \in IF round THEN WindowOrHead(b, cwnd, TRUE) ELSE {b} :
          node' = c.node /\ Transmit(c.out)
  BY <1>b
<1>d. PICK c \in IF round THEN WindowOrHead(b, cwnd, TRUE) ELSE {b} :
        node' = c.node /\ Transmit(c.out)
  BY <1>c
<1>1. /\ a \in IF node.failed THEN CheckSendWindow(Result(node), swnd) ELSE {Result(node)}
      /\ b \in TimerResend(a)
      /\ c \in IF round THEN WindowOrHead(b, cwnd, TRUE) ELSE {b}
      /\ node' = c.node /\ Transmit(c.out)
  BY <1>a, <1>b, <1>c, <1>d
<1>2. phase = "sending" /\ UNCHANGED receiverVars /\ skips' = skips /\ phase' = "sending"
  BY DEF TimerSend
<1>3. node \in Node /\ node.begin \in 0 .. Total - 1 /\ node.begin \in 0 .. Total
      /\ skips \in Nat /\ skips >= skips /\ node.begin <= rbegin + skips
  BY <1>2, Typing, ConstantsAssumption DEF IInv, SenderNotAhead
<1>4. Good(a, node.begin)
  <2>1. Good(Result(node), node.begin)
    BY <1>3, ResultGood
  <2> QED BY <1>1, <1>3, <2>1, WindowGood
<1>5. Good(b, node.begin)
  BY <1>1, <1>3, <1>4, TimerResendGood
<1>6. Good(c, node.begin)
  BY <1>1, <1>3, <1>5, WindowOrHeadGood
<1> QED BY <1>1, <1>2, <1>3, <1>6, WindowStep

\* A step of the receiver that only answers.
LEMMA AnswerStep ==
  ASSUME IInv, UNCHANGED senderVars, UNCHANGED receiverVars,
         NEW out \in SUBSET (Acks \cup {Reject}), Transmit(out),
         \A m \in out : m.type = "ack" => m.cur <= rbegin
  PROVE  IInv'
<1>1. /\ rphase' = rphase /\ rbegin' = rbegin /\ rbits' = rbits /\ saved' = saved
      /\ delivered' = delivered /\ wnd' = wnd
  BY DEF receiverVars
<1>2. rbegin \in Nat /\ rbegin >= rbegin /\ delivered \in Nat /\ delivered >= delivered
  BY Typing
<1>3. StageOK'
  BY <1>1 DEF IInv, StageOK
<1>4. FewSkips => CopyOK'
  BY <1>1 DEF IInv, CopyOK, BitsOK
<1>5. \A m \in out : m.type = "ack" => m.cur <= rbegin'
  BY <1>1
<1> QED BY <1>1, <1>2, <1>3, <1>4, <1>5, Typing, ReceiverStep

\* The answers of the receiver.
LEMMA AnswerTypes ==
  /\ {} \in SUBSET (Acks \cup {Reject}) /\ \A c : \A m \in {} : m.type = "ack" => m.cur <= c
  /\ {Reject} \in SUBSET (Acks \cup {Reject})
  /\ \A c : \A m \in {Reject} : m.type = "ack" => m.cur <= c
  /\ \A c \in 1 .. Total : Ack(c) \in Acks /\ Ack(c).cur = c
BY DEF Acks, Ack, Reject

LEMMA RejectIfHotStep ==
  ASSUME IInv, UNCHANGED senderVars, NEW m, RejectIfHot(m)
  PROVE  IInv'
<1>1. UNCHANGED receiverVars /\ (Transmit({}) \/ Transmit({Reject}))
  BY DEF RejectIfHot
<1>2. CASE Transmit({})
  BY <1>1, <1>2, AnswerTypes, AnswerStep
<1>3. CASE Transmit({Reject})
  BY <1>1, <1>3, AnswerTypes, AnswerStep
<1> QED BY <1>1, <1>2, <1>3

\* An answer with the number of a frame the receiver expects or held before.
LEMMA AskStep ==
  ASSUME IInv, UNCHANGED senderVars, UNCHANGED receiverVars,
         NEW c \in 1 .. Total, c <= rbegin, NEW ask \in BOOLEAN,
         Transmit(IF ask THEN {Ack(c)} ELSE {})
  PROVE  IInv'
<1>1. CASE ask
  <2>1. Transmit({Ack(c)})
    BY <1>1
  <2>2. {Ack(c)} \in SUBSET (Acks \cup {Reject})
        /\ \A m \in {Ack(c)} : m.type = "ack" => m.cur <= rbegin
    BY AnswerTypes
  <2> QED BY <2>1, <2>2, AnswerStep
<1>2. CASE ~ ask
  <2>1. Transmit({})
    BY <1>2
  <2> QED BY <2>1, AnswerTypes, AnswerStep
<1> QED BY <1>1, <1>2

LEMMA RecvFirstStep == IInv /\ RecvFirst => IInv'
<1> SUFFICES ASSUME IInv, RecvFirst PROVE IInv'
  OBVIOUS
<1>1. UNCHANGED senderVars
  BY DEF RecvFirst
<1>2. CASE \E m \in net : wnd # "unseen" /\ RejectIfHot(m)
  BY <1>1, <1>2, RejectIfHotStep
<1>3. CASE /\ wnd = "unseen" /\ rphase' = "open" /\ rbegin' = 1 /\ rbits' = {} /\ saved' = {0}
           /\ wnd' \in {"inrange", "old"} /\ Transmit({Ack(1)}) /\ UNCHANGED delivered
  <2>1. rbegin = 0 /\ delivered = 0
    BY <1>3, Typing DEF IInv, StageOK
  <2>2. {Ack(1)} \in SUBSET (Acks \cup {Reject})
        /\ \A m \in {Ack(1)} : m.type = "ack" => m.cur <= rbegin'
    <3>1. 1 \in 1 .. Total
      BY ConstantsAssumption
    <3> QED BY <3>1, <1>3, AnswerTypes
  <2>3. StageOK'
    BY <1>3, <2>1, ConstantsAssumption DEF StageOK
  <2>4. CopyOK'
    BY <1>3 DEF CopyOK, BitsOK
  <2>5. saved' \in SUBSET Frames
    BY <1>3, ConstantsAssumption DEF Frames
  <2>6. rphase' \in {"absent", "open", "done"} /\ wnd' \in {"unseen", "inrange", "old"}
        /\ rbegin' \in Nat /\ rbegin' >= rbegin /\ delivered' \in Nat /\ delivered' >= delivered
        /\ rbits' \in SUBSET (0 .. MAX_WINDOW_SIZE - 1)
    BY <1>3, <2>1
  <2> QED BY <1>1, <1>3, <2>2, <2>3, <2>4, <2>5, <2>6, ReceiverStep
<1> QED BY <1>2, <1>3 DEF RecvFirst

\* A frame the receiver holds is asked for again no later than it expects one.
LEMMA NextPassedStep ==
  ASSUME IInv, UNCHANGED senderVars, NEW m \in net, m.type = "data", NextPassed(m)
  PROVE  IInv'
<1>1. rphase = "open" /\ m.idx < rbegin /\ UNCHANGED receiverVars
      /\ Transmit(IF m.hot THEN {Ack(m.idx + 1)} ELSE {})
  BY DEF NextPassed
<1>2. m.idx \in Frames /\ m.hot \in BOOLEAN
  BY Typing DEF Data
<1>3. m.idx + 1 \in 1 .. Total /\ m.idx + 1 <= rbegin
  BY <1>1, <1>2, Typing, ConstantsAssumption DEF Frames
<1> QED BY <1>1, <1>2, <1>3, AskStep

LEMMA NextRepeatedStep ==
  ASSUME IInv, UNCHANGED senderVars, NEW m, NEW stray, NextRepeated(m, stray)
  PROVE  IInv'
<1>1. rphase = "open" /\ UNCHANGED receiverVars
  BY DEF NextRepeated
<1>2. PICK ask \in BOOLEAN : Transmit(IF ask THEN {Ack(rbegin)} ELSE {})
  BY DEF NextRepeated
<1>3. rbegin \in 1 .. Total /\ rbegin <= rbegin
  BY <1>1, Typing, ConstantsAssumption DEF IInv, StageOK
<1> QED BY <1>1, <1>2, <1>3, AskStep

\* A frame ahead of the expected one: with few skips it lies before the byte of
\* the bitmap that left_move does not shift.
LEMMA NextStoredStep ==
  ASSUME IInv, UNCHANGED senderVars, NEW m \in net, m.type = "data", NEW stray, NextStored(m, stray)
  PROVE  IInv'
<1> DEFINE off == m.idx - rbegin
<1>1. /\ rphase = "open" /\ m.idx > rbegin /\ m.idx <= rbegin + MAX_WINDOW_SIZE
      /\ saved' = saved \cup {m.idx}
      /\ rbits' = (rbits \cup {off}) \ {MAX_WINDOW_SIZE}
      /\ Transmit({}) /\ rphase' = "open" /\ rbegin' = rbegin /\ delivered' = delivered
      /\ wnd' = wnd
  BY DEF NextStored
<1>2. m.idx \in Frames /\ m.idx \in Nat /\ rbegin \in Nat /\ skips \in Nat /\ MAX_WINDOW_SIZE \in Nat
  BY Typing, WindowSizeNat, ConstantsAssumption DEF Data, Frames
<1>3. rbits' \in SUBSET (0 .. MAX_WINDOW_SIZE - 1)
  BY <1>1, <1>2, Typing
<1>4. saved' \in SUBSET Frames
  BY <1>1, <1>2, Typing
<1>5. StageOK'
  BY <1>1 DEF IInv, StageOK
<1>6. FewSkips => CopyOK'
  <2> SUFFICES ASSUME FewSkips PROVE CopyOK'
    OBVIOUS
  <2>1. (\A i \in 0 .. rbegin - 1 : i \in saved) /\ BitsOK
    BY <1>1 DEF IInv, CopyOK
  <2>2. off < MAX_WINDOW_SIZE - BYTE_BITS
    <3>1. m.idx < rbegin + skips + RCV_WND
      BY DEF IInv, InFlightOK
    <3>2. skips + RCV_WND <= MAX_WINDOW_SIZE - BYTE_BITS
      BY DEF FewSkips
    <3> QED BY <3>1, <3>2, <1>2, ConstantsAssumption
  <2>3. rbegin + off = m.idx
    BY <1>2
  <2>4. \A b \in rbits' : rbegin + b \in saved' /\ b < MAX_WINDOW_SIZE - BYTE_BITS
    <3> HIDE DEF off
    <3> QED BY <1>1, <2>1, <2>2, <2>3 DEF BitsOK
  <2>5. BitsOK'
    BY <1>1, <2>4 DEF BitsOK, MAX_WINDOW_SIZE
  <2> QED BY <1>1, <2>1, <2>5 DEF CopyOK
<1>7. rbegin >= rbegin /\ delivered \in Nat /\ delivered >= delivered
  BY <1>2, Typing
<1> QED BY <1>1, <1>2, <1>3, <1>4, <1>5, <1>6, <1>7, Typing, AnswerTypes, ReceiverStep

\* The expected frame: the run the window moves over is a run of copied frames,
\* and the bits left_move keeps stand for the same frames as before.
LEMMA NextExpectedStep ==
  ASSUME IInv, UNCHANGED senderVars, NEW m \in net, m.type = "data", NextExpected(m)
  PROVE  IInv'
<1> DEFINE run == rbits \cup {0}
<1>1. /\ rphase = "open" /\ m.idx = rbegin
      /\ saved' = saved \cup {rbegin} /\ wnd' = wnd
  BY DEF NextExpected
<1>2. PICK n \in ConNums(run) :
        /\ rbegin' = rbegin + n
        /\ IF rbegin + n < Total
           THEN /\ rbits' = LeftMove(run, n)
                /\ \E ask \in BOOLEAN : Transmit(IF ask THEN {Ack(rbegin + n)} ELSE {})
                /\ UNCHANGED <<rphase, delivered>>
           ELSE /\ rbits' = {}
                /\ Transmit(IF rbegin + n = Total THEN {Ack(Total)} ELSE {})
                /\ rphase' = "done" /\ delivered' = delivered + 1
  BY DEF NextExpected
<1>3. n \in 1 .. MAX_WINDOW_SIZE /\ \A b \in 0 .. n - 1 : b \in run
  BY <1>2, ConNumsRange
<1>4. rbegin \in Frames /\ rbegin \in Nat /\ skips \in Nat /\ MAX_WINDOW_SIZE \in Nat /\ n \in Nat
  BY <1>1, <1>3, Typing, WindowSizeNat DEF Data
<1>5. rbegin >= 1 /\ rbegin < Total /\ delivered = 0 /\ wnd # "unseen"
  BY <1>1 DEF IInv, StageOK
<1>6. rbegin' \in Nat /\ rbegin' >= rbegin /\ saved' \in SUBSET Frames
  BY <1>1, <1>2, <1>3, <1>4, Typing
<1>7. run \in SUBSET (0 .. MAX_WINDOW_SIZE - 1)
  BY <1>3, <1>4, Typing
<1>8. FewSkips => /\ \A i \in 0 .. (rbegin + n) - 1 : i \in saved'
                  /\ \A b \in rbits : rbegin + b \in saved' /\ b < MAX_WINDOW_SIZE - BYTE_BITS
                  /\ 0 < MAX_WINDOW_SIZE - BYTE_BITS
  <2> SUFFICES ASSUME FewSkips
               PROVE  /\ \A i \in 0 .. (rbegin + n) - 1 : i \in saved'
                      /\ \A b \in rbits : rbegin + b \in saved' /\ b < MAX_WINDOW_SIZE - BYTE_BITS
                      /\ 0 < MAX_WINDOW_SIZE - BYTE_BITS
    OBVIOUS
  <2>1. (\A i \in 0 .. rbegin - 1 : i \in saved) /\ BitsOK
    BY <1>1 DEF IInv, CopyOK
  <2>2. 0 < MAX_WINDOW_SIZE - BYTE_BITS
    BY <1>4, ConstantsAssumption DEF FewSkips
  <2>3. ASSUME NEW i \in 0 .. (rbegin + n) - 1 PROVE i \in saved'
    <3>1. CASE i < rbegin
      BY <3>1, <2>1, <1>1, <1>4
    <3>2. CASE i >= rbegin
      <4>1. i - rbegin \in 0 .. n - 1
        BY <3>2, <1>4
      <4>2. i - rbegin \in rbits \/ i = rbegin
        BY <4>1, <1>3, <1>4
      <4>3. rbegin + (i - rbegin) = i
        BY <1>4
      <4> QED BY <4>2, <4>3, <2>1, <1>1 DEF BitsOK
    <3> QED BY <3>1, <3>2, <1>4
  <2> QED BY <2>1, <2>2, <2>3, <1>1 DEF BitsOK
<1>9. CASE rbegin + n < Total
  <2>1. /\ rbits' = LeftMove(run, n) /\ rphase' = rphase /\ delivered' = delivered
    BY <1>2, <1>9
  <2>2. PICK ask \in BOOLEAN : Transmit(IF ask THEN {Ack(rbegin + n)} ELSE {})
    BY <1>2, <1>9
  <2>3. rbits' \in SUBSET (0 .. MAX_WINDOW_SIZE - 1)
    BY <2>1, <1>3, <1>7, LeftMoveType
  <2>4. StageOK'
    BY <1>1, <1>2, <1>4, <1>5, <1>9, <2>1 DEF StageOK
  <2>5. FewSkips => CopyOK'
    <3> SUFFICES ASSUME FewSkips PROVE CopyOK'
      OBVIOUS
    <3>1. ASSUME NEW b \in rbits'
          PROVE  rbegin' + b \in saved' /\ b < MAX_WINDOW_SIZE - BYTE_BITS
      <4>1. \A c \in run : c < MAX_WINDOW_SIZE - BYTE_BITS
        BY <1>8
      <4>2. b + n \in run
        BY <4>1, <1>3, <1>7, <2>1, <3>1, LeftMoveSound
      <4>3. b \in Nat
        BY <2>3, <1>4
      <4>4. b + n \in rbits
        BY <4>2, <4>3, <1>3, <1>4
      <4>5. rbegin' + b = rbegin + (b + n)
        BY <1>2, <1>4, <4>3
      <4>6. b + n < MAX_WINDOW_SIZE - BYTE_BITS
        BY <4>4, <1>8
      <4>7. b < MAX_WINDOW_SIZE - BYTE_BITS
        BY <4>6, <4>3, <1>4, ConstantsAssumption
      <4> QED BY <4>4, <4>5, <4>7, <1>8
    <3>2. BitsOK'
      BY <3>1 DEF BitsOK, MAX_WINDOW_SIZE
    <3>3. \A i \in 0 .. rbegin' - 1 : i \in saved'
      BY <1>2, <1>8
    <3> QED BY <3>2, <3>3, <2>1, <1>1 DEF CopyOK
  <2> DEFINE out == IF ask THEN {Ack(rbegin + n)} ELSE {}
  <2>6. rbegin + n \in 1 .. Total
    BY <1>4, <1>5, <1>9, ConstantsAssumption
  <2>7. out \in SUBSET (Acks \cup {Reject}) /\ \A x \in out : x.type = "ack" => x.cur <= rbegin'
    BY <2>6, <1>2, <1>6, AnswerTypes
  <2>8. rphase' \in {"absent", "open", "done"} /\ delivered' \in Nat /\ delivered' >= delivered
        /\ wnd' \in {"unseen", "inrange", "old"}
    BY <1>1, <1>5, <2>1, Typing
  <2>9. Transmit(out)
    BY <2>2
  <2> HIDE DEF out
  <2> QED BY <1>6, <2>3, <2>4, <2>5, <2>7, <2>8, <2>9, ReceiverStep
<1>10. CASE ~ (rbegin + n < Total)
  <2>1. /\ rbits' = {} /\ rphase' = "done" /\ delivered' = 1
        /\ Transmit(IF rbegin + n = Total THEN {Ack(Total)} ELSE {})
    BY <1>2, <1>5, <1>10
  <2>2. StageOK'
    BY <1>1, <1>2, <1>4, <1>5, <1>10, <2>1, ConstantsAssumption DEF StageOK
  <2>3. FewSkips => CopyOK'
    <3> SUFFICES ASSUME FewSkips PROVE saved' = Frames
      BY <2>1 DEF CopyOK, BitsOK
    <3>1. \A i \in Frames : i \in 0 .. (rbegin + n) - 1
      BY <1>4, <1>10, ConstantsAssumption DEF Frames
    <3> QED BY <3>1, <1>6, <1>8
  <2>4. Total \in 1 .. Total
    BY ConstantsAssumption
  <2> DEFINE out == IF rbegin + n = Total THEN {Ack(Total)} ELSE {}
  <2>5. out \in SUBSET (Acks \cup {Reject}) /\ \A x \in out : x.type = "ack" => x.cur <= rbegin'
    BY <1>2, <1>6, <2>4, AnswerTypes
  <2>6. Transmit(out)
    BY <2>1
  <2>7. rphase' \in {"absent", "open", "done"} /\ delivered' \in Nat /\ delivered' >= delivered
        /\ wnd' \in {"unseen", "inrange", "old"} /\ rbits' \in SUBSET (0 .. MAX_WINDOW_SIZE - 1)
    BY <1>1, <1>5, <2>1, Typing
  <2> HIDE DEF out
  <2> QED BY <1>6, <2>1, <2>2, <2>3, <2>5, <2>6, <2>7, ReceiverStep
<1> QED BY <1>9, <1>10

LEMMA RecvNextStep == IInv /\ RecvNext => IInv'
<1> SUFFICES ASSUME IInv, RecvNext PROVE IInv'
  OBVIOUS
<1>1. UNCHANGED senderVars
  BY DEF RecvNext
<1>2. PICK m \in net :
        /\ m.type = "data"
        /\ \/ NextNotOpen(m) \/ NextPassed(m) \/ NextBeyond(m) \/ NextExpected(m)
           \/ \E stray \in BOOLEAN : NextRepeated(m, stray) \/ NextStored(m, stray)
  BY DEF RecvNext
<1>3. CASE NextNotOpen(m)
  BY <1>1, <1>3, RejectIfHotStep DEF NextNotOpen
<1>4. CASE NextPassed(m)
  BY <1>1, <1>2, <1>4, NextPassedStep
<1>5. CASE NextBeyond(m)
  BY <1>1, <1>5, AnswerTypes, AnswerStep DEF NextBeyond
<1>6. CASE NextExpected(m)
  BY <1>1, <1>2, <1>6, NextExpectedStep
<1>7. CASE \E stray \in BOOLEAN : NextRepeated(m, stray) \/ NextStored(m, stray)
  BY <1>1, <1>2, <1>7, NextRepeatedStep, NextStoredStep
<1> QED BY <1>2, <1>3, <1>4, <1>5, <1>6, <1>7

LEMMA ReceiverTimerStep == IInv /\ ReceiverTimer => IInv'
<1> SUFFICES ASSUME IInv, ReceiverTimer PROVE IInv'
  OBVIOUS
<1>1. rphase = "open" /\ Transmit({Ack(rbegin)}) /\ UNCHANGED senderVars /\ UNCHANGED receiverVars
  BY DEF ReceiverTimer
<1>2. rbegin \in 1 .. Total /\ rbegin <= rbegin
  BY <1>1, Typing, ConstantsAssumption DEF IInv, StageOK
<1>3. {Ack(rbegin)} \in SUBSET (Acks \cup {Reject})
      /\ \A m \in {Ack(rbegin)} : m.type = "ack" => m.cur <= rbegin
  BY <1>2, AnswerTypes
<1> QED BY <1>1, <1>3, AnswerStep

LEMMA WindowPassesStep == IInv /\ WindowPasses => IInv'
<1> SUFFICES ASSUME IInv, WindowPasses PROVE IInv'
  OBVIOUS
<1>1. /\ wnd' = "old"
      /\ phase' = phase /\ node' = node /\ skips' = skips /\ net' = net
      /\ rphase' = rphase /\ rbegin' = rbegin /\ rbits' = rbits /\ saved' = saved
      /\ delivered' = delivered
  BY DEF WindowPasses, senderVars
<1>2. TypeOK'
  BY <1>1 DEF IInv, TypeOK
<1>3. InFlightOK'
  BY <1>1 DEF IInv, InFlightOK
<1>4. StageOK'
  BY <1>1 DEF IInv, StageOK
<1>5. FewSkips' => CopyOK'
  BY <1>1 DEF IInv, FewSkips, CopyOK, BitsOK
<1>6. SenderNotAhead' /\ NotifiedDelivered' /\ (phase' = "sending" => node'.begin < Total)
  BY <1>1 DEF IInv, SenderNotAhead, NotifiedDelivered
<1> QED BY <1>2, <1>3, <1>4, <1>5, <1>6 DEF IInv

LEMMA StutterStep == IInv /\ UNCHANGED vars => IInv'
BY DEF vars, IInv, TypeOK, SenderNotAhead, InFlightOK, StageOK, FewSkips, CopyOK, BitsOK,
       NotifiedDelivered

LEMMA NextIInv == IInv /\ [Next]_vars => IInv'
BY SendMsgStep, RecvAckStep, RecvRejectStep, TimerSkipStep, TimerSendStep, RecvFirstStep,
   RecvNextStep, ReceiverTimerStep, WindowPassesStep, StutterStep DEF Next, SenderTimer

-----------------------------------------------------------------------------
(***************************************************************************)
(* The theorems.                                                           *)
(***************************************************************************)

\* The inductive invariant holds in every reachable state.
THEOREM Inductive == Spec => []IInv
<1>1. Init => IInv
  BY InitIInv
<1>2. IInv /\ [Next]_vars => IInv'
  BY NextIInv
<1> QED BY <1>1, <1>2, PTL DEF Spec

\* The control fields of FrameSend and FrameRecv stay in their ranges.
THEOREM TypeCorrect == Spec => []TypeOK
<1>1. IInv => TypeOK
  BY DEF IInv
<1> QED BY <1>1, Inductive, PTL

\* CMsgSender's window head never passes the receiver's but by forced skips.
THEOREM SenderNeverAhead == Spec => []SenderNotAhead
<1>1. IInv => SenderNotAhead
  BY DEF IInv
<1> QED BY <1>1, Inductive, PTL

\* NotifyMultiData hands over complete messages.
THEOREM DeliversComplete == Spec => []DeliveredComplete
<1>1. IInv => DeliveredComplete
  BY Typing DEF IInv, StageOK, CopyOK, DeliveredComplete
<1> QED BY <1>1, Inductive, PTL

\* NotifyData on the sender's side implies NotifyMultiData on the receiver's.
THEOREM NotifiesDelivered == Spec => []NotifiedDelivered
<1>1. IInv => NotifiedDelivered
  BY DEF IInv
<1> QED BY <1>1, Inductive, PTL

\* NotifyMultiData is called at most once for a message.
THEOREM DeliversOnce == Spec => []DeliveredOnce
<1>1. IInv => DeliveredOnce
  BY Typing DEF IInv, StageOK, DeliveredOnce
<1> QED BY <1>1, Inductive, PTL

-----------------------------------------------------------------------------
(***************************************************************************)
(* FrameTransfer implements InOrderTransfer.                               *)
(***************************************************************************)

Told == CASE phase \in {"idle", "sending"} -> "pending"
          [] phase = "notified" -> "success"
          [] OTHER -> "dropped"

\* The initial states are initial states of the abstract specification.
LEMMA InitRefines == Init => Abs!Init
BY DEF Init, Abs!Init

\* A step that leaves the copy, the hand-over and the outcome alone.
LEMMA Stutter ==
  ASSUME saved' = saved, delivered' = delivered, Told' = Told
  PROVE  UNCHANGED Abs!vars
BY DEF Abs!vars, Told

\* The sender's steps report success after the hand-over, or drop the message.
LEMMA SenderRefines ==
  ASSUME IInv, IInv', UNCHANGED receiverVars, phase \in {"idle", "sending"}
  PROVE  Abs!Report \/ Abs!Drop \/ UNCHANGED Abs!vars
<1>1. saved' = saved /\ delivered' = delivered
  BY DEF receiverVars
<1>2. phase' \in {"idle", "sending", "notified", "rejected", "givenup"}
  BY DEF IInv, TypeOK
<1>3. CASE phase' \in {"idle", "sending"}
  BY <1>1, <1>3, Stutter DEF Told
<1>4. CASE phase' = "notified"
  <2>1. delivered > 0
    BY <1>1, <1>4 DEF IInv, NotifiedDelivered
  <2> QED BY <1>1, <1>4, <2>1 DEF Abs!Report
<1>5. CASE phase' \in {"rejected", "givenup"}
  BY <1>1, <1>5 DEF Abs!Drop
<1> QED BY <1>2, <1>3, <1>4, <1>5

\* The receiver's steps only add to the copy, and hand over a whole one.
LEMMA ReceiverRefines ==
  ASSUME IInv, IInv', UNCHANGED senderVars, FewSkips',
         delivered = 0, saved \subseteq saved'
  PROVE  Abs!Collect
<1>1. phase' = phase /\ saved' \in SUBSET Frames /\ delivered' \in Nat
  BY DEF senderVars, IInv, TypeOK
<1>2. delivered' > 0 => saved' = Frames
  BY Typing DEF IInv, StageOK, CopyOK, TypeOK
<1> QED BY <1>1, <1>2 DEF Abs!Collect, Abs!AllFrames, Frames

\* Every step maps to a step or a stutter.
LEMMA NextRefines ==
  ASSUME IInv, IInv', FewSkips', [Next]_vars
  PROVE  [Abs!Next]_(Abs!vars)
<1>1. CASE SendMsg \/ RecvAck \/ RecvReject \/ SenderTimer
  <2>1. UNCHANGED receiverVars /\ phase \in {"idle", "sending"}
    BY <1>1 DEF SendMsg, RecvAck, RecvReject, SenderTimer, TimerSkip, TimerSend
  <2> QED BY <2>1, SenderRefines DEF Abs!Next
<1>2. CASE RecvFirst
  <2>1. UNCHANGED senderVars
    BY <1>2 DEF RecvFirst
  <2>2. CASE wnd # "unseen"
    <3>1. UNCHANGED receiverVars
      BY <1>2, <2>2 DEF RecvFirst, RejectIfHot
    <3> QED BY <2>1, <3>1, Stutter DEF senderVars, receiverVars, Told
  <2>3. CASE wnd = "unseen"
    <3>1. delivered = 0 /\ saved = {}
      BY <2>3, Typing DEF IInv, StageOK
    <3> QED BY <2>1, <3>1, ReceiverRefines DEF Abs!Next
  <2> QED BY <2>2, <2>3
<1>3. CASE RecvNext
  <2>1. UNCHANGED senderVars
    BY <1>3 DEF RecvNext
  <2>2. PICK m \in net :
          \/ NextNotOpen(m) \/ NextPassed(m) \/ NextBeyond(m) \/ NextExpected(m)
          \/ \E stray \in BOOLEAN : NextRepeated(m, stray) \/ NextStored(m, stray)
    BY <1>3 DEF RecvNext
  <2>3. CASE UNCHANGED receiverVars
    BY <2>1, <2>3, Stutter DEF senderVars, receiverVars, Told
  <2>4. CASE NextExpected(m) \/ \E stray \in BOOLEAN : NextStored(m, stray)
    <3>1. rphase = "open" /\ saved \subseteq saved'
      BY <2>4 DEF NextExpected, NextStored
    <3>2. delivered = 0
      BY <3>1 DEF IInv, StageOK
    <3> QED BY <2>1, <3>1, <3>2, ReceiverRefines DEF Abs!Next
  <2> QED BY <2>2, <2>3, <2>4 DEF NextNotOpen, RejectIfHot, NextPassed, NextBeyond, NextRepeated
<1>4. CASE ReceiverTimer
  BY <1>4, Stutter DEF ReceiverTimer, senderVars, receiverVars, Told
<1>5. CASE WindowPasses
  BY <1>5, Stutter DEF WindowPasses, senderVars, Told
<1>6. CASE UNCHANGED vars
  BY <1>6, Stutter DEF vars, Told
<1> QED BY <1>1, <1>2, <1>3, <1>4, <1>5, <1>6 DEF Next

\* As long as the sender has skipped few frames, the transport keeps what it
\* promises: whole messages only, at most once, success only after hand-over.
THEOREM Implements == Spec /\ []FewSkips => Promise
<1>1. Init => Abs!Init
  BY InitRefines
<1>2. IInv /\ IInv' /\ FewSkips' /\ [Next]_vars => [Abs!Next]_(Abs!vars)
  BY NextRefines
<1> QED BY <1>1, <1>2, Inductive, PTL DEF Spec, Promise, Abs!Spec
=============================================================================
