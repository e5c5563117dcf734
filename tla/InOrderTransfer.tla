-------------------------- MODULE InOrderTransfer --------------------------
(***************************************************************************)
(* What the frame transport of dcf_dtframe.cpp promises for one message,   *)
(* without windows, acknowledgements, timers or a channel: the receiver    *)
(* collects frames and hands the message over at most once and only whole, *)
(* and the sender reports success only for a message that was handed over. *)
(* The sender may also drop the message, at any time and in silence.       *)
(***************************************************************************)
EXTENDS Integers

CONSTANT Total   \* frames of the message

VARIABLES
  copy,     \* the frames the receiver holds
  handed,   \* the receiver's application has the message
  told      \* what the sender's application can know: nothing, success, nothing ever

vars == <<copy, handed, told>>

AllFrames == 0 .. Total - 1

Init == copy = {} /\ handed = FALSE /\ told = "pending"

Collect ==
  /\ ~ handed
  /\ copy' \in SUBSET AllFrames /\ copy \subseteq copy'
  /\ handed' \in BOOLEAN /\ (handed' => copy' = AllFrames)
  /\ UNCHANGED told

Report == told = "pending" /\ handed /\ told' = "success" /\ UNCHANGED <<copy, handed>>

Drop == told = "pending" /\ told' = "dropped" /\ UNCHANGED <<copy, handed>>

Next == Collect \/ Report \/ Drop

Spec == Init /\ [][Next]_vars
=============================================================================
