------------------------- MODULE MCMessageReceiver -------------------------
(***************************************************************************)
(* MessageReceiver for TLC: a window of three bytes of two bits.            *)
(***************************************************************************)
EXTENDS MessageReceiver

\* The bound of the search: it stops where a number came near the end of the
\* window, of which the properties say nothing.
InReach == ~edge
=============================================================================
