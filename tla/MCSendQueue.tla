---------------------------- MODULE MCSendQueue ----------------------------
(***************************************************************************)
(* SendQueue for TLC: a ring of four slots, which takes three messages and  *)
(* wraps with the fourth.                                                  *)
(***************************************************************************)
EXTENDS SendQueue
=============================================================================
