-------------------------- MODULE MCClientSession --------------------------
(***************************************************************************)
(* ClientSession for TLC: two servers the gateway may name and two codes,  *)
(* so that an answer of an earlier login races the current one; a login    *)
(* times out at the second tick, a session at the second silent period.    *)
(***************************************************************************)
EXTENDS ClientSession
=============================================================================
