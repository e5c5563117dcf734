-------------------------- MODULE MCFrameTransfer --------------------------
(***************************************************************************)
(* FrameTransfer for TLC: three frames through a window of two, so that the *)
(* window moves before the last frame; three sends of a head frame before  *)
(* it is skipped; two datagrams in flight, so that a late duplicate races  *)
(* a fresh frame or answer.                                                *)
(***************************************************************************)
EXTENDS FrameTransfer
=============================================================================
