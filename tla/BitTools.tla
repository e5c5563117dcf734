------------------------------ MODULE BitTools ------------------------------
(***************************************************************************)
(* dcf_bittools (dcframe/tools/comm/dcf_bits.cpp): bitmaps of a number of  *)
(* bytes. A bitmap is the set of the positions of its one bits, below size. *)
(***************************************************************************)
EXTENDS Integers

CONSTANT BYTE_BITS  \* bits of a BYTE: 8

\* left_move: whole bytes first, then the bits of every byte but the last one
\* that was moved.
left_move(bits, size, n) ==
  LET part  == n % BYTE_BITS
      whole == n - part
      moved == { b - whole : b \in {c \in bits : c >= whole} }
      last  == size - whole - BYTE_BITS
  IN  IF n >= size THEN {}
      ELSE IF part = 0 THEN moved
      ELSE { b \in 0 .. size - 1 :
               \/ b < last /\ b + part \in moved
               \/ b >= last /\ b \in moved }

\* con_nums_from_head: the length of the run of ones at the head.
con_nums_from_head(bits, size) ==
  CHOOSE n \in 0 .. size : /\ \A b \in 0 .. n - 1 : b \in bits
                           /\ n = size \/ n \notin bits
=============================================================================
