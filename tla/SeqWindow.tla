----------------------------- MODULE SeqWindow -----------------------------
(***************************************************************************)
(* CFSWndCtrl and CFsAgeingTable (dcframe/tools/comm/dcf_bits.cpp): the     *)
(* window of 16-bit sequence numbers in which the receiver notes what has   *)
(* arrived, and the table of what arrived last in each of the past seconds. *)
(* A window is a record, its operations are operators on it.                *)
(***************************************************************************)
EXTENDS BitTools, Sequences

CONSTANTS
  WND_BITS,    \* m_wnd_bitsize, SEQ_WND_SIZE: 1024
  MAX_SEQ,     \* MAX_SEQ: 0xffff
  AGEING_SIZE  \* m_ageing_size, WND_AGEING_TIMEOUT + 2: 62

ASSUME WindowAssumption ==
  /\ BYTE_BITS \in Nat \ {0}
  /\ WND_BITS \in Nat /\ WND_BITS % BYTE_BITS = 0 /\ WND_BITS >= 2 * BYTE_BITS
  /\ MAX_SEQ \in Nat /\ MAX_SEQ > 2 * WND_BITS
  /\ AGEING_SIZE \in Nat /\ AGEING_SIZE >= 2

MID_SEQ == MAX_SEQ \div 2
Words == 0 .. MAX_SEQ
\* The value a WORD takes.
Word(n) == n % (MAX_SEQ + 1)

Windows == [begin : Words, end : Words, bits : SUBSET (0 .. WND_BITS - 1)]

\* GetWndCtrl: begin 0 stands for a window nothing has arrived in.
EmptyWindow == [begin |-> 0, end |-> 0, bits |-> {}]

\* Fault: the number one before the begin counts as not seen.
FaultOldForgotten(w, idx) ==
  IF w.begin = 0 THEN "in_wnd"
  ELSE IF idx < w.begin - 1 THEN "old"
  ELSE IF idx <= w.end THEN "in_range"
  ELSE IF idx <= w.begin + WND_BITS THEN "in_wnd" ELSE "out_wnd"

\* wnd_compare: a number is old (before the begin), in range (up to the end),
\* in the window (behind the end, still with a bit) or out of it. The second
\* half is for a window that reaches beyond MAX_SEQ.
wnd_compare(w, idx) ==
  LET max == w.begin + WND_BITS
      low == max - MAX_SEQ + 1
  IN IF w.begin = 0 THEN "in_wnd"
     ELSE IF idx \in {w.begin, w.end} THEN "in_range"
     ELSE IF max <= MAX_SEQ
          THEN IF idx < w.begin THEN "old"
               ELSE IF idx <= w.end THEN "in_range"
               ELSE IF idx <= max THEN "in_wnd" ELSE "out_wnd"
     ELSE IF idx > MID_SEQ
          THEN IF idx < w.begin THEN "old"
               ELSE IF idx < w.end THEN "in_range" ELSE "in_wnd"
     ELSE IF idx > low THEN "out_wnd"
     ELSE IF idx > w.end THEN "in_wnd" ELSE "in_range"

\* idx_to_pt: the position of a number in the bitmap.
idx_to_pt(w, idx) ==
  IF w.begin = 0 THEN 0
  ELSE IF w.begin <= w.end \/ idx >= w.begin THEN Word(idx - w.begin)
  ELSE Word(MAX_SEQ - w.begin + idx)

\* IsAcked: was the number seen. A position one beyond the bitmap passes the
\* check; the bit behind it is whatever the memory holds (stray).
IsAcked(w, idx, cmp, stray) ==
  \/ cmp = "old"
  \/ /\ cmp = "in_range"
     /\ \/ idx_to_pt(w, idx) \in w.bits
        \/ idx_to_pt(w, idx) = WND_BITS /\ stray

\* get_range_size: the numbers from the begin to the end.
range_size(w) ==
  IF w.begin # w.end THEN Word(idx_to_pt(w, w.end) + 1)
  ELSE IF \E b \in w.bits : b < BYTE_BITS THEN 1 ELSE 0

\* Fault: the end stays where it was.
FaultEndNotMoved(w, idx, cmp) ==
  LET v == IF w.begin = 0 THEN [w EXCEPT !.begin = idx, !.end = idx] ELSE w
  IN [v EXCEPT !.bits = @ \cup ({idx_to_pt(v, idx)} \cap 0 .. WND_BITS - 1)]

\* wnd_save: the first number that arrives makes the begin. The bit one beyond
\* the bitmap is not part of it.
wnd_save(w, idx, cmp) ==
  LET v == IF w.begin = 0 THEN [w EXCEPT !.begin = idx, !.end = idx] ELSE w
  IN [v EXCEPT !.bits = @ \cup ({idx_to_pt(v, idx)} \cap 0 .. WND_BITS - 1),
               !.end = IF cmp = "in_wnd" THEN idx ELSE @]

wnd_can_move_nums(w) == con_nums_from_head(w.bits, WND_BITS)

\* Fault: the bitmap stays where it was.
FaultBitsNotMoved(w, nums) == [w EXCEPT !.begin = Word(@ + nums)]

\* wnd_move: the size is taken after the bits were moved.
wnd_move(w, nums) ==
  LET v == [w EXCEPT !.bits = left_move(@, WND_BITS, nums)]
      begin == Word(w.begin + nums)
  IN [v EXCEPT !.begin = begin, !.end = IF nums >= range_size(v) THEN begin ELSE @]

-----------------------------------------------------------------------------
\* CFsAgeingTable: one number for each second, the current second last.
AgeingTables == [1 .. AGEING_SIZE -> Words]
EmptyTable == [s \in 1 .. AGEING_SIZE |-> 0]

push_idx(table, idx) == [table EXCEPT ![AGEING_SIZE] = idx]

\* increase: a new second begins and the oldest is given up.
oldest(table) == Head(table)
increase(table, init) == Append(Tail(table), init)
=============================================================================
