----------------------------- MODULE WorkTimer -----------------------------
(***************************************************************************)
(* The timers of the worker: dcf_time_exact_work_and_sleep and the         *)
(* arithmetic on clocks of dcframe/tools/comm/dcf_time.cpp, as built for   *)
(* every system but Windows. A clock is seconds and a part of a second; a  *)
(* millisecond is one PerSec-th of a second, and no clock is finer.        *)
(***************************************************************************)
EXTENDS Integers

CONSTANT PerSec   \* milliseconds in a second, scaled down

ASSUME WorkTimerAssumption == PerSec \in Nat \ {0}

Clock(ms) == [tv_sec |-> ms \div PerSec, tv_nsec |-> ms % PerSec]
NoClock == Clock(0)

dcf_time_compare(t1, t2) ==
  CASE t1.tv_sec > t2.tv_sec \/ (t1.tv_sec = t2.tv_sec /\ t1.tv_nsec > t2.tv_nsec) -> 1
    [] t1 = t2 -> 0
    [] OTHER -> -1

Carried(sec, nsec) ==
  IF nsec >= PerSec THEN [tv_sec |-> sec + 1, tv_nsec |-> nsec % PerSec] ELSE [tv_sec |-> sec, tv_nsec |-> nsec]

dcf_time_add(t1, t2) == Carried(t1.tv_sec + t2.tv_sec, t1.tv_nsec + t2.tv_nsec)

\* Nothing when t1 is before t2.
dcf_time_minus(t1, t2) ==
  CASE dcf_time_compare(t1, t2) = -1 -> NoClock
    [] dcf_time_compare(t1, t2) >= 0 /\ t1.tv_nsec < t2.tv_nsec ->
         [tv_sec |-> t1.tv_sec - t2.tv_sec - 1, tv_nsec |-> t1.tv_nsec + PerSec - t2.tv_nsec]
    [] dcf_time_compare(t1, t2) >= 0 /\ t1.tv_nsec >= t2.tv_nsec ->
         [tv_sec |-> t1.tv_sec - t2.tv_sec, tv_nsec |-> t1.tv_nsec - t2.tv_nsec]

dcf_time_add_num(t, num) ==
  LET s == IF num > PerSec THEN num \div PerSec ELSE 0
  IN Carried(t.tv_sec + s, t.tv_nsec + num - s * PerSec)

\* Mutant: the clock is never turned back.
FaultBegun(pre, cur) == IF pre = NoClock THEN cur ELSE pre

\* A point of a timer that was never set, or that the clock was turned back behind,
\* begins anew.
Begun(pre, cur) == IF pre = NoClock \/ dcf_time_compare(pre, cur) # -1 THEN cur ELSE pre

\* fired: it is time to work, which then goes on without a rest. Otherwise rest
\* is what the thread sleeps before it may come again.
exact_work_and_sleep(pre, cur, workms, sleepms) ==
  LET work == Begun(pre.work, cur)
      sleep == Begun(pre.sleep, cur)
      rested == dcf_time_add_num(sleep, sleepms)
      left == IF dcf_time_compare(rested, cur) = 1 THEN dcf_time_minus(rested, cur) ELSE NoClock
      fired == dcf_time_compare(dcf_time_add(cur, left), dcf_time_add_num(work, workms)) \in {0, 1}
  IN [fired |-> fired, rest |-> IF fired THEN NoClock ELSE left,
      work |-> IF fired THEN cur ELSE work, sleep |-> sleep]
=============================================================================
