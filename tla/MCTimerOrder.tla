---------------------------- MODULE MCTimerOrder ----------------------------
(***************************************************************************)
(* Values of the constants of TimerOrder for TLC: sets of delays, as the   *)
(* sec and nsec of a timer.                                                *)
(***************************************************************************)
EXTENDS TimerOrder

(* At once, a millisecond and a half, and a whole second.                  *)
ZeroDelays == {[sec |-> 0, nsec |-> 0], [sec |-> 0, nsec |-> 3],
               [sec |-> 1, nsec |-> 0]}

(* Half a millisecond, a millisecond and a half, and a whole second whose  *)
(* nsec makes the addition carry, or reach 10^9 without a carry.           *)
SubMsDelays == {[sec |-> 0, nsec |-> 1], [sec |-> 0, nsec |-> 3],
                [sec |-> 1, nsec |-> 0]}
=============================================================================
