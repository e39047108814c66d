---------------------------- MODULE TimerService ----------------------------
(***************************************************************************)
(* What the timer section promises: a timer that is armed is called back   *)
(* once, no more than Slack before its deadline, unless it is disarmed or  *)
(* armed anew first; a timer that is not armed is not called back.         *)
(***************************************************************************)
EXTENDS Integers, SequencesExt

CONSTANTS Timer,
          Delay,     \* the delays timers are armed with
          Slack      \* callbacks come less than this before the deadline

VARIABLES clock,
          deadline,  \* of every armed timer; Off for the others
          calls      \* the timers whose callbacks run, the innermost last

vars == <<clock, deadline, calls>>

Off == -1

Init == clock = 0 /\ deadline = [t \in Timer |-> Off] /\ calls = <<>>

Tick == clock' = clock + 1 /\ UNCHANGED <<deadline, calls>>

Arm(t, delay) ==
    /\ deadline' = [deadline EXCEPT ![t] = clock + delay]
    /\ UNCHANGED <<clock, calls>>

Disarm(t) ==
    /\ deadline' = [deadline EXCEPT ![t] = Off]
    /\ UNCHANGED <<clock, calls>>

Fire(t) ==
    /\ deadline[t] # Off
    /\ deadline[t] < clock + Slack
    /\ deadline' = [deadline EXCEPT ![t] = Off]
    /\ calls' = Append(calls, t)
    /\ UNCHANGED clock

Return ==
    /\ calls # <<>>
    /\ calls' = Front(calls)
    /\ UNCHANGED <<clock, deadline>>

Next ==
    \/ Tick
    \/ \E t \in Timer :
          \/ \E delay \in Delay : Arm(t, delay)
          \/ Disarm(t)
          \/ Fire(t)
    \/ Return

Spec == Init /\ [][Next]_vars
=============================================================================
