----------------------------- MODULE AppfTimer ------------------------------
(***************************************************************************)
(* appf_timer.c: the timers of the daemon, kept in a list in timeout       *)
(* order.  af_timer_check moves the expired ones to a second list and      *)
(* calls their callbacks, which may start and stop any timer.              *)
(*                                                                         *)
(* Time is counted in ticks, the unit of tv_nsec; a second has NsPerSec    *)
(* of them and a millisecond NsPerMs, small numbers in place of 10^9 and   *)
(* 10^6.  The list is ordered by the macro timediff of appf.h, which works *)
(* in whole milliseconds.                                                  *)
(***************************************************************************)
EXTENDS Integers, SequencesExt

CONSTANTS Timer,       \* the timers of the application
          Delay,       \* the values of sec and nsec it starts them with
          NsPerMs,     \* nanoseconds of a millisecond  (1000000)
          MsPerSec,    \* milliseconds of a second      (1000)
          HugeSecs,    \* 100000000 in timediff
          MaxTime,     \* bound of the clock, in ticks
          MaxDepth     \* how deep the application nests af_timer_check

NsPerSec == NsPerMs * MsPerSec

Time == [sec : Nat, nsec : Nat]

Ticks(x) == x.sec * NsPerSec + x.nsec

ASSUME TimerAssumption ==
    /\ NsPerMs \in Nat \ {0} /\ MsPerSec \in Nat \ {0}
    /\ HugeSecs \in Nat /\ MaxTime \in Nat /\ MaxDepth \in Nat
    /\ Delay \subseteq [sec : Nat, nsec : 0..NsPerSec]

VARIABLES
    clock,      \* CLOCK_MONOTONIC, in ticks
    timeout,    \* timeout of every timer
    running,    \* running flag of every timer
    head,       \* _af_daemon->timers.head
    expired,    \* _af_daemon->timers.expired
    calls,      \* the timers whose callbacks run, the innermost last
    inLoop      \* the innermost af_timer_check is between two callbacks

vars == <<clock, timeout, running, head, expired, calls, inLoop>>

Init ==
    /\ clock = 0
    /\ timeout = [t \in Timer |-> [sec |-> 0, nsec |-> 0]]
    /\ running = [t \in Timer |-> FALSE]
    /\ head = <<>> /\ expired = <<>>
    /\ calls = <<>> /\ inLoop = FALSE

-----------------------------------------------------------------------------
(* af_timer_now                                                            *)
Now == [sec |-> clock \div NsPerSec, nsec |-> clock % NsPerSec]

(* Division in C truncates towards zero.                                   *)
Quotient(a, b) == IF a >= 0 THEN a \div b ELSE -((-a) \div b)

timediff(x, y) ==
    IF x.sec < y.sec \/ x.sec - y.sec > HugeSecs THEN 0
    ELSE (x.sec - y.sec) * MsPerSec + Quotient(x.nsec - y.nsec, NsPerMs)

(* Faults for the sensitivity checks: the test for the carry is reversed,  *)
(* the carry is lost.                                                      *)
TimeoutReversedTest(d) ==
    LET nsec == Now.nsec + d.nsec
    IN  IF nsec > NsPerSec
        THEN [sec |-> Now.sec + d.sec, nsec |-> nsec]
        ELSE [sec |-> Now.sec + d.sec + 1, nsec |-> nsec - NsPerSec]

TimeoutLostCarry(d) ==
    LET nsec == Now.nsec + d.nsec
    IN  [sec |-> Now.sec + d.sec,
         nsec |-> IF nsec > NsPerSec THEN nsec - NsPerSec ELSE nsec]

(* The timeout of a timer started now; one carry, when nsec exceeds 10^9.  *)
TimeoutAfter(d) ==
    LET nsec == Now.nsec + d.nsec
    IN  IF nsec > NsPerSec
        THEN [sec |-> Now.sec + d.sec + 1, nsec |-> nsec - NsPerSec]
        ELSE [sec |-> Now.sec + d.sec, nsec |-> nsec]

(* Fault: a new timer goes to the tail of the list.                        *)
PositionAtTail(list, to) == Len(list) + 1

(* The position of a new timer: before the first that is not earlier.      *)
Position(list, to) ==
    LET later == {i \in DOMAIN list : timediff(to, timeout[list[i]]) <= 0}
    IN  IF later = {} THEN Len(list) + 1 ELSE Min(later)

Unlink(list, t) == RemoveFirst(list, t)

(* Fault: a timer whose timeout is the present instant is left waiting.    *)
DuePrefixStrict(list) ==
    LET later == {i \in DOMAIN list : timediff(timeout[list[i]], Now) >= 0}
    IN  IF later = {} THEN Len(list) ELSE Min(later) - 1

(* The leading timers of the list that timediff reports as due.            *)
DuePrefix(list) ==
    LET later == {i \in DOMAIN list : timediff(timeout[list[i]], Now) > 0}
    IN  IF later = {} THEN Len(list) ELSE Min(later) - 1

InApplication == ~inLoop

-----------------------------------------------------------------------------
Tick == clock < MaxTime /\ clock' = clock + 1
        /\ UNCHANGED <<timeout, running, head, expired, calls, inLoop>>

(* Fault: a running timer is linked in again without being stopped.        *)
StartWithoutStop(t, d) ==
    /\ InApplication
    /\ clock + Ticks(d) <= MaxTime
    /\ timeout' = [timeout EXCEPT ![t] = TimeoutAfter(d)]
    /\ running' = [running EXCEPT ![t] = TRUE]
    /\ head' = InsertAt(head, Position(head, TimeoutAfter(d)), t)
    /\ UNCHANGED <<clock, expired, calls, inLoop>>

(* af_timer_start: a running timer is stopped first.                       *)
af_timer_start(t, d) ==
    LET active == IF running[t] THEN Unlink(head, t) ELSE head
    IN  /\ InApplication
        /\ clock + Ticks(d) <= MaxTime
        /\ timeout' = [timeout EXCEPT ![t] = TimeoutAfter(d)]
        /\ running' = [running EXCEPT ![t] = TRUE]
        /\ head' = InsertAt(active, Position(active, TimeoutAfter(d)), t)
        /\ expired' = IF running[t] THEN Unlink(expired, t) ELSE expired
        /\ UNCHANGED <<clock, calls, inLoop>>

(* af_timer_stop: the flag is cleared where the timer is found.            *)
af_timer_stop(t) ==
    /\ InApplication
    /\ running[t]
    /\ head' = Unlink(head, t)
    /\ expired' = Unlink(expired, t)
    /\ running' = [running EXCEPT ![t] =
                      ~(Contains(head, t) \/ Contains(expired, t))]
    /\ UNCHANGED <<clock, timeout, calls, inLoop>>

(* af_timer_check up to its second loop: the due timers change lists.      *)
CheckBegin ==
    /\ InApplication
    /\ Len(calls) < MaxDepth
    /\ expired' = SubSeq(head, 1, DuePrefix(head))
    /\ head' = SubSeq(head, DuePrefix(head) + 1, Len(head))
    /\ inLoop' = TRUE
    /\ UNCHANGED <<clock, timeout, running, calls>>

(* The second loop pops an expired timer and calls its callback.           *)
CheckCalls ==
    /\ inLoop /\ expired # <<>>
    /\ expired' = Tail(expired)
    /\ running' = [running EXCEPT ![Head(expired)] = FALSE]
    /\ calls' = Append(calls, Head(expired))
    /\ inLoop' = FALSE
    /\ UNCHANGED <<clock, timeout, head>>

CallbackReturn ==
    /\ ~inLoop /\ calls # <<>>
    /\ calls' = Front(calls)
    /\ inLoop' = TRUE
    /\ UNCHANGED <<clock, timeout, running, head, expired>>

(* Fault: timers due by now, those the callbacks started too, are expired. *)
CheckReturnRecollects ==
    /\ inLoop /\ expired = <<>>
    /\ inLoop' = (DuePrefix(head) > 0)
    /\ expired' = SubSeq(head, 1, DuePrefix(head))
    /\ head' = SubSeq(head, DuePrefix(head) + 1, Len(head))
    /\ UNCHANGED <<clock, timeout, running, calls>>

CheckReturn ==
    /\ inLoop /\ expired = <<>>
    /\ inLoop' = FALSE
    /\ UNCHANGED <<clock, timeout, running, head, expired, calls>>

Next ==
    \/ Tick
    \/ \E t \in Timer : \/ \E d \in Delay : af_timer_start(t, d)
                        \/ af_timer_stop(t)
    \/ CheckBegin
    \/ CheckCalls
    \/ CallbackReturn
    \/ CheckReturn

Spec == Init /\ [][Next]_vars

-----------------------------------------------------------------------------
TypeOK ==
    /\ clock \in Nat
    /\ timeout \in [Timer -> Time]
    /\ running \in [Timer -> BOOLEAN]
    /\ head \in Seq(Timer) /\ expired \in Seq(Timer)
    /\ calls \in Seq(Timer)
    /\ inLoop \in BOOLEAN

(* No timer is linked twice; lists that share the one next pointer of a    *)
(* timer would be cut or closed into a ring.                               *)
LinkedOnce ==
    /\ IsInjective(head) /\ IsInjective(expired)
    /\ \A t \in Timer : ~(Contains(head, t) /\ Contains(expired, t))

(* The flag tells exactly whether a timer is linked.  A linked timer that  *)
(* is not running could be linked again or fire after a stop; a running    *)
(* timer that is not linked never fires.                                   *)
RunningIsLinked ==
    \A t \in Timer : running[t] <=> Contains(head, t) \/ Contains(expired, t)

ListsExact == LinkedOnce /\ RunningIsLinked

(* After the first loop of af_timer_check no timer that is overdue by a    *)
(* millisecond or more, an amount no rounding explains, is still waiting.  *)
OverdueCollected ==
    [][CheckBegin => \A i \in DOMAIN head' :
                        Ticks(timeout[head'[i]]) + NsPerMs > clock]_vars

(* af_timer_check comes to an end whatever its callbacks start: timers     *)
(* started by a callback wait for the next check.                          *)
CheckTerminates == (inLoop \/ calls # <<>>) ~> (~inLoop /\ calls = <<>>)

(* What the section promises its callers: a callback runs only for a timer *)
(* started and not stopped since, once for a start, and less than a        *)
(* millisecond before the timeout asked for.                               *)
Service ==
    INSTANCE TimerService WITH
        Delay <- {Ticks(d) : d \in Delay},
        Slack <- NsPerMs,
        deadline <- [t \in Timer |-> IF running[t] THEN Ticks(timeout[t])
                                     ELSE -1]

ImplementsService == Service!Spec
=============================================================================
