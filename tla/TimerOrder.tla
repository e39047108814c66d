----------------------------- MODULE TimerOrder -----------------------------
(***************************************************************************)
(* The order of the two lists of appf_timer.c at any resolution of the     *)
(* clock.  timediff cuts a difference of less than a millisecond to zero,  *)
(* and a timer that finds no difference goes in front of those already     *)
(* waiting, so the lists are not in timeout order: small errors add up,    *)
(* timer by timer.  What holds is an order by timeout and by the time of   *)
(* starting together, stated here with a history variable the code does    *)
(* not have.                                                               *)
(***************************************************************************)
EXTENDS AppfTimer

VARIABLE since    \* of every timer, those started after it was last started

orderVars == <<vars, since>>

OrderInit == Init /\ since = [t \in Timer |-> {}]

OrderNext ==
    \/ \E t \in Timer, d \in Delay :
          /\ af_timer_start(t, d)
          /\ since' = [u \in Timer |-> IF u = t THEN {} ELSE since[u] \cup {t}]
    \/ \E t \in Timer : af_timer_stop(t) /\ UNCHANGED since
    \/ (Tick \/ CheckBegin \/ CheckCalls \/ CallbackReturn \/ CheckReturn)
       /\ UNCHANGED since

OrderSpec == OrderInit /\ [][OrderNext]_orderVars

(* Callbacks return and the loops of af_timer_check go on.  That checks    *)
(* begin is up to the application: nothing in the library calls them.      *)
Loop == CheckCalls \/ CallbackReturn \/ CheckReturn
FairSpec == OrderSpec /\ WF_orderVars(Loop /\ UNCHANGED since)

-----------------------------------------------------------------------------
(* A timer is called back before another expired one only when its timeout *)
(* is the earlier or it was started after the other, whatever callbacks    *)
(* stop, start and restart in between.                                     *)
CalledInOrder ==
    [][CheckCalls =>
          \A i \in DOMAIN expired \ {1} :
             \/ Ticks(timeout[Head(expired)]) < Ticks(timeout[expired[i]])
             \/ Head(expired) \in since[expired[i]]]_orderVars

(* A timer that is due stays in the list after the first loop of           *)
(* af_timer_check only when the first timer left there was started after   *)
(* it; that first timer is not due.                                        *)
CollectedInOrder ==
    [][CheckBegin =>
          \A i \in DOMAIN head' :
             \/ Ticks(timeout[head'[i]]) > clock
             \/ i > 1 /\ head'[1] \in since[head'[i]]]_orderVars
=============================================================================
