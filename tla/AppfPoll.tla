------------------------------ MODULE AppfPoll ------------------------------
(***************************************************************************)
(* appf_poll.c: registration of descriptors and the dispatch of events.    *)
(*                                                                         *)
(* af_poll_run copies the list, polls the copy and calls the callback of   *)
(* every entry of the copy that has events.  Callbacks are application     *)
(* code: they add and remove entries, and may call af_poll_run again.      *)
(***************************************************************************)
EXTENDS PollList

CONSTANTS Fd,          \* descriptor numbers the application uses
          Ctx,         \* callbacks with their contexts
          MaxDepth,    \* how deep the application nests af_poll_run
          OwnFdOnly    \* the application removes, from a callback, only the
                       \* descriptor the callback was called for

ASSUME AppAssumption ==
    /\ MaxDepth \in Nat \ {0}
    /\ OwnFdOnly \in BOOLEAN

VARIABLES
    pollList,   \* _af_daemon->poll_head
    runs        \* the calls of af_poll_run in progress, the innermost last:
                \*   apfds  the copy of the list
                \*   due    indexes with revents that are still to be visited
                \*   cur    index whose callback runs, 0 in the loop itself

vars == <<pollList, runs>>

Run == [apfds : Seq(PollEntry(Fd, Ctx)), due : SUBSET (1..MaxFds),
        cur : 0..MaxFds]

Init == pollList = <<>> /\ runs = <<>>

(* Control is in application code: outside every run, or in a callback.    *)
InApplication == runs # <<>> => Last(runs).cur # 0

Called == Last(runs).apfds[Last(runs).cur]

SetTop(r) == runs' = Front(runs) \o <<r>>

-----------------------------------------------------------------------------
af_poll_add(fd, ctx) ==
    /\ InApplication
    /\ pollList' = AddEntry(pollList, [fd |-> fd, ctx |-> ctx])
    /\ UNCHANGED runs

af_poll_rem(fd) ==
    /\ InApplication
    /\ (OwnFdOnly /\ runs # <<>>) => fd = Called.fd
    /\ pollList' = RemEntry(pollList, fd)
    /\ UNCHANGED runs

(* af_poll_run up to the return of poll with events pending.  A run of an  *)
(* empty list, a timeout and EINTR return without a change of state.       *)
RunBegin ==
    /\ InApplication
    /\ Len(runs) < MaxDepth
    /\ pollList # <<>>
    /\ \E revents \in (SUBSET DOMAIN Snapshot(pollList)) \ {{}} :
          runs' = Append(runs, [apfds |-> Snapshot(pollList),
                                due |-> revents, cur |-> 0])
    /\ UNCHANGED pollList

(* Faults for the sensitivity checks: the callback of the next slot is     *)
(* called, the loop stops after one callback, an entry is visited again.   *)
DispatchWrongSlot ==
    /\ runs # <<>> /\ Last(runs).cur = 0
    /\ \E i \in Last(runs).due :
          SetTop([Last(runs) EXCEPT !.due = @ \ {i}, !.cur = i + 1])
    /\ UNCHANGED pollList

DispatchFirstOnly ==
    /\ runs # <<>> /\ Last(runs).cur = 0
    /\ \E i \in Last(runs).due :
          SetTop([Last(runs) EXCEPT !.due = {}, !.cur = i])
    /\ UNCHANGED pollList

DispatchAgain ==
    /\ runs # <<>> /\ Last(runs).cur = 0
    /\ \E i \in Last(runs).due : SetTop([Last(runs) EXCEPT !.cur = i])
    /\ UNCHANGED pollList

(* The loop finds the next entry with events and calls its callback.       *)
Dispatch ==
    /\ runs # <<>> /\ Last(runs).cur = 0
    /\ \E i \in Last(runs).due :
          /\ \A j \in Last(runs).due : i <= j
          /\ SetTop([apfds |-> Last(runs).apfds,
                     due |-> Last(runs).due \ {i}, cur |-> i])
    /\ UNCHANGED pollList

CallbackReturn ==
    /\ runs # <<>> /\ Last(runs).cur # 0
    /\ SetTop([Last(runs) EXCEPT !.cur = 0])
    /\ UNCHANGED pollList

RunReturn ==
    /\ runs # <<>> /\ Last(runs).cur = 0 /\ Last(runs).due = {}
    /\ runs' = Front(runs)
    /\ UNCHANGED pollList

Next ==
    \/ \E fd \in Fd, ctx \in Ctx : af_poll_add(fd, ctx)
    \/ \E fd \in Fd : af_poll_rem(fd)
    \/ RunBegin
    \/ Dispatch
    \/ CallbackReturn
    \/ RunReturn

Spec == Init /\ [][Next]_vars

(* Callbacks return and the loop of af_poll_run goes on.                   *)
FairSpec == Spec /\ WF_vars(Dispatch) /\ WF_vars(CallbackReturn)
                 /\ WF_vars(RunReturn)

-----------------------------------------------------------------------------
TypeOK ==
    /\ pollList \in Seq(PollEntry(Fd, Ctx))
    /\ runs \in Seq(Run)
    /\ Len(runs) <= MaxDepth
    /\ \A k \in DOMAIN runs :
          /\ runs[k].due \subseteq DOMAIN runs[k].apfds
          /\ runs[k].cur \in {0} \cup DOMAIN runs[k].apfds
          /\ k < Len(runs) => runs[k].cur # 0

(* A descriptor has one handler: af_poll_add refuses a listed descriptor   *)
(* and af_poll_rem, which stops at the first match, leaves none behind.    *)
UniqueFds ==
    \A i, j \in DOMAIN pollList : pollList[i].fd = pollList[j].fd => i = j

(* The list never outgrows the arrays of af_poll_run, so a run polls every *)
(* registered descriptor; the tail of a longer list would never be served. *)
NothingUnpolled == Snapshot(pollList) = pollList

(* Every entry a run has yet to visit is still registered, with the same   *)
(* context: the copies of the list are not stale where they will be used.  *)
PendingRegistered ==
    \A k \in DOMAIN runs : \A i \in runs[k].due :
        \E j \in DOMAIN pollList : pollList[j] = runs[k].apfds[i]

(* A callback is only ever called for an entry registered at that moment:  *)
(* never for a descriptor, or with a context, that an earlier callback of  *)
(* the same run has removed.                                               *)
CallsRegistered ==
    [][(Dispatch => \E j \in DOMAIN pollList : pollList[j] = Called')]_vars

(* An entry poll reported events for has its callback called, whatever the *)
(* callbacks before it add and remove.                                     *)
ReportedIsCalled ==
    \A i \in 1..MaxFds :
        (runs # <<>> /\ i \in runs[1].due) ~> (runs # <<>> /\ runs[1].cur = i)

-----------------------------------------------------------------------------
NoHandler == [fd |-> 0, ctx |-> 0]

(* The list and the loop implement the registration and dispatch promised  *)
(* by PollDispatch when callbacks remove only their own descriptor and do  *)
(* not call af_poll_run themselves.                                        *)
Dispatcher ==
    INSTANCE PollDispatch WITH
        handlers <- ToSet(pollList),
        due      <- UNION {{r.apfds[i] : i \in r.due} : r \in ToSet(runs)},
        serving  <- IF runs # <<>> /\ Last(runs).cur # 0 THEN Called
                    ELSE NoHandler

ImplementsDispatch == Dispatcher!Spec
=============================================================================
