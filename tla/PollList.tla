------------------------------ MODULE PollList ------------------------------
(***************************************************************************)
(* The list of descriptors the dispatcher of appf_poll.c polls,            *)
(* _af_daemon->poll_head, as a sequence whose first element is the head.   *)
(* An entry (af_poll_t) is the descriptor with its callback and context;   *)
(* callback and context always travel together and are one value here.     *)
(***************************************************************************)
EXTENDS Integers, SequencesExt

CONSTANT MaxFds       \* MAX_FDS, the size of the arrays of af_poll_run

ASSUME MaxFdsAssumption == MaxFds \in Nat \ {0}

PollEntry(Fd, Ctx) == [fd : Fd, ctx : Ctx]

Listed(list, fd) == \E i \in DOMAIN list : list[i].fd = fd

(* Faults for the sensitivity checks: no scan for the descriptor, a limit  *)
(* that is off by one.                                                     *)
AddUnscanned(list, fd) == IF Len(list) >= MaxFds THEN -1 ELSE 0

AddOneTooMany(list, fd) ==
    IF Listed(list, fd) THEN -2 ELSE IF Len(list) > MaxFds THEN -1 ELSE 0

(* af_poll_add: a listed descriptor (-2) or a full list (-1) changes       *)
(* nothing, any other descriptor becomes the new head (0).                 *)
AddResult(list, fd) ==
    IF Listed(list, fd) THEN -2 ELSE IF Len(list) >= MaxFds THEN -1 ELSE 0

AddEntry(list, e) ==
    IF AddResult(list, e.fd) = 0 THEN <<e>> \o list ELSE list

(* Fault: the entry behind the match is unlinked instead of the match.     *)
RemSuccessor(list, fd) ==
    LET k == SelectInSeq(list, LAMBDA e : e.fd = fd)
    IN  IF k \in 1..(Len(list) - 1) THEN RemoveAt(list, k + 1) ELSE list

(* af_poll_rem: the first entry of the descriptor leaves the list.         *)
RemEntry(list, fd) == RemoveFirstMatch(list, LAMBDA e : e.fd = fd)

(* The copy af_poll_run makes of the list before it polls.                 *)
Snapshot(list) ==
    SubSeq(list, 1, IF Len(list) <= MaxFds THEN Len(list) ELSE MaxFds)
=============================================================================
