------------------------------ MODULE PidFile -------------------------------
(***************************************************************************)
(* Instances of one daemon that start by af_daemon_start with the same     *)
(* pid_file: _af_write_pid of appf_main.c over af_exec_is_running of       *)
(* appf_exec.c.  Each step is a group of calls of the kernel that another  *)
(* process cannot come between with an effect of its own.                  *)
(*                                                                         *)
(* Nothing removes the file when an instance ends, so an orderly end is    *)
(* the same as a crash; only af_fatal does, whoever's file it is.  Process *)
(* numbers are used again, also by other programs.                         *)
(***************************************************************************)
EXTENDS Naturals, FiniteSets

CONSTANTS
  Pid,          \* process numbers
  LongPid       \* those of six digits or more, whose path does not fit proc_loc

ASSUME PidAssumption == LongPid \subseteq Pid

VARIABLES
  proc,         \* what the process with a number is
  target,       \* the number an instance has read, or Nobody
  file,         \* the pid file: Absent, Empty, Garbage or a number
  handle,       \* instances that have the file (and not a removed one) open
  excused       \* whether something has happened that the file does not guard against

pidVars == <<proc, target, file, handle, excused>>

Nobody == "nobody"
Absent == "absent"
Empty == "empty"
Garbage == "garbage"

Starting == {"read", "look up", "remove", "create", "write"}
Alive == Starting \cup {"running", "refused"}
States == Alive \cup {"none", "zombie", "other"}

PidInit ==
  /\ proc = [p \in Pid |-> "none"]
  /\ target = [p \in Pid |-> Nobody]
  /\ file \in {Absent, Empty, Garbage} \cup Pid
  /\ handle = {}
  /\ excused = FALSE

Goto(p, s) == proc' = [proc EXCEPT ![p] = s]
Excuse(e) == excused' = (excused \/ e)

-----------------------------------------------------------------------------
(* Processes come and go. *)

Start(p) ==
  /\ proc[p] = "none"
  /\ Goto(p, "read")
  /\ target' = [target EXCEPT ![p] = Nobody]
  /\ Excuse(\E q \in Pid : proc[q] \in Starting)
  /\ UNCHANGED <<file, handle>>

Die(p) ==
  /\ proc[p] \in Alive
  /\ Goto(p, "zombie")
  /\ handle' = handle \ {p}
  /\ UNCHANGED <<target, file, excused>>

(* af_fatal: by the application that runs, or by one that is not, as when *)
(* its signals cannot be set up, it cannot become a daemon or was refused. *)
Fatal(p) ==
  /\ proc[p] \in {"running", "read", "refused"}
  /\ file' = Absent /\ handle' = {}
  /\ Goto(p, "zombie")
  /\ Excuse(proc[p] # "running")
  /\ UNCHANGED target

Reaped(p) ==
  /\ proc[p] \in {"zombie", "other"}
  /\ Goto(p, "none")
  /\ UNCHANGED <<target, file, handle, excused>>

OtherProgram(p) ==
  /\ proc[p] = "none"
  /\ Goto(p, "other")
  /\ UNCHANGED <<target, file, handle, excused>>

-----------------------------------------------------------------------------
(* af_exec_is_running *)

(* Fault: what fgets leaves in the string is not looked at. *)
ReadPidUnchecked(p) ==
  /\ proc[p] = "read"
  /\ target' = [target EXCEPT ![p] = file]
  /\ Goto(p, "look up")
  /\ UNCHANGED <<file, handle, excused>>

(* Fault: the old file is removed before the process it names is looked up. *)
ReadPidRemoving(p) ==
  /\ proc[p] = "read"
  /\ target' = [target EXCEPT ![p] = IF file \in Pid THEN file ELSE Nobody]
  /\ file' = Absent /\ handle' = {}
  /\ Goto(p, "look up")
  /\ UNCHANGED excused

(* The number in the file; 0 when there is none. *)
ReadPid(p) ==
  /\ proc[p] = "read"
  /\ target' = [target EXCEPT ![p] = IF file \in Pid THEN file ELSE Nobody]
  /\ Goto(p, "look up")
  /\ UNCHANGED <<file, handle, excused>>

(* The pid file, or the one below /proc, is there and cannot be opened. *)
ReadPidFails(p) ==
  /\ proc[p] = "read"
  /\ target' = [target EXCEPT ![p] = Nobody]
  /\ Goto(p, "look up")
  /\ Excuse(file \in Pid /\ proc[file] \in Alive)
  /\ UNCHANGED <<file, handle>>

(* /proc/<q>/status can be opened, names this program and no zombie. *)
IsRunning(q) == q \in Pid \ LongPid /\ proc[q] \in Alive

(* Fault: the result is taken for that of strcmp. *)
LookUpSwapped(p) ==
  /\ proc[p] = "look up"
  /\ Goto(p, IF IsRunning(target[p]) THEN "remove" ELSE "refused")
  /\ Excuse(FALSE)
  /\ UNCHANGED <<target, file, handle>>

(* "another instance is already running", or on with the start. *)
LookUp(p) ==
  /\ proc[p] = "look up"
  /\ Goto(p, IF IsRunning(target[p]) THEN "refused" ELSE "remove")
  /\ Excuse(target[p] \in LongPid /\ proc[target[p]] \in Alive)
  /\ UNCHANGED <<target, file, handle>>

-----------------------------------------------------------------------------
(* The rest of _af_write_pid. *)

Remove(p) ==
  /\ proc[p] = "remove"
  /\ file' = Absent /\ handle' = {}
  /\ Goto(p, "create")
  /\ UNCHANGED <<target, excused>>

Create(p) ==
  /\ proc[p] = "create"
  /\ file' = Empty /\ handle' = handle \cup {p}
  /\ Goto(p, "write")
  /\ UNCHANGED <<target, excused>>

CreateFails(p) ==
  /\ proc[p] = "create"
  /\ Goto(p, "refused")
  /\ UNCHANGED <<target, file, handle, excused>>

(* Over a number that another instance has written meanwhile, digits of   *)
(* the longer one remain.  The results of fprintf and fclose are ignored:  *)
(* the instance runs, whether or not the file has got its number.          *)
WritePid(p) ==
  /\ proc[p] = "write"
  /\ \/ file' = file
     \/ p \in handle /\ file' \in IF file = Empty THEN {p} ELSE {p, Garbage}
  /\ handle' = handle \ {p}
  /\ Goto(p, "running")
  /\ Excuse(file' # p)
  /\ UNCHANGED target
-----------------------------------------------------------------------------
PidNext ==
  \E p \in Pid :
    \/ Start(p)
    \/ Die(p)
    \/ Fatal(p)
    \/ Reaped(p)
    \/ OtherProgram(p)
    \/ ReadPid(p)
    \/ ReadPidFails(p)
    \/ LookUp(p)
    \/ Remove(p)
    \/ Create(p)
    \/ CreateFails(p)
    \/ WritePid(p)

PidSpec == PidInit /\ [][PidNext]_pidVars
-----------------------------------------------------------------------------
(* The variables have their types. *)
PidTypeOK ==
  /\ proc \in [Pid -> States]
  /\ target \in [Pid -> Pid \cup {Nobody}]
  /\ file \in {Absent, Empty, Garbage} \cup Pid
  /\ handle \subseteq Pid
  /\ excused \in BOOLEAN

(* Through crashes at every step of a start and numbers that are used      *)
(* again, a second instance comes to run only after one of these: two      *)
(* starts at once, a process number too long for proc_loc, af_fatal called *)
(* by an instance that does not run, a number that could not be written or *)
(* a file that could not be read.  There is no other way.                  *)
OneUnlessExcused ==
  ~excused => \A p, q \in Pid : proc[p] = "running" /\ proc[q] = "running" => p = q

(* The file protects an instance: it names it, the number fits proc_loc,   *)
(* and nobody who read the file before is past looking it up.              *)
Guarded(p) ==
  /\ proc[p] = "running" /\ p \notin LongPid /\ file = p
  /\ \A q \in Pid \ {p} : /\ proc[q] \notin {"remove", "create", "write"}
                          /\ proc[q] = "look up" => target[q] = p

(* Whatever has happened before, while an instance is protected no other   *)
(* comes to run, and it stays protected until it ends, some instance calls *)
(* af_fatal or a file cannot be read; starts may overlap as they like.     *)
GuardHolds ==
  [][\A p \in Pid : Guarded(p) =>
       /\ \A q \in Pid : proc'[q] = "running" => proc[q] = "running"
       /\ \/ Guarded(p)'
          \/ Die(p)
          \/ \E q \in Pid : Fatal(q) \/ ReadPidFails(q)]_pidVars
=============================================================================
