------------------------------ MODULE AppfExec ------------------------------
(***************************************************************************)
(* Commands run by appf_exec.c: af_exec_to_buf and af_exec_to_fd start a   *)
(* child, and _af_exec_poll_for_result collects what it writes into a pipe *)
(* until it has hung up, the buffer is full, a signal asks for the end or  *)
(* the time is over.                                                       *)
(*                                                                         *)
(* A step of the library is what it does between two calls that may wait:  *)
(* poll, and for af_exec_to_fd the send to the socket of the caller, which *)
(* may take less than it is given, fail, or not return as long as the peer *)
(* does not read.  Time passes in ticks, the 100 milliseconds poll waits   *)
(* at most.  The bytes the child writes are numbered from 1; none is a     *)
(* zero.                                                                   *)
(***************************************************************************)
EXTENDS Integers, Sequences

CONSTANTS
  Size,         \* size of the buffer given to af_exec_to_buf
  TmpSize,      \* sizeof(tmp): one more than is read at a time
  Timeout,      \* in seconds
  TicksPerSec,
  MaxOutput,    \* bound: bytes a command writes
  MaxCalls      \* bound: commands the application has run

ASSUME ExecAssumption ==
  /\ Size \in Nat \ {0} /\ TmpSize \in Nat \ {0, 1} /\ Timeout \in Nat /\ TicksPerSec \in Nat \ {0}
  /\ MaxOutput \in Nat /\ MaxCalls \in Nat

VARIABLES
  ignored,      \* whether the application ignores SIGCHLD
  pc,           \* "rest", "start" (child forked), "loop" (at poll), "send" (in send)
  toBuf,        \* the call is af_exec_to_buf (TRUE) or af_exec_to_fd (FALSE)
  calls,        \* commands started so far
  child,        \* whether the shell of the command runs
  background,   \* whether a background process holds the pipe open
  written,      \* bytes written to the pipe in this call
  pipe,         \* of those, the ones not read
  tmp,          \* what was read and is being sent
  output,       \* what the caller has: buf, or what send took for its socket
  lost,         \* whether send has not taken all, in this call
  sigchld,      \* whether SIGCHLD is on its way
  hooked,       \* whether _af_exec_sigchild_handler is installed
  exec_got_sigchild,
  sigint,
  interrupted,  \* whether a signal has interrupted the wait
  asked,        \* whether one that is not SIGCHLD has
  hidden,       \* how often such a signal was taken for SIGCHLD, over all calls
  clock,        \* [start, el, send]: the tick of its second the call began in, ticks
                \* since, and those of them before the last send
  waited,       \* ticks waited in poll
  ended,        \* how the last loop ended: "none", "hangup", "full", ...
  fault         \* the handler has called a function at SIG_IGN

execVars == <<ignored, pc, toBuf, calls, child, background, written, pipe, tmp, output,
              lost, sigchld, hooked, exec_got_sigchild, sigint, interrupted, asked, hidden,
              clock, waited, ended, fault>>
callVars == <<ignored, toBuf, calls>>
childVars == <<child, background, written, sigchld>>
loopVars == <<exec_got_sigchild, sigint, interrupted, asked, hidden>>
outVars == <<tmp, output, lost>>

BufSize == Size - 1     \* buf_sz
HungUp == ~child /\ ~background

Init ==
  /\ ignored \in BOOLEAN
  /\ pc = "rest" /\ toBuf = FALSE /\ calls = 0 /\ child = FALSE /\ background = FALSE
  /\ written = 0 /\ pipe = <<>> /\ tmp = <<>> /\ output = <<>> /\ lost = FALSE
  /\ sigchld = FALSE /\ hooked = FALSE
  /\ exec_got_sigchild = FALSE /\ sigint = FALSE
  /\ interrupted = FALSE /\ asked = FALSE /\ hidden = 0
  /\ clock = [start |-> 0, el |-> 0, send |-> 0] /\ waited = 0
  /\ ended = "none" /\ fault = FALSE

-----------------------------------------------------------------------------
(* The processes of the command. *)

Write ==
  /\ ~HungUp /\ pc # "rest" /\ written < MaxOutput
  /\ written' = written + 1 /\ pipe' = Append(pipe, written')
  /\ UNCHANGED <<callVars, pc, child, background, outVars, sigchld, hooked, loopVars,
                 clock, waited, ended, fault>>

(* The shell ends, and may leave a process behind in the background. *)
Exit ==
  /\ child /\ child' = FALSE
  /\ background' \in BOOLEAN
  /\ sigchld' = TRUE
  /\ UNCHANGED <<callVars, pc, written, pipe, outVars, hooked, loopVars, clock, waited,
                 ended, fault>>

BackgroundExit ==
  /\ background /\ background' = FALSE
  /\ UNCHANGED <<callVars, pc, child, written, pipe, outVars, sigchld, hooked, loopVars,
                 clock, waited, ended, fault>>

-----------------------------------------------------------------------------
(* The application. *)

(* A call; the command before it has ended, though SIGCHLD for it may not  *)
(* have arrived yet.  When pipe or fork fails the call returns at once,    *)
(* and what the caller has is what it had before.                          *)
_af_exec_open_pipe_run ==
  /\ pc = "rest" /\ ~fault /\ calls < MaxCalls
  /\ HungUp
  /\ \/ /\ pc' = "start" /\ toBuf' \in BOOLEAN /\ calls' = calls + 1
        /\ child' = TRUE
        /\ written' = 0 /\ pipe' = <<>>
        /\ ended' = "none"
     \/ ended' = "failed" /\ UNCHANGED <<pc, toBuf, calls, child, written, pipe>>
  /\ UNCHANGED <<ignored, background, outVars, sigchld, hooked, loopVars, clock, waited,
                 fault>>

(* The beginning of _af_exec_poll_for_result, which hooks SIGCHLD. *)
LoopBegin ==
  /\ pc = "start" /\ ~fault
  /\ pc' = "loop" /\ hooked' = TRUE /\ output' = <<>> /\ lost' = FALSE
  /\ sigint' = FALSE /\ interrupted' = FALSE /\ asked' = FALSE /\ waited' = 0
  /\ \E t \in 0..(TicksPerSec - 1) : clock' = [start |-> t, el |-> 0, send |-> 0]
  /\ UNCHANGED <<callVars, childVars, pipe, tmp, exec_got_sigchild, hidden, ended, fault>>

-----------------------------------------------------------------------------
(* Time and the end of the loop. *)

Least(a, b) == IF a < b THEN a ELSE b

(* Where the clock stops being counted: past every timeout. *)
MaxClock == (Timeout + 2) * TicksPerSec

InLoop == pc = "loop" /\ ~fault
InSend == pc = "send" /\ ~fault
Readable == pipe # <<>>
Ready == Readable \/ HungUp

OneTick == [clock EXCEPT !.el = Least(@ + 1, MaxClock)]

Tick ==
  /\ InLoop /\ waited = 0
  /\ clock' = OneTick /\ waited' = 1
  /\ UNCHANGED <<callVars, pc, childVars, pipe, outVars, hooked, loopVars, ended, fault>>

(* Result 0: the pipe is closed. *)
Leave(why) ==
  /\ pc' = "rest" /\ hooked' = FALSE /\ ended' = why /\ pipe' = <<>>
  /\ UNCHANGED <<childVars, clock, waited>>

(* Result -1: the pipe is closed and the child killed. *)
Kill(why) ==
  /\ pc' = "rest" /\ hooked' = FALSE /\ ended' = why /\ pipe' = <<>>
  /\ child' = FALSE /\ sigchld' = (sigchld \/ child)
  /\ UNCHANGED <<background, written, clock, waited>>

TimeTest(rest) ==
  LET late == (clock.start + clock.el) \div TicksPerSec > Timeout
  IN  \/ late /\ Kill("timeout")
      \/ /\ ~late /\ pc' = "loop" /\ pipe' = rest /\ waited' = 0
         /\ UNCHANGED <<hooked, ended, childVars, clock>>

-----------------------------------------------------------------------------
(* What poll returns. *)

(* strncat: as much of the bytes as fits. *)
Joined(bytes) ==
  LET all == output \o bytes IN SubSeq(all, 1, Least(Len(all), BufSize))

PollData ==
  LET n == Least(TmpSize - 1, Len(pipe))
      bytes == SubSeq(pipe, 1, n)
      rest == SubSeq(pipe, n + 1, Len(pipe))
  IN  /\ InLoop /\ ~interrupted /\ Readable
      /\ \/ /\ toBuf /\ output' = Joined(bytes)
            /\ \/ Len(output') >= BufSize /\ Leave("full")
               \/ Len(output') < BufSize /\ TimeTest(rest)
            /\ UNCHANGED <<tmp, lost>>
         \/ /\ ~toBuf /\ pc' = "send" /\ tmp' = bytes /\ pipe' = rest
            /\ clock' = [clock EXCEPT !.send = clock.el]
            /\ UNCHANGED <<childVars, output, lost, hooked, waited, ended>>
      /\ UNCHANGED <<callVars, loopVars, fault>>

(* send returns, having taken some of the bytes; what it has not taken, or *)
(* all when it fails, is forgotten, as its result is.                      *)
Send ==
  /\ InSend
  /\ \E k \in 0..Len(tmp) :
       output' = output \o SubSeq(tmp, 1, k) /\ lost' = (lost \/ k < Len(tmp))
  /\ tmp' = <<>>
  /\ TimeTest(pipe)
  /\ UNCHANGED <<callVars, loopVars, fault>>

(* The peer does not read, and send waits for it. *)
SendWaits ==
  /\ InSend
  /\ clock' = OneTick
  /\ UNCHANGED <<callVars, pc, childVars, pipe, outVars, hooked, loopVars, waited, ended, fault>>

(* Fault: the hang-up is looked at before the data. *)
PollHupFirst ==
  /\ InLoop /\ ~interrupted /\ HungUp
  /\ Leave("hangup")
  /\ UNCHANGED <<callVars, outVars, loopVars, fault>>

PollHup ==
  /\ InLoop /\ ~interrupted /\ ~Readable /\ HungUp
  /\ Leave("hangup")
  /\ UNCHANGED <<callVars, outVars, loopVars, fault>>

(* Fault: the time is looked at only when something has happened. *)
PollNothingUntimed ==
  /\ InLoop /\ ~interrupted /\ ~Ready /\ waited = 1
  /\ \/ sigint /\ Leave("interrupt")
     \/ ~sigint /\ waited' = 0 /\ UNCHANGED <<pc, pipe, hooked, ended, childVars, clock>>
  /\ UNCHANGED <<callVars, outVars, loopVars, fault>>

PollNothing ==
  /\ InLoop /\ ~interrupted /\ ~Ready /\ waited = 1
  /\ \/ sigint /\ Leave("interrupt")
     \/ ~sigint /\ TimeTest(pipe)
  /\ UNCHANGED <<callVars, outVars, loopVars, fault>>

PollFails ==
  /\ InLoop /\ ~interrupted /\ ~Ready
  /\ Kill("error")
  /\ UNCHANGED <<callVars, outVars, loopVars, fault>>

(* Fault: the flag of SIGCHLD is never taken back. *)
PollInterruptedKept ==
  /\ InLoop /\ interrupted
  /\ sigint' = (sigint \/ ~exec_got_sigchild)
  /\ hidden' = IF asked /\ ~sigint' THEN hidden + 1 ELSE hidden
  /\ interrupted' = FALSE /\ asked' = FALSE
  /\ TimeTest(pipe)
  /\ UNCHANGED <<callVars, outVars, exec_got_sigchild, fault>>

(* poll returns EINTR.  Another signal than SIGCHLD has the loop end when *)
(* nothing more is ready, unless the flag says that SIGCHLD has come.     *)
PollInterrupted ==
  /\ InLoop /\ interrupted
  /\ sigint' = (sigint \/ ~exec_got_sigchild)
  /\ hidden' = IF asked /\ ~sigint' THEN hidden + 1 ELSE hidden
  /\ interrupted' = FALSE /\ asked' = FALSE /\ exec_got_sigchild' = FALSE
  /\ TimeTest(pipe)
  /\ UNCHANGED <<callVars, outVars, fault>>

-----------------------------------------------------------------------------
(* Signals.  One that comes while nothing is ready interrupts the wait;    *)
(* otherwise poll returns what is ready, and only the handler has run.     *)

Waiting == InLoop /\ ~Ready

(* _af_exec_sigchild_handler calls the handler it has replaced unless that *)
(* is NULL, which SIG_IGN is not.                                          *)
SigChld ==
  /\ sigchld /\ ~fault
  /\ sigchld' = FALSE
  /\ fault' = (hooked /\ ignored)
  /\ exec_got_sigchild' = (hooked \/ exec_got_sigchild)
  /\ interrupted' = (interrupted \/ Waiting)
  /\ UNCHANGED <<callVars, pc, child, background, written, pipe, outVars, hooked, sigint, asked,
                 hidden, clock, waited, ended>>

(* A signal the application handles, such as SIGTERM. *)
OtherSignal ==
  /\ Waiting
  /\ interrupted' = TRUE /\ asked' = TRUE
  /\ UNCHANGED <<callVars, pc, childVars, pipe, outVars, hooked, exec_got_sigchild, sigint,
                 hidden, clock, waited, ended, fault>>
-----------------------------------------------------------------------------
LoopStep ==
  \/ LoopBegin
  \/ PollData
  \/ PollHup
  \/ PollNothing
  \/ PollInterrupted

(* A call at its end, or stopped for good. *)
Over == pc = "rest" \/ fault

Next ==
  \/ Write
  \/ Exit
  \/ BackgroundExit
  \/ _af_exec_open_pipe_run
  \/ LoopStep
  \/ Send
  \/ SendWaits
  \/ Tick
  \/ PollFails
  \/ SigChld
  \/ OtherSignal

Spec == Init /\ [][Next]_execVars
(* poll returns and time passes; that send returns depends on the peer. *)
FairSpec == Spec /\ WF_execVars(Tick) /\ WF_execVars(LoopStep)
-----------------------------------------------------------------------------
(* The variables have their types, and the buffer of the caller holds what *)
(* it is said to hold.                                                     *)
TypeOK ==
  /\ pc \in {"rest", "start", "loop", "send"} /\ calls \in 0..MaxCalls
  /\ written \in 0..MaxOutput
  /\ {pipe, tmp, output} \subseteq Seq(1..MaxOutput)
  /\ toBuf /\ pc # "start" => Len(output) <= BufSize
  /\ {ignored, toBuf, child, background, lost, sigchld, hooked, exec_got_sigchild, sigint,
      interrupted, asked, fault} \subseteq BOOLEAN
  /\ hidden \in Nat
  /\ clock \in [start : 0..(TicksPerSec - 1), el : Nat, send : Nat] /\ waited \in 0..1
  /\ ended \in {"none", "hangup", "full", "interrupt", "timeout", "error", "failed"}

(* What the caller gets is output of the command in the order it was       *)
(* written, nothing twice.  Unless send has not taken what it was given,   *)
(* as it always has when there is a buffer, it is the output from its      *)
(* first byte on without a gap, and all of it if the loop ended because    *)
(* the command hung up: the last data is read before the hang-up is        *)
(* believed.                                                               *)
OutputExact ==
  /\ TypeOK
  /\ \A i, j \in 1..Len(output) : i < j => output[i] < output[j]
  /\ toBuf /\ pc # "start" => ~lost
  /\ ~lost => /\ \A i \in 1..Len(output) : output[i] = i
              /\ ended = "hangup" => Len(output) = written

(* Whatever the command, the signals and the data do, the seconds counted  *)
(* since the loop began, the one it began in included, are at most one     *)
(* more than its timeout whenever it is at poll, and were when it entered  *)
(* the send it is in: a call overruns its timeout by one send, and not at  *)
(* all when there is a buffer.                                             *)
ExecOnTime ==
  LET OnTime(ticks) == clock.start + ticks <= (Timeout + 1) * TicksPerSec
  IN  /\ pc = "loop" => OnTime(clock.el)
      /\ pc = "send" => ~toBuf /\ OnTime(clock.send)

(* A call returns, unless a send to the caller's socket never does.        *)
ExecEnds == pc = "loop" ~> (Over \/ [](pc = "send"))

(* A signal that interrupts the wait and is taken for SIGCHLD, so that the *)
(* loop goes on as if it had not come, has used up the SIGCHLD of one      *)
(* command, perhaps of an earlier call: over all calls no more signals are *)
(* forgotten than commands have been started.                              *)
SignalsHonoured == hidden <= calls
=============================================================================
