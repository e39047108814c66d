---------------------------- MODULE ProcessProofs ----------------------------
(***************************************************************************)
(* Proofs about the processes of a daemon.                                 *)
(*                                                                         *)
(* AppfExec, for every size of the buffers, every timeout and every number *)
(* of bytes and calls, and whatever send does: what the caller has of the  *)
(* output, the time at which a call waits, and how many signals are        *)
(* forgotten.                                                              *)
(*                                                                         *)
(* PidFile, for every set of process numbers and every interleaving of     *)
(* starts: its variables have their types, a second instance needs one of  *)
(* a list of excuses, and an instance that is guarded stays so.            *)
(***************************************************************************)
EXTENDS AppfExec, PidFile, SequenceTheorems, TLAPS

-----------------------------------------------------------------------------
(* Commands run by appf_exec.c *)

Bytes == 1..MaxOutput

(* How many bytes have been read from the pipe and are no longer in tmp.   *)
Done == written - Len(pipe) - Len(tmp)

(* While a call runs, tmp and the pipe go on where that ends, and the      *)
(* caller has nothing of what comes later.                                 *)
StreamInv ==
  /\ pc # "send" => tmp = <<>>
  /\ pc # "rest" => /\ ended = "none" /\ Done >= 0
                    /\ \A i \in 1..Len(pipe) : pipe[i] = Done + Len(tmp) + i
                    /\ \A i \in 1..Len(tmp) : tmp[i] = Done + i
  /\ pc = "start" => Done = 0
  /\ pc \in {"loop", "send"} => /\ \A i \in 1..Len(output) : output[i] <= Done
                                /\ ~lost => Len(output) = Done

(* A loop that has looked at the time has more than a tick left.           *)
Deadline == (Timeout + 1) * TicksPerSec

ClockInv ==
  /\ clock \in [start : 0..(TicksPerSec - 1), el : Nat, send : Nat]
  /\ pc = "loop" => clock.start + clock.el + 1 <= Deadline + waited
  /\ pc = "send" => ~toBuf /\ clock.start + clock.send <= Deadline

(* Each command started is the reason for one signal at most that has been *)
(* or may yet be forgotten: it runs, its SIGCHLD is on its way or noted,   *)
(* or has been used up.                                                    *)
Bit(b) == IF b THEN 1 ELSE 0

SignalInv == hidden + Bit(exec_got_sigchild) + Bit(sigchld) + Bit(child) <= calls

-----------------------------------------------------------------------------
(* Operators of the model. *)

(* The deadline is at least a second away.                                 *)
LEMMA DeadlinePositive == Deadline \in Nat /\ TicksPerSec <= Deadline
<1>1. Timeout \in Nat /\ TicksPerSec \in Nat
  BY ExecAssumption
<1>2. Timeout * TicksPerSec \in Nat
  BY <1>1
<1>3. Deadline = Timeout * TicksPerSec + TicksPerSec
  BY <1>1 DEF Deadline
<1>4. QED
  BY <1>1, <1>2, <1>3

(* A test of the time that is not late leaves a tick before the deadline.  *)
LEMMA InTime ==
  ASSUME NEW t \in Nat, ~(t \div TicksPerSec > Timeout)
  PROVE  t + 1 <= Deadline
<1> DEFINE q == t \div TicksPerSec
           r == t % TicksPerSec
<1>1. /\ Timeout \in Nat
      /\ TicksPerSec \in Nat /\ TicksPerSec > 0
  BY ExecAssumption
<1>2. q \in Nat /\ r \in 0..(TicksPerSec - 1) /\ t = TicksPerSec * q + r
  BY <1>1
<1>3. q <= Timeout
  BY <1>1, <1>2
<1> HIDE DEF q, r
<1>4. PICK d \in Nat : Timeout = q + d
  <2>1. Timeout - q \in Nat /\ Timeout = q + (Timeout - q)
    BY <1>1, <1>2, <1>3
  <2>2. QED
    BY <2>1
<1>5. Timeout * TicksPerSec = TicksPerSec * q + TicksPerSec * d
  BY <1>1, <1>2, <1>4
<1>6. TicksPerSec * d \in Nat /\ TicksPerSec * q \in Nat
  BY <1>1, <1>2, <1>4
<1>7. Deadline = Timeout * TicksPerSec + TicksPerSec
  BY <1>1 DEF Deadline
<1>8. QED
  BY <1>1, <1>2, <1>5, <1>6, <1>7

(* strncat appends what fits, and everything when it fits.                 *)
LEMMA JoinedProperties ==
  ASSUME NEW bytes \in Seq(Bytes), output \in Seq(Bytes)
  PROVE  /\ Joined(bytes) \in Seq(Bytes)
         /\ Len(Joined(bytes)) = Least(Len(output) + Len(bytes), BufSize)
         /\ \A i \in 1..Len(Joined(bytes)) :
              /\ i <= Len(output) => Joined(bytes)[i] = output[i]
              /\ i > Len(output) => /\ i - Len(output) \in 1..Len(bytes)
                                    /\ Joined(bytes)[i] = bytes[i - Len(output)]
<1> DEFINE all == output \o bytes
           n == Len(output) + Len(bytes)
           m == Least(n, BufSize)
<1>1. /\ all \in Seq(Bytes) /\ Len(all) = n
      /\ \A i \in 1..n : all[i] = IF i <= Len(output) THEN output[i]
                                  ELSE bytes[i - Len(output)]
  BY ConcatProperties
<1>2. Len(output) \in Nat /\ Len(bytes) \in Nat /\ n \in Nat
  OBVIOUS
<1>3. BufSize \in Nat
  BY ExecAssumption DEF BufSize
<1>4. m \in 0..n
  BY <1>2, <1>3 DEF Least
<1>5. Joined(bytes) = SubSeq(all, 1, m)
  BY <1>1 DEF Joined
<1> HIDE DEF all, m
<1>6. /\ SubSeq(all, 1, m) \in Seq(Bytes) /\ Len(SubSeq(all, 1, m)) = m
      /\ \A i \in 1..m : SubSeq(all, 1, m)[i] = all[i]
  BY <1>1, <1>2, <1>4
<1>7. QED
  BY <1>1, <1>2, <1>4, <1>5, <1>6 DEF m

(* What send takes of the bytes it is given follows what it took before.   *)
LEMMA SentProperties ==
  ASSUME tmp \in Seq(Bytes), output \in Seq(Bytes), NEW k \in 0..Len(tmp),
         NEW sent, sent = output \o SubSeq(tmp, 1, k)
  PROVE  /\ sent \in Seq(Bytes) /\ Len(sent) = Len(output) + k
         /\ \A i \in 1..Len(sent) :
              /\ i <= Len(output) => sent[i] = output[i]
              /\ i > Len(output) => i - Len(output) \in 1..k /\ sent[i] = tmp[i - Len(output)]
<1> DEFINE head == SubSeq(tmp, 1, k)
<1>1. /\ head \in Seq(Bytes) /\ Len(head) = k
      /\ \A i \in 1..k : head[i] = tmp[i]
  OBVIOUS
<1>2. Len(output) \in Nat /\ k \in Nat
  OBVIOUS
<1>3. sent = output \o head
  OBVIOUS
<1> HIDE DEF head
<1>4. /\ sent \in Seq(Bytes) /\ Len(sent) = Len(output) + k
      /\ \A i \in 1..Len(sent) : sent[i] = IF i <= Len(output) THEN output[i]
                                            ELSE head[i - Len(output)]
  BY <1>1, <1>3, ConcatProperties
<1>5. QED
  BY <1>1, <1>2, <1>4

-----------------------------------------------------------------------------
(* The time.  Only a step that ends a wait lets the next one begin.        *)

(* A tick moves the time on by one at most, and nothing else.              *)
LEMMA OneTickProperties ==
  ASSUME clock \in [start : 0..(TicksPerSec - 1), el : Nat, send : Nat]
  PROVE  /\ OneTick \in [start : 0..(TicksPerSec - 1), el : Nat, send : Nat]
         /\ OneTick.start = clock.start /\ OneTick.send = clock.send
         /\ OneTick.el <= clock.el + 1
<1>1. Timeout + 2 \in Nat /\ TicksPerSec \in Nat
  BY ExecAssumption
<1>2. MaxClock \in Nat
  BY <1>1 DEF MaxClock
<1>3. /\ Least(clock.el + 1, MaxClock) \in Nat
      /\ Least(clock.el + 1, MaxClock) <= clock.el + 1
  BY <1>2 DEF Least
<1>4. QED
  BY <1>3 DEF OneTick

(* A test of the time that lets the loop go on leaves more than a tick to  *)
(* the deadline.                                                           *)
LEMMA TimeTestClock ==
  ASSUME TypeOK, ClockInv, NEW rest, TimeTest(rest)
  PROVE  ClockInv'
<1>1. CASE Kill("timeout")
  BY <1>1 DEF Kill, ClockInv
<1>2. CASE /\ ~((clock.start + clock.el) \div TicksPerSec > Timeout) /\ pc' = "loop"
           /\ waited' = 0 /\ clock' = clock
  <2>1. clock.start + clock.el \in Nat
    BY DEF ClockInv
  <2>2. clock.start + clock.el + 1 <= Deadline
    BY <1>2, <2>1, InTime
  <2>3. QED
    BY <1>2, <2>2, DeadlinePositive DEF ClockInv
<1>3. QED
  BY <1>1, <1>2 DEF TimeTest

(* Every step keeps the loop within its deadline.                          *)
LEMMA ClockStep ==
  ASSUME TypeOK, ClockInv, [Next]_execVars
  PROVE  ClockInv'
<1> USE DEF ClockInv
<1>1. CASE UNCHANGED execVars
  BY <1>1 DEF execVars
<1>2. CASE Write
  BY <1>2 DEF Write, callVars
<1>3. CASE Exit
  BY <1>3 DEF Exit, callVars
<1>4. CASE BackgroundExit
  BY <1>4 DEF BackgroundExit, callVars
<1>5. CASE _af_exec_open_pipe_run
  BY <1>5 DEF _af_exec_open_pipe_run
<1>6. CASE LoopBegin
  <2>1. PICK t \in 0..(TicksPerSec - 1) : clock' = [start |-> t, el |-> 0, send |-> 0]
    BY <1>6 DEF LoopBegin
  <2>2. waited' = 0 /\ pc' = "loop"
    BY <1>6 DEF LoopBegin
  <2>3. QED
    BY <2>1, <2>2, DeadlinePositive, ExecAssumption
<1>7. CASE PollData
  <2>1. CASE Leave("full")
    BY <2>1 DEF Leave
  <2>2. CASE \E rest : TimeTest(rest)
    BY <2>2, TimeTestClock
  <2>3. CASE ~toBuf /\ pc' = "send" /\ clock' = [clock EXCEPT !.send = clock.el]
    <3>1. pc = "loop" /\ toBuf' = toBuf
      BY <1>7 DEF PollData, InLoop, callVars
    <3>2. clock.start + clock.el + 1 <= Deadline + waited /\ waited \in 0..1
      BY <3>1 DEF TypeOK
    <3>3. clock.start + clock.el <= Deadline
      BY <3>2, DeadlinePositive
    <3>4. clock'.start = clock.start /\ clock'.send = clock.el
      BY <2>3
    <3>5. QED
      BY <2>3, <3>1, <3>3, <3>4
  <2>4. QED
    BY <1>7, <2>1, <2>2, <2>3 DEF PollData
<1>8. CASE PollHup
  BY <1>8 DEF PollHup, Leave
<1>9. CASE PollNothing
  <2>1. CASE Leave("interrupt")
    BY <2>1 DEF Leave
  <2>2. QED
    BY <1>9, <2>1, TimeTestClock DEF PollNothing
<1>10. CASE PollInterrupted
  BY <1>10, TimeTestClock DEF PollInterrupted
<1>11. CASE Tick
  <2>1. waited = 0 /\ waited' = 1 /\ UNCHANGED <<pc, toBuf>>
    BY <1>11 DEF Tick, callVars
  <2>2. clock' = OneTick
    BY <1>11 DEF Tick
  <2>3. /\ clock' \in [start : 0..(TicksPerSec - 1), el : Nat, send : Nat]
        /\ clock'.start = clock.start /\ clock'.send = clock.send /\ clock'.el <= clock.el + 1
    BY <2>2, OneTickProperties
  <2>4. pc # "send"
    BY <1>11 DEF Tick, InLoop
  <2>5. QED
    BY <2>1, <2>3, <2>4, DeadlinePositive, ExecAssumption
<1>12. CASE PollFails
  BY <1>12 DEF PollFails, Kill
<1>13. CASE SigChld
  BY <1>13 DEF SigChld, callVars
<1>14. CASE OtherSignal
  BY <1>14 DEF OtherSignal, callVars
<1>15. CASE Send
  BY <1>15, TimeTestClock DEF Send
<1>16. CASE SendWaits
  <2>1. UNCHANGED <<pc, toBuf>> /\ pc = "send" /\ clock' = OneTick
    BY <1>16 DEF SendWaits, callVars, InSend
  <2>2. /\ clock' \in [start : 0..(TicksPerSec - 1), el : Nat, send : Nat]
        /\ clock'.start = clock.start /\ clock'.send = clock.send
    BY <2>1, OneTickProperties
  <2>3. QED
    BY <2>1, <2>2
<1>17. QED
  BY <1>1, <1>2, <1>3, <1>4, <1>5, <1>6, <1>7, <1>8, <1>9, <1>10, <1>11, <1>12, <1>13,
     <1>14, <1>15, <1>16 DEF Next, LoopStep

-----------------------------------------------------------------------------
(* The signals. *)

(* Leaving the loop or testing the time adds no signal: SIGCHLD comes for  *)
(* a child that was running.                                               *)
LEMMA SignalQuiet ==
  ASSUME TypeOK, \/ \E why : Leave(why) \/ Kill(why)
                 \/ \E rest : TimeTest(rest)
  PROVE  Bit(sigchld') + Bit(child') <= Bit(sigchld) + Bit(child)
BY DEF TypeOK, Leave, Kill, TimeTest, childVars, Bit

(* An interrupted wait forgets a signal only at the cost of the flag.      *)
LEMMA InterruptedStep ==
  ASSUME TypeOK, SignalInv, PollInterrupted
  PROVE  SignalInv'
<1>1. calls \in Nat /\ hidden \in Nat /\ calls' = calls
  BY ExecAssumption DEF TypeOK, PollInterrupted, callVars
<1>2. \A b : Bit(b) \in 0..1
  BY DEF Bit
<1>3. hidden' + Bit(exec_got_sigchild') <= hidden + Bit(exec_got_sigchild) /\ hidden' \in Nat
  BY <1>1 DEF PollInterrupted, TypeOK, Bit
<1>4. Bit(sigchld') + Bit(child') <= Bit(sigchld) + Bit(child)
  BY SignalQuiet DEF PollInterrupted
<1>5. hidden + Bit(exec_got_sigchild) + Bit(sigchld) + Bit(child) <= calls
  BY DEF SignalInv
<1>6. hidden' + Bit(exec_got_sigchild') + Bit(sigchld') + Bit(child') <= calls
  <2>1. /\ Bit(exec_got_sigchild) \in 0..1 /\ Bit(sigchld) \in 0..1 /\ Bit(child) \in 0..1
        /\ Bit(exec_got_sigchild') \in 0..1 /\ Bit(sigchld') \in 0..1 /\ Bit(child') \in 0..1
    BY <1>2
  <2>2. QED
    BY <1>1, <1>3, <1>4, <1>5, <2>1
<1>7. QED
  BY <1>1, <1>6 DEF SignalInv

(* Every step keeps the account of the signals.                            *)
LEMMA SignalStep ==
  ASSUME TypeOK, SignalInv, [Next]_execVars
  PROVE  SignalInv'
<1> USE DEF SignalInv, Bit
<1>1. /\ calls \in Nat /\ hidden \in Nat
      /\ {child, sigchld, exec_got_sigchild, hooked, asked, sigint} \subseteq BOOLEAN
  BY ExecAssumption DEF TypeOK
<1>2. CASE UNCHANGED execVars
  BY <1>2 DEF execVars
<1>3. CASE Write
  BY <1>3 DEF Write, callVars, loopVars
<1>4. CASE Exit
  BY <1>1, <1>4 DEF Exit, callVars, loopVars
<1>5. CASE BackgroundExit
  BY <1>5 DEF BackgroundExit, callVars, loopVars
<1>6. CASE _af_exec_open_pipe_run
  BY <1>1, <1>6 DEF _af_exec_open_pipe_run, loopVars, HungUp
<1>7. CASE LoopBegin
  BY <1>7 DEF LoopBegin, callVars, childVars
<1>8. CASE PollData
  <2>1. UNCHANGED <<calls, hidden, exec_got_sigchild>>
    BY <1>8 DEF PollData, callVars, loopVars
  <2>2. Bit(sigchld') + Bit(child') <= Bit(sigchld) + Bit(child)
    BY <1>8, SignalQuiet DEF PollData, childVars
  <2>3. QED
    BY <1>1, <2>1, <2>2
<1>9. CASE PollHup
  BY <1>9 DEF PollHup, Leave, callVars, childVars, loopVars
<1>10. CASE PollNothing
  <2>1. UNCHANGED <<calls, hidden, exec_got_sigchild>>
    BY <1>10 DEF PollNothing, callVars, loopVars
  <2>2. Bit(sigchld') + Bit(child') <= Bit(sigchld) + Bit(child)
    BY <1>10, SignalQuiet DEF PollNothing
  <2>3. QED
    BY <1>1, <2>1, <2>2
<1>11. CASE PollInterrupted
  BY <1>11, InterruptedStep
<1>12. CASE Tick
  BY <1>12 DEF Tick, callVars, loopVars, childVars
<1>13. CASE PollFails
  BY <1>1, <1>13 DEF PollFails, Kill, callVars, loopVars
<1>14. CASE SigChld
  BY <1>1, <1>14 DEF SigChld, callVars
<1>15. CASE OtherSignal
  BY <1>15 DEF OtherSignal, callVars, childVars
<1>16. CASE Send
  <2>1. UNCHANGED <<calls, hidden, exec_got_sigchild>>
    BY <1>16 DEF Send, callVars, loopVars
  <2>2. Bit(sigchld') + Bit(child') <= Bit(sigchld) + Bit(child)
    BY <1>16, SignalQuiet DEF Send
  <2>3. QED
    BY <1>1, <2>1, <2>2
<1>17. CASE SendWaits
  BY <1>17 DEF SendWaits, callVars, childVars, loopVars
<1>18. QED
  BY <1>2, <1>3, <1>4, <1>5, <1>6, <1>7, <1>8, <1>9, <1>10, <1>11, <1>12, <1>13, <1>14,
     <1>15, <1>16, <1>17 DEF Next, LoopStep

-----------------------------------------------------------------------------
(* The bytes. *)

ByteInv == OutputExact /\ StreamInv

(* The types of everything but the bytes.                                  *)
FlagTypes ==
  /\ {ignored, toBuf, child, background, lost, sigchld, hooked, exec_got_sigchild, sigint,
      interrupted, asked, fault} \subseteq BOOLEAN
  /\ calls \in 0..MaxCalls /\ hidden \in Nat /\ waited \in 0..1
  /\ clock \in [start : 0..(TicksPerSec - 1), el : Nat, send : Nat]

(* A test of the time, late or not, leaves the types.                      *)
LEMMA TimeTestType ==
  ASSUME TypeOK, NEW rest, TimeTest(rest)
  PROVE  /\ {child', background', sigchld', hooked'} \subseteq BOOLEAN
         /\ waited' \in 0..1
<1>1. CASE Kill("timeout")
  BY <1>1 DEF Kill, TypeOK
<1>2. CASE UNCHANGED <<hooked, ended, childVars, clock>> /\ waited' = 0
  BY <1>2 DEF childVars, TypeOK
<1>3. QED
  BY <1>1, <1>2 DEF TimeTest

(* Every step keeps them.                                                  *)
LEMMA FlagStep ==
  ASSUME TypeOK, ClockInv', [Next]_execVars
  PROVE  FlagTypes'
<1> DEFINE Kept == {ignored', toBuf', lost', exec_got_sigchild', sigint', interrupted', asked',
                    fault'} \subseteq BOOLEAN
           Child == {child', background', sigchld', hooked'} \subseteq BOOLEAN /\ waited' \in 0..1
<1>1. clock' \in [start : 0..(TicksPerSec - 1), el : Nat, send : Nat]
  BY DEF ClockInv
<1>2. calls \in Nat /\ MaxCalls \in Nat /\ calls \in 0..MaxCalls /\ hidden \in Nat
  BY ExecAssumption DEF TypeOK
<1>3. Kept
  <2>1. CASE UNCHANGED execVars \/ Tick \/ Write \/ Exit \/ BackgroundExit \/ SendWaits
    BY <2>1 DEF execVars, Tick, Write, Exit, BackgroundExit, SendWaits, callVars, loopVars,
       outVars, TypeOK
  <2>2. CASE _af_exec_open_pipe_run \/ LoopBegin \/ PollHup \/ PollNothing \/ PollFails
    BY <2>2 DEF _af_exec_open_pipe_run, LoopBegin, PollHup, PollNothing, PollFails, callVars,
       loopVars, outVars, TypeOK
  <2>3. CASE PollData
    BY <2>3 DEF PollData, callVars, loopVars, TypeOK
  <2>4. CASE PollInterrupted
    BY <2>4 DEF PollInterrupted, callVars, outVars, TypeOK
  <2>5. CASE Send
    BY <2>5 DEF Send, callVars, loopVars, TypeOK
  <2>6. CASE SigChld \/ OtherSignal
    BY <2>6 DEF SigChld, OtherSignal, Waiting, InLoop, Ready, Readable, HungUp, callVars,
       outVars, TypeOK
  <2>7. QED
    BY <2>1, <2>2, <2>3, <2>4, <2>5, <2>6 DEF Next, LoopStep
<1>4. Child
  <2>1. CASE UNCHANGED execVars \/ Tick \/ SendWaits
    BY <2>1 DEF execVars, Tick, SendWaits, childVars, TypeOK
  <2>2. CASE Write \/ Exit \/ BackgroundExit
    BY <2>2 DEF Write, Exit, BackgroundExit, TypeOK
  <2>9. CASE _af_exec_open_pipe_run
    BY <2>9 DEF _af_exec_open_pipe_run, TypeOK
  <2>10. CASE LoopBegin
    BY <2>10 DEF LoopBegin, childVars, TypeOK
  <2>11. CASE PollFails
    BY <2>11 DEF PollFails, Kill, TypeOK
  <2>3. CASE \E rest : TimeTest(rest)
    BY <2>3, TimeTestType
  <2>4. CASE \E why : Leave(why)
    BY <2>4 DEF Leave, childVars, TypeOK
  <2>5. CASE UNCHANGED <<childVars, hooked, waited>>
    BY <2>5 DEF childVars, TypeOK
  <2>6. CASE SigChld \/ OtherSignal
    BY <2>6 DEF SigChld, OtherSignal, childVars, TypeOK
  <2>7. CASE PollData
    BY <2>3, <2>4, <2>5, <2>7 DEF PollData
  <2>8. QED
    BY <2>1, <2>2, <2>3, <2>4, <2>6, <2>7, <2>9, <2>10, <2>11
    DEF Next, LoopStep, PollHup, PollNothing, PollInterrupted, Send
<1>5. calls' \in 0..MaxCalls
  <2>1. calls' = calls \/ (calls < MaxCalls /\ calls' = calls + 1)
    BY DEF Next, LoopStep, execVars, Tick, Write, Exit, BackgroundExit, SendWaits,
       _af_exec_open_pipe_run, LoopBegin, PollHup, PollNothing, PollFails, PollData,
       PollInterrupted, Send, SigChld, OtherSignal, callVars
  <2>2. QED
    BY <1>2, <2>1
<1>6. hidden' \in Nat
  <2>1. hidden' = hidden \/ hidden' = hidden + 1
    BY DEF Next, LoopStep, execVars, Tick, Write, Exit, BackgroundExit, SendWaits,
       _af_exec_open_pipe_run, LoopBegin, PollHup, PollNothing, PollFails, PollData,
       PollInterrupted, Send, SigChld, OtherSignal, loopVars
  <2>2. QED
    BY <1>2, <2>1
<1>7. QED
  BY <1>1, <1>3, <1>4, <1>5, <1>6 DEF FlagTypes

(* A step that moves no byte changes nothing of a call that goes on, or    *)
(* ends one for a reason that is not the end of the command.               *)
Quiet ==
  /\ UNCHANGED <<toBuf, outVars, written>>
  /\ \/ UNCHANGED <<pc, pipe, ended>>
     \/ /\ pc \in {"rest", "loop"} /\ pc' = "rest" /\ pipe' \in {pipe, <<>>}
        /\ ended' \in {"full", "interrupt", "timeout", "error", "failed"}

(* Such a step keeps the account of the bytes.                             *)
LEMMA QuietStep ==
  ASSUME ByteInv, Quiet, FlagTypes'
  PROVE  ByteInv'
<1>1. UNCHANGED <<toBuf, tmp, output, lost, written>>
  BY DEF Quiet, outVars
<1>2. CASE UNCHANGED <<pc, pipe, ended>>
  BY <1>1, <1>2 DEF ByteInv, OutputExact, TypeOK, StreamInv, Done, FlagTypes
<1>3. CASE /\ pc \in {"rest", "loop"} /\ pc' = "rest" /\ pipe' \in {pipe, <<>>}
           /\ ended' \in {"full", "interrupt", "timeout", "error", "failed"}
  <2>1. pipe' \in Seq(1..MaxOutput)
    <3>1. pipe \in Seq(1..MaxOutput) /\ <<>> \in Seq(1..MaxOutput)
      BY DEF ByteInv, OutputExact, TypeOK
    <3>2. QED
      BY <1>3, <3>1, Zenon
  <2>2. TypeOK'
    BY <1>1, <1>3, <2>1 DEF ByteInv, OutputExact, TypeOK, FlagTypes
  <2>3. pc # "send" /\ pc # "start"
    BY <1>3
  <2>4. OutputExact'
    BY <1>1, <1>3, <2>2, <2>3 DEF ByteInv, OutputExact
  <2>5. tmp = <<>>
    BY <2>3 DEF ByteInv, StreamInv
  <2>6. StreamInv'
    BY <1>1, <1>3, <2>5 DEF StreamInv
  <2>7. QED
    BY <2>4, <2>6 DEF ByteInv
<1>4. QED
  BY <1>2, <1>3 DEF Quiet

(* What a read takes from the pipe, and what it leaves.                    *)
LEMMA ReadProperties ==
  ASSUME pipe \in Seq(Bytes), pipe # <<>>,
         NEW n, n = Least(TmpSize - 1, Len(pipe))
  PROVE  /\ n \in 1..Len(pipe)
         /\ SubSeq(pipe, 1, n) \in Seq(Bytes) /\ Len(SubSeq(pipe, 1, n)) = n
         /\ \A i \in 1..n : SubSeq(pipe, 1, n)[i] = pipe[i]
         /\ SubSeq(pipe, n + 1, Len(pipe)) \in Seq(Bytes)
         /\ Len(SubSeq(pipe, n + 1, Len(pipe))) = Len(pipe) - n
         /\ \A i \in 1..(Len(pipe) - n) : SubSeq(pipe, n + 1, Len(pipe))[i] = pipe[n + i]
<1>1. Len(pipe) \in Nat /\ Len(pipe) > 0
  OBVIOUS
<1>2. n \in 1..Len(pipe)
  BY <1>1, ExecAssumption DEF Least
<1>3. /\ SubSeq(pipe, 1, n) \in Seq(Bytes) /\ Len(SubSeq(pipe, 1, n)) = n
      /\ \A i \in 1..n : SubSeq(pipe, 1, n)[i] = pipe[i]
  BY <1>2
<1>4. /\ SubSeq(pipe, n + 1, Len(pipe)) \in Seq(Bytes)
      /\ Len(SubSeq(pipe, n + 1, Len(pipe))) = Len(pipe) - n
      /\ \A i \in 1..(Len(pipe) - n) : SubSeq(pipe, n + 1, Len(pipe))[i] = pipe[n + i]
  BY <1>2
<1>5. QED
  BY <1>2, <1>3, <1>4

(* A read for a buffer moves bytes from the pipe to the end of the output. *)
LEMMA ToBufStep ==
  ASSUME ByteInv, FlagTypes', PollData, toBuf
  PROVE  ByteInv'
<1> DEFINE n == Least(TmpSize - 1, Len(pipe))
           got == SubSeq(pipe, 1, n)
           rest == SubSeq(pipe, n + 1, Len(pipe))
<1>1. /\ TypeOK /\ pc = "loop" /\ pipe # <<>> /\ UNCHANGED <<callVars, tmp, lost>>
      /\ output' = Joined(got)
      /\ \/ Len(output') >= BufSize /\ Leave("full")
         \/ Len(output') < BufSize /\ TimeTest(rest)
  BY DEF PollData, InLoop, Readable, ByteInv, OutputExact
<1>2. /\ pipe \in Seq(Bytes) /\ output \in Seq(Bytes) /\ toBuf' = toBuf
  BY <1>1 DEF TypeOK, Bytes, callVars
<1>3. /\ n \in 1..Len(pipe)
      /\ got \in Seq(Bytes) /\ Len(got) = n
      /\ \A i \in 1..n : got[i] = pipe[i]
      /\ rest \in Seq(Bytes) /\ Len(rest) = Len(pipe) - n
      /\ \A i \in 1..(Len(pipe) - n) : rest[i] = pipe[n + i]
  BY <1>1, <1>2, ReadProperties
<1> HIDE DEF n, got, rest
<1>4. /\ output' \in Seq(Bytes)
      /\ Len(output') = Least(Len(output) + n, BufSize)
      /\ \A i \in 1..Len(output') :
           /\ i <= Len(output) => output'[i] = output[i]
           /\ i > Len(output) => i - Len(output) \in 1..n /\ output'[i] = got[i - Len(output)]
  BY <1>1, <1>2, <1>3, JoinedProperties
<1>5. /\ tmp = <<>> /\ ~lost /\ ended = "none"
      /\ Len(output) = Done
      /\ \A i \in 1..Len(pipe) : pipe[i] = Done + Len(tmp) + i
      /\ \A i \in 1..Len(output) : output[i] = i
      /\ written \in Nat
  BY <1>1 DEF ByteInv, OutputExact, StreamInv, TypeOK
<1>6. /\ Len(output) \in Nat /\ Len(pipe) \in Nat /\ Len(output') \in Nat
      /\ Len(tmp) = 0 /\ Done = written - Len(pipe) /\ n \in Nat
  BY <1>2, <1>3, <1>4, <1>5 DEF Done
<1>7. BufSize \in Nat
  BY ExecAssumption DEF BufSize
<1>8. ASSUME NEW i \in 1..Len(output')
      PROVE  output'[i] = i
  <2>1. CASE i <= Len(output)
    <3>1. i \in 1..Len(output) /\ output'[i] = output[i]
      BY <1>4, <1>6, <2>1
    <3>2. QED
      BY <1>5, <3>1
  <2>2. CASE i > Len(output)
    <3>1. i - Len(output) \in 1..n /\ output'[i] = got[i - Len(output)]
      BY <1>4, <1>8, <2>2
    <3>2. PICK j \in 1..n : j = i - Len(output) /\ output'[i] = got[j]
      BY <3>1
    <3>3. j \in 1..Len(pipe) /\ got[j] = pipe[j]
      BY <1>3, <1>6
    <3>4. pipe[j] = Done + Len(tmp) + j
      BY <1>5, <3>3
    <3>5. output'[i] = Len(output) + 0 + (i - Len(output))
      BY <1>5, <1>6, <3>2, <3>3, <3>4
    <3>6. QED
      BY <1>4, <1>6, <3>5
  <2>3. QED
    BY <1>6, <2>1, <2>2
<1>9. Len(output') <= BufSize
  BY <1>4, <1>6, <1>7 DEF Least
<1>10. UNCHANGED <<written, tmp, lost>>
  BY <1>1 DEF Leave, Kill, TimeTest, childVars
<1>11. CASE pc' = "rest" /\ pipe' = <<>> /\ ended' \in {"full", "timeout"}
  <2>1. pipe' \in Seq(Bytes)
    BY <1>11
  <2>2. TypeOK'
    BY <1>1, <1>2, <1>4, <1>9, <1>10, <1>11, <2>1 DEF TypeOK, Bytes, FlagTypes
  <2>3. OutputExact'
    BY <1>5, <1>8, <1>10, <1>11, <2>2 DEF OutputExact
  <2>4. StreamInv'
    BY <1>5, <1>10, <1>11 DEF StreamInv
  <2>5. QED
    BY <2>3, <2>4 DEF ByteInv
<1>12. CASE /\ Len(output') < BufSize /\ pc' = "loop" /\ ended' = ended /\ pipe' = rest
  <2>1. Len(output') = Len(output) + n
    BY <1>4, <1>6, <1>7, <1>12 DEF Least
  <2>2. Len(pipe') = Len(pipe) - n
    BY <1>3, <1>12
  <2>3. Done' = Len(output')
    BY <1>5, <1>6, <1>10, <2>1, <2>2 DEF Done
  <2>4. ASSUME NEW i \in 1..Len(pipe')
        PROVE  pipe'[i] = Done' + Len(tmp') + i
    <3>1. i \in 1..(Len(pipe) - n) /\ pipe'[i] = pipe[n + i]
      BY <1>3, <1>12, <2>4
    <3>2. n + i \in 1..Len(pipe)
      BY <1>3, <1>6, <3>1
    <3>3. pipe'[i] = Len(output) + (n + i)
      BY <1>5, <1>6, <3>1, <3>2
    <3>4. QED
      BY <1>6, <1>10, <2>1, <2>3, <3>1, <3>3
  <2>5. TypeOK'
    BY <1>1, <1>2, <1>3, <1>4, <1>9, <1>10, <1>12 DEF TypeOK, Bytes, FlagTypes
  <2>6. OutputExact'
    BY <1>5, <1>8, <1>10, <1>12, <2>5 DEF OutputExact
  <2>7. StreamInv'
    BY <1>4, <1>5, <1>6, <1>8, <1>10, <1>12, <2>3, <2>4 DEF StreamInv
  <2>8. QED
    BY <2>6, <2>7 DEF ByteInv
<1>13. QED
  BY <1>1, <1>11, <1>12 DEF Leave, TimeTest, Kill

(* A read for a socket moves them to tmp.                                  *)
LEMMA ToFdStep ==
  ASSUME ByteInv, FlagTypes', PollData, ~toBuf
  PROVE  ByteInv'
<1> DEFINE n == Least(TmpSize - 1, Len(pipe))
           got == SubSeq(pipe, 1, n)
           rest == SubSeq(pipe, n + 1, Len(pipe))
<1>1. /\ TypeOK /\ pc = "loop" /\ pipe # <<>> /\ toBuf' = toBuf
      /\ pc' = "send" /\ tmp' = got /\ pipe' = rest
      /\ UNCHANGED <<output, lost, ended, written>>
  BY DEF PollData, InLoop, Readable, ByteInv, OutputExact, callVars, childVars
<1>2. pipe \in Seq(Bytes) /\ written \in Nat
  BY <1>1 DEF TypeOK, Bytes
<1>3. /\ n \in 1..Len(pipe)
      /\ got \in Seq(Bytes) /\ Len(got) = n
      /\ \A i \in 1..n : got[i] = pipe[i]
      /\ rest \in Seq(Bytes) /\ Len(rest) = Len(pipe) - n
      /\ \A i \in 1..(Len(pipe) - n) : rest[i] = pipe[n + i]
  BY <1>1, <1>2, ReadProperties
<1> HIDE DEF n, got, rest
<1>4. /\ tmp = <<>> /\ Done >= 0 /\ ended = "none"
      /\ \A i \in 1..Len(pipe) : pipe[i] = Done + Len(tmp) + i
      /\ \A i \in 1..Len(output) : output[i] <= Done
      /\ ~lost => Len(output) = Done
  BY <1>1 DEF ByteInv, StreamInv
<1>5. /\ Len(pipe) \in Nat /\ n \in Nat /\ Len(tmp) = 0 /\ Done = written - Len(pipe)
  BY <1>2, <1>3, <1>4 DEF Done
<1>6. Done' = Done
  BY <1>1, <1>2, <1>3, <1>5 DEF Done
<1>7. Done \in Int
  BY <1>2, <1>5
<1>8. ASSUME NEW i \in 1..Len(tmp')
      PROVE  tmp'[i] = Done' + i
  <2>1. i \in 1..n /\ i \in 1..Len(pipe) /\ tmp'[i] = pipe[i]
    BY <1>1, <1>3, <1>5, <1>8
  <2>2. pipe[i] = Done + Len(tmp) + i
    BY <1>4, <2>1
  <2>3. QED
    BY <1>5, <1>6, <1>7, <2>1, <2>2
<1>9. ASSUME NEW i \in 1..Len(pipe')
      PROVE  pipe'[i] = Done' + Len(tmp') + i
  <2>1. i \in 1..(Len(pipe) - n) /\ pipe'[i] = pipe[n + i]
    BY <1>1, <1>3, <1>9
  <2>2. n + i \in 1..Len(pipe)
    BY <1>3, <1>5, <2>1
  <2>3. pipe'[i] = Done + (n + i)
    BY <1>4, <1>5, <1>7, <2>1, <2>2
  <2>4. Len(tmp') = n
    BY <1>1, <1>3
  <2>5. QED
    BY <1>5, <1>6, <1>7, <2>1, <2>3, <2>4
<1>10. TypeOK'
  BY <1>1, <1>3 DEF TypeOK, Bytes, FlagTypes
<1>11. OutputExact'
  BY <1>1, <1>4, <1>10 DEF ByteInv, OutputExact
<1>12. StreamInv'
  BY <1>1, <1>4, <1>6, <1>7, <1>8, <1>9 DEF StreamInv
<1>13. QED
  BY <1>11, <1>12 DEF ByteInv

(* A send moves some of them to the socket and drops the others.           *)
LEMMA SendStep ==
  ASSUME ByteInv, ClockInv, FlagTypes', Send
  PROVE  ByteInv'
<1>1. /\ TypeOK /\ pc = "send" /\ tmp' = <<>> /\ toBuf' = toBuf /\ TimeTest(pipe)
  BY DEF Send, InSend, ByteInv, OutputExact, callVars
<1>2. PICK k \in 0..Len(tmp) : output' = output \o SubSeq(tmp, 1, k) /\ lost' = (lost \/ k < Len(tmp))
  BY DEF Send
<1>3. /\ tmp \in Seq(Bytes) /\ output \in Seq(Bytes) /\ pipe \in Seq(Bytes) /\ written \in Nat
      /\ lost \in BOOLEAN
  BY <1>1 DEF TypeOK, Bytes
<1>4. /\ output' \in Seq(Bytes) /\ Len(output') = Len(output) + k
      /\ \A i \in 1..Len(output') :
           /\ i <= Len(output) => output'[i] = output[i]
           /\ i > Len(output) => i - Len(output) \in 1..k /\ output'[i] = tmp[i - Len(output)]
  BY <1>2, <1>3, SentProperties
<1>5. /\ ~toBuf /\ ended = "none" /\ Done >= 0
      /\ \A i \in 1..Len(pipe) : pipe[i] = Done + Len(tmp) + i
      /\ \A i \in 1..Len(tmp) : tmp[i] = Done + i
      /\ \A i \in 1..Len(output) : output[i] <= Done
      /\ ~lost => Len(output) = Done
      /\ \A i, j \in 1..Len(output) : i < j => output[i] < output[j]
      /\ ~lost => \A i \in 1..Len(output) : output[i] = i
  BY <1>1 DEF ByteInv, OutputExact, StreamInv, ClockInv
<1>6. /\ Len(output) \in Nat /\ Len(tmp) \in Nat /\ Len(pipe) \in Nat /\ k \in Nat
      /\ Done \in Int /\ Len(tmp') = 0
      /\ \A i \in 1..Len(output) : output[i] \in Int
  <2>1. Len(output) \in Nat /\ Len(tmp) \in Nat /\ Len(pipe) \in Nat /\ k \in Nat
    BY <1>3
  <2>2. Done \in Int
    BY <1>3, <2>1 DEF Done
  <2>3. Len(tmp') = 0
    BY <1>1
  <2>4. ASSUME NEW i \in 1..Len(output) PROVE output[i] \in Int
    BY <1>3, <2>4, ExecAssumption DEF Bytes
  <2>5. QED
    BY <2>1, <2>2, <2>3, <2>4
<1>7. written' = written
  BY <1>1 DEF TimeTest, Kill, childVars
<1>8. ASSUME NEW i \in 1..Len(output')
      PROVE  /\ i <= Len(output) => output'[i] = output[i]
             /\ i > Len(output) => output'[i] = Done + (i - Len(output))
  <2>1. CASE i <= Len(output)
    BY <1>4, <1>6, <2>1
  <2>2. CASE i > Len(output)
    <3>1. i - Len(output) \in 1..k /\ output'[i] = tmp[i - Len(output)]
      BY <1>4, <1>8, <2>2
    <3>2. i - Len(output) \in 1..Len(tmp)
      BY <1>2, <1>6, <3>1
    <3>3. QED
      BY <1>5, <3>1, <3>2, <2>2
  <2>3. QED
    BY <1>6, <2>1, <2>2
<1>9. \A i, j \in 1..Len(output') : i < j => output'[i] < output'[j]
  <2> SUFFICES ASSUME NEW i \in 1..Len(output'), NEW j \in 1..Len(output'), i < j
               PROVE  output'[i] < output'[j]
    OBVIOUS
  <2>0. i \in Nat /\ j \in Nat
    BY <1>4, <1>6
  <2>1. CASE j <= Len(output)
    <3>1. i \in 1..Len(output) /\ j \in 1..Len(output)
      BY <1>4, <1>6, <2>1
    <3>2. output'[i] = output[i] /\ output'[j] = output[j]
      BY <1>8, <3>1
    <3>3. QED
      BY <1>5, <3>1, <3>2
  <2>2. CASE i <= Len(output) /\ j > Len(output)
    <3>1. i \in 1..Len(output)
      BY <1>4, <1>6, <2>2
    <3>2. output'[i] = output[i] /\ output'[j] = Done + (j - Len(output))
      BY <1>8, <2>2
    <3>3. output[i] <= Done /\ output[i] \in Int
      BY <1>5, <1>6, <3>1
    <3>4. QED
      BY <1>6, <2>0, <2>2, <3>2, <3>3
  <2>3. CASE i > Len(output)
    <3>1. j > Len(output)
      BY <1>6, <2>0, <2>3
    <3>2. output'[i] = Done + (i - Len(output)) /\ output'[j] = Done + (j - Len(output))
      BY <1>8, <2>3, <3>1
    <3>3. QED
      BY <1>6, <2>0, <3>2
  <2>4. QED
    BY <1>6, <2>0, <2>1, <2>2, <2>3
<1>10. ASSUME ~lost'
       PROVE  /\ k = Len(tmp) /\ Len(output') = Done + Len(tmp)
              /\ \A i \in 1..Len(output') : output'[i] = i
  <2>0. ~lost /\ ~(k < Len(tmp))
    BY <1>2, <1>10, Zenon
  <2>1. ~lost /\ k = Len(tmp)
    BY <1>2, <1>6, <2>0
  <2>2. Len(output) = Done
    BY <1>5, <2>1
  <2>3. ASSUME NEW i \in 1..Len(output') PROVE output'[i] = i
    <3>1. CASE i <= Len(output)
      <4>1. i \in 1..Len(output)
        BY <1>4, <1>6, <3>1
      <4>2. QED
        BY <1>5, <1>8, <2>1, <3>1, <4>1
    <3>2. CASE i > Len(output)
      BY <1>4, <1>6, <1>8, <2>2, <3>2
    <3>3. QED
      BY <1>4, <1>6, <3>1, <3>2
  <2>4. QED
    BY <1>4, <2>1, <2>2, <2>3
<1>11. lost' \in BOOLEAN
  BY <1>2, <1>3
<1>12. CASE pc' = "rest" /\ pipe' = <<>> /\ ended' = "timeout"
  <2>1. pipe' \in Seq(Bytes) /\ tmp' \in Seq(Bytes)
    BY <1>1, <1>12
  <2>2. TypeOK'
    BY <1>1, <1>3, <1>4, <1>5, <1>7, <1>12, <2>1 DEF TypeOK, Bytes, FlagTypes
  <2>3. OutputExact'
    BY <1>1, <1>5, <1>9, <1>10, <1>12, <2>2 DEF OutputExact
  <2>4. StreamInv'
    BY <1>1, <1>12 DEF StreamInv
  <2>5. QED
    BY <2>3, <2>4 DEF ByteInv
<1>13. CASE pc' = "loop" /\ pipe' = pipe /\ ended' = ended
  <2>1. tmp' \in Seq(Bytes)
    BY <1>1
  <2>2. TypeOK'
    BY <1>1, <1>3, <1>4, <1>5, <1>7, <1>13, <2>1 DEF TypeOK, Bytes, FlagTypes
  <2>3. OutputExact'
    BY <1>1, <1>5, <1>9, <1>10, <1>13, <2>2 DEF OutputExact
  <2>4. Done' = Done + Len(tmp)
    BY <1>3, <1>6, <1>7, <1>13 DEF Done
  <2>5. ASSUME NEW i \in 1..Len(output') PROVE output'[i] <= Done'
    <3>1. CASE i <= Len(output)
      <4>1. i \in 1..Len(output) /\ output'[i] = output[i]
        BY <1>4, <1>6, <1>8, <3>1
      <4>2. output[i] <= Done /\ output[i] \in Int
        BY <1>5, <1>6, <4>1
      <4>3. QED
        BY <1>6, <2>4, <4>1, <4>2
    <3>2. CASE i > Len(output)
      <4>1. output'[i] = Done + (i - Len(output))
        BY <1>8, <3>2
      <4>2. i - Len(output) <= k /\ k <= Len(tmp) /\ i \in Int
        BY <1>2, <1>4, <1>6
      <4>3. QED
        BY <1>6, <2>4, <4>1, <4>2
    <3>3. QED
      BY <1>4, <1>6, <3>1, <3>2
  <2>6. \A i \in 1..Len(pipe') : pipe'[i] = Done' + Len(tmp') + i
    BY <1>5, <1>6, <1>13, <2>4
  <2>7. Done' >= 0
    BY <1>5, <1>6, <2>4
  <2>8. \A i \in 1..Len(tmp') : tmp'[i] = Done' + i
    BY <1>6
  <2>9. ~lost' => Len(output') = Done'
    BY <1>10, <2>4
  <2>10. StreamInv'
    BY <1>1, <1>5, <1>13, <2>5, <2>6, <2>7, <2>8, <2>9 DEF StreamInv
  <2>11. QED
    BY <2>3, <2>10 DEF ByteInv
<1>14. QED
  BY <1>1, <1>12, <1>13 DEF TimeTest, Kill

(* Every step keeps the account of the bytes.                              *)
LEMMA ByteStep ==
  ASSUME ByteInv, ClockInv, ClockInv', [Next]_execVars
  PROVE  ByteInv'
<1>1. TypeOK
  BY DEF ByteInv, OutputExact
<1>2. FlagTypes'
  BY <1>1, FlagStep
<1>3. CASE UNCHANGED execVars
  <2>1. Quiet
    BY <1>3 DEF execVars, Quiet, outVars
  <2>2. QED
    BY <1>2, <2>1, QuietStep
<1>4. CASE Write
  <2>1. /\ pc # "rest" /\ written < MaxOutput /\ written' = written + 1
        /\ pipe' = Append(pipe, written + 1)
        /\ UNCHANGED <<toBuf, pc, tmp, output, lost, ended>>
    BY <1>4 DEF Write, callVars, outVars
  <2>2. /\ pipe \in Seq(1..MaxOutput) /\ written \in 0..MaxOutput /\ Len(pipe) \in Nat
        /\ Len(tmp) \in Nat
    BY <1>1 DEF TypeOK
  <2>3. written' \in 1..MaxOutput /\ written' \in 0..MaxOutput
    BY <2>1, <2>2, ExecAssumption
  <2>4. /\ pipe' \in Seq(1..MaxOutput) /\ Len(pipe') = Len(pipe) + 1
        /\ \A i \in 1..Len(pipe') : pipe'[i] = IF i <= Len(pipe) THEN pipe[i] ELSE written'
    BY <2>1, <2>2, <2>3
  <2>5. TypeOK'
    BY <1>1, <1>2, <2>1, <2>3, <2>4 DEF TypeOK, FlagTypes
  <2>6. Done' = Done
    BY <2>1, <2>2, <2>4 DEF Done
  <2>7. ASSUME NEW i \in 1..Len(pipe') PROVE pipe'[i] = Done + Len(tmp) + i
    <3>1. CASE i <= Len(pipe)
      <4>1. i \in 1..Len(pipe)
        BY <2>2, <2>4, <3>1
      <4>2. QED
        BY <2>1, <2>4, <3>1, <4>1 DEF ByteInv, StreamInv
    <3>2. CASE i = Len(pipe) + 1
      BY <2>1, <2>2, <2>4, <3>2 DEF Done
    <3>3. QED
      BY <2>2, <2>4, <3>1, <3>2
  <2>8. ended = "none"
    BY <2>1 DEF ByteInv, StreamInv
  <2>9. OutputExact'
    BY <2>1, <2>5, <2>8 DEF ByteInv, OutputExact
  <2>10. StreamInv'
    BY <2>1, <2>6, <2>7 DEF ByteInv, StreamInv
  <2>11. QED
    BY <2>9, <2>10 DEF ByteInv
<1>5. CASE Exit
  <2>1. Quiet
    BY <1>5 DEF Exit, Quiet, callVars
  <2>2. QED
    BY <1>2, <2>1, QuietStep
<1>6. CASE BackgroundExit
  <2>1. Quiet
    BY <1>6 DEF BackgroundExit, Quiet, callVars
  <2>2. QED
    BY <1>2, <2>1, QuietStep
<1>7. CASE _af_exec_open_pipe_run
  <2>1. CASE ended' = "failed" /\ UNCHANGED <<pc, toBuf, calls, child, written, pipe>>
    <3>1. Quiet
      BY <1>7, <2>1 DEF _af_exec_open_pipe_run, Quiet
    <3>2. QED
      BY <1>2, <3>1, QuietStep
  <2>2. CASE pc' = "start" /\ written' = 0 /\ pipe' = <<>> /\ ended' = "none"
    <3>1. /\ pc = "rest" /\ UNCHANGED <<tmp, output, lost>>
      BY <1>7 DEF _af_exec_open_pipe_run, outVars
    <3>2. /\ tmp = <<>> /\ Len(pipe') = 0 /\ Len(tmp') = 0 /\ pipe' \in Seq(1..MaxOutput)
          /\ written' = 0
      BY <2>2, <3>1 DEF ByteInv, StreamInv
    <3>3. 0 \in 0..MaxOutput
      BY ExecAssumption
    <3>4. TypeOK'
      BY <1>1, <1>2, <2>2, <3>1, <3>2, <3>3 DEF TypeOK, FlagTypes
    <3>5. OutputExact'
      BY <2>2, <3>1, <3>4 DEF ByteInv, OutputExact
    <3>6. Done' = 0
      BY <3>2 DEF Done
    <3>7. StreamInv'
      BY <2>2, <3>1, <3>2, <3>6 DEF StreamInv
    <3>8. QED
      BY <3>5, <3>7 DEF ByteInv
  <2>3. QED
    BY <1>7, <2>1, <2>2 DEF _af_exec_open_pipe_run
<1>8. CASE LoopBegin
  <2>1. /\ pc = "start" /\ pc' = "loop" /\ output' = <<>> /\ lost' = FALSE
        /\ UNCHANGED <<toBuf, written, pipe, tmp, ended>>
    BY <1>8 DEF LoopBegin, childVars, callVars
  <2>2. 0 <= BufSize
    BY ExecAssumption DEF BufSize
  <2>3. output' \in Seq(1..MaxOutput) /\ Len(output') = 0
    BY <2>1
  <2>4. TypeOK'
    BY <1>1, <1>2, <2>1, <2>2, <2>3 DEF TypeOK, FlagTypes
  <2>5. ended = "none" /\ Done' = 0 /\ Done = 0
    BY <2>1 DEF ByteInv, StreamInv, Done
  <2>6. OutputExact'
    BY <2>1, <2>3, <2>4, <2>5 DEF OutputExact
  <2>7. StreamInv'
    BY <2>1, <2>3, <2>5 DEF ByteInv, StreamInv
  <2>8. QED
    BY <2>6, <2>7 DEF ByteInv
<1>9. CASE PollData
  BY <1>1, <1>2, <1>9, ToBufStep, ToFdStep
<1>10. CASE PollHup
  <2>1. /\ pc = "loop" /\ pipe = <<>> /\ pc' = "rest" /\ pipe' = <<>> /\ ended' = "hangup"
        /\ UNCHANGED <<toBuf, written, output, tmp, lost>>
    BY <1>10 DEF PollHup, InLoop, Readable, Leave, childVars, callVars, outVars
  <2>2. tmp = <<>> /\ Len(pipe) = 0 /\ Len(tmp) = 0
    BY <2>1 DEF ByteInv, StreamInv
  <2>3. ~lost => Len(output) = written
    BY <1>1, <2>1, <2>2 DEF ByteInv, StreamInv, Done, TypeOK
  <2>4. TypeOK'
    BY <1>1, <1>2, <2>1 DEF TypeOK, FlagTypes
  <2>5. OutputExact'
    BY <2>1, <2>3, <2>4 DEF ByteInv, OutputExact
  <2>6. StreamInv'
    BY <2>1, <2>2 DEF StreamInv
  <2>7. QED
    BY <2>5, <2>6 DEF ByteInv
<1>11. CASE PollNothing
  <2>1. Quiet
    BY <1>11 DEF PollNothing, InLoop, Leave, TimeTest, Kill, Quiet, callVars, childVars
  <2>2. QED
    BY <1>2, <2>1, QuietStep
<1>12. CASE PollInterrupted
  <2>1. Quiet
    BY <1>12 DEF PollInterrupted, InLoop, TimeTest, Kill, Quiet, callVars, childVars
  <2>2. QED
    BY <1>2, <2>1, QuietStep
<1>13. CASE Tick
  <2>1. Quiet
    BY <1>13 DEF Tick, Quiet, callVars, childVars
  <2>2. QED
    BY <1>2, <2>1, QuietStep
<1>14. CASE PollFails
  <2>1. Quiet
    BY <1>14 DEF PollFails, InLoop, Kill, Quiet, callVars
  <2>2. QED
    BY <1>2, <2>1, QuietStep
<1>15. CASE SigChld
  <2>1. Quiet
    BY <1>15 DEF SigChld, Quiet, callVars
  <2>2. QED
    BY <1>2, <2>1, QuietStep
<1>16. CASE OtherSignal
  <2>1. Quiet
    BY <1>16 DEF OtherSignal, Quiet, callVars, childVars
  <2>2. QED
    BY <1>2, <2>1, QuietStep
<1>17. CASE Send
  BY <1>2, <1>17, SendStep
<1>18. CASE SendWaits
  <2>1. Quiet
    BY <1>18 DEF SendWaits, Quiet, callVars, childVars
  <2>2. QED
    BY <1>2, <2>1, QuietStep
<1>19. QED
  BY <1>3, <1>4, <1>5, <1>6, <1>7, <1>8, <1>9, <1>10, <1>11, <1>12, <1>13, <1>14, <1>15,
     <1>16, <1>17, <1>18 DEF Next, LoopStep

-----------------------------------------------------------------------------
(* The inductive invariant: what the caller has and what is still in the   *)
(* pipe, the time left, and the signals seen.                              *)
ExecInv == ByteInv /\ ClockInv /\ SignalInv

(* The initial states satisfy the inductive invariant.                     *)
LEMMA ExecInit == Init => ExecInv
<1> SUFFICES ASSUME Init PROVE ExecInv
  OBVIOUS
<1>1. /\ pipe = <<>> /\ output = <<>> /\ tmp = <<>> /\ Len(output) = 0
      /\ <<>> \in Seq(1..MaxOutput)
  BY DEF Init
<1>2. 0 <= BufSize /\ 0 \in 0..(TicksPerSec - 1) /\ 0 \in 0..MaxOutput /\ 0 \in 0..MaxCalls
  BY ExecAssumption DEF BufSize
<1>3. {ignored, toBuf, child, background, lost, sigchld, hooked, exec_got_sigchild, sigint,
       interrupted, asked, fault} \subseteq BOOLEAN
  BY DEF Init
<1>4. clock \in [start : 0..(TicksPerSec - 1), el : Nat, send : Nat]
  BY <1>2 DEF Init
<1>5. TypeOK
  BY <1>1, <1>2, <1>3, <1>4 DEF Init, TypeOK
<1>6. ByteInv
  BY <1>1, <1>5 DEF Init, ByteInv, OutputExact, StreamInv
<1>7. ClockInv /\ SignalInv
  BY <1>4 DEF Init, ClockInv, SignalInv, Bit
<1>8. QED
  BY <1>6, <1>7 DEF ExecInv

(* Every step preserves it.                                                *)
LEMMA ExecStep == ExecInv /\ [Next]_execVars => ExecInv'
BY ByteStep, ClockStep, SignalStep DEF ExecInv, ByteInv, OutputExact

(* It holds throughout.                                                    *)
LEMMA ExecInvCorrect == Spec => []ExecInv
BY ExecInit, ExecStep, PTL DEF Spec

(* What the caller gets is in order and without repetition; unless send    *)
(* has left something behind, which cannot be with a buffer, it has no gap *)
(* and is everything when the loop ends because the command hung up.       *)
THEOREM OutputCorrect == Spec => []OutputExact
<1>1. ExecInv => OutputExact
  BY DEF ExecInv, ByteInv
<1>2. QED
  BY <1>1, ExecInvCorrect, PTL

(* _af_exec_poll_for_result waits at poll, and enters a send, only within  *)
(* the second after its timeout, whatever the command writes, whatever     *)
(* signals come and however long a send took before.                       *)
THEOREM OnTimeCorrect == Spec => []ExecOnTime
<1>1. ASSUME ExecInv PROVE ExecOnTime
  <2>1. waited \in 0..1 /\ clock.start \in Nat /\ clock.el \in Nat
    BY <1>1, ExecAssumption DEF ExecInv, ByteInv, OutputExact, TypeOK, ClockInv
  <2>2. pc = "loop" => clock.start + clock.el + 1 <= Deadline + waited
    BY <1>1 DEF ExecInv, ClockInv
  <2>3. pc = "loop" => clock.start + clock.el <= Deadline
    BY <2>1, <2>2, DeadlinePositive
  <2>4. pc = "send" => ~toBuf /\ clock.start + clock.send <= Deadline
    BY <1>1 DEF ExecInv, ClockInv
  <2>5. QED
    BY <2>3, <2>4 DEF ExecOnTime, Deadline
<1>2. QED
  BY <1>1, ExecInvCorrect, PTL

(* Over all calls no more signals are taken for SIGCHLD and forgotten than *)
(* commands have been started.                                             *)
THEOREM SignalsCorrect == Spec => []SignalsHonoured
<1>1. ASSUME ExecInv PROVE SignalsHonoured
  <2>1. calls \in Nat /\ hidden \in Nat
    BY <1>1, ExecAssumption DEF ExecInv, ByteInv, OutputExact, TypeOK
  <2>2. QED
    BY <1>1, <2>1 DEF ExecInv, SignalInv, SignalsHonoured, Bit
<1>2. QED
  BY <1>1, ExecInvCorrect, PTL

-----------------------------------------------------------------------------
(* The pid file.  An instance in the late part of a start is about to      *)
(* remove the file or has done so.                                         *)
Late == {"remove", "create", "write"}

(* The file names the instance that runs; one that is starting has read   *)
(* that, or there is none; one about to write has the file, empty, open.  *)
FileNames == \A p \in Pid : proc[p] = "running" => file = p
OneStarts == \A p, q \in Pid : proc[p] \in Starting /\ proc[q] \in Starting => p = q
ReadRight == \A p, q \in Pid : proc[p] = "look up" /\ proc[q] = "running" => target[p] = q
LateAlone == \A p, q \in Pid : proc[p] \in Late => proc[q] # "running"
WriterHolds == \A p \in Pid : proc[p] = "write" => file = Empty /\ p \in handle

PidParts == FileNames /\ OneStarts /\ ReadRight /\ LateAlone /\ WriterHolds
PidInv == ~excused => PidParts

-----------------------------------------------------------------------------
(* The initial states are typed.                                           *)
LEMMA PidTypeInit == PidInit => PidTypeOK
  BY DEF PidInit, PidTypeOK, States, Alive, Starting

(* Every step keeps the types: each sets proc[p] to a state, and target   *)
(* and file to a number or to one of the words for none.                  *)
LEMMA PidTypeStep == PidTypeOK /\ [PidNext]_pidVars => PidTypeOK'
<1>1. SUFFICES ASSUME PidTypeOK, [PidNext]_pidVars PROVE PidTypeOK'
  OBVIOUS
<1>2. CASE UNCHANGED pidVars
  BY <1>1, <1>2 DEF PidTypeOK, pidVars
<1>3. ASSUME NEW p \in Pid, Start(p) PROVE PidTypeOK'
  BY <1>1, <1>3 DEF PidTypeOK, Start, Goto, Excuse, States, Alive, Starting
<1>4. ASSUME NEW p \in Pid, Die(p) PROVE PidTypeOK'
  BY <1>1, <1>4 DEF PidTypeOK, Die, Goto, States, Alive, Starting
<1>5. ASSUME NEW p \in Pid, Reaped(p) PROVE PidTypeOK'
  BY <1>1, <1>5 DEF PidTypeOK, Reaped, Goto, States, Alive, Starting
<1>6. ASSUME NEW p \in Pid, OtherProgram(p) PROVE PidTypeOK'
  BY <1>1, <1>6 DEF PidTypeOK, OtherProgram, Goto, States, Alive, Starting
<1>7. ASSUME NEW p \in Pid, ReadPid(p) PROVE PidTypeOK'
  BY <1>1, <1>7 DEF PidTypeOK, ReadPid, Goto, States, Alive, Starting
<1>8. ASSUME NEW p \in Pid, LookUp(p) PROVE PidTypeOK'
  BY <1>1, <1>8 DEF PidTypeOK, LookUp, Goto, Excuse, States, Alive, Starting
<1>9. ASSUME NEW p \in Pid, Remove(p) PROVE PidTypeOK'
  BY <1>1, <1>9 DEF PidTypeOK, Remove, Goto, States, Alive, Starting
<1>10. ASSUME NEW p \in Pid, Create(p) PROVE PidTypeOK'
  BY <1>1, <1>10 DEF PidTypeOK, Create, Goto, States, Alive, Starting
<1>11. ASSUME NEW p \in Pid, CreateFails(p) PROVE PidTypeOK'
  BY <1>1, <1>11 DEF PidTypeOK, CreateFails, Goto, States, Alive, Starting
<1>12. ASSUME NEW p \in Pid, WritePid(p) PROVE PidTypeOK'
  BY <1>1, <1>12 DEF PidTypeOK, WritePid, Goto, Excuse, States, Alive, Starting
<1>13. ASSUME NEW p \in Pid, Fatal(p) PROVE PidTypeOK'
  BY <1>1, <1>13 DEF PidTypeOK, Fatal, Goto, Excuse, States, Alive, Starting
<1>14. ASSUME NEW p \in Pid, ReadPidFails(p) PROVE PidTypeOK'
  BY <1>1, <1>14 DEF PidTypeOK, ReadPidFails, Goto, Excuse, States, Alive, Starting
<1>15. QED
  BY <1>1, <1>2, <1>3, <1>4, <1>5, <1>6, <1>7, <1>8, <1>9, <1>10, <1>11, <1>12, <1>13,
     <1>14 DEF PidNext

(* The variables of PidFile have their types in every reachable state.    *)
THEOREM PidTypeCorrect == PidSpec => []PidTypeOK
  BY PidTypeInit, PidTypeStep, PTL DEF PidSpec

-----------------------------------------------------------------------------
(* The initial states satisfy the inductive invariant.                     *)
LEMMA PidInvInit == PidInit => PidInv
  BY DEF PidInit, PidInv, PidParts, FileNames, OneStarts, ReadRight, LateAlone, WriterHolds,
         Starting, Late

(* A step of one process changes proc for that process only. *)
LEMMA GotoEffect ==
  ASSUME PidTypeOK, NEW p \in Pid, NEW s, Goto(p, s)
  PROVE  \A q \in Pid : proc'[q] = IF q = p THEN s ELSE proc[q]
BY DEF Goto, PidTypeOK

(* The words for a file without a number are no numbers.                   *)
NoSuchPid == Absent \notin Pid /\ Empty \notin Pid /\ Garbage \notin Pid

(* A step after which nothing is excused preserves its parts.              *)
LEMMA PidPartsStep ==
  ASSUME PidTypeOK, PidParts, PidNext, ~excused', NoSuchPid
  PROVE  PidParts'
<1> USE DEF PidParts, FileNames, OneStarts, ReadRight, LateAlone, WriterHolds, NoSuchPid
<1>1. ASSUME NEW p \in Pid, Start(p) PROVE PidParts'
  <2>1. \A q \in Pid : proc'[q] = IF q = p THEN "read" ELSE proc[q]
    BY <1>1, GotoEffect DEF Start
  <2>2. \A q \in Pid : proc[q] \notin Starting
    BY <1>1, Zenon DEF Start, Excuse
  <2>3. \A q \in Pid \ {p} : target'[q] = target[q]
    BY <1>1 DEF Start, PidTypeOK
  <2>4. file' = file /\ handle' = handle
    BY <1>1 DEF Start
  <2>5. QED
    BY <2>1, <2>2, <2>3, <2>4 DEF Starting, Late
<1>2. ASSUME NEW p \in Pid, Die(p) PROVE PidParts'
  <2>1. \A q \in Pid : proc'[q] = IF q = p THEN "zombie" ELSE proc[q]
    BY <1>2, GotoEffect DEF Die
  <2>2. QED
    BY <1>2, <2>1 DEF Die, Starting, Late
<1>3. ASSUME NEW p \in Pid, Reaped(p) PROVE PidParts'
  <2>1. \A q \in Pid : proc'[q] = IF q = p THEN "none" ELSE proc[q]
    BY <1>3, GotoEffect DEF Reaped
  <2>2. QED
    BY <1>3, <2>1 DEF Reaped, Starting, Late
<1>4. ASSUME NEW p \in Pid, OtherProgram(p) PROVE PidParts'
  <2>1. \A q \in Pid : proc'[q] = IF q = p THEN "other" ELSE proc[q]
    BY <1>4, GotoEffect DEF OtherProgram
  <2>2. QED
    BY <1>4, <2>1 DEF OtherProgram, Starting, Late
<1>5. ASSUME NEW p \in Pid, ReadPid(p) PROVE PidParts'
  <2>1. \A q \in Pid : proc'[q] = IF q = p THEN "look up" ELSE proc[q]
    BY <1>5, GotoEffect DEF ReadPid
  <2>2. \A q \in Pid : proc[q] = "running" => target'[p] = q
    BY <1>5 DEF ReadPid, PidTypeOK
  <2>3. \A q \in Pid \ {p} : target'[q] = target[q]
    BY <1>5 DEF ReadPid, PidTypeOK
  <2>4. ReadRight'
    BY <2>1, <2>2, <2>3
  <2>5. FileNames' /\ OneStarts' /\ LateAlone' /\ WriterHolds'
    BY <1>5, <2>1 DEF ReadPid, Starting, Late
  <2>6. QED
    BY <2>4, <2>5
<1>6. ASSUME NEW p \in Pid, ReadPidFails(p) PROVE PidParts'
  <2>1. \A q \in Pid : proc'[q] = IF q = p THEN "look up" ELSE proc[q]
    BY <1>6, GotoEffect DEF ReadPidFails
  <2>2. ~(file \in Pid /\ proc[file] \in Alive)
    BY <1>6, Zenon DEF ReadPidFails, Excuse
  <2>3. \A q \in Pid : proc[q] # "running"
    BY <2>2 DEF Alive
  <2>4. \A q \in Pid \ {p} : target'[q] = target[q]
    BY <1>6 DEF ReadPidFails, PidTypeOK
  <2>5. proc[p] \in Starting /\ file' = file /\ handle' = handle
    BY <1>6 DEF ReadPidFails, Starting
  <2>6. \A q \in Pid : proc[q] \in Starting => q = p
    BY <2>5
  <2>7. QED
    BY <2>1, <2>3, <2>4, <2>5, <2>6 DEF Starting, Late
<1>7. ASSUME NEW p \in Pid, LookUp(p) PROVE PidParts'
  <2>1. CASE IsRunning(target[p])
    <3>1. \A q \in Pid : proc'[q] = IF q = p THEN "refused" ELSE proc[q]
      BY <1>7, <2>1, GotoEffect DEF LookUp
    <3>2. QED
      BY <1>7, <3>1 DEF LookUp, Starting, Late
  <2>2. CASE ~IsRunning(target[p])
    <3>1. \A q \in Pid : proc'[q] = IF q = p THEN "remove" ELSE proc[q]
      BY <1>7, <2>2, GotoEffect DEF LookUp
    <3>2. ~(target[p] \in LongPid /\ proc[target[p]] \in Alive)
      BY <1>7, Zenon DEF LookUp, Excuse
    <3>3. \A q \in Pid : proc[q] # "running"
      BY <1>7, <2>2, <3>2 DEF LookUp, IsRunning, Alive
    <3>4. QED
      BY <1>7, <3>1, <3>3 DEF LookUp, Starting, Late
  <2>3. QED
    BY <2>1, <2>2
<1>8. ASSUME NEW p \in Pid, Remove(p) PROVE PidParts'
  <2>1. \A q \in Pid : proc'[q] = IF q = p THEN "create" ELSE proc[q]
    BY <1>8, GotoEffect DEF Remove
  <2>2. \A q \in Pid : proc[q] # "running" /\ (proc[q] \in Starting => q = p)
    BY <1>8 DEF Remove, Late, Starting
  <2>3. QED
    BY <1>8, <2>1, <2>2 DEF Remove, Starting, Late
<1>9. ASSUME NEW p \in Pid, Create(p) PROVE PidParts'
  <2>1. \A q \in Pid : proc'[q] = IF q = p THEN "write" ELSE proc[q]
    BY <1>9, GotoEffect DEF Create
  <2>2. \A q \in Pid : proc[q] # "running" /\ (proc[q] \in Starting => q = p)
    BY <1>9 DEF Create, Late, Starting
  <2>3. QED
    BY <1>9, <2>1, <2>2 DEF Create, Starting, Late
<1>10. ASSUME NEW p \in Pid, CreateFails(p) PROVE PidParts'
  <2>1. \A q \in Pid : proc'[q] = IF q = p THEN "refused" ELSE proc[q]
    BY <1>10, GotoEffect DEF CreateFails
  <2>2. QED
    BY <1>10, <2>1 DEF CreateFails, Starting, Late
<1>11. ASSUME NEW p \in Pid, WritePid(p) PROVE PidParts'
  <2>1. \A q \in Pid : proc'[q] = IF q = p THEN "running" ELSE proc[q]
    BY <1>11, GotoEffect DEF WritePid
  <2>2. \A q \in Pid : proc[q] # "running" /\ (proc[q] \in Starting => q = p)
    BY <1>11 DEF WritePid, Late, Starting
  <2>3. file' = p
    BY <1>11, Zenon DEF WritePid, Excuse
  <2>4. QED
    BY <1>11, <2>1, <2>2, <2>3 DEF WritePid, Starting, Late
<1>12. ASSUME NEW p \in Pid, Fatal(p) PROVE PidParts'
  <2>1. proc[p] = "running"
    BY <1>12, Zenon DEF Fatal, Excuse
  <2>2. \A q \in Pid : proc'[q] = IF q = p THEN "zombie" ELSE proc[q]
    BY <1>12, GotoEffect DEF Fatal
  <2>3. \A q \in Pid : proc'[q] # "running" /\ proc[q] \notin Late
    BY <2>1, <2>2 DEF PidTypeOK
  <2>4. QED
    BY <1>12, <2>2, <2>3 DEF Fatal, Starting, Late
<1>13. QED
  BY <1>1, <1>2, <1>3, <1>4, <1>5, <1>6, <1>7, <1>8, <1>9, <1>10, <1>11, <1>12 DEF PidNext

(* What has been excused stays excused.                                    *)
LEMMA ExcusedStays == PidNext /\ ~excused' => ~excused
<1> SUFFICES ASSUME NEW p \in Pid, ~excused',
                    \/ Start(p) \/ Fatal(p) \/ ReadPidFails(p) \/ LookUp(p) \/ WritePid(p)
                    \/ excused' = excused
             PROVE  ~excused
  BY Zenon DEF PidNext, Die, Reaped, OtherProgram, ReadPid, Remove, Create, CreateFails
<1>1. QED
  BY Zenon DEF Start, Fatal, ReadPidFails, LookUp, WritePid, Excuse

(* A step preserves the inductive invariant.                               *)
LEMMA PidInvStep ==
  ASSUME PidTypeOK, PidInv, [PidNext]_pidVars, NoSuchPid
  PROVE  PidInv'
<1>1. CASE UNCHANGED pidVars
  BY <1>1 DEF pidVars, PidInv, PidParts, FileNames, OneStarts, ReadRight, LateAlone, WriterHolds
<1>2. CASE PidNext
  <2> SUFFICES ASSUME ~excused' PROVE PidParts'
    BY DEF PidInv
  <2>1. PidParts
    BY <1>2, ExcusedStays DEF PidInv
  <2>2. QED
    BY <1>2, <2>1, PidPartsStep
<1>3. QED
  BY <1>1, <1>2

(* A second instance comes to run only after starts that overlapped, a     *)
(* number too long for proc_loc, an af_fatal of one that did not run, a    *)
(* number that could not be written or a file that could not be read.      *)
THEOREM OneInstance ==
  ASSUME NoSuchPid
  PROVE  PidSpec => []OneUnlessExcused
<1>1. PidInv => OneUnlessExcused
  BY DEF PidInv, PidParts, FileNames, OneUnlessExcused
<1>2. PidTypeOK /\ PidInv /\ [PidNext]_pidVars => PidInv'
  BY PidInvStep
<1>3. QED
  BY <1>1, <1>2, PidInvInit, PidTypeCorrect, PTL DEF PidSpec

-----------------------------------------------------------------------------
(* What a step may do to an instance that is guarded. *)

(* No step takes another into the late part of a start, from which alone   *)
(* it could come to run, or has one that is to look it up miss it.         *)
LEMMA GuardStep ==
  ASSUME PidTypeOK, PidNext, NEW p \in Pid, Guarded(p), ~Die(p),
         \A q \in Pid : ~Fatal(q) /\ ~ReadPidFails(q)
  PROVE  Guarded(p)'
<1>1. /\ proc[p] = "running" /\ p \notin LongPid /\ file = p
      /\ \A q \in Pid \ {p} : proc[q] \notin Late
      /\ \A q \in Pid \ {p} : proc[q] = "look up" => target[q] = p
  BY DEF Guarded, Late
<1>2. ASSUME proc'[p] = "running", file' = p,
             \A q \in Pid \ {p} : proc'[q] \notin Late,
             \A q \in Pid \ {p} : proc'[q] = "look up" => target'[q] = p
      PROVE  Guarded(p)'
  BY <1>1, <1>2 DEF Guarded, Late
<1>3. ASSUME NEW q \in Pid, Start(q) PROVE Guarded(p)'
  <2>1. \A r \in Pid : proc'[r] = IF r = q THEN "read" ELSE proc[r]
    BY <1>3, GotoEffect DEF Start
  <2>2. q # p /\ file' = file /\ \A r \in Pid \ {q} : target'[r] = target[r]
    BY <1>1, <1>3 DEF Start, PidTypeOK
  <2>3. QED
    BY <1>1, <1>2, <2>1, <2>2 DEF Late
<1>4. ASSUME NEW q \in Pid, Die(q) PROVE Guarded(p)'
  <2>1. \A r \in Pid : proc'[r] = IF r = q THEN "zombie" ELSE proc[r]
    BY <1>4, GotoEffect DEF Die
  <2>2. q # p /\ file' = file /\ target' = target
    BY <1>4 DEF Die
  <2>3. QED
    BY <1>1, <1>2, <2>1, <2>2 DEF Late
<1>5. ASSUME NEW q \in Pid, Reaped(q) PROVE Guarded(p)'
  <2>1. \A r \in Pid : proc'[r] = IF r = q THEN "none" ELSE proc[r]
    BY <1>5, GotoEffect DEF Reaped
  <2>2. q # p /\ file' = file /\ target' = target
    BY <1>1, <1>5 DEF Reaped
  <2>3. QED
    BY <1>1, <1>2, <2>1, <2>2 DEF Late
<1>6. ASSUME NEW q \in Pid, OtherProgram(q) PROVE Guarded(p)'
  <2>1. \A r \in Pid : proc'[r] = IF r = q THEN "other" ELSE proc[r]
    BY <1>6, GotoEffect DEF OtherProgram
  <2>2. q # p /\ file' = file /\ target' = target
    BY <1>1, <1>6 DEF OtherProgram
  <2>3. QED
    BY <1>1, <1>2, <2>1, <2>2 DEF Late
<1>7. ASSUME NEW q \in Pid, ReadPid(q) PROVE Guarded(p)'
  <2>1. \A r \in Pid : proc'[r] = IF r = q THEN "look up" ELSE proc[r]
    BY <1>7, GotoEffect DEF ReadPid
  <2>2. q # p /\ file' = file /\ target'[q] = p /\ \A r \in Pid \ {q} : target'[r] = target[r]
    BY <1>1, <1>7 DEF ReadPid, PidTypeOK
  <2>3. QED
    BY <1>1, <1>2, <2>1, <2>2 DEF Late
<1>8. ASSUME NEW q \in Pid, LookUp(q) PROVE Guarded(p)'
  <2>1. q # p /\ target[q] = p /\ file' = file /\ target' = target
    BY <1>1, <1>8 DEF LookUp
  <2>2. IsRunning(target[q])
    BY <1>1, <2>1 DEF IsRunning, Alive
  <2>3. \A r \in Pid : proc'[r] = IF r = q THEN "refused" ELSE proc[r]
    BY <1>8, <2>2, GotoEffect DEF LookUp
  <2>4. QED
    BY <1>1, <1>2, <2>1, <2>3 DEF Late
<1>9. ASSUME NEW q \in Pid, Remove(q) \/ Create(q) \/ CreateFails(q) \/ WritePid(q)
      PROVE  Guarded(p)'
  <2>1. proc[q] \in Late
    BY <1>9 DEF Remove, Create, CreateFails, WritePid, Late
  <2>2. q # p /\ q \in Pid \ {p}
    BY <1>1, <2>1 DEF Late
  <2>3. QED
    BY <1>1, <2>1, <2>2
<1>10. QED
  BY <1>3, <1>4, <1>5, <1>6, <1>7, <1>8, <1>9 DEF PidNext

(* Whoever comes to run was about to write the file.                       *)
LEMMA ComesToRun ==
  ASSUME PidTypeOK, PidNext, NEW q \in Pid, proc'[q] = "running", proc[q] # "running"
  PROVE  proc[q] = "write"
<1>1. PICK p \in Pid : \/ Start(p) \/ Die(p) \/ Fatal(p) \/ Reaped(p) \/ OtherProgram(p)
                     \/ ReadPid(p) \/ ReadPidFails(p) \/ LookUp(p) \/ Remove(p) \/ Create(p)
                     \/ CreateFails(p) \/ WritePid(p)
  BY DEF PidNext
<1>2. ASSUME NEW s, s # "running", Goto(p, s) PROVE FALSE
  BY <1>2, GotoEffect
<1>3. WritePid(p)
  <2>1. CASE Start(p) \/ Die(p) \/ Fatal(p) \/ Reaped(p) \/ OtherProgram(p)
    BY <1>2, <2>1 DEF Start, Die, Fatal, Reaped, OtherProgram
  <2>2. CASE ReadPid(p) \/ ReadPidFails(p) \/ Remove(p) \/ Create(p) \/ CreateFails(p)
    BY <1>2, <2>2 DEF ReadPid, ReadPidFails, Remove, Create, CreateFails
  <2>3. CASE LookUp(p)
    <3>1. Goto(p, "refused") \/ Goto(p, "remove")
      BY <2>3 DEF LookUp
    <3>2. QED
      BY <1>2, <3>1
  <2>4. QED
    BY <1>1, <2>1, <2>2, <2>3
<1>4. proc[p] = "write" /\ (p # q => proc'[q] = proc[q])
  BY <1>3, GotoEffect DEF WritePid
<1>5. QED
  BY <1>4

(* While an instance is guarded no other comes to run, and it stays so     *)
(* until it ends, af_fatal is called or a file cannot be read, whatever    *)
(* has happened before.                                                    *)
THEOREM GuardCorrect == PidSpec => GuardHolds
<1>1. PidTypeOK /\ [PidNext]_pidVars =>
        [\A p \in Pid : Guarded(p) =>
           /\ \A q \in Pid : proc'[q] = "running" => proc[q] = "running"
           /\ \/ Guarded(p)'
              \/ Die(p)
              \/ \E q \in Pid : Fatal(q) \/ ReadPidFails(q)]_pidVars
  <2> SUFFICES ASSUME PidTypeOK, PidNext, NEW p \in Pid, Guarded(p)
               PROVE  /\ \A q \in Pid : proc'[q] = "running" => proc[q] = "running"
                      /\ \/ Guarded(p)'
                         \/ Die(p)
                         \/ \E q \in Pid : Fatal(q) \/ ReadPidFails(q)
    OBVIOUS
  <2>1. ASSUME NEW q \in Pid, proc'[q] = "running" PROVE proc[q] = "running"
    <3>1. CASE q = p
      BY <3>1 DEF Guarded
    <3>2. CASE q # p
      BY <2>1, <3>2, ComesToRun DEF Guarded
    <3>3. QED
      BY <3>1, <3>2
  <2>2. QED
    BY <2>1, GuardStep
<1>2. QED
  BY <1>1, PidTypeCorrect, PTL DEF PidSpec, GuardHolds
=============================================================================
