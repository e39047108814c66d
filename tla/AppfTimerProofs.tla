-------------------------- MODULE AppfTimerProofs ---------------------------
(***************************************************************************)
(* Theorems about the timer lists of appf_timer.c, for every set of timers *)
(* and delays and every resolution of the clock: types and the order of    *)
(* the lists for every use of the interface, the rest for callbacks that   *)
(* do not call af_timer_check themselves.                                  *)
(***************************************************************************)
EXTENDS TimerOrder, SeqLemmas

-----------------------------------------------------------------------------
(* Times have a second count and a remainder, both natural numbers.        *)
LEMMA NsPerSecPositive == NsPerSec \in Nat /\ NsPerSec >= 1
<1>1. NsPerMs \in Nat /\ NsPerMs >= 1 /\ MsPerSec \in Nat /\ MsPerSec >= 1
  BY TimerAssumption
<1>2. \A a, b \in Nat : a >= 1 /\ b >= 1 => a * b \in Nat /\ a * b >= 1
  OBVIOUS
<1>3. QED
  BY <1>1, <1>2 DEF NsPerSec

(* The clock reads as a time.                                              *)
LEMMA NowType ==
    ASSUME clock \in Nat
    PROVE  Now \in Time
<1> DEFINE n == NsPerSec
<1>1. n \in Nat /\ n >= 1
  BY NsPerSecPositive
<1> HIDE DEF n
<1>2. clock \div n \in Nat /\ clock % n \in Nat
  BY <1>1
<1>3. QED
  BY <1>2 DEF Now, Time, n

(* The sum of now and a delay is a time.                                   *)
LEMMA TimeoutType ==
    ASSUME clock \in Nat, NEW d \in Delay
    PROVE  TimeoutAfter(d) \in Time
<1>1. /\ Now.sec \in Nat /\ Now.nsec \in Nat
      /\ d.sec \in Nat /\ d.nsec \in Nat
      /\ NsPerSec \in Nat
  <2>1. Now.sec \in Nat /\ Now.nsec \in Nat
    BY NowType DEF Time
  <2>2. d.sec \in Nat /\ d.nsec \in 0..NsPerSec
    BY TimerAssumption
  <2>3. QED
    BY <2>1, <2>2, NsPerSecPositive
<1>2. QED
  BY <1>1 DEF TimeoutAfter, Time

(* A new timer goes between two timers of the list or to an end of it, and *)
(* the due timers are a prefix of it.                                      *)
LEMMA PositionRange ==
    ASSUME NEW list \in Seq(Timer), NEW to
    PROVE  Position(list, to) \in 1..(Len(list) + 1)
<1> DEFINE later == {i \in DOMAIN list : timediff(to, timeout[list[i]]) <= 0}
<1>1. DOMAIN list = 1..Len(list) /\ Len(list) \in Nat
  OBVIOUS
<1>2. later \in SUBSET (1..Len(list))
  BY <1>1
<1>3. Position(list, to) = IF later = {} THEN Len(list) + 1 ELSE Min(later)
  BY Zenon DEF Position
<1> HIDE DEF later
<1>4. later \in SUBSET Nat
  BY <1>1, <1>2
<1>5. CASE later = {}
  BY <1>1, <1>3, <1>5
<1>6. CASE later # {}
  <2>1. Min(later) \in 1..Len(list)
    BY <1>2, <1>4, <1>6, MinOfNaturals, Zenon
  <2>2. QED
    BY <1>1, <1>3, <1>6, <2>1
<1>7. QED
  BY <1>5, <1>6

(* The due prefix of a list lies within the list.                          *)
LEMMA DuePrefixRange ==
    ASSUME NEW list \in Seq(Timer)
    PROVE  DuePrefix(list) \in 0..Len(list)
<1> DEFINE later == {i \in DOMAIN list : timediff(timeout[list[i]], Now) > 0}
<1>1. DOMAIN list = 1..Len(list) /\ Len(list) \in Nat
  OBVIOUS
<1>2. later \in SUBSET (1..Len(list))
  BY <1>1
<1>3. DuePrefix(list) = IF later = {} THEN Len(list) ELSE Min(later) - 1
  BY Zenon DEF DuePrefix
<1> HIDE DEF later
<1>4. later \in SUBSET Nat
  BY <1>1, <1>2
<1>5. CASE later = {}
  BY <1>1, <1>3, <1>5
<1>6. CASE later # {}
  <2>1. Min(later) \in 1..Len(list)
    BY <1>2, <1>4, <1>6, MinOfNaturals, Zenon
  <2>2. QED
    BY <1>1, <1>3, <1>6, <2>1
<1>7. QED
  BY <1>5, <1>6

-----------------------------------------------------------------------------
(* Every step preserves the types.                                         *)
LEMMA TypeStep == TypeOK /\ [Next]_vars => TypeOK'
<1> SUFFICES ASSUME TypeOK, [Next]_vars PROVE TypeOK'
  OBVIOUS
<1> USE DEF TypeOK
<1>1. CASE Tick
  BY <1>1 DEF Tick
<1>2. ASSUME NEW t \in Timer, NEW d \in Delay, af_timer_start(t, d)
      PROVE  TypeOK'
  <2> DEFINE active == IF running[t] THEN Unlink(head, t) ELSE head
             k == Position(active, TimeoutAfter(d))
  <2>1. /\ timeout' = [timeout EXCEPT ![t] = TimeoutAfter(d)]
        /\ running' = [running EXCEPT ![t] = TRUE]
        /\ head' = InsertAt(active, k, t)
        /\ expired' = IF running[t] THEN Unlink(expired, t) ELSE expired
        /\ UNCHANGED <<clock, calls, inLoop>>
    BY <1>2, Zenon DEF af_timer_start
  <2>2. timeout' \in [Timer -> Time]
    BY <2>1, TimeoutType
  <2>3. active \in Seq(Timer)
    BY RemoveFirstType, Zenon DEF Unlink
  <2>4. expired' \in Seq(Timer)
    BY <2>1, RemoveFirstType, Zenon DEF Unlink
  <2> HIDE DEF active
  <2>5. k \in 1..(Len(active) + 1)
    BY <2>3, PositionRange, Zenon
  <2>6. head' \in Seq(Timer)
    BY <2>1, <2>3, <2>5, InsertAtProperties, Zenon
  <2>7. running' \in [Timer -> BOOLEAN]
    BY <2>1
  <2>8. QED
    BY <2>1, <2>2, <2>4, <2>6, <2>7
<1>3. ASSUME NEW t \in Timer, af_timer_stop(t)
      PROVE  TypeOK'
  <2>1. head' \in Seq(Timer) /\ expired' \in Seq(Timer)
    BY <1>3, RemoveFirstType, Zenon DEF af_timer_stop, Unlink
  <2>2. running' \in [Timer -> BOOLEAN]
    BY <1>3 DEF af_timer_stop
  <2>3. QED
    BY <1>3, <2>1, <2>2 DEF af_timer_stop
<1>4. CASE CheckBegin
  <2>1. DuePrefix(head) \in 0..Len(head) /\ Len(head) \in Nat
    BY DuePrefixRange
  <2>2. head' \in Seq(Timer) /\ expired' \in Seq(Timer)
    <3> DEFINE k == DuePrefix(head)
    <3>1. /\ expired' = SubSeq(head, 1, k)
          /\ head' = SubSeq(head, k + 1, Len(head))
      BY <1>4, Zenon DEF CheckBegin
    <3> HIDE DEF k
    <3>2. k \in 0..Len(head)
      BY <2>1 DEF k
    <3>3. QED
      BY <3>1, <3>2
  <2>3. QED
    BY <1>4, <2>2 DEF CheckBegin
<1>5. CASE CheckCalls
  <2>1. Head(expired) \in Timer /\ Tail(expired) \in Seq(Timer)
    BY <1>5 DEF CheckCalls
  <2>2. running' \in [Timer -> BOOLEAN]
    BY <1>5 DEF CheckCalls
  <2>3. calls' \in Seq(Timer)
    BY <1>5, <2>1 DEF CheckCalls
  <2>4. QED
    BY <1>5, <2>1, <2>2, <2>3, Zenon DEF CheckCalls
<1>6. CASE CallbackReturn
  <2>1. calls' \in Seq(Timer)
    BY <1>6, FrontProperties, Zenon DEF CallbackReturn
  <2>2. QED
    BY <1>6, <2>1 DEF CallbackReturn
<1>7. CASE CheckReturn
  BY <1>7 DEF CheckReturn
<1>8. CASE UNCHANGED vars
  BY <1>8 DEF vars
<1>9. QED
  BY <1>1, <1>2, <1>3, <1>4, <1>5, <1>6, <1>7, <1>8 DEF Next

(* Lists hold timers and timeouts are times, however callbacks start and   *)
(* stop timers and nest af_timer_check.                                    *)
THEOREM TypeCorrect == Spec => []TypeOK
<1>1. Init => TypeOK
  <2> SUFFICES ASSUME Init PROVE TypeOK
    OBVIOUS
  <2>1. [sec |-> 0, nsec |-> 0] \in Time /\ <<>> \in Seq(Timer) /\ 0 \in Nat
    BY DEF Time
  <2>2. timeout \in [Timer -> Time]
    BY <2>1, Zenon DEF Init
  <2>3. running \in [Timer -> BOOLEAN]
    BY Zenon DEF Init
  <2>4. QED
    BY <2>1, <2>2, <2>3, Zenon DEF Init, TypeOK
<1>2. QED
  BY <1>1, TypeStep, PTL DEF Spec

-----------------------------------------------------------------------------
(* The lists with a single activation of af_timer_check.  Between checks   *)
(* the expired list is empty: CheckBegin, which starts a new one without   *)
(* looking at the old, loses no timer.                                     *)
CheckInv ==
    /\ LinkedOnce
    /\ RunningIsLinked
    /\ Len(calls) <= 1
    /\ inLoop => calls = <<>>
    /\ ~inLoop /\ calls = <<>> => expired = <<>>

(* A timer that is started leaves the lists before it is linked in again.  *)
LEMMA StartKeepsLists ==
    ASSUME TypeOK, LinkedOnce, RunningIsLinked,
           NEW t \in Timer, NEW d \in Delay, af_timer_start(t, d)
    PROVE  LinkedOnce' /\ RunningIsLinked'
<1> DEFINE active == IF running[t] THEN Unlink(head, t) ELSE head
           waiting == IF running[t] THEN Unlink(expired, t) ELSE expired
           k == Position(active, TimeoutAfter(d))
<1>1. /\ running' = [running EXCEPT ![t] = TRUE]
      /\ head' = InsertAt(active, k, t)
      /\ expired' = waiting
  BY Zenon DEF af_timer_start
<1>2. /\ head \in Seq(Timer) /\ IsInjective(head)
      /\ expired \in Seq(Timer) /\ IsInjective(expired)
      /\ \A x \in Timer : ~ (Contains(head, x) /\ Contains(expired, x))
      /\ \A x \in Timer : running[x] <=> Contains(head, x) \/ Contains(expired, x)
  BY Zenon DEF TypeOK, LinkedOnce, RunningIsLinked
<1>3. /\ active \in Seq(Timer) /\ IsInjective(active)
      /\ \A x : Contains(active, x) <=> Contains(head, x) /\ x # t
  BY <1>2, RemoveFirstInjective, Zenon DEF Unlink
<1>4. /\ waiting \in Seq(Timer) /\ IsInjective(waiting)
      /\ \A x : Contains(waiting, x) <=> Contains(expired, x) /\ x # t
  BY <1>2, RemoveFirstInjective, Zenon DEF Unlink
<1> HIDE DEF active, waiting
<1>5. /\ IsInjective(head')
      /\ \A x : Contains(head', x) <=> Contains(active, x) \/ x = t
  <2>1. k \in 1..(Len(active) + 1)
    BY <1>3, PositionRange, Zenon
  <2> HIDE DEF k
  <2>2. QED
    BY <1>1, <1>3, <2>1, InsertAtInjective, Zenon
<1>6. running'[t] /\ \A x \in Timer : x # t => (running'[x] = running[x])
  BY <1>1 DEF TypeOK
<1>7. \A x \in Timer : ~ (Contains(head', x) /\ Contains(expired', x))
  BY <1>1, <1>2, <1>3, <1>4, <1>5, Zenon
<1>8. \A x \in Timer : running'[x] <=> Contains(head', x) \/ Contains(expired', x)
  BY <1>1, <1>2, <1>3, <1>4, <1>5, <1>6, Zenon
<1>9. QED
  BY <1>1, <1>4, <1>5, <1>7, <1>8, Zenon DEF LinkedOnce, RunningIsLinked

(* Stopping a timer keeps it linked in one place at most, and only running *)
(* timers are linked.                                                      *)
LEMMA StopKeepsLists ==
    ASSUME TypeOK, LinkedOnce, RunningIsLinked,
           NEW t \in Timer, af_timer_stop(t)
    PROVE  LinkedOnce' /\ RunningIsLinked'
<1>1. /\ head \in Seq(Timer) /\ IsInjective(head)
      /\ expired \in Seq(Timer) /\ IsInjective(expired)
      /\ \A x \in Timer : ~ (Contains(head, x) /\ Contains(expired, x))
      /\ \A x \in Timer : running[x] <=> Contains(head, x) \/ Contains(expired, x)
  BY Zenon DEF TypeOK, LinkedOnce, RunningIsLinked
<1>2. /\ IsInjective(head')
      /\ \A x : Contains(head', x) <=> Contains(head, x) /\ x # t
  BY <1>1, RemoveFirstInjective, Zenon DEF af_timer_stop, Unlink
<1>3. /\ IsInjective(expired')
      /\ \A x : Contains(expired', x) <=> Contains(expired, x) /\ x # t
  BY <1>1, RemoveFirstInjective, Zenon DEF af_timer_stop, Unlink
<1>4. Contains(head, t) \/ Contains(expired, t)
  BY <1>1, Zenon DEF af_timer_stop
<1>5. ~ running'[t] /\ \A x \in Timer : x # t => (running'[x] = running[x])
  BY <1>4 DEF TypeOK, af_timer_stop
<1>6. \A x \in Timer : ~ (Contains(head', x) /\ Contains(expired', x))
  BY <1>1, <1>2, <1>3, Zenon
<1>7. \A x \in Timer : running'[x] <=> Contains(head', x) \/ Contains(expired', x)
  BY <1>1, <1>2, <1>3, <1>5, Zenon
<1>8. QED
  BY <1>2, <1>3, <1>6, <1>7, Zenon DEF LinkedOnce, RunningIsLinked

(* The first loop moves timers between the lists and links none twice.     *)
LEMMA BeginKeepsLists ==
    ASSUME TypeOK, LinkedOnce, RunningIsLinked, CheckBegin, expired = <<>>
    PROVE  LinkedOnce' /\ RunningIsLinked'
<1> DEFINE k == DuePrefix(head)
<1>1. /\ expired' = SubSeq(head, 1, k)
      /\ head' = SubSeq(head, k + 1, Len(head))
      /\ running' = running
  BY Zenon DEF CheckBegin
<1>2. /\ head \in Seq(Timer) /\ IsInjective(head)
      /\ \A x \in Timer : running[x] <=> Contains(head, x) \/ Contains(expired, x)
  BY Zenon DEF TypeOK, LinkedOnce, RunningIsLinked
<1>3. k \in 0..Len(head)
  BY <1>2, DuePrefixRange, Zenon
<1> HIDE DEF k
<1>4. /\ IsInjective(head') /\ IsInjective(expired')
      /\ \A x : Contains(head, x) <=> Contains(expired', x) \/ Contains(head', x)
      /\ \A x : ~ (Contains(expired', x) /\ Contains(head', x))
  BY <1>1, <1>2, <1>3, SplitInjective, Zenon
<1>5. \A x : ~ Contains(expired, x)
  BY DEF Contains
<1>6. \A x \in Timer : running'[x] <=> Contains(head', x) \/ Contains(expired', x)
  BY <1>1, <1>2, <1>4, <1>5, Zenon
<1>7. QED
  BY <1>4, <1>6, Zenon DEF LinkedOnce, RunningIsLinked

(* So does taking a timer from the expired list to call it.                *)
LEMMA CallsKeepsLists ==
    ASSUME TypeOK, LinkedOnce, RunningIsLinked, CheckCalls
    PROVE  LinkedOnce' /\ RunningIsLinked'
<1> DEFINE t == Head(expired)
<1>1. /\ expired # <<>> /\ expired' = Tail(expired)
      /\ running' = [running EXCEPT ![t] = FALSE] /\ head' = head
  BY Zenon DEF CheckCalls
<1>2. /\ head \in Seq(Timer) /\ IsInjective(head)
      /\ expired \in Seq(Timer) /\ IsInjective(expired)
      /\ \A x \in Timer : ~ (Contains(head, x) /\ Contains(expired, x))
      /\ \A x \in Timer : running[x] <=> Contains(head, x) \/ Contains(expired, x)
  BY Zenon DEF TypeOK, LinkedOnce, RunningIsLinked
<1>3. /\ IsInjective(expired') /\ t \in Timer
      /\ \A x : Contains(expired', x) <=> Contains(expired, x) /\ x # t
  BY <1>1, <1>2, TailInjective, Zenon
<1>4. Contains(expired, t)
  BY <1>1, <1>2 DEF Contains
<1> HIDE DEF t
<1>5. ~ running'[t] /\ \A x \in Timer : x # t => (running'[x] = running[x])
  BY <1>1, <1>3 DEF TypeOK
<1>6. \A x \in Timer : ~ (Contains(head', x) /\ Contains(expired', x))
  BY <1>1, <1>2, <1>3, Zenon
<1>7. \A x \in Timer : running'[x] <=> Contains(head', x) \/ Contains(expired', x)
  BY <1>1, <1>2, <1>3, <1>4, <1>5, Zenon
<1>8. QED
  BY <1>1, <1>2, <1>3, <1>6, <1>7, Zenon DEF LinkedOnce, RunningIsLinked

(* Every step keeps the invariant of a single activation.                  *)
LEMMA CheckInvStep ==
    ASSUME MaxDepth = 1, TypeOK, CheckInv, [Next]_vars
    PROVE  CheckInv'
<1>1. LinkedOnce /\ RunningIsLinked
  BY DEF CheckInv
<1>2. CASE Tick \/ UNCHANGED vars
  <2>1. UNCHANGED <<running, head, expired, calls, inLoop>>
    BY <1>2, Zenon DEF Tick, vars
  <2>2. QED
    BY <2>1, Zenon DEF CheckInv, LinkedOnce, RunningIsLinked
<1>3. ASSUME NEW t \in Timer, NEW d \in Delay, af_timer_start(t, d)
      PROVE  CheckInv'
  <2>1. LinkedOnce' /\ RunningIsLinked'
    BY <1>1, <1>3, StartKeepsLists
  <2>2. /\ UNCHANGED <<calls, inLoop>> /\ ~ inLoop
        /\ expired' = IF running[t] THEN Unlink(expired, t) ELSE expired
    BY <1>3, Zenon DEF af_timer_start, InApplication
  <2>3. expired = <<>> => expired' = <<>>
    BY <2>2 DEF Unlink, RemoveFirst
  <2>4. QED
    BY <2>1, <2>2, <2>3, Zenon DEF CheckInv
<1>4. ASSUME NEW t \in Timer, af_timer_stop(t)
      PROVE  CheckInv'
  <2>1. LinkedOnce' /\ RunningIsLinked'
    BY <1>1, <1>4, StopKeepsLists
  <2>2. /\ UNCHANGED <<calls, inLoop>> /\ ~ inLoop
        /\ expired' = Unlink(expired, t)
    BY <1>4, Zenon DEF af_timer_stop, InApplication
  <2>3. expired = <<>> => expired' = <<>>
    BY <2>2 DEF Unlink, RemoveFirst
  <2>4. QED
    BY <2>1, <2>2, <2>3, Zenon DEF CheckInv
<1>5. CASE CheckBegin
  <2>1. /\ UNCHANGED calls /\ ~ inLoop /\ inLoop' = TRUE
        /\ Len(calls) < MaxDepth
    BY <1>5, Zenon DEF CheckBegin, InApplication
  <2>2. calls = <<>>
    BY <2>1 DEF TypeOK
  <2>3. expired = <<>>
    BY <2>1, <2>2, Zenon DEF CheckInv
  <2>4. LinkedOnce' /\ RunningIsLinked'
    BY <1>1, <1>5, <2>3, BeginKeepsLists
  <2>5. QED
    BY <2>1, <2>2, <2>4, Zenon DEF CheckInv
<1>6. CASE CheckCalls
  <2>1. LinkedOnce' /\ RunningIsLinked'
    BY <1>1, <1>6, CallsKeepsLists
  <2>2. /\ inLoop /\ inLoop' = FALSE /\ expired # <<>>
        /\ calls' = Append(calls, Head(expired))
    BY <1>6, Zenon DEF CheckCalls
  <2>3. calls = <<>> /\ Head(expired) \in Timer
    <3>1. calls = <<>>
      BY <2>2, Zenon DEF CheckInv
    <3>2. QED
      BY <2>2, <3>1 DEF TypeOK
  <2>4. Len(calls') <= 1 /\ calls' # <<>>
    BY <2>2, <2>3
  <2>5. QED
    BY <2>1, <2>2, <2>4, Zenon DEF CheckInv
<1>7. CASE CallbackReturn
  <2>1. /\ UNCHANGED <<running, head, expired>> /\ inLoop' = TRUE
        /\ calls # <<>> /\ calls' = Front(calls)
    BY <1>7, Zenon DEF CallbackReturn
  <2>2. Len(calls) <= 1 /\ calls \in Seq(Timer)
    BY DEF CheckInv, TypeOK
  <2>3. calls' \in Seq(Timer) /\ Len(calls') = Len(calls) - 1 /\ Len(calls) >= 1
    BY <2>1, <2>2, FrontProperties, Zenon
  <2>4. calls' = <<>> /\ Len(calls') <= 1
    BY <2>2, <2>3
  <2>5. QED
    BY <2>1, <2>4, Zenon DEF CheckInv, LinkedOnce, RunningIsLinked
<1>8. CASE CheckReturn
  <2>1. /\ UNCHANGED <<running, head, expired, calls>>
        /\ inLoop' = FALSE /\ expired = <<>>
    BY <1>8, Zenon DEF CheckReturn
  <2>2. QED
    BY <2>1, Zenon DEF CheckInv, LinkedOnce, RunningIsLinked
<1>9. QED
  BY <1>2, <1>3, <1>4, <1>5, <1>6, <1>7, <1>8 DEF Next

(* Without nested checks it holds throughout.                              *)
LEMMA CheckInvCorrect ==
    ASSUME MaxDepth = 1
    PROVE  Spec => []CheckInv
<1>1. Init => CheckInv
  <2> SUFFICES ASSUME Init PROVE CheckInv
    OBVIOUS
  <2>1. /\ head = <<>> /\ expired = <<>> /\ calls = <<>> /\ inLoop = FALSE
        /\ \A t \in Timer : running[t] = FALSE
    BY DEF Init
  <2>2. IsInjective(<<>>) /\ \A t : ~ Contains(<<>>, t)
    BY DEF IsInjective, Contains
  <2>3. Len(calls) <= 1
    BY <2>1
  <2>4. QED
    BY <2>1, <2>2, <2>3, Zenon DEF CheckInv, LinkedOnce, RunningIsLinked
<1>2. TypeOK /\ CheckInv /\ [Next]_vars => CheckInv'
  BY CheckInvStep
<1>3. QED
  BY <1>1, <1>2, TypeCorrect, PTL DEF Spec

(* Whatever callbacks start, stop and restart, in every order: no timer is *)
(* linked twice, and the running flag says exactly which timers are linked *)
(* in, so that no started timer is lost and no stopped one is called.      *)
THEOREM ListsAlwaysExact ==
    ASSUME MaxDepth = 1
    PROVE  Spec => []ListsExact
<1>1. CheckInv => ListsExact
  BY DEF CheckInv, ListsExact
<1>2. QED
  BY <1>1, CheckInvCorrect, PTL

-----------------------------------------------------------------------------
(* Arithmetic of times.  A product grows with its factors.                 *)
LEMMA ProductGrows ==
    ASSUME NEW a \in Nat, NEW b \in Nat, NEW c \in Nat, a <= b
    PROVE  a * c <= b * c
<1>1. PICK d \in Nat : b = a + d
  <2>1. b - a \in Nat /\ b = a + (b - a)
    OBVIOUS
  <2>2. QED
    BY <2>1
<1>2. b * c = a * c + d * c /\ d * c \in Nat /\ a * c \in Nat
  BY <1>1
<1>3. QED
  BY <1>2

(* The clock, converted to seconds and nanoseconds and back, is the clock. *)
LEMMA NowTicks ==
    ASSUME clock \in Nat
    PROVE  Ticks(Now) = clock /\ Now.sec \in Nat /\ Now.nsec \in 0..(NsPerSec - 1)
<1> DEFINE n == NsPerSec
           q == clock \div n
           r == clock % n
<1>1. n \in Nat /\ n >= 1
  BY NsPerSecPositive
<1> HIDE DEF n
<1>2. q \in Nat /\ r \in 0..(n - 1) /\ clock = n * q + r
  BY <1>1
<1>3. Now.sec = q /\ Now.nsec = r
  BY DEF Now, n
<1> HIDE DEF q, r
<1>4. n * q = q * n
  BY <1>1, <1>2
<1>5. QED
  BY <1>2, <1>3, <1>4 DEF Ticks, n

(* The seconds of the clock do not run backwards.                          *)
LEMMA LaterSecond ==
    ASSUME clock \in Nat
    PROVE  clock \div NsPerSec <= (clock + 1) \div NsPerSec
<1> DEFINE n == NsPerSec
           q == clock \div n
           p == (clock + 1) \div n
<1>1. n \in Nat /\ n >= 1
  BY NsPerSecPositive
<1> HIDE DEF n
<1>2. /\ q \in Nat /\ clock % n \in 0..(n - 1) /\ clock = n * q + (clock % n)
      /\ p \in Nat /\ (clock + 1) % n \in 0..(n - 1) /\ clock + 1 = n * p + ((clock + 1) % n)
  BY <1>1
<1> HIDE DEF q, p
<1>3. SUFFICES ASSUME p + 1 <= q PROVE FALSE
  BY <1>2 DEF n, q, p
<1>4. (p + 1) * n <= q * n
  BY <1>1, <1>2, <1>3, ProductGrows
<1>5. (p + 1) * n = n * p + n /\ q * n = n * q
  BY <1>1, <1>2
<1>6. n * p \in Nat /\ n * q \in Nat
  BY <1>1, <1>2
<1>7. QED
  BY <1>1, <1>2, <1>4, <1>5, <1>6

(* A timeout that was set and is not past HugeSecs from now.               *)
Sane(x) == x \in Time /\ x.nsec <= NsPerSec /\ x.sec <= Now.sec + HugeSecs

(* What timediff reports as due is less than a millisecond from its        *)
(* timeout: the difference of the nanoseconds is truncated to no less.     *)
LEMMA DueIsNear ==
    ASSUME clock \in Nat, NEW x, Sane(x), ~ (timediff(x, Now) > 0)
    PROVE  Ticks(x) < clock + NsPerMs
<1> DEFINE n == NsPerSec
           y == Now
           e == x.nsec - y.nsec
<1>1. /\ NsPerMs \in Nat /\ NsPerMs >= 1 /\ MsPerSec \in Nat /\ MsPerSec >= 1
      /\ n = NsPerMs * MsPerSec /\ n \in Nat /\ HugeSecs \in Nat
  BY TimerAssumption, NsPerSecPositive DEF NsPerSec
<1>2. /\ x.sec \in Nat /\ x.nsec \in 0..n
      /\ y.sec \in Nat /\ y.nsec \in 0..(n - 1)
      /\ Ticks(x) = x.sec * n + x.nsec /\ clock = y.sec * n + y.nsec
      /\ x.sec <= y.sec + HugeSecs
  <2>1. x.sec \in Nat /\ x.nsec \in Nat /\ x.nsec <= n
    BY DEF Sane, Time
  <2>2. x.nsec \in 0..n
    BY <1>1, <2>1
  <2>3. QED
    BY <2>1, <2>2, NowTicks DEF Sane, Ticks
<1> HIDE DEF n, y
<1>3. /\ e \in Int /\ Ticks(x) \in Nat
      /\ x.sec * n \in Nat /\ y.sec * n \in Nat
  BY <1>1, <1>2
<1>4. CASE x.sec < y.sec
  <2>1. (x.sec + 1) * n <= y.sec * n
    BY <1>1, <1>2, <1>4, ProductGrows
  <2>2. (x.sec + 1) * n = x.sec * n + n
    BY <1>1, <1>2
  <2>3. QED
    BY <1>1, <1>2, <1>3, <2>1, <2>2
<1>5. CASE x.sec >= y.sec
  <2> DEFINE d == x.sec - y.sec
  <2>1. d \in Nat /\ x.sec = y.sec + d /\ ~ (d > HugeSecs)
    BY <1>1, <1>2, <1>5
  <2>2. timediff(x, y) = d * MsPerSec + Quotient(e, NsPerMs)
    BY <1>2, <1>5, <2>1 DEF timediff
  <2> HIDE DEF d, e
  <2>3. d * MsPerSec \in Nat /\ d * n \in Nat
    BY <1>1, <2>1
  <2>4. x.sec * n = y.sec * n + d * n
    BY <1>1, <1>2, <2>1
  <2>5. d * n = (d * MsPerSec) * NsPerMs
    BY <1>1, <2>1
  <2>6. d * n + e < NsPerMs
    <3>1. CASE e >= 0
      <4>1. e \div NsPerMs \in Nat
        BY <1>1, <1>3, <3>1
      <4>2. Quotient(e, NsPerMs) = e \div NsPerMs
        BY <3>1 DEF Quotient
      <4>3. d * MsPerSec = 0 /\ e \div NsPerMs = 0
        BY <2>2, <2>3, <4>1, <4>2 DEF y
      <4>4. e < NsPerMs
        BY <1>1, <1>3, <3>1, <4>3
      <4>5. d * n = 0
        BY <1>1, <2>5, <4>3
      <4>6. QED
        BY <1>1, <1>3, <4>4, <4>5
    <3>2. CASE e < 0
      <4> DEFINE f == -e
                 q == f \div NsPerMs
      <4>1. f \in Nat /\ Quotient(e, NsPerMs) = -q
        BY <1>3, <3>2 DEF Quotient
      <4>2. q \in Nat /\ q * NsPerMs <= f
        <5> HIDE DEF f
        <5>1. q \in Nat /\ f % NsPerMs \in Nat /\ f = NsPerMs * q + (f % NsPerMs)
          BY <1>1, <4>1
        <5> HIDE DEF q
        <5>2. NsPerMs * q = q * NsPerMs /\ q * NsPerMs \in Nat
          BY <1>1, <5>1
        <5>3. QED
          BY <4>1, <5>1, <5>2
      <4> HIDE DEF q
      <4>3. d * MsPerSec <= q
        BY <2>2, <2>3, <4>1, <4>2 DEF y
      <4>4. (d * MsPerSec) * NsPerMs <= q * NsPerMs
        BY <1>1, <2>3, <4>2, <4>3, ProductGrows
      <4>5. q * NsPerMs \in Nat
        BY <1>1, <4>2
      <4>6. QED
        BY <1>1, <1>3, <2>3, <2>5, <4>2, <4>4, <4>5
    <3>3. QED
      BY <1>3, <3>1, <3>2
  <2>7. x.nsec = y.nsec + e
    BY <1>2 DEF e
  <2>8. QED
    BY <1>1, <1>2, <1>3, <2>3, <2>4, <2>6, <2>7
<1>6. QED
  BY <1>2, <1>4, <1>5

(* The carry of af_timer_start: a timer is due when its delay is over.     *)
LEMMA StartedTimeout ==
    ASSUME clock \in Nat, NEW d \in Delay
    PROVE  /\ TimeoutAfter(d) \in Time
           /\ Ticks(TimeoutAfter(d)) = clock + Ticks(d)
           /\ TimeoutAfter(d).nsec <= NsPerSec
           /\ TimeoutAfter(d).sec <= Now.sec + d.sec + 1
           /\ Ticks(d) \in Nat
<1> DEFINE n == NsPerSec
           y == Now
<1>1. /\ n \in Nat /\ n >= 1 /\ d.sec \in Nat /\ d.nsec \in 0..n
      /\ y.sec \in Nat /\ y.nsec \in 0..(n - 1)
      /\ clock = y.sec * n + y.nsec
  BY TimerAssumption, NsPerSecPositive, NowTicks DEF Ticks
<1>2. /\ y.nsec + d.nsec > n => /\ TimeoutAfter(d).sec = y.sec + d.sec + 1
                               /\ TimeoutAfter(d).nsec = y.nsec + d.nsec - n
      /\ ~ (y.nsec + d.nsec > n) => /\ TimeoutAfter(d).sec = y.sec + d.sec
                                   /\ TimeoutAfter(d).nsec = y.nsec + d.nsec
  BY <1>1 DEF TimeoutAfter
<1>3. Ticks(d) = d.sec * n + d.nsec
  BY DEF Ticks
<1>4. TimeoutAfter(d) \in Time
  BY TimeoutType
<1>5. Ticks(TimeoutAfter(d)) = TimeoutAfter(d).sec * n + TimeoutAfter(d).nsec
  BY DEF Ticks
<1> HIDE DEF n, y
<1>6. d.sec * n \in Nat /\ y.sec * n \in Nat
  BY <1>1
<1>7. CASE y.nsec + d.nsec > n
  <2>1. TimeoutAfter(d).sec = y.sec + d.sec + 1 /\ TimeoutAfter(d).nsec = y.nsec + d.nsec - n
    BY <1>2, <1>7
  <2>2. (y.sec + d.sec + 1) * n = y.sec * n + d.sec * n + n
    BY <1>1
  <2>3. /\ TimeoutAfter(d).nsec <= n /\ TimeoutAfter(d).sec <= y.sec + d.sec + 1
        /\ Ticks(d) \in Nat
    BY <1>1, <1>3, <1>6, <2>1
  <2>4. Ticks(TimeoutAfter(d)) = clock + Ticks(d)
    BY <1>1, <1>3, <1>5, <1>6, <2>1, <2>2
  <2>5. QED
    BY <1>4, <2>3, <2>4 DEF n, y
<1>8. CASE ~ (y.nsec + d.nsec > n)
  <2>1. TimeoutAfter(d).sec = y.sec + d.sec /\ TimeoutAfter(d).nsec = y.nsec + d.nsec
    BY <1>2, <1>8
  <2>2. (y.sec + d.sec) * n = y.sec * n + d.sec * n
    BY <1>1
  <2>3. QED
    BY <1>1, <1>3, <1>4, <1>5, <1>6, <1>8, <2>1, <2>2 DEF n, y
<1>9. QED
  BY <1>7, <1>8

(* af_timer_check collects none but the timers timediff reports as due.    *)
LEMMA DuePrefixDue ==
    ASSUME NEW list \in Seq(Timer), NEW i \in 1..DuePrefix(list)
    PROVE  i \in 1..Len(list) /\ ~ (timediff(timeout[list[i]], Now) > 0)
<1> DEFINE later == {j \in DOMAIN list : timediff(timeout[list[j]], Now) > 0}
<1>1. DOMAIN list = 1..Len(list) /\ Len(list) \in Nat /\ DuePrefix(list) \in 0..Len(list)
  BY DuePrefixRange
<1>2. i \in DOMAIN list
  BY <1>1
<1>3. DuePrefix(list) = IF later = {} THEN Len(list) ELSE Min(later) - 1
  BY Zenon DEF DuePrefix
<1>4. SUFFICES ASSUME i \in later PROVE FALSE
  BY <1>1, <1>2
<1> HIDE DEF later
<1>5. later \in SUBSET Nat
  BY <1>1 DEF later
<1>6. Min(later) \in Nat /\ Min(later) <= i
  BY <1>4, <1>5, MinOfNaturals
<1>7. DuePrefix(list) = Min(later) - 1
  BY <1>3, <1>4
<1>8. QED
  BY <1>1, <1>6, <1>7

-----------------------------------------------------------------------------
(* Timeouts lie at most HugeSecs ahead, and a timer that has expired is no *)
(* more than a millisecond from its own, until it is started anew.         *)
TimesInv ==
    /\ \A t \in Timer : Sane(timeout[t])
    /\ \A t \in Timer : Contains(expired, t) => Ticks(timeout[t]) < clock + NsPerMs

(* Every step keeps the timeouts within reach, and those of expired timers *)
(* in the past.                                                            *)
LEMMA TimesInvStep ==
    ASSUME MaxDepth = 1, \A d \in Delay : d.sec < HugeSecs,
           TypeOK, TypeOK', CheckInv, TimesInv, [Next]_vars
    PROVE  TimesInv'
<1>1. clock \in Nat /\ NsPerMs \in Nat /\ HugeSecs \in Nat
  BY TimerAssumption DEF TypeOK
<1>2. CASE Tick
  <2>1. clock' = clock + 1 /\ timeout' = timeout /\ expired' = expired
    BY <1>2 DEF Tick
  <2>2. Now'.sec = clock' \div NsPerSec /\ Now.sec = clock \div NsPerSec
    BY DEF Now
  <2>3. Now.sec <= Now'.sec /\ Now.sec \in Nat /\ Now'.sec \in Nat
    <3>1. clock \div NsPerSec \in Nat /\ (clock + 1) \div NsPerSec \in Nat
      BY <1>1, NsPerSecPositive
    <3>2. QED
      BY <1>1, <2>1, <2>2, <3>1, LaterSecond
  <2>4. ASSUME NEW t \in Timer PROVE Sane(timeout[t])'
    <3>1. timeout[t].sec \in Nat /\ Sane(timeout[t])
      BY DEF TypeOK, Time, TimesInv
    <3>2. QED
      BY <1>1, <2>1, <2>3, <3>1 DEF Sane
  <2>5. ASSUME NEW t \in Timer, Contains(expired', t)
        PROVE  Ticks(timeout'[t]) < clock' + NsPerMs
    <3>1. Ticks(timeout[t]) < clock + NsPerMs
      BY <2>1, <2>5 DEF TimesInv
    <3>2. Ticks(timeout[t]) \in Nat
      <4>1. timeout[t].sec \in Nat /\ timeout[t].nsec \in Nat /\ NsPerSec \in Nat
        BY NsPerSecPositive DEF TypeOK, Time
      <4>2. timeout[t].sec * NsPerSec \in Nat
        BY <4>1
      <4>3. QED
        BY <4>1, <4>2 DEF Ticks
    <3>3. QED
      BY <1>1, <2>1, <3>1, <3>2
  <2>6. QED
    BY <2>4, <2>5 DEF TimesInv
<1>3. ASSUME NEW t \in Timer, NEW d \in Delay, af_timer_start(t, d)
      PROVE  TimesInv'
  <2>1. /\ timeout' = [timeout EXCEPT ![t] = TimeoutAfter(d)] /\ clock' = clock
        /\ expired' = IF running[t] THEN Unlink(expired, t) ELSE expired
    BY <1>3 DEF af_timer_start
  <2>2. timeout'[t] = TimeoutAfter(d) /\ \A x \in Timer : x # t => timeout'[x] = timeout[x]
    BY <2>1 DEF TypeOK
  <2>3. Sane(TimeoutAfter(d))
    <3>1. d.sec < HugeSecs /\ d.sec \in Nat
      BY TimerAssumption
    <3>2. Now.sec \in Nat /\ TimeoutAfter(d).sec \in Nat
      BY <1>1, NowTicks, StartedTimeout DEF Time
    <3>3. QED
      BY <1>1, <3>1, <3>2, StartedTimeout DEF Sane
  <2>4. \A x \in Timer : Sane(timeout'[x])
    BY <2>2, <2>3 DEF TimesInv
  <2>5. \A x \in Timer : Contains(expired', x) => Contains(expired, x) /\ x # t
    <3>1. expired \in Seq(Timer) /\ IsInjective(expired)
      BY DEF TypeOK, CheckInv, LinkedOnce
    <3>2. CASE running[t]
      BY <2>1, <3>1, <3>2, RemoveFirstInjective, Zenon DEF Unlink
    <3>3. CASE ~ running[t]
      BY <2>1, <3>3, Zenon DEF CheckInv, RunningIsLinked
    <3>4. QED
      BY <3>2, <3>3
  <2>6. ASSUME NEW x \in Timer, Contains(expired', x)
        PROVE  Ticks(timeout'[x]) < clock' + NsPerMs
    <3>1. Contains(expired, x) /\ timeout'[x] = timeout[x]
      BY <2>2, <2>5, <2>6
    <3>2. QED
      BY <2>1, <3>1 DEF TimesInv
  <2>7. QED
    BY <2>1, <2>4, <2>6 DEF TimesInv, Sane, Now
<1>4. ASSUME UNCHANGED <<clock, timeout>>,
             \A x \in Timer : Contains(expired', x) =>
                Contains(expired, x) \/ Ticks(timeout[x]) < clock + NsPerMs
      PROVE  TimesInv'
  BY <1>4 DEF TimesInv, Sane, Now
<1>5. ASSUME NEW t \in Timer, af_timer_stop(t)
      PROVE  TimesInv'
  <2>1. expired \in Seq(Timer) /\ IsInjective(expired)
    BY DEF TypeOK, CheckInv, LinkedOnce
  <2>2. \A x \in Timer : Contains(expired', x) => Contains(expired, x)
    BY <1>5, <2>1, RemoveFirstInjective, Zenon DEF af_timer_stop, Unlink
  <2>3. QED
    BY <1>4, <1>5, <2>2 DEF af_timer_stop
<1>6. CASE CheckBegin
  <2>1. head \in Seq(Timer) /\ expired' = SubSeq(head, 1, DuePrefix(head))
    BY <1>6 DEF TypeOK, CheckBegin
  <2>2. ASSUME NEW x \in Timer, Contains(expired', x)
        PROVE  Ticks(timeout[x]) < clock + NsPerMs
    <3> DEFINE k == DuePrefix(head)
    <3>1. k \in 0..Len(head)
      BY <2>1, DuePrefixRange
    <3> HIDE DEF k
    <3>2. PICK i \in 1..k : head[i] = x
      BY <2>1, <2>2, <3>1 DEF Contains, k
    <3>3. ~ (timediff(timeout[x], Now) > 0)
      BY <2>1, <3>2, DuePrefixDue DEF k
    <3>4. QED
      BY <1>1, <3>3, DueIsNear DEF TimesInv
  <2>3. QED
    BY <1>4, <1>6, <2>2 DEF CheckBegin
<1>7. CASE CheckCalls
  <2>1. expired \in Seq(Timer) /\ IsInjective(expired) /\ expired # <<>>
    BY <1>7 DEF TypeOK, CheckInv, LinkedOnce, CheckCalls
  <2>2. \A x \in Timer : Contains(expired', x) => Contains(expired, x)
    BY <1>7, <2>1, TailInjective, Zenon DEF CheckCalls
  <2>3. QED
    BY <1>4, <1>7, <2>2 DEF CheckCalls
<1>8. CASE CallbackReturn \/ CheckReturn \/ UNCHANGED vars
  BY <1>4, <1>8 DEF CallbackReturn, CheckReturn, vars
<1>9. QED
  BY <1>2, <1>3, <1>5, <1>6, <1>7, <1>8 DEF Next

-----------------------------------------------------------------------------
(* The refinement of TimerService.                                         *)
Deadlines == [t \in Timer |-> IF running[t] THEN Ticks(timeout[t]) ELSE -1]

(* A time is a number of ticks.                                            *)
LEMMA TicksType == \A x \in Time : Ticks(x) \in Nat
<1>1. SUFFICES ASSUME NEW x \in Time PROVE Ticks(x) \in Nat
  OBVIOUS
<1>2. x.sec \in Nat /\ x.nsec \in Nat /\ NsPerSec \in Nat
  BY <1>1, NsPerSecPositive DEF Time
<1>3. x.sec * NsPerSec \in Nat
  BY <1>2
<1>4. QED
  BY <1>2, <1>3 DEF Ticks

(* Starting a timer is a step of the abstract service.                     *)
LEMMA StartImplements ==
    ASSUME TypeOK, NEW t \in Timer, NEW d \in Delay, af_timer_start(t, d)
    PROVE  Service!Next
<1>1. /\ timeout' = [timeout EXCEPT ![t] = TimeoutAfter(d)]
      /\ running' = [running EXCEPT ![t] = TRUE]
      /\ UNCHANGED <<clock, calls>>
  BY DEF af_timer_start
<1>2. /\ running'[t] /\ timeout'[t] = TimeoutAfter(d)
      /\ \A x \in Timer : x # t => running'[x] = running[x] /\ timeout'[x] = timeout[x]
  BY <1>1 DEF TypeOK
<1>3. Ticks(timeout'[t]) = clock + Ticks(d)
  BY <1>2, StartedTimeout DEF TypeOK
<1>4. Deadlines' = [Deadlines EXCEPT ![t] = clock + Ticks(d)]
  <2>1. Deadlines' = [x \in Timer |-> IF running'[x] THEN Ticks(timeout'[x]) ELSE -1]
    BY DEF Deadlines, Ticks
  <2>2. \A x \in Timer : Deadlines'[x] = IF x = t THEN clock + Ticks(d) ELSE Deadlines[x]
    BY <1>2, <1>3, <2>1 DEF Deadlines
  <2>3. QED
    BY <2>1, <2>2 DEF Deadlines
<1>5. PICK delay \in {Ticks(x) : x \in Delay} : delay = Ticks(d)
  OBVIOUS
<1>6. Service!Arm(t, delay)
  BY <1>1, <1>4, <1>5 DEF Service!Arm, Deadlines
<1>7. QED
  BY <1>6 DEF Service!Next

(* So is stopping one,                                                     *)
LEMMA StopImplements ==
    ASSUME TypeOK, RunningIsLinked, NEW t \in Timer, af_timer_stop(t)
    PROVE  Service!Next
<1>1. /\ running' = [running EXCEPT ![t] = ~(Contains(head, t) \/ Contains(expired, t))]
      /\ running[t] /\ UNCHANGED <<clock, timeout, calls>>
  BY DEF af_timer_stop
<1>2. Contains(head, t) \/ Contains(expired, t)
  BY <1>1 DEF RunningIsLinked
<1>3. ~ running'[t] /\ \A x \in Timer : x # t => running'[x] = running[x]
  BY <1>1, <1>2 DEF TypeOK
<1>4. Deadlines' = [Deadlines EXCEPT ![t] = -1]
  <2>1. Deadlines' = [x \in Timer |-> IF running'[x] THEN Ticks(timeout[x]) ELSE -1]
    BY <1>1 DEF Deadlines
  <2>2. \A x \in Timer : Deadlines'[x] = IF x = t THEN -1 ELSE Deadlines[x]
    BY <1>3, <2>1 DEF Deadlines
  <2>3. QED
    BY <2>1, <2>2 DEF Deadlines
<1>5. Service!Disarm(t)
  BY <1>1, <1>4 DEF Service!Disarm, Service!Off, Deadlines
<1>6. QED
  BY <1>5 DEF Service!Next

(* and so is calling one: its time has come.                               *)
LEMMA CallImplements ==
    ASSUME TypeOK, CheckInv, TimesInv, CheckCalls
    PROVE  Service!Next
<1> DEFINE t == Head(expired)
<1>1. /\ expired # <<>> /\ running' = [running EXCEPT ![t] = FALSE]
      /\ calls' = Append(calls, t) /\ UNCHANGED <<clock, timeout>>
  BY DEF CheckCalls
<1>2. /\ expired \in Seq(Timer) /\ calls \in Seq(Timer)
      /\ running \in [Timer -> BOOLEAN] /\ timeout \in [Timer -> Time]
  BY DEF TypeOK
<1>3. t \in Timer /\ Contains(expired, t)
  BY <1>1, <1>2 DEF Contains
<1>4. PICK u \in Timer : u = t
  BY <1>3
<1> HIDE DEF t
<1>5. running[u] /\ Ticks(timeout[u]) < clock + NsPerMs
  BY <1>3, <1>4 DEF CheckInv, RunningIsLinked, TimesInv
<1>6. ~ running'[u] /\ \A x \in Timer : x # u => running'[x] = running[x]
  BY <1>1, <1>2, <1>4
<1>7. Deadlines' = [Deadlines EXCEPT ![u] = -1]
  <2>1. Deadlines' = [x \in Timer |-> IF running'[x] THEN Ticks(timeout[x]) ELSE -1]
    BY <1>1 DEF Deadlines
  <2>2. \A x \in Timer : Deadlines'[x] = IF x = u THEN -1 ELSE Deadlines[x]
    BY <1>6, <2>1 DEF Deadlines
  <2>3. QED
    BY <2>1, <2>2 DEF Deadlines
<1>8. Deadlines[u] = Ticks(timeout[u]) /\ Deadlines[u] # -1
  <2>1. Ticks(timeout[u]) \in Nat
    BY <1>2, TicksType
  <2>2. QED
    BY <1>5, <2>1 DEF Deadlines
<1>9. Service!Fire(u)
  BY <1>1, <1>4, <1>5, <1>7, <1>8 DEF Service!Fire, Service!Off, Deadlines
<1>10. QED
  BY <1>9 DEF Service!Next

(* Every step is a step of the abstract service or changes nothing it      *)
(* promises.                                                               *)
LEMMA ServiceStep ==
    ASSUME TypeOK, CheckInv, TimesInv, [Next]_vars
    PROVE  [Service!Next]_(Service!vars)
<1>1. CASE Tick
  <2>1. Service!Tick
    BY <1>1 DEF Tick, Service!Tick, Ticks
  <2>2. QED
    BY <2>1 DEF Service!Next
<1>2. ASSUME NEW t \in Timer, NEW d \in Delay, af_timer_start(t, d)
      PROVE  Service!Next
  BY <1>2, StartImplements
<1>3. ASSUME NEW t \in Timer, af_timer_stop(t)
      PROVE  Service!Next
  BY <1>3, StopImplements DEF CheckInv
<1>4. CASE CheckCalls
  BY <1>4, CallImplements
<1>5. CASE CallbackReturn
  <2>1. Service!Return
    BY <1>5 DEF CallbackReturn, Service!Return, Service!Front, Front, Ticks
  <2>2. QED
    BY <2>1 DEF Service!Next
<1>6. CASE CheckBegin \/ CheckReturn \/ UNCHANGED vars
  <2>1. UNCHANGED <<clock, timeout, running, calls>>
    BY <1>6 DEF CheckBegin, CheckReturn, vars
  <2>2. QED
    BY <2>1 DEF Service!vars, Ticks
<1>7. QED
  BY <1>1, <1>2, <1>3, <1>4, <1>5, <1>6 DEF Next

(* What the section promises its callers, for timers started with delays   *)
(* below the HugeSecs of timediff: a callback runs only for a timer that   *)
(* was started and not stopped since, once for each start, and less than a *)
(* millisecond before its time, whatever other callbacks do to the timers. *)
THEOREM ServiceImplemented ==
    ASSUME MaxDepth = 1, \A d \in Delay : d.sec < HugeSecs
    PROVE  Spec => ImplementsService
<1>1. ASSUME Init PROVE Service!Init
  <2>1. \A t \in Timer : ~ running[t]
    BY <1>1 DEF Init
  <2>2. clock = 0 /\ calls = <<>>
    BY <1>1 DEF Init
  <2>3. Deadlines = [t \in Timer |-> -1]
    BY <2>1 DEF Deadlines
  <2>4. QED
    BY <2>2, <2>3 DEF Service!Init, Service!Off, Deadlines
<1>2. Init => TimesInv
  <2>1. SUFFICES ASSUME Init PROVE TimesInv
    OBVIOUS
  <2>2. clock = 0 /\ expired = <<>> /\ \A t \in Timer : timeout[t] = [sec |-> 0, nsec |-> 0]
    BY <2>1 DEF Init
  <2>3. Now.sec \in Nat /\ HugeSecs \in Nat /\ NsPerSec \in Nat
    BY <2>2, NowTicks, NsPerSecPositive, TimerAssumption
  <2>4. Sane([sec |-> 0, nsec |-> 0])
    BY <2>3 DEF Sane, Time
  <2>5. \A t : ~ Contains(<<>>, t)
    BY DEF Contains
  <2>6. QED
    BY <2>2, <2>4, <2>5 DEF TimesInv
<1>3. TypeOK /\ TypeOK' /\ CheckInv /\ TimesInv /\ [Next]_vars => TimesInv'
  BY TimesInvStep
<1>4. TypeOK /\ CheckInv /\ TimesInv /\ [Next]_vars => [Service!Next]_(Service!vars)
  BY ServiceStep
<1>5. Spec => []TimesInv
  BY <1>2, <1>3, TypeCorrect, CheckInvCorrect, PTL DEF Spec
<1>6. Spec => Service!Init /\ [][Service!Next]_(Service!vars)
  BY <1>1, <1>4, <1>5, TypeCorrect, CheckInvCorrect, PTL DEF Spec
<1>7. QED
  BY <1>6 DEF ImplementsService, Service!Spec

-----------------------------------------------------------------------------
(* No timer is linked twice and only running timers are linked, also when  *)
(* checks nest and drop what an outer check has collected.                 *)
Linked ==
    /\ LinkedOnce
    /\ \A x \in Timer : Contains(head, x) \/ Contains(expired, x) => running[x]

(* Every step keeps it.                                                    *)
LEMMA LinkedStep ==
    ASSUME TypeOK, Linked, [Next]_vars
    PROVE  Linked'
<1>1. /\ head \in Seq(Timer) /\ IsInjective(head)
      /\ expired \in Seq(Timer) /\ IsInjective(expired)
      /\ \A x \in Timer : ~ (Contains(head, x) /\ Contains(expired, x))
      /\ \A x \in Timer : Contains(head, x) \/ Contains(expired, x) => running[x]
  BY Zenon DEF TypeOK, LinkedOnce, Linked
<1>2. ASSUME IsInjective(head'), IsInjective(expired'), NEW t \in Timer,
             \A x \in Timer : x # t => (running'[x] = running[x]),
             \A x \in Timer : x # t => /\ Contains(head', x) => Contains(head, x)
                                       /\ Contains(expired', x) => Contains(expired, x),
             ~ (Contains(head', t) /\ Contains(expired', t)),
             Contains(head', t) \/ Contains(expired', t) => running'[t]
      PROVE  Linked'
  <2>1. ASSUME NEW x \in Timer
        PROVE  /\ ~ (Contains(head', x) /\ Contains(expired', x))
               /\ Contains(head', x) \/ Contains(expired', x) => running'[x]
    <3>1. CASE x = t
      BY <1>2, <3>1, Zenon
    <3>2. CASE x # t
      <4>1. /\ Contains(head', x) => Contains(head, x)
            /\ Contains(expired', x) => Contains(expired, x)
        BY <1>2, <3>2, Zenon
      <4>2. running[x] => running'[x]
        BY <1>2, <3>2, Zenon
      <4>3. QED
        BY <1>1, <4>1, <4>2, Zenon
    <3>3. QED
      BY <3>1, <3>2
  <2>2. QED
    BY <1>2, <2>1, Zenon DEF Linked, LinkedOnce
<1>3. ASSUME NEW t \in Timer, NEW d \in Delay, af_timer_start(t, d)
      PROVE  Linked'
  <2> DEFINE active == IF running[t] THEN Unlink(head, t) ELSE head
             waiting == IF running[t] THEN Unlink(expired, t) ELSE expired
             k == Position(active, TimeoutAfter(d))
  <2>1. /\ running' = [running EXCEPT ![t] = TRUE]
        /\ head' = InsertAt(active, k, t)
        /\ expired' = waiting
    BY <1>3, Zenon DEF af_timer_start
  <2>2. /\ active \in Seq(Timer) /\ IsInjective(active)
        /\ \A x \in Timer : Contains(active, x) <=> Contains(head, x) /\ x # t
    BY <1>1, RemoveFirstInjective, Zenon DEF Unlink
  <2>3. /\ IsInjective(waiting)
        /\ \A x \in Timer : Contains(waiting, x) <=> Contains(expired, x) /\ x # t
    BY <1>1, RemoveFirstInjective, Zenon DEF Unlink
  <2>4. ~ Contains(active, t)
    BY <2>2
  <2> HIDE DEF active, waiting
  <2>5. /\ IsInjective(head')
        /\ \A x : Contains(head', x) <=> Contains(active, x) \/ x = t
    <3>1. k \in 1..(Len(active) + 1)
      BY <2>2, PositionRange, Zenon
    <3> HIDE DEF k
    <3>2. QED
      BY <2>1, <2>2, <2>4, <3>1, InsertAtInjective, Zenon
  <2>6. running'[t] /\ \A x \in Timer : x # t => (running'[x] = running[x])
    BY <2>1 DEF TypeOK
  <2>7. /\ IsInjective(expired') /\ ~ Contains(expired', t)
        /\ \A x \in Timer : x # t => /\ Contains(head', x) => Contains(head, x)
                                     /\ Contains(expired', x) => Contains(expired, x)
    BY <2>1, <2>2, <2>3, <2>5, Zenon
  <2>8. QED
    BY <1>2, <2>5, <2>6, <2>7, Zenon
<1>4. ASSUME NEW t \in Timer, af_timer_stop(t)
      PROVE  Linked'
  <2>1. /\ IsInjective(head') /\ IsInjective(expired')
        /\ \A x : Contains(head', x) <=> Contains(head, x) /\ x # t
        /\ \A x : Contains(expired', x) <=> Contains(expired, x) /\ x # t
    BY <1>1, <1>4, RemoveFirstInjective, Zenon DEF af_timer_stop, Unlink
  <2>2. \A x \in Timer : x # t => (running'[x] = running[x])
    BY <1>4 DEF TypeOK, af_timer_stop
  <2>3. QED
    BY <1>2, <2>1, <2>2, Zenon
<1>5. CASE CheckBegin
  <2> DEFINE k == DuePrefix(head)
  <2>1. /\ expired' = SubSeq(head, 1, k)
        /\ head' = SubSeq(head, k + 1, Len(head))
        /\ running' = running
    BY <1>5, Zenon DEF CheckBegin
  <2>2. k \in 0..Len(head)
    BY <1>1, DuePrefixRange, Zenon
  <2> HIDE DEF k
  <2>3. /\ IsInjective(head') /\ IsInjective(expired')
        /\ \A x : Contains(head, x) <=> Contains(expired', x) \/ Contains(head', x)
        /\ \A x : ~ (Contains(expired', x) /\ Contains(head', x))
    BY <1>1, <2>1, <2>2, SplitInjective, Zenon
  <2>4. QED
    BY <1>1, <2>1, <2>3, Zenon DEF Linked, LinkedOnce
<1>6. CASE CheckCalls
  <2> DEFINE t == Head(expired)
  <2>1. /\ expired # <<>> /\ expired' = Tail(expired)
        /\ running' = [running EXCEPT ![t] = FALSE] /\ head' = head
    BY <1>6, Zenon DEF CheckCalls
  <2>2. /\ IsInjective(expired') /\ t \in Timer
        /\ \A x : Contains(expired', x) <=> Contains(expired, x) /\ x # t
    BY <1>1, <2>1, TailInjective, Zenon
  <2>3. Contains(expired, t)
    BY <1>1, <2>1 DEF Contains
  <2> HIDE DEF t
  <2>4. \A x \in Timer : x # t => (running'[x] = running[x])
    BY <2>1, <2>2 DEF TypeOK
  <2>5. ~ Contains(head', t) /\ ~ Contains(expired', t)
    BY <1>1, <2>1, <2>2, <2>3, Zenon
  <2>6. QED
    BY <1>1, <1>2, <2>1, <2>2, <2>4, <2>5, Zenon
<1>7. CASE Tick \/ CallbackReturn \/ CheckReturn \/ UNCHANGED vars
  <2>1. UNCHANGED <<running, head, expired>>
    BY <1>7, Zenon DEF Tick, CallbackReturn, CheckReturn, vars
  <2>2. QED
    BY <2>1, Zenon DEF Linked, LinkedOnce
<1>8. QED
  BY <1>3, <1>4, <1>5, <1>6, <1>7 DEF Next

-----------------------------------------------------------------------------
(* The order of the lists, at every resolution of the clock.  A difference *)
(* timediff reports as positive is one: what it cuts off a difference of   *)
(* seconds is less than what it leaves.                                    *)
LEMMA LaterByDiff ==
    ASSUME NEW x \in Time, NEW y \in Time
    PROVE  /\ timediff(x, y) \in Int
           /\ timediff(x, y) > 0 => Ticks(y) < Ticks(x)
<1> DEFINE n == NsPerSec
           e == x.nsec - y.nsec
           d == x.sec - y.sec
<1>1. /\ NsPerMs \in Nat /\ NsPerMs >= 1 /\ MsPerSec \in Nat /\ MsPerSec >= 1
      /\ n = NsPerMs * MsPerSec /\ n \in Nat /\ HugeSecs \in Nat
  BY TimerAssumption, NsPerSecPositive DEF NsPerSec
<1>2. /\ x.sec \in Nat /\ x.nsec \in Nat /\ y.sec \in Nat /\ y.nsec \in Nat
      /\ Ticks(x) = x.sec * n + x.nsec /\ Ticks(y) = y.sec * n + y.nsec
  BY DEF Time, Ticks
<1> HIDE DEF n
<1>3. e \in Int /\ d \in Int /\ x.nsec = y.nsec + e /\ x.sec = y.sec + d
  BY <1>2
<1>4. x.sec * n = y.sec * n + d * n /\ d * n \in Int /\ x.sec * n \in Nat /\ y.sec * n \in Nat
  BY <1>1, <1>2, <1>3
<1>5. Quotient(e, NsPerMs) \in Int
  BY <1>1, <1>3 DEF Quotient
<1>6. CASE x.sec < y.sec \/ x.sec - y.sec > HugeSecs
  <2>1. timediff(x, y) = 0
    BY <1>6, Zenon DEF timediff
  <2>2. QED
    BY <2>1
<1>7. CASE ~ (x.sec < y.sec \/ x.sec - y.sec > HugeSecs)
  <2>1. timediff(x, y) = d * MsPerSec + Quotient(e, NsPerMs)
    BY <1>7, Zenon DEF timediff
  <2>2. d \in Nat
    BY <1>2, <1>7
  <2> HIDE DEF d, e
  <2>3. d * MsPerSec \in Nat /\ d * n = (d * MsPerSec) * NsPerMs /\ d * n \in Nat
    BY <1>1, <2>2
  <2>4. SUFFICES ASSUME timediff(x, y) > 0 PROVE Ticks(y) < Ticks(x)
    BY <1>5, <2>1, <2>3
  <2>5. d * n + e > 0
    <3> DEFINE m == d * MsPerSec
    <3>1. CASE e > 0
      BY <1>3, <2>3, <3>1
    <3>2. CASE ~ (e > 0)
      <4> DEFINE f == -e
                 q == f \div NsPerMs
      <4>1. f \in Nat /\ e = -f
        BY <1>3, <3>2
      <4>2. Quotient(e, NsPerMs) = -q
        <5>1. CASE e = 0
          <6> DEFINE z == 0 \div NsPerMs
          <6>1. q = z /\ Quotient(e, NsPerMs) = z
            <7>1. f = 0
              <8> HIDE DEF f
              <8>1. QED
                BY <4>1, <5>1
            <7>2. Quotient(e, NsPerMs) = e \div NsPerMs
              BY <5>1 DEF Quotient
            <7> HIDE DEF f
            <7>3. QED
              BY <5>1, <7>1, <7>2, Zenon
          <6>2. z \in Nat /\ 0 % NsPerMs \in Nat /\ 0 = NsPerMs * z + (0 % NsPerMs)
            BY <1>1
          <6> HIDE DEF z
          <6>3. z >= 1 => NsPerMs * z >= 1
            <7>1. ASSUME 1 <= z PROVE 1 * NsPerMs <= z * NsPerMs
              BY <1>1, <6>2, <7>1, ProductGrows
            <7>2. 1 * NsPerMs = NsPerMs /\ z * NsPerMs = NsPerMs * z
              BY <1>1, <6>2
            <7>3. ASSUME z >= 1 PROVE NsPerMs * z >= 1
              <8>1. 1 <= z
                BY <6>2, <7>3
              <8>2. NsPerMs <= NsPerMs * z
                BY <7>1, <7>2, <8>1
              <8>3. NsPerMs * z \in Nat
                BY <1>1, <6>2
              <8>4. QED
                BY <1>1, <8>2, <8>3
            <7>4. QED
              BY <7>3
          <6>4. NsPerMs * z \in Nat
            BY <1>1, <6>2
          <6>5. z = 0
            BY <6>2, <6>3, <6>4
          <6>6. QED
            BY <6>1, <6>5
        <5>2. CASE e # 0
          BY <1>3, <3>2, <5>2 DEF Quotient
        <5>3. QED
          BY <5>1, <5>2
      <4> HIDE DEF f
      <4>3. q \in Nat /\ f % NsPerMs \in 0..(NsPerMs - 1) /\ f = NsPerMs * q + (f % NsPerMs)
        BY <1>1, <4>1
      <4> HIDE DEF q
      <4>4. q + 1 <= m
        BY <2>1, <2>3, <2>4, <4>2, <4>3
      <4>5. (q + 1) * NsPerMs <= m * NsPerMs
        <5>1. m \in Nat
          BY <2>3
        <5> HIDE DEF m
        <5>2. QED
          BY <1>1, <4>3, <4>4, <5>1, ProductGrows
      <4>6. (q + 1) * NsPerMs = NsPerMs * q + NsPerMs /\ NsPerMs * q \in Nat
        BY <1>1, <4>3
      <4>7. f < (q + 1) * NsPerMs
        BY <1>1, <4>1, <4>3, <4>6
      <4>8. QED
        BY <1>1, <2>3, <4>1, <4>3, <4>5, <4>6, <4>7
    <3>3. QED
      BY <3>1, <3>2
  <2>6. QED
    BY <1>2, <1>3, <1>4, <2>3, <2>5
<1>8. QED
  BY <1>6, <1>7

(* A timer stands before another only if its timeout is the earlier or it  *)
(* was started after the other.                                            *)
InStartOrder(list, times, after) ==
    \A i, j \in DOMAIN list : i < j =>
        \/ Ticks(times[list[i]]) < Ticks(times[list[j]])
        \/ list[i] \in after[list[j]]

(* Unlinking, splitting and popping keep the order.                        *)
LEMMA UnlinkOrder ==
    ASSUME NEW list \in Seq(Timer), NEW times, NEW after,
           InStartOrder(list, times, after), NEW t
    PROVE  InStartOrder(Unlink(list, t), times, after)
<1>1. CASE Unlink(list, t) = list
  BY <1>1
<1>2. ASSUME NEW k \in 1..Len(list), Unlink(list, t) = RemoveAt(list, k)
      PROVE  InStartOrder(Unlink(list, t), times, after)
  <2> DEFINE r == RemoveAt(list, k)
  <2>1. /\ r \in Seq(Timer) /\ Len(r) = Len(list) - 1
        /\ \A i \in 1..(Len(list) - 1) : r[i] = IF i < k THEN list[i] ELSE list[i + 1]
    BY RemoveAtProperties
  <2>2. Len(list) \in Nat /\ DOMAIN list = 1..Len(list)
    OBVIOUS
  <2> HIDE DEF r
  <2>3. DOMAIN r = 1..(Len(list) - 1)
    BY <2>1
  <2>4. ASSUME NEW i \in DOMAIN r, NEW j \in DOMAIN r, i < j
        PROVE  Ticks(times[r[i]]) < Ticks(times[r[j]]) \/ r[i] \in after[r[j]]
    <3>1. PICK a \in DOMAIN list : r[i] = list[a] /\ a = (IF i < k THEN i ELSE i + 1)
      BY <2>1, <2>2, <2>3
    <3>2. PICK b \in DOMAIN list : r[j] = list[b] /\ b = (IF j < k THEN j ELSE j + 1)
      BY <2>1, <2>2, <2>3
    <3>3. a < b
      BY <2>3, <2>2, <2>4, <3>1, <3>2
    <3>4. QED
      BY <3>1, <3>2, <3>3, Zenon DEF InStartOrder
  <2>5. QED
    BY <1>2, <2>4, Zenon DEF InStartOrder, r
<1>3. QED
  BY <1>1, <1>2, RemoveFirstCases DEF Unlink

(* A piece of a list in order is in order.                                 *)
LEMMA PieceOrder ==
    ASSUME NEW list \in Seq(Timer), NEW times, NEW after,
           InStartOrder(list, times, after),
           NEW a \in 1..(Len(list) + 1), NEW b \in 0..Len(list)
    PROVE  InStartOrder(SubSeq(list, a, b), times, after)
<1> DEFINE r == SubSeq(list, a, b)
<1>1. Len(list) \in Nat /\ DOMAIN list = 1..Len(list)
  OBVIOUS
<1>2. /\ DOMAIN r = 1..(IF a <= b THEN b - a + 1 ELSE 0)
      /\ \A i \in DOMAIN r : r[i] = list[a + i - 1] /\ a + i - 1 \in DOMAIN list
  BY <1>1
<1> HIDE DEF r
<1>3. ASSUME NEW i \in DOMAIN r, NEW j \in DOMAIN r, i < j
      PROVE  Ticks(times[r[i]]) < Ticks(times[r[j]]) \/ r[i] \in after[r[j]]
  <2>1. a + i - 1 \in DOMAIN list /\ a + j - 1 \in DOMAIN list /\ a + i - 1 < a + j - 1
    BY <1>1, <1>2, <1>3
  <2>2. QED
    BY <1>2, <2>1, Zenon DEF InStartOrder
<1>4. QED
  BY <1>3, Zenon DEF InStartOrder, r

(* A timer that is started anew disturbs no list it has left: it is newer  *)
(* than all others, which keep their timeouts.                             *)
LEMMA OthersOrder ==
    ASSUME NEW list \in Seq(Timer), NEW times, NEW after, NEW later, NEW newer, NEW t,
           InStartOrder(list, times, after), ~ Contains(list, t),
           \A x \in Timer : x # t => later[x] = times[x] /\ after[x] \subseteq newer[x]
    PROVE  InStartOrder(list, later, newer)
<1>1. DOMAIN list = 1..Len(list) /\ \A i \in DOMAIN list : list[i] \in Timer
  OBVIOUS
<1>2. \A i \in DOMAIN list : /\ later[list[i]] = times[list[i]]
                            /\ after[list[i]] \subseteq newer[list[i]]
  BY <1>1, Zenon DEF Contains
<1>3. QED
  BY <1>2, Zenon DEF InStartOrder

(* The timers before the place af_timer_start finds are all earlier.       *)
LEMMA PositionOrder ==
    ASSUME timeout \in [Timer -> Time], NEW list \in Seq(Timer),
           NEW to \in Time, NEW i \in DOMAIN list, i < Position(list, to)
    PROVE  Ticks(timeout[list[i]]) < Ticks(to)
<1> DEFINE later == {j \in DOMAIN list : timediff(to, timeout[list[j]]) <= 0}
           p == Position(list, to)
<1>1. DOMAIN list = 1..Len(list) /\ Len(list) \in Nat /\ timeout[list[i]] \in Time
  OBVIOUS
<1>2. p = IF later = {} THEN Len(list) + 1 ELSE Min(later)
  BY Zenon DEF Position
<1>3. later \in SUBSET Nat
  BY <1>1
<1> HIDE DEF later
<1>4. i \notin later
  <2>1. SUFFICES ASSUME i \in later PROVE FALSE
    OBVIOUS
  <2>2. Min(later) \in Nat /\ Min(later) <= i
    BY <1>3, <2>1, MinOfNaturals
  <2>3. p = Min(later)
    BY <1>2, <2>1
  <2>4. QED
    BY <1>1, <2>2, <2>3
<1>5. ~ (timediff(to, timeout[list[i]]) <= 0)
  BY <1>4 DEF later
<1>6. QED
  BY <1>1, <1>5, LaterByDiff

(* A timer inserted at the place af_timer_start looks for keeps the order. *)
LEMMA InsertOrder ==
    ASSUME timeout \in [Timer -> Time], NEW list \in Seq(Timer), NEW to \in Time,
           NEW t \in Timer, ~ Contains(list, t),
           NEW after, InStartOrder(list, timeout, after),
           NEW times, times[t] = to, NEW newer,
           \A x \in Timer : x # t => times[x] = timeout[x] /\ newer[x] = after[x] \cup {t}
    PROVE  InStartOrder(InsertAt(list, Position(list, to), t), times, newer)
<1> DEFINE p == Position(list, to)
           c == InsertAt(list, p, t)
<1>1. DOMAIN list = 1..Len(list) /\ Len(list) \in Nat /\ p \in 1..(Len(list) + 1)
  BY PositionRange
<1>2. \A i \in DOMAIN list : i < p => Ticks(timeout[list[i]]) < Ticks(to)
  BY PositionOrder
<1> HIDE DEF p
<1>3. /\ Len(c) = Len(list) + 1 /\ c \in Seq(Timer)
      /\ \A i \in 1..(Len(list) + 1) :
            c[i] = IF i < p THEN list[i] ELSE IF i = p THEN t ELSE list[i - 1]
  BY <1>1, InsertAtProperties
<1> HIDE DEF c
<1>4. DOMAIN c = 1..(Len(list) + 1)
  BY <1>3
<1>5. \A i \in DOMAIN list : /\ times[list[i]] = timeout[list[i]]
                            /\ newer[list[i]] = after[list[i]] \cup {t}
  <2>1. \A i \in DOMAIN list : list[i] \in Timer
    OBVIOUS
  <2>2. \A i \in DOMAIN list : list[i] # t
    BY <1>1, Zenon DEF Contains
  <2>3. QED
    BY <2>1, <2>2, Zenon
<1>6. ASSUME NEW i \in DOMAIN c
      PROVE  /\ i < p => i \in DOMAIN list /\ c[i] = list[i]
             /\ i = p => c[i] = t
             /\ i > p => i - 1 \in DOMAIN list /\ c[i] = list[i - 1]
  BY <1>1, <1>3, <1>4
<1>7. ASSUME NEW a \in DOMAIN list, NEW b \in DOMAIN list, a < b
      PROVE  \/ Ticks(times[list[a]]) < Ticks(times[list[b]])
             \/ list[a] \in newer[list[b]]
  <2>1. \/ Ticks(timeout[list[a]]) < Ticks(timeout[list[b]])
        \/ list[a] \in after[list[b]]
    BY <1>7, Zenon DEF InStartOrder
  <2>2. /\ times[list[a]] = timeout[list[a]] /\ times[list[b]] = timeout[list[b]]
        /\ newer[list[b]] = after[list[b]] \cup {t}
    BY <1>5
  <2>3. QED
    BY <2>1, <2>2, Zenon
<1>8. ASSUME NEW i \in DOMAIN c, NEW j \in DOMAIN c, i < j
      PROVE  Ticks(times[c[i]]) < Ticks(times[c[j]]) \/ c[i] \in newer[c[j]]
  <2>1. i \in Nat /\ j \in Nat /\ p \in Nat
    BY <1>1, <1>4
  <2>2. CASE j < p
    <3>1. i \in DOMAIN list /\ c[i] = list[i] /\ j \in DOMAIN list /\ c[j] = list[j]
      BY <1>6, <1>8, <2>1, <2>2
    <3>2. QED
      BY <1>7, <1>8, <3>1
  <2>3. CASE j = p
    <3>1. i \in DOMAIN list /\ c[i] = list[i] /\ c[j] = t /\ i < p
      BY <1>6, <1>8, <2>1, <2>3
    <3>2. times[c[i]] = timeout[list[i]] /\ times[c[j]] = to
      BY <1>5, <3>1
    <3>3. Ticks(times[c[i]]) < Ticks(times[c[j]])
      BY <1>2, <3>1, <3>2
    <3>4. QED
      BY <3>3
  <2>4. CASE i = p
    <3>1. c[i] = t /\ j - 1 \in DOMAIN list /\ c[j] = list[j - 1]
      BY <1>6, <1>8, <2>1, <2>4
    <3>2. t \in newer[list[j - 1]]
      BY <1>5, <3>1
    <3>3. QED
      BY <3>1, <3>2
  <2>5. CASE i > p
    <3>1. /\ i - 1 \in DOMAIN list /\ c[i] = list[i - 1]
          /\ j - 1 \in DOMAIN list /\ c[j] = list[j - 1] /\ i - 1 < j - 1
      BY <1>6, <1>8, <2>1, <2>5
    <3>2. QED
      BY <1>7, <3>1
  <2>6. CASE i < p /\ j > p
    <3>1. /\ i \in DOMAIN list /\ c[i] = list[i]
          /\ j - 1 \in DOMAIN list /\ c[j] = list[j - 1] /\ i < j - 1
      BY <1>6, <2>1, <2>6
    <3>2. QED
      BY <1>7, <3>1
  <2>7. QED
    BY <1>8, <2>1, <2>2, <2>3, <2>4, <2>5, <2>6
<1>9. QED
  BY <1>8, Zenon DEF InStartOrder, c, p

OrderInv ==
    /\ Linked
    /\ InStartOrder(head, timeout, since) /\ InStartOrder(expired, timeout, since)

(* Every step of TimerOrder is one of AppfTimer.                           *)
LEMMA OrderRefines == [OrderNext]_orderVars => [Next]_vars
BY Zenon DEF OrderNext, orderVars, Next, vars

(* Every step keeps both lists in order.                                   *)
LEMMA OrderInvStep ==
    ASSUME TypeOK, OrderInv, [OrderNext]_orderVars
    PROVE  OrderInv'
<1>1. /\ Linked /\ Linked'
      /\ InStartOrder(head, timeout, since) /\ InStartOrder(expired, timeout, since)
      /\ head \in Seq(Timer) /\ expired \in Seq(Timer) /\ clock \in Nat
      /\ timeout \in [Timer -> Time]
      /\ IsInjective(head) /\ IsInjective(expired)
  <2>1. Linked'
    BY OrderRefines, LinkedStep DEF OrderInv
  <2>2. QED
    BY <2>1, Zenon DEF OrderInv, TypeOK, Linked, LinkedOnce
<1>2. ASSUME UNCHANGED <<timeout, since>>,
             InStartOrder(head', timeout, since), InStartOrder(expired', timeout, since)
      PROVE  OrderInv'
  BY <1>1, <1>2, Zenon DEF OrderInv, InStartOrder, Ticks
<1>3. ASSUME NEW t \in Timer, NEW d \in Delay, af_timer_start(t, d),
             since' = [u \in Timer |-> IF u = t THEN {} ELSE since[u] \cup {t}]
      PROVE  OrderInv'
  <2> DEFINE active == IF running[t] THEN Unlink(head, t) ELSE head
             waiting == IF running[t] THEN Unlink(expired, t) ELSE expired
             to == TimeoutAfter(d)
  <2>1. /\ timeout' = [timeout EXCEPT ![t] = to]
        /\ head' = InsertAt(active, Position(active, to), t)
        /\ expired' = waiting
    BY <1>3, Zenon DEF af_timer_start
  <2>2. to \in Time
    BY <1>1, TimeoutType
  <2>3. /\ active \in Seq(Timer) /\ InStartOrder(active, timeout, since)
        /\ ~ Contains(active, t)
    <3>1. CASE running[t]
      <4>1. active = Unlink(head, t)
        BY <3>1
      <4>2. Unlink(head, t) \in Seq(Timer) /\ ~ Contains(Unlink(head, t), t)
        BY <1>1, RemoveFirstInjective, Zenon DEF Unlink
      <4>3. QED
        BY <1>1, <4>1, <4>2, UnlinkOrder
    <3>2. CASE ~ running[t]
      BY <1>1, <3>2, Zenon DEF Linked
    <3>3. QED
      BY <3>1, <3>2
  <2>4. /\ waiting \in Seq(Timer) /\ InStartOrder(waiting, timeout, since)
        /\ ~ Contains(waiting, t)
    <3>1. CASE running[t]
      <4>1. waiting = Unlink(expired, t)
        BY <3>1
      <4>2. Unlink(expired, t) \in Seq(Timer) /\ ~ Contains(Unlink(expired, t), t)
        BY <1>1, RemoveFirstInjective, Zenon DEF Unlink
      <4>3. QED
        BY <1>1, <4>1, <4>2, UnlinkOrder
    <3>2. CASE ~ running[t]
      BY <1>1, <3>2, Zenon DEF Linked
    <3>3. QED
      BY <3>1, <3>2
  <2> HIDE DEF active, waiting, to
  <2>5. PICK times, newer : times = timeout' /\ newer = since'
    OBVIOUS
  <2>6. /\ times[t] = to
        /\ \A x \in Timer : x # t => times[x] = timeout[x] /\ newer[x] = since[x] \cup {t}
    BY <1>1, <1>3, <2>1, <2>5
  <2>7. InStartOrder(InsertAt(active, Position(active, to), t), times, newer)
    BY <1>1, <2>2, <2>3, <2>6, InsertOrder
  <2>8. InStartOrder(waiting, times, newer)
    <3>1. \A x \in Timer : x # t => times[x] = timeout[x] /\ since[x] \subseteq newer[x]
      BY <2>6
    <3>2. QED
      BY <2>4, <3>1, OthersOrder
  <2>9. QED
    BY <1>1, <2>1, <2>5, <2>7, <2>8, Zenon DEF OrderInv, InStartOrder, Ticks
<1>4. ASSUME NEW t \in Timer, af_timer_stop(t), UNCHANGED since
      PROVE  OrderInv'
  <2>1. head' = Unlink(head, t) /\ expired' = Unlink(expired, t) /\ timeout' = timeout
    BY <1>4 DEF af_timer_stop
  <2>2. InStartOrder(head', timeout, since) /\ InStartOrder(expired', timeout, since)
    BY <1>1, <2>1, UnlinkOrder
  <2>3. QED
    BY <1>2, <1>4, <2>1, <2>2
<1>5. CASE CheckBegin /\ UNCHANGED since
  <2>1. /\ expired' = SubSeq(head, 1, DuePrefix(head)) /\ timeout' = timeout
        /\ head' = SubSeq(head, DuePrefix(head) + 1, Len(head))
    BY <1>5 DEF CheckBegin
  <2>2. DuePrefix(head) \in 0..Len(head) /\ Len(head) \in Nat
    BY <1>1, DuePrefixRange
  <2>3. /\ DuePrefix(head) + 1 \in 1..(Len(head) + 1) /\ 1 \in 1..(Len(head) + 1)
        /\ Len(head) \in 0..Len(head)
    BY <2>2
  <2>4. InStartOrder(head', timeout, since) /\ InStartOrder(expired', timeout, since)
    BY <1>1, <2>1, <2>2, <2>3, PieceOrder
  <2>5. QED
    BY <1>2, <1>5, <2>1, <2>4
<1>6. CASE CheckCalls /\ UNCHANGED since
  <2>1. expired # <<>> /\ expired' = Tail(expired) /\ head' = head /\ timeout' = timeout
    BY <1>6 DEF CheckCalls
  <2>2. /\ Tail(expired) = SubSeq(expired, 2, Len(expired)) /\ Len(expired) \in Nat
        /\ Len(expired) >= 1
    BY <1>1, <2>1
  <2>3. 2 \in 1..(Len(expired) + 1) /\ Len(expired) \in 0..Len(expired)
    BY <2>2
  <2>4. InStartOrder(expired', timeout, since)
    BY <1>1, <2>1, <2>2, <2>3, PieceOrder
  <2>5. QED
    BY <1>1, <1>2, <1>6, <2>1, <2>4
<1>7. CASE (Tick \/ CallbackReturn \/ CheckReturn \/ UNCHANGED vars) /\ UNCHANGED since
  <2>1. UNCHANGED <<head, expired, timeout, since>>
    BY <1>7, Zenon DEF Tick, CallbackReturn, CheckReturn, vars
  <2>2. QED
    BY <1>1, <1>2, <2>1
<1>8. QED
  BY <1>3, <1>4, <1>5, <1>6, <1>7, Zenon DEF OrderNext, orderVars

(* Types and order hold throughout, however deep checks nest.              *)
LEMMA OrderInvCorrect == OrderSpec => []TypeOK /\ []OrderInv
<1>1. OrderInit => Init /\ OrderInv
  <2>1. SUFFICES ASSUME OrderInit PROVE OrderInv
    BY DEF OrderInit
  <2>2. head = <<>> /\ expired = <<>>
    BY <2>1 DEF OrderInit, Init
  <2>3. IsInjective(<<>>) /\ \A t : ~ Contains(<<>>, t)
    BY DEF IsInjective, Contains
  <2>4. DOMAIN <<>> = {}
    OBVIOUS
  <2>5. QED
    BY <2>2, <2>3, <2>4, Zenon DEF OrderInv, Linked, LinkedOnce, InStartOrder
<1>2. TypeOK /\ OrderInv /\ [OrderNext]_orderVars => OrderInv'
  BY OrderInvStep
<1>3. OrderSpec => Spec
  BY <1>1, OrderRefines, PTL DEF OrderSpec, Spec
<1>4. QED
  BY <1>1, <1>2, <1>3, TypeCorrect, PTL DEF OrderSpec

(* At every resolution and however deep checks nest: a timer is called     *)
(* back before another expired one only when its timeout is the earlier or *)
(* it was started after the other.                                         *)
THEOREM OrderKept == OrderSpec => CalledInOrder
<1>1. ASSUME TypeOK, OrderInv, CheckCalls, NEW i \in DOMAIN expired \ {1}
      PROVE  \/ Ticks(timeout[Head(expired)]) < Ticks(timeout[expired[i]])
             \/ Head(expired) \in since[expired[i]]
  <2>1. expired \in Seq(Timer) /\ expired # <<>> /\ InStartOrder(expired, timeout, since)
    BY <1>1 DEF TypeOK, CheckCalls, OrderInv
  <2>2. 1 \in DOMAIN expired /\ i \in DOMAIN expired /\ 1 < i /\ Head(expired) = expired[1]
    BY <1>1, <2>1
  <2>3. QED
    BY <2>1, <2>2, Zenon DEF InStartOrder
<1>2. TypeOK /\ OrderInv /\ [OrderNext]_orderVars =>
        [CheckCalls => \A i \in DOMAIN expired \ {1} :
                          \/ Ticks(timeout[Head(expired)]) < Ticks(timeout[expired[i]])
                          \/ Head(expired) \in since[expired[i]]]_orderVars
  BY <1>1, Zenon
<1>3. QED
  BY <1>2, OrderInvCorrect, PTL DEF CalledInOrder, OrderSpec

(* At every resolution and however deep checks nest: a due timer is left   *)
(* in the list only behind one that is not due and was started after it.   *)
THEOREM DueInOrder == OrderSpec => CollectedInOrder
<1>1. ASSUME TypeOK, OrderInv, CheckBegin, NEW i \in DOMAIN head'
      PROVE  \/ Ticks(timeout[head'[i]]) > clock
             \/ i > 1 /\ head'[1] \in since[head'[i]]
  <2> DEFINE k == DuePrefix(head)
             later == {j \in DOMAIN head : timediff(timeout[head[j]], Now) > 0}
  <2>1. /\ head \in Seq(Timer) /\ timeout \in [Timer -> Time] /\ clock \in Nat
        /\ InStartOrder(head, timeout, since)
        /\ head' = SubSeq(head, k + 1, Len(head))
    BY <1>1 DEF TypeOK, CheckBegin, OrderInv
  <2>2. Len(head) \in Nat /\ DOMAIN head = 1..Len(head) /\ k \in 0..Len(head)
    BY <2>1, DuePrefixRange
  <2>3. k = IF later = {} THEN Len(head) ELSE Min(later) - 1
    BY Zenon DEF DuePrefix
  <2>4. later \in SUBSET Nat
    BY <2>2
  <2> HIDE DEF later, k
  <2>5. i \in 1..(Len(head) - k) /\ head'[i] = head[k + i] /\ head'[1] = head[k + 1]
    BY <1>1, <2>1, <2>2
  <2>6. later # {}
    <3> DEFINE n == Len(head)
    <3>1. n \in Nat /\ k \in 0..n /\ i \in 1..(n - k)
      BY <2>2, <2>5
    <3> HIDE DEF n
    <3>2. k # n
      BY <3>1
    <3>3. QED
      BY <2>3, <3>2 DEF n
  <2>7. k + 1 \in later
    <3>1. Min(later) \in later
      BY <2>4, <2>6, MinOfNaturals
    <3>2. PICK m \in Nat : m = Min(later)
      BY <2>4, <3>1
    <3>3. k = m - 1
      BY <2>3, <2>6, <3>2
    <3>4. k + 1 = m
      BY <3>3
    <3>5. QED
      BY <3>1, <3>2, <3>4
  <2>8. k + 1 \in DOMAIN head /\ k + i \in DOMAIN head
    BY <2>2, <2>5
  <2> DEFINE x == timeout[head[k + 1]]
             z == timeout[head[k + i]]
  <2>9. x \in Time /\ z \in Time /\ Ticks(x) \in Nat /\ Ticks(z) \in Nat
    <3>1. head[k + 1] \in Timer /\ head[k + i] \in Timer
      BY <2>1, <2>8
    <3>2. QED
      BY <2>1, <3>1, TicksType
  <2>10. timediff(x, Now) > 0
    BY <2>7 DEF later
  <2>11. Now \in Time /\ Ticks(Now) = clock
    BY <2>1, NowType, NowTicks
  <2>12. clock < Ticks(x)
    BY <2>9, <2>10, <2>11, LaterByDiff
  <2>13. CASE i = 1
    <3>1. Ticks(timeout[head'[i]]) = Ticks(x)
      BY <2>5, <2>13
    <3> HIDE DEF x
    <3>2. Ticks(timeout[head'[i]]) > clock
      BY <2>1, <2>9, <2>12, <3>1
    <3>3. QED
      BY <3>2
  <2>14. CASE i # 1
    <3>1. k + 1 < k + i /\ i > 1
      BY <2>2, <2>5, <2>14
    <3>2. Ticks(x) < Ticks(z) \/ head[k + 1] \in since[head[k + i]]
      BY <2>1, <2>8, <3>1, Zenon DEF InStartOrder
    <3>3. CASE Ticks(x) < Ticks(z)
      <4>1. Ticks(timeout[head'[i]]) = Ticks(z)
        BY <2>5
      <4> HIDE DEF x, z
      <4>2. Ticks(timeout[head'[i]]) > clock
        BY <2>1, <2>9, <2>12, <3>3, <4>1
      <4>3. QED
        BY <4>2
    <3>4. CASE head[k + 1] \in since[head[k + i]]
      BY <2>5, <3>1, <3>4
    <3>5. QED
      BY <3>2, <3>3, <3>4
  <2>15. QED
    BY <2>13, <2>14
<1>2. TypeOK /\ OrderInv /\ [OrderNext]_orderVars =>
        [CheckBegin => \A i \in DOMAIN head' :
                          \/ Ticks(timeout[head'[i]]) > clock
                          \/ i > 1 /\ head'[1] \in since[head'[i]]]_orderVars
  BY <1>1, Zenon
<1>3. QED
  BY <1>2, OrderInvCorrect, PTL DEF CollectedInOrder, OrderSpec
=============================================================================
