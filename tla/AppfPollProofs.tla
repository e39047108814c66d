--------------------------- MODULE AppfPollProofs ---------------------------
(***************************************************************************)
(* Theorems about the poll list and the dispatch loop of appf_poll.c, for  *)
(* every set of descriptors and contexts, every MAX_FDS and, where it says *)
(* so, every use of the interface by callbacks.                            *)
(***************************************************************************)
EXTENDS AppfPoll, SeqLemmas, FiniteSetTheorems

Entry == PollEntry(Fd, Ctx)

USE MaxFdsAssumption, AppAssumption

-----------------------------------------------------------------------------
(* The list, whatever its entries are: what linking and unlinking an entry *)
(* leaves, and that descriptors stay distinct and no more than MAX_FDS.    *)

(* af_poll_rem unlinks one entry of the descriptor, or finds none.         *)
LEMMA RemEntryCases ==
    ASSUME NEW S, NEW list \in Seq(S), NEW fd
    PROVE  \/ RemEntry(list, fd) = list /\ ~ Listed(list, fd)
           \/ \E k \in 1..Len(list) :
                 list[k].fd = fd /\ RemEntry(list, fd) = RemoveAt(list, k)
<1> DEFINE I == {i \in 1..Len(list) : list[i].fd = fd}
<1>1. DOMAIN list = 1..Len(list) /\ Len(list) \in Nat
  OBVIOUS
<1>2. CASE I = {}
  BY <1>1, <1>2, Zenon DEF RemEntry, RemoveFirstMatch, Listed
<1>3. CASE I # {}
  <2>1. I \in SUBSET Nat
    BY <1>1
  <2>2. Min(I) \in I
    BY <1>3, <2>1, MinOfNaturals, Zenon
  <2>3. RemEntry(list, fd) = RemoveAt(list, Min(I))
    BY <1>3, Zenon DEF RemEntry, RemoveFirstMatch, SelectInSeq
  <2>4. QED
    BY <2>2, <2>3, Zenon
<1>4. QED
  BY <1>2, <1>3

(* af_poll_add links a new head or changes nothing.                        *)
LEMMA AddEntryCases ==
    ASSUME NEW S, NEW list \in Seq(S), NEW e \in S
    PROVE  \/ AddEntry(list, e) = list
           \/ /\ AddEntry(list, e) = <<e>> \o list
              /\ \A i \in 1..Len(list) : list[i].fd # e.fd
              /\ Len(list) < MaxFds
<1>1. DOMAIN list = 1..Len(list) /\ Len(list) \in Nat /\ MaxFds \in Nat
  OBVIOUS
<1>2. CASE AddResult(list, e.fd) = 0
  <2>1. ~ Listed(list, e.fd) /\ ~ (Len(list) >= MaxFds)
    BY <1>2 DEF AddResult
  <2>2. AddEntry(list, e) = <<e>> \o list
    BY <1>2, Zenon DEF AddEntry
  <2>3. \A i \in 1..Len(list) : list[i].fd # e.fd
    BY <1>1, <2>1, Zenon DEF Listed
  <2>4. Len(list) < MaxFds
    BY <1>1, <2>1
  <2>5. QED
    BY <2>2, <2>3, <2>4
<1>3. CASE AddResult(list, e.fd) # 0
  BY <1>3 DEF AddEntry
<1>4. QED
  BY <1>2, <1>3

(* Both operations on the list return a list.                              *)
LEMMA ListTypes ==
    ASSUME NEW S, NEW list \in Seq(S)
    PROVE  /\ \A fd : RemEntry(list, fd) \in Seq(S)
           /\ \A e \in S : AddEntry(list, e) \in Seq(S)
<1>1. ASSUME NEW fd PROVE RemEntry(list, fd) \in Seq(S)
  <2>1. ASSUME NEW k \in 1..Len(list) PROVE RemoveAt(list, k) \in Seq(S)
    BY RemoveAtProperties
  <2>2. \/ RemEntry(list, fd) = list
        \/ \E k \in 1..Len(list) : RemEntry(list, fd) = RemoveAt(list, k)
    BY RemEntryCases
  <2>3. QED
    BY <2>1, <2>2, Zenon
<1>2. ASSUME NEW e \in S PROVE AddEntry(list, e) \in Seq(S)
  <2>1. <<e>> \o list \in Seq(S)
    BY ConsProperties
  <2>2. QED
    BY <2>1, AddEntryCases, Zenon
<1>3. QED
  BY <1>1, <1>2, Zenon

(* The copy a run makes is the front of the list, cut off at MaxFds.       *)
LEMMA SnapshotProperties ==
    ASSUME NEW S, NEW list \in Seq(S)
    PROVE  /\ Snapshot(list) \in Seq(S)
           /\ Len(Snapshot(list)) <= MaxFds
           /\ Len(Snapshot(list)) <= Len(list)
           /\ \A i \in 1..Len(Snapshot(list)) : Snapshot(list)[i] = list[i]
<1> DEFINE m == IF Len(list) <= MaxFds THEN Len(list) ELSE MaxFds
<1>1. /\ m \in Nat /\ m <= MaxFds /\ m <= Len(list)
      /\ Len(list) \in Nat /\ MaxFds \in Nat
      /\ \A i \in 1..m : list[i] \in S
  OBVIOUS
<1>2. Snapshot(list) = SubSeq(list, 1, m)
  BY Zenon DEF Snapshot
<1> HIDE DEF m
<1> DEFINE t == SubSeq(list, 1, m)
<1>3. /\ t \in Seq(S)
      /\ Len(t) = IF 1 <= m THEN m - 1 + 1 ELSE 0
      /\ \A i \in 1..(m - 1 + 1) : t[i] = list[1 + i - 1]
  BY <1>1, SubSeqProperties
<1> HIDE DEF t
<1>4. /\ Len(t) = m
      /\ \A i \in 1..m : t[i] = list[i]
  BY <1>1, <1>3
<1>5. /\ t \in Seq(S)
      /\ Len(t) <= MaxFds
      /\ Len(t) <= Len(list)
      /\ \A i \in 1..Len(t) : t[i] = list[i]
  BY <1>1, <1>3, <1>4
<1>6. QED
  BY <1>2, <1>5, Zenon DEF t

(* Adding an entry keeps one entry for a descriptor and at most MaxFds of  *)
(* them.                                                                   *)
LEMMA AddKeepsRegistry ==
    ASSUME NEW S, NEW list \in Seq(S), NEW e \in S, Len(list) <= MaxFds,
           \A i, j \in DOMAIN list : list[i].fd = list[j].fd => i = j
    PROVE  /\ Len(AddEntry(list, e)) <= MaxFds
           /\ \A i, j \in DOMAIN AddEntry(list, e) :
                 AddEntry(list, e)[i].fd = AddEntry(list, e)[j].fd => i = j
<1> DEFINE c == <<e>> \o list
<1>1. CASE AddEntry(list, e) = list
  BY <1>1, Zenon
<1>2. CASE /\ AddEntry(list, e) = c
           /\ \A i \in 1..Len(list) : list[i].fd # e.fd
           /\ Len(list) < MaxFds
  <2>1. /\ c \in Seq(S)
        /\ Len(c) = Len(list) + 1
        /\ c[1] = e
        /\ \A i \in 1..Len(list) : c[i + 1] = list[i]
    BY ConsProperties
  <2>2. DOMAIN c = 1..(Len(list) + 1) /\ Len(list) \in Nat
        /\ DOMAIN list = 1..Len(list) /\ MaxFds \in Nat
    BY <2>1
  <2> HIDE DEF c
  <2>3. \A i \in 2..(Len(list) + 1) : i - 1 \in 1..Len(list) /\ c[i] = list[i - 1]
    BY <2>1, <2>2
  <2>4. ASSUME NEW i \in DOMAIN c, NEW j \in DOMAIN c, c[i].fd = c[j].fd
        PROVE  i = j
    <3>1. ASSUME NEW m \in DOMAIN c, m # 1 PROVE c[m].fd # e.fd
      <4>1. m \in 2..(Len(list) + 1)
        BY <2>2, <3>1
      <4>2. m - 1 \in 1..Len(list) /\ c[m] = list[m - 1]
        BY <2>3, <4>1
      <4>3. list[m - 1].fd # e.fd
        BY <1>2, <4>2
      <4>4. QED
        BY <4>2, <4>3
    <3>2. CASE i = 1 \/ j = 1
      BY <2>1, <2>4, <3>1, <3>2
    <3>3. CASE i # 1 /\ j # 1
      <4>1. i \in 2..(Len(list) + 1) /\ j \in 2..(Len(list) + 1)
        BY <2>2, <3>3
      <4>2. i - 1 = j - 1
        BY <2>2, <2>3, <2>4, <4>1
      <4>3. QED
        BY <4>1, <4>2
    <3>4. QED
      BY <3>2, <3>3
  <2>5. Len(c) <= MaxFds
    BY <1>2, <2>1, <2>2
  <2>6. QED
    BY <1>2, <2>4, <2>5, Zenon
<1>3. \/ AddEntry(list, e) = list
      \/ /\ AddEntry(list, e) = c
         /\ \A i \in 1..Len(list) : list[i].fd # e.fd
         /\ Len(list) < MaxFds
  BY AddEntryCases
<1>4. QED
  BY <1>1, <1>2, <1>3, Zenon

(* So does removing one.                                                   *)
LEMMA RemKeepsRegistry ==
    ASSUME NEW S, NEW list \in Seq(S), NEW fd, Len(list) <= MaxFds,
           \A i, j \in DOMAIN list : list[i].fd = list[j].fd => i = j
    PROVE  /\ Len(RemEntry(list, fd)) <= MaxFds
           /\ \A i, j \in DOMAIN RemEntry(list, fd) :
                 RemEntry(list, fd)[i].fd = RemEntry(list, fd)[j].fd => i = j
<1>1. CASE RemEntry(list, fd) = list
  BY <1>1, Zenon
<1>2. CASE \E k \in 1..Len(list) : RemEntry(list, fd) = RemoveAt(list, k)
  <2>1. PICK k \in 1..Len(list) : RemEntry(list, fd) = RemoveAt(list, k)
    BY <1>2
  <2> DEFINE r == RemoveAt(list, k)
  <2>2. /\ r \in Seq(S)
        /\ Len(r) = Len(list) - 1
        /\ \A i \in 1..(Len(list) - 1) :
              r[i] = IF i < k THEN list[i] ELSE list[i + 1]
    BY RemoveAtProperties
  <2>3. DOMAIN r = 1..(Len(list) - 1) /\ Len(list) \in Nat
        /\ DOMAIN list = 1..Len(list) /\ MaxFds \in Nat
    BY <2>2
  <2> HIDE DEF r
  <2>4. ASSUME NEW i \in DOMAIN r, NEW j \in DOMAIN r, r[i].fd = r[j].fd
        PROVE  i = j
    <3>1. PICK a \in 1..Len(list) : r[i] = list[a]
                                    /\ a = (IF i < k THEN i ELSE i + 1)
      BY <2>2, <2>3, SMTT(30)
    <3>2. PICK b \in 1..Len(list) : r[j] = list[b]
                                    /\ b = (IF j < k THEN j ELSE j + 1)
      BY <2>2, <2>3, SMTT(30)
    <3>3. a = b
      BY <2>3, <2>4, <3>1, <3>2
    <3>4. QED
      BY <2>3, <3>1, <3>2, <3>3
  <2>5. Len(r) <= MaxFds
    BY <2>2, <2>3
  <2>6. QED
    BY <2>1, <2>4, <2>5, Zenon DEF r
<1>3. QED
  BY <1>1, <1>2, RemEntryCases

(* Adding an entry loses none of the others.                               *)
LEMMA AddKeepsEntries ==
    ASSUME NEW S, NEW list \in Seq(S), NEW e \in S, NEW j \in DOMAIN list
    PROVE  \E m \in DOMAIN AddEntry(list, e) : AddEntry(list, e)[m] = list[j]
<1> DEFINE c == <<e>> \o list
<1>1. CASE AddEntry(list, e) = list
  BY <1>1, Zenon
<1>2. CASE AddEntry(list, e) = c
  <2>1. /\ c \in Seq(S)
        /\ Len(c) = Len(list) + 1
        /\ \A i \in 1..Len(list) : c[i + 1] = list[i]
    BY ConsProperties
  <2>2. j \in 1..Len(list) /\ Len(list) \in Nat /\ DOMAIN c = 1..(Len(list) + 1)
    BY <2>1
  <2> HIDE DEF c
  <2>3. j + 1 \in DOMAIN c /\ c[j + 1] = list[j]
    BY <2>1, <2>2
  <2>4. QED
    BY <1>2, <2>3, Zenon
<1>3. QED
  BY <1>1, <1>2, AddEntryCases

(* Removing a descriptor loses no entry of another one.                    *)
LEMMA RemKeepsOthers ==
    ASSUME NEW S, NEW list \in Seq(S), NEW fd, NEW j \in DOMAIN list,
           list[j].fd # fd
    PROVE  \E m \in DOMAIN RemEntry(list, fd) : RemEntry(list, fd)[m] = list[j]
<1>1. CASE RemEntry(list, fd) = list
  BY <1>1, Zenon
<1>2. CASE \E k \in 1..Len(list) :
              list[k].fd = fd /\ RemEntry(list, fd) = RemoveAt(list, k)
  <2>1. PICK k \in 1..Len(list) :
           list[k].fd = fd /\ RemEntry(list, fd) = RemoveAt(list, k)
    BY <1>2
  <2>2. j \in 1..Len(list) /\ j # k
    BY <2>1
  <2>3. PICK m \in 1..Len(RemoveAt(list, k)) : RemoveAt(list, k)[m] = list[j]
    BY <2>2, RemoveAtContents
  <2>4. m \in DOMAIN RemoveAt(list, k)
    BY RemoveAtProperties
  <2>5. QED
    BY <2>1, <2>3, <2>4, Zenon
<1>3. QED
  BY <1>1, <1>2, RemEntryCases

(* What the list holds after an entry was added or removed.                *)
LEMMA AddedEntries ==
    ASSUME NEW S, NEW list \in Seq(S), NEW e \in S,
           NEW i \in DOMAIN AddEntry(list, e)
    PROVE  \/ AddEntry(list, e)[i] = e
           \/ \E j \in DOMAIN list : AddEntry(list, e)[i] = list[j]
<1> DEFINE c == <<e>> \o list
<1>1. CASE AddEntry(list, e) = list
  BY <1>1
<1>2. CASE AddEntry(list, e) = c
  <2>1. /\ c \in Seq(S) /\ Len(c) = Len(list) + 1 /\ c[1] = e
        /\ \A j \in 1..Len(list) : c[j + 1] = list[j]
    BY ConsProperties
  <2>2. i \in DOMAIN c
    BY <1>2
  <2> HIDE DEF c
  <2>3. DOMAIN c = 1..(Len(list) + 1) /\ DOMAIN list = 1..Len(list) /\ Len(list) \in Nat
    BY <2>1
  <2>4. CASE i = 1
    BY <1>2, <2>1, <2>4
  <2>5. CASE i # 1
    <3>1. i - 1 \in DOMAIN list /\ (i - 1) + 1 = i
      BY <2>2, <2>3, <2>5
    <3>2. c[i] = list[i - 1]
      BY <2>1, <2>3, <3>1
    <3>3. QED
      BY <1>2, <3>1, <3>2
  <2>6. QED
    BY <2>4, <2>5
<1>3. AddEntry(list, e) = list \/ AddEntry(list, e) = c
  BY AddEntryCases
<1>4. QED
  BY <1>1, <1>2, <1>3, Zenon

(* What remains after a removal was there before, and is not of the        *)
(* removed descriptor.                                                     *)
LEMMA RemainingEntries ==
    ASSUME NEW S, NEW list \in Seq(S), NEW fd,
           \A i, j \in DOMAIN list : list[i].fd = list[j].fd => i = j,
           NEW i \in DOMAIN RemEntry(list, fd)
    PROVE  /\ RemEntry(list, fd)[i].fd # fd
           /\ \E j \in DOMAIN list : RemEntry(list, fd)[i] = list[j]
<1>1. CASE RemEntry(list, fd) = list /\ ~ Listed(list, fd)
  BY <1>1 DEF Listed
<1>2. ASSUME NEW k \in 1..Len(list), list[k].fd = fd,
             RemEntry(list, fd) = RemoveAt(list, k)
      PROVE  /\ RemEntry(list, fd)[i].fd # fd
             /\ \E j \in DOMAIN list : RemEntry(list, fd)[i] = list[j]
  <2> DEFINE r == RemoveAt(list, k)
  <2>1. /\ r \in Seq(S) /\ Len(r) = Len(list) - 1
        /\ \A j \in 1..(Len(list) - 1) : r[j] = IF j < k THEN list[j] ELSE list[j + 1]
    BY RemoveAtProperties
  <2>2. i \in DOMAIN r
    BY <1>2
  <2>3. DOMAIN list = 1..Len(list) /\ Len(list) \in Nat /\ k \in DOMAIN list
    OBVIOUS
  <2> HIDE DEF r
  <2>4. DOMAIN r = 1..(Len(list) - 1)
    BY <2>1
  <2>5. PICK j \in DOMAIN list : r[i] = list[j] /\ j # k
    <3>1. CASE i < k
      <4>1. i \in DOMAIN list /\ i # k
        BY <2>2, <2>3, <2>4, <3>1
      <4>2. r[i] = list[i]
        BY <2>1, <2>2, <2>4, <3>1
      <4>3. QED
        BY <4>1, <4>2
    <3>2. CASE ~ (i < k)
      <4>1. i + 1 \in DOMAIN list /\ i + 1 # k
        BY <2>2, <2>3, <2>4, <3>2
      <4>2. r[i] = list[i + 1]
        BY <2>1, <2>2, <2>4, <3>2
      <4>3. QED
        BY <4>1, <4>2
    <3>3. QED
      BY <3>1, <3>2
  <2>6. list[j].fd # fd
    BY <1>2, <2>3, <2>5
  <2>7. QED
    BY <1>2, <2>5, <2>6 DEF r
<1>3. QED
  BY <1>1, <1>2, RemEntryCases

-----------------------------------------------------------------------------
(* Type correctness.  StackOK is what TypeOK says of each activation.      *)
StackOK(rs) ==
    \A k \in DOMAIN rs :
        /\ rs[k].due \subseteq DOMAIN rs[k].apfds
        /\ rs[k].cur \in {0} \cup DOMAIN rs[k].apfds
        /\ k < Len(rs) => rs[k].cur # 0

(* Replacing the innermost activation keeps the stack well formed.         *)
LEMMA SetTopType ==
    ASSUME TypeOK, runs # <<>>, NEW r \in Run, SetTop(r),
           r.due \subseteq DOMAIN r.apfds,
           r.cur \in {0} \cup DOMAIN r.apfds
    PROVE  /\ runs' \in Seq(Run)
           /\ Len(runs') = Len(runs)
           /\ \A k \in 1..(Len(runs) - 1) : runs'[k] = runs[k]
           /\ runs'[Len(runs)] = r
           /\ StackOK(runs')
<1>1. runs \in Seq(Run) /\ StackOK(runs)
  BY DEF TypeOK, StackOK
<1>2. /\ runs' \in Seq(Run)
      /\ Len(runs') = Len(runs)
      /\ \A k \in 1..(Len(runs) - 1) : runs'[k] = runs[k]
      /\ runs'[Len(runs)] = r
  <2>1. runs' = Front(runs) \o <<r>>
    BY Zenon DEF SetTop
  <2>2. /\ Front(runs) \o <<r>> \in Seq(Run)
        /\ Len(Front(runs) \o <<r>>) = Len(runs)
        /\ \A k \in 1..(Len(runs) - 1) : (Front(runs) \o <<r>>)[k] = runs[k]
        /\ (Front(runs) \o <<r>>)[Len(runs)] = r
    BY <1>1, ReplaceTopProperties
  <2>3. QED
    BY <2>1, <2>2, Zenon
<1>3. /\ DOMAIN runs = 1..Len(runs) /\ DOMAIN runs' = 1..Len(runs')
      /\ Len(runs) \in Nat
  BY <1>1, <1>2
<1>4. SUFFICES ASSUME NEW k \in DOMAIN runs'
               PROVE  /\ runs'[k].due \subseteq DOMAIN runs'[k].apfds
                      /\ runs'[k].cur \in {0} \cup DOMAIN runs'[k].apfds
                      /\ k < Len(runs') => runs'[k].cur # 0
  BY <1>2, Zenon DEF StackOK
<1>5. CASE k = Len(runs)
  BY <1>2, <1>5
<1>6. CASE k # Len(runs)
  <2>1. k \in DOMAIN runs /\ k < Len(runs) /\ runs'[k] = runs[k]
    BY <1>2, <1>3, <1>6
  <2>2. QED
    BY <1>1, <2>1, Zenon DEF StackOK
<1>7. QED
  BY <1>5, <1>6

(* The update of the innermost activation when a callback returns.         *)
LEMMA RunUpdate ==
    ASSUME NEW r \in Run
    PROVE  [r EXCEPT !.cur = 0] = [apfds |-> r.apfds, due |-> r.due, cur |-> 0]
  BY DEF Run

(* The innermost activation is a run, and its indices lie within its copy. *)
LEMMA TopType ==
    ASSUME TypeOK, runs # <<>>
    PROVE  /\ Last(runs) = runs[Len(runs)]
           /\ Len(runs) \in DOMAIN runs
           /\ Last(runs) \in Run
           /\ Last(runs).due \subseteq DOMAIN Last(runs).apfds
           /\ Last(runs).cur \in {0} \cup DOMAIN Last(runs).apfds
<1>1. runs \in Seq(Run) /\ StackOK(runs)
  BY DEF TypeOK, StackOK
<1>2. /\ Last(runs) = runs[Len(runs)] /\ Last(runs) \in Run
      /\ Len(runs) \in Nat /\ Len(runs) >= 1
  BY <1>1, FrontProperties, Zenon
<1>3. Len(runs) \in DOMAIN runs
  BY <1>1, <1>2
<1>4. QED
  BY <1>1, <1>2, <1>3, Zenon DEF StackOK

(* Every step preserves the types.                                         *)
LEMMA TypeStep ==
    ASSUME TypeOK, [Next]_vars
    PROVE  TypeOK'
<1> USE DEF TypeOK
<1>1. ASSUME NEW fd \in Fd, NEW ctx \in Ctx, af_poll_add(fd, ctx)
      PROVE  TypeOK'
  <2>1. [fd |-> fd, ctx |-> ctx] \in Entry
    BY DEF Entry, PollEntry
  <2>2. pollList' \in Seq(Entry)
    BY <1>1, <2>1, ListTypes DEF af_poll_add, Entry
  <2>3. QED
    BY <1>1, <2>2 DEF af_poll_add, Entry
<1>2. ASSUME NEW fd \in Fd, af_poll_rem(fd)
      PROVE  TypeOK'
  <2>1. pollList' \in Seq(Entry)
    BY <1>2, ListTypes DEF af_poll_rem, Entry
  <2>2. QED
    BY <1>2, <2>1 DEF af_poll_rem, Entry
<1>3. CASE RunBegin
  <2>1. PICK revents \in SUBSET DOMAIN Snapshot(pollList) :
           runs' = Append(runs, [apfds |-> Snapshot(pollList),
                                 due |-> revents, cur |-> 0])
    BY <1>3 DEF RunBegin
  <2> DEFINE r == [apfds |-> Snapshot(pollList), due |-> revents, cur |-> 0]
  <2>2. /\ Snapshot(pollList) \in Seq(Entry)
        /\ Len(Snapshot(pollList)) <= MaxFds
    BY SnapshotProperties DEF Entry
  <2>3. DOMAIN Snapshot(pollList) \subseteq 1..MaxFds
    BY <2>2
  <2>4. r \in Run
    BY <2>2, <2>3 DEF Run, Entry
  <2>5. /\ runs' \in Seq(Run)
        /\ Len(runs') = Len(runs) + 1
        /\ \A k \in 1..Len(runs) : runs'[k] = runs[k]
        /\ runs'[Len(runs) + 1] = r
    BY <2>1, <2>4, AppendProperties
  <2>6. StackOK(runs')
    <3>1. SUFFICES ASSUME NEW k \in 1..(Len(runs) + 1)
                   PROVE  /\ runs'[k].due \subseteq DOMAIN runs'[k].apfds
                          /\ runs'[k].cur \in {0} \cup DOMAIN runs'[k].apfds
                          /\ k < Len(runs') => runs'[k].cur # 0
      BY <2>5 DEF StackOK
    <3>2. CASE k = Len(runs) + 1
      BY <2>5, <3>2
    <3>3. CASE k # Len(runs) + 1
      <4>1. k \in 1..Len(runs) /\ runs'[k] = runs[k] /\ runs # <<>>
        BY <2>5, <3>3
      <4>2. k = Len(runs) => runs[k].cur # 0
        BY <1>3, <4>1, TopType DEF RunBegin, InApplication
      <4>3. QED
        BY <4>1, <4>2
    <3>4. QED
      BY <3>2, <3>3
  <2>7. Len(runs') <= MaxDepth
    BY <1>3, <2>5 DEF RunBegin
  <2>8. pollList' \in Seq(PollEntry(Fd, Ctx))
    BY <1>3 DEF RunBegin
  <2>9. QED
    BY <2>5, <2>6, <2>7, <2>8, Zenon DEF StackOK
<1>4. CASE Dispatch
  <2>1. runs # <<>> /\ pollList' = pollList
    BY <1>4 DEF Dispatch
  <2>2. PICK i \in Last(runs).due :
           SetTop([apfds |-> Last(runs).apfds,
                   due |-> Last(runs).due \ {i}, cur |-> i])
    BY <1>4 DEF Dispatch
  <2> DEFINE r == [apfds |-> Last(runs).apfds,
                   due |-> Last(runs).due \ {i}, cur |-> i]
  <2>3. /\ Last(runs) \in Run
        /\ Last(runs).due \subseteq DOMAIN Last(runs).apfds
    BY <2>1, TopType
  <2>4. r \in Run /\ r.due \subseteq DOMAIN r.apfds /\ r.cur \in DOMAIN r.apfds
    <3>1. i \in 0..MaxFds /\ i \in DOMAIN Last(runs).apfds
      BY <2>2, <2>3 DEF Run
    <3>2. QED
      BY <2>3, <3>1 DEF Run
  <2>5. runs' \in Seq(Run) /\ Len(runs') = Len(runs) /\ StackOK(runs')
    BY <2>1, <2>2, <2>4, SetTopType
  <2>6. QED
    BY <2>1, <2>5 DEF StackOK
<1>5. CASE CallbackReturn
  <2>1. runs # <<>> /\ pollList' = pollList
        /\ SetTop([Last(runs) EXCEPT !.cur = 0])
    BY <1>5 DEF CallbackReturn
  <2> DEFINE r == [Last(runs) EXCEPT !.cur = 0]
  <2>2. /\ Last(runs) \in Run
        /\ Last(runs).due \subseteq DOMAIN Last(runs).apfds
    BY <2>1, TopType
  <2>3. r \in Run /\ r.due \subseteq DOMAIN r.apfds /\ r.cur = 0
    <3>1. r = [apfds |-> Last(runs).apfds, due |-> Last(runs).due, cur |-> 0]
      BY <2>2, RunUpdate
    <3>2. QED
      BY <2>2, <3>1, SMTT(30) DEF Run
  <2>4. runs' \in Seq(Run) /\ Len(runs') = Len(runs) /\ StackOK(runs')
    BY <2>1, <2>3, SetTopType
  <2>5. QED
    BY <2>1, <2>4 DEF StackOK
<1>6. CASE RunReturn
  <2>1. runs # <<>> /\ pollList' = pollList /\ runs' = Front(runs)
    BY <1>6 DEF RunReturn
  <2>2. /\ runs' \in Seq(Run)
        /\ Len(runs) \in Nat
        /\ Len(runs') = Len(runs) - 1
        /\ \A k \in 1..(Len(runs) - 1) : runs'[k] = runs[k]
    BY <2>1, FrontProperties
  <2>3. StackOK(runs')
    <3>1. SUFFICES ASSUME NEW k \in 1..(Len(runs) - 1)
                   PROVE  /\ runs'[k].due \subseteq DOMAIN runs'[k].apfds
                          /\ runs'[k].cur \in {0} \cup DOMAIN runs'[k].apfds
                          /\ runs'[k].cur # 0
      BY <2>2 DEF StackOK
    <3>2. k \in DOMAIN runs /\ k < Len(runs) /\ runs'[k] = runs[k]
      BY <2>2
    <3>3. QED
      BY <3>2
  <2>4. QED
    BY <2>1, <2>2, <2>3 DEF StackOK
<1>7. CASE UNCHANGED vars
  BY <1>7 DEF vars
<1>8. QED
  BY <1>1, <1>2, <1>3, <1>4, <1>5, <1>6, <1>7, Zenon DEF Next

(* The list and every activation of af_poll_run stay well formed: the      *)
(* index of the loop is inside the copy it walks, and activations nest.    *)
THEOREM TypeCorrect == Spec => []TypeOK
<1>1. Init => TypeOK
  BY DEF Init, TypeOK
<1>2. QED
  BY <1>1, TypeStep, PTL DEF Spec

-----------------------------------------------------------------------------
(* The registry: distinct descriptors, at most MaxFds of them.             *)
Registry == UniqueFds /\ Len(pollList) <= MaxFds

(* Every step keeps the registry: one entry for a descriptor, and no more  *)
(* than a run can poll.                                                    *)
LEMMA RegistryStep ==
    ASSUME TypeOK, Registry, [Next]_vars
    PROVE  Registry'
<1>1. pollList \in Seq(Entry)
  BY DEF TypeOK, Entry
<1>2. Len(pollList) <= MaxFds
      /\ \A i, j \in DOMAIN pollList : pollList[i].fd = pollList[j].fd => i = j
  BY DEF Registry, UniqueFds
<1>3. ASSUME NEW fd \in Fd, NEW ctx \in Ctx, af_poll_add(fd, ctx)
      PROVE  Registry'
  <2>1. [fd |-> fd, ctx |-> ctx] \in Entry
    BY DEF Entry, PollEntry
  <2>2. pollList' = AddEntry(pollList, [fd |-> fd, ctx |-> ctx])
    BY <1>3 DEF af_poll_add
  <2>3. /\ Len(pollList') <= MaxFds
        /\ \A i, j \in DOMAIN pollList' :
              pollList'[i].fd = pollList'[j].fd => i = j
    BY <1>1, <1>2, <2>1, <2>2, AddKeepsRegistry
  <2>4. QED
    BY <2>3 DEF Registry, UniqueFds
<1>4. ASSUME NEW fd \in Fd, af_poll_rem(fd)
      PROVE  Registry'
  <2>1. pollList' = RemEntry(pollList, fd)
    BY <1>4 DEF af_poll_rem
  <2>2. /\ Len(pollList') <= MaxFds
        /\ \A i, j \in DOMAIN pollList' :
              pollList'[i].fd = pollList'[j].fd => i = j
    BY <1>1, <1>2, <2>1, RemKeepsRegistry
  <2>3. QED
    BY <2>2 DEF Registry, UniqueFds
<1>5. CASE UNCHANGED pollList
  BY <1>2, <1>5 DEF Registry, UniqueFds
<1>6. QED
  BY <1>3, <1>4, <1>5, Zenon
     DEF Next, RunBegin, Dispatch, CallbackReturn, RunReturn, vars

(* The registry is kept throughout.                                        *)
LEMMA RegistryCorrect == Spec => []Registry
<1>1. Init => Registry
  BY DEF Init, Registry, UniqueFds
<1>2. QED
  BY <1>1, TypeCorrect, RegistryStep, PTL DEF Spec

(* af_poll_add and af_poll_rem keep descriptors unique in the list.        *)
THEOREM FdsUnique == Spec => []UniqueFds
<1>1. Registry => UniqueFds
  BY DEF Registry
<1>2. QED
  BY <1>1, RegistryCorrect, PTL

(* Whatever callbacks do, af_poll_run copies and polls the whole list.     *)
THEOREM WholeListPolled == Spec => []NothingUnpolled
<1>1. TypeOK /\ Registry => NothingUnpolled
  <2>1. SUFFICES ASSUME TypeOK, Registry PROVE Snapshot(pollList) = pollList
    BY DEF NothingUnpolled
  <2>2. pollList \in Seq(Entry) /\ Len(pollList) <= MaxFds
    BY <2>1 DEF TypeOK, Entry, Registry
  <2>3. Snapshot(pollList) = SubSeq(pollList, 1, Len(pollList))
    BY <2>2, Zenon DEF Snapshot
  <2>4. SubSeq(pollList, 1, Len(pollList)) = pollList
    BY <2>2
  <2>5. QED
    BY <2>3, <2>4
<1>2. QED
  BY <1>1, TypeCorrect, RegistryCorrect, PTL

-----------------------------------------------------------------------------
(* Copies of the list in use.  With callbacks that remove only their own   *)
(* descriptor and a single activation, what is still to be visited stays   *)
(* registered: the descriptor a callback removes is not among the pending  *)
(* ones, because the copy holds it only once.                              *)
CopiesFresh ==
    \A k \in DOMAIN runs :
        /\ \A i, j \in DOMAIN runs[k].apfds :
              runs[k].apfds[i].fd = runs[k].apfds[j].fd => i = j
        /\ runs[k].cur \notin runs[k].due

DispatchInv == Registry /\ CopiesFresh /\ PendingRegistered

(* Without nesting, the innermost activation is the only one.              *)
LEMMA SingleActivation ==
    ASSUME TypeOK, MaxDepth = 1, runs # <<>>
    PROVE  /\ Len(runs) = 1 /\ DOMAIN runs = {1}
           /\ Last(runs) = runs[1] /\ runs[1] \in Run
           /\ runs[1].due \subseteq DOMAIN runs[1].apfds
           /\ runs[1].cur \in {0} \cup DOMAIN runs[1].apfds
<1> DEFINE n == Len(runs)
<1>1. runs \in Seq(Run) /\ n <= 1
  BY DEF TypeOK
<1>2. n \in Nat /\ n >= 1 /\ Last(runs) = runs[n]
  BY <1>1, FrontProperties, Zenon
<1>3. DOMAIN runs = 1..n
  BY <1>1
<1> HIDE DEF n
<1>4. n = 1
  BY <1>1, <1>2
<1>5. DOMAIN runs = {1}
  BY <1>3, <1>4
<1>6. n = Len(runs)
  BY DEF n
<1>7. QED
  BY <1>2, <1>4, <1>5, <1>6, TopType, Zenon

(* Without nesting, replacing the innermost activation replaces all there  *)
(* is.                                                                     *)
LEMMA ReplacedSingle ==
    ASSUME TypeOK, MaxDepth = 1, runs # <<>>, NEW r, SetTop(r)
    PROVE  /\ DOMAIN runs' = {1} /\ runs'[1] = r
           /\ runs' # <<>> /\ Last(runs') = r
<1>1. Front(runs) = <<>>
  <2>1. runs \in Seq(Run) /\ Len(runs) = 1
    BY SingleActivation DEF TypeOK
  <2>2. Front(runs) \in Seq(Run) /\ Len(Front(runs)) = 0
    BY <2>1, FrontProperties
  <2>3. QED
    BY <2>2
<1>2. runs' = <<r>>
  BY <1>1 DEF SetTop
<1>3. QED
  BY <1>2 DEF Last

(* A callback that touches its own descriptor alone leaves the copies of   *)
(* the others fresh and what is due registered.                            *)
LEMMA DispatchInvStep ==
    ASSUME TypeOK, TypeOK', DispatchInv, Registry', [Next]_vars,
           MaxDepth = 1, OwnFdOnly
    PROVE  CopiesFresh' /\ PendingRegistered'
<1>1. pollList \in Seq(Entry)
  BY DEF TypeOK, Entry
<1>2. CopiesFresh /\ PendingRegistered
  BY DEF DispatchInv
<1>3. ASSUME NEW fd \in Fd, NEW ctx \in Ctx, af_poll_add(fd, ctx)
      PROVE  CopiesFresh' /\ PendingRegistered'
  <2> DEFINE e == [fd |-> fd, ctx |-> ctx]
  <2>1. e \in Entry /\ pollList' = AddEntry(pollList, e) /\ runs' = runs
    BY <1>3 DEF Entry, PollEntry, af_poll_add
  <2>2. CopiesFresh'
    BY <1>2, <2>1 DEF CopiesFresh
  <2> HIDE DEF e
  <2>3. \A j \in DOMAIN pollList :
           \E m \in DOMAIN pollList' : pollList'[m] = pollList[j]
    BY <1>1, <2>1, AddKeepsEntries
  <2>4. ASSUME NEW k \in DOMAIN runs, NEW i \in runs[k].due
        PROVE  \E m \in DOMAIN pollList' : pollList'[m] = runs[k].apfds[i]
    <3>1. PICK j \in DOMAIN pollList : pollList[j] = runs[k].apfds[i]
      BY <1>2, Zenon DEF PendingRegistered
    <3>2. QED
      BY <2>3, <3>1, Zenon
  <2>5. PendingRegistered'
    BY <2>1, <2>4, ZenonT(40) DEF PendingRegistered
  <2>6. QED
    BY <2>2, <2>5
<1>4. ASSUME NEW fd \in Fd, af_poll_rem(fd)
      PROVE  CopiesFresh' /\ PendingRegistered'
  <2>1. pollList' = RemEntry(pollList, fd) /\ runs' = runs
    BY <1>4 DEF af_poll_rem
  <2>2. CopiesFresh'
    BY <1>2, <2>1 DEF CopiesFresh
  <2>3. ASSUME NEW k \in DOMAIN runs, NEW i \in runs[k].due
        PROVE  \E m \in DOMAIN pollList' : pollList'[m] = runs[k].apfds[i]
    <3>1. runs # <<>>
      BY <2>3
    <3>2. k = 1 /\ Last(runs) = runs[1]
          /\ runs[1].due \subseteq DOMAIN runs[1].apfds
          /\ runs[1].cur \in {0} \cup DOMAIN runs[1].apfds
      BY <2>3, <3>1, SingleActivation
    <3>3. runs[1].cur # 0 /\ fd = runs[1].apfds[runs[1].cur].fd
      BY <1>4, <3>1, <3>2 DEF af_poll_rem, InApplication, Called
    <3>4. runs[1].apfds[i].fd # fd
      BY <1>2, <2>3, <3>2, <3>3 DEF CopiesFresh
    <3>5. PICK j \in DOMAIN pollList : pollList[j] = runs[1].apfds[i]
      BY <1>2, <2>3, <3>2, Zenon DEF PendingRegistered
    <3>6. PICK m \in DOMAIN RemEntry(pollList, fd) :
             RemEntry(pollList, fd)[m] = pollList[j]
      BY <1>1, <3>4, <3>5, RemKeepsOthers
    <3>7. QED
      BY <2>1, <3>2, <3>5, <3>6
  <2>4. PendingRegistered'
    BY <2>1, <2>3, ZenonT(40) DEF PendingRegistered
  <2>5. QED
    BY <2>2, <2>4
<1>5. CASE RunBegin
  <2> DEFINE s == Snapshot(pollList)
  <2>1. PICK revents \in SUBSET DOMAIN s :
           runs' = Append(runs, [apfds |-> s, due |-> revents, cur |-> 0])
    BY <1>5 DEF RunBegin
  <2>2. pollList' = pollList /\ runs = <<>>
    <3>1. Len(runs) < 1
      BY <1>5 DEF RunBegin
    <3>2. runs \in Seq(Run)
      BY DEF TypeOK
    <3>3. QED
      BY <1>5, <3>1, <3>2 DEF RunBegin
  <2>3. runs' # <<>> /\ runs'[1] = [apfds |-> s, due |-> revents, cur |-> 0]
        /\ DOMAIN runs' = {1}
    BY <2>1, <2>2
  <2>4. /\ s \in Seq(Entry) /\ Len(s) <= Len(pollList)
        /\ \A i \in 1..Len(s) : s[i] = pollList[i]
    BY <1>1, SnapshotProperties
  <2>5. /\ DOMAIN s = 1..Len(s) /\ Len(s) \in Nat /\ Len(pollList) \in Nat
        /\ DOMAIN pollList = 1..Len(pollList)
    BY <1>1, <2>4
  <2> HIDE DEF s
  <2>6. DOMAIN s \subseteq DOMAIN pollList
    BY <2>4, <2>5
  <2>7. \A i, j \in DOMAIN s : s[i].fd = s[j].fd => i = j
    BY <2>4, <2>5, <2>6 DEF DispatchInv, Registry, UniqueFds
  <2>8. CopiesFresh'
    BY <2>1, <2>3, <2>5, <2>7 DEF CopiesFresh
  <2>9. PendingRegistered'
    BY <2>1, <2>2, <2>3, <2>4, <2>5, <2>6 DEF PendingRegistered
  <2>10. QED
    BY <2>8, <2>9
<1>6. CASE Dispatch
  <2>1. runs # <<>> /\ pollList' = pollList
    BY <1>6 DEF Dispatch
  <2>2. PICK i \in Last(runs).due :
           SetTop([apfds |-> Last(runs).apfds,
                   due |-> Last(runs).due \ {i}, cur |-> i])
    BY <1>6 DEF Dispatch
  <2> DEFINE r == [apfds |-> Last(runs).apfds,
                   due |-> Last(runs).due \ {i}, cur |-> i]
  <2>3. /\ DOMAIN runs = {1} /\ Last(runs) = runs[1]
        /\ runs[1].due \subseteq DOMAIN runs[1].apfds
    BY <2>1, SingleActivation
  <2>4. DOMAIN runs' = {1} /\ runs'[1] = r
    BY <2>1, <2>2, ReplacedSingle
  <2>5. CopiesFresh'
    BY <1>2, <2>3, <2>4 DEF CopiesFresh
  <2>6. PendingRegistered'
    BY <1>2, <2>1, <2>3, <2>4 DEF PendingRegistered
  <2>7. QED
    BY <2>5, <2>6
<1>7. CASE CallbackReturn
  <2>1. runs # <<>> /\ pollList' = pollList
        /\ SetTop([Last(runs) EXCEPT !.cur = 0])
    BY <1>7 DEF CallbackReturn
  <2> DEFINE r == [apfds |-> Last(runs).apfds, due |-> Last(runs).due, cur |-> 0]
  <2>2. /\ DOMAIN runs = {1} /\ Last(runs) = runs[1] /\ Last(runs) \in Run
        /\ runs[1].due \subseteq 1..MaxFds
    BY <2>1, SingleActivation DEF Run
  <2>3. SetTop(r)
    BY <2>1, <2>2, RunUpdate, Zenon
  <2>4. DOMAIN runs' = {1} /\ runs'[1] = r
    BY <2>1, <2>3, ReplacedSingle
  <2>5. CopiesFresh'
    BY <1>2, <2>2, <2>4 DEF CopiesFresh
  <2>6. PendingRegistered'
    BY <1>2, <2>1, <2>2, <2>4 DEF PendingRegistered
  <2>7. QED
    BY <2>5, <2>6
<1>8. CASE RunReturn
  <2>1. runs # <<>> /\ runs' = Front(runs)
    BY <1>8 DEF RunReturn
  <2>2. Len(runs) = 1 /\ runs \in Seq(Run)
    BY <2>1, SingleActivation DEF TypeOK
  <2>3. DOMAIN runs' = {}
    BY <2>1, <2>2, FrontProperties
  <2>4. QED
    BY <2>3, Zenon DEF CopiesFresh, PendingRegistered
<1>9. CASE UNCHANGED vars
  BY <1>2, <1>9 DEF CopiesFresh, PendingRegistered, vars
<1>10. QED
  BY <1>3, <1>4, <1>5, <1>6, <1>7, <1>8, <1>9, Zenon DEF Next

(* Under the same discipline, what every passing run of the model checker  *)
(* finds for a few descriptors holds for any number of them.               *)
LEMMA DispatchInvCorrect ==
    ASSUME MaxDepth = 1, OwnFdOnly
    PROVE  Spec => []DispatchInv
<1>1. Init => DispatchInv
  BY DEF Init, DispatchInv, Registry, UniqueFds, CopiesFresh, PendingRegistered
<1>2. TypeOK /\ TypeOK' /\ DispatchInv /\ [Next]_vars => DispatchInv'
  BY RegistryStep, DispatchInvStep, Zenon DEF DispatchInv
<1>3. QED
  BY <1>1, <1>2, TypeCorrect, PTL DEF Spec

(* The entries a run has still to visit are registered.                    *)
THEOREM PendingEntriesRegistered ==
    ASSUME MaxDepth = 1, OwnFdOnly
    PROVE  Spec => []PendingRegistered
<1>1. DispatchInv => PendingRegistered
  BY DEF DispatchInv
<1>2. QED
  BY <1>1, DispatchInvCorrect, PTL

(* Every callback is called for an entry that is registered at the call.   *)
THEOREM OnlyRegisteredCalled ==
    ASSUME MaxDepth = 1, OwnFdOnly
    PROVE  Spec => CallsRegistered
<1>1. ASSUME TypeOK, TypeOK', PendingRegistered, Dispatch
      PROVE  \E j \in DOMAIN pollList : pollList[j] = Called'
  <2>1. runs # <<>>
    BY <1>1 DEF Dispatch
  <2>2. PICK i \in Last(runs).due :
           SetTop([apfds |-> Last(runs).apfds,
                   due |-> Last(runs).due \ {i}, cur |-> i])
    BY <1>1 DEF Dispatch
  <2>3. DOMAIN runs = {1} /\ Last(runs) = runs[1]
    BY <1>1, <2>1, SingleActivation
  <2>4. /\ runs' # <<>>
        /\ Last(runs') = [apfds |-> Last(runs).apfds,
                          due |-> Last(runs).due \ {i}, cur |-> i]
    BY <1>1, <2>1, <2>2, ReplacedSingle
  <2>5. Called' = runs[1].apfds[i]
    BY <2>3, <2>4 DEF Called
  <2>6. QED
    BY <1>1, <2>2, <2>3, <2>5 DEF PendingRegistered
<1>2. QED
  BY <1>1, TypeCorrect, PendingEntriesRegistered, PTL DEF CallsRegistered, Spec

-----------------------------------------------------------------------------
(* The refinement.  What PollDispatch calls due and serving, of the calls  *)
(* of af_poll_run in progress.                                             *)
DueOf(rs) == UNION {{r.apfds[i] : i \in r.due} : r \in ToSet(rs)}

ServingOf(rs) ==
    IF rs # <<>> /\ Last(rs).cur # 0 THEN Last(rs).apfds[Last(rs).cur] ELSE NoHandler

(* Outside a run nothing is due and nobody is served.                      *)
LEMMA NoRun == DueOf(<<>>) = {} /\ ServingOf(<<>>) = NoHandler
<1>1. ToSet(<<>>) = {}
  BY DEF ToSet
<1>2. QED
  BY <1>1 DEF DueOf, ServingOf

(* What is due and who is served, read from the only activation.           *)
LEMMA OneRun ==
    ASSUME NEW rs, rs # <<>>, DOMAIN rs = {1}, Last(rs) = rs[1]
    PROVE  /\ DueOf(rs) = {rs[1].apfds[i] : i \in rs[1].due}
           /\ ServingOf(rs) = IF rs[1].cur # 0 THEN rs[1].apfds[rs[1].cur] ELSE NoHandler
<1>1. ToSet(rs) = {rs[1]}
  BY DEF ToSet
<1>2. DueOf(rs) = {rs[1].apfds[i] : i \in rs[1].due}
  BY <1>1 DEF DueOf
<1>3. QED
  BY <1>2 DEF ServingOf

(* The entries of the list after an addition.                              *)
LEMMA ContentsOfAdd ==
    ASSUME NEW list \in Seq(Entry), NEW e \in Entry
    PROVE  ToSet(<<e>> \o list) = ToSet(list) \cup {e}
<1> DEFINE c == <<e>> \o list
<1>1. /\ c \in Seq(Entry) /\ Len(c) = Len(list) + 1 /\ c[1] = e
      /\ \A i \in 1..Len(list) : c[i + 1] = list[i]
  BY ConsProperties
<1> HIDE DEF c
<1>2. DOMAIN c = 1..(Len(list) + 1) /\ DOMAIN list = 1..Len(list) /\ Len(list) \in Nat
  BY <1>1
<1>3. ASSUME NEW x \in ToSet(c) PROVE x \in ToSet(list) \cup {e}
  <2>1. PICK i \in 1..(Len(list) + 1) : x = c[i]
    BY <1>2, <1>3 DEF ToSet
  <2>2. CASE i = 1
    BY <1>1, <2>1, <2>2
  <2>3. CASE i # 1
    <3>1. i - 1 \in 1..Len(list) /\ c[(i - 1) + 1] = list[i - 1] /\ (i - 1) + 1 = i
      BY <1>1, <1>2, <2>1, <2>3
    <3>2. QED
      BY <1>2, <2>1, <3>1 DEF ToSet
  <2>4. QED
    BY <2>2, <2>3
<1>4. ASSUME NEW x \in ToSet(list) \cup {e} PROVE x \in ToSet(c)
  <2>1. CASE x = e
    BY <1>1, <1>2, <2>1 DEF ToSet
  <2>2. CASE x \in ToSet(list)
    <3>1. PICK i \in 1..Len(list) : x = list[i]
      BY <1>2, <2>2 DEF ToSet
    <3>2. i + 1 \in 1..(Len(list) + 1) /\ x = c[i + 1]
      BY <1>1, <1>2, <3>1
    <3>3. QED
      BY <1>2, <3>2 DEF ToSet
  <2>3. QED
    BY <1>4, <2>1, <2>2
<1>5. QED
  BY <1>3, <1>4 DEF c

(* The entries of the list after a removal.                                *)
LEMMA ContentsOfRemove ==
    ASSUME NEW list \in Seq(Entry), NEW k \in 1..Len(list),
           \A i, j \in DOMAIN list : list[i].fd = list[j].fd => i = j
    PROVE  ToSet(RemoveAt(list, k)) = ToSet(list) \ {list[k]}
<1> DEFINE c == RemoveAt(list, k)
<1>1. /\ c \in Seq(Entry) /\ Len(c) = Len(list) - 1
      /\ \A i \in 1..(Len(list) - 1) : c[i] = IF i < k THEN list[i] ELSE list[i + 1]
  BY RemoveAtProperties
<1>2. DOMAIN list = 1..Len(list) /\ Len(list) \in Nat /\ Len(list) >= 1
  OBVIOUS
<1>3. ASSUME NEW i \in 1..Len(list), i # k
      PROVE  \E j \in 1..Len(c) : c[j] = list[i]
  BY <1>3, RemoveAtContents
<1> HIDE DEF c
<1>4. DOMAIN c = 1..(Len(list) - 1)
  BY <1>1
<1>5. ASSUME NEW x \in ToSet(c) PROVE x \in ToSet(list) \ {list[k]}
  <2>1. PICK j \in 1..(Len(list) - 1) : x = c[j]
    BY <1>4, <1>5 DEF ToSet
  <2>2. PICK i \in 1..Len(list) : x = list[i] /\ i # k
    BY <1>1, <1>2, <2>1
  <2>3. x # list[k]
    BY <1>2, <2>2
  <2>4. QED
    BY <1>2, <2>2, <2>3 DEF ToSet
<1>6. ASSUME NEW x \in ToSet(list) \ {list[k]} PROVE x \in ToSet(c)
  <2>1. PICK i \in 1..Len(list) : x = list[i] /\ i # k
    BY <1>2, <1>6 DEF ToSet
  <2>2. PICK j \in 1..Len(c) : c[j] = list[i]
    BY <1>3, <2>1
  <2>3. QED
    BY <1>1, <1>4, <2>1, <2>2 DEF ToSet
<1>7. QED
  BY <1>5, <1>6 DEF c

(* A list has no more entries than places.                                 *)
LEMMA ContentsBound ==
    ASSUME NEW list \in Seq(Entry)
    PROVE  Cardinality(ToSet(list)) \in Nat /\ Cardinality(ToSet(list)) <= Len(list)
<1>1. Len(list) \in Nat /\ DOMAIN list = 1..Len(list)
  OBVIOUS
<1>2. list \in [1..Len(list) -> ToSet(list)]
  BY <1>1 DEF ToSet
<1>3. \A x \in ToSet(list) : \E i \in 1..Len(list) : list[i] = x
  BY <1>1 DEF ToSet
<1>4. ExistsSurjection(1..Len(list), ToSet(list))
  BY <1>2, <1>3 DEF ExistsSurjection, Surjection
<1>5. IsFiniteSet(1..Len(list))
  BY <1>1, FS_Interval
<1>6. PICK f : f \in Surjection(1..Len(list), ToSet(list))
  BY <1>4, Zenon DEF ExistsSurjection
<1>7. IsFiniteSet(ToSet(list))
  BY <1>5, <1>6, FS_Surjection, Zenon
<1>8. QED
  BY <1>1, <1>4, <1>7, FS_SurjCardinalityBound, FS_CardinalityType

(* Handlers are told from the absence of one: a callback is not null.      *)
LEMMA AddImplements ==
    ASSUME TypeOK, Registry, NEW fd \in Fd, NEW ctx \in Ctx, af_poll_add(fd, ctx)
    PROVE  [Dispatcher!Next]_(Dispatcher!vars)
<1> DEFINE h == [fd |-> fd, ctx |-> ctx]
<1>1. h \in Entry /\ h.fd = fd /\ pollList' = AddEntry(pollList, h) /\ runs' = runs
  BY DEF Entry, PollEntry, af_poll_add
<1>2. pollList \in Seq(Entry) /\ MaxFds \in Nat
  BY DEF TypeOK, Entry
<1> HIDE DEF h
<1>3. CASE pollList' = pollList
  BY <1>1, <1>3 DEF Dispatcher!vars, Called
<1>4. CASE /\ pollList' = <<h>> \o pollList
           /\ \A i \in 1..Len(pollList) : pollList[i].fd # h.fd
           /\ Len(pollList) < MaxFds
  <2>1. ToSet(pollList') = ToSet(pollList) \cup {h}
    BY <1>1, <1>2, <1>4, ContentsOfAdd
  <2>2. \A g \in ToSet(pollList) : g.fd # h.fd
    BY <1>2, <1>4 DEF ToSet
  <2>3. Cardinality(ToSet(pollList)) < MaxFds
    <3>1. Cardinality(ToSet(pollList)) \in Nat
      BY <1>2, ContentsBound
    <3>2. Len(pollList) \in Nat
      BY <1>2
    <3>3. QED
      BY <1>2, <1>4, <3>1, <3>2, ContentsBound
  <2>4. h \in Dispatcher!Handler
    BY <1>1 DEF Entry, PollEntry, Dispatcher!Handler
  <2>5. Dispatcher!Register(h)
    <3>1. Dispatcher!Cardinality(ToSet(pollList)) = Cardinality(ToSet(pollList))
      BY DEF Dispatcher!Cardinality, Cardinality
    <3>2. QED
      BY <1>1, <2>1, <2>2, <2>3, <3>1 DEF Dispatcher!Register, Called
  <2>6. QED
    BY <2>4, <2>5, Zenon DEF Dispatcher!Next
<1>5. QED
  BY <1>1, <1>2, <1>3, <1>4, AddEntryCases

(* A removal is a step of the abstract dispatcher, or none.                *)
LEMMA RemImplements ==
    ASSUME TypeOK, DispatchInv, MaxDepth = 1, OwnFdOnly, NEW fd \in Fd, af_poll_rem(fd)
    PROVE  [Dispatcher!Next]_(Dispatcher!vars)
<1>1. pollList' = RemEntry(pollList, fd) /\ runs' = runs
  BY DEF af_poll_rem
<1>2. /\ pollList \in Seq(Entry)
      /\ \A i, j \in DOMAIN pollList : pollList[i].fd = pollList[j].fd => i = j
  BY DEF TypeOK, Entry, DispatchInv, Registry, UniqueFds
<1>3. CASE pollList' = pollList
  BY <1>1, <1>3 DEF Dispatcher!vars, Called
<1>4. ASSUME NEW k \in 1..Len(pollList), pollList[k].fd = fd,
             pollList' = RemoveAt(pollList, k)
      PROVE  Dispatcher!Next
  <2> DEFINE h == pollList[k]
  <2>1. h \in Entry /\ h \in ToSet(pollList)
    BY <1>2, <1>4 DEF ToSet
  <2>2. ToSet(pollList') = ToSet(pollList) \ {h}
    BY <1>2, <1>4, ContentsOfRemove
  <2>3. CASE runs = <<>>
    <3>1. DueOf(runs) = {} /\ ServingOf(runs) = NoHandler
      BY <2>3, NoRun
    <3>2. Dispatcher!Unregister(h)
      BY <1>1, <2>1, <2>2, <3>1
         DEF Dispatcher!Unregister, DueOf, ServingOf, Called
    <3>3. h \in Dispatcher!Handler
      BY <2>1 DEF Entry, PollEntry, Dispatcher!Handler
    <3>4. QED
      BY <3>2, <3>3, Zenon DEF Dispatcher!Next
  <2>4. CASE runs # <<>>
    <3>1. Last(runs).cur # 0 /\ fd = Called.fd
      BY <2>4 DEF af_poll_rem, InApplication
    <3>2. ServingOf(runs).fd = fd
      BY <2>4, <3>1 DEF ServingOf, Called
    <3>3. Dispatcher!Unregister(h)
      BY <1>1, <1>4, <2>1, <2>2, <3>2
         DEF Dispatcher!Unregister, DueOf, ServingOf, Called
    <3>4. h \in Dispatcher!Handler
      BY <2>1 DEF Entry, PollEntry, Dispatcher!Handler
    <3>5. QED
      BY <3>3, <3>4, Zenon DEF Dispatcher!Next
  <2>5. QED
    BY <2>3, <2>4
<1>5. QED
  BY <1>1, <1>2, <1>3, <1>4, RemEntryCases

(* The start of a run is a step of the abstract dispatcher.                *)
LEMMA RunBeginImplements ==
    ASSUME TypeOK, DispatchInv, MaxDepth = 1, RunBegin
    PROVE  Dispatcher!Next
<1> DEFINE s == Snapshot(pollList)
<1>1. PICK revents \in (SUBSET DOMAIN s) \ {{}} :
         runs' = Append(runs, [apfds |-> s, due |-> revents, cur |-> 0])
  BY DEF RunBegin
<1>2. runs = <<>> /\ pollList' = pollList
  <2>1. Len(runs) < 1 /\ runs \in Seq(Run)
    BY DEF RunBegin, TypeOK
  <2>2. QED
    BY <2>1 DEF RunBegin
<1>3. pollList \in Seq(Entry)
  BY DEF TypeOK, Entry
<1>4. /\ s \in Seq(Entry) /\ Len(s) <= Len(pollList)
      /\ \A i \in 1..Len(s) : s[i] = pollList[i]
  BY <1>3, SnapshotProperties
<1> HIDE DEF s
<1>5. /\ runs' # <<>> /\ DOMAIN runs' = {1} /\ Last(runs') = runs'[1]
      /\ runs'[1] = [apfds |-> s, due |-> revents, cur |-> 0]
  BY <1>1, <1>2 DEF Last
<1>6. DueOf(runs) = {} /\ ServingOf(runs) = NoHandler
  BY <1>2, NoRun
<1>7. DueOf(runs') = {s[i] : i \in revents} /\ ServingOf(runs') = NoHandler
  BY <1>5, OneRun
<1>8. \A i \in DOMAIN s : s[i] \in ToSet(pollList)
  <2>1. /\ DOMAIN s = 1..Len(s) /\ DOMAIN pollList = 1..Len(pollList)
        /\ Len(s) \in Nat /\ Len(pollList) \in Nat
    BY <1>3, <1>4
  <2>2. QED
    BY <1>4, <2>1 DEF ToSet
<1>9. DueOf(runs') \in (SUBSET ToSet(pollList)) \ {{}}
  BY <1>1, <1>7, <1>8
<1>10. Dispatcher!Collect
  BY <1>2, <1>6, <1>7, <1>9 DEF Dispatcher!Collect, DueOf, ServingOf, Called
<1>11. QED
  BY <1>10 DEF Dispatcher!Next

(* So is the call of a handler,                                            *)
LEMMA DispatchImplements ==
    ASSUME TypeOK, DispatchInv, MaxDepth = 1, Dispatch
    PROVE  Dispatcher!Next
<1>1. runs # <<>> /\ Last(runs).cur = 0 /\ pollList' = pollList
  BY DEF Dispatch
<1>2. PICK i \in Last(runs).due :
         SetTop([apfds |-> Last(runs).apfds, due |-> Last(runs).due \ {i}, cur |-> i])
  BY DEF Dispatch
<1>3. /\ DOMAIN runs = {1} /\ Last(runs) = runs[1] /\ runs[1] \in Run
      /\ runs[1].due \subseteq DOMAIN runs[1].apfds
  BY <1>1, SingleActivation
<1> DEFINE q == runs[1].apfds
           d == runs[1].due
           h == q[i]
<1>4. /\ runs' # <<>> /\ DOMAIN runs' = {1} /\ Last(runs') = runs'[1]
      /\ runs'[1] = [apfds |-> q, due |-> d \ {i}, cur |-> i]
  BY <1>1, <1>2, <1>3, ReplacedSingle
<1>5. i \in d /\ i # 0
  <2>1. q \in Seq(PollEntry(Fd, Ctx))
    BY <1>3 DEF Run
  <2>2. 0 \notin DOMAIN q
    BY <2>1
  <2>3. QED
    BY <1>2, <1>3, <2>2
<1>6. DueOf(runs) = {q[j] : j \in d} /\ ServingOf(runs) = NoHandler
  BY <1>1, <1>3, OneRun
<1>7. DueOf(runs') = {q[j] : j \in d \ {i}} /\ ServingOf(runs') = h
  <2>1. runs'[1].apfds = q /\ runs'[1].due = d \ {i} /\ runs'[1].cur = i
    BY <1>4
  <2>2. /\ DueOf(runs') = {runs'[1].apfds[j] : j \in runs'[1].due}
        /\ ServingOf(runs') = IF runs'[1].cur # 0 THEN runs'[1].apfds[runs'[1].cur]
                              ELSE NoHandler
    BY <1>4, OneRun
  <2>3. QED
    BY <1>5, <2>1, <2>2
<1>8. \A j, k \in DOMAIN q : q[j].fd = q[k].fd => j = k
  BY <1>3 DEF DispatchInv, CopiesFresh
<1> HIDE DEF q, d
<1>9. {q[j] : j \in d \ {i}} = {q[j] : j \in d} \ {h}
  <2>1. d \subseteq DOMAIN q
    BY <1>3 DEF q, d
  <2>2. \A j \in d \ {i} : q[j] # h
    BY <1>5, <1>8, <2>1
  <2>3. QED
    BY <2>2
<1>10. \E j \in DOMAIN pollList : pollList[j] = h
  BY <1>3, <1>5 DEF DispatchInv, PendingRegistered, q, d
<1>11. h \in ToSet(pollList) /\ h \in Entry
  <2>1. pollList \in Seq(Entry)
    BY DEF TypeOK, Entry
  <2>2. QED
    BY <1>10, <2>1 DEF ToSet
<1>12. h \in Dispatcher!Handler
  BY <1>11 DEF Entry, PollEntry, Dispatcher!Handler
<1>13. PICK g \in Dispatcher!Handler : g = h
  BY <1>12
<1> HIDE DEF h
<1>14. Dispatcher!Serve(g)
  <2>1. h \in DueOf(runs)
    BY <1>5, <1>6 DEF h
  <2>2. QED
    BY <1>1, <1>6, <1>7, <1>9, <1>11, <1>13, <2>1
       DEF Dispatcher!Serve, DueOf, ServingOf, Called
<1>15. QED
  BY <1>14, Zenon DEF Dispatcher!Next

(* and its return.                                                         *)
LEMMA ReturnImplements ==
    ASSUME TypeOK, MaxDepth = 1, NoHandler \notin Entry, CallbackReturn
    PROVE  Dispatcher!Next
<1>1. /\ runs # <<>> /\ Last(runs).cur # 0 /\ pollList' = pollList
      /\ SetTop([Last(runs) EXCEPT !.cur = 0])
  BY DEF CallbackReturn
<1>2. /\ DOMAIN runs = {1} /\ Last(runs) = runs[1] /\ runs[1] \in Run
      /\ runs[1].cur \in {0} \cup DOMAIN runs[1].apfds
  BY <1>1, SingleActivation
<1> DEFINE r == [apfds |-> runs[1].apfds, due |-> runs[1].due, cur |-> 0]
<1>3. SetTop(r)
  BY <1>1, <1>2, RunUpdate, Zenon
<1>4. runs' # <<>> /\ DOMAIN runs' = {1} /\ Last(runs') = runs'[1] /\ runs'[1] = r
  BY <1>1, <1>3, ReplacedSingle
<1>5. /\ DueOf(runs') = DueOf(runs) /\ ServingOf(runs') = NoHandler
      /\ ServingOf(runs) = runs[1].apfds[runs[1].cur]
  <2>1. /\ runs'[1].apfds = runs[1].apfds /\ runs'[1].due = runs[1].due
        /\ runs'[1].cur = 0
    BY <1>4
  <2>2. /\ DueOf(runs') = {runs'[1].apfds[j] : j \in runs'[1].due}
        /\ ServingOf(runs') = IF runs'[1].cur # 0 THEN runs'[1].apfds[runs'[1].cur]
                              ELSE NoHandler
    BY <1>4, OneRun
  <2>3. /\ DueOf(runs) = {runs[1].apfds[j] : j \in runs[1].due}
        /\ ServingOf(runs) = runs[1].apfds[runs[1].cur]
    BY <1>1, <1>2, OneRun
  <2>4. QED
    BY <2>1, <2>2, <2>3
<1>6. ServingOf(runs) # NoHandler
  <2>1. runs[1].apfds \in Seq(Entry)
    BY <1>2 DEF Run, Entry
  <2>2. runs[1].apfds[runs[1].cur] \in Entry
    BY <1>1, <1>2, <2>1
  <2>3. QED
    BY <1>5, <2>2
<1>7. Dispatcher!Return
  BY <1>1, <1>5, <1>6 DEF Dispatcher!Return, DueOf, ServingOf, Called
<1>8. QED
  BY <1>7 DEF Dispatcher!Next

(* The end of a run is no step of the abstract dispatcher: nothing was due *)
(* any more.                                                               *)
LEMMA RunReturnImplements ==
    ASSUME TypeOK, MaxDepth = 1, RunReturn
    PROVE  UNCHANGED Dispatcher!vars
<1>1. /\ runs # <<>> /\ Last(runs).cur = 0 /\ Last(runs).due = {}
      /\ runs' = Front(runs) /\ pollList' = pollList
  BY DEF RunReturn
<1>2. DOMAIN runs = {1} /\ Last(runs) = runs[1] /\ Len(runs) = 1 /\ runs \in Seq(Run)
  BY <1>1, SingleActivation DEF TypeOK
<1>3. runs' = <<>>
  <2>1. Front(runs) \in Seq(Run) /\ Len(Front(runs)) = 0
    BY <1>1, <1>2, FrontProperties
  <2>2. QED
    BY <1>1, <2>1
<1>4. DueOf(runs') = {} /\ ServingOf(runs') = NoHandler
  BY <1>3, NoRun
<1>5. DueOf(runs) = {} /\ ServingOf(runs) = NoHandler
  BY <1>1, <1>2, OneRun
<1>6. QED
  BY <1>1, <1>4, <1>5 DEF Dispatcher!vars, DueOf, ServingOf, Called

(* The list and the loop of af_poll_run do what PollDispatch promises, step *)
(* by step: registration refuses a descriptor twice and a handler too many, *)
(* and each handler collected in a round is served once, while registered,  *)
(* whatever lists of descriptors the application has.                       *)
THEOREM DispatchImplemented ==
    ASSUME MaxDepth = 1, OwnFdOnly, NoHandler \notin Entry
    PROVE  Spec => Dispatcher!Init /\ [][Dispatcher!Next]_(Dispatcher!vars)
<1>1. ASSUME Init PROVE Dispatcher!Init
  <2>1. pollList = <<>> /\ runs = <<>>
    BY <1>1 DEF Init
  <2>2. ToSet(pollList) = {}
    BY <2>1 DEF ToSet
  <2>3. DueOf(runs) = {} /\ ServingOf(runs) = NoHandler
    BY <2>1, NoRun
  <2>4. QED
    BY <2>2, <2>3 DEF Dispatcher!Init, DueOf, ServingOf, Called
<1>2. ASSUME TypeOK, DispatchInv, [Next]_vars
      PROVE  [Dispatcher!Next]_(Dispatcher!vars)
  <2>1. CASE UNCHANGED vars
    BY <2>1 DEF vars, Dispatcher!vars, Called
  <2>2. ASSUME NEW fd \in Fd, NEW ctx \in Ctx, af_poll_add(fd, ctx)
        PROVE  [Dispatcher!Next]_(Dispatcher!vars)
    BY <1>2, <2>2, AddImplements DEF DispatchInv
  <2>3. ASSUME NEW fd \in Fd, af_poll_rem(fd)
        PROVE  [Dispatcher!Next]_(Dispatcher!vars)
    BY <1>2, <2>3, RemImplements
  <2>4. QED
    BY <1>2, <2>1, <2>2, <2>3, RunBeginImplements, DispatchImplements, ReturnImplements,
       RunReturnImplements, Zenon DEF Next
<1>3. QED
  BY <1>1, <1>2, TypeCorrect, DispatchInvCorrect, PTL DEF Spec
=============================================================================
