-------------------------- MODULE AppfServerProofs --------------------------
(***************************************************************************)
(* Theorems about the servers of appf_server.c, for all numbers of         *)
(* servers, connections and descriptors, every max_cnx and every depth to  *)
(* which callbacks call the section again.                                 *)
(*                                                                         *)
(* The connection lists, the descriptor table and the list of polled       *)
(* descriptors agree with each other whatever callbacks do.  That no freed *)
(* connection is used and nothing blocks needs callbacks that disconnect   *)
(* only the connection of their own command.                               *)
(***************************************************************************)
EXTENDS AppfServer, SeqLemmas, FiniteSetTheorems

(* What is proved about the poll section, for the use made of it here.     *)
PollProofs == INSTANCE AppfPollProofs
                  WITH Fd <- 1..NumFds, Ctx <- Handler,
                       MaxDepth <- 1, OwnFdOnly <- OwnCnxOnly

USE MaxFdsAssumption, ServerAssumption

Descriptor == 1..NumFds
Entry == PollEntry(Descriptor, Handler)

-----------------------------------------------------------------------------
(* The inductive invariant.                                                *)

(* One entry for a descriptor, and no more entries than a run polls.       *)
Registry ==
    /\ \A i, j \in DOMAIN pollList : pollList[i].fd = pollList[j].fd => i = j
    /\ Len(pollList) <= MaxFds

(* What CnxLists says, also of a server that has not been started yet.     *)
ListsInv ==
    \A s \in Server :
        /\ IsInjective(server[s].cnx)
        /\ \A c \in Cnx : Contains(server[s].cnx, c) <=> cnx[c].server = s
        /\ server[s].num_cnx = Len(server[s].cnx)
        /\ server[s].num_cnx <= MaxCnx
        /\ server[s].fd <= 0 => server[s].cnx = <<>>

(* DescriptorsOwned, and a free block has no descriptors.                  *)
CnxOwns ==
    \A c \in Cnx :
        /\ Open(c) => /\ cnx[c].fd \in Descriptor /\ cnx[c].dup \in Descriptor
                      /\ cnx[c].fd # cnx[c].dup
                      /\ files[cnx[c].fd] = c /\ files[cnx[c].dup] = c
        /\ ~ Open(c) => cnx[c].fd = 0 /\ cnx[c].dup = 0

ServerOwns == \A s \in Server : server[s].fd > 0 => files[server[s].fd] = s

OwnersKnow ==
    \A f \in Descriptor :
        /\ files[f] \in Cnx => f \in {cnx[files[f]].fd, cnx[files[f]].dup}
        /\ files[f] \in Server => f = server[files[f]].fd

OwnedInv == CnxOwns /\ ServerOwns /\ OwnersKnow

(* What is polled is open; of a connection, its first descriptor.          *)
PolledInv ==
    /\ Registry
    /\ \A i \in DOMAIN pollList :
          /\ files[pollList[i].fd] = pollList[i].ctx
          /\ pollList[i].ctx \in Cnx => pollList[i].fd = cnx[pollList[i].ctx].fd

(* The handlers of events are at the bottom of the stack, and so are the   *)
(* callbacks they call: a block is given out only when no disconnection is *)
(* under way.  A connection that is being disconnected is not polled.      *)
EventFrames == {"handle", "command", "new_connection"}

StackInv ==
    /\ \A i \in DOMAIN stack : stack[i].op \in EventFrames => i = 1
    /\ \A c \in Cnx : Disconnecting(c) =>
          \A i \in DOMAIN pollList : pollList[i].ctx # c

(* A server whose events are handled has been started.                     *)
StartedInv ==
    \A s \in Server :
        /\ \A i \in DOMAIN pollList : pollList[i].ctx = s => server[s].fd # 0
        /\ \A k \in DOMAIN runs : \A i \in DOMAIN runs[k].apfds :
              runs[k].apfds[i].ctx = s => server[s].fd # 0
        /\ \A i \in DOMAIN stack : stack[i].arg = s => server[s].fd # 0

(* Between two callbacks the section is not active.                        *)
LoopInv == runs # <<>> /\ runs[1].cur = 0 => stack = <<>>

AnyInv ==
    /\ TypeOK /\ ListsInv /\ OwnedInv /\ PolledInv
    /\ StackInv /\ StartedInv /\ LoopInv

-----------------------------------------------------------------------------
(* The poll section as the servers see it.                                 *)
LEMMA SameList ==
    ASSUME NEW list, NEW fd, NEW e
    PROVE  /\ Poll!AddEntry(list, e) = AddEntry(list, e)
           /\ Poll!RemEntry(list, fd) = RemEntry(list, fd)
           /\ Poll!Snapshot(list) = Snapshot(list)
<1>1. Poll!AddEntry(list, e) = AddEntry(list, e)
  BY DEF Poll!AddEntry, AddEntry, Poll!AddResult, AddResult, Poll!Listed, Listed
<1>2. Poll!RemEntry(list, fd) = RemEntry(list, fd)
  BY DEF Poll!RemEntry, RemEntry, Poll!RemoveFirstMatch, RemoveFirstMatch,
         Poll!SelectInSeq, SelectInSeq, Poll!RemoveAt, RemoveAt, Poll!Min, Min
<1>3. Poll!Snapshot(list) = Snapshot(list)
  BY DEF Poll!Snapshot, Snapshot
<1>4. QED
  BY <1>1, <1>2, <1>3

(* The operations proved about for the poll section are the ones used      *)
(* here.                                                                   *)
LEMMA SameProvedList ==
    ASSUME NEW list, NEW fd, NEW e
    PROVE  /\ PollProofs!AddEntry(list, e) = AddEntry(list, e)
           /\ PollProofs!RemEntry(list, fd) = RemEntry(list, fd)
           /\ PollProofs!Snapshot(list) = Snapshot(list)
           /\ PollProofs!Listed(list, fd) = Listed(list, fd)
           /\ PollProofs!RemoveAt(list, fd) = RemoveAt(list, fd)
<1>1. PollProofs!AddEntry(list, e) = AddEntry(list, e)
  BY DEF PollProofs!AddEntry, AddEntry, PollProofs!AddResult, AddResult,
         PollProofs!Listed, Listed
<1>2. PollProofs!RemEntry(list, fd) = RemEntry(list, fd)
  BY DEF PollProofs!RemEntry, RemEntry, PollProofs!RemoveFirstMatch, RemoveFirstMatch,
         PollProofs!SelectInSeq, SelectInSeq, PollProofs!RemoveAt, RemoveAt,
         PollProofs!Min, Min
<1>3. PollProofs!Snapshot(list) = Snapshot(list)
  BY DEF PollProofs!Snapshot, Snapshot
<1>4. PollProofs!Listed(list, fd) = Listed(list, fd)
  BY DEF PollProofs!Listed, Listed
<1>5. PollProofs!RemoveAt(list, fd) = RemoveAt(list, fd)
  BY DEF PollProofs!RemoveAt, RemoveAt
<1>6. QED
  BY <1>1, <1>2, <1>3, <1>4, <1>5

(* The lemmas of AppfPollProofs about the list, for the operators used     *)
(* here.                                                                   *)
LEMMA ListTypes ==
    ASSUME NEW S, NEW list \in Seq(S)
    PROVE  /\ \A fd : RemEntry(list, fd) \in Seq(S)
           /\ \A e \in S : AddEntry(list, e) \in Seq(S)
<1>1. /\ \A fd : PollProofs!RemEntry(list, fd) \in Seq(S)
      /\ \A e \in S : PollProofs!AddEntry(list, e) \in Seq(S)
  BY PollProofs!ListTypes
<1>2. QED
  BY <1>1, SameProvedList

(* A removal finds nothing, or removes the one entry it found.             *)
LEMMA RemEntryCases ==
    ASSUME NEW S, NEW list \in Seq(S), NEW fd
    PROVE  \/ RemEntry(list, fd) = list /\ ~ Listed(list, fd)
           \/ \E k \in 1..Len(list) :
                 list[k].fd = fd /\ RemEntry(list, fd) = RemoveAt(list, k)
<1>1. \/ PollProofs!RemEntry(list, fd) = list /\ ~ PollProofs!Listed(list, fd)
      \/ \E k \in 1..Len(list) :
            list[k].fd = fd /\ PollProofs!RemEntry(list, fd) = PollProofs!RemoveAt(list, k)
  BY PollProofs!RemEntryCases
<1>2. QED
  BY <1>1, SameProvedList

(* The copy a run makes is the front of the list, cut off at MaxFds.       *)
LEMMA SnapshotProperties ==
    ASSUME NEW S, NEW list \in Seq(S)
    PROVE  /\ Snapshot(list) \in Seq(S)
           /\ Len(Snapshot(list)) <= MaxFds
           /\ Len(Snapshot(list)) <= Len(list)
           /\ \A i \in 1..Len(Snapshot(list)) : Snapshot(list)[i] = list[i]
<1>1. PollProofs!Snapshot(list) = Snapshot(list)
  BY SameProvedList
<1>2. QED
  BY <1>1, PollProofs!SnapshotProperties

(* Adding an entry keeps one entry for a descriptor and at most MaxFds of  *)
(* them.                                                                   *)
LEMMA AddKeepsRegistry ==
    ASSUME NEW S, NEW list \in Seq(S), NEW e \in S, Len(list) <= MaxFds,
           \A i, j \in DOMAIN list : list[i].fd = list[j].fd => i = j
    PROVE  /\ Len(AddEntry(list, e)) <= MaxFds
           /\ \A i, j \in DOMAIN AddEntry(list, e) :
                 AddEntry(list, e)[i].fd = AddEntry(list, e)[j].fd => i = j
<1>1. PollProofs!AddEntry(list, e) = AddEntry(list, e)
  BY SameProvedList
<1>2. QED
  BY <1>1, PollProofs!AddKeepsRegistry

(* So does removing one.                                                   *)
LEMMA RemKeepsRegistry ==
    ASSUME NEW S, NEW list \in Seq(S), NEW fd, Len(list) <= MaxFds,
           \A i, j \in DOMAIN list : list[i].fd = list[j].fd => i = j
    PROVE  /\ Len(RemEntry(list, fd)) <= MaxFds
           /\ \A i, j \in DOMAIN RemEntry(list, fd) :
                 RemEntry(list, fd)[i].fd = RemEntry(list, fd)[j].fd => i = j
<1>1. PollProofs!RemEntry(list, fd) = RemEntry(list, fd)
  BY SameProvedList
<1>2. QED
  BY <1>1, PollProofs!RemKeepsRegistry

(* Removing a descriptor loses no entry of another one.                    *)
LEMMA RemKeepsOthers ==
    ASSUME NEW S, NEW list \in Seq(S), NEW fd, NEW j \in DOMAIN list,
           list[j].fd # fd
    PROVE  \E m \in DOMAIN RemEntry(list, fd) : RemEntry(list, fd)[m] = list[j]
<1>1. PollProofs!RemEntry(list, fd) = RemEntry(list, fd)
  BY SameProvedList
<1>2. QED
  BY <1>1, PollProofs!RemKeepsOthers

(* What is listed after an addition is the new entry or was listed before. *)
LEMMA AddedEntries ==
    ASSUME NEW S, NEW list \in Seq(S), NEW e \in S,
           NEW i \in DOMAIN AddEntry(list, e)
    PROVE  \/ AddEntry(list, e)[i] = e
           \/ \E j \in DOMAIN list : AddEntry(list, e)[i] = list[j]
<1>1. PollProofs!AddEntry(list, e) = AddEntry(list, e)
  BY SameProvedList
<1>2. QED
  BY <1>1, PollProofs!AddedEntries

(* What remains after a removal was there before, and is not of the        *)
(* removed descriptor.                                                     *)
LEMMA RemainingEntries ==
    ASSUME NEW S, NEW list \in Seq(S), NEW fd,
           \A i, j \in DOMAIN list : list[i].fd = list[j].fd => i = j,
           NEW i \in DOMAIN RemEntry(list, fd)
    PROVE  /\ RemEntry(list, fd)[i].fd # fd
           /\ \E j \in DOMAIN list : RemEntry(list, fd)[i] = list[j]
<1>1. PollProofs!RemEntry(list, fd) = RemEntry(list, fd)
  BY SameProvedList
<1>2. QED
  BY <1>1, PollProofs!RemainingEntries

(* There is one activation of af_poll_run at most.                         *)
Activation == [apfds : Seq(Entry), due : SUBSET (1..MaxFds), cur : 0..MaxFds]

(* The list and the activation of the poll section, as the servers see     *)
(* them.                                                                   *)
LEMMA PollTypes ==
    ASSUME TypeOK
    PROVE  /\ pollList \in Seq(Entry)
           /\ runs \in Seq(Activation)
           /\ runs # <<>> => /\ Len(runs) = 1 /\ DOMAIN runs = {1}
                             /\ Last(runs) = runs[1] /\ Poll!Last(runs) = runs[1]
                             /\ runs[1] \in Activation
                             /\ runs[1].due \subseteq DOMAIN runs[1].apfds
                             /\ runs[1].cur \in {0} \cup DOMAIN runs[1].apfds
<1>1. /\ pollList \in Seq(Entry) /\ runs \in Seq(Activation) /\ Len(runs) <= 1
      /\ \A k \in DOMAIN runs : /\ runs[k].due \subseteq DOMAIN runs[k].apfds
                                /\ runs[k].cur \in {0} \cup DOMAIN runs[k].apfds
  BY DEF TypeOK, Poll!TypeOK, Poll!Run, Poll!PollEntry, Entry, PollEntry, Descriptor,
         Activation
<1>2. ASSUME runs # <<>>
      PROVE  /\ Len(runs) = 1 /\ DOMAIN runs = {1}
             /\ Last(runs) = runs[1] /\ Poll!Last(runs) = runs[1]
             /\ runs[1] \in Activation
  <2> DEFINE n == Len(runs)
  <2>1. n \in Nat /\ n # 0 /\ n <= 1 /\ DOMAIN runs = 1..n
    BY <1>1, <1>2
  <2> HIDE DEF n
  <2>2. n = 1
    BY <2>1
  <2>3. Len(runs) = 1 /\ DOMAIN runs = {1}
    BY <2>1, <2>2 DEF n
  <2>4. QED
    BY <1>1, <2>3 DEF Last, Poll!Last
<1>3. QED
  BY <1>1, <1>2

(* The descriptors the kernel gives out.                                   *)
LEMMA FreshDescriptors ==
    ASSUME FreeFds # {}
    PROVE  /\ FirstFd \in Descriptor /\ files[FirstFd] = Free
           /\ FreeFds \ {FirstFd} # {} => /\ SecondFd \in Descriptor
                                         /\ files[SecondFd] = Free
                                         /\ SecondFd # FirstFd
<1>1. FreeFds \in SUBSET Nat /\ FreeFds \subseteq Descriptor
      /\ \A f \in FreeFds : files[f] = Free
  BY DEF FreeFds, Descriptor
<1>2. FirstFd \in FreeFds
  BY <1>1, MinOfNaturals DEF FirstFd
<1>3. FreeFds \ {FirstFd} # {} => SecondFd \in FreeFds \ {FirstFd}
  BY <1>1, MinOfNaturals DEF SecondFd
<1>4. QED
  BY <1>1, <1>2, <1>3

(* Servers and connections are distinct, from each other and from the      *)
(* marks of the descriptor table.                                          *)
LEMMA Marks ==
    /\ \A s \in Server : s \notin Cnx /\ s # None /\ s # Free /\ s # Leaked /\ s \in Handler
    /\ \A c \in Cnx : c \notin Server /\ c # None /\ c # Free /\ c # Leaked /\ c \in Handler
BY HandlerAssumption DEF Handler

(* Registration from the server section.                                   *)
LEMMA PollAdd ==
    ASSUME TypeOK, NEW f \in Descriptor, NEW h \in Handler, Poll!af_poll_add(f, h)
    PROVE  /\ pollList' = AddEntry(pollList, [fd |-> f, ctx |-> h])
           /\ [fd |-> f, ctx |-> h] \in Entry
           /\ pollList' \in Seq(Entry) /\ runs' = runs
<1>1. pollList' = AddEntry(pollList, [fd |-> f, ctx |-> h]) /\ runs' = runs
  BY SameList DEF Poll!af_poll_add
<1>2. [fd |-> f, ctx |-> h] \in Entry
  BY DEF Entry, PollEntry
<1>3. QED
  BY <1>1, <1>2, PollTypes, ListTypes

(* The stack after a call: the new frame on top of what was there.         *)
LEMMA StackPush ==
    ASSUME TypeOK, NEW op \in Ops, NEW arg \in Handler, Push(op, arg)
    PROVE  /\ stack' \in Seq(Frames) /\ stack' # <<>>
           /\ Len(stack') = Len(stack) + 1
           /\ stack'[Len(stack) + 1] = Frame(op, arg)
           /\ Last(stack') = Frame(op, arg)
           /\ \A i \in 1..Len(stack) : stack'[i] = stack[i]
<1>1. stack \in Seq(Frames) /\ Frame(op, arg) \in Frames
  BY DEF TypeOK, Frame, Frames
<1>2. stack' = Append(stack, Frame(op, arg))
  BY DEF Push
<1>3. QED
  BY <1>1, <1>2 DEF Last

(* The top of a stack that is not empty.                                   *)
LEMMA StackTop ==
    ASSUME TypeOK, stack # <<>>
    PROVE  /\ Len(stack) \in Nat /\ Len(stack) >= 1 /\ DOMAIN stack = 1..Len(stack)
           /\ Len(stack) \in DOMAIN stack
           /\ Last(stack) = stack[Len(stack)] /\ Last(stack) \in Frames
<1>1. /\ Len(stack) \in Nat /\ Len(stack) >= 1
      /\ Last(stack) = stack[Len(stack)] /\ Last(stack) \in Frames
  BY FrontProperties DEF TypeOK
<1>2. DOMAIN stack = 1..Len(stack)
  BY DEF TypeOK
<1>3. QED
  BY <1>1, <1>2

(* The stack after a return: all but its top.                              *)
LEMMA StackPop ==
    ASSUME TypeOK, stack # <<>>, Return
    PROVE  /\ stack' \in Seq(Frames) /\ Len(stack) \in Nat /\ Len(stack) >= 1
           /\ Len(stack') = Len(stack) - 1
           /\ \A i \in 1..(Len(stack) - 1) : stack'[i] = stack[i]
           /\ Last(stack) = stack[Len(stack)] /\ Last(stack) \in Frames
BY FrontProperties DEF TypeOK, Return

(* The stack after one frame gives way to another.                         *)
LEMMA StackSwap ==
    ASSUME TypeOK, stack # <<>>, NEW op \in Ops, NEW arg \in Handler, Swap(op, arg)
    PROVE  /\ stack' \in Seq(Frames) /\ stack' # <<>>
           /\ Len(stack) \in Nat /\ Len(stack) >= 1
           /\ Len(stack') = Len(stack)
           /\ \A i \in 1..(Len(stack) - 1) : stack'[i] = stack[i]
           /\ stack'[Len(stack)] = Frame(op, arg)
           /\ Last(stack') = Frame(op, arg)
           /\ Last(stack) = stack[Len(stack)] /\ Last(stack) \in Frames
<1>1. stack \in Seq(Frames) /\ Frame(op, arg) \in Frames
  BY DEF TypeOK, Frame, Frames
<1> DEFINE front == Front(stack)
<1>2. /\ front \in Seq(Frames) /\ Len(stack) \in Nat /\ Len(stack) >= 1
      /\ Len(front) = Len(stack) - 1
      /\ \A i \in 1..(Len(stack) - 1) : front[i] = stack[i]
      /\ Last(stack) = stack[Len(stack)] /\ Last(stack) \in Frames
  BY <1>1, FrontProperties
<1>3. stack' = Append(front, Frame(op, arg))
  BY DEF Swap
<1> HIDE DEF front
<1>4. /\ stack' \in Seq(Frames) /\ Len(stack') = Len(front) + 1
      /\ \A i \in 1..Len(front) : stack'[i] = front[i]
      /\ stack'[Len(front) + 1] = Frame(op, arg)
  BY <1>1, <1>2, <1>3
<1>5. QED
  BY <1>2, <1>4 DEF Last

-----------------------------------------------------------------------------
(* What the steps of af_poll_run do to its activation.                     *)
LEMMA BeginEffect ==
    ASSUME TypeOK, RunBegin
    PROVE  /\ fault = None /\ runs = <<>> /\ stack = <<>>
           /\ UNCHANGED <<pollList, sockets, stack, fault>>
           /\ \E due \in SUBSET DOMAIN Snapshot(pollList) :
                 /\ runs' = <<[apfds |-> Snapshot(pollList), due |-> due, cur |-> 0]>>
                 /\ \A i \in due : Ready(Snapshot(pollList)[i].fd)
<1>1. /\ fault = None /\ runs = <<>> /\ stack = <<>>
      /\ UNCHANGED <<pollList, sockets, stack, fault>>
  BY DEF RunBegin, MainLoop, Poll!RunBegin
<1>2. PICK due \in SUBSET DOMAIN Snapshot(pollList) :
         runs' = Append(runs, [apfds |-> Snapshot(pollList), due |-> due, cur |-> 0])
  BY SameList DEF RunBegin, Poll!RunBegin
<1>3. runs' = <<[apfds |-> Snapshot(pollList), due |-> due, cur |-> 0]>>
  BY <1>1, <1>2
<1>4. due = {i \in DOMAIN Snapshot(pollList) : Ready(Snapshot(pollList)[i].fd)}
  <2>1. runs'[1].apfds = Snapshot(pollList) /\ runs'[1].due = due
    BY <1>3
  <2>2. runs'[1].due = {i \in DOMAIN runs'[1].apfds : Ready(runs'[1].apfds[i].fd)}
    BY DEF RunBegin
  <2>3. QED
    BY <2>1, <2>2
<1>5. QED
  BY <1>1, <1>3, <1>4

(* Replacing the only activation replaces all there is.                    *)
LEMMA TopReplaced ==
    ASSUME TypeOK, runs # <<>>, NEW r, Poll!SetTop(r)
    PROVE  runs' = <<r>>
<1>1. Poll!Front(runs) = <<>>
  <2>1. Poll!Front(runs) = Front(runs)
    BY DEF Poll!Front, Front
  <2>2. Front(runs) \in Seq(Activation) /\ Len(Front(runs)) = 0
    BY PollTypes, FrontProperties
  <2>3. QED
    BY <2>1, <2>2
<1>2. QED
  BY <1>1 DEF Poll!SetTop

(* What the call of a handler changes.                                     *)
LEMMA DispatchEffect ==
    ASSUME TypeOK, Dispatch
    PROVE  /\ fault = None /\ runs # <<>> /\ stack = <<>> /\ runs[1].cur = 0
           /\ UNCHANGED <<pollList, sockets, fault>>
           /\ \E i \in runs[1].due :
                 /\ runs' = <<[apfds |-> runs[1].apfds, due |-> runs[1].due \ {i},
                               cur |-> i]>>
                 /\ stack' = <<Frame("handle", runs[1].apfds[i].ctx)>>
<1>1. /\ fault = None /\ runs # <<>> /\ stack = <<>> /\ runs[1].cur = 0
      /\ UNCHANGED <<pollList, sockets, fault>>
  BY PollTypes DEF Dispatch, Poll!Dispatch
<1>2. PICK i \in runs[1].due :
         Poll!SetTop([apfds |-> runs[1].apfds, due |-> runs[1].due \ {i}, cur |-> i])
  BY <1>1, PollTypes DEF Dispatch, Poll!Dispatch
<1>3. runs' = <<[apfds |-> runs[1].apfds, due |-> runs[1].due \ {i}, cur |-> i]>>
  BY <1>1, <1>2, TopReplaced
<1>4. Poll!Called' = runs[1].apfds[i]
  <2>1. Poll!Last(runs') = runs'[1]
    BY <1>3 DEF Poll!Last
  <2>2. runs'[1].apfds = runs[1].apfds /\ runs'[1].cur = i
    BY <1>3
  <2>3. QED
    BY <2>1, <2>2 DEF Poll!Called
<1>5. stack' = <<Frame("handle", runs[1].apfds[i].ctx)>>
  BY <1>4 DEF Dispatch
<1>6. QED
  BY <1>1, <1>3, <1>5

(* What the return of a handler changes.                                   *)
LEMMA CallbackEffect ==
    ASSUME TypeOK, CallbackReturn
    PROVE  /\ runs # <<>> /\ stack = <<>>
           /\ UNCHANGED <<pollList, sockets, stack, fault>>
           /\ runs' = <<[apfds |-> runs[1].apfds, due |-> runs[1].due, cur |-> 0]>>
<1>1. /\ runs # <<>> /\ stack = <<>>
      /\ UNCHANGED <<pollList, sockets, stack, fault>>
      /\ Poll!SetTop([Poll!Last(runs) EXCEPT !.cur = 0])
  BY DEF CallbackReturn, Poll!CallbackReturn
<1>2. [Poll!Last(runs) EXCEPT !.cur = 0] =
         [apfds |-> runs[1].apfds, due |-> runs[1].due, cur |-> 0]
  <2>1. \A r \in Activation :
           [r EXCEPT !.cur = 0] = [apfds |-> r.apfds, due |-> r.due, cur |-> 0]
    BY DEF Activation
  <2>2. runs[1] \in Activation /\ Poll!Last(runs) = runs[1]
    BY <1>1, PollTypes
  <2>3. QED
    BY <2>1, <2>2
<1>3. QED
  BY <1>1, <1>2, TopReplaced

(* What the end of a run changes.                                          *)
LEMMA RunReturnEffect ==
    ASSUME TypeOK, RunReturn
    PROVE  /\ stack = <<>> /\ runs' = <<>>
           /\ UNCHANGED <<pollList, sockets, stack, fault>>
<1>1. /\ stack = <<>> /\ runs # <<>> /\ runs' = Poll!Front(runs)
      /\ UNCHANGED <<pollList, sockets, stack, fault>>
  BY DEF RunReturn, Poll!RunReturn
<1>2. Poll!Front(runs) = Front(runs)
  BY DEF Poll!Front, Front
<1>3. Front(runs) \in Seq(Activation) /\ Len(Front(runs)) = 0
  BY <1>1, PollTypes, FrontProperties
<1>4. QED
  BY <1>1, <1>2, <1>3

-----------------------------------------------------------------------------
(* The steps by what they do to connections, descriptors and the list.     *)
Quiet == UNCHANGED <<pollList, files, server, cnx>>

Begins(c) ==
    /\ Open(c) /\ BeginDisconnect(c) /\ UNCHANGED <<runs, sockets, fault>>
    /\ Push("disconnect", c) \/ (Top("handle", c) /\ Swap("disconnect", c))

Ends(c) == DisconnectReturn(c) /\ Open(c)

(* A step leaves the sockets alone or is one of six that do not.           *)
LEMMA StepKinds ==
    ASSUME TypeOK, ListsInv, [Next]_vars
    PROVE  \/ Quiet
           \/ \E s \in Server : \/ af_server_start(s) \/ StopReturn(s)
                                \/ AcceptLeaks(s) \/ AcceptConnection(s)
           \/ \E c \in Cnx : Begins(c) \/ Ends(c)
<1>1. ASSUME Clients PROVE Quiet
  BY <1>1 DEF Clients, Connect, Send, HangUp, Quiet
<1>2. ASSUME NEW s \in Server, DisconnectNext(s)
      PROVE  \E c \in Cnx : Begins(c)
  <2> DEFINE c == Head(server[s].cnx)
  <2>1. server[s].cnx \in Seq(Cnx) /\ server[s].cnx # <<>>
    BY <1>2 DEF TypeOK, DisconnectNext
  <2>2. c \in Cnx /\ Contains(server[s].cnx, c)
    BY <2>1 DEF Contains
  <2>3. Open(c)
    BY <2>2, Marks DEF ListsInv, Open
  <2> HIDE DEF c
  <2>4. Begins(c)
    BY <1>2, <2>3 DEF DisconnectNext, Begins, c
  <2>5. QED
    BY <2>2, <2>4
<1>3. ASSUME NEW s \in Server,
             \/ af_server_disconnect_all(s) \/ af_server_stop(s) \/ DisconnectAllReturn(s)
             \/ AcceptFails(s) \/ AcceptBlocks(s) \/ AcceptRefuses(s)
      PROVE  Quiet
  BY <1>3 DEF af_server_disconnect_all, af_server_stop, DisconnectAllReturn, AcceptFails,
              AcceptBlocks, AcceptRefuses, Quiet, sockets
<1>4. ASSUME NEW c \in Cnx, DisconnectReturn(c)
      PROVE  Quiet \/ Ends(c)
  BY <1>4 DEF DisconnectReturn, Ends, Quiet
<1>5. ASSUME NEW c \in Cnx, af_server_disconnect(c) \/ ReadEnd(c)
      PROVE  Begins(c)
  BY <1>5 DEF af_server_disconnect, ReadEnd, Begins
<1>6. ASSUME NEW c \in Cnx,
             NewConnectionReturn(c) \/ ReadCommand(c) \/ ReadFails(c) \/ CommandReturn(c)
      PROVE  Quiet
  BY <1>6 DEF NewConnectionReturn, ReadCommand, ReadFails, CommandReturn, Quiet, sockets
<1>7. CASE RunBegin \/ Dispatch \/ CallbackReturn \/ RunReturn
  BY <1>7, BeginEffect, DispatchEffect, CallbackEffect, RunReturnEffect DEF Quiet, sockets
<1>8. CASE UNCHANGED vars
  BY <1>8 DEF vars, sockets, Quiet
<1>9. CASE Application
  BY <1>3, <1>5, <1>9 DEF Application
<1>10. CASE Library
  BY <1>2, <1>3, <1>4, <1>5, <1>6, <1>7, <1>10, Zenon DEF Library
<1>11. QED
  BY <1>1, <1>7, <1>8, <1>9, <1>10 DEF Next

-----------------------------------------------------------------------------
(* Type correctness.                                                       *)
ServerData == [fd : NoFile..NumFds, cnx : Seq(Cnx), num_cnx : Nat]
CnxData == [fd : 0..NumFds, dup : 0..NumFds, server : Server \cup {None}]

(* The types of the sockets, spelled out.                                  *)
LEMMA SocketTypes ==
    ASSUME TypeOK
    PROVE  /\ files \in [Descriptor -> Handler \cup {Free, Leaked}]
           /\ server \in [Server -> ServerData] /\ cnx \in [Cnx -> CnxData]
           /\ Descriptor \subseteq Nat \ {0} /\ Descriptor \subseteq 0..NumFds
           /\ Descriptor \subseteq NoFile..NumFds
BY DEF TypeOK, Descriptor, ServerData, CnxData, NoFile

(* What the steps that change connections make of them, field by field.    *)
LEMMA StartEffect ==
    ASSUME TypeOK, NEW s \in Server, af_server_start(s)
    PROVE  /\ FirstFd \in Descriptor /\ files[FirstFd] = Free /\ ~ Listening(s)
           /\ files' = [files EXCEPT ![FirstFd] = s]
           /\ server'[s] = [fd |-> FirstFd, cnx |-> <<>>, num_cnx |-> 0]
           /\ \A x \in Server \ {s} : server'[x] = server[x]
           /\ server' \in [Server -> ServerData]
           /\ pollList' = AddEntry(pollList, [fd |-> FirstFd, ctx |-> s])
           /\ [fd |-> FirstFd, ctx |-> s] \in Entry /\ pollList' \in Seq(Entry)
           /\ UNCHANGED <<runs, cnx, rx, backlog, stack, fault>>
<1>1. FirstFd \in Descriptor /\ files[FirstFd] = Free
  BY FreshDescriptors DEF af_server_start
<1>2. /\ pollList' = AddEntry(pollList, [fd |-> FirstFd, ctx |-> s]) /\ runs' = runs
      /\ [fd |-> FirstFd, ctx |-> s] \in Entry /\ pollList' \in Seq(Entry)
  BY <1>1, Marks, PollAdd DEF af_server_start
<1>3. server' = [server EXCEPT ![s] = [fd |-> FirstFd, cnx |-> <<>>, num_cnx |-> 0]]
  BY DEF af_server_start
<1>4. [fd |-> FirstFd, cnx |-> <<>>, num_cnx |-> 0] \in ServerData
  BY <1>1, SocketTypes DEF ServerData
<1>5. server' \in [Server -> ServerData]
  BY <1>3, <1>4, SocketTypes
<1>6. QED
  BY <1>1, <1>2, <1>3, <1>5, SocketTypes DEF af_server_start

(* What the end of af_server_stop changes.                                 *)
LEMMA StopEffect ==
    ASSUME TypeOK, NEW s \in Server, StopReturn(s)
    PROVE  /\ server[s].cnx = <<>> /\ stack # <<>> /\ Last(stack) = Frame("stop", s)
           /\ fault = None
           /\ files' = [f \in Descriptor |-> IF f = server[s].fd THEN Free ELSE files[f]]
           /\ server'[s].fd = NoFile /\ server'[s].cnx = <<>>
           /\ server'[s].num_cnx = server[s].num_cnx
           /\ \A x \in Server \ {s} : server'[x] = server[x]
           /\ server' \in [Server -> ServerData]
           /\ pollList' = RemEntry(pollList, server[s].fd)
           /\ backlog' = [backlog EXCEPT ![s] = 0] /\ Return
           /\ UNCHANGED <<runs, cnx, rx, fault>>
<1>1. server' = [server EXCEPT ![s].fd = NoFile] /\ server[s].cnx = <<>>
  BY DEF StopReturn
<1>2. server[s] \in ServerData /\ NoFile \in NoFile..NumFds
  BY SocketTypes DEF NoFile
<1>3. server'[s] = [server[s] EXCEPT !.fd = NoFile]
  BY <1>1, SocketTypes
<1>4. /\ server'[s].fd = NoFile /\ server'[s].cnx = server[s].cnx
      /\ server'[s].num_cnx = server[s].num_cnx /\ server'[s] \in ServerData
  BY <1>2, <1>3 DEF ServerData
<1>5. \A x \in Server \ {s} : server'[x] = server[x]
  BY <1>1, SocketTypes
<1>6. server' \in [Server -> ServerData]
  BY <1>1, <1>3, <1>4, SocketTypes
<1>7. QED
  BY <1>1, <1>4, <1>5, <1>6 DEF StopReturn, Top, Descriptor

(* What the end of af_server_disconnect changes: one connection leaves one *)
(* list, and its two descriptors are closed.                               *)
LEMMA EndEffect ==
    ASSUME TypeOK, ListsInv, NEW c \in Cnx, Ends(c)
    PROVE  /\ cnx[c].server \in Server /\ fault = None
           /\ stack # <<>> /\ Last(stack) = Frame("disconnect", c)
           /\ files' = [f \in Descriptor |-> IF f \in {cnx[c].fd, cnx[c].dup} THEN Free
                                             ELSE files[f]]
           /\ Contains(server[cnx[c].server].cnx, c)
           /\ server'[cnx[c].server].cnx = RemoveFirst(server[cnx[c].server].cnx, c)
           /\ server'[cnx[c].server].fd = server[cnx[c].server].fd
           /\ server'[cnx[c].server].num_cnx = server[cnx[c].server].num_cnx - 1
           /\ \A x \in Server \ {cnx[c].server} : server'[x] = server[x]
           /\ server' \in [Server -> ServerData]
           /\ cnx'[c] = NoCnx /\ \A x \in Cnx \ {c} : cnx'[x] = cnx[x]
           /\ cnx' \in [Cnx -> CnxData]
           /\ rx' = [rx EXCEPT ![c] = {}] /\ Return
           /\ UNCHANGED <<pollList, runs, backlog, fault>>
<1> DEFINE s == cnx[c].server
           list == server[s].cnx
<1>1. s \in Server
  BY SocketTypes DEF Ends, Open, CnxData
<1>2. /\ Contains(list, c) /\ list \in Seq(Cnx) /\ IsInjective(list)
      /\ server[s].num_cnx = Len(list) /\ server[s] \in ServerData
  BY <1>1, SocketTypes DEF ListsInv, ServerData
<1>3. RemInstance(c) /\ fault' = fault
  BY DEF Ends, DisconnectReturn
<1>4. server' = [server EXCEPT ![s].cnx = RemoveFirst(list, c), ![s].num_cnx = @ - 1]
  BY <1>2, <1>3 DEF RemInstance
<1>5. /\ RemoveFirst(list, c) \in Seq(Cnx) /\ Len(list) - 1 \in Nat
  BY <1>2, RemoveFirstType, RemoveFirstShortens
<1> HIDE DEF s, list
<1>6. /\ server'[s].cnx = RemoveFirst(list, c) /\ server'[s].fd = server[s].fd
      /\ server'[s].num_cnx = server[s].num_cnx - 1 /\ server'[s] \in ServerData
  <2>1. server'[s] = [server[s] EXCEPT !.cnx = RemoveFirst(list, c), !.num_cnx = @ - 1]
    BY <1>1, <1>4, SocketTypes
  <2>2. QED
    BY <1>2, <1>5, <2>1 DEF ServerData
<1>7. \A x \in Server \ {s} : server'[x] = server[x]
  BY <1>4, SocketTypes
<1>8. server' \in [Server -> ServerData]
  <2>1. DOMAIN server' = Server /\ \A x \in Server : server'[x] \in ServerData
    BY <1>4, <1>6, <1>7, SocketTypes
  <2>2. server' = [x \in Server |-> server'[x]]
    BY <1>4, <2>1, SocketTypes
  <2>3. QED
    BY <2>1, <2>2
<1>9. /\ cnx' = [cnx EXCEPT ![c] = NoCnx] /\ rx' = [rx EXCEPT ![c] = {}]
      /\ files' = [f \in Descriptor |-> IF f \in {cnx[c].fd, cnx[c].dup} THEN Free
                                        ELSE files[f]]
  BY <1>3 DEF RemInstance, Descriptor
<1>10. NoCnx \in CnxData
  BY DEF NoCnx, CnxData
<1>11. cnx'[c] = NoCnx /\ (\A x \in Cnx \ {c} : cnx'[x] = cnx[x]) /\ cnx' \in [Cnx -> CnxData]
  BY <1>9, <1>10, SocketTypes
<1>12. QED
  BY <1>1, <1>2, <1>6, <1>7, <1>8, <1>9, <1>11 DEF Ends, DisconnectReturn, Top, s, list

(* What an accept that fails at SO_LINGER changes: a descriptor is lost.   *)
LEMMA LeakEffect ==
    ASSUME TypeOK, NEW s \in Server, AcceptLeaks(s)
    PROVE  /\ fault = None /\ stack # <<>> /\ Last(stack) = Frame("handle", s)
           /\ SecondFd \in Descriptor /\ files[SecondFd] = Free
           /\ files' = [files EXCEPT ![SecondFd] = Leaked]
           /\ backlog[s] > 0 /\ backlog' = [backlog EXCEPT ![s] = @ - 1] /\ Return
           /\ UNCHANGED <<pollList, runs, server, cnx, rx, fault>>
BY FreshDescriptors DEF AcceptLeaks, MayConnect, CanAccept, Top

(* The connection c that is made.                                          *)
Accepts(s, c) ==
    /\ ~ Open(c)
    /\ cnx'[c] = [fd |-> FirstFd, dup |-> SecondFd, server |-> s]
    /\ \A x \in Cnx \ {c} : cnx'[x] = cnx[x]
    /\ files' = [files EXCEPT ![FirstFd] = c, ![SecondFd] = c]
    /\ server'[s].cnx = <<c>> \o server[s].cnx
    /\ server'[s].num_cnx = server[s].num_cnx + 1
    /\ pollList' = AddEntry(pollList, [fd |-> FirstFd, ctx |-> c])
    /\ [fd |-> FirstFd, ctx |-> c] \in Entry
    /\ Swap("new_connection", c)

(* What a successful accept changes: one connection joins one list, with   *)
(* two descriptors that were free.                                         *)
LEMMA AcceptEffect ==
    ASSUME TypeOK, NEW s \in Server, AcceptConnection(s)
    PROVE  /\ fault = None /\ stack # <<>> /\ Last(stack) = Frame("handle", s)
           /\ server[s].fd # NoFile /\ server[s].num_cnx < MaxCnx
           /\ FirstFd \in Descriptor /\ files[FirstFd] = Free
           /\ SecondFd \in Descriptor /\ files[SecondFd] = Free /\ SecondFd # FirstFd
           /\ \E c \in Cnx : Accepts(s, c)
           /\ server'[s].fd = server[s].fd
           /\ \A x \in Server \ {s} : server'[x] = server[x]
           /\ server' \in [Server -> ServerData] /\ cnx' \in [Cnx -> CnxData]
           /\ files' \in [Descriptor -> Handler \cup {Free, Leaked}]
           /\ backlog[s] > 0 /\ backlog' = [backlog EXCEPT ![s] = @ - 1]
           /\ UNCHANGED <<runs, rx, fault>>
<1>1. /\ fault = None /\ stack # <<>> /\ Last(stack) = Frame("handle", s)
      /\ server[s].fd # NoFile /\ server[s].num_cnx < MaxCnx
      /\ FreeFds # {} /\ FreeFds \ {FirstFd} # {} /\ backlog[s] > 0
      /\ backlog' = [backlog EXCEPT ![s] = @ - 1] /\ UNCHANGED <<rx, fault>>
  BY DEF AcceptConnection, MayConnect, CanAccept, Top
<1>2. /\ FirstFd \in Descriptor /\ files[FirstFd] = Free
      /\ SecondFd \in Descriptor /\ files[SecondFd] = Free /\ SecondFd # FirstFd
  BY <1>1, FreshDescriptors
<1>3. PICK c \in Cnx :
         /\ ~ Open(c)
         /\ cnx' = [cnx EXCEPT ![c] = [fd |-> FirstFd, dup |-> SecondFd, server |-> s]]
         /\ files' = [files EXCEPT ![FirstFd] = c, ![SecondFd] = c]
         /\ server' = [server EXCEPT ![s].cnx = <<c>> \o @, ![s].num_cnx = @ + 1]
         /\ Poll!af_poll_add(FirstFd, c)
         /\ Swap("new_connection", c)
  BY DEF AcceptConnection
<1> DEFINE block == [fd |-> FirstFd, dup |-> SecondFd, server |-> s]
           list == <<c>> \o server[s].cnx
<1>4. block \in CnxData
  BY <1>2, SocketTypes DEF CnxData
<1>5. server[s] \in ServerData /\ list \in Seq(Cnx) /\ server[s].num_cnx + 1 \in Nat
  <2>1. server[s] \in ServerData /\ server[s].cnx \in Seq(Cnx) /\ server[s].num_cnx \in Nat
    BY SocketTypes DEF ServerData
  <2>2. QED
    BY <2>1, ConsProperties
<1> HIDE DEF list, block
<1>6. server'[s] = [server[s] EXCEPT !.cnx = list, !.num_cnx = @ + 1]
  BY <1>3, SocketTypes DEF list
<1>7. /\ server'[s].cnx = list /\ server'[s].fd = server[s].fd
      /\ server'[s].num_cnx = server[s].num_cnx + 1 /\ server'[s] \in ServerData
  BY <1>5, <1>6 DEF ServerData
<1>8. \A x \in Server \ {s} : server'[x] = server[x]
  BY <1>3, SocketTypes
<1>9. server' \in [Server -> ServerData]
  <2>1. DOMAIN server' = Server /\ \A x \in Server : server'[x] \in ServerData
    BY <1>3, <1>7, <1>8, SocketTypes
  <2>2. server' = [x \in Server |-> server'[x]]
    BY <1>3, <2>1, SocketTypes
  <2>3. QED
    BY <2>1, <2>2
<1>10. /\ cnx' \in [Cnx -> CnxData] /\ cnx'[c] = block
       /\ \A x \in Cnx \ {c} : cnx'[x] = cnx[x]
  BY <1>3, <1>4, SocketTypes DEF block
<1>11. files' \in [Descriptor -> Handler \cup {Free, Leaked}]
  BY <1>2, <1>3, SocketTypes, Marks
<1>12. /\ pollList' = AddEntry(pollList, [fd |-> FirstFd, ctx |-> c]) /\ runs' = runs
       /\ [fd |-> FirstFd, ctx |-> c] \in Entry
  BY <1>2, <1>3, Marks, PollAdd
<1>13. Accepts(s, c)
  BY <1>3, <1>7, <1>10, <1>12 DEF Accepts, block, list
<1>14. QED
  BY <1>1, <1>2, <1>7, <1>8, <1>9, <1>10, <1>11, <1>12, <1>13

(* The initial states are typed.                                           *)
LEMMA TypeInit == Init => TypeOK
<1>1. SUFFICES ASSUME Init PROVE TypeOK
  OBVIOUS
<1>2. Poll!TypeOK
  BY <1>1 DEF Init, Poll!Init, Poll!TypeOK
<1>3. files \in [Descriptor -> Handler \cup {Free, Leaked}]
  BY <1>1 DEF Init, Descriptor
<1>4. server \in [Server -> ServerData]
  BY <1>1 DEF Init, ServerData, NoFile
<1>5. cnx \in [Cnx -> CnxData]
  BY <1>1 DEF Init, CnxData, NoCnx
<1>6. /\ rx \in [Cnx -> SUBSET {"data", "end"}] /\ backlog \in [Server -> 0..MaxBacklog]
      /\ stack \in Seq(Frames) /\ fault \in {None, "undefined", "blocked"}
  BY <1>1 DEF Init
<1>7. QED
  BY <1>2, <1>3, <1>4, <1>5, <1>6 DEF TypeOK, Descriptor, ServerData, CnxData

(* Every step preserves the types of the sockets and of the poll list.     *)
LEMMA ConnectionTypes ==
    ASSUME TypeOK, ListsInv, [Next]_vars
    PROVE  /\ files' \in [Descriptor -> Handler \cup {Free, Leaked}]
           /\ server' \in [Server -> ServerData] /\ cnx' \in [Cnx -> CnxData]
           /\ pollList' \in Seq(Entry)
<1>1. /\ files \in [Descriptor -> Handler \cup {Free, Leaked}]
      /\ server \in [Server -> ServerData] /\ cnx \in [Cnx -> CnxData]
      /\ pollList \in Seq(Entry)
  BY SocketTypes, PollTypes
<1>2. CASE Quiet
  BY <1>1, <1>2 DEF Quiet
<1>3. ASSUME NEW s \in Server, af_server_start(s)
      PROVE  /\ files' \in [Descriptor -> Handler \cup {Free, Leaked}]
             /\ server' \in [Server -> ServerData] /\ cnx' = cnx
             /\ pollList' \in Seq(Entry)
  <2>1. pollList' \in Seq(Entry)
    BY <1>3, StartEffect
  <2>2. files' = [files EXCEPT ![FirstFd] = s] /\ FirstFd \in Descriptor
    BY <1>3, StartEffect
  <2>3. files' \in [Descriptor -> Handler \cup {Free, Leaked}]
    BY <1>1, <2>2, Marks
  <2>4. QED
    BY <1>3, <2>1, <2>3, StartEffect
<1>4. ASSUME NEW s \in Server, StopReturn(s)
      PROVE  /\ files' \in [Descriptor -> Handler \cup {Free, Leaked}]
             /\ server' \in [Server -> ServerData] /\ cnx' = cnx
             /\ pollList' \in Seq(Entry)
  <2>1. pollList' = RemEntry(pollList, server[s].fd)
    BY <1>4, StopEffect
  <2>2. pollList' \in Seq(Entry)
    BY <1>1, <2>1, ListTypes
  <2>3. files' \in [Descriptor -> Handler \cup {Free, Leaked}]
    BY <1>1, <1>4, StopEffect
  <2>4. QED
    BY <1>4, <2>2, <2>3, StopEffect
<1>5. ASSUME NEW s \in Server, AcceptLeaks(s)
      PROVE  /\ files' \in [Descriptor -> Handler \cup {Free, Leaked}]
             /\ server' = server /\ cnx' = cnx /\ pollList' = pollList
  BY <1>1, <1>5, LeakEffect
<1>6. ASSUME NEW s \in Server, AcceptConnection(s)
      PROVE  /\ files' \in [Descriptor -> Handler \cup {Free, Leaked}]
             /\ server' \in [Server -> ServerData] /\ cnx' \in [Cnx -> CnxData]
             /\ pollList' \in Seq(Entry)
  <2>1. PICK c \in Cnx : Accepts(s, c)
    BY <1>6, AcceptEffect
  <2>2. pollList' \in Seq(Entry)
    BY <1>1, <2>1, ListTypes DEF Accepts
  <2>3. QED
    BY <1>6, <2>2, AcceptEffect
<1>7. ASSUME NEW c \in Cnx, Begins(c)
      PROVE  pollList' \in Seq(Entry) /\ UNCHANGED <<files, server, cnx>>
  BY <1>1, <1>7, ListTypes DEF Begins, BeginDisconnect, sockets
<1>8. ASSUME NEW c \in Cnx, Ends(c)
      PROVE  /\ files' \in [Descriptor -> Handler \cup {Free, Leaked}]
             /\ server' \in [Server -> ServerData] /\ cnx' \in [Cnx -> CnxData]
             /\ pollList' = pollList
  BY <1>1, <1>8, EndEffect
<1>9. QED
  BY <1>1, <1>2, <1>3, <1>4, <1>5, <1>6, <1>7, <1>8, StepKinds, Zenon

(* The steps by what they do to the activations.                           *)
LEMMA RunKinds ==
    ASSUME TypeOK, ListsInv, [Next]_vars
    PROVE  UNCHANGED runs \/ RunBegin \/ Dispatch \/ CallbackReturn \/ RunReturn
<1>1. ASSUME NEW s \in Server, af_server_start(s) \/ AcceptConnection(s)
      PROVE  UNCHANGED runs
  BY <1>1, StartEffect, AcceptEffect
<1>2. ASSUME NEW s \in Server,
             \/ af_server_disconnect_all(s) \/ af_server_stop(s) \/ DisconnectNext(s)
             \/ DisconnectAllReturn(s) \/ StopReturn(s) \/ AcceptFails(s)
             \/ AcceptBlocks(s) \/ AcceptRefuses(s) \/ AcceptLeaks(s)
      PROVE  UNCHANGED runs
  BY <1>2 DEF af_server_disconnect_all, af_server_stop, DisconnectNext, DisconnectAllReturn,
              StopReturn, AcceptFails, AcceptBlocks, AcceptRefuses, AcceptLeaks
<1>3. ASSUME NEW c \in Cnx,
             \/ af_server_disconnect(c) \/ DisconnectReturn(c) \/ NewConnectionReturn(c)
             \/ ReadCommand(c) \/ ReadEnd(c) \/ ReadFails(c) \/ CommandReturn(c)
      PROVE  UNCHANGED runs
  BY <1>3 DEF af_server_disconnect, DisconnectReturn, NewConnectionReturn, ReadCommand,
              ReadEnd, ReadFails, CommandReturn
<1>4. CASE Clients
  BY <1>4 DEF Clients, Connect, Send, HangUp
<1>5. CASE Application
  BY <1>1, <1>2, <1>3, <1>5, Zenon DEF Application
<1>6. CASE Library
  BY <1>1, <1>2, <1>3, <1>6, Zenon DEF Library
<1>7. CASE UNCHANGED vars
  BY <1>7 DEF vars
<1>8. QED
  BY <1>4, <1>5, <1>6, <1>7, Zenon DEF Next

(* The steps by what they do to the stack.                                 *)
Rests ==
    \/ Clients \/ RunBegin \/ CallbackReturn \/ RunReturn \/ UNCHANGED vars
    \/ \E s \in Server : af_server_start(s) \/ AcceptBlocks(s)
    \/ \E c \in Cnx : ReadFails(c)

Pushes(op, arg) ==
    /\ op \in {"disconnect", "disconnect_all", "stop"} /\ Push(op, arg)
    /\ op = "disconnect" => arg \in Cnx /\ Open(arg) /\ BeginDisconnect(arg)
    /\ op # "disconnect" => arg \in Server /\ server[arg].fd # 0
    /\ stack = <<>> => runs = <<>>
    /\ OwnCnxOnly /\ stack # <<>> =>
          /\ op = "disconnect"
          /\ \/ Last(stack) = Frame("command", arg)
             \/ Last(stack).op \in {"stop", "disconnect_all"}
    /\ UNCHANGED <<runs, cnx>>

Swaps(op, arg) ==
    /\ op \in {"new_connection", "command", "disconnect"} /\ Swap(op, arg)
    /\ arg \in Cnx
    /\ op = "disconnect" => Open(arg) /\ BeginDisconnect(arg)
    /\ op = "new_connection" => cnx'[arg].server # None
    /\ op # "new_connection" => Last(stack) = Frame("handle", arg) /\ UNCHANGED cnx
    /\ stack # <<>> /\ Last(stack).op = "handle"
    /\ UNCHANGED runs

Pops ==
    /\ stack # <<>> /\ Return
    /\ \A c \in Cnx : Last(stack) = Frame("disconnect", c) => cnx'[c].server = None
    /\ \A c \in Cnx : cnx'[c] = cnx[c] \/ cnx'[c].server = None
    /\ UNCHANGED runs

(* What a step does to the stack of activations.                           *)
LEMMA StackKinds ==
    ASSUME TypeOK, ListsInv, [Next]_vars
    PROVE  \/ Rests /\ UNCHANGED stack
           \/ \E op \in Ops, arg \in Handler : Pushes(op, arg) \/ Swaps(op, arg)
           \/ Pops
           \/ Dispatch
<1>1. ASSUME NEW s \in Server, AcceptConnection(s)
      PROVE  \E c \in Cnx : Swaps("new_connection", c)
  <2>1. PICK c \in Cnx : Accepts(s, c)
    BY <1>1, AcceptEffect
  <2>2. stack # <<>> /\ Last(stack).op = "handle" /\ UNCHANGED runs
    BY <1>1, AcceptEffect DEF Frame
  <2>3. Swap("new_connection", c) /\ cnx'[c].server = s /\ s # None
    BY <2>1, Marks DEF Accepts
  <2>4. Swaps("new_connection", c)
    BY <2>2, <2>3 DEF Swaps
  <2>5. QED
    BY <2>4
<1> USE DEF Top, Frame, sockets
<1>2. ASSUME NEW s \in Server, af_server_disconnect_all(s)
      PROVE  Pushes("disconnect_all", s)
  BY <1>2 DEF af_server_disconnect_all, Pushes, InApplication
<1>3. ASSUME NEW s \in Server, af_server_stop(s)
      PROVE  Pushes("stop", s)
  BY <1>3 DEF af_server_stop, Pushes, InApplication
<1>4. ASSUME NEW s \in Server, DisconnectNext(s)
      PROVE  \E c \in Cnx : Pushes("disconnect", c)
  <2>1. server[s].cnx \in Seq(Cnx) /\ server[s].cnx # <<>>
    BY <1>4, SocketTypes DEF DisconnectNext, ServerData
  <2>2. Head(server[s].cnx) \in Cnx /\ Contains(server[s].cnx, Head(server[s].cnx))
    BY <2>1 DEF Contains
  <2>3. Open(Head(server[s].cnx))
    BY <2>2, Marks DEF ListsInv, Open
  <2>4. QED
    BY <1>4, <2>2, <2>3 DEF DisconnectNext, Pushes
<1>5. ASSUME NEW s \in Server,
             \/ DisconnectAllReturn(s) \/ StopReturn(s) \/ AcceptFails(s)
             \/ AcceptRefuses(s) \/ AcceptLeaks(s)
      PROVE  Pops
  BY <1>5 DEF DisconnectAllReturn, StopReturn, AcceptFails, AcceptRefuses, AcceptLeaks, Pops
<1>6. ASSUME NEW s \in Server, af_server_start(s) \/ AcceptBlocks(s)
      PROVE  Rests /\ UNCHANGED stack
  BY <1>6 DEF af_server_start, AcceptBlocks, Rests
<1>7. ASSUME NEW c \in Cnx, af_server_disconnect(c)
      PROVE  Pushes("disconnect", c)
  BY <1>7 DEF af_server_disconnect, Pushes, InApplication
<1>8. ASSUME NEW c \in Cnx, DisconnectReturn(c) \/ NewConnectionReturn(c) \/ CommandReturn(c)
      PROVE  Pops
  <2>1. CASE NewConnectionReturn(c) \/ CommandReturn(c)
    BY <2>1 DEF NewConnectionReturn, CommandReturn, Pops
  <2>2. CASE DisconnectReturn(c)
    <3>1. /\ cnx'[c].server = None
          /\ \A x \in Cnx : cnx'[x] = cnx[x] \/ cnx'[x].server = None
      BY <2>2, SocketTypes DEF DisconnectReturn, RemInstance, Open, NoCnx
    <3>2. \A x \in Cnx : Last(stack) = Frame("disconnect", x) => x = c
      BY <2>2 DEF DisconnectReturn
    <3>3. QED
      BY <2>2, <3>1, <3>2 DEF DisconnectReturn, Pops
  <2>3. QED
    BY <1>8, <2>1, <2>2
<1>9. ASSUME NEW c \in Cnx, ReadCommand(c)
      PROVE  Swaps("command", c)
  BY <1>9 DEF ReadCommand, Swaps
<1>10. ASSUME NEW c \in Cnx, ReadEnd(c)
       PROVE  Swaps("disconnect", c)
  BY <1>10 DEF ReadEnd, Swaps
<1>11. ASSUME NEW c \in Cnx, ReadFails(c) PROVE Rests /\ UNCHANGED stack
  BY <1>11 DEF ReadFails, Rests
<1>12. ASSUME RunBegin \/ CallbackReturn \/ RunReturn \/ Clients \/ UNCHANGED vars
       PROVE  Rests /\ UNCHANGED stack
  BY <1>12 DEF Rests, RunBegin, CallbackReturn, RunReturn, Clients, Connect, Send, HangUp, vars
<1>13. {"disconnect", "disconnect_all", "stop", "new_connection", "command"} \subseteq Ops
       /\ Cnx \subseteq Handler /\ Server \subseteq Handler
  BY DEF Ops, Handler
<1> USE <1>13
<1> HIDE DEF Top, Frame, sockets
<1>14. CASE Application
  BY <1>2, <1>3, <1>6, <1>7, <1>14 DEF Application
<1>15. CASE Library
  <2>1. CASE \E s \in Server : \/ DisconnectNext(s) \/ DisconnectAllReturn(s)
                               \/ StopReturn(s) \/ AcceptFails(s) \/ AcceptBlocks(s)
                               \/ AcceptRefuses(s) \/ AcceptLeaks(s) \/ AcceptConnection(s)
    BY <1>1, <1>4, <1>5, <1>6, <2>1
  <2>2. CASE \E c \in Cnx : \/ DisconnectReturn(c) \/ NewConnectionReturn(c)
                            \/ ReadCommand(c) \/ ReadEnd(c) \/ ReadFails(c)
                            \/ CommandReturn(c)
    BY <1>8, <1>9, <1>10, <1>11, <2>2
  <2>3. QED
    BY <1>12, <1>15, <2>1, <2>2 DEF Library
<1>16. QED
  BY <1>12, <1>14, <1>15 DEF Next

(* Every step preserves the types of the poll run.                         *)
LEMMA RunTypes ==
    ASSUME TypeOK, ListsInv, [Next]_vars
    PROVE  /\ runs' \in Seq(Activation) /\ Len(runs') <= 1
           /\ \A k \in DOMAIN runs' :
                 /\ runs'[k].due \subseteq DOMAIN runs'[k].apfds
                 /\ runs'[k].cur \in {0} \cup DOMAIN runs'[k].apfds
<1> DEFINE Good(r) == /\ r \in Activation /\ r.due \subseteq DOMAIN r.apfds
                      /\ r.cur \in {0} \cup DOMAIN r.apfds
<1>1. ASSUME NEW r, runs' = <<r>>, Good(r)
      PROVE  /\ runs' \in Seq(Activation) /\ Len(runs') <= 1
             /\ \A k \in DOMAIN runs' :
                   /\ runs'[k].due \subseteq DOMAIN runs'[k].apfds
                   /\ runs'[k].cur \in {0} \cup DOMAIN runs'[k].apfds
  <2>1. /\ runs' \in Seq(Activation) /\ Len(runs') = 1 /\ DOMAIN runs' = {1}
        /\ runs'[1] = r
    BY <1>1
  <2>2. QED
    BY <1>1, <2>1
<1>2. CASE UNCHANGED runs
  <2>1. /\ runs \in Seq(Activation) /\ Len(runs) <= 1
        /\ \A k \in DOMAIN runs : /\ runs[k].due \subseteq DOMAIN runs[k].apfds
                                  /\ runs[k].cur \in {0} \cup DOMAIN runs[k].apfds
    BY PollTypes DEF TypeOK, Poll!TypeOK
  <2>2. QED
    BY <1>2, <2>1
<1>3. CASE RunBegin
  <2> DEFINE copy == Snapshot(pollList)
  <2>1. copy \in Seq(Entry) /\ Len(copy) <= MaxFds /\ Len(copy) \in Nat
    BY PollTypes, SnapshotProperties
  <2>2. DOMAIN copy = 1..Len(copy) /\ DOMAIN copy \subseteq 1..MaxFds /\ 0 \in 0..MaxFds
    BY <2>1
  <2>3. PICK due \in SUBSET DOMAIN copy : runs' = <<[apfds |-> copy, due |-> due, cur |-> 0]>>
    BY <1>3, BeginEffect
  <2> HIDE DEF copy
  <2>4. Good([apfds |-> copy, due |-> due, cur |-> 0])
    BY <2>1, <2>2, <2>3 DEF Activation
  <2>5. QED
    BY <1>1, <2>3, <2>4
<1>4. CASE Dispatch
  <2>1. PICK i \in runs[1].due :
           runs' = <<[apfds |-> runs[1].apfds, due |-> runs[1].due \ {i}, cur |-> i]>>
    BY <1>4, DispatchEffect
  <2>2. /\ runs[1] \in Activation /\ runs[1].due \subseteq DOMAIN runs[1].apfds
    BY <1>4, DispatchEffect, PollTypes
  <2>3. i \in 0..MaxFds /\ i \in DOMAIN runs[1].apfds
    BY <2>1, <2>2 DEF Activation
  <2>4. Good([apfds |-> runs[1].apfds, due |-> runs[1].due \ {i}, cur |-> i])
    BY <2>2, <2>3 DEF Activation
  <2>5. QED
    BY <1>1, <2>1, <2>4
<1>5. CASE CallbackReturn
  <2>1. /\ runs' = <<[apfds |-> runs[1].apfds, due |-> runs[1].due, cur |-> 0]>>
        /\ runs # <<>>
    BY <1>5, CallbackEffect
  <2>2. runs[1] \in Activation /\ runs[1].due \subseteq DOMAIN runs[1].apfds
        /\ 0 \in 0..MaxFds
    BY <2>1, PollTypes
  <2>3. Good([apfds |-> runs[1].apfds, due |-> runs[1].due, cur |-> 0])
    BY <2>2 DEF Activation
  <2>4. QED
    BY <1>1, <2>1, <2>3
<1>6. CASE RunReturn
  BY <1>6, RunReturnEffect
<1>7. QED
  BY <1>2, <1>3, <1>4, <1>5, <1>6, RunKinds

(* Every step preserves the type of the stack.                             *)
LEMMA StackTypes ==
    ASSUME TypeOK, ListsInv, [Next]_vars
    PROVE  stack' \in Seq(Frames)
<1>1. ASSUME NEW op \in Ops, NEW arg \in Handler, Pushes(op, arg) \/ Swaps(op, arg)
      PROVE  stack' \in Seq(Frames)
  BY <1>1, StackPush, StackSwap DEF Pushes, Swaps
<1>2. CASE Pops
  BY <1>2, StackPop DEF Pops
<1>3. CASE Dispatch
  <2>1. PICK i \in runs[1].due : stack' = <<Frame("handle", runs[1].apfds[i].ctx)>>
    BY <1>3, DispatchEffect
  <2>2. runs[1] \in Activation /\ i \in DOMAIN runs[1].apfds
    BY <1>3, DispatchEffect, PollTypes
  <2>3. runs[1].apfds \in Seq(Entry)
    BY <2>2 DEF Activation
  <2>4. runs[1].apfds[i] \in Entry
    BY <2>2, <2>3
  <2>5. runs[1].apfds[i].ctx \in Handler
    BY <2>4 DEF Entry, PollEntry
  <2>6. Frame("handle", runs[1].apfds[i].ctx) \in Frames
    BY <2>5 DEF Frame, Frames, Ops
  <2>7. QED
    BY <2>1, <2>6
<1>4. CASE UNCHANGED stack
  BY <1>4 DEF TypeOK
<1>5. QED
  BY <1>1, <1>2, <1>3, <1>4, StackKinds

(* What a connection has to read, the clients that wait and the fault.     *)
LEMMA InputTypes ==
    ASSUME TypeOK, ListsInv, [Next]_vars
    PROVE  /\ rx' \in [Cnx -> SUBSET {"data", "end"}]
           /\ backlog' \in [Server -> 0..MaxBacklog]
           /\ fault' \in {None, "undefined", "blocked"}
<1> DEFINE Inputs == /\ rx' \in [Cnx -> SUBSET {"data", "end"}]
                     /\ backlog' \in [Server -> 0..MaxBacklog]
                     /\ fault' \in {None, "undefined", "blocked"}
<1>1. /\ rx \in [Cnx -> SUBSET {"data", "end"}]
      /\ backlog \in [Server -> 0..MaxBacklog]
      /\ fault \in {None, "undefined", "blocked"}
  BY DEF TypeOK
<1>2. ASSUME NEW s \in Server, backlog[s] > 0, backlog' = [backlog EXCEPT ![s] = @ - 1]
      PROVE  backlog' \in [Server -> 0..MaxBacklog]
  BY <1>1, <1>2
<1>3. ASSUME UNCHANGED <<rx, backlog, fault>> PROVE Inputs
  BY <1>1, <1>3
<1>4. ASSUME NEW s \in Server, Connect(s) PROVE Inputs
  <2>1. backlog' \in [Server -> 0..MaxBacklog]
    BY <1>1, <1>4 DEF Connect
  <2>2. QED
    BY <1>1, <1>4, <2>1 DEF Connect
<1>5. ASSUME NEW c \in Cnx, Send(c) \/ HangUp(c) PROVE Inputs
  BY <1>1, <1>5 DEF Send, HangUp
<1>6. ASSUME NEW s \in Server, af_server_start(s) PROVE Inputs
  BY <1>3, <1>6 DEF af_server_start
<1>7. ASSUME NEW s \in Server,
             \/ af_server_disconnect_all(s) \/ af_server_stop(s) \/ DisconnectNext(s)
             \/ DisconnectAllReturn(s) \/ AcceptFails(s)
      PROVE  Inputs
  BY <1>3, <1>7 DEF af_server_disconnect_all, af_server_stop, DisconnectNext,
                    DisconnectAllReturn, AcceptFails, sockets
<1>8. ASSUME NEW s \in Server, StopReturn(s) PROVE Inputs
  BY <1>1, <1>8 DEF StopReturn
<1>9. ASSUME NEW s \in Server, AcceptBlocks(s) PROVE Inputs
  BY <1>1, <1>9 DEF AcceptBlocks, sockets
<1>10. ASSUME NEW s \in Server, AcceptRefuses(s) \/ AcceptLeaks(s) \/ AcceptConnection(s)
       PROVE  Inputs
  BY <1>1, <1>2, <1>10 DEF AcceptRefuses, AcceptLeaks, AcceptConnection, MayConnect
<1>11. ASSUME NEW c \in Cnx,
              af_server_disconnect(c) \/ ReadEnd(c) \/ CommandReturn(c)
       PROVE  Inputs
  BY <1>3, <1>11 DEF af_server_disconnect, ReadEnd, CommandReturn, sockets
<1>12. ASSUME NEW c \in Cnx, DisconnectReturn(c) PROVE Inputs
  <2>1. rx' \in [Cnx -> SUBSET {"data", "end"}]
    BY <1>1, <1>12 DEF DisconnectReturn, RemInstance
  <2>2. QED
    BY <1>1, <1>12, <2>1 DEF DisconnectReturn
<1>13. ASSUME NEW c \in Cnx, NewConnectionReturn(c) \/ ReadFails(c) PROVE Inputs
  BY <1>1, <1>13 DEF NewConnectionReturn, ReadFails, sockets
<1>14. ASSUME NEW c \in Cnx, ReadCommand(c) PROVE Inputs
  BY <1>1, <1>14 DEF ReadCommand
<1>15. ASSUME RunBegin \/ Dispatch \/ CallbackReturn \/ RunReturn PROVE Inputs
  BY <1>3, <1>15 DEF RunBegin, Dispatch, CallbackReturn, RunReturn, sockets
<1> HIDE DEF Inputs
<1>16. ASSUME Clients PROVE Inputs
  BY <1>4, <1>5, <1>16 DEF Clients
<1>17. ASSUME Application PROVE Inputs
  BY <1>6, <1>7, <1>11, <1>17 DEF Application
<1>18. ASSUME Library PROVE Inputs
  BY <1>7, <1>8, <1>9, <1>10, <1>11, <1>12, <1>13, <1>14, <1>15, <1>18, Zenon DEF Library
<1>19. ASSUME UNCHANGED vars PROVE Inputs
  BY <1>3, <1>19 DEF vars, sockets
<1>20. QED
  BY <1>15, <1>16, <1>17, <1>18, <1>19, Zenon DEF Next, Inputs

(* Every step preserves the types.                                         *)
LEMMA TypeStep ==
    ASSUME TypeOK, ListsInv, [Next]_vars
    PROVE  TypeOK'
<1>1. Poll!TypeOK'
  <2>1. pollList' \in Seq(Poll!PollEntry(1..NumFds, Handler))
    BY ConnectionTypes DEF Poll!PollEntry, Entry, PollEntry, Descriptor
  <2>2. runs' \in Seq(Poll!Run)
    BY RunTypes DEF Poll!Run, Poll!PollEntry, Entry, PollEntry, Descriptor, Activation
  <2>3. Len(runs') \in Nat /\ Len(runs') <= 1 /\ DOMAIN runs' = 1..Len(runs')
    BY RunTypes
  <2>4. \A k \in DOMAIN runs' : ~ (k < Len(runs'))
    BY <2>3
  <2>5. QED
    BY <2>1, <2>2, <2>3, <2>4, RunTypes DEF Poll!TypeOK
<1>2. QED
  BY <1>1, ConnectionTypes, StackTypes, InputTypes
     DEF TypeOK, Descriptor, ServerData, CnxData

-----------------------------------------------------------------------------
(* The connection lists.                                                   *)
LEMMA ListsStep ==
    ASSUME AnyInv, [Next]_vars
    PROVE  ListsInv'
<1>1. TypeOK /\ ListsInv /\ OwnedInv /\ StartedInv
  BY DEF AnyInv
<1>2. ASSUME Quiet PROVE ListsInv'
  BY <1>1, <1>2 DEF ListsInv, Quiet
<1>3. ASSUME NEW s \in Server, af_server_start(s) PROVE ListsInv'
  <2>1. /\ server'[s].cnx = <<>> /\ server'[s].num_cnx = 0 /\ server'[s].fd > 0
        /\ \A x \in Server \ {s} : server'[x] = server[x]
        /\ cnx' = cnx
    <3>1. FirstFd \in Nat \ {0} /\ server'[s] = [fd |-> FirstFd, cnx |-> <<>>, num_cnx |-> 0]
      BY <1>1, <1>3, StartEffect, SocketTypes
    <3>2. server'[s].fd > 0 /\ server'[s].cnx = <<>> /\ server'[s].num_cnx = 0
      BY <3>1
    <3>3. QED
      BY <1>1, <1>3, <3>2, StartEffect
  <2>2. server[s].fd <= 0
    <3>1. server[s].fd \in NoFile..NumFds
      BY <1>1, SocketTypes DEF ServerData
    <3>2. ASSUME server[s].fd > 0 PROVE FALSE
      <4>1. files[server[s].fd] = s
        BY <1>1, <3>2 DEF OwnedInv, ServerOwns
      <4>2. server[s].fd \in 1..NumFds
        BY <3>1, <3>2
      <4>3. ~ Listening(s)
        BY <1>1, <1>3, StartEffect
      <4>4. QED
        BY <4>1, <4>2, <4>3 DEF Listening
    <3>3. QED
      BY <3>1, <3>2 DEF NoFile
  <2>3. \A c \in Cnx : cnx[c].server # s
    BY <1>1, <2>2 DEF ListsInv, Contains
  <2>4. \A c : ~ Contains(<<>>, c)
    BY DEF Contains
  <2>5. IsInjective(<<>>) /\ Len(<<>>) = 0
    BY DEF IsInjective
  <2>6. /\ IsInjective(server'[s].cnx)
        /\ \A c \in Cnx : Contains(server'[s].cnx, c) <=> cnx'[c].server = s
        /\ server'[s].num_cnx = Len(server'[s].cnx)
        /\ server'[s].num_cnx <= MaxCnx
    BY <2>1, <2>3, <2>4, <2>5
  <2>7. QED
    BY <1>1, <2>1, <2>6 DEF ListsInv
<1>4. ASSUME NEW s \in Server, StopReturn(s) PROVE ListsInv'
  BY <1>1, <1>4, StopEffect DEF ListsInv
<1>5. ASSUME NEW s \in Server, AcceptLeaks(s) PROVE ListsInv'
  BY <1>1, <1>5, LeakEffect DEF ListsInv
<1>6. ASSUME NEW s \in Server, AcceptConnection(s) PROVE ListsInv'
  <2>1. PICK c \in Cnx : Accepts(s, c)
    BY <1>1, <1>6, AcceptEffect
  <2> DEFINE list == server[s].cnx
  <2>2. /\ list \in Seq(Cnx) /\ IsInjective(list) /\ ~ Contains(list, c)
        /\ server[s].num_cnx = Len(list) /\ Len(list) \in Nat
    BY <1>1, <2>1, SocketTypes, Marks DEF ListsInv, ServerData, Accepts, Open
  <2>3. /\ server'[s].cnx = <<c>> \o list /\ server'[s].num_cnx = Len(list) + 1
        /\ server'[s].fd = server[s].fd
        /\ \A x \in Server \ {s} : server'[x] = server[x]
        /\ cnx'[c].server = s /\ \A x \in Cnx \ {c} : cnx'[x] = cnx[x]
        /\ Len(list) < MaxCnx
    BY <1>1, <1>6, <2>1, <2>2, AcceptEffect DEF Accepts
  <2>4. IsInjective(<<c>> \o list) /\ Len(<<c>> \o list) = Len(list) + 1
        /\ \A x : Contains(<<c>> \o list, x) <=> Contains(list, x) \/ x = c
    BY <2>2, ConsInjective, ConsProperties
  <2> HIDE DEF list
  <2>5. server[s].fd > 0
    <3>1. server[s].fd \in NoFile..NumFds /\ server[s].fd # NoFile
      BY <1>1, <1>6, AcceptEffect, SocketTypes DEF ServerData
    <3>2. stack \in Seq(Frames) /\ stack # <<>> /\ Last(stack).arg = s
      BY <1>1, <1>6, AcceptEffect DEF TypeOK, Frame
    <3>3. Len(stack) \in DOMAIN stack /\ stack[Len(stack)].arg = s
      BY <1>1, <3>2, StackTop
    <3>4. server[s].fd # 0
      BY <1>1, <3>3 DEF StartedInv
    <3>5. QED
      BY <3>1, <3>4 DEF NoFile
  <2>6. /\ IsInjective(server'[s].cnx)
        /\ server'[s].num_cnx = Len(server'[s].cnx)
        /\ server'[s].num_cnx <= MaxCnx
        /\ ~ (server'[s].fd <= 0)
    BY <2>2, <2>3, <2>4, <2>5, SocketTypes, <1>1 DEF ServerData, NoFile
  <2>7. \A x \in Cnx : Contains(list, x) <=> cnx[x].server = s
    BY <1>1 DEF ListsInv, list
  <2>8. \A x \in Cnx : Contains(server'[s].cnx, x) <=> cnx'[x].server = s
    BY <2>3, <2>4, <2>7
  <2>9. ASSUME NEW x \in Server \ {s}, NEW y \in Cnx
        PROVE  Contains(server'[x].cnx, y) <=> cnx'[y].server = x
    <3>1. cnx[c].server # x
      BY <2>1, Marks DEF Accepts, Open
    <3>2. Contains(server[x].cnx, y) <=> cnx[y].server = x
      BY <1>1 DEF ListsInv
    <3>3. QED
      BY <2>3, <3>1, <3>2
  <2>10. ASSUME NEW x \in Server \ {s}
         PROVE  /\ IsInjective(server'[x].cnx)
                /\ server'[x].num_cnx = Len(server'[x].cnx)
                /\ server'[x].num_cnx <= MaxCnx
                /\ server'[x].fd <= 0 => server'[x].cnx = <<>>
    BY <1>1, <2>3 DEF ListsInv
  <2>11. QED
    BY <2>6, <2>8, <2>9, <2>10 DEF ListsInv
<1>7. ASSUME NEW c \in Cnx, Begins(c) PROVE ListsInv'
  BY <1>1, <1>7 DEF ListsInv, Begins, sockets
<1>8. ASSUME NEW c \in Cnx, Ends(c) PROVE ListsInv'
  <2> DEFINE s == cnx[c].server
             list == server[s].cnx
  <2>1. /\ s \in Server /\ Contains(list, c)
        /\ server'[s].cnx = RemoveFirst(list, c) /\ server'[s].fd = server[s].fd
        /\ server'[s].num_cnx = server[s].num_cnx - 1
        /\ \A x \in Server \ {s} : server'[x] = server[x]
        /\ cnx'[c] = NoCnx /\ \A x \in Cnx \ {c} : cnx'[x] = cnx[x]
    BY <1>1, <1>8, EndEffect
  <2>2. /\ list \in Seq(Cnx) /\ IsInjective(list) /\ Len(list) \in Nat
        /\ server[s].num_cnx = Len(list) /\ server[s].num_cnx <= MaxCnx
        /\ server[s].fd <= 0 => list = <<>>
    BY <1>1, <2>1, SocketTypes DEF ListsInv, ServerData
  <2>3. /\ IsInjective(RemoveFirst(list, c))
        /\ \A x : Contains(RemoveFirst(list, c), x) <=> Contains(list, x) /\ x # c
        /\ Len(RemoveFirst(list, c)) = Len(list) - 1
    BY <2>1, <2>2, RemoveFirstInjective, RemoveFirstShortens
  <2>4. ~ (server[s].fd <= 0)
    BY <2>1, <2>2 DEF Contains
  <2>5. \A x \in Cnx : Contains(list, x) <=> cnx[x].server = s
    BY <1>1, <2>1 DEF ListsInv
  <2>6. s # None /\ NoCnx.server = None
    BY <2>1, Marks DEF NoCnx
  <2> HIDE DEF list
  <2>7. /\ IsInjective(server'[s].cnx)
        /\ server'[s].num_cnx = Len(server'[s].cnx)
        /\ server'[s].num_cnx <= MaxCnx
        /\ ~ (server'[s].fd <= 0)
    BY <2>1, <2>2, <2>3, <2>4
  <2>8. \A x \in Cnx : Contains(server'[s].cnx, x) <=> cnx'[x].server = s
    BY <2>1, <2>3, <2>5, <2>6
  <2>9. ASSUME NEW x \in Server \ {s}, NEW y \in Cnx
        PROVE  Contains(server'[x].cnx, y) <=> cnx'[y].server = x
    <3>1. cnx[c].server # x /\ NoCnx.server # x
      BY <2>6, Marks
    <3>2. Contains(server[x].cnx, y) <=> cnx[y].server = x
      BY <1>1 DEF ListsInv
    <3>3. QED
      BY <2>1, <3>1, <3>2
  <2>10. ASSUME NEW x \in Server \ {s}
         PROVE  /\ IsInjective(server'[x].cnx)
                /\ server'[x].num_cnx = Len(server'[x].cnx)
                /\ server'[x].num_cnx <= MaxCnx
                /\ server'[x].fd <= 0 => server'[x].cnx = <<>>
    BY <1>1, <2>1 DEF ListsInv
  <2> HIDE DEF s
  <2>11. QED
    BY <2>7, <2>8, <2>9, <2>10 DEF ListsInv
<1>9. QED
  BY <1>1, <1>2, <1>3, <1>4, <1>5, <1>6, <1>7, <1>8, StepKinds

-----------------------------------------------------------------------------
(* The descriptor table.                                                   *)

(* A descriptor has one owner, and one that is free has none.              *)
LEMMA OneOwner ==
    ASSUME TypeOK, OwnedInv, NEW f \in Descriptor
    PROVE  /\ \A c \in Cnx : Open(c) /\ f \in {cnx[c].fd, cnx[c].dup} => files[f] = c
           /\ \A c \in Cnx : files[f] # c => f # cnx[c].fd /\ f # cnx[c].dup
           /\ \A s \in Server : server[s].fd = f => files[f] = s
<1>1. f > 0 /\ f # 0
  BY SocketTypes
<1>2. QED
  BY <1>1 DEF OwnedInv, CnxOwns, ServerOwns

(* Every step keeps the descriptors and their owners in agreement.         *)
LEMMA OwnedStep ==
    ASSUME AnyInv, [Next]_vars
    PROVE  OwnedInv'
<1>1. TypeOK /\ ListsInv /\ OwnedInv
  BY DEF AnyInv
<1>2. CnxOwns /\ ServerOwns /\ OwnersKnow
  BY <1>1 DEF OwnedInv
<1>3. files \in [Descriptor -> Handler \cup {Free, Leaked}] /\ Descriptor \subseteq Nat \ {0}
  BY <1>1, SocketTypes
<1>4. ASSUME Quiet PROVE OwnedInv'
  BY <1>2, <1>4 DEF OwnedInv, CnxOwns, ServerOwns, OwnersKnow, Quiet, Open
<1>5. ASSUME NEW s \in Server, af_server_start(s) PROVE OwnedInv'
  <2> DEFINE new == FirstFd
  <2>1. /\ new \in Descriptor /\ files[new] = Free /\ ~ Listening(s)
        /\ server'[s].fd = new
        /\ \A x \in Server \ {s} : server'[x] = server[x]
        /\ cnx' = cnx
        /\ files'[new] = s /\ \A f \in Descriptor \ {new} : files'[f] = files[f]
    <3>1. server'[s].fd = FirstFd
      <4>1. server'[s] = [fd |-> FirstFd, cnx |-> <<>>, num_cnx |-> 0]
        BY <1>1, <1>5, StartEffect
      <4>2. QED
        BY <4>1
    <3>2. files' = [files EXCEPT ![FirstFd] = s] /\ FirstFd \in Descriptor
      BY <1>1, <1>5, StartEffect
    <3>3. files'[new] = s /\ \A f \in Descriptor \ {new} : files'[f] = files[f]
      BY <1>3, <3>2
    <3>4. QED
      BY <1>1, <1>5, <3>1, <3>3, StartEffect
  <2> HIDE DEF new
  <2>2. CnxOwns'
    BY <1>2, <2>1, Marks DEF CnxOwns, Open
  <2>3. ServerOwns'
    <3>1. \A x \in Server \ {s} : server[x].fd > 0 => files[server[x].fd] = x /\ x # Free
      BY <1>2, Marks DEF ServerOwns
    <3>2. \A x \in Server : server[x].fd > 0 => server[x].fd \in Descriptor
      BY <1>1, SocketTypes DEF ServerData, Descriptor
    <3>3. QED
      BY <2>1, <3>1, <3>2 DEF ServerOwns
  <2>4. OwnersKnow'
    <3>1. \A f \in Descriptor : files[f] # s
      BY <2>1 DEF Listening, Descriptor
    <3>2. QED
      BY <1>2, <2>1, <3>1, Marks DEF OwnersKnow
  <2>5. QED
    BY <2>2, <2>3, <2>4 DEF OwnedInv
<1>6. ASSUME NEW s \in Server, StopReturn(s) PROVE OwnedInv'
  <2>1. /\ files' = [f \in Descriptor |-> IF f = server[s].fd THEN Free ELSE files[f]]
        /\ server'[s].fd = NoFile
        /\ \A x \in Server \ {s} : server'[x] = server[x]
        /\ cnx' = cnx
    BY <1>1, <1>6, StopEffect
  <2>2. \A f \in Descriptor : f = server[s].fd => files[f] = s
    BY <1>1, OneOwner
  <2>3. CnxOwns'
    BY <1>2, <2>1, <2>2, Marks DEF CnxOwns, Open
  <2>4. ServerOwns'
    <3>1. ~ (NoFile > 0)
      BY DEF NoFile
    <3>2. \A x \in Server : server[x].fd > 0 => server[x].fd \in Descriptor
      BY <1>1, SocketTypes DEF ServerData, Descriptor
    <3>3. QED
      BY <1>2, <2>1, <2>2, <3>1, <3>2 DEF ServerOwns
  <2>5. OwnersKnow'
    BY <1>2, <2>1, Marks DEF OwnersKnow
  <2>6. QED
    BY <2>3, <2>4, <2>5 DEF OwnedInv
<1>7. ASSUME NEW s \in Server, AcceptLeaks(s) PROVE OwnedInv'
  <2> DEFINE new == SecondFd
  <2>1. /\ new \in Descriptor /\ files[new] = Free
        /\ server' = server /\ cnx' = cnx
        /\ files'[new] = Leaked /\ \A f \in Descriptor \ {new} : files'[f] = files[f]
    <3>1. files' = [files EXCEPT ![SecondFd] = Leaked] /\ SecondFd \in Descriptor
      BY <1>1, <1>7, LeakEffect
    <3>2. files'[new] = Leaked /\ \A f \in Descriptor \ {new} : files'[f] = files[f]
      BY <1>3, <3>1
    <3>3. QED
      BY <1>1, <1>7, <3>2, LeakEffect
  <2> HIDE DEF new
  <2>2. CnxOwns'
    BY <1>2, <2>1, Marks DEF CnxOwns, Open
  <2>3. ServerOwns'
    <3>1. \A x \in Server : server[x].fd > 0 => server[x].fd \in Descriptor
      BY <1>1, SocketTypes DEF ServerData, Descriptor
    <3>2. QED
      BY <1>2, <2>1, <3>1, Marks DEF ServerOwns
  <2>4. OwnersKnow'
    BY <1>2, <2>1, Marks DEF OwnersKnow
  <2>5. QED
    BY <2>2, <2>3, <2>4 DEF OwnedInv
<1>8. ASSUME NEW s \in Server, AcceptConnection(s) PROVE OwnedInv'
  <2>1. PICK c \in Cnx : Accepts(s, c)
    BY <1>1, <1>8, AcceptEffect
  <2> DEFINE new == FirstFd
             second == SecondFd
  <2>2. /\ new \in Descriptor /\ files[new] = Free
        /\ second \in Descriptor /\ files[second] = Free /\ second # new
        /\ \A x \in Server : server'[x].fd = server[x].fd
        /\ cnx'[c].fd = new /\ cnx'[c].dup = second /\ cnx'[c].server = s
        /\ \A x \in Cnx \ {c} : cnx'[x] = cnx[x]
        /\ ~ Open(c) /\ s # None
    BY <1>1, <1>8, <2>1, AcceptEffect, Marks DEF Accepts
  <2>3. /\ files'[new] = c /\ files'[second] = c
        /\ \A f \in Descriptor \ {new, second} : files'[f] = files[f]
    <3>1. files' = [files EXCEPT ![new] = c, ![second] = c]
      BY <2>1 DEF Accepts
    <3>2. QED
      BY <1>3, <2>2, <3>1
  <2> HIDE DEF new, second
  <2>4. CnxOwns'
    <3>1. ASSUME NEW x \in Cnx \ {c}, Open(x)'
          PROVE  /\ cnx'[x].fd \in Descriptor /\ cnx'[x].dup \in Descriptor
                 /\ cnx'[x].fd # cnx'[x].dup
                 /\ files'[cnx'[x].fd] = x /\ files'[cnx'[x].dup] = x
      <4>1. cnx'[x] = cnx[x] /\ Open(x)
        BY <2>2, <3>1 DEF Open
      <4>2. /\ cnx[x].fd \in Descriptor /\ cnx[x].dup \in Descriptor
            /\ cnx[x].fd # cnx[x].dup
            /\ files[cnx[x].fd] = x /\ files[cnx[x].dup] = x
        BY <1>2, <4>1 DEF CnxOwns
      <4>3. QED
        BY <2>2, <2>3, <4>1, <4>2, Marks
    <3>2. ASSUME NEW x \in Cnx \ {c}, ~ Open(x)'
          PROVE  cnx'[x].fd = 0 /\ cnx'[x].dup = 0
      BY <1>2, <2>2, <3>2 DEF CnxOwns, Open
    <3>3. Open(c)'
      BY <2>2 DEF Open
    <3>4. QED
      BY <2>2, <2>3, <3>1, <3>2, <3>3 DEF CnxOwns
  <2>5. ServerOwns'
    <3>1. \A x \in Server : server[x].fd > 0 => server[x].fd \in Descriptor
      BY <1>1, SocketTypes DEF ServerData, Descriptor
    <3>2. QED
      BY <1>2, <2>2, <2>3, <3>1, Marks DEF ServerOwns
  <2>6. OwnersKnow'
    <3>1. ASSUME NEW f \in Descriptor \ {new, second}
          PROVE  /\ files'[f] \in Cnx => f \in {cnx'[files'[f]].fd, cnx'[files'[f]].dup}
                 /\ files'[f] \in Server => f = server'[files'[f]].fd
      <4>1. files[f] # c
        <5>1. cnx[c].fd = 0 /\ cnx[c].dup = 0
          BY <1>2, <2>2 DEF CnxOwns
        <5>2. f # 0
          BY <1>3
        <5>3. QED
          BY <1>2, <5>1, <5>2 DEF OwnersKnow
      <4>2. QED
        BY <1>2, <2>2, <2>3, <4>1 DEF OwnersKnow
    <3>2. QED
      BY <2>2, <2>3, <3>1, Marks DEF OwnersKnow
  <2>7. QED
    BY <2>4, <2>5, <2>6 DEF OwnedInv
<1>9. ASSUME NEW c \in Cnx, Begins(c) PROVE OwnedInv'
  BY <1>2, <1>9 DEF OwnedInv, CnxOwns, ServerOwns, OwnersKnow, Begins, sockets, Open
<1>10. ASSUME NEW c \in Cnx, Ends(c) PROVE OwnedInv'
  <2>1. /\ files' = [f \in Descriptor |-> IF f \in {cnx[c].fd, cnx[c].dup} THEN Free
                                          ELSE files[f]]
        /\ \A x \in Server : server'[x].fd = server[x].fd
        /\ cnx'[c] = NoCnx /\ \A x \in Cnx \ {c} : cnx'[x] = cnx[x]
    BY <1>1, <1>10, EndEffect
  <2>2. \A f \in Descriptor : f \in {cnx[c].fd, cnx[c].dup} => files[f] = c
    BY <1>1, <1>10, OneOwner DEF Ends
  <2>3. NoCnx.server = None /\ NoCnx.fd = 0 /\ NoCnx.dup = 0
    BY DEF NoCnx
  <2>4. CnxOwns'
    BY <1>2, <2>1, <2>2, <2>3 DEF CnxOwns, Open
  <2>5. ServerOwns'
    <3>1. \A x \in Server : server[x].fd > 0 => server[x].fd \in Descriptor
      BY <1>1, SocketTypes DEF ServerData, Descriptor
    <3>2. QED
      BY <1>2, <2>1, <2>2, <3>1, Marks DEF ServerOwns
  <2>6. OwnersKnow'
    BY <1>2, <2>1, <2>2, Marks DEF OwnersKnow
  <2>7. QED
    BY <2>4, <2>5, <2>6 DEF OwnedInv
<1>11. QED
  BY <1>1, <1>4, <1>5, <1>6, <1>7, <1>8, <1>9, <1>10, StepKinds

-----------------------------------------------------------------------------
(* The polled descriptors.                                                 *)


(* The entries of the list after a registration and after a removal.       *)
LEMMA AddedToRegistry ==
    ASSUME TypeOK, Registry, NEW e \in Entry, pollList' = AddEntry(pollList, e)
    PROVE  /\ Registry'
           /\ \A i \in DOMAIN pollList' :
                 pollList'[i] = e \/ \E j \in DOMAIN pollList : pollList'[i] = pollList[j]
<1>1. /\ pollList \in Seq(Entry) /\ Len(pollList) <= MaxFds
      /\ \A i, j \in DOMAIN pollList : pollList[i].fd = pollList[j].fd => i = j
  BY PollTypes DEF Registry
<1>2. Registry'
  <2>1. /\ Len(AddEntry(pollList, e)) <= MaxFds
        /\ \A i, j \in DOMAIN AddEntry(pollList, e) :
              AddEntry(pollList, e)[i].fd = AddEntry(pollList, e)[j].fd => i = j
    BY <1>1, AddKeepsRegistry, Zenon
  <2>2. QED
    BY <2>1, Zenon DEF Registry
<1>3. ASSUME NEW i \in DOMAIN pollList'
      PROVE  pollList'[i] = e \/ \E j \in DOMAIN pollList : pollList'[i] = pollList[j]
  <2>1. i \in DOMAIN AddEntry(pollList, e)
    OBVIOUS
  <2>2. \/ AddEntry(pollList, e)[i] = e
        \/ \E j \in DOMAIN pollList : AddEntry(pollList, e)[i] = pollList[j]
    BY <1>1, <2>1, AddedEntries
  <2>3. QED
    BY <2>2
<1>4. QED
  BY <1>2, <1>3

(* A removal keeps the registry, and the descriptor is gone from it.       *)
LEMMA RemovedFromRegistry ==
    ASSUME TypeOK, Registry, NEW fd, pollList' = RemEntry(pollList, fd)
    PROVE  /\ Registry'
           /\ \A i \in DOMAIN pollList' :
                 /\ pollList'[i].fd # fd
                 /\ \E j \in DOMAIN pollList : pollList'[i] = pollList[j]
<1>1. /\ pollList \in Seq(Entry) /\ Len(pollList) <= MaxFds
      /\ \A i, j \in DOMAIN pollList : pollList[i].fd = pollList[j].fd => i = j
  BY PollTypes DEF Registry
<1>2. Registry'
  <2>1. /\ Len(RemEntry(pollList, fd)) <= MaxFds
        /\ \A i, j \in DOMAIN RemEntry(pollList, fd) :
              RemEntry(pollList, fd)[i].fd = RemEntry(pollList, fd)[j].fd => i = j
    BY <1>1, RemKeepsRegistry, Zenon
  <2>2. QED
    BY <2>1, Zenon DEF Registry
<1>3. ASSUME NEW i \in DOMAIN pollList'
      PROVE  /\ pollList'[i].fd # fd
             /\ \E j \in DOMAIN pollList : pollList'[i] = pollList[j]
  <2>1. i \in DOMAIN RemEntry(pollList, fd)
    OBVIOUS
  <2>2. /\ RemEntry(pollList, fd)[i].fd # fd
        /\ \E j \in DOMAIN pollList : RemEntry(pollList, fd)[i] = pollList[j]
    BY <1>1, <2>1, RemainingEntries
  <2>3. QED
    BY <2>2
<1>4. QED
  BY <1>2, <1>3

(* The types of a polled entry.                                            *)
LEMMA EntryTypes ==
    ASSUME TypeOK, NEW i \in DOMAIN pollList
    PROVE  pollList[i].fd \in Descriptor /\ pollList[i].ctx \in Handler
<1>1. pollList[i] \in Entry
  BY PollTypes
<1>2. QED
  BY <1>1 DEF Entry, PollEntry

(* Every step keeps closed descriptors out of the poll list.               *)
LEMMA PolledStep ==
    ASSUME AnyInv, [Next]_vars
    PROVE  PolledInv'
<1>1. TypeOK /\ ListsInv /\ OwnedInv /\ PolledInv /\ StackInv
  BY DEF AnyInv
<1>2. /\ Registry
      /\ \A i \in DOMAIN pollList :
            /\ pollList[i].fd \in Descriptor /\ pollList[i].ctx \in Handler
            /\ files[pollList[i].fd] = pollList[i].ctx
            /\ pollList[i].ctx \in Cnx => pollList[i].fd = cnx[pollList[i].ctx].fd
  BY <1>1, EntryTypes DEF PolledInv
<1>3. files \in [Descriptor -> Handler \cup {Free, Leaked}] /\ Free \notin Handler
  BY <1>1, SocketTypes, HandlerAssumption
<1>4. ASSUME Quiet PROVE PolledInv'
  BY <1>1, <1>4 DEF PolledInv, Registry, Quiet
<1>5. ASSUME NEW s \in Server, af_server_start(s) PROVE PolledInv'
  <2> DEFINE new == FirstFd
             e == [fd |-> new, ctx |-> s]
  <2>1. /\ new \in Descriptor /\ files[new] = Free /\ cnx' = cnx
        /\ files' = [files EXCEPT ![new] = s]
        /\ pollList' = AddEntry(pollList, e) /\ e \in Entry
    BY <1>1, <1>5, StartEffect
  <2> HIDE DEF new
  <2>2. e.fd = new /\ e.ctx = s /\ s \notin Cnx
    BY Marks
  <2>3. files'[new] = s /\ \A f \in Descriptor \ {new} : files'[f] = files[f]
    BY <1>3, <2>1
  <2> HIDE DEF e
  <2>4. Registry' /\ \A i \in DOMAIN pollList' :
           pollList'[i] = e \/ \E j \in DOMAIN pollList : pollList'[i] = pollList[j]
    BY <1>1, <1>2, <2>1, AddedToRegistry
  <2>5. QED
    BY <1>2, <1>3, <2>1, <2>2, <2>3, <2>4 DEF PolledInv
<1>6. ASSUME NEW s \in Server, StopReturn(s) PROVE PolledInv'
  <2>1. /\ files' = [f \in Descriptor |-> IF f = server[s].fd THEN Free ELSE files[f]]
        /\ pollList' = RemEntry(pollList, server[s].fd) /\ cnx' = cnx
    BY <1>1, <1>6, StopEffect
  <2>2. Registry' /\ \A i \in DOMAIN pollList' :
           /\ pollList'[i].fd # server[s].fd
           /\ \E j \in DOMAIN pollList : pollList'[i] = pollList[j]
    BY <1>1, <1>2, <2>1, RemovedFromRegistry
  <2>3. QED
    BY <1>2, <2>1, <2>2 DEF PolledInv
<1>7. ASSUME NEW s \in Server, AcceptLeaks(s) PROVE PolledInv'
  <2>1. /\ SecondFd \in Descriptor /\ files[SecondFd] = Free
        /\ pollList' = pollList /\ cnx' = cnx
        /\ files' = [files EXCEPT ![SecondFd] = Leaked]
    BY <1>1, <1>7, LeakEffect
  <2>2. \A f \in Descriptor \ {SecondFd} : files'[f] = files[f]
    BY <1>3, <2>1
  <2>3. QED
    BY <1>2, <1>3, <2>1, <2>2 DEF PolledInv, Registry
<1>8. ASSUME NEW s \in Server, AcceptConnection(s) PROVE PolledInv'
  <2>1. PICK c \in Cnx : Accepts(s, c)
    BY <1>1, <1>8, AcceptEffect
  <2> DEFINE new == FirstFd
             second == SecondFd
             e == [fd |-> new, ctx |-> c]
  <2>2. /\ new \in Descriptor /\ files[new] = Free
        /\ second \in Descriptor /\ files[second] = Free /\ second # new
        /\ files' = [files EXCEPT ![new] = c, ![second] = c]
        /\ cnx'[c].fd = new /\ \A x \in Cnx \ {c} : cnx'[x] = cnx[x]
        /\ pollList' = AddEntry(pollList, e) /\ e \in Entry
        /\ ~ Open(c)
    BY <1>1, <1>8, <2>1, AcceptEffect DEF Accepts
  <2> HIDE DEF new, second
  <2>3. e.fd = new /\ e.ctx = c
    OBVIOUS
  <2>4. files'[new] = c /\ \A f \in Descriptor \ {new, second} : files'[f] = files[f]
    BY <1>3, <2>2
  <2> HIDE DEF e
  <2>5. Registry' /\ \A i \in DOMAIN pollList' :
           pollList'[i] = e \/ \E j \in DOMAIN pollList : pollList'[i] = pollList[j]
    BY <1>1, <1>2, <2>2, AddedToRegistry
  <2>6. \A i \in DOMAIN pollList : pollList[i].ctx # c
    <3>1. cnx[c].fd = 0 /\ \A f \in Descriptor : f # 0
      BY <1>1, <2>2, SocketTypes DEF OwnedInv, CnxOwns
    <3>2. QED
      BY <1>2, <3>1
  <2>7. QED
    BY <1>2, <1>3, <2>2, <2>3, <2>4, <2>5, <2>6 DEF PolledInv
<1>9. ASSUME NEW c \in Cnx, Begins(c) PROVE PolledInv'
  <2>1. pollList' = RemEntry(pollList, cnx[c].fd) /\ UNCHANGED <<files, cnx>>
    BY <1>9 DEF Begins, BeginDisconnect, sockets
  <2>2. Registry' /\ \A i \in DOMAIN pollList' :
           \E j \in DOMAIN pollList : pollList'[i] = pollList[j]
    BY <1>1, <1>2, <2>1, RemovedFromRegistry
  <2>3. QED
    BY <1>2, <2>1, <2>2 DEF PolledInv
<1>10. ASSUME NEW c \in Cnx, Ends(c) PROVE PolledInv'
  <2>1. /\ files' = [f \in Descriptor |-> IF f \in {cnx[c].fd, cnx[c].dup} THEN Free
                                          ELSE files[f]]
        /\ pollList' = pollList /\ \A x \in Cnx \ {c} : cnx'[x] = cnx[x]
        /\ stack # <<>> /\ Last(stack) = Frame("disconnect", c)
    BY <1>1, <1>10, EndEffect
  <2>2. \A f \in Descriptor : f \in {cnx[c].fd, cnx[c].dup} => files[f] = c
    BY <1>1, <1>10, OneOwner DEF Ends
  <2>3. Disconnecting(c)
    BY <1>1, <2>1, StackTop DEF Disconnecting
  <2>4. \A i \in DOMAIN pollList : pollList[i].ctx # c
    BY <1>1, <2>3 DEF StackInv
  <2>5. QED
    BY <1>2, <2>1, <2>2, <2>4 DEF PolledInv, Registry
<1>11. QED
  BY <1>1, <1>4, <1>5, <1>6, <1>7, <1>8, <1>9, <1>10, StepKinds

-----------------------------------------------------------------------------
(* The stack.                                                              *)

(* Where entries of the list come from.                                    *)
LEMMA EntriesKept ==
    ASSUME AnyInv, [Next]_vars, NEW i \in DOMAIN pollList'
    PROVE  \/ \E j \in DOMAIN pollList : pollList'[i] = pollList[j]
           \/ pollList'[i].ctx \in Server /\ server'[pollList'[i].ctx].fd # 0
           \/ pollList'[i].ctx \in Cnx /\ \E s \in Server : AcceptConnection(s)
<1>1. TypeOK /\ ListsInv /\ Registry
  BY DEF AnyInv, PolledInv
<1>2. CASE Quiet \/ (\E s \in Server : AcceptLeaks(s)) \/ (\E c \in Cnx : Ends(c))
  <2>1. pollList' = pollList
    BY <1>1, <1>2, LeakEffect, EndEffect DEF Quiet
  <2>2. QED
    BY <2>1
<1>3. ASSUME NEW s \in Server, af_server_start(s)
      PROVE  \/ \E j \in DOMAIN pollList : pollList'[i] = pollList[j]
             \/ pollList'[i].ctx \in Server /\ server'[pollList'[i].ctx].fd # 0
  <2> DEFINE e == [fd |-> FirstFd, ctx |-> s]
  <2>1. /\ pollList' = AddEntry(pollList, e) /\ e \in Entry
        /\ FirstFd \in Descriptor
        /\ server'[s] = [fd |-> FirstFd, cnx |-> <<>>, num_cnx |-> 0]
    BY <1>1, <1>3, StartEffect
  <2>2. e.ctx = s /\ server'[s].fd # 0
    BY <1>1, <2>1, SocketTypes
  <2> HIDE DEF e
  <2>3. pollList'[i] = e \/ \E j \in DOMAIN pollList : pollList'[i] = pollList[j]
    BY <1>1, <2>1, AddedToRegistry
  <2>4. QED
    BY <2>2, <2>3
<1>4. ASSUME NEW s \in Server, StopReturn(s)
      PROVE  \E j \in DOMAIN pollList : pollList'[i] = pollList[j]
  <2>1. pollList' = RemEntry(pollList, server[s].fd)
    BY <1>1, <1>4, StopEffect
  <2>2. QED
    BY <1>1, <2>1, RemovedFromRegistry
<1>5. ASSUME NEW c \in Cnx, Begins(c)
      PROVE  \E j \in DOMAIN pollList : pollList'[i] = pollList[j]
  <2>1. pollList' = RemEntry(pollList, cnx[c].fd)
    BY <1>5 DEF Begins, BeginDisconnect
  <2>2. QED
    BY <1>1, <2>1, RemovedFromRegistry
<1>6. ASSUME NEW s \in Server, AcceptConnection(s)
      PROVE  \/ \E j \in DOMAIN pollList : pollList'[i] = pollList[j]
             \/ pollList'[i].ctx \in Cnx /\ \E x \in Server : AcceptConnection(x)
  <2>1. PICK c \in Cnx : Accepts(s, c)
    BY <1>1, <1>6, AcceptEffect
  <2> DEFINE e == [fd |-> FirstFd, ctx |-> c]
  <2>2. pollList' = AddEntry(pollList, e) /\ e \in Entry
    BY <2>1 DEF Accepts
  <2>3. e.ctx = c
    OBVIOUS
  <2> HIDE DEF e
  <2>4. pollList'[i] = e \/ \E j \in DOMAIN pollList : pollList'[i] = pollList[j]
    BY <1>1, <2>2, AddedToRegistry
  <2>5. QED
    BY <1>6, <2>3, <2>4
<1>7. QED
  BY <1>1, <1>2, <1>3, <1>4, <1>5, <1>6, StepKinds

(* The handler of an event is alone on the stack.                          *)
LEMMA HandlerAlone ==
    ASSUME TypeOK, StackInv, stack # <<>>, Last(stack).op \in EventFrames
    PROVE  Len(stack) = 1 /\ DOMAIN stack = {1} /\ stack[1] = Last(stack)
<1> DEFINE n == Len(stack)
<1>1. n \in DOMAIN stack /\ Last(stack) = stack[n] /\ DOMAIN stack = 1..n
  BY StackTop
<1>2. n = 1
  BY <1>1 DEF StackInv
<1> HIDE DEF n
<1>3. 1..n = {1}
  BY <1>2
<1>4. QED
  BY <1>1, <1>2, <1>3 DEF n

(* The activations after a step.                                           *)
LEMMA StackAfter ==
    ASSUME AnyInv, [Next]_vars, NEW i \in DOMAIN stack'
    PROVE  \/ i \in DOMAIN stack /\ stack'[i] = stack[i]
           \/ \E op \in Ops, arg \in Handler :
                 stack'[i] = Frame(op, arg) /\ (Pushes(op, arg) \/ (Swaps(op, arg) /\ i = 1))
           \/ /\ i = 1
              /\ \E h \in Handler : /\ stack'[i] = Frame("handle", h)
                                    /\ h \in Server => server[h].fd # 0
<1>1. TypeOK /\ ListsInv /\ StackInv /\ StartedInv /\ stack \in Seq(Frames)
  BY DEF AnyInv, TypeOK
<1>2. CASE UNCHANGED stack
  BY <1>2
<1>3. ASSUME NEW op \in Ops, NEW arg \in Handler, Pushes(op, arg)
      PROVE  (i \in DOMAIN stack /\ stack'[i] = stack[i]) \/ stack'[i] = Frame(op, arg)
  <2> DEFINE n == Len(stack)
  <2>1. /\ stack' \in Seq(Frames) /\ Len(stack') = n + 1 /\ stack'[n + 1] = Frame(op, arg)
        /\ \A j \in 1..n : stack'[j] = stack[j]
        /\ n \in Nat /\ DOMAIN stack = 1..n
    BY <1>1, <1>3, StackPush DEF Pushes
  <2>2. i \in 1..(n + 1)
    BY <2>1
  <2> HIDE DEF n
  <2>3. i \in 1..n \/ i = n + 1
    BY <2>1, <2>2
  <2>4. QED
    BY <2>1, <2>3
<1>4. ASSUME NEW op \in Ops, NEW arg \in Handler, Swaps(op, arg)
      PROVE  i = 1 /\ stack'[i] = Frame(op, arg)
  <2>1. Len(stack) = 1
    BY <1>1, <1>4, HandlerAlone DEF Swaps, EventFrames
  <2>2. /\ stack' \in Seq(Frames) /\ Len(stack') = Len(stack)
        /\ stack'[Len(stack)] = Frame(op, arg)
    BY <1>1, <1>4, StackSwap DEF Swaps
  <2>3. i \in 1..1
    BY <2>1, <2>2
  <2>4. QED
    BY <2>1, <2>2, <2>3
<1>5. CASE Pops
  <2> DEFINE n == Len(stack)
  <2>1. /\ stack' \in Seq(Frames) /\ Len(stack') = n - 1 /\ n \in Nat /\ n >= 1
        /\ \A j \in 1..(n - 1) : stack'[j] = stack[j]
        /\ DOMAIN stack = 1..n
    BY <1>1, <1>5, StackPop DEF Pops
  <2>2. i \in 1..(n - 1)
    BY <2>1
  <2> HIDE DEF n
  <2>3. i \in 1..n
    BY <2>1, <2>2
  <2>4. QED
    BY <2>1, <2>2, <2>3
<1>6. CASE Dispatch
  <2>1. PICK k \in runs[1].due : stack' = <<Frame("handle", runs[1].apfds[k].ctx)>>
    BY <1>1, <1>6, DispatchEffect
  <2>2. runs[1] \in Activation /\ k \in DOMAIN runs[1].apfds /\ 1 \in DOMAIN runs
    BY <1>1, <1>6, DispatchEffect, PollTypes
  <2>3. runs[1].apfds[k] \in Entry
    BY <2>2 DEF Activation
  <2>4. runs[1].apfds[k].ctx \in Handler
    BY <2>3 DEF Entry, PollEntry
  <2>5. runs[1].apfds[k].ctx \in Server => server[runs[1].apfds[k].ctx].fd # 0
    BY <1>1, <2>2 DEF StartedInv
  <2>6. i = 1 /\ stack'[i] = Frame("handle", runs[1].apfds[k].ctx)
    BY <2>1
  <2>7. QED
    BY <2>4, <2>5, <2>6
<1>7. QED
  BY <1>1, <1>2, <1>3, <1>4, <1>5, <1>6, StackKinds

(* A frame is its operation and its argument.                              *)
LEMMA FrameFields ==
    ASSUME NEW op, NEW arg
    PROVE  /\ Frame(op, arg).op = op /\ Frame(op, arg).arg = arg
           /\ \A o, a : Frame(o, a) = Frame(op, arg) <=> o = op /\ a = arg
BY DEF Frame

(* Every step keeps the handlers of events at the bottom, and disconnected *)
(* connections unpolled.                                                   *)
LEMMA StackStep ==
    ASSUME AnyInv, [Next]_vars
    PROVE  StackInv'
<1>1. TypeOK /\ ListsInv /\ PolledInv /\ StackInv
  BY DEF AnyInv
<1>2. ASSUME NEW i \in DOMAIN stack', stack'[i].op \in EventFrames
      PROVE  i = 1
  <2>1. CASE i \in DOMAIN stack /\ stack'[i] = stack[i]
    BY <1>1, <1>2, <2>1 DEF StackInv
  <2>2. ASSUME NEW op \in Ops, NEW arg \in Handler,
               stack'[i] = Frame(op, arg), Pushes(op, arg)
        PROVE  FALSE
    BY <1>2, <2>2, FrameFields DEF Pushes, EventFrames
  <2>3. QED
    BY <2>1, <2>2, StackAfter
<1>3. ASSUME NEW c \in Cnx, Disconnecting(c)', NEW i \in DOMAIN pollList',
             pollList'[i].ctx = c
      PROVE  FALSE
  <2>1. PICK k \in DOMAIN stack' : stack'[k] = Frame("disconnect", c)
    BY <1>3 DEF Disconnecting
  <2>2. ASSUME NEW s \in Server, AcceptConnection(s) PROVE FALSE
    <3>1. PICK b \in Cnx : Swap("new_connection", b)
      BY <1>1, <2>2, AcceptEffect DEF Accepts
    <3>2. stack # <<>> /\ Last(stack) = Frame("handle", s)
      BY <1>1, <2>2, AcceptEffect
    <3>3. Len(stack) = 1
      BY <1>1, <3>2, HandlerAlone, FrameFields DEF EventFrames
    <3>4. "new_connection" \in Ops /\ b \in Handler
      BY Marks DEF Ops
    <3>5. /\ stack' \in Seq(Frames) /\ Len(stack') = Len(stack)
          /\ stack'[Len(stack)] = Frame("new_connection", b)
      BY <1>1, <3>1, <3>2, <3>4, StackSwap
    <3>6. k = 1
      BY <3>3, <3>5
    <3>7. Frame("disconnect", c) = Frame("new_connection", b)
      BY <2>1, <3>3, <3>5, <3>6
    <3>8. QED
      BY <3>7, FrameFields
  <2>3. c \notin Server
    BY Marks
  <2>4. PICK j \in DOMAIN pollList : pollList'[i] = pollList[j]
    BY <1>3, <2>2, <2>3, EntriesKept
  <2>5. pollList[j].ctx = c /\ pollList[j].fd = cnx[c].fd
    BY <1>1, <1>3, <2>4 DEF PolledInv
  <2>6. CASE k \in DOMAIN stack /\ stack'[k] = stack[k]
    <3>1. Disconnecting(c)
      BY <2>1, <2>6 DEF Disconnecting
    <3>2. QED
      BY <1>1, <2>5, <3>1 DEF StackInv
  <2>7. ASSUME NEW op \in Ops, NEW arg \in Handler, stack'[k] = Frame(op, arg),
               Pushes(op, arg) \/ Swaps(op, arg)
        PROVE  FALSE
    <3>1. op = "disconnect" /\ arg = c
      BY <2>1, <2>7, FrameFields
    <3>2. pollList' = RemEntry(pollList, cnx[c].fd)
      BY <2>7, <3>1 DEF Pushes, Swaps, BeginDisconnect
    <3>3. pollList'[i].fd # cnx[c].fd
      BY <1>1, <3>2, RemovedFromRegistry DEF PolledInv
    <3>4. QED
      BY <2>4, <2>5, <3>3
  <2>8. ASSUME NEW h \in Handler, stack'[k] = Frame("handle", h) PROVE FALSE
    BY <2>1, <2>8, FrameFields
  <2>9. QED
    BY <2>6, <2>7, <2>8, StackAfter
<1>4. QED
  BY <1>2, <1>3 DEF StackInv

(* A server that has been started stays marked as one.                     *)
LEMMA StaysStarted ==
    ASSUME AnyInv, [Next]_vars, NEW s \in Server, server[s].fd # 0
    PROVE  server'[s].fd # 0
<1>1. TypeOK /\ ListsInv
  BY DEF AnyInv
<1>2. CASE Quiet \/ (\E c \in Cnx : Begins(c))
  BY <1>2 DEF Quiet, Begins, sockets
<1>3. ASSUME NEW x \in Server, af_server_start(x) PROVE server'[s].fd # 0
  <2>1. FirstFd # 0 /\ server'[x] = [fd |-> FirstFd, cnx |-> <<>>, num_cnx |-> 0]
        /\ \A y \in Server \ {x} : server'[y] = server[y]
    BY <1>1, <1>3, StartEffect, SocketTypes
  <2>2. server'[x].fd = FirstFd
    BY <2>1
  <2>3. QED
    BY <2>1, <2>2
<1>4. ASSUME NEW x \in Server, StopReturn(x) PROVE server'[s].fd # 0
  <2>1. NoFile # 0
    BY DEF NoFile
  <2>2. QED
    BY <1>1, <1>4, <2>1, StopEffect
<1>5. ASSUME NEW x \in Server, AcceptLeaks(x) \/ AcceptConnection(x) PROVE server'[s].fd # 0
  BY <1>1, <1>5, LeakEffect, AcceptEffect
<1>6. ASSUME NEW c \in Cnx, Ends(c) PROVE server'[s].fd # 0
  BY <1>1, <1>6, EndEffect
<1>7. QED
  BY <1>1, <1>2, <1>3, <1>4, <1>5, <1>6, StepKinds

(* The copies of the list after a step.                                    *)
LEMMA CopiesAfter ==
    ASSUME TypeOK, ListsInv, [Next]_vars, NEW k \in DOMAIN runs',
           NEW i \in DOMAIN runs'[k].apfds
    PROVE  \/ \E j \in DOMAIN pollList : runs'[k].apfds[i] = pollList[j]
           \/ /\ k \in DOMAIN runs /\ i \in DOMAIN runs[k].apfds
              /\ runs'[k].apfds[i] = runs[k].apfds[i]
<1>1. CASE UNCHANGED runs
  BY <1>1
<1>2. CASE RunBegin
  <2> DEFINE copy == Snapshot(pollList)
  <2>1. PICK due : runs' = <<[apfds |-> copy, due |-> due, cur |-> 0]>>
    BY <1>2, BeginEffect
  <2>2. copy \in Seq(Entry) /\ Len(copy) <= Len(pollList)
        /\ \A j \in 1..Len(copy) : copy[j] = pollList[j]
    BY PollTypes, SnapshotProperties
  <2>3. DOMAIN copy = 1..Len(copy) /\ DOMAIN pollList = 1..Len(pollList)
        /\ Len(copy) \in Nat /\ Len(pollList) \in Nat
    BY <2>2, PollTypes
  <2> HIDE DEF copy
  <2>4. k = 1 /\ runs'[k].apfds = copy
    BY <2>1
  <2>5. i \in DOMAIN pollList
    BY <2>2, <2>3, <2>4
  <2>6. QED
    BY <2>2, <2>3, <2>4, <2>5
<1>3. CASE Dispatch
  <2>1. PICK n, due : runs' = <<[apfds |-> runs[1].apfds, due |-> due, cur |-> n]>>
    BY <1>3, DispatchEffect
  <2>2. k = 1 /\ runs'[k].apfds = runs[1].apfds /\ 1 \in DOMAIN runs
    BY <1>3, <2>1, DispatchEffect, PollTypes
  <2>3. QED
    BY <2>2
<1>4. CASE CallbackReturn
  <2>1. /\ runs' = <<[apfds |-> runs[1].apfds, due |-> runs[1].due, cur |-> 0]>>
        /\ runs # <<>>
    BY <1>4, CallbackEffect
  <2>2. k = 1 /\ runs'[k].apfds = runs[1].apfds /\ 1 \in DOMAIN runs
    BY <2>1, PollTypes
  <2>3. QED
    BY <2>2
<1>5. CASE RunReturn
  BY <1>5, RunReturnEffect
<1>6. QED
  BY <1>1, <1>2, <1>3, <1>4, <1>5, RunKinds

(* Every step keeps a server that is handled a started one.                *)
LEMMA StartedStep ==
    ASSUME AnyInv, [Next]_vars
    PROVE  StartedInv'
<1>1. TypeOK /\ ListsInv /\ StartedInv
  BY DEF AnyInv
<1>2. ASSUME NEW s \in Server, NEW i \in DOMAIN pollList', pollList'[i].ctx = s
      PROVE  server'[s].fd # 0
  <2>1. s \notin Cnx
    BY Marks
  <2>2. QED
    BY <1>1, <1>2, <2>1, EntriesKept, StaysStarted DEF StartedInv
<1>3. ASSUME NEW s \in Server, NEW k \in DOMAIN runs', NEW i \in DOMAIN runs'[k].apfds,
             runs'[k].apfds[i].ctx = s
      PROVE  server'[s].fd # 0
  BY <1>1, <1>3, CopiesAfter, StaysStarted DEF StartedInv
<1>4. ASSUME NEW s \in Server, NEW i \in DOMAIN stack', stack'[i].arg = s
      PROVE  server'[s].fd # 0
  <2>1. server[s].fd # 0
    <3>1. CASE i \in DOMAIN stack /\ stack'[i] = stack[i]
      BY <1>1, <1>4, <3>1 DEF StartedInv
    <3>2. ASSUME NEW op \in Ops, NEW arg \in Handler, stack'[i] = Frame(op, arg),
                 Pushes(op, arg) \/ Swaps(op, arg)
          PROVE  server[s].fd # 0
      BY <1>4, <3>2, FrameFields, Marks DEF Pushes, Swaps
    <3>3. ASSUME NEW h \in Handler, stack'[i] = Frame("handle", h),
                 h \in Server => server[h].fd # 0
          PROVE  server[s].fd # 0
      BY <1>4, <3>3, FrameFields
    <3>4. QED
      BY <3>1, <3>2, <3>3, StackAfter
  <2>2. QED
    BY <2>1, StaysStarted
<1>5. QED
  BY <1>2, <1>3, <1>4 DEF StartedInv

(* Every step leaves the section inactive between two callbacks.           *)
LEMMA LoopStep ==
    ASSUME AnyInv, [Next]_vars
    PROVE  LoopInv'
<1>1. TypeOK /\ ListsInv /\ LoopInv
  BY DEF AnyInv
<1>2. CASE Dispatch
  <2>1. PICK i \in runs[1].due :
           runs' = <<[apfds |-> runs[1].apfds, due |-> runs[1].due \ {i}, cur |-> i]>>
    BY <1>1, <1>2, DispatchEffect
  <2>2. runs[1] \in Activation /\ runs[1].due \subseteq DOMAIN runs[1].apfds
    BY <1>1, <1>2, DispatchEffect, PollTypes
  <2>3. i # 0
    BY <2>2 DEF Activation
  <2>4. runs'[1].cur = i
    BY <2>1
  <2>5. QED
    BY <2>3, <2>4 DEF LoopInv
<1>3. CASE RunBegin \/ CallbackReturn \/ RunReturn
  BY <1>1, <1>3, BeginEffect, CallbackEffect, RunReturnEffect DEF LoopInv
<1>4. CASE UNCHANGED runs
  <2>1. CASE UNCHANGED stack
    BY <1>1, <1>4, <2>1 DEF LoopInv
  <2>2. ASSUME NEW op, NEW arg, Pushes(op, arg) \/ Swaps(op, arg) PROVE LoopInv'
    BY <1>1, <1>4, <2>2 DEF Pushes, Swaps, LoopInv
  <2>3. CASE Pops
    BY <1>1, <1>4, <2>3 DEF Pops, LoopInv
  <2>4. QED
    BY <1>1, <1>2, <2>1, <2>2, <2>3, StackKinds
<1>5. QED
  BY <1>1, <1>2, <1>3, <1>4, RunKinds

-----------------------------------------------------------------------------
(* What holds whatever callbacks do.                                       *)
LEMMA AnyInit == Init => AnyInv
<1>1. SUFFICES ASSUME Init PROVE AnyInv
  OBVIOUS
<1>2. TypeOK
  BY <1>1, TypeInit
<1>3. ListsInv
  <2>1. \A s \in Server : server[s] = [fd |-> 0, cnx |-> <<>>, num_cnx |-> 0]
    BY <1>1 DEF Init
  <2>2. \A s \in Server : server[s].cnx = <<>> /\ server[s].num_cnx = 0
    BY <2>1
  <2>3. \A s \in Server, c \in Cnx : cnx[c].server # s
    BY <1>1, Marks DEF Init, NoCnx
  <2>4. IsInjective(<<>>) /\ Len(<<>>) = 0 /\ \A c : ~ Contains(<<>>, c)
    BY DEF IsInjective, Contains
  <2>5. QED
    BY <2>2, <2>3, <2>4 DEF ListsInv
<1>4. OwnedInv
  <2>1. \A c \in Cnx : cnx[c].server = None /\ cnx[c].fd = 0 /\ cnx[c].dup = 0
    BY <1>1 DEF Init, NoCnx
  <2>2. \A s \in Server : ~ (server[s].fd > 0)
    BY <1>1 DEF Init
  <2>3. \A f \in Descriptor : files[f] = Free
    BY <1>1 DEF Init, Descriptor
  <2>4. QED
    BY <2>1, <2>2, <2>3, Marks DEF OwnedInv, CnxOwns, ServerOwns, OwnersKnow, Open
<1>5. pollList = <<>> /\ runs = <<>> /\ stack = <<>>
  BY <1>1 DEF Init, Poll!Init
<1>6. PolledInv
  BY <1>5 DEF PolledInv, Registry
<1>7. StackInv
  BY <1>5 DEF StackInv, Disconnecting
<1>8. StartedInv /\ LoopInv
  BY <1>5 DEF StartedInv, LoopInv
<1>9. QED
  BY <1>2, <1>3, <1>4, <1>6, <1>7, <1>8 DEF AnyInv

(* Every step preserves the inductive invariant, whatever the callbacks    *)
(* do.                                                                     *)
LEMMA AnyStep == AnyInv /\ [Next]_vars => AnyInv'
BY TypeStep, ListsStep, OwnedStep, PolledStep, StackStep, StartedStep, LoopStep DEF AnyInv

(* It holds throughout.                                                    *)
LEMMA AnyCorrect == Spec => []AnyInv
BY AnyInit, AnyStep, PTL DEF Spec

(* The list of a server holds exactly its open connections, each once, the *)
(* counter counts them, and none is left when the server has stopped,      *)
(* also when callbacks disconnect connections while the server             *)
(* disconnects all of them.                                                *)
THEOREM ListsCorrect == Spec => []CnxLists
<1>1. ASSUME AnyInv PROVE CnxLists
  <2>1. \A s \in Server : server[s].fd = NoFile => server[s].fd <= 0
    BY DEF NoFile
  <2>2. QED
    BY <1>1, <2>1 DEF AnyInv, ListsInv, CnxLists
<1>2. QED
  BY <1>1, AnyCorrect, PTL

(* Every open connection owns its two descriptors and every started server *)
(* its listening descriptor, and no descriptor of theirs is any other: the *)
(* section never closes a descriptor that has been given to somebody else. *)
THEOREM DescriptorsCorrect == Spec => []DescriptorsOwned
<1>1. ASSUME AnyInv PROVE DescriptorsOwned
  BY <1>1 DEF AnyInv, OwnedInv, CnxOwns, ServerOwns, OwnersKnow, DescriptorsOwned,
              Descriptor
<1>2. QED
  BY <1>1, AnyCorrect, PTL

-----------------------------------------------------------------------------
(* What is open is polled, when the arrays of af_poll_run have room for    *)
(* every server and all the connections it may have.                       *)
Room == IsFiniteSet(Server) /\ Cardinality(Server) * (MaxCnx + 1) <= MaxFds

(* The places entries of the list may take: one for every server, and one  *)
(* for every connection it may have.                                       *)
Places == Server \X (0..MaxCnx)

Holder(p) == IF p[2] = 0 THEN p[1] ELSE server[p[1]].cnx[p[2]]

(* An entry has a place of its own; a spare place leaves room for one more.*)
LEMMA SpareRoom ==
    ASSUME TypeOK, ListsInv, OwnedInv, PolledInv, Room, NEW spare \in Places,
           \A s \in Server : \A k \in 0..Len(server[s].cnx) :
              \A i \in DOMAIN pollList :
                 Holder(<<s, k>>) = pollList[i].ctx => <<s, k>> # spare
    PROVE  Len(pollList) < MaxFds
<1> DEFINE n == Len(pollList)
           rest == Places \ {spare}
<1>1. n \in Nat /\ DOMAIN pollList = 1..n
  BY PollTypes
<1>2. /\ \A i, j \in DOMAIN pollList : pollList[i].fd = pollList[j].fd => i = j
      /\ \A i \in DOMAIN pollList :
            /\ pollList[i].fd \in Descriptor /\ pollList[i].ctx \in Handler
            /\ files[pollList[i].fd] = pollList[i].ctx
            /\ pollList[i].ctx \in Cnx => pollList[i].fd = cnx[pollList[i].ctx].fd
            /\ pollList[i].ctx \in Server => pollList[i].fd = server[pollList[i].ctx].fd
  BY EntryTypes DEF PolledInv, Registry, OwnedInv, OwnersKnow
<1>3. \A i, j \in DOMAIN pollList : pollList[i].ctx = pollList[j].ctx => i = j
  BY <1>2 DEF Handler
<1>4. ASSUME NEW i \in DOMAIN pollList
      PROVE  \E p \in rest : Holder(p) = pollList[i].ctx
  <2> DEFINE h == pollList[i].ctx
  <2>1. CASE h \in Server
    <3>1. <<h, 0>> \in Places
      BY <2>1 DEF Places
    <3>2. Holder(<<h, 0>>) = h
      BY DEF Holder
    <3>3. Len(server[h].cnx) \in Nat
      BY <2>1, SocketTypes DEF ServerData
    <3>4. <<h, 0>> # spare
      BY <2>1, <3>2, <3>3
    <3>5. QED
      BY <3>1, <3>2, <3>4
  <2>2. CASE h \in Cnx
    <3> DEFINE s == cnx[h].server
               list == server[s].cnx
    <3>1. Open(h)
      <4>1. pollList[i].fd # 0 /\ pollList[i].fd = cnx[h].fd
        BY <1>2, <2>2, SocketTypes
      <4>2. QED
        BY <2>2, <4>1 DEF OwnedInv, CnxOwns
    <3>2. s \in Server
      BY <2>2, <3>1, SocketTypes DEF Open, CnxData
    <3>3. /\ Contains(list, h) /\ list \in Seq(Cnx) /\ Len(list) <= MaxCnx
      BY <2>2, <3>2, SocketTypes DEF ListsInv, ServerData
    <3>4. PICK k \in 1..Len(list) : list[k] = h
      BY <3>3 DEF Contains
    <3> HIDE DEF s, list
    <3>5. k \in 0..MaxCnx /\ k # 0 /\ k \in 0..Len(list)
      BY <3>3, <3>4
    <3>6. <<s, k>> \in Places
      BY <3>2, <3>5 DEF Places
    <3>7. Holder(<<s, k>>) = h
      BY <3>4, <3>5 DEF Holder, list
    <3>8. <<s, k>> # spare
      BY <3>2, <3>5, <3>7 DEF list
    <3>9. QED
      BY <3>6, <3>7, <3>8
  <2>3. QED
    BY <1>2, <2>1, <2>2 DEF Handler
<1> DEFINE place == [i \in 1..n |-> CHOOSE p \in rest : Holder(p) = pollList[i].ctx]
<1>5. \A i \in 1..n : place[i] \in rest /\ Holder(place[i]) = pollList[i].ctx
  BY <1>1, <1>4
<1>6. place \in Injection(1..n, rest)
  <2>1. place \in [1..n -> rest]
    BY <1>5
  <2>2. \A i, j \in 1..n : place[i] = place[j] => i = j
    BY <1>1, <1>3, <1>5
  <2> HIDE DEF place, rest, n
  <2>3. IsInjective(place)
    BY <2>1, <2>2 DEF IsInjective
  <2>4. QED
    BY <2>1, <2>3 DEF Injection
<1>7. IsFiniteSet(Places) /\ Cardinality(Places) = Cardinality(Server) * (MaxCnx + 1)
  <2>1. IsFiniteSet(0..MaxCnx) /\ Cardinality(0..MaxCnx) = MaxCnx + 1
    BY FS_Interval
  <2>2. QED
    BY <2>1, FS_Product DEF Places, Room
<1>8. IsFiniteSet(rest) /\ Cardinality(rest) = Cardinality(Places) - 1
  BY <1>7, FS_RemoveElement
<1>9. Cardinality(1..n) = n
  BY <1>1, FS_Interval
<1> HIDE DEF place, rest, n
<1>10. n <= Cardinality(rest)
  BY <1>6, <1>8, <1>9, FS_Injection
<1>11. Cardinality(Places) <= MaxFds /\ Cardinality(Places) \in Nat
  BY <1>7, FS_CardinalityType DEF Room
<1>12. QED
  BY <1>1, <1>8, <1>10, <1>11 DEF n

Polls(list, f, h) == \E i \in DOMAIN list : list[i] = [fd |-> f, ctx |-> h]

RegisteredInv ==
    /\ \A s \in Server : Listening(s) => Polls(pollList, server[s].fd, s)
    /\ \A c \in Cnx : Open(c) /\ ~ Disconnecting(c) => Polls(pollList, cnx[c].fd, c)

(* A descriptor that was free is registered when there is room.            *)
LEMMA FreeIsAdded ==
    ASSUME TypeOK, PolledInv, NEW f \in Descriptor, NEW h \in Handler,
           files[f] = Free, Len(pollList) < MaxFds
    PROVE  LET list == AddEntry(pollList, [fd |-> f, ctx |-> h])
           IN  Polls(list, f, h) /\ \A g, x : Polls(pollList, g, x) => Polls(list, g, x)
<1> DEFINE e == [fd |-> f, ctx |-> h]
           list == <<e>> \o pollList
<1>1. e.fd = f /\ e \in Entry
  BY DEF Entry, PollEntry
<1>2. ~ Listed(pollList, f)
  <2>1. \A i \in DOMAIN pollList : files[pollList[i].fd] # Free
    BY EntryTypes, HandlerAssumption DEF PolledInv
  <2>2. QED
    BY <2>1 DEF Listed
<1>3. AddEntry(pollList, e) = list
  <2>1. ~ (Len(pollList) >= MaxFds) /\ -2 # 0
    BY PollTypes
  <2>2. AddResult(pollList, e.fd) = 0
    BY <1>1, <1>2, <2>1 DEF AddResult
  <2>3. QED
    BY <2>2 DEF AddEntry
<1>4. pollList \in Seq(Entry) /\ Len(pollList) \in Nat
      /\ DOMAIN pollList = 1..Len(pollList)
  BY PollTypes
<1>5. /\ list \in Seq(Entry) /\ Len(list) = Len(pollList) + 1 /\ list[1] = e
      /\ \A i \in 1..Len(pollList) : list[i + 1] = pollList[i]
  BY <1>1, <1>4, ConsProperties
<1> HIDE DEF list
<1>6. 1 \in DOMAIN list /\ \A i \in DOMAIN pollList : i + 1 \in DOMAIN list
  BY <1>4, <1>5
<1>7. Polls(list, f, h)
  BY <1>5, <1>6 DEF Polls
<1>8. \A g, x : Polls(pollList, g, x) => Polls(list, g, x)
  BY <1>4, <1>5, <1>6 DEF Polls
<1>9. QED
  BY <1>3, <1>7, <1>8

(* Removing a descriptor leaves the others polled.                         *)
LEMMA OthersStay ==
    ASSUME TypeOK, NEW fd, NEW f, NEW h, Polls(pollList, f, h), f # fd
    PROVE  Polls(RemEntry(pollList, fd), f, h)
<1>1. PICK j \in DOMAIN pollList : pollList[j] = [fd |-> f, ctx |-> h]
  BY DEF Polls
<1>2. pollList[j].fd # fd
  BY <1>1
<1>3. \E m \in DOMAIN RemEntry(pollList, fd) : RemEntry(pollList, fd)[m] = pollList[j]
  BY <1>2, PollTypes, RemKeepsOthers
<1>4. QED
  BY <1>1, <1>3 DEF Polls

(* The disconnection of a connection ends with the connection.             *)
LEMMA DisconnectionEnds ==
    ASSUME AnyInv, [Next]_vars, NEW c \in Cnx, Disconnecting(c), ~ Disconnecting(c)'
    PROVE  ~ Open(c)'
<1>1. TypeOK /\ ListsInv /\ StackInv
  BY DEF AnyInv
<1>2. PICK k \in DOMAIN stack : stack[k] = Frame("disconnect", c)
  BY DEF Disconnecting
<1>3. /\ stack \in Seq(Frames) /\ stack # <<>> /\ Len(stack) \in Nat
      /\ DOMAIN stack = 1..Len(stack) /\ Last(stack) = stack[Len(stack)]
  <2>1. stack # <<>>
    BY <1>2
  <2>2. QED
    BY <1>1, <2>1, StackTop DEF TypeOK
<1>4. CASE UNCHANGED stack
  BY <1>2, <1>4 DEF Disconnecting
<1>5. ASSUME NEW op \in Ops, NEW arg \in Handler, Pushes(op, arg)
      PROVE  FALSE
  <2>1. /\ stack' \in Seq(Frames) /\ Len(stack') = Len(stack) + 1
        /\ \A i \in 1..Len(stack) : stack'[i] = stack[i]
    BY <1>1, <1>5, StackPush DEF Pushes
  <2>2. k \in DOMAIN stack' /\ stack'[k] = Frame("disconnect", c)
    BY <1>2, <1>3, <2>1
  <2>3. QED
    BY <2>2 DEF Disconnecting
<1>6. ASSUME NEW op \in Ops, NEW arg \in Handler, Swaps(op, arg)
      PROVE  FALSE
  <2>1. DOMAIN stack = {1} /\ stack[1] = Last(stack) /\ Last(stack).op = "handle"
    BY <1>1, <1>6, HandlerAlone DEF Swaps, EventFrames
  <2>2. stack[k].op = "handle"
    BY <2>1
  <2>3. QED
    BY <1>2, <2>2, FrameFields
<1>7. CASE Pops
  <2> DEFINE n == Len(stack)
  <2>1. /\ stack' \in Seq(Frames) /\ Len(stack') = n - 1
        /\ \A i \in 1..(n - 1) : stack'[i] = stack[i]
        /\ n \in Nat /\ DOMAIN stack' = 1..(n - 1)
    BY <1>1, <1>7, StackPop DEF Pops
  <2>2. k \in 1..n
    BY <1>3
  <2> HIDE DEF n
  <2>3. CASE k = n
    <3>1. Last(stack) = Frame("disconnect", c)
      BY <1>2, <1>3, <2>3 DEF n
    <3>2. QED
      BY <1>7, <3>1 DEF Pops, Open
  <2>4. CASE k # n
    <3>1. k \in 1..(n - 1)
      BY <2>1, <2>2, <2>4
    <3>2. QED
      BY <1>2, <2>1, <3>1 DEF Disconnecting
  <2>5. QED
    BY <2>3, <2>4
<1>8. CASE Dispatch
  BY <1>1, <1>3, <1>8, DispatchEffect
<1>9. QED
  BY <1>1, <1>4, <1>5, <1>6, <1>7, <1>8, StackKinds


(* With room for everybody, every step keeps what is open polled.          *)
LEMMA RegisteredStep ==
    ASSUME AnyInv, RegisteredInv, Room, [Next]_vars
    PROVE  RegisteredInv'
<1>1. TypeOK /\ ListsInv /\ OwnedInv /\ PolledInv /\ StackInv
  BY DEF AnyInv
<1>2. /\ CnxOwns /\ ServerOwns /\ OwnersKnow
      /\ files \in [Descriptor -> Handler \cup {Free, Leaked}]
      /\ server \in [Server -> ServerData]
      /\ \A f \in Descriptor : f # 0 /\ f > 0
  BY <1>1, SocketTypes DEF OwnedInv
<1>3. \A c \in Cnx : Open(c)' /\ ~ Disconnecting(c)' => ~ Disconnecting(c)
  BY DisconnectionEnds
<1>4. /\ \A s \in Server : Listening(s) <=> \E f \in Descriptor : files[f] = s
      /\ \A s \in Server : Listening(s)' <=> \E f \in Descriptor : files'[f] = s
      /\ \A c \in Cnx : Open(c)' <=> cnx'[c].server # None
  BY DEF Listening, Descriptor, Open
<1>5. SUFFICES
        /\ \A s \in Server : Listening(s)' => Polls(pollList', server'[s].fd, s)
        /\ \A c \in Cnx : Open(c)' /\ ~ Disconnecting(c)' => Polls(pollList', cnx'[c].fd, c)
  BY DEF RegisteredInv
<1> DEFINE Goal ==
        /\ \A s \in Server : Listening(s)' => Polls(pollList', server'[s].fd, s)
        /\ \A c \in Cnx : Open(c)' /\ ~ Disconnecting(c)' => Polls(pollList', cnx'[c].fd, c)
<1>6. ASSUME Quiet PROVE Goal
  BY <1>3, <1>6 DEF RegisteredInv, Quiet, Listening, Open
<1>7. ASSUME NEW s \in Server, af_server_start(s) PROVE Goal
  <2> DEFINE new == FirstFd
  <2>1. /\ new \in Descriptor /\ files[new] = Free /\ ~ Listening(s) /\ cnx' = cnx
        /\ files' = [files EXCEPT ![new] = s]
        /\ \A x \in Server \ {s} : server'[x] = server[x]
        /\ pollList' = AddEntry(pollList, [fd |-> new, ctx |-> s])
        /\ server'[s] = [fd |-> new, cnx |-> <<>>, num_cnx |-> 0]
    BY <1>1, <1>7, StartEffect
  <2> HIDE DEF new
  <2>2. server'[s].fd = new /\ \A f \in Descriptor \ {new} : files'[f] = files[f]
    BY <1>2, <2>1
  <2>3. Len(pollList) < MaxFds
    <3>1. <<s, 0>> \in Places
      BY DEF Places
    <3>2. ASSUME NEW x \in Server, NEW k \in 0..Len(server[x].cnx),
                 NEW i \in DOMAIN pollList, Holder(<<x, k>>) = pollList[i].ctx,
                 <<x, k>> = <<s, 0>>
          PROVE  FALSE
      <4>1. pollList[i].ctx = s
        BY <3>2 DEF Holder
      <4>2. files[pollList[i].fd] = s /\ pollList[i].fd \in Descriptor
        BY <1>1, <4>1, EntryTypes DEF PolledInv
      <4>3. QED
        BY <1>4, <2>1, <4>2
    <3>3. QED
      BY <1>1, <3>1, <3>2, SpareRoom
  <2>4. /\ Polls(pollList', new, s)
        /\ \A g, x : Polls(pollList, g, x) => Polls(pollList', g, x)
    BY <1>1, <2>1, <2>3, FreeIsAdded, Marks
  <2>5. ASSUME NEW x \in Server, Listening(x)' PROVE Polls(pollList', server'[x].fd, x)
    <3>1. CASE x = s
      BY <2>2, <2>4, <3>1
    <3>2. CASE x # s
      <4>1. Listening(x)
        BY <1>4, <2>1, <2>2, <2>5, <3>2
      <4>2. QED
        BY <2>1, <2>4, <3>2, <4>1 DEF RegisteredInv
    <3>3. QED
      BY <3>1, <3>2
  <2>6. ASSUME NEW c \in Cnx, Open(c)', ~ Disconnecting(c)'
        PROVE  Polls(pollList', cnx'[c].fd, c)
    BY <1>3, <2>1, <2>4, <2>6 DEF RegisteredInv, Open
  <2>7. QED
    BY <2>5, <2>6
<1>8. ASSUME NEW s \in Server, StopReturn(s) PROVE Goal
  <2>1. /\ files' = [f \in Descriptor |-> IF f = server[s].fd THEN Free ELSE files[f]]
        /\ \A x \in Server \ {s} : server'[x] = server[x]
        /\ pollList' = RemEntry(pollList, server[s].fd) /\ cnx' = cnx
    BY <1>1, <1>8, StopEffect
  <2>2. \A f \in Descriptor : f = server[s].fd => files[f] = s
    BY <1>1, OneOwner
  <2>3. ASSUME NEW x \in Server, Listening(x)' PROVE Polls(pollList', server'[x].fd, x)
    <3>1. PICK f \in Descriptor : files'[f] = x
      BY <1>4, <2>3
    <3>2. f # server[s].fd /\ files[f] = x
      BY <2>1, <3>1, Marks
    <3>3. f = server[x].fd
      BY <1>2, <3>2 DEF OwnersKnow
    <3>4. x # s /\ Polls(pollList, server[x].fd, x)
      BY <1>4, <3>2, <3>3 DEF RegisteredInv
    <3>5. QED
      BY <1>1, <2>1, <3>2, <3>3, <3>4, OthersStay
  <2>4. ASSUME NEW c \in Cnx, Open(c)', ~ Disconnecting(c)'
        PROVE  Polls(pollList', cnx'[c].fd, c)
    <3>1. Open(c) /\ Polls(pollList, cnx[c].fd, c)
      BY <1>3, <2>1, <2>4 DEF RegisteredInv, Open
    <3>2. cnx[c].fd # server[s].fd
      BY <1>2, <2>2, <3>1, Marks DEF CnxOwns
    <3>3. QED
      BY <1>1, <2>1, <3>1, <3>2, OthersStay
  <2>5. QED
    BY <2>3, <2>4
<1>9. ASSUME NEW s \in Server, AcceptLeaks(s) PROVE Goal
  <2>1. /\ SecondFd \in Descriptor
        /\ pollList' = pollList /\ server' = server /\ cnx' = cnx
        /\ files' = [files EXCEPT ![SecondFd] = Leaked]
    BY <1>1, <1>9, LeakEffect
  <2>2. \A f \in Descriptor : files'[f] = files[f] \/ files'[f] = Leaked
    BY <1>2, <2>1
  <2>3. \A x \in Server : Listening(x)' => Listening(x)
    BY <1>4, <2>2, Marks
  <2>4. QED
    BY <1>3, <2>1, <2>3 DEF RegisteredInv, Open
<1>10. ASSUME NEW s \in Server, AcceptConnection(s) PROVE Goal
  <2>1. PICK c \in Cnx : Accepts(s, c)
    BY <1>1, <1>10, AcceptEffect
  <2> DEFINE new == FirstFd
  <2>2. /\ new \in Descriptor /\ files[new] = Free
        /\ files' = [files EXCEPT ![new] = c, ![SecondFd] = c]
        /\ SecondFd \in Descriptor
        /\ cnx'[c].fd = new /\ \A x \in Cnx \ {c} : cnx'[x] = cnx[x]
        /\ pollList' = AddEntry(pollList, [fd |-> new, ctx |-> c])
        /\ \A x \in Server : server'[x].fd = server[x].fd
        /\ server[s].num_cnx < MaxCnx
    BY <1>1, <1>10, <2>1, AcceptEffect DEF Accepts
  <2> HIDE DEF new
  <2>3. \A f \in Descriptor : files'[f] = files[f] \/ files'[f] = c
    BY <1>2, <2>2
  <2>4. Len(pollList) < MaxFds
    <3>1. <<s, MaxCnx>> \in Places
      BY DEF Places
    <3>2. Len(server[s].cnx) < MaxCnx /\ Len(server[s].cnx) \in Nat
      BY <1>1, <1>2, <2>2 DEF ListsInv, ServerData
    <3>3. ASSUME NEW x \in Server, NEW k \in 0..Len(server[x].cnx),
                 <<x, k>> = <<s, MaxCnx>>
          PROVE  FALSE
      <4>1. x = s /\ k = MaxCnx
        BY <3>3
      <4>2. MaxCnx \in 0..Len(server[s].cnx)
        BY <4>1
      <4>3. QED
        BY <3>2, <4>2
    <3>4. QED
      BY <1>1, <3>1, <3>3, SpareRoom
  <2>5. /\ Polls(pollList', new, c)
        /\ \A g, x : Polls(pollList, g, x) => Polls(pollList', g, x)
    BY <1>1, <2>2, <2>4, FreeIsAdded, Marks
  <2>6. ASSUME NEW x \in Server, Listening(x)' PROVE Polls(pollList', server'[x].fd, x)
    <3>1. Listening(x)
      BY <1>4, <2>3, <2>6, Marks
    <3>2. QED
      BY <2>2, <2>5, <3>1 DEF RegisteredInv
  <2>7. ASSUME NEW x \in Cnx, Open(x)', ~ Disconnecting(x)'
        PROVE  Polls(pollList', cnx'[x].fd, x)
    <3>1. CASE x = c
      BY <2>2, <2>5, <3>1
    <3>2. CASE x # c
      BY <1>3, <2>2, <2>5, <2>7, <3>2 DEF RegisteredInv, Open
    <3>3. QED
      BY <3>1, <3>2
  <2>8. QED
    BY <2>6, <2>7
<1>11. ASSUME NEW c \in Cnx, Begins(c) PROVE Goal
  <2>1. /\ Open(c) /\ pollList' = RemEntry(pollList, cnx[c].fd)
        /\ UNCHANGED <<files, server, cnx>>
    BY <1>11 DEF Begins, BeginDisconnect, sockets
  <2>2. files[cnx[c].fd] = c
    BY <1>2, <2>1 DEF CnxOwns
  <2>3. ASSUME NEW x \in Server, Listening(x)' PROVE Polls(pollList', server'[x].fd, x)
    <3>1. Listening(x) /\ Polls(pollList, server[x].fd, x)
      BY <1>4, <2>1, <2>3 DEF RegisteredInv
    <3>2. PICK f \in Descriptor : files[f] = x
      BY <1>4, <3>1
    <3>3. server[x].fd # cnx[c].fd
      BY <1>2, <2>2, <3>2, Marks DEF OwnersKnow
    <3>4. QED
      BY <1>1, <2>1, <3>1, <3>3, OthersStay
  <2>4. Disconnecting(c)'
    <3>1. CASE Push("disconnect", c)
      <4>1. "disconnect" \in Ops /\ c \in Handler
        BY Marks DEF Ops
      <4>2. /\ stack' \in Seq(Frames) /\ Len(stack') = Len(stack) + 1
            /\ stack'[Len(stack) + 1] = Frame("disconnect", c)
            /\ Len(stack) \in Nat
        BY <1>1, <3>1, <4>1, StackPush DEF TypeOK
      <4>3. Len(stack) + 1 \in DOMAIN stack'
        BY <4>2
      <4>4. QED
        BY <4>2, <4>3 DEF Disconnecting
    <3>2. CASE Top("handle", c) /\ Swap("disconnect", c)
      <4>1. "disconnect" \in Ops /\ c \in Handler /\ stack # <<>>
        BY <3>2, Marks DEF Ops, Top
      <4>2. /\ stack' \in Seq(Frames) /\ Len(stack') = Len(stack)
            /\ stack'[Len(stack)] = Frame("disconnect", c)
            /\ Len(stack) \in Nat /\ Len(stack) >= 1
        BY <1>1, <3>2, <4>1, StackSwap
      <4>3. Len(stack) \in DOMAIN stack'
        BY <4>2
      <4>4. QED
        BY <4>2, <4>3 DEF Disconnecting
    <3>3. QED
      BY <1>11, <3>1, <3>2 DEF Begins
  <2>5. ASSUME NEW x \in Cnx, Open(x)', ~ Disconnecting(x)'
        PROVE  Polls(pollList', cnx'[x].fd, x)
    <3>1. x # c /\ Open(x) /\ Polls(pollList, cnx[x].fd, x)
      BY <1>3, <2>1, <2>4, <2>5 DEF RegisteredInv, Open
    <3>2. cnx[x].fd # cnx[c].fd
      BY <1>2, <2>2, <3>1 DEF CnxOwns
    <3>3. QED
      BY <1>1, <2>1, <3>1, <3>2, OthersStay
  <2>6. QED
    BY <2>3, <2>5
<1>12. ASSUME NEW c \in Cnx, Ends(c) PROVE Goal
  <2>1. /\ files' = [f \in Descriptor |-> IF f \in {cnx[c].fd, cnx[c].dup} THEN Free
                                          ELSE files[f]]
        /\ pollList' = pollList
        /\ \A x \in Server : server'[x].fd = server[x].fd
        /\ cnx'[c] = NoCnx /\ \A x \in Cnx \ {c} : cnx'[x] = cnx[x]
    BY <1>1, <1>12, EndEffect
  <2>2. \A x \in Server : Listening(x)' => Listening(x)
    BY <1>4, <2>1, Marks
  <2>3. ASSUME NEW x \in Cnx, Open(x)', ~ Disconnecting(x)'
        PROVE  Polls(pollList', cnx'[x].fd, x)
    <3>1. x # c
      BY <1>4, <2>1, <2>3 DEF NoCnx
    <3>2. QED
      BY <1>3, <2>1, <2>3, <3>1 DEF RegisteredInv, Open
  <2>4. QED
    BY <2>1, <2>2, <2>3 DEF RegisteredInv
<1> HIDE DEF Goal
<1>13. Goal
  BY <1>1, <1>6, <1>7, <1>8, <1>9, <1>10, <1>11, <1>12, StepKinds
<1>14. QED
  BY <1>13 DEF Goal

(* What is polled is what is open, when MAX_FDS has room for every server  *)
(* with all its connections: a descriptor that is not polled would never   *)
(* be served, one that was closed would be served for another owner.       *)
THEOREM PollCorrect ==
    ASSUME Room
    PROVE  Spec => []PollExact
<1>1. Init => RegisteredInv
  <2>1. SUFFICES ASSUME Init PROVE RegisteredInv
    OBVIOUS
  <2>2. \A c \in Cnx : ~ Open(c)
    BY <2>1 DEF Init, NoCnx, Open
  <2>3. \A s \in Server : ~ Listening(s)
    BY <2>1, Marks DEF Init, Listening
  <2>4. QED
    BY <2>2, <2>3 DEF RegisteredInv
<1>2. AnyInv /\ RegisteredInv /\ [Next]_vars => RegisteredInv'
  BY RegisteredStep
<1>3. AnyInv /\ RegisteredInv => PollExact
  BY DEF AnyInv, PolledInv, RegisteredInv, Polls, PollExact, Registered
<1>4. QED
  BY <1>1, <1>2, <1>3, AnyCorrect, PTL DEF Spec

-----------------------------------------------------------------------------
(* Callbacks that disconnect only the connection of their own command.     *)

(* The entry whose callback is running.                                    *)
Handling == runs[1].apfds[runs[1].cur]

(* The entry of a copy is still the one that was copied, and its event is  *)
(* still pending.                                                          *)
Live(e) ==
    /\ files[e.fd] = e.ctx
    /\ e.ctx \in Cnx => Open(e.ctx) /\ cnx[e.ctx].fd = e.fd

Waiting(h) == (h \in Server => backlog[h] > 0) /\ (h \in Cnx => rx[h] # {})

(* Only a command or the disconnection of all connections have another     *)
(* activation above them, and that is a disconnection.                     *)
OwnFrame(i, op, arg) ==
    /\ op \in {"handle", "new_connection", "disconnect"} => i = Len(stack)
    /\ op \in {"handle", "new_connection", "command"} => runs # <<>>
    /\ op \in {"stop", "disconnect_all"} => i = 1 /\ runs = <<>>
    /\ op \in {"handle", "command"} => arg = Handling.ctx
    /\ op = "disconnect" /\ runs # <<>> => arg = Handling.ctx
    /\ op \in {"new_connection", "disconnect"} => arg \in Cnx /\ Open(arg)
    /\ op = "handle" => Live(Handling) /\ Waiting(arg)
    /\ op = "command" => arg \in Cnx /\ (Open(arg) => cnx[arg].fd = Handling.fd)

OwnStack == \A i \in DOMAIN stack : OwnFrame(i, stack[i].op, stack[i].arg)

(* An event that has been reported is still there when its turn comes.     *)
OwnRun ==
    runs # <<>> =>
        /\ \A i, j \in DOMAIN runs[1].apfds :
              runs[1].apfds[i].ctx = runs[1].apfds[j].ctx => i = j
        /\ runs[1].cur \notin runs[1].due
        /\ \A i \in runs[1].due :
              Live(runs[1].apfds[i]) /\ Waiting(runs[1].apfds[i].ctx)

OwnInv == OwnStack /\ OwnRun /\ NoFault

(* The frame on top satisfies what OwnStack says of it.                    *)
LEMMA TopFrame ==
    ASSUME TypeOK, OwnStack, NEW op, NEW arg, Top(op, arg)
    PROVE  OwnFrame(Len(stack), op, arg)
<1>1. Len(stack) \in DOMAIN stack /\ stack[Len(stack)] = Frame(op, arg)
  BY StackTop DEF Top
<1>2. QED
  BY <1>1, FrameFields DEF OwnStack

(* The types of the entry being handled and of those still due.            *)
LEMMA HandlingTypes ==
    ASSUME TypeOK, runs # <<>>
    PROVE  /\ Poll!Called = Handling
           /\ runs[1] \in Activation /\ runs[1].apfds \in Seq(Entry)
           /\ \A i \in runs[1].due : /\ i \in DOMAIN runs[1].apfds
                                     /\ runs[1].apfds[i].fd \in Descriptor
                                     /\ runs[1].apfds[i].ctx \in Handler
           /\ runs[1].cur # 0 => /\ runs[1].cur \in DOMAIN runs[1].apfds
                                 /\ Handling.fd \in Descriptor
                                 /\ Handling.ctx \in Handler
<1>1. /\ Poll!Last(runs) = runs[1] /\ runs[1] \in Activation
      /\ runs[1].due \subseteq DOMAIN runs[1].apfds
      /\ runs[1].cur \in {0} \cup DOMAIN runs[1].apfds
  BY PollTypes
<1>2. runs[1].apfds \in Seq(Entry)
  BY <1>1 DEF Activation
<1>3. \A i \in DOMAIN runs[1].apfds : runs[1].apfds[i] \in Entry
  BY <1>2
<1>4. \A e \in Entry : e.fd \in Descriptor /\ e.ctx \in Handler
  BY DEF Entry, PollEntry
<1>5. QED
  BY <1>1, <1>2, <1>3, <1>4 DEF Poll!Called, Handling

(* No freed connection is used, and no call waits for what is not there.   *)
LEMMA NoFaultStep ==
    ASSUME AnyInv, OwnInv, [Next]_vars
    PROVE  /\ NoFault'
           /\ \A s \in Server : ~ AcceptBlocks(s)
           /\ \A c \in Cnx : ~ ReadFails(c)
<1>1. TypeOK /\ ListsInv /\ LoopInv /\ OwnStack /\ OwnRun /\ fault = None
  BY DEF AnyInv, OwnInv, NoFault
<1>2. \A s \in Server : ~ AcceptBlocks(s)
  <2>1. SUFFICES ASSUME NEW s \in Server, Top("handle", s), backlog[s] = 0 PROVE FALSE
    BY DEF AcceptBlocks
  <2>2. Waiting(s)
    BY <1>1, <2>1, TopFrame DEF OwnFrame
  <2>3. QED
    BY <2>1, <2>2 DEF Waiting
<1>3. \A c \in Cnx : ~ ReadFails(c)
  <2>1. SUFFICES ASSUME NEW c \in Cnx, ReadFails(c) PROVE FALSE
    OBVIOUS
  <2>2. runs # <<>> /\ c = Handling.ctx /\ Live(Handling) /\ Waiting(c)
    BY <1>1, <2>1, TopFrame DEF OwnFrame, ReadFails
  <2>3. Open(c) /\ files[Handling.fd] = c /\ rx[c] # {}
    BY <2>2 DEF Live, Waiting
  <2>4. Poll!Called = Handling
    BY <1>1, <2>2, HandlingTypes
  <2>5. QED
    BY <2>1, <2>3, <2>4 DEF ReadFails
<1>4. \A c \in Cnx : DisconnectReturn(c) => UNCHANGED fault
  <2>1. SUFFICES ASSUME NEW c \in Cnx, DisconnectReturn(c) PROVE UNCHANGED fault
    OBVIOUS
  <2>2. Open(c)
    BY <1>1, <2>1, TopFrame DEF OwnFrame, DisconnectReturn
  <2>3. QED
    BY <2>1, <2>2 DEF DisconnectReturn
<1>5. \A c \in Cnx : NewConnectionReturn(c) => UNCHANGED fault
  <2>1. SUFFICES ASSUME NEW c \in Cnx, NewConnectionReturn(c) PROVE UNCHANGED fault
    OBVIOUS
  <2>2. Open(c)
    BY <1>1, <2>1, TopFrame DEF OwnFrame, NewConnectionReturn
  <2>3. QED
    BY <2>1, <2>2 DEF NewConnectionReturn
<1>6. ASSUME NEW s \in Server, \/ af_server_start(s) \/ AcceptConnection(s)
                               \/ StopReturn(s) \/ AcceptLeaks(s)
      PROVE  UNCHANGED fault
  BY <1>6 DEF af_server_start, AcceptConnection, StopReturn, AcceptLeaks
<1>7. ASSUME NEW s \in Server,
             \/ af_server_disconnect_all(s) \/ af_server_stop(s) \/ DisconnectNext(s)
             \/ DisconnectAllReturn(s) \/ AcceptFails(s) \/ AcceptRefuses(s)
      PROVE  UNCHANGED fault
  BY <1>7 DEF af_server_disconnect_all, af_server_stop, DisconnectNext, DisconnectAllReturn,
              AcceptFails, AcceptRefuses
<1>8. ASSUME NEW c \in Cnx,
             af_server_disconnect(c) \/ ReadCommand(c) \/ ReadEnd(c) \/ CommandReturn(c)
      PROVE  UNCHANGED fault
  BY <1>8 DEF af_server_disconnect, ReadCommand, ReadEnd, CommandReturn
<1>9. ASSUME Clients PROVE UNCHANGED fault
  BY <1>9 DEF Clients, Connect, Send, HangUp
<1>10. ASSUME RunBegin \/ Dispatch \/ CallbackReturn \/ RunReturn \/ UNCHANGED vars
       PROVE  UNCHANGED fault
  BY <1>10 DEF RunBegin, Dispatch, CallbackReturn, RunReturn, vars
<1>11. ASSUME Application PROVE UNCHANGED fault
  BY <1>6, <1>7, <1>8, <1>11 DEF Application
<1>12. ASSUME Library PROVE UNCHANGED fault
  BY <1>2, <1>3, <1>4, <1>5, <1>6, <1>7, <1>8, <1>10, <1>12, Zenon DEF Library
<1>13. UNCHANGED fault
  BY <1>9, <1>10, <1>11, <1>12 DEF Next
<1>14. QED
  BY <1>1, <1>2, <1>3, <1>13 DEF NoFault

(* What takes an event away: its handler, or the end of its owner.         *)
LEMMA InputKinds ==
    ASSUME TypeOK, [Next]_vars
    PROVE  /\ \A s \in Server : \/ backlog'[s] >= backlog[s]
                                \/ Top("handle", s) \/ Top("stop", s)
           /\ \A c \in Cnx : \/ rx[c] \subseteq rx'[c]
                             \/ Top("disconnect", c)
                             \/ \E d \in Cnx : Top("handle", d) /\ files[Poll!Called.fd] = c
<1> DEFINE Servers == \A s \in Server : \/ backlog'[s] >= backlog[s]
                                        \/ Top("handle", s) \/ Top("stop", s)
           Reads == \A c \in Cnx :
                       \/ rx[c] \subseteq rx'[c]
                       \/ Top("disconnect", c)
                       \/ \E d \in Cnx : Top("handle", d) /\ files[Poll!Called.fd] = c
<1>1. /\ backlog \in [Server -> 0..MaxBacklog] /\ 0..MaxBacklog \subseteq Int
      /\ rx \in [Cnx -> SUBSET {"data", "end"}]
  BY DEF TypeOK
<1>2. backlog' = backlog => Servers
  BY <1>1
<1>3. rx' = rx => Reads
  OBVIOUS
<1>4. ASSUME NEW s \in Server, Connect(s) PROVE Servers /\ Reads
  <2>1. \A x \in Server : backlog'[x] = backlog[x] \/ backlog'[x] = backlog[x] + 1
    BY <1>1, <1>4 DEF Connect
  <2>2. Servers
    BY <1>1, <2>1
  <2>3. QED
    BY <1>3, <1>4, <2>2 DEF Connect
<1>5. ASSUME NEW c \in Cnx, Send(c) \/ HangUp(c) PROVE Servers /\ Reads
  <2>1. \A x \in Cnx : rx[x] \subseteq rx'[x]
    BY <1>1, <1>5 DEF Send, HangUp
  <2>2. QED
    BY <1>2, <1>5, <2>1 DEF Send, HangUp
<1>6. ASSUME NEW s \in Server, StopReturn(s) PROVE Servers /\ Reads
  <2>1. Top("stop", s) /\ backlog' = [backlog EXCEPT ![s] = 0] /\ rx' = rx
    BY <1>6 DEF StopReturn
  <2>2. \A x \in Server \ {s} : backlog'[x] = backlog[x]
    BY <1>1, <2>1
  <2>3. QED
    BY <1>1, <1>3, <2>1, <2>2
<1>7. ASSUME NEW s \in Server, AcceptRefuses(s) \/ AcceptLeaks(s) \/ AcceptConnection(s)
      PROVE  Servers /\ Reads
  <2>1. Top("handle", s) /\ backlog' = [backlog EXCEPT ![s] = @ - 1] /\ rx' = rx
    BY <1>7 DEF AcceptRefuses, AcceptLeaks, AcceptConnection
  <2>2. \A x \in Server \ {s} : backlog'[x] = backlog[x]
    BY <1>1, <2>1
  <2>3. QED
    BY <1>1, <1>3, <2>1, <2>2
<1>8. ASSUME NEW c \in Cnx, DisconnectReturn(c) PROVE Servers /\ Reads
  <2>1. Top("disconnect", c) /\ backlog' = backlog
    BY <1>8 DEF DisconnectReturn
  <2>2. \A x \in Cnx \ {c} : rx'[x] = rx[x]
    BY <1>1, <1>8 DEF DisconnectReturn, RemInstance
  <2>3. QED
    BY <1>2, <2>1, <2>2
<1>9. ASSUME NEW c \in Cnx, ReadCommand(c) PROVE Servers /\ Reads
  <2> DEFINE o == files[Poll!Called.fd]
  <2>1. Top("handle", c) /\ backlog' = backlog /\ rx' = [rx EXCEPT ![o] = @ \ {"data"}]
    BY <1>9 DEF ReadCommand
  <2> HIDE DEF o
  <2>2. \A x \in Cnx \ {o} : rx'[x] = rx[x]
    BY <1>1, <2>1
  <2>3. QED
    BY <1>2, <2>1, <2>2 DEF o
<1> HIDE DEF Servers, Reads
<1>10. ASSUME UNCHANGED <<backlog, rx>> PROVE Servers /\ Reads
  BY <1>2, <1>3, <1>10
<1>11. ASSUME NEW s \in Server,
              \/ af_server_start(s) \/ af_server_disconnect_all(s) \/ af_server_stop(s)
              \/ DisconnectNext(s) \/ DisconnectAllReturn(s) \/ AcceptFails(s)
              \/ AcceptBlocks(s)
       PROVE  Servers /\ Reads
  BY <1>10, <1>11 DEF af_server_start, af_server_disconnect_all, af_server_stop,
                      DisconnectNext, DisconnectAllReturn, AcceptFails, AcceptBlocks, sockets
<1>12. ASSUME NEW c \in Cnx,
              \/ af_server_disconnect(c) \/ NewConnectionReturn(c) \/ ReadEnd(c)
              \/ ReadFails(c) \/ CommandReturn(c)
       PROVE  Servers /\ Reads
  BY <1>10, <1>12 DEF af_server_disconnect, NewConnectionReturn, ReadEnd, ReadFails,
                      CommandReturn, sockets
<1>13. ASSUME RunBegin \/ Dispatch \/ CallbackReturn \/ RunReturn \/ UNCHANGED vars
       PROVE  Servers /\ Reads
  BY <1>10, <1>13 DEF RunBegin, Dispatch, CallbackReturn, RunReturn, sockets, vars
<1>14. ASSUME Clients PROVE Servers /\ Reads
  BY <1>4, <1>5, <1>14 DEF Clients
<1>15. ASSUME Application PROVE Servers /\ Reads
  BY <1>11, <1>12, <1>15 DEF Application
<1>16. ASSUME Library PROVE Servers /\ Reads
  BY <1>6, <1>7, <1>8, <1>9, <1>11, <1>12, <1>13, <1>16, Zenon DEF Library
<1>17. Servers /\ Reads
  BY <1>13, <1>14, <1>15, <1>16 DEF Next
<1>18. QED
  BY <1>17 DEF Servers, Reads

(* The event of an entry stays pending while another entry is handled.     *)
LEMMA EventStays ==
    ASSUME AnyInv, OwnInv, [Next]_vars, runs # <<>>,
           NEW e, e.fd \in Descriptor, e.ctx \in Handler, Live(e), Waiting(e.ctx),
           stack # <<>> => e.ctx # Handling.ctx
    PROVE  Live(e)' /\ Waiting(e.ctx)'
<1>1. /\ TypeOK /\ ListsInv /\ OwnedInv /\ OwnStack
      /\ files \in [Descriptor -> Handler \cup {Free, Leaked}]
      /\ backlog \in [Server -> 0..MaxBacklog]
  BY SocketTypes DEF AnyInv, OwnInv, TypeOK
<1>2. /\ files[e.fd] = e.ctx /\ e.ctx # Free
      /\ e.ctx \in Cnx => cnx[e.ctx].server # None /\ cnx[e.ctx].fd = e.fd
  BY Marks DEF Live, Open, Handler
<1>3. \A s \in Server : Top("handle", s) => e.ctx # s
  <2>1. SUFFICES ASSUME NEW s \in Server, Top("handle", s) PROVE e.ctx # s
    OBVIOUS
  <2>2. s = Handling.ctx
    BY <1>1, <2>1, TopFrame DEF OwnFrame
  <2>3. QED
    BY <2>1, <2>2 DEF Top
<1>4. \A s \in Server : ~ Top("stop", s)
  <2>1. SUFFICES ASSUME NEW s \in Server, Top("stop", s) PROVE FALSE
    OBVIOUS
  <2>2. QED
    BY <1>1, <2>1, TopFrame DEF OwnFrame
<1>5. \A c \in Cnx : Top("disconnect", c) => e.ctx # c
  <2>1. SUFFICES ASSUME NEW c \in Cnx, Top("disconnect", c) PROVE e.ctx # c
    OBVIOUS
  <2>2. c = Handling.ctx
    BY <1>1, <2>1, TopFrame DEF OwnFrame
  <2>3. QED
    BY <2>1, <2>2 DEF Top
<1>6. \A d \in Cnx : Top("handle", d) => files[Poll!Called.fd] # e.ctx
  <2>1. SUFFICES ASSUME NEW d \in Cnx, Top("handle", d) PROVE files[Poll!Called.fd] # e.ctx
    OBVIOUS
  <2>2. d = Handling.ctx /\ Live(Handling)
    BY <1>1, <2>1, TopFrame DEF OwnFrame
  <2>3. files[Handling.fd] = Handling.ctx /\ Poll!Called = Handling
    BY <1>1, <2>2, HandlingTypes DEF Live
  <2>4. QED
    BY <2>1, <2>3 DEF Top
<1>7. Waiting(e.ctx)'
  <2>1. CASE e.ctx \in Server
    <3>1. backlog'[e.ctx] >= backlog[e.ctx] /\ backlog[e.ctx] > 0
      BY <1>1, <1>3, <1>4, <2>1, InputKinds DEF Waiting
    <3>2. backlog'[e.ctx] > 0
      <4>1. TypeOK'
        BY <1>1, TypeStep
      <4>2. backlog'[e.ctx] \in 0..MaxBacklog /\ backlog[e.ctx] \in 0..MaxBacklog
        BY <1>1, <2>1, <4>1 DEF TypeOK
      <4>3. QED
        BY <3>1, <4>2
    <3>3. QED
      BY <2>1, <3>2, Marks DEF Waiting
  <2>2. CASE e.ctx \in Cnx
    <3>1. rx[e.ctx] \subseteq rx'[e.ctx] /\ rx[e.ctx] # {}
      BY <1>1, <1>5, <1>6, <2>2, InputKinds DEF Waiting
    <3>2. QED
      BY <2>2, <3>1, Marks DEF Waiting
  <2>3. QED
    BY <2>1, <2>2 DEF Handler
<1>8. SUFFICES /\ files'[e.fd] = e.ctx
               /\ e.ctx \in Cnx => cnx'[e.ctx].server # None /\ cnx'[e.ctx].fd = e.fd
  BY <1>7 DEF Live, Open
<1> DEFINE Same == /\ files'[e.fd] = files[e.fd]
                   /\ e.ctx \in Cnx => cnx'[e.ctx] = cnx[e.ctx]
<1>9. ASSUME Quiet \/ (\E c \in Cnx : Begins(c)) PROVE Same
  BY <1>9 DEF Quiet, Begins, sockets
<1>10. ASSUME NEW s \in Server, af_server_start(s) PROVE Same
  BY <1>1, <1>2, <1>10, StartEffect
<1>11. ASSUME NEW s \in Server, AcceptLeaks(s) PROVE Same
  BY <1>1, <1>2, <1>11, LeakEffect
<1>12. ASSUME NEW s \in Server, AcceptConnection(s) PROVE Same
  <2>1. PICK c \in Cnx : Accepts(s, c)
    BY <1>1, <1>12, AcceptEffect
  <2>2. /\ files[FirstFd] = Free /\ files[SecondFd] = Free
        /\ files' = [files EXCEPT ![FirstFd] = c, ![SecondFd] = c]
        /\ \A x \in Cnx \ {c} : cnx'[x] = cnx[x]
        /\ cnx[c].server = None
    BY <1>1, <1>12, <2>1, AcceptEffect DEF Accepts, Open
  <2>3. QED
    BY <1>1, <1>2, <2>2
<1>13. ASSUME NEW c \in Cnx, Ends(c) PROVE Same
  <2>1. /\ files' = [f \in Descriptor |-> IF f \in {cnx[c].fd, cnx[c].dup} THEN Free
                                          ELSE files[f]]
        /\ \A x \in Cnx \ {c} : cnx'[x] = cnx[x]
    BY <1>1, <1>13, EndEffect
  <2>2. e.ctx # c
    BY <1>5, <1>13 DEF Ends, DisconnectReturn
  <2>3. e.fd # cnx[c].fd /\ e.fd # cnx[c].dup
    BY <1>1, <1>2, <1>13, <2>2, OneOwner DEF Ends
  <2>4. QED
    BY <2>1, <2>2, <2>3
<1>14. \A s \in Server : ~ StopReturn(s)
  BY <1>4 DEF StopReturn
<1>15. Same
  BY <1>1, <1>9, <1>10, <1>11, <1>12, <1>13, <1>14, StepKinds
<1>16. QED
  BY <1>2, <1>15

(* Every step keeps the events still due pending, and their sockets open.  *)
LEMMA OwnRunStep ==
    ASSUME AnyInv, OwnInv, [Next]_vars
    PROVE  OwnRun'
<1>1. TypeOK /\ ListsInv /\ OwnedInv /\ PolledInv /\ LoopInv /\ OwnStack /\ OwnRun
  BY DEF AnyInv, OwnInv
<1>2. CASE UNCHANGED runs
  <2>1. SUFFICES ASSUME runs # <<>>, NEW i \in runs[1].due
                 PROVE  (Live(runs[1].apfds[i]) /\ Waiting(runs[1].apfds[i].ctx))'
    BY <1>1, <1>2 DEF OwnRun
  <2>2. PICK e : e = runs[1].apfds[i]
    OBVIOUS
  <2>3. /\ e.fd \in Descriptor /\ e.ctx \in Handler /\ Live(e) /\ Waiting(e.ctx)
        /\ i \in DOMAIN runs[1].apfds
    BY <1>1, <2>1, <2>2, HandlingTypes DEF OwnRun
  <2>4. stack # <<>> => e.ctx # Handling.ctx
    <3>1. SUFFICES ASSUME stack # <<>> PROVE e.ctx # Handling.ctx
      OBVIOUS
    <3>2. runs[1].cur # 0
      BY <1>1, <2>1, <3>1 DEF LoopInv
    <3>3. runs[1].cur \in DOMAIN runs[1].apfds /\ runs[1].cur # i
      BY <1>1, <2>1, <3>2, HandlingTypes DEF OwnRun
    <3>4. QED
      BY <1>1, <2>1, <2>2, <2>3, <3>3 DEF OwnRun, Handling
  <2>5. Live(e)' /\ Waiting(e.ctx)'
    BY <2>1, <2>3, <2>4, EventStays
  <2>6. runs'[1].apfds[i] = e
    BY <1>2, <2>2
  <2>7. QED
    BY <2>5, <2>6 DEF Live, Waiting, Open
<1>3. CASE RunBegin
  <2> DEFINE copy == Snapshot(pollList)
  <2>1. PICK due \in SUBSET DOMAIN copy :
           /\ runs' = <<[apfds |-> copy, due |-> due, cur |-> 0]>>
           /\ \A i \in due : Ready(copy[i].fd)
    BY <1>1, <1>3, BeginEffect
  <2>2. /\ copy \in Seq(Entry) /\ Len(copy) <= Len(pollList) /\ DOMAIN copy = 1..Len(copy)
        /\ \A i \in 1..Len(copy) : copy[i] = pollList[i]
    BY <1>1, PollTypes, SnapshotProperties
  <2>3. DOMAIN pollList = 1..Len(pollList) /\ Len(pollList) \in Nat
    BY <1>1, PollTypes
  <2> HIDE DEF copy
  <2>4. /\ \A i \in DOMAIN copy : i \in DOMAIN pollList /\ copy[i] = pollList[i] /\ i # 0
    BY <2>2, <2>3
  <2>5. UNCHANGED sockets
    BY <1>1, <1>3, BeginEffect
  <2>6. /\ runs'[1].apfds = copy /\ runs'[1].due = due /\ runs'[1].cur = 0
    BY <2>1
  <2>7. \A i, j \in DOMAIN pollList : pollList[i].ctx = pollList[j].ctx => i = j
    <3>1. \A i \in DOMAIN pollList :
             /\ pollList[i].fd \in Descriptor /\ pollList[i].ctx \in Handler
             /\ pollList[i].ctx \in Cnx => pollList[i].fd = cnx[pollList[i].ctx].fd
             /\ pollList[i].ctx \in Server => pollList[i].fd = server[pollList[i].ctx].fd
      BY <1>1, EntryTypes DEF PolledInv, OwnedInv, OwnersKnow
    <3>2. QED
      BY <1>1, <3>1 DEF PolledInv, Registry, Handler
  <2>8. ASSUME NEW i \in due
        PROVE  Live(pollList[i]) /\ Waiting(pollList[i].ctx)
    <3>1. /\ i \in DOMAIN pollList /\ copy[i] = pollList[i]
      BY <2>1, <2>4
    <3>2. /\ pollList[i].fd \in Descriptor /\ pollList[i].ctx \in Handler
          /\ files[pollList[i].fd] = pollList[i].ctx
          /\ pollList[i].ctx \in Cnx => pollList[i].fd = cnx[pollList[i].ctx].fd
      BY <1>1, <3>1, EntryTypes DEF PolledInv
    <3>3. pollList[i].ctx \in Cnx => Open(pollList[i].ctx)
      <4>1. pollList[i].fd # 0
        BY <1>1, <3>2, SocketTypes
      <4>2. QED
        BY <1>1, <3>2, <4>1 DEF OwnedInv, CnxOwns
    <3>4. Ready(pollList[i].fd)
      BY <2>1, <3>1
    <3>5. Waiting(pollList[i].ctx)
      BY <3>2, <3>4, Marks DEF Ready, Waiting, Handler
    <3>6. QED
      BY <3>2, <3>3, <3>5 DEF Live
  <2>9. \A i \in due : (Live(copy[i]) /\ Waiting(copy[i].ctx)) /\ i # 0
    BY <2>1, <2>4, <2>8
  <2>10. \A i \in due : (Live(runs[1].apfds[i]) /\ Waiting(runs[1].apfds[i].ctx))'
    BY <2>5, <2>6, <2>9 DEF Live, Waiting, Open, sockets
  <2>11. \A i, j \in DOMAIN copy : copy[i].ctx = copy[j].ctx => i = j
    BY <2>4, <2>7
  <2>12. 0 \notin due
    BY <2>9
  <2>13. QED
    BY <2>6, <2>10, <2>11, <2>12 DEF OwnRun
<1>4. CASE Dispatch
  <2>1. PICK i \in runs[1].due :
           runs' = <<[apfds |-> runs[1].apfds, due |-> runs[1].due \ {i}, cur |-> i]>>
    BY <1>1, <1>4, DispatchEffect
  <2>2. /\ runs'[1].apfds = runs[1].apfds /\ runs'[1].due = runs[1].due \ {i}
        /\ runs'[1].cur = i
    BY <2>1
  <2>3. UNCHANGED sockets /\ runs # <<>>
    BY <1>1, <1>4, DispatchEffect
  <2>4. QED
    BY <1>1, <2>2, <2>3 DEF OwnRun, Live, Waiting, Open, sockets
<1>5. CASE CallbackReturn
  <2>1. /\ runs' = <<[apfds |-> runs[1].apfds, due |-> runs[1].due, cur |-> 0]>>
        /\ runs # <<>> /\ UNCHANGED sockets
    BY <1>1, <1>5, CallbackEffect
  <2>2. /\ runs'[1].apfds = runs[1].apfds /\ runs'[1].due = runs[1].due
        /\ runs'[1].cur = 0
    BY <2>1
  <2>3. 0 \notin runs[1].due
    <3>1. runs[1] \in Activation
      BY <1>1, <2>1, HandlingTypes
    <3>2. runs[1].due \subseteq 1..MaxFds
      BY <3>1 DEF Activation
    <3>3. QED
      BY <3>2
  <2>4. QED
    BY <1>1, <2>1, <2>2, <2>3 DEF OwnRun, Live, Waiting, Open, sockets
<1>6. CASE RunReturn
  BY <1>1, <1>6, RunReturnEffect DEF OwnRun
<1>7. QED
  BY <1>1, <1>2, <1>3, <1>4, <1>5, <1>6, RunKinds

Callers == {"command", "stop", "disconnect_all"}

(* The frame of a caller survives the disconnection above it.              *)
LEMMA CallerStays ==
    ASSUME NEW i, NEW op \in Callers, NEW arg, OwnFrame(i, op, arg), UNCHANGED runs,
           \A c \in Cnx : cnx'[c] = cnx[c] \/ cnx'[c].server = None
    PROVE  OwnFrame(i, op, arg)'
BY DEF OwnFrame, Callers, Handling, Open

(* Below the top of the stack there are only callers.                      *)
LEMMA CallersBelow ==
    ASSUME TypeOK, OwnStack, NEW i \in DOMAIN stack,
           i # Len(stack) \/ Last(stack).op \in Callers
    PROVE  stack[i].op \in Callers
<1>1. stack # <<>>
  OBVIOUS
<1>2. stack[i] \in Frames /\ Last(stack) = stack[Len(stack)]
  BY <1>1, StackTop DEF TypeOK
<1>3. stack[i].op \in Ops
  BY <1>2 DEF Frames
<1>4. CASE i # Len(stack)
  BY <1>3, <1>4 DEF OwnStack, OwnFrame, Ops, Callers
<1>5. CASE i = Len(stack)
  BY <1>2, <1>5
<1>6. QED
  BY <1>4, <1>5

(* Every step keeps the stack as OwnStack describes it.                    *)
LEMMA OwnStackStep ==
    ASSUME OwnCnxOnly, AnyInv, OwnInv, [Next]_vars
    PROVE  OwnStack'
<1>1. /\ TypeOK /\ ListsInv /\ StackInv /\ LoopInv /\ OwnStack /\ OwnRun
      /\ stack \in Seq(Frames) /\ Len(stack) \in Nat /\ DOMAIN stack = 1..Len(stack)
  BY DEF AnyInv, OwnInv, TypeOK
<1>2. /\ fault' = None
      /\ \A s \in Server : ~ AcceptBlocks(s)
      /\ \A c \in Cnx : ~ ReadFails(c)
  BY NoFaultStep DEF NoFault
<1>3. SUFFICES ASSUME NEW i \in DOMAIN stack', NEW op, NEW arg,
                      op = stack'[i].op, arg = stack'[i].arg
               PROVE  OwnFrame(i, op, arg)'
  BY DEF OwnStack
<1>4. ASSUME i \in DOMAIN stack, stack'[i] = stack[i]
      PROVE  OwnFrame(i, op, arg)
  BY <1>1, <1>3, <1>4 DEF OwnStack
<1>5. CASE Rests /\ UNCHANGED stack
  <2>1. i \in DOMAIN stack /\ stack'[i] = stack[i] /\ stack # <<>>
    BY <1>5
  <2>2. OwnFrame(i, op, arg)
    BY <1>4, <2>1
  <2>3. CASE Clients \/ UNCHANGED vars
    <3>1. /\ UNCHANGED <<runs, files, cnx, stack>>
          /\ Waiting(arg) => Waiting(arg)'
      <4>1. UNCHANGED <<runs, files, cnx, stack>>
        BY <2>3 DEF Clients, Connect, Send, HangUp, vars, sockets
      <4>2. ASSUME NEW s \in Server PROVE backlog'[s] = backlog[s] \/ backlog'[s] = backlog[s] + 1
        BY <1>1, <2>3 DEF Clients, Connect, Send, HangUp, vars, sockets, TypeOK
      <4>3. ASSUME NEW c \in Cnx PROVE rx[c] \subseteq rx'[c]
        <5>1. rx \in [Cnx -> SUBSET {"data", "end"}]
          BY <1>1 DEF TypeOK
        <5>2. rx' = rx \/ \E d \in Cnx : \E x : rx' = [rx EXCEPT ![d] = @ \cup {x}]
          BY <2>3 DEF Clients, Connect, Send, HangUp, vars, sockets
        <5>3. QED
          BY <5>1, <5>2
      <4>4. ASSUME NEW s \in Server, backlog[s] > 0 PROVE backlog'[s] > 0
        <5>1. backlog[s] \in 0..MaxBacklog
          BY <1>1 DEF TypeOK
        <5>2. QED
          BY <4>2, <4>4, <5>1
      <4>5. QED
        BY <4>1, <4>3, <4>4 DEF Waiting
    <3>2. QED
      BY <2>2, <3>1 DEF OwnFrame, Handling, Live, Open
  <2>4. ASSUME NEW s \in Server, af_server_start(s) PROVE OwnFrame(i, op, arg)'
    <3>1. /\ UNCHANGED <<runs, cnx, stack>>
          /\ Last(stack).op \in {"new_connection", "command", "disconnect"}
      BY <1>1, <2>1, <2>4, StartEffect DEF af_server_start, InApplication
    <3>2. op # "handle"
      <4>1. Last(stack) = stack[Len(stack)]
        BY <1>1, <2>1, StackTop
      <4>2. QED
        BY <1>3, <2>1, <2>2, <3>1, <4>1 DEF OwnFrame
    <3>3. QED
      BY <2>2, <3>1, <3>2 DEF OwnFrame, Handling, Open
  <2>5. CASE RunBegin \/ CallbackReturn \/ RunReturn
    BY <1>1, <2>1, <2>5, BeginEffect, CallbackEffect, RunReturnEffect
  <2>6. QED
    BY <1>2, <1>5, <2>3, <2>4, <2>5 DEF Rests
<1>6. ASSUME NEW o \in Ops, NEW a \in Handler, Pushes(o, a) PROVE OwnFrame(i, op, arg)'
  <2> DEFINE n == Len(stack)
  <2>1. /\ stack' \in Seq(Frames) /\ Len(stack') = n + 1 /\ stack'[n + 1] = Frame(o, a)
        /\ \A j \in 1..n : stack'[j] = stack[j]
    BY <1>1, <1>6, StackPush DEF Pushes
  <2>2. i \in 1..(n + 1) /\ n \in Nat /\ DOMAIN stack = 1..n
    BY <1>1, <2>1
  <2> HIDE DEF n
  <2>3. UNCHANGED <<runs, cnx>>
    BY <1>6 DEF Pushes
  <2>4. CASE i \in 1..n
    <3>1. i \in DOMAIN stack /\ stack'[i] = stack[i] /\ stack # <<>>
      BY <2>1, <2>2, <2>4
    <3>2. Last(stack).op \in Callers
      BY <1>6, <3>1, FrameFields DEF Pushes, Callers
    <3>3. op \in Callers
      BY <1>1, <1>3, <3>1, <3>2, CallersBelow
    <3>4. QED
      BY <1>4, <2>3, <3>1, <3>3, CallerStays
  <2>5. CASE i = n + 1
    <3>1. op = o /\ arg = a /\ i = Len(stack')
      BY <1>3, <2>1, <2>5, FrameFields
    <3>2. CASE o \in {"stop", "disconnect_all"}
      <4>1. stack = <<>> /\ runs = <<>>
        BY <1>6, <3>2 DEF Pushes
      <4>2. i = 1
        BY <2>5, <4>1 DEF n
      <4>3. QED
        BY <2>3, <3>1, <3>2, <4>1, <4>2 DEF OwnFrame
    <3>3. CASE o = "disconnect"
      <4>1. a \in Cnx /\ Open(a)'
        BY <1>6, <2>3, <3>3 DEF Pushes, Open
      <4>2. ASSUME runs # <<>> PROVE a = Handling.ctx
        <5>1. stack # <<>>
          BY <1>6, <4>2 DEF Pushes
        <5>2. Last(stack) = Frame("command", a) \/ Last(stack).op \in {"stop", "disconnect_all"}
          BY <1>6, <5>1 DEF Pushes
        <5>3. /\ Len(stack) \in DOMAIN stack /\ Last(stack) = stack[Len(stack)]
          BY <1>1, <5>1, StackTop
        <5>4. OwnFrame(Len(stack), Last(stack).op, Last(stack).arg)
          BY <1>1, <5>3 DEF OwnStack
        <5>5. QED
          BY <4>2, <5>2, <5>4, FrameFields DEF OwnFrame
      <4>3. Handling' = Handling
        BY <2>3 DEF Handling
      <4>4. QED
        BY <2>3, <3>1, <3>3, <4>1, <4>2, <4>3 DEF OwnFrame
    <3>4. QED
      BY <1>6, <3>2, <3>3 DEF Pushes
  <2>6. QED
    BY <2>2, <2>4, <2>5
<1>7. ASSUME NEW o \in Ops, NEW a \in Handler, Swaps(o, a) PROVE OwnFrame(i, op, arg)'
  <2>1. Len(stack) = 1 /\ stack # <<>> /\ DOMAIN stack = {1} /\ stack[1] = Last(stack)
    BY <1>1, <1>7, HandlerAlone DEF Swaps, EventFrames
  <2>2. /\ stack' \in Seq(Frames) /\ Len(stack') = Len(stack)
        /\ stack'[Len(stack)] = Frame(o, a)
    BY <1>1, <1>7, <2>1, StackSwap DEF Swaps
  <2>3. i = 1 /\ Len(stack') = 1
    BY <2>1, <2>2
  <2>4. op = o /\ arg = a
    BY <1>3, <2>1, <2>2, <2>3, FrameFields
  <2>5. OwnFrame(1, "handle", stack[1].arg)
    BY <1>1, <1>7, <2>1 DEF OwnStack, Swaps
  <2>6. runs # <<>> /\ UNCHANGED runs /\ Handling' = Handling /\ a \in Cnx
    BY <1>7, <2>5 DEF OwnFrame, Swaps, Handling
  <2>7. CASE o = "new_connection"
    BY <1>7, <2>3, <2>4, <2>6, <2>7 DEF OwnFrame, Swaps, Open
  <2>8. CASE o # "new_connection"
    <3>1. stack[1].arg = a /\ UNCHANGED cnx
      BY <1>7, <2>1, <2>8, FrameFields DEF Swaps
    <3>2. a = Handling.ctx /\ Live(Handling)
      BY <2>5, <3>1 DEF OwnFrame
    <3>3. Open(a)' /\ cnx'[a].fd = Handling.fd
      BY <2>6, <3>1, <3>2 DEF Live, Open
    <3>4. o \in {"command", "disconnect"}
      BY <1>7, <2>8 DEF Swaps
    <3>5. QED
      BY <2>3, <2>4, <2>6, <3>2, <3>3, <3>4 DEF OwnFrame
  <2>9. QED
    BY <2>7, <2>8
<1>8. CASE Pops
  <2> DEFINE n == Len(stack)
  <2>1. /\ stack' \in Seq(Frames) /\ Len(stack') = n - 1 /\ n \in Nat /\ n >= 1
        /\ \A j \in 1..(n - 1) : stack'[j] = stack[j]
        /\ DOMAIN stack = 1..n
    BY <1>1, <1>8, StackPop DEF Pops
  <2>2. i \in 1..(n - 1)
    BY <2>1
  <2> HIDE DEF n
  <2>3. i \in DOMAIN stack /\ stack'[i] = stack[i] /\ i # n
    BY <2>1, <2>2
  <2>4. op \in Callers
    BY <1>1, <1>3, <2>3, CallersBelow DEF n
  <2>5. UNCHANGED runs /\ \A c \in Cnx : cnx'[c] = cnx[c] \/ cnx'[c].server = None
    BY <1>8 DEF Pops
  <2>6. QED
    BY <1>4, <2>3, <2>4, <2>5, CallerStays
<1>9. CASE Dispatch
  <2>1. PICK k \in runs[1].due :
           /\ runs' = <<[apfds |-> runs[1].apfds, due |-> runs[1].due \ {k}, cur |-> k]>>
           /\ stack' = <<Frame("handle", runs[1].apfds[k].ctx)>>
    BY <1>1, <1>9, DispatchEffect
  <2>2. UNCHANGED sockets /\ runs # <<>>
    BY <1>1, <1>9, DispatchEffect
  <2>3. i = 1 /\ Len(stack') = 1 /\ stack'[i] = Frame("handle", runs[1].apfds[k].ctx)
    BY <2>1
  <2>4. op = "handle" /\ arg = runs[1].apfds[k].ctx
    BY <1>3, <2>3, FrameFields
  <2>5. runs' # <<>> /\ Handling' = runs[1].apfds[k]
    BY <2>1 DEF Handling
  <2>6. Live(runs[1].apfds[k]) /\ Waiting(runs[1].apfds[k].ctx)
    BY <1>1, <2>1, <2>2 DEF OwnRun
  <2>7. Live(Handling)' /\ Waiting(arg)'
    BY <2>2, <2>4, <2>5, <2>6 DEF Live, Waiting, Open, sockets
  <2>8. QED
    BY <2>3, <2>4, <2>5, <2>7 DEF OwnFrame
<1>10. QED
  BY <1>1, <1>5, <1>6, <1>7, <1>8, <1>9, StackKinds

(* The initial states satisfy OwnInv.                                      *)
LEMMA OwnInit == Init => OwnInv
BY DEF Init, Poll!Init, OwnInv, OwnStack, OwnRun, NoFault

(* With callbacks that disconnect only their own connection, both          *)
(* invariants hold throughout.                                             *)
LEMMA OwnCorrect ==
    ASSUME OwnCnxOnly
    PROVE  Spec => [](AnyInv /\ OwnInv)
<1>1. AnyInv /\ OwnInv /\ [Next]_vars => OwnInv'
  BY OwnStackStep, OwnRunStep, NoFaultStep DEF OwnInv
<1>2. QED
  BY <1>1, OwnInit, AnyCorrect, PTL DEF Spec

(* When callbacks disconnect only the connection of their command, no      *)
(* event is handled with a connection that was freed, and the thread never *)
(* waits in accept or read.  Callbacks that disconnect others break both.  *)
THEOREM HandlersSafe ==
    ASSUME OwnCnxOnly
    PROVE  Spec => []NoFault
<1>1. AnyInv /\ OwnInv => NoFault
  BY DEF OwnInv
<1>2. QED
  BY <1>1, OwnCorrect, PTL

-----------------------------------------------------------------------------
(* The poll section is used as its interface requires.                     *)

(* Removing a connection that is open, when it may be removed.             *)
LEMMA RemovesItsOwn ==
    ASSUME AnyInv, OwnCnxOnly => OwnInv, [Next]_vars, NEW c \in Cnx, Open(c),
           BeginDisconnect(c), UNCHANGED runs,
           stack = <<>> => runs = <<>>,
           OwnCnxOnly /\ runs # <<>> => cnx[c].fd = Handling.fd
    PROVE  Poll!Next
<1>1. TypeOK /\ OwnedInv /\ LoopInv
  BY DEF AnyInv
<1>2. cnx[c].fd \in 1..NumFds
  BY <1>1 DEF OwnedInv, CnxOwns, Descriptor
<1>3. Poll!InApplication
  BY <1>1, PollTypes DEF LoopInv, Poll!InApplication
<1>4. OwnCnxOnly /\ runs # <<>> => cnx[c].fd = Poll!Called.fd
  BY <1>1, HandlingTypes
<1>5. pollList' = Poll!RemEntry(pollList, cnx[c].fd)
  BY SameList DEF BeginDisconnect
<1>6. Poll!af_poll_rem(cnx[c].fd)
  BY <1>3, <1>4, <1>5 DEF Poll!af_poll_rem
<1>7. QED
  BY <1>2, <1>6 DEF Poll!Next

(* Every step of the servers is a step of the poll section, or leaves it   *)
(* alone.                                                                  *)
LEMMA PollStep ==
    ASSUME AnyInv, OwnCnxOnly => OwnInv, [Next]_vars
    PROVE  [Poll!Next]_(Poll!vars)
<1>1. TypeOK /\ ListsInv /\ OwnedInv /\ PolledInv /\ StartedInv /\ LoopInv
  BY DEF AnyInv
<1>2. OwnCnxOnly => OwnStack
  BY DEF OwnInv
<1>3. ASSUME UNCHANGED <<pollList, runs>> PROVE [Poll!Next]_(Poll!vars)
  BY <1>3 DEF Poll!vars
<1>4. CASE RunBegin \/ Dispatch \/ CallbackReturn \/ RunReturn
  BY <1>4 DEF RunBegin, Dispatch, CallbackReturn, RunReturn, Poll!Next
<1>5. ASSUME NEW s \in Server, af_server_start(s) PROVE Poll!Next
  <2>1. FirstFd \in 1..NumFds
    BY <1>1, <1>5, StartEffect DEF Descriptor
  <2>2. QED
    BY <1>5, <2>1, Marks DEF af_server_start, Poll!Next
<1>6. ASSUME NEW s \in Server, AcceptConnection(s) PROVE Poll!Next
  <2>1. FirstFd \in 1..NumFds
    BY <1>1, <1>6, AcceptEffect DEF Descriptor
  <2>2. QED
    BY <1>6, <2>1, Marks DEF AcceptConnection, Poll!Next
<1>7. ASSUME NEW s \in Server, StopReturn(s) PROVE [Poll!Next]_(Poll!vars)
  <2>1. /\ pollList' = RemEntry(pollList, server[s].fd) /\ UNCHANGED runs
        /\ stack # <<>> /\ Top("stop", s)
    BY <1>7 DEF StopReturn, Top
  <2>2. CASE server[s].fd \in 1..NumFds
    <3>1. Poll!InApplication
      BY <1>1, <2>1, PollTypes DEF LoopInv, Poll!InApplication
    <3>2. OwnCnxOnly => runs = <<>>
      BY <1>1, <1>2, <2>1, TopFrame DEF OwnFrame
    <3>3. Poll!af_poll_rem(server[s].fd)
      BY <2>1, <3>1, <3>2, SameList DEF Poll!af_poll_rem
    <3>4. QED
      BY <2>2, <3>3 DEF Poll!Next
  <2>3. CASE server[s].fd \notin 1..NumFds
    <3>1. ~ Listed(pollList, server[s].fd)
      BY <1>1, <2>3, EntryTypes DEF Listed, Descriptor
    <3>2. RemEntry(pollList, server[s].fd) = pollList
      BY <1>1, <3>1, PollTypes, RemEntryCases DEF Listed
    <3>3. QED
      BY <1>3, <2>1, <3>2
  <2>4. QED
    BY <2>2, <2>3
<1>8. ASSUME NEW c \in Cnx, af_server_disconnect(c) PROVE Poll!Next
  <2>1. /\ Open(c) /\ BeginDisconnect(c) /\ UNCHANGED runs
        /\ stack = <<>> => runs = <<>>
        /\ OwnCnxOnly /\ stack # <<>> => Top("command", c)
    BY <1>8 DEF af_server_disconnect, InApplication, Top
  <2>2. OwnCnxOnly /\ runs # <<>> => cnx[c].fd = Handling.fd
    BY <1>1, <1>2, <2>1, TopFrame DEF OwnFrame
  <2>3. QED
    BY <2>1, <2>2, RemovesItsOwn
<1>9. ASSUME NEW c \in Cnx, ReadEnd(c) PROVE Poll!Next
  <2>1. /\ Open(c) /\ BeginDisconnect(c) /\ UNCHANGED runs
        /\ stack # <<>> /\ Top("handle", c)
    BY <1>9 DEF ReadEnd, Top
  <2>2. OwnCnxOnly /\ runs # <<>> => cnx[c].fd = Handling.fd
    BY <1>1, <1>2, <2>1, TopFrame DEF OwnFrame, Live
  <2>3. QED
    BY <2>1, <2>2, RemovesItsOwn
<1>10. ASSUME NEW s \in Server, DisconnectNext(s) PROVE Poll!Next
  <2>1. PICK c \in Cnx : c = Head(server[s].cnx) /\ Open(c)
    <3>1. server[s].cnx \in Seq(Cnx) /\ server[s].cnx # <<>>
      BY <1>1, <1>10, SocketTypes DEF DisconnectNext, ServerData
    <3>2. Head(server[s].cnx) \in Cnx /\ Contains(server[s].cnx, Head(server[s].cnx))
      BY <3>1 DEF Contains
    <3>3. QED
      BY <1>1, <3>2, Marks DEF ListsInv, Open
  <2>2. /\ BeginDisconnect(c) /\ UNCHANGED runs /\ stack # <<>>
        /\ Top("disconnect_all", s) \/ Top("stop", s)
    BY <1>10, <2>1 DEF DisconnectNext, Top
  <2>3. OwnCnxOnly => runs = <<>>
    BY <1>1, <1>2, <2>2, TopFrame DEF OwnFrame
  <2>4. QED
    BY <2>1, <2>2, <2>3, RemovesItsOwn
<1>11. ASSUME NEW s \in Server,
              \/ af_server_disconnect_all(s) \/ af_server_stop(s) \/ DisconnectAllReturn(s)
              \/ AcceptFails(s) \/ AcceptBlocks(s) \/ AcceptRefuses(s) \/ AcceptLeaks(s)
       PROVE  UNCHANGED <<pollList, runs>>
  BY <1>11 DEF af_server_disconnect_all, af_server_stop, DisconnectAllReturn, AcceptFails,
               AcceptBlocks, AcceptRefuses, AcceptLeaks
<1>12. ASSUME NEW c \in Cnx,
              \/ DisconnectReturn(c) \/ NewConnectionReturn(c) \/ ReadCommand(c)
              \/ ReadFails(c) \/ CommandReturn(c)
       PROVE  UNCHANGED <<pollList, runs>>
  BY <1>12 DEF DisconnectReturn, NewConnectionReturn, ReadCommand, ReadFails, CommandReturn
<1>13. CASE Clients \/ UNCHANGED vars
  BY <1>3, <1>13 DEF Clients, Connect, Send, HangUp, vars
<1>14. CASE Application
  BY <1>3, <1>5, <1>8, <1>11, <1>14 DEF Application
<1>15. CASE Library
  BY <1>3, <1>4, <1>6, <1>7, <1>9, <1>10, <1>11, <1>12, <1>15, Zenon DEF Library
<1>16. QED
  BY <1>4, <1>13, <1>14, <1>15 DEF Next

(* The section implements the interface of the poll section: it registers  *)
(* and removes descriptors only from application code, and when callbacks  *)
(* disconnect only their own connection it removes from a callback only    *)
(* the descriptor of the callback.                                         *)
THEOREM PollImplemented == Spec => ImplementsPoll
<1>1. Init => Poll!Init
  BY DEF Init
<1>2. Spec => [](AnyInv /\ (OwnCnxOnly => OwnInv))
  <2>1. CASE OwnCnxOnly
    BY <2>1, OwnCorrect, PTL
  <2>2. CASE ~ OwnCnxOnly
    BY <2>2, AnyCorrect, PTL
  <2>3. QED
    BY <2>1, <2>2
<1>3. AnyInv /\ (OwnCnxOnly => OwnInv) /\ [Next]_vars => [Poll!Next]_(Poll!vars)
  BY PollStep
<1>4. QED
  BY <1>1, <1>2, <1>3, PTL DEF Spec, ImplementsPoll, Poll!Spec

-----------------------------------------------------------------------------
(* What is proved of the poll section holds in the composed system.        *)
LEMMA SamePoll ==
    /\ PollProofs!Init <=> Poll!Init
    /\ PollProofs!Dispatch <=> Poll!Dispatch
    /\ [Poll!Next]_(Poll!vars) => [PollProofs!Next]_(PollProofs!vars)
    /\ UNCHANGED PollProofs!vars <=> UNCHANGED Poll!vars
    /\ PollProofs!Called' = Poll!Called'
<1>1. PollProofs!Called = Poll!Called
  BY DEF PollProofs!Called, Poll!Called, PollProofs!Last, Poll!Last
<1>2. PollProofs!InApplication <=> Poll!InApplication
  BY DEF PollProofs!InApplication, Poll!InApplication, PollProofs!Last, Poll!Last
<1>3. \A r : PollProofs!SetTop(r) <=> Poll!SetTop(r)
  BY DEF PollProofs!SetTop, Poll!SetTop, PollProofs!Front, Poll!Front
<1>4. PollProofs!Init <=> Poll!Init
  BY DEF PollProofs!Init, Poll!Init
<1>5. PollProofs!Dispatch <=> Poll!Dispatch
  BY <1>3 DEF PollProofs!Dispatch, Poll!Dispatch, PollProofs!Last, Poll!Last
<1>6. UNCHANGED PollProofs!vars <=> UNCHANGED Poll!vars
  BY DEF PollProofs!vars, Poll!vars
<1>7. ASSUME NEW fd, NEW ctx, Poll!af_poll_add(fd, ctx)
      PROVE  PollProofs!af_poll_add(fd, ctx)
  BY <1>2, <1>7, SameList, SameProvedList DEF PollProofs!af_poll_add, Poll!af_poll_add
<1>8. ASSUME NEW fd, Poll!af_poll_rem(fd) PROVE PollProofs!af_poll_rem(fd)
  BY <1>1, <1>2, <1>8, SameList, SameProvedList DEF PollProofs!af_poll_rem, Poll!af_poll_rem
<1>9. Poll!RunBegin => PollProofs!RunBegin
  BY <1>2, SameList, SameProvedList DEF PollProofs!RunBegin, Poll!RunBegin
<1>10. Poll!CallbackReturn => PollProofs!CallbackReturn
  BY <1>3 DEF PollProofs!CallbackReturn, Poll!CallbackReturn, PollProofs!Last, Poll!Last
<1>11. Poll!RunReturn => PollProofs!RunReturn
  BY DEF PollProofs!RunReturn, Poll!RunReturn, PollProofs!Last, Poll!Last,
         PollProofs!Front, Poll!Front
<1>12. Poll!Next => PollProofs!Next
  BY <1>5, <1>7, <1>8, <1>9, <1>10, <1>11 DEF PollProofs!Next, Poll!Next
<1>13. PollProofs!Called' = Poll!Called'
  BY DEF PollProofs!Called, Poll!Called, PollProofs!Last, Poll!Last
<1>14. QED
  BY <1>4, <1>5, <1>6, <1>12, <1>13

(* In the server, when callbacks disconnect only their own connection, the *)
(* handler of an event is called only if its descriptor is registered for  *)
(* its object at that moment: no event reaches a connection that an        *)
(* earlier event of the same run has disconnected.                         *)
THEOREM EventsReachRegistered ==
    ASSUME OwnCnxOnly
    PROVE  Spec => Poll!CallsRegistered
<1>1. Spec => Poll!Init /\ [][Poll!Next]_(Poll!vars)
  BY PollImplemented DEF ImplementsPoll, Poll!Spec
<1>2. Poll!Init /\ [][Poll!Next]_(Poll!vars) => PollProofs!Spec
  BY SamePoll, PTL DEF PollProofs!Spec
<1>3. PollProofs!Spec => PollProofs!CallsRegistered
  BY PollProofs!OnlyRegisteredCalled
<1>4. [PollProofs!Dispatch => \E j \in DOMAIN pollList : pollList[j] = PollProofs!Called'
         ]_(PollProofs!vars)
      => [Poll!Dispatch => \E j \in DOMAIN pollList : pollList[j] = Poll!Called'
         ]_(Poll!vars)
  BY SamePoll
<1>5. QED
  BY <1>1, <1>2, <1>3, <1>4, PTL DEF PollProofs!CallsRegistered, Poll!CallsRegistered
=============================================================================
