----------------------------- MODULE AppfServer -----------------------------
(***************************************************************************)
(* appf_server.c: command line servers on TCP ports, on top of the poll    *)
(* section.  A server has a listening descriptor and a list of             *)
(* connections; every connection has the accepted descriptor and a second  *)
(* one, its dup, for the stream the application writes to.                 *)
(*                                                                         *)
(* The program is one thread.  The model keeps its stack: the activation   *)
(* of af_poll_run (runs, as in AppfPoll) and, above it, the activations of *)
(* the server section that have called, or will call, application code.    *)
(* A step is the code between two such calls.                              *)
(***************************************************************************)
EXTENDS PollList

CONSTANTS Server,        \* the af_server_t of the application
          Cnx,           \* the blocks calloc has for af_server_cnx_t
          NumFds,        \* size of the descriptor table of the process
          MaxCnx,        \* max_cnx of every server
          MaxBacklog,    \* bound of the clients waiting to be accepted
          MaxStack,      \* bound of the activations of the server section
          LingerFails,   \* whether setsockopt(SO_LINGER) may fail
          OwnCnxOnly     \* the application disconnects, from callbacks,
                         \* only in a command handler and only the
                         \* connection of the command

ASSUME ServerAssumption ==
    /\ NumFds \in Nat /\ MaxCnx \in Nat /\ MaxBacklog \in Nat /\ MaxStack \in Nat
    /\ LingerFails \in BOOLEAN /\ OwnCnxOnly \in BOOLEAN

VARIABLES
    pollList,    \* _af_daemon->poll_head
    runs,        \* the activation of af_poll_run, if there is one
    files,       \* descriptor table: who opened the descriptor
    server,      \* the internal data of every server
    cnx,         \* the connections; server is None in a free block
    rx,          \* what a connection has to read
    backlog,     \* clients waiting in the queue of a listening socket
    stack,       \* activations of the server section, the innermost last
    fault        \* undefined: freed memory is used; blocked: a system call
                 \* waits for an event that poll has not reported

sockets == <<files, server, cnx, rx, backlog>>
vars    == <<pollList, runs, sockets, stack, fault>>

Free   == "free"
Leaked == "leaked"
None   == "none"
NoFile == -1

Handler == Server \cup Cnx

(* A server and a connection are different objects, and neither is one of  *)
(* the marks for the absence of one.                                       *)
ASSUME HandlerAssumption ==
    Server \cap Cnx = {} /\ {Free, Leaked, None} \cap Handler = {}

(* The poll section, used through its interface.                           *)
Poll == INSTANCE AppfPoll WITH Fd <- 1..NumFds, Ctx <- Handler,
                               MaxDepth <- 1, OwnFdOnly <- OwnCnxOnly

Ops == {"handle", "new_connection", "command", "disconnect",
        "disconnect_all", "stop"}

NoCnx == [fd |-> 0, dup |-> 0, server |-> None]

Init ==
    /\ Poll!Init
    /\ files = [f \in 1..NumFds |-> Free]
    /\ server = [s \in Server |-> [fd |-> 0, cnx |-> <<>>, num_cnx |-> 0]]
    /\ cnx = [c \in Cnx |-> NoCnx]
    /\ rx = [c \in Cnx |-> {}]
    /\ backlog = [s \in Server |-> 0]
    /\ stack = <<>>
    /\ fault = None

-----------------------------------------------------------------------------
Open(c)      == cnx[c].server # None
Listening(s) == \E f \in 1..NumFds : files[f] = s
FreeFds      == {f \in 1..NumFds : files[f] = Free}

(* The kernel gives out the lowest free descriptor.                        *)
FirstFd  == Min(FreeFds)
SecondFd == Min(FreeFds \ {FirstFd})

Frame(op, arg) == [op |-> op, arg |-> arg]
Push(op, arg)  == stack' = Append(stack, Frame(op, arg))
Swap(op, arg)  == stack' = Append(Front(stack), Frame(op, arg))
Return         == stack' = Front(stack)
Top(op, arg)   == fault = None /\ stack # <<>> /\ Last(stack) = Frame(op, arg)

MainLoop == fault = None /\ stack = <<>> /\ runs = <<>>

(* Control is in application code: outside af_poll_run or in a callback.   *)
InApplication ==
    /\ fault = None
    /\ IF stack = <<>> THEN runs = <<>>
       ELSE Last(stack).op \in {"new_connection", "command", "disconnect"}
    /\ Len(stack) < MaxStack

-----------------------------------------------------------------------------
(* The clients.                                                            *)
Connect(s) ==
    /\ fault = None /\ Listening(s) /\ backlog[s] < MaxBacklog
    /\ backlog' = [backlog EXCEPT ![s] = @ + 1]
    /\ UNCHANGED <<pollList, runs, files, server, cnx, rx, stack, fault>>

Send(c) ==
    /\ fault = None /\ Open(c) /\ "end" \notin rx[c]
    /\ rx' = [rx EXCEPT ![c] = @ \cup {"data"}]
    /\ UNCHANGED <<pollList, runs, files, server, cnx, backlog, stack, fault>>

(* The end of the stream, or an error of the socket.                       *)
HangUp(c) ==
    /\ fault = None /\ Open(c)
    /\ rx' = [rx EXCEPT ![c] = @ \cup {"end"}]
    /\ UNCHANGED <<pollList, runs, files, server, cnx, backlog, stack, fault>>

-----------------------------------------------------------------------------
(* af_server_start, where it succeeds; a port in use, as that of a server  *)
(* that listens already, and the lack of descriptors change nothing.       *)
af_server_start(s) ==
    /\ InApplication
    /\ ~ Listening(s) /\ FreeFds # {}
    /\ files' = [files EXCEPT ![FirstFd] = s]
    /\ server' = [server EXCEPT ![s] = [fd |-> FirstFd, cnx |-> <<>>,
                                        num_cnx |-> 0]]
    /\ Poll!af_poll_add(FirstFd, s)
    /\ UNCHANGED <<cnx, rx, backlog, stack, fault>>

(* Faults for the sensitivity checks: the descriptor stays registered, the *)
(* wrong one of the two at hand is removed.                                *)
BeginRegistered(c) == UNCHANGED pollList

BeginWrongFd(c) == pollList' = RemEntry(pollList, server[cnx[c].server].fd)

(* af_server_disconnect up to the callback.                                *)
BeginDisconnect(c) == pollList' = RemEntry(pollList, cnx[c].fd)

af_server_disconnect(c) ==
    /\ InApplication /\ Open(c)
    /\ OwnCnxOnly /\ stack # <<>> => Last(stack) = Frame("command", c)
    /\ BeginDisconnect(c)
    /\ Push("disconnect", c)
    /\ UNCHANGED <<runs, sockets, fault>>

(* Faults: the dup stays open, the counter stays.                          *)
RemKeepsDup(c) ==
    LET s == cnx[c].server
    IN  /\ files' = [files EXCEPT ![cnx[c].fd] = Free]
        /\ server' = [server EXCEPT ![s].cnx = RemoveFirst(@, c),
                                    ![s].num_cnx = @ - 1]
        /\ cnx' = [cnx EXCEPT ![c] = NoCnx]
        /\ rx' = [rx EXCEPT ![c] = {}]

RemKeepsCount(c) ==
    LET s == cnx[c].server
    IN  /\ files' = [files EXCEPT ![cnx[c].fd] = Free, ![cnx[c].dup] = Free]
        /\ server' = [server EXCEPT ![s].cnx = RemoveFirst(@, c)]
        /\ cnx' = [cnx EXCEPT ![c] = NoCnx]
        /\ rx' = [rx EXCEPT ![c] = {}]

(* The return of the callback: _af_server_rem_instance.                    *)
RemInstance(c) ==
    LET s    == cnx[c].server
        list == server[s].cnx
    IN  /\ files' = [f \in 1..NumFds |->
                        IF f \in {cnx[c].fd, cnx[c].dup} THEN Free
                        ELSE files[f]]
        /\ server' = IF Contains(list, c)
                     THEN [server EXCEPT ![s].cnx = RemoveFirst(list, c),
                                         ![s].num_cnx = @ - 1]
                     ELSE server
        /\ cnx' = [cnx EXCEPT ![c] = NoCnx]
        /\ rx' = [rx EXCEPT ![c] = {}]

DisconnectReturn(c) ==
    /\ Top("disconnect", c)
    /\ \/ Open(c) /\ RemInstance(c) /\ UNCHANGED fault
       \/ ~ Open(c) /\ fault' = "undefined"
          /\ UNCHANGED <<files, server, cnx, rx>>
    /\ Return
    /\ UNCHANGED <<pollList, runs, backlog>>

(* af_server_disconnect_all and af_server_stop, which begins with it; a    *)
(* server that was never started has no descriptor to close.               *)
af_server_disconnect_all(s) ==
    /\ InApplication /\ server[s].fd # 0
    /\ OwnCnxOnly => stack = <<>>
    /\ Push("disconnect_all", s)
    /\ UNCHANGED <<pollList, runs, sockets, fault>>

af_server_stop(s) ==
    /\ InApplication /\ server[s].fd # 0
    /\ OwnCnxOnly => stack = <<>>
    /\ Push("stop", s)
    /\ UNCHANGED <<pollList, runs, sockets, fault>>

DisconnectNext(s) ==
    /\ Top("disconnect_all", s) \/ Top("stop", s)
    /\ server[s].cnx # <<>>
    /\ BeginDisconnect(Head(server[s].cnx))
    /\ Push("disconnect", Head(server[s].cnx))
    /\ UNCHANGED <<runs, sockets, fault>>

DisconnectAllReturn(s) ==
    /\ Top("disconnect_all", s) /\ server[s].cnx = <<>>
    /\ Return
    /\ UNCHANGED <<pollList, runs, sockets, fault>>

(* Fault: the server is not marked as stopped.                             *)
StopKeepsFd(s) ==
    /\ Top("stop", s) /\ server[s].cnx = <<>>
    /\ pollList' = RemEntry(pollList, server[s].fd)
    /\ files' = [f \in 1..NumFds |-> IF f = server[s].fd THEN Free
                                     ELSE files[f]]
    /\ backlog' = [backlog EXCEPT ![s] = 0]
    /\ Return
    /\ UNCHANGED <<runs, server, cnx, rx, fault>>

StopReturn(s) ==
    /\ Top("stop", s) /\ server[s].cnx = <<>>
    /\ pollList' = RemEntry(pollList, server[s].fd)
    /\ files' = [f \in 1..NumFds |-> IF f = server[s].fd THEN Free
                                     ELSE files[f]]
    /\ server' = [server EXCEPT ![s].fd = NoFile]
    /\ backlog' = [backlog EXCEPT ![s] = 0]
    /\ Return
    /\ UNCHANGED <<runs, cnx, rx, fault>>

-----------------------------------------------------------------------------
(* af_poll_run: poll reports every descriptor with something to read, or   *)
(* that is not open.                                                       *)
Ready(f) ==
    \/ files[f] \in Server /\ backlog[files[f]] > 0
    \/ files[f] \in Cnx    /\ rx[files[f]] # {}
    \/ files[f] = Free

RunBegin ==
    /\ MainLoop
    /\ Poll!RunBegin
    /\ runs'[1].due = {i \in DOMAIN runs'[1].apfds :
                          Ready(runs'[1].apfds[i].fd)}
    /\ UNCHANGED <<sockets, stack, fault>>

Dispatch ==
    /\ fault = None /\ stack = <<>>
    /\ Poll!Dispatch
    /\ stack' = <<Frame("handle", Poll!Called'.ctx)>>
    /\ UNCHANGED <<sockets, fault>>

CallbackReturn ==
    /\ fault = None /\ stack = <<>>
    /\ Poll!CallbackReturn
    /\ UNCHANGED <<sockets, stack, fault>>

RunReturn ==
    /\ fault = None /\ stack = <<>>
    /\ Poll!RunReturn
    /\ UNCHANGED <<sockets, stack, fault>>

-----------------------------------------------------------------------------
(* _af_server_handle_new_connection.  accept fails on a closed descriptor  *)
(* and when the table is full, and waits when no client does.              *)
CanAccept(s) == server[s].fd # NoFile /\ FreeFds # {}

AcceptFails(s) ==
    /\ Top("handle", s) /\ ~ CanAccept(s)
    /\ Return
    /\ UNCHANGED <<pollList, runs, sockets, fault>>

AcceptBlocks(s) ==
    /\ Top("handle", s) /\ CanAccept(s) /\ backlog[s] = 0
    /\ fault' = "blocked"
    /\ UNCHANGED <<pollList, runs, sockets, stack>>

(* The client is turned away: too many connections, no memory, no second   *)
(* descriptor, or an error of getpeername, setsockopt or fdopen.           *)
AcceptRefuses(s) ==
    /\ Top("handle", s) /\ CanAccept(s) /\ backlog[s] > 0
    /\ backlog' = [backlog EXCEPT ![s] = @ - 1]
    /\ Return
    /\ UNCHANGED <<pollList, runs, files, server, cnx, rx, fault>>

MayConnect(s) ==
    /\ CanAccept(s) /\ backlog[s] > 0
    /\ server[s].num_cnx < MaxCnx
    /\ FreeFds \ {FirstFd} # {}
    /\ \E c \in Cnx : ~ Open(c)

(* SO_LINGER fails on the dup, which then stays open.                      *)
AcceptLeaks(s) ==
    /\ Top("handle", s) /\ LingerFails /\ MayConnect(s)
    /\ files' = [files EXCEPT ![SecondFd] = Leaked]
    /\ backlog' = [backlog EXCEPT ![s] = @ - 1]
    /\ Return
    /\ UNCHANGED <<pollList, runs, server, cnx, rx, fault>>

(* _af_server_add_connection, the registration with the poll section and   *)
(* the callback of the application.                                        *)
AcceptConnection(s) ==
    /\ Top("handle", s) /\ MayConnect(s)
    /\ \E c \in Cnx :
          /\ ~ Open(c)
          /\ cnx' = [cnx EXCEPT ![c] = [fd |-> FirstFd, dup |-> SecondFd,
                                        server |-> s]]
          /\ files' = [files EXCEPT ![FirstFd] = c, ![SecondFd] = c]
          /\ server' = [server EXCEPT ![s].cnx = <<c>> \o @,
                                      ![s].num_cnx = @ + 1]
          /\ Poll!af_poll_add(FirstFd, c)
          /\ Swap("new_connection", c)
    /\ backlog' = [backlog EXCEPT ![s] = @ - 1]
    /\ UNCHANGED <<rx, fault>>

(* The callback returns and the connection gets its prompt.                *)
NewConnectionReturn(c) ==
    /\ Top("new_connection", c)
    /\ fault' = IF Open(c) THEN fault ELSE "undefined"
    /\ Return
    /\ UNCHANGED <<pollList, runs, sockets>>

(* _af_server_cnx_handle_event reads from the descriptor of the event, and *)
(* uses the connection in its context: data is a command, anything else    *)
(* the end of the connection.                                              *)
ReadCommand(c) ==
    /\ Top("handle", c) /\ Open(c)
    /\ LET o == files[Poll!Called.fd]
       IN  /\ o \in Cnx /\ "data" \in rx[o]
           /\ rx' = [rx EXCEPT ![o] = @ \ {"data"}]
    /\ Swap("command", c)
    /\ UNCHANGED <<pollList, runs, files, server, cnx, backlog, fault>>

ReadEnd(c) ==
    /\ Top("handle", c) /\ Open(c)
    /\ LET o == files[Poll!Called.fd] IN o \in Cnx => rx[o] = {"end"}
    /\ BeginDisconnect(c)
    /\ Swap("disconnect", c)
    /\ UNCHANGED <<runs, sockets, fault>>

ReadFails(c) ==
    /\ Top("handle", c)
    /\ \/ ~ Open(c) /\ fault' = "undefined"
       \/ /\ Open(c)
          /\ LET o == files[Poll!Called.fd] IN o \in Cnx /\ rx[o] = {}
          /\ fault' = "blocked"
    /\ UNCHANGED <<pollList, runs, sockets, stack>>

CommandReturn(c) ==
    /\ Top("command", c)
    /\ Return
    /\ UNCHANGED <<pollList, runs, sockets, fault>>

-----------------------------------------------------------------------------
Clients ==
    \/ \E s \in Server : Connect(s)
    \/ \E c \in Cnx : Send(c) \/ HangUp(c)

Application ==
    \/ \E s \in Server : \/ af_server_start(s)
                         \/ af_server_disconnect_all(s)
                         \/ af_server_stop(s)
    \/ \E c \in Cnx : af_server_disconnect(c)

(* The library goes on, and callbacks of the application return.           *)
Library ==
    \/ \E s \in Server : \/ DisconnectNext(s) \/ DisconnectAllReturn(s)
                         \/ StopReturn(s)
                         \/ AcceptFails(s) \/ AcceptBlocks(s)
                         \/ AcceptRefuses(s) \/ AcceptLeaks(s)
                         \/ AcceptConnection(s)
    \/ \E c \in Cnx : \/ DisconnectReturn(c) \/ NewConnectionReturn(c)
                      \/ ReadCommand(c) \/ ReadEnd(c) \/ ReadFails(c)
                      \/ CommandReturn(c)
    \/ Dispatch
    \/ CallbackReturn
    \/ RunReturn

Next == Clients \/ Application \/ RunBegin \/ Library

Spec == Init /\ [][Next]_vars

(* The main loop comes back to af_poll_run again and again, whatever else  *)
(* it does in between; the library goes on and callbacks return.           *)
FairSpec == Spec /\ SF_vars(RunBegin) /\ WF_vars(Library)

-----------------------------------------------------------------------------
Frames == [op : Ops, arg : Handler]

TypeOK ==
    /\ Poll!TypeOK
    /\ files \in [1..NumFds -> Handler \cup {Free, Leaked}]
    /\ server \in [Server -> [fd : NoFile..NumFds, cnx : Seq(Cnx),
                              num_cnx : Nat]]
    /\ cnx \in [Cnx -> [fd : 0..NumFds, dup : 0..NumFds,
                        server : Server \cup {None}]]
    /\ rx \in [Cnx -> SUBSET {"data", "end"}]
    /\ backlog \in [Server -> 0..MaxBacklog]
    /\ stack \in Seq(Frames)
    /\ fault \in {None, "undefined", "blocked"}

(* The list of a server holds its connections, each once, its counter      *)
(* counts them and never passes max_cnx, and a server that is stopped has  *)
(* none: connections neither get lost nor stay behind, also when they are  *)
(* disconnected while the server disconnects all of them.                  *)
CnxLists ==
    TypeOK /\ \A s \in Server :
        /\ IsInjective(server[s].cnx)
        /\ \A c \in Cnx : Contains(server[s].cnx, c) <=> cnx[c].server = s
        /\ server[s].num_cnx = Len(server[s].cnx)
        /\ server[s].num_cnx <= MaxCnx
        /\ server[s].fd = NoFile => server[s].cnx = <<>>

(* A connection that is open owns its two descriptors, a started server    *)
(* its listening descriptor, and no other descriptor is theirs: nothing is *)
(* closed twice, for that would close a descriptor another has been given. *)
DescriptorsOwned ==
    /\ \A c \in Cnx : Open(c) => /\ cnx[c].fd # cnx[c].dup
                                 /\ files[cnx[c].fd] = c
                                 /\ files[cnx[c].dup] = c
    /\ \A s \in Server : server[s].fd > 0 => files[server[s].fd] = s
    /\ \A f \in 1..NumFds :
          /\ files[f] \in Cnx => f \in {cnx[files[f]].fd, cnx[files[f]].dup}
          /\ files[f] \in Server => f = server[files[f]].fd

Disconnecting(c) == \E i \in DOMAIN stack : stack[i] = Frame("disconnect", c)

Registered(f, h) == \E i \in DOMAIN pollList : pollList[i] = [fd |-> f, ctx |-> h]

(* What is polled is what is open: every server that listens and every     *)
(* connection, from its accept to its disconnection, and no descriptor     *)
(* that was closed, whose number the kernel gives out again.               *)
PollExact ==
    /\ \A s \in Server : Listening(s) => Registered(server[s].fd, s)
    /\ \A c \in Cnx :
          Open(c) /\ ~ Disconnecting(c) => Registered(cnx[c].fd, c)
    /\ \A i \in DOMAIN pollList : files[pollList[i].fd] = pollList[i].ctx

(* No event is handled with a connection that was freed, and the one       *)
(* thread never waits in accept or read while other clients need it.       *)
NoFault == fault = None

(* What a client sends is read, or its connection is closed; and a client  *)
(* that connects is accepted or turned away in the end.                    *)
ClientsServed ==
    /\ \A c \in Cnx : "data" \in rx[c] ~> "data" \notin rx[c]
    /\ \A s \in Server : backlog[s] = MaxBacklog ~> backlog[s] < MaxBacklog

(* af_server_stop returns, with the server stopped.                        *)
StopTerminates ==
    \A s \in Server : Top("stop", s) ~> (stack = <<>> /\ server[s].fd = NoFile)

(* The section keeps to the interface of the poll section; when callbacks  *)
(* disconnect only their own connection, it removes from a callback only   *)
(* the descriptor the callback is for, as the theorems about it require.   *)
ImplementsPoll == Poll!Spec
=============================================================================
