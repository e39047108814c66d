# Specifications of libappf

TLA+ specifications of libappf, a C library for building daemons: a poll
dispatcher, timers, telnet servers and clients, child processes, the pid file of
a daemon, a red-black tree. TLC checks them on small instances; TLAPS proves the
central invariants for all values of the constants.

    tlc -config Poll.cfg AppfPoll          # model checking, one cfg per run
    tlapm AppfPollProofs.tla               # proofs

## The system

A program that uses libappf is one thread around a global context,
`_af_daemon` (`appf.h:151`). Its main loop calls `af_poll_run`; everything else
happens in callbacks.

| Component | Sources | State | Operations | Model |
|---|---|---|---|---|
| poll dispatch | `appf_poll.c` | list of registered descriptors | `af_poll_add`, `af_poll_rem`, `af_poll_run` | `PollList`, `AppfPoll`, `PollDispatch` |
| timers | `appf_timer.c` | list of running timers in timeout order, list of expired ones | `af_timer_start`, `af_timer_stop`, `af_timer_check` | `AppfTimer`, `TimerOrder`, `TimerService` |
| telnet server | `appf_server.c` | per server: listening descriptor, list and count of connections | `af_server_start`, `_stop`, `_disconnect`, `_disconnect_all`, event handlers | `AppfServer` |
| telnet client | `appf_client.c` | socket, bytes kept back for prompt detection, prompts expected | connect, disconnect, read with timeout, raw read, prompt detection, send | `PromptDetect`, `PromptStream`, `AppfClient`; sending in `Tcli` |
| child process | `appf_exec.c` | pipe, child, SIGCHLD flag and handler | `af_exec_to_buf`, `af_exec_to_fd`, their poll loop, the signal handler | `AppfExec` |
| daemonizing | `appf_main.c`, `daemonize.c` | pid file | `af_daemon_start`, `_af_write_pid`, `af_exec_is_running` | `PidFile` (the pid file only) |
| red-black tree | `redblack.c` | nodes, top, count, mutex | add, remove, searches, walks, flush, destroy | `RedBlack`, `RbTree`, `SortedSet` |
| logging | `appf_log.c` | log file, level | `af_log_print`, `af_fatal` | not modelled: output only; `af_fatal` in `PidFile` |
| tcli | `tcli.c` | command queue, busy and bailout flags, the record being decoded | example program: client of a telnet server or of a NetLink device | `NetLink`, `Tcli` |
| `cJSON`, `kernel-list.h`, `sos_hlist.h` | | | third-party, unused by the library | not modelled |

How they interact: the server and the application register descriptors with the
poll section, which calls their handlers; handlers of the server call back the
application (new connection, command, disconnection), which may call any section
again. The timer section was built to be driven by a timerfd registered with the
poll section, but that code is commented out (`appf_timer.c:102-186`): timers
now move only when the application calls `af_timer_check`. Client and child
process use `poll` on their own descriptors and block the thread meanwhile.
`tcli` registers the socket of its client with the poll section, and its handler
reads with the client section. The
red-black tree is in no default build (`Makefile:11`) and used by no other
section; it is the one section with a mutex.

What is hard is therefore not parallelism but **re-entrance**: a callback
changes the list, or frees the object, that the code which called it is working
through. Next to it come errors half-way through an operation, limits of tables
that must agree, time arithmetic, and descriptor numbers and memory blocks that
are reused while something still refers to their former owner. `PROJECT.json`
lists these hazards with their lines and the properties aimed at them.

What makes each component correct:

* *poll*: one handler per descriptor; everything registered is polled; a
  callback is called for an entry that is registered at that moment; no
  reported event is forgotten.
* *timers*: a timer is in a list exactly when it is running, in one list, once;
  started once, called once, not early, and in an order that depends on nothing but
  timeouts and starts; a check comes to an end.
* *server*: lists and counters are exact, `max_cnx` holds, every descriptor has
  one owner, what is open is polled and what is polled is open, nothing freed is
  used, clients are answered, a stop stops.
* *client*: a prompt is found when it has been received, however the stream is cut
  into reads, and no byte that cannot begin a prompt is kept back; a read ends.
* *child process*: the output arrives in order, and whole where the caller takes
  it, a call ends within its timeout, a signal that asks for the end is honoured.
* *pid file*: at most one instance runs.
* *tcli*: the packets of a device are understood however reads cut and merge them,
  commands go out one at a time and whole, a signal or a hang-up ends the program.
* *red-black tree*: it is a set with a count, its searches are exact, and it stays
  balanced.

## The modules

### `PollList`, `AppfPoll` and `PollDispatch`

`PollList` holds the linked list `_af_daemon->poll_head` as a sequence, the head
first, and what the three functions do to it: `AddEntry` (scan for the
descriptor, limit, new head), `RemEntry` (first match), `Snapshot` (the copy
`af_poll_run` makes, cut at `MAX_FDS`). The callback and the context of an entry
are one value.

`AppfPoll` adds control. `runs` is the stack of activations of `af_poll_run`:
the copy (`apfds`), the indexes with events still to visit (`due`), and the index
whose callback runs (`cur`). `RunBegin` copies the list and chooses any
non-empty set of ready entries, `Dispatch` takes the next one in list order,
`CallbackReturn` and `RunReturn` end the callback and the call. In a callback,
as outside every run, the application may call `af_poll_add`, `af_poll_rem` and,
up to `MaxDepth`, `af_poll_run`. `OwnFdOnly` says whether the callbacks remove
only the descriptor they are called for, the discipline the handlers of this
repository keep and the one under which the copy cannot be stale.

`PollDispatch` is the abstract specification: a set of handlers, the set due,
the one being served. `AppfPoll` implements it (`ImplementsDispatch`) with
callbacks that keep the discipline.

### `AppfTimer`, `TimerOrder` and `TimerService`

The two lists of `appf_timer.c` as sequences of timers, with the fields `timeout`
and `running` of each timer, and the clock. A tick stands for the unit of
`tv_nsec`; `NsPerMs` ticks make a millisecond and `MsPerSec` of those a second,
so that the carry, the truncation and the `100000000` of `timediff` are all there
with small numbers. `af_timer_check` is `CheckBegin` (the first loop: the due
prefix of the list becomes the expired list), then for every expired timer
`CheckCalls` and `CallbackReturn`, then `CheckReturn`. Callbacks may start and
stop every timer. The clock moves at any point of this.

`TimerService` is the abstract specification: a deadline per armed timer, `Fire`
at most once an arming and less than `Slack` before the deadline. `AppfTimer`
implements it with a slack of one millisecond.

`TimerOrder` adds a history variable, `since`: of every timer, those started after it.
The comment in the code, "insert this timer in timeout order", is not what the code
does: `timediff` cuts differences of less than a millisecond to zero, and a timer
that finds no difference goes in front (the finding of `timer_overdue`). `CalledInOrder`
and `CollectedInOrder` say what is left of the order at the resolution of the code:
a timer overtakes another only by the earlier timeout or by having been started later.

### `AppfServer`

The server section over the poll section: `AppfServer` contains an instance of
`AppfPoll` (`Poll!...`), takes its steps together with it, and so its runs check
that the poll section is used within the assumptions of the theorems about it
(`ImplementsPoll`). Beside `pollList` and `runs` the state is

* `files`, the descriptor table, with the kernel's rule of the lowest free number
  (so numbers are reused as soon as they can be), and its exhaustion;
* `server` and `cnx`, the internal fields of `af_server_t` and
  `af_server_cnx_t`; a connection is a block of memory, free when its `server` is
  `None`, and blocks are reused too;
* `rx` and `backlog`, what clients have sent and which wait to be accepted;
* `stack`, the activations of the section that are waiting for application code
  to return, or have just regained control: one frame per call of
  `af_server_disconnect`, `_disconnect_all`, `_stop` and per event handler;
* `fault`, set when freed memory is used or a blocking call has nothing to
  return. The model stops there, as nothing the code says holds any more.

A step is the code between two calls of application code. For instance
`af_server_disconnect` is two steps: removal from the poll list and call of the
disconnect callback; then, in `DisconnectReturn`, `_af_server_rem_instance`.
`OwnCnxOnly` says whether callbacks keep to a discipline: only a command handler
disconnects, and only its own connection. A callback pointer that is `NULL` is one
that returns at once. Failures that leave no trace (a port in use, no socket) are
no step. `af_server_stop` of a server that was never started is left out: it would
close descriptor 0 of a zeroed `af_server_t`, a misuse rather than a state of the
section.

### `PromptDetect`, `PromptStream`, `AppfClient` and `MCAppfClient`

`PromptDetect` is `_af_client_prompt_detect` as a function of the bytes in the
buffer: whether the prompt was found, the bytes kept back, the length reported.
`PromptStream` is the abstract specification, said of the stream since the last
prompt and not of its pieces: found exactly when the stream ends with the prompt,
and the longest partial prompt it ends with is kept back.

`AppfClient` has the socket (`conn`, with the bytes `wire` that have been sent
and not received), the prompts expected, `saved`, and the read in progress
(`call`). `ReadBegin` is the entry of `af_client_read_timeout` or of its raw
variant; then each step is one turn of its loop: `PollTimeout`, `PollError`,
`ReadEnd`, `ReadPrompt`, `ReadRaw`, each with the test of the time that follows it
(`TimeTest`). `timediff` and its truncation are modelled, time goes on at any
point. `stream` and `found` are history variables for the refinement. `ReadFault`
is the use of a pointer that is null or leads into a frame that has been left:
with `*len` 0, as `af_client_read_timeout` sets it, `af_client_read_socket` reads
into its own `rbuf` and leaves the caller's pointer at it. The model stops there.
What `af_client_read_socket` relays to `coms->fd` is left out, and the `write` is taken
not to block; that reads end (`ReadEnds`) depends on it.

### `AppfExec`

A call of `af_exec_to_buf` or `af_exec_to_fd` (`toBuf`, chosen at each call) is
`_af_exec_open_pipe_run`, which may fail, `LoopBegin`, and turns of the loop of
`_af_exec_poll_for_result`: `PollData`, `PollHup`, `PollNothing`, `PollFails`,
`PollInterrupted`, up to `Leave` or `Kill`. With a socket, `PollData` goes on to
`Send`: `send` takes some of the bytes, all or none, its result is ignored and the
rest forgotten (`lost`); as long as the peer does not read, `SendWaits` lets the time
pass. Around it the command writes and ends, may leave a process in the background
that holds the pipe open, SIGCHLD arrives late, also in the next call, and other
signals interrupt the wait. `ignored` says whether the application ignores SIGCHLD,
chosen once; `hooked` whether the handler of the section is installed. A byte is its
number, so that `output` shows gaps and repetitions. `hidden` counts the signals that
were taken for SIGCHLD. The signal mask and the buffer handed to the application's
handler are the kernel's; a socket that has been closed (SIGPIPE), the socket 0, for
which the code prints instead, and other children of the application are left out.

### `PidFile`

Instances of one daemon, each a process number, whose start is the steps of
`_af_write_pid`: `ReadPid`, `LookUp` (the rest of `af_exec_is_running`), `Remove`,
`Create`, `WritePid`. Starts overlap. Any instance may `Die` at any step; nothing
removes the file then, so an orderly end is the same. `Fatal` is `af_fatal`, which does
remove it, whoever's it is: called by an instance that runs, or by one that does not,
because its signals could not be set up, it could not become a daemon or it was refused.
The number may not get into the file (`WritePid`), and the file may be there and not
be readable (`ReadPidFails`). Numbers are free again once the process is waited for,
and may go to other programs. `LongPid` are the numbers too long for the buffer
`proc_loc`.

The file cannot keep a second instance out in all of this. `excused` is a history
variable that becomes true when one of the things happens it does not guard against,
and the properties say how much is left: `OneUnlessExcused`, that there are no other
ways; `GuardHolds`, that an instance whose file names it is safe whatever has happened
before.

### `RedBlack`, `RbTree` and `SortedSet`

`RedBlack` has the algorithms of `redblack.c` as operators on a tree value: top,
children, parents, colours, count. The code writes each case twice, for left and
right; here the side is a parameter. `Nil` is `pTree->root`, the node all branches
end in, whose parent and right child `rb_delete` overwrites; the model overwrites
them too. An element and the node within it are one number, which is also its key; that the
parameter of `rb_tree_get_next_from_node` is a node, though its type says element, is
as its comment has it (`redblack.c:576`).

`RbTree` makes the calls steps. `rb_tree_add` and `rb_tree_remove` take a step for what
comes before their repair loop, one for each turn of it and one for its end; the mutex
keeps other calls out meanwhile (`Idle`). `rb_tree_flush` and `rb_tree_destroy` take no
mutex: they are steps for a caller that is alone. `SortedSet` is the abstract
specification, a set and a count, and says what searches answer.

### `NetLink`, `Tcli` and `MCTcli`

`NetLink` is the codec of `tcli.c` over bytes of `ByteMod` values: `Encode` is
`send_NetLink_command`; `Bad`, `More`, `NextPlace` and `Decoded` are the parts of
`decode_NetLink_command`, over memory that goes on behind the record, as the C code
reads it without looking at how much has come; `Rejected` is the `switch` of
`process_NetLink_message`.

`Tcli` is the program from its connection to its end: `Connect`, the login or the
first prompt and command, then `Event` (af_poll_run calls the handler, which starts
a read), `EventResult` (what the handler makes of its result), `HandlePacket` and
`DropRecord` (one turn of `process_NetLink_message`), `MainLoopTurn`. The reads
are those of `AppfClient`, of which the module contains two instances on the same
variables: without a comport for a server with a prompt, with a comport and an
empty prompt for a device, as `main` sets `extra_data`. What a read returns
is therefore not assumed: that a raw read of the main loop never ends with `AF_OK`, and that
`af_client_get_prompt` uses a null pointer, follow from the code of that section.
Sending (`af_client_send`, `af_client_send_raw`) is `Send`: all goes out, nothing,
or a part; `uplink` remembers whether the server has been left with a piece. `frame`
is what the stack memory of `buf` held in the event before, or nothing if it has
been used by something else; `sent`, `taken` and `start` are history. The device
sends any packets, the network cuts their bytes anywhere and may deliver several
pieces before one read. Signals come at any point.

Operators described as *Faults* are not part of the models. They are plausible
mistakes, substituted for the correct definition to see that a property notices.

## The runs

| Run | cfg | What it shows |
|---|---|---|
| poll | `Poll.cfg` | all properties of the poll section, and that it implements `PollDispatch`, under the discipline |
| timer | `Timer.cfg` | sub-millisecond times and zero delays: exact lists, checks end, `TimerService` is implemented, and what is left of the order of the lists |
| timer_overdue | `TimerOverdue.cfg` | *violated*: between milliseconds the list is not in timeout order |
| server | `Server.cfg` | one server under the discipline: safety, liveness, use of the poll section |
| server_any | `ServerAny.cfg` | arbitrary callbacks: the bookkeeping holds up to the first use of freed memory |
| client | `Client.cfg` | prompt detection implements `PromptStream` over reads of both kinds; reads end |
| client_buffer | `ClientBuffer.cfg` | *violated*: a read reports bytes the caller's buffer does not have |
| exec | `Exec.cfg` | order of the output, no gap but by a send, whole at hang-up; the timeout holds up to one send; calls return unless a send never does; no more signals forgotten than commands started |
| pid_start | `PidStart.cfg` | the ways a second instance comes to run, and that an instance the file names is safe |
| tcli | `Tcli.cfg` | records of whole packets are acted on in order, only answers can be torn, signals and hang-ups end the program |
| tcli_next | `TcliNext.cfg` | *violated*: the command after the first is never sent |
| rbtree | `RbTree.cfg` | red-black shape, exact searches and walks, safe order of freeing, the repair loops climb, `SortedSet` is implemented |

The violated properties are the findings in `PROJECT.json`, each with the comment
of the source it contradicts.

### Bounds

* Three descriptors or so against a `MaxFds` below their number: the limit, the
  duplicate, removal of head, middle and tail, and a copy that differs from the
  list all occur. Activations that nest (`MaxDepth` above 1) are left to the
  theorems `FdsUnique` and `WholeListPolled`, which hold for any depth.
* Three timers are the fewest for which an order error of two truncated
  comparisons adds up to a millisecond. The clock ends at six or seven ticks, more
  than one second of the small scale, so carries happen. Two ticks a millisecond are
  the fewest for which `timediff` cuts anything off. That checks may nest is left to the
  theorems on the order of the lists, which hold for any depth.
* Two connections and, in `Server`, three blocks, so that blocks and descriptor
  numbers are reused while old events are pending; in `ServerAny` descriptors that
  leak use up the table, so accept and dup both fail. `MaxBacklog` is one: a second
  waiting client adds no new case to a handler that accepts one per event.
  `MaxStack` of four lets a disconnect callback disconnect, stop and start in turn.
* Client: a prompt `aab` that overlaps itself, at most three bytes on the wire and
  four to a prompt, so that it comes in every cutting, after failed beginnings too;
  an `rbuf` of twelve bytes, in which `AF_BUFFER` happens; a timeout of zero and
  one of two milliseconds of two ticks.
* Child process: a buffer of four bytes filled by pieces of two, four bytes of
  output, so that the buffer fills and overflows by one; two calls, so that the
  SIGCHLD of the first arrives in the second; a second of two ticks. The clock stops
  being counted two seconds after the timeout (`MaxClock`), past all it is compared with.
* Pid file: three numbers, one of them long, so that two instances start while a third
  runs, and the file can name a process that runs, one that is gone and a program that
  has taken its number.
* tcli: bytes of sixteen values, so that the length byte wraps in a packet of sixteen
  bytes; two packets out of four (a ping, an error report, and two that are not
  understood, of seven, eight and sixteen bytes), cut at seven and sixteen bytes, so
  that records hold one packet, two, or parts of both; room on the wire (`MaxWire`) for
  all they send; a read that receives twice; one
  outlet, so that an answer has two sends and a torn one can have another behind it.
  The device says only so much: what an endless talker does to a read is with
  `AppfClient` (see `appf_client.c:515` below).
* Red-black tree: ten elements are the fewest with which additions and removals
  reach a tree where the repair of a removal passes its missing black node up twice
  (a black node below the top with two black leaves; not reachable with nine). The run `rbtree`
  identifies states that differ in the links of `pTree->root` only (`VIEW
  LiveFields`): no call reads what an earlier one left there. That this is so is not
  taken for granted: without the view TLC finds `IsRedBlack` to hold for seven elements, and
  the theorems are about every state.

### Fairness

`AppfPoll` and `TimerOrder` have weak fairness on the steps of the library and on
the return of callbacks: code that is running goes on, and callbacks are assumed to
return. Nothing is assumed of the calls of `af_timer_check`, which nothing in the
library makes, nor of the clock: only a check that has begun must end. `AppfServer` has
strong fairness on `RunBegin`: the main loop comes back to `af_poll_run`, as
`tcli.c:472` does, though it may do other things in between. Clients and the
application's other calls have no fairness. `AppfClient` and `AppfExec` have weak
fairness on `Tick` and on the steps of their loop: time passes, and the thread goes
on when `poll` has something for it; neither peer nor child need do anything,
and the `Send` of `AppfExec` has no fairness, as it may wait for ever.
`Tcli` has weak fairness on `Program`, all steps of the program together, as it is one
thread, and on `Tick`; none on the device, the network or signals.
`PidFile` and `RbTree` have no liveness property.

## The proofs

Every theorem holds for all values of the constants that satisfy the assumptions of
the model, except where a hypothesis is named.

`SeqLemmas` has the facts about the library's sequence and set operators that several
proofs need (`RemoveAt`, `InsertAt`, `RemoveFirst`, splitting, the top of a stack,
folds, concatenation of a sequence of sequences), each proved from the definitions of
the library modules.

`AppfPollProofs`:

* `TypeCorrect`: `Spec => []TypeOK`.
* `FdsUnique` and `WholeListPolled`, from the inductive invariant `Registry`:
  descriptors are distinct *and* the list is no longer than `MaxFds`. Neither
  needs an assumption on what callbacks do.
* `PendingEntriesRegistered` and `OnlyRegisteredCalled`, assuming `MaxDepth = 1`
  and `OwnFdOnly`. `PendingRegistered` alone is not inductive: removing the
  descriptor of the running callback keeps the pending entries registered only
  because the copy holds that descriptor once and not among those pending, so
  `DispatchInv` adds `CopiesFresh`. Registry and types are used as well.
* `DispatchImplemented`, with the same hypotheses (and that the word for "no handler"
  is no entry): every step of `AppfPoll` is a step of `PollDispatch` or a stutter. The
  snapshot is a set of handlers because of `Registry`, and the call of a handler is
  the abstract `Serve` because of `DispatchInv`.

`AppfTimerProofs`:

* `TypeCorrect`, for any depth of nesting.
* `ListsAlwaysExact`, assuming `MaxDepth = 1`. The strengthening `CheckInv` says
  when the expired list is empty: outside a check. Without it `CheckBegin`, which
  overwrites that list, would lose timers, as it does when checks nest.
  One lemma per operation shows that it keeps the lists disjoint, free of
  repetitions and in step with the flags.
* `OrderKept` (`CalledInOrder`) and `DueInOrder` (`CollectedInOrder`), for every resolution
  and depth of nesting. Both lists stay `InStartOrder`: of two timers in a list the one in
  front has the earlier timeout or was started after the other. The insertion keeps that
  because a difference `timediff` reports as positive is one (`LaterByDiff`), though
  not the other way round, and the new timer is the one started last. For that each
  timer must be in one place (`Linked`), which is what is left of `ListsExact` when
  checks nest.
* `ServiceImplemented`, assuming `MaxDepth = 1` and delays below `HugeSecs` seconds:
  `AppfTimer` implements `TimerService` for every resolution of the clock. The slack of
  a millisecond comes out of the truncated comparison in a lemma on `timediff`.

`AppfServerProofs` has `AnyInv`, an inductive invariant that needs nothing of the
callbacks. Its parts use each other: `ListsInv` and `OwnedInv` (who owns a descriptor
knows it, and who knows one owns it: `CnxOwns`, `ServerOwns`, `OwnersKnow`) because
`af_server_disconnect` closes what the block says; `PolledInv`, what is polled is open,
because the descriptor is removed from the poll list before it is closed; `StackInv`, a
handler of an event is at the bottom of the stack and a connection being disconnected is
not polled, because a block that callbacks still hold must not be given out;
`StartedInv` and `LoopInv` because the events of a run refer to servers that have been
started and not yet stopped.

* `ListsCorrect` (`CnxLists`) and `DescriptorsCorrect` (`DescriptorsOwned`), for
  arbitrary callbacks.
* `PollCorrect` (`PollExact`), for arbitrary callbacks, assuming `Room`: the poll list has
  room for every server and all its connections, `Cardinality(Server) * (MaxCnx + 1) <=
  MaxFds`. `MAX_FDS` is 256 (`appf_poll.c:24`) and nothing in the code compares the two;
  without `Room`, `af_poll_add` fails and a connection is never served
  (`appf_server.c:509` below). The proof maps the entries of the list one-to-one to
  places, a server and a position in its list, and counts.
* `HandlersSafe` (`NoFault`), assuming `OwnCnxOnly`. `OwnInv` adds to `AnyInv` what each
  frame of the stack may rely on (`OwnStack`) and that an event reported at the beginning
  of a run is still there when its turn comes (`OwnRun`).
* `PollImplemented` (`ImplementsPoll`): the servers are an application of the poll
  section as `AppfPoll` allows one. No hypothesis.
* `EventsReachRegistered`: by `PollImplemented` the theorems of `AppfPollProofs` hold for
  the instance inside `AppfServer`; with `OwnCnxOnly`, no event reaches a connection that an
  earlier event of the same run has disconnected.

`AppfClientProofs`:

* `TypeCorrect`. `TypeInv` adds the shape of a read under way and of its result.
* `StreamImplemented` (`ImplementsStream`), assuming `~Reconnect`: prompt detection on
  pieces finds what `PromptStream` finds in the whole stream. The invariant `KeptInv` says
  that `saved` is the longest partial prompt the stream ends with; a prompt that ends
  in the next piece begins in `saved` or in the piece, since a longer partial prompt
  would have been kept. A client that connects again begins with the bytes of its last
  connection (`appf_client.c:143` below), hence the hypothesis.

`ProcessProofs`, for `AppfExec` from `ExecInv`, the conjunction of three invariants:

* `OutputCorrect` (`OutputExact`), from `ByteInv`: what has been written is what is in the
  output, then in `tmp`, then in the pipe, ascending, and without a gap unless `lost`.
* `OnTimeCorrect` (`ExecOnTime`), from `ClockInv`: the time since the start is bounded by the
  time of the last wait, which the test behind each wait, and behind each send, keeps
  below the deadline. The bound is sharp.
* `SignalsCorrect` (`SignalsHonoured`), from `SignalInv`: a command is good for one signal
  that is forgotten, and as long as it runs, its SIGCHLD is on its way or is noted, that
  one is still to come: `hidden` and these three add up to no more than `calls`.

And for `PidFile`, for every set of process numbers:

* `PidTypeCorrect`.
* `OneInstance` (`OneUnlessExcused`), assuming only that no number is one of the words for
  an absent, empty or foreign file (`NoSuchPid`). The inductive invariant `PidInv` says
  that as long as nothing is excused: the file names every running instance
  (`FileNames`); one instance at a time is starting (`OneStarts`); what it has read is
  what the file says as long as it has not changed it (`ReadRight`); past the look-up it
  is the only one alive (`LateAlone`); about to write, it holds the file open
  (`WriterHolds`). The last two carry the argument: an instance may remove the file only
  because nobody runs.
* `GuardCorrect` (`GuardHolds`): needs no more than the types, as it is about any state and
  one step; that a step may not break `Guarded` is what `Guarded` was chosen for.

`TcliProofs`:

* `PacketsUnderstood`: a packet whose data fits the length byte, laid out by `Encode`
  behind any bytes and before any others, is accepted, decodes to itself, and the next
  packet is looked for right behind it. Both sides take the checksum over the same
  bytes, and the proof shows that they are the same; of the sum it needs no more than
  that it is a number.
* `FirstCommandOnly` (`OneCommand`), the reason why `NextCommandSent` is violated: once the main loop has begun a command stays under way, the
  counter of commands stays 0 and the program does not end with status 0. The
  invariant `CommandInv` goes through the read loops of `AppfClient`: no prompt is
  ever expected there (`numprompts = 0`), a read has the shape its caller gave it
  (`IsCall`), and a read of the handler that ends has not ended with `AF_OK`
  (`EventRead`) - the raw loop returns `AF_OK` only for a timeout of 0, and the other
  one uses a null pointer before it can.
* `TypeCorrect` (`TypeOK`). `TypeInv` is `CommandInv` with the types. The two instances
  of the client have the same variables and tell the time alike, so that one
  invariant, `ClientTyped`, serves both; what differs is the reads (`ReadOf`). It also
  says that a read that looks for a prompt receives nothing (`PromptReceivesNothing`:
  the first byte finds the null pointer), so nothing is ever kept back.
* `RecordsExact` (`RecordExact`), assuming that every packet of the device `Fits` its
  length byte, as `tcli.c:768` would wrap it otherwise. The inductive invariant
  `RecordInv` says: the wire holds what comes next in the stream of the device
  (`WireInv`); a read that has received holds the part of the stream from `start` to
  `taken`, at the beginning of the buffer (`EventInv`, `Held`), since a raw read that
  receives again overwrites what it had; of a record from packet `i + 1` to packet `j`
  some `k` packets are acted on, and the decoder stands before the next one or has
  stopped for a reason (`ProcessInv`, `ActedOn`). `PacketsUnderstood`, on memory
  instead of sequences (`PacketAt`), moves it on by one packet (`RecordPacket`,
  `HandleStep`); that the length test does not go on behind the last packet of a record
  is where `Fits` is needed a second time. A packet that the device sends meanwhile is
  in no record received before (`SendStep`).

`RbTreeProofs`, for every set of elements:

* `TreeHolds`, `RedBlackAlways` (`IsRedBlack`). The invariant `IInv`: the tree `Holds` some set
  of elements, links and order included, and its colours are those of a red-black tree
  but for one place, that of the repair loop under way. An insertion may leave a red node
  under a red one at `fix.at`, and nowhere else; a removal one black node too few below
  `fix.at`, and nowhere else. One lemma per case of the code shows where its rotations
  and colours move that place, for both sides at once. The black height is a number the
  invariant says exists; no recursive definition is needed for it.
* `TreeIsSet` (`ImplementsSet`): the calls add and remove the element they are given and
  count it; turns of the loops are stutters.
* `LoopsClimb` (`RepairClimbs`): each turn goes up or is the last, because the tree hangs
  together and its rotations lift what is above `fix.at`.
* `SearchesAlwaysExact` (`SearchesExact`), `AlwaysFreedBottomUp` (`FreedBottomUp`).

Induction over data is done without an induction rule: a set of numbers
that has 0 and with each number the next is all of them (`NaturalsIn`), from the least
number that is not in it. So `FlattenSeq` and the folds of the community modules can be
reasoned about, and `RECURSIVE` operators are what is out of reach; no module here has one.

Only model-checked: every liveness property, which is out of the prover's reach;
`WalksExact`; and
`TornByAnswer`, which holds for the packets of the run but not for every
`DevicePackets`: of a packet that arrives in pieces, a piece may begin with data that
reads like a ping, and is answered as one that no device sent.

## Where the code departs from what it says

The three findings have a run each. These were seen while modelling; a constant of
the model or a line shows them:

| Line | What happens | To see it |
|---|---|---|
| `appf.h:107` | a timeout more than 100000000 seconds away counts as due, and fires at once | a delay above `HugeSecs` |
| `appf_timer.c:60` | an `af_timer_check` called from a timer's callback drops the timers the outer one had still to call | `MaxDepth = 2`: `ListsExact` |
| `appf_timer.c:102` | nothing in the library calls `af_timer_check`, as `af_timer_reset_fd` has no body | |
| `appf_server.c:509` | a connection that `af_poll_add` refuses stays open and is never polled | `MaxFds = 2`: `PollExact` |
| `appf_server.c:204` | the dup'ed descriptor stays open when SO_LINGER cannot be set on it | `LingerFails = TRUE`: `AcceptLeaks` |
| `appf_client.c:324`, `appf.h:307` | `af_client_get_prompt` passes a null `len`, which is dereferenced | `ReadFault` |
| `appf_client.c:392` | without an expected prompt, bytes kept back earlier are relayed again | |
| `appf_client.c:515` | data within every millisecond puts the timeout of a read off | |
| `appf_client.c:622` | a raw read that receives twice overwrites what it received first | `ReadRaw` |
| `appf_client.c:143` | the bytes kept back survive a reconnection | `Reconnect = TRUE`: `ImplementsStream` |
| `appf_exec.c:290` | with SIGCHLD ignored, the handler calls `SIG_IGN` as a function | `fault` |
| `appf_exec.c:427` | the process killed after a timeout may have been waited for, and its number be another's | |
| `appf_exec.c:366` | a SIGCHLD noted earlier, in this call or the one before, hides a signal that interrupts the wait: `sigint` is not set and the loop goes on | `hidden` |
| `appf_exec.c:348` | what `send` does not take is forgotten, and a peer that does not read keeps the call beyond its timeout | `Send`, `SendWaits` |
| `appf_exec.c:244` | when `pipe` or `fork` fails the caller's buffer is left as it was, without a word | `ended = "failed"` |
| `appf_exec.c:402` | nothing waits for the children | |
| `appf_main.c:308` | two instances that start together both run: the look at the file and its creation are separate steps | `excused` in `Start` |
| `appf_exec.c:60` | a process number of six digits is never found running: `proc_loc` is too short for its path | `LongPid`, `excused` in `LookUp` |
| `appf_main.c:335` | an instance whose number could not be written runs with an empty file | `excused` in `WritePid` |
| `appf_log.c:153` | `af_fatal` removes the pid file also when it belongs to another instance | `excused` in `Fatal` |
| `appf_exec.c:84` | a stale file with the number of the starting instance makes it refuse | `IsRunning` |
| `tcli.c:684` | with a prompt the program crashes at the first data, `af_client_get_prompt` having no `len`; with `-T 0` it gets as far as the next read, which has no comport | `ReadFault` |
| `tcli.c:348` | the command timeout of `-c` is never armed | |
| `tcli.c:1049` | the length test takes a packet for the last one of its record when a multiple of 256 bytes follows, and drops those | the last disjunct of `RecordExact` |
| `tcli.c:1033` | the decoder reads behind the record when its last packet is cut; if older bytes there fit, the packet is acted on with foreign data. Cut packets are not put together again | `frame` |
| `tcli.c:899`, `:1000` | a packet that is not understood takes the rest of its record with it | `DropRecord` |
| `tcli.c:768` | a password of more than 247 characters wraps the length byte | `Fits` in `TcliProofs` |
| `tcli.c:906` | results of the answers to a ping are ignored; a torn one garbles what follows | `TornByAnswer` |
| `tcli.c:213` | the first signal after a hang-up aborts the program, as the second is meant to | `Signal` |
| `appf_client.c:543` | an empty command makes the test for a newline look in front of the string | |
| `redblack.c:244` | flush and destroy take no mutex | |
| `redblack.c:696` | a callback of a walk that calls the tree waits for a mutex its own thread holds | |

## Not modelled

* Logging (`appf_log.c`): it formats and writes, and no other section reads its state.
* `cJSON.c`, `kernel-list.h`, `sos_hlist.h`: third-party code no section calls.
* `af_parse_argv` (`appf_main.c`): used by nothing. Core dumps, the double fork and the
  signal set-up of `af_daemon_start`: single calls of the kernel; what their failure does to
  the pid file is `Fatal`.
* The parsing of `tcli`'s command line and command file, its hex dump, and what all
  parts print: strings and layout, which no property is about.
* The look-up of services and host names, socket options, and the timerfd code, which is
  commented out.

* In `AppfClient`, the relaying to `coms->fd`; in `AppfExec`, SIGPIPE, the socket 0 and other
  children of the application; see there.

## Plan

1. Done: poll section, timers, server, client, child process, pid file, red-black
   tree, `tcli`; the proofs above.
2. Proofs: `WalksExact`, which needs the order of a whole walk rather than a step of it.
