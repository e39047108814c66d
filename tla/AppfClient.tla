----------------------------- MODULE AppfClient -----------------------------
(***************************************************************************)
(* The telnet client of appf_client.c: one client of one application, its  *)
(* connection, and the reads that wait for the prompt of the server.       *)
(*                                                                         *)
(* A read is a loop around poll.  Its steps are what happens between two   *)
(* waits: a call of af_client_read_socket (or of the raw variant) with the *)
(* test of the time that follows it.  Time passes in ticks, TicksPerMs to  *)
(* the millisecond.                                                        *)
(*                                                                         *)
(* fault is set where the code uses a pointer that is null or that points  *)
(* into the frame of a call that has returned; the model stops there.      *)
(***************************************************************************)
EXTENDS PromptDetect, Integers, SequencesExt

CONSTANTS
  Raw,          \* which kinds of read the application makes: subset of BOOLEAN
  Buffers,      \* whether it passes a buffer: subset of BOOLEAN
  Comport,      \* whether client->extra_data points to a comport
  Reconnect,    \* whether it connects a client again that it has disconnected
  Timeouts,     \* the timeouts it passes, in milliseconds
  MaxPrompts,   \* bound: prompts it expects at a time
  RbufSize,     \* size of the buffer inside af_client_read_socket
  UserSize,     \* size of the buffers of the application
  TicksPerMs,
  MsPerSec,
  MaxWire,      \* bound: bytes sent and not yet received
  MaxStream     \* bound: bytes of a stream up to a prompt

Positive == Nat \ {0}

ASSUME ClientAssumption ==
  /\ Raw \subseteq BOOLEAN /\ Buffers \subseteq BOOLEAN
  /\ Comport \in BOOLEAN /\ Reconnect \in BOOLEAN
  /\ Timeouts \subseteq Nat
  /\ MaxPrompts \in Nat /\ MaxWire \in Positive /\ MaxStream \in Nat
  /\ UserSize \in Positive /\ TicksPerMs \in Positive /\ MsPerSec \in Positive
  /\ RbufSize \in Nat /\ RbufSize > 2 * Len(Prompt) + 1

VARIABLES
  conn,         \* the socket: "none", "tried" (and failed), "up", "shut", "reset"
  wire,         \* what the server has sent and the client not received
  numprompts,   \* coms->numprompts: prompts the application expects
  saved,        \* client->saved, saved_len: bytes kept back
  call,         \* the read in progress, or NoCall
  buf,          \* what has been stored in the buffer of the application
  ret,          \* how the last read ended
  stream,       \* bytes received since a prompt was last found, or up to one
  found,        \* whether the last bytes received completed a prompt
  fault

clientVars == <<conn, wire, numprompts, saved, call, buf, ret,
                stream, found, fault>>

Null == "null"
NoCall == [active |-> FALSE]
NoReturn == [rc |-> "none", len |-> 0, user |-> FALSE]
ReturnCodes == {"AF_OK", "AF_TIMEOUT", "AF_ERRNO", "AF_SOCKET", "AF_BUFFER"}
TicksPerSec == TicksPerMs * MsPerSec

Least(a, b) == IF a < b THEN a ELSE b

Init ==
  /\ conn = "none" /\ wire = <<>> /\ numprompts = 0 /\ saved = <<>>
  /\ call = NoCall /\ buf = <<>> /\ ret = NoReturn
  /\ stream = <<>> /\ found = FALSE /\ fault = "none"

(* The bytes the next ones are added to. *)
Unfinished == IF found THEN <<>> ELSE stream

Running == fault = "none"
InRead == Running /\ call.active

-----------------------------------------------------------------------------
(* The server and the network. *)

PeerSend ==
  /\ Running /\ conn = "up"
  /\ \E b \in Byte : wire' = Append(wire, b)
  /\ Len(wire') <= MaxWire /\ Len(Unfinished) + Len(wire') <= MaxStream
  /\ UNCHANGED <<conn, numprompts, saved, call, buf, ret, stream, found, fault>>

PeerCloses ==
  /\ Running /\ conn = "up"
  /\ \/ conn' = "shut" /\ wire' = wire
     \/ conn' = "reset" /\ wire' = <<>>
  /\ UNCHANGED <<numprompts, saved, call, buf, ret, stream, found, fault>>

-----------------------------------------------------------------------------
(* The application, between reads. *)

AtRest == Running /\ ~call.active

(* A failed attempt leaves the socket open, for the next one to use. *)
af_client_connect ==
  /\ AtRest /\ conn \in {"none", "tried"}
  /\ conn' \in {"tried", "up"}
  /\ wire' = <<>> /\ stream' = <<>> /\ found' = FALSE
  /\ UNCHANGED <<numprompts, saved, call, buf, ret, fault>>

(* An application that does not reconnect deletes the client and makes a  *)
(* new one with af_client_new, which keeps nothing back.                  *)
af_client_disconnect ==
  /\ AtRest /\ conn # "none"
  /\ conn' = "none" /\ wire' = <<>>
  /\ saved' = IF Reconnect THEN saved ELSE <<>>
  /\ IF Reconnect THEN UNCHANGED <<stream, found>> ELSE stream' = <<>> /\ found' = FALSE
  /\ UNCHANGED <<numprompts, call, buf, ret, fault>>

ExpectPrompts ==
  /\ AtRest /\ Comport
  /\ numprompts' \in 0..MaxPrompts /\ numprompts' # numprompts
  /\ UNCHANGED <<conn, wire, saved, call, buf, ret, stream, found, fault>>

(* Fault: a timeout of zero is passed on to poll. *)
ReadBeginUnclamped(raw, user, timeout) ==
  /\ AtRest /\ conn \in {"up", "shut", "reset"}
  /\ \E now \in 0..(TicksPerSec - 1) :
       call' = [active |-> TRUE, raw |-> raw, user |-> user,
                len |-> IF raw THEN UserSize ELSE 0,
                timeout |-> timeout, to |-> timeout,
                then |-> now, el |-> 0, waited |-> 0]
  /\ buf' = <<>> /\ ret' = NoReturn
  /\ UNCHANGED <<conn, wire, numprompts, saved, stream, found, fault>>

(* The beginning of both functions.  The caller of the raw one has set    *)
(* *len to the size of its buffer; the other resets *len.                 *)
ReadBegin(raw, user, timeout) ==
  /\ AtRest /\ conn \in {"up", "shut", "reset"}
  /\ \E now \in 0..(TicksPerSec - 1) :
       call' = [active |-> TRUE, raw |-> raw, user |-> user,
                len |-> IF raw THEN UserSize ELSE 0,
                timeout |-> timeout, to |-> IF timeout <= 0 THEN 1 ELSE timeout,
                then |-> now, el |-> 0, waited |-> 0]
  /\ buf' = <<>> /\ ret' = NoReturn
  /\ UNCHANGED <<conn, wire, numprompts, saved, stream, found, fault>>

-----------------------------------------------------------------------------
(* Time.  then is where in its second the clock stood, el what has passed. *)

Ready == wire # <<>> \/ conn \in {"shut", "reset"}

Tick ==
  /\ InRead /\ call.waited < call.to * TicksPerMs
  /\ call' = [call EXCEPT !.el = @ + 1, !.waited = @ + 1]
  /\ UNCHANGED <<conn, wire, numprompts, saved, buf, ret, stream, found, fault>>

(* Division of C, which truncates towards zero. *)
Truncated(a, b) == IF a >= 0 THEN a \div b ELSE -((-a) \div b)

(* Fault: only the place within the second is compared. *)
TimediffInSecond ==
  Truncated(((call.then + call.el) % TicksPerSec) - call.then, TicksPerMs)

(* timediff(now, then): seconds and the rest are subtracted apart. *)
timediff ==
  LET now == call.then + call.el
  IN  (now \div TicksPerSec) * MsPerSec
        + Truncated((now % TicksPerSec) - call.then, TicksPerMs)

Return(rc, len) ==
  /\ call' = NoCall
  /\ ret' = [rc |-> rc, len |-> len, user |-> call.user]

(* The end of the loop: go on, or time out. *)
TimeTest(len) ==
  LET stale == timediff <= 0
      tdiff == IF stale THEN 0 ELSE timediff
      to == call.timeout - tdiff
  IN  \/ /\ tdiff < call.timeout
         /\ call' = [call EXCEPT !.len = len,
                                 !.then = IF stale THEN (@ + call.el) % TicksPerSec ELSE @,
                                 !.el = IF stale THEN 0 ELSE @,
                                 !.to = IF to <= 0 THEN 1 ELSE to,
                                 !.waited = 0]
         /\ ret' = ret
      \/ /\ ~(tdiff < call.timeout)
         /\ Return(IF call.timeout # 0 THEN "AF_TIMEOUT" ELSE "AF_OK", len)

PollTimeout ==
  /\ InRead /\ ~Ready /\ call.waited = call.to * TicksPerMs
  /\ TimeTest(call.len)
  /\ UNCHANGED <<conn, wire, numprompts, saved, buf, stream, found, fault>>

(* poll is interrupted by a signal. *)
PollError ==
  /\ InRead /\ ~Ready
  /\ Return("AF_ERRNO", call.len)
  /\ UNCHANGED <<conn, wire, numprompts, saved, buf, stream, found, fault>>

-----------------------------------------------------------------------------
(* af_client_read_socket and af_client_read_socket_raw. *)

NullLength == ~call.user        \* if ( *len )

(* *pptr is the place in rbuf where the previous call stopped, and the    *)
(* bytes kept back and those received are about to be stored there.       *)
LeftFrame == ~call.raw /\ call.len # 0 /\ (saved # <<>> \/ wire # <<>>)

(* coms->remote or coms->fd with no comport. *)
NullComport ==
  ~Comport /\ \/ conn = "shut" /\ wire = <<>>
              \/ ~call.raw /\ wire # <<>>

ReadFault ==
  /\ InRead /\ Ready
  /\ fault' = CASE NullLength -> "null length"
                [] ~NullLength /\ LeftFrame -> "left frame"
                [] ~NullLength /\ ~LeftFrame /\ NullComport -> "null comport"
                [] OTHER -> "none"
  /\ fault' # "none"
  /\ UNCHANGED <<conn, wire, numprompts, saved, call, buf, ret, stream, found>>

ReadSound == InRead /\ ~NullLength /\ ~LeftFrame /\ ~NullComport

(* The server has closed, or the connection has failed.  poll may report  *)
(* the failure without POLLIN.                                            *)
ReadEnd ==
  /\ ReadSound /\ wire = <<>>
  /\ \/ conn = "shut" /\ Return("AF_SOCKET", call.len)
     \/ conn = "reset" /\ \E rc \in {"AF_ERRNO", "AF_SOCKET"} : Return(rc, call.len)
  /\ UNCHANGED <<conn, wire, numprompts, saved, buf, stream, found, fault>>

(* What recv can store, and the bytes it takes. *)
ReadLimit == RbufSize - 1 - Len(Prompt)
Taken == SubSeq(wire, 1, Least(Len(wire), ReadLimit - Len(saved)))

(* As *len is 0 the bytes go to rbuf, whether or not there is a buffer.   *)
(* Left out: the write of bytes to coms->fd, with those kept back before  *)
(* once more, which is taken not to block; it changes no variable here.   *)
ReadPrompt ==
  LET bytes == saved \o Taken
      d == Detect(bytes)
      full == Len(bytes) >= ReadLimit - 1 - Len(Prompt)
      Rest(len) == \/ full /\ Return("AF_BUFFER", len)
                   \/ ~full /\ TimeTest(len)
  IN  /\ ReadSound /\ ~call.raw /\ wire # <<>>
      /\ wire' = SubSeq(wire, Len(Taken) + 1, Len(wire))
      /\ \/ /\ numprompts > 0 /\ d.found
            /\ Return("AF_OK", call.len + DataLength(bytes, d))
            /\ numprompts' = numprompts - 1
            /\ saved' = d.saved
            /\ stream' = Unfinished \o Taken /\ found' = TRUE
         \/ /\ numprompts > 0 /\ ~d.found
            /\ Rest(call.len + DataLength(bytes, d))
            /\ saved' = d.saved
            /\ stream' = Unfinished \o Taken /\ found' = FALSE
            /\ UNCHANGED numprompts
         \/ /\ numprompts = 0
            /\ Rest(call.len)
            /\ saved' = <<>>
            /\ stream' = <<>> /\ found' = FALSE
            /\ UNCHANGED numprompts
      /\ UNCHANGED <<conn, buf, fault>>

(* Every recv stores at the beginning of the buffer. *)
ReadRaw ==
  LET bytes == SubSeq(wire, 1, Least(Len(wire), UserSize))
  IN  /\ ReadSound /\ call.raw /\ wire # <<>>
      /\ wire' = SubSeq(wire, Len(bytes) + 1, Len(wire))
      /\ buf' = bytes \o SubSeq(buf, Len(bytes) + 1, Len(buf))
      /\ saved' = <<>> /\ stream' = <<>> /\ found' = FALSE
      /\ TimeTest(Len(bytes) + Len(saved))
      /\ UNCHANGED <<conn, numprompts, fault>>
-----------------------------------------------------------------------------
Application ==
  \/ af_client_connect
  \/ af_client_disconnect
  \/ ExpectPrompts
  \/ \E raw \in Raw, user \in Buffers, timeout \in Timeouts :
       ReadBegin(raw, user, timeout)

ReadStep ==
  \/ PollTimeout
  \/ ReadFault
  \/ ReadEnd
  \/ ReadPrompt
  \/ ReadRaw

Next ==
  \/ PeerSend
  \/ PeerCloses
  \/ Application
  \/ Tick
  \/ PollError
  \/ ReadStep

Spec == Init /\ [][Next]_clientVars

(* Time passes, and the thread goes on when its wait is over. *)
FairSpec == Spec /\ WF_clientVars(Tick) /\ WF_clientVars(ReadStep)
-----------------------------------------------------------------------------
(* The variables have their types, and a wait does not exceed its time.   *)
TypeOK ==
  /\ conn \in {"none", "tried", "up", "shut", "reset"}
  /\ wire \in Seq(Byte) /\ Len(wire) <= MaxWire
  /\ numprompts \in 0..MaxPrompts
  /\ saved \in Seq(Byte) /\ Len(saved) <= Len(Prompt)
  /\ call = NoCall \/ /\ call.active /\ call.raw \in Raw /\ call.user \in Buffers
                      /\ call.timeout \in Timeouts
                      /\ call.to \in Positive /\ call.waited \in 0..(call.to * TicksPerMs)
                      /\ call.then \in 0..(TicksPerSec - 1)
                      /\ call.len \in Nat /\ call.el \in Nat
  /\ buf \in Seq(Byte) /\ Len(buf) <= UserSize
  /\ ret.rc \in ReturnCodes \cup {"none"} /\ ret.len \in Nat
  /\ stream \in Seq(Byte) /\ found \in BOOLEAN
  /\ fault \in {"none", "null length", "left frame", "null comport"}

Stream == INSTANCE PromptStream WITH held <- saved, MaxPiece <- MaxWire

(* However the stream is cut into reads, and whatever the timeouts do in  *)
(* between, _af_client_prompt_detect finds the prompt when the stream     *)
(* ends with it and only then, and what is kept back in client->saved is  *)
(* the partial prompt the stream ends with, no byte more or less.         *)
ImplementsStream == Stream!Spec

(* A read comes to an end, be the server never so talkative: the test of  *)
(* the time at the end of the loop of af_client_read_timeout, and of      *)
(* af_client_read_raw_timeout, fails some time.                           *)
ReadEnds == call.active ~> (~call.active \/ fault # "none")

(* What the application is told it has received is in the buffer it gave  *)
(* to af_client_read_timeout.                                             *)
BufferFilled == ret.user => Len(buf) >= ret.len
=============================================================================
