-------------------------------- MODULE Tcli --------------------------------
(***************************************************************************)
(* The program tcli.c: it connects to a server, sends its commands one at  *)
(* a time, each when the prompt after the one before has come, or, if its  *)
(* prompt is empty, logs into a NetLink device with the first command and  *)
(* answers the packets of the device.                                      *)
(*                                                                         *)
(* It is a user of the client section, and the module contains instances   *)
(* of AppfClient: with a comport and an empty prompt for a device, without *)
(* a comport for a server with a prompt, as main sets extra_data.  What    *)
(* those reads return, or that they use a null pointer, is not assumed     *)
(* here but follows from them.                                             *)
(*                                                                         *)
(* sent, taken and start are history: the packets of the device, and where *)
(* in the stream of their bytes the last thing received begins and ends.   *)
(***************************************************************************)
EXTENDS NetLink

CONSTANTS
  DevicePackets, \* what the device may send
  MaxSent,       \* bound: packets it sends
  Segments,      \* the lengths the network cuts their bytes into
  Commands,      \* tcli.cmd.num
  Prompt,        \* the prompt of -p
  ConnectTimos,  \* connect_timo, in milliseconds
  Outlets,       \* outlets ProcessPing asks for, 8 in the code
  PingCommand,
  RbufSize, UserSize, TicksPerMs, MsPerSec, MaxWire     \* of AppfClient

VARIABLES
  conn, wire, numprompts, saved, call, buf, ret, stream, found, fault,
  mode,         \* "netlink" or "prompt"
  pc,
  busy, current, bailout,
  uplink,       \* whether what has been sent ends with a whole packet
  sent, taken, start,
  place, len,   \* tempbuf and templen of process_NetLink_message
  frame,        \* what was in the memory of buf before this event
  done          \* packets of this record that have been acted on

clientVars == <<conn, wire, numprompts, saved, call, buf, ret, stream, found, fault>>
tcliVars == <<mode, pc, busy, current, bailout, uplink, sent, taken, start,
              place, len, frame, done>>
vars == <<clientVars, tcliVars>>

NetRead == INSTANCE AppfClient
  WITH Prompt <- <<>>, Comport <- TRUE, Raw <- {TRUE}, Buffers <- {TRUE},
       Timeouts <- {1}, Reconnect <- FALSE, MaxPrompts <- 0, MaxStream <- MaxWire
PromptRead == INSTANCE AppfClient
  WITH Comport <- FALSE, Raw <- {FALSE}, Buffers <- BOOLEAN,
       Timeouts <- {1} \cup ConnectTimos, Reconnect <- FALSE, MaxPrompts <- 0,
       MaxStream <- MaxWire

ASSUME TcliAssumption ==
  /\ DevicePackets \subseteq Packet /\ PingCommand \in Known
  /\ Segments \subseteq Nat \ {0}
  /\ MaxSent \in Nat /\ Commands \in Nat /\ Outlets \in Nat
  /\ ConnectTimos \subseteq Nat
  /\ Prompt \in Seq(Byte) /\ RbufSize \in Nat /\ RbufSize > 2 * Len(Prompt) + 1
  /\ {UserSize, TicksPerMs, MsPerSec, MaxWire} \subseteq Nat \ {0}

Ended == {"exit 0", "exit 1", "aborted"}
InLoop == {"loop", "event", "process", "turn"}
Alive == pc \notin Ended /\ fault = "none"
SendCodes == {"AF_OK", "AF_TIMEOUT", "AF_ERRNO", "AF_SOCKET"}

Init ==
  /\ NetRead!Init
  /\ mode \in {"netlink", "prompt"} /\ pc = "start"
  /\ busy = FALSE /\ current = 0 /\ bailout = FALSE /\ uplink = "framed"
  /\ sent = <<>> /\ taken = 0 /\ start = 0
  /\ place = 0 /\ len = 0 /\ frame = <<>> /\ done = <<>>

-----------------------------------------------------------------------------
(* The device, or the server, and the network.                            *)

DeviceStream == FlattenSeq([i \in DOMAIN sent |-> Encode(sent[i])])

Undelivered ==
  SubSeq(DeviceStream, taken + Len(wire) + 1, Len(DeviceStream))

(* No packet is chosen before its first byte can arrive. *)
DeviceSends ==
  /\ Alive /\ conn = "up" /\ Len(sent) < MaxSent /\ Undelivered = <<>>
  /\ \E p \in DevicePackets : sent' = Append(sent, p)
  /\ UNCHANGED <<clientVars, mode, pc, busy, current, bailout, uplink, taken, start,
                 place, len, frame, done>>

(* A segment arrives; those that no read comes between are one piece.     *)
Deliver ==
  /\ Alive /\ conn = "up"
  /\ Undelivered # <<>>
  /\ \E n \in Segments : wire' = wire \o SubSeq(Undelivered, 1, Min({n, Len(Undelivered)}))
  /\ Len(wire') <= MaxWire
  /\ UNCHANGED <<conn, numprompts, saved, call, buf, ret, stream, found, fault, tcliVars>>

DeviceCloses == Alive /\ NetRead!PeerCloses /\ UNCHANGED tcliVars

-----------------------------------------------------------------------------
(* Sending, without waiting: af_client_send and af_client_send_raw.  All   *)
(* of it goes out, nothing, or a part, which cannot be taken back.         *)
After(up, rc) ==
  CASE rc = "AF_OK" -> IF up = "framed" THEN "framed" ELSE "garbled"
    [] rc = "AF_SOCKET" -> IF up = "framed" THEN "fragment" ELSE "garbled"
    [] OTHER -> up

(* send_tcli_command, send_NetLink_command. *)
Send(rc) ==
  /\ uplink' = After(uplink, rc)
  /\ busy' = (busy \/ rc = "AF_OK")

-----------------------------------------------------------------------------
(* main, up to its loop. *)

Connect ==
  /\ Alive /\ pc = "start"
  /\ NetRead!af_client_connect
  /\ pc' = IF conn' = "up" THEN "connected" ELSE "exit 1"
  /\ UNCHANGED <<mode, busy, current, bailout, uplink, sent, taken, start, place, len,
                 frame, done>>

(* Fault: whether the login went out is not looked at. *)
LoginUnchecked ==
  /\ Alive /\ pc = "connected" /\ mode = "netlink"
  /\ \E rc \in SendCodes : Send(rc) /\ pc' = "loop"
  /\ UNCHANGED <<clientVars, mode, current, bailout, sent, taken, start, place, len,
                 frame, done>>

(* The login, which is the first command. *)
send_NetLink_login ==
  /\ Alive /\ pc = "connected" /\ mode = "netlink"
  /\ \E rc \in SendCodes : Send(rc) /\ pc' = IF rc = "AF_OK" THEN "loop" ELSE "exit 1"
  /\ UNCHANGED <<clientVars, mode, current, bailout, sent, taken, start, place, len,
                 frame, done>>

(* Without a buffer and without a length. *)
af_client_get_prompt ==
  /\ Alive /\ pc = "connected" /\ mode = "prompt"
  /\ \E timo \in ConnectTimos : PromptRead!ReadBegin(FALSE, FALSE, timo)
  /\ pc' = "prompt"
  /\ UNCHANGED <<mode, busy, current, bailout, uplink, sent, taken, start, place, len,
                 frame, done>>

(* The first command, if the read has ended well. *)
PromptResult ==
  /\ Alive /\ pc = "prompt" /\ ~call.active
  /\ \/ /\ ret.rc = "AF_OK"
        /\ \E rc \in SendCodes : Send(rc) /\ pc' = IF rc = "AF_OK" THEN "loop" ELSE "exit 1"
     \/ /\ ret.rc # "AF_OK"
        /\ pc' = "exit 1" /\ UNCHANGED <<busy, uplink>>
  /\ UNCHANGED <<clientVars, mode, current, bailout, sent, taken, start, place, len,
                 frame, done>>

-----------------------------------------------------------------------------
(* The steps of a read, and the time it waits. *)

Reading == Alive /\ call.active

ReadStep ==
  /\ Reading
  /\ \/ mode = "netlink" /\ NetRead!ReadStep
     \/ mode = "prompt" /\ PromptRead!ReadStep
  /\ taken' = taken + Len(wire) - Len(wire')
  /\ start' = IF taken' = taken THEN start ELSE taken
  /\ UNCHANGED <<mode, pc, busy, current, bailout, uplink, sent, place, len, frame, done>>

Tick == Reading /\ NetRead!Tick /\ UNCHANGED tcliVars

(* sig_handler.  A signal may cut the wait of a read short. *)
Signal ==
  /\ Alive
  /\ \/ /\ bailout /\ pc' = "aborted" /\ bailout' = bailout
        /\ UNCHANGED clientVars
     \/ /\ ~bailout /\ bailout' = TRUE /\ pc' = pc
        /\ \/ UNCHANGED clientVars
           \/ NetRead!PollError
  /\ UNCHANGED <<mode, busy, current, uplink, sent, taken, start, place, len, frame, done>>

-----------------------------------------------------------------------------
(* handle_server_socket_event *)

(* Fault: a read does not begin at the start of buf. *)
MemoryBehind == frame \o buf

(* buf lies where it lay in the last event: it holds what was there then,  *)
(* or other calls have used the memory meanwhile.                          *)
Memory == buf \o SubSeq(frame, Len(buf) + 1, Len(frame))

Event ==
  /\ Alive /\ pc = "loop" /\ NetRead!Ready
  /\ \/ mode = "netlink" /\ NetRead!ReadBegin(TRUE, TRUE, 1)
     \/ mode = "prompt" /\ PromptRead!ReadBegin(FALSE, TRUE, 1)
  /\ frame' \in {Memory, <<>>}
  /\ pc' = "event"
  /\ UNCHANGED <<mode, busy, current, bailout, uplink, sent, taken, start, place, len,
                 done>>

(* Fault: the end of the connection is not noted. *)
EventResultDeaf ==
  /\ Alive /\ pc = "event" /\ ~call.active
  /\ len' = IF ret.rc \in {"AF_SOCKET", "AF_ERRNO"} THEN 0 ELSE ret.len
  /\ bailout' = (bailout \/ ret.rc = "AF_ERRNO")
  /\ busy' = (busy /\ ret.rc # "AF_OK")
  /\ current' = IF ret.rc = "AF_OK" THEN current + 1 ELSE current
  /\ pc' = IF len' > 0 /\ mode = "netlink" THEN "process" ELSE "turn"
  /\ UNCHANGED <<clientVars, mode, uplink, sent, taken, start, place, frame, done>>

(* The result of the read. *)
EventResult ==
  LET lost == ret.rc \in {"AF_SOCKET", "AF_ERRNO"}
  IN  /\ Alive /\ pc = "event" /\ ~call.active
      /\ len' = IF lost THEN 0 ELSE ret.len
      /\ bailout' = (bailout \/ lost)
      /\ busy' = (busy /\ ret.rc # "AF_OK")
      /\ current' = IF ret.rc = "AF_OK" THEN current + 1 ELSE current
      /\ pc' = IF len' > 0 /\ mode = "netlink" THEN "process" ELSE "turn"
      /\ UNCHANGED <<clientVars, mode, uplink, sent, taken, start, place, frame, done>>

-----------------------------------------------------------------------------
(* process_NetLink_message, one packet at a time.                         *)

Processing == Alive /\ pc = "process"

(* A positive result of the decoder, or a packet that is not understood:  *)
(* the rest of the record is dropped.                                     *)
DropRecord ==
  /\ Processing
  /\ Bad(Memory, place, len) \/ Rejected(Memory, place)
  /\ pc' = "turn"
  /\ UNCHANGED <<clientVars, mode, busy, current, bailout, uplink, sent, taken, start,
                 place, len, frame, done>>

(* A ping is answered with a pong, and ProcessPing asks for the outlets;  *)
(* the results of these sends are not looked at.                          *)
Replies(p) == IF p.command = PingCommand /\ p.sub = 1 THEN 1 + Outlets ELSE 0

HandlePacket ==
  LET p == Decoded(Memory, place)
  IN  /\ Processing
      /\ ~Bad(Memory, place, len) /\ ~Rejected(Memory, place)
      /\ done' = Append(done, p)
      /\ \E rcs \in [1..Replies(p) -> SendCodes] :
           /\ uplink' = FoldLeft(After, uplink, rcs)
           /\ busy' = (busy \/ \E i \in DOMAIN rcs : rcs[i] = "AF_OK")
      /\ \/ /\ More(Memory, place, len)
            /\ place' = NextPlace(Memory, place)
            /\ len' = len - (place' - place)
            /\ UNCHANGED pc
         \/ /\ ~More(Memory, place, len)
            /\ pc' = "turn" /\ UNCHANGED <<place, len>>
      /\ UNCHANGED <<clientVars, mode, current, bailout, sent, taken, start, frame>>

-----------------------------------------------------------------------------
(* main_loop, after af_poll_run has called the handler or has waited in    *)
(* vain: the next command if none is under way, and the test of bailout.   *)

MayTurn == pc = "turn" \/ (pc = "loop" /\ ~NetRead!Ready)

MainLoopTurn ==
  /\ Alive /\ MayTurn
  /\ \E rc \in SendCodes :
       LET over == ~busy /\ current = Commands
           fails == ~busy /\ rc # "AF_OK"
       IN  /\ pc' = IF over THEN "exit 0" ELSE IF fails \/ bailout THEN "exit 1" ELSE "loop"
           /\ IF busy \/ over THEN UNCHANGED <<busy, uplink>> ELSE Send(rc)
  /\ place' = 0 /\ len' = 0 /\ done' = <<>> /\ start' = taken
  /\ UNCHANGED <<clientVars, mode, current, bailout, sent, taken, frame>>
-----------------------------------------------------------------------------
Program ==
  \/ Connect
  \/ send_NetLink_login
  \/ af_client_get_prompt
  \/ PromptResult
  \/ ReadStep
  \/ Event
  \/ EventResult
  \/ DropRecord
  \/ HandlePacket
  \/ MainLoopTurn

Next ==
  \/ DeviceSends
  \/ Deliver
  \/ DeviceCloses
  \/ Program
  \/ Tick
  \/ Signal

Spec == Init /\ [][Next]_vars

(* The program goes on when it is not waiting, and time passes.            *)
FairSpec == Spec /\ WF_vars(Program) /\ WF_vars(Tick)
-----------------------------------------------------------------------------
(* The variables have their types. *)
TypeOK ==
  /\ NetRead!TypeOK \/ PromptRead!TypeOK
  /\ mode \in {"netlink", "prompt"}
  /\ pc \in Ended \cup InLoop \cup {"start", "connected", "prompt"}
  /\ busy \in BOOLEAN /\ bailout \in BOOLEAN /\ current \in 0..Commands
  /\ uplink \in {"framed", "fragment", "garbled"}
  /\ sent \in Seq(DevicePackets) /\ taken \in Nat /\ start \in 0..taken
  /\ place \in Nat /\ len \in Int
  /\ frame \in Seq(Byte) /\ Len(frame) <= UserSize
  /\ done \in Seq(Packet)

(* Once main_loop has begun a command stays under way: no read ends with   *)
(* AF_OK, the one that looks for a prompt as it never returns, the raw one *)
(* as its timeout is not zero.  So the first command is the only one that  *)
(* is sent, and the program does not end with status 0.                    *)
OneCommand == (pc \in InLoop => busy) /\ current = 0 /\ pc # "exit 0"

(* What the usage text and main_loop say: the commands are sent one after  *)
(* the other, so when a device has answered, with more than a ping, the    *)
(* program goes on to the next command or ends.  OneCommand tells why the  *)
(* code does not.                                                          *)
NextCommandSent ==
  pc = "turn" /\ (\E i \in DOMAIN done : done[i].command # PingCommand)
    ~> current > 0 \/ ~Alive

Understood(p) ==
  IF p.command = Nack THEN p.data # <<>> /\ Head(p.data) \in KnownErrors
  ELSE p.command \in Known

StreamPlace(i) == Len(FlattenSeq([k \in 1..i |-> Encode(sent[k])]))

(* A record that begins and ends where packets do, however many they are   *)
(* and whatever the records before it were, has its packets acted on in    *)
(* order, each once.  Packets are left out behind one that is not          *)
(* understood, and behind one after which a multiple of ByteMod bytes      *)
(* follows: the length byte then agrees with that of the record.           *)
RecordExact ==
  pc \in {"process", "turn"} /\ len # 0 =>
    \A i, j \in 0..Len(sent) :
      i < j /\ StreamPlace(i) = start /\ StreamPlace(j) = taken =>
        LET batch == SubSeq(sent, i + 1, j)
            left == j - i - Len(done)
        IN  /\ IsPrefix(done, batch)
            /\ pc = "turn" /\ left > 0 =>
                 \/ ~Understood(batch[Len(done) + 1])
                 \/ (taken - StreamPlace(j - left)) % ByteMod = 0

(* A command that goes out only in part ends the program; only the answers *)
(* to a ping, whose results nobody looks at, can leave the device with a   *)
(* piece of a packet and the program in its loop.                          *)
TornByAnswer ==
  pc \in InLoop /\ uplink # "framed" => \E i \in DOMAIN sent : Replies(sent[i]) > 0

(* A signal, or the end of the connection, ends the program, also while a  *)
(* command is under way.                                                   *)
EndsWhenTold == bailout \/ conn \in {"shut", "reset"} ~> ~Alive
=============================================================================
