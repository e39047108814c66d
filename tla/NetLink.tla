------------------------------- MODULE NetLink -------------------------------
(***************************************************************************)
(* The packets tcli.c exchanges with a NetLink device: header, length,     *)
(* destination, command, sub-command, data, checksum, tail.  The length    *)
(* counts destination, command, sub-command and data.  Nothing in a packet *)
(* is escaped, and bytes are ByteMod values, 256 in the code.              *)
(*                                                                         *)
(* A record is what one read has brought: len bytes from the place at of   *)
(* the memory they are in.  Places count from 0, as in C, and what is      *)
(* behind the bytes of the record is in memory too.                        *)
(***************************************************************************)
EXTENDS Integers, SequencesExt

CONSTANTS
  ByteMod,      \* values of an unsigned char
  Nack,         \* command of an error report
  KnownErrors,  \* the error numbers it may give
  Known         \* the other commands process_NetLink_message has a case for

Byte == 0..(ByteMod - 1)
HeaderByte == ByteMod - 2
TailByte == ByteMod - 1
SumMod == ByteMod \div 2

ASSUME NetLinkAssumption ==
  /\ ByteMod \in Nat /\ ByteMod >= 16 /\ ByteMod % 2 = 0
  /\ Nack \in Byte /\ KnownErrors \subseteq Byte /\ Known \subseteq Byte

Packet == [dest : Byte, command : Byte, sub : Byte, data : Seq(Byte)]

Sum(bytes) == FoldLeft(+, 0, bytes)

(* The bytes the checksum is over. *)
Body(p) ==
  <<HeaderByte, (Len(p.data) + 3) % ByteMod, p.dest, p.command, p.sub>> \o p.data

(* send_NetLink_command *)
Encode(p) == Body(p) \o <<Sum(Body(p)) % SumMod, TailByte>>

-----------------------------------------------------------------------------
(* The byte at a place; what is behind the memory modelled is no packet.  *)
At(mem, i) == IF i + 1 \in DOMAIN mem THEN mem[i + 1] ELSE 0

Piece(mem, i, n) == [k \in 1..n |-> At(mem, i + k - 1)]

(* packetsize: where in the packet the checksum is. *)
SumPlace(mem, at) == At(mem, at + 1) + 2

(* The length is unsigned: one below zero is not less than the minimum.   *)
TooShort(len) == len \in 0..6

(* decode_NetLink_command returns a positive value. *)
Bad(mem, at, len) ==
  LET n == SumPlace(mem, at)
  IN  \/ TooShort(len)
      \/ Sum(Piece(mem, at, n)) % SumMod # At(mem, at + n)
      \/ At(mem, at) # HeaderByte
      \/ At(mem, at + n + 1) # TailByte

(* It sets *nextpacket: the length byte is not that of the whole record.  *)
More(mem, at, len) == At(mem, at + 1) # (len - 4) % ByteMod

(* Fault: the checksum is not skipped. *)
NextPlaceShort(mem, at) == at + SumPlace(mem, at) + 1

NextPlace(mem, at) == at + SumPlace(mem, at) + 2

Decoded(mem, at) ==
  [dest |-> At(mem, at + 2), command |-> At(mem, at + 3), sub |-> At(mem, at + 4),
   data |-> Piece(mem, at + 5, At(mem, at + 1) - 3)]

(* The first byte behind the sub-command, be it data or the checksum.     *)
Envelope(mem, at) == At(mem, at + 5)

(* process_NetLink_message returns -99 on the packet. *)
Rejected(mem, at) ==
  LET command == At(mem, at + 3)
  IN  IF command = Nack THEN Envelope(mem, at) \notin KnownErrors
      ELSE command \notin Known
=============================================================================
