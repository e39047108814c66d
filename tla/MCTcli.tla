------------------------------- MODULE MCTcli -------------------------------
(* A device for TLC, with bytes of sixteen values: packets of seven, eight *)
(* and sixteen bytes, so that a multiple of sixteen bytes may follow one.  *)
EXTENDS Tcli

Message(command, sub, data) ==
  [dest |-> 0, command |-> command, sub |-> sub, data |-> data]

SomePackets ==
  { Message(1, 1, <<>>),                 \* ping
    Message(2, 10, <<3>>),               \* an error report
    Message(2, 10, <<1>>),               \* one that is not understood
    Message(9, 1, [i \in 1..9 |-> 1]) }  \* a command that is not understood

OnePrompt == <<0>>
=============================================================================
