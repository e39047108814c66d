---------------------------- MODULE PromptStream ----------------------------
(***************************************************************************)
(* What prompt detection promises, said of the stream as a whole and not   *)
(* of the pieces it is received in: the prompt is found when, and only     *)
(* when, the bytes received since the last one end with it; of the others  *)
(* as few as possible are kept back, those a prompt may begin with.        *)
(***************************************************************************)
EXTENDS Naturals, SequencesExt

CONSTANTS Byte, Prompt,
          MaxPiece      \* bound: bytes received at a time

VARIABLES stream,       \* received since a prompt was last found, or up to one
          held,         \* the end of it the application has not been given
          found         \* whether the last bytes completed a prompt

vars == <<stream, held, found>>

Piece == UNION {[1..n -> Byte] : n \in 1..MaxPiece}

(* The longest end of s that is a proper beginning of the prompt. *)
Partial(s) ==
  LET lengths == {k \in 0..(Len(Prompt) - 1) : IsSuffix(SubSeq(Prompt, 1, k), s)}
  IN  SubSeq(Prompt, 1, Max(lengths))

Init == stream = <<>> /\ held = <<>> /\ found = FALSE

Receive(p) ==
  /\ stream' = (IF found THEN <<>> ELSE stream) \o p
  /\ found' = IsSuffix(Prompt, stream')
  /\ held' = IF found' THEN <<>> ELSE Partial(stream')

(* A new connection, or bytes received while no prompt is expected. *)
StartOver == stream' = <<>> /\ held' = <<>> /\ found' = FALSE

Next == StartOver \/ \E p \in Piece : Receive(p)

Spec == Init /\ [][Next]_vars
=============================================================================
