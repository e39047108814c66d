---------------------------- MODULE PromptDetect ----------------------------
(***************************************************************************)
(* _af_client_prompt_detect of appf_client.c: looks for the prompt of the  *)
(* server at the end of the bytes a client has at hand, and says how many  *)
(* of the last bytes to keep back because a prompt may begin with them.    *)
(***************************************************************************)
EXTENDS Naturals, Sequences

CONSTANTS Byte,     \* what a stream is made of
          Prompt    \* client->prompt

ASSUME PromptAssumption == Prompt \in Seq(Byte)

(* The last n bytes of s. *)
LastOf(s, n) == SubSeq(s, Len(s) - n + 1, Len(s))

(* The bytes the function looks at: as many as the prompt has, if there are. *)
Window(buf) ==
  LastOf(buf, IF Len(buf) >= Len(Prompt) THEN Len(Prompt) ELSE Len(buf))

(* All bytes of w behind the first k agree with the prompt. *)
MatchesFrom(w, k) == \A i \in 1..(Len(w) - k) : w[k + i] = Prompt[i]

(* Where the outer loop stops; at the end of w if nothing matches. *)
FirstMatch(w) ==
  CHOOSE k \in 0..Len(w) : /\ MatchesFrom(w, k)
                           /\ \A j \in 0..(k - 1) : ~MatchesFrom(w, j)

(* Fault: a window that begins like the prompt is taken for the prompt. *)
DetectShort(buf) ==
  LET w == Window(buf)
      k == FirstMatch(w)
  IN  [found |-> k = 0, saved |-> IF k = 0 THEN <<>> ELSE LastOf(w, Len(w) - k)]

(* Whether the whole prompt was found, and the bytes kept back if not. *)
Detect(buf) ==
  LET w == Window(buf)
      k == FirstMatch(w)
      found == k = 0 /\ Len(w) = Len(Prompt)
  IN  [found |-> found,
       saved |-> IF found THEN <<>> ELSE LastOf(w, Len(w) - k)]

(* How many bytes of buf are data for the application: *len on return. *)
DataLength(buf, d) ==
  Len(buf) - (IF d.found THEN Len(Prompt) ELSE Len(d.saved))

=============================================================================
