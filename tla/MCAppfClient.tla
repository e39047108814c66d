---------------------------- MODULE MCAppfClient ----------------------------
(* Prompts for TLC.  The first overlaps itself: behind "a" and "a" another *)
(* "a" leaves two bytes to keep back, not three and not none.              *)
EXTENDS AppfClient

CONSTANTS a, b

PromptAAB == <<a, a, b>>
PromptA == <<a>>
=============================================================================
