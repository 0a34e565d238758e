---------------------------- MODULE MCAiScoring ----------------------------
(* Model-checking instances of AiScoring. *)
EXTENDS AiScoring

CONSTANTS s1, s2, p1, p2
MCCallers == {s1, s2, p1, p2}
BothProviders == {"claude", "gpt"}
=============================================================================
