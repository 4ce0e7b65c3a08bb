----------------------------- MODULE MCLlcLink -----------------------------
(* Small instances of LlcLink for TLC. *)
EXTENDS LlcLink, TLC

CONSTANTS left, right

Pair == {left, right}
BothWays == (left :> 4) @@ (right :> 1)
=============================================================================
