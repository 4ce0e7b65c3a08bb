--------------------------- MODULE MCMemoryEgress ---------------------------
(* Small instances of MemoryEgress for TLC. *)
EXTENDS MemoryEgress, TLC

CONSTANTS w1, r1, r2

\* A write and a read of 128 bytes, and a read that the host may answer in halves.
Lengths == (w1 :> 2) @@ (r1 :> 2) @@ (r2 :> 3)
=============================================================================
