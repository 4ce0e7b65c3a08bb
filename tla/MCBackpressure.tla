--------------------------- MODULE MCBackpressure ---------------------------
(* A small instance of Backpressure for TLC. *)
EXTENDS Backpressure

\* Reads whose response is long, and writes that are long themselves: the writes
\* use up the credits of the compute end, and the responses to all of them, five
\* flits, leave the memory end one.
OpenRequests == [read |-> 1, write |-> 2]
=============================================================================
