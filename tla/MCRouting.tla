------------------------------ MODULE MCRouting ------------------------------
(* A small instance of Routing for TLC. *)
EXTENDS Routing

\* Circuits on both ports and on port 0 alone; a response goes back where its
\* request came from.
Circuits == [requests |-> {{0}, {0, 1}}, responses |-> {{0}, {1}}]

\* rd_wnitc and dma_w; a read that is done or failed, a write that is done.
Mixed == [requests |-> {16, 32}, responses |-> {4, 5, 8}]

\* A write that failed, too.
WithFailedWrites == [requests |-> {}, responses |-> {4, 9}]
=============================================================================
