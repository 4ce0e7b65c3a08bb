-------------------------- MODULE MCDisaggregation --------------------------
(* Small instances of Disaggregation for TLC. *)
EXTENDS Disaggregation

ASSUME PortCodec == PortsRoundTrip /\ CliPortsArrive

\* The memory side may fail to attach to the AFU after it has allocated.
LenderFaults == {"afu_attach"}
\* On the compute side the segment may not be written, the statistics thread may
\* not start, a block may be missing or not open, and the agent may be stopped; but
\* every block that can be opened takes what is written to it.
BorrowerFaults == {"write_seg", "pthread_create", "probe", "access", "sigterm"}
\* The kernel may refuse to take a block offline, because its pages are in use.
RefusingKernel == {"offline"}
=============================================================================
