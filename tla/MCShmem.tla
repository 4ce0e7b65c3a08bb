------------------------------ MODULE MCShmem ------------------------------
(* Small instances of Shmem for TLC. *)
EXTENDS Shmem

\* The allocation or the device may fail on the memory node,
PoolFaults == {"memalign", "afu_attach"}
\* and the device or the statistics thread on the compute node.
AttachFaults == {"afu_open", "write_seg", "pthread_create"}
=============================================================================
