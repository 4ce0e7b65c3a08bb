------------------------------- MODULE Shmem -------------------------------
(***************************************************************************)
(* libtfshmem: memory shared by a process on the memory node and one on    *)
(* the compute node.  Each process links the library, which calls the      *)
(* handlers of libthymesisflow directly (here: an instance of Agent inside *)
(* each process, of which it uses the one circuit "0x1" and no hotplug).   *)
(* The memory process allocates a pool and carves buffers from it; the     *)
(* compute process maps them through /dev/tfshmem at their offset in the   *)
(* pool.  The two applications exchange addresses by means of their own.   *)
(*                                                                         *)
(* Each function of tf_shmem_api.h is an action.  What the applications    *)
(* are assumed to do is what the test programs do and the README asks for: *)
(* they map a buffer only after tf_compute_init said ATTACH_OK, and the    *)
(* memory side ends its pool only when the other side has unmapped the     *)
(* buffers.  How many pools a process makes and how much it asks of them   *)
(* is up to it: the allocator compares nothing with the size of the pool.  *)
(*                                                                         *)
(* Sizes and addresses are in fractions of a page.  0 is NULL.             *)
(***************************************************************************)
EXTENDS Integers, FiniteSets

CONSTANTS
    Page,           \* PAGE_SIZE in units of sizes
    MaxPool,        \* bound: the largest pool
    MaxLends,       \* bound: connection structs made by the memory process
    MaxBorrows,     \* bound: connection structs made by the compute process
    MaxAllocs,      \* bound: calls of tf_buffer_alloc in the life of a memory process
    MemoryFaults,   \* what may fail in attach_memory,
    ComputeFaults,  \* in attach_compute,
    LockMayFail     \* mlock may fail in tf_buffer_map

ASSUME ShmemAssumption ==
    /\ {Page, MaxPool, MaxLends, MaxBorrows, MaxAllocs} \subseteq Nat \ {0}
    /\ LockMayFail \in BOOLEAN

VARIABLES
    mconns, morphans, mheap, msysmem, mregs, mmade, malive, mreply,  \* memory process
    cconns, corphans, cheap, csysmem, cregs, cmade, calive, creply,  \* compute process
    mstate,     \* `state' of tf_shmem.c in the memory process
    cstate,     \* and in the compute process
    mm,         \* base_address and next of custom_mm.c, in the memory process
    buffers,    \* buffers the memory application holds
    allocs,     \* its calls of tf_buffer_alloc
    failed,     \* a tf_memory_init of it failed, and no teardown has ended that
    retries,    \* its calls of tf_memory_init while that was so
    told,       \* the pool for which tf_compute_init said ATTACH_OK, 0 if none
    windows     \* mappings in the address space of the compute process

Cid == "0x1"
Afu == "IBM,RMEM"

\* posix_memalign returns the pools at addresses far enough from each other.
Stride == Page * (MaxPool + 1)
Base(uid) == uid * Stride

M == INSTANCE Agent WITH
       Circuits <- {Cid}, Afus <- {Afu}, Ports <- {1}, Addrs <- {}, NBlocks <- MaxPool,
       Sides <- {"memory"}, MaxConns <- MaxLends, Faults <- MemoryFaults,
       clist <- mconns, orphans <- morphans, heap <- mheap, sysmem <- msysmem,
       regs <- mregs, made <- mmade, alive <- malive, reply <- mreply

C == INSTANCE Agent WITH
       Circuits <- {Cid}, Afus <- {Afu}, Ports <- {2}, NBlocks <- MaxPool,
       Addrs <- {Base(u) : u \in 1..MaxLends},
       Sides <- {"compute"}, MaxConns <- MaxBorrows, Faults <- ComputeFaults,
       clist <- cconns, orphans <- corphans, heap <- cheap, sysmem <- csysmem,
       regs <- cregs, made <- cmade, alive <- calive, reply <- creply

memoryAgent  == <<mconns, morphans, mheap, msysmem, mregs, mmade, malive, mreply>>
computeAgent == <<cconns, corphans, cheap, csysmem, cregs, cmade, calive, creply>>
memorySide   == <<memoryAgent, mstate, mm, buffers, allocs, failed, retries>>
computeSide  == <<computeAgent, cstate, told, windows>>
vars         == <<memorySide, computeSide>>

NoState == [ea |-> 0, poolSize |-> 0, memoryNode |-> -1]
NoMm    == [base |-> 0, next |-> 0]

IsInitialized(state) == state.memoryNode # -1

\* The address of a window's buffer in the memory process, and where a load of the
\* compute process really goes: the module adds the offset to the physical base, and
\* the card replaces that base by the address in the segment register.
Reached(w) == cregs[Afu].seg0.ea + w.offset

Held == {w \in windows : w.held}

-----------------------------------------------------------------------------
(* The allocator, custom_mm.c.                                             *)

\* ALIGN(size, PAGE_SIZE)
Aligned(size) == ((size + Page - 1) \div Page) * Page

\* Mutant of CustomMalloc: the first buffer does not move `next'.
CustomMallocFirst(m, size) ==
    IF m.next = 0 THEN [ret |-> m.base, next |-> m.base]
                  ELSE [ret |-> m.next, next |-> m.next + Aligned(size)]

\* custom_malloc: a pointer that only moves up, from base_address at first
CustomMalloc(m, size) ==
    LET ret == IF m.next = 0 THEN m.base ELSE m.next
    IN  [ret |-> ret, next |-> ret + Aligned(size)]

\* init_custom_mm leaves `next' as it is.
InitCustomMm(m, base) == [m EXCEPT !.base = base]

-----------------------------------------------------------------------------
(* The memory process.                                                     *)

\* The process is gone, and its static variables with it.
MemoryProcessEnds ==
    /\ mstate' = NoState /\ mm' = NoMm /\ buffers' = {} /\ allocs' = 0
    /\ failed' = FALSE /\ retries' = 0

\* tf_memory_init.  The pool goes into the state only on success; the connection
\* that a failed attach_memory has registered stays registered.
TfMemoryInit(size) ==
    /\ malive /\ ~IsInitialized(mstate)
    /\ M!AttachMemory(Cid, Afu, size)
    /\ IF mreply'.status = "ATTACH_OK"
       THEN /\ mstate' = [ea |-> Base(mreply'.ea), poolSize |-> size, memoryNode |-> 1]
            /\ mm' = InitCustomMm(mm, mstate'.ea)
            /\ failed' = failed
       ELSE failed' = TRUE /\ UNCHANGED <<mstate, mm>>
    /\ retries' = IF failed THEN retries + 1 ELSE retries
    /\ UNCHANGED <<buffers, allocs, computeSide>>

\* tf_buffer_alloc on the memory node
TfBufferAlloc(size) ==
    /\ malive /\ allocs < MaxAllocs
    /\ mstate.memoryNode = 1
    /\ size # 0
    /\ LET got == CustomMalloc(mm, size) IN
       /\ mm' = [mm EXCEPT !.next = got.next]
       /\ buffers' = buffers \cup {[ea |-> got.ret, size |-> size]}
    /\ allocs' = allocs + 1
    /\ UNCHANGED <<memoryAgent, mstate, failed, retries, computeSide>>

\* tf_buffer_free: custom_free does nothing, the pages are not used again.
TfBufferFree(b) ==
    /\ malive /\ mstate.memoryNode = 1
    /\ \A w \in Held : w.buffer # b
    /\ buffers' = buffers \ {b}
    /\ UNCHANGED <<memoryAgent, mstate, mm, allocs, failed, retries, computeSide>>

MemoryDetach ==
    IF M!Matches(mconns, Cid) = {} THEN M!MissingCircuit("memory_detach", Cid)
                                   ELSE M!DetachMemory(Cid)

\* tf_shmem_teardown on the memory node, which a bad free may end
TfMemoryTeardown ==
    /\ malive /\ mstate.memoryNode = 1
    /\ Held = {}
    /\ MemoryDetach
    /\ IF ~malive' THEN MemoryProcessEnds
       ELSE /\ IF mreply'.status = "DETACH_OK"
               THEN mstate' = NoState /\ buffers' = {} /\ failed' = FALSE
               ELSE UNCHANGED <<mstate, buffers, failed>>
            /\ UNCHANGED <<mm, allocs, retries>>
    /\ UNCHANGED computeSide

\* The memory application exits, without a teardown, as test_memory.c does.
MemoryExit ==
    /\ malive /\ Held = {}
    /\ M!Die
    /\ MemoryProcessEnds
    /\ UNCHANGED <<msysmem, mregs, mmade, mreply, computeSide>>

MemoryStart ==
    M!Start /\ UNCHANGED <<mstate, mm, buffers, allocs, failed, retries, computeSide>>

-----------------------------------------------------------------------------
(* The compute process.                                                    *)

ComputeProcessEnds == cstate' = NoState /\ told' = 0 /\ windows' = {}

\* Mutant of NewComputeState: the size is noted, the address is not.
NewComputeStateSize(ea, size) == [ea |-> 0, poolSize |-> size, memoryNode |-> 0]

NewComputeState(ea, size) == [ea |-> ea, poolSize |-> size, memoryNode |-> 0]

\* tf_get_pool_ea: NULL unless the pool is there
TfGetPoolEa == IF mstate.memoryNode = 1 THEN mstate.ea ELSE 0

\* tf_compute_init with the address that the memory application sent.  The state is
\* written whatever attach_compute returned.
TfComputeInit ==
    /\ calive /\ ~IsInitialized(cstate)
    /\ TfGetPoolEa # 0
    /\ C!AttachCompute(Cid, Afu, 2, TfGetPoolEa, mstate.poolSize, TRUE)
    /\ cstate' = NewComputeState(TfGetPoolEa, mstate.poolSize)
    /\ told' = IF creply'.status = "ATTACH_OK" THEN TfGetPoolEa ELSE 0
    /\ UNCHANGED <<windows, memorySide>>

\* The offset of a buffer from the start of the pool.
BufOffset(state, ea) == ea - state.ea

\* tf_buffer_map, with _buf_map_mmap and tfshmem_mmap: a window at an offset in whole
\* pages.  When mlock fails the mapping stays although the caller gets NULL; when
\* open or mmap fails nothing has happened.
TfBufferMap(b) ==
    /\ calive /\ cstate.memoryNode = 0
    /\ told # 0 /\ told = TfGetPoolEa
    /\ LET offset == BufOffset(cstate, b.ea) IN
       /\ offset >= 0 /\ offset % Page = 0
       /\ \E held \in {TRUE, ~LockMayFail} :
            windows' = windows \cup {[buffer |-> b, offset |-> offset, held |-> held]}
    /\ UNCHANGED <<memorySide, computeAgent, cstate, told>>

\* tf_buffer_unmap
TfBufferUnmap(w) ==
    /\ calive /\ cstate.memoryNode = 0
    /\ windows' = windows \ {w}
    /\ UNCHANGED <<memorySide, computeAgent, cstate, told>>

ComputeDetach ==
    IF C!Matches(cconns, Cid) = {} THEN C!MissingCircuit("compute_detach", Cid)
                                   ELSE C!DetachCompute(Cid)

\* tf_shmem_teardown on the compute node; mappings are left as they are.
TfComputeTeardown ==
    /\ calive /\ cstate.memoryNode = 0
    /\ Held = {}
    /\ ComputeDetach
    /\ IF ~calive' THEN ComputeProcessEnds
       ELSE /\ IF creply'.status = "DETACH_OK" THEN cstate' = NoState /\ told' = 0
                                               ELSE UNCHANGED <<cstate, told>>
            /\ UNCHANGED windows
    /\ UNCHANGED memorySide

\* The compute application ends, at any point; the registers keep their values.
ComputeExit ==
    /\ calive
    /\ C!Die
    /\ ComputeProcessEnds
    /\ UNCHANGED <<csysmem, cregs, cmade, creply, memorySide>>

ComputeStart == C!Start /\ UNCHANGED <<cstate, told, windows, memorySide>>

Init ==
    /\ M!Init /\ C!Init
    /\ mstate = NoState /\ mm = NoMm /\ buffers = {} /\ allocs = 0
    /\ failed = FALSE /\ retries = 0
    /\ cstate = NoState /\ told = 0 /\ windows = {}

Next ==
    \/ \E size \in 1..MaxPool : TfMemoryInit(size) \/ TfBufferAlloc(size)
    \/ \E b \in buffers : TfBufferFree(b) \/ TfBufferMap(b)
    \/ TfMemoryTeardown \/ MemoryExit \/ MemoryStart
    \/ \E w \in Held : TfBufferUnmap(w)
    \/ TfComputeInit \/ TfComputeTeardown \/ ComputeExit \/ ComputeStart

Spec == Init /\ [][Next]_vars

-----------------------------------------------------------------------------
(* Properties.                                                             *)

\* A library that notes itself as initialised has its circuit in the list of its
\* process, so a teardown can always bring it back, even when the attach failed.
InitializedIsRegistered ==
    /\ IsInitialized(mstate) => M!Matches(mconns, Cid) # {}
    /\ IsInitialized(cstate) => C!Matches(cconns, Cid) # {}

InPool(b) == mstate.ea <= b.ea /\ b.ea + b.size <= mstate.ea + mstate.poolSize

\* tf_buffer_alloc returns "NULL in case of error or a valid pointer otherwise": each
\* buffer that an application holds lies in the pool.
BufferInPool == \A b \in buffers : InPool(b)

\* Two buffers share no byte.
BuffersDisjoint ==
    \A b, d \in buffers : b # d => b.ea + b.size <= d.ea \/ d.ea + d.size <= b.ea

\* A mapping that the compute application got reaches the buffer it asked for, and, if
\* the buffer is one of the pool, memory that is allocated: the offset in the pool, the
\* physical window and the segment register fit together, whatever was torn down,
\* restarted or failed before, and in every pool that a process makes.
WindowReachesBuffer ==
    \A w \in Held :
       /\ Reached(w) = w.buffer.ea
       /\ InPool(w.buffer) =>
             \E u \in M!Uids : /\ Base(u) <= Reached(w)
                               /\ Reached(w) + w.buffer.size <= Base(u) + mheap[u]

\* What is still allocated after a teardown is due to tf_memory_init calls that were
\* repeated after a failed one, one region for each at most: where no call failed the
\* teardown gives back the pool, and after a failure and a repetition it does not, since
\* the pool is then in a connection that no list has.
TeardownReleases ==
    [][TfMemoryTeardown => Cardinality({u \in M!Uids : mheap'[u] # 0}) <= retries]_vars
=============================================================================
