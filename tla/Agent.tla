------------------------------- MODULE Agent -------------------------------
(***************************************************************************)
(* thymesisf-agent: the daemon that runs on every node and attaches or     *)
(* detaches disaggregated memory on behalf of thymesisf-cli and tf_shmem.  *)
(* It is single threaded: run_agent accepts a client, handle_request       *)
(* serves one request to its end, and only then is the next client         *)
(* accepted, so one request is one action.  The same process serves the    *)
(* memory side (a node that donates memory) and the compute side (a node   *)
(* that borrows it), and all four requests work on the one list `clist'.   *)
(*                                                                         *)
(* A handler is a chain of system calls and device accesses any of which   *)
(* may fail; the code returns at the first failure and undoes nothing.     *)
(* Each action chooses how far its chain gets.                             *)
(*                                                                         *)
(* Reading a field of a malloc'ed connection that was never written, and   *)
(* passing such a value to free, ocxl_afu_close or pthread_cancel, is      *)
(* undefined: the process may die or go on.                                *)
(***************************************************************************)
EXTENDS Integers, SequencesExt

CONSTANTS
    Circuits,   \* circuit ids a client may name
    Afus,       \* AFU device names
    Ports,      \* AFU ports a request may select
    Addrs,      \* effective addresses a compute client may send
    NBlocks,    \* memory blocks that exist at and above INIT_PROBE_ADDR
    Sides,      \* the sides this agent serves: "memory", "compute" or both
    MaxConns,   \* bound: connection structs allocated in a behaviour
    Faults      \* the calls that may fail, a subset of FaultPoints

MemorySteps  == <<"memalign", "mlock", "afu_open", "afu_attach", "map_global",
                  "map_local", "write_ctrl", "write_network">>
ComputeSteps == <<"afu_open", "map_global", "write_aurora", "write_seg">>
FaultPoints  == Range(MemorySteps) \cup Range(ComputeSteps) \cup
    {"mkfifo", "pthread_create",            \* start_stats_thread
     "probe", "online", "offline",          \* the kernel refuses a sysfs write
     "access",                              \* a sysfs file cannot be opened
     "sigterm"}                             \* the agent is told to stop

ASSUME ConstantsAssumption ==
    /\ Circuits # {}
    /\ NBlocks \in Nat \ {0}
    /\ MaxConns \in Nat \ {0}
    /\ Ports \subseteq 1..8
    /\ Faults \subseteq FaultPoints
    /\ Sides \subseteq {"memory", "compute"}

Null == 0       \* the NULL pointer
Wild == -1      \* a value nobody wrote
Uids == 1..MaxConns
Blocks == 0 .. NBlocks - 1
Sizes == 1..NBlocks

\* A connection struct.  `uid' is its address.  The memory that attach_memory
\* allocates for connection u is region u; `ea' is the pointer field.
Connection ==
    [uid : Uids, circuit : Circuits, afu : Afus, size : Sizes, noHotplug : BOOLEAN,
     ea : {Wild, Null} \cup Uids,
     handle : {"unset", "invalid", "open", "attached"},    \* conn->afu
     stats : {"none", "running", "unset"}]                 \* conn->stat_tid

BlockStates == {"absent", "offline", "online"}
NoSegment == [ea |-> Null, net |-> 0]

VARIABLES
    clist,      \* the list of connections, most recent first
    orphans,    \* structs that were allocated but never linked in clist
    heap,       \* heap[u]: size in blocks of region u, 0 if it is not allocated
    sysmem,     \* state of each memory block in sysfs
    regs,       \* registers of each AFU: Aurora control and memory segment 0
    made,       \* connection structs allocated so far
    alive,      \* the agent process is running
    reply       \* the last response the agent wrote

proc == <<clist, orphans, heap, alive>>
vars == <<clist, orphans, heap, sysmem, regs, made, alive, reply>>

Replied(op, cid, status, ea) ==
    reply' = [op |-> op, circuit |-> cid, status |-> status, ea |-> ea]

-----------------------------------------------------------------------------
(* The connection list.                                                    *)

Matches(list, cid) == {i \in DOMAIN list : list[i].circuit = cid}

Registered(list) == {list[i].circuit : i \in DOMAIN list}

\* Mutant of GetConn: the comparison of names takes every circuit for the same.
GetConnHead(list, cid) == 1

\* get_conn: position of the first connection of the circuit
GetConn(list, cid) ==
    CHOOSE i \in Matches(list, cid) : \A j \in Matches(list, cid) : i <= j

\* Mutant of AddConn: the search for the circuit is left out.
AddConnReplicates(list, conn) == <<conn>> \o list

\* add_conn: a circuit that is already in the list is refused
AddConn(list, conn) ==
    IF Matches(list, conn.circuit) = {} THEN <<conn>> \o list ELSE list

\* Mutant of DelConn: the head is never moved.
DelConnKeepsHead(list, cid) ==
    IF GetConn(list, cid) = 1 THEN list ELSE RemoveAt(list, GetConn(list, cid))

\* del_conn: unlink the first connection of the circuit
DelConn(list, cid) == RemoveAt(list, GetConn(list, cid))

\* Mutant of Register: a connection whose AFU did not open is not linked.
RegisterIfOpen(conn) ==
    /\ made' = conn.uid
    /\ clist' = IF conn.handle \in {"unset", "invalid"} THEN clist ELSE AddConn(clist, conn)
    /\ orphans' = IF clist' = clist THEN orphans \cup {conn} ELSE orphans

\* new_conn followed by add_conn.  No caller looks at what add_conn returns.
Register(conn) ==
    /\ made' = conn.uid
    /\ clist' = AddConn(clist, conn)
    /\ orphans' = IF clist' = clist THEN orphans \cup {conn} ELSE orphans

\* Every exit of the process: the kernel reclaims its memory and its AFU
\* contexts; sysfs and the device registers keep their values.
Die ==
    /\ alive' = FALSE
    /\ clist' = <<>>
    /\ orphans' = {}
    /\ heap' = [u \in Uids |-> 0]

\* How far a chain of calls gets: the index of the call that fails, or one more
\* than their number when all succeed.
Progress(steps) ==
    {k \in DOMAIN steps : steps[k] \in Faults} \cup {Len(steps) + 1}

-----------------------------------------------------------------------------
(* Memory side.                                                            *)

MemoryStatus == <<"1", "1", "ERR_AFU_OPEN", "ERR_AFU_ATTACH", "ERR_MMIO_MAP_GLOBAL",
                  "ERR_MMIO_MAP_LOCAL", "ERR_WRITE_CTRL_REGISTER",
                  "ERR_ENABLING_NETWORK", "ATTACH_OK">>

\* attach_memory, with setup_afu_memory.  On failure the effective address of the
\* response is never written.
AttachMemory(cid, afu, size) ==
    /\ alive /\ made < MaxConns
    /\ \E k \in Progress(MemorySteps) :
         LET uid  == made + 1
             conn == [uid |-> uid, circuit |-> cid, afu |-> afu, size |-> size,
                      noHotplug |-> FALSE, stats |-> "none",
                      ea     |-> IF k > 1 THEN uid ELSE Wild,
                      handle |-> CASE k <= 2 -> "unset" [] k = 3 -> "invalid"
                                   [] k = 4 -> "open" [] OTHER -> "attached"]
         IN /\ Register(conn)
            /\ heap' = IF k > 1 THEN [heap EXCEPT ![uid] = size] ELSE heap
            /\ regs' = IF k > 8 THEN [regs EXCEPT ![afu].aurora = 1] ELSE regs
            /\ Replied("memory_attach", cid, MemoryStatus[k], IF k = 9 THEN uid ELSE Wild)
    /\ UNCHANGED <<sysmem, alive>>

\* What reading the ea field may yield.  A field nobody wrote holds what the heap
\* chunk held before: zero, garbage, or the pointer of a struct freed earlier,
\* whose address may belong to another region by now.
Pointers(ea) ==
    IF ea = Wild THEN {Null, Wild} \cup {u \in Uids : heap[u] # 0} ELSE {ea}

\* Mutant of Freed: free is forgotten.
FreedNever(ea) == heap

\* free: NULL is skipped, a live region is released, anything else is undefined.
BadPointer(ea) == ea = Wild \/ (ea \in Uids /\ heap[ea] = 0)
Freed(ea) == IF ea \in Uids THEN [heap EXCEPT ![ea] = 0] ELSE heap

\* del_conn stops the statistics thread and free_conn closes the AFU.
BadRelease(conn) == conn.handle = "unset" \/ conn.stats = "unset"

MissingCircuit(op, cid) ==
    /\ alive
    /\ Matches(clist, cid) = {}
    /\ Replied(op, cid, "ERR_MISSING_CID", Wild)
    /\ UNCHANGED <<clist, orphans, heap, sysmem, regs, made, alive>>

\* detach_memory
DetachMemory(cid) ==
    /\ alive
    /\ Matches(clist, cid) # {}
    /\ LET conn == clist[GetConn(clist, cid)] IN
       \E ptr \in Pointers(conn.ea) :
          \/ /\ heap' = Freed(ptr)
             /\ clist' = DelConn(clist, cid)
             /\ Replied("memory_detach", cid, "DETACH_OK", Wild)
             /\ UNCHANGED <<orphans, alive>>
          \/ /\ BadPointer(ptr) \/ BadRelease(conn)
             /\ Die
             /\ Replied("memory_detach", cid, "died", Wild)
    /\ UNCHANGED <<sysmem, regs, made>>

-----------------------------------------------------------------------------
(* Compute side: the memory blocks of sysfs.  fprintf only fills a stdio   *)
(* buffer, so its result never tells that the kernel refused the write;    *)
(* the refusal comes out at fflush and fclose, whose results are dropped.  *)

\* States in which one block may be left by the probe of hotplug_memory_blocks,
\* done when the block does not exist yet.
Probed(s) ==
    IF s # "absent" THEN {s}
    ELSE {"offline"} \cup IF "probe" \in Faults THEN {"absent"} ELSE {}

\* What writing `target' to the state file of an existing block leaves.
Written(s, target, fault) == {target} \cup IF fault \in Faults THEN {s} ELSE {}

Accessible(s) == s # "absent"
AccessMayFail(s) == s = "absent" \/ "access" \in Faults

\* hotplug_memory_blocks: the first k blocks are brought online; the next one
\* stops the loop when its state file cannot be opened.
Hotplug(size, sys, status) ==
    \E k \in 0..size :
       /\ \A b \in Blocks :
             CASE b < k -> \E s \in Probed(sysmem[b]) :
                              Accessible(s) /\ sys[b] \in Written(s, "online", "online")
               [] b = k /\ k < size -> sys[b] \in Probed(sysmem[b]) /\ AccessMayFail(sys[b])
               [] OTHER -> sys[b] = sysmem[b]
       /\ status = IF k = size THEN "ATTACH_OK" ELSE "ERR_PROBE"

\* Mutant of Unplug: the last block is left out.
UnplugShort(size, sys, status) ==
    \E k \in 0 .. size - 1 :
       /\ \A b \in Blocks : sys[b] = IF b < k /\ Accessible(sysmem[b]) THEN "offline" ELSE sysmem[b]
       /\ status = IF k = size - 1 THEN "DETACH_OK" ELSE "-1"

\* unplug_memory_blocks, which starts at INIT_PROBE_ADDR whatever the circuit
Unplug(size, sys, status) ==
    \E k \in 0..size :
       /\ \A b \in Blocks :
             CASE b < k -> Accessible(sysmem[b]) /\ sys[b] \in Written(sysmem[b], "offline", "offline")
               [] b = k /\ k < size -> sys[b] = sysmem[b] /\ AccessMayFail(sys[b])
               [] OTHER -> sys[b] = sysmem[b]
       /\ status = IF k = size THEN "DETACH_OK" ELSE "-1"

-----------------------------------------------------------------------------
(* Compute side.                                                           *)

ComputeStatus == <<"ERR_AFU_OPEN", "ERR_MMIO_MAP_GLOBAL", "ERR_AURORA_CHAN",
                   "ERR_ATTACH_SEG">>

\* attach_compute accepts exactly one port.
UnsupportedPorts(cid, ports) ==
    /\ alive
    /\ Cardinality(ports) # 1
    /\ Replied("compute_attach", cid, "ERR_PORT_UNSUPPORTED", Wild)
    /\ UNCHANGED <<clist, orphans, heap, sysmem, regs, made, alive>>

\* Mutant of ComputeRegs: the port is added to the address of the segment.
ComputeRegsOverlap(afu, port, ea, k) ==
    [regs EXCEPT ![afu] = [aurora |-> IF k > 3 THEN port ELSE @.aurora,
                           seg0   |-> IF k > 4 THEN [ea |-> ea + port, net |-> port] ELSE @.seg0]]

\* The registers after k - 1 calls of setup_afu_compute.  calculate_seg_offset
\* folds the port into the low bits of the address, which are zero in a
\* cache-line aligned address: the register holds both.
ComputeRegs(afu, port, ea, k) ==
    [regs EXCEPT ![afu] = [aurora |-> IF k > 3 THEN port ELSE @.aurora,
                           seg0   |-> IF k > 4 THEN [ea |-> ea, net |-> port] ELSE @.seg0]]

\* start_stats_thread: no fifo, no thread; when pthread_create fails the thread
\* id that was allocated is kept although nobody wrote it.
StatsStarted ==
    {"running"} \cup (IF "mkfifo" \in Faults THEN {"none"} ELSE {})
                \cup (IF "pthread_create" \in Faults THEN {"unset"} ELSE {})

\* attach_compute, with setup_afu_compute and start_stats_thread
AttachCompute(cid, afu, port, ea, size, noHotplug) ==
    /\ alive /\ made < MaxConns
    /\ \E k \in Progress(ComputeSteps), st \in StatsStarted :
         /\ Register([uid |-> made + 1, circuit |-> cid, afu |-> afu, size |-> size,
                      noHotplug |-> noHotplug, ea |-> Wild,
                      handle |-> IF k = 1 THEN "invalid" ELSE "open",
                      stats  |-> IF k = 5 THEN st ELSE "none"])
         /\ regs' = ComputeRegs(afu, port, ea, k)
         /\ \E status \in {ComputeStatus[i] : i \in 1..4} \cup {"ATTACH_OK", "ERR_PROBE"} :
              /\ \/ k < 5 /\ status = ComputeStatus[k] /\ UNCHANGED sysmem
                 \/ k = 5 /\ noHotplug /\ status = "ATTACH_OK" /\ UNCHANGED sysmem
                 \/ /\ k = 5 /\ ~noHotplug
                    /\ sysmem' \in [Blocks -> BlockStates]
                    /\ Hotplug(size, sysmem', status)
              /\ Replied("compute_attach", cid, status, Wild)
    /\ UNCHANGED <<heap, alive>>

\* detach_compute: the connection goes away even when unplugging failed.
DetachCompute(cid) ==
    /\ alive
    /\ Matches(clist, cid) # {}
    /\ LET conn == clist[GetConn(clist, cid)] IN
       \E status \in {"DETACH_OK", "-1"} :
          /\ \/ conn.noHotplug /\ status = "DETACH_OK" /\ UNCHANGED sysmem
             \/ /\ ~conn.noHotplug
                /\ sysmem' \in [Blocks -> BlockStates]
                /\ Unplug(conn.size, sysmem', status)
          /\ \/ /\ clist' = DelConn(clist, cid)
                /\ Replied("compute_detach", cid, status, Wild)
                /\ UNCHANGED <<orphans, heap, alive>>
             \/ /\ BadRelease(conn)
                /\ Die
                /\ Replied("compute_detach", cid, "died", Wild)
    /\ UNCHANGED <<regs, made>>

-----------------------------------------------------------------------------
(* The process.                                                            *)

\* graceful_termination on SIGTERM
Terminate ==
    /\ alive /\ "sigterm" \in Faults
    /\ Die
    /\ UNCHANGED <<sysmem, regs, made, reply>>

\* run_agent starts with an empty list: nothing is persisted.
Start ==
    /\ ~alive
    /\ alive' = TRUE
    /\ UNCHANGED <<clist, orphans, heap, sysmem, regs, made, reply>>

Init ==
    /\ clist = <<>>
    /\ orphans = {}
    /\ heap = [u \in Uids |-> 0]
    /\ sysmem = [b \in Blocks |-> "absent"]
    /\ regs = [a \in Afus |-> [aurora |-> 0, seg0 |-> NoSegment]]
    /\ made = 0
    /\ alive = TRUE
    /\ reply = [op |-> "none", circuit |-> CHOOSE c \in Circuits : TRUE,
                status |-> "none", ea |-> Wild]

\* handle_request: dispatch on the message type
Attach(cid) ==
    \E afu \in Afus, size \in Sizes :
       \/ "memory" \in Sides /\ AttachMemory(cid, afu, size)
       \/ /\ "compute" \in Sides
          /\ \E port \in Ports, ea \in Addrs, noHotplug \in BOOLEAN :
                AttachCompute(cid, afu, port, ea, size, noHotplug)

Detach(cid) ==
    \/ "memory" \in Sides /\ (DetachMemory(cid) \/ MissingCircuit("memory_detach", cid))
    \/ "compute" \in Sides /\ (DetachCompute(cid) \/ MissingCircuit("compute_detach", cid))

HandleRequest(cid) ==
    \/ Attach(cid)
    \/ Detach(cid)
    \/ "compute" \in Sides /\ \E ports \in SUBSET Ports : UnsupportedPorts(cid, ports)

Next ==
    \/ \E cid \in Circuits : HandleRequest(cid)
    \/ Terminate
    \/ Start

Spec == Init /\ [][Next]_vars

Statuses == Range(MemoryStatus) \cup Range(ComputeStatus) \cup
    {"none", "ERR_PORT_UNSUPPORTED", "ERR_PROBE", "DETACH_OK", "ERR_MISSING_CID",
     "-1", "died"}

-----------------------------------------------------------------------------
(* Properties.                                                             *)

AnyConnection == orphans \cup Range(clist)

TypeOK ==
    /\ clist \in Seq(Connection)
    /\ orphans \subseteq Connection
    /\ heap \in [Uids -> 0..NBlocks]
    /\ sysmem \in [Blocks -> BlockStates]
    /\ regs \in [Afus -> [aurora : 0..8, seg0 : [ea : Addrs \cup {Null}, net : 0..8]]]
    /\ made \in 0..MaxConns
    /\ alive \in BOOLEAN
    /\ reply \in [op : {"none", "memory_attach", "memory_detach",
                        "compute_attach", "compute_detach"},
                  circuit : Circuits, status : Statuses, ea : {Wild} \cup Uids]

\* del_conn and get_conn stop at the first match ("we assume no replication of
\* connections"): no circuit is in clist twice.
UniqueCircuits ==
    \A i, j \in DOMAIN clist : clist[i].circuit = clist[j].circuit => i = j

\* The list implements the registry: a circuit keeps the connection that
\* registered it first until a detach, and requests for one circuit leave the
\* entries of the others alone, wherever their connections are in the list.
Owner(list) == [c \in Registered(list) |-> list[GetConn(list, c)].uid]
Registry == INSTANCE CircuitRegistry WITH Owners <- Uids, owner <- Owner(clist)
RegistryImplemented == Registry!Spec

\* After any detach of a circuit, failed or not, the circuit is no longer
\* registered, so that the same id can be attached again.
DetachEndsCircuit ==
    [][\A c \in Circuits : Detach(c) => c \notin Registered(clist')]_vars

\* Regions that no request can free any more: their connection is not in clist,
\* because add_conn refused it or because detach_compute freed it.
Stranded == {u \in Uids : heap[u] # 0 /\ \A conn \in Range(clist) : conn.ea # u}

\* Every block that is online was hot-plugged for a connection that still
\* exists: a detach takes offline all the blocks its attach brought online.
OnlineHasOwner ==
    \A b \in Blocks : sysmem[b] = "online" =>
       \E conn \in AnyConnection : ~conn.noHotplug /\ b < conn.size
=============================================================================
