--------------------------- MODULE Disaggregation ---------------------------
(***************************************************************************)
(* Two nodes and an operator.  The memory node and the compute node each   *)
(* run an agent (two instances of Agent, whose handlers are used as they   *)
(* are); the operator runs thymesisf-cli on both, one command at a time.   *)
(* A command is checked by the client, encoded, decoded and dispatched by  *)
(* the agent, executed, and answered (Proto); the exit code is all that    *)
(* the operator sees.  The connection itself is the subject of Rpc.        *)
(*                                                                         *)
(* The operator works as libthymesisflow/README.md says: the effective     *)
(* address printed by the memory side is given to the compute side, and    *)
(* the compute side is detached first.  The memory side is detached with   *)
(* the command of the README, detach-compute, or with the one that the     *)
(* client has for it, detach-memory.  One circuit at a time is borrowed,   *)
(* since all circuits share memory segment 0 and the blocks at             *)
(* INIT_PROBE_ADDR.                                                        *)
(***************************************************************************)
EXTENDS Proto

CONSTANTS
    Circuits,       \* circuit ids of the operator
    NoHotplugged,   \* the circuits attached with --no-hotplug
    Afu,            \* the AFU device, of the same name on both nodes
    NBlocks,        \* memory blocks at INIT_PROBE_ADDR of the compute node
    MaxLends,       \* bound: connection structs made by the memory agent
    MaxBorrows,     \* bound: connection structs made by the compute agent
    MemoryFaults,   \* what may fail on the memory node,
    ComputeFaults,  \* and on the compute node
    ReleaseCommands \* the commands with which the memory side is detached

VARIABLES
    mconns, morphans, mheap, msysmem, mregs, mmade, malive, mreply,  \* memory agent
    cconns, corphans, cheap, csysmem, cregs, cmade, calive, creply,  \* compute agent
    note,   \* what the operator noted about each circuit
    exit,   \* exit code of the last command
    owed,   \* circuits sent to the memory node and not detached there since
    slips   \* commands that attached such a circuit again, or detached it as if it
            \* were of the compute side

M == INSTANCE Agent WITH
       Afus <- {Afu}, Ports <- {2}, Addrs <- {}, Sides <- {"memory", "compute"},
       MaxConns <- MaxLends, Faults <- MemoryFaults,
       clist <- mconns, orphans <- morphans, heap <- mheap, sysmem <- msysmem,
       regs <- mregs, made <- mmade, alive <- malive, reply <- mreply

C == INSTANCE Agent WITH
       Afus <- {Afu}, Ports <- {2}, Addrs <- 1..MaxLends, Sides <- {"compute"},
       MaxConns <- MaxBorrows, Faults <- ComputeFaults,
       clist <- cconns, orphans <- corphans, heap <- cheap, sysmem <- csysmem,
       regs <- cregs, made <- cmade, alive <- calive, reply <- creply

ASSUME DisaggregationAssumption ==
    /\ Circuits # {} /\ NoHotplugged \subseteq Circuits
    /\ {NBlocks, MaxLends, MaxBorrows} \subseteq Nat \ {0}
    /\ MemoryFaults \subseteq M!FaultPoints
    /\ ComputeFaults \subseteq C!FaultPoints
    /\ ReleaseCommands \subseteq {"memory_detach", "compute_detach"}

lender == <<mconns, morphans, mheap, msysmem, mregs, mmade, malive, mreply>>
borrower == <<cconns, corphans, cheap, csysmem, cregs, cmade, calive, creply>>
operator == <<owed, slips>>
vars == <<lender, borrower, note, exit, operator>>

Null == 0
Sizes == 0 .. MemBlock * NBlocks
BlocksOf(size) == 0 .. size \div MemBlock - 1

-----------------------------------------------------------------------------
(* The agents: handle_request dispatches on the type of the message.       *)

MemoryAgent(req) ==
    \/ req.type = "memory_attach"
       /\ M!AttachMemory(req.circuit, req.afu, req.size \div MemBlock)
    \/ req.type = "memory_detach"
       /\ (M!DetachMemory(req.circuit) \/ M!MissingCircuit("memory_detach", req.circuit))
    \/ req.type = "compute_detach"
       /\ (M!DetachCompute(req.circuit) \/ M!MissingCircuit("compute_detach", req.circuit))

ComputeAgent(req) ==
    \/ /\ req.type = "compute_attach"
       /\ LET pl == UnmarshalIports(req.ports) IN
          IF Len(pl) # 1 THEN C!UnsupportedPorts(req.circuit, Range(pl))
          ELSE C!AttachCompute(req.circuit, req.afu, pl[1], req.ea,
                               req.size \div MemBlock, req.noHotplug = 1)
    \/ req.type = "compute_detach"
       /\ (C!DetachCompute(req.circuit) \/ C!MissingCircuit("compute_detach", req.circuit))

\* The response that the agent wrote in this step; none when the step killed it.
MemoryResponse(req) ==
    IF malive' THEN Response(req, mreply'.status, mreply'.ea) ELSE NewMessage
ComputeResponse(req) ==
    IF calive' THEN Response(req, creply'.status, creply'.ea) ELSE NewMessage

-----------------------------------------------------------------------------
(* Commands of the operator.                                               *)

\* What is counted of a command to the memory side: a circuit that is owed there must
\* be detached with detach-memory before it is attached again.
Sent(i, cmd) ==
    /\ owed' = IF cmd = "memory_attach" THEN owed \cup {i} ELSE owed \ {i}
    /\ slips' = IF i \in owed /\ cmd # "memory_detach" THEN slips + 1 ELSE slips

\* thymesisf-cli attach-memory; the address printed on success is noted.
LendMemory(i, size) ==
    /\ note[i].compute = "none"
    /\ MemoryAttachGiven(size)
    /\ LET req == AttachMemoryRequest(i, Afu, CliPorts, size)
           rsp == MemoryResponse(req)
       IN  /\ MemoryAgent(req)
           /\ exit' = AttachExit(rsp)
           /\ note' = IF exit' = 0 THEN [note EXCEPT ![i].lent = size, ![i].ea = rsp.ea]
                                   ELSE note
    /\ Sent(i, "memory_attach")
    /\ UNCHANGED borrower

\* thymesisf-cli attach-compute with what was noted, again if it failed
BorrowMemory(i) ==
    /\ note[i].lent # 0
    /\ \A j \in Circuits \ {i} : note[j].compute = "none"
    /\ ComputeAttachGiven(note[i].lent, note[i].ea)
    /\ LET req == AttachComputeRequest(i, Afu, CliPorts, note[i].lent, note[i].ea,
                                       IF i \in NoHotplugged THEN 1 ELSE 0)
       IN  /\ ComputeAgent(req)
           /\ exit' = AttachExit(ComputeResponse(req))
    /\ note' = [note EXCEPT ![i].compute = IF exit' = 0 THEN "attached" ELSE "unknown"]
    /\ UNCHANGED <<lender, operator>>

\* thymesisf-cli detach-compute
ReturnMemory(i) ==
    /\ LET req == DetachComputeRequest(i) IN
       /\ ComputeAgent(req)
       /\ exit' = DetachExit(ComputeResponse(req))
    /\ note' = [note EXCEPT ![i].compute =
                  IF exit' = 0 THEN "none" ELSE IF @ = "attached" THEN "unknown" ELSE @]
    /\ UNCHANGED <<lender, operator>>

\* The memory side is detached only when the compute side is.
ReleaseRequest(i, cmd) ==
    IF cmd = "memory_detach" THEN DetachMemoryRequest(i) ELSE DetachComputeRequest(i)

ReleaseMemory(i) ==
    /\ note[i].compute = "none"
    /\ \E cmd \in ReleaseCommands :
         LET req == ReleaseRequest(i, cmd) IN
         /\ MemoryAgent(req)
         /\ exit' = DetachExit(MemoryResponse(req))
         /\ Sent(i, cmd)
    /\ note' = IF exit' = 0 THEN [note EXCEPT ![i].lent = 0, ![i].ea = Null] ELSE note
    /\ UNCHANGED borrower

\* The client refuses the size and sends nothing.
RefuseSize(size) ==
    /\ ~MemoryAttachGiven(size)
    /\ exit' = 1
    /\ UNCHANGED <<lender, borrower, note, operator>>

\* The compute agent is stopped, and started again.
RestartCompute ==
    /\ C!Terminate \/ C!Start
    /\ UNCHANGED <<lender, note, exit, operator>>

\* In a note, `lent' is the size attached on the memory side, `ea' the address it
\* printed, and `compute' what is known of the compute side: nothing is attached (or
\* it was detached with success), attached, or unknown after a command that failed.
Init ==
    /\ M!Init /\ C!Init
    /\ note = [i \in Circuits |-> [lent |-> 0, ea |-> Null, compute |-> "none"]]
    /\ exit = 0
    /\ owed = {} /\ slips = 0

Next ==
    \/ \E i \in Circuits :
          \/ \E size \in Sizes : LendMemory(i, size)
          \/ BorrowMemory(i)
          \/ ReturnMemory(i)
          \/ ReleaseMemory(i)
    \/ \E size \in Sizes : RefuseSize(size)
    \/ RestartCompute

Spec == Init /\ [][Next]_vars

-----------------------------------------------------------------------------
(* Properties.                                                             *)

\* "It is necessary to detach the compute side first to avoid machine faults":
\* the memory behind every online block of the compute node is allocated on the
\* memory node, at the address in the segment register, whatever failed and
\* although the compute agent forgets its circuits when it is stopped.
BorrowedMemoryLives ==
    \A b \in C!Blocks : csysmem[b] = "online" =>
       LET ea == cregs[Afu].seg0.ea IN ea # Null /\ mheap[ea] > b

\* Memory that the operator believes to be lent is allocated at the address that
\* was printed, in the size that was typed, through repeated attaches and the
\* detaches of other circuits.
LentMatches ==
    \A i \in Circuits : note[i].lent # 0 =>
       note[i].ea \in M!Uids /\ mheap[note[i].ea] * MemBlock = note[i].lent

\* A circuit that the operator believes to be attached has all its blocks online
\* (unless it is not hot-plugged), and the segment points to its memory.
BorrowedMatches ==
    \A i \in Circuits : note[i].compute = "attached" =>
       /\ cregs[Afu].seg0 = [ea |-> note[i].ea, net |-> 2]
       /\ i \notin NoHotplugged => \A b \in BlocksOf(note[i].lent) : csysmem[b] = "online"

\* When the operator believes that nothing is attached, no block is online: a
\* detach that could not take its blocks offline was reported.
OnlineIsBorrowed ==
    \A b \in C!Blocks : csysmem[b] = "online" =>
       \E i \in Circuits \ NoHotplugged :
          note[i].compute # "none" /\ b \in BlocksOf(note[i].lent)

\* What is typed arrives, and stays: a connection that the compute agent has
\* registered is of a circuit that the operator has not detached, with the size and
\* the flag of the command, because the detach will use those.
RegisteredAsTyped ==
    \A k \in DOMAIN cconns :
       LET conn == cconns[k] IN
       /\ note[conn.circuit].compute # "none"
       /\ conn.size * MemBlock = note[conn.circuit].lent
       /\ conn.noHotplug = (conn.circuit \in NoHotplugged)

\* "We can release the preallocated resources": memory that no request can free any
\* more is due to a circuit attached again or to the detach-compute that the README
\* has for the memory side, one region for each at most.  No other command, and no
\* call that fails, strands any.
StrandedBySlips == Cardinality(M!Stranded) <= slips
=============================================================================
