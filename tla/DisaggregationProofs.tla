------------------------ MODULE DisaggregationProofs ------------------------
(***************************************************************************)
(* Proofs about Disaggregation: for any circuits, any number of attaches   *)
(* and any sizes, an operator who detaches the compute side first never    *)
(* takes memory from under an online block, and what the operator noted is *)
(* what both nodes hold.                                                   *)
(*                                                                         *)
(* Every command is a request that the agents' own specification allows,   *)
(* so whatever AgentProofs shows of an agent holds of both.  On top of it, *)
(* the invariant relates the operator's notes to the regions of the memory *)
(* node and to the connections, the segment register and the blocks of the *)
(* compute node.                                                           *)
(***************************************************************************)
EXTENDS Disaggregation, FiniteSetTheorems, TLAPS

-----------------------------------------------------------------------------
(* The two agents, with what AgentProofs shows of them.                    *)

MP == INSTANCE AgentProofs WITH
        Afus <- {Afu}, Ports <- {2}, Addrs <- {}, Sides <- {"memory", "compute"},
        MaxConns <- MaxLends, Faults <- MemoryFaults,
        clist <- mconns, orphans <- morphans, heap <- mheap, sysmem <- msysmem,
        regs <- mregs, made <- mmade, alive <- malive, reply <- mreply

CP == INSTANCE AgentProofs WITH
        Afus <- {Afu}, Ports <- {2}, Addrs <- 1..MaxLends, Sides <- {"compute"},
        MaxConns <- MaxBorrows, Faults <- ComputeFaults,
        clist <- cconns, orphans <- corphans, heap <- cheap, sysmem <- csysmem,
        regs <- cregs, made <- cmade, alive <- calive, reply <- creply

\* The assumptions on the constants of an agent hold for the memory agent.
LEMMA MemoryAssumption == MP!ConstantsAssumption
  BY DisaggregationAssumption
   DEF MP!ConstantsAssumption, M!ComputeSteps, MP!ComputeSteps, M!FaultPoints, MP!FaultPoints,
       M!MemorySteps, MP!MemorySteps, M!Range, MP!Range

\* M and MP are the same instance of Agent.
LEMMA MemoryAgentIs ==
    /\ M!Init <=> MP!Init
    /\ [M!Next]_(M!vars) <=> [MP!Next]_(MP!vars)
  BY DEF M!AccessMayFail, MP!AccessMayFail, M!Accessible, MP!Accessible,
         M!AddConn, MP!AddConn, M!Attach, MP!Attach,
         M!AttachCompute, MP!AttachCompute, M!AttachMemory, MP!AttachMemory,
         M!BadPointer, MP!BadPointer, M!BadRelease, MP!BadRelease,
         M!BlockStates, MP!BlockStates, M!Blocks, MP!Blocks,
         M!ComputeRegs, MP!ComputeRegs, M!ComputeStatus, MP!ComputeStatus,
         M!ComputeSteps, MP!ComputeSteps, M!DelConn, MP!DelConn, M!Detach, MP!Detach,
         M!DetachCompute, MP!DetachCompute, M!DetachMemory, MP!DetachMemory,
         M!Die, MP!Die, M!Freed, MP!Freed, M!GetConn, MP!GetConn,
         M!HandleRequest, MP!HandleRequest, M!Hotplug, MP!Hotplug, M!Init, MP!Init,
         M!Matches, MP!Matches, M!MemoryStatus, MP!MemoryStatus,
         M!MemorySteps, MP!MemorySteps, M!MissingCircuit, MP!MissingCircuit,
         M!Next, MP!Next, M!NoSegment, MP!NoSegment, M!Null, MP!Null,
         M!Pointers, MP!Pointers, M!Probed, MP!Probed, M!Progress, MP!Progress,
         M!Register, MP!Register, M!Replied, MP!Replied, M!Sizes, MP!Sizes,
         M!Start, MP!Start, M!StatsStarted, MP!StatsStarted,
         M!Terminate, MP!Terminate, M!Uids, MP!Uids, M!Unplug, MP!Unplug,
         M!UnsupportedPorts, MP!UnsupportedPorts, M!Wild, MP!Wild,
         M!Written, MP!Written, M!vars, MP!vars, M!RemoveAt, MP!RemoveAt,
         M!Cardinality, MP!Cardinality

LEMMA MemoryHandlersAre ==
    \A op, cid, afu, size :
       /\ M!AttachMemory(cid, afu, size) <=> MP!AttachMemory(cid, afu, size)
       /\ M!DetachMemory(cid) <=> MP!DetachMemory(cid)
       /\ M!DetachCompute(cid) <=> MP!DetachCompute(cid)
       /\ M!MissingCircuit(op, cid) <=> MP!MissingCircuit(op, cid)
  BY DEF M!AccessMayFail, MP!AccessMayFail, M!Accessible, MP!Accessible,
         M!BlockStates, MP!BlockStates, M!Blocks, MP!Blocks,
         M!DetachCompute, MP!DetachCompute, M!Unplug, MP!Unplug,
         M!Written, MP!Written, M!AddConn, MP!AddConn, M!AttachMemory, MP!AttachMemory,
         M!BadPointer, MP!BadPointer, M!BadRelease, MP!BadRelease,
         M!DelConn, MP!DelConn, M!DetachMemory, MP!DetachMemory, M!Die, MP!Die,
         M!Freed, MP!Freed, M!GetConn, MP!GetConn, M!Matches, MP!Matches,
         M!MemoryStatus, MP!MemoryStatus, M!MemorySteps, MP!MemorySteps,
         M!MissingCircuit, MP!MissingCircuit, M!Null, MP!Null,
         M!Pointers, MP!Pointers, M!Progress, MP!Progress, M!Register, MP!Register,
         M!Replied, MP!Replied, M!Uids, MP!Uids, M!Wild, MP!Wild,
         M!RemoveAt, MP!RemoveAt

\* The assumptions on the constants of an agent hold for the compute agent.
LEMMA ComputeAssumption == CP!ConstantsAssumption
  BY DisaggregationAssumption
   DEF CP!ConstantsAssumption, C!ComputeSteps, CP!ComputeSteps, C!FaultPoints, CP!FaultPoints,
       C!MemorySteps, CP!MemorySteps, C!Range, CP!Range

\* C and CP are the same instance of Agent.
LEMMA ComputeAgentIs ==
    /\ C!Init <=> CP!Init
    /\ [C!Next]_(C!vars) <=> [CP!Next]_(CP!vars)
  BY DEF C!AccessMayFail, CP!AccessMayFail, C!Accessible, CP!Accessible,
         C!AddConn, CP!AddConn, C!Attach, CP!Attach,
         C!AttachCompute, CP!AttachCompute, C!AttachMemory, CP!AttachMemory,
         C!BadPointer, CP!BadPointer, C!BadRelease, CP!BadRelease,
         C!BlockStates, CP!BlockStates, C!Blocks, CP!Blocks,
         C!ComputeRegs, CP!ComputeRegs, C!ComputeStatus, CP!ComputeStatus,
         C!ComputeSteps, CP!ComputeSteps, C!DelConn, CP!DelConn, C!Detach, CP!Detach,
         C!DetachCompute, CP!DetachCompute, C!DetachMemory, CP!DetachMemory,
         C!Die, CP!Die, C!Freed, CP!Freed, C!GetConn, CP!GetConn,
         C!HandleRequest, CP!HandleRequest, C!Hotplug, CP!Hotplug, C!Init, CP!Init,
         C!Matches, CP!Matches, C!MemoryStatus, CP!MemoryStatus,
         C!MemorySteps, CP!MemorySteps, C!MissingCircuit, CP!MissingCircuit,
         C!Next, CP!Next, C!NoSegment, CP!NoSegment, C!Null, CP!Null,
         C!Pointers, CP!Pointers, C!Probed, CP!Probed, C!Progress, CP!Progress,
         C!Register, CP!Register, C!Replied, CP!Replied, C!Sizes, CP!Sizes,
         C!Start, CP!Start, C!StatsStarted, CP!StatsStarted,
         C!Terminate, CP!Terminate, C!Uids, CP!Uids, C!Unplug, CP!Unplug,
         C!UnsupportedPorts, CP!UnsupportedPorts, C!Wild, CP!Wild,
         C!Written, CP!Written, C!vars, CP!vars, C!RemoveAt, CP!RemoveAt,
         C!Cardinality, CP!Cardinality

LEMMA ComputeHandlersAre ==
    \A op, cid, afu, port, ea, size, flag :
       /\ C!AttachCompute(cid, afu, port, ea, size, flag) <=> CP!AttachCompute(cid, afu, port, ea, size, flag)
       /\ C!DetachCompute(cid) <=> CP!DetachCompute(cid)
       /\ C!MissingCircuit(op, cid) <=> CP!MissingCircuit(op, cid)
  BY DEF C!AccessMayFail, CP!AccessMayFail, C!Accessible, CP!Accessible,
         C!AddConn, CP!AddConn, C!AttachCompute, CP!AttachCompute,
         C!BadRelease, CP!BadRelease, C!BlockStates, CP!BlockStates,
         C!Blocks, CP!Blocks, C!ComputeRegs, CP!ComputeRegs,
         C!ComputeStatus, CP!ComputeStatus, C!ComputeSteps, CP!ComputeSteps,
         C!DelConn, CP!DelConn, C!DetachCompute, CP!DetachCompute, C!Die, CP!Die,
         C!GetConn, CP!GetConn, C!Hotplug, CP!Hotplug, C!Matches, CP!Matches,
         C!MissingCircuit, CP!MissingCircuit, C!Probed, CP!Probed,
         C!Progress, CP!Progress, C!Register, CP!Register, C!Replied, CP!Replied,
         C!StatsStarted, CP!StatsStarted, C!Uids, CP!Uids, C!Unplug, CP!Unplug,
         C!Wild, CP!Wild, C!Written, CP!Written, C!RemoveAt, CP!RemoveAt

-----------------------------------------------------------------------------
(* Messages.  The codec of the ports is computed with folds, about which   *)
(* the provers know nothing; what is needed of it is one closed formula,   *)
(* CliPortsArrive, which TLC evaluates.                                    *)

\* What a field holds that the agent did not write is no success code.
NoAccident == Unwritten \notin {"ATTACH_OK", "DETACH_OK"}

\* What the agent finds in the requests of the client.
LEMMA LendRequestArrives ==
    ASSUME NEW i, NEW size \in Nat, size # 0, size % MemBlock = 0
    PROVE  LET req == AttachMemoryRequest(i, Afu, CliPorts, size)
           IN  /\ req.type = "memory_attach" /\ req.circuit = i /\ req.afu = Afu
               /\ req.size = size
BY DEF AttachMemoryRequest, Header, NewMessage, SetIports, SetSize

LEMMA BorrowRequestArrives ==
    ASSUME CliPortsArrive,
           NEW i, NEW size \in Nat, NEW ea, NEW flag \in {0, 1},
           size # 0, size % MemBlock = 0, ea # 0
    PROVE  LET req == AttachComputeRequest(i, Afu, CliPorts, size, ea, flag)
           IN  /\ req.type = "compute_attach" /\ req.circuit = i /\ req.afu = Afu
               /\ req.size = size /\ req.ea = ea /\ req.noHotplug = flag
               /\ UnmarshalIports(req.ports) = <<2>>
<1>1. CliPorts = <<2>>
  BY DEF CliPorts, AddPort
<1>2. UnmarshalIports(MarshalIports(<<2>>)) = <<2>>
  BY <1>1 DEF CliPortsArrive
<1>3. QED
  BY <1>1, <1>2
     DEF AttachComputeRequest, Header, NewMessage, SetIports, SetSize, SetEa, SetNoHotplug

LEMMA DetachRequestsArrive ==
    ASSUME NEW i
    PROVE  /\ DetachMemoryRequest(i).type = "memory_detach"
           /\ DetachMemoryRequest(i).circuit = i
           /\ DetachComputeRequest(i).type = "compute_detach"
           /\ DetachComputeRequest(i).circuit = i
BY DEF DetachMemoryRequest, DetachComputeRequest, Header, NewMessage

\* What the client finds in the responses of the agent.
LEMMA ResponsesArrive ==
    ASSUME NEW req, NEW status, NEW ea,
           req.type \in {"memory_attach", "memory_detach", "compute_attach", "compute_detach"}
    PROVE  /\ Response(req, status, ea).status = status
           /\ req.type = "memory_attach" /\ ea # 0 => Response(req, status, ea).ea = ea
BY DEF Response, AttachMemoryResponse, AttachComputeResponse, DetachResponse, Header,
       NewMessage, SetIports, SetSize, SetEa

LEMMA NoResponse == NoAccident => AttachExit(NewMessage) = 1 /\ DetachExit(NewMessage) = 1
BY DEF NoAccident, AttachExit, DetachExit, NewMessage

\* Sizes that the client accepts are whole numbers of blocks.
LEMMA WholeBlocks ==
    ASSUME NEW size \in Sizes, size # 0, size % MemBlock = 0
    PROVE  /\ size \div MemBlock \in MP!Sizes
           /\ (size \div MemBlock) * MemBlock = size
<1>1. MemBlock \in Nat \ {0} /\ NBlocks \in Nat \ {0}
  BY ProtoAssumption, DisaggregationAssumption
<1>2. size \in Nat /\ size <= MemBlock * NBlocks
  BY <1>1 DEF Sizes
<1>3. QED
  BY <1>1, <1>2 DEF MP!Sizes

-----------------------------------------------------------------------------
(* The commands, in terms of the handlers of the agents.                   *)

Agents == MP!IInv /\ CP!IInv

\* What the operator may have noted.
NotesTyped ==
    note \in [Circuits -> [lent : {size \in Sizes : size % MemBlock = 0}, ea : 0..MaxLends,
                           compute : {"none", "attached", "unknown"}]]

\* A note with a size is one the client takes for a compute attach.
LEMMA NoteGiven ==
    ASSUME NotesTyped, NEW i \in Circuits, note[i].lent # 0
    PROVE  /\ note[i].lent \in Sizes /\ note[i].lent \in Nat /\ note[i].lent % MemBlock = 0
           /\ note[i].ea \in 0..MaxLends
<1>1. note[i] \in [lent : {size \in Sizes : size % MemBlock = 0}, ea : 0..MaxLends,
                   compute : {"none", "attached", "unknown"}]
  BY DEF NotesTyped
<1>2. QED
  BY <1>1, ProtoAssumption, DisaggregationAssumption DEF Sizes

LEMMA LendStep ==
    ASSUME Agents, NEW i \in Circuits, NEW size \in Sizes,
           LendMemory(i, size)
    PROVE  /\ note[i].compute = "none" /\ size # 0 /\ size % MemBlock = 0
           /\ MP!AttachMemory(i, Afu, size \div MemBlock)
           /\ UNCHANGED borrower
           /\ \/ exit' = 1 /\ note' = note
              \/ /\ exit' = 0 /\ mreply'.status = "ATTACH_OK"
                 /\ note' = [note EXCEPT ![i].lent = size, ![i].ea = mreply'.ea]
<1> DEFINE req == AttachMemoryRequest(i, Afu, CliPorts, size)
<1>1. /\ note[i].compute = "none" /\ size # 0 /\ size % MemBlock = 0
      /\ MemoryAgent(req)
      /\ exit' = AttachExit(MemoryResponse(req))
      /\ note' = IF exit' = 0 THEN [note EXCEPT ![i].lent = size, ![i].ea = MemoryResponse(req).ea]
                              ELSE note
      /\ UNCHANGED borrower
  BY DEF LendMemory, MemoryAttachGiven, ValidMemSize
<1>2. size \in Nat
  BY ProtoAssumption, DisaggregationAssumption DEF Sizes
<1>3. req.type = "memory_attach" /\ req.circuit = i /\ req.afu = Afu /\ req.size = size
  BY <1>1, <1>2, LendRequestArrives
<1> HIDE DEF req
<1>4. MP!AttachMemory(i, Afu, size \div MemBlock)
  <2>1. M!AttachMemory(i, Afu, size \div MemBlock)
    BY <1>1, <1>3 DEF MemoryAgent
  <2>2. QED
    BY <2>1, MemoryHandlersAre
<1>5. malive' /\ mreply'.ea # 0
  <2>1. MP!IInv'
    BY <1>1, <1>4, MemoryAssumption, WholeBlocks, MP!AttachMemoryKeeps DEF Agents
  <2>2. mreply'.ea \in {MP!Wild} \cup MP!Uids
    BY <2>1 DEF MP!IInv, MP!TypeOK
  <2>3. QED
    BY <1>4, <2>2, DisaggregationAssumption DEF MP!AttachMemory, MP!Wild, MP!Uids
<1>6. /\ MemoryResponse(req).status = mreply'.status
      /\ MemoryResponse(req).ea = mreply'.ea
  BY <1>3, <1>5, ResponsesArrive DEF MemoryResponse
<1>7. QED
  BY <1>1, <1>4, <1>6 DEF AttachExit

LEMMA BorrowStep ==
    ASSUME CliPortsArrive, NotesTyped, NEW i \in Circuits, BorrowMemory(i)
    PROVE  /\ note[i].lent # 0 /\ note[i].ea # 0
           /\ \A j \in Circuits \ {i} : note[j].compute = "none"
           /\ \E flag \in BOOLEAN :
                 /\ flag <=> i \in NoHotplugged
                 /\ CP!AttachCompute(i, Afu, 2, note[i].ea, note[i].lent \div MemBlock, flag)
           /\ UNCHANGED lender
           /\ exit' = IF creply'.status = "ATTACH_OK" THEN 0 ELSE 1
           /\ note' = [note EXCEPT ![i].compute = IF exit' = 0 THEN "attached" ELSE "unknown"]
<1> DEFINE flag == IF i \in NoHotplugged THEN 1 ELSE 0
           req == AttachComputeRequest(i, Afu, CliPorts, note[i].lent, note[i].ea, flag)
<1>1. /\ note[i].lent # 0 /\ note[i].ea # 0
      /\ \A j \in Circuits \ {i} : note[j].compute = "none"
      /\ ComputeAgent(req)
      /\ exit' = AttachExit(ComputeResponse(req))
      /\ note' = [note EXCEPT ![i].compute = IF exit' = 0 THEN "attached" ELSE "unknown"]
      /\ UNCHANGED lender
  BY DEF BorrowMemory, ComputeAttachGiven
<1>2. note[i].lent \in Nat /\ note[i].lent % MemBlock = 0
  BY <1>1, NoteGiven
<1>3. flag \in {0, 1} /\ ((flag = 1) <=> i \in NoHotplugged)
  OBVIOUS
<1> HIDE DEF flag
<1>4. /\ req.type = "compute_attach" /\ req.circuit = i /\ req.afu = Afu
      /\ req.size = note[i].lent /\ req.ea = note[i].ea /\ req.noHotplug = flag
      /\ UnmarshalIports(req.ports) = <<2>>
  <2> DEFINE size == note[i].lent
             ea == note[i].ea
  <2>1. size \in Nat /\ size # 0 /\ size % MemBlock = 0 /\ ea # 0 /\ flag \in {0, 1}
    BY <1>1, <1>2, <1>3
  <2>2. req = AttachComputeRequest(i, Afu, CliPorts, size, ea, flag)
    OBVIOUS
  <2> HIDE DEF size, ea, req
  <2>3. /\ req.type = "compute_attach" /\ req.circuit = i /\ req.afu = Afu
        /\ req.size = size /\ req.ea = ea /\ req.noHotplug = flag
        /\ UnmarshalIports(req.ports) = <<2>>
    BY <2>1, <2>2, BorrowRequestArrives
  <2>4. QED
    BY <2>3 DEF size, ea
<1> HIDE DEF req
<1>5. CP!AttachCompute(i, Afu, 2, note[i].ea, note[i].lent \div MemBlock, flag = 1)
  <2>1. Len(<<2>>) = 1 /\ <<2>>[1] = 2
    OBVIOUS
  <2>2. C!AttachCompute(i, Afu, 2, note[i].ea, note[i].lent \div MemBlock, flag = 1)
    BY <1>1, <1>4, <2>1 DEF ComputeAgent
  <2>3. QED
    BY <2>2, ComputeHandlersAre
<1>6. calive'
  BY <1>5 DEF CP!AttachCompute
<1>7. ComputeResponse(req).status = creply'.status
  BY <1>4, <1>6, ResponsesArrive DEF ComputeResponse
<1>8. (flag = 1) \in BOOLEAN
  OBVIOUS
<1>9. QED
  BY <1>1, <1>3, <1>5, <1>7, <1>8 DEF AttachExit

LEMMA ReturnStep ==
    ASSUME NEW i \in Circuits, ReturnMemory(i)
    PROVE  /\ CP!DetachCompute(i) \/ CP!MissingCircuit("compute_detach", i)
           /\ UNCHANGED lender
           /\ exit' \in {0, 1}
           /\ NoAccident /\ exit' = 0 => calive' /\ creply'.status = "DETACH_OK"
           /\ note' = [note EXCEPT ![i].compute =
                         IF exit' = 0 THEN "none" ELSE IF @ = "attached" THEN "unknown" ELSE @]
<1> DEFINE req == DetachComputeRequest(i)
<1>1. /\ ComputeAgent(req)
      /\ exit' = DetachExit(ComputeResponse(req))
      /\ note' = [note EXCEPT ![i].compute =
                    IF exit' = 0 THEN "none" ELSE IF @ = "attached" THEN "unknown" ELSE @]
      /\ UNCHANGED lender
  BY DEF ReturnMemory
<1>2. req.type = "compute_detach" /\ req.circuit = i
  BY DetachRequestsArrive
<1> HIDE DEF req
<1>3. CP!DetachCompute(i) \/ CP!MissingCircuit("compute_detach", i)
  <2>1. C!DetachCompute(i) \/ C!MissingCircuit("compute_detach", i)
    BY <1>1, <1>2 DEF ComputeAgent
  <2>2. QED
    BY <2>1, ComputeHandlersAre
<1>4. calive' => ComputeResponse(req).status = creply'.status
  BY <1>2, ResponsesArrive DEF ComputeResponse
<1>5. NoAccident /\ ~calive' => exit' = 1
  BY <1>1, NoResponse DEF ComputeResponse
<1>6. QED
  BY <1>1, <1>3, <1>4, <1>5 DEF DetachExit

LEMMA ReleaseStep ==
    ASSUME NEW i \in Circuits, ReleaseMemory(i)
    PROVE  /\ note[i].compute = "none"
           /\ \E cmd \in {"memory_detach", "compute_detach"} :
                 /\ \/ cmd = "memory_detach" /\ MP!DetachMemory(i)
                    \/ cmd = "compute_detach" /\ MP!DetachCompute(i)
                    \/ MP!MissingCircuit(cmd, i)
                 /\ Sent(i, cmd)
           /\ UNCHANGED borrower
           /\ malive' => exit' = IF mreply'.status = "DETACH_OK" THEN 0 ELSE 1
           /\ note' = IF exit' = 0 THEN [note EXCEPT ![i].lent = 0, ![i].ea = Null] ELSE note
<1>1. PICK cmd \in {"memory_detach", "compute_detach"} :
         /\ MemoryAgent(ReleaseRequest(i, cmd))
         /\ exit' = DetachExit(MemoryResponse(ReleaseRequest(i, cmd)))
         /\ Sent(i, cmd)
  BY DisaggregationAssumption DEF ReleaseMemory
<1>2. /\ note[i].compute = "none"
      /\ note' = IF exit' = 0 THEN [note EXCEPT ![i].lent = 0, ![i].ea = Null] ELSE note
      /\ UNCHANGED borrower
  BY DEF ReleaseMemory
<1> DEFINE req == ReleaseRequest(i, cmd)
<1>3. req.type = cmd /\ req.circuit = i
  BY DetachRequestsArrive DEF ReleaseRequest
<1> HIDE DEF req
<1>4. \/ cmd = "memory_detach" /\ MP!DetachMemory(i)
      \/ cmd = "compute_detach" /\ MP!DetachCompute(i)
      \/ MP!MissingCircuit(cmd, i)
  <2>1. \/ cmd = "memory_detach" /\ M!DetachMemory(i)
        \/ cmd = "compute_detach" /\ M!DetachCompute(i)
        \/ M!MissingCircuit(cmd, i)
    BY <1>1, <1>3 DEF MemoryAgent, req
  <2>2. QED
    BY <2>1, MemoryHandlersAre
<1>5. malive' => MemoryResponse(req).status = mreply'.status
  BY <1>3, ResponsesArrive DEF MemoryResponse
<1>6. malive' => exit' = IF mreply'.status = "DETACH_OK" THEN 0 ELSE 1
  BY <1>1, <1>5 DEF DetachExit, req
<1>7. QED
  BY <1>1, <1>2, <1>4, <1>6

-----------------------------------------------------------------------------
(* Every command is a request that the agents' specification allows.       *)

IInv == Agents /\ NotesTyped

LEMMA InitIInv == Init => IInv
<1> SUFFICES ASSUME Init PROVE IInv
  OBVIOUS
<1>1. MP!IInv
  BY MemoryAgentIs, MemoryAssumption, MP!InitIInv DEF Init
<1>2. CP!IInv
  BY ComputeAgentIs, ComputeAssumption, CP!InitIInv DEF Init
<1>3. 0 \in Sizes /\ 0 % MemBlock = 0 /\ 0 \in 0..MaxLends
  BY ProtoAssumption, DisaggregationAssumption DEF Sizes
<1>4. NotesTyped
  BY <1>3 DEF Init, NotesTyped, Null
<1>5. QED
  BY <1>1, <1>2, <1>4 DEF IInv, Agents

\* A step of the operator is a step of one agent, and leaves the other alone.
LEMMA NextServes ==
    ASSUME CliPortsArrive, IInv, [Next]_vars
    PROVE  [MP!Next]_(MP!vars) /\ [CP!Next]_(CP!vars)
<1> USE DEF MP!vars, CP!vars
<1>1. ASSUME NEW i \in Circuits, NEW size \in Sizes, LendMemory(i, size)
      PROVE  MP!Next /\ UNCHANGED CP!vars
  <2>1. /\ MP!AttachMemory(i, Afu, size \div MemBlock) /\ UNCHANGED borrower
        /\ size # 0 /\ size % MemBlock = 0
    BY <1>1, LendStep DEF IInv
  <2>2. size \div MemBlock \in MP!Sizes
    BY <2>1, WholeBlocks
  <2>3. QED
    BY <2>1, <2>2 DEF borrower, MP!Next, MP!HandleRequest, MP!Attach
<1>2. ASSUME NEW i \in Circuits, BorrowMemory(i)
      PROVE  CP!Next /\ UNCHANGED MP!vars
  <2>1. PICK flag \in BOOLEAN :
           CP!AttachCompute(i, Afu, 2, note[i].ea, note[i].lent \div MemBlock, flag)
    BY <1>2, BorrowStep DEF IInv
  <2>2. note[i].lent # 0 /\ note[i].ea # 0 /\ UNCHANGED lender
    BY <1>2, BorrowStep DEF IInv
  <2>3. note[i].lent \in Sizes /\ note[i].lent % MemBlock = 0 /\ note[i].ea \in 0..MaxLends
    BY <2>2, NoteGiven DEF IInv
  <2>4. note[i].lent \div MemBlock \in MP!Sizes /\ note[i].ea \in 1..MaxLends
    BY <2>2, <2>3, WholeBlocks, DisaggregationAssumption
  <2>5. note[i].lent \div MemBlock \in CP!Sizes
    BY <2>4 DEF MP!Sizes, CP!Sizes
  <2>6. CP!Attach(i)
    BY <2>1, <2>4, <2>5 DEF CP!Attach
  <2>7. QED
    BY <2>2, <2>6 DEF lender, CP!Next, CP!HandleRequest
<1>3. ASSUME NEW i \in Circuits, ReturnMemory(i)
      PROVE  CP!Next /\ UNCHANGED MP!vars
  BY <1>3, ReturnStep DEF lender, CP!Next, CP!HandleRequest, CP!Detach
<1>4. ASSUME NEW i \in Circuits, ReleaseMemory(i)
      PROVE  MP!Next /\ UNCHANGED CP!vars
  BY <1>4, ReleaseStep DEF borrower, MP!Next, MP!HandleRequest, MP!Detach
<1>5. CASE RestartCompute
  BY <1>5, ComputeAgentIs DEF RestartCompute, lender, C!Next
<1>6. CASE \E size \in Sizes : RefuseSize(size)
  BY <1>6 DEF RefuseSize, lender, borrower
<1>7. CASE UNCHANGED vars
  BY <1>7 DEF vars, lender, borrower
<1>8. QED
  BY <1>1, <1>2, <1>3, <1>4, <1>5, <1>6, <1>7 DEF Next

LEMMA NextIInv == CliPortsArrive /\ IInv /\ [Next]_vars => IInv'
<1> SUFFICES ASSUME CliPortsArrive, IInv, [Next]_vars PROVE IInv'
  OBVIOUS
<1>1. MP!IInv' /\ CP!IInv'
  BY NextServes, MemoryAssumption, ComputeAssumption, MP!NextIInv, CP!NextIInv
     DEF IInv, Agents
<1>2. NotesTyped'
  <2>1. ASSUME NEW i \in Circuits, NEW size \in Sizes, LendMemory(i, size)
        PROVE  NotesTyped'
    <3>1. /\ size % MemBlock = 0
          /\ MP!AttachMemory(i, Afu, size \div MemBlock)
          /\ \/ note' = note
             \/ note' = [note EXCEPT ![i].lent = size, ![i].ea = mreply'.ea]
                /\ mreply'.status = "ATTACH_OK"
      BY <2>1, LendStep DEF IInv
    <3>2. mreply'.status = "ATTACH_OK" => mreply'.ea \in 0..MaxLends
      <4>1. PICK conn \in MP!Connection : mreply'.status = "ATTACH_OK" => mreply'.ea = conn.uid
        <5>1. size \div MemBlock \in MP!Sizes
          BY <2>1, LendStep, WholeBlocks DEF IInv
        <5>2. QED
          BY <3>1, <5>1, MemoryAssumption, MP!AttachMemoryMakes DEF IInv, Agents
      <4>2. conn.uid \in 1..MaxLends
        BY DEF MP!Connection, MP!Uids
      <4>3. QED
        BY <4>1, <4>2, DisaggregationAssumption
    <3>3. QED
      BY <3>1, <3>2 DEF IInv, NotesTyped
  <2>2. ASSUME NEW i \in Circuits, BorrowMemory(i) PROVE NotesTyped'
    BY <2>2 DEF BorrowMemory, IInv, NotesTyped
  <2>3. ASSUME NEW i \in Circuits, ReturnMemory(i) PROVE NotesTyped'
    BY <2>3 DEF ReturnMemory, IInv, NotesTyped
  <2>4. ASSUME NEW i \in Circuits, ReleaseMemory(i) PROVE NotesTyped'
    <3>1. 0 \in Sizes /\ 0 % MemBlock = 0 /\ 0 \in 0..MaxLends
      BY ProtoAssumption, DisaggregationAssumption DEF Sizes
    <3>2. QED
      BY <2>4, <3>1 DEF ReleaseMemory, IInv, NotesTyped, Null
  <2>5. CASE RestartCompute \/ (\E size \in Sizes : RefuseSize(size)) \/ UNCHANGED vars
    BY <2>5 DEF RestartCompute, RefuseSize, vars, IInv, NotesTyped
  <2>6. QED
    BY <2>1, <2>2, <2>3, <2>4, <2>5 DEF Next
<1>3. QED
  BY <1>1, <1>2 DEF IInv, Agents

\* Whatever the operator types and whatever fails, each agent sees only requests
\* that its own specification allows: what holds of an agent for any client holds
\* of the two agents here.
THEOREM AgentsServed ==
    ASSUME CliPortsArrive
    PROVE  Spec => M!Spec /\ C!Spec
<1>1. Init => M!Init /\ C!Init
  BY DEF Init
<1>2. IInv /\ [Next]_vars => [M!Next]_(M!vars) /\ [C!Next]_(C!vars)
  BY NextServes, MemoryAgentIs, ComputeAgentIs
<1>3. IInv /\ [Next]_vars => IInv'
  BY NextIInv
<1>4. QED
  BY <1>1, <1>2, <1>3, InitIInv, PTL DEF Spec, M!Spec, C!Spec

-----------------------------------------------------------------------------
(* The memory node.                                                        *)

\* memalign and mlock do not fail on the memory node.
MemoryGranted == MemoryFaults \cap {"memalign", "mlock"} = {}

\* The agent is never killed by a request, and what is noted as lent is a region that
\* was made for that circuit and was not freed.  Its connection may be gone from the
\* list, refused by add_conn or deleted by a detach-compute, but no other circuit's
\* connection points to it.
LentIsHeld ==
    /\ malive
    /\ MP!OwnRegions
    /\ \A i \in Circuits : note[i].lent # 0 =>
          /\ note[i].ea \in MP!Uids /\ note[i].ea <= mmade
          /\ mheap[note[i].ea] * MemBlock = note[i].lent
          /\ \A conn \in MP!AnyConnection : conn.ea = note[i].ea => conn.circuit = i

LEMMA LendHolds ==
    ASSUME MemoryGranted, IInv, LentIsHeld,
           NEW i \in Circuits, NEW size \in Sizes, LendMemory(i, size)
    PROVE  LentIsHeld'
<1> DEFINE blocks == size \div MemBlock
<1>1. /\ size # 0 /\ size % MemBlock = 0
      /\ MP!AttachMemory(i, Afu, blocks)
      /\ \/ note' = note
         \/ /\ mreply'.status = "ATTACH_OK"
            /\ note' = [note EXCEPT ![i].lent = size, ![i].ea = mreply'.ea]
  BY LendStep DEF IInv
<1>2. blocks \in MP!Sizes /\ blocks * MemBlock = size
  BY <1>1, WholeBlocks
<1> HIDE DEF blocks
<1>3. MP!IInv /\ MP!OwnRegions /\ MP!MemoryGranted /\ Afu \in {Afu}
  BY DEF IInv, Agents, LentIsHeld, MemoryGranted, MP!MemoryGranted
<1>4. MP!OwnRegions' /\ malive'
  <2>1. MP!OwnRegions'
    BY <1>1, <1>2, <1>3, MemoryAssumption, MP!AttachMemoryOwns
  <2>2. QED
    BY <1>1, <2>1 DEF MP!AttachMemory
<1>5. PICK conn \in MP!Connection :
         /\ MP!Register(conn)
         /\ conn.uid = mmade + 1 /\ conn.circuit = i /\ conn.size = blocks
         /\ conn.ea = conn.uid /\ mheap' = [mheap EXCEPT ![conn.uid] = blocks]
         /\ mreply'.status = "ATTACH_OK" => mreply'.ea = conn.uid
  <2>1. \E conn \in MP!Connection :
           /\ MP!Register(conn)
           /\ conn.uid = mmade + 1 /\ conn.circuit = i /\ conn.size = blocks
           /\ \/ conn.ea = conn.uid /\ mheap' = [mheap EXCEPT ![conn.uid] = blocks]
              \/ "memalign" \in MemoryFaults
           /\ mreply'.status = "ATTACH_OK" => mreply'.ea = conn.uid
    BY <1>1, <1>2, <1>3, MemoryAssumption, MP!AttachMemoryMakes
  <2>2. QED
    BY <2>1 DEF MemoryGranted
<1>6. MP!AnyConnection' = MP!AnyConnection \cup {conn}
  BY <1>3, <1>5, MP!RegisterAdds, MemoryAssumption
<1>7. /\ mmade' = mmade + 1 /\ mmade \in Nat
      /\ mheap \in [MP!Uids -> 0..NBlocks]
      /\ conn.uid \in MP!Uids /\ MP!Uids \subseteq Nat
  BY <1>3, <1>5, DisaggregationAssumption
     DEF MP!Register, MP!IInv, MP!TypeOK, MP!Connection, MP!Uids
<1>8. ASSUME NEW j \in Circuits, note'[j].lent # 0
      PROVE  /\ note'[j].ea \in MP!Uids /\ note'[j].ea <= mmade'
             /\ mheap'[note'[j].ea] * MemBlock = note'[j].lent
             /\ \A held \in MP!AnyConnection' : held.ea = note'[j].ea => held.circuit = j
  <2>1. CASE j = i /\ note' # note
    <3>1. note'[i].lent = size /\ note'[i].ea = conn.uid
      BY <1>1, <1>5, <2>1 DEF IInv, NotesTyped
    <3>2. mheap'[conn.uid] = blocks
      BY <1>5, <1>7
    <3>3. \A held \in MP!AnyConnection' : held.ea = conn.uid => held = conn
      BY <1>4, <1>6 DEF MP!OwnRegions
    <3>4. QED
      BY <1>2, <1>5, <1>7, <2>1, <3>1, <3>2, <3>3
  <2>2. CASE ~(j = i /\ note' # note)
    <3>1. note'[j] = note[j]
      BY <1>1, <2>2 DEF IInv, NotesTyped
    <3>2. /\ note[j].ea \in MP!Uids /\ note[j].ea <= mmade
          /\ mheap[note[j].ea] * MemBlock = note[j].lent
          /\ \A held \in MP!AnyConnection : held.ea = note[j].ea => held.circuit = j
      BY <1>8, <3>1 DEF LentIsHeld
    <3>3. note[j].ea # conn.uid /\ note[j].ea <= mmade'
      <4>1. PICK ea \in Nat : ea = note[j].ea
        BY <1>7, <3>2
      <4>2. ea <= mmade
        BY <3>2, <4>1
      <4>3. QED
        BY <1>5, <1>7, <4>1, <4>2
    <3>4. QED
      BY <1>5, <1>6, <1>7, <3>1, <3>2, <3>3
  <2>3. QED
    BY <2>1, <2>2
<1>9. QED
  BY <1>4, <1>8 DEF LentIsHeld

LEMMA ReleaseHolds ==
    ASSUME IInv, LentIsHeld, NEW i \in Circuits, ReleaseMemory(i)
    PROVE  LentIsHeld'
<1>1. /\ \/ MP!DetachMemory(i)
         \/ MP!DetachCompute(i)
         \/ \E op : MP!MissingCircuit(op, i)
      /\ malive' => exit' = IF mreply'.status = "DETACH_OK" THEN 0 ELSE 1
      /\ note' = IF exit' = 0 THEN [note EXCEPT ![i].lent = 0, ![i].ea = Null] ELSE note
  BY ReleaseStep
<1>2. MP!IInv /\ MP!OwnRegions /\ malive
  BY DEF IInv, Agents, LentIsHeld
<1>3. \A j \in Circuits : note'[j].lent # 0 => note'[j] = note[j]
  BY <1>1 DEF IInv, NotesTyped
<1>4. ASSUME NEW op, MP!MissingCircuit(op, i) PROVE LentIsHeld'
  <2>1. malive' /\ UNCHANGED <<mconns, morphans, mheap, mmade>>
    BY <1>2, <1>4 DEF MP!MissingCircuit
  <2>2. QED
    BY <1>2, <1>3, <2>1 DEF LentIsHeld, MP!OwnRegions, MP!AnyConnection, MP!BadRelease
<1>5. CASE MP!DetachMemory(i)
  <2>1. PICK gone \in MP!AnyConnection :
           /\ gone.circuit = i
           /\ MP!AnyConnection' = MP!AnyConnection \ {gone}
           /\ mheap' = [mheap EXCEPT ![gone.uid] = 0]
           /\ malive' = malive /\ mreply'.status = "DETACH_OK"
    BY <1>2, <1>5, MemoryAssumption, MP!DetachMemoryFrees
  <2>2. MP!OwnRegions'
    BY <1>2, <1>5, MemoryAssumption, MP!DetachMemoryOwns
  <2>3. note' = [note EXCEPT ![i].lent = 0, ![i].ea = Null]
    BY <1>1, <1>2, <2>1
  <2>4. ASSUME NEW j \in Circuits, note'[j].lent # 0
        PROVE  j # i /\ note'[j] = note[j]
    BY <2>3, <2>4 DEF IInv, NotesTyped
  <2>5. mmade' = mmade /\ mheap \in [MP!Uids -> 0..NBlocks] /\ gone.ea = gone.uid
    BY <1>2, <1>5, <2>1 DEF MP!DetachMemory, MP!IInv, MP!TypeOK, MP!OwnRegions
  <2>6. ASSUME NEW j \in Circuits, note'[j].lent # 0
        PROVE  /\ note'[j].ea \in MP!Uids /\ note'[j].ea <= mmade'
               /\ mheap'[note'[j].ea] * MemBlock = note'[j].lent
               /\ \A conn \in MP!AnyConnection' : conn.ea = note'[j].ea => conn.circuit = j
    <3>1. j # i /\ note'[j] = note[j]
      BY <2>4, <2>6
    <3>2. /\ note[j].ea \in MP!Uids /\ note[j].ea <= mmade
          /\ mheap[note[j].ea] * MemBlock = note[j].lent
          /\ \A conn \in MP!AnyConnection : conn.ea = note[j].ea => conn.circuit = j
      BY <2>6, <3>1 DEF LentIsHeld
    <3>3. note[j].ea # gone.uid
      BY <2>1, <2>5, <3>1, <3>2
    <3>4. QED
      BY <2>1, <2>5, <3>1, <3>2, <3>3
  <2>7. QED
    BY <1>2, <2>1, <2>2, <2>6 DEF LentIsHeld
<1>6. CASE MP!DetachCompute(i)
  <2>1. /\ MP!OwnRegions' /\ malive' = malive /\ mheap' = mheap
        /\ MP!AnyConnection' \subseteq MP!AnyConnection
    BY <1>2, <1>6, MemoryAssumption, MP!DetachComputeLeaves
  <2>2. mmade' = mmade
    BY <1>6 DEF MP!DetachCompute
  <2>3. QED
    BY <1>2, <1>3, <2>1, <2>2 DEF LentIsHeld
<1>7. QED
  BY <1>1, <1>4, <1>5, <1>6

LEMMA NextHolds == MemoryGranted /\ IInv /\ LentIsHeld /\ [Next]_vars => LentIsHeld'
<1> SUFFICES ASSUME MemoryGranted, IInv, LentIsHeld, [Next]_vars PROVE LentIsHeld'
  OBVIOUS
<1>1. ASSUME UNCHANGED lender,
             \A i \in Circuits : note'[i].lent = note[i].lent /\ note'[i].ea = note[i].ea
      PROVE  LentIsHeld'
  BY <1>1 DEF lender, LentIsHeld, MP!OwnRegions, MP!AnyConnection, MP!BadRelease
<1>2. ASSUME NEW i \in Circuits, BorrowMemory(i) \/ ReturnMemory(i) PROVE LentIsHeld'
  <2>1. UNCHANGED lender
    BY <1>2 DEF BorrowMemory, ReturnMemory
  <2>2. \A j \in Circuits : note'[j].lent = note[j].lent /\ note'[j].ea = note[j].ea
    BY <1>2 DEF BorrowMemory, ReturnMemory, IInv, NotesTyped
  <2>3. QED
    BY <1>1, <2>1, <2>2
<1>3. CASE RestartCompute \/ (\E size \in Sizes : RefuseSize(size)) \/ UNCHANGED vars
  BY <1>1, <1>3 DEF RestartCompute, RefuseSize, vars
<1>4. QED
  BY <1>2, <1>3, LendHolds, ReleaseHolds DEF Next

LEMMA InitHolds == Init => LentIsHeld
BY DEF Init, LentIsHeld, M!Init, MP!OwnRegions, MP!AnyConnection, MP!Range

\* What is noted as lent is allocated, at the address that was printed.
LEMMA HeldIsLent ==
    ASSUME IInv, LentIsHeld
    PROVE  LentMatches
<1> SUFFICES ASSUME NEW i \in Circuits, note[i].lent # 0
             PROVE  note[i].ea \in M!Uids /\ mheap[note[i].ea] * MemBlock = note[i].lent
  BY DEF LentMatches
<1>1. QED
  BY DEF LentIsHeld, MP!Uids, M!Uids

\* Memory noted as lent stays allocated in its size, through repeated attaches of the
\* same circuit and detaches of others.
THEOREM LentIsAllocated ==
    ASSUME CliPortsArrive, MemoryGranted
    PROVE  Spec => []LentMatches
<1>1. IInv /\ [Next]_vars => IInv'
  BY NextIInv
<1>2. IInv /\ LentIsHeld /\ [Next]_vars => LentIsHeld'
  BY NextHolds
<1>3. QED
  BY <1>1, <1>2, InitIInv, InitHolds, HeldIsLent, PTL DEF Spec

-----------------------------------------------------------------------------
(* The regions that are out of reach.                                      *)

\* The operator remembers every circuit that is registered on the memory node, and
\* each stranded region has been counted.
SlipsCounted ==
    /\ slips \in Nat
    /\ StrandedBySlips
    /\ MP!Registered(mconns) \subseteq owed

\* M and MP mean the same regions, and they are finitely many.
LEMMA StrandedIs ==
    /\ M!Stranded = MP!Stranded /\ M!Stranded' = MP!Stranded'
    /\ IsFiniteSet(MP!Stranded) /\ IsFiniteSet(MP!Stranded')
<1>1. M!Stranded = MP!Stranded /\ M!Stranded' = MP!Stranded'
  BY DEF M!Stranded, MP!Stranded, M!Uids, MP!Uids, M!Range, MP!Range
<1>2. MP!Stranded \in SUBSET (1..MaxLends) /\ MP!Stranded' \in SUBSET (1..MaxLends)
  BY DEF MP!Stranded, MP!Uids
<1>3. IsFiniteSet(1..MaxLends)
  <2>1. 1 \in Int /\ MaxLends \in Int
    BY DisaggregationAssumption
  <2>2. QED
    BY <2>1, FS_Interval
<1>4. QED
  BY <1>1, <1>2, <1>3, FS_Subset

LEMMA OneMore ==
    ASSUME NEW S, NEW T, NEW u, IsFiniteSet(S), T \subseteq S \cup {u}
    PROVE  /\ Cardinality(S) \in Nat /\ Cardinality(T) \in Nat
           /\ Cardinality(T) <= Cardinality(S) + 1
           /\ T \subseteq S => Cardinality(T) <= Cardinality(S)
<1>1. /\ IsFiniteSet(S \cup {u}) /\ Cardinality(S) \in Nat
      /\ Cardinality(S \cup {u}) = IF u \in S THEN Cardinality(S) ELSE Cardinality(S) + 1
  BY FS_AddElement, FS_CardinalityType
<1>2. IsFiniteSet(T) /\ Cardinality(T) <= Cardinality(S \cup {u})
  BY <1>1, FS_Subset
<1>3. Cardinality(T) \in Nat
  BY <1>2, FS_CardinalityType
<1>4. T \subseteq S => Cardinality(T) <= Cardinality(S)
  BY FS_Subset
<1>5. QED
  BY <1>1, <1>2, <1>3, <1>4

\* A step adds at most one stranded region, and none unless it is counted.
LEMMA CountsOn ==
    ASSUME SlipsCounted, MP!Registered(mconns)' \subseteq owed',
           \/ MP!Stranded' \subseteq MP!Stranded /\ slips' \in {slips, slips + 1}
           \/ (\E u : MP!Stranded' \subseteq MP!Stranded \cup {u}) /\ slips' = slips + 1
    PROVE  SlipsCounted'
<1> DEFINE S == MP!Stranded
           T == MP!Stranded'
<1>1. /\ IsFiniteSet(S) /\ Cardinality(S) <= slips /\ slips \in Nat
      /\ M!Stranded' = T
  BY StrandedIs DEF SlipsCounted, StrandedBySlips
<1>2. \/ T \subseteq S /\ slips' \in {slips, slips + 1}
      \/ (\E u : T \subseteq S \cup {u}) /\ slips' = slips + 1
  OBVIOUS
<1> HIDE DEF S, T
<1>3. Cardinality(T) <= slips' /\ slips' \in Nat
  <2>1. CASE T \subseteq S /\ slips' \in {slips, slips + 1}
    <3>1. T \subseteq S \cup {0}
      BY <2>1
    <3>2. /\ Cardinality(S) \in Nat /\ Cardinality(T) \in Nat
          /\ Cardinality(T) <= Cardinality(S)
      BY <1>1, <2>1, <3>1, OneMore
    <3>3. QED
      BY <1>1, <2>1, <3>2
  <2>2. ASSUME NEW u, T \subseteq S \cup {u}, slips' = slips + 1
        PROVE  Cardinality(T) <= slips' /\ slips' \in Nat
    <3>1. /\ Cardinality(S) \in Nat /\ Cardinality(T) \in Nat
          /\ Cardinality(T) <= Cardinality(S) + 1
      BY <1>1, <2>2, OneMore
    <3>2. QED
      BY <1>1, <2>2, <3>1
  <2>3. QED
    BY <1>2, <2>1, <2>2
<1>4. QED
  BY <1>1, <1>3 DEF SlipsCounted, StrandedBySlips

LEMMA LendCounts ==
    ASSUME IInv, SlipsCounted, NEW i \in Circuits, NEW size \in Sizes, LendMemory(i, size)
    PROVE  SlipsCounted'
<1> DEFINE blocks == size \div MemBlock
<1>1. MP!AttachMemory(i, Afu, blocks) /\ blocks \in MP!Sizes
  BY LendStep, WholeBlocks DEF IInv
<1> HIDE DEF blocks
<1>2. owed' = owed \cup {i} /\ slips' = IF i \in owed THEN slips + 1 ELSE slips
  BY DEF LendMemory, Sent
<1>3. MP!IInv /\ Afu \in {Afu}
  BY DEF IInv, Agents
<1>4. PICK conn \in MP!Connection : MP!Register(conn) /\ conn.circuit = i
  BY <1>1, <1>3, MemoryAssumption, MP!AttachMemoryMakes
<1>5. MP!Registered(mconns)' \subseteq MP!Registered(mconns) \cup {i}
  BY <1>3, <1>4, MemoryAssumption, MP!RequestRegisters
<1>6. IF i \in MP!Registered(mconns) THEN MP!Stranded' \subseteq MP!Stranded \cup {mmade + 1}
                                     ELSE MP!Stranded' \subseteq MP!Stranded
  BY <1>1, <1>3, MemoryAssumption, MP!AttachMemoryStrands
<1>7. MP!Registered(mconns)' \subseteq owed'
  BY <1>2, <1>5 DEF SlipsCounted
<1>8. i \in MP!Registered(mconns) => i \in owed
  BY DEF SlipsCounted
<1>9. QED
  BY <1>2, <1>6, <1>7, <1>8, CountsOn

LEMMA ReleaseCounts ==
    ASSUME IInv, SlipsCounted, NEW i \in Circuits, ReleaseMemory(i)
    PROVE  SlipsCounted'
<1>1. PICK cmd \in {"memory_detach", "compute_detach"} :
         /\ \/ cmd = "memory_detach" /\ MP!DetachMemory(i)
            \/ cmd = "compute_detach" /\ MP!DetachCompute(i)
            \/ MP!MissingCircuit(cmd, i)
         /\ Sent(i, cmd)
  BY ReleaseStep
<1>2. /\ owed' = owed \ {i}
      /\ slips' = IF i \in owed /\ cmd # "memory_detach" THEN slips + 1 ELSE slips
  BY <1>1 DEF Sent
<1>3. MP!IInv
  BY DEF IInv, Agents
<1>4. MP!Registered(mconns)' \subseteq MP!Registered(mconns) \ {i}
  <2>1. MP!Detach(i) => MP!Registered(mconns)' \subseteq MP!Registered(mconns) \ {i}
    BY <1>3, MemoryAssumption, MP!RequestRegisters
  <2>2. MP!DetachMemory(i) \/ MP!DetachCompute(i) => MP!Detach(i)
    BY DEF MP!Detach
  <2>3. ASSUME MP!MissingCircuit(cmd, i)
        PROVE  mconns' = mconns /\ i \notin MP!Registered(mconns)
    BY <2>3 DEF MP!MissingCircuit, MP!Matches, MP!Registered
  <2>4. QED
    BY <1>1, <2>1, <2>2, <2>3
<1>5. MP!Registered(mconns)' \subseteq owed'
  BY <1>2, <1>4 DEF SlipsCounted
<1>6. CASE cmd = "memory_detach" /\ MP!DetachMemory(i)
  <2>1. MP!Stranded' \subseteq MP!Stranded
    BY <1>3, <1>6, MemoryAssumption, MP!DetachMemoryStrands
  <2>2. QED
    BY <1>2, <1>5, <2>1, CountsOn
<1>7. CASE cmd = "compute_detach" /\ MP!DetachCompute(i)
  <2>1. \E u : MP!Stranded' \subseteq MP!Stranded \cup {u}
    BY <1>3, <1>7, MemoryAssumption, MP!DetachComputeStrands
  <2>2. i \in owed
    BY <1>7 DEF MP!DetachCompute, MP!Matches, MP!Registered, SlipsCounted
  <2>3. QED
    BY <1>2, <1>5, <1>7, <2>1, <2>2, CountsOn
<1>8. CASE MP!MissingCircuit(cmd, i)
  <2>1. MP!Stranded' \subseteq MP!Stranded
    BY <1>8 DEF MP!MissingCircuit, MP!Stranded
  <2>2. QED
    BY <1>2, <1>5, <2>1, CountsOn
<1>9. QED
  BY <1>1, <1>6, <1>7, <1>8

LEMMA NextCounts == IInv /\ SlipsCounted /\ [Next]_vars => SlipsCounted'
<1> SUFFICES ASSUME IInv, SlipsCounted, [Next]_vars PROVE SlipsCounted'
  OBVIOUS
<1>1. ASSUME UNCHANGED <<lender, operator>> PROVE SlipsCounted'
  BY <1>1 DEF lender, operator, SlipsCounted, StrandedBySlips, M!Stranded, MP!Registered
<1>2. ASSUME NEW i \in Circuits, BorrowMemory(i) \/ ReturnMemory(i) PROVE SlipsCounted'
  BY <1>1, <1>2 DEF BorrowMemory, ReturnMemory
<1>3. CASE RestartCompute \/ (\E size \in Sizes : RefuseSize(size)) \/ UNCHANGED vars
  BY <1>1, <1>3 DEF RestartCompute, RefuseSize, vars
<1>4. QED
  BY <1>2, <1>3, LendCounts, ReleaseCounts DEF Next

LEMMA InitCounts == Init => SlipsCounted
<1> SUFFICES ASSUME Init PROVE SlipsCounted
  OBVIOUS
<1>1. mconns = <<>> /\ owed = {} /\ slips = 0 /\ mheap = [u \in M!Uids |-> 0]
  BY DEF Init, M!Init
<1>2. M!Stranded = {}
  BY <1>1 DEF M!Stranded
<1>3. Cardinality(M!Stranded) = 0
  BY <1>2, FS_EmptySet
<1>4. MP!Registered(mconns) = {}
  BY <1>1 DEF MP!Registered
<1>5. QED
  BY <1>1, <1>3, <1>4 DEF SlipsCounted, StrandedBySlips

\* Whatever fails on the memory node (memalign and mlock too) and however often,
\* memory that no request can free any more was stranded by a repeated attach or by a
\* detach-compute on the memory side, one region by each.
THEOREM StrandedOnlyBySlips ==
    ASSUME CliPortsArrive
    PROVE  Spec => []StrandedBySlips
<1>1. IInv /\ [Next]_vars => IInv'
  BY NextIInv
<1>2. SlipsCounted => StrandedBySlips
  BY DEF SlipsCounted
<1>3. QED
  BY <1>1, <1>2, InitIInv, InitCounts, NextCounts, PTL DEF Spec

-----------------------------------------------------------------------------
(* The compute node: what the operator's two commands do to it.            *)

Connected == CP!Range(cconns)

\* The blocks of a note are the blocks of the request made from it.
LEMMA BlocksOfNote ==
    ASSUME NEW size \in Sizes, size # 0, size % MemBlock = 0
    PROVE  /\ BlocksOf(size) = {b \in CP!Blocks : b < size \div MemBlock}
           /\ \A n \in Nat : n * MemBlock = size => n = size \div MemBlock
<1>1. size \div MemBlock \in 1..NBlocks /\ (size \div MemBlock) * MemBlock = size
  BY WholeBlocks DEF MP!Sizes
<1>2. MemBlock \in Nat \ {0} /\ NBlocks \in Nat
  BY ProtoAssumption, DisaggregationAssumption
<1>3. ASSUME NEW n \in Nat, n * MemBlock = size PROVE n = size \div MemBlock
  BY <1>1, <1>2, <1>3
<1>4. QED
  BY <1>1, <1>2, <1>3 DEF BlocksOf, CP!Blocks

LEMMA BorrowEffect ==
    ASSUME CliPortsArrive, IInv, NEW i \in Circuits, BorrowMemory(i)
    PROVE  /\ \A j \in Circuits \ {i} : note[j].compute = "none"
           /\ note' = [note EXCEPT ![i].compute = IF exit' = 0 THEN "attached" ELSE "unknown"]
           /\ \E conn \in CP!Connection :
                 /\ Connected' \subseteq Connected \cup {conn}
                 /\ conn.circuit = i /\ conn.size * MemBlock = note[i].lent
                 /\ conn.noHotplug = (i \in NoHotplugged)
           /\ \/ /\ cregs'[Afu].seg0 = cregs[Afu].seg0 /\ csysmem' = csysmem
                 /\ exit' = 1
              \/ /\ cregs'[Afu].seg0 = [ea |-> note[i].ea, net |-> 2]
                 /\ i \in NoHotplugged /\ csysmem' = csysmem
              \/ /\ cregs'[Afu].seg0 = [ea |-> note[i].ea, net |-> 2]
                 /\ i \notin NoHotplugged
                 /\ \A b \in CP!Blocks : csysmem'[b] = "online" =>
                       b \in BlocksOf(note[i].lent) \/ csysmem[b] = "online"
                 /\ exit' = 0 /\ "online" \notin ComputeFaults =>
                       \A b \in BlocksOf(note[i].lent) : csysmem'[b] = "online"
<1>1. PICK flag \in BOOLEAN :
         /\ flag <=> i \in NoHotplugged
         /\ CP!AttachCompute(i, Afu, 2, note[i].ea, note[i].lent \div MemBlock, flag)
  BY BorrowStep DEF IInv
<1>2. /\ note[i].lent # 0 /\ note[i].ea # 0
      /\ \A j \in Circuits \ {i} : note[j].compute = "none"
      /\ exit' = IF creply'.status = "ATTACH_OK" THEN 0 ELSE 1
      /\ note' = [note EXCEPT ![i].compute = IF exit' = 0 THEN "attached" ELSE "unknown"]
  BY BorrowStep DEF IInv
<1>3. PICK size \in Nat : size = note[i].lent \div MemBlock
  <2>1. note[i].lent \div MemBlock \in MP!Sizes
    BY <1>2, NoteGiven, WholeBlocks DEF IInv
  <2>2. QED
    BY <2>1, DisaggregationAssumption DEF MP!Sizes
<1>4. PICK ea : ea = note[i].ea
  OBVIOUS
<1>5. /\ note[i].lent \in Sizes /\ note[i].lent % MemBlock = 0
      /\ size \in CP!Sizes /\ size * MemBlock = note[i].lent
      /\ ea \in 1..MaxLends
  <2>1. note[i].lent \in Sizes /\ note[i].lent % MemBlock = 0 /\ ea \in 0..MaxLends
    BY <1>2, <1>4, NoteGiven DEF IInv
  <2>2. QED
    BY <1>2, <1>3, <1>4, <2>1, WholeBlocks, DisaggregationAssumption DEF MP!Sizes, CP!Sizes
<1>6. BlocksOf(note[i].lent) = {b \in CP!Blocks : b < size}
  BY <1>2, <1>3, <1>5, BlocksOfNote
<1>7. CP!AttachCompute(i, Afu, 2, ea, size, flag)
  BY <1>1, <1>3, <1>4
<1>8. CP!IInv /\ Afu \in {Afu} /\ 2 \in {2} /\ CP!ConstantsAssumption
  BY ComputeAssumption DEF IInv, Agents
<1>9. /\ \E conn \in CP!Connection :
           /\ CP!Register(conn)
           /\ conn.circuit = i /\ conn.size = size /\ conn.noHotplug = flag
      /\ \/ /\ cregs'[Afu].seg0 = cregs[Afu].seg0 /\ csysmem' = csysmem
            /\ creply'.status # "ATTACH_OK"
         \/ /\ cregs'[Afu].seg0 = [ea |-> ea, net |-> 2]
            /\ \/ flag /\ csysmem' = csysmem
               \/ /\ ~flag /\ csysmem' \in [CP!Blocks -> CP!BlockStates]
                  /\ CP!Hotplug(size, csysmem', creply'.status)
  BY <1>5, <1>7, <1>8, CP!AttachComputeMakes
<1>10. \E conn \in CP!Connection :
         /\ Connected' \subseteq Connected \cup {conn}
         /\ conn.circuit = i /\ conn.size * MemBlock = note[i].lent
         /\ conn.noHotplug = (i \in NoHotplugged)
  <2>1. PICK conn \in CP!Connection :
           CP!Register(conn) /\ conn.circuit = i /\ conn.size = size /\ conn.noHotplug = flag
    BY <1>9
  <2>2. cconns \in Seq(CP!Connection)
    BY <1>8 DEF CP!IInv, CP!TypeOK
  <2>3. cconns' = CP!AddConn(cconns, conn)
    BY <2>1 DEF CP!Register
  <2>4. Connected' \subseteq Connected \cup {conn}
    <3>1. CASE CP!Matches(cconns, conn.circuit) = {}
      BY <1>8, <2>2, <2>3, <3>1, CP!AddConnElements DEF Connected
    <3>2. CASE CP!Matches(cconns, conn.circuit) # {}
      BY <1>8, <2>2, <2>3, <3>2, CP!AddConnElements DEF Connected
    <3>3. QED
      BY <3>1, <3>2
  <2>5. conn.noHotplug = (i \in NoHotplugged)
    BY <1>1, <2>1
  <2>6. QED
    BY <1>5, <2>1, <2>4, <2>5
<1>11. ASSUME ~flag, csysmem' \in [CP!Blocks -> CP!BlockStates],
              CP!Hotplug(size, csysmem', creply'.status)
       PROVE  /\ \A b \in CP!Blocks : csysmem'[b] = "online" =>
                    b \in BlocksOf(note[i].lent) \/ csysmem[b] = "online"
              /\ exit' = 0 /\ "online" \notin ComputeFaults =>
                    \A b \in BlocksOf(note[i].lent) : csysmem'[b] = "online"
  <2> DEFINE sys == csysmem'
             status == creply'.status
  <2>1. sys \in [CP!Blocks -> CP!BlockStates] /\ CP!Hotplug(size, sys, status)
    BY <1>11
  <2> HIDE DEF sys, status
  <2>2. /\ \A b \in CP!Blocks : sys[b] = "online" => b < size \/ csysmem[b] = "online"
        /\ status = "ATTACH_OK" /\ "online" \notin ComputeFaults =>
              \A b \in CP!Blocks : b < size => sys[b] = "online"
    BY <1>5, <1>8, <2>1, CP!HotplugReaches
  <2>3. exit' = 0 => status = "ATTACH_OK"
    BY <1>2 DEF status
  <2>4. QED
    BY <1>6, <2>2, <2>3 DEF sys
<1>12. QED
  BY <1>1, <1>2, <1>4, <1>9, <1>10, <1>11

LEMMA ReturnEffect ==
    ASSUME NoAccident, IInv, NEW i \in Circuits, ReturnMemory(i)
    PROVE  /\ exit' \in {0, 1}
           /\ note' = [note EXCEPT ![i].compute =
                         IF exit' = 0 THEN "none" ELSE IF @ = "attached" THEN "unknown" ELSE @]
           /\ cregs' = cregs
           /\ \/ Connected' = Connected /\ csysmem' = csysmem /\ exit' = 1
              \/ \E gone \in Connected :
                    /\ gone.circuit = i
                    /\ Connected' \subseteq {conn \in Connected : conn.circuit # i}
                    /\ \A b \in CP!Blocks : csysmem'[b] = "online" => csysmem[b] = "online"
                    /\ exit' = 0 /\ ~gone.noHotplug /\ "offline" \notin ComputeFaults =>
                          \A b \in CP!Blocks : b < gone.size => csysmem'[b] # "online"
<1>1. /\ CP!DetachCompute(i) \/ CP!MissingCircuit("compute_detach", i)
      /\ exit' \in {0, 1}
      /\ exit' = 0 => calive' /\ creply'.status = "DETACH_OK"
      /\ note' = [note EXCEPT ![i].compute =
                    IF exit' = 0 THEN "none" ELSE IF @ = "attached" THEN "unknown" ELSE @]
  BY ReturnStep
<1>2. CASE CP!MissingCircuit("compute_detach", i)
  <2>1. cregs' = cregs /\ cconns' = cconns /\ csysmem' = csysmem
        /\ creply'.status = "ERR_MISSING_CID"
    BY <1>2 DEF CP!MissingCircuit, CP!Replied
  <2>2. QED
    BY <1>1, <2>1 DEF Connected
<1>3. CASE CP!DetachCompute(i)
  <2>1. CP!IInv /\ CP!ConstantsAssumption
    BY ComputeAssumption DEF IInv, Agents
  <2>2. PICK gone \in Connected :
           /\ gone.circuit = i
           /\ Connected' \subseteq {conn \in Connected : conn.circuit # i}
           /\ cregs' = cregs
           /\ \E status :
                 /\ calive' => creply'.status = status
                 /\ \/ gone.noHotplug /\ csysmem' = csysmem
                    \/ /\ ~gone.noHotplug /\ csysmem' \in [CP!Blocks -> CP!BlockStates]
                       /\ CP!Unplug(gone.size, csysmem', status)
    BY <1>3, <2>1, CP!DetachComputeDrops DEF Connected
  <2>3. gone.size \in CP!Sizes
    BY <2>1, CP!ElementsTyped DEF Connected, CP!AnyConnection, CP!Connection
  <2>4. CASE gone.noHotplug /\ csysmem' = csysmem
    BY <1>1, <2>2, <2>4
  <2>5. ASSUME NEW status, calive' => creply'.status = status,
               csysmem' \in [CP!Blocks -> CP!BlockStates],
               CP!Unplug(gone.size, csysmem', status)
        PROVE  /\ \A b \in CP!Blocks : csysmem'[b] = "online" => csysmem[b] = "online"
               /\ exit' = 0 /\ "offline" \notin ComputeFaults =>
                     \A b \in CP!Blocks : b < gone.size => csysmem'[b] # "online"
    <3> DEFINE sys == csysmem'
    <3>1. sys \in [CP!Blocks -> CP!BlockStates] /\ CP!Unplug(gone.size, sys, status)
      BY <2>5
    <3> HIDE DEF sys
    <3>2. /\ \A b \in CP!Blocks : sys[b] = "online" => csysmem[b] = "online"
          /\ status = "DETACH_OK" /\ "offline" \notin ComputeFaults =>
                \A b \in CP!Blocks : b < gone.size => sys[b] # "online"
      BY <2>1, <2>3, <3>1, CP!UnplugReaches
    <3>3. QED
      BY <1>1, <2>5, <3>2 DEF sys
  <2>6. QED
    BY <1>1, <2>2, <2>4, <2>5
<1>4. QED
  BY <1>1, <1>2, <1>3

\* The circuits share segment 0 and the blocks at INIT_PROBE_ADDR: one at a time.
OneBorrower ==
    \A i, j \in Circuits :
       note[i].compute # "none" /\ note[j].compute # "none" => i = j

\* A connection of the compute agent is of a circuit that was not detached, as typed.
Registered ==
    \A conn \in Connected :
       /\ note[conn.circuit].compute # "none"
       /\ conn.size * MemBlock = note[conn.circuit].lent
       /\ conn.noHotplug = (conn.circuit \in NoHotplugged)

\* The segment register leads an online block to the memory of its circuit.
OnlineIsReached ==
    \A b \in CP!Blocks : csysmem[b] = "online" =>
       \E i \in Circuits \ NoHotplugged :
          /\ note[i].compute # "none"
          /\ b \in BlocksOf(note[i].lent)
          /\ cregs[Afu].seg0.ea = note[i].ea

Borrower ==
    /\ OneBorrower
    /\ Registered
    /\ "offline" \notin ComputeFaults => OnlineIsReached
    /\ "online" \notin ComputeFaults => BorrowedMatches

LEMMA BorrowKeeps ==
    ASSUME CliPortsArrive, IInv, Borrower, NEW i \in Circuits, BorrowMemory(i)
    PROVE  Borrower'
<1>1. /\ \A j \in Circuits \ {i} : note[j].compute = "none"
      /\ note' = [note EXCEPT ![i].compute = IF exit' = 0 THEN "attached" ELSE "unknown"]
      /\ \E conn \in CP!Connection :
            /\ Connected' \subseteq Connected \cup {conn}
            /\ conn.circuit = i /\ conn.size * MemBlock = note[i].lent
            /\ conn.noHotplug = (i \in NoHotplugged)
      /\ \/ /\ cregs'[Afu].seg0 = cregs[Afu].seg0 /\ csysmem' = csysmem
            /\ exit' = 1
         \/ /\ cregs'[Afu].seg0 = [ea |-> note[i].ea, net |-> 2]
            /\ i \in NoHotplugged /\ csysmem' = csysmem
         \/ /\ cregs'[Afu].seg0 = [ea |-> note[i].ea, net |-> 2]
            /\ i \notin NoHotplugged
            /\ \A b \in CP!Blocks : csysmem'[b] = "online" =>
                  b \in BlocksOf(note[i].lent) \/ csysmem[b] = "online"
            /\ exit' = 0 /\ "online" \notin ComputeFaults =>
                  \A b \in BlocksOf(note[i].lent) : csysmem'[b] = "online"
  BY BorrowEffect
<1>2. /\ note'[i].compute = (IF exit' = 0 THEN "attached" ELSE "unknown")
      /\ note'[i].compute # "none"
      /\ \A j \in Circuits : note'[j].lent = note[j].lent /\ note'[j].ea = note[j].ea
      /\ \A j \in Circuits \ {i} : note'[j].compute = "none"
  BY <1>1 DEF IInv, NotesTyped
<1>3. OneBorrower'
  BY <1>2 DEF OneBorrower
<1>4. ASSUME NEW conn \in Connected
      PROVE  /\ conn.circuit = i
             /\ conn.size * MemBlock = note[i].lent
             /\ conn.noHotplug = (i \in NoHotplugged)
  <2>1. conn.circuit \in Circuits
    BY CP!ElementsTyped, ComputeAssumption
     DEF IInv, Agents, Connected, CP!AnyConnection, CP!Connection
  <2>2. QED
    BY <1>1, <2>1 DEF Borrower, Registered
<1>5. Registered'
  <2>1. PICK new \in CP!Connection :
           /\ Connected' \subseteq Connected \cup {new}
           /\ new.circuit = i /\ new.size * MemBlock = note[i].lent
           /\ new.noHotplug = (i \in NoHotplugged)
    BY <1>1
  <2>2. ASSUME NEW conn \in Connected'
        PROVE  /\ conn.circuit = i
               /\ conn.size * MemBlock = note[i].lent
               /\ conn.noHotplug = (i \in NoHotplugged)
    BY <1>4, <2>1
  <2>3. QED
    BY <1>2, <2>2 DEF Registered
<1>6. ASSUME "offline" \notin ComputeFaults PROVE OnlineIsReached'
  <2>1. ASSUME NEW b \in CP!Blocks, csysmem[b] = "online"
        PROVE  /\ i \notin NoHotplugged
               /\ b \in BlocksOf(note[i].lent)
               /\ cregs[Afu].seg0.ea = note[i].ea
    BY <1>1, <1>6, <2>1 DEF Borrower, OnlineIsReached
  <2>2. ASSUME NEW b \in CP!Blocks, csysmem'[b] = "online"
        PROVE  /\ i \notin NoHotplugged
               /\ b \in BlocksOf(note[i].lent)
               /\ cregs'[Afu].seg0.ea = note[i].ea
    BY <1>1, <2>1, <2>2
  <2>3. QED
    BY <1>2, <2>2 DEF OnlineIsReached
<1>7. ASSUME "online" \notin ComputeFaults PROVE BorrowedMatches'
  <2>1. ASSUME NEW j \in Circuits, note'[j].compute = "attached"
        PROVE  j = i /\ exit' = 0
    BY <1>2, <2>1
  <2>2. exit' = 0 =>
           /\ cregs'[Afu].seg0 = [ea |-> note[i].ea, net |-> 2]
           /\ i \notin NoHotplugged => \A b \in BlocksOf(note[i].lent) : csysmem'[b] = "online"
    BY <1>1, <1>7
  <2>3. QED
    BY <1>2, <2>1, <2>2 DEF BorrowedMatches
<1>8. QED
  BY <1>3, <1>5, <1>6, <1>7 DEF Borrower

\* The blocks of a circuit that goes away are the blocks of its note.
LEMMA GoneIsNoted ==
    ASSUME IInv, Registered, NEW gone \in Connected
    PROVE  /\ gone.circuit \in Circuits
           /\ \A b \in BlocksOf(note[gone.circuit].lent) : b \in CP!Blocks /\ b < gone.size
<1>1. gone \in CP!Connection
  BY CP!ElementsTyped, ComputeAssumption DEF IInv, Agents, Connected, CP!AnyConnection
<1>2. gone.circuit \in Circuits /\ gone.size \in Nat \ {0}
  BY <1>1, DisaggregationAssumption DEF CP!Connection, CP!Sizes
<1>3. PICK size : size = note[gone.circuit].lent
  OBVIOUS
<1>4. size = gone.size * MemBlock /\ size # 0
  BY <1>2, <1>3, ProtoAssumption DEF Registered
<1>5. size \in Sizes /\ size % MemBlock = 0
  BY <1>2, <1>3, <1>4, NoteGiven DEF IInv
<1>6. gone.size = size \div MemBlock /\ BlocksOf(size) = {b \in CP!Blocks : b < size \div MemBlock}
  BY <1>2, <1>4, <1>5, BlocksOfNote
<1>7. QED
  BY <1>2, <1>3, <1>6

LEMMA ReturnKeeps ==
    ASSUME NoAccident, IInv, Borrower, NEW i \in Circuits, ReturnMemory(i)
    PROVE  Borrower'
<1>1. /\ note' = [note EXCEPT ![i].compute =
                    IF exit' = 0 THEN "none" ELSE IF @ = "attached" THEN "unknown" ELSE @]
      /\ cregs' = cregs
      /\ \/ Connected' = Connected /\ csysmem' = csysmem /\ exit' = 1
         \/ \E gone \in Connected :
               /\ gone.circuit = i
               /\ Connected' \subseteq {conn \in Connected : conn.circuit # i}
               /\ \A b \in CP!Blocks : csysmem'[b] = "online" => csysmem[b] = "online"
               /\ exit' = 0 /\ ~gone.noHotplug /\ "offline" \notin ComputeFaults =>
                     \A b \in CP!Blocks : b < gone.size => csysmem'[b] # "online"
  BY ReturnEffect
<1>2. /\ note'[i].compute # "attached"
      /\ exit' # 0 => (note'[i].compute = "none" <=> note[i].compute = "none")
      /\ exit' = 0 => note'[i].compute = "none"
      /\ \A j \in Circuits : note'[j].lent = note[j].lent /\ note'[j].ea = note[j].ea
      /\ \A j \in Circuits \ {i} : note'[j].compute = note[j].compute
  BY <1>1 DEF IInv, NotesTyped
<1>3. OneBorrower'
  BY <1>2 DEF Borrower, OneBorrower
<1>4. CASE Connected' = Connected /\ csysmem' = csysmem /\ exit' = 1
  <2>1. \A j \in Circuits : note'[j].compute = "none" <=> note[j].compute = "none"
    BY <1>2, <1>4
  <2>2. \A conn \in Connected : conn.circuit \in Circuits
    BY CP!ElementsTyped, ComputeAssumption
     DEF IInv, Agents, Connected, CP!AnyConnection, CP!Connection
  <2>3. Registered'
    BY <1>2, <1>4, <2>1, <2>2 DEF Borrower, Registered
  <2>4. "offline" \notin ComputeFaults => OnlineIsReached'
    BY <1>1, <1>2, <1>4, <2>1 DEF Borrower, OnlineIsReached
  <2>5. "online" \notin ComputeFaults => BorrowedMatches'
    BY <1>1, <1>2, <1>4 DEF Borrower, BorrowedMatches
  <2>6. QED
    BY <1>3, <2>3, <2>4, <2>5 DEF Borrower
<1>5. ASSUME NEW gone \in Connected,
             gone.circuit = i,
             Connected' \subseteq {conn \in Connected : conn.circuit # i},
             \A b \in CP!Blocks : csysmem'[b] = "online" => csysmem[b] = "online",
             exit' = 0 /\ ~gone.noHotplug /\ "offline" \notin ComputeFaults =>
                \A b \in CP!Blocks : b < gone.size => csysmem'[b] # "online"
      PROVE  Borrower'
  <2>1. /\ note[i].compute # "none"
        /\ gone.noHotplug = (i \in NoHotplugged)
        /\ \A j \in Circuits \ {i} : note[j].compute = "none"
    BY <1>5 DEF Borrower, Registered, OneBorrower
  <2>2. \A conn \in Connected : conn.circuit = i
    <3>1. \A conn \in Connected : conn.circuit \in Circuits
      BY GoneIsNoted DEF Borrower
    <3>2. QED
      BY <2>1, <3>1 DEF Borrower, Registered
  <2>3. Registered'
    BY <1>5, <2>2 DEF Registered
  <2>4. ASSUME "offline" \notin ComputeFaults PROVE OnlineIsReached'
    <3> SUFFICES ASSUME NEW b \in CP!Blocks, csysmem'[b] = "online"
                 PROVE  /\ i \in Circuits \ NoHotplugged
                        /\ note'[i].compute # "none"
                        /\ b \in BlocksOf(note'[i].lent)
                        /\ cregs'[Afu].seg0.ea = note'[i].ea
      BY DEF OnlineIsReached
    <3>1. /\ i \notin NoHotplugged
          /\ b \in BlocksOf(note[i].lent)
          /\ cregs[Afu].seg0.ea = note[i].ea
      BY <1>5, <2>1, <2>4 DEF Borrower, OnlineIsReached
    <3>2. b < gone.size
      BY <1>5, <3>1, GoneIsNoted DEF Borrower
    <3>3. ~gone.noHotplug
      BY <2>1, <3>1
    <3>4. exit' # 0
      BY <1>5, <2>4, <3>2, <3>3
    <3>5. QED
      BY <1>1, <1>2, <2>1, <3>1, <3>4
  <2>5. BorrowedMatches'
    BY <1>2, <2>1 DEF BorrowedMatches
  <2>6. QED
    BY <1>3, <2>3, <2>4, <2>5 DEF Borrower
<1>6. QED
  BY <1>1, <1>4, <1>5

\* The commands on the memory side only touch notes of circuits that are detached.
LEMMA LenderKeeps ==
    ASSUME IInv, Borrower, NEW i \in Circuits, note[i].compute = "none",
           note'[i].compute = "none",
           \A j \in Circuits \ {i} : note'[j] = note[j],
           UNCHANGED borrower
    PROVE  Borrower'
<1>1. \A j \in Circuits : note'[j].compute # "none" => note'[j] = note[j]
  OBVIOUS
<1>2. \A j \in Circuits : note[j].compute # "none" => note'[j] = note[j]
  OBVIOUS
<1>3. Connected' = Connected /\ csysmem' = csysmem /\ cregs' = cregs
  BY DEF borrower, Connected, CP!Range
<1>4. OneBorrower'
  BY <1>1 DEF Borrower, OneBorrower
<1>5. Registered'
  <2>1. \A conn \in Connected : conn.circuit \in Circuits
    BY GoneIsNoted DEF Borrower
  <2>2. QED
    BY <1>2, <1>3, <2>1 DEF Borrower, Registered
<1>6. "offline" \notin ComputeFaults => OnlineIsReached'
  BY <1>2, <1>3 DEF Borrower, OnlineIsReached
<1>7. "online" \notin ComputeFaults => BorrowedMatches'
  BY <1>1, <1>3 DEF Borrower, BorrowedMatches
<1>8. QED
  BY <1>4, <1>5, <1>6, <1>7 DEF Borrower

\* A compute agent that ends forgets its circuits, and the operator does not.
LEMMA RestartKeeps == IInv /\ Borrower /\ RestartCompute => Borrower'
<1> SUFFICES ASSUME IInv, Borrower, RestartCompute PROVE Borrower'
  OBVIOUS
<1>1. note' = note /\ csysmem' = csysmem /\ cregs' = cregs
  BY DEF RestartCompute, C!Terminate, C!Start
<1>2. Connected' \subseteq Connected
  BY DEF RestartCompute, C!Terminate, C!Start, C!Die, Connected, CP!Range
<1>3. QED
  BY <1>1, <1>2
   DEF Borrower, OneBorrower, Registered, OnlineIsReached, BorrowedMatches

LEMMA NextKeeps ==
    ASSUME CliPortsArrive, NoAccident
    PROVE  IInv /\ Borrower /\ [Next]_vars => Borrower'
<1> SUFFICES ASSUME IInv, Borrower, [Next]_vars PROVE Borrower'
  OBVIOUS
<1>1. ASSUME NEW i \in Circuits, NEW size \in Sizes, LendMemory(i, size) PROVE Borrower'
  <2>1. note[i].compute = "none" /\ UNCHANGED borrower
    BY <1>1, LendStep DEF IInv
  <2>2. note'[i].compute = "none" /\ \A j \in Circuits \ {i} : note'[j] = note[j]
    <3>1. note' = note \/ note' = [note EXCEPT ![i].lent = size, ![i].ea = mreply'.ea]
      BY <1>1, LendStep DEF IInv
    <3>2. QED
      BY <2>1, <3>1 DEF IInv, NotesTyped
  <2>3. QED
    BY <2>1, <2>2, LenderKeeps
<1>2. ASSUME NEW i \in Circuits, ReleaseMemory(i) PROVE Borrower'
  <2>1. note[i].compute = "none" /\ UNCHANGED borrower
    BY <1>2, ReleaseStep
  <2>2. note'[i].compute = "none" /\ \A j \in Circuits \ {i} : note'[j] = note[j]
    <3>1. note' = note \/ note' = [note EXCEPT ![i].lent = 0, ![i].ea = Null]
      BY <1>2, ReleaseStep
    <3>2. QED
      BY <2>1, <3>1 DEF IInv, NotesTyped
  <2>3. QED
    BY <2>1, <2>2, LenderKeeps
<1>3. CASE (\E size \in Sizes : RefuseSize(size)) \/ UNCHANGED vars
  <2>1. note' = note /\ csysmem' = csysmem /\ cregs' = cregs /\ Connected' = Connected
    BY <1>3 DEF RefuseSize, vars, borrower, Connected, CP!Range
  <2>2. QED
    BY <2>1 DEF Borrower, OneBorrower, Registered, OnlineIsReached, BorrowedMatches
<1>4. QED
  BY <1>1, <1>2, <1>3, BorrowKeeps, ReturnKeeps, RestartKeeps DEF Next

LEMMA InitKeeps == Init => Borrower
<1> SUFFICES ASSUME Init PROVE Borrower
  OBVIOUS
<1>1. \A i \in Circuits : note[i].compute = "none"
  BY DEF Init
<1>2. Connected = {}
  BY DEF Init, C!Init, Connected, CP!Range
<1>3. \A b \in CP!Blocks : csysmem[b] # "online"
  BY DEF Init, C!Init, C!Blocks, CP!Blocks
<1>4. QED
  BY <1>1, <1>2, <1>3
   DEF Borrower, OneBorrower, Registered, OnlineIsReached, BorrowedMatches

LEMMA BorrowerAlways ==
    ASSUME CliPortsArrive, NoAccident
    PROVE  Spec => []Borrower
<1>1. IInv /\ [Next]_vars => IInv'
  BY NextIInv
<1>2. IInv /\ Borrower /\ [Next]_vars => Borrower'
  BY NextKeeps
<1>3. QED
  BY <1>1, <1>2, InitIInv, InitKeeps, PTL DEF Spec

\* Whatever fails on either node, a connection that the compute agent still has is of
\* a circuit that the operator has not seen detached, with the size and the flag that
\* were typed: the detach unplugs what the attach plugged.
THEOREM ConnectionsAsTyped ==
    ASSUME CliPortsArrive, NoAccident
    PROVE  Spec => []RegisteredAsTyped
<1>1. Borrower => RegisteredAsTyped
  BY DEF Borrower, Registered, RegisteredAsTyped, Connected, CP!Range
<1>2. QED
  BY <1>1, BorrowerAlways, PTL

\* Unless the kernel refuses to take a block offline, and whatever else fails, no block
\* is online when the operator believes that everything is detached.
THEOREM OnlineBlocksAreBorrowed ==
    ASSUME CliPortsArrive, NoAccident, "offline" \notin ComputeFaults
    PROVE  Spec => []OnlineIsBorrowed
<1>1. Borrower => OnlineIsBorrowed
  BY DEF Borrower, OnlineIsReached, OnlineIsBorrowed, C!Blocks, CP!Blocks
<1>2. QED
  BY <1>1, BorrowerAlways, PTL

\* Unless the kernel refuses to bring a block online, and whatever else fails, a
\* circuit believed to be attached is online and the segment leads to its memory.
THEOREM AttachedIsOnline ==
    ASSUME CliPortsArrive, NoAccident, "online" \notin ComputeFaults
    PROVE  Spec => []BorrowedMatches
<1>1. Borrower => BorrowedMatches
  BY DEF Borrower
<1>2. QED
  BY <1>1, BorrowerAlways, PTL

-----------------------------------------------------------------------------
(* Both nodes.                                                             *)

LEMMA ReachedIsHeld ==
    ASSUME IInv, LentMatches, OnlineIsReached
    PROVE  BorrowedMemoryLives
<1> SUFFICES ASSUME NEW b \in CP!Blocks, csysmem[b] = "online"
             PROVE  cregs[Afu].seg0.ea # Null /\ mheap[cregs[Afu].seg0.ea] > b
  BY DEF BorrowedMemoryLives, C!Blocks, CP!Blocks
<1>1. PICK i \in Circuits \ NoHotplugged :
         b \in BlocksOf(note[i].lent) /\ cregs[Afu].seg0.ea = note[i].ea
  BY DEF OnlineIsReached
<1>2. PICK size : size = note[i].lent
  OBVIOUS
<1>3. size # 0
  <2>1. MemBlock \in Nat \ {0} /\ b >= 0
    BY ProtoAssumption, DisaggregationAssumption DEF CP!Blocks
  <2>2. b \in 0 .. size \div MemBlock - 1
    BY <1>1, <1>2 DEF BlocksOf
  <2>3. 0 \div MemBlock = 0
    BY <2>1
  <2>4. QED
    BY <2>1, <2>2, <2>3
<1>4. note[i].ea \in M!Uids /\ mheap[note[i].ea] * MemBlock = size
  BY <1>2, <1>3 DEF LentMatches
<1>5. mheap[note[i].ea] \in Nat
  <2>1. mheap \in [MP!Uids -> 0..NBlocks]
    BY DEF IInv, Agents, MP!IInv, MP!TypeOK
  <2>2. QED
    BY <1>4, <2>1, DisaggregationAssumption DEF MP!Uids, M!Uids
<1>6. size \in Sizes /\ size % MemBlock = 0
  BY <1>2, <1>3, NoteGiven DEF IInv
<1>7. mheap[note[i].ea] = size \div MemBlock
  BY <1>3, <1>4, <1>5, <1>6, BlocksOfNote
<1>8. b < size \div MemBlock
  BY <1>1, <1>2, <1>3, <1>6, BlocksOfNote
<1>9. note[i].ea # Null
  BY <1>4 DEF M!Uids, Null
<1>10. QED
  BY <1>1, <1>7, <1>8, <1>9

\* "It is necessary to detach the compute side first to avoid machine faults", and it
\* is enough: memory that the compute node has online is allocated on the memory node,
\* although commands fail, circuits are attached twice and the compute agent restarts.
THEOREM BorrowedMemoryIsAlive ==
    ASSUME CliPortsArrive, NoAccident, MemoryGranted, "offline" \notin ComputeFaults
    PROVE  Spec => []BorrowedMemoryLives
<1>1. IInv /\ [Next]_vars => IInv'
  BY NextIInv
<1>2. IInv /\ LentMatches /\ Borrower => BorrowedMemoryLives
  BY ReachedIsHeld DEF Borrower
<1>3. Spec => []LentMatches
  BY LentIsAllocated
<1>4. Spec => []Borrower
  BY BorrowerAlways
<1>5. QED
  BY <1>1, <1>2, <1>3, <1>4, InitIInv, PTL DEF Spec
=============================================================================
