------------------------------- MODULE Proto -------------------------------
(***************************************************************************)
(* The messages between thymesisf-cli and thymesisf-agent: what the client *)
(* puts in a request, what the agent reads from it, what it answers, and   *)
(* which exit code the client makes of the answer.  Everything here is a   *)
(* pure operator; Disaggregation composes it with the agents.              *)
(*                                                                         *)
(* A message is one buffer of fixed layout; only its fields matter here.   *)
(* It comes from malloc, and a setter that refuses its argument leaves the *)
(* field as it was.  Names (circuit, AFU) are given and not empty.         *)
(***************************************************************************)
EXTENDS Integers, SequencesExt

CONSTANTS
    Unwritten,  \* what a field holds that no setter wrote
    MemBlock    \* MEMBLOCK_SIZE in units of sizes: 2 lets a size be a fraction

ASSUME ProtoAssumption == MemBlock \in Nat \ {0}

MaxPort == 8    \* ports are bits of one byte

NewMessage ==
    [type |-> Unwritten, circuit |-> Unwritten, afu |-> Unwritten, ports |-> Unwritten,
     size |-> Unwritten, ea |-> Unwritten, noHotplug |-> Unwritten, status |-> Unwritten]

-----------------------------------------------------------------------------
(* Port lists, and the byte in which they travel.                          *)

AddPort(pl, port) == <<port>> \o pl

\* marshal_iports: one bit for each port, summed in a u_int8_t
MarshalIports(pl) == FoldLeft(LAMBDA sum, port : (sum + 2^(port - 1)) % 256, 0, pl)

Bit(n, port) == (n \div 2^(port - 1)) % 2 = 1

\* unmarshal_iports: from bit 0 upwards, each port found goes to the head of the list
UnmarshalIports(n) ==
    FoldLeft(LAMBDA pl, port : IF Bit(n, port) THEN AddPort(pl, port) ELSE pl,
             <<>>, [p \in 1..MaxPort |-> p])

-----------------------------------------------------------------------------
(* Setters.                                                                *)

SetSize(msg, size) ==
    IF size > 0 /\ size % MemBlock = 0 THEN [msg EXCEPT !.size = size] ELSE msg

SetEa(msg, ea) == IF ea # 0 THEN [msg EXCEPT !.ea = ea] ELSE msg

\* Mutant of SetNoHotplug: the range check is off by one.
SetNoHotplugStrict(msg, flag) == IF flag = 0 THEN [msg EXCEPT !.noHotplug = 0] ELSE msg

SetNoHotplug(msg, flag) ==
    IF flag \in 0..1 THEN [msg EXCEPT !.noHotplug = flag] ELSE msg

SetIports(msg, pl) == [msg EXCEPT !.ports = MarshalIports(pl)]

-----------------------------------------------------------------------------
(* Requests of the client.                                                 *)

Header(type, cid) == [NewMessage EXCEPT !.type = type, !.circuit = cid]

AttachMemoryRequest(cid, afu, pl, size) ==
    SetSize(SetIports([Header("memory_attach", cid) EXCEPT !.afu = afu], pl), size)

AttachComputeRequest(cid, afu, pl, size, ea, noHotplug) ==
    SetNoHotplug(SetEa(SetSize(SetIports([Header("compute_attach", cid) EXCEPT !.afu = afu],
                                         pl), size), ea), noHotplug)

DetachMemoryRequest(cid)  == Header("memory_detach", cid)
DetachComputeRequest(cid) == Header("compute_detach", cid)

-----------------------------------------------------------------------------
(* Responses of the agent, made from the request and the handler's result. *)

AttachMemoryResponse(req, status, ea) ==
    LET msg == [Header("mresponse_attach", req.circuit) EXCEPT !.afu = req.afu, !.status = status]
    IN  SetEa(SetSize(SetIports(msg, UnmarshalIports(req.ports)), req.size), ea)

AttachComputeResponse(req, status) ==
    LET msg == [Header("cresponse_attach", req.circuit) EXCEPT !.afu = req.afu, !.status = status]
    IN  SetIports(SetSize(msg, req.size), UnmarshalIports(req.ports))

\* Mutant of DetachResponse: the answer is written before the handler ran.
DetachResponseEarly(type, req, status) ==
    [Header(type, req.circuit) EXCEPT !.status = "DETACH_OK"]

DetachResponse(type, req, status) == [Header(type, req.circuit) EXCEPT !.status = status]

\* set_unknown_mode_response writes neither a type nor a status.
UnknownModeResponse(req) == [NewMessage EXCEPT !.circuit = req.circuit, !.afu = req.afu]

\* handle_request: the response to req, once its handler returned status and ea
Response(req, status, ea) ==
    CASE req.type = "memory_attach"  -> AttachMemoryResponse(req, status, ea)
      [] req.type = "memory_detach"  -> DetachResponse("mresponse_detach", req, status)
      [] req.type = "compute_attach" -> AttachComputeResponse(req, status)
      [] req.type = "compute_detach" -> DetachResponse("cresponse_detach", req, status)
      [] OTHER                       -> UnknownModeResponse(req)

-----------------------------------------------------------------------------
(* The command line.                                                       *)

\* thymesisf-cli always asks for port 2 (AFU_PORT).
CliPorts == AddPort(<<>>, 2)

ValidMemSize(size) == size % MemBlock = 0

\* What handle_memory_attach and handle_compute_attach refuse to send.
MemoryAttachGiven(size) == size # 0 /\ ValidMemSize(size)
ComputeAttachGiven(size, ea) == size # 0 /\ ea # 0 /\ ValidMemSize(size)

\* Exit codes.  When the agent died there is no response: the buffer is fresh
\* heap, and what it holds is no success code.
AttachExit(rsp) == IF rsp.status = "ATTACH_OK" THEN 0 ELSE 1
DetachExit(rsp) == IF rsp.status = "DETACH_OK" THEN 0 ELSE 1

-----------------------------------------------------------------------------
(* What the codec of the ports promises; TLC evaluates it once.            *)

\* Every byte is the encoding of a list of distinct ports, and no bit is lost: the
\* list has a port for each bit, and in either order it is encoded as that byte.
PortsRoundTrip ==
    \A n \in 0..255 :
       LET pl == UnmarshalIports(n) IN
       /\ Range(pl) = {port \in 1..MaxPort : Bit(n, port)}
       /\ MarshalIports(pl) = n
       /\ MarshalIports(Reverse(pl)) = n

\* The port that the client asks for is the one that the agent finds.
CliPortsArrive == UnmarshalIports(MarshalIports(CliPorts)) = CliPorts
=============================================================================
