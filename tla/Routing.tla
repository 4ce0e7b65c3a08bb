------------------------------- MODULE Routing -------------------------------
(***************************************************************************)
(* The two links between the cards as one stream: the egress of one node   *)
(* (thymesisflow_64B_32B_routing_egress), which splits packets over the    *)
(* ports, and the ingress of the other (thymesisflow_32B_64B_routing_      *)
(* memory_ingress or _compute_ingress with its round robin arbiter), which *)
(* merges them again.                                                      *)
(*                                                                         *)
(* A packet is a command and, if its opcode says so, 128 bytes of data.  A *)
(* flit is half of what the 64-byte stream carries at a time: part 0 is    *)
(* the command, parts 1 to 4 are the data.  Each port has a register per   *)
(* part on either node and a state machine that empties them in turn.      *)
(*                                                                         *)
(* One action is a clock cycle of one node.  What is between the nodes     *)
(* (ports, LLC, fifos) is a queue per link.                                *)
(***************************************************************************)
EXTENDS Integers, Sequences, SequencesExt

CONSTANTS
    Opcodes,    \* Opcodes[d]: the opcodes in use in direction d
    Nets,       \* Nets[d]: the port bits in use, of one or both ports
    LinkDepth,  \* flits a link holds
    MaxPackets  \* bound: packets in a behaviour

Directions == {"requests", "responses"}
Ports == {0, 1}
Parts == 0..4

ASSUME RoutingAssumption ==
    /\ Opcodes \in [Directions -> SUBSET Nat]
    /\ Nets \in [Directions -> SUBSET ((SUBSET Ports) \ {{}})]
    /\ {LinkDepth, MaxPackets} \subseteq Nat \ {0}

Other(p) == 1 - p

VARIABLES
    direction,  \* requests to a memory node or responses to a compute node
    unreset,    \* the reset_n input of the arbiter reads 1
    accepted,   \* accepted[p]: opcodes of the packets the egress took for link p
    input,      \* output_turn, dflit_size (0 in state INPUT_CMD_RESP), next_data_interface_id
    held,       \* the flit at the input, if it was not taken yet
    ereg,       \* ereg[p][j]: cmdflit, dataflit0h .. dataflit1l of the egress
    esm,        \* port_sm of the egress: the part that goes next
    ebuf,       \* its ping-pong buffers, written and read in turn: queues of two
    link,       \* link[p]: flits between the nodes
    ireg,       \* the registers of the ingress
    insm,       \* portin_sm: the part that comes next
    ism,        \* port_sm of the ingress: 0 in CMD, 1 in DFLIT0, 2 in DFLIT1
    mask,       \* masked_req_vector of the arbiter
    header,     \* the command in a slot of the output that is not valid yet
    obuf,       \* the ping-pong buffer of the output
    taking,     \* what the node behind has taken of the current or last packet
    delivered,  \* delivered[p]: the packets of link p that are complete there
    passed      \* passed[p]: commands that went before the one p has waiting

egressVars  == <<accepted, input, held, ereg, esm, ebuf>>
ingressVars == <<ireg, insm, ism, mask, header, obuf, taking, delivered, passed>>
vars == <<direction, unreset, egressVars, link, ingressVars>>

-----------------------------------------------------------------------------
(* Flits.  Packet n of a link is the n-th that the egress took for it; op  *)
(* and net are the opcode and the port bits of a command.                  *)

Flit(p, n, j, op, net) == [link |-> p, n |-> n, part |-> j, op |-> op, net |-> net]
NoFlit == Flit(0, 0, 0, 0, {})

\* The bit of weight w.
Bit(n, w) == (n \div w) % 2 = 1

\* is_writecmd, is_respRok
HasData(op) == Bit(op, 32) \/ (Bit(op, 4) /\ ~Bit(op, 1))

\* is_writecmd_in, is_respROK_in: what the ingress expects behind a command.
DataFollowsIn(op) ==
    IF direction = "requests" THEN Bit(op, 32) ELSE Bit(op, 4) /\ ~Bit(op, 1)

\* is_writecmd, is_respROK: what its second stage expects, of the opcode in cmdflit_q.
DataFollows(op) == IF direction = "requests" THEN Bit(op, 32) ELSE Bit(op, 1)

\* Responses cross the network with TLx opcodes, the host takes TL ones.
Transcoded(op) ==
      (IF Bit(op, 8) THEN 4 ELSE 0)
    + (IF Bit(op, 4) /\ Bit(op, 1) THEN 2 ELSE 0)
    + (IF (Bit(op, 4) /\ ~Bit(op, 1)) \/ (Bit(op, 8) /\ Bit(op, 1)) THEN 1 ELSE 0)

-----------------------------------------------------------------------------
(* A cycle of the egress.  valid says whether its input has a flit, op and *)
(* net are those of a command, ready are the links that take a flit.  The  *)
(* source keeps a flit up until it is taken: its output register is        *)
(* cleared only then (thymesisflow_64B_compute_egress_adapter).            *)

\* next_cmd_interface_id: packets that may use both links use them in turn.
NextPort(net) == IF net = Ports THEN input.turn ELSE IF 0 \in net THEN 0 ELSE 1

\* The registers a flit of the input goes to, and the one tready looks at.
\* dflit_size counts down: two data flits are to come, then one, then a command.
Halves(size) == CASE size = 0 -> {0} [] size = 2 -> {1, 2} [] size = 1 -> {3, 4}
Low(size) == CHOOSE j \in Halves(size) : \A i \in Halves(size) : i <= j

\* ping_pong_ready, and the register that goes to the buffer in this cycle.
EgressMoves(p, j) == Len(ebuf[p]) < 2 /\ esm[p] = j /\ ereg[p][j] # NoFlit

\* Mutant of EgressFree: a register is loaded whatever it holds.
EgressAlwaysFree(p, j) == TRUE

EgressFree(p, j) == ereg[p][j] = NoFlit \/ (Len(ebuf[p]) < 2 /\ esm[p] = j)

EgressCycle(valid, op, net, ready) ==
    LET command == input.size = 0
        p == IF command THEN NextPort(net) ELSE input.port
        tready == EgressFree(p, Low(input.size))
        n == Len(accepted[p]) + (IF command THEN 1 ELSE 0)
        Loads(q, j) == valid /\ q = p /\ j \in Halves(input.size) /\ EgressFree(q, j)
        kept == [op |-> op, net |-> net]
        sent == {q \in ready : ebuf[q] # <<>> /\ Len(link[q]) < LinkDepth}
    IN  /\ held # <<>> => valid /\ kept = held[1]
        /\ held' = IF valid /\ ~tready THEN <<kept>> ELSE <<>>
        /\ input' = IF ~(valid /\ tready) THEN input
                    ELSE IF ~command THEN [input EXCEPT !.size = @ - 1]
                    ELSE [turn |-> 1 - input.turn,
                          size |-> IF HasData(op) THEN 2 ELSE 0,
                          port |-> IF HasData(op) THEN p ELSE input.port]
        /\ accepted' = IF valid /\ tready /\ command
                       THEN [accepted EXCEPT ![p] = Append(@, op)] ELSE accepted
        /\ ereg' = [q \in Ports |-> [j \in Parts |->
               IF Loads(q, j)
               THEN IF j = 0 THEN Flit(p, n, 0, op, net) ELSE Flit(p, n, j, 0, {})
               ELSE IF EgressMoves(q, j) THEN NoFlit ELSE ereg[q][j]]]
        /\ esm' = [q \in Ports |->
               IF ~EgressMoves(q, esm[q]) THEN esm[q]
               ELSE IF esm[q] = 0 /\ ~HasData(ereg[q][0].op) THEN 0
               ELSE (esm[q] + 1) % 5]
        /\ ebuf' = [q \in Ports |->
               (IF q \in sent THEN Tail(ebuf[q]) ELSE ebuf[q]) \o
               (IF EgressMoves(q, esm[q]) THEN <<ereg[q][esm[q]]>> ELSE <<>>)]
        /\ link' = [q \in Ports |->
               IF q \in sent THEN Append(link[q], Head(ebuf[q])) ELSE link[q]]
    /\ UNCHANGED <<direction, unreset, ingressVars>>

-----------------------------------------------------------------------------
(* A cycle of the ingress.  arrived are the links whose flit it is shown,  *)
(* take says whether the node behind takes what is in the output.          *)

Requests == {p \in Ports : ireg[p][0] # NoFlit}
Lowest(s) == {p \in s : \A q \in s : p <= q}

\* arb_sel: the ports that are left of this round, else a new round.
Selected == Lowest(IF mask = {} THEN Requests ELSE mask)

\* Mutant of CmdMoves: the other port may be between the flits of a packet.
CmdMovesAnyTime(p) == Len(obuf) < 2 /\ Selected = {p} /\ ism[p] = 0 /\ ireg[p][0] # NoFlit

\* A command goes to the output: outportid_data of the other port is 00.
CmdMoves(p) ==
    /\ Len(obuf) < 2
    /\ Selected = {p}
    /\ ism[p] = 0 /\ ism[Other(p)] = 0
    /\ ireg[p][0] # NoFlit

\* A data flit goes to the output, both halves at once.
DataMoves(p, k) == Len(obuf) < 2 /\ ism[p] = k /\ k # 0 /\ ireg[p][2 * k] # NoFlit

Consumed(p, j) == IF j = 0 THEN CmdMoves(p) ELSE DataMoves(p, (j + 1) \div 2)
IngressFree(p, j) == ireg[p][j] = NoFlit \/ Consumed(p, j)

\* A command as it is loaded.  The memory node notes the link for the response.
Arrived(p, f) ==
    IF f.part # 0 THEN f
    ELSE IF direction = "requests" THEN [f EXCEPT !.net = {p}]
    ELSE [f EXCEPT !.op = Transcoded(@), !.net = {}]

Item(cmd, hi, lo) == [cmd |-> cmd, hi |-> hi, lo |-> lo]

\* The compute node keeps the command of a read response in its slot, which is
\* not valid until the first data flit joins it.
Held ==
    {ireg[p][0] : p \in {q \in Ports :
        CmdMoves(q) /\ direction = "responses" /\ DataFollows(ireg[q][0].op)}}

\* What goes to the output.
Written(p) ==
    IF CmdMoves(p) /\ ireg[p][0] \notin Held THEN <<Item(ireg[p][0], NoFlit, NoFlit)>>
    ELSE IF DataMoves(p, ism[p])
    THEN <<Item(IF ism[p] = 1 THEN header ELSE NoFlit,
                ireg[p][2 * ism[p] - 1], ireg[p][2 * ism[p]])>>
    ELSE <<>>

\* Mutant of NextMask: no history is kept.
NextMaskForgetful == {}

\* Mutant of NextMask: a new round includes the port that was just served.
NextMaskStale == IF mask = {} THEN Requests ELSE mask \ Selected

\* masked_req_vector after a decision.
NextMask == ((IF mask = {} THEN Requests ELSE mask) \ Selected) \cap Requests

\* The items of a packet with this command, by its opcode.
Size(cmd) == CASE direction = "requests" /\ Bit(cmd.op, 32) -> 3
               [] direction = "responses" /\ cmd.op = 1 -> 2
               [] OTHER -> 1

\* The node behind takes an item: it begins a packet or goes on with one.
Complete(items) == items # <<>> /\ Len(items) = Size(items[1].cmd)
Takes(item) ==
    /\ taking' = IF taking = <<>> \/ Complete(taking) THEN <<item>> ELSE Append(taking, item)
    /\ delivered' = IF Complete(taking')
                    THEN [delivered EXCEPT ![taking'[1].cmd.link] = Append(@, taking'[1].cmd.n)]
                    ELSE delivered

IngressCycle(arrived, take) ==
    LET Loads(p) == p \in arrived /\ link[p] # <<>> /\ IngressFree(p, insm[p])
        taken == take /\ obuf # <<>>
        decided == \E p \in Ports : CmdMoves(p)
    IN  /\ link' = [p \in Ports |-> IF Loads(p) THEN Tail(link[p]) ELSE link[p]]
        /\ insm' = [p \in Ports |->
               IF ~Loads(p) THEN insm[p]
               ELSE IF insm[p] = 0 /\ ~DataFollowsIn(Head(link[p]).op) THEN 0
               ELSE (insm[p] + 1) % 5]
        /\ ireg' = [p \in Ports |-> [j \in Parts |->
               IF Loads(p) /\ insm[p] = j THEN Arrived(p, Head(link[p]))
               ELSE IF Consumed(p, j) THEN NoFlit ELSE ireg[p][j]]]
        /\ ism' = [p \in Ports |->
               IF \/ CmdMoves(p) /\ DataFollows(ireg[p][0].op)
                  \/ DataMoves(p, ism[p]) /\ ireg[p][2 * ism[p] - 1] # NoFlit
               THEN (ism[p] + 1) % 3 ELSE ism[p]]
        /\ header' = IF Held # {} THEN CHOOSE f \in Held : TRUE
                     ELSE IF \E p \in Ports : DataMoves(p, 1) THEN NoFlit ELSE header
        /\ mask' = IF ~unreset THEN {} ELSE IF decided THEN NextMask ELSE mask
        /\ obuf' = (IF taken THEN Tail(obuf) ELSE obuf) \o Written(0) \o Written(1)
        /\ IF taken THEN Takes(Head(obuf)) ELSE UNCHANGED <<taking, delivered>>
        /\ passed' = [p \in Ports |->
               IF CmdMoves(p) \/ ireg[p][0] = NoFlit THEN 0
               ELSE IF decided THEN passed[p] + 1 ELSE passed[p]]
    /\ UNCHANGED <<direction, unreset, egressVars>>

-----------------------------------------------------------------------------
Init ==
    /\ direction \in Directions
    /\ unreset \in IF direction = "requests" THEN BOOLEAN ELSE {TRUE}
    /\ accepted = [p \in Ports |-> <<>>]
    /\ input = [turn |-> 0, size |-> 0, port |-> 0]
    /\ held = <<>>
    /\ ereg = [p \in Ports |-> [j \in Parts |-> NoFlit]]
    /\ esm = [p \in Ports |-> 0]
    /\ ebuf = [p \in Ports |-> <<>>]
    /\ link = [p \in Ports |-> <<>>]
    /\ ireg = [p \in Ports |-> [j \in Parts |-> NoFlit]]
    /\ insm = [p \in Ports |-> 0]
    /\ ism = [p \in Ports |-> 0]
    /\ mask = {}
    /\ header = NoFlit
    /\ obuf = <<>>
    /\ taking = <<>>
    /\ delivered = [p \in Ports |-> <<>>]
    /\ passed = [p \in Ports |-> 0]

Egress ==
    \E ready \in SUBSET Ports :
       \/ EgressCycle(FALSE, 0, {}, ready)
       \/ input.size > 0 /\ EgressCycle(TRUE, 0, {}, ready)
       \/ /\ input.size = 0
          /\ Len(accepted[0]) + Len(accepted[1]) < MaxPackets
          /\ \E op \in Opcodes[direction], net \in Nets[direction] : EgressCycle(TRUE, op, net, ready)

Ingress == \E arrived \in SUBSET Ports, take \in BOOLEAN : IngressCycle(arrived, take)

Next == Egress \/ Ingress

Spec == Init /\ [][Next]_vars

\* A cycle of the egress in which both links take a flit.
EgressFlows ==
    IF held # <<>> THEN EgressCycle(TRUE, held[1].op, held[1].net, Ports)
                   ELSE EgressCycle(input.size > 0, 0, {}, Ports)

\* The clock runs, links and the node behind take what they are given, and the
\* data of a command follow it.  Nothing obliges anyone to send a command.
FairSpec ==
    /\ Spec
    /\ WF_vars(EgressFlows)
    /\ WF_vars(IngressCycle(Ports, TRUE))

-----------------------------------------------------------------------------
(* Properties *)

\* The opcodes of the table above the transcoder (compute_ingress.v:295).
TLOpcode == [op \in {4, 5, 8, 9} |-> CASE op = 4 -> 1 [] op = 5 -> 2 [] op = 8 -> 4 [] op = 9 -> 5]

\* The items of the packet with this command, as the node behind should see them.
Packet(cmd) ==
    LET op == accepted[cmd.link][cmd.n]
        c == Flit(cmd.link, cmd.n, 0,
                  IF direction = "requests" THEN op ELSE TLOpcode[op],
                  IF direction = "requests" THEN {cmd.link} ELSE {})
        D(j) == Flit(cmd.link, cmd.n, j, 0, {})
    IN  CASE direction = "requests" /\ Bit(op, 32) ->
               <<Item(c, NoFlit, NoFlit), Item(NoFlit, D(1), D(2)), Item(NoFlit, D(3), D(4))>>
          [] direction = "responses" /\ op = 4 ->
               <<Item(c, D(1), D(2)), Item(NoFlit, D(3), D(4))>>
          [] OTHER -> <<Item(c, NoFlit, NoFlit)>>

\* Whatever way two links are split and merged, a command leaves with its own
\* data, uninterrupted and in order, its opcode translated as the table says and
\* a request with the link it came by.
PacketsWhole ==
    taking # <<>> =>
       /\ taking[1].cmd # NoFlit
       /\ IsPrefix(taking, Packet(taking[1].cmd))

\* The packets of each link arrive once and in order: the registers and buffers
\* of both nodes make a channel of packets of it.
Same(p) == p
Links == INSTANCE FrameChannel WITH
            Nodes <- Ports, Peer <- Same, written <- [p \in Ports |-> Len(accepted[p])]
LinksImplemented == Links!Spec

\* A command that waits is passed by one command of the other link at most, if
\* the arbiter is out of reset.
NotPassedOver == unreset => \A p \in Ports : passed[p] <= 1

\* Every packet that the egress took arrives: again and again nothing is under way.
EveryPacketArrives == []<>(\A p \in Ports : Len(delivered[p]) = Len(accepted[p]))
=============================================================================
