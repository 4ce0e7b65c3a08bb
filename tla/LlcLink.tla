------------------------------ MODULE LlcLink ------------------------------
(***************************************************************************)
(* The link layer (LLC) between two ThymesisFlow FPGAs.  Each side has a   *)
(* framer, which numbers outgoing frames by the slot of its replay buffer, *)
(* and a parser, which counts the frames it accepts.  Frames carry no      *)
(* number: the two counters agree because nothing is lost or repeated.     *)
(*                                                                         *)
(* The serdes flags frames whose CRC is wrong.  The parser then stalls,    *)
(* dropping what arrives, and has its own framer send a resend request     *)
(* with the number it expects, as a one-flit in-band message sent in       *)
(* several copies.  The framer of the peer marks every slot from that      *)
(* number up to its write slot as unsent, moves its read slot back, and    *)
(* sends copies of a preamble, which ends the stall, before the frames.    *)
(*                                                                         *)
(* A frame is 4 flits; the egress driver always completes a frame, with    *)
(* NOPs if need be.  Reading and sending a frame is one step here, writing *)
(* one is two, because the slot is torn in between.                        *)
(***************************************************************************)
EXTENDS Integers, Sequences

CONSTANTS
    Nodes,      \* the two ends of the link
    Slots,      \* slots of the replay buffer (64 in the hardware)
    Copies,     \* copies of each in-band message (3 in the hardware)
    RoundTrip,  \* timing: the frames a framer can take in while the frame that
                \* the peer expects next is in flight, lost or being resent
    BurstTogether,  \* timing: the copies of a message all arrive before the
                    \* first of them has been served
    MaxWrites,  \* bound: frames each node writes
    MaxErrors,  \* bound: CRC errors in a behaviour
    MaxFlight   \* bound: items in flight in each direction

ASSUME LinkAssumption ==
    /\ \E a, b \in Nodes : a # b /\ Nodes = {a, b}
    /\ Slots \in Nat /\ Slots >= 2
    /\ Copies \in Nat \ {0}
    /\ BurstTogether \in BOOLEAN
    /\ MaxWrites \in [Nodes -> Nat]

Ids == 0 .. Slots - 1
Succ(id) == (id + 1) % Slots
Distance(from, to) == (to - from) % Slots

\* Mutant of Span: the write slot is marked too.
SpanInclusive(from, to) == {id \in Ids : Distance(from, id) <= Distance(from, to)}

\* Ids from `from' up to `to' exclusive; the whole buffer when they are equal.
Span(from, to) ==
    IF from = to THEN Ids ELSE {id \in Ids : Distance(from, id) < Distance(from, to)}

Peer(n) == CHOOSE p \in Nodes : p # n

Torn == 0       \* content of a slot that holds flits of two frames
None == -1      \* no request latched

Frame(d)    == [kind |-> "frame", data |-> d, ok |-> TRUE]
Request(id) == [kind |-> "request", data |-> id, ok |-> TRUE]
Preamble    == [kind |-> "preamble", data |-> 0, ok |-> TRUE]
Burst(msg)  == [i \in 1..Copies |-> msg]

VARIABLES
    (* framer *)
    written,    \* frames completely written: frame i is the i-th one
    writing,    \* a frame is partly in the write slot
    store,      \* content of each slot: a frame number or Torn
    unsent,     \* slots marked valid
    rdq,        \* slot to read next
    serving,    \* the framer is between patching and the end of the preamble
    remoteReq,  \* resend request of the peer, latched until it is served
    localReq,   \* resend request of this node's parser, latched until it is sent
    (* parser *)
    expected,   \* current_frameid
    stalled,    \* a CRC error was seen, no preamble since
    delivered,  \* frames that passed the CRC check outside of a stall
    (* the wire *)
    wire,       \* wire[n]: what n has sent and its peer has not received
    errors      \* CRC errors so far

framer == <<written, writing, store, unsent, rdq, serving, remoteReq, localReq>>
parser == <<expected, stalled, delivered>>
vars == <<framer, parser, wire, errors>>

wrq(n) == written[n] % Slots

-----------------------------------------------------------------------------
(* Framer.                                                                 *)

\* fifo_in_tready: at most one complete frame ahead of the reader
Ready(n) ==
    LET frameDistance == IF wrq(n) >= rdq[n] /\ unsent[n] = Ids
                            THEN Slots - 1 ELSE Distance(rdq[n], wrq(n))
    IN  frameDistance <= 1

\* What the hardware has no interlock for: the peer expects a frame that is at
\* most RoundTrip frames old.
WithinRoundTrip(n) == written[n] - Len(delivered[Peer(n)]) < RoundTrip

\* The first flit of a frame enters the write slot.  rdy_lock keeps a frame from
\* starting while a resend is in progress.
BeginFrame(n) ==
    /\ ~writing[n] /\ ~serving[n]
    /\ Ready(n)
    /\ written[n] < MaxWrites[n] /\ WithinRoundTrip(n)
    /\ writing' = [writing EXCEPT ![n] = TRUE]
    /\ store' = [store EXCEPT ![n][wrq(n)] = Torn]
    /\ UNCHANGED <<written, unsent, rdq, serving, remoteReq, localReq, parser, wire, errors>>

\* Its last flit does; a frame that was started is finished even during a resend.
EndFrame(n) ==
    /\ writing[n] /\ Ready(n)
    /\ store' = [store EXCEPT ![n][wrq(n)] = written[n] + 1]
    /\ unsent' = [unsent EXCEPT ![n] = @ \cup {wrq(n)}]
    /\ written' = [written EXCEPT ![n] = @ + 1]
    /\ writing' = [writing EXCEPT ![n] = FALSE]
    /\ UNCHANGED <<rdq, serving, remoteReq, localReq, parser, wire, errors>>

\* Room on the wire for a burst as well as for a frame.
Room(n) == Len(wire[n]) + Copies <= MaxFlight

\* Send the frame of the read slot, or of the next slot that is marked: the reader
\* passes over unmarked slots as long as some slot is marked.
SendFrame(n) ==
    /\ ~serving[n] /\ unsent[n] # {} /\ Room(n)
    /\ \E id \in unsent[n] :
         /\ \A other \in unsent[n] : Distance(rdq[n], id) <= Distance(rdq[n], other)
         /\ wire' = [wire EXCEPT ![n] = Append(@, Frame(store[n][id]))]
         /\ unsent' = [unsent EXCEPT ![n] = @ \ {id}]
         /\ rdq' = [rdq EXCEPT ![n] = Succ(id)]
    /\ UNCHANGED <<written, writing, store, serving, remoteReq, localReq, parser, errors>>

\* Mutant of Patch: the reader stays where it is.
PatchKeepsReader(n) ==
    /\ ~serving[n] /\ remoteReq[n] # None
    /\ unsent' = [unsent EXCEPT ![n] = @ \cup Span(remoteReq[n], wrq(n))]
    /\ serving' = [serving EXCEPT ![n] = TRUE]
    /\ UNCHANGED <<written, writing, store, rdq, remoteReq, localReq, parser, wire, errors>>

\* SM_RM_ACTIVATE_PATCHING: mark the slots from the requested one up to the write
\* slot and read from there.
Patch(n) ==
    /\ ~serving[n] /\ remoteReq[n] # None
    /\ unsent' = [unsent EXCEPT ![n] = @ \cup Span(remoteReq[n], wrq(n))]
    /\ rdq' = [rdq EXCEPT ![n] = remoteReq[n]]
    /\ serving' = [serving EXCEPT ![n] = TRUE]
    /\ UNCHANGED <<written, writing, store, remoteReq, localReq, parser, wire, errors>>

\* A request that is latched or about to be: the rest of a burst on the wire.
BurstArriving(n) ==
    wire[Peer(n)] # <<>> /\ Head(wire[Peer(n)]).kind = "request"

\* Mutant of SendPreamble: both latches are cleared.
SendPreambleClears(n) ==
    /\ serving[n] /\ Room(n)
    /\ BurstTogether => ~BurstArriving(n)
    /\ wire' = [wire EXCEPT ![n] = @ \o Burst(Preamble)]
    /\ remoteReq' = [remoteReq EXCEPT ![n] = None]
    /\ localReq' = [localReq EXCEPT ![n] = None]
    /\ serving' = [serving EXCEPT ![n] = FALSE]
    /\ UNCHANGED <<written, writing, store, unsent, rdq, parser, errors>>

\* SM_RM_SEND_PREAMBLE: only now may another request of the peer be latched.
SendPreamble(n) ==
    /\ serving[n] /\ Room(n)
    /\ BurstTogether => ~BurstArriving(n)
    /\ wire' = [wire EXCEPT ![n] = @ \o Burst(Preamble)]
    /\ remoteReq' = [remoteReq EXCEPT ![n] = None]
    /\ serving' = [serving EXCEPT ![n] = FALSE]
    /\ UNCHANGED <<written, writing, store, unsent, rdq, localReq, parser, errors>>

\* SM_RETRANS_MSG_XMIT: a request of the peer goes first.
SendRequest(n) ==
    /\ ~serving[n] /\ remoteReq[n] = None /\ localReq[n] # None
    /\ Room(n)
    /\ wire' = [wire EXCEPT ![n] = @ \o Burst(Request(localReq[n]))]
    /\ localReq' = [localReq EXCEPT ![n] = None]
    /\ UNCHANGED <<written, writing, store, unsent, rdq, serving, remoteReq, parser, errors>>

-----------------------------------------------------------------------------
(* Parser of n, for what its peer sent.                                    *)

Arrives(n) == wire[Peer(n)] # <<>>
Arrival(n) == Head(wire[Peer(n)])
Taken(n) == wire' = [wire EXCEPT ![Peer(n)] = Tail(@)]

\* A frame with a good CRC
Accept(n) ==
    /\ Arrives(n) /\ Arrival(n).kind = "frame" /\ Arrival(n).ok
    /\ ~stalled[n]
    /\ delivered' = [delivered EXCEPT ![n] = Append(@, Arrival(n).data)]
    /\ expected' = [expected EXCEPT ![n] = Succ(@)]
    /\ Taken(n)
    /\ UNCHANGED <<framer, stalled, errors>>

\* A frame with a wrong CRC: stall, and ask the local framer for a resend; it
\* remembers one request.
Reject(n) ==
    /\ Arrives(n) /\ Arrival(n).kind = "frame" /\ ~Arrival(n).ok
    /\ ~stalled[n]
    /\ stalled' = [stalled EXCEPT ![n] = TRUE]
    /\ localReq' = [localReq EXCEPT ![n] = IF @ = None THEN expected[n] ELSE @]
    /\ Taken(n)
    /\ UNCHANGED <<written, writing, store, unsent, rdq, serving, remoteReq,
                   expected, delivered, errors>>

\* Whatever is dropped: frames during a stall, in-band messages with a wrong CRC
Drop(n) ==
    /\ Arrives(n)
    /\ IF Arrival(n).kind = "frame" THEN stalled[n] ELSE ~Arrival(n).ok
    /\ Taken(n)
    /\ UNCHANGED <<framer, parser, errors>>

\* Mutant of TakeRequest: a stalled parser takes no message.
TakeRequestUnstalled(n) ==
    /\ Arrives(n) /\ Arrival(n).kind = "request" /\ Arrival(n).ok
    /\ remoteReq' = [remoteReq EXCEPT ![n] =
                        IF @ = None /\ ~stalled[n] THEN Arrival(n).data ELSE @]
    /\ Taken(n)
    /\ UNCHANGED <<written, writing, store, unsent, rdq, serving, localReq, parser, errors>>

\* A resend request of the peer; the framer ignores it while it has one.
TakeRequest(n) ==
    /\ Arrives(n) /\ Arrival(n).kind = "request" /\ Arrival(n).ok
    /\ remoteReq' = [remoteReq EXCEPT ![n] = IF @ = None THEN Arrival(n).data ELSE @]
    /\ Taken(n)
    /\ UNCHANGED <<written, writing, store, unsent, rdq, serving, localReq, parser, errors>>

TakePreamble(n) ==
    /\ Arrives(n) /\ Arrival(n).kind = "preamble" /\ Arrival(n).ok
    /\ stalled' = [stalled EXCEPT ![n] = FALSE]
    /\ Taken(n)
    /\ UNCHANGED <<framer, expected, delivered, errors>>

Receive(n) == Accept(n) \/ Reject(n) \/ Drop(n) \/ TakeRequest(n) \/ TakePreamble(n)

\* The wire damages something in flight.
Corrupt(n) ==
    /\ errors < MaxErrors
    /\ \E i \in DOMAIN wire[n] :
         /\ wire[n][i].ok
         /\ wire' = [wire EXCEPT ![n][i].ok = FALSE]
    /\ errors' = errors + 1
    /\ UNCHANGED <<framer, parser>>

-----------------------------------------------------------------------------
Init ==
    /\ written = [n \in Nodes |-> 0]
    /\ writing = [n \in Nodes |-> FALSE]
    /\ store = [n \in Nodes |-> [id \in Ids |-> Torn]]
    /\ unsent = [n \in Nodes |-> {}]
    /\ rdq = [n \in Nodes |-> 0]
    /\ serving = [n \in Nodes |-> FALSE]
    /\ remoteReq = [n \in Nodes |-> None]
    /\ localReq = [n \in Nodes |-> None]
    /\ expected = [n \in Nodes |-> 0]
    /\ stalled = [n \in Nodes |-> FALSE]
    /\ delivered = [n \in Nodes |-> <<>>]
    /\ wire = [n \in Nodes |-> <<>>]
    /\ errors = 0

Write(n) == BeginFrame(n) \/ EndFrame(n)
Transmit(n) == SendFrame(n) \/ Patch(n) \/ SendPreamble(n) \/ SendRequest(n)

Next == \E n \in Nodes : Write(n) \/ Transmit(n) \/ Receive(n) \/ Corrupt(n)

Spec == Init /\ [][Next]_vars

\* The hardware is clocked: a framer that can send does, an arriving item is
\* handled in the cycle it arrives, and the egress driver completes a frame with
\* NOPs.  Nothing forces a frame to be started, or a CRC error.
Fairness ==
    \A n \in Nodes :
       /\ WF_vars(EndFrame(n))
       /\ WF_vars(Receive(n))
       /\ WF_vars(SendFrame(n))
       /\ WF_vars(Patch(n))
       /\ WF_vars(SendPreamble(n))
       /\ WF_vars(SendRequest(n))

FairSpec == Spec /\ Fairness

-----------------------------------------------------------------------------
(* Properties.                                                             *)

\* The link implements a reliable channel in each direction: no frame is lost,
\* repeated, reordered or assembled from two, whatever the CRC errors hit.
Channel == INSTANCE FrameChannel
ReliableChannel == Channel!Spec

\* A slot is never sent while it holds flits of two frames.
NoTornFrame ==
    \A n \in Nodes : \A i \in DOMAIN wire[n] :
       wire[n][i].kind = "frame" => wire[n][i].data # Torn

\* A stalled parser is never forgotten: its request, or the preamble that answers
\* it, is somewhere between its framer and its own input.
StallIsAnswered ==
    \A n \in Nodes : stalled[n] =>
       LET p == Peer(n) IN
       \/ localReq[n] # None
       \/ \E i \in DOMAIN wire[n] : wire[n][i].kind = "request" /\ wire[n][i].ok
       \/ remoteReq[p] # None
       \/ \E i \in DOMAIN wire[p] : wire[p][i].kind = "preamble" /\ wire[p][i].ok

\* Every frame written reaches the peer.
EveryFrameArrives ==
    \A n \in Nodes : \A k \in 1..MaxWrites[n] :
       written[n] >= k ~> Len(delivered[Peer(n)]) >= k
=============================================================================
