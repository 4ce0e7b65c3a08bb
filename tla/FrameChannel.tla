---------------------------- MODULE FrameChannel ---------------------------
(***************************************************************************)
(* What the LLC promises in each direction: the frames that one node hands *)
(* to its framer come out of the parser of its peer, all of them, once,    *)
(* in order.                                                               *)
(***************************************************************************)
EXTENDS Naturals, Sequences

CONSTANTS Nodes, Peer(_)

VARIABLES
    written,    \* written[n]: frames handed to the framer of n; frame i is the i-th
    delivered   \* delivered[n]: the frames n has received, in order

Init ==
    /\ written = [n \in Nodes |-> 0]
    /\ delivered = [n \in Nodes |-> <<>>]

Write(n) ==
    /\ written' = [written EXCEPT ![n] = @ + 1]
    /\ UNCHANGED delivered

Deliver(n) ==
    /\ Len(delivered[n]) < written[Peer(n)]
    /\ delivered' = [delivered EXCEPT ![n] = Append(@, Len(@) + 1)]
    /\ UNCHANGED written

Next == \E n \in Nodes : Write(n) \/ Deliver(n)

Spec == Init /\ [][Next]_<<written, delivered>>
=============================================================================
