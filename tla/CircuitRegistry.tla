-------------------------- MODULE CircuitRegistry --------------------------
(***************************************************************************)
(* What the connection list of the agent promises: a partial function from *)
(* circuit ids to the connection that owns each.  A circuit has one owner, *)
(* keeps it until it is released, and no request touches the entry of      *)
(* another circuit.                                                        *)
(***************************************************************************)
CONSTANTS Circuits, Owners

VARIABLE owner

NoOwner == [c \in {} |-> c]

Init == owner = NoOwner

Register(c, o) ==
    /\ c \notin DOMAIN owner
    /\ owner' = [d \in DOMAIN owner \cup {c} |-> IF d = c THEN o ELSE owner[d]]

Release(c) ==
    /\ c \in DOMAIN owner
    /\ owner' = [d \in DOMAIN owner \ {c} |-> owner[d]]

\* The process ends and its list with it.
Forget == owner' = NoOwner

Next ==
    \/ \E c \in Circuits, o \in Owners : Register(c, o)
    \/ \E c \in Circuits : Release(c)
    \/ Forget

Spec == Init /\ [][Next]_owner
=============================================================================
