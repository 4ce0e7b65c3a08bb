---------------------------- MODULE Backpressure ----------------------------
(***************************************************************************)
(* Credits of a network port (thymesisflow_32B_bckpressure_egress and      *)
(* _ingress with their two credit managers), at both ends of a link, and   *)
(* the requests and responses that pass through.                           *)
(*                                                                         *)
(* A flit that enters the egress costs a credit.  The ingress at the other *)
(* end counts the flits that leave its fifo, and its egress returns the    *)
(* whole count in a field of the next command flit it sends; data flits    *)
(* carry no credits.  Both sides tell data from commands by counting the   *)
(* data flits after a command that has data.                               *)
(*                                                                         *)
(* One action is a clock cycle of one end.  Between the two ends flits are *)
(* neither lost nor reordered, which is what LlcLink provides.             *)
(***************************************************************************)
EXTENDS Integers, Sequences

CONSTANTS
    Creds,      \* INIT_CREDS_COUNT, 254
    DataFlits,  \* data flits of a command with data, 4
    Requests,   \* the requests in use, out of "read" and "write"
    Window      \* Window[r]: requests r that the compute end has open at a time

ASSUME BackpressureAssumption ==
    /\ {Creds, DataFlits} \subseteq Nat \ {0}
    /\ Requests \subseteq {"read", "write"}
    /\ Window \in [Requests -> Nat]

\* A card is built for one of the two sides (TFCOMPUTE, TFMEMORY).
Nodes == {"compute", "memory"}
Peer(n) == IF n = "compute" THEN "memory" ELSE "compute"

VARIABLES
    avail,      \* TF_QSFP_REMOTE_INGR_CMGR: credits to send
    pending,    \* TF_QSFP_LOCAL_INGR_CMGR: credits to return
    out,        \* outdata_q of the egress, or NoFlit
    egr,        \* data flits that the egress expects, 0 in state CMDFLIT
    ing,        \* the same in the ingress
    link,       \* link[n]: flits from n to its peer, the fifo of the peer included
    left,       \* data flits left of the packet that n is sending, with its kind
    open,       \* open[r]: requests r that have no response yet
    owed        \* responses the memory end has still to send, by request

vars == <<avail, pending, out, egr, ing, link, left, open, owed>>

-----------------------------------------------------------------------------
(* Flits.  The bits of a data flit where a command has its credits are     *)
(* whatever the data is.                                                   *)

NoFlit == [packet |-> "none", cmd |-> FALSE, creds |-> 0]
Data(p) == [packet |-> p, cmd |-> FALSE, creds |-> 1]
Command(p) == [packet |-> p, cmd |-> TRUE, creds |-> 0]

\* The packet that answers a request.
Answer == [read |-> "readResp", write |-> "writeResp"]

\* is_writecmd or is_respRok: four data flits follow.
HasData(p) == p \in {"write", "readResp"}

\* Mutant of Follow: the last data flit of a packet is not counted.
FollowShort(k, f) ==
    IF k > 0 THEN k - 1 ELSE IF HasData(f.packet) THEN DataFlits - 1 ELSE 0

\* ocapi_sm and dflit_size after flit f, for either side.
Follow(k, f) ==
    IF k > 0 THEN k - 1 ELSE IF HasData(f.packet) THEN DataFlits ELSE 0

\* What end n is to send: the rest of a packet, else a response.
Due(n) ==
    IF left[n].count > 0 THEN {Data(left[n].packet)}
    ELSE {Command(Answer[r]) : r \in {q \in Requests : n = "memory" /\ owed[q] > 0}}

\* What it may be offered.
Offers(n) ==
    Due(n) \cup IF n = "compute" /\ left[n].count = 0
                  THEN {Command(r) : r \in {q \in Requests : open[q] < Window[q]}} ELSE {}

-----------------------------------------------------------------------------
(* A cycle of end n: the egress is offered flit f or none, ready says      *)
(* whether the fifo behind it has room, take whether the routing behind    *)
(* the ingress takes a flit.                                               *)

\* Mutant of PortReady: the credits are not looked at.
PortReadyAlways(n, ready) == ready

\* port_rdy
PortReady(n, ready) == ready /\ avail[n] > 0

Sends(n, f, ready) == f # NoFlit /\ PortReady(n, ready)
Takes(n, take) == take /\ link[Peer(n)] # <<>>
Incoming(n) == Head(link[Peer(n)])

\* Mutant of Returned: the ingress reads credits from data flits as well.
ReturnedAnyFlit(n, take) == IF Takes(n, take) THEN Incoming(n).creds ELSE 0

\* ret_remote_rx_creds
Returned(n, take) ==
    IF Takes(n, take) /\ ing[n] = 0 THEN Incoming(n).creds ELSE 0

\* cnt_local_rx_creds
Counted(n, take) == IF Takes(n, take) THEN 1 ELSE 0

\* Mutant of Pending: what is counted while all credits are taken is lost.
PendingCleared(n, f, ready, take) ==
    IF Sends(n, f, ready) /\ egr[n] = 0
      THEN 0 ELSE pending[n] + Counted(n, take)

\* The credits to return: get_all_credits leaves what is counted in this cycle.
Pending(n, f, ready, take) ==
    (IF Sends(n, f, ready) /\ egr[n] = 0 THEN 0 ELSE pending[n]) + Counted(n, take)

\* The output register and the fifo behind it.  A flit that took the last credit
\* waits in the register.
Egress(n, f, ready) ==
    IF PortReady(n, ready)
      THEN /\ out' = [out EXCEPT ![n] =
                        IF f # NoFlit /\ egr[n] = 0
                          THEN [f EXCEPT !.creds = pending[n]] ELSE f]
           /\ egr' = IF f = NoFlit THEN egr ELSE [egr EXCEPT ![n] = Follow(@, f)]
      ELSE UNCHANGED <<out, egr>>

\* ocapi_sm of the ingress.
Ingress(n, take) ==
    ing' = IF Takes(n, take) THEN [ing EXCEPT ![n] = Follow(@, Incoming(n))] ELSE ing

\* One flit leaves the register of n, one leaves the fifo of n.
Links(n, ready, take) ==
    link' = [link EXCEPT
               ![n] = IF PortReady(n, ready) /\ out[n] # NoFlit THEN Append(@, out[n]) ELSE @,
               ![Peer(n)] = IF Takes(n, take) THEN Tail(@) ELSE @]

\* The users of the link: packets that n begins, and packets that have arrived.
Begins(n, f, ready, r) == Sends(n, f, ready) /\ f = Command(r)
Arrives(n, take, p) ==
    /\ Takes(n, take) /\ Incoming(n).packet = p
    /\ Follow(ing[n], Incoming(n)) = 0
Change(up, down) == (IF up THEN 1 ELSE 0) - (IF down THEN 1 ELSE 0)

Users(n, f, ready, take) ==
    /\ left' = IF ~Sends(n, f, ready) THEN left
               ELSE [left EXCEPT ![n] =
                       IF f.cmd THEN [packet |-> f.packet,
                                      count |-> IF HasData(f.packet) THEN DataFlits ELSE 0]
                                ELSE [packet |-> @.packet, count |-> @.count - 1]]
    /\ open' = [r \in Requests |->
                  open[r] + Change(Begins(n, f, ready, r), Arrives(n, take, Answer[r]))]
    /\ owed' = [r \in Requests |->
                  owed[r] + Change(Arrives(n, take, r), Begins(n, f, ready, Answer[r]))]

Cycle(n, f, ready, take) ==
    /\ avail' = [avail EXCEPT ![n] =
                   @ + Returned(n, take) - IF Sends(n, f, ready) THEN 1 ELSE 0]
    /\ pending' = [pending EXCEPT ![n] = Pending(n, f, ready, take)]
    /\ Egress(n, f, ready)
    /\ Ingress(n, take)
    /\ Links(n, ready, take)
    /\ Users(n, f, ready, take)

-----------------------------------------------------------------------------
Init ==
    /\ avail = [n \in Nodes |-> Creds]
    /\ pending = [n \in Nodes |-> 0]
    /\ out = [n \in Nodes |-> NoFlit]
    /\ egr = [n \in Nodes |-> 0]
    /\ ing = [n \in Nodes |-> 0]
    /\ link = [n \in Nodes |-> <<>>]
    /\ left = [n \in Nodes |-> [packet |-> "none", count |-> 0]]
    /\ open = [r \in Requests |-> 0]
    /\ owed = [r \in Requests |-> 0]

Next ==
    \E n \in Nodes, ready, take \in BOOLEAN :
        \E f \in Offers(n) \cup {NoFlit} : Cycle(n, f, ready, take)

Spec == Init /\ [][Next]_vars

\* The clock runs, the fifos drain, the routing takes what arrives, and what is due
\* is offered.  Nobody has to begin another request.
FairSpec ==
    /\ Spec
    /\ \A n \in Nodes :
         /\ WF_vars(\E f \in Offers(n) \cup {NoFlit}, ready \in BOOLEAN :
                      Takes(n, TRUE) /\ Cycle(n, f, ready, TRUE))
         /\ WF_vars(\E f \in Due(n), take \in BOOLEAN :
                      PortReady(n, TRUE) /\ Cycle(n, f, TRUE, take))
         /\ WF_vars(\E take \in BOOLEAN :
                      Due(n) = {} /\ PortReady(n, TRUE) /\ Cycle(n, NoFlit, TRUE, take))

-----------------------------------------------------------------------------
(* Properties.                                                             *)

Flits == [packet : {"read", "write", "readResp", "writeResp"}, cmd : BOOLEAN,
          creds : 0..Creds]

\* The credit registers need no more bits than the credits have: credits_available
\* leaves out the overflow bit.
TypeOK ==
    /\ avail \in [Nodes -> 0..Creds]
    /\ pending \in [Nodes -> 0..Creds]
    /\ out \in [Nodes -> Flits \cup {NoFlit}]
    /\ egr \in [Nodes -> 0..DataFlits]
    /\ ing \in [Nodes -> 0..DataFlits]
    /\ link \in [Nodes -> Seq(Flits)]
    /\ left \in [Nodes -> [packet : {"none", "read", "write", "readResp", "writeResp"},
                           count : 0..DataFlits]]
    /\ \A r \in Requests : open[r] \in 0..Window[r] /\ owed[r] \in 0..open[r]

\* The credits in the commands of s.
CreditsIn(s) ==
    LET sum[i \in 0..Len(s)] ==
          IF i = 0 THEN 0 ELSE sum[i - 1] + (IF s[i].cmd THEN s[i].creds ELSE 0)
    IN  sum[Len(s)]

\* Credits on their way back to n: the peer has put them into a command flit.
Carried(n) == CreditsIn(Append(link[Peer(n)], out[Peer(n)]))

\* No credit is lost or made: those of n are in its counter, paid for a flit that
\* has not left the fifo of the peer, counted by the peer, or on their way back.
CreditsConserved ==
    \A n \in Nodes :
        avail[n] + Len(link[n]) + Change(out[n] # NoFlit, FALSE)
          + pending[Peer(n)] + Carried(n) = Creds

\* The fifo of the peer never has to hold more flits than there are credits,
\* which keeps serial links that cannot wait from overflowing it.
NoOverrun ==
    \A n \in Nodes : Len(link[n]) <= Creds

\* Both state machines know which flits are commands: the egress never writes
\* credits over data, the ingress never reads data as credits.
InStep ==
    \A n \in Nodes :
        /\ egr[n] = left[n].count
        /\ link[Peer(n)] # <<>> => (Incoming(n).cmd <=> ing[n] = 0)

\* While requests are open, responses arrive: no end waits for credits that the
\* other one cannot return, as long as the responses to all the requests that the
\* compute end may have open need fewer flits than there are credits.
RequestsAnswered ==
    (\E r \in Requests : open[r] > 0) ~>
        \E r \in Requests : Arrives("compute", TRUE, Answer[r])
=============================================================================
