------------------------- MODULE BackpressureProofs -------------------------
(***************************************************************************)
(* Proofs about Backpressure, for every number of credits, every length of *)
(* a packet and every number of requests in flight: both ends of a link    *)
(* agree on which flits are commands, no fifo has to hold more flits than  *)
(* there are credits, no credit is lost or made, and no counter leaves its *)
(* range.                                                                  *)
(*                                                                         *)
(* What a stream of flits amounts to (the state in which it leaves the     *)
(* ingress, the credits it carries) is computed position by position.      *)
(* Instead of computing it the invariant says that the intermediate results*)
(* exist, one for each position, which is kept when a flit is appended and *)
(* when the first one is taken.  That the sum which the model computes is  *)
(* the one the invariant speaks of follows from the least position at which*)
(* they would differ.                                                      *)
(***************************************************************************)
EXTENDS Backpressure, FiniteSetTheorems, WellFoundedInduction, TLAPS

Packets == {"read", "write", "readResp", "writeResp"}

\* The flits between the egress of n and the ingress of its peer.
Stream(n) == IF out[n] = NoFlit THEN link[n] ELSE Append(link[n], out[n])

\* An ingress in state a that takes all of s ends in state b, and it takes
\* exactly the command flits in state CMDFLIT.
Parses(s, a, b) ==
    \E k \in [1 .. Len(s) + 1 -> 0..DataFlits] :
        /\ k[1] = a /\ k[Len(s) + 1] = b
        /\ \A i \in 1..Len(s) : (s[i].cmd <=> k[i] = 0) /\ k[i + 1] = Follow(k[i], s[i])

\* The commands of s carry t credits.
Brings(f) == IF f.cmd THEN f.creds ELSE 0
Carries(s, t) ==
    \E c \in [1 .. Len(s) + 1 -> Nat] :
        /\ t = c[Len(s) + 1] - c[1]
        /\ \A i \in 1..Len(s) : c[i + 1] = c[i] + Brings(s[i])
        /\ \A i, j \in 1 .. Len(s) + 1 : i <= j => c[i] <= c[j]

-----------------------------------------------------------------------------
(* The inductive invariant.                                                *)

\* The packet that n is sending has data as long as there are flits left of it.
Sending(n) ==
    /\ left[n].count > 0 => HasData(left[n].packet)
    /\ egr[n] = left[n].count

Conserved(n) ==
    \E t \in Nat :
        /\ Carries(Stream(Peer(n)), t)
        /\ avail[n] + Len(Stream(n)) + pending[Peer(n)] + t = Creds

Typed ==
    /\ avail \in [Nodes -> Nat]
    /\ pending \in [Nodes -> Nat]
    /\ out \in [Nodes -> Flits \cup {NoFlit}]
    /\ egr \in [Nodes -> 0..DataFlits]
    /\ ing \in [Nodes -> 0..DataFlits]
    /\ link \in [Nodes -> Seq(Flits)]
    /\ left \in [Nodes -> [packet : Packets \cup {"none"}, count : 0..DataFlits]]

IInv ==
    /\ Typed
    /\ \A n \in Nodes :
         Sending(n) /\ Parses(Stream(n), ing[Peer(n)], egr[n]) /\ Conserved(n)

-----------------------------------------------------------------------------
(* Streams of flits.                                                       *)

LEMMA FollowTyped ==
    ASSUME NEW k \in 0..DataFlits, NEW f PROVE Follow(k, f) \in 0..DataFlits
BY BackpressureAssumption DEF Follow

\* A flit that the egress counted as the ingress will count it keeps them in step.
LEMMA ParsesAppend ==
    ASSUME NEW s \in Seq(Flits), NEW f \in Flits, NEW a, NEW b \in 0..DataFlits,
           Parses(s, a, b), f.cmd <=> b = 0
    PROVE  Parses(Append(s, f), a, Follow(b, f))
<1> DEFINE long == Append(s, f)
<1>1. PICK k \in [1 .. Len(s) + 1 -> 0..DataFlits] :
        /\ k[1] = a /\ k[Len(s) + 1] = b
        /\ \A i \in 1..Len(s) : (s[i].cmd <=> k[i] = 0) /\ k[i + 1] = Follow(k[i], s[i])
  BY DEF Parses
<1>2. /\ Len(s) \in Nat /\ Len(long) = Len(s) + 1
      /\ long[Len(s) + 1] = f /\ \A i \in 1..Len(s) : long[i] = s[i]
  OBVIOUS
<1> HIDE DEF long
<1> DEFINE m == [i \in 1 .. Len(long) + 1 |-> IF i = Len(long) + 1 THEN Follow(b, f) ELSE k[i]]
<1>3. m \in [1 .. Len(long) + 1 -> 0..DataFlits]
  BY <1>2, FollowTyped
<1>4. /\ m[Len(long) + 1] = Follow(b, f)
      /\ \A i \in 1 .. Len(s) + 1 : m[i] = k[i]
  BY <1>2
<1> HIDE DEF m
<1>5. m[1] = a
  BY <1>1, <1>2, <1>4
<1>6. ASSUME NEW i \in 1..Len(long)
      PROVE  (long[i].cmd <=> m[i] = 0) /\ m[i + 1] = Follow(m[i], long[i])
  <2>1. CASE i = Len(s) + 1
    BY <2>1, <1>1, <1>2, <1>4
  <2>2. CASE i \in 1..Len(s)
    BY <2>2, <1>1, <1>2, <1>4, SMTT(30)
  <2>3. QED
    BY <2>1, <2>2, <1>2
<1>7. QED
  BY <1>3, <1>4, <1>5, <1>6 DEF Parses, long

\* The ingress takes the first flit of the stream in the right state.
LEMMA ParsesTail ==
    ASSUME NEW s \in Seq(Flits), s # <<>>, NEW a, NEW b, Parses(s, a, b)
    PROVE  /\ Head(s).cmd <=> a = 0
           /\ Parses(Tail(s), Follow(a, Head(s)), b)
<1> DEFINE short == Tail(s)
<1>1. PICK k \in [1 .. Len(s) + 1 -> 0..DataFlits] :
        /\ k[1] = a /\ k[Len(s) + 1] = b
        /\ \A i \in 1..Len(s) : (s[i].cmd <=> k[i] = 0) /\ k[i + 1] = Follow(k[i], s[i])
  BY DEF Parses
<1>2. /\ Len(s) \in Nat \ {0} /\ Len(short) = Len(s) - 1 /\ Head(s) = s[1]
      /\ \A i \in 1 .. Len(s) - 1 : short[i] = s[i + 1]
  OBVIOUS
<1> HIDE DEF short
<1> DEFINE m == [i \in 1 .. Len(short) + 1 |-> k[i + 1]]
<1>3. m \in [1 .. Len(short) + 1 -> 0..DataFlits]
  BY <1>2
<1>4. \A i \in 1..Len(s) : m[i] = k[i + 1]
  BY <1>2
<1> HIDE DEF m
<1>5. Head(s).cmd <=> a = 0
  BY <1>1, <1>2
<1>6. m[1] = Follow(a, Head(s)) /\ m[Len(short) + 1] = b
  BY <1>1, <1>2, <1>4
<1>7. ASSUME NEW i \in 1..Len(short)
      PROVE  (short[i].cmd <=> m[i] = 0) /\ m[i + 1] = Follow(m[i], short[i])
  <2>1. /\ i \in 1..Len(s) /\ i + 1 \in 1..Len(s)
        /\ m[i] = k[i + 1] /\ m[i + 1] = k[i + 2] /\ short[i] = s[i + 1]
    BY <1>2, <1>4
  <2>2. (s[i + 1].cmd <=> k[i + 1] = 0) /\ k[(i + 1) + 1] = Follow(k[i + 1], s[i + 1])
    BY <2>1, <1>1
  <2>3. QED
    BY <2>1, <2>2
<1>8. QED
  BY <1>3, <1>5, <1>6, <1>7 DEF Parses, short

\* Appending a flit adds its credits.
LEMMA CarriesAppend ==
    ASSUME NEW S, NEW s \in Seq(S), NEW f \in S, NEW t \in Nat, Carries(s, t),
           Brings(f) \in Nat
    PROVE  Carries(Append(s, f), t + Brings(f))
<1> DEFINE long == Append(s, f)
<1>1. PICK c \in [1 .. Len(s) + 1 -> Nat] :
        /\ t = c[Len(s) + 1] - c[1]
        /\ \A i \in 1..Len(s) : c[i + 1] = c[i] + Brings(s[i])
        /\ \A i, j \in 1 .. Len(s) + 1 : i <= j => c[i] <= c[j]
  BY DEF Carries
<1>2. /\ Len(s) \in Nat /\ Len(long) = Len(s) + 1
      /\ long[Len(s) + 1] = f /\ \A i \in 1..Len(s) : long[i] = s[i]
  OBVIOUS
<1> HIDE DEF long
<1> DEFINE m == [i \in 1 .. Len(long) + 1 |->
                   IF i = Len(long) + 1 THEN c[Len(s) + 1] + Brings(f) ELSE c[i]]
<1>3. m \in [1 .. Len(long) + 1 -> Nat]
  BY <1>2
<1>4. /\ m[Len(long) + 1] = c[Len(s) + 1] + Brings(f)
      /\ \A i \in 1 .. Len(s) + 1 : m[i] = c[i]
  BY <1>2
<1> HIDE DEF m
<1>5. t + Brings(f) = m[Len(long) + 1] - m[1]
  BY <1>1, <1>2, <1>4, SMTT(30)
<1>6. ASSUME NEW i \in 1..Len(long) PROVE m[i + 1] = m[i] + Brings(long[i])
  BY <1>1, <1>2, <1>4
<1>7. ASSUME NEW i \in 1 .. Len(long) + 1, NEW j \in 1 .. Len(long) + 1, i <= j
      PROVE  m[i] <= m[j]
  <2>1. CASE i = Len(long) + 1
    BY <2>1, <1>7, <1>2, <1>3
  <2>2. CASE i <= Len(s) + 1 /\ j = Len(long) + 1
    <3>1. i \in 1 .. Len(s) + 1 /\ Len(s) + 1 \in 1 .. Len(s) + 1
      BY <2>2, <1>2
    <3>2. c[i] <= c[Len(s) + 1] /\ c[i] \in Nat /\ c[Len(s) + 1] \in Nat
      BY <3>1, <2>2, <1>1, <1>2
    <3>3. m[i] = c[i] /\ m[j] = c[Len(s) + 1] + Brings(f)
      BY <3>1, <2>2, <1>4
    <3>4. QED
      BY <3>2, <3>3
  <2>3. CASE i <= Len(s) + 1 /\ j <= Len(s) + 1
    BY <2>3, <1>7, <1>1, <1>2, <1>4
  <2>4. QED
    BY <2>1, <2>2, <2>3, <1>2
<1>8. QED
  BY <1>3, <1>5, <1>6, <1>7 DEF Carries, long

\* Taking the first flit takes its credits.
LEMMA CarriesTail ==
    ASSUME NEW s \in Seq(Flits), s # <<>>, NEW t \in Nat, Carries(s, t)
    PROVE  t - Brings(Head(s)) \in Nat /\ Carries(Tail(s), t - Brings(Head(s)))
<1> DEFINE short == Tail(s)
<1>1. PICK c \in [1 .. Len(s) + 1 -> Nat] :
        /\ t = c[Len(s) + 1] - c[1]
        /\ \A i \in 1..Len(s) : c[i + 1] = c[i] + Brings(s[i])
        /\ \A i, j \in 1 .. Len(s) + 1 : i <= j => c[i] <= c[j]
  BY DEF Carries
<1>2. /\ Len(s) \in Nat \ {0} /\ Len(short) = Len(s) - 1 /\ Head(s) = s[1]
      /\ s[1] \in Flits
      /\ \A i \in 1 .. Len(s) - 1 : short[i] = s[i + 1]
  OBVIOUS
<1>b. Brings(Head(s)) \in Nat
  BY <1>2, BackpressureAssumption DEF Brings, Flits
<1> HIDE DEF short
<1> DEFINE m == [i \in 1 .. Len(short) + 1 |-> c[i + 1]]
<1>3. m \in [1 .. Len(short) + 1 -> Nat]
  BY <1>2
<1>4. \A i \in 1..Len(s) : m[i] = c[i + 1]
  BY <1>2
<1> HIDE DEF m
<1>5. c[2] = c[1] + Brings(Head(s)) /\ c[2] <= c[Len(s) + 1]
  BY <1>1, <1>2
<1>6. t - Brings(Head(s)) = m[Len(short) + 1] - m[1] /\ t - Brings(Head(s)) \in Nat
  <2>1. c[1] \in Nat /\ c[2] \in Nat /\ c[Len(s) + 1] \in Nat
    BY <1>2, SMTT(30)
  <2>2. m[Len(short) + 1] = c[Len(s) + 1] /\ m[1] = c[2]
    BY <1>2, <1>4
  <2>3. QED
    BY <2>1, <2>2, <1>1, <1>5, <1>b, SMTT(30)
<1>7. \A i \in 1..Len(short) : m[i + 1] = m[i] + Brings(short[i])
  BY <1>1, <1>2, <1>4
<1>8. \A i, j \in 1 .. Len(short) + 1 : i <= j => m[i] <= m[j]
  BY <1>1, <1>2, <1>4, SMTT(30)
<1>9. QED
  BY <1>3, <1>6, <1>7, <1>8 DEF Carries, short

-----------------------------------------------------------------------------
(* A cycle of one end.                                                     *)

LEMMA TwoNodes ==
    ASSUME NEW n \in Nodes
    PROVE  /\ Peer(n) \in Nodes /\ Peer(n) # n /\ Peer(Peer(n)) = n
           /\ Nodes = {n, Peer(n)}
BY DEF Nodes, Peer

LEMMA TailAppend ==
    ASSUME NEW S, NEW s \in Seq(S), s # <<>>, NEW e \in S
    PROVE  Tail(Append(s, e)) = Append(Tail(s), e) /\ Head(Append(s, e)) = Head(s)
OBVIOUS

LEMMA StreamTyped ==
    ASSUME Typed, NEW n \in Nodes
    PROVE  Stream(n) \in Seq(Flits) /\ Len(link[n]) <= Len(Stream(n))
BY DEF Typed, Stream

LEMMA NoFlitIsNone == NoFlit \notin Flits
BY DEF NoFlit, Flits

\* What may be offered is a command exactly when no packet is under way.
LEMMA OffersTyped ==
    ASSUME IInv, NEW n \in Nodes, NEW f \in Offers(n)
    PROVE  /\ f \in Flits
           /\ f.cmd <=> egr[n] = 0
           /\ ~f.cmd => HasData(f.packet)
<1>1. /\ Typed /\ Sending(n)
      /\ 1 \in 0..Creds /\ 0 \in 0..Creds /\ Requests \subseteq {"read", "write"}
  BY BackpressureAssumption DEF IInv
<1>2. CASE f \in Due(n) /\ left[n].count > 0
  <2>1. f = Data(left[n].packet) /\ HasData(left[n].packet)
    BY <1>1, <1>2 DEF Due, Sending
  <2>2. QED
    BY <2>1, <1>1, <1>2 DEF Data, HasData, Flits, Sending
<1>3. CASE ~(f \in Due(n) /\ left[n].count > 0)
  <2>1. left[n].count = 0
    BY <1>1, <1>3 DEF Offers, Typed, Due
  <2>2. PICK p \in Packets : f = Command(p)
    BY <1>1, <1>3, <2>1 DEF Offers, Due, Packets, Answer
  <2>3. QED
    BY <2>1, <2>2, <1>1 DEF Command, Flits, Packets, Sending
<1>4. QED
  BY <1>2, <1>3

\* The flit that goes into the output register.
LEMMA SentFlit ==
    ASSUME IInv, NEW n \in Nodes, NEW ready \in BOOLEAN,
           NEW f \in Offers(n) \cup {NoFlit},
           Egress(n, f, ready), Sends(n, f, ready)
    PROVE  /\ f \in Offers(n) /\ out'[n] \in Flits
           /\ out'[n].packet = f.packet /\ (out'[n].cmd <=> f.cmd)
           /\ out'[n].cmd <=> egr[n] = 0
           /\ Brings(out'[n]) = IF egr[n] = 0 THEN pending[n] ELSE 0
           /\ out' = [out EXCEPT ![n] = out'[n]]
           /\ egr' = [egr EXCEPT ![n] = Follow(egr[n], out'[n])]
<1>1. f \in Offers(n) /\ f \in Flits /\ (f.cmd <=> egr[n] = 0) /\ Typed
  BY OffersTyped DEF Sends, IInv
<1>2. pending[n] \in 0..Creds
  <2>1. Conserved(Peer(n)) /\ Peer(Peer(n)) = n /\ Peer(n) \in Nodes
    BY TwoNodes DEF IInv
  <2>2. PICK t \in Nat : avail[Peer(n)] + Len(Stream(Peer(n))) + pending[n] + t = Creds
    BY <2>1 DEF Conserved
  <2>3. avail[Peer(n)] \in Nat /\ Len(Stream(Peer(n))) \in Nat /\ pending[n] \in Nat
    BY <1>1, <2>1, StreamTyped DEF Typed
  <2>4. QED
    BY <2>2, <2>3, BackpressureAssumption
<1>3. out' = [out EXCEPT ![n] = IF egr[n] = 0 THEN [f EXCEPT !.creds = pending[n]] ELSE f]
  BY DEF Egress, Sends
<1>4. out'[n] = IF egr[n] = 0 THEN [f EXCEPT !.creds = pending[n]] ELSE f
  BY <1>1, <1>3 DEF Typed
<1>5. out'[n] \in Flits /\ out'[n].packet = f.packet /\ out'[n].cmd = f.cmd
      /\ (egr[n] = 0 => out'[n].creds = pending[n])
  BY <1>1, <1>2, <1>4 DEF Flits
<1>6. egr' = [egr EXCEPT ![n] = Follow(egr[n], out'[n])]
  BY <1>5 DEF Egress, Sends, Follow
<1>7. QED
  BY <1>1, <1>3, <1>4, <1>5, <1>6 DEF Brings

\* A cycle appends the flit that is sent to the stream of the end.
LEMMA StreamSent ==
    ASSUME IInv, NEW n \in Nodes, NEW ready \in BOOLEAN, NEW take \in BOOLEAN,
           NEW f \in Offers(n) \cup {NoFlit}, Cycle(n, f, ready, take)
    PROVE  /\ Sends(n, f, ready) => Stream(n)' = Append(Stream(n), out'[n])
           /\ ~Sends(n, f, ready) => Stream(n)' = Stream(n)
<1>1. Typed /\ Peer(n) # n
  BY TwoNodes DEF IInv
<1>2. link'[n] = IF PortReady(n, ready) /\ out[n] # NoFlit
                   THEN Append(link[n], out[n]) ELSE link[n]
  BY <1>1 DEF Cycle, Links, Typed
<1>3. CASE ~PortReady(n, ready)
  BY <1>2, <1>3 DEF Cycle, Egress, Sends, Stream
<1>4. CASE PortReady(n, ready) /\ f = NoFlit
  <2>1. out'[n] = NoFlit
    BY <1>1, <1>4 DEF Cycle, Egress, Typed
  <2>2. QED
    BY <2>1, <1>2, <1>4 DEF Sends, Stream
<1>5. CASE PortReady(n, ready) /\ f # NoFlit
  <2>1. Sends(n, f, ready) /\ out'[n] # NoFlit
    BY <1>5, SentFlit, NoFlitIsNone DEF Sends, Cycle
  <2>2. QED
    BY <2>1, <1>2, <1>5 DEF Stream
<1>6. QED
  BY <1>3, <1>4, <1>5

\* It takes the first flit from the stream of the peer.
LEMMA StreamTaken ==
    ASSUME IInv, NEW n \in Nodes, NEW ready \in BOOLEAN, NEW take \in BOOLEAN,
           NEW f \in Offers(n) \cup {NoFlit}, Cycle(n, f, ready, take)
    PROVE  /\ Takes(n, take) => /\ Stream(Peer(n)) # <<>>
                                /\ Incoming(n) = Head(Stream(Peer(n)))
                                /\ Stream(Peer(n))' = Tail(Stream(Peer(n)))
           /\ ~Takes(n, take) => Stream(Peer(n))' = Stream(Peer(n))
<1>1. Typed /\ Peer(n) # n /\ Peer(n) \in Nodes
  BY TwoNodes DEF IInv
<1>2. link'[Peer(n)] = IF Takes(n, take) THEN Tail(link[Peer(n)]) ELSE link[Peer(n)]
  BY <1>1 DEF Cycle, Links, Typed
<1>3. out'[Peer(n)] = out[Peer(n)]
  BY <1>1 DEF Cycle, Egress, Typed
<1>4. CASE ~Takes(n, take)
  BY <1>2, <1>3, <1>4 DEF Stream
<1>5. CASE Takes(n, take)
  <2>1. /\ link[Peer(n)] \in Seq(Flits) /\ link[Peer(n)] # <<>>
        /\ out[Peer(n)] # NoFlit => out[Peer(n)] \in Flits
        /\ Incoming(n) = Head(link[Peer(n)])
    BY <1>1, <1>5 DEF Typed, Takes, Incoming
  <2>2. CASE out[Peer(n)] = NoFlit
    BY <2>1, <2>2, <1>2, <1>3, <1>5 DEF Stream
  <2>3. CASE out[Peer(n)] # NoFlit
    <3>1. Append(link[Peer(n)], out[Peer(n)]) # <<>>
      BY <2>1, <2>3
    <3>2. QED
      BY <3>1, <2>1, <2>3, <1>2, <1>3, <1>5, TailAppend DEF Stream
  <2>4. QED
    BY <2>2, <2>3
<1>6. QED
  BY <1>4, <1>5

\* The registers and the state machines of a cycle.
LEMMA CycleTyped ==
    ASSUME IInv, NEW n \in Nodes, NEW ready \in BOOLEAN, NEW take \in BOOLEAN,
           NEW f \in Offers(n) \cup {NoFlit}, Cycle(n, f, ready, take)
    PROVE  /\ Typed'
           /\ ing'[n] = IF Takes(n, take) THEN Follow(ing[n], Incoming(n)) ELSE ing[n]
           /\ ing'[Peer(n)] = ing[Peer(n)]
           /\ egr'[n] = IF Sends(n, f, ready) THEN Follow(egr[n], out'[n]) ELSE egr[n]
           /\ egr'[Peer(n)] = egr[Peer(n)]
<1>1. Typed /\ Peer(n) # n /\ Peer(n) \in Nodes
  BY TwoNodes DEF IInv
<1>2. /\ out' \in [Nodes -> Flits \cup {NoFlit}] /\ egr' \in [Nodes -> 0..DataFlits]
      /\ egr'[n] = IF Sends(n, f, ready) THEN Follow(egr[n], out'[n]) ELSE egr[n]
      /\ egr'[Peer(n)] = egr[Peer(n)]
  <2>1. CASE Sends(n, f, ready)
    <3>1. /\ out'[n] \in Flits
          /\ out' = [out EXCEPT ![n] = out'[n]]
          /\ egr' = [egr EXCEPT ![n] = Follow(egr[n], out'[n])]
      BY <2>1, SentFlit DEF Cycle
    <3>2. Follow(egr[n], out'[n]) \in 0..DataFlits
      BY <1>1, FollowTyped DEF Typed
    <3>3. QED
      BY <2>1, <3>1, <3>2, <1>1 DEF Typed
  <2>2. CASE ~Sends(n, f, ready)
    BY <2>2, <1>1 DEF Cycle, Egress, Sends, Typed
  <2>3. QED
    BY <2>1, <2>2
<1>3. /\ ing' \in [Nodes -> 0..DataFlits]
      /\ ing'[n] = IF Takes(n, take) THEN Follow(ing[n], Incoming(n)) ELSE ing[n]
      /\ ing'[Peer(n)] = ing[Peer(n)]
  <2>1. Follow(ing[n], Incoming(n)) \in 0..DataFlits
    BY <1>1, FollowTyped DEF Typed
  <2>2. QED
    BY <2>1, <1>1 DEF Cycle, Ingress, Typed
<1>4. link' \in [Nodes -> Seq(Flits)]
  <2>1. PortReady(n, ready) /\ out[n] # NoFlit => Append(link[n], out[n]) \in Seq(Flits)
    BY <1>1 DEF Typed
  <2>2. Takes(n, take) => Tail(link[Peer(n)]) \in Seq(Flits)
    BY <1>1 DEF Typed, Takes
  <2>3. QED
    BY <2>1, <2>2, <1>1 DEF Cycle, Links, Typed
<1>5. pending' \in [Nodes -> Nat]
  BY <1>1, SMTT(30) DEF Cycle, Pending, Counted, Typed
<1>6. avail' \in [Nodes -> Nat]
  <2>1. Returned(n, take) \in Nat
    <3>1. Takes(n, take) => Incoming(n) \in Flits
      BY <1>1 DEF Typed, Takes, Incoming
    <3>2. QED
      BY <3>1, BackpressureAssumption DEF Returned, Flits
  <2>2. Sends(n, f, ready) => avail[n] > 0
    BY DEF Sends, PortReady
  <2>3. avail[n] + Returned(n, take) - (IF Sends(n, f, ready) THEN 1 ELSE 0) \in Nat
    BY <2>1, <2>2, <1>1, SMTT(30) DEF Typed
  <2>4. QED
    BY <2>3, <1>1 DEF Cycle, Typed
<1>7. left' \in [Nodes -> [packet : Packets \cup {"none"}, count : 0..DataFlits]]
  <2>1. CASE ~Sends(n, f, ready)
    BY <2>1, <1>1 DEF Cycle, Users, Typed
  <2>2. CASE Sends(n, f, ready) /\ f.cmd
    <3>1. f.packet \in Packets /\ DataFlits \in 0..DataFlits /\ 0 \in 0..DataFlits
      BY <2>2, OffersTyped, BackpressureAssumption DEF Flits, Packets, Sends
    <3>2. QED
      BY <3>1, <2>2, <1>1 DEF Cycle, Users, Typed
  <2>3. CASE Sends(n, f, ready) /\ ~f.cmd
    <3>1. left[n].count # 0 /\ left[n].count \in 0..DataFlits
      BY <2>3, <1>1, OffersTyped DEF IInv, Sending, Sends, Typed
    <3>2. left[n].count - 1 \in 0..DataFlits
      BY <3>1, BackpressureAssumption
    <3>3. QED
      BY <3>2, <2>3, <1>1 DEF Cycle, Users, Typed
  <2>4. QED
    BY <2>1, <2>2, <2>3
<1>8. QED
  BY <1>2, <1>3, <1>4, <1>5, <1>6, <1>7 DEF Typed

\* The egress counts the data flits of the packet it is offered.
LEMMA SendingKept ==
    ASSUME IInv, NEW n \in Nodes, NEW ready \in BOOLEAN, NEW take \in BOOLEAN,
           NEW f \in Offers(n) \cup {NoFlit}, Cycle(n, f, ready, take)
    PROVE  Sending(n)' /\ Sending(Peer(n))'
<1>1. Typed /\ Peer(n) # n /\ Peer(n) \in Nodes /\ Sending(n) /\ Sending(Peer(n))
  BY TwoNodes DEF IInv
<1>2. Sending(Peer(n))'
  <2>1. left'[Peer(n)] = left[Peer(n)]
    BY <1>1 DEF Cycle, Users, Typed
  <2>2. QED
    BY <2>1, <1>1, CycleTyped DEF Sending
<1>3. CASE ~Sends(n, f, ready)
  BY <1>1, <1>2, <1>3, CycleTyped DEF Cycle, Users, Sending
<1>4. CASE Sends(n, f, ready)
  <2>1. /\ f \in Flits /\ (f.cmd <=> egr[n] = 0)
        /\ out'[n].packet = f.packet
        /\ egr'[n] = Follow(egr[n], out'[n])
    BY <1>4, SentFlit, OffersTyped, CycleTyped, ZenonT(60) DEF Cycle
  <2>2. CASE f.cmd
    <3>1. left'[n] = [packet |-> f.packet,
                      count |-> IF HasData(f.packet) THEN DataFlits ELSE 0]
      BY <1>1, <1>4, <2>2 DEF Cycle, Users, Typed
    <3>2. egr'[n] = IF HasData(f.packet) THEN DataFlits ELSE 0
      BY <2>1, <2>2 DEF Follow
    <3>3. QED
      BY <3>1, <3>2, <1>2 DEF Sending
  <2>3. CASE ~f.cmd
    <3>1. left'[n].count = left[n].count - 1 /\ left'[n].packet = left[n].packet
      BY <1>1, <1>4, <2>3 DEF Cycle, Users, Typed
    <3>2. left[n].count \in 1..DataFlits /\ HasData(left[n].packet) /\ egr[n] = left[n].count
      BY <1>1, <2>1, <2>3 DEF Sending, Typed
    <3>3. egr'[n] = left[n].count - 1
      BY <2>1, <3>2 DEF Follow
    <3>4. QED
      BY <3>1, <3>2, <3>3, <1>2 DEF Sending
  <2>4. QED
    BY <2>2, <2>3
<1>5. QED
  BY <1>3, <1>4

\* Neither end takes a data flit for a command.
LEMMA ParsesKept ==
    ASSUME IInv, NEW n \in Nodes, NEW ready \in BOOLEAN, NEW take \in BOOLEAN,
           NEW f \in Offers(n) \cup {NoFlit}, Cycle(n, f, ready, take)
    PROVE  /\ Parses(Stream(n), ing[Peer(n)], egr[n])'
           /\ Parses(Stream(Peer(n)), ing[n], egr[Peer(n)])'
<1>1. /\ Typed /\ Peer(n) \in Nodes
      /\ Stream(n) \in Seq(Flits) /\ Stream(Peer(n)) \in Seq(Flits)
      /\ Parses(Stream(n), ing[Peer(n)], egr[n])
      /\ Parses(Stream(Peer(n)), ing[n], egr[Peer(n)])
  BY TwoNodes, StreamTyped DEF IInv
<1>2. Parses(Stream(n)', ing'[Peer(n)], egr'[n])
  <2>1. CASE ~Sends(n, f, ready)
    BY <2>1, <1>1, StreamSent, CycleTyped
  <2>2. CASE Sends(n, f, ready)
    <3>1. out'[n] \in Flits /\ (out'[n].cmd <=> egr[n] = 0)
      BY <2>2, SentFlit DEF Cycle
    <3>2. egr[n] \in 0..DataFlits
      BY <1>1 DEF Typed
    <3>3. egr'[n] = Follow(egr[n], out'[n]) /\ ing'[Peer(n)] = ing[Peer(n)]
      BY <2>2, CycleTyped
    <3>4. Stream(n)' = Append(Stream(n), out'[n])
      BY <2>2, StreamSent
    <3>5. QED
      BY <3>1, <3>2, <3>3, <3>4, <1>1, ParsesAppend
  <2>3. QED
    BY <2>1, <2>2
<1>3. Parses(Stream(Peer(n))', ing'[n], egr'[Peer(n)])
  <2>1. CASE ~Takes(n, take)
    BY <2>1, <1>1, StreamTaken, CycleTyped
  <2>2. CASE Takes(n, take)
    <3>1. /\ Stream(Peer(n)) # <<>> /\ Stream(Peer(n))' = Tail(Stream(Peer(n)))
          /\ ing'[n] = Follow(ing[n], Head(Stream(Peer(n))))
          /\ egr'[Peer(n)] = egr[Peer(n)]
      BY <2>2, StreamTaken, CycleTyped
    <3>2. QED
      BY <3>1, <1>1, ParsesTail
  <2>3. QED
    BY <2>1, <2>2
<1>4. QED
  BY <1>2, <1>3

\* The credits of the end: what it takes from the stream of its peer goes to its
\* counter, and what it sends costs one.
LEMMA OwnCredits ==
    ASSUME IInv, NEW n \in Nodes, NEW ready \in BOOLEAN, NEW take \in BOOLEAN,
           NEW f \in Offers(n) \cup {NoFlit}, Cycle(n, f, ready, take)
    PROVE  Conserved(n)'
<1> DEFINE p == Peer(n)
           sent == IF Sends(n, f, ready) THEN 1 ELSE 0
<1>1. /\ Typed /\ p \in Nodes /\ p # n
      /\ Stream(n) \in Seq(Flits) /\ Stream(p) \in Seq(Flits)
      /\ Parses(Stream(p), ing[n], egr[p])
  BY TwoNodes, StreamTyped DEF IInv
<1>2. PICK t \in Nat : /\ Carries(Stream(p), t)
                       /\ avail[n] + Len(Stream(n)) + pending[p] + t = Creds
  BY DEF IInv, Conserved
<1>3. /\ avail'[n] = avail[n] + Returned(n, take) - sent
      /\ pending'[p] = pending[p]
  BY <1>1 DEF Cycle, Typed
<1>4. Len(Stream(n)') = Len(Stream(n)) + sent /\ Len(Stream(n)) \in Nat
  <2>1. CASE Sends(n, f, ready)
    <3>1. out'[n] \in Flits
      BY <2>1, SentFlit DEF Cycle
    <3>2. Stream(n)' = Append(Stream(n), out'[n])
      BY <2>1, StreamSent
    <3>3. QED
      BY <2>1, <3>1, <3>2, <1>1
  <2>2. CASE ~Sends(n, f, ready)
    BY <2>2, <1>1, StreamSent
  <2>3. QED
    BY <2>1, <2>2
<1>5. t - Returned(n, take) \in Nat /\ Carries(Stream(p)', t - Returned(n, take))
      /\ Returned(n, take) \in Nat
  <2>1. CASE ~Takes(n, take)
    BY <2>1, <1>2, StreamTaken DEF Returned
  <2>2. CASE Takes(n, take)
    <3>1. /\ Stream(p) # <<>> /\ Incoming(n) = Head(Stream(p))
          /\ Stream(p)' = Tail(Stream(p))
      BY <2>2, StreamTaken
    <3>2. Head(Stream(p)).cmd <=> ing[n] = 0
      BY <3>1, <1>1, ParsesTail
    <3>3. Returned(n, take) = Brings(Head(Stream(p)))
      BY <2>2, <3>1, <3>2 DEF Returned, Brings
    <3>4. Head(Stream(p)) \in Flits
      BY <3>1, <1>1
    <3>5. Brings(Head(Stream(p))) \in Nat
      BY <3>4, BackpressureAssumption DEF Brings, Flits
    <3>6. QED
      BY <3>1, <3>3, <3>5, <1>1, <1>2, CarriesTail
  <2>3. QED
    BY <2>1, <2>2
<1>6. avail[n] \in Nat /\ pending[p] \in Nat /\ sent \in {0, 1}
  BY <1>1 DEF Typed
<1>7. avail'[n] + Len(Stream(n)') + pending'[p] + (t - Returned(n, take)) = Creds
  <2>1. avail[n] + Len(Stream(n)) + pending[p] + t = Creds
    BY <1>2
  <2>2. Returned(n, take) \in Nat
    BY <1>5
  <2> HIDE DEF sent, p
  <2>3. (avail[n] + Returned(n, take) - sent) + (Len(Stream(n)) + sent) + pending[p]
          + (t - Returned(n, take)) = Creds
    BY <2>1, <2>2, <1>4, <1>6, SMTT(30)
  <2>4. QED
    BY <2>3, <1>3, <1>4
<1>8. QED
  BY <1>5, <1>7 DEF Conserved

\* The credits of its peer: a flit that it takes is counted, and what is counted
\* leaves with the next command.
LEMMA PeerCredits ==
    ASSUME IInv, NEW n \in Nodes, NEW ready \in BOOLEAN, NEW take \in BOOLEAN,
           NEW f \in Offers(n) \cup {NoFlit}, Cycle(n, f, ready, take)
    PROVE  Conserved(Peer(n))'
<1> DEFINE p == Peer(n)
           returned == IF Sends(n, f, ready) /\ egr[n] = 0 THEN pending[n] ELSE 0
<1>1. /\ Typed /\ p \in Nodes /\ p # n /\ Peer(p) = n
      /\ Stream(n) \in Seq(Flits) /\ Stream(p) \in Seq(Flits)
  BY TwoNodes, StreamTyped DEF IInv
<1>2. PICK t \in Nat : /\ Carries(Stream(n), t)
                       /\ avail[p] + Len(Stream(p)) + pending[n] + t = Creds
  BY <1>1 DEF IInv, Conserved
<1>3. avail[p] \in Nat /\ pending[n] \in Nat /\ Len(Stream(p)) \in Nat
      /\ returned \in Nat /\ Counted(n, take) \in Nat
  BY <1>1 DEF Typed, Counted
<1>4. /\ avail'[p] = avail[p]
      /\ pending'[n] = pending[n] - returned + Counted(n, take)
  BY <1>1, <1>3, SMTT(30) DEF Cycle, Pending, Typed
<1>5. Len(Stream(p)') = Len(Stream(p)) - Counted(n, take)
  <2>1. CASE Takes(n, take)
    BY <2>1, <1>1, StreamTaken DEF Counted
  <2>2. CASE ~Takes(n, take)
    BY <2>2, <1>3, StreamTaken DEF Counted
  <2>3. QED
    BY <2>1, <2>2
<1>6. Carries(Stream(n)', t + returned)
  <2>1. CASE ~Sends(n, f, ready)
    BY <2>1, <1>2, StreamSent
  <2>2. CASE Sends(n, f, ready)
    <3>1. /\ out'[n] \in Flits /\ Brings(out'[n]) = returned
          /\ Stream(n)' = Append(Stream(n), out'[n])
      BY <2>2, SentFlit, StreamSent, ZenonT(60) DEF Cycle
    <3>2. QED
      BY <3>1, <1>1, <1>2, <1>3, CarriesAppend
  <2>3. QED
    BY <2>1, <2>2
<1>7. avail'[p] + Len(Stream(p)') + pending'[n] + (t + returned) = Creds
  <2> DEFINE counted == Counted(n, take)
  <2> HIDE DEF counted, p, returned
  <2>1. avail[p] + (Len(Stream(p)) - counted) + (pending[n] - returned + counted) + (t + returned)
        = avail[p] + Len(Stream(p)) + pending[n] + t
    <3>1. \A a, b, d, e, g, h \in Nat : a + (b - e) + (d - g + e) + (h + g) = a + b + d + h
      OBVIOUS
    <3>2. counted \in Nat
      BY <1>3 DEF counted
    <3>3. QED
      BY <3>1, <3>2, <1>2, <1>3
  <2>2. avail'[p] = avail[p] /\ Len(Stream(p)') = Len(Stream(p)) - counted
        /\ pending'[n] = pending[n] - returned + counted
    BY <1>4, <1>5 DEF counted
  <2>3. QED
    BY <2>1, <2>2, <1>2
<1>8. t + returned \in Nat
  BY <1>3
<1>9. QED
  BY <1>1, <1>6, <1>7, <1>8 DEF Conserved

-----------------------------------------------------------------------------
(* The theorems.                                                           *)

LEMMA EmptyStream ==
    Parses(<<>>, 0, 0) /\ Carries(<<>>, 0)
<1> DEFINE z == [i \in 1..1 |-> 0]
<1>1. Len(<<>>) = 0 /\ z[1] = 0
  OBVIOUS
<1>2. z \in [1..1 -> 0..DataFlits] /\ z \in [1..1 -> Nat]
  BY BackpressureAssumption
<1> HIDE DEF z
<1>3. QED
  BY <1>1, <1>2 DEF Parses, Carries

LEMMA InitIInv == Init => IInv
<1> SUFFICES ASSUME Init PROVE IInv
  OBVIOUS
<1>1. Typed
  BY BackpressureAssumption DEF Init, Typed
<1>2. ASSUME NEW n \in Nodes
      PROVE  Sending(n) /\ Parses(Stream(n), ing[Peer(n)], egr[n]) /\ Conserved(n)
  <2>1. Stream(n) = <<>> /\ Stream(Peer(n)) = <<>> /\ Peer(n) \in Nodes
    BY TwoNodes DEF Init, Stream
  <2>2. Sending(n)
    BY DEF Init, Sending
  <2>3. Parses(Stream(n), ing[Peer(n)], egr[n])
    BY <2>1, EmptyStream DEF Init
  <2>4. Conserved(n)
    <3>1. avail[n] + Len(<<>>) + pending[Peer(n)] + 0 = Creds
      BY <2>1, BackpressureAssumption DEF Init
    <3>2. QED
      BY <3>1, <2>1, EmptyStream DEF Conserved
  <2>5. QED
    BY <2>2, <2>3, <2>4
<1>3. QED
  BY <1>1, <1>2 DEF IInv

LEMMA NextIInv == IInv /\ [Next]_vars => IInv'
<1> SUFFICES ASSUME IInv, [Next]_vars PROVE IInv'
  OBVIOUS
<1>1. CASE UNCHANGED vars
  BY <1>1 DEF vars, IInv, Typed, Sending, Conserved, Stream
<1>2. CASE Next
  <2>1. PICK n \in Nodes, ready \in BOOLEAN, take \in BOOLEAN :
          \E f \in Offers(n) \cup {NoFlit} : Cycle(n, f, ready, take)
    BY <1>2 DEF Next
  <2>2. PICK f \in Offers(n) \cup {NoFlit} : Cycle(n, f, ready, take)
    BY <2>1
  <2>3. Nodes = {n, Peer(n)} /\ Peer(Peer(n)) = n
    BY TwoNodes
  <2>4. Typed'
    BY <2>2, CycleTyped
  <2>5. (Sending(n) /\ Parses(Stream(n), ing[Peer(n)], egr[n]) /\ Conserved(n))'
    BY <2>2, SendingKept, ParsesKept, OwnCredits
  <2>6. (Sending(Peer(n)) /\ Conserved(Peer(n))
          /\ Parses(Stream(Peer(n)), ing[Peer(Peer(n))], egr[Peer(n)]))'
    BY <2>2, <2>3, SendingKept, ParsesKept, PeerCredits
  <2>7. QED
    BY <2>3, <2>4, <2>5, <2>6 DEF IInv
<1>3. QED
  BY <1>1, <1>2

\* No serial link ever has more flits on the way, the fifo of the receiver included,
\* than the credits its sender started with.
THEOREM FifoNeverOverruns == Spec => []NoOverrun
<1>1. IInv => NoOverrun
  <2> SUFFICES ASSUME IInv, NEW n \in Nodes PROVE Len(link[n]) <= Creds
    BY DEF NoOverrun
  <2>1. PICK t \in Nat : avail[n] + Len(Stream(n)) + pending[Peer(n)] + t = Creds
    BY DEF IInv, Conserved
  <2>2. /\ avail[n] \in Nat /\ pending[Peer(n)] \in Nat
        /\ Stream(n) \in Seq(Flits) /\ link[n] \in Seq(Flits)
        /\ Len(link[n]) <= Len(Stream(n))
    BY TwoNodes, StreamTyped DEF IInv, Typed
  <2>3. QED
    BY <2>1, <2>2, BackpressureAssumption
<1>2. QED
  BY <1>1, InitIInv, NextIInv, PTL DEF Spec

\* The egress writes credits into commands only, and the ingress reads them from
\* commands only.
THEOREM EndsInStep == Spec => []InStep
<1>1. IInv => InStep
  <2> SUFFICES ASSUME IInv, NEW n \in Nodes
               PROVE  /\ egr[n] = left[n].count
                      /\ link[Peer(n)] # <<>> => (Incoming(n).cmd <=> ing[n] = 0)
    BY DEF InStep
  <2>1. /\ Peer(n) \in Nodes /\ Peer(Peer(n)) = n /\ Typed
        /\ Parses(Stream(Peer(n)), ing[n], egr[Peer(n)])
        /\ Stream(Peer(n)) \in Seq(Flits)
    BY TwoNodes, StreamTyped DEF IInv
  <2>2. link[Peer(n)] # <<>> =>
          Stream(Peer(n)) # <<>> /\ Head(Stream(Peer(n))) = Incoming(n)
    BY <2>1, TailAppend, SMTT(30) DEF Typed, Stream, Incoming
  <2>3. QED
    BY <2>1, <2>2, ParsesTail DEF IInv, Sending
<1>2. QED
  BY <1>1, InitIInv, NextIInv, PTL DEF Spec

-----------------------------------------------------------------------------
(* The sum of the credits.                                                 *)

\* A set of natural numbers has a least element: what the library says of the
\* finite sets 0..x.
LEMMA LeastElement ==
    ASSUME NEW T, T \subseteq Nat, T # {}
    PROVE  \E x \in T : \A y \in T : x <= y
<1> DEFINE R == StrictSubsetOrdering(Nat)
           F == FiniteSubsetsOf(Nat)
           U == {0 .. x : x \in T}
<1>1. IsWellFoundedOn(R, F)
  BY FS_StrictSubsetOrderingWellFounded
<1>2. U \subseteq F
  <2>1. ASSUME NEW x \in T PROVE 0 .. x \in F
    <3>1. IsFiniteSet(0 .. x) /\ 0 .. x \in SUBSET Nat
      BY FS_Interval
    <3>2. QED
      BY <3>1 DEF FiniteSubsetsOf
  <2> HIDE DEF F
  <2>2. QED
    BY <2>1
<1>3. U # {}
  OBVIOUS
<1> HIDE DEF R, F, U
<1>4. PICK m \in U : \A u \in U : ~(<<u, m>> \in R)
  BY <1>1, <1>2, <1>3, WFMin
<1>5. PICK x \in T : m = 0 .. x
  BY DEF U
<1>6. ASSUME NEW y \in T, y < x
      PROVE  FALSE
  <2>1. 0 .. y \in U
    BY DEF U
  <2>2. 0 .. y \subseteq 0 .. x /\ 0 .. y # 0 .. x
    <3>1. x \in 0 .. x /\ x \notin 0 .. y
      BY <1>6
    <3>2. QED
      BY <1>6, <3>1
  <2>3. 0 .. y \in SUBSET Nat /\ 0 .. x \in SUBSET Nat
    OBVIOUS
  <2>4. <<0 .. y, 0 .. x>> \in R
    BY <2>2, <2>3 DEF R, StrictSubsetOrdering
  <2>5. QED
    BY <1>4, <1>5, <2>1, <2>4
<1>7. QED
  BY <1>6

\* The intermediate results of the invariant are those of the sum: they show that
\* there is such a function, and a first place where it differs does not exist.
LEMMA CarriesSum ==
    ASSUME NEW s \in Seq(Flits \cup {NoFlit}), NEW t, Carries(s, t)
    PROVE  CreditsIn(s) = t
<1> DEFINE D(g) == [i \in 0..Len(s) |->
                      IF i = 0 THEN 0 ELSE g[i - 1] + (IF s[i].cmd THEN s[i].creds ELSE 0)]
           sum == CHOOSE g : g = D(g)
<1>1. PICK c \in [1 .. Len(s) + 1 -> Nat] :
        /\ t = c[Len(s) + 1] - c[1]
        /\ \A i \in 1..Len(s) : c[i + 1] = c[i] + Brings(s[i])
        /\ \A i, j \in 1 .. Len(s) + 1 : i <= j => c[i] <= c[j]
  BY DEF Carries
<1>2. CreditsIn(s) = sum[Len(s)] /\ Len(s) \in Nat
  BY DEF CreditsIn
<1> DEFINE m == [i \in 0..Len(s) |-> c[i + 1] - c[1]]
<1>3. /\ \A i \in 0..Len(s) : m[i] = c[i + 1] - c[1] /\ m[i] \in Int
      /\ m = [i \in 0..Len(s) |-> m[i]]
  <2>1. ASSUME NEW i \in 0..Len(s)
        PROVE  m[i] = c[i + 1] - c[1] /\ m[i] \in Int
    <3>1. i + 1 \in 1 .. Len(s) + 1 /\ 1 \in 1 .. Len(s) + 1
      BY <1>2
    <3>2. c[i + 1] \in Nat /\ c[1] \in Nat
      BY <3>1
    <3>3. QED
      BY <3>2
  <2>2. m = [i \in 0..Len(s) |-> m[i]]
    OBVIOUS
  <2>3. QED
    BY <2>1, <2>2
<1> HIDE DEF m
<1>4. /\ m[0] = 0 /\ m[Len(s)] = t
      /\ \A i \in 1..Len(s) : m[i] = m[i - 1] + Brings(s[i]) /\ Brings(s[i]) \in Int
  <2>1. m[0] = 0 /\ m[Len(s)] = t
    BY <1>1, <1>2, <1>3, SMTT(30)
  <2>2. ASSUME NEW i \in 1..Len(s)
        PROVE  m[i] = m[i - 1] + Brings(s[i]) /\ Brings(s[i]) \in Int
    <3> DEFINE k == i - 1
    <3>0. /\ i \in 0..Len(s) /\ k \in 0..Len(s) /\ k + 1 = i
          /\ {i + 1, i, 1} \subseteq 1 .. Len(s) + 1
      BY <1>2
    <3> HIDE DEF k
    <3>5. m[i] = c[i + 1] - c[1] /\ m[k] = c[k + 1] - c[1]
      BY <1>3, <3>0
    <3>6. c[i + 1] \in Nat /\ c[i] \in Nat /\ c[1] \in Nat
      BY <3>0
    <3>1. /\ m[i] = c[i + 1] - c[1] /\ m[k] = c[i] - c[1]
          /\ c[i + 1] \in Nat /\ c[i] \in Nat /\ c[1] \in Nat
      BY <3>0, <3>5, <3>6
    <3>2. c[i + 1] = c[i] + Brings(s[i])
      BY <1>1
    <3>3. Brings(s[i]) \in Int
      BY BackpressureAssumption DEF Brings, Flits, NoFlit
    <3>4. QED
      BY <3>1, <3>2, <3>3 DEF k
  <2>3. QED
    BY <2>1, <2>2
<1>5. m = D(m)
  <2>1. \A i \in 0..Len(s) :
           m[i] = IF i = 0 THEN 0 ELSE m[i - 1] + (IF s[i].cmd THEN s[i].creds ELSE 0)
    BY <1>2, <1>4 DEF Brings
  <2>2. QED
    BY <1>3, <2>1
<1>6. sum = D(sum)
  BY <1>5
<1>7. /\ sum[0] = 0
      /\ \A i \in 1..Len(s) : sum[i] = sum[i - 1] + Brings(s[i])
  <2> HIDE DEF sum
  <2>1. \A i \in 0..Len(s) : D(sum)[i] =
           IF i = 0 THEN 0 ELSE sum[i - 1] + (IF s[i].cmd THEN s[i].creds ELSE 0)
    OBVIOUS
  <2> HIDE DEF D
  <2>2. QED
    BY <1>2, <1>6, <2>1 DEF Brings
<1> HIDE DEF sum, D
<1>8. ASSUME sum[Len(s)] # m[Len(s)]
      PROVE  FALSE
  <2> DEFINE T == {j \in 0..Len(s) : sum[j] # m[j]}
  <2>1. T \subseteq Nat /\ T # {}
    BY <1>2, <1>8
  <2> HIDE DEF T
  <2>2. PICK j \in T : \A k \in T : j <= k
    BY <2>1, LeastElement
  <2>3. j \in 1..Len(s) /\ sum[j] # m[j] /\ j - 1 \notin T /\ j - 1 \in 0..Len(s)
    BY <1>2, <1>4, <1>7, <2>2 DEF T
  <2>4. QED
    BY <1>4, <1>7, <2>3 DEF T
<1>9. QED
  BY <1>2, <1>4, <1>8

\* No credit is lost or made, whatever is sent and taken in the same cycle: each of
\* them is in the counter of its end, paid for a flit that has not left the fifo of
\* the peer, counted by the peer, or in a command on its way back.
THEOREM CreditsAreConserved == Spec => []CreditsConserved
<1>1. IInv => CreditsConserved
  <2> SUFFICES ASSUME IInv, NEW n \in Nodes
               PROVE  avail[n] + Len(link[n]) + Change(out[n] # NoFlit, FALSE)
                        + pending[Peer(n)] + Carried(n) = Creds
    BY DEF CreditsConserved
  <2> DEFINE p == Peer(n)
  <2>1. Typed /\ p \in Nodes
    BY TwoNodes DEF IInv
  <2>2. PICK t \in Nat : /\ Carries(Stream(p), t)
                         /\ avail[n] + Len(Stream(n)) + pending[p] + t = Creds
    BY DEF IInv, Conserved
  <2>3. Len(Stream(n)) = Len(link[n]) + Change(out[n] # NoFlit, FALSE)
    BY <2>1 DEF Typed, Stream, Change
  <2>4. CreditsIn(Append(link[p], out[p])) = t
    <3>1. CASE out[p] # NoFlit
      <4>1. Stream(p) \in Seq(Flits \cup {NoFlit})
        BY <2>1, StreamTyped
      <4>2. QED
        BY <2>2, <3>1, <4>1, CarriesSum DEF Stream
    <3>2. CASE out[p] = NoFlit
      <4>1. link[p] \in Seq(Flits \cup {NoFlit}) /\ Carries(link[p], t)
        BY <2>1, <2>2, <3>2 DEF Typed, Stream
      <4>2. Brings(out[p]) = 0 /\ out[p] \in Flits \cup {NoFlit}
        BY <3>2 DEF Brings, NoFlit
      <4>3. Carries(Append(link[p], out[p]), t)
        BY <4>1, <4>2, CarriesAppend
      <4>4. Append(link[p], out[p]) \in Seq(Flits \cup {NoFlit})
        BY <4>1, <4>2
      <4>5. QED
        BY <4>3, <4>4, CarriesSum
    <3>3. QED
      BY <3>1, <3>2
  <2>5. /\ avail[n] \in Nat /\ pending[p] \in Nat
        /\ Len(link[n]) \in Nat /\ Change(out[n] # NoFlit, FALSE) \in Nat
    BY <2>1 DEF Typed, Change
  <2>6. Carried(n) = t
    BY <2>4 DEF Carried
  <2> DEFINE waiting == Change(out[n] # NoFlit, FALSE)
  <2>7. waiting \in Nat /\ Len(Stream(n)) = Len(link[n]) + waiting
    BY <2>3, <2>5
  <2> HIDE DEF p, waiting
  <2>8. avail[n] + Len(link[n]) + waiting + pending[p] + t = Creds
    BY <2>2, <2>5, <2>7
  <2>9. QED
    BY <2>6, <2>8 DEF p, waiting
<1>2. QED
  BY <1>1, InitIInv, NextIInv, PTL DEF Spec

-----------------------------------------------------------------------------
(* Packets in flight.  An open request is a packet on its way to the       *)
(* memory end, a response that is owed, or a packet on its way back; a     *)
(* packet is on its way from its command to its last flit.                 *)

\* An ingress in state a that takes all of s ends in state b, and t packets p end in s.
EndOf(p, f, k) == IF f.packet = p /\ k = 0 THEN 1 ELSE 0
Completes(s, a, b, p, t) ==
    \E k \in [1 .. Len(s) + 1 -> 0..DataFlits] : \E e \in [1 .. Len(s) + 1 -> Nat] :
        /\ k[1] = a /\ k[Len(s) + 1] = b
        /\ t = e[Len(s) + 1] - e[1]
        /\ \A i \in 1..Len(s) : /\ k[i + 1] = Follow(k[i], s[i])
                                /\ e[i + 1] = e[i] + EndOf(p, s[i], k[i + 1])
        /\ \A i, j \in 1 .. Len(s) + 1 : i <= j => e[i] <= e[j]

\* n has sent a part of a packet p.
Partly(n, p) == IF left[n].count > 0 /\ left[n].packet = p THEN 1 ELSE 0

\* t packets p are on their way from n.
Underway(n, p, t) ==
    \E c \in Nat : /\ Completes(Stream(n), ing[Peer(n)], egr[n], p, c)
                   /\ t = c + Partly(n, p)

\* An end sends nothing but its side of the traffic.
Kind(n) == IF n = "compute" THEN {"read", "write"} ELSE {"readResp", "writeResp"}
KindsKept(n) ==
    /\ \A i \in 1..Len(Stream(n)) : Stream(n)[i].packet \in Kind(n)
    /\ left[n].count > 0 => left[n].packet \in Kind(n)

Accounted(r) ==
    /\ open[r] <= Window[r]
    /\ owed[r] \in Nat
    /\ \E t, u \in Nat : /\ Underway("compute", r, t)
                         /\ Underway("memory", Answer[r], u)
                         /\ open[r] = t + owed[r] + u

TInv ==
    /\ IInv
    /\ \A n \in Nodes : KindsKept(n)
    /\ \A r \in Requests : Accounted(r)

LEMMA CompletesAppend ==
    ASSUME NEW s \in Seq(Flits), NEW f \in Flits, NEW a, NEW b \in 0..DataFlits,
           NEW p, NEW t \in Nat, Completes(s, a, b, p, t)
    PROVE  Completes(Append(s, f), a, Follow(b, f), p, t + EndOf(p, f, Follow(b, f)))
<1> DEFINE long == Append(s, f)
           one == EndOf(p, f, Follow(b, f))
<1>1. PICK k \in [1 .. Len(s) + 1 -> 0..DataFlits] : \E e \in [1 .. Len(s) + 1 -> Nat] :
        /\ k[1] = a /\ k[Len(s) + 1] = b
        /\ t = e[Len(s) + 1] - e[1]
        /\ \A i \in 1..Len(s) : /\ k[i + 1] = Follow(k[i], s[i])
                                /\ e[i + 1] = e[i] + EndOf(p, s[i], k[i + 1])
        /\ \A i, j \in 1 .. Len(s) + 1 : i <= j => e[i] <= e[j]
  BY DEF Completes
<1>2. PICK e \in [1 .. Len(s) + 1 -> Nat] :
        /\ k[1] = a /\ k[Len(s) + 1] = b
        /\ t = e[Len(s) + 1] - e[1]
        /\ \A i \in 1..Len(s) : /\ k[i + 1] = Follow(k[i], s[i])
                                /\ e[i + 1] = e[i] + EndOf(p, s[i], k[i + 1])
        /\ \A i, j \in 1 .. Len(s) + 1 : i <= j => e[i] <= e[j]
  BY <1>1
<1>3. /\ Len(s) \in Nat /\ Len(long) = Len(s) + 1
      /\ long[Len(s) + 1] = f /\ \A i \in 1..Len(s) : long[i] = s[i]
  OBVIOUS
<1>4. one \in Nat /\ Follow(b, f) \in 0..DataFlits
  BY FollowTyped DEF EndOf
<1> HIDE DEF long, one
<1> DEFINE l == [i \in 1 .. Len(long) + 1 |-> IF i = Len(long) + 1 THEN Follow(b, f) ELSE k[i]]
           m == [i \in 1 .. Len(long) + 1 |->
                   IF i = Len(long) + 1 THEN e[Len(s) + 1] + one ELSE e[i]]
<1>5. l \in [1 .. Len(long) + 1 -> 0..DataFlits] /\ m \in [1 .. Len(long) + 1 -> Nat]
  <2>1. l \in [1 .. Len(long) + 1 -> 0..DataFlits]
    BY <1>3, <1>4
  <2>2. e[Len(s) + 1] + one \in Nat
    BY <1>3, <1>4
  <2>3. m \in [1 .. Len(long) + 1 -> Nat]
    BY <1>3, <2>2
  <2>4. QED
    BY <2>1, <2>3
<1>6. /\ l[Len(long) + 1] = Follow(b, f) /\ m[Len(long) + 1] = e[Len(s) + 1] + one
      /\ \A i \in 1 .. Len(s) + 1 : l[i] = k[i] /\ m[i] = e[i]
  BY <1>3
<1> HIDE DEF l, m
<1>7. l[1] = a /\ t + one = m[Len(long) + 1] - m[1]
  <2>1. l[1] = a /\ m[1] = e[1] /\ e[1] \in Nat /\ e[Len(s) + 1] \in Nat
    BY <1>2, <1>3, <1>6
  <2>2. QED
    BY <2>1, <1>2, <1>4, <1>6, SMTT(30)
<1>8. ASSUME NEW i \in 1..Len(long)
      PROVE  /\ l[i + 1] = Follow(l[i], long[i])
             /\ m[i + 1] = m[i] + EndOf(p, long[i], l[i + 1])
  <2>1. CASE i = Len(s) + 1
    BY <2>1, <1>2, <1>3, <1>6 DEF one
  <2>2. CASE i \in 1..Len(s)
    BY <2>2, <1>2, <1>3, <1>6, SMTT(30)
  <2>3. QED
    BY <2>1, <2>2, <1>3
<1>9. ASSUME NEW i \in 1 .. Len(long) + 1, NEW j \in 1 .. Len(long) + 1, i <= j
      PROVE  m[i] <= m[j]
  <2>1. CASE i = Len(long) + 1
    BY <2>1, <1>9, <1>3, <1>5, SMTT(30)
  <2>2. CASE i <= Len(s) + 1 /\ j = Len(long) + 1
    <3>1. m[i] = e[i] /\ e[i] \in Nat /\ e[Len(s) + 1] \in Nat
      BY <2>2, <1>3, <1>6, SMTT(30)
    <3>2. e[i] <= e[Len(s) + 1]
      BY <2>2, <1>2, <1>3
    <3>3. QED
      BY <2>2, <3>1, <3>2, <1>4, <1>6
  <2>3. CASE i <= Len(s) + 1 /\ j <= Len(s) + 1
    BY <2>3, <1>9, <1>2, <1>3, <1>6
  <2>4. QED
    BY <2>1, <2>2, <2>3, <1>3
<1>10. Completes(long, a, Follow(b, f), p, t + one)
  BY <1>5, <1>6, <1>7, <1>8, <1>9 DEF Completes
<1>11. QED
  BY <1>10 DEF long, one

LEMMA CompletesTail ==
    ASSUME NEW s \in Seq(Flits), s # <<>>, NEW a, NEW b, NEW p, NEW t \in Nat,
           Completes(s, a, b, p, t)
    PROVE  LET one == EndOf(p, Head(s), Follow(a, Head(s)))
           IN  t - one \in Nat /\ Completes(Tail(s), Follow(a, Head(s)), b, p, t - one)
<1> DEFINE short == Tail(s)
           one == EndOf(p, Head(s), Follow(a, Head(s)))
<1>1. PICK k \in [1 .. Len(s) + 1 -> 0..DataFlits] : \E e \in [1 .. Len(s) + 1 -> Nat] :
        /\ k[1] = a /\ k[Len(s) + 1] = b
        /\ t = e[Len(s) + 1] - e[1]
        /\ \A i \in 1..Len(s) : /\ k[i + 1] = Follow(k[i], s[i])
                                /\ e[i + 1] = e[i] + EndOf(p, s[i], k[i + 1])
        /\ \A i, j \in 1 .. Len(s) + 1 : i <= j => e[i] <= e[j]
  BY DEF Completes
<1>2. PICK e \in [1 .. Len(s) + 1 -> Nat] :
        /\ k[1] = a /\ k[Len(s) + 1] = b
        /\ t = e[Len(s) + 1] - e[1]
        /\ \A i \in 1..Len(s) : /\ k[i + 1] = Follow(k[i], s[i])
                                /\ e[i + 1] = e[i] + EndOf(p, s[i], k[i + 1])
        /\ \A i, j \in 1 .. Len(s) + 1 : i <= j => e[i] <= e[j]
  BY <1>1
<1>3. /\ Len(s) \in Nat \ {0} /\ Len(short) = Len(s) - 1 /\ Head(s) = s[1]
      /\ \A i \in 1 .. Len(s) - 1 : short[i] = s[i + 1]
  OBVIOUS
<1>4. one \in {0, 1}
  BY DEF EndOf
<1>5. k[2] = Follow(a, Head(s)) /\ e[2] = e[1] + one /\ e[2] <= e[Len(s) + 1]
  BY <1>2, <1>3
<1> HIDE DEF short, one
<1> DEFINE l == [i \in 1 .. Len(short) + 1 |-> k[i + 1]]
           m == [i \in 1 .. Len(short) + 1 |-> e[i + 1]]
<1>6. l \in [1 .. Len(short) + 1 -> 0..DataFlits] /\ m \in [1 .. Len(short) + 1 -> Nat]
  BY <1>3
<1>7. \A i \in 1..Len(s) : l[i] = k[i + 1] /\ m[i] = e[i + 1]
  BY <1>3
<1> HIDE DEF l, m
<1>8. l[1] = Follow(a, Head(s)) /\ l[Len(short) + 1] = b
  BY <1>2, <1>3, <1>5, <1>7, SMTT(30)
<1>9. t - one = m[Len(short) + 1] - m[1] /\ t - one \in Nat
  <2>1. e[1] \in Nat /\ e[2] \in Nat /\ e[Len(s) + 1] \in Nat
    <3>1. {1, 2, Len(s) + 1} \subseteq 1 .. Len(s) + 1
      BY <1>3
    <3>2. QED
      BY <3>1
  <2>2. m[Len(short) + 1] = e[Len(s) + 1] /\ m[1] = e[2]
    BY <1>3, <1>7
  <2>3. QED
    BY <2>1, <2>2, <1>2, <1>4, <1>5, SMTT(30)
<1>10. ASSUME NEW i \in 1..Len(short)
       PROVE  /\ l[i + 1] = Follow(l[i], short[i])
              /\ m[i + 1] = m[i] + EndOf(p, short[i], l[i + 1])
  <2>1. /\ i + 1 \in 1..Len(s) /\ short[i] = s[i + 1]
        /\ l[i] = k[i + 1] /\ l[i + 1] = k[i + 2] /\ m[i] = e[i + 1] /\ m[i + 1] = e[i + 2]
    BY <1>3, <1>7
  <2>2. /\ k[(i + 1) + 1] = Follow(k[i + 1], s[i + 1])
        /\ e[(i + 1) + 1] = e[i + 1] + EndOf(p, s[i + 1], k[(i + 1) + 1])
    BY <2>1, <1>2
  <2>3. QED
    BY <2>1, <2>2
<1>11. \A i, j \in 1 .. Len(short) + 1 : i <= j => m[i] <= m[j]
  BY <1>2, <1>3, <1>7
<1>12. Completes(short, Follow(a, Head(s)), b, p, t - one)
  BY <1>6, <1>8, <1>9, <1>10, <1>11 DEF Completes
<1>13. QED
  BY <1>9, <1>12 DEF short, one

\* A command begins a packet, and the flit after which the egress expects a command
\* ends it, the command itself when no data follows.
LEMMA UnderwaySent ==
    ASSUME IInv, NEW n \in Nodes, NEW ready \in BOOLEAN, NEW take \in BOOLEAN,
           NEW f \in Offers(n) \cup {NoFlit}, Cycle(n, f, ready, take),
           NEW p \in Packets, NEW t \in Nat, Underway(n, p, t)
    PROVE  \E u \in Nat : u = t + Change(Begins(n, f, ready, p), FALSE) /\ Underway(n, p, u)'
<1> DEFINE more == Change(Begins(n, f, ready, p), FALSE)
<1>1. /\ Typed /\ Sending(n) /\ Peer(n) \in Nodes /\ Stream(n) \in Seq(Flits)
      /\ egr[n] \in 0..DataFlits /\ left[n].count \in 0..DataFlits
      /\ DataFlits \in Nat \ {0}
  BY TwoNodes, StreamTyped, BackpressureAssumption DEF IInv, Typed
<1>2. PICK c \in Nat : /\ Completes(Stream(n), ing[Peer(n)], egr[n], p, c)
                       /\ t = c + Partly(n, p)
  BY DEF Underway
<1>3. CASE ~Sends(n, f, ready)
  <2>1. Stream(n)' = Stream(n) /\ ing'[Peer(n)] = ing[Peer(n)] /\ egr'[n] = egr[n]
    BY <1>3, StreamSent, CycleTyped
  <2>2. Partly(n, p)' = Partly(n, p)
    BY <1>3 DEF Cycle, Users, Partly
  <2>3. more = 0
    BY <1>3 DEF Begins, Change
  <2>4. Underway(n, p, t)'
    BY <1>2, <2>1, <2>2 DEF Underway
  <2> HIDE DEF more
  <2>5. t = t + more
    BY <2>3
  <2>6. QED
    BY <2>4, <2>5 DEF more
<1>4. CASE Sends(n, f, ready)
  <2> DEFINE g == out'[n]
             one == EndOf(p, g, Follow(egr[n], g))
  <2>1. /\ f \in Flits /\ g \in Flits /\ g.packet = f.packet /\ (f.cmd <=> egr[n] = 0)
        /\ ~f.cmd => HasData(f.packet)
        /\ f \in Offers(n)
    BY <1>4, SentFlit, OffersTyped DEF Cycle
  <2>2. /\ Stream(n)' = Append(Stream(n), g) /\ ing'[Peer(n)] = ing[Peer(n)]
        /\ egr'[n] = Follow(egr[n], g)
    BY <1>4, StreamSent, CycleTyped
  <2>3. Completes(Stream(n)', ing'[Peer(n)], egr'[n], p, c + one)
    BY <1>1, <1>2, <2>1, <2>2, CompletesAppend
  <2>4. one + Partly(n, p)' = Partly(n, p) + more /\ one \in Nat
    <3>1. CASE f.cmd
      <4>1. f = Command(f.packet) /\ left[n].count = 0 /\ egr[n] = 0
        BY <1>1, <2>1, <3>1 DEF Offers, Due, Data, Command, Sending
      <4>2. Begins(n, f, ready, p) <=> f.packet = p
        BY <1>4, <4>1 DEF Begins, Command
      <4>3. left'[n] = [packet |-> f.packet,
                        count |-> IF HasData(f.packet) THEN DataFlits ELSE 0]
        BY <1>1, <1>4, <3>1 DEF Cycle, Users, Typed
      <4>4. Follow(egr[n], g) = IF HasData(f.packet) THEN DataFlits ELSE 0
        BY <2>1, <4>1 DEF Follow
      <4>5. Partly(n, p) = 0 /\ more = IF f.packet = p THEN 1 ELSE 0
        BY <4>1, <4>2 DEF Partly, Change
      <4>6. Partly(n, p)' = IF HasData(f.packet) /\ f.packet = p THEN 1 ELSE 0
        BY <1>1, <4>3 DEF Partly
      <4>7. one = IF ~HasData(f.packet) /\ f.packet = p THEN 1 ELSE 0
        BY <1>1, <2>1, <4>4 DEF EndOf
      <4> HIDE DEF one, more
      <4>8. QED
        BY <4>5, <4>6, <4>7
    <3>2. CASE ~f.cmd
      <4>1. f = Data(left[n].packet) /\ left[n].count > 0 /\ egr[n] = left[n].count
        BY <1>1, <2>1, <3>2 DEF Offers, Due, Data, Command, Sending
      <4>2. ~Begins(n, f, ready, p)
        BY <3>2 DEF Begins, Command
      <4>3. left'[n] = [packet |-> left[n].packet, count |-> left[n].count - 1]
        BY <1>1, <1>4, <3>2 DEF Cycle, Users, Typed
      <4>4. Follow(egr[n], g) = left[n].count - 1
        BY <4>1 DEF Follow
      <4>5. Partly(n, p) = (IF left[n].packet = p THEN 1 ELSE 0) /\ more = 0
        BY <4>1, <4>2 DEF Partly, Change
      <4>6. Partly(n, p)' = IF left[n].count - 1 > 0 /\ left[n].packet = p THEN 1 ELSE 0
        BY <4>3 DEF Partly
      <4>7. one = IF left[n].count - 1 = 0 /\ left[n].packet = p THEN 1 ELSE 0
        BY <2>1, <4>1, <4>4 DEF EndOf, Data
      <4> HIDE DEF one, more
      <4>8. QED
        BY <1>1, <4>1, <4>5, <4>6, <4>7
    <3>3. QED
      BY <3>1, <3>2
  <2>5. Partly(n, p) \in Nat /\ Partly(n, p)' \in Nat /\ more \in Nat
    BY DEF Partly, Change
  <2> HIDE DEF one, more
  <2>6. t + more = (c + one) + Partly(n, p)' /\ c + one \in Nat
    BY <1>2, <2>4, <2>5
  <2>7. ASSUME NEW u, u = t + more
        PROVE  u \in Nat /\ Underway(n, p, u)'
    BY <2>3, <2>5, <2>6, <2>7 DEF Underway
  <2>8. QED
    BY <2>7 DEF more
<1>5. QED
  BY <1>3, <1>4

\* A packet is no longer on its way when its last flit is taken.
LEMMA UnderwayTaken ==
    ASSUME IInv, NEW n \in Nodes, NEW ready \in BOOLEAN, NEW take \in BOOLEAN,
           NEW f \in Offers(n) \cup {NoFlit}, Cycle(n, f, ready, take),
           NEW p \in Packets, NEW t \in Nat, Underway(Peer(n), p, t)
    PROVE  \E u \in Nat : /\ u = t - Change(Arrives(n, take, p), FALSE)
                          /\ Underway(Peer(n), p, u)'
<1> DEFINE q == Peer(n)
           less == Change(Arrives(n, take, p), FALSE)
<1>1. /\ Typed /\ q \in Nodes /\ q # n /\ Peer(q) = n /\ Stream(q) \in Seq(Flits)
  BY TwoNodes, StreamTyped DEF IInv
<1>2. PICK c \in Nat : /\ Completes(Stream(q), ing[n], egr[q], p, c)
                       /\ t = c + Partly(q, p)
  BY <1>1 DEF Underway
<1>3. /\ Partly(q, p)' = Partly(q, p) /\ Partly(q, p) \in Nat
      /\ egr'[q] = egr[q]
  <2>1. left'[q] = left[q]
    BY <1>1 DEF Cycle, Users, Typed
  <2>2. QED
    BY <2>1, CycleTyped DEF Partly
<1>4. /\ c - less \in Nat /\ less \in {0, 1}
      /\ Completes(Stream(q)', ing'[n], egr'[q], p, c - less)
  <2>1. CASE ~Takes(n, take)
    <3>1. Stream(q)' = Stream(q) /\ ing'[n] = ing[n] /\ less = 0
      BY <2>1, StreamTaken, CycleTyped DEF Arrives, Change
    <3> HIDE DEF less
    <3>2. c - less = c
      BY <3>1
    <3>3. QED
      BY <1>2, <1>3, <3>1, <3>2
  <2>2. CASE Takes(n, take)
    <3>1. /\ Stream(q) # <<>> /\ Incoming(n) = Head(Stream(q))
          /\ Stream(q)' = Tail(Stream(q))
          /\ ing'[n] = Follow(ing[n], Head(Stream(q)))
      BY <2>2, StreamTaken, CycleTyped
    <3>2. less = EndOf(p, Head(Stream(q)), Follow(ing[n], Head(Stream(q))))
      BY <2>2, <3>1 DEF Arrives, EndOf, Change
    <3>3. less \in {0, 1}
      BY DEF Change
    <3> HIDE DEF less
    <3>4. QED
      BY <1>1, <1>2, <1>3, <3>1, <3>2, <3>3, CompletesTail
  <2>3. QED
    BY <2>1, <2>2
<1> HIDE DEF less
<1>5. t - less = (c - less) + Partly(q, p)' /\ t - less \in Nat
  BY <1>2, <1>3, <1>4
<1>6. ASSUME NEW u, u = t - less
      PROVE  Underway(q, p, u)'
  BY <1>1, <1>4, <1>5, <1>6 DEF Underway
<1>7. QED
  BY <1>5, <1>6 DEF less

\* The two sides of the traffic stay apart.
LEMMA KindsStay ==
    ASSUME TInv, NEW n \in Nodes, NEW ready \in BOOLEAN, NEW take \in BOOLEAN,
           NEW f \in Offers(n) \cup {NoFlit}, Cycle(n, f, ready, take)
    PROVE  /\ KindsKept(n)' /\ KindsKept(Peer(n))'
           /\ Sends(n, f, ready) => f.packet \in Kind(n)
           /\ Takes(n, take) => Incoming(n).packet \in Kind(Peer(n))
<1> DEFINE q == Peer(n)
<1>1. /\ IInv /\ Typed /\ q \in Nodes /\ q # n /\ KindsKept(n) /\ KindsKept(q)
      /\ Stream(n) \in Seq(Flits) /\ Stream(q) \in Seq(Flits)
  BY TwoNodes, StreamTyped DEF IInv, TInv
<1>2. ASSUME Sends(n, f, ready)
      PROVE  f.packet \in Kind(n)
  <2>1. f \in Offers(n)
    BY <1>2 DEF Sends
  <2>2. CASE left[n].count > 0
    BY <1>1, <2>1, <2>2, SMTT(30) DEF Offers, Due, Data, KindsKept, Typed
  <2>3. CASE ~(left[n].count > 0)
    <3>1. PICK r \in Requests : \/ f = Command(Answer[r]) /\ n = "memory"
                                \/ f = Command(r) /\ n = "compute"
      BY <2>1, <2>3 DEF Offers, Due
    <3>2. QED
      BY <3>1, BackpressureAssumption DEF Command, Answer, Kind
  <2>4. QED
    BY <2>2, <2>3
<1>3. KindsKept(n)'
  <2>1. \A i \in 1..Len(Stream(n)') : Stream(n)'[i].packet \in Kind(n)
    <3>1. CASE Sends(n, f, ready)
      <4>1. out'[n] \in Flits /\ out'[n].packet \in Kind(n)
        BY <1>1, <1>2, <3>1, SentFlit DEF Cycle
      <4>2. Stream(n)' = Append(Stream(n), out'[n])
        BY <1>1, <3>1, StreamSent
      <4>3. QED
        BY <1>1, <4>1, <4>2 DEF KindsKept
    <3>2. CASE ~Sends(n, f, ready)
      <4>1. Stream(n)' = Stream(n)
        BY <1>1, <3>2, StreamSent
      <4>2. QED
        BY <1>1, <4>1 DEF KindsKept
    <3>3. QED
      BY <3>1, <3>2
  <2>2. left'[n].count > 0 => left'[n].packet \in Kind(n)
    <3>1. CASE Sends(n, f, ready) /\ f.cmd
      BY <1>1, <1>2, <3>1 DEF Cycle, Users, Typed
    <3>2. CASE Sends(n, f, ready) /\ ~f.cmd
      <4>1. left[n].count > 0
        BY <1>1, <3>2, OffersTyped, SMTT(30) DEF IInv, Sending, Typed, Sends
      <4>2. left'[n].packet = left[n].packet
        BY <1>1, <3>2 DEF Cycle, Users, Typed
      <4>3. QED
        BY <1>1, <4>1, <4>2 DEF KindsKept
    <3>3. CASE ~Sends(n, f, ready)
      BY <1>1, <3>3 DEF Cycle, Users, KindsKept
    <3>4. QED
      BY <3>1, <3>2, <3>3
  <2>3. QED
    BY <2>1, <2>2 DEF KindsKept
<1>4. KindsKept(q)'
  <2>1. left'[q] = left[q]
    BY <1>1 DEF Cycle, Users, Typed
  <2>2. CASE Takes(n, take)
    <3>1. Stream(q) # <<>> /\ Stream(q)' = Tail(Stream(q))
      BY <1>1, <2>2, StreamTaken
    <3>2. \A i \in 1..Len(Stream(q)') : Stream(q)'[i] = Stream(q)[i + 1] /\ i + 1 \in 1..Len(Stream(q))
      BY <1>1, <3>1
    <3>3. QED
      BY <1>1, <2>1, <3>2 DEF KindsKept
  <2>3. CASE ~Takes(n, take)
    <3>1. Stream(q)' = Stream(q)
      BY <1>1, <2>3, StreamTaken
    <3>2. QED
      BY <1>1, <2>1, <3>1 DEF KindsKept
  <2>4. QED
    BY <2>2, <2>3
<1>5. Takes(n, take) => Incoming(n).packet \in Kind(q)
  <2>1. Takes(n, take) => Stream(q) # <<>> /\ Incoming(n) = Stream(q)[1] /\ 1 \in 1..Len(Stream(q))
    <3>1. Takes(n, take) => Stream(q) # <<>> /\ Incoming(n) = Head(Stream(q))
      BY <1>1, StreamTaken
    <3>2. QED
      BY <1>1, <3>1
  <2>2. QED
    BY <1>1, <2>1 DEF KindsKept
<1>6. QED
  BY <1>2, <1>3, <1>4, <1>5

\* The counters of the users follow the packets: what the compute end begins it has
\* open, what arrives at the memory end is owed, what the memory end begins is on its
\* way back, and what arrives at the compute end is open no longer.
LEMMA AccountedStay ==
    ASSUME TInv, NEW n \in Nodes, NEW ready \in BOOLEAN, NEW take \in BOOLEAN,
           NEW f \in Offers(n) \cup {NoFlit}, Cycle(n, f, ready, take), NEW r \in Requests
    PROVE  Accounted(r)'
<1> DEFINE begun == Change(Begins(n, f, ready, r), FALSE)
           answered == Change(Begins(n, f, ready, Answer[r]), FALSE)
           asked == Change(Arrives(n, take, r), FALSE)
           closed == Change(Arrives(n, take, Answer[r]), FALSE)
<1>1. /\ IInv /\ Accounted(r)
      /\ r \in Packets /\ Answer[r] \in Packets /\ r # Answer[r]
      /\ r \in Kind("compute") /\ Answer[r] \in Kind("memory")
      /\ r \notin Kind("memory") /\ Answer[r] \notin Kind("compute")
      /\ Window[r] \in Nat
  BY BackpressureAssumption DEF TInv, Packets, Answer, Kind
<1>2. PICK t \in Nat, u \in Nat : /\ Underway("compute", r, t)
                                  /\ Underway("memory", Answer[r], u)
                                  /\ open[r] = t + owed[r] + u
  BY <1>1 DEF Accounted
<1>3. /\ begun \in {0, 1} /\ answered \in {0, 1} /\ asked \in {0, 1} /\ closed \in {0, 1}
      /\ owed[r] \in Nat /\ open[r] <= Window[r]
  BY <1>1 DEF Accounted, Change
<1>4. open'[r] = open[r] + begun - closed /\ owed'[r] = owed[r] + asked - answered
  <2>1. /\ open'[r] = open[r] + Change(Begins(n, f, ready, r), Arrives(n, take, Answer[r]))
        /\ owed'[r] = owed[r] + Change(Arrives(n, take, r), Begins(n, f, ready, Answer[r]))
    BY DEF Cycle, Users
  <2>2. /\ Change(Begins(n, f, ready, r), Arrives(n, take, Answer[r])) = begun - closed
        /\ Change(Arrives(n, take, r), Begins(n, f, ready, Answer[r])) = asked - answered
    BY DEF Change
  <2> HIDE DEF begun, answered, asked, closed
  <2>3. QED
    BY <1>2, <1>3, <2>1, <2>2
<1>5. begun = 1 => open[r] < Window[r] /\ left[n].count = 0
  <2>1. begun = 1 => Begins(n, f, ready, r)
    BY DEF Change
  <2>2. ASSUME Begins(n, f, ready, r)
        PROVE  open[r] < Window[r] /\ left[n].count = 0
    <3>1. f \in Offers(n) /\ f = Command(r)
      BY <2>2 DEF Begins, Sends
    <3>2. Typed /\ left[n].count \in 0..DataFlits
      BY <1>1 DEF IInv, Typed
    <3>3. left[n].count = 0
      BY <3>1, <3>2 DEF Offers, Due, Command, Data
    <3>4. r \notin {Answer[q] : q \in Requests}
      BY <1>1, BackpressureAssumption DEF Answer, Kind
    <3>5. f \notin Due(n)
      <4>1. ASSUME NEW q \in Requests, f = Command(Answer[q])
            PROVE  FALSE
        <5>1. f.packet = r /\ f.packet = Answer[q]
          BY <3>1, <4>1 DEF Command
        <5>2. QED
          BY <3>4, <5>1
      <4>2. QED
        BY <3>3, <4>1 DEF Due
    <3>6. QED
      BY <3>1, <3>3, <3>5 DEF Offers, Command
  <2>3. QED
    BY <2>1, <2>2
<1>6. answered = 1 => owed[r] > 0
  <2>1. answered = 1 => Begins(n, f, ready, Answer[r])
    BY DEF Change
  <2>2. ASSUME Begins(n, f, ready, Answer[r])
        PROVE  owed[r] > 0
    <3>1. f \in Offers(n) /\ f = Command(Answer[r])
      BY <2>2 DEF Begins, Sends
    <3>2. Typed /\ left[n].count \in 0..DataFlits
      BY <1>1 DEF IInv, Typed
    <3>3. left[n].count = 0
      BY <3>1, <3>2 DEF Offers, Due, Command, Data
    <3>4. Answer[r] \notin Requests
      BY BackpressureAssumption DEF Answer
    <3>5. \A q \in Requests : Answer[q] = Answer[r] => q = r
      BY BackpressureAssumption DEF Answer
    <3>6. f.packet = Answer[r]
      BY <3>1 DEF Command
    <3>7. ASSUME f \notin Due(n)
          PROVE  FALSE
      <4>1. PICK q \in Requests : f = Command(q)
        BY <3>1, <3>7 DEF Offers
      <4>2. QED
        BY <3>4, <3>6, <4>1 DEF Command
    <3>8. PICK q \in Requests : owed[q] > 0 /\ f = Command(Answer[q])
      BY <3>3, <3>7 DEF Due
    <3>9. Answer[q] = Answer[r]
      BY <3>6, <3>8 DEF Command
    <3>10. QED
      BY <3>5, <3>8, <3>9
  <2>3. QED
    BY <2>1, <2>2
<1>7. CASE n = "compute"
  <2>1. answered = 0 /\ asked = 0
    <3>1. /\ Sends(n, f, ready) => f.packet \in Kind(n)
          /\ Takes(n, take) => Incoming(n).packet \in Kind(Peer(n))
      BY KindsStay
    <3>2. ~Begins(n, f, ready, Answer[r]) /\ ~Arrives(n, take, r)
      BY <1>1, <1>7, <3>1 DEF Begins, Arrives, Command, Peer
    <3>3. QED
      BY <3>2 DEF Change
  <2>2. PICK t1 \in Nat : t1 = t + begun /\ Underway("compute", r, t1)'
    <3>1. r \in Packets /\ Underway(n, r, t)
      BY <1>1, <1>2, <1>7
    <3>2. PICK v \in Nat : v = t + begun /\ Underway(n, r, v)'
      BY <1>1, <3>1, UnderwaySent, ZenonT(60)
    <3>3. Underway("compute", r, v)'
      BY <1>7, <3>2
    <3>4. QED
      BY <3>2, <3>3
  <2>3. PICK u1 \in Nat : u1 = u - closed /\ Underway("memory", Answer[r], u1)'
    BY <1>1, <1>2, <1>7, UnderwayTaken, ZenonT(60) DEF Peer
  <2> HIDE DEF begun, answered, asked, closed
  <2>4. /\ open'[r] = t1 + owed'[r] + u1 /\ owed'[r] \in Nat /\ open'[r] <= Window[r]
    BY <1>1, <1>2, <1>3, <1>4, <1>5, <2>1, <2>2, <2>3
  <2>5. QED
    BY <2>2, <2>3, <2>4 DEF Accounted
<1>8. CASE n = "memory"
  <2>1. begun = 0 /\ closed = 0
    <3>1. /\ Sends(n, f, ready) => f.packet \in Kind(n)
          /\ Takes(n, take) => Incoming(n).packet \in Kind(Peer(n))
      BY KindsStay
    <3>2. ~Begins(n, f, ready, r) /\ ~Arrives(n, take, Answer[r])
      BY <1>1, <1>8, <3>1 DEF Begins, Arrives, Command, Peer
    <3>3. QED
      BY <3>2 DEF Change
  <2>2. PICK u1 \in Nat : u1 = u + answered /\ Underway("memory", Answer[r], u1)'
    <3>1. Answer[r] \in Packets /\ Underway(n, Answer[r], u)
      BY <1>1, <1>2, <1>8
    <3>2. PICK v \in Nat : v = u + answered /\ Underway(n, Answer[r], v)'
      BY <1>1, <3>1, UnderwaySent, ZenonT(60)
    <3>3. Underway("memory", Answer[r], v)'
      BY <1>8, <3>2
    <3>4. QED
      BY <3>2, <3>3
  <2>3. PICK t1 \in Nat : t1 = t - asked /\ Underway("compute", r, t1)'
    BY <1>1, <1>2, <1>8, UnderwayTaken, ZenonT(60) DEF Peer
  <2> HIDE DEF begun, answered, asked, closed
  <2>4. /\ open'[r] = t1 + owed'[r] + u1 /\ owed'[r] \in Nat /\ open'[r] <= Window[r]
    BY <1>1, <1>2, <1>3, <1>4, <1>6, <2>1, <2>2, <2>3
  <2>5. QED
    BY <2>2, <2>3, <2>4 DEF Accounted
<1>9. QED
  BY <1>7, <1>8 DEF Nodes

LEMMA InitTInv == Init => TInv
<1> SUFFICES ASSUME Init PROVE TInv
  OBVIOUS
<1>1. IInv
  BY InitIInv
<1>2. ASSUME NEW n \in Nodes
      PROVE  /\ Stream(n) = <<>> /\ left[n].count = 0
             /\ KindsKept(n)
             /\ \A p : Underway(n, p, 0)
  <2>1. /\ Stream(n) = <<>> /\ left[n].count = 0 /\ Peer(n) \in Nodes
        /\ ing[Peer(n)] = 0 /\ egr[n] = 0
    BY TwoNodes DEF Init, Stream
  <2>2. KindsKept(n)
    BY <2>1 DEF KindsKept
  <2>3. ASSUME NEW p PROVE Completes(<<>>, 0, 0, p, 0)
    <3> DEFINE z == [i \in 1..1 |-> 0]
    <3>1. Len(<<>>) = 0 /\ z[1] = 0
      OBVIOUS
    <3>2. z \in [1..1 -> 0..DataFlits] /\ z \in [1..1 -> Nat]
      BY BackpressureAssumption
    <3> HIDE DEF z
    <3>3. QED
      BY <3>1, <3>2 DEF Completes
  <2>4. \A p : Partly(n, p) = 0
    BY <2>1 DEF Partly
  <2>5. \A p : Underway(n, p, 0)
    BY <2>1, <2>3, <2>4 DEF Underway
  <2>6. QED
    BY <2>1, <2>2, <2>5
<1>3. ASSUME NEW r \in Requests PROVE Accounted(r)
  <2>1. Underway("compute", r, 0) /\ Underway("memory", Answer[r], 0)
    BY <1>2 DEF Nodes
  <2>2. open[r] = 0 /\ owed[r] = 0 /\ Window[r] \in Nat
    BY BackpressureAssumption DEF Init
  <2>3. QED
    BY <2>1, <2>2 DEF Accounted
<1>4. QED
  BY <1>1, <1>2, <1>3 DEF TInv

LEMMA NextTInv == TInv /\ [Next]_vars => TInv'
<1> SUFFICES ASSUME TInv, [Next]_vars PROVE TInv'
  OBVIOUS
<1>1. IInv'
  BY NextIInv DEF TInv
<1>2. CASE UNCHANGED vars
  <2>1. \A n \in Nodes : KindsKept(n)'
    BY <1>2 DEF vars, TInv, KindsKept, Stream
  <2>2. \A r \in Requests : Accounted(r)'
    BY <1>2 DEF vars, TInv, Accounted, Underway, Partly, Stream
  <2>3. QED
    BY <1>1, <2>1, <2>2 DEF TInv
<1>3. CASE Next
  <2>1. PICK n \in Nodes, ready \in BOOLEAN, take \in BOOLEAN :
          \E f \in Offers(n) \cup {NoFlit} : Cycle(n, f, ready, take)
    BY <1>3 DEF Next
  <2>2. PICK f \in Offers(n) \cup {NoFlit} : Cycle(n, f, ready, take)
    BY <2>1
  <2>3. \A m \in Nodes : KindsKept(m)'
    BY <2>2, KindsStay, TwoNodes
  <2>4. \A r \in Requests : Accounted(r)'
    BY <2>2, AccountedStay
  <2>5. QED
    BY <1>1, <2>3, <2>4 DEF TInv
<1>4. QED
  BY <1>2, <1>3

\* The counters keep to their registers: neither end ever has more credits than there
\* are, to spend or to return, the compute end has no more requests open than it may,
\* and the memory end owes no more responses than there are requests open.
THEOREM CountersInRange == Spec => []TypeOK
<1>1. TInv => TypeOK
  <2> SUFFICES ASSUME TInv PROVE TypeOK
    OBVIOUS
  <2>1. IInv /\ Typed
    BY DEF TInv, IInv
  <2>2. ASSUME NEW n \in Nodes
        PROVE  avail[n] \in 0..Creds /\ pending[Peer(n)] \in 0..Creds
    <3>1. PICK t \in Nat : avail[n] + Len(Stream(n)) + pending[Peer(n)] + t = Creds
      BY <2>1 DEF IInv, Conserved
    <3>2. /\ avail[n] \in Nat /\ pending[Peer(n)] \in Nat /\ Len(Stream(n)) \in Nat
          /\ Creds \in Nat
      BY <2>1, TwoNodes, StreamTyped, BackpressureAssumption, SMTT(30) DEF Typed
    <3>3. QED
      BY <3>1, <3>2
  <2>3. avail \in [Nodes -> 0..Creds] /\ pending \in [Nodes -> 0..Creds]
    <3>1. \A n \in Nodes : pending[n] \in 0..Creds
      BY <2>2, TwoNodes
    <3>2. QED
      BY <2>1, <2>2, <3>1 DEF Typed
  <2>4. ASSUME NEW r \in Requests
        PROVE  open[r] \in 0..Window[r] /\ owed[r] \in 0..open[r]
    <3>1. Accounted(r) /\ Window[r] \in Nat
      BY BackpressureAssumption DEF TInv
    <3>2. PICK t \in Nat, u \in Nat : open[r] = t + owed[r] + u
      BY <3>1 DEF Accounted
    <3>3. owed[r] \in Nat /\ open[r] <= Window[r]
      BY <3>1 DEF Accounted
    <3>4. QED
      BY <3>1, <3>2, <3>3
  <2>5. QED
    BY <2>1, <2>3, <2>4 DEF Typed, TypeOK, Packets
<1>2. QED
  BY <1>1, InitTInv, NextTInv, PTL DEF Spec
=============================================================================
