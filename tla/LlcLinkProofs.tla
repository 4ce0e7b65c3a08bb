---------------------------- MODULE LlcLinkProofs ----------------------------
(***************************************************************************)
(* Proofs about LlcLink: the link is a reliable channel in each direction, *)
(* for any number of slots, of copies of a message, of frames and of CRC   *)
(* errors; no frame is torn; and with no more errors than there are copies *)
(* of a message every stall is answered.                                   *)
(*                                                                         *)
(* Everything is said of one direction, to the parser of n from the framer *)
(* of its peer.  The slots hold the frames from the one that n expects up  *)
(* to the last one written; the framer has still to send those from a      *)
(* frame `next' on; and what is on the wire leads from the first of these  *)
(* to the second, with a preamble taking it back to the frame expected.    *)
(* A stall is answered by one burst at a time: a request latched, on the   *)
(* wire or latched by the peer, or a preamble on the wire.  That the burst *)
(* is not lost is counted: the copies of it that are still whole and the   *)
(* errors that have happened are together more than the copies of a burst. *)
(***************************************************************************)
EXTENDS LlcLink, FiniteSetTheorems, SequenceTheorems, TLAPS

\* The timing that the link relies on: a slot is not written again while the peer
\* expects its frame, and no copy of a request comes after it was served.
Timing == RoundTrip \in Nat /\ RoundTrip <= Slots /\ BurstTogether

Message == [kind : {"frame", "request", "preamble"}, data : Nat, ok : BOOLEAN]

TypeOK ==
    /\ written \in [Nodes -> Nat]
    /\ writing \in [Nodes -> BOOLEAN]
    /\ store \in [Nodes -> [Ids -> Nat]]
    /\ unsent \in [Nodes -> SUBSET Ids]
    /\ rdq \in [Nodes -> Nat]
    /\ serving \in [Nodes -> BOOLEAN]
    /\ remoteReq \in [Nodes -> Nat \cup {None}]
    /\ localReq \in [Nodes -> Nat \cup {None}]
    /\ expected \in [Nodes -> Nat]
    /\ stalled \in [Nodes -> BOOLEAN]
    /\ delivered \in [Nodes -> Seq(Nat)]
    /\ wire \in [Nodes -> Seq(Message)]

-----------------------------------------------------------------------------
(* The invariant of the direction to n *)

\* The frames that n has received, and so the number of the one before the next.
Position(n) == Len(delivered[n])

\* The parser has the frames in order, and counts them.
Delivery(n) ==
    /\ expected[n] = Position(n) % Slots
    /\ \A i \in 1 .. Position(n) : delivered[n][i] = i

\* The slots hold the frames that n may still ask for.
Window(n) ==
    /\ Position(n) <= written[Peer(n)]
    /\ written[Peer(n)] <= Position(n) + Slots
    /\ writing[Peer(n)] => written[Peer(n)] < Position(n) + Slots
    /\ \A i \in Position(n) .. written[Peer(n)] - 1 : store[Peer(n)][i % Slots] = i + 1

Indexes(s, kind) == {i \in DOMAIN s : s[i].kind = kind}
Requests(n) == Indexes(wire[n], "request")
Preambles(n) == Indexes(wire[Peer(n)], "preamble")

\* Nothing stands between two of P; nothing stands before one of P.
Together(P) == \A i, k \in P : \A j \in i .. k : j \in P
InFront(P) == \A i \in P : 1 .. i \subseteq P

\* n is stalled at a frame that was written, and no answer is under way.
Asking(n) ==
    /\ stalled[n]
    /\ Position(n) < written[Peer(n)]
    /\ Preambles(n) = {}

\* The one burst of n's recovery: its parser's request ...
Asked(n) ==
    localReq[n] # None =>
        /\ Asking(n)
        /\ localReq[n] = expected[n]
        /\ Requests(n) = {}
        /\ remoteReq[Peer(n)] = None

\* ... the copies of it on the wire ...
OnTheWay(n) ==
    /\ Requests(n) # {} => Asking(n) /\ localReq[n] = None
    /\ \A i \in Requests(n) : wire[n][i].data = expected[n]
    /\ Together(Requests(n))

\* ... the one that the peer has latched ...
Latched(n) ==
    /\ remoteReq[Peer(n)] # None =>
        /\ Asking(n)
        /\ localReq[n] = None
        /\ remoteReq[Peer(n)] = expected[n]
        /\ InFront(Requests(n))
    /\ serving[Peer(n)] => remoteReq[Peer(n)] # None

\* ... and the preambles that answer it.  The first of them ends the stall.
Answered(n) ==
    /\ Together(Preambles(n))
    /\ ~stalled[n] => InFront(Preambles(n))

Recovery(n) == Asked(n) /\ OnTheWay(n) /\ Latched(n) /\ Answered(n)

\* The framer has still to send the frames after the first `next'.
Reader(n, next) ==
    /\ next \in Position(n) .. written[Peer(n)]
    /\ rdq[Peer(n)] = next % Slots
    /\ unsent[Peer(n)] = {i % Slots : i \in next .. written[Peer(n)] - 1}
    /\ serving[Peer(n)] => next = Position(n)

\* num[i] frames were sent before item i of the wire, as far as n is to know: a frame
\* is the next one, a preamble goes back to the frame that n expects.
Step(n, num, i) ==
    LET m == wire[Peer(n)][i]
    IN /\ m.kind = "frame" => m.data = num[i] + 1 /\ num[i + 1] = num[i] + 1
       /\ m.kind = "request" => num[i + 1] = num[i]
       /\ m.kind = "preamble" => num[i + 1] = Position(n)

Places(n) == 1 .. Len(wire[Peer(n)]) + 1

Numbers(n, next, num) ==
    /\ num \in [Places(n) -> Nat]
    /\ ~serving[Peer(n)] => num[Len(wire[Peer(n)]) + 1] = next
    /\ ~stalled[n] => num[1] = Position(n)
    /\ \A i \in DOMAIN wire[Peer(n)] : Step(n, num, i)
    /\ \A i \in Places(n) : num[i] <= written[Peer(n)]
    /\ \A i \in Places(n) : \A j \in i .. Len(wire[Peer(n)]) + 1 :
          num[i] <= num[j] \/ \E k \in i .. j - 1 : k \in Preambles(n)

Transit(n) == \E next \in Nat, num \in Seq(Nat) : Reader(n, next) /\ Numbers(n, next, num)

Direction(n) == Delivery(n) /\ Window(n) /\ Recovery(n) /\ Transit(n)

IInv == TypeOK /\ \A n \in Nodes : Direction(n)

-----------------------------------------------------------------------------
(* Slots *)

\* A multiple of s that is nearer to 0 than s is 0.
LEMMA Multiple ==
    ASSUME NEW s \in Nat \ {0}, NEW q \in Int, s * q < s, -s < s * q
    PROVE  q = 0
<1>1. CASE q >= 1
  <2>1. s * q >= s
    BY <1>1, SMT
  <2>2. QED
    BY <2>1
<1>2. CASE q <= -1
  <2>1. s * q <= -s
    BY <1>2, SMT
  <2>2. QED
    BY <2>1
<1>3. QED
  BY <1>1, <1>2

\* What the provers know of division.
LEMMA Division ==
    ASSUME NEW s \in Nat \ {0}, NEW a \in Int
    PROVE  /\ a \div s \in Int
           /\ a % s \in 0 .. s - 1
           /\ a = s * (a \div s) + (a % s)
  OBVIOUS

\* a is q rounds of s slots and r more.
Splits(a, s, q, r) ==
    /\ a \in Int /\ q \in Int /\ r \in 0 .. s - 1
    /\ a = s * q + r

\* The remainder is the only one.
LEMMA Remainder ==
    ASSUME NEW s \in Nat \ {0}, NEW a, NEW q, NEW r, Splits(a, s, q, r)
    PROVE  a % s = r
<1>0. a \in Int /\ q \in Int /\ r \in 0 .. s - 1 /\ a = s * q + r
  BY DEF Splits
<1> DEFINE q1 == a \div s
           r1 == a % s
<1>1. q1 \in Int /\ r1 \in 0 .. s - 1 /\ a = s * q1 + r1
  BY <1>0, Division
<1> HIDE DEF q1, r1
<1>2. s * (q1 - q) = r - r1
  BY <1>0, <1>1
<1>3. q1 - q = 0
  BY <1>0, <1>1, <1>2, Multiple
<1>4. r = r1
  <2>1. s * (q1 - q) = 0
    BY <1>3
  <2>2. QED
    BY <1>0, <1>1, <1>2, <2>1
<1>5. QED
  BY <1>4 DEF r1

\* From the slot of a to the slot of a + k it is k slots.
LEMMA Distances ==
    ASSUME NEW s \in Nat \ {0}, NEW a \in Int, NEW k \in 0 .. s - 1
    PROVE  (((a + k) % s) - (a % s)) % s = k
<1>1. PICK q \in Int, r \in 0 .. s - 1 : a = s * q + r /\ a % s = r
  BY Division
<1>2. CASE r + k < s
  <2>1. (a + k) % s = r + k
    <3>1. Splits(a + k, s, q, r + k)
      BY <1>1, <1>2 DEF Splits
    <3>2. QED
      BY <3>1, Remainder
  <2>2. Splits(k, s, 0, k)
    BY DEF Splits
  <2>3. k % s = k
    BY <2>2, Remainder
  <2>4. QED
    BY <1>1, <2>1, <2>3
<1>3. CASE r + k >= s
  <2> DEFINE r2 == r + k - s
  <2>1. (a + k) % s = r2
    <3>1. Splits(a + k, s, q + 1, r2)
      BY <1>1, <1>3 DEF Splits
    <3>2. QED
      BY <3>1, Remainder
  <2>2. Splits(k - s, s, -1, k)
    BY DEF Splits
  <2>3. (k - s) % s = k
    BY <2>2, Remainder
  <2>4. QED
    BY <1>1, <2>1, <2>3
<1>4. QED
  BY <1>1, <1>2, <1>3

\* From the slot of a every slot is reached in less than a round.
LEMMA Reach ==
    ASSUME NEW s \in Nat \ {0}, NEW a \in Int, NEW x \in 0 .. s - 1
    PROVE  \E k \in 0 .. s - 1 : (a + k) % s = x
<1>1. PICK q \in Int, r \in 0 .. s - 1 : a = s * q + r
  BY Division
<1>2. CASE r <= x
  <2>1. Splits(a + (x - r), s, q, x) /\ x - r \in 0 .. s - 1
    BY <1>1, <1>2 DEF Splits
  <2>2. (a + (x - r)) % s = x
    BY <2>1, Remainder
  <2>3. QED
    BY <2>1, <2>2
<1>3. CASE r > x
  <2>1. Splits(a + (x - r + s), s, q + 1, x) /\ x - r + s \in 0 .. s - 1
    BY <1>1, <1>3 DEF Splits
  <2>2. (a + (x - r + s)) % s = x
    BY <2>1, Remainder
  <2>3. QED
    BY <2>1, <2>2
<1>4. QED
  BY <1>1, <1>2, <1>3

\* Counting on from the remainder is counting on from the number.
LEMMA Wraps ==
    ASSUME NEW s \in Nat \ {0}, NEW a \in Int
    PROVE  ((a % s) + 1) % s = (a + 1) % s
<1>1. PICK q \in Int, r \in 0 .. s - 1 : a = s * q + r /\ a % s = r
  BY Division
<1>2. CASE r + 1 < s
  <2>1. Splits(r + 1, s, 0, r + 1) /\ Splits(a + 1, s, q, r + 1)
    BY <1>1, <1>2 DEF Splits
  <2>2. (r + 1) % s = r + 1 /\ (a + 1) % s = r + 1
    BY <2>1, Remainder
  <2>3. QED
    BY <1>1, <2>2
<1>3. CASE r + 1 = s
  <2>1. Splits(r + 1, s, 1, 0) /\ Splits(a + 1, s, q + 1, 0)
    BY <1>1, <1>3 DEF Splits
  <2>2. (r + 1) % s = 0 /\ (a + 1) % s = 0
    BY <2>1, Remainder
  <2>3. QED
    BY <1>1, <2>2
<1>4. QED
  BY <1>2, <1>3

LEMMA SlotCount == Slots \in Nat \ {0}
  BY LinkAssumption

\* The same about Slots and Distance.
LEMMA SlotFacts ==
    /\ Slots \in Nat \ {0}
    /\ \A a \in Nat : a % Slots \in Ids
    /\ \A a \in Nat : \A k \in Ids : Distance(a % Slots, (a + k) % Slots) = k
    /\ \A a \in Nat : \A x \in Ids : \E k \in Ids : (a + k) % Slots = x
<1>1. Slots \in Nat \ {0}
  BY SlotCount
<1>2. \A a \in Nat : a % Slots \in Ids
  BY <1>1, Division DEF Ids
<1>3. ASSUME NEW a \in Nat, NEW k \in Ids
      PROVE  Distance(a % Slots, (a + k) % Slots) = k
  BY <1>1, Distances, SMTT(30) DEF Distance, Ids
<1>4. ASSUME NEW a \in Nat, NEW x \in Ids
      PROVE  \E k \in Ids : (a + k) % Slots = x
  <2>1. a \in Int /\ x \in 0 .. Slots - 1
    BY DEF Ids
  <2>2. \E k \in 0 .. Slots - 1 : (a + k) % Slots = x
    BY <1>1, <2>1, Reach
  <2>3. QED
    BY <2>2 DEF Ids
<1>5. QED
  BY <1>1, <1>2, <1>3, <1>4

\* The slot after a slot.
LEMMA NextSlot ==
    ASSUME NEW a \in Nat
    PROVE  Succ(a) \in Nat /\ Succ(a % Slots) = (a + 1) % Slots
<1>1. Succ(a) \in Nat
  <2>1. a + 1 \in Nat
    OBVIOUS
  <2>2. QED
    BY <2>1, SlotFacts DEF Succ, Ids
<1>2. ((a % Slots) + 1) % Slots = (a + 1) % Slots
  <2>1. Slots \in Nat \ {0} /\ a \in Int
    BY SlotFacts
  <2>2. QED
    BY <2>1, Wraps
<1>3. QED
  BY <1>1, <1>2 DEF Succ

\* Less than a round apart, two frames have two slots.
LEMMA OwnSlot ==
    ASSUME NEW a \in Nat, NEW b \in Nat, a < b, b < a + Slots
    PROVE  a % Slots # b % Slots
<1>1. b - a \in Ids /\ 0 \in Ids /\ a + (b - a) = b /\ a + 0 = a
  BY SlotFacts DEF Ids
<1>2. Distance(a % Slots, b % Slots) = b - a
  BY <1>1, SlotFacts, ZenonT(60)
<1>3. Distance(a % Slots, a % Slots) = 0
  BY <1>1, SlotFacts
<1>4. QED
  BY <1>2, <1>3

\* Slots after slot a come in the order of their distance from it, a itself first.
LEMMA NearestSlot ==
    ASSUME NEW a \in Nat, NEW x \in Ids, Distance(a % Slots, x) <= Distance(a % Slots, a % Slots)
    PROVE  x = a % Slots
<1>1. PICK k \in Ids : (a + k) % Slots = x
  BY SlotFacts
<1>2. Distance(a % Slots, x) = k
  BY <1>1, SlotFacts
<1>3. 0 \in Ids /\ a + 0 = a
  BY SlotFacts DEF Ids
<1>4. Distance(a % Slots, a % Slots) = 0
  BY <1>3, SlotFacts
<1>5. k = 0
  BY <1>2, <1>4, SlotFacts DEF Ids
<1>6. QED
  BY <1>1, <1>5

\* Span marks the slots of the frames from a up to b.
LEMMA SpanOfFrames ==
    ASSUME NEW a \in Nat, NEW b \in Nat, a < b, b <= a + Slots
    PROVE  Span(a % Slots, b % Slots) = {i % Slots : i \in a .. b - 1}
<1> DEFINE frames == {i % Slots : i \in a .. b - 1}
<1>1. frames \subseteq Ids
  <2>1. \A i \in a .. b - 1 : i \in Nat
    OBVIOUS
  <2>2. QED
    BY <2>1, SlotFacts
<1>2. CASE b = a + Slots
  <2>1. a % Slots = b % Slots
    <3>1. Slots - 1 \in Ids /\ 0 \in Ids
      BY SlotFacts DEF Ids
    <3>2. PICK k \in Ids : (a + 1 + k) % Slots = a % Slots
      <4>1. a + 1 \in Nat
        OBVIOUS
      <4>2. a % Slots \in Ids
        BY SlotFacts
      <4>3. QED
        BY <4>1, <4>2, SlotFacts
    <3>3. CASE k = Slots - 1
      BY <1>2, <3>2, <3>3, SlotFacts
    <3>4. CASE k # Slots - 1
      <4>1. a + 1 + k < a + Slots /\ a < a + 1 + k /\ a + 1 + k \in Nat
        BY <3>4, SlotFacts DEF Ids
      <4>2. QED
        BY <3>2, <4>1, OwnSlot
    <3>5. QED
      BY <3>3, <3>4
  <2>2. ASSUME NEW x \in Ids
        PROVE  x \in frames
    <3>1. PICK k \in Ids : (a + k) % Slots = x
      BY SlotFacts
    <3>2. a + k \in a .. b - 1
      BY <1>2, SlotFacts DEF Ids
    <3>3. QED
      BY <3>1, <3>2
  <2>3. QED
    BY <1>1, <2>1, <2>2 DEF Span
<1>3. CASE b < a + Slots
  <2>1. a % Slots # b % Slots
    BY <1>3, OwnSlot
  <2>2. Distance(a % Slots, b % Slots) = b - a
    <3>1. b - a \in Ids /\ a + (b - a) = b
      BY <1>3, SlotFacts DEF Ids
    <3>2. QED
      BY <3>1, SlotFacts, ZenonT(60)
  <2>3. ASSUME NEW x \in Ids, Distance(a % Slots, x) < b - a
        PROVE  x \in frames
    <3>1. PICK k \in Ids : (a + k) % Slots = x
      BY SlotFacts
    <3>2. k < b - a
      BY <2>3, <3>1, SlotFacts
    <3>3. a + k \in a .. b - 1
      BY <3>2 DEF Ids
    <3>4. QED
      BY <3>1, <3>3
  <2>4. ASSUME NEW i \in a .. b - 1
        PROVE  Distance(a % Slots, i % Slots) < b - a
    <3>1. i - a \in Ids /\ a + (i - a) = i
      BY <1>3, SlotFacts DEF Ids
    <3>2. Distance(a % Slots, i % Slots) = i - a
      BY <3>1, SlotFacts
    <3>3. QED
      BY <3>2
  <2>5. QED
    BY <1>1, <2>1, <2>2, <2>3, <2>4 DEF Span
<1>4. b = a + Slots \/ b < a + Slots
  BY SlotFacts
<1>5. QED
  BY <1>2, <1>3, <1>4

-----------------------------------------------------------------------------
(* Nodes and the wire *)

\* The link has two ends.
LEMMA PeerFacts ==
    ASSUME NEW n \in Nodes
    PROVE  /\ Peer(n) \in Nodes
           /\ Peer(n) # n
           /\ Peer(Peer(n)) = n
           /\ \A m \in Nodes : m = n \/ m = Peer(n)
<1>1. PICK a \in Nodes, b \in Nodes : a # b /\ Nodes = {a, b}
  BY LinkAssumption
<1>2. ASSUME NEW m \in Nodes
      PROVE  Peer(m) \in Nodes /\ Peer(m) # m
  <2>1. \E p \in Nodes : p # m
    BY <1>1
  <2>2. QED
    BY <2>1 DEF Peer
<1>3. Peer(n) \in Nodes /\ Peer(n) # n
  BY <1>2
<1>4. Peer(Peer(n)) \in Nodes /\ Peer(Peer(n)) # Peer(n)
  BY <1>2, <1>3
<1>5. QED
  BY <1>1, <1>3, <1>4

\* What is said of the items of one kind stays true when the first item is taken.
\* Those that stand together are in front when the first was one of them.
LEMMA TailIndexes ==
    ASSUME NEW s \in Seq(Message), s # <<>>, NEW kind
    PROVE  /\ \A i \in Indexes(Tail(s), kind) :
                 i + 1 \in Indexes(s, kind) /\ Tail(s)[i] = s[i + 1]
           /\ Indexes(s, kind) = {} => Indexes(Tail(s), kind) = {}
           /\ Together(Indexes(s, kind)) => Together(Indexes(Tail(s), kind))
           /\ InFront(Indexes(s, kind)) => InFront(Indexes(Tail(s), kind))
           /\ InFront(Indexes(s, kind)) /\ Head(s).kind # kind => Indexes(s, kind) = {}
           /\ Together(Indexes(s, kind)) /\ Head(s).kind = kind
                 => InFront(Indexes(Tail(s), kind))
<1> DEFINE P == Indexes(s, kind)
           Q == Indexes(Tail(s), kind)
<1>1. /\ Len(s) \in Nat \ {0}
      /\ DOMAIN s = 1 .. Len(s)
      /\ DOMAIN Tail(s) = 1 .. Len(s) - 1
      /\ Head(s) = s[1]
      /\ \A i \in 1 .. Len(s) - 1 : Tail(s)[i] = s[i + 1]
  BY HeadTailProperties, LenProperties, EmptySeq
<1>2. P \subseteq 1 .. Len(s)
  BY <1>1 DEF Indexes
<1>3. \A i \in 1 .. Len(s) - 1 : i \in Q <=> i + 1 \in P
  BY <1>1 DEF Indexes
<1>4. Q \subseteq 1 .. Len(s) - 1
  BY <1>1 DEF Indexes
<1>5. \A i \in Q : i + 1 \in P /\ Tail(s)[i] = s[i + 1]
  BY <1>1, <1>3, <1>4
<1>6. 1 \in P <=> Head(s).kind = kind
  BY <1>1 DEF Indexes
<1> HIDE DEF P, Q
<1>7. P = {} => Q = {}
  BY <1>5
<1>8. ASSUME Together(P)
      PROVE  Together(Q)
  <2>1. SUFFICES ASSUME NEW i \in Q, NEW k \in Q, NEW j \in i .. k
                 PROVE  j \in Q
    BY DEF Together
  <2>2. j + 1 \in (i + 1) .. (k + 1) /\ j \in 1 .. Len(s) - 1
    BY <1>1, <1>4
  <2>3. QED
    BY <1>3, <1>5, <1>8, <2>2 DEF Together
<1>9. ASSUME InFront(P)
      PROVE  InFront(Q)
  <2>1. SUFFICES ASSUME NEW i \in Q, NEW j \in 1 .. i
                 PROVE  j \in Q
    BY DEF InFront
  <2>2. j + 1 \in 1 .. (i + 1) /\ j \in 1 .. Len(s) - 1
    BY <1>1, <1>4
  <2>3. QED
    BY <1>3, <1>5, <1>9, <2>2 DEF InFront
<1>10. ASSUME InFront(P), Head(s).kind # kind
       PROVE  P = {}
  <2>1. \A i \in P : 1 \in 1 .. i
    BY <1>2
  <2>2. QED
    BY <1>6, <1>10, <2>1 DEF InFront
<1>11. ASSUME Together(P), Head(s).kind = kind
       PROVE  InFront(Q)
  <2>1. SUFFICES ASSUME NEW i \in Q, NEW j \in 1 .. i
                 PROVE  j \in Q
    BY DEF InFront
  <2>2. j + 1 \in 1 .. (i + 1) /\ j \in 1 .. Len(s) - 1
    BY <1>1, <1>4
  <2>3. QED
    BY <1>3, <1>5, <1>6, <1>11, <2>2 DEF Together
<1>12. QED
  BY <1>5, <1>7, <1>8, <1>9, <1>10, <1>11 DEF P, Q

\* A burst of copies of m.
LEMMA BurstItems ==
    ASSUME NEW m \in Message
    PROVE  /\ Burst(m) \in Seq(Message)
           /\ Len(Burst(m)) = Copies
           /\ \A i \in 1 .. Copies : Burst(m)[i] = m
           /\ Copies \in Nat \ {0}
  BY LinkAssumption DEF Burst

\* Items of other kinds put at the end change nothing.
LEMMA ConcatIndexes ==
    ASSUME NEW s \in Seq(Message), NEW t \in Seq(Message), NEW kind,
           \A i \in 1 .. Len(t) : t[i].kind # kind
    PROVE  Indexes(s \o t, kind) = Indexes(s, kind)
<1>1. /\ DOMAIN s = 1 .. Len(s) /\ Len(s) \in Nat /\ Len(t) \in Nat
      /\ DOMAIN (s \o t) = 1 .. Len(s) + Len(t)
      /\ \A i \in 1 .. Len(s) + Len(t) : (s \o t)[i] = IF i <= Len(s) THEN s[i] ELSE t[i - Len(s)]
  BY ConcatProperties, LenProperties
<1>2. ASSUME NEW i \in 1 .. Len(s) + Len(t), i > Len(s)
      PROVE  (s \o t)[i].kind # kind
  <2>1. i - Len(s) \in 1 .. Len(t)
    BY <1>1, <1>2
  <2>2. QED
    BY <1>1, <1>2, <2>1
<1>3. QED
  BY <1>1, <1>2 DEF Indexes

LEMMA AppendIndexes ==
    ASSUME NEW s \in Seq(Message), NEW m \in Message, NEW kind, m.kind # kind
    PROVE  Indexes(Append(s, m), kind) = Indexes(s, kind)
<1>1. Append(s, m) = s \o <<m>> /\ <<m>> \in Seq(Message)
  BY AppendIsConcat
<1>2. \A i \in 1 .. Len(<<m>>) : <<m>>[i].kind # kind
  OBVIOUS
<1>3. QED
  BY <1>1, <1>2, ConcatIndexes, ZenonT(60)

\* The copies of one burst stand together.
LEMMA BurstIndexes ==
    ASSUME NEW s \in Seq(Message), NEW m \in Message, Indexes(s, m.kind) = {}
    PROVE  /\ Together(Indexes(s \o Burst(m), m.kind))
           /\ \A i \in Indexes(s \o Burst(m), m.kind) : (s \o Burst(m))[i] = m
<1> DEFINE t == s \o Burst(m)
<1>1. /\ DOMAIN s = 1 .. Len(s) /\ Len(s) \in Nat /\ Copies \in Nat
      /\ DOMAIN t = 1 .. Len(s) + Copies
      /\ \A i \in 1 .. Len(s) + Copies : t[i] = IF i <= Len(s) THEN s[i] ELSE Burst(m)[i - Len(s)]
  <2>1. /\ t \in Seq(Message) /\ Len(t) = Len(s) + Copies
        /\ \A i \in 1 .. Len(s) + Copies : t[i] = IF i <= Len(s) THEN s[i] ELSE Burst(m)[i - Len(s)]
    BY ConcatProperties, BurstItems, ZenonT(60)
  <2> HIDE DEF t
  <2>2. QED
    BY <2>1, LenProperties, BurstItems
<1>2. ASSUME NEW i \in 1 .. Len(s) + Copies, i > Len(s)
      PROVE  t[i] = m
  <2>1. i - Len(s) \in 1 .. Copies
    BY <1>1, <1>2
  <2>2. QED
    BY <1>1, <1>2, <2>1, BurstItems
<1>3. \A i \in 1 .. Len(s) : t[i].kind # m.kind
  BY <1>1 DEF Indexes
<1> HIDE DEF t
<1>4. Indexes(t, m.kind) = (Len(s) + 1) .. (Len(s) + Copies)
  BY <1>1, <1>2, <1>3 DEF Indexes
<1>5. QED
  BY <1>1, <1>2, <1>4, SMTT(30) DEF Together, t

\* The wire damages items, but they keep their kinds.
LEMMA CorruptIndexes ==
    ASSUME NEW s \in Seq(Message), NEW x \in DOMAIN s, NEW kind
    PROVE  LET t == [s EXCEPT ![x].ok = FALSE]
           IN /\ t \in Seq(Message)
              /\ Len(t) = Len(s)
              /\ \A i \in DOMAIN s : t[i].kind = s[i].kind /\ t[i].data = s[i].data
              /\ Indexes(t, kind) = Indexes(s, kind)
<1> DEFINE t == [s EXCEPT ![x].ok = FALSE]
<1>1. /\ DOMAIN s = 1 .. Len(s) /\ Len(s) \in Nat
      /\ s \in [1 .. Len(s) -> Message]
  BY LenProperties
<1>2. t \in [1 .. Len(s) -> Message]
  BY <1>1 DEF Message
<1>3. t \in Seq(Message) /\ Len(t) = Len(s)
  BY <1>1, <1>2
<1>4. \A i \in DOMAIN s : t[i].kind = s[i].kind /\ t[i].data = s[i].data
  BY <1>1 DEF Message
<1>5. DOMAIN t = DOMAIN s
  BY <1>1, <1>2
<1>6. Indexes(t, kind) = Indexes(s, kind)
  BY <1>4, <1>5 DEF Indexes
<1>7. QED
  BY <1>3, <1>4, <1>6

-----------------------------------------------------------------------------
(* Initial states and types *)

LEMMA InitIInv == Init => IInv
<1> SUFFICES ASSUME Init PROVE IInv
  OBVIOUS
<1> USE DEF Init
<1>1. TypeOK
  <2>1. 0 \in Nat /\ <<>> \in Seq(Nat) /\ <<>> \in Seq(Message) /\ Torn \in Nat
    BY DEF Torn
  <2>2. QED
    BY <2>1 DEF TypeOK
<1>2. ASSUME NEW n \in Nodes
      PROVE  Direction(n)
  <2>1. Peer(n) \in Nodes
    BY PeerFacts
  <2>2. wire[n] = <<>> /\ wire[Peer(n)] = <<>> /\ Position(n) = 0
    BY <2>1 DEF Position
  <2>3. Requests(n) = {} /\ Preambles(n) = {}
    BY <2>2 DEF Requests, Preambles, Indexes
  <2>4. 0 % Slots = 0
    <3>1. Splits(0, Slots, 0, 0)
      BY SlotFacts DEF Splits
    <3>2. QED
      BY <3>1, SlotFacts, Remainder
  <2>5. Delivery(n)
    BY <2>2, <2>4 DEF Delivery
  <2>6. Window(n)
    BY <2>1, <2>2, SlotFacts DEF Window
  <2>7. Recovery(n)
    BY <2>1, <2>3 DEF Recovery, Asked, OnTheWay, Latched, Answered, Together, InFront
  <2>8. Reader(n, 0)
    BY <2>1, <2>2, <2>4 DEF Reader
  <2>9. Numbers(n, 0, <<0>>) /\ <<0>> \in Seq(Nat)
    BY <2>1, <2>2 DEF Numbers, Places
  <2>10. QED
    BY <2>5, <2>6, <2>7, <2>8, <2>9 DEF Direction, Transit
<1>3. QED
  BY <1>1, <1>2 DEF IInv

\* The messages are messages.
LEMMA MessageTypes ==
    /\ \A d \in Nat : Frame(d) \in Message /\ Frame(d).kind = "frame" /\ Frame(d).data = d
    /\ \A d \in Nat : /\ Request(d) \in Message
                      /\ Request(d).kind = "request" /\ Request(d).data = d
    /\ Preamble \in Message /\ Preamble.kind = "preamble"
  BY DEF Frame, Request, Preamble, Message

\* What arrives is the first item on the wire, and the wire loses it.
LEMMA ArrivalTypes ==
    ASSUME TypeOK, NEW n \in Nodes, Arrives(n), Taken(n)
    PROVE  /\ wire[Peer(n)] \in Seq(Message) /\ wire[Peer(n)] # <<>>
           /\ Arrival(n) \in Message
           /\ Arrival(n) = Head(wire[Peer(n)])
           /\ Arrival(n) = wire[Peer(n)][1]
           /\ wire'[Peer(n)] = Tail(wire[Peer(n)])
           /\ wire'[n] = wire[n]
           /\ wire' \in [Nodes -> Seq(Message)]
<1>1. Peer(n) \in Nodes /\ Peer(n) # n
  BY PeerFacts
<1>2. wire[Peer(n)] \in Seq(Message) /\ wire[Peer(n)] # <<>>
  BY <1>1 DEF TypeOK, Arrives
<1>3. Head(wire[Peer(n)]) \in Message /\ Tail(wire[Peer(n)]) \in Seq(Message)
  BY <1>2, HeadTailProperties
<1>4. Head(wire[Peer(n)]) = wire[Peer(n)][1]
  BY <1>2
<1>5. QED
  BY <1>1, <1>2, <1>3, <1>4 DEF TypeOK, Arrival, Taken

LEMMA FramerTypes ==
    ASSUME TypeOK, NEW n \in Nodes, Write(n) \/ Transmit(n)
    PROVE  TypeOK'
<1>1. written[n] % Slots \in Ids /\ written[n] + 1 \in Nat /\ written[n] \in Nat
  <2>1. written[n] \in Nat /\ written[n] + 1 \in Nat
    BY DEF TypeOK
  <2>2. QED
    BY <2>1, SlotFacts
<1>2. CASE BeginFrame(n)
  BY <1>1, <1>2 DEF BeginFrame, TypeOK, Torn, wrq, parser
<1>3. CASE EndFrame(n)
  BY <1>1, <1>3 DEF EndFrame, TypeOK, wrq, parser
<1>4. CASE SendFrame(n)
  <2>1. PICK id \in unsent[n] :
          /\ wire' = [wire EXCEPT ![n] = Append(@, Frame(store[n][id]))]
          /\ unsent' = [unsent EXCEPT ![n] = @ \ {id}]
          /\ rdq' = [rdq EXCEPT ![n] = Succ(id)]
    BY <1>4 DEF SendFrame
  <2>2. id \in Ids /\ store[n][id] \in Nat
    BY DEF TypeOK
  <2>3. Succ(id) \in Nat
    BY <2>2, NextSlot DEF Ids
  <2>4. Append(wire[n], Frame(store[n][id])) \in Seq(Message)
    BY <2>2, MessageTypes, AppendProperties DEF TypeOK
  <2>5. QED
    BY <1>4, <2>1, <2>3, <2>4 DEF SendFrame, TypeOK, parser
<1>5. CASE Patch(n)
  <2>1. Span(remoteReq[n], wrq(n)) \subseteq Ids
    BY DEF Span
  <2>2. QED
    BY <1>5, <2>1 DEF Patch, TypeOK, parser
<1>6. CASE SendPreamble(n)
  <2>1. wire[n] \o Burst(Preamble) \in Seq(Message)
    BY MessageTypes, BurstItems, ConcatProperties DEF TypeOK
  <2>2. QED
    BY <1>6, <2>1 DEF SendPreamble, TypeOK, parser
<1>7. CASE SendRequest(n)
  <2>1. wire[n] \o Burst(Request(localReq[n])) \in Seq(Message)
    BY <1>7, MessageTypes, BurstItems, ConcatProperties DEF TypeOK, SendRequest
  <2>2. QED
    BY <1>7, <2>1 DEF SendRequest, TypeOK, parser
<1>8. QED
  BY <1>2, <1>3, <1>4, <1>5, <1>6, <1>7 DEF Write, Transmit

LEMMA ParserTypes ==
    ASSUME TypeOK, NEW n \in Nodes, Receive(n) \/ Corrupt(n)
    PROVE  TypeOK'
<1>1. CASE Receive(n)
  <2>1. Arrives(n) /\ Taken(n)
    BY <1>1 DEF Receive, Accept, Reject, Drop, TakeRequest, TakePreamble
  <2>2. wire' \in [Nodes -> Seq(Message)] /\ Arrival(n).data \in Nat
    BY <2>1, ArrivalTypes DEF Message
  <2>3. CASE Accept(n)
    <3>1. Succ(expected[n]) \in Nat
      <4>1. expected[n] \in Nat
        BY DEF TypeOK
      <4>2. QED
        BY <4>1, NextSlot
    <3>2. Append(delivered[n], Arrival(n).data) \in Seq(Nat)
      BY <2>2, AppendProperties DEF TypeOK
    <3>3. QED
      BY <2>2, <2>3, <3>1, <3>2 DEF Accept, TypeOK, framer
  <2>4. CASE Reject(n)
    BY <2>2, <2>4 DEF Reject, TypeOK
  <2>5. CASE Drop(n)
    BY <2>2, <2>5 DEF Drop, TypeOK, framer, parser
  <2>6. CASE TakeRequest(n)
    BY <2>2, <2>6 DEF TakeRequest, TypeOK, parser
  <2>7. CASE TakePreamble(n)
    BY <2>2, <2>7 DEF TakePreamble, TypeOK, framer
  <2>8. QED
    BY <1>1, <2>3, <2>4, <2>5, <2>6, <2>7 DEF Receive
<1>2. CASE Corrupt(n)
  <2>1. PICK x \in DOMAIN wire[n] : wire' = [wire EXCEPT ![n][x].ok = FALSE]
    BY <1>2 DEF Corrupt
  <2>2. [wire[n] EXCEPT ![x].ok = FALSE] \in Seq(Message)
    BY CorruptIndexes DEF TypeOK
  <2>3. QED
    BY <1>2, <2>1, <2>2 DEF Corrupt, TypeOK, framer, parser
<1>3. QED
  BY <1>1, <1>2

-----------------------------------------------------------------------------
(* The numbers of the items on the wire *)

\* The first item is taken: the numbers of the others stay.
LEMMA TakenNumbers ==
    ASSUME NEW n \in Nodes, NEW next, NEW num, Numbers(n, next, num),
           wire[Peer(n)] \in Seq(Message), wire[Peer(n)] # <<>>,
           wire'[Peer(n)] = Tail(wire[Peer(n)]),
           serving'[Peer(n)] = serving[Peer(n)],
           written'[Peer(n)] = written[Peer(n)],
           Position(n)' = Position(n) \/ Preambles(n) = {},
           stalled'[n] \/ num[2] = Position(n)'
    PROVE  \E num2 \in Seq(Nat) : Numbers(n, next, num2)'
<1> DEFINE s == wire[Peer(n)]
           t == Tail(s)
<1>1. /\ Len(s) \in Nat \ {0} /\ DOMAIN s = 1 .. Len(s)
      /\ t \in Seq(Message) /\ Len(t) = Len(s) - 1 /\ DOMAIN t = 1 .. Len(s) - 1
      /\ \A i \in 1 .. Len(s) - 1 : t[i] = s[i + 1]
  BY HeadTailProperties, LenProperties, EmptySeq
<1>2. wire'[Peer(n)] = t
  OBVIOUS
<1>3. PICK num2 : num2 = [i \in 1 .. Len(s) |-> num[i + 1]]
  OBVIOUS
<1> HIDE DEF t
<1>4. /\ num \in [1 .. Len(s) + 1 -> Nat]
      /\ ~serving[Peer(n)] => num[Len(s) + 1] = next
      /\ \A i \in 1 .. Len(s) : Step(n, num, i)
      /\ \A i \in 1 .. Len(s) + 1 : num[i] <= written[Peer(n)]
      /\ \A i \in 1 .. Len(s) + 1 : \A j \in i .. Len(s) + 1 :
            num[i] <= num[j] \/ \E k \in i .. j - 1 : k \in Preambles(n)
  BY <1>1 DEF Numbers, Places
<1>5. \A i \in 1 .. Len(s) : i + 1 \in 1 .. Len(s) + 1 /\ num2[i] = num[i + 1]
  BY <1>1, <1>3
<1>6. num2 \in [1 .. Len(s) -> Nat]
  BY <1>1, <1>3, <1>4
<1>7. ~serving[Peer(n)] => num2[Len(s)] = next
  BY <1>1, <1>4, <1>5
<1>8. ~stalled'[n] => num2[1] = Position(n)'
  BY <1>1, <1>5
<1>9. \A i \in 1 .. Len(s) - 1 : Step(n, num2, i)'
  <2>1. SUFFICES ASSUME NEW i \in 1 .. Len(s) - 1
                 PROVE  Step(n, num2, i)'
    OBVIOUS
  <2>2. /\ i + 1 \in 1 .. Len(s) /\ t[i] = s[i + 1]
        /\ num2[i] = num[i + 1] /\ num2[i + 1] = num[(i + 1) + 1]
    BY <1>1, <1>5
  <2>3. Step(n, num, i + 1)
    BY <1>4, <2>2
  <2>4. s[i + 1].kind = "preamble" => Position(n)' = Position(n)
    BY <1>1, <2>2 DEF Preambles, Indexes
  <2>5. QED
    BY <1>2, <2>2, <2>3, <2>4 DEF Step
<1>10. \A i \in 1 .. Len(s) : num2[i] <= written[Peer(n)]
  BY <1>4, <1>5
<1>11. ASSUME NEW i \in 1 .. Len(s), NEW j \in i .. Len(s)
       PROVE  num2[i] <= num2[j] \/ \E k \in i .. j - 1 : k \in Preambles(n)'
  <2>1. /\ i + 1 \in 1 .. Len(s) + 1 /\ j + 1 \in (i + 1) .. Len(s) + 1
        /\ num2[i] = num[i + 1] /\ num2[j] = num[j + 1]
    BY <1>1, <1>5
  <2>2. num[i + 1] <= num[j + 1] \/ \E k \in (i + 1) .. (j + 1) - 1 : k \in Preambles(n)
    BY <1>4, <2>1
  <2>3. ASSUME NEW k \in (i + 1) .. (j + 1) - 1, k \in Preambles(n)
        PROVE  k - 1 \in i .. j - 1 /\ k - 1 \in Preambles(n)'
    <3>1. k - 1 \in i .. j - 1 /\ k - 1 \in 1 .. Len(s) - 1 /\ (k - 1) + 1 = k
      BY <1>1, <2>3
    <3>2. t[k - 1] = s[k]
      BY <1>1, <3>1
    <3>3. QED
      BY <1>1, <1>2, <2>3, <3>1, <3>2 DEF Preambles, Indexes
  <2>4. QED
    BY <2>1, <2>2, <2>3
<1>12. Len(t) + 1 = Len(s)
  BY <1>1
<1>13. Numbers(n, next, num2)'
  BY <1>1, <1>2, <1>6, <1>7, <1>8, <1>9, <1>10, <1>11, <1>12 DEF Numbers, Places
<1>14. num2 \in Seq(Nat)
  BY <1>1, <1>6
<1>15. QED
  BY <1>13, <1>14

\* A burst is sent: requests stay where they are, preambles go back.
LEMMA BurstNumbers ==
    ASSUME NEW n \in Nodes, NEW next, NEW num, Numbers(n, next, num),
           NEW m \in Message, NEW v \in Nat,
           wire[Peer(n)] \in Seq(Message),
           written[Peer(n)] \in Nat,
           wire'[Peer(n)] = wire[Peer(n)] \o Burst(m),
           \/ m.kind = "request" /\ v = num[Len(wire[Peer(n)]) + 1]
           \/ m.kind = "preamble" /\ v = Position(n),
           v <= written[Peer(n)],
           written'[Peer(n)] = written[Peer(n)],
           Position(n)' = Position(n),
           stalled'[n] = stalled[n]
    PROVE  \E num2 \in Seq(Nat) : Numbers(n, v, num2)'
<1> DEFINE s == wire[Peer(n)]
           t == s \o Burst(m)
           L == Len(s)
<1>1. /\ L \in Nat /\ DOMAIN s = 1 .. L /\ Copies \in Nat \ {0}
      /\ Len(t) = L + Copies /\ DOMAIN t = 1 .. L + Copies
      /\ \A i \in 1 .. L : t[i] = s[i]
      /\ \A i \in 1 .. L + Copies : i > L => t[i] = m
  <2>1. /\ Burst(m) \in Seq(Message) /\ Len(Burst(m)) = Copies
        /\ \A i \in 1 .. Copies : Burst(m)[i] = m
    BY BurstItems
  <2>2. /\ t \in Seq(Message) /\ Len(t) = L + Copies
        /\ \A i \in 1 .. L + Copies : t[i] = IF i <= L THEN s[i] ELSE Burst(m)[i - L]
    <3>1. s \in Seq(Message) /\ t = s \o Burst(m)
      OBVIOUS
    <3> DEFINE b == Burst(m)
    <3> HIDE DEF b, s, t, L
    <3>2. b \in Seq(Message) /\ t = s \o b
      BY <2>1, <3>1 DEF b
    <3>3. /\ t \in Seq(Message) /\ Len(t) = Len(s) + Len(b)
          /\ \A i \in 1 .. Len(s) + Len(b) : t[i] = IF i <= Len(s) THEN s[i] ELSE b[i - Len(s)]
      BY <3>1, <3>2, ConcatProperties
    <3>4. QED
      BY <2>1, <3>3 DEF L, b
  <2>3. L \in Nat /\ DOMAIN s = 1 .. L /\ Copies \in Nat \ {0}
    BY LenProperties, BurstItems
  <2> HIDE DEF t, L
  <2>4. \A i \in 1 .. L + Copies : i > L => i - L \in 1 .. Copies
    BY <2>3
  <2>5. \A i \in 1 .. L : i \in 1 .. L + Copies /\ i <= L
    BY <2>3
  <2>6. DOMAIN t = 1 .. L + Copies
    BY <2>2, LenProperties
  <2>7. \A i \in 1 .. L : t[i] = s[i]
    BY <2>2, <2>5
  <2>8. \A i \in 1 .. L + Copies : i > L => t[i] = m
    BY <2>1, <2>2, <2>3, <2>4
  <2>9. QED
    BY <2>2, <2>3, <2>6, <2>7, <2>8
<1>2. wire'[Peer(n)] = t
  OBVIOUS
<1>3. PICK num2 : num2 = [i \in 1 .. L + Copies + 1 |-> IF i <= L + 1 THEN num[i] ELSE v]
  OBVIOUS
<1> HIDE DEF t
<1>4. /\ num \in [1 .. L + 1 -> Nat]
      /\ ~stalled[n] => num[1] = Position(n)
      /\ \A i \in 1 .. L : Step(n, num, i)
      /\ \A i \in 1 .. L + 1 : num[i] <= written[Peer(n)]
      /\ \A i \in 1 .. L + 1 : \A j \in i .. L + 1 :
            num[i] <= num[j] \/ \E k \in i .. j - 1 : k \in Preambles(n)
  BY <1>1 DEF Numbers, Places
<1>0. m.kind = "request" => v = num[L + 1]
  OBVIOUS
<1> HIDE DEF L
<1>5. /\ \A i \in 1 .. L + 1 : num2[i] = num[i]
      /\ \A i \in 1 .. L + Copies + 1 : i > L + 1 => num2[i] = v
  BY <1>1, <1>3
<1>6. num2 \in [1 .. L + Copies + 1 -> Nat]
  BY <1>1, <1>3, <1>4
<1>7. num2[L + Copies + 1] = v
  BY <1>1, <1>5
<1>8. ~stalled[n] => num2[1] = Position(n)
  BY <1>1, <1>4, <1>5
<1>9. ASSUME NEW i \in 1 .. L + Copies
      PROVE  Step(n, num2, i)'
  <2>1. CASE i <= L
    <3>1. i \in 1 .. L /\ num2[i] = num[i] /\ num2[i + 1] = num[i + 1] /\ t[i] = s[i]
      BY <1>1, <1>5, <2>1
    <3>2. Step(n, num, i)
      BY <1>4, <3>1
    <3>3. QED
      BY <1>2, <3>1, <3>2 DEF Step
  <2>2. CASE i > L
    <3>1. t[i] = m /\ num2[i + 1] = v
      BY <1>1, <1>5, <2>2
    <3>2. m.kind = "request" => num2[i] = v
      <4>1. CASE i = L + 1
        BY <1>0, <1>1, <1>5, <4>1
      <4>2. CASE i > L + 1
        BY <1>1, <1>5, <4>2
      <4>3. QED
        BY <1>1, <2>2, <4>1, <4>2
    <3>3. QED
      BY <1>2, <3>1, <3>2 DEF Step
  <2>3. QED
    BY <1>1, <2>1, <2>2
<1>10. \A i \in 1 .. L + Copies + 1 : num2[i] <= written[Peer(n)]
  BY <1>1, <1>4, <1>5
<1>11. ASSUME NEW i \in 1 .. L + Copies + 1, NEW j \in i .. L + Copies + 1
       PROVE  num2[i] <= num2[j] \/ \E k \in i .. j - 1 : k \in Preambles(n)'
  <2>1. \A k \in 1 .. L : k \in Preambles(n) => k \in Preambles(n)'
    BY <1>1, <1>2 DEF Preambles, Indexes
  <2>2. CASE j <= L + 1
    <3>1. i \in 1 .. L + 1 /\ j \in i .. L + 1 /\ num2[i] = num[i] /\ num2[j] = num[j]
      BY <1>1, <1>5, <2>2
    <3>2. num[i] <= num[j] \/ \E k \in i .. j - 1 : k \in Preambles(n)
      BY <1>4, <3>1
    <3>3. \A k \in i .. j - 1 : k \in 1 .. L
      BY <1>1, <2>2
    <3>4. QED
      BY <2>1, <3>1, <3>2, <3>3
  <2>3. CASE i > L + 1
    BY <1>1, <1>5, <2>3, SMTT(30)
  <2>4. CASE i <= L + 1 /\ j > L + 1
    <3>1. i \in 1 .. L + 1 /\ L + 1 \in i .. L + 1 /\ num2[i] = num[i] /\ num2[j] = v
      BY <1>1, <1>5, <2>4
    <3>2. CASE m.kind = "request"
      <4>1. num[i] <= num[L + 1] \/ \E k \in i .. (L + 1) - 1 : k \in Preambles(n)
        BY <1>4, <3>1
      <4>2. \A k \in i .. (L + 1) - 1 : k \in 1 .. L /\ k \in i .. j - 1
        BY <1>1, <2>4
      <4>3. v = num[L + 1]
        BY <1>0, <3>2
      <4>4. QED
        BY <2>1, <3>1, <4>1, <4>2, <4>3
    <3>3. CASE m.kind = "preamble"
      <4>1. L + 1 \in i .. j - 1 /\ L + 1 \in 1 .. L + Copies
        BY <1>1, <2>4
      <4>2. L + 1 \in Preambles(n)'
        BY <1>1, <1>2, <3>3, <4>1 DEF Preambles, Indexes
      <4>3. QED
        BY <4>1, <4>2
    <3>4. QED
      BY <3>2, <3>3
  <2>5. QED
    BY <1>1, <2>2, <2>3, <2>4
<1>12. Numbers(n, v, num2)'
  BY <1>1, <1>2, <1>6, <1>7, <1>8, <1>9, <1>10, <1>11 DEF Numbers, Places
<1>13. num2 \in Seq(Nat)
  <2>1. L + Copies + 1 \in Nat
    BY <1>1
  <2>2. QED
    BY <1>6, <2>1
<1>14. QED
  BY <1>12, <1>13

\* The next frame is sent.
LEMMA FrameNumbers ==
    ASSUME NEW n \in Nodes, NEW next \in Nat, NEW num, Numbers(n, next, num),
           NEW m \in Message, m.kind = "frame", m.data = next + 1,
           wire[Peer(n)] \in Seq(Message),
           wire'[Peer(n)] = Append(wire[Peer(n)], m),
           ~serving[Peer(n)],
           next + 1 <= written[Peer(n)],
           written'[Peer(n)] = written[Peer(n)],
           Position(n)' = Position(n),
           stalled'[n] = stalled[n]
    PROVE  \E num2 \in Seq(Nat) : Numbers(n, next + 1, num2)'
<1> DEFINE s == wire[Peer(n)]
           t == Append(s, m)
           L == Len(s)
<1>1. /\ L \in Nat /\ DOMAIN s = 1 .. L
      /\ Len(t) = L + 1 /\ DOMAIN t = 1 .. L + 1
      /\ \A i \in 1 .. L : t[i] = s[i]
      /\ t[L + 1] = m
  BY AppendProperties, LenProperties
<1>2. wire'[Peer(n)] = t
  OBVIOUS
<1>3. PICK num2 : num2 = [i \in 1 .. L + 2 |-> IF i <= L + 1 THEN num[i] ELSE next + 1]
  OBVIOUS
<1> HIDE DEF t
<1>4. /\ num \in [1 .. L + 1 -> Nat]
      /\ num[L + 1] = next
      /\ ~stalled[n] => num[1] = Position(n)
      /\ \A i \in 1 .. L : Step(n, num, i)
      /\ \A i \in 1 .. L + 1 : num[i] <= written[Peer(n)]
      /\ \A i \in 1 .. L + 1 : \A j \in i .. L + 1 :
            num[i] <= num[j] \/ \E k \in i .. j - 1 : k \in Preambles(n)
  BY <1>1 DEF Numbers, Places
<1> HIDE DEF L
<1>5. /\ \A i \in 1 .. L + 1 : num2[i] = num[i]
      /\ num2[L + 2] = next + 1
  BY <1>1, <1>3
<1>6. num2 \in [1 .. L + 2 -> Nat]
  BY <1>1, <1>3, <1>4
<1>7. ~stalled[n] => num2[1] = Position(n)
  BY <1>1, <1>4, <1>5
<1>8. ASSUME NEW i \in 1 .. L + 1
      PROVE  Step(n, num2, i)'
  <2>1. CASE i <= L
    <3>1. i \in 1 .. L /\ num2[i] = num[i] /\ num2[i + 1] = num[i + 1] /\ t[i] = s[i]
      BY <1>1, <1>5, <2>1
    <3>2. Step(n, num, i)
      BY <1>4, <3>1
    <3>3. QED
      BY <1>2, <3>1, <3>2 DEF Step
  <2>2. CASE i = L + 1
    <3>1. t[i] = m /\ num2[i] = next /\ num2[i + 1] = next + 1
      BY <1>1, <1>4, <1>5, <2>2
    <3>2. QED
      BY <1>2, <3>1 DEF Step
  <2>3. QED
    BY <1>1, <2>1, <2>2
<1>9. \A i \in 1 .. L + 2 : num2[i] <= written[Peer(n)]
  BY <1>1, <1>4, <1>5
<1>10. ASSUME NEW i \in 1 .. L + 2, NEW j \in i .. L + 2
       PROVE  num2[i] <= num2[j] \/ \E k \in i .. j - 1 : k \in Preambles(n)'
  <2>1. \A k \in 1 .. L : k \in Preambles(n) => k \in Preambles(n)'
    BY <1>1, <1>2 DEF Preambles, Indexes
  <2>2. CASE j <= L + 1
    <3>1. i \in 1 .. L + 1 /\ j \in i .. L + 1 /\ num2[i] = num[i] /\ num2[j] = num[j]
      BY <1>1, <1>5, <2>2
    <3>2. num[i] <= num[j] \/ \E k \in i .. j - 1 : k \in Preambles(n)
      BY <1>4, <3>1
    <3>3. \A k \in i .. j - 1 : k \in 1 .. L
      BY <1>1, <2>2
    <3>4. QED
      BY <2>1, <3>1, <3>2, <3>3
  <2>3. CASE i = L + 2
    BY <1>1, <1>5, <2>3
  <2>4. CASE i <= L + 1 /\ j = L + 2
    <3>1. /\ i \in 1 .. L + 1 /\ L + 1 \in i .. L + 1
          /\ num2[i] = num[i] /\ num2[j] = num[L + 1] + 1 /\ num[i] \in Nat /\ num[L + 1] \in Nat
      BY <1>1, <1>4, <1>5, <2>4
    <3>2. num[i] <= num[L + 1] \/ \E k \in i .. (L + 1) - 1 : k \in Preambles(n)
      BY <1>4, <3>1
    <3>3. \A k \in i .. (L + 1) - 1 : k \in 1 .. L /\ k \in i .. j - 1
      BY <1>1, <2>4
    <3>4. QED
      BY <2>1, <3>1, <3>2, <3>3
  <2>5. QED
    BY <1>1, <2>2, <2>3, <2>4, SMTT(30)
<1>11. L + 1 + 1 = L + 2
  BY <1>1
<1>12. Numbers(n, next + 1, num2)'
  BY <1>1, <1>2, <1>5, <1>6, <1>7, <1>8, <1>9, <1>10, <1>11 DEF Numbers, Places
<1>13. num2 \in Seq(Nat)
  BY <1>1, <1>6
<1>14. QED
  BY <1>12, <1>13

\* Nothing of what the numbers depend on changes, but more frames may be written
\* and the framer may begin to serve a request.
LEMMA SameNumbers ==
    ASSUME NEW n \in Nodes, NEW next, NEW next2, NEW num, Numbers(n, next, num),
           written[Peer(n)] \in Nat, written'[Peer(n)] \in Nat,
           DOMAIN wire'[Peer(n)] = DOMAIN wire[Peer(n)],
           Len(wire'[Peer(n)]) = Len(wire[Peer(n)]),
           Len(wire[Peer(n)]) \in Nat,
           \A i \in DOMAIN wire[Peer(n)] :
              /\ wire'[Peer(n)][i].kind = wire[Peer(n)][i].kind
              /\ wire'[Peer(n)][i].data = wire[Peer(n)][i].data,
           serving'[Peer(n)] \/ (~serving[Peer(n)] /\ next2 = next),
           written[Peer(n)] <= written'[Peer(n)],
           Position(n)' = Position(n),
           stalled[n] => stalled'[n]
    PROVE  Numbers(n, next2, num)'
<1>1. Preambles(n)' = Preambles(n)
  BY DEF Preambles, Indexes
<1>2. \A i \in DOMAIN wire[Peer(n)] : Step(n, num, i)'
  BY DEF Step, Numbers
<1>3. \A i \in Places(n) : num[i] <= written'[Peer(n)]
  <2>1. \A i \in Places(n) : num[i] \in Nat /\ num[i] <= written[Peer(n)]
    BY DEF Numbers
  <2>2. QED
    BY <2>1
<1>4. Places(n)' = Places(n)
  BY DEF Places
<1>5. num \in [Places(n)' -> Nat]
  BY <1>4 DEF Numbers
<1>6. ~serving'[Peer(n)] => num[Len(wire'[Peer(n)]) + 1] = next2
  BY DEF Numbers
<1>7. ~stalled'[n] => num[1] = Position(n)'
  BY DEF Numbers
<1>8. \A i \in Places(n)' : \A j \in i .. Len(wire'[Peer(n)]) + 1 :
         num[i] <= num[j] \/ \E k \in i .. j - 1 : k \in Preambles(n)'
  BY <1>1, <1>4 DEF Numbers
<1>9. QED
  BY <1>2, <1>3, <1>4, <1>5, <1>6, <1>7, <1>8 DEF Numbers

-----------------------------------------------------------------------------
(* What leaves a direction alone *)

\* Requests of n move towards its peer, which goes on as before.
LEMMA RequestsMove ==
    ASSUME NEW n \in Nodes, Direction(n),
           written'[Peer(n)] = written[Peer(n)], writing'[Peer(n)] = writing[Peer(n)],
           store'[Peer(n)] = store[Peer(n)], unsent'[Peer(n)] = unsent[Peer(n)],
           rdq'[Peer(n)] = rdq[Peer(n)], serving'[Peer(n)] = serving[Peer(n)],
           wire'[Peer(n)] = wire[Peer(n)],
           localReq'[n] = localReq[n], expected'[n] = expected[n],
           stalled'[n] = stalled[n], delivered'[n] = delivered[n],
           Requests(n) = {} => Requests(n)' = {},
           OnTheWay(n)', Latched(n)'
    PROVE  Direction(n)'
<1>1. Position(n)' = Position(n) /\ Preambles(n)' = Preambles(n)
  BY DEF Position, Preambles
<1>2. Delivery(n)'
  BY <1>1 DEF Direction, Delivery
<1>3. Window(n)'
  BY <1>1 DEF Direction, Window
<1>4. Answered(n)'
  BY <1>1 DEF Direction, Recovery, Answered
<1>5. Asked(n)'
  BY <1>1 DEF Direction, Recovery, Asked, Latched, Asking
<1>6. Transit(n)'
  <2>1. PICK next \in Nat, num \in Seq(Nat) : Reader(n, next) /\ Numbers(n, next, num)
    BY DEF Direction, Transit
  <2>2. Reader(n, next)'
    BY <1>1, <2>1 DEF Reader
  <2>3. Numbers(n, next, num)'
    BY <1>1, <2>1 DEF Numbers, Places, Step
  <2>4. QED
    BY <2>2, <2>3 DEF Transit
<1>7. QED
  BY <1>2, <1>3, <1>4, <1>5, <1>6 DEF Direction, Recovery

-----------------------------------------------------------------------------
(* The framer *)

\* Any two nodes: the same, or the ends of one direction.
LEMMA Ends ==
    ASSUME TypeOK, NEW n \in Nodes, NEW k \in Nodes
    PROVE  /\ n = k \/ k = Peer(n)
           /\ Peer(n) \in Nodes /\ Peer(n) # n /\ Peer(Peer(n)) = n
           /\ Position(n) \in Nat
           /\ written[n] \in Nat
           /\ written[Peer(n)] \in Nat
           /\ wire[n] \in Seq(Message)
           /\ wire[Peer(n)] \in Seq(Message)
           /\ Len(wire[Peer(n)]) \in Nat
           /\ DOMAIN wire[Peer(n)] = 1 .. Len(wire[Peer(n)])
<1>1. Peer(n) \in Nodes /\ Peer(n) # n /\ Peer(Peer(n)) = n /\ (k = n \/ k = Peer(n))
  BY PeerFacts
<1>2. /\ delivered[n] \in Seq(Nat) /\ written[n] \in Nat /\ written[Peer(n)] \in Nat
      /\ wire[n] \in Seq(Message) /\ wire[Peer(n)] \in Seq(Message)
  BY <1>1 DEF TypeOK
<1>3. QED
  BY <1>1, <1>2, LenProperties DEF Position

\* The write slot holds no frame that n may still ask for.
LEMMA BeginFrameKeeps ==
    ASSUME Timing, IInv, NEW k \in Nodes, BeginFrame(k), NEW n \in Nodes
    PROVE  Direction(n)'
<1>1. TypeOK /\ Direction(n)
  BY DEF IInv
<1>2. /\ writing' = [writing EXCEPT ![k] = TRUE]
      /\ store' = [store EXCEPT ![k][written[k] % Slots] = Torn]
      /\ UNCHANGED <<written, unsent, rdq, serving, remoteReq, localReq,
                     expected, stalled, delivered, wire>>
  BY DEF BeginFrame, parser, wrq
<1>3. CASE n = k
  <2>1. OnTheWay(n)' /\ Latched(n)' /\ Requests(n)' = Requests(n)
    BY <1>1, <1>2 DEF Direction, Recovery, OnTheWay, Latched, Asking, Requests, Preambles, Position
  <2>2. writing'[Peer(n)] = writing[Peer(n)] /\ store'[Peer(n)] = store[Peer(n)]
    BY <1>1, <1>2, <1>3, Ends DEF TypeOK
  <2>3. QED
    BY <1>1, <1>2, <2>1, <2>2, RequestsMove
<1>4. CASE k = Peer(n)
  <2>1. Position(n)' = Position(n)
    BY <1>2 DEF Position
  <2>2. Delivery(n)'
    BY <1>1, <1>2, <2>1 DEF Direction, Delivery
  <2>3. written[k] < Position(n) + Slots
    <3>1. written[k] - Position(n) < RoundTrip
      BY <1>1, <1>4, Ends DEF BeginFrame, WithinRoundTrip, Position
    <3>2. Position(n) \in Nat /\ written[k] \in Nat
      BY <1>1, <1>4, Ends
    <3>3. QED
      BY <3>1, <3>2, SlotCount DEF Timing
  <2>4. Window(n)'
    <3>1. ASSUME NEW i \in Position(n) .. written[k] - 1
          PROVE  store'[k][i % Slots] = i + 1
      <4>1. i \in Nat /\ i < written[k] /\ written[k] < i + Slots /\ written[k] \in Nat
        <5>1. Position(n) \in Nat /\ written[k] \in Nat
          BY <1>1, <1>4, Ends
        <5>2. QED
          BY <2>3, <5>1, SlotCount
      <4>2. i % Slots # written[k] % Slots
        BY <4>1, OwnSlot
      <4>3. store'[k][i % Slots] = store[k][i % Slots]
        BY <1>1, <1>2, <4>1, <4>2, SlotFacts DEF TypeOK
      <4>4. QED
        BY <1>1, <1>4, <4>3 DEF Direction, Window
    <3>2. QED
      BY <1>1, <1>2, <1>4, <2>1, <2>3, <3>1 DEF Direction, Window
  <2>5. Recovery(n)'
    BY <1>1, <1>2, <2>1 DEF Direction, Recovery, Asked, OnTheWay, Latched, Answered, Asking,
          Requests, Preambles
  <2>6. Transit(n)'
    <3>1. PICK next \in Nat, num \in Seq(Nat) : Reader(n, next) /\ Numbers(n, next, num)
      BY <1>1 DEF Direction, Transit
    <3>2. Reader(n, next)' /\ Numbers(n, next, num)'
      BY <1>2, <2>1, <3>1 DEF Reader, Numbers, Step, Places, Preambles
    <3>3. QED
      BY <3>2 DEF Transit
  <2>7. QED
    BY <2>2, <2>4, <2>5, <2>6 DEF Direction
<1>5. QED
  BY <1>1, <1>3, <1>4, Ends

\* One more frame is in its slot, and is to be sent.
LEMMA EndFrameKeeps ==
    ASSUME IInv, NEW k \in Nodes, EndFrame(k), NEW n \in Nodes
    PROVE  Direction(n)'
<1>1. TypeOK /\ Direction(n)
  BY DEF IInv
<1>2. /\ writing[k]
      /\ store' = [store EXCEPT ![k][written[k] % Slots] = written[k] + 1]
      /\ unsent' = [unsent EXCEPT ![k] = @ \cup {written[k] % Slots}]
      /\ written' = [written EXCEPT ![k] = @ + 1]
      /\ writing' = [writing EXCEPT ![k] = FALSE]
      /\ UNCHANGED <<rdq, serving, remoteReq, localReq, expected, stalled, delivered, wire>>
  BY DEF EndFrame, parser, wrq
<1>3. CASE n = k
  <2>1. /\ writing'[Peer(n)] = writing[Peer(n)] /\ store'[Peer(n)] = store[Peer(n)]
        /\ unsent'[Peer(n)] = unsent[Peer(n)] /\ written'[Peer(n)] = written[Peer(n)]
    BY <1>1, <1>2, <1>3, Ends DEF TypeOK
  <2>2. OnTheWay(n)' /\ Latched(n)' /\ Requests(n)' = Requests(n)
    BY <1>1, <1>2, <2>1 DEF Direction, Recovery, OnTheWay, Latched, Asking, Requests, Preambles, Position
  <2>3. QED
    BY <1>1, <1>2, <2>1, <2>2, RequestsMove
<1>4. CASE k = Peer(n)
  <2> DEFINE w == written[k]
  <2>1. Position(n)' = Position(n) /\ written'[k] = w + 1
        /\ w \in Nat /\ Position(n) \in Nat /\ Slots \in Nat
        /\ Position(n) <= w /\ w < Position(n) + Slots
    BY <1>1, <1>2, <1>4, Ends, SlotFacts DEF TypeOK, Position, Direction, Window
  <2>2. Delivery(n)'
    BY <1>1, <1>2, <2>1 DEF Direction, Delivery
  <2>3. Window(n)'
    <3>1. ASSUME NEW i \in Position(n) .. w
          PROVE  store'[k][i % Slots] = i + 1
      <4>0. i \in Nat
        BY <2>1
      <4>1. i \in Nat /\ i % Slots \in Ids /\ w % Slots \in Ids
        BY <2>1, <4>0, SlotFacts
      <4>2. CASE i = w
        BY <1>1, <1>2, <4>1, <4>2 DEF TypeOK
      <4>3. CASE i < w
        <5>1. w < i + Slots /\ i \in Position(n) .. w - 1
          BY <2>1, <4>3
        <5>2. i % Slots # w % Slots
          BY <2>1, <4>1, <4>3, <5>1, OwnSlot
        <5>3. store'[k][i % Slots] = store[k][i % Slots]
          BY <1>1, <1>2, <4>1, <5>2 DEF TypeOK
        <5>4. QED
          BY <1>1, <1>4, <5>1, <5>3 DEF Direction, Window
      <4>4. QED
        BY <2>1, <4>2, <4>3
    <3>2. (w + 1) - 1 = w
      BY <2>1
    <3>3. ~writing'[k]
      BY <1>1, <1>2 DEF TypeOK
    <3>4. QED
      BY <1>4, <2>1, <3>1, <3>2, <3>3 DEF Window
  <2>4. Recovery(n)'
    BY <1>1, <1>2, <1>4, <2>1 DEF Direction, Recovery, Asked, OnTheWay, Latched, Answered, Asking,
          Requests, Preambles
  <2>5. Transit(n)'
    <3>1. PICK next \in Nat, num \in Seq(Nat) : Reader(n, next) /\ Numbers(n, next, num)
      BY <1>1 DEF Direction, Transit
    <3>2. next \in Position(n) .. w
      BY <1>4, <3>1 DEF Reader
    <3>3. next .. (w + 1) - 1 = (next .. w - 1) \cup {w}
      BY <2>1, <3>2
    <3>4. unsent'[k] = {i % Slots : i \in next .. (w + 1) - 1}
      <4>1. unsent'[k] = {i % Slots : i \in next .. w - 1} \cup {w % Slots}
        BY <1>1, <1>2, <1>4, <3>1 DEF Reader, TypeOK
      <4>2. QED
        BY <3>3, <4>1
    <3>5. Reader(n, next)'
      BY <1>2, <1>4, <2>1, <3>1, <3>2, <3>4 DEF Reader
    <3>6. Numbers(n, next, num)'
      <4>1. written[Peer(n)] <= written'[Peer(n)] /\ written'[Peer(n)] \in Nat
        BY <1>4, <2>1
      <4>2. QED
        BY <1>1, <1>2, <2>1, <3>1, <4>1, Ends, SameNumbers
    <3>7. QED
      BY <3>5, <3>6 DEF Transit
  <2>6. QED
    BY <2>2, <2>3, <2>4, <2>5 DEF Direction
<1>5. QED
  BY <1>1, <1>3, <1>4, Ends

\* The frame that is sent is the next one.
LEMMA SendFrameKeeps ==
    ASSUME IInv, NEW k \in Nodes, SendFrame(k), NEW n \in Nodes
    PROVE  Direction(n)'
<1>1. TypeOK /\ Direction(n)
  BY DEF IInv
<1>2. PICK id \in unsent[k] :
        /\ \A other \in unsent[k] : Distance(rdq[k], id) <= Distance(rdq[k], other)
        /\ wire' = [wire EXCEPT ![k] = Append(@, Frame(store[k][id]))]
        /\ unsent' = [unsent EXCEPT ![k] = @ \ {id}]
        /\ rdq' = [rdq EXCEPT ![k] = Succ(id)]
  BY DEF SendFrame
<1>3. /\ ~serving[k]
      /\ UNCHANGED <<written, writing, store, serving, remoteReq, localReq,
                     expected, stalled, delivered>>
  BY DEF SendFrame, parser
<1> DEFINE m == Frame(store[k][id])
<1>4. m \in Message /\ m.kind = "frame" /\ m.data = store[k][id]
  <2>1. store[k][id] \in Nat
    BY <1>1 DEF TypeOK
  <2>2. QED
    BY <2>1, MessageTypes
<1>5. wire'[k] = Append(wire[k], m) /\ \A j \in Nodes : j # k => wire'[j] = wire[j]
  BY <1>1, <1>2 DEF TypeOK
<1> HIDE DEF m
<1>6. CASE n = k
  <2>1. Requests(n)' = Requests(n)
    <3>1. m.kind # "request" /\ wire[n] \in Seq(Message) /\ wire'[n] = Append(wire[n], m)
      BY <1>1, <1>4, <1>5, <1>6, Ends
    <3>2. QED
      BY <1>4, <3>1, AppendIndexes DEF Requests
  <2>2. \A i \in Requests(n) : wire'[n][i] = wire[n][i]
    <3>1. \A i \in 1 .. Len(wire[n]) : wire'[n][i] = wire[n][i]
      BY <1>1, <1>4, <1>5, <1>6, Ends, AppendProperties
    <3>2. Requests(n) \subseteq 1 .. Len(wire[n])
      BY <1>1, Ends, LenProperties DEF Requests, Indexes
    <3>3. QED
      BY <3>1, <3>2
  <2>3. /\ unsent'[Peer(n)] = unsent[Peer(n)] /\ rdq'[Peer(n)] = rdq[Peer(n)]
        /\ wire'[Peer(n)] = wire[Peer(n)]
    BY <1>1, <1>2, <1>5, <1>6, Ends DEF TypeOK
  <2>4. OnTheWay(n)' /\ Latched(n)'
    BY <1>1, <1>3, <2>1, <2>2, <2>3 DEF Direction, Recovery, OnTheWay, Latched, Asking, Preambles, Position
  <2>5. QED
    BY <1>1, <1>3, <2>1, <2>3, <2>4, RequestsMove
<1>7. CASE k = Peer(n)
  <2>1. Position(n)' = Position(n) /\ wire'[n] = wire[n]
    BY <1>1, <1>3, <1>5, <1>7, Ends DEF Position
  <2>2. PICK next \in Nat, num \in Seq(Nat) : Reader(n, next) /\ Numbers(n, next, num)
    BY <1>1 DEF Direction, Transit
  <2> DEFINE w == written[k]
  <2>3. /\ w \in Nat /\ Position(n) \in Nat /\ Slots \in Nat
        /\ Position(n) <= next /\ next <= w /\ w <= Position(n) + Slots
    BY <1>1, <1>7, <2>2, Ends, SlotCount DEF Direction, Window, Reader
  <2>4. next < w
    BY <1>2, <1>7, <2>2, <2>3 DEF Reader
  <2>5. id = next % Slots
    <3>1. next % Slots \in unsent[k]
      BY <1>7, <2>2, <2>3, <2>4 DEF Reader
    <3>2. id \in Ids
      BY <1>1 DEF TypeOK
    <3>3. Distance(next % Slots, id) <= Distance(next % Slots, next % Slots)
      BY <1>2, <1>7, <2>2, <3>1 DEF Reader
    <3>4. QED
      BY <3>2, <3>3, NearestSlot
  <2>6. store[k][id] = next + 1
    BY <1>1, <1>7, <2>3, <2>4, <2>5 DEF Direction, Window
  <2>7. Delivery(n)' /\ Window(n)'
    BY <1>1, <1>3, <2>1 DEF Direction, Delivery, Window
  <2>8. Preambles(n)' = Preambles(n)
    <3>1. /\ m.kind # "preamble" /\ wire[Peer(n)] \in Seq(Message)
          /\ wire'[Peer(n)] = Append(wire[Peer(n)], m)
      BY <1>1, <1>4, <1>5, <1>7, Ends
    <3>2. QED
      BY <1>4, <3>1, AppendIndexes DEF Preambles
  <2>9. Recovery(n)'
    BY <1>1, <1>3, <2>1, <2>8 DEF Direction, Recovery, Asked, OnTheWay, Latched, Answered, Asking,
          Requests
  <2>10. Reader(n, next + 1)'
    <3>1. unsent'[k] = {i % Slots : i \in next + 1 .. w - 1}
      <4>1. next .. w - 1 = {next} \cup (next + 1 .. w - 1)
        BY <2>3, <2>4
      <4>2. unsent'[k] = {i % Slots : i \in next .. w - 1} \ {next % Slots}
        BY <1>1, <1>2, <1>7, <2>2, <2>5 DEF Reader, TypeOK
      <4>3. ASSUME NEW i \in next + 1 .. w - 1
            PROVE  i % Slots # next % Slots
        <5>1. i \in Nat /\ next < i /\ i < next + Slots
          BY <2>3
        <5>2. QED
          BY <5>1, OwnSlot
      <4>4. QED
        BY <4>1, <4>2, <4>3
    <3>2. rdq'[k] = (next + 1) % Slots
      BY <1>1, <1>2, <2>5, NextSlot DEF TypeOK
    <3>3. next + 1 \in Position(n) .. w
      BY <2>3, <2>4
    <3>4. QED
      BY <1>3, <1>7, <2>1, <3>1, <3>2, <3>3 DEF Reader
  <2>11. \E num2 \in Seq(Nat) : Numbers(n, next + 1, num2)'
    <3>1. m.data = next + 1 /\ next + 1 <= w
      BY <1>4, <2>3, <2>4, <2>6
    <3>2. QED
      BY <1>1, <1>3, <1>4, <1>5, <1>7, <2>1, <2>2, <3>1, Ends, FrameNumbers
  <2>12. next + 1 \in Nat
    OBVIOUS
  <2>13. QED
    BY <2>7, <2>9, <2>10, <2>11, <2>12 DEF Direction, Transit
<1>8. QED
  BY <1>1, <1>6, <1>7, Ends

\* The framer goes back to the frame that its peer expects.
LEMMA PatchKeeps ==
    ASSUME IInv, NEW k \in Nodes, Patch(k), NEW n \in Nodes
    PROVE  Direction(n)'
<1>1. TypeOK /\ Direction(n)
  BY DEF IInv
<1>2. /\ remoteReq[k] # None
      /\ unsent' = [unsent EXCEPT ![k] = @ \cup Span(remoteReq[k], written[k] % Slots)]
      /\ rdq' = [rdq EXCEPT ![k] = remoteReq[k]]
      /\ serving' = [serving EXCEPT ![k] = TRUE]
      /\ UNCHANGED <<written, writing, store, remoteReq, localReq,
                     expected, stalled, delivered, wire>>
  BY DEF Patch, parser, wrq
<1>3. CASE n = k
  <2>1. /\ unsent'[Peer(n)] = unsent[Peer(n)] /\ rdq'[Peer(n)] = rdq[Peer(n)]
        /\ serving'[Peer(n)] = serving[Peer(n)]
    BY <1>1, <1>2, <1>3, Ends DEF TypeOK
  <2>2. OnTheWay(n)' /\ Latched(n)' /\ Requests(n)' = Requests(n)
    BY <1>1, <1>2, <2>1 DEF Direction, Recovery, OnTheWay, Latched, Asking, Requests, Preambles, Position
  <2>3. QED
    BY <1>1, <1>2, <2>1, <2>2, RequestsMove
<1>4. CASE k = Peer(n)
  <2>0. PICK d \in Nat : d = Position(n)
    BY <1>1, Ends
  <2> DEFINE w == written[k]
  <2>1. Position(n) = d /\ Position(n)' = d /\ serving'[k]
    BY <1>1, <1>2, <2>0 DEF Position, TypeOK
  <2>2. /\ w \in Nat /\ Slots \in Nat /\ d < w /\ w <= d + Slots
        /\ remoteReq[k] = d % Slots /\ stalled[n]
    BY <1>1, <1>2, <1>4, <2>1, Ends, SlotCount DEF Direction, Window, Delivery, Recovery, Latched, Asking
  <2>3. Delivery(n)' /\ Window(n)'
    BY <1>1, <1>2, <2>1 DEF Direction, Delivery, Window
  <2>4. Recovery(n)'
    BY <1>1, <1>2, <1>4, <2>1 DEF Direction, Recovery, Asked, OnTheWay, Latched, Answered, Asking,
          Requests, Preambles
  <2>5. PICK next \in Nat, num \in Seq(Nat) : Reader(n, next) /\ Numbers(n, next, num)
    BY <1>1 DEF Direction, Transit
  <2>6. Reader(n, d)'
    <3>1. Span(d % Slots, w % Slots) = {i % Slots : i \in d .. w - 1}
      BY <2>2, SpanOfFrames
    <3>2. unsent'[k] = {i % Slots : i \in next .. w - 1} \cup {i % Slots : i \in d .. w - 1}
      BY <1>1, <1>2, <1>4, <2>2, <2>5, <3>1 DEF Reader, TypeOK
    <3>3. next .. w - 1 \subseteq d .. w - 1
      BY <1>4, <2>1, <2>2, <2>5 DEF Reader
    <3>4. unsent'[k] = {i % Slots : i \in d .. w - 1}
      BY <3>2, <3>3
    <3>5. rdq'[k] = d % Slots /\ d \in d .. w
      BY <1>1, <1>2, <2>2 DEF TypeOK
    <3>6. QED
      BY <1>2, <1>4, <2>1, <3>4, <3>5 DEF Reader
  <2>7. Numbers(n, d, num)'
    <3>1. wire'[Peer(n)] = wire[Peer(n)] /\ written'[Peer(n)] = written[Peer(n)]
          /\ stalled'[n] = stalled[n] /\ Position(n)' = Position(n) /\ serving'[Peer(n)]
          /\ written[Peer(n)] \in Nat /\ Len(wire[Peer(n)]) \in Nat
      BY <1>1, <1>2, <1>4, <2>1, Ends
    <3>2. written[Peer(n)] <= written'[Peer(n)] /\ written'[Peer(n)] \in Nat
      BY <3>1
    <3>3. /\ DOMAIN wire'[Peer(n)] = DOMAIN wire[Peer(n)]
          /\ Len(wire'[Peer(n)]) = Len(wire[Peer(n)])
          /\ \A i \in DOMAIN wire[Peer(n)] :
                /\ wire'[Peer(n)][i].kind = wire[Peer(n)][i].kind
                /\ wire'[Peer(n)][i].data = wire[Peer(n)][i].data
      BY <3>1
    <3>4. /\ Numbers(n, next, num)
          /\ serving'[Peer(n)] \/ (~serving[Peer(n)] /\ d = next)
          /\ stalled[n] => stalled'[n]
      BY <2>5, <3>1
    <3>5. QED
      BY <3>1, <3>2, <3>3, <3>4, SameNumbers
  <2>8. QED
    BY <2>3, <2>4, <2>6, <2>7 DEF Direction, Transit
<1>5. QED
  BY <1>1, <1>3, <1>4, Ends

\* The preambles answer the only request there is.
LEMMA SendPreambleKeeps ==
    ASSUME Timing, IInv, NEW k \in Nodes, SendPreamble(k), NEW n \in Nodes
    PROVE  Direction(n)'
<1>1. TypeOK /\ Direction(n)
  BY DEF IInv
<1>2. /\ serving[k] /\ ~BurstArriving(k)
      /\ wire' = [wire EXCEPT ![k] = @ \o Burst(Preamble)]
      /\ remoteReq' = [remoteReq EXCEPT ![k] = None]
      /\ serving' = [serving EXCEPT ![k] = FALSE]
      /\ UNCHANGED <<written, writing, store, unsent, rdq, localReq, expected, stalled, delivered>>
  BY DEF SendPreamble, parser, Timing
<1>3. wire'[k] = wire[k] \o Burst(Preamble) /\ \A j \in Nodes : j # k => wire'[j] = wire[j]
  BY <1>1, <1>2 DEF TypeOK
<1>4. /\ Burst(Preamble) \in Seq(Message) /\ Len(Burst(Preamble)) = Copies
      /\ \A i \in 1 .. Copies : Burst(Preamble)[i].kind = "preamble"
      /\ Preamble \in Message /\ Preamble.kind = "preamble"
  BY MessageTypes, BurstItems
<1>5. CASE n = k
  <2>1. Requests(n)' = Requests(n)
    <3>1. \A i \in 1 .. Len(Burst(Preamble)) : Burst(Preamble)[i].kind # "request"
      BY <1>4
    <3>2. wire[n] \in Seq(Message) /\ wire'[n] = wire[n] \o Burst(Preamble)
      BY <1>1, <1>3, <1>5, Ends
    <3>3. QED
      BY <1>4, <3>1, <3>2, ConcatIndexes DEF Requests
  <2>2. \A i \in Requests(n) : wire'[n][i] = wire[n][i]
    <3>1. \A i \in 1 .. Len(wire[n]) : wire'[n][i] = wire[n][i]
      BY <1>1, <1>3, <1>4, <1>5, Ends, ConcatProperties, BurstItems
    <3>2. Requests(n) \subseteq 1 .. Len(wire[n])
      BY <1>1, Ends, LenProperties DEF Requests, Indexes
    <3>3. QED
      BY <3>1, <3>2
  <2>3. /\ remoteReq'[Peer(n)] = remoteReq[Peer(n)] /\ serving'[Peer(n)] = serving[Peer(n)]
        /\ wire'[Peer(n)] = wire[Peer(n)]
    BY <1>1, <1>2, <1>3, <1>5, Ends DEF TypeOK
  <2>4. OnTheWay(n)' /\ Latched(n)'
    BY <1>1, <1>2, <2>1, <2>2, <2>3, ZenonT(60) DEF Direction, Recovery, OnTheWay, Latched, Asking, Preambles, Position
  <2>5. QED
    BY <1>1, <1>2, <2>1, <2>3, <2>4, RequestsMove
<1>6. CASE k = Peer(n)
  <2>1. PICK d \in Nat : d = Position(n)
    BY <1>1, Ends
  <2>2. /\ Position(n)' = d /\ Position(n) = d /\ wire'[n] = wire[n]
        /\ remoteReq'[k] = None /\ ~serving'[k]
    BY <1>1, <1>2, <1>3, <1>6, <2>1, Ends DEF Position, TypeOK
  <2>3. /\ remoteReq[k] # None /\ stalled[n] /\ localReq[n] = None
        /\ Preambles(n) = {} /\ InFront(Requests(n)) /\ d < written[k]
    BY <1>1, <1>2, <1>6, <2>2 DEF Direction, Recovery, Latched, Asking
  <2>4. Requests(n) = {}
    <3>1. CASE wire[n] = <<>>
      BY <3>1 DEF Requests, Indexes
    <3>2. CASE wire[n] # <<>>
      <4>1. Head(wire[n]).kind # "request"
        BY <1>1, <1>2, <1>6, <3>2, Ends DEF BurstArriving
      <4>2. QED
        BY <1>1, <2>3, <3>2, <4>1, Ends, TailIndexes DEF Requests
    <3>3. QED
      BY <3>1, <3>2
  <2>5. Delivery(n)' /\ Window(n)'
    BY <1>1, <1>2, <2>2 DEF Direction, Delivery, Window
  <2>6. Requests(n)' = {}
    BY <2>2, <2>4 DEF Requests
  <2>7. Together(Preambles(n)')
    <3>1. wire[k] \in Seq(Message) /\ Indexes(wire[k], Preamble.kind) = {}
      BY <1>1, <1>4, <1>6, <2>3, Ends DEF Preambles
    <3>2. Together(Indexes(wire[k] \o Burst(Preamble), Preamble.kind))
      BY <1>4, <3>1, BurstIndexes
    <3>3. QED
      BY <1>3, <1>4, <1>6, <3>2 DEF Preambles
  <2>8. Recovery(n)'
    <3>1. Asked(n)' /\ Latched(n)'
      BY <1>2, <1>6, <2>2, <2>3 DEF Asked, Latched
    <3>2. OnTheWay(n)'
      BY <2>6 DEF OnTheWay, Together
    <3>3. Answered(n)'
      BY <1>2, <2>3, <2>7 DEF Answered
    <3>4. QED
      BY <3>1, <3>2, <3>3 DEF Recovery
  <2>9. PICK next \in Nat, num \in Seq(Nat) : Reader(n, next) /\ Numbers(n, next, num)
    BY <1>1 DEF Direction, Transit
  <2>10. Reader(n, d)'
    BY <1>2, <1>6, <2>2, <2>9 DEF Reader
  <2>11. \E num2 \in Seq(Nat) : Numbers(n, d, num2)'
    <3>1. /\ wire[Peer(n)] \in Seq(Message) /\ written[Peer(n)] \in Nat
          /\ wire'[Peer(n)] = wire[Peer(n)] \o Burst(Preamble)
          /\ d <= written[Peer(n)]
          /\ written'[Peer(n)] = written[Peer(n)] /\ Position(n)' = Position(n)
          /\ stalled'[n] = stalled[n]
      BY <1>1, <1>2, <1>3, <1>6, <2>2, <2>3, Ends
    <3>2. Preamble.kind = "preamble" /\ d = Position(n)
      BY <1>4, <2>1
    <3>3. QED
      BY <1>4, <2>9, <3>1, <3>2, BurstNumbers
  <2>12. QED
    BY <2>5, <2>8, <2>10, <2>11 DEF Direction, Transit
<1>7. QED
  BY <1>1, <1>5, <1>6, Ends

\* The request goes on the wire, among the frames of the other direction.
LEMMA SendRequestKeeps ==
    ASSUME IInv, NEW k \in Nodes, SendRequest(k), NEW n \in Nodes
    PROVE  Direction(n)'
<1>1. TypeOK /\ Direction(n)
  BY DEF IInv
<1> DEFINE m == Request(localReq[k])
<1>2. /\ ~serving[k] /\ localReq[k] # None
      /\ wire' = [wire EXCEPT ![k] = @ \o Burst(m)]
      /\ localReq' = [localReq EXCEPT ![k] = None]
      /\ UNCHANGED <<written, writing, store, unsent, rdq, serving, remoteReq,
                     expected, stalled, delivered>>
  BY DEF SendRequest, parser
<1>3. wire'[k] = wire[k] \o Burst(m) /\ \A j \in Nodes : j # k => wire'[j] = wire[j]
  BY <1>1, <1>2 DEF TypeOK
<1>4. m \in Message /\ m.kind = "request" /\ m.data = localReq[k]
  BY <1>1, <1>2, MessageTypes DEF TypeOK
<1> HIDE DEF m
<1>5. CASE n = k
  <2>1. /\ Asking(n) /\ localReq[n] = expected[n] /\ Requests(n) = {} /\ remoteReq[Peer(n)] = None
    BY <1>1, <1>2, <1>5 DEF Direction, Recovery, Asked
  <2>2. /\ wire'[Peer(n)] = wire[Peer(n)] /\ localReq'[n] = None
        /\ wire'[n] = wire[n] \o Burst(m)
    BY <1>1, <1>2, <1>3, <1>5, Ends DEF TypeOK
  <2>3. Position(n)' = Position(n) /\ Preambles(n)' = Preambles(n)
    BY <1>2, <2>2 DEF Position, Preambles
  <2>4. Delivery(n)' /\ Window(n)'
    BY <1>1, <1>2, <2>3 DEF Direction, Delivery, Window
  <2>5. /\ Together(Requests(n)')
        /\ \A i \in Requests(n)' : wire'[n][i].data = expected[n]
    <3>1. wire[n] \in Seq(Message) /\ Indexes(wire[n], m.kind) = {}
      BY <1>1, <1>4, <2>1, Ends DEF Requests
    <3>2. /\ Together(Indexes(wire[n] \o Burst(m), m.kind))
          /\ \A i \in Indexes(wire[n] \o Burst(m), m.kind) : (wire[n] \o Burst(m))[i] = m
      BY <1>4, <3>1, BurstIndexes
    <3>3. QED
      BY <1>4, <1>5, <2>1, <2>2, <3>2 DEF Requests
  <2>6. Recovery(n)'
    <3>1. Asking(n)'
      BY <1>2, <2>1, <2>3 DEF Asking
    <3>2. Asked(n)' /\ OnTheWay(n)'
      BY <1>2, <2>2, <2>5, <3>1 DEF Asked, OnTheWay
    <3>3. Latched(n)' /\ Answered(n)'
      BY <1>1, <1>2, <2>1, <2>3 DEF Direction, Recovery, Latched, Answered
    <3>4. QED
      BY <3>2, <3>3 DEF Recovery
  <2>7. Transit(n)'
    <3>1. PICK next \in Nat, num \in Seq(Nat) : Reader(n, next) /\ Numbers(n, next, num)
      BY <1>1 DEF Direction, Transit
    <3>2. Reader(n, next)'
      BY <1>2, <2>3, <3>1 DEF Reader
    <3>3. /\ wire'[Peer(n)] = wire[Peer(n)] /\ written'[Peer(n)] = written[Peer(n)]
          /\ serving'[Peer(n)] = serving[Peer(n)] /\ stalled'[n] = stalled[n]
          /\ Position(n)' = Position(n)
          /\ written[Peer(n)] \in Nat /\ Len(wire[Peer(n)]) \in Nat
      BY <1>1, <1>2, <2>2, <2>3, Ends
    <3>4. written[Peer(n)] <= written'[Peer(n)] /\ written'[Peer(n)] \in Nat
      BY <3>3
    <3>5. Numbers(n, next, num)'
      BY <3>1, <3>3, <3>4, SameNumbers
    <3>6. QED
      BY <3>2, <3>5 DEF Transit
  <2>8. QED
    BY <2>4, <2>6, <2>7 DEF Direction
<1>6. CASE k = Peer(n)
  <2>1. /\ Position(n)' = Position(n) /\ wire'[n] = wire[n] /\ localReq'[n] = localReq[n]
    BY <1>1, <1>2, <1>3, <1>6, Ends DEF Position, TypeOK
  <2>2. Delivery(n)' /\ Window(n)'
    BY <1>1, <1>2, <2>1 DEF Direction, Delivery, Window
  <2>3. Preambles(n)' = Preambles(n)
    <3>1. \A i \in 1 .. Len(Burst(m)) : Burst(m)[i].kind # "preamble"
      BY <1>4, BurstItems
    <3>2. wire[Peer(n)] \in Seq(Message) /\ wire'[Peer(n)] = wire[Peer(n)] \o Burst(m)
      BY <1>1, <1>3, <1>6, Ends
    <3>3. Burst(m) \in Seq(Message)
      BY <1>4, BurstItems
    <3>4. QED
      BY <3>1, <3>2, <3>3, ConcatIndexes DEF Preambles
  <2>4. Recovery(n)'
    BY <1>1, <1>2, <2>1, <2>3 DEF Direction, Recovery, Asked, OnTheWay, Latched, Answered, Asking,
          Requests
  <2>5. PICK next \in Nat, num \in Seq(Nat) : Reader(n, next) /\ Numbers(n, next, num)
    BY <1>1 DEF Direction, Transit
  <2>6. Reader(n, next)'
    BY <1>2, <2>1, <2>5 DEF Reader
  <2>7. \E num2 \in Seq(Nat) : Numbers(n, next, num2)'
    <3>1. /\ wire[Peer(n)] \in Seq(Message) /\ written[Peer(n)] \in Nat
          /\ wire'[Peer(n)] = wire[Peer(n)] \o Burst(m)
          /\ written'[Peer(n)] = written[Peer(n)] /\ Position(n)' = Position(n)
          /\ stalled'[n] = stalled[n]
      BY <1>1, <1>2, <1>3, <1>6, <2>1, Ends
    <3>2. next = num[Len(wire[Peer(n)]) + 1]
      BY <1>2, <1>6, <2>5 DEF Numbers
    <3>3. next <= written[Peer(n)]
      BY <2>5 DEF Reader
    <3>4. QED
      BY <1>4, <2>5, <3>1, <3>2, <3>3, BurstNumbers
  <2>8. QED
    BY <2>2, <2>4, <2>5, <2>6, <2>7 DEF Direction, Transit
<1>7. QED
  BY <1>1, <1>5, <1>6, Ends

-----------------------------------------------------------------------------
(* The parser *)

\* The peer of n takes something that n sent.  A request is latched if it is the first
\* of its burst to arrive; the rest of the burst follows at once.
LEMMA PeerTakes ==
    ASSUME IInv, NEW k \in Nodes, Receive(k), NEW n \in Nodes, k = Peer(n)
    PROVE  Direction(n)'
<1>1. TypeOK /\ Direction(n) /\ Peer(k) = n /\ n # k
  BY Ends DEF IInv
<1>2. /\ UNCHANGED <<written, writing, store, unsent, rdq, serving>>
      /\ localReq'[n] = localReq[n] /\ expected'[n] = expected[n]
      /\ stalled'[n] = stalled[n] /\ delivered'[n] = delivered[n]
  BY <1>1 DEF Receive, Accept, Reject, Drop, TakeRequest, TakePreamble, framer, parser, TypeOK
<1>3. Arrives(k) /\ Taken(k)
  BY DEF Receive, Accept, Reject, Drop, TakeRequest, TakePreamble
<1>4. /\ wire[n] \in Seq(Message) /\ wire[n] # <<>>
      /\ Arrival(k) = Head(wire[n]) /\ Arrival(k) = wire[n][1]
      /\ wire'[n] = Tail(wire[n]) /\ wire'[k] = wire[k]
  BY <1>1, <1>3, ArrivalTypes
<1>5. Position(n)' = Position(n) /\ Preambles(n)' = Preambles(n)
  BY <1>2, <1>4 DEF Position, Preambles
<1>6. Asking(n)' = Asking(n)
  BY <1>2, <1>5 DEF Asking
<1>7. /\ \A i \in Requests(n)' : i + 1 \in Requests(n) /\ wire'[n][i] = wire[n][i + 1]
      /\ Requests(n) = {} => Requests(n)' = {}
      /\ Together(Requests(n)) => Together(Requests(n)')
      /\ InFront(Requests(n)) => InFront(Requests(n)')
      /\ Together(Requests(n)) /\ Head(wire[n]).kind = "request" => InFront(Requests(n)')
  BY <1>4, TailIndexes DEF Requests
<1>8. OnTheWay(n)'
  BY <1>1, <1>2, <1>6, <1>7 DEF Direction, Recovery, OnTheWay
<1>9. Latched(n)'
  <2>1. CASE remoteReq' = remoteReq
    BY <1>1, <1>2, <1>6, <1>7, <2>1 DEF Direction, Recovery, Latched
  <2>2. CASE remoteReq' # remoteReq
    <3>1. /\ Arrival(k).kind = "request"
          /\ remoteReq' = [remoteReq EXCEPT ![k] = IF @ = None THEN Arrival(k).data ELSE @]
      BY <2>2 DEF Receive, Accept, Reject, Drop, TakeRequest, TakePreamble, framer
    <3>2. remoteReq[k] = None /\ remoteReq'[k] = Arrival(k).data
      BY <1>1, <2>2, <3>1 DEF TypeOK
    <3>3. 1 \in Requests(n)
      BY <1>4, <3>1, LenProperties, EmptySeq DEF Requests, Indexes
    <3>4. /\ Asking(n) /\ localReq[n] = None /\ remoteReq'[k] = expected[n]
          /\ InFront(Requests(n)')
      BY <1>1, <1>4, <1>7, <3>1, <3>2, <3>3 DEF Direction, Recovery, OnTheWay
    <3>5. ~serving[k]
      BY <1>1, <3>2 DEF Direction, Recovery, Latched
    <3>6. QED
      BY <1>2, <1>6, <3>4, <3>5 DEF Latched
  <2>3. QED
    BY <2>1, <2>2
<1>10. QED
  BY <1>1, <1>2, <1>4, <1>7, <1>8, <1>9, RequestsMove

\* Something arrives at n that changes neither the frames it has nor its stall; the
\* preambles that follow a preamble are dropped as well.
LEMMA DropKeeps ==
    ASSUME IInv, NEW n \in Nodes, Drop(n) \/ TakeRequest(n)
    PROVE  Direction(n)'
<1>1. TypeOK /\ Direction(n)
  BY DEF IInv
<1>2. Arrives(n) /\ Taken(n)
  BY DEF Drop, TakeRequest
<1> DEFINE p == Peer(n)
<1>3. /\ UNCHANGED <<written, writing, store, unsent, rdq, serving, localReq,
                     expected, stalled, delivered>>
      /\ Arrival(n).kind = "frame" => stalled[n]
      /\ remoteReq'[p] = remoteReq[p]
  BY <1>1, Ends DEF Drop, TakeRequest, framer, parser, TypeOK
<1>4. /\ wire[p] \in Seq(Message) /\ wire[p] # <<>>
      /\ Arrival(n) = Head(wire[p]) /\ Arrival(n) = wire[p][1] /\ Arrival(n) \in Message
      /\ wire'[p] = Tail(wire[p]) /\ wire'[n] = wire[n]
  BY <1>1, <1>2, ArrivalTypes
<1>5. Position(n)' = Position(n) /\ Requests(n)' = Requests(n)
  BY <1>3, <1>4 DEF Position, Requests
<1>6. /\ Preambles(n) = {} => Preambles(n)' = {}
      /\ Together(Preambles(n)) => Together(Preambles(n)')
      /\ InFront(Preambles(n)) => InFront(Preambles(n)')
  BY <1>4, TailIndexes DEF Preambles
<1>7. Delivery(n)' /\ Window(n)'
  BY <1>1, <1>3, <1>5 DEF Direction, Delivery, Window
<1>8. Recovery(n)'
  <2>1. Asking(n) => Asking(n)'
    BY <1>3, <1>5, <1>6 DEF Asking
  <2>2. Asked(n)'
    BY <1>1, <1>3, <1>5, <2>1 DEF Direction, Recovery, Asked
  <2>3. OnTheWay(n)'
    BY <1>1, <1>3, <1>4, <1>5, <2>1 DEF Direction, Recovery, OnTheWay
  <2>4. Latched(n)'
    BY <1>1, <1>3, <1>5, <2>1 DEF Direction, Recovery, Latched
  <2>5. Answered(n)'
    BY <1>1, <1>3, <1>6 DEF Direction, Recovery, Answered
  <2>6. QED
    BY <2>2, <2>3, <2>4, <2>5 DEF Recovery
<1>9. PICK next \in Nat, num \in Seq(Nat) : Reader(n, next) /\ Numbers(n, next, num)
  BY <1>1 DEF Direction, Transit
<1>10. Reader(n, next)'
  BY <1>3, <1>5, <1>9 DEF Reader
<1>11. \E num2 \in Seq(Nat) : Numbers(n, next, num2)'
  <2>1. 1 \in DOMAIN wire[p]
    BY <1>4, LenProperties, EmptySeq
  <2>2. Step(n, num, 1) /\ (~stalled[n] => num[1] = Position(n))
    BY <1>9, <2>1 DEF Numbers
  <2>3. stalled'[n] \/ num[2] = Position(n)'
    BY <1>3, <1>4, <1>5, <2>2 DEF Step, Message
  <2>4. /\ serving'[p] = serving[p] /\ written'[p] = written[p] /\ Position(n)' = Position(n)
    BY <1>3, <1>5
  <2>5. QED
    BY <1>4, <1>9, <2>3, <2>4, TakenNumbers
<1>12. QED
  BY <1>7, <1>8, <1>9, <1>10, <1>11 DEF Direction, Transit

\* A preamble ends the stall: what follows it begins with the frame expected.
LEMMA TakePreambleKeeps ==
    ASSUME IInv, NEW n \in Nodes, TakePreamble(n)
    PROVE  Direction(n)'
<1>1. TypeOK /\ Direction(n)
  BY DEF IInv
<1>2. Arrives(n) /\ Taken(n)
  BY DEF TakePreamble
<1> DEFINE p == Peer(n)
<1>3. /\ UNCHANGED <<written, writing, store, unsent, rdq, serving, remoteReq, localReq,
                     expected, delivered>>
      /\ Arrival(n).kind = "preamble"
      /\ ~stalled'[n]
  BY <1>1, Ends DEF TakePreamble, framer, TypeOK
<1>4. /\ wire[p] \in Seq(Message) /\ wire[p] # <<>>
      /\ Arrival(n) = Head(wire[p]) /\ Arrival(n) = wire[p][1]
      /\ wire'[p] = Tail(wire[p]) /\ wire'[n] = wire[n]
  BY <1>1, <1>2, ArrivalTypes
<1>5. Position(n)' = Position(n) /\ Requests(n)' = Requests(n)
  BY <1>3, <1>4 DEF Position, Requests
<1>6. 1 \in Preambles(n) /\ 1 \in DOMAIN wire[p]
  BY <1>3, <1>4, LenProperties, EmptySeq DEF Preambles, Indexes
<1>7. /\ Together(Preambles(n)')
      /\ InFront(Preambles(n)')
  BY <1>1, <1>3, <1>4, TailIndexes DEF Preambles, Direction, Recovery, Answered
<1>8. Delivery(n)' /\ Window(n)'
  BY <1>1, <1>3, <1>5 DEF Direction, Delivery, Window
<1>9. localReq[n] = None /\ Requests(n) = {} /\ remoteReq[p] = None /\ ~serving[p]
  BY <1>1, <1>6 DEF Direction, Recovery, Asked, OnTheWay, Latched, Asking
<1>10. Recovery(n)'
  BY <1>3, <1>5, <1>7, <1>9 DEF Recovery, Asked, OnTheWay, Latched, Answered, Together
<1>11. PICK next \in Nat, num \in Seq(Nat) : Reader(n, next) /\ Numbers(n, next, num)
  BY <1>1 DEF Direction, Transit
<1>12. Reader(n, next)'
  BY <1>3, <1>5, <1>11 DEF Reader
<1>13. \E num2 \in Seq(Nat) : Numbers(n, next, num2)'
  <2>1. Step(n, num, 1)
    BY <1>6, <1>11 DEF Numbers
  <2>2. num[2] = Position(n)'
    BY <1>3, <1>4, <1>5, <2>1 DEF Step
  <2>3. /\ serving'[p] = serving[p] /\ written'[p] = written[p] /\ Position(n)' = Position(n)
    BY <1>3, <1>5
  <2>4. QED
    BY <1>4, <1>11, <2>2, <2>3, TakenNumbers
<1>14. QED
  BY <1>8, <1>10, <1>11, <1>12, <1>13 DEF Direction, Transit

\* What a parser that is not stalled finds in a frame: the next one.
LEMMA NextArrival ==
    ASSUME IInv, NEW n \in Nodes, Arrives(n), Taken(n),
           Arrival(n).kind = "frame", ~stalled[n],
           NEW next \in Nat, NEW num \in Seq(Nat), Reader(n, next), Numbers(n, next, num)
    PROVE  /\ Arrival(n).data = Position(n) + 1
           /\ num[2] = Position(n) + 1
           /\ Position(n) < next /\ next <= written[Peer(n)]
           /\ Preambles(n) = {} /\ Requests(n) = {}
           /\ localReq[n] = None /\ remoteReq[Peer(n)] = None /\ ~serving[Peer(n)]
<1> DEFINE p == Peer(n)
<1>1. TypeOK /\ Direction(n) /\ Position(n) \in Nat /\ written[p] \in Nat
  BY Ends DEF IInv
<1>2. /\ wire[p] \in Seq(Message) /\ wire[p] # <<>>
      /\ Arrival(n) = Head(wire[p]) /\ Arrival(n) = wire[p][1]
  BY <1>1, ArrivalTypes
<1>3. Preambles(n) = {}
  BY <1>1, <1>2, TailIndexes DEF Preambles, Direction, Recovery, Answered
<1>4. localReq[n] = None /\ Requests(n) = {} /\ remoteReq[p] = None /\ ~serving[p]
  BY <1>1 DEF Direction, Recovery, Asked, OnTheWay, Latched, Asking
<1>5. 1 \in DOMAIN wire[p] /\ Len(wire[p]) \in Nat \ {0}
  BY <1>2, LenProperties, EmptySeq
<1>6. Step(n, num, 1) /\ num[1] = Position(n) /\ num[Len(wire[p]) + 1] = next
  BY <1>4, <1>5 DEF Numbers
<1>7. Arrival(n).data = Position(n) + 1 /\ num[2] = Position(n) + 1
  BY <1>2, <1>6 DEF Step
<1>8. num[2] <= num[Len(wire[p]) + 1]
  <2>1. 2 \in Places(n) /\ Len(wire[p]) + 1 \in 2 .. Len(wire[p]) + 1
    BY <1>5 DEF Places
  <2>2. QED
    BY <1>3, <2>1 DEF Numbers
<1>9. next \in Position(n) .. written[p]
  BY DEF Reader
<1>10. QED
  BY <1>1, <1>3, <1>4, <1>6, <1>7, <1>8, <1>9

\* The frame is the next one, and the window moves on.
LEMMA AcceptKeeps ==
    ASSUME IInv, NEW n \in Nodes, Accept(n)
    PROVE  Direction(n)'
<1>1. TypeOK /\ Direction(n)
  BY DEF IInv
<1> DEFINE p == Peer(n)
<1>2. Arrives(n) /\ Taken(n) /\ Arrival(n).kind = "frame" /\ ~stalled[n]
  BY DEF Accept
<1>3. /\ delivered'[n] = Append(delivered[n], Arrival(n).data)
      /\ expected'[n] = Succ(expected[n])
      /\ UNCHANGED <<written, writing, store, unsent, rdq, serving, remoteReq, localReq, stalled>>
  BY <1>1 DEF Accept, framer, TypeOK
<1>4. /\ wire[p] \in Seq(Message) /\ wire[p] # <<>>
      /\ Arrival(n) = Head(wire[p]) /\ Arrival(n) = wire[p][1] /\ Arrival(n) \in Message
      /\ wire'[p] = Tail(wire[p]) /\ wire'[n] = wire[n]
  BY <1>1, <1>2, ArrivalTypes
<1>5. PICK d \in Nat : d = Position(n)
  BY <1>1, Ends
<1>6. PICK next \in Nat, num \in Seq(Nat) : Reader(n, next) /\ Numbers(n, next, num)
  BY <1>1 DEF Direction, Transit
<1>7. /\ Arrival(n).data = d + 1 /\ num[2] = d + 1 /\ d < next /\ next <= written[p]
      /\ Preambles(n) = {} /\ Requests(n) = {}
      /\ localReq[n] = None /\ remoteReq[p] = None /\ ~serving[p]
  BY <1>2, <1>5, <1>6, NextArrival
<1>8. /\ Position(n) = d /\ Position(n)' = d + 1
      /\ \A i \in 1 .. d : delivered'[n][i] = delivered[n][i]
      /\ delivered'[n][d + 1] = d + 1
  <2>1. delivered[n] \in Seq(Nat) /\ Arrival(n).data \in Nat
    BY <1>1, <1>4 DEF TypeOK, Message
  <2>2. QED
    BY <1>3, <1>5, <1>7, <2>1, AppendProperties DEF Position
<1>9. Delivery(n)'
  <2>1. Succ(expected[n]) = (d + 1) % Slots
    BY <1>1, <1>8, NextSlot DEF Direction, Delivery
  <2>2. \A i \in 1 .. d + 1 : delivered'[n][i] = i
    <3>1. \A i \in 1 .. d : delivered[n][i] = i
      BY <1>1, <1>8 DEF Direction, Delivery
    <3>2. \A i \in 1 .. d + 1 : i \in 1 .. d \/ i = d + 1
      OBVIOUS
    <3>3. QED
      BY <1>8, <3>1, <3>2
  <2>3. QED
    BY <1>3, <1>8, <2>1, <2>2 DEF Delivery
<1>10. /\ p \in Nodes /\ written[p] \in Nat /\ Slots \in Nat
  BY <1>1, Ends, SlotCount
<1>11. Window(n)'
  <2>1. \A i \in d + 1 .. written[p] - 1 : i \in d .. written[p] - 1
    BY <1>10
  <2>2. \A i \in d .. written[p] - 1 : store[p][i % Slots] = i + 1
    BY <1>1, <1>8 DEF Direction, Window
  <2>3. /\ d + 1 <= written[p] /\ written[p] <= d + 1 + Slots
        /\ writing[p] => written[p] < d + 1 + Slots
    BY <1>1, <1>7, <1>8, <1>10 DEF Direction, Window
  <2>4. QED
    BY <1>3, <1>8, <2>1, <2>2, <2>3 DEF Window
<1>12. Requests(n)' = {} /\ Preambles(n)' = {}
  BY <1>4, <1>7, TailIndexes DEF Requests, Preambles
<1>13. Recovery(n)'
  BY <1>3, <1>7, <1>12 DEF Recovery, Asked, OnTheWay, Latched, Answered, Together, InFront
<1>14. Reader(n, next)'
  <2>1. next \in d + 1 .. written[p]
    BY <1>7, <1>10
  <2>2. QED
    BY <1>3, <1>6, <1>7, <1>8, <2>1 DEF Reader
<1>15. \E num2 \in Seq(Nat) : Numbers(n, next, num2)'
  <2>1. /\ serving'[p] = serving[p] /\ written'[p] = written[p] /\ num[2] = Position(n)'
    BY <1>3, <1>7, <1>8
  <2>2. QED
    BY <1>4, <1>6, <1>7, <2>1, TakenNumbers
<1>16. QED
  BY <1>9, <1>11, <1>13, <1>14, <1>15 DEF Direction, Transit

\* A frame is lost, and its number is what the parser asks for.
LEMMA RejectKeeps ==
    ASSUME IInv, NEW n \in Nodes, Reject(n)
    PROVE  Direction(n)'
<1>1. TypeOK /\ Direction(n)
  BY DEF IInv
<1> DEFINE p == Peer(n)
<1>2. Arrives(n) /\ Taken(n) /\ Arrival(n).kind = "frame" /\ ~stalled[n]
  BY DEF Reject
<1>3. PICK next \in Nat, num \in Seq(Nat) : Reader(n, next) /\ Numbers(n, next, num)
  BY <1>1 DEF Direction, Transit
<1>4. /\ Position(n) < next /\ next <= written[p]
      /\ Preambles(n) = {} /\ Requests(n) = {}
      /\ localReq[n] = None /\ remoteReq[p] = None /\ ~serving[p]
  BY <1>2, <1>3, NextArrival
<1>5. /\ stalled'[n] /\ localReq'[n] = expected[n]
      /\ UNCHANGED <<written, writing, store, unsent, rdq, serving, remoteReq, expected, delivered>>
  BY <1>1, <1>4 DEF Reject, TypeOK
<1>6. /\ wire[p] \in Seq(Message) /\ wire[p] # <<>>
      /\ wire'[p] = Tail(wire[p]) /\ wire'[n] = wire[n]
  BY <1>1, <1>2, ArrivalTypes
<1>7. /\ Position(n)' = Position(n) /\ Requests(n)' = {} /\ Preambles(n)' = {}
  BY <1>4, <1>5, <1>6, TailIndexes DEF Position, Requests, Preambles
<1>8. Delivery(n)' /\ Window(n)'
  BY <1>1, <1>5, <1>7 DEF Direction, Delivery, Window
<1>9. Position(n) < written[p]
  BY <1>1, <1>4, Ends
<1>10. Asking(n)'
  BY <1>5, <1>7, <1>9 DEF Asking
<1>11. Recovery(n)'
  BY <1>4, <1>5, <1>7, <1>10 DEF Recovery, Asked, OnTheWay, Latched, Answered, Together
<1>12. Reader(n, next)'
  BY <1>3, <1>5, <1>7 DEF Reader
<1>13. \E num2 \in Seq(Nat) : Numbers(n, next, num2)'
  <2>1. /\ serving'[p] = serving[p] /\ written'[p] = written[p]
        /\ Position(n)' = Position(n) /\ stalled'[n]
    BY <1>5, <1>7
  <2>2. QED
    BY <1>3, <1>6, <2>1, TakenNumbers
<1>14. QED
  BY <1>8, <1>11, <1>12, <1>13 DEF Direction, Transit

\* Damage changes neither kinds nor contents.
LEMMA CorruptKeeps ==
    ASSUME IInv, NEW k \in Nodes, Corrupt(k), NEW n \in Nodes
    PROVE  Direction(n)'
<1>1. TypeOK /\ Direction(n)
  BY DEF IInv
<1>2. PICK x \in DOMAIN wire[k] : wire' = [wire EXCEPT ![k][x].ok = FALSE]
  BY DEF Corrupt
<1>3. UNCHANGED <<written, writing, store, unsent, rdq, serving, remoteReq, localReq,
                  expected, stalled, delivered>>
  BY DEF Corrupt, framer, parser
<1>4. /\ wire'[k] = [wire[k] EXCEPT ![x].ok = FALSE]
      /\ \A j \in Nodes : j # k => wire'[j] = wire[j]
  BY <1>1, <1>2 DEF TypeOK
<1>5. wire[k] \in Seq(Message)
  BY <1>1, Ends
<1>6. /\ wire'[k] \in Seq(Message) /\ Len(wire'[k]) = Len(wire[k])
      /\ \A i \in DOMAIN wire[k] :
            wire'[k][i].kind = wire[k][i].kind /\ wire'[k][i].data = wire[k][i].data
      /\ Indexes(wire'[k], "request") = Indexes(wire[k], "request")
      /\ Indexes(wire'[k], "preamble") = Indexes(wire[k], "preamble")
  <2> DEFINE t == [wire[k] EXCEPT ![x].ok = FALSE]
  <2>1. /\ t \in Seq(Message) /\ Len(t) = Len(wire[k])
        /\ \A i \in DOMAIN wire[k] : t[i].kind = wire[k][i].kind /\ t[i].data = wire[k][i].data
        /\ Indexes(t, "request") = Indexes(wire[k], "request")
    BY <1>5, CorruptIndexes
  <2>2. Indexes(t, "preamble") = Indexes(wire[k], "preamble")
    BY <1>5, CorruptIndexes
  <2>3. wire'[k] = t
    BY <1>4
  <2> HIDE DEF t
  <2>4. QED
    BY <2>1, <2>2, <2>3
<1>7. CASE n = k
  <2>1. wire'[Peer(n)] = wire[Peer(n)] /\ Requests(n)' = Requests(n)
    BY <1>1, <1>4, <1>6, <1>7, Ends DEF Requests
  <2>2. Requests(n) \subseteq DOMAIN wire[n]
    BY DEF Requests, Indexes
  <2>3. OnTheWay(n)' /\ Latched(n)'
    BY <1>1, <1>3, <1>6, <1>7, <2>1, <2>2 DEF Direction, Recovery, OnTheWay, Latched, Asking, Preambles, Position
  <2>4. QED
    BY <1>1, <1>3, <2>1, <2>3, RequestsMove
<1>8. CASE k = Peer(n)
  <2>1. /\ Position(n)' = Position(n) /\ wire'[n] = wire[n] /\ Preambles(n)' = Preambles(n)
    BY <1>1, <1>3, <1>4, <1>6, <1>8, Ends DEF Position, Preambles
  <2>2. Delivery(n)' /\ Window(n)'
    BY <1>1, <1>3, <2>1 DEF Direction, Delivery, Window
  <2>3. Recovery(n)'
    BY <1>1, <1>3, <2>1 DEF Direction, Recovery, Asked, OnTheWay, Latched, Answered, Asking,
          Requests
  <2>4. PICK next \in Nat, num \in Seq(Nat) : Reader(n, next) /\ Numbers(n, next, num)
    BY <1>1 DEF Direction, Transit
  <2>5. Reader(n, next)'
    BY <1>3, <2>1, <2>4 DEF Reader
  <2>6. Numbers(n, next, num)'
    <3>1. /\ DOMAIN wire'[Peer(n)] = DOMAIN wire[Peer(n)]
          /\ Len(wire'[Peer(n)]) = Len(wire[Peer(n)])
          /\ \A i \in DOMAIN wire[Peer(n)] :
                /\ wire'[Peer(n)][i].kind = wire[Peer(n)][i].kind
                /\ wire'[Peer(n)][i].data = wire[Peer(n)][i].data
      BY <1>5, <1>6, <1>8, LenProperties
    <3>2. /\ written[Peer(n)] \in Nat /\ Len(wire[Peer(n)]) \in Nat
          /\ written'[Peer(n)] = written[Peer(n)] /\ serving'[Peer(n)] = serving[Peer(n)]
          /\ stalled'[n] = stalled[n] /\ Position(n)' = Position(n)
      BY <1>1, <1>3, <2>1, Ends
    <3>3. written[Peer(n)] <= written'[Peer(n)] /\ written'[Peer(n)] \in Nat
      BY <3>2
    <3>4. QED
      BY <2>4, <3>1, <3>2, <3>3, SameNumbers
  <2>7. QED
    BY <2>2, <2>3, <2>4, <2>5, <2>6 DEF Direction, Transit
<1>9. QED
  BY <1>1, <1>7, <1>8, Ends

-----------------------------------------------------------------------------
(* The whole *)

LEMMA NextIInv ==
    ASSUME Timing, IInv, [Next]_vars
    PROVE  IInv'
<1>1. CASE UNCHANGED vars
  <2>1. UNCHANGED <<written, writing, store, unsent, rdq, serving, remoteReq, localReq,
                    expected, stalled, delivered, wire>>
    BY <1>1 DEF vars, framer, parser
  <2>2. TypeOK'
    BY <2>1 DEF IInv, TypeOK
  <2>3. ASSUME NEW n \in Nodes
        PROVE  Direction(n)'
    <3>1. Direction(n)
      BY DEF IInv
    <3>2. Direction(n)' = Direction(n)
      BY <2>1 DEF Direction, Delivery, Window, Recovery, Asked, OnTheWay, Latched, Answered,
            Asking, Requests, Preambles, Position, Transit, Reader, Numbers, Step, Places
    <3>3. QED
      BY <3>1, <3>2
  <2>4. QED
    BY <2>2, <2>3 DEF IInv
<1>2. ASSUME NEW k \in Nodes, Write(k) \/ Transmit(k)
      PROVE  IInv'
  <2>1. TypeOK'
    BY <1>2, FramerTypes DEF IInv
  <2>2. ASSUME NEW n \in Nodes
        PROVE  Direction(n)'
    BY <1>2, BeginFrameKeeps, EndFrameKeeps, SendFrameKeeps, PatchKeeps, SendPreambleKeeps,
       SendRequestKeeps DEF Write, Transmit
  <2>3. QED
    BY <2>1, <2>2 DEF IInv
<1>3. ASSUME NEW k \in Nodes, Receive(k) \/ Corrupt(k)
      PROVE  IInv'
  <2>1. TypeOK'
    BY <1>3, ParserTypes DEF IInv
  <2>2. ASSUME NEW n \in Nodes, Receive(k)
        PROVE  Direction(n)'
    <3>1. CASE n = k
      BY <2>2, <3>1, DropKeeps, TakePreambleKeeps, AcceptKeeps, RejectKeeps DEF Receive
    <3>2. CASE k = Peer(n)
      BY <2>2, <3>2, PeerTakes
    <3>3. QED
      BY <3>1, <3>2, PeerFacts
  <2>3. ASSUME NEW n \in Nodes, Corrupt(k)
        PROVE  Direction(n)'
    BY <2>3, CorruptKeeps
  <2>4. QED
    BY <1>3, <2>1, <2>2, <2>3 DEF IInv
<1>4. QED
  BY <1>1, <1>2, <1>3 DEF Next

LEMMA Invariance ==
    ASSUME Timing
    PROVE  Spec => []IInv
<1>1. Init => IInv
  BY InitIInv
<1>2. IInv /\ [Next]_vars => IInv'
  BY NextIInv
<1>3. QED
  BY <1>1, <1>2, PTL DEF Spec

\* A slot is sent only when it holds one whole frame: no frame on the wire is put
\* together from two, although the framer writes and reads its replay buffer at the
\* same time and goes back in it.
THEOREM FramesAreWhole ==
    ASSUME Timing
    PROVE  Spec => []NoTornFrame
<1>1. IInv => NoTornFrame
  <2>1. SUFFICES ASSUME IInv, NEW k \in Nodes, NEW i \in DOMAIN wire[k],
                        wire[k][i].kind = "frame"
                 PROVE  wire[k][i].data # Torn
    BY DEF NoTornFrame
  <2>2. PICK n \in Nodes : k = Peer(n)
    BY PeerFacts
  <2>3. PICK next \in Nat, num \in Seq(Nat) : Reader(n, next) /\ Numbers(n, next, num)
    BY <2>1 DEF IInv, Direction, Transit
  <2>4. Step(n, num, i) /\ num[i] \in Nat
    <3>1. i \in Places(n)
      BY <2>1, <2>2, Ends DEF IInv, Places
    <3>2. QED
      BY <2>2, <2>3, <3>1 DEF Numbers
  <2>5. QED
    BY <2>1, <2>2, <2>4 DEF Step, Torn
<1>2. QED
  BY <1>1, Invariance, PTL

\* The link implements the reliable channel: whatever CRC errors hit, what a parser
\* accepts next is the next frame that the other end wrote, and every other step of
\* framers, parsers and wire is a stutter of the channel.
THEOREM ImplementsChannel ==
    ASSUME Timing
    PROVE  Spec => ReliableChannel
<1>1. Init => Channel!Init
  BY DEF Init, Channel!Init
<1>2. IInv /\ [Next]_vars => [Channel!Next]_<<written, delivered>>
  <2>1. SUFFICES ASSUME IInv, Next
                 PROVE  Channel!Next \/ UNCHANGED <<written, delivered>>
    BY DEF vars, framer, parser
  <2>2. PICK k \in Nodes : Write(k) \/ Transmit(k) \/ Receive(k) \/ Corrupt(k)
    BY <2>1 DEF Next
  <2>3. CASE EndFrame(k)
    <3>1. Channel!Write(k)
      BY <2>3 DEF EndFrame, parser, Channel!Write
    <3>2. QED
      BY <3>1 DEF Channel!Next
  <2>4. CASE Accept(k)
    <3>1. Arrives(k) /\ Taken(k) /\ Arrival(k).kind = "frame" /\ ~stalled[k]
      BY <2>4 DEF Accept
    <3>2. PICK next \in Nat, num \in Seq(Nat) : Reader(k, next) /\ Numbers(k, next, num)
      BY <2>1 DEF IInv, Direction, Transit
    <3>3. /\ Arrival(k).data = Len(delivered[k]) + 1
          /\ Len(delivered[k]) < next /\ next <= written[Peer(k)]
      BY <2>1, <3>1, <3>2, NextArrival DEF Position
    <3>4. Len(delivered[k]) \in Nat /\ written[Peer(k)] \in Nat
      BY <2>1, Ends DEF IInv, Position
    <3>5. Channel!Deliver(k)
      BY <2>1, <2>4, <3>3, <3>4 DEF Accept, framer, Channel!Deliver
    <3>6. QED
      BY <3>5 DEF Channel!Next
  <2>5. CASE ~EndFrame(k) /\ ~Accept(k)
    BY <2>2, <2>5 DEF Write, BeginFrame, Transmit, SendFrame, Patch, SendPreamble, SendRequest,
          Receive, Reject, Drop, TakeRequest, TakePreamble, Corrupt, framer, parser
  <2>6. QED
    BY <2>3, <2>4, <2>5
<1>3. QED
  BY <1>1, <1>2, Invariance, PTL DEF Spec, ReliableChannel, Channel!Spec

-----------------------------------------------------------------------------
(* Stalls.  A burst is sent once, so that one of its copies arrives is a   *)
(* matter of counting: a frame was damaged, and each copy that is missing  *)
(* or spoilt is another error.                                             *)

\* The undamaged items of a kind.
Good(s, kind) == {i \in DOMAIN s : s[i].kind = kind /\ s[i].ok}
GoodRequests(n) == Cardinality(Good(wire[n], "request"))
GoodPreambles(n) == Cardinality(Good(wire[Peer(n)], "preamble"))

\* There is no stall and no damage without an error.
Damage ==
    /\ errors \in Nat
    /\ errors = 0 \/ errors <= MaxErrors
    /\ \A n \in Nodes : stalled[n] => errors # 0
    /\ \A n \in Nodes : \A i \in DOMAIN wire[n] : ~wire[n][i].ok => errors # 0

\* Of the burst that is to end a stall more copies are whole than errors could spoil.
Survives(n) ==
    \/ localReq[n] # None
    \/ remoteReq[Peer(n)] # None
    \/ GoodRequests(n) + errors > Copies
    \/ GoodPreambles(n) + errors > Copies

SInv ==
    /\ TypeOK
    /\ Damage
    /\ \A n \in Nodes : stalled[n] => Survives(n)

LEMMA GoodTypes ==
    ASSUME NEW s \in Seq(Message), NEW kind
    PROVE  /\ IsFiniteSet(Good(s, kind))
           /\ Cardinality(Good(s, kind)) \in Nat
<1>1. IsFiniteSet(1 .. Len(s)) /\ DOMAIN s = 1 .. Len(s)
  BY FS_Interval, LenProperties
<1>2. Good(s, kind) \in SUBSET (1 .. Len(s))
  BY <1>1 DEF Good
<1>3. IsFiniteSet(Good(s, kind))
  BY <1>1, <1>2, FS_Subset
<1>4. QED
  BY <1>3, FS_CardinalityType

\* Taking a damaged item or one of another kind loses none.
LEMMA GoodTail ==
    ASSUME NEW s \in Seq(Message), s # <<>>, NEW kind, Head(s).kind # kind \/ ~Head(s).ok
    PROVE  Cardinality(Good(s, kind)) <= Cardinality(Good(Tail(s), kind))
<1> DEFINE P == Good(s, kind)
           Q == Good(Tail(s), kind)
           f == [i \in Q |-> i + 1]
<1>1. /\ Len(s) \in Nat \ {0}
      /\ DOMAIN s = 1 .. Len(s)
      /\ DOMAIN Tail(s) = 1 .. Len(s) - 1
      /\ Head(s) = s[1]
      /\ \A i \in 1 .. Len(s) - 1 : Tail(s)[i] = s[i + 1]
  BY HeadTailProperties, LenProperties, EmptySeq
<1>2. \A i \in 1 .. Len(s) - 1 : i \in Q <=> i + 1 \in P
  BY <1>1 DEF Good
<1>3. Q \subseteq 1 .. Len(s) - 1 /\ P \subseteq 1 .. Len(s) /\ 1 \notin P
  BY <1>1 DEF Good
<1>4. IsFiniteSet(Q)
  BY GoodTypes, HeadTailProperties
<1> HIDE DEF P, Q
<1>5. f \in [Q -> P]
  BY <1>2, <1>3
<1>6. \A j \in P : j - 1 \in Q /\ f[j - 1] = j
  BY <1>1, <1>2, <1>3
<1>7. f \in Surjection(Q, P)
  BY <1>5, <1>6 DEF Surjection
<1>8. Cardinality(P) <= Cardinality(Q)
  BY <1>4, <1>7, FS_Surjection
<1>9. QED
  BY <1>8 DEF P, Q

\* Putting items at the end loses none.
LEMMA GoodConcat ==
    ASSUME NEW s \in Seq(Message), NEW t \in Seq(Message), NEW kind
    PROVE  Cardinality(Good(s, kind)) <= Cardinality(Good(s \o t, kind))
<1>1. /\ DOMAIN s = 1 .. Len(s) /\ Len(s) \in Nat /\ Len(t) \in Nat
      /\ s \o t \in Seq(Message)
      /\ DOMAIN (s \o t) = 1 .. Len(s) + Len(t)
      /\ \A i \in 1 .. Len(s) + Len(t) : (s \o t)[i] = IF i <= Len(s) THEN s[i] ELSE t[i - Len(s)]
  BY ConcatProperties, LenProperties
<1>2. Good(s, kind) \in SUBSET Good(s \o t, kind)
  BY <1>1 DEF Good
<1>3. QED
  BY <1>1, <1>2, GoodTypes, FS_Subset

\* A burst brings its copies.
LEMMA GoodBurst ==
    ASSUME NEW s \in Seq(Message), NEW m \in Message, m.ok
    PROVE  Cardinality(Good(s \o Burst(m), m.kind)) >= Copies
<1> DEFINE t == s \o Burst(m)
           lo == Len(s) + 1
           hi == Len(s) + Copies
<1>1. /\ t \in Seq(Message) /\ Len(s) \in Nat /\ Copies \in Nat \ {0}
      /\ DOMAIN t = 1 .. Len(s) + Copies
      /\ \A i \in 1 .. Len(s) + Copies : t[i] = IF i <= Len(s) THEN s[i] ELSE Burst(m)[i - Len(s)]
  <2>1. Burst(m) \in Seq(Message) /\ Len(Burst(m)) = Copies
    BY BurstItems
  <2>2. /\ s \o Burst(m) \in Seq(Message)
        /\ Len(s \o Burst(m)) = Len(s) + Copies
        /\ \A i \in 1 .. Len(s) + Copies :
              (s \o Burst(m))[i] = IF i <= Len(s) THEN s[i] ELSE Burst(m)[i - Len(s)]
    BY <2>1, ConcatProperties
  <2> HIDE DEF t
  <2>3. QED
    BY <2>2, LenProperties, BurstItems DEF t
<1>2. ASSUME NEW i \in lo .. hi
      PROVE  i \in Good(t, m.kind)
  <2>1. i - Len(s) \in 1 .. Copies /\ i \in 1 .. Len(s) + Copies /\ ~(i <= Len(s))
    BY <1>1
  <2>2. t[i] = m
    BY <1>1, <2>1, BurstItems
  <2> HIDE DEF t
  <2>3. QED
    BY <1>1, <2>1, <2>2 DEF Good
<1>3. lo .. hi \in SUBSET Good(t, m.kind)
  BY <1>2
<1>4. lo \in Int /\ hi \in Int /\ ~(lo > hi) /\ hi - lo + 1 = Copies
  BY <1>1
<1>5. IsFiniteSet(lo .. hi) /\ Cardinality(lo .. hi) = Copies
  BY <1>4, FS_Interval
<1> HIDE DEF t, lo, hi
<1>6. Cardinality(lo .. hi) <= Cardinality(Good(t, m.kind))
  BY <1>1, <1>3, GoodTypes, FS_Subset
<1>7. Cardinality(Good(t, m.kind)) \in Nat
  BY <1>1, GoodTypes
<1>8. QED
  BY <1>1, <1>5, <1>6, <1>7 DEF t

\* An error spoils one at most.
LEMMA GoodCorrupt ==
    ASSUME NEW s \in Seq(Message), NEW x \in DOMAIN s, NEW kind
    PROVE  Cardinality(Good(s, kind)) <= Cardinality(Good([s EXCEPT ![x].ok = FALSE], kind)) + 1
<1> DEFINE t == [s EXCEPT ![x].ok = FALSE]
           P == Good(s, kind)
           Q == Good(t, kind)
<1>1. s \in [DOMAIN s -> Message] /\ t \in Seq(Message)
  BY LenProperties, CorruptIndexes
<1>2. DOMAIN t = DOMAIN s /\ \A i \in DOMAIN s : i # x => t[i] = s[i]
  BY <1>1
<1>3. P \ {x} \in SUBSET Q
  BY <1>2 DEF Good
<1>4. /\ IsFiniteSet(P) /\ IsFiniteSet(Q)
      /\ Cardinality(P) \in Nat /\ Cardinality(Q) \in Nat
  BY <1>1, GoodTypes
<1> HIDE DEF P, Q
<1>5. Cardinality(P \ {x}) <= Cardinality(Q)
  BY <1>3, <1>4, FS_Subset
<1>6. Cardinality(P \ {x}) = IF x \in P THEN Cardinality(P) - 1 ELSE Cardinality(P)
  BY <1>4, FS_RemoveElement
<1>7. QED
  BY <1>4, <1>5, <1>6 DEF P, Q

\* What a framer puts on the wire is whole.
LEMMA SentItems ==
    ASSUME TypeOK, NEW k \in Nodes, Write(k) \/ Transmit(k)
    PROVE  \E t \in Seq(Message) :
              /\ wire' = [wire EXCEPT ![k] = @ \o t]
              /\ \A i \in DOMAIN t : t[i].ok
<1>1. wire[k] \in Seq(Message)
  BY DEF TypeOK
<1>2. CASE SendFrame(k)
  <2>1. PICK id \in unsent[k] : wire' = [wire EXCEPT ![k] = Append(@, Frame(store[k][id]))]
    BY <1>2 DEF SendFrame
  <2> DEFINE m == Frame(store[k][id])
  <2>2. m \in Message /\ m.ok
    <3>1. store[k][id] \in Nat
      BY DEF TypeOK
    <3>2. QED
      BY <3>1, MessageTypes DEF Frame
  <2> HIDE DEF m
  <2>3. <<m>> \in Seq(Message) /\ \A i \in DOMAIN <<m>> : <<m>>[i].ok
    BY <2>2
  <2>4. Append(wire[k], m) = wire[k] \o <<m>>
    BY <1>1, <2>2, AppendIsConcat
  <2>5. QED
    BY <2>1, <2>3, <2>4 DEF m
<1>3. ASSUME NEW m \in Message, m.ok, wire' = [wire EXCEPT ![k] = @ \o Burst(m)]
      PROVE  \E t \in Seq(Message) :
                /\ wire' = [wire EXCEPT ![k] = @ \o t]
                /\ \A i \in DOMAIN t : t[i].ok
  <2>1. Burst(m) \in Seq(Message) /\ \A i \in DOMAIN Burst(m) : Burst(m)[i].ok
    BY <1>3, BurstItems, LenProperties
  <2>2. QED
    BY <1>3, <2>1
<1>4. CASE SendPreamble(k)
  <2>1. wire' = [wire EXCEPT ![k] = @ \o Burst(Preamble)]
    BY <1>4 DEF SendPreamble
  <2>2. Preamble \in Message /\ Preamble.ok
    BY MessageTypes DEF Preamble
  <2>3. QED
    BY <1>3, <2>1, <2>2
<1>5. CASE SendRequest(k)
  <2>1. localReq[k] \in Nat
    BY <1>5 DEF SendRequest, TypeOK
  <2> DEFINE m == Request(localReq[k])
  <2>2. m \in Message /\ m.ok
    BY <2>1, MessageTypes DEF Request
  <2>3. wire' = [wire EXCEPT ![k] = @ \o Burst(m)]
    BY <1>5 DEF SendRequest
  <2> HIDE DEF m
  <2>4. QED
    BY <1>3, <2>2, <2>3
<1>6. CASE BeginFrame(k) \/ EndFrame(k) \/ Patch(k)
  <2>1. wire' = wire
    BY <1>6 DEF BeginFrame, EndFrame, Patch
  <2>2. wire[k] \o <<>> = wire[k] /\ <<>> \in Seq(Message)
    BY <1>1, ConcatEmptySeq
  <2> DEFINE t == <<>>
  <2>3. wire' = [wire EXCEPT ![k] = @ \o t]
    BY <2>1, <2>2 DEF TypeOK
  <2>4. t \in Seq(Message) /\ \A i \in DOMAIN t : t[i].ok
    BY <2>2
  <2> HIDE DEF t
  <2>5. QED
    BY <2>3, <2>4
<1>7. QED
  BY <1>2, <1>4, <1>5, <1>6 DEF Write, Transmit

\* So a framer spoils nothing, and takes no whole item from the wire.
LEMMA FramerSpares ==
    ASSUME TypeOK, Damage, NEW k \in Nodes, Write(k) \/ Transmit(k)
    PROVE  /\ errors' = errors /\ stalled' = stalled
           /\ \A n \in Nodes : \A i \in DOMAIN wire'[n] : ~wire'[n][i].ok => errors # 0
           /\ \A n \in Nodes, kind \in {"request", "preamble"} :
                 Cardinality(Good(wire[n], kind)) <= Cardinality(Good(wire'[n], kind))
<1>1. errors' = errors /\ stalled' = stalled
  BY DEF Write, Transmit, BeginFrame, EndFrame, SendFrame, Patch, SendPreamble, SendRequest, parser
<1>2. PICK t \in Seq(Message) :
         wire' = [wire EXCEPT ![k] = @ \o t] /\ \A i \in DOMAIN t : t[i].ok
  BY SentItems
<1>3. ASSUME NEW n \in Nodes
      PROVE  wire[n] \in Seq(Message) /\ wire'[n] = IF n = k THEN wire[n] \o t ELSE wire[n]
  BY <1>2 DEF TypeOK
<1>4. ASSUME NEW n \in Nodes, NEW i \in DOMAIN wire'[n], ~wire'[n][i].ok
      PROVE  errors # 0
  <2>1. CASE n # k
    BY <1>3, <1>4, <2>1 DEF Damage
  <2>2. CASE n = k
    <3>1. /\ DOMAIN (wire[n] \o t) = 1 .. Len(wire[n]) + Len(t)
          /\ DOMAIN wire[n] = 1 .. Len(wire[n]) /\ DOMAIN t = 1 .. Len(t)
          /\ Len(wire[n]) \in Nat /\ Len(t) \in Nat
          /\ \A j \in 1 .. Len(wire[n]) + Len(t) :
                (wire[n] \o t)[j] = IF j <= Len(wire[n]) THEN wire[n][j] ELSE t[j - Len(wire[n])]
      BY <1>3, ConcatProperties, LenProperties
    <3>2. i \in 1 .. Len(wire[n]) + Len(t) /\ ~(wire[n] \o t)[i].ok
      BY <1>3, <1>4, <2>2, <3>1
    <3>3. i <= Len(wire[n])
      <4>1. ASSUME ~(i <= Len(wire[n]))
            PROVE  FALSE
        <5>1. i - Len(wire[n]) \in DOMAIN t
          BY <3>1, <3>2, <4>1
        <5>2. QED
          BY <1>2, <3>1, <3>2, <4>1, <5>1
      <4>2. QED
        BY <4>1
    <3>4. i \in DOMAIN wire[n] /\ ~wire[n][i].ok
      BY <3>1, <3>2, <3>3
    <3>5. QED
      BY <3>4 DEF Damage
  <2>3. QED
    BY <2>1, <2>2
<1>5. ASSUME NEW n \in Nodes, NEW kind \in {"request", "preamble"}
      PROVE  Cardinality(Good(wire[n], kind)) <= Cardinality(Good(wire'[n], kind))
  <2>1. CASE n = k
    BY <1>3, <2>1, GoodConcat
  <2>2. CASE n # k
    BY <1>3, <2>2, GoodTypes
  <2>3. QED
    BY <2>1, <2>2
<1>6. QED
  BY <1>1, <1>4, <1>5

\* A parser takes one whole item from the wire at most, of the kind that arrived.
LEMMA ParserSpares ==
    ASSUME TypeOK, Damage, NEW k \in Nodes, Receive(k)
    PROVE  /\ errors' = errors
           /\ \A n \in Nodes : \A i \in DOMAIN wire'[n] : ~wire'[n][i].ok => errors # 0
           /\ ~Arrival(k).ok => errors # 0
           /\ \A n \in Nodes, kind \in {"request", "preamble"} :
                 n # Peer(k) \/ Arrival(k).kind # kind \/ ~Arrival(k).ok =>
                 Cardinality(Good(wire[n], kind)) <= Cardinality(Good(wire'[n], kind))
<1>1. Arrives(k) /\ Taken(k) /\ errors' = errors
  BY DEF Receive, Accept, Reject, Drop, TakeRequest, TakePreamble
<1>2. /\ wire[Peer(k)] \in Seq(Message) /\ wire[Peer(k)] # <<>>
      /\ Arrival(k) = Head(wire[Peer(k)]) /\ Arrival(k) = wire[Peer(k)][1]
      /\ wire'[Peer(k)] = Tail(wire[Peer(k)])
      /\ wire'[k] = wire[k]
  BY <1>1, ArrivalTypes
<1>3. /\ DOMAIN wire[Peer(k)] = 1 .. Len(wire[Peer(k)]) /\ Len(wire[Peer(k)]) \in Nat \ {0}
      /\ DOMAIN Tail(wire[Peer(k)]) = 1 .. Len(wire[Peer(k)]) - 1
      /\ \A i \in 1 .. Len(wire[Peer(k)]) - 1 : Tail(wire[Peer(k)])[i] = wire[Peer(k)][i + 1]
  BY <1>2, HeadTailProperties, LenProperties, EmptySeq
<1>4. Peer(k) \in Nodes
  BY PeerFacts
<1>5. ASSUME NEW n \in Nodes, NEW i \in DOMAIN wire'[n], ~wire'[n][i].ok
      PROVE  errors # 0
  <2>1. CASE n = k
    BY <1>2, <1>5, <2>1 DEF Damage
  <2>2. CASE n = Peer(k)
    <3>1. i \in 1 .. Len(wire[n]) - 1 /\ ~Tail(wire[n])[i].ok
      BY <1>2, <1>3, <1>5, <2>2
    <3>2. i + 1 \in DOMAIN wire[n] /\ ~wire[n][i + 1].ok
      BY <1>3, <2>2, <3>1
    <3>3. QED
      BY <3>2 DEF Damage
  <2>3. QED
    BY <2>1, <2>2, PeerFacts
<1>6. ~Arrival(k).ok => errors # 0
  BY <1>2, <1>3, <1>4 DEF Damage
<1>7. ASSUME NEW n \in Nodes, NEW kind \in {"request", "preamble"},
             n # Peer(k) \/ Arrival(k).kind # kind \/ ~Arrival(k).ok
      PROVE  Cardinality(Good(wire[n], kind)) <= Cardinality(Good(wire'[n], kind))
  <2>1. CASE n = Peer(k)
    BY <1>2, <1>7, <2>1, GoodTail
  <2>2. CASE n # Peer(k)
    <3>1. n = k /\ wire[n] \in Seq(Message)
      BY <2>2, PeerFacts DEF TypeOK
    <3>2. QED
      BY <1>2, <3>1, GoodTypes
  <2>3. QED
    BY <2>1, <2>2
<1>8. QED
  BY <1>1, <1>5, <1>6, <1>7

\* A whole burst is put on the wire before what it carries is forgotten.
LEMMA FramerSurvives ==
    ASSUME SInv, NEW k \in Nodes, Write(k) \/ Transmit(k), NEW n \in Nodes, stalled'[n]
    PROVE  Survives(n)'
<1> DEFINE r == GoodRequests(n)
           q == GoodPreambles(n)
           R == Cardinality(Good(wire[n], "request"))
           Q == Cardinality(Good(wire[Peer(n)], "preamble"))
           R1 == Cardinality(Good(wire'[n], "request"))
           Q1 == Cardinality(Good(wire'[Peer(n)], "preamble"))
<1>1. /\ TypeOK /\ Damage /\ TypeOK'
      /\ Peer(n) \in Nodes /\ Peer(n) # n /\ (k = n \/ k = Peer(n))
  BY FramerTypes, PeerFacts DEF SInv
<1>2. errors' = errors /\ stalled' = stalled
  BY <1>1, FramerSpares
<1>3. stalled[n] /\ Survives(n) /\ errors \in Nat \ {0} /\ Copies \in Nat \ {0}
  BY <1>1, <1>2, LinkAssumption DEF SInv, Damage
<1>4. r = R /\ q = Q /\ r' = R1 /\ q' = Q1
  BY DEF GoodRequests, GoodPreambles, Good
<1>5. R \in Nat /\ Q \in Nat /\ R1 \in Nat /\ Q1 \in Nat
  <2>1. /\ wire[n] \in Seq(Message) /\ wire[Peer(n)] \in Seq(Message)
        /\ wire'[n] \in Seq(Message) /\ wire'[Peer(n)] \in Seq(Message)
    BY <1>1 DEF TypeOK
  <2>2. QED
    BY <2>1, GoodTypes
<1>6. R <= R1 /\ Q <= Q1
  BY <1>1, FramerSpares
<1>7. CASE localReq[n] # None
  <2>1. CASE localReq'[n] # None
    BY <2>1 DEF Survives
  <2>2. CASE localReq'[n] = None
    <3>1. k = n /\ SendRequest(n)
      BY <1>1, <1>7, <2>2 DEF TypeOK, Write, Transmit, BeginFrame, EndFrame, SendFrame, Patch,
         SendPreamble, SendRequest
    <3> DEFINE m == Request(localReq[n])
    <3>2. localReq[n] \in Nat
      BY <1>1, <1>7 DEF TypeOK
    <3>3. m \in Message /\ m.kind = "request" /\ m.ok
      BY <3>2, MessageTypes DEF Request
    <3>4. wire[n] \in Seq(Message) /\ wire'[n] = wire[n] \o Burst(m)
      BY <1>1, <3>1 DEF TypeOK, SendRequest
    <3> HIDE DEF m
    <3>5. Cardinality(Good(wire'[n], "request")) >= Copies
      BY <3>3, <3>4, GoodBurst
    <3> HIDE DEF r, R1
    <3>6. r' = R1 /\ R1 >= Copies
      BY <1>4, <3>5 DEF R1
    <3>7. r' + errors' > Copies
      BY <1>2, <1>3, <1>5, <3>6
    <3>8. QED
      BY <3>7 DEF Survives, r
  <2>3. QED
    BY <2>1, <2>2
<1>8. CASE remoteReq[Peer(n)] # None
  <2>1. CASE remoteReq'[Peer(n)] # None
    BY <2>1 DEF Survives
  <2>2. CASE remoteReq'[Peer(n)] = None
    <3>1. k = Peer(n) /\ SendPreamble(k)
      BY <1>1, <1>8, <2>2, ZenonT(60) DEF TypeOK, Write, Transmit, BeginFrame, EndFrame, SendFrame, Patch,
         SendPreamble, SendRequest
    <3>2. wire[k] \in Seq(Message) /\ wire'[k] = wire[k] \o Burst(Preamble)
      BY <1>1, <3>1, ZenonT(60) DEF TypeOK, SendPreamble
    <3>3. Preamble \in Message /\ Preamble.kind = "preamble" /\ Preamble.ok
      BY MessageTypes DEF Preamble
    <3>4. Cardinality(Good(wire'[k], "preamble")) >= Copies
      BY <3>2, <3>3, GoodBurst
    <3> HIDE DEF q, Q1
    <3>5. q' = Q1 /\ Q1 >= Copies
      BY <1>4, <3>1, <3>4 DEF Q1
    <3>6. q' + errors' > Copies
      BY <1>2, <1>3, <1>5, <3>5
    <3>7. QED
      BY <3>6 DEF Survives, q
  <2>3. QED
    BY <2>1, <2>2
<1>9. CASE r + errors > Copies \/ q + errors > Copies
  <2> HIDE DEF r, q, R, Q, R1, Q1
  <2>1. r' + errors' > Copies \/ q' + errors' > Copies
    BY <1>2, <1>3, <1>4, <1>5, <1>6, <1>9
  <2>2. QED
    BY <2>1 DEF Survives, r, q
<1>10. QED
  BY <1>3, <1>7, <1>8, <1>9 DEF Survives

\* A request is latched by the one that takes it, a preamble ends the stall, and
\* whatever else arrives is no copy that counts.
LEMMA ParserSurvives ==
    ASSUME SInv, NEW k \in Nodes, Receive(k), NEW n \in Nodes, stalled'[n]
    PROVE  Survives(n)'
<1> DEFINE r == GoodRequests(n)
           q == GoodPreambles(n)
           R == Cardinality(Good(wire[n], "request"))
           Q == Cardinality(Good(wire[Peer(n)], "preamble"))
           R1 == Cardinality(Good(wire'[n], "request"))
           Q1 == Cardinality(Good(wire'[Peer(n)], "preamble"))
<1>1. /\ TypeOK /\ Damage /\ TypeOK'
      /\ Peer(n) \in Nodes /\ Peer(n) # n /\ Peer(Peer(n)) = n /\ (k = n \/ k = Peer(n))
  BY ParserTypes, PeerFacts DEF SInv
<1>2. errors' = errors /\ errors \in Nat /\ Copies \in Nat \ {0}
  BY <1>1, ParserSpares, LinkAssumption DEF Damage
<1>3. r = R /\ q = Q /\ r' = R1 /\ q' = Q1
  BY DEF GoodRequests, GoodPreambles, Good
<1>4. R \in Nat /\ Q \in Nat /\ R1 \in Nat /\ Q1 \in Nat
  <2>1. /\ wire[n] \in Seq(Message) /\ wire[Peer(n)] \in Seq(Message)
        /\ wire'[n] \in Seq(Message) /\ wire'[Peer(n)] \in Seq(Message)
    BY <1>1 DEF TypeOK
  <2>2. QED
    BY <2>1, GoodTypes
<1>5. /\ n # Peer(k) \/ Arrival(k).kind # "request" \/ ~Arrival(k).ok => R <= R1
      /\ Peer(n) # Peer(k) \/ Arrival(k).kind # "preamble" \/ ~Arrival(k).ok => Q <= Q1
  BY <1>1, ParserSpares
<1> HIDE DEF r, q, R, Q, R1, Q1
<1>6. ASSUME Survives(n), localReq[n] # None => localReq'[n] # None,
             remoteReq[Peer(n)] # None => remoteReq'[Peer(n)] # None,
             R <= R1, Q <= Q1
      PROVE  Survives(n)'
  <2>1. \/ localReq'[n] # None
        \/ remoteReq'[Peer(n)] # None
        \/ r + errors > Copies
        \/ q + errors > Copies
    BY <1>6 DEF Survives, r, q
  <2>2. r' >= r /\ q' >= q
    BY <1>3, <1>4, <1>6
  <2>3. \/ localReq'[n] # None
        \/ remoteReq'[Peer(n)] # None
        \/ r' + errors' > Copies
        \/ q' + errors' > Copies
    BY <1>2, <1>3, <1>4, <2>1, <2>2
  <2>4. QED
    BY <2>3 DEF Survives, r, q
<1>7. CASE k = n
  <2>1. CASE Accept(k) \/ TakePreamble(k)
    BY <1>1, <1>7, <2>1 DEF Accept, TakePreamble, TypeOK
  <2>2. CASE Reject(k)
    <3>1. localReq'[n] # None
      BY <1>1, <1>7, <2>2 DEF Reject, TypeOK, None
    <3>2. QED
      BY <3>1 DEF Survives
  <2>3. CASE Drop(k) \/ TakeRequest(k)
    <3>1. /\ stalled' = stalled /\ localReq' = localReq
          /\ remoteReq'[Peer(n)] = remoteReq[Peer(n)]
          /\ Arrival(k).kind # "preamble" \/ ~Arrival(k).ok
      BY <1>1, <1>7, <2>3 DEF Drop, TakeRequest, TypeOK, framer, parser
    <3>2. R <= R1 /\ Q <= Q1
      BY <1>1, <1>5, <1>7, <3>1
    <3>3. QED
      BY <1>6, <3>1, <3>2 DEF SInv
  <2>4. QED
    BY <2>1, <2>2, <2>3 DEF Receive
<1>8. CASE k = Peer(n)
  <2>1. stalled[n] /\ Survives(n) /\ Q <= Q1 /\ localReq'[n] = localReq[n]
    <3>1. stalled[n] /\ localReq'[n] = localReq[n]
      BY <1>1, <1>8, ZenonT(60) DEF Receive, Accept, Reject, Drop, TakeRequest, TakePreamble, framer, parser,
         TypeOK
    <3>2. QED
      BY <1>1, <1>5, <1>8, <3>1 DEF SInv
  <2>2. CASE TakeRequest(k)
    <3>1. Arrival(k).data \in Nat
      BY <1>1, <2>2, ArrivalTypes DEF TakeRequest, Message
    <3>2. remoteReq'[Peer(n)] # None
      BY <1>1, <1>8, <2>2, <3>1, SMTT(30) DEF TakeRequest, TypeOK, None
    <3>3. QED
      BY <3>2 DEF Survives
  <2>3. CASE ~TakeRequest(k)
    <3>1. /\ remoteReq' = remoteReq
          /\ Arrival(k).kind # "request" \/ ~Arrival(k).ok
      BY <2>3 DEF Receive, Accept, Reject, Drop, TakePreamble, framer
    <3>2. R <= R1
      BY <1>5, <3>1
    <3>3. QED
      BY <1>6, <2>1, <3>1, <3>2
  <2>4. QED
    BY <2>2, <2>3
<1>9. QED
  BY <1>1, <1>7, <1>8

\* An error spoils one copy, and is counted.
LEMMA CorruptSurvives ==
    ASSUME SInv, NEW k \in Nodes, Corrupt(k), NEW n \in Nodes, stalled'[n]
    PROVE  Survives(n)'
<1> DEFINE r == GoodRequests(n)
           q == GoodPreambles(n)
           R == Cardinality(Good(wire[n], "request"))
           Q == Cardinality(Good(wire[Peer(n)], "preamble"))
           R1 == Cardinality(Good(wire'[n], "request"))
           Q1 == Cardinality(Good(wire'[Peer(n)], "preamble"))
<1>1. /\ TypeOK /\ Damage /\ TypeOK' /\ Peer(n) \in Nodes /\ Copies \in Nat
  BY ParserTypes, PeerFacts, LinkAssumption DEF SInv
<1>2. /\ errors' = errors + 1 /\ errors \in Nat
      /\ stalled' = stalled /\ localReq' = localReq /\ remoteReq' = remoteReq
  BY <1>1 DEF Corrupt, Damage, framer, parser
<1>3. Survives(n)
  BY <1>2 DEF SInv
<1>4. PICK x \in DOMAIN wire[k] : wire' = [wire EXCEPT ![k][x].ok = FALSE]
  BY DEF Corrupt
<1>5. r = R /\ q = Q /\ r' = R1 /\ q' = Q1
  BY DEF GoodRequests, GoodPreambles, Good
<1>6. /\ wire[n] \in Seq(Message) /\ wire[Peer(n)] \in Seq(Message)
      /\ wire'[n] \in Seq(Message) /\ wire'[Peer(n)] \in Seq(Message)
  BY <1>1 DEF TypeOK
<1>7. R \in Nat /\ Q \in Nat /\ R1 \in Nat /\ Q1 \in Nat
  BY <1>6, GoodTypes
<1>8. ASSUME NEW l \in Nodes, NEW kind \in {"request", "preamble"}
      PROVE  Cardinality(Good(wire[l], kind)) <= Cardinality(Good(wire'[l], kind)) + 1
  <2>1. wire[l] \in Seq(Message)
    BY <1>1 DEF TypeOK
  <2>2. CASE l = k
    <3>1. wire'[l] = [wire[l] EXCEPT ![x].ok = FALSE]
      BY <1>1, <1>4, <2>2 DEF TypeOK
    <3>2. QED
      BY <1>4, <2>1, <2>2, <3>1, GoodCorrupt
  <2>3. CASE l # k
    <3>1. wire'[l] = wire[l]
      BY <1>1, <1>4, <2>3 DEF TypeOK
    <3>2. QED
      BY <2>1, <3>1, GoodTypes
  <2>4. QED
    BY <2>2, <2>3
<1>9. R <= R1 + 1 /\ Q <= Q1 + 1
  BY <1>1, <1>8
<1> HIDE DEF r, q, R, Q, R1, Q1
<1>10. /\ r + errors > Copies => r' + errors' > Copies
       /\ q + errors > Copies => q' + errors' > Copies
  BY <1>1, <1>2, <1>5, <1>7, <1>9
<1>11. QED
  BY <1>2, <1>3, <1>10 DEF Survives, r, q

LEMMA NextSInv ==
    ASSUME SInv, [Next]_vars, MaxErrors \in Nat
    PROVE  SInv'
<1>1. CASE UNCHANGED vars
  <2>1. Damage' /\ TypeOK'
    BY <1>1 DEF SInv, TypeOK, Damage, vars, framer, parser
  <2>2. \A n \in Nodes : Survives(n)' = Survives(n)
    BY <1>1 DEF Survives, GoodRequests, GoodPreambles, vars, framer
  <2>3. QED
    BY <1>1, <2>1, <2>2 DEF SInv, vars, parser
<1>2. ASSUME NEW k \in Nodes, Write(k) \/ Transmit(k)
      PROVE  SInv'
  <2>1. TypeOK'
    BY <1>2, FramerTypes DEF SInv
  <2>2. Damage'
    BY <1>2, FramerSpares DEF SInv, Damage
  <2>3. \A n \in Nodes : stalled'[n] => Survives(n)'
    BY <1>2, FramerSurvives
  <2>4. QED
    BY <2>1, <2>2, <2>3 DEF SInv
<1>3. ASSUME NEW k \in Nodes, Receive(k)
      PROVE  SInv'
  <2>1. TypeOK'
    BY <1>3, ParserTypes DEF SInv
  <2>2. Damage'
    <3>1. \A n \in Nodes : stalled'[n] => stalled[n] \/ ~Arrival(k).ok
      BY <1>3 DEF SInv, TypeOK, Receive, Accept, Reject, Drop, TakeRequest, TakePreamble, parser
    <3>2. QED
      BY <1>3, <3>1, ParserSpares DEF SInv, Damage
  <2>3. \A n \in Nodes : stalled'[n] => Survives(n)'
    BY <1>3, ParserSurvives
  <2>4. QED
    BY <2>1, <2>2, <2>3 DEF SInv
<1>4. ASSUME NEW k \in Nodes, Corrupt(k)
      PROVE  SInv'
  <2>1. TypeOK'
    BY <1>4, ParserTypes DEF SInv
  <2>2. Damage'
    BY <1>4 DEF SInv, Damage, Corrupt
  <2>3. \A n \in Nodes : stalled'[n] => Survives(n)'
    BY <1>4, CorruptSurvives
  <2>4. QED
    BY <2>1, <2>2, <2>3 DEF SInv
<1>5. QED
  BY <1>1, <1>2, <1>3, <1>4 DEF Next

\* A parser that has stalled is never left waiting for a preamble that nobody is going
\* to send: although a burst is sent only once, and may be spoilt in part, the request
\* or its answer is still in a latch or whole on the wire, as long as there are no more
\* errors than copies: the first error is the one that caused the stall.
THEOREM StallsAreAnswered ==
    ASSUME MaxErrors \in Nat, MaxErrors <= Copies
    PROVE  Spec => []StallIsAnswered
<1>1. Init => SInv
  <2>1. SUFFICES ASSUME Init
                 PROVE  SInv
    OBVIOUS
  <2>2. TypeOK
    BY <2>1, InitIInv DEF IInv
  <2>3. /\ errors = 0
        /\ \A n \in Nodes : ~stalled[n] /\ wire[n] = <<>>
    BY <2>1 DEF Init
  <2>4. Damage
    BY <2>3 DEF Damage
  <2>5. QED
    BY <2>2, <2>3, <2>4 DEF SInv
<1>2. SInv /\ [Next]_vars => SInv'
  BY NextSInv
<1>3. SInv => StallIsAnswered
  <2>1. SUFFICES ASSUME SInv, NEW n \in Nodes, stalled[n]
                 PROVE  \/ localReq[n] # None
                        \/ \E i \in DOMAIN wire[n] : wire[n][i].kind = "request" /\ wire[n][i].ok
                        \/ remoteReq[Peer(n)] # None
                        \/ \E i \in DOMAIN wire[Peer(n)] :
                              wire[Peer(n)][i].kind = "preamble" /\ wire[Peer(n)][i].ok
    BY DEF StallIsAnswered
  <2>2. /\ wire[n] \in Seq(Message) /\ wire[Peer(n)] \in Seq(Message)
        /\ errors \in Nat /\ errors <= Copies /\ Copies \in Nat
    BY <2>1, PeerFacts, LinkAssumption DEF SInv, TypeOK, Damage
  <2>3. GoodRequests(n) \in Nat /\ GoodPreambles(n) \in Nat
    BY <2>2, GoodTypes DEF GoodRequests, GoodPreambles
  <2>4. \/ localReq[n] # None \/ remoteReq[Peer(n)] # None
        \/ GoodRequests(n) # 0 \/ GoodPreambles(n) # 0
    BY <2>1, <2>2, <2>3 DEF SInv, Survives
  <2>5. GoodRequests(n) # 0 =>
          \E i \in DOMAIN wire[n] : wire[n][i].kind = "request" /\ wire[n][i].ok
    <3>1. GoodRequests(n) # 0 => Good(wire[n], "request") # {}
      BY FS_EmptySet DEF GoodRequests
    <3>2. QED
      BY <3>1 DEF Good
  <2>6. GoodPreambles(n) # 0 =>
          \E i \in DOMAIN wire[Peer(n)] :
             wire[Peer(n)][i].kind = "preamble" /\ wire[Peer(n)][i].ok
    <3>1. GoodPreambles(n) # 0 => Good(wire[Peer(n)], "preamble") # {}
      BY FS_EmptySet DEF GoodPreambles
    <3>2. QED
      BY <3>1 DEF Good
  <2>7. QED
    BY <2>4, <2>5, <2>6
<1>4. QED
  BY <1>1, <1>2, <1>3, PTL DEF Spec

=============================================================================
