---------------------------- MODULE RoutingProofs ----------------------------
(***************************************************************************)
(* Proofs about Routing, for any port bits, depth of the links and number  *)
(* of packets: the arbiter is fair to both links, packets leave the        *)
(* ingress whole, and each link is a channel of packets.                   *)
(*                                                                         *)
(* Fairness.  A round begins with port 0 if it has a command.  So what is  *)
(* left of a round is port 1 or nothing: port 0 is passed by the second    *)
(* half of a round and then begins the next one, port 1 is passed by the   *)
(* first half and then is all that is left.                                *)
(*                                                                         *)
(* Packets.  The flits of a link have places in one order (Succ), given by *)
(* the opcodes that the egress accepted.  The registers of a port hold a   *)
(* range of places (Bank) and a queue holds a path of them (Path), each    *)
(* beginning where the next one ends, from what the ingress takes next to  *)
(* what the egress loads next.  Behind the state machine of the output,    *)
(* where both links meet, an item continues the packet of one link or      *)
(* begins one (Continues, Stream).  Paths and streams say that a numbering *)
(* of the queue exists, so that sending appends to it and taking cuts it.  *)
(***************************************************************************)
EXTENDS Routing, SequenceTheorems, TLAPS

\* What is left of a round is port 1, which has a command waiting.
Rounds == mask \in {{}, {1}} /\ mask \subseteq Requests

\* A port that was passed has a command waiting, and goes next.
Turns ==
    /\ passed \in [Ports -> {0, 1}]
    /\ \A p \in Ports : passed[p] = 1 => ireg[p][0] # NoFlit
    /\ passed[0] = 1 => mask = {}
    /\ passed[1] = 1 => mask = {1}

IInv == unreset => Rounds /\ Turns

\* Who is selected: in a new round port 0 before port 1.
LEMMA Selection ==
    ASSUME Rounds
    PROVE  /\ Selected = IF mask = {1} THEN {1}
                         ELSE IF ireg[0][0] # NoFlit THEN {0}
                         ELSE IF ireg[1][0] # NoFlit THEN {1} ELSE {}
           /\ 0 \in Requests <=> ireg[0][0] # NoFlit
           /\ 1 \in Requests <=> ireg[1][0] # NoFlit
           /\ Requests \subseteq {0, 1}
<1>1. /\ 0 \in Requests <=> ireg[0][0] # NoFlit
      /\ 1 \in Requests <=> ireg[1][0] # NoFlit
      /\ Requests \subseteq {0, 1}
  BY DEF Requests, Ports
<1>2. Lowest({1}) = {1} /\ Lowest({}) = {}
  BY DEF Lowest
<1>3. ASSUME NEW s \in SUBSET {0, 1}, 0 \in s
      PROVE  Lowest(s) = {0}
  <2>1. 0 <= 0 /\ 0 <= 1 /\ ~(1 <= 0)
    OBVIOUS
  <2>2. \A q \in s : 0 <= q
    BY <1>3, <2>1
  <2>3. \A p \in Lowest(s) : p = 0
    BY <1>3, <2>1 DEF Lowest
  <2>4. 0 \in Lowest(s)
    BY <1>3, <2>2 DEF Lowest
  <2>5. QED
    BY <2>3, <2>4
<1>4. CASE mask = {1}
  BY <1>1, <1>2, <1>4 DEF Selected
<1>5. CASE mask = {}
  <2>1. CASE 0 \in Requests
    BY <1>1, <1>3, <1>5, <2>1 DEF Selected
  <2>2. CASE 0 \notin Requests
    <3>1. Requests = {} \/ Requests = {1}
      BY <1>1, <2>2
    <3>2. QED
      BY <1>1, <1>2, <1>5, <2>2, <3>1 DEF Selected
  <2>3. QED
    BY <2>1, <2>2
<1>6. QED
  BY <1>4, <1>5 DEF Rounds

\* A command register that is waiting and does not move keeps its command.
LEMMA Waiting ==
    ASSUME NEW arrived, NEW take, IngressCycle(arrived, take),
           NEW p \in Ports, ireg[p][0] # NoFlit, ~CmdMoves(p)
    PROVE  ireg'[p][0] = ireg[p][0]
<1>1. ~IngressFree(p, 0)
  BY DEF IngressFree, Consumed
<1>2. 0 \in Parts
  BY DEF Parts
<1>3. ireg' = [q \in Ports |-> [j \in Parts |->
         IF (q \in arrived /\ link[q] # <<>> /\ IngressFree(q, insm[q])) /\ insm[q] = j
         THEN Arrived(q, Head(link[q]))
         ELSE IF Consumed(q, j) THEN NoFlit ELSE ireg[q][j]]]
  BY DEF IngressCycle
<1>4. ~Consumed(p, 0)
  BY DEF Consumed
<1>5. ireg'[p][0] =
         IF (p \in arrived /\ link[p] # <<>> /\ IngressFree(p, insm[p])) /\ insm[p] = 0
         THEN Arrived(p, Head(link[p]))
         ELSE IF Consumed(p, 0) THEN NoFlit ELSE ireg[p][0]
  BY <1>2, <1>3
<1>6. QED
  BY <1>1, <1>4, <1>5

LEMMA IngressStep ==
    ASSUME unreset, Rounds, Turns, NEW arrived, NEW take, IngressCycle(arrived, take)
    PROVE  (Rounds /\ Turns)'
<1> DEFINE decided == \E p \in Ports : CmdMoves(p)
<1>1. mask' = IF decided THEN NextMask ELSE mask
  BY DEF IngressCycle
<1>2. passed' = [p \in Ports |->
         IF CmdMoves(p) \/ ireg[p][0] = NoFlit THEN 0
         ELSE IF decided THEN passed[p] + 1 ELSE passed[p]]
  BY DEF IngressCycle
<1>3. \A p \in Ports : CmdMoves(p) => Selected = {p} /\ ireg[p][0] # NoFlit
  BY DEF CmdMoves
<1>4. \A p \in Ports : ireg[p][0] # NoFlit /\ ~CmdMoves(p) => ireg'[p][0] # NoFlit
  BY Waiting
<1>5. 0 \in Ports /\ 1 \in Ports /\ \A p \in Ports : p \in {0, 1}
  BY DEF Ports
<1>6. passed[0] \in {0, 1} /\ passed[1] \in {0, 1}
  BY <1>5 DEF Turns
<1>r. (1 \in Requests)' <=> ireg'[1][0] # NoFlit
  BY <1>5 DEF Requests
<1>q. \A q \in {0, 1} : q \in Requests <=> ireg[q][0] # NoFlit
  BY Selection
<1>p. \A p \in Ports : passed'[p] # 0 => ireg[p][0] # NoFlit /\ ~CmdMoves(p)
  BY <1>2
<1>w. \A p \in Ports : passed'[p] = 1 => ireg'[p][0] # NoFlit
  BY <1>p, <1>4
<1>7. CASE ~decided
  <2>1. mask' = mask
    BY <1>1, <1>7
  <2>2. \A p \in Ports : passed'[p] = IF ireg[p][0] = NoFlit THEN 0 ELSE passed[p]
    BY <1>2, <1>7
  <2>3. ~CmdMoves(1)
    BY <1>5, <1>7
  <2>4. mask = {1} => ireg'[1][0] # NoFlit
    BY <2>3, <1>4, <1>5, <1>q DEF Rounds
  <2>5. Rounds'
    BY <2>1, <2>4, <1>r DEF Rounds
  <2>6. passed' \in [Ports -> {0, 1}]
    BY <1>2, <1>5, <1>6, <1>7
  <2>7. QED
    BY <2>1, <2>2, <2>5, <2>6, <1>5, <1>w DEF Turns
<1>8. CASE CmdMoves(0)
  <2>1. Selected = {0} /\ ireg[0][0] # NoFlit
    BY <1>3, <1>5, <1>8
  <2>2. mask = {}
    BY <2>1, Selection DEF Rounds
  <2>3. decided /\ ~CmdMoves(1)
    BY <1>3, <1>5, <1>8, <2>1
  <2>4. mask' = Requests \ {0}
    BY <1>1, <2>1, <2>2, <2>3 DEF NextMask
  <2>5. mask' = IF ireg[1][0] # NoFlit THEN {1} ELSE {}
    BY <2>4, Selection
  <2>6. passed'[0] = 0 /\ passed'[1] = IF ireg[1][0] = NoFlit THEN 0 ELSE passed[1] + 1
    BY <1>2, <1>5, <1>8, <2>3
  <2>7. passed[1] = 0
    BY <2>2, <1>6 DEF Turns
  <2>8. Rounds'
    BY <2>3, <2>5, <1>4, <1>5, <1>r DEF Rounds
  <2>9. passed' \in [Ports -> {0, 1}]
    BY <1>2, <1>5, <2>6, <2>7
  <2>10. QED
    BY <2>5, <2>6, <2>7, <2>8, <2>9, <1>5, <1>w DEF Turns
<1>9. CASE CmdMoves(1)
  <2>1. Selected = {1} /\ ireg[1][0] # NoFlit
    BY <1>3, <1>5, <1>9
  <2>2. mask = {1} \/ (mask = {} /\ ireg[0][0] = NoFlit)
    BY <2>1, Selection DEF Rounds
  <2>3. decided /\ ~CmdMoves(0)
    BY <1>3, <1>5, <1>9, <2>1
  <2>4. mask' = ((IF mask = {} THEN Requests ELSE mask) \ {1}) \cap Requests
    BY <1>1, <2>1, <2>3 DEF NextMask
  <2>5. mask' = {}
    BY <2>2, <2>4, Selection
  <2>6. passed'[1] = 0 /\ passed'[0] = IF ireg[0][0] = NoFlit THEN 0 ELSE passed[0] + 1
    BY <1>2, <1>5, <1>9, <2>3
  <2>7. passed[0] = 0 \/ ireg[0][0] = NoFlit
    BY <2>2, <1>6 DEF Turns
  <2>8. Rounds'
    BY <2>5 DEF Rounds
  <2>9. passed' \in [Ports -> {0, 1}]
    BY <1>2, <1>5, <2>6, <2>7
  <2>10. QED
    BY <2>5, <2>6, <2>8, <2>9, <1>5, <1>w DEF Turns
<1>10. QED
  BY <1>7, <1>8, <1>9, <1>5

\* With the arbiter out of reset, a command that waits at the merge of two links
\* is passed by one command of the other link at most
\* (thymesisflow_rr_arbiter.v:47-62).
THEOREM ServedInTurn == Spec => []NotPassedOver
<1>1. Init => IInv
  BY DEF Init, IInv, Rounds, Turns, Ports
<1>2. IInv /\ [Next]_vars => IInv'
  <2> SUFFICES ASSUME IInv, [Next]_vars
               PROVE  IInv'
    OBVIOUS
  <2>1. CASE UNCHANGED <<unreset, ireg, mask, passed>>
    BY <2>1 DEF IInv, Rounds, Turns, Requests
  <2>2. CASE Egress
    <3>1. PICK valid, op, net, ready : EgressCycle(valid, op, net, ready)
      BY <2>2 DEF Egress
    <3>2. UNCHANGED <<unreset, ireg, mask, passed>>
      BY <3>1 DEF EgressCycle, ingressVars
    <3>3. QED
      BY <2>1, <3>2
  <2>3. CASE Ingress
    <3>1. PICK arrived, take : IngressCycle(arrived, take)
      BY <2>3 DEF Ingress
    <3>2. UNCHANGED unreset
      BY <3>1 DEF IngressCycle
    <3>3. QED
      BY <3>1, <3>2, IngressStep DEF IInv
  <2>4. CASE UNCHANGED vars
    BY <2>1, <2>4 DEF vars, ingressVars
  <2>5. QED
    BY <2>2, <2>3, <2>4 DEF Next
<1>3. IInv => NotPassedOver
  BY DEF IInv, Turns, NotPassedOver, Ports
<1>4. QED
  BY <1>1, <1>2, <1>3, PTL DEF Spec
-----------------------------------------------------------------------------
(* Places.  The flits of a link come in one order, the parts of packet 1,  *)
(* those of packet 2 and so on; acc are the opcodes of the packets.        *)

\* All stages agree on what has data behind it: the egress, which looks for either
\* kind of packet, the stages of the ingress, and the table of TL opcodes.  A write
\* that failed (9) is the response for which they do not.
OpcodesAgree ==
    /\ \A op \in Opcodes["requests"] : HasData(op) <=> Bit(op, 32)
    /\ Opcodes["responses"] \subseteq {4, 5, 8}

FlitType == [link : Ports, n : Nat, part : Parts, op : Nat, net : SUBSET Ports]

\* Part j of packet n.
Place == [n : Nat \ {0}, j : Parts]
At(n, j) == [n |-> n, j |-> j]

LastPart(acc, n) == IF HasData(acc[n]) THEN 4 ELSE 0
Exists(acc, c) == c.n <= Len(acc) /\ c.j <= LastPart(acc, c.n)
Succ(acc, c) == IF c.j < LastPart(acc, c.n) THEN At(c.n, c.j + 1) ELSE At(c.n + 1, 0)

\* A place of acc, or the first one behind.
Valid(acc, c) == Exists(acc, c) \/ c = At(Len(acc) + 1, 0)

\* Part j of packet n comes at `from' or later, and before `to'.
Within(acc, n, j, from, to) ==
    /\ n <= Len(acc) /\ j <= LastPart(acc, n)
    /\ from.n < n \/ (from.n = n /\ from.j <= j)
    /\ n < to.n \/ (n = to.n /\ j < to.j)

\* The registers of a port hold exactly the flits from `from' up to `to', each in the
\* register of its part.
Bank(acc, reg, from, to) ==
    /\ Valid(acc, from) /\ Valid(acc, to)
    /\ from.n < to.n \/ (from.n = to.n /\ from.j <= to.j)
    /\ \A n \in Nat \ {0}, j \in Parts : reg[j].n = n <=> Within(acc, n, j, from, to)

LEMMA LastType == \A acc, n : LastPart(acc, n) \in {0, 4}
BY DEF LastPart

LEMMA SuccValid ==
    ASSUME NEW acc \in Seq(Nat), NEW c \in Place, Exists(acc, c)
    PROVE  Succ(acc, c) \in Place /\ Valid(acc, Succ(acc, c))
<1>1. LastPart(acc, c.n) \in {0, 4} /\ LastPart(acc, c.n + 1) \in {0, 4} /\ Len(acc) \in Nat
  BY LastType
<1>2. QED
  BY <1>1, SMTT(30) DEF Succ, Valid, Exists, Place, At, Parts

\* Loading the next flit into its register, which is empty.
LEMMA BankLoad ==
    ASSUME NEW acc \in Seq(Nat), NEW from \in Place, NEW to \in Place, NEW reg, NEW reg2,
           Bank(acc, reg, from, to), Exists(acc, to), reg[to.j].n = 0,
           reg2[to.j].n = to.n, \A j \in Parts \ {to.j} : reg2[j].n = reg[j].n
    PROVE  Bank(acc, reg2, from, Succ(acc, to))
<1> DEFINE next == Succ(acc, to)
<1>1. next \in Place /\ Valid(acc, next)
  BY SuccValid
<1>2. LastPart(acc, to.n) \in {0, 4} /\ to.j <= LastPart(acc, to.n) /\ to.n <= Len(acc) /\ Len(acc) \in Nat
  BY LastType DEF Exists
<1>3. from.n < next.n \/ (from.n = next.n /\ from.j <= next.j)
  BY <1>2 DEF Bank, Succ, At, Place, Parts
<1>4. ASSUME NEW n \in Nat \ {0}, NEW j \in Parts
      PROVE  Within(acc, n, j, from, next) <=>
                Within(acc, n, j, from, to) \/ (n = to.n /\ j = to.j)
  <2>1. LastPart(acc, n) \in {0, 4} /\ (n = to.n => LastPart(acc, n) = LastPart(acc, to.n))
    BY LastType
  <2>2. QED
    BY <1>2, <2>1, SMTT(30) DEF Bank, Within, Succ, At, Place, Parts
<1>5. ASSUME NEW n \in Nat \ {0}, NEW j \in Parts
      PROVE  reg2[j].n = n <=> Within(acc, n, j, from, next)
  <2>1. CASE j = to.j
    <3>1. ~Within(acc, n, j, from, to)
      BY <2>1 DEF Bank
    <3>2. QED
      BY <1>4, <2>1, <3>1
  <2>2. CASE j # to.j
    BY <1>4, <2>2 DEF Bank
  <2>3. QED
    BY <2>1, <2>2
<1>6. QED
  BY <1>1, <1>3, <1>5 DEF Bank

\* A register that is full at or behind `from', within the packet of `from', holds a
\* flit of it, and so do those in between.
LEMMA BankAhead ==
    ASSUME NEW acc \in Seq(Nat), NEW from \in Place, NEW to \in Place, NEW reg,
           Bank(acc, reg, from, to), NEW j \in Parts, reg[j].n \in Nat \ {0},
           from.j <= j, from.j = 0 => j = 0
    PROVE  /\ Exists(acc, from)
           /\ j <= LastPart(acc, from.n)
           /\ \A i \in Parts : from.j <= i /\ i <= j => reg[i].n = from.n
<1> DEFINE m == reg[j].n
<1>1. Within(acc, m, j, from, to)
  BY DEF Bank
<1>2. /\ LastPart(acc, m) \in {0, 4} /\ LastPart(acc, from.n) \in {0, 4} /\ Len(acc) \in Nat
      /\ LastPart(acc, Len(acc) + 1) \in {0, 4}
  BY LastType
<1>3. from.n <= m /\ m <= Len(acc)
  BY <1>1 DEF Within, Place
<1>4. Exists(acc, from)
  BY <1>2, <1>3 DEF Bank, Valid, At, Place
<1>5. from.n <= Len(acc) /\ from.j <= LastPart(acc, from.n)
  BY <1>4 DEF Exists
<1>6. j <= LastPart(acc, from.n)
  BY <1>2, <1>5 DEF Place, Parts
<1>7. ASSUME NEW i \in Parts, from.j <= i, i <= j
      PROVE  reg[i].n = from.n
  <2>1. Within(acc, from.n, i, from, to)
    BY <1>1, <1>2, <1>5, <1>6, <1>7, SMTT(30) DEF Within, Place, Parts
  <2>2. QED
    BY <2>1 DEF Bank, Place
<1>8. QED
  BY <1>4, <1>6, <1>7

\* Emptying the register of the first flit.
LEMMA BankMove ==
    ASSUME NEW acc \in Seq(Nat), NEW from \in Place, NEW to \in Place, NEW reg, NEW reg2,
           Bank(acc, reg, from, to), reg[from.j].n \in Nat \ {0},
           reg2[from.j].n = 0, \A j \in Parts \ {from.j} : reg2[j].n = reg[j].n
    PROVE  /\ reg[from.j].n = from.n /\ Exists(acc, from)
           /\ Bank(acc, reg2, Succ(acc, from), to)
<1> DEFINE next == Succ(acc, from)
<1>1. from.j \in Parts /\ from.n \in Nat \ {0}
  BY DEF Place
<1>2. reg[from.j].n = from.n /\ Exists(acc, from)
  <2>1. from.j <= from.j
    BY <1>1 DEF Parts
  <2>2. QED
    BY <1>1, <2>1, BankAhead
<1>3. next \in Place /\ Valid(acc, next)
  BY <1>2, SuccValid
<1>4. LastPart(acc, from.n) \in {0, 4} /\ from.j <= LastPart(acc, from.n) /\ from.n <= Len(acc) /\ Len(acc) \in Nat
  BY <1>2, LastType DEF Exists
<1>5. Within(acc, from.n, from.j, from, to)
  BY <1>1, <1>2 DEF Bank
<1>6. next.n < to.n \/ (next.n = to.n /\ next.j <= to.j)
  <2>1. LastPart(acc, to.n) \in {0, 4}
    BY LastType
  <2>2. QED
    BY <1>4, <1>5, <2>1, SMTT(30) DEF Within, Bank, Valid, Exists, Succ, At, Place, Parts
<1>7. ASSUME NEW n \in Nat \ {0}, NEW j \in Parts
      PROVE  Within(acc, n, j, next, to) <=>
                Within(acc, n, j, from, to) /\ ~(n = from.n /\ j = from.j)
  <2>1. LastPart(acc, n) \in {0, 4} /\ (n = from.n => LastPart(acc, n) = LastPart(acc, from.n))
    BY LastType
  <2>2. QED
    BY <1>4, <2>1, SMTT(30) DEF Bank, Within, Succ, At, Place, Parts
<1>8. ASSUME NEW n \in Nat \ {0}, NEW j \in Parts
      PROVE  reg2[j].n = n <=> Within(acc, n, j, next, to)
  <2>1. CASE j = from.j
    <3>1. Within(acc, n, j, from, to) <=> n = from.n
      BY <1>2, <2>1 DEF Bank
    <3>2. QED
      BY <1>7, <2>1, <3>1
  <2>2. CASE j # from.j
    BY <1>7, <2>2 DEF Bank
  <2>3. QED
    BY <2>1, <2>2
<1>9. QED
  BY <1>2, <1>3, <1>6, <1>8 DEF Bank

-----------------------------------------------------------------------------
(* Flits at their places.                                                  *)

\* f is part j of packet n of link p, as the egress makes it.
IsFlit(acc, p, f, n, j) ==
    \E net \in SUBSET Ports :
        f = Flit(p, n, j, IF j = 0 THEN acc[n] ELSE 0, IF j = 0 THEN net ELSE {})

\* What the registers of a port of the egress hold.
Full(acc, p, reg) ==
    \A j \in Parts :
        reg[j] = NoFlit \/ (reg[j].n \in 1..Len(acc) /\ IsFlit(acc, p, reg[j], reg[j].n, j))

\* s holds the flits of link p from `from' up to `to'.
Path(acc, p, s, from, to) ==
    /\ s \in Seq(FlitType)
    /\ \E k \in [1 .. Len(s) + 1 -> Place] :
          /\ k[1] = from /\ k[Len(s) + 1] = to
          /\ \A i \in 1..Len(s) : /\ Exists(acc, k[i])
                                  /\ IsFlit(acc, p, s[i], k[i].n, k[i].j)
                                  /\ k[i + 1] = Succ(acc, k[i])

LEMMA FlitTyped ==
    ASSUME NEW acc \in Seq(Nat), NEW p \in Ports, NEW c \in Place, Exists(acc, c),
           NEW f, IsFlit(acc, p, f, c.n, c.j)
    PROVE  f \in FlitType /\ f # NoFlit /\ f.n = c.n
<1>1. PICK net \in SUBSET Ports :
        f = Flit(p, c.n, c.j, IF c.j = 0 THEN acc[c.n] ELSE 0, IF c.j = 0 THEN net ELSE {})
  BY DEF IsFlit
<1>2. c.n \in 1..Len(acc) /\ c.j \in Parts
  BY DEF Exists, Place
<1>3. acc[c.n] \in Nat
  BY <1>2
<1>4. f.n = c.n /\ c.n # 0
  BY <1>1, <1>2 DEF Flit
<1>5. NoFlit.n = 0
  BY DEF NoFlit, Flit
<1>6. f \in FlitType
  BY <1>1, <1>2, <1>3 DEF Flit, FlitType
<1>7. QED
  BY <1>4, <1>5, <1>6

\* Sending the next flit.
LEMMA PathAppend ==
    ASSUME NEW acc \in Seq(Nat), NEW p \in Ports, NEW s, NEW from \in Place, NEW to \in Place,
           Path(acc, p, s, from, to), Exists(acc, to), NEW f, IsFlit(acc, p, f, to.n, to.j)
    PROVE  Path(acc, p, Append(s, f), from, Succ(acc, to))
<1>1. PICK k \in [1 .. Len(s) + 1 -> Place] :
          /\ k[1] = from /\ k[Len(s) + 1] = to
          /\ \A i \in 1..Len(s) : /\ Exists(acc, k[i])
                                  /\ IsFlit(acc, p, s[i], k[i].n, k[i].j)
                                  /\ k[i + 1] = Succ(acc, k[i])
  BY DEF Path
<1>2. s \in Seq(FlitType) /\ f \in FlitType /\ Len(s) \in Nat
  BY FlitTyped DEF Path
<1>3. /\ Append(s, f) \in Seq(FlitType) /\ Len(Append(s, f)) = Len(s) + 1
      /\ \A i \in 1..Len(s) : Append(s, f)[i] = s[i]
      /\ Append(s, f)[Len(s) + 1] = f
  BY <1>2, AppendProperties
<1> DEFINE t == Append(s, f)
           h == [i \in 1 .. Len(t) + 1 |-> IF i <= Len(s) + 1 THEN k[i] ELSE Succ(acc, to)]
<1>4. Succ(acc, to) \in Place
  BY SuccValid
<1>5. h \in [1 .. Len(t) + 1 -> Place]
  BY <1>2, <1>3, <1>4
<1>6. h[1] = from /\ h[Len(t) + 1] = Succ(acc, to)
  BY <1>1, <1>2, <1>3
<1>7. ASSUME NEW i \in 1..Len(t)
      PROVE  /\ Exists(acc, h[i])
             /\ IsFlit(acc, p, t[i], h[i].n, h[i].j)
             /\ h[i + 1] = Succ(acc, h[i])
  <2>1. CASE i <= Len(s)
    <3>1. i \in 1..Len(s) /\ h[i] = k[i] /\ h[i + 1] = k[i + 1]
      BY <1>2, <1>3, <2>1
    <3>2. QED
      BY <1>1, <1>3, <3>1
  <2>2. CASE i = Len(s) + 1
    <3>1. h[i] = to /\ h[i + 1] = Succ(acc, to)
      BY <1>1, <1>2, <1>3, <2>2
    <3>2. QED
      BY <1>3, <2>2, <3>1
  <2>3. QED
    BY <1>2, <1>3, <2>1, <2>2
<1>8. QED
  BY <1>3, <1>5, <1>6, <1>7 DEF Path

\* Taking the first flit.
LEMMA PathTail ==
    ASSUME NEW acc \in Seq(Nat), NEW p \in Ports, NEW s, NEW from \in Place, NEW to \in Place,
           Path(acc, p, s, from, to), s # <<>>
    PROVE  /\ Exists(acc, from) /\ IsFlit(acc, p, Head(s), from.n, from.j)
           /\ Succ(acc, from) \in Place
           /\ Path(acc, p, Tail(s), Succ(acc, from), to)
<1>1. PICK k \in [1 .. Len(s) + 1 -> Place] :
          /\ k[1] = from /\ k[Len(s) + 1] = to
          /\ \A i \in 1..Len(s) : /\ Exists(acc, k[i])
                                  /\ IsFlit(acc, p, s[i], k[i].n, k[i].j)
                                  /\ k[i + 1] = Succ(acc, k[i])
  BY DEF Path
<1>2. /\ s \in Seq(FlitType) /\ Len(s) \in Nat \ {0} /\ Head(s) = s[1]
      /\ Tail(s) \in Seq(FlitType) /\ Len(Tail(s)) = Len(s) - 1
      /\ \A i \in 1 .. Len(s) - 1 : Tail(s)[i] = s[i + 1]
  BY HeadTailProperties, EmptySeq DEF Path
<1> DEFINE t == Tail(s)
           h == [i \in 1 .. Len(t) + 1 |-> k[i + 1]]
<1>3. /\ Exists(acc, from) /\ IsFlit(acc, p, Head(s), from.n, from.j)
      /\ k[2] = Succ(acc, from)
  <2>1. 1 \in 1..Len(s)
    BY <1>2
  <2>2. QED
    BY <1>1, <1>2, <2>1
<1>4. h \in [1 .. Len(t) + 1 -> Place] /\ Succ(acc, from) \in Place
  BY <1>2, <1>3, SuccValid
<1>5. h[1] = Succ(acc, from) /\ h[Len(t) + 1] = to
  BY <1>1, <1>2, <1>3
<1>6. ASSUME NEW i \in 1..Len(t)
      PROVE  /\ Exists(acc, h[i])
             /\ IsFlit(acc, p, t[i], h[i].n, h[i].j)
             /\ h[i + 1] = Succ(acc, h[i])
  <2> DEFINE l == i + 1
  <2>1. l \in 1..Len(s) /\ i \in 1 .. Len(s) - 1 /\ h[i] = k[l] /\ h[i + 1] = k[l + 1]
    BY <1>2
  <2>2. t[i] = s[l]
    BY <1>2, <2>1
  <2> HIDE DEF l, h, t
  <2>3. QED
    BY <1>1, <2>1, <2>2
<1>7. QED
  BY <1>2, <1>3, <1>4, <1>5, <1>6 DEF Path

-----------------------------------------------------------------------------
(* A new packet changes nothing for those before it.                       *)

Grows(acc, more) ==
    /\ acc \in Seq(Nat) /\ more \in Seq(Nat)
    /\ Len(acc) <= Len(more)
    /\ \A n \in 1..Len(acc) : more[n] = acc[n]

LEMMA PlaceGrows ==
    ASSUME NEW acc, NEW more, Grows(acc, more), NEW c \in Place, Exists(acc, c)
    PROVE  Exists(more, c) /\ Succ(more, c) = Succ(acc, c)
<1>1. c.n \in 1..Len(acc) /\ Len(acc) \in Nat /\ Len(more) \in Nat
  BY DEF Exists, Place, Grows
<1>2. LastPart(more, c.n) = LastPart(acc, c.n)
  BY <1>1 DEF LastPart, Grows
<1>3. QED
  BY <1>1, <1>2 DEF Exists, Succ, Grows, Place

LEMMA FlitGrows ==
    ASSUME NEW acc, NEW more, Grows(acc, more), NEW p, NEW f, NEW n \in 1..Len(acc), NEW j
    PROVE  IsFlit(more, p, f, n, j) <=> IsFlit(acc, p, f, n, j)
BY DEF IsFlit, Grows

LEMMA FullGrows ==
    ASSUME NEW acc, NEW more, Grows(acc, more), NEW p, NEW reg, Full(acc, p, reg)
    PROVE  Full(more, p, reg)
<1> SUFFICES ASSUME NEW j \in Parts, reg[j] # NoFlit
             PROVE  reg[j].n \in 1..Len(more) /\ IsFlit(more, p, reg[j], reg[j].n, j)
  BY DEF Full
<1>1. reg[j].n \in 1..Len(acc) /\ IsFlit(acc, p, reg[j], reg[j].n, j)
  BY DEF Full
<1>2. Len(acc) \in Nat /\ Len(more) \in Nat /\ Len(acc) <= Len(more)
  BY DEF Grows
<1>3. QED
  BY <1>1, <1>2, FlitGrows

LEMMA PathGrows ==
    ASSUME NEW acc, NEW more, Grows(acc, more), NEW p, NEW s, NEW from, NEW to,
           Path(acc, p, s, from, to)
    PROVE  Path(more, p, s, from, to)
<1>1. PICK k \in [1 .. Len(s) + 1 -> Place] :
          /\ k[1] = from /\ k[Len(s) + 1] = to
          /\ \A i \in 1..Len(s) : /\ Exists(acc, k[i])
                                  /\ IsFlit(acc, p, s[i], k[i].n, k[i].j)
                                  /\ k[i + 1] = Succ(acc, k[i])
  BY DEF Path
<1>2. ASSUME NEW i \in 1..Len(s)
      PROVE  /\ Exists(more, k[i])
             /\ IsFlit(more, p, s[i], k[i].n, k[i].j)
             /\ k[i + 1] = Succ(more, k[i])
  <2>1. k[i] \in Place /\ Exists(acc, k[i]) /\ k[i].n \in 1..Len(acc)
    <3>1. Len(s) \in Nat
      BY DEF Path
    <3>2. k[i] \in Place
      BY <3>1
    <3>3. QED
      BY <1>1, <3>2 DEF Exists, Place, Grows
  <2>2. QED
    BY <1>1, <2>1, PlaceGrows, FlitGrows
<1>3. QED
  BY <1>1, <1>2 DEF Path

\* The place behind the last packet becomes that of the new command.
LEMMA BankGrows ==
    ASSUME NEW acc, NEW more, Grows(acc, more), NEW reg, NEW from \in Place, NEW to \in Place,
           Bank(acc, reg, from, to)
    PROVE  Bank(more, reg, from, to)
<1>1. Len(acc) \in Nat /\ Len(more) \in Nat /\ Len(acc) <= Len(more)
  BY DEF Grows
<1>2. \A n \in 1..Len(acc) : LastPart(more, n) = LastPart(acc, n)
  BY DEF Grows, LastPart
<1>3. ASSUME NEW c \in Place, Valid(acc, c)
      PROVE  Valid(more, c)
  <2>1. CASE Exists(acc, c)
    BY <2>1, PlaceGrows DEF Valid
  <2>2. CASE c = At(Len(acc) + 1, 0)
    <3>1. LastPart(more, c.n) \in {0, 4}
      BY LastType
    <3>2. QED
      BY <1>1, <2>2, <3>1 DEF Valid, Exists, At
  <2>3. QED
    BY <1>3, <2>1, <2>2 DEF Valid
<1>4. to.n <= Len(acc) \/ (to.n = Len(acc) + 1 /\ to.j = 0)
  BY DEF Bank, Valid, Exists, At
<1>5. ASSUME NEW n \in Nat \ {0}, NEW j \in Parts
      PROVE  Within(more, n, j, from, to) <=> Within(acc, n, j, from, to)
  <2>1. CASE n \in 1..Len(acc)
    BY <1>1, <1>2, <2>1 DEF Within
  <2>2. CASE n > Len(acc)
    BY <1>1, <1>4, <2>2 DEF Within, Place, Parts
  <2>3. QED
    BY <1>1, <2>1, <2>2
<1>6. QED
  BY <1>3, <1>5 DEF Bank

-----------------------------------------------------------------------------
(* The egress.                                                             *)

\* Where the next flit of link p goes that the egress loads.  The data of a packet
\* come in halves, of which the high one may be loaded ahead of the low one.
Loading(acc, p, inp, hld, reg, a) ==
    IF inp.size > 0 /\ inp.port = p
    THEN /\ Len(acc) # 0 /\ HasData(acc[Len(acc)])
         /\ \/ a = At(Len(acc), 5 - 2 * inp.size)
            \/ /\ a = At(Len(acc), 6 - 2 * inp.size)
               /\ hld # <<>> /\ reg[6 - 2 * inp.size] # NoFlit
    ELSE a = At(Len(acc) + 1, 0)

\* The registers of port p hold what is loaded and not sent; e goes next.
EgressSide(acc, p, inp, hld, reg, sm, e) ==
    /\ e.j = sm
    /\ Full(acc, p, reg)
    /\ \E a \in Place : Bank(acc, reg, e, a) /\ Loading(acc, p, inp, hld, reg, a)

LEMMA EmptyIsZero ==
    ASSUME NEW acc, NEW p, NEW reg, Full(acc, p, reg), acc \in Seq(Nat), NEW j \in Parts
    PROVE  /\ reg[j].n \in Nat
           /\ reg[j] = NoFlit <=> reg[j].n = 0
BY DEF Full, NoFlit, Flit

\* A flit leaves its register.
LEMMA EgressMove ==
    ASSUME NEW acc \in Seq(Nat), NEW p \in Ports, NEW e \in Place, NEW a \in Place,
           NEW reg \in [Parts -> FlitType], NEW reg2,
           Full(acc, p, reg), Bank(acc, reg, e, a), reg[e.j] # NoFlit,
           \A j \in Parts : reg2[j] = IF j = e.j THEN NoFlit ELSE reg[j]
    PROVE  /\ Exists(acc, e) /\ IsFlit(acc, p, reg[e.j], e.n, e.j)
           /\ Full(acc, p, reg2) /\ Bank(acc, reg2, Succ(acc, e), a)
           /\ Succ(acc, e).j = IF e.j = 0 /\ ~HasData(reg[0].op) THEN 0 ELSE (e.j + 1) % 5
<1>1. e.j \in Parts /\ reg[e.j].n \in Nat \ {0}
  BY EmptyIsZero DEF Place
<1>2. reg2[e.j].n = 0 /\ \A j \in Parts \ {e.j} : reg2[j].n = reg[j].n
  BY <1>1 DEF NoFlit, Flit
<1>3. /\ reg[e.j].n = e.n /\ Exists(acc, e)
      /\ Bank(acc, reg2, Succ(acc, e), a)
  BY <1>1, <1>2, BankMove
<1>4. IsFlit(acc, p, reg[e.j], e.n, e.j)
  BY <1>1, <1>3 DEF Full
<1>5. Full(acc, p, reg2)
  BY DEF Full
<1>6. e.j = 0 => reg[0].op = acc[e.n]
  BY <1>4 DEF IsFlit, Flit
<1>7. LastPart(acc, e.n) = IF HasData(acc[e.n]) THEN 4 ELSE 0
  BY DEF LastPart
<1>8. e.j <= LastPart(acc, e.n) /\ e.j \in 0..4
  BY <1>1, <1>3 DEF Exists, Parts
<1>9. /\ Succ(acc, e).j = IF e.j < LastPart(acc, e.n) THEN e.j + 1 ELSE 0
  BY DEF Succ, At
<1>10. (e.j + 1) % 5 = IF e.j = 4 THEN 0 ELSE e.j + 1
  BY <1>8
<1>11. Succ(acc, e).j = IF e.j = 0 /\ ~HasData(reg[0].op) THEN 0 ELSE (e.j + 1) % 5
  <2>1. CASE HasData(acc[e.n])
    BY <1>6, <1>7, <1>8, <1>9, <1>10, <2>1
  <2>2. CASE ~HasData(acc[e.n])
    <3>1. e.j = 0 /\ Succ(acc, e).j = 0 /\ ~HasData(reg[0].op)
      BY <1>6, <1>7, <1>8, <1>9, <2>2
    <3>2. QED
      BY <3>1
  <2>3. QED
    BY <2>1, <2>2
<1>12. QED
  BY <1>3, <1>4, <1>5, <1>11

\* The high half that was loaded ahead does not leave before the low half that it
\* waits for, so it is not loaded again.
Early(acc, e, next, reg, reg2, low) ==
    /\ Len(acc) # 0 /\ HasData(acc[Len(acc)])
    /\ Bank(acc, reg, e, At(Len(acc), low)) /\ reg[low].n \in Nat \ {0}
    /\ next = e \/ next = Succ(acc, e)
    /\ Bank(acc, reg2, next, At(Len(acc), low))

LEMMA EarlyStays ==
    ASSUME NEW acc \in Seq(Nat), NEW e \in Place, NEW next \in Place, NEW reg, NEW reg2,
           NEW low \in {2, 4}, Early(acc, e, next, reg, reg2, low)
    PROVE  reg2[low - 1].n = Len(acc)
<1> DEFINE N == Len(acc)
           m == reg[low].n
           high == low - 1
<1>0. /\ Len(acc) # 0 /\ HasData(acc[Len(acc)])
      /\ Bank(acc, reg, e, At(Len(acc), low)) /\ reg[low].n \in Nat \ {0}
      /\ next = e \/ next = Succ(acc, e)
      /\ Bank(acc, reg2, next, At(Len(acc), low))
  BY DEF Early
<1>1. N \in Nat \ {0} /\ low \in Parts /\ high \in Parts /\ high \in {1, 3} /\ high < low
  BY <1>0 DEF Parts
<1>2. LastPart(acc, N) = 4
  BY <1>0 DEF LastPart
<1>3. Within(acc, m, low, e, At(N, low))
  BY <1>0, <1>1 DEF Bank
<1>4. m < N /\ e.n <= m
  BY <1>0, <1>1, <1>3 DEF Within, At, Place
<1>5. next.n <= N /\ (next.n = N => next.j = 0)
  BY <1>0, <1>1, <1>4 DEF Succ, At, Place
<1>6. Within(acc, N, high, next, At(N, low))
  BY <1>1, <1>2, <1>5 DEF Within, At, Place, Parts
<1>7. QED
  BY <1>0, <1>1, <1>6 DEF Bank

\* When the low register is empty, so is the high one.
LEMMA HighFree ==
    ASSUME NEW acc \in Seq(Nat), NEW e \in Place, NEW reg, NEW high \in {1, 3},
           Len(acc) # 0, Bank(acc, reg, e, At(Len(acc), high)),
           reg[high + 1].n = 0, reg[high].n \in Nat
    PROVE  reg[high].n = 0
<1> SUFFICES ASSUME reg[high].n # 0 PROVE FALSE
  OBVIOUS
<1> DEFINE m == reg[high].n
           low == high + 1
<1>1. Len(acc) \in Nat \ {0} /\ low \in Parts /\ high \in Parts /\ high < low /\ m \in Nat \ {0}
  BY DEF Parts
<1>2. Within(acc, m, high, e, At(Len(acc), high))
  BY <1>1 DEF Bank
<1>3. m < Len(acc) /\ LastPart(acc, m) \in {0, 4}
  BY <1>1, <1>2, LastType DEF Within, At
<1>4. Within(acc, m, low, e, At(Len(acc), high))
  BY <1>1, <1>2, <1>3 DEF Within, At, Place, Parts
<1>5. reg[low].n = m
  BY <1>1, <1>4 DEF Bank
<1>6. QED
  BY <1>1, <1>5

\* One flit, f, goes to the empty register for the place a.
LoadsFlit(acc, p, e, a, reg, reg2, f) ==
    /\ Full(acc, p, reg) /\ Bank(acc, reg, e, a)
    /\ Exists(acc, a) /\ reg[a.j] = NoFlit /\ IsFlit(acc, p, f, a.n, a.j)
    /\ \A j \in Parts : reg2[j] = IF j = a.j THEN f ELSE reg[j]

LEMMA LoadFlit ==
    ASSUME NEW acc \in Seq(Nat), NEW p \in Ports, NEW e \in Place, NEW a \in Place,
           NEW reg, NEW reg2, NEW f, LoadsFlit(acc, p, e, a, reg, reg2, f)
    PROVE  Full(acc, p, reg2) /\ Bank(acc, reg2, e, Succ(acc, a)) /\ Succ(acc, a) \in Place
<1>0. /\ Full(acc, p, reg) /\ Bank(acc, reg, e, a)
      /\ Exists(acc, a) /\ reg[a.j] = NoFlit /\ IsFlit(acc, p, f, a.n, a.j)
      /\ \A j \in Parts : reg2[j] = IF j = a.j THEN f ELSE reg[j]
  BY DEF LoadsFlit
<1>1. f.n = a.n /\ a.n \in 1..Len(acc) /\ a.j \in Parts
  BY <1>0, FlitTyped DEF Exists, Place
<1>2. Full(acc, p, reg2)
  BY <1>0, <1>1 DEF Full
<1>3. reg[a.j].n = 0 /\ reg2[a.j].n = a.n /\ \A j \in Parts \ {a.j} : reg2[j].n = reg[j].n
  BY <1>0, <1>1 DEF NoFlit, Flit
<1>4. QED
  BY <1>0, <1>2, <1>3, BankLoad, SuccValid

\* Loading the two halves of a data flit, or the high one if the low one has to wait.
LEMMA LoadHalves ==
    ASSUME NEW acc \in Seq(Nat), NEW p \in Ports, NEW e \in Place, NEW a \in Place,
           NEW reg, NEW reg2, Full(acc, p, reg), Bank(acc, reg, e, a),
           Len(acc) # 0, HasData(acc[Len(acc)]), NEW high \in {1, 3},
           \/ a = At(Len(acc), high)
           \/ a = At(Len(acc), high + 1) /\ reg[high].n = Len(acc),
           \A j \in Parts : reg2[j] = IF j \in {high, high + 1} /\ reg[j] = NoFlit
                                      THEN Flit(p, Len(acc), j, 0, {}) ELSE reg[j]
    PROVE  /\ Full(acc, p, reg2)
           /\ reg[high + 1] = NoFlit => Bank(acc, reg2, e, Succ(acc, At(Len(acc), high + 1)))
           /\ reg[high + 1] # NoFlit =>
                 \/ Bank(acc, reg2, e, At(Len(acc), high))
                 \/ Bank(acc, reg2, e, At(Len(acc), high + 1)) /\ reg2[high + 1] # NoFlit
<1> DEFINE N == Len(acc)
           low == high + 1
           H == At(N, high)
           L == At(N, low)
           mid == [j \in Parts |-> IF j = high THEN Flit(p, N, high, 0, {}) ELSE reg[j]]
<1>1. /\ N \in Nat \ {0} /\ low \in Parts /\ high \in Parts /\ high # low
      /\ H \in Place /\ L \in Place /\ H.n = N /\ L.n = N /\ H.j = high /\ L.j = low
  BY DEF Parts, Place, At
<1>2. LastPart(acc, N) = 4
  BY DEF LastPart
<1>3. Exists(acc, H) /\ Exists(acc, L) /\ Succ(acc, H) = L
  BY <1>1, <1>2 DEF Exists, Succ, At, Parts
<1>4. \A j \in Parts : j # 0 => IsFlit(acc, p, Flit(p, N, j, 0, {}), N, j)
  <2>1. {} \in SUBSET Ports
    OBVIOUS
  <2>2. QED
    BY <2>1 DEF IsFlit
<1>5. high # 0 /\ low # 0
  OBVIOUS
<1>6. \A j \in Parts : reg[j].n \in Nat /\ (reg[j] = NoFlit <=> reg[j].n = 0)
  BY EmptyIsZero
<1>7. reg2[high] = IF reg[high] = NoFlit THEN Flit(p, N, high, 0, {}) ELSE reg[high]
  BY <1>1
<1>8. reg2[low] = IF reg[low] = NoFlit THEN Flit(p, N, low, 0, {}) ELSE reg[low]
  BY <1>1
<1>9. \A j \in Parts : j # high /\ j # low => reg2[j] = reg[j]
  BY <1>1
<1> HIDE DEF N, low, H, L, mid
<1>10. CASE a = H /\ reg[low] = NoFlit
  <2>1. reg[high] = NoFlit
    BY <1>1, <1>6, <1>10, HighFree DEF N, low, H
  <2>2. /\ Full(acc, p, mid) /\ Bank(acc, mid, e, L)
    <3>1. LoadsFlit(acc, p, e, H, reg, mid, Flit(p, N, high, 0, {}))
      BY <1>1, <1>3, <1>4, <1>5, <1>10, <2>1 DEF mid, LoadsFlit
    <3>2. QED
      BY <1>1, <1>3, <3>1, LoadFlit
  <2>3. \A j \in Parts : reg2[j] = IF j = low THEN Flit(p, N, low, 0, {}) ELSE mid[j]
    BY <1>1, <1>7, <1>8, <1>9, <1>10, <2>1 DEF mid
  <2>4. mid[L.j] = NoFlit
    BY <1>1, <1>10 DEF mid
  <2>5. Full(acc, p, reg2) /\ Bank(acc, reg2, e, Succ(acc, L))
    <3>1. LoadsFlit(acc, p, e, L, mid, reg2, Flit(p, N, low, 0, {}))
      BY <1>1, <1>3, <1>4, <1>5, <2>2, <2>3, <2>4 DEF LoadsFlit
    <3>2. QED
      BY <1>1, <3>1, LoadFlit
  <2>6. QED
    BY <1>10, <2>5 DEF low, N, L
<1>11. CASE a = H /\ reg[low] # NoFlit
  <2>1. CASE reg[high] = NoFlit
    <3>1. \A j \in Parts : reg2[j] = IF j = high THEN Flit(p, N, high, 0, {}) ELSE reg[j]
      BY <1>7, <1>8, <1>9, <1>11, <2>1
    <3>2. LoadsFlit(acc, p, e, H, reg, reg2, Flit(p, N, high, 0, {}))
      BY <1>1, <1>3, <1>4, <1>5, <1>11, <2>1, <3>1 DEF LoadsFlit
    <3>3. Full(acc, p, reg2) /\ Bank(acc, reg2, e, L)
      BY <1>1, <1>3, <3>2, LoadFlit
    <3>4. reg2[low] # NoFlit
      BY <1>8, <1>11
    <3>5. QED
      BY <1>11, <3>3, <3>4 DEF low, N, L
  <2>2. CASE reg[high] # NoFlit
    <3>1. \A j \in Parts : reg2[j] = reg[j]
      BY <1>7, <1>8, <1>9, <1>11, <2>2
    <3>2. Full(acc, p, reg2) /\ Bank(acc, reg2, e, H)
      BY <1>11, <3>1 DEF Full, Bank
    <3>3. QED
      BY <1>11, <3>2 DEF low, N, H
  <2>3. QED
    BY <2>1, <2>2
<1>12. CASE a = L /\ reg[high].n = N
  <2>1. reg[high] # NoFlit
    BY <1>1, <1>6, <1>12
  <2>2. CASE reg[low] = NoFlit
    <3>1. \A j \in Parts : reg2[j] = IF j = low THEN Flit(p, N, low, 0, {}) ELSE reg[j]
      BY <1>7, <1>8, <1>9, <2>1, <2>2
    <3>2. LoadsFlit(acc, p, e, L, reg, reg2, Flit(p, N, low, 0, {}))
      BY <1>1, <1>3, <1>4, <1>5, <1>12, <2>2, <3>1 DEF LoadsFlit
    <3>3. Full(acc, p, reg2) /\ Bank(acc, reg2, e, Succ(acc, L))
      BY <1>1, <3>2, LoadFlit
    <3>4. QED
      BY <2>2, <3>3 DEF low, N, L
  <2>3. CASE reg[low] # NoFlit
    <3>1. \A j \in Parts : reg2[j] = reg[j]
      BY <1>7, <1>8, <1>9, <2>1, <2>3
    <3>2. Full(acc, p, reg2) /\ Bank(acc, reg2, e, L) /\ reg2[low] # NoFlit
      BY <1>1, <1>12, <2>3, <3>1, SMTT(30) DEF Full, Bank
    <3>3. QED
      BY <2>3, <3>2 DEF low, N, L
  <2>4. QED
    BY <2>2, <2>3
<1>13. QED
  BY <1>10, <1>11, <1>12 DEF N, H, L, low

-----------------------------------------------------------------------------
(* A cycle of the egress.                                                  *)

Types ==
    /\ direction \in Directions
    /\ accepted \in [Ports -> Seq(Opcodes[direction])]
    /\ input \in [turn : {0, 1}, size : 0..2, port : Ports]
    /\ ereg \in [Ports -> [Parts -> FlitType]]
    /\ esm \in [Ports -> Parts]
    /\ ebuf \in [Ports -> Seq(FlitType)]
    /\ link \in [Ports -> Seq(FlitType)]

\* The registers of link q when the flit that is sent has left.
Left(q) == [j \in Parts |-> IF EgressMoves(q, j) THEN NoFlit ELSE ereg[q][j]]

LEMMA OpcodesNumbers ==
    ASSUME Types, NEW q \in Ports
    PROVE  accepted[q] \in Seq(Nat)
<1>1. accepted[q] \in Seq(Opcodes[direction])
  BY DEF Types
<1>2. Opcodes[direction] \subseteq Nat
  BY RoutingAssumption DEF Types
<1>3. QED
  BY <1>1, <1>2

LEMMA HalvesAre ==
    /\ Halves(0) = {0} /\ Low(0) = 0
    /\ Halves(2) = {1, 2} /\ Low(2) = 2
    /\ Halves(1) = {3, 4} /\ Low(1) = 4
<1>1. Halves(0) = {0} /\ Halves(2) = {1, 2} /\ Halves(1) = {3, 4}
  BY DEF Halves
<1>2. ASSUME NEW l \in Nat, NEW h \in Nat, h <= l
      PROVE  (CHOOSE j \in {h, l} : \A i \in {h, l} : i <= j) = l
  <2>1. \A j \in {h, l} : (\A i \in {h, l} : i <= j) <=> j = l
    BY <1>2
  <2>2. QED
    BY <2>1
<1>3. {0} = {0, 0}
  OBVIOUS
<1>4. QED
  BY <1>1, <1>2, <1>3 DEF Low

\* What leaves the registers is the next flit, and goes through the buffer to the link.
LEMMA EgressSends ==
    ASSUME Types, NEW valid, NEW op, NEW net, NEW ready, EgressCycle(valid, op, net, ready),
           NEW q \in Ports, NEW e \in Place, NEW a \in Place, NEW m \in Place, NEW i \in Place,
           e.j = esm[q], Full(accepted[q], q, ereg[q]), Bank(accepted[q], ereg[q], e, a),
           Path(accepted[q], q, ebuf[q], m, e), Path(accepted[q], q, link[q], i, m)
    PROVE  \E next \in Place, mid \in Place :
              /\ next = e \/ next = Succ(accepted[q], e)
              /\ next.j = esm'[q]
              /\ Full(accepted[q], q, Left(q)) /\ Bank(accepted[q], Left(q), next, a)
              /\ Path(accepted[q], q, ebuf'[q], mid, next)
              /\ Path(accepted[q], q, link'[q], i, mid)
<1> DEFINE acc == accepted[q]
           reg == ereg[q]
           moves == EgressMoves(q, esm[q])
           sends == q \in ready /\ ebuf[q] # <<>> /\ Len(link[q]) < LinkDepth
           rest == IF sends THEN Tail(ebuf[q]) ELSE ebuf[q]
           next == IF moves THEN Succ(acc, e) ELSE e
           mid == IF sends THEN Succ(acc, m) ELSE m
<1>1. acc \in Seq(Nat) /\ reg \in [Parts -> FlitType] /\ e.j \in Parts
  BY OpcodesNumbers DEF Types, Place
<1>2. /\ esm'[q] = IF ~moves THEN esm[q]
                   ELSE IF esm[q] = 0 /\ ~HasData(reg[0].op) THEN 0 ELSE (esm[q] + 1) % 5
      /\ ebuf'[q] = rest \o (IF moves THEN <<reg[esm[q]]>> ELSE <<>>)
      /\ link'[q] = IF sends THEN Append(link[q], Head(ebuf[q])) ELSE link[q]
  BY DEF EgressCycle
<1>3. \A j \in Parts : Left(q)[j] = IF moves /\ j = e.j THEN NoFlit ELSE reg[j]
  BY DEF Left, EgressMoves
<1>4. moves => reg[e.j] # NoFlit
  BY DEF EgressMoves
<1> HIDE DEF acc, reg, moves, sends
<1>5. /\ next \in Place /\ next.j = esm'[q]
      /\ Full(acc, q, Left(q)) /\ Bank(acc, Left(q), next, a)
      /\ moves => Exists(acc, e) /\ IsFlit(acc, q, reg[e.j], e.n, e.j)
  <2>0. Full(acc, q, reg) /\ Bank(acc, reg, e, a)
    BY DEF acc, reg
  <2>1. CASE moves
    <3>1. /\ Exists(acc, e) /\ IsFlit(acc, q, reg[e.j], e.n, e.j)
          /\ Full(acc, q, Left(q)) /\ Bank(acc, Left(q), Succ(acc, e), a)
          /\ Succ(acc, e).j = IF e.j = 0 /\ ~HasData(reg[0].op) THEN 0 ELSE (e.j + 1) % 5
      <4>1. \A j \in Parts : Left(q)[j] = IF j = e.j THEN NoFlit ELSE reg[j]
        BY <1>3, <2>1
      <4>2. QED
        BY <1>1, <1>4, <2>0, <2>1, <4>1, EgressMove, SMTT(30)
    <3>2. Succ(acc, e) \in Place
      BY <1>1, <3>1, SuccValid
    <3>3. QED
      BY <1>2, <2>1, <3>1, <3>2
  <2>2. CASE ~moves
    <3>1. \A j \in Parts : Left(q)[j] = reg[j]
      BY <1>3, <2>2
    <3>2. Full(acc, q, Left(q)) /\ Bank(acc, Left(q), e, a)
      BY <2>0, <3>1 DEF Full, Bank
    <3>3. QED
      BY <1>2, <2>2, <3>2
  <2>3. QED
    BY <2>1, <2>2
<1>6. mid \in Place /\ Path(acc, q, rest, mid, e) /\ Path(acc, q, link'[q], i, mid)
  <2>0. Path(acc, q, ebuf[q], m, e) /\ Path(acc, q, link[q], i, m)
    BY DEF acc
  <2>1. CASE sends
    <3>1. ebuf[q] # <<>>
      BY <2>1 DEF sends
    <3>2. /\ Exists(acc, m) /\ IsFlit(acc, q, Head(ebuf[q]), m.n, m.j)
          /\ Succ(acc, m) \in Place /\ Path(acc, q, Tail(ebuf[q]), Succ(acc, m), e)
      BY <1>1, <2>0, <3>1, PathTail
    <3>3. Path(acc, q, Append(link[q], Head(ebuf[q])), i, Succ(acc, m))
      BY <1>1, <2>0, <3>2, PathAppend
    <3>4. QED
      BY <1>2, <2>1, <3>2, <3>3
  <2>2. CASE ~sends
    BY <1>2, <2>0, <2>2
  <2>3. QED
    BY <2>1, <2>2
<1>7. Path(acc, q, ebuf'[q], mid, next)
  <2>0. rest \in Seq(FlitType)
    BY <1>6 DEF Path
  <2> HIDE DEF rest, mid
  <2>1. CASE moves
    <3>1. ebuf'[q] = rest \o <<reg[e.j]>> /\ reg[e.j] \in FlitType
      BY <1>1, <1>2, <2>1
    <3>2. ebuf'[q] = Append(rest, reg[e.j])
      BY <2>0, <3>1
    <3>3. QED
      BY <1>1, <1>5, <1>6, <2>1, <3>2, PathAppend
  <2>2. CASE ~moves
    <3>1. ebuf'[q] = rest
      BY <1>2, <2>0, <2>2
    <3>2. QED
      BY <1>6, <2>2, <3>1
  <2>3. QED
    BY <2>1, <2>2
<1>8. next = e \/ next = Succ(acc, e)
  OBVIOUS
<1>9. QED
  BY <1>5, <1>6, <1>7, <1>8 DEF acc

\* What is loaded is the next flit of the input, once.
LEMMA EgressLoads ==
    ASSUME Types, NEW valid \in BOOLEAN, NEW op \in Nat, NEW net \in SUBSET Ports,
           NEW ready, EgressCycle(valid, op, net, ready),
           NEW q \in Ports, NEW e \in Place, NEW next \in Place, NEW a \in Place,
           Full(accepted[q], q, ereg[q]), Bank(accepted[q], ereg[q], e, a),
           Loading(accepted[q], q, input, held, ereg[q], a),
           next = e \/ next = Succ(accepted[q], e),
           Full(accepted[q], q, Left(q)), Bank(accepted[q], Left(q), next, a)
    PROVE  /\ Grows(accepted[q], accepted'[q])
           /\ Full(accepted'[q], q, ereg'[q])
           /\ \E to \in Place : /\ Bank(accepted'[q], ereg'[q], next, to)
                                /\ Loading(accepted'[q], q, input', held', ereg'[q], to)
<1> DEFINE acc == accepted[q]
           more == accepted'[q]
           reg == ereg'[q]
           mid == Left(q)
           N == Len(acc)
           p == IF input.size = 0 THEN NextPort(net) ELSE input.port
           tready == EgressFree(p, Low(input.size))
           n == Len(accepted[p]) + (IF input.size = 0 THEN 1 ELSE 0)
           flit(j) == IF j = 0 THEN Flit(p, n, 0, op, net) ELSE Flit(p, n, j, 0, {})
<1>0. /\ acc \in Seq(Nat) /\ N \in Nat
      /\ input \in [turn : {0, 1}, size : 0..2, port : Ports]
      /\ op \in Nat
  BY OpcodesNumbers DEF Types
<1>p. p \in Ports
  BY <1>0 DEF NextPort, Ports
<1>1. \A j \in Parts : EgressFree(q, j) <=> mid[j] = NoFlit
  BY DEF EgressFree, EgressMoves, Left
<1>2. \A j \in Parts :
         reg[j] = IF valid /\ q = p /\ j \in Halves(input.size) /\ mid[j] = NoFlit
                  THEN flit(j) ELSE mid[j]
  <2>1. ereg' = [r \in Ports |-> [j \in Parts |->
           IF valid /\ r = p /\ j \in Halves(input.size) /\ EgressFree(r, j)
           THEN flit(j) ELSE IF EgressMoves(r, j) THEN NoFlit ELSE ereg[r][j]]]
    BY DEF EgressCycle
  <2>2. reg = [j \in Parts |->
           IF valid /\ q = p /\ j \in Halves(input.size) /\ EgressFree(q, j)
           THEN flit(j) ELSE IF EgressMoves(q, j) THEN NoFlit ELSE ereg[q][j]]
    BY <2>1
  <2>3. QED
    BY <1>1, <2>2 DEF Left
<1>3. /\ input' = IF ~(valid /\ tready) THEN input
                  ELSE IF input.size # 0 THEN [input EXCEPT !.size = input.size - 1]
                  ELSE [turn |-> 1 - input.turn,
                        size |-> IF HasData(op) THEN 2 ELSE 0,
                        port |-> IF HasData(op) THEN p ELSE input.port]
      /\ accepted' = IF valid /\ tready /\ input.size = 0
                     THEN [accepted EXCEPT ![p] = Append(accepted[p], op)] ELSE accepted
      /\ held # <<>> => valid
      /\ held' = IF valid /\ ~tready THEN <<[op |-> op, net |-> net]>> ELSE <<>>
  BY DEF EgressCycle
<1>4. more = IF valid /\ tready /\ input.size = 0 /\ q = p THEN Append(acc, op) ELSE acc
  BY <1>3, <1>p DEF Types
<1>5. Append(acc, op) \in Seq(Nat) /\ Grows(acc, Append(acc, op)) /\ Grows(acc, acc)
      /\ Len(Append(acc, op)) = N + 1 /\ Append(acc, op)[N + 1] = op
  BY <1>0, AppendProperties DEF Grows
<1>6. Grows(acc, more)
  BY <1>4, <1>5
<1>7. /\ Bank(acc, ereg[q], e, a) /\ Loading(acc, q, input, held, ereg[q], a)
      /\ Full(acc, q, mid) /\ Bank(acc, mid, next, a) /\ Full(acc, q, ereg[q])
      /\ next = e \/ next = Succ(acc, e)
  OBVIOUS
<1>8. \A j \in Parts : mid[j].n \in Nat /\ (mid[j] = NoFlit <=> mid[j].n = 0)
                       /\ ereg[q][j].n \in Nat /\ (ereg[q][j] = NoFlit <=> ereg[q][j].n = 0)
  BY <1>0, <1>7, EmptyIsZero
<1>9. valid /\ q = p => (tready <=> mid[Low(input.size)] = NoFlit)
  BY <1>0, <1>1, HalvesAre DEF Parts
<1> HIDE DEF acc, more, reg, mid, N, tready, n, flit
<1>10. ASSUME \A j \in Parts : reg[j] = mid[j], more = acc
       PROVE  Full(more, q, reg) /\ Bank(more, reg, next, a)
  BY <1>7, <1>10 DEF Full, Bank
<1>11. CASE ~valid \/ q # p
  <2>1. more = acc /\ \A j \in Parts : reg[j] = mid[j]
    BY <1>2, <1>4, <1>11
  <2>2. Loading(acc, q, input', held', reg, a)
    <3>1. CASE ~valid
      <4>1. held = <<>> /\ input' = input
        BY <1>3, <3>1
      <4>2. QED
        BY <1>7, <4>1 DEF Loading
    <3>2. CASE valid /\ q # p
      <4>1. ~(input.size > 0 /\ input.port = q)
        BY <1>0, <3>2
      <4>2. a = At(Len(acc) + 1, 0)
        BY <1>7, <4>1 DEF Loading
      <4>3. ~(input'.size > 0 /\ input'.port = q)
        BY <1>0, <1>3, <3>2, <4>1
      <4>4. QED
        BY <4>2, <4>3 DEF Loading
    <3>3. QED
      BY <1>11, <3>1, <3>2
  <2>3. QED
    BY <1>6, <1>10, <2>1, <2>2 DEF acc, more, reg
<1>12. CASE valid /\ q = p /\ input.size = 0
  <2>0. /\ a = At(N + 1, 0) /\ a.n = N + 1 /\ a.j = 0
        /\ Halves(input.size) = {0} /\ Low(input.size) = 0 /\ 0 \in Parts
    BY <1>7, <1>12, HalvesAre DEF Loading, N, At, Parts
  <2>1. CASE ~tready
    <3>1. more = acc /\ input' = input
      BY <1>3, <1>4, <2>1
    <3>2. mid[0] # NoFlit
      BY <1>9, <1>12, <2>0, <2>1
    <3>3. \A j \in Parts : reg[j] = mid[j]
      BY <1>2, <2>0, <3>2
    <3>4. Loading(acc, q, input', held', reg, a)
      BY <1>12, <2>0, <3>1 DEF Loading, N
    <3>5. QED
      BY <1>6, <1>10, <3>1, <3>3, <3>4 DEF acc, more, reg
  <2>2. CASE tready
    <3>1. more = Append(acc, op) /\ mid[0] = NoFlit
      BY <1>4, <1>9, <1>12, <2>0, <2>2
    <3>2. /\ more \in Seq(Nat) /\ Len(more) = N + 1 /\ more[N + 1] = op
      BY <1>5, <3>1
    <3>3. Full(more, q, mid) /\ Bank(more, mid, next, a)
      BY <1>6, <1>7, FullGrows, BankGrows
    <3>4. n = N + 1
      BY <1>12 DEF n, N, acc
    <3>5. \A j \in Parts : reg[j] = IF j = a.j THEN Flit(q, N + 1, 0, op, net) ELSE mid[j]
      BY <1>2, <1>12, <2>0, <3>1, <3>4 DEF flit
    <3>6. Exists(more, a) /\ IsFlit(more, q, Flit(q, N + 1, 0, op, net), a.n, a.j)
      <4>1. LastPart(more, N + 1) \in {0, 4}
        BY LastType
      <4>2. Exists(more, a)
        BY <1>0, <2>0, <3>2, <4>1 DEF Exists
      <4>3. Flit(q, N + 1, 0, op, net) =
               Flit(q, a.n, a.j, IF a.j = 0 THEN more[a.n] ELSE 0, IF a.j = 0 THEN net ELSE {})
        BY <2>0, <3>2
      <4>4. QED
        BY <4>2, <4>3 DEF IsFlit
    <3> DEFINE f == Flit(q, N + 1, 0, op, net)
    <3>7. /\ Full(more, q, reg) /\ Bank(more, reg, next, Succ(more, a))
          /\ Succ(more, a) \in Place
      <4>1. LoadsFlit(more, q, next, a, mid, reg, f)
        BY <2>0, <3>1, <3>3, <3>5, <3>6 DEF LoadsFlit
      <4> HIDE DEF f
      <4>2. QED
        BY <3>2, <4>1, LoadFlit
    <3>8. Loading(more, q, input', held', reg, Succ(more, a))
      <4>1. input' = [turn |-> 1 - input.turn,
                      size |-> IF HasData(op) THEN 2 ELSE 0,
                      port |-> IF HasData(op) THEN p ELSE input.port]
        BY <1>3, <1>12, <2>2
      <4>2. CASE HasData(op)
        <5>1. input'.size = 2 /\ input'.port = q
          BY <1>12, <4>1, <4>2
        <5>2. LastPart(more, N + 1) = 4
          BY <3>2, <4>2 DEF LastPart
        <5>3. Succ(more, a) = At(N + 1, 1)
          BY <2>0, <5>2 DEF Succ
        <5>4. Len(more) # 0 /\ HasData(more[Len(more)]) /\ 5 - 2 * input'.size = 1
          BY <1>0, <3>2, <4>2, <5>1
        <5>5. QED
          BY <3>2, <5>1, <5>3, <5>4 DEF Loading
      <4>3. CASE ~HasData(op)
        <5>1. ~(input'.size > 0)
          BY <4>1, <4>3
        <5>2. LastPart(more, N + 1) = 0
          BY <3>2, <4>3 DEF LastPart
        <5>3. Succ(more, a) = At(N + 1 + 1, 0)
          BY <2>0, <5>2 DEF Succ
        <5>4. QED
          BY <3>2, <5>1, <5>3 DEF Loading
      <4>4. QED
        BY <4>2, <4>3
    <3>9. QED
      BY <1>6, <3>7, <3>8 DEF acc, more, reg
  <2>3. QED
    BY <2>1, <2>2
<1>13. CASE valid /\ q = p /\ input.size # 0
  <2> DEFINE high == 5 - 2 * input.size
             low == high + 1
  <2>0. /\ input.size \in {1, 2} /\ input.size > 0 /\ input.port = q
        /\ high \in {1, 3} /\ low = 6 - 2 * input.size /\ low \in {2, 4} /\ high = low - 1
        /\ Halves(input.size) = {high, low} /\ Low(input.size) = low
        /\ low \in Parts /\ high \in Parts /\ 0 \notin {high, low}
    <3>1. input.size \in {1, 2} /\ input.size > 0
      BY <1>0, <1>13
    <3>2. input.port = q
      BY <1>13
    <3>3. CASE input.size = 1
      BY <3>1, <3>2, <3>3, HalvesAre DEF Parts
    <3>4. CASE input.size = 2
      BY <3>1, <3>2, <3>4, HalvesAre DEF Parts
    <3>5. QED
      BY <3>1, <3>3, <3>4
  <2> HIDE DEF high, low
  <2>1. more = acc
    BY <1>4, <1>13
  <2>2. /\ N # 0 /\ HasData(acc[N])
        /\ \/ a = At(N, high)
           \/ a = At(N, low) /\ ereg[q][low] # NoFlit
    BY <1>7, <2>0 DEF Loading, N, high
  <2>3. a = At(N, low) /\ ereg[q][low] # NoFlit => mid[high].n = N
    <3> SUFFICES ASSUME a = At(N, low), ereg[q][low] # NoFlit PROVE mid[high].n = N
      OBVIOUS
    <3>1. ereg[q][low].n \in Nat \ {0}
      BY <1>8, <2>0
    <3>2. /\ Bank(acc, ereg[q], e, At(Len(acc), low)) /\ Bank(acc, mid, next, At(Len(acc), low))
          /\ next = e \/ next = Succ(acc, e)
      BY <1>7 DEF N
    <3>3. Len(acc) # 0 /\ HasData(acc[Len(acc)]) /\ low \in {2, 4} /\ acc \in Seq(Nat)
      BY <1>0, <2>0, <2>2 DEF N
    <3>4. Early(acc, e, next, ereg[q], mid, low)
      BY <3>1, <3>2, <3>3 DEF Early
    <3>5. mid[low - 1].n = Len(acc)
      BY <3>3, <3>4, EarlyStays
    <3>6. QED
      BY <2>0, <3>5 DEF N
  <2>4. n = N
    BY <1>0, <1>13 DEF n, N, acc
  <2>5. \A j \in Parts : reg[j] = IF j \in {high, low} /\ mid[j] = NoFlit
                                  THEN Flit(q, N, j, 0, {}) ELSE mid[j]
    BY <1>2, <1>13, <2>0, <2>4 DEF flit
  <2>6. /\ Full(acc, q, reg)
        /\ mid[low] = NoFlit => Bank(acc, reg, next, Succ(acc, At(N, low)))
        /\ mid[low] # NoFlit =>
              \/ Bank(acc, reg, next, At(N, high))
              \/ Bank(acc, reg, next, At(N, low)) /\ reg[low] # NoFlit
    <3>1. /\ Len(acc) # 0 /\ HasData(acc[Len(acc)]) /\ high \in {1, 3}
          /\ \/ a = At(Len(acc), high)
             \/ a = At(Len(acc), high + 1) /\ mid[high].n = Len(acc)
      BY <2>0, <2>2, <2>3 DEF N, low
    <3>2. \A j \in Parts : reg[j] = IF j \in {high, high + 1} /\ mid[j] = NoFlit
                                    THEN Flit(q, Len(acc), j, 0, {}) ELSE mid[j]
      BY <2>5 DEF N, low
    <3>3. Full(acc, q, mid) /\ Bank(acc, mid, next, a)
      BY <1>7
    <3>4. /\ Full(acc, q, reg)
          /\ mid[high + 1] = NoFlit => Bank(acc, reg, next, Succ(acc, At(Len(acc), high + 1)))
          /\ mid[high + 1] # NoFlit =>
                \/ Bank(acc, reg, next, At(Len(acc), high))
                \/ Bank(acc, reg, next, At(Len(acc), high + 1)) /\ reg[high + 1] # NoFlit
      BY <1>0, <3>1, <3>2, <3>3, LoadHalves
    <3>5. QED
      BY <3>4 DEF N, low
  <2>7. tready <=> mid[low] = NoFlit
    BY <1>9, <1>13, <2>0
  <2>8. At(N, high) \in Place /\ At(N, low) \in Place
    BY <1>0, <2>0, <2>2 DEF At, Place
  <2>9. CASE tready
    <3>1. Bank(acc, reg, next, Succ(acc, At(N, low)))
      BY <2>6, <2>7, <2>9
    <3>2. LastPart(acc, N) = 4
      BY <2>2 DEF LastPart
    <3>3. Succ(acc, At(N, low)) = IF input.size = 2 THEN At(N, 3) ELSE At(N + 1, 0)
      <4>1. low = IF input.size = 2 THEN 2 ELSE 4
        BY <2>0
      <4>2. QED
        BY <3>2, <4>1 DEF Succ, At
    <3>4. input' = [input EXCEPT !.size = input.size - 1]
      BY <1>3, <1>13, <2>9
    <3>5. input'.size = input.size - 1 /\ input'.port = q
      BY <1>0, <2>0, <3>4
    <3>6. Loading(acc, q, input', held', reg, Succ(acc, At(N, low)))
      <4>1. CASE input.size = 2
        <5>1. input'.size = 1 /\ 5 - 2 * input'.size = 3
          BY <3>5, <4>1
        <5>2. QED
          BY <2>2, <3>3, <3>5, <4>1, <5>1 DEF Loading, N
      <4>2. CASE input.size = 1
        <5>1. input'.size = 0
          BY <3>5, <4>2
        <5>2. QED
          BY <3>3, <4>2, <5>1 DEF Loading, N
      <4>3. QED
        BY <2>0, <4>1, <4>2
    <3>7. Succ(acc, At(N, low)) \in Place
      BY <1>0, <3>3, <2>2 DEF At, Place, Parts
    <3>8. QED
      BY <1>6, <2>1, <2>6, <3>1, <3>6, <3>7 DEF acc, more, reg
  <2>10. CASE ~tready
    <3>1. input' = input /\ held' # <<>>
      BY <1>3, <1>13, <2>10
    <3>2. \/ Bank(acc, reg, next, At(N, high))
          \/ Bank(acc, reg, next, At(N, low)) /\ reg[low] # NoFlit
      BY <2>6, <2>7, <2>10
    <3>3. /\ Loading(acc, q, input', held', reg, At(N, high))
          /\ reg[low] # NoFlit => Loading(acc, q, input', held', reg, At(N, low))
      BY <2>0, <2>2, <3>1 DEF Loading, N, high
    <3>4. QED
      BY <1>6, <2>1, <2>6, <2>8, <3>2, <3>3 DEF acc, more, reg
  <2>11. QED
    BY <2>9, <2>10
<1>14. QED
  BY <1>0, <1>11, <1>12, <1>13

-----------------------------------------------------------------------------
(* The ingress.  A command is translated as it is loaded.                  *)

\* Part j of packet n of link p, as the ingress holds it.
InFlit(d, acc, p, n, j) ==
    Flit(p, n, j,
         IF j # 0 THEN 0 ELSE IF d = "requests" THEN acc[n] ELSE TLOpcode[acc[n]],
         IF j = 0 /\ d = "requests" THEN {p} ELSE {})

\* What the registers of a port of the ingress hold.
Translated(d, acc, p, reg) ==
    \A j \in Parts :
        reg[j] = NoFlit \/ (reg[j].n \in 1..Len(acc) /\ reg[j] = InFlit(d, acc, p, reg[j].n, j))

\* Where the next flit to be taken is: a command, or two halves.
Half(k) == IF k = 0 THEN 0 ELSE 2 * k - 1

\* The opcodes in use, by all the tests that are made of them.
LEMMA Decoded ==
    ASSUME OpcodesAgree, direction \in Directions, NEW op \in Opcodes[direction]
    PROVE  /\ DataFollowsIn(op) <=> HasData(op)
           /\ direction = "requests" =>
                 (DataFollows(op) <=> HasData(op)) /\ (Bit(op, 32) <=> HasData(op))
           /\ direction = "responses" =>
                 /\ op \in {4, 5, 8} /\ (op = 4 <=> HasData(op))
                 /\ Transcoded(op) = TLOpcode[op] /\ TLOpcode[op] \in Nat
                 /\ DataFollows(TLOpcode[op]) <=> HasData(op)
                 /\ TLOpcode[op] = 1 <=> HasData(op)
<1>1. CASE direction = "requests"
  <2>1. HasData(op) <=> Bit(op, 32)
    BY <1>1 DEF OpcodesAgree
  <2>2. direction # "responses"
    BY <1>1
  <2>3. QED
    BY <1>1, <2>1, <2>2 DEF DataFollowsIn, DataFollows
<1>2. CASE direction = "responses"
  <2>1. op \in {4, 5, 8} /\ direction # "requests"
    BY <1>2 DEF OpcodesAgree
  <2>2. TLOpcode[4] = 1 /\ TLOpcode[5] = 2 /\ TLOpcode[8] = 4
    BY DEF TLOpcode
  <2>3. CASE op = 4
    <3>1. ~Bit(op, 32) /\ Bit(op, 4) /\ ~Bit(op, 1) /\ ~Bit(op, 8) /\ Bit(1, 1)
      BY <2>3 DEF Bit
    <3>2. QED
      BY <1>2, <2>1, <2>2, <2>3, <3>1 DEF DataFollowsIn, DataFollows, HasData, Transcoded
  <2>4. CASE op = 5
    <3>1. ~Bit(op, 32) /\ Bit(op, 4) /\ Bit(op, 1) /\ ~Bit(op, 8) /\ ~Bit(2, 1)
      BY <2>4 DEF Bit
    <3>2. QED
      BY <1>2, <2>1, <2>2, <2>4, <3>1 DEF DataFollowsIn, DataFollows, HasData, Transcoded
  <2>5. CASE op = 8
    <3>1. ~Bit(op, 32) /\ ~Bit(op, 4) /\ ~Bit(op, 1) /\ Bit(op, 8) /\ ~Bit(4, 1)
      BY <2>5 DEF Bit
    <3>2. QED
      BY <1>2, <2>1, <2>2, <2>5, <3>1 DEF DataFollowsIn, DataFollows, HasData, Transcoded
  <2>6. QED
    BY <2>1, <2>3, <2>4, <2>5
<1>3. QED
  BY <1>1, <1>2 DEF Directions

\* The flit that arrives is the one of its place, translated.
LEMMA ArrivedIs ==
    ASSUME OpcodesAgree, direction \in Directions,
           NEW acc \in Seq(Opcodes[direction]), NEW p \in Ports, NEW f,
           NEW c \in Place, Exists(acc, c), IsFlit(acc, p, f, c.n, c.j)
    PROVE  /\ Arrived(p, f) = InFlit(direction, acc, p, c.n, c.j)
           /\ f.part = c.j
           /\ c.j = 0 => (DataFollowsIn(f.op) <=> HasData(acc[c.n]))
<1>1. PICK net \in SUBSET Ports :
        f = Flit(p, c.n, c.j, IF c.j = 0 THEN acc[c.n] ELSE 0, IF c.j = 0 THEN net ELSE {})
  BY DEF IsFlit
<1>2. acc[c.n] \in Opcodes[direction]
  BY DEF Exists, Place
<1>3. direction = "responses" => Transcoded(acc[c.n]) = TLOpcode[acc[c.n]]
  BY <1>2, Decoded
<1>4. f.part = c.j
  BY <1>1 DEF Flit
<1>5. CASE c.j # 0
  BY <1>1, <1>4, <1>5 DEF Arrived, InFlit, Flit
<1>6. CASE c.j = 0
  <2>1. f = [link |-> p, n |-> c.n, part |-> 0, op |-> acc[c.n], net |-> net]
    BY <1>1, <1>6 DEF Flit
  <2>2. DataFollowsIn(f.op) <=> HasData(acc[c.n])
    BY <1>2, <2>1, Decoded
  <2>3. CASE direction = "requests"
    <3>1. Arrived(p, f) = [f EXCEPT !.net = {p}]
      BY <1>4, <1>6, <2>3 DEF Arrived
    <3>2. QED
      BY <1>4, <1>6, <2>1, <2>2, <2>3, <3>1 DEF InFlit, Flit
  <2>4. CASE direction = "responses"
    <3>1. Arrived(p, f) = [f EXCEPT !.op = Transcoded(f.op), !.net = {}]
      BY <1>4, <1>6, <2>4 DEF Arrived
    <3>2. Arrived(p, f) = [link |-> p, n |-> c.n, part |-> 0,
                           op |-> TLOpcode[acc[c.n]], net |-> {}]
      BY <1>3, <2>1, <2>4, <3>1
    <3>3. QED
      BY <1>4, <1>6, <2>2, <2>4, <3>2 DEF InFlit, Flit
  <2>5. QED
    BY <2>3, <2>4 DEF Directions
<1>7. QED
  BY <1>4, <1>5, <1>6

\* A flit is loaded at its place.
LoadsNext(d, acc, p, o, i, reg, reg2) ==
    /\ Translated(d, acc, p, reg) /\ Bank(acc, reg, o, i)
    /\ Exists(acc, i) /\ reg[i.j] = NoFlit
    /\ \A j \in Parts : reg2[j] = IF j = i.j THEN InFlit(d, acc, p, i.n, i.j) ELSE reg[j]

LEMMA IngressLoad ==
    ASSUME NEW d, NEW acc \in Seq(Nat), NEW p \in Ports, NEW o \in Place, NEW i \in Place,
           NEW reg, NEW reg2, LoadsNext(d, acc, p, o, i, reg, reg2)
    PROVE  /\ Translated(d, acc, p, reg2) /\ Bank(acc, reg2, o, Succ(acc, i))
           /\ Succ(acc, i) \in Place
<1>1. /\ Translated(d, acc, p, reg) /\ Bank(acc, reg, o, i)
      /\ Exists(acc, i) /\ reg[i.j] = NoFlit
      /\ \A j \in Parts : reg2[j] = IF j = i.j THEN InFlit(d, acc, p, i.n, i.j) ELSE reg[j]
  BY DEF LoadsNext
<1>2. i.n \in 1..Len(acc) /\ i.j \in Parts /\ InFlit(d, acc, p, i.n, i.j).n = i.n
  BY <1>1 DEF Exists, Place, InFlit, Flit
<1>3. Translated(d, acc, p, reg2)
  BY <1>1, <1>2 DEF Translated
<1>4. reg[i.j].n = 0 /\ reg2[i.j].n = i.n /\ \A j \in Parts \ {i.j} : reg2[j].n = reg[j].n
  BY <1>1, <1>2 DEF NoFlit, Flit
<1>5. QED
  BY <1>1, <1>3, <1>4, BankLoad, SuccValid

ArrivalTypes ==
    /\ ireg \in [Ports -> [Parts -> FlitType]]
    /\ insm \in [Ports -> Parts]
    /\ ism \in [Ports -> 0..2]

\* The registers of link p when what goes to the output has left.
Taken(p) == [j \in Parts |-> IF Consumed(p, j) THEN NoFlit ELSE ireg[p][j]]

LEMMA TranslatedEmpty ==
    ASSUME NEW d, NEW acc \in Seq(Nat), NEW p, NEW reg, Translated(d, acc, p, reg), NEW j \in Parts
    PROVE  /\ reg[j].n \in Nat
           /\ reg[j] = NoFlit <=> reg[j].n = 0
BY DEF Translated, NoFlit, Flit

\* What is loaded from a link is the next flit.
LEMMA IngressLoads ==
    ASSUME OpcodesAgree, Types, ArrivalTypes,
           NEW arrived, NEW take, IngressCycle(arrived, take),
           NEW p \in Ports, NEW o \in Place, NEW i \in Place, NEW m \in Place,
           i.j = insm[p], Translated(direction, accepted[p], p, Taken(p)),
           Bank(accepted[p], Taken(p), o, i), Path(accepted[p], p, link[p], i, m)
    PROVE  /\ Translated(direction, accepted[p], p, ireg'[p])
           /\ \E next \in Place : /\ next.j = insm'[p]
                                  /\ Bank(accepted[p], ireg'[p], o, next)
                                  /\ Path(accepted[p], p, link'[p], next, m)
<1> DEFINE acc == accepted[p]
           mid == Taken(p)
           loads == p \in arrived /\ link[p] # <<>> /\ IngressFree(p, insm[p])
           f == Head(link[p])
           reg == ireg'[p]
<1>1. acc \in Seq(Nat) /\ acc \in Seq(Opcodes[direction]) /\ direction \in Directions /\ i.j \in Parts
  BY OpcodesNumbers DEF Types, Place
<1>2. /\ link'[p] = IF loads THEN Tail(link[p]) ELSE link[p]
      /\ insm'[p] = IF ~loads THEN insm[p]
                    ELSE IF insm[p] = 0 /\ ~DataFollowsIn(f.op) THEN 0 ELSE (insm[p] + 1) % 5
      /\ \A j \in Parts : reg[j] = IF loads /\ insm[p] = j THEN Arrived(p, f) ELSE mid[j]
  BY DEF IngressCycle, Taken
<1>3. loads => mid[i.j] = NoFlit
  BY <1>1 DEF IngressFree, Taken
<1>4. /\ Translated(direction, acc, p, mid) /\ Bank(acc, mid, o, i)
      /\ Path(acc, p, link[p], i, m)
  OBVIOUS
<1>5. loads => link[p] # <<>>
  OBVIOUS
<1> HIDE DEF acc, mid, loads, f, reg
<1>6. CASE ~loads
  <2>1. \A j \in Parts : reg[j] = mid[j]
    BY <1>2, <1>6
  <2>2. Translated(direction, acc, p, reg) /\ Bank(acc, reg, o, i)
    BY <1>4, <2>1 DEF Translated, Bank
  <2>3. i.j = insm'[p] /\ Path(acc, p, link'[p], i, m)
    BY <1>2, <1>4, <1>6
  <2>4. QED
    BY <2>2, <2>3 DEF acc, reg
<1>7. CASE loads
  <2>1. /\ Exists(acc, i) /\ IsFlit(acc, p, f, i.n, i.j)
        /\ Succ(acc, i) \in Place /\ Path(acc, p, Tail(link[p]), Succ(acc, i), m)
    BY <1>1, <1>4, <1>5, <1>7, PathTail DEF f
  <2>2. /\ Arrived(p, f) = InFlit(direction, acc, p, i.n, i.j)
        /\ i.j = 0 => (DataFollowsIn(f.op) <=> HasData(acc[i.n]))
    BY <1>1, <2>1, ArrivedIs
  <2>3. LoadsNext(direction, acc, p, o, i, mid, reg)
    <3>1. \A j \in Parts : reg[j] = IF j = i.j THEN InFlit(direction, acc, p, i.n, i.j) ELSE mid[j]
      BY <1>2, <1>7, <2>2
    <3>2. QED
      BY <1>3, <1>4, <1>7, <2>1, <3>1 DEF LoadsNext
  <2>4. Translated(direction, acc, p, reg) /\ Bank(acc, reg, o, Succ(acc, i))
    BY <1>1, <2>3, IngressLoad
  <2>5. Succ(acc, i).j = insm'[p]
    <3>1. LastPart(acc, i.n) = IF HasData(acc[i.n]) THEN 4 ELSE 0
      BY DEF LastPart
    <3>2. i.j <= LastPart(acc, i.n) /\ i.j \in 0..4
      BY <1>1, <2>1 DEF Exists, Parts
    <3>3. Succ(acc, i).j = IF i.j < LastPart(acc, i.n) THEN i.j + 1 ELSE 0
      BY DEF Succ, At
    <3>4. (i.j + 1) % 5 = IF i.j = 4 THEN 0 ELSE i.j + 1
      BY <3>2
    <3>5. insm'[p] = IF i.j = 0 /\ ~DataFollowsIn(f.op) THEN 0 ELSE (i.j + 1) % 5
      BY <1>2, <1>7
    <3>6. CASE HasData(acc[i.n])
      BY <2>2, <3>1, <3>2, <3>3, <3>4, <3>5, <3>6
    <3>7. CASE ~HasData(acc[i.n])
      <4>1. i.j = 0 /\ ~DataFollowsIn(f.op)
        BY <2>2, <3>1, <3>2, <3>7
      <4>2. QED
        BY <3>1, <3>3, <3>5, <3>7, <4>1
    <3>8. QED
      BY <3>6, <3>7
  <2>6. Path(acc, p, link'[p], Succ(acc, i), m)
    BY <1>2, <1>7, <2>1
  <2>7. QED
    BY <2>1, <2>4, <2>5, <2>6 DEF acc, reg
<1>8. QED
  BY <1>6, <1>7

-----------------------------------------------------------------------------
(* The output.  Packets of both links follow each other, each of them as   *)
(* the items that the node behind expects.                                 *)

ItemType == [cmd : FlitType, hi : FlitType, lo : FlitType]

\* The items of packet n of link p.
PacketOf(d, acc, p, n) ==
    LET c == InFlit(d, acc, p, n, 0)
        D(j) == InFlit(d, acc, p, n, j)
    IN  IF ~HasData(acc[n]) THEN <<Item(c, NoFlit, NoFlit)>>
        ELSE IF d = "requests"
        THEN <<Item(c, NoFlit, NoFlit), Item(NoFlit, D(1), D(2)), Item(NoFlit, D(3), D(4))>>
        ELSE <<Item(c, D(1), D(2)), Item(NoFlit, D(3), D(4))>>

Items(d, acc, n) == IF ~HasData(acc[n]) THEN 1 ELSE IF d = "requests" THEN 3 ELSE 2

\* How far a stream of items has come: the packets of each link that are complete,
\* and the items there are of the next packet of `link'.
Progress == [done : [Ports -> Nat], link : Ports, m : 0..2]

\* The item x takes the stream from a to b.
Continues(d, accs, a, x, b) ==
    LET p == b.link
        n == a.done[p] + 1
    IN  /\ n <= Len(accs[p])
        /\ a.m # 0 => a.link = p
        /\ a.m < Items(d, accs[p], n)
        /\ x = PacketOf(d, accs[p], p, n)[a.m + 1]
        /\ IF a.m + 1 = Items(d, accs[p], n)
           THEN b.m = 0 /\ b.done = [a.done EXCEPT ![p] = n]
           ELSE b.m = a.m + 1 /\ b.done = a.done

\* Where the state machine of the output is in the packet of link p, of which it takes
\* part Half(sm) next.
Writer(d, accs, sm, hdr, w) ==
    /\ (\A p \in Ports : sm[p] = 0) => w.m = 0 /\ hdr = NoFlit
    /\ \A p \in Ports : sm[p] # 0 =>
          /\ sm[Other(p)] = 0
          /\ w.done[p] + 1 <= Len(accs[p]) /\ HasData(accs[p][w.done[p] + 1])
          /\ w.m = IF d = "requests" THEN sm[p] ELSE sm[p] - 1
          /\ w.m # 0 => w.link = p
          /\ hdr = IF d = "responses" /\ sm[p] = 1
                   THEN InFlit(d, accs[p], p, w.done[p] + 1, 0) ELSE NoFlit

\* Part Half(k) of packet n goes to the output, with the part behind it if k is not 0.
TakesPart(d, acc, p, n, k, to, reg, reg2) ==
    /\ Translated(d, acc, p, reg) /\ Bank(acc, reg, At(n, Half(k)), to)
    /\ reg[2 * k] # NoFlit
    /\ \A j \in Parts : reg2[j] = IF j \in {Half(k), 2 * k} THEN NoFlit ELSE reg[j]

\* What follows part Half(k) of packet n, which is data or the next command.
HalfAfter(acc, n, k) == IF HasData(acc[n]) /\ k < 2 THEN k + 1 ELSE 0

LEMMA TakePart ==
    ASSUME NEW d, NEW acc \in Seq(Nat), NEW p \in Ports, NEW n \in Nat \ {0}, NEW k \in 0..2,
           NEW to \in Place, NEW reg, NEW reg2, TakesPart(d, acc, p, n, k, to, reg, reg2)
    PROVE  /\ n <= Len(acc) /\ (k # 0 => HasData(acc[n]))
           /\ \A j \in {Half(k), 2 * k} : reg[j] = InFlit(d, acc, p, n, j) /\ reg[j] # NoFlit
           /\ Translated(d, acc, p, reg2)
           /\ Bank(acc, reg2, LET k2 == HalfAfter(acc, n, k)
                              IN  At(IF k2 = 0 THEN n + 1 ELSE n, Half(k2)), to)
<1> DEFINE h == Half(k)
           l == 2 * k
           o == At(n, h)
<1>1. /\ Translated(d, acc, p, reg) /\ Bank(acc, reg, o, to) /\ reg[l] # NoFlit
      /\ \A j \in Parts : reg2[j] = IF j \in {h, l} THEN NoFlit ELSE reg[j]
  BY DEF TakesPart
<1>2. /\ h \in Parts /\ l \in Parts /\ h <= l /\ (h = 0 => l = 0) /\ (k = 0 => h = 0 /\ l = 0)
      /\ (k # 0 => h = l - 1 /\ h # 0) /\ o \in Place /\ o.n = n /\ o.j = h
  BY DEF Half, Parts, Place, At
<1>3. \A j \in Parts : reg[j].n \in Nat /\ (reg[j] = NoFlit <=> reg[j].n = 0)
  BY <1>1, TranslatedEmpty
<1>4. NoFlit.n = 0
  BY DEF NoFlit, Flit
<1> HIDE DEF h, l, o
<1>5. /\ Exists(acc, o) /\ l <= LastPart(acc, n)
      /\ reg[h].n = n /\ reg[l].n = n
  <2>1. reg[l].n \in Nat \ {0}
    BY <1>1, <1>2, <1>3
  <2>2. /\ Exists(acc, o) /\ l <= LastPart(acc, o.n)
        /\ \A i \in Parts : o.j <= i /\ i <= l => reg[i].n = o.n
    BY <1>1, <1>2, <2>1, BankAhead
  <2>3. h <= h /\ h <= l /\ l <= l
    BY <1>2 DEF Parts
  <2>4. QED
    BY <1>2, <2>2, <2>3
<1>6. n <= Len(acc) /\ (k # 0 => HasData(acc[n]))
  BY <1>2, <1>5 DEF Exists, LastPart, Parts, l
<1>7. \A j \in {h, l} : reg[j] = InFlit(d, acc, p, n, j) /\ reg[j] # NoFlit
  BY <1>1, <1>2, <1>3, <1>5 DEF Translated
<1>8. Translated(d, acc, p, reg2)
  BY <1>1 DEF Translated
<1> DEFINE mid == [j \in Parts |-> IF j = h THEN NoFlit ELSE reg[j]]
<1>9. mid[h].n = 0 /\ \A j \in Parts \ {h} : mid[j].n = reg[j].n
  BY <1>2, <1>4
<1> HIDE DEF mid
<1>10. Bank(acc, mid, Succ(acc, o), to)
  <2>1. reg[o.j].n \in Nat \ {0}
    BY <1>2, <1>5
  <2>2. QED
    BY <1>1, <1>2, <1>9, <2>1, BankMove
<1>11. CASE k = 0
  <2>1. \A j \in Parts : reg2[j] = mid[j]
    BY <1>1, <1>2, <1>11 DEF mid
  <2>2. Bank(acc, reg2, Succ(acc, o), to)
    BY <1>10, <2>1 DEF Bank
  <2>3. Succ(acc, o) = IF HasData(acc[n]) THEN At(n, 1) ELSE At(n + 1, 0)
    BY <1>2, <1>11 DEF Succ, LastPart
  <2>4. Succ(acc, o) = LET k2 == HalfAfter(acc, n, k)
                       IN  At(IF k2 = 0 THEN n + 1 ELSE n, Half(k2))
    BY <1>11, <2>3 DEF HalfAfter, Half
  <2>5. QED
    BY <1>6, <1>7, <1>8, <2>2, <2>4 DEF h, l
<1>12. CASE k # 0
  <2> DEFINE c == Succ(acc, o)
  <2>1. LastPart(acc, n) = 4
    BY <1>6, <1>12 DEF LastPart
  <2>2. c = At(n, l) /\ c.n = n /\ c.j = l /\ c \in Place
    <3>1. h + 1 = l /\ h < 4 /\ l \in Nat
      BY <1>2, <1>12 DEF Parts
    <3>2. QED
      BY <1>2, <2>1, <3>1 DEF Succ, At, Place
  <2> HIDE DEF c
  <2>3. /\ mid[c.j].n \in Nat \ {0}
        /\ reg2[c.j].n = 0 /\ \A j \in Parts \ {c.j} : reg2[j].n = mid[j].n
    BY <1>1, <1>2, <1>4, <1>5, <1>12, <2>2 DEF mid, Parts
  <2>4. Bank(acc, mid, c, to)
    BY <1>10 DEF c
  <2>5. Bank(acc, reg2, Succ(acc, c), to)
    BY <2>2, <2>3, <2>4, BankMove
  <2>6. Succ(acc, c) = LET k2 == HalfAfter(acc, n, k)
                       IN  At(IF k2 = 0 THEN n + 1 ELSE n, Half(k2))
    <3>1. CASE k = 1
      BY <1>6, <2>1, <2>2, <3>1 DEF HalfAfter, Half, Succ, At, l
    <3>2. CASE k = 2
      BY <1>6, <2>1, <2>2, <3>2 DEF HalfAfter, Half, Succ, At, l
    <3>3. QED
      BY <1>12, <3>1, <3>2
  <2>7. QED
    BY <1>6, <1>7, <1>8, <2>5, <2>6 DEF h, l
<1>13. QED
  BY <1>11, <1>12

\* What part Half(k) of packet n becomes at the output.
ItemOf(d, acc, p, n, k) ==
    IF k = 0 THEN Item(InFlit(d, acc, p, n, 0), NoFlit, NoFlit)
    ELSE Item(IF d = "responses" /\ k = 1 THEN InFlit(d, acc, p, n, 0) ELSE NoFlit,
              InFlit(d, acc, p, n, 2 * k - 1), InFlit(d, acc, p, n, 2 * k))

\* The command of a read response is not an item yet.
Kept(d, acc, n, k) == d = "responses" /\ k = 0 /\ HasData(acc[n])

\* The items there are of a packet before that one.
ItemsBefore(d, k) == IF d = "requests" \/ k = 0 THEN k ELSE k - 1

LEMMA ItemsAre ==
    ASSUME NEW d \in Directions, NEW acc, NEW p, NEW n, NEW k \in 0..2,
           k # 0 => HasData(acc[n]), ~Kept(d, acc, n, k)
    PROVE  /\ ItemsBefore(d, k) \in 0..2 /\ ItemsBefore(d, k) < Items(d, acc, n)
           /\ PacketOf(d, acc, p, n)[ItemsBefore(d, k) + 1] = ItemOf(d, acc, p, n, k)
           /\ ItemsBefore(d, k) + 1 = Items(d, acc, n) <=> HalfAfter(acc, n, k) = 0
<1>1. CASE ~HasData(acc[n])
  <2>1. k = 0
    BY <1>1
  <2>2. QED
    BY <1>1, <2>1 DEF ItemsBefore, Items, PacketOf, ItemOf, HalfAfter
<1>2. CASE HasData(acc[n]) /\ d = "requests"
  <2>1. CASE k = 0
    BY <1>2, <2>1 DEF ItemsBefore, Items, PacketOf, ItemOf, HalfAfter
  <2>2. CASE k = 1
    BY <1>2, <2>2 DEF ItemsBefore, Items, PacketOf, ItemOf, HalfAfter
  <2>3. CASE k = 2
    BY <1>2, <2>3 DEF ItemsBefore, Items, PacketOf, ItemOf, HalfAfter
  <2>4. QED
    BY <2>1, <2>2, <2>3
<1>3. CASE HasData(acc[n]) /\ d = "responses"
  <2>1. k # 0
    BY <1>3 DEF Kept
  <2>2. CASE k = 1
    BY <1>3, <2>2 DEF ItemsBefore, Items, PacketOf, ItemOf, HalfAfter
  <2>3. CASE k = 2
    BY <1>3, <2>3 DEF ItemsBefore, Items, PacketOf, ItemOf, HalfAfter
  <2>4. QED
    BY <2>1, <2>2, <2>3
<1>4. QED
  BY <1>1, <1>2, <1>3 DEF Directions

\* The writer after part Half(k) of packet n of link p.
Wrote(d, w, p, n, k2) ==
    [done |-> IF k2 = 0 THEN [w.done EXCEPT ![p] = n] ELSE w.done, link |-> p,
     m |-> IF k2 = 0 THEN 0 ELSE IF d = "requests" THEN k2 ELSE k2 - 1]

\* The state machine of the output goes on in the packet of link p, and nothing else.
OutputMoves(d, accs, sm, sm2, hdr, hdr2, w, p) ==
    LET n == w.done[p] + 1
    IN  /\ Writer(d, accs, sm, hdr, w)
        /\ sm[Other(p)] = 0 /\ sm2[Other(p)] = 0
        /\ n <= Len(accs[p]) /\ (sm[p] # 0 => HasData(accs[p][n]))
        /\ sm2[p] = HalfAfter(accs[p], n, sm[p])
        /\ hdr2 = IF d = "responses" /\ sm2[p] = 1 THEN InFlit(d, accs[p], p, n, 0) ELSE NoFlit

LEMMA WriterMoves ==
    ASSUME NEW d \in Directions, NEW accs, NEW sm, NEW sm2, NEW hdr, NEW hdr2,
           NEW w \in Progress, NEW p \in Ports, sm[p] \in 0..2,
           OutputMoves(d, accs, sm, sm2, hdr, hdr2, w, p)
    PROVE  LET n == w.done[p] + 1
               w2 == Wrote(d, w, p, n, sm2[p])
           IN  IF Kept(d, accs[p], n, sm[p])
               THEN Writer(d, accs, sm2, hdr2, w)
               ELSE /\ w2 \in Progress /\ Writer(d, accs, sm2, hdr2, w2)
                    /\ Continues(d, accs, w, ItemOf(d, accs[p], p, n, sm[p]), w2)
<1> DEFINE n == w.done[p] + 1
           q == Other(p)
           k == sm[p]
           k2 == sm2[p]
           w2 == Wrote(d, w, p, n, k2)
           acc == accs[p]
<1>1. /\ Writer(d, accs, sm, hdr, w)
      /\ sm[q] = 0 /\ sm2[q] = 0
      /\ n <= Len(acc) /\ (k # 0 => HasData(acc[n]))
      /\ k2 = HalfAfter(acc, n, k)
      /\ hdr2 = IF d = "responses" /\ k2 = 1 THEN InFlit(d, acc, p, n, 0) ELSE NoFlit
  BY DEF OutputMoves
<1>2. Ports = {p, q} /\ p # q /\ q \in Ports /\ Other(q) = p
  BY DEF Ports, Other
<1>3. k2 \in 0..2 /\ k \in 0..2 /\ (k2 = 0 \/ (k2 = k + 1 /\ HasData(acc[n])))
  BY <1>1 DEF HalfAfter
<1>4. /\ k = 0 => w.m = 0 /\ hdr = NoFlit
      /\ k # 0 => w.m = (IF d = "requests" THEN k ELSE k - 1) /\ (w.m # 0 => w.link = p)
  <2>1. CASE k = 0
    <3>1. \A r \in Ports : sm[r] = 0
      BY <1>1, <1>2, <2>1
    <3>2. QED
      BY <1>1, <2>1, <3>1 DEF Writer
  <2>2. CASE k # 0
    BY <1>1, <2>2 DEF Writer
  <2>3. QED
    BY <2>1, <2>2
<1>5. /\ w.done \in [Ports -> Nat] /\ w.link \in Ports /\ w.m \in 0..2 /\ n \in Nat
      /\ [w.done EXCEPT ![p] = n] \in [Ports -> Nat]
  BY DEF Progress
<1>6. d = "requests" \/ d = "responses"
  BY DEF Directions
<1>7. /\ w2.done = (IF k2 = 0 THEN [w.done EXCEPT ![p] = n] ELSE w.done) /\ w2.link = p
      /\ w2.m = IF k2 = 0 THEN 0 ELSE IF d = "requests" THEN k2 ELSE k2 - 1
  BY DEF Wrote
<1>8. w2 \in Progress
  BY <1>3, <1>5 DEF Wrote, Progress
<1> HIDE DEF n, q, k, k2, w2, acc
<1>9. ASSUME NEW v, v.m = (IF k2 = 0 THEN 0 ELSE IF d = "requests" THEN k2 ELSE k2 - 1),
             v.m # 0 => v.link = p, k2 # 0 => v.done[p] + 1 = n
      PROVE  Writer(d, accs, sm2, hdr2, v)
  <2>1. (\A r \in Ports : sm2[r] = 0) => v.m = 0 /\ hdr2 = NoFlit
    <3>1. (\A r \in Ports : sm2[r] = 0) => k2 = 0
      BY DEF k2
    <3>2. QED
      BY <1>1, <1>9, <3>1
  <2>2. ASSUME NEW r \in Ports, sm2[r] # 0
        PROVE  /\ sm2[Other(r)] = 0
               /\ v.done[r] + 1 <= Len(accs[r]) /\ HasData(accs[r][v.done[r] + 1])
               /\ v.m = IF d = "requests" THEN sm2[r] ELSE sm2[r] - 1
               /\ v.m # 0 => v.link = r
               /\ hdr2 = IF d = "responses" /\ sm2[r] = 1
                         THEN InFlit(d, accs[r], r, v.done[r] + 1, 0) ELSE NoFlit
    <3>1. r = p /\ k2 # 0
      BY <1>1, <1>2, <2>2 DEF k2
    <3>2. v.done[p] + 1 = n /\ HasData(acc[n])
      BY <1>3, <1>9, <3>1
    <3>3. QED
      BY <1>1, <1>9, <3>1, <3>2 DEF acc, k2, q
  <2>3. QED
    BY <2>1, <2>2 DEF Writer
<1>10. CASE Kept(d, acc, n, k)
  <2>1. d = "responses" /\ k = 0 /\ k2 = 1 /\ w.m = 0
    BY <1>1, <1>4, <1>10 DEF Kept, HalfAfter
  <2>2. Writer(d, accs, sm2, hdr2, w)
    BY <1>9, <2>1 DEF n
  <2>3. QED
    BY <1>10, <2>2 DEF acc, n, k
<1>11. CASE ~Kept(d, acc, n, k)
  <2>1. Writer(d, accs, sm2, hdr2, w2)
    BY <1>7, <1>9 DEF n
  <2>2. /\ w.m \in 0..2 /\ w.m < Items(d, acc, n)
        /\ PacketOf(d, acc, p, n)[w.m + 1] = ItemOf(d, acc, p, n, k)
        /\ w.m + 1 = Items(d, acc, n) <=> k2 = 0
    <3>1. k \in 0..2 /\ (k # 0 => HasData(acc[n])) /\ k2 = HalfAfter(acc, n, k)
      BY <1>1, <1>3
    <3>2. /\ ItemsBefore(d, k) \in 0..2 /\ ItemsBefore(d, k) < Items(d, acc, n)
          /\ PacketOf(d, acc, p, n)[ItemsBefore(d, k) + 1] = ItemOf(d, acc, p, n, k)
          /\ ItemsBefore(d, k) + 1 = Items(d, acc, n) <=> HalfAfter(acc, n, k) = 0
      BY <1>11, <3>1, ItemsAre
    <3>3. w.m = ItemsBefore(d, k)
      BY <1>4 DEF ItemsBefore
    <3>4. QED
      BY <3>1, <3>2, <3>3
  <2>3. k2 # 0 => w2.m = w.m + 1
    <3> SUFFICES ASSUME k2 # 0 PROVE w2.m = w.m + 1
      OBVIOUS
    <3>1. CASE k = 0
      <4>1. d = "requests"
        BY <1>3, <1>6, <1>11, <3>1 DEF Kept
      <4>2. QED
        BY <1>3, <1>4, <1>7, <3>1, <4>1
    <3>2. CASE k # 0
      BY <1>3, <1>4, <1>6, <1>7, <3>2
    <3>3. QED
      BY <3>1, <3>2
  <2>4. Continues(d, accs, w, ItemOf(d, acc, p, n, k), w2)
    <3>1. w.m # 0 => w.link = p
      BY <1>4
    <3>2. k2 = 0 => w2.m = 0 /\ w2.done = [w.done EXCEPT ![p] = n]
      BY <1>7
    <3>3. k2 # 0 => w2.m = w.m + 1 /\ w2.done = w.done
      BY <1>7, <2>3
    <3>4. QED
      BY <1>1, <1>7, <2>2, <3>1, <3>2, <3>3 DEF Continues, acc, n
  <2>5. QED
    BY <1>8, <1>11, <2>1, <2>4 DEF acc, n, k, k2, w2
<1>12. QED
  BY <1>10, <1>11 DEF acc, n, k

-----------------------------------------------------------------------------
(* A cycle of the output.                                                  *)

Active(p) == CmdMoves(p) \/ DataMoves(p, ism[p])

\* The registers of a port hold what has come and has not gone to the output.
InputSide(d, acc, p, reg, sm, w, to) ==
    Translated(d, acc, p, reg) /\ Bank(acc, reg, At(w.done[p] + 1, Half(sm)), to)

LEMMA Idle ==
    ASSUME Types, ArrivalTypes, NEW arrived, NEW take, IngressCycle(arrived, take),
           NEW p \in Ports, ~Active(p)
    PROVE  /\ Written(p) = <<>> /\ ism'[p] = ism[p]
           /\ \A j \in Parts : Taken(p)[j] = ireg[p][j]
<1>1. ~CmdMoves(p) /\ \A k \in 0..2 : ~DataMoves(p, k)
  BY DEF Active, DataMoves
<1>2. ism[p] \in 0..2
  BY DEF ArrivalTypes
<1>3. Written(p) = <<>>
  BY <1>1, <1>2 DEF Written
<1>4. ism'[p] = ism[p]
  BY <1>1, <1>2 DEF IngressCycle
<1>5. \A j \in Parts : (j + 1) \div 2 \in 0..2
  BY DEF Parts
<1>6. \A j \in Parts : ~Consumed(p, j)
  BY <1>1, <1>5 DEF Consumed
<1>7. QED
  BY <1>3, <1>4, <1>6 DEF Taken

LEMMA Moving ==
    ASSUME ArrivalTypes, NEW p \in Ports, Active(p), NEW w, NEW to,
           InputSide(direction, accepted[p], p, ireg[p], ism[p], w, to)
    PROVE  TakesPart(direction, accepted[p], p, w.done[p] + 1, ism[p], to, ireg[p], Taken(p))
<1> DEFINE k == ism[p]
<1>1. k \in 0..2
  BY DEF ArrivalTypes
<1>2. \A j \in Parts : Consumed(p, j) <=> j \in {Half(k), 2 * k}
  <2>1. CASE k = 0
    <3>1. CmdMoves(p)
      BY <2>1 DEF Active, DataMoves
    <3>2. \A j \in Parts : j # 0 => (j + 1) \div 2 # 0
      BY DEF Parts
    <3>3. \A j \in Parts : j # 0 => ~DataMoves(p, (j + 1) \div 2)
      BY <2>1, <3>2 DEF DataMoves
    <3>4. QED
      BY <2>1, <3>1, <3>3 DEF Consumed, Half
  <2>2. CASE k # 0
    <3>1. DataMoves(p, k) /\ ~CmdMoves(p)
      BY <2>2 DEF Active, CmdMoves
    <3>2. \A j \in Parts : j # 0 => ((j + 1) \div 2 = k <=> j \in {2 * k - 1, 2 * k})
      <4>1. \A j \in Parts : j # 0 => (j + 1) \div 2 = IF j <= 2 THEN 1 ELSE 2
        BY DEF Parts
      <4>2. k \in {1, 2}
        BY <1>1, <2>2
      <4> HIDE DEF k
      <4>3. QED
        BY <4>1, <4>2 DEF Parts
    <3>3. \A i : DataMoves(p, i) => i = k
      BY DEF DataMoves
    <3>4. 0 \notin {2 * k - 1, 2 * k}
      BY <1>1, <2>2
    <3> HIDE DEF k
    <3>5. \A j \in Parts : j # 0 => (DataMoves(p, (j + 1) \div 2) <=> j \in {2 * k - 1, 2 * k})
      BY <3>1, <3>2, <3>3
    <3>6. Half(k) = 2 * k - 1
      BY <2>2 DEF Half
    <3>7. QED
      BY <3>1, <3>4, <3>5, <3>6 DEF Consumed
  <2>3. QED
    BY <2>1, <2>2
<1>3. ireg[p][2 * k] # NoFlit
  <2>1. CASE k = 0
    BY <2>1 DEF Active, CmdMoves, DataMoves
  <2>2. CASE k # 0
    BY <2>2 DEF Active, CmdMoves, DataMoves
  <2>3. QED
    BY <2>1, <2>2
<1>4. \A j \in Parts : Taken(p)[j] = IF j \in {Half(k), 2 * k} THEN NoFlit ELSE ireg[p][j]
  BY <1>2 DEF Taken
<1>5. QED
  BY <1>3, <1>4 DEF TakesPart, InputSide

\* One link at a time goes to the output.
LEMMA OneActive ==
    ASSUME ArrivalTypes, NEW w, Writer(direction, accepted, ism, header, w),
           NEW p \in Ports, Active(p)
    PROVE  ism[Other(p)] = 0 /\ ~Active(Other(p))
<1>1. Ports = {p, Other(p)} /\ p # Other(p) /\ Other(Other(p)) = p
  BY DEF Ports, Other
<1>2. ism[Other(p)] = 0
  <2>1. CASE CmdMoves(p)
    BY <2>1 DEF CmdMoves
  <2>2. CASE DataMoves(p, ism[p])
    BY <2>2 DEF DataMoves, Writer
  <2>3. QED
    BY <2>1, <2>2 DEF Active
<1>3. ~DataMoves(Other(p), ism[Other(p)])
  BY <1>2 DEF DataMoves
<1>4. ~CmdMoves(Other(p))
  <2>1. CASE CmdMoves(p)
    BY <1>1, <2>1 DEF CmdMoves
  <2>2. CASE DataMoves(p, ism[p])
    BY <1>1, <2>2 DEF CmdMoves, DataMoves
  <2>3. QED
    BY <2>1, <2>2 DEF Active
<1>5. QED
  BY <1>2, <1>3, <1>4 DEF Active

LEMMA MovesOutput ==
    ASSUME OpcodesAgree, Types, ArrivalTypes, NEW arrived, NEW take, IngressCycle(arrived, take),
           NEW w \in Progress, Writer(direction, accepted, ism, header, w),
           NEW p \in Ports, Active(p), NEW to \in Place,
           InputSide(direction, accepted[p], p, ireg[p], ism[p], w, to)
    PROVE  LET n == w.done[p] + 1
           IN  /\ OutputMoves(direction, accepted, ism, ism', header, header', w, p)
               /\ Written(p) = IF Kept(direction, accepted[p], n, ism[p]) THEN <<>>
                               ELSE <<ItemOf(direction, accepted[p], p, n, ism[p])>>
               /\ Translated(direction, accepted[p], p, Taken(p))
               /\ Bank(accepted[p], Taken(p),
                       At(IF ism'[p] = 0 THEN n + 1 ELSE n, Half(ism'[p])), to)
<1> DEFINE n == w.done[p] + 1
           acc == accepted[p]
           k == ism[p]
           q == Other(p)
           c == ireg[p][0]
           k2 == HalfAfter(acc, n, k)
<1>1. /\ acc \in Seq(Nat) /\ acc \in Seq(Opcodes[direction]) /\ direction \in Directions
      /\ n \in Nat \ {0} /\ k \in 0..2
  BY OpcodesNumbers, SMTT(30) DEF Types, ArrivalTypes, Progress
<1>2. /\ ism[q] = 0 /\ ~Active(q) /\ Ports = {p, q} /\ p # q /\ q \in Ports
  BY OneActive DEF Ports, Other
<1>3. TakesPart(direction, acc, p, n, k, to, ireg[p], Taken(p))
  BY Moving
<1>4. Writer(direction, accepted, ism, header, w)
  OBVIOUS
<1> HIDE DEF n, acc, k, q, c, k2
<1>5. /\ n <= Len(acc) /\ (k # 0 => HasData(acc[n]))
      /\ \A j \in {Half(k), 2 * k} : ireg[p][j] = InFlit(direction, acc, p, n, j)
                                     /\ ireg[p][j] # NoFlit
      /\ Translated(direction, acc, p, Taken(p))
      /\ Bank(acc, Taken(p), At(IF k2 = 0 THEN n + 1 ELSE n, Half(k2)), to)
  BY <1>1, <1>3, TakePart DEF k2
<1>6. k = 0 => c = InFlit(direction, acc, p, n, 0) /\ (DataFollows(c.op) <=> HasData(acc[n]))
  <2> SUFFICES ASSUME k = 0
               PROVE  c = InFlit(direction, acc, p, n, 0) /\ (DataFollows(c.op) <=> HasData(acc[n]))
    OBVIOUS
  <2>1. c = InFlit(direction, acc, p, n, 0)
    BY <1>5 DEF Half, c
  <2>2. acc[n] \in Opcodes[direction]
    BY <1>1, <1>5
  <2>3. c.op = IF direction = "requests" THEN acc[n] ELSE TLOpcode[acc[n]]
    BY <2>1 DEF InFlit, Flit
  <2>4. QED
    BY <1>1, <2>1, <2>2, <2>3, Decoded DEF Directions
<1>7. k # 0 => /\ ireg[p][2 * k - 1] = InFlit(direction, acc, p, n, 2 * k - 1)
               /\ ireg[p][2 * k] = InFlit(direction, acc, p, n, 2 * k)
               /\ ireg[p][2 * k - 1] # NoFlit
  BY <1>5 DEF Half
<1>8. /\ k = 0 => CmdMoves(p) /\ ~DataMoves(p, k)
      /\ k # 0 => DataMoves(p, k) /\ ~CmdMoves(p)
      /\ \A j \in 1..2 : ~DataMoves(q, j)
      /\ \A j : DataMoves(p, j) => j = k
      /\ ~CmdMoves(q)
  BY <1>2 DEF Active, CmdMoves, DataMoves, k
<1>9. ism'[p] = k2
  <2>1. ism'[p] = IF \/ CmdMoves(p) /\ DataFollows(c.op)
                     \/ DataMoves(p, k) /\ ireg[p][2 * k - 1] # NoFlit
                  THEN (k + 1) % 3 ELSE k
    BY DEF IngressCycle, k, c
  <2>2. CASE k = 0
    <3>1. ism'[p] = IF HasData(acc[n]) THEN (k + 1) % 3 ELSE k
      BY <1>6, <1>8, <2>1, <2>2
    <3>2. QED
      BY <2>2, <3>1 DEF HalfAfter, k2
  <2>3. CASE k # 0
    <3>1. ism'[p] = (k + 1) % 3 /\ HasData(acc[n])
      BY <1>5, <1>7, <1>8, <2>1, <2>3
    <3>2. CASE k = 1
      BY <3>1, <3>2 DEF HalfAfter, k2
    <3>3. CASE k = 2
      BY <3>1, <3>3 DEF HalfAfter, k2
    <3>4. QED
      BY <1>1, <2>3, <3>2, <3>3
  <2>4. QED
    BY <2>2, <2>3
<1>10. Held = IF k = 0 /\ direction = "responses" /\ HasData(acc[n]) THEN {c} ELSE {}
  <2>1. \A r \in Ports : CmdMoves(r) <=> r = p /\ k = 0
    BY <1>2, <1>8
  <2>2. Held = {ireg[r][0] : r \in {r \in Ports :
                   CmdMoves(r) /\ direction = "responses" /\ DataFollows(ireg[r][0].op)}}
    BY DEF Held
  <2>3. {r \in Ports : CmdMoves(r) /\ direction = "responses" /\ DataFollows(ireg[r][0].op)} =
           IF k = 0 /\ direction = "responses" /\ HasData(acc[n]) THEN {p} ELSE {}
    BY <1>6, <2>1 DEF c
  <2>4. QED
    BY <2>2, <2>3 DEF c
<1>11. header' = IF direction = "responses" /\ k2 = 1
                 THEN InFlit(direction, acc, p, n, 0) ELSE NoFlit
  <2>1. header' = IF Held # {} THEN CHOOSE f \in Held : TRUE
                  ELSE IF \E r \in Ports : DataMoves(r, 1) THEN NoFlit ELSE header
    BY DEF IngressCycle
  <2>2. k = 0 => header = NoFlit
    <3>1. k = 0 => \A r \in Ports : ism[r] = 0
      BY <1>2 DEF k
    <3>2. QED
      BY <1>4, <3>1 DEF Writer
  <2>3. CASE k = 0 /\ direction = "responses" /\ HasData(acc[n])
    <3>1. header' = c
      BY <1>10, <2>1, <2>3
    <3>2. k2 = 1
      BY <2>3 DEF HalfAfter, k2
    <3>3. QED
      BY <1>6, <2>3, <3>1, <3>2
  <2>4. CASE k = 0 /\ ~(direction = "responses" /\ HasData(acc[n]))
    <3>1. ~\E r \in Ports : DataMoves(r, 1)
      BY <1>2, <1>8, <2>4
    <3>2. header' = NoFlit
      BY <1>10, <2>1, <2>2, <2>4, <3>1
    <3>3. direction # "responses" \/ k2 # 1
      BY <2>4 DEF HalfAfter, k2
    <3>4. QED
      BY <3>2, <3>3
  <2>5. CASE k = 1
    <3>1. header' = NoFlit
      BY <1>8, <1>10, <2>1, <2>5
    <3>2. k2 # 1
      BY <2>5 DEF HalfAfter, k2
    <3>3. QED
      BY <3>1, <3>2
  <2>6. CASE k = 2
    <3>1. ~\E r \in Ports : DataMoves(r, 1)
      BY <1>2, <1>8, <2>6
    <3>2. header' = header
      BY <1>10, <2>1, <2>6, <3>1
    <3>3. header = NoFlit
      BY <1>4, <2>6 DEF Writer, k
    <3>4. k2 # 1
      BY <2>6 DEF HalfAfter, k2
    <3>5. QED
      BY <3>2, <3>3, <3>4
  <2>7. QED
    BY <1>1, <2>3, <2>4, <2>5, <2>6
<1>12. Written(p) = IF Kept(direction, acc, n, k) THEN <<>> ELSE <<ItemOf(direction, acc, p, n, k)>>
  <2>1. Written(p) = IF CmdMoves(p) /\ c \notin Held THEN <<Item(c, NoFlit, NoFlit)>>
                     ELSE IF DataMoves(p, k)
                     THEN <<Item(IF k = 1 THEN header ELSE NoFlit,
                                 ireg[p][2 * k - 1], ireg[p][2 * k])>>
                     ELSE <<>>
    BY DEF Written, k, c
  <2>2. CASE k = 0
    BY <1>6, <1>8, <1>10, <2>1, <2>2 DEF Kept, ItemOf
  <2>3. CASE k # 0
    <3>1. Written(p) = <<Item(IF k = 1 THEN header ELSE NoFlit,
                              ireg[p][2 * k - 1], ireg[p][2 * k])>>
      BY <1>8, <2>1, <2>3
    <3>2. k = 1 => header = IF direction = "responses"
                            THEN InFlit(direction, acc, p, n, 0) ELSE NoFlit
      BY <1>4 DEF Writer, k, acc, n
    <3>3. QED
      BY <1>7, <2>3, <3>1, <3>2 DEF Kept, ItemOf
  <2>4. QED
    BY <2>2, <2>3
<1>13. ism'[q] = 0
  <2>1. ism'[q] = ism[q]
    BY <1>2, Idle
  <2>2. QED
    BY <1>2, <2>1
<1>14. OutputMoves(direction, accepted, ism, ism', header, header', w, p)
  BY <1>2, <1>4, <1>5, <1>9, <1>11, <1>13 DEF OutputMoves, acc, n, k, k2, q
<1>15. QED
  BY <1>5, <1>9, <1>12, <1>14 DEF acc, n, k

LEMMA ItemTyped ==
    ASSUME OpcodesAgree, Types, NEW p \in Ports, NEW n \in Nat \ {0}, n <= Len(accepted[p]),
           NEW k \in 0..2
    PROVE  ItemOf(direction, accepted[p], p, n, k) \in ItemType
<1>1. accepted[p] \in Seq(Opcodes[direction]) /\ direction \in Directions
  BY DEF Types
<1>2. accepted[p][n] \in Opcodes[direction] /\ accepted[p][n] \in Nat
  BY <1>1, OpcodesNumbers
<1>3. direction = "responses" => TLOpcode[accepted[p][n]] \in Nat
  BY <1>1, <1>2, Decoded
<1>4. \A j \in Parts : InFlit(direction, accepted[p], p, n, j) \in FlitType
  BY <1>1, <1>2, <1>3 DEF InFlit, Flit, FlitType, Directions
<1>5. NoFlit \in FlitType
  BY DEF NoFlit, Flit, FlitType, Ports, Parts
<1>6. 0 \in Parts /\ (k # 0 => 2 * k - 1 \in Parts /\ 2 * k \in Parts)
  BY DEF Parts
<1>7. QED
  BY <1>4, <1>5, <1>6 DEF ItemOf, Item, ItemType

\* What goes to the output is the next item of the stream.
LEMMA Writes ==
    ASSUME OpcodesAgree, Types, ArrivalTypes, NEW arrived, NEW take, IngressCycle(arrived, take),
           NEW w \in Progress, Writer(direction, accepted, ism, header, w),
           NEW i \in [Ports -> Place],
           \A p \in Ports : InputSide(direction, accepted[p], p, ireg[p], ism[p], w, i[p])
    PROVE  \E w2 \in Progress :
              /\ Writer(direction, accepted, ism', header', w2)
              /\ \A p \in Ports : InputSide(direction, accepted[p], p, Taken(p), ism'[p], w2, i[p])
              /\ \/ w2 = w /\ Written(0) \o Written(1) = <<>>
                 \/ \E x \in ItemType : /\ Written(0) \o Written(1) = <<x>>
                                        /\ Continues(direction, accepted, w, x, w2)
<1>1. CASE \A p \in Ports : ~Active(p)
  <2>1. \A p \in Ports : /\ Written(p) = <<>> /\ ism'[p] = ism[p]
                         /\ \A j \in Parts : Taken(p)[j] = ireg[p][j]
    BY <1>1, Idle
  <2>2. header' = header
    <3>1. \A p \in Ports : ~CmdMoves(p) /\ ~DataMoves(p, 1)
      BY <1>1 DEF Active, DataMoves
    <3>2. Held = {}
      BY <3>1 DEF Held
    <3>3. QED
      BY <3>1, <3>2 DEF IngressCycle
  <2>3. Writer(direction, accepted, ism', header', w)
    BY <2>1, <2>2 DEF Writer, Ports, Other
  <2>4. ASSUME NEW p \in Ports
        PROVE  InputSide(direction, accepted[p], p, Taken(p), ism'[p], w, i[p])
    BY <2>1 DEF InputSide, Translated, Bank
  <2>5. Written(0) \o Written(1) = <<>>
    <3>1. Written(0) = <<>> /\ Written(1) = <<>>
      BY <2>1 DEF Ports
    <3>2. QED
      BY <3>1
  <2>6. QED
    BY <2>3, <2>4, <2>5
<1>2. ASSUME NEW p \in Ports, Active(p)
      PROVE  \E w2 \in Progress :
              /\ Writer(direction, accepted, ism', header', w2)
              /\ \A r \in Ports : InputSide(direction, accepted[r], r, Taken(r), ism'[r], w2, i[r])
              /\ \/ w2 = w /\ Written(0) \o Written(1) = <<>>
                 \/ \E x \in ItemType : /\ Written(0) \o Written(1) = <<x>>
                                        /\ Continues(direction, accepted, w, x, w2)
  <2> DEFINE n == w.done[p] + 1
             acc == accepted[p]
             q == Other(p)
             k2 == ism'[p]
             w2 == Wrote(direction, w, p, n, k2)
             kept == Kept(direction, acc, n, ism[p])
             x == ItemOf(direction, acc, p, n, ism[p])
             v == IF kept THEN w ELSE w2
  <2>1. /\ OutputMoves(direction, accepted, ism, ism', header, header', w, p)
        /\ Written(p) = IF kept THEN <<>> ELSE <<x>>
        /\ Translated(direction, acc, p, Taken(p))
        /\ Bank(acc, Taken(p), At(IF k2 = 0 THEN n + 1 ELSE n, Half(k2)), i[p])
    BY <1>2, MovesOutput
  <2>2. IF kept THEN Writer(direction, accepted, ism', header', w)
        ELSE /\ w2 \in Progress /\ Writer(direction, accepted, ism', header', w2)
             /\ Continues(direction, accepted, w, x, w2)
    <3>1. ism[p] \in 0..2 /\ direction \in Directions
      BY DEF ArrivalTypes, Types
    <3>2. QED
      BY <2>1, <3>1, WriterMoves
  <2>3. Ports = {p, q} /\ p # q /\ q \in Ports /\ Ports = {0, 1}
    BY DEF Ports, Other
  <2>4. /\ ~Active(q) /\ Written(q) = <<>> /\ ism'[q] = ism[q]
        /\ \A j \in Parts : Taken(q)[j] = ireg[q][j]
    <3>1. ~Active(q) /\ q \in Ports
      BY <1>2, <2>3, OneActive
    <3>2. QED
      BY <3>1, Idle
  <2>5. Written(0) \o Written(1) = Written(p)
    <3>1. \/ p = 0 /\ q = 1
          \/ p = 1 /\ q = 0
      BY DEF Ports, Other
    <3>2. Written(q) = <<>> /\ (Written(p) = <<>> \/ Written(p) = <<x>>)
      BY <2>1, <2>4
    <3>3. /\ <<>> \o <<>> = <<>> /\ <<x>> \o <<>> = <<x>> /\ <<>> \o <<x>> = <<x>>
      OBVIOUS
    <3> HIDE DEF q, x
    <3>4. QED
      BY <3>1, <3>2, <3>3
  <2>6. x \in ItemType
    <3>1. n \in Nat \ {0} /\ n <= Len(accepted[p]) /\ ism[p] \in 0..2
      BY <2>1 DEF OutputMoves, Progress, ArrivalTypes
    <3>2. QED
      BY <3>1, ItemTyped
  <2>7. v \in Progress /\ Writer(direction, accepted, ism', header', v)
    BY <2>2
  <2>8. InputSide(direction, accepted[q], q, Taken(q), ism'[q], v, i[q])
    <3>1. v.done[q] = w.done[q]
      BY <2>3 DEF Wrote, Progress
    <3>2. InputSide(direction, accepted[q], q, ireg[q], ism[q], w, i[q])
      BY <2>3
    <3> HIDE DEF v, q
    <3>3. QED
      BY <2>4, <3>1, <3>2 DEF InputSide, Translated, Bank
  <2>9. InputSide(direction, acc, p, Taken(p), ism'[p], v, i[p])
    <3>1. v.done[p] + 1 = IF k2 = 0 THEN n + 1 ELSE n
      <4>1. CASE kept
        <5>1. k2 # 0
          BY <2>1, <4>1 DEF OutputMoves, Kept, HalfAfter
        <5>2. QED
          BY <4>1, <5>1
      <4>2. CASE ~kept
        <5>1. w.done \in [Ports -> Nat]
          BY DEF Progress
        <5>2. w2.done = IF k2 = 0 THEN [w.done EXCEPT ![p] = n] ELSE w.done
          BY DEF Wrote
        <5>3. w2.done[p] = IF k2 = 0 THEN n ELSE w.done[p]
          BY <5>1, <5>2
        <5>4. QED
          BY <4>2, <5>3
      <4>3. QED
        BY <4>1, <4>2
    <3> HIDE DEF v
    <3>2. QED
      BY <2>1, <3>1 DEF InputSide
  <2>10. \A r \in Ports : InputSide(direction, accepted[r], r, Taken(r), ism'[r], v, i[r])
    <3> HIDE DEF v, q
    <3>1. QED
      BY <2>3, <2>8, <2>9
  <2>11. \/ v = w /\ Written(0) \o Written(1) = <<>>
         \/ Written(0) \o Written(1) = <<x>> /\ Continues(direction, accepted, w, x, v)
    BY <2>1, <2>2, <2>5
  <2> HIDE DEF v, x
  <2>12. QED
    BY <2>6, <2>7, <2>10, <2>11
<1>3. QED
  BY <1>1, <1>2

-----------------------------------------------------------------------------
(* The stream of items between the state machine of the output and the     *)
(* node behind.                                                            *)

\* s holds the items that take the stream from a to b.
Stream(d, accs, s, a, b) ==
    /\ s \in Seq(ItemType)
    /\ \E k \in [1 .. Len(s) + 1 -> Progress] :
          /\ k[1] = a /\ k[Len(s) + 1] = b
          /\ \A i \in 1..Len(s) : Continues(d, accs, k[i], s[i], k[i + 1])

LEMMA StreamAppend ==
    ASSUME NEW d, NEW accs, NEW s, NEW a \in Progress, NEW b \in Progress, NEW c \in Progress,
           Stream(d, accs, s, a, b), NEW x \in ItemType, Continues(d, accs, b, x, c)
    PROVE  Stream(d, accs, Append(s, x), a, c)
<1>1. PICK k \in [1 .. Len(s) + 1 -> Progress] :
          /\ k[1] = a /\ k[Len(s) + 1] = b
          /\ \A i \in 1..Len(s) : Continues(d, accs, k[i], s[i], k[i + 1])
  BY DEF Stream
<1>2. s \in Seq(ItemType) /\ Len(s) \in Nat
  BY DEF Stream
<1>3. /\ Append(s, x) \in Seq(ItemType) /\ Len(Append(s, x)) = Len(s) + 1
      /\ \A i \in 1..Len(s) : Append(s, x)[i] = s[i]
      /\ Append(s, x)[Len(s) + 1] = x
  BY <1>2, AppendProperties
<1> DEFINE t == Append(s, x)
           h == [i \in 1 .. Len(t) + 1 |-> IF i <= Len(s) + 1 THEN k[i] ELSE c]
<1>4. h \in [1 .. Len(t) + 1 -> Progress]
  BY <1>2, <1>3
<1>5. h[1] = a /\ h[Len(t) + 1] = c
  BY <1>1, <1>2, <1>3
<1>6. ASSUME NEW i \in 1..Len(t)
      PROVE  Continues(d, accs, h[i], t[i], h[i + 1])
  <2>1. CASE i <= Len(s)
    <3>1. i \in 1..Len(s) /\ h[i] = k[i] /\ h[i + 1] = k[i + 1]
      BY <1>2, <1>3, <2>1
    <3>2. QED
      BY <1>1, <1>3, <3>1
  <2>2. CASE i = Len(s) + 1
    <3>1. h[i] = b /\ h[i + 1] = c
      BY <1>1, <1>2, <1>3, <2>2
    <3>2. QED
      BY <1>3, <2>2, <3>1
  <2>3. QED
    BY <1>2, <1>3, <2>1, <2>2
<1>7. QED
  BY <1>3, <1>4, <1>5, <1>6 DEF Stream

LEMMA StreamTail ==
    ASSUME NEW d, NEW accs, NEW s, NEW a \in Progress, NEW b \in Progress,
           Stream(d, accs, s, a, b), s # <<>>
    PROVE  /\ Head(s) \in ItemType
           /\ \E c \in Progress : Continues(d, accs, a, Head(s), c) /\ Stream(d, accs, Tail(s), c, b)
<1>1. PICK k \in [1 .. Len(s) + 1 -> Progress] :
          /\ k[1] = a /\ k[Len(s) + 1] = b
          /\ \A i \in 1..Len(s) : Continues(d, accs, k[i], s[i], k[i + 1])
  BY DEF Stream
<1>2. /\ s \in Seq(ItemType) /\ Len(s) \in Nat \ {0} /\ Head(s) = s[1] /\ Head(s) \in ItemType
      /\ Tail(s) \in Seq(ItemType) /\ Len(Tail(s)) = Len(s) - 1
      /\ \A i \in 1 .. Len(s) - 1 : Tail(s)[i] = s[i + 1]
  BY HeadTailProperties, EmptySeq DEF Stream
<1> DEFINE t == Tail(s)
           h == [i \in 1 .. Len(t) + 1 |-> k[i + 1]]
<1>3. Continues(d, accs, a, Head(s), k[2]) /\ k[2] \in Progress
  <2>1. 1 \in 1..Len(s) /\ 2 \in 1 .. Len(s) + 1
    BY <1>2
  <2>2. QED
    BY <1>1, <1>2, <2>1
<1>4. h \in [1 .. Len(t) + 1 -> Progress]
  BY <1>2
<1>5. h[1] = k[2] /\ h[Len(t) + 1] = b
  BY <1>1, <1>2
<1>6. ASSUME NEW i \in 1..Len(t)
      PROVE  Continues(d, accs, h[i], t[i], h[i + 1])
  <2> DEFINE l == i + 1
  <2>1. l \in 1..Len(s) /\ i \in 1 .. Len(s) - 1 /\ h[i] = k[l] /\ h[i + 1] = k[l + 1]
    BY <1>2
  <2>2. t[i] = s[l]
    BY <1>2, <2>1
  <2> HIDE DEF l, h, t
  <2>3. QED
    BY <1>1, <2>1, <2>2
<1>7. Stream(d, accs, t, k[2], b)
  BY <1>2, <1>4, <1>5, <1>6 DEF Stream
<1>8. QED
  BY <1>2, <1>3, <1>7

AllGrow(accs, more) == \A p \in Ports : Grows(accs[p], more[p])

LEMMA PacketGrows ==
    ASSUME NEW acc, NEW more, Grows(acc, more), NEW d, NEW p, NEW n \in Nat \ {0}, n <= Len(acc)
    PROVE  /\ n <= Len(more) /\ more[n] = acc[n]
           /\ PacketOf(d, more, p, n) = PacketOf(d, acc, p, n)
           /\ Items(d, more, n) = Items(d, acc, n)
<1>1. n \in 1..Len(acc) /\ n <= Len(more)
  BY DEF Grows
<1>2. more[n] = acc[n]
  BY <1>1 DEF Grows
<1>3. \A j : InFlit(d, more, p, n, j) = InFlit(d, acc, p, n, j)
  BY <1>2 DEF InFlit
<1>4. QED
  BY <1>1, <1>2, <1>3 DEF PacketOf, Items

LEMMA InFlitGrows ==
    ASSUME NEW acc, NEW more, Grows(acc, more), NEW d, NEW p, NEW n \in Nat \ {0}, n <= Len(acc), NEW j
    PROVE  InFlit(d, more, p, n, j) = InFlit(d, acc, p, n, j)
<1>1. n \in 1..Len(acc)
  BY DEF Grows
<1>2. QED
  BY <1>1 DEF InFlit, Grows

LEMMA ContinuesGrows ==
    ASSUME NEW accs, NEW more, AllGrow(accs, more), NEW d, NEW a \in Progress, NEW x,
           NEW b \in Progress, Continues(d, accs, a, x, b)
    PROVE  Continues(d, more, a, x, b)
<1> DEFINE p == b.link
           n == a.done[p] + 1
<1>1. p \in Ports /\ n \in Nat \ {0} /\ n <= Len(accs[p]) /\ Grows(accs[p], more[p])
  BY DEF Progress, Continues, AllGrow
<1>2. /\ n <= Len(more[p]) /\ PacketOf(d, more[p], p, n) = PacketOf(d, accs[p], p, n)
      /\ Items(d, more[p], n) = Items(d, accs[p], n)
  <2> DEFINE acc == accs[p]
             mor == more[p]
  <2>1. Grows(acc, mor) /\ n \in Nat \ {0} /\ n <= Len(acc)
    BY <1>1
  <2> HIDE DEF acc, mor, n, p
  <2>2. /\ n <= Len(mor) /\ PacketOf(d, mor, p, n) = PacketOf(d, acc, p, n)
        /\ Items(d, mor, n) = Items(d, acc, n)
    BY <2>1, PacketGrows
  <2>3. QED
    BY <2>2 DEF acc, mor
<1>3. QED
  BY <1>2 DEF Continues

LEMMA StreamGrows ==
    ASSUME NEW accs, NEW more, AllGrow(accs, more), NEW d, NEW s, NEW a, NEW b,
           Stream(d, accs, s, a, b)
    PROVE  Stream(d, more, s, a, b)
<1>1. PICK k \in [1 .. Len(s) + 1 -> Progress] :
          /\ k[1] = a /\ k[Len(s) + 1] = b
          /\ \A i \in 1..Len(s) : Continues(d, accs, k[i], s[i], k[i + 1])
  BY DEF Stream
<1>2. ASSUME NEW i \in 1..Len(s)
      PROVE  Continues(d, more, k[i], s[i], k[i + 1])
  <2>1. Len(s) \in Nat
    BY DEF Stream
  <2>2. k[i] \in Progress /\ k[i + 1] \in Progress
    BY <2>1
  <2>3. QED
    BY <1>1, <2>2, ContinuesGrows
<1>3. QED
  BY <1>1, <1>2 DEF Stream

-----------------------------------------------------------------------------
(* The node behind.                                                        *)

\* tk is the first items of packet n of link p.
Begun(d, acc, p, n, tk) ==
    /\ n \in Nat \ {0} /\ n <= Len(acc)
    /\ tk \in Seq(ItemType) /\ Len(tk) \in 1 .. Items(d, acc, n)
    /\ \A i \in 1..Len(tk) : tk[i] = PacketOf(d, acc, p, n)[i]

\* What was taken, when the node behind has come as far as t.
Reader(d, accs, tk, dl, t) ==
    /\ dl \in [Ports -> Seq(Nat)] /\ \A p \in Ports : Len(dl[p]) = t.done[p]
    /\ IF t.m = 0
       THEN \/ tk = <<>>
            \/ \E p \in Ports, n \in Nat : Begun(d, accs[p], p, n, tk) /\ Len(tk) = Items(d, accs[p], n)
       ELSE LET n == t.done[t.link] + 1
            IN  /\ Begun(d, accs[t.link], t.link, n, tk) /\ Len(tk) = t.m
                /\ t.m < Items(d, accs[t.link], n)

LEMMA PacketLength ==
    ASSUME NEW d \in Directions, NEW acc, NEW p, NEW n
    PROVE  /\ Items(d, acc, n) \in 1..3
           /\ Len(PacketOf(d, acc, p, n)) = Items(d, acc, n)
           /\ PacketOf(d, acc, p, n)[1].cmd = InFlit(d, acc, p, n, 0)
<1>1. CASE ~HasData(acc[n])
  BY <1>1 DEF Items, PacketOf, Item
<1>2. CASE HasData(acc[n])
  BY <1>2 DEF Items, PacketOf, Item, Directions
<1>3. QED
  BY <1>1, <1>2

\* The command of a packet says how many items it has.
LEMMA BegunSize ==
    ASSUME OpcodesAgree, Types, NEW p \in Ports, NEW n, NEW tk,
           Begun(direction, accepted[p], p, n, tk)
    PROVE  /\ tk # <<>> /\ tk[1].cmd = InFlit(direction, accepted[p], p, n, 0)
           /\ tk[1].cmd.link = p /\ tk[1].cmd.n = n
           /\ Complete(tk) <=> Len(tk) = Items(direction, accepted[p], n)
<1> DEFINE acc == accepted[p]
           c == tk[1].cmd
<1>1. acc \in Seq(Opcodes[direction]) /\ direction \in Directions /\ n \in 1..Len(acc)
      /\ tk \in Seq(ItemType) /\ Len(tk) \in Nat \ {0}
  <2>1. Items(direction, acc, n) \in Nat
    BY DEF Items
  <2>2. QED
    BY <2>1 DEF Types, Begun
<1>2. tk # <<>>
  BY <1>1
<1>3. c = InFlit(direction, acc, p, n, 0)
  <2>1. 1 \in 1..Len(tk)
    BY <1>1
  <2>2. tk[1] = PacketOf(direction, acc, p, n)[1]
    BY <2>1 DEF Begun
  <2>3. QED
    BY <1>1, <2>2, PacketLength
<1>4. c.link = p /\ c.n = n /\ c.op = IF direction = "requests" THEN acc[n] ELSE TLOpcode[acc[n]]
  BY <1>3 DEF InFlit, Flit
<1>5. acc[n] \in Opcodes[direction]
  BY <1>1
<1>6. Size(c) = Items(direction, acc, n)
  <2>1. CASE direction = "requests"
    <3>1. direction # "responses" /\ c.op = acc[n]
      BY <1>4, <2>1
    <3>2. Bit(c.op, 32) <=> HasData(acc[n])
      BY <1>1, <1>5, <2>1, <3>1, Decoded
    <3>3. CASE HasData(acc[n])
      BY <2>1, <3>1, <3>2, <3>3 DEF Size, Items
    <3>4. CASE ~HasData(acc[n])
      BY <2>1, <3>1, <3>2, <3>4 DEF Size, Items
    <3>5. QED
      BY <3>3, <3>4
  <2>2. CASE direction = "responses"
    <3>1. direction # "requests" /\ c.op = TLOpcode[acc[n]]
      BY <1>4, <2>2
    <3>2. c.op = 1 <=> HasData(acc[n])
      BY <1>1, <1>5, <2>2, <3>1, Decoded
    <3>3. CASE HasData(acc[n])
      BY <2>2, <3>1, <3>2, <3>3 DEF Size, Items
    <3>4. CASE ~HasData(acc[n])
      BY <2>2, <3>1, <3>2, <3>4 DEF Size, Items
    <3>5. QED
      BY <3>3, <3>4
  <2>3. QED
    BY <1>1, <2>1, <2>2 DEF Directions
<1>7. Complete(tk) <=> Len(tk) = Items(direction, acc, n)
  BY <1>2, <1>6 DEF Complete
<1>8. QED
  BY <1>2, <1>3, <1>4, <1>7

\* The node behind completes the next packet of a link.
Delivers(accs, dl, dl2) ==
    \E p \in Ports : /\ Len(dl[p]) < Len(accs[p])
                     /\ dl2 = [dl EXCEPT ![p] = Append(dl[p], Len(dl[p]) + 1)]

LEMMA Reads ==
    ASSUME OpcodesAgree, Types, NEW t \in Progress, NEW t2 \in Progress, NEW x \in ItemType,
           Reader(direction, accepted, taking, delivered, t),
           Continues(direction, accepted, t, x, t2), Takes(x)
    PROVE  /\ Reader(direction, accepted, taking', delivered', t2)
           /\ delivered' = delivered \/ Delivers(accepted, delivered, delivered')
<1> DEFINE p == t2.link
           n == t.done[p] + 1
           acc == accepted[p]
           next == taking'
           del == delivered'
           d == direction
           packet == PacketOf(d, acc, p, n)
           items == Items(d, acc, n)
<1>1. /\ p \in Ports /\ t.m \in 0..2 /\ t2.m \in 0..2 /\ n \in Nat \ {0}
      /\ t.done \in [Ports -> Nat] /\ t2.done \in [Ports -> Nat] /\ t.link \in Ports
      /\ n <= Len(acc) /\ d \in Directions /\ items \in 1..3
  <2>1. /\ p \in Ports /\ t.m \in 0..2 /\ t2.m \in 0..2 /\ t.link \in Ports
        /\ t.done \in [Ports -> Nat] /\ t2.done \in [Ports -> Nat]
    BY DEF Progress
  <2>2. n \in Nat \ {0}
    BY <2>1
  <2>3. n <= Len(acc)
    BY DEF Continues
  <2>4. d \in Directions
    BY DEF Types
  <2>5. items \in 1..3
    BY DEF Items
  <2>6. QED
    BY <2>1, <2>2, <2>3, <2>4, <2>5
<1>2. /\ t.m # 0 => t.link = p
      /\ t.m < items /\ x = packet[t.m + 1]
      /\ IF t.m + 1 = items
         THEN t2.m = 0 /\ t2.done = [t.done EXCEPT ![p] = n]
         ELSE t2.m = t.m + 1 /\ t2.done = t.done
  BY DEF Continues
<1>3. /\ delivered \in [Ports -> Seq(Nat)] /\ \A q \in Ports : Len(delivered[q]) = t.done[q]
      /\ IF t.m = 0
         THEN \/ taking = <<>>
              \/ \E q \in Ports, l \in Nat : /\ Begun(d, accepted[q], q, l, taking)
                                             /\ Len(taking) = Items(d, accepted[q], l)
         ELSE Begun(d, acc, p, n, taking) /\ Len(taking) = t.m
  BY <1>2, SMTT(30) DEF Reader
<1>4. /\ next = IF taking = <<>> \/ Complete(taking) THEN <<x>> ELSE Append(taking, x)
      /\ del = IF Complete(next)
               THEN [delivered EXCEPT ![next[1].cmd.link] =
                        Append(delivered[next[1].cmd.link], next[1].cmd.n)]
               ELSE delivered
  BY DEF Takes
<1> HIDE DEF p, n, acc, next, del, packet, items, d
<1>5. Begun(d, acc, p, n, next) /\ Len(next) = t.m + 1
  <2>1. CASE t.m = 0
    <3>1. taking = <<>> \/ Complete(taking)
      BY <1>3, <2>1, BegunSize DEF d
    <3>2. next = <<x>>
      BY <1>4, <3>1
    <3>3. next \in Seq(ItemType) /\ Len(next) = 1 /\ next[1] = packet[1]
      BY <1>2, <2>1, <3>2
    <3>4. Len(next) \in 1..items
      BY <1>1, <3>3
    <3>5. \A i \in 1..Len(next) : next[i] = packet[i]
      BY <3>3
    <3>6. QED
      BY <1>1, <2>1, <3>3, <3>4, <3>5 DEF Begun, packet, items
  <2>2. CASE t.m # 0
    <3>1. Begun(d, acc, p, n, taking) /\ Len(taking) = t.m
      BY <1>3, <2>2
    <3>2. taking # <<>> /\ ~Complete(taking)
      <4>1. Complete(taking) <=> Len(taking) = items
        BY <1>1, <3>1, BegunSize, ZenonT(60) DEF acc, d, items
      <4>2. taking # <<>>
        BY <1>1, <3>1, BegunSize, ZenonT(60) DEF acc, d
      <4>3. QED
        BY <1>1, <1>2, <3>1, <4>1, <4>2
    <3>3. next = Append(taking, x)
      BY <1>4, <3>2
    <3>4. taking \in Seq(ItemType) /\ \A i \in 1..Len(taking) : taking[i] = packet[i]
      BY <3>1 DEF Begun, packet
    <3>5. /\ next \in Seq(ItemType) /\ Len(next) = Len(taking) + 1
          /\ \A i \in 1..Len(taking) : next[i] = taking[i]
          /\ next[Len(taking) + 1] = x
      BY <3>3, <3>4, AppendProperties
    <3>6. Len(next) = t.m + 1 /\ Len(next) \in 1..items
      BY <1>1, <1>2, <3>1, <3>5
    <3>7. \A i \in 1..Len(next) : next[i] = packet[i]
      BY <1>1, <1>2, <3>1, <3>4, <3>5, SMTT(30)
    <3>8. QED
      BY <1>1, <3>5, <3>6, <3>7 DEF Begun, packet, items
  <2>3. QED
    BY <2>1, <2>2
<1>6. /\ next # <<>> /\ next[1].cmd.link = p /\ next[1].cmd.n = n
      /\ Complete(next) <=> t.m + 1 = items
  <2>1. p \in Ports /\ Begun(direction, accepted[p], p, n, next)
    BY <1>1, <1>5 DEF acc, d
  <2>2. ASSUME NEW tk, tk = next
        PROVE  /\ tk # <<>> /\ tk[1].cmd.link = p /\ tk[1].cmd.n = n
               /\ Complete(tk) <=> Len(tk) = Items(direction, accepted[p], n)
    <3>1. p \in Ports /\ Begun(direction, accepted[p], p, n, tk)
      BY <2>1, <2>2
    <3>2. QED
      BY <3>1, BegunSize, SMTT(30)
  <2>3. QED
    BY <1>5, <2>2 DEF acc, d, items
<1>7. CASE t.m + 1 = items
  <2>1. del = [delivered EXCEPT ![p] = Append(delivered[p], n)]
    BY <1>4, <1>6, <1>7
  <2>2. n = Len(delivered[p]) + 1
    BY <1>1, <1>3 DEF n
  <2>3. Delivers(accepted, delivered, del)
    <3>1. Len(delivered[p]) < Len(acc)
      BY <1>1, <1>3, <2>2
    <3>2. del = [delivered EXCEPT ![p] = Append(delivered[p], Len(delivered[p]) + 1)]
      BY <2>1, <2>2
    <3>3. QED
      BY <1>1, <3>1, <3>2 DEF Delivers, acc
  <2>4. Append(delivered[p], n) \in Seq(Nat) /\ Len(Append(delivered[p], n)) = n
    BY <1>1, <1>3, <2>2
  <2>5. del \in [Ports -> Seq(Nat)] /\ \A q \in Ports : Len(del[q]) = t2.done[q]
    BY <1>1, <1>2, <1>3, <1>7, <2>1, <2>4
  <2>6. t2.m = 0 /\ Begun(d, accepted[p], p, n, next) /\ Len(next) = Items(d, accepted[p], n) /\ n \in Nat
    BY <1>1, <1>2, <1>5, <1>7 DEF acc, items
  <2>7. Reader(d, accepted, next, del, t2)
    BY <1>1, <2>5, <2>6, SMTT(30) DEF Reader
  <2>8. QED
    BY <2>3, <2>7 DEF d, next, del
<1>8. CASE t.m + 1 # items
  <2>1. del = delivered /\ t2.m = t.m + 1 /\ t2.done = t.done
    BY <1>2, <1>4, <1>6, <1>8, Zenon
  <2>2. t2.m # 0 /\ t2.m < items /\ Len(next) = t2.m
    BY <1>1, <1>2, <1>5, <1>8, <2>1
  <2>3. Begun(d, accepted[t2.link], t2.link, t2.done[t2.link] + 1, next) /\ t2.m < Items(d, accepted[t2.link], t2.done[t2.link] + 1)
    BY <1>5, <2>1, <2>2 DEF acc, items, n, p
  <2>4. Reader(d, accepted, next, del, t2)
    BY <1>3, <2>1, <2>2, <2>3 DEF Reader
  <2>5. QED
    BY <2>1, <2>4 DEF d, next, del
<1>9. QED
  BY <1>7, <1>8

-----------------------------------------------------------------------------
(* The inductive invariant.                                                *)

\* Link p between the registers of the two nodes: e is sent next, i arrives next.
LinkSide(acc, p, inp, hld, reg, sm, buf, lnk, e, i) ==
    /\ EgressSide(acc, p, inp, hld, reg, sm, e)
    /\ \E m \in Place : Path(acc, p, buf, m, e) /\ Path(acc, p, lnk, i, m)

Agrees(e, i, w, t) ==
    /\ \A p \in Ports :
          /\ LinkSide(accepted[p], p, input, held, ereg[p], esm[p], ebuf[p], link[p], e[p], i[p])
          /\ i[p].j = insm[p]
          /\ InputSide(direction, accepted[p], p, ireg[p], ism[p], w, i[p])
    /\ Writer(direction, accepted, ism, header, w)
    /\ Stream(direction, accepted, obuf, t, w)
    /\ Reader(direction, accepted, taking, delivered, t)

\* What is under way is what the egress accepted, each flit at its place.
InPlace ==
    /\ Types /\ ArrivalTypes
    /\ \E e, i \in [Ports -> Place], w, t \in Progress : Agrees(e, i, w, t)

LEMMA EachPort ==
    ASSUME NEW S, NEW R \in [Ports -> SUBSET S], \A p \in Ports : R[p] # {}
    PROVE  \E f \in [Ports -> S] : \A p \in Ports : f[p] \in R[p]
<1> DEFINE f == [p \in Ports |-> CHOOSE x \in R[p] : TRUE]
<1>1. \A p \in Ports : f[p] \in R[p]
  OBVIOUS
<1>2. f \in [Ports -> S]
  BY <1>1
<1>3. QED
  BY <1>1, <1>2

LEMMA ReaderGrows ==
    ASSUME NEW accs, NEW more, AllGrow(accs, more), NEW d, NEW tk, NEW dl, NEW t \in Progress,
           Reader(d, accs, tk, dl, t)
    PROVE  Reader(d, more, tk, dl, t)
<1>1. ASSUME NEW p \in Ports, NEW n, Begun(d, accs[p], p, n, tk)
      PROVE  Begun(d, more[p], p, n, tk) /\ Items(d, more[p], n) = Items(d, accs[p], n)
  <2>1. n \in Nat \ {0} /\ n <= Len(accs[p]) /\ Grows(accs[p], more[p])
    BY <1>1 DEF Begun, AllGrow
  <2>2. /\ n <= Len(more[p]) /\ PacketOf(d, more[p], p, n) = PacketOf(d, accs[p], p, n)
        /\ Items(d, more[p], n) = Items(d, accs[p], n)
    <3> DEFINE acc == accs[p]
               mor == more[p]
    <3>1. Grows(acc, mor) /\ n <= Len(acc)
      BY <2>1
    <3> HIDE DEF acc, mor
    <3>2. /\ n <= Len(mor) /\ PacketOf(d, mor, p, n) = PacketOf(d, acc, p, n)
          /\ Items(d, mor, n) = Items(d, acc, n)
      BY <2>1, <3>1, PacketGrows
    <3>3. QED
      BY <3>2 DEF acc, mor
  <2>3. QED
    BY <1>1, <2>1, <2>2 DEF Begun
<1>2. t.link \in Ports
  BY DEF Progress
<1>3. QED
  BY <1>1, <1>2 DEF Reader

LEMMA WriterGrows ==
    ASSUME NEW accs, NEW more, AllGrow(accs, more), NEW d, NEW sm, NEW hdr, NEW w \in Progress,
           Writer(d, accs, sm, hdr, w)
    PROVE  Writer(d, more, sm, hdr, w)
<1>1. ASSUME NEW p \in Ports, sm[p] # 0
      PROVE  LET n == w.done[p] + 1
             IN  /\ n <= Len(more[p]) /\ HasData(more[p][n])
                 /\ InFlit(d, more[p], p, n, 0) = InFlit(d, accs[p], p, n, 0)
  <2> DEFINE n == w.done[p] + 1
             acc == accs[p]
             mor == more[p]
  <2>1. n \in Nat \ {0} /\ n <= Len(acc) /\ HasData(acc[n]) /\ Grows(acc, mor)
    BY <1>1 DEF Writer, Progress, AllGrow
  <2> HIDE DEF n, acc, mor
  <2>2. n <= Len(mor) /\ mor[n] = acc[n] /\ InFlit(d, mor, p, n, 0) = InFlit(d, acc, p, n, 0)
    BY <2>1, InFlitGrows, SMTT(30) DEF Grows
  <2>3. QED
    BY <2>1, <2>2 DEF n, acc, mor
<1>2. QED
  BY <1>1 DEF Writer

LEMMA InputGrows ==
    ASSUME NEW acc, NEW more, Grows(acc, more), NEW d, NEW p, NEW reg, NEW sm \in 0..2,
           NEW w \in Progress, p \in Ports, NEW to \in Place, InputSide(d, acc, p, reg, sm, w, to)
    PROVE  InputSide(d, more, p, reg, sm, w, to)
<1>1. At(w.done[p] + 1, Half(sm)) \in Place
  BY DEF Progress, At, Half, Place, Parts
<1>2. Bank(more, reg, At(w.done[p] + 1, Half(sm)), to)
  BY <1>1, BankGrows DEF InputSide
<1>3. Translated(d, more, p, reg)
  <2> SUFFICES ASSUME NEW j \in Parts, reg[j] # NoFlit
               PROVE  reg[j].n \in 1..Len(more) /\ reg[j] = InFlit(d, more, p, reg[j].n, j)
    BY DEF Translated
  <2>1. reg[j].n \in 1..Len(acc) /\ reg[j] = InFlit(d, acc, p, reg[j].n, j)
    BY DEF InputSide, Translated
  <2>2. Len(acc) \in Nat /\ Len(more) \in Nat
    BY DEF Grows
  <2>3. reg[j].n \in Nat \ {0} /\ reg[j].n <= Len(acc)
    BY <2>1, <2>2
  <2> DEFINE n == reg[j].n
  <2>4. n \in Nat \ {0} /\ n <= Len(acc)
    BY <2>3
  <2>5. Len(acc) <= Len(more)
    BY DEF Grows
  <2> HIDE DEF n
  <2>6. n <= Len(more)
    BY <2>2, <2>4, <2>5
  <2>7. InFlit(d, more, p, n, j) = InFlit(d, acc, p, n, j)
    BY <2>4, InFlitGrows
  <2>8. QED
    BY <2>1, <2>2, <2>4, <2>6, <2>7 DEF n
<1>4. QED
  BY <1>2, <1>3 DEF InputSide

\* A cycle of the egress, for one link.
LEMMA EgressLink ==
    ASSUME Types, NEW valid \in BOOLEAN, NEW op \in Nat, NEW net \in SUBSET Ports, NEW ready,
           EgressCycle(valid, op, net, ready), NEW q \in Ports, NEW e \in Place, NEW i \in Place,
           LinkSide(accepted[q], q, input, held, ereg[q], esm[q], ebuf[q], link[q], e, i)
    PROVE  /\ Grows(accepted[q], accepted'[q])
           /\ \E next \in Place :
                 LinkSide(accepted'[q], q, input', held', ereg'[q], esm'[q], ebuf'[q], link'[q], next, i)
<1> DEFINE acc == accepted[q]
           more == accepted'[q]
<1>1. /\ e.j = esm[q] /\ Full(acc, q, ereg[q])
      /\ \E a \in Place : Bank(acc, ereg[q], e, a) /\ Loading(acc, q, input, held, ereg[q], a)
      /\ \E m \in Place : Path(acc, q, ebuf[q], m, e) /\ Path(acc, q, link[q], i, m)
  BY DEF LinkSide, EgressSide
<1>2. PICK a \in Place : Bank(acc, ereg[q], e, a) /\ Loading(acc, q, input, held, ereg[q], a)
  BY <1>1
<1>3. PICK m \in Place : Path(acc, q, ebuf[q], m, e) /\ Path(acc, q, link[q], i, m)
  BY <1>1
<1>4. \E next \in Place, mid \in Place :
         /\ next = e \/ next = Succ(acc, e)
         /\ next.j = esm'[q]
         /\ Full(acc, q, Left(q)) /\ Bank(acc, Left(q), next, a)
         /\ Path(acc, q, ebuf'[q], mid, next)
         /\ Path(acc, q, link'[q], i, mid)
  BY <1>1, <1>2, <1>3, EgressSends
<1>5. PICK next \in Place, mid \in Place :
         /\ next = e \/ next = Succ(acc, e)
         /\ next.j = esm'[q]
         /\ Full(acc, q, Left(q)) /\ Bank(acc, Left(q), next, a)
         /\ Path(acc, q, ebuf'[q], mid, next)
         /\ Path(acc, q, link'[q], i, mid)
  BY <1>4
<1>6. /\ Grows(acc, more) /\ Full(more, q, ereg'[q])
      /\ \E to \in Place : /\ Bank(more, ereg'[q], next, to)
                           /\ Loading(more, q, input', held', ereg'[q], to)
  BY <1>1, <1>2, <1>5, EgressLoads
<1>7. EgressSide(more, q, input', held', ereg'[q], esm'[q], next)
  BY <1>5, <1>6 DEF EgressSide
<1>8. Path(more, q, ebuf'[q], mid, next) /\ Path(more, q, link'[q], i, mid)
  <2> HIDE DEF acc, more
  <2>1. QED
    BY <1>5, <1>6, PathGrows
<1>9. LinkSide(more, q, input', held', ereg'[q], esm'[q], ebuf'[q], link'[q], next, i)
  BY <1>7, <1>8 DEF LinkSide
<1>10. QED
  BY <1>6, <1>9

LEMMA EgressTypes ==
    ASSUME Types, NEW valid \in BOOLEAN, NEW op \in Nat, NEW net \in SUBSET Ports, NEW ready,
           EgressCycle(valid, op, net, ready),
           valid /\ input.size = 0 => op \in Opcodes[direction],
           \A q \in Ports : ebuf'[q] \in Seq(FlitType) /\ link'[q] \in Seq(FlitType)
    PROVE  Types'
<1> DEFINE command == input.size = 0
           p == IF command THEN NextPort(net) ELSE input.port
           tready == EgressFree(p, Low(input.size))
           n == Len(accepted[p]) + (IF command THEN 1 ELSE 0)
<1>1. /\ direction \in Directions /\ accepted \in [Ports -> Seq(Opcodes[direction])]
      /\ input \in [turn : {0, 1}, size : 0..2, port : Ports]
      /\ ereg \in [Ports -> [Parts -> FlitType]] /\ esm \in [Ports -> Parts]
  BY DEF Types
<1>2. p \in Ports
  BY <1>1 DEF NextPort, Ports
<1>3. n \in Nat
  <2>1. accepted[p] \in Seq(Nat)
    BY <1>2, OpcodesNumbers
  <2> DEFINE l == Len(accepted[p])
  <2>2. l \in Nat
    BY <2>1
  <2>3. n = l + (IF command THEN 1 ELSE 0)
    OBVIOUS
  <2> HIDE DEF l, n
  <2>4. QED
    BY <2>2, <2>3
<1>4. /\ input' = IF ~(valid /\ tready) THEN input
                  ELSE IF ~command THEN [input EXCEPT !.size = input.size - 1]
                  ELSE [turn |-> 1 - input.turn,
                        size |-> IF HasData(op) THEN 2 ELSE 0,
                        port |-> IF HasData(op) THEN p ELSE input.port]
      /\ accepted' = IF valid /\ tready /\ command
                     THEN [accepted EXCEPT ![p] = Append(accepted[p], op)] ELSE accepted
      /\ ereg' = [q \in Ports |-> [j \in Parts |->
           IF valid /\ q = p /\ j \in Halves(input.size) /\ EgressFree(q, j)
           THEN IF j = 0 THEN Flit(p, n, 0, op, net) ELSE Flit(p, n, j, 0, {})
           ELSE IF EgressMoves(q, j) THEN NoFlit ELSE ereg[q][j]]]
      /\ esm' = [q \in Ports |->
           IF ~EgressMoves(q, esm[q]) THEN esm[q]
           ELSE IF esm[q] = 0 /\ ~HasData(ereg[q][0].op) THEN 0 ELSE (esm[q] + 1) % 5]
      /\ ebuf' = [q \in Ports |-> ebuf'[q]] /\ link' = [q \in Ports |-> link'[q]]
      /\ direction' = direction
  <2>1. /\ ebuf' = [q \in Ports |->
               (IF q \in {r \in ready : ebuf[r] # <<>> /\ Len(link[r]) < LinkDepth}
                THEN Tail(ebuf[q]) ELSE ebuf[q]) \o
               (IF EgressMoves(q, esm[q]) THEN <<ereg[q][esm[q]]>> ELSE <<>>)]
        /\ link' = [q \in Ports |->
               IF q \in {r \in ready : ebuf[r] # <<>> /\ Len(link[r]) < LinkDepth}
               THEN Append(link[q], Head(ebuf[q])) ELSE link[q]]
    BY DEF EgressCycle
  <2>2. ebuf' = [q \in Ports |-> ebuf'[q]] /\ link' = [q \in Ports |-> link'[q]]
    BY <2>1
  <2>3. QED
    BY <2>2 DEF EgressCycle
<1>5. \A j \in Parts : /\ Flit(p, n, 0, op, net) \in FlitType /\ Flit(p, n, j, 0, {}) \in FlitType
                       /\ NoFlit \in FlitType
  <2>1. 0 \in Ports /\ 0 \in Parts
    BY DEF Ports, Parts
  <2> HIDE DEF p, n
  <2>2. QED
    BY <1>2, <1>3, <2>1 DEF Flit, NoFlit, FlitType
<1> HIDE DEF command, p, tready, n
<1>6. input' \in [turn : {0, 1}, size : 0..2, port : Ports]
  <2>1. CASE ~(valid /\ tready)
    BY <1>1, <1>4, <2>1
  <2>2. CASE valid /\ tready /\ ~command
    <3>1. input' = [input EXCEPT !.size = input.size - 1]
      BY <1>4, <2>2
    <3>2. input.size - 1 \in 0..2
      BY <1>1, <2>2 DEF command
    <3>3. QED
      BY <1>1, <3>1, <3>2
  <2>3. CASE valid /\ tready /\ command
    <3>1. input' = [turn |-> 1 - input.turn,
                    size |-> IF HasData(op) THEN 2 ELSE 0,
                    port |-> IF HasData(op) THEN p ELSE input.port]
      BY <1>4, <2>3
    <3>2. 1 - input.turn \in {0, 1}
      BY <1>1
    <3>3. QED
      BY <1>1, <1>2, <3>1, <3>2
  <2>4. QED
    BY <2>1, <2>2, <2>3
<1>7. accepted' \in [Ports -> Seq(Opcodes[direction])]
  <2>1. CASE valid /\ tready /\ command
    <3>1. op \in Opcodes[direction]
      BY <2>1 DEF command
    <3>2. Append(accepted[p], op) \in Seq(Opcodes[direction])
      BY <1>1, <1>2, <3>1
    <3>3. QED
      BY <1>1, <1>4, <2>1, <3>2
  <2>2. CASE ~(valid /\ tready /\ command)
    BY <1>1, <1>4, <2>2
  <2>3. QED
    BY <2>1, <2>2
<1>8. ereg' \in [Ports -> [Parts -> FlitType]]
  BY <1>1, <1>4, <1>5
<1>9. esm' \in [Ports -> Parts]
  <2>1. \A q \in Ports : esm'[q] \in Parts
    BY <1>1, <1>4, SMTT(30) DEF Parts
  <2>2. QED
    BY <1>4, <2>1
<1>10. ebuf' \in [Ports -> Seq(FlitType)] /\ link' \in [Ports -> Seq(FlitType)]
  BY <1>4
<1>11. QED
  BY <1>1, <1>4, <1>6, <1>7, <1>8, <1>9, <1>10 DEF Types

LEMMA EgressStep ==
    ASSUME InPlace, Egress
    PROVE  InPlace'
<1>1. PICK e \in [Ports -> Place], i \in [Ports -> Place], w \in Progress, t \in Progress :
        Agrees(e, i, w, t)
  BY DEF InPlace
<1>2. Types /\ ArrivalTypes
  BY DEF InPlace
<1>3. \E valid \in BOOLEAN, op \in Nat, net \in SUBSET Ports, ready \in SUBSET Ports :
        /\ EgressCycle(valid, op, net, ready)
        /\ valid /\ input.size = 0 => op \in Opcodes[direction]
  <2>1. PICK ready \in SUBSET Ports :
          \/ EgressCycle(FALSE, 0, {}, ready)
          \/ input.size > 0 /\ EgressCycle(TRUE, 0, {}, ready)
          \/ /\ input.size = 0
             /\ \E op \in Opcodes[direction], net \in Nets[direction] :
                   EgressCycle(TRUE, op, net, ready)
    BY DEF Egress
  <2>2. CASE EgressCycle(FALSE, 0, {}, ready)
    BY <2>2
  <2>3. CASE input.size > 0 /\ EgressCycle(TRUE, 0, {}, ready)
    <3>1. ~(input.size = 0)
      BY <2>3
    <3>2. QED
      BY <2>3, <3>1
  <2>4. CASE \E op \in Opcodes[direction], net \in Nets[direction] :
                EgressCycle(TRUE, op, net, ready)
    <3>1. PICK op \in Opcodes[direction], net \in Nets[direction] :
            EgressCycle(TRUE, op, net, ready)
      BY <2>4
    <3>2. direction \in Directions
      BY <1>2 DEF Types
    <3>3. op \in Nat /\ net \in SUBSET Ports
      BY <3>2, RoutingAssumption
    <3>4. QED
      BY <3>1, <3>3
  <2>5. QED
    BY <2>1, <2>2, <2>3, <2>4
<1>4. PICK valid \in BOOLEAN, op \in Nat, net \in SUBSET Ports, ready \in SUBSET Ports :
        /\ EgressCycle(valid, op, net, ready)
        /\ valid /\ input.size = 0 => op \in Opcodes[direction]
  BY <1>3
<1>5. /\ UNCHANGED <<direction, ireg, insm, ism, header, obuf, taking, delivered>>
  BY <1>4 DEF EgressCycle, ingressVars
<1>6. \A q \in Ports :
        /\ Grows(accepted[q], accepted'[q])
        /\ \E next \in Place :
              LinkSide(accepted'[q], q, input', held', ereg'[q], esm'[q], ebuf'[q], link'[q], next, i[q])
  <2>1. ASSUME NEW q \in Ports
        PROVE  LinkSide(accepted[q], q, input, held, ereg[q], esm[q], ebuf[q], link[q], e[q], i[q])
    BY <1>1 DEF Agrees
  <2>2. QED
    BY <1>2, <1>4, <2>1, EgressLink
<1>7. \E e2 \in [Ports -> Place] : \A q \in Ports :
        LinkSide(accepted'[q], q, input', held', ereg'[q], esm'[q], ebuf'[q], link'[q], e2[q], i[q])
  <2> DEFINE R == [q \in Ports |-> {next \in Place :
        LinkSide(accepted'[q], q, input', held', ereg'[q], esm'[q], ebuf'[q], link'[q], next, i[q])}]
  <2>1. R \in [Ports -> SUBSET Place] /\ \A q \in Ports : R[q] # {}
    BY <1>6
  <2>2. \A q \in Ports : \A next \in R[q] :
        LinkSide(accepted'[q], q, input', held', ereg'[q], esm'[q], ebuf'[q], link'[q], next, i[q])
    OBVIOUS
  <2> HIDE DEF R
  <2>3. QED
    BY <2>1, <2>2, EachPort
<1>8. PICK e2 \in [Ports -> Place] : \A q \in Ports :
        LinkSide(accepted'[q], q, input', held', ereg'[q], esm'[q], ebuf'[q], link'[q], e2[q], i[q])
  BY <1>7
<1>9. Types' /\ ArrivalTypes'
  <2>1. \A q \in Ports : ebuf'[q] \in Seq(FlitType) /\ link'[q] \in Seq(FlitType)
    BY <1>8 DEF LinkSide, Path
  <2>2. Types'
    BY <1>2, <1>4, <2>1, EgressTypes
  <2>3. ArrivalTypes'
    BY <1>2, <1>5 DEF ArrivalTypes
  <2>4. QED
    BY <2>2, <2>3
<1>10. AllGrow(accepted, accepted')
  BY <1>6 DEF AllGrow
<1>11. \A q \in Ports : /\ i[q].j = insm'[q]
                        /\ InputSide(direction', accepted'[q], q, ireg'[q], ism'[q], w, i[q])
  <2> SUFFICES ASSUME NEW q \in Ports
               PROVE  /\ i[q].j = insm[q]
                      /\ InputSide(direction, accepted'[q], q, ireg[q], ism[q], w, i[q])
    BY <1>5
  <2>1. i[q].j = insm[q] /\ InputSide(direction, accepted[q], q, ireg[q], ism[q], w, i[q])
    BY <1>1 DEF Agrees
  <2>2. Grows(accepted[q], accepted'[q]) /\ ism[q] \in 0..2 /\ i[q] \in Place
    BY <1>2, <1>6 DEF ArrivalTypes
  <2>3. QED
    BY <2>1, <2>2, InputGrows
<1>12. /\ Writer(direction', accepted', ism', header', w)
       /\ Stream(direction', accepted', obuf', t, w)
       /\ Reader(direction', accepted', taking', delivered', t)
  <2>1. /\ Writer(direction, accepted, ism, header, w)
        /\ Stream(direction, accepted, obuf, t, w)
        /\ Reader(direction, accepted, taking, delivered, t)
    BY <1>1 DEF Agrees
  <2>2. /\ Writer(direction, accepted', ism, header, w)
        /\ Stream(direction, accepted', obuf, t, w)
        /\ Reader(direction, accepted', taking, delivered, t)
    BY <1>10, <2>1, WriterGrows, StreamGrows, ReaderGrows
  <2>3. QED
    BY <1>5, <2>2
<1>13. Agrees(e2, i, w, t)'
  BY <1>8, <1>11, <1>12 DEF Agrees
<1>14. QED
  BY <1>9, <1>13 DEF InPlace

LEMMA ArrivalStep ==
    ASSUME OpcodesAgree, InPlace, Ingress
    PROVE  InPlace' /\ (delivered' = delivered \/ Delivers(accepted, delivered, delivered'))
<1>1. PICK e \in [Ports -> Place], i \in [Ports -> Place], w \in Progress, t \in Progress :
        Agrees(e, i, w, t)
  BY DEF InPlace
<1>2. Types /\ ArrivalTypes
  BY DEF InPlace
<1>3. PICK arrived, take : IngressCycle(arrived, take)
  BY DEF Ingress
<1>4. UNCHANGED <<direction, accepted, input, held, ereg, esm, ebuf>>
  BY <1>3 DEF IngressCycle, egressVars
<1>5. /\ \A p \in Ports :
            /\ EgressSide(accepted[p], p, input, held, ereg[p], esm[p], e[p])
            /\ \E m \in Place : /\ Path(accepted[p], p, ebuf[p], m, e[p])
                                /\ Path(accepted[p], p, link[p], i[p], m)
            /\ i[p].j = insm[p]
            /\ InputSide(direction, accepted[p], p, ireg[p], ism[p], w, i[p])
      /\ Writer(direction, accepted, ism, header, w)
      /\ Stream(direction, accepted, obuf, t, w)
      /\ Reader(direction, accepted, taking, delivered, t)
  BY <1>1 DEF Agrees, LinkSide
<1>6. \E w2 \in Progress :
         /\ Writer(direction, accepted, ism', header', w2)
         /\ \A p \in Ports : InputSide(direction, accepted[p], p, Taken(p), ism'[p], w2, i[p])
         /\ \/ w2 = w /\ Written(0) \o Written(1) = <<>>
            \/ \E x \in ItemType : /\ Written(0) \o Written(1) = <<x>>
                                   /\ Continues(direction, accepted, w, x, w2)
  BY <1>2, <1>3, <1>5, Writes
<1>7. PICK w2 \in Progress :
         /\ Writer(direction, accepted, ism', header', w2)
         /\ \A p \in Ports : InputSide(direction, accepted[p], p, Taken(p), ism'[p], w2, i[p])
         /\ \/ w2 = w /\ Written(0) \o Written(1) = <<>>
            \/ \E x \in ItemType : /\ Written(0) \o Written(1) = <<x>>
                                   /\ Continues(direction, accepted, w, x, w2)
  BY <1>6
<1>8. ism' \in [Ports -> 0..2]
  <2>1. ism' = [p \in Ports |->
           IF \/ CmdMoves(p) /\ DataFollows(ireg[p][0].op)
              \/ DataMoves(p, ism[p]) /\ ireg[p][2 * ism[p] - 1] # NoFlit
           THEN (ism[p] + 1) % 3 ELSE ism[p]]
    BY <1>3 DEF IngressCycle
  <2>2. \A p \in Ports : ism[p] \in 0..2 /\ (ism[p] + 1) % 3 \in 0..2
    BY <1>2 DEF ArrivalTypes
  <2>3. QED
    BY <2>1, <2>2
<1>9. ASSUME NEW p \in Ports
      PROVE  /\ Translated(direction, accepted[p], p, ireg'[p])
             /\ \E next \in Place :
                   /\ next.j = insm'[p]
                   /\ InputSide(direction, accepted[p], p, ireg'[p], ism'[p], w2, next)
                   /\ \E m \in Place : /\ Path(accepted[p], p, ebuf[p], m, e[p])
                                       /\ Path(accepted[p], p, link'[p], next, m)
  <2> DEFINE o == At(w2.done[p] + 1, Half(ism'[p]))
  <2>1. o \in Place
    BY <1>8, SMTT(30) DEF Progress, At, Half, Place, Parts
  <2>2. PICK m \in Place : /\ Path(accepted[p], p, ebuf[p], m, e[p])
                           /\ Path(accepted[p], p, link[p], i[p], m)
    BY <1>5
  <2>3. /\ Translated(direction, accepted[p], p, Taken(p))
        /\ Bank(accepted[p], Taken(p), o, i[p]) /\ i[p].j = insm[p] /\ i[p] \in Place
    BY <1>5, <1>7 DEF InputSide
  <2> HIDE DEF o
  <2>4. /\ Translated(direction, accepted[p], p, ireg'[p])
        /\ \E next \in Place : /\ next.j = insm'[p]
                               /\ Bank(accepted[p], ireg'[p], o, next)
                               /\ Path(accepted[p], p, link'[p], next, m)
    BY <1>2, <1>3, <2>1, <2>2, <2>3, IngressLoads
  <2>5. QED
    BY <2>2, <2>4 DEF InputSide, o
<1>10. \E i2 \in [Ports -> Place] : \A p \in Ports :
          /\ i2[p].j = insm'[p]
          /\ InputSide(direction, accepted[p], p, ireg'[p], ism'[p], w2, i2[p])
          /\ \E m \in Place : /\ Path(accepted[p], p, ebuf[p], m, e[p])
                              /\ Path(accepted[p], p, link'[p], i2[p], m)
  <2> DEFINE R == [p \in Ports |-> {next \in Place :
          /\ next.j = insm'[p]
          /\ InputSide(direction, accepted[p], p, ireg'[p], ism'[p], w2, next)
          /\ \E m \in Place : /\ Path(accepted[p], p, ebuf[p], m, e[p])
                              /\ Path(accepted[p], p, link'[p], next, m)}]
  <2>1. R \in [Ports -> SUBSET Place] /\ \A p \in Ports : R[p] # {}
    BY <1>9
  <2>2. \A p \in Ports : \A next \in R[p] :
          /\ next.j = insm'[p]
          /\ InputSide(direction, accepted[p], p, ireg'[p], ism'[p], w2, next)
          /\ \E m \in Place : /\ Path(accepted[p], p, ebuf[p], m, e[p])
                              /\ Path(accepted[p], p, link'[p], next, m)
    OBVIOUS
  <2> HIDE DEF R
  <2>3. QED
    BY <2>1, <2>2, EachPort
<1>11. PICK i2 \in [Ports -> Place] : \A p \in Ports :
          /\ i2[p].j = insm'[p]
          /\ InputSide(direction, accepted[p], p, ireg'[p], ism'[p], w2, i2[p])
          /\ \E m \in Place : /\ Path(accepted[p], p, ebuf[p], m, e[p])
                              /\ Path(accepted[p], p, link'[p], i2[p], m)
  BY <1>10
<1>12. Types'
  <2>1. link' \in [Ports -> Seq(FlitType)]
    <3>1. \A p \in Ports : link'[p] \in Seq(FlitType)
      BY <1>11 DEF Path
    <3>2. link' = [p \in Ports |-> link'[p]]
      <4>1. link' = [p \in Ports |->
               IF p \in arrived /\ link[p] # <<>> /\ IngressFree(p, insm[p])
               THEN Tail(link[p]) ELSE link[p]]
        BY <1>3 DEF IngressCycle
      <4>2. QED
        BY <4>1
    <3>3. QED
      BY <3>1, <3>2
  <2>2. QED
    BY <1>2, <1>4, <2>1 DEF Types
<1>13. ArrivalTypes'
  <2>1. ASSUME NEW p \in Ports, NEW j \in Parts
        PROVE  ireg'[p][j] \in FlitType
    <3> DEFINE n == ireg'[p][j].n
               acc == accepted[p]
    <3>1. \/ ireg'[p][j] = NoFlit
          \/ n \in 1..Len(acc) /\ ireg'[p][j] = InFlit(direction, acc, p, n, j)
      BY <1>9 DEF Translated
    <3>2. NoFlit \in FlitType
      BY DEF NoFlit, Flit, FlitType, Ports, Parts
    <3> HIDE DEF n
    <3>3. ASSUME n \in 1..Len(acc)
          PROVE  InFlit(direction, acc, p, n, j) \in FlitType
      <4>1. acc \in Seq(Opcodes[direction]) /\ direction \in Directions /\ acc \in Seq(Nat)
        BY <1>2, OpcodesNumbers DEF Types
      <4> HIDE DEF acc
      <4>2. acc[n] \in Opcodes[direction] /\ acc[n] \in Nat /\ n \in Nat
        BY <3>3, <4>1
      <4>3. direction = "responses" => TLOpcode[acc[n]] \in Nat
        BY <4>1, <4>2, Decoded
      <4>4. QED
        BY <4>1, <4>2, <4>3 DEF InFlit, Flit, FlitType, Directions
    <3>4. QED
      BY <3>1, <3>2, <3>3
  <2>2. ireg' \in [Ports -> [Parts -> FlitType]]
    <3>1. ireg' = [p \in Ports |-> [j \in Parts |-> ireg'[p][j]]]
      <4>1. ireg' = [p \in Ports |-> [j \in Parts |->
               IF (p \in arrived /\ link[p] # <<>> /\ IngressFree(p, insm[p])) /\ insm[p] = j
               THEN Arrived(p, Head(link[p]))
               ELSE IF Consumed(p, j) THEN NoFlit ELSE ireg[p][j]]]
        BY <1>3 DEF IngressCycle
      <4>2. QED
        BY <4>1
    <3>2. QED
      BY <2>1, <3>1
  <2>3. insm' \in [Ports -> Parts]
    <3>1. \A p \in Ports : insm'[p] \in Parts
      BY <1>11 DEF Place
    <3>2. insm' = [p \in Ports |-> insm'[p]]
      <4>1. insm' = [p \in Ports |->
               IF ~(p \in arrived /\ link[p] # <<>> /\ IngressFree(p, insm[p])) THEN insm[p]
               ELSE IF insm[p] = 0 /\ ~DataFollowsIn(Head(link[p]).op) THEN 0
               ELSE (insm[p] + 1) % 5]
        BY <1>3 DEF IngressCycle
      <4>2. QED
        BY <4>1
    <3>3. QED
      BY <3>1, <3>2
  <2>4. QED
    BY <1>8, <2>2, <2>3 DEF ArrivalTypes
<1>14. \E t2 \in Progress :
          /\ Stream(direction, accepted, obuf', t2, w2)
          /\ Reader(direction, accepted, taking', delivered', t2)
          /\ delivered' = delivered \/ Delivers(accepted, delivered, delivered')
  <2> DEFINE taken == take /\ obuf # <<>>
             rest == IF taken THEN Tail(obuf) ELSE obuf
             new == Written(0) \o Written(1)
  <2>1. /\ obuf' = rest \o Written(0) \o Written(1)
        /\ IF taken THEN Takes(Head(obuf)) ELSE UNCHANGED <<taking, delivered>>
    BY <1>3 DEF IngressCycle
  <2>2. \E t2 \in Progress :
          /\ Stream(direction, accepted, rest, t2, w)
          /\ Reader(direction, accepted, taking', delivered', t2)
          /\ delivered' = delivered \/ Delivers(accepted, delivered, delivered')
    <3>1. CASE taken
      <4>1. PICK t2 \in Progress : /\ Continues(direction, accepted, t, Head(obuf), t2)
                                   /\ Stream(direction, accepted, Tail(obuf), t2, w)
        BY <1>5, <3>1, StreamTail
      <4>2. Head(obuf) \in ItemType
        BY <1>5, <3>1, StreamTail
      <4>3. Takes(Head(obuf))
        BY <2>1, <3>1
      <4> DEFINE x == Head(obuf)
      <4> HIDE DEF x
      <4>4. x \in ItemType /\ Continues(direction, accepted, t, x, t2) /\ Takes(x)
        BY <4>1, <4>2, <4>3 DEF x
      <4>5. /\ Reader(direction, accepted, taking', delivered', t2)
            /\ delivered' = delivered \/ Delivers(accepted, delivered, delivered')
        BY <1>2, <1>5, <4>4, Reads
      <4>6. QED
        BY <3>1, <4>1, <4>5
    <3>2. CASE ~taken
      BY <1>5, <2>1, <3>2
    <3>3. QED
      BY <3>1, <3>2
  <2>3. PICK t2 \in Progress :
          /\ Stream(direction, accepted, rest, t2, w)
          /\ Reader(direction, accepted, taking', delivered', t2)
          /\ delivered' = delivered \/ Delivers(accepted, delivered, delivered')
    BY <2>2
  <2>4. obuf' = rest \o new
    <3>1. rest \in Seq(ItemType)
      BY <2>3 DEF Stream
    <3>2. \A p \in Ports : Written(p) = <<>> \/ \E y : Written(p) = <<y>>
      BY DEF Written
    <3>3. /\ Written(0) = <<>> \/ \E y : Written(0) = <<y>>
          /\ Written(1) = <<>> \/ \E y : Written(1) = <<y>>
      BY <3>2 DEF Ports
    <3> DEFINE A == Written(0)
               B == Written(1)
    <3> HIDE DEF rest, A, B
    <3>4. A = <<>> \/ \E y : A = <<y>>
      BY <3>3 DEF A
    <3>5. B = <<>> \/ \E y : B = <<y>>
      BY <3>3 DEF B
    <3>6. rest \o A \o B = rest \o (A \o B)
      BY <3>1, <3>4, <3>5
    <3>7. QED
      BY <2>1, <3>6 DEF A, B
  <2>5. Stream(direction, accepted, obuf', t2, w2)
    <3>1. CASE w2 = w /\ new = <<>>
      <4>1. rest \in Seq(ItemType)
        BY <2>3 DEF Stream
      <4>2. obuf' = rest
        <5>1. obuf' = rest \o new /\ new = <<>>
          BY <2>4, <3>1
        <5> HIDE DEF rest, new
        <5>2. QED
          BY <4>1, <5>1
      <4>3. QED
        BY <2>3, <3>1, <4>2
    <3>2. CASE \E x \in ItemType : new = <<x>> /\ Continues(direction, accepted, w, x, w2)
      <4>1. PICK x \in ItemType : new = <<x>> /\ Continues(direction, accepted, w, x, w2)
        BY <3>2
      <4>2. rest \in Seq(ItemType)
        BY <2>3 DEF Stream
      <4>3. obuf' = Append(rest, x)
        <5>1. obuf' = rest \o new /\ new = <<x>>
          BY <2>4, <4>1
        <5> HIDE DEF rest, new
        <5>2. QED
          BY <4>2, <5>1
      <4>4. Stream(direction, accepted, Append(rest, x), t2, w2)
        BY <2>3, <4>1, StreamAppend
      <4>5. QED
        BY <4>3, <4>4
    <3>3. QED
      BY <1>7, <3>1, <3>2
  <2>6. QED
    BY <2>3, <2>5
<1>15. PICK t2 \in Progress :
          /\ Stream(direction, accepted, obuf', t2, w2)
          /\ Reader(direction, accepted, taking', delivered', t2)
          /\ delivered' = delivered \/ Delivers(accepted, delivered, delivered')
  BY <1>14
<1>16. \A p \in Ports : LinkSide(accepted'[p], p, input', held', ereg'[p], esm'[p], ebuf'[p],
                                 link'[p], e[p], i2[p])
  <2>1. \A p \in Ports : LinkSide(accepted[p], p, input, held, ereg[p], esm[p], ebuf[p],
                                  link'[p], e[p], i2[p])
    BY <1>5, <1>11 DEF LinkSide
  <2>2. QED
    BY <1>4, <2>1
<1>17. /\ \A p \in Ports : /\ i2[p].j = insm'[p]
                           /\ InputSide(direction', accepted'[p], p, ireg'[p], ism'[p], w2, i2[p])
       /\ Writer(direction', accepted', ism', header', w2)
       /\ Stream(direction', accepted', obuf', t2, w2)
       /\ Reader(direction', accepted', taking', delivered', t2)
  BY <1>4, <1>7, <1>11, <1>15
<1>18. Agrees(e, i2, w2, t2)'
  BY <1>16, <1>17 DEF Agrees
<1>19. QED
  BY <1>12, <1>13, <1>15, <1>18 DEF InPlace

LEMMA PlacedInit == Init => InPlace
<1> SUFFICES ASSUME Init PROVE InPlace
  OBVIOUS
<1> DEFINE c == At(1, 0)
           f == [p \in Ports |-> c]
           a == [done |-> [p \in Ports |-> 0], link |-> 0, m |-> 0]
           reg == [j \in Parts |-> NoFlit]
           acc == <<>>
<1>1. /\ c \in Place /\ c.n = 1 /\ c.j = 0
  BY DEF At, Place, Parts
<1>2. f \in [Ports -> Place] /\ a \in Progress /\ a.m = 0 /\ \A p \in Ports : f[p] = c /\ a.done[p] = 0
  BY <1>1 DEF Progress, Ports
<1>3. NoFlit \in FlitType /\ NoFlit.n = 0
  BY DEF NoFlit, Flit, FlitType, Ports, Parts
<1>4. Len(acc) = 0 /\ acc \in Seq(FlitType) /\ acc \in Seq(ItemType) /\ acc \in Seq(Nat)
  OBVIOUS
<1>5. Types /\ ArrivalTypes
  <2>1. Types
    BY <1>3 DEF Init, Types, Ports, Parts
  <2>2. ArrivalTypes
    BY <1>3 DEF Init, ArrivalTypes, Ports, Parts
  <2>3. QED
    BY <2>1, <2>2
<1>6. Bank(acc, reg, c, c)
  <2>1. Valid(acc, c)
    BY <1>4 DEF Valid
  <2>2. \A n \in Nat \ {0}, j \in Parts : reg[j].n # n /\ ~Within(acc, n, j, c, c)
    BY <1>3, <1>4 DEF Within
  <2>3. QED
    BY <1>1, <2>1, <2>2 DEF Bank
<1>7. \A p \in Ports : Path(acc, p, acc, c, c)
  <2> DEFINE k == [l \in 1 .. Len(acc) + 1 |-> c]
  <2>1. k \in [1 .. Len(acc) + 1 -> Place] /\ k[1] = c /\ k[Len(acc) + 1] = c
    BY <1>1, <1>4
  <2>2. 1..Len(acc) = {}
    BY <1>4
  <2> HIDE DEF k, c, acc
  <2>3. QED
    BY <1>4, <2>1, <2>2 DEF Path
<1>8. Stream(direction, accepted, acc, a, a)
  <2> DEFINE k == [l \in 1 .. Len(acc) + 1 |-> a]
  <2>1. k \in [1 .. Len(acc) + 1 -> Progress] /\ k[1] = a /\ k[Len(acc) + 1] = a
    BY <1>2, <1>4
  <2>2. 1..Len(acc) = {}
    BY <1>4
  <2> HIDE DEF k, a, acc
  <2>3. QED
    BY <1>4, <2>1, <2>2 DEF Stream
<1>9. \A p \in Ports : Full(acc, p, reg) /\ Translated(direction, acc, p, reg)
  BY DEF Full, Translated
<1>10. ASSUME NEW p \in Ports
       PROVE  /\ accepted[p] = acc /\ ereg[p] = reg /\ ireg[p] = reg /\ esm[p] = 0 /\ insm[p] = 0
              /\ ism[p] = 0 /\ ebuf[p] = acc /\ link[p] = acc /\ input.size = 0
              /\ delivered[p] = acc
  BY DEF Init
<1>11. obuf = acc /\ taking = acc /\ header = NoFlit /\ delivered \in [Ports -> Seq(Nat)]
  BY DEF Init
<1> HIDE DEF c, f, a, reg, acc
<1>12. ASSUME NEW p \in Ports
       PROVE  LinkSide(accepted[p], p, input, held, ereg[p], esm[p], ebuf[p], link[p], f[p], f[p])
  <2>1. Loading(acc, p, input, held, reg, c)
    BY <1>4, <1>10 DEF Loading, c
  <2>2. EgressSide(acc, p, input, held, reg, 0, c)
    BY <1>1, <1>6, <1>9, <2>1 DEF EgressSide
  <2>3. QED
    BY <1>1, <1>2, <1>7, <1>10, <2>2 DEF LinkSide
<1>13. ASSUME NEW p \in Ports
       PROVE  InputSide(direction, accepted[p], p, ireg[p], ism[p], a, f[p])
  <2>1. At(a.done[p] + 1, Half(0)) = c
    BY <1>2 DEF Half, c
  <2>2. QED
    BY <1>2, <1>6, <1>9, <1>10, <2>1 DEF InputSide
<1>14. Writer(direction, accepted, ism, header, a)
  BY <1>2, <1>10, <1>11 DEF Writer
<1>15. Reader(direction, accepted, taking, delivered, a)
  <2>1. \A p \in Ports : Len(delivered[p]) = a.done[p]
    BY <1>2, <1>4, <1>10
  <2>2. taking = <<>>
    BY <1>11 DEF acc
  <2>3. QED
    BY <1>2, <1>11, <2>1, <2>2 DEF Reader
<1>16. Agrees(f, f, a, a)
  <2>1. \A p \in Ports : f[p].j = insm[p]
    BY <1>1, <1>2, <1>10
  <2>2. QED
    BY <1>8, <1>11, <1>12, <1>13, <1>14, <1>15, <2>1 DEF Agrees
<1>17. QED
  BY <1>2, <1>5, <1>16 DEF InPlace

\* A packet of the invariant is one of the property.
LEMMA PacketIs ==
    ASSUME OpcodesAgree, Types, NEW p \in Ports, NEW n \in Nat \ {0}, n <= Len(accepted[p])
    PROVE  LET c == InFlit(direction, accepted[p], p, n, 0)
           IN  c # NoFlit /\ Packet(c) = PacketOf(direction, accepted[p], p, n)
<1> DEFINE acc == accepted[p]
           op == acc[n]
           d == direction
           c == InFlit(d, acc, p, n, 0)
<1>1. op \in Opcodes[d] /\ d \in Directions
  BY DEF Types
<1>2. c = Flit(p, n, 0, IF d = "requests" THEN op ELSE TLOpcode[op], IF d = "requests" THEN {p} ELSE {})
  BY DEF InFlit
<1>3. c.link = p /\ c.n = n /\ n # 0
  BY <1>2 DEF Flit
<1>4. c # NoFlit
  BY <1>3 DEF NoFlit, Flit
<1>5. \A j \in 1..4 : InFlit(d, acc, p, n, j) = Flit(p, n, j, 0, {})
  BY SMTT(30) DEF InFlit
<1>6. Packet(c) =
        CASE d = "requests" /\ Bit(op, 32) ->
               <<Item(c, NoFlit, NoFlit),
                 Item(NoFlit, Flit(p, n, 1, 0, {}), Flit(p, n, 2, 0, {})),
                 Item(NoFlit, Flit(p, n, 3, 0, {}), Flit(p, n, 4, 0, {}))>>
          [] d = "responses" /\ op = 4 ->
               <<Item(c, Flit(p, n, 1, 0, {}), Flit(p, n, 2, 0, {})),
                 Item(NoFlit, Flit(p, n, 3, 0, {}), Flit(p, n, 4, 0, {}))>>
          [] OTHER -> <<Item(c, NoFlit, NoFlit)>>
  <2> HIDE DEF c
  <2>1. QED
    BY <1>2, <1>3, ZenonT(60) DEF Packet
<1>7. PacketOf(d, acc, p, n) =
        IF ~HasData(op) THEN <<Item(c, NoFlit, NoFlit)>>
        ELSE IF d = "requests"
        THEN <<Item(c, NoFlit, NoFlit),
               Item(NoFlit, Flit(p, n, 1, 0, {}), Flit(p, n, 2, 0, {})),
               Item(NoFlit, Flit(p, n, 3, 0, {}), Flit(p, n, 4, 0, {}))>>
        ELSE <<Item(c, Flit(p, n, 1, 0, {}), Flit(p, n, 2, 0, {})),
               Item(NoFlit, Flit(p, n, 3, 0, {}), Flit(p, n, 4, 0, {}))>>
  BY <1>5 DEF PacketOf
<1>8. /\ d = "requests" => (Bit(op, 32) <=> HasData(op))
      /\ d = "responses" => (op = 4 <=> HasData(op))
  BY <1>1, Decoded
<1> HIDE DEF c, op, acc, d
<1>9. Packet(c) = PacketOf(d, acc, p, n)
  <2>1. CASE d = "requests"
    <3>1. d # "responses"
      BY <2>1
    <3>2. QED
      BY <1>6, <1>7, <1>8, <2>1, <3>1
  <2>2. CASE d = "responses"
    <3>1. d # "requests"
      BY <2>2
    <3>2. QED
      BY <1>6, <1>7, <1>8, <2>2, <3>1
  <2>3. QED
    BY <1>1, <2>1, <2>2 DEF Directions
<1>10. QED
  BY <1>4, <1>9 DEF c, acc, d

-----------------------------------------------------------------------------
(* What comes out.                                                         *)

\* What the node behind takes of a packet is the beginning of it, in the order of its
\* items (ingress: outportid_data, slot by slot).
LEMMA InPlaceWhole ==
    ASSUME OpcodesAgree, InPlace
    PROVE  PacketsWhole
<1> SUFFICES ASSUME taking # <<>>
             PROVE  /\ taking[1].cmd # NoFlit
                    /\ IsPrefix(taking, Packet(taking[1].cmd))
  BY DEF PacketsWhole
<1>1. Types /\ \E t \in Progress : Reader(direction, accepted, taking, delivered, t)
  BY DEF InPlace, Agrees
<1>2. PICK t \in Progress : Reader(direction, accepted, taking, delivered, t)
  BY <1>1
<1>3. \E p \in Ports : \E n : Begun(direction, accepted[p], p, n, taking)
  BY <1>2 DEF Reader, Progress
<1>4. PICK p \in Ports : \E n : Begun(direction, accepted[p], p, n, taking)
  BY <1>3
<1>5. PICK n : Begun(direction, accepted[p], p, n, taking)
  BY <1>4
<1> DEFINE d == direction
           acc == accepted[p]
           c == InFlit(d, acc, p, n, 0)
           s == PacketOf(d, acc, p, n)
<1>6. /\ n \in Nat \ {0} /\ n <= Len(acc)
      /\ taking \in Seq(ItemType) /\ Len(taking) \in 1 .. Items(d, acc, n)
      /\ \A i \in 1..Len(taking) : taking[i] = s[i]
  BY <1>5 DEF Begun
<1>7. taking[1].cmd = c
  BY <1>1, <1>5, BegunSize
<1>8. c # NoFlit /\ Packet(c) = s
  BY <1>1, <1>6, PacketIs
<1>9. Len(s) = Items(d, acc, n) /\ Len(s) \in 1..3
  <2>1. d \in Directions
    BY <1>1 DEF Types
  <2> HIDE DEF d, acc
  <2>2. QED
    BY <2>1, PacketLength
<1>10. s \in Seq({s[j] : j \in 1..3})
  <2>1. CASE ~HasData(acc[n])
    BY <2>1 DEF PacketOf
  <2>2. CASE HasData(acc[n]) /\ d = "requests"
    BY <2>2 DEF PacketOf
  <2>3. CASE HasData(acc[n]) /\ d # "requests"
    BY <2>3 DEF PacketOf
  <2>4. QED
    BY <2>1, <2>2, <2>3
<1> HIDE DEF d, acc, c, s
<1>11. SubSeq(taking, 1, Len(taking)) = SubSeq(s, 1, Len(taking))
  <2> DEFINE l == Len(taking)
  <2>1. l \in Nat /\ l <= Len(s) /\ l >= 1
    BY <1>6, <1>9
  <2>2. SubSeq(taking, 1, l) = [i \in 1 .. l |-> taking[i]]
    BY <1>6
  <2>3. SubSeq(s, 1, l) = [i \in 1 .. l |-> s[i]]
    BY <1>10, <2>1
  <2>4. QED
    BY <1>6, <2>2, <2>3
<1>12. Len(taking) <= Len(s)
  BY <1>6, <1>9
<1>13. QED
  BY <1>7, <1>8, <1>11, <1>12 DEF IsPrefix

LEMMA InPlaceStep ==
    ASSUME OpcodesAgree, InPlace, [Next]_vars
    PROVE  InPlace'
<1>1. CASE UNCHANGED vars
  BY <1>1, ZenonT(60) DEF InPlace, Types, ArrivalTypes, Agrees, vars, egressVars, ingressVars
<1>2. CASE Egress
  BY <1>2, EgressStep
<1>3. CASE Ingress
  BY <1>3, ArrivalStep
<1>4. QED
  BY <1>1, <1>2, <1>3 DEF Next

\* Whatever the two arbiters and the links do, a command leaves the ingress with its own
\* data behind it and nothing in between, with the opcode of the table and the link it
\* came by.
THEOREM PacketsLeaveWhole ==
    ASSUME OpcodesAgree
    PROVE  Spec => []PacketsWhole
<1>1. Init => InPlace
  BY PlacedInit
<1>2. InPlace /\ [Next]_vars => InPlace'
  BY InPlaceStep
<1>3. InPlace => PacketsWhole
  BY InPlaceWhole
<1>4. QED
  BY <1>1, <1>2, <1>3, PTL DEF Spec

\* A cycle of the egress takes one packet at most.
LEMMA EgressWrites ==
    ASSUME Types, Egress
    PROVE  /\ UNCHANGED delivered
           /\ \/ UNCHANGED accepted
              \/ \E p \in Ports : [q \in Ports |-> Len(accepted'[q])] =
                    [[q \in Ports |-> Len(accepted[q])] EXCEPT ![p] = Len(accepted[p]) + 1]
<1>1. PICK valid, op, net, ready : EgressCycle(valid, op, net, ready)
  BY DEF Egress
<1>2. UNCHANGED delivered
  BY <1>1 DEF EgressCycle, ingressVars
<1>3. input \in [turn : {0, 1}, size : 0..2, port : Ports]
  BY DEF Types
<1> DEFINE p == IF input.size = 0 THEN NextPort(net) ELSE input.port
<1>4. p \in Ports
  BY <1>3 DEF NextPort, Ports
<1>5. \/ UNCHANGED accepted
      \/ accepted' = [accepted EXCEPT ![p] = Append(accepted[p], op)]
  BY <1>1 DEF EgressCycle
<1>6. accepted[p] \in Seq(Nat) /\ \A q \in Ports : accepted[q] \in Seq(Nat)
  BY <1>4, OpcodesNumbers
<1> HIDE DEF p
<1>7. CASE accepted' = [accepted EXCEPT ![p] = Append(accepted[p], op)]
  <2>1. \A q \in Ports : accepted'[q] = IF q = p THEN Append(accepted[p], op) ELSE accepted[q]
    BY <1>4, <1>7 DEF Types
  <2>2. Len(Append(accepted[p], op)) = Len(accepted[p]) + 1
    BY <1>6
  <2>3. \A q \in Ports : Len(accepted'[q]) = IF q = p THEN Len(accepted[p]) + 1 ELSE Len(accepted[q])
    BY <2>1, <2>2
  <2>4. QED
    BY <1>2, <1>4, <2>3
<1>8. QED
  BY <1>2, <1>5, <1>7

\* Each link is a channel of packets: what the egress takes for it is delivered once and
\* in order by the other node.
THEOREM ImplementsLinks ==
    ASSUME OpcodesAgree
    PROVE  Spec => LinksImplemented
<1> DEFINE lens == [p \in Ports |-> Len(accepted[p])]
<1>1. Init => InPlace
  BY PlacedInit
<1>2. InPlace /\ [Next]_vars => InPlace'
  BY InPlaceStep
<1>3. Init => Links!Init
  BY DEF Init, Links!Init
<1>4. InPlace /\ [Next]_vars => [Links!Next]_<<lens, delivered>>
  <2> SUFFICES ASSUME InPlace, [Next]_vars
               PROVE  \/ Links!Next
                      \/ lens' = lens /\ delivered' = delivered
    OBVIOUS
  <2>1. CASE UNCHANGED vars
    BY <2>1 DEF vars, egressVars, ingressVars
  <2>2. CASE Egress
    <3>1. UNCHANGED delivered
      BY <2>2, EgressWrites DEF InPlace
    <3>2. \/ UNCHANGED accepted
          \/ \E p \in Ports : lens' = [lens EXCEPT ![p] = Len(accepted[p]) + 1]
      BY <2>2, EgressWrites DEF InPlace
    <3>3. CASE UNCHANGED accepted
      BY <3>1, <3>3
    <3>4. ASSUME NEW p \in Ports, lens' = [lens EXCEPT ![p] = Len(accepted[p]) + 1]
          PROVE  Links!Next
      <4>1. Links!Write(p)
        BY <3>1, <3>4 DEF Links!Write
      <4>2. QED
        BY <4>1 DEF Links!Next
    <3>5. QED
      BY <3>2, <3>3, <3>4
  <2>3. CASE Ingress
    <3>1. UNCHANGED accepted
      BY <2>3 DEF Ingress, IngressCycle, egressVars
    <3>2. delivered' = delivered \/ Delivers(accepted, delivered, delivered')
      BY <2>3, ArrivalStep
    <3>3. CASE delivered' = delivered
      BY <3>1, <3>3
    <3>4. CASE Delivers(accepted, delivered, delivered')
      <4>1. PICK p \in Ports :
              /\ Len(delivered[p]) < Len(accepted[p])
              /\ delivered' = [delivered EXCEPT ![p] = Append(delivered[p], Len(delivered[p]) + 1)]
        BY <3>4 DEF Delivers
      <4>2. Links!Deliver(p)
        BY <3>1, <4>1 DEF Links!Deliver, Same
      <4>3. QED
        BY <4>2 DEF Links!Next
    <3>5. QED
      BY <3>2, <3>3, <3>4
  <2>4. QED
    BY <2>1, <2>2, <2>3 DEF Next
<1>5. QED
  BY <1>1, <1>2, <1>3, <1>4, PTL DEF Spec, LinksImplemented, Links!Spec

=============================================================================
