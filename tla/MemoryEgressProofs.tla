-------------------------- MODULE MemoryEgressProofs --------------------------
(***************************************************************************)
(* The safety properties of MemoryEgress for any commands, tags, depths of *)
(* the fifos and failures of the host, and that it implements RemoteMemory.*)
(*                                                                         *)
(* None of the properties is inductive.  IInv adds what they rest on: the  *)
(* types and counters of the state machines; that a tag stands for one     *)
(* command; the order of the responses that the host gives to one tag;     *)
(* what the stores and the host have of the data of a write; that the      *)
(* fifos of the retry path hold chains of flits; that the data of reads    *)
(* lie in the order of their responses; and what the network and the       *)
(* memory have of each command.                                            *)
(***************************************************************************)
EXTENDS MemoryEgress, FiniteSetTheorems, SequenceTheorems, TLAPS

-----------------------------------------------------------------------------
(* What the engines and fifos hold                                         *)

Reads == Commands \ Writes
CommandFlits == {Command(c, t, a) : c \in Commands, t \in Tags, a \in {0, RTY}}
DataFlits == {Data(c, n) : c \in Commands, n \in 1..4}
WriteData == {Data(c, n) : c \in Writes, n \in 1..2}
RetryFlits == CommandFlits \cup WriteData
AnyResponse == [op : {RD_OK, RD_FAIL, WR_OK, WR_FAIL, XLATE_DONE}, code : 0..15,
                dl : 0..3, dp : 0..1, tag : Tags]
Joined == [resp : AnyResponse, of : Commands]
Hosted == [of : Commands, tag : Tags, data : Seq(DataFlits), st : {"new", "half", "translating"}]
NetFlits == DataFlits \cup {Header(op) : op \in {RD_OK, RD_FAIL, WR_OK, WR_FAIL}}
IngStates == [st : {"INIT", "RECEIVE_CMD", "RECEIVE_DATA"}, tag : 0..NTags,
              dflit : 0..2, dflitRty : 0..2]
EngStates == [st : {"INIT", "GET_CMD", "GET_DATA"}, next : 1..NTags + 1, tag : 0..NTags,
              keep : BOOLEAN, fresh : BOOLEAN, cdata : 0..4, count : 0..3]
RtyStates == [st : {"START", "DATA", "JAIL_DATA"}, rdata : 0..4, jaildata : BOOLEAN]

TypeOK ==
    /\ capptag \in Seq(Tags)
    /\ cmdlookup \in [Tags -> Commands \cup {NoCommand}]
    /\ d0lookup \in [Tags -> DataFlits \cup {NoData}]
    /\ d1lookup \in [Tags -> DataFlits \cup {NoData}]
    /\ ing \in IngStates
    /\ host \subseteq Hosted
    /\ IsFiniteSet(host)
    /\ tlresp \in Seq(AnyResponse)
    /\ tldata \in Seq(DataFlits)
    /\ combo \in Seq(Joined)
    /\ eng \in EngStates
    /\ {rtyfifo, jail, out} \subseteq Seq(RetryFlits)
    /\ rty \in RtyStates
    /\ lock \in BOOLEAN
    /\ got \in [Commands -> Seq(NetFlits)]
    /\ stored \in [Commands -> Seq(Seq(DataFlits))]
    /\ last \in Commands \cup {NoCommand}
    /\ sender \in Commands \cup {NoCommand}
    /\ taken \subseteq Commands

\* The engine passes the data of a response, or replays those of a write.
Passing == eng.st = "GET_DATA" /\ eng.fresh
Replaying == eng.st = "GET_DATA" /\ ~eng.fresh

\* The counters of the state machines.
Machines ==
    /\ ing.st # "RECEIVE_DATA" <=> ing.dflit = 0 /\ ing.dflitRty = 0
    /\ ing.dflit = 0 \/ ing.dflitRty = 0
    /\ ing.dflit + ing.dflitRty > 0 => ing.tag \in Tags /\ cmdlookup[ing.tag] \in Writes
    /\ eng.st = "INIT" <=> eng.next <= NTags
    /\ eng.st = "GET_DATA" => eng.tag \in Tags
    /\ Replaying => eng.cdata = 2 /\ eng.count \in 1..2 /\ cmdlookup[eng.tag] \in Writes

-----------------------------------------------------------------------------
(* Tags and the commands they stand for                                    *)

\* All responses under way, those joined with their commands first.
Coming == [i \in DOMAIN combo |-> combo[i].resp] \o tlresp
Of(r) == cmdlookup[r.tag]

\* A command has one tag, and keeps it.
OneTag ==
    /\ \A t \in Tags : cmdlookup[t] \in taken \cup {NoCommand}
    /\ \A t, u \in Tags : cmdlookup[t] = cmdlookup[u] /\ cmdlookup[t] # NoCommand => t = u

\* What the host may say of a command.
Fitting(r, c) ==
    /\ c \in Commands
    /\ r.op \in {RD_OK, RD_FAIL} => c \in Reads
    /\ r.op \in {WR_OK, WR_FAIL} => c \in Writes
    /\ r.op \in {RD_FAIL, WR_FAIL} <=> r.code # 0
    /\ r.op = RD_OK => (r.dl = Dl[c] /\ r.dp = 0) \/ (r.dl = 2 /\ Dl[c] = 3)
    /\ r.op # RD_OK => r.dp = 0

\* The first and the second half of a read, and a translation that has begun.
First(r) == r.op = RD_OK /\ r.dl # Dl[Of(r)] /\ r.dp = 0
Second(r) == r.op = RD_OK /\ r.dp = 1
Pending(r) == r.code = PEND

\* After the first half of a read comes the second, after a pending translation its
\* end; any other response is the last for its tag, and comes after the host is done.
InTurn ==
    /\ \A i \in DOMAIN Coming : Fitting(Coming[i], Of(Coming[i]))
    /\ \A i, j \in DOMAIN Coming :
          i < j /\ Coming[i].tag = Coming[j].tag =>
             \/ First(Coming[i]) /\ Second(Coming[j])
             \/ Pending(Coming[i]) /\ Coming[j].op = XLATE_DONE
    /\ \A i \in DOMAIN Coming : \A h \in host :
          h.tag = Coming[i].tag =>
             \/ First(Coming[i]) /\ h.st = "half"
             \/ Pending(Coming[i]) /\ h.st = "translating"
    /\ \A i \in DOMAIN Coming :
          First(Coming[i]) \/ Pending(Coming[i]) =>
             \/ \E h \in host : h.tag = Coming[i].tag
             \/ \E j \in DOMAIN Coming : j > i /\ Coming[j].tag = Coming[i].tag
    /\ Passing =>
          /\ \A i \in DOMAIN Coming : Coming[i].tag = eng.tag => Second(Coming[i])
          /\ \A h \in host : h.tag = eng.tag => h.st = "half"
          /\ eng.keep => \/ \E h \in host : h.tag = eng.tag
                         \/ \E j \in DOMAIN Coming : Coming[j].tag = eng.tag

-----------------------------------------------------------------------------
(* The data of writes                                                      *)

\* The stores hold the data of a write, except what the network still sends.
Stores ==
    /\ ing.dflit > 0 => sender = cmdlookup[ing.tag]
    /\ \A t \in Tags :
          cmdlookup[t] \in Writes =>
             /\ d0lookup[t] = Data(cmdlookup[t], 1) \/ (ing.tag = t /\ ing.dflit = 2)
             /\ d1lookup[t] = Data(cmdlookup[t], 2) \/ (ing.tag = t /\ ing.dflit > 0)

\* The data that have reached the host for h.
Reached(h) ==
    IF h.of \notin Writes THEN 0
    ELSE IF h.tag = ing.tag THEN 2 - (ing.dflit + ing.dflitRty) ELSE 2

AtHost ==
    /\ \A h \in host :
          /\ Len(h.data) = Reached(h)
          /\ \A k \in 1..Reached(h) : h.data[k] = Data(h.of, k)
          /\ h.st = "half" => h.of \in Reads /\ Dl[h.of] = 3
    /\ ing.dflit + ing.dflitRty > 0 =>
          \E h \in host : h.tag = ing.tag /\ h.of \in Writes /\ h.st = "new"

\* What follows flit f, and whether f is what a reader expects: a certain flit of
\* data, or a command if there is none.
After(f) ==
    IF f.cmd THEN IF f.of \in Writes THEN Data(f.of, 1) ELSE NoData
    ELSE IF f.n = 1 THEN Data(f.of, 2) ELSE NoData
Fits(e, f) == IF e = NoData THEN f.cmd ELSE f = e

\* The reader of s expects e, the writer writes w next, and in between each flit
\* follows the one before it.
Chain(e, s, w) ==
    /\ s = <<>> => e = w
    /\ s # <<>> => Fits(e, s[1]) /\ w = After(s[Len(s)])
    /\ \A i \in 1..Len(s) - 1 : Fits(After(s[i]), s[i + 1])

EngWrites == IF Replaying THEN Data(cmdlookup[eng.tag], eng.count) ELSE NoData
IngExpects == IF ing.dflitRty > 0 THEN Data(cmdlookup[ing.tag], 3 - ing.dflitRty) ELSE NoData

\* The three fifos, when the retry engine moves data and the next is e.
Chains(e) ==
    LET moves == rty.st = "DATA"
        releases == rty.st = "JAIL_DATA"
    IN /\ IF rty.st = "START" THEN e = NoData ELSE e \in WriteData /\ rty.rdata = 3 - e.n
       /\ Chain(IF moves THEN e ELSE NoData, rtyfifo, EngWrites)
       /\ Chain(IF releases THEN e ELSE NoData, jail, IF moves /\ rty.jaildata THEN e ELSE NoData)
       /\ Chain(IngExpects, out, IF releases \/ (moves /\ ~rty.jaildata) THEN e ELSE NoData)

Replays == \E e \in WriteData \cup {NoData} : Chains(e)

-----------------------------------------------------------------------------
(* The data of reads                                                       *)

FlitsWith(r) == IF r.op = RD_OK THEN FlitsOf(r.dl) ELSE 0

\* What the engine still has to pass, and the number of the last of it.
Left == IF Passing THEN eng.cdata ELSE 0
Final == IF eng.keep THEN 2 ELSE FlitsOf(Dl[cmdlookup[eng.tag]])

\* pos[i] data flits are in front of those of response i.
Laid(pos) ==
    LET n == Len(Coming)
    IN /\ pos[1] = Left
       /\ pos[n + 1] = Len(tldata)
       /\ \A i, j \in 1..n + 1 : i <= j => pos[i] <= pos[j]
       /\ \A k \in 1..Left : tldata[k] = Data(cmdlookup[eng.tag], Final - Left + k)
       /\ \A i \in 1..n :
             /\ pos[i + 1] = pos[i] + FlitsWith(Coming[i])
             /\ \A k \in 1..FlitsWith(Coming[i]) :
                   tldata[pos[i] + k] = Data(Of(Coming[i]), 2 * Coming[i].dp + k)

ReadData == \E pos \in [1..Len(Coming) + 1 -> 0..Len(tldata)] : Laid(pos)

-----------------------------------------------------------------------------
(* What the network has received                                           *)

\* s is the first n flits of an answer at once, or of one in halves.
UptoWhole(s, c, n) ==
    /\ Len(s) = n
    /\ \A i \in 1..n : s[i] = IF i = 1 THEN Header(RD_OK) ELSE Data(c, i - 1)
UptoHalves(s, c, n) ==
    /\ Len(s) = n
    /\ \A i \in 1..n : s[i] = IF i \in {1, 4} THEN Header(RD_OK)
                            ELSE Data(c, IF i < 4 THEN i - 1 ELSE i - 2)

\* The first half of the read with tag t was sent, is being sent, or is under way.
HalfBefore(t, i) ==
    \/ Passing /\ eng.tag = t
    \/ UptoHalves(got[cmdlookup[t]], cmdlookup[t], 3)
    \/ \E j \in DOMAIN Coming : j < i /\ Coming[j].tag = t /\ First(Coming[j])

Delivered ==
    /\ \A c \in Commands \ taken : got[c] = <<>>
    /\ \A i \in DOMAIN Coming :
          IF Second(Coming[i]) THEN HalfBefore(Coming[i].tag, i) ELSE got[Of(Coming[i])] = <<>>
    /\ \A h \in host :
          IF h.st = "half" THEN HalfBefore(h.tag, Len(Coming) + 1) ELSE got[h.of] = <<>>
    /\ \A s \in {rtyfifo, jail, out} : \A i \in DOMAIN s : s[i].cmd => got[s[i].of] = <<>>
    /\ Passing =>
          LET c == cmdlookup[eng.tag]
          IN /\ c \in Reads /\ last = c
             /\ \/ /\ eng.keep /\ Dl[c] = 3 /\ eng.cdata \in 1..2
                   /\ UptoHalves(got[c], c, 3 - eng.cdata)
                \/ /\ ~eng.keep /\ eng.cdata \in 1..FlitsOf(Dl[c])
                   /\ UptoWhole(got[c], c, FlitsOf(Dl[c]) + 1 - eng.cdata)
                \/ /\ ~eng.keep /\ Dl[c] = 3 /\ eng.cdata \in 1..2
                   /\ UptoHalves(got[c], c, 6 - eng.cdata)
    /\ OwnAnswer

\* A write is stored once, with its data, before the host says so.
Performed ==
    /\ \A c \in Commands : stored[c] \in {<<>>, <<Whole(c)>>}
    /\ \A c \in Commands \ taken : stored[c] = <<>>
    /\ \A h \in host : stored[h.of] = <<>>
    /\ \A i \in DOMAIN Coming :
          stored[Of(Coming[i])] = IF Coming[i].op = WR_OK THEN <<Whole(Of(Coming[i]))>> ELSE <<>>
    /\ \A s \in {rtyfifo, jail, out} : \A i \in DOMAIN s : s[i].cmd => stored[s[i].of] = <<>>

IInv ==
    /\ TypeOK /\ Machines
    /\ TagsConserved /\ OneTag /\ OwnCommand /\ InTurn
    /\ Stores /\ AtHost /\ Replays
    /\ ReadData /\ Delivered /\ Performed
-----------------------------------------------------------------------------
(* Types                                                                   *)

\* The fields of the state machines.
LEMMA Fields ==
    /\ \A x \in IngStates : /\ x.st \in {"INIT", "RECEIVE_CMD", "RECEIVE_DATA"}
                            /\ x.tag \in 0..NTags /\ x.dflit \in 0..2 /\ x.dflitRty \in 0..2
    /\ \A x \in EngStates : /\ x.st \in {"INIT", "GET_CMD", "GET_DATA"} /\ x.next \in 1..NTags + 1
                            /\ x.tag \in 0..NTags /\ x.keep \in BOOLEAN /\ x.fresh \in BOOLEAN
                            /\ x.cdata \in 0..4 /\ x.count \in 0..3
    /\ \A x \in RtyStates : /\ x.st \in {"START", "DATA", "JAIL_DATA"}
                            /\ x.rdata \in 0..4 /\ x.jaildata \in BOOLEAN
    /\ TypeOK => ing \in IngStates /\ eng \in EngStates /\ rty \in RtyStates
  BY DEF IngStates, EngStates, RtyStates, TypeOK

-----------------------------------------------------------------------------
(* Counting the entries of a fifo                                          *)

Tally(s, S) == Cardinality({i \in DOMAIN s : s[i] \in S})

\* The entries of a sequence in S are finitely many, and none only if no entry is in
\* S.
LEMMA TallyType ==
    ASSUME NEW T, NEW s \in Seq(T), NEW S
    PROVE  /\ IsFiniteSet({i \in DOMAIN s : s[i] \in S})
           /\ Tally(s, S) \in Nat
           /\ Tally(s, S) = 0 <=> \A i \in DOMAIN s : s[i] \notin S
<1> DEFINE P == {i \in DOMAIN s : s[i] \in S}
<1>1. IsFiniteSet(1 .. Len(s)) /\ DOMAIN s = 1 .. Len(s)
  BY FS_Interval, LenProperties
<1>2. P \in SUBSET (1 .. Len(s))
  BY <1>1
<1>3. IsFiniteSet(P)
  BY <1>1, <1>2, FS_Subset
<1>4. Cardinality(P) \in Nat /\ (Cardinality(P) = 0 <=> P = {})
  BY <1>3, FS_CardinalityType, FS_EmptySet
<1>5. P = {} <=> \A i \in DOMAIN s : s[i] \notin S
  OBVIOUS
<1>6. QED
  BY <1>3, <1>4, <1>5 DEF Tally

\* A push adds its entry to the count.
LEMMA TallyAppend ==
    ASSUME NEW T, NEW s \in Seq(T), NEW x \in T, NEW S
    PROVE  Tally(Append(s, x), S) = Tally(s, S) + (IF x \in S THEN 1 ELSE 0)
<1> DEFINE P == {i \in DOMAIN s : s[i] \in S}
           Q == {i \in DOMAIN Append(s, x) : Append(s, x)[i] \in S}
           n == Len(s) + 1
<1>1. /\ Append(s, x) \in Seq(T) /\ Len(Append(s, x)) = n
      /\ \A i \in 1 .. Len(s) : Append(s, x)[i] = s[i]
      /\ Append(s, x)[n] = x
  BY AppendProperties
<1>2. DOMAIN s = 1 .. Len(s) /\ DOMAIN Append(s, x) = 1 .. n /\ Len(s) \in Nat
  BY <1>1, LenProperties
<1>3. IsFiniteSet(P)
  BY TallyType
<1>30. n \notin P
  BY <1>2
<1>31. Tally(s, S) = Cardinality(P) /\ Tally(Append(s, x), S) = Cardinality(Q)
  BY DEF Tally
<1>32. Tally(s, S) \in Nat
  BY TallyType
<1> HIDE DEF P, Q
<1>4. CASE x \in S
  <2>1. Q = P \cup {n}
    BY <1>1, <1>2, <1>4 DEF P, Q
  <2>2. QED
    BY <1>3, <1>30, <1>31, <1>4, <2>1, FS_AddElement
<1>5. CASE x \notin S
  <2>1. Q = P
    BY <1>1, <1>2, <1>5 DEF P, Q
  <2>2. QED
    BY <1>31, <1>32, <1>5, <2>1
<1>6. QED
  BY <1>4, <1>5

\* A pop takes the head from the count.
LEMMA TallyTail ==
    ASSUME NEW T, NEW s \in Seq(T), s # <<>>, NEW S
    PROVE  Tally(s, S) = Tally(Tail(s), S) + (IF Head(s) \in S THEN 1 ELSE 0)
<1> DEFINE P == {i \in DOMAIN s : s[i] \in S}
           Q == {i \in DOMAIN Tail(s) : Tail(s)[i] \in S}
           f == [i \in Q |-> i + 1]
           R == P \ {1}
<1>1. /\ Len(s) \in Nat \ {0}
      /\ DOMAIN s = 1 .. Len(s)
      /\ DOMAIN Tail(s) = 1 .. Len(s) - 1
      /\ Head(s) = s[1]
      /\ \A i \in 1 .. Len(s) - 1 : Tail(s)[i] = s[i + 1]
      /\ Tail(s) \in Seq(T)
  BY HeadTailProperties, LenProperties, EmptySeq
<1>2. Q \subseteq 1 .. Len(s) - 1 /\ \A i \in 1 .. Len(s) - 1 : i \in Q <=> i + 1 \in R
  BY <1>1
<1>3. R \subseteq 2 .. Len(s) /\ (1 \in P <=> Head(s) \in S)
  BY <1>1
<1>4. IsFiniteSet(P) /\ IsFiniteSet(Q)
  BY <1>1, TallyType
<1>40. Cardinality(Q) \in Nat /\ Cardinality(P) \in Nat
  BY <1>4, FS_CardinalityType
<1>5. Cardinality(R) = IF 1 \in P THEN Cardinality(P) - 1 ELSE Cardinality(P)
  BY <1>4, FS_RemoveElement
<1>50. Tally(s, S) = Cardinality(P) /\ Tally(Tail(s), S) = Cardinality(Q)
  BY DEF Tally
<1> HIDE DEF P, Q, R
<1>6. f \in [Q -> R]
  BY <1>1, <1>2
<1>7. \A i, j \in Q : f[i] = f[j] => i = j
  BY <1>2
<1>8. \A j \in R : j - 1 \in Q /\ f[j - 1] = j
  BY <1>1, <1>2, <1>3
<1>80. f \in Injection(Q, R)
  BY <1>6, <1>7 DEF Injection, IsInjective
<1>81. f \in Surjection(Q, R)
  BY <1>6, <1>8 DEF Surjection
<1>9. f \in Bijection(Q, R)
  BY <1>80, <1>81 DEF Bijection
<1>10. Cardinality(R) = Cardinality(Q)
  BY <1>4, <1>9, FS_Bijection DEF ExistsBijection
<1>11. QED
  BY <1>3, <1>40, <1>5, <1>50, <1>10

-----------------------------------------------------------------------------
(* What becomes of a response                                              *)

\* The bits that the response engine tests say this of what the host sends.
LEMMA StateOf ==
    ASSUME NEW r \in AnyResponse, NEW c, Fitting(r, c)
    PROVE  /\ RespState(r) = IF r.op = RD_OK THEN "data"
                           ELSE IF r.op = XLATE_DONE \/ r.code = RTY THEN "retry"
                           ELSE IF r.code = PEND THEN "drop" ELSE "nodata"
           /\ IsXlateDone(r) <=> r.op = XLATE_DONE
           /\ Settles(r, c) <=> ~(r.op = RD_OK /\ r.dl # Dl[c] /\ r.dp = 0) /\ r.code # PEND
<1>1. /\ r.op \in {4, 5, 8, 9, 24} /\ r.code \in Int
      /\ r.op \in {5, 9} <=> r.code # 0
  BY DEF AnyResponse, Fitting, RD_OK, RD_FAIL, WR_OK, WR_FAIL, XLATE_DONE
<1>2. /\ Bit(r.op, 1) <=> r.op \in {5, 9}
      /\ Bit(r.op, 4) <=> r.op \in {4, 5}
      /\ Bit(r.op, 8) <=> r.op \in {8, 9, 24}
      /\ Bit(r.op, 16) <=> r.op = 24
  BY <1>1 DEF Bit
<1>3. RespState(r) = IF r.op = RD_OK THEN "data"
                   ELSE IF r.op = XLATE_DONE \/ r.code = RTY THEN "retry"
                   ELSE IF r.code = PEND THEN "drop" ELSE "nodata"
  BY <1>1, <1>2 DEF RespState, RD_OK, RD_FAIL, WR_OK, WR_FAIL, XLATE_DONE, RTY, PEND
<1>4. IsXlateDone(r) <=> r.op = XLATE_DONE
  BY <1>1, <1>2 DEF IsXlateDone, XLATE_DONE
<1>5. Settles(r, c) <=> ~(r.op = RD_OK /\ r.dl # Dl[c] /\ r.dp = 0) /\ r.code # PEND
  BY <1>1, <1>3 DEF Settles, RD_OK, XLATE_DONE, RTY, PEND
<1>6. QED
  BY <1>3, <1>4, <1>5

-----------------------------------------------------------------------------
(* The places of a tag                                                     *)

HostsWith(t) == {h \in host : h.tag = t}
SettledBy(c, t) == {r \in AnyResponse : r.tag = t /\ Settles(r, c)}
JoinedBy(t) == {x \in Joined : x.resp.tag = t /\ Settles(x.resp, x.of)}
CommandsWith(t) == {f \in RetryFlits : f.cmd /\ f.tag = t}
InEngine(t) == IF Passing /\ ~eng.keep /\ eng.tag = t THEN 1 ELSE 0
NotLoaded(t) == IF t >= eng.next THEN 1 ELSE 0

\* Places, as the sum of what each fifo, the host and the response engine hold.
LEMMA PlacesAre ==
    TypeOK => \A t \in Tags :
       Places(t) = Cardinality(HostsWith(t)) + Tally(capptag, {t})
                   + Tally(tlresp, SettledBy(cmdlookup[t], t)) + Tally(combo, JoinedBy(t))
                   + Tally(rtyfifo, CommandsWith(t)) + Tally(jail, CommandsWith(t))
                   + Tally(out, CommandsWith(t)) + InEngine(t) + NotLoaded(t)
<1> SUFFICES ASSUME TypeOK, NEW t \in Tags
             PROVE  Places(t) = Cardinality(HostsWith(t)) + Tally(capptag, {t})
                       + Tally(tlresp, SettledBy(cmdlookup[t], t)) + Tally(combo, JoinedBy(t))
                       + Tally(rtyfifo, CommandsWith(t)) + Tally(jail, CommandsWith(t))
                       + Tally(out, CommandsWith(t)) + InEngine(t) + NotLoaded(t)
  OBVIOUS
<1>1. {i \in DOMAIN capptag : capptag[i] = t} = {i \in DOMAIN capptag : capptag[i] \in {t}}
  OBVIOUS
<1>2. {i \in DOMAIN tlresp : tlresp[i].tag = t /\ Settles(tlresp[i], cmdlookup[t])}
      = {i \in DOMAIN tlresp : tlresp[i] \in SettledBy(cmdlookup[t], t)}
  <2>1. \A i \in DOMAIN tlresp : tlresp[i] \in AnyResponse
    BY LenProperties DEF TypeOK
  <2>2. QED
    BY <2>1 DEF SettledBy
<1>3. {i \in DOMAIN combo : combo[i].resp.tag = t /\ Settles(combo[i].resp, combo[i].of)}
      = {i \in DOMAIN combo : combo[i] \in JoinedBy(t)}
  <2>1. \A i \in DOMAIN combo : combo[i] \in Joined
    BY LenProperties DEF TypeOK
  <2>2. QED
    BY <2>1 DEF JoinedBy
<1>4. ASSUME NEW s \in Seq(RetryFlits)
      PROVE  {i \in DOMAIN s : s[i].cmd /\ s[i].tag = t}
             = {i \in DOMAIN s : s[i] \in CommandsWith(t)}
  <2>1. \A i \in DOMAIN s : s[i] \in RetryFlits
    BY LenProperties
  <2>2. QED
    BY <2>1 DEF CommandsWith
<1>5. rtyfifo \in Seq(RetryFlits) /\ jail \in Seq(RetryFlits) /\ out \in Seq(RetryFlits)
  BY DEF TypeOK
<1>6. QED
  BY <1>1, <1>2, <1>3, <1>4, <1>5, Zenon
     DEF Places, Count, Tally, HostsWith, InEngine, NotLoaded, Passing

\* The same of the next state.
LEMMA PlacesNext ==
    TypeOK' => \A t \in Tags :
       Places(t)' = Cardinality(HostsWith(t)') + Tally(capptag', {t})
                   + Tally(tlresp', SettledBy(cmdlookup'[t], t)) + Tally(combo', JoinedBy(t))
                   + Tally(rtyfifo', CommandsWith(t)) + Tally(jail', CommandsWith(t))
                   + Tally(out', CommandsWith(t)) + InEngine(t)' + NotLoaded(t)'
<1>1. (TypeOK => \A t \in Tags :
       Places(t) = Cardinality(HostsWith(t)) + Tally(capptag, {t})
                   + Tally(tlresp, SettledBy(cmdlookup[t], t)) + Tally(combo, JoinedBy(t))
                   + Tally(rtyfifo, CommandsWith(t)) + Tally(jail, CommandsWith(t))
                   + Tally(out, CommandsWith(t)) + InEngine(t) + NotLoaded(t))'
  BY PlacesAre, PTL
<1>2. QED
  BY <1>1

HostHas(t) == \E h \in host : h.tag = t
IsFree(t) == \E i \in DOMAIN capptag : capptag[i] = t
Settling(t) == \E i \in DOMAIN Coming :
                  Coming[i].tag = t /\ ~First(Coming[i]) /\ ~Pending(Coming[i])
Retried(t) == \E s \in {rtyfifo, jail, out} : \E i \in DOMAIN s : s[i].cmd /\ s[i].tag = t

\* The responses under way: those that CmdFifoLoad has joined with their commands,
\* then those in tlresp.
LEMMA ComingIs ==
    ASSUME TypeOK
    PROVE  /\ Coming \in Seq(AnyResponse)
           /\ DOMAIN combo = 1..Len(combo) /\ DOMAIN tlresp = 1..Len(tlresp)
           /\ Len(combo) \in Nat /\ Len(tlresp) \in Nat
           /\ Len(Coming) = Len(combo) + Len(tlresp)
           /\ DOMAIN Coming = 1..Len(combo) + Len(tlresp)
           /\ \A i \in DOMAIN combo : Coming[i] = combo[i].resp /\ combo[i] \in Joined
           /\ \A i \in DOMAIN tlresp : Coming[Len(combo) + i] = tlresp[i]
<1> DEFINE s == [i \in DOMAIN combo |-> combo[i].resp]
<1>1. combo \in Seq(Joined) /\ tlresp \in Seq(AnyResponse)
  BY DEF TypeOK
<1>2. /\ DOMAIN combo = 1..Len(combo) /\ DOMAIN tlresp = 1..Len(tlresp)
      /\ Len(combo) \in Nat /\ Len(tlresp) \in Nat
      /\ \A i \in DOMAIN combo : combo[i] \in Joined
  BY <1>1, LenProperties
<1>3. s \in [1..Len(combo) -> AnyResponse]
  BY <1>2 DEF Joined
<1>4. s \in Seq(AnyResponse)
  BY <1>2, <1>3, SeqDef
<1>5. Len(s) = Len(combo)
  BY <1>2, <1>3, <1>4, LenProperties
<1>6. Coming = s \o tlresp
  BY DEF Coming
<1>7. \A i \in DOMAIN combo : s[i] = combo[i].resp
  OBVIOUS
<1> HIDE DEF s
<1>8. /\ Coming \in Seq(AnyResponse)
      /\ Len(Coming) = Len(combo) + Len(tlresp)
      /\ \A i \in 1..Len(combo) + Len(tlresp) :
            Coming[i] = IF i <= Len(combo) THEN s[i] ELSE tlresp[i - Len(combo)]
  <2>1. /\ s \o tlresp \in Seq(AnyResponse)
        /\ Len(s \o tlresp) = Len(s) + Len(tlresp)
        /\ \A i \in 1..Len(s) + Len(tlresp) :
              (s \o tlresp)[i] = IF i <= Len(s) THEN s[i] ELSE tlresp[i - Len(s)]
    BY <1>1, <1>4, ConcatProperties
  <2>2. QED
    BY <1>5, <1>6, <2>1
<1>9. QED
  BY <1>2, <1>7, <1>8, LenProperties

\* The count of any of the fifos is a number, and 0 only if there is no such entry.
LEMMA Tallies ==
    ASSUME TypeOK, NEW S, NEW s \in {capptag, tlresp, combo, rtyfifo, jail, out}
    PROVE  Tally(s, S) \in Nat /\ (Tally(s, S) = 0 <=> \A i \in DOMAIN s : s[i] \notin S)
<1>1. /\ capptag \in Seq(Tags) /\ tlresp \in Seq(AnyResponse) /\ combo \in Seq(Joined)
      /\ rtyfifo \in Seq(RetryFlits) /\ jail \in Seq(RetryFlits) /\ out \in Seq(RetryFlits)
  BY DEF TypeOK
<1>2. \E T : s \in Seq(T)
  BY <1>1
<1>3. QED
  BY <1>2, TallyType

\* The host has no command with tag t exactly if their number is 0.
LEMMA HostsAre ==
    ASSUME TypeOK, NEW t
    PROVE  /\ Cardinality(HostsWith(t)) \in Nat
           /\ Cardinality(HostsWith(t)) = 0 <=> ~HostHas(t)
           /\ Cardinality(HostsWith(t)) <= 1 => \A g, h \in HostsWith(t) : g = h
<1>1. IsFiniteSet(HostsWith(t))
  BY FS_Subset DEF HostsWith, TypeOK
<1>2. Cardinality(HostsWith(t)) \in Nat /\ (Cardinality(HostsWith(t)) = 0 <=> HostsWith(t) = {})
  BY <1>1, FS_CardinalityType, FS_EmptySet
<1>3. HostsWith(t) = {} <=> ~HostHas(t)
  BY DEF HostsWith, HostHas
<1>4. ASSUME Cardinality(HostsWith(t)) = 1
      PROVE  \A g, h \in HostsWith(t) : g = h
  BY <1>1, <1>4, FS_Singleton
<1>5. ASSUME Cardinality(HostsWith(t)) = 0
      PROVE  \A g, h \in HostsWith(t) : g = h
  BY <1>2, <1>5
<1>6. QED
  BY <1>2, <1>3, <1>4, <1>5

\* A tag that is settled is counted in the fifo in which the response is.
LEMMA SettlingCounts ==
    ASSUME TypeOK, OwnCommand, InTurn, NEW t \in Tags
    PROVE  Settling(t) <=> Tally(tlresp, SettledBy(cmdlookup[t], t)) + Tally(combo, JoinedBy(t)) # 0
<1> DEFINE n == Len(combo)
<1>1. /\ tlresp \in Seq(AnyResponse) /\ combo \in Seq(Joined)
      /\ \A i \in DOMAIN tlresp : tlresp[i] \in AnyResponse
      /\ \A i \in DOMAIN Coming : Coming[i] \in AnyResponse
  BY ComingIs, LenProperties, SMTT(30) DEF TypeOK
<1>2. \A i \in DOMAIN Coming : Fitting(Coming[i], Of(Coming[i]))
  BY DEF InTurn
<1>3. ASSUME NEW r \in AnyResponse, Fitting(r, Of(r))
      PROVE  Settles(r, Of(r)) <=> ~First(r) /\ ~Pending(r)
  BY <1>3, StateOf DEF First, Pending
<1>4. \A i \in DOMAIN combo :
         combo[i] \in JoinedBy(t) <=> Coming[i].tag = t /\ ~First(Coming[i]) /\ ~Pending(Coming[i])
  <2> SUFFICES ASSUME NEW i \in DOMAIN combo
               PROVE  combo[i] \in JoinedBy(t)
                      <=> Coming[i].tag = t /\ ~First(Coming[i]) /\ ~Pending(Coming[i])
    OBVIOUS
  <2>1. combo[i] \in Joined /\ Coming[i] = combo[i].resp /\ i \in DOMAIN Coming
    BY ComingIs
  <2>2. combo[i].of = Of(Coming[i])
    BY <2>1 DEF OwnCommand, Of
  <2>3. QED
    BY <1>1, <1>2, <1>3, <2>1, <2>2 DEF JoinedBy
<1>5. \A i \in DOMAIN tlresp :
         tlresp[i] \in SettledBy(cmdlookup[t], t)
         <=> LET r == Coming[n + i] IN r.tag = t /\ ~First(r) /\ ~Pending(r)
  <2> SUFFICES ASSUME NEW i \in DOMAIN tlresp
               PROVE  tlresp[i] \in SettledBy(cmdlookup[t], t)
                      <=> tlresp[i].tag = t /\ ~First(tlresp[i]) /\ ~Pending(tlresp[i])
    BY ComingIs
  <2>1. n + i \in DOMAIN Coming /\ Coming[n + i] = tlresp[i]
    BY ComingIs
  <2>2. QED
    BY <1>1, <1>2, <1>3, <2>1 DEF SettledBy, Of
<1>6. Settling(t) <=> \/ \E i \in DOMAIN combo : combo[i] \in JoinedBy(t)
                      \/ \E i \in DOMAIN tlresp : tlresp[i] \in SettledBy(cmdlookup[t], t)
  <2>1. ASSUME NEW i \in DOMAIN Coming
        PROVE  i \in DOMAIN combo \/ \E j \in DOMAIN tlresp : i = n + j
    <3>1. CASE i <= n
      BY <3>1, ComingIs
    <3>2. CASE i > n
      <4>1. i - n \in DOMAIN tlresp /\ i = n + (i - n)
        BY <3>2, ComingIs
      <4>2. QED
        BY <4>1
    <3>3. QED
      BY <3>1, <3>2, ComingIs
  <2>2. \A i \in DOMAIN combo : i \in DOMAIN Coming
    BY ComingIs
  <2>3. \A i \in DOMAIN tlresp : n + i \in DOMAIN Coming
    BY ComingIs
  <2>4. QED
    BY <1>4, <1>5, <2>1, <2>2, <2>3 DEF Settling
<1>7. /\ Tally(tlresp, SettledBy(cmdlookup[t], t)) \in Nat
      /\ Tally(tlresp, SettledBy(cmdlookup[t], t)) = 0
         <=> \A i \in DOMAIN tlresp : tlresp[i] \notin SettledBy(cmdlookup[t], t)
      /\ Tally(combo, JoinedBy(t)) \in Nat
      /\ Tally(combo, JoinedBy(t)) = 0 <=> \A i \in DOMAIN combo : combo[i] \notin JoinedBy(t)
  BY Tallies
<1>8. QED
  BY <1>6, <1>7

\* A tag is in one place only.
LEMMA OnePlace ==
    ASSUME TypeOK, TagsConserved, OwnCommand, InTurn, NEW t \in Tags
    PROVE  /\ HostHas(t) => /\ ~IsFree(t) /\ ~Settling(t) /\ ~Retried(t)
                            /\ InEngine(t) = 0 /\ NotLoaded(t) = 0
           /\ IsFree(t) => /\ ~Settling(t) /\ ~Retried(t) /\ InEngine(t) = 0 /\ NotLoaded(t) = 0
           /\ Settling(t) => ~Retried(t) /\ InEngine(t) = 0 /\ NotLoaded(t) = 0
           /\ Retried(t) => InEngine(t) = 0 /\ NotLoaded(t) = 0
           /\ InEngine(t) = 0 \/ NotLoaded(t) = 0
           /\ \A g, h \in host : g.tag = t /\ h.tag = t => g = h
           /\ HostHas(t) \/ IsFree(t) \/ Settling(t) \/ Retried(t) \/ InEngine(t) = 1 \/ NotLoaded(t) = 1
<1> DEFINE H == Cardinality(HostsWith(t))
           F == Tally(capptag, {t})
           S == Tally(tlresp, SettledBy(cmdlookup[t], t)) + Tally(combo, JoinedBy(t))
           R == Tally(rtyfifo, CommandsWith(t)) + Tally(jail, CommandsWith(t))
                + Tally(out, CommandsWith(t))
<1>1. H \in Nat /\ (H = 0 <=> ~HostHas(t))
  BY HostsAre
<1>2. F \in Nat /\ (F = 0 <=> ~IsFree(t))
  BY Tallies DEF IsFree
<1>3. S \in Nat /\ (S = 0 <=> ~Settling(t))
  <2>1. Tally(tlresp, SettledBy(cmdlookup[t], t)) \in Nat /\ Tally(combo, JoinedBy(t)) \in Nat
    BY Tallies
  <2>2. QED
    BY <2>1, SettlingCounts
<1>4. R \in Nat /\ (R = 0 <=> ~Retried(t))
  <2>1. ASSUME NEW s \in {rtyfifo, jail, out}
        PROVE  /\ Tally(s, CommandsWith(t)) \in Nat
               /\ Tally(s, CommandsWith(t)) = 0 <=> \A i \in DOMAIN s : ~(s[i].cmd /\ s[i].tag = t)
    <3>1. \A i \in DOMAIN s : s[i] \in RetryFlits
      <4>1. s \in Seq(RetryFlits)
        BY DEF TypeOK
      <4>2. QED
        BY <4>1, LenProperties
    <3>2. \A i \in DOMAIN s : s[i] \in CommandsWith(t) <=> s[i].cmd /\ s[i].tag = t
      BY <3>1 DEF CommandsWith
    <3>3. QED
      BY <3>2, Tallies
  <2>2. QED
    BY <2>1 DEF Retried
<1>5. InEngine(t) \in {0, 1} /\ NotLoaded(t) \in {0, 1}
  BY DEF InEngine, NotLoaded
<1>6. H + F + S + R + InEngine(t) + NotLoaded(t) = 1
  <2>1. /\ Places(t) = 1
        /\ Tally(tlresp, SettledBy(cmdlookup[t], t)) \in Nat /\ Tally(combo, JoinedBy(t)) \in Nat
        /\ Tally(rtyfifo, CommandsWith(t)) \in Nat /\ Tally(jail, CommandsWith(t)) \in Nat
        /\ Tally(out, CommandsWith(t)) \in Nat
    BY Tallies DEF TagsConserved
  <2>2. QED
    BY <1>1, <1>2, <1>5, <2>1, PlacesAre
<1>7. H <= 1
  BY <1>1, <1>2, <1>3, <1>4, <1>5, <1>6
<1>8. \A g, h \in host : g.tag = t /\ h.tag = t => g = h
  BY <1>7, HostsAre DEF HostsWith
<1> HIDE DEF H, F, S, R
<1>9. QED
  BY <1>1, <1>2, <1>3, <1>4, <1>5, <1>6, <1>8

\* Before a tag is used again nothing is under way that speaks of it.
LEMMA Quiet ==
    ASSUME TypeOK, TagsConserved, OwnCommand, InTurn, NEW t \in Tags,
           IsFree(t) \/ Retried(t) \/ NotLoaded(t) = 1
    PROVE  /\ \A i \in DOMAIN Coming : Coming[i].tag # t
           /\ ~HostHas(t)
           /\ ~(Passing /\ eng.tag = t)
<1>1. ~HostHas(t) /\ ~Settling(t) /\ InEngine(t) = 0
  BY OnePlace DEF InEngine, NotLoaded
<1>2. \A j \in DOMAIN Coming : Second(Coming[j]) \/ Coming[j].op = XLATE_DONE =>
         ~First(Coming[j]) /\ ~Pending(Coming[j])
  BY DEF InTurn, Fitting, First, Second, Pending, RD_OK, RD_FAIL, WR_OK, WR_FAIL, XLATE_DONE, PEND
<1>3. ASSUME NEW i \in DOMAIN Coming, Coming[i].tag = t
      PROVE  FALSE
  <2>1. First(Coming[i]) \/ Pending(Coming[i])
    BY <1>1, <1>3 DEF Settling
  <2>2. PICK j \in DOMAIN Coming : j > i /\ Coming[j].tag = t
    BY <1>1, <1>3, <2>1 DEF InTurn, HostHas
  <2>3. i < j
    BY <2>2, ComingIs
  <2>4. Second(Coming[j]) \/ Coming[j].op = XLATE_DONE
    BY <1>3, <2>2, <2>3 DEF InTurn
  <2>5. QED
    BY <1>1, <1>2, <2>2, <2>4 DEF Settling
<1>4. ~(Passing /\ eng.tag = t)
  BY <1>1, <1>3 DEF InEngine, InTurn, HostHas
<1>5. QED
  BY <1>1, <1>3, <1>4

-----------------------------------------------------------------------------
(* Chains of flits                                                         *)

Expected == WriteData \cup {NoData}

\* The flits of the retry path: a command of its tag, or one of the two data flits
\* of a write.
LEMMA FlitKinds ==
    /\ \A f \in CommandFlits : f.cmd = TRUE /\ f.of \in Commands /\ f.tag \in Tags /\ f.anno \in {0, RTY}
    /\ \A f \in WriteData : f.cmd = FALSE /\ f.of \in Writes /\ f.n \in 1..2 /\ f = Data(f.of, f.n)
    /\ NoData.cmd = FALSE /\ NoData \notin WriteData
    /\ \A c, d, m, n : Data(c, m) = Data(d, n) <=> c = d /\ m = n
    /\ \A c \in Writes : \A n \in 1..2 : Data(c, n) \in WriteData
    /\ \A f \in RetryFlits : After(f) \in Expected /\ f.cmd \in BOOLEAN
    /\ \A f \in RetryFlits : f.cmd => f \in CommandFlits
    /\ \A f \in RetryFlits : ~f.cmd => f \in WriteData
<1>1. \A f \in CommandFlits : f.cmd = TRUE /\ f.of \in Commands /\ f.tag \in Tags /\ f.anno \in {0, RTY}
  BY DEF CommandFlits, Command
<1>2. \A f \in WriteData : f.cmd = FALSE /\ f.of \in Writes /\ f.n \in 1..2 /\ f = Data(f.of, f.n)
  BY DEF WriteData, Data
<1>3. NoData.cmd = FALSE /\ NoData \notin WriteData
  BY <1>2 DEF NoData
<1>4. \A c, d, m, n : Data(c, m) = Data(d, n) <=> c = d /\ m = n
  <2> SUFFICES ASSUME NEW c, NEW d, NEW m, NEW n, Data(c, m) = Data(d, n)
               PROVE  c = d /\ m = n
    OBVIOUS
  <2>1. Data(c, m).of = c /\ Data(c, m).n = m /\ Data(d, n).of = d /\ Data(d, n).n = n
    BY DEF Data
  <2>2. QED
    BY <2>1
<1>5. \A c \in Writes : \A n \in 1..2 : Data(c, n) \in WriteData
  BY DEF WriteData
<1>6. \A f \in RetryFlits : After(f) \in Expected
  BY <1>1, <1>2, <1>5 DEF RetryFlits, After, Expected
<1>7. QED
  BY <1>1, <1>2, <1>3, <1>4, <1>5, <1>6 DEF RetryFlits

\* The writer writes what is expected of it.
LEMMA ChainAppend ==
    ASSUME NEW s \in Seq(RetryFlits), NEW e, NEW w, NEW f \in RetryFlits,
           Chain(e, s, w), Fits(w, f)
    PROVE  Chain(e, Append(s, f), After(f))
<1> DEFINE n == Len(s)
           u == Append(s, f)
<1>1. /\ Len(u) = n + 1 /\ u[n + 1] = f /\ \A i \in 1..n : u[i] = s[i]
      /\ u # <<>> /\ n \in Nat /\ (s # <<>> => n > 0)
  BY AppendProperties, LenProperties, EmptySeq
<1> HIDE DEF u
<1>2. Fits(e, u[1])
  BY <1>1 DEF Chain
<1>3. ASSUME NEW i \in 1..n
      PROVE  Fits(After(u[i]), u[i + 1])
  <2>1. CASE i < n
    BY <1>1, <2>1 DEF Chain
  <2>2. CASE i = n
    <3>1. s # <<>>
      BY <2>2, EmptySeq
    <3>2. QED
      BY <1>1, <2>2, <3>1 DEF Chain
  <2>3. QED
    BY <1>1, <2>1, <2>2
<1>4. QED
  BY <1>1, <1>2, <1>3 DEF Chain, u

\* The reader takes what it expects, and then expects what follows.
LEMMA ChainTail ==
    ASSUME NEW s \in Seq(RetryFlits), NEW e, NEW w, Chain(e, s, w), s # <<>>
    PROVE  Fits(e, Head(s)) /\ Chain(After(Head(s)), Tail(s), w) /\ Head(s) \in RetryFlits
<1> DEFINE n == Len(s)
           u == Tail(s)
<1>1. /\ Len(u) = n - 1 /\ n \in Nat \ {0} /\ \A i \in 1..n - 1 : u[i] = s[i + 1]
      /\ Head(s) = s[1] /\ u \in Seq(RetryFlits) /\ s[1] \in RetryFlits
  BY HeadTailProperties, LenProperties, EmptySeq
<1>2. (u = <<>> <=> n = 1) /\ (n > 1 => u[n - 1] = s[n] /\ u[1] = s[2])
  BY <1>1, EmptySeq
<1> HIDE DEF u
<1>3. Fits(e, s[1]) /\ w = After(s[n])
  BY DEF Chain
<1>4. ASSUME NEW i \in 1..Len(u) - 1
      PROVE  Fits(After(u[i]), u[i + 1])
  <2>1. i + 1 \in 1..n - 1 /\ u[i] = s[i + 1] /\ u[i + 1] = s[(i + 1) + 1]
    BY <1>1
  <2>2. Fits(After(s[i + 1]), s[(i + 1) + 1])
    BY <2>1 DEF Chain
  <2>3. QED
    BY <2>1, <2>2
<1>5. u # <<>> => Fits(After(s[1]), u[1]) /\ w = After(u[Len(u)])
  <2> SUFFICES ASSUME u # <<>>
               PROVE  Fits(After(s[1]), u[1]) /\ w = After(u[Len(u)])
    OBVIOUS
  <2>1. n > 1 /\ 1 \in 1..n - 1 /\ Len(u) = n - 1 /\ 1 + 1 = 2
    BY <1>1, <1>2
  <2>2. Fits(After(s[1]), s[1 + 1])
    BY <2>1 DEF Chain
  <2>3. QED
    BY <1>2, <1>3, <2>1, <2>2
<1>6. u = <<>> => After(s[1]) = w
  BY <1>2, <1>3
<1>7. QED
  BY <1>1, <1>3, <1>4, <1>5, <1>6 DEF Chain, u

\* Where a flit of data is to be written its command has gone before: it is in the
\* fifo, or the reader expects data of it too.
LEMMA ChainSource ==
    ASSUME NEW s \in Seq(RetryFlits), NEW e \in Expected, NEW c \in Writes, NEW n \in 1..2,
           Chain(e, s, Data(c, n))
    PROVE  \/ e # NoData /\ e.of = c
           \/ \E i \in DOMAIN s : s[i].cmd /\ s[i].of = c
<1> DEFINE k == Len(s)
<1>1. /\ k \in Nat /\ DOMAIN s = 1..k /\ (s # <<>> => k > 0)
      /\ \A i \in 1..k : s[i] \in RetryFlits
  BY LenProperties, EmptySeq
<1>2. Data(c, n) # NoData
  BY FlitKinds
<1>3. CASE s = <<>>
  BY <1>2, <1>3, FlitKinds DEF Chain, Expected
<1>4. CASE s # <<>>
  <2>1. k \in 1..k /\ s[k] \in RetryFlits /\ After(s[k]) = Data(c, n)
    BY <1>1, <1>4 DEF Chain
  <2>2. CASE s[k].cmd
    <3>1. s[k].of = c
      BY <1>2, <2>1, <2>2, FlitKinds DEF After
    <3>2. QED
      BY <1>1, <2>1, <2>2, <3>1
  <2>3. CASE ~s[k].cmd
    <3>1. s[k] = Data(c, 1)
      BY <1>2, <2>1, <2>3, FlitKinds DEF After
    <3>2. s[k] # NoData
      BY <3>1, FlitKinds
    <3>3. CASE k = 1
      <4>1. Fits(e, s[1])
        BY <1>4 DEF Chain
      <4>2. e = Data(c, 1)
        BY <2>3, <3>1, <3>3, <4>1 DEF Fits
      <4>3. QED
        BY <4>2, FlitKinds
    <3>4. CASE k > 1
      <4>1. k - 1 \in 1..k /\ k - 1 \in 1..k - 1 /\ (k - 1) + 1 = k
        BY <1>1, <3>4
      <4>2. Fits(After(s[k - 1]), s[k])
        BY <4>1 DEF Chain
      <4>3. After(s[k - 1]) = Data(c, 1)
        BY <2>3, <3>1, <4>2 DEF Fits
      <4>4. s[k - 1].cmd /\ s[k - 1].of = c
        <5>1. s[k - 1] \in RetryFlits
          BY <1>1, <4>1
        <5>2. Data(c, 1) # NoData
          BY FlitKinds
        <5>3. QED
          BY <4>3, <5>1, <5>2, FlitKinds DEF After
      <4>5. QED
        BY <1>1, <4>1, <4>4
    <3>5. QED
      BY <1>1, <1>4, <3>3, <3>4
  <2>4. QED
    BY <2>1, <2>2, <2>3, FlitKinds
<1>5. QED
  BY <1>3, <1>4

\* The fifos of the retry path, seen one by one.
LEMMA ChainsAre ==
    ASSUME TypeOK, NEW e, Chains(e)
    PROVE  /\ e \in Expected
           /\ rty.st = "START" => e = NoData
           /\ rty.st # "START" => e \in WriteData /\ rty.rdata = 3 - e.n
           /\ Chain(IF rty.st = "DATA" THEN e ELSE NoData, rtyfifo, EngWrites)
           /\ Chain(IF rty.st = "JAIL_DATA" THEN e ELSE NoData, jail,
                    IF rty.st = "DATA" /\ rty.jaildata THEN e ELSE NoData)
           /\ Chain(IngExpects, out,
                    IF rty.st = "JAIL_DATA" \/ (rty.st = "DATA" /\ ~rty.jaildata) THEN e ELSE NoData)
           /\ rtyfifo \in Seq(RetryFlits) /\ jail \in Seq(RetryFlits) /\ out \in Seq(RetryFlits)
  BY DEF Chains, Expected, TypeOK

\* While the data of a write are replayed its command is still in a fifo of the retry
\* path, or with the ingress, which waits for the data.
LEMMA Replayed ==
    ASSUME TypeOK, Machines, OneTag, OwnCommand, Replays, Replaying
    PROVE  \/ Retried(eng.tag)
           \/ ing.dflitRty > 0 /\ ing.tag = eng.tag
<1> DEFINE c == cmdlookup[eng.tag]
<1>1. PICK e \in WriteData \cup {NoData} : Chains(e)
  BY DEF Replays
<1>2. /\ c \in Writes /\ eng.tag \in Tags /\ eng.count \in 1..2
      /\ EngWrites = Data(c, eng.count)
  BY DEF Machines, EngWrites, Replaying
<1>3. \A s \in {rtyfifo, jail, out} : \A i \in DOMAIN s : s[i].cmd /\ s[i].of = c => Retried(eng.tag)
  <2> SUFFICES ASSUME NEW s \in {rtyfifo, jail, out}, NEW i \in DOMAIN s, s[i].cmd, s[i].of = c
               PROVE  Retried(eng.tag)
    OBVIOUS
  <2>1. s[i] \in RetryFlits
    <3>1. s \in Seq(RetryFlits)
      BY DEF TypeOK
    <3>2. QED
      BY <3>1, LenProperties
  <2>2. s[i].tag \in Tags /\ cmdlookup[s[i].tag] = c
    BY <2>1, FlitKinds DEF OwnCommand
  <2>3. s[i].tag = eng.tag
    BY <1>2, <2>2, EgressAssumption DEF OneTag
  <2>4. QED
    BY <2>3 DEF Retried
<1>4. \/ Retried(eng.tag)
      \/ rty.st = "DATA" /\ e # NoData /\ e.of = c
  <2>1. CASE rty.st = "DATA"
    BY <1>1, <1>2, <1>3, <2>1, ChainsAre, ChainSource, SMTT(30)
  <2>2. CASE rty.st # "DATA"
    <3>1. Chain(NoData, rtyfifo, Data(c, eng.count)) /\ rtyfifo \in Seq(RetryFlits)
      BY <1>1, <1>2, <2>2, ChainsAre
    <3>2. QED
      BY <1>2, <1>3, <3>1, ChainSource, ZenonT(60) DEF Expected
  <2>3. QED
    BY <2>1, <2>2
<1>5. ASSUME rty.st = "DATA", e # NoData, e.of = c
      PROVE  Retried(eng.tag) \/ (ing.dflitRty > 0 /\ cmdlookup[ing.tag] = c)
  <2>1. e = Data(c, e.n) /\ e.n \in 1..2
    BY <1>1, <1>5, FlitKinds
  <2>2. CASE rty.jaildata
    <3>1. Chain(NoData, jail, Data(c, e.n)) /\ jail \in Seq(RetryFlits)
      BY <1>1, <1>5, <2>1, <2>2, ChainsAre
    <3>2. QED
      BY <1>2, <1>3, <2>1, <3>1, ChainSource, ZenonT(60) DEF Expected
  <2>3. CASE ~rty.jaildata
    <3>1. Chain(IngExpects, out, Data(c, e.n)) /\ out \in Seq(RetryFlits)
      BY <1>1, <1>5, <2>1, <2>3, ChainsAre
    <3>2. CASE ing.dflitRty = 0
      <4>1. IngExpects = NoData
        BY <3>2 DEF IngExpects
      <4>2. QED
        BY <1>2, <1>3, <2>1, <3>1, <4>1, ChainSource, ZenonT(60) DEF Expected
    <3>3. CASE ing.dflitRty > 0
      <4>1. IngExpects = Data(cmdlookup[ing.tag], 3 - ing.dflitRty) /\ 3 - ing.dflitRty \in 1..2
        BY <3>3, Fields DEF IngExpects
      <4>2. CASE cmdlookup[ing.tag] \in Writes
        <5>1. IngExpects \in WriteData /\ IngExpects.of = cmdlookup[ing.tag]
          BY <4>1, <4>2, FlitKinds
        <5>2. QED
          BY <1>2, <1>3, <2>1, <3>1, <3>3, <5>1, ChainSource DEF Expected
      <4>3. CASE cmdlookup[ing.tag] \notin Writes
        BY <4>3, <3>3, Fields DEF Machines
      <4>4. QED
        BY <4>2, <4>3
    <3>4. QED
      BY <3>2, <3>3, Fields
  <2>4. QED
    BY <2>2, <2>3
<1>6. ing.dflitRty > 0 /\ cmdlookup[ing.tag] = c => ing.tag = eng.tag
  BY <1>2, EgressAssumption, Fields DEF OneTag, Machines
<1>7. QED
  BY <1>4, <1>5, <1>6

-----------------------------------------------------------------------------
(* What each step does                                                     *)

\* A write has two flits of data, any command one, two or four.
LEMMA Lengths ==
    /\ \A c \in Commands : Dl[c] \in 1..3 /\ FlitsOf(Dl[c]) \in {1, 2, 4}
    /\ FlitsOf(3) = 4 /\ FlitsOf(2) = 2 /\ FlitsOf(1) = 1
    /\ \A c \in Writes : c \in Commands /\ Dl[c] = 2 /\ FlitsOf(Dl[c]) = 2
    /\ NTags \in Nat \ {0} /\ NoCommand \notin Commands
    /\ \A dl : FlitsOf(dl) \in {1, 2, 4}
  BY EgressAssumption DEF FlitsOf

\* The host says r of command h, which is then forgotten or waits for its second half
\* or its translation.
Says(h, r, data) ==
    /\ r.tag = h.tag /\ Fitting(r, h.of)
    /\ h.st = "half" <=> Second(r)
    /\ h.st = "translating" <=> r.op = XLATE_DONE
    /\ ing.dflit + ing.dflitRty > 0 => ing.tag # h.tag
    /\ Len(data) = FlitsWith(r)
    /\ \A k \in 1..FlitsWith(r) : data[k] = Data(h.of, 2 * r.dp + k)
    /\ host' = (host \ {h}) \cup (IF First(r) THEN {[h EXCEPT !.st = "half"]}
                                  ELSE IF Pending(r) THEN {[h EXCEPT !.st = "translating"]}
                                  ELSE {})
    /\ stored' = IF r.op = WR_OK THEN [stored EXCEPT ![h.of] = <<Whole(h.of)>>] ELSE stored
    /\ tlresp' = Append(tlresp, r)
    /\ tldata' = tldata \o data
    /\ UNCHANGED <<capptag, lookups, ing, combo, eng, retryVars, netVars>>

\* The data of a write are its two flits.
LEMMA WholeWrite ==
    ASSUME NEW c \in Writes
    PROVE  /\ Whole(c) \in Seq(DataFlits) /\ Len(Whole(c)) = 2
           /\ \A k \in 1..2 : Whole(c)[k] = Data(c, k)
<1>1. Whole(c) = [i \in 1..2 |-> Data(c, i)]
  BY Lengths DEF Whole
<1>2. Whole(c) \in [1..2 -> DataFlits]
  BY <1>1, Lengths DEF DataFlits
<1>3. QED
  BY <1>1, <1>2, SeqDef, LenProperties

\* While the ingress takes data for a command, the host waits for them.
LEMMA HostWaits ==
    ASSUME TypeOK, Machines, TagsConserved, OwnCommand, InTurn, AtHost,
           ing.dflit + ing.dflitRty > 0, NEW h \in host, h.tag = ing.tag
    PROVE  h.of \in Writes /\ h.st = "new" /\ ~Complete(h)
<1>1. h.tag \in Tags /\ h.of \in Commands
  BY DEF TypeOK, Hosted
<1>2. PICK g \in host : g.tag = ing.tag /\ g.of \in Writes /\ g.st = "new"
  BY DEF AtHost
<1>3. g = h
  BY <1>1, <1>2, OnePlace
<1>4. Len(h.data) = 2 - (ing.dflit + ing.dflitRty)
  BY <1>2, <1>3 DEF AtHost, Reached
<1>5. Len(h.data) # 2
  BY <1>4, Fields
<1>6. QED
  BY <1>2, <1>3, <1>5, Lengths DEF Complete

\* Whatever the host does to a command, it answers with a response that fits it.
LEMMA HostSays ==
    ASSUME IInv, NEW t \in Tags, Host(t)
    PROVE  \E h \in host : \E r \in AnyResponse : \E data \in Seq(DataFlits) : Says(h, r, data)
<1> DEFINE Kept(h, r) == IF First(r) THEN {[h EXCEPT !.st = "half"]}
                         ELSE IF Pending(r) THEN {[h EXCEPT !.st = "translating"]} ELSE {}
<1>0. TypeOK /\ Machines /\ TagsConserved /\ OwnCommand /\ InTurn /\ AtHost /\ Performed
  BY DEF IInv
<1>1. PICK h \in host :
         /\ h.tag = t
         /\ \/ HostReads(h)
            \/ HostReadsHalf(h)
            \/ HostWrites(h)
            \/ \E code \in FailCodes : HostFails(h, code)
            \/ HostTranslated(h)
  BY DEF Host
<1>2. /\ h \in Hosted /\ h.of \in Commands /\ h.tag \in Tags
      /\ h.st \in {"new", "half", "translating"} /\ cmdlookup[h.tag] = h.of
  BY <1>0 DEF TypeOK, Hosted, OwnCommand
<1>3. ing.dflit + ing.dflitRty > 0 /\ h.tag = ing.tag => h.of \in Writes /\ h.st = "new" /\ ~Complete(h)
  BY <1>0, HostWaits
<1>4. <<>> \in Seq(DataFlits) /\ Len(<<>>) = 0
  BY EmptySeq
<1>5. ASSUME NEW r \in AnyResponse, NEW data \in Seq(DataFlits), r.tag = h.tag, Answers(h, r, data),
             Fitting(r, h.of), h.st = "half" <=> Second(r), h.st = "translating" <=> r.op = XLATE_DONE,
             ~(h.of \in Writes /\ h.st = "new" /\ ~Complete(h)),
             Len(data) = FlitsWith(r), \A k \in 1..FlitsWith(r) : data[k] = Data(h.of, 2 * r.dp + k),
             host' = (host \ {h}) \cup Kept(h, r),
             stored' = IF r.op = WR_OK THEN [stored EXCEPT ![h.of] = <<Whole(h.of)>>] ELSE stored
      PROVE  Says(h, r, data)
  BY <1>3, <1>5 DEF Says, Answers
<1> USE DEF AnyResponse, Response, Fitting, First, Second, Pending, Of, FlitsWith, Reads,
            RD_OK, RD_FAIL, WR_OK, WR_FAIL, XLATE_DONE, RTY, PEND
<1>6. CASE HostReads(h)
  <2> DEFINE r == Response(RD_OK, 0, Dl[h.of], 0, h.tag)
             data == [i \in 1..FlitsOf(Dl[h.of]) |-> Data(h.of, i)]
  <2>1. r \in AnyResponse /\ r.tag = h.tag /\ r.op = RD_OK /\ r.dl = Dl[h.of] /\ r.dp = 0 /\ r.code = 0
    BY <1>2, Lengths
  <2>2. data \in [1..FlitsOf(Dl[h.of]) -> DataFlits] /\ FlitsOf(Dl[h.of]) \in Nat
    BY <1>2, Lengths DEF DataFlits
  <2>3. data \in Seq(DataFlits) /\ Len(data) = FlitsOf(Dl[h.of])
    BY <2>2, SeqDef, LenProperties
  <2>4. \A k \in 1..FlitsOf(Dl[h.of]) : data[k] = Data(h.of, 2 * 0 + k)
    BY <2>2
  <2>5. Answers(h, r, data) /\ host' = host \ {h} /\ stored' = stored /\ h.st = "new" /\ h.of \notin Writes
    BY <1>6 DEF HostReads
  <2> HIDE DEF r, data
  <2>6. Fitting(r, h.of)
    BY <1>2, <2>1, <2>5, Lengths
  <2>7. (h.st = "half" <=> Second(r)) /\ (h.st = "translating" <=> r.op = XLATE_DONE)
    BY <1>2, <2>1, <2>5, Lengths
  <2>8. FlitsWith(r) = FlitsOf(Dl[h.of])
    BY <1>2, <2>1, <2>5, Lengths
  <2>9. (First(r) <=> FALSE) /\ (Pending(r) <=> FALSE)
    BY <1>2, <2>1, <2>5, Lengths
  <2>10. host' = (host \ {h}) \cup Kept(h, r)
    BY <2>9, <2>5
  <2>11. stored' = IF r.op = WR_OK THEN [stored EXCEPT ![h.of] = <<Whole(h.of)>>] ELSE stored
    BY <2>6, <2>7, <2>8, <2>10, <1>2, <2>1, <2>5, Lengths, <2>3, <2>4
  <2>12. ~(h.of \in Writes /\ h.st = "new" /\ ~Complete(h))
    BY <2>6, <2>7, <2>8, <2>10, <1>2, <2>1, <2>5, Lengths, <2>3, <2>4
  <2>13. Len(data) = FlitsWith(r) /\ \A k \in 1..FlitsWith(r) : data[k] = Data(h.of, 2 * r.dp + k)
    BY <2>6, <2>7, <2>8, <2>10, <1>2, <2>1, <2>5, Lengths, <2>3, <2>4
  <2> HIDE DEF AnyResponse, Response, Fitting, First, Second, Pending, Of, FlitsWith, Reads, Kept
  <2>14. Says(h, r, data)
    BY <1>5, <2>6, <2>7, <2>8, <2>10, <1>2, <2>1, <2>5, Lengths, <2>3, <2>4, <2>11, <2>12, <2>13
  <2>20. QED
    BY <2>1, <2>3, <2>14
<1>7. CASE HostReadsHalf(h)
  <2>0. Dl[h.of] = 3 /\ h.of \notin Writes /\ stored' = stored
    BY <1>7 DEF HostReadsHalf
  <2>1. CASE h.st = "new"
    <3> DEFINE r == Response(RD_OK, 0, 2, 0, h.tag)
               data == <<Data(h.of, 1), Data(h.of, 2)>>
    <3>1. r \in AnyResponse /\ r.tag = h.tag /\ r.op = RD_OK /\ r.dl = 2 /\ r.dp = 0 /\ r.code = 0
      BY <1>2
    <3>2. data \in Seq(DataFlits) /\ Len(data) = 2 /\ \A k \in 1..2 : data[k] = Data(h.of, 2 * 0 + k)
      BY <1>2 DEF DataFlits
    <3>3. Answers(h, r, data) /\ host' = (host \ {h}) \cup {[h EXCEPT !.st = "half"]}
      BY <1>7, <2>1 DEF HostReadsHalf
    <3> HIDE DEF r, data
    <3>4. Fitting(r, h.of)
      BY <1>2, <2>0, <2>1, <3>1, Lengths
    <3>5. (h.st = "half" <=> Second(r)) /\ (h.st = "translating" <=> r.op = XLATE_DONE)
      BY <1>2, <2>0, <2>1, <3>1, Lengths
    <3>6. FlitsWith(r) = 2
      BY <1>2, <2>0, <2>1, <3>1, Lengths
    <3>7. (First(r) <=> TRUE) /\ (Pending(r) <=> FALSE)
      BY <1>2, <2>0, <2>1, <3>1, Lengths
    <3>8. host' = (host \ {h}) \cup Kept(h, r)
      BY <3>7, <3>3
    <3>9. stored' = IF r.op = WR_OK THEN [stored EXCEPT ![h.of] = <<Whole(h.of)>>] ELSE stored
      BY <3>4, <3>5, <3>6, <3>8, <1>2, <2>0, <2>1, <3>1, Lengths, <3>2, <3>3
    <3>10. ~(h.of \in Writes /\ h.st = "new" /\ ~Complete(h))
      BY <3>4, <3>5, <3>6, <3>8, <1>2, <2>0, <2>1, <3>1, Lengths, <3>2, <3>3
    <3>11. Len(data) = FlitsWith(r) /\ \A k \in 1..FlitsWith(r) : data[k] = Data(h.of, 2 * r.dp + k)
      BY <3>4, <3>5, <3>6, <3>8, <1>2, <2>0, <2>1, <3>1, Lengths, <3>2, <3>3
    <3> HIDE DEF AnyResponse, Response, Fitting, First, Second, Pending, Of, FlitsWith, Reads, Kept
    <3>12. Says(h, r, data)
      BY <1>5, <3>4, <3>5, <3>6, <3>8, <1>2, <2>0, <2>1, <3>1, Lengths, <3>2, <3>3, <3>9, <3>10, <3>11
    <3>20. QED
      BY <3>1, <3>2, <3>12
  <2>2. CASE h.st = "half"
    <3> DEFINE r == Response(RD_OK, 0, 2, 1, h.tag)
               data == <<Data(h.of, 3), Data(h.of, 4)>>
    <3>1. r \in AnyResponse /\ r.tag = h.tag /\ r.op = RD_OK /\ r.dl = 2 /\ r.dp = 1 /\ r.code = 0
      BY <1>2
    <3>2. data \in Seq(DataFlits) /\ Len(data) = 2 /\ \A k \in 1..2 : data[k] = Data(h.of, 2 * 1 + k)
      BY <1>2 DEF DataFlits
    <3>3. Answers(h, r, data) /\ host' = host \ {h}
      BY <1>7, <2>2 DEF HostReadsHalf
    <3> HIDE DEF r, data
    <3>4. Fitting(r, h.of)
      BY <1>2, <2>0, <2>2, <3>1, Lengths
    <3>5. (h.st = "half" <=> Second(r)) /\ (h.st = "translating" <=> r.op = XLATE_DONE)
      BY <1>2, <2>0, <2>2, <3>1, Lengths
    <3>6. FlitsWith(r) = 2
      BY <1>2, <2>0, <2>2, <3>1, Lengths
    <3>7. (First(r) <=> FALSE) /\ (Pending(r) <=> FALSE)
      BY <1>2, <2>0, <2>2, <3>1, Lengths
    <3>8. host' = (host \ {h}) \cup Kept(h, r)
      BY <3>7, <3>3
    <3>9. stored' = IF r.op = WR_OK THEN [stored EXCEPT ![h.of] = <<Whole(h.of)>>] ELSE stored
      BY <3>4, <3>5, <3>6, <3>8, <1>2, <2>0, <2>2, <3>1, Lengths, <3>2, <3>3
    <3>10. ~(h.of \in Writes /\ h.st = "new" /\ ~Complete(h))
      BY <3>4, <3>5, <3>6, <3>8, <1>2, <2>0, <2>2, <3>1, Lengths, <3>2, <3>3
    <3>11. Len(data) = FlitsWith(r) /\ \A k \in 1..FlitsWith(r) : data[k] = Data(h.of, 2 * r.dp + k)
      BY <3>4, <3>5, <3>6, <3>8, <1>2, <2>0, <2>2, <3>1, Lengths, <3>2, <3>3
    <3> HIDE DEF AnyResponse, Response, Fitting, First, Second, Pending, Of, FlitsWith, Reads, Kept
    <3>12. Says(h, r, data)
      BY <1>5, <3>4, <3>5, <3>6, <3>8, <1>2, <2>0, <2>2, <3>1, Lengths, <3>2, <3>3, <3>9, <3>10, <3>11
    <3>20. QED
      BY <3>1, <3>2, <3>12
  <2>3. QED
    BY <1>7, <2>1, <2>2 DEF HostReadsHalf
<1>8. CASE HostWrites(h)
  <2> DEFINE r == Response(WR_OK, 0, Dl[h.of], 0, h.tag)
  <2>1. r \in AnyResponse /\ r.tag = h.tag /\ r.op = WR_OK /\ r.dp = 0 /\ r.code = 0
    BY <1>2, Lengths
  <2>2. /\ Answers(h, r, <<>>) /\ host' = host \ {h} /\ h.st = "new" /\ h.of \in Writes /\ Complete(h)
        /\ stored' = [stored EXCEPT ![h.of] = Append(@, h.data)]
    BY <1>8 DEF HostWrites
  <2>3. h.data = Whole(h.of)
    <3>1. h.data \in Seq(DataFlits) /\ Len(h.data) = 2
      BY <1>2, <2>2, Lengths DEF Hosted, Complete
    <3>2. Reached(h) = 2
      BY <1>0, <3>1 DEF AtHost
    <3>3. \A k \in 1..2 : h.data[k] = Data(h.of, k)
      BY <1>0, <3>2 DEF AtHost
    <3>4. QED
      BY <2>2, <3>1, <3>3, WholeWrite, SeqEqual
  <2>4. stored[h.of] = <<>>
    BY <1>0 DEF Performed
  <2>5. Append(<<>>, Whole(h.of)) = <<Whole(h.of)>>
    OBVIOUS
  <2>6. stored' = [stored EXCEPT ![h.of] = <<Whole(h.of)>>]
    BY <2>2, <2>3, <2>4, <2>5
  <2> HIDE DEF r
  <2>7. Fitting(r, h.of)
    BY <1>2, <2>1, <2>2
  <2>8. (h.st = "half" <=> Second(r)) /\ (h.st = "translating" <=> r.op = XLATE_DONE)
    BY <1>2, <2>1, <2>2
  <2>9. FlitsWith(r) = 0
    BY <1>2, <2>1, <2>2
  <2>10. (First(r) <=> FALSE) /\ (Pending(r) <=> FALSE)
    BY <1>2, <2>1, <2>2
  <2>11. host' = (host \ {h}) \cup Kept(h, r)
    BY <2>10, <2>2
  <2>12. stored' = IF r.op = WR_OK THEN [stored EXCEPT ![h.of] = <<Whole(h.of)>>] ELSE stored
    BY <2>7, <2>8, <2>9, <2>11, <1>2, <2>1, <2>2, <1>4, <2>6
  <2>13. ~(h.of \in Writes /\ h.st = "new" /\ ~Complete(h))
    BY <2>7, <2>8, <2>9, <2>11, <1>2, <2>1, <2>2, <1>4, <2>6
  <2>14. Len(<<>>) = FlitsWith(r) /\ \A k \in 1..FlitsWith(r) : <<>>[k] = Data(h.of, 2 * r.dp + k)
    BY <2>7, <2>8, <2>9, <2>11, <1>2, <2>1, <2>2, <1>4, <2>6
  <2> HIDE DEF AnyResponse, Response, Fitting, First, Second, Pending, Of, FlitsWith, Reads, Kept
  <2>15. Says(h, r, <<>>)
    BY <1>5, <2>7, <2>8, <2>9, <2>11, <1>2, <2>1, <2>2, <1>4, <2>6, <2>12, <2>13, <2>14
  <2>20. QED
    BY <1>4, <2>1, <2>15
<1>9. ASSUME NEW code \in FailCodes, HostFails(h, code)
      PROVE  \E r \in AnyResponse : \E data \in Seq(DataFlits) : Says(h, r, data)
  <2> DEFINE op == IF h.of \in Writes THEN WR_FAIL ELSE RD_FAIL
             r == Response(op, code, 0, 0, h.tag)
  <2>1. /\ r \in AnyResponse /\ r.tag = h.tag /\ r.op = op /\ r.dl = 0 /\ r.dp = 0 /\ r.code = code
        /\ code \in 1..15 /\ op = IF h.of \in Writes THEN WR_FAIL ELSE RD_FAIL
    BY <1>2, EgressAssumption
  <2>2. /\ Answers(h, r, <<>>) /\ h.st = "new" /\ Complete(h) /\ stored' = stored
        /\ host' = (host \ {h}) \cup (IF code = PEND THEN {[h EXCEPT !.st = "translating"]} ELSE {})
    BY <1>9 DEF HostFails
  <2> HIDE DEF r, op
  <2>3. Fitting(r, h.of)
    BY <1>2, <2>1, <2>2
  <2>4. (h.st = "half" <=> Second(r)) /\ (h.st = "translating" <=> r.op = XLATE_DONE)
    BY <1>2, <2>1, <2>2
  <2>5. FlitsWith(r) = 0
    BY <1>2, <2>1, <2>2
  <2>6. (First(r) <=> FALSE) /\ (Pending(r) <=> code = PEND)
    BY <1>2, <2>1, <2>2
  <2>7. host' = (host \ {h}) \cup Kept(h, r)
    BY <2>6, <2>2
  <2>8. stored' = IF r.op = WR_OK THEN [stored EXCEPT ![h.of] = <<Whole(h.of)>>] ELSE stored
    BY <2>3, <2>4, <2>5, <2>7, <1>2, <2>1, <2>2, <1>4
  <2>9. ~(h.of \in Writes /\ h.st = "new" /\ ~Complete(h))
    BY <2>3, <2>4, <2>5, <2>7, <1>2, <2>1, <2>2, <1>4
  <2>10. Len(<<>>) = FlitsWith(r) /\ \A k \in 1..FlitsWith(r) : <<>>[k] = Data(h.of, 2 * r.dp + k)
    BY <2>3, <2>4, <2>5, <2>7, <1>2, <2>1, <2>2, <1>4
  <2> HIDE DEF AnyResponse, Response, Fitting, First, Second, Pending, Of, FlitsWith, Reads, Kept
  <2>11. Says(h, r, <<>>)
    BY <1>5, <2>3, <2>4, <2>5, <2>7, <1>2, <2>1, <2>2, <1>4, <2>8, <2>9, <2>10
  <2>20. QED
    BY <1>4, <2>1, <2>11
<1>10. CASE HostTranslated(h)
  <2> DEFINE r == Response(XLATE_DONE, 0, 0, 0, h.tag)
  <2>1. r \in AnyResponse /\ r.tag = h.tag /\ r.op = XLATE_DONE /\ r.dp = 0 /\ r.code = 0
    BY <1>2
  <2>2. Answers(h, r, <<>>) /\ h.st = "translating" /\ host' = host \ {h} /\ stored' = stored
    BY <1>10 DEF HostTranslated
  <2> HIDE DEF r
  <2>3. Fitting(r, h.of)
    BY <1>2, <2>1, <2>2
  <2>4. (h.st = "half" <=> Second(r)) /\ (h.st = "translating" <=> r.op = XLATE_DONE)
    BY <1>2, <2>1, <2>2
  <2>5. FlitsWith(r) = 0
    BY <1>2, <2>1, <2>2
  <2>6. (First(r) <=> FALSE) /\ (Pending(r) <=> FALSE)
    BY <1>2, <2>1, <2>2
  <2>7. host' = (host \ {h}) \cup Kept(h, r)
    BY <2>6, <2>2
  <2>8. stored' = IF r.op = WR_OK THEN [stored EXCEPT ![h.of] = <<Whole(h.of)>>] ELSE stored
    BY <2>3, <2>4, <2>5, <2>7, <1>2, <2>1, <2>2, <1>4
  <2>9. ~(h.of \in Writes /\ h.st = "new" /\ ~Complete(h))
    BY <2>3, <2>4, <2>5, <2>7, <1>2, <2>1, <2>2, <1>4
  <2>10. Len(<<>>) = FlitsWith(r) /\ \A k \in 1..FlitsWith(r) : <<>>[k] = Data(h.of, 2 * r.dp + k)
    BY <2>3, <2>4, <2>5, <2>7, <1>2, <2>1, <2>2, <1>4
  <2> HIDE DEF AnyResponse, Response, Fitting, First, Second, Pending, Of, FlitsWith, Reads, Kept
  <2>11. Says(h, r, <<>>)
    BY <1>5, <2>3, <2>4, <2>5, <2>7, <1>2, <2>1, <2>2, <1>4, <2>8, <2>9, <2>10
  <2>20. QED
    BY <1>4, <2>1, <2>11
<1>11. QED
  BY <1>1, <1>6, <1>7, <1>8, <1>9, <1>10

\* A fifo that is not empty.
LEMMA Heading ==
    ASSUME NEW T, NEW s \in Seq(T), s # <<>>
    PROVE  Head(s) \in T /\ Head(s) = s[1] /\ 1 \in DOMAIN s /\ Tail(s) \in Seq(T)
  BY HeadTailProperties, LenProperties, EmptySeq

\* What each state machine finds at the head of the fifo that it reads, and what the
\* two sources of data, the network and the stores, come up with.
LEMMA Heads ==
    ASSUME IInv
    PROVE  /\ InStep
           /\ \A s \in {rtyfifo, jail, out} : s # <<>> =>
                 /\ Head(s) \in RetryFlits
                 /\ Head(s).cmd => Head(s).of = cmdlookup[Head(s).tag] /\ Retried(Head(s).tag)
           /\ ing.dflitRty > 0 => IngExpects \in WriteData
           /\ ing.dflitRty > 0 /\ out # <<>> => Head(out) = IngExpects
           /\ Replaying => LookedUp(eng.tag)[eng.count] = EngWrites /\ EngWrites \in WriteData
           /\ ing.dflit > 0 => /\ sender \in Writes /\ sender = cmdlookup[ing.tag]
                               /\ Data(sender, FlitsOf(Dl[sender]) - ing.dflit + 1)
                                  = Data(cmdlookup[ing.tag], 3 - ing.dflit)
                               /\ Data(sender, 3 - ing.dflit) \in WriteData
<1>0. /\ TypeOK /\ Machines /\ TagsConserved /\ OneTag /\ OwnCommand /\ InTurn /\ Stores /\ AtHost
      /\ Replays
  BY DEF IInv
<1>1. PICK e \in WriteData \cup {NoData} : Chains(e)
  BY <1>0 DEF Replays
<1>2. /\ ing.st # "RECEIVE_DATA" <=> ing.dflit = 0 /\ ing.dflitRty = 0
      /\ ing.dflit \in 0..2 /\ ing.dflitRty \in 0..2
      /\ ing.dflit = 0 \/ ing.dflitRty = 0
      /\ ing.dflit + ing.dflitRty > 0 => ing.tag \in Tags /\ cmdlookup[ing.tag] \in Writes
  BY <1>0, Fields DEF Machines
<1>3. IngExpects = IF ing.dflitRty > 0 THEN Data(cmdlookup[ing.tag], 3 - ing.dflitRty) ELSE NoData
  BY DEF IngExpects
<1>4. ing.dflitRty > 0 => IngExpects \in WriteData
  BY <1>2, <1>3, FlitKinds
<1>5. \A s \in {rtyfifo, jail, out} : s # <<>> =>
         /\ Head(s) \in RetryFlits
         /\ Head(s).cmd => Head(s).of = cmdlookup[Head(s).tag] /\ Retried(Head(s).tag)
  <2> SUFFICES ASSUME NEW s \in {rtyfifo, jail, out}, s # <<>>
               PROVE  /\ Head(s) \in RetryFlits
                      /\ Head(s).cmd => Head(s).of = cmdlookup[Head(s).tag] /\ Retried(Head(s).tag)
    OBVIOUS
  <2>1. s \in Seq(RetryFlits)
    BY <1>0 DEF TypeOK
  <2>2. Head(s) \in RetryFlits /\ Head(s) = s[1] /\ 1 \in DOMAIN s
    BY <2>1, Heading
  <2>3. QED
    BY <1>0, <2>2 DEF OwnCommand, Retried
<1>6. rtyfifo # <<>> => Head(rtyfifo).cmd = (rty.st # "DATA")
  <2>1. rtyfifo # <<>> => Fits(IF rty.st = "DATA" THEN e ELSE NoData, Head(rtyfifo))
    BY <1>0, <1>1, ChainsAre, ChainTail
  <2>2. rtyfifo # <<>> => Head(rtyfifo).cmd \in BOOLEAN
    BY <1>5, FlitKinds
  <2>3. rty.st = "DATA" => e \in WriteData /\ e # NoData /\ e.cmd = FALSE
    BY <1>0, <1>1, ChainsAre, FlitKinds
  <2>4. QED
    BY <2>1, <2>2, <2>3 DEF Fits
<1>7. jail # <<>> => Head(jail).cmd = (rty.st # "JAIL_DATA")
  <2>1. jail # <<>> => Fits(IF rty.st = "JAIL_DATA" THEN e ELSE NoData, Head(jail))
    BY <1>0, <1>1, ChainsAre, ChainTail
  <2>2. jail # <<>> => Head(jail).cmd \in BOOLEAN
    BY <1>5, FlitKinds
  <2>3. rty.st = "JAIL_DATA" => e \in WriteData /\ e # NoData /\ e.cmd = FALSE
    BY <1>0, <1>1, ChainsAre, FlitKinds
  <2>4. QED
    BY <2>1, <2>2, <2>3 DEF Fits
<1>8. out # <<>> => Fits(IngExpects, Head(out))
  BY <1>0, <1>1, ChainsAre, ChainTail
<1>9. ing.dflitRty > 0 /\ out # <<>> => Head(out) = IngExpects
  BY <1>4, <1>8, FlitKinds DEF Fits
<1>10. out # <<>> /\ ing.dflit = 0 => Head(out).cmd = (ing.st # "RECEIVE_DATA")
  <2>1. out # <<>> => Head(out).cmd \in BOOLEAN
    BY <1>5, FlitKinds
  <2>2. ing.dflitRty > 0 => IngExpects.cmd = FALSE
    BY <1>4, FlitKinds
  <2>3. QED
    BY <1>2, <1>3, <1>8, <1>9, <2>1, <2>2 DEF Fits
<1>11. ASSUME Replaying
       PROVE  LookedUp(eng.tag)[eng.count] = EngWrites /\ EngWrites \in WriteData
  <2>1. /\ eng.tag \in Tags /\ eng.count \in 1..2 /\ cmdlookup[eng.tag] \in Writes
        /\ EngWrites = Data(cmdlookup[eng.tag], eng.count)
    BY <1>0, <1>11 DEF Machines, Replaying, EngWrites
  <2>2. ~(ing.tag = eng.tag /\ ing.dflit > 0)
    <3>1. Retried(eng.tag) \/ (ing.dflitRty > 0 /\ ing.tag = eng.tag)
      BY <1>0, <1>11, Replayed
    <3>2. Retried(eng.tag) => ~HostHas(eng.tag)
      BY <1>0, <2>1, OnePlace
    <3>3. ing.dflit > 0 => HostHas(ing.tag)
      BY <1>0, <1>2 DEF AtHost, HostHas
    <3>4. QED
      BY <1>2, <3>1, <3>2, <3>3
  <2>3. d0lookup[eng.tag] = Data(cmdlookup[eng.tag], 1) /\ d1lookup[eng.tag] = Data(cmdlookup[eng.tag], 2)
    BY <1>0, <1>2, <2>1, <2>2 DEF Stores
  <2>4. QED
    BY <2>1, <2>3, FlitKinds DEF LookedUp
<1>12. ASSUME ing.dflit > 0
       PROVE  /\ sender \in Writes /\ sender = cmdlookup[ing.tag]
              /\ Data(sender, FlitsOf(Dl[sender]) - ing.dflit + 1) = Data(cmdlookup[ing.tag], 3 - ing.dflit)
              /\ Data(sender, 3 - ing.dflit) \in WriteData
  <2>1. sender = cmdlookup[ing.tag] /\ sender \in Writes
    BY <1>0, <1>2, <1>12 DEF Stores
  <2>2. FlitsOf(Dl[sender]) - ing.dflit + 1 = 3 - ing.dflit /\ 3 - ing.dflit \in 1..2
    BY <1>2, <1>12, <2>1, Lengths
  <2>3. QED
    BY <2>1, <2>2, FlitKinds
<1>13. QED
  BY <1>4, <1>5, <1>6, <1>7, <1>9, <1>10, <1>11, <1>12 DEF InStep

\* The response that the engine takes.
LEMMA Taken ==
    ASSUME IInv, eng.st = "GET_CMD", combo # <<>>
    PROVE  /\ 1 \in DOMAIN Coming /\ Coming[1] = Head(combo).resp /\ Head(combo) \in Joined
           /\ Head(combo).resp \in AnyResponse
           /\ Head(combo).of = Of(Coming[1]) /\ Fitting(Coming[1], Head(combo).of)
           /\ Head(combo).of \in Commands /\ Head(combo).resp.tag \in Tags
           /\ Head(combo).of = cmdlookup[Head(combo).resp.tag]
           /\ Seen(eng, Head(combo)).keep = (Head(combo).resp.dl # Dl[Head(combo).of] /\ Head(combo).resp.dp = 0)
<1>0. TypeOK /\ OwnCommand /\ InTurn
  BY DEF IInv
<1>1. Head(combo) = combo[1] /\ 1 \in DOMAIN combo /\ Head(combo) \in Joined
  BY <1>0, Heading DEF TypeOK
<1>2. 1 \in DOMAIN Coming /\ Coming[1] = combo[1].resp
  BY <1>0, <1>1, ComingIs
<1>3. combo[1].of = cmdlookup[combo[1].resp.tag]
  BY <1>0, <1>1 DEF OwnCommand
<1>4. Fitting(Coming[1], Of(Coming[1]))
  BY <1>0, <1>2 DEF InTurn
<1>5. QED
  BY <1>0, <1>1, <1>2, <1>3, <1>4, SMTT(30) DEF Joined, AnyResponse, Of, Seen, TypeOK, Fitting

-----------------------------------------------------------------------------
(* Each step preserves the types                                           *)

\* The commands and data flits that the engines make are flits of the retry path.
LEMMA FlitTypes ==
    /\ \A c \in Commands : \A t \in Tags : \A a \in {0, RTY} : Command(c, t, a) \in RetryFlits
    /\ WriteData \subseteq RetryFlits /\ WriteData \subseteq DataFlits
    /\ \A c \in Commands : \A n \in 1..4 : Data(c, n) \in DataFlits
    /\ \A f \in RetryFlits : f.of \in Commands
<1>1. \A c \in Commands : \A t \in Tags : \A a \in {0, RTY} : Command(c, t, a) \in RetryFlits
  BY DEF RetryFlits, CommandFlits
<1>2. WriteData \subseteq RetryFlits /\ WriteData \subseteq DataFlits
  BY EgressAssumption DEF RetryFlits, WriteData, DataFlits
<1>3. \A c \in Commands : \A n \in 1..4 : Data(c, n) \in DataFlits
  BY DEF DataFlits
<1>4. \A f \in RetryFlits : f.of \in Commands
  BY FlitKinds, EgressAssumption DEF RetryFlits
<1>5. QED
  BY <1>1, <1>2, <1>3, <1>4

\* The states of the machines with some fields replaced.
LEMMA IngReplace ==
    \A x \in IngStates : \A st \in {"INIT", "RECEIVE_CMD", "RECEIVE_DATA"} : \A n \in 0..2 :
       /\ \A t \in 0..NTags : [x EXCEPT !.st = st, !.tag = t, !.dflit = n] \in IngStates
       /\ \A t \in 0..NTags : [x EXCEPT !.st = st, !.tag = t, !.dflitRty = n] \in IngStates
       /\ [x EXCEPT !.dflit = n, !.st = st] \in IngStates
       /\ [x EXCEPT !.dflitRty = n, !.st = st] \in IngStates
<1> SUFFICES ASSUME NEW x \in IngStates, NEW st \in {"INIT", "RECEIVE_CMD", "RECEIVE_DATA"}, NEW n \in 0..2
             PROVE  /\ \A t \in 0..NTags : [x EXCEPT !.st = st, !.tag = t, !.dflit = n] \in IngStates
                    /\ \A t \in 0..NTags : [x EXCEPT !.st = st, !.tag = t, !.dflitRty = n] \in IngStates
                    /\ [x EXCEPT !.dflit = n, !.st = st] \in IngStates
                    /\ [x EXCEPT !.dflitRty = n, !.st = st] \in IngStates
  BY Zenon
<1>1. ASSUME NEW t \in 0..NTags
      PROVE  [x EXCEPT !.st = st, !.tag = t, !.dflit = n] \in IngStates
  BY DEF IngStates
<1>2. ASSUME NEW t \in 0..NTags
      PROVE  [x EXCEPT !.st = st, !.tag = t, !.dflitRty = n] \in IngStates
  BY DEF IngStates
<1>3. [x EXCEPT !.dflit = n, !.st = st] \in IngStates
  BY DEF IngStates
<1>4. [x EXCEPT !.dflitRty = n, !.st = st] \in IngStates
  BY DEF IngStates
<1>5. QED
  BY <1>1, <1>2, <1>3, <1>4, Zenon

\* The response engine's fields can be replaced one by one.
LEMMA EngReplace ==
    \A x \in EngStates :
       /\ \A n \in 0..4 : [x EXCEPT !.cdata = n] \in EngStates
       /\ \A st \in {"INIT", "GET_CMD", "GET_DATA"} :
             /\ [x EXCEPT !.st = st] \in EngStates
             /\ \A n \in 1..NTags + 1 : [x EXCEPT !.next = n, !.st = st] \in EngStates
             /\ \A k \in 0..3 : [x EXCEPT !.count = k, !.st = st] \in EngStates
             /\ \A n \in 0..4 : \A k \in 0..3 : \A f \in BOOLEAN :
                   [x EXCEPT !.cdata = n, !.count = k, !.fresh = f, !.st = st] \in EngStates
<1>1. ASSUME NEW x \in EngStates, NEW n \in 0..4
      PROVE  [x EXCEPT !.cdata = n] \in EngStates
  BY DEF EngStates
<1>2. ASSUME NEW x \in EngStates, NEW st \in {"INIT", "GET_CMD", "GET_DATA"}
      PROVE  [x EXCEPT !.st = st] \in EngStates
  BY DEF EngStates
<1>3. ASSUME NEW x \in EngStates, NEW st \in {"INIT", "GET_CMD", "GET_DATA"}, NEW n \in 1..NTags + 1
      PROVE  [x EXCEPT !.next = n, !.st = st] \in EngStates
  BY DEF EngStates
<1>4. ASSUME NEW x \in EngStates, NEW st \in {"INIT", "GET_CMD", "GET_DATA"}, NEW k \in 0..3
      PROVE  [x EXCEPT !.count = k, !.st = st] \in EngStates
  BY DEF EngStates
<1>5. ASSUME NEW x \in EngStates, NEW st \in {"INIT", "GET_CMD", "GET_DATA"},
             NEW n \in 0..4, NEW k \in 0..3, NEW f \in BOOLEAN
      PROVE  [x EXCEPT !.cdata = n, !.count = k, !.fresh = f, !.st = st] \in EngStates
  BY DEF EngStates
<1>6. QED
  BY <1>1, <1>2, <1>3, <1>4, <1>5, Zenon

\* No step stores, moves or makes anything that is not of its type.
LEMMA TypeStep ==
    ASSUME IInv, [Next]_vars
    PROVE  TypeOK'
<1>0. TypeOK
  BY DEF IInv
<1> USE DEF TypeOK, lookups, hostVars, respVars, retryVars, netVars
<1>1. ASSUME NEW c \in Commands, NetCommand(c)
      PROVE  TypeOK'
  <2>1. Head(capptag) \in Tags /\ Tail(capptag) \in Seq(Tags)
    BY <1>0, <1>1, Heading DEF NetCommand
  <2>2. [of |-> c, tag |-> Head(capptag), data |-> <<>>, st |-> "new"] \in Hosted
    BY <2>1, EmptySeq DEF Hosted
  <2>3. host' \subseteq Hosted /\ IsFiniteSet(host')
    BY <1>0, <1>1, <2>2, FS_AddElement DEF NetCommand, Issue
  <2>4. Tags \subseteq 0..NTags /\ (c \in Writes => FlitsOf(Dl[c]) = 2)
    BY Lengths DEF Tags
  <2>5. ing' \in IngStates
    <3> HIDE DEF TypeOK
    <3>1. /\ ing \in IngStates
          /\ ing' = [ing EXCEPT !.st = IF c \in Writes THEN "RECEIVE_DATA" ELSE @, !.tag = Head(capptag),
                               !.dflit = IF c \in Writes THEN FlitsOf(Dl[c]) ELSE 0]
      BY <1>0, <1>1, Fields DEF NetCommand
    <3> DEFINE st == IF c \in Writes THEN "RECEIVE_DATA" ELSE ing.st
               n == IF c \in Writes THEN FlitsOf(Dl[c]) ELSE 0
    <3>2. st \in {"INIT", "RECEIVE_CMD", "RECEIVE_DATA"} /\ n \in 0..2 /\ Head(capptag) \in 0..NTags
      BY <2>1, <2>4, <3>1, Fields
    <3>3. ing' = [ing EXCEPT !.st = st, !.tag = Head(capptag), !.dflit = n]
      BY <3>1
    <3> HIDE DEF st, n
    <3>4. [ing EXCEPT !.st = st, !.tag = Head(capptag), !.dflit = n] \in IngStates
      BY <3>1, <3>2, IngReplace, Zenon
    <3>5. QED
      BY <3>3, <3>4
  <2>6. QED
    BY <1>0, <1>1, <2>1, <2>3, <2>5 DEF NetCommand
<1>2. CASE EnableIngress
  <2>1. ing' \in IngStates
    <3> HIDE DEF TypeOK
    <3>1. ing \in IngStates /\ ing' = [ing EXCEPT !.st = "RECEIVE_CMD"]
      BY <1>0, <1>2, Fields DEF EnableIngress
    <3>2. QED
      BY <3>1 DEF IngStates
  <2>2. QED
    BY <1>0, <1>2, <2>1 DEF EnableIngress
<1>3. ASSUME NEW d \in DataFlits, IssueData(d)
      PROVE  host' \subseteq Hosted /\ IsFiniteSet(host')
  <2>1. \A h \in Hosted : Append(h.data, d) \in Seq(DataFlits)
    BY DEF Hosted
  <2>2. \A h \in Hosted : [h EXCEPT !.data = Append(@, d)] \in Hosted
    BY <2>1 DEF Hosted
  <2>3. host' \subseteq Hosted
    <3>1. \A x \in host' : \E h \in Hosted : x = h \/ x = [h EXCEPT !.data = Append(@, d)]
      BY <1>0, <1>3 DEF IssueData
    <3>2. QED
      BY <2>2, <3>1
  <2>4. IsFiniteSet(host')
    <3>0. IsFiniteSet(host)
      BY <1>0
    <3> HIDE DEF TypeOK
    <3> DEFINE g(h) == IF h.tag = ing.tag THEN [h EXCEPT !.data = Append(@, d)] ELSE h
               f == [h \in host |-> g(h)]
    <3>1. host' = {g(h) : h \in host}
      BY <1>3 DEF IssueData
    <3> HIDE DEF g
    <3>2. f \in Surjection(host, host')
      BY <3>1 DEF Surjection
    <3>3. QED
      BY <3>0, <3>2, FS_Surjection
  <2>5. QED
    BY <2>3, <2>4
<1>4. CASE NetData
  <2>1. Data(sender, FlitsOf(Dl[sender]) - ing.dflit + 1) \in DataFlits
    BY <1>4, Heads, FlitTypes DEF NetData
  <2>2. host' \subseteq Hosted /\ IsFiniteSet(host')
    BY <1>3, <1>4, <2>1 DEF NetData
  <2>3. ing' \in IngStates
    <3> HIDE DEF TypeOK
    <3>1. /\ ing \in IngStates /\ ing.dflit > 0
          /\ ing' = [ing EXCEPT !.dflit = ing.dflit - 1, !.st = IF ing.dflit = 1 THEN "RECEIVE_CMD" ELSE ing.st]
      BY <1>0, <1>4, Fields DEF NetData
    <3> DEFINE st == IF ing.dflit = 1 THEN "RECEIVE_CMD" ELSE ing.st
               n == ing.dflit - 1
    <3>2. st \in {"INIT", "RECEIVE_CMD", "RECEIVE_DATA"} /\ n \in 0..2
      BY <3>1, Fields
    <3>3. ing' = [ing EXCEPT !.dflit = n, !.st = st]
      BY <3>1
    <3> HIDE DEF st, n
    <3>4. [ing EXCEPT !.dflit = n, !.st = st] \in IngStates
      BY <3>1, <3>2, IngReplace, Zenon
    <3>5. QED
      BY <3>3, <3>4
  <2>4. /\ d0lookup' \in [Tags -> DataFlits \cup {NoData}]
        /\ d1lookup' \in [Tags -> DataFlits \cup {NoData}]
    BY <1>0, <1>4, <2>1 DEF NetData
  <2>5. QED
    BY <1>0, <1>4, <2>2, <2>3, <2>4 DEF NetData
<1>5. CASE RtyCommand
  <2>1. Head(out) \in RetryFlits /\ Tail(out) \in Seq(RetryFlits) /\ Head(out) \in CommandFlits
    <3>1. Head(out) \in RetryFlits /\ Tail(out) \in Seq(RetryFlits)
      BY <1>0, <1>5, Heading DEF RtyCommand
    <3>2. ing.dflit = 0
      BY <1>0, <1>5 DEF RtyCommand, IInv, Machines
    <3>3. Head(out).cmd
      BY <1>5, <3>2, Heads DEF RtyCommand, InStep
    <3>4. QED
      BY <3>1, <3>3, FlitKinds
  <2>2. Head(out).of \in Commands /\ Head(out).tag \in Tags
    BY <2>1, FlitKinds
  <2>3. [of |-> Head(out).of, tag |-> Head(out).tag, data |-> <<>>, st |-> "new"] \in Hosted
    BY <2>2, EmptySeq DEF Hosted
  <2>4. host' \subseteq Hosted /\ IsFiniteSet(host')
    BY <1>0, <1>5, <2>3, FS_AddElement DEF RtyCommand, Issue
  <2>5. Tags \subseteq 0..NTags /\ (Head(out).of \in Writes => FlitsOf(Dl[Head(out).of]) = 2)
    BY Lengths DEF Tags
  <2>6. ing' \in IngStates
    <3> HIDE DEF TypeOK
    <3>1. /\ ing \in IngStates
          /\ ing' = [ing EXCEPT !.st = IF Head(out).of \in Writes THEN "RECEIVE_DATA" ELSE @,
                               !.tag = Head(out).tag,
                               !.dflitRty = IF Head(out).of \in Writes THEN FlitsOf(Dl[Head(out).of]) ELSE 0]
      BY <1>0, <1>5, Fields DEF RtyCommand
    <3> DEFINE st == IF Head(out).of \in Writes THEN "RECEIVE_DATA" ELSE ing.st
               n == IF Head(out).of \in Writes THEN FlitsOf(Dl[Head(out).of]) ELSE 0
    <3>2. st \in {"INIT", "RECEIVE_CMD", "RECEIVE_DATA"} /\ n \in 0..2 /\ Head(out).tag \in 0..NTags
      BY <2>2, <2>5, <3>1, Fields
    <3>3. ing' = [ing EXCEPT !.st = st, !.tag = Head(out).tag, !.dflitRty = n]
      BY <3>1
    <3> HIDE DEF st, n
    <3>4. [ing EXCEPT !.st = st, !.tag = Head(out).tag, !.dflitRty = n] \in IngStates
      BY <3>1, <3>2, IngReplace, Zenon
    <3>5. QED
      BY <3>3, <3>4
  <2>7. QED
    BY <1>0, <1>5, <2>1, <2>4, <2>6 DEF RtyCommand
<1>6. CASE RtyData
  <2>1. Head(out) \in DataFlits /\ Tail(out) \in Seq(RetryFlits)
    BY <1>0, <1>6, Heads, FlitTypes, Heading DEF RtyData
  <2>2. host' \subseteq Hosted /\ IsFiniteSet(host')
    BY <1>3, <1>6, <2>1 DEF RtyData
  <2>3. ing' \in IngStates
    <3> HIDE DEF TypeOK
    <3>1. /\ ing \in IngStates /\ ing.dflitRty > 0
          /\ ing' = [ing EXCEPT !.dflitRty = ing.dflitRty - 1, !.st = IF ing.dflitRty = 1 THEN "RECEIVE_CMD" ELSE ing.st]
      BY <1>0, <1>6, Fields DEF RtyData
    <3> DEFINE st == IF ing.dflitRty = 1 THEN "RECEIVE_CMD" ELSE ing.st
               n == ing.dflitRty - 1
    <3>2. st \in {"INIT", "RECEIVE_CMD", "RECEIVE_DATA"} /\ n \in 0..2
      BY <3>1, Fields
    <3>3. ing' = [ing EXCEPT !.dflitRty = n, !.st = st]
      BY <3>1
    <3> HIDE DEF st, n
    <3>4. [ing EXCEPT !.dflitRty = n, !.st = st] \in IngStates
      BY <3>1, <3>2, IngReplace, Zenon
    <3>5. QED
      BY <3>3, <3>4
  <2>4. QED
    BY <1>0, <1>6, <2>1, <2>2, <2>3 DEF RtyData
<1>7. ASSUME NEW t \in Tags, Host(t)
      PROVE  TypeOK'
  <2>1. PICK h \in host : \E r \in AnyResponse : \E data \in Seq(DataFlits) : Says(h, r, data)
    BY <1>7, HostSays
  <2>2. PICK r \in AnyResponse, data \in Seq(DataFlits) : Says(h, r, data)
    BY <2>1
  <2>3. host' \subseteq Hosted /\ IsFiniteSet(host')
    <3>1. [h EXCEPT !.st = "half"] \in Hosted /\ [h EXCEPT !.st = "translating"] \in Hosted
      BY <1>0 DEF Hosted
    <3>2. IsFiniteSet(host \ {h})
      BY <1>0, FS_Subset
    <3>3. \A x : IsFiniteSet((host \ {h}) \cup {x})
      BY <3>2, FS_AddElement
    <3>4. (host \ {h}) \cup {} = host \ {h}
      OBVIOUS
    <3>5. QED
      BY <1>0, <2>2, <3>1, <3>2, <3>3, <3>4 DEF Says
  <2>4. stored' \in [Commands -> Seq(Seq(DataFlits))]
    <3>1. CASE r.op = WR_OK
      <4>1. h.of \in Writes
        BY <2>2, <3>1 DEF Says, Fitting
      <4>2. <<Whole(h.of)>> \in Seq(Seq(DataFlits))
        BY <4>1, WholeWrite
      <4>3. QED
        BY <1>0, <2>2, <3>1, <4>2 DEF Says
    <3>2. CASE r.op # WR_OK
      BY <1>0, <2>2, <3>2 DEF Says
    <3>3. QED
      BY <3>1, <3>2
  <2>5. tlresp' \in Seq(AnyResponse)
    BY <1>0, <2>2, AppendProperties DEF Says
  <2>6. tldata' \in Seq(DataFlits)
    BY <1>0, <2>2, ConcatProperties DEF Says
  <2>7. QED
    BY <1>0, <2>2, <2>3, <2>4, <2>5, <2>6 DEF Says
<1>8. CASE CmdFifoLoad
  <2>1. Head(tlresp) \in AnyResponse /\ Tail(tlresp) \in Seq(AnyResponse)
    BY <1>0, <1>8, Heading DEF CmdFifoLoad
  <2>2. cmdlookup[Head(tlresp).tag] \in Commands
    <3> DEFINE i == Len(combo) + 1
    <3>1. i \in DOMAIN Coming /\ Coming[i] = Head(tlresp)
      <4>1. 1 \in DOMAIN tlresp /\ Head(tlresp) = tlresp[1]
        BY <1>0, <1>8, Heading DEF CmdFifoLoad
      <4>2. QED
        BY <1>0, <4>1, ComingIs, SMTT(30)
    <3>2. Fitting(Coming[i], Of(Coming[i]))
      BY <3>1 DEF IInv, InTurn
    <3>3. QED
      BY <3>1, <3>2 DEF Fitting, Of
  <2>3. Combo(Head(tlresp)) \in Joined
    BY <2>1, <2>2 DEF Combo, Joined
  <2>4. combo' \in Seq(Joined)
    BY <1>0, <1>8, <2>3, AppendProperties DEF CmdFifoLoad
  <2>5. QED
    BY <1>0, <1>8, <2>1, <2>4 DEF CmdFifoLoad
<1>9. CASE LoadTags
  <2>1. eng.next \in Tags /\ NTags \in Nat
    BY <1>0, <1>9, Lengths, Fields DEF LoadTags, IInv, Machines, Tags
  <2>2. capptag' \in Seq(Tags)
    BY <1>0, <1>9, <2>1, AppendProperties DEF LoadTags
  <2>3. eng' \in EngStates
    <3> HIDE DEF TypeOK
    <3>1. /\ eng \in EngStates
          /\ eng' = [eng EXCEPT !.next = @ + 1, !.st = IF eng.next = NTags THEN "GET_CMD" ELSE @]
      BY <1>0, <1>9, Fields DEF LoadTags
    <3> DEFINE st == IF eng.next = NTags THEN "GET_CMD" ELSE eng.st
               n == eng.next + 1
    <3>2. st \in {"INIT", "GET_CMD", "GET_DATA"} /\ n \in 1..NTags + 1
      BY <2>1, <3>1, Fields DEF Tags
    <3>3. eng' = [eng EXCEPT !.next = n, !.st = st]
      BY <3>1
    <3> HIDE DEF st, n
    <3>4. [eng EXCEPT !.next = n, !.st = st] \in EngStates
      BY <3>1, <3>2, EngReplace, Zenon
    <3>5. QED
      BY <3>3, <3>4
  <2>4. QED
    BY <1>0, <1>9, <2>2, <2>3 DEF LoadTags
<1>10. ASSUME NEW state, GetResponse(state)
       PROVE  /\ combo' \in Seq(Joined)
              /\ Seen(eng, Head(combo)) \in EngStates
              /\ Head(combo).of \in Commands /\ Head(combo).resp.tag \in Tags
  <2>1. Head(combo) \in Joined /\ combo' \in Seq(Joined)
    BY <1>0, <1>10, Heading DEF GetResponse
  <2>2. Head(combo).of \in Commands /\ Head(combo).resp.tag \in Tags
    BY <1>10, Taken DEF GetResponse
  <2>3. Seen(eng, Head(combo)) \in EngStates
    <3> HIDE DEF TypeOK
    <3>1. eng \in EngStates /\ Head(combo).resp.tag \in 0..NTags
      BY <1>0, <2>2, Fields, Lengths DEF Tags
    <3>2. QED
      BY <3>1 DEF EngStates, Seen
  <2>4. QED
    BY <2>1, <2>2, <2>3
<1>11. ASSUME NEW x \in EngStates, NEW f \in BOOLEAN, NEW n \in {1, 2, 4}, NEW st \in {"INIT", "GET_CMD", "GET_DATA"}
       PROVE  [x EXCEPT !.cdata = n, !.count = 1, !.fresh = f, !.st = st] \in EngStates
  <2>1. n \in 0..4 /\ 1 \in 0..3
    OBVIOUS
  <2>2. QED
    BY <2>1, EngReplace, Zenon
<1>12. CASE RetryResponse
  <2>1. Anno(Head(combo).resp) \in {0, RTY}
    <3>1. /\ Head(combo).resp \in AnyResponse /\ Fitting(Head(combo).resp, Head(combo).of)
          /\ RespState(Head(combo).resp) = "retry"
      BY <1>12, Taken DEF RetryResponse, GetResponse
    <3>2. QED
      BY <3>1, StateOf DEF Anno
  <2>2. Command(Head(combo).of, Head(combo).resp.tag, Anno(Head(combo).resp)) \in RetryFlits
    BY <1>10, <1>12, <2>1, FlitTypes DEF RetryResponse
  <2>3. rtyfifo' \in Seq(RetryFlits)
    BY <1>0, <1>12, <2>2, AppendProperties DEF RetryResponse
  <2>4. eng' \in EngStates
    <3> DEFINE x == Head(combo)
               y == Seen(eng, x)
    <3>1. FlitsOf(Dl[x.of]) \in {1, 2, 4} /\ y \in EngStates
      BY <1>10, <1>12, Lengths DEF RetryResponse
    <3>2. y.fresh \in BOOLEAN /\ y.st \in {"INIT", "GET_CMD", "GET_DATA"}
      BY <3>1, Fields
    <3>3. eng' = [y EXCEPT !.cdata = FlitsOf(Dl[x.of]), !.count = 1,
                         !.fresh = IF x.of \in Writes THEN FALSE ELSE y.fresh,
                         !.st = IF x.of \in Writes THEN "GET_DATA" ELSE y.st]
      BY <1>12 DEF RetryResponse
    <3> HIDE DEF x, y
    <3>4. QED
      BY <1>11, <3>1, <3>2, <3>3, ZenonT(60)
  <2>5. QED
    BY <1>0, <1>10, <1>12, <2>3, <2>4 DEF RetryResponse
<1>13. ASSUME NEW c \in Commands, NEW f \in NetFlits,
              ToNetwork(c, f)
       PROVE  /\ got' \in [Commands -> Seq(NetFlits)]
              /\ last' \in Commands
  <2>1. Append(got[c], f) \in Seq(NetFlits)
    BY <1>0, AppendProperties
  <2>2. QED
    BY <1>0, <1>13, <2>1 DEF ToNetwork
<1>14. CASE DataResponse
  <2>1. Head(combo).resp.op = RD_OK
    <3>1. /\ Head(combo).resp \in AnyResponse /\ Fitting(Head(combo).resp, Head(combo).of)
          /\ RespState(Head(combo).resp) = "data"
      BY <1>14, Taken DEF DataResponse, GetResponse
    <3>2. QED
      BY <3>1, StateOf
  <2>2. /\ got' \in [Commands -> Seq(NetFlits)]
        /\ last' \in Commands
    BY <1>10, <1>13, <1>14, <2>1 DEF DataResponse, NetFlits
  <2>3. eng' \in EngStates
    <3>1. Seen(eng, Head(combo)) \in EngStates /\ FlitsOf(Head(combo).resp.dl) \in {1, 2, 4}
      BY <1>10, <1>14, Lengths DEF DataResponse
    <3>2. eng' = [Seen(eng, Head(combo)) EXCEPT !.cdata = FlitsOf(Head(combo).resp.dl), !.count = 1,
                                              !.fresh = TRUE, !.st = "GET_DATA"]
      BY <1>14 DEF DataResponse
    <3>3. QED
      BY <1>11, <3>1, <3>2, Zenon
  <2>4. QED
    BY <1>0, <1>10, <1>14, <2>2, <2>3 DEF DataResponse, ToNetwork
<1>15. CASE NoDataResponse
  <2>1. Head(combo).resp.op \in {RD_OK, RD_FAIL, WR_OK, WR_FAIL}
    <3>1. /\ Head(combo).resp \in AnyResponse /\ Fitting(Head(combo).resp, Head(combo).of)
          /\ RespState(Head(combo).resp) = "nodata"
      BY <1>15, Taken DEF NoDataResponse, GetResponse
    <3>2. QED
      BY <3>1, StateOf DEF AnyResponse
  <2>2. /\ got' \in [Commands -> Seq(NetFlits)]
        /\ last' \in Commands
    BY <1>10, <1>13, <1>15, <2>1 DEF NoDataResponse, NetFlits
  <2>3. eng' \in EngStates
    BY <1>10, <1>15 DEF NoDataResponse
  <2>4. capptag' \in Seq(Tags)
    BY <1>0, <1>10, <1>15, AppendProperties DEF NoDataResponse
  <2>5. QED
    BY <1>0, <1>10, <1>15, <2>2, <2>3, <2>4 DEF NoDataResponse, ToNetwork
<1>16. CASE DropResponse
  <2>1. eng' \in EngStates
    BY <1>10, <1>16 DEF DropResponse
  <2>2. QED
    BY <1>0, <1>10, <1>16, <2>1 DEF DropResponse
<1>17. CASE PassData
  <2>1. last \in Commands /\ eng.tag \in Tags /\ eng.cdata \in 1..4
    <3>1. Passing
      BY <1>17 DEF PassData, Passing
    <3>2. last = cmdlookup[eng.tag] /\ last \in Reads /\ eng.tag \in Tags /\ eng.cdata \in 0..4
      BY <1>0, <3>1, Fields DEF IInv, Delivered, Passing, Machines
    <3>3. last \in Commands
      BY <3>2 DEF Reads
    <3>4. eng.cdata \in 1..4
      BY <3>1, <3>2, <3>3, Lengths DEF IInv, Delivered
    <3>5. QED
      BY <3>2, <3>3, <3>4
  <2>2. Head(tldata) \in DataFlits /\ Tail(tldata) \in Seq(DataFlits)
    BY <1>0, <1>17, Heading DEF PassData
  <2>3. /\ got' \in [Commands -> Seq(NetFlits)]
        /\ last' \in Commands
    BY <1>13, <1>17, <2>1, <2>2 DEF PassData, NetFlits
  <2>4. Append(capptag, eng.tag) \in Seq(Tags)
    BY <1>0, <2>1, AppendProperties
  <2>5. eng' \in EngStates
    <3> HIDE DEF TypeOK
    <3>1. eng \in EngStates /\ (eng' = [eng EXCEPT !.cdata = @ - 1] \/ eng' = [eng EXCEPT !.st = "GET_CMD"])
      BY <1>0, <1>17, Fields DEF PassData
    <3>2. eng.cdata - 1 \in 0..4
      BY <2>1
    <3>3. QED
      BY <3>1, <3>2, EngReplace, Zenon
  <2>6. capptag' \in Seq(Tags)
    BY <1>0, <1>17, <2>4 DEF PassData
  <2>7. QED
    BY <1>0, <1>17, <2>2, <2>3, <2>5, <2>6 DEF PassData, ToNetwork
<1>18. CASE ReplayData
  <2>1. eng.count \in 1..2 /\ eng.cdata = 2
    BY <1>18 DEF IInv, Machines, Replaying, ReplayData
  <2>2. LookedUp(eng.tag)[eng.count] \in RetryFlits
    BY <1>18, Heads, FlitTypes DEF Replaying, ReplayData
  <2>3. rtyfifo' \in Seq(RetryFlits)
    BY <1>0, <1>18, <2>2, AppendProperties DEF ReplayData
  <2>4. eng' \in EngStates
    <3> HIDE DEF TypeOK
    <3>1. /\ eng \in EngStates
          /\ eng' = [eng EXCEPT !.count = @ + 1, !.st = IF eng.count = eng.cdata THEN "GET_CMD" ELSE @]
      BY <1>0, <1>18, Fields DEF ReplayData
    <3> DEFINE st == IF eng.count = eng.cdata THEN "GET_CMD" ELSE eng.st
               n == eng.count + 1
    <3>2. st \in {"INIT", "GET_CMD", "GET_DATA"} /\ n \in 0..3
      BY <2>1, <3>1, Fields
    <3>3. eng' = [eng EXCEPT !.count = n, !.st = st]
      BY <3>1
    <3> HIDE DEF st, n
    <3>4. [eng EXCEPT !.count = n, !.st = st] \in EngStates
      BY <3>1, <3>2, EngReplace, Zenon
    <3>5. QED
      BY <3>3, <3>4
  <2>5. QED
    BY <1>0, <1>18, <2>3, <2>4 DEF ReplayData
<1>19. ASSUME rtyfifo # <<>>
       PROVE  Head(rtyfifo) \in RetryFlits /\ Tail(rtyfifo) \in Seq(RetryFlits) /\ Head(rtyfifo).of \in Commands
  BY <1>0, <1>19, Heading, FlitTypes
<1>20. ASSUME jail # <<>>
       PROVE  Head(jail) \in RetryFlits /\ Tail(jail) \in Seq(RetryFlits) /\ Head(jail).of \in Commands
  BY <1>0, <1>20, Heading, FlitTypes
<1>21. \A f \in RetryFlits : Append(jail, f) \in Seq(RetryFlits) /\ Append(out, f) \in Seq(RetryFlits)
  BY <1>0, AppendProperties
<1>22. \A dl : FlitsOf(dl) \in 0..4
  BY Lengths
<1>220. rty \in RtyStates
  BY <1>0
<1> HIDE DEF TypeOK
<1>23. CASE ToJail
  <2>1. rty' \in RtyStates
    BY <1>22, <1>220, <1>23, Fields DEF ToJail, RtyStates
  <2>2. QED
    BY <1>0, <1>19, <1>21, <1>23, <2>1 DEF ToJail, TypeOK
<1>24. CASE Reissue
  <2>1. rty' \in RtyStates
    BY <1>22, <1>220, <1>24, Fields DEF Reissue, RtyStates
  <2>2. QED
    BY <1>0, <1>19, <1>21, <1>24, <2>1 DEF Reissue, TypeOK
<1>25. CASE ReleaseJail
  <2>1. rty' \in RtyStates
    BY <1>22, <1>220, <1>25 DEF ReleaseJail, RtyStates
  <2>2. QED
    BY <1>0, <1>20, <1>21, <1>25, <2>1 DEF ReleaseJail, TypeOK
<1>26. rty.st # "START" => rty.rdata \in 1..2
  <2>1. PICK e \in WriteData \cup {NoData} : Chains(e)
    BY DEF IInv, Replays
  <2>2. rty.st # "START" => e.n \in 1..2 /\ rty.rdata = 3 - e.n
    BY <1>0, <2>1, ChainsAre, FlitKinds
  <2>3. QED
    BY <2>2
<1>260. rty.st # "START" => OneLess \in RtyStates
  <2>1. \A x \in RtyStates : \A n \in 0..4 : \A st \in {"START", "DATA", "JAIL_DATA"} :
           [x EXCEPT !.rdata = n, !.st = st] \in RtyStates
    BY DEF RtyStates
  <2> DEFINE st == IF rty.rdata = 1 THEN "START" ELSE rty.st
             n == rty.rdata - 1
  <2>2. OneLess = [rty EXCEPT !.rdata = n, !.st = st]
    BY DEF OneLess
  <2>3. rty.st # "START" => n \in 0..4 /\ st \in {"START", "DATA", "JAIL_DATA"}
    BY <1>220, <1>26, Fields
  <2> HIDE DEF n, st
  <2>4. QED
    BY <1>220, <2>1, <2>2, <2>3, Zenon
<1>27. CASE MoveData
  <2>1. rty' \in RtyStates
    BY <1>260, <1>27 DEF MoveData
  <2>2. QED
    BY <1>0, <1>19, <1>21, <1>27, <2>1 DEF MoveData, TypeOK
<1>28. CASE ReleaseData
  <2>1. rty' \in RtyStates
    BY <1>260, <1>28 DEF ReleaseData
  <2>2. QED
    BY <1>0, <1>20, <1>21, <1>28, <2>1 DEF ReleaseData, TypeOK
<1>29. CASE UNCHANGED vars
  BY <1>0, <1>29 DEF vars, TypeOK
<1>30. QED
  BY <1>1, <1>2, <1>4, <1>5, <1>6, <1>7, <1>8, <1>9, <1>12, <1>14, <1>15, <1>16, <1>17, <1>18,
     <1>23, <1>24, <1>25, <1>27, <1>28, <1>29 DEF Next, Ingress, RespEng, RtyEng

-----------------------------------------------------------------------------
(* What the steps make of the state machines                               *)

\* The fields of the ingress after each of its actions.
LEMMA IngAfter ==
    ASSUME TypeOK
    PROVE  /\ EnableIngress => /\ ing'.st = "RECEIVE_CMD" /\ ing'.tag = ing.tag
                               /\ ing'.dflit = ing.dflit /\ ing'.dflitRty = ing.dflitRty
           /\ \A c \in Commands : NetCommand(c) =>
                 /\ ing'.st = (IF c \in Writes THEN "RECEIVE_DATA" ELSE "RECEIVE_CMD")
                 /\ ing'.tag = Head(capptag)
                 /\ ing'.dflit = (IF c \in Writes THEN 2 ELSE 0) /\ ing'.dflitRty = ing.dflitRty
           /\ NetData => /\ ing'.st = (IF ing.dflit = 1 THEN "RECEIVE_CMD" ELSE "RECEIVE_DATA")
                         /\ ing'.tag = ing.tag
                         /\ ing'.dflit = ing.dflit - 1 /\ ing'.dflitRty = ing.dflitRty
           /\ RtyCommand => /\ ing'.st = (IF Head(out).of \in Writes THEN "RECEIVE_DATA" ELSE "RECEIVE_CMD")
                            /\ ing'.tag = Head(out).tag
                            /\ ing'.dflitRty = (IF Head(out).of \in Writes THEN 2 ELSE 0)
                            /\ ing'.dflit = ing.dflit
           /\ RtyData => /\ ing'.st = (IF ing.dflitRty = 1 THEN "RECEIVE_CMD" ELSE "RECEIVE_DATA")
                         /\ ing'.tag = ing.tag
                         /\ ing'.dflit = ing.dflit /\ ing'.dflitRty = ing.dflitRty - 1
<1>1. ing \in IngStates
  BY Fields
<1>2. EnableIngress => /\ ing'.st = "RECEIVE_CMD" /\ ing'.tag = ing.tag
                       /\ ing'.dflit = ing.dflit /\ ing'.dflitRty = ing.dflitRty
  BY <1>1 DEF EnableIngress, IngStates
<1>3. ASSUME NEW c \in Commands, NetCommand(c)
      PROVE  /\ ing'.st = (IF c \in Writes THEN "RECEIVE_DATA" ELSE "RECEIVE_CMD")
             /\ ing'.tag = Head(capptag)
             /\ ing'.dflit = (IF c \in Writes THEN 2 ELSE 0) /\ ing'.dflitRty = ing.dflitRty
  BY <1>1, <1>3, Lengths DEF NetCommand, IngStates
<1>4. NetData => /\ ing'.st = (IF ing.dflit = 1 THEN "RECEIVE_CMD" ELSE "RECEIVE_DATA")
                 /\ ing'.tag = ing.tag
                 /\ ing'.dflit = ing.dflit - 1 /\ ing'.dflitRty = ing.dflitRty
  BY <1>1 DEF NetData, IngStates
<1>5. ASSUME RtyCommand
      PROVE  /\ ing'.st = (IF Head(out).of \in Writes THEN "RECEIVE_DATA" ELSE "RECEIVE_CMD")
             /\ ing'.tag = Head(out).tag
             /\ ing'.dflitRty = (IF Head(out).of \in Writes THEN 2 ELSE 0)
             /\ ing'.dflit = ing.dflit
  BY <1>1, <1>5, Lengths DEF RtyCommand, IngStates
<1>6. RtyData => /\ ing'.st = (IF ing.dflitRty = 1 THEN "RECEIVE_CMD" ELSE "RECEIVE_DATA")
                 /\ ing'.tag = ing.tag
                 /\ ing'.dflit = ing.dflit /\ ing'.dflitRty = ing.dflitRty - 1
  BY <1>1 DEF RtyData, IngStates
<1>7. QED
  BY <1>2, <1>3, <1>4, <1>5, <1>6

\* The fields of the response engine after each of its actions.
LEMMA EngAfter ==
    ASSUME TypeOK
    PROVE  /\ LoadTags => /\ eng'.st = (IF eng.next = NTags THEN "GET_CMD" ELSE "INIT")
                          /\ eng'.next = eng.next + 1
           /\ RetryResponse =>
                 /\ eng'.st = (IF Head(combo).of \in Writes THEN "GET_DATA" ELSE "GET_CMD")
                 /\ eng'.fresh = (IF Head(combo).of \in Writes THEN FALSE ELSE eng.fresh)
                 /\ eng'.tag = Head(combo).resp.tag /\ eng'.next = eng.next
                 /\ eng'.cdata = FlitsOf(Dl[Head(combo).of]) /\ eng'.count = 1
           /\ DataResponse =>
                 /\ eng'.st = "GET_DATA" /\ eng'.fresh = TRUE
                 /\ eng'.tag = Head(combo).resp.tag /\ eng'.next = eng.next
                 /\ eng'.keep = (Head(combo).resp.dl # Dl[Head(combo).of] /\ Head(combo).resp.dp = 0)
                 /\ eng'.cdata = FlitsOf(Head(combo).resp.dl)
           /\ NoDataResponse \/ DropResponse => eng'.st = "GET_CMD" /\ eng'.next = eng.next
           /\ PassData =>
                 /\ eng'.st = (IF eng.cdata = 1 THEN "GET_CMD" ELSE "GET_DATA") /\ eng'.next = eng.next
                 /\ eng'.fresh = TRUE /\ eng'.tag = eng.tag /\ eng'.keep = eng.keep
                 /\ eng.cdata # 1 => eng'.cdata = eng.cdata - 1
           /\ ReplayData =>
                 /\ eng'.st = (IF eng.count = eng.cdata THEN "GET_CMD" ELSE "GET_DATA")
                 /\ eng'.next = eng.next /\ eng'.fresh = FALSE /\ eng'.tag = eng.tag
                 /\ eng'.cdata = eng.cdata /\ eng'.count = eng.count + 1
<1>1. eng \in EngStates
  BY Fields
<1>2. LoadTags => /\ eng'.st = (IF eng.next = NTags THEN "GET_CMD" ELSE "INIT")
                  /\ eng'.next = eng.next + 1
  BY <1>1 DEF LoadTags, EngStates
<1>3. ASSUME NEW y, y = Seen(eng, Head(combo)), eng.st = "GET_CMD"
      PROVE  /\ y.st = "GET_CMD" /\ y.next = eng.next /\ y.tag = Head(combo).resp.tag
             /\ y.keep = (Head(combo).resp.dl # Dl[Head(combo).of] /\ Head(combo).resp.dp = 0)
             /\ y.fresh = eng.fresh
             /\ \A f, st, n : LET z == [y EXCEPT !.cdata = n, !.count = 1, !.fresh = f, !.st = st]
                              IN /\ z.st = st /\ z.fresh = f /\ z.tag = y.tag /\ z.next = y.next
                                 /\ z.keep = y.keep /\ z.cdata = n /\ z.count = 1
  BY <1>1, <1>3 DEF Seen, EngStates
<1>4. ASSUME RetryResponse
      PROVE  /\ eng'.st = (IF Head(combo).of \in Writes THEN "GET_DATA" ELSE "GET_CMD")
             /\ eng'.fresh = (IF Head(combo).of \in Writes THEN FALSE ELSE eng.fresh)
             /\ eng'.tag = Head(combo).resp.tag /\ eng'.next = eng.next
             /\ eng'.cdata = FlitsOf(Dl[Head(combo).of]) /\ eng'.count = 1
  <2> DEFINE y == Seen(eng, Head(combo))
             f == IF Head(combo).of \in Writes THEN FALSE ELSE y.fresh
             s == IF Head(combo).of \in Writes THEN "GET_DATA" ELSE y.st
             n == FlitsOf(Dl[Head(combo).of])
  <2>1. eng' = [y EXCEPT !.cdata = n, !.count = 1, !.fresh = f, !.st = s] /\ eng.st = "GET_CMD"
    BY <1>4 DEF RetryResponse, GetResponse
  <2> HIDE DEF y
  <2>2. y.st = "GET_CMD" /\ y.fresh = eng.fresh /\ y.tag = Head(combo).resp.tag /\ y.next = eng.next
    BY <1>3, <2>1 DEF y
  <2> HIDE DEF f, s, n
  <2>3. /\ eng'.st = s /\ eng'.fresh = f /\ eng'.tag = y.tag /\ eng'.next = y.next
        /\ eng'.cdata = n /\ eng'.count = 1
    BY <1>3, <2>1 DEF y
  <2>4. QED
    BY <2>2, <2>3 DEF f, s, n
<1>5. ASSUME DataResponse
      PROVE  /\ eng'.st = "GET_DATA" /\ eng'.fresh = TRUE
             /\ eng'.tag = Head(combo).resp.tag /\ eng'.next = eng.next
             /\ eng'.keep = (Head(combo).resp.dl # Dl[Head(combo).of] /\ Head(combo).resp.dp = 0)
             /\ eng'.cdata = FlitsOf(Head(combo).resp.dl)
  <2> DEFINE y == Seen(eng, Head(combo))
             n == FlitsOf(Head(combo).resp.dl)
  <2>1. eng' = [y EXCEPT !.cdata = n, !.count = 1, !.fresh = TRUE, !.st = "GET_DATA"] /\ eng.st = "GET_CMD"
    BY <1>5 DEF DataResponse, GetResponse
  <2> HIDE DEF y, n
  <2>2. /\ y.tag = Head(combo).resp.tag /\ y.next = eng.next
        /\ y.keep = (Head(combo).resp.dl # Dl[Head(combo).of] /\ Head(combo).resp.dp = 0)
    BY <1>3, <2>1 DEF y
  <2>3. /\ eng'.st = "GET_DATA" /\ eng'.fresh = TRUE /\ eng'.tag = y.tag /\ eng'.next = y.next
        /\ eng'.keep = y.keep /\ eng'.cdata = n
    BY <1>3, <2>1 DEF y
  <2>4. QED
    BY <2>2, <2>3 DEF n
<1>6. ASSUME NoDataResponse \/ DropResponse
      PROVE  eng'.st = "GET_CMD" /\ eng'.next = eng.next
  <2>1. eng' = Seen(eng, Head(combo)) /\ eng.st = "GET_CMD"
    BY <1>6 DEF NoDataResponse, DropResponse, GetResponse
  <2>2. QED
    BY <1>3, <2>1
<1>7. PassData =>
         /\ eng'.st = (IF eng.cdata = 1 THEN "GET_CMD" ELSE "GET_DATA") /\ eng'.next = eng.next
         /\ eng'.fresh = TRUE /\ eng'.tag = eng.tag /\ eng'.keep = eng.keep
         /\ eng.cdata # 1 => eng'.cdata = eng.cdata - 1
  BY <1>1 DEF PassData, EngStates
<1>8. ReplayData =>
         /\ eng'.st = (IF eng.count = eng.cdata THEN "GET_CMD" ELSE "GET_DATA")
         /\ eng'.next = eng.next /\ eng'.fresh = FALSE /\ eng'.tag = eng.tag
         /\ eng'.cdata = eng.cdata /\ eng'.count = eng.count + 1
  BY <1>1 DEF ReplayData, EngStates
<1>9. QED
  BY <1>2, <1>4, <1>5, <1>6, <1>7, <1>8

\* A free tag stands for no command that is under way, and a command that comes from
\* the network has no tag yet.
LEMMA FreshTag ==
    ASSUME IInv, NEW c \in Commands, NetCommand(c), NEW t, t = Head(capptag)
    PROVE  /\ t \in Tags /\ IsFree(t) /\ ~HostHas(t) /\ ~Retried(t)
           /\ \A i \in DOMAIN Coming : Coming[i].tag # t
           /\ ~(eng.st = "GET_DATA" /\ eng.tag = t)
           /\ ing.dflit = 0 /\ ing.dflitRty = 0 /\ out = <<>>
           /\ \A u \in Tags : cmdlookup[u] # c
           /\ cmdlookup' = [cmdlookup EXCEPT ![t] = c]
<1>0. TypeOK /\ Machines /\ TagsConserved /\ OneTag /\ OwnCommand /\ InTurn /\ Replays
  BY DEF IInv
<1>1. t \in Tags /\ IsFree(t)
  <2>1. Head(capptag) \in Tags /\ Head(capptag) = capptag[1] /\ 1 \in DOMAIN capptag
    BY <1>0, Heading DEF TypeOK, NetCommand
  <2>2. QED
    BY <2>1 DEF IsFree
<1>2. ~HostHas(t) /\ ~Retried(t)
  BY <1>0, <1>1, OnePlace
<1>3. (\A i \in DOMAIN Coming : Coming[i].tag # t) /\ ~(Passing /\ eng.tag = t)
  BY <1>0, <1>1, Quiet
<1>4. ing.dflit = 0 /\ ing.dflitRty = 0 /\ out = <<>>
  BY <1>0 DEF NetCommand, Machines
<1>5. ~(Replaying /\ eng.tag = t)
  BY <1>0, <1>2, <1>4, Replayed
<1>6. ~(eng.st = "GET_DATA" /\ eng.tag = t)
  BY <1>3, <1>5 DEF Passing, Replaying
<1>7. \A u \in Tags : cmdlookup[u] # c
  BY <1>0, EgressAssumption DEF OneTag, NetCommand
<1>8. cmdlookup' = [cmdlookup EXCEPT ![t] = c]
  BY DEF NetCommand
<1>9. QED
  BY <1>1, <1>2, <1>3, <1>4, <1>6, <1>7, <1>8

\* Each action leaves the counters of the state machines as its next state needs
\* them.
LEMMA MachinesStep ==
    ASSUME IInv, [Next]_vars
    PROVE  Machines'
<1>0. TypeOK /\ Machines
  BY DEF IInv
<1>1. /\ ing.st \in {"INIT", "RECEIVE_CMD", "RECEIVE_DATA"} /\ ing.dflit \in 0..2 /\ ing.dflitRty \in 0..2
      /\ eng.st \in {"INIT", "GET_CMD", "GET_DATA"} /\ eng.next \in 1..NTags + 1 /\ NTags \in Nat
      /\ cmdlookup \in [Tags -> Commands \cup {NoCommand}]
  BY <1>0, Fields, Lengths DEF TypeOK
<1> USE DEF lookups, hostVars, respVars, retryVars, netVars, Machines, Replaying
<1>2. ASSUME NEW c \in Commands, NetCommand(c)
      PROVE  Machines'
  <2>1. /\ Head(capptag) \in Tags /\ ~(eng.st = "GET_DATA" /\ eng.tag = Head(capptag))
        /\ ing.dflit = 0 /\ ing.dflitRty = 0
        /\ cmdlookup' = [cmdlookup EXCEPT ![Head(capptag)] = c] /\ eng' = eng
    BY <1>2, FreshTag, Zenon DEF NetCommand
  <2>2. /\ ing'.st = (IF c \in Writes THEN "RECEIVE_DATA" ELSE "RECEIVE_CMD")
        /\ ing'.tag = Head(capptag)
        /\ ing'.dflit = (IF c \in Writes THEN 2 ELSE 0) /\ ing'.dflitRty = ing.dflitRty
    BY <1>0, <1>2, IngAfter
  <2>3. QED
    BY <1>0, <1>1, <2>1, <2>2
<1>3. CASE EnableIngress
  <2>1. cmdlookup' = cmdlookup /\ eng' = eng /\ ing.st = "INIT"
    BY <1>3 DEF EnableIngress
  <2>2. QED
    BY <1>0, <1>1, <1>3, <2>1, IngAfter
<1>4. CASE NetData
  <2>1. cmdlookup' = cmdlookup /\ eng' = eng /\ ing.st = "RECEIVE_DATA" /\ ing.dflit > 0
    BY <1>4 DEF NetData
  <2>2. QED
    BY <1>0, <1>1, <1>4, <2>1, IngAfter
<1>5. CASE RtyCommand
  <2>1. /\ cmdlookup' = cmdlookup /\ eng' = eng /\ ing.dflit = 0 /\ ing.dflitRty = 0
        /\ ing.st = "RECEIVE_CMD" /\ out # <<>>
    BY <1>0, <1>5 DEF RtyCommand
  <2>2. Head(out).cmd /\ Head(out) \in RetryFlits /\ Head(out).of = cmdlookup[Head(out).tag]
    BY <2>1, Heads DEF InStep
  <2>3. Head(out).tag \in Tags
    BY <2>2, FlitKinds
  <2>4. QED
    BY <1>0, <1>1, <1>5, <2>1, <2>2, <2>3, IngAfter
<1>6. CASE RtyData
  <2>1. cmdlookup' = cmdlookup /\ eng' = eng /\ ing.st = "RECEIVE_DATA" /\ ing.dflitRty > 0
    BY <1>6 DEF RtyData
  <2>2. QED
    BY <1>0, <1>1, <1>6, <2>1, IngAfter
<1>7. CASE LoadTags
  <2>1. cmdlookup' = cmdlookup /\ ing' = ing /\ eng.st = "INIT"
    BY <1>7 DEF LoadTags
  <2>2. QED
    BY <1>0, <1>1, <1>7, <2>1, EngAfter
<1>8. ASSUME NEW state, GetResponse(state)
      PROVE  /\ Head(combo).of = cmdlookup[Head(combo).resp.tag] /\ Head(combo).resp.tag \in Tags
             /\ eng.st = "GET_CMD" /\ eng.next > NTags
  BY <1>0, <1>1, <1>8, Taken DEF GetResponse
<1>9. CASE RetryResponse
  <2>1. cmdlookup' = cmdlookup /\ ing' = ing
    BY <1>9 DEF RetryResponse
  <2>2. QED
    BY <1>0, <1>1, <1>8, <1>9, <2>1, EngAfter, Lengths DEF RetryResponse
<1>10. CASE DataResponse
  <2>1. cmdlookup' = cmdlookup /\ ing' = ing
    BY <1>10 DEF DataResponse
  <2>2. QED
    BY <1>0, <1>1, <1>8, <1>10, <2>1, EngAfter DEF DataResponse
<1>11. CASE NoDataResponse \/ DropResponse
  <2>1. cmdlookup' = cmdlookup /\ ing' = ing
    BY <1>11 DEF NoDataResponse, DropResponse
  <2>2. QED
    BY <1>0, <1>1, <1>8, <1>11, <2>1, EngAfter DEF NoDataResponse, DropResponse
<1>12. CASE PassData
  <2>1. cmdlookup' = cmdlookup /\ ing' = ing /\ eng.st = "GET_DATA"
    BY <1>12 DEF PassData
  <2>2. QED
    BY <1>0, <1>1, <1>12, <2>1, EngAfter
<1>13. CASE ReplayData
  <2>1. cmdlookup' = cmdlookup /\ ing' = ing /\ Replaying
    BY <1>13 DEF ReplayData
  <2>2. QED
    BY <1>0, <1>1, <1>13, <2>1, EngAfter
<1>14. ASSUME UNCHANGED <<cmdlookup, ing, eng>>
       PROVE  Machines'
  BY <1>0, <1>14
<1>15. ASSUME NEW t \in Tags, Host(t)
       PROVE  UNCHANGED <<cmdlookup, ing, eng>>
  BY <1>15 DEF Host, HostReads, HostReadsHalf, HostWrites, HostFails, HostTranslated, Answers
<1>16. CmdFifoLoad \/ RtyEng => UNCHANGED <<cmdlookup, ing, eng>>
  BY DEF CmdFifoLoad, RtyEng, ToJail, Reissue, ReleaseJail, MoveData, ReleaseData
<1>17. UNCHANGED vars => UNCHANGED <<cmdlookup, ing, eng>>
  BY DEF vars
<1>18. QED
  BY <1>2, <1>3, <1>4, <1>5, <1>6, <1>7, <1>9, <1>10, <1>11, <1>12, <1>13, <1>14, <1>15, <1>16, <1>17
     DEF Next, Ingress, RespEng

-----------------------------------------------------------------------------
(* Each step keeps a tag in one place                                      *)

\* Issue gives the host one more command with its tag, if it had none.
LEMMA HostIssue ==
    ASSUME TypeOK, NEW c, NEW t, ~HostHas(t), Issue(c, t), NEW u
    PROVE  Cardinality(HostsWith(u)') = Cardinality(HostsWith(u)) + (IF u = t THEN 1 ELSE 0)
<1> DEFINE h == [of |-> c, tag |-> t, data |-> <<>>, st |-> "new"]
<1>1. host' = host \cup {h} /\ h.tag = t
  BY DEF Issue
<1> HIDE DEF h
<1>2. CASE u = t
  <2>1. HostsWith(u) = {} /\ HostsWith(u)' = {h}
    BY <1>1, <1>2 DEF HostsWith, HostHas
  <2>2. QED
    BY <1>2, <2>1, FS_EmptySet, FS_Singleton, SMTT(30)
<1>3. CASE u # t
  <2>1. HostsWith(u)' = HostsWith(u)
    BY <1>1, <1>3 DEF HostsWith
  <2>2. QED
    BY <1>3, <2>1, HostsAre
<1>4. QED
  BY <1>2, <1>3

\* Data for the command issued last leave the host with as many commands.
LEMMA HostIssueData ==
    ASSUME TypeOK, TagsConserved, OwnCommand, InTurn, NEW d, IssueData(d), NEW u \in Tags
    PROVE  Cardinality(HostsWith(u)') = Cardinality(HostsWith(u))
<1> DEFINE g(h) == [h EXCEPT !.data = Append(@, d)]
<1>1. \A h \in host : g(h).tag = h.tag
  BY DEF TypeOK, Hosted
<1>2. host' = {IF h.tag = ing.tag THEN g(h) ELSE h : h \in host}
  BY DEF IssueData
<1> HIDE DEF g
<1>3. CASE u # ing.tag
  <2>1. HostsWith(u)' = HostsWith(u)
    BY <1>1, <1>2, <1>3 DEF HostsWith
  <2>2. QED
    BY <2>1
<1>4. CASE u = ing.tag
  <2>1. HostsWith(u)' = {g(h) : h \in HostsWith(u)}
    BY <1>1, <1>2, <1>4 DEF HostsWith
  <2>2. CASE HostsWith(u) = {}
    BY <2>1, <2>2
  <2>3. CASE HostsWith(u) # {}
    <3>1. PICK h \in HostsWith(u) : TRUE
      BY <2>3
    <3>2. \A x \in HostsWith(u) : x = h
      BY <3>1, OnePlace DEF HostsWith
    <3>3. HostsWith(u) = {h} /\ HostsWith(u)' = {g(h)}
      BY <2>1, <3>1, <3>2
    <3>4. QED
      BY <3>3, FS_Singleton
  <2>4. QED
    BY <2>2, <2>3
<1>5. QED
  BY <1>3, <1>4

\* A response takes the command from the host, unless it is the first half of a read
\* or a pending translation.
LEMMA HostSaid ==
    ASSUME TypeOK, TagsConserved, OwnCommand, InTurn,
           NEW h \in host, NEW r, NEW data, Says(h, r, data), NEW u \in Tags
    PROVE  Cardinality(HostsWith(u))
           = Cardinality(HostsWith(u)') + (IF u = h.tag /\ ~First(r) /\ ~Pending(r) THEN 1 ELSE 0)
<1> DEFINE g == [h EXCEPT !.st = "half"]
           k == [h EXCEPT !.st = "translating"]
<1>1. g.tag = h.tag /\ k.tag = h.tag
  BY DEF TypeOK, Hosted
<1>2. host' = (host \ {h}) \cup (IF First(r) THEN {g} ELSE IF Pending(r) THEN {k} ELSE {})
  BY DEF Says
<1> HIDE DEF g, k
<1>3. CASE u # h.tag
  <2>1. HostsWith(u)' = HostsWith(u)
    BY <1>1, <1>2, <1>3 DEF HostsWith
  <2>2. QED
    BY <1>3, <2>1, HostsAre
<1>4. CASE u = h.tag
  <2>1. \A x \in HostsWith(u) : x = h
    BY <1>4, OnePlace DEF HostsWith
  <2>2. /\ HostsWith(u) = {h}
        /\ HostsWith(u)' = IF First(r) THEN {g} ELSE IF Pending(r) THEN {k} ELSE {}
    BY <1>1, <1>2, <1>4, <2>1 DEF HostsWith
  <2>3. Cardinality({}) = 0 /\ \A x : Cardinality({x}) = 1
    BY FS_EmptySet, FS_Singleton
  <2>4. CASE First(r)
    <3>1. HostsWith(u)' = {g}
      BY <2>2, <2>4
    <3>2. Cardinality(HostsWith(u)') = 1 /\ Cardinality(HostsWith(u)) = 1
      BY <2>2, <2>3, <3>1
    <3>3. QED
      BY <2>4, <3>2
  <2>5. CASE ~First(r) /\ Pending(r)
    <3>1. HostsWith(u)' = {k}
      BY <2>2, <2>5
    <3>2. Cardinality(HostsWith(u)') = 1 /\ Cardinality(HostsWith(u)) = 1
      BY <2>2, <2>3, <3>1
    <3>3. QED
      BY <2>5, <3>2
  <2>6. CASE ~First(r) /\ ~Pending(r)
    <3>1. HostsWith(u)' = {}
      BY <2>2, <2>6
    <3>2. Cardinality(HostsWith(u)') = 0 /\ Cardinality(HostsWith(u)) = 1
      BY <2>2, <2>3, <3>1
    <3>3. QED
      BY <1>4, <2>6, <3>2
  <2>7. QED
    BY <2>4, <2>5, <2>6
<1>5. QED
  BY <1>3, <1>4

\* The host has finitely many commands with a tag after a step, too.
LEMMA HostsNext ==
    TypeOK' => \A t : Cardinality(HostsWith(t)') \in Nat
<1>1. TypeOK => \A t : Cardinality(HostsWith(t)) \in Nat
  BY HostsAre
<1>2. (TypeOK => \A t : Cardinality(HostsWith(t)) \in Nat)'
  BY <1>1, PTL
<1>3. QED
  BY <1>2

\* Each action takes the tag that it moves from one place and puts it into one
\* other: NetCommand pops it from capptag, the host answers, the engine takes the
\* response, and so on, until NoDataResponse or the last PassData gives it back.
LEMMA TagsStep ==
    ASSUME IInv, [Next]_vars, TypeOK'
    PROVE  TagsConserved'
<1> SUFFICES ASSUME NEW u \in Tags
             PROVE  Places(u)' = 1
  BY DEF TagsConserved
<1> DEFINE H == Cardinality(HostsWith(u))
           F == Tally(capptag, {u})
           T == Tally(tlresp, SettledBy(cmdlookup[u], u))
           J == Tally(combo, JoinedBy(u))
           R == Tally(rtyfifo, CommandsWith(u))
           L == Tally(jail, CommandsWith(u))
           O == Tally(out, CommandsWith(u))
<1>0. TypeOK /\ Machines /\ TagsConserved /\ OwnCommand /\ InTurn
  BY DEF IInv
<1>1. /\ capptag \in Seq(Tags) /\ tlresp \in Seq(AnyResponse) /\ combo \in Seq(Joined)
      /\ rtyfifo \in Seq(RetryFlits) /\ jail \in Seq(RetryFlits) /\ out \in Seq(RetryFlits)
      /\ cmdlookup \in [Tags -> Commands \cup {NoCommand}]
  BY <1>0 DEF TypeOK
<1>2. /\ H \in Nat /\ F \in Nat /\ T \in Nat /\ J \in Nat /\ R \in Nat /\ L \in Nat /\ O \in Nat
      /\ InEngine(u) \in 0..1 /\ NotLoaded(u) \in 0..1
      /\ H + F + T + J + R + L + O + InEngine(u) + NotLoaded(u) = 1
  <2>1. /\ H \in Nat /\ F \in Nat /\ T \in Nat /\ J \in Nat /\ R \in Nat /\ L \in Nat /\ O \in Nat
    BY <1>0, HostsAre, Tallies
  <2>2. InEngine(u) \in 0..1 /\ NotLoaded(u) \in 0..1
    BY DEF InEngine, NotLoaded
  <2>3. Places(u) = H + F + T + J + R + L + O + InEngine(u) + NotLoaded(u)
    BY <1>0, PlacesAre
  <2>4. Places(u) = 1
    BY <1>0 DEF TagsConserved
  <2>5. QED
    BY <2>1, <2>2, <2>3, <2>4
<1>3. Places(u)' = Cardinality(HostsWith(u)') + Tally(capptag', {u})
                   + Tally(tlresp', SettledBy(cmdlookup'[u], u)) + Tally(combo', JoinedBy(u))
                   + Tally(rtyfifo', CommandsWith(u)) + Tally(jail', CommandsWith(u))
                   + Tally(out', CommandsWith(u)) + InEngine(u)' + NotLoaded(u)'
  BY PlacesNext
<1>4. \A s \in Seq(RetryFlits) : \A f \in RetryFlits :
         Tally(Append(s, f), CommandsWith(u)) = Tally(s, CommandsWith(u)) + (IF f \in CommandsWith(u) THEN 1 ELSE 0)
  BY TallyAppend
<1>5. \A s \in Seq(RetryFlits) : s # <<>> =>
         Tally(s, CommandsWith(u)) = Tally(Tail(s), CommandsWith(u)) + (IF Head(s) \in CommandsWith(u) THEN 1 ELSE 0)
  BY TallyTail
<1>6. \A t \in Tags : Tally(Append(capptag, t), {u}) = F + (IF t = u THEN 1 ELSE 0)
  BY <1>1, TallyAppend
<1>7. \A s \in Seq(RetryFlits) : s # <<>> => Head(s) \in RetryFlits /\ Tail(s) \in Seq(RetryFlits)
  BY Heading
<1>70. \A s \in Seq(RetryFlits) : Tally(s, CommandsWith(u)) \in Nat
  BY TallyType
<1>8. HostsWith(u)' = {h \in host' : h.tag = u}
  BY DEF HostsWith
<1> HIDE DEF H, F, T, J, R, L, O
<1>9. UNCHANGED host => Cardinality(HostsWith(u)') = H
  BY <1>8 DEF H, HostsWith
<1>10. UNCHANGED capptag => Tally(capptag', {u}) = F
  BY DEF F
<1>11. UNCHANGED <<tlresp, cmdlookup>> => Tally(tlresp', SettledBy(cmdlookup'[u], u)) = T
  BY DEF T
<1>12. UNCHANGED combo => Tally(combo', JoinedBy(u)) = J
  BY DEF J
<1>13. /\ UNCHANGED rtyfifo => Tally(rtyfifo', CommandsWith(u)) = R
       /\ UNCHANGED jail => Tally(jail', CommandsWith(u)) = L
       /\ UNCHANGED out => Tally(out', CommandsWith(u)) = O
  BY DEF R, L, O
<1>14. UNCHANGED eng => InEngine(u)' = InEngine(u) /\ NotLoaded(u)' = NotLoaded(u)
  BY DEF InEngine, NotLoaded, Passing
<1> USE DEF lookups, hostVars, respVars, retryVars, netVars
<1>15. ASSUME NEW c \in Commands, NetCommand(c)
       PROVE  Places(u)' = 1
  <2> DEFINE t == Head(capptag)
  <2>1. /\ t \in Tags /\ ~HostHas(t) /\ \A i \in DOMAIN Coming : Coming[i].tag # t
        /\ cmdlookup' = [cmdlookup EXCEPT ![t] = c] /\ capptag # <<>>
    BY <1>15, FreshTag, Zenon DEF NetCommand
  <2>2. Cardinality(HostsWith(u)') = H + (IF u = t THEN 1 ELSE 0)
    BY <1>0, <1>15, <2>1, HostIssue DEF NetCommand, H
  <2>3. F = Tally(capptag', {u}) + (IF u = t THEN 1 ELSE 0)
    <3>1. Tally(capptag, {u}) = Tally(Tail(capptag), {u}) + (IF t \in {u} THEN 1 ELSE 0)
      BY <1>1, <2>1, TallyTail
    <3>2. capptag' = Tail(capptag)
      BY <1>15 DEF NetCommand
    <3>3. QED
      BY <3>1, <3>2 DEF F
  <2>4. Tally(tlresp', SettledBy(cmdlookup'[u], u)) = T
    <3>1. tlresp' = tlresp
      BY <1>15 DEF NetCommand
    <3>2. CASE u # t
      BY <1>1, <2>1, <3>1, <3>2 DEF T
    <3>3. CASE u = t
      <4>1. \A i \in DOMAIN tlresp : tlresp[i].tag # u
        BY <1>0, <2>1, <3>3, ComingIs
      <4>2. \A c2 : \A i \in DOMAIN tlresp : tlresp[i] \notin SettledBy(c2, u)
        BY <4>1 DEF SettledBy
      <4>3. \A c2 : Tally(tlresp, SettledBy(c2, u)) = 0
        BY <1>1, <4>2, TallyType
      <4>4. QED
        BY <3>1, <4>3 DEF T
    <3>4. QED
      BY <3>2, <3>3
  <2> HIDE DEF t
  <2>5. UNCHANGED <<combo, rtyfifo, jail, out, eng>>
    BY <1>15 DEF NetCommand
  <2>6. Tally(capptag', {u}) \in Nat
    <3>1. capptag' \in Seq(Tags)
      BY DEF TypeOK
    <3>2. QED
      BY <3>1, TallyType
  <2>7. QED
    BY <1>2, <1>3, <1>12, <1>13, <1>14, <2>2, <2>3, <2>4, <2>5, <2>6
<1>16. CASE NetData \/ RtyData
  <2>1. \E d : IssueData(d)
    BY <1>16 DEF NetData, RtyData
  <2>2. Cardinality(HostsWith(u)') = H
    BY <1>0, <2>1, HostIssueData DEF H
  <2>3. Tally(out', CommandsWith(u)) = O
    <3>1. CASE NetData
      BY <1>13, <3>1 DEF NetData
    <3>2. CASE RtyData
      <4>1. out' = Tail(out) /\ out # <<>> /\ Head(out) \in WriteData
        BY <3>2, Heads DEF RtyData
      <4>2. Head(out) \notin CommandsWith(u)
        BY <4>1, FlitKinds DEF CommandsWith
      <4>3. Tally(Tail(out), CommandsWith(u)) \in Nat
        BY <1>1, <1>7, <1>70, <4>1
      <4>4. QED
        BY <1>1, <1>5, <4>1, <4>2, <4>3 DEF O
    <3>3. QED
      BY <1>16, <3>1, <3>2
  <2>4. UNCHANGED <<capptag, tlresp, cmdlookup, combo, rtyfifo, jail, eng>>
    BY <1>16 DEF NetData, RtyData
  <2>5. QED
    BY <1>2, <1>3, <1>10, <1>11, <1>12, <1>13, <1>14, <2>2, <2>3, <2>4
<1>17. CASE RtyCommand
  <2>0. out # <<>> /\ ing.dflit = 0 /\ ing.st = "RECEIVE_CMD"
    BY <1>0, <1>17 DEF RtyCommand, Machines
  <2>1. /\ Head(out).cmd /\ Head(out) \in RetryFlits /\ Retried(Head(out).tag) /\ Head(out).tag \in Tags
    BY <2>0, Heads, FlitKinds DEF InStep
  <2>2. ~HostHas(Head(out).tag)
    BY <1>0, <2>1, OnePlace
  <2>3. Cardinality(HostsWith(u)') = H + (IF u = Head(out).tag THEN 1 ELSE 0)
    BY <1>0, <1>17, <2>2, HostIssue DEF RtyCommand, H
  <2>4. O = Tally(out', CommandsWith(u)) + (IF u = Head(out).tag THEN 1 ELSE 0)
    BY <1>1, <1>5, <1>17, <2>0, <2>1 DEF RtyCommand, O, CommandsWith
  <2>5. Tally(out', CommandsWith(u)) \in Nat
    BY <1>1, <1>7, <1>17, <1>70, <2>0 DEF RtyCommand
  <2>6. UNCHANGED <<capptag, tlresp, cmdlookup, combo, rtyfifo, jail, eng>>
    BY <1>17 DEF RtyCommand
  <2>7. QED
    BY <1>2, <1>3, <1>10, <1>11, <1>12, <1>13, <1>14, <2>3, <2>4, <2>5, <2>6
<1>18. ASSUME NEW t \in Tags, Host(t)
       PROVE  Places(u)' = 1
  <2>1. PICK h \in host, r \in AnyResponse, data \in Seq(DataFlits) : Says(h, r, data)
    BY <1>18, HostSays
  <2>2. h.tag \in Tags /\ cmdlookup[h.tag] = h.of
    BY <1>0 DEF TypeOK, Hosted, OwnCommand
  <2>3. H = Cardinality(HostsWith(u)') + (IF u = h.tag /\ ~First(r) /\ ~Pending(r) THEN 1 ELSE 0)
    BY <1>0, <2>1, HostSaid DEF H
  <2>4. Tally(tlresp', SettledBy(cmdlookup'[u], u))
        = T + (IF u = h.tag /\ ~First(r) /\ ~Pending(r) THEN 1 ELSE 0)
    <3>1. /\ tlresp' = Append(tlresp, r) /\ cmdlookup' = cmdlookup
          /\ r.tag = h.tag /\ Fitting(r, h.of)
      BY <2>1 DEF Says
    <3>2. Settles(r, h.of) <=> ~First(r) /\ ~Pending(r)
      BY <2>2, <3>1, StateOf DEF First, Pending, Of
    <3>3. r \in SettledBy(cmdlookup[u], u) <=> u = h.tag /\ ~First(r) /\ ~Pending(r)
      BY <2>2, <3>1, <3>2 DEF SettledBy
    <3>4. QED
      BY <1>1, <3>1, <3>3, TallyAppend DEF T
  <2>5. UNCHANGED <<capptag, combo, rtyfifo, jail, out, eng>>
    BY <2>1 DEF Says
  <2>6. Cardinality(HostsWith(u)') \in Nat
    BY HostsNext
  <2>7. QED
    BY <1>2, <1>3, <1>10, <1>12, <1>13, <1>14, <2>3, <2>4, <2>5, <2>6, SMTT(30)
<1>19. CASE CmdFifoLoad
  <2> DEFINE r == Head(tlresp)
             k == IF r \in SettledBy(cmdlookup[u], u) THEN 1 ELSE 0
  <2>1. /\ tlresp # <<>> /\ tlresp' = Tail(tlresp) /\ combo' = Append(combo, Combo(r))
        /\ UNCHANGED <<host, capptag, cmdlookup, rtyfifo, jail, out, eng>>
    BY <1>19 DEF CmdFifoLoad
  <2>2. r \in AnyResponse /\ Tail(tlresp) \in Seq(AnyResponse)
    BY <1>1, <2>1, Heading
  <2>3. Combo(r) \in Joined
    <3>1. combo' \in Seq(Joined) /\ Len(combo) + 1 \in DOMAIN combo' /\ combo'[Len(combo) + 1] = Combo(r)
      <4>1. combo' \in Seq(Joined)
        BY DEF TypeOK
      <4>2. QED
        BY <1>1, <2>1, <4>1, LenProperties
    <3>2. QED
      BY <3>1, LenProperties
  <2>4. Combo(r) \in JoinedBy(u) <=> r \in SettledBy(cmdlookup[u], u)
    BY <2>2, <2>3 DEF JoinedBy, SettledBy, Combo
  <2>5. Tally(combo', JoinedBy(u)) = J + k
    BY <1>1, <2>1, <2>3, <2>4, TallyAppend DEF J
  <2>6. T = Tally(tlresp', SettledBy(cmdlookup'[u], u)) + k
    BY <1>1, <2>1, TallyTail DEF T
  <2>7. Tally(tlresp', SettledBy(cmdlookup'[u], u)) \in Nat
    BY <2>1, <2>2, TallyType
  <2> HIDE DEF k
  <2>8. k \in Nat
    BY DEF k
  <2>9. QED
    BY <1>2, <1>3, <1>9, <1>10, <1>13, <1>14, <2>1, <2>5, <2>6, <2>7, <2>8, SMTT(30)
<1>20. CASE LoadTags
  <2>1. /\ eng.st = "INIT" /\ eng.next \in Tags /\ capptag' = Append(capptag, eng.next)
        /\ UNCHANGED <<host, tlresp, cmdlookup, combo, rtyfifo, jail, out>>
        /\ eng'.next = eng.next + 1 /\ eng'.st # "GET_DATA" /\ eng.next \in Int
    BY <1>0, <1>20, EngAfter, Fields, Lengths DEF LoadTags, Machines, Tags
  <2>2. Tally(capptag', {u}) = F + (IF eng.next = u THEN 1 ELSE 0)
    BY <1>6, <2>1
  <2>3. /\ NotLoaded(u) = NotLoaded(u)' + (IF eng.next = u THEN 1 ELSE 0)
        /\ InEngine(u) = 0 /\ InEngine(u)' = 0
    BY <2>1 DEF NotLoaded, InEngine, Passing, Tags
  <2>4. NotLoaded(u)' \in 0..1
    BY DEF NotLoaded
  <2>5. QED
    BY <1>2, <1>3, <1>9, <1>11, <1>12, <1>13, <2>1, <2>2, <2>3, <2>4, SMTT(30)
<1>21. ASSUME NEW state, GetResponse(state)
       PROVE  LET x == Head(combo)
              IN /\ J = Tally(combo', JoinedBy(u))
                         + (IF u = x.resp.tag /\ ~First(x.resp) /\ ~Pending(x.resp) THEN 1 ELSE 0)
                 /\ Tally(combo', JoinedBy(u)) \in Nat
                 /\ x.resp \in AnyResponse /\ Fitting(x.resp, x.of) /\ RespState(x.resp) = state
                 /\ x.of \in Commands /\ x.resp.tag \in Tags /\ x.of = cmdlookup[x.resp.tag]
                 /\ InEngine(u) = 0
  <2> DEFINE x == Head(combo)
  <2>1. combo # <<>> /\ combo' = Tail(combo) /\ eng.st = "GET_CMD" /\ RespState(x.resp) = state
    BY <1>21 DEF GetResponse
  <2>2. /\ x \in Joined /\ x.resp \in AnyResponse /\ Fitting(x.resp, x.of)
        /\ x.of \in Commands /\ x.resp.tag \in Tags /\ x.of = cmdlookup[x.resp.tag]
    BY <2>1, Taken
  <2>3. x \in JoinedBy(u) <=> u = x.resp.tag /\ ~First(x.resp) /\ ~Pending(x.resp)
    BY <2>2, StateOf DEF JoinedBy, First, Pending, Of
  <2>4. J = Tally(combo', JoinedBy(u)) + (IF x \in JoinedBy(u) THEN 1 ELSE 0)
    BY <1>1, <2>1, TallyTail DEF J
  <2>5. Tally(combo', JoinedBy(u)) \in Nat
    <3>1. combo' \in Seq(Joined)
      BY DEF TypeOK
    <3>2. QED
      BY <3>1, TallyType
  <2>6. InEngine(u) = 0
    BY <2>1 DEF InEngine, Passing
  <2> HIDE DEF x
  <2>7. QED
    BY <2>1, <2>2, <2>3, <2>4, <2>5, <2>6 DEF x
<1>22. CASE RetryResponse
  <2> DEFINE x == Head(combo)
             f == Command(x.of, x.resp.tag, Anno(x.resp))
  <2>1. /\ GetResponse("retry") /\ rtyfifo' = Append(rtyfifo, f)
        /\ UNCHANGED <<host, capptag, tlresp, cmdlookup, jail, out>>
    BY <1>22 DEF RetryResponse
  <2>2. f \in RetryFlits
    <3>1. rtyfifo' \in Seq(RetryFlits) /\ Len(rtyfifo) + 1 \in DOMAIN rtyfifo' /\ rtyfifo'[Len(rtyfifo) + 1] = f
      <4>1. rtyfifo' \in Seq(RetryFlits)
        BY DEF TypeOK
      <4>2. QED
        BY <1>1, <2>1, <4>1, LenProperties
    <3>2. QED
      BY <3>1, LenProperties
  <2>3. f \in CommandsWith(u) <=> u = x.resp.tag
    BY <2>2 DEF CommandsWith, Command
  <2>4. ~First(x.resp) /\ ~Pending(x.resp)
    <3>1. x.resp \in AnyResponse /\ Fitting(x.resp, x.of) /\ RespState(x.resp) = "retry"
      BY <1>21, <2>1
    <3>2. x.resp.op # RD_OK /\ (x.resp.op = XLATE_DONE \/ x.resp.code = RTY)
      BY <3>1, StateOf
    <3>3. QED
      BY <3>1, <3>2 DEF Fitting, First, Pending, RTY, PEND, XLATE_DONE, RD_FAIL, WR_FAIL
  <2>5. Tally(rtyfifo', CommandsWith(u)) = R + (IF u = x.resp.tag THEN 1 ELSE 0)
    BY <1>1, <1>4, <2>1, <2>2, <2>3 DEF R
  <2>6. InEngine(u)' = 0 /\ NotLoaded(u)' = NotLoaded(u)
    BY <1>0, <1>22, EngAfter DEF InEngine, Passing, NotLoaded
  <2>7. J = Tally(combo', JoinedBy(u)) + (IF u = x.resp.tag THEN 1 ELSE 0) /\ InEngine(u) = 0
        /\ Tally(combo', JoinedBy(u)) \in Nat
    BY <1>21, <2>1, <2>4
  <2> HIDE DEF x, f
  <2>8. QED
    BY <1>2, <1>3, <1>9, <1>10, <1>11, <1>13, <2>1, <2>5, <2>6, <2>7, SMTT(30)
<1>23. CASE DataResponse
  <2> DEFINE x == Head(combo)
  <2>1. /\ GetResponse("data")
        /\ UNCHANGED <<host, capptag, tlresp, cmdlookup, rtyfifo, jail, out>>
    BY <1>23 DEF DataResponse
  <2>2. /\ x.resp \in AnyResponse /\ Fitting(x.resp, x.of) /\ RespState(x.resp) = "data"
        /\ x.of = cmdlookup[x.resp.tag]
    BY <1>21, <2>1
  <2>3. x.resp.op = RD_OK
    BY <2>2, StateOf
  <2>4. ~Pending(x.resp) /\ (First(x.resp) <=> x.resp.dl # Dl[x.of] /\ x.resp.dp = 0)
    BY <2>2, <2>3 DEF First, Pending, Fitting, Of, RD_OK, RD_FAIL, WR_FAIL, PEND
  <2>5. InEngine(u)' = (IF u = x.resp.tag /\ ~First(x.resp) THEN 1 ELSE 0) /\ NotLoaded(u)' = NotLoaded(u)
    BY <1>0, <1>23, <2>4, EngAfter DEF InEngine, Passing, NotLoaded
  <2>6. QED
    BY <1>2, <1>3, <1>9, <1>10, <1>11, <1>13, <1>21, <2>1, <2>4, <2>5
<1>24. CASE NoDataResponse
  <2> DEFINE x == Head(combo)
  <2>1. /\ GetResponse("nodata") /\ capptag' = Append(capptag, x.resp.tag)
        /\ UNCHANGED <<host, tlresp, cmdlookup, rtyfifo, jail, out>>
    BY <1>24 DEF NoDataResponse
  <2>2. /\ x.resp \in AnyResponse /\ Fitting(x.resp, x.of) /\ RespState(x.resp) = "nodata"
        /\ x.resp.tag \in Tags
    BY <1>21, <2>1
  <2>3. ~First(x.resp) /\ ~Pending(x.resp)
    BY <2>2, StateOf DEF First, Pending
  <2>4. Tally(capptag', {u}) = F + (IF u = x.resp.tag THEN 1 ELSE 0)
    BY <1>6, <2>1, <2>2
  <2>5. InEngine(u)' = 0 /\ NotLoaded(u)' = NotLoaded(u)
    BY <1>0, <1>24, EngAfter DEF InEngine, Passing, NotLoaded
  <2>6. QED
    BY <1>2, <1>3, <1>9, <1>11, <1>13, <1>21, <2>1, <2>3, <2>4, <2>5, SMTT(30)
<1>25. CASE DropResponse
  <2> DEFINE x == Head(combo)
  <2>1. /\ GetResponse("drop")
        /\ UNCHANGED <<host, capptag, tlresp, cmdlookup, rtyfifo, jail, out>>
    BY <1>25 DEF DropResponse
  <2>2. x.resp \in AnyResponse /\ Fitting(x.resp, x.of) /\ RespState(x.resp) = "drop"
    BY <1>21, <2>1
  <2>3. Pending(x.resp)
    BY <2>2, StateOf DEF Pending
  <2>4. InEngine(u)' = 0 /\ NotLoaded(u)' = NotLoaded(u)
    BY <1>0, <1>25, EngAfter DEF InEngine, Passing, NotLoaded
  <2>5. QED
    BY <1>2, <1>3, <1>9, <1>10, <1>11, <1>13, <1>21, <2>1, <2>3, <2>4
<1>26. CASE PassData
  <2>1. Passing /\ UNCHANGED <<host, tlresp, cmdlookup, combo, rtyfifo, jail, out>>
    BY <1>26 DEF PassData, Passing
  <2>2. eng.tag \in Tags /\ NotLoaded(u)' = NotLoaded(u)
    BY <1>0, <1>26, <2>1, EngAfter DEF Machines, Passing, NotLoaded
  <2>3. Tally(capptag', {u}) + InEngine(u)' = F + InEngine(u)
    <3>1. CASE eng.cdata # 1
      <4>1. capptag' = capptag /\ InEngine(u)' = InEngine(u)
        BY <1>0, <1>26, <2>1, <3>1, EngAfter DEF PassData, InEngine, Passing
      <4>2. QED
        BY <1>10, <4>1
    <3>2. CASE eng.cdata = 1 /\ eng.keep
      <4>1. capptag' = capptag /\ InEngine(u) = 0 /\ InEngine(u)' = 0
        BY <1>0, <1>26, <3>2, EngAfter DEF PassData, InEngine, Passing
      <4>2. QED
        BY <1>10, <4>1
    <3>3. CASE eng.cdata = 1 /\ ~eng.keep
      <4>1. /\ capptag' = Append(capptag, eng.tag) /\ InEngine(u)' = 0
            /\ InEngine(u) = IF u = eng.tag THEN 1 ELSE 0
        BY <1>0, <1>26, <2>1, <3>3, EngAfter DEF PassData, InEngine, Passing
      <4>2. Tally(capptag', {u}) = F + (IF u = eng.tag THEN 1 ELSE 0)
        BY <1>6, <2>2, <4>1
      <4>3. QED
        BY <1>2, <4>1, <4>2
    <3>4. QED
      BY <3>1, <3>2, <3>3
  <2>4. Tally(capptag', {u}) \in Nat /\ InEngine(u)' \in 0..1
    <3>1. capptag' \in Seq(Tags)
      BY DEF TypeOK
    <3>2. Tally(capptag', {u}) \in Nat
      BY <3>1, TallyType
    <3>3. QED
      BY <3>2 DEF InEngine
  <2>5. QED
    BY <1>2, <1>3, <1>9, <1>11, <1>12, <1>13, <2>1, <2>2, <2>3, <2>4
<1>27. CASE ReplayData
  <2> DEFINE f == LookedUp(eng.tag)[eng.count]
  <2>1. /\ Replaying /\ rtyfifo' = Append(rtyfifo, f)
        /\ UNCHANGED <<host, capptag, tlresp, cmdlookup, combo, jail, out>>
    BY <1>27 DEF ReplayData, Replaying
  <2>2. f \in RetryFlits /\ f \notin CommandsWith(u)
    BY <2>1, Heads, FlitKinds, FlitTypes DEF CommandsWith
  <2>3. Tally(rtyfifo', CommandsWith(u)) = R
    BY <1>1, <1>2, <1>4, <2>1, <2>2, SMTT(30) DEF R
  <2>4. InEngine(u)' = 0 /\ InEngine(u) = 0 /\ NotLoaded(u)' = NotLoaded(u)
    BY <1>0, <1>27, <2>1, EngAfter DEF InEngine, Passing, NotLoaded, Replaying
  <2>5. QED
    BY <1>2, <1>3, <1>9, <1>10, <1>11, <1>12, <1>13, <2>1, <2>3, <2>4
<1>28. CASE RtyEng
  <2>1. UNCHANGED <<host, capptag, tlresp, cmdlookup, combo, eng>>
    BY <1>28 DEF RtyEng, ToJail, Reissue, ReleaseJail, MoveData, ReleaseData
  <2>2. \/ rtyfifo # <<>> /\ rtyfifo' = Tail(rtyfifo) /\ jail' = Append(jail, Head(rtyfifo)) /\ out' = out
        \/ rtyfifo # <<>> /\ rtyfifo' = Tail(rtyfifo) /\ out' = Append(out, Head(rtyfifo)) /\ jail' = jail
        \/ jail # <<>> /\ jail' = Tail(jail) /\ out' = Append(out, Head(jail)) /\ rtyfifo' = rtyfifo
    BY <1>28 DEF RtyEng, ToJail, Reissue, ReleaseJail, MoveData, ReleaseData
  <2>3. /\ Tally(rtyfifo', CommandsWith(u)) \in Nat /\ Tally(jail', CommandsWith(u)) \in Nat
        /\ Tally(out', CommandsWith(u)) \in Nat
    <3>1. rtyfifo' \in Seq(RetryFlits) /\ jail' \in Seq(RetryFlits) /\ out' \in Seq(RetryFlits)
      BY DEF TypeOK
    <3>2. QED
      BY <1>70, <3>1
  <2>4. Tally(rtyfifo', CommandsWith(u)) + Tally(jail', CommandsWith(u)) + Tally(out', CommandsWith(u))
        = R + L + O
    <3>1. ASSUME NEW a \in Seq(RetryFlits), NEW b \in Seq(RetryFlits), a # <<>>
          PROVE  Tally(Tail(a), CommandsWith(u)) + Tally(Append(b, Head(a)), CommandsWith(u))
                 = Tally(a, CommandsWith(u)) + Tally(b, CommandsWith(u))
      <4>1. Head(a) \in RetryFlits /\ Tail(a) \in Seq(RetryFlits)
        BY <1>7, <3>1
      <4>2. Tally(Append(b, Head(a)), CommandsWith(u))
            = Tally(b, CommandsWith(u)) + (IF Head(a) \in CommandsWith(u) THEN 1 ELSE 0)
        BY <1>4, <4>1
      <4>3. Tally(a, CommandsWith(u))
            = Tally(Tail(a), CommandsWith(u)) + (IF Head(a) \in CommandsWith(u) THEN 1 ELSE 0)
        BY <1>5, <3>1
      <4>4. Tally(Tail(a), CommandsWith(u)) \in Nat /\ Tally(b, CommandsWith(u)) \in Nat
        BY <1>70, <4>1
      <4>5. QED
        BY <4>2, <4>3, <4>4
    <3>2. CASE rtyfifo # <<>> /\ rtyfifo' = Tail(rtyfifo) /\ jail' = Append(jail, Head(rtyfifo)) /\ out' = out
      <4>1. Tally(rtyfifo', CommandsWith(u)) + Tally(jail', CommandsWith(u)) = R + L
        BY <1>1, <3>1, <3>2 DEF R, L
      <4>2. QED
        BY <1>13, <3>2, <4>1
    <3>3. CASE rtyfifo # <<>> /\ rtyfifo' = Tail(rtyfifo) /\ out' = Append(out, Head(rtyfifo)) /\ jail' = jail
      <4>1. Tally(rtyfifo', CommandsWith(u)) + Tally(out', CommandsWith(u)) = R + O
        BY <1>1, <3>1, <3>3 DEF R, O
      <4>2. QED
        BY <1>2, <1>13, <2>3, <3>3, <4>1
    <3>4. CASE jail # <<>> /\ jail' = Tail(jail) /\ out' = Append(out, Head(jail)) /\ rtyfifo' = rtyfifo
      <4>1. Tally(jail', CommandsWith(u)) + Tally(out', CommandsWith(u)) = L + O
        BY <1>1, <3>1, <3>4 DEF L, O
      <4>2. QED
        BY <1>2, <1>13, <2>3, <3>4, <4>1
    <3>5. QED
      BY <2>2, <3>2, <3>3, <3>4
  <2>5. QED
    BY <1>2, <1>3, <1>9, <1>10, <1>11, <1>12, <1>14, <2>1, <2>3, <2>4
<1>29. CASE EnableIngress \/ UNCHANGED vars
  <2>1. UNCHANGED <<host, capptag, tlresp, cmdlookup, combo, rtyfifo, jail, out, eng>>
    BY <1>29 DEF EnableIngress, vars
  <2>2. QED
    BY <1>2, <1>3, <1>9, <1>10, <1>11, <1>12, <1>13, <1>14, <2>1
<1>30. QED
  BY <1>15, <1>16, <1>17, <1>18, <1>19, <1>20, <1>22, <1>23, <1>24, <1>25, <1>26, <1>27, <1>28, <1>29
     DEF Next, Ingress, RespEng

-----------------------------------------------------------------------------
(* How the responses and the fifos of the retry path change                *)

\* ComingIs, of the next state.
LEMMA ComingNext ==
    TypeOK' => /\ Coming' \in Seq(AnyResponse)
               /\ DOMAIN combo' = 1..Len(combo') /\ DOMAIN tlresp' = 1..Len(tlresp')
               /\ Len(combo') \in Nat /\ Len(tlresp') \in Nat
               /\ Len(Coming') = Len(combo') + Len(tlresp')
               /\ DOMAIN Coming' = 1..Len(combo') + Len(tlresp')
               /\ \A i \in DOMAIN combo' : Coming'[i] = combo'[i].resp /\ combo'[i] \in Joined
               /\ \A i \in DOMAIN tlresp' : Coming'[Len(combo') + i] = tlresp'[i]
<1>1. (TypeOK => /\ Coming \in Seq(AnyResponse)
                 /\ DOMAIN combo = 1..Len(combo) /\ DOMAIN tlresp = 1..Len(tlresp)
                 /\ Len(combo) \in Nat /\ Len(tlresp) \in Nat
                 /\ Len(Coming) = Len(combo) + Len(tlresp)
                 /\ DOMAIN Coming = 1..Len(combo) + Len(tlresp)
                 /\ \A i \in DOMAIN combo : Coming[i] = combo[i].resp /\ combo[i] \in Joined
                 /\ \A i \in DOMAIN tlresp : Coming[Len(combo) + i] = tlresp[i])'
  BY ComingIs, PTL
<1>2. QED
  BY <1>1

\* The responses under way change at their ends only: the host adds one at the end,
\* the engine takes the first, and CmdFifoLoad leaves them as they are.
LEMMA ComingAfter ==
    ASSUME TypeOK, TypeOK'
    PROVE  /\ Len(Coming) \in Nat /\ DOMAIN Coming = 1..Len(Coming)
           /\ UNCHANGED <<combo, tlresp>> => Coming' = Coming
           /\ CmdFifoLoad => Coming' = Coming
           /\ \A r \in AnyResponse : UNCHANGED combo /\ tlresp' = Append(tlresp, r) =>
                 /\ Len(Coming') = Len(Coming) + 1 /\ DOMAIN Coming' = 1..Len(Coming) + 1
                 /\ \A i \in 1..Len(Coming) : Coming'[i] = Coming[i]
                 /\ Coming'[Len(Coming) + 1] = r
           /\ combo # <<>> /\ combo' = Tail(combo) /\ tlresp' = tlresp =>
                 /\ Len(Coming) > 0
                 /\ Len(Coming') = Len(Coming) - 1 /\ DOMAIN Coming' = 1..Len(Coming) - 1
                 /\ \A i \in 1..Len(Coming) - 1 : Coming'[i] = Coming[i + 1]
<1> DEFINE m == Len(combo)
           n == Len(tlresp)
<1>1. /\ combo \in Seq(Joined) /\ tlresp \in Seq(AnyResponse) /\ Coming \in Seq(AnyResponse)
      /\ Coming' \in Seq(AnyResponse) /\ m \in Nat /\ n \in Nat
      /\ Len(Coming) = m + n /\ DOMAIN Coming = 1..m + n
      /\ \A i \in 1..m : Coming[i] = combo[i].resp
      /\ \A i \in 1..n : Coming[m + i] = tlresp[i]
  BY ComingIs, ComingNext DEF TypeOK
<1>2. /\ Len(Coming') = Len(combo') + Len(tlresp')
      /\ DOMAIN Coming' = 1..Len(combo') + Len(tlresp')
      /\ \A i \in 1..Len(combo') : Coming'[i] = combo'[i].resp
      /\ \A i \in 1..Len(tlresp') : Coming'[Len(combo') + i] = tlresp'[i]
  BY ComingNext
<1>3. UNCHANGED <<combo, tlresp>> => Coming' = Coming
  BY DEF Coming
<1>4. ASSUME CmdFifoLoad
      PROVE  Coming' = Coming
  <2>1. tlresp # <<>> /\ combo' = Append(combo, Combo(Head(tlresp))) /\ tlresp' = Tail(tlresp)
    BY <1>4 DEF CmdFifoLoad
  <2>2. /\ n > 0 /\ Len(tlresp') = n - 1 /\ Head(tlresp) = tlresp[1]
        /\ \A i \in 1..n - 1 : tlresp'[i] = tlresp[i + 1]
    BY <1>1, <2>1, HeadTailProperties, EmptySeq
  <2>3. /\ Len(combo') = m + 1 /\ combo'[m + 1] = Combo(tlresp[1])
        /\ \A i \in 1..m : combo'[i] = combo[i]
    BY <1>1, <2>1, <2>2
  <2>4. combo'[m + 1].resp = tlresp[1]
    BY <2>3 DEF Combo
  <2>5. Len(Coming') = Len(Coming)
    BY <1>1, <1>2, <2>2, <2>3
  <2>6. ASSUME NEW i \in 1..m + n
        PROVE  Coming'[i] = Coming[i]
    <3>1. CASE i <= m
      <4>1. i \in 1..m /\ i \in 1..Len(combo')
        BY <1>1, <2>3, <3>1
      <4>2. Coming'[i] = combo'[i].resp /\ combo'[i] = combo[i] /\ Coming[i] = combo[i].resp
        BY <1>1, <1>2, <2>3, <4>1
      <4>3. QED
        BY <4>2
    <3>2. CASE i = m + 1
      <4>1. m + 1 \in 1..Len(combo') /\ 1 \in 1..n
        BY <1>1, <2>2, <2>3
      <4>2. Coming'[m + 1] = combo'[m + 1].resp /\ Coming[m + 1] = tlresp[1]
        BY <1>1, <1>2, <4>1
      <4>3. QED
        BY <2>4, <3>2, <4>2
    <3>3. CASE i > m + 1
      <4>1. i - (m + 1) \in 1..n - 1 /\ i - m \in 1..n /\ (m + 1) + (i - (m + 1)) = i /\ m + (i - m) = i
            /\ (i - (m + 1)) + 1 = i - m
        BY <1>1, <3>3
      <4>2. Coming'[i] = tlresp'[i - (m + 1)]
        BY <1>2, <2>2, <2>3, <4>1, SMTT(30)
      <4>3. tlresp'[i - (m + 1)] = tlresp[i - m]
        BY <2>2, <4>1
      <4>4. Coming[i] = tlresp[i - m]
        BY <1>1, <4>1
      <4>5. QED
        BY <4>2, <4>3, <4>4
    <3>4. QED
      BY <1>1, <3>1, <3>2, <3>3
  <2>7. QED
    BY <1>1, <2>5, <2>6, SeqEqual
<1>5. ASSUME NEW r \in AnyResponse, UNCHANGED combo, tlresp' = Append(tlresp, r)
      PROVE  /\ Len(Coming') = Len(Coming) + 1 /\ DOMAIN Coming' = 1..Len(Coming) + 1
             /\ \A i \in 1..Len(Coming) : Coming'[i] = Coming[i]
             /\ Coming'[Len(Coming) + 1] = r
  <2>1. /\ Len(tlresp') = n + 1 /\ tlresp'[n + 1] = r
        /\ \A i \in 1..n : tlresp'[i] = tlresp[i]
    BY <1>1, <1>5
  <2>2. ASSUME NEW i \in 1..m + n
        PROVE  Coming'[i] = Coming[i]
    <3>1. CASE i <= m
      BY <1>1, <1>2, <1>5, <3>1
    <3>2. CASE i > m
      <4>1. i - m \in 1..n /\ i - m \in 1..n + 1 /\ m + (i - m) = i
        BY <1>1, <3>2
      <4>2. Len(combo') = m /\ i - m \in 1..Len(tlresp')
        BY <1>5, <2>1, <4>1
      <4>3. Coming'[Len(combo') + (i - m)] = tlresp'[i - m]
        BY <1>2, <4>2
      <4>4. Coming[m + (i - m)] = tlresp[i - m]
        BY <1>1, <4>1
      <4>5. tlresp'[i - m] = tlresp[i - m]
        BY <2>1, <4>1
      <4>6. QED
        BY <4>1, <4>2, <4>3, <4>4, <4>5
    <3>3. QED
      BY <1>1, <3>1, <3>2
  <2>3. Coming'[m + (n + 1)] = r
    <3>1. n + 1 \in 1..n + 1
      BY <1>1
    <3>2. QED
      BY <1>2, <1>5, <2>1, <3>1
  <2>4. m + (n + 1) = (m + n) + 1
    BY <1>1
  <2>5. QED
    BY <1>1, <1>2, <1>5, <2>1, <2>2, <2>3, <2>4
<1>6. ASSUME combo # <<>>, combo' = Tail(combo), tlresp' = tlresp
      PROVE  /\ Len(Coming) > 0
             /\ Len(Coming') = Len(Coming) - 1 /\ DOMAIN Coming' = 1..Len(Coming) - 1
             /\ \A i \in 1..Len(Coming) - 1 : Coming'[i] = Coming[i + 1]
  <2>1. m > 0 /\ Len(combo') = m - 1 /\ \A i \in 1..m - 1 : combo'[i] = combo[i + 1]
    BY <1>1, <1>6, HeadTailProperties, EmptySeq
  <2>2. ASSUME NEW i \in 1..(m + n) - 1
        PROVE  Coming'[i] = Coming[i + 1]
    <3>1. CASE i <= m - 1
      <4>1. i \in 1..m - 1 /\ i + 1 \in 1..m /\ i \in 1..Len(combo')
        BY <1>1, <2>1, <3>1
      <4>2. Coming'[i] = combo'[i].resp /\ combo'[i] = combo[i + 1] /\ Coming[i + 1] = combo[i + 1].resp
        BY <1>1, <1>2, <2>1, <4>1
      <4>3. QED
        BY <4>2
    <3>2. CASE i > m - 1
      <4>1. i - (m - 1) \in 1..n /\ (m - 1) + (i - (m - 1)) = i /\ m + (i - (m - 1)) = i + 1
        BY <1>1, <3>2
      <4>2. Coming'[i] = tlresp[i - (m - 1)]
        BY <1>2, <1>6, <2>1, <4>1, ZenonT(60)
      <4>3. Coming[i + 1] = tlresp[i - (m - 1)]
        BY <1>1, <4>1
      <4>4. QED
        BY <4>2, <4>3
    <3>3. QED
      BY <1>1, <3>1, <3>2
  <2>3. (m - 1) + n = (m + n) - 1 /\ m + n > 0
    BY <1>1, <2>1
  <2>4. QED
    BY <1>1, <1>2, <1>6, <2>1, <2>2, <2>3
<1> HIDE DEF m, n
<1>7. QED
  BY <1>1, <1>3, <1>4, <1>5, <1>6

\* The flits that the fifos of the retry path hold.
Held == {f \in RetryFlits : \E s \in {rtyfifo, jail, out} : \E i \in DOMAIN s : s[i] = f}

\* The flits that the three fifos of the retry path hold are of its kinds.
LEMMA HeldAre ==
    ASSUME TypeOK
    PROVE  \A s \in {rtyfifo, jail, out} : \A i \in DOMAIN s : s[i] \in Held
<1> SUFFICES ASSUME NEW s \in {rtyfifo, jail, out}, NEW i \in DOMAIN s
             PROVE  s[i] \in Held
  OBVIOUS
<1>1. s \in Seq(RetryFlits)
  BY DEF TypeOK
<1>2. s[i] \in RetryFlits
  BY <1>1, LenProperties
<1>3. QED
  BY <1>2 DEF Held

\* HeldAre, of the next state.
LEMMA HeldNext ==
    TypeOK' => \A s \in {rtyfifo', jail', out'} : \A i \in DOMAIN s : s[i] \in Held'
<1>1. TypeOK => \A s \in {rtyfifo, jail, out} : \A i \in DOMAIN s : s[i] \in Held
  BY HeldAre
<1>2. (TypeOK => \A s \in {rtyfifo, jail, out} : \A i \in DOMAIN s : s[i] \in Held)'
  BY <1>1, PTL
<1>3. QED
  BY <1>2

\* An entry of the tail was in the fifo.
LEMMA InTail ==
    ASSUME NEW T, NEW s \in Seq(T), s # <<>>, NEW i \in DOMAIN Tail(s)
    PROVE  \E j \in DOMAIN s : Tail(s)[i] = s[j]
<1>1. /\ Len(s) \in Nat \ {0} /\ DOMAIN s = 1..Len(s) /\ DOMAIN Tail(s) = 1..Len(s) - 1
      /\ \A k \in 1..Len(s) - 1 : Tail(s)[k] = s[k + 1]
  BY HeadTailProperties, LenProperties, EmptySeq
<1>2. i + 1 \in DOMAIN s /\ Tail(s)[i] = s[i + 1]
  BY <1>1
<1>3. QED
  BY <1>2

\* An entry after a push was in the fifo, or is what was pushed.
LEMMA InAppend ==
    ASSUME NEW T, NEW s \in Seq(T), NEW x \in T, NEW i \in DOMAIN Append(s, x)
    PROVE  (i \in DOMAIN s /\ Append(s, x)[i] = s[i]) \/ Append(s, x)[i] = x
<1>1. /\ Len(s) \in Nat /\ DOMAIN s = 1..Len(s) /\ DOMAIN Append(s, x) = 1..Len(s) + 1
      /\ \A k \in 1..Len(s) : Append(s, x)[k] = s[k]
      /\ Append(s, x)[Len(s) + 1] = x
  BY AppendProperties, LenProperties
<1>2. QED
  BY <1>1

\* A command in the retry path was there before or comes from the response engine.
LEMMA HeldAfter ==
    ASSUME IInv, [Next]_vars, TypeOK', NEW f \in Held', f.cmd
    PROVE  \/ f \in Held
           \/ /\ RetryResponse
              /\ f = Command(Head(combo).of, Head(combo).resp.tag, Anno(Head(combo).resp))
<1>0. TypeOK /\ rtyfifo \in Seq(RetryFlits) /\ jail \in Seq(RetryFlits) /\ out \in Seq(RetryFlits)
  BY DEF TypeOK, IInv
<1>1. PICK s \in {rtyfifo', jail', out'} : \E i \in DOMAIN s : s[i] = f
  BY DEF Held
<1>2. f \in RetryFlits
  BY DEF Held
<1>3. PICK i \in DOMAIN s : s[i] = f
  BY <1>1
<1>4. \A q \in {rtyfifo, jail, out} : \A j \in DOMAIN q : q[j] = f => f \in Held
  BY <1>2 DEF Held
<1>5. \A q \in Seq(RetryFlits) : q # <<>> => Head(q) = q[1] /\ 1 \in DOMAIN q /\ Head(q) \in RetryFlits
  BY Heading
<1>6. ASSUME NEW q \in {rtyfifo, jail, out}, s = q
      PROVE  f \in Held
  BY <1>3, <1>4, <1>6
<1>7. ASSUME NEW q \in {rtyfifo, jail, out}, q # <<>>, s = Tail(q)
      PROVE  f \in Held
  <2>1. q \in Seq(RetryFlits)
    BY <1>0
  <2>2. PICK j \in DOMAIN q : Tail(q)[i] = q[j]
    BY <1>3, <1>7, <2>1, InTail
  <2>3. QED
    BY <1>3, <1>4, <1>7, <2>2
<1>8. ASSUME NEW q \in {rtyfifo, jail, out}, NEW x \in RetryFlits, s = Append(q, x)
      PROVE  f \in Held \/ f = x
  <2>1. q \in Seq(RetryFlits)
    BY <1>0
  <2>2. (i \in DOMAIN q /\ Append(q, x)[i] = q[i]) \/ Append(q, x)[i] = x
    BY <1>3, <1>8, <2>1, InAppend
  <2>3. QED
    BY <1>3, <1>4, <1>8, <2>2
<1> USE DEF lookups, hostVars, respVars, retryVars, netVars
<1>9. CASE UNCHANGED <<rtyfifo, jail, out>>
  BY <1>1, <1>6, <1>9
<1>10. CASE RtyCommand \/ RtyData
  BY <1>1, <1>6, <1>7, <1>10 DEF RtyCommand, RtyData
<1>11. CASE RetryResponse
  <2> DEFINE x == Command(Head(combo).of, Head(combo).resp.tag, Anno(Head(combo).resp))
  <2>1. rtyfifo' = Append(rtyfifo, x) /\ UNCHANGED <<jail, out>>
    BY <1>11 DEF RetryResponse
  <2>2. x \in RetryFlits
    <3>1. rtyfifo' \in Seq(RetryFlits) /\ Len(rtyfifo) + 1 \in DOMAIN rtyfifo' /\ rtyfifo'[Len(rtyfifo) + 1] = x
      <4>1. rtyfifo' \in Seq(RetryFlits)
        BY DEF TypeOK
      <4>2. QED
        BY <1>0, <2>1, <4>1, LenProperties
    <3>2. QED
      BY <3>1, LenProperties
  <2> HIDE DEF x
  <2>3. f \in Held \/ f = x
    BY <1>1, <1>6, <1>8, <2>1, <2>2
  <2>4. QED
    BY <1>11, <2>3 DEF x
<1>12. CASE ReplayData
  <2> DEFINE x == LookedUp(eng.tag)[eng.count]
  <2>1. rtyfifo' = Append(rtyfifo, x) /\ UNCHANGED <<jail, out>> /\ Replaying
    BY <1>12 DEF ReplayData, Replaying
  <2>2. x \in RetryFlits /\ x.cmd = FALSE
    BY <2>1, Heads, FlitKinds, FlitTypes
  <2> HIDE DEF x
  <2>3. f \in Held \/ f = x
    BY <1>1, <1>6, <1>8, <2>1, <2>2
  <2>4. QED
    BY <2>2, <2>3
<1>13. CASE RtyEng
  <2>1. \/ rtyfifo # <<>> /\ rtyfifo' = Tail(rtyfifo) /\ jail' = Append(jail, Head(rtyfifo)) /\ out' = out
        \/ rtyfifo # <<>> /\ rtyfifo' = Tail(rtyfifo) /\ out' = Append(out, Head(rtyfifo)) /\ jail' = jail
        \/ jail # <<>> /\ jail' = Tail(jail) /\ out' = Append(out, Head(jail)) /\ rtyfifo' = rtyfifo
    BY <1>13 DEF RtyEng, ToJail, Reissue, ReleaseJail, MoveData, ReleaseData
  <2>2. ASSUME NEW q \in {rtyfifo, jail, out}, q # <<>>, f = Head(q)
        PROVE  f \in Held
    BY <1>0, <1>4, <1>5, <2>2
  <2>3. CASE rtyfifo # <<>> /\ rtyfifo' = Tail(rtyfifo) /\ jail' = Append(jail, Head(rtyfifo)) /\ out' = out
    BY <1>0, <1>1, <1>5, <1>6, <1>7, <1>8, <2>2, <2>3
  <2>4. CASE rtyfifo # <<>> /\ rtyfifo' = Tail(rtyfifo) /\ out' = Append(out, Head(rtyfifo)) /\ jail' = jail
    BY <1>0, <1>1, <1>5, <1>6, <1>7, <1>8, <2>2, <2>4
  <2>5. CASE jail # <<>> /\ jail' = Tail(jail) /\ out' = Append(out, Head(jail)) /\ rtyfifo' = rtyfifo
    BY <1>0, <1>1, <1>5, <1>6, <1>7, <1>8, <2>2, <2>5
  <2>6. QED
    BY <2>1, <2>3, <2>4, <2>5
<1>14. ASSUME NEW t \in Tags, Host(t)
       PROVE  UNCHANGED <<rtyfifo, jail, out>>
  BY <1>14 DEF Host, HostReads, HostReadsHalf, HostWrites, HostFails, HostTranslated, Answers
<1>15. ASSUME NEW c \in Commands, NetCommand(c)
       PROVE  UNCHANGED <<rtyfifo, jail, out>>
  BY <1>15 DEF NetCommand
<1>16. EnableIngress \/ NetData \/ CmdFifoLoad \/ UNCHANGED vars => UNCHANGED <<rtyfifo, jail, out>>
  BY DEF EnableIngress, NetData, CmdFifoLoad, vars
<1>17. LoadTags \/ DataResponse \/ NoDataResponse \/ DropResponse \/ PassData => UNCHANGED <<rtyfifo, jail, out>>
  BY DEF LoadTags, DataResponse, NoDataResponse, DropResponse, PassData
<1>18. QED
  BY <1>9, <1>10, <1>11, <1>12, <1>13, <1>14, <1>15, <1>16, <1>17 DEF Next, Ingress, RespEng

\* The commands at the host after a step.
LEMMA HostAfter ==
    ASSUME TypeOK
    PROVE  /\ \A c, t : Issue(c, t) =>
                 /\ host \subseteq host'
                 /\ \A h \in host' : h \in host \/ (h.of = c /\ h.tag = t /\ h.st = "new" /\ h.data = <<>>)
                 /\ \E h \in host' : h.of = c /\ h.tag = t /\ h.st = "new"
           /\ \A d : IssueData(d) =>
                 /\ \A h \in host' : \E g \in host :
                       /\ h.of = g.of /\ h.tag = g.tag /\ h.st = g.st
                       /\ h.data = IF g.tag = ing.tag THEN Append(g.data, d) ELSE g.data
                 /\ \A g \in host : \E h \in host' : h.of = g.of /\ h.tag = g.tag /\ h.st = g.st
           /\ \A h \in host : \A r, data : Says(h, r, data) =>
                 /\ \A k \in host' : \/ k \in host /\ k # h
                                     \/ /\ k.of = h.of /\ k.tag = h.tag /\ k.data = h.data
                                        /\ \/ First(r) /\ k.st = "half"
                                           \/ Pending(r) /\ k.st = "translating"
                 /\ \A g \in host : g # h => g \in host'
                 /\ First(r) \/ Pending(r) => \E k \in host' : k.tag = h.tag
<1>0. \A h \in host : h \in Hosted
  BY DEF TypeOK
<1>1. ASSUME NEW c, NEW t, Issue(c, t)
      PROVE  /\ host \subseteq host'
             /\ \A h \in host' : h \in host \/ (h.of = c /\ h.tag = t /\ h.st = "new" /\ h.data = <<>>)
             /\ \E h \in host' : h.of = c /\ h.tag = t /\ h.st = "new"
  <2> DEFINE x == [of |-> c, tag |-> t, data |-> <<>>, st |-> "new"]
  <2>1. host' = host \cup {x}
    BY <1>1 DEF Issue
  <2>2. x.of = c /\ x.tag = t /\ x.st = "new" /\ x.data = <<>>
    OBVIOUS
  <2> HIDE DEF x
  <2>3. QED
    BY <2>1, <2>2
<1>2. ASSUME NEW d, IssueData(d)
      PROVE  /\ \A h \in host' : \E g \in host :
                   /\ h.of = g.of /\ h.tag = g.tag /\ h.st = g.st
                   /\ h.data = IF g.tag = ing.tag THEN Append(g.data, d) ELSE g.data
             /\ \A g \in host : \E h \in host' : h.of = g.of /\ h.tag = g.tag /\ h.st = g.st
  <2> DEFINE k(g) == IF g.tag = ing.tag THEN [g EXCEPT !.data = Append(@, d)] ELSE g
  <2>1. host' = {k(g) : g \in host}
    BY <1>2 DEF IssueData
  <2>2. \A g \in host : /\ k(g).of = g.of /\ k(g).tag = g.tag /\ k(g).st = g.st
                        /\ k(g).data = IF g.tag = ing.tag THEN Append(g.data, d) ELSE g.data
    BY <1>0 DEF Hosted
  <2> HIDE DEF k
  <2>3. QED
    BY <2>1, <2>2
<1>3. ASSUME NEW h \in host, NEW r, NEW data, Says(h, r, data)
      PROVE  /\ \A k \in host' : \/ k \in host /\ k # h
                                 \/ /\ k.of = h.of /\ k.tag = h.tag /\ k.data = h.data
                                    /\ \/ First(r) /\ k.st = "half"
                                       \/ Pending(r) /\ k.st = "translating"
             /\ \A g \in host : g # h => g \in host'
             /\ First(r) \/ Pending(r) => \E k \in host' : k.tag = h.tag
  <2> DEFINE a == [h EXCEPT !.st = "half"]
             b == [h EXCEPT !.st = "translating"]
  <2>1. /\ a.of = h.of /\ a.tag = h.tag /\ a.data = h.data /\ a.st = "half"
        /\ b.of = h.of /\ b.tag = h.tag /\ b.data = h.data /\ b.st = "translating"
    BY <1>0 DEF Hosted
  <2>2. host' = (host \ {h}) \cup (IF First(r) THEN {a} ELSE IF Pending(r) THEN {b} ELSE {})
    BY <1>3 DEF Says
  <2> HIDE DEF a, b
  <2>3. CASE First(r)
    <3>1. host' = (host \ {h}) \cup {a}
      BY <2>2, <2>3
    <3>2. QED
      BY <2>1, <2>3, <3>1
  <2>4. CASE ~First(r) /\ Pending(r)
    <3>1. host' = (host \ {h}) \cup {b}
      BY <2>2, <2>4
    <3>2. QED
      BY <2>1, <2>4, <3>1
  <2>5. CASE ~First(r) /\ ~Pending(r)
    <3>1. host' = host \ {h}
      BY <2>2, <2>5
    <3>2. QED
      BY <2>5, <3>1
  <2>6. QED
    BY <2>3, <2>4, <2>5
<1>4. QED
  BY <1>1, <1>2, <1>3

\* Only a command of the network is written to the store.
LEMMA LookupSame ==
    ASSUME IInv, [Next]_vars, ~\E c \in Commands : NetCommand(c)
    PROVE  cmdlookup' = cmdlookup /\ taken' = taken
<1> USE DEF lookups, hostVars, respVars, retryVars, netVars
<1>1. ASSUME NEW t \in Tags, Host(t)
      PROVE  cmdlookup' = cmdlookup /\ taken' = taken
  BY <1>1 DEF Host, HostReads, HostReadsHalf, HostWrites, HostFails, HostTranslated, Answers
<1>2. Ingress \/ CmdFifoLoad \/ RtyEng \/ UNCHANGED vars => cmdlookup' = cmdlookup /\ taken' = taken
  BY DEF Ingress, EnableIngress, NetData, RtyCommand, RtyData, CmdFifoLoad, vars,
         RtyEng, ToJail, Reissue, ReleaseJail, MoveData, ReleaseData
<1>3. RespEng => cmdlookup' = cmdlookup /\ taken' = taken
  BY DEF RespEng, LoadTags, RetryResponse, DataResponse, NoDataResponse, DropResponse, PassData,
         ReplayData, ToNetwork
<1>4. QED
  BY <1>1, <1>2, <1>3 DEF Next

\* NetCommand stores its command for a tag that is free, and no other action writes
\* cmdlookup: a command keeps its tag.
LEMMA OneTagStep ==
    ASSUME IInv, [Next]_vars
    PROVE  OneTag'
<1>0. TypeOK /\ OneTag
  BY DEF IInv
<1>1. CASE \E c \in Commands : NetCommand(c)
  <2>1. PICK c \in Commands : NetCommand(c)
    BY <1>1
  <2>2. /\ Head(capptag) \in Tags /\ \A u \in Tags : cmdlookup[u] # c
        /\ cmdlookup' = [cmdlookup EXCEPT ![Head(capptag)] = c]
    BY <2>1, FreshTag
  <2>3. cmdlookup \in [Tags -> Commands \cup {NoCommand}] /\ taken' = taken \cup {c}
    BY <1>0, <2>1 DEF TypeOK, NetCommand
  <2>4. QED
    BY <1>0, <2>2, <2>3 DEF OneTag
<1>2. CASE ~\E c \in Commands : NetCommand(c)
  <2>1. cmdlookup' = cmdlookup /\ taken' = taken
    BY <1>2, LookupSame
  <2>2. QED
    BY <1>0, <2>1 DEF OneTag
<1>3. QED
  BY <1>1, <1>2

\* Nothing that is under way speaks of the tag for which NetCommand stores a
\* command, and whatever is made from the store is about the command of its tag.
LEMMA OwnStep ==
    ASSUME IInv, [Next]_vars, TypeOK'
    PROVE  OwnCommand'
<1>0. /\ TypeOK /\ TagsConserved /\ OwnCommand /\ InTurn
      /\ combo \in Seq(Joined) /\ tlresp \in Seq(AnyResponse)
      /\ cmdlookup \in [Tags -> Commands \cup {NoCommand}]
  BY DEF IInv, TypeOK
<1> USE DEF lookups, hostVars, respVars, retryVars, netVars
<1>1. ASSUME NEW f \in Held, f.cmd
      PROVE  f.of = cmdlookup[f.tag] /\ Retried(f.tag) /\ f.tag \in Tags
  BY <1>0, <1>1, FlitKinds DEF Held, OwnCommand, Retried
<1>2. ASSUME NEW f \in Held', f.cmd
      PROVE  f.of = cmdlookup'[f.tag]
  <2>1. CASE f \in Held
    <3>1. f.of = cmdlookup[f.tag] /\ Retried(f.tag) /\ f.tag \in Tags
      BY <1>1, <1>2, <2>1
    <3>2. CASE \E c \in Commands : NetCommand(c)
      <4>1. PICK c \in Commands : NetCommand(c)
        BY <3>2
      <4>2. /\ ~Retried(Head(capptag)) /\ cmdlookup' = [cmdlookup EXCEPT ![Head(capptag)] = c]
        BY <4>1, FreshTag
      <4>3. QED
        BY <1>0, <3>1, <4>2
    <3>3. CASE ~\E c \in Commands : NetCommand(c)
      BY <3>1, <3>3, LookupSame
    <3>4. QED
      BY <3>2, <3>3
  <2>2. CASE RetryResponse /\ f = Command(Head(combo).of, Head(combo).resp.tag, Anno(Head(combo).resp))
    <3>1. Head(combo).of = cmdlookup[Head(combo).resp.tag] /\ cmdlookup' = cmdlookup
      BY <2>2, Taken DEF RetryResponse, GetResponse
    <3>2. QED
      BY <2>2, <3>1 DEF Command
  <2>3. QED
    BY <1>2, <2>1, <2>2, HeldAfter
<1>3. \A s \in {rtyfifo, jail, out}' : \A i \in DOMAIN s : s[i].cmd => s[i].of = cmdlookup'[s[i].tag]
  BY <1>2, HeldNext
<1>4. ASSUME NEW i \in DOMAIN combo'
      PROVE  combo'[i].of = cmdlookup'[combo'[i].resp.tag]
  <2>1. ASSUME combo' = combo, cmdlookup' = cmdlookup
        PROVE  combo'[i].of = cmdlookup'[combo'[i].resp.tag]
    BY <1>0, <1>4, <2>1 DEF OwnCommand
  <2>2. ASSUME NEW c \in Commands, NetCommand(c)
        PROVE  combo'[i].of = cmdlookup'[combo'[i].resp.tag]
    <3>1. /\ \A j \in DOMAIN Coming : Coming[j].tag # Head(capptag)
          /\ cmdlookup' = [cmdlookup EXCEPT ![Head(capptag)] = c] /\ combo' = combo
      BY <2>2, FreshTag, Zenon DEF NetCommand
    <3>2. combo[i].resp.tag # Head(capptag) /\ combo[i].resp.tag \in Tags
      BY <1>0, <1>4, <3>1, ComingIs DEF Joined, AnyResponse
    <3>3. QED
      BY <1>0, <1>4, <3>1, <3>2 DEF OwnCommand
  <2>3. CASE CmdFifoLoad
    <3>1. /\ combo' = Append(combo, Combo(Head(tlresp))) /\ cmdlookup' = cmdlookup
      BY <2>3 DEF CmdFifoLoad
    <3>2. /\ DOMAIN combo' = 1..Len(combo) + 1 /\ DOMAIN combo = 1..Len(combo)
          /\ combo'[Len(combo) + 1] = Combo(Head(tlresp)) /\ Len(combo) \in Nat
          /\ \A j \in 1..Len(combo) : combo'[j] = combo[j]
      BY <1>0, <3>1, LenProperties
    <3>3. QED
      BY <1>0, <1>4, <3>1, <3>2 DEF OwnCommand, Combo
  <2>4. ASSUME NEW state, GetResponse(state), cmdlookup' = cmdlookup
        PROVE  combo'[i].of = cmdlookup'[combo'[i].resp.tag]
    <3>1. combo # <<>> /\ combo' = Tail(combo)
      BY <2>4 DEF GetResponse
    <3>2. \E j \in DOMAIN combo : combo'[i] = combo[j]
      BY <1>0, <1>4, <3>1, InTail
    <3>3. QED
      BY <1>0, <2>4, <3>2 DEF OwnCommand
  <2>5. ASSUME NEW t \in Tags, Host(t)
        PROVE  combo' = combo /\ cmdlookup' = cmdlookup
    BY <2>5 DEF Host, HostReads, HostReadsHalf, HostWrites, HostFails, HostTranslated, Answers
  <2>6. Ingress \/ RtyEng \/ LoadTags \/ PassData \/ ReplayData \/ UNCHANGED vars
           => combo' = combo /\ cmdlookup' = cmdlookup
    BY DEF Ingress, EnableIngress, NetData, RtyCommand, RtyData, LoadTags, PassData, ReplayData, vars,
           RtyEng, ToJail, Reissue, ReleaseJail, MoveData, ReleaseData
  <2>7. RetryResponse \/ DataResponse \/ NoDataResponse \/ DropResponse
           => cmdlookup' = cmdlookup /\ \E state : GetResponse(state)
    BY DEF RetryResponse, DataResponse, NoDataResponse, DropResponse
  <2>8. QED
    BY <2>1, <2>2, <2>3, <2>4, <2>5, <2>6, <2>7 DEF Next, RespEng
<1>5. ASSUME NEW h \in host'
      PROVE  cmdlookup'[h.tag] = h.of
  <2>1. ASSUME host' = host, cmdlookup' = cmdlookup
        PROVE  cmdlookup'[h.tag] = h.of
    BY <1>0, <1>5, <2>1 DEF OwnCommand
  <2>2. ASSUME NEW c \in Commands, NetCommand(c)
        PROVE  cmdlookup'[h.tag] = h.of
    <3>1. /\ ~HostHas(Head(capptag)) /\ Head(capptag) \in Tags
          /\ cmdlookup' = [cmdlookup EXCEPT ![Head(capptag)] = c] /\ Issue(c, Head(capptag))
      BY <2>2, FreshTag, Zenon DEF NetCommand
    <3>2. CASE h \in host
      <4>1. h.tag \in Tags /\ h.tag # Head(capptag)
        BY <1>0, <3>1, <3>2 DEF HostHas, TypeOK, Hosted
      <4>2. QED
        BY <1>0, <3>1, <3>2, <4>1 DEF OwnCommand
    <3>3. CASE h.of = c /\ h.tag = Head(capptag)
      BY <1>0, <3>1, <3>3
    <3>4. QED
      BY <1>0, <1>5, <3>1, <3>2, <3>3, HostAfter
  <2>3. CASE NetData \/ RtyData
    <3>1. cmdlookup' = cmdlookup /\ \E d : IssueData(d)
      BY <2>3 DEF NetData, RtyData
    <3>2. \E g \in host : h.of = g.of /\ h.tag = g.tag
      BY <1>0, <1>5, <3>1, HostAfter
    <3>3. QED
      BY <1>0, <3>1, <3>2 DEF OwnCommand
  <2>4. CASE RtyCommand
    <3>1. /\ cmdlookup' = cmdlookup /\ Issue(Head(out).of, Head(out).tag)
          /\ out # <<>> /\ ing.dflit = 0 /\ ing.st = "RECEIVE_CMD"
      BY <2>4 DEF RtyCommand, IInv, Machines
    <3>2. Head(out).of = cmdlookup[Head(out).tag]
      BY <3>1, Heads DEF InStep
    <3>3. QED
      BY <1>0, <1>5, <3>1, <3>2, HostAfter DEF OwnCommand
  <2>5. ASSUME NEW t \in Tags, Host(t)
        PROVE  cmdlookup'[h.tag] = h.of
    <3>1. PICK g \in host, r \in AnyResponse, data \in Seq(DataFlits) : Says(g, r, data)
      BY <2>5, HostSays
    <3>2. cmdlookup' = cmdlookup
      BY <3>1 DEF Says
    <3>3. h \in host \/ (h.of = g.of /\ h.tag = g.tag)
      BY <1>0, <1>5, <3>1, HostAfter
    <3>4. QED
      BY <1>0, <3>2, <3>3 DEF OwnCommand
  <2>6. EnableIngress \/ RtyEng \/ CmdFifoLoad \/ UNCHANGED vars
           => host' = host /\ cmdlookup' = cmdlookup
    BY DEF EnableIngress, CmdFifoLoad, vars, RtyEng, ToJail, Reissue, ReleaseJail, MoveData, ReleaseData
  <2>7. RespEng => cmdlookup' = cmdlookup /\ host' = host
    BY DEF RespEng, LoadTags, RetryResponse, DataResponse, NoDataResponse, DropResponse, PassData, ReplayData
  <2>8. QED
    BY <2>1, <2>2, <2>3, <2>4, <2>5, <2>6, <2>7 DEF Next, Ingress
<1>6. QED
  BY <1>3, <1>4, <1>5 DEF OwnCommand

\* What the engine is about to pass after a step.
LEMMA PassingAfter ==
    ASSUME IInv, [Next]_vars, Passing'
    PROVE  \/ Passing /\ eng'.tag = eng.tag /\ eng'.keep = eng.keep
              /\ \/ UNCHANGED <<eng, tldata, got, last>> 
                 \/ \E t \in Tags : Host(t)
                 \/ PassData /\ eng.cdata # 1 /\ eng'.cdata = eng.cdata - 1
           \/ DataResponse
<1>0. TypeOK
  BY DEF IInv
<1> USE DEF lookups, hostVars, respVars, retryVars, netVars
<1>1. UNCHANGED eng => Passing /\ eng'.tag = eng.tag /\ eng'.keep = eng.keep
  BY DEF Passing
<1>2. PassData => /\ Passing /\ eng'.tag = eng.tag /\ eng'.keep = eng.keep
                  /\ eng.cdata # 1 /\ eng'.cdata = eng.cdata - 1
  BY <1>0, EngAfter DEF PassData, Passing
<1>3. ~LoadTags /\ ~NoDataResponse /\ ~DropResponse /\ ~ReplayData
  BY <1>0, EngAfter DEF Passing
<1>4. ~RetryResponse
  BY <1>0, EngAfter DEF Passing
<1>5. ASSUME NEW t \in Tags, Host(t)
      PROVE  UNCHANGED eng
  BY <1>5 DEF Host, HostReads, HostReadsHalf, HostWrites, HostFails, HostTranslated, Answers
<1>6. ASSUME NEW c \in Commands, NetCommand(c)
      PROVE  UNCHANGED <<eng, tldata, got, last>>
  BY <1>6 DEF NetCommand
<1>7. Ingress \/ CmdFifoLoad \/ RtyEng \/ UNCHANGED vars => UNCHANGED <<eng, tldata, got, last>>
  BY DEF Ingress, EnableIngress, NetData, RtyCommand, RtyData, CmdFifoLoad, vars,
         RtyEng, ToJail, Reissue, ReleaseJail, MoveData, ReleaseData
<1>8. \/ \E c \in Commands : NetCommand(c)
      \/ Ingress \/ CmdFifoLoad \/ RtyEng \/ UNCHANGED vars
      \/ DataResponse \/ PassData
      \/ \E t \in Tags : Host(t)
  BY <1>3, <1>4 DEF Next, RespEng
<1>9. QED
  BY <1>1, <1>2, <1>5, <1>6, <1>7, <1>8

\* The host answers a command once, but for the two halves of a read and a
\* translation, and the responses keep their order; so what is said of a tag last is
\* said when the host is done with it.
LEMMA TurnStep ==
    ASSUME IInv, [Next]_vars, TypeOK'
    PROVE  InTurn'
<1>0. /\ TypeOK /\ Machines /\ TagsConserved /\ OwnCommand /\ InTurn
      /\ cmdlookup \in [Tags -> Commands \cup {NoCommand}]
  BY DEF IInv, TypeOK
<1> DEFINE n == Len(Coming)
<1>1. /\ n \in Nat /\ DOMAIN Coming = 1..n
      /\ UNCHANGED <<combo, tlresp>> => Coming' = Coming
      /\ CmdFifoLoad => Coming' = Coming
      /\ \A r \in AnyResponse : UNCHANGED combo /\ tlresp' = Append(tlresp, r) =>
            /\ DOMAIN Coming' = 1..n + 1
            /\ \A i \in 1..n : Coming'[i] = Coming[i]
            /\ Coming'[n + 1] = r
      /\ combo # <<>> /\ combo' = Tail(combo) /\ tlresp' = tlresp =>
            /\ n > 0
            /\ DOMAIN Coming' = 1..n - 1
            /\ \A i \in 1..n - 1 : Coming'[i] = Coming[i + 1]
  BY <1>0, ComingAfter, Zenon
<1> HIDE DEF n
<1>2. /\ \A i \in 1..n : Fitting(Coming[i], Of(Coming[i])) /\ Coming[i] \in AnyResponse
      /\ \A i, j \in 1..n : i < j /\ Coming[i].tag = Coming[j].tag =>
            \/ First(Coming[i]) /\ Second(Coming[j])
            \/ Pending(Coming[i]) /\ Coming[j].op = XLATE_DONE
      /\ \A i \in 1..n : \A h \in host : h.tag = Coming[i].tag =>
            \/ First(Coming[i]) /\ h.st = "half"
            \/ Pending(Coming[i]) /\ h.st = "translating"
      /\ \A i \in 1..n : First(Coming[i]) \/ Pending(Coming[i]) =>
            \/ \E h \in host : h.tag = Coming[i].tag
            \/ \E j \in 1..n : j > i /\ Coming[j].tag = Coming[i].tag
      /\ Passing => /\ \A i \in 1..n : Coming[i].tag = eng.tag => Second(Coming[i])
                    /\ \A h \in host : h.tag = eng.tag => h.st = "half"
                    /\ eng.keep => \/ \E h \in host : h.tag = eng.tag
                                   \/ \E j \in 1..n : Coming[j].tag = eng.tag
  BY <1>0, <1>1, ComingIs, LenProperties, ZenonT(60) DEF InTurn
<1>3. ASSUME \A i \in DOMAIN Coming' : cmdlookup'[Coming'[i].tag] = cmdlookup[Coming'[i].tag],
             \A i \in DOMAIN Coming' : Fitting(Coming'[i], Of(Coming'[i])),
             \A i, j \in DOMAIN Coming' : i < j /\ Coming'[i].tag = Coming'[j].tag =>
                \/ First(Coming'[i]) /\ Second(Coming'[j])
                \/ Pending(Coming'[i]) /\ Coming'[j].op = XLATE_DONE,
             \A i \in DOMAIN Coming' : \A h \in host' : h.tag = Coming'[i].tag =>
                \/ First(Coming'[i]) /\ h.st = "half"
                \/ Pending(Coming'[i]) /\ h.st = "translating",
             \A i \in DOMAIN Coming' : First(Coming'[i]) \/ Pending(Coming'[i]) =>
                \/ \E h \in host' : h.tag = Coming'[i].tag
                \/ \E j \in DOMAIN Coming' : j > i /\ Coming'[j].tag = Coming'[i].tag,
             Passing' => /\ \A i \in DOMAIN Coming' : Coming'[i].tag = eng'.tag => Second(Coming'[i])
                         /\ \A h \in host' : h.tag = eng'.tag => h.st = "half"
                         /\ eng'.keep => \/ \E h \in host' : h.tag = eng'.tag
                                         \/ \E j \in DOMAIN Coming' : Coming'[j].tag = eng'.tag
      PROVE  InTurn'
  BY <1>3 DEF InTurn, First, Second, Pending, Of, Fitting
<1> USE DEF lookups, hostVars, respVars, retryVars, netVars
<1>4. \A i \in 1..n : Second(Coming[i]) \/ Coming[i].op = XLATE_DONE => ~First(Coming[i]) /\ ~Pending(Coming[i])
  BY <1>2 DEF Fitting, First, Second, Pending, RD_OK, RD_FAIL, WR_OK, WR_FAIL, XLATE_DONE, PEND
\* A tag that is free or that a command in the retry path has.
<1>5. ASSUME NEW t \in Tags, Coming' = Coming, ~HostHas(t),
             \A i \in DOMAIN Coming : Coming[i].tag # t, ~(Passing /\ eng.tag = t),
             eng' = eng, NEW c, Issue(c, t), NEW d, cmdlookup' \in {cmdlookup, [cmdlookup EXCEPT ![t] = d]}
      PROVE  InTurn'
  <2>1. \A i \in 1..n : Coming[i].tag \in Tags /\ Coming[i].tag # t
    BY <1>1, <1>2, <1>5 DEF AnyResponse
  <2>2. \A i \in 1..n : cmdlookup'[Coming[i].tag] = cmdlookup[Coming[i].tag]
    BY <1>0, <1>5, <2>1
  <2>3. \A h \in host' : h \in host \/ h.tag = t
    BY <1>0, <1>5, HostAfter
  <2>4. host \subseteq host'
    BY <1>0, <1>5, HostAfter
  <2>5. Passing' = Passing
    BY <1>5 DEF Passing
  <2>6. /\ \A i \in DOMAIN Coming' : Fitting(Coming'[i], Of(Coming'[i]))
        /\ \A i, j \in DOMAIN Coming' : i < j /\ Coming'[i].tag = Coming'[j].tag =>
              \/ First(Coming'[i]) /\ Second(Coming'[j])
              \/ Pending(Coming'[i]) /\ Coming'[j].op = XLATE_DONE
    BY <1>1, <1>2, <1>5
  <2>7. \A i \in DOMAIN Coming' : \A h \in host' : h.tag = Coming'[i].tag =>
           \/ First(Coming'[i]) /\ h.st = "half"
           \/ Pending(Coming'[i]) /\ h.st = "translating"
    BY <1>1, <1>2, <1>5, <2>1, <2>3
  <2>8. \A i \in DOMAIN Coming' : First(Coming'[i]) \/ Pending(Coming'[i]) =>
           \/ \E h \in host' : h.tag = Coming'[i].tag
           \/ \E j \in DOMAIN Coming' : j > i /\ Coming'[j].tag = Coming'[i].tag
    BY <1>1, <1>2, <1>5, <2>4, SMTT(30)
  <2>9. Passing' => /\ \A i \in DOMAIN Coming' : Coming'[i].tag = eng'.tag => Second(Coming'[i])
                    /\ \A h \in host' : h.tag = eng'.tag => h.st = "half"
                    /\ eng'.keep => \/ \E h \in host' : h.tag = eng'.tag
                                    \/ \E j \in DOMAIN Coming' : Coming'[j].tag = eng'.tag
    BY <1>1, <1>2, <1>5, <2>3, <2>4, <2>5
  <2>10. \A i \in DOMAIN Coming' : cmdlookup'[Coming'[i].tag] = cmdlookup[Coming'[i].tag]
    BY <1>1, <1>5, <2>2
  <2>11. QED
    BY <1>3, <2>6, <2>7, <2>8, <2>9, <2>10
<1>6. ASSUME NEW c \in Commands, NetCommand(c)
      PROVE  InTurn'
  <2>1. /\ Head(capptag) \in Tags /\ ~HostHas(Head(capptag))
        /\ \A i \in DOMAIN Coming : Coming[i].tag # Head(capptag)
        /\ ~(eng.st = "GET_DATA" /\ eng.tag = Head(capptag))
        /\ cmdlookup' = [cmdlookup EXCEPT ![Head(capptag)] = c]
        /\ Issue(c, Head(capptag)) /\ UNCHANGED <<combo, tlresp, eng>>
    BY <1>6, FreshTag, Zenon DEF NetCommand
  <2>2. Coming' = Coming /\ ~(Passing /\ eng.tag = Head(capptag)) /\ eng' = eng
    BY <1>1, <2>1 DEF Passing
  <2> DEFINE t == Head(capptag)
  <2>3. t \in Tags /\ cmdlookup' \in {cmdlookup, [cmdlookup EXCEPT ![t] = c]}
    BY <2>1
  <2>4. ~HostHas(t) /\ (\A i \in DOMAIN Coming : Coming[i].tag # t) /\ ~(Passing /\ eng.tag = t) /\ Issue(c, t)
    BY <2>1, <2>2
  <2> HIDE DEF t
  <2>5. QED
    BY <1>5, <2>2, <2>3, <2>4
<1>7. CASE RtyCommand
  <2>1. /\ Issue(Head(out).of, Head(out).tag) /\ out # <<>> /\ ing.dflit = 0 /\ ing.st = "RECEIVE_CMD"
        /\ UNCHANGED <<cmdlookup, combo, tlresp, eng>>
    BY <1>0, <1>7 DEF RtyCommand, Machines
  <2>2. Retried(Head(out).tag) /\ Head(out).tag \in Tags
    BY <2>1, Heads, FlitKinds DEF InStep
  <2>3. /\ \A i \in DOMAIN Coming : Coming[i].tag # Head(out).tag
        /\ ~HostHas(Head(out).tag) /\ ~(Passing /\ eng.tag = Head(out).tag)
    BY <1>0, <2>2, Quiet
  <2>4. Coming' = Coming
    BY <1>1, <2>1
  <2>5. QED
    BY <1>5, <2>1, <2>2, <2>3, <2>4
<1>8. ASSUME Coming' = Coming, UNCHANGED cmdlookup, Passing' => Passing /\ eng'.tag = eng.tag /\ eng'.keep = eng.keep,
             \A h \in host' : \E g \in host : h.tag = g.tag /\ h.st = g.st,
             \A g \in host : \E h \in host' : h.tag = g.tag /\ h.st = g.st
      PROVE  InTurn'
  <2>1. /\ \A i \in DOMAIN Coming' : Fitting(Coming'[i], Of(Coming'[i]))
        /\ \A i, j \in DOMAIN Coming' : i < j /\ Coming'[i].tag = Coming'[j].tag =>
              \/ First(Coming'[i]) /\ Second(Coming'[j])
              \/ Pending(Coming'[i]) /\ Coming'[j].op = XLATE_DONE
    BY <1>1, <1>2, <1>8
  <2>2. \A i \in DOMAIN Coming' : \A h \in host' : h.tag = Coming'[i].tag =>
           \/ First(Coming'[i]) /\ h.st = "half"
           \/ Pending(Coming'[i]) /\ h.st = "translating"
    <3> SUFFICES ASSUME NEW i \in 1..n, NEW h \in host', h.tag = Coming[i].tag
                 PROVE  \/ First(Coming[i]) /\ h.st = "half"
                        \/ Pending(Coming[i]) /\ h.st = "translating"
      BY <1>1, <1>8
    <3>1. PICK g \in host : h.tag = g.tag /\ h.st = g.st
      BY <1>8
    <3>2. QED
      BY <1>2, <3>1, ZenonT(60)
  <2>3. \A i \in DOMAIN Coming' : First(Coming'[i]) \/ Pending(Coming'[i]) =>
           \/ \E h \in host' : h.tag = Coming'[i].tag
           \/ \E j \in DOMAIN Coming' : j > i /\ Coming'[j].tag = Coming'[i].tag
    BY <1>1, <1>2, <1>8, SMTT(30)
  <2>4. Passing' => /\ \A i \in DOMAIN Coming' : Coming'[i].tag = eng'.tag => Second(Coming'[i])
                    /\ \A h \in host' : h.tag = eng'.tag => h.st = "half"
                    /\ eng'.keep => \/ \E h \in host' : h.tag = eng'.tag
                                    \/ \E j \in DOMAIN Coming' : Coming'[j].tag = eng'.tag
    <3> SUFFICES ASSUME Passing'
                 PROVE  /\ \A i \in DOMAIN Coming' : Coming'[i].tag = eng'.tag => Second(Coming'[i])
                        /\ \A h \in host' : h.tag = eng'.tag => h.st = "half"
                        /\ eng'.keep => \/ \E h \in host' : h.tag = eng'.tag
                                        \/ \E j \in DOMAIN Coming' : Coming'[j].tag = eng'.tag
      OBVIOUS
    <3>1. Passing /\ eng'.tag = eng.tag /\ eng'.keep = eng.keep
      BY <1>8
    <3>2. \A i \in DOMAIN Coming' : Coming'[i].tag = eng'.tag => Second(Coming'[i])
      BY <1>1, <1>2, <1>8, <3>1
    <3>3. \A h \in host' : h.tag = eng'.tag => h.st = "half"
      BY <1>2, <1>8, <3>1
    <3>4. eng'.keep => \/ \E h \in host' : h.tag = eng'.tag
                       \/ \E j \in DOMAIN Coming' : Coming'[j].tag = eng'.tag
      BY <1>1, <1>2, <1>8, <3>1
    <3>5. QED
      BY <3>2, <3>3, <3>4
  <2>5. QED
    BY <1>3, <1>8, <2>1, <2>2, <2>3, <2>4
<1>9. ASSUME NEW t \in Tags, Host(t)
      PROVE  InTurn'
  <2>1. PICK h \in host, r \in AnyResponse, data \in Seq(DataFlits) : Says(h, r, data)
    BY <1>9, HostSays
  <2>2. /\ r.tag = h.tag /\ Fitting(r, h.of) /\ (h.st = "half" <=> Second(r))
        /\ (h.st = "translating" <=> r.op = XLATE_DONE)
        /\ UNCHANGED <<cmdlookup, combo, eng>> /\ tlresp' = Append(tlresp, r)
    BY <2>1 DEF Says
  <2>3. /\ DOMAIN Coming' = 1..n + 1 /\ \A i \in 1..n : Coming'[i] = Coming[i]
        /\ Coming'[n + 1] = r
    BY <1>1, <2>2
  <2>4. /\ \A k \in host' : \/ k \in host /\ k # h
                            \/ /\ k.tag = h.tag
                               /\ \/ First(r) /\ k.st = "half"
                                  \/ Pending(r) /\ k.st = "translating"
        /\ \A g \in host : g # h => g \in host'
        /\ First(r) \/ Pending(r) => \E k \in host' : k.tag = h.tag
    BY <1>0, <2>1, HostAfter
  <2>5. h.tag \in Tags /\ Of(r) = h.of
    BY <1>0, <2>2 DEF TypeOK, Hosted, OwnCommand, Of
  <2>6. \A g \in host : g.tag = h.tag => g = h
    BY <1>0, <2>5, OnePlace
  <2>7. Second(r) \/ r.op = XLATE_DONE => ~First(r) /\ ~Pending(r)
    BY <2>2 DEF Fitting, First, Second, Pending, RD_OK, RD_FAIL, WR_OK, WR_FAIL, XLATE_DONE, PEND
  <2>8. \A i \in DOMAIN Coming' : Fitting(Coming'[i], Of(Coming'[i]))
    <3>1. \A i \in 1..n + 1 : i \in 1..n \/ i = n + 1
      BY <1>1
    <3>2. QED
      BY <1>2, <2>2, <2>3, <2>5, <3>1
  <2>9. \A i, j \in DOMAIN Coming' : i < j /\ Coming'[i].tag = Coming'[j].tag =>
           \/ First(Coming'[i]) /\ Second(Coming'[j])
           \/ Pending(Coming'[i]) /\ Coming'[j].op = XLATE_DONE
    <3> SUFFICES ASSUME NEW i \in 1..n + 1, NEW j \in 1..n + 1, i < j, Coming'[i].tag = Coming'[j].tag
                 PROVE  \/ First(Coming'[i]) /\ Second(Coming'[j])
                        \/ Pending(Coming'[i]) /\ Coming'[j].op = XLATE_DONE
      BY <2>3
    <3>1. i \in 1..n /\ Coming'[i] = Coming[i]
      BY <1>1, <2>3
    <3>2. CASE j \in 1..n
      BY <1>2, <2>3, <3>1, <3>2
    <3>3. CASE j = n + 1
      <4>1. Coming'[j] = r /\ Coming[i].tag = h.tag
        BY <2>2, <2>3, <3>1, <3>3
      <4>2. \/ First(Coming[i]) /\ h.st = "half"
            \/ Pending(Coming[i]) /\ h.st = "translating"
        BY <1>2, <3>1, <4>1
      <4>3. QED
        BY <2>2, <3>1, <4>1, <4>2
    <3>4. QED
      BY <1>1, <3>2, <3>3
  <2>10. \A i \in DOMAIN Coming' : \A k \in host' : k.tag = Coming'[i].tag =>
            \/ First(Coming'[i]) /\ k.st = "half"
            \/ Pending(Coming'[i]) /\ k.st = "translating"
    <3> SUFFICES ASSUME NEW i \in 1..n + 1, NEW k \in host', k.tag = Coming'[i].tag
                 PROVE  \/ First(Coming'[i]) /\ k.st = "half"
                        \/ Pending(Coming'[i]) /\ k.st = "translating"
      BY <2>3
    <3>1. CASE i \in 1..n
      <4>1. CASE k \in host
        BY <1>2, <2>3, <3>1, <4>1
      <4>2. CASE k \notin host
        <5>1. Coming[i].tag = h.tag /\ (First(r) \/ Pending(r))
          BY <2>3, <2>4, <3>1, <4>2
        <5>2. h.st = "half" \/ h.st = "translating"
          BY <1>2, <3>1, <5>1
        <5>3. QED
          BY <2>2, <2>7, <5>1, <5>2
      <4>3. QED
        BY <4>1, <4>2
    <3>2. CASE i = n + 1
      <4>1. Coming'[i] = r /\ k.tag = h.tag
        BY <2>2, <2>3, <3>2
      <4>2. ~(k \in host /\ k # h)
        BY <2>6, <4>1
      <4>3. QED
        BY <2>4, <4>1, <4>2
    <3>3. QED
      BY <1>1, <3>1, <3>2
  <2>11. \A i \in DOMAIN Coming' : First(Coming'[i]) \/ Pending(Coming'[i]) =>
            \/ \E k \in host' : k.tag = Coming'[i].tag
            \/ \E j \in DOMAIN Coming' : j > i /\ Coming'[j].tag = Coming'[i].tag
    <3> SUFFICES ASSUME NEW i \in 1..n + 1, First(Coming'[i]) \/ Pending(Coming'[i])
                 PROVE  \/ \E k \in host' : k.tag = Coming'[i].tag
                        \/ \E j \in 1..n + 1 : j > i /\ Coming'[j].tag = Coming'[i].tag
      BY <2>3
    <3>1. CASE i = n + 1
      BY <2>2, <2>3, <2>4, <3>1
    <3>2. CASE i \in 1..n
      <4>1. \/ \E g \in host : g.tag = Coming[i].tag
            \/ \E j \in 1..n : j > i /\ Coming[j].tag = Coming[i].tag
        BY <1>2, <2>3, <3>2
      <4>2. CASE \E j \in 1..n : j > i /\ Coming[j].tag = Coming[i].tag
        <5>1. PICK j \in 1..n : j > i /\ Coming[j].tag = Coming[i].tag
          BY <4>2
        <5>2. j \in 1..n + 1 /\ Coming'[j] = Coming[j] /\ Coming'[i] = Coming[i]
          BY <1>1, <2>3, <3>2
        <5>3. QED
          BY <5>1, <5>2
      <4>3. ASSUME NEW g \in host, g.tag = Coming[i].tag
            PROVE  \/ \E k \in host' : k.tag = Coming'[i].tag
                   \/ \E j \in 1..n + 1 : j > i /\ Coming'[j].tag = Coming'[i].tag
        <5>1. CASE g = h
          <6>1. n + 1 > i /\ n + 1 \in 1..n + 1 /\ Coming'[n + 1].tag = Coming'[i].tag
            BY <1>1, <2>2, <2>3, <3>2, <4>3, <5>1
          <6>2. QED
            BY <6>1
        <5>2. CASE g # h
          BY <2>3, <2>4, <3>2, <4>3, <5>2
        <5>3. QED
          BY <5>1, <5>2
      <4>4. QED
        BY <4>1, <4>2, <4>3
    <3>3. QED
      BY <1>1, <3>1, <3>2
  <2>12. Passing' => /\ \A i \in DOMAIN Coming' : Coming'[i].tag = eng'.tag => Second(Coming'[i])
                     /\ \A k \in host' : k.tag = eng'.tag => k.st = "half"
                     /\ eng'.keep => \/ \E k \in host' : k.tag = eng'.tag
                                     \/ \E j \in DOMAIN Coming' : Coming'[j].tag = eng'.tag
    <3> SUFFICES ASSUME Passing
                 PROVE  /\ \A i \in 1..n + 1 : Coming'[i].tag = eng.tag => Second(Coming'[i])
                        /\ \A k \in host' : k.tag = eng.tag => k.st = "half"
                        /\ eng.keep => \/ \E k \in host' : k.tag = eng.tag
                                       \/ \E j \in 1..n + 1 : Coming'[j].tag = eng.tag
      BY <2>2, <2>3 DEF Passing
    <3>1. \A i \in 1..n + 1 : Coming'[i].tag = eng.tag => Second(Coming'[i])
      <4>1. \A i \in 1..n + 1 : i \in 1..n \/ i = n + 1
        BY <1>1
      <4>2. QED
        BY <1>2, <2>2, <2>3, <4>1
    <3>2. \A k \in host' : k.tag = eng.tag => k.st = "half"
      BY <1>2, <2>2, <2>4, <2>7
    <3>3. eng.keep => \/ \E k \in host' : k.tag = eng.tag
                      \/ \E j \in 1..n + 1 : Coming'[j].tag = eng.tag
      <4>1. ASSUME NEW g \in host, g.tag = eng.tag
            PROVE  \/ \E k \in host' : k.tag = eng.tag
                   \/ \E j \in 1..n + 1 : Coming'[j].tag = eng.tag
        <5>1. CASE g = h
          <6>1. n + 1 \in 1..n + 1 /\ Coming'[n + 1].tag = eng.tag
            BY <1>1, <2>2, <2>3, <4>1, <5>1
          <6>2. QED
            BY <6>1
        <5>2. CASE g # h
          BY <2>4, <4>1, <5>2
        <5>3. QED
          BY <5>1, <5>2
      <4>2. ASSUME NEW j \in 1..n, Coming[j].tag = eng.tag
            PROVE  j \in 1..n + 1 /\ Coming'[j].tag = eng.tag
        BY <1>1, <2>3, <4>2
      <4>3. QED
        BY <1>2, <4>1, <4>2
    <3>4. QED
      BY <3>1, <3>2, <3>3
  <2>13. QED
    BY <1>3, <2>2, <2>8, <2>9, <2>10, <2>11, <2>12
<1>10. ASSUME NEW state, GetResponse(state), UNCHANGED <<cmdlookup, tlresp, host>>,
              Passing' => DataResponse
       PROVE  InTurn'
  <2>1. combo # <<>> /\ combo' = Tail(combo) /\ eng.st = "GET_CMD" /\ RespState(Head(combo).resp) = state
    BY <1>10 DEF GetResponse
  <2>2. /\ n > 0 /\ DOMAIN Coming' = 1..n - 1 /\ \A i \in 1..n - 1 : Coming'[i] = Coming[i + 1]
    BY <1>1, <1>10, <2>1
  <2>3. \A i \in 1..n - 1 : i + 1 \in 1..n /\ i + 1 > 1
    BY <1>1
  <2>4. \A i \in DOMAIN Coming' : Fitting(Coming'[i], Of(Coming'[i]))
    BY <1>2, <2>2, <2>3
  <2>5. \A i, j \in DOMAIN Coming' : i < j /\ Coming'[i].tag = Coming'[j].tag =>
           \/ First(Coming'[i]) /\ Second(Coming'[j])
           \/ Pending(Coming'[i]) /\ Coming'[j].op = XLATE_DONE
    <3> SUFFICES ASSUME NEW i \in 1..n - 1, NEW j \in 1..n - 1, i < j, Coming'[i].tag = Coming'[j].tag
                 PROVE  \/ First(Coming'[i]) /\ Second(Coming'[j])
                        \/ Pending(Coming'[i]) /\ Coming'[j].op = XLATE_DONE
      BY <2>2
    <3>1. /\ i + 1 \in 1..n /\ j + 1 \in 1..n /\ i + 1 < j + 1
          /\ Coming'[i] = Coming[i + 1] /\ Coming'[j] = Coming[j + 1]
      BY <1>1, <2>2, <2>3
    <3>2. QED
      BY <1>2, <3>1
  <2>6. \A i \in DOMAIN Coming' : \A h \in host' : h.tag = Coming'[i].tag =>
           \/ First(Coming'[i]) /\ h.st = "half"
           \/ Pending(Coming'[i]) /\ h.st = "translating"
    BY <1>2, <1>10, <2>2, <2>3
  <2>7. \A i \in DOMAIN Coming' : First(Coming'[i]) \/ Pending(Coming'[i]) =>
           \/ \E h \in host' : h.tag = Coming'[i].tag
           \/ \E j \in DOMAIN Coming' : j > i /\ Coming'[j].tag = Coming'[i].tag
    <3> SUFFICES ASSUME NEW i \in 1..n - 1, First(Coming'[i]) \/ Pending(Coming'[i]),
                        ~\E h \in host : h.tag = Coming'[i].tag
                 PROVE  \E j \in 1..n - 1 : j > i /\ Coming'[j].tag = Coming'[i].tag
      BY <1>10, <2>2
    <3>1. PICK j \in 1..n : j > i + 1 /\ Coming[j].tag = Coming[i + 1].tag
      BY <1>2, <2>2, <2>3
    <3>2. j - 1 \in 1..n - 1 /\ j - 1 > i /\ Coming'[j - 1] = Coming[(j - 1) + 1] /\ (j - 1) + 1 = j
      BY <1>1, <2>2, <3>1
    <3>3. QED
      BY <2>2, <3>1, <3>2
  <2>8. Passing' => /\ \A i \in DOMAIN Coming' : Coming'[i].tag = eng'.tag => Second(Coming'[i])
                    /\ \A h \in host' : h.tag = eng'.tag => h.st = "half"
                    /\ eng'.keep => \/ \E h \in host' : h.tag = eng'.tag
                                    \/ \E j \in DOMAIN Coming' : Coming'[j].tag = eng'.tag
    <3> SUFFICES ASSUME DataResponse
                 PROVE  /\ \A i \in 1..n - 1 : Coming'[i].tag = eng'.tag => Second(Coming'[i])
                        /\ \A h \in host : h.tag = eng'.tag => h.st = "half"
                        /\ eng'.keep => \/ \E h \in host : h.tag = eng'.tag
                                        \/ \E j \in 1..n - 1 : Coming'[j].tag = eng'.tag
      BY <1>10, <2>2
    <3> DEFINE x == Coming[1]
    <3>1. /\ 1 \in 1..n /\ x = Head(combo).resp /\ Head(combo).of = Of(x) /\ Fitting(x, Of(x))
          /\ x \in AnyResponse
      BY <1>1, <2>1, Taken
    <3>2. RespState(x) = "data"
      BY <3>1 DEF DataResponse, GetResponse
    <3>3. x.op = RD_OK
      BY <3>1, <3>2, StateOf
    <3>4. ~Pending(x)
      BY <3>1, <3>3 DEF Pending, Fitting, PEND, RD_OK, RD_FAIL, WR_FAIL
    <3>5. eng'.tag = x.tag /\ eng'.keep = First(x)
      BY <1>0, <3>1, <3>3, EngAfter DEF First
    <3> HIDE DEF x
    <3>6. \A i \in 1..n - 1 : Coming'[i].tag = eng'.tag => Second(Coming'[i])
      BY <1>2, <2>2, <2>3, <3>1, <3>4, <3>5 DEF x
    <3>7. \A h \in host : h.tag = eng'.tag => h.st = "half"
      BY <1>2, <3>1, <3>4, <3>5 DEF x
    <3>8. ASSUME First(x)
          PROVE  \/ \E h \in host : h.tag = eng'.tag
                 \/ \E j \in 1..n - 1 : Coming'[j].tag = eng'.tag
      <4>1. \/ \E h \in host : h.tag = x.tag
            \/ \E j \in 1..n : j > 1 /\ Coming[j].tag = x.tag
        BY <1>2, <3>1, <3>8 DEF x
      <4>2. ASSUME NEW j \in 1..n, j > 1, Coming[j].tag = x.tag
            PROVE  \E k \in 1..n - 1 : Coming'[k].tag = eng'.tag
        <5>1. j - 1 \in 1..n - 1 /\ (j - 1) + 1 = j
          BY <1>1, <4>2
        <5>2. Coming'[j - 1] = Coming[(j - 1) + 1]
          BY <2>2, <5>1
        <5>3. QED
          BY <3>5, <4>2, <5>1, <5>2
      <4>3. QED
        BY <3>5, <4>1, <4>2
    <3>9. QED
      BY <3>5, <3>6, <3>7, <3>8
  <2>9. QED
    BY <1>3, <1>10, <2>4, <2>5, <2>6, <2>7, <2>8
<1>11. CASE NetData \/ RtyData
  <2>1. UNCHANGED <<cmdlookup, combo, tlresp, eng>> /\ \E d : IssueData(d)
    BY <1>11 DEF NetData, RtyData
  <2>2. /\ \A h \in host' : \E g \in host : h.tag = g.tag /\ h.st = g.st
        /\ \A g \in host : \E h \in host' : h.tag = g.tag /\ h.st = g.st
    BY <1>0, <2>1, HostAfter
  <2>3. Coming' = Coming /\ (Passing' => Passing /\ eng'.tag = eng.tag /\ eng'.keep = eng.keep)
    BY <1>1, <2>1 DEF Passing
  <2>4. QED
    BY <1>8, <2>1, <2>2, <2>3
<1>12. ASSUME UNCHANGED <<cmdlookup, host>>, Coming' = Coming,
              Passing' => Passing /\ eng'.tag = eng.tag /\ eng'.keep = eng.keep
       PROVE  InTurn'
  BY <1>8, <1>12
<1>13. EnableIngress \/ CmdFifoLoad \/ RtyEng \/ UNCHANGED vars =>
          UNCHANGED <<cmdlookup, host, eng>> /\ (UNCHANGED <<combo, tlresp>> \/ CmdFifoLoad)
  BY DEF EnableIngress, CmdFifoLoad, vars, RtyEng, ToJail, Reissue, ReleaseJail, MoveData, ReleaseData
<1>14. LoadTags \/ PassData \/ ReplayData => UNCHANGED <<cmdlookup, host, combo, tlresp>>
  BY DEF LoadTags, PassData, ReplayData
<1>15. ASSUME LoadTags \/ PassData \/ ReplayData, Passing'
       PROVE  Passing /\ eng'.tag = eng.tag /\ eng'.keep = eng.keep
  BY <1>0, <1>15, EngAfter DEF Passing, PassData
<1>16. UNCHANGED eng => (Passing' => Passing /\ eng'.tag = eng.tag /\ eng'.keep = eng.keep)
  BY DEF Passing
<1>17. RetryResponse \/ DataResponse \/ NoDataResponse \/ DropResponse
          => UNCHANGED <<cmdlookup, tlresp, host>> /\ \E state : GetResponse(state)
  BY DEF RetryResponse, DataResponse, NoDataResponse, DropResponse
<1>18. RetryResponse \/ NoDataResponse \/ DropResponse => ~Passing'
  BY <1>0, EngAfter DEF Passing
<1>19. QED
  BY <1>1, <1>6, <1>7, <1>9, <1>10, <1>11, <1>12, <1>13, <1>14, <1>15, <1>16, <1>17, <1>18
     DEF Next, Ingress, RespEng

\* The stores are written by NetData alone, d0 then d1, for the tag of the command
\* that the network sent last.
LEMMA StoresStep ==
    ASSUME IInv, [Next]_vars
    PROVE  Stores'
<1>0. TypeOK /\ Machines /\ Stores
  BY DEF IInv
<1>1. /\ cmdlookup \in [Tags -> Commands \cup {NoCommand}] /\ ing.dflit \in 0..2 /\ ing.dflitRty \in 0..2
      /\ d0lookup \in [Tags -> DataFlits \cup {NoData}] /\ d1lookup \in [Tags -> DataFlits \cup {NoData}]
  BY <1>0, Fields DEF TypeOK
<1> USE DEF lookups, hostVars, respVars, retryVars, netVars
<1>2. ASSUME NEW c \in Commands, NetCommand(c)
      PROVE  Stores'
  <2> DEFINE t == Head(capptag)
  <2>1. /\ t \in Tags /\ ing.dflit = 0 /\ cmdlookup' = [cmdlookup EXCEPT ![t] = c]
        /\ sender' = c /\ UNCHANGED <<d0lookup, d1lookup>>
    BY <1>2, FreshTag, Zenon DEF NetCommand
  <2>2. /\ ing'.tag = t /\ ing'.dflit = (IF c \in Writes THEN 2 ELSE 0)
    BY <1>0, <1>2, IngAfter
  <2> HIDE DEF t
  <2>3. ing'.dflit > 0 => sender' = cmdlookup'[ing'.tag]
    BY <1>1, <2>1, <2>2
  <2>4. ASSUME NEW u \in Tags, cmdlookup'[u] \in Writes
        PROVE  /\ d0lookup'[u] = Data(cmdlookup'[u], 1) \/ (ing'.tag = u /\ ing'.dflit = 2)
               /\ d1lookup'[u] = Data(cmdlookup'[u], 2) \/ (ing'.tag = u /\ ing'.dflit > 0)
    <3>1. CASE u = t
      BY <1>1, <2>1, <2>2, <2>4, <3>1
    <3>2. CASE u # t
      BY <1>0, <1>1, <2>1, <2>4, <3>2 DEF Stores
    <3>3. QED
      BY <3>1, <3>2
  <2>5. QED
    BY <2>3, <2>4 DEF Stores
<1>3. CASE NetData
  <2>1. /\ ing'.tag = ing.tag /\ ing'.dflit = ing.dflit - 1 /\ ing.dflit \in 1..2
        /\ cmdlookup' = cmdlookup /\ sender' = sender
    BY <1>0, <1>1, <1>3, IngAfter DEF NetData
  <2>2. Data(sender, FlitsOf(Dl[sender]) - ing.dflit + 1) = Data(cmdlookup[ing.tag], 3 - ing.dflit)
    BY <2>1, Heads
  <2>3. /\ d0lookup' = IF ing.dflit = 2 THEN [d0lookup EXCEPT ![ing.tag] = Data(cmdlookup[ing.tag], 1)] ELSE d0lookup
        /\ d1lookup' = IF ing.dflit = 1 THEN [d1lookup EXCEPT ![ing.tag] = Data(cmdlookup[ing.tag], 2)] ELSE d1lookup
    <3> DEFINE d == Data(sender, FlitsOf(Dl[sender]) - ing.dflit + 1)
    <3>1. /\ d0lookup' = IF ing.dflit = 2 THEN [d0lookup EXCEPT ![ing.tag] = d] ELSE d0lookup
          /\ d1lookup' = IF ing.dflit = 1 THEN [d1lookup EXCEPT ![ing.tag] = d] ELSE d1lookup
      BY <1>3 DEF NetData
    <3>2. d = Data(cmdlookup[ing.tag], 3 - ing.dflit)
      BY <2>2
    <3> HIDE DEF d
    <3>3. /\ ing.dflit = 2 => d = Data(cmdlookup[ing.tag], 1)
          /\ ing.dflit = 1 => d = Data(cmdlookup[ing.tag], 2)
      BY <3>2
    <3>4. QED
      BY <3>1, <3>3
  <2>4. ing.tag \in Tags
    BY <1>0, <1>1, <2>1 DEF Machines
  <2>5. ASSUME NEW u \in Tags, cmdlookup[u] \in Writes
        PROVE  /\ d0lookup'[u] = Data(cmdlookup[u], 1) \/ (ing.tag = u /\ ing'.dflit = 2)
               /\ d1lookup'[u] = Data(cmdlookup[u], 2) \/ (ing.tag = u /\ ing'.dflit > 0)
    <3>1. /\ d0lookup[u] = Data(cmdlookup[u], 1) \/ (ing.tag = u /\ ing.dflit = 2)
          /\ d1lookup[u] = Data(cmdlookup[u], 2) \/ (ing.tag = u /\ ing.dflit > 0)
      BY <1>0, <2>5 DEF Stores
    <3>2. CASE u = ing.tag
      BY <1>1, <2>1, <2>3, <2>4, <3>1, <3>2
    <3>3. CASE u # ing.tag
      BY <1>1, <2>1, <2>3, <2>4, <3>1, <3>3
    <3>4. QED
      BY <3>2, <3>3
  <2>6. QED
    BY <1>0, <1>1, <2>1, <2>5 DEF Stores
<1>4. CASE RtyCommand
  <2>1. /\ ing'.dflit = ing.dflit /\ ing.dflit = 0 /\ UNCHANGED <<cmdlookup, d0lookup, d1lookup, sender>>
    BY <1>0, <1>4, IngAfter DEF RtyCommand, Machines
  <2>2. QED
    BY <1>0, <2>1 DEF Stores
<1>5. ASSUME UNCHANGED <<cmdlookup, d0lookup, d1lookup, sender>>,
             ing'.tag = ing.tag, ing'.dflit = ing.dflit
      PROVE  Stores'
  BY <1>0, <1>5 DEF Stores
<1>6. CASE EnableIngress \/ RtyData
  <2>1. UNCHANGED <<cmdlookup, d0lookup, d1lookup, sender>>
    BY <1>6 DEF EnableIngress, RtyData
  <2>2. QED
    BY <1>0, <1>5, <1>6, <2>1, IngAfter
<1>7. ASSUME NEW t \in Tags, Host(t)
      PROVE  UNCHANGED <<cmdlookup, d0lookup, d1lookup, sender, ing>>
  BY <1>7 DEF Host, HostReads, HostReadsHalf, HostWrites, HostFails, HostTranslated, Answers
<1>8. CmdFifoLoad \/ RtyEng \/ UNCHANGED vars => UNCHANGED <<cmdlookup, d0lookup, d1lookup, sender, ing>>
  BY DEF CmdFifoLoad, vars, RtyEng, ToJail, Reissue, ReleaseJail, MoveData, ReleaseData
<1>9. RespEng => UNCHANGED <<cmdlookup, d0lookup, d1lookup, sender, ing>>
  BY DEF RespEng, LoadTags, RetryResponse, DataResponse, NoDataResponse, DropResponse, PassData,
         ReplayData, ToNetwork
<1>10. QED
  BY <1>2, <1>3, <1>4, <1>5, <1>6, <1>7, <1>8, <1>9 DEF Next, Ingress

\* The data that reach the host are those of the command that was issued last, in
\* order, whether the network or the retry path brings them.
LEMMA AtHostStep ==
    ASSUME IInv, [Next]_vars
    PROVE  AtHost'
<1>0. TypeOK /\ Machines /\ AtHost /\ OwnCommand /\ TagsConserved /\ InTurn
  BY DEF IInv
<1>1. /\ ing.dflit \in 0..2 /\ ing.dflitRty \in 0..2
      /\ \A h \in host : h.of \in Commands /\ h.tag \in Tags /\ h.data \in Seq(DataFlits)
  BY <1>0, Fields DEF TypeOK, Hosted
<1> USE DEF lookups, hostVars, respVars, retryVars, netVars
\* The ingress has no data to wait for, and issues a command.
<1>2. ASSUME NEW c \in Commands, NEW t \in Tags, Issue(c, t), ~HostHas(t), ing.dflit + ing.dflitRty = 0,
             ing'.tag = t, ing'.dflit + ing'.dflitRty = (IF c \in Writes THEN 2 ELSE 0)
      PROVE  AtHost'
  <2>1. \A h \in host' : \/ h \in host /\ h.tag # t
                         \/ h.of = c /\ h.tag = t /\ h.st = "new" /\ h.data = <<>>
    BY <1>0, <1>2, HostAfter DEF HostHas
  <2>2. \A h \in host' : h \in host => Reached(h)' = Reached(h)
    BY <1>2, <2>1 DEF Reached, HostHas
  <2>3. \A h \in host' : h.tag = t => Reached(h)' = 0
    BY <1>2, <2>1 DEF Reached, HostHas
  <2>4. \A h \in host' : /\ Len(h.data) = Reached(h)'
                         /\ \A k \in 1..Reached(h)' : h.data[k] = Data(h.of, k)
                         /\ h.st = "half" => h.of \in Reads /\ Dl[h.of] = 3
    BY <1>0, <2>1, <2>2, <2>3 DEF AtHost
  <2>5. ing'.dflit + ing'.dflitRty > 0 =>
           \E h \in host' : h.tag = ing'.tag /\ h.of \in Writes /\ h.st = "new"
    BY <1>0, <1>2, HostAfter
  <2>6. QED
    BY <2>4, <2>5 DEF AtHost
<1>3. ASSUME NEW c \in Commands, NetCommand(c)
      PROVE  AtHost'
  <2>1. /\ Head(capptag) \in Tags /\ ~HostHas(Head(capptag)) /\ ing.dflit = 0 /\ ing.dflitRty = 0
        /\ Issue(c, Head(capptag))
    BY <1>3, FreshTag, Zenon DEF NetCommand
  <2>2. /\ ing'.tag = Head(capptag) /\ ing'.dflit + ing'.dflitRty = (IF c \in Writes THEN 2 ELSE 0)
    BY <1>0, <1>3, <2>1, IngAfter
  <2>3. QED
    BY <1>2, <2>1, <2>2
<1>4. CASE RtyCommand
  <2>1. /\ ing.st = "RECEIVE_CMD" /\ out # <<>> /\ ing.dflit = 0 /\ ing.dflitRty = 0
        /\ Issue(Head(out).of, Head(out).tag)
    BY <1>0, <1>4 DEF RtyCommand, Machines
  <2>2. /\ Head(out) \in RetryFlits /\ Head(out).cmd /\ Retried(Head(out).tag)
    BY <2>1, Heads DEF InStep
  <2>3. Head(out).of \in Commands /\ Head(out).tag \in Tags
    BY <2>2, FlitKinds
  <2>4. ~HostHas(Head(out).tag)
    BY <1>0, <2>2, <2>3, OnePlace
  <2>5. ing'.tag = Head(out).tag /\ ing'.dflit + ing'.dflitRty = (IF Head(out).of \in Writes THEN 2 ELSE 0)
    BY <1>0, <1>4, <2>1, IngAfter
  <2>6. QED
    BY <1>2, <2>1, <2>3, <2>4, <2>5
<1>5. CASE NetData \/ RtyData
  <2> DEFINE m == ing.dflit + ing.dflitRty
             d == Data(cmdlookup[ing.tag], 3 - m)
  <2>1. /\ m \in 1..2 /\ ing'.tag = ing.tag /\ ing'.dflit + ing'.dflitRty = m - 1
        /\ IssueData(d)
    <3>1. CASE NetData
      <4>1. ing.dflit > 0 /\ ing.dflitRty = 0 /\ IssueData(Data(sender, FlitsOf(Dl[sender]) - ing.dflit + 1))
        BY <1>0, <1>1, <3>1 DEF NetData, Machines
      <4>2. QED
        BY <1>0, <1>1, <3>1, <4>1, IngAfter, Heads
    <3>2. CASE RtyData
      <4>1. ing.dflitRty > 0 /\ ing.dflit = 0 /\ out # <<>> /\ IssueData(Head(out))
        BY <1>0, <1>1, <3>2 DEF RtyData, Machines
      <4>2. Head(out) = Data(cmdlookup[ing.tag], 3 - ing.dflitRty)
        BY <4>1, Heads DEF IngExpects
      <4>3. QED
        BY <1>0, <1>1, <3>2, <4>1, <4>2, IngAfter
    <3>3. QED
      BY <1>5, <3>1, <3>2
  <2> HIDE DEF m
  <2>2. \A g \in host : g.tag = ing.tag => g.of \in Writes /\ g.of = cmdlookup[ing.tag] /\ g.st = "new"
    BY <1>0, <2>1, HostWaits DEF m, OwnCommand
  <2> HIDE DEF d
  <2>3. ASSUME NEW h \in host'
        PROVE  /\ Len(h.data) = Reached(h)'
               /\ \A k \in 1..Reached(h)' : h.data[k] = Data(h.of, k)
               /\ h.st = "half" => h.of \in Reads /\ Dl[h.of] = 3
    <3>1. PICK g \in host : /\ h.of = g.of /\ h.tag = g.tag /\ h.st = g.st
                            /\ h.data = IF g.tag = ing.tag THEN Append(g.data, d) ELSE g.data
      BY <1>0, <2>1, HostAfter
    <3>2. /\ Len(g.data) = Reached(g) /\ \A k \in 1..Reached(g) : g.data[k] = Data(g.of, k)
          /\ g.st = "half" => g.of \in Reads /\ Dl[g.of] = 3 /\ g.data \in Seq(DataFlits)
      BY <1>0, <1>1 DEF AtHost
    <3>3. CASE g.tag # ing.tag
      <4>1. Reached(h)' = Reached(g) /\ h.data = g.data
        BY <2>1, <3>1, <3>3 DEF Reached
      <4>2. QED
        BY <3>1, <3>2, <4>1
    <3>4. CASE g.tag = ing.tag
      <4>1. Reached(g) = 2 - m /\ Reached(h)' = 3 - m /\ d = Data(g.of, 3 - m)
        BY <2>1, <2>2, <3>1, <3>4 DEF Reached, d, m
      <4>2. d \in DataFlits
        BY <1>1, <2>1, <4>1, FlitTypes
      <4>3. h.data = Append(g.data, d) /\ g.data \in Seq(DataFlits) /\ Len(g.data) = 2 - m
        BY <1>1, <3>1, <3>2, <3>4, <4>1
      <4>4. /\ Len(h.data) = 3 - m /\ h.data[3 - m] = d
            /\ \A k \in 1..2 - m : h.data[k] = g.data[k]
        BY <2>1, <4>2, <4>3
      <4>5. \A k \in 1..3 - m : k \in 1..2 - m \/ k = 3 - m
        BY <2>1
      <4>6. QED
        BY <3>1, <3>2, <4>1, <4>4, <4>5
    <3>5. QED
      BY <3>3, <3>4
  <2>4. \E h \in host' : h.tag = ing'.tag /\ h.of \in Writes /\ h.st = "new"
    <3>1. PICK g \in host : g.tag = ing.tag /\ g.of \in Writes /\ g.st = "new"
      BY <1>0, <2>1 DEF AtHost, m
    <3>2. QED
      BY <1>0, <2>1, <3>1, HostAfter
  <2>5. QED
    BY <2>3, <2>4 DEF AtHost
<1>6. ASSUME NEW t \in Tags, Host(t)
      PROVE  AtHost'
  <2>1. PICK h \in host, r \in AnyResponse, data \in Seq(DataFlits) : Says(h, r, data)
    BY <1>6, HostSays
  <2>2. /\ Fitting(r, h.of) /\ ing' = ing /\ r.tag = h.tag
        /\ ing.dflit + ing.dflitRty > 0 => ing.tag # h.tag
    BY <2>1 DEF Says
  <2>3. First(r) => h.of \in Reads /\ Dl[h.of] = 3
    BY <1>0, <2>2 DEF Fitting, First, Of, OwnCommand, RD_OK, RD_FAIL
  <2>4. \A k \in host' : \/ k \in host
                         \/ /\ k.of = h.of /\ k.tag = h.tag /\ k.data = h.data
                            /\ k.st = "half" => First(r)
    BY <1>0, <2>1, HostAfter
  <2>5. \A k \in host' : \E g \in host : k.of = g.of /\ k.tag = g.tag /\ k.data = g.data /\ Reached(k)' = Reached(g)
    BY <2>2, <2>4 DEF Reached
  <2>6. \A k \in host' : /\ Len(k.data) = Reached(k)'
                         /\ \A i \in 1..Reached(k)' : k.data[i] = Data(k.of, i)
    BY <1>0, <2>5 DEF AtHost
  <2>7. \A k \in host' : k.st = "half" => k.of \in Reads /\ Dl[k.of] = 3
    BY <1>0, <2>3, <2>4 DEF AtHost
  <2>8. ing'.dflit + ing'.dflitRty > 0 =>
           \E k \in host' : k.tag = ing'.tag /\ k.of \in Writes /\ k.st = "new"
    BY <1>0, <2>1, <2>2, HostAfter DEF AtHost
  <2>9. QED
    BY <2>6, <2>7, <2>8 DEF AtHost
<1>7. ASSUME UNCHANGED host, ing'.tag = ing.tag, ing'.dflit = ing.dflit, ing'.dflitRty = ing.dflitRty
      PROVE  AtHost'
  <2>1. \A h : Reached(h)' = Reached(h)
    BY <1>7 DEF Reached
  <2>2. QED
    BY <1>0, <1>7, <2>1 DEF AtHost
<1>8. CASE EnableIngress
  <2>1. UNCHANGED host
    BY <1>8 DEF EnableIngress
  <2>2. QED
    BY <1>0, <1>7, <1>8, <2>1, IngAfter
<1>9. CmdFifoLoad \/ RtyEng \/ UNCHANGED vars => UNCHANGED <<host, ing>>
  BY DEF CmdFifoLoad, vars, RtyEng, ToJail, Reissue, ReleaseJail, MoveData, ReleaseData
<1>10. RespEng => UNCHANGED <<host, ing>>
  BY DEF RespEng, LoadTags, RetryResponse, DataResponse, NoDataResponse, DropResponse, PassData,
         ReplayData
<1>11. QED
  BY <1>3, <1>4, <1>5, <1>6, <1>7, <1>8, <1>9, <1>10 DEF Next, Ingress

\* The fields of the retry engine after each of its steps.
LEMMA RtyAfter ==
    ASSUME TypeOK
    PROVE  /\ ToJail => /\ rty'.st = (IF Head(rtyfifo).of \in Writes THEN "DATA" ELSE "START")
                        /\ rty'.rdata = FlitsOf(Dl[Head(rtyfifo).of])
                        /\ Head(rtyfifo).of \in Writes => rty'.jaildata = TRUE
           /\ Reissue => /\ rty'.st = (IF Head(rtyfifo).of \in Writes THEN "DATA" ELSE "START")
                         /\ rty'.rdata = FlitsOf(Dl[Head(rtyfifo).of])
                         /\ Head(rtyfifo).of \in Writes => rty'.jaildata = FALSE
           /\ ReleaseJail => /\ rty'.st = (IF Head(jail).of \in Writes THEN "JAIL_DATA" ELSE "START")
                             /\ rty'.rdata = FlitsOf(Dl[Head(jail).of])
           /\ MoveData \/ ReleaseData => /\ rty'.st = (IF rty.rdata = 1 THEN "START" ELSE rty.st)
                                         /\ rty'.rdata = rty.rdata - 1 /\ rty'.jaildata = rty.jaildata
<1>1. rty \in RtyStates
  BY Fields
<1>2. ToJail => /\ rty'.st = (IF Head(rtyfifo).of \in Writes THEN "DATA" ELSE "START")
                /\ rty'.rdata = FlitsOf(Dl[Head(rtyfifo).of])
                /\ Head(rtyfifo).of \in Writes => rty'.jaildata = TRUE
  BY DEF ToJail
<1>3. Reissue => /\ rty'.st = (IF Head(rtyfifo).of \in Writes THEN "DATA" ELSE "START")
                 /\ rty'.rdata = FlitsOf(Dl[Head(rtyfifo).of])
                 /\ Head(rtyfifo).of \in Writes => rty'.jaildata = FALSE
  BY DEF Reissue
<1>4. ReleaseJail => /\ rty'.st = (IF Head(jail).of \in Writes THEN "JAIL_DATA" ELSE "START")
                     /\ rty'.rdata = FlitsOf(Dl[Head(jail).of])
  BY <1>1 DEF ReleaseJail, RtyStates
<1>5. MoveData \/ ReleaseData => /\ rty'.st = (IF rty.rdata = 1 THEN "START" ELSE rty.st)
                                 /\ rty'.rdata = rty.rdata - 1 /\ rty'.jaildata = rty.jaildata
  BY <1>1 DEF MoveData, ReleaseData, OneLess, RtyStates
<1>6. QED
  BY <1>2, <1>3, <1>4, <1>5

\* A command sent to be retried is a flit of the retry path.
LEMMA RetryFlit ==
    ASSUME IInv, RetryResponse, NEW f,
           f = Command(Head(combo).of, Head(combo).resp.tag, Anno(Head(combo).resp))
    PROVE  /\ f \in RetryFlits /\ f.cmd /\ f.of = Head(combo).of /\ rtyfifo' = Append(rtyfifo, f)
           /\ f.of = cmdlookup[Head(combo).resp.tag] /\ f.tag = Head(combo).resp.tag
<1>1. /\ combo # <<>> /\ eng.st = "GET_CMD" /\ RespState(Head(combo).resp) = "retry"
      /\ rtyfifo' = Append(rtyfifo, f)
  BY DEF RetryResponse, GetResponse
<1>2. Anno(Head(combo).resp) \in {0, RTY}
  <2>1. /\ Fitting(Head(combo).resp, Head(combo).of) /\ Head(combo).resp \in AnyResponse
    BY <1>1, Taken
  <2>2. QED
    BY <1>1, <2>1, StateOf DEF Anno
<1>3. Head(combo).of \in Commands /\ Head(combo).resp.tag \in Tags /\ Head(combo).of = cmdlookup[Head(combo).resp.tag]
  BY <1>1, Taken
<1>4. QED
  BY <1>1, <1>2, <1>3, FlitTypes DEF Command

\* What follows a flit of data, and what follows a command.
LEMMA Afters ==
    /\ \A c : After(Data(c, 1)) = Data(c, 2) /\ After(Data(c, 2)) = NoData
    /\ \A f \in RetryFlits : f.cmd =>
          /\ After(f) \in Expected
          /\ f.of \in Writes => After(f) \in WriteData /\ After(f).n = 1 /\ FlitsOf(Dl[f.of]) = 2
          /\ f.of \notin Writes => After(f) = NoData
    /\ \A f \in WriteData :
          /\ After(f) \in Expected
          /\ f.n = 1 => After(f) \in WriteData /\ After(f).n = 2
          /\ f.n = 2 => After(f) = NoData
<1>1. \A c, n : Data(c, n).cmd = FALSE /\ Data(c, n).of = c /\ Data(c, n).n = n
  BY DEF Data
<1>2. \A c : After(Data(c, 1)) = Data(c, 2) /\ After(Data(c, 2)) = NoData
  BY <1>1 DEF After
<1>3. ASSUME NEW f \in RetryFlits, f.cmd
      PROVE  /\ After(f) \in Expected
             /\ f.of \in Writes => After(f) \in WriteData /\ After(f).n = 1 /\ FlitsOf(Dl[f.of]) = 2
             /\ f.of \notin Writes => After(f) = NoData
  <2>1. f.of \in Writes => After(f) = Data(f.of, 1)
    BY <1>3 DEF After
  <2>2. \A c \in Writes : Data(c, 1) \in WriteData
    BY FlitKinds
  <2>3. f.of \notin Writes => After(f) = NoData
    BY <1>3 DEF After
  <2>4. QED
    BY <1>1, <2>1, <2>2, <2>3, FlitKinds, Lengths
<1>4. ASSUME NEW f \in WriteData
      PROVE  /\ After(f) \in Expected
             /\ f.n = 1 => After(f) \in WriteData /\ After(f).n = 2
             /\ f.n = 2 => After(f) = NoData
  <2>1. f = Data(f.of, f.n) /\ f.of \in Writes /\ f.n \in 1..2 /\ Data(f.of, 2) \in WriteData
    BY FlitKinds
  <2>2. QED
    BY <1>1, <1>2, <2>1 DEF Expected
<1>5. QED
  BY <1>2, <1>3, <1>4

\* Each flit that a state machine of the retry path moves follows the one before it,
\* so that the data of a write stay behind their command through jail and out.
LEMMA ReplaysStep ==
    ASSUME IInv, [Next]_vars
    PROVE  Replays'
<1>0. TypeOK /\ Machines /\ Replays
  BY DEF IInv
<1>1. PICK e : Chains(e)
  BY <1>0 DEF Replays
<1>2. /\ e \in Expected
      /\ rty.st = "START" => e = NoData
      /\ rty.st # "START" => e \in WriteData /\ rty.rdata = 3 - e.n
      /\ Chain(IF rty.st = "DATA" THEN e ELSE NoData, rtyfifo, EngWrites)
      /\ Chain(IF rty.st = "JAIL_DATA" THEN e ELSE NoData, jail,
               IF rty.st = "DATA" /\ rty.jaildata THEN e ELSE NoData)
      /\ Chain(IngExpects, out,
               IF rty.st = "JAIL_DATA" \/ (rty.st = "DATA" /\ ~rty.jaildata) THEN e ELSE NoData)
      /\ rtyfifo \in Seq(RetryFlits) /\ jail \in Seq(RetryFlits) /\ out \in Seq(RetryFlits)
  BY <1>0, <1>1, ChainsAre
<1> USE DEF lookups, hostVars, respVars, retryVars, netVars
<1>3. ASSUME NEW a \in Expected,
             IF rty'.st = "START" THEN a = NoData ELSE a \in WriteData /\ rty'.rdata = 3 - a.n,
             Chain(IF rty'.st = "DATA" THEN a ELSE NoData, rtyfifo', EngWrites'),
             Chain(IF rty'.st = "JAIL_DATA" THEN a ELSE NoData, jail',
                   IF rty'.st = "DATA" /\ rty'.jaildata THEN a ELSE NoData),
             Chain(IngExpects', out',
                   IF rty'.st = "JAIL_DATA" \/ (rty'.st = "DATA" /\ ~rty'.jaildata) THEN a ELSE NoData)
      PROVE  Replays'
  <2>1. Chains(a)'
    BY <1>3 DEF Chains
  <2>2. QED
    BY <2>1 DEF Replays, Expected
\* Neither the retry engine nor the ends of its path move.
<1>4. ASSUME UNCHANGED <<rtyfifo, jail, out, rty>>, EngWrites' = EngWrites, IngExpects' = IngExpects
      PROVE  Replays'
  BY <1>1, <1>2, <1>3, <1>4
<1>5. UNCHANGED <<eng, cmdlookup>> => EngWrites' = EngWrites
  BY DEF EngWrites, Replaying
<1>6. UNCHANGED cmdlookup /\ ing'.tag = ing.tag /\ ing'.dflitRty = ing.dflitRty => IngExpects' = IngExpects
  BY DEF IngExpects
<1>7. ASSUME NEW c \in Commands, NetCommand(c)
      PROVE  Replays'
  <2>1. /\ ~(eng.st = "GET_DATA" /\ eng.tag = Head(capptag)) /\ ing.dflitRty = 0
        /\ cmdlookup' = [cmdlookup EXCEPT ![Head(capptag)] = c] /\ UNCHANGED <<rtyfifo, jail, out, rty, eng>>
    BY <1>7, FreshTag, Zenon DEF NetCommand
  <2>2. ing'.dflitRty = ing.dflitRty
    BY <1>0, <1>7, IngAfter
  <2>3. EngWrites' = EngWrites
    BY <1>0, <2>1 DEF EngWrites, Replaying, TypeOK, Machines
  <2>4. IngExpects' = IngExpects
    BY <2>1, <2>2 DEF IngExpects
  <2>5. QED
    BY <1>4, <2>1, <2>3, <2>4
<1>8. CASE EnableIngress \/ NetData
  <2>1. UNCHANGED <<cmdlookup, rtyfifo, jail, out, rty, eng>>
    BY <1>8 DEF EnableIngress, NetData
  <2>2. ing'.tag = ing.tag /\ ing'.dflitRty = ing.dflitRty
    BY <1>0, <1>8, IngAfter
  <2>3. QED
    BY <1>4, <1>5, <1>6, <2>1, <2>2
<1>9. ASSUME NEW t \in Tags, Host(t)
      PROVE  Replays'
  <2>1. UNCHANGED <<cmdlookup, rtyfifo, jail, out, rty, eng, ing>>
    BY <1>9 DEF Host, HostReads, HostReadsHalf, HostWrites, HostFails, HostTranslated, Answers
  <2>2. QED
    BY <1>4, <1>5, <1>6, <2>1
<1>10. CASE CmdFifoLoad \/ UNCHANGED vars
  <2>1. UNCHANGED <<cmdlookup, rtyfifo, jail, out, rty, eng, ing>>
    BY <1>10 DEF CmdFifoLoad, vars
  <2>2. QED
    BY <1>4, <1>5, <1>6, <2>1
<1>11. CASE LoadTags \/ DataResponse \/ NoDataResponse \/ DropResponse \/ PassData
  <2>1. UNCHANGED <<cmdlookup, rtyfifo, jail, out, rty, ing>>
    BY <1>11 DEF LoadTags, DataResponse, NoDataResponse, DropResponse, PassData
  <2>2. ~Replaying
    BY <1>11 DEF LoadTags, DataResponse, NoDataResponse, DropResponse, PassData, GetResponse, Replaying
  <2>3. ~Replaying'
    BY <1>0, <1>11, EngAfter DEF Replaying
  <2>4. EngWrites' = EngWrites
    BY <2>2, <2>3 DEF EngWrites
  <2>5. QED
    BY <1>4, <1>6, <2>1, <2>4
\* The response engine writes.
<1>12. ASSUME UNCHANGED <<jail, out, rty>>, IngExpects' = IngExpects, NEW f \in RetryFlits,
              Fits(EngWrites, f), rtyfifo' = Append(rtyfifo, f), EngWrites' = After(f)
       PROVE  Replays'
  <2>1. Chain(IF rty.st = "DATA" THEN e ELSE NoData, rtyfifo', EngWrites')
    BY <1>2, <1>12, ChainAppend
  <2>2. QED
    BY <1>2, <1>3, <1>12, <2>1
<1>13. CASE RetryResponse
  <2> DEFINE f == Command(Head(combo).of, Head(combo).resp.tag, Anno(Head(combo).resp))
  <2>1. /\ f \in RetryFlits /\ f.cmd /\ f.of = Head(combo).of /\ rtyfifo' = Append(rtyfifo, f)
        /\ f.of = cmdlookup[Head(combo).resp.tag]
    BY <1>13, RetryFlit
  <2> HIDE DEF f
  <2>2. UNCHANGED <<cmdlookup, jail, out, rty, ing>> /\ eng.st = "GET_CMD"
    BY <1>13 DEF RetryResponse, GetResponse
  <2>3. EngWrites = NoData
    BY <2>2 DEF EngWrites, Replaying
  <2>4. EngWrites' = After(f)
    BY <1>0, <1>13, <2>1, <2>2, EngAfter DEF EngWrites, Replaying, After
  <2>5. QED
    BY <1>6, <1>12, <2>1, <2>2, <2>3, <2>4 DEF Fits
<1>14. CASE ReplayData
  <2> DEFINE c == cmdlookup[eng.tag]
  <2>1. /\ UNCHANGED <<cmdlookup, jail, out, rty, ing>> /\ Replaying
        /\ rtyfifo' = Append(rtyfifo, LookedUp(eng.tag)[eng.count])
    BY <1>14 DEF ReplayData, Replaying
  <2>2. /\ EngWrites = Data(c, eng.count) /\ eng.count \in 1..2 /\ eng.cdata = 2 /\ c \in Writes
        /\ LookedUp(eng.tag)[eng.count] = EngWrites /\ EngWrites \in RetryFlits
    BY <1>0, <2>1, Heads, FlitTypes DEF Machines, EngWrites
  <2>3. /\ eng'.st = (IF eng.count = 2 THEN "GET_CMD" ELSE "GET_DATA") /\ eng'.fresh = FALSE
        /\ eng'.tag = eng.tag /\ eng'.count = eng.count + 1 /\ cmdlookup' = cmdlookup
    BY <1>0, <1>14, <2>1, <2>2, EngAfter
  <2>4. /\ eng.count = 1 => EngWrites' = Data(c, 2)
        /\ eng.count = 2 => EngWrites' = NoData
    BY <2>3 DEF EngWrites, Replaying
  <2>5. EngWrites' = After(EngWrites)
    BY <2>2, <2>4, Afters
  <2>6. Fits(EngWrites, EngWrites) /\ rtyfifo' = Append(rtyfifo, EngWrites) /\ IngExpects' = IngExpects
    BY <1>6, <2>1, <2>2, FlitKinds DEF Fits
  <2>7. QED
    BY <1>12, <2>1, <2>2, <2>5, <2>6
\* The ingress reads.
<1>15. ASSUME UNCHANGED <<rtyfifo, jail, rty, eng, cmdlookup>>, out # <<>>, out' = Tail(out), IngExpects' = After(Head(out))
       PROVE  Replays'
  <2>1. Chain(IngExpects', out',
              IF rty.st = "JAIL_DATA" \/ (rty.st = "DATA" /\ ~rty.jaildata) THEN e ELSE NoData)
    BY <1>2, <1>15, ChainTail
  <2>2. QED
    BY <1>2, <1>3, <1>5, <1>15, <2>1
<1>16. CASE RtyCommand
  <2>1. /\ UNCHANGED <<rtyfifo, jail, rty, eng, cmdlookup>> /\ out # <<>> /\ out' = Tail(out)
        /\ ing.st = "RECEIVE_CMD" /\ ing.dflit = 0
    BY <1>0, <1>16 DEF RtyCommand, Machines
  <2>2. Head(out).cmd /\ Head(out).of = cmdlookup[Head(out).tag]
    BY <2>1, Heads DEF InStep
  <2>3. IngExpects' = After(Head(out))
    BY <1>0, <1>16, <2>1, <2>2, IngAfter DEF IngExpects, After
  <2>4. QED
    BY <1>15, <2>1, <2>3
<1>17. CASE RtyData
  <2>1. /\ UNCHANGED <<rtyfifo, jail, rty, eng, cmdlookup>> /\ out # <<>> /\ out' = Tail(out)
        /\ ing.dflitRty \in 1..2
    BY <1>0, <1>17, Fields DEF RtyData
  <2>2. Head(out) = Data(cmdlookup[ing.tag], 3 - ing.dflitRty)
    BY <2>1, Heads DEF IngExpects
  <2>3. IngExpects' = IF ing.dflitRty = 2 THEN Data(cmdlookup[ing.tag], 2) ELSE NoData
    BY <1>0, <1>17, <2>1, IngAfter DEF IngExpects
  <2>4. IngExpects' = After(Head(out))
    BY <2>1, <2>2, <2>3, Afters
  <2>5. QED
    BY <1>15, <2>1, <2>4
\* The retry engine moves a flit f on, and expects what follows it.
<1>18. ASSUME RtyEng
       PROVE  EngWrites' = EngWrites /\ IngExpects' = IngExpects
  BY <1>5, <1>6, <1>18 DEF RtyEng, ToJail, Reissue, ReleaseJail, MoveData, ReleaseData
<1>19. \A f \in RetryFlits : f.cmd =>
          /\ After(f) \in Expected
          /\ f.of \in Writes => After(f) \in WriteData /\ 2 = 3 - After(f).n /\ FlitsOf(Dl[f.of]) = 2
          /\ f.of \notin Writes => After(f) = NoData
  BY Afters
<1>20. \A f \in WriteData :
          /\ After(f) \in Expected
          /\ f.n = 1 => After(f) \in WriteData /\ After(f).n = 2
          /\ f.n = 2 => After(f) = NoData
  BY Afters
<1>21. CASE ToJail \/ Reissue
  <2> DEFINE f == Head(rtyfifo)
  <2>1. rtyfifo # <<>> /\ rty.st = "START" /\ rtyfifo' = Tail(rtyfifo) /\ e = NoData
    BY <1>2, <1>21 DEF ToJail, Reissue
  <2>2. f \in RetryFlits /\ f.cmd
    BY <2>1, Heads DEF InStep
  <2>3. Chain(After(f), rtyfifo', EngWrites')
    BY <1>2, <1>18, <1>21, <2>1, ChainTail DEF RtyEng
  <2>4. /\ rty'.st = (IF f.of \in Writes THEN "DATA" ELSE "START") /\ rty'.rdata = FlitsOf(Dl[f.of])
        /\ ToJail => jail' = Append(jail, f) /\ out' = out /\ (f.of \in Writes => rty'.jaildata)
        /\ Reissue => out' = Append(out, f) /\ jail' = jail /\ (f.of \in Writes => ~rty'.jaildata)
    BY <1>0, <1>21, RtyAfter DEF ToJail, Reissue
  <2> HIDE DEF f
  <2>5. Chain(IF rty'.st = "DATA" THEN After(f) ELSE NoData, rtyfifo', EngWrites')
    BY <1>19, <2>2, <2>3, <2>4
  <2>6. IF rty'.st = "START" THEN After(f) = NoData ELSE After(f) \in WriteData /\ rty'.rdata = 3 - After(f).n
    BY <1>19, <2>2, <2>4
  <2>7. /\ Chain(NoData, jail, NoData) /\ Chain(IngExpects', out, NoData)
        /\ ToJail => Chain(NoData, jail', After(f))
        /\ Reissue => Chain(IngExpects', out', After(f))
    BY <1>2, <1>18, <1>21, <2>1, <2>2, <2>4, ChainAppend DEF Fits, RtyEng
  <2>8. Chain(IF rty'.st = "JAIL_DATA" THEN After(f) ELSE NoData, jail',
              IF rty'.st = "DATA" /\ rty'.jaildata THEN After(f) ELSE NoData)
    BY <1>19, <1>21, <2>2, <2>4, <2>7
  <2>9. Chain(IngExpects', out',
              IF rty'.st = "JAIL_DATA" \/ (rty'.st = "DATA" /\ ~rty'.jaildata) THEN After(f) ELSE NoData)
    BY <1>19, <1>21, <2>2, <2>4, <2>7
  <2>10. QED
    BY <1>3, <1>19, <2>2, <2>5, <2>6, <2>8, <2>9
<1>22. CASE ReleaseJail
  <2> DEFINE f == Head(jail)
  <2>1. /\ jail # <<>> /\ rty.st = "START" /\ jail' = Tail(jail) /\ e = NoData
        /\ out' = Append(out, f) /\ rtyfifo' = rtyfifo
    BY <1>2, <1>22 DEF ReleaseJail
  <2>2. f \in RetryFlits /\ f.cmd
    BY <2>1, Heads DEF InStep
  <2>3. /\ Chain(After(f), jail', NoData) /\ Chain(NoData, rtyfifo', EngWrites')
        /\ Chain(IngExpects', out, NoData)
    BY <1>2, <1>18, <1>22, <2>1, ChainTail DEF RtyEng
  <2>4. /\ rty'.st = (IF f.of \in Writes THEN "JAIL_DATA" ELSE "START") /\ rty'.rdata = FlitsOf(Dl[f.of])
    BY <1>0, <1>22, RtyAfter
  <2> HIDE DEF f
  <2>5. Chain(IngExpects', out', After(f))
    BY <1>2, <2>1, <2>2, <2>3, ChainAppend DEF Fits
  <2>6. IF rty'.st = "START" THEN After(f) = NoData ELSE After(f) \in WriteData /\ rty'.rdata = 3 - After(f).n
    BY <1>19, <2>2, <2>4
  <2>7. Chain(IF rty'.st = "JAIL_DATA" THEN After(f) ELSE NoData, jail', NoData)
    BY <1>19, <2>2, <2>3, <2>4
  <2>8. Chain(IngExpects', out', IF rty'.st = "JAIL_DATA" THEN After(f) ELSE NoData)
    BY <1>19, <2>2, <2>4, <2>5
  <2>9. QED
    BY <1>3, <1>19, <2>2, <2>3, <2>4, <2>6, <2>7, <2>8
<1>23. CASE MoveData \/ ReleaseData
  <2>1. /\ rty.st \in {"DATA", "JAIL_DATA"} /\ e \in WriteData /\ e.n \in 1..2 /\ rty.rdata = 3 - e.n
        /\ e \in RetryFlits /\ e # NoData
    BY <1>2, <1>23, FlitKinds, FlitTypes DEF MoveData, ReleaseData
  <2>2. /\ rty'.st = (IF e.n = 2 THEN "START" ELSE rty.st)
        /\ rty'.rdata = 2 - e.n /\ rty'.jaildata = rty.jaildata
    BY <1>0, <1>23, <2>1, RtyAfter
  <2>3. IF rty'.st = "START" THEN After(e) = NoData ELSE After(e) \in WriteData /\ rty'.rdata = 3 - After(e).n
    BY <1>20, <2>1, <2>2
  <2>4. EngWrites' = EngWrites /\ IngExpects' = IngExpects /\ After(e) \in Expected /\ Fits(e, e)
    BY <1>18, <1>20, <1>23, <2>1 DEF RtyEng, Fits
  <2>5. CASE MoveData /\ rty.jaildata
    <3>1. /\ rty.st = "DATA" /\ rtyfifo # <<>> /\ rtyfifo' = Tail(rtyfifo)
          /\ jail' = Append(jail, Head(rtyfifo)) /\ out' = out
      BY <2>5 DEF MoveData
    <3>2. Head(rtyfifo) = e /\ Chain(After(e), rtyfifo', EngWrites')
      BY <1>2, <2>1, <2>4, <3>1, ChainTail DEF Fits
    <3>3. Chain(NoData, jail', After(e)) /\ Chain(IngExpects', out', NoData)
      BY <1>2, <2>1, <2>4, <2>5, <3>1, <3>2, ChainAppend
    <3>4. QED
      BY <1>3, <2>1, <2>2, <2>3, <2>4, <2>5, <3>1, <3>2, <3>3
  <2>6. CASE MoveData /\ ~rty.jaildata
    <3>1. /\ rty.st = "DATA" /\ rtyfifo # <<>> /\ rtyfifo' = Tail(rtyfifo)
          /\ out' = Append(out, Head(rtyfifo)) /\ jail' = jail
      BY <2>6 DEF MoveData
    <3>2. Head(rtyfifo) = e /\ Chain(After(e), rtyfifo', EngWrites')
      BY <1>2, <2>1, <2>4, <3>1, ChainTail DEF Fits
    <3>3. Chain(NoData, jail', NoData) /\ Chain(IngExpects', out', After(e))
      BY <1>2, <2>1, <2>4, <2>6, <3>1, <3>2, ChainAppend
    <3>4. QED
      BY <1>3, <2>1, <2>2, <2>3, <2>4, <2>6, <3>1, <3>2, <3>3
  <2>7. CASE ReleaseData
    <3>1. /\ rty.st = "JAIL_DATA" /\ jail # <<>> /\ jail' = Tail(jail)
          /\ out' = Append(out, Head(jail)) /\ rtyfifo' = rtyfifo
      BY <2>7 DEF ReleaseData
    <3>2. Head(jail) = e /\ Chain(After(e), jail', NoData)
      BY <1>2, <2>1, <2>4, <3>1, ChainTail DEF Fits
    <3>3. Chain(NoData, rtyfifo', EngWrites') /\ Chain(IngExpects', out', After(e))
      BY <1>2, <2>1, <2>4, <3>1, <3>2, ChainAppend
    <3>4. QED
      BY <1>3, <2>1, <2>2, <2>3, <2>4, <3>1, <3>2, <3>3
  <2>8. QED
    BY <1>23, <2>5, <2>6, <2>7
<1>24. QED
  BY <1>4, <1>7, <1>8, <1>9, <1>10, <1>11, <1>13, <1>14, <1>16, <1>17, <1>21, <1>22, <1>23
     DEF Next, Ingress, RespEng, RtyEng

\* Data and responses of the host move in step: the flits in front of a response are
\* those of the responses before it.
LEMMA ReadDataStep ==
    ASSUME IInv, [Next]_vars, TypeOK'
    PROVE  ReadData'
<1>0. /\ TypeOK /\ Machines /\ ReadData /\ Delivered /\ OwnCommand
      /\ cmdlookup \in [Tags -> Commands \cup {NoCommand}] /\ tldata \in Seq(DataFlits) /\ eng \in EngStates
  BY DEF IInv, TypeOK
<1> DEFINE n == Len(Coming)
<1>1. /\ n \in Nat /\ DOMAIN Coming = 1..n
      /\ UNCHANGED <<combo, tlresp>> => Coming' = Coming
      /\ CmdFifoLoad => Coming' = Coming
      /\ \A r \in AnyResponse : UNCHANGED combo /\ tlresp' = Append(tlresp, r) =>
            /\ Len(Coming') = n + 1
            /\ \A i \in 1..n : Coming'[i] = Coming[i]
            /\ Coming'[n + 1] = r
      /\ combo # <<>> /\ combo' = Tail(combo) /\ tlresp' = tlresp =>
            /\ n > 0 /\ Len(Coming') = n - 1
            /\ \A i \in 1..n - 1 : Coming'[i] = Coming[i + 1]
  BY <1>0, ComingAfter, Zenon
<1>2. \A i \in 1..n : Coming[i] \in AnyResponse
  BY <1>0, <1>1, ComingIs, LenProperties, ZenonT(60)
<1>3. PICK pos \in [1..n + 1 -> 0..Len(tldata)] : Laid(pos)
  BY <1>0 DEF ReadData
<1>4. /\ pos[1] = Left /\ pos[n + 1] = Len(tldata)
      /\ \A i, j \in 1..n + 1 : i <= j => pos[i] <= pos[j]
      /\ \A k \in 1..Left : tldata[k] = Data(cmdlookup[eng.tag], Final - Left + k)
      /\ \A i \in 1..n : pos[i + 1] = pos[i] + FlitsWith(Coming[i])
      /\ \A i \in 1..n : \A k \in 1..FlitsWith(Coming[i]) :
            tldata[pos[i] + k] = Data(Of(Coming[i]), 2 * Coming[i].dp + k)
      /\ Len(tldata) \in Nat
  BY <1>0, <1>3, LenProperties DEF Laid
<1>5. ASSUME NEW m \in Nat, Len(Coming') = m, NEW q \in [1..m + 1 -> 0..Len(tldata')],
             q[1] = Left', q[m + 1] = Len(tldata'),
             \A i, j \in 1..m + 1 : i <= j => q[i] <= q[j],
             \A k \in 1..Left' : tldata'[k] = Data(cmdlookup'[eng'.tag], Final' - Left' + k),
             \A i \in 1..m : q[i + 1] = q[i] + FlitsWith(Coming'[i]),
             \A i \in 1..m : \A k \in 1..FlitsWith(Coming'[i]) :
                tldata'[q[i] + k] = Data(cmdlookup'[Coming'[i].tag], 2 * Coming'[i].dp + k)
      PROVE  ReadData'
  <2>1. Laid(q)'
    BY <1>5 DEF Laid, FlitsWith, Of
  <2>2. QED
    BY <1>5, <2>1 DEF ReadData
<1> HIDE DEF n
<1> USE DEF lookups, hostVars, respVars, retryVars, netVars
<1>f. \A r : FlitsWith(r) \in Nat
  <2>1. \A dl : FlitsOf(dl) \in Nat
    BY Lengths
  <2>2. QED
    BY <2>1 DEF FlitsWith
\* Neither the responses nor their data move.
<1>6. ASSUME Coming' = Coming, UNCHANGED tldata, Left' = Left, Left > 0 => Final' = Final,
             Left > 0 => cmdlookup'[eng'.tag] = cmdlookup[eng.tag],
             \A i \in 1..n : cmdlookup'[Coming[i].tag] = cmdlookup[Coming[i].tag]
      PROVE  ReadData'
  <2>1. /\ pos \in [1..n + 1 -> 0..Len(tldata')] /\ Len(Coming') = n
        /\ pos[1] = Left' /\ pos[n + 1] = Len(tldata')
    BY <1>3, <1>4, <1>6 DEF n
  <2>2. \A k \in 1..Left' : tldata'[k] = Data(cmdlookup'[eng'.tag], Final' - Left' + k)
    <3> SUFFICES ASSUME NEW k \in 1..Left
                 PROVE  tldata'[k] = Data(cmdlookup'[eng'.tag], Final' - Left + k)
      BY <1>6
    <3>1. Left > 0
      BY <1>0 DEF Left, EngStates
    <3>2. QED
      BY <1>4, <1>6, <3>1
  <2>3. /\ \A i \in 1..n : pos[i + 1] = pos[i] + FlitsWith(Coming'[i])
        /\ \A i \in 1..n : \A k \in 1..FlitsWith(Coming'[i]) :
              tldata'[pos[i] + k] = Data(cmdlookup'[Coming'[i].tag], 2 * Coming'[i].dp + k)
    BY <1>4, <1>6 DEF Of
  <2>4. QED
    BY <1>1, <1>4, <1>5, <2>1, <2>2, <2>3
<1>7. ASSUME NEW c \in Commands, NetCommand(c)
      PROVE  ReadData'
  <2>1. /\ \A i \in DOMAIN Coming : Coming[i].tag # Head(capptag)
        /\ ~(eng.st = "GET_DATA" /\ eng.tag = Head(capptag))
        /\ cmdlookup' = [cmdlookup EXCEPT ![Head(capptag)] = c]
        /\ UNCHANGED <<combo, tlresp, eng, tldata>>
    BY <1>7, FreshTag, Zenon DEF NetCommand
  <2>2. Coming' = Coming /\ Left' = Left
    BY <1>1, <2>1 DEF Left, Passing
  <2>3. Left > 0 => eng.st = "GET_DATA" /\ eng.tag \in Tags
    BY <1>0 DEF Left, Passing, Machines
  <2>4. Left > 0 => cmdlookup'[eng'.tag] = cmdlookup[eng.tag]
    BY <1>0, <2>1, <2>3
  <2>5. Left > 0 => Final' = Final
    BY <2>1, <2>4 DEF Final
  <2>6. \A i \in 1..n : cmdlookup'[Coming[i].tag] = cmdlookup[Coming[i].tag]
    BY <1>0, <1>1, <1>2, <2>1 DEF AnyResponse
  <2>7. QED
    BY <1>6, <2>1, <2>2, <2>4, <2>5, <2>6
<1>8. CASE Ingress \/ CmdFifoLoad \/ RtyEng \/ UNCHANGED vars
  <2>1. UNCHANGED <<cmdlookup, eng, tldata>> /\ (UNCHANGED <<combo, tlresp>> \/ CmdFifoLoad)
    BY <1>8 DEF Ingress, EnableIngress, NetData, RtyCommand, RtyData, CmdFifoLoad, vars,
                RtyEng, ToJail, Reissue, ReleaseJail, MoveData, ReleaseData
  <2>2. Left' = Left /\ Final' = Final
    BY <2>1 DEF Left, Final, Passing
  <2>3. QED
    BY <1>1, <1>6, <2>1, <2>2
<1>9. CASE LoadTags \/ ReplayData
  <2>1. UNCHANGED <<cmdlookup, tldata, combo, tlresp>>
    BY <1>9 DEF LoadTags, ReplayData
  <2>2. ~Passing /\ ~Passing'
    BY <1>0, <1>9, EngAfter DEF LoadTags, ReplayData, Passing
  <2>3. QED
    BY <1>1, <1>6, <2>1, <2>2 DEF Left
\* A response and its data come last.
<1>10. ASSUME NEW t \in Tags, Host(t)
       PROVE  ReadData'
  <2>1. PICK h \in host, r \in AnyResponse, data \in Seq(DataFlits) : Says(h, r, data)
    BY <1>10, HostSays
  <2> DEFINE f == FlitsWith(r)
             z == Len(tldata)
             q == [i \in 1..(n + 1) + 1 |-> IF i = n + 2 THEN z + f ELSE pos[i]]
  <2>2. /\ r.tag = h.tag /\ UNCHANGED <<cmdlookup, combo, eng>> /\ tlresp' = Append(tlresp, r)
        /\ tldata' = tldata \o data /\ Len(data) = f
        /\ \A k \in 1..f : data[k] = Data(h.of, 2 * r.dp + k)
    BY <2>1 DEF Says
  <2>3. /\ Len(Coming') = n + 1 /\ \A i \in 1..n : Coming'[i] = Coming[i]
        /\ Coming'[n + 1] = r
    BY <1>1, <2>2
  <2>4. h.of = cmdlookup[r.tag] /\ f \in Nat
    BY <1>0, <2>2, Lengths DEF OwnCommand, FlitsWith
  <2>5. /\ Len(tldata') = z + f /\ z \in Nat
        /\ \A k \in 1..z : tldata'[k] = tldata[k]
        /\ \A k \in 1..f : tldata'[z + k] = data[k]
    BY <1>0, <2>2, <2>4
  <2> HIDE DEF f, z
  <2>6. q \in [1..(n + 1) + 1 -> 0..Len(tldata')]
    BY <1>1, <1>3, <2>4, <2>5 DEF z
  <2>7. q[1] = Left' /\ q[(n + 1) + 1] = Len(tldata')
    BY <1>1, <1>4, <2>2, <2>5, SMTT(30) DEF Left, Passing
  <2>8. \A i, j \in 1..(n + 1) + 1 : i <= j => q[i] <= q[j]
    <3>1. \A i \in 1..n + 1 : pos[i] <= z /\ pos[i] \in Nat
      BY <1>1, <1>3 DEF z
    <3>2. QED
      BY <1>1, <1>4, <2>4, <2>5, <3>1
  <2>9. /\ Left' = Left /\ Final' = Final /\ Left <= z
    BY <1>1, <1>3, <1>4, <2>2 DEF Left, Final, Passing, z
  <2>10. Left \in Nat
    BY <1>0 DEF Left, EngStates
  <2>11. \A k \in 1..Left' : tldata'[k] = Data(cmdlookup'[eng'.tag], Final' - Left' + k)
    BY <1>4, <2>2, <2>5, <2>9, <2>10
  <2>12. \A i \in 1..n + 1 : q[i + 1] = q[i] + FlitsWith(Coming'[i])
    BY <1>1, <1>4, <2>3, SMTT(30) DEF f, z
  <2>q. /\ \A i \in 1..n : q[i] = pos[i] /\ q[i] \in Nat
        /\ q[n + 1] = z
    BY <1>1, <1>3, <1>4 DEF z
  <2> HIDE DEF q
  <2>13. ASSUME NEW i \in 1..n + 1, NEW k \in 1..FlitsWith(Coming'[i])
         PROVE  tldata'[q[i] + k] = Data(cmdlookup'[Coming'[i].tag], 2 * Coming'[i].dp + k)
    <3>1. CASE i = n + 1
      <4>1. Coming'[i] = r
        BY <2>3, <3>1
      <4>2. q[i] = z
        BY <2>q, <3>1
      <4>3. FlitsWith(Coming'[i]) = f
        BY <4>1 DEF f
      <4>4. k \in 1..f
        BY <2>13, <4>3
      <4>5. tldata'[q[i] + k] = data[k]
        BY <2>5, <4>2, <4>4
      <4>6. data[k] = Data(h.of, 2 * r.dp + k)
        BY <2>2, <4>4
      <4>7. cmdlookup'[Coming'[i].tag] = h.of
        BY <2>2, <2>4, <4>1
      <4>8. QED
        BY <4>1, <4>5, <4>6, <4>7
    <3>2. CASE i \in 1..n
      <4>1. /\ Coming'[i] = Coming[i] /\ q[i] = pos[i] /\ q[i] \in Nat
            /\ pos[i + 1] = pos[i] + FlitsWith(Coming[i])
        BY <1>4, <2>3, <2>q, <3>2
      <4>2. FlitsWith(Coming[i]) \in Nat /\ k \in 1..FlitsWith(Coming[i])
        BY <1>f, <2>13, <3>2, <4>1
      <4>3. i + 1 \in 1..n + 1 /\ pos[i + 1] <= z
        BY <1>1, <1>3, <3>2 DEF z
      <4>4. q[i] + k \in 1..z
        BY <2>5, <4>1, <4>2, <4>3
      <4>5. tldata'[q[i] + k] = tldata[pos[i] + k]
        BY <2>5, <4>1, <4>4
      <4>6. tldata[pos[i] + k] = Data(Of(Coming[i]), 2 * Coming[i].dp + k)
        BY <1>4, <3>2, <4>2
      <4>7. Of(Coming[i]) = cmdlookup'[Coming'[i].tag]
        BY <2>2, <4>1 DEF Of
      <4>8. QED
        BY <4>1, <4>5, <4>6, <4>7
    <3>3. i = n + 1 \/ i \in 1..n
      BY <1>1
    <3>4. QED
      BY <3>1, <3>2, <3>3
  <2>14. n + 1 \in Nat
    BY <1>1
  <2>15. QED
    BY <1>5, <2>3, <2>6, <2>7, <2>8, <2>11, <2>12, <2>13, <2>14
\* The first response is taken, and its data are next.
<1>11. ASSUME NEW state, GetResponse(state), UNCHANGED <<cmdlookup, tlresp, tldata>>,
              Left' = FlitsWith(Coming[1]),
              Left' > 0 => eng'.tag = Coming[1].tag /\ Final' - Left' = 2 * Coming[1].dp
       PROVE  ReadData'
  <2>1. combo # <<>> /\ combo' = Tail(combo) /\ Left = 0
    BY <1>11 DEF GetResponse, Left, Passing
  <2>2. n > 0 /\ Len(Coming') = n - 1 /\ \A i \in 1..n - 1 : Coming'[i] = Coming[i + 1]
    BY <1>1, <1>11, <2>1
  <2> DEFINE m == n - 1
             q == [i \in 1..m + 1 |-> pos[i + 1]]
  <2>3. /\ m \in Nat /\ m + 1 = n /\ \A i \in 1..m + 1 : i + 1 \in 1..n + 1 /\ i + 1 \in Nat
        /\ \A i \in 1..m : i + 1 \in 1..n /\ i + 1 \in 1..m + 1
    BY <1>1, <2>2
  <2> HIDE DEF m
  <2>4. q \in [1..m + 1 -> 0..Len(tldata')] /\ q[m + 1] = Len(tldata')
    BY <1>3, <1>4, <1>11, <2>3, SMTT(30)
  <2>5. 1 \in 1..n /\ pos[2] = FlitsWith(Coming[1]) /\ FlitsWith(Coming[1]) \in Nat
    BY <1>1, <1>4, <2>1, <2>2, Lengths, SMTT(30) DEF FlitsWith
  <2>6. q[1] = Left'
    BY <1>11, <2>3, <2>5
  <2>7. \A i, j \in 1..m + 1 : i <= j => q[i] <= q[j]
    BY <1>4, <2>3
  <2>8. ASSUME NEW k \in 1..Left'
        PROVE  tldata'[k] = Data(cmdlookup'[eng'.tag], Final' - Left' + k)
    <3>1. /\ Left' > 0 /\ k \in 1..FlitsWith(Coming[1]) /\ pos[1] + k = k
      BY <1>4, <1>11, <2>1, <2>5, <2>8
    <3>2. tldata[k] = Data(cmdlookup[Coming[1].tag], 2 * Coming[1].dp + k)
      BY <1>4, <2>5, <3>1 DEF Of
    <3>3. QED
      BY <1>11, <3>1, <3>2
  <2>9. \A i \in 1..m : q[i + 1] = q[i] + FlitsWith(Coming'[i])
    BY <1>4, <2>2, <2>3, SMTT(30) DEF m
  <2>10. \A i \in 1..m : \A k \in 1..FlitsWith(Coming'[i]) :
            tldata'[q[i] + k] = Data(cmdlookup'[Coming'[i].tag], 2 * Coming'[i].dp + k)
    BY <1>4, <1>11, <2>2, <2>3, SMTT(30) DEF m, Of
  <2> HIDE DEF q
  <2>11. QED
    BY <1>5, <2>2, <2>3, <2>4, <2>6, <2>7, <2>8, <2>9, <2>10 DEF m
<1>12. ASSUME NEW state, GetResponse(state)
       PROVE  /\ Coming[1] = Head(combo).resp /\ Coming[1] \in AnyResponse
              /\ Fitting(Coming[1], Head(combo).of) /\ RespState(Coming[1]) = state
              /\ Head(combo).of = cmdlookup[Coming[1].tag] /\ Coming[1].tag \in Tags
  BY <1>12, Taken DEF GetResponse
<1>13. CASE RetryResponse \/ NoDataResponse \/ DropResponse
  <2>1. PICK state \in {"retry", "nodata", "drop"} : GetResponse(state)
    BY <1>13 DEF RetryResponse, NoDataResponse, DropResponse
  <2>2. UNCHANGED <<cmdlookup, tlresp, tldata>>
    BY <1>13 DEF RetryResponse, NoDataResponse, DropResponse
  <2>3. Coming[1].op # RD_OK
    BY <1>12, <2>1, StateOf
  <2>4. FlitsWith(Coming[1]) = 0
    BY <2>3 DEF FlitsWith
  <2>5. Left' = 0
    BY <1>0, <1>13, EngAfter DEF Left, Passing
  <2>6. QED
    BY <1>11, <2>1, <2>2, <2>4, <2>5
<1>14. CASE DataResponse
  <2> DEFINE r == Coming[1]
             c == cmdlookup[r.tag]
  <2>1. GetResponse("data") /\ UNCHANGED <<cmdlookup, tlresp, tldata>>
    BY <1>14 DEF DataResponse
  <2>2. r = Head(combo).resp /\ Head(combo).of = c /\ Fitting(r, c) /\ r \in AnyResponse
    BY <1>12, <2>1
  <2>3. r.op = RD_OK
    BY <1>12, <2>1, <2>2, StateOf
  <2>4. /\ eng'.st = "GET_DATA" /\ eng'.fresh = TRUE /\ eng'.tag = r.tag
        /\ eng'.keep = (r.dl # Dl[c] /\ r.dp = 0) /\ eng'.cdata = FlitsOf(r.dl)
    BY <1>0, <1>14, <2>2, EngAfter
  <2>5. Left' = FlitsWith(r)
    BY <2>3, <2>4 DEF Left, Passing, FlitsWith
  <2>6. Final' - Left' = 2 * r.dp
    <3>1. /\ c \in Commands /\ r.dp \in 0..1
          /\ (r.dl = Dl[c] /\ r.dp = 0) \/ (r.dl = 2 /\ Dl[c] = 3)
      BY <2>2, <2>3 DEF Fitting, AnyResponse
    <3>2. Final' = IF eng'.keep THEN 2 ELSE FlitsOf(Dl[c])
      BY <2>1, <2>4 DEF Final
    <3>3. Left' = FlitsOf(r.dl)
      BY <2>3, <2>5 DEF FlitsWith
    <3> HIDE DEF r, c
    <3>4. CASE r.dl = Dl[c] /\ r.dp = 0
      <4>1. eng'.keep = FALSE
        BY <2>4, <3>4, Zenon
      <4>2. Final' = FlitsOf(Dl[c]) /\ Left' = FlitsOf(Dl[c]) /\ r.dp = 0
        BY <3>2, <3>3, <3>4, <4>1
      <4>3. QED
        BY <1>f, <3>3, <4>2, Lengths
    <3>5. CASE r.dl = 2 /\ Dl[c] = 3
      <4>1. Left' = 2 /\ FlitsOf(Dl[c]) = 4 /\ r.dl # Dl[c]
        BY <3>3, <3>5, Lengths
      <4>2. CASE r.dp = 0
        <5>1. eng'.keep = TRUE
          BY <2>4, <4>1, <4>2, Zenon
        <5>2. QED
          BY <3>2, <4>1, <4>2, <5>1
      <4>3. CASE r.dp # 0
        <5>1. eng'.keep = FALSE
          BY <2>4, <4>3, Zenon
        <5>2. QED
          BY <3>1, <3>2, <4>1, <4>3, <5>1
      <4>4. QED
        BY <4>2, <4>3
    <3>6. QED
      BY <3>1, <3>4, <3>5
  <2>7. QED
    BY <1>11, <2>1, <2>4, <2>5, <2>6
\* The first flit of data goes.
<1>15. CASE PassData
  <2> DEFINE q == [i \in 1..n + 1 |-> pos[i] - 1]
  <2>1. /\ Passing /\ tldata # <<>> /\ tldata' = Tail(tldata) /\ UNCHANGED <<cmdlookup, combo, tlresp>>
    BY <1>15 DEF PassData, Passing
  <2>2. eng.cdata \in Nat /\ eng.cdata > 0
    BY <1>0, <2>1, Lengths DEF Delivered
  <2>3. Left = eng.cdata /\ Left' = Left - 1 /\ Final' = Final /\ cmdlookup'[eng'.tag] = cmdlookup[eng.tag]
    <3>1. /\ eng'.st = (IF eng.cdata = 1 THEN "GET_CMD" ELSE "GET_DATA") /\ eng'.fresh = TRUE
          /\ eng'.tag = eng.tag /\ eng'.keep = eng.keep /\ (eng.cdata # 1 => eng'.cdata = eng.cdata - 1)
      BY <1>0, <1>15, EngAfter
    <3>2. Final' = Final /\ cmdlookup'[eng'.tag] = cmdlookup[eng.tag]
      BY <2>1, <3>1 DEF Final
    <3>3. Left = eng.cdata /\ Left' = Left - 1
      BY <2>1, <2>2, <3>1 DEF Left, Passing
    <3>4. QED
      BY <3>2, <3>3
  <2>4. Coming' = Coming
    BY <1>1, <2>1
  <2>5. /\ Len(tldata') = Len(tldata) - 1 /\ \A k \in 1..Len(tldata) - 1 : tldata'[k] = tldata[k + 1]
    BY <1>0, <2>1
  <2>6. \A i \in 1..n + 1 : pos[i] \in Nat /\ pos[i] >= 1 /\ pos[i] <= Len(tldata)
    BY <1>1, <1>3, <1>4, <2>2, <2>3
  <2>7. /\ q \in [1..n + 1 -> 0..Len(tldata')] /\ Len(Coming') = n
        /\ q[1] = Left' /\ q[n + 1] = Len(tldata')
    <3>1. \A i \in 1..n + 1 : pos[i] - 1 \in 0..Len(tldata')
      BY <1>4, <2>5, <2>6
    <3>2. 1 \in 1..n + 1 /\ n + 1 \in 1..n + 1
      BY <1>1
    <3>3. Len(Coming') = n
      BY <2>4 DEF n
    <3>4. QED
      BY <1>4, <2>3, <2>5, <3>1, <3>2, <3>3
  <2>8. \A i, j \in 1..n + 1 : i <= j => q[i] <= q[j]
    BY <1>4, <2>6
  <2>9. \A k \in 1..Left' : tldata'[k] = Data(cmdlookup'[eng'.tag], Final' - Left' + k)
    <3> SUFFICES ASSUME NEW k \in 1..Left'
                 PROVE  tldata'[k] = Data(cmdlookup'[eng'.tag], Final' - Left' + k)
      OBVIOUS
    <3>1. /\ k + 1 \in 1..Left /\ 1 \in 1..n + 1
      BY <1>1, <2>2, <2>3
    <3>2. k \in 1..Len(tldata) - 1
      BY <1>4, <2>2, <2>3, <2>6, <3>1
    <3>3. tldata'[k] = Data(cmdlookup[eng.tag], Final - Left + (k + 1))
      BY <1>4, <2>5, <3>1, <3>2
    <3>4. Final \in Nat
      BY Lengths DEF Final
    <3>5. Final' - Left' + k = Final - Left + (k + 1)
      BY <2>2, <2>3, <3>4, SMTT(30)
    <3>6. QED
      BY <2>3, <3>3, <3>5
  <2>10. \A i \in 1..n : i + 1 \in 1..n + 1 /\ q[i + 1] = q[i] + FlitsWith(Coming'[i])
    <3> SUFFICES ASSUME NEW i \in 1..n
                 PROVE  i + 1 \in 1..n + 1 /\ q[i + 1] = q[i] + FlitsWith(Coming'[i])
      OBVIOUS
    <3>1. i \in 1..n + 1 /\ i + 1 \in 1..n + 1
      BY <1>1
    <3>2. QED
      BY <1>4, <1>f, <2>4, <2>6, <3>1
  <2>11. ASSUME NEW i \in 1..n, NEW k \in 1..FlitsWith(Coming'[i])
         PROVE  tldata'[q[i] + k] = Data(cmdlookup'[Coming'[i].tag], 2 * Coming'[i].dp + k)
    <3>1. FlitsWith(Coming[i]) \in Nat /\ k \in 1..FlitsWith(Coming[i])
      BY <1>f, <2>4, <2>11
    <3>0. i \in 1..n + 1 /\ i + 1 \in 1..n + 1
      BY <1>1
    <3>2. pos[i] + k <= Len(tldata) /\ pos[i] + k > 1
      <4>1. pos[i + 1] = pos[i] + FlitsWith(Coming[i]) /\ pos[i + 1] <= Len(tldata)
        BY <1>4, <2>6, <3>0
      <4>2. QED
        BY <2>6, <3>0, <3>1, <4>1
    <3>3. q[i] + k \in 1..Len(tldata) - 1 /\ (q[i] + k) + 1 = pos[i] + k
      BY <1>4, <2>6, <3>0, <3>1, <3>2
    <3>4. tldata'[q[i] + k] = tldata[pos[i] + k]
      BY <2>5, <3>3
    <3>5. QED
      BY <1>4, <2>1, <2>4, <3>1, <3>4 DEF Of
  <2> HIDE DEF q
  <2>12. QED
    BY <1>1, <1>5, <2>7, <2>8, <2>9, <2>10, <2>11
<1>16. QED
  BY <1>7, <1>8, <1>9, <1>10, <1>13, <1>14, <1>15 DEF Next, RespEng

\* The responses after a step that is not the host's are responses from before it.
LEMMA ComingFrom ==
    ASSUME IInv, [Next]_vars, TypeOK', ~\E t \in Tags : Host(t)
    PROVE  /\ \/ Coming' = Coming
              \/ /\ DOMAIN Coming' = 1..Len(Coming) - 1 /\ Len(Coming) > 0
                 /\ \A i \in 1..Len(Coming) - 1 : Coming'[i] = Coming[i + 1]
                 /\ \E state : GetResponse(state)
           /\ \A i \in DOMAIN Coming' : \E j \in DOMAIN Coming : Coming'[i] = Coming[j]
           /\ \A j \in DOMAIN Coming : cmdlookup'[Coming[j].tag] = cmdlookup[Coming[j].tag]
<1>0. TypeOK /\ cmdlookup \in [Tags -> Commands \cup {NoCommand}]
  BY DEF IInv, TypeOK
<1>1. /\ Len(Coming) \in Nat /\ DOMAIN Coming = 1..Len(Coming)
      /\ UNCHANGED <<combo, tlresp>> => Coming' = Coming
      /\ CmdFifoLoad => Coming' = Coming
      /\ combo # <<>> /\ combo' = Tail(combo) /\ tlresp' = tlresp =>
            /\ Len(Coming) > 0 /\ DOMAIN Coming' = 1..Len(Coming) - 1
            /\ \A i \in 1..Len(Coming) - 1 : Coming'[i] = Coming[i + 1]
  BY <1>0, ComingAfter, Zenon
<1>2. \A i \in DOMAIN Coming : Coming[i].tag \in Tags
  <2>1. \A i \in DOMAIN Coming : Coming[i] \in AnyResponse
    BY <1>0, <1>1, ComingIs, LenProperties, ZenonT(60)
  <2>2. QED
    BY <2>1 DEF AnyResponse
<1> USE DEF lookups, hostVars, respVars, retryVars, netVars
<1>3. UNCHANGED <<combo, tlresp>> \/ CmdFifoLoad
         \/ (combo # <<>> /\ combo' = Tail(combo) /\ tlresp' = tlresp /\ \E state : GetResponse(state))
  <2>1. \A c \in Commands : NetCommand(c) => UNCHANGED <<combo, tlresp>>
    BY DEF NetCommand
  <2>2. Ingress \/ RtyEng \/ UNCHANGED vars \/ LoadTags \/ PassData \/ ReplayData => UNCHANGED <<combo, tlresp>>
    BY DEF Ingress, EnableIngress, NetData, RtyCommand, RtyData, vars, LoadTags, PassData, ReplayData,
           RtyEng, ToJail, Reissue, ReleaseJail, MoveData, ReleaseData
  <2>3. RetryResponse \/ DataResponse \/ NoDataResponse \/ DropResponse =>
           combo # <<>> /\ combo' = Tail(combo) /\ tlresp' = tlresp /\ \E state : GetResponse(state)
    BY DEF RetryResponse, DataResponse, NoDataResponse, DropResponse, GetResponse
  <2>4. QED
    BY <2>1, <2>2, <2>3 DEF Next, RespEng
<1>4. \/ Coming' = Coming
      \/ /\ DOMAIN Coming' = 1..Len(Coming) - 1 /\ Len(Coming) > 0
         /\ \A i \in 1..Len(Coming) - 1 : Coming'[i] = Coming[i + 1]
         /\ \E state : GetResponse(state)
  BY <1>1, <1>3
<1>5. \A i \in DOMAIN Coming' : \E j \in DOMAIN Coming : Coming'[i] = Coming[j]
  <2>1. \A i \in 1..Len(Coming) - 1 : i + 1 \in DOMAIN Coming
    BY <1>1
  <2>2. QED
    BY <1>4, <2>1
<1>6. \A j \in DOMAIN Coming : cmdlookup'[Coming[j].tag] = cmdlookup[Coming[j].tag]
  <2>1. CASE \E c \in Commands : NetCommand(c)
    <3>1. PICK c \in Commands : NetCommand(c)
      BY <2>1
    <3>2. /\ \A i \in DOMAIN Coming : Coming[i].tag # Head(capptag)
          /\ cmdlookup' = [cmdlookup EXCEPT ![Head(capptag)] = c]
      BY <3>1, FreshTag
    <3>3. QED
      BY <1>0, <1>2, <3>2
  <2>2. CASE ~\E c \in Commands : NetCommand(c)
    BY <2>2, LookupSame
  <2>3. QED
    BY <2>1, <2>2
<1>7. QED
  BY <1>4, <1>5, <1>6

\* The commands at the host after a step that is not the host's.
LEMMA HostFrom ==
    ASSUME IInv, [Next]_vars, ~\E t \in Tags : Host(t), NEW h \in host'
    PROVE  \/ \E g \in host : h.of = g.of /\ h.tag = g.tag /\ h.st = g.st
           \/ h.st = "new" /\ h.of \in Commands \ taken /\ NetCommand(h.of)
           \/ h.st = "new" /\ \E f \in Held : f.cmd /\ h.of = f.of /\ h.tag = f.tag
<1>0. TypeOK /\ Machines
  BY DEF IInv
<1> USE DEF lookups, hostVars, respVars, retryVars, netVars
<1>1. ASSUME NEW c \in Commands, NetCommand(c)
      PROVE  h \in host \/ (h.st = "new" /\ h.of \in Commands \ taken /\ NetCommand(h.of))
  <2>1. Issue(c, Head(capptag)) /\ c \notin taken
    BY <1>1 DEF NetCommand
  <2>2. h \in host \/ (h.st = "new" /\ h.of = c)
    BY <1>0, <2>1, HostAfter
  <2>3. QED
    BY <1>1, <2>1, <2>2
<1>2. CASE NetData \/ RtyData
  <2>1. \E d : IssueData(d)
    BY <1>2 DEF NetData, RtyData
  <2>2. QED
    BY <1>0, <2>1, HostAfter
<1>3. CASE RtyCommand
  <2>1. /\ Issue(Head(out).of, Head(out).tag) /\ out # <<>>
        /\ ing.dflit = 0 /\ ing.st = "RECEIVE_CMD"
    BY <1>0, <1>3 DEF RtyCommand, Machines
  <2>2. Head(out).cmd
    BY <2>1, Heads DEF InStep
  <2>3. Head(out) \in Held
    <3>1. Head(out) = out[1] /\ 1 \in DOMAIN out
      BY <1>0, <2>1, Heading DEF TypeOK
    <3>2. QED
      BY <1>0, <3>1, HeldAre
  <2>4. h \in host \/ (h.of = Head(out).of /\ h.tag = Head(out).tag /\ h.st = "new")
    BY <1>0, <2>1, HostAfter
  <2>5. QED
    BY <2>2, <2>3, <2>4
<1>4. EnableIngress \/ RtyEng \/ CmdFifoLoad \/ UNCHANGED vars => host' = host
  BY DEF EnableIngress, CmdFifoLoad, vars, RtyEng, ToJail, Reissue, ReleaseJail, MoveData, ReleaseData
<1>5. RespEng => host' = host
  BY DEF RespEng, LoadTags, RetryResponse, DataResponse, NoDataResponse, DropResponse, PassData, ReplayData
<1>6. QED
  BY <1>1, <1>2, <1>3, <1>4, <1>5 DEF Next, Ingress

\* What the host has not said of h is not under way.
LEMMA OtherCommands ==
    ASSUME IInv, NEW h \in host
    PROVE  /\ h.tag \in Tags /\ h.of \in taken /\ h.of = cmdlookup[h.tag]
           /\ \A g \in host : g.of = h.of => g = h
           /\ \A i \in DOMAIN Coming : Of(Coming[i]) = h.of => Coming[i].tag = h.tag
           /\ \A f \in Held : f.cmd => f.of # h.of
<1>0. TypeOK /\ TagsConserved /\ OwnCommand /\ InTurn /\ OneTag
  BY DEF IInv
<1>1. h.tag \in Tags /\ h.of \in Commands /\ h.of = cmdlookup[h.tag] /\ h.of # NoCommand
  BY <1>0, Lengths DEF TypeOK, Hosted, OwnCommand
<1>2. \A u \in Tags : cmdlookup[u] = h.of => u = h.tag
  BY <1>0, <1>1 DEF OneTag
<1>3. h.of \in taken
  BY <1>0, <1>1 DEF OneTag
<1>4. \A g \in host : g.of = h.of => g = h
  <2>1. \A g \in host : g.tag \in Tags /\ g.of = cmdlookup[g.tag]
    BY <1>0 DEF TypeOK, Hosted, OwnCommand
  <2>2. QED
    BY <1>0, <1>1, <1>2, <2>1, OnePlace
<1>5. \A i \in DOMAIN Coming : Of(Coming[i]) = h.of => Coming[i].tag = h.tag
  <2>1. \A i \in DOMAIN Coming : Coming[i].tag \in Tags
    <3>1. \A i \in DOMAIN Coming : Coming[i] \in AnyResponse
      BY <1>0, ComingIs, LenProperties
    <3>2. QED
      BY <3>1 DEF AnyResponse
  <2>2. QED
    BY <1>2, <2>1 DEF Of
<1>6. ASSUME NEW f \in Held, f.cmd
      PROVE  f.of # h.of
  <2>1. f.of = cmdlookup[f.tag] /\ Retried(f.tag) /\ f.tag \in Tags
    BY <1>0, <1>6, FlitKinds DEF Held, OwnCommand, Retried
  <2>2. ~HostHas(f.tag)
    BY <1>0, <2>1, OnePlace
  <2>3. f.tag # h.tag
    BY <2>2 DEF HostHas
  <2>4. QED
    BY <1>2, <2>1, <2>3
<1>7. QED
  BY <1>1, <1>3, <1>4, <1>5, <1>6

\* A write is stored when the host answers it with OK, after which nothing under way
\* can have it issued again.
LEMMA PerformedStep ==
    ASSUME IInv, [Next]_vars, TypeOK'
    PROVE  Performed'
<1>0. TypeOK /\ Performed /\ InTurn /\ OneTag /\ OwnCommand /\ stored \in [Commands -> Seq(Seq(DataFlits))]
  BY DEF IInv, TypeOK
<1>1. /\ \A c \in Commands : stored[c] \in {<<>>, <<Whole(c)>>}
      /\ \A c \in Commands \ taken : stored[c] = <<>>
      /\ \A h \in host : stored[h.of] = <<>>
      /\ \A i \in DOMAIN Coming :
            stored[Of(Coming[i])] = IF Coming[i].op = WR_OK THEN <<Whole(Of(Coming[i]))>> ELSE <<>>
  BY <1>0 DEF Performed
<1>2. \A f \in Held : f.cmd => stored[f.of] = <<>>
  BY <1>0 DEF Performed, Held
<1>3. ASSUME \A c \in Commands : stored'[c] \in {<<>>, <<Whole(c)>>},
             \A c \in Commands \ taken' : stored'[c] = <<>>,
             \A h \in host' : stored'[h.of] = <<>>,
             \A i \in DOMAIN Coming' : stored'[cmdlookup'[Coming'[i].tag]]
                = IF Coming'[i].op = WR_OK THEN <<Whole(cmdlookup'[Coming'[i].tag])>> ELSE <<>>,
             \A f \in Held' : f.cmd => stored'[f.of] = <<>>
      PROVE  Performed'
  <2>1. \A s \in {rtyfifo', jail', out'} : \A i \in DOMAIN s : s[i].cmd => stored'[s[i].of] = <<>>
    BY <1>3, HeldNext
  <2>2. QED
    BY <1>3, <2>1 DEF Performed, Of
<1> USE DEF lookups, hostVars, respVars, retryVars, netVars
<1>4. CASE \E t \in Tags : Host(t)
  <2>1. PICK h \in host, r \in AnyResponse, data \in Seq(DataFlits) : Says(h, r, data)
    BY <1>4, HostSays
  <2>2. /\ r.tag = h.tag /\ Fitting(r, h.of)
        /\ h.st = "half" <=> Second(r)
        /\ h.st = "translating" <=> r.op = XLATE_DONE
        /\ stored' = IF r.op = WR_OK THEN [stored EXCEPT ![h.of] = <<Whole(h.of)>>] ELSE stored
        /\ tlresp' = Append(tlresp, r)
        /\ UNCHANGED <<cmdlookup, combo, taken, retryVars>>
    BY <2>1 DEF Says
  <2>3. /\ h.of \in Commands /\ h.of \in taken /\ h.of = cmdlookup[h.tag] /\ stored[h.of] = <<>>
        /\ \A g \in host : g.of = h.of => g = h
        /\ \A i \in DOMAIN Coming : Of(Coming[i]) = h.of => Coming[i].tag = h.tag
        /\ \A f \in Held : f.cmd => f.of # h.of
    BY <1>0, <1>1, OtherCommands DEF TypeOK, Hosted
  <2>4. /\ DOMAIN Coming' = 1..Len(Coming) + 1 /\ DOMAIN Coming = 1..Len(Coming) /\ Len(Coming) \in Nat
        /\ \A i \in 1..Len(Coming) : Coming'[i] = Coming[i]
        /\ Coming'[Len(Coming) + 1] = r
    BY <1>0, <2>2, ComingAfter, Zenon
  <2>5. /\ \A c \in Commands : c # h.of => stored'[c] = stored[c]
        /\ stored'[h.of] = IF r.op = WR_OK THEN <<Whole(h.of)>> ELSE <<>>
    BY <1>0, <2>2, <2>3
  <2>6. r.op = WR_OK => \A k \in host' : k \in host /\ k # h
    <3>1. r.op = WR_OK => ~First(r) /\ ~Pending(r)
      BY <2>2 DEF Fitting, First, Pending, WR_OK, RD_OK, RD_FAIL, WR_FAIL, PEND
    <3>2. QED
      BY <1>0, <2>1, <3>1, HostAfter
  <2>7. ASSUME NEW k \in host'
        PROVE  stored'[k.of] = <<>>
    <3>1. CASE r.op = WR_OK
      BY <1>0, <1>1, <2>3, <2>5, <2>6, <2>7, <3>1 DEF TypeOK, Hosted
    <3>2. CASE r.op # WR_OK
      <4>1. stored' = stored
        BY <2>2, <3>2
      <4>2. k \in host \/ k.of = h.of
        BY <1>0, <2>1, <2>7, HostAfter
      <4>3. QED
        BY <1>1, <2>3, <4>1, <4>2
    <3>3. QED
      BY <3>1, <3>2
  <2>8. ASSUME NEW i \in DOMAIN Coming'
        PROVE  stored'[cmdlookup'[Coming'[i].tag]]
                = IF Coming'[i].op = WR_OK THEN <<Whole(cmdlookup'[Coming'[i].tag])>> ELSE <<>>
    <3>1. CASE i = Len(Coming) + 1
      BY <2>2, <2>3, <2>4, <2>5, <3>1
    <3>2. CASE i \in DOMAIN Coming
      <4>1. Coming'[i] = Coming[i] /\ cmdlookup'[Coming'[i].tag] = Of(Coming[i]) /\ Of(Coming[i]) \in Commands
        BY <1>0, <2>2, <2>4, <3>2 DEF Of, InTurn, Fitting
      <4>2. CASE r.op = WR_OK
        <5>1. Coming[i].tag # h.tag
          <6>1. ~Second(r) /\ r.op # XLATE_DONE
            BY <4>2 DEF Second, WR_OK, RD_OK, XLATE_DONE
          <6>2. QED
            BY <1>0, <2>2, <3>2, <6>1 DEF InTurn
        <5>2. QED
          BY <1>1, <2>3, <2>5, <3>2, <4>1, <5>1
      <4>3. CASE r.op # WR_OK
        BY <1>1, <2>2, <3>2, <4>1, <4>3
      <4>4. QED
        BY <4>2, <4>3
    <3>3. QED
      BY <2>4, <3>1, <3>2
  <2>9. ASSUME NEW f \in Held', f.cmd
        PROVE  stored'[f.of] = <<>>
    <3>1. f \in Held /\ f.of \in Commands
      <4>1. f \in Held
        BY <2>2, <2>9 DEF Held
      <4>2. QED
        BY <2>9, <4>1, FlitTypes DEF Held
    <3>2. QED
      BY <1>2, <2>3, <2>5, <2>9, <3>1
  <2>10. /\ \A c \in Commands : stored'[c] \in {<<>>, <<Whole(c)>>}
         /\ \A c \in Commands \ taken' : stored'[c] = <<>>
    BY <1>1, <2>2, <2>3, <2>5
  <2>11. QED
    BY <1>3, <2>7, <2>8, <2>9, <2>10
<1>5. CASE ~\E t \in Tags : Host(t)
  <2>1. stored' = stored /\ taken \subseteq taken'
    <3>1. \A c \in Commands : NetCommand(c) => stored' = stored /\ taken' = taken \cup {c}
      BY DEF NetCommand
    <3>2. Ingress \/ CmdFifoLoad \/ RtyEng \/ UNCHANGED vars => stored' = stored /\ taken' = taken
      BY DEF Ingress, EnableIngress, NetData, RtyCommand, RtyData, CmdFifoLoad, vars,
             RtyEng, ToJail, Reissue, ReleaseJail, MoveData, ReleaseData
    <3>3. RespEng => stored' = stored /\ taken' = taken
      BY DEF RespEng, LoadTags, RetryResponse, DataResponse, NoDataResponse, DropResponse, PassData,
             ReplayData, ToNetwork
    <3>4. QED
      BY <1>5, <3>1, <3>2, <3>3 DEF Next
  <2>2. \A h \in host' : stored'[h.of] = <<>>
    <3> SUFFICES ASSUME NEW h \in host'
                 PROVE  stored[h.of] = <<>>
      BY <2>1
    <3>1. \/ \E g \in host : h.of = g.of
          \/ h.of \in Commands \ taken
          \/ \E f \in Held : f.cmd /\ h.of = f.of
      BY <1>5, HostFrom
    <3>2. QED
      BY <1>1, <1>2, <3>1
  <2>3. ASSUME NEW i \in DOMAIN Coming'
        PROVE  stored'[cmdlookup'[Coming'[i].tag]]
                = IF Coming'[i].op = WR_OK THEN <<Whole(cmdlookup'[Coming'[i].tag])>> ELSE <<>>
    <3>1. PICK j \in DOMAIN Coming : Coming'[i] = Coming[j]
      BY <1>5, <2>3, ComingFrom
    <3>2. cmdlookup'[Coming[j].tag] = Of(Coming[j])
      BY <1>5, <3>1, ComingFrom DEF Of
    <3>3. QED
      BY <1>1, <2>1, <3>1, <3>2
  <2>4. ASSUME NEW f \in Held', f.cmd
        PROVE  stored'[f.of] = <<>>
    <3>1. CASE f \in Held
      BY <1>2, <2>1, <2>4, <3>1
    <3>2. CASE RetryResponse /\ f = Command(Head(combo).of, Head(combo).resp.tag, Anno(Head(combo).resp))
      <4>1. combo # <<>> /\ eng.st = "GET_CMD" /\ RespState(Head(combo).resp) = "retry"
        BY <3>2 DEF RetryResponse, GetResponse
      <4>2. /\ 1 \in DOMAIN Coming /\ Coming[1] = Head(combo).resp /\ Head(combo).of = Of(Coming[1])
            /\ Fitting(Coming[1], Head(combo).of) /\ Coming[1] \in AnyResponse
        BY <4>1, Taken
      <4>3. Coming[1].op # WR_OK
        <5>1. Coming[1].op = XLATE_DONE \/ Coming[1].code = RTY
          BY <4>1, <4>2, StateOf
        <5>2. QED
          BY <4>2, <5>1 DEF Fitting, XLATE_DONE, RTY, WR_OK, RD_FAIL, WR_FAIL
      <4>4. f.of = Of(Coming[1])
        BY <3>2, <4>2 DEF Command
      <4>5. QED
        BY <1>1, <2>1, <4>2, <4>3, <4>4
    <3>3. QED
      BY <2>4, <3>1, <3>2, HeldAfter
  <2>5. QED
    BY <1>1, <1>3, <2>1, <2>2, <2>3, <2>4
<1>6. QED
  BY <1>4, <1>5

\* What OwnAnswer says of an answer s of c.
Proper(c, s) ==
    LET n == FlitsOf(Dl[c])
        Wholly == IF c \in Writes THEN <<Header(WR_OK)>> ELSE <<Header(RD_OK)>> \o Whole(c)
        InHalves == <<Header(RD_OK)>> \o SubSeq(Whole(c), 1, 2)
                       \o <<Header(RD_OK)>> \o SubSeq(Whole(c), 3, 4)
        Prefix(t) == Len(s) <= Len(t) /\ s = SubSeq(t, 1, Len(s))
    IN \/ Prefix(Wholly)
       \/ c \notin Writes /\ n = 4 /\ Prefix(InHalves)
       \/ s = <<Header(IF c \in Writes THEN WR_FAIL ELSE RD_FAIL)>>

\* OwnAnswer, command by command.
LEMMA ProperIs ==
    /\ OwnAnswer <=> \A c \in Commands : Proper(c, got[c])
    /\ OwnAnswer' <=> \A c \in Commands : Proper(c, got'[c])
<1>1. OwnAnswer <=> \A c \in Commands : Proper(c, got[c])
  BY DEF OwnAnswer, Proper
<1>2. OwnAnswer' <=> \A c \in Commands : Proper(c, got'[c])
  BY DEF OwnAnswer, Proper
<1>3. QED
  BY <1>1, <1>2

\* A sequence that agrees with the first elements of t is a prefix of it.
LEMMA IsPrefix ==
    ASSUME NEW T, NEW t \in Seq(T), NEW s \in Seq(T), Len(s) <= Len(t),
           \A i \in 1..Len(s) : s[i] = t[i]
    PROVE  s = SubSeq(t, 1, Len(s))
<1>1. Len(s) \in Nat /\ Len(t) \in Nat /\ 1 \in 1..Len(t) + 1 /\ Len(s) \in 0..Len(t)
  BY LenProperties
<1>2. /\ SubSeq(t, 1, Len(s)) \in Seq(T) /\ Len(SubSeq(t, 1, Len(s))) = Len(s)
      /\ \A i \in 1..Len(s) : SubSeq(t, 1, Len(s))[i] = t[i]
  BY <1>1
<1>3. QED
  BY <1>2, SeqEqual

\* The answers that OwnAnswer allows, flit by flit.
LEMMA ProperCases ==
    ASSUME NEW c \in Commands, NEW s \in Seq(NetFlits)
    PROVE  /\ s = <<>> => Proper(c, s)
           /\ \A op \in {WR_OK, RD_FAIL, WR_FAIL} :
                 s = <<Header(op)>> /\ (op = RD_FAIL <=> c \notin Writes) => Proper(c, s)
           /\ \A n \in 0..FlitsOf(Dl[c]) + 1 :
                 c \in Reads /\ UptoWhole(s, c, n) => Proper(c, s)
           /\ \A n \in 0..6 : c \in Reads /\ Dl[c] = 3 /\ UptoHalves(s, c, n) => Proper(c, s)
<1> DEFINE F == FlitsOf(Dl[c])
           W == IF c \in Writes THEN <<Header(WR_OK)>> ELSE <<Header(RD_OK)>> \o Whole(c)
           H == <<Header(RD_OK)>> \o SubSeq(Whole(c), 1, 2) \o <<Header(RD_OK)>> \o SubSeq(Whole(c), 3, 4)
<1>1. F \in {1, 2, 4} /\ (Dl[c] = 3 => F = 4)
  BY Lengths
<1>2. /\ Whole(c) \in Seq(NetFlits) /\ Len(Whole(c)) = F
      /\ \A i \in 1..F : Whole(c)[i] = Data(c, i)
  <2>1. \A i \in 1..F : Data(c, i) \in NetFlits
    BY <1>1 DEF NetFlits, DataFlits
  <2>2. Whole(c) \in [1..F -> NetFlits] /\ F \in Nat /\ \A i \in 1..F : Whole(c)[i] = Data(c, i)
    BY <1>1, <2>1 DEF Whole
  <2>3. QED
    BY <2>2
<1>3. Header(WR_OK) \in NetFlits /\ Header(RD_OK) \in NetFlits
  BY DEF NetFlits
<1> HIDE DEF F
<1>4. /\ c \in Writes => W \in Seq(NetFlits) /\ Len(W) = 1 /\ W[1] = Header(WR_OK)
      /\ c \notin Writes => /\ W \in Seq(NetFlits) /\ Len(W) = F + 1 /\ W[1] = Header(RD_OK)
                            /\ \A i \in 2..F + 1 : W[i] = Data(c, i - 1)
  <2>1. CASE c \in Writes
    <3>1. W = <<Header(WR_OK)>>
      BY <2>1
    <3>2. QED
      BY <1>3, <2>1, <3>1
  <2>2. CASE c \notin Writes
    <3>1. W = <<Header(RD_OK)>> \o Whole(c)
      BY <2>2
    <3>2. <<Header(RD_OK)>> \in Seq(NetFlits) /\ Len(<<Header(RD_OK)>>) = 1
      BY <1>3
    <3>3. /\ W \in Seq(NetFlits) /\ Len(W) = F + 1 /\ W[1] = Header(RD_OK)
          /\ \A i \in 2..F + 1 : W[i] = Whole(c)[i - 1] /\ i - 1 \in 1..F
      BY <1>1, <1>2, <3>1, <3>2
    <3>4. QED
      BY <1>2, <2>2, <3>3
  <2>3. QED
    BY <2>1, <2>2
<1>5. ASSUME F = 4
      PROVE  /\ H \in Seq(NetFlits) /\ Len(H) = 6
             /\ H[1] = Header(RD_OK) /\ H[4] = Header(RD_OK)
             /\ H[2] = Data(c, 1) /\ H[3] = Data(c, 2) /\ H[5] = Data(c, 3) /\ H[6] = Data(c, 4)
  <2> DEFINE a == SubSeq(Whole(c), 1, 2)
             b == SubSeq(Whole(c), 3, 4)
             hd == <<Header(RD_OK)>>
  <2>1. /\ a \in Seq(NetFlits) /\ Len(a) = 2 /\ a[1] = Data(c, 1) /\ a[2] = Data(c, 2)
        /\ b \in Seq(NetFlits) /\ Len(b) = 2 /\ b[1] = Data(c, 3) /\ b[2] = Data(c, 4)
    <3>1. /\ \A i \in 1..2 : Whole(c)[i] \in NetFlits /\ Whole(c)[i] = Data(c, i)
          /\ \A i \in 3..4 : Whole(c)[i] \in NetFlits /\ Whole(c)[i] = Data(c, i)
      <4>1. Whole(c) \in [1..4 -> NetFlits]
        BY <1>2, <1>5, LenProperties
      <4>2. \A i \in 1..4 : Whole(c)[i] = Data(c, i)
        BY <1>2, <1>5
      <4>3. \A i \in 1..4 : Whole(c)[i] \in NetFlits
        BY <4>1
      <4>4. QED
        BY <4>2, <4>3
    <3>2. a \in Seq(NetFlits) /\ Len(a) = 2 /\ \A i \in 1..2 : a[i] = Whole(c)[1 + i - 1]
      BY <3>1, SubSeqProperties
    <3>3. b \in Seq(NetFlits) /\ Len(b) = 2 /\ \A i \in 1..2 : b[i] = Whole(c)[3 + i - 1]
      BY <3>1, SubSeqProperties
    <3> HIDE DEF a, b
    <3>4. a[1] = Whole(c)[1] /\ a[2] = Whole(c)[2] /\ b[1] = Whole(c)[3] /\ b[2] = Whole(c)[4]
      BY <3>2, <3>3
    <3>5. QED
      BY <3>1, <3>2, <3>3, <3>4
  <2>2. hd \in Seq(NetFlits) /\ Len(hd) = 1 /\ hd[1] = Header(RD_OK)
    BY <1>3
  <2> DEFINE u == hd \o a
             v == u \o hd
  <2>3. H = v \o b
    OBVIOUS
  <2> HIDE DEF a, b, hd
  <2>4. /\ u \in Seq(NetFlits) /\ Len(u) = 3
        /\ u[1] = Header(RD_OK) /\ u[2] = Data(c, 1) /\ u[3] = Data(c, 2)
    <3>1. /\ u \in Seq(NetFlits) /\ Len(u) = Len(hd) + Len(a)
          /\ \A i \in 1..Len(hd) + Len(a) : u[i] = IF i <= Len(hd) THEN hd[i] ELSE a[i - Len(hd)]
      BY <2>1, <2>2, ConcatProperties, Zenon
    <3> HIDE DEF u
    <3>2. \A i \in 1..3 : u[i] = IF i <= 1 THEN hd[i] ELSE a[i - 1]
      BY <2>1, <2>2, <3>1
    <3>3. u[1] = hd[1] /\ u[2] = a[1] /\ u[3] = a[2]
      BY <3>2
    <3>4. QED
      BY <2>1, <2>2, <3>1, <3>3
  <2> HIDE DEF u
  <2>5. /\ v \in Seq(NetFlits) /\ Len(v) = 4 /\ v[4] = Header(RD_OK)
        /\ v[1] = Header(RD_OK) /\ v[2] = Data(c, 1) /\ v[3] = Data(c, 2)
    <3>1. /\ v \in Seq(NetFlits) /\ Len(v) = Len(u) + Len(hd)
          /\ \A i \in 1..Len(u) + Len(hd) : v[i] = IF i <= Len(u) THEN u[i] ELSE hd[i - Len(u)]
      BY <2>2, <2>4, ConcatProperties, Zenon
    <3> HIDE DEF v
    <3>2. \A i \in 1..4 : v[i] = IF i <= 3 THEN u[i] ELSE hd[i - 3]
      BY <2>2, <2>4, <3>1
    <3>3. v[1] = u[1] /\ v[2] = u[2] /\ v[3] = u[3] /\ v[4] = hd[1]
      BY <3>2
    <3>4. QED
      BY <2>2, <2>4, <3>1, <3>3
  <2> HIDE DEF v, H
  <2>6. /\ H \in Seq(NetFlits) /\ Len(H) = Len(v) + Len(b)
        /\ \A i \in 1..Len(v) + Len(b) : H[i] = IF i <= Len(v) THEN v[i] ELSE b[i - Len(v)]
    BY <2>1, <2>3, <2>5, ConcatProperties, Zenon
  <2>7. \A i \in 1..6 : H[i] = IF i <= 4 THEN v[i] ELSE b[i - 4]
    BY <2>1, <2>5, <2>6
  <2>8. /\ H[1] = v[1] /\ H[2] = v[2] /\ H[3] = v[3] /\ H[4] = v[4]
        /\ H[5] = b[1] /\ H[6] = b[2]
    BY <2>7
  <2>9. QED
    BY <2>1, <2>5, <2>6, <2>8
<1>6. /\ Len(s) <= Len(W) /\ s = SubSeq(W, 1, Len(s)) => Proper(c, s)
      /\ c \notin Writes /\ F = 4 /\ Len(s) <= Len(H) /\ s = SubSeq(H, 1, Len(s)) => Proper(c, s)
      /\ s = <<Header(IF c \in Writes THEN WR_FAIL ELSE RD_FAIL)>> => Proper(c, s)
  BY DEF Proper, F
<1> HIDE DEF W, H
<1>7. W \in Seq(NetFlits) /\ Len(W) >= 1
  BY <1>1, <1>4
<1>8. ASSUME s = <<>>
      PROVE  Proper(c, s)
  BY <1>6, <1>7, <1>8, IsPrefix
<1>9. ASSUME NEW op \in {WR_OK, RD_FAIL, WR_FAIL}, s = <<Header(op)>>, op = RD_FAIL <=> c \notin Writes
      PROVE  Proper(c, s)
  <2>1. CASE op = WR_OK
    <3>1. c \in Writes /\ Len(s) = 1 /\ s[1] = W[1] /\ Len(W) = 1
      BY <1>4, <1>9, <2>1 DEF WR_OK, RD_FAIL
    <3>2. QED
      BY <1>6, <1>7, <3>1, IsPrefix
  <2>2. CASE op # WR_OK
    BY <1>6, <1>9, <2>2 DEF WR_OK, RD_FAIL, WR_FAIL
  <2>3. QED
    BY <2>1, <2>2
<1>10. ASSUME NEW n \in 0..F + 1, c \in Reads, UptoWhole(s, c, n)
       PROVE  Proper(c, s)
  <2>1. c \notin Writes /\ Len(s) = n
    BY <1>10 DEF Reads, UptoWhole
  <2>2. \A i \in 1..n : s[i] = IF i = 1 THEN Header(RD_OK) ELSE Data(c, i - 1)
    BY <1>10 DEF UptoWhole
  <2>3. \A i \in 1..n : i = 1 \/ i \in 2..F + 1
    BY <1>1, <1>10
  <2>4. Len(s) <= Len(W) /\ \A i \in 1..Len(s) : s[i] = W[i]
    BY <1>1, <1>4, <1>10, <2>1, <2>2, <2>3
  <2>5. QED
    BY <1>6, <1>7, <2>4, IsPrefix
<1>11. ASSUME NEW n \in 0..6, c \in Reads, Dl[c] = 3, UptoHalves(s, c, n)
       PROVE  Proper(c, s)
  <2>1. c \notin Writes /\ F = 4 /\ Len(s) = n
    BY <1>1, <1>11 DEF Reads, UptoHalves
  <2>2. \A i \in 1..n : s[i] = IF i \in {1, 4} THEN Header(RD_OK)
                               ELSE Data(c, IF i < 4 THEN i - 1 ELSE i - 2)
    BY <1>11 DEF UptoHalves
  <2>3. \A i \in 1..n : i \in {1, 2, 3, 4, 5, 6}
    BY <1>11
  <2>4. Len(s) <= Len(H) /\ \A i \in 1..Len(s) : s[i] = H[i]
    BY <1>5, <1>11, <2>1, <2>2, <2>3
  <2>5. QED
    BY <1>5, <1>6, <2>1, <2>4, IsPrefix
<1>12. QED
  BY <1>8, <1>9, <1>10, <1>11 DEF F

\* The first half of the read with tag t is before response i after a step.
NextHalf(t, i) ==
    \/ Passing' /\ eng'.tag = t
    \/ UptoHalves(got'[cmdlookup[t]], cmdlookup[t], 3)
    \/ \E j \in DOMAIN Coming' : j < i /\ Coming'[j].tag = t /\ First(Coming'[j])

\* What is passed of the answer of c, when the engine is e and the network has s.
PassingOf(e, c, s) ==
    \/ e.keep /\ Dl[c] = 3 /\ e.cdata \in 1..2 /\ UptoHalves(s, c, 3 - e.cdata)
    \/ ~e.keep /\ e.cdata \in 1..FlitsOf(Dl[c]) /\ UptoWhole(s, c, FlitsOf(Dl[c]) + 1 - e.cdata)
    \/ ~e.keep /\ Dl[c] = 3 /\ e.cdata \in 1..2 /\ UptoHalves(s, c, 6 - e.cdata)

\* Delivered after a step, from facts about the lookup of the state before it.
LEMMA DeliveredIf ==
    ASSUME TypeOK',
           \A i \in DOMAIN Coming' : cmdlookup'[Coming'[i].tag] = cmdlookup[Coming'[i].tag],
           \A h \in host' : h.st = "half" => cmdlookup'[h.tag] = cmdlookup[h.tag],
           Passing' => cmdlookup'[eng'.tag] = cmdlookup[eng'.tag],
           \A c \in Commands \ taken' : got'[c] = <<>>,
           \A i \in DOMAIN Coming' : IF Second(Coming'[i]) THEN NextHalf(Coming'[i].tag, i)
                                     ELSE got'[Of(Coming'[i])] = <<>>,
           \A h \in host' : IF h.st = "half" THEN NextHalf(h.tag, Len(Coming') + 1) ELSE got'[h.of] = <<>>,
           \A f \in Held' : f.cmd => got'[f.of] = <<>>,
           Passing' => /\ cmdlookup[eng'.tag] \in Reads /\ last' = cmdlookup[eng'.tag]
                       /\ PassingOf(eng', cmdlookup[eng'.tag], got'[cmdlookup[eng'.tag]]),
           \A c \in Commands : Proper(c, got'[c])
    PROVE  Delivered'
<1> DEFINE FirstN(r) == r.op = RD_OK /\ r.dl # Dl[cmdlookup'[r.tag]] /\ r.dp = 0
           Half(t, i) == \/ Passing' /\ eng'.tag = t
                         \/ UptoHalves(got'[cmdlookup'[t]], cmdlookup'[t], 3)
                         \/ \E j \in DOMAIN Coming' : j < i /\ Coming'[j].tag = t /\ FirstN(Coming'[j])
<1>1. \A j \in DOMAIN Coming' : First(Coming'[j]) => FirstN(Coming'[j])
  BY DEF First, Of
<1> HIDE DEF FirstN
<1>2. \A t, i : cmdlookup'[t] = cmdlookup[t] /\ NextHalf(t, i) => Half(t, i)
  BY <1>1 DEF NextHalf
<1> HIDE DEF Half
<1>3. \A i \in DOMAIN Coming' : IF Second(Coming'[i]) THEN Half(Coming'[i].tag, i)
                                ELSE got'[cmdlookup'[Coming'[i].tag]] = <<>>
  BY <1>2 DEF Of
<1>4. \A h \in host' : IF h.st = "half" THEN Half(h.tag, Len(Coming') + 1) ELSE got'[h.of] = <<>>
  BY <1>2
<1>5. \A s \in {rtyfifo', jail', out'} : \A i \in DOMAIN s : s[i].cmd => got'[s[i].of] = <<>>
  BY HeldNext
<1>6. OwnAnswer'
  BY ProperIs
<1>7. (\A i \in DOMAIN Coming :
          IF Second(Coming[i]) THEN HalfBefore(Coming[i].tag, i) ELSE got[Of(Coming[i])] = <<>>)'
  BY <1>3 DEF Half, FirstN, HalfBefore, First, Second, Of
<1>8. (\A h \in host :
          IF h.st = "half" THEN HalfBefore(h.tag, Len(Coming) + 1) ELSE got[h.of] = <<>>)'
  BY <1>4 DEF Half, FirstN, HalfBefore, First, Second, Of
<1>9. (Passing =>
          LET c == cmdlookup[eng.tag]
          IN /\ c \in Reads /\ last = c
             /\ \/ /\ eng.keep /\ Dl[c] = 3 /\ eng.cdata \in 1..2
                   /\ UptoHalves(got[c], c, 3 - eng.cdata)
                \/ /\ ~eng.keep /\ eng.cdata \in 1..FlitsOf(Dl[c])
                   /\ UptoWhole(got[c], c, FlitsOf(Dl[c]) + 1 - eng.cdata)
                \/ /\ ~eng.keep /\ Dl[c] = 3 /\ eng.cdata \in 1..2
                   /\ UptoHalves(got[c], c, 6 - eng.cdata))'
  BY DEF PassingOf
<1>10. QED
  BY <1>5, <1>6, <1>7, <1>8, <1>9 DEF Delivered

\* The parts of Delivered.
LEMMA DeliveredNow ==
    ASSUME IInv
    PROVE  /\ \A c \in Commands \ taken : got[c] = <<>>
           /\ \A i \in DOMAIN Coming : IF Second(Coming[i]) THEN HalfBefore(Coming[i].tag, i)
                                       ELSE got[Of(Coming[i])] = <<>>
           /\ \A h \in host : IF h.st = "half" THEN HalfBefore(h.tag, Len(Coming) + 1) ELSE got[h.of] = <<>>
           /\ \A f \in Held : f.cmd => got[f.of] = <<>>
           /\ Passing => /\ cmdlookup[eng.tag] \in Reads /\ last = cmdlookup[eng.tag]
                         /\ PassingOf(eng, cmdlookup[eng.tag], got[cmdlookup[eng.tag]])
           /\ \A c \in Commands : Proper(c, got[c])
<1>0. Delivered
  BY DEF IInv
<1>1. \A f \in Held : f.cmd => got[f.of] = <<>>
  BY <1>0 DEF Delivered, Held
<1>2. \A c \in Commands : Proper(c, got[c])
  BY <1>0, ProperIs DEF Delivered
<1>3. Passing => /\ cmdlookup[eng.tag] \in Reads /\ last = cmdlookup[eng.tag]
                 /\ PassingOf(eng, cmdlookup[eng.tag], got[cmdlookup[eng.tag]])
  BY <1>0 DEF Delivered, PassingOf
<1>4. QED
  BY <1>0, <1>1, <1>2, <1>3 DEF Delivered

\* The commands of tags in use stay where they are stored.
LEMMA StandFor ==
    ASSUME IInv, [Next]_vars
    PROVE  /\ \A h \in host : cmdlookup'[h.tag] = cmdlookup[h.tag]
           /\ Passing => cmdlookup'[eng.tag] = cmdlookup[eng.tag]
<1>1. CASE \E c \in Commands : NetCommand(c)
  <2>1. PICK c \in Commands : NetCommand(c)
    BY <1>1
  <2>2. /\ ~HostHas(Head(capptag)) /\ ~(eng.st = "GET_DATA" /\ eng.tag = Head(capptag))
        /\ cmdlookup' = [cmdlookup EXCEPT ![Head(capptag)] = c]
    BY <2>1, FreshTag
  <2>3. cmdlookup \in [Tags -> Commands \cup {NoCommand}] /\ (\A h \in host : h.tag \in Tags)
    BY DEF IInv, TypeOK, Hosted
  <2>4. Passing => eng.tag \in Tags /\ eng.tag # Head(capptag)
    BY <2>2 DEF Passing, IInv, Machines
  <2>5. \A h \in host : h.tag # Head(capptag)
    BY <2>2 DEF HostHas
  <2>6. QED
    BY <2>2, <2>3, <2>4, <2>5
<1>2. CASE ~\E c \in Commands : NetCommand(c)
  BY <1>2, LookupSame
<1>3. QED
  BY <1>1, <1>2

\* Nothing that concerns the network moves.
LEMMA DeliveredSame ==
    ASSUME IInv, [Next]_vars, TypeOK', ~\E t \in Tags : Host(t), ~RetryResponse,
           got' = got, taken \subseteq taken', Coming' = Coming,
           Passing' => eng' = eng /\ last' = last, Passing' = Passing
    PROVE  Delivered'
<1>1. \A t, i : HalfBefore(t, i) => NextHalf(t, i)
  BY DEF HalfBefore, NextHalf
<1>2. \A h \in host' : \/ \E g \in host : h.of = g.of /\ h.tag = g.tag /\ h.st = g.st
                       \/ h.st = "new" /\ got[h.of] = <<>>
  <2> SUFFICES ASSUME NEW h \in host'
               PROVE  \/ \E g \in host : h.of = g.of /\ h.tag = g.tag /\ h.st = g.st
                      \/ h.st = "new" /\ got[h.of] = <<>>
    OBVIOUS
  <2>1. \/ \E g \in host : h.of = g.of /\ h.tag = g.tag /\ h.st = g.st
        \/ h.st = "new" /\ h.of \in Commands \ taken
        \/ h.st = "new" /\ \E f \in Held : f.cmd /\ h.of = f.of
    BY HostFrom
  <2>2. QED
    BY <2>1, DeliveredNow
<1>3. \A h \in host' : IF h.st = "half" THEN NextHalf(h.tag, Len(Coming') + 1) ELSE got'[h.of] = <<>>
  <2> SUFFICES ASSUME NEW h \in host'
               PROVE  IF h.st = "half" THEN NextHalf(h.tag, Len(Coming') + 1) ELSE got'[h.of] = <<>>
    OBVIOUS
  <2>1. CASE h.st = "new" /\ got[h.of] = <<>>
    BY <2>1
  <2>2. ASSUME NEW g \in host, h.of = g.of, h.tag = g.tag, h.st = g.st
        PROVE  IF h.st = "half" THEN NextHalf(h.tag, Len(Coming') + 1) ELSE got'[h.of] = <<>>
    <3>1. IF h.st = "half" THEN HalfBefore(h.tag, Len(Coming) + 1) ELSE got[h.of] = <<>>
      BY <2>2, DeliveredNow
    <3>2. Len(Coming') = Len(Coming)
      OBVIOUS
    <3>3. QED
      BY <1>1, <3>1, <3>2
  <2>3. QED
    BY <1>2, <2>1, <2>2
<1>4. \A h \in host' : h.st = "half" => cmdlookup'[h.tag] = cmdlookup[h.tag]
  BY <1>2, StandFor
<1>5. \A i \in DOMAIN Coming' : IF Second(Coming'[i]) THEN NextHalf(Coming'[i].tag, i)
                                ELSE got'[Of(Coming'[i])] = <<>>
  BY <1>1, DeliveredNow
<1>6. \A i \in DOMAIN Coming' : cmdlookup'[Coming'[i].tag] = cmdlookup[Coming'[i].tag]
  BY ComingFrom
<1>7. \A f \in Held' : f.cmd => got'[f.of] = <<>>
  BY HeldAfter, DeliveredNow
<1>8. /\ \A c \in Commands \ taken' : got'[c] = <<>>
      /\ \A c \in Commands : Proper(c, got'[c])
  BY DeliveredNow
<1>9. Passing' => /\ cmdlookup'[eng'.tag] = cmdlookup[eng'.tag]
                  /\ cmdlookup[eng'.tag] \in Reads /\ last' = cmdlookup[eng'.tag]
                  /\ PassingOf(eng', cmdlookup[eng'.tag], got'[cmdlookup[eng'.tag]])
  BY StandFor, DeliveredNow
<1>10. QED
  BY <1>3, <1>4, <1>5, <1>6, <1>7, <1>8, <1>9, DeliveredIf

\* The host says something.
LEMMA DeliveredHost ==
    ASSUME IInv, [Next]_vars, TypeOK', NEW t \in Tags, Host(t)
    PROVE  Delivered'
<1>0. TypeOK
  BY DEF IInv
<1> DEFINE n == Len(Coming)
<1>1. PICK h \in host, r \in AnyResponse, data \in Seq(DataFlits) : Says(h, r, data)
  BY HostSays
<1>2. /\ r.tag = h.tag /\ Fitting(r, h.of) /\ (h.st = "half" <=> Second(r))
      /\ UNCHANGED <<cmdlookup, combo, eng, got, last, taken, rtyfifo, jail, out>>
      /\ tlresp' = Append(tlresp, r)
  BY <1>1 DEF Says, lookups, retryVars, netVars
<1>3. /\ DOMAIN Coming' = 1..n + 1 /\ DOMAIN Coming = 1..n /\ n \in Nat /\ Len(Coming') = n + 1
      /\ \A i \in 1..n : Coming'[i] = Coming[i]
      /\ Coming'[n + 1] = r
  BY <1>0, <1>2, ComingAfter, Zenon
<1> HIDE DEF n
<1>4. \A u, i : HalfBefore(u, i) => NextHalf(u, i)
  <2>1. Passing' = Passing
    BY <1>2 DEF Passing
  <2>2. \A j \in DOMAIN Coming : j \in DOMAIN Coming' /\ Coming'[j] = Coming[j]
    BY <1>3
  <2>3. QED
    BY <1>2, <2>1, <2>2 DEF HalfBefore, NextHalf
<1>5. \A u, i : NextHalf(u, n + 1) => NextHalf(u, (n + 1) + 1)
  <2>1. \A j \in DOMAIN Coming' : j < n + 1 => j < (n + 1) + 1
    BY <1>3
  <2>2. QED
    BY <2>1 DEF NextHalf
<1>6. h.of = cmdlookup[h.tag]
  BY OtherCommands
<1>7. /\ \A i \in 1..n : IF Second(Coming[i]) THEN NextHalf(Coming[i].tag, i) ELSE got[Of(Coming[i])] = <<>>
      /\ \A k \in host : IF k.st = "half" THEN NextHalf(k.tag, n + 1) ELSE got[k.of] = <<>>
  BY <1>3, <1>4, DeliveredNow DEF n
<1>8. \A i \in DOMAIN Coming' : IF Second(Coming'[i]) THEN NextHalf(Coming'[i].tag, i)
                                ELSE got'[Of(Coming'[i])] = <<>>
  <2> SUFFICES ASSUME NEW i \in 1..n + 1
               PROVE  IF Second(Coming'[i]) THEN NextHalf(Coming'[i].tag, i) ELSE got[Of(Coming'[i])] = <<>>
    BY <1>2, <1>3
  <2>1. CASE i = n + 1
    <3>1. Of(r) = h.of /\ Coming'[i] = r
      BY <1>2, <1>3, <1>6, <2>1 DEF Of
    <3>2. QED
      BY <1>2, <1>7, <2>1, <3>1
  <2>2. CASE i \in 1..n
    BY <1>3, <1>7, <2>2
  <2>3. QED
    BY <1>3, <2>1, <2>2
<1>9. \A k \in host' : IF k.st = "half" THEN NextHalf(k.tag, Len(Coming') + 1) ELSE got'[k.of] = <<>>
  <2> SUFFICES ASSUME NEW k \in host'
               PROVE  IF k.st = "half" THEN NextHalf(k.tag, (n + 1) + 1) ELSE got[k.of] = <<>>
    BY <1>2, <1>3
  <2>1. CASE k \in host
    BY <1>5, <1>7, <2>1
  <2>2. CASE k \notin host
    <3>1. /\ k.of = h.of /\ k.tag = h.tag
          /\ (First(r) /\ k.st = "half") \/ (Pending(r) /\ k.st = "translating")
      BY <1>0, <1>1, <2>2, HostAfter
    <3>2. CASE First(r) /\ k.st = "half"
      <4>1. n + 1 \in DOMAIN Coming' /\ n + 1 < (n + 1) + 1 /\ Coming'[n + 1].tag = k.tag /\ First(Coming'[n + 1])
        BY <1>2, <1>3, <3>1, <3>2
      <4>2. QED
        BY <3>2, <4>1 DEF NextHalf
    <3>3. CASE Pending(r) /\ k.st = "translating"
      <4>1. ~Second(r)
        BY <1>2, <3>3 DEF Pending, Second, Fitting, PEND, RD_OK, RD_FAIL, WR_FAIL
      <4>2. QED
        BY <1>2, <1>7, <3>1, <3>3, <4>1
    <3>4. QED
      BY <3>1, <3>2, <3>3
  <2>3. QED
    BY <2>1, <2>2
<1>10. Held' = Held
  BY <1>2 DEF Held
<1>11. Passing' => /\ cmdlookup[eng'.tag] \in Reads /\ last' = cmdlookup[eng'.tag]
                   /\ PassingOf(eng', cmdlookup[eng'.tag], got'[cmdlookup[eng'.tag]])
  <2>1. Passing' = Passing
    BY <1>2 DEF Passing
  <2>2. QED
    BY <1>2, <2>1, DeliveredNow
<1>12. /\ \A c \in Commands \ taken' : got'[c] = <<>>
       /\ \A c \in Commands : Proper(c, got'[c])
       /\ \A f \in Held' : f.cmd => got'[f.of] = <<>>
  BY <1>2, <1>10, DeliveredNow
<1>13. QED
  BY <1>2, <1>8, <1>9, <1>11, <1>12, DeliveredIf

\* The first response is taken, and what is left of its tag is in the engine.
LEMMA DeliveredTaken ==
    ASSUME IInv, [Next]_vars, TypeOK', NEW state, GetResponse(state), NEW t0, NEW c,
           t0 = Coming[1].tag, c = cmdlookup[t0], UNCHANGED <<cmdlookup, host, tlresp, taken>>,
           \A i \in 2..Len(Coming) : Coming[i].tag = t0 =>
              \/ got' = got /\ ~First(Coming[1])
              \/ Second(Coming[i]) /\ Passing' /\ eng'.tag = t0,
           \A h \in host : h.tag = t0 =>
              \/ got' = got /\ ~First(Coming[1])
              \/ h.st = "half" /\ Passing' /\ eng'.tag = t0,
           \A d \in Commands : d # c => got'[d] = got[d],
           \A f \in Held' : f.cmd => got'[f.of] = <<>>,
           Passing' => /\ cmdlookup[eng'.tag] \in Reads /\ last' = cmdlookup[eng'.tag]
                       /\ PassingOf(eng', cmdlookup[eng'.tag], got'[cmdlookup[eng'.tag]]),
           Proper(c, got'[c])
    PROVE  Delivered'
<1>0. TypeOK /\ OneTag /\ InTurn /\ cmdlookup \in [Tags -> Commands \cup {NoCommand}]
  BY DEF IInv, TypeOK
<1> DEFINE n == Len(Coming)
<1>1. combo # <<>> /\ combo' = Tail(combo) /\ eng.st = "GET_CMD" /\ ~Passing
  BY DEF GetResponse, Passing
<1>2. /\ n \in Nat /\ n > 0 /\ DOMAIN Coming = 1..n /\ DOMAIN Coming' = 1..n - 1 /\ Len(Coming') = n - 1
      /\ \A i \in 1..n - 1 : Coming'[i] = Coming[i + 1]
  BY <1>0, <1>1, ComingAfter, Zenon
<1> HIDE DEF n
<1>3. /\ \A i \in 1..n - 1 : i + 1 \in 1..n /\ i + 1 \in 2..n
      /\ \A i \in 1..n : Coming[i].tag \in Tags
      /\ t0 \in Tags /\ c \in Commands /\ c \in taken
  <2>1. \A i \in 1..n : Coming[i] \in AnyResponse
    BY <1>0, <1>2, ComingIs, LenProperties
  <2>2. 1 \in 1..n /\ \A i \in 1..n - 1 : i + 1 \in 1..n /\ i + 1 \in 2..n
    BY <1>2
  <2>3. c \in Commands
    BY <1>0, <1>2, <2>2 DEF InTurn, Fitting, Of
  <2>4. t0 \in Tags /\ \A i \in 1..n : Coming[i].tag \in Tags
    BY <2>1, <2>2 DEF AnyResponse
  <2>5. c \in taken
    BY <1>0, <2>3, <2>4, Lengths DEF OneTag
  <2>6. QED
    BY <2>2, <2>3, <2>4, <2>5
<1>4. \A u \in Tags : u # t0 => cmdlookup[u] # c
  BY <1>0, <1>3, Lengths DEF OneTag
\* What is said of another tag, or of this one if its first response was not a first half.
<1>5. ASSUME NEW u \in Tags, NEW i \in 1..n, HalfBefore(u, i + 1),
             u # t0 \/ (got' = got /\ ~First(Coming[1])), cmdlookup[u] \in Commands
      PROVE  NextHalf(u, i)
  <2>1. CASE UptoHalves(got[cmdlookup[u]], cmdlookup[u], 3)
    <3>1. got'[cmdlookup[u]] = got[cmdlookup[u]]
      BY <1>4, <1>5
    <3>2. QED
      BY <2>1, <3>1 DEF NextHalf
  <2>2. ASSUME NEW j \in DOMAIN Coming, j < i + 1, Coming[j].tag = u, First(Coming[j])
        PROVE  NextHalf(u, i)
    <3>1. j # 1 /\ j \in 1..n
      BY <1>2, <1>5, <2>2
    <3>2. j - 1 \in 1..n - 1 /\ (j - 1) + 1 = j /\ j - 1 < i
      BY <1>2, <2>2, <3>1
    <3>3. j - 1 \in DOMAIN Coming' /\ Coming'[j - 1] = Coming[j]
      BY <1>2, <3>2
    <3>4. QED
      BY <2>2, <3>2, <3>3 DEF NextHalf
  <2>3. QED
    BY <1>1, <1>5, <2>1, <2>2 DEF HalfBefore
<1>6. ASSUME NEW i \in DOMAIN Coming'
      PROVE  IF Second(Coming'[i]) THEN NextHalf(Coming'[i].tag, i) ELSE got'[Of(Coming'[i])] = <<>>
  <2> DEFINE r == Coming[i + 1]
  <2>1. /\ i \in 1..n - 1 /\ Coming'[i] = r /\ i + 1 \in 2..n /\ i + 1 \in DOMAIN Coming /\ r.tag \in Tags
        /\ i \in 1..n
    BY <1>2, <1>3
  <2>2. IF Second(r) THEN HalfBefore(r.tag, i + 1) ELSE got[Of(r)] = <<>>
    BY <2>1, DeliveredNow
  <2>3. cmdlookup[r.tag] \in Commands
    BY <1>0, <2>1 DEF InTurn, Fitting, Of
  <2>4. CASE r.tag # t0 \/ (got' = got /\ ~First(Coming[1]))
    <3>1. got'[Of(r)] = got[Of(r)]
      BY <1>4, <2>1, <2>3, <2>4 DEF Of
    <3>2. QED
      BY <1>5, <2>1, <2>2, <2>3, <2>4, <3>1
  <2>5. CASE Second(r) /\ Passing' /\ eng'.tag = t0 /\ r.tag = t0
    BY <2>1, <2>5 DEF NextHalf
  <2>6. QED
    BY <2>1, <2>4, <2>5 DEF n
<1>7. ASSUME NEW h \in host'
      PROVE  IF h.st = "half" THEN NextHalf(h.tag, Len(Coming') + 1) ELSE got'[h.of] = <<>>
  <2>1. /\ h \in host /\ h.tag \in Tags /\ h.of = cmdlookup[h.tag] /\ h.of \in Commands
        /\ Len(Coming') + 1 = n /\ n \in 1..n
    BY <1>0, <1>2, <1>7, OtherCommands DEF TypeOK, Hosted
  <2>2. IF h.st = "half" THEN HalfBefore(h.tag, n + 1) ELSE got[h.of] = <<>>
    BY <2>1, DeliveredNow DEF n
  <2>3. CASE h.tag # t0 \/ (got' = got /\ ~First(Coming[1]))
    <3>1. got'[h.of] = got[h.of]
      BY <1>4, <2>1, <2>3
    <3>2. QED
      BY <1>5, <2>1, <2>2, <2>3, <3>1
  <2>4. CASE h.st = "half" /\ Passing' /\ eng'.tag = t0 /\ h.tag = t0
    BY <2>1, <2>4 DEF NextHalf
  <2>5. QED
    BY <2>1, <2>3, <2>4
<1>8. \A d \in Commands \ taken' : got'[d] = <<>>
  BY <1>3, DeliveredNow
<1>9. \A d \in Commands : Proper(d, got'[d])
  BY DeliveredNow
<1>10. QED
  BY <1>6, <1>7, <1>8, <1>9, DeliveredIf

\* The engine takes a response: a header goes to the network, or nothing does.
LEMMA DeliveredResponse ==
    ASSUME IInv, [Next]_vars, TypeOK', RetryResponse \/ DropResponse \/ NoDataResponse \/ DataResponse
    PROVE  Delivered'
<1>0. /\ TypeOK /\ OneTag /\ InTurn /\ TagsConserved /\ OwnCommand
      /\ got \in [Commands -> Seq(NetFlits)] /\ cmdlookup \in [Tags -> Commands \cup {NoCommand}]
      /\ got' \in [Commands -> Seq(NetFlits)]
  BY DEF IInv, TypeOK
<1> DEFINE x == Coming[1]
           t == x.tag
           c == cmdlookup[t]
           n == Len(Coming)
<1>1. PICK state \in {"retry", "drop", "nodata", "data"} :
         /\ GetResponse(state)
         /\ state = "retry" <=> RetryResponse
         /\ state = "drop" <=> DropResponse
         /\ state = "nodata" <=> NoDataResponse
         /\ state = "data" <=> DataResponse
  BY DEF RetryResponse, DropResponse, NoDataResponse, DataResponse, GetResponse
<1>2. /\ eng.st = "GET_CMD" /\ combo # <<>> /\ x = Head(combo).resp /\ Head(combo).of = c
      /\ x \in AnyResponse /\ Fitting(x, c) /\ t \in Tags /\ c \in Commands /\ RespState(x) = state
      /\ 1 \in DOMAIN Coming
  <2>1. eng.st = "GET_CMD" /\ combo # <<>> /\ RespState(Head(combo).resp) = state
    BY <1>1 DEF GetResponse
  <2>2. QED
    BY <2>1, Taken
<1>3. UNCHANGED <<cmdlookup, host, tlresp, taken>>
  BY DEF RetryResponse, DropResponse, NoDataResponse, DataResponse, ToNetwork, lookups, hostVars, netVars
<1>4. state = IF x.op = RD_OK THEN "data"
              ELSE IF x.op = XLATE_DONE \/ x.code = RTY THEN "retry"
              ELSE IF x.code = PEND THEN "drop" ELSE "nodata"
  BY <1>2, StateOf
<1>5. n \in Nat /\ n > 0 /\ DOMAIN Coming = 1..n
  <2>1. Len(Coming) \in Nat /\ DOMAIN Coming = 1..Len(Coming)
    BY <1>0, ComingAfter, Zenon
  <2>2. Len(Coming) > 0
    BY <1>2, <2>1
  <2>3. QED
    BY <2>1, <2>2
<1>6. /\ \A i \in 2..n : Coming[i].tag = t => \/ First(x) /\ Second(Coming[i])
                                              \/ Pending(x)
      /\ \A h \in host : h.tag = t => \/ First(x) /\ h.st = "half"
                                      \/ Pending(x)
  <2>1. \A i \in 2..n : i \in DOMAIN Coming /\ 1 < i
    BY <1>5
  <2>2. QED
    BY <1>0, <1>2, <2>1 DEF InTurn
<1>7. IF Second(x) THEN HalfBefore(t, 1) ELSE got[c] = <<>>
  BY <1>2, DeliveredNow DEF Of
<1>8. \A f \in Held : f.cmd => f.tag \in Tags /\ f.of = cmdlookup[f.tag] /\ f.of \in Commands /\ (f.tag = t => Retried(t))
  BY <1>0, FlitKinds DEF Held, OwnCommand, Retried
<1>9. ~RetryResponse => \A f \in Held' : f.cmd => f \in Held /\ f.of # c /\ got[f.of] = <<>> /\ f.of \in Commands
  <2> SUFFICES ASSUME ~RetryResponse, NEW f \in Held', f.cmd
               PROVE  f \in Held /\ f.of # c /\ got[f.of] = <<>> /\ f.of \in Commands
    OBVIOUS
  <2>1. f \in Held
    BY HeldAfter
  <2>2. ~Retried(t)
    BY <1>0, <1>2, Quiet
  <2>3. f.tag # t
    BY <1>8, <2>1, <2>2
  <2>4. f.of # c
    BY <1>0, <1>2, <1>8, <2>1, <2>3, Lengths DEF OneTag
  <2>5. QED
    BY <1>8, <2>1, <2>4, DeliveredNow
<1>10. x.op \notin {RD_OK, RD_FAIL, WR_FAIL} => x.code = 0
  BY <1>2 DEF Fitting, RD_OK, RD_FAIL, WR_FAIL
<1> HIDE DEF x, t, c, n
<1>11. CASE RetryResponse \/ DropResponse
  <2>1. got' = got /\ ~Passing'
    BY <1>0, <1>11, EngAfter DEF RetryResponse, DropResponse, netVars, Passing
  <2>2. x.op # RD_OK
    BY <1>1, <1>4, <1>11
  <2>3. ~First(x) /\ ~Second(x)
    BY <2>2 DEF First, Second
  <2>4. \A f \in Held' : f.cmd => got'[f.of] = <<>>
    <3> SUFFICES ASSUME NEW f \in Held', f.cmd
                 PROVE  got[f.of] = <<>>
      BY <2>1
    <3>1. CASE f \in Held
      BY <3>1, DeliveredNow
    <3>2. CASE f.of = c
      BY <1>7, <2>3, <3>2
    <3>3. QED
      BY <1>2, <3>1, <3>2, HeldAfter DEF Command
  <2>5. Proper(c, got'[c])
    BY <1>2, <2>1, DeliveredNow
  <2>6. QED
    BY <1>1, <1>3, <2>1, <2>3, <2>4, <2>5, DeliveredTaken DEF x, t, c
<1>12. CASE NoDataResponse
  <2>1. got' = [got EXCEPT ![c] = Append(@, Header(x.op))] /\ ~Passing'
    BY <1>0, <1>2, <1>12, EngAfter DEF NoDataResponse, ToNetwork, Passing
  <2>2. x.op # RD_OK /\ x.op # XLATE_DONE /\ x.code # PEND
    BY <1>1, <1>4, <1>12
  <2>3. ~First(x) /\ ~Second(x) /\ ~Pending(x)
    BY <2>2 DEF First, Second, Pending
  <2>4. got[c] = <<>> /\ got'[c] = <<Header(x.op)>> /\ \A d \in Commands : d # c => got'[d] = got[d]
    BY <1>0, <1>2, <1>7, <2>1, <2>3
  <2>5. ~RetryResponse
    BY <1>1, <1>12
  <2>6. \A f \in Held' : f.cmd => got'[f.of] = <<>>
    BY <1>9, <2>4, <2>5
  <2>7. Proper(c, got'[c])
    <3>1. /\ x.op \in {WR_OK, RD_FAIL, WR_FAIL}
          /\ x.op = RD_FAIL <=> c \notin Writes
      BY <1>2, <2>2 DEF AnyResponse, Fitting, Reads, RD_OK, RD_FAIL, WR_OK, WR_FAIL
    <3>2. got'[c] \in Seq(NetFlits)
      BY <1>0, <1>2
    <3>3. QED
      BY <1>2, <2>4, <3>1, <3>2, ProperCases
  <2>8. QED
    BY <1>1, <1>3, <1>6, <2>1, <2>3, <2>4, <2>6, <2>7, DeliveredTaken DEF x, t, c, n
<1>13. CASE DataResponse
  <2>1. /\ got' = [got EXCEPT ![c] = Append(@, Header(x.op))] /\ last' = c
        /\ eng'.st = "GET_DATA" /\ eng'.fresh = TRUE /\ eng'.tag = t
        /\ eng'.keep = (x.dl # Dl[c] /\ x.dp = 0) /\ eng'.cdata = FlitsOf(x.dl)
    <3>1. got' = [got EXCEPT ![c] = Append(@, Header(x.op))] /\ last' = c
      BY <1>2, <1>13 DEF DataResponse, ToNetwork
    <3>2. /\ eng'.st = "GET_DATA" /\ eng'.fresh = TRUE
          /\ eng'.tag = Head(combo).resp.tag
          /\ eng'.keep = (Head(combo).resp.dl # Dl[Head(combo).of] /\ Head(combo).resp.dp = 0)
          /\ eng'.cdata = FlitsOf(Head(combo).resp.dl)
      BY <1>0, <1>13, EngAfter
    <3>3. Head(combo).resp = x /\ Head(combo).resp.tag = t /\ Head(combo).of = c
      BY <1>2 DEF t
    <3>4. QED
      BY <3>1, <3>2, <3>3, Zenon
  <2>2. x.op = RD_OK
    BY <1>1, <1>4, <1>13
  <2>3. /\ c \in Reads /\ x.dp \in 0..1 /\ ~Pending(x)
        /\ (x.dl = Dl[c] /\ x.dp = 0) \/ (x.dl = 2 /\ Dl[c] = 3)
    BY <1>2, <2>2 DEF Fitting, AnyResponse, Pending, PEND, RD_OK, RD_FAIL, WR_FAIL
  <2>4. First(x) <=> x.dl # Dl[c] /\ x.dp = 0
    BY <2>2 DEF First, Of, c, t
  <2>5. Second(x) <=> x.dp = 1
    BY <2>2 DEF Second
  <2>6. /\ Passing' /\ eng'.tag = t
        /\ \A d \in Commands : d # c => got'[d] = got[d]
        /\ got'[c] = Append(got[c], Header(RD_OK)) /\ got[c] \in Seq(NetFlits) /\ got'[c] \in Seq(NetFlits)
    BY <1>0, <1>2, <2>1, <2>2 DEF Passing
  <2>7. ~RetryResponse
    BY <1>1, <1>13
  <2>8. \A f \in Held' : f.cmd => got'[f.of] = <<>>
    BY <1>9, <2>6, <2>7
  <2>9. /\ PassingOf(eng', c, got'[c])
        /\ \/ UptoWhole(got'[c], c, 1)
           \/ Dl[c] = 3 /\ \E m \in {1, 4} : UptoHalves(got'[c], c, m)
    <3>1. CASE x.dp = 1
      <4>1. UptoHalves(got[c], c, 3)
        <5>1. ~Passing /\ HalfBefore(t, 1)
          BY <1>2, <1>7, <2>5, <3>1 DEF Passing
        <5>2. \A j \in DOMAIN Coming : ~(j < 1)
          BY <1>5
        <5>3. QED
          BY <5>1, <5>2 DEF HalfBefore, c
      <4>2. Len(got[c]) = 3 /\ \A i \in 1..3 : got[c][i] = IF i \in {1, 4} THEN Header(RD_OK)
                            ELSE Data(c, IF i < 4 THEN i - 1 ELSE i - 2)
        BY <4>1 DEF UptoHalves
      <4>3. Len(got'[c]) = 4 /\ got'[c][4] = Header(RD_OK) /\ \A i \in 1..3 : got'[c][i] = got[c][i]
        BY <2>6, <4>2, AppendProperties, SMTT(30)
      <4>4. UptoHalves(got'[c], c, 4)
        <5>1. \A i \in 1..4 : i = 4 \/ i \in 1..3
          OBVIOUS
        <5>2. QED
          BY <4>2, <4>3, <5>1 DEF UptoHalves
      <4>5. ~eng'.keep /\ eng'.cdata = 2 /\ Dl[c] = 3
        <5>0. x.dp # 0
          BY <3>1
        <5>1. eng'.keep = FALSE
          BY <2>1, <5>0, Zenon
        <5>2. x.dl = 2 /\ Dl[c] = 3
          BY <2>3, <3>1
        <5>3. QED
          BY <2>1, <5>1, <5>2, Lengths
      <4>6. PassingOf(eng', c, got'[c])
        BY <4>4, <4>5 DEF PassingOf
      <4>7. QED
        BY <4>4, <4>5, <4>6
    <3>2. CASE x.dp = 0
      <4>1. got[c] = <<>>
        BY <1>7, <2>5, <3>2
      <4>2. Len(got'[c]) = 1 /\ got'[c][1] = Header(RD_OK)
        BY <2>6, <4>1
      <4>3. UptoWhole(got'[c], c, 1) /\ UptoHalves(got'[c], c, 1)
        BY <4>2 DEF UptoWhole, UptoHalves
      <4>4. CASE x.dl = Dl[c]
        <5>1. eng'.keep = FALSE
          BY <2>1, <4>4, Zenon
        <5>2. eng'.cdata = FlitsOf(Dl[c]) /\ FlitsOf(Dl[c]) \in {1, 2, 4}
          BY <2>1, <4>4, Lengths
        <5>3. FlitsOf(Dl[c]) + 1 - eng'.cdata = 1 /\ eng'.cdata \in 1..FlitsOf(Dl[c])
          BY <5>2
        <5>4. QED
          BY <4>3, <5>1, <5>3 DEF PassingOf
      <4>5. CASE x.dl # Dl[c]
        <5>1. eng'.keep = TRUE
          BY <2>1, <3>2, <4>5, Zenon
        <5>2. eng'.cdata = 2 /\ Dl[c] = 3
          BY <2>1, <2>3, <4>5, Lengths
        <5>3. QED
          BY <4>3, <5>1, <5>2 DEF PassingOf
      <4>6. QED
        BY <4>4, <4>5
    <3>3. QED
      BY <2>3, <3>1, <3>2
  <2>10. Proper(c, got'[c])
    <3>1. 1 \in 0..FlitsOf(Dl[c]) + 1 /\ 1 \in 0..6 /\ 4 \in 0..6
      BY Lengths
    <3>2. QED
      BY <1>2, <2>3, <2>6, <2>9, <3>1, ProperCases
  <2>11. \A i \in 2..n : Coming[i].tag = t => Second(Coming[i]) /\ Passing' /\ eng'.tag = t
    BY <1>6, <2>3, <2>6
  <2>12. \A h \in host : h.tag = t => h.st = "half" /\ Passing' /\ eng'.tag = t
    BY <1>6, <2>3, <2>6
  <2>13. cmdlookup[eng'.tag] = c /\ last' = c
    BY <2>1 DEF c
  <2>14. QED
    BY <1>1, <1>3, <2>3, <2>6, <2>8, <2>9, <2>10, <2>11, <2>12, <2>13, DeliveredTaken, ZenonT(60) DEF x, t, c, n
<1>14. QED
  BY <1>11, <1>12, <1>13

\* The flit of data that goes to the network, and what the network has after it.
LEMMA Passed ==
    ASSUME IInv, PassData, TypeOK', NEW c, c = cmdlookup[eng.tag]
    PROVE  /\ c \in Reads /\ eng.tag \in Tags /\ Passing
           /\ \A d \in Commands : d # c => got'[d] = got[d]
           /\ UNCHANGED <<cmdlookup, host, combo, tlresp, taken, rtyfifo, jail, out>>
           /\ last' = c /\ eng'.tag = eng.tag /\ eng'.keep = eng.keep
           /\ Passing' <=> eng.cdata # 1
           /\ Passing' => PassingOf(eng', c, got'[c])
           /\ eng.cdata = 1 /\ eng.keep => UptoHalves(got'[c], c, 3)
           /\ Proper(c, got'[c])
<1>0. /\ TypeOK /\ ReadData /\ Machines /\ tldata \in Seq(DataFlits)
      /\ got \in [Commands -> Seq(NetFlits)] /\ got' \in [Commands -> Seq(NetFlits)]
  BY DEF IInv, TypeOK
<1>1. /\ Passing /\ eng.tag \in Tags /\ c \in Reads /\ c \in Commands /\ last = c
      /\ PassingOf(eng, c, got[c])
  <2>1. Passing
    BY DEF PassData, Passing
  <2>2. QED
    BY <1>0, <2>1, DeliveredNow DEF Passing, Machines, Reads
<1>2. /\ tldata # <<>> /\ got' = [got EXCEPT ![last] = Append(@, Head(tldata))] /\ last' = last
      /\ UNCHANGED <<cmdlookup, host, combo, tlresp, taken, rtyfifo, jail, out>>
  BY DEF PassData, ToNetwork, lookups, hostVars, retryVars
<1>3. /\ eng'.st = (IF eng.cdata = 1 THEN "GET_CMD" ELSE "GET_DATA") /\ eng'.fresh = TRUE
      /\ eng'.tag = eng.tag /\ eng'.keep = eng.keep
      /\ eng.cdata # 1 => eng'.cdata = eng.cdata - 1
  BY <1>0, EngAfter
<1>4. /\ Dl[c] = 3 => FlitsOf(Dl[c]) = 4
      /\ FlitsOf(Dl[c]) \in {1, 2, 4}
      /\ eng.cdata \in 1..FlitsOf(Dl[c])
  <2>1. FlitsOf(Dl[c]) \in {1, 2, 4} /\ (Dl[c] = 3 => FlitsOf(Dl[c]) = 4)
    BY <1>1, Lengths
  <2>2. QED
    BY <1>1, <2>1 DEF PassingOf
<1>5. Head(tldata) = Data(c, Final - eng.cdata + 1)
  <2>1. Left = eng.cdata /\ 1 \in 1..Left
    BY <1>1, <1>4 DEF Left
  <2>2. \A k \in 1..Left : tldata[k] = Data(cmdlookup[eng.tag], Final - Left + k)
    BY <1>0 DEF ReadData, Laid
  <2>3. Head(tldata) = tldata[1]
    BY <1>0, <1>2, Heading
  <2>4. QED
    BY <2>1, <2>2, <2>3
<1>6. /\ \A d \in Commands : d # c => got'[d] = got[d]
      /\ got'[c] = Append(got[c], Head(tldata)) /\ got[c] \in Seq(NetFlits) /\ got'[c] \in Seq(NetFlits)
      /\ Head(tldata) \in NetFlits
  <2>1. Head(tldata) \in DataFlits
    BY <1>0, <1>2, Heading
  <2>2. QED
    BY <1>0, <1>1, <1>2, <2>1 DEF NetFlits
<1>7. ASSUME NEW m \in Nat, Len(got[c]) = m
      PROVE  Len(got'[c]) = m + 1 /\ got'[c][m + 1] = Head(tldata) /\ \A i \in 1..m : got'[c][i] = got[c][i]
  BY <1>6, <1>7, AppendProperties
<1>8. Passing' <=> eng.cdata # 1
  BY <1>3 DEF Passing
\* One more flit of an answer at once, and of one in halves.
<1>9. ASSUME NEW m \in 1..4, UptoWhole(got[c], c, m), Head(tldata) = Data(c, m)
      PROVE  UptoWhole(got'[c], c, m + 1)
  <2>1. /\ Len(got[c]) = m
        /\ \A i \in 1..m : got[c][i] = IF i = 1 THEN Header(RD_OK) ELSE Data(c, i - 1)
    BY <1>9 DEF UptoWhole
  <2>2. Len(got'[c]) = m + 1 /\ got'[c][m + 1] = Data(c, m) /\ \A i \in 1..m : got'[c][i] = got[c][i]
    BY <1>7, <1>9, <2>1
  <2>3. \A i \in 1..m + 1 : i \in 1..m \/ i = m + 1
    BY <1>9
  <2>4. m + 1 # 1 /\ (m + 1) - 1 = m
    BY <1>9
  <2>5. QED
    BY <2>1, <2>2, <2>3, <2>4 DEF UptoWhole
<1>10. ASSUME NEW m \in {1, 2, 4, 5}, UptoHalves(got[c], c, m), Head(tldata) = Data(c, IF m < 4 THEN m ELSE m - 1)
       PROVE  UptoHalves(got'[c], c, m + 1)
  <2>1. /\ Len(got[c]) = m
        /\ \A i \in 1..m : got[c][i] = IF i \in {1, 4} THEN Header(RD_OK)
                                       ELSE Data(c, IF i < 4 THEN i - 1 ELSE i - 2)
    BY <1>10 DEF UptoHalves
  <2>2. Len(got'[c]) = m + 1 /\ got'[c][m + 1] = Head(tldata) /\ \A i \in 1..m : got'[c][i] = got[c][i]
    BY <1>7, <1>10, <2>1
  <2>3. \A i \in 1..m + 1 : i \in 1..m \/ i = m + 1
    BY <1>10
  <2>4. /\ m + 1 \notin {1, 4}
        /\ IF m < 4 THEN m + 1 < 4 /\ (m + 1) - 1 = m ELSE ~(m + 1 < 4) /\ (m + 1) - 2 = m - 1
    BY <1>10
  <2>5. got'[c][m + 1] = Data(c, IF m + 1 < 4 THEN (m + 1) - 1 ELSE (m + 1) - 2)
    BY <1>10, <2>2, <2>4
  <2>6. QED
    BY <2>1, <2>2, <2>3, <2>4, <2>5 DEF UptoHalves
<1>11. CASE eng.keep /\ Dl[c] = 3 /\ eng.cdata \in 1..2 /\ UptoHalves(got[c], c, 3 - eng.cdata)
  <2>1. Final = 2
    BY <1>11 DEF Final
  <2>2. UptoHalves(got'[c], c, 4 - eng.cdata)
    <3> DEFINE m == 3 - eng.cdata
    <3>1. m \in {1, 2} /\ m + 1 = 4 - eng.cdata /\ Final - eng.cdata + 1 = m
      BY <1>11, <2>1
    <3> HIDE DEF m
    <3>2. UptoHalves(got[c], c, m)
      BY <1>11 DEF m
    <3>3. Head(tldata) = Data(c, IF m < 4 THEN m ELSE m - 1)
      BY <1>5, <3>1
    <3>4. m \in {1, 2, 4, 5}
      BY <3>1
    <3>5. UptoHalves(got'[c], c, m + 1)
      BY <1>10, <3>2, <3>3, <3>4
    <3>6. QED
      BY <3>1, <3>5
  <2>3. eng.cdata = 1 => UptoHalves(got'[c], c, 3)
    BY <2>2
  <2>4. eng.cdata = 2 => UptoHalves(got'[c], c, 2) /\ eng'.cdata = 1 /\ eng'.keep
    BY <1>3, <1>11, <2>2
  <2>5. Passing' => PassingOf(eng', c, got'[c])
    BY <1>8, <1>11, <2>4 DEF PassingOf
  <2>6. Proper(c, got'[c])
    <3>1. \E m \in 0..6 : UptoHalves(got'[c], c, m)
      BY <1>11, <2>2
    <3>2. QED
      BY <1>1, <1>6, <1>11, <3>1, ProperCases
  <2>7. QED
    BY <1>1, <1>2, <1>3, <1>6, <1>8, <2>3, <2>5, <2>6
<1>12. CASE ~eng.keep /\ UptoWhole(got[c], c, FlitsOf(Dl[c]) + 1 - eng.cdata)
  <2> DEFINE F == FlitsOf(Dl[c])
             m == F + 1 - eng.cdata
  <2>1. Final = F
    BY <1>12 DEF Final
  <2>2. m \in 1..4 /\ m + 1 = F + 2 - eng.cdata /\ Final - eng.cdata + 1 = m /\ m + 1 \in 0..F + 1
    BY <1>4, <2>1
  <2>3. UptoWhole(got[c], c, m)
    BY <1>12
  <2> HIDE DEF m, F
  <2>4. UptoWhole(got'[c], c, m + 1)
    BY <1>5, <1>9, <2>2, <2>3
  <2>5. Proper(c, got'[c])
    BY <1>1, <1>6, <2>2, <2>4, ProperCases DEF F
  <2>6. eng.cdata # 1 => eng'.cdata \in 1..F /\ m + 1 = F + 1 - eng'.cdata
    BY <1>3, <1>4, <2>2 DEF F
  <2>7. Passing' => PassingOf(eng', c, got'[c])
    BY <1>3, <1>8, <1>12, <2>4, <2>6 DEF PassingOf, F
  <2>8. QED
    BY <1>1, <1>2, <1>3, <1>6, <1>8, <1>12, <2>5, <2>7
<1>13. CASE ~eng.keep /\ Dl[c] = 3 /\ eng.cdata \in 1..2 /\ UptoHalves(got[c], c, 6 - eng.cdata)
  <2> DEFINE m == 6 - eng.cdata
  <2>1. Final = 4
    BY <1>4, <1>13 DEF Final
  <2>2. m \in {4, 5} /\ m + 1 = 7 - eng.cdata /\ Final - eng.cdata + 1 = m - 1 /\ m + 1 \in 0..6
    BY <1>13, <2>1
  <2>3. UptoHalves(got[c], c, m)
    BY <1>13
  <2> HIDE DEF m
  <2>4. UptoHalves(got'[c], c, m + 1)
    <3>1. m \in {1, 2, 4, 5} /\ Head(tldata) = Data(c, IF m < 4 THEN m ELSE m - 1)
      BY <1>5, <2>2
    <3>2. QED
      BY <1>10, <2>3, <3>1
  <2>5. Proper(c, got'[c])
    BY <1>1, <1>6, <1>13, <2>2, <2>4, ProperCases
  <2>6. eng.cdata # 1 => eng'.cdata \in 1..2 /\ m + 1 = 6 - eng'.cdata
    BY <1>3, <1>13, <2>2
  <2>7. Passing' => PassingOf(eng', c, got'[c])
    BY <1>3, <1>8, <1>13, <2>4, <2>6 DEF PassingOf
  <2>8. QED
    BY <1>1, <1>2, <1>3, <1>6, <1>8, <1>13, <2>5, <2>7
<1>14. QED
  BY <1>1, <1>11, <1>12, <1>13 DEF PassingOf

\* PassData sends the next flit of the answer to the command whose data are passed.
LEMMA DeliveredPass ==
    ASSUME IInv, [Next]_vars, TypeOK', PassData
    PROVE  Delivered'
<1>0. /\ TypeOK /\ OneTag /\ InTurn /\ TagsConserved /\ OwnCommand
      /\ cmdlookup \in [Tags -> Commands \cup {NoCommand}]
  BY DEF IInv, TypeOK
<1> DEFINE t == eng.tag
           c == cmdlookup[t]
           n == Len(Coming)
<1>1. /\ c \in Reads /\ c \in Commands /\ t \in Tags /\ Passing
      /\ \A d \in Commands : d # c => got'[d] = got[d]
      /\ UNCHANGED <<cmdlookup, host, combo, tlresp, taken, rtyfifo, jail, out>>
      /\ last' = c /\ eng'.tag = t /\ eng'.keep = eng.keep
      /\ Passing' <=> eng.cdata # 1
      /\ Passing' => PassingOf(eng', c, got'[c])
      /\ eng.cdata = 1 /\ eng.keep => UptoHalves(got'[c], c, 3)
      /\ Proper(c, got'[c])
  BY Passed DEF Reads
<1>2. Coming' = Coming /\ Held' = Held /\ n \in Nat /\ DOMAIN Coming = 1..n
  BY <1>0, <1>1, ComingAfter, Zenon DEF Held
<1> HIDE DEF c, n
<1>3. \A u \in Tags : u # t => cmdlookup[u] # c
  BY <1>0, <1>1, Lengths DEF OneTag, c
<1>4. /\ \A i \in DOMAIN Coming : Coming[i].tag = t => Second(Coming[i])
      /\ \A h \in host : h.tag = t => h.st = "half"
  BY <1>0, <1>1 DEF InTurn
\* When the last flit of the first half was sent, the half was sent.
<1>5. ASSUME \/ \E i \in DOMAIN Coming : Coming[i].tag = t
             \/ \E h \in host : h.tag = t
      PROVE  eng.keep
  <2> SUFFICES ASSUME ~eng.keep
               PROVE  FALSE
    OBVIOUS
  <2>1. InEngine(t) = 1
    BY <1>1 DEF InEngine
  <2>2. ~Settling(t) /\ ~HostHas(t)
    BY <1>0, <1>1, <2>1, OnePlace
  <2>3. \A i \in DOMAIN Coming : Second(Coming[i]) => ~First(Coming[i]) /\ ~Pending(Coming[i])
    BY <1>0 DEF InTurn, Fitting, First, Second, Pending, RD_OK, RD_FAIL, WR_FAIL, PEND
  <2>4. QED
    BY <1>4, <1>5, <2>2, <2>3 DEF Settling, HostHas
<1>6. ASSUME NEW u \in Tags, NEW i, HalfBefore(u, i), u = t => eng.keep, cmdlookup[u] \in Commands
      PROVE  NextHalf(u, i)
  <2>1. CASE u = t
    BY <1>1, <1>6, <2>1 DEF NextHalf, c
  <2>2. CASE u # t
    <3>1. got'[cmdlookup[u]] = got[cmdlookup[u]]
      BY <1>1, <1>3, <1>6, <2>2
    <3>2. QED
      BY <1>2, <1>6, <2>2, <3>1 DEF HalfBefore, NextHalf
  <2>3. QED
    BY <2>1, <2>2
<1>7. \A i \in DOMAIN Coming : Coming[i].tag \in Tags /\ Of(Coming[i]) \in Commands
  <2>1. \A i \in DOMAIN Coming : Coming[i] \in AnyResponse
    BY <1>0, <1>2, ComingIs, LenProperties
  <2>2. QED
    BY <1>0, <2>1 DEF AnyResponse, InTurn, Fitting
<1>8. \A i \in DOMAIN Coming' : IF Second(Coming'[i]) THEN NextHalf(Coming'[i].tag, i)
                                ELSE got'[Of(Coming'[i])] = <<>>
  <2> SUFFICES ASSUME NEW i \in DOMAIN Coming
               PROVE  IF Second(Coming[i]) THEN NextHalf(Coming[i].tag, i) ELSE got'[Of(Coming[i])] = <<>>
    BY <1>2
  <2>1. IF Second(Coming[i]) THEN HalfBefore(Coming[i].tag, i) ELSE got[Of(Coming[i])] = <<>>
    BY DeliveredNow
  <2>2. CASE Second(Coming[i])
    BY <1>5, <1>6, <1>7, <2>1, <2>2 DEF Of
  <2>3. CASE ~Second(Coming[i])
    <3>1. Coming[i].tag # t
      BY <1>4, <2>3
    <3>2. Of(Coming[i]) # c
      BY <1>3, <1>7, <3>1 DEF Of
    <3>3. QED
      BY <1>1, <1>7, <2>1, <2>3, <3>2
  <2>4. QED
    BY <2>2, <2>3
<1>9. \A h \in host' : IF h.st = "half" THEN NextHalf(h.tag, Len(Coming') + 1) ELSE got'[h.of] = <<>>
  <2> SUFFICES ASSUME NEW h \in host
               PROVE  IF h.st = "half" THEN NextHalf(h.tag, n + 1) ELSE got'[h.of] = <<>>
    BY <1>1, <1>2 DEF n
  <2>1. IF h.st = "half" THEN HalfBefore(h.tag, n + 1) ELSE got[h.of] = <<>>
    BY DeliveredNow DEF n
  <2>2. h.tag \in Tags /\ h.of = cmdlookup[h.tag] /\ h.of \in Commands
    BY <1>0, OtherCommands DEF TypeOK, Hosted
  <2>3. CASE h.st = "half"
    BY <1>5, <1>6, <2>1, <2>2, <2>3
  <2>4. CASE h.st # "half"
    BY <1>1, <1>3, <1>4, <2>1, <2>2, <2>4
  <2>5. QED
    BY <2>3, <2>4
<1>10. ASSUME NEW f \in Held', f.cmd
       PROVE  got'[f.of] = <<>>
  <2>1. f \in Held
    BY <1>2, <1>10
  <2>2. /\ f.tag \in Tags /\ f.of = cmdlookup[f.tag] /\ f.of \in Commands
        /\ f.tag = t => Retried(t)
    BY <1>0, <1>10, <2>1, FlitKinds DEF Held, OwnCommand, Retried
  <2>3. f.tag # t
    BY <1>0, <1>1, <2>2, Quiet
  <2>4. QED
    BY <1>1, <1>3, <1>10, <2>1, <2>2, <2>3, DeliveredNow
<1>11. \A d \in Commands \ taken' : got'[d] = <<>>
  <2>1. c \in taken
    BY <1>0, <1>1, Lengths DEF OneTag, c
  <2>2. QED
    BY <1>1, <2>1, DeliveredNow
<1>12. \A d \in Commands : Proper(d, got'[d])
  BY <1>1, DeliveredNow
<1>13. QED
  BY <1>1, <1>8, <1>9, <1>10, <1>11, <1>12, DeliveredIf DEF c

\* What the network has of an answer is what the engine has sent of it: a header
\* first, then the data of that response and no other.
LEMMA DeliveredStep ==
    ASSUME IInv, [Next]_vars, TypeOK'
    PROVE  Delivered'
<1>0. TypeOK
  BY DEF IInv
<1> USE DEF lookups, hostVars, respVars, retryVars, netVars
<1>1. UNCHANGED <<combo, tlresp>> \/ CmdFifoLoad => Coming' = Coming
  BY <1>0, ComingAfter, Zenon
<1>2. ASSUME UNCHANGED <<eng, got>>, (\E c \in Commands : NetCommand(c)) \/ UNCHANGED <<taken, last>>,
             UNCHANGED <<combo, tlresp>> \/ CmdFifoLoad, ~\E t \in Tags : Host(t), ~RetryResponse
      PROVE  Delivered'
  <2>1. taken \subseteq taken' /\ last' = last
    BY <1>2, Zenon DEF NetCommand
  <2>2. Passing' = Passing
    BY <1>2 DEF Passing
  <2>3. QED
    BY <1>1, <1>2, <2>1, <2>2, DeliveredSame
<1>3. ASSUME NEW c \in Commands, NetCommand(c)
      PROVE  UNCHANGED <<eng, got, combo, tlresp>> /\ ~RetryResponse
  BY <1>3 DEF NetCommand, RetryResponse, GetResponse
<1>4. Ingress \/ CmdFifoLoad \/ RtyEng \/ UNCHANGED vars =>
         UNCHANGED <<eng, got, taken, last>> /\ (UNCHANGED <<combo, tlresp>> \/ CmdFifoLoad)
  BY DEF Ingress, EnableIngress, NetData, RtyCommand, RtyData, CmdFifoLoad, vars,
         RtyEng, ToJail, Reissue, ReleaseJail, MoveData, ReleaseData
<1>5. CASE LoadTags \/ ReplayData
  <2>1. UNCHANGED <<got, taken, last, combo, tlresp>>
    BY <1>5 DEF LoadTags, ReplayData
  <2>2. Passing' = Passing /\ ~Passing'
    <3>1. ~Passing
      BY <1>5 DEF LoadTags, ReplayData, Passing
    <3>2. ~Passing'
      BY <1>0, <1>5, EngAfter DEF Passing
    <3>3. QED
      BY <3>1, <3>2 DEF Passing
  <2>3. CASE \E t \in Tags : Host(t)
    BY <2>3, DeliveredHost
  <2>4. CASE ~\E t \in Tags : Host(t)
    <3>1. CASE RetryResponse
      BY <3>1, DeliveredResponse
    <3>2. CASE ~RetryResponse
      BY <1>1, <2>1, <2>2, <2>4, <3>2, DeliveredSame
    <3>3. QED
      BY <3>1, <3>2
  <2>5. QED
    BY <2>3, <2>4
<1>6. CASE \E t \in Tags : Host(t)
  BY <1>6, DeliveredHost
<1>7. CASE RetryResponse \/ DropResponse \/ NoDataResponse \/ DataResponse
  BY <1>7, DeliveredResponse
<1>8. CASE PassData
  BY <1>8, DeliveredPass
<1>9. QED
  BY <1>2, <1>3, <1>4, <1>5, <1>6, <1>7, <1>8 DEF Next, RespEng

-----------------------------------------------------------------------------
(* The inductive invariant                                                 *)

\* Everything is empty, and no tag has been loaded.
LEMMA Start ==
    ASSUME Init
    PROVE  IInv
<1> USE DEF Init
<1>0. /\ NTags \in Nat \ {0} /\ NoCommand \notin Commands
  BY Lengths
<1>1. TypeOK
  <2>1. NoData \in DataFlits \cup {NoData} /\ 0 \in 0..NTags /\ 1 \in 1..NTags + 1
    BY <1>0
  <2>2. ing \in IngStates
    BY <2>1 DEF IngStates
  <2>3. eng \in EngStates
    BY <2>1 DEF EngStates
  <2>4. rty \in RtyStates
    BY DEF RtyStates
  <2>5. IsFiniteSet(host)
    BY FS_EmptySet
  <2>6. /\ cmdlookup \in [Tags -> Commands \cup {NoCommand}]
        /\ d0lookup \in [Tags -> DataFlits \cup {NoData}]
        /\ d1lookup \in [Tags -> DataFlits \cup {NoData}]
    BY <2>1
  <2>7. got \in [Commands -> Seq(NetFlits)] /\ stored \in [Commands -> Seq(Seq(DataFlits))]
    OBVIOUS
  <2>8. {rtyfifo, jail, out} \subseteq Seq(RetryFlits)
    OBVIOUS
  <2>9. /\ capptag \in Seq(Tags) /\ tlresp \in Seq(AnyResponse) /\ tldata \in Seq(DataFlits)
        /\ combo \in Seq(Joined)
    <3>1. \A T : <<>> \in Seq(T)
      OBVIOUS
    <3>2. QED
      BY <3>1, Zenon
  <2>10. /\ last \in Commands \cup {NoCommand} /\ sender \in Commands \cup {NoCommand}
         /\ taken \subseteq Commands
    OBVIOUS
  <2>11. lock \in BOOLEAN
    BY Zenon
  <2>12. host \subseteq Hosted
    OBVIOUS
  <2>13. QED
    BY <2>2, <2>3, <2>4, <2>5, <2>6, <2>7, <2>8, <2>9, <2>10, <2>11, <2>12, Zenon DEF TypeOK
<1>2. /\ Coming \in Seq(AnyResponse) /\ Len(Coming) = 0
      /\ DOMAIN Coming = 1..0 /\ \A i \in DOMAIN Coming : FALSE
  <2>1. /\ Len(combo) = 0 /\ Len(tlresp) = 0
    OBVIOUS
  <2>2. QED
    BY <1>1, <2>1, ComingIs
<1>3. ~Passing /\ ~Replaying
  BY DEF Passing, Replaying
<1>4. Machines
  BY <1>0, <1>3 DEF Machines
<1>5. \A s \in {rtyfifo, jail, out} : \A i \in DOMAIN s : FALSE
  OBVIOUS
<1>6. TagsConserved
  <2> SUFFICES ASSUME NEW t \in Tags
               PROVE  Places(t) = 1
    BY DEF TagsConserved
  <2>1. \A s \in {capptag, tlresp, combo, rtyfifo, jail, out} : \A S : Tally(s, S) = 0
    <3>1. \A s \in {capptag, tlresp, combo, rtyfifo, jail, out} : \A i \in DOMAIN s : FALSE
      OBVIOUS
    <3>2. QED
      BY <1>1, <3>1, Tallies
  <2>2. Cardinality(HostsWith(t)) = 0
    BY <1>1, HostsAre DEF HostHas
  <2>3. InEngine(t) = 0 /\ NotLoaded(t) = 1
    BY <1>0, <1>3 DEF InEngine, NotLoaded, Tags
  <2>4. /\ Tally(capptag, {t}) = 0 /\ Tally(tlresp, SettledBy(cmdlookup[t], t)) = 0
        /\ Tally(combo, JoinedBy(t)) = 0 /\ Tally(rtyfifo, CommandsWith(t)) = 0
        /\ Tally(jail, CommandsWith(t)) = 0 /\ Tally(out, CommandsWith(t)) = 0
    BY <2>1
  <2>5. QED
    BY <1>1, <2>2, <2>3, <2>4, PlacesAre
<1>7. OneTag
  BY <1>0 DEF OneTag
<1>8. OwnCommand
  BY <1>5 DEF OwnCommand
<1>9. InTurn
  BY <1>2, <1>3 DEF InTurn
<1>10. Stores /\ AtHost
  <2>1. \A t \in Tags : cmdlookup[t] \notin Writes
    BY <1>0, Lengths
  <2>2. QED
    BY <2>1 DEF Stores, AtHost
<1>11. Replays
  <2>1. EngWrites = NoData /\ IngExpects = NoData
    BY <1>3 DEF EngWrites, IngExpects
  <2>2. \A s \in {rtyfifo, jail, out} : Chain(NoData, s, NoData)
    BY DEF Chain
  <2>3. Chains(NoData)
    BY <2>1, <2>2 DEF Chains
  <2>4. QED
    BY <2>3 DEF Replays
<1>12. ReadData
  <2> DEFINE p == [i \in 1..1 |-> 0]
  <2>1. Len(tldata) = 0 /\ Left = 0
    BY <1>3 DEF Left
  <2>2. p \in [1..Len(Coming) + 1 -> 0..Len(tldata)]
    BY <1>2, <2>1
  <2>3. Laid(p)
    BY <1>2, <2>1 DEF Laid
  <2>4. QED
    BY <2>2, <2>3 DEF ReadData
<1>13. Delivered
  <2>1. \A c \in Commands : Proper(c, got[c])
    BY <1>1, ProperCases DEF TypeOK
  <2>2. OwnAnswer
    BY <2>1, ProperIs
  <2>3. QED
    BY <1>2, <1>3, <1>5, <2>2 DEF Delivered
<1>14. Performed
  BY <1>2, <1>5 DEF Performed
<1>15. QED
  BY <1>1, <1>4, <1>6, <1>7, <1>8, <1>9, <1>10, <1>11, <1>12, <1>13, <1>14 DEF IInv

\* Each step keeps each part.
LEMMA Induction ==
    IInv /\ [Next]_vars => IInv'
<1> SUFFICES ASSUME IInv, [Next]_vars
             PROVE  IInv'
  OBVIOUS
<1>1. TypeOK'
  BY TypeStep
<1>2. Machines' /\ TagsConserved' /\ OneTag' /\ OwnCommand' /\ InTurn'
  BY <1>1, MachinesStep, TagsStep, OneTagStep, OwnStep, TurnStep
<1>3. Stores' /\ AtHost' /\ Replays' /\ ReadData'
  BY <1>1, StoresStep, AtHostStep, ReplaysStep, ReadDataStep
<1>4. Delivered' /\ Performed'
  BY <1>1, DeliveredStep, PerformedStep
<1>5. QED
  BY <1>1, <1>2, <1>3, <1>4 DEF IInv

\* Every reachable state satisfies the inductive invariant.
THEOREM Invariance == Spec => []IInv
<1>1. Init => IInv
  BY Start
<1>2. QED
  BY <1>1, Induction, PTL DEF Spec

\* No local tag is lost or in two places, for any number of tags, commands and
\* failures of the host: ocx_resp_eng gives a tag back once, when the last response
\* to it is handled.
THEOREM Tagged == Spec => []TagsConserved
<1>1. IInv => TagsConserved
  BY DEF IInv
<1>2. QED
  BY <1>1, Invariance, PTL

\* What is joined with a response, or replayed from the stores of the ingress, is
\* about the command to which the local tag belongs.
THEOREM Owned == Spec => []OwnCommand
<1>1. IInv => OwnCommand
  BY DEF IInv
<1>2. QED
  BY <1>1, Invariance, PTL

\* The state machines of RtyEng and of the ingress take a command for a command and
\* data for data, although no flit of their fifos is marked.
THEOREM Stepping == Spec => []InStep
<1>1. IInv => InStep
  BY Heads
<1>2. QED
  BY <1>1, Invariance, PTL

\* What the network receives in answer to a command is the header of its response
\* and its own data in their order, through any retries and with two halves of a
\* read apart.
THEOREM AnsweredOwn == Spec => []OwnAnswer
<1>1. IInv => OwnAnswer
  BY DEF IInv, Delivered
<1>2. QED
  BY <1>1, Invariance, PTL

-----------------------------------------------------------------------------
(* The memory that the network sees                                        *)

\* Status, of an answer s of c.
StatusOf(c, s) ==
    LET flits == {i \in DOMAIN s : ~s[i].cmd}
    IN IF s = <<>> THEN "none"
       ELSE IF s[1] = Header(WR_OK) THEN "ok"
       ELSE IF s[1] = Header(RD_OK)
       THEN IF Cardinality(flits) = FlitsOf(Dl[c]) THEN "ok" ELSE "none"
       ELSE "error"

\* Status, now and after a step, as a function of the answer.
LEMMA StatusIs ==
    \A c : Status(c) = StatusOf(c, got[c]) /\ Status(c)' = StatusOf(c, got'[c])
  BY DEF Status, StatusOf

\* A header is the answer if it comes without data; a read has no status before its
\* last flit.
LEMMA Unfinished ==
    ASSUME NEW c \in Commands, NEW s \in Seq(NetFlits)
    PROVE  /\ StatusOf(c, s) \in {"none", "ok", "error"} /\ StatusOf(c, <<>>) = "none"
           /\ \A op \in {RD_FAIL, WR_OK, WR_FAIL} :
                 s = <<Header(op)>> => StatusOf(c, s) = IF op = WR_OK THEN "ok" ELSE "error"
           /\ \A n \in 1..FlitsOf(Dl[c]) : UptoWhole(s, c, n) => StatusOf(c, s) = "none"
           /\ \A n \in 1..5 : Dl[c] = 3 /\ UptoHalves(s, c, n) => StatusOf(c, s) = "none"
<1> DEFINE P == {i \in DOMAIN s : ~s[i].cmd}
<1>1. /\ FlitsOf(Dl[c]) \in {1, 2, 4} /\ (Dl[c] = 3 => FlitsOf(Dl[c]) = 4)
      /\ DOMAIN s = 1..Len(s)
  BY Lengths, LenProperties
<1>2. /\ \A op \in {RD_FAIL, WR_FAIL} : Header(op) # Header(WR_OK) /\ Header(op) # Header(RD_OK)
      /\ Header(RD_OK) # Header(WR_OK) /\ Header(RD_OK).cmd = TRUE /\ \A i : Data(c, i).cmd = FALSE
  BY DEF Header, Data, RD_OK, RD_FAIL, WR_OK, WR_FAIL
<1>3. StatusOf(c, s) \in {"none", "ok", "error"} /\ StatusOf(c, <<>>) = "none"
  BY DEF StatusOf
<1>4. ASSUME NEW op \in {RD_FAIL, WR_OK, WR_FAIL}, s = <<Header(op)>>
      PROVE  StatusOf(c, s) = IF op = WR_OK THEN "ok" ELSE "error"
  <2>1. s # <<>> /\ s[1] = Header(op)
    BY <1>4
  <2>2. CASE op = WR_OK
    BY <2>1, <2>2 DEF StatusOf
  <2>3. CASE op # WR_OK
    <3>1. s[1] # Header(WR_OK) /\ s[1] # Header(RD_OK)
      BY <1>2, <2>1, <2>3
    <3>2. QED
      BY <2>1, <2>3, <3>1 DEF StatusOf
  <2>4. QED
    BY <2>2, <2>3
\* The header of a read, with less data than its length says.
<1>5. ASSUME s # <<>>, s[1] = Header(RD_OK), Cardinality(P) # FlitsOf(Dl[c])
      PROVE  StatusOf(c, s) = "none"
  BY <1>2, <1>5 DEF StatusOf, P
<1> HIDE DEF P
<1>6. ASSUME NEW n \in 1..FlitsOf(Dl[c]), UptoWhole(s, c, n)
      PROVE  StatusOf(c, s) = "none"
  <2>1. n \in Int /\ n <= FlitsOf(Dl[c]) /\ Len(s) = n /\ s # <<>> /\ s[1] = Header(RD_OK)
    BY <1>1, <1>6 DEF UptoWhole
  <2>2. \A i \in 1..n : s[i] = IF i = 1 THEN Header(RD_OK) ELSE Data(c, i - 1)
    BY <1>6 DEF UptoWhole
  <2>3. \A i \in 1..n : ~s[i].cmd <=> i # 1
    BY <1>2, <2>2
  <2>4. P = 2..n
    BY <1>1, <2>1, <2>3 DEF P
  <2>5. Cardinality(2..n) = IF 2 > n THEN 0 ELSE n - 2 + 1
    BY <2>1, FS_Interval
  <2>6. QED
    BY <1>1, <1>5, <2>1, <2>4, <2>5
<1>7. ASSUME NEW n \in 1..5, Dl[c] = 3, UptoHalves(s, c, n)
      PROVE  StatusOf(c, s) = "none"
  <2>1. Len(s) = n /\ s # <<>> /\ s[1] = Header(RD_OK)
    BY <1>7 DEF UptoHalves
  <2>2. \A i \in {1, 4} : i \in 1..n => s[i] = Header(RD_OK)
    BY <1>7 DEF UptoHalves
  <2>3. P \in SUBSET ((2..5) \ {4})
    BY <1>1, <1>2, <2>1, <2>2 DEF P
  <2>4. IsFiniteSet(2..5) /\ Cardinality(2..5) = 4
    <3>1. 2 \in Int /\ 5 \in Int /\ ~(2 > 5) /\ 5 - 2 + 1 = 4
      OBVIOUS
    <3>2. QED
      BY <3>1, FS_Interval
  <2>5. IsFiniteSet((2..5) \ {4}) /\ Cardinality((2..5) \ {4}) = 3
    <3>1. 4 \in 2..5
      OBVIOUS
    <3>2. Cardinality((2..5) \ {4}) = IF 4 \in 2..5 THEN Cardinality(2..5) - 1 ELSE Cardinality(2..5)
      BY <2>4, FS_RemoveElement
    <3>3. IsFiniteSet((2..5) \ {4})
      BY <2>4, FS_RemoveElement
    <3>4. QED
      BY <2>4, <3>1, <3>2, <3>3
  <2>6. Cardinality(P) <= 3 /\ Cardinality(P) \in Nat
    <3>1. IsFiniteSet(P) /\ Cardinality(P) <= Cardinality((2..5) \ {4})
      BY <2>3, <2>5, FS_Subset
    <3>2. Cardinality(P) \in Nat
      BY <3>1, FS_CardinalityType
    <3>3. QED
      BY <2>5, <3>1, <3>2
  <2>7. QED
    BY <1>1, <1>5, <1>7, <2>1, <2>6
<1>8. QED
  BY <1>3, <1>4, <1>6, <1>7

\* While data are passed the command has no status.
LEMMA NoStatus ==
    ASSUME IInv, NEW c, c = cmdlookup[eng.tag], Passing
    PROVE  Status(c) = "none" /\ c \in taken
<1>1. /\ c \in Reads /\ c \in Commands /\ PassingOf(eng, c, got[c]) /\ got[c] \in Seq(NetFlits)
      /\ eng.tag \in Tags
  BY DeliveredNow DEF IInv, TypeOK, Machines, Passing, Reads
<1>2. c \in taken
  BY <1>1, Lengths DEF IInv, OneTag
<1>3. FlitsOf(Dl[c]) \in {1, 2, 4}
  BY <1>1, Lengths
<1>4. CASE Dl[c] = 3 /\ eng.cdata \in 1..2 /\ UptoHalves(got[c], c, 3 - eng.cdata)
  <2>1. 3 - eng.cdata \in 1..5
    BY <1>4
  <2>2. StatusOf(c, got[c]) = "none"
    BY <1>1, <1>4, <2>1, Unfinished
  <2>3. QED
    BY <1>2, <2>2, StatusIs
<1>5. CASE eng.cdata \in 1..FlitsOf(Dl[c]) /\ UptoWhole(got[c], c, FlitsOf(Dl[c]) + 1 - eng.cdata)
  <2>1. FlitsOf(Dl[c]) + 1 - eng.cdata \in 1..FlitsOf(Dl[c])
    BY <1>3, <1>5
  <2>2. StatusOf(c, got[c]) = "none"
    BY <1>1, <1>5, <2>1, Unfinished
  <2>3. QED
    BY <1>2, <2>2, StatusIs
<1>6. CASE Dl[c] = 3 /\ eng.cdata \in 1..2 /\ UptoHalves(got[c], c, 6 - eng.cdata)
  <2>1. 6 - eng.cdata \in 1..5
    BY <1>6
  <2>2. StatusOf(c, got[c]) = "none"
    BY <1>1, <1>6, <2>1, Unfinished
  <2>3. QED
    BY <1>2, <2>2, StatusIs
<1>7. QED
  BY <1>1, <1>2, <1>4, <1>5, <1>6 DEF PassingOf

\* NoStatus, of the next state.
LEMMA NoStatusNext ==
    IInv' /\ Passing' => Status(cmdlookup[eng.tag])' = "none"
<1>1. (IInv => (Passing => Status(cmdlookup[eng.tag]) = "none"))'
  <2>1. IInv => (Passing => Status(cmdlookup[eng.tag]) = "none")
    BY NoStatus
  <2>2. QED
    BY <2>1, PTL
<1>2. QED
  BY <1>1

written == {c \in Writes : stored[c] = <<Whole(c)>>}

\* What a step may do to the answers.
LEMMA AnswerStep ==
    ASSUME IInv, [Next]_vars, IInv'
    PROVE  \/ \A d \in Commands : Status(d)' = Status(d)
           \/ \E c \in taken : /\ c \in Commands /\ Status(c) = "none" /\ Status(c)' \in {"ok", "error"}
                               /\ Status(c)' = "ok" /\ c \in Writes => c \in written
                               /\ \A d \in Commands : d # c => Status(d)' = Status(d)
<1>0. /\ TypeOK /\ OneTag /\ InTurn /\ Performed /\ got \in [Commands -> Seq(NetFlits)]
      /\ got' \in [Commands -> Seq(NetFlits)] /\ cmdlookup \in [Tags -> Commands \cup {NoCommand}]
  BY DEF IInv, TypeOK
<1> USE DEF lookups, hostVars, respVars, retryVars, netVars
<1>1. ASSUME got' = got
      PROVE  \A d \in Commands : Status(d)' = Status(d)
  BY <1>1, StatusIs
<1>2. got' = got \/ DataResponse \/ NoDataResponse \/ PassData
  <2>1. \A h, r, data : Says(h, r, data) => got' = got
    BY DEF Says
  <2>2. (\E t \in Tags : Host(t)) => got' = got
    BY <2>1, HostSays
  <2>3. Ingress \/ CmdFifoLoad \/ RtyEng \/ (\E c \in Commands : NetCommand(c)) \/ UNCHANGED vars => got' = got
    BY Zenon DEF Ingress, EnableIngress, NetCommand, NetData, RtyCommand, RtyData, CmdFifoLoad, vars,
           RtyEng, ToJail, Reissue, ReleaseJail, MoveData, ReleaseData
  <2>4. LoadTags \/ RetryResponse \/ DropResponse \/ ReplayData => got' = got
    BY DEF LoadTags, RetryResponse, DropResponse, ReplayData
  <2>5. QED
    BY <2>2, <2>3, <2>4 DEF Next, RespEng
\* One command gets a flit.
<1>3. ASSUME NEW c \in Commands, \A d \in Commands : d # c => got'[d] = got[d]
      PROVE  \A d \in Commands : d # c => Status(d)' = Status(d)
  BY <1>3, StatusIs
<1>4. \A c \in Commands : Status(c)' \in {"none", "ok", "error"}
  BY <1>0, StatusIs, Unfinished
\* The last flit of a read.
<1>5. CASE PassData
  <2>0. PICK c : c = cmdlookup[eng.tag]
    OBVIOUS
  <2>1. c \in Reads /\ c \in Commands /\ Passing /\ \A d \in Commands : d # c => got'[d] = got[d]
    <3>1. TypeOK'
      BY DEF IInv
    <3>2. QED
      BY <1>5, <2>0, <3>1, Passed DEF Reads
  <2>2. Status(c) = "none" /\ c \in taken /\ c \notin Writes
    BY <2>0, <2>1, NoStatus DEF Reads
  <2>3. \A d \in Commands : d # c => Status(d)' = Status(d)
    BY <1>3, <2>1
  <2>4. Status(c)' \in {"none", "ok", "error"}
    BY <1>4, <2>1
  <2>5. QED
    BY <2>1, <2>2, <2>3, <2>4
\* The header of a read.
<1>6. CASE DataResponse \/ NoDataResponse
  <2>0. PICK x, c : x = Coming[1] /\ c = Of(x)
    OBVIOUS
  <2>1. eng.st = "GET_CMD" /\ combo # <<>> /\ RespState(Head(combo).resp) = IF DataResponse THEN "data" ELSE "nodata"
    BY <1>6 DEF DataResponse, NoDataResponse, GetResponse
  <2>2. /\ 1 \in DOMAIN Coming /\ x = Head(combo).resp /\ x \in AnyResponse /\ Head(combo).of = c
        /\ Fitting(x, c) /\ c \in Commands /\ x.tag \in Tags
    BY <2>0, <2>1, Taken
  <2>3. /\ RespState(x) = IF x.op = RD_OK THEN "data"
                         ELSE IF x.op = XLATE_DONE \/ x.code = RTY THEN "retry"
                         ELSE IF x.code = PEND THEN "drop" ELSE "nodata"
    BY <2>2, StateOf
  <2>4. got' = [got EXCEPT ![c] = Append(@, Header(x.op))] /\ cmdlookup' = cmdlookup
    BY <1>6, <2>2 DEF DataResponse, NoDataResponse, ToNetwork
  <2>5. c \in taken
    BY <1>0, <2>0, <2>2, Lengths DEF OneTag, Of
  <2>6. \A d \in Commands : d # c => Status(d)' = Status(d)
    BY <1>0, <1>3, <2>2, <2>4
  <2>7. IF Second(x) THEN HalfBefore(x.tag, 1) ELSE got[c] = <<>>
    BY <2>0, <2>2, DeliveredNow
  <2>8. CASE DataResponse
    <3>1. Status(c) = "none"
      <4>1. CASE got[c] = <<>>
        BY <1>0, <2>2, <4>1, StatusIs, Unfinished
      <4>2. CASE Second(x)
        <5>1. UptoHalves(got[c], c, 3) /\ Dl[c] = 3
          <6>1. HalfBefore(x.tag, 1) /\ c = cmdlookup[x.tag]
            BY <2>0, <2>7, <4>2 DEF Of
          <6>2. ~Passing /\ \A j \in DOMAIN Coming : ~(j < 1)
            BY <1>0, <2>1, ComingIs DEF Passing
          <6>3. Dl[c] = 3
            BY <2>0, <2>2, <4>2 DEF Second, Fitting, RD_OK
          <6>4. QED
            BY <6>1, <6>2, <6>3 DEF HalfBefore
        <5>2. StatusOf(c, got[c]) = "none"
          BY <1>0, <2>2, <5>1, Unfinished
        <5>3. QED
          BY <2>2, <5>2, StatusIs
      <4>3. QED
        BY <2>7, <4>1, <4>2
    <3>2. Status(c)' = "none"
      <4>1. Passing' /\ cmdlookup'[eng'.tag] = c
        BY <1>0, <2>0, <2>2, <2>4, <2>8, EngAfter DEF Passing, Of
      <4>2. QED
        BY <4>1, NoStatusNext
    <3>3. \A d \in Commands : Status(d)' = Status(d)
      BY <2>6, <3>1, <3>2
    <3>4. QED
      BY <3>3
  <2>9. CASE ~DataResponse
    <3>1. x.op \in {RD_FAIL, WR_OK, WR_FAIL} /\ x.op # RD_OK
      BY <2>1, <2>2, <2>3, <2>9 DEF AnyResponse
    <3>2. got[c] = <<>>
      BY <2>7, <3>1 DEF Second
    <3>3. got'[c] = <<Header(x.op)>> /\ got'[c] \in Seq(NetFlits)
      BY <1>0, <2>2, <2>4, <3>2
    <3>4. Status(c) = "none"
      BY <1>0, <2>2, <3>2, StatusIs, Unfinished
    <3>5. StatusOf(c, got'[c]) = IF x.op = WR_OK THEN "ok" ELSE "error"
      BY <2>2, <3>1, <3>3, Unfinished
    <3>6. Status(c)' = IF x.op = WR_OK THEN "ok" ELSE "error"
      BY <2>2, <3>5, StatusIs
    <3>7. x.op = WR_OK => c \in written
      <4>1. x.op = WR_OK => c \in Writes
        BY <2>2 DEF Fitting
      <4>2. x.op = WR_OK => stored[c] = <<Whole(c)>>
        BY <1>0, <2>0, <2>2 DEF Performed
      <4>3. QED
        BY <4>1, <4>2 DEF written
    <3>8. QED
      BY <2>2, <2>5, <2>6, <3>4, <3>6, <3>7
  <2>10. QED
    BY <2>8, <2>9
<1>7. QED
  BY <1>1, <1>2, <1>5, <1>6

\* In the beginning nothing is open, written or answered.
LEMMA MemoryInit == Init => Remote!Init
<1> SUFFICES ASSUME Init
             PROVE  Remote!Init
  OBVIOUS
<1>1. \A c \in Commands : Status(c) = "none"
  BY DEF Init, Status
<1>2. {c \in Writes : stored[c] = <<Whole(c)>>} = {}
  <2>1. \A c \in Writes : stored[c] = <<>>
    BY Lengths DEF Init
  <2>2. QED
    BY <2>1
<1>3. taken = {} /\ [c \in Commands |-> Status(c)] = [c \in Commands |-> "none"]
  BY <1>1 DEF Init
<1>4. QED
  BY <1>2, <1>3 DEF Remote!Init

\* A step of the memory side is a step of a memory: NetCommand accepts, the response
\* WR_OK of the host performs, the last flit of an answer answers, and any other
\* step changes none of these.
LEMMA MemoryNext == IInv /\ [Next]_vars /\ IInv' => [Remote!Next]_(Remote!vars)
<1> SUFFICES ASSUME IInv, [Next]_vars, IInv'
             PROVE  [Remote!Next]_(Remote!vars)
  OBVIOUS
<1> DEFINE answer == [c \in Commands |-> Status(c)]
<1>0. /\ TypeOK /\ TypeOK' /\ Performed /\ stored \in [Commands -> Seq(Seq(DataFlits))]
      /\ Writes \subseteq Commands
  BY Lengths DEF IInv, TypeOK
<1>1. UNCHANGED <<taken, written, answer>> => UNCHANGED Remote!vars
  BY DEF Remote!vars, written
<1>2. stored' = stored => written' = written
  BY DEF written
<1>3. (\A d \in Commands : Status(d)' = Status(d)) => answer' = answer
  OBVIOUS
<1> USE DEF lookups, hostVars, respVars, retryVars, netVars
<1>4. CASE \E c \in Commands : NetCommand(c)
  <2>1. PICK c \in Commands : NetCommand(c)
    BY <1>4
  <2>2. c \notin taken /\ taken' = taken \cup {c} /\ stored' = stored /\ got' = got
    BY <2>1 DEF NetCommand
  <2>3. \A d \in Commands : Status(d)' = Status(d)
    BY <2>2, StatusIs
  <2>4. Remote!Accept(c)
    BY <1>2, <1>3, <2>2, <2>3 DEF Remote!Accept, written
  <2>5. QED
    BY <2>4 DEF Remote!Next
<1>5. CASE \E t \in Tags : Host(t)
  <2>1. PICK h \in host, r \in AnyResponse, data \in Seq(DataFlits) : Says(h, r, data)
    BY <1>5, HostSays
  <2>2. /\ taken' = taken /\ got' = got /\ Fitting(r, h.of)
        /\ stored' = IF r.op = WR_OK THEN [stored EXCEPT ![h.of] = <<Whole(h.of)>>] ELSE stored
    BY <2>1 DEF Says
  <2>3. \A d \in Commands : Status(d)' = Status(d)
    BY <2>2, StatusIs
  <2>4. CASE r.op = WR_OK
    <3>1. h.of \in Writes /\ h.of \in taken
      BY <2>1, <2>2, <2>4, OtherCommands DEF Fitting
    <3>2. stored[h.of] = <<>> /\ <<>> # <<Whole(h.of)>>
      BY <1>0 DEF Performed
    <3>3. h.of \notin written
      BY <3>2 DEF written
    <3>4. written' = written \cup {h.of}
      <4>1. stored' = [stored EXCEPT ![h.of] = <<Whole(h.of)>>]
        BY <2>2, <2>4
      <4>2. \A d \in Writes : stored'[d] = IF d = h.of THEN <<Whole(h.of)>> ELSE stored[d]
        BY <1>0, <4>1
      <4>3. \A d \in Writes : d \in written' <=> d = h.of \/ d \in written
        BY <4>2 DEF written
      <4>4. QED
        BY <3>1, <4>3 DEF written
    <3>5. Remote!Perform(h.of)
      BY <1>3, <2>2, <2>3, <3>1, <3>3, <3>4 DEF Remote!Perform, written
    <3>6. QED
      BY <1>0, <3>1, <3>5 DEF Remote!Next
  <2>5. CASE r.op # WR_OK
    BY <1>1, <1>2, <1>3, <2>2, <2>3, <2>5
  <2>6. QED
    BY <2>4, <2>5
<1>6. CASE ~(\E c \in Commands : NetCommand(c)) /\ ~(\E t \in Tags : Host(t))
  <2>1. stored' = stored
    BY <1>6 DEF Next, Ingress, EnableIngress, NetData, RtyCommand, RtyData, CmdFifoLoad, vars,
                RespEng, LoadTags, RetryResponse, DataResponse, NoDataResponse, DropResponse, PassData,
                ReplayData, RtyEng, ToJail, Reissue, ReleaseJail, MoveData, ReleaseData
  <2>2. taken' = taken
    BY <1>6, LookupSame
  <2>3. CASE \A d \in Commands : Status(d)' = Status(d)
    BY <1>1, <1>2, <1>3, <2>1, <2>2, <2>3
  <2>4. CASE ~\A d \in Commands : Status(d)' = Status(d)
    <3>1. PICK c \in taken :
             /\ c \in Commands /\ Status(c) = "none" /\ Status(c)' \in {"ok", "error"}
             /\ Status(c)' = "ok" /\ c \in Writes => c \in written
             /\ \A d \in Commands : d # c => Status(d)' = Status(d)
      BY <2>4, AnswerStep
    <3>2. PICK status \in {"ok", "error"} : status = Status(c)'
      BY <3>1
    <3>3. answer' = [answer EXCEPT ![c] = status]
      BY <3>1, <3>2
    <3>4. Remote!Answer(c, status)
      BY <1>2, <2>1, <2>2, <3>1, <3>2, <3>3 DEF Remote!Answer, written
    <3>5. QED
      BY <3>1, <3>4 DEF Remote!Next
  <2>5. QED
    BY <2>3, <2>4
<1>7. QED
  BY <1>4, <1>5, <1>6

\* The memory side implements a memory: each command is answered at most once, and a
\* write that is acknowledged has been stored once, with its own data.
THEOREM Memory == Spec => MemoryImplemented
<1>1. QED
  BY MemoryInit, MemoryNext, Invariance, PTL DEF Spec, MemoryImplemented, Remote!Spec
=============================================================================
