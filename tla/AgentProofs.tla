---------------------------- MODULE AgentProofs ----------------------------
(***************************************************************************)
(* The connection list of the agent is well formed for every set of        *)
(* circuits, every size and every combination of failing calls; only a     *)
(* repeated attach, or a detach on the wrong side, strands the memory that *)
(* it donated; and every block that is online has a connection that        *)
(* brought it online.                                                      *)
(*                                                                         *)
(* TypeOK and UniqueCircuits are inductive together: del_conn relies on    *)
(* uniqueness to name the connection it unlinks, and get_conn's first      *)
(* match is well defined because there is only one.                        *)
(***************************************************************************)
EXTENDS Agent, SequenceTheorems, TLAPS

-----------------------------------------------------------------------------
(* Lists.                                                                  *)

\* Unlinking position i keeps the other elements in their order.
LEMMA RemoveAtElements ==
    ASSUME NEW S, NEW s \in Seq(S), NEW i \in 1..Len(s)
    PROVE  /\ RemoveAt(s, i) \in Seq(S)
           /\ Len(RemoveAt(s, i)) = Len(s) - 1
           /\ \A j \in 1 .. Len(s) - 1 :
                 RemoveAt(s, i)[j] = IF j < i THEN s[j] ELSE s[j + 1]
<1> DEFINE front == SubSeq(s, 1, i - 1)
           back  == SubSeq(s, i + 1, Len(s))
<1>0. i \in Nat /\ Len(s) \in Nat /\ 1 <= i /\ i <= Len(s)
  OBVIOUS
<1>1. /\ front \in Seq(S) /\ Len(front) = i - 1
      /\ \A j \in 1 .. i - 1 : front[j] = s[j]
  BY <1>0, SubSeqProperties
<1>2. /\ back \in Seq(S) /\ Len(back) = Len(s) - i
      /\ \A j \in 1 .. Len(s) - i : back[j] = s[i + j]
  BY <1>0, SubSeqProperties
<1>3. RemoveAt(s, i) = front \o back
  BY DEF RemoveAt
<1> HIDE DEF front, back
<1>4. /\ front \o back \in Seq(S)
      /\ Len(front \o back) = Len(s) - 1
      /\ \A j \in 1 .. Len(s) - 1 :
            (front \o back)[j] = IF j <= i - 1 THEN front[j] ELSE back[j - (i - 1)]
  <2>1. /\ front \o back \in Seq(S)
        /\ Len(front \o back) = Len(front) + Len(back)
        /\ \A j \in 1 .. Len(front) + Len(back) :
              (front \o back)[j] = IF j <= Len(front) THEN front[j] ELSE back[j - Len(front)]
    BY <1>1, <1>2, ConcatProperties
  <2>2. Len(front) + Len(back) = Len(s) - 1
    BY <1>0, <1>1, <1>2
  <2>3. QED
    BY <1>1, <2>1, <2>2
<1>5. ASSUME NEW j \in 1 .. Len(s) - 1
      PROVE  (front \o back)[j] = IF j < i THEN s[j] ELSE s[j + 1]
  <2>1. CASE j < i
    BY <2>1, <1>0, <1>1, <1>4
  <2>2. CASE ~(j < i)
    <3>1. j - (i - 1) \in 1 .. Len(s) - i /\ i + (j - (i - 1)) = j + 1
      BY <2>2, <1>0
    <3>2. ~(j <= i - 1)
      BY <2>2, <1>0
    <3>3. (front \o back)[j] = back[j - (i - 1)]
      BY <3>2, <1>4
    <3>4. QED
      BY <2>2, <3>1, <3>3, <1>2
  <2>3. QED
    BY <2>1, <2>2
<1>6. QED
  BY <1>3, <1>4, <1>5

\* Prepending shifts the other elements by one.
LEMMA PrependElements ==
    ASSUME NEW S, NEW s \in Seq(S), NEW e \in S
    PROVE  /\ <<e>> \o s \in Seq(S)
           /\ Len(<<e>> \o s) = Len(s) + 1
           /\ \A j \in 1 .. Len(s) + 1 :
                 (<<e>> \o s)[j] = IF j = 1 THEN e ELSE s[j - 1]
<1>1. <<e>> \in Seq(S) /\ Len(<<e>>) = 1 /\ <<e>>[1] = e
  OBVIOUS
<1>2. QED
  BY <1>1, ConcatProperties

UniqueIn(list) ==
    \A i, j \in DOMAIN list : list[i].circuit = list[j].circuit => i = j

\* add_conn keeps the circuits of the list distinct.
LEMMA AddConnUnique ==
    ASSUME NEW list \in Seq(Connection), NEW conn \in Connection, UniqueIn(list)
    PROVE  AddConn(list, conn) \in Seq(Connection) /\ UniqueIn(AddConn(list, conn))
<1>1. CASE Matches(list, conn.circuit) # {}
  BY <1>1 DEF AddConn
<1>2. CASE Matches(list, conn.circuit) = {}
  <2>1. AddConn(list, conn) = <<conn>> \o list
    BY <1>2 DEF AddConn
  <2>2. \A i \in 1..Len(list) : list[i].circuit # conn.circuit
    BY <1>2 DEF Matches
  <2> DEFINE longer == <<conn>> \o list
  <2>3. /\ longer \in Seq(Connection)
        /\ DOMAIN longer = 1 .. Len(list) + 1
        /\ \A j \in 1 .. Len(list) + 1 : longer[j] = IF j = 1 THEN conn ELSE list[j - 1]
    BY PrependElements
  <2>4. \A i, j \in 1..Len(list) : list[i].circuit = list[j].circuit => i = j
    BY DEF UniqueIn
  <2> HIDE DEF longer
  <2>5. UniqueIn(longer)
    <3>1. ASSUME NEW j \in 1 .. Len(list) + 1, NEW k \in 1 .. Len(list) + 1,
                 longer[j].circuit = longer[k].circuit
          PROVE  j = k
      <4>1. CASE j = 1 /\ k # 1
        BY <4>1, <2>2, <2>3, <3>1
      <4>2. CASE j # 1 /\ k = 1
        BY <4>2, <2>2, <2>3, <3>1
      <4>3. CASE j # 1 /\ k # 1
        <5>1. j - 1 \in 1..Len(list) /\ k - 1 \in 1..Len(list)
          BY <4>3
        <5>2. longer[j] = list[j - 1] /\ longer[k] = list[k - 1]
          BY <4>3, <2>3
        <5>3. j - 1 = k - 1
          BY <2>4, <3>1, <5>1, <5>2
        <5>4. QED
          BY <5>3
      <4>4. QED
        BY <4>1, <4>2, <4>3
    <3>2. QED
      BY <2>3, <3>1 DEF UniqueIn
  <2>6. QED
    BY <2>1, <2>3, <2>5 DEF longer
<1>3. QED
  BY <1>1, <1>2

\* Where uniqueness holds, get_conn returns the only connection of the circuit.
LEMMA GetConnUnique ==
    ASSUME NEW list \in Seq(Connection), UniqueIn(list),
           NEW i \in DOMAIN list
    PROVE  GetConn(list, list[i].circuit) = i
BY DEF GetConn, Matches, UniqueIn

\* del_conn keeps the circuits of the list distinct, and drops the named one.
LEMMA DelConnUnique ==
    ASSUME NEW list \in Seq(Connection), UniqueIn(list),
           NEW cid, Matches(list, cid) # {}
    PROVE  /\ DelConn(list, cid) \in Seq(Connection)
           /\ UniqueIn(DelConn(list, cid))
           /\ cid \notin Registered(DelConn(list, cid))
<1>1. PICK i \in 1..Len(list) : list[i].circuit = cid
  BY DEF Matches
<1>2. DelConn(list, cid) = RemoveAt(list, i)
  BY <1>1, GetConnUnique DEF DelConn
<1>0. /\ RemoveAt(list, i) \in Seq(Connection)
      /\ Len(RemoveAt(list, i)) = Len(list) - 1
      /\ \A j \in 1 .. Len(list) - 1 :
            RemoveAt(list, i)[j] = IF j < i THEN list[j] ELSE list[j + 1]
  BY RemoveAtElements, Zenon
<1> DEFINE rest == RemoveAt(list, i)
<1>3. /\ rest \in Seq(Connection)
      /\ DOMAIN rest = 1 .. Len(list) - 1
      /\ \A j \in 1 .. Len(list) - 1 : rest[j] = IF j < i THEN list[j] ELSE list[j + 1]
  <2> HIDE DEF rest
  <2>1. rest \in Seq(Connection) /\ Len(rest) = Len(list) - 1
    BY <1>0 DEF rest
  <2>2. DOMAIN rest = 1 .. Len(list) - 1
    BY <2>1
  <2>3. QED
    BY <1>0, <2>1, <2>2 DEF rest
<1>4. \A j \in 1..Len(list) : list[j].circuit = cid => j = i
  BY <1>1 DEF UniqueIn
<1> HIDE DEF rest
<1>5. UniqueIn(rest)
  <2>1. \A j, k \in 1..Len(list) : list[j].circuit = list[k].circuit => j = k
    BY DEF UniqueIn
  <2>2. ASSUME NEW j \in 1 .. Len(list) - 1, NEW k \in 1 .. Len(list) - 1,
               rest[j].circuit = rest[k].circuit
        PROVE  j = k
    <3> DEFINE at(n) == IF n < i THEN n ELSE n + 1
    <3>1. at(j) \in 1..Len(list) /\ at(k) \in 1..Len(list)
      OBVIOUS
    <3>2. rest[j] = list[at(j)] /\ rest[k] = list[at(k)]
      BY <1>3
    <3>3. at(j) = at(k)
      BY <2>1, <2>2, <3>1, <3>2
    <3>4. QED
      BY <3>3
  <2>3. QED
    BY <1>3, <2>2 DEF UniqueIn
<1>6. cid \notin Registered(rest)
  BY <1>3, <1>4 DEF Registered
<1>7. QED
  BY <1>2, <1>3, <1>5, <1>6 DEF rest

\* add_conn puts a new circuit's connection in the list, and refuses any other.
LEMMA AddConnElements ==
    ASSUME NEW list \in Seq(Connection), NEW conn \in Connection
    PROVE  IF Matches(list, conn.circuit) = {}
           THEN /\ AddConn(list, conn) # list
                /\ Range(AddConn(list, conn)) = Range(list) \cup {conn}
           ELSE AddConn(list, conn) = list
<1>1. CASE Matches(list, conn.circuit) # {}
  BY <1>1 DEF AddConn
<1>2. CASE Matches(list, conn.circuit) = {}
  <2> DEFINE longer == AddConn(list, conn)
  <2>1. /\ longer \in Seq(Connection) /\ Len(longer) = Len(list) + 1
        /\ \A j \in 1 .. Len(list) + 1 : longer[j] = IF j = 1 THEN conn ELSE list[j - 1]
    BY <1>2, PrependElements DEF AddConn
  <2> HIDE DEF longer
  <2>2. longer # list
    BY <2>1
  <2>3. ASSUME NEW j \in DOMAIN longer PROVE longer[j] \in Range(list) \cup {conn}
    <3>1. CASE j = 1
      BY <2>1, <3>1
    <3>2. CASE j # 1
      <4>1. j - 1 \in DOMAIN list /\ longer[j] = list[j - 1]
        BY <2>1, <3>2
      <4>2. QED
        BY <4>1 DEF Range
    <3>3. QED
      BY <3>1, <3>2
  <2>4. 1 \in DOMAIN longer /\ longer[1] = conn
    BY <2>1
  <2>5. ASSUME NEW j \in DOMAIN list PROVE \E k \in DOMAIN longer : longer[k] = list[j]
    <3>1. j + 1 \in DOMAIN longer /\ longer[j + 1] = list[j]
      BY <2>1
    <3>2. QED
      BY <3>1
  <2>6. Range(longer) = Range(list) \cup {conn}
    BY <2>3, <2>4, <2>5 DEF Range
  <2>7. QED
    BY <1>2, <2>2, <2>6 DEF longer
<1>3. QED
  BY <1>1, <1>2

\* del_conn unlinks the connection that get_conn finds, the only one of its circuit.
LEMMA DelConnElements ==
    ASSUME NEW list \in Seq(Connection), UniqueIn(list),
           NEW cid, Matches(list, cid) # {}
    PROVE  /\ list[GetConn(list, cid)] \in Range(list)
           /\ list[GetConn(list, cid)].circuit = cid
           /\ \A conn \in Range(list) :
                 conn.circuit = cid => conn = list[GetConn(list, cid)]
           /\ Range(DelConn(list, cid)) = {conn \in Range(list) : conn.circuit # cid}
<1>1. PICK i \in 1..Len(list) : list[i].circuit = cid
  BY DEF Matches
<1>2. GetConn(list, cid) = i
  BY <1>1, GetConnUnique
<1>3. \A j \in DOMAIN list : list[j].circuit = cid => j = i
  BY <1>1 DEF UniqueIn
<1> DEFINE rest == DelConn(list, cid)
<1>4. /\ DOMAIN rest = 1 .. Len(list) - 1
      /\ \A j \in 1 .. Len(list) - 1 : rest[j] = IF j < i THEN list[j] ELSE list[j + 1]
  BY <1>2, RemoveAtElements DEF DelConn
<1> HIDE DEF rest
<1>5. ASSUME NEW j \in DOMAIN rest
      PROVE  \E k \in DOMAIN list : k # i /\ rest[j] = list[k]
  <2>1. CASE j < i
    BY <1>4, <2>1
  <2>2. CASE ~(j < i)
    <3>1. j + 1 \in DOMAIN list /\ j + 1 # i /\ rest[j] = list[j + 1]
      BY <1>4, <2>2
    <3>2. QED
      BY <3>1
  <2>3. QED
    BY <2>1, <2>2
<1>6. ASSUME NEW k \in DOMAIN list, k # i
      PROVE  \E j \in DOMAIN rest : rest[j] = list[k]
  <2>1. CASE k < i
    <3>1. k \in DOMAIN rest /\ rest[k] = list[k]
      BY <1>4, <2>1
    <3>2. QED
      BY <3>1
  <2>2. CASE ~(k < i)
    <3>1. k - 1 \in 1 .. Len(list) - 1 /\ ~(k - 1 < i) /\ (k - 1) + 1 = k
      BY <1>6, <2>2
    <3>2. rest[k - 1] = list[k]
      BY <1>4, <3>1
    <3>3. QED
      BY <1>4, <3>1, <3>2
  <2>3. QED
    BY <2>1, <2>2
<1>7. Range(rest) = {conn \in Range(list) : conn.circuit # cid}
  <2>1. ASSUME NEW conn \in Range(rest)
        PROVE  conn \in Range(list) /\ conn.circuit # cid
    <3>1. PICK k \in DOMAIN list : k # i /\ conn = list[k]
      BY <1>5 DEF Range
    <3>2. QED
      BY <1>3, <3>1 DEF Range
  <2>2. ASSUME NEW conn \in Range(list), conn.circuit # cid
        PROVE  conn \in Range(rest)
    <3>1. PICK k \in DOMAIN list : conn = list[k]
      BY DEF Range
    <3>2. k # i
      BY <1>1, <2>2, <3>1
    <3>3. QED
      BY <1>6, <3>1, <3>2 DEF Range
  <2>3. QED
    BY <2>1, <2>2
<1>8. list[i] \in Range(list)
  BY DEF Range
<1>9. \A conn \in Range(list) : conn.circuit = cid => conn = list[i]
  BY <1>3 DEF Range
<1>10. QED
  BY <1>1, <1>2, <1>7, <1>8, <1>9 DEF rest

-----------------------------------------------------------------------------
(* The invariant.                                                          *)

IInv == TypeOK /\ UniqueCircuits

\* What every action that allocates a connection does to the lists.
LEMMA RegisterKeeps ==
    ASSUME IInv, NEW conn \in Connection, Register(conn)
    PROVE  /\ clist' \in Seq(Connection) /\ UniqueCircuits'
           /\ orphans' \subseteq Connection
           /\ made' = conn.uid
<1>1. clist \in Seq(Connection) /\ UniqueIn(clist) /\ orphans \subseteq Connection
  BY DEF IInv, TypeOK, UniqueCircuits, UniqueIn
<1>2. clist' \in Seq(Connection) /\ UniqueIn(clist')
  BY <1>1, AddConnUnique DEF Register
<1>3. QED
  BY <1>1, <1>2 DEF Register, UniqueCircuits, UniqueIn

\* What every action that deletes a connection does to the list.
LEMMA DelConnKeeps ==
    ASSUME IInv, NEW cid, Matches(clist, cid) # {}, clist' = DelConn(clist, cid)
    PROVE  clist' \in Seq(Connection) /\ UniqueCircuits'
<1>1. clist \in Seq(Connection) /\ UniqueIn(clist)
  BY DEF IInv, TypeOK, UniqueCircuits, UniqueIn
<1>2. QED
  BY <1>1, DelConnUnique DEF UniqueCircuits, UniqueIn

\* The process exits with its lists and its memory.
LEMMA DieKeeps ==
    ASSUME IInv, Die
    PROVE  /\ clist' \in Seq(Connection) /\ UniqueCircuits'
           /\ orphans' \subseteq Connection
           /\ heap' \in [Uids -> 0..NBlocks]
           /\ alive' \in BOOLEAN
<1>1. clist' = <<>> /\ orphans' = {} /\ alive' = FALSE
  BY DEF Die
<1>2. clist' \in Seq(Connection) /\ DOMAIN clist' = {}
  BY <1>1
<1>3. heap' \in [Uids -> 0..NBlocks]
  BY ConstantsAssumption DEF Die
<1>4. QED
  BY <1>1, <1>2, <1>3 DEF UniqueCircuits

\* The status of an attach is a status whichever call fails.
LEMMA StatusTyped ==
    /\ \A k \in 1..9 : MemoryStatus[k] \in Statuses
    /\ \A k \in 1..4 : ComputeStatus[k] \in Statuses
<1>1. DOMAIN MemoryStatus = 1..9
  BY DEF MemoryStatus
<1>2. DOMAIN ComputeStatus = 1..4
  BY DEF ComputeStatus
<1>3. QED
  BY <1>1, <1>2 DEF Statuses, Range

LEMMA AttachMemoryKeeps ==
    ASSUME IInv, NEW cid \in Circuits, NEW afu \in Afus, NEW size \in Sizes,
           AttachMemory(cid, afu, size)
    PROVE  IInv'
<1>1. PICK k \in Progress(MemorySteps) :
        LET uid  == made + 1
            conn == [uid |-> uid, circuit |-> cid, afu |-> afu, size |-> size,
                      noHotplug |-> FALSE, stats |-> "none",
                      ea     |-> IF k > 1 THEN uid ELSE Wild,
                      handle |-> CASE k <= 2 -> "unset" [] k = 3 -> "invalid"
                                   [] k = 4 -> "open" [] OTHER -> "attached"]
         IN /\ Register(conn)
            /\ heap' = IF k > 1 THEN [heap EXCEPT ![uid] = size] ELSE heap
            /\ regs' = IF k > 8 THEN [regs EXCEPT ![afu].aurora = 1] ELSE regs
            /\ Replied("memory_attach", cid, MemoryStatus[k], IF k = 9 THEN uid ELSE Wild)
  BY DEF AttachMemory
<1> DEFINE uid  == made + 1
           conn == [uid |-> uid, circuit |-> cid, afu |-> afu, size |-> size,
                      noHotplug |-> FALSE, stats |-> "none",
                      ea     |-> IF k > 1 THEN uid ELSE Wild,
                      handle |-> CASE k <= 2 -> "unset" [] k = 3 -> "invalid"
                                   [] k = 4 -> "open" [] OTHER -> "attached"]
<1>2. uid \in Uids
  BY ConstantsAssumption DEF AttachMemory, IInv, TypeOK, Uids
<1>3. k \in 1..9
  BY DEF Progress, MemorySteps
<1>4. conn \in Connection
  BY <1>2, <1>3 DEF Connection
<1>5. /\ clist' \in Seq(Connection) /\ UniqueCircuits'
      /\ orphans' \subseteq Connection
      /\ made' = uid
  BY <1>1, <1>4, RegisterKeeps
<1>6. heap' \in [Uids -> 0..NBlocks]
  BY <1>1, <1>2 DEF IInv, TypeOK, Sizes
<1>7. regs' \in [Afus -> [aurora : 0..8, seg0 : [ea : Addrs \cup {Null}, net : 0..8]]]
  BY <1>1, SMTT(30) DEF IInv, TypeOK
<1>8. MemoryStatus[k] \in Statuses
  BY <1>3, StatusTyped
<1>9. reply' \in [op : {"none", "memory_attach", "memory_detach",
                        "compute_attach", "compute_detach"},
                  circuit : Circuits, status : Statuses, ea : {Wild} \cup Uids]
  BY <1>1, <1>2, <1>8 DEF Replied
<1>10. sysmem' = sysmem /\ alive' = alive
  BY DEF AttachMemory
<1>11. QED
  BY <1>2, <1>5, <1>6, <1>7, <1>9, <1>10 DEF IInv, TypeOK, Uids

LEMMA DetachMemoryKeeps ==
    ASSUME IInv, NEW cid \in Circuits, DetachMemory(cid)
    PROVE  IInv'
<1> DEFINE conn == clist[GetConn(clist, cid)]
<1>1. PICK ptr \in Pointers(conn.ea) :
          \/ /\ heap' = Freed(ptr)
             /\ clist' = DelConn(clist, cid)
             /\ Replied("memory_detach", cid, "DETACH_OK", Wild)
             /\ UNCHANGED <<orphans, alive>>
          \/ /\ BadPointer(ptr) \/ BadRelease(conn)
             /\ Die
             /\ Replied("memory_detach", cid, "died", Wild)
  BY DEF DetachMemory
<1>2. UNCHANGED <<sysmem, regs, made>> /\ Matches(clist, cid) # {}
  BY DEF DetachMemory
<1>3. reply' \in [op : {"none", "memory_attach", "memory_detach",
                        "compute_attach", "compute_detach"},
                  circuit : Circuits, status : Statuses, ea : {Wild} \cup Uids]
  BY <1>1 DEF Replied, Statuses
<1>4. CASE clist' = DelConn(clist, cid) /\ heap' = Freed(ptr) /\ UNCHANGED <<orphans, alive>>
  <2>1. clist' \in Seq(Connection) /\ UniqueCircuits'
    BY <1>2, <1>4, DelConnKeeps
  <2>2. heap' \in [Uids -> 0..NBlocks]
    BY <1>4, ConstantsAssumption DEF Freed, IInv, TypeOK
  <2>3. QED
    BY <1>2, <1>3, <1>4, <2>1, <2>2 DEF IInv, TypeOK
<1>5. CASE Die
  BY <1>2, <1>3, <1>5, DieKeeps DEF IInv, TypeOK
<1>6. QED
  BY <1>1, <1>4, <1>5

LEMMA AttachComputeKeeps ==
    ASSUME IInv, NEW cid \in Circuits, NEW afu \in Afus, NEW port \in Ports,
           NEW ea \in Addrs, NEW size \in Sizes, NEW noHotplug \in BOOLEAN,
           AttachCompute(cid, afu, port, ea, size, noHotplug)
    PROVE  IInv'
<1> DEFINE conn(k, st) == [uid |-> made + 1, circuit |-> cid, afu |-> afu, size |-> size,
                      noHotplug |-> noHotplug, ea |-> Wild,
                      handle |-> IF k = 1 THEN "invalid" ELSE "open",
                      stats  |-> IF k = 5 THEN st ELSE "none"]
<1>1. PICK k \in Progress(ComputeSteps), st \in StatsStarted :
         /\ Register(conn(k, st))
         /\ regs' = ComputeRegs(afu, port, ea, k)
         /\ \E status \in {ComputeStatus[i] : i \in 1..4} \cup {"ATTACH_OK", "ERR_PROBE"} :
              /\ \/ k < 5 /\ status = ComputeStatus[k] /\ UNCHANGED sysmem
                 \/ k = 5 /\ noHotplug /\ status = "ATTACH_OK" /\ UNCHANGED sysmem
                 \/ /\ k = 5 /\ ~noHotplug
                    /\ sysmem' \in [Blocks -> BlockStates]
                    /\ Hotplug(size, sysmem', status)
              /\ Replied("compute_attach", cid, status, Wild)
  BY DEF AttachCompute
<1>2. made + 1 \in Uids
  BY ConstantsAssumption DEF AttachCompute, IInv, TypeOK, Uids
<1>3. k \in 1..5 /\ st \in {"none", "running", "unset"}
  BY DEF Progress, ComputeSteps, StatsStarted
<1>4. conn(k, st) \in Connection
  BY <1>2, <1>3 DEF Connection
<1>5. /\ clist' \in Seq(Connection) /\ UniqueCircuits'
      /\ orphans' \subseteq Connection
      /\ made' = made + 1
  BY <1>1, <1>4, RegisterKeeps
<1>6. regs' \in [Afus -> [aurora : 0..8, seg0 : [ea : Addrs \cup {Null}, net : 0..8]]]
  <2>1. port \in 0..8
    BY ConstantsAssumption
  <2>2. regs[afu].aurora \in 0..8 /\ regs[afu].seg0 \in [ea : Addrs \cup {Null}, net : 0..8]
    BY DEF IInv, TypeOK
  <2>3. QED
    BY <1>1, <2>1, <2>2 DEF ComputeRegs, IInv, TypeOK
<1>7. sysmem' \in [Blocks -> BlockStates]
  BY <1>1 DEF IInv, TypeOK
<1>8. "ATTACH_OK" \in Statuses /\ "ERR_PROBE" \in Statuses
  <2>1. MemoryStatus[9] = "ATTACH_OK"
    BY DEF MemoryStatus
  <2>2. QED
    BY <2>1, StatusTyped DEF Statuses
<1>9. reply' \in [op : {"none", "memory_attach", "memory_detach",
                        "compute_attach", "compute_detach"},
                  circuit : Circuits, status : Statuses, ea : {Wild} \cup Uids]
  BY <1>1, <1>8, StatusTyped DEF Replied
<1>10. UNCHANGED <<heap, alive>>
  BY DEF AttachCompute
<1>11. QED
  BY <1>2, <1>5, <1>6, <1>7, <1>9, <1>10 DEF IInv, TypeOK, Uids

LEMMA DetachComputeKeeps ==
    ASSUME IInv, NEW cid \in Circuits, DetachCompute(cid)
    PROVE  IInv'
<1> DEFINE conn == clist[GetConn(clist, cid)]
<1>1. PICK status \in {"DETACH_OK", "-1"} :
          /\ \/ conn.noHotplug /\ status = "DETACH_OK" /\ UNCHANGED sysmem
             \/ /\ ~conn.noHotplug
                /\ sysmem' \in [Blocks -> BlockStates]
                /\ Unplug(conn.size, sysmem', status)
          /\ \/ /\ clist' = DelConn(clist, cid)
                /\ Replied("compute_detach", cid, status, Wild)
                /\ UNCHANGED <<orphans, heap, alive>>
             \/ /\ BadRelease(conn)
                /\ Die
                /\ Replied("compute_detach", cid, "died", Wild)
  BY DEF DetachCompute
<1>2. UNCHANGED <<regs, made>> /\ Matches(clist, cid) # {}
  BY DEF DetachCompute
<1>3. sysmem' \in [Blocks -> BlockStates]
  BY <1>1 DEF IInv, TypeOK
<1>4. reply' \in [op : {"none", "memory_attach", "memory_detach",
                        "compute_attach", "compute_detach"},
                  circuit : Circuits, status : Statuses, ea : {Wild} \cup Uids]
  BY <1>1 DEF Replied, Statuses
<1>5. CASE clist' = DelConn(clist, cid) /\ UNCHANGED <<orphans, heap, alive>>
  <2>1. clist' \in Seq(Connection) /\ UniqueCircuits'
    BY <1>2, <1>5, DelConnKeeps
  <2>2. QED
    BY <1>2, <1>3, <1>4, <1>5, <2>1 DEF IInv, TypeOK
<1>6. CASE Die
  BY <1>2, <1>3, <1>4, <1>6, DieKeeps DEF IInv, TypeOK
<1>7. QED
  BY <1>1, <1>5, <1>6

LEMMA InitIInv == Init => IInv
<1> SUFFICES ASSUME Init PROVE IInv
  OBVIOUS
<1>1. /\ clist \in Seq(Connection) /\ DOMAIN clist = {}
      /\ orphans \subseteq Connection
      /\ alive \in BOOLEAN
  BY DEF Init
<1>2. heap \in [Uids -> 0..NBlocks] /\ made \in 0..MaxConns
  BY ConstantsAssumption DEF Init
<1>3. sysmem \in [Blocks -> BlockStates]
  BY DEF Init, BlockStates
<1>4. regs \in [Afus -> [aurora : 0..8, seg0 : [ea : Addrs \cup {Null}, net : 0..8]]]
  BY DEF Init, NoSegment
<1>5. reply \in [op : {"none", "memory_attach", "memory_detach",
                       "compute_attach", "compute_detach"},
                 circuit : Circuits, status : Statuses, ea : {Wild} \cup Uids]
  <2>1. (CHOOSE c \in Circuits : TRUE) \in Circuits
    <3>1. Circuits # {}
      BY ConstantsAssumption
    <3>2. PICK c : c \in Circuits
      BY <3>1
    <3>3. QED
      BY <3>2
  <2>2. QED
    BY <2>1 DEF Init, Statuses
<1>6. QED
  BY <1>1, <1>2, <1>3, <1>4, <1>5 DEF IInv, TypeOK, UniqueCircuits

LEMMA NextIInv == IInv /\ [Next]_vars => IInv'
<1> SUFFICES ASSUME IInv, [Next]_vars PROVE IInv'
  OBVIOUS
<1>1. ASSUME NEW cid \in Circuits, Attach(cid) PROVE IInv'
  BY <1>1, AttachMemoryKeeps, AttachComputeKeeps DEF Attach
<1>2. ASSUME NEW cid \in Circuits, NEW op \in {"memory_detach", "compute_detach"},
             MissingCircuit(op, cid)
      PROVE  IInv'
  BY <1>2 DEF MissingCircuit, Replied, IInv, TypeOK, UniqueCircuits, Statuses
<1>3. ASSUME NEW cid \in Circuits, Detach(cid) PROVE IInv'
  BY <1>2, <1>3, DetachMemoryKeeps, DetachComputeKeeps DEF Detach
<1>4. ASSUME NEW cid \in Circuits, NEW ports \in SUBSET Ports, UnsupportedPorts(cid, ports)
      PROVE  IInv'
  BY <1>4 DEF UnsupportedPorts, Replied, IInv, TypeOK, UniqueCircuits, Statuses
<1>5. CASE Terminate
  BY <1>5, DieKeeps DEF Terminate, IInv, TypeOK
<1>6. CASE Start
  BY <1>6 DEF Start, IInv, TypeOK, UniqueCircuits
<1>7. CASE UNCHANGED vars
  BY <1>7 DEF vars, IInv, TypeOK, UniqueCircuits
<1>8. QED
  BY <1>1, <1>3, <1>4, <1>5, <1>6, <1>7 DEF Next, HandleRequest

\* Every reachable state is well typed, whatever fails and however often the
\* agent dies.
THEOREM TypeCorrect == Spec => []TypeOK
<1>1. IInv => TypeOK
  BY DEF IInv
<1>2. QED
  BY <1>1, InitIInv, NextIInv, PTL DEF Spec

\* No circuit is ever in clist twice: the assumption get_conn and del_conn make
\* when they stop at the first match.
THEOREM CircuitsUnique == Spec => []UniqueCircuits
<1>1. IInv => UniqueCircuits
  BY DEF IInv
<1>2. QED
  BY <1>1, InitIInv, NextIInv, PTL DEF Spec

-----------------------------------------------------------------------------
(* The list implements the registry.                                       *)

\* Each connection of the list is the owner of its circuit.
LEMMA OwnerAt ==
    ASSUME NEW list \in Seq(Connection), UniqueIn(list), NEW i \in DOMAIN list
    PROVE  Owner(list)[list[i].circuit] = list[i].uid
<1>1. list[i].circuit \in Registered(list)
  BY DEF Registered
<1>2. QED
  BY <1>1, GetConnUnique DEF Owner

\* add_conn registers a new circuit and leaves the owners of the others.
LEMMA AddConnOwner ==
    ASSUME NEW list \in Seq(Connection), NEW conn \in Connection, UniqueIn(list),
           Matches(list, conn.circuit) = {}
    PROVE  Owner(AddConn(list, conn)) =
             [d \in DOMAIN Owner(list) \cup {conn.circuit} |->
                 IF d = conn.circuit THEN conn.uid ELSE Owner(list)[d]]
<1> DEFINE longer == AddConn(list, conn)
<1>1. /\ longer \in Seq(Connection)
      /\ DOMAIN longer = 1 .. Len(list) + 1
      /\ \A j \in 1 .. Len(list) + 1 : longer[j] = IF j = 1 THEN conn ELSE list[j - 1]
  <2>1. longer = <<conn>> \o list
    BY DEF AddConn
  <2>2. QED
    BY <2>1, PrependElements
<1>2. UniqueIn(longer)
  BY AddConnUnique
<1> HIDE DEF longer
<1>3. \A d : d \in Registered(longer) <=> d \in Registered(list) \cup {conn.circuit}
  <2>1. ASSUME NEW d \in Registered(longer) PROVE d \in Registered(list) \cup {conn.circuit}
    <3>1. PICK j \in 1 .. Len(list) + 1 : d = longer[j].circuit
      BY <1>1 DEF Registered
    <3>2. CASE j = 1
      BY <3>1, <3>2, <1>1
    <3>3. CASE j # 1
      <4>1. j - 1 \in DOMAIN list /\ longer[j] = list[j - 1]
        BY <3>3, <1>1
      <4>2. QED
        BY <3>1, <4>1 DEF Registered
    <3>4. QED
      BY <3>2, <3>3
  <2>2. ASSUME NEW d \in Registered(list) PROVE d \in Registered(longer)
    <3>1. PICK j \in DOMAIN list : d = list[j].circuit
      BY DEF Registered
    <3>2. j + 1 \in DOMAIN longer /\ longer[j + 1] = list[j]
      BY <1>1
    <3>3. QED
      BY <3>1, <3>2 DEF Registered
  <2>3. conn.circuit \in Registered(longer)
    <3>1. 1 \in DOMAIN longer /\ longer[1] = conn
      BY <1>1
    <3>2. QED
      BY <3>1 DEF Registered
  <2>4. QED
    BY <2>1, <2>2, <2>3
<1>4. Owner(longer)[conn.circuit] = conn.uid
  <2>1. 1 \in DOMAIN longer /\ longer[1] = conn
    BY <1>1
  <2>2. QED
    BY <1>1, <1>2, <2>1, OwnerAt
<1>5. ASSUME NEW d \in Registered(list), d # conn.circuit
      PROVE  Owner(longer)[d] = Owner(list)[d]
  <2>1. PICK j \in DOMAIN list : d = list[j].circuit
    BY DEF Registered
  <2>2. j + 1 \in DOMAIN longer /\ longer[j + 1] = list[j]
    BY <1>1
  <2>3. Owner(longer)[longer[j + 1].circuit] = longer[j + 1].uid
    BY <1>1, <1>2, <2>2, OwnerAt
  <2>4. Owner(list)[list[j].circuit] = list[j].uid
    BY OwnerAt
  <2>5. QED
    BY <2>1, <2>2, <2>3, <2>4
<1>6. DOMAIN Owner(longer) = Registered(longer) /\ DOMAIN Owner(list) = Registered(list)
  BY DEF Owner
<1>7. Owner(longer) = [d \in Registered(longer) |-> Owner(longer)[d]]
  BY DEF Owner
<1>8. QED
  BY <1>3, <1>4, <1>5, <1>6, <1>7 DEF longer

\* del_conn drops the owner of one circuit and leaves those of the others.
LEMMA DelConnOwner ==
    ASSUME NEW list \in Seq(Connection), UniqueIn(list),
           NEW cid, Matches(list, cid) # {}
    PROVE  /\ cid \in DOMAIN Owner(list)
           /\ Owner(DelConn(list, cid)) =
                [d \in DOMAIN Owner(list) \ {cid} |-> Owner(list)[d]]
<1>1. PICK i \in 1..Len(list) : list[i].circuit = cid
  BY DEF Matches
<1>2. DelConn(list, cid) = RemoveAt(list, i)
  BY <1>1, GetConnUnique DEF DelConn
<1> DEFINE rest == DelConn(list, cid)
<1>3. /\ DOMAIN rest = 1 .. Len(list) - 1
      /\ \A j \in 1 .. Len(list) - 1 : rest[j] = IF j < i THEN list[j] ELSE list[j + 1]
  BY <1>2, RemoveAtElements
<1>4. rest \in Seq(Connection) /\ UniqueIn(rest) /\ cid \notin Registered(rest)
  BY DelConnUnique
<1> HIDE DEF rest
<1>5. ASSUME NEW d \in Registered(list), d # cid
      PROVE  d \in Registered(rest) /\ Owner(rest)[d] = Owner(list)[d]
  <2>1. PICK j \in 1..Len(list) : d = list[j].circuit
    BY DEF Registered
  <2> DEFINE at == IF j < i THEN j ELSE j - 1
  <2>2. at \in DOMAIN rest /\ rest[at] = list[j]
    <3>1. j # i
      BY <1>1, <1>5, <2>1
    <3>2. CASE j < i
      BY <3>2, <1>3
    <3>3. CASE ~(j < i)
      <4>1. j - 1 \in 1 .. Len(list) - 1 /\ ~(j - 1 < i) /\ (j - 1) + 1 = j
        BY <3>1, <3>3
      <4>2. QED
        BY <3>3, <4>1, <1>3
    <3>4. QED
      BY <3>2, <3>3
  <2>3. d \in Registered(rest)
    BY <2>1, <2>2 DEF Registered
  <2>4. Owner(rest)[rest[at].circuit] = rest[at].uid
    BY <1>4, <2>2, OwnerAt
  <2>5. Owner(list)[list[j].circuit] = list[j].uid
    BY OwnerAt
  <2>6. QED
    BY <2>1, <2>2, <2>3, <2>4, <2>5
<1>6. ASSUME NEW d \in Registered(rest) PROVE d \in Registered(list)
  <2>1. PICK j \in DOMAIN rest : d = rest[j].circuit
    BY DEF Registered
  <2>2. PICK n \in DOMAIN list : rest[j] = list[n]
    <3>1. j \in 1..Len(list) /\ j + 1 \in 1..Len(list)
      BY <1>3
    <3>2. QED
      BY <3>1, <1>3
  <2>3. QED
    BY <2>1, <2>2 DEF Registered
<1>7. Registered(rest) = Registered(list) \ {cid}
  BY <1>4, <1>5, <1>6
<1>8. DOMAIN Owner(list) = Registered(list) /\ cid \in Registered(list)
  BY <1>1 DEF Owner, Registered
<1>9. Owner(rest) = [d \in Registered(rest) |-> Owner(rest)[d]]
  BY DEF Owner
<1>10. QED
  BY <1>5, <1>7, <1>8, <1>9 DEF rest

\* The registry's step of a request that allocates a connection.
LEMMA RegisterRefines ==
    ASSUME IInv, NEW conn \in Connection, Register(conn)
    PROVE  [Registry!Next]_(Owner(clist))
<1>1. clist \in Seq(Connection) /\ UniqueIn(clist)
  BY DEF IInv, TypeOK, UniqueCircuits, UniqueIn
<1>2. CASE Matches(clist, conn.circuit) # {}
  BY <1>2 DEF Register, AddConn
<1>3. CASE Matches(clist, conn.circuit) = {}
  <2>1. Owner(clist') = [d \in DOMAIN Owner(clist) \cup {conn.circuit} |->
                           IF d = conn.circuit THEN conn.uid ELSE Owner(clist)[d]]
    BY <1>1, <1>3, AddConnOwner DEF Register
  <2>2. conn.circuit \notin DOMAIN Owner(clist)
    BY <1>3 DEF Owner, Registered, Matches
  <2>3. conn.circuit \in Circuits /\ conn.uid \in Uids
    BY DEF Connection
  <2>4. Registry!Register(conn.circuit, conn.uid)
    BY <2>1, <2>2 DEF Registry!Register
  <2>5. QED
    BY <2>3, <2>4 DEF Registry!Next
<1>4. QED
  BY <1>2, <1>3

LEMMA DelConnRefines ==
    ASSUME IInv, NEW cid \in Circuits, Matches(clist, cid) # {}, clist' = DelConn(clist, cid)
    PROVE  Registry!Next
<1>1. clist \in Seq(Connection) /\ UniqueIn(clist)
  BY DEF IInv, TypeOK, UniqueCircuits, UniqueIn
<1>2. /\ cid \in DOMAIN Owner(clist)
      /\ Owner(clist') = [d \in DOMAIN Owner(clist) \ {cid} |-> Owner(clist)[d]]
  BY <1>1, DelConnOwner
<1>3. Registry!Release(cid)
  BY <1>2 DEF Registry!Release
<1>4. QED
  BY <1>3 DEF Registry!Next

LEMMA EmptyListOwner ==
    ASSUME NEW list, list = <<>>
    PROVE  Owner(list) = [c \in {} |-> c]
<1>1. Registered(list) = {}
  BY DEF Registered
<1>2. QED
  BY <1>1 DEF Owner

LEMMA DieRefines ==
    ASSUME Die
    PROVE  Registry!Next
<1>1. Owner(clist') = [c \in {} |-> c]
  BY EmptyListOwner DEF Die
<1>2. QED
  BY <1>1 DEF Registry!Next, Registry!Forget, Registry!NoOwner

\* Every attach, however far it gets, registers a connection of its circuit.
LEMMA AttachRegisters ==
    ASSUME IInv, NEW cid \in Circuits, Attach(cid)
    PROVE  \E conn \in Connection : conn.circuit = cid /\ Register(conn)
<1>1. PICK afu \in Afus, size \in Sizes :
       \/ AttachMemory(cid, afu, size)
       \/ \E port \in Ports, ea \in Addrs, noHotplug \in BOOLEAN :
             AttachCompute(cid, afu, port, ea, size, noHotplug)
  BY DEF Attach
<1>2. made < MaxConns => made + 1 \in Uids
  BY ConstantsAssumption DEF IInv, TypeOK, Uids
<1>3. CASE AttachMemory(cid, afu, size)
  <2> DEFINE conn(k) == [uid |-> made + 1, circuit |-> cid, afu |-> afu, size |-> size,
                      noHotplug |-> FALSE, stats |-> "none",
                      ea     |-> IF k > 1 THEN made + 1 ELSE Wild,
                      handle |-> CASE k <= 2 -> "unset" [] k = 3 -> "invalid"
                                   [] k = 4 -> "open" [] OTHER -> "attached"]
  <2>1. PICK k \in Progress(MemorySteps) : Register(conn(k))
    BY <1>3 DEF AttachMemory
  <2>2. made + 1 \in Uids
    BY <1>2, <1>3 DEF AttachMemory
  <2>3. k \in 1..9
    BY DEF Progress, MemorySteps
  <2>4. conn(k) \in Connection /\ conn(k).circuit = cid
    BY <2>2, <2>3 DEF Connection
  <2>5. QED
    BY <2>1, <2>4
<1>4. ASSUME NEW port \in Ports, NEW ea \in Addrs, NEW noHotplug \in BOOLEAN,
             AttachCompute(cid, afu, port, ea, size, noHotplug)
      PROVE  \E conn \in Connection : conn.circuit = cid /\ Register(conn)
  <2> DEFINE conn(k, st) == [uid |-> made + 1, circuit |-> cid, afu |-> afu, size |-> size,
                      noHotplug |-> noHotplug, ea |-> Wild,
                      handle |-> IF k = 1 THEN "invalid" ELSE "open",
                      stats  |-> IF k = 5 THEN st ELSE "none"]
  <2>1. PICK k \in Progress(ComputeSteps), st \in StatsStarted : Register(conn(k, st))
    BY <1>4 DEF AttachCompute
  <2>2. made + 1 \in Uids
    BY <1>2, <1>4 DEF AttachCompute
  <2>3. st \in {"none", "running", "unset"}
    BY DEF StatsStarted
  <2>4. conn(k, st) \in Connection /\ conn(k, st).circuit = cid
    BY <2>2, <2>3 DEF Connection
  <2>5. QED
    BY <2>1, <2>4
<1>5. QED
  BY <1>1, <1>3, <1>4

\* A detach of a registered circuit unlinks its connection or ends the process.
LEMMA DetachOutcomes ==
    ASSUME NEW cid, Detach(cid)
    PROVE  \/ Matches(clist, cid) = {} /\ clist' = clist
           \/ Matches(clist, cid) # {} /\ clist' = DelConn(clist, cid)
           \/ Die
BY DEF Detach, DetachMemory, DetachCompute, MissingCircuit

LEMMA NextRefines == IInv /\ [Next]_vars => [Registry!Next]_(Owner(clist))
<1> SUFFICES ASSUME IInv, [Next]_vars PROVE [Registry!Next]_(Owner(clist))
  OBVIOUS
<1>1. ASSUME NEW cid \in Circuits, Attach(cid) PROVE [Registry!Next]_(Owner(clist))
  BY <1>1, AttachRegisters, RegisterRefines
<1>2. ASSUME NEW cid \in Circuits, Detach(cid) PROVE [Registry!Next]_(Owner(clist))
  BY <1>2, DetachOutcomes, DelConnRefines, DieRefines
<1>3. ASSUME NEW cid \in Circuits, NEW ports \in SUBSET Ports, UnsupportedPorts(cid, ports)
      PROVE  clist' = clist
  BY <1>3 DEF UnsupportedPorts
<1>4. CASE Terminate
  BY <1>4, DieRefines DEF Terminate
<1>5. CASE Start \/ UNCHANGED vars
  BY <1>5 DEF Start, vars
<1>6. QED
  BY <1>1, <1>2, <1>3, <1>4, <1>5 DEF Next, HandleRequest

\* The list of connections implements the registry: one owner per circuit, kept
\* until a detach, and no request moves the owner of another circuit.
THEOREM ImplementsRegistry == Spec => RegistryImplemented
<1>1. Init => Registry!Init
  BY EmptyListOwner DEF Init, Registry!Init, Registry!NoOwner
<1>2. QED
  BY <1>1, InitIInv, NextIInv, NextRefines, PTL
     DEF Spec, RegistryImplemented, Registry!Spec

\* Whatever fails in it, a detach ends the registration of its circuit.
THEOREM DetachEnds == Spec => DetachEndsCircuit
<1>1. IInv /\ [Next]_vars =>
        [\A c \in Circuits : Detach(c) => c \notin Registered(clist')]_vars
  <2> SUFFICES ASSUME IInv, NEW c \in Circuits, Detach(c)
               PROVE  c \notin Registered(clist')
    OBVIOUS
  <2>1. clist \in Seq(Connection) /\ UniqueIn(clist)
    BY DEF IInv, TypeOK, UniqueCircuits, UniqueIn
  <2>2. CASE Matches(clist, c) = {} /\ clist' = clist
    BY <2>2 DEF Matches, Registered
  <2>3. CASE Matches(clist, c) # {} /\ clist' = DelConn(clist, c)
    BY <2>1, <2>3, DelConnUnique
  <2>4. CASE Die
    BY <2>4 DEF Die, Registered
  <2>5. QED
    BY <2>2, <2>3, <2>4, DetachOutcomes
<1>2. QED
  BY <1>1, InitIInv, NextIInv, PTL DEF Spec, DetachEndsCircuit

-----------------------------------------------------------------------------
(* What the agent has set up belongs to a connection struct that exists.   *)

\* An attach adds one struct, to the list or to the orphans.
LEMMA RegisterAdds ==
    ASSUME IInv, NEW conn \in Connection, Register(conn)
    PROVE  AnyConnection' = AnyConnection \cup {conn}
<1>1. clist \in Seq(Connection)
  BY DEF IInv, TypeOK
<1>2. clist' = AddConn(clist, conn)
      /\ orphans' = IF clist' = clist THEN orphans \cup {conn} ELSE orphans
  BY DEF Register
<1>3. CASE Matches(clist, conn.circuit) = {}
  <2>1. clist' # clist /\ Range(clist') = Range(clist) \cup {conn}
    BY <1>1, <1>2, <1>3, AddConnElements
  <2>2. QED
    BY <1>2, <2>1 DEF AnyConnection
<1>4. CASE Matches(clist, conn.circuit) # {}
  <2>1. clist' = clist
    BY <1>1, <1>2, <1>4, AddConnElements
  <2>2. QED
    BY <1>2, <2>1 DEF AnyConnection
<1>5. QED
  BY <1>3, <1>4

\* A detach loses no struct but the one it unlinks.
LEMMA DelConnRemoves ==
    ASSUME IInv, NEW cid, Matches(clist, cid) # {},
           clist' = DelConn(clist, cid), orphans' = orphans
    PROVE  /\ clist[GetConn(clist, cid)] \in AnyConnection
           /\ AnyConnection' \subseteq AnyConnection
           /\ AnyConnection \subseteq AnyConnection' \cup {clist[GetConn(clist, cid)]}
<1>1. clist \in Seq(Connection) /\ UniqueIn(clist)
  BY DEF IInv, TypeOK, UniqueCircuits, UniqueIn
<1> DEFINE gone == clist[GetConn(clist, cid)]
<1>2. gone \in Range(clist) /\ \A conn \in Range(clist) : conn.circuit = cid => conn = gone
  BY <1>1, DelConnElements
<1>3. Range(clist') = {conn \in Range(clist) : conn.circuit # cid}
  BY <1>1, DelConnElements
<1> HIDE DEF gone
<1>4. QED
  BY <1>2, <1>3 DEF AnyConnection, gone

LEMMA ElementsTyped == IInv => AnyConnection \subseteq Connection
BY DEF IInv, TypeOK, AnyConnection, Range

\* What an attach of the memory side makes, whichever call fails: a struct with a
\* region of its own, unless memalign failed.
LEMMA AttachMemoryMakes ==
    ASSUME IInv, NEW cid \in Circuits, NEW afu \in Afus, NEW size \in Sizes,
           AttachMemory(cid, afu, size)
    PROVE  \E conn \in Connection :
              /\ Register(conn)
              /\ conn.uid = made + 1 /\ conn.circuit = cid /\ conn.size = size
              /\ conn.stats = "none"
              /\ conn.handle = "unset" => Faults \cap {"memalign", "mlock"} # {}
              /\ \/ conn.ea = conn.uid /\ heap' = [heap EXCEPT ![conn.uid] = size]
                 \/ conn.ea = Wild /\ heap' = heap /\ "memalign" \in Faults
              /\ reply'.status = "ATTACH_OK" => reply'.ea = conn.uid
<1> DEFINE conn(k) == [uid |-> made + 1, circuit |-> cid, afu |-> afu, size |-> size,
                    noHotplug |-> FALSE, stats |-> "none",
                    ea     |-> IF k > 1 THEN made + 1 ELSE Wild,
                    handle |-> CASE k <= 2 -> "unset" [] k = 3 -> "invalid"
                                 [] k = 4 -> "open" [] OTHER -> "attached"]
<1>1. PICK k \in Progress(MemorySteps) :
         /\ Register(conn(k))
         /\ heap' = IF k > 1 THEN [heap EXCEPT ![made + 1] = size] ELSE heap
         /\ Replied("memory_attach", cid, MemoryStatus[k], IF k = 9 THEN made + 1 ELSE Wild)
  BY DEF AttachMemory
<1>2. made + 1 \in Uids
  BY ConstantsAssumption DEF AttachMemory, IInv, TypeOK, Uids
<1>3. k \in 1..9 /\ (k = 1 => "memalign" \in Faults) /\ (k = 2 => "mlock" \in Faults)
  BY DEF Progress, MemorySteps
<1>4. k # 9 => MemoryStatus[k] # "ATTACH_OK"
  BY <1>3 DEF MemoryStatus
<1>5. /\ conn(k) \in Connection
      /\ conn(k).ea = IF k > 1 THEN made + 1 ELSE Wild
      /\ conn(k).uid = made + 1 /\ conn(k).circuit = cid /\ conn(k).size = size
      /\ conn(k).stats = "none"
      /\ conn(k).handle = "unset" => k \in {1, 2}
  BY <1>2, <1>3 DEF Connection
<1> HIDE DEF conn
<1>6. reply'.status = "ATTACH_OK" => reply'.ea = made + 1
  BY <1>1, <1>4 DEF Replied
<1>7. IF k > 1 THEN conn(k).ea = conn(k).uid /\ heap' = [heap EXCEPT ![conn(k).uid] = size]
               ELSE conn(k).ea = Wild /\ heap' = heap /\ "memalign" \in Faults
  BY <1>1, <1>3, <1>5
<1>8. QED
  BY <1>1, <1>3, <1>5, <1>6, <1>7

\* An attach strands a region only when it is a repeated one: then add_conn refuses
\* the connection, and the region that was allocated for it is in no list.
LEMMA AttachMemoryStrands ==
    ASSUME IInv, NEW cid \in Circuits, NEW afu \in Afus, NEW size \in Sizes,
           AttachMemory(cid, afu, size)
    PROVE  IF cid \in Registered(clist) THEN Stranded' \subseteq Stranded \cup {made + 1}
                                        ELSE Stranded' \subseteq Stranded
<1>1. clist \in Seq(Connection) /\ heap \in [Uids -> 0..NBlocks]
  BY DEF IInv, TypeOK
<1>2. PICK conn \in Connection :
         /\ Register(conn)
         /\ conn.uid = made + 1 /\ conn.circuit = cid
         /\ \/ conn.ea = conn.uid /\ heap' = [heap EXCEPT ![conn.uid] = size]
            \/ conn.ea = Wild /\ heap' = heap
  BY AttachMemoryMakes
<1>3. \A u \in Uids : u # made + 1 => heap'[u] = heap[u]
  BY <1>1, <1>2
<1>4. \/ cid \in Registered(clist) /\ Range(clist') = Range(clist)
      \/ cid \notin Registered(clist) /\ Range(clist') = Range(clist) \cup {conn}
  <2>1. cid \in Registered(clist) <=> Matches(clist, cid) # {}
    BY DEF Registered, Matches
  <2>2. CASE Matches(clist, conn.circuit) = {}
    BY <1>1, <1>2, <2>1, <2>2, AddConnElements DEF Register
  <2>3. CASE Matches(clist, conn.circuit) # {}
    BY <1>1, <1>2, <2>1, <2>3, AddConnElements DEF Register
  <2>4. QED
    BY <2>2, <2>3
<1>5. CASE cid \in Registered(clist) /\ Range(clist') = Range(clist)
  BY <1>3, <1>5 DEF Stranded
<1>6. CASE cid \notin Registered(clist) /\ Range(clist') = Range(clist) \cup {conn}
  <2>1. \A u \in Uids : heap'[u] # 0 /\ conn.ea # u => heap[u] # 0
    BY <1>1, <1>2
  <2>2. QED
    BY <1>6, <2>1 DEF Stranded
<1>7. QED
  BY <1>4, <1>5, <1>6

\* detach_memory frees the region of the connection it unlinks.
LEMMA DetachMemoryStrands ==
    ASSUME IInv, NEW cid \in Circuits, DetachMemory(cid)
    PROVE  Stranded' \subseteq Stranded
<1> DEFINE gone == clist[GetConn(clist, cid)]
<1>1. clist \in Seq(Connection) /\ UniqueIn(clist) /\ heap \in [Uids -> 0..NBlocks]
  BY DEF IInv, TypeOK, UniqueCircuits, UniqueIn
<1>2. Matches(clist, cid) # {}
  BY DEF DetachMemory
<1>3. PICK ptr \in Pointers(gone.ea) :
         \/ heap' = Freed(ptr) /\ clist' = DelConn(clist, cid)
         \/ Die
  BY DEF DetachMemory
<1>4. CASE Die
  BY <1>4 DEF Die, Stranded
<1>5. CASE heap' = Freed(ptr) /\ clist' = DelConn(clist, cid)
  <2>1. \A conn \in Range(clist) : conn \in Range(clist') \/ conn = gone
    BY <1>1, <1>2, <1>5, DelConnElements
  <2>2. ASSUME NEW u \in Uids, heap'[u] # 0 PROVE heap[u] # 0 /\ u # gone.ea
    <3>1. CASE u # gone.ea
      BY <1>1, <1>5, <2>2, <3>1 DEF Freed
    <3>2. CASE u = gone.ea
      <4>1. u # Wild
        BY ConstantsAssumption DEF Uids, Wild
      <4>2. ptr = u
        BY <3>2, <4>1 DEF Pointers
      <4>3. QED
        BY <1>1, <1>5, <2>2, <4>2 DEF Freed
    <3>3. QED
      BY <3>1, <3>2
  <2> HIDE DEF gone
  <2>3. QED
    BY <2>1, <2>2 DEF Stranded
<1>6. QED
  BY <1>3, <1>4, <1>5

\* detach_compute frees no region: that of the connection it unlinks is stranded.
LEMMA DetachComputeStrands ==
    ASSUME IInv, NEW cid \in Circuits, DetachCompute(cid)
    PROVE  \E u : Stranded' \subseteq Stranded \cup {u}
<1> DEFINE gone == clist[GetConn(clist, cid)]
<1>1. clist \in Seq(Connection) /\ UniqueIn(clist) /\ Matches(clist, cid) # {}
  BY DEF DetachCompute, IInv, TypeOK, UniqueCircuits, UniqueIn
<1>2. (clist' = DelConn(clist, cid) /\ heap' = heap) \/ Die
  BY DEF DetachCompute
<1>3. CASE Die
  BY <1>3 DEF Die, Stranded
<1>4. CASE clist' = DelConn(clist, cid) /\ heap' = heap
  <2>1. \A conn \in Range(clist) : conn \in Range(clist') \/ conn = gone
    BY <1>1, <1>4, DelConnElements
  <2> HIDE DEF gone
  <2>2. Stranded' \subseteq Stranded \cup {gone.ea}
    BY <1>4, <2>1 DEF Stranded
  <2>3. QED
    BY <2>2
<1>5. QED
  BY <1>2, <1>3, <1>4

\* An attach registers no circuit but its own, and a detach ends the registration of
\* its circuit.
LEMMA RequestRegisters ==
    ASSUME IInv, NEW cid \in Circuits
    PROVE  /\ \A conn \in Connection : Register(conn) =>
                 Registered(clist') \subseteq Registered(clist) \cup {conn.circuit}
           /\ Detach(cid) => Registered(clist') \subseteq Registered(clist) \ {cid}
<1>1. clist \in Seq(Connection) /\ UniqueIn(clist)
  BY DEF IInv, TypeOK, UniqueCircuits, UniqueIn
<1>2. ASSUME NEW conn \in Connection, Register(conn)
      PROVE  Registered(clist') \subseteq Registered(clist) \cup {conn.circuit}
  <2>1. Range(clist') \subseteq Range(clist) \cup {conn}
    <3>1. CASE Matches(clist, conn.circuit) = {}
      BY <1>1, <1>2, <3>1, AddConnElements DEF Register
    <3>2. CASE Matches(clist, conn.circuit) # {}
      BY <1>1, <1>2, <3>2, AddConnElements DEF Register
    <3>3. QED
      BY <3>1, <3>2
  <2>2. QED
    BY <2>1 DEF Registered, Range
<1>3. ASSUME Detach(cid) PROVE Registered(clist') \subseteq Registered(clist) \ {cid}
  <2>1. CASE Matches(clist, cid) = {} /\ clist' = clist
    BY <2>1 DEF Matches, Registered
  <2>2. CASE Matches(clist, cid) # {} /\ clist' = DelConn(clist, cid)
    <3>1. Range(clist') = {conn \in Range(clist) : conn.circuit # cid}
      BY <1>1, <2>2, DelConnElements
    <3>2. \A c : c \in Registered(clist') <=> \E conn \in Range(clist') : conn.circuit = c
      BY DEF Registered, Range
    <3>3. \A c : c \in Registered(clist) <=> \E conn \in Range(clist) : conn.circuit = c
      BY DEF Registered, Range
    <3>4. QED
      BY <3>1, <3>2, <3>3
  <2>3. CASE Die
    BY <2>3 DEF Die, Registered
  <2>4. QED
    BY <1>3, <2>1, <2>2, <2>3, DetachOutcomes
<1>4. QED
  BY <1>2, <1>3

-----------------------------------------------------------------------------
(* The regions of a memory node whose allocations succeed.                 *)

\* memalign and mlock do not fail.  Where they do, a struct keeps fields that nobody
\* wrote, and its detach frees another's memory or ends the process.
MemoryGranted == Faults \cap {"memalign", "mlock"} = {}

\* Each struct holds a region of its own, of its size, and can be released.
OwnRegions ==
    /\ \A conn \in AnyConnection :
          /\ conn.ea = conn.uid /\ conn.uid <= made
          /\ heap[conn.uid] = conn.size
          /\ ~BadRelease(conn)
    /\ \A conn, other \in AnyConnection : conn.uid = other.uid => conn = other
    /\ orphans \cap Range(clist) = {}

LEMMA AttachMemoryOwns ==
    ASSUME MemoryGranted, IInv, OwnRegions,
           NEW cid \in Circuits, NEW afu \in Afus, NEW size \in Sizes,
           AttachMemory(cid, afu, size)
    PROVE  OwnRegions'
<1>1. PICK conn \in Connection :
         /\ Register(conn)
         /\ conn.uid = made + 1 /\ conn.size = size /\ conn.stats = "none"
         /\ conn.handle # "unset"
         /\ conn.ea = conn.uid /\ heap' = [heap EXCEPT ![conn.uid] = size]
  BY AttachMemoryMakes DEF MemoryGranted
<1>2. AnyConnection' = AnyConnection \cup {conn}
  BY <1>1, RegisterAdds
<1>3. heap \in [Uids -> 0..NBlocks] /\ made \in Nat /\ made' = made + 1
  BY <1>1, ConstantsAssumption DEF IInv, TypeOK, Register
<1>4. ASSUME NEW other \in AnyConnection PROVE other.uid # made + 1 /\ other.uid \in Uids
  <2>1. other.uid <= made /\ other \in Connection
    BY ElementsTyped DEF OwnRegions
  <2>2. QED
    BY <1>3, <2>1, ConstantsAssumption DEF Connection, Uids
<1>5. ~BadRelease(conn)
  BY <1>1 DEF BadRelease
<1>6. conn.uid \in Uids
  BY DEF Connection
<1>7. ASSUME NEW c \in AnyConnection'
      PROVE  /\ c.ea = c.uid /\ c.uid <= made' /\ heap'[c.uid] = c.size /\ ~BadRelease(c)
  <2>1. CASE c = conn
    BY <1>1, <1>3, <1>5, <1>6, <2>1
  <2>2. CASE c \in AnyConnection
    <3>1. c.ea = c.uid /\ c.uid <= made /\ heap[c.uid] = c.size /\ ~BadRelease(c)
      BY <2>2 DEF OwnRegions
    <3>2. heap'[c.uid] = heap[c.uid] /\ c.uid \in Int
      BY <1>1, <1>3, <1>4, <2>2, ConstantsAssumption DEF Uids
    <3>3. QED
      BY <1>3, <3>1, <3>2
  <2>3. QED
    BY <1>2, <2>1, <2>2
<1>8. ASSUME NEW c \in AnyConnection', NEW other \in AnyConnection', c.uid = other.uid
      PROVE  c = other
  BY <1>1, <1>2, <1>4, <1>8 DEF OwnRegions
<1>9. orphans' \cap Range(clist') = {}
  <2>1. conn \notin AnyConnection
    BY <1>1, <1>4
  <2>2. \/ clist' = clist /\ orphans' = orphans \cup {conn}
        \/ Range(clist') = Range(clist) \cup {conn} /\ orphans' = orphans
    <3>1. clist \in Seq(Connection)
      BY DEF IInv, TypeOK
    <3>2. CASE Matches(clist, conn.circuit) = {}
      BY <1>1, <3>1, <3>2, AddConnElements DEF Register
    <3>3. CASE Matches(clist, conn.circuit) # {}
      BY <1>1, <3>1, <3>3, AddConnElements DEF Register
    <3>4. QED
      BY <3>2, <3>3
  <2>3. orphans \cap Range(clist) = {}
    BY DEF OwnRegions
  <2>4. QED
    BY <2>1, <2>2, <2>3 DEF AnyConnection
<1>10. QED
  BY <1>7, <1>8, <1>9 DEF OwnRegions, BadRelease

\* A detach then frees the region of its circuit's connection and no other, and
\* the agent survives it.
LEMMA DetachMemoryFrees ==
    ASSUME IInv, OwnRegions, NEW cid \in Circuits, DetachMemory(cid)
    PROVE  \E gone \in AnyConnection :
              /\ gone.circuit = cid
              /\ AnyConnection' = AnyConnection \ {gone}
              /\ heap' = [heap EXCEPT ![gone.uid] = 0]
              /\ clist' = DelConn(clist, cid) /\ orphans' = orphans
              /\ alive' = alive /\ reply'.status = "DETACH_OK"
<1> DEFINE gone == clist[GetConn(clist, cid)]
<1>1. clist \in Seq(Connection) /\ UniqueIn(clist) /\ Matches(clist, cid) # {}
  BY DEF DetachMemory, IInv, TypeOK, UniqueCircuits, UniqueIn
<1>2. /\ gone \in Range(clist) /\ gone.circuit = cid
      /\ \A conn \in Range(clist) : conn.circuit = cid => conn = gone
      /\ Range(DelConn(clist, cid)) = {conn \in Range(clist) : conn.circuit # cid}
  BY <1>1, DelConnElements
<1>3. gone \in AnyConnection /\ gone \in Connection
  BY <1>2, ElementsTyped DEF AnyConnection
<1>4. gone.ea = gone.uid /\ heap[gone.uid] = gone.size /\ ~BadRelease(gone)
  BY <1>3 DEF OwnRegions
<1>5. gone.uid \in Uids /\ gone.uid # Wild /\ gone.size # 0
  BY <1>3, ConstantsAssumption DEF Connection, Uids, Wild, Sizes
<1>6. Pointers(gone.ea) = {gone.uid} /\ ~BadPointer(gone.uid)
  BY <1>4, <1>5 DEF Pointers, BadPointer
<1>7. /\ heap' = Freed(gone.uid) /\ clist' = DelConn(clist, cid)
      /\ reply'.status = "DETACH_OK" /\ orphans' = orphans /\ alive' = alive
  <2>1. PICK ptr \in Pointers(gone.ea) :
           \/ /\ heap' = Freed(ptr) /\ clist' = DelConn(clist, cid)
              /\ Replied("memory_detach", cid, "DETACH_OK", Wild)
              /\ UNCHANGED <<orphans, alive>>
           \/ BadPointer(ptr) \/ BadRelease(gone)
    BY DEF DetachMemory
  <2>2. ptr = gone.uid
    BY <1>6
  <2> HIDE DEF gone
  <2>3. QED
    BY <1>4, <1>6, <2>1, <2>2 DEF Replied
<1>8. heap' = [heap EXCEPT ![gone.uid] = 0]
  BY <1>5, <1>7 DEF Freed
<1> HIDE DEF gone
<1>9. AnyConnection' = AnyConnection \ {gone}
  <2>1. gone \notin orphans
    BY <1>2 DEF OwnRegions
  <2>2. QED
    BY <1>2, <1>7, <2>1 DEF AnyConnection
<1>10. QED
  BY <1>2, <1>3, <1>7, <1>8, <1>9

LEMMA DetachMemoryOwns ==
    ASSUME IInv, OwnRegions, NEW cid \in Circuits, DetachMemory(cid)
    PROVE  OwnRegions'
<1>1. PICK gone \in AnyConnection :
         /\ gone.circuit = cid
         /\ AnyConnection' = AnyConnection \ {gone}
         /\ heap' = [heap EXCEPT ![gone.uid] = 0]
         /\ clist' = DelConn(clist, cid) /\ orphans' = orphans
  BY DetachMemoryFrees
<1>2. made' = made
  BY DEF DetachMemory
<1>3. heap \in [Uids -> 0..NBlocks]
  BY DEF IInv, TypeOK
<1>4. ASSUME NEW c \in AnyConnection'
      PROVE  c.ea = c.uid /\ c.uid <= made' /\ heap'[c.uid] = c.size /\ ~BadRelease(c)
  <2>1. c.uid # gone.uid /\ c \in AnyConnection /\ c.uid \in Uids
    BY <1>1, ElementsTyped DEF OwnRegions, Connection
  <2>2. QED
    BY <1>1, <1>2, <1>3, <2>1 DEF OwnRegions
<1>5. orphans' \cap Range(clist') = {}
  <2>1. Range(clist') \subseteq Range(clist)
    <3>1. clist \in Seq(Connection) /\ UniqueIn(clist) /\ Matches(clist, cid) # {}
      BY DEF DetachMemory, IInv, TypeOK, UniqueCircuits, UniqueIn
    <3>2. QED
      BY <1>1, <3>1, DelConnElements
  <2>2. QED
    BY <1>1, <2>1 DEF OwnRegions
<1>6. QED
  BY <1>1, <1>4, <1>5 DEF OwnRegions, BadRelease

\* A detach of the compute side leaves the regions alone: that of the connection it
\* unlinks stays allocated.
LEMMA DetachComputeLeaves ==
    ASSUME IInv, OwnRegions, NEW cid \in Circuits, DetachCompute(cid)
    PROVE  /\ OwnRegions' /\ alive' = alive /\ heap' = heap
           /\ AnyConnection' \subseteq AnyConnection
           /\ Range(clist') \subseteq Range(clist)
<1> DEFINE gone == clist[GetConn(clist, cid)]
<1>1. clist \in Seq(Connection) /\ UniqueIn(clist) /\ Matches(clist, cid) # {}
  BY DEF DetachCompute, IInv, TypeOK, UniqueCircuits, UniqueIn
<1>2. gone \in Range(clist) /\ Range(DelConn(clist, cid)) \subseteq Range(clist)
  BY <1>1, DelConnElements
<1>3. ~BadRelease(gone)
  BY <1>2 DEF OwnRegions, AnyConnection
<1>4. /\ clist' = DelConn(clist, cid)
      /\ orphans' = orphans /\ heap' = heap /\ alive' = alive /\ made' = made
  BY <1>3 DEF DetachCompute
<1>5. AnyConnection' \subseteq AnyConnection
  BY <1>2, <1>4 DEF AnyConnection
<1>6. OwnRegions'
  BY <1>2, <1>4, <1>5 DEF OwnRegions, BadRelease
<1>7. QED
  BY <1>2, <1>4, <1>5, <1>6

-----------------------------------------------------------------------------
(* What the requests of the compute side leave behind, whatever fails.     *)

\* An attach makes one struct with the parameters of the request; unless it wrote
\* the segment it has left the blocks alone, and only then can it succeed.
LEMMA AttachComputeMakes ==
    ASSUME IInv, NEW cid \in Circuits, NEW afu \in Afus, NEW port \in Ports,
           NEW ea \in Addrs, NEW size \in Sizes, NEW noHotplug \in BOOLEAN,
           AttachCompute(cid, afu, port, ea, size, noHotplug)
    PROVE  /\ \E conn \in Connection :
                /\ Register(conn)
                /\ conn.circuit = cid /\ conn.size = size /\ conn.noHotplug = noHotplug
           /\ alive' = alive
           /\ \/ /\ regs'[afu].seg0 = regs[afu].seg0 /\ sysmem' = sysmem
                 /\ reply'.status # "ATTACH_OK"
              \/ /\ regs'[afu].seg0 = [ea |-> ea, net |-> port]
                 /\ \/ noHotplug /\ sysmem' = sysmem
                    \/ /\ ~noHotplug /\ sysmem' \in [Blocks -> BlockStates]
                       /\ Hotplug(size, sysmem', reply'.status)
<1> DEFINE conn(k, st) == [uid |-> made + 1, circuit |-> cid, afu |-> afu, size |-> size,
                    noHotplug |-> noHotplug, ea |-> Wild,
                    handle |-> IF k = 1 THEN "invalid" ELSE "open",
                    stats  |-> IF k = 5 THEN st ELSE "none"]
<1>1. PICK k \in Progress(ComputeSteps), st \in StatsStarted,
           status \in {ComputeStatus[i] : i \in 1..4} \cup {"ATTACH_OK", "ERR_PROBE"} :
         /\ Register(conn(k, st))
         /\ regs' = ComputeRegs(afu, port, ea, k)
         /\ \/ k < 5 /\ status = ComputeStatus[k] /\ UNCHANGED sysmem
            \/ k = 5 /\ noHotplug /\ status = "ATTACH_OK" /\ UNCHANGED sysmem
            \/ /\ k = 5 /\ ~noHotplug
               /\ sysmem' \in [Blocks -> BlockStates]
               /\ Hotplug(size, sysmem', status)
         /\ Replied("compute_attach", cid, status, Wild)
  BY DEF AttachCompute
<1>2. made + 1 \in Uids
  BY ConstantsAssumption DEF AttachCompute, IInv, TypeOK, Uids
<1>3. k \in 1..5 /\ st \in {"none", "running", "unset"}
  BY DEF Progress, ComputeSteps, StatsStarted
<1>4. /\ conn(k, st) \in Connection
      /\ conn(k, st).circuit = cid /\ conn(k, st).size = size
      /\ conn(k, st).noHotplug = noHotplug
  BY <1>2, <1>3 DEF Connection
<1> HIDE DEF conn
<1>5. k < 5 => ComputeStatus[k] # "ATTACH_OK"
  BY <1>3 DEF ComputeStatus
<1>6. reply'.status = status /\ alive' = alive
  BY <1>1 DEF Replied, AttachCompute
<1>7. regs'[afu].seg0 = IF k > 4 THEN [ea |-> ea, net |-> port] ELSE regs[afu].seg0
  BY <1>1 DEF ComputeRegs, IInv, TypeOK
<1>8. k < 5 \/ k = 5
  BY <1>3
<1>9. CASE k < 5
  BY <1>1, <1>3, <1>4, <1>5, <1>6, <1>7, <1>9
<1>10. CASE k = 5
  BY <1>1, <1>4, <1>6, <1>7, <1>10
<1>11. QED
  BY <1>8, <1>9, <1>10

\* A detach drops the one connection of the circuit, or all when the process ends.
LEMMA DetachComputeDrops ==
    ASSUME IInv, NEW cid \in Circuits, DetachCompute(cid)
    PROVE  \E gone \in Range(clist) :
              /\ gone.circuit = cid
              /\ Range(clist') \subseteq {conn \in Range(clist) : conn.circuit # cid}
              /\ regs' = regs
              /\ \E status :
                    /\ alive' => reply'.status = status
                    /\ \/ gone.noHotplug /\ sysmem' = sysmem
                       \/ /\ ~gone.noHotplug /\ sysmem' \in [Blocks -> BlockStates]
                          /\ Unplug(gone.size, sysmem', status)
<1> DEFINE gone == clist[GetConn(clist, cid)]
<1>1. clist \in Seq(Connection) /\ UniqueIn(clist) /\ Matches(clist, cid) # {}
  BY DEF DetachCompute, IInv, TypeOK, UniqueCircuits, UniqueIn
<1>2. /\ gone \in Range(clist) /\ gone.circuit = cid
      /\ Range(DelConn(clist, cid)) = {conn \in Range(clist) : conn.circuit # cid}
  BY <1>1, DelConnElements
<1>3. PICK status \in {"DETACH_OK", "-1"} :
          /\ \/ gone.noHotplug /\ status = "DETACH_OK" /\ UNCHANGED sysmem
             \/ /\ ~gone.noHotplug
                /\ sysmem' \in [Blocks -> BlockStates]
                /\ Unplug(gone.size, sysmem', status)
          /\ \/ /\ clist' = DelConn(clist, cid)
                /\ Replied("compute_detach", cid, status, Wild)
             \/ Die
  BY DEF DetachCompute
<1> HIDE DEF gone
<1>4. Range(clist') \subseteq {conn \in Range(clist) : conn.circuit # cid}
  <2>1. CASE clist' = DelConn(clist, cid)
    BY <1>2, <2>1
  <2>2. CASE Die
    BY <2>2 DEF Die, Range
  <2>3. QED
    BY <1>3, <2>1, <2>2
<1>5. alive' => reply'.status = status
  BY <1>3 DEF Die, Replied
<1>6. regs' = regs
  BY DEF DetachCompute
<1>7. QED
  BY <1>2, <1>3, <1>4, <1>5, <1>6

\* hotplug_memory_blocks brings online blocks of the request and no other, and all
\* of them if it succeeds and the kernel obeys.
LEMMA HotplugReaches ==
    ASSUME NEW size \in Sizes, NEW sys \in [Blocks -> BlockStates],
           NEW status, Hotplug(size, sys, status)
    PROVE  /\ \A b \in Blocks : sys[b] = "online" => b < size \/ sysmem[b] = "online"
           /\ status = "ATTACH_OK" /\ "online" \notin Faults =>
                 \A b \in Blocks : b < size => sys[b] = "online"
<1>1. PICK k \in 0..size :
         /\ \A b \in Blocks :
               CASE b < k -> \E s \in Probed(sysmem[b]) :
                                Accessible(s) /\ sys[b] \in Written(s, "online", "online")
                 [] b = k /\ k < size -> sys[b] \in Probed(sysmem[b]) /\ AccessMayFail(sys[b])
                 [] OTHER -> sys[b] = sysmem[b]
         /\ status = IF k = size THEN "ATTACH_OK" ELSE "ERR_PROBE"
  BY DEF Hotplug
<1>2. size \in Nat /\ k \in Nat /\ k <= size /\ Blocks \subseteq Nat
  BY ConstantsAssumption DEF Sizes, Blocks
<1>3. ASSUME NEW b \in Blocks, b < k, "online" \notin Faults PROVE sys[b] = "online"
  BY <1>1, <1>3 DEF Written
<1>4. ASSUME NEW b \in Blocks, ~(b < size) PROVE sys[b] = sysmem[b]
  <2>1. ~(b < k) /\ ~(b = k /\ k < size)
    BY <1>2, <1>4
  <2>2. QED
    BY <1>1, <2>1
<1>5. status = "ATTACH_OK" => k = size
  BY <1>1
<1>6. QED
  BY <1>2, <1>3, <1>4, <1>5

\* unplug_memory_blocks brings no block online, and takes all blocks of the
\* connection offline if it succeeds and the kernel obeys.
LEMMA UnplugReaches ==
    ASSUME NEW size \in Sizes, NEW sys \in [Blocks -> BlockStates],
           NEW status, Unplug(size, sys, status)
    PROVE  /\ \A b \in Blocks : sys[b] = "online" => sysmem[b] = "online"
           /\ status = "DETACH_OK" /\ "offline" \notin Faults =>
                 \A b \in Blocks : b < size => sys[b] # "online"
<1>1. PICK k \in 0..size :
         /\ \A b \in Blocks :
               CASE b < k -> Accessible(sysmem[b]) /\ sys[b] \in Written(sysmem[b], "offline", "offline")
                 [] b = k /\ k < size -> sys[b] = sysmem[b] /\ AccessMayFail(sys[b])
                 [] OTHER -> sys[b] = sysmem[b]
         /\ status = IF k = size THEN "DETACH_OK" ELSE "-1"
  BY DEF Unplug
<1>2. size \in Nat /\ k \in Nat /\ Blocks \subseteq Nat
  BY ConstantsAssumption DEF Sizes, Blocks
<1>3. ASSUME NEW b \in Blocks, b < k
      PROVE  /\ sys[b] = "online" => sysmem[b] = "online"
             /\ "offline" \notin Faults => sys[b] = "offline"
  BY <1>1, <1>3 DEF Written
<1>4. ASSUME NEW b \in Blocks, ~(b < k) PROVE sys[b] = sysmem[b]
  <2>1. CASE b = k /\ k < size
    BY <1>1, <1>4, <2>1
  <2>2. CASE ~(b = k /\ k < size)
    BY <1>1, <1>4, <2>2
  <2>3. QED
    BY <2>1, <2>2
<1>5. status = "DETACH_OK" => k = size
  BY <1>1
<1>6. QED
  BY <1>3, <1>4, <1>5

-----------------------------------------------------------------------------
(* The blocks of a compute node.                                           *)

\* What the owners of online blocks depend on: the agent serves the compute side
\* only and is not stopped, its statistics threads can be started, and a block
\* that exists can be opened and taken offline.  Everything else may fail.
BlocksObey ==
    /\ "memory" \notin Sides
    /\ Faults \cap {"offline", "access", "pthread_create", "sigterm"} = {}

\* Blocks come into being from INIT_PROBE_ADDR upwards, so the block at which
\* unplug_memory_blocks stops is the first that does not exist, and none is online
\* behind it.
NoGaps ==
    \A b, c \in Blocks : b < c /\ sysmem[b] = "absent" => sysmem[c] = "absent"

\* No connection of the compute side can kill the process that releases it.
Releasable == \A conn \in AnyConnection : ~BadRelease(conn)

\* hotplug_memory_blocks changes blocks of the request only, and leaves no gap.
LEMMA HotplugExtends ==
    ASSUME NoGaps, NEW size \in Sizes, NEW sys \in [Blocks -> BlockStates],
           NEW status, Hotplug(size, sys, status), "access" \notin Faults
    PROVE  /\ \A b \in Blocks : b >= size => sys[b] = sysmem[b]
           /\ \A b, c \in Blocks : b < c /\ sys[b] = "absent" => sys[c] = "absent"
<1>1. PICK k \in 0..size :
       \A b \in Blocks :
             CASE b < k -> \E s \in Probed(sysmem[b]) :
                              Accessible(s) /\ sys[b] \in Written(s, "online", "online")
               [] b = k /\ k < size -> sys[b] \in Probed(sysmem[b]) /\ AccessMayFail(sys[b])
               [] OTHER -> sys[b] = sysmem[b]
  BY DEF Hotplug
<1>2. size \in Nat /\ k \in Nat /\ k <= size /\ Blocks \subseteq Nat
  BY ConstantsAssumption DEF Sizes, Blocks
<1>3. ASSUME NEW b \in Blocks, b > k \/ (b = k /\ k = size) PROVE sys[b] = sysmem[b]
  <2>1. ~(b < k) /\ ~(b = k /\ k < size)
    BY <1>2, <1>3
  <2>2. QED
    BY <1>1, <2>1
<1>4. ASSUME NEW b \in Blocks, b < k PROVE sys[b] # "absent"
  <2>1. PICK s \in Probed(sysmem[b]) :
           Accessible(s) /\ sys[b] \in Written(s, "online", "online")
    BY <1>1, <1>4
  <2>2. QED
    BY <2>1 DEF Accessible, Written
<1>5. ASSUME NEW b \in Blocks, b = k, k < size
      PROVE  sys[b] = "absent" /\ sysmem[b] = "absent"
  <2>1. sys[b] \in Probed(sysmem[b]) /\ AccessMayFail(sys[b])
    BY <1>1, <1>2, <1>5
  <2>2. sys[b] = "absent"
    BY <2>1 DEF AccessMayFail
  <2>3. QED
    BY <2>1, <2>2 DEF Probed
<1>6. ASSUME NEW b \in Blocks, b >= size PROVE sys[b] = sysmem[b]
  BY <1>2, <1>3, <1>6
<1>7. ASSUME NEW b \in Blocks, NEW c \in Blocks, b < c, sys[b] = "absent"
      PROVE  sys[c] = "absent"
  <2>1. b >= k /\ c > k
    BY <1>2, <1>4, <1>7
  <2>2. sys[c] = sysmem[c]
    BY <1>3, <2>1
  <2>3. sysmem[b] = "absent"
    BY <1>2, <1>3, <1>5, <1>7, <2>1
  <2>4. QED
    BY <1>7, <2>2, <2>3 DEF NoGaps
<1>8. QED
  BY <1>6, <1>7

\* unplug_memory_blocks takes all blocks of the connection offline, because where
\* it stops early nothing exists any more.
LEMMA UnplugClears ==
    ASSUME NoGaps, NEW size \in Sizes, NEW sys \in [Blocks -> BlockStates],
           NEW status, Unplug(size, sys, status), Faults \cap {"offline", "access"} = {}
    PROVE  /\ \A b \in Blocks : sys[b] = "absent" <=> sysmem[b] = "absent"
           /\ \A b \in Blocks : sys[b] = "online" => b >= size /\ sysmem[b] = "online"
<1>1. PICK k \in 0..size :
       \A b \in Blocks :
             CASE b < k -> Accessible(sysmem[b]) /\ sys[b] \in Written(sysmem[b], "offline", "offline")
               [] b = k /\ k < size -> sys[b] = sysmem[b] /\ AccessMayFail(sys[b])
               [] OTHER -> sys[b] = sysmem[b]
  BY DEF Unplug
<1>2. size \in Nat /\ k \in Nat /\ k <= size /\ Blocks \subseteq Nat
  BY ConstantsAssumption DEF Sizes, Blocks
<1>3. ASSUME NEW b \in Blocks, b < k PROVE sys[b] = "offline" /\ sysmem[b] # "absent"
  <2>1. Accessible(sysmem[b]) /\ sys[b] \in Written(sysmem[b], "offline", "offline")
    BY <1>1, <1>3
  <2>2. QED
    BY <2>1 DEF Accessible, Written
<1>4. ASSUME NEW b \in Blocks, b >= k PROVE sys[b] = sysmem[b]
  <2>1. CASE b = k /\ k < size
    BY <1>1, <1>2, <2>1
  <2>2. CASE ~(b = k /\ k < size)
    <3>1. ~(b < k)
      BY <1>2, <1>4
    <3>2. QED
      BY <1>1, <2>2, <3>1
  <2>3. QED
    BY <2>1, <2>2
<1>5. ASSUME NEW b \in Blocks, b >= k, b < size PROVE sysmem[b] = "absent"
  <2>1. k \in Blocks /\ k < size
    BY <1>2, <1>5, ConstantsAssumption DEF Blocks
  <2>2. sys[k] = sysmem[k] /\ AccessMayFail(sys[k])
    BY <1>1, <1>2, <2>1
  <2>3. sysmem[k] = "absent"
    BY <2>2 DEF AccessMayFail
  <2>4. QED
    BY <1>2, <1>5, <2>1, <2>3 DEF NoGaps
<1>6. QED
  BY <1>2, <1>3, <1>4, <1>5

\* What an attach of the compute side does to the blocks.
LEMMA AttachComputeOwns ==
    ASSUME BlocksObey, IInv, NoGaps, Releasable, OnlineHasOwner,
           NEW cid \in Circuits, NEW afu \in Afus, NEW port \in Ports,
           NEW ea \in Addrs, NEW size \in Sizes, NEW noHotplug \in BOOLEAN,
           AttachCompute(cid, afu, port, ea, size, noHotplug)
    PROVE  NoGaps' /\ Releasable' /\ OnlineHasOwner'
<1> DEFINE conn(k, st) == [uid |-> made + 1, circuit |-> cid, afu |-> afu, size |-> size,
                    noHotplug |-> noHotplug, ea |-> Wild,
                    handle |-> IF k = 1 THEN "invalid" ELSE "open",
                    stats  |-> IF k = 5 THEN st ELSE "none"]
<1>1. PICK k \in Progress(ComputeSteps), st \in StatsStarted :
         /\ Register(conn(k, st))
         /\ \/ UNCHANGED sysmem
            \/ /\ ~noHotplug
               /\ sysmem' \in [Blocks -> BlockStates]
               /\ \E status : Hotplug(size, sysmem', status)
  BY DEF AttachCompute
<1>2. made + 1 \in Uids
  BY ConstantsAssumption DEF AttachCompute, IInv, TypeOK, Uids
<1>3. k \in 1..5 /\ st \in {"none", "running"}
  BY DEF Progress, ComputeSteps, StatsStarted, BlocksObey
<1>4. conn(k, st) \in Connection /\ ~BadRelease(conn(k, st))
  BY <1>2, <1>3 DEF Connection, BadRelease
<1>5. conn(k, st).noHotplug = noHotplug /\ conn(k, st).size = size
  OBVIOUS
<1> HIDE DEF conn
<1>6. AnyConnection' = AnyConnection \cup {conn(k, st)}
  BY <1>1, <1>4, RegisterAdds
<1>7. Releasable'
  BY <1>4, <1>6 DEF Releasable, BadRelease
<1>8. CASE UNCHANGED sysmem
  BY <1>6, <1>7, <1>8 DEF NoGaps, OnlineHasOwner
<1>9. ASSUME ~noHotplug, sysmem' \in [Blocks -> BlockStates],
             NEW status, Hotplug(size, sysmem', status)
      PROVE  NoGaps' /\ OnlineHasOwner'
  <2> DEFINE sys == sysmem'
  <2>0. sys \in [Blocks -> BlockStates] /\ Hotplug(size, sys, status) /\ "access" \notin Faults
    BY <1>9 DEF BlocksObey
  <2> HIDE DEF sys
  <2>1. /\ \A b \in Blocks : b >= size => sys[b] = sysmem[b]
        /\ \A b, c \in Blocks : b < c /\ sys[b] = "absent" => sys[c] = "absent"
    BY <2>0, HotplugExtends
  <2>2. Blocks \subseteq Int /\ size \in Int
    BY ConstantsAssumption DEF Blocks, Sizes
  <2>3. ASSUME NEW b \in Blocks, sysmem'[b] = "online"
        PROVE  \E owner \in AnyConnection' : ~owner.noHotplug /\ b < owner.size
    <3>1. CASE b < size
      BY <1>5, <1>6, <1>9, <3>1
    <3>2. CASE b >= size
      <4>1. sysmem[b] = "online"
        BY <2>1, <2>3, <3>2 DEF sys
      <4>2. QED
        BY <1>6, <4>1 DEF OnlineHasOwner
    <3>3. QED
      BY <2>2, <3>1, <3>2
  <2>4. NoGaps'
    BY <2>1 DEF sys, NoGaps
  <2>5. QED
    BY <2>3, <2>4 DEF OnlineHasOwner
<1>10. QED
  BY <1>1, <1>7, <1>8, <1>9

\* What a detach of the compute side does to the blocks.
LEMMA DetachComputeOwns ==
    ASSUME BlocksObey, IInv, NoGaps, Releasable, OnlineHasOwner,
           NEW cid \in Circuits, DetachCompute(cid)
    PROVE  NoGaps' /\ Releasable' /\ OnlineHasOwner'
<1> DEFINE gone == clist[GetConn(clist, cid)]
<1>1. Matches(clist, cid) # {}
  BY DEF DetachCompute
<1>2. gone \in AnyConnection
  <2>1. clist \in Seq(Connection) /\ UniqueIn(clist)
    BY DEF IInv, TypeOK, UniqueCircuits, UniqueIn
  <2>2. QED
    BY <1>1, <2>1, DelConnElements DEF AnyConnection
<1>3. gone \in Connection /\ ~BadRelease(gone)
  BY <1>2, ElementsTyped DEF Releasable
<1>4. clist' = DelConn(clist, cid) /\ orphans' = orphans
  BY <1>3 DEF DetachCompute
<1>5. /\ AnyConnection' \subseteq AnyConnection
      /\ AnyConnection \subseteq AnyConnection' \cup {gone}
  BY <1>1, <1>4, DelConnRemoves
<1>6. \/ gone.noHotplug /\ UNCHANGED sysmem
      \/ /\ ~gone.noHotplug
         /\ sysmem' \in [Blocks -> BlockStates]
         /\ \E status : Unplug(gone.size, sysmem', status)
  BY DEF DetachCompute
<1> HIDE DEF gone
<1>7. Releasable'
  BY <1>5 DEF Releasable, BadRelease
<1>8. CASE gone.noHotplug /\ UNCHANGED sysmem
  BY <1>5, <1>7, <1>8 DEF NoGaps, OnlineHasOwner
<1>9. ASSUME sysmem' \in [Blocks -> BlockStates],
             NEW status, Unplug(gone.size, sysmem', status)
      PROVE  NoGaps' /\ OnlineHasOwner'
  <2> DEFINE sys == sysmem'
  <2>0. sys \in [Blocks -> BlockStates] /\ Unplug(gone.size, sys, status)
        /\ Faults \cap {"offline", "access"} = {} /\ gone.size \in Sizes
    BY <1>3, <1>9 DEF BlocksObey, Connection
  <2> HIDE DEF sys
  <2>1. /\ \A b \in Blocks : sys[b] = "absent" <=> sysmem[b] = "absent"
        /\ \A b \in Blocks : sys[b] = "online" => b >= gone.size /\ sysmem[b] = "online"
    BY <2>0, UnplugClears
  <2>2. Blocks \subseteq Int /\ gone.size \in Int
    BY <2>0, ConstantsAssumption DEF Blocks, Sizes
  <2>3. ASSUME NEW b \in Blocks, sysmem'[b] = "online"
        PROVE  \E owner \in AnyConnection' : ~owner.noHotplug /\ b < owner.size
    <3>1. sysmem[b] = "online" /\ ~(b < gone.size)
      BY <2>1, <2>2, <2>3 DEF sys
    <3>2. PICK owner \in AnyConnection : ~owner.noHotplug /\ b < owner.size
      BY <3>1 DEF OnlineHasOwner
    <3>3. QED
      BY <1>5, <3>1, <3>2
  <2>4. NoGaps'
    BY <2>1 DEF sys, NoGaps
  <2>5. QED
    BY <2>3, <2>4 DEF OnlineHasOwner
<1>10. QED
  BY <1>6, <1>7, <1>8, <1>9

\* Every online block was hot-plugged for a connection that still exists, however
\* the circuits overlap, whatever was not set up and whichever block is missing.
THEOREM OnlineOwned ==
    ASSUME BlocksObey
    PROVE  Spec => []OnlineHasOwner
<1> DEFINE Inv == NoGaps /\ Releasable /\ OnlineHasOwner
<1>1. Init => Inv
  BY DEF Init, NoGaps, Releasable, OnlineHasOwner, AnyConnection, Range
<1>2. IInv /\ Inv /\ [Next]_vars => Inv'
  <2> SUFFICES ASSUME IInv, NoGaps, Releasable, OnlineHasOwner, [Next]_vars PROVE Inv'
    OBVIOUS
  <2>1. ASSUME NEW cid \in Circuits, HandleRequest(cid) PROVE Inv'
    <3>1. CASE Attach(cid)
      BY <3>1, AttachComputeOwns DEF Attach, BlocksObey
    <3>2. CASE DetachCompute(cid)
      BY <3>2, DetachComputeOwns
    <3>3. ASSUME UNCHANGED <<clist, orphans, sysmem>> PROVE Inv'
      BY <3>3 DEF NoGaps, Releasable, OnlineHasOwner, AnyConnection, BadRelease
    <3>4. QED
      BY <2>1, <3>1, <3>2, <3>3
         DEF HandleRequest, Detach, BlocksObey, MissingCircuit, UnsupportedPorts
  <2>2. ~Terminate
    BY DEF Terminate, BlocksObey
  <2>3. CASE Start \/ UNCHANGED vars
    BY <2>3 DEF Start, vars, NoGaps, Releasable, OnlineHasOwner, AnyConnection, BadRelease
  <2>4. QED
    BY <2>1, <2>2, <2>3 DEF Next
<1>3. Inv => OnlineHasOwner
  OBVIOUS
<1>4. QED
  BY <1>1, <1>2, <1>3, InitIInv, NextIInv, PTL DEF Spec
=============================================================================
