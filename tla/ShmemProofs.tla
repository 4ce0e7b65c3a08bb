---------------------------- MODULE ShmemProofs ----------------------------
(***************************************************************************)
(* Facts about libtfshmem, for every page size, every size of pools and    *)
(* buffers, any number of pools and every combination of failing calls: a  *)
(* library that notes itself as initialised can be torn down, and what is  *)
(* left after the teardown is due to repeated calls of tf_memory_init; no  *)
(* two buffers share a byte; and every mapping reaches the buffer it is    *)
(* for.  That the buffers lie in the pool does not hold.                   *)
(***************************************************************************)
EXTENDS Shmem, FiniteSetTheorems, SequenceTheorems, TLAPS

-----------------------------------------------------------------------------
(* The connection list of a process that uses one circuit.                 *)

\* The list is empty or holds the one circuit of the library.
Single(list) == list = <<>> \/ (list = <<list[1]>> /\ list[1].circuit = Cid)

\* In such a list the circuit is found exactly when the list is not empty.
LEMMA SingleMatches ==
    ASSUME NEW list, Single(list)
    PROVE  /\ M!Matches(list, Cid) = {} <=> list = <<>>
           /\ C!Matches(list, Cid) = {} <=> list = <<>>
<1>1. CASE list = <<>>
  BY <1>1 DEF M!Matches, C!Matches
<1>2. CASE list = <<list[1]>> /\ list[1].circuit = Cid
  <2>1. 1 \in DOMAIN list /\ list # <<>>
    BY <1>2
  <2>2. QED
    BY <1>2, <2>1 DEF M!Matches, C!Matches
<1>3. QED
  BY <1>1, <1>2 DEF Single

\* add_conn leaves a list with the circuit, the new connection or the old one.
LEMMA AddConnSingle ==
    ASSUME NEW list, NEW conn, Single(list), conn.circuit = Cid
    PROVE  /\ list = <<>> => M!AddConn(list, conn) = <<conn>> /\ C!AddConn(list, conn) = <<conn>>
           /\ list # <<>> => M!AddConn(list, conn) = list /\ C!AddConn(list, conn) = list
<1>1. CASE list = <<>>
  <2>1. <<conn>> \o <<>> = <<conn>>
    OBVIOUS
  <2>2. QED
    BY <1>1, <2>1, SingleMatches DEF M!AddConn, C!AddConn
<1>2. CASE list # <<>>
  BY <1>2, SingleMatches DEF M!AddConn, C!AddConn
<1>3. QED
  BY <1>1, <1>2

\* del_conn empties it.
LEMMA DelConnSingle ==
    ASSUME NEW list, Single(list), list # <<>>
    PROVE  M!DelConn(list, Cid) = <<>> /\ C!DelConn(list, Cid) = <<>>
<1>1. list = <<list[1]>> /\ list[1].circuit = Cid
  BY DEF Single
<1>2. M!Matches(list, Cid) = {1} /\ C!Matches(list, Cid) = {1}
  <2>1. DOMAIN list = {1}
    BY <1>1
  <2>2. QED
    BY <1>1, <2>1 DEF M!Matches, C!Matches
<1>3. M!GetConn(list, Cid) = 1 /\ C!GetConn(list, Cid) = 1
  BY <1>2 DEF M!GetConn, C!GetConn
<1>4. M!RemoveAt(list, 1) = <<>> /\ C!RemoveAt(list, 1) = <<>>
  <2>1. SubSeq(list, 1, 0) = <<>> /\ SubSeq(list, 2, 1) = <<>> /\ Len(list) = 1
    BY <1>1
  <2>2. QED
    BY <2>1 DEF M!RemoveAt, C!RemoveAt
<1>5. QED
  BY <1>3, <1>4 DEF M!DelConn, C!DelConn

-----------------------------------------------------------------------------
(* A library that notes itself as initialised can be torn down.            *)

\* Each process has at most its one circuit in its list, has it when the library is
\* initialised, and the compute process never has it hot-plugged: therefore its
\* detach does not fail half-way, which would drop the circuit and keep the state.
Bookkeeping ==
    /\ Single(mconns)
    /\ Single(cconns)
    /\ cconns # <<>> => cconns[1].noHotplug = TRUE
    /\ IsInitialized(mstate) => mconns # <<>>
    /\ IsInitialized(cstate) => cconns # <<>>

LEMMA InitBookkeeping == Init => Bookkeeping
BY DEF Init, Bookkeeping, Single, IsInitialized, NoState, M!Init, C!Init

\* What the handlers do to the lists.
LEMMA MemoryListSteps ==
    ASSUME Single(mconns)
    PROVE  /\ \A size : M!AttachMemory(Cid, Afu, size) => Single(mconns') /\ mconns' # <<>>
           /\ M!Die => mconns' = <<>>
           /\ MemoryDetach =>
                \/ mconns' = <<>> /\ (malive' => mreply'.status = "DETACH_OK")
                \/ mconns' = mconns /\ malive' /\ mreply'.status = "ERR_MISSING_CID"
<1>1. ASSUME NEW size, M!AttachMemory(Cid, Afu, size)
      PROVE  Single(mconns') /\ mconns' # <<>>
  <2>1. PICK conn : conn.circuit = Cid /\ mconns' = M!AddConn(mconns, conn)
    BY <1>1 DEF M!AttachMemory, M!Register
  <2>2. CASE mconns = <<>>
    <3>1. mconns' = <<conn>>
      BY <2>1, <2>2, AddConnSingle
    <3>2. QED
      BY <2>1, <3>1 DEF Single
  <2>3. CASE mconns # <<>>
    BY <2>1, <2>3, AddConnSingle DEF Single
  <2>4. QED
    BY <2>2, <2>3
<1>2. M!Die => mconns' = <<>>
  BY DEF M!Die
<1>3. ASSUME MemoryDetach
      PROVE  \/ mconns' = <<>> /\ (malive' => mreply'.status = "DETACH_OK")
             \/ mconns' = mconns /\ malive' /\ mreply'.status = "ERR_MISSING_CID"
  <2>1. CASE M!Matches(mconns, Cid) = {}
    BY <1>3, <2>1 DEF MemoryDetach, M!MissingCircuit, M!Replied
  <2>2. CASE M!Matches(mconns, Cid) # {}
    <3>1. M!DetachMemory(Cid)
      BY <1>3, <2>2 DEF MemoryDetach
    <3>2. \/ mconns' = M!DelConn(mconns, Cid) /\ mreply'.status = "DETACH_OK"
          \/ M!Die
      <4>1. \/ /\ mconns' = M!DelConn(mconns, Cid)
               /\ M!Replied("memory_detach", Cid, "DETACH_OK", M!Wild)
            \/ M!Die
        BY <3>1 DEF M!DetachMemory
      <4>2. M!Replied("memory_detach", Cid, "DETACH_OK", M!Wild) => mreply'.status = "DETACH_OK"
        BY DEF M!Replied
      <4>3. QED
        BY <4>1, <4>2
    <3>3. M!Die => ~malive'
      BY DEF M!Die
    <3>4. QED
      BY <1>2, <2>2, <3>2, <3>3, DelConnSingle, SingleMatches
  <2>3. QED
    BY <2>1, <2>2
<1>4. QED
  BY <1>1, <1>2, <1>3

LEMMA ComputeListSteps ==
    ASSUME Single(cconns), cconns # <<>> => cconns[1].noHotplug = TRUE
    PROVE  /\ \A ea, size : C!AttachCompute(Cid, Afu, 2, ea, size, TRUE)
                => Single(cconns') /\ cconns' # <<>> /\ cconns'[1].noHotplug = TRUE
           /\ C!Die => cconns' = <<>>
           /\ ComputeDetach =>
                \/ cconns' = <<>> /\ (calive' => creply'.status = "DETACH_OK")
                \/ cconns' = cconns /\ calive' /\ creply'.status = "ERR_MISSING_CID"
<1>1. ASSUME NEW ea, NEW size, C!AttachCompute(Cid, Afu, 2, ea, size, TRUE)
      PROVE  Single(cconns') /\ cconns' # <<>> /\ cconns'[1].noHotplug = TRUE
  <2>1. PICK conn : /\ conn.circuit = Cid /\ conn.noHotplug = TRUE
                    /\ cconns' = C!AddConn(cconns, conn)
    BY <1>1 DEF C!AttachCompute, C!Register
  <2>2. CASE cconns = <<>>
    <3>1. cconns' = <<conn>>
      BY <2>1, <2>2, AddConnSingle
    <3>2. QED
      BY <2>1, <3>1 DEF Single
  <2>3. CASE cconns # <<>>
    BY <2>1, <2>3, AddConnSingle DEF Single
  <2>4. QED
    BY <2>2, <2>3
<1>2. C!Die => cconns' = <<>>
  BY DEF C!Die
<1>3. ASSUME ComputeDetach
      PROVE  \/ cconns' = <<>> /\ (calive' => creply'.status = "DETACH_OK")
             \/ cconns' = cconns /\ calive' /\ creply'.status = "ERR_MISSING_CID"
  <2>1. CASE C!Matches(cconns, Cid) = {}
    BY <1>3, <2>1 DEF ComputeDetach, C!MissingCircuit, C!Replied
  <2>2. CASE C!Matches(cconns, Cid) # {}
    <3>1. C!DetachCompute(Cid)
      BY <1>3, <2>2 DEF ComputeDetach
    <3>2. cconns # <<>>
      BY <2>2, SingleMatches
    <3>3. cconns[C!GetConn(cconns, Cid)].noHotplug = TRUE
      <4>1. cconns = <<cconns[1]>> /\ cconns[1].circuit = Cid
        BY <3>2 DEF Single
      <4>2. C!Matches(cconns, Cid) = {1}
        <5>1. DOMAIN cconns = {1}
          BY <4>1
        <5>2. QED
          BY <4>1, <5>1 DEF C!Matches
      <4>3. C!GetConn(cconns, Cid) = 1
        BY <4>2 DEF C!GetConn
      <4>4. QED
        BY <3>2, <4>3
    <3>4. \/ cconns' = C!DelConn(cconns, Cid) /\ creply'.status = "DETACH_OK"
          \/ C!Die
      <4>1. \/ /\ cconns' = C!DelConn(cconns, Cid)
               /\ C!Replied("compute_detach", Cid, "DETACH_OK", C!Wild)
            \/ C!Die
        BY <3>1, <3>3 DEF C!DetachCompute
      <4>2. C!Replied("compute_detach", Cid, "DETACH_OK", C!Wild) => creply'.status = "DETACH_OK"
        BY DEF C!Replied
      <4>3. QED
        BY <4>1, <4>2
    <3>5. C!Die => cconns' = <<>> /\ ~calive'
      BY DEF C!Die
    <3>6. QED
      BY <3>2, <3>4, <3>5, DelConnSingle
  <2>3. QED
    BY <2>1, <2>2
<1>4. QED
  BY <1>1, <1>2, <1>3

LEMMA NextBookkeeping == Bookkeeping /\ [Next]_vars => Bookkeeping'
<1> SUFFICES ASSUME Bookkeeping, [Next]_vars PROVE Bookkeeping'
  OBVIOUS
<1> DEFINE MemoryKept == Single(mconns)' /\ (IsInitialized(mstate) => mconns # <<>>)'
           ComputeKept == /\ Single(cconns)'
                          /\ (cconns # <<>> => cconns[1].noHotplug = TRUE)'
                          /\ (IsInitialized(cstate) => cconns # <<>>)'
<1>1. UNCHANGED <<mconns, mstate>> => MemoryKept
  BY DEF Bookkeeping, Single, IsInitialized
<1>2. UNCHANGED <<cconns, cstate>> => ComputeKept
  BY DEF Bookkeeping, Single, IsInitialized
<1>3. mconns' = <<>> /\ mstate' = NoState => MemoryKept
  BY DEF Single, IsInitialized, NoState
<1>4. cconns' = <<>> /\ cstate' = NoState => ComputeKept
  BY DEF Single, IsInitialized, NoState
<1>5. UNCHANGED computeSide => UNCHANGED <<cconns, cstate>>
  BY DEF computeSide, computeAgent
<1>6. UNCHANGED memorySide => UNCHANGED <<mconns, mstate>>
  BY DEF memorySide, memoryAgent
<1> SUFFICES MemoryKept /\ ComputeKept
  BY DEF Bookkeeping
<1>7. ASSUME NEW size \in 1..MaxPool, TfMemoryInit(size)
      PROVE  MemoryKept /\ ComputeKept
  <2>1. Single(mconns') /\ mconns' # <<>>
    BY <1>7, MemoryListSteps DEF TfMemoryInit, Bookkeeping
  <2>2. QED
    BY <1>7, <2>1, <1>2, <1>5 DEF TfMemoryInit, Single
<1>8. ASSUME NEW size \in 1..MaxPool, TfBufferAlloc(size)
      PROVE  MemoryKept /\ ComputeKept
  BY <1>8, <1>1, <1>2, <1>5 DEF TfBufferAlloc, memoryAgent
<1>9. ASSUME NEW b \in buffers, TfBufferFree(b) \/ TfBufferMap(b)
      PROVE  MemoryKept /\ ComputeKept
  BY <1>9, <1>1, <1>2, <1>5, <1>6 DEF TfBufferFree, TfBufferMap, memoryAgent, computeAgent
<1>10. CASE TfMemoryTeardown
  <2>1. \/ mconns' = <<>> /\ (malive' => mreply'.status = "DETACH_OK")
        \/ mconns' = mconns /\ malive' /\ mreply'.status = "ERR_MISSING_CID"
    BY <1>10, MemoryListSteps DEF TfMemoryTeardown, Bookkeeping
  <2>2. \/ mstate' = NoState
        \/ mstate' = mstate /\ malive' /\ mreply'.status # "DETACH_OK"
    BY <1>10 DEF TfMemoryTeardown, MemoryProcessEnds
  <2>3. MemoryKept
    BY <2>1, <2>2, <1>1, <1>3 DEF Bookkeeping, Single, IsInitialized, NoState
  <2>4. QED
    BY <1>10, <2>3, <1>2, <1>5 DEF TfMemoryTeardown
<1>11. CASE MemoryExit
  <2>1. mconns' = <<>> /\ mstate' = NoState
    BY <1>11, MemoryListSteps DEF MemoryExit, MemoryProcessEnds, Bookkeeping
  <2>2. QED
    BY <1>11, <2>1, <1>3, <1>2, <1>5 DEF MemoryExit
<1>12. CASE MemoryStart
  BY <1>12, <1>1, <1>2, <1>5 DEF MemoryStart, M!Start
<1>13. ASSUME NEW w \in Held, TfBufferUnmap(w)
       PROVE  MemoryKept /\ ComputeKept
  BY <1>13, <1>1, <1>2, <1>6 DEF TfBufferUnmap, computeAgent
<1>14. CASE TfComputeInit
  <2>1. Single(cconns') /\ cconns' # <<>> /\ cconns'[1].noHotplug = TRUE
    BY <1>14, ComputeListSteps DEF TfComputeInit, Bookkeeping
  <2>2. QED
    BY <1>14, <2>1, <1>1, <1>6 DEF TfComputeInit, Single
<1>15. CASE TfComputeTeardown
  <2>1. \/ cconns' = <<>> /\ (calive' => creply'.status = "DETACH_OK")
        \/ cconns' = cconns /\ calive' /\ creply'.status = "ERR_MISSING_CID"
    BY <1>15, ComputeListSteps DEF TfComputeTeardown, Bookkeeping
  <2>2. \/ cstate' = NoState
        \/ cstate' = cstate /\ calive' /\ creply'.status # "DETACH_OK"
    BY <1>15 DEF TfComputeTeardown, ComputeProcessEnds
  <2>3. ComputeKept
    BY <2>1, <2>2, <1>2, <1>4 DEF Bookkeeping, Single, IsInitialized, NoState
  <2>4. QED
    BY <1>15, <2>3, <1>1, <1>6 DEF TfComputeTeardown
<1>16. CASE ComputeExit
  <2>1. cconns' = <<>> /\ cstate' = NoState
    BY <1>16, ComputeListSteps DEF ComputeExit, ComputeProcessEnds, Bookkeeping
  <2>2. QED
    BY <1>16, <2>1, <1>4, <1>1, <1>6 DEF ComputeExit
<1>17. CASE ComputeStart
  BY <1>17, <1>1, <1>2, <1>6 DEF ComputeStart, C!Start
<1>18. CASE UNCHANGED vars
  BY <1>18, <1>1, <1>2, <1>5, <1>6 DEF vars
<1>19. QED
  BY <1>7, <1>8, <1>9, <1>10, <1>11, <1>12, <1>13, <1>14, <1>15, <1>16, <1>17, <1>18
  DEF Next, Held

\* Wherever a call of attach_compute or attach_memory failed, and whatever was torn
\* down or restarted: while the library's state says initialised, the circuit is in
\* the list, so tf_shmem_teardown finds it.
THEOREM TeardownFindsCircuit == Spec => []InitializedIsRegistered
<1>1. Bookkeeping => InitializedIsRegistered
  BY SingleMatches DEF Bookkeeping, InitializedIsRegistered
<1>2. QED
  BY InitBookkeeping, NextBookkeeping, <1>1, PTL DEF Spec

-----------------------------------------------------------------------------
(* Buffers.                                                                *)

\* Rounding up to a page gives at least the size.
LEMMA AlignedCovers ==
    ASSUME NEW size \in Nat
    PROVE  Aligned(size) \in Nat /\ Aligned(size) >= size
<1> DEFINE n == size + Page - 1
<1>1. Page \in Nat /\ Page > 0
  BY ShmemAssumption
<1>2. n \in Nat
  BY <1>1
<1>3. /\ (n \div Page) \in Nat /\ (n % Page) \in 0 .. Page - 1
      /\ n = Page * (n \div Page) + (n % Page)
  BY <1>1, <1>2
<1>4. QED
  BY <1>1, <1>3 DEF Aligned

\* Every buffer lies below `next', which only moves up while there are buffers.  While
\* `next' is NULL there can be none, so the first buffer starts at the base.
BuffersBelow ==
    /\ mm \in [base : Nat, next : Nat]
    /\ mmade \in Nat
    /\ \A b \in buffers : b.ea \in Nat /\ b.size \in Nat \ {0} /\ b.ea + b.size <= mm.next
    /\ BuffersDisjoint

LEMMA InitBuffers == Init => BuffersBelow
BY DEF Init, BuffersBelow, BuffersDisjoint, NoMm, M!Init

\* A pool that was attached is at some address.
LEMMA PoolAddress ==
    ASSUME NEW size, mmade \in Nat, M!AttachMemory(Cid, Afu, size)
    PROVE  /\ mmade' \in Nat
           /\ mreply'.status = "ATTACH_OK" => Base(mreply'.ea) \in Nat
<1>1. PICK k \in M!Progress(M!MemorySteps) :
        /\ mmade' = mmade + 1
        /\ M!Replied("memory_attach", Cid, M!MemoryStatus[k], IF k = 9 THEN mmade + 1 ELSE M!Wild)
  BY DEF M!AttachMemory, M!Register
<1>2. k \in 1..9
  BY DEF M!Progress, M!MemorySteps
<1>3. mreply'.status = M!MemoryStatus[k] /\ (k = 9 => mreply'.ea = mmade + 1)
  BY <1>1 DEF M!Replied
<1>4. mreply'.status = "ATTACH_OK" => mreply'.ea = mmade + 1
  BY <1>2, <1>3 DEF M!MemoryStatus
<1>5. Page \in Nat /\ MaxPool + 1 \in Nat
  BY ShmemAssumption
<1>6. \A a, b \in Nat : a * b \in Nat
  OBVIOUS
<1>7. Base(mmade + 1) \in Nat
  BY <1>5, <1>6 DEF Base, Stride
<1>8. QED
  BY <1>1, <1>4, <1>7

\* A buffer that is carved out starts where the others end.
LEMMA AllocBuffers ==
    ASSUME BuffersBelow, NEW size \in 1..MaxPool, TfBufferAlloc(size)
    PROVE  BuffersBelow'
<1> DEFINE start == IF mm.next = 0 THEN mm.base ELSE mm.next
           new   == [ea |-> start, size |-> size]
<1>1. size \in Nat \ {0}
  BY ShmemAssumption
<1>2. Aligned(size) \in Nat /\ Aligned(size) >= size
  BY <1>1, AlignedCovers
<1>3. /\ mm.base \in Nat /\ mm.next \in Nat /\ start \in Nat
      /\ mm.next <= start
  BY DEF BuffersBelow
<1>4. /\ mm' = [mm EXCEPT !.next = start + Aligned(size)]
      /\ buffers' = buffers \cup {new}
      /\ mmade' = mmade
  BY DEF TfBufferAlloc, CustomMalloc, memoryAgent
<1>5. mm' \in [base : Nat, next : Nat] /\ mm'.next = start + Aligned(size)
  BY <1>2, <1>3, <1>4 DEF BuffersBelow
<1>6. \A b \in buffers : /\ b.ea \in Nat /\ b.size \in Nat \ {0}
                         /\ b.ea + b.size <= start
  BY <1>3 DEF BuffersBelow
<1>7. new.ea = start /\ new.size = size
  OBVIOUS
<1> HIDE DEF start, new
<1>8. \A b \in buffers' : b.ea \in Nat /\ b.size \in Nat \ {0} /\ b.ea + b.size <= mm'.next
  BY <1>1, <1>2, <1>3, <1>4, <1>5, <1>6, <1>7
<1>9. BuffersDisjoint'
  BY <1>4, <1>6, <1>7 DEF BuffersBelow, BuffersDisjoint
<1>10. QED
  BY <1>4, <1>5, <1>8, <1>9 DEF BuffersBelow

LEMMA NextBuffers == BuffersBelow /\ [Next]_vars => BuffersBelow'
<1> SUFFICES ASSUME BuffersBelow, [Next]_vars PROVE BuffersBelow'
  OBVIOUS
<1>1. UNCHANGED <<mm, mmade>> /\ buffers' \subseteq buffers => BuffersBelow'
  BY DEF BuffersBelow, BuffersDisjoint
<1>2. mm' \in [base : Nat, next : Nat] /\ mmade' \in Nat /\ buffers' = {} => BuffersBelow'
  BY DEF BuffersBelow, BuffersDisjoint
<1>3. UNCHANGED memorySide => BuffersBelow'
  BY <1>1 DEF memorySide, memoryAgent
<1>4. MemoryProcessEnds /\ mmade' = mmade => BuffersBelow'
  BY <1>2 DEF MemoryProcessEnds, NoMm, BuffersBelow
<1>5. ASSUME NEW size \in 1..MaxPool, TfMemoryInit(size)
      PROVE  BuffersBelow'
  <2>1. mmade' \in Nat /\ (mreply'.status = "ATTACH_OK" => Base(mreply'.ea) \in Nat)
    BY <1>5, PoolAddress DEF TfMemoryInit, BuffersBelow
  <2>2. CASE mreply'.status = "ATTACH_OK"
    <3>1. mm' = [mm EXCEPT !.base = Base(mreply'.ea)]
      BY <1>5, <2>2 DEF TfMemoryInit, InitCustomMm
    <3>2. mm' \in [base : Nat, next : Nat] /\ mm'.next = mm.next
      BY <2>1, <2>2, <3>1 DEF BuffersBelow
    <3>3. QED
      BY <1>5, <2>1, <3>2 DEF TfMemoryInit, BuffersBelow, BuffersDisjoint
  <2>3. CASE mreply'.status # "ATTACH_OK"
    BY <1>5, <2>1, <2>3 DEF TfMemoryInit, BuffersBelow, BuffersDisjoint
  <2>4. QED
    BY <2>2, <2>3
<1>6. ASSUME NEW size \in 1..MaxPool, TfBufferAlloc(size)
      PROVE  BuffersBelow'
  BY <1>6, AllocBuffers
<1>7. ASSUME NEW b \in buffers, TfBufferFree(b) \/ TfBufferMap(b)
      PROVE  BuffersBelow'
  BY <1>7, <1>1, <1>3 DEF TfBufferFree, TfBufferMap, memoryAgent
<1>8. CASE TfMemoryTeardown
  <2>1. mmade' = mmade
    BY <1>8 DEF TfMemoryTeardown, MemoryDetach, M!MissingCircuit, M!DetachMemory
  <2>2. \/ MemoryProcessEnds
        \/ mm' = mm /\ (buffers' = {} \/ buffers' = buffers)
    BY <1>8 DEF TfMemoryTeardown
  <2>3. QED
    BY <2>1, <2>2, <1>1, <1>4
<1>9. CASE MemoryExit
  BY <1>9, <1>4 DEF MemoryExit
<1>10. CASE MemoryStart
  BY <1>10, <1>1 DEF MemoryStart, M!Start
<1>11. ASSUME NEW w \in Held, TfBufferUnmap(w)
       PROVE  BuffersBelow'
  BY <1>11, <1>3 DEF TfBufferUnmap
<1>12. CASE TfComputeInit \/ TfComputeTeardown \/ ComputeExit \/ ComputeStart
  BY <1>12, <1>3 DEF TfComputeInit, TfComputeTeardown, ComputeExit, ComputeStart
<1>13. CASE UNCHANGED vars
  BY <1>13, <1>3 DEF vars
<1>14. QED
  BY <1>5, <1>6, <1>7, <1>8, <1>9, <1>10, <1>11, <1>12, <1>13 DEF Next, Held

\* The allocator never hands out a byte twice while somebody holds it, even when it
\* goes on in a new pool where it stopped in the old one.
THEOREM BuffersNeverOverlap == Spec => []BuffersDisjoint
<1>1. BuffersBelow => BuffersDisjoint
  BY DEF BuffersBelow
<1>2. QED
  BY InitBuffers, NextBuffers, <1>1, PTL DEF Spec

-----------------------------------------------------------------------------
(* The pool.                                                               *)

\* What an attach leaves, whichever call fails: a struct that is linked only in an
\* empty list, and a region of its own unless memalign failed.
LEMMA AttachPool ==
    ASSUME Single(mconns), NEW size, M!AttachMemory(Cid, Afu, size)
    PROVE  \E conn :
              /\ conn.circuit = Cid
              /\ mmade' = mmade + 1 /\ mmade < MaxLends
              /\ mconns = <<>> => mconns' = <<conn>> /\ morphans' = morphans
              /\ mconns # <<>> => mconns' = mconns /\ morphans' = morphans \cup {conn}
              /\ \/ mheap' = mheap /\ mreply'.status # "ATTACH_OK"
                 \/ /\ conn.ea = mmade + 1
                    /\ mheap' = [mheap EXCEPT ![mmade + 1] = size]
              /\ mreply'.status = "ATTACH_OK" => mreply'.ea = mmade + 1
<1>0. PICK k \in M!Progress(M!MemorySteps) :
        \E conn :
           /\ conn.circuit = Cid /\ conn.uid = mmade + 1
           /\ conn.ea = (IF k > 1 THEN mmade + 1 ELSE M!Wild)
           /\ M!Register(conn)
           /\ mheap' = IF k > 1 THEN [mheap EXCEPT ![mmade + 1] = size] ELSE mheap
           /\ M!Replied("memory_attach", Cid, M!MemoryStatus[k], IF k = 9 THEN mmade + 1 ELSE M!Wild)
  BY DEF M!AttachMemory
<1>1. PICK conn :
        /\ conn.circuit = Cid /\ conn.uid = mmade + 1
        /\ conn.ea = (IF k > 1 THEN mmade + 1 ELSE M!Wild)
        /\ M!Register(conn)
        /\ mheap' = IF k > 1 THEN [mheap EXCEPT ![mmade + 1] = size] ELSE mheap
        /\ M!Replied("memory_attach", Cid, M!MemoryStatus[k], IF k = 9 THEN mmade + 1 ELSE M!Wild)
  BY <1>0
<1>2. k \in 1..9
  BY DEF M!Progress, M!MemorySteps
<1>3. mreply'.status = M!MemoryStatus[k] /\ (k = 9 => mreply'.ea = mmade + 1)
  BY <1>1 DEF M!Replied
<1>4. mreply'.status = "ATTACH_OK" => k = 9
  BY <1>2, <1>3 DEF M!MemoryStatus
<1>5. \/ mheap' = mheap /\ mreply'.status # "ATTACH_OK"
      \/ conn.ea = mmade + 1 /\ mheap' = [mheap EXCEPT ![mmade + 1] = size]
  BY <1>1, <1>2, <1>4
<1>6. mmade < MaxLends /\ mmade' = mmade + 1
  BY <1>1 DEF M!AttachMemory, M!Register
<1>7. mconns' = M!AddConn(mconns, conn)
      /\ morphans' = IF mconns' = mconns THEN morphans \cup {conn} ELSE morphans
  BY <1>1 DEF M!Register
<1>8. CASE mconns = <<>>
  <2>1. mconns' = <<conn>> /\ <<conn>> # <<>>
    BY <1>1, <1>7, <1>8, AddConnSingle
  <2>2. QED
    BY <1>1, <1>3, <1>4, <1>5, <1>6, <1>7, <1>8, <2>1
<1>9. CASE mconns # <<>>
  BY <1>1, <1>3, <1>4, <1>5, <1>6, <1>7, <1>9, AddConnSingle
<1>10. QED
  BY <1>8, <1>9

\* What a detach of the memory process leaves.
LEMMA DetachPool ==
    ASSUME Single(mconns), MemoryDetach
    PROVE  \/ M!Die
           \/ /\ mconns = <<>>
              /\ UNCHANGED <<mconns, morphans, mheap, malive>>
              /\ mreply'.status = "ERR_MISSING_CID"
           \/ /\ mconns # <<>> /\ mconns' = <<>>
              /\ \E ptr \in M!Pointers(mconns[1].ea) : mheap' = M!Freed(ptr)
              /\ UNCHANGED <<morphans, malive>>
              /\ mreply'.status = "DETACH_OK"
<1>1. CASE M!Matches(mconns, Cid) = {}
  BY <1>1, SingleMatches DEF MemoryDetach, M!MissingCircuit, M!Replied
<1>2. CASE M!Matches(mconns, Cid) # {}
  <2>1. M!DetachMemory(Cid) /\ mconns # <<>>
    BY <1>2, SingleMatches DEF MemoryDetach
  <2>2. mconns[M!GetConn(mconns, Cid)] = mconns[1]
    <3>1. mconns = <<mconns[1]>> /\ mconns[1].circuit = Cid
      BY <2>1 DEF Single
    <3>2. M!Matches(mconns, Cid) = {1}
      <4>1. DOMAIN mconns = {1}
        BY <3>1
      <4>2. QED
        BY <3>1, <4>1 DEF M!Matches
    <3>3. M!GetConn(mconns, Cid) = 1
      BY <3>2 DEF M!GetConn
    <3>4. QED
      BY <3>3
  <2>3. PICK ptr \in M!Pointers(mconns[1].ea) :
           \/ /\ mheap' = M!Freed(ptr)
              /\ mconns' = M!DelConn(mconns, Cid)
              /\ M!Replied("memory_detach", Cid, "DETACH_OK", M!Wild)
              /\ UNCHANGED <<morphans, malive>>
           \/ M!Die
    BY <2>1, <2>2 DEF M!DetachMemory
  <2>4. M!Replied("memory_detach", Cid, "DETACH_OK", M!Wild) => mreply'.status = "DETACH_OK"
    BY DEF M!Replied
  <2>5. M!DelConn(mconns, Cid) = <<>>
    BY <2>1, DelConnSingle
  <2>6. QED
    BY <2>1, <2>3, <2>4, <2>5
<1>3. QED
  BY <1>1, <1>2

LEMMA OneMore ==
    ASSUME NEW S, NEW T, NEW u, IsFiniteSet(S), T \subseteq S \cup {u}
    PROVE  /\ Cardinality(S) \in Nat /\ Cardinality(T) \in Nat
           /\ Cardinality(T) <= Cardinality(S) + 1
           /\ T \subseteq S => Cardinality(T) <= Cardinality(S)
<1>1. /\ IsFiniteSet(S \cup {u}) /\ Cardinality(S) \in Nat
      /\ Cardinality(S \cup {u}) = IF u \in S THEN Cardinality(S) ELSE Cardinality(S) + 1
  BY FS_AddElement, FS_CardinalityType
<1>2. IsFiniteSet(T) /\ Cardinality(T) <= Cardinality(S \cup {u})
  BY <1>1, FS_Subset
<1>3. Cardinality(T) \in Nat
  BY <1>2, FS_CardinalityType
<1>4. T \subseteq S => Cardinality(T) <= Cardinality(S)
  BY FS_Subset
<1>5. QED
  BY <1>1, <1>2, <1>3, <1>4

\* The regions that the connection in the list does not hold are no more than the calls
\* of tf_memory_init that were repeated after a failed one: only such a call meets a
\* connection in the list.
Stranding ==
    /\ mheap \in [M!Uids -> Nat]
    /\ mmade \in Nat /\ retries \in Nat
    /\ ~IsInitialized(mstate) /\ mconns # <<>> => failed
    /\ Cardinality(M!Stranded) <= retries

LEMMA StrandedFinite == IsFiniteSet(M!Stranded) /\ IsFiniteSet(M!Stranded')
<1>1. M!Stranded \in SUBSET (1..MaxLends) /\ M!Stranded' \in SUBSET (1..MaxLends)
  BY DEF M!Stranded, M!Uids
<1>2. 1 \in Int /\ MaxLends \in Int
  BY ShmemAssumption
<1>3. IsFiniteSet(1..MaxLends)
  BY <1>2, FS_Interval
<1>4. QED
  BY <1>1, <1>3, FS_Subset

\* No more regions stranded than before, or one more and it is counted.
LEMMA CountsOn ==
    ASSUME Stranding, retries' \in Nat,
           \/ M!Stranded' \subseteq M!Stranded /\ retries <= retries'
           \/ (\E u : M!Stranded' \subseteq M!Stranded \cup {u}) /\ retries' = retries + 1
    PROVE  Cardinality(M!Stranded') <= retries'
<1> DEFINE S == M!Stranded
           T == M!Stranded'
<1>1. IsFiniteSet(S) /\ Cardinality(S) <= retries /\ retries \in Nat
  BY StrandedFinite DEF Stranding
<1>2. \/ T \subseteq S /\ retries <= retries'
      \/ (\E u : T \subseteq S \cup {u}) /\ retries' = retries + 1
  OBVIOUS
<1> HIDE DEF S, T
<1>3. ASSUME T \subseteq S, retries <= retries' PROVE Cardinality(T) <= retries'
  <2>1. T \subseteq S \cup {0}
    BY <1>3
  <2>2. /\ Cardinality(S) \in Nat /\ Cardinality(T) \in Nat
        /\ Cardinality(T) <= Cardinality(S)
    BY <1>1, <1>3, <2>1, OneMore
  <2>3. QED
    BY <1>1, <1>3, <2>2
<1>4. ASSUME NEW u, T \subseteq S \cup {u}, retries' = retries + 1
      PROVE  Cardinality(T) <= retries'
  <2>1. /\ Cardinality(S) \in Nat /\ Cardinality(T) \in Nat
        /\ Cardinality(T) <= Cardinality(S) + 1
    BY <1>1, <1>4, OneMore
  <2>2. QED
    BY <1>1, <1>4, <2>1
<1>5. Cardinality(T) <= retries'
  BY <1>2, <1>3, <1>4
<1>6. QED
  BY <1>5 DEF T

LEMMA InitStranding == Init => Stranding
<1> SUFFICES ASSUME Init PROVE Stranding
  OBVIOUS
<1>1. /\ mheap = [u \in M!Uids |-> 0] /\ mmade = 0 /\ retries = 0 /\ mconns = <<>>
  BY DEF Init, M!Init
<1>2. M!Stranded = {}
  BY <1>1 DEF M!Stranded
<1>3. Cardinality(M!Stranded) = 0
  BY <1>2, FS_EmptySet
<1>4. QED
  BY <1>1, <1>3 DEF Stranding

\* The end of the process frees everything.
LEMMA DieStranding ==
    ASSUME M!Die, MemoryProcessEnds, mmade' = mmade, Stranding
    PROVE  /\ Stranding'
           /\ \A u \in M!Uids : mheap'[u] = 0
<1>1. /\ mheap' = [u \in M!Uids |-> 0] /\ mconns' = <<>> /\ retries' = 0
  BY DEF M!Die, MemoryProcessEnds
<1>2. M!Stranded' = {}
  BY <1>1 DEF M!Stranded
<1>3. Cardinality(M!Stranded') = 0
  BY <1>2, FS_EmptySet
<1>4. QED
  BY <1>1, <1>3 DEF Stranding

\* The detach frees the region of the connection in the list, so that what is still
\* allocated was stranded before.
LEMMA FreedStrands ==
    ASSUME Stranding, Single(mconns), mconns # <<>>, mconns' = <<>>,
           NEW ptr \in M!Pointers(mconns[1].ea), mheap' = M!Freed(ptr)
    PROVE  /\ mheap' \in [M!Uids -> Nat]
           /\ M!Stranded' \subseteq M!Stranded
<1>1. mheap' \in [M!Uids -> Nat]
  BY DEF Stranding, M!Freed
<1>2. M!Range(mconns) = {mconns[1]}
  <2>1. mconns = <<mconns[1]>>
    BY DEF Single
  <2>2. QED
    BY <2>1 DEF M!Range
<1>3. ASSUME NEW u \in M!Uids, mheap'[u] # 0
      PROVE  mheap[u] # 0 /\ mconns[1].ea # u
  <2>1. u # M!Wild
    BY ShmemAssumption DEF M!Uids, M!Wild
  <2>2. mheap[u] # 0 /\ (mconns[1].ea = u => ptr # u)
    BY <1>3 DEF M!Freed, Stranding
  <2>3. QED
    BY <2>1, <2>2 DEF M!Pointers
<1>4. QED
  BY <1>1, <1>2, <1>3 DEF M!Stranded

LEMMA InitStrands ==
    ASSUME Bookkeeping, Stranding, NEW size \in 1..MaxPool, TfMemoryInit(size)
    PROVE  Stranding'
<1>1. PICK conn :
            /\ mmade' = mmade + 1 /\ mmade < MaxLends
            /\ mconns = <<>> => mconns' = <<conn>>
            /\ mconns # <<>> => mconns' = mconns
            /\ \/ mheap' = mheap
               \/ conn.ea = mmade + 1 /\ mheap' = [mheap EXCEPT ![mmade + 1] = size]
  BY AttachPool DEF TfMemoryInit, Bookkeeping
<1>2. mheap' \in [M!Uids -> Nat] /\ mmade' \in Nat
  BY <1>1, ShmemAssumption DEF Stranding
<1>3. /\ ~IsInitialized(mstate)
      /\ retries' = IF failed THEN retries + 1 ELSE retries
      /\ ~IsInitialized(mstate)' => failed' = TRUE
  BY DEF TfMemoryInit, IsInitialized
<1>4. retries' \in Nat /\ retries <= retries'
  BY <1>3 DEF Stranding
<1>5. \A u \in M!Uids : u # mmade + 1 => mheap'[u] = mheap[u]
  BY <1>1 DEF Stranding
<1>6. \/ M!Stranded' \subseteq M!Stranded /\ retries <= retries'
      \/ (\E u : M!Stranded' \subseteq M!Stranded \cup {u}) /\ retries' = retries + 1
  <2>1. CASE mconns = <<>>
    <3>1. M!Range(mconns) = {} /\ M!Range(<<conn>>) = {conn}
      BY <2>1 DEF M!Range
    <3>2. M!Range(mconns)' = {conn}
      BY <1>1, <2>1 DEF M!Range
    <3>3. \A u \in M!Uids : mheap'[u] # 0 /\ conn.ea # u => mheap[u] # 0
      BY <1>1, <1>5
    <3>4. M!Stranded' \subseteq M!Stranded
      BY <3>1, <3>2, <3>3 DEF M!Stranded
    <3>5. QED
      BY <1>4, <3>4
  <2>2. CASE mconns # <<>>
    <3>1. failed
      BY <1>3, <2>2 DEF Stranding
    <3>2. mconns' = mconns
      BY <1>1, <2>2
    <3>3. M!Stranded' \subseteq M!Stranded \cup {mmade + 1}
      BY <1>5, <3>2 DEF M!Stranded
    <3>4. QED
      BY <1>3, <3>1, <3>3
  <2>3. QED
    BY <2>1, <2>2
<1>7. Cardinality(M!Stranded') <= retries'
  BY <1>4, <1>6, CountsOn
<1>8. QED
  BY <1>2, <1>3, <1>4, <1>7 DEF Stranding, IsInitialized

\* After a teardown no connection is in the list: whatever is still allocated is stranded.
LEMMA TeardownStrands ==
    ASSUME Bookkeeping, Stranding, TfMemoryTeardown
    PROVE  /\ Stranding'
           /\ Cardinality({u \in M!Uids : mheap'[u] # 0}) <= retries
<1> DEFINE left == {u \in M!Uids : mheap'[u] # 0}
<1>1. MemoryDetach /\ mmade' = mmade
  BY DEF TfMemoryTeardown, MemoryDetach, M!MissingCircuit, M!DetachMemory
<1>2. mconns # <<>>
  BY DEF TfMemoryTeardown, Bookkeeping, IsInitialized
<1>3. retries \in Nat
  BY DEF Stranding
<1>4. CASE M!Die
  <2>1. MemoryProcessEnds
    BY <1>4 DEF TfMemoryTeardown, M!Die
  <2>2. Stranding' /\ \A u \in M!Uids : mheap'[u] = 0
    BY <1>1, <1>4, <2>1, DieStranding
  <2>3. left = {}
    BY <2>2
  <2>4. Cardinality(left) = 0
    BY <2>3, FS_EmptySet
  <2>5. QED
    BY <1>3, <2>2, <2>4
<1>5. ASSUME mconns' = <<>>, malive' = malive, mreply'.status = "DETACH_OK",
             NEW ptr \in M!Pointers(mconns[1].ea), mheap' = M!Freed(ptr)
      PROVE  Stranding' /\ Cardinality(left) <= retries
  <2>1. mheap' \in [M!Uids -> Nat] /\ M!Stranded' \subseteq M!Stranded
    BY <1>2, <1>5, FreedStrands DEF Bookkeeping
  <2>2. retries' = retries
    BY <1>5 DEF TfMemoryTeardown
  <2>3. Cardinality(M!Stranded') <= retries'
    BY <1>3, <2>1, <2>2, CountsOn
  <2>4. left = M!Stranded'
    BY <1>5 DEF M!Stranded, M!Range
  <2>5. QED
    BY <1>1, <1>3, <1>5, <2>1, <2>2, <2>3, <2>4 DEF Stranding
<1>6. QED
  BY <1>1, <1>2, <1>4, <1>5, DetachPool DEF Bookkeeping

LEMMA NextStranding == Bookkeeping /\ Stranding /\ [Next]_vars => Stranding'
<1> SUFFICES ASSUME Bookkeeping, Stranding, [Next]_vars PROVE Stranding'
  OBVIOUS
<1>1. UNCHANGED <<mconns, mheap, mmade, mstate, failed, retries>> => Stranding'
  BY DEF Stranding, M!Stranded, M!Range, IsInitialized
<1>2. UNCHANGED memorySide => Stranding'
  BY <1>1 DEF memorySide, memoryAgent
<1>3. CASE MemoryExit
  BY <1>3, DieStranding DEF MemoryExit
<1>4. CASE MemoryStart
  BY <1>4, <1>1 DEF MemoryStart, M!Start
<1>5. ASSUME NEW b, TfBufferFree(b) \/ TfBufferMap(b) \/ TfBufferUnmap(b) \/ TfBufferAlloc(b)
      PROVE  Stranding'
  BY <1>5, <1>1, <1>2
     DEF TfBufferFree, TfBufferMap, TfBufferUnmap, TfBufferAlloc, memoryAgent
<1>6. CASE TfComputeInit \/ TfComputeTeardown \/ ComputeExit \/ ComputeStart \/ UNCHANGED vars
  BY <1>6, <1>2 DEF TfComputeInit, TfComputeTeardown, ComputeExit, ComputeStart, vars
<1>7. QED
  BY <1>3, <1>4, <1>5, <1>6, InitStrands, TeardownStrands DEF Next

\* For any number of failed calls of tf_memory_init and repetitions, what a teardown
\* leaves allocated is at most one region for each repetition: nothing where no call
\* failed.
THEOREM TeardownLeaves == Spec => TeardownReleases
<1>1. Bookkeeping /\ Stranding /\ TfMemoryTeardown
        => Cardinality({u \in M!Uids : mheap'[u] # 0}) <= retries
  BY TeardownStrands
<1>2. QED
  BY InitBookkeeping, NextBookkeeping, InitStranding, NextStranding, <1>1, PTL
   DEF Spec, TeardownReleases

\* While the library is initialised its pool is allocated.
Carved ==
    IsInitialized(mstate) =>
       \E u \in M!Uids : mstate.ea = Base(u) /\ mheap[u] = mstate.poolSize

LEMMA InitCarved == Init => Carved
BY DEF Init, Carved, NoState, IsInitialized

LEMMA BaseIsPositive == \A u \in M!Uids : Base(u) \in Nat \ {0}
<1> SUFFICES ASSUME NEW u \in M!Uids PROVE Base(u) \in Nat \ {0}
  OBVIOUS
<1>1. u \in Nat \ {0} /\ Page \in Nat \ {0} /\ MaxPool + 1 \in Nat \ {0}
  BY ShmemAssumption DEF M!Uids
<1>2. \A a, b \in Nat \ {0} : a * b \in Nat \ {0}
  OBVIOUS
<1>3. QED
  BY <1>1, <1>2 DEF Base, Stride

LEMMA InitPoolCarved ==
    ASSUME Bookkeeping, Stranding, NEW size \in 1..MaxPool, TfMemoryInit(size)
    PROVE  Carved'
<1>1. /\ mmade' = mmade + 1 /\ mmade < MaxLends
      /\ \/ mheap' = mheap /\ mreply'.status # "ATTACH_OK"
         \/ mheap' = [mheap EXCEPT ![mmade + 1] = size]
      /\ mreply'.status = "ATTACH_OK" => mreply'.ea = mmade + 1
  BY AttachPool DEF TfMemoryInit, Bookkeeping
<1>2. CASE mreply'.status = "ATTACH_OK"
  <2> DEFINE u == mmade + 1
  <2>1. u \in M!Uids
    BY <1>1, ShmemAssumption DEF Stranding, M!Uids
  <2>2. mstate' = [ea |-> Base(u), poolSize |-> size, memoryNode |-> 1]
    BY <1>1, <1>2 DEF TfMemoryInit
  <2>3. mheap'[u] = size
    BY <1>1, <1>2, <2>1 DEF Stranding
  <2> HIDE DEF u
  <2>4. QED
    BY <2>1, <2>2, <2>3 DEF Carved
<1>3. CASE mreply'.status # "ATTACH_OK"
  BY <1>3 DEF TfMemoryInit, Carved, IsInitialized
<1>4. QED
  BY <1>2, <1>3

LEMMA NextCarved == Bookkeeping /\ Stranding /\ Carved /\ [Next]_vars => Carved'
<1> SUFFICES ASSUME Bookkeeping, Stranding, Carved, [Next]_vars PROVE Carved'
  OBVIOUS
<1>1. UNCHANGED <<mheap, mstate>> => Carved'
  BY DEF Carved, IsInitialized
<1>2. UNCHANGED memorySide => Carved'
  BY <1>1 DEF memorySide, memoryAgent
<1>3. mstate' = NoState => Carved'
  BY DEF Carved, NoState, IsInitialized
<1>4. CASE TfMemoryTeardown
  <2>1. MemoryDetach
    BY <1>4 DEF TfMemoryTeardown
  <2>2. mstate' = NoState \/ (mstate' = mstate /\ malive' /\ mreply'.status # "DETACH_OK")
    BY <1>4 DEF TfMemoryTeardown, MemoryProcessEnds
  <2>3. CASE mstate' = mstate /\ malive' /\ mreply'.status # "DETACH_OK"
    <3>1. mheap' = mheap
      BY <2>1, <2>3, DetachPool DEF Bookkeeping, M!Die
    <3>2. QED
      BY <1>1, <2>3, <3>1
  <2>4. QED
    BY <1>3, <2>2, <2>3
<1>5. CASE MemoryExit
  BY <1>3, <1>5 DEF MemoryExit, MemoryProcessEnds
<1>6. CASE MemoryStart
  BY <1>1, <1>6 DEF MemoryStart, M!Start
<1>7. ASSUME NEW b, TfBufferFree(b) \/ TfBufferMap(b) \/ TfBufferUnmap(b) \/ TfBufferAlloc(b)
      PROVE  Carved'
  BY <1>1, <1>2, <1>7
     DEF TfBufferFree, TfBufferMap, TfBufferUnmap, TfBufferAlloc, memoryAgent
<1>8. CASE TfComputeInit \/ TfComputeTeardown \/ ComputeExit \/ ComputeStart \/ UNCHANGED vars
  BY <1>2, <1>8 DEF TfComputeInit, TfComputeTeardown, ComputeExit, ComputeStart, vars
<1>9. QED
  BY <1>4, <1>5, <1>6, <1>7, <1>8, InitPoolCarved DEF Next

LEMMA PoolAlways == Spec => [](Bookkeeping /\ BuffersBelow /\ Stranding /\ Carved)
BY InitBookkeeping, NextBookkeeping, InitBuffers, NextBuffers, InitStranding, NextStranding,
   InitCarved, NextCarved, PTL DEF Spec

-----------------------------------------------------------------------------
(* The windows.                                                            *)

\* What the compute application was told is what the segment register holds, and
\* while it holds a window neither side may change: its buffer and the pool stay.
Windows ==
    /\ DOMAIN cregs = {Afu}
    /\ told # 0 =>
          IsInitialized(cstate) /\ cstate.ea = told /\ cregs[Afu].seg0.ea = told
    /\ Held # {} => told # 0 /\ told = mstate.ea /\ IsInitialized(mstate)
    /\ \A w \in Held : w.buffer \in buffers /\ w.offset = w.buffer.ea - told

LEMMA InitWindows == Init => Windows
BY DEF Init, Windows, Held, C!Init

\* A compute attach that succeeded has written the segment register.
LEMMA AttachSegment ==
    ASSUME DOMAIN cregs = {Afu}, NEW ea, NEW size, C!AttachCompute(Cid, Afu, 2, ea, size, TRUE)
    PROVE  /\ DOMAIN cregs' = {Afu}
           /\ creply'.status = "ATTACH_OK" => cregs'[Afu].seg0.ea = ea
<1>1. PICK k \in C!Progress(C!ComputeSteps) :
        /\ cregs' = C!ComputeRegs(Afu, 2, ea, k)
        /\ \E status :
              /\ (k < 5 /\ status = C!ComputeStatus[k]) \/ k = 5
              /\ C!Replied("compute_attach", Cid, status, C!Wild)
  BY DEF C!AttachCompute
<1>2. k \in 1..5
  BY DEF C!Progress, C!ComputeSteps
<1>3. creply'.status = "ATTACH_OK" => k = 5
  <2>1. k < 5 => C!ComputeStatus[k] # "ATTACH_OK"
    BY <1>2 DEF C!ComputeStatus
  <2>2. QED
    BY <1>1, <2>1 DEF C!Replied
<1>4. k = 5 => cregs'[Afu].seg0.ea = ea
  BY <1>1 DEF C!ComputeRegs
<1>5. QED
  BY <1>1, <1>3, <1>4 DEF C!ComputeRegs

LEMMA NextWindows == Windows /\ [Next]_vars => Windows'
<1> SUFFICES ASSUME Windows, [Next]_vars PROVE Windows'
  OBVIOUS
<1>1. ASSUME UNCHANGED computeSide,
             \A w \in Held : w.buffer \in buffers',
             Held # {} => mstate' = mstate
      PROVE  Windows'
  BY <1>1 DEF Windows, Held, IsInitialized, computeSide, computeAgent
<1>2. ASSUME Held' = {}, cregs' = cregs,
             told' # 0 => IsInitialized(cstate)' /\ cstate'.ea = told'
                          /\ cregs'[Afu].seg0.ea = told'
      PROVE  Windows'
  BY <1>2 DEF Windows
<1>3. ComputeProcessEnds => Held' = {} /\ told' = 0
  BY DEF ComputeProcessEnds, Held
<1>4. ASSUME NEW size \in 1..MaxPool, TfMemoryInit(size) \/ TfBufferAlloc(size) PROVE Windows'
  <2>1. CASE TfMemoryInit(size)
    BY <1>1, <2>1 DEF TfMemoryInit, Windows
  <2>2. CASE TfBufferAlloc(size)
    BY <1>1, <2>2 DEF TfBufferAlloc, Windows
  <2>3. QED
    BY <1>4, <2>1, <2>2
<1>5. ASSUME NEW b \in buffers, TfBufferFree(b) PROVE Windows'
  BY <1>1, <1>5 DEF TfBufferFree, Windows
<1>6. ASSUME NEW b \in buffers, TfBufferMap(b) PROVE Windows'
  <2>1. PICK held \in {TRUE, ~LockMayFail} :
           windows' = windows \cup {[buffer |-> b, offset |-> BufOffset(cstate, b.ea),
                                     held |-> held]}
    BY <1>6 DEF TfBufferMap
  <2>2. /\ told # 0 /\ told = mstate.ea /\ IsInitialized(mstate)
        /\ UNCHANGED <<mstate, buffers, cregs, cstate, told>>
    BY <1>6 DEF TfBufferMap, TfGetPoolEa, IsInitialized, memorySide, computeAgent
  <2>3. BufOffset(cstate, b.ea) = b.ea - told
    BY <2>2 DEF Windows, BufOffset
  <2>4. \A w \in Held' : w \in Held \/ (w.buffer = b /\ w.offset = b.ea - told)
    BY <2>1, <2>3 DEF Held
  <2>5. QED
    BY <2>2, <2>4 DEF Windows, IsInitialized
<1>7. CASE TfMemoryTeardown \/ MemoryExit
  BY <1>1, <1>7 DEF TfMemoryTeardown, MemoryExit
<1>8. CASE MemoryStart
  BY <1>1, <1>8 DEF MemoryStart, Windows
<1>9. ASSUME NEW w \in Held, TfBufferUnmap(w) PROVE Windows'
  <2>1. Held' \subseteq Held
    BY <1>9 DEF TfBufferUnmap, Held
  <2>2. UNCHANGED <<mstate, buffers, cregs, cstate, told>>
    BY <1>9 DEF TfBufferUnmap, memorySide, computeAgent
  <2>3. QED
    BY <2>1, <2>2 DEF Windows, IsInitialized
<1>10. CASE TfComputeInit
  <2> DEFINE ea == TfGetPoolEa
  <2>1. /\ Held = {} /\ windows' = windows
        /\ C!AttachCompute(Cid, Afu, 2, ea, mstate.poolSize, TRUE)
        /\ cstate' = NewComputeState(ea, mstate.poolSize)
        /\ told' = IF creply'.status = "ATTACH_OK" THEN ea ELSE 0
    BY <1>10 DEF TfComputeInit, Windows
  <2> HIDE DEF ea
  <2>2. /\ DOMAIN cregs' = {Afu}
        /\ creply'.status = "ATTACH_OK" => cregs'[Afu].seg0.ea = ea
    BY <2>1, AttachSegment DEF Windows
  <2>3. IsInitialized(cstate)' /\ cstate'.ea = ea
    BY <2>1 DEF NewComputeState, IsInitialized
  <2>4. QED
    BY <2>1, <2>2, <2>3 DEF Windows, Held
<1>11. CASE TfComputeTeardown
  <2>1. cregs' = cregs
    BY <1>11 DEF TfComputeTeardown, ComputeDetach, C!MissingCircuit, C!DetachCompute
  <2>2. CASE ComputeProcessEnds
    BY <1>2, <1>3, <2>1, <2>2
  <2>3. CASE windows' = windows /\ (told' = 0 \/ UNCHANGED <<cstate, told>>)
    <3>1. Held' = {}
      BY <1>11, <2>3 DEF TfComputeTeardown, Held
    <3>2. QED
      BY <1>2, <2>1, <2>3, <3>1 DEF Windows, IsInitialized
  <2>4. QED
    BY <1>11, <2>2, <2>3 DEF TfComputeTeardown
<1>12. CASE ComputeExit
  BY <1>2, <1>3, <1>12 DEF ComputeExit
<1>13. CASE ComputeStart
  BY <1>13 DEF ComputeStart, C!Start, Windows, Held, IsInitialized, memorySide
<1>14. CASE UNCHANGED vars
  BY <1>1, <1>14 DEF vars, memorySide, Windows
<1>15. QED
  BY <1>4, <1>5, <1>6, <1>7, <1>8, <1>9, <1>10, <1>11, <1>12, <1>13, <1>14 DEF Next

\* A window that the application holds reaches the buffer it was asked for, and memory
\* that is allocated if that is a buffer of the pool, whatever was torn down, restarted
\* or failed before, in the first pool of the process as in a later one.
THEOREM WindowsReach == Spec => []WindowReachesBuffer
<1>1. BuffersBelow /\ Carved /\ Windows => WindowReachesBuffer
  <2> SUFFICES ASSUME BuffersBelow, Carved, Windows, NEW w \in Held
               PROVE  /\ Reached(w) = w.buffer.ea
                      /\ InPool(w.buffer) =>
                            \E u \in M!Uids : /\ Base(u) <= Reached(w)
                                              /\ Reached(w) + w.buffer.size <= Base(u) + mheap[u]
    BY DEF WindowReachesBuffer
  <2>1. /\ IsInitialized(mstate)
        /\ cregs[Afu].seg0.ea = mstate.ea /\ w.buffer \in buffers
        /\ w.offset = w.buffer.ea - mstate.ea
    BY DEF Windows
  <2>2. PICK u \in M!Uids : mstate.ea = Base(u) /\ mheap[u] = mstate.poolSize
    BY <2>1 DEF Carved
  <2>3. Base(u) \in Nat /\ w.buffer.ea \in Nat
    BY <2>1, BaseIsPositive DEF BuffersBelow
  <2>4. Reached(w) = w.buffer.ea
    BY <2>1, <2>2, <2>3 DEF Reached
  <2>5. QED
    BY <2>2, <2>4 DEF InPool
<1>2. Spec => [](Bookkeeping /\ BuffersBelow /\ Stranding /\ Carved)
  BY PoolAlways
<1>3. QED
  BY <1>1, <1>2, InitWindows, NextWindows, PTL DEF Spec
=============================================================================
