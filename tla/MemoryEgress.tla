---------------------------- MODULE MemoryEgress ----------------------------
(***************************************************************************)
(* The memory side of the data path: a command from the network is given a *)
(* local tag and issued to the host (thymesisflow_memory_ingress); the      *)
(* host's response is joined with the stored command (CmdFifoLoad) and goes *)
(* to the network or back to the ingress (TLRespEng); a command to be       *)
(* retried is re-issued at once or waits in the jail (RtyEng).              *)
(*                                                                         *)
(* Every engine is clocked hardware: one action moves one flit.  A command *)
(* keeps its opcode, address, length, original tag and network id all the  *)
(* way, so they are its name here; what changes is the local tag and the   *)
(* annotation, the code of the response that sent it to the retry engine.  *)
(***************************************************************************)
EXTENDS Integers, Sequences, FiniteSets

CONSTANTS
    Commands,    \* the commands that the network sends
    NoCommand,   \* none of them
    Writes,      \* those whose opcode is a write
    Dl,          \* Dl[c]: length field, 1 is one flit, 2 is two, 3 is four
    NTags,       \* local tags, 0x200
    RetryDepth,  \* flits of rty_unit_fifo and of the fifo to the ingress, 128
    JailDepth,   \* flits of rty_jail, 512
    FailCodes,   \* codes of failures that the host uses
    MaxFaults    \* bound: failures of the host that are not final

\* ThymesisFlow sends writes of 128 bytes, two flits.  The stores d0lookup and
\* d1lookup have no place for more, and a single flit is stored in d1lookup but
\* replayed from d0lookup.
ASSUME EgressAssumption ==
    /\ Writes \subseteq Commands
    /\ NoCommand \notin Commands
    /\ Dl \in [Commands -> 1..3]
    /\ \A c \in Writes : Dl[c] = 2
    /\ {NTags, RetryDepth, JailDepth} \subseteq Nat \ {0}
    /\ MaxFaults \in Nat
    /\ FailCodes \subseteq 1..15

Tags == 1..NTags

VARIABLES
    capptag,    \* capptag fifo: free local tags
    cmdlookup,  \* cmdlookup[t]: the command stored for tag t
    d0lookup,   \* d0lookup[t], d1lookup[t]: its data flits
    d1lookup,
    ing,        \* state machine of the ingress
    host,       \* commands at the host
    tlresp,     \* responses of the host
    tldata,     \* data flits of the host
    combo,      \* responses joined with their commands
    eng,        \* state machine of TLRespEng
    rtyfifo,    \* rty_unit_fifo_in
    rty,        \* state machine of RtyEng
    lock,       \* xlate_lock
    jail,       \* rty_jail
    out,        \* retry commands and data on the way to the ingress
    got,        \* got[c]: what the network received in answer to c
    last,       \* the command whose answer was sent last
    taken,      \* commands that the network has sent
    sender,     \* the last of them, whose data the network is sending
    stored,     \* stored[c]: the writes that the host performed for c
    faults      \* failures so far

vars == <<capptag, cmdlookup, d0lookup, d1lookup, ing, host, tlresp, tldata,
          combo, eng, rtyfifo, rty, lock, jail, out, got, last, taken, sender, stored, faults>>

lookups == <<cmdlookup, d0lookup, d1lookup>>
retryVars == <<rtyfifo, rty, lock, jail, out>>
respVars == <<tlresp, tldata, combo, eng>>
netVars == <<got, last, taken, sender>>
hostVars == <<host, stored, faults>>

-----------------------------------------------------------------------------
(* Flits and codes *)

Command(c, t, anno) == [cmd |-> TRUE, of |-> c, tag |-> t, anno |-> anno]
Header(op) == [cmd |-> TRUE, op |-> op]
Data(c, n) == [cmd |-> FALSE, of |-> c, n |-> n]
\* What a store holds that was never written.
NoData == [cmd |-> FALSE, of |-> NoCommand, n |-> 0]

\* TL_RD_RESPOK, TL_RD_RESPFAIL, TL_WR_RESPOK, TL_WR_RESPFAIL, TL_XLATE_DONE
RD_OK == 4
RD_FAIL == 5
WR_OK == 8
WR_FAIL == 9
XLATE_DONE == 24
\* TLRESP_CODE_RTY, TLRESP_CODE_PEND
RTY == 2
PEND == 4

Response(op, code, dl, dp, t) == [op |-> op, code |-> code, dl |-> dl, dp |-> dp, tag |-> t]

\* Data flits for a length field: one of the bits of cdata, rdata, dflit_size.
FlitsOf(dl) == CASE dl = 3 -> 4 [] dl = 2 -> 2 [] OTHER -> 1

\* The bit of weight w.
Bit(n, w) == (n \div w) % 2 = 1

\* Mutant of RespState: a command whose translation is done is not retried.
RespStateNoXlate(r) ==
    LET fail == Bit(r.op, 1)
    IN IF fail /\ r.code = RTY THEN "retry"
       ELSE IF Bit(r.op, 4) /\ ~fail THEN "data"
       ELSE IF r.op = WR_OK \/ (fail /\ r.code \notin {RTY, PEND}) THEN "nodata"
       ELSE "drop"

\* Mutant of RespState: a pending translation is taken for an error.
RespStatePendIsError(r) ==
    LET fail == Bit(r.op, 1)
    IN IF (fail /\ r.code = RTY) \/ r.op = XLATE_DONE THEN "retry"
       ELSE IF Bit(r.op, 4) /\ ~fail THEN "data"
       ELSE IF Bit(r.op, 8) \/ fail THEN "nodata"
       ELSE "drop"

IsXlateDone(r) == Bit(r.op, 16) /\ Bit(r.op, 8)

\* getTLRespState, and the order in which RespEngSM looks at its bits.
RespState(r) ==
    LET fail == Bit(r.op, 1)
    IN IF (fail /\ r.code = RTY) \/ r.op = XLATE_DONE THEN "retry"
       ELSE IF Bit(r.op, 4) /\ ~fail THEN "data"
       ELSE IF (Bit(r.op, 8) /\ ~fail) \/ (fail /\ r.code \notin {RTY, PEND}) THEN "nodata"
       ELSE "drop"

-----------------------------------------------------------------------------
(* Memory ingress *)

\* The actag is assigned, then commands are accepted.
EnableIngress ==
    /\ ing.st = "INIT"
    /\ ing' = [ing EXCEPT !.st = "RECEIVE_CMD"]
    /\ UNCHANGED <<capptag, lookups, hostVars, respVars, retryVars, netVars>>

\* A command reaches the host; the data of a write follow.
Issue(c, t) ==
    host' = host \cup {[of |-> c, tag |-> t, data |-> <<>>, st |-> "new"]}

\* The data go to the host with the command issued last.
IssueData(d) ==
    host' = {IF h.tag = ing.tag THEN [h EXCEPT !.data = Append(@, d)] ELSE h : h \in host}

\* A command of the network needs a tag, and waits while there are retries.
NetCommand(c) ==
    /\ ing.st = "RECEIVE_CMD"
    /\ out = <<>>
    /\ capptag # <<>>
    /\ c \in Commands \ taken
    /\ LET t == Head(capptag)
       IN /\ Issue(c, t)
          /\ cmdlookup' = [cmdlookup EXCEPT ![t] = c]
          /\ ing' = [ing EXCEPT !.st = IF c \in Writes THEN "RECEIVE_DATA" ELSE @,
                                !.tag = t,
                                !.dflit = IF c \in Writes THEN FlitsOf(Dl[c]) ELSE 0]
    /\ capptag' = Tail(capptag)
    /\ taken' = taken \cup {c}
    /\ sender' = c
    /\ UNCHANGED <<d0lookup, d1lookup, stored, faults, respVars, retryVars, got, last>>

\* dflit_size is 2 for the first flit of two and 1 for the last: d0, then d1.
NetData ==
    /\ ing.st = "RECEIVE_DATA"
    /\ ing.dflit > 0
    /\ LET d == Data(sender, FlitsOf(Dl[sender]) - ing.dflit + 1)
       IN /\ IssueData(d)
          /\ d0lookup' = IF ing.dflit = 2 THEN [d0lookup EXCEPT ![ing.tag] = d] ELSE d0lookup
          /\ d1lookup' = IF ing.dflit = 1 THEN [d1lookup EXCEPT ![ing.tag] = d] ELSE d1lookup
    /\ ing' = [ing EXCEPT !.dflit = @ - 1,
                          !.st = IF ing.dflit = 1 THEN "RECEIVE_CMD" ELSE @]
    /\ UNCHANGED <<capptag, cmdlookup, stored, faults, respVars, retryVars, netVars>>

\* A retry keeps its tag.
RtyCommand ==
    /\ ing.st = "RECEIVE_CMD"
    /\ out # <<>>
    /\ LET f == Head(out)
       IN /\ Issue(f.of, f.tag)
          /\ ing' = [ing EXCEPT !.st = IF f.of \in Writes THEN "RECEIVE_DATA" ELSE @,
                                !.tag = f.tag,
                                !.dflitRty = IF f.of \in Writes THEN FlitsOf(Dl[f.of]) ELSE 0]
    /\ out' = Tail(out)
    /\ UNCHANGED <<capptag, lookups, stored, faults, respVars, rtyfifo, rty, lock, jail, netVars>>

RtyData ==
    /\ ing.st = "RECEIVE_DATA"
    /\ ing.dflitRty > 0
    /\ out # <<>>
    /\ IssueData(Head(out))
    /\ out' = Tail(out)
    /\ ing' = [ing EXCEPT !.dflitRty = @ - 1,
                          !.st = IF ing.dflitRty = 1 THEN "RECEIVE_CMD" ELSE @]
    /\ UNCHANGED <<capptag, lookups, stored, faults, respVars, rtyfifo, rty, lock, jail, netVars>>

-----------------------------------------------------------------------------
(* The host.  It answers a command when it has all of its data. *)

Complete(h) == h.of \in Writes => Len(h.data) = FlitsOf(Dl[h.of])

\* The response for h, with the data flits that go with it.
Answers(h, r, data) ==
    /\ tlresp' = Append(tlresp, r)
    /\ tldata' = tldata \o data
    /\ UNCHANGED <<capptag, lookups, ing, combo, eng, retryVars, netVars>>

HostReads(h) ==
    /\ h.st = "new"
    /\ h.of \notin Writes
    /\ host' = host \ {h}
    /\ Answers(h, Response(RD_OK, 0, Dl[h.of], 0, h.tag),
               [i \in 1..FlitsOf(Dl[h.of]) |-> Data(h.of, i)])
    /\ UNCHANGED <<stored, faults>>

\* The host may answer a read of 256 bytes in two halves, dp = 0 first.
HostReadsHalf(h) ==
    /\ h.of \notin Writes
    /\ Dl[h.of] = 3
    /\ \/ /\ h.st = "new"
          /\ host' = (host \ {h}) \cup {[h EXCEPT !.st = "half"]}
          /\ Answers(h, Response(RD_OK, 0, 2, 0, h.tag), <<Data(h.of, 1), Data(h.of, 2)>>)
       \/ /\ h.st = "half"
          /\ host' = host \ {h}
          /\ Answers(h, Response(RD_OK, 0, 2, 1, h.tag), <<Data(h.of, 3), Data(h.of, 4)>>)
    /\ UNCHANGED <<stored, faults>>

HostWrites(h) ==
    /\ h.st = "new"
    /\ h.of \in Writes
    /\ Complete(h)
    /\ host' = host \ {h}
    /\ stored' = [stored EXCEPT ![h.of] = Append(@, h.data)]
    /\ Answers(h, Response(WR_OK, 0, Dl[h.of], 0, h.tag), <<>>)
    /\ UNCHANGED faults

\* Failures that are not final are bounded.  After PEND the host translates the
\* address and says when it is done.
HostFails(h, code) ==
    /\ h.st = "new"
    /\ Complete(h)
    /\ code \in {RTY, PEND} => faults < MaxFaults
    /\ faults' = IF code \in {RTY, PEND} THEN faults + 1 ELSE faults
    /\ host' = (host \ {h})
                 \cup (IF code = PEND THEN {[h EXCEPT !.st = "translating"]} ELSE {})
    /\ Answers(h, Response(IF h.of \in Writes THEN WR_FAIL ELSE RD_FAIL, code, 0, 0, h.tag), <<>>)
    /\ UNCHANGED stored

HostTranslated(h) ==
    /\ h.st = "translating"
    /\ host' = host \ {h}
    /\ Answers(h, Response(XLATE_DONE, 0, 0, 0, h.tag), <<>>)
    /\ UNCHANGED <<stored, faults>>

Host(t) ==
    \E h \in host :
        /\ h.tag = t
        /\ \/ HostReads(h)
           \/ HostReadsHalf(h)
           \/ HostWrites(h)
           \/ \E code \in FailCodes : HostFails(h, code)
           \/ HostTranslated(h)

-----------------------------------------------------------------------------
(* Response engine *)

\* resp_combo_t: a response and the command stored for its tag.
Combo(r) == [resp |-> r, of |-> cmdlookup[r.tag]]

\* CmdFifoLoadSM: the next response is joined with its command.
CmdFifoLoad ==
    /\ tlresp # <<>>
    /\ combo' = Append(combo, Combo(Head(tlresp)))
    /\ tlresp' = Tail(tlresp)
    /\ UNCHANGED <<capptag, lookups, ing, hostVars, tldata, eng, retryVars, netVars>>

\* INIT: the local tags are written to their fifo, one per cycle.
LoadTags ==
    /\ eng.st = "INIT"
    /\ capptag' = Append(capptag, eng.next)
    /\ eng' = [eng EXCEPT !.next = @ + 1, !.st = IF eng.next = NTags THEN "GET_CMD" ELSE @]
    /\ UNCHANGED <<lookups, ing, hostVars, tlresp, tldata, combo, retryVars, netVars>>

\* Mutant of Seen: the tag of a read is free after its first half.
SeenWhole(e, x) == [e EXCEPT !.tag = x.resp.tag, !.keep = FALSE]

\* Every response leaves the same marks in the engine: localtag, keeplookupentry.
Seen(e, x) ==
    [e EXCEPT !.tag = x.resp.tag,
              !.keep = x.resp.dl # Dl[x.of] /\ x.resp.dp = 0]

GetResponse(state) ==
    /\ eng.st = "GET_CMD"
    /\ combo # <<>>
    /\ RespState(Head(combo).resp) = state
    /\ combo' = Tail(combo)

\* The annotation of a command that is to be retried.
Anno(r) == IF IsXlateDone(r) THEN 0 ELSE r.code

\* The command goes to the retry engine, and the data of a write follow.
RetryResponse ==
    /\ GetResponse("retry")
    /\ Len(rtyfifo) < RetryDepth
    /\ LET x == Head(combo)
       IN /\ rtyfifo' = Append(rtyfifo, Command(x.of, x.resp.tag, Anno(x.resp)))
          /\ eng' = [Seen(eng, x) EXCEPT
                        !.cdata = FlitsOf(Dl[x.of]),
                        !.count = 1,
                        !.fresh = IF x.of \in Writes THEN FALSE ELSE @,
                        !.st = IF x.of \in Writes THEN "GET_DATA" ELSE @]
    /\ UNCHANGED <<capptag, lookups, ing, hostVars, tlresp, tldata, rty, lock, jail, out, netVars>>

\* What the network receives: a header with original tag and network id, then data.
ToNetwork(c, flit) ==
    /\ got' = [got EXCEPT ![c] = Append(@, flit)]
    /\ last' = c
    /\ UNCHANGED <<taken, sender>>

DataResponse ==
    /\ GetResponse("data")
    /\ LET x == Head(combo)
       IN /\ ToNetwork(x.of, Header(x.resp.op))
          /\ eng' = [Seen(eng, x) EXCEPT !.cdata = FlitsOf(x.resp.dl), !.count = 1,
                                         !.fresh = TRUE, !.st = "GET_DATA"]
    /\ UNCHANGED <<capptag, lookups, ing, hostVars, tlresp, tldata, retryVars>>

\* The answer is complete and the tag is free.
NoDataResponse ==
    /\ GetResponse("nodata")
    /\ LET x == Head(combo)
       IN /\ ToNetwork(x.of, Header(x.resp.op))
          /\ capptag' = Append(capptag, x.resp.tag)
          /\ eng' = Seen(eng, x)
    /\ UNCHANGED <<lookups, ing, hostVars, tlresp, tldata, retryVars>>

\* A pending translation: the host will say when it is done.
DropResponse ==
    /\ GetResponse("drop")
    /\ eng' = Seen(eng, Head(combo))
    /\ UNCHANGED <<capptag, lookups, ing, hostVars, tlresp, tldata, retryVars, netVars>>

\* GET_DATA of a response: the host's data go to the network.
PassData ==
    /\ eng.st = "GET_DATA"
    /\ eng.fresh
    /\ tldata # <<>>
    /\ ToNetwork(last, Head(tldata))
    /\ tldata' = Tail(tldata)
    /\ IF eng.cdata # 1
       THEN eng' = [eng EXCEPT !.cdata = @ - 1] /\ UNCHANGED capptag
       ELSE /\ eng' = [eng EXCEPT !.st = "GET_CMD"]
            /\ capptag' = IF eng.keep THEN capptag ELSE Append(capptag, eng.tag)
    /\ UNCHANGED <<lookups, ing, hostVars, tlresp, combo, retryVars>>

\* Mutant of LookedUp: the two stores are swapped.
LookedUpSwapped(t) == <<d1lookup[t], d0lookup[t]>>

\* The stored flits of a write, in the order in which they are replayed.
LookedUp(t) == <<d0lookup[t], d1lookup[t]>>

\* GET_DATA of a retry: the stored data go to the retry engine.
ReplayData ==
    /\ eng.st = "GET_DATA"
    /\ ~eng.fresh
    /\ Len(rtyfifo) < RetryDepth
    /\ rtyfifo' = Append(rtyfifo, LookedUp(eng.tag)[eng.count])
    /\ eng' = [eng EXCEPT !.count = @ + 1,
                          !.st = IF eng.count = eng.cdata THEN "GET_CMD" ELSE @]
    /\ UNCHANGED <<capptag, lookups, ing, hostVars, tlresp, tldata, combo, rty, lock, jail, out, netVars>>

-----------------------------------------------------------------------------
(* Retry engine *)

\* START.  A command with code RTY goes to jail and locks it ...
ToJail ==
    /\ rty.st = "START"
    /\ rtyfifo # <<>>
    /\ Head(rtyfifo).anno = RTY
    /\ Len(jail) < JailDepth
    /\ LET f == Head(rtyfifo)
       IN /\ jail' = Append(jail, f)
          /\ rty' = [st |-> IF f.of \in Writes THEN "DATA" ELSE "START",
                     rdata |-> FlitsOf(Dl[f.of]),
                     jaildata |-> IF f.of \in Writes THEN TRUE ELSE rty.jaildata]
    /\ lock' = TRUE
    /\ rtyfifo' = Tail(rtyfifo)
    /\ UNCHANGED <<capptag, lookups, ing, hostVars, respVars, out, netVars>>

\* ... any other, whose translation is done, is issued at once and unlocks it.
Reissue ==
    /\ rty.st = "START"
    /\ rtyfifo # <<>>
    /\ Head(rtyfifo).anno # RTY
    /\ Len(out) < RetryDepth
    /\ LET f == Head(rtyfifo)
       IN /\ out' = Append(out, f)
          /\ rty' = [st |-> IF f.of \in Writes THEN "DATA" ELSE "START",
                     rdata |-> FlitsOf(Dl[f.of]),
                     jaildata |-> IF f.of \in Writes THEN FALSE ELSE rty.jaildata]
    /\ lock' = FALSE
    /\ rtyfifo' = Tail(rtyfifo)
    /\ UNCHANGED <<capptag, lookups, ing, hostVars, respVars, jail, netVars>>

\* Mutant of ReleaseJail: a command leaves the jail before its data are looked at.
ReleaseJailAsRead ==
    /\ rty.st = "START"
    /\ rtyfifo = <<>>
    /\ jail # <<>>
    /\ ~lock
    /\ Len(out) < RetryDepth
    /\ out' = Append(out, Head(jail))
    /\ jail' = Tail(jail)
    /\ UNCHANGED <<capptag, lookups, ing, hostVars, respVars, rtyfifo, rty, lock, netVars>>

\* With nothing to do and the jail unlocked, a command leaves it.
ReleaseJail ==
    /\ rty.st = "START"
    /\ rtyfifo = <<>>
    /\ jail # <<>>
    /\ ~lock
    /\ Len(out) < RetryDepth
    /\ LET f == Head(jail)
       IN /\ out' = Append(out, f)
          /\ rty' = [rty EXCEPT !.st = IF f.of \in Writes THEN "JAIL_DATA" ELSE @,
                                !.rdata = FlitsOf(Dl[f.of])]
    /\ jail' = Tail(jail)
    /\ UNCHANGED <<capptag, lookups, ing, hostVars, respVars, rtyfifo, lock, netVars>>

OneLess == [rty EXCEPT !.rdata = @ - 1, !.st = IF rty.rdata = 1 THEN "START" ELSE @]

\* DATA: the data follow their command, to jail or out.
MoveData ==
    /\ rty.st = "DATA"
    /\ rtyfifo # <<>>
    /\ IF rty.jaildata
       THEN /\ Len(jail) < JailDepth
            /\ jail' = Append(jail, Head(rtyfifo))
            /\ UNCHANGED out
       ELSE /\ Len(out) < RetryDepth
            /\ out' = Append(out, Head(rtyfifo))
            /\ UNCHANGED jail
    /\ rtyfifo' = Tail(rtyfifo)
    /\ rty' = OneLess
    /\ UNCHANGED <<capptag, lookups, ing, hostVars, respVars, lock, netVars>>

\* JAIL_DATA
ReleaseData ==
    /\ rty.st = "JAIL_DATA"
    /\ jail # <<>>
    /\ Len(out) < RetryDepth
    /\ out' = Append(out, Head(jail))
    /\ jail' = Tail(jail)
    /\ rty' = OneLess
    /\ UNCHANGED <<capptag, lookups, ing, hostVars, respVars, rtyfifo, lock, netVars>>

-----------------------------------------------------------------------------
(* The whole *)

Init ==
    /\ capptag = <<>>
    /\ cmdlookup = [t \in Tags |-> NoCommand]
    /\ d0lookup = [t \in Tags |-> NoData]
    /\ d1lookup = [t \in Tags |-> NoData]
    /\ ing = [st |-> "INIT", tag |-> 0, dflit |-> 0, dflitRty |-> 0]
    /\ host = {}
    /\ tlresp = <<>> /\ tldata = <<>> /\ combo = <<>>
    /\ eng = [st |-> "INIT", next |-> 1, tag |-> 0, keep |-> FALSE, fresh |-> FALSE,
              cdata |-> 0, count |-> 0]
    /\ rtyfifo = <<>> /\ jail = <<>> /\ out = <<>>
    /\ rty = [st |-> "START", rdata |-> 0, jaildata |-> FALSE]
    /\ lock = FALSE
    /\ got = [c \in Commands |-> <<>>]
    /\ stored = [c \in Commands |-> <<>>]
    /\ last = NoCommand /\ sender = NoCommand
    /\ taken = {}
    /\ faults = 0

Ingress == EnableIngress \/ NetData \/ RtyCommand \/ RtyData
RespEng == LoadTags \/ RetryResponse \/ DataResponse \/ NoDataResponse \/ DropResponse
             \/ PassData \/ ReplayData
RtyEng == ToJail \/ Reissue \/ ReleaseJail \/ MoveData \/ ReleaseData

Next ==
    \/ \E c \in Commands : NetCommand(c)
    \/ Ingress
    \/ CmdFifoLoad
    \/ RespEng
    \/ RtyEng
    \/ \E t \in Tags : Host(t)

Spec == Init /\ [][Next]_vars

\* The clock runs, the network sends the data of a write it began, and the host
\* answers every command.  Nothing obliges the network to send a command.
FairSpec ==
    /\ Spec
    /\ WF_vars(Ingress)
    /\ WF_vars(CmdFifoLoad)
    /\ WF_vars(RespEng)
    /\ WF_vars(RtyEng)
    /\ \A t \in Tags : WF_vars(Host(t))

-----------------------------------------------------------------------------
(* Properties *)

\* The number of entries of a fifo for which P holds.
Count(s, P(_)) == Cardinality({i \in DOMAIN s : P(s[i])})

\* A response that settles what becomes of its tag: any but a pending translation
\* and the first half of a read.
Settles(r, c) ==
    /\ RespState(r) # "drop"
    /\ ~(RespState(r) = "data" /\ r.dl # Dl[c] /\ r.dp = 0)

\* The places where tag t is accounted for.
Places(t) ==
    LET IsCommand(f) == f.cmd /\ f.tag = t
    IN Cardinality({h \in host : h.tag = t})
       + Count(capptag, LAMBDA x : x = t)
       + Count(tlresp, LAMBDA r : r.tag = t /\ Settles(r, cmdlookup[t]))
       + Count(combo, LAMBDA x : x.resp.tag = t /\ Settles(x.resp, x.of))
       + Count(rtyfifo, IsCommand) + Count(jail, IsCommand) + Count(out, IsCommand)
       + (IF eng.st = "GET_DATA" /\ eng.fresh /\ ~eng.keep /\ eng.tag = t THEN 1 ELSE 0)
       + (IF t >= eng.next THEN 1 ELSE 0)

\* A local tag is in one place: not loaded yet, free, at the host, in a response, in
\* the hands of the response engine, or with a command that is to be retried.  The
\* host never sees two commands with one tag and no tag is lost.
TagsConserved == \A t \in Tags : Places(t) = 1

\* Whatever is under way with a tag is about the command stored for the tag: the
\* store is read after the response came, and has not been written in between.
OwnCommand ==
    /\ \A h \in host : cmdlookup[h.tag] = h.of
    /\ \A i \in DOMAIN combo : combo[i].of = cmdlookup[combo[i].resp.tag]
    /\ \A s \in {rtyfifo, jail, out} : \A i \in DOMAIN s :
          s[i].cmd => s[i].of = cmdlookup[s[i].tag]

\* The state machines agree with the fifos they read about what comes next, a
\* command or one of its data flits; nothing else marks the flits.
InStep ==
    /\ rtyfifo # <<>> => Head(rtyfifo).cmd = (rty.st # "DATA")
    /\ jail # <<>> => Head(jail).cmd = (rty.st # "JAIL_DATA")
    /\ out # <<>> /\ ing.dflit = 0 => Head(out).cmd = (ing.st # "RECEIVE_DATA")

\* The answer of a command: the status of a header that has all of its data.
Status(c) ==
    LET flits == {i \in DOMAIN got[c] : ~got[c][i].cmd}
    IN IF got[c] = <<>> THEN "none"
       ELSE IF got[c][1] = Header(WR_OK) THEN "ok"
       ELSE IF got[c][1] = Header(RD_OK)
       THEN IF Cardinality(flits) = FlitsOf(Dl[c]) THEN "ok" ELSE "none"
       ELSE "error"

\* The data of a command in the order of the bytes.
Whole(c) == [i \in 1..FlitsOf(Dl[c]) |-> Data(c, i)]

Remote == INSTANCE RemoteMemory WITH
            open <- taken,
            written <- {c \in Writes : stored[c] = <<Whole(c)>>},
            answer <- [c \in Commands |-> Status(c)]

\* The memory side is a memory: each command of the network is answered once, with
\* its own tag; an acknowledged write has been stored once, with its own data,
\* however often the host had it retried.
MemoryImplemented == Remote!Spec

\* What the network receives for a command is one header and the command's own
\* data in order, or two halves of a read of 256 bytes, or a failure.
OwnAnswer ==
    \A c \in Commands :
        LET n == FlitsOf(Dl[c])
            Wholly == IF c \in Writes THEN <<Header(WR_OK)>> ELSE <<Header(RD_OK)>> \o Whole(c)
            InHalves == <<Header(RD_OK)>> \o SubSeq(Whole(c), 1, 2)
                           \o <<Header(RD_OK)>> \o SubSeq(Whole(c), 3, 4)
            Prefix(s) == Len(got[c]) <= Len(s) /\ got[c] = SubSeq(s, 1, Len(got[c]))
        IN \/ Prefix(Wholly)
           \/ c \notin Writes /\ n = 4 /\ Prefix(InHalves)
           \/ got[c] = <<Header(IF c \in Writes THEN WR_FAIL ELSE RD_FAIL)>>

Answered(c) == Status(c) # "none"

\* As long as some translation is done again and again, so that the jail does not
\* stay locked, every command that was taken is answered.
AnsweredUnlessJailed ==
    []<>(~lock) => \A c \in Commands : (c \in taken) ~> Answered(c)
=============================================================================
