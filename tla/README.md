# A TLA+ model of ThymesisFlow

ThymesisFlow lets one POWER9 node (the *compute* side) use the memory of
another (the *memory* side) as if it were its own.  An OpenCAPI FPGA card in
each node turns loads and stores into packets for the other, and an agent on
each node sets the path up and takes it down.  This directory holds TLA+ modules
of the parts whose behaviour is hard to test, TLC configurations that check them
on small instances, and proofs for TLAPS.

    tlc -config MCAgent_all.cfg MCAgent      check one configuration
    tlapm AgentProofs.tla                    check the proofs of one component

Paths in this file and in the modules' comments are relative to the repository.

## 1. The system

| Part | Its state | Operations | What makes it correct |
|---|---|---|---|
| Agent handlers (`libthymesisflow/src/thymesisflow.c`, `connection.c`) | the list `clist`, donated memory, sysfs blocks, AFU registers | attach and detach, memory and compute | one connection per circuit; what an attach acquired is found by the detach; memory is lost only to commands that the operator should not give |
| Agent socket (`agent.c`, `proto.c`, `client.c`) | connections, messages, the accept queue | connect, request, response, SIGTERM | an answer is the answer to the client's own request; no request is executed again for another; the agent goes on serving |
| Traffic counters (`stats.c`, `scripts/read_counters.py`) | a thread per compute connection, a fifo | start, sample, print, cancel, join | no access to a closed AFU; a detach comes to an end and does not end the agent |
| LLC (`afu/thymesisflow/thymesisflow_llc/`) | replay buffer, slot counters, stall flags | frame, request, preamble, CRC error | every frame once, in order, whatever is damaged |
| Port credits (`thymesisflow_32B_bckpressure_*.v`, `thymesisflow_credit_mgr.v`) | two counters per end | spend, count, return | no credit lost or made; the peer's fifo never overflows; the ends do not starve each other |
| Routing (`thymesisflow_*_routing_*.v`, `thymesisflow_rr_arbiter.v`) | registers and state machine per port, the arbiter's round | split, bond, merge, translate opcodes | a command keeps its data; every packet of a link arrives once and in order; no link starves |
| Memory side of the data path (`thymesisflow_memory_ingress.v`, `hls_modules/memory_egress*`) | local tags, stored commands and data, jail | issue, look up, retry, respond | each command is answered once, with its own data; a tag is never in two places |
| Shared memory (`libtfshmem/`) | library state per process, allocator, mappings through `/dev/tfshmem` | init, alloc, map, unmap, teardown | buffers are disjoint; a mapping reaches its buffer; a teardown gives the pool back |
| Operator and the two nodes (`cmd/thymesisf-cli.c`, `libthymesisflow/README.md`) | what the operator noted | attach and detach on either node | no memory is given back while the other node uses it; lent memory can be given back |
| AFU, TLx, DLx, configuration space, board | registers, pipelines | | vendor or consortium designs |

How they interact.  `thymesisf-cli` sends one message over a Unix socket; the
agent's only thread serves it to the end before it accepts the next client.  A
compute attach programs the card, starts the counter thread, which shares the
AFU's registers with the handlers, and brings memory blocks online through
sysfs.  `libtfshmem` calls the same handlers inside its own process, for a pool
that is mapped by applications and not hot-plugged.  The two agents of a circuit
never talk to each other: the operator carries the address from the memory side
to the compute side, and is all that orders their detaches.  From then on the cards are on their own: a command leaves the AFU, is routed to a port,
pays a credit there, crosses a clock domain and is framed by the LLC, which
hands it in order to the peer's port.

What is hard: failures in the middle of a handler that undoes nothing; clients
that die or find no agent; two nodes that only the operator keeps together;
commands that the host has retried, whose data must be replayed from a store; a thread that is cancelled while it blocks; CRC
errors that hit data and the messages that repair it; counters that wrap; two
ends that wait for credits of each other.  `PROJECT.json` lists each such hazard
at its line, with the properties that cover it.

## 2. Modules

| Module | Models | Composed with |
|---|---|---|
| `CircuitRegistry` | what the connection list promises | instantiated by `Agent` with a refinement mapping |
| `Agent` | every request handler, SIGTERM, restart | refines `CircuitRegistry` |
| `AgentProofs` | proofs about `Agent` | |
| `Rpc` | clients, socket, `run_agent` | a request of `Agent` is its `Handle` step |
| `StatsThread` | counter threads, fifo, its reader, the join in `del_conn` | a field `stats` of a connection in `Agent` |
| `ServiceProofs` | proofs about `Rpc` and about `StatsThread` | |
| `FrameChannel` | what the LLC promises: two reliable channels | instantiated by `LlcLink` |
| `LlcLink` | framers, parsers and wire of both directions | refines `FrameChannel` |
| `LlcLinkProofs` | proofs about `LlcLink` | |
| `Backpressure` | ports and credit managers of both ends | its `link` is a `FrameChannel` |
| `BackpressureProofs` | proofs about `Backpressure` | |
| `Routing` | egress of one node, ingress of the other, the arbiter | refines a `FrameChannel` of packets; its `link` is a `FrameChannel` of flits behind a port of `Backpressure` |
| `RoutingProofs` | proofs about `Routing` | |
| `RemoteMemory` | what the memory side promises the network | instantiated by `MemoryEgress` with a refinement mapping |
| `MemoryEgress` | memory ingress, response engine, retry engine, with the host | refines `RemoteMemory` |
| `MemoryEgressProofs` | proofs about `MemoryEgress` | |
| `Proto` | requests, responses, port lists, checks and exit codes of the command line, as operators | used by `Disaggregation` |
| `Disaggregation` | an operator, a memory agent, a compute agent | two instances of `Agent` |
| `DisaggregationProofs` | proofs about `Disaggregation` | two instances of `AgentProofs` |
| `Shmem` | `libtfshmem` in a memory and in a compute application | two instances of `Agent` |
| `ShmemProofs` | proofs about `Shmem` | |
| `MC*` | constants for TLC | extend the module they check |

### Agent

One action is one request, because the agent has one thread.  Each handler is a
chain of calls that returns at the first failure; `Progress(steps)` chooses how
far it gets, and the constant `Faults` says which calls may fail.  `clist` is a
sequence with the most recent connection first; `uid` stands for the address of
a struct, `heap[u]` for the memory allocated for connection `u`.  Structs that
`add_conn` refused are in `orphans`: no pointer reaches them any more.  A field
that `new_conn` leaves unwritten is `Wild` or `"unset"`, and using it is a choice
between ending the process and going on.  `sysmem` and `regs` survive the
process, `clist`, `orphans` and `heap` do not.  `Stranded` are the regions that no
connection of the list leads to, so that no request can free them.

A connection's `stats` is all that the handlers see of its thread.  `"unset"` is the id
of a thread that could not be created, which the detach cancels and joins all the same.
A thread that has ended by itself by then is in `StatsThread` only.

The kernel's refusal of a sysfs write is modelled as the code sees it: `fprintf`
fills a buffer and succeeds, the error appears in `fflush` and `fclose`, whose
results are dropped.

### Rpc

`client[c]` is the position of a client in `send_cmd`, `agent` the position of
the agent in `run_agent`.  A message is small enough for one write and one recv,
so it is one item.  What the read and write loops do with a result of 0 or -1 is
kept: at end of file `read_message` returns a buffer nobody wrote (never the NULL that
`agent.c:7` looks for), and an error takes `write_message` back to the same write for
ever.

The agent takes that buffer from `malloc` and frees it after every request.  `heap`
are the requests that this process has read; a buffer nobody wrote holds any of them
or nothing that is a request (`Garbage`), and `Handle` executes what it holds.  A client
reads one response in its life and has freed no message before, so its unwritten
buffer is `Garbage`.

### StatsThread

`conn` is a compute connection as `del_conn` sees it, `thread` where
`_stats_thread` is.  Cancellation takes effect only in `open` and `sleep`.
`Resolve` is apart from `StartStatsThread` because a later attach may replace the
fifo before the thread opens it.  Opened or not, `fifo[k]` is what the thread
prints to.

`tid[k]` is what the id in connection `k` names: its thread, nothing (NULL, when there is
no fifo), or, when `pthread_create` failed, whatever `malloc` left there (`Unwritten`).
`stop_stats_thread` uses such an id like any other, and so `Named` is any thread that has
not been joined, or none.  What `pthread_cancel` and `pthread_join` say of a thread that
has ended by itself, or of an id that is none, is up to the C library: both the
success and the error, which ends the agent (`AgentExits`), are in the model.

### LlcLink

A frame is an item; writing one takes two steps because a slot is torn in
between, reading and sending it takes one.  Frame `i` is the `i`-th frame
written, `store` says which frame a slot holds, `unsent` are the valid bits.
In-band messages are sent as bursts of `Copies` equal items.  `Corrupt` clears
the CRC flag of anything on the wire.  Two constants state timing that the
hardware relies on and has no interlock for:

- `RoundTrip`: the peer expects a frame that is at most so many frames old, so
  its slot has not been written again.  The runs set it to `Slots`, the largest
  value for which the frame can still be there.
- `BurstTogether`: all copies of a request have arrived before the first has
  been served (serving takes at least a dozen cycles, the copies are
  consecutive).  Without it a late copy is latched as a new request and frames
  arrive twice; TLC shows this when the constant is FALSE.

### Backpressure

One action is a clock cycle of one end: the egress is offered a flit or none,
the fifo behind it has room or not, the routing behind the ingress takes a flit
or not.  `Egress` and `Pending` use the unprimed registers, so that counting a
flit and taking all counted credits in the same cycle is one step, as in the
Verilog.  The users of the port are an environment: the compute end opens at most
`Window[r]` requests of kind `r`, the memory end answers each.  A packet with data
has `DataFlits` data flits; both state machines assume 128-byte packets.

### Routing

One action is a clock cycle of one node, with any pattern of backpressure from the
links or from the node behind.  `ereg[p]` and `ireg[p]` are the five registers of
port `p` (command and four halves of data flits), `esm`, `insm` and `ism` the state
machines that fill and empty them in turn, and the ping-pong buffers, which are
written and read alternately, are queues of two.  The input of the egress waits for
the register of the low half only, so the high half is loaded first and must not
be loaded twice; that the input keeps its flit up meanwhile (`held`) is what the
adapter in front of it does.  A response passes as a TLx opcode and is translated as
it enters a register of the compute node, so that the same question, whether data
follow, is asked of different codes (`HasData`, `DataFollowsIn`, `DataFollows`).  The
command of a read response stays in its slot of the output until its first data
join it (`header`).  `taking`, `delivered` and `passed` only observe.

The arbiter of the memory node has its reset connected to `reset`, a name that
`thymesisflow_top.v` never declares (line 719; the compute node's, line 440, gets
`reset_n`).  What an undriven net reads is up to the build: `unreset` is any constant
for requests, TRUE for responses.  The state machines assume 128-byte packets, and
so does the model.

### MemoryEgress

One action moves one flit through one engine.  A command keeps its opcode,
address, length and original tag all the way, so these are its name; what changes
is the local tag and the annotation, the code of the response that sends it to
the retry engine.  `capptag`, `cmdlookup`, `d0lookup` and `d1lookup` are the stores of
`thymesisflow_memory_ingress.v`, `eng` the registers of `TLRespEng`, `rty`, `lock` and
`jail` those of `RtyEng`.  The host is an environment: it answers a read at once or
in halves, fails, asks for a retry (`TLRESP_CODE_RTY`), or says that a translation
is pending and later that it is done.  `RespState` is `getTLRespState` with its bit
tests, in the order in which `RespEngSM` looks at them: the bits of one opcode overlap, so the
first test that holds decides.  `Seen` keeps the marks that every response leaves in the engine, because
the next one is handled with them.  Writes have two data flits: the stores have no
place for more, and a write of one flit would be replayed from the wrong store.

### Proto and Disaggregation

A message is a record; a setter that refuses its argument leaves the field as
`malloc` gave it (`Unwritten`).  An action of `Disaggregation` is one run of
`thymesisf-cli`: the checks of the command line, the request, one step of the
agent it is sent to, the response, and the exit code, which is all that the
operator learns.  `note[i]` is what the operator believes: the size and address
that were printed, and whether the compute side is attached, detached, or in doubt
after a failed command.  `M` and `C` are instances of `Agent` with the variables
`mconns`... and `cconns`...; nothing but the operator connects them.

The operator works as `libthymesisflow/README.md` says: attach memory, give its
address to the compute side, detach the compute side first.  The memory side is detached
with `detach-memory`, or with the `detach-compute` that the README has for it
(`ReleaseCommands`), which the memory agent serves like any request.  `owed` and `slips`
count, from the commands alone, how often a circuit was attached on the memory node that
was attached there already, or detached there with `detach-compute`.  One circuit is
borrowed at a time, because all share segment 0 and the blocks at
`INIT_PROBE_ADDR`.  A command that failed may be repeated at any time.  The memory
agent is not stopped: it would take all lent memory with it.

When the agent dies while it serves a request, the client reads end of file and
looks at a buffer nobody wrote.  The client has freed no message before, so this
is fresh heap, and `AttachExit` and `DetachExit` take it for a failure; in a process
that had used the heap it might not be.

### Shmem

Each function of `tf_shmem_api.h` is an action, on top of the handlers of `Agent`,
which here run inside the applications and use one circuit, `0x1`, without
hot-plugging.  `mstate` and `cstate` are the static `state` of `tf_shmem.c` in each
process, `mm` that of `custom_mm.c`.  Addresses are numbers: `Base(u)` is where
`posix_memalign` puts the pool of connection `u`.  `Reached(w)` is where a load through
a mapping ends: the module adds the offset to the window, and the card replaces
the window's base by the segment register.

What the applications are assumed to do is what the test programs do and the API
asks for: they map only after `tf_compute_init` said `ATTACH_OK`, and unmap before
either side tears down or the memory side ends.  They make as many pools as they like
and ask for buffers of any size, also when the pool is used up: `tf_buffer_alloc` is
to say so.  Both may end without teardown, the compute side at any time.
`failed` and `retries` count the calls of `tf_memory_init` that were repeated after one
that failed.

## 3. What is checked

| Run | Instance | What it shows |
|---|---|---|
| `agent_all` | 2 circuits, 2 connections, both sides, every fault | the list is a registry of circuits whatever fails; a detach ends its circuit |
| `rpc_calls` | 3 clients that may be killed, 2 SIGTERMs, backlog 0 | an answer means the own request was executed; a request is executed again only in the place of one that a killed client never wrote, and only once; every connected client returns unless one is killed |
| `stats_detach` | 2 connections, a fifo of 2 lines, failing register reads and `pthread_create` | no running thread without its AFU; every detach ends, and ends the agent only if a thread could not be created or ended by itself |
| `llc_link` | 3 slots, 3 copies, 4 + 1 frames, 3 errors | the link is two reliable channels; no stall is forgotten; every frame arrives |
| `credits_port` | 6 credits, packets of 3 flits, 1 read and 2 writes open | credits are conserved, no overflow, framing in step, requests answered |
| `routing` | 3 packets with or without data, on one link or bonded, in either direction; links of 1 flit | packets leave whole and translated, each link is a channel of packets, a waiting command is passed once at most, everything arrives |
| `routing_failed` (violated) | responses, one of them a write that failed | the failed write takes the data of a read |
| `egress` | a write, a read and a read in halves; 2 tags; host codes RTY, PEND and an error, 2 retries | tags are conserved, each command gets its own answer once, the memory is a `RemoteMemory`; what is taken is answered unless the jail stays locked |
| `nodes` | 2 circuits (one not hot-plugged) of 1 or 2 blocks, 2 lends, 2 borrows, failures on both nodes, compute agent stopped, either command to detach the memory side | no memory is freed behind an online block; what the operator noted is what the nodes hold; each region that no request can free is due to a repeated attach or a `detach-compute` on the memory side |
| `nodes_refused` (violated) | 1 circuit, the kernel refuses to take its block offline | detach-compute reports success, and detach-memory frees memory behind an online block |
| `shmem` | pools of up to 1.5 pages, 3 memory attaches, 2 compute attaches, 2 buffers of any size, failing attach, allocation and mlock | buffers are disjoint, mappings reach their buffers; a teardown leaves a region allocated only for a repeated `tf_memory_init` |
| `shmem_pool` (violated) | 1 pool of up to 2 pages | a buffer lies behind the end of the pool |

Each property of a passing run has a mutant in `PROJECT.json`: a definition
changed the way a bug would change it, for which TLC reports a violation.

### Bounds

- `MaxConns` bounds the connections made in a behaviour.  Two show every pair of
  an attach with a repeated attach or a detach, and a circuit at the head or the
  tail of the list; unlinking in the middle of a longer one is covered by the
  proofs.
- `NBlocks` is the number of memory blocks; sizes from 1 to `NBlocks` make
  circuits of different size follow each other at `INIT_PROBE_ADDR` in `nodes`.
- `MaxStops` bounds SIGTERMs: one stop loses a request, a second one hits the
  restarted agent.  A backlog of 0 (one waiting client, as the kernel counts)
  makes the third client wait in `connect`.
- `PipeSize`: a fifo that is full after two lines shows the full, the half-full
  and the empty one.
- `Slots` = 3 with 4 frames makes the slot counters wrap and the window cover the
  buffer.  `MaxErrors` = 3 is one less than is needed to stall a parser and
  destroy the three copies of a message; `MaxFlight` leaves room for two bursts.
- `Creds` = 6: two writes of three flits use up the credits of the compute end,
  and the five flits of responses leave the memory end one.
- `routing`: two packets make a link wait for the other, a third one could pass the
  waiting command a second time.  `LinkDepth` = 1 stops a link at any flit of a
  packet.  The opcodes are one of each kind that the code tells apart.
- `egress`: two tags for three commands make a tag wait, be given back and be
  reused while an earlier response is on its way; `MaxFaults` = 2 lets a command
  be retried twice, or two be retried at once and share the jail.  `JailDepth` = 4
  holds a write and a read, all that two tags can have in jail.  Failures that are
  final are not bounded.
- `nodes`: `MemBlock` = 2 lets the operator type a size that is no multiple of a
  block.  `MaxLends` = 2 and `MaxBorrows` = 2 let either side be attached again after
  a failure or after a detach, and either circuit strand a region; the proofs cover
  longer histories.
- `shmem`: a page is two units, so buffers of half a page show the alignment.  Three
  memory attaches let one fail, be repeated and torn down, and another pool follow in
  the same process; a second buffer is what could overlap the first.

### Fairness

Safety is checked without fairness wherever the run has no liveness property.

- `Rpc`: the agent's loop and a client that has connected are running processes.
  Nothing obliges anyone to connect, to stop the agent or to start it again.
- `StatsThread`: threads run; a reader that has the fifo open goes on reading,
  which is all `read_counters.py` does; writers that wait for room in a fifo are
  let in (strong fairness of `PrintLine`), as the kernel queues them.  A reader
  that keeps the fifo open and stops reading is outside of this assumption: then
  the detach does hang, because the thread prints with cancellation disabled.
- `LlcLink`: clocked hardware sends when it can, handles what arrives, and the
  egress driver completes a started frame with NOPs.  Starting a frame and CRC
  errors are free.
- `Backpressure`: the clock runs, fifos drain, responses that are due are
  offered.  Beginning a request is free, so nothing relies on later traffic.
- `Routing`: the clock runs, the links and the node behind take what they are given
  again and again, and the data of a command follow it.  No command need ever come.
- `MemoryEgress`: the engines are clocked hardware, the network sends the data of
  a write it began, the host answers every command it has.  No command need ever
  come.  `AnsweredUnlessJailed` has a premise, that the jail is unlocked again and
  again: the code has no timer, so without a later translation a command stays.

### Disagreements found

`PROJECT.json` has those that a run demonstrates: a detach that reports success for
a block the kernel kept (`nodes_refused`), a failed write whose response takes the data of
a read (`routing_failed`), and buffers behind the end of a pool (`shmem_pool`).  Others met
while modelling, and more about these:

Agent and command line:

- `attach_memory` and `attach_compute` ignore `CONN_DUP` (`thymesisflow.c:130`, `247`):
  a second attach of a circuit allocates and sets up a connection that is in no
  list and answers `ATTACH_OK` (`StrandedBySlips` counts it as a slip), although `connection.c:65` says "not allowed to
  replicate the connection".  No detach finds that connection.  A repeated compute attach with another no-hotplug flag leaves the first
  flag in the list, and the detach uses that one.
- `new_conn` leaves `ea` and `afu` unwritten; detaching a circuit whose attach failed
  early frees and closes garbage (`connection.c:29`), which can end the agent.
- The attach, too, reports `ATTACH_OK` for a block that the kernel refused
  (`thymesisflow.c:221`): the result checked is that of filling a stdio buffer.
- Two circuits borrowed at once share segment 0 and the first blocks, so the
  second attach changes what the first one reaches.
- SIGTERM ends the memory agent and frees the memory it lent, whoever uses it.
- `send_cmd` ignores that `open_client_connection` returned -1 and repeats a
  failing write for ever when no agent listens (`client.c:22`, `proto.c:536`;
  action `ConnectRefused`).
- A client that is killed while it waits blocks the agent for ever: the write fails
  with EPIPE, SIGPIPE is ignored, and `i += -1` in `proto.c:537` takes the loop back
  to the same write, although `agent.c:63` says "avoid exiting when reading on closed
  pipe".  `ConnectedCallReturns` therefore excepts behaviours with a killed client;
  without the exception `rpc_calls` violates it.
- `libthymesisflow/README.md:156-159` releases a memory-side circuit with
  `detach-compute`, which deletes the connection and with it the only pointer to the
  memory.  The command that the client has for it is `detach-memory`.  An operator who
  follows the README strands every region lent: `StrandedBySlips` counts one for each
  such command, and without counting them `nodes` violates it.
- A client that goes away without a request leaves the agent a buffer from `malloc`,
  and a request of the past that it holds is executed again (`proto.c:513`,
  `agent.c:16`).  Then the agent waits for ever for the client that is gone.
- `stop_stats_thread` ends the agent, and with it every connection, when a thread has
  ended by itself and the C library reports that (`stats.c:139`, `146`), and may do so, or
  cancel another connection's thread, when `pthread_create` had failed (`stats.c:125`).

Shared memory library:

- `tf_compute_init` notes the state as initialised after a failed attach, so a retry
  returns -2; success returns 100, not the 0 of `tf_shmem_api.h`.
  `tf_memory_init` returns the status of the attach and not -1, which is what
  `test_memory.c:43` compares with.
- `tf_memory_init` repeated after a failed attach puts the new pool into a
  connection that no list has; the teardown frees the connection of the failed
  attempt and the pool stays allocated (`TeardownReleases` therefore counts the
  repeated calls).
- `init_custom_mm` (`custom_mm.c:82`) leaves `next` as it is: after a teardown and
  another `tf_memory_init` the first buffer starts where those of the old pool ended.
- The allocator never compares with the pool's size, so that already a single buffer
  may lie behind its end, and a mapping whose `mlock` failed is never unmapped.

Hardware:

- The parser takes no special message with a bad CRC
  (`thymesisflow_llc_parser_crc_replay.v:186`), although the comment at line 177 says
  that it does not care.  A burst is sent once: when errors hit all copies of a
  request, the parser stays stalled.  With `MaxErrors` above `Copies`, `llc_link`
  shows it.
- A command that the host answers with RTY waits for some command's translation
  to be done; the timer of `ocx_rty_eng.cpp:111` is commented out.  Without another
  page fault it is never issued again.
- The jail has 512 flits for 512 tags, and a write takes three.  With 171 writes in
  jail the retry engine stops, with the response that would open the jail behind.
- A stats thread whose register read failed has ended by itself when it is
  joined; `stats.c:151` says this should not happen.
- With the arbiter's `reset` at 0 its round is never remembered and port 0 goes first
  whenever it has a command, although `compute_ingress.v:661` says of the arbiter that
  it remembers "so it can avoid starvation".  `NotPassedOver` has the premise that
  the arbiter is out of reset.
- The blocking half of the failed write: when no read follows on its link, its
  state machine stays in DFLIT0 and the other link may send no command either.
- The flit that takes the last credit waits in the output register until another
  credit comes back (`thymesisflow_32B_bckpressure_egress.v:84`), so one credit is
  of no use and, when the responses to all open requests need exactly as many
  flits as there are credits, the two ends wait for each other for ever.  With
  `Creds` = 5 `credits_port` shows this: `RequestsAnswered` is violated.  With 254
  credits and five flits per response that takes 51 open reads on one port.

## 4. What is proved

All theorems hold for every value of the constants that the named assumptions
allow.  A leaf that takes a prover more than a second or two names the prover and
allows it more time (`SMTT(30)`, `ZenonT(60)`), so that the proofs also go through on
a slow or busy machine.

**AgentProofs**, from `ConstantsAssumption`.  The inductive invariant is
`TypeOK /\ UniqueCircuits`.  Uniqueness is what makes it inductive: `get_conn` and
`del_conn` stop at the first match, so only if a circuit occurs once does
`del_conn` remove it (`DelConnUnique`), and `AddConnUnique` needs the search that
`add_conn` makes.  `TypeCorrect` and `CircuitsUnique` follow, then `DetachEnds`
(an action property) and `ImplementsRegistry`: every step of the agent is, under
the mapping `Owner(clist)`, a step of `CircuitRegistry` or a stutter.  The mapping
picks the first match, and uniqueness makes it independent of list positions.

`OnlineOwned` (every online block was hot-plugged for a connection that still exists,
however the circuits overlap) is shown on top of it, and no run repeats it.  It needs `BlocksObey`: the agent serves the compute
side and is not stopped, threads can be started, and the kernel opens and takes
offline what exists; without these a block stays online by nobody's mistake in
this code.  What makes it inductive is `NoGaps`: the loops over the blocks stop at the
first that does not exist, and since blocks come into being from `INIT_PROBE_ADDR`
upward, nothing behind it is online.

**DisaggregationProofs**, from the assumptions of `Proto`, `Disaggregation` and from
`CliPortsArrive`, which says that the one byte of ports that the command line sends
comes out of the codec as it went in, and which TLC evaluates (`PortsRoundTrip`, for
all 256 bytes).  `AgentsServed` is the composition: every command is, on the agent it
is sent to, a step that `Agent` allows, so the module uses two instances of
`AgentProofs` and every lemma there holds of either node.  The invariant adds
`NotesTyped` (what the operator noted), `LentIsHeld` (a region noted as lent was made
for that circuit, and the connection of no other circuit points to it: its own may be gone
from the list), `SlipsCounted` (a circuit that is registered on the memory node is owed
there, and no more regions are stranded than slips were made) and `Borrower`: at most one circuit is borrowed, a connection of the compute node is of a
circuit not yet seen detached and has what was typed, and the blocks that are online
and the segment register are those of the borrowed circuit.  The hypotheses are as
far apart as the faults are:

| Theorem | Hypotheses besides `CliPortsArrive` | Property |
|---|---|---|
| `StrandedOnlyBySlips` | none | `StrandedBySlips` |
| `LentIsAllocated` | `MemoryGranted` | `LentMatches` |
| `ConnectionsAsTyped` | `NoAccident` | `RegisteredAsTyped` |
| `OnlineBlocksAreBorrowed` | `NoAccident`, no refused offline | `OnlineIsBorrowed` |
| `AttachedIsOnline` | `NoAccident`, no refused online | `BorrowedMatches` |
| `BorrowedMemoryIsAlive` | `NoAccident`, `MemoryGranted`, no refused offline | `BorrowedMemoryLives` |

`NoAccident` says that a buffer nobody wrote does not happen to read as success,
`MemoryGranted` that neither `posix_memalign` nor `mlock` fails on the memory node.
TLC confirms that the last ones are needed: with a failing `memalign` or `mlock`,
`nodes` violates `LentMatches` and `BorrowedMemoryLives` (the detach
closes the AFU that such an attach never opened, which can end the agent and with it all lent
memory), a refused offline violates `OnlineIsBorrowed` and `BorrowedMemoryLives`, a refused
online only `BorrowedMatches`.  `StrandedBySlips` needs neither: it is about what a command
leaves behind when anything fails, and both commands that strand a region are counted.

**ServiceProofs**, from `RpcAssumption` and `StatsAssumption`: the socket and the counter
threads, the two sides of the agent that are not its handlers.  `AnsweredMeansServed` and
`RepeatedForKilled` say nothing of a request that is still under way.  `Requests` says where
it is: not written, in the inbox, in the agent's hands, or executed; and that an executed one
comes into the agent's hands again only while it serves a killed client, after which it
reads nothing more (`WriteMessage` never ends) until SIGTERM has taken its buffers with it.
`Queue` says that the clients in the backlog differ and are still waiting, and that no buffer
holds what they will write.  `OwnAnswer` says that what the agent holds is the request of the
client it serves, unless that client was killed, so that a past request is answered to nobody.
`OwnRequestAnswered`, `RepeatedAtMostOnce` and `RpcTypeCorrect` follow.  The two specifications
share no state (which is why the formulas of `StatsThread` are `StatsInit`, `StatsSpec` and so
on).  `ThreadHasDevice` needs to know when threads run: `DeviceHeld` says that a running
thread is named by the id of its own connection, that it runs only between attach and the end
of the join, and that the AFU is open all that time.  An id that nobody wrote may name the
thread of another connection; then that thread is cancelled and joined, but the AFU that is
closed is not the one it reads.  `Detachable` says that, as long as every thread was created and
none has ended by itself, the id of a connection names a running thread that only its own
detach cancels, so neither call can fail.  `ThreadKeepsDevice`, `AgentOutlives` and
`StatsTypeCorrect` follow.

**ShmemProofs**, from `ShmemAssumption`.  `TeardownFindsCircuit` says that a library
that is initialised has its circuit in the list.  The invariant `Bookkeeping` adds
that a list holds at most this one circuit, so `del_conn` removes it, and that the
compute side's connection is never hot-plugged: only then does `detach_compute`
report success whenever it drops the circuit, and state and list change together.
`BuffersNeverOverlap` uses `BuffersBelow`: every buffer ends at or below `next`, which
only moves up while there are buffers.  It needs no bound on the number of pools,
so even the stale `next` of a second pool gives no byte away twice.
`TeardownLeaves`, the action property, counts (`Stranding`): the regions that the connection
of the list does not hold are at most as many as the calls of `tf_memory_init` that were
repeated after a failed one, because only such a call meets a connection in the list.  A
teardown frees the region of the list's connection, if the pool is there, and leaves the
others.  Each teardown sees the repetitions of the whole life of the process, as what is
stranded stays so until it ends.  `WindowsReach` uses `Carved` (while the library is initialised
its pool is allocated) and `Windows` (the address the compute side was told is in its state and
in the segment register, and no side may change while a window is held).  It holds of buffers
behind the end of the pool, too, but for the allocation: what they reach is not the pool's,
and `shmem_pool` shows such a buffer.

**BackpressureProofs**, from `BackpressureAssumption`.  What an end still owes is
summed over the flits of a link, and where a packet ends depends on the flits
before it.  The invariant says that intermediate results *exist*: a
function from positions in the link to states of the receiving state machine
(`Parses`), starting in the receiver's state and ending in the sender's, and a
function of partial sums (`Conserved`), starting at the credits in hand and ending
at all credits.  Sending appends an entry, receiving drops the first, so no
induction over the link is needed, and partial sums that grow by at least one per
flit bound its length.  `FifoNeverOverruns` and `EndsInStep` follow.
`CreditsAreConserved` says the same of the sum as the model computes it, position by
position.  An induction theorem takes the induction hypothesis as an operator, which
is out of the provers' reach; instead `LeastElement` takes the least position at
which the computed and the existing sums differ, from the well-foundedness of the
subset ordering on finite sets, and there is none (`CarriesSum`).
`CountersInRange` is about the requests: `Accounted` counts, for each kind, the packets
that are under way in either direction, complete in the link or cut by its end
(`Completes`, `Partly`), so an answer is never offered to a request that is not open.

**RoutingProofs**.  `ServedInTurn` needs no assumption.  `NotPassedOver` counts how often
a waiting command was passed, which says nothing of who goes next.  The invariant adds the
round: what is left of one is port 1, which has a command, or nothing (`Rounds`), and
a port that was passed once is selected next (`Turns`): port 0 because a new round
begins with it, port 1 because it is all that is left.  A command register keeps its
command until it is selected (`Waiting`).

`PacketsLeaveWhole` and `ImplementsLinks` assume `OpcodesAgree`: the stages that each
decide from the opcode whether data follow (`HasData`, `DataFollowsIn`, `DataFollows`,
the table of TL opcodes) give the same answer.  That is so for the opcodes of the run
`routing`, for any request with bit 5 set, bit 2 clear or bit 0 set, and for the responses
4, 5 and 8.  It is not so for a failed write, 9, and `routing_failed` shows what happens
then.  The invariant
(`InPlace`) says where everything is that is under way.  Part `j` of packet `n` is a
*place* of a link, and `Succ` puts the places in one order.  Backwards from the output of
the ingress: its registers hold exactly the places from the one that is taken next
up to the one that arrives next (`Bank`), the link those up to the next one of the buffer, the
buffer those up to the next part to be sent (`Path`), the registers of the egress those up
to the next part to be loaded.  Every part has its own register, so the range may begin in
one packet and end in the next, as long as no part occurs twice.  One flit is out of order:
the high half of a data flit that is loaded while the low half has to wait
(`Loading`).  It is not loaded again, because the register of the low half still holds an
earlier flit and it cannot leave before that one (`EarlyStays`).  Where the links meet, a place becomes part of an
item, and the state of the output (`ism`, `header`) says how far the packet has come that it
is in (`Writer`); the items in the output buffer lead from what the node behind has
(`Reader`) to there, each of them the next of the packet that was begun, or the first of the
next packet of a link (`Stream`).

**LlcLinkProofs**, from `LinkAssumption` and `Timing`: a frame is acknowledged by the
round trip before its slot is written again (`RoundTrip <= Slots`), and the copies of
a message arrive together (`BurstTogether`).  These are what the hardware relies on
(section 2, `LlcLink`), and without either TLC finds frames lost or repeated.  The properties say what
arrives; nothing on the wire says which frame an item is.  The invariant is therefore
about all that can still arrive, for each direction:
`Delivery`, the parser counts the frames it has passed on; `Window`, the slots from the
expected frame to the one being written hold the frames of those numbers, and they are at
most `Slots`; `Recovery`, a stall is answered by at most one burst, which is a request
latched by the parser, on the wire, latched by the peer, or a preamble on the wire; and
`Transit`, there is a numbering of the wire that leads from the frame the parser expects
to the next that the framer will send, each frame raising it by one and each preamble
taking it back to the expected frame (`Reader`, `Numbers`).  `Transit` says that the
numbering *exists*, so that sending and taking an item extend or cut a witness.  The
number of slots is only used modulo: two frames of the window with the same slot are the
same frame.  `FramesAreWhole` and `ImplementsChannel` follow, for any
number of CRC errors: errors cost time but neither order nor frames.

`StallsAreAnswered` says that no stall is forgotten, without `Timing` and with
`MaxErrors <= Copies`.  A burst is sent once and errors may spoil its copies one by one,
so the invariant counts: while a parser is stalled, the request or its answer is in a
latch, or the whole copies of it on the wire and the errors so far are together more
than the copies of a burst (`Survives`).  Every spoilt copy is an error, and one error
was spent on the stall itself.  The bound is sharp: with one error more, `llc_link`
shows the property violated.

**MemoryEgressProofs**, from `EgressAssumption`: for any commands, number of tags, depths of
the fifos and number of failures.  None of its properties is inductive, and none of them can
be proved without the others: a tag may be given back because nothing else is under way with
it (`TagsConserved`), which needs that responses come in a certain order; the order needs that
the host has one command per tag; and what a response is joined with is the right command
(`OwnCommand`) because `NetCommand` writes the store only for a free tag.  The invariant `IInv`
is their conjunction with

- `Machines`, the counters of the state machines;
- `OneTag`, a command has at most one tag;
- `InTurn`, about `Coming`, the responses in `combo` and `tlresp` as one sequence: two of them
  have the same tag only if they are the halves of a read or a pending translation and its
  end, the host has the command only if one of them announces it, and while the engine passes
  data of a tag there is at most the second half to come;
- `Stores` and `AtHost`, what the ingress and the host have of the data of a write;
- `Replays`: nothing marks the flits of the retry path, so `Chain` says of a fifo that each
  flit is what must follow the one before (`After`), from what its reader expects to what
  its writer puts in next, and there is one flit `e` that the retry engine is about to move
  with which this holds of all three fifos.  `InStep` follows at the heads;
- `ReadData`: `tldata` is cut up by the responses under way.  A function `pos` from positions
  in `Coming` to positions in `tldata` *exists*, which a step extends or shifts, so that no
  induction over the fifo is needed;
- `Delivered` and `Performed`, what the network has of each command and what the memory has.
  `Delivered` contains `OwnAnswer`.

`Tallies`, `TallyAppend` and `TallyTail` are the lemmas about counting the entries of a fifo on
which `TagsStep` rests, `ProperCases` says flit by flit what `OwnAnswer` says of prefixes.
Each conjunct has one lemma that a step keeps it (`TypeStep`, `MachinesStep`, `TagsStep` and so
on), and TLC has found every conjunct to hold in the instance of the run `egress`.
`Memory` is the refinement: `NetCommand` accepts, the host's `WR_OK` performs, the last flit of
an answer answers, and the write has been performed by then.

Only model-checked: all liveness properties, which are out of the prover's reach
(`AnsweredUnlessJailed`, `EveryFrameArrives`, `EveryPacketArrives`, `RequestsAnswered`,
`ConnectedCallReturns`, `DetachReturns`).  The port codec (`PortsRoundTrip`)
is evaluated by TLC for all 256 bytes.

## 5. What is not modelled

- OpenCAPI TLx, DLx, configuration space and board support: reference designs
  and vendor code, used as they are.
- The AFU top level: wiring and a register file; the registers that the agent
  writes are in `Agent`.
- The offsets of fields in a message, lengths of names, logging, printed numbers.
  The division in `stats.c:70` by a count that is zero before the first
  transaction, and the descriptor a cancelled counter thread leaves open
  (`stats.c:30`), are left to a reader of that file.
- Flits within a frame of the LLC, and cycle-level races inside framer and
  parser: the model's step is a frame.
- A reset of one end of a link alone; both are brought up together.
- The statistics counters of the HLS modules, and the copy of `getTLRespState` in
  `memory_egress_lookup`, which is not called.
- The registration of the `tfshmem` device: when it fails, `open` fails, which is in
  the model.
- `custom_malloc_aligned` and `fini_custom_mm`, which nothing calls.
- Packets of 64 and 256 bytes, which the routing and the ports do not handle, and the
  compute egress adapter beyond the fact that it keeps a flit up until it is taken.

## 6. Plan

1. `Agent` with `CircuitRegistry` and its proofs; `LlcLink` with `FrameChannel`;
   `Rpc`; `StatsThread`; `Backpressure`: done.
2. `MemoryEgress` with `RemoteMemory`, `Proto`, `Disaggregation`, `Shmem`, `Routing`:
   done as described above.
3. Proofs: every safety invariant, action property and refinement that a run checks is a
   theorem, under the hypotheses named in section 4.  What TLC alone shows is listed at the
   end of that section.
