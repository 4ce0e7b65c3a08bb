-------------------------------- MODULE Rpc --------------------------------
(***************************************************************************)
(* The socket between clients (thymesisf-cli) and the agent.  A client     *)
(* connects, writes one message, reads one message and closes.  The agent  *)
(* accepts one client at a time, reads a message, serves it, writes the    *)
(* response and closes.                                                    *)
(*                                                                         *)
(* A message is written by one write call and read by one recv call, so it *)
(* is one item here.  The loops of read_message and write_message add what *)
(* the call returned to an index and then one: at end of file the index    *)
(* creeps to the end of the message, so read_message returns, never NULL,  *)
(* what malloc gave it; an error, -1, takes the index back to where it     *)
(* was, so write_message repeats the call for ever.                        *)
(*                                                                         *)
(* The agent frees the buffer of every request once it has answered.  What *)
(* malloc gives it next may hold any request that the process has read:    *)
(* the allocator writes over the first bytes of a freed buffer, which are  *)
(* part of the circuit and not of the message type.                        *)
(***************************************************************************)
EXTENDS Naturals, Sequences, FiniteSets

CONSTANTS
    Calls,          \* the client processes, each of which makes one call
    Backlog,        \* BACKLOG, 5 in the code
    MaxStops,       \* bound: SIGTERMs in a behaviour
    ClientsDie      \* a client process may be killed before it returns

NoCall == "none"        \* what an empty buffer holds
Garbage == "garbage"    \* a message buffer that holds no request

ASSUME RpcAssumption ==
    /\ Calls # {}
    /\ NoCall \notin Calls /\ Garbage \notin Calls
    /\ {Backlog, MaxStops} \subseteq Nat
    /\ ClientsDie \in BOOLEAN

Responses == {Garbage} \cup Calls

VARIABLES
    client,     \* where each client process is
    backlog,    \* clients that the agent has not accepted yet
    inbox,      \* inbox[c]: the request c has written is waiting to be read
    outbox,     \* outbox[c]: the response waiting for c
    held,       \* clients whose connection is open on the agent's side
    agent,      \* where the agent is in run_agent and handle_request
    cfd,        \* the client it serves
    msg,        \* the message it read: whose request it is
    heap,       \* the requests that this process of the agent has read
    served,     \* served[c]: times the request of c was executed
    got,        \* got[c]: the response c returned with
    stops       \* SIGTERMs so far

vars == <<client, backlog, inbox, outbox, held, agent, cfd, msg, heap, served, got,
          stops>>

Process(c) == client[c] \in {"writing", "reading"}

-----------------------------------------------------------------------------
(* Clients: send_cmd.                                                      *)

\* Mutant of Connect: the backlog has no limit.
ConnectUnbounded(c) ==
    /\ client[c] = "new" /\ agent # "down"
    /\ client' = [client EXCEPT ![c] = "writing"]
    /\ backlog' = Append(backlog, c)
    /\ held' = held \cup {c}
    /\ UNCHANGED <<inbox, outbox, agent, cfd, msg, heap, served, got, stops>>

\* open_client_connection; connect waits while the backlog is full
Connect(c) ==
    /\ client[c] = "new" /\ agent # "down"
    /\ Len(backlog) <= Backlog
    /\ client' = [client EXCEPT ![c] = "writing"]
    /\ backlog' = Append(backlog, c)
    /\ held' = held \cup {c}
    /\ UNCHANGED <<inbox, outbox, agent, cfd, msg, heap, served, got, stops>>

\* open_client_connection returns -1, which send_cmd passes on to write_message:
\* the write fails for ever.
ConnectRefused(c) ==
    /\ client[c] = "new" /\ agent = "down"
    /\ client' = [client EXCEPT ![c] = "spinning"]
    /\ UNCHANGED <<backlog, inbox, outbox, held, agent, cfd, msg, heap, served, got, stops>>

\* write_message.  When the agent has gone SIGPIPE ends the client.
Send(c) ==
    /\ client[c] = "writing"
    /\ IF c \in held
         THEN /\ inbox' = inbox \cup {c}
              /\ client' = [client EXCEPT ![c] = "reading"]
         ELSE /\ client' = [client EXCEPT ![c] = "dead"]
              /\ UNCHANGED inbox
    /\ UNCHANGED <<backlog, outbox, held, agent, cfd, msg, heap, served, got, stops>>

\* Mutant of Receive: end of file is not noticed.
ReceiveOnlyResponse(c) ==
    /\ client[c] = "reading" /\ outbox[c] # NoCall
    /\ got' = [got EXCEPT ![c] = outbox[c]]
    /\ client' = [client EXCEPT ![c] = "returned"]
    /\ UNCHANGED <<backlog, inbox, outbox, held, agent, cfd, msg, heap, served, stops>>

\* read_pmessage: the response, or at end of file an unwritten buffer
Receive(c) ==
    /\ client[c] = "reading"
    /\ outbox[c] # NoCall \/ c \notin held
    /\ got' = [got EXCEPT ![c] = IF outbox[c] # NoCall THEN outbox[c] ELSE Garbage]
    /\ client' = [client EXCEPT ![c] = "returned"]
    /\ UNCHANGED <<backlog, inbox, outbox, held, agent, cfd, msg, heap, served, stops>>

Kill(c) ==
    /\ ClientsDie /\ Process(c)
    /\ client' = [client EXCEPT ![c] = "killed"]
    /\ UNCHANGED <<backlog, inbox, outbox, held, agent, cfd, msg, heap, served, got, stops>>

-----------------------------------------------------------------------------
(* The agent: run_agent.                                                   *)

Accept ==
    /\ agent = "accept" /\ backlog # <<>>
    /\ cfd' = Head(backlog)
    /\ backlog' = Tail(backlog)
    /\ agent' = "read"
    /\ UNCHANGED <<client, inbox, outbox, held, msg, heap, served, got, stops>>

\* Mutant of ReadMessage: the agent does not wait for the request.
ReadMessageAtOnce ==
    /\ agent = "read"
    /\ \/ /\ cfd \in inbox
          /\ msg' = cfd
          /\ heap' = heap \cup {cfd}
       \/ /\ cfd \notin inbox
          /\ msg' \in {Garbage} \cup heap
          /\ UNCHANGED heap
    /\ inbox' = inbox \ {cfd}
    /\ agent' = "handle"
    /\ UNCHANGED <<client, backlog, outbox, held, cfd, served, got, stops>>

\* read_message: recv waits for the request, or for the client to go away.  Then
\* the message is whatever the buffer holds.
ReadMessage ==
    /\ agent = "read"
    /\ \/ /\ cfd \in inbox
          /\ msg' = cfd
          /\ heap' = heap \cup {cfd}
       \/ /\ cfd \notin inbox /\ ~Process(cfd)
          /\ msg' \in {Garbage} \cup heap
          /\ UNCHANGED heap
    /\ inbox' = inbox \ {cfd}
    /\ agent' = "handle"
    /\ UNCHANGED <<client, backlog, outbox, held, cfd, served, got, stops>>

\* handle_request looks at the message type only: it executes a request of the past
\* like a new one, and set_unknown_mode_response answers what is no request.
Handle ==
    /\ agent = "handle"
    /\ served' = IF msg = Garbage THEN served ELSE [served EXCEPT ![msg] = @ + 1]
    /\ agent' = "write"
    /\ UNCHANGED <<client, backlog, inbox, outbox, held, cfd, msg, heap, got, stops>>

\* Mutant of WriteMessage: the agent gives up on a client that has gone.
WriteMessageGivesUp ==
    /\ agent = "write"
    /\ outbox' = IF Process(cfd) THEN [outbox EXCEPT ![cfd] = msg] ELSE outbox
    /\ agent' = "close"
    /\ UNCHANGED <<client, backlog, inbox, held, cfd, msg, heap, served, got, stops>>

\* write_message: SIGPIPE is ignored, so that writing to a client that has gone
\* fails for ever and the agent never leaves this state.
WriteMessage ==
    /\ agent = "write" /\ Process(cfd)
    /\ outbox' = [outbox EXCEPT ![cfd] = msg]
    /\ agent' = "close"
    /\ UNCHANGED <<client, backlog, inbox, held, cfd, msg, heap, served, got, stops>>

Close ==
    /\ agent = "close"
    /\ held' = held \ {cfd}
    /\ agent' = "accept"
    /\ UNCHANGED <<client, backlog, inbox, outbox, cfd, msg, heap, served, got, stops>>

\* graceful_termination: the kernel closes every socket of the agent.
Terminate ==
    /\ agent # "down" /\ stops < MaxStops
    /\ agent' = "down"
    /\ held' = {} /\ backlog' = <<>> /\ inbox' = {} /\ heap' = {}
    /\ stops' = stops + 1
    /\ UNCHANGED <<client, outbox, cfd, msg, served, got>>

Start ==
    /\ agent = "down"
    /\ agent' = "accept"
    /\ UNCHANGED <<client, backlog, inbox, outbox, held, cfd, msg, heap, served, got, stops>>

-----------------------------------------------------------------------------
Init ==
    /\ client = [c \in Calls |-> "new"]
    /\ backlog = <<>>
    /\ inbox = {}
    /\ outbox = [c \in Calls |-> NoCall]
    /\ held = {}
    /\ agent = "down"
    /\ cfd = CHOOSE c \in Calls : TRUE
    /\ msg = Garbage
    /\ heap = {}
    /\ served = [c \in Calls |-> 0]
    /\ got = [c \in Calls |-> NoCall]
    /\ stops = 0

SendCmd(c) == Connect(c) \/ ConnectRefused(c) \/ Send(c) \/ Receive(c)
RunAgent == Accept \/ ReadMessage \/ Handle \/ WriteMessage \/ Close

Next ==
    \/ \E c \in Calls : SendCmd(c) \/ Kill(c)
    \/ RunAgent
    \/ Terminate
    \/ Start

Spec == Init /\ [][Next]_vars

\* Every process runs.  Nobody need connect, stop the agent or start it again.
FairSpec ==
    /\ Spec
    /\ WF_vars(RunAgent)
    /\ \A c \in Calls : WF_vars(Send(c)) /\ WF_vars(Receive(c))

-----------------------------------------------------------------------------
(* Properties.                                                             *)

TypeOK ==
    /\ client \in [Calls -> {"new", "writing", "reading", "returned", "dead", "killed",
                         "spinning"}]
    /\ backlog \in Seq(Calls) /\ Len(backlog) <= Backlog + 1
    /\ inbox \subseteq Calls
    /\ outbox \in [Calls -> Responses \cup {NoCall}]
    /\ held \subseteq Calls
    /\ agent \in {"down", "accept", "read", "handle", "write", "close"}
    /\ cfd \in Calls
    /\ msg \in Responses
    /\ heap \subseteq Calls
    /\ served \in [Calls -> Nat]
    /\ got \in [Calls -> Responses \cup {NoCall}]
    /\ stops \in 0..MaxStops

\* A client that returns with a response of the agent has the response to its own
\* request, which was executed, even when the agent was stopped and started in
\* between and whatever its buffers held.
AnsweredMeansServed ==
    \A c \in Calls : got[c] \in Calls => got[c] = c /\ served[c] >= 1

\* A request that the client sent once is executed once, or once again in the place
\* of one that a killed client never wrote; then the agent waits for a client that
\* is gone, so that there is no third time.
RepeatedForKilled ==
    \A c \in Calls : served[c] > 1 =>
        served[c] = 2 /\ \E d \in Calls \ {c} : client[d] = "killed"

\* A client that has connected returns, also when the agent is stopped under it,
\* unless some client is killed while it waits for the agent.
ConnectedCallReturns ==
    \A c \in Calls : Process(c) ~> ~Process(c) \/ \E d \in Calls : client[d] = "killed"
=============================================================================
