---------------------------- MODULE ServiceProofs ----------------------------
(***************************************************************************)
(* The service around the agent's handlers.  AnsweredMeansServed and       *)
(* RepeatedForKilled for any number of clients, any backlog and any number *)
(* of SIGTERMs: an answer is the answer to the client's own request, and a *)
(* request is repeated, once, only in the place of one that was never      *)
(* written.  ThreadHasDevice and AgentOutlivesDetach for any number of     *)
(* connections and any size of a fifo: the thread that prints the counters *)
(* has its device, and a detach ends the agent only for want of a thread.  *)
(***************************************************************************)
EXTENDS Rpc, StatsThread, TLAPS

-----------------------------------------------------------------------------
(* The socket                                                              *)

Unsent(c) == client[c] \in {"new", "writing", "spinning"}
InHand(c) == agent = "handle" /\ msg = c
Waits(c) == client[c] \in {"writing", "reading", "killed"} /\ c \in held /\ outbox[c] = NoCall
Serving == agent \in {"read", "handle", "write"}

\* The request of a client is not written yet, waiting to be read, in the hands of the
\* agent, or executed.  A buffer that was read once is taken for a request again only
\* in the place of that of a killed client, and then it is the last one that the
\* agent reads before its buffers are gone.
Requests ==
    \A c \in Calls :
        /\ served[c] \in 0..2
        /\ Unsent(c) => c \notin inbox \cup heap /\ ~InHand(c) /\ served[c] = 0
        /\ c \in inbox => c \notin heap /\ ~InHand(c) /\ served[c] = 0
        /\ InHand(c) => c \in heap
        /\ InHand(c) /\ served[c] # 0 => served[c] = 1 /\ cfd # c /\ client[cfd] = "killed"
        /\ served[c] = 2 => \E d \in Calls \ {c} : client[d] = "killed"
        /\ served[c] = 2 /\ c \in heap => agent = "write" /\ client[cfd] = "killed"

\* The clients in the backlog differ, and wait for the agent to read what they write;
\* so does the one it serves, which has left the backlog.
Queue ==
    /\ \A i \in 1..Len(backlog) : Waits(backlog[i]) /\ backlog[i] \notin heap
    /\ \A i, j \in 1..Len(backlog) : backlog[i] = backlog[j] => i = j
    /\ Serving \/ agent = "close" => \A i \in 1..Len(backlog) : backlog[i] # cfd
    /\ Serving => Waits(cfd)
    /\ agent = "read" => cfd \notin heap
    /\ agent = "close" => client[cfd] # "new"
    /\ \A c \in Calls : client[c] = "new" => outbox[c] = NoCall

\* The agent holds the request of the client it serves, unless that client was killed;
\* what it writes, it has executed, and what a client finds is the answer to its own
\* request.
OwnAnswer ==
    /\ agent \in {"handle", "write"} /\ msg \in Calls => msg = cfd \/ client[cfd] = "killed"
    /\ agent = "write" /\ msg \in Calls => served[msg] >= 1
    /\ \A c \in Calls :
         /\ outbox[c] \in Calls => outbox[c] = c /\ served[c] >= 1
         /\ got[c] \in Calls => got[c] = c /\ served[c] >= 1

IInv == TypeOK /\ Requests /\ Queue /\ OwnAnswer

LEMMA InitInv == Init => IInv
  <1> SUFFICES ASSUME Init PROVE IInv
      OBVIOUS
  <1> USE RpcAssumption DEF Init, Responses
  <1>1. TypeOK
    <2>1. cfd \in Calls OBVIOUS
    <2>2. backlog \in Seq(Calls) /\ Len(backlog) <= Backlog + 1 OBVIOUS
    <2> QED BY <2>1, <2>2 DEF TypeOK
  <1>2. Requests
      BY DEF Requests, Unsent, InHand
  <1>3. Queue
      BY DEF Queue, Serving
  <1>4. OwnAnswer
      BY DEF OwnAnswer, NoCall
  <1> QED BY <1>1, <1>2, <1>3, <1>4 DEF IInv

\* A step that leaves the agent and the backlog alone keeps the queue, when those who
\* wait go on waiting.
LEMMA KeptQueue ==
  ASSUME TypeOK, Queue, UNCHANGED <<backlog, heap, agent, cfd>>,
         \A d \in Calls : Waits(d) => Waits(d)',
         \A d \in Calls : client'[d] = "new" => client[d] = "new" /\ outbox'[d] = outbox[d]
  PROVE  Queue'
  <1>1. \A i \in 1..Len(backlog) : backlog[i] \in Calls
      BY DEF TypeOK
  <1>2. \A i \in 1..Len(backlog') : Waits(backlog[i])'
      BY <1>1 DEF Queue
  <1>3. Serving' => Waits(cfd)'
      BY DEF Queue, Serving, TypeOK
  <1>4. /\ agent' = "close" => client'[cfd'] # "new"
        /\ \A c \in Calls : client'[c] = "new" => outbox'[c] = NoCall
      BY DEF Queue, TypeOK
  <1> QED BY <1>2, <1>3, <1>4 DEF Queue, Serving

\* A client's call: only Send moves its request, into the inbox.  The agent's socket is
\* open, so that a client of the queue neither returns nor is ended by SIGPIPE.
LEMMA ClientInv ==
  ASSUME IInv, NEW c \in Calls, SendCmd(c) \/ Kill(c)
  PROVE  IInv'
  <1> USE RpcAssumption DEF IInv, Responses
  <1>1. CASE Connect(c)
    <2>1. /\ backlog' \in Seq(Calls) /\ Len(backlog') = Len(backlog) + 1
          /\ Len(backlog') <= Backlog + 1
          /\ \A i \in 1..Len(backlog) : backlog'[i] = backlog[i] /\ backlog[i] \in Calls
          /\ backlog'[Len(backlog')] = c
        BY <1>1 DEF Connect, TypeOK
    <2>2. TypeOK' BY <1>1, <2>1 DEF Connect, TypeOK
    <2>3. Requests' BY <1>1 DEF Connect, TypeOK, Requests, Unsent, InHand
    <2>4. \A d \in Calls : Waits(d) => Waits(d)' /\ d # c
        BY <1>1 DEF Connect, TypeOK, Waits
    <2>5. Waits(c)' /\ c \notin heap'
        BY <1>1 DEF Connect, TypeOK, Queue, Requests, Unsent, Waits
    <2>6. Serving \/ agent = "close" => cfd # c
        BY <1>1, <2>4 DEF Connect, TypeOK, Queue
    <2>7. \A i \in 1..Len(backlog') : i \in 1..Len(backlog) \/ i = Len(backlog')
        BY <2>1 DEF TypeOK
    <2>8. \A i \in 1..Len(backlog') : Waits(backlog[i])' /\ backlog'[i] \notin heap'
      <3>1. \A i \in 1..Len(backlog) : Waits(backlog[i])' /\ backlog'[i] \notin heap'
          BY <1>1, <2>1, <2>4 DEF Connect, Queue
      <3>2. Waits(backlog[Len(backlog)])' /\ backlog'[Len(backlog')] \notin heap'
          BY <2>1, <2>5
      <3> QED BY <2>7, <3>1, <3>2
    <2>9. \A i, j \in 1..Len(backlog') : backlog'[i] = backlog'[j] => i = j
      <3>1. \A i \in 1..Len(backlog) : backlog'[i] # c
          BY <2>1, <2>4 DEF Queue
      <3> QED BY <2>1, <2>7, <3>1 DEF Queue
    <2>10. Queue'
      <3>1. Serving' => Waits(cfd)'
          BY <1>1, <2>4 DEF Connect, Queue, Serving, TypeOK
      <3>2. agent' = "close" => client'[cfd'] # "new"
          BY <1>1 DEF Connect, Queue, TypeOK
      <3>3. \A d \in Calls : client'[d] = "new" => outbox'[d] = NoCall
          BY <1>1 DEF Connect, Queue, TypeOK
      <3>4. agent' = "read" => cfd' \notin heap'
          BY <1>1 DEF Connect, Queue
      <3>5. (Serving \/ agent = "close")' => \A i \in 1..Len(backlog') : backlog'[i] # cfd'
        <4>1. (Serving \/ agent = "close")' => Serving \/ agent = "close"
            BY <1>1 DEF Connect, Serving
        <4>2. Serving \/ agent = "close" => \A i \in 1..Len(backlog) : backlog'[i] # cfd
            BY <2>1 DEF Queue
        <4>3. cfd' = cfd BY <1>1 DEF Connect
        <4> QED BY <2>1, <2>6, <2>7, <4>1, <4>2, <4>3
      <3> QED BY <2>8, <2>9, <3>1, <3>2, <3>3, <3>4, <3>5 DEF Queue
    <2>11. OwnAnswer' BY <1>1 DEF Connect, TypeOK, OwnAnswer
    <2> QED BY <2>2, <2>3, <2>10, <2>11
  <1>2. CASE ConnectRefused(c)
    <2>1. TypeOK' BY <1>2, SMTT(30) DEF ConnectRefused, TypeOK
    <2>2. Requests' BY <1>2, SMTT(30) DEF ConnectRefused, TypeOK, Requests, Unsent, InHand
    <2>3. \A d \in Calls : Waits(d) => Waits(d)'
        BY <1>2 DEF ConnectRefused, TypeOK, Waits
    <2>4. \A d \in Calls : client'[d] = "new" => client[d] = "new" /\ outbox'[d] = outbox[d]
        BY <1>2 DEF ConnectRefused, TypeOK
    <2>5. UNCHANGED <<backlog, heap, agent, cfd>> BY <1>2 DEF ConnectRefused
    <2>6. Queue' BY <2>3, <2>4, <2>5, KeptQueue
    <2>7. OwnAnswer' BY <1>2, SMTT(30) DEF ConnectRefused, TypeOK, Queue, OwnAnswer, Requests
    <2> QED BY <2>1, <2>2, <2>6, <2>7
  <1>3. CASE Send(c)
    <2>1. TypeOK'
      <3>1. CASE c \in held BY <1>3, <3>1 DEF Send, TypeOK
      <3>2. CASE c \notin held BY <1>3, <3>2 DEF Send, TypeOK
      <3> QED BY <3>1, <3>2
    <2>2. Requests' BY <1>3, SMTT(30) DEF Send, TypeOK, Requests, Unsent, InHand
    <2>3. \A d \in Calls : Waits(d) => Waits(d)'
        BY <1>3 DEF Send, TypeOK, Waits
    <2>4. \A d \in Calls : client'[d] = "new" => client[d] = "new" /\ outbox'[d] = outbox[d]
        BY <1>3 DEF Send, TypeOK
    <2>5. UNCHANGED <<backlog, heap, agent, cfd>> BY <1>3 DEF Send
    <2>6. Queue' BY <2>3, <2>4, <2>5, KeptQueue
    <2>7. OwnAnswer' BY <1>3, SMTT(30) DEF Send, TypeOK, Queue, OwnAnswer, Requests
    <2> QED BY <2>1, <2>2, <2>6, <2>7
  <1>4. CASE Receive(c)
    <2>1. TypeOK' BY <1>4, SMTT(30) DEF Receive, TypeOK
    <2>2. Requests' BY <1>4, SMTT(30) DEF Receive, TypeOK, Requests, Unsent, InHand
    <2>3. \A d \in Calls : Waits(d) => Waits(d)'
        BY <1>4 DEF Receive, TypeOK, Waits
    <2>4. \A d \in Calls : client'[d] = "new" => client[d] = "new" /\ outbox'[d] = outbox[d]
        BY <1>4 DEF Receive, TypeOK
    <2>5. UNCHANGED <<backlog, heap, agent, cfd>> BY <1>4 DEF Receive
    <2>6. Queue' BY <2>3, <2>4, <2>5, KeptQueue
    <2>7. OwnAnswer' BY <1>4, SMTT(30) DEF Receive, TypeOK, Queue, OwnAnswer, Requests
    <2> QED BY <2>1, <2>2, <2>6, <2>7
  <1>5. CASE Kill(c)
    <2>1. TypeOK' BY <1>5, SMTT(30) DEF Kill, TypeOK
    <2>2. Requests' BY <1>5, SMTT(30) DEF Kill, TypeOK, Requests, Unsent, InHand
    <2>3. \A d \in Calls : Waits(d) => Waits(d)'
        BY <1>5 DEF Kill, TypeOK, Waits
    <2>4. \A d \in Calls : client'[d] = "new" => client[d] = "new" /\ outbox'[d] = outbox[d]
        BY <1>5 DEF Kill, TypeOK
    <2>5. UNCHANGED <<backlog, heap, agent, cfd>> BY <1>5 DEF Kill
    <2>6. Queue' BY <2>3, <2>4, <2>5, KeptQueue
    <2>7. OwnAnswer' BY <1>5, SMTT(30) DEF Kill, TypeOK, Queue, OwnAnswer, Requests
    <2> QED BY <2>1, <2>2, <2>6, <2>7
  <1> QED BY <1>1, <1>2, <1>3, <1>4, <1>5 DEF SendCmd

\* A step of run_agent: ReadMessage takes the request out of the inbox, Handle
\* executes it, and only then is it answered.
LEMMA AgentInv ==
  ASSUME IInv, RunAgent
  PROVE  IInv'
  <1> USE RpcAssumption DEF IInv, Responses
  <1>1. CASE Accept
    <2>1. /\ cfd' = backlog[1] /\ 1 \in 1..Len(backlog) /\ cfd' \in Calls
          /\ backlog' \in Seq(Calls) /\ Len(backlog') = Len(backlog) - 1
          /\ \A i \in 1..Len(backlog') :
                i + 1 \in 1..Len(backlog) /\ i + 1 # 1 /\ backlog'[i] = backlog[i + 1]
        BY <1>1 DEF Accept, TypeOK
    <2>2. TypeOK' BY <1>1, <2>1 DEF Accept, TypeOK
    <2>3. Requests' BY <1>1 DEF Accept, TypeOK, Requests, Unsent, InHand
    <2>4. \A d \in Calls : Waits(d)' <=> Waits(d) BY <1>1 DEF Accept, Waits
    <2>5. Waits(cfd)' /\ cfd' \notin heap' BY <1>1, <2>1, <2>4 DEF Accept, Queue
    <2>6. \A i \in 1..Len(backlog') : backlog'[i] # cfd' BY <2>1 DEF Queue
    <2>7. ASSUME NEW i \in 1..Len(backlog'), NEW j \in 1..Len(backlog'),
                 backlog'[i] = backlog'[j]
          PROVE  i = j
      <3>1. i + 1 = j + 1 BY <2>1, <2>7 DEF Queue
      <3> QED BY <3>1
    <2>8. \A i \in 1..Len(backlog') : Waits(backlog[i])' /\ backlog'[i] \notin heap'
        BY <1>1, <2>1, <2>4 DEF Accept, Queue, TypeOK
    <2>9. Queue' BY <1>1, <2>5, <2>6, <2>7, <2>8 DEF Accept, Queue
    <2>10. OwnAnswer' BY <1>1 DEF Accept, OwnAnswer
    <2> QED BY <2>2, <2>3, <2>9, <2>10
  <1>2. CASE ReadMessage
    <2>1. TypeOK' BY <1>2, SMTT(30) DEF ReadMessage, TypeOK
    <2>2. Waits(cfd) /\ Serving' /\ cfd \notin heap /\ cfd' = cfd /\ agent = "read"
        BY <1>2 DEF ReadMessage, Queue, Serving
    <2>3. \A d \in Calls : Waits(d)' <=> Waits(d) BY <1>2 DEF ReadMessage, Waits
    <2>4. \A i \in 1..Len(backlog) : backlog[i] \in Calls /\ backlog[i] # cfd
        BY <2>2 DEF TypeOK, Queue, Serving
    <2>5. \A i \in 1..Len(backlog) : Waits(backlog[i])' /\ backlog[i] \notin heap'
        BY <1>2, <2>3, <2>4 DEF ReadMessage, Queue
    <2>6. Queue' BY <1>2, <2>2, <2>3, <2>4, <2>5 DEF ReadMessage, Queue, TypeOK
    <2>7. CASE cfd \in inbox
      <3>1. msg' = cfd /\ heap' = heap \cup {cfd} /\ inbox' = inbox \ {cfd}
          BY <1>2, <2>7 DEF ReadMessage
      <3>2. \A c \in Calls : ~(served[c] = 2 /\ c \in heap')
          BY <2>2, <2>7, <3>1 DEF Requests, TypeOK
      <3>3. Requests' BY <1>2, <2>2, <2>7, <3>1, <3>2 DEF ReadMessage, Requests, Unsent, InHand, TypeOK
      <3>4. OwnAnswer' BY <1>2, <3>1 DEF ReadMessage, OwnAnswer
      <3> QED BY <2>1, <2>6, <3>3, <3>4
    <2>8. CASE cfd \notin inbox
      <3>1. /\ msg' \in {Garbage} \cup heap /\ heap' = heap /\ inbox' = inbox
            /\ client[cfd] = "killed"
          BY <1>2, <2>2, <2>8 DEF ReadMessage, Process, Waits
      <3>2. \A c \in Calls : c \in heap => served[c] \in {0, 1} /\ c # cfd
          BY <2>2 DEF Requests
      <3>3. Requests' BY <1>2, <3>1, <3>2, SMTT(30) DEF ReadMessage, Requests, Unsent, InHand, TypeOK
      <3>4. OwnAnswer' BY <1>2, <3>1 DEF ReadMessage, OwnAnswer
      <3> QED BY <2>1, <2>6, <3>3, <3>4
    <2> QED BY <2>7, <2>8
  <1>3. CASE Handle
    <2>1. \A d \in Calls : Waits(d)' <=> Waits(d) BY <1>3 DEF Handle, Waits
    <2>2. Queue' BY <1>3, <2>1 DEF Handle, Queue, Serving, TypeOK
    <2>3. CASE msg = Garbage
      <3>1. UNCHANGED served BY <1>3, <2>3 DEF Handle
      <3>2. TypeOK' BY <1>3, <3>1 DEF Handle, TypeOK
      <3>3. Requests' BY <1>3, <3>1 DEF Handle, Requests, Unsent, InHand
      <3>4. OwnAnswer' BY <1>3, <2>3, <3>1 DEF Handle, OwnAnswer
      <3> QED BY <2>2, <3>2, <3>3, <3>4
    <2>4. CASE msg # Garbage
      <3>1. /\ msg \in Calls /\ msg \in heap /\ served[msg] \in {0, 1}
            /\ served[msg] = 1 => cfd # msg /\ client[cfd] = "killed"
          BY <1>3, <2>4 DEF Handle, TypeOK, Requests, InHand
      <3>2. served' = [served EXCEPT ![msg] = @ + 1] /\ served[msg] + 1 \in Nat
          BY <1>3, <2>4, <3>1 DEF Handle
      <3>3. TypeOK' BY <1>3, <3>1, <3>2 DEF Handle, TypeOK
      <3>4. Requests'
          BY <1>3, <3>1, <3>2, SMTT(30) DEF Handle, TypeOK, Requests, Unsent, InHand
      <3>5. OwnAnswer' BY <1>3, <3>1, <3>2 DEF Handle, TypeOK, OwnAnswer
      <3> QED BY <2>2, <3>3, <3>4, <3>5
    <2> QED BY <2>3, <2>4
  <1>4. CASE WriteMessage
    <2>1. TypeOK' BY <1>4 DEF WriteMessage, TypeOK
    <2>2. Requests' BY <1>4 DEF WriteMessage, Requests, Unsent, InHand, Process
    <2>3. \A d \in Calls : d # cfd => (Waits(d)' <=> Waits(d))
        BY <1>4 DEF WriteMessage, Waits, TypeOK
    <2>4. Queue'
        BY <1>4, <2>3 DEF WriteMessage, Queue, Serving, Process, TypeOK
    <2>5. OwnAnswer' BY <1>4 DEF WriteMessage, TypeOK, OwnAnswer, Process
    <2> QED BY <2>1, <2>2, <2>4, <2>5
  <1>5. CASE Close
    <2>1. TypeOK' BY <1>5 DEF Close, TypeOK
    <2>2. Requests' BY <1>5 DEF Close, Requests, Unsent, InHand
    <2>3. \A d \in Calls : d # cfd => (Waits(d)' <=> Waits(d))
        BY <1>5 DEF Close, Waits, TypeOK
    <2>4. Queue' BY <1>5, <2>3 DEF Close, Queue, Serving, TypeOK
    <2>5. OwnAnswer' BY <1>5 DEF Close, OwnAnswer
    <2> QED BY <2>1, <2>2, <2>4, <2>5
  <1> QED BY <1>1, <1>2, <1>3, <1>4, <1>5 DEF RunAgent

\* Stopping the agent loses requests, and starting it brings none back.
LEMMA StopInv ==
  ASSUME IInv, Terminate \/ Start
  PROVE  IInv'
  <1> USE RpcAssumption DEF IInv
  <1>1. CASE Terminate
    <2>1. backlog' \in Seq(Calls) /\ Len(backlog') = 0
        BY <1>1 DEF Terminate
    <2>2. TypeOK' BY <1>1, <2>1 DEF Terminate, TypeOK
    <2>3. Requests' BY <1>1 DEF Terminate, Requests, Unsent, InHand
    <2>4. Queue' BY <1>1, <2>1 DEF Terminate, Queue, Serving
    <2>5. OwnAnswer' BY <1>1 DEF Terminate, OwnAnswer
    <2> QED BY <2>2, <2>3, <2>4, <2>5
  <1>2. CASE Start
    <2>1. TypeOK' BY <1>2 DEF Start, TypeOK
    <2>2. Requests' BY <1>2 DEF Start, Requests, Unsent, InHand
    <2>3. Queue' BY <1>2 DEF Start, Queue, Serving, Waits
    <2>4. OwnAnswer' BY <1>2 DEF Start, OwnAnswer
    <2> QED BY <2>1, <2>2, <2>3, <2>4
  <1> QED BY <1>1, <1>2

LEMMA SpecInv == Spec => []IInv
  <1>1. IInv /\ [Next]_vars => IInv'
    <2> SUFFICES ASSUME IInv, [Next]_vars PROVE IInv'
        OBVIOUS
    <2>1. CASE \E c \in Calls : SendCmd(c) \/ Kill(c)
        BY <2>1, ClientInv
    <2>2. CASE RunAgent
        BY <2>2, AgentInv
    <2>3. CASE Terminate \/ Start
        BY <2>3, StopInv
    <2>4. CASE UNCHANGED vars
      <3>1. TypeOK' BY <2>4 DEF IInv, TypeOK, vars
      <3>2. Requests' BY <2>4 DEF IInv, Requests, Unsent, InHand, vars
      <3>3. Queue' BY <2>4 DEF IInv, Queue, Serving, Waits, vars
      <3>4. OwnAnswer' BY <2>4 DEF IInv, OwnAnswer, vars
      <3> QED BY <3>1, <3>2, <3>3, <3>4 DEF IInv
    <2> QED BY <2>1, <2>2, <2>3, <2>4 DEF Next
  <1> QED BY InitInv, <1>1, PTL DEF Spec

\* A client that returns with a response of the agent has the response to its own
\* request, which was executed, whatever clients are killed, however often the agent
\* is stopped and started, and whatever request of the past its buffers hold.
THEOREM OwnRequestAnswered == Spec => []AnsweredMeansServed
  <1>1. IInv => AnsweredMeansServed
      BY DEF IInv, OwnAnswer, AnsweredMeansServed
  <1> QED BY <1>1, SpecInv, PTL

\* A request is executed at most twice, and the second time only when another client
\* was killed before it wrote its own: read_message then returns a buffer that may
\* hold the request of the past.
THEOREM RepeatedAtMostOnce == Spec => []RepeatedForKilled
  <1>1. IInv => RepeatedForKilled
      BY DEF IInv, Requests, RepeatedForKilled
  <1> QED BY <1>1, SpecInv, PTL

\* Every reachable state of clients, socket and agent is well typed; in particular
\* the queue of connections that wait for accept never exceeds the backlog.
THEOREM RpcTypeCorrect == Spec => []TypeOK
  <1>1. IInv => TypeOK
      BY DEF IInv
  <1> QED BY <1>1, SpecInv, PTL

-----------------------------------------------------------------------------
(* The traffic counters                                                    *)

\* ThreadHasDevice is not inductive: it has to be known that the thread of a
\* connection runs only between its attach and the end of the join in its detach,
\* that the AFU is open all that time, and that the id in the connection names that
\* thread: then the join of a detach that names another thread frees another AFU.
DeviceHeld ==
    \A k \in Conns :
        /\ Running(k) => /\ tid[k] = k /\ k \notin joined
                         /\ k \in afu /\ conn[k] \in {"attached", "joining"}
        /\ conn[k] = "none" => thread[k] = "none" /\ k \notin joined
        /\ conn[k] = "joining" => tid[k] = Unwritten \/ Valid(tid[k])
        /\ \A j \in Conns : conn[k] = "joining" /\ conn[j] = "joining" => j = k

\* Some thread has ended by itself or could not be created.
Trouble == \E k \in Conns : thread[k] \in {"exited", "failed"}

\* Short of that, a connection with a thread that nobody has cancelled has a running
\* one, which pthread_cancel finds, and so does pthread_join.
Detachable ==
    /\ ended => Trouble
    /\ \A k \in Conns :
         \/ Trouble
         \/ /\ k \in cancelled => conn[k] \in {"joining", "freed"}
            /\ conn[k] = "attached" /\ tid[k] # NoConn => tid[k] = k /\ Running(k)
            /\ conn[k] = "joining" => tid[k] = k /\ Valid(k)

StatsInv == StatsTypeOK /\ DeviceHeld /\ Detachable

\* Nothing of a connection is acquired before its attach.
LEMMA StatsStart ==
  ASSUME StatsInit
  PROVE  StatsInv
  <1>1. StatsTypeOK
    <2>1. 0 \in 0..PipeSize BY StatsAssumption
    <2> QED BY <2>1, StatsAssumption DEF StatsInit, StatsTypeOK
  <1>2. DeviceHeld
      BY DEF StatsInit, DeviceHeld, Running, Valid
  <1>3. Detachable
      BY DEF StatsInit, Detachable
  <1> QED BY <1>1, <1>2, <1>3 DEF StatsInv

\* The end of the agent keeps the invariant: the threads end with it.
LEMMA ExitHolds ==
  ASSUME StatsInv, AgentExits, UNCHANGED <<cancelled, path, fifo, reader, lines>>, Trouble
  PROVE  StatsInv'
  <1> USE DEF StatsInv, AgentExits
  <1>1. StatsTypeOK' BY DEF StatsTypeOK, Running
  <1>2. DeviceHeld' BY DEF StatsTypeOK, DeviceHeld, Running, Valid
  <1>3. Trouble' BY DEF StatsTypeOK, Trouble, Running
  <1>4. Detachable' BY <1>3 DEF Detachable
  <1> QED BY <1>1, <1>2, <1>4

\* An attach, a detach and the end of a join keep the invariant: the AFU is closed
\* only when the thread has ended.
LEMMA ServiceHolds ==
  ASSUME StatsInv, NEW k \in Conns, Agent(k)
  PROVE  StatsInv'
  <1> USE StatsAssumption DEF StatsInv
  <1>1. CASE StartStatsThread(k)
    <2> USE <1>1 DEF StartStatsThread, MakeFifo, MakeNoFifo
    <2>1. StatsTypeOK' BY SMTT(30) DEF StatsTypeOK
    <2>2. DeviceHeld' BY SMTT(30) DEF StatsTypeOK, DeviceHeld, Running, Valid
    <2>3. Trouble => Trouble' BY DEF StatsTypeOK, Trouble, DeviceHeld
    <2>4. ~Trouble' => Detachable'
        BY <2>3, SMTT(30) DEF StatsTypeOK, Detachable, Trouble, Idle, Running, Valid
    <2>5. Trouble' => Detachable' BY DEF Detachable
    <2> QED BY <2>1, <2>2, <2>4, <2>5
  <1>2. CASE StopStatsThread(k) /\ tid[k] = NoConn
    <2> USE <1>2 DEF StopStatsThread, FreeConn
    <2>1. StatsTypeOK' BY DEF StatsTypeOK
    <2>2. DeviceHeld' BY DEF StatsTypeOK, DeviceHeld, Running, Valid
    <2>3. Detachable' BY DEF StatsTypeOK, Detachable, Trouble, Running, Valid
    <2> QED BY <2>1, <2>2, <2>3
  <1>3. CASE StopStatsThread(k) /\ tid[k] # NoConn
    <2>1. PICK t \in Named(k) :
            \/ /\ conn' = [conn EXCEPT ![k] = "joining"]
               /\ tid' = [tid EXCEPT ![k] = t]
               /\ cancelled' = cancelled \cup ({t} \cap Conns)
               /\ UNCHANGED <<thread, afu, joined, ended>>
            \/ /\ Valid(t) => ~Running(t)
               /\ AgentExits
               /\ UNCHANGED cancelled
        BY <1>3 DEF StopStatsThread
    <2>2. /\ t \in Conns \cup {NoConn, Unwritten} /\ conn[k] = "attached"
          /\ t = Unwritten \/ Valid(t)
          /\ \A j \in Conns : conn[j] # "joining"
          /\ UNCHANGED <<path, fifo, reader, lines>>
        BY <1>3, <2>1 DEF StopStatsThread, Idle, Named, StatsTypeOK
    <2>3. Running(k) => t = k /\ Valid(k)
        BY <2>1 DEF DeviceHeld, Running, Valid, Named, Valid
    <2>4. ~Trouble => t = k /\ tid[k] = k /\ Running(k) /\ Valid(k)
        BY <1>3, <2>2, <2>3 DEF Detachable
    <2>5. CASE AgentExits /\ UNCHANGED cancelled /\ (Valid(t) => ~Running(t))
        BY <2>2, <2>4, <2>5, ExitHolds
    <2>6. CASE /\ conn' = [conn EXCEPT ![k] = "joining"]
               /\ tid' = [tid EXCEPT ![k] = t]
               /\ cancelled' = cancelled \cup ({t} \cap Conns)
               /\ UNCHANGED <<thread, afu, joined, ended>>
      <3>1. StatsTypeOK' BY <2>2, <2>6 DEF StatsTypeOK
      <3>2. DeviceHeld' BY <2>2, <2>3, <2>6 DEF StatsTypeOK, DeviceHeld, Running, Valid
      <3>3. Trouble' <=> Trouble BY <2>6 DEF Trouble
      <3>4. Detachable'
          BY <2>2, <2>4, <2>6, <3>3, SMTT(30) DEF StatsTypeOK, Detachable, Running, Valid
      <3> QED BY <3>1, <3>2, <3>4
    <2> QED BY <2>1, <2>5, <2>6
  <1>4. CASE Join(k)
    <2>1. ~Trouble => Valid(tid[k]) BY <1>4 DEF Join, Detachable
    <2>2. CASE ~Valid(tid[k]) /\ AgentExits
      <3>1. UNCHANGED <<cancelled, path, fifo, reader, lines>> BY <1>4 DEF Join
      <3> QED BY <2>1, <2>2, <3>1, ExitHolds
    <2>3. CASE /\ Valid(tid[k]) => ~Running(tid[k])
               /\ FreeConn(k)
               /\ joined' = joined \cup ({tid[k]} \cap Conns)
               /\ UNCHANGED tid
      <3>1. UNCHANGED <<cancelled, path, fifo, reader, lines>> /\ conn[k] = "joining"
          BY <1>4 DEF Join
      <3>2. StatsTypeOK' BY <2>3, <3>1 DEF FreeConn, StatsTypeOK
      <3>3. \A j \in Conns : Running(j) => j # tid[k] /\ j # k
          BY <2>3 DEF DeviceHeld, Running, Valid
      <3>4. \A j \in Conns : conn[j] = "none" => j # k BY <3>1
      <3>5. \A j \in Conns : conn[j] = "none" => j # tid[k]
          BY <3>1 DEF Valid, DeviceHeld
      <3>6. Trouble' <=> Trouble BY <2>3 DEF FreeConn, Trouble
      <3>7. DeviceHeld'
          BY <2>3, <3>1, <3>3, <3>4, <3>5, StatsAssumption DEF FreeConn, StatsTypeOK, DeviceHeld, Running, Valid
      <3>8. Detachable'
          BY <2>1, <2>3, <3>1, <3>6, SMTT(30)
          DEF FreeConn, StatsTypeOK, Detachable, Idle, Running, Valid
      <3> QED BY <3>2, <3>7, <3>8
    <2> QED BY <1>4, <2>2, <2>3 DEF Join
  <1> QED BY <1>1, <1>2, <1>3, <1>4 DEF Agent

\* A thread that runs never starts another one, leaves the connections and the AFUs
\* alone, and ends by itself or because it was cancelled.
LEMMA ThreadMoves ==
  ASSUME StatsInv, NEW k \in Conns, Running(k), UNCHANGED <<agentVars, cancelled>>,
         NEW s \in {"opening", "reading", "printing", "sleeping", "exited", "cancelled"},
         thread' = [thread EXCEPT ![k] = s],
         s = "cancelled" => k \in cancelled
  PROVE  DeviceHeld' /\ Detachable'
  <1> USE DEF StatsInv, StatsTypeOK, agentVars
  <1>1. \A j \in Conns : (Running(j)' => Running(j)) /\ (Valid(j)' <=> Valid(j))
      BY DEF Running, Valid
  <1>2. \A j \in Conns : j # k => (Running(j)' <=> Running(j))
      BY DEF Running
  <1>3. \A t \in Conns \cup {NoConn, Unwritten} : Valid(t)' <=> Valid(t)
      BY <1>1 DEF Valid
  <1>4. DeviceHeld'
    <2>1. \A j \in Conns : conn[j] = "none" => thread'[j] = "none"
        BY DEF DeviceHeld, Running
    <2> QED BY <1>1, <1>3, <2>1 DEF DeviceHeld
  <1>5. Trouble => Trouble'
      BY DEF Trouble, Running
  <1>6. s = "exited" => Trouble'
      BY DEF Trouble
  <1>7. s \notin {"exited", "cancelled"} => Running(k)'
      BY DEF Running
  <1>8. Detachable'
      BY <1>1, <1>2, <1>5, <1>6, <1>7 DEF Detachable
  <1> QED BY <1>4, <1>8

\* A step of a thread.
LEMMA ThreadHolds ==
  ASSUME StatsInv, NEW k \in Conns, Thread(k)
  PROVE  StatsInv'
  <1> USE DEF StatsInv, StatsTypeOK, Moves
  <1>1. CASE Resolve(k)
    <2>1. StatsTypeOK' BY <1>1 DEF Resolve, agentVars
    <2>2. Running(k) BY <1>1 DEF Resolve, Running
    <2>3. DeviceHeld' /\ Detachable' BY <1>1, <2>2, ThreadMoves DEF Resolve
    <2> QED BY <2>1, <2>3
  <1>2. CASE Open(k)
    <2>1. StatsTypeOK' BY <1>2 DEF Open, agentVars
    <2>2. Running(k) BY <1>2 DEF Open, Running
    <2>3. DeviceHeld' /\ Detachable' BY <1>2, <2>2, ThreadMoves DEF Open
    <2> QED BY <2>1, <2>3
  <1>3. CASE ReadRegisters(k)
    <2>1. StatsTypeOK' BY <1>3 DEF ReadRegisters, agentVars
    <2>2. Running(k) BY <1>3 DEF ReadRegisters, Running
    <2>3. DeviceHeld' /\ Detachable' BY <1>3, <2>2, ThreadMoves DEF ReadRegisters
    <2> QED BY <2>1, <2>3
  <1>4. CASE PrintLine(k)
    <2>1. lines' \in [Conns -> 0..PipeSize]
      <3>1. CASE fifo[k] \in reader
        <4>1. lines[fifo[k]] + 1 \in 0..PipeSize
            BY <1>4, <3>1, StatsAssumption DEF PrintLine
        <4> QED BY <1>4, <3>1, <4>1 DEF PrintLine
      <3>2. CASE fifo[k] \notin reader
          BY <1>4, <3>2 DEF PrintLine
      <3> QED BY <3>1, <3>2
    <2>2. StatsTypeOK' BY <1>4, <2>1 DEF PrintLine, agentVars
    <2>3. Running(k) BY <1>4 DEF PrintLine, Running
    <2>4. DeviceHeld' /\ Detachable' BY <1>4, <2>3, ThreadMoves DEF PrintLine
    <2> QED BY <2>2, <2>4
  <1>5. CASE Wake(k)
    <2>1. StatsTypeOK' BY <1>5 DEF Wake, agentVars
    <2>2. Running(k) BY <1>5 DEF Wake, Running
    <2>3. DeviceHeld' /\ Detachable' BY <1>5, <2>2, ThreadMoves DEF Wake
    <2> QED BY <2>1, <2>3
  <1>6. CASE Cancel(k)
    <2> PICK s \in {"started", "opening", "sleeping"} :
            /\ thread[k] = s
            /\ thread' = [thread EXCEPT ![k] = "cancelled"]
        BY <1>6 DEF Cancel
    <2>1. StatsTypeOK' BY <1>6 DEF Cancel, agentVars
    <2>2. Running(k) BY DEF Running
    <2>3. DeviceHeld' /\ Detachable' BY <1>6, <2>2, ThreadMoves DEF Cancel
    <2> QED BY <2>1, <2>3
  <1> QED BY <1>1, <1>2, <1>3, <1>4, <1>5, <1>6 DEF Thread

\* Readers of the fifo touch only the fifo.
LEMMA ReaderHolds ==
  ASSUME StatsInv, OpenFifo \/ \E k \in Conns : Reader(k)
  PROVE  StatsInv'
  <1>1. UNCHANGED <<agentVars, thread, cancelled, path, fifo>>
      BY DEF OpenFifo, Reader, ReadLine, CloseFifo
  <1>2. DeviceHeld' /\ Detachable'
      BY <1>1 DEF agentVars, StatsInv, DeviceHeld, Detachable, Trouble, Running, Valid
  <1>3. reader' \subseteq Conns /\ lines' \in [Conns -> 0..PipeSize]
    <2> USE DEF StatsInv, StatsTypeOK
    <2>1. CASE OpenFifo
        BY <2>1 DEF OpenFifo
    <2>2. ASSUME NEW k \in Conns, ReadLine(k)
         PROVE  reader' \subseteq Conns /\ lines' \in [Conns -> 0..PipeSize]
      <3>1. lines[k] - 1 \in 0..PipeSize BY <2>2, StatsAssumption DEF ReadLine
      <3> QED BY <2>2, <3>1 DEF ReadLine
    <2>3. ASSUME NEW k \in Conns, CloseFifo(k)
         PROVE  reader' \subseteq Conns /\ lines' \in [Conns -> 0..PipeSize]
        BY <2>3, StatsAssumption DEF CloseFifo
    <2> QED BY <2>1, <2>2, <2>3 DEF Reader
  <1>4. StatsTypeOK'
      BY <1>1, <1>3 DEF agentVars, StatsInv, StatsTypeOK
  <1> QED BY <1>2, <1>4 DEF StatsInv

\* The invariant holds in every reachable state.
LEMMA StatsHolds == StatsSpec => []StatsInv
  <1>1. StatsInv /\ [StatsNext]_statsVars => StatsInv'
    <2> SUFFICES ASSUME StatsInv, [StatsNext]_statsVars PROVE StatsInv'
        OBVIOUS
    <2>1. CASE \E k \in Conns : Agent(k)
        BY <2>1, ServiceHolds
    <2>2. CASE \E k \in Conns : Thread(k)
        BY <2>2, ThreadHolds
    <2>3. CASE OpenFifo \/ \E k \in Conns : Reader(k)
        BY <2>3, ReaderHolds
    <2>4. CASE UNCHANGED statsVars
        BY <2>4 DEF StatsInv, StatsTypeOK, DeviceHeld, Detachable, Trouble, Running, Valid,
                    statsVars
    <2> QED BY <2>1, <2>2, <2>3, <2>4 DEF StatsNext
  <1>2. StatsInit => StatsInv
      BY StatsStart
  <1> QED BY <1>1, <1>2, PTL DEF StatsSpec

\* A thread that runs has its device: del_conn joins the thread before free_conn
\* closes the AFU whose registers _stats_thread reads.
THEOREM ThreadKeepsDevice == StatsSpec => []ThreadHasDevice
  <1>1. StatsInv => ThreadHasDevice
      BY DEF StatsInv, DeviceHeld, ThreadHasDevice
  <1> QED BY <1>1, StatsHolds, PTL

\* A detach ends the agent only after a thread has ended by itself or could not be
\* created, whatever thread the id of a connection names.
THEOREM AgentOutlives == StatsSpec => []AgentOutlivesDetach
  <1>1. StatsInv => AgentOutlivesDetach
      BY DEF StatsInv, Detachable, Trouble, AgentOutlivesDetach
  <1> QED BY <1>1, StatsHolds, PTL

\* Every reachable state of the connections, threads and fifos is well typed; in
\* particular a fifo never holds more lines than fit.
THEOREM StatsTypeCorrect == StatsSpec => []StatsTypeOK
  <1>1. StatsInv => StatsTypeOK
      BY DEF StatsInv
  <1> QED BY <1>1, StatsHolds, PTL
=============================================================================
