----------------------------- MODULE StatsThread ----------------------------
(***************************************************************************)
(* Traffic counters of a compute-side connection.  attach_compute makes a  *)
(* fifo at a fixed path, in place of the one of the attach before it, and  *)
(* starts a thread that opens it, then prints a line from three device     *)
(* registers every second.  del_conn cancels the thread and joins it       *)
(* before it closes the AFU; it runs in the only thread that serves        *)
(* requests.                                                               *)
(*                                                                         *)
(* The thread turns cancellation off while it reads the registers and      *)
(* prints, so a cancellation waits until it sleeps.  It is also cancelled  *)
(* in open, which waits for a reader of the fifo.                          *)
(*                                                                         *)
(* When pthread_create fails the attach goes on with an id that nobody     *)
(* wrote, which del_conn cancels and joins like any other.  An error of    *)
(* either call ends the agent.  So does, with a C library that reports it, *)
(* the cancellation of a thread that has ended by itself.                  *)
(***************************************************************************)
EXTENDS Naturals, FiniteSets

CONSTANTS
    Conns,      \* the compute-side connections, each attached and detached once
    PipeSize,   \* lines that fit into a fifo
    MmioFails,  \* reading a register of the device may fail
    CreateFails \* pthread_create may fail

\* No fifo: the path does not exist, or the thread failed to open it.  As an id: NULL.
NoConn == "none"
Unwritten == "unwritten"    \* an id that names no thread

ASSUME StatsAssumption ==
    /\ NoConn \notin Conns /\ Unwritten \notin Conns
    /\ PipeSize \in Nat \ {0}
    /\ {MmioFails, CreateFails} \subseteq BOOLEAN

VARIABLES
    conn,       \* connection: "none", "attached", "joining" or "freed"
    thread,     \* where its stats thread is
    cancelled,  \* connections whose thread has a pending cancellation
    path,       \* the connection whose fifo THYMESISCOUNT_PATH names, or NoConn
    fifo,       \* fifo[k]: the fifo that the thread of k opens or has open
    reader,     \* connections whose fifo a reader has open
    lines,      \* lines[k]: lines in the fifo that nobody has read
    afu,        \* connections whose AFU is open
    tid,        \* tid[k]: the connection whose thread the id in connection k names
    joined,     \* connections whose thread has been joined: its id is no longer one
    ended       \* the agent has ended

statsVars == <<conn, thread, cancelled, path, fifo, reader, lines, afu, tid, joined, ended>>
agentVars == <<conn, afu, tid, joined, ended>>

\* The thread has started and not ended.
Running(k) == thread[k] \in {"started", "opening", "reading", "printing", "sleeping"}

\* The agent runs and serves no request.
Idle == ~ended /\ \A k \in Conns : conn[k] # "joining"

\* t is the id of a thread.
Valid(t) == t \in Conns /\ thread[t] \notin {"none", "failed"} /\ t \notin joined

\* What the id in connection k may name: an id that was never written, or that is no
\* longer one, may be that of any thread.
Named(k) == IF Valid(tid[k]) THEN {tid[k]} ELSE {Unwritten} \cup {t \in Conns : Valid(t)}

-----------------------------------------------------------------------------
(* The agent's thread.                                                     *)

\* start_stats_thread, at the end of setup_afu_compute: unlink and mkfifo, either
\* of which may fail; then there is no thread, and NULL for its id.
MakeNoFifo(k) ==
    /\ path' \in {path, NoConn}
    /\ tid' = [tid EXCEPT ![k] = NoConn]
    /\ UNCHANGED thread

\* There is a fifo; tf_init_stats_thread, whose result nobody looks at, starts the
\* thread.
MakeFifo(k) ==
    /\ path' = k
    /\ \/ /\ thread' = [thread EXCEPT ![k] = "started"]
          /\ tid' = [tid EXCEPT ![k] = k]
       \/ /\ CreateFails
          /\ thread' = [thread EXCEPT ![k] = "failed"]
          /\ tid' = [tid EXCEPT ![k] = Unwritten]

\* Mutant of StartStatsThread: without a fifo the id is left unwritten.
StartUnwritten(k) ==
    /\ Idle /\ conn[k] = "none"
    /\ conn' = [conn EXCEPT ![k] = "attached"]
    /\ afu' = afu \cup {k}
    /\ \/ MakeFifo(k)
       \/ /\ path' \in {path, NoConn}
          /\ tid' = [tid EXCEPT ![k] = Unwritten]
          /\ UNCHANGED thread
    /\ UNCHANGED <<cancelled, fifo, reader, lines, joined, ended>>

StartStatsThread(k) ==
    /\ Idle /\ conn[k] = "none"
    /\ conn' = [conn EXCEPT ![k] = "attached"]
    /\ afu' = afu \cup {k}
    /\ MakeFifo(k) \/ MakeNoFifo(k)
    /\ UNCHANGED <<cancelled, fifo, reader, lines, joined, ended>>

\* free_conn closes the AFU.
FreeConn(k) ==
    /\ conn' = [conn EXCEPT ![k] = "freed"]
    /\ afu' = afu \ {k}
    /\ UNCHANGED <<thread, ended>>

\* exit(EXIT_FAILURE), or the crash of a call with an id that is none.
AgentExits ==
    /\ ended' = TRUE
    /\ thread' = [k \in Conns |-> IF Running(k) THEN "killed" ELSE thread[k]]
    /\ afu' = {}
    /\ UNCHANGED <<conn, tid, joined>>

\* Mutant of StopStatsThread: the thread is cancelled but not joined.
StopWithoutJoin(k) ==
    /\ Idle /\ conn[k] = "attached"
    /\ FreeConn(k)
    /\ cancelled' = cancelled \cup ({tid[k]} \cap Conns)
    /\ UNCHANGED <<path, fifo, reader, lines, tid, joined>>

\* del_conn: without a thread the connection is freed at once.  Else stop_stats_thread
\* cancels the thread; pthread_cancel fails, if at all, for a thread that has ended.
StopStatsThread(k) ==
    /\ Idle /\ conn[k] = "attached"
    /\ \/ /\ tid[k] = NoConn
          /\ FreeConn(k)
          /\ UNCHANGED <<cancelled, tid, joined>>
       \/ /\ tid[k] # NoConn
          /\ \E t \in Named(k) :
               \/ /\ conn' = [conn EXCEPT ![k] = "joining"]
                  /\ tid' = [tid EXCEPT ![k] = t]
                  /\ cancelled' = cancelled \cup ({t} \cap Conns)
                  /\ UNCHANGED <<thread, afu, joined, ended>>
               \/ /\ Valid(t) => ~Running(t)
                  /\ AgentExits
                  /\ UNCHANGED cancelled
    /\ UNCHANGED <<path, fifo, reader, lines>>

\* pthread_join returns when the thread has ended.  With an id that is none it returns
\* or fails.
Join(k) ==
    /\ ~ended /\ conn[k] = "joining"
    /\ \/ /\ Valid(tid[k]) => ~Running(tid[k])
          /\ FreeConn(k)
          /\ joined' = joined \cup ({tid[k]} \cap Conns)
          /\ UNCHANGED tid
       \/ ~Valid(tid[k]) /\ AgentExits
    /\ UNCHANGED <<cancelled, path, fifo, reader, lines>>

-----------------------------------------------------------------------------
(* _stats_thread.                                                          *)

Moves(k, from, to) ==
    /\ thread[k] = from
    /\ thread' = [thread EXCEPT ![k] = to]

\* open finds the fifo that the path names by now, which may be that of a later
\* attach, or nothing: then it fails, which is ignored.
Resolve(k) ==
    /\ k \notin cancelled
    /\ fifo' = [fifo EXCEPT ![k] = path]
    /\ Moves(k, "started", IF path = NoConn THEN "reading" ELSE "opening")
    /\ UNCHANGED <<agentVars, cancelled, path, reader, lines>>

\* open returns once the fifo has a reader.
Open(k) ==
    /\ fifo[k] \in reader
    /\ Moves(k, "opening", "reading")
    /\ UNCHANGED <<agentVars, cancelled, path, fifo, reader, lines>>

\* The registers are read with cancellation disabled; the thread ends when a read
\* fails.
ReadRegisters(k) ==
    /\ \/ Moves(k, "reading", "printing")
       \/ MmioFails /\ Moves(k, "reading", "exited")
    /\ UNCHANGED <<agentVars, cancelled, path, fifo, reader, lines>>

\* Mutant of PrintLine: the error of a fifo without a reader is retried.
PrintLineRetries(k) ==
    /\ fifo[k] \in reader /\ lines[fifo[k]] < PipeSize
    /\ lines' = [lines EXCEPT ![fifo[k]] = @ + 1]
    /\ Moves(k, "printing", "sleeping")
    /\ UNCHANGED <<agentVars, cancelled, path, fifo, reader>>

\* dprintf waits while the fifo is full, and fails, which is ignored, when the
\* fifo has no reader or was never opened.
PrintLine(k) ==
    /\ IF fifo[k] \in reader
         THEN /\ lines[fifo[k]] < PipeSize
              /\ lines' = [lines EXCEPT ![fifo[k]] = @ + 1]
         ELSE UNCHANGED lines
    /\ Moves(k, "printing", "sleeping")
    /\ UNCHANGED <<agentVars, cancelled, path, fifo, reader>>

\* The second is over.
Wake(k) ==
    /\ k \notin cancelled
    /\ Moves(k, "sleeping", "reading")
    /\ UNCHANGED <<agentVars, cancelled, path, fifo, reader, lines>>

\* open and sleep are where a cancellation takes effect.
Cancel(k) ==
    /\ k \in cancelled
    /\ \E s \in {"started", "opening", "sleeping"} : Moves(k, s, "cancelled")
    /\ UNCHANGED <<agentVars, cancelled, path, fifo, reader, lines>>

-----------------------------------------------------------------------------
(* scripts/read_counters.py: opens the path and reads for ever.            *)

OpenFifo ==
    /\ path # NoConn
    /\ path \notin reader
    /\ reader' = reader \cup {path}
    /\ UNCHANGED <<agentVars, thread, cancelled, path, fifo, lines>>

ReadLine(k) ==
    /\ k \in reader /\ lines[k] > 0
    /\ lines' = [lines EXCEPT ![k] = @ - 1]
    /\ UNCHANGED <<agentVars, thread, cancelled, path, fifo, reader>>

\* The script is stopped, and with the last reader the lines are lost.
CloseFifo(k) ==
    /\ k \in reader
    /\ reader' = reader \ {k}
    /\ lines' = [lines EXCEPT ![k] = 0]
    /\ UNCHANGED <<agentVars, thread, cancelled, path, fifo>>

-----------------------------------------------------------------------------
StatsInit ==
    /\ conn = [k \in Conns |-> "none"]
    /\ thread = [k \in Conns |-> "none"]
    /\ cancelled = {}
    /\ path = NoConn
    /\ fifo = [k \in Conns |-> NoConn]
    /\ reader = {}
    /\ lines = [k \in Conns |-> 0]
    /\ afu = {}
    /\ tid = [k \in Conns |-> NoConn]
    /\ joined = {}
    /\ ended = FALSE

Agent(k) == StartStatsThread(k) \/ StopStatsThread(k) \/ Join(k)
Thread(k) ==
    Resolve(k) \/ Open(k) \/ ReadRegisters(k) \/ PrintLine(k) \/ Wake(k) \/ Cancel(k)
Reader(k) == ReadLine(k) \/ CloseFifo(k)

StatsNext ==
    \/ \E k \in Conns : Agent(k) \/ Thread(k) \/ Reader(k)
    \/ OpenFifo

StatsSpec == StatsInit /\ [][StatsNext]_statsVars

\* The threads run and a reader that has the fifo open goes on reading it, which
\* is all that read_counters.py does.  Two threads may share a fifo; the kernel
\* lets the writers that wait for room in.
StatsFairSpec ==
    /\ StatsSpec
    /\ \A k \in Conns : /\ WF_statsVars(Join(k)) /\ WF_statsVars(Thread(k)) /\ WF_statsVars(ReadLine(k))
                       /\ SF_statsVars(PrintLine(k))

-----------------------------------------------------------------------------
(* Properties.                                                             *)

StatsTypeOK ==
    /\ conn \in [Conns -> {"none", "attached", "joining", "freed"}]
    /\ thread \in [Conns -> {"none", "failed", "started", "opening", "reading", "printing",
                             "sleeping", "exited", "cancelled", "killed"}]
    /\ cancelled \subseteq Conns
    /\ path \in Conns \cup {NoConn}
    /\ fifo \in [Conns -> Conns \cup {NoConn}]
    /\ reader \subseteq Conns
    /\ lines \in [Conns -> 0..PipeSize]
    /\ afu \subseteq Conns
    /\ tid \in [Conns -> Conns \cup {NoConn, Unwritten}]
    /\ joined \subseteq Conns
    /\ ended \in BOOLEAN

\* A thread that runs has its device: del_conn joins the thread before free_conn
\* closes the AFU whose registers the thread reads.
ThreadHasDevice ==
    \A k \in Conns : Running(k) => k \in afu

\* Detaching always comes to an end, and with it the request that the agent is
\* serving, wherever the thread was when it was cancelled, and whichever thread it
\* was; or the agent ends.
DetachReturns ==
    \A k \in Conns : conn[k] = "joining" ~> conn[k] = "freed" \/ ended

\* A detach ends the agent only after a thread has ended by itself or could not be
\* created; a connection without a fifo is detached like any other.
AgentOutlivesDetach ==
    ended => \E k \in Conns : thread[k] \in {"exited", "failed"}
=============================================================================
