---------------------------- MODULE RemoteMemory ----------------------------
(***************************************************************************)
(* What the memory side promises the network: a command that it accepted   *)
(* gets one answer.  A write that is answered with OK has been performed,   *)
(* once and with the data that came with it; a read that is answered with   *)
(* OK returns the data of its own address; an error answers either.         *)
(***************************************************************************)
CONSTANTS Commands, Writes

VARIABLES open, written, answer

vars == <<open, written, answer>>

Init ==
    /\ open = {}
    /\ written = {}
    /\ answer = [c \in Commands |-> "none"]

Accept(c) ==
    /\ c \notin open
    /\ open' = open \cup {c}
    /\ UNCHANGED <<written, answer>>

\* The memory takes the data of a write.
Perform(c) ==
    /\ c \in (open \cap Writes) \ written
    /\ written' = written \cup {c}
    /\ UNCHANGED <<open, answer>>

Answer(c, status) ==
    /\ c \in open
    /\ answer[c] = "none"
    /\ status = "ok" /\ c \in Writes => c \in written
    /\ answer' = [answer EXCEPT ![c] = status]
    /\ UNCHANGED <<open, written>>

Next ==
    \E c \in Commands :
        \/ Accept(c)
        \/ Perform(c)
        \/ \E status \in {"ok", "error"} : Answer(c, status)

Spec == Init /\ [][Next]_vars
=============================================================================
