---------------------------- MODULE ReportReader ----------------------------
(***************************************************************************)
(* What GET /incidents/{id}/report promises (README: "latest completed"):  *)
(* the answer is one completed investigation of the incident, the one that *)
(* started last at some moment of the request, with all that was stored    *)
(* for it, or that there is none.  Reports is shown to implement this.     *)
(***************************************************************************)
EXTENDS Integers

CONSTANTS Record, Incident, Client, None

VARIABLES
    completed,  \* completed[k]: the incident of k once it is completed
    started,    \* when k started
    request     \* request[c]: what c asks for and what it is answered

vars == <<completed, started, request>>

Shape(pc, i, k) == [pc |-> pc, incident |-> i, row |-> k]
Quiet == Shape("idle", None, None)

Init ==
    /\ completed = [k \in Record |-> None]
    /\ started = [k \in Record |-> 0]
    /\ request = [c \in Client |-> Quiet]

\* An investigation is recorded, later perhaps completed: both for good.
Start(k) ==
    /\ started[k] = 0
    /\ started'[k] \in Nat \ {0}
    /\ started' = [started EXCEPT ![k] = started'[k]]
    /\ UNCHANGED <<completed, request>>

Complete(k) ==
    /\ started[k] # 0 /\ completed[k] = None
    /\ \E i \in Incident : completed' = [completed EXCEPT ![k] = i]
    /\ UNCHANGED <<started, request>>

Ask(c) ==
    /\ request[c].pc \in {"idle", "found", "none"}
    /\ \E i \in Incident :
          request' = [request EXCEPT ![c] = Shape("asked", i, None)]
    /\ UNCHANGED <<completed, started>>

Candidates(i) == {k \in Record : completed[k] = i}

\* The moment that decides the answer.
Decide(c) ==
    /\ request[c].pc = "asked"
    /\ LET i == request[c].incident
       IN  \/ /\ Candidates(i) = {}
              /\ request' = [request EXCEPT ![c] = Shape("none", i, None)]
           \/ \E k \in Candidates(i) :
                 /\ \A j \in Candidates(i) : started[j] <= started[k]
                 /\ request' = [request EXCEPT ![c] = Shape("decided", i, k)]
    /\ UNCHANGED <<completed, started>>

Answer(c) ==
    /\ request[c].pc = "decided"
    /\ request' = [request EXCEPT ![c] = Shape("found", request[c].incident, request[c].row)]
    /\ UNCHANGED <<completed, started>>

\* The database may refuse a statement.
Refuse(c) ==
    /\ request[c].pc \in {"asked", "decided"}
    /\ request' = [request EXCEPT ![c] = Quiet]
    /\ UNCHANGED <<completed, started>>

Next ==
    \/ \E k \in Record : Start(k) \/ Complete(k)
    \/ \E c \in Client : Ask(c) \/ Decide(c) \/ Answer(c) \/ Refuse(c)

Spec == Init /\ [][Next]_vars
=============================================================================
