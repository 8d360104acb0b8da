----------------------------- MODULE Lifecycle -----------------------------
(***************************************************************************)
(* What the service promises about investigation records, whatever runs    *)
(* underneath: a record is opened as running, concludes exactly once, and  *)
(* an incident is analyzed exactly when one of its records completed.      *)
(* The migration's status check (0001_init.up.sql) gives the states; the   *)
(* comments of FinishInvestigation and FailStaleInvestigations give the    *)
(* steps.  Investigations.tla is shown to implement this module.           *)
(***************************************************************************)
CONSTANTS
    Record,     \* investigation ids
    Incident,   \* incident ids
    None        \* the incident of a record that does not exist

VARIABLES
    status,     \* investigations.status, "none" before the INSERT
    incident,   \* investigations.incident_id
    analyzed    \* the incidents whose status is "analyzed"

vars == <<status, incident, analyzed>>

Init ==
    /\ status = [k \in Record |-> "none"]
    /\ incident = [k \in Record |-> None]
    /\ analyzed = {}

\* CreateInvestigation: a new record is running.
Open(k, i) ==
    /\ status[k] = "none"
    /\ status' = [status EXCEPT ![k] = "running"]
    /\ incident' = [incident EXCEPT ![k] = i]
    /\ UNCHANGED analyzed

\* FinishInvestigation with a report: record and incident change together.
Complete(k) ==
    /\ status[k] = "running"
    /\ status' = [status EXCEPT ![k] = "completed"]
    /\ analyzed' = analyzed \cup {incident[k]}
    /\ UNCHANGED incident

\* FinishInvestigation without a report fails one record, the sweep at
\* start-up any number of them; a concluded record never changes again.
Fail(K) ==
    /\ \A k \in K : status[k] = "running"
    /\ status' = [k \in Record |-> IF k \in K THEN "failed" ELSE status[k]]
    /\ UNCHANGED <<incident, analyzed>>

Next ==
    \/ \E k \in Record, i \in Incident : Open(k, i)
    \/ \E k \in Record : Complete(k)
    \/ \E K \in SUBSET Record : Fail(K)

Spec == Init /\ [][Next]_vars
=============================================================================
