------------------------------ MODULE Reports ------------------------------
(***************************************************************************)
(* Reading a report while investigations are stored.  FinishInvestigation  *)
(* is one transaction of several statements; FailStaleInvestigations is    *)
(* one statement; Service.Report reads the incident, then LatestReport     *)
(* reads the newest completed investigation, its executions, its evidence  *)
(* and its report with one statement each and no transaction around them.  *)
(* All run at READ COMMITTED: a statement sees what is committed then.     *)
(***************************************************************************)
EXTENDS Integers

CONSTANTS
    Record,         \* investigation ids
    Incident,       \* incident ids
    Client,         \* who reads
    None,           \* no record, no incident
    MaxClock,       \* bound of the database's clock
    Faults          \* whether statements and processes may fail

ASSUME ReportsAssumption ==
    /\ None \notin Record \cup Incident
    /\ MaxClock \in Nat \ {0}
    /\ Faults \in BOOLEAN

VARIABLES
    clock,      \* now(), as the database tells it
    row,        \* row[k]: the investigations row
    stored,     \* stored[k]: the other tables with rows of k, committed
    analyzed,   \* the incidents whose status is "analyzed"
    save,       \* save[k]: the call that works on k and its transaction
    read,       \* read[c]: the report request of c
    told        \* told[c][i]: start of the newest completed investigation of
                \* i that c was told of, 0 when c was told of none

vars == <<clock, row, stored, analyzed, save, read, told>>

Part == {"executions", "evidence", "report"}
Write == Part \cup {"incident", "investigation"}

Row == [status : {"none", "running", "completed", "failed"},
        incident : Incident \cup {None}, started : 0..MaxClock]
NoRow == [status |-> "none", incident |-> None, started |-> 0]

Save == [pc : {"none", "working", "saving", "ended"},
         outcome : {"completed", "failed"}, wrote : SUBSET Write]
NoSave == [pc |-> "none", outcome |-> "failed", wrote |-> {}]

Read == [pc : {"idle", "incident", "latest", "executions", "evidence", "report", "answered"},
         incident : Incident \cup {None}, floor : 0..MaxClock,
         row : Record \cup {None}, parts : [Part -> Record \cup {None}],
         answer : {"none", "found", "not_found", "broken", "error"}]
NoParts == [t \in Part |-> None]
NoRead == [pc |-> "idle", incident |-> None, floor |-> 0, row |-> None, parts |-> NoParts,
           answer |-> "none"]

Becomes(c, r) == read' = [read EXCEPT ![c] = r]

Init ==
    /\ clock = 1
    /\ row = [k \in Record |-> NoRow]
    /\ stored = [k \in Record |-> {}]
    /\ analyzed = {}
    /\ save = [k \in Record |-> NoSave]
    /\ read = [c \in Client |-> NoRead]
    /\ told = [c \in Client |-> [i \in Incident |-> 0]]

-----------------------------------------------------------------------------
\* The writers.

\* CreateInvestigation
Create(k, i) ==
    /\ row[k].status = "none"
    /\ row' = [row EXCEPT ![k] = [status |-> "running", incident |-> i, started |-> clock]]
    /\ save' = [save EXCEPT ![k].pc = "working"]
    /\ UNCHANGED <<clock, stored, analyzed, read, told>>

\* The call is through with its tools and its analysis.
BeginSave(k, outcome) ==
    /\ save[k].pc = "working"
    /\ save' = [save EXCEPT ![k].pc = "saving", ![k].outcome = outcome]
    /\ UNCHANGED <<clock, row, stored, analyzed, read, told>>

\* The statements a save consists of, in the order of Rank.
Writes(outcome) == IF outcome = "completed" THEN Write ELSE Write \ {"report", "incident"}

Rank == [executions |-> 1, evidence |-> 2, report |-> 3, incident |-> 4, investigation |-> 5]

IsNextWrite(k, w) ==
    /\ w \in Writes(save[k].outcome) \ save[k].wrote
    /\ \A v \in Writes(save[k].outcome) \ save[k].wrote : Rank[w] <= Rank[v]

\* Two transactions do not update one incident at the same time.
IncidentLocked(k) ==
    \E j \in Record \ {k} :
       "incident" \in save[j].wrote /\ row[j].incident = row[k].incident

\* Mutant: every statement commits at once.
Execute_NoTransaction(k, w) ==
    /\ save[k].pc = "saving"
    /\ IsNextWrite(k, w)
    /\ save' = [save EXCEPT ![k].wrote = @ \cup {w}]
    /\ stored' = [stored EXCEPT ![k] = @ \cup ({w} \cap Part)]
    /\ analyzed' = IF w = "incident" THEN analyzed \cup {row[k].incident} ELSE analyzed
    /\ UNCHANGED <<clock, row, read, told>>

\* One statement inside the transaction of FinishInvestigation.
Execute(k, w) ==
    /\ save[k].pc = "saving"
    /\ IsNextWrite(k, w)
    /\ w = "incident" => ~IncidentLocked(k)
    /\ save' = [save EXCEPT ![k].wrote = @ \cup {w}]
    /\ UNCHANGED <<clock, row, stored, analyzed, read, told>>

Done(k) == save' = [save EXCEPT ![k].pc = "ended", ![k].wrote = {}]

Commit(k) ==
    /\ save[k].pc = "saving"
    /\ save[k].wrote = Writes(save[k].outcome)
    /\ row' = [row EXCEPT ![k].status = save[k].outcome]
    /\ stored' = [stored EXCEPT ![k] = save[k].wrote \cap Part]
    /\ analyzed' = IF "incident" \in save[k].wrote THEN analyzed \cup {row[k].incident}
                   ELSE analyzed
    /\ Done(k)
    /\ UNCHANGED <<clock, read, told>>

\* A statement fails or the process dies: nothing of the save stays.
Rollback(k) ==
    /\ Faults
    /\ save[k].pc \in {"working", "saving"}
    /\ Done(k)
    /\ UNCHANGED <<clock, row, stored, analyzed, read, told>>

\* FailStaleInvestigations of some replica.  It waits for the rows that a
\* save has updated; whether their calls live it cannot see.
FailStale(olderThan) ==
    LET stale == {k \in Record : row[k].status = "running" /\ row[k].started < clock - olderThan}
    IN  /\ stale # {}
        /\ \A k \in stale : "investigation" \notin save[k].wrote
        /\ row' = [k \in Record |-> IF k \in stale THEN [row[k] EXCEPT !.status = "failed"]
                                    ELSE row[k]]
        /\ UNCHANGED <<clock, stored, analyzed, save, read, told>>

Tick ==
    /\ clock < MaxClock
    /\ clock' = clock + 1
    /\ UNCHANGED <<row, stored, analyzed, save, read, told>>

-----------------------------------------------------------------------------
\* The readers.

\* The client learns that an investigation of i completed: by the answer to
\* its own request, or from another client.
Learn(c, k) ==
    /\ row[k].status = "completed"
    /\ row[k].started > told[c][row[k].incident]
    /\ told' = [told EXCEPT ![c][row[k].incident] = row[k].started]
    /\ UNCHANGED <<clock, row, stored, analyzed, save, read>>

\* The client sees the incident as analyzed: some investigation completed.
Look(c, i) ==
    /\ i \in analyzed /\ told[c][i] = 0
    /\ told' = [told EXCEPT ![c][i] = 1]
    /\ UNCHANGED <<clock, row, stored, analyzed, save, read>>

\* GET /incidents/{id}/report
Ask(c, i) ==
    /\ read[c].pc \in {"idle", "answered"}
    /\ Becomes(c, [NoRead EXCEPT !.pc = "incident", !.incident = i, !.floor = told[c][i]])
    /\ UNCHANGED <<clock, row, stored, analyzed, save, told>>

\* Service.Get; incidents are never deleted.
ReadIncident(c) ==
    /\ read[c].pc = "incident"
    /\ Becomes(c, [read[c] EXCEPT !.pc = "latest"])
    /\ UNCHANGED <<clock, row, stored, analyzed, save, told>>

\* Mutant: any status will do.
Completed_AnyStatus(i) == {k \in Record : row[k].incident = i}

Completed(i) == {k \in Record : row[k].status = "completed" /\ row[k].incident = i}

\* Mutant: the first row there is.
Latest_Unordered(i) == Completed(i)

\* ORDER BY started_at DESC LIMIT 1; equal times are in no order.
Latest(i) == {k \in Completed(i) : \A j \in Completed(i) : row[j].started <= row[k].started}

ReadLatest(c) ==
    /\ read[c].pc = "latest"
    /\ \/ /\ Completed(read[c].incident) = {}
          /\ Becomes(c, [read[c] EXCEPT !.pc = "answered", !.answer = "not_found"])
       \/ \E k \in Latest(read[c].incident) :
             Becomes(c, [read[c] EXCEPT !.pc = "executions", !.row = k])
    /\ UNCHANGED <<clock, row, stored, analyzed, save, told>>

\* The investigation a later statement asks for.
Of(c) == read[c].row

\* The rows of table t that a statement finds now; none if there are none.
Found(c, t) == IF t \in stored[Of(c)] THEN Of(c) ELSE None

\* Its executions, then its evidence; a list may be empty.
ReadRows(c, t, next) ==
    /\ t \in {"executions", "evidence"} /\ read[c].pc = t
    /\ Becomes(c, [read[c] EXCEPT !.pc = next, !.parts[t] = Found(c, t)])
    /\ UNCHANGED <<clock, row, stored, analyzed, save, told>>

\* Its report; no row is an error here.
ReadReport(c) ==
    /\ read[c].pc = "report"
    /\ LET found == Found(c, "report")
       IN  Becomes(c, [read[c] EXCEPT !.pc = "answered", !.parts["report"] = found,
                                      !.answer = IF found = None THEN "broken" ELSE "found"])
    /\ UNCHANGED <<clock, row, stored, analyzed, save, told>>

\* A statement fails: 500.
ReadFails(c) ==
    /\ Faults
    /\ read[c].pc \notin {"idle", "answered"}
    /\ Becomes(c, [NoRead EXCEPT !.pc = "answered", !.answer = "error"])
    /\ UNCHANGED <<clock, row, stored, analyzed, save, told>>

-----------------------------------------------------------------------------
Writer(k) ==
    \/ \E i \in Incident : Create(k, i)
    \/ \E outcome \in {"completed", "failed"} : BeginSave(k, outcome)
    \/ \E w \in Write : Execute(k, w)
    \/ Commit(k) \/ Rollback(k)

Reader(c) ==
    \/ \E k \in Record : Learn(c, k)
    \/ \E i \in Incident : Look(c, i) \/ Ask(c, i)
    \/ ReadIncident(c) \/ ReadLatest(c)
    \/ ReadRows(c, "executions", "evidence") \/ ReadRows(c, "evidence", "report")
    \/ ReadReport(c) \/ ReadFails(c)

Next ==
    \/ \E k \in Record : Writer(k)
    \/ \E olderThan \in 0..MaxClock : FailStale(olderThan)
    \/ Tick
    \/ \E c \in Client : Reader(c)

Spec == Init /\ [][Next]_vars

-----------------------------------------------------------------------------
\* Every variable has its type, and no transaction outlives its call.
TypeOK ==
    /\ clock \in 1..MaxClock
    /\ row \in [Record -> Row]
    /\ stored \in [Record -> SUBSET Part]
    /\ analyzed \subseteq Incident
    /\ save \in [Record -> Save]
    /\ \A k \in Record : save[k].pc # "saving" => save[k].wrote = {}
    /\ read \in [Client -> Read]
    /\ told \in [Client -> [Incident -> 0..MaxClock]]

\* README: "Executions, evidence and the report are stored in one
\* transaction": whatever fails, a completed record has all its parts, and a
\* record that runs has none.
StoredTogether ==
    \A k \in Record :
       /\ row[k].status = "completed" => stored[k] = Part
       /\ row[k].status = "running" => stored[k] = {}
       /\ stored[k] \in {{}, Part \ {"report"}, Part}

\* "The incident becomes analyzed only when a report is stored", and always
\* then (FinishInvestigation): the incident list and the reports agree.
AnalyzedHasReport ==
    analyzed = {row[k].incident : k \in {j \in Record : row[j].status = "completed"}}

\* LatestReport "returns the most recent completed investigation with its
\* executions, evidence and report": all of one investigation, although four
\* statements read them, and never the error for a report that is missing.
WholeAnswers ==
    \A c \in Client :
       /\ read[c].answer # "broken"
       /\ read[c].answer = "found" => \A t \in Part : read[c].parts[t] = read[c].row

\* A reader who knows of a completed investigation when it asks, from an
\* answer of its own, from another reader or from the incident's status, is
\* not given an older one and is not told that there is none.
AnswersKeepUp ==
    \A c \in Client :
       /\ read[c].answer = "found" => row[read[c].row].started >= read[c].floor
       /\ read[c].answer = "not_found" => read[c].floor = 0

\* What a request looks like from outside.
Shape(pc, i, k) == [pc |-> pc, incident |-> i, row |-> k]

SeenAs(r) ==
    IF r.pc = "idle" \/ r.answer = "error" THEN Shape("idle", None, None)
    ELSE IF r.pc \in {"incident", "latest"} THEN Shape("asked", r.incident, None)
    ELSE IF r.pc # "answered" THEN Shape("decided", r.incident, r.row)
    ELSE IF r.answer = "not_found" THEN Shape("none", r.incident, None)
    ELSE IF r.parts = [t \in Part |-> r.row] THEN Shape("found", r.incident, r.row)
    ELSE Shape("broken", r.incident, None)

CompletedBar == [k \in Record |-> IF row[k].status = "completed" THEN row[k].incident ELSE None]
StartedBar == [k \in Record |-> row[k].started]
RequestBar == [c \in Client |-> SeenAs(read[c])]

Promised == INSTANCE ReportReader WITH
    completed <- CompletedBar, started <- StartedBar, request <- RequestBar

\* Four statements outside a transaction answer like one look at the
\* database at one moment of the request.
ImplementsReportReader == Promised!Spec

\* Records as Lifecycle has them: what is committed.
Promise == INSTANCE Lifecycle WITH
    status <- [k \in Record |-> row[k].status],
    incident <- [k \in Record |-> row[k].incident]

\* No sweep fails the record of a call that still works on it.
SweptIsOver(k) ==
    row[k].status = "running" /\ row'[k].status = "failed" => save'[k].pc = "ended"

SweepsSpareLiveCalls == [][\A k \in Record : SweptIsOver(k)]_vars

\* A save of several statements concludes its record and the incident like the
\* one step that Lifecycle has for it.
ConcludesLikeLifecycle == Promise!Spec
=============================================================================
