--------------------------- MODULE Investigations ---------------------------
(***************************************************************************)
(* The investigation engine, on every replica of the service, over the one *)
(* database they share: admission to the concurrency slots, the workflow   *)
(* of engine.go, its writes to the database, the client that goes away,    *)
(* SIGTERM, the crash, and the sweep of stale records at start-up.         *)
(*                                                                         *)
(* A Request is one POST /api/v1/incidents/{id}/investigate; the row it    *)
(* inserts carries its name.  Time is discrete: call timers and the        *)
(* shutdown grace count down, the age of a row (now() - started_at) counts *)
(* up to AgeCap, beyond which no comparison tells ages apart.              *)
(***************************************************************************)
EXTENDS Integers, FiniteSets

CONSTANTS
    Replica,        \* the processes behind the load balancer
    Request,        \* the investigate requests clients send
    Incident,       \* the incidents stored in the database
    Ghost,          \* a well-formed id that names no incident
    None,           \* no replica, no incident
    Named,          \* the incidents whose target host is a name, not an IP
    WithPort,       \* the incidents with a target port
    MaxConcurrent,  \* slots of an engine
    Timeout,        \* INVESTIGATION_TIMEOUT of each replica
    SaveTimeout,    \* saveTimeout
    Slack,          \* what ShutdownGrace adds to saveTimeout
    Lag,            \* longest an operation takes to notice its context is done
    AgeCap,         \* bound: ages are not counted beyond it
    DbFaults,       \* whether statements and commits may fail
    Provider        \* each replica's: "rules" or "llm"

ShutdownGrace == SaveTimeout + Slack

\* Mutant: the grace is forgotten.
StaleAfter_NoGrace(r) == Timeout[r]

\* What main.go passes to FailStaleInvestigations.
StaleAfter(r) == Timeout[r] + ShutdownGrace

ASSUME RequestAssumption == IsFiniteSet(Request)

ASSUME NamesAssumption ==
    /\ Ghost \notin Incident
    /\ None \notin Replica \cup Incident \cup {Ghost}
    /\ Named \subseteq Incident /\ WithPort \subseteq Incident

ASSUME ConfigAssumption ==
    /\ MaxConcurrent \in Nat \ {0}
    /\ Timeout \in [Replica -> Nat \ {0}]
    /\ DbFaults \in BOOLEAN
    /\ Provider \in [Replica -> {"rules", "llm"}]

\* The slack leaves room to notice two contexts: the cancelled
\* investigation's, then the save's.
ASSUME TimeAssumption ==
    /\ SaveTimeout \in Nat \ {0} /\ Lag \in Nat /\ Slack \in Nat
    /\ 2 * Lag < Slack
    /\ AgeCap \in Nat
    /\ \A r \in Replica : StaleAfter(r) < AgeCap

VARIABLES
    proc,       \* proc[r]: "down", "serving" or "stopping"
    grace,      \* grace[r]: what is left of srv.Shutdown's deadline
    slots,      \* slots[r]: tokens in Engine.slots
    call,       \* call[q]: the Investigate call that serves q
    row,        \* row[q]: the investigations row of q and what belongs to it
    analyzed    \* the incidents whose status is "analyzed"

vars == <<proc, grace, slots, call, row, analyzed>>

(***************************************************************************)
(* Data.  Health and wording of the evidence are left out; which tools     *)
(* produced evidence and which the report cites is kept.                   *)
(***************************************************************************)
Tool == {"dns", "ping", "tcp"}
Rank == [dns |-> 1, ping |-> 2, tcp |-> 3]

Plan(i) ==
    {"ping"} \cup (IF i \in Named THEN {"dns"} ELSE {})
             \cup (IF i \in WithPort THEN {"tcp"} ELSE {})

\* The tool whose turn it is, among those of the plan not yet run.
NextTools(c) ==
    LET left == Plan(c.inc) \ c.ran
    IN  {t \in left : \A u \in left : Rank[t] <= Rank[u]}

\* Mutant: a source that was not collected is accepted.
Validate_AnySource(cites, sources) == cites # {}

\* Analysis.Validate: something is cited, and only collected sources.
Validate(cites, sources) == cites # {} /\ cites \subseteq sources

PC == {"idle", "admitted", "creating", "diagnosing", "saving", "returned"}
Answer == {"pending", "busy", "bad_options", "not_found", "internal",
           "analysis_failed", "created", "none"}
Status == {"none", "running", "completed", "failed"}

Call == [pc : PC, owner : Replica \cup {None}, inc : Incident \cup {Ghost, None},
         timer : Nat, ran : SUBSET Tool, evidence : SUBSET Tool,
         cites : SUBSET Tool, answer : Answer]

Row == [status : Status, age : Nat, inc : Incident \cup {None},
        evidence : SUBSET Tool, cites : SUBSET Tool]

NoCall == [pc |-> "idle", owner |-> None, inc |-> None, timer |-> 0, ran |-> {},
           evidence |-> {}, cites |-> {}, answer |-> "pending"]

NoRow == [status |-> "none", age |-> 0, inc |-> None, evidence |-> {}, cites |-> {}]

\* A call that ended with answer a keeps nothing else.
Returned(a) == [NoCall EXCEPT !.pc = "returned", !.answer = a]

Smaller(a, b) == IF a < b THEN a ELSE b

(***************************************************************************)
(* A call holds a slot from admission to its return.  A context bounds it  *)
(* while it inserts its row, diagnoses and analyzes, then the save's own.  *)
(***************************************************************************)
Holding == {"admitted", "creating", "diagnosing", "saving"}
Bounded == {"creating", "diagnosing"}
Timed == Bounded \cup {"saving"}

Holders(r) == {q \in Request : call[q].pc \in Holding /\ call[q].owner = r}

\* The investigation's context is done: deadline, client gone or shutdown.
Cancelled(q) == call[q].timer <= Lag

\* Mutant: the context of the work is not derived from the request's.
Cancel_Detached(c) == c

\* Cancelling a context leaves what runs under it Lag to notice.
Cancel(c) == [c EXCEPT !.timer = Smaller(@, Lag)]

\* How long a call may live on one context, and notice that it is done.
WorkBudget(r) == Timeout[r] + Lag
SaveBudget == SaveTimeout + Lag

Becomes(q, c) == call' = [call EXCEPT ![q] = c]

\* Mutant: the slot is given back on the success paths only.
Return_LeaksOnError(q, a) ==
    /\ Becomes(q, Returned(a))
    /\ slots' = IF a \in {"internal", "bad_options"} THEN slots
                ELSE [slots EXCEPT ![call[q].owner] = @ - 1]

\* A call's return: the answer goes out, the deferred receive frees the slot.
Return(q, a) ==
    /\ Becomes(q, Returned(a))
    /\ slots' = [slots EXCEPT ![call[q].owner] = @ - 1]

Init ==
    /\ proc = [r \in Replica |-> "serving"]
    /\ grace = [r \in Replica |-> 0]
    /\ slots = [r \in Replica |-> 0]
    /\ call = [q \in Request |-> NoCall]
    /\ row = [q \in Request |-> NoRow]
    /\ analyzed = {}

(***************************************************************************)
(* Admission.  A stopping server still serves the connections it accepted. *)
(***************************************************************************)
\* Mutant: the channel has room for one more.
Free_OneMore(r) == slots[r] <= MaxConcurrent

Free(r) == slots[r] < MaxConcurrent

Busy(q) ==
    /\ call[q].pc = "idle"
    /\ \E r \in Replica : proc[r] # "down" /\ ~Free(r)
    /\ Becomes(q, Returned("busy"))
    /\ UNCHANGED <<proc, grace, slots, row, analyzed>>

Admit(q, r, i) ==
    /\ call[q].pc = "idle"
    /\ proc[r] # "down"
    /\ Free(r)
    /\ slots' = [slots EXCEPT ![r] = @ + 1]
    /\ Becomes(q, [NoCall EXCEPT !.pc = "admitted", !.owner = r, !.inc = i,
                                 !.timer = WorkBudget(r)])
    /\ UNCHANGED <<proc, grace, row, analyzed>>

\* toolbox.Tools refuses a scenario, unknown or outside simulation mode.
RejectOptions(q) ==
    /\ call[q].pc = "admitted"
    /\ Return(q, "bad_options")
    /\ UNCHANGED <<proc, grace, row, analyzed>>

IncidentNotFound(q) ==
    /\ call[q].pc = "admitted"
    /\ call[q].inc = Ghost
    /\ Return(q, "not_found")
    /\ UNCHANGED <<proc, grace, row, analyzed>>

LoadFails(q) ==
    /\ call[q].pc = "admitted"
    /\ DbFaults \/ Cancelled(q)
    /\ Return(q, "internal")
    /\ UNCHANGED <<proc, grace, row, analyzed>>

\* Mutant: no AfterFunc on the engine's stopping context.
LoadIncident_IgnoresStop(q) ==
    /\ call[q].pc = "admitted"
    /\ call[q].inc \in Incident
    /\ Becomes(q, [call[q] EXCEPT !.pc = "creating"])
    /\ UNCHANGED <<proc, grace, slots, row, analyzed>>

\* GetIncident returns the incident; the timeout starts, AfterFunc cancels at
\* once if the engine is stopping, and the INSERT is sent: started_at is the
\* time of that statement, so the row's age starts here.
LoadIncident(q) ==
    /\ call[q].pc = "admitted"
    /\ call[q].inc \in Incident
    /\ LET c == [call[q] EXCEPT !.pc = "creating"]
       IN  Becomes(q, IF proc[c.owner] = "stopping" THEN Cancel(c) ELSE c)
    /\ UNCHANGED <<proc, grace, slots, row, analyzed>>

(***************************************************************************)
(* CreateInvestigation.  A statement that fails, or one cancelled while in *)
(* flight, is an error to the caller whether or not the row was committed. *)
(***************************************************************************)
Insert(q) ==
    row' = [row EXCEPT ![q] = [@ EXCEPT !.status = "running", !.inc = call[q].inc]]

InsertRow(q) ==
    /\ call[q].pc = "creating"
    /\ Insert(q)
    /\ Becomes(q, [call[q] EXCEPT !.pc = "diagnosing"])
    /\ UNCHANGED <<proc, grace, slots, analyzed>>

InsertFails(q) ==
    /\ call[q].pc = "creating"
    /\ DbFaults \/ Cancelled(q)
    /\ row' = [row EXCEPT ![q] = NoRow]
    /\ Return(q, "internal")
    /\ UNCHANGED <<proc, grace, analyzed>>

InsertLost(q) ==
    /\ call[q].pc = "creating"
    /\ DbFaults \/ Cancelled(q)
    /\ Insert(q)
    /\ Return(q, "internal")
    /\ UNCHANGED <<proc, grace, analyzed>>

(***************************************************************************)
(* The diagnostic plan.  A tool that fails leaves no evidence.  Ping and   *)
(* TCP report an error once their context is done; a name answered from    *)
(* the hosts file is returned without a look at the context.               *)
(***************************************************************************)
\* Mutant: a tool that failed is tried again, without a look at the context.
RunTool_Retries(q, t, ok) ==
    /\ call[q].pc = "diagnosing"
    /\ t \in NextTools(call[q])
    /\ ok => ~Cancelled(q)
    /\ Becomes(q, IF ok THEN [call[q] EXCEPT !.ran = @ \cup {t}, !.evidence = @ \cup {t}]
                  ELSE call[q])
    /\ UNCHANGED <<proc, grace, slots, row, analyzed>>

RunTool(q, t, ok) ==
    /\ call[q].pc = "diagnosing"
    /\ t \in NextTools(call[q])
    /\ ok /\ t # "dns" => ~Cancelled(q)
    /\ Becomes(q, [call[q] EXCEPT !.ran = @ \cup {t},
                                  !.evidence = IF ok THEN @ \cup {t} ELSE @])
    /\ UNCHANGED <<proc, grace, slots, row, analyzed>>

\* The client's connection closes: only work under the request's context is
\* cancelled, the save goes on (WithoutCancel).
ClientLeaves(q) ==
    /\ call[q].pc \in {"admitted"} \cup Bounded
    /\ Becomes(q, Cancel(call[q]))
    /\ UNCHANGED <<proc, grace, slots, row, analyzed>>

\* The plan is done, or the analysis is: on to the save, under a new timer.
Conclude(q, cites) ==
    /\ call[q].pc = "diagnosing"
    /\ call[q].ran = Plan(call[q].inc)
    /\ Becomes(q, [call[q] EXCEPT !.pc = "saving", !.timer = SaveBudget,
                                  !.cites = cites])
    /\ UNCHANGED <<proc, grace, slots, row, analyzed>>

\* RulesProvider cites all the evidence and ignores its context; a model's
\* answer cites what it likes and arrives only while the context lives.
Analyze(q, cites) ==
    /\ call[q].evidence # {}
    /\ IF Provider[call[q].owner] = "rules"
       THEN cites = call[q].evidence
       ELSE ~Cancelled(q)

AnalysisSucceeds(q, cites) ==
    /\ Analyze(q, cites)
    /\ Validate(cites, call[q].evidence)
    /\ Conclude(q, cites)

\* No evidence, a provider error, or an analysis Validate refuses.
AnalysisFails(q) ==
    /\ Conclude(q, {})
    /\ \/ call[q].evidence = {}
       \/ Provider[call[q].owner] = "llm"

(***************************************************************************)
(* FinishInvestigation: one transaction stores the evidence, the report    *)
(* with the incident's status, and the record's final status.  It does not *)
(* look at the status it replaces.                                         *)
(***************************************************************************)

Stored(q) ==
    /\ row' = [row EXCEPT ![q] = [NoRow EXCEPT
                  !.status = IF call[q].cites = {} THEN "failed" ELSE "completed",
                  !.inc = row[q].inc, !.evidence = call[q].evidence, !.cites = call[q].cites]]
    /\ analyzed' = IF call[q].cites = {} THEN analyzed
                   ELSE analyzed \cup {call[q].inc}

\* Mutant: the analysis error is dropped after the save.
SaveCommits_HidesError(q) ==
    /\ call[q].pc = "saving"
    /\ Stored(q)
    /\ Return(q, "created")
    /\ UNCHANGED <<proc, grace>>

SaveCommits(q) ==
    /\ call[q].pc = "saving"
    /\ Stored(q)
    /\ Return(q, IF call[q].cites = {} THEN "analysis_failed" ELSE "created")
    /\ UNCHANGED <<proc, grace>>

SaveFails(q) ==
    /\ call[q].pc = "saving"
    /\ DbFaults
    /\ Return(q, "internal")
    /\ UNCHANGED <<proc, grace, row, analyzed>>

\* The commit is done but its acknowledgement is lost.
SaveLost(q) ==
    /\ call[q].pc = "saving"
    /\ DbFaults
    /\ Stored(q)
    /\ Return(q, "internal")
    /\ UNCHANGED <<proc, grace>>

(***************************************************************************)
(* The processes.  SIGTERM stops the listener and cancels the calls in     *)
(* flight; the process then exits when no call is left or when the grace   *)
(* is over.  It may die at any time.  What it held in memory is gone.      *)
(***************************************************************************)
Terminate(r) ==
    /\ proc[r] = "serving"
    /\ proc' = [proc EXCEPT ![r] = "stopping"]
    /\ grace' = [grace EXCEPT ![r] = ShutdownGrace]
    /\ call' = [q \in Request |->
                   IF q \in Holders(r) /\ call[q].pc \in Bounded
                   THEN Cancel(call[q]) ELSE call[q]]
    /\ UNCHANGED <<slots, row, analyzed>>

Halt(r) ==
    /\ proc' = [proc EXCEPT ![r] = "down"]
    /\ grace' = [grace EXCEPT ![r] = 0]
    /\ slots' = [slots EXCEPT ![r] = 0]
    /\ call' = [q \in Request |->
                   IF q \in Holders(r) THEN Returned("none") ELSE call[q]]
    /\ row' = [q \in Request |->
                  IF q \in Holders(r) /\ call[q].pc = "creating"
                  THEN NoRow ELSE row[q]]
    /\ UNCHANGED analyzed

Crash(r) == proc[r] # "down" /\ Halt(r)

DrainedExit(r) == proc[r] = "stopping" /\ Holders(r) = {} /\ Halt(r)

\* The grace has run out.  run's store.Close() then waits for the statements under
\* way, which may still end as they will; here they may be cut off as well.
ForcedExit(r) ==
    /\ proc[r] = "stopping" /\ grace[r] = 0 /\ Holders(r) # {}
    /\ Halt(r)

\* Mutants: no age limit; the comparison turned round.
Stale_AnyAge(r) == {q \in Request : row[q].status = "running"}

Stale_Younger(r) ==
    {q \in Request : row[q].status = "running" /\ row[q].age < StaleAfter(r)}

\* FailStaleInvestigations, run by r with its own configuration.
Stale(r) == {q \in Request : row[q].status = "running" /\ row[q].age > StaleAfter(r)}

Boot(r) ==
    /\ proc[r] = "down"
    /\ proc' = [proc EXCEPT ![r] = "serving"]
    /\ row' = [q \in Request |->
                  IF q \in Stale(r) THEN [row[q] EXCEPT !.status = "failed", !.age = 0]
                  ELSE row[q]]
    /\ UNCHANGED <<grace, slots, call, analyzed>>

(***************************************************************************)
(* Time.  It does not pass a call that is out of it: the operation notices *)
(* within Lag, so the call's next step comes first.                        *)
(***************************************************************************)
Ageing(q) == call[q].pc = "creating" \/ row[q].status = "running"

Tick ==
    /\ \A q \in Request : call[q].pc \in Timed => call[q].timer > 0
    /\ call' = [q \in Request |->
                   IF call[q].pc \in Timed THEN [call[q] EXCEPT !.timer = @ - 1]
                   ELSE call[q]]
    /\ row' = [q \in Request |->
                  IF Ageing(q) THEN [row[q] EXCEPT !.age = Smaller(@ + 1, AgeCap)]
                  ELSE row[q]]
    /\ grace' = [r \in Replica |-> IF grace[r] > 0 THEN grace[r] - 1 ELSE 0]
    /\ UNCHANGED <<proc, slots, analyzed>>

\* The steps of the goroutine that serves q, all but its admission.
EngineStep(q) ==
    \/ RejectOptions(q) \/ IncidentNotFound(q) \/ LoadFails(q) \/ LoadIncident(q)
    \/ InsertRow(q) \/ InsertFails(q) \/ InsertLost(q)
    \/ \E t \in Tool, ok \in BOOLEAN : RunTool(q, t, ok)
    \/ \E cites \in SUBSET Tool : AnalysisSucceeds(q, cites)
    \/ AnalysisFails(q)
    \/ SaveCommits(q) \/ SaveFails(q) \/ SaveLost(q)

ClientStep(q) ==
    \/ Busy(q)
    \/ \E r \in Replica, i \in Incident \cup {Ghost} : Admit(q, r, i)
    \/ ClientLeaves(q)

ReplicaStep(r) ==
    \/ Terminate(r) \/ Crash(r) \/ DrainedExit(r) \/ ForcedExit(r) \/ Boot(r)

Next ==
    \/ \E q \in Request : EngineStep(q) \/ ClientStep(q)
    \/ \E r \in Replica : ReplicaStep(r)
    \/ Tick

Spec == Init /\ [][Next]_vars

\* A goroutine that can run does; time passes; the process manager restarts
\* what exited; a stopping process exits.  Nothing is assumed of clients, of
\* SIGTERM or of crashes.
Fairness ==
    /\ \A q \in Request : WF_vars(EngineStep(q))
    /\ \A r \in Replica : WF_vars(Boot(r)) /\ WF_vars(DrainedExit(r) \/ ForcedExit(r))
    /\ WF_vars(Tick)

FairSpec == Spec /\ Fairness

-----------------------------------------------------------------------------
\* Every variable has its type; in particular no slot count goes negative.
TypeOK ==
    /\ proc \in [Replica -> {"down", "serving", "stopping"}]
    /\ grace \in [Replica -> 0..ShutdownGrace]
    /\ slots \in [Replica -> 0..MaxConcurrent]
    /\ call \in [Request -> Call]
    /\ row \in [Request -> Row]
    /\ analyzed \subseteq Incident

\* The tokens in Engine.slots are exactly the calls being served, however
\* each of them ends, so no slot leaks and no more than MaxConcurrent run.
SlotsMatchHolders ==
    \A r \in Replica : slots[r] = Cardinality(Holders(r))

\* A record that a live call still works on is running: no start-up sweep of
\* any replica has failed it under the call's feet (FailStaleInvestigations).
LiveIsRunning ==
    \A q \in Request : call[q].pc \in {"diagnosing", "saving"}
                          => row[q].status = "running"

\* A record is completed exactly when its report is stored, a report cites
\* only evidence stored with it (Analysis.Validate), and an incident is
\* analyzed exactly when a completed investigation of it is stored.
RecordCoherent ==
    /\ \A q \in Request :
          /\ row[q].status = "completed" <=> row[q].cites # {}
          /\ row[q].cites \subseteq row[q].evidence
    /\ analyzed = {row[q].inc : q \in {p \in Request : row[p].status = "completed"}}

\* What the client was told is what the database says, then and ever after:
\* 201 means completed, 502 failed, and a refusal left no record.
AnswerMatchesRecord ==
    \A q \in Request :
       /\ call[q].answer = "created" => row[q].status = "completed"
       /\ call[q].answer = "analysis_failed" => row[q].status = "failed"
       /\ call[q].answer \in {"busy", "bad_options", "not_found"}
             => row[q].status = "none"

\* ShutdownGrace is long enough: when it is over, a call that had sent its
\* INSERT before SIGTERM is not still at work, so a forced exit never cuts
\* one short.
GraceCoversSave ==
    \A r \in Replica : proc[r] = "stopping" /\ grace[r] = 0 =>
       \A q \in Holders(r) : call[q].pc \in Timed => row[q].age < ShutdownGrace

\* On SIGTERM the investigations in flight end as failed (README.md,
\* Engine.Shutdown): none still diagnosing or in analysis then completes.
StopFailsDiagnosing ==
    [][\A q \in Request :
          call[q].pc = "diagnosing" /\ call'[q].pc = "saving"
             /\ proc[call[q].owner] = "stopping"
          => call'[q].cites = {}]_vars

\* All replicas run with one INVESTIGATION_TIMEOUT.
OneConfiguration == \A r, s \in Replica : Timeout[r] = Timeout[s]

\* Records open, conclude once and stay as they are.
Abstract == INSTANCE Lifecycle WITH
    Record <- Request,
    status <- [q \in Request |-> row[q].status],
    incident <- [q \in Request |-> row[q].inc]

ImplementsLifecycle == Abstract!Spec

\* Every admitted call returns and frees its slot.
EveryCallReturns ==
    \A q \in Request : call[q].pc \in Holding ~> call[q].pc = "returned"

\* If some replica restarts again and again, no record is running for ever:
\* what crashes and lost writes orphan is failed by a sweep in the end.
RestartsRecover ==
    (\E r \in Replica : []<>(proc[r] = "down")) =>
       \A q \in Request : row[q].status = "running" ~> row[q].status # "running"
=============================================================================
