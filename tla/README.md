# Verification of the AI network incident investigator

TLA+ modules, TLC configurations and TLAPS proofs for the Go service in the
repository: incidents are stored, an investigation of one runs network
diagnostics, has their evidence analyzed by rules or by a language model, and
stores the evidence with a validated report.

## The system

| component | source | state it keeps | operations |
|---|---|---|---|
| investigation engine | `internal/investigation/engine.go` | slots (a channel of `MaxConcurrent` tokens), the `stopping` context, a goroutine per request | `Investigate`, `Shutdown` |
| investigation storage | `internal/storage/store.go`, `migrations/0001_init.up.sql` | tables incidents, investigations, tool_executions, evidence, reports; a pool of ten connections | `CreateInvestigation`, `FinishInvestigation`, `FailStaleInvestigations`, `LatestReport`, incidents' create/get/list |
| process | `cmd/api/main.go` | the server, the signal context | start (connect, migrate, sweep, serve), SIGTERM, drain, exit |
| analyzers | `internal/llm/` | none | `AnalyzeIncident`: rules, OpenAI-compatible, Ollama |
| diagnostics | `internal/diagnostics/` | none | dns, ping, tcp; simulated scenarios |
| domain | `internal/domain/` | none | `Analysis.Validate`, host validation |
| HTTP API | `internal/api/` | none | the five routes, probes, middleware |
| incident service | `internal/incidents/` | none | validation, paging, reports |
| migrations | `internal/storage/migrate.go` | table schema_migrations, an advisory lock | `MigrateUp`, `MigrateDown` |
| web interface | `web/src/` | the selected incident, its report, pending requests | list, create, investigate |
| configuration, observability, deployment | `internal/config`, `internal/observability`, `deployments` | none of the protocol's | |

How they interact: the API calls `Investigate` on the goroutine of the HTTP
request, under the request's context.  `Investigate` takes a slot without
waiting, resolves the tools, loads the incident, derives a context that ends with
the timeout, the client or the engine's `stopping` context, inserts a record,
runs the planned tools one after another, calls the analyzer, and saves
everything in one transaction under a context of its own.  Replicas share
nothing but the database.  SIGTERM makes `http.Server.Shutdown` close the
listener, call `engine.Shutdown` and wait for the handlers for `ShutdownGrace`.
A process that starts fails the records that have been running for longer than
its own timeout and the grace.

What is hard:

* two contexts, three ways to cancel the first, and an early return at every
  statement, all of which must give the slot back;
* statements whose outcome the caller does not know (a cancelled INSERT, a
  commit whose acknowledgement is lost);
* crashes with a record left running, and a recovery that sees only an age and
  must not touch what another replica is doing;
* a shutdown that races the investigations, bounded by a grace that must be
  long enough;
* a report that is read with four statements and no transaction, while other
  replicas store and sweep;
* replicas of different releases that migrate one database at the same time;
* an analysis from whatever part of the diagnostics succeeded;
* a model's answer that may be anything, and must become a report or a reason;
* limits in seconds that are set in six places, each of which may end first;
* a pool of ten connections and row locks that saves and sweeps share;
* pages cut by offset while incidents arrive;
* answers that reach the browser in any order, for an incident it has left.

What makes each part correct: a slot is taken exactly while a call is served;
records are opened, concluded once and never changed; record, report and
incident status agree; what a client was told is what is stored; SIGTERM ends
what it catches as failed, within the grace; orphans are recovered; every call
returns; a reader sees a report or none, never a part of one, and never an older
one than it knows of; migrations are applied once, in order and whole; the
conclusions of the rules claim no more than the checks observed; a report holds
what the model wrote and can be stored; pages cover the list; nobody waits for a
connection while holding one; a refused request leaves no trace; a process with a
bad configuration never serves, and a signal ends every process; the
browser shows the answer that belongs to the selected incident.

## The modules

| module | what it is |
|---|---|
| `Lifecycle` | abstract: the records as the service promises them |
| `Investigations` | the engines of all replicas over the database, the whole of `Investigate` |
| `InvestigationsProofs` | type correctness, slots, records, answers, the sweep, the refinement, the grace, the stop with a language model |
| `ReportReader` | abstract: what the request for a report promises |
| `Reports` | the statements of saves, sweeps and report requests against each other |
| `ReportsProofs` | whole saves, whole answers, answers that keep up, the refinements |
| `Migrations` | `MigrateUp` and `MigrateDown` of several releases under the advisory lock |
| `Triage` | one investigation's readings and what the rules conclude |
| `TriageProofs` | the rules and the health of the readings |
| `Analyses`, `AnalysesProofs` | one analysis by a language model, from the prompt to the stored report |
| `Connections`, `ConnectionsProofs` | the pools' connections and the row locks of the store's operations |
| `Paging` | the walk through the list of incidents while others are created |
| `Deadlines` | the seconds of one investigation request, from the ingress to the database |
| `HttpApi` | one request through middleware, router, checks, services and answer |
| `Startup` | configuration, start-up, the migrate command and the exit of a process |
| `WebUi` | a browser window against answers in any order |
| `RequestProofs` | one request: `HttpApi` and `Deadlines` |
| `BrowserProofs` | what a client sees: the list of `Paging`, the window of `WebUi` |
| `StartupProofs` | what has to be right before a process serves: `Migrations` and `Startup` |
| `MCInvestigations`, `MCReports`, `MCMigrations`, `MCTriage`, `MCAnalyses`, `MCConnections`, `MCPaging`, `MCStartup`, `MCWebUi` | instances for TLC; `Deadlines` and `HttpApi` need none |

`Investigations` is the whole; the others open a step of it.  `Reports` looks
inside `SaveCommits`, which is one step there and several statements here, and
adds the readers; `Triage` looks inside `RunTool` and `AnalysisSucceeds`, where
`Investigations` keeps only which tools gave evidence; `Analyses` looks inside
`Analyze`, `AnalysisSucceeds` and `AnalysisFails` where the provider is a model;
`Connections` looks below `Reports`, at how a statement gets its connection and
its rows; `Deadlines` takes the path of one call of `Investigations` with the real
lengths of its limits; `HttpApi` is around `Investigate`, which it knows by what
it returns; `Startup` opens `Boot` and the exits, and `Migrations` is over before
a process of `Investigations` is up.  `WebUi` is a client of `HttpApi`.

Three modules of proofs are about two components each and extend both; therefore
`Startup`, `WebUi` and `Deadlines` name their skeletons for themselves
(`StartupInit`, `UiNext`, `DeadlinesSpec`), and `Paging` calls its incidents `Id`.

### Investigations and the code

`proc[r]` is the process of replica `r`, `slots[r]` the length of `Engine.slots`,
`call[q]` the goroutine of request `q` (its `pc` says between which statements of
`Investigate` it is), `row[q]` the investigations row that request inserts with
the evidence and report that belong to it, `analyzed` the incidents with that
status.  A row is named by its request because `Investigate` inserts one row and
nothing else does.

| action | code |
|---|---|
| `Busy`, `Admit` | the `select` on the slots |
| `RejectOptions`, `IncidentNotFound`, `LoadFails`, `LoadIncident` | `toolbox.Tools`, `GetIncident`; the last also starts the timeout, registers `AfterFunc` and sends the INSERT |
| `InsertRow`, `InsertFails`, `InsertLost` | `CreateInvestigation` committed; not committed; committed and reported as an error |
| `RunTool` | one turn of the loop over the plan |
| `AnalysisSucceeds`, `AnalysisFails` | `analyze`, then the status and the save's context |
| `SaveCommits`, `SaveFails`, `SaveLost` | `FinishInvestigation` and the return |
| `ClientLeaves` | net/http cancels the request's context |
| `Terminate`, `DrainedExit`, `ForcedExit`, `Crash`, `Boot` | `run` in main.go; `Boot` contains the sweep |
| `Tick` | time |

`call[q].answer` is what `Investigate` returned, in the words of the API's error
mapping (`created` is 201, `analysis_failed` 502, `busy` 429, `bad_options` 400,
`not_found` 404, `internal` 500; `none` when the process ended first).  Whether
the bytes reach the client is not modelled.

Time is discrete and relative.  `timer` is what is left of the context a call
runs under, plus `Lag`, the longest an operation takes to notice that its context
is done; cancelling cuts the timer to `Lag`.  `Tick` does not pass a call whose
timer is 0: its next step comes first.  `age` is `now() - started_at` as the
sweep computes it, counted from the moment the INSERT is sent, when PostgreSQL
may first have fixed `now()`.  The assumption `2 * Lag < Slack` is what the five
seconds of `ShutdownGrace` beyond `saveTimeout` are for: to notice the end of the
investigation's context and then the end of the save's.  Ages stop counting at
`AgeCap`, above every limit they are compared with.

Choices the code leaves open, and the model with it: ping and TCP never report
success under a context that is done, but a lookup answered from the hosts file
does; the rules analyzer ignores its context; a model's answer cites any subset
of the tools and `Validate` decides.  `Provider` is a constant of each replica because
its configuration chooses it for the life of a process.  A stopping server still
serves requests on connections it had accepted, so `Admit` is enabled then, and
`AfterFunc` cancels such a call as soon as it is registered.  `ForcedExit` leaves
out that the deferred `store.Close` waits for the statements under way: the model
may cut them off there as well, which only adds behaviours.  `Startup` has the wait.

Left out: health, summaries, durations and the wording of errors; the
tool-level timeout (a tool may fail at any time anyway); the database as a
failing party other than by failing or unacknowledged statements.

### Reports and the code

`save[k]` is the transaction of `FinishInvestigation` for record `k` (`wrote`:
the statements it has executed), `row`, `stored` and `analyzed` what is
committed, `read[c]` the request of client `c` (`pc` names the next statement),
`told[c]` what `c` knows of: the start of the newest completed investigation of
each incident.

| action | code |
|---|---|
| `Create`, `BeginSave`, `Execute`, `Commit`, `Rollback` | `CreateInvestigation`; the transaction of `FinishInvestigation`, `Rollback` also a process that dies |
| `FailStale` | `FailStaleInvestigations`, with any age limit |
| `Ask`, `ReadIncident`, `ReadLatest`, `ReadRows`, `ReadReport`, `ReadFails` | `Service.Report` and `LatestReport` |
| `Learn`, `Look` | what a client hears of, by an answer or in the incident list |

`Execute` is one statement for each group that the code sends: all executions,
all evidence, the report, the incident, the investigation.  The rows of a record
are locked by the transaction that updates them: `FailStale` waits for such a
record, and two transactions do not update one incident.  The sweep takes any
age limit, so what is proved holds whatever it is configured to, records of live
calls included: such a record is failed first and concluded afterwards.
`started_at` may be equal for two records; `Latest` then leaves open which one is
read.  Every statement reads what is committed when it runs.

### Migrations and the code

`ledger` is the committed content of schema_migrations, `schema` the versions
whose objects exist, `holder` who has the advisory lock, `run[p]` the command of
process `p` and its transaction.

| action | code |
|---|---|
| `Begin`, `Lock`, `LockTimesOut` | `BeginFunc`, `pg_advisory_xact_lock`, the wait cut off by `statement_timeout` |
| `ReadCurrent` | `CREATE TABLE IF NOT EXISTS`, `MAX(version)` |
| `ApplyUp`, `InsertRow` | a turn of the loop of `MigrateUp`: the script of a version, then its row |
| `ApplyDown`, `DeleteRow` | the same of `MigrateDown` |
| `Commit`, `CommitLost`, `Rollback` | the three ends of `BeginFunc` |
| `Crash`, `Reap` | the process dies; the server ends its session later, and only then frees the lock |

A statement of a transaction sees what is committed when it runs and its own
changes (`Seen`).  Between a script and its row a statement may fail and the
process die.  An up script fails where its objects exist (`CREATE TABLE`), a row
where its version is there (the primary key); a down script drops what it finds
(`DROP TABLE IF EXISTS`) and does not fail.  That no up ever meets what it
creates, and no down finds its objects gone, is `ScriptsApplyCleanly`.  The
repository has one version today.  The model has any number of them and processes
of different releases, for that is what the version numbers, the lock and the loop
are for.

### Triage and the code

| action | code |
|---|---|
| `PickTools` | `Toolbox.Tools` and `plan`; the network is drawn here |
| `Observe`, `Miss` | `Tool.Run` with an observation, or with an error |
| `Analyze` | `analyze` with `RulesProvider` |
| `Interrupt` | the investigation's context ends |

`network[t]` is what tool `t` observes if nothing stops it: the state of the real
network, or the fixed result of a scenario; it does not change while one
investigation looks.  `Observe` reads it, and under a context that is done only a
lookup that needs no query still can.  A reading is what the rules look at:
health, packet loss, latency in whole milliseconds.  `Miss` covers everything that
makes a tool return an error: its own timeout, output it cannot parse, a system
ping that was killed.  `Fits` and `Causes` are the cases of the rules' `switch` in
their order; `Conclusion` takes the first that fits.  Texts, confidences and
recommendations are left out.

### Analyses and the code

`plan` is what the incident calls for, `execution` and `evidence` what
`Investigate` has collected of it, `prompt` what the model is told of, `reply`
what comes back, `report` and `reason` what `Engine.analyze` makes of it, `status` the row
after the save.

| action | code |
|---|---|
| `RunTool` | `runTool`: a result, an error, or a result that cannot be marshalled, and what is appended of it |
| `NoEvidence`, `Ask` | `analyze` up to the call, with its loop over the executions (`FailedTools`); `userPrompt` and the request of the provider |
| `Answer` | `postJSON`: nothing usable, or an envelope with a content |
| `Accept`, `Refuse` | choices, refusal and truncation, `decodeAnalysis`, `Analysis.Validate`, the reason |
| `Save` | `FinishInvestigation` with the CHECKs and types of the tables |

A content is an object with some fields or no whole document (`Syntax`); a text
is blank, plain, or plain with a U+0000.  `Decoded` gives an absent field its
zero value, as the decoder does, which is why `Present` looks for it.  An answer
is cut at 1 MiB by the reader and then does not decode.  A JSON key counts as
spelled in the schema: `encoding/json` also takes other capitals, which `Present`
would then miss and refuse.

### Connections and the code

A job is a `LatestReport` or another read (`Read`), a `FinishInvestigation`
(`Save`) or a `FailStaleInvestigations` (`Sweep`).

| action | code |
|---|---|
| `Submit`, `Acquire`, `GiveUp` | the pool, of `MaxConns`: a queue, first come first served, left when the context ends |
| `Statement` | one statement of a read: its rows are collected and its connection is back before the next |
| `Reach`, `Take`, `Skip` | an UPDATE arrives at a row, locks it, or leaves it alone |
| `Commit`, `Fail`, `TimeOut` | the ends of a transaction; `statement_timeout` and the server's search for deadlocks are one |

The rows a save inserts are its own and nobody waits for them.  A save locks its
incident and then its record; a sweep reaches the running records in any order.

### Paging and the code

`created` is `created_at`, which PostgreSQL fixes when the INSERT begins
(`BeginInsert`), `listed` what is committed (`CommitInsert`); an incident may thus
appear below one that was there before it.  `Analyze` is the UPDATE of a save,
which changes `updated_at`.  `Begin`, `BadRequest` and `NextPage` are the requests
of one client that asks for the page behind what it has received, until one is
empty.  The ids (`Id`) are random numbers; equal times are ordered by them.

### Deadlines and the code

`clock` counts the seconds since the first byte of a request.  Each action is a
wait with everything that may cut it short; `at` keeps when the headers and the
body were read, the investigation and its save began.

| definition | code |
|---|---|
| `ReadHeaders`, `ReadBody` | `ReadHeaderTimeout`, `ReadTimeout` of the server |
| `Load`, `Insert`, `Save` | a statement that waits for a connection and then runs, under `statement_timeout`, the investigation's context, or `saveTimeout` |
| `RunTool` | the tool's timeout and its own patience: the resolver's queries, ping's four packets and ten seconds, the dialer's five |
| `Analyze` | `LLM_TIMEOUT`, or the investigation's |
| `SendAnswer` | written before the server's write deadline and before the ingress hangs up, or lost |

A step notices its limit at once; a pool that is used up delays a statement by
`Waits`, without a limit of its own as in pgxpool.

### HttpApi and the code

A request is a route with the kind of path, query, body and new incident it
comes with; the combinations a route does not look at are left out.  The actions
follow `pc`: `WithRequestIDs`; `Check` (router, `pathID`, `queryInt`,
`decodeBody`); `Create`, `Read`, `Investigate`, `Page`, `Probe` (the handlers and
the services below them); `Answer` (`fail`, `writeError`, `writeJSON`); `Observe`;
and `Panic` with `RecoverPanics`, which is outside all of them.  `stored` is what
the request made the database keep, faults and lost acknowledgements included.
`Investigate` is known by what it returns and leaves behind, which is what
`Investigations` shows.

### Startup and the code

`env` has a kind of value for each variable, `"unset"` for one that is absent or
blank; `Loaded` and `Complaints` are
`config.Load`; `Load`, `Connect`, `Command`, `Migrate`, `Sweep`, `Toolbox`,
`Listen` are the statements of `run`, `Shutdown`, `ServeFails`, `Drained`,
`GraceEnds` the ways its server ends.  Whatever returns once there is a pool
leads to `"closing"`, where the deferred `store.Close` waits until every connection
is back (`Close`); only then is the process `"exited"`.  `handlers` counts the
requests being served, `held` those of them that have a connection: `Arrive`,
`Acquire`, `Release` and `Return` are their steps, of which the closing pool allows
all but `Acquire`.  `did` is what has happened to the world
outside, `named` the variables the error names, `exit` the status; a command may
have found nothing to do, and 0 says nothing of that.  After
`Signal` every statement under the signal's context fails.  Before `NotifyContext`
a signal ends the process by itself and is left out.

### WebUi and the code

`view` is the state of the `IncidentDetail` on show and `mount` counts its
mounts, one for each selection, since its key is the incident's id.  `flight`
holds requests and answers on their way.  The server numbers the investigations of
an incident by `started_at`, in the order of their INSERTs: `started` counts them,
`latest` is the highest number that has completed, which is the one
`LatestReport` finds, and `elsewhere` holds those under way that no request of this
window waits for.  They overlap, and may end in another order than they began.

| action | code |
|---|---|
| `Select`, `Submit`, `Investigate` | what the user does |
| `BeginInvestigation`, `EndInvestigation`, `LoseInvestigation` | the INSERT; the end, saved or not, and its answer; a connection that breaks while the engine goes on |
| `ServeCreate`, `ServeAsIs` | the other requests, and refusals |
| `ElsewhereBegins`, `ElsewhereEnds` | other clients |
| `Deliver` | what the browser does with one answer; React drops what a view that is gone sets (`Lives`) |

`reported`, `crossing` and `best` in `view` are history for `SetBackOnlyByReport`
and no state of the page: the report asked for on mounting was answered, it came
while an investigation ran, and the highest number shown.  The page does go back:
that report replaces whatever is on show (IncidentDetail.tsx:23), and where it
tells of another client's newer investigation, the window's own answer replaces it
in turn (:35).  The property is that these are the only ways.

## The runs

| run | instance | shows |
|---|---|---|
| `engine_llm` | 2 replicas, 2 requests, 2 incidents (a name; an address with a port), 1 slot, language model, `Lag` 1, `Slack` 3, failing statements | `TypeOK`, `SlotsMatchHolders`, `LiveIsRunning`, `RecordCoherent`, `AnswerMatchesRecord`, `GraceCoversSave`, `StopFailsDiagnosing`, `ImplementsLifecycle` |
| `engine_live` | one replica with a language model, one with the rules, 2 requests, 2 slots, `Lag` 0, `Slack` 1, `FairSpec` | `EveryCallReturns`, `RestartsRecover` |
| `reports` | 2 records, 2 incidents, 1 client, a clock of 2, failing statements | `StoredTogether`, `AnswersKeepUp`, `ImplementsReportReader` |
| `migrations` | 2 processes of a release with 3 versions, 1 of a release with 1, failing statements and crashes, `FairSpec` | `ScriptsApplyCleanly`, `LedgerTellsSchema`, `WholeStepsOnly`, `AppliesAllPending`, `CommandsEnd` |
| `triage` | every configuration, request and kind of target; 4 echo requests; latencies 0, 150 and 151 ms | `ConclusionsSupported`, `NamesOnlyTrueFaults` |
| `analyses` | every plan and every outcome of its tools; both providers; a good document, those that differ from it in one or two fields, those with a field less or one more, and those that are no document | `ReportsAreWritten`, `PromptsAreComplete`, `ValidIsStorable` |
| `connections` | pools of one connection; a save and a read of two statements on one replica, a save of the same incident on another, two that start and sweep; `FairSpec` | `NoHoldAndWait`, `DeadlocksNeedTwoSweeps`, `EveryJobEnds` |
| `paging` | 3 incidents, a clock of 2, pages of 1 and 2, limits -1, 0, 1 and 3 | `PagesCover`, `RepeatsAreArrivals` |
| `deadlines` | timeouts of 20 and 90 s; clients that take 0, 4 or 14 s, waits of 0 or 20 s, delays of 0, 9 or 80 s | `OnlyStorageCostsAnswers`, `IngressOutwaits`, `SavedBeforeStale` |
| `http_api` | every route with every path, query, body, input; faults and panics | `RefusedLeavesNoTrace`, `StoredIsSound`, `ConcludedIsTold` |
| `startup` | every environment that differs in up to two variables from the smallest that works, every command, two handlers, `FairStartupSpec` | `RefusedAtOnce`, `SignalEnds` |
| `webui` | an incident that is there and one to be created, 6 requests, 2 investigations of each | `ShownBelongsToSelected`, `SpinnerTellsTruth`, `SetBackOnlyByReport` |

The bounds.  Interactions are pairwise: one slot, one row, one sweep; two
replicas let one sweep while the other works, and two requests on one slot let
one be refused or reuse the slot of the other; two slots let two calls share a
replica.  One unit of time is both the investigation timeout
and `saveTimeout`; what matters is which of the limits is reached first, and
`Lag` 0 and 1 with the slack just allowed and with room cover both orders.
`AgeCap` is one more than the largest limit.  `DbFaults` is a switch: where it is
TRUE any statement may fail or lose its acknowledgement.  In `reports` a second
record is what a reader can mix up with the first, a second incident what it can
be confused with, and two times on the clock let the records start together or
one after the other.  In `migrations` the gap of two
versions between the releases lets a process have several scripts to apply, fail
between them, or be older than the schema.  The latencies of `triage` are zero,
the threshold and the first above it.  In `analyses` two faulty fields let one
check of `Validate` or of the tables hide another.  In `connections` a read whose
second statement has to queue again competes with a save for one connection, two
saves meet at one incident, and two sweeps are the fewest that can lock each other
out.  The clients of `deadlines` are prompt, just in time or too late for headers and body, a
statement is quick, nearly too slow or cut off, and a wait for the pool is none
or longer than the slack of the write deadline.  `webui` has room for two views
with their two requests each, a creation and an investigation, or two
investigations in one view after another; two investigations of an incident are
an earlier and a later one, both of this window or one from elsewhere that overlaps
with it, which is what a view can be set back by.  Of the two handlers of `startup` one may
have a connection and the other none.  Two settings of `startup` are what it takes for
one complaint to hide another.  Where a module has proofs the bounds are not what
its safety results rest on: the theorems hold for all of them.

Symmetry is used in safety runs only: over replicas that have one configuration,
over requests, and over records and incidents.  Deadlock is
checked in the runs of `Investigations`, `Reports`, `Migrations` and `Paging`,
where a process can always crash or boot, begin, ask or be asked for a page.  The
others follow something that ends: an investigation (`Triage`, `Analyses`,
`Deadlines`), a request (`HttpApi`), a process (`Startup`), a set of jobs
(`Connections`), the requests within the bound (`WebUi`).

Fairness.  A goroutine that can run does so (`EngineStep`), time passes, a
process that exited is restarted (`restart: unless-stopped` in
docker-compose.yml, the Deployment in Kubernetes), and a stopping process exits
when it may.  Nothing is assumed of clients, of SIGTERM or of crashes.
`RestartsRecover` therefore says: *if* some replica goes down again and again,
every orphan is failed in the end; a service that is never restarted keeps its
orphans for ever.  `Migrations!FairSpec` lets every session go on with its
statements, each of which ends at the latest with `statement_timeout`, and the
server notice that a client is gone; which waiting session gets the lock is left
open, and nobody need begin.  `Connections!FairSpec` is fair to each job: the pool
hands connections out in the order of the requests, statements end, and the wait
for a row is cut off; that a job is submitted, fails or gives up is not assumed.
`FairStartupSpec` is fair to the steps of `run`, all of which have a limit or
end at once, and to `Release`, because a connection is back when its statement has
ended, at the latest with `statement_timeout` (store.go:32); a handler otherwise
need never return, and may take connection after connection until the pool closes.

## Where the code and its documents part

The models contain what the code does in each of these cases, and the properties
that are checked say no more than it keeps.

| what is written | what the code does | where in the models |
|---|---|---|
| README.md:33: investigations orphaned by a crash are marked failed at startup | main.go:65 fails those older than timeout and grace; after a quick restart the orphan is too young, and waits for a later start | `Stale`; hence `RestartsRecover` |
| README.md:33, engine.go:71-73: what SIGTERM interrupts is saved as failed | the rules analyzer ignores its context: with evidence from one tool the analysis succeeds and the record is completed | `Analyze`; hence `StopFailsDiagnosing` and its theorem are about language models |
| engine.go:149-150: an investigation never stays running | the INSERT (line 117) runs under the client's context and may commit for a call that is told it failed; a text with U+0000 passes `Validate` and makes the save fail | `InsertLost`; `ValidIsStorable` names the exception |
| store.go:141-142: the limit exceeds the longest investigation | main.go:65 computes it from the starting replica's own setting; while a change rolls out, a live record may be failed, and then concludes again | `Timeout`, a function of the replica; hence `OneConfiguration` in two theorems |
| README.md:100-101: the rules conclude only from checks that ran | rules.go:83-84 concludes "without packet loss" from a slow TCP connection when ping could not run | `Causes`; `ConclusionsSupported` asks a latency only for a slow reading |
| migrate.go:50: `MigrateDown` rolls back the most recent migration | a binary of an older release has no script for it and reports success (line 58) | `Due`; `Latest` |
| main.go:137: `migrate down` logs "rolled back latest migration" and exits with 0 | also where `MigrateDown` found nothing to roll back (migrate.go:57-67) | `Command`, `Due` |
| migrate.go:24: `MigrateUp` applies all pending migrations | it compares with the highest version (line 34): one that a later release adds below it, as two merged branches may, is skipped | `Due`, `Skipped`; hence `Contiguous` in the theorems |
| README.md:34: a failed analysis is answered with 502, executions and evidence | the write deadline leaves 15 s beyond the timeout, while body, load and save may take 10 s and more each | `Deadlines`; `OnlyStorageCostsAnswers` says that nothing else loses an answer |
| tool.go:36-38: a tool errs only when it could not observe anything | ping takes 13 s for a silent host, the tool timeout is 10 s, and total loss becomes an error | `Patience` of `Deadlines`; the dialer has a timeout of its own |
| README.md:117: errors have a `request_id` | `recoverPanics` is outside `withRequestIDs` and writes an empty one | `RecoverPanics` |
| middleware.go:59: `observe` records metrics and an access log line | a panic passes it by | `Panic`, `Observe` |
| README.md:110-114: the statuses of each route | `investigate` may also answer 413, `report` 400, and a title, a description or the zone of a host with U+0000 becomes a 500 | `Check`, `Create`, `Storable` |
| store.go:152: a report is the most recent completed investigation | the report asked for on mounting replaces a newer one that is on show by then (IncidentDetail.tsx:23) | `DeliverReport`; `SetBackOnlyByReport` names the exception |
| README.md:65-66, config.go:44: a message names every bad variable | `SIMULATION_SCENARIO` is looked at by `NewToolbox` only, after migration and sweep | `Unseen`; `RefusedAtOnce` asks only that such a process never serves |

## Proofs

For every value of the constants that satisfies the assumptions:

| theorem | property | beyond the assumptions |
|---|---|---|
| `TypeCorrect`, for `Investigations`, `Reports`, `Migrations`, `Triage`, `Analyses`, `Connections`, `Paging` | `TypeOK` | `Contiguous` for `Migrations` |
| `SlotsExact` | `SlotsMatchHolders` | |
| `RecordsCohere` | `RecordCoherent` | |
| `AnswersAreOnRecord` | `AnswerMatchesRecord` | |
| `SweepsSpareTheLiving` | `LiveIsRunning` | `OneConfiguration` |
| `Refinement` | `ImplementsLifecycle` | `OneConfiguration` |
| `GraceSuffices` | `GraceCoversSave` | |
| `StopFailsWithLlm` | `StopFailsDiagnosing` | `Provider[r] = "llm"` for all `r` |
| `SavesAreWhole` | `StoredTogether` | |
| `AnalyzedMeansReport` | `AnalyzedHasReport` | |
| `AnswersAreWhole` | `WholeAnswers` | |
| `AnswersNeverGoBack` | `AnswersKeepUp` | |
| `ReadsAtOneMoment` | `ImplementsReportReader` | |
| `SavesConclude` | `ConcludesLikeLifecycle` | sweeps leave live calls alone (`SweepsSpareLiveCalls`) |
| `LockExcludes` | `ScriptsApplyCleanly` | `Contiguous` |
| `LedgerAndSchemaAgree` | `LedgerTellsSchema` | `Contiguous` |
| `LedgerIsPrefix` | `NoGaps` | `Contiguous` |
| `StepsAreWhole` | `WholeStepsOnly` | `Contiguous` |
| `NothingStaysPending` | `AppliesAllPending` | `Contiguous` |
| `RootCausesSupported` | `ConclusionsSupported` | |
| `HealthFromFigures` | `HealthMatchesFigures` | |
| `NamedFaultsAreTrue` | `NamesOnlyTrueFaults` | |
| `SimulationsShowTheirFault` | `SimulationInventsNothing` | |
| `NothingMadeUp` | `ReportsAreWritten` | |
| `PromptsComplete` | `PromptsAreComplete` | |
| `ValidStorable` | `ValidIsStorable` | |
| `NobodyHoldsAndWaits` | `NoHoldAndWait` | |
| `SavesNeverDeadlock` | `DeadlocksNeedTwoSweeps` | |
| `WalksCover` | `PagesCover` | |
| `RepeatsBounded` | `RepeatsAreArrivals` | |
| `NothingForeignShown` | `ShownBelongsToSelected` | |
| `SpinnerIsTrue` | `SpinnerTellsTruth` | |
| `OnlyTheReportSetsBack` | `SetBackOnlyByReport` | |
| `RefusalsLeaveNoTrace` | `RefusedLeavesNoTrace` | |
| `OnlySoundRows` | `StoredIsSound` | |
| `ConclusionsAreTold` | `ConcludedIsTold` | |
| `OnlyStorageCosts` | `OnlyStorageCostsAnswers` | |
| `SavesBeatSweeps` | `SavedBeforeStale` | |
| `IngressWaits` | `IngressOutwaits` | timeouts of at most 100 s |
| `BadSettingsRefused` | `RefusedAtOnce` | |

The runs do not repeat what follows from a refinement or from other properties, or
is only about types; `WholeAnswers`, `AnalyzedHasReport`, `NoGaps`,
`HealthMatchesFigures`, `SimulationInventsNothing`, `ConcludesLikeLifecycle` and all but one
`TypeOK` are proved only.

**Investigations.**  None of the properties is inductive by itself, and the
argument goes in layers, each preserved with the help of those before:

* `TypeInv`: types.
* `SlotInv`: the count of tokens is the number of holders, and only a process
  that is up holds any.  The type bound on `slots` follows from the guard of
  `Admit`.
* `RecordInv`: how each call's `pc`, evidence and citations agree with its row.
  It is what makes the save store a coherent row, and the answers true.
* `TimeInv`: the age of a running row and what is left of the call's contexts
  together never exceed the limit of the sweep.  This sum is what makes
  `LiveIsRunning` inductive: the sweep's guard says only that the row is old.
* `StopInv`: in a process that is stopping, what is left of a call is at most what
  is left of the grace; this needs `2 * Lag < Slack`, and `Cancel` in both
  `Terminate` and `LoadIncident`.

`Refinement` maps every step of `Investigations` to `Open`, `Complete`, `Fail` or
a stutter; `LiveIsRunning` is what makes the save's unguarded UPDATE an allowed
step, and it is why the theorem needs `OneConfiguration`.

**Reports.**  A record that is completed never changes again, and its parts are
all there; so once a request has chosen its record, each of the later statements
finds its part, and the answer is the same as if all had been read at the moment
of the choice.  That moment is the abstract `Decide`; the statements after it are
stutters up to the last, `Answer`.  For `AnswersKeepUp` the invariant says that
what a client was told of is completed, so the newest completed record at the
choice is at least as new.

`SavesConclude` maps `Create`, `Commit` and `FailStale` to the steps of `Lifecycle`
and all else to stutters.  The hypothesis is needed: the sweep of `Reports` takes
any age limit and may fail the record of a live call, whose commit then concludes
it a second time (TLC shows it with two records).  That the engines' own sweeps do
not is `SweepsSpareTheLiving`.

**Migrations.**  A transaction that migrates holds the lock, so nobody else
commits: what it saw when it read the version stays what is committed.  The
invariant says how far it has come: the committed versions are 1..current, it sees
1..m, and has left what its command asks for beyond m; between a script and its
row what it sees of the schema is one version ahead of what it sees of the ledger,
or in a down one behind.  Nothing is left to write when it commits, so ledger and
schema meet again, and whatever ends it before that keeps none of either.  A
session that has not read the version has changed nothing.  Without the lock the
second of two processes runs scripts whose objects the first has created.  All of
this rests on `Contiguous`, that every release adds its versions above those of
the releases before it.

**Triage.**  Every reading is one its tool can give; the properties then follow
from the cases in their order.  The loss that ping prints needs two lemmas about
integer division: it is 100 exactly when nothing was received, and within 0..100.

`NamesOnlyTrueFaults` rests on one more fact, that a tool's reading is what the
network has of it or is missing: what was cut short is missing, not different.  The
cases of the rules then carry over from readings to the network.
`SimulationInventsNothing` adds the table of the scenarios: the readings of each fit
its own case and no earlier one.

**Analyses.**  Short: `Accounted` relates the evidence to the executions that
succeeded and says that all have ended before the model is asked, `Flow` relates
each step's results to the ones it was made from, and the properties follow by
expanding `Usable`, `Valid` and `Accepted`. `ValidStorable` is the comparison of
`Validate` with the tables, the rounding of the confidence to two digits included.

**Connections.**  `NoHoldAndWait` is that a connection and rows are held exactly
while a job is open.  For the locks, take a circle of waits.  `LockInv` says that a
save locks its own record last; having it, a save waits for nothing, so whoever
waits for a record waits for a sweep.  Whoever waits for an incident waits for a
save, which is in the circle only if it waits for its own record: there is a sweep
in it.  A sweep waits for records only, hence for another sweep.

**Paging.**  The ranks of the committed incidents are 0, 1, ... each taken once, so
a page up to an offset holds exactly that many.  A commit pushes others down by
one rank at most and adds one that was not there at the start: what is above the
offset has been shown or was created meanwhile.  An empty page means that the
offset has passed every rank.

**WebUi.**  A view is replaced at each selection, so all depends on what is under
way for the mount on show (`Own`): it is about the selected incident, and a view has
at most one request for the report and one for an investigation under way.
`SpinnerTellsTruth` needs the second half, for the answer to one of two would clear
the indicator of the other.  `OnlyTheReportSetsBack` needs more: the report is
answered only once in a mount (`ReportedOnce`); an answer under way carries a number
that the server has given (`Numbered`); and while an investigation of this
view is under way, its number is higher than all that has been shown, unless the
report arrived during it (`Newer`), because nothing that was shown had been started
after it.

**HttpApi.**  The invariant has one fact for each stretch of the path: nothing is
stored until a handler acts, a handler acts only on a request without complaint
(`checked`), the reason it returns with fits what it stored (`Agreement`), and the
answer says that reason (`Faithful`).  A lost acknowledgement is what makes
`Agreement` weak where the reason is `internal`, and the properties with it.

**Deadlines.**  `OnTime` bounds the clock in each phase by the instants in `at`: a
wait ends with the first of its limits (`MinOfTwo`), and no phase outlives `Limit`.
`SavedBeforeStale` is then the comparison of `saveTimeout` with `ShutdownGrace`.
`IngressWaits` asks that the timeout, a statement and a save together stay within the
120 seconds of the ingress, and this is sharp: with a timeout of 101 seconds TLC
finds an investigation that the ingress gives up.  `config.go` sets no upper limit;
the ConfigMap of the Kubernetes deployment sets 90.

**Startup.**  First a lemma without steps: what `Load` complains of is exactly what
is wrong and can be seen without the database, for each of the twelve variables
(`ComplaintsAreWrong`).  The invariant then says what has been settled at each
phase: a complaint is the end and nothing was done (`LoadFirst`), whoever gets to
migrate was asked to serve and has a URL that parses, whoever listens has a scenario
that is known or not asked for (`Prepared`).

Only model-checked: liveness (`EveryCallReturns`, `RestartsRecover`,
`CommandsEnd`, `EveryJobEnds`, `SignalEnds`), which is out of the prover's reach.
Every invariant and every other action property of the runs is a theorem.

## Not modelled, and what is left

Not modelled: counters and histograms other than those of the requests, and log
lines, which no part reads; texts, headings and layout; the list, presets and
readiness lamp of the browser, which show what was answered last; base URLs and
credentials beyond their presence; manifests, images and CI, beyond the ingress's
timeout and the restart policy; the grammar of host names, which `HttpApi` takes
as a verdict; how ping's output is cut into lines.

What could follow:

1. `HttpApi` composed with `Investigations`, for a client that retries after a lost
   answer.
2. Liveness of `Reports`, under the timeouts of the pool.
3. A theorem that derives `SweepsSpareLiveCalls` from the time bounds of `Investigations`.
