------------------------------ MODULE Startup ------------------------------
(***************************************************************************)
(* The life of one process of the command api: config.Load on its          *)
(* environment, then run: connect, the migrate command or the migrations,  *)
(* the sweep and the toolbox, the server with its handlers, and the end of *)
(* each of these, which closes the pool before the process exits.          *)
(* The value of a variable is a member of a small set; "unset" is unset or *)
(* blank and "word" does not parse as what the variable holds.             *)
(***************************************************************************)
EXTENDS Naturals, FiniteSets

\* The values considered.  LLM_PROVIDER may be in capitals, and a scenario is
\* known or not.
Values ==
    [APP_ENV |-> {"unset", "production", "staging"},
     HTTP_PORT |-> {"unset", "in_range", "zero", "word"},
     LOG_LEVEL |-> {"unset", "debug", "word"},
     DATABASE_URL |-> {"unset", "url", "not_a_url"},
     LLM_PROVIDER |-> {"unset", "rules", "OpenAI", "ollama", "other"},
     LLM_MODEL |-> {"unset", "mine"},
     LLM_TIMEOUT |-> {"unset", "positive", "zero", "word"},
     OPENAI_API_KEY |-> {"unset", "key"},
     SIMULATION_ENABLED |-> {"unset", "true", "false", "word"},
     SIMULATION_SCENARIO |-> {"unset", "known", "unknown"},
     INVESTIGATION_TIMEOUT |-> {"unset", "positive", "zero", "word"},
     MAX_CONCURRENT_INVESTIGATIONS |-> {"unset", "in_range", "zero", "word"}]

Variable == DOMAIN Values

CONSTANTS
    Environment,    \* the environments a process may start in
    Args,           \* its arguments: "serve", "up", "down" or "other"
    MaxHandlers     \* bound: requests served at a time

ASSUME StartupAssumption ==
    /\ Environment \subseteq [Variable -> UNION {Values[v] : v \in Variable}]
    /\ \A e \in Environment : \A v \in Variable : e[v] \in Values[v]
    /\ Args \subseteq {"serve", "up", "down", "other"}
    /\ MaxHandlers \in Nat

VARIABLES
    env, args,
    phase,      \* what run is at, "closing" once it returns, or "exited"
    config,     \* what Load returned, Defaults before
    named,      \* the variables that the error names
    did,        \* what has been done to the world outside
    signalled,  \* SIGINT or SIGTERM has come
    exit,       \* the exit status, 2 before
    handlers,   \* how many handlers have begun and not returned
    held        \* how many of them hold a connection of the pool

startupVars == <<env, args, phase, config, named, did, signalled, exit, handlers, held>>

-----------------------------------------------------------------------------
Defaults ==
    [APP_ENV |-> "development", HTTP_PORT |-> "in_range", LOG_LEVEL |-> "info",
     DATABASE_URL |-> "unset", LLM_PROVIDER |-> "rules", LLM_MODEL |-> "unset",
     LLM_TIMEOUT |-> "positive", OPENAI_API_KEY |-> "unset", SIMULATION_ENABLED |-> "true",
     SIMULATION_SCENARIO |-> "known", INVESTIGATION_TIMEOUT |-> "positive",
     MAX_CONCURRENT_INVESTIGATIONS |-> "in_range"]

\* A value that does not parse leaves the default, and a complaint.
Unparsed(e) == {v \in Variable : e[v] = "word"}

Lower(s) == IF s = "OpenAI" THEN "openai" ELSE s

DefaultModel == [rules |-> "rules-v1", openai |-> "gpt-4o-mini", ollama |-> "llama3.2"]

Loaded(e) ==
    LET value == [v \in Variable |-> IF e[v] \in {"unset", "word"} THEN Defaults[v] ELSE e[v]]
        provider == Lower(value["LLM_PROVIDER"])
    IN  [value EXCEPT !.LLM_PROVIDER = provider,
                      !.LLM_MODEL = IF @ = "unset" /\ provider \in DOMAIN DefaultModel
                                    THEN DefaultModel[provider] ELSE @]

\* Mutant: the ranges are only looked at when everything has parsed.
Complaints_InTurn(e) ==
    LET c == Loaded(e)
        refused == {v \in {"HTTP_PORT", "LLM_TIMEOUT", "INVESTIGATION_TIMEOUT",
                           "MAX_CONCURRENT_INVESTIGATIONS"} : c[v] = "zero"}
                   \cup {v \in {"DATABASE_URL"} : c[v] = "unset"}
                   \cup {v \in {"APP_ENV"} : c[v] \notin {"development", "production"}}
                   \cup {v \in {"LLM_PROVIDER"} : c[v] \notin DOMAIN DefaultModel}
                   \cup {v \in {"OPENAI_API_KEY"} : c.LLM_PROVIDER = "openai" /\ c[v] = "unset"}
    IN  IF Unparsed(e) # {} THEN Unparsed(e) ELSE refused

\* The variables that Load complains of, all of them at once.
Complaints(e) ==
    LET c == Loaded(e) IN
    Unparsed(e)
    \cup {v \in {"HTTP_PORT", "LLM_TIMEOUT", "INVESTIGATION_TIMEOUT",
                 "MAX_CONCURRENT_INVESTIGATIONS"} : c[v] = "zero"}
    \cup {v \in {"DATABASE_URL"} : c[v] = "unset"}
    \cup {v \in {"APP_ENV"} : c[v] \notin {"development", "production"}}
    \cup {v \in {"LLM_PROVIDER"} : c[v] \notin DOMAIN DefaultModel}
    \cup {v \in {"OPENAI_API_KEY"} : c.LLM_PROVIDER = "openai" /\ c[v] = "unset"}

StartupInit ==
    /\ env \in Environment /\ args \in Args
    /\ phase = "load" /\ config = Defaults
    /\ named = {} /\ did = {} /\ signalled = FALSE /\ exit = 2
    /\ handlers = 0 /\ held = 0

-----------------------------------------------------------------------------

\* run returns: main prints the error and exits with 1, or exits with 0.
Exit(status, names) ==
    /\ phase' = "exited" /\ exit' = status /\ named' = names

\* Once there is a pool, run closes it first (defer store.Close()).
Leave(status, names) ==
    /\ phase' = "closing" /\ exit' = status /\ named' = names

GoOn(next, done) ==
    /\ phase' = next /\ did' = did \cup done
    /\ UNCHANGED <<named, exit>>

\* A transaction may have committed whatever its caller is told, and may have
\* found nothing to do.
Perhaps(done) == did' \in {did, did \cup {done}}

Load ==
    /\ phase = "load"
    /\ IF Complaints(env) # {}
       THEN Exit(1, Complaints(env)) /\ UNCHANGED <<config, did>>
       ELSE config' = Loaded(env) /\ GoOn("connect", {})
    /\ UNCHANGED <<env, args, signalled, handlers, held>>

\* A URL that does not parse, a database that cannot be reached in 15 seconds,
\* or the signal.
Connect ==
    /\ phase = "connect"
    /\ \/ /\ config.DATABASE_URL = "url" /\ ~signalled
          /\ GoOn(IF args = "serve" THEN "migrate" ELSE "command", {"connected"})
       \/ /\ Exit(1, IF config.DATABASE_URL = "url" THEN {} ELSE {"DATABASE_URL"})
          /\ UNCHANGED did
    /\ UNCHANGED <<env, args, config, signalled, handlers, held>>

\* migrate up and down: nothing pending, and nothing to roll back, is no error.
Command ==
    /\ phase = "command"
    /\ \/ args \in {"up", "down"} /\ ~signalled /\ Leave(0, {}) /\ Perhaps(args)
       \/ args \in {"up", "down"} /\ Leave(1, {}) /\ Perhaps(args)
       \/ args = "other" /\ Leave(1, {}) /\ UNCHANGED did
    /\ UNCHANGED <<env, args, config, signalled, handlers, held>>

\* The migrations, then the sweep: each may fail, and fails after a signal.
Migrate ==
    /\ phase = "migrate"
    /\ \/ ~signalled /\ GoOn("sweep", {"up"})
       \/ Leave(1, {}) /\ Perhaps("up")
    /\ UNCHANGED <<env, args, config, signalled, handlers, held>>

Sweep ==
    /\ phase = "sweep"
    /\ \/ ~signalled /\ GoOn("toolbox", {"swept"})
       \/ Leave(1, {}) /\ Perhaps("swept")
    /\ UNCHANGED <<env, args, config, signalled, handlers, held>>

\* NewToolbox is what looks at the scenario, and only in simulation mode.
Toolbox ==
    /\ phase = "toolbox"
    /\ IF config.SIMULATION_ENABLED = "true" /\ config.SIMULATION_SCENARIO = "unknown"
       THEN Leave(1, {"SIMULATION_SCENARIO"}) /\ UNCHANGED did
       ELSE GoOn("listen", {})
    /\ UNCHANGED <<env, args, config, signalled, handlers, held>>

\* ListenAndServe fails when the port is taken; a server that is shut down
\* before it listens never does.
Listen ==
    /\ phase = "listen"
    /\ \/ GoOn("serving", {"served"})
       \/ signalled /\ GoOn("draining", {})
       \/ Leave(1, {}) /\ UNCHANGED did
    /\ UNCHANGED <<env, args, config, signalled, handlers, held>>

\* NotifyContext takes it until run has returned; before run asks for it, it
\* ends the process at once.
Signal ==
    /\ ~signalled /\ phase \notin {"load", "exited"}
    /\ signalled' = TRUE
    /\ UNCHANGED <<env, args, phase, config, named, did, exit, handlers, held>>

Shutdown ==
    /\ phase = "serving" /\ signalled
    /\ GoOn("draining", {})
    /\ UNCHANGED <<env, args, config, signalled, handlers, held>>

\* The listener fails while the server runs; its handlers run on.
ServeFails ==
    /\ phase = "serving"
    /\ Leave(1, {})
    /\ UNCHANGED <<did, env, args, config, signalled, handlers, held>>

\* Every handler has returned within the grace; the listener may have failed
\* at the moment of the signal.
Drained ==
    /\ phase = "draining" /\ handlers = 0
    /\ \E status \in {0, 1} : Leave(status, {})
    /\ UNCHANGED <<did, env, args, config, signalled, handlers, held>>

\* Mutant: the server is shut down without a time limit.
GraceEnds_Never ==
    /\ FALSE /\ Leave(1, {})
    /\ UNCHANGED <<did, env, args, config, signalled, handlers, held>>

\* Some have not, and run returns all the same.
GraceEnds ==
    /\ phase = "draining"
    /\ Leave(1, {})
    /\ UNCHANGED <<did, env, args, config, signalled, handlers, held>>

\* Close waits for every connection that is out; the handlers end with the
\* process.
Close ==
    /\ phase = "closing" /\ held = 0
    /\ phase' = "exited" /\ handlers' = 0
    /\ UNCHANGED <<env, args, config, named, did, signalled, exit, held>>

\* A handler begins, also on a connection that outlived the listener.
Arrive ==
    /\ phase \in {"serving", "draining", "closing"} /\ "served" \in did
    /\ handlers < MaxHandlers
    /\ handlers' = handlers + 1
    /\ UNCHANGED <<env, args, phase, config, named, did, signalled, exit, held>>

\* It takes a connection from the pool, which gives none once it is closing.
Acquire ==
    /\ phase \notin {"closing", "exited"} /\ held < handlers
    /\ held' = held + 1
    /\ UNCHANGED <<env, args, phase, config, named, did, signalled, exit, handlers>>

\* It gives the connection back: its statement has ended.
Release ==
    /\ held > 0
    /\ held' = held - 1
    /\ UNCHANGED <<env, args, phase, config, named, did, signalled, exit, handlers>>

Return ==
    /\ handlers > held
    /\ handlers' = handlers - 1
    /\ UNCHANGED <<env, args, phase, config, named, did, signalled, exit, held>>

Handler == Arrive \/ Acquire \/ Release \/ Return

Proceed ==
    \/ Load \/ Connect \/ Command \/ Migrate \/ Sweep \/ Toolbox \/ Listen
    \/ Shutdown \/ GraceEnds \/ Close

StartupNext == Proceed \/ Signal \/ ServeFails \/ Drained \/ Handler

StartupSpec == StartupInit /\ [][StartupNext]_startupVars

\* Each step of run has a time limit or ends at once, and each statement ends
\* at the latest with statement_timeout; a handler need never return.
FairStartupSpec ==
    StartupSpec /\ WF_startupVars(Proceed) /\ WF_startupVars(Release)

-----------------------------------------------------------------------------

\* The variables whose value the README's table does not allow.
Wrong ==
    {v \in Variable : env[v] \in {"word", "zero", "staging", "other", "not_a_url"}}
    \cup {v \in {"DATABASE_URL"} : env[v] = "unset"}
    \cup {v \in {"SIMULATION_SCENARIO"} : env[v] = "unknown" /\ env["SIMULATION_ENABLED"] # "false"}
    \cup {v \in {"OPENAI_API_KEY"} : env[v] = "unset" /\ Lower(env["LLM_PROVIDER"]) = "openai"}

\* What only pgx and the toolbox find out.
Unseen == {"SIMULATION_SCENARIO"} \cup {v \in {"DATABASE_URL"} : env[v] = "not_a_url"}

\* A process with wrong settings that Load can see ends at once, names all of
\* them, and has not touched the database; with wrong settings that it cannot
\* see none ever serves.
RefusedAtOnce ==
    /\ phase # "load" /\ Wrong \ Unseen # {} => exit = 1 /\ did = {} /\ named = Wrong \ Unseen
    /\ "served" \in did => Wrong = {}

\* After SIGTERM the process ends, even if a handler never does: the grace runs
\* out, and what the handlers still do with the database comes to an end, which
\* is what the closing of the pool waits for.
SignalEnds == signalled ~> phase = "exited"
=============================================================================
