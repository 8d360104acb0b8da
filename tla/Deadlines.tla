----------------------------- MODULE Deadlines -----------------------------
(***************************************************************************)
(* The seconds of one POST .../investigate with the real tools: how long   *)
(* the server, the engine, the tools, the provider, the database and the   *)
(* ingress wait for each other, and who gives up first.  Each step adds    *)
(* its duration to the clock, which starts with the request's first byte.  *)
(* Everything is cut off at its limit and notices at once.                 *)
(***************************************************************************)
EXTENDS Integers, FiniteSets, FiniteSetsExt

CONSTANTS
    Timeouts,   \* INVESTIGATION_TIMEOUT
    LlmTimeout, \* LLM_TIMEOUT
    Arrivals,   \* how long a client takes for its headers, or for its body
    Waits,      \* how long a statement waits for a connection of the pool
    Delays      \* how long a statement runs, or the provider thinks

ASSUME DeadlinesAssumption ==
    /\ Timeouts \subseteq Nat \ {0} /\ LlmTimeout \in Nat \ {0}
    /\ Arrivals \subseteq Nat /\ Waits \subseteq Nat /\ Delays \subseteq Nat

ReadHeaderTimeout == 5
ReadTimeout == 15

\* Mutant: responses get the timeout of the investigation and no more.
WriteTimeout_Exact(timeout) == timeout

WriteTimeout(timeout) == timeout + 15

StatementTimeout == 10
ToolTimeout == 10
SaveTimeout == 10

\* What FailStaleInvestigations takes for orphaned.
StaleAge(timeout) == timeout + SaveTimeout + 5

\* Mutant: nginx's own proxy_read_timeout.
ProxyReadTimeout_Default == 60

ProxyReadTimeout == 120

Tool == {"dns", "ping", "tcp"}
Behaviour == {"answers", "refuses", "silent"}

\* How long a tool waits for a silent host by itself: two queries of the
\* resolver, for each search domain; four packets and the ten seconds ping
\* waits when nothing came back; the dialer's timeout.
Patience(tool) == CASE tool = "dns" -> {10, 20} [] tool = "ping" -> {13} [] tool = "tcp" -> {5}

VARIABLES
    phase,      \* what the request is at
    clock,
    timeout,    \* the configured one
    provider,   \* "rules" or "llm"
    via,        \* "direct" or "ingress"
    network,    \* network[t]: what tool t meets
    todo,       \* the tools still to run
    outcome,    \* outcome[t]: "none", "evidence", "down", "failed"
    told,       \* "waiting" for the answer, "told", or the answer was "lost"
    at          \* when the headers and the body were read, the investigation
                \* and its save started

deadlineVars == <<phase, clock, timeout, provider, via, network, todo, outcome, told, at>>
setting == <<timeout, provider, via, network>>

DeadlinesInit ==
    /\ phase = "headers" /\ clock = 0
    /\ timeout \in Timeouts /\ provider \in {"rules", "llm"} /\ via \in {"direct", "ingress"}
    /\ network \in [Tool -> Behaviour]
    /\ \E byName, port \in BOOLEAN :
         todo = {"ping"} \cup (IF byName THEN {"dns"} ELSE {}) \cup (IF port THEN {"tcp"} ELSE {})
    /\ outcome = [t \in Tool |-> "none"]
    /\ told = "waiting"
    /\ at = [headers |-> 0, body |-> 0, start |-> 0, save |-> 0]

-----------------------------------------------------------------------------
\* The server closes the connection of a client that is too slow with its
\* headers; with the body the read fails and the request is answered.
ReadHeaders ==
    /\ phase = "headers"
    /\ \E d \in Arrivals :
         /\ clock' = Min({d, ReadHeaderTimeout})
         /\ phase' = IF d < ReadHeaderTimeout THEN "body" ELSE "closed"
    /\ at' = [at EXCEPT !.headers = clock']
    /\ UNCHANGED <<setting, todo, outcome, told>>

ReadBody ==
    /\ phase = "body"
    /\ \E d \in Arrivals :
         /\ clock' = Min({clock + d, ReadTimeout})
         /\ phase' = IF clock + d < ReadTimeout THEN "load" ELSE "refused"
    /\ at' = [at EXCEPT !.body = clock']
    /\ UNCHANGED <<setting, todo, outcome, told>>

\* When whoever sent the request stops waiting; the request's context ends then.
LongAfter == 10000
HangUp == IF via = "ingress" THEN at.body + ProxyReadTimeout ELSE LongAfter

\* Mutant: the tools and the provider run under the request's context.
Limit_Request == HangUp

\* The end of the investigation's context.
Limit == Min({at.start + timeout, HangUp})

\* A statement waits for a connection without a limit of its own, and then runs.
Load ==
    /\ phase = "load"
    /\ \E w \in Waits, d \in Delays :
         LET end == clock + w + Min({d, StatementTimeout}) IN
         /\ clock' = Min({end, HangUp})
         /\ phase' = IF d < StatementTimeout /\ end < HangUp THEN "insert" ELSE "refused"
    /\ at' = [at EXCEPT !.start = clock']
    /\ UNCHANGED <<setting, todo, outcome, told>>

Insert ==
    /\ phase = "insert"
    /\ \E w \in Waits, d \in Delays :
         LET end == clock + w + Min({d, StatementTimeout}) IN
         /\ clock' = Min({end, Limit})
         /\ phase' = IF d < StatementTimeout /\ end < Limit THEN "tools" ELSE "refused"
    /\ UNCHANGED <<setting, todo, outcome, at, told>>

Order == [dns |-> 1, ping |-> 2, tcp |-> 3]

\* Four packets at intervals of a second, or one exchange.
Busy(t) == IF t = "ping" THEN 3 ELSE 0

\* A tool that is killed at its limit has observed nothing, whatever it had seen.
RunTool(t) ==
    /\ phase = "tools" /\ t \in todo
    /\ \A u \in todo : Order[t] <= Order[u]
    /\ \E d \in IF network[t] = "silent" THEN Patience(t) ELSE {Busy(t)} :
         LET cut == Min({clock + ToolTimeout, Limit}) IN
         /\ clock' = Min({clock + d, cut})
         /\ \/ clock + d >= cut /\ outcome' = [outcome EXCEPT ![t] = "failed"]
            \/ /\ clock + d <= cut /\ clock < Limit
               /\ outcome' = [outcome EXCEPT ![t] = IF network[t] = "answers" THEN "evidence" ELSE "down"]
    /\ todo' = todo \ {t}
    /\ UNCHANGED <<phase, setting, at, told>>

Observed == {t \in Tool : outcome[t] \in {"evidence", "down"}}

\* Without evidence nobody is asked; the rules take no time.
Analyze ==
    /\ phase = "tools" /\ todo = {}
    /\ \E d \in Delays :
         clock' = IF Observed = {} \/ provider = "rules" THEN clock
                  ELSE Min({clock + d, clock + LlmTimeout, Limit})
    /\ phase' = "save"
    /\ at' = [at EXCEPT !.save = clock']
    /\ UNCHANGED <<setting, todo, outcome, told>>

\* Under a context of its own.
Save ==
    /\ phase = "save"
    /\ \E w \in Waits, d \in Delays :
         /\ clock' = clock + Min({w + d, SaveTimeout})
         /\ phase' = IF w + d < SaveTimeout THEN "stored" ELSE "unsaved"
    /\ UNCHANGED <<setting, todo, outcome, at, told>>

\* The answer is written before the connection's write deadline, or not at all.
WriteDeadline == at.headers + WriteTimeout(timeout)

SendAnswer ==
    /\ phase \in {"stored", "unsaved", "refused"} /\ told = "waiting"
    /\ told' = IF clock <= WriteDeadline /\ clock <= HangUp THEN "told" ELSE "lost"
    /\ UNCHANGED <<phase, clock, setting, todo, outcome, at>>

DeadlinesNext ==
    \/ ReadHeaders \/ ReadBody \/ Load \/ Insert \/ Analyze \/ Save \/ SendAnswer
    \/ \E t \in Tool : RunTool(t)

DeadlinesSpec == DeadlinesInit /\ [][DeadlinesNext]_deadlineVars

-----------------------------------------------------------------------------

\* An answer somebody still waits for is lost only if the body, the load and the
\* save took more than the 15 seconds that the write deadline leaves for them:
\* the tools and the provider alone, however slow, never cost the answer.
OnlyStorageCostsAnswers ==
    told = "lost" /\ clock <= HangUp => (at.start - at.headers) + (clock - at.save) > 15

\* The ingress waits until an investigation has ended, with a slow network, a
\* slow provider and a slow database, unless the load had to wait for the pool.
IngressOutwaits ==
    via = "ingress" /\ phase # "load" /\ at.start - at.body <= StatementTimeout
      => clock <= HangUp

\* An investigation that is still at work, its save included, is younger than
\* what another replica's sweep takes for orphaned.
SavedBeforeStale ==
    phase \in {"tools", "save", "stored"} => clock - at.start < StaleAge(timeout)
=============================================================================
