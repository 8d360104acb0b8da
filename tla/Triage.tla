------------------------------- MODULE Triage -------------------------------
(***************************************************************************)
(* What one investigation concludes: the toolbox picks real or simulated   *)
(* tools, each planned tool gives a reading or fails, and RulesProvider    *)
(* turns the readings into a conclusion.  The context may end at any time. *)
(* Summaries, confidences and recommended actions are left out.            *)
(***************************************************************************)
EXTENDS Integers, Sequences

CONSTANTS
    PingCount,      \* echo requests of a real ping
    Latencies       \* the latencies in ms a real tool may measure

ASSUME PingAssumption == PingCount \in Nat \ {0} /\ Latencies \subseteq Nat

VARIABLES
    config,     \* the scenario of SIMULATION_SCENARIO, Real without simulation
    asked,      \* the scenario the request names, or Unnamed
    target,     \* whether the target is a host name, whether it has a port
    scenario,   \* the effective scenario, Pending before the toolbox is asked
    done,       \* whether the investigation's context is done
    network,    \* network[t]: what tool t observes if nothing stops it
    left,       \* the tools of the plan still to run
    reading,    \* reading[t]: what tool t observed
    failed,     \* the tools that could not run
    conclusion  \* the root cause, Pending before the analysis

vars == <<config, asked, target, scenario, done, network, left, reading, failed, conclusion>>

Tool == {"dns", "ping", "tcp"}
Scenarios == {"healthy", "packet_loss", "dns_failure", "tcp_failure", "high_latency"}
Real == "real"
Unnamed == ""
Refused == "refused"
Pending == "pending"
NoEvidence == "no_evidence"

Health == {"none", "healthy", "degraded", "down"}
Reading == [health : Health, loss : 0..100, ms : Nat]

\* A tool that has not run, or has failed: its health and loss read as zero.
NoReading == [health |-> "none", loss |-> 0, ms |-> 0]

Plan(tg) ==
    {"ping"} \cup (IF tg.named THEN {"dns"} ELSE {}) \cup (IF tg.port THEN {"tcp"} ELSE {})

\* The plan runs in this order.
Rank == [dns |-> 1, ping |-> 2, tcp |-> 3]

\* Toolbox.Tools: the effective scenario, or a refusal.
Tools(conf, wish) ==
    IF conf = Real THEN (IF wish = Unnamed THEN Real ELSE Refused)
    ELSE IF wish = Unnamed THEN conf
    ELSE IF wish \in Scenarios THEN wish ELSE Refused

(***************************************************************************)
(* The readings of the tools.                                              *)
(***************************************************************************)
HighLatencyMs == 150

HealthForLatency(ms) == IF ms > HighLatencyMs THEN "degraded" ELSE "healthy"

\* Only "resolved" is healthy among the response statuses.
DnsReading(status) ==
    [NoReading EXCEPT !.health = IF status = "resolved" THEN "healthy" ELSE "down"]

\* parsePing over the statistics ping prints: nothing received is down, any
\* loss degrades, and only then does the latency count.
ParsePing(received, loss, ms) ==
    [health |-> IF received = 0 THEN "down"
                ELSE IF loss > 0 THEN "degraded" ELSE HealthForLatency(ms),
     loss |-> loss, ms |-> ms]

\* The loss ping prints for the packets that came back; without an answer
\* there is no round-trip line.
PingReading(received, ms) ==
    ParsePing(received, ((PingCount - received) * 100) \div PingCount,
              IF received = 0 THEN 0 ELSE ms)

TcpReached(ms) == [health |-> HealthForLatency(ms), loss |-> 0, ms |-> ms]
TcpUnreachable(ms) == [health |-> "down", loss |-> 0, ms |-> ms]

SimulateDns(sc) == DnsReading(IF sc = "dns_failure" THEN "nxdomain" ELSE "resolved")

\* The simulated ping states its health next to its figures.
SimulatePing(sc) ==
    [health |-> IF sc \in {"packet_loss", "high_latency"} THEN "degraded" ELSE "healthy",
     loss |-> IF sc = "packet_loss" THEN 18 ELSE 0,
     ms |-> IF sc = "packet_loss" THEN 47 ELSE IF sc = "high_latency" THEN 381 ELSE 12]

SimulateTcp(sc) ==
    IF sc = "tcp_failure" THEN TcpUnreachable(0)
    ELSE TcpReached(IF sc = "packet_loss" THEN 51
                    ELSE IF sc = "high_latency" THEN 395 ELSE 14)

\* What each tool may find, by the scenario.
DnsReadings(sc) ==
    IF sc = Real
    THEN {DnsReading(status) : status \in {"resolved", "nxdomain", "timeout", "error"}}
    ELSE {SimulateDns(sc)}

PingReadings(sc) ==
    IF sc = Real
    THEN {PingReading(n, ms) : n \in 0..PingCount, ms \in Latencies}
    ELSE {SimulatePing(sc)}

TcpReadings(sc) ==
    IF sc = Real
    THEN {TcpReached(ms) : ms \in Latencies} \cup {TcpUnreachable(ms) : ms \in Latencies}
    ELSE {SimulateTcp(sc)}

Networks(sc) ==
    [dns : DnsReadings(sc), ping : PingReadings(sc), tcp : TcpReadings(sc)]

(***************************************************************************)
(* RulesProvider.AnalyzeIncident: the first root cause that fits.          *)
(***************************************************************************)
\* Mutant: ICMP is called filtered before it is known that TCP was tried.
Causes_FilteredFirst ==
    <<"dns", "unreachable", "icmp_filtered", "icmp_only", "tcp", "loss",
      "latency", "incomplete", "no_fault">>

Causes ==
    <<"dns", "unreachable", "icmp_only", "tcp", "icmp_filtered", "loss",
      "latency", "incomplete", "no_fault">>

Fits(cause, r, bad) ==
    \/ cause = "dns" /\ r["dns"].health = "down"
    \/ cause = "unreachable" /\ r["ping"].health = "down" /\ r["tcp"].health = "down"
    \/ cause = "icmp_only" /\ r["ping"].health = "down" /\ r["tcp"].health = "none"
    \/ cause = "tcp" /\ r["tcp"].health = "down"
    \/ cause = "icmp_filtered" /\ r["ping"].health = "down"
    \/ cause = "loss" /\ r["ping"].loss > 0
    \/ cause = "latency" /\ \E t \in {"ping", "tcp"} : r[t].health = "degraded"
    \/ cause = "incomplete" /\ bad # {}
    \/ cause = "no_fault"

Conclusion(r, bad) ==
    Causes[CHOOSE k \in 1..Len(Causes) :
              /\ Fits(Causes[k], r, bad)
              /\ \A j \in 1..(k - 1) : ~Fits(Causes[j], r, bad)]

(***************************************************************************)
(* The investigation.                                                      *)
(***************************************************************************)
IsNext(t) == t \in left /\ \A u \in left : Rank[t] <= Rank[u]

Init ==
    /\ config \in Scenarios \cup {Real}
    /\ asked \in Scenarios \cup {Unnamed, "unknown"}
    /\ target \in [named : BOOLEAN, port : BOOLEAN]
    /\ scenario = Pending
    /\ done = FALSE
    /\ left = {}
    /\ network = [t \in Tool |-> NoReading]
    /\ reading = [t \in Tool |-> NoReading]
    /\ failed = {}
    /\ conclusion = Pending

PickTools ==
    /\ scenario = Pending
    /\ scenario' = Tools(config, asked)
    /\ IF scenario' = Refused THEN UNCHANGED <<network, left>>
       ELSE network' \in Networks(scenario') /\ left' = Plan(target)
    /\ UNCHANGED <<config, asked, target, done, reading, failed, conclusion>>

\* Mutant: the TCP check does not ask whether it was the context that ended it.
Observe_CutOffIsDown(t) ==
    /\ IsNext(t)
    /\ done => scenario = Real /\ (t = "tcp" \/ (t = "dns" /\ network[t].health = "healthy"))
    /\ reading' = [reading EXCEPT ![t] =
                      IF done /\ t = "tcp" THEN TcpUnreachable(0) ELSE network[t]]
    /\ left' = left \ {t}
    /\ UNCHANGED <<config, asked, target, scenario, done, network, failed, conclusion>>

\* Tool.Run succeeds.  Once the context is done only an address the resolver
\* has at hand is still an answer.
Observe(t) ==
    /\ IsNext(t)
    /\ done => t = "dns" /\ scenario = Real /\ network[t].health = "healthy"
    /\ reading' = [reading EXCEPT ![t] = network[t]]
    /\ left' = left \ {t}
    /\ UNCHANGED <<config, asked, target, scenario, done, network, failed, conclusion>>

\* Tool.Run returns an error: a real tool at any time (its own timeout, ping
\* output it does not know), a simulated one when the context is done.
Miss(t) ==
    /\ IsNext(t)
    /\ done \/ scenario = Real
    /\ failed' = failed \cup {t}
    /\ left' = left \ {t}
    /\ UNCHANGED <<config, asked, target, scenario, done, network, reading, conclusion>>

\* analyze, with the rules; without evidence the provider is not asked.
Analyze ==
    /\ scenario \notin {Pending, Refused} /\ left = {} /\ conclusion = Pending
    /\ conclusion' = IF \A t \in Tool : reading[t] = NoReading THEN NoEvidence
                     ELSE Conclusion(reading, failed)
    /\ UNCHANGED <<config, asked, target, scenario, done, network, left, reading, failed>>

\* The deadline, the client's departure or SIGTERM.
Interrupt ==
    /\ ~done /\ conclusion = Pending /\ scenario # Refused
    /\ done' = TRUE
    /\ UNCHANGED <<config, asked, target, scenario, network, left, reading, failed, conclusion>>

Next ==
    \/ PickTools
    \/ \E t \in Tool : Miss(t) \/ Observe(t)
    \/ Analyze
    \/ Interrupt

Spec == Init /\ [][Next]_vars

-----------------------------------------------------------------------------
\* Every variable has its type.
TypeOK ==
    /\ config \in Scenarios \cup {Real}
    /\ asked \in Scenarios \cup {Unnamed, "unknown"}
    /\ target \in [named : BOOLEAN, port : BOOLEAN]
    /\ scenario \in Scenarios \cup {Real, Pending, Refused}
    /\ done \in BOOLEAN
    /\ left \subseteq Plan(target)
    /\ network \in [Tool -> Reading]
    /\ reading \in [Tool -> Reading]
    /\ failed \subseteq Tool
    /\ conclusion \in {Causes[k] : k \in 1..Len(Causes)} \cup {Pending, NoEvidence}

Observed == {t \in Tool : reading[t].health # "none"}
Unhealthy == {t \in Observed : reading[t].health # "healthy"}

\* Each root cause says no more than the readings do, whichever tools ran and
\* whatever earlier rule did not fit (the switch of AnalyzeIncident): a fault
\* it names was observed, one it excludes was not, no fault means that every
\* planned tool was seen healthy, and a gap is never read as health.
ConclusionsSupported ==
    /\ conclusion = "dns" => reading["dns"].health = "down"
    /\ conclusion = "unreachable" =>
          {"ping", "tcp"} \subseteq Observed /\ reading["ping"].health = "down"
             /\ reading["tcp"].health = "down"
    /\ conclusion = "icmp_only" => reading["ping"].health = "down" /\ "tcp" \notin Observed
    /\ conclusion = "tcp" => reading["tcp"].health = "down" /\ reading["ping"].health # "down"
    /\ conclusion = "icmp_filtered" =>
          reading["ping"].health = "down" /\ reading["tcp"].health \in {"healthy", "degraded"}
    /\ conclusion = "loss" => reading["ping"].health = "degraded"
          /\ reading["ping"].loss \in 1..99 /\ reading["tcp"].health # "down"
    /\ conclusion = "latency" => reading["ping"].loss = 0
          /\ \E t \in Observed : reading[t].ms > HighLatencyMs
    /\ conclusion = "incomplete" => Unhealthy = {} /\ Plan(target) \ Observed # {}
    /\ conclusion = "no_fault" => Observed = Plan(target) /\ Unhealthy = {}

\* What is concluded is so, real or simulated, whichever tools failed and
\* wherever the context ended: a fault the conclusion names is there to be seen
\* in the network, and no fault means that there is none.  A tool that was cut
\* off gets the error of one that found the host down, and must not say so.
NamesOnlyTrueFaults ==
    /\ conclusion = "dns" => network["dns"].health = "down"
    /\ conclusion \in {"unreachable", "icmp_only", "icmp_filtered"} =>
          network["ping"].health = "down"
    /\ conclusion \in {"unreachable", "tcp"} => network["tcp"].health = "down"
    /\ conclusion = "icmp_filtered" => network["tcp"].health # "down"
    /\ conclusion = "loss" => network["ping"].loss \in 1..99
    /\ conclusion = "latency" => \E t \in {"ping", "tcp"} :
          network[t].health = "degraded" /\ network[t].ms > HighLatencyMs
    /\ conclusion = "no_fault" => \A t \in Plan(target) : network[t].health = "healthy"

\* The health of every ping and TCP reading is the one its own figures call
\* for, the fixed ones of the simulation included: "consumers cannot tell
\* them apart" (simulated.go).
HealthMatchesFigures ==
    \A t \in Observed \ {"dns"} :
       LET r == reading[t]
       IN  /\ r.health = "degraded" <=>
                 r.loss \in 1..99 \/ (r.ms > HighLatencyMs /\ r.health # "down")
           /\ r.loss = 100 => r.health = "down"

\* The root cause each scenario is made to show.
CauseOf(sc) ==
    CASE sc = "healthy" -> "no_fault" [] sc = "packet_loss" -> "loss"
      [] sc = "dns_failure" -> "dns" [] sc = "tcp_failure" -> "tcp"
      [] sc = "high_latency" -> "latency"

\* A simulated investigation finds the fault of its scenario or, cut short or
\* with a target that leaves the tool in question out, none: never another one.
SimulationInventsNothing ==
    scenario \in Scenarios /\ conclusion # Pending =>
       conclusion \in {CauseOf(scenario), "no_fault", "incomplete", NoEvidence}
=============================================================================
