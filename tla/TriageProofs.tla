---------------------------- MODULE TriageProofs ----------------------------
(***************************************************************************)
(* What the root causes rest on, for every number of echo requests and all *)
(* latencies.  The invariant has three parts: the figures of the readings, *)
(* how readings and failures fill the plan until the analysis, and that a  *)
(* reading is what the network shows its tool.                             *)
(***************************************************************************)
EXTENDS Triage, TLAPS

USE DEF Tool, Health, Real, Refused, Pending, NoEvidence, Scenarios

\* The bounds that integer division gives.

LEMMA DivBounds ==
    ASSUME NEW n \in Nat \ {0}, NEW a \in Nat
    PROVE  a \div n \in Int /\ n * (a \div n) <= a /\ a < n * (a \div n) + n
  OBVIOUS

\* Multiplication by a positive number is monotone.
LEMMA TimesMonotone ==
    ASSUME NEW n \in Nat \ {0}, NEW c \in Int, NEW d \in Int, c <= d
    PROVE  n * c <= n * d
  OBVIOUS

\* A ping that lost not all of its packets lost less than 100 percent.
LEMMA LossBounds ==
    ASSUME NEW n \in Nat \ {0}, NEW k \in 0..n
    PROVE  /\ ((n - k) * 100) \div n \in 0..100
           /\ k > 0 => ((n - k) * 100) \div n \in 0..99
           /\ k = 0 => ((n - k) * 100) \div n = 100
<1> DEFINE a == (n - k) * 100
           d == a \div n
<1>1. a \in Nat /\ a <= n * 100 /\ (k > 0 => a < n * 100)
  OBVIOUS
<1>2. d \in Int /\ n * d <= a /\ a < n * d + n
  BY <1>1, DivBounds
<1> HIDE DEF a, d
<1>3. d >= 0
  <2> SUFFICES ASSUME d <= -1 PROVE FALSE
    BY <1>2
  <2>1. n * d <= n * (-1)
    BY <1>2, TimesMonotone
  <2> QED
    BY <1>1, <1>2, <2>1
<1>4. d <= 100
  <2> SUFFICES ASSUME 101 <= d PROVE FALSE
    BY <1>2
  <2>1. n * 101 <= n * d
    BY <1>2, TimesMonotone
  <2> QED
    BY <1>1, <1>2, <2>1
<1>5. k > 0 => d <= 99
  <2> SUFFICES ASSUME k > 0, 100 <= d PROVE FALSE
    BY <1>2
  <2>1. n * 100 <= n * d
    BY <1>2, TimesMonotone
  <2> QED
    BY <1>1, <1>2, <2>1
<1>6. k = 0 => d = 100
  <2> SUFFICES ASSUME k = 0, d <= 99 PROVE FALSE
    BY <1>2, <1>4
  <2>1. n * d <= n * 99
    BY <1>2, TimesMonotone
  <2>2. a = n * 100
    BY DEF a
  <2> QED
    BY <1>2, <2>1, <2>2
<1> QED
  BY <1>2, <1>3, <1>4, <1>5, <1>6 DEF d, a

\* What the figures of a ping and of a TCP reading may be.
PingSound(r) ==
    /\ r \in Reading
    /\ r.health # "down" /\ r.loss > 0 => r.health = "degraded" /\ r.loss \in 1..99
    /\ r.health = "degraded" => r.loss > 0 \/ r.ms > HighLatencyMs
    /\ r.health # "degraded" /\ r.health # "down" => r.ms <= HighLatencyMs
    /\ r.loss = 100 => r.health = "down"
    /\ r.health = "down" => r.loss = 100

TcpSound(r) ==
    /\ r \in Reading
    /\ r.loss = 0
    /\ r.health = "degraded" => r.ms > HighLatencyMs
    /\ r.health # "degraded" /\ r.health # "down" => r.ms <= HighLatencyMs

DnsSound(r) == r \in Reading /\ r.loss = 0 /\ r.health # "degraded"

ReadingInv ==
    /\ reading = [t \in Tool |-> reading[t]]
    /\ DnsSound(reading["dns"]) /\ PingSound(reading["ping"]) /\ TcpSound(reading["tcp"])

\* The plan is made up of what is left, what was seen and what failed.
PlanInv ==
    /\ config \in Scenarios \cup {Real}
    /\ target \in [named : BOOLEAN, port : BOOLEAN]
    /\ left \subseteq Plan(target)
    /\ failed \cap Observed = {}
    /\ left \cap (failed \cup Observed) = {}
    /\ scenario \in Scenarios \cup {Real, Pending, Refused}
    /\ scenario \in {Pending, Refused} =>
          Observed = {} /\ failed = {} /\ left = {} /\ conclusion = Pending
    /\ scenario \notin {Pending, Refused} => left \cup failed \cup Observed = Plan(target)
    /\ conclusion # Pending =>
          /\ left = {}
          /\ conclusion = NoEvidence \/ conclusion = Conclusion(reading, failed)

\* What a tool has observed is what the network of the scenario shows it.
TruthInv ==
    /\ network \in [Tool -> Reading]
    /\ scenario \in {Pending, Refused} => \A t \in Tool : network[t] = NoReading
    /\ scenario \notin {Pending, Refused} =>
          /\ network["dns"] \in DnsReadings(scenario)
          /\ network["ping"] \in PingReadings(scenario)
          /\ network["tcp"] \in TcpReadings(scenario)
    /\ \A t \in Tool : reading[t] \in {NoReading, network[t]}

IInv == ReadingInv /\ PlanInv /\ TruthInv

\* Some cause is the first to fit, and it is the conclusion.
LEMMA FirstFit ==
    ASSUME NEW r, NEW bad
    PROVE  \E k \in 1..9 : /\ Fits(Causes[k], r, bad)
                           /\ \A j \in 1..(k - 1) : ~Fits(Causes[j], r, bad)
                           /\ Conclusion(r, bad) = Causes[k]
<1> DEFINE F(k) == Fits(Causes[k], r, bad)
           First(k) == F(k) /\ \A j \in 1..(k - 1) : ~F(j)
<1>1. F(9)
  BY DEF Fits, Causes
<1>2. Len(Causes) = 9
  BY DEF Causes
<1> HIDE DEF F
<1>3. \E k \in 1..9 : First(k)
  <2>1. CASE \A j \in 1..8 : ~F(j)
    BY <1>1, <2>1
  <2>2. CASE \E j \in 1..8 : F(j)
    <3>1. PICK j \in 1..8 : F(j)
      BY <2>2
    <3> QED
      BY <3>1
  <2> QED
    BY <2>1, <2>2
<1>4. Conclusion(r, bad) = Causes[CHOOSE k \in 1..9 : First(k)]
  BY <1>2 DEF Conclusion, F
<1> QED
  BY <1>3, <1>4 DEF F

-----------------------------------------------------------------------------
\* Every reading a tool can give has figures that agree with its health.
LEMMA ReadingsSound ==
    ASSUME NEW sc \in Scenarios \cup {Real}
    PROVE  /\ \A v \in DnsReadings(sc) : DnsSound(v) /\ v.health # "none"
           /\ \A v \in PingReadings(sc) : PingSound(v) /\ v.health # "none"
           /\ \A v \in TcpReadings(sc) : TcpSound(v) /\ v.health # "none"
<1>1. ASSUME NEW v \in DnsReadings(sc) PROVE DnsSound(v) /\ v.health # "none"
  <2>1. \E status : v = DnsReading(status)
    BY <1>1 DEF DnsReadings, SimulateDns
  <2> QED
    BY <2>1 DEF DnsReading, DnsSound, Reading, NoReading
<1>2. ASSUME NEW v \in PingReadings(sc) PROVE PingSound(v) /\ v.health # "none"
  <2>1. CASE sc = Real
    <3>1. PICK n \in 0..PingCount, ms \in Latencies : v = PingReading(n, ms)
      BY <1>2, <2>1 DEF PingReadings
    <3> DEFINE loss == ((PingCount - n) * 100) \div PingCount
    <3>2. loss \in 0..100 /\ (n > 0 => loss \in 0..99) /\ (n = 0 => loss = 100)
      BY LossBounds, PingAssumption
    <3>3. v = ParsePing(n, loss, IF n = 0 THEN 0 ELSE ms) /\ ms \in Nat
      BY <3>1, PingAssumption DEF PingReading
    <3> HIDE DEF loss
    <3> QED
      BY <3>2, <3>3 DEF ParsePing, PingSound, Reading, HealthForLatency, HighLatencyMs
  <2>2. CASE sc \in Scenarios
    <3>1. v = SimulatePing(sc)
      BY <1>2, <2>2 DEF PingReadings
    <3> QED
      BY <2>2, <3>1 DEF SimulatePing, PingSound, Reading, HighLatencyMs
  <2> QED
    BY <2>1, <2>2
<1>3. ASSUME NEW v \in TcpReadings(sc) PROVE TcpSound(v) /\ v.health # "none"
  <2>1. \E ms \in Nat : v = TcpReached(ms) \/ v = TcpUnreachable(ms)
    BY <1>3, PingAssumption DEF TcpReadings, SimulateTcp
  <2> QED
    BY <2>1 DEF TcpReached, TcpUnreachable, TcpSound, Reading, HealthForLatency, HighLatencyMs
<1> QED
  BY <1>1, <1>2, <1>3

\* Before the first tool there is nothing to agree about.
LEMMA InvInit == Init => IInv
<1> SUFFICES ASSUME Init PROVE IInv
  OBVIOUS
<1>1. ReadingInv
  <2>1. DnsSound(NoReading) /\ PingSound(NoReading) /\ TcpSound(NoReading)
    BY DEF NoReading, Reading, DnsSound, PingSound, TcpSound, HighLatencyMs
  <2>2. reading = [t \in Tool |-> NoReading]
    BY DEF Init
  <2> HIDE DEF Tool
  <2>3. {"dns", "ping", "tcp"} \subseteq Tool
    BY DEF Tool
  <2> QED
    BY <2>1, <2>2, <2>3 DEF ReadingInv
<1>2. Observed = {}
  BY DEF Init, Observed, NoReading
<1>3. TruthInv
  BY DEF Init, TruthInv, NoReading, Reading
<1> QED
  BY <1>1, <1>2, <1>3 DEF Init, IInv, PlanInv

\* The network shows each tool something sound.
LEMMA NetworkSound ==
    ASSUME IInv, scenario \notin {Pending, Refused}
    PROVE  /\ DnsSound(network["dns"]) /\ PingSound(network["ping"])
           /\ TcpSound(network["tcp"]) /\ \A t \in Tool : network[t].health # "none"
<1>1. scenario \in Scenarios \cup {Real}
  BY DEF IInv, PlanInv
<1> QED
  BY <1>1, ReadingsSound DEF IInv, TruthInv

\* A step either only records the conclusion or leaves it pending.
LEMMA InvStep == IInv /\ [Next]_vars => IInv'
<1> SUFFICES ASSUME IInv, [Next]_vars PROVE IInv'
  OBVIOUS
<1> USE DEF IInv
<1>1. CASE PickTools
  <2>1. scenario' \in Scenarios \cup {Real, Refused}
    BY <1>1 DEF PickTools, Tools, Init, PlanInv
  <2>2. TruthInv'
    <3>0. \A t \in Tool : reading'[t] = NoReading
      <4> SUFFICES ASSUME NEW t \in Tool PROVE reading[t] = NoReading
        BY <1>1 DEF PickTools
      <4> QED
        BY <1>1 DEF PickTools, TruthInv
    <3>1. CASE scenario' = Refused
      BY <1>1, <3>0, <3>1 DEF PickTools, TruthInv
    <3>2. CASE scenario' # Refused
      <4>1. network' \in Networks(scenario')
        BY <1>1, <3>2 DEF PickTools
      <4>2. /\ network'["dns"] \in DnsReadings(scenario')
            /\ network'["ping"] \in PingReadings(scenario')
            /\ network'["tcp"] \in TcpReadings(scenario')
            /\ network' = [t \in Tool |-> network'[t]]
        BY <4>1 DEF Networks
      <4>3. network' \in [Tool -> Reading]
        BY <2>1, <3>2, <4>2, ReadingsSound DEF DnsSound, PingSound, TcpSound
      <4> QED
        BY <2>1, <3>0, <3>2, <4>2, <4>3 DEF TruthInv
    <3> QED
      BY <3>1, <3>2
  <2> QED
    BY <1>1, <2>1, <2>2 DEF PickTools, ReadingInv, PlanInv, Observed, Plan
<1>2. ASSUME NEW t \in Tool, Miss(t) PROVE IInv'
  <2>1. ReadingInv' /\ TruthInv'
    BY <1>2 DEF Miss, ReadingInv, TruthInv
  <2>2. t \in left /\ left' = left \ {t} /\ failed' = failed \cup {t}
    BY <1>2 DEF Miss, IsNext
  <2>3. scenario \notin {Pending, Refused} /\ conclusion = Pending
    BY <2>2 DEF PlanInv
  <2>4. Observed' = Observed
    BY <1>2 DEF Miss, Observed
  <2> QED
    BY <1>2, <2>1, <2>2, <2>3, <2>4 DEF Miss, PlanInv
<1>3. ASSUME NEW t \in Tool, Observe(t) PROVE IInv'
  <2>1. t \in left /\ left' = left \ {t} /\ reading' = [reading EXCEPT ![t] = network[t]]
    BY <1>3 DEF Observe, IsNext
  <2>2. scenario \notin {Pending, Refused} /\ conclusion = Pending
    BY <2>1 DEF PlanInv
  <2>3. \A u \in Tool : reading'[u] = IF u = t THEN network[t] ELSE reading[u]
    BY <2>1 DEF ReadingInv
  <2>4. reading' = [u \in Tool |-> reading'[u]]
    BY <2>1 DEF ReadingInv
  <2>5. ReadingInv'
    BY <2>2, <2>3, <2>4, NetworkSound DEF ReadingInv
  <2>6. TruthInv'
    BY <1>3, <2>3 DEF Observe, TruthInv
  <2>7. Observed' = Observed \cup {t}
    BY <2>2, <2>3, NetworkSound DEF Observed
  <2> QED
    BY <1>3, <2>1, <2>2, <2>5, <2>6, <2>7 DEF Observe, PlanInv
<1>4. CASE Analyze
  BY <1>4 DEF Analyze, ReadingInv, PlanInv, TruthInv, Observed
<1>5. CASE Interrupt
  BY <1>5 DEF Interrupt, ReadingInv, PlanInv, TruthInv, Observed
<1>6. CASE UNCHANGED vars
  BY <1>6 DEF vars, ReadingInv, PlanInv, TruthInv, Observed
<1> QED
  BY <1>1, <1>2, <1>3, <1>4, <1>5, <1>6 DEF Next

\* The first rule that fits says no more than the readings do.
LEMMA InvSupports == IInv => ConclusionsSupported
<1> SUFFICES ASSUME IInv, conclusion \notin {Pending, NoEvidence}
             PROVE  ConclusionsSupported
  BY DEF ConclusionsSupported
<1>1. conclusion = Conclusion(reading, failed) /\ left = {}
  BY DEF IInv, PlanInv
<1>2. PICK k \in 1..9 : /\ Fits(Causes[k], reading, failed)
                        /\ \A j \in 1..(k - 1) : ~Fits(Causes[j], reading, failed)
                        /\ conclusion = Causes[k]
  BY <1>1, FirstFit
<1>3. failed \cup Observed = Plan(target) /\ failed \cap Observed = {}
  BY <1>1 DEF IInv, PlanInv
<1> DEFINE F(c) == Fits(c, reading, failed)
<1>4. /\ conclusion = "dns" => F("dns")
      /\ conclusion = "unreachable" => F("unreachable")
      /\ conclusion = "icmp_only" => F("icmp_only")
      /\ conclusion = "tcp" => F("tcp") /\ ~F("unreachable")
      /\ conclusion = "icmp_filtered" =>
            F("icmp_filtered") /\ ~F("unreachable") /\ ~F("icmp_only") /\ ~F("tcp")
      /\ conclusion = "loss" => F("loss") /\ ~F("tcp") /\ ~F("icmp_filtered")
      /\ conclusion = "latency" => F("latency") /\ ~F("loss") /\ ~F("icmp_filtered")
      /\ conclusion \in {"incomplete", "no_fault"} =>
            ~F("dns") /\ ~F("tcp") /\ ~F("icmp_filtered") /\ ~F("latency")
      /\ conclusion = "incomplete" => F("incomplete")
      /\ conclusion = "no_fault" => ~F("incomplete")
  BY <1>2 DEF Causes
<1>5. /\ DnsSound(reading["dns"]) /\ PingSound(reading["ping"]) /\ TcpSound(reading["tcp"])
  BY DEF IInv, ReadingInv
<1>6. Unhealthy = {} <=> \A t \in Tool : reading[t].health \in {"none", "healthy"}
  BY DEF Unhealthy, Observed
<1>7. conclusion \in {"incomplete", "no_fault"} => Unhealthy = {}
  BY <1>4, <1>5, <1>6 DEF Fits, DnsSound, PingSound, TcpSound, Reading
<1>8. conclusion = "latency" => \E t \in Observed : reading[t].ms > HighLatencyMs
  BY <1>4, <1>5 DEF Fits, PingSound, TcpSound, Observed, Reading
<1>9. conclusion = "incomplete" => Plan(target) \ Observed # {}
  BY <1>3, <1>4 DEF Fits
<1>10. conclusion = "no_fault" => Observed = Plan(target)
  BY <1>3, <1>4 DEF Fits
<1> QED
  BY <1>4, <1>5, <1>7, <1>8, <1>9, <1>10
  DEF ConclusionsSupported, Fits, PingSound, TcpSound, Observed, Reading

\* No root cause says more than the readings, for every ping count and all
\* latencies.
THEOREM RootCausesSupported == Spec => []ConclusionsSupported
  BY InvInit, InvStep, InvSupports, PTL DEF Spec

\* The health of every reading is the one its figures call for.
THEOREM HealthFromFigures == Spec => []HealthMatchesFigures
<1>1. ASSUME IInv PROVE HealthMatchesFigures
  <2>1. PingSound(reading["ping"]) /\ TcpSound(reading["tcp"])
    BY <1>1 DEF IInv, ReadingInv
  <2>2. \A t \in Observed : t = "dns" \/ t = "ping" \/ t = "tcp"
    BY DEF Observed
  <2>3. \A r : PingSound(r) \/ TcpSound(r) =>
           /\ r.health = "degraded" <=>
                 r.loss \in 1..99 \/ (r.ms > HighLatencyMs /\ r.health # "down")
           /\ r.loss = 100 => r.health = "down"
    BY DEF PingSound, TcpSound, Reading, HighLatencyMs
  <2> QED
    BY <2>1, <2>2, <2>3 DEF HealthMatchesFigures
<1> QED
  BY <1>1, InvInit, InvStep, PTL DEF Spec

\* What is observed is so, and what the rules conclude from it.
THEOREM NamedFaultsAreTrue == Spec => []NamesOnlyTrueFaults
<1>1. ASSUME IInv PROVE NamesOnlyTrueFaults
  <2> SUFFICES ASSUME conclusion \notin {Pending, NoEvidence} PROVE NamesOnlyTrueFaults
    BY DEF NamesOnlyTrueFaults
  <2>1. ConclusionsSupported
    BY <1>1, InvSupports
  <2>2. scenario \notin {Pending, Refused}
    BY <1>1 DEF IInv, PlanInv
  <2>3. \A t \in Observed : t \in Tool /\ reading[t] = network[t]
    BY <1>1 DEF IInv, TruthInv, Observed, NoReading
  <2>4. \A t \in Tool : reading[t].health # "none" \/ reading[t].loss # 0 => reading[t] = network[t]
    BY <1>1 DEF IInv, TruthInv, NoReading
  <2>5. conclusion = "latency" => \E t \in {"ping", "tcp"} :
          network[t].health = "degraded" /\ network[t].ms > HighLatencyMs
    <3> SUFFICES ASSUME conclusion = "latency"
                 PROVE  \E t \in {"ping", "tcp"} :
                           network[t].health = "degraded" /\ network[t].ms > HighLatencyMs
      OBVIOUS
    <3>1. PICK t \in {"ping", "tcp"} : reading[t].health = "degraded"
      <4>1. Fits("latency", reading, failed)
        <5>1. conclusion = Conclusion(reading, failed)
          BY <1>1 DEF IInv, PlanInv
        <5>2. PICK k \in 1..9 : Fits(Causes[k], reading, failed) /\ conclusion = Causes[k]
          BY <5>1, FirstFit
        <5> QED
          BY <5>2
      <4> QED
        BY <4>1 DEF Fits
    <3>2. network[t].health = "degraded" /\ reading[t] = network[t]
      BY <2>4, <3>1
    <3>3. reading["ping"].loss = 0
      BY <2>1 DEF ConclusionsSupported
    <3>4. network[t].ms > HighLatencyMs
      <4>1. PingSound(reading["ping"]) /\ TcpSound(reading["tcp"])
        BY <1>1 DEF IInv, ReadingInv
      <4> QED
        BY <3>1, <3>2, <3>3, <4>1 DEF PingSound, TcpSound, Reading
    <3> QED
      BY <3>2, <3>4
  <2>6. conclusion = "no_fault" => \A t \in Plan(target) : network[t].health = "healthy"
    <3>1. conclusion = "no_fault" =>
             \A t \in Plan(target) : t \in Observed /\ reading[t].health = "healthy"
      BY <2>1 DEF ConclusionsSupported, Unhealthy
    <3> QED
      BY <2>3, <3>1
  <2>7. conclusion = "loss" => network["ping"].loss \in 1..99
    BY <2>1, <2>4 DEF ConclusionsSupported
  <2>8. conclusion = "icmp_filtered" => network["tcp"].health # "down"
    BY <2>1, <2>4 DEF ConclusionsSupported
  <2> QED
    BY <2>1, <2>4, <2>5, <2>6, <2>7, <2>8 DEF ConclusionsSupported, NamesOnlyTrueFaults
<1> QED
  BY <1>1, InvInit, InvStep, PTL DEF Spec

\* What the toolbox was asked for stays what it was.
AskedInv == asked \in Scenarios \cup {Unnamed, "unknown"} /\ done \in BOOLEAN

LEMMA AskedStep == (Init => AskedInv) /\ (AskedInv /\ [Next]_vars => AskedInv')
  BY DEF Init, AskedInv, Next, PickTools, Miss, Observe, Analyze, Interrupt, vars

\* Every variable has its type: no tool is run that was not planned, and the
\* analysis names one of the causes of the rules.
THEOREM TypeCorrect == Spec => []TypeOK
<1>1. ASSUME IInv, AskedInv PROVE TypeOK
  <2>1. reading \in [Tool -> Reading]
    BY <1>1 DEF IInv, ReadingInv, DnsSound, PingSound, TcpSound, Tool
  <2>4. network \in [Tool -> Reading]
    BY <1>1 DEF IInv, TruthInv
  <2>2. failed \subseteq Tool
    BY <1>1 DEF IInv, PlanInv, Plan, Tool
  <2>3. Conclusion(reading, failed) \in {Causes[k] : k \in 1..Len(Causes)}
    BY FirstFit DEF Causes
  <2> QED
    BY <1>1, <2>1, <2>2, <2>3, <2>4 DEF IInv, PlanInv, AskedInv, TypeOK
<1> QED
  BY <1>1, InvInit, InvStep, AskedStep, PTL DEF Spec

\* What the scripted readings let the rules conclude.
LEMMA ScenarioCauses ==
    ASSUME IInv, scenario \in Scenarios, conclusion \notin {Pending, NoEvidence}
    PROVE  conclusion \in {CauseOf(scenario), "no_fault", "incomplete"}
<1>1. conclusion = Conclusion(reading, failed)
  BY DEF IInv, PlanInv
<1>2. PICK k \in 1..9 : /\ Fits(Causes[k], reading, failed)
                        /\ \A j \in 1..(k - 1) : ~Fits(Causes[j], reading, failed)
                        /\ conclusion = Causes[k]
  BY <1>1, FirstFit
<1>3. /\ reading["dns"] \in {NoReading, SimulateDns(scenario)}
      /\ reading["ping"] \in {NoReading, SimulatePing(scenario)}
      /\ reading["tcp"] \in {NoReading, SimulateTcp(scenario)}
  <2>1. scenario \notin {Real, Pending, Refused}
    BY DEF Scenarios, Real
  <2>2. /\ network["dns"] = SimulateDns(scenario) /\ network["ping"] = SimulatePing(scenario)
        /\ network["tcp"] = SimulateTcp(scenario)
    BY <2>1 DEF IInv, TruthInv, DnsReadings, PingReadings, TcpReadings
  <2>3. "dns" \in Tool /\ "ping" \in Tool /\ "tcp" \in Tool
    BY DEF Tool
  <2> QED
    BY <2>2, <2>3 DEF IInv, TruthInv
<1>4. /\ reading["dns"].health = "down" => scenario = "dns_failure"
      /\ reading["ping"].health # "down"
      /\ reading["ping"].loss > 0 => scenario = "packet_loss"
      /\ reading["ping"].health = "degraded" => scenario \in {"packet_loss", "high_latency"}
      /\ scenario = "packet_loss" /\ reading["ping"].health = "degraded" => reading["ping"].loss > 0
      /\ reading["tcp"].health = "down" => scenario = "tcp_failure"
      /\ reading["tcp"].health = "degraded" => scenario = "high_latency"
  BY <1>3 DEF NoReading, SimulateDns, DnsReading, SimulatePing, SimulateTcp, TcpReached,
     TcpUnreachable, HealthForLatency, HighLatencyMs, Scenarios
<1>5. conclusion \in {"dns", "tcp", "loss", "latency", "incomplete", "no_fault",
                      "unreachable", "icmp_only", "icmp_filtered"}
  BY <1>2 DEF Causes
<1>6. Fits(conclusion, reading, failed) /\ (conclusion = "latency" => ~Fits("loss", reading, failed))
  BY <1>2 DEF Causes
<1> QED
  BY <1>4, <1>5, <1>6 DEF Fits, CauseOf, Scenarios

\* A simulation never shows the fault of another scenario, on any target and
\* wherever it is cut short.
THEOREM SimulationsShowTheirFault == Spec => []SimulationInventsNothing
<1>1. ASSUME IInv PROVE SimulationInventsNothing
  BY <1>1, ScenarioCauses DEF SimulationInventsNothing
<1> QED
  BY <1>1, InvInit, InvStep, PTL DEF Spec
=============================================================================
