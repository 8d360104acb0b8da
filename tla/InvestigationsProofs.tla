------------------------ MODULE InvestigationsProofs ------------------------
(***************************************************************************)
(* Theorems about Investigations, for every value of its constants.        *)
(*                                                                         *)
(* The proofs go through one inductive invariant, built in layers: types   *)
(* and owners; the count of slots; the agreement of a call with its row;   *)
(* the time bounds.  The first lemmas say what each action does to the     *)
(* record-valued variables, field by field, so that the proofs of the      *)
(* invariants need not expand the actions again.  The last part is about   *)
(* shutdown, and has an invariant of its own.                              *)
(***************************************************************************)
EXTENDS Investigations, FiniteSetTheorems, TLAPS

\* Types, but for the range of the slot counts, which needs the counting
\* argument; a call being served has a live owner, and one past the lookup
\* a stored incident.
TypeInv ==
    /\ proc \in [Replica -> {"down", "serving", "stopping"}]
    /\ grace \in [Replica -> 0..ShutdownGrace]
    /\ slots \in [Replica -> Int]
    /\ call \in [Request -> Call]
    /\ row \in [Request -> Row]
    /\ analyzed \subseteq Incident
    /\ \A q \in Request : call[q].pc \in Holding =>
          call[q].owner \in Replica /\ proc[call[q].owner] # "down"
    /\ \A q \in Request : call[q].pc \in Timed => call[q].inc \in Incident

(***************************************************************************)
(* Constants and constructors.                                             *)
(***************************************************************************)
LEMMA GraceType == ShutdownGrace \in Nat \ {0}
BY TimeAssumption DEF ShutdownGrace

LEMMA StaleAfterType ==
    ASSUME NEW r \in Replica
    PROVE  Timeout[r] \in Nat \ {0} /\ StaleAfter(r) \in Nat
BY GraceType, ConfigAssumption DEF StaleAfter

LEMMA BudgetTypes ==
    SaveBudget \in Nat /\ \A r \in Replica : WorkBudget(r) \in Nat
BY ConfigAssumption, TimeAssumption DEF SaveBudget, WorkBudget

LEMMA PlanType == ASSUME NEW i PROVE Plan(i) \subseteq Tool
BY DEF Plan, Tool

LEMMA NoCallType == NoCall \in Call
BY DEF NoCall, Call, PC, Answer

LEMMA NoRowType == NoRow \in Row
BY DEF NoRow, Row, Status

LEMMA ReturnedFields ==
    ASSUME NEW a \in Answer
    PROVE  /\ Returned(a) \in Call
           /\ Returned(a).pc = "returned"
           /\ Returned(a).answer = a
BY DEF Returned, NoCall, Call, PC, Answer

\* Cancelling a context never adds time, and changes nothing else.
LEMMA CancelFields ==
    ASSUME NEW c \in Call
    PROVE  /\ Cancel(c) \in Call
           /\ Cancel(c).timer <= c.timer /\ Cancel(c).timer <= Lag
           /\ Cancel(c).pc = c.pc /\ Cancel(c).owner = c.owner /\ Cancel(c).inc = c.inc
           /\ Cancel(c).ran = c.ran /\ Cancel(c).evidence = c.evidence
           /\ Cancel(c).cites = c.cites /\ Cancel(c).answer = c.answer
BY TimeAssumption DEF Cancel, Call, Smaller

(***************************************************************************)
(* What the actions do to a call and to a row.                             *)
(***************************************************************************)
\* Only q's call changes, and it is still a call.
OnlyCall(q) == call' = [call EXCEPT ![q] = call'[q]] /\ call'[q] \in Call

OnlyRow(q) == row' = [row EXCEPT ![q] = row'[q]] /\ row'[q] \in Row

LEMMA OnlyCallType ==
    ASSUME TypeInv, NEW q \in Request, OnlyCall(q)
    PROVE  /\ call' \in [Request -> Call]
           /\ \A p \in Request : p # q => call'[p] = call[p]
BY DEF TypeInv, OnlyCall

LEMMA OnlyRowType ==
    ASSUME TypeInv, NEW q \in Request, OnlyRow(q)
    PROVE  /\ row' \in [Request -> Row]
           /\ \A p \in Request : p # q => row'[p] = row[p]
BY DEF TypeInv, OnlyRow

LEMMA BusyStep ==
    ASSUME TypeInv, NEW q \in Request, Busy(q)
    PROVE  /\ OnlyCall(q)
           /\ call[q].pc = "idle"
           /\ call'[q].pc = "returned" /\ call'[q].answer = "busy"
           /\ UNCHANGED <<proc, grace, slots, row, analyzed>>
BY ReturnedFields DEF Busy, Becomes, OnlyCall, TypeInv, Answer

LEMMA ReturnStep ==
    ASSUME TypeInv, NEW q \in Request, call[q].pc \in Holding,
           NEW a \in Answer, Return(q, a)
    PROVE  /\ OnlyCall(q)
           /\ call'[q].pc = "returned" /\ call'[q].answer = a
           /\ slots' = [slots EXCEPT ![call[q].owner] = @ - 1]
           /\ slots' \in [Replica -> Int]
BY ReturnedFields DEF Return, Becomes, OnlyCall, TypeInv

LEMMA AdmitStep ==
    ASSUME TypeInv, NEW q \in Request, NEW r \in Replica,
           NEW i \in Incident \cup {Ghost}, Admit(q, r, i)
    PROVE  /\ OnlyCall(q)
           /\ call[q].pc = "idle" /\ proc[r] # "down"
           /\ call'[q].pc = "admitted" /\ call'[q].owner = r /\ call'[q].inc = i
           /\ call'[q].timer = WorkBudget(r) /\ call'[q].answer = "pending"
           /\ call'[q].ran = {} /\ call'[q].evidence = {} /\ call'[q].cites = {}
           /\ slots[r] < MaxConcurrent
           /\ slots' = [slots EXCEPT ![r] = @ + 1]
           /\ slots' \in [Replica -> Int]
           /\ UNCHANGED <<proc, grace, row, analyzed>>
<1> DEFINE c == [NoCall EXCEPT !.pc = "admitted", !.owner = r, !.inc = i,
                               !.timer = WorkBudget(r)]
<1>1. /\ c \in Call
      /\ c.pc = "admitted" /\ c.owner = r /\ c.inc = i /\ c.timer = WorkBudget(r)
      /\ c.answer = "pending" /\ c.ran = {} /\ c.evidence = {} /\ c.cites = {}
  BY BudgetTypes DEF NoCall, Call, PC, Answer
<1>2. call' = [call EXCEPT ![q] = c]
  BY DEF Admit, Becomes
<1> HIDE DEF c
<1> QED BY <1>1, <1>2 DEF Admit, Free, OnlyCall, TypeInv

LEMMA LoadStep ==
    ASSUME TypeInv, NEW q \in Request, LoadIncident(q)
    PROVE  /\ OnlyCall(q)
           /\ call[q].pc = "admitted"
           /\ call'[q].pc = "creating" /\ call'[q].owner = call[q].owner
           /\ call'[q].inc = call[q].inc /\ call'[q].inc \in Incident
           /\ call'[q].timer <= call[q].timer
           /\ proc[call[q].owner] = "stopping" => call'[q].timer <= Lag
           /\ call'[q].ran = call[q].ran /\ call'[q].evidence = call[q].evidence
           /\ call'[q].cites = call[q].cites /\ call'[q].answer = call[q].answer
           /\ UNCHANGED <<proc, grace, slots, row, analyzed>>
<1> DEFINE c == [call[q] EXCEPT !.pc = "creating"]
<1>1. /\ c \in Call /\ c.pc = "creating" /\ c.owner = call[q].owner
      /\ c.inc = call[q].inc /\ c.timer = call[q].timer /\ c.ran = call[q].ran
      /\ c.evidence = call[q].evidence /\ c.cites = call[q].cites
      /\ c.answer = call[q].answer /\ c.timer \in Nat
  BY DEF TypeInv, Call, PC
<1>2. call' = [call EXCEPT ![q] = IF proc[c.owner] = "stopping" THEN Cancel(c) ELSE c]
  BY DEF LoadIncident, Becomes
<1> HIDE DEF c
<1>3. CASE proc[c.owner] = "stopping"
  BY <1>1, <1>2, <1>3, CancelFields DEF LoadIncident, OnlyCall, TypeInv
<1>4. CASE proc[c.owner] # "stopping"
  BY <1>1, <1>2, <1>4 DEF LoadIncident, OnlyCall, TypeInv
<1> QED BY <1>3, <1>4

LEMMA InsertStep ==
    ASSUME TypeInv, NEW q \in Request, call[q].pc = "creating", Insert(q)
    PROVE  /\ OnlyRow(q)
           /\ row'[q].status = "running" /\ row'[q].inc = call[q].inc
           /\ row'[q].age = row[q].age
           /\ row'[q].evidence = row[q].evidence /\ row'[q].cites = row[q].cites
BY DEF Insert, OnlyRow, TypeInv, Row, Status, Timed, Bounded

LEMMA InsertRowStep ==
    ASSUME TypeInv, NEW q \in Request, InsertRow(q)
    PROVE  /\ OnlyCall(q)
           /\ call[q].pc = "creating"
           /\ call'[q].pc = "diagnosing" /\ call'[q].owner = call[q].owner
           /\ call'[q].inc = call[q].inc /\ call'[q].timer = call[q].timer
           /\ call'[q].ran = call[q].ran /\ call'[q].evidence = call[q].evidence
           /\ call'[q].cites = call[q].cites /\ call'[q].answer = call[q].answer
           /\ UNCHANGED <<proc, grace, slots, analyzed>>
BY DEF InsertRow, Becomes, OnlyCall, TypeInv, Call, PC

LEMMA RunToolStep ==
    ASSUME TypeInv, NEW q \in Request, NEW t \in Tool, NEW ok \in BOOLEAN,
           RunTool(q, t, ok)
    PROVE  /\ OnlyCall(q)
           /\ call[q].pc = "diagnosing"
           /\ call'[q].pc = "diagnosing" /\ call'[q].owner = call[q].owner
           /\ call'[q].inc = call[q].inc /\ call'[q].timer = call[q].timer
           /\ call'[q].cites = call[q].cites /\ call'[q].answer = call[q].answer
           /\ call'[q].ran = call[q].ran \cup {t}
           /\ call'[q].evidence \subseteq call[q].evidence \cup {t}
           /\ UNCHANGED <<proc, grace, slots, row, analyzed>>
<1> DEFINE e == IF ok THEN call[q].evidence \cup {t} ELSE call[q].evidence
           r == call[q].ran \cup {t}
<1>1. call[q] \in Call /\ call[q].pc = "diagnosing"
  BY DEF TypeInv, RunTool
<1>2. e \in SUBSET Tool /\ r \in SUBSET Tool
  BY <1>1 DEF Call
<1>3. call' = [call EXCEPT ![q] = [call[q] EXCEPT !.ran = r, !.evidence = e]]
  BY DEF RunTool, Becomes
<1>4. e \subseteq call[q].evidence \cup {t}
  OBVIOUS
<1> HIDE DEF e
<1>5. [call[q] EXCEPT !.ran = r, !.evidence = e] \in Call
  <2> HIDE DEF r
  <2> QED BY <1>1, <1>2 DEF Call
<1> QED BY <1>1, <1>3, <1>4, <1>5 DEF RunTool, OnlyCall, TypeInv, Call

LEMMA ClientLeavesStep ==
    ASSUME TypeInv, NEW q \in Request, ClientLeaves(q)
    PROVE  /\ OnlyCall(q)
           /\ call[q].pc \in {"admitted"} \cup Bounded
           /\ call'[q].pc = call[q].pc /\ call'[q].owner = call[q].owner
           /\ call'[q].inc = call[q].inc /\ call'[q].timer <= call[q].timer
           /\ call'[q].timer <= Lag
           /\ call'[q].ran = call[q].ran /\ call'[q].evidence = call[q].evidence
           /\ call'[q].cites = call[q].cites /\ call'[q].answer = call[q].answer
           /\ UNCHANGED <<proc, grace, slots, row, analyzed>>
BY CancelFields DEF ClientLeaves, Becomes, OnlyCall, TypeInv

LEMMA ConcludeStep ==
    ASSUME TypeInv, NEW q \in Request, NEW cites \in SUBSET Tool, Conclude(q, cites)
    PROVE  /\ OnlyCall(q)
           /\ call[q].pc = "diagnosing"
           /\ call'[q].pc = "saving" /\ call'[q].owner = call[q].owner
           /\ call'[q].inc = call[q].inc /\ call'[q].timer = SaveBudget
           /\ call'[q].evidence = call[q].evidence /\ call'[q].cites = cites
           /\ call'[q].answer = call[q].answer
           /\ UNCHANGED <<proc, grace, slots, row, analyzed>>
BY BudgetTypes DEF Conclude, Becomes, OnlyCall, TypeInv, Call, PC

LEMMA StoredStep ==
    ASSUME TypeInv, NEW q \in Request, call[q].pc = "saving", Stored(q)
    PROVE  /\ OnlyRow(q)
           /\ row'[q].status = IF call[q].cites = {} THEN "failed" ELSE "completed"
           /\ row'[q].inc = row[q].inc /\ row'[q].age = 0
           /\ row'[q].evidence = call[q].evidence /\ row'[q].cites = call[q].cites
           /\ analyzed' = IF call[q].cites = {} THEN analyzed
                          ELSE analyzed \cup {call[q].inc}
           /\ analyzed' \subseteq Incident
<1>1. call[q] \in Call /\ row[q] \in Row /\ call[q].inc \in Incident
  BY DEF TypeInv, Timed
<1> DEFINE s == IF call[q].cites = {} THEN "failed" ELSE "completed"
<1>2. s \in Status
  BY DEF Status
<1>3. row' = [row EXCEPT ![q] = [NoRow EXCEPT !.status = s, !.inc = row[q].inc,
                 !.evidence = call[q].evidence, !.cites = call[q].cites]]
  BY DEF Stored
<1> HIDE DEF s
<1>4. /\ OnlyRow(q)
      /\ row'[q].status = s /\ row'[q].inc = row[q].inc /\ row'[q].age = 0
      /\ row'[q].evidence = call[q].evidence /\ row'[q].cites = call[q].cites
  BY <1>1, <1>2, <1>3 DEF OnlyRow, NoRow, Row, Call, TypeInv
<1> QED BY <1>1, <1>4 DEF Stored, TypeInv, s

LEMMA TerminateStep ==
    ASSUME TypeInv, NEW r \in Replica, Terminate(r)
    PROVE  /\ call' \in [Request -> Call]
           /\ proc[r] = "serving" /\ proc' = [proc EXCEPT ![r] = "stopping"]
           /\ grace' = [grace EXCEPT ![r] = ShutdownGrace]
           /\ UNCHANGED <<slots, row, analyzed>>
           /\ \A p \in Request :
                /\ call'[p].pc = call[p].pc /\ call'[p].owner = call[p].owner
                /\ call'[p].inc = call[p].inc /\ call'[p].timer <= call[p].timer
                /\ call'[p].ran = call[p].ran /\ call'[p].evidence = call[p].evidence
                /\ call'[p].cites = call[p].cites /\ call'[p].answer = call[p].answer
                /\ call[p].owner = r /\ call[p].pc \in Bounded => call'[p].timer <= Lag
                /\ call[p].pc \notin Bounded => call'[p] = call[p]
<1>1. \A p \in Request : call[p].timer \in Nat
  BY DEF TypeInv, Call
<1>2. \A p \in Request :
         call'[p] = IF p \in Holders(r) /\ call[p].pc \in Bounded
                    THEN Cancel(call[p]) ELSE call[p]
  BY DEF Terminate
<1>3. \A p \in Request : call[p].pc \in Bounded /\ call[p].owner = r => p \in Holders(r)
  BY DEF Holders, Bounded, Holding
<1> QED BY <1>1, <1>2, <1>3, CancelFields DEF Terminate, TypeInv

LEMMA HaltStep ==
    ASSUME TypeInv, NEW r \in Replica, Halt(r)
    PROVE  /\ call' \in [Request -> Call] /\ row' \in [Request -> Row]
           /\ proc' = [proc EXCEPT ![r] = "down"]
           /\ grace' = [grace EXCEPT ![r] = 0]
           /\ slots' = [slots EXCEPT ![r] = 0]
           /\ UNCHANGED analyzed
           /\ \A p \in Holders(r) :
                /\ call'[p].pc = "returned" /\ call'[p].answer = "none"
                /\ row'[p] = IF call[p].pc = "creating" THEN NoRow ELSE row[p]
           /\ \A p \in Request \ Holders(r) : call'[p] = call[p] /\ row'[p] = row[p]
BY ReturnedFields, NoRowType DEF Halt, Holders, TypeInv, Answer

LEMMA BootStep ==
    ASSUME TypeInv, NEW r \in Replica, Boot(r)
    PROVE  /\ row' \in [Request -> Row]
           /\ proc[r] = "down" /\ proc' = [proc EXCEPT ![r] = "serving"]
           /\ UNCHANGED <<grace, slots, call, analyzed>>
           /\ \A p \in Stale(r) :
                /\ row[p].status = "running" /\ row[p].age > StaleAfter(r)
                /\ row'[p].status = "failed" /\ row'[p].inc = row[p].inc
                /\ row'[p].age = 0
                /\ row'[p].evidence = row[p].evidence /\ row'[p].cites = row[p].cites
           /\ \A p \in Request \ Stale(r) : row'[p] = row[p]
BY DEF Boot, Stale, TypeInv, Row, Status

LEMMA SmallerType ==
    ASSUME NEW a \in Nat, NEW b \in Nat
    PROVE  Smaller(a, b) \in Nat /\ Smaller(a, b) <= a /\ Smaller(a, b) <= b
BY DEF Smaller

LEMMA TickStep ==
    ASSUME TypeInv, Tick
    PROVE  /\ call' \in [Request -> Call] /\ row' \in [Request -> Row]
           /\ grace' \in [Replica -> 0..ShutdownGrace]
           /\ UNCHANGED <<proc, slots, analyzed>>
           /\ \A r \in Replica :
                grace'[r] = IF grace[r] > 0 THEN grace[r] - 1 ELSE 0
           /\ \A p \in Request :
                /\ call'[p].pc = call[p].pc /\ call'[p].owner = call[p].owner
                /\ call'[p].inc = call[p].inc
                /\ call'[p].ran = call[p].ran /\ call'[p].evidence = call[p].evidence
                /\ call'[p].cites = call[p].cites /\ call'[p].answer = call[p].answer
                /\ call[p].pc \in Timed => call'[p].timer = call[p].timer - 1
                /\ call[p].pc \notin Timed => call'[p] = call[p]
           /\ \A p \in Request :
                /\ row'[p].status = row[p].status /\ row'[p].inc = row[p].inc
                /\ row'[p].evidence = row[p].evidence /\ row'[p].cites = row[p].cites
                /\ row'[p].age <= row[p].age + 1
                /\ ~Ageing(p) => row'[p] = row[p]
<1>1. call' \in [Request -> Call]
  <2>1. /\ call \in [Request -> Call]
        /\ \A q \in Request : call[q].pc \in Timed => call[q].timer > 0
        /\ call' = [q \in Request |->
              IF call[q].pc \in Timed THEN [call[q] EXCEPT !.timer = @ - 1]
              ELSE call[q]]
    BY DEF Tick, TypeInv
  <2> QED BY <2>1 DEF Call
<1>2. \A p \in Request :
        /\ call'[p].pc = call[p].pc /\ call'[p].owner = call[p].owner
        /\ call'[p].inc = call[p].inc
        /\ call'[p].ran = call[p].ran /\ call'[p].evidence = call[p].evidence
        /\ call'[p].cites = call[p].cites /\ call'[p].answer = call[p].answer
        /\ call[p].pc \in Timed => call'[p].timer = call[p].timer - 1
        /\ call[p].pc \notin Timed => call'[p] = call[p]
  BY DEF Tick, TypeInv, Call
<1>3. \A p \in Request :
        /\ row'[p] \in Row
        /\ row'[p].status = row[p].status /\ row'[p].inc = row[p].inc
        /\ row'[p].evidence = row[p].evidence /\ row'[p].cites = row[p].cites
        /\ row'[p].age <= row[p].age + 1
        /\ ~Ageing(p) => row'[p] = row[p]
  <2> TAKE p \in Request
  <2> DEFINE a == Smaller(row[p].age + 1, AgeCap)
  <2>1. row[p] \in Row /\ row[p].age \in Nat
    BY DEF TypeInv, Row
  <2>2. a \in Nat /\ a <= row[p].age + 1
    <3>1. row[p].age + 1 \in Nat /\ AgeCap \in Nat
      BY <2>1, TimeAssumption
    <3> QED BY <3>1, SmallerType
  <2>3. row'[p] = IF Ageing(p) THEN [row[p] EXCEPT !.age = a] ELSE row[p]
    BY DEF Tick
  <2>4. CASE Ageing(p)
    <3> HIDE DEF a
    <3>1. row'[p] = [row[p] EXCEPT !.age = a]
      BY <2>3, <2>4
    <3> QED BY <2>1, <2>2, <2>4, <3>1 DEF Row
  <2>5. CASE ~Ageing(p)
    BY <2>1, <2>3, <2>5
  <2> QED BY <2>4, <2>5
<1>4. row' \in [Request -> Row]
  BY <1>3 DEF Tick
<1>5. /\ grace' \in [Replica -> 0..ShutdownGrace]
      /\ \A r \in Replica : grace'[r] = IF grace[r] > 0 THEN grace[r] - 1 ELSE 0
  BY GraceType DEF Tick, TypeInv
<1> QED BY <1>1, <1>2, <1>3, <1>4, <1>5 DEF Tick

(***************************************************************************)
(* Layer 1: types and owners.                                              *)
(***************************************************************************)
LEMMA TypeInit == Init => TypeInv
BY NoCallType, NoRowType, GraceType
   DEF Init, TypeInv, NoCall, Holding, Timed, Bounded

LEMMA TypeStep == TypeInv /\ [Next]_vars => TypeInv'
<1> SUFFICES ASSUME TypeInv, [Next]_vars PROVE TypeInv'
  OBVIOUS
<1> USE DEF Holding, Bounded, Timed
<1>1. ASSUME NEW q \in Request, RejectOptions(q) PROVE TypeInv'
  BY <1>1, ReturnStep, OnlyCallType DEF RejectOptions, TypeInv, Answer
<1>2. ASSUME NEW q \in Request, IncidentNotFound(q) PROVE TypeInv'
  BY <1>2, ReturnStep, OnlyCallType DEF IncidentNotFound, TypeInv, Answer
<1>3. ASSUME NEW q \in Request, LoadFails(q) PROVE TypeInv'
  BY <1>3, ReturnStep, OnlyCallType DEF LoadFails, TypeInv, Answer
<1>4. ASSUME NEW q \in Request, LoadIncident(q) PROVE TypeInv'
  BY <1>4, LoadStep, OnlyCallType DEF TypeInv
<1>5. ASSUME NEW q \in Request, InsertRow(q) PROVE TypeInv'
  BY <1>5, InsertRowStep, InsertStep, OnlyCallType, OnlyRowType DEF InsertRow, TypeInv
<1>6. ASSUME NEW q \in Request, InsertFails(q) PROVE TypeInv'
  BY <1>6, ReturnStep, OnlyCallType, NoRowType DEF InsertFails, TypeInv, Answer
<1>7. ASSUME NEW q \in Request, InsertLost(q) PROVE TypeInv'
  BY <1>7, ReturnStep, InsertStep, OnlyCallType, OnlyRowType
     DEF InsertLost, TypeInv, Answer
<1>8. ASSUME NEW q \in Request, NEW t \in Tool, NEW ok \in BOOLEAN, RunTool(q, t, ok)
      PROVE  TypeInv'
  BY <1>8, RunToolStep, OnlyCallType DEF TypeInv
<1>9. ASSUME NEW q \in Request, NEW cites \in SUBSET Tool, Conclude(q, cites)
      PROVE  TypeInv'
  BY <1>9, ConcludeStep, OnlyCallType DEF TypeInv
<1>10. ASSUME NEW q \in Request, SaveCommits(q) PROVE TypeInv'
  BY <1>10, ReturnStep, StoredStep, OnlyCallType, OnlyRowType
     DEF SaveCommits, TypeInv, Answer
<1>11. ASSUME NEW q \in Request, SaveFails(q) PROVE TypeInv'
  BY <1>11, ReturnStep, OnlyCallType DEF SaveFails, TypeInv, Answer
<1>12. ASSUME NEW q \in Request, SaveLost(q) PROVE TypeInv'
  BY <1>12, ReturnStep, StoredStep, OnlyCallType, OnlyRowType
     DEF SaveLost, TypeInv, Answer
<1>13. ASSUME NEW q \in Request, Busy(q) PROVE TypeInv'
  BY <1>13, BusyStep, OnlyCallType DEF TypeInv
<1>14. ASSUME NEW q \in Request, NEW r \in Replica, NEW i \in Incident \cup {Ghost},
              Admit(q, r, i)
       PROVE  TypeInv'
  BY <1>14, AdmitStep, OnlyCallType DEF TypeInv
<1>15. ASSUME NEW q \in Request, ClientLeaves(q) PROVE TypeInv'
  BY <1>15, ClientLeavesStep, OnlyCallType DEF TypeInv
<1>16. ASSUME NEW r \in Replica, Terminate(r) PROVE TypeInv'
  BY <1>16, TerminateStep, GraceType DEF TypeInv
<1>17. ASSUME NEW r \in Replica, Halt(r) PROVE TypeInv'
  BY <1>17, HaltStep, GraceType DEF TypeInv, Holders
<1>18. ASSUME NEW r \in Replica, Boot(r) PROVE TypeInv'
  BY <1>18, BootStep DEF TypeInv
<1>19. CASE Tick
  BY <1>19, TickStep DEF TypeInv
<1>20. CASE UNCHANGED vars
  BY <1>20 DEF vars, TypeInv
<1> QED
  BY <1>1, <1>2, <1>3, <1>4, <1>5, <1>6, <1>7, <1>8, <1>9, <1>10, <1>11, <1>12,
     <1>13, <1>14, <1>15, <1>16, <1>17, <1>18, <1>19, <1>20
     DEF Next, EngineStep, ClientStep, ReplicaStep, AnalysisSucceeds, AnalysisFails,
         Crash, DrainedExit, ForcedExit

(***************************************************************************)
(* Layer 2: the slots count the calls that hold them.                      *)
(***************************************************************************)
SlotInv ==
    \A r \in Replica : slots[r] = Cardinality(Holders(r)) /\ slots[r] <= MaxConcurrent

LEMMA HoldersFinite ==
    \A r \in Replica : IsFiniteSet(Holders(r)) /\ Cardinality(Holders(r)) \in Nat
BY RequestAssumption, FS_Subset, FS_CardinalityType DEF Holders

\* A step that leaves every call in or out, with its owner, keeps the count.
LEMMA SameHolders ==
    ASSUME SlotInv, UNCHANGED slots,
           \A p \in Request : call[p].pc \in Holding \/ call'[p].pc \in Holding =>
              /\ call[p].pc \in Holding /\ call'[p].pc \in Holding
              /\ call'[p].owner = call[p].owner
    PROVE  SlotInv'
<1>1. \A r \in Replica : Holders(r)' = Holders(r)
  BY DEF Holders
<1> QED BY <1>1 DEF SlotInv

\* A return gives up one slot and removes one holder.
LEMMA ReturnKeepsCount ==
    ASSUME TypeInv, SlotInv, NEW q \in Request, call[q].pc \in Holding,
           NEW a \in Answer, Return(q, a)
    PROVE  SlotInv'
<1>1. /\ call'[q].pc = "returned"
      /\ \A p \in Request : p # q => call'[p] = call[p]
      /\ slots' = [slots EXCEPT ![call[q].owner] = @ - 1]
      /\ slots \in [Replica -> Int] /\ call[q].owner \in Replica
  BY ReturnStep, OnlyCallType DEF TypeInv
<1>2. ASSUME NEW r \in Replica, r = call[q].owner
      PROVE  Holders(r)' = Holders(r) \ {q} /\ q \in Holders(r)
  BY <1>1, <1>2 DEF Holders, Holding
<1>3. ASSUME NEW r \in Replica, r # call[q].owner
      PROVE  Holders(r)' = Holders(r)
  BY <1>1, <1>3 DEF Holders, Holding
<1>4. ASSUME NEW r \in Replica, r = call[q].owner
      PROVE  slots'[r] = Cardinality(Holders(r)') /\ slots'[r] <= MaxConcurrent
  <2>1. Cardinality(Holders(r)') = Cardinality(Holders(r)) - 1
    BY <1>2, <1>4, HoldersFinite, FS_RemoveElement
  <2> QED BY <1>1, <1>4, <2>1, ConfigAssumption DEF SlotInv
<1>5. ASSUME NEW r \in Replica, r # call[q].owner
      PROVE  slots'[r] = Cardinality(Holders(r)') /\ slots'[r] <= MaxConcurrent
  BY <1>1, <1>3, <1>5 DEF SlotInv
<1> QED BY <1>4, <1>5 DEF SlotInv

\* An admission takes a slot that was free and adds one holder.
LEMMA AdmitKeepsCount ==
    ASSUME TypeInv, SlotInv, NEW q \in Request, NEW o \in Replica,
           NEW i \in Incident \cup {Ghost}, Admit(q, o, i)
    PROVE  SlotInv'
<1>1. /\ call[q].pc = "idle" /\ call'[q].pc = "admitted" /\ call'[q].owner = o
      /\ \A p \in Request : p # q => call'[p] = call[p]
      /\ slots' = [slots EXCEPT ![o] = @ + 1] /\ slots[o] < MaxConcurrent
      /\ slots \in [Replica -> Int]
  BY AdmitStep, OnlyCallType DEF TypeInv
<1>2. Holders(o)' = Holders(o) \cup {q} /\ q \notin Holders(o)
  BY <1>1 DEF Holders, Holding
<1>3. \A r \in Replica : r # o => Holders(r)' = Holders(r)
  BY <1>1 DEF Holders, Holding
<1>4. slots'[o] = Cardinality(Holders(o)') /\ slots'[o] <= MaxConcurrent
  <2>1. Cardinality(Holders(o)') = Cardinality(Holders(o)) + 1
    BY <1>2, HoldersFinite, FS_AddElement
  <2> QED BY <1>1, <2>1, ConfigAssumption DEF SlotInv
<1>5. ASSUME NEW r \in Replica, r # o
      PROVE  slots'[r] = Cardinality(Holders(r)') /\ slots'[r] <= MaxConcurrent
  BY <1>1, <1>3, <1>5 DEF SlotInv
<1> QED BY <1>4, <1>5 DEF SlotInv

\* A process that dies takes its slots and their holders with it.
LEMMA HaltKeepsCount ==
    ASSUME TypeInv, SlotInv, NEW o \in Replica, Halt(o)
    PROVE  SlotInv'
<1>1. /\ slots' = [slots EXCEPT ![o] = 0] /\ slots \in [Replica -> Int]
      /\ \A p \in Holders(o) : call'[p].pc = "returned"
      /\ \A p \in Request \ Holders(o) : call'[p] = call[p]
  BY HaltStep DEF TypeInv
<1>2. Holders(o)' = {}
  BY <1>1 DEF Holders, Holding
<1>3. \A r \in Replica : r # o => Holders(r)' = Holders(r)
  BY <1>1 DEF Holders, Holding
<1>4. slots'[o] = Cardinality(Holders(o)') /\ slots'[o] <= MaxConcurrent
  BY <1>1, <1>2, FS_EmptySet, ConfigAssumption
<1>5. ASSUME NEW r \in Replica, r # o
      PROVE  slots'[r] = Cardinality(Holders(r)') /\ slots'[r] <= MaxConcurrent
  BY <1>1, <1>3, <1>5 DEF SlotInv
<1> QED BY <1>4, <1>5 DEF SlotInv

LEMMA SlotInit == Init => SlotInv
<1> SUFFICES ASSUME Init PROVE SlotInv
  OBVIOUS
<1>1. \A r \in Replica : Holders(r) = {}
  BY DEF Init, Holders, Holding, NoCall
<1> QED BY <1>1, FS_EmptySet, ConfigAssumption DEF Init, SlotInv

LEMMA SlotStep == TypeInv /\ SlotInv /\ [Next]_vars => SlotInv'
<1> SUFFICES ASSUME TypeInv, SlotInv, [Next]_vars PROVE SlotInv'
  OBVIOUS
<1>1. ASSUME NEW q \in Request, RejectOptions(q) PROVE SlotInv'
  BY <1>1, ReturnKeepsCount DEF RejectOptions, Answer, Holding
<1>2. ASSUME NEW q \in Request, IncidentNotFound(q) PROVE SlotInv'
  BY <1>2, ReturnKeepsCount DEF IncidentNotFound, Answer, Holding
<1>3. ASSUME NEW q \in Request, LoadFails(q) PROVE SlotInv'
  BY <1>3, ReturnKeepsCount DEF LoadFails, Answer, Holding
<1>4. ASSUME NEW q \in Request, LoadIncident(q) PROVE SlotInv'
  BY <1>4, LoadStep, OnlyCallType, SameHolders DEF Holding
<1>5. ASSUME NEW q \in Request, InsertRow(q) PROVE SlotInv'
  BY <1>5, InsertRowStep, OnlyCallType, SameHolders DEF Holding
<1>6. ASSUME NEW q \in Request, InsertFails(q) PROVE SlotInv'
  BY <1>6, ReturnKeepsCount DEF InsertFails, Answer, Holding
<1>7. ASSUME NEW q \in Request, InsertLost(q) PROVE SlotInv'
  BY <1>7, ReturnKeepsCount DEF InsertLost, Answer, Holding
<1>8. ASSUME NEW q \in Request, NEW t \in Tool, NEW ok \in BOOLEAN, RunTool(q, t, ok)
      PROVE  SlotInv'
  BY <1>8, RunToolStep, OnlyCallType, SameHolders DEF Holding
<1>9. ASSUME NEW q \in Request, NEW cites \in SUBSET Tool, Conclude(q, cites)
      PROVE  SlotInv'
  BY <1>9, ConcludeStep, OnlyCallType, SameHolders DEF Holding
<1>10. ASSUME NEW q \in Request, SaveCommits(q) PROVE SlotInv'
  BY <1>10, ReturnKeepsCount DEF SaveCommits, Answer, Holding
<1>11. ASSUME NEW q \in Request, SaveFails(q) PROVE SlotInv'
  BY <1>11, ReturnKeepsCount DEF SaveFails, Answer, Holding
<1>12. ASSUME NEW q \in Request, SaveLost(q) PROVE SlotInv'
  BY <1>12, ReturnKeepsCount DEF SaveLost, Answer, Holding
<1>13. ASSUME NEW q \in Request, Busy(q) PROVE SlotInv'
  BY <1>13, BusyStep, OnlyCallType, SameHolders DEF Holding
<1>14. ASSUME NEW q \in Request, NEW r \in Replica, NEW i \in Incident \cup {Ghost},
              Admit(q, r, i)
       PROVE  SlotInv'
  BY <1>14, AdmitKeepsCount
<1>15. ASSUME NEW q \in Request, ClientLeaves(q) PROVE SlotInv'
  BY <1>15, ClientLeavesStep, OnlyCallType, SameHolders
<1>16. ASSUME NEW r \in Replica, Terminate(r) PROVE SlotInv'
  BY <1>16, TerminateStep, SameHolders
<1>17. ASSUME NEW r \in Replica, Halt(r) PROVE SlotInv'
  BY <1>17, HaltKeepsCount
<1>18. ASSUME NEW r \in Replica, Boot(r) PROVE SlotInv'
  BY <1>18, BootStep, SameHolders
<1>19. CASE Tick
  BY <1>19, TickStep, SameHolders
<1>20. CASE UNCHANGED vars
  BY <1>20, SameHolders DEF vars
<1> QED
  BY <1>1, <1>2, <1>3, <1>4, <1>5, <1>6, <1>7, <1>8, <1>9, <1>10, <1>11, <1>12,
     <1>13, <1>14, <1>15, <1>16, <1>17, <1>18, <1>19, <1>20
     DEF Next, EngineStep, ClientStep, ReplicaStep, AnalysisSucceeds, AnalysisFails,
         Crash, DrainedExit, ForcedExit

\* In every reachable state the tokens in Engine.slots are the calls being
\* served, at most MaxConcurrent of them: no path out of Investigate leaks a
\* slot or gives one back twice.
THEOREM SlotsExact == Spec => []SlotsMatchHolders
<1>1. Init => TypeInv /\ SlotInv
  BY TypeInit, SlotInit
<1>2. (TypeInv /\ SlotInv) /\ [Next]_vars => (TypeInv /\ SlotInv)'
  BY TypeStep, SlotStep
<1>3. SlotInv => SlotsMatchHolders
  BY DEF SlotInv, SlotsMatchHolders
<1> QED BY <1>1, <1>2, <1>3, PTL DEF Spec

\* Every variable keeps its type, the slot counts their range.
THEOREM TypeCorrect == Spec => []TypeOK
<1>1. Init => TypeInv /\ SlotInv
  BY TypeInit, SlotInit
<1>2. (TypeInv /\ SlotInv) /\ [Next]_vars => (TypeInv /\ SlotInv)'
  BY TypeStep, SlotStep
<1>3. TypeInv /\ SlotInv => TypeOK
  BY HoldersFinite, ConfigAssumption DEF TypeInv, SlotInv, TypeOK
<1> QED BY <1>1, <1>2, <1>3, PTL DEF Spec

(***************************************************************************)
(* Layer 3: a call agrees with its row.  Nothing is recorded before the    *)
(* INSERT; a live call's record is not completed, it can only have been    *)
(* failed by a sweep; and what a returned call answered is on record.      *)
(***************************************************************************)
Agrees(c, x) ==
    /\ c.pc # "returned" => c.answer = "pending"
    /\ c.pc \in {"idle", "admitted", "creating"} => x.status = "none"
    /\ c.pc \in {"admitted", "creating", "diagnosing"} => c.cites = {}
    /\ c.pc \in {"diagnosing", "saving"} =>
          x.status \in {"running", "failed"} /\ x.inc = c.inc
    /\ c.pc = "saving" => c.cites \subseteq c.evidence
    /\ x.status = "none" => x.inc = None
    /\ x.status = "completed" <=> x.cites # {}
    /\ x.cites \subseteq x.evidence
    /\ c.answer = "created" => x.status = "completed"
    /\ c.answer = "analysis_failed" => x.status = "failed"
    /\ c.answer \in {"busy", "bad_options", "not_found"} => x.status = "none"

Completed == {p \in Request : row[p].status = "completed"}

RecordInv ==
    /\ \A q \in Request : Agrees(call[q], row[q])
    /\ analyzed = {row[q].inc : q \in Completed}

\* A step that completes no record leaves the analyzed incidents as they are.
LEMMA NoneCompletes ==
    ASSUME RecordInv, UNCHANGED analyzed,
           \A p \in Request :
              /\ row'[p].status = "completed" <=> row[p].status = "completed"
              /\ row'[p].inc = row[p].inc \/ row[p].status # "completed"
    PROVE  analyzed' = {row'[q].inc : q \in Completed'}
<1>1. Completed' = Completed
  BY DEF Completed
<1>2. \A p \in Completed : row'[p].inc = row[p].inc
  BY DEF Completed
<1> QED BY <1>1, <1>2 DEF RecordInv

\* A step of q alone that completes no record.
LEMMA LocalStep ==
    ASSUME RecordInv, NEW q \in Request, UNCHANGED analyzed,
           \A p \in Request : p # q => call'[p] = call[p] /\ row'[p] = row[p],
           row[q].status # "completed", row'[q].status # "completed",
           Agrees(call'[q], row'[q])
    PROVE  RecordInv'
<1>1. \A p \in Request : Agrees(call'[p], row'[p])
  BY DEF RecordInv
<1>2. analyzed' = {row'[p].inc : p \in Completed'}
  BY NoneCompletes
<1> QED BY <1>1, <1>2 DEF RecordInv

\* FinishInvestigation's transaction followed by any of its answers.
LEMMA StoredAgrees ==
    ASSUME TypeInv, RecordInv, NEW q \in Request, call[q].pc = "saving", Stored(q),
           NEW a \in Answer, Return(q, a),
           \/ a = "internal"
           \/ a = IF call[q].cites = {} THEN "analysis_failed" ELSE "created"
    PROVE  RecordInv'
<1>1. /\ call'[q].pc = "returned" /\ call'[q].answer = a
      /\ \A p \in Request : p # q => call'[p] = call[p]
  BY ReturnStep, OnlyCallType DEF Holding
<1>2. /\ row'[q].status = IF call[q].cites = {} THEN "failed" ELSE "completed"
      /\ row'[q].inc = row[q].inc
      /\ row'[q].evidence = call[q].evidence /\ row'[q].cites = call[q].cites
      /\ analyzed' = IF call[q].cites = {} THEN analyzed
                     ELSE analyzed \cup {call[q].inc}
      /\ \A p \in Request : p # q => row'[p] = row[p]
  BY StoredStep, OnlyRowType
<1>3. /\ call[q].cites \subseteq call[q].evidence
      /\ row[q].status # "completed" /\ row[q].inc = call[q].inc
  BY DEF RecordInv, Agrees
<1>4. Agrees(call'[q], row'[q])
  BY <1>1, <1>2, <1>3 DEF Agrees
<1>5. CASE call[q].cites = {}
  BY <1>1, <1>2, <1>3, <1>4, <1>5, LocalStep
<1>6. CASE call[q].cites # {}
  <2>1. \A p \in Request : Agrees(call'[p], row'[p])
    BY <1>1, <1>2, <1>4 DEF RecordInv
  <2>2. Completed' = Completed \cup {q} /\ q \notin Completed
    BY <1>2, <1>3, <1>6 DEF Completed
  <2>3. {row'[p].inc : p \in Completed'} = {row[p].inc : p \in Completed} \cup {call[q].inc}
    BY <1>2, <1>3, <2>2 DEF Completed
  <2> QED BY <1>2, <1>6, <2>1, <2>3 DEF RecordInv
<1> QED BY <1>5, <1>6

LEMMA RecordInit == Init => RecordInv
BY DEF Init, RecordInv, Agrees, Completed, NoCall, NoRow

LEMMA RecordStep == TypeInv /\ RecordInv /\ [Next]_vars => RecordInv'
<1> SUFFICES ASSUME TypeInv, RecordInv, [Next]_vars PROVE RecordInv'
  OBVIOUS
<1>0. \A q \in Request : Agrees(call[q], row[q])
  BY DEF RecordInv
\* An admitted call that returns an error before it has a row.
<1>1. ASSUME NEW q \in Request, call[q].pc = "admitted",
             NEW a \in {"bad_options", "not_found", "internal"}, Return(q, a),
             UNCHANGED <<row, analyzed>>
      PROVE  RecordInv'
  <2>1. /\ call'[q].pc = "returned" /\ call'[q].answer = a
        /\ \A p \in Request : p # q => call'[p] = call[p]
    BY <1>1, ReturnStep, OnlyCallType DEF Holding, Answer
  <2> QED BY <1>0, <1>1, <2>1, LocalStep DEF Agrees
<1>2. ASSUME NEW q \in Request, RejectOptions(q) PROVE RecordInv'
  BY <1>1, <1>2 DEF RejectOptions
<1>3. ASSUME NEW q \in Request, IncidentNotFound(q) PROVE RecordInv'
  BY <1>1, <1>3 DEF IncidentNotFound
<1>4. ASSUME NEW q \in Request, LoadFails(q) PROVE RecordInv'
  BY <1>1, <1>4 DEF LoadFails
<1>5. ASSUME NEW q \in Request, LoadIncident(q) PROVE RecordInv'
  BY <1>0, <1>5, LoadStep, OnlyCallType, LocalStep DEF Agrees
<1>6. ASSUME NEW q \in Request, InsertRow(q) PROVE RecordInv'
  <2>1. Insert(q)
    BY <1>6 DEF InsertRow
  <2> QED BY <1>0, <1>6, <2>1, InsertRowStep, InsertStep, OnlyCallType, OnlyRowType,
             LocalStep DEF Agrees
<1>7. ASSUME NEW q \in Request, InsertFails(q) PROVE RecordInv'
  <2>1. /\ call'[q].pc = "returned" /\ call'[q].answer = "internal"
        /\ \A p \in Request : p # q => call'[p] = call[p]
    BY <1>7, ReturnStep, OnlyCallType DEF InsertFails, Holding, Answer
  <2>2. row'[q] = NoRow /\ \A p \in Request : p # q => row'[p] = row[p]
    BY <1>7 DEF InsertFails, TypeInv
  <2>3. call[q].pc = "creating" /\ UNCHANGED analyzed
    BY <1>7 DEF InsertFails
  <2>4. Agrees(call'[q], row'[q]) /\ row'[q].status = "none"
    BY <2>1, <2>2 DEF Agrees, NoRow
  <2> QED BY <1>0, <2>1, <2>2, <2>3, <2>4, LocalStep DEF Agrees
<1>8. ASSUME NEW q \in Request, InsertLost(q) PROVE RecordInv'
  <2>1. Insert(q) /\ call[q].pc = "creating" /\ UNCHANGED analyzed
    BY <1>8 DEF InsertLost
  <2>2. /\ call'[q].pc = "returned" /\ call'[q].answer = "internal"
        /\ \A p \in Request : p # q => call'[p] = call[p]
    BY <1>8, <2>1, ReturnStep, OnlyCallType DEF InsertLost, Holding, Answer
  <2> QED BY <1>0, <2>1, <2>2, InsertStep, OnlyRowType, LocalStep DEF Agrees
<1>9. ASSUME NEW q \in Request, NEW t \in Tool, NEW ok \in BOOLEAN, RunTool(q, t, ok)
      PROVE  RecordInv'
  BY <1>0, <1>9, RunToolStep, OnlyCallType, LocalStep DEF Agrees
<1>10. ASSUME NEW q \in Request, NEW cites \in SUBSET Tool, Conclude(q, cites),
              cites \subseteq call[q].evidence
       PROVE  RecordInv'
  BY <1>0, <1>10, ConcludeStep, OnlyCallType, LocalStep DEF Agrees
<1>11. ASSUME NEW q \in Request, SaveCommits(q) PROVE RecordInv'
  BY <1>11, StoredAgrees DEF SaveCommits, Answer
<1>12. ASSUME NEW q \in Request, SaveFails(q) PROVE RecordInv'
  <2>1. /\ call'[q].pc = "returned" /\ call'[q].answer = "internal"
        /\ \A p \in Request : p # q => call'[p] = call[p]
    BY <1>12, ReturnStep, OnlyCallType DEF SaveFails, Holding, Answer
  <2> QED BY <1>0, <1>12, <2>1, LocalStep DEF SaveFails, Agrees
<1>13. ASSUME NEW q \in Request, SaveLost(q) PROVE RecordInv'
  BY <1>13, StoredAgrees DEF SaveLost, Answer
<1>14. ASSUME NEW q \in Request, Busy(q) PROVE RecordInv'
  BY <1>0, <1>14, BusyStep, OnlyCallType, LocalStep DEF Agrees
<1>15. ASSUME NEW q \in Request, NEW r \in Replica, NEW i \in Incident \cup {Ghost},
              Admit(q, r, i)
       PROVE  RecordInv'
  BY <1>0, <1>15, AdmitStep, OnlyCallType, LocalStep DEF Agrees
<1>16. ASSUME NEW q \in Request, ClientLeaves(q) PROVE RecordInv'
  <2>1. row[q].status # "completed"
    BY <1>0, <1>16, ClientLeavesStep DEF Agrees, Bounded
  <2> QED BY <1>0, <1>16, <2>1, ClientLeavesStep, OnlyCallType, LocalStep DEF Agrees
<1>17. ASSUME NEW r \in Replica, Terminate(r) PROVE RecordInv'
  <2>1. \A p \in Request : Agrees(call'[p], row'[p])
    BY <1>0, <1>17, TerminateStep DEF Agrees
  <2> QED BY <1>17, <2>1, TerminateStep, NoneCompletes DEF RecordInv
<1>18. ASSUME NEW r \in Replica, Halt(r) PROVE RecordInv'
  <2>1. \A p \in Request \ Holders(r) : call'[p] = call[p] /\ row'[p] = row[p]
    BY <1>18, HaltStep
  <2>2. \A p \in Holders(r) :
          /\ call'[p].pc = "returned" /\ call'[p].answer = "none"
          /\ row'[p] = IF call[p].pc = "creating" THEN NoRow ELSE row[p]
    BY <1>18, HaltStep
  <2>3. \A p \in Request :
          call[p].pc = "creating" => row[p].status = "none"
    BY <1>0 DEF Agrees
  <2>4. /\ NoRow.status = "none" /\ NoRow.inc = None
        /\ NoRow.cites = {} /\ NoRow.evidence = {}
    BY DEF NoRow
  <2>5. \A p \in Holders(r) : p \in Request /\ Agrees(call'[p], row'[p])
    BY <1>0, <2>2, <2>4 DEF Agrees, Holders
  <2>6. \A p \in Request : Agrees(call'[p], row'[p])
    BY <1>0, <2>1, <2>5
  <2>7. \A p \in Request :
          /\ row'[p].status = "completed" <=> row[p].status = "completed"
          /\ row'[p].inc = row[p].inc \/ row[p].status # "completed"
    BY <2>1, <2>2, <2>3, <2>4
  <2> QED BY <1>18, <2>6, <2>7, HaltStep, NoneCompletes DEF RecordInv
<1>19. ASSUME NEW r \in Replica, Boot(r) PROVE RecordInv'
  <2>1. \A p \in Request : Agrees(call'[p], row'[p])
    BY <1>0, <1>19, BootStep DEF Agrees, Stale
  <2>2. \A p \in Request :
          /\ row'[p].status = "completed" <=> row[p].status = "completed"
          /\ row'[p].inc = row[p].inc
    BY <1>19, BootStep DEF Stale
  <2> QED BY <1>19, <2>1, <2>2, BootStep, NoneCompletes DEF RecordInv
<1>20. CASE Tick
  <2>1. \A p \in Request : Agrees(call'[p], row'[p])
    BY <1>0, <1>20, TickStep DEF Agrees
  <2> QED BY <1>20, <2>1, TickStep, NoneCompletes DEF RecordInv
<1>21. CASE UNCHANGED vars
  BY <1>21 DEF vars, RecordInv, Completed
<1>22. ASSUME NEW q \in Request, NEW cites \in SUBSET Tool, AnalysisSucceeds(q, cites)
       PROVE  RecordInv'
  BY <1>10, <1>22 DEF AnalysisSucceeds, Validate
<1>23. ASSUME NEW q \in Request, AnalysisFails(q) PROVE RecordInv'
  BY <1>10, <1>23 DEF AnalysisFails
<1> QED
  BY <1>2, <1>3, <1>4, <1>5, <1>6, <1>7, <1>8, <1>9, <1>11, <1>12, <1>13, <1>14,
     <1>15, <1>16, <1>17, <1>18, <1>19, <1>20, <1>21, <1>22, <1>23
     DEF Next, EngineStep, ClientStep, ReplicaStep, Crash, DrainedExit, ForcedExit

LEMMA RecordInvariant == Spec => [](TypeInv /\ RecordInv)
<1>1. Init => TypeInv /\ RecordInv
  BY TypeInit, RecordInit
<1>2. (TypeInv /\ RecordInv) /\ [Next]_vars => (TypeInv /\ RecordInv)'
  BY TypeStep, RecordStep
<1> QED BY <1>1, <1>2, PTL DEF Spec

\* Records, reports and incidents agree whatever is lost or dies: the report
\* is there exactly when the record is completed, cites stored evidence only,
\* and marks the incident analyzed.  Holds for any mix of configurations.
THEOREM RecordsCohere == Spec => []RecordCoherent
<1>1. RecordInv => RecordCoherent
  BY DEF RecordInv, Agrees, Completed, RecordCoherent
<1> QED BY <1>1, RecordInvariant, PTL

\* A 201 is on record as completed and a 502 as failed for ever, and a
\* request refused with 400, 404 or 429 leaves no record.
THEOREM AnswersAreOnRecord == Spec => []AnswerMatchesRecord
<1>1. RecordInv => AnswerMatchesRecord
  BY DEF RecordInv, Agrees, AnswerMatchesRecord
<1> QED BY <1>1, RecordInvariant, PTL

(***************************************************************************)
(* Layer 4: time.  The age of a live call's row and the time left to the   *)
(* call never add up to more than the budgets of its contexts.             *)
(***************************************************************************)
InTime(c, x) ==
    /\ c.pc \in {"idle", "admitted"} => x.age = 0
    /\ c.pc = "admitted" => c.timer <= WorkBudget(c.owner)
    /\ c.pc \in Bounded => x.age + c.timer <= WorkBudget(c.owner)
    /\ c.pc = "saving" => /\ c.timer <= SaveBudget
                          /\ x.age + c.timer <= WorkBudget(c.owner) + SaveBudget

TimeInv == \A q \in Request : InTime(call[q], row[q])

LEMMA NatFields ==
    ASSUME TypeInv
    PROVE  \A q \in Request :
              /\ call[q].timer \in Nat /\ row[q].age \in Nat
              /\ call[q].pc \in Holding => WorkBudget(call[q].owner) \in Nat
BY BudgetTypes DEF TypeInv, Call, Row

LEMMA TimeInit == Init => TimeInv
BY DEF Init, TimeInv, InTime, NoCall, NoRow, Bounded

\* A call that has returned is under no bound.
LEMMA ReturnInTime ==
    ASSUME TypeInv, TimeInv, NEW q \in Request, call[q].pc \in Holding,
           NEW a \in Answer, Return(q, a),
           \A p \in Request : p # q => row'[p] = row[p]
    PROVE  TimeInv'
BY ReturnStep, OnlyCallType DEF TimeInv, InTime, Bounded

LEMMA TimeStep == TypeInv /\ RecordInv /\ TimeInv /\ [Next]_vars => TimeInv'
<1> SUFFICES ASSUME TypeInv, RecordInv, TimeInv, [Next]_vars PROVE TimeInv'
  OBVIOUS
<1>0. /\ \A q \in Request : InTime(call[q], row[q])
      /\ TypeInv'
  BY TypeStep DEF TimeInv
<1>1. ASSUME NEW q \in Request, RejectOptions(q) PROVE TimeInv'
  BY <1>1, ReturnInTime DEF RejectOptions, Answer, Holding
<1>2. ASSUME NEW q \in Request, IncidentNotFound(q) PROVE TimeInv'
  BY <1>2, ReturnInTime DEF IncidentNotFound, Answer, Holding
<1>3. ASSUME NEW q \in Request, LoadFails(q) PROVE TimeInv'
  BY <1>3, ReturnInTime DEF LoadFails, Answer, Holding
<1>4. ASSUME NEW q \in Request, LoadIncident(q) PROVE TimeInv'
  <2>1. /\ call[q].pc = "admitted" /\ call'[q].pc = "creating"
        /\ call'[q].owner = call[q].owner /\ call'[q].timer <= call[q].timer
        /\ row' = row /\ \A p \in Request : p # q => call'[p] = call[p]
    BY <1>4, LoadStep, OnlyCallType
  <2>2. call'[q].timer \in Nat /\ call[q].timer \in Nat /\ WorkBudget(call[q].owner) \in Nat
    BY <1>0, <2>1, NatFields DEF TypeInv, Call, Holding
  <2>3. row'[q].age + call'[q].timer <= WorkBudget(call'[q].owner)
    BY <1>0, <2>1, <2>2 DEF InTime
  <2> QED BY <1>0, <2>1, <2>3 DEF TimeInv, InTime, Bounded
<1>5. ASSUME NEW q \in Request, InsertRow(q) PROVE TimeInv'
  <2>1. Insert(q)
    BY <1>5 DEF InsertRow
  <2> QED BY <1>0, <1>5, <2>1, InsertRowStep, InsertStep, OnlyCallType, OnlyRowType
          DEF TimeInv, InTime, Bounded
<1>6. ASSUME NEW q \in Request, InsertFails(q) PROVE TimeInv'
  BY <1>6, ReturnInTime DEF InsertFails, Answer, Holding, TypeInv
<1>7. ASSUME NEW q \in Request, InsertLost(q) PROVE TimeInv'
  BY <1>7, ReturnInTime, InsertStep, OnlyRowType DEF InsertLost, Answer, Holding
<1>8. ASSUME NEW q \in Request, NEW t \in Tool, NEW ok \in BOOLEAN, RunTool(q, t, ok)
      PROVE  TimeInv'
  BY <1>0, <1>8, RunToolStep, OnlyCallType DEF TimeInv, InTime
<1>9. ASSUME NEW q \in Request, NEW cites \in SUBSET Tool, Conclude(q, cites)
      PROVE  TimeInv'
  <2>1. /\ call[q].pc = "diagnosing" /\ call'[q].pc = "saving"
        /\ call'[q].owner = call[q].owner /\ call'[q].timer = SaveBudget
        /\ row' = row /\ \A p \in Request : p # q => call'[p] = call[p]
    BY <1>9, ConcludeStep, OnlyCallType
  <2>2. row[q].age <= WorkBudget(call[q].owner)
    BY <1>0, <2>1, NatFields DEF InTime, Bounded, Holding
  <2>3. /\ call'[q].timer <= SaveBudget
        /\ row'[q].age + call'[q].timer <= WorkBudget(call'[q].owner) + SaveBudget
    BY <2>1, <2>2, NatFields, BudgetTypes DEF Holding
  <2> QED BY <1>0, <2>1, <2>3 DEF TimeInv, InTime, Bounded
<1>10. ASSUME NEW q \in Request, SaveCommits(q) PROVE TimeInv'
  BY <1>10, ReturnInTime, StoredStep, OnlyRowType DEF SaveCommits, Answer, Holding
<1>11. ASSUME NEW q \in Request, SaveFails(q) PROVE TimeInv'
  BY <1>11, ReturnInTime DEF SaveFails, Answer, Holding
<1>12. ASSUME NEW q \in Request, SaveLost(q) PROVE TimeInv'
  BY <1>12, ReturnInTime, StoredStep, OnlyRowType DEF SaveLost, Answer, Holding
<1>13. ASSUME NEW q \in Request, Busy(q) PROVE TimeInv'
  BY <1>0, <1>13, BusyStep, OnlyCallType DEF TimeInv, InTime, Bounded
<1>14. ASSUME NEW q \in Request, NEW r \in Replica, NEW i \in Incident \cup {Ghost},
              Admit(q, r, i)
       PROVE  TimeInv'
  BY <1>0, <1>14, AdmitStep, OnlyCallType, BudgetTypes DEF TimeInv, InTime, Bounded
<1>15. ASSUME NEW q \in Request, ClientLeaves(q) PROVE TimeInv'
  <2>1. /\ call[q].pc \in {"admitted"} \cup Bounded /\ call'[q].pc = call[q].pc
        /\ call'[q].owner = call[q].owner /\ call'[q].timer <= call[q].timer
        /\ row' = row /\ \A p \in Request : p # q => call'[p] = call[p]
    BY <1>15, ClientLeavesStep, OnlyCallType
  <2>2. /\ call'[q].timer \in Nat /\ call[q].timer \in Nat /\ row[q].age \in Nat
        /\ WorkBudget(call[q].owner) \in Nat
    BY <1>0, <2>1, NatFields DEF TypeInv, Call, Holding, Bounded
  <2> QED BY <1>0, <2>1, <2>2 DEF TimeInv, InTime, Bounded
<1>16. ASSUME NEW r \in Replica, Terminate(r) PROVE TimeInv'
  <2>1. \A p \in Request :
          /\ call'[p].timer \in Nat /\ call[p].timer \in Nat /\ row[p].age \in Nat
          /\ call[p].pc \in Holding => WorkBudget(call[p].owner) \in Nat
    BY <1>0, NatFields DEF TypeInv, Call
  <2> QED BY <1>0, <1>16, <2>1, TerminateStep, BudgetTypes
          DEF TimeInv, InTime, Bounded, Holding
<1>17. ASSUME NEW r \in Replica, Halt(r) PROVE TimeInv'
  BY <1>0, <1>17, HaltStep DEF TimeInv, InTime, Bounded
<1>18. ASSUME NEW r \in Replica, Boot(r) PROVE TimeInv'
  <2>1. \A p \in Request :
          /\ row'[p].age <= row[p].age /\ row'[p].age \in Nat
          /\ row[p].age = 0 => row'[p].age = 0
    BY <1>18, BootStep, NatFields
  <2>2. call' = call
    BY <1>18, BootStep
  <2> QED BY <1>0, <2>1, <2>2, NatFields, BudgetTypes DEF TimeInv, InTime, Bounded, Holding
<1>19. CASE Tick
  <2> SUFFICES ASSUME NEW p \in Request PROVE InTime(call'[p], row'[p])
    BY DEF TimeInv
  <2>1. /\ call'[p].pc = call[p].pc /\ call'[p].owner = call[p].owner
        /\ call[p].pc \in Timed => call'[p].timer = call[p].timer - 1
        /\ call[p].pc \notin Timed => call'[p] = call[p]
        /\ row'[p].age <= row[p].age + 1
        /\ ~Ageing(p) => row'[p] = row[p]
    BY <1>19, TickStep
  <2>2. /\ call'[p].timer \in Nat /\ call[p].timer \in Nat
        /\ row[p].age \in Nat /\ row'[p].age \in Nat
        /\ call[p].pc \in Holding => WorkBudget(call[p].owner) \in Nat
    BY <1>0, NatFields DEF TypeInv, Call, Row
  <2>3. call[p].pc \in {"idle", "admitted"} => ~Ageing(p)
    BY DEF RecordInv, Agrees, Ageing
  <2> QED BY <1>0, <2>1, <2>2, <2>3, BudgetTypes DEF InTime, Bounded, Timed, Holding
<1>20. CASE UNCHANGED vars
  BY <1>20 DEF vars, TimeInv
<1> QED
  BY <1>1, <1>2, <1>3, <1>4, <1>5, <1>6, <1>7, <1>8, <1>9, <1>10, <1>11, <1>12,
     <1>13, <1>14, <1>15, <1>16, <1>17, <1>18, <1>19, <1>20
     DEF Next, EngineStep, ClientStep, ReplicaStep, AnalysisSucceeds, AnalysisFails,
         Crash, DrainedExit, ForcedExit

(***************************************************************************)
(* A live call's row is too young for the sweep of a replica with the same *)
(* INVESTIGATION_TIMEOUT.                                                  *)
(***************************************************************************)
LEMMA LiveNotStale ==
    ASSUME TypeInv, TimeInv, OneConfiguration,
           NEW q \in Request, call[q].pc \in {"diagnosing", "saving"}, NEW r \in Replica
    PROVE  q \notin Stale(r)
<1> DEFINE o == call[q].owner
<1>1. o \in Replica /\ Timeout[o] = Timeout[r]
  BY DEF TypeInv, Holding, OneConfiguration
<1>2. row[q].age <= WorkBudget(o) + SaveBudget
  BY NatFields, BudgetTypes DEF TimeInv, InTime, Bounded, Holding
<1>3. WorkBudget(o) + SaveBudget <= StaleAfter(r)
  BY <1>1, ConfigAssumption, TimeAssumption
     DEF WorkBudget, SaveBudget, StaleAfter, ShutdownGrace
<1>4. row[q].age \in Nat /\ WorkBudget(o) + SaveBudget \in Nat /\ StaleAfter(r) \in Nat
  BY <1>1, NatFields, BudgetTypes, StaleAfterType
<1> HIDE DEF o
<1>5. ~(row[q].age > StaleAfter(r))
  BY <1>2, <1>3, <1>4
<1> QED BY <1>5 DEF Stale

\* The layers together.
Inv == TypeInv /\ RecordInv /\ TimeInv

LEMMA InvInit == Init => Inv
BY TypeInit, RecordInit, TimeInit DEF Inv

LEMMA InvStep == Inv /\ [Next]_vars => Inv'
BY TypeStep, RecordStep, TimeStep DEF Inv

LEMMA LiveStep ==
    ASSUME OneConfiguration
    PROVE  Inv /\ LiveIsRunning /\ [Next]_vars => LiveIsRunning'
<1> SUFFICES ASSUME Inv, LiveIsRunning, [Next]_vars PROVE LiveIsRunning'
  OBVIOUS
<1> USE DEF Inv, LiveIsRunning
\* The call returns: it is no longer live.
<1>1. ASSUME NEW q \in Request, call[q].pc \in Holding, NEW a \in Answer, Return(q, a),
             \A p \in Request : p # q => row'[p] = row[p]
      PROVE  LiveIsRunning'
  BY <1>1, ReturnStep, OnlyCallType
<1>2. ASSUME NEW q \in Request, RejectOptions(q) PROVE LiveIsRunning'
  BY <1>1, <1>2 DEF RejectOptions, Answer, Holding
<1>3. ASSUME NEW q \in Request, IncidentNotFound(q) PROVE LiveIsRunning'
  BY <1>1, <1>3 DEF IncidentNotFound, Answer, Holding
<1>4. ASSUME NEW q \in Request, LoadFails(q) PROVE LiveIsRunning'
  BY <1>1, <1>4 DEF LoadFails, Answer, Holding
<1>5. ASSUME NEW q \in Request, LoadIncident(q) PROVE LiveIsRunning'
  BY <1>5, LoadStep, OnlyCallType
<1>6. ASSUME NEW q \in Request, InsertRow(q) PROVE LiveIsRunning'
  BY <1>6, InsertRowStep, InsertStep, OnlyCallType, OnlyRowType DEF InsertRow
<1>7. ASSUME NEW q \in Request, InsertFails(q) PROVE LiveIsRunning'
  BY <1>1, <1>7 DEF InsertFails, Answer, Holding, TypeInv
<1>8. ASSUME NEW q \in Request, InsertLost(q) PROVE LiveIsRunning'
  BY <1>1, <1>8, InsertStep, OnlyRowType DEF InsertLost, Answer, Holding
<1>9. ASSUME NEW q \in Request, NEW t \in Tool, NEW ok \in BOOLEAN, RunTool(q, t, ok)
      PROVE  LiveIsRunning'
  BY <1>9, RunToolStep, OnlyCallType
<1>10. ASSUME NEW q \in Request, NEW cites \in SUBSET Tool, Conclude(q, cites)
       PROVE  LiveIsRunning'
  BY <1>10, ConcludeStep, OnlyCallType
<1>11. ASSUME NEW q \in Request, SaveCommits(q) PROVE LiveIsRunning'
  BY <1>1, <1>11, StoredStep, OnlyRowType DEF SaveCommits, Answer, Holding
<1>12. ASSUME NEW q \in Request, SaveFails(q) PROVE LiveIsRunning'
  BY <1>1, <1>12 DEF SaveFails, Answer, Holding
<1>13. ASSUME NEW q \in Request, SaveLost(q) PROVE LiveIsRunning'
  BY <1>1, <1>13, StoredStep, OnlyRowType DEF SaveLost, Answer, Holding
<1>14. ASSUME NEW q \in Request, Busy(q) PROVE LiveIsRunning'
  BY <1>14, BusyStep, OnlyCallType
<1>15. ASSUME NEW q \in Request, NEW r \in Replica, NEW i \in Incident \cup {Ghost},
              Admit(q, r, i)
       PROVE  LiveIsRunning'
  BY <1>15, AdmitStep, OnlyCallType
<1>16. ASSUME NEW q \in Request, ClientLeaves(q) PROVE LiveIsRunning'
  BY <1>16, ClientLeavesStep, OnlyCallType
<1>17. ASSUME NEW r \in Replica, Terminate(r) PROVE LiveIsRunning'
  BY <1>17, TerminateStep
<1>18. ASSUME NEW r \in Replica, Halt(r) PROVE LiveIsRunning'
  <2>1. \A p \in Request :
          call'[p].pc # "returned" => call'[p] = call[p] /\ row'[p] = row[p]
    BY <1>18, HaltStep
  <2> QED BY <2>1
\* The sweep: no live call's row is stale.
<1>19. ASSUME NEW r \in Replica, Boot(r) PROVE LiveIsRunning'
  BY <1>19, BootStep, LiveNotStale
<1>20. CASE Tick
  BY <1>20, TickStep
<1>21. CASE UNCHANGED vars
  BY <1>21 DEF vars
<1> QED
  BY <1>2, <1>3, <1>4, <1>5, <1>6, <1>7, <1>8, <1>9, <1>10, <1>11, <1>12,
     <1>13, <1>14, <1>15, <1>16, <1>17, <1>18, <1>19, <1>20, <1>21
     DEF Next, EngineStep, ClientStep, ReplicaStep, AnalysisSucceeds, AnalysisFails,
         Crash, DrainedExit, ForcedExit

\* The comment of FailStaleInvestigations: when all replicas run with one
\* INVESTIGATION_TIMEOUT, records another live replica is still working on
\* are left alone by every sweep.
THEOREM SweepsSpareTheLiving ==
    ASSUME OneConfiguration
    PROVE  Spec => []LiveIsRunning
<1>1. Init => Inv /\ LiveIsRunning
  <2>1. Init => LiveIsRunning
    BY DEF Init, LiveIsRunning, NoCall
  <2> QED BY <2>1, InvInit
<1>2. (Inv /\ LiveIsRunning) /\ [Next]_vars => (Inv /\ LiveIsRunning)'
  BY InvStep, LiveStep
<1> QED BY <1>1, <1>2, PTL DEF Spec

(***************************************************************************)
(* The implementation of Lifecycle.                                        *)
(***************************************************************************)
LEMMA RefineInit == Init => Abstract!Init
BY DEF Init, Abstract!Init, NoRow

\* A step that leaves every status and incident alone stutters.
LEMMA Stutters ==
    ASSUME UNCHANGED analyzed,
           \A p \in Request : row'[p].status = row[p].status /\ row'[p].inc = row[p].inc
    PROVE  UNCHANGED Abstract!vars
BY DEF Abstract!vars

\* The INSERT opens the record.
LEMMA InsertOpens ==
    ASSUME Inv, NEW q \in Request, call[q].pc = "creating", Insert(q), UNCHANGED analyzed
    PROVE  Abstract!Next
<1>1. /\ row'[q].status = "running" /\ row'[q].inc = call[q].inc
      /\ \A p \in Request : p # q => row'[p] = row[p]
  BY InsertStep, OnlyRowType DEF Inv
<1>2. row[q].status = "none" /\ call[q].inc \in Incident
  BY DEF Inv, TypeInv, Timed, Bounded, RecordInv, Agrees
<1>3. PICK i \in Incident : i = call[q].inc
  BY <1>2
<1>4. Abstract!Open(q, i)
  BY <1>1, <1>2, <1>3 DEF Abstract!Open
<1> QED BY <1>4 DEF Abstract!Next

\* The final transaction completes the record or fails it.
LEMMA StoredConcludes ==
    ASSUME Inv, LiveIsRunning, NEW q \in Request, call[q].pc = "saving", Stored(q)
    PROVE  Abstract!Next
<1>1. /\ row'[q].status = IF call[q].cites = {} THEN "failed" ELSE "completed"
      /\ row'[q].inc = row[q].inc
      /\ analyzed' = IF call[q].cites = {} THEN analyzed
                     ELSE analyzed \cup {call[q].inc}
      /\ \A p \in Request : p # q => row'[p] = row[p]
  BY StoredStep, OnlyRowType DEF Inv
<1>2. row[q].status = "running" /\ row[q].inc = call[q].inc
  BY DEF Inv, RecordInv, Agrees, LiveIsRunning
<1>3. CASE call[q].cites = {}
  <2>1. Abstract!Fail({q})
    BY <1>1, <1>2, <1>3 DEF Abstract!Fail
  <2> QED BY <2>1 DEF Abstract!Next
<1>4. CASE call[q].cites # {}
  <2>1. Abstract!Complete(q)
    BY <1>1, <1>2, <1>4 DEF Abstract!Complete
  <2> QED BY <2>1 DEF Abstract!Next
<1> QED BY <1>3, <1>4

\* The sweep fails the stale records.
LEMMA BootFails ==
    ASSUME Inv, NEW r \in Replica, Boot(r)
    PROVE  Abstract!Next
<1>1. /\ \A p \in Stale(r) : row[p].status = "running" /\ row'[p].status = "failed"
                                /\ row'[p].inc = row[p].inc
      /\ \A p \in Request \ Stale(r) : row'[p] = row[p]
      /\ UNCHANGED analyzed /\ Stale(r) \in SUBSET Request
  BY BootStep DEF Inv, Stale
<1>2. PICK K \in SUBSET Request : K = Stale(r)
  BY <1>1
<1>3. Abstract!Fail(K)
  BY <1>1, <1>2 DEF Abstract!Fail
<1> QED BY <1>3 DEF Abstract!Next

LEMMA RefineStep ==
    Inv /\ LiveIsRunning /\ [Next]_vars => [Abstract!Next]_(Abstract!vars)
<1> SUFFICES ASSUME Inv, LiveIsRunning, [Next]_vars
             PROVE  Abstract!Next \/ UNCHANGED Abstract!vars
  OBVIOUS
<1>0. TypeInv /\ \A q \in Request : Agrees(call[q], row[q])
  BY DEF Inv, RecordInv
<1>1. ASSUME NEW q \in Request, RejectOptions(q) PROVE UNCHANGED Abstract!vars
  BY <1>1, Stutters DEF RejectOptions
<1>2. ASSUME NEW q \in Request, IncidentNotFound(q) PROVE UNCHANGED Abstract!vars
  BY <1>2, Stutters DEF IncidentNotFound
<1>3. ASSUME NEW q \in Request, LoadFails(q) PROVE UNCHANGED Abstract!vars
  BY <1>3, Stutters DEF LoadFails
<1>4. ASSUME NEW q \in Request, LoadIncident(q) PROVE UNCHANGED Abstract!vars
  BY <1>4, Stutters DEF LoadIncident
<1>5. ASSUME NEW q \in Request, InsertRow(q) PROVE Abstract!Next
  BY <1>5, InsertOpens DEF InsertRow
<1>6. ASSUME NEW q \in Request, InsertFails(q) PROVE UNCHANGED Abstract!vars
  <2>1. row[q].status = "none" /\ row[q].inc = None
    BY <1>0, <1>6 DEF InsertFails, Agrees
  <2>2. row'[q] = NoRow /\ \A p \in Request : p # q => row'[p] = row[p]
    BY <1>0, <1>6 DEF InsertFails, TypeInv
  <2>3. UNCHANGED analyzed
    BY <1>6 DEF InsertFails
  <2>4. NoRow.status = "none" /\ NoRow.inc = None
    BY DEF NoRow
  <2>5. \A p \in Request : row'[p].status = row[p].status /\ row'[p].inc = row[p].inc
    BY <2>1, <2>2, <2>4
  <2> QED BY <2>3, <2>5, Stutters
<1>7. ASSUME NEW q \in Request, InsertLost(q) PROVE Abstract!Next
  BY <1>7, InsertOpens DEF InsertLost
<1>8. ASSUME NEW q \in Request, NEW t \in Tool, NEW ok \in BOOLEAN, RunTool(q, t, ok)
      PROVE  UNCHANGED Abstract!vars
  BY <1>8, Stutters DEF RunTool
<1>9. ASSUME NEW q \in Request, NEW cites \in SUBSET Tool, Conclude(q, cites)
      PROVE  UNCHANGED Abstract!vars
  BY <1>9, Stutters DEF Conclude
<1>10. ASSUME NEW q \in Request, SaveCommits(q) PROVE Abstract!Next
  BY <1>10, StoredConcludes DEF SaveCommits
<1>11. ASSUME NEW q \in Request, SaveFails(q) PROVE UNCHANGED Abstract!vars
  BY <1>11, Stutters DEF SaveFails
<1>12. ASSUME NEW q \in Request, SaveLost(q) PROVE Abstract!Next
  BY <1>12, StoredConcludes DEF SaveLost
<1>13. ASSUME NEW q \in Request, Busy(q) PROVE UNCHANGED Abstract!vars
  BY <1>13, Stutters DEF Busy
<1>14. ASSUME NEW q \in Request, NEW r \in Replica, NEW i \in Incident \cup {Ghost},
              Admit(q, r, i)
       PROVE  UNCHANGED Abstract!vars
  BY <1>14, Stutters DEF Admit
<1>15. ASSUME NEW q \in Request, ClientLeaves(q) PROVE UNCHANGED Abstract!vars
  BY <1>15, Stutters DEF ClientLeaves
<1>16. ASSUME NEW r \in Replica, Terminate(r) PROVE UNCHANGED Abstract!vars
  BY <1>16, Stutters DEF Terminate
<1>17. ASSUME NEW r \in Replica, Halt(r) PROVE UNCHANGED Abstract!vars
  <2>1. \A p \in Request : row'[p] = row[p] \/ (row'[p] = NoRow /\ call[p].pc = "creating")
    BY <1>0, <1>17, HaltStep
  <2>2. \A p \in Request :
          call[p].pc = "creating" => row[p].status = "none" /\ row[p].inc = None
    BY <1>0 DEF Agrees
  <2>3. NoRow.status = "none" /\ NoRow.inc = None
    BY DEF NoRow
  <2>4. \A p \in Request : row'[p].status = row[p].status /\ row'[p].inc = row[p].inc
    BY <2>1, <2>2, <2>3
  <2> QED BY <1>0, <1>17, <2>4, HaltStep, Stutters
<1>18. ASSUME NEW r \in Replica, Boot(r) PROVE Abstract!Next
  BY <1>18, BootFails
<1>19. CASE Tick
  BY <1>0, <1>19, TickStep, Stutters
<1>20. CASE UNCHANGED vars
  BY <1>20, Stutters DEF vars
<1> QED
  BY <1>1, <1>2, <1>3, <1>4, <1>5, <1>6, <1>7, <1>8, <1>9, <1>10, <1>11, <1>12,
     <1>13, <1>14, <1>15, <1>16, <1>17, <1>18, <1>19, <1>20
     DEF Next, EngineStep, ClientStep, ReplicaStep, AnalysisSucceeds, AnalysisFails,
         Crash, DrainedExit, ForcedExit

\* Under one configuration the whole service implements Lifecycle: a record
\* opens as running, concludes once, in one step with its incident, and then
\* never changes.
THEOREM Refinement ==
    ASSUME OneConfiguration
    PROVE  Spec => ImplementsLifecycle
<1>1. Init => Inv /\ LiveIsRunning /\ Abstract!Init
  <2>1. Init => LiveIsRunning
    BY DEF Init, LiveIsRunning, NoCall
  <2> QED BY <2>1, InvInit, RefineInit
<1>2. (Inv /\ LiveIsRunning) /\ [Next]_vars => (Inv /\ LiveIsRunning)'
  BY InvStep, LiveStep
<1> QED BY <1>1, <1>2, RefineStep, PTL DEF Spec, ImplementsLifecycle, Abstract!Spec

(***************************************************************************)
(* What SIGTERM guarantees: ShutdownGrace covers the calls in flight, and  *)
(* with an LLM provider none of them completes any more.                   *)
(***************************************************************************)

\* The time since SIGTERM, up to ShutdownGrace.
SinceStop(r) == ShutdownGrace - grace[r]

\* A live call of a stopping process is on its last budgets, counted from
\* SIGTERM if the call is older and from its own INSERT if not.
OnTheWayOut(c, x, g) ==
    LET within(n) == x.age + c.timer <= n \/ (ShutdownGrace - g) + c.timer <= n
    IN  /\ c.pc \in Bounded => within(Lag)
        /\ c.pc = "saving" => within(SaveBudget + Lag)

StopInv ==
    \A q \in Request :
       call[q].pc \in Holding /\ proc[call[q].owner] = "stopping"
          => OnTheWayOut(call[q], row[q], grace[call[q].owner])

LEMMA NatTimes ==
    ASSUME TypeInv
    PROVE  /\ \A q \in Request : call[q].timer \in Nat /\ row[q].age \in Nat
           /\ \A r \in Replica : grace[r] \in Nat /\ grace[r] <= ShutdownGrace
           /\ ShutdownGrace \in Nat /\ Lag \in Nat /\ SaveBudget \in Nat
BY NatFields, BudgetTypes, GraceType, TimeAssumption DEF TypeInv

LEMMA StopInit == Init => StopInv
BY DEF Init, StopInv, NoCall, Holding

\* A step keeps the bound if every call that a stopping process still serves
\* was served by it before, unchanged, with its row and what is left of the grace.
LEMMA StopKept ==
    ASSUME TypeInv, StopInv,
           \A q \in Request :
              call'[q].pc \in Holding /\ proc'[call'[q].owner] = "stopping" =>
                 /\ call'[q] = call[q] /\ row'[q].age = row[q].age
                 /\ proc[call[q].owner] = "stopping"
                 /\ grace'[call[q].owner] = grace[call[q].owner]
    PROVE  StopInv'
BY DEF StopInv, OnTheWayOut

\* A step that changes only call q and its row has to keep the bound for q.
LEMMA StopLocal ==
    ASSUME TypeInv, StopInv, NEW q \in Request,
           UNCHANGED <<proc, grace>>,
           \A p \in Request : p # q => call'[p] = call[p] /\ row'[p] = row[p],
           call'[q].pc \in Holding /\ proc'[call'[q].owner] = "stopping"
              => OnTheWayOut(call'[q], row'[q], grace'[call'[q].owner])
    PROVE  StopInv'
BY DEF StopInv, OnTheWayOut

LEMMA StopReturn ==
    ASSUME TypeInv, StopInv, NEW q \in Request, call[q].pc \in Holding,
           NEW a \in Answer, Return(q, a), UNCHANGED <<proc, grace>>,
           \A p \in Request : p # q => row'[p] = row[p]
    PROVE  StopInv'
BY ReturnStep, OnlyCallType, StopLocal DEF Holding

LEMMA StopStep == Inv /\ StopInv /\ [Next]_vars => StopInv'
<1> SUFFICES ASSUME Inv, StopInv, [Next]_vars PROVE StopInv'
  OBVIOUS
<1>0. /\ TypeInv /\ TypeInv' /\ RecordInv /\ TimeInv
      /\ \A q \in Request :
            call[q].pc \in Holding /\ proc[call[q].owner] = "stopping"
               => OnTheWayOut(call[q], row[q], grace[call[q].owner])
  BY InvStep DEF Inv, StopInv
<1>1. ASSUME NEW q \in Request, RejectOptions(q) PROVE StopInv'
  BY <1>0, <1>1, StopReturn DEF RejectOptions, Answer, Holding
<1>2. ASSUME NEW q \in Request, IncidentNotFound(q) PROVE StopInv'
  BY <1>0, <1>2, StopReturn DEF IncidentNotFound, Answer, Holding
<1>3. ASSUME NEW q \in Request, LoadFails(q) PROVE StopInv'
  BY <1>0, <1>3, StopReturn DEF LoadFails, Answer, Holding
\* A call that starts while its process is stopping starts cancelled.
<1>4. ASSUME NEW q \in Request, LoadIncident(q) PROVE StopInv'
  <2>1. /\ call[q].pc = "admitted" /\ call'[q].pc = "creating"
        /\ call'[q].owner = call[q].owner
        /\ proc[call[q].owner] = "stopping" => call'[q].timer <= Lag
        /\ \A p \in Request : p # q => call'[p] = call[p]
        /\ UNCHANGED <<proc, grace, row>>
    BY <1>0, <1>4, LoadStep, OnlyCallType
  <2>2. row[q].age = 0
    BY <1>0, <2>1 DEF TimeInv, InTime
  <2>3. call'[q].timer \in Nat
    BY <1>0 DEF TypeInv, Call
  <2>4. proc[call[q].owner] = "stopping" => row'[q].age + call'[q].timer <= Lag
    BY <1>0, <2>1, <2>2, <2>3, NatTimes
  <2> QED BY <1>0, <2>1, <2>4, StopLocal DEF OnTheWayOut, Bounded
<1>5. ASSUME NEW q \in Request, InsertRow(q) PROVE StopInv'
  <2>1. Insert(q)
    BY <1>5 DEF InsertRow
  <2>2. /\ call[q].pc = "creating" /\ call'[q].pc = "diagnosing"
        /\ call'[q].owner = call[q].owner /\ call'[q].timer = call[q].timer
        /\ row'[q].age = row[q].age
        /\ \A p \in Request : p # q => call'[p] = call[p] /\ row'[p] = row[p]
        /\ UNCHANGED <<proc, grace>>
    BY <1>0, <1>5, <2>1, InsertRowStep, InsertStep, OnlyCallType, OnlyRowType
  <2> QED BY <1>0, <2>2, StopLocal DEF OnTheWayOut, Bounded, Holding
<1>6. ASSUME NEW q \in Request, InsertFails(q) PROVE StopInv'
  BY <1>0, <1>6, StopReturn DEF InsertFails, Answer, Holding, TypeInv
<1>7. ASSUME NEW q \in Request, InsertLost(q) PROVE StopInv'
  BY <1>0, <1>7, StopReturn, InsertStep, OnlyRowType DEF InsertLost, Answer, Holding
<1>8. ASSUME NEW q \in Request, NEW t \in Tool, NEW ok \in BOOLEAN, RunTool(q, t, ok)
      PROVE  StopInv'
  BY <1>0, <1>8, RunToolStep, OnlyCallType, StopLocal DEF OnTheWayOut, Bounded, Holding
\* The save gets a budget of its own on top of what had to be left.
<1>9. ASSUME NEW q \in Request, NEW cites \in SUBSET Tool, Conclude(q, cites)
      PROVE  StopInv'
  <2>1. /\ call[q].pc = "diagnosing" /\ call'[q].pc = "saving"
        /\ call'[q].owner = call[q].owner /\ call'[q].timer = SaveBudget
        /\ \A p \in Request : p # q => call'[p] = call[p]
        /\ UNCHANGED <<proc, grace, row>>
    BY <1>0, <1>9, ConcludeStep, OnlyCallType
  <2>2. call[q].owner \in Replica
    BY <1>0, <2>1 DEF TypeInv, Holding
  <2>3. proc[call[q].owner] = "stopping" =>
           \/ row[q].age <= Lag
           \/ ShutdownGrace - grace[call[q].owner] <= Lag
    BY <1>0, <2>1, <2>2, NatTimes DEF OnTheWayOut, Bounded, Holding
  <2>4. proc[call[q].owner] = "stopping" =>
           \/ row[q].age + SaveBudget <= SaveBudget + Lag
           \/ (ShutdownGrace - grace[call[q].owner]) + SaveBudget <= SaveBudget + Lag
    BY <1>0, <2>2, <2>3, NatTimes
  <2> QED BY <1>0, <2>1, <2>4, StopLocal DEF OnTheWayOut, Bounded
<1>10. ASSUME NEW q \in Request, SaveCommits(q) PROVE StopInv'
  BY <1>0, <1>10, StopReturn, StoredStep, OnlyRowType DEF SaveCommits, Answer, Holding
<1>11. ASSUME NEW q \in Request, SaveFails(q) PROVE StopInv'
  BY <1>0, <1>11, StopReturn DEF SaveFails, Answer, Holding
<1>12. ASSUME NEW q \in Request, SaveLost(q) PROVE StopInv'
  BY <1>0, <1>12, StopReturn, StoredStep, OnlyRowType DEF SaveLost, Answer, Holding
<1>13. ASSUME NEW q \in Request, Busy(q) PROVE StopInv'
  BY <1>0, <1>13, BusyStep, OnlyCallType, StopLocal DEF Holding
<1>14. ASSUME NEW q \in Request, NEW r \in Replica, NEW i \in Incident \cup {Ghost},
              Admit(q, r, i)
       PROVE  StopInv'
  BY <1>0, <1>14, AdmitStep, OnlyCallType, StopLocal DEF OnTheWayOut, Bounded
<1>15. ASSUME NEW q \in Request, ClientLeaves(q) PROVE StopInv'
  <2>1. /\ call[q].pc \in {"admitted"} \cup Bounded /\ call'[q].pc = call[q].pc
        /\ call'[q].owner = call[q].owner /\ call'[q].timer <= call[q].timer
        /\ \A p \in Request : p # q => call'[p] = call[p]
        /\ UNCHANGED <<proc, grace, row>>
    BY <1>0, <1>15, ClientLeavesStep, OnlyCallType
  <2>2. call'[q].timer \in Nat /\ call[q].pc \in Holding /\ call[q].owner \in Replica
    BY <1>0, <2>1 DEF TypeInv, Call, Holding, Bounded
  <2> QED BY <1>0, <2>1, <2>2, NatTimes, StopLocal DEF OnTheWayOut, Bounded
\* At SIGTERM no time has passed since SIGTERM.
<1>16. ASSUME NEW r \in Replica, Terminate(r) PROVE StopInv'
  <2> SUFFICES ASSUME NEW p \in Request, call'[p].pc \in Holding,
                      proc'[call'[p].owner] = "stopping"
               PROVE  OnTheWayOut(call'[p], row'[p], grace'[call'[p].owner])
    BY DEF StopInv
  <2>1. /\ call'[p].pc = call[p].pc /\ call'[p].owner = call[p].owner
        /\ call'[p].timer <= call[p].timer /\ row' = row
        /\ call[p].owner = r /\ call[p].pc \in Bounded => call'[p].timer <= Lag
        /\ call[p].pc \notin Bounded => call'[p] = call[p]
        /\ proc' = [proc EXCEPT ![r] = "stopping"]
        /\ grace' = [grace EXCEPT ![r] = ShutdownGrace]
    BY <1>0, <1>16, TerminateStep
  <2>2. call[p].owner \in Replica /\ call'[p].timer \in Nat
    BY <1>0, <2>1 DEF TypeInv, Call
  <2>3. CASE call[p].owner = r
    <3>1. ShutdownGrace - grace'[r] = 0
      BY <1>0, <2>1, <2>2, <2>3, NatTimes DEF TypeInv
    <3>2. call[p].pc = "saving" => call'[p].timer <= SaveBudget + Lag
      BY <1>0, <2>1, NatTimes DEF TimeInv, InTime, Bounded
    <3> QED BY <1>0, <2>1, <2>2, <2>3, <3>1, <3>2, NatTimes DEF OnTheWayOut
  <2>4. CASE call[p].owner # r
    <3>1. /\ proc[call[p].owner] = "stopping"
          /\ grace'[call'[p].owner] = grace[call[p].owner]
      BY <1>0, <2>1, <2>2, <2>4 DEF TypeInv
    <3>2. OnTheWayOut(call[p], row[p], grace[call[p].owner])
      BY <1>0, <2>1, <3>1
    <3> QED BY <1>0, <2>1, <2>2, <3>1, <3>2, NatTimes DEF OnTheWayOut
  <2> QED BY <2>3, <2>4
<1>17. ASSUME NEW r \in Replica, Halt(r) PROVE StopInv'
  <2>1. \A p \in Request :
          call'[p].pc # "returned" =>
             p \notin Holders(r) /\ call'[p] = call[p] /\ row'[p] = row[p]
    BY <1>0, <1>17, HaltStep
  <2>2. /\ proc' = [proc EXCEPT ![r] = "down"] /\ grace' = [grace EXCEPT ![r] = 0]
    BY <1>0, <1>17, HaltStep
  <2>3. \A p \in Request :
          call'[p].pc \in Holding => call'[p] = call[p] /\ row'[p] = row[p]
             /\ call[p].owner # r /\ call[p].owner \in Replica
    BY <1>0, <2>1 DEF Holders, Holding, TypeInv
  <2> QED BY <1>0, <2>2, <2>3, StopKept DEF TypeInv
<1>18. ASSUME NEW r \in Replica, Boot(r) PROVE StopInv'
  <2>1. /\ proc[r] = "down" /\ proc' = [proc EXCEPT ![r] = "serving"]
        /\ UNCHANGED <<grace, call>>
        /\ \A p \in Request : row'[p].age = 0 \/ row'[p] = row[p]
    BY <1>0, <1>18, BootStep
  <2> SUFFICES ASSUME NEW p \in Request, call'[p].pc \in Holding,
                      proc'[call'[p].owner] = "stopping"
               PROVE  OnTheWayOut(call'[p], row'[p], grace'[call'[p].owner])
    BY DEF StopInv
  <2>2. call[p].owner \in Replica /\ proc[call[p].owner] = "stopping"
    BY <1>0, <2>1 DEF TypeInv
  <2>3. OnTheWayOut(call[p], row[p], grace[call[p].owner])
    BY <1>0, <2>1, <2>2
  <2> QED BY <1>0, <2>1, <2>2, <2>3, NatTimes DEF OnTheWayOut
\* Time that passes is taken from the timer and added to both ages.
<1>19. CASE Tick
  <2> SUFFICES ASSUME NEW p \in Request, call'[p].pc \in Holding,
                      proc'[call'[p].owner] = "stopping"
               PROVE  OnTheWayOut(call'[p], row'[p], grace'[call'[p].owner])
    BY DEF StopInv
  <2>1. /\ call'[p].pc = call[p].pc /\ call'[p].owner = call[p].owner
        /\ call[p].pc \in Timed => call'[p].timer = call[p].timer - 1
        /\ row'[p].age <= row[p].age + 1 /\ proc' = proc
        /\ \A r \in Replica : grace'[r] = IF grace[r] > 0 THEN grace[r] - 1 ELSE 0
    BY <1>0, <1>19, TickStep
  <2>2. /\ call[p].owner \in Replica
        /\ call'[p].timer \in Nat /\ call[p].timer \in Nat
        /\ row[p].age \in Nat /\ row'[p].age \in Nat
        /\ grace[call[p].owner] \in Nat /\ ShutdownGrace \in Nat
        /\ Lag \in Nat /\ SaveBudget \in Nat
    BY <1>0, <2>1, NatTimes DEF TypeInv, Call, Row
  <2>3. OnTheWayOut(call[p], row[p], grace[call[p].owner])
    BY <1>0, <2>1
  <2>4. ShutdownGrace - grace'[call[p].owner] <= (ShutdownGrace - grace[call[p].owner]) + 1
    BY <2>1, <2>2
  <2> QED BY <2>1, <2>2, <2>3, <2>4 DEF OnTheWayOut, Timed, Bounded
<1>20. CASE UNCHANGED vars
  BY <1>0, <1>20, StopKept DEF vars
<1> QED
  BY <1>1, <1>2, <1>3, <1>4, <1>5, <1>6, <1>7, <1>8, <1>9, <1>10, <1>11, <1>12,
     <1>13, <1>14, <1>15, <1>16, <1>17, <1>18, <1>19, <1>20
     DEF Next, EngineStep, ClientStep, ReplicaStep, AnalysisSucceeds, AnalysisFails,
         Crash, DrainedExit, ForcedExit

LEMMA StopInvariant == Spec => [](Inv /\ StopInv)
<1>1. Init => Inv /\ StopInv
  BY InvInit, StopInit
<1>2. (Inv /\ StopInv) /\ [Next]_vars => (Inv /\ StopInv)'
  BY InvStep, StopStep
<1> QED BY <1>1, <1>2, PTL DEF Spec

\* ShutdownGrace is long enough: when srv.Shutdown gives up, no call whose
\* INSERT was sent before SIGTERM is still at work.
THEOREM GraceSuffices == Spec => []GraceCoversSave
<1>1. Inv /\ StopInv => GraceCoversSave
  <2> SUFFICES ASSUME Inv, StopInv, NEW r \in Replica, proc[r] = "stopping", grace[r] = 0,
                      NEW q \in Holders(r), call[q].pc \in Timed
               PROVE  row[q].age < ShutdownGrace
    BY DEF GraceCoversSave
  <2>1. q \in Request /\ call[q].pc \in Holding /\ call[q].owner = r
    BY DEF Holders
  <2>2. OnTheWayOut(call[q], row[q], grace[call[q].owner])
    BY <2>1 DEF StopInv
  <2>3. /\ call[q].timer \in Nat /\ row[q].age \in Nat /\ ShutdownGrace \in Nat
        /\ Lag \in Nat /\ SaveBudget \in Nat
    BY <2>1, NatTimes DEF Inv
  <2>4. \/ row[q].age + call[q].timer <= SaveBudget + Lag
        \/ (ShutdownGrace - 0) + call[q].timer <= SaveBudget + Lag
    BY <2>1, <2>2, <2>3 DEF OnTheWayOut, Timed
  <2>5. SaveBudget + Lag < ShutdownGrace
    BY TimeAssumption DEF SaveBudget, ShutdownGrace
  <2> QED BY <2>3, <2>4, <2>5
<1> QED BY <1>1, StopInvariant, PTL

\* With an LLM provider, an investigation that is still diagnosing or in
\* analysis when its process is told to stop is saved as failed.
THEOREM StopFailsWithLlm ==
    ASSUME \A r \in Replica : Provider[r] = "llm"
    PROVE  Spec => StopFailsDiagnosing
<1> DEFINE Concluded(q) == call[q].pc = "diagnosing" /\ call'[q].pc = "saving"
                              /\ proc[call[q].owner] = "stopping"
           NoReport == \A q \in Request : Concluded(q) => call'[q].cites = {}
\* Only Conclude takes a call from diagnosing to saving.
<1>1. ASSUME Inv, [Next]_vars, NEW q \in Request, Concluded(q)
      PROVE  \/ \E cites \in SUBSET Tool : AnalysisSucceeds(q, cites)
             \/ AnalysisFails(q)
  <2>0. TypeInv /\ call[q].pc = "diagnosing" /\ call'[q].pc = "saving"
    BY <1>1 DEF Inv
  <2>1. ASSUME NEW p \in Request, EngineStep(p), p # q
        PROVE  call'[q] = call[q]
    BY <2>0, <2>1 DEF EngineStep, RejectOptions, IncidentNotFound, LoadFails, LoadIncident,
       InsertRow, InsertFails, InsertLost, RunTool, AnalysisSucceeds, AnalysisFails,
       Conclude, SaveCommits, SaveFails, SaveLost, Return, Becomes, TypeInv
  <2>2. ASSUME EngineStep(q)
        PROVE  \/ \E cites \in SUBSET Tool : AnalysisSucceeds(q, cites)
               \/ AnalysisFails(q)
    <3>1. ASSUME NEW t \in Tool, NEW ok \in BOOLEAN, RunTool(q, t, ok)
          PROVE  FALSE
      BY <2>0, <3>1, RunToolStep
    <3> QED BY <2>0, <2>2, <3>1 DEF EngineStep, RejectOptions, IncidentNotFound,
               LoadFails, LoadIncident, InsertRow, InsertFails, InsertLost,
               SaveCommits, SaveFails, SaveLost
  <2>3. ASSUME NEW p \in Request, ClientStep(p) PROVE call'[q].pc # "saving"
    <3>1. CASE Busy(p)
      BY <2>0, <3>1, BusyStep, OnlyCallType
    <3>2. ASSUME NEW r \in Replica, NEW i \in Incident \cup {Ghost}, Admit(p, r, i)
          PROVE  call'[q].pc # "saving"
      BY <2>0, <3>2, AdmitStep, OnlyCallType
    <3>3. CASE ClientLeaves(p)
      BY <2>0, <3>3, ClientLeavesStep, OnlyCallType
    <3> QED BY <2>3, <3>1, <3>2, <3>3 DEF ClientStep
  <2>4. ASSUME NEW r \in Replica, ReplicaStep(r) PROVE call'[q].pc # "saving"
    <3>1. CASE Halt(r)
      BY <2>0, <3>1, HaltStep
    <3>2. CASE Terminate(r)
      BY <2>0, <3>2, TerminateStep
    <3>3. CASE Boot(r)
      BY <2>0, <3>3, BootStep
    <3> QED BY <2>4, <3>1, <3>2, <3>3 DEF ReplicaStep, Crash, DrainedExit, ForcedExit
  <2>5. CASE Tick
    BY <2>0, <2>5, TickStep
  <2>6. CASE UNCHANGED vars
    BY <2>0, <2>6 DEF vars
  <2> QED BY <1>1, <2>0, <2>1, <2>2, <2>3, <2>4, <2>5, <2>6 DEF Next
\* In a stopping process its context is done, so the provider returns an error.
<1>2. ASSUME Inv, StopInv, NEW q \in Request, call[q].pc = "diagnosing",
             proc[call[q].owner] = "stopping"
      PROVE  Cancelled(q) /\ call[q].owner \in Replica
  <2>1. /\ OnTheWayOut(call[q], row[q], grace[call[q].owner])
        /\ call[q].owner \in Replica
    BY <1>2 DEF StopInv, Inv, TypeInv, Holding
  <2> QED BY <1>2, <2>1, NatTimes DEF OnTheWayOut, Bounded, Cancelled, Inv
<1>3. ASSUME Inv, StopInv, [Next]_vars PROVE NoReport
  <2> SUFFICES ASSUME NEW q \in Request, Concluded(q) PROVE call'[q].cites = {}
    OBVIOUS
  <2>1. Cancelled(q) /\ call[q].owner \in Replica
    BY <1>2, <1>3
  <2>2. ~ \E cites \in SUBSET Tool : AnalysisSucceeds(q, cites)
    BY <2>1 DEF AnalysisSucceeds, Analyze
  <2>3. Conclude(q, {})
    BY <1>1, <1>3, <2>2 DEF AnalysisFails
  <2> QED BY <1>3, <2>3, ConcludeStep DEF Inv
<1>4. Inv /\ StopInv /\ [Next]_vars => [NoReport]_vars
  BY <1>3
<1>5. Spec => [][NoReport]_vars
  BY <1>4, StopInvariant, PTL DEF Spec
<1> QED BY <1>5 DEF StopFailsDiagnosing
=============================================================================
