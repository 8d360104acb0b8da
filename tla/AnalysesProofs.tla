--------------------------- MODULE AnalysesProofs ---------------------------
(***************************************************************************)
(* What a stored report owes to the model's answer, for any diagnostics    *)
(* and whatever a model may write.                                         *)
(***************************************************************************)
EXTENDS Analyses, TLAPS

\* Every planned tool ends as evidence or as failed, and has done so before the
\* model is asked.
Accounted ==
    /\ \A t \in Source : execution[t] = "succeeded" <=> t \in evidence
    /\ \A t \in Source \ plan : execution[t] = "none"
    /\ pc = "collecting" => prompt = Null
    /\ pc # "collecting" => \A t \in plan : execution[t] # "none"

\* How far the analysis has come is told by what has been set.
Flow ==
    /\ prompt # Null => prompt = Prompt /\ evidence # {}
    /\ pc \in {"asked", "answered"} => prompt # Null
    /\ pc = "answered" => reply.kind # "none"
    /\ pc \in {"collecting", "asked", "answered"} => reason = "none" /\ report = Null
    /\ pc \in {"analyzed", "ended"} => (reason = "none") = (report # Null)
    /\ report # Null =>
         /\ Usable(reply) /\ Valid(Decoded(reply.content), evidence)
         /\ report = Decoded(reply.content)
         /\ prompt # Null
    /\ reason \in {"request", "invalid_output"} =>
         reply.kind # "none" /\ reason = Reason(reply)
    /\ pc = "ended" =>
         status = IF report = Null THEN "failed"
                  ELSE IF Accepted(report) THEN "completed" ELSE "running"

IInv == TypeOK /\ Accounted /\ Flow

LEMMA InitInv == Init => IInv
BY DEF Init, IInv, TypeOK, Accounted, Flow

\* The type of what the reader of an answer relies on.
LEMMA RepliesHaveKinds ==
  ASSUME NEW r \in Replies
  PROVE  r.kind # "none" /\ (r.kind = "choice" => r.content \in Content)
BY DEF Replies, Reply

\* A choice is an answer of the server.
LEMMA ChoicesCameIn ==
  ASSUME TypeOK, reply.kind = "choice"
  PROVE  reply \in Replies
<1>1. NoReply.kind = "none"
  BY DEF NoReply
<1>2. reply # NoReply
  BY <1>1
<1> QED
  BY <1>2 DEF TypeOK

LEMMA TypeStep == IInv /\ [Next]_vars => TypeOK'
<1> SUFFICES ASSUME IInv, [Next]_vars PROVE TypeOK'
  OBVIOUS
<1> USE DEF IInv, TypeOK, Replies
<1>0. ASSUME NEW t \in Source, NEW outcome \in Outcome, RunTool(t, outcome) PROVE TypeOK'
  BY <1>0 DEF RunTool
<1>1. CASE NoEvidence
  BY <1>1 DEF NoEvidence
<1>2. CASE Ask
  BY <1>2 DEF Ask, Prompt, FailedTools
<1>3. ASSUME NEW r \in Replies, Answer(r) PROVE TypeOK'
  BY <1>3 DEF Answer
<1>4. CASE Accept
  BY <1>4 DEF Accept
<1>5. CASE Refuse
  BY <1>5 DEF Refuse, Reason
<1>6. CASE Save
  BY <1>6 DEF Save
<1>7. CASE UNCHANGED vars
  BY <1>7 DEF vars
<1> QED
  BY <1>0, <1>1, <1>2, <1>3, <1>4, <1>5, <1>6, <1>7 DEF Next

LEMMA AccountedStep == IInv /\ [Next]_vars => Accounted'
<1> SUFFICES ASSUME IInv, [Next]_vars PROVE Accounted'
  OBVIOUS
<1> USE DEF IInv, Accounted
<1>1. ASSUME NEW t \in Source, NEW outcome \in Outcome, RunTool(t, outcome) PROVE Accounted'
  <2>1. \A u \in Source : execution'[u] = IF u # t THEN execution[u]
                              ELSE IF outcome = "result" THEN "succeeded" ELSE "failed"
    BY <1>1 DEF RunTool, TypeOK
  <2>2. \A u \in Source : u \in evidence' <=> u \in evidence \/ (u = t /\ outcome = "result")
    BY <1>1 DEF RunTool
  <2> QED
    BY <1>1, <2>1, <2>2 DEF RunTool
<1>2. CASE NoEvidence \/ Ask
  BY <1>2 DEF NoEvidence, Ask, Collected
<1>3. ASSUME pc # "collecting", pc' # "collecting", UNCHANGED <<plan, execution, evidence>>
      PROVE  Accounted'
  BY <1>3
<1>4. CASE UNCHANGED vars
  BY <1>4 DEF vars
<1> QED
  BY <1>1, <1>2, <1>3, <1>4 DEF Next, Answer, Accept, Refuse, Save

LEMMA FlowStep == IInv /\ [Next]_vars => Flow'
<1> SUFFICES ASSUME IInv, [Next]_vars PROVE Flow'
  OBVIOUS
<1> USE DEF IInv, Flow
<1>0. ASSUME NEW t \in Source, NEW outcome \in Outcome, RunTool(t, outcome) PROVE Flow'
  BY <1>0 DEF RunTool, Accounted
<1>1. CASE NoEvidence
  BY <1>1 DEF NoEvidence, Collected, Accounted, TypeOK
<1>2. CASE Ask
  <2>1. prompt' # Null
    <3>1. prompt' = [evidence |-> evidence, failed |-> FailedTools]
      BY <1>2 DEF Ask, Prompt
    <3>2. evidence \in SUBSET Source /\ FailedTools \in SUBSET Source
      BY DEF TypeOK, FailedTools
    <3>3. prompt' \in [evidence : SUBSET Source, failed : SUBSET Source]
      BY <3>1, <3>2
    <3> QED
      BY <3>3, NullAssumption
  <2> QED
    BY <1>2, <2>1 DEF Ask, Collected, Prompt, FailedTools
<1>3. ASSUME NEW r \in Replies, Answer(r) PROVE Flow'
  BY <1>3, RepliesHaveKinds DEF Answer, Prompt, FailedTools
<1>4. CASE Accept
  <2>1. Usable(reply) /\ reply.content \in Content
    <3>1. Usable(reply) /\ reply.kind = "choice"
      BY <1>4 DEF Accept, Usable
    <3> QED
      BY <3>1, ChoicesCameIn, RepliesHaveKinds DEF IInv
  <2>2. report' # Null
    BY <1>4, <2>1, NullAssumption DEF Accept
  <2>3. Usable(reply)'
    BY <1>4, <2>1 DEF Accept, Usable
  <2> QED
    BY <1>4, <2>2, <2>3 DEF Accept, Prompt, FailedTools
<1>5. CASE Refuse
  BY <1>5 DEF Refuse, Prompt, FailedTools, Reason
<1>6. CASE Save
  <2>1. Usable(reply) => Usable(reply)'
    BY <1>6 DEF Save, Usable
  <2> QED
    BY <1>6, <2>1 DEF Save, Prompt, FailedTools
<1>7. CASE UNCHANGED vars
  <2>1. Usable(reply) => Usable(reply)'
    BY <1>7 DEF vars, Usable
  <2> QED
    BY <1>7, <2>1 DEF vars, Prompt, FailedTools
<1> QED
  BY <1>0, <1>1, <1>2, <1>3, <1>4, <1>5, <1>6, <1>7 DEF Next

LEMMA Invariant == Spec => []IInv
<1>1. IInv /\ [Next]_vars => IInv'
  BY TypeStep, AccountedStep, FlowStep DEF IInv
<1> QED
  BY <1>1, InitInv, PTL DEF Spec

\* The type invariant.
THEOREM TypeCorrect == Spec => []TypeOK
<1>1. IInv => TypeOK
  BY DEF IInv
<1> QED
  BY <1>1, Invariant, PTL

\* No field of a report comes from anywhere but the model's answer: see
\* ReportsAreWritten, about decodeAnalysis, Validate and the providers.
THEOREM NothingMadeUp == Spec => []ReportsAreWritten
<1>1. ASSUME IInv, report # Null PROVE ReportsAreWritten
  <2>1. Usable(reply) /\ Valid(report, evidence) /\ report = Decoded(reply.content)
    BY <1>1 DEF IInv, Flow
  <2>2. prompt = Prompt
    BY <1>1 DEF IInv, Flow
  <2>3. reply.kind = "choice" /\ Decodes(reply.content)
    BY <2>1 DEF Usable
  <2>4. ~reply.truncated
    <3>1. reply \in Replies
      BY <1>1, <2>3, ChoicesCameIn DEF IInv
    <3>2. reply.content.syntax # "broken"
      BY <2>3 DEF Decodes
    <3> QED
      BY <2>3, <3>1, <3>2 DEF Replies
  <2>5. \A f \in RequiredFields :
          f \in DOMAIN reply.content.fields /\ report[f] = reply.content.fields[f]
    BY <2>1, <2>3 DEF Decodes, Present, Decoded
  <2>6. report.evidence # {} /\ \A e \in report.evidence : e.source \in prompt.evidence
    BY <2>1, <2>2 DEF Valid, Prompt
  <2> QED
    BY <2>3, <2>4, <2>5, <2>6 DEF ReportsAreWritten
<1>2. IInv => ReportsAreWritten
  BY <1>1 DEF ReportsAreWritten
<1> QED
  BY <1>2, Invariant, PTL

\* The model is told of every planned diagnostic, whatever became of it: see
\* PromptsAreComplete, about runTool, Investigate and analyze.
THEOREM PromptsComplete == Spec => []PromptsAreComplete
<1>1. ASSUME IInv, prompt # Null
      PROVE  /\ prompt.evidence # {} /\ prompt.evidence \cup prompt.failed = plan
             /\ prompt.evidence \cap prompt.failed = {}
  <2>1. prompt.evidence = evidence /\ prompt.failed = FailedTools /\ evidence # {}
    BY <1>1 DEF IInv, Flow, Prompt
  <2>2. pc # "collecting"
    BY <1>1 DEF IInv, Accounted
  <2>3. \A t \in Source : /\ t \in plan => execution[t] \in {"succeeded", "failed"}
                          /\ t \notin plan => execution[t] = "none"
    BY <1>1, <2>2 DEF IInv, Accounted, TypeOK
  <2>4. \A t \in Source : execution[t] = "succeeded" <=> t \in evidence
    BY <1>1 DEF IInv, Accounted
  <2>5. plan \subseteq Source /\ evidence \subseteq plan
    BY <1>1 DEF IInv, TypeOK
  <2> QED
    BY <2>1, <2>3, <2>4, <2>5 DEF FailedTools
<1>2. IInv => PromptsAreComplete
  BY <1>1, Zenon DEF PromptsAreComplete
<1> QED
  BY <1>2, Invariant, PTL

\* A confidence within [0, 1] stays there when it is rounded to two digits.
LEMMA RoundingStaysInRange ==
  ASSUME NEW c \in 0..1000
  PROVE  Hundredths(c) \in 0..100
BY DEF Hundredths

\* What Validate accepts, the tables take, but for U+0000: see ValidIsStorable,
\* which relates Analysis.Validate to the CHECKs of the reports table.
THEOREM ValidStorable == Spec => []ValidIsStorable
<1>1. ASSUME IInv, pc = "ended", status = "running" PROVE "nul" \in Texts(report)
  <2>1. report # Null /\ ~Accepted(report)
    BY <1>1 DEF IInv, Flow
  <2>2. Valid(report, evidence)
    BY <1>1, <2>1 DEF IInv, Flow
  <2>3. Hundredths(report.confidence) \in 0..100 /\ report.severity \in Severities
    BY <2>2, RoundingStaysInRange DEF Valid
  <2> QED
    BY <2>1, <2>3 DEF Accepted
<1>2. IInv => ValidIsStorable
  BY <1>1 DEF ValidIsStorable
<1> QED
  BY <1>2, Invariant, PTL
=============================================================================
