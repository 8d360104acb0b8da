------------------------------ MODULE Analyses ------------------------------
(***************************************************************************)
(* One analysis by a language model: what the diagnostics leave for it,    *)
(* the prompt, the request to the OpenAI-compatible or Ollama server, what *)
(* is made of its answer on the way through the envelope, the decoder and  *)
(* Analysis.Validate, and the save with what the tables accept.  A text is *)
(* blank, plain, or plain with a U+0000 in it; a confidence is in          *)
(* thousandths.                                                            *)
(***************************************************************************)
EXTENDS Integers, FiniteSets

CONSTANTS
    Source,     \* the names of the diagnostics
    Content,    \* what a model may write: see ContentAssumption
    Null        \* a JSON null, and no analysis

VARIABLES
    provider,   \* LLM_PROVIDER: "openai" or "ollama"
    pc,         \* where Engine.Investigate is, from the diagnostics to the save
    plan,       \* the planned diagnostics
    execution,  \* execution[t]: the status of t's ToolExecution, "none" before it
    evidence,   \* the diagnostics that gave evidence
    prompt,     \* what the model is told of: its evidence and failed_diagnostics
    reply,      \* what came back
    reason,     \* why the analysis failed, "none" when it did not
    report,     \* the analysis that becomes the report, or Null
    status      \* the status of the investigation's row

vars == <<provider, pc, plan, execution, evidence, prompt, reply, reason, report, status>>

-----------------------------------------------------------------------------
Text == {"blank", "plain", "nul"}
Severities == {"low", "medium", "high", "critical"}

\* The fields the schema requires, each with the value that an absent one has
\* after decoding; a nil slice is not an empty one for possible_causes.
Zero == [summary |-> "blank", root_cause |-> "blank", confidence |-> 0, severity |-> "",
         evidence |-> {}, possible_causes |-> Null, recommended_actions |-> {}]
RequiredFields == DOMAIN Zero

\* A document is an object with some fields, or is none: broken off, or followed
\* by something else.  A code fence around it makes no difference.
Syntax == {"object", "fenced", "broken", "trailing"}

\* The type of a field, by which JSON decoding goes.
TypeOf == [summary |-> Text, root_cause |-> Text, confidence |-> Int, severity |-> STRING,
           evidence |-> SUBSET [source : STRING, description : Text],
           possible_causes |-> SUBSET Text, recommended_actions |-> SUBSET Text]

ASSUME ContentAssumption ==
    \A c \in Content :
      /\ c.syntax \in Syntax
      /\ \A f \in DOMAIN c.fields \cap RequiredFields :
           c.fields[f] # Null => c.fields[f] \in TypeOf[f]

\* The answer of the server: no answer, a status other than 2xx, an envelope that
\* does not decode, no choice, a refusal, or a choice that was cut off or not.
Reply == [kind : {"none", "unreachable", "error_status", "no_envelope", "no_choices", "refusal"}]
         \cup [kind : {"choice"}, truncated : BOOLEAN, content : Content]

NoReply == [kind |-> "none"]

\* A content that was cut off is no whole document; Ollama's envelope has
\* neither choices nor refusals.
Replies == {r \in Reply :
              /\ r.kind # "none"
              /\ r.kind = "choice" /\ r.truncated => r.content.syntax = "broken"
              /\ provider = "ollama" => r.kind \notin {"no_choices", "refusal"}}

-----------------------------------------------------------------------------
\* Mutant: an absent field is taken as its zero value.
Present_Any(c) == TRUE

\* Every field of the schema is there and is not null.
Present(c) == \A f \in RequiredFields : f \in DOMAIN c.fields /\ c.fields[f] # Null

Decoded(c) ==
    [f \in RequiredFields |-> IF f \in DOMAIN c.fields /\ c.fields[f] # Null
                              THEN c.fields[f] ELSE Zero[f]]

ASSUME NullAssumption ==
    /\ \A c \in Content : Decoded(c) # Null
    /\ Null \notin [evidence : SUBSET Source, failed : SUBSET Source]

\* decodeAnalysis: one object, no unknown field, none of the known ones absent.
Decodes(c) ==
    /\ c.syntax \in {"object", "fenced"}
    /\ DOMAIN c.fields \subseteq RequiredFields
    /\ Present(c)

\* Mutant: the severity is left to the schema.
Valid_AnySeverity(a, collected) ==
    /\ a.summary # "blank" /\ a.root_cause # "blank"
    /\ a.confidence \in 0..1000
    /\ a.evidence # {}
    /\ \A e \in a.evidence : e.source \in collected /\ e.description # "blank"
    /\ a.possible_causes # Null /\ a.recommended_actions \ {"blank"} # {}

\* Analysis.Validate against the sources that were collected.
Valid(a, collected) ==
    /\ a.summary # "blank" /\ a.root_cause # "blank"
    /\ a.confidence \in 0..1000
    /\ a.severity \in Severities
    /\ a.evidence # {}
    /\ \A e \in a.evidence : e.source \in collected /\ e.description # "blank"
    /\ a.possible_causes # Null
    /\ a.recommended_actions \ {"blank"} # {}

\* The reply holds a document the provider hands on: a choice that is no refusal
\* and, with OpenAI, not cut off.
Usable(r) ==
    /\ r.kind = "choice"
    /\ provider = "openai" => ~r.truncated
    /\ Decodes(r.content)

\* What errors.Is finds in the provider's error.
Reason(r) == IF r.kind \in {"unreachable", "error_status"} THEN "request" ELSE "invalid_output"

\* The loop of analyze over the executions.
FailedTools == {t \in Source : execution[t] = "failed"}

\* userPrompt
Prompt == [evidence |-> evidence, failed |-> FailedTools]

\* Rounded to two digits, as numeric(3, 2) does.
Hundredths(confidence) == (confidence + 5) \div 10

\* The texts of an analysis, all of which its jsonb column holds.
Texts(a) ==
    {a.summary, a.root_cause} \cup {e.description : e \in a.evidence}
    \cup a.possible_causes \cup a.recommended_actions

\* The CHECKs of the table; neither text nor jsonb holds a U+0000.
Accepted(a) ==
    /\ Hundredths(a.confidence) \in 0..100
    /\ a.severity \in Severities
    /\ "nul" \notin Texts(a)

-----------------------------------------------------------------------------

Init ==
    /\ provider \in {"openai", "ollama"}
    /\ pc = "collecting"
    /\ plan \in SUBSET Source \ {{}}
    /\ execution = [t \in Source |-> "none"]
    /\ evidence = {}
    /\ prompt = Null
    /\ reply = NoReply
    /\ reason = "none" /\ report = Null
    /\ status = "running"

\* What comes of a tool: a result, an error (or no such tool), or a result that
\* cannot be marshalled.
Outcome == {"result", "error", "unmarshalled"}

\* Mutant: only an error of the tool itself makes the execution a failed one.
RunTool_MarshalIgnored(t, outcome) ==
    /\ pc = "collecting" /\ t \in plan /\ execution[t] = "none"
    /\ execution' = [execution EXCEPT ![t] = IF outcome = "error" THEN "failed" ELSE "succeeded"]
    /\ evidence' = IF outcome = "result" THEN evidence \cup {t} ELSE evidence
    /\ UNCHANGED <<provider, pc, plan, prompt, reply, reason, report, status>>

\* runTool, and what Investigate appends; in which order does not matter here.
RunTool(t, outcome) ==
    /\ pc = "collecting" /\ t \in plan /\ execution[t] = "none"
    /\ execution' = [execution EXCEPT ![t] = IF outcome = "result" THEN "succeeded" ELSE "failed"]
    /\ evidence' = IF outcome = "result" THEN evidence \cup {t} ELSE evidence
    /\ UNCHANGED <<provider, pc, plan, prompt, reply, reason, report, status>>

Collected == pc = "collecting" /\ \A t \in plan : execution[t] # "none"

\* Every tool failed: the model is not asked.
NoEvidence ==
    /\ Collected /\ evidence = {}
    /\ pc' = "analyzed"
    /\ reason' = "no_evidence"
    /\ UNCHANGED <<provider, plan, execution, evidence, prompt, reply, report, status>>

Ask ==
    /\ Collected /\ evidence # {}
    /\ pc' = "asked"
    /\ prompt' = Prompt
    /\ UNCHANGED <<provider, plan, execution, evidence, reply, reason, report, status>>

\* The answer, or its absence: LLM_TIMEOUT and the end of the context make the
\* server unreachable.
Answer(r) ==
    /\ pc = "asked"
    /\ pc' = "answered"
    /\ reply' = r
    /\ UNCHANGED <<provider, plan, execution, evidence, prompt, reason, report, status>>

Accept ==
    /\ pc = "answered"
    /\ Usable(reply)
    /\ Valid(Decoded(reply.content), evidence)
    /\ pc' = "analyzed"
    /\ report' = Decoded(reply.content)
    /\ UNCHANGED <<provider, plan, execution, evidence, prompt, reply, reason, status>>

Refuse ==
    /\ pc = "answered"
    /\ ~(Usable(reply) /\ Valid(Decoded(reply.content), evidence))
    /\ pc' = "analyzed"
    /\ reason' = Reason(reply)
    /\ UNCHANGED <<provider, plan, execution, evidence, prompt, reply, report, status>>

\* FinishInvestigation: one refused row and nothing of it is stored.
Save ==
    /\ pc = "analyzed"
    /\ pc' = "ended"
    /\ status' = IF report = Null THEN "failed"
                 ELSE IF Accepted(report) THEN "completed" ELSE "running"
    /\ UNCHANGED <<provider, plan, execution, evidence, prompt, reply, reason, report>>

Next ==
    \/ \E t \in Source, outcome \in Outcome : RunTool(t, outcome)
    \/ NoEvidence \/ Ask \/ (\E r \in Replies : Answer(r)) \/ Accept \/ Refuse \/ Save

Spec == Init /\ [][Next]_vars

-----------------------------------------------------------------------------
\* The types of the variables.
TypeOK ==
    /\ provider \in {"openai", "ollama"}
    /\ pc \in {"collecting", "asked", "answered", "analyzed", "ended"}
    /\ plan \subseteq Source /\ evidence \subseteq plan
    /\ execution \in [Source -> {"none", "succeeded", "failed"}]
    /\ prompt = Null \/ prompt \in [evidence : SUBSET Source, failed : SUBSET Source]
    /\ reply \in Replies \cup {NoReply}
    /\ reason \in {"none", "no_evidence", "request", "invalid_output"}
    /\ status \in {"running", "completed", "failed"}

\* Nothing in a report was made up on the way: every field of it was written by
\* the model in an answer that was neither refused nor cut off, and it cites
\* evidence, and only evidence the model was shown.
ReportsAreWritten ==
    report # Null =>
      /\ reply.kind = "choice" /\ ~reply.truncated
      /\ \A f \in RequiredFields :
           f \in DOMAIN reply.content.fields /\ report[f] = reply.content.fields[f]
      /\ report.evidence # {}
      /\ \A e \in report.evidence : e.source \in prompt.evidence

\* The model is told of every planned diagnostic once, by its evidence or as
\* failed, however it came to nothing, so that it need not take silence for
\* health; and it is asked only where there is evidence.
PromptsAreComplete ==
    prompt # Null =>
      /\ prompt.evidence # {}
      /\ prompt.evidence \cup prompt.failed = plan
      /\ prompt.evidence \cap prompt.failed = {}

\* What Validate lets through is what the tables accept, but for U+0000.
ValidIsStorable ==
    pc = "ended" /\ status = "running" => "nul" \in Texts(report)
=============================================================================
