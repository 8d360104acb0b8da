------------------------------ MODULE HttpApi ------------------------------
(***************************************************************************)
(* One request through the HTTP API: the middleware around the router, the *)
(* checks of path, query and body in their order, the incident service,    *)
(* the call of the engine by what it returns, and the answer.              *)
(* A response header or a text that no property is about is left out.      *)
(***************************************************************************)
EXTENDS Integers, Sequences

CONSTANTS
    Faults,     \* may the database fail?
    Panics      \* may a handler panic?

ASSUME HttpApiAssumption == Faults \in BOOLEAN /\ Panics \in BOOLEAN

Static == {"health", "metrics", "ui", "assets"}
WithId == {"get", "investigate", "report"}
WithBody == {"create", "investigate"}
Pattern == Static \cup WithId \cup WithBody \cup {"list", "ready"}

\* What the router makes of method and path: a pattern, or none.
Route == Pattern \cup {"no_route", "no_method"}

\* A body by its first value and by what follows it; where there is no value,
\* nothing but space does.
Body == [first : {"empty", "object", "malformed", "too_large"}, rest : {"eof", "more", "too_large"}]
            \ {[first |-> "empty", rest |-> "more"]}

\* What the fields of a new incident look like; "nul" has a U+0000 in it, which an
\* address may have in its zone.
Input == [title : {"empty", "spaces", "plain", "padded", "long", "nul"},
          description : {"empty", "plain", "long", "nul"},
          target_host : {"name", "Name", "address", "nul", "improper"},
          target_port : {-1, 0, 443, 65536}]

NoBody == [first |-> "empty", rest |-> "eof"]
NoInput == [title |-> "empty", description |-> "empty", target_host |-> "improper", target_port |-> 0]

Query == {"proper", "not_a_number", "negative_offset"}

\* Only what the route looks at differs from request to request.
Request ==
    {r \in [route : Route, id : {"uuid", "improper"}, query : Query, body : Body,
            input : {NoInput}, request_id : {"safe", "unsafe"}] :
        /\ r.route \notin WithId => r.id = "uuid"
        /\ r.route # "list" => r.query = "proper"
        /\ r.route \notin WithBody => r.body = NoBody}
    \cup
    [route : {"create"}, id : {"uuid"}, query : {"proper"},
     body : [first : {"object"}, rest : {"eof"}], input : Input, request_id : {"safe"}]

VARIABLES
    request,
    pc,         \* "arrived", "routed", "checked", "returned", "answered", "panicked", "done"
    header,     \* X-Request-ID of the response
    context,    \* the request ID in the handler's context
    error,      \* why the handler gives up, "none" when it does not
    stored,     \* what the request made the database keep
    answer,     \* what was sent
    counted     \* what http_requests_total was told

vars == <<request, pc, header, context, error, stored, answer, counted>>

Nothing == [kind |-> "nothing"]
NoAnswer == [status |-> 0, envelope |-> FALSE, request_id |-> "none", record |-> FALSE]

Init ==
    /\ request \in Request
    /\ pc = "arrived" /\ header = "none" /\ context = "none" /\ error = "none"
    /\ stored = Nothing /\ answer = NoAnswer /\ counted = <<>>

-----------------------------------------------------------------------------

WithRequestIDs ==
    /\ pc = "arrived"
    /\ header' = IF request.request_id = "safe" THEN "sent" ELSE "generated"
    /\ context' = header'
    /\ pc' = "routed"
    /\ UNCHANGED <<request, error, stored, answer, counted>>

\* decodeBody: one value, nothing after it, within the limit.
Decode(body, optional) ==
    IF body.first = "too_large" \/ (body.first # "malformed" /\ body.rest = "too_large")
    THEN "too_large"
    ELSE IF body.first = "malformed" \/ body.rest = "more" \/ (body.first = "empty" /\ ~optional)
    THEN "invalid_json"
    ELSE "none"

\* The path is checked before the body is read.
Complaint(r) ==
    IF r.route \in {"no_route", "no_method"} THEN r.route
    ELSE IF r.route \in WithId /\ r.id = "improper" THEN "bad_path"
    ELSE IF r.route = "list" /\ r.query = "not_a_number" THEN "bad_query"
    ELSE IF r.route \in WithBody THEN Decode(r.body, r.route = "investigate")
    ELSE "none"

Check ==
    /\ pc = "routed"
    /\ error' = Complaint(request)
    /\ pc' = IF error' = "none" THEN "checked" ELSE "returned"
    /\ UNCHANGED <<request, header, context, stored, answer, counted>>

-----------------------------------------------------------------------------
Return(e, s) ==
    /\ pc = "checked" /\ pc' = "returned"
    /\ error' = e /\ stored' = s
    /\ UNCHANGED <<request, header, context, answer, counted>>

\* Mutant: the fields are taken as they come.
Normal_AsSent(in) == in

\* The surrounding space and the capitals of the host make no difference.
Normal(in) ==
    [in EXCEPT !.title = IF @ = "spaces" THEN "empty" ELSE IF @ = "padded" THEN "plain" ELSE @,
               !.target_host = IF @ = "Name" THEN "name" ELSE @]

\* ValidateHost: a host name in any spelling, or an address.
ProperHost(host) == host \in {"name", "Name", "address", "nul"}

\* validate
Valid(inc) ==
    /\ inc.title \notin {"empty", "long"} /\ inc.description # "long"
    /\ 0 <= inc.target_port /\ inc.target_port <= 65535
    /\ ProperHost(inc.target_host)

\* The row, with no port for 0; PostgreSQL takes no U+0000 in a text.
Row(inc) == [kind |-> "incident", title |-> inc.title, description |-> inc.description,
             target_host |-> inc.target_host,
             target_port |-> IF inc.target_port = 0 THEN {} ELSE {inc.target_port}]
Storable(inc) == "nul" \notin {inc.title, inc.description, inc.target_host}

\* Mutant: the row is inserted before the fields are looked at.
Create_InsertFirst ==
    /\ request.route = "create"
    /\ LET inc == Normal(request.input) IN
       \/ Storable(inc) /\ Return(IF Valid(inc) THEN "none" ELSE "validation", Row(inc))
       \/ (Faults \/ ~Storable(inc)) /\ Return("internal", Nothing)

\* A failed INSERT may have been committed.
Create ==
    /\ request.route = "create"
    /\ LET inc == Normal(request.input) IN
       \/ ~Valid(inc) /\ Return("validation", Nothing)
       \/ Valid(inc) /\ Storable(inc) /\ Return("none", Row(inc))
       \/ Valid(inc) /\ (Faults \/ ~Storable(inc)) /\ Return("internal", Nothing)
       \/ Valid(inc) /\ Storable(inc) /\ Faults /\ Return("internal", Row(inc))

\* List, Get and Report; a report may be missing while the incident is there.
Read ==
    /\ request.route \in {"list", "get", "report"}
    /\ \/ request.query = "negative_offset" /\ Return("validation", Nothing)
       \/ request.query # "negative_offset" /\ Return("none", Nothing)
       \/ request.route \in WithId /\ Return("not_found", Nothing)
       \/ request.query # "negative_offset" /\ Faults /\ Return("internal", Nothing)

\* Investigate by what it returns and leaves behind.
Investigation(status) == [kind |-> "investigation", status |-> status]
Outcome ==
    {<<"none", Investigation("completed")>>, <<"analysis_failed", Investigation("failed")>>,
     <<"busy", Nothing>>, <<"bad_options", Nothing>>, <<"not_found", Nothing>>}
FaultyOutcome ==
    {<<"internal", s>> : s \in {Nothing} \cup {Investigation(x) : x \in {"running", "completed", "failed"}}}

Investigate ==
    /\ request.route = "investigate"
    /\ \E o \in Outcome \cup (IF Faults THEN FaultyOutcome ELSE {}) : Return(o[1], o[2])

\* The embedded interface: its page, and files that are there or not.
Page ==
    \/ request.route \in {"ui", "assets"} /\ Return("none", Nothing)
    \/ request.route = "assets" /\ Return("no_asset", Nothing)

Probe ==
    \/ request.route \in {"health", "metrics"} /\ Return("none", Nothing)
    \/ request.route = "ready" /\ Return("none", Nothing)
    \/ request.route = "ready" /\ Faults /\ Return("unavailable", Nothing)

\* A bug in a handler shows before it answers.
Panic ==
    /\ Panics /\ pc = "checked"
    /\ pc' = "panicked"
    /\ UNCHANGED <<request, header, context, error, stored, answer, counted>>

-----------------------------------------------------------------------------
BadRequest == {"bad_path", "bad_query", "invalid_json", "validation", "bad_options"}

\* Mutant: a failed analysis is an unexpected error.
StatusOf_NoBadGateway(e) ==
    CASE e \in BadRequest -> 400
      [] e \in {"not_found", "no_route", "no_asset"} -> 404
      [] e = "no_method" -> 405
      [] e = "too_large" -> 413
      [] e = "busy" -> 429
      [] e \in {"internal", "analysis_failed"} -> 500
      [] e = "unavailable" -> 503

StatusOf(e) ==
    CASE e \in BadRequest -> 400
      [] e \in {"not_found", "no_route", "no_asset"} -> 404
      [] e = "no_method" -> 405
      [] e = "too_large" -> 413
      [] e = "busy" -> 429
      [] e = "internal" -> 500
      [] e = "analysis_failed" -> 502
      [] e = "unavailable" -> 503

Success == IF request.route \in WithBody THEN 201 ELSE 200

\* The router answers in plain text, the readiness probe in words of its own.
InEnvelope(e) == e \notin {"none", "no_route", "no_asset", "no_method", "unavailable"}

Answer ==
    /\ pc = "returned" /\ pc' = "answered"
    /\ answer' = [status |-> IF error = "none" THEN Success ELSE StatusOf(error),
                  envelope |-> InEnvelope(error),
                  request_id |-> IF InEnvelope(error) THEN context ELSE "none",
                  record |-> request.route = "investigate" /\ error \in {"none", "analysis_failed"}]
    /\ UNCHANGED <<request, header, context, error, stored, counted>>

Label == IF request.route \in Pattern THEN request.route ELSE "unmatched"

Observe ==
    /\ pc = "answered" /\ pc' = "done"
    /\ counted' = <<[route |-> Label, status |-> answer.status]>>
    /\ UNCHANGED <<request, header, context, error, stored, answer>>

\* The panic has left observe and withRequestIDs; the outer request has no ID.
RecoverPanics ==
    /\ pc = "panicked" /\ pc' = "done"
    /\ answer' = [status |-> 500, envelope |-> TRUE, request_id |-> "none", record |-> FALSE]
    /\ UNCHANGED <<request, header, context, error, stored, counted>>

Next ==
    \/ WithRequestIDs \/ Check
    \/ Create \/ Read \/ Investigate \/ Page \/ Probe \/ Panic
    \/ Answer \/ Observe \/ RecoverPanics

Spec == Init /\ [][Next]_vars

-----------------------------------------------------------------------------

\* A request that is refused has left nothing behind: it can be sent again.
RefusedLeavesNoTrace == 400 <= answer.status /\ answer.status < 500 => stored = Nothing

\* Whatever a request makes the database keep, its body was one whole value that
\* was read to its end within the limit; and an incident that is stored can be
\* investigated: it has a title, its host is one the tools accept, in the one
\* spelling, and its port is one or none.
StoredIsSound ==
    /\ stored # Nothing =>
         /\ request.body.rest = "eof"
         /\ request.body.first \in {"object", "empty"}
    /\ stored.kind = "incident" =>
         /\ stored.title \notin {"empty", "spaces", "padded", "long"}
         /\ stored.target_host \in {"name", "address"}
         /\ \A port \in stored.target_port : 0 < port /\ port <= 65535

\* An investigation that was concluded and acknowledged is returned, with a
\* status that tells a failed analysis from a completed one; no other answer
\* carries a record.
ConcludedIsTold ==
    pc = "answered" =>
      /\ stored = Investigation("completed") /\ error # "internal"
           => answer.status = 201 /\ answer.record
      /\ stored = Investigation("failed") /\ error # "internal"
           => answer.status = 502 /\ answer.record
      /\ answer.record => stored.kind = "investigation"
=============================================================================
