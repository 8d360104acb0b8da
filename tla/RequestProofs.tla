--------------------------- MODULE RequestProofs ---------------------------
(***************************************************************************)
(* One request, from its first byte to its answer: what HttpApi makes of   *)
(* it, for any database and any handler, and how long Deadlines lets it    *)
(* take, for any timeouts, clients, networks and pools.                    *)
(***************************************************************************)
EXTENDS HttpApi, Deadlines, TLAPS

-----------------------------------------------------------------------------
\* HttpApi.

Unread == {"arrived", "routed", "checked", "panicked"}

\* What a handler may give up for; the database decides in the last three.
Reason == BadRequest \cup {"not_found", "no_route", "no_asset", "no_method", "too_large", "busy",
                           "unavailable", "none", "analysis_failed", "internal"}

\* Why the handler returned fits what the request made the database keep.
Agreement ==
    /\ error \in Reason
    /\ error \notin {"none", "analysis_failed", "internal"} => stored = Nothing
    /\ stored.kind = "investigation" =>
         /\ request.route = "investigate"
         /\ \/ error = "internal"
            \/ error = "none" /\ stored = Investigation("completed")
            \/ error = "analysis_failed" /\ stored = Investigation("failed")
    /\ request.route = "investigate" /\ error \in {"none", "analysis_failed"}
         => stored.kind = "investigation"

\* The answer says why the handler returned.
Faithful ==
    /\ answer.status = IF error = "none" THEN Success ELSE StatusOf(error)
    /\ answer.record <=> request.route = "investigate" /\ error \in {"none", "analysis_failed"}

HttpInv ==
    /\ request \in Request
    /\ pc \in Unread \cup {"returned", "answered", "done"}
    /\ pc \in Unread => stored = Nothing
    /\ pc \in Unread \cup {"returned"} => answer = NoAnswer
    /\ pc = "checked" => Complaint(request) = "none"
    /\ pc \in {"returned", "answered"} => Agreement
    /\ pc = "answered" => Faithful
    /\ StoredIsSound
    /\ RefusedLeavesNoTrace

\* What a request is made of, as far as the checks look at it.
LEMMA Requests ==
  ASSUME NEW r \in Request
  PROVE  /\ r.route \in Route /\ r.body \in Body
         /\ r.input \in Input \/ r.input = NoInput
<1>1. "create" \in Route /\ [first |-> "object", rest |-> "eof"] \in Body
  BY DEF Route, Pattern, WithBody, Body
<1>2. CASE r \in [route : Route, id : {"uuid", "improper"}, query : Query, body : Body,
                  input : {NoInput}, request_id : {"safe", "unsafe"}]
  BY <1>2
<1>3. CASE r \in [route : {"create"}, id : {"uuid"}, query : {"proper"},
                  body : [first : {"object"}, rest : {"eof"}], input : Input,
                  request_id : {"safe"}]
  <2>1. r.body \in [first : {"object"}, rest : {"eof"}] /\ r.route = "create" /\ r.input \in Input
    BY <1>3
  <2>2. r.body \in Body
    BY <2>1 DEF Body
  <2> QED BY <1>1, <2>1, <2>2
<1> QED BY <1>2, <1>3 DEF Request

\* A body without a complaint was one whole value, or was empty where it may be.
LEMMA WholeBodies ==
  ASSUME NEW body \in Body, NEW route, Decode(body, route = "investigate") = "none"
  PROVE  /\ body.rest = "eof"
         /\ body.first \in {"object", "empty"}
BY DEF Decode, Body

\* The complaints are reasons, and none of those that the database decides.
LEMMA Complaints ==
  ASSUME NEW r \in Request
  PROVE  /\ Complaint(r) \in Reason \ {"analysis_failed", "internal"}
         /\ Complaint(r) = "none" /\ r.route \in WithBody
              => Decode(r.body, r.route = "investigate") = "none"
BY Requests DEF Complaint, Decode, Reason, BadRequest, WithBody, WithId

\* What normalization makes of each field.
LEMMA NormalFields ==
  ASSUME NEW in \in Input
  PROVE  /\ Normal(in).title = IF in.title = "spaces" THEN "empty"
                               ELSE IF in.title = "padded" THEN "plain" ELSE in.title
         /\ Normal(in).target_host = IF in.target_host = "Name" THEN "name" ELSE in.target_host
         /\ Normal(in).target_port = in.target_port
<1>1. Normal(in).title = IF in.title = "spaces" THEN "empty"
                         ELSE IF in.title = "padded" THEN "plain" ELSE in.title
  BY DEF Normal, Input
<1>2. Normal(in).target_host = IF in.target_host = "Name" THEN "name" ELSE in.target_host
  BY DEF Normal, Input
<1>3. Normal(in).target_port = in.target_port
  BY DEF Normal, Input
<1> QED BY <1>1, <1>2, <1>3

\* A valid incident is one the tools can work on, once it is a row.
LEMMA ValidRows ==
  ASSUME NEW in, in \in Input \/ in = NoInput, NEW inc, inc = Normal(in), Valid(inc), Storable(inc)
  PROVE  /\ Row(inc).kind = "incident"
         /\ Row(inc).title \notin {"empty", "spaces", "padded", "long"}
         /\ Row(inc).target_host \in {"name", "address"}
         /\ \A port \in Row(inc).target_port : 0 < port /\ port <= 65535
<1>1. CASE in = NoInput
  <2>1. inc.target_host = "improper"
    BY <1>1 DEF NoInput, Normal
  <2> QED BY <2>1 DEF Valid, ProperHost
<1>2. CASE in \in Input
  <2>1. /\ in.title \in {"empty", "spaces", "plain", "padded", "long", "nul"}
        /\ in.target_host \in {"name", "Name", "address", "nul", "improper"}
        /\ in.target_port \in {-1, 0, 443, 65536}
    BY <1>2 DEF Input
  <2>2. /\ inc.title = IF in.title = "spaces" THEN "empty"
                       ELSE IF in.title = "padded" THEN "plain" ELSE in.title
        /\ inc.target_host = IF in.target_host = "Name" THEN "name" ELSE in.target_host
        /\ inc.target_port = in.target_port
    BY <1>2, NormalFields
  <2>3. inc.title \notin {"empty", "spaces", "padded", "long"}
    BY <2>1, <2>2 DEF Valid
  <2>4. inc.target_host \in {"name", "address"}
    BY <2>1, <2>2 DEF Valid, ProperHost, Storable
  <2>5. inc.target_port \in {0, 443}
    BY <2>1, <2>2 DEF Valid
  <2> QED BY <2>3, <2>4, <2>5 DEF Row
<1> QED BY <1>1, <1>2

\* The statuses of the refusals are those a client may send the request again after.
LEMMA Statuses ==
  ASSUME NEW e \in Reason, e # "none"
  PROVE  /\ StatusOf(e) < 500 => e \notin {"analysis_failed", "internal"}
         /\ e = "analysis_failed" => StatusOf(e) = 502
<1>1. e = "internal" => StatusOf(e) = 500
  BY DEF StatusOf, BadRequest
<1>2. e = "analysis_failed" => StatusOf(e) = 502
  BY DEF StatusOf, BadRequest
<1> QED BY <1>1, <1>2

LEMMA HttpInit == Init => HttpInv
<1> SUFFICES ASSUME Init PROVE HttpInv
  OBVIOUS
<1>1. stored.kind = "nothing" /\ stored = Nothing /\ answer.status = 0
  BY DEF Init, Nothing, NoAnswer
<1>2. StoredIsSound /\ RefusedLeavesNoTrace
  BY <1>1 DEF StoredIsSound, RefusedLeavesNoTrace
<1> QED BY <1>2 DEF Init, HttpInv, Unread

\* The handler's call of a service has returned e, and the request has stored s.
LEMMA ReturnKeeps ==
  ASSUME HttpInv, NEW e \in Reason, NEW s, Return(e, s),
         e \notin {"none", "analysis_failed", "internal"} => s = Nothing,
         s.kind = "investigation" =>
           /\ request.route = "investigate"
           /\ \/ e = "internal"
              \/ e = "none" /\ s = Investigation("completed")
              \/ e = "analysis_failed" /\ s = Investigation("failed"),
         request.route = "investigate" /\ e \in {"none", "analysis_failed"}
           => s.kind = "investigation",
         s # Nothing => request.route \in WithBody,
         s.kind = "incident" =>
           /\ s.title \notin {"empty", "spaces", "padded", "long"}
           /\ s.target_host \in {"name", "address"}
           /\ \A port \in s.target_port : 0 < port /\ port <= 65535
  PROVE  HttpInv'
<1>1. /\ pc = "checked" /\ pc' = "returned" /\ error' = e /\ stored' = s
      /\ request' = request /\ answer' = answer
  BY DEF Return
<1>2. Agreement'
  BY <1>1 DEF Agreement
<1>3. answer = NoAnswer /\ Complaint(request) = "none" /\ request \in Request
  BY <1>1 DEF HttpInv, Unread
<1>4. RefusedLeavesNoTrace'
  BY <1>1, <1>3 DEF RefusedLeavesNoTrace, NoAnswer
<1>5. ASSUME s # Nothing
      PROVE  /\ request.body.rest = "eof"
             /\ request.body.first \in {"object", "empty"}
  <2>1. Decode(request.body, request.route = "investigate") = "none"
    BY <1>3, <1>5, Complaints
  <2>2. request.body \in Body
    BY <1>3, Requests
  <2> QED BY <2>1, <2>2, WholeBodies
<1>6. StoredIsSound'
  BY <1>1, <1>5 DEF StoredIsSound
<1> QED BY <1>1, <1>2, <1>3, <1>4, <1>6 DEF HttpInv, Unread

\* A call that stores nothing.
LEMMA BareReturnKeeps ==
  ASSUME HttpInv, NEW e \in Reason \ {"analysis_failed"}, Return(e, Nothing),
         request.route = "investigate" => e # "none"
  PROVE  HttpInv'
<1>1. Nothing.kind = "nothing"
  BY DEF Nothing
<1> QED BY <1>1, ReturnKeeps

LEMMA CreateKeeps == HttpInv /\ Create => HttpInv'
<1> SUFFICES ASSUME HttpInv, Create PROVE HttpInv'
  OBVIOUS
<1> DEFINE inc == Normal(request.input)
<1>1. request.route = "create" /\ request.route \in WithBody
  BY DEF Create, WithBody
<1>2. ASSUME NEW e \in {"validation", "internal"}, Return(e, Nothing)
      PROVE  HttpInv'
  BY <1>1, <1>2, BareReturnKeeps DEF Reason, BadRequest
<1>3. ASSUME NEW e \in {"none", "internal"}, Valid(inc), Storable(inc), Return(e, Row(inc))
      PROVE  HttpInv'
  <2>1. request.input \in Input \/ request.input = NoInput
    BY Requests DEF HttpInv
  <2>2. /\ Row(inc).kind = "incident"
        /\ Row(inc).title \notin {"empty", "spaces", "padded", "long"}
        /\ Row(inc).target_host \in {"name", "address"}
        /\ \A port \in Row(inc).target_port : 0 < port /\ port <= 65535
    BY <1>3, <2>1, ValidRows
  <2>3. e \in Reason
    BY DEF Reason
  <2> HIDE DEF inc
  <2> QED BY <1>1, <1>3, <2>2, <2>3, ReturnKeeps
<1> QED BY <1>2, <1>3 DEF Create

LEMMA InvestigateKeeps == HttpInv /\ Investigate => HttpInv'
<1> SUFFICES ASSUME HttpInv, NEW o \in Outcome \cup FaultyOutcome, Return(o[1], o[2]),
                    request.route = "investigate"
             PROVE  HttpInv'
  BY DEF Investigate
<1>1. request.route \in WithBody
  BY DEF WithBody
<1>2. CASE o \in {<<"busy", Nothing>>, <<"bad_options", Nothing>>, <<"not_found", Nothing>>,
                  <<"internal", Nothing>>}
  <2>1. o[1] \in {"busy", "bad_options", "not_found", "internal"} /\ o[2] = Nothing
    BY <1>2
  <2>2. o[1] \in Reason \ {"analysis_failed"} /\ o[1] # "none"
    BY <2>1 DEF Reason, BadRequest
  <2> QED BY <2>1, <2>2, BareReturnKeeps
<1>3. ASSUME NEW x, o[2] = Investigation(x),
             \/ o[1] = "none" /\ x = "completed"
             \/ o[1] = "analysis_failed" /\ x = "failed"
             \/ o[1] = "internal"
      PROVE  HttpInv'
  <2>1. o[2].kind = "investigation"
    BY <1>3 DEF Investigation
  <2>2. o[1] \in Reason
    BY <1>3 DEF Reason
  <2> QED BY <1>1, <1>3, <2>1, <2>2, ReturnKeeps
<1>4. CASE o = <<"none", Investigation("completed")>>
  <2>1. o[1] = "none" /\ o[2] = Investigation("completed")
    BY <1>4
  <2> QED BY <1>3, <2>1, Zenon
<1>5. CASE o = <<"analysis_failed", Investigation("failed")>>
  <2>1. o[1] = "analysis_failed" /\ o[2] = Investigation("failed")
    BY <1>5
  <2> QED BY <1>3, <2>1
<1>6. ASSUME NEW x, o = <<"internal", Investigation(x)>>
      PROVE  HttpInv'
  BY <1>3, <1>6
<1> QED BY <1>2, <1>4, <1>5, <1>6 DEF Outcome, FaultyOutcome

\* The handlers that only read.
LEMMA ReadersKeep == HttpInv /\ (Read \/ Page \/ Probe) => HttpInv'
<1> SUFFICES ASSUME HttpInv,
                    NEW e \in {"validation", "none", "not_found", "internal", "no_asset", "unavailable"},
                    Return(e, Nothing), request.route # "investigate"
             PROVE  HttpInv'
  BY DEF Read, Page, Probe
<1> QED BY BareReturnKeeps DEF Reason, BadRequest

\* Everything before the handler's call and after its return.
LEMMA MiddlewareKeeps ==
  ASSUME HttpInv, WithRequestIDs \/ Check \/ Panic \/ Answer \/ Observe \/ RecoverPanics
  PROVE  HttpInv'
<1>1. request' = request /\ stored' = stored /\ StoredIsSound'
  BY DEF HttpInv, WithRequestIDs, Check, Panic, Answer, Observe, RecoverPanics, StoredIsSound
<1>2. CASE WithRequestIDs
  BY <1>1, <1>2 DEF WithRequestIDs, HttpInv, Unread, RefusedLeavesNoTrace
<1>3. CASE Check
  <2>1. /\ pc = "routed" /\ error' = Complaint(request) /\ answer' = answer
        /\ stored = Nothing /\ answer = NoAnswer
        /\ pc' = IF error' = "none" THEN "checked" ELSE "returned"
    BY <1>3 DEF Check, HttpInv, Unread
  <2>2. error' \in Reason \ {"analysis_failed", "internal"} /\ Nothing.kind = "nothing"
    BY <2>1, Complaints DEF HttpInv, Nothing
  <2>3. pc' = "returned" => Agreement'
    BY <1>1, <2>1, <2>2 DEF Agreement
  <2> QED BY <1>1, <2>1, <2>3 DEF HttpInv, Unread, RefusedLeavesNoTrace
<1>4. CASE Panic
  BY <1>1, <1>4 DEF Panic, HttpInv, Unread, RefusedLeavesNoTrace
<1>5. CASE Answer
  <2>1. /\ pc = "returned" /\ pc' = "answered" /\ error' = error /\ Agreement
    BY <1>5 DEF Answer, HttpInv
  <2>2. /\ answer'.status = IF error = "none" THEN Success ELSE StatusOf(error)
        /\ answer'.record = (request.route = "investigate" /\ error \in {"none", "analysis_failed"})
    BY <1>5 DEF Answer
  <2>3. Agreement' /\ Faithful'
    BY <1>1, <2>1, <2>2 DEF Agreement, Faithful, Success
  <2>4. RefusedLeavesNoTrace'
    <3>1. CASE error = "none"
      BY <2>2, <3>1 DEF RefusedLeavesNoTrace, Success
    <3>2. CASE error # "none"
      BY <1>1, <2>1, <2>2, <3>2, Statuses DEF RefusedLeavesNoTrace, Agreement
    <3> QED BY <3>1, <3>2
  <2> QED BY <1>1, <2>1, <2>3, <2>4 DEF HttpInv, Unread
<1>6. CASE Observe
  BY <1>1, <1>6 DEF Observe, HttpInv, Unread, RefusedLeavesNoTrace
<1>7. CASE RecoverPanics
  <2>1. pc' = "done" /\ answer'.status = 500
    BY <1>7 DEF RecoverPanics
  <2> QED BY <1>1, <2>1 DEF HttpInv, Unread, RefusedLeavesNoTrace
<1> QED BY <1>2, <1>3, <1>4, <1>5, <1>6, <1>7

LEMMA HttpInvariant == Spec => []HttpInv
<1>1. HttpInv /\ [Next]_vars => HttpInv'
  <2> SUFFICES ASSUME HttpInv, [Next]_vars PROVE HttpInv'
    OBVIOUS
  <2>1. CASE UNCHANGED vars
    BY <2>1 DEF vars, HttpInv, Agreement, Faithful, Success, StoredIsSound, RefusedLeavesNoTrace
  <2> QED BY <2>1, CreateKeeps, InvestigateKeeps, ReadersKeep, MiddlewareKeeps DEF Next
<1> QED BY <1>1, HttpInit, PTL DEF Spec

\* A client that is told 4xx may correct its request and send it again: nothing
\* that the failed one did stays behind, on any path through handlers.go.
THEOREM RefusalsLeaveNoTrace == Spec => []RefusedLeavesNoTrace
<1>1. HttpInv => RefusedLeavesNoTrace
  BY DEF HttpInv
<1> QED BY <1>1, HttpInvariant, PTL

\* Whatever gets through decodeBody and validate into the database was read to
\* its end, and names a target that the tools accept.
THEOREM OnlySoundRows == Spec => []StoredIsSound
<1>1. HttpInv => StoredIsSound
  BY DEF HttpInv
<1> QED BY <1>1, HttpInvariant, PTL

\* writeServiceError and the investigate handler together: the record of a
\* concluded investigation reaches the client, with 201 or 502 as it ended.
THEOREM ConclusionsAreTold == Spec => []ConcludedIsTold
<1>1. HttpInv => ConcludedIsTold
  <2> SUFFICES ASSUME HttpInv, pc = "answered" PROVE ConcludedIsTold
    BY DEF ConcludedIsTold
  <2>1. Agreement /\ Faithful
    BY DEF HttpInv
  <2>2. ASSUME NEW x, stored = Investigation(x), error # "internal"
        PROVE  /\ request.route = "investigate" /\ error \in {"none", "analysis_failed"}
               /\ error = "none" => stored = Investigation("completed")
               /\ error = "analysis_failed" => stored = Investigation("failed")
    <3>1. stored.kind = "investigation"
      BY <2>2 DEF Investigation
    <3> QED BY <2>1, <2>2, <3>1 DEF Agreement
  <2>3. Investigation("completed").status = "completed" /\ Investigation("failed").status = "failed"
    BY DEF Investigation
  <2>4. ASSUME stored = Investigation("completed"), error # "internal"
        PROVE  answer.status = 201 /\ answer.record
    <3>1. error = "none" /\ request.route = "investigate"
      BY <2>2, <2>3, <2>4
    <3> QED BY <2>1, <3>1 DEF Faithful, Success, WithBody
  <2>5. ASSUME stored = Investigation("failed"), error # "internal"
        PROVE  answer.status = 502 /\ answer.record
    <3>1. error = "analysis_failed" /\ request.route = "investigate"
      BY <2>2, <2>3, <2>5
    <3>2. answer.status = StatusOf("analysis_failed") /\ answer.record
      BY <2>1, <3>1 DEF Faithful
    <3> QED BY <3>2, Statuses DEF Reason
  <2>6. answer.record => stored.kind = "investigation"
    BY <2>1 DEF Faithful, Agreement
  <2> QED BY <2>4, <2>5, <2>6 DEF ConcludedIsTold
<1> QED BY <1>1, HttpInvariant, PTL

-----------------------------------------------------------------------------
\* Deadlines.

Phases == {"headers", "closed", "body", "load", "refused", "insert", "tools", "save", "stored", "unsaved"}

\* How far the clock can have come in each phase, from the instants in at.
OnTime ==
    /\ phase \in {"headers", "closed", "body"} =>
         /\ at.body = 0 /\ at.start = 0 /\ clock <= ReadHeaderTimeout
    /\ phase = "load" => at.start = 0 /\ at.body = clock
    /\ phase \in {"headers", "closed", "body", "load", "insert"} => at.save = 0
    /\ phase = "refused" => at.save = 0 /\ clock <= HangUp
    /\ phase = "insert" => at.start = clock /\ clock < HangUp
    /\ phase = "tools" => clock <= Limit
    /\ phase = "save" => clock = at.save
    /\ phase \in {"save", "stored", "unsaved"} =>
         at.save <= Limit /\ clock <= at.save + SaveTimeout

DeadlineInv ==
    /\ phase \in Phases /\ clock \in Nat /\ timeout \in Timeouts
    /\ via \in {"direct", "ingress"}
    /\ at \in [headers : Nat, body : Nat, start : Nat, save : Nat]
    /\ told \in {"waiting", "told", "lost"}
    /\ OnTime
    /\ OnlyStorageCostsAnswers
    /\ told # "waiting" => phase \in {"stored", "unsaved", "refused"}

\* The smaller one of two.
LEMMA MinOfTwo ==
  ASSUME NEW a \in Int, NEW b \in Int
  PROVE  Min({a, b}) = IF a <= b THEN a ELSE b
<1>1. CASE a <= b
  <2>1. a \in {a, b} /\ \A y \in {a, b} : a <= y
    BY <1>1
  <2>2. \A x \in {a, b} : (\A y \in {a, b} : x <= y) => x = a
    BY <1>1
  <2>3. Min({a, b}) = a
    BY <2>1, <2>2 DEF Min
  <2> QED BY <1>1, <2>3
<1>2. CASE ~ a <= b
  <2>1. b \in {a, b} /\ \A y \in {a, b} : b <= y
    BY <1>2
  <2>2. \A x \in {a, b} : (\A y \in {a, b} : x <= y) => x = b
    BY <1>2
  <2>3. Min({a, b}) = b
    BY <2>1, <2>2 DEF Min
  <2> QED BY <1>2, <2>3
<1> QED BY <1>1, <1>2

LEMMA StatementsEnd ==
  ASSUME NEW d \in Nat
  PROVE  Min({d, StatementTimeout}) \in Nat
BY MinOfTwo DEF StatementTimeout

\* The two ends of an investigation's context, and the sizes of all the rest.
LEMMA Limits ==
  ASSUME DeadlineInv
  PROVE  /\ timeout \in Nat \ {0}
         /\ at.headers \in Nat /\ at.body \in Nat /\ at.start \in Nat /\ at.save \in Nat
         /\ HangUp \in Nat /\ HangUp >= ProxyReadTimeout
         /\ via = "ingress" => HangUp = at.body + ProxyReadTimeout
         /\ Limit \in Nat /\ Limit <= at.start + timeout /\ Limit <= HangUp
         /\ WriteDeadline = at.headers + timeout + 15
<1>1. /\ timeout \in Nat \ {0}
      /\ at.headers \in Nat /\ at.body \in Nat /\ at.start \in Nat /\ at.save \in Nat
  BY DeadlinesAssumption DEF DeadlineInv
<1>2. /\ HangUp \in Nat /\ HangUp >= ProxyReadTimeout
      /\ via = "ingress" => HangUp = at.body + ProxyReadTimeout
  BY <1>1 DEF HangUp, LongAfter, ProxyReadTimeout
<1>3. Limit = IF at.start + timeout <= HangUp THEN at.start + timeout ELSE HangUp
  BY <1>1, <1>2, MinOfTwo DEF Limit
<1> QED BY <1>1, <1>2, <1>3 DEF WriteDeadline, WriteTimeout

LEMMA DeadlinesStart == DeadlinesInit => DeadlineInv
BY DEF DeadlinesInit, DeadlineInv, Phases, OnTime, ReadHeaderTimeout, OnlyStorageCostsAnswers

LEMMA ReadHeadersKeeps == DeadlineInv /\ ReadHeaders => DeadlineInv'
<1> SUFFICES ASSUME DeadlineInv, phase = "headers", NEW d \in Arrivals,
                    clock' = Min({d, ReadHeaderTimeout}),
                    phase' = IF d < ReadHeaderTimeout THEN "body" ELSE "closed",
                    at' = [at EXCEPT !.headers = clock'],
                    UNCHANGED <<setting, todo, outcome, told>>
             PROVE  DeadlineInv'
  BY DEF ReadHeaders
<1>1. d \in Nat
  BY DeadlinesAssumption
<1>2. clock' \in Nat /\ clock' <= ReadHeaderTimeout
  BY <1>1, MinOfTwo DEF ReadHeaderTimeout
<1>3. phase' \in {"body", "closed"} /\ told = "waiting"
  BY DEF DeadlineInv
<1>4. /\ at' \in [headers : Nat, body : Nat, start : Nat, save : Nat]
      /\ at'.body = 0 /\ at'.start = 0 /\ at'.save = 0
  BY <1>2 DEF DeadlineInv, OnTime
<1>5. OnTime'
  BY <1>2, <1>3, <1>4 DEF OnTime
<1> QED
  BY <1>2, <1>3, <1>4, <1>5 DEF DeadlineInv, Phases, OnlyStorageCostsAnswers, setting

LEMMA ReadBodyKeeps == DeadlineInv /\ ReadBody => DeadlineInv'
<1> SUFFICES ASSUME DeadlineInv, phase = "body", NEW d \in Arrivals,
                    clock' = Min({clock + d, ReadTimeout}),
                    phase' = IF clock + d < ReadTimeout THEN "load" ELSE "refused",
                    at' = [at EXCEPT !.body = clock'],
                    UNCHANGED <<setting, todo, outcome, told>>
             PROVE  DeadlineInv'
  BY DEF ReadBody
<1>1. d \in Nat /\ clock \in Nat /\ clock + d \in Int
  BY DeadlinesAssumption DEF DeadlineInv
<1>2. clock' \in Nat /\ clock' <= ReadTimeout
  <2>1. ReadTimeout \in Nat
    BY DEF ReadTimeout
  <2>2. Min({clock + d, ReadTimeout}) = IF clock + d <= ReadTimeout THEN clock + d ELSE ReadTimeout
    BY <1>1, <2>1, MinOfTwo
  <2> QED BY <1>1, <2>1, <2>2
<1>3. phase' \in {"load", "refused"} /\ told = "waiting"
  BY DEF DeadlineInv
<1>4. /\ at' \in [headers : Nat, body : Nat, start : Nat, save : Nat]
      /\ at'.body = clock' /\ at'.start = 0 /\ at'.save = 0
  BY <1>2 DEF DeadlineInv, OnTime
<1>5. clock' <= HangUp'
  BY <1>2, <1>4 DEF HangUp, ReadTimeout, ProxyReadTimeout, LongAfter
<1>6. OnTime'
  BY <1>2, <1>3, <1>4, <1>5 DEF OnTime
<1> QED
  BY <1>2, <1>3, <1>4, <1>6 DEF DeadlineInv, Phases, OnlyStorageCostsAnswers, setting

LEMMA LoadKeeps == DeadlineInv /\ Load => DeadlineInv'
<1> SUFFICES ASSUME DeadlineInv, phase = "load", NEW w \in Waits, NEW d \in Delays,
                    NEW end, end = clock + w + Min({d, StatementTimeout}),
                    clock' = Min({end, HangUp}),
                    phase' = IF d < StatementTimeout /\ end < HangUp THEN "insert" ELSE "refused",
                    at' = [at EXCEPT !.start = clock'],
                    UNCHANGED <<setting, todo, outcome, told>>
             PROVE  DeadlineInv'
  BY DEF Load
<1>1. w \in Nat /\ d \in Nat /\ clock \in Nat
  BY DeadlinesAssumption DEF DeadlineInv
<1>2. end \in Nat
  <2>1. Min({d, StatementTimeout}) \in Nat
    BY <1>1, StatementsEnd
  <2> QED BY <1>1, <2>1
<1>3. clock' \in Nat /\ clock' <= HangUp /\ (end < HangUp => clock' < HangUp)
  <2>1. HangUp \in Nat
    BY Limits
  <2>2. clock' = IF end <= HangUp THEN end ELSE HangUp
    BY <1>2, <2>1, MinOfTwo
  <2> QED BY <1>2, <2>1, <2>2
<1>4. phase' \in {"insert", "refused"} /\ told = "waiting" /\ (phase' = "insert" => clock' < HangUp)
  BY <1>3 DEF DeadlineInv
<1>5. /\ at' \in [headers : Nat, body : Nat, start : Nat, save : Nat]
      /\ at'.body = at.body /\ at'.start = clock' /\ at'.save = 0
  BY <1>3 DEF DeadlineInv, OnTime
<1>6. HangUp' = HangUp
  BY <1>5 DEF HangUp, setting
<1>7. OnTime'
  BY <1>3, <1>4, <1>5, <1>6 DEF OnTime
<1> QED
  BY <1>3, <1>4, <1>5, <1>7 DEF DeadlineInv, Phases, OnlyStorageCostsAnswers, setting

\* From here on the two ends of the context stand still.
LEMMA EndsStandStill ==
  ASSUME UNCHANGED setting, at'.body = at.body, at'.start = at.start
  PROVE  HangUp' = HangUp /\ Limit' = Limit
BY DEF HangUp, Limit, setting

LEMMA InsertKeeps == DeadlineInv /\ Insert => DeadlineInv'
<1> SUFFICES ASSUME DeadlineInv, phase = "insert", NEW w \in Waits, NEW d \in Delays,
                    NEW end, end = clock + w + Min({d, StatementTimeout}),
                    clock' = Min({end, Limit}),
                    phase' = IF d < StatementTimeout /\ end < Limit THEN "tools" ELSE "refused",
                    UNCHANGED <<setting, todo, outcome, at, told>>
             PROVE  DeadlineInv'
  BY DEF Insert
<1>1. w \in Nat /\ d \in Nat /\ clock \in Nat
  BY DeadlinesAssumption DEF DeadlineInv
<1>2. end \in Nat
  <2>1. Min({d, StatementTimeout}) \in Nat
    BY <1>1, StatementsEnd
  <2> QED BY <1>1, <2>1
<1>3. clock' \in Nat /\ clock' <= Limit /\ clock' <= HangUp
  BY <1>2, MinOfTwo, Limits
<1>4. phase' \in {"tools", "refused"} /\ told = "waiting" /\ at.save = 0
  BY DEF DeadlineInv, OnTime
<1>5. OnTime'
  BY <1>3, <1>4, EndsStandStill DEF OnTime
<1> QED
  BY <1>3, <1>4, <1>5 DEF DeadlineInv, Phases, OnlyStorageCostsAnswers, setting

LEMMA RunToolKeeps ==
  ASSUME DeadlineInv, NEW t \in Tool, RunTool(t)
  PROVE  DeadlineInv'
<1>1. PICK d \in IF network[t] = "silent" THEN Patience(t) ELSE {Busy(t)} :
         clock' = Min({clock + d, Min({clock + ToolTimeout, Limit})})
  BY DEF RunTool
<1>2. d \in Nat /\ clock \in Nat
  BY DEF Patience, Busy, Tool, DeadlineInv
<1> DEFINE cut == Min({clock + ToolTimeout, Limit})
<1>3. cut \in Nat /\ cut <= Limit
  BY <1>2, MinOfTwo, Limits DEF ToolTimeout
<1> HIDE DEF cut
<1>4. clock' = Min({clock + d, cut})
  BY <1>1 DEF cut
<1>5. clock' \in Nat /\ clock' <= Limit
  BY <1>2, <1>3, <1>4, MinOfTwo, Limits
<1>6. phase = "tools" /\ phase' = "tools" /\ UNCHANGED <<setting, at, told>> /\ told = "waiting"
  BY DEF RunTool, DeadlineInv
<1>7. OnTime'
  BY <1>5, <1>6, EndsStandStill DEF OnTime
<1> QED
  BY <1>5, <1>6, <1>7 DEF DeadlineInv, Phases, OnlyStorageCostsAnswers, setting

LEMMA AnalyzeKeeps == DeadlineInv /\ Analyze => DeadlineInv'
<1> SUFFICES ASSUME DeadlineInv, Analyze PROVE DeadlineInv'
  OBVIOUS
<1>1. PICK d \in Delays :
         clock' = IF Observed = {} \/ provider = "rules" THEN clock
                  ELSE Min({clock + d, clock + LlmTimeout, Limit})
  BY DEF Analyze
<1>2. d \in Nat /\ clock \in Nat /\ LlmTimeout \in Nat /\ Limit \in Nat
  BY DeadlinesAssumption, Limits DEF DeadlineInv
<1>3. phase = "tools" /\ clock <= Limit /\ told = "waiting"
  BY DEF Analyze, DeadlineInv, OnTime
<1>4. clock' \in Nat /\ clock' <= Limit
  <2>1. CASE Observed = {} \/ provider = "rules"
    BY <1>1, <1>2, <1>3, <2>1
  <2>2. CASE ~(Observed = {} \/ provider = "rules")
    <3> DEFINE S == {clock + d, clock + LlmTimeout, Limit}
    <3>1. \E x \in S : \A y \in S : x <= y
      BY <1>2
    <3>2. Min(S) \in S /\ \A y \in S : Min(S) <= y
      <4> HIDE DEF S
      <4> QED BY <3>1 DEF Min
    <3> QED BY <1>1, <1>2, <2>2, <3>2
  <2> QED BY <2>1, <2>2
<1>5. /\ phase' = "save" /\ at' = [at EXCEPT !.save = clock'] /\ UNCHANGED <<setting, told>>
  BY DEF Analyze
<1>6. /\ at' \in [headers : Nat, body : Nat, start : Nat, save : Nat]
      /\ at'.body = at.body /\ at'.start = at.start /\ at'.save = clock'
  BY <1>4, <1>5 DEF DeadlineInv
<1>7. OnTime'
  BY <1>4, <1>5, <1>6, EndsStandStill DEF OnTime, SaveTimeout
<1> QED
  BY <1>3, <1>4, <1>5, <1>6, <1>7 DEF DeadlineInv, Phases, OnlyStorageCostsAnswers, setting

LEMMA SaveKeeps == DeadlineInv /\ Save => DeadlineInv'
<1> SUFFICES ASSUME DeadlineInv, phase = "save", NEW w \in Waits, NEW d \in Delays,
                    clock' = clock + Min({w + d, SaveTimeout}),
                    phase' = IF w + d < SaveTimeout THEN "stored" ELSE "unsaved",
                    UNCHANGED <<setting, todo, outcome, at, told>>
             PROVE  DeadlineInv'
  BY DEF Save
<1>1. w \in Nat /\ d \in Nat /\ clock \in Nat /\ clock = at.save /\ told = "waiting"
      /\ at.save <= Limit
  BY DeadlinesAssumption DEF DeadlineInv, OnTime
<1>2. clock' \in Nat /\ clock' <= at.save + SaveTimeout
  BY <1>1, MinOfTwo DEF SaveTimeout
<1>3. phase' \in {"stored", "unsaved"}
  OBVIOUS
<1>4. OnTime'
  BY <1>1, <1>2, <1>3, EndsStandStill DEF OnTime
<1> QED
  BY <1>1, <1>2, <1>3, <1>4 DEF DeadlineInv, Phases, OnlyStorageCostsAnswers, setting

LEMMA SendAnswerKeeps == DeadlineInv /\ SendAnswer => DeadlineInv'
<1> SUFFICES ASSUME DeadlineInv, SendAnswer PROVE DeadlineInv'
  OBVIOUS
<1>1. /\ phase \in {"stored", "unsaved", "refused"} /\ UNCHANGED <<phase, clock, setting, at>>
      /\ told' = IF clock <= WriteDeadline /\ clock <= HangUp THEN "told" ELSE "lost"
  BY DEF SendAnswer
<1>2. OnTime' /\ HangUp' = HangUp
  BY <1>1, EndsStandStill DEF DeadlineInv, OnTime
<1>3. ASSUME told' = "lost", clock <= HangUp
      PROVE  (at.start - at.headers) + (clock - at.save) > 15
  <2>1. clock > at.headers + timeout + 15 /\ clock \in Nat
    BY <1>1, <1>3, Limits DEF DeadlineInv
  <2>2. CASE phase = "refused"
    BY <2>1, <2>2, Limits DEF DeadlineInv, OnTime
  <2>3. CASE phase \in {"stored", "unsaved"}
    <3>1. at.save <= at.start + timeout
      BY <2>3, Limits DEF DeadlineInv, OnTime
    <3> QED BY <2>1, <3>1, Limits
  <2> QED BY <1>1, <2>2, <2>3
<1>4. OnlyStorageCostsAnswers'
  BY <1>1, <1>2, <1>3 DEF OnlyStorageCostsAnswers
<1> QED
  BY <1>1, <1>2, <1>4 DEF DeadlineInv, setting

LEMMA DeadlineInvariant == DeadlinesSpec => []DeadlineInv
<1>1. DeadlineInv /\ [DeadlinesNext]_deadlineVars => DeadlineInv'
  <2> SUFFICES ASSUME DeadlineInv, [DeadlinesNext]_deadlineVars PROVE DeadlineInv'
    OBVIOUS
  <2>1. CASE UNCHANGED deadlineVars
    BY <2>1, EndsStandStill
       DEF deadlineVars, setting, DeadlineInv, OnTime, OnlyStorageCostsAnswers
  <2> QED
    BY <2>1, ReadHeadersKeeps, ReadBodyKeeps, LoadKeeps, InsertKeeps, RunToolKeeps, AnalyzeKeeps,
       SaveKeeps, SendAnswerKeeps DEF DeadlinesNext
<1> QED BY <1>1, DeadlinesStart, PTL DEF DeadlinesSpec

\* WriteTimeout of main.go: the tools and the provider have their time, and the
\* 15 seconds on top are for the body, the load and the save.
THEOREM OnlyStorageCosts == DeadlinesSpec => []OnlyStorageCostsAnswers
<1>1. DeadlineInv => OnlyStorageCostsAnswers
  BY DEF DeadlineInv
<1> QED BY <1>1, DeadlineInvariant, PTL

\* FailStaleInvestigations of one replica spares what another one still works on.
THEOREM SavesBeatSweeps == DeadlinesSpec => []SavedBeforeStale
<1>1. DeadlineInv => SavedBeforeStale
  <2> SUFFICES ASSUME DeadlineInv, phase \in {"tools", "save", "stored"}
               PROVE  clock - at.start < StaleAge(timeout)
    BY DEF SavedBeforeStale
  <2>1. clock \in Nat /\ clock <= at.start + timeout + SaveTimeout
    BY Limits DEF DeadlineInv, OnTime, SaveTimeout
  <2> QED BY <2>1, Limits DEF StaleAge, SaveTimeout
<1> QED BY <1>1, DeadlineInvariant, PTL

\* The ingress's 120 seconds cover an investigation of up to 100: the load and
\* the save may take ten each.  INVESTIGATION_TIMEOUT has no upper bound in
\* config.go; the ConfigMap of the Kubernetes deployment sets 90.
THEOREM IngressWaits ==
    ASSUME \A t \in Timeouts : t + StatementTimeout + SaveTimeout <= ProxyReadTimeout
    PROVE  DeadlinesSpec => []IngressOutwaits
<1>1. DeadlineInv => IngressOutwaits
  <2> SUFFICES ASSUME DeadlineInv, via = "ingress", phase # "load",
                      at.start - at.body <= StatementTimeout
               PROVE  clock <= HangUp
    BY DEF IngressOutwaits
  <2>1. /\ clock \in Nat /\ HangUp = at.body + ProxyReadTimeout /\ Limit <= HangUp
        /\ timeout + StatementTimeout + SaveTimeout <= ProxyReadTimeout
    BY Limits DEF DeadlineInv
  <2>2. CASE phase \in {"headers", "closed", "body"}
    BY <2>1, <2>2, Limits DEF DeadlineInv, OnTime, ReadHeaderTimeout, ProxyReadTimeout
  <2>3. CASE phase \in {"refused", "insert", "tools"}
    BY <2>1, <2>3, Limits DEF DeadlineInv, OnTime
  <2>4. CASE phase \in {"save", "stored", "unsaved"}
    <3>1. clock <= at.start + timeout + SaveTimeout
      BY <2>1, <2>4, Limits DEF DeadlineInv, OnTime, SaveTimeout
    <3> QED BY <2>1, <3>1, Limits DEF StatementTimeout, SaveTimeout, ProxyReadTimeout
  <2> QED BY <2>2, <2>3, <2>4 DEF DeadlineInv, Phases
<1> QED BY <1>1, DeadlineInvariant, PTL
=============================================================================
