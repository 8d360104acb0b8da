------------------------------- MODULE WebUi -------------------------------
(***************************************************************************)
(* One browser window: the form and the detail view of the selected        *)
(* incident, and the requests whose answers arrive in any order.  The list *)
(* and the readiness lamp are left out: they show what was answered last   *)
(* and nothing depends on them.                                            *)
(* The server numbers the investigations of an incident in the order of    *)
(* their started_at, which the database's clock gives.  They may end in    *)
(* another order; the latest report is the completed one with the highest  *)
(* number, and without one the incident is still open.  An answer carries  *)
(* the number of the investigation that it tells of, 0 for none.           *)
(***************************************************************************)
EXTENDS Naturals, FiniteSets

CONSTANTS
    Incident,
    NoIncident,
    Old,            \* the incidents that exist from the start
    MaxRequests,    \* bound: requests sent
    MaxStarted      \* bound: investigations of an incident

ASSUME WebUiAssumption ==
    /\ Old \subseteq Incident /\ NoIncident \notin Incident
    /\ MaxRequests \in Nat /\ MaxStarted \in Nat

VARIABLES
    exists,     \* the incidents in the database
    started,    \* started[i], how many investigations of i were started
    latest,     \* latest[i], the highest number of a completed one, or 0
    elsewhere,  \* elsewhere[i], those under way that no request here waits for
    flight,     \* the requests that were sent and not yet delivered
    sent,       \* how many requests there were
    selected,   \* App's selection
    mount,      \* counts the mounts of the detail view
    view,       \* the state of the detail view
    busy        \* the form has been submitted

uiVars == <<exists, started, latest, elsewhere, flight, sent, selected, mount, view, busy>>
runs == <<started, latest, elsewhere>>
server == <<exists, runs>>

\* of: the incident on show, or NoIncident before its answer; record: the
\* investigation on show, its incident and its number.  The last three are
\* history, no state of the page: the report asked for on mounting was answered;
\* it was shown during the investigation now running; the highest number shown.
EmptyView == [of |-> NoIncident, analyzed |-> FALSE, record |-> [of |-> NoIncident, n |-> 0],
              running |-> FALSE, reported |-> FALSE, crossing |-> FALSE, best |-> 0]

Request(kind, i, id, m) == [id |-> id, kind |-> kind, of |-> i, mount |-> m,
                            state |-> "sent", n |-> 0]

\* The page has been opened, with an incident in its address or without.
UiInit ==
    /\ exists = Old
    /\ started = [i \in Incident |-> 0] /\ latest = [i \in Incident |-> 0]
    /\ elsewhere = [i \in Incident |-> {}]
    /\ selected \in Old \cup {NoIncident}
    /\ mount = 0 /\ view = EmptyView /\ busy = FALSE
    /\ flight = IF selected = NoIncident THEN {}
                ELSE {Request("incident", selected, 1, 0), Request("report", selected, 2, 0)}
    /\ sent = 2

\* The view has the incident's id as its key: another incident gets a new view,
\* which asks for the incident and its report.
Show(i, rest) ==
    /\ selected' = i
    /\ IF i = selected
       THEN flight' = rest /\ UNCHANGED <<sent, mount, view>>
       ELSE /\ sent + 2 <= MaxRequests /\ sent' = sent + 2
            /\ mount' = mount + 1 /\ view' = EmptyView
            /\ flight' = rest \cup {Request("incident", i, sent + 1, mount'),
                                    Request("report", i, sent + 2, mount')}

Select(i) ==
    /\ i \in exists /\ i # selected
    /\ Show(i, flight)
    /\ UNCHANGED <<server, busy>>

Submit(i) ==
    /\ ~busy /\ i \notin exists /\ sent < MaxRequests
    /\ busy' = TRUE
    /\ flight' = flight \cup {Request("create", i, sent + 1, mount)} /\ sent' = sent + 1
    /\ UNCHANGED <<server, selected, mount, view>>

\* Mutant: the button is not disabled while an investigation runs.
CanRun_Twice == view.of # NoIncident

CanRun == view.of # NoIncident /\ ~view.running

Investigate ==
    /\ CanRun /\ sent < MaxRequests
    /\ view' = [view EXCEPT !.running = TRUE]
    /\ flight' = flight \cup {Request("investigate", selected, sent + 1, mount)} /\ sent' = sent + 1
    /\ UNCHANGED <<server, selected, mount, busy>>

-----------------------------------------------------------------------------
\* The server's side of a request.  Any request may fail, and any answer may be
\* lost, which is a failure too.
Answered(q, state, n) == flight' = (flight \ {q}) \cup {[q EXCEPT !.state = state, !.n = n]}

Start(i) ==
    /\ started[i] < MaxStarted
    /\ started' = [started EXCEPT ![i] = @ + 1]

\* Investigation n of i is stored as completed.
Complete(i, n) == latest' = [latest EXCEPT ![i] = IF n > @ THEN n ELSE @]

BeginInvestigation(q) ==
    /\ q.kind = "investigate" /\ q.state = "sent"
    /\ Start(q.of) /\ Answered(q, "begun", started'[q.of])
    /\ UNCHANGED <<exists, latest, elsewhere>>

\* A failed analysis is answered with its record, a failed save without.
EndInvestigation(q) ==
    /\ q.state = "begun"
    /\ \/ Complete(q.of, q.n) /\ \E state \in {"ok", "failed"} : Answered(q, state, q.n)
       \/ UNCHANGED latest /\ \E state \in {"analysis_failed", "failed"} : Answered(q, state, q.n)
    /\ UNCHANGED <<exists, started, elsewhere>>

\* The connection breaks, and the engine saves what it has all the same.
LoseInvestigation(q) ==
    /\ q.state = "begun"
    /\ elsewhere' = [elsewhere EXCEPT ![q.of] = @ \cup {q.n}]
    /\ Answered(q, "failed", q.n)
    /\ UNCHANGED <<exists, started, latest>>

ServeCreate(q) ==
    /\ q.kind = "create" /\ q.state = "sent" /\ q.of \notin exists
    /\ exists' = exists \cup {q.of}
    /\ \E state \in {"ok", "failed"} : Answered(q, state, 0)
    /\ UNCHANGED runs

ServeAsIs(q) ==
    /\ q.state = "sent"
    /\ \/ q.kind = "incident" /\ Answered(q, "ok", latest[q.of])
       \/ q.kind = "report" /\ latest[q.of] > 0 /\ Answered(q, "ok", latest[q.of])
       \/ Answered(q, "failed", 0)
    /\ UNCHANGED server

Serve(q) ==
    /\ q \in flight
    /\ \/ BeginInvestigation(q) \/ EndInvestigation(q) \/ LoseInvestigation(q)
       \/ ServeCreate(q) \/ ServeAsIs(q)
    /\ UNCHANGED <<sent, selected, mount, view, busy>>

\* Other windows and clients have investigations run as well.
ElsewhereBegins(i) ==
    /\ i \in exists /\ Start(i)
    /\ elsewhere' = [elsewhere EXCEPT ![i] = @ \cup {started'[i]}]
    /\ UNCHANGED <<exists, latest, flight, sent, selected, mount, view, busy>>

ElsewhereEnds(i) ==
    /\ \E n \in elsewhere[i] :
         /\ elsewhere' = [elsewhere EXCEPT ![i] = @ \ {n}]
         /\ Complete(i, n) \/ UNCHANGED latest
    /\ UNCHANGED <<exists, started, flight, sent, selected, mount, view, busy>>

-----------------------------------------------------------------------------
\* Mutant: the view has no key.
Lives_NoKey(q) == TRUE

\* The view that sent q is the one on show; React drops what others set.
Lives(q) == q.mount = mount

DeliverIncident(q) ==
    /\ q.kind = "incident"
    /\ view' = IF Lives(q) /\ q.state = "ok"
               THEN [view EXCEPT !.of = q.of, !.analyzed = q.n > 0] ELSE view
    /\ flight' = flight \ {q}
    /\ UNCHANGED <<server, sent, selected, mount, busy>>

\* Investigation n of i is put on show.
Told(i, n) == [view EXCEPT !.record = [of |-> i, n |-> n],
                           !.best = IF n > view.best THEN n ELSE view.best]

\* It takes the place of whatever is on show, an investigation included that
\* started later.
DeliverReport(q) ==
    /\ q.kind = "report"
    /\ view' = IF ~Lives(q) THEN view
               ELSE IF q.state = "ok"
               THEN [Told(q.of, q.n) EXCEPT !.reported = TRUE, !.crossing = view.running]
               ELSE [view EXCEPT !.reported = TRUE]
    /\ flight' = flight \ {q}
    /\ UNCHANGED <<server, sent, selected, mount, busy>>

\* Mutant: an error leaves the spinner turning.
Finished_OnSuccess(q, v) ==
    IF q.state = "ok" THEN [v EXCEPT !.running = FALSE, !.crossing = FALSE] ELSE v

Finished(q, v) == [v EXCEPT !.running = FALSE, !.crossing = FALSE]

DeliverInvestigation(q) ==
    /\ q.kind = "investigate"
    /\ view' = IF ~Lives(q) THEN view
               ELSE IF q.state = "ok"
               THEN Finished(q, [Told(q.of, q.n) EXCEPT !.analyzed = view.of # NoIncident])
               ELSE IF q.state = "analysis_failed" THEN Finished(q, Told(q.of, q.n))
               ELSE Finished(q, view)
    /\ flight' = flight \ {q}
    /\ UNCHANGED <<server, sent, selected, mount, busy>>

\* The created incident is selected, whatever was selected since.
DeliverCreated(q) ==
    /\ q.kind = "create"
    /\ busy' = FALSE
    /\ IF q.state = "ok" THEN Show(q.of, flight \ {q})
       ELSE flight' = flight \ {q} /\ UNCHANGED <<sent, selected, mount, view>>
    /\ UNCHANGED server

Deliver(q) ==
    /\ q \in flight /\ q.state \notin {"sent", "begun"}
    /\ \/ DeliverIncident(q) \/ DeliverReport(q)
       \/ DeliverInvestigation(q) \/ DeliverCreated(q)

UiNext ==
    \/ \E i \in Incident : 
         Select(i) \/ Submit(i) \/ ElsewhereBegins(i) \/ ElsewhereEnds(i)
    \/ Investigate
    \/ \E q \in flight : Serve(q) \/ Deliver(q)

UiSpec == UiInit /\ [][UiNext]_uiVars

-----------------------------------------------------------------------------

\* What is on show belongs to the selected incident, however late the answers
\* for those selected before arrive.
ShownBelongsToSelected ==
    /\ view.of \in {selected, NoIncident}
    /\ view.record.of \in {selected, NoIncident}

\* What is on show gives way to an investigation that started earlier only where
\* the report asked for on mounting arrives late (IncidentDetail.tsx:23), or where
\* it arrived during an investigation whose answer then takes its place (:35): not
\* otherwise, whatever other clients do and whatever answers fail or are lost.
SetBackOnlyByReport ==
    [][mount' = mount /\ view'.record # view.record /\ view'.record.n <= view.best
         => ~view.reported \/ view.crossing]_uiVars

\* The spinner turns exactly while an investigation of this view is under way.
SpinnerTellsTruth ==
    view.running <=> \E q \in flight : q.kind = "investigate" /\ q.mount = mount
=============================================================================
