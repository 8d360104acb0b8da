------------------------------- MODULE Paging -------------------------------
(***************************************************************************)
(* Walking through the list of incidents page by page while others are     *)
(* created and analyzed.  A page is one statement, ordered by created_at,  *)
(* newest first, then by id, and cut by LIMIT and OFFSET.  created_at is   *)
(* the start of the INSERT's transaction, so an incident may appear below  *)
(* one that was committed before it.  A client asks for the page behind    *)
(* the incidents it has received and stops at an empty one.                *)
(***************************************************************************)
EXTENDS Integers, FiniteSets

CONSTANTS
    Id,                 \* ids: random, ordered as numbers
    DefaultPageSize,
    MaxPageSize,
    Limit,              \* the limits a client may ask for, 0 for none
    MaxClock            \* bound of the database's clock

ASSUME PagingAssumption ==
    /\ Id \subseteq Nat /\ IsFiniteSet(Id)
    /\ DefaultPageSize \in Nat \ {0} /\ MaxPageSize \in Nat \ {0}
    /\ Limit \subseteq Int
    /\ MaxClock \in Nat

VARIABLES
    clock,      \* now(), as the database tells it
    created,    \* created[i]: created_at of i, once its INSERT has begun
    updated,    \* updated[i]: updated_at of i
    begun,      \* the incidents whose INSERT has begun
    listed,     \* the incidents that are committed
    walk,       \* the walk of the client
    atStart,    \* what was committed when the walk began
    shown       \* what the pages of the walk have shown

vars == <<clock, created, updated, begun, listed, walk, atStart, shown>>

Walk == [pc : {"idle", "walking", "over", "refused"}, limit : Int, offset : Nat]

Init ==
    /\ clock = 0
    /\ created = [i \in Id |-> 0]
    /\ updated = [i \in Id |-> 0]
    /\ begun = {} /\ listed = {} /\ atStart = {} /\ shown = {}
    /\ walk = [pc |-> "idle", limit |-> 0, offset |-> 0]

-----------------------------------------------------------------------------
\* The statement of ListIncidents.

\* Mutant: the list shows what changed last at the top.
Before_ByUpdate(i, j) ==
    \/ updated[i] > updated[j]
    \/ updated[i] = updated[j] /\ i < j

\* Mutant: no second sort key.  The order of equal times is open, and may be
\* another one for the next statement.
Before_TiesOpen(i, j) ==
    \/ created[i] > created[j]
    \/ created[i] = created[j] /\ (IF walk.offset = 0 THEN i < j ELSE j < i)

\* ORDER BY created_at DESC, id
Before(i, j) ==
    \/ created[i] > created[j]
    \/ created[i] = created[j] /\ i < j

Ahead(i) == {j \in listed : Before(j, i)}

Rank(i) == Cardinality(Ahead(i))

\* LIMIT and OFFSET
Page(limit, offset) == {i \in listed : offset <= Rank(i) /\ Rank(i) < offset + limit}

\* Service.List
PageSize(limit) ==
    LET wanted == IF limit <= 0 THEN DefaultPageSize ELSE limit
    IN  IF wanted < MaxPageSize THEN wanted ELSE MaxPageSize

-----------------------------------------------------------------------------
\* The INSERT of an incident takes its time when it begins ...
BeginInsert(i) ==
    /\ i \notin begun
    /\ begun' = begun \cup {i}
    /\ created' = [created EXCEPT ![i] = clock]
    /\ updated' = [updated EXCEPT ![i] = clock]
    /\ UNCHANGED <<clock, listed, walk, atStart, shown>>

\* ... and its row can be read once it is committed.
CommitInsert(i) ==
    /\ i \in begun \ listed
    /\ listed' = listed \cup {i}
    /\ UNCHANGED <<clock, created, updated, begun, walk, atStart, shown>>

\* An investigation of i is completed.
Analyze(i) ==
    /\ i \in listed
    /\ updated' = [updated EXCEPT ![i] = clock]
    /\ UNCHANGED <<clock, created, begun, listed, walk, atStart, shown>>

Tick ==
    /\ clock < MaxClock
    /\ clock' = clock + 1
    /\ UNCHANGED <<created, updated, begun, listed, walk, atStart, shown>>

Begin(limit, offset) ==
    /\ walk.pc = "idle"
    /\ offset >= 0
    /\ walk' = [pc |-> "walking", limit |-> limit, offset |-> offset]
    /\ atStart' = listed
    /\ UNCHANGED <<clock, created, updated, begun, listed, shown>>

\* A limit or an offset that is no integer, or a negative offset.
BadRequest ==
    /\ walk.pc = "idle"
    /\ walk' = [walk EXCEPT !.pc = "refused"]
    /\ UNCHANGED <<clock, created, updated, begun, listed, atStart, shown>>

NextPage ==
    LET page == Page(PageSize(walk.limit), walk.offset) IN
    /\ walk.pc = "walking"
    /\ shown' = shown \cup page
    /\ walk' = IF page = {} THEN [walk EXCEPT !.pc = "over"]
               ELSE [walk EXCEPT !.offset = @ + Cardinality(page)]
    /\ UNCHANGED <<clock, created, updated, begun, listed, atStart>>

Store == \/ \E i \in Id : BeginInsert(i) \/ CommitInsert(i) \/ Analyze(i)
         \/ Tick

Browse == \/ \E limit \in Limit, offset \in {-1, 0} : Begin(limit, offset)
          \/ BadRequest
          \/ NextPage

Next == Store \/ Browse

Spec == Init /\ [][Next]_vars

-----------------------------------------------------------------------------
\* The types of the variables; what is shown was committed.
TypeOK ==
    /\ clock \in 0..MaxClock
    /\ created \in [Id -> 0..MaxClock]
    /\ updated \in [Id -> 0..MaxClock]
    /\ begun \subseteq Id /\ listed \subseteq begun
    /\ atStart \subseteq listed /\ shown \subseteq listed
    /\ walk \in Walk

\* Whatever is created or analyzed between the pages, and wherever it enters
\* the order, a walk that has come to its end has shown every incident that
\* was there when it began.
PagesCover == walk.pc = "over" => atStart \subseteq shown

\* A page shows an incident again only because others have been created since
\* the walk began: at most one repetition for each of them.
RepeatsAreArrivals ==
    walk.offset <= Cardinality(shown) + Cardinality(listed \ atStart)
=============================================================================
