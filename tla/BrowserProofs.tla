--------------------------- MODULE BrowserProofs ---------------------------
(***************************************************************************)
(* What a user gets to see: the pages of the list (Paging), for any ids,   *)
(* page sizes and order of commits, and the detail view (WebUi), for any   *)
(* incidents and any order of answers.                                     *)
(***************************************************************************)
EXTENDS Paging, WebUi, FiniteSetTheorems, TLAPS

-----------------------------------------------------------------------------
\* Paging.  The ranks of the committed incidents are 0 to their number less
\* one, each taken once; so the pages up to an offset hold exactly offset
\* incidents, and a commit can only push an incident to a higher rank.

\* The incidents with a rank from a up to and without b.
Between(a, b) == {i \in listed : a <= Rank(i) /\ Rank(i) < b}

\* What is above the walk's offset has been shown or was created meanwhile.
Covered ==
    /\ walk.offset <= Cardinality(listed)
    /\ walk.pc = "idle" => walk.offset = 0
    /\ Between(0, walk.offset) \subseteq shown \cup (listed \ atStart)

IInv == TypeOK /\ Covered /\ PagesCover

\* What TypeOK says of the sets.
LEMMA Sets ==
  ASSUME TypeOK
  PROVE  /\ IsFiniteSet(listed) /\ IsFiniteSet(shown) /\ IsFiniteSet(listed \ atStart)
         /\ Cardinality(listed) \in Nat /\ listed \subseteq Id
<1>1. /\ listed \subseteq Id /\ shown \subseteq Id
      /\ (listed \ atStart) \subseteq Id
  BY DEF TypeOK
<1>2. IsFiniteSet(Id)
  BY PagingAssumption
<1>3. IsFiniteSet(listed) /\ IsFiniteSet(shown) /\ IsFiniteSet(listed \ atStart)
  BY <1>1, <1>2, FS_Subset
<1> QED
  BY <1>1, <1>3, FS_CardinalityType

\* The order is strict and total on the committed incidents.
LEMMA Order ==
  ASSUME TypeOK
  PROVE  /\ \A i \in listed : ~Before(i, i)
         /\ \A i, j \in listed : i # j => Before(i, j) \/ Before(j, i)
         /\ \A i, j, k \in listed : Before(i, j) /\ Before(j, k) => Before(i, k)
<1>1. /\ \A i \in listed : i \in Nat /\ created[i] \in Nat
  BY Sets, PagingAssumption DEF TypeOK
<1> QED
  BY <1>1 DEF Before

\* A rank is below the number of incidents, and belongs to one of them only.
LEMMA Ranks ==
  ASSUME TypeOK
  PROVE  /\ \A i \in listed : Rank(i) \in 0..(Cardinality(listed) - 1)
         /\ \A i, j \in listed : Before(i, j) => Rank(i) < Rank(j)
         /\ \A i, j \in listed : i # j => Rank(i) # Rank(j)
<1>1. ASSUME NEW i \in listed
      PROVE  /\ IsFiniteSet(Ahead(i)) /\ Rank(i) \in Nat
             /\ Rank(i) <= Cardinality(listed) - 1
  <2>1. Ahead(i) \in SUBSET listed /\ i \notin Ahead(i)
    BY Order DEF Ahead
  <2>2. IsFiniteSet(Ahead(i)) /\ Cardinality(Ahead(i)) \in Nat
        /\ Cardinality(Ahead(i)) <= Cardinality(listed)
        /\ Cardinality(Ahead(i)) # Cardinality(listed)
    BY <2>1, Sets, FS_Subset, FS_CardinalityType
  <2> QED
    BY <2>2, Sets DEF Rank
<1>2. ASSUME NEW i \in listed, NEW j \in listed, Before(i, j)
      PROVE  Rank(i) < Rank(j)
  <2>1. Ahead(i) \in SUBSET Ahead(j) /\ i \in Ahead(j) /\ i \notin Ahead(i)
    BY <1>2, Order DEF Ahead
  <2>2. Cardinality(Ahead(i)) <= Cardinality(Ahead(j))
        /\ Cardinality(Ahead(i)) # Cardinality(Ahead(j))
    BY <2>1, <1>1, FS_Subset
  <2> QED
    BY <2>2, <1>1 DEF Rank
<1>3. \A i, j \in listed : i # j => Rank(i) # Rank(j)
  BY <1>1, <1>2, Order
<1>4. \A i \in listed : Rank(i) \in 0..(Cardinality(listed) - 1)
  BY <1>1, Sets
<1> QED
  BY <1>2, <1>3, <1>4

\* No more incidents than ranks.
LEMMA AtMost ==
  ASSUME TypeOK, NEW a \in Nat, NEW b \in Nat, a <= b
  PROVE  /\ IsFiniteSet(Between(a, b))
         /\ Cardinality(Between(a, b)) \in Nat
         /\ Cardinality(Between(a, b)) <= b - a
<1> DEFINE T == a..(b - 1)
           f == [i \in Between(a, b) |-> Rank(i)]
<1>1. f \in Injection(Between(a, b), T)
  BY Ranks DEF Between, Injection, IsInjective
<1>2. IsFiniteSet(T) /\ Cardinality(T) = b - a
  <2>1. a \in Int /\ b - 1 \in Int
    OBVIOUS
  <2>2. /\ IsFiniteSet(T)
        /\ Cardinality(T) = IF a > b - 1 THEN 0 ELSE (b - 1) - a + 1
    BY <2>1, FS_Interval, Zenon
  <2> HIDE DEF T
  <2> QED
    BY <2>2
<1>3. /\ IsFiniteSet(Between(a, b))
      /\ Cardinality(Between(a, b)) <= Cardinality(T)
  <2> HIDE DEF T, f
  <2> QED
    BY <1>1, <1>2, FS_Injection
<1> QED
  BY <1>2, <1>3, FS_CardinalityType

\* Neighbouring intervals of ranks add up.
LEMMA Adjacent ==
  ASSUME TypeOK, NEW a \in Nat, NEW b \in Nat, NEW c \in Nat, a <= b, b <= c
  PROVE  /\ Between(a, c) = Between(a, b) \cup Between(b, c)
         /\ Cardinality(Between(a, c)) =
               Cardinality(Between(a, b)) + Cardinality(Between(b, c))
<1>1. \A i \in listed : Rank(i) \in Nat
  BY Ranks, Sets
<1>2. /\ Between(a, c) = Between(a, b) \cup Between(b, c)
      /\ Between(a, b) \cap Between(b, c) = {}
  BY <1>1 DEF Between
<1>3. /\ IsFiniteSet(Between(a, b)) /\ IsFiniteSet(Between(b, c))
      /\ Cardinality(Between(a, b)) \in Nat /\ Cardinality(Between(b, c)) \in Nat
  BY AtMost
<1>4. Cardinality(Between(a, b) \cap Between(b, c)) = 0
  BY <1>2, FS_EmptySet
<1>5. Cardinality(Between(a, b) \cup Between(b, c)) =
        Cardinality(Between(a, b)) + Cardinality(Between(b, c))
        - Cardinality(Between(a, b) \cap Between(b, c))
  BY <1>3, FS_Union
<1> QED
  BY <1>2, <1>3, <1>4, <1>5

\* Every rank below the number of incidents is taken.
LEMMA Exactly ==
  ASSUME TypeOK, NEW a \in Nat, NEW b \in Nat, a <= b, b <= Cardinality(listed)
  PROVE  Cardinality(Between(a, b)) = b - a
<1> DEFINE n == Cardinality(listed)
<1>0. n \in Nat
  BY Sets
<1>1. Between(0, n) = listed
  BY Ranks, <1>0 DEF Between
<1>2. /\ Cardinality(Between(0, n)) =
            Cardinality(Between(0, b)) + Cardinality(Between(b, n))
      /\ Cardinality(Between(0, b)) =
            Cardinality(Between(0, a)) + Cardinality(Between(a, b))
  BY Adjacent, <1>0
<1>3. /\ Cardinality(Between(0, a)) <= a - 0 /\ Cardinality(Between(0, a)) \in Nat
      /\ Cardinality(Between(a, b)) <= b - a /\ Cardinality(Between(a, b)) \in Nat
      /\ Cardinality(Between(b, n)) <= n - b /\ Cardinality(Between(b, n)) \in Nat
  BY AtMost, <1>0
<1>4. Cardinality(Between(0, n)) = n
  BY <1>1
<1> HIDE DEF n
<1> QED
  BY <1>0, <1>2, <1>3, <1>4

\* Service.List always asks for at least one row.
LEMMA PageSizeType == \A limit \in Int : PageSize(limit) \in Nat \ {0}
  BY PagingAssumption DEF PageSize

\* A page holds the next incidents, and is empty behind the last one only.
LEMMA PageIsNext ==
  ASSUME TypeOK, NEW limit \in Nat \ {0}, NEW offset \in Nat,
         offset <= Cardinality(listed)
  PROVE  LET next == offset + Cardinality(Page(limit, offset))
         IN  /\ next \in Nat /\ offset <= next /\ next <= Cardinality(listed)
             /\ Page(limit, offset) = Between(offset, next)
             /\ Page(limit, offset) = {} => offset = Cardinality(listed)
<1> DEFINE n == Cardinality(listed)
<1>0. n \in Nat
  BY Sets
<1>1. CASE offset + limit <= n
  <2>1. Page(limit, offset) = Between(offset, offset + limit)
    BY DEF Page, Between
  <2>2. Cardinality(Page(limit, offset)) = limit
    BY <1>0, <1>1, <2>1, Exactly
  <2>3. Page(limit, offset) # {}
    BY <2>2, FS_EmptySet
  <2> QED
    BY <1>0, <1>1, <2>1, <2>2, <2>3
<1>2. CASE n < offset + limit
  <2>1. Page(limit, offset) = Between(offset, n)
    BY <1>0, <1>2, Ranks DEF Page, Between
  <2>2. Cardinality(Page(limit, offset)) = n - offset
    BY <1>0, <2>1, Exactly
  <2>3. Page(limit, offset) = {} => Cardinality(Page(limit, offset)) = 0
    BY FS_EmptySet
  <2> QED
    BY <1>0, <2>1, <2>2, <2>3
<1> QED
  BY <1>0, <1>1, <1>2

LEMMA InitInv == Init => IInv
<1> SUFFICES ASSUME Init PROVE IInv
  OBVIOUS
<1>1. TypeOK /\ PagesCover
  BY PagingAssumption DEF Init, TypeOK, Walk, PagesCover
<1>2. Between(0, 0) = {}
  BY DEF Between, Init
<1>3. Cardinality(listed) = 0
  BY FS_EmptySet DEF Init
<1> QED
  BY <1>1, <1>2, <1>3 DEF Init, IInv, Covered

\* A commit moves nobody to a lower rank.
LEMMA CommitPushesBack ==
  ASSUME IInv, TypeOK', NEW i \in Id, CommitInsert(i)
  PROVE  Covered' /\ PagesCover'
<1>1. /\ listed' = listed \cup {i} /\ i \notin listed
      /\ UNCHANGED <<created, walk, atStart, shown>>
  BY DEF CommitInsert
<1>2. Cardinality(listed') = Cardinality(listed) + 1
  BY <1>1, Sets, FS_AddElement DEF IInv
<1>3. ASSUME NEW j \in listed
      PROVE  Rank(j) \in Nat /\ Rank(j)' \in Nat /\ Rank(j) <= Rank(j)'
  <2>1. Ahead(j) \in SUBSET Ahead(j)' /\ Ahead(j)' \in SUBSET listed'
    BY <1>1 DEF Ahead, Before
  <2>2. IsFiniteSet(listed')
    BY <1>1, Sets, FS_AddElement DEF IInv
  <2>3. IsFiniteSet(Ahead(j)') /\ IsFiniteSet(Ahead(j))
    BY <2>1, <2>2, FS_Subset
  <2> QED
    BY <2>1, <2>3, FS_Subset, FS_CardinalityType DEF Rank
<1>4. Between(0, walk.offset)' \subseteq Between(0, walk.offset) \cup {i}
  <2> SUFFICES ASSUME NEW j \in listed, Rank(j)' < walk.offset
               PROVE  j \in Between(0, walk.offset)
    BY <1>1 DEF Between
  <2>1. walk.offset \in Nat
    BY DEF IInv, TypeOK, Walk
  <2> QED
    BY <1>3, <2>1 DEF Between
<1>5. i \notin atStart
  BY <1>1 DEF IInv, TypeOK
<1>6. walk.offset <= Cardinality(listed')
  BY <1>2, Sets DEF IInv, TypeOK, Walk, Covered
<1>7. Covered'
  BY <1>1, <1>4, <1>5, <1>6 DEF Covered, IInv
<1> QED
  BY <1>1, <1>7 DEF PagesCover, IInv

\* The ranks do not depend on anything but the order of what is listed.
LEMMA SameRanks ==
  ASSUME TypeOK, listed' = listed, \A i \in listed : created'[i] = created[i],
         walk' = walk
  PROVE  Between(0, walk.offset)' = Between(0, walk.offset)
<1>1. \A i \in listed : Ahead(i)' = Ahead(i)
  BY DEF Ahead, Before
<1>2. \A i \in listed : Rank(i)' = Rank(i)
  BY <1>1 DEF Rank
<1> QED
  BY <1>2 DEF Between

LEMMA TypeStep == IInv /\ [Next]_vars => TypeOK'
<1> SUFFICES ASSUME IInv, [Next]_vars PROVE TypeOK'
  OBVIOUS
<1> USE PagingAssumption DEF IInv, TypeOK, Walk
<1>1. ASSUME NEW i \in Id, BeginInsert(i) PROVE TypeOK'
  BY <1>1 DEF BeginInsert
<1>2. ASSUME NEW i \in Id, CommitInsert(i) PROVE TypeOK'
  BY <1>2 DEF CommitInsert
<1>3. ASSUME NEW i \in Id, Analyze(i) PROVE TypeOK'
  BY <1>3 DEF Analyze
<1>4. CASE Tick
  BY <1>4 DEF Tick
<1>5. ASSUME NEW limit \in Limit, NEW offset \in {-1, 0}, Begin(limit, offset)
      PROVE  TypeOK'
  BY <1>5 DEF Begin
<1>6. CASE BadRequest
  BY <1>6 DEF BadRequest
<1>7. CASE NextPage
  <2>1. Page(PageSize(walk.limit), walk.offset) \subseteq listed
    BY DEF Page
  <2>2. walk.offset + Cardinality(Page(PageSize(walk.limit), walk.offset)) \in Nat
    BY PageIsNext, PageSizeType DEF Covered
  <2> QED
    BY <1>7, <2>1, <2>2 DEF NextPage
<1>8. CASE UNCHANGED vars
  BY <1>8 DEF vars
<1> QED
  BY <1>1, <1>2, <1>3, <1>4, <1>5, <1>6, <1>7, <1>8 DEF Next, Store, Browse

LEMMA PageCovers ==
  ASSUME IInv, NextPage
  PROVE  Covered' /\ PagesCover'
<1> DEFINE page == Page(PageSize(walk.limit), walk.offset)
           next == walk.offset + Cardinality(page)
<1>1. /\ walk.pc = "walking" /\ shown' = shown \cup page
      /\ walk' = IF page = {} THEN [walk EXCEPT !.pc = "over"]
                 ELSE [walk EXCEPT !.offset = next]
      /\ UNCHANGED <<created, listed, atStart>>
  BY DEF NextPage
<1>2. walk \in Walk /\ walk.offset \in Nat /\ walk.limit \in Int
      /\ atStart \subseteq listed
  BY DEF IInv, TypeOK, Walk
<1>3. /\ next \in Nat /\ walk.offset <= next /\ next <= Cardinality(listed)
      /\ page = Between(walk.offset, next)
      /\ page = {} => walk.offset = Cardinality(listed)
  BY <1>2, PageIsNext, PageSizeType DEF IInv, Covered
<1> HIDE DEF page, next
<1>4. \A a, b : Between(a, b)' = Between(a, b)
  BY <1>1 DEF Between, Rank, Ahead, Before
<1>5. CASE page = {}
  <2>1. walk'.offset = walk.offset /\ walk'.pc = "over" /\ shown' = shown
    BY <1>1, <1>2, <1>5 DEF Walk
  <2>2. Between(0, walk.offset) = listed
    BY <1>2, <1>3, <1>5, Ranks, Sets DEF Between, IInv
  <2>3. atStart \subseteq shown
    BY <1>2, <2>2 DEF IInv, Covered
  <2>4. (Between(0, walk.offset))' = Between(0, walk.offset)
    BY <1>4, <2>1
  <2> QED
    BY <1>1, <2>1, <2>3, <2>4 DEF IInv, Covered, PagesCover
<1>6. CASE page # {}
  <2>1. walk'.offset = next /\ walk'.pc = "walking"
    BY <1>1, <1>2, <1>6 DEF Walk
  <2>3. Between(0, next) = Between(0, walk.offset) \cup page
    BY <1>2, <1>3, Adjacent DEF IInv
  <2>4. (Between(0, walk.offset))' = Between(0, next)
    BY <1>4, <2>1
  <2> QED
    BY <1>1, <1>3, <2>1, <2>3, <2>4 DEF IInv, Covered, PagesCover
<1> QED
  BY <1>5, <1>6

LEMMA Step == IInv /\ [Next]_vars => IInv'
<1> SUFFICES ASSUME IInv, [Next]_vars PROVE IInv'
  OBVIOUS
<1>0. TypeOK' /\ TypeOK
  BY TypeStep DEF IInv
<1>1. ASSUME NEW i \in Id, BeginInsert(i) PROVE Covered' /\ PagesCover'
  <2>1. \A j \in listed : created'[j] = created[j]
    BY <1>0, <1>1 DEF BeginInsert, TypeOK
  <2>2. UNCHANGED <<listed, walk, atStart, shown>>
    BY <1>1 DEF BeginInsert
  <2> QED
    BY <1>0, <2>1, <2>2, SameRanks DEF IInv, Covered, PagesCover
<1>2. ASSUME NEW i \in Id, CommitInsert(i) PROVE Covered' /\ PagesCover'
  BY <1>0, <1>2, CommitPushesBack
<1>3. ASSUME UNCHANGED <<created, listed, walk, atStart, shown>>
      PROVE  Covered' /\ PagesCover'
  BY <1>0, <1>3, SameRanks DEF IInv, Covered, PagesCover
<1>4. ASSUME NEW limit \in Limit, NEW offset \in {-1, 0}, Begin(limit, offset)
      PROVE  Covered' /\ PagesCover'
  <2>1. /\ walk'.offset = 0 /\ walk'.pc = "walking" /\ listed' = listed
    BY <1>4 DEF Begin
  <2>2. (Between(0, walk.offset))' = {}
    <3>1. \A j \in listed' : Rank(j)' \in Nat
      BY <2>1, <1>0, Ranks, Sets, FS_Subset, FS_CardinalityType DEF Rank, Ahead
    <3> QED
      BY <2>1, <3>1 DEF Between
  <2> QED
    BY <2>1, <2>2, <1>0, Sets DEF Covered, PagesCover
<1>5. ASSUME BadRequest PROVE Covered' /\ PagesCover'
  <2>1. /\ walk'.offset = walk.offset /\ walk'.pc = "refused" /\ walk.offset = 0
        /\ UNCHANGED <<created, listed, atStart, shown>>
    BY <1>0, <1>5 DEF BadRequest, TypeOK, Walk, IInv, Covered
  <2>2. (Between(0, walk.offset))' = Between(0, walk.offset)
    BY <2>1 DEF Between, Rank, Ahead, Before
  <2> QED
    BY <2>1, <2>2 DEF IInv, Covered, PagesCover
<1>6. ASSUME NextPage PROVE Covered' /\ PagesCover'
  BY <1>6, PageCovers
<1>7. Covered' /\ PagesCover'
  BY <1>1, <1>2, <1>3, <1>4, <1>5, <1>6
  DEF Next, Store, Browse, Analyze, Tick, vars
<1> QED
  BY <1>0, <1>7 DEF IInv

\* The invariant behind the three theorems about pages.
THEOREM Invariant == Spec => []IInv
<1>1. Init => IInv
  BY InitInv
<1>2. IInv /\ [Next]_vars => IInv'
  BY Step
<1> QED
  BY <1>1, <1>2, PTL DEF Spec

\* Walks cover the list: see PagesCover, which is about Service.List and
\* ListIncidents against CreateIncident and FinishInvestigation.
THEOREM WalksCover == Spec => []PagesCover
<1>1. IInv => PagesCover
  BY DEF IInv
<1> QED
  BY <1>1, Invariant, PTL

\* The type invariant.
THEOREM TypeCorrect == Spec => []TypeOK
<1>1. IInv => TypeOK
  BY DEF IInv
<1> QED
  BY <1>1, Invariant, PTL

\* Repetitions are bounded by what was created meanwhile: see RepeatsAreArrivals.
THEOREM RepeatsBounded == Spec => []RepeatsAreArrivals
<1>1. IInv => RepeatsAreArrivals
  <2> SUFFICES ASSUME IInv PROVE RepeatsAreArrivals
    OBVIOUS
  <2> DEFINE fresh == listed \ atStart
  <2>1. TypeOK /\ walk.offset \in Nat /\ walk.offset <= Cardinality(listed)
    BY DEF IInv, TypeOK, Walk, Covered
  <2>2. Cardinality(Between(0, walk.offset)) = walk.offset
    BY <2>1, Exactly
  <2>3. IsFiniteSet(shown) /\ IsFiniteSet(fresh)
    BY <2>1, Sets
  <2>4. /\ IsFiniteSet(shown \cup fresh)
        /\ Cardinality(shown \cup fresh) =
              Cardinality(shown) + Cardinality(fresh) - Cardinality(shown \cap fresh)
    <3> HIDE DEF fresh
    <3> QED
      BY <2>3, FS_Union
  <2>5. Between(0, walk.offset) \in SUBSET (shown \cup fresh)
    BY DEF IInv, Covered
  <2>6. Cardinality(Between(0, walk.offset)) <= Cardinality(shown \cup fresh)
    <3> HIDE DEF fresh
    <3> QED
      BY <2>4, <2>5, FS_Subset
  <2>7. IsFiniteSet(shown \cap fresh)
    BY <2>3, FS_Subset
  <2>8. /\ Cardinality(shown) \in Nat /\ Cardinality(fresh) \in Nat
        /\ Cardinality(shown \cap fresh) \in Nat
    <3> HIDE DEF fresh
    <3> QED
      BY <2>3, <2>7, FS_CardinalityType
  <2> QED
    BY <2>1, <2>2, <2>4, <2>6, <2>8 DEF RepeatsAreArrivals
<1> QED
  BY <1>1, Invariant, PTL

-----------------------------------------------------------------------------
\* WebUi.  A request knows the mount of the view that sent it, and mounts are
\* never used again: so the requests of the view on show are all about the
\* selected incident, and there is at most one report and one investigation
\* among them.

Message == [id : Nat, kind : {"incident", "report", "create", "investigate"}, of : Incident,
            mount : Nat, state : {"sent", "begun", "ok", "failed", "analysis_failed"}, n : Nat]

View == [of : Incident \cup {NoIncident}, analyzed : BOOLEAN,
         record : [of : Incident \cup {NoIncident}, n : Nat],
         running : BOOLEAN, reported : BOOLEAN, crossing : BOOLEAN, best : Nat]

UiTypes ==
    /\ exists \subseteq Incident
    /\ started \in [Incident -> Nat] /\ latest \in [Incident -> Nat]
    /\ elsewhere \in [Incident -> SUBSET Nat]
    /\ flight \subseteq Message /\ sent \in Nat
    /\ selected \in Incident \cup {NoIncident}
    /\ mount \in Nat /\ view \in View

\* No request is younger than the view on show; those of this view are about
\* the selected incident, and each of these two kinds is under way only once.
Own ==
    /\ \A q \in flight : q.mount <= mount
    /\ \A q \in flight : Lives(q) /\ q.kind # "create" => q.of = selected
    /\ \A kind \in {"report", "investigate"} : \A q, r \in flight :
         Lives(q) /\ Lives(r) /\ q.kind = kind /\ r.kind = kind => q = r

\* The report that a view asked for on mounting is answered only once.
ReportedOnce == view.reported => \A q \in flight : Lives(q) => q.kind # "report"

\* Every number stands for an investigation that was started.
Numbered ==
    /\ \A i \in Incident : latest[i] <= started[i] /\ \A n \in elsewhere[i] : n <= started[i]
    /\ \A q \in flight : q.n <= started[q.of]
    /\ selected \in Incident => view.best <= started[selected]

\* The numbers with which this view's investigation may come to be shown.
Begun == {"begun", "ok", "analysis_failed"}

\* It is newer than all that was shown, unless a report came in between.
Newer ==
    \A q \in flight : Lives(q) /\ q.kind = "investigate" /\ q.state \in Begun =>
        view.best < q.n \/ view.crossing

UiInv ==
    /\ UiTypes /\ Own /\ ReportedOnce /\ Numbered /\ Newer
    /\ ShownBelongsToSelected
    /\ SpinnerTellsTruth

\* What a new request looks like.
LEMMA Requested ==
  ASSUME NEW kind \in {"incident", "report", "create", "investigate"}, NEW i \in Incident,
         NEW id \in Nat, NEW m \in Nat
  PROVE  /\ Request(kind, i, id, m) \in Message
         /\ Request(kind, i, id, m).kind = kind /\ Request(kind, i, id, m).of = i
         /\ Request(kind, i, id, m).mount = m /\ Request(kind, i, id, m).state = "sent"
         /\ Request(kind, i, id, m).n = 0
BY DEF Request, Message

LEMMA Empty ==
  /\ EmptyView \in View /\ EmptyView.of = NoIncident /\ EmptyView.record.of = NoIncident
  /\ ~EmptyView.running /\ ~EmptyView.reported /\ EmptyView.best = 0
BY DEF EmptyView, View

LEMMA UiStart == UiInit => UiInv
<1> SUFFICES ASSUME UiInit PROVE UiInv
  OBVIOUS
<1>1. /\ started = [i \in Incident |-> 0] /\ latest = [i \in Incident |-> 0]
      /\ elsewhere = [i \in Incident |-> {}] /\ exists \subseteq Incident
      /\ sent = 2 /\ mount = 0
      /\ selected \in Incident \cup {NoIncident} /\ view = EmptyView
  BY WebUiAssumption DEF UiInit
<1>2. \A q \in flight : /\ q \in Message /\ q.mount = 0 /\ q.of = selected
                        /\ q.kind \in {"incident", "report"} /\ q.state = "sent" /\ q.n = 0
  <2>1. CASE selected = NoIncident
    BY <2>1 DEF UiInit
  <2>2. CASE selected \in Incident
    <3>1. /\ flight = {Request("incident", selected, 1, 0), Request("report", selected, 2, 0)}
      BY <2>2, WebUiAssumption DEF UiInit
    <3>2. \A kind \in {"incident", "report"}, id \in {1, 2} :
            LET q == Request(kind, selected, id, 0)
            IN  /\ q \in Message /\ q.mount = 0 /\ q.of = selected /\ q.kind = kind
                /\ q.state = "sent" /\ q.n = 0
      BY <2>2, Requested
    <3> QED BY <3>1, <3>2
  <2> QED BY <1>1, <2>1, <2>2
<1>3. \A q, r \in flight : q.kind = "report" /\ r.kind = "report" => q = r
  <2>1. CASE selected = NoIncident
    BY <2>1 DEF UiInit
  <2>2. CASE selected \in Incident
    BY <2>2, Requested, WebUiAssumption DEF UiInit
  <2> QED BY <1>1, <2>1, <2>2
<1>4. UiTypes
  BY <1>1, <1>2, Empty DEF UiTypes
<1>5. Own
  BY <1>1, <1>2, <1>3 DEF Own, Lives
<1>6. ReportedOnce /\ ShownBelongsToSelected /\ SpinnerTellsTruth
  BY <1>1, <1>2, Empty DEF ReportedOnce, ShownBelongsToSelected, SpinnerTellsTruth
<1>7. Numbered
  BY <1>1, <1>2, Empty DEF Numbered, Message
<1>8. Newer
  BY <1>2 DEF Newer
<1> QED BY <1>4, <1>5, <1>6, <1>7, <1>8 DEF UiInv

\* The selection moves on, and with another incident comes another view.
LEMMA ShowKeeps ==
  ASSUME UiInv, NEW i \in Incident, NEW rest \in SUBSET flight, Show(i, rest),
         \A q \in flight \ rest : q.kind = "create", UNCHANGED server
  PROVE  UiInv'
<1>0. /\ UiTypes /\ Own /\ ReportedOnce /\ Numbered /\ Newer
      /\ ShownBelongsToSelected /\ SpinnerTellsTruth
      /\ UNCHANGED <<exists, started, latest, elsewhere>> /\ selected' = i
  BY DEF UiInv, server, runs, Show
<1>1. CASE i = selected
  <2>1. flight' = rest /\ UNCHANGED <<sent, mount, view, selected>>
    BY <1>1, <1>0 DEF Show
  <2>2. UiTypes'
    BY <1>0, <2>1 DEF UiTypes
  <2>3. Own' /\ ReportedOnce' /\ Numbered' /\ Newer' /\ ShownBelongsToSelected'
    BY <1>0, <2>1 DEF Own, ReportedOnce, Numbered, Newer, ShownBelongsToSelected, Lives
  <2>4. SpinnerTellsTruth'
    BY <1>0, <2>1 DEF SpinnerTellsTruth
  <2> QED BY <2>2, <2>3, <2>4 DEF UiInv
<1>2. CASE i # selected
  <2> DEFINE first == Request("incident", i, sent + 1, mount')
             second == Request("report", i, sent + 2, mount')
  <2>1. /\ sent' = sent + 2 /\ mount' = mount + 1 /\ view' = EmptyView
        /\ flight' = rest \cup {first, second}
    BY <1>2 DEF Show
  <2>2. mount \in Nat /\ mount' \in Nat /\ sent \in Nat /\ sent' \in Nat
    BY <1>0, <2>1 DEF UiTypes
  <2>3. /\ first \in Message /\ first.kind = "incident" /\ first.of = i
        /\ first.mount = mount' /\ first.state = "sent" /\ first.n = 0
        /\ second \in Message /\ second.kind = "report" /\ second.of = i
        /\ second.mount = mount' /\ second.state = "sent" /\ second.n = 0
    BY <2>2, Requested
  <2>4. \A q \in rest : q \in Message /\ q.mount <= mount /\ q.mount # mount'
    BY <1>0, <2>1, <2>2 DEF UiTypes, Own, Message
  <2> HIDE DEF first, second
  <2>5. UiTypes'
    BY <1>0, <2>1, <2>2, <2>3, <2>4, Empty DEF UiTypes
  <2>6. \A q \in flight' : Lives(q)' => q \in {first, second}
    BY <2>1, <2>4 DEF Lives
  <2>7. Own'
    <3>1. \A q \in flight' : q.mount <= mount'
      <4>1. \A q \in rest : q.mount <= mount'
        BY <2>1, <2>2, <2>4 DEF Message
      <4> QED BY <2>1, <2>2, <2>3, <4>1
    <3> QED BY <1>0, <2>3, <2>6, <3>1 DEF Own
  <2>8. ReportedOnce' /\ Newer' /\ ShownBelongsToSelected'
    BY <1>0, <2>1, <2>3, <2>6, Empty DEF ReportedOnce, Newer, ShownBelongsToSelected, UiTypes
  <2>10. Numbered'
    <3>1. \A j \in Incident : started[j] \in Nat
      BY <1>0 DEF UiTypes
    <3> QED BY <1>0, <2>1, <2>3, <3>1, Empty DEF Numbered
  <2>9. SpinnerTellsTruth'
    BY <2>1, <2>3, <2>4, Empty DEF SpinnerTellsTruth
  <2> QED BY <2>5, <2>7, <2>8, <2>9, <2>10 DEF UiInv
<1> QED BY <1>1, <1>2

\* A request is sent by the view on show, not the one for its report.
LEMMA SendKeeps ==
  ASSUME UiInv, NEW kind \in {"create", "investigate"}, NEW i \in Incident,
         flight' = flight \cup {Request(kind, i, sent + 1, mount)}, sent' = sent + 1,
         UNCHANGED <<server, selected, mount>>,
         kind = "investigate" => i = selected /\ ~view.running
                                 /\ view' = [view EXCEPT !.running = TRUE],
         kind = "create" => view' = view
  PROVE  UiInv'
<1>0. /\ UiTypes /\ Own /\ ReportedOnce /\ Numbered /\ Newer
      /\ ShownBelongsToSelected /\ SpinnerTellsTruth
      /\ UNCHANGED <<exists, started, latest, elsewhere>>
  BY DEF UiInv, server, runs
<1> DEFINE new == Request(kind, i, sent + 1, mount)
<1>1. sent \in Nat /\ sent' \in Nat /\ mount \in Nat
  BY <1>0 DEF UiTypes
<1>2. /\ new \in Message /\ new.kind = kind /\ new.of = i /\ new.mount = mount /\ new.state = "sent"
      /\ new.n = 0
  BY <1>1, Requested
<1>3. flight' = flight \cup {new}
  OBVIOUS
<1> HIDE DEF new
<1>4. /\ view' \in View /\ view'.of = view.of /\ view'.record = view.record
      /\ view'.reported = view.reported /\ view'.best = view.best
      /\ view'.crossing = view.crossing
      /\ IF kind = "investigate" THEN view'.running ELSE view'.running = view.running
  <2>1. view \in View
    BY <1>0 DEF UiTypes
  <2> QED BY <2>1 DEF View
<1>5. UiTypes'
  BY <1>0, <1>1, <1>2, <1>3, <1>4 DEF UiTypes
<1>6. Own'
  <2>1. kind = "investigate" => \A q \in flight : Lives(q) => q.kind # "investigate"
    BY <1>0 DEF SpinnerTellsTruth, Lives
  <2> QED BY <1>0, <1>1, <1>2, <1>3, <2>1 DEF Own, Lives
<1>7. ReportedOnce' /\ Newer' /\ ShownBelongsToSelected'
  BY <1>0, <1>2, <1>3, <1>4 DEF ReportedOnce, Newer, Begun, ShownBelongsToSelected, Lives
<1>8. SpinnerTellsTruth'
  BY <1>0, <1>2, <1>3, <1>4 DEF SpinnerTellsTruth
<1>9. Numbered'
  <2>1. \A j \in Incident : started[j] \in Nat
    BY <1>0 DEF UiTypes
  <2> QED BY <1>0, <1>2, <1>3, <1>4, <2>1 DEF Numbered
<1> QED BY <1>5, <1>6, <1>7, <1>8, <1>9 DEF UiInv

\* What the server makes of q is what q was, with a state and a number.
LEMMA AnsweredStep ==
  ASSUME UiTypes, NEW q \in flight, NEW n \in Nat,
         NEW state \in {"begun", "ok", "failed", "analysis_failed"}, Answered(q, state, n)
  PROVE  \E a \in Message : /\ flight' = (flight \ {q}) \cup {a}
                            /\ a.kind = q.kind /\ a.of = q.of /\ a.mount = q.mount
                            /\ a.state = state /\ a.n = n
<1> DEFINE a == [q EXCEPT !.state = state, !.n = n]
<1>1. q \in Message
  BY DEF UiTypes
<1>2. flight' = (flight \ {q}) \cup {a}
  BY DEF Answered
<1>3. /\ a \in Message /\ a.kind = q.kind /\ a.of = q.of /\ a.mount = q.mount
      /\ a.state = state /\ a.n = n
  BY <1>1 DEF Message
<1> HIDE DEF a
<1> QED BY <1>2, <1>3

\* A started investigation has the next number.
LEMMA StartStep ==
  ASSUME UiTypes, NEW i \in Incident, Start(i)
  PROVE  /\ started' \in [Incident -> Nat] /\ started'[i] = started[i] + 1
         /\ \A j \in Incident : started[j] <= started'[j]
BY DEF UiTypes, Start

LEMMA CompleteStep ==
  ASSUME UiTypes, Numbered, NEW i \in Incident, NEW n \in Nat, n <= started[i], Complete(i, n)
  PROVE  latest' \in [Incident -> Nat] /\ \A j \in Incident : latest'[j] <= started[j]
BY DEF UiTypes, Numbered, Complete

\* What a step of the server does to q and to its own numbers.
LEMMA ServeStep ==
  ASSUME UiTypes, Numbered, NEW q \in flight, Serve(q)
  PROVE  /\ exists' \subseteq Incident /\ started' \in [Incident -> Nat]
         /\ latest' \in [Incident -> Nat] /\ elsewhere' \in [Incident -> SUBSET Nat]
         /\ \A j \in Incident : /\ started[j] <= started'[j] /\ latest'[j] <= started'[j]
                                /\ \A n \in elsewhere'[j] : n <= started'[j]
         /\ \E a \in Message :
              /\ flight' = (flight \ {q}) \cup {a}
              /\ a.kind = q.kind /\ a.of = q.of /\ a.mount = q.mount /\ a.n <= started'[a.of]
              /\ a.kind = "investigate" /\ a.state \in Begun =>
                   \/ q.state = "begun" /\ a.n = q.n
                   \/ a.n = started[a.of] + 1
<1>0. /\ q \in Message /\ q.of \in Incident /\ q.n \in Nat /\ q.n <= started[q.of]
      /\ exists \subseteq Incident /\ started \in [Incident -> Nat]
      /\ latest \in [Incident -> Nat] /\ elsewhere \in [Incident -> SUBSET Nat]
      /\ \A j \in Incident : /\ started[j] \in Nat /\ latest[j] \in Nat /\ latest[j] <= started[j]
                             /\ \A n \in elsewhere[j] : n \in Nat /\ n <= started[j]
  BY DEF UiTypes, Numbered, Message
<1>1. CASE BeginInvestigation(q)
  <2>1. /\ started' \in [Incident -> Nat] /\ started'[q.of] = started[q.of] + 1
        /\ \A j \in Incident : started'[j] \in Nat /\ started[j] <= started'[j]
        /\ UNCHANGED <<exists, latest, elsewhere>>
    BY <1>0, <1>1, StartStep DEF BeginInvestigation
  <2>2. Answered(q, "begun", started'[q.of])
    BY <1>1 DEF BeginInvestigation
  <2>3. PICK a \in Message : /\ flight' = (flight \ {q}) \cup {a}
                             /\ a.kind = q.kind /\ a.of = q.of /\ a.mount = q.mount
                             /\ a.n = started'[q.of]
    BY <1>0, <2>1, <2>2, AnsweredStep
  <2>4. \A j \in Incident : /\ latest'[j] <= started'[j]
                            /\ \A n \in elsewhere'[j] : n <= started'[j]
    BY <1>0, <2>1
  <2> QED BY <1>0, <2>1, <2>3, <2>4
<1>2. CASE EndInvestigation(q)
  <2>1. /\ q.state = "begun" /\ UNCHANGED <<exists, started, elsewhere>>
        /\ Complete(q.of, q.n) \/ UNCHANGED latest
    BY <1>2 DEF EndInvestigation
  <2>2. latest' \in [Incident -> Nat] /\ \A j \in Incident : latest'[j] <= started[j]
    BY <1>0, <2>1, CompleteStep
  <2>3. PICK state \in {"ok", "failed", "analysis_failed"} : Answered(q, state, q.n)
    BY <1>2 DEF EndInvestigation
  <2>4. PICK a \in Message : /\ flight' = (flight \ {q}) \cup {a}
                             /\ a.kind = q.kind /\ a.of = q.of /\ a.mount = q.mount
                             /\ a.n = q.n
    BY <1>0, <2>3, AnsweredStep
  <2> QED BY <1>0, <2>1, <2>2, <2>4
<1>3. CASE LoseInvestigation(q)
  <2>1. /\ UNCHANGED <<exists, started, latest>> /\ Answered(q, "failed", q.n)
        /\ elsewhere' = [elsewhere EXCEPT ![q.of] = @ \cup {q.n}]
    BY <1>3 DEF LoseInvestigation
  <2>2. /\ elsewhere' \in [Incident -> SUBSET Nat]
        /\ \A j \in Incident : \A n \in elsewhere'[j] : n <= started[j]
    BY <1>0, <2>1
  <2>3. PICK a \in Message : /\ flight' = (flight \ {q}) \cup {a}
                             /\ a.kind = q.kind /\ a.of = q.of /\ a.mount = q.mount
                             /\ a.state = "failed" /\ a.n = q.n
    BY <1>0, <2>1, AnsweredStep
  <2> QED BY <1>0, <2>1, <2>2, <2>3 DEF Begun
<1>4. CASE ServeCreate(q)
  <2>1. /\ exists' \subseteq Incident /\ UNCHANGED <<started, latest, elsewhere>>
        /\ q.kind = "create"
    BY <1>0, <1>4 DEF ServeCreate, runs
  <2>2. PICK state \in {"ok", "failed"} : Answered(q, state, 0)
    BY <1>4 DEF ServeCreate
  <2>3. PICK a \in Message : /\ flight' = (flight \ {q}) \cup {a}
                             /\ a.kind = q.kind /\ a.of = q.of /\ a.mount = q.mount /\ a.n = 0
    BY <2>2, AnsweredStep
  <2> QED BY <1>0, <2>1, <2>3
<1>5. CASE ServeAsIs(q)
  <2>1. UNCHANGED <<exists, started, latest, elsewhere>>
    BY <1>5 DEF ServeAsIs, server, runs
  <2>2. PICK state \in {"ok", "failed"}, n \in {0, latest[q.of]} :
          Answered(q, state, n) /\ (state = "ok" => q.kind # "investigate")
    BY <1>5 DEF ServeAsIs
  <2>3. n \in Nat /\ n <= started[q.of]
    BY <1>0
  <2>4. PICK a \in Message : /\ flight' = (flight \ {q}) \cup {a}
                             /\ a.kind = q.kind /\ a.of = q.of /\ a.mount = q.mount
                             /\ a.state = state /\ a.n = n
    BY <2>2, <2>3, AnsweredStep
  <2> QED BY <1>0, <2>1, <2>2, <2>3, <2>4 DEF Begun
<1> QED BY <1>1, <1>2, <1>3, <1>4, <1>5 DEF Serve

LEMMA ServeKeeps ==
  ASSUME UiInv, NEW q \in flight, Serve(q)
  PROVE  UiInv'
<1>0. /\ UiTypes /\ Own /\ ReportedOnce /\ Numbered /\ Newer
      /\ ShownBelongsToSelected /\ SpinnerTellsTruth
      /\ UNCHANGED <<sent, selected, mount, view, busy>>
  BY DEF UiInv, Serve
<1>1. /\ exists' \subseteq Incident /\ started' \in [Incident -> Nat]
      /\ latest' \in [Incident -> Nat] /\ elsewhere' \in [Incident -> SUBSET Nat]
      /\ \A j \in Incident : /\ started[j] <= started'[j] /\ latest'[j] <= started'[j]
                             /\ \A n \in elsewhere'[j] : n <= started'[j]
  BY <1>0, ServeStep
<1>2. PICK a \in Message :
        /\ flight' = (flight \ {q}) \cup {a}
        /\ a.kind = q.kind /\ a.of = q.of /\ a.mount = q.mount /\ a.n <= started'[a.of]
        /\ a.kind = "investigate" /\ a.state \in Begun =>
             \/ q.state = "begun" /\ a.n = q.n
             \/ a.n = started[a.of] + 1
  BY <1>0, ServeStep
<1>3. UiTypes'
  BY <1>0, <1>1, <1>2 DEF UiTypes
<1>4. Own'
  BY <1>0, <1>2 DEF Own, Lives
<1>5. ReportedOnce' /\ ShownBelongsToSelected'
  BY <1>0, <1>2 DEF ReportedOnce, ShownBelongsToSelected, Lives
<1>6. SpinnerTellsTruth'
  BY <1>0, <1>2 DEF SpinnerTellsTruth
<1>7. Numbered'
  <2>1. /\ view.best \in Nat /\ \A p \in flight : p.of \in Incident /\ p.n \in Nat
        /\ \A j \in Incident : started[j] \in Nat /\ started'[j] \in Nat
    BY <1>0, <1>1 DEF UiTypes, View, Message
  <2>2. \A p \in flight' : p.n <= started'[p.of]
    BY <1>0, <1>1, <1>2, <2>1 DEF Numbered
  <2>3. selected \in Incident => view.best <= started'[selected]
    BY <1>0, <1>1, <2>1 DEF Numbered
  <2> QED BY <1>0, <1>1, <2>2, <2>3 DEF Numbered
<1>8. Newer'
  <2>1. ASSUME a.mount = mount, a.kind = "investigate", a.state \in Begun
        PROVE  view.best < a.n \/ view.crossing
    <3>1. q \in flight /\ Lives(q) /\ q.kind = "investigate" /\ q.of = selected
          /\ selected \in Incident /\ view.best \in Nat /\ started[selected] \in Nat
      BY <1>0, <1>2, <2>1 DEF Own, Lives, UiTypes, View, Message
    <3>2. CASE q.state = "begun" /\ a.n = q.n
      BY <1>0, <3>1, <3>2 DEF Newer, Begun
    <3>3. CASE a.n = started[a.of] + 1
      BY <1>0, <1>2, <3>1, <3>3 DEF Numbered
    <3> QED BY <1>2, <2>1, <3>2, <3>3
  <2> QED BY <1>0, <1>2, <2>1 DEF Newer, Lives
<1> QED BY <1>3, <1>4, <1>5, <1>6, <1>7, <1>8 DEF UiInv

\* Other clients start investigations and complete them; nothing here changes.
LEMMA ElsewhereKeeps ==
  ASSUME UiInv, NEW i \in Incident, ElsewhereBegins(i) \/ ElsewhereEnds(i)
  PROVE  UiInv'
<1>0. /\ UiTypes /\ Own /\ ReportedOnce /\ Numbered /\ Newer
      /\ ShownBelongsToSelected /\ SpinnerTellsTruth
      /\ UNCHANGED <<exists, flight, sent, selected, mount, view>>
  BY DEF UiInv, ElsewhereBegins, ElsewhereEnds
<1>1. /\ started \in [Incident -> Nat] /\ latest \in [Incident -> Nat]
      /\ elsewhere \in [Incident -> SUBSET Nat]
      /\ \A j \in Incident : /\ started[j] \in Nat /\ latest[j] <= started[j]
                             /\ \A n \in elsewhere[j] : n \in Nat /\ n <= started[j]
  BY <1>0 DEF UiTypes, Numbered
<1>2. /\ started' \in [Incident -> Nat] /\ latest' \in [Incident -> Nat]
      /\ elsewhere' \in [Incident -> SUBSET Nat]
      /\ \A j \in Incident : /\ started[j] <= started'[j] /\ latest'[j] <= started'[j]
                             /\ \A n \in elsewhere'[j] : n <= started'[j]
  <2>1. CASE ElsewhereBegins(i)
    <3>1. /\ UNCHANGED latest
          /\ elsewhere' = [elsewhere EXCEPT ![i] = @ \cup {started'[i]}]
          /\ started' \in [Incident -> Nat]
          /\ \A j \in Incident : started'[j] \in Nat /\ started[j] <= started'[j]
      BY <1>0, <2>1, StartStep DEF ElsewhereBegins
    <3>2. latest' \in [Incident -> Nat] /\ \A j \in Incident : latest'[j] <= started'[j]
      BY <1>0, <1>1, <3>1 DEF UiTypes
    <3>3. elsewhere' \in [Incident -> SUBSET Nat]
      BY <1>1, <3>1
    <3>4. ASSUME NEW j \in Incident, NEW n \in elsewhere'[j]
          PROVE  n <= started'[j]
      <4>1. n \in elsewhere[j] \/ (j = i /\ n = started'[i])
        BY <1>1, <3>1, <3>4
      <4> QED BY <1>1, <3>1, <4>1
    <3> QED BY <3>1, <3>2, <3>3, <3>4
  <2>2. CASE ElsewhereEnds(i)
    <3>1. PICK n \in elsewhere[i] : /\ elsewhere' = [elsewhere EXCEPT ![i] = @ \ {n}]
                                    /\ Complete(i, n) \/ UNCHANGED latest
      BY <2>2 DEF ElsewhereEnds
    <3>2. UNCHANGED started
      BY <2>2 DEF ElsewhereEnds
    <3>3. n \in Nat /\ n <= started[i]
      BY <1>1, <3>1
    <3>4. latest' \in [Incident -> Nat] /\ \A j \in Incident : latest'[j] <= started[j]
      BY <1>0, <1>1, <3>1, <3>3, CompleteStep
    <3>5. /\ elsewhere' \in [Incident -> SUBSET Nat]
          /\ \A j \in Incident : elsewhere'[j] \subseteq elsewhere[j]
      BY <1>1, <3>1
    <3> QED BY <1>1, <3>2, <3>4, <3>5
  <2> QED BY <2>1, <2>2
<1>3. UiTypes'
  BY <1>0, <1>2 DEF UiTypes
<1>4. Own' /\ ReportedOnce' /\ Newer' /\ ShownBelongsToSelected' /\ SpinnerTellsTruth'
  BY <1>0 DEF Own, ReportedOnce, Newer, ShownBelongsToSelected, SpinnerTellsTruth, Lives
<1>5. Numbered'
  <2>1. /\ view.best \in Nat /\ \A p \in flight : p.of \in Incident /\ p.n \in Nat
        /\ \A j \in Incident : started'[j] \in Nat
    BY <1>0, <1>2 DEF UiTypes, View, Message
  <2>2. \A p \in flight' : p.n <= started'[p.of]
    BY <1>0, <1>1, <1>2, <2>1 DEF Numbered
  <2>3. selected \in Incident => view.best <= started'[selected]
    BY <1>0, <1>1, <1>2, <2>1 DEF Numbered
  <2> QED BY <1>0, <1>2, <2>2, <2>3 DEF Numbered
<1> QED BY <1>3, <1>4, <1>5 DEF UiInv

\* What every answer keeps: none shows a number but its own, and a report that is
\* shown during an investigation is remembered until that one is answered.
LEMMA DeliverKeeps ==
  ASSUME UiInv, NEW q \in flight, flight' = flight \ {q},
         UNCHANGED <<server, sent, selected, mount>>, view' \in View,
         view'.of \in {selected, NoIncident}, view'.record.of \in {selected, NoIncident},
         view'.running <=> view.running /\ ~(Lives(q) /\ q.kind = "investigate"),
         view'.reported => view.reported \/ (Lives(q) /\ q.kind = "report"),
         view'.best = view.best \/ (Lives(q) /\ q.kind # "create" /\ view'.best = q.n),
         \/ view'.best = view.best /\ view'.crossing = view.crossing
         \/ view'.crossing = view.running
         \/ Lives(q) /\ q.kind = "investigate"
  PROVE  UiInv'
<1>0. /\ UiTypes /\ Own /\ ReportedOnce /\ Numbered /\ Newer
      /\ ShownBelongsToSelected /\ SpinnerTellsTruth
      /\ UNCHANGED <<exists, started, latest, elsewhere>>
  BY DEF UiInv, server, runs
<1>1. UiTypes' /\ Own' /\ ShownBelongsToSelected'
  BY <1>0 DEF UiTypes, Own, ShownBelongsToSelected, Lives
<1>2. ReportedOnce'
  BY <1>0 DEF ReportedOnce, Own, Lives
<1>3. SpinnerTellsTruth'
  <2>1. (\E p \in flight' : p.kind = "investigate" /\ p.mount = mount')
          <=> (\E p \in flight : p.kind = "investigate" /\ p.mount = mount)
              /\ ~(q.kind = "investigate" /\ q.mount = mount)
    BY <1>0 DEF Own, Lives
  <2> QED BY <1>0, <2>1 DEF SpinnerTellsTruth, Lives
<1>4. Numbered'
  <2>1. Lives(q) /\ q.kind # "create" => q.of = selected /\ q.n <= started[selected]
    BY <1>0 DEF Own, Numbered
  <2> QED BY <1>0, <2>1 DEF Numbered
<1>5. Newer'
  <2> SUFFICES ASSUME NEW p \in flight, p # q, p.mount = mount, p.kind = "investigate",
                      p.state \in Begun
               PROVE  view'.best < p.n \/ view'.crossing
    BY <1>0 DEF Newer, Lives
  <2>1. view.running /\ (view.best < p.n \/ view.crossing)
    BY <1>0 DEF SpinnerTellsTruth, Newer, Lives
  <2>2. ~(Lives(q) /\ q.kind = "investigate")
    BY <1>0 DEF Own, Lives
  <2> QED BY <2>1, <2>2
<1> QED BY <1>1, <1>2, <1>3, <1>4, <1>5 DEF UiInv

LEMMA DeliverIncidentKeeps ==
  ASSUME UiInv, NEW q \in flight, DeliverIncident(q)
  PROVE  UiInv'
<1>1. /\ q \in Message /\ view \in View /\ q.kind = "incident" /\ flight' = flight \ {q}
      /\ UNCHANGED <<server, sent, selected, mount>>
      /\ view' = IF Lives(q) /\ q.state = "ok"
                 THEN [view EXCEPT !.of = q.of, !.analyzed = q.n > 0] ELSE view
      /\ ShownBelongsToSelected
  BY DEF DeliverIncident, UiInv, UiTypes
<1>2. CASE view' = view
  BY <1>1, <1>2, DeliverKeeps DEF ShownBelongsToSelected
<1>3. CASE Lives(q) /\ view' = [view EXCEPT !.of = q.of, !.analyzed = q.n > 0]
  <2>1. q.of = selected /\ q.of \in Incident
    BY <1>1, <1>3 DEF UiInv, Own, Message
  <2>2. ASSUME NEW b \in BOOLEAN, NEW w, w = [view EXCEPT !.of = q.of, !.analyzed = b]
        PROVE  /\ w \in View /\ w.of = q.of /\ w.record = view.record
               /\ w.running = view.running /\ w.reported = view.reported
               /\ w.best = view.best /\ w.crossing = view.crossing
    BY <1>1, <2>1, <2>2 DEF View
  <2>3. (q.n > 0) \in BOOLEAN
    OBVIOUS
  <2>4. /\ view' \in View /\ view'.of = q.of /\ view'.record = view.record
        /\ view'.running = view.running /\ view'.reported = view.reported
        /\ view'.best = view.best /\ view'.crossing = view.crossing
    BY <1>3, <2>2, <2>3
  <2> QED BY <1>1, <2>1, <2>4, DeliverKeeps DEF ShownBelongsToSelected
<1> QED BY <1>1, <1>2, <1>3

\* What the view is when q's number has been put on show.
LEMMA ToldStep ==
  ASSUME UiInv, NEW q \in flight, Lives(q), q.kind \in {"report", "investigate"},
         NEW told, told = Told(q.of, q.n)
  PROVE  /\ told \in View /\ told.of = view.of /\ told.record = [of |-> q.of, n |-> q.n]
         /\ q.of = selected
         /\ told.running = view.running /\ told.reported = view.reported
         /\ told.crossing = view.crossing
         /\ told.best = view.best \/ told.best = q.n
<1>1. /\ view \in View /\ q.of = selected /\ q.of \in Incident /\ q.n \in Nat
      /\ view.best \in Nat
  BY DEF UiInv, UiTypes, Own, Message, View
<1>2. ASSUME NEW b \in Nat, NEW r \in [of : Incident \cup {NoIncident}, n : Nat],
             told = [view EXCEPT !.record = r, !.best = b]
      PROVE  /\ told \in View /\ told.of = view.of /\ told.record = r
             /\ told.running = view.running /\ told.reported = view.reported
             /\ told.crossing = view.crossing /\ told.best = b
  <2>1. view \in View
    BY <1>1
  <2> QED BY <2>1, <1>2 DEF View
<1>5. [of |-> q.of, n |-> q.n] \in [of : Incident \cup {NoIncident}, n : Nat]
  BY <1>1
<1>3. CASE q.n > view.best
  BY <1>1, <1>2, <1>3, <1>5 DEF Told
<1>4. CASE ~(q.n > view.best)
  BY <1>1, <1>2, <1>4, <1>5 DEF Told
<1> QED BY <1>3, <1>4

LEMMA DeliverReportKeeps ==
  ASSUME UiInv, NEW q \in flight, DeliverReport(q)
  PROVE  UiInv'
<1>1. /\ q \in Message /\ view \in View /\ q.kind = "report" /\ flight' = flight \ {q}
      /\ UNCHANGED <<server, sent, selected, mount>>
      /\ ShownBelongsToSelected
  BY DEF DeliverReport, UiInv, UiTypes
<1>2. CASE view' = view
  BY <1>1, <1>2, DeliverKeeps DEF ShownBelongsToSelected
<1>3. CASE /\ Lives(q)
           /\ view' = [Told(q.of, q.n) EXCEPT !.reported = TRUE, !.crossing = view.running]
  <2> DEFINE told == Told(q.of, q.n)
  <2>0. /\ told \in View /\ told.of = view.of /\ told.record = [of |-> q.of, n |-> q.n]
        /\ q.of = selected /\ told.running = view.running
        /\ told.best = view.best \/ told.best = q.n
    BY <1>1, <1>3, ToldStep
  <2>1. told.record.of = selected
    BY <2>0
  <2>2. view' = [told EXCEPT !.reported = TRUE, !.crossing = view.running]
    BY <1>3
  <2>3. view.running \in BOOLEAN
    BY <1>1 DEF View
  <2> HIDE DEF told
  <2>4. /\ view' \in View /\ view'.of = view.of /\ view'.record.of = selected
        /\ view'.running = view.running /\ view'.crossing = view.running
        /\ view'.best = view.best \/ view'.best = q.n
    BY <2>0, <2>1, <2>2, <2>3 DEF View
  <2> QED BY <1>1, <1>3, <2>4, DeliverKeeps DEF ShownBelongsToSelected
<1>4. CASE Lives(q) /\ view' = [view EXCEPT !.reported = TRUE]
  <2>1. /\ view' \in View /\ view'.of = view.of /\ view'.record = view.record
        /\ view'.running = view.running /\ view'.best = view.best
        /\ view'.crossing = view.crossing
    BY <1>1, <1>4 DEF View
  <2> QED BY <1>1, <1>4, <2>1, DeliverKeeps DEF ShownBelongsToSelected
<1> QED BY <1>2, <1>3, <1>4 DEF DeliverReport

\* What the view is after the answer to an investigation of its own.
LEMMA FinishedStep ==
  ASSUME UiInv, NEW q \in flight, DeliverInvestigation(q), Lives(q)
  PROVE  /\ view' \in View /\ view'.of = view.of
         /\ ~view'.running /\ view'.reported = view.reported
         /\ q.of = selected
         /\ \/ view'.record = view.record /\ view'.best = view.best
            \/ /\ q.state \in Begun /\ view'.record = [of |-> q.of, n |-> q.n]
               /\ view'.best = view.best \/ view'.best = q.n
<1> DEFINE told == Told(q.of, q.n)
           known == [told EXCEPT !.analyzed = view.of # NoIncident]
<1>1. /\ view \in View /\ q.kind = "investigate" /\ q.of = selected
      /\ view' = IF q.state = "ok" THEN Finished(q, known)
                 ELSE IF q.state = "analysis_failed" THEN Finished(q, told)
                 ELSE Finished(q, view)
  BY DEF DeliverInvestigation, UiInv, UiTypes, Own
<1>2. /\ told \in View /\ told.of = view.of /\ told.record = [of |-> q.of, n |-> q.n]
      /\ told.reported = view.reported /\ (told.best = view.best \/ told.best = q.n)
  BY <1>1, ToldStep
<1>3. ASSUME NEW v \in View
      PROVE  /\ Finished(q, v) \in View /\ ~Finished(q, v).running
             /\ Finished(q, v).of = v.of /\ Finished(q, v).record = v.record
             /\ Finished(q, v).best = v.best /\ Finished(q, v).reported = v.reported
  BY DEF Finished, View
<1> HIDE DEF told
<1>4. /\ known \in View /\ known.of = view.of /\ known.record = [of |-> q.of, n |-> q.n]
      /\ known.reported = view.reported /\ (known.best = view.best \/ known.best = q.n)
  <2>1. (view.of # NoIncident) \in BOOLEAN
    OBVIOUS
  <2> QED BY <1>2, <2>1 DEF View
<1> HIDE DEF known
<1>5. CASE q.state = "ok"
  BY <1>1, <1>3, <1>4, <1>5 DEF Begun
<1>6. CASE q.state = "analysis_failed"
  BY <1>1, <1>2, <1>3, <1>6 DEF Begun
<1>7. CASE q.state \notin {"ok", "analysis_failed"}
  BY <1>1, <1>3, <1>7
<1> QED BY <1>5, <1>6, <1>7

LEMMA DeliverInvestigationKeeps ==
  ASSUME UiInv, NEW q \in flight, DeliverInvestigation(q)
  PROVE  UiInv'
<1>1. /\ view \in View /\ q.kind = "investigate" /\ flight' = flight \ {q}
      /\ UNCHANGED <<server, sent, selected, mount>>
      /\ ShownBelongsToSelected
  BY DEF DeliverInvestigation, UiInv, UiTypes
<1>2. CASE ~Lives(q)
  <2>1. view' = view
    BY <1>2 DEF DeliverInvestigation
  <2> QED BY <1>1, <1>2, <2>1, DeliverKeeps DEF ShownBelongsToSelected
<1>3. CASE Lives(q)
  <2>1. /\ view' \in View /\ view'.of = view.of /\ ~view'.running
        /\ view'.reported = view.reported /\ view'.record.of \in {selected, NoIncident}
        /\ view'.best = view.best \/ view'.best = q.n
    <3>1. \/ view'.record = view.record
          \/ view'.record = [of |-> q.of, n |-> q.n] /\ q.of = selected
      BY <1>3, FinishedStep
    <3>2. view'.record.of \in {selected, NoIncident}
      BY <1>1, <3>1 DEF ShownBelongsToSelected
    <3> QED BY <1>3, <3>2, FinishedStep
  <2> QED BY <1>1, <1>3, <2>1, DeliverKeeps DEF ShownBelongsToSelected
<1> QED BY <1>2, <1>3

LEMMA DeliverCreatedKeeps ==
  ASSUME UiInv, NEW q \in flight, DeliverCreated(q)
  PROVE  UiInv'
<1>1. /\ q \in Message /\ view \in View /\ q.kind = "create" /\ UNCHANGED server
      /\ ShownBelongsToSelected /\ q.of \in Incident
  BY DEF DeliverCreated, UiInv, UiTypes, Message
<1>2. CASE Show(q.of, flight \ {q})
  BY <1>1, <1>2, ShowKeeps
<1>3. CASE flight' = flight \ {q} /\ UNCHANGED <<sent, selected, mount, view>>
  BY <1>1, <1>3, DeliverKeeps DEF ShownBelongsToSelected
<1> QED BY <1>2, <1>3 DEF DeliverCreated

LEMMA UiStep == UiInv /\ [UiNext]_uiVars => UiInv'
<1> SUFFICES ASSUME UiInv, [UiNext]_uiVars PROVE UiInv'
  OBVIOUS
<1>1. ASSUME NEW i \in Incident, Select(i)
      PROVE  UiInv'
  BY <1>1, ShowKeeps DEF Select
<1>2. ASSUME NEW i \in Incident, Submit(i)
      PROVE  UiInv'
  BY <1>2, SendKeeps DEF Submit
<1>3. CASE Investigate
  <2>1. selected \in Incident /\ ~view.running
    BY <1>3 DEF Investigate, CanRun, UiInv, UiTypes, ShownBelongsToSelected
  <2> QED BY <1>3, <2>1, SendKeeps DEF Investigate
<1>4. ASSUME NEW q \in flight, Deliver(q)
      PROVE  UiInv'
  BY <1>4, DeliverIncidentKeeps, DeliverReportKeeps, DeliverInvestigationKeeps,
     DeliverCreatedKeeps DEF Deliver
<1>5. CASE UNCHANGED uiVars
  BY <1>5 DEF uiVars, UiInv, UiTypes, Own, ReportedOnce, Numbered, Newer,
     ShownBelongsToSelected, SpinnerTellsTruth, Lives
<1> QED BY <1>1, <1>2, <1>3, <1>4, <1>5, ServeKeeps, ElsewhereKeeps DEF UiNext

LEMMA UiInvariant == UiSpec => []UiInv
  BY UiStart, UiStep, PTL DEF UiSpec

\* App's key={selectedId}: no answer, however late, shows up under an incident
\* it does not belong to.
THEOREM NothingForeignShown == UiSpec => []ShownBelongsToSelected
<1>1. UiInv => ShownBelongsToSelected
  BY DEF UiInv
<1> QED BY <1>1, UiInvariant, PTL

\* IncidentDetail's running: set once for each request and cleared by its answer
\* alone, whatever that is, and never left over from another view.
THEOREM SpinnerIsTrue == UiSpec => []SpinnerTellsTruth
<1>1. UiInv => SpinnerTellsTruth
  BY DEF UiInv
<1> QED BY <1>1, UiInvariant, PTL

\* IncidentDetail's record: what is on show gives way to an investigation that
\* started earlier only by the report asked for on mounting, when it arrives or
\* when an investigation was under way as it did; for any number of incidents,
\* requests and investigations, and any order of their ends and answers.
THEOREM OnlyTheReportSetsBack == UiSpec => SetBackOnlyByReport
<1> DEFINE Kept ==
      mount' = mount /\ view'.record # view.record /\ view'.record.n <= view.best
         => ~view.reported \/ view.crossing
<1>1. UiInv /\ [UiNext]_uiVars => [Kept]_uiVars
  <2> SUFFICES ASSUME UiInv, UiNext, mount' = mount, view'.record # view.record,
                      view'.record.n <= view.best
               PROVE  ~view.reported \/ view.crossing
    OBVIOUS
  <2>1. mount \in Nat /\ mount + 1 # mount /\ view \in View
    BY DEF UiInv, UiTypes
  <2>2. ASSUME NEW i \in Incident, NEW rest, Show(i, rest)
        PROVE  FALSE
    BY <2>1, <2>2 DEF Show
  <2>3. ASSUME NEW i \in Incident, Select(i) \/ Submit(i) \/ ElsewhereBegins(i) \/ ElsewhereEnds(i)
        PROVE  FALSE
    BY <2>2, <2>3 DEF Select, Submit, ElsewhereBegins, ElsewhereEnds
  <2>4. CASE Investigate
    <3>1. view'.record = view.record
      BY <2>1, <2>4 DEF Investigate, View
    <3> QED BY <3>1
  <2>5. ASSUME NEW q \in flight, Serve(q)
        PROVE  FALSE
    BY <2>5 DEF Serve
  <2>6. ASSUME NEW q \in flight, DeliverIncident(q)
        PROVE  FALSE
    <3>1. view'.record = view.record
      BY <2>1, <2>6 DEF DeliverIncident, View
    <3> QED BY <3>1
  <2>7. ASSUME NEW q \in flight, DeliverReport(q)
        PROVE  ~view.reported
    BY <2>7 DEF DeliverReport, UiInv, ReportedOnce
  <2>8. ASSUME NEW q \in flight, DeliverInvestigation(q)
        PROVE  view.crossing
    <3>1. Lives(q) /\ q.kind = "investigate"
      BY <2>8 DEF DeliverInvestigation
    <3>2. q.state \in Begun /\ view'.record = [of |-> q.of, n |-> q.n]
      BY <2>8, <3>1, FinishedStep
    <3>3. view.best < q.n \/ view.crossing
      BY <3>1, <3>2 DEF UiInv, Newer
    <3>4. view'.record.n = q.n /\ q.n \in Nat /\ view.best \in Nat
      BY <2>1, <3>2 DEF UiInv, UiTypes, Message, View
    <3> QED BY <3>3, <3>4
  <2>9. ASSUME NEW q \in flight, DeliverCreated(q)
        PROVE  FALSE
    <3>1. q.of \in Incident
      BY DEF UiInv, UiTypes, Message
    <3> QED BY <2>2, <2>9, <3>1 DEF DeliverCreated
  <2> QED BY <2>3, <2>4, <2>5, <2>6, <2>7, <2>8, <2>9 DEF UiNext, Deliver
<1>2. UiSpec => [][Kept]_uiVars
  BY <1>1, UiInvariant, PTL DEF UiSpec
<1> QED BY <1>2 DEF SetBackOnlyByReport
=============================================================================
