---------------------------- MODULE ReportsProofs ----------------------------
(***************************************************************************)
(* Reports for any numbers of records, incidents and clients.  What makes  *)
(* four statements as good as one look is that a completed investigation   *)
(* never changes: the invariant says what is stored with each status, that *)
(* what a client knows of is completed, and that what a request has read   *)
(* so far is all from the completed investigation it picked.               *)
(***************************************************************************)
EXTENDS Reports, TLAPS

StoreInv ==
    \A k \in Record :
       /\ row[k].status = "none" =>
             stored[k] = {} /\ save[k].pc = "none" /\ row[k].started = 0
       /\ row[k].status # "none" => row[k].incident \in Incident /\ row[k].started >= 1
       /\ row[k].status = "completed" => stored[k] = Part /\ save[k].pc = "ended"
       /\ row[k].status = "running" => stored[k] = {}
       /\ save[k].pc \in {"working", "saving"} =>
             stored[k] = {} /\ row[k].status \in {"running", "failed"}
       /\ stored[k] \in {{}, Part \ {"report"}, Part}

\* Some investigation of i completed that started at n or later.
Known(i, n) == n > 0 => \E k \in Completed(i) : row[k].started >= n

ToldInv == \A c \in Client, i \in Incident : Known(i, told[c][i])

\* The request r asks for a completed investigation, and not too old a one.
Picked(r) ==
    /\ r.row \in Record /\ r.incident \in Incident
    /\ row[r.row].status = "completed" /\ row[r.row].incident = r.incident
    /\ row[r.row].started >= r.floor

Sound(r) ==
    /\ r.pc = "answered" <=> r.answer # "none"
    /\ r.answer # "broken"
    /\ r.pc \in {"incident", "latest"} => r.incident \in Incident /\ Known(r.incident, r.floor)
    /\ r.pc \in {"executions", "evidence", "report"} \/ r.answer = "found" => Picked(r)
    /\ r.pc \in {"evidence", "report"} => r.parts["executions"] = r.row
    /\ r.pc = "report" => r.parts["evidence"] = r.row
    /\ r.answer = "found" => r.parts = [t \in Part |-> r.row]
    /\ r.answer = "not_found" => r.floor = 0

ReadInv == \A c \in Client : Sound(read[c])

IInv == TypeOK /\ StoreInv /\ AnalyzedHasReport /\ ToldInv /\ ReadInv

\* Completed investigations stay as they are.
Keeps == \A k \in Record : row[k].status = "completed" => row'[k] = row[k]

\* Then what was known and what was picked remain so.
LEMMA KeepsKnown ==
    ASSUME Keeps
    PROVE  /\ \A i, n : Known(i, n) => Known(i, n)'
           /\ \A r : Sound(r) => Sound(r)'
<1>1. ASSUME NEW i, NEW n, Known(i, n) PROVE Known(i, n)'
  BY <1>1 DEF Known, Completed, Keeps
<1>2. ASSUME NEW r, Picked(r) PROVE Picked(r)'
  BY <1>2 DEF Picked, Keeps
<1> QED
  BY <1>1, <1>2 DEF Sound

LEMMA InvInit == Init => IInv
<1> SUFFICES ASSUME Init PROVE IInv
  OBVIOUS
<1>1. /\ \A k \in Record : row[k] = NoRow /\ stored[k] = {} /\ save[k] = NoSave
      /\ \A c \in Client : read[c] = NoRead
      /\ \A c \in Client, i \in Incident : told[c][i] = 0
  BY DEF Init
<1>2. NoRow \in Row /\ NoSave \in Save /\ NoRead \in Read
  BY ReportsAssumption DEF NoRow, Row, NoSave, Save, NoRead, Read, NoParts
<1>3. NoSave.pc = "none" /\ NoSave.wrote = {} /\ NoRow.status = "none" /\ NoRow.started = 0
  BY DEF NoSave, NoRow
<1>4. TypeOK
  <2>1. \A k \in Record : save[k].wrote = {}
    BY <1>1, <1>3
  <2>2. row \in [Record -> Row] /\ save \in [Record -> Save] /\ read \in [Client -> Read]
    BY <1>2 DEF Init
  <2>3. /\ clock \in 1..MaxClock /\ stored \in [Record -> SUBSET Part] /\ analyzed = {}
        /\ told \in [Client -> [Incident -> 0..MaxClock]]
    BY ReportsAssumption DEF Init
  <2> QED
    BY <2>1, <2>2, <2>3 DEF TypeOK
<1>5. StoreInv
  BY <1>1, <1>3 DEF StoreInv
<1>6. AnalyzedHasReport
  BY <1>1, <1>3 DEF Init, AnalyzedHasReport
<1>7. ToldInv
  BY <1>1 DEF ToldInv, Known
<1>8. ReadInv
  BY <1>1 DEF ReadInv, Sound, NoRead
<1> QED
  BY <1>4, <1>5, <1>6, <1>7, <1>8 DEF IInv

\* A writer's step, as far as the readers are concerned.
LEMMA WriterStep ==
    ASSUME IInv, Keeps, UNCHANGED <<read, told>>,
           TypeOK', StoreInv', AnalyzedHasReport'
    PROVE  IInv'
<1>1. ToldInv'
  BY KeepsKnown DEF IInv, ToldInv
<1>2. ReadInv'
  BY KeepsKnown DEF IInv, ReadInv
<1> QED
  BY <1>1, <1>2 DEF IInv

\* A reader's step.
LEMMA ReaderStep ==
    ASSUME IInv, UNCHANGED <<clock, row, stored, analyzed, save, told>>,
           NEW c \in Client, NEW r \in Read, Becomes(c, r), Sound(r)
    PROVE  IInv'
<1>1. Keeps
  BY DEF Keeps
<1>2. TypeOK' /\ \A d \in Client : read'[d] = read[d] \/ read'[d] = r
  BY DEF IInv, TypeOK, Becomes
<1>3. ReadInv'
  BY <1>1, <1>2, KeepsKnown DEF IInv, ReadInv
<1>4. ToldInv'
  BY <1>1, KeepsKnown DEF IInv, ToldInv
<1> QED
  BY <1>2, <1>3, <1>4 DEF IInv, StoreInv, AnalyzedHasReport

\* A step by which c learns of n.
LEMMA TellStep ==
    ASSUME IInv, UNCHANGED <<clock, row, stored, analyzed, save, read>>,
           NEW c \in Client, NEW i \in Incident, NEW n \in 0..MaxClock, Known(i, n),
           told' = [told EXCEPT ![c][i] = n]
    PROVE  IInv'
<1>1. Keeps
  BY DEF Keeps
<1>2. /\ told' \in [Client -> [Incident -> 0..MaxClock]]
      /\ \A d \in Client, j \in Incident :
            told'[d][j] = told[d][j] \/ (j = i /\ told'[d][j] = n)
  BY DEF IInv, TypeOK
<1>3. TypeOK'
  BY <1>2 DEF IInv, TypeOK
<1>4. ToldInv'
  BY <1>1, <1>2, KeepsKnown DEF IInv, ToldInv
<1>5. ReadInv'
  BY <1>1, KeepsKnown DEF IInv, ReadInv
<1> QED
  BY <1>3, <1>4, <1>5 DEF IInv, StoreInv, AnalyzedHasReport

\* The steps of the call that works on k.
LEMMA WriterInv ==
    ASSUME IInv, NEW k \in Record, Writer(k)
    PROVE  IInv'
<1> USE DEF IInv
<1>0. /\ row \in [Record -> Row] /\ save \in [Record -> Save]
      /\ stored \in [Record -> SUBSET Part] /\ save[k] \in Save /\ row[k] \in Row
  BY DEF TypeOK
<1>1. ASSUME NEW i \in Incident, Create(k, i) PROVE IInv'
  <2> DEFINE new == [status |-> "running", incident |-> i, started |-> clock]
  <2>1. new \in Row /\ new.status = "running" /\ new.incident \in Incident /\ new.started >= 1
    BY ReportsAssumption DEF TypeOK, Row
  <2> HIDE DEF new
  <2>2. row'[k] = new /\ \A j \in Record \ {k} : row'[j] = row[j]
    BY <1>0, <1>1 DEF Create, new
  <2>3. /\ save'[k] = [save[k] EXCEPT !.pc = "working"]
        /\ \A j \in Record \ {k} : save'[j] = save[j]
    BY <1>0, <1>1 DEF Create
  <2>4. save[k].pc = "none" /\ stored[k] = {} /\ save[k].wrote = {} /\ row[k].status = "none"
    BY <1>1 DEF Create, StoreInv, TypeOK
  <2>5. /\ save'[k] \in Save /\ save'[k].pc = "working" /\ save'[k].wrote = {}
    BY <1>0, <2>3, <2>4 DEF Save
  <2>6. Keeps
    BY <2>2, <2>4 DEF Keeps
  <2>7. TypeOK'
    <3>1. row' \in [Record -> Row]
      BY <1>0, <1>1, <2>1 DEF Create, new
    <3>2. save' \in [Record -> Save]
      BY <1>0, <1>1, <2>3, <2>5 DEF Create
    <3> QED
      BY <1>1, <2>3, <2>5, <3>1, <3>2 DEF TypeOK, Create
  <2>8. StoreInv'
    BY <1>1, <2>1, <2>2, <2>3, <2>4, <2>5 DEF StoreInv, Create
  <2>9. AnalyzedHasReport'
    BY <1>1, <2>1, <2>2, <2>4 DEF AnalyzedHasReport, Create
  <2> QED
    BY <1>1, <2>6, <2>7, <2>8, <2>9, WriterStep DEF Create
<1>2. ASSUME UNCHANGED <<clock, row, stored, analyzed, read, told>>,
             save[k].pc \in {"working", "saving"},
             NEW s \in Save, s.pc \in {"saving", "ended"}, s.pc # "saving" => s.wrote = {},
             save' = [save EXCEPT ![k] = s]
      PROVE  IInv'
  <2>1. save'[k] = s /\ (\A j \in Record \ {k} : save'[j] = save[j])
    BY <1>0, <1>2
  <2>2. TypeOK'
    BY <1>0, <1>2, <2>1 DEF TypeOK
  <2>3. StoreInv'
    BY <1>2, <2>1 DEF StoreInv
  <2> QED
    BY <1>2, <2>2, <2>3, WriterStep DEF AnalyzedHasReport, Keeps
<1>3. ASSUME NEW outcome \in {"completed", "failed"}, BeginSave(k, outcome) PROVE IInv'
  <2> DEFINE s == [save[k] EXCEPT !.pc = "saving", !.outcome = outcome]
  <2>1. s \in Save /\ s.pc = "saving"
    BY <1>0, <1>3 DEF Save
  <2>2. save' = [save EXCEPT ![k] = s] /\ save[k].pc = "working"
    BY <1>0, <1>3 DEF BeginSave, Save
  <2> HIDE DEF s
  <2> QED
    BY <1>2, <1>3, <2>1, <2>2 DEF BeginSave
<1>4. ASSUME NEW w \in Write, Execute(k, w) PROVE IInv'
  <2> DEFINE s == [save[k] EXCEPT !.wrote = @ \cup {w}]
  <2>1. s \in Save /\ s.pc = "saving"
    BY <1>0, <1>4 DEF Save, Execute
  <2>2. save' = [save EXCEPT ![k] = s] /\ save[k].pc = "saving"
    BY <1>0, <1>4 DEF Execute, Save
  <2> HIDE DEF s
  <2> QED
    BY <1>2, <1>4, <2>1, <2>2 DEF Execute
<1>5. ASSUME Rollback(k) PROVE IInv'
  <2> DEFINE s == [save[k] EXCEPT !.pc = "ended", !.wrote = {}]
  <2>1. s \in Save /\ s.pc = "ended" /\ s.wrote = {}
    BY <1>0 DEF Save
  <2>2. save' = [save EXCEPT ![k] = s]
    BY <1>0, <1>5 DEF Rollback, Done, Save
  <2> HIDE DEF s
  <2> QED
    BY <1>2, <1>5, <2>1, <2>2 DEF Rollback
<1>6. ASSUME Commit(k) PROVE IInv'
  <2> DEFINE new == [row[k] EXCEPT !.status = save[k].outcome]
  <2>1. /\ save[k].outcome \in {"completed", "failed"} /\ row[k].status \in {"running", "failed"}
        /\ save[k].wrote = Writes(save[k].outcome)
    BY <1>0, <1>6 DEF Commit, StoreInv, Save
  <2>2. /\ new \in Row /\ new.status = save[k].outcome
        /\ new.incident = row[k].incident /\ new.started = row[k].started
    BY <1>0, <2>1 DEF Row
  <2>3. row' = [row EXCEPT ![k] = new]
    BY <1>0, <1>6 DEF Commit, Row
  <2> HIDE DEF new
  <2>4. row'[k] = new /\ \A j \in Record \ {k} : row'[j] = row[j]
    BY <1>0, <2>3
  <2>5. /\ save'[k].pc = "ended" /\ save'[k].wrote = {} /\ save'[k] \in Save
        /\ \A j \in Record \ {k} : save'[j] = save[j]
    BY <1>0, <1>6 DEF Commit, Done, Save
  <2>6. /\ stored'[k] = save[k].wrote \cap Part
        /\ \A j \in Record \ {k} : stored'[j] = stored[j]
    BY <1>0, <1>6 DEF Commit
  <2>7. Keeps
    BY <2>1, <2>4 DEF Keeps
  <2>8. row[k].incident \in Incident
    BY <2>1 DEF StoreInv
  <2>9. TypeOK'
    <3>1. row' \in [Record -> Row]
      BY <1>0, <2>2, <2>3
    <3>2. save' \in [Record -> Save]
      BY <1>0, <1>6, <2>5 DEF Commit, Done
    <3>3. stored' \in [Record -> SUBSET Part]
      BY <1>0, <1>6 DEF Commit
    <3>4. analyzed' \subseteq Incident
      BY <1>6, <2>8 DEF Commit, TypeOK
    <3> QED
      BY <1>6, <2>5, <3>1, <3>2, <3>3, <3>4 DEF TypeOK, Commit
  <2>10. /\ save[k].outcome = "completed" => stored'[k] = Part
         /\ save[k].outcome = "failed" => stored'[k] = Part \ {"report"}
    BY <2>1, <2>6 DEF Writes, Write, Part
  <2>11. StoreInv'
    <3>1. /\ row'[k].status \in {"completed", "failed"} /\ row'[k].incident \in Incident
          /\ row'[k].started >= 1
          /\ row'[k].status = "completed" => stored'[k] = Part
          /\ stored'[k] \in {Part \ {"report"}, Part}
      BY <2>1, <2>2, <2>4, <2>8, <2>10 DEF StoreInv
    <3> DEFINE Kept(j) ==
          /\ row[j].status = "none" =>
                stored[j] = {} /\ save[j].pc = "none" /\ row[j].started = 0
          /\ row[j].status # "none" => row[j].incident \in Incident /\ row[j].started >= 1
          /\ row[j].status = "completed" => stored[j] = Part /\ save[j].pc = "ended"
          /\ row[j].status = "running" => stored[j] = {}
          /\ save[j].pc \in {"working", "saving"} =>
                stored[j] = {} /\ row[j].status \in {"running", "failed"}
          /\ stored[j] \in {{}, Part \ {"report"}, Part}
    <3>2. Kept(k)'
      BY <2>4, <2>5, <3>1
    <3>3. ASSUME NEW j \in Record \ {k} PROVE Kept(j)'
      <4>1. Kept(j)
        BY DEF StoreInv
      <4> QED
        BY <2>4, <2>5, <2>6, <4>1
    <3> QED
      BY <3>2, <3>3 DEF StoreInv
  <2>12. AnalyzedHasReport'
    <3>1. CASE save[k].outcome = "completed"
      <4>1. analyzed' = analyzed \cup {row[k].incident}
        BY <1>6, <2>1, <3>1 DEF Commit, Writes, Write
      <4> QED
        BY <2>1, <2>2, <2>4, <3>1, <4>1 DEF AnalyzedHasReport
    <3>2. CASE save[k].outcome = "failed"
      <4>1. analyzed' = analyzed
        BY <1>6, <2>1, <3>2 DEF Commit, Writes, Write
      <4> QED
        BY <2>1, <2>2, <2>4, <3>2, <4>1 DEF AnalyzedHasReport
    <3> QED
      BY <2>1, <3>1, <3>2
  <2> QED
    BY <1>6, <2>7, <2>9, <2>11, <2>12, WriterStep DEF Commit
<1> QED
  BY <1>1, <1>3, <1>4, <1>5, <1>6 DEF Writer

LEMMA SweepInv ==
    ASSUME IInv, NEW olderThan \in 0..MaxClock, FailStale(olderThan)
    PROVE  IInv'
<1> DEFINE stale == {k \in Record : row[k].status = "running"
                                    /\ row[k].started < clock - olderThan}
<1>1. /\ row' = [k \in Record |-> IF k \in stale THEN [row[k] EXCEPT !.status = "failed"]
                                   ELSE row[k]]
      /\ UNCHANGED <<clock, stored, analyzed, save, read, told>>
  BY DEF FailStale
<1>2. \A k \in stale : row[k].status = "running"
  OBVIOUS
<1> HIDE DEF stale
<1>3. row \in [Record -> Row]
  BY DEF IInv, TypeOK
<1>4. \A k \in Record :
         /\ row'[k] \in Row
         /\ row'[k].incident = row[k].incident /\ row'[k].started = row[k].started
         /\ row'[k].status = row[k].status
               \/ (row'[k].status = "failed" /\ row[k].status = "running")
         /\ k \notin stale => row'[k] = row[k]
  BY <1>1, <1>2, <1>3 DEF Row
<1>5. Keeps
  BY <1>2, <1>4 DEF Keeps
<1>6. TypeOK'
  BY <1>1, <1>4 DEF IInv, TypeOK
<1>7. StoreInv'
  BY <1>1, <1>4 DEF IInv, StoreInv
<1>8. AnalyzedHasReport'
  <2>1. \A k \in Record : row'[k].status = "completed" <=> row[k].status = "completed"
    BY <1>4
  <2> QED
    BY <1>1, <1>4, <2>1 DEF IInv, AnalyzedHasReport
<1> QED
  BY <1>1, <1>5, <1>6, <1>7, <1>8, WriterStep

\* The later statements find the rows of what the first one picked.
LEMMA RowsAreThere ==
    ASSUME IInv, NEW c \in Client, read[c].pc \in {"executions", "evidence", "report"},
           NEW t \in Part
    PROVE  Found(c, t) = read[c].row /\ read[c].row \in Record /\ Picked(read[c])
  BY DEF Found, Of, Sound, Picked, IInv, StoreInv, ReadInv

\* The steps of client c.
LEMMA ReaderInv ==
    ASSUME IInv, NEW c \in Client, Reader(c)
    PROVE  IInv'
<1>0. /\ read[c] \in Read /\ Sound(read[c]) /\ None \notin Record \cup Incident
      /\ row \in [Record -> Row] /\ told[c] \in [Incident -> 0..MaxClock]
  BY ReportsAssumption DEF IInv, TypeOK, ReadInv
<1>1. ASSUME NEW k \in Record, Learn(c, k) PROVE IInv'
  <2>1. row[k].incident \in Incident /\ row[k].started \in 0..MaxClock
    BY <1>0, <1>1 DEF Learn, IInv, StoreInv, Row
  <2>2. Known(row[k].incident, row[k].started)
    BY <1>1, <2>1 DEF Learn, Known, Completed
  <2> QED
    BY <1>1, <2>1, <2>2, TellStep DEF Learn
<1>2. ASSUME NEW i \in Incident, Look(c, i) PROVE IInv'
  <2>1. PICK k \in Record : row[k].status = "completed" /\ row[k].incident = i
    BY <1>2 DEF Look, IInv, AnalyzedHasReport
  <2>2. row[k].started >= 1
    BY <2>1 DEF IInv, StoreInv
  <2>3. Known(i, 1) /\ 1 \in 0..MaxClock
    BY <2>1, <2>2, ReportsAssumption DEF Known, Completed
  <2> QED
    BY <1>2, <2>3, TellStep DEF Look
<1>3. ASSUME NEW i \in Incident, Ask(c, i) PROVE IInv'
  <2> DEFINE r == [NoRead EXCEPT !.pc = "incident", !.incident = i, !.floor = told[c][i]]
  <2>1. NoRead \in Read /\ NoRead.answer = "none"
    BY ReportsAssumption DEF NoRead, Read, NoParts
  <2>2. /\ r \in Read /\ r.pc = "incident" /\ r.incident = i /\ r.floor = told[c][i]
        /\ r.answer = "none"
    BY <1>0, <2>1 DEF Read
  <2>3. Becomes(c, r)
    BY <1>3 DEF Ask
  <2> HIDE DEF r
  <2>4. Sound(r)
    BY <2>2 DEF Sound, IInv, ToldInv
  <2> QED
    BY <1>3, <2>2, <2>3, <2>4, ReaderStep DEF Ask
<1>4. ASSUME ReadIncident(c) PROVE IInv'
  <2> DEFINE r == [read[c] EXCEPT !.pc = "latest"]
  <2>1. /\ r \in Read /\ r.pc = "latest" /\ r.incident = read[c].incident
        /\ r.floor = read[c].floor /\ r.answer = read[c].answer
    BY <1>0 DEF Read
  <2>2. Becomes(c, r) /\ read[c].pc = "incident"
    BY <1>4 DEF ReadIncident
  <2> HIDE DEF r
  <2>3. Sound(r)
    BY <1>0, <2>1, <2>2 DEF Sound
  <2> QED
    BY <1>4, <2>1, <2>2, <2>3, ReaderStep DEF ReadIncident
<1>5. ASSUME ReadLatest(c) PROVE IInv'
  <2>1. /\ read[c].pc = "latest" /\ read[c].incident \in Incident
        /\ Known(read[c].incident, read[c].floor) /\ read[c].answer = "none"
        /\ read[c].floor \in 0..MaxClock
    BY <1>0, <1>5 DEF ReadLatest, Sound, Read
  <2>2. ASSUME Completed(read[c].incident) = {},
               Becomes(c, [read[c] EXCEPT !.pc = "answered", !.answer = "not_found"])
        PROVE  IInv'
    <3> DEFINE r == [read[c] EXCEPT !.pc = "answered", !.answer = "not_found"]
    <3>1. /\ r \in Read /\ r.pc = "answered" /\ r.answer = "not_found"
          /\ r.floor = read[c].floor
      BY <1>0 DEF Read
    <3>2. Becomes(c, r)
      BY <2>2
    <3>3. read[c].floor = 0
      BY <2>1, <2>2 DEF Known
    <3> HIDE DEF r
    <3>4. Sound(r)
      BY <3>1, <3>3 DEF Sound
    <3> QED
      BY <1>5, <3>1, <3>2, <3>4, ReaderStep DEF ReadLatest
  <2>3. ASSUME NEW k \in Latest(read[c].incident),
               Becomes(c, [read[c] EXCEPT !.pc = "executions", !.row = k])
        PROVE  IInv'
    <3> DEFINE r == [read[c] EXCEPT !.pc = "executions", !.row = k]
    <3>1. /\ k \in Record /\ row[k].status = "completed" /\ row[k].incident = read[c].incident
          /\ \A j \in Completed(read[c].incident) : row[j].started <= row[k].started
      BY <2>3 DEF Latest, Completed
    <3>2. /\ r \in Read /\ r.pc = "executions" /\ r.row = k /\ r.answer = "none"
          /\ r.floor = read[c].floor /\ r.incident = read[c].incident
      BY <1>0, <2>1, <3>1 DEF Read
    <3>3. Becomes(c, r)
      BY <2>3
    <3> HIDE DEF r
    <3>4. row[k].started >= read[c].floor
      <4>1. row[k].started \in Nat
        BY <1>0, <3>1, ReportsAssumption DEF Row
      <4>2. \A j \in Completed(read[c].incident) : j \in Record /\ row[j].started \in Nat
        BY <1>0, ReportsAssumption DEF Row, Completed
      <4> QED
        BY <2>1, <3>1, <4>1, <4>2, ReportsAssumption DEF Known
    <3>5. Sound(r)
      BY <2>1, <3>1, <3>2, <3>4 DEF Sound, Picked
    <3> QED
      BY <1>5, <3>2, <3>3, <3>5, ReaderStep DEF ReadLatest
  <2> QED
    BY <1>5, <2>2, <2>3 DEF ReadLatest
<1>6. ASSUME read[c].pc \in {"executions", "evidence", "report"}, NEW t \in Part
      PROVE  Found(c, t) = read[c].row /\ read[c].row \in Record /\ Picked(read[c])
  BY <1>6, RowsAreThere
<1>7. ASSUME ReadRows(c, "executions", "evidence") PROVE IInv'
  <2> DEFINE r == [read[c] EXCEPT !.pc = "evidence", !.parts["executions"] = Found(c, "executions")]
  <2>1. read[c].pc = "executions" /\ Becomes(c, r)
    BY <1>7 DEF ReadRows
  <2>2. /\ Found(c, "executions") = read[c].row /\ Picked(read[c]) /\ read[c].row \in Record
        /\ read[c].answer = "none"
    BY <1>0, <1>6, <2>1 DEF Part, Sound
  <2>3. /\ r \in Read /\ r.pc = "evidence" /\ r.row = read[c].row /\ r.answer = "none"
        /\ r.floor = read[c].floor /\ r.incident = read[c].incident
        /\ r.parts["executions"] = read[c].row
    BY <1>0, <2>2 DEF Read, Part
  <2> HIDE DEF r
  <2>4. Sound(r)
    BY <2>2, <2>3 DEF Sound, Picked
  <2> QED
    BY <1>7, <2>1, <2>3, <2>4, ReaderStep DEF ReadRows
<1>8. ASSUME ReadRows(c, "evidence", "report") PROVE IInv'
  <2> DEFINE r == [read[c] EXCEPT !.pc = "report", !.parts["evidence"] = Found(c, "evidence")]
  <2>1. read[c].pc = "evidence" /\ Becomes(c, r)
    BY <1>8 DEF ReadRows
  <2>2. /\ Found(c, "evidence") = read[c].row /\ Picked(read[c]) /\ read[c].row \in Record
        /\ read[c].answer = "none" /\ read[c].parts["executions"] = read[c].row
    BY <1>0, <1>6, <2>1 DEF Part, Sound
  <2>3. /\ r \in Read /\ r.pc = "report" /\ r.row = read[c].row /\ r.answer = "none"
        /\ r.floor = read[c].floor /\ r.incident = read[c].incident
        /\ r.parts["executions"] = read[c].row /\ r.parts["evidence"] = read[c].row
    BY <1>0, <2>2 DEF Read, Part
  <2> HIDE DEF r
  <2>4. Sound(r)
    BY <2>2, <2>3 DEF Sound, Picked
  <2> QED
    BY <1>8, <2>1, <2>3, <2>4, ReaderStep DEF ReadRows
<1>9. ASSUME ReadReport(c) PROVE IInv'
  <2> DEFINE r == [read[c] EXCEPT !.pc = "answered", !.parts["report"] = read[c].row,
                                  !.answer = "found"]
  <2>1. /\ Found(c, "report") = read[c].row /\ Picked(read[c]) /\ read[c].row \in Record
        /\ read[c].parts["executions"] = read[c].row /\ read[c].parts["evidence"] = read[c].row
    BY <1>0, <1>6, <1>9 DEF Part, Sound, ReadReport
  <2>2. Becomes(c, r)
    BY <1>0, <1>9, <2>1 DEF ReadReport
  <2>3. /\ r \in Read /\ r.pc = "answered" /\ r.row = read[c].row /\ r.answer = "found"
        /\ r.floor = read[c].floor /\ r.incident = read[c].incident
        /\ r.parts = [t \in Part |-> r.row]
    BY <1>0, <2>1 DEF Read, Part
  <2> HIDE DEF r
  <2>4. Sound(r)
    BY <2>1, <2>3 DEF Sound, Picked
  <2> QED
    BY <1>9, <2>2, <2>3, <2>4, ReaderStep DEF ReadReport
<1>10. ASSUME ReadFails(c) PROVE IInv'
  <2> DEFINE r == [NoRead EXCEPT !.pc = "answered", !.answer = "error"]
  <2>1. r \in Read /\ r.pc = "answered" /\ r.answer = "error"
    <3>1. NoRead \in Read
      BY ReportsAssumption DEF NoRead, Read, NoParts
    <3> QED
      BY <3>1 DEF Read
  <2>2. Becomes(c, r)
    BY <1>10 DEF ReadFails
  <2> HIDE DEF r
  <2>3. Sound(r)
    BY <2>1 DEF Sound
  <2> QED
    BY <1>10, <2>1, <2>2, <2>3, ReaderStep DEF ReadFails
<1> QED
  BY <1>1, <1>2, <1>3, <1>4, <1>5, <1>7, <1>8, <1>9, <1>10 DEF Reader

LEMMA InvStep == IInv /\ [Next]_vars => IInv'
<1> SUFFICES ASSUME IInv, [Next]_vars PROVE IInv'
  OBVIOUS
<1>1. CASE \E k \in Record : Writer(k)
  BY <1>1, WriterInv
<1>2. CASE \E olderThan \in 0..MaxClock : FailStale(olderThan)
  BY <1>2, SweepInv
<1>3. CASE Tick
  <2>1. TypeOK'
    BY <1>3, ReportsAssumption DEF Tick, IInv, TypeOK
  <2>2. StoreInv' /\ AnalyzedHasReport' /\ Keeps
    BY <1>3 DEF Tick, IInv, StoreInv, AnalyzedHasReport, Keeps
  <2> QED
    BY <1>3, <2>1, <2>2, WriterStep DEF Tick
<1>4. CASE \E c \in Client : Reader(c)
  BY <1>4, ReaderInv
<1>5. CASE UNCHANGED vars
  <2>1. Keeps /\ TypeOK' /\ StoreInv' /\ AnalyzedHasReport'
    BY <1>5 DEF vars, IInv, TypeOK, StoreInv, AnalyzedHasReport, Keeps
  <2> QED
    BY <1>5, <2>1, WriterStep DEF vars
<1> QED
  BY <1>1, <1>2, <1>3, <1>4, <1>5 DEF Next

LEMMA Invariance == Spec => []IInv
  BY InvInit, InvStep, PTL DEF Spec

\* Records, transactions and requests are well typed: a save is over, with
\* nothing written, whenever no transaction is open.
THEOREM TypeCorrect == Spec => []TypeOK
<1>1. IInv => TypeOK
  BY DEF IInv
<1> QED
  BY <1>1, Invariance, PTL

\* A completed record has all its parts, a running one none, for any number
\* of calls and any failures.
THEOREM SavesAreWhole == Spec => []StoredTogether
<1>1. IInv => StoredTogether
  BY DEF IInv, StoreInv, StoredTogether
<1> QED
  BY <1>1, Invariance, PTL

\* The incidents that are analyzed are those with a report.
THEOREM AnalyzedMeansReport == Spec => []AnalyzedHasReport
<1>1. IInv => AnalyzedHasReport
  BY DEF IInv
<1> QED
  BY <1>1, Invariance, PTL

\* A report request is answered with all of one investigation.
THEOREM AnswersAreWhole == Spec => []WholeAnswers
<1>1. IInv => WholeAnswers
  BY DEF IInv, ReadInv, Sound, WholeAnswers
<1> QED
  BY <1>1, Invariance, PTL

\* A report request is not answered with less than its client knew.
THEOREM AnswersNeverGoBack == Spec => []AnswersKeepUp
<1>1. IInv => AnswersKeepUp
  BY DEF IInv, ReadInv, Sound, Picked, AnswersKeepUp
<1> QED
  BY <1>1, Invariance, PTL

-----------------------------------------------------------------------------
\* What a request looks like from outside, case by case.
LEMMA Appearance ==
    ASSUME NEW r, Sound(r)
    PROVE  /\ r.pc = "idle" \/ r.answer = "error" => SeenAs(r) = Shape("idle", None, None)
           /\ r.pc \in {"incident", "latest"} => SeenAs(r) = Shape("asked", r.incident, None)
           /\ r.pc \in {"executions", "evidence", "report"} =>
                 SeenAs(r) = Shape("decided", r.incident, r.row)
           /\ r.answer = "not_found" => SeenAs(r) = Shape("none", r.incident, None)
           /\ r.answer = "found" => SeenAs(r) = Shape("found", r.incident, r.row)
  BY DEF Sound, SeenAs, Shape

\* A reader's step, seen from outside.
LEMMA SeenStep ==
    ASSUME NEW c \in Client, NEW r \in Read, Becomes(c, r), TypeOK
    PROVE  RequestBar' = [RequestBar EXCEPT ![c] = SeenAs(r)]
<1>1. read'[c] = r /\ \A d \in Client \ {c} : read'[d] = read[d]
  BY DEF TypeOK, Becomes
<1>2. RequestBar' = [d \in Client |-> SeenAs(read'[d])]
  BY DEF RequestBar, SeenAs
<1> QED
  BY <1>1, <1>2 DEF RequestBar

\* Steps that change neither the statuses nor a request are not seen.
LEMMA Unseen ==
    ASSUME UNCHANGED <<row, read>>
    PROVE  UNCHANGED <<CompletedBar, StartedBar, RequestBar>>
  BY DEF CompletedBar, StartedBar, RequestBar, SeenAs

LEMMA SameRequests ==
    ASSUME UNCHANGED read
    PROVE  RequestBar' = RequestBar
<1>1. RequestBar' = [c \in Client |-> SeenAs(read'[c])]
  BY DEF RequestBar, SeenAs
<1> QED
  BY <1>1 DEF RequestBar

LEMMA MapInit == Init => Promised!Init
<1> SUFFICES ASSUME Init PROVE Promised!Init
  OBVIOUS
<1>1. SeenAs(NoRead) = Shape("idle", None, None)
  BY DEF SeenAs, NoRead, Shape
<1>2. RequestBar = [c \in Client |-> Shape("idle", None, None)]
  BY <1>1 DEF Init, RequestBar
<1>3. NoRow.status = "none" /\ NoRow.started = 0
  BY DEF NoRow
<1>4. CompletedBar = [k \in Record |-> None] /\ StartedBar = [k \in Record |-> 0]
  BY <1>3 DEF Init, CompletedBar, StartedBar
<1> QED
  BY <1>2, <1>4 DEF Promised!Init, Promised!Quiet, Promised!Shape, Shape

\* A writer starts an investigation, completes one, or does nothing to be seen.
LEMMA MapWriter ==
    ASSUME IInv, NEW k \in Record, Writer(k)
    PROVE  \/ Promised!Start(k) \/ Promised!Complete(k)
           \/ UNCHANGED <<CompletedBar, StartedBar, RequestBar>>
<1>0. row \in [Record -> Row] /\ save[k] \in Save
  BY DEF IInv, TypeOK
<1>1. ASSUME NEW i \in Incident, Create(k, i) PROVE Promised!Start(k)
  <2>1. /\ StartedBar' = [StartedBar EXCEPT ![k] = clock]
        /\ CompletedBar' = CompletedBar
    BY <1>0, <1>1 DEF Create, StartedBar, CompletedBar
  <2>2. RequestBar' = RequestBar
    BY <1>1 DEF Create, RequestBar, SeenAs
  <2>3. StartedBar[k] = 0 /\ clock \in Nat \ {0} /\ StartedBar'[k] = clock
    BY <1>1, <2>1, ReportsAssumption DEF Create, IInv, TypeOK, StoreInv, StartedBar
  <2> QED
    BY <2>1, <2>2, <2>3 DEF Promised!Start
<1>2. ASSUME Commit(k) PROVE Promised!Complete(k) \/ UNCHANGED <<CompletedBar, StartedBar, RequestBar>>
  <2>1. /\ save[k].outcome \in {"completed", "failed"} /\ row[k].status \in {"running", "failed"}
        /\ row[k].incident \in Incident /\ row[k].started >= 1
    BY <1>0, <1>2 DEF Commit, IInv, StoreInv, Save
  <2>2. /\ row' \in [Record -> Row] /\ row'[k].status = save[k].outcome
        /\ row'[k].incident = row[k].incident /\ row'[k].started = row[k].started
        /\ \A j \in Record \ {k} : row'[j] = row[j]
    BY <1>0, <1>2, <2>1 DEF Commit, Row
  <2>3. StartedBar' = StartedBar /\ RequestBar' = RequestBar
    BY <1>2, <2>2 DEF Commit, StartedBar, RequestBar, SeenAs
  <2>4. CASE save[k].outcome = "completed"
    <3>1. CompletedBar' = [CompletedBar EXCEPT ![k] = row[k].incident]
      BY <2>2, <2>4 DEF CompletedBar
    <3>2. StartedBar[k] # 0 /\ CompletedBar[k] = None
      BY <2>1 DEF StartedBar, CompletedBar
    <3> QED
      BY <2>1, <2>3, <3>1, <3>2 DEF Promised!Complete
  <2>5. CASE save[k].outcome = "failed"
    BY <2>1, <2>2, <2>3, <2>5 DEF CompletedBar
  <2> QED
    BY <2>1, <2>4, <2>5
<1>3. ASSUME NEW outcome, BeginSave(k, outcome)
      PROVE UNCHANGED <<CompletedBar, StartedBar, RequestBar>>
  BY <1>3, Unseen DEF BeginSave
<1>4. ASSUME NEW w, Execute(k, w) PROVE UNCHANGED <<CompletedBar, StartedBar, RequestBar>>
  BY <1>4, Unseen DEF Execute
<1>5. ASSUME Rollback(k) PROVE UNCHANGED <<CompletedBar, StartedBar, RequestBar>>
  BY <1>5, Unseen DEF Rollback
<1> QED
  BY <1>1, <1>2, <1>3, <1>4, <1>5 DEF Writer

\* A reader asks, decides, answers, is refused, or is on its way.
LEMMA MapReader ==
    ASSUME IInv, NEW c \in Client, Reader(c)
    PROVE  \/ Promised!Ask(c) \/ Promised!Decide(c) \/ Promised!Answer(c) \/ Promised!Refuse(c)
           \/ UNCHANGED <<CompletedBar, StartedBar, RequestBar>>
<1>0. /\ TypeOK /\ read[c] \in Read /\ Sound(read[c]) /\ None \notin Record \cup Incident
  BY ReportsAssumption DEF IInv, TypeOK, ReadInv
<1>1. ASSUME NEW r \in Read, Becomes(c, r), UNCHANGED row
      PROVE  /\ UNCHANGED <<CompletedBar, StartedBar>>
             /\ RequestBar' = [RequestBar EXCEPT ![c] = SeenAs(r)]
             /\ SeenAs(r) = SeenAs(read[c]) => UNCHANGED RequestBar
  <2>1. RequestBar' = [RequestBar EXCEPT ![c] = SeenAs(r)]
    BY <1>0, <1>1, SeenStep
  <2>2. CompletedBar' = CompletedBar /\ StartedBar' = StartedBar
    BY <1>1 DEF CompletedBar, StartedBar
  <2> QED
    BY <2>1, <2>2 DEF RequestBar
<1>2. RequestBar[c] = SeenAs(read[c])
  BY DEF RequestBar
<1>3. ASSUME NEW k \in Record, Learn(c, k) PROVE UNCHANGED <<CompletedBar, StartedBar, RequestBar>>
  BY <1>3, Unseen DEF Learn
<1>4. ASSUME NEW i \in Incident, Look(c, i) PROVE UNCHANGED <<CompletedBar, StartedBar, RequestBar>>
  BY <1>4, Unseen DEF Look
<1>5. ASSUME NEW i \in Incident, Ask(c, i) PROVE Promised!Ask(c)
  <2> DEFINE r == [NoRead EXCEPT !.pc = "incident", !.incident = i, !.floor = told[c][i]]
  <2>1. NoRead \in Read
    BY ReportsAssumption DEF NoRead, Read, NoParts
  <2>2. r \in Read /\ r.pc = "incident" /\ r.incident = i
    <3>1. told[c][i] \in 0..MaxClock
      BY <1>0 DEF TypeOK
    <3> QED
      BY <2>1, <3>1 DEF Read
  <2>3. Becomes(c, r) /\ UNCHANGED row /\ read[c].pc \in {"idle", "answered"}
    BY <1>5 DEF Ask
  <2>4. r.answer = "none"
    BY DEF NoRead
  <2> HIDE DEF r
  <2>5. SeenAs(r) = Shape("asked", i, None)
    BY <2>2, <2>4 DEF SeenAs, Shape
  <2>6. RequestBar[c].pc \in {"idle", "found", "none"}
    <3>1. read[c].pc = "idle" \/ read[c].answer \in {"found", "not_found", "error"}
      BY <1>0, <2>3 DEF Sound, Read
    <3> QED
      BY <1>0, <1>2, <3>1, Appearance DEF Shape
  <2>7. /\ RequestBar' = [RequestBar EXCEPT ![c] = SeenAs(r)]
        /\ UNCHANGED <<CompletedBar, StartedBar>>
    BY <1>1, <2>2, <2>3
  <2> QED
    BY <2>5, <2>6, <2>7 DEF Promised!Ask, Promised!Shape, Shape
<1>6. ASSUME ReadIncident(c) PROVE UNCHANGED <<CompletedBar, StartedBar, RequestBar>>
  <2> DEFINE r == [read[c] EXCEPT !.pc = "latest"]
  <2>1. /\ r \in Read /\ r.pc = "latest" /\ r.incident = read[c].incident
        /\ r.answer = read[c].answer
    BY <1>0 DEF Read
  <2>2. Becomes(c, r) /\ UNCHANGED row /\ read[c].pc = "incident"
    BY <1>6 DEF ReadIncident
  <2> HIDE DEF r
  <2>3. SeenAs(r) = SeenAs(read[c])
    BY <1>0, <2>1, <2>2 DEF SeenAs
  <2> QED
    BY <1>1, <2>1, <2>2, <2>3
<1>7. ASSUME ReadLatest(c) PROVE Promised!Decide(c)
  <2> DEFINE i == read[c].incident
  <2>1. read[c].pc = "latest" /\ i \in Incident /\ UNCHANGED row /\ read[c].answer = "none"
    BY <1>0, <1>7 DEF ReadLatest, Sound
  <2>2. RequestBar[c] = Shape("asked", i, None)
    BY <1>0, <1>2, <2>1, Appearance
  <2>3. Promised!Candidates(i) = Completed(i)
    <3>1. \A k \in Record : CompletedBar[k] = i <=> row[k].status = "completed" /\ row[k].incident = i
      BY <1>0, <2>1 DEF CompletedBar
    <3> QED
      BY <3>1 DEF Promised!Candidates, Completed
  <2>4. ASSUME Completed(i) = {},
               Becomes(c, [read[c] EXCEPT !.pc = "answered", !.answer = "not_found"])
        PROVE  Promised!Decide(c)
    <3> DEFINE r == [read[c] EXCEPT !.pc = "answered", !.answer = "not_found"]
    <3>1. r \in Read /\ r.pc = "answered" /\ r.answer = "not_found" /\ r.incident = i
      BY <1>0 DEF Read
    <3>2. Becomes(c, r)
      BY <2>4
    <3> HIDE DEF r
    <3>3. SeenAs(r) = Shape("none", i, None)
      BY <3>1 DEF SeenAs, Shape
    <3>4. /\ RequestBar' = [RequestBar EXCEPT ![c] = Shape("none", i, None)]
          /\ UNCHANGED <<CompletedBar, StartedBar>>
      BY <1>1, <2>1, <3>1, <3>2, <3>3
    <3> QED
      BY <2>2, <2>3, <2>4, <3>4 DEF Promised!Decide, Promised!Shape, Shape
  <2>5. ASSUME NEW k \in Latest(i),
               Becomes(c, [read[c] EXCEPT !.pc = "executions", !.row = k])
        PROVE  Promised!Decide(c)
    <3> DEFINE r == [read[c] EXCEPT !.pc = "executions", !.row = k]
    <3>1. /\ k \in Completed(i) /\ k \in Record /\ k # None
          /\ \A j \in Completed(i) : row[j].started <= row[k].started
      BY <1>0, <2>5 DEF Latest, Completed
    <3>2. /\ r \in Read /\ r.pc = "executions" /\ r.row = k /\ r.answer = "none"
          /\ r.incident = i
      BY <1>0, <2>1, <3>1 DEF Read
    <3>3. Becomes(c, r)
      BY <2>5
    <3> HIDE DEF r
    <3>4. SeenAs(r) = Shape("decided", i, k)
      BY <3>2 DEF SeenAs, Shape
    <3>5. /\ RequestBar' = [RequestBar EXCEPT ![c] = Shape("decided", i, k)]
          /\ UNCHANGED <<CompletedBar, StartedBar>>
      BY <1>1, <2>1, <3>2, <3>3, <3>4
    <3>6. \A j \in Completed(i) : StartedBar[j] <= StartedBar[k]
      BY <3>1 DEF StartedBar, Completed
    <3>7. RequestBar[c].pc = "asked" /\ RequestBar[c].incident = i
      BY <2>2 DEF Shape
    <3>8. RequestBar' = [RequestBar EXCEPT ![c] = Promised!Shape("decided", i, k)]
      BY <3>5 DEF Promised!Shape, Shape
    <3>9. k \in Promised!Candidates(i)
          /\ \A j \in Promised!Candidates(i) : StartedBar[j] <= StartedBar[k]
      BY <2>3, <3>1, <3>6
    <3> QED
      BY <3>5, <3>7, <3>8, <3>9 DEF Promised!Decide
  <2> QED
    BY <1>7, <2>4, <2>5 DEF ReadLatest
<1>8. ASSUME NEW t \in {"executions", "evidence"}, NEW next \in {"evidence", "report"},
             ReadRows(c, t, next)
      PROVE  UNCHANGED <<CompletedBar, StartedBar, RequestBar>>
  <2> DEFINE r == [read[c] EXCEPT !.pc = next, !.parts[t] = Found(c, t)]
  <2>1. read[c].pc = t /\ Becomes(c, r) /\ UNCHANGED row /\ t \in Part
    BY <1>8 DEF ReadRows, Part
  <2>2. Found(c, t) = read[c].row /\ read[c].row \in Record
    BY <2>1, RowsAreThere
  <2>3. /\ r \in Read /\ r.pc = next /\ r.row = read[c].row /\ r.answer = read[c].answer
        /\ r.incident = read[c].incident
    BY <1>0, <2>1, <2>2 DEF Read
  <2> HIDE DEF r
  <2>4. read[c].answer = "none"
    BY <1>0, <2>1 DEF Sound
  <2>5. SeenAs(r) = SeenAs(read[c])
    BY <2>1, <2>3, <2>4 DEF SeenAs
  <2> QED
    BY <1>1, <2>1, <2>3, <2>5
<1>9. ASSUME ReadReport(c) PROVE Promised!Answer(c)
  <2> DEFINE r == [read[c] EXCEPT !.pc = "answered", !.parts["report"] = read[c].row,
                                  !.answer = "found"]
  <2>1. /\ Found(c, "report") = read[c].row /\ read[c].row \in Record
        /\ read[c].parts["executions"] = read[c].row /\ read[c].parts["evidence"] = read[c].row
        /\ read[c].pc = "report" /\ UNCHANGED row
    BY <1>0, <1>9, RowsAreThere DEF Part, Sound, ReadReport
  <2>2. Becomes(c, r)
    BY <1>0, <1>9, <2>1 DEF ReadReport
  <2>3. /\ r \in Read /\ r.pc = "answered" /\ r.row = read[c].row /\ r.answer = "found"
        /\ r.incident = read[c].incident /\ r.parts = [t \in Part |-> r.row]
    BY <1>0, <2>1 DEF Read, Part
  <2> HIDE DEF r
  <2>4. /\ SeenAs(r) = Shape("found", read[c].incident, read[c].row)
        /\ RequestBar[c] = Shape("decided", read[c].incident, read[c].row)
    BY <1>0, <1>2, <2>1, <2>3, Appearance DEF SeenAs, Shape
  <2>5. /\ RequestBar' = [RequestBar EXCEPT ![c] = SeenAs(r)]
        /\ UNCHANGED <<CompletedBar, StartedBar>>
    BY <1>1, <2>1, <2>2, <2>3
  <2> QED
    BY <2>4, <2>5 DEF Promised!Answer, Promised!Shape, Shape
<1>10. ASSUME ReadFails(c) PROVE Promised!Refuse(c)
  <2> DEFINE r == [NoRead EXCEPT !.pc = "answered", !.answer = "error"]
  <2>1. NoRead \in Read
    BY ReportsAssumption DEF NoRead, Read, NoParts
  <2>2. r \in Read /\ r.answer = "error"
    BY <2>1 DEF Read
  <2>3. Becomes(c, r) /\ UNCHANGED row /\ read[c].pc \notin {"idle", "answered"}
    BY <1>10 DEF ReadFails
  <2> HIDE DEF r
  <2>4. SeenAs(r) = Shape("idle", None, None)
    BY <2>2 DEF SeenAs, Shape
  <2>5. RequestBar[c].pc \in {"asked", "decided"}
    <3>1. read[c].pc \in {"incident", "latest", "executions", "evidence", "report"}
      BY <1>0, <2>3 DEF Read
    <3> QED
      BY <1>0, <1>2, <3>1, Appearance DEF Shape
  <2>6. /\ RequestBar' = [RequestBar EXCEPT ![c] = SeenAs(r)]
        /\ UNCHANGED <<CompletedBar, StartedBar>>
    BY <1>1, <2>2, <2>3
  <2> QED
    BY <2>4, <2>5, <2>6
    DEF Promised!Refuse, Promised!Quiet, Promised!Shape, Shape
<1> QED
  BY <1>3, <1>4, <1>5, <1>6, <1>7, <1>8, <1>9, <1>10 DEF Reader

LEMMA MapStep == IInv /\ [Next]_vars => [Promised!Next]_(Promised!vars)
<1> SUFFICES ASSUME IInv, [Next]_vars PROVE [Promised!Next]_(Promised!vars)
  OBVIOUS
<1>0. UNCHANGED <<CompletedBar, StartedBar, RequestBar>> => UNCHANGED Promised!vars
  BY DEF Promised!vars
<1>1. CASE \E k \in Record : Writer(k)
  BY <1>0, <1>1, MapWriter DEF Promised!Next
<1>2. ASSUME NEW olderThan \in 0..MaxClock, FailStale(olderThan)
      PROVE  UNCHANGED <<CompletedBar, StartedBar, RequestBar>>
  <2>1. /\ row \in [Record -> Row] /\ UNCHANGED read
        /\ \A k \in Record : row'[k].started = row[k].started
        /\ \A k \in Record :
              \/ row'[k] = row[k]
              \/ row[k].status = "running" /\ row'[k].status = "failed"
    BY <1>2 DEF FailStale, IInv, TypeOK, Row
  <2>2. RequestBar' = RequestBar
    <3>1. read' = read
      BY <1>2 DEF FailStale
    <3> QED
      BY <3>1, SameRequests
  <2>3. StartedBar' = StartedBar
    BY <2>1 DEF StartedBar
  <2>4. CompletedBar' = CompletedBar
    BY <2>1 DEF CompletedBar
  <2> QED
    BY <2>2, <2>3, <2>4
<1>3. CASE Tick
  BY <1>0, <1>3, Unseen DEF Tick
<1>4. CASE \E c \in Client : Reader(c)
  BY <1>0, <1>4, MapReader DEF Promised!Next
<1>5. CASE UNCHANGED vars
  BY <1>0, <1>5, Unseen DEF vars
<1> QED
  BY <1>0, <1>1, <1>2, <1>3, <1>4, <1>5 DEF Next

\* Reading with four statements implements reading in one moment.
THEOREM ReadsAtOneMoment == Spec => ImplementsReportReader
<1>1. Init => Promised!Init
  BY MapInit
<1>2. IInv /\ [Next]_vars => [Promised!Next]_(Promised!vars)
  BY MapStep
<1> QED
  BY <1>1, <1>2, Invariance, PTL DEF Spec, ImplementsReportReader, Promised!Spec

-----------------------------------------------------------------------------
\* The saves and Lifecycle.  Only a sweep can leave a call that works with a
\* record that is not running any more.

LiveInv == \A k \in Record : save[k].pc \in {"working", "saving"} => row[k].status = "running"

\* Readers only read.
LEMMA ReadersRead ==
    ASSUME NEW c \in Client, Reader(c)
    PROVE  UNCHANGED <<row, stored, analyzed, save>>
BY DEF Reader, Learn, Look, Ask, ReadIncident, ReadLatest, ReadRows, ReadReport, ReadFails

LEMMA LiveStep ==
    ASSUME IInv, LiveInv, [Next]_vars, [\A k \in Record : SweptIsOver(k)]_vars
    PROVE  LiveInv'
<1>0. row \in [Record -> Row] /\ save \in [Record -> Save]
  BY DEF IInv, TypeOK
<1>1. ASSUME NEW k \in Record, NEW i \in Incident, Create(k, i) PROVE LiveInv'
  BY <1>0, <1>1 DEF Create, LiveInv
<1>2. ASSUME NEW k \in Record, NEW o \in {"completed", "failed"}, BeginSave(k, o) PROVE LiveInv'
  BY <1>0, <1>2 DEF BeginSave, LiveInv, Save
<1>3. ASSUME NEW k \in Record, NEW w \in Write, Execute(k, w) PROVE LiveInv'
  BY <1>0, <1>3 DEF Execute, LiveInv, Save
<1>4. ASSUME NEW k \in Record, Commit(k) \/ Rollback(k) PROVE LiveInv'
  BY <1>0, <1>4 DEF Commit, Rollback, Done, LiveInv, Save, Row
<1>5. ASSUME NEW n \in 0..MaxClock, FailStale(n) PROVE LiveInv'
  <2>1. save' = save /\ \A k \in Record : row'[k].status \in {row[k].status, "failed"}
    BY <1>0, <1>5 DEF FailStale, Row
  <2>2. \A k \in Record : SweptIsOver(k) \/ row'[k] = row[k]
    BY DEF vars
  <2> QED BY <2>1, <2>2 DEF LiveInv, SweptIsOver
<1>6. CASE Tick \/ UNCHANGED vars
  BY <1>6 DEF Tick, vars, LiveInv
<1>7. ASSUME NEW c \in Client, Reader(c) PROVE LiveInv'
  BY <1>7, ReadersRead DEF LiveInv
<1> QED
  BY <1>1, <1>2, <1>3, <1>4, <1>5, <1>6, <1>7 DEF Next, Writer

LEMMA LifecycleInit == Init => Promise!Init
BY DEF Init, NoRow, Promise!Init

\* Only Create, Commit and FailStale show.
LEMMA LifecycleStep ==
    ASSUME IInv, LiveInv, [Next]_vars
    PROVE  [Promise!Next]_(Promise!vars)
<1> DEFINE status == [k \in Record |-> row[k].status]
           incident == [k \in Record |-> row[k].incident]
<1>0. row \in [Record -> Row] /\ save \in [Record -> Save]
  BY DEF IInv, TypeOK
<1>1. ASSUME NEW k \in Record, NEW i \in Incident, Create(k, i) PROVE Promise!Open(k, i)
  <2>1. row' = [row EXCEPT ![k] = [status |-> "running", incident |-> i, started |-> clock]]
        /\ row[k].status = "none" /\ analyzed' = analyzed
    BY <1>1 DEF Create
  <2>2. /\ status[k] = "none"
        /\ status' = [status EXCEPT ![k] = "running"]
        /\ incident' = [incident EXCEPT ![k] = i]
    BY <1>0, <2>1
  <2> QED BY <2>1, <2>2 DEF Promise!Open
<1>2. ASSUME NEW k \in Record, Commit(k)
      PROVE  Promise!Complete(k) \/ Promise!Fail({k})
  <2>1. /\ save[k].pc = "saving" /\ row[k].status = "running"
        /\ save[k].outcome \in {"completed", "failed"}
        /\ row' = [row EXCEPT ![k].status = save[k].outcome]
        /\ save[k].wrote = Writes(save[k].outcome)
        /\ analyzed' = IF "incident" \in save[k].wrote THEN analyzed \cup {row[k].incident}
                       ELSE analyzed
    BY <1>0, <1>2 DEF Commit, LiveInv, Save
  <2>2. /\ status[k] = "running"
        /\ status' = [status EXCEPT ![k] = save[k].outcome]
        /\ incident' = incident
    BY <1>0, <2>1 DEF Row
  <2>3. CASE save[k].outcome = "completed"
    <3>1. analyzed' = analyzed \cup {incident[k]}
      BY <2>1, <2>3 DEF Writes, Write
    <3> QED BY <2>2, <2>3, <3>1 DEF Promise!Complete
  <2>4. CASE save[k].outcome = "failed"
    <3>1. analyzed' = analyzed
      BY <2>1, <2>4 DEF Writes
    <3>2. status' = [j \in Record |-> IF j \in {k} THEN "failed" ELSE status[j]]
      BY <2>2, <2>4
    <3> QED BY <2>2, <3>1, <3>2 DEF Promise!Fail
  <2> QED BY <2>1, <2>3, <2>4
<1>3. ASSUME NEW n \in 0..MaxClock, FailStale(n)
      PROVE  Promise!Next
  <2> DEFINE stale == {k \in Record : row[k].status = "running" /\ row[k].started < clock - n}
  <2>1. /\ row' = [k \in Record |-> IF k \in stale THEN [row[k] EXCEPT !.status = "failed"]
                                    ELSE row[k]]
        /\ analyzed' = analyzed
    BY <1>3 DEF FailStale
  <2>2. stale \in SUBSET Record /\ \A k \in stale : row[k].status = "running"
    OBVIOUS
  <2> HIDE DEF stale
  <2>3. /\ \A k \in stale : status[k] = "running"
        /\ status' = [k \in Record |-> IF k \in stale THEN "failed" ELSE status[k]]
        /\ incident' = incident
    BY <1>0, <2>1, <2>2 DEF Row
  <2>4. PICK K \in SUBSET Record : K = stale
    BY <2>2
  <2>5. Promise!Fail(K)
    BY <2>1, <2>3, <2>4 DEF Promise!Fail
  <2> QED BY <2>5 DEF Promise!Next
<1>4. ASSUME UNCHANGED <<row, analyzed>> PROVE UNCHANGED Promise!vars
  <2>1. status' = status /\ incident' = incident /\ analyzed' = analyzed
    BY <1>4
  <2> QED BY <2>1, Zenon DEF Promise!vars
<1>5. ASSUME NEW k \in Record, Writer(k) PROVE [Promise!Next]_(Promise!vars)
  <2>1. CASE \E o \in {"completed", "failed"} : BeginSave(k, o)
    BY <2>1, <1>4 DEF BeginSave
  <2>2. CASE \E w \in Write : Execute(k, w)
    BY <2>2, <1>4 DEF Execute
  <2>3. CASE Rollback(k)
    BY <2>3, <1>4 DEF Rollback
  <2> QED
    BY <1>1, <1>2, <1>5, <2>1, <2>2, <2>3 DEF Writer, Promise!Next
<1>6. CASE Tick \/ UNCHANGED vars
  BY <1>4, <1>6 DEF Tick, vars
<1>7. ASSUME NEW c \in Client, Reader(c) PROVE UNCHANGED Promise!vars
  BY <1>4, <1>7, ReadersRead
<1> QED
  BY <1>3, <1>5, <1>6, <1>7 DEF Next, Promise!Next

\* FinishInvestigation is several statements, and concludes like the one step of
\* Lifecycle: nobody sees a record without its incident, and what has concluded
\* stays.  This is for sweeps that leave the living alone, which is what
\* SweepsSpareTheLiving of InvestigationsProofs shows of the engines.
THEOREM SavesConclude ==
    Spec /\ SweepsSpareLiveCalls => ConcludesLikeLifecycle
<1>1. Init => LiveInv
  BY DEF Init, LiveInv, NoSave
<1>2. IInv /\ LiveInv /\ [Next]_vars /\ [\A k \in Record : SweptIsOver(k)]_vars => LiveInv'
  BY LiveStep
<1>3. IInv /\ LiveInv /\ [Next]_vars => [Promise!Next]_(Promise!vars)
  BY LifecycleStep
<1> QED
  BY <1>1, <1>2, <1>3, LifecycleInit, Invariance, PTL
  DEF Spec, SweepsSpareLiveCalls, ConcludesLikeLifecycle, Promise!Spec
=============================================================================
