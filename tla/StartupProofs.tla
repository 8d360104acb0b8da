--------------------------- MODULE StartupProofs ---------------------------
(***************************************************************************)
(* What has to be right before a process serves: the schema (Migrations),  *)
(* for any number of processes and any releases that add their versions at *)
(* the end, and the settings and the order of the steps (Startup), for any *)
(* environments and arguments.                                             *)
(***************************************************************************)
EXTENDS Migrations, Startup, TLAPS

-----------------------------------------------------------------------------
\* Migrations.  The invariant says what the lock protects: a transaction that
\* migrates holds it, sees the committed versions 1..current, has made its rows
\* 1..m, and has left what its command asks for beyond that.  Its schema is at s:
\* at m as well, or one script ahead of the rows.

\* How far p's transaction has come.
At(p, m, s) ==
    /\ ledger = 1..run[p].current
    /\ SeenLedger(p) = 1..m /\ SeenSchema(p) = 1..s
    /\ Unwritten(p) \subseteq run[p].left
    /\ run[p].goal = "up" =>
          /\ run[p].current <= m /\ (m = run[p].current \/ m <= Latest[p])
          /\ run[p].left = (m + 1)..Latest[p]
          /\ Unwritten(p) = (m + 1)..s
          /\ s = m \/ s = m + 1
    /\ run[p].goal = "down" =>
          /\ \/ m = run[p].current /\ run[p].left = {v \in Embedded(p) : v = m}
             \/ m = run[p].current - 1 /\ run[p].left = {}
          /\ Unwritten(p) = (s + 1)..m
          /\ s = m \/ s = m - 1

CommittedInv == schema = ledger /\ \E n \in 0..Newest : ledger = 1..n

LockInv ==
    \A p \in Process : run[p].pc \in {"locked", "migrating"} => holder = p

ProgressInv ==
    \A p \in Process : run[p].pc = "migrating" => \E m, s \in 0..Newest : At(p, m, s)

\* A session that has yet to read the version has changed nothing.
FreshInv ==
    \A p \in Process : run[p].pc # "migrating" => run[p].rows = {} /\ run[p].scripts = {}

IInv == Contiguous /\ TypeOK /\ CommittedInv /\ LockInv /\ FreshInv /\ ProgressInv

\* The first n versions end with n.
LEMMA MaxOfPrefix ==
    ASSUME NEW n \in Nat
    PROVE  MaxVersion(1..n) = n
<1>1. CASE n = 0
  BY <1>1 DEF MaxVersion
<1>2. CASE n > 0
  <2>1. n \in 1..n /\ \A u \in 1..n : u <= n
    BY <1>2
  <2>2. \A v \in 1..n : (\A u \in 1..n : u <= v) => v = n
    BY <1>2
  <2> QED
    BY <2>1, <2>2 DEF MaxVersion
<1> QED
  BY <1>1, <1>2

\* Sessions at rest are well typed and hold nothing.
LEMMA IdleRun ==
    ASSUME NEW answer \in {"none", "ok", "error"}
    PROVE  /\ Idle(answer) \in Run /\ Idle(answer).pc = "idle"
           /\ Idle(answer).rows = {} /\ Idle(answer).scripts = {}
  BY ReleaseAssumption DEF Idle, Run

LEMMA InvInit == Contiguous /\ Init => IInv
<1> SUFFICES ASSUME Contiguous, Init PROVE IInv
  OBVIOUS
<1>1. TypeOK
  BY IdleRun DEF Init, TypeOK
<1>2. ASSUME NEW p \in Process
      PROVE  run[p].pc = "idle" /\ run[p].rows = {} /\ run[p].scripts = {}
  <2>1. run[p] = Idle("none")
    BY DEF Init
  <2> QED
    BY <2>1, IdleRun
<1>3. ledger = 1..0 /\ 0 \in 0..Newest
  BY ReleaseAssumption DEF Init
<1> QED
  BY <1>1, <1>2, <1>3 DEF Init, IInv, CommittedInv, LockInv, FreshInv, ProgressInv

\* A transaction has come as far as before if neither it nor what is
\* committed has changed.
LEMMA StillAt ==
    ASSUME NEW p \in Process, NEW m \in 0..Newest, NEW s \in 0..Newest, At(p, m, s),
           run'[p] = run[p], UNCHANGED <<ledger, schema>>
    PROVE  At(p, m, s)'
  BY DEF At, SeenLedger, SeenSchema, Seen, Embedded, Unwritten

\* A step that changes only p's command, and leaves p outside its
\* transaction, keeps the invariant.
LEMMA Outside ==
    ASSUME IInv, NEW p \in Process, NEW r \in Run, Becomes(p, r),
           r.pc \in {"idle", "waiting", "gone"}, r.rows = {}, r.scripts = {},
           UNCHANGED <<ledger, schema>>,
           holder' = holder \/ (Unlock(p) /\ holder' # p)
    PROVE  IInv'
<1> USE DEF IInv
<1>1. TypeOK'
  BY DEF TypeOK, Becomes, Unlock
<1>2. /\ run'[p] = r /\ run'[p].pc \in {"idle", "waiting", "gone"}
      /\ \A q \in Process \ {p} : run'[q] = run[q]
  BY DEF TypeOK, Becomes
<1>3. CommittedInv'
  BY DEF CommittedInv
<1>4. LockInv'
  BY <1>2 DEF LockInv, Unlock
<1>5. ProgressInv'
  <2> SUFFICES ASSUME NEW q \in Process, run'[q].pc = "migrating"
               PROVE  \E m, s \in 0..Newest : At(q, m, s)'
    BY DEF ProgressInv
  <2>1. run'[q] = run[q]
    BY <1>2
  <2>2. PICK m, s \in 0..Newest : At(q, m, s)
    BY <2>1 DEF ProgressInv
  <2>3. At(q, m, s)'
    BY <2>1, <2>2, StillAt
  <2> QED
    BY <2>3
<1>6. FreshInv'
  BY <1>2 DEF FreshInv
<1> QED
  BY <1>1, <1>3, <1>4, <1>5, <1>6

\* A step of the holder inside its transaction keeps the invariant if it
\* keeps the account of how far it has come.
LEMMA Inside ==
    ASSUME IInv, NEW p \in Process, NEW r \in Run, Becomes(p, r),
           r.pc \in {"locked", "migrating"}, holder' = p,
           \A q \in Process \ {p} : run[q].pc \notin {"locked", "migrating"},
           UNCHANGED <<ledger, schema>>,
           r.pc = "locked" => r.rows = {} /\ r.scripts = {},
           r.pc = "migrating" => \E m, s \in 0..Newest : At(p, m, s)'
    PROVE  IInv'
<1> USE DEF IInv
<1>1. TypeOK'
  BY DEF TypeOK, Becomes
<1>2. run'[p] = r /\ \A q \in Process \ {p} : run'[q] = run[q]
  BY DEF TypeOK, Becomes
<1> QED
  BY <1>1, <1>2 DEF CommittedInv, LockInv, FreshInv, ProgressInv

\* With every row written, the schema is where the ledger is.
LEMMA Settled ==
    ASSUME NEW p \in Process, NEW m \in Nat, NEW s \in Nat, At(p, m, s), Unwritten(p) = {},
           run[p].goal \in {"up", "down"}
    PROVE  s = m
<1>1. CASE run[p].goal = "up"
  <2>1. (s = m \/ s = m + 1) /\ (m + 1)..s = {}
    BY <1>1 DEF At
  <2> QED
    BY <2>1
<1>2. CASE run[p].goal = "down"
  <2>1. (s = m \/ s = m - 1) /\ (s + 1)..m = {}
    BY <1>2 DEF At
  <2> QED
    BY <2>1
<1> QED
  BY <1>1, <1>2

\* A step of one session leaves the commands of the others alone.
LEMMA OthersStay ==
    ASSUME run \in [Process -> Run], NEW q \in Process, Step(q), NEW p \in Process \ {q}
    PROVE  run'[p] = run[p]
<1>1. \A r : Becomes(q, r) => run'[p] = run[p]
  BY DEF Becomes
<1>2. ASSUME NEW v \in Version, RunScript(q, v) \/ WriteRow(q, v) PROVE run'[p] = run[p]
  BY <1>1, <1>2 DEF RunScript, WriteRow
<1> QED
  BY <1>1, <1>2 DEF Step, Work, Begin, Lock, LockTimesOut, ReadCurrent, ApplyUp, ApplyDown,
      InsertRow, DeleteRow, Commit, CommitLost, CommitAs, Rollback, Crash, Reap

\* What a transaction that is done with its loop commits.
LEMMA AtTheEnd ==
    ASSUME IInv, NEW p \in Process, run[p].pc = "migrating", run[p].left = {}
    PROVE  /\ SeenSchema(p) = SeenLedger(p)
           /\ \E n \in 0..Newest : SeenLedger(p) = 1..n
           /\ \/ SeenLedger(p) = ledger
              \/ SeenLedger(p) = ledger \cup Embedded(p)
              \/ SeenLedger(p) = ledger \ {MaxVersion(ledger)}
<1>1. PICK m, s \in 0..Newest : At(p, m, s)
  BY DEF IInv, ProgressInv
<1>2. run[p].current \in Nat /\ Latest[p] \in Nat /\ run[p] \in Run /\ Newest \in Nat
  BY ReleaseAssumption DEF IInv, TypeOK, Run
<1>0. s = m
  <2>1. Unwritten(p) = {} /\ run[p].goal \in {"up", "down"} /\ m \in Nat /\ s \in Nat
    BY <1>1, <1>2 DEF At, Run
  <2> QED
    BY <1>1, <2>1, Settled
<1>3. CASE run[p].goal = "up"
  <2>1. m >= Latest[p]
    BY <1>1, <1>2, <1>3 DEF At
  <2>2. 1..m = 1..run[p].current \cup 1..Latest[p]
    BY <1>1, <1>2, <1>3, <2>1 DEF At
  <2> QED
    BY <1>0, <1>1, <2>2 DEF At, Embedded, IInv, Contiguous
<1>4. CASE run[p].goal = "down"
  <2>1. MaxVersion(ledger) = run[p].current
    BY <1>1, <1>2, MaxOfPrefix DEF At
  <2>2. m = run[p].current \/ m = run[p].current - 1
    BY <1>1, <1>4 DEF At
  <2>3. m = run[p].current - 1 => 1..m = 1..run[p].current \ {run[p].current}
    BY <1>2
  <2> QED
    BY <1>0, <1>1, <2>1, <2>2, <2>3 DEF At
<1> QED
  BY <1>0, <1>1, <1>2, <1>3, <1>4 DEF Run, At

LEMMA InvStep == IInv /\ [Next]_vars => IInv'
<1> SUFFICES ASSUME IInv, [Next]_vars PROVE IInv'
  OBVIOUS
<1> USE DEF IInv
<1>0. ASSUME NEW p \in Process, run[p].pc \in {"locked", "migrating"}
      PROVE  holder = p /\ \A q \in Process \ {p} : run[q].pc \notin {"locked", "migrating"}
  BY <1>0 DEF LockInv
<1>1. ASSUME NEW p \in Process, NEW goal \in {"up", "down"}, Begin(p, goal) PROVE IInv'
  <2> DEFINE r == [Idle("none") EXCEPT !.pc = "waiting", !.goal = goal]
  <2>1. r \in Run /\ r.pc = "waiting" /\ r.rows = {} /\ r.scripts = {}
    <3>1. Idle("none") \in Run
      BY IdleRun
    <3>2. r \in Run /\ r.pc = "waiting"
      BY <1>1, <3>1 DEF Run
    <3>3. r.rows = {} /\ r.scripts = {}
      BY DEF Idle
    <3> QED
      BY <3>2, <3>3
  <2>2. Becomes(p, r) /\ UNCHANGED <<ledger, schema, holder>>
    BY <1>1 DEF Begin
  <2> HIDE DEF r
  <2> QED
    BY <2>1, <2>2, Outside
<1>2. ASSUME NEW p \in Process, Lock(p) PROVE IInv'
  <2>1. [run[p] EXCEPT !.pc = "locked"] \in Run
    BY DEF TypeOK, Run
  <2>2. \A q \in Process : run[q].pc \notin {"locked", "migrating"}
    BY <1>2, ProcessAssumption DEF Lock, LockInv
  <2> DEFINE r == [run[p] EXCEPT !.pc = "locked"]
  <2>3. r.pc = "locked" /\ r.rows = {} /\ r.scripts = {}
    BY <1>2, <2>1 DEF TypeOK, Run, FreshInv, Lock
  <2> HIDE DEF r
  <2> QED
    BY <1>2, <2>1, <2>2, <2>3, Inside DEF Lock, r
<1>3. ASSUME NEW p \in Process, LockTimesOut(p) PROVE IInv'
  BY <1>3, IdleRun, Outside DEF LockTimesOut
<1>4. ASSUME NEW p \in Process, ReadCurrent(p) PROVE IInv'
  <2>1. PICK n \in 0..Newest : ledger = 1..n
    BY DEF CommittedInv
  <2>2. MaxVersion(ledger) = n /\ n \in Nat
    BY <2>1, MaxOfPrefix, ReleaseAssumption
  <2> DEFINE r == [run[p] EXCEPT !.pc = "migrating", !.current = n, !.left = Due(p, n)]
  <2>3. Becomes(p, r) /\ UNCHANGED <<ledger, schema, holder>> /\ run[p].pc = "locked"
    BY <1>4, <2>2 DEF ReadCurrent
  <2>4. Due(p, n) \subseteq Version
    BY ReleaseAssumption, <2>2 DEF Due, Embedded, Version
  <2>5. r \in Run /\ r.pc = "migrating"
    BY <2>1, <2>4 DEF TypeOK, Run
  <2>6. run'[p] = r
    BY <2>3 DEF TypeOK, Becomes
  <2>7. /\ r.current = n /\ r.left = Due(p, n) /\ r.rows = {} /\ r.scripts = {}
        /\ r.goal = run[p].goal
    BY <2>3 DEF TypeOK, Run, FreshInv
  <2> HIDE DEF r
  <2>8. At(p, n, n)'
    <3>1. r.goal = "up" => r.left = (n + 1)..Latest[p]
      BY <2>2, <2>7, ReleaseAssumption DEF Due, Embedded, Contiguous
    <3>2. r.goal = "down" => r.left = {v \in Embedded(p) : v = n}
      BY <2>7 DEF Due
    <3>3. SeenLedger(p)' = 1..n /\ SeenSchema(p)' = 1..n
      BY <2>1, <2>3, <2>6, <2>7 DEF SeenLedger, SeenSchema, Seen, CommittedInv
    <3>4. Unwritten(p)' = {} /\ (n + 1)..n = {}
      BY <2>2, <2>6, <2>7 DEF Unwritten
    <3> QED
      BY <2>1, <2>2, <2>3, <2>6, <2>7, <3>1, <3>2, <3>3, <3>4 DEF At, Embedded
  <2> QED
    BY <1>0, <2>3, <2>5, <2>8, Inside
<1>5. ASSUME NEW p \in Process, NEW v \in Version, RunScript(p, v),
             run[p].goal = "up" => v \notin SeenSchema(p)
      PROVE  IInv'
  <2>1. PICK m, s \in 0..Newest : At(p, m, s)
    BY <1>5 DEF RunScript, ProgressInv
  <2>2. m \in Nat /\ Latest[p] \in 0..Newest /\ run[p].current \in Nat /\ Newest \in Nat
    BY ReleaseAssumption DEF TypeOK, Run
  <2> DEFINE r == [run[p] EXCEPT !.scripts = @ \cup {v}]
  <2>3. Becomes(p, r) /\ UNCHANGED <<ledger, schema, holder>> /\ run[p].pc = "migrating"
    BY <1>5 DEF RunScript
  <2>4. r \in Run /\ r.pc = "migrating"
    BY <2>3 DEF TypeOK, Run
  <2>5. /\ r.goal = run[p].goal /\ r.current = run[p].current /\ r.left = run[p].left
        /\ r.rows = run[p].rows /\ r.scripts = run[p].scripts \cup {v}
    BY DEF TypeOK, Run
  <2>6. run'[p] = r
    BY <2>3 DEF TypeOK, Becomes
  <2> HIDE DEF r
  <2>7. Unwritten(p) = {} /\ s = m
    <3>1. Unwritten(p) = {} /\ run[p].goal \in {"up", "down"} /\ s \in Nat
      BY <1>5, <2>2 DEF RunScript, TypeOK, Run
    <3> QED
      BY <2>1, <2>2, <3>1, Settled
  <2>8. SeenLedger(p)' = SeenLedger(p)
    BY <2>3, <2>5, <2>6 DEF SeenLedger, Seen
  <2>9. v \in run[p].left /\ \A u \in run[p].left : v <= u
    BY <1>5 DEF RunScript, IsNext
  <2>10. CASE run[p].goal = "up"
    <3>1. v = m + 1 /\ v <= Latest[p]
      <4>1. run[p].left = (m + 1)..Latest[p]
        BY <2>1, <2>10 DEF At
      <4>2. v \in (m + 1)..Latest[p] /\ m + 1 \in (m + 1)..Latest[p]
        BY <2>2, <2>9, <4>1
      <4> QED
        BY <2>2, <2>9, <4>1, <4>2
    <3>2. SeenSchema(p)' = SeenSchema(p) \cup {v}
      BY <2>3, <2>5, <2>6, <2>10 DEF SeenSchema, Seen
    <3>3. 1..m \cup {m + 1} = 1..(m + 1) /\ {m + 1} = (m + 1)..(m + 1)
      BY <2>2
    <3>4. Unwritten(p)' = {v}
      <4>1. v \notin run[p].rows
        BY <1>5, <2>1, <2>2, <2>7, <2>10, <3>1 DEF At, SeenLedger, Seen
      <4> QED
        BY <2>5, <2>6, <2>7, <4>1 DEF Unwritten
    <3>5. At(p, m, m + 1)'
      <4>1. SeenSchema(p)' = 1..(m + 1) /\ Unwritten(p)' = (m + 1)..(m + 1)
        BY <2>1, <2>7, <3>1, <3>2, <3>3, <3>4 DEF At
      <4>2. Unwritten(p)' \subseteq r.left
        BY <2>5, <2>9, <3>4
      <4> QED
        BY <2>1, <2>2, <2>3, <2>5, <2>6, <2>8, <2>10, <4>1, <4>2 DEF At
    <3>6. m + 1 \in 0..Newest
      BY <2>2, <3>1
    <3> QED
      BY <1>0, <2>3, <2>4, <3>5, <3>6, Inside
  <2>11. CASE run[p].goal = "down"
    <3>1. v = m /\ m = run[p].current /\ m > 0 /\ run[p].left = {m}
      BY <2>1, <2>2, <2>9, <2>11 DEF At, Version
    <3>2. SeenSchema(p)' = SeenSchema(p) \ {v}
      BY <2>3, <2>5, <2>6, <2>11 DEF SeenSchema, Seen
    <3>3. (1..m) \ {m} = 1..(m - 1) /\ {m} = ((m - 1) + 1)..m
      BY <2>2
    <3>4. Unwritten(p)' = {v}
      <4>1. v \notin run[p].rows
        BY <2>1, <2>2, <2>11, <3>1 DEF At, SeenLedger, Seen
      <4> QED
        BY <2>5, <2>6, <2>7, <4>1 DEF Unwritten
    <3>5. At(p, m, m - 1)'
      <4>1. SeenSchema(p)' = 1..(m - 1) /\ Unwritten(p)' = ((m - 1) + 1)..m
        BY <2>1, <2>7, <3>1, <3>2, <3>3, <3>4 DEF At
      <4>2. Unwritten(p)' \subseteq r.left
        BY <2>5, <2>9, <3>4
      <4>3. r.left = {u \in Embedded(p) : u = m}
        BY <2>1, <2>2, <2>5, <2>11, <3>1 DEF At
      <4> QED
        BY <2>1, <2>2, <2>3, <2>5, <2>6, <2>8, <2>11, <3>1, <4>1, <4>2, <4>3 DEF At, Embedded
    <3>6. m - 1 \in 0..Newest
      BY <2>2, <3>1
    <3> QED
      BY <1>0, <2>3, <2>4, <3>5, <3>6, Inside
  <2> QED
    BY <2>10, <2>11 DEF TypeOK, Run
<1>6. ASSUME NEW p \in Process, NEW v \in Version, WriteRow(p, v) PROVE IInv'
  <2>1. PICK m, s \in 0..Newest : At(p, m, s)
    BY <1>6 DEF WriteRow, ProgressInv
  <2>2. m \in Nat /\ Latest[p] \in 0..Newest /\ run[p].current \in Nat /\ Newest \in Nat
    BY ReleaseAssumption DEF TypeOK, Run
  <2> DEFINE r == [run[p] EXCEPT !.left = @ \ {v}, !.rows = @ \cup {v}]
  <2>3. Becomes(p, r) /\ UNCHANGED <<ledger, schema, holder>> /\ run[p].pc = "migrating"
        /\ v \in Unwritten(p)
    BY <1>6 DEF WriteRow
  <2>4. r \in Run /\ r.pc = "migrating"
    BY <2>3 DEF TypeOK, Run
  <2>5. /\ r.goal = run[p].goal /\ r.current = run[p].current
        /\ r.left = run[p].left \ {v} /\ r.rows = run[p].rows \cup {v}
        /\ r.scripts = run[p].scripts
    BY DEF TypeOK, Run
  <2>6. run'[p] = r
    BY <2>3 DEF TypeOK, Becomes
  <2> HIDE DEF r
  <2>7. SeenSchema(p)' = SeenSchema(p) /\ Unwritten(p)' = Unwritten(p) \ {v}
    BY <2>3, <2>5, <2>6 DEF SeenSchema, Seen, Unwritten
  <2>8. CASE run[p].goal = "up"
    <3>1. s = m + 1 /\ v = s /\ Unwritten(p) = {v} /\ run[p].left = (m + 1)..Latest[p]
      BY <2>1, <2>2, <2>3, <2>8 DEF At
    <3>2. SeenLedger(p)' = SeenLedger(p) \cup {v}
      BY <2>3, <2>5, <2>6, <2>8 DEF SeenLedger, Seen
    <3>3. /\ 1..m \cup {m + 1} = 1..(m + 1) /\ (s + 1)..s = {}
          /\ ((m + 1)..Latest[p]) \ {m + 1} = (s + 1)..Latest[p]
      BY <2>2, <3>1
    <3>4. v <= Latest[p]
      BY <2>1, <2>2, <2>3, <3>1 DEF At
    <3>5. At(p, s, s)'
      <4>1. /\ SeenLedger(p)' = 1..s /\ SeenSchema(p)' = 1..s
            /\ Unwritten(p)' = (s + 1)..s /\ r.left = (s + 1)..Latest[p]
        BY <2>1, <2>5, <2>7, <3>1, <3>2, <3>3 DEF At
      <4>2. Unwritten(p)' = {}
        BY <3>3, <4>1
      <4> QED
        BY <2>1, <2>2, <2>3, <2>5, <2>6, <2>8, <3>1, <3>4, <4>1, <4>2 DEF At
    <3> QED
      BY <1>0, <2>3, <2>4, <3>5, Inside
  <2>9. CASE run[p].goal = "down"
    <3>1. s = m - 1 /\ v = m /\ Unwritten(p) = {v} /\ m = run[p].current /\ run[p].left = {m}
      BY <2>1, <2>2, <2>3, <2>9 DEF At
    <3>2. SeenLedger(p)' = SeenLedger(p) \ {v}
      BY <2>3, <2>5, <2>6, <2>9 DEF SeenLedger, Seen
    <3>3. (1..m) \ {m} = 1..(m - 1) /\ (s + 1)..s = {}
      BY <2>2, <3>1
    <3>4. At(p, s, s)'
      <4>1. /\ SeenLedger(p)' = 1..s /\ SeenSchema(p)' = 1..s
            /\ Unwritten(p)' = (s + 1)..s /\ r.left = {}
        BY <2>1, <2>5, <2>7, <3>1, <3>2, <3>3 DEF At
      <4>2. Unwritten(p)' = {}
        BY <3>3, <4>1
      <4> QED
        BY <2>1, <2>2, <2>3, <2>5, <2>6, <2>9, <3>1, <4>1, <4>2 DEF At
    <3> QED
      BY <1>0, <2>3, <2>4, <3>4, Inside
  <2> QED
    BY <2>8, <2>9 DEF TypeOK, Run
<1>7. ASSUME NEW p \in Process, NEW answer \in {"ok", "error"}, CommitAs(p, answer)
      PROVE  IInv'
  <2>1. run[p].pc = "migrating" /\ run[p].left = {}
    BY <1>7 DEF CommitAs
  <2>2. schema' = ledger' /\ \E n \in 0..Newest : ledger' = 1..n
    BY <1>7, <2>1, AtTheEnd DEF CommitAs
  <2>3. run'[p] = Idle(answer) /\ \A q \in Process \ {p} : run'[q] = run[q]
    BY <1>7 DEF CommitAs, Becomes, TypeOK
  <2>4. \A q \in Process : run'[q].pc \notin {"locked", "migrating"}
    BY <1>0, <2>1, <2>3, IdleRun
  <2>6. FreshInv'
    <3>1. Idle(answer).rows = {} /\ Idle(answer).scripts = {}
      BY <1>7, IdleRun
    <3> QED
      BY <2>3, <3>1 DEF FreshInv
  <2>5. TypeOK'
    <3>1. ledger' \subseteq Version /\ schema' \subseteq Version
      BY <2>2, ReleaseAssumption DEF Version
    <3>2. Idle(answer) \in Run
      BY <1>7, IdleRun
    <3> QED
      BY <1>7, <3>1, <3>2 DEF CommitAs, Becomes, Unlock, TypeOK
  <2> QED
    BY <2>2, <2>4, <2>5, <2>6 DEF CommittedInv, LockInv, ProgressInv
<1>8. ASSUME NEW p \in Process, Rollback(p) PROVE IInv'
  BY <1>8, IdleRun, Outside, ProcessAssumption DEF Rollback, Unlock
<1>9. ASSUME NEW p \in Process, Crash(p) PROVE IInv'
  <2>1. [Idle("none") EXCEPT !.pc = "gone"] \in Run
    BY ReleaseAssumption DEF Idle, Run
  <2> QED
    BY <1>9, <2>1, Outside DEF Crash, Idle
<1>10. ASSUME NEW p \in Process, Reap(p) PROVE IInv'
  BY <1>10, IdleRun, Outside, ProcessAssumption DEF Reap, Unlock
<1>11. CASE UNCHANGED vars
  <2>1. \A p \in Process, m, s \in 0..Newest : At(p, m, s) => At(p, m, s)'
    BY <1>11, StillAt DEF vars
  <2> QED
    BY <1>11, <2>1 DEF vars, TypeOK, CommittedInv, LockInv, FreshInv, ProgressInv
<1> QED
  BY <1>1, <1>2, <1>3, <1>4, <1>5, <1>6, <1>7, <1>8, <1>9, <1>10, <1>11
  DEF Next, Step, Work, ApplyUp, ApplyDown, InsertRow, DeleteRow, Commit, CommitLost

LEMMA Invariance ==
    ASSUME Contiguous
    PROVE  Spec => []IInv
  BY InvInit, InvStep, PTL DEF Spec

\* Commands, transactions and the ledger are well typed: no version is ever
\* recorded that no release has.
THEOREM TypeCorrect ==
    ASSUME Contiguous
    PROVE  Spec => []TypeOK
<1>1. IInv => TypeOK
  BY DEF IInv
<1> QED
  BY <1>1, Invariance, PTL

\* The ledger and the schema never part, for any number of processes and any
\* releases that add their versions at the end: an error, a lost commit or a death
\* between a script and its row leaves neither behind, and no command meets a
\* schema or a ledger that makes it leave one without the other.
THEOREM LedgerAndSchemaAgree ==
    ASSUME Contiguous
    PROVE  Spec => []LedgerTellsSchema
<1>1. IInv => LedgerTellsSchema
  BY DEF IInv, CommittedInv, LedgerTellsSchema
<1> QED
  BY <1>1, Invariance, PTL

\* The ledger is always the versions up to some one.
THEOREM LedgerIsPrefix ==
    ASSUME Contiguous
    PROVE  Spec => []NoGaps
<1>1. ASSUME IInv PROVE NoGaps
  <2>1. PICK n \in 0..Newest : ledger = 1..n
    BY <1>1 DEF IInv, CommittedInv
  <2> QED
    BY <2>1, ReleaseAssumption DEF NoGaps
<1> QED
  BY <1>1, Invariance, PTL

\* No script meets a schema it was not written for: the lock does exclude.
THEOREM LockExcludes ==
    ASSUME Contiguous
    PROVE  Spec => []ScriptsApplyCleanly
<1>1. ASSUME IInv PROVE ScriptsApplyCleanly
  <2> SUFFICES ASSUME NEW p \in Process, run[p].pc = "migrating"
               PROVE  /\ ~UpFails(p)
                      /\ run[p].goal = "down" /\ Unwritten(p) = {} =>
                            \A v \in Version : IsNext(p, v) => v \in SeenSchema(p)
    BY DEF ScriptsApplyCleanly
  <2>1. PICK m, s \in 0..Newest : At(p, m, s)
    BY <1>1 DEF IInv, ProgressInv
  <2>2. Latest[p] \in Nat /\ Newest \in Nat /\ m \in Nat /\ s \in Nat
    BY ReleaseAssumption
  <2>3. ~UpFails(p)
    <3> SUFFICES ASSUME run[p].goal = "up" PROVE ~UpFails(p)
      BY DEF UpFails
    <3>1. /\ SeenLedger(p) = 1..m /\ SeenSchema(p) = 1..s
          /\ run[p].left = (m + 1)..Latest[p] /\ Unwritten(p) = (m + 1)..s
          /\ s = m \/ s = m + 1
      BY <2>1 DEF At
    <3>2. Unwritten(p) \cap SeenLedger(p) = {}
      BY <2>2, <3>1
    <3>3. Unwritten(p) = {} => s = m
      BY <2>1, <2>2, Settled
    <3> QED
      BY <2>2, <3>1, <3>2, <3>3 DEF UpFails, IsNext
  <2>4. ASSUME run[p].goal = "down", Unwritten(p) = {}, NEW v \in Version, IsNext(p, v)
        PROVE  v \in SeenSchema(p)
    <3>1. s = m /\ v = m
      BY <2>1, <2>2, <2>4 DEF At, IsNext
    <3> QED
      BY <2>1, <2>2, <2>4, <3>1 DEF At, Version
  <2> QED
    BY <2>3, <2>4
<1> QED
  BY <1>1, Invariance, PTL

\* Migrations are applied all or none, and taken back one at a time.
THEOREM StepsAreWhole ==
    ASSUME Contiguous
    PROVE  Spec => WholeStepsOnly
<1> DEFINE Whole == \/ ledger' = ledger
                    \/ \E p \in Process : ledger' = ledger \cup Embedded(p)
                    \/ ledger' = ledger \ {MaxVersion(ledger)}
<1>1. ASSUME IInv, [Next]_vars PROVE [Whole]_vars
  <2>1. ASSUME NEW p \in Process, NEW answer, CommitAs(p, answer) PROVE Whole
    BY <1>1, <2>1, AtTheEnd DEF CommitAs
  <2>2. ASSUME NEW p \in Process, NEW v \in Version, RunScript(p, v) \/ WriteRow(p, v)
        PROVE  Whole
    BY <2>2 DEF RunScript, WriteRow
  <2>3. ASSUME NEW p \in Process, Step(p) PROVE Whole
    BY <2>1, <2>2, <2>3
    DEF Step, Work, Begin, Lock, LockTimesOut, ReadCurrent, ApplyUp, ApplyDown, InsertRow,
        DeleteRow, Commit, CommitLost, Rollback, Crash, Reap
  <2> QED
    BY <1>1, <2>3 DEF Next, vars
<1> QED
  BY <1>1, Invariance, PTL DEF Spec, WholeStepsOnly

\* A command that reports success has left nothing of its release pending,
\* provided releases add versions at the end.
THEOREM NothingStaysPending ==
    ASSUME Contiguous
    PROVE  Spec => AppliesAllPending
<1> DEFINE All == \A p \in Process :
                     run[p].pc = "migrating" /\ run[p].goal = "up" /\ run'[p] = Idle("ok")
                     => Embedded(p) \subseteq ledger'
<1>0. /\ Idle("ok").pc = "idle" /\ Idle("ok") # Idle("error")
      /\ \A r \in Run : r.pc = "migrating" => r # Idle("ok")
  BY DEF Idle
<1>1. ASSUME IInv, [Next]_vars PROVE [All]_vars
  <2> SUFFICES ASSUME Next, NEW p \in Process, run[p].pc = "migrating", run[p].goal = "up",
                      run'[p] = Idle("ok")
               PROVE  Embedded(p) \subseteq ledger'
    BY <1>1
  <2>1. PICK q \in Process : Step(q)
    BY DEF Next
  <2>2. run \in [Process -> Run]
    BY <1>1 DEF IInv, TypeOK
  <2>3. run'[p] # run[p]
    BY <1>0
  <2>4. q = p
    BY <2>1, <2>2, <2>3, OthersStay
  <2>5. Commit(p)
    <3>0. \A r : Becomes(p, r) => run'[p] = r
      BY <2>2 DEF Becomes
    <3>1. ~Rollback(p) /\ ~CommitLost(p)
      BY <1>0, <3>0 DEF Rollback, CommitLost, CommitAs
    <3>2. \A v \in Version : ~RunScript(p, v) /\ ~WriteRow(p, v)
      <4> SUFFICES ASSUME NEW v \in Version PROVE ~RunScript(p, v) /\ ~WriteRow(p, v)
        OBVIOUS
      <4> DEFINE r == [run[p] EXCEPT !.scripts = @ \cup {v}]
                 t == [run[p] EXCEPT !.left = @ \ {v}, !.rows = @ \cup {v}]
      <4>1. r \in Run /\ r.pc = "migrating" /\ t \in Run /\ t.pc = "migrating"
        BY <2>2 DEF Run
      <4> HIDE DEF r, t
      <4>2. ~Becomes(p, r) /\ ~Becomes(p, t)
        BY <1>0, <3>0, <4>1
      <4> QED
        BY <4>2 DEF RunScript, WriteRow, r, t
    <3>3. ~Crash(p)
      BY <1>0, <2>2 DEF Crash, Becomes, Idle
    <3> QED
      BY <2>1, <2>4, <3>1, <3>2, <3>3
      DEF Step, Work, Begin, Lock, LockTimesOut, ReadCurrent, ApplyUp, ApplyDown, InsertRow,
          DeleteRow, Reap
  <2>6. PICK m, s \in 0..Newest : At(p, m, s)
    BY <1>1 DEF IInv, ProgressInv
  <2>7. ledger' = 1..m /\ (m + 1)..Latest[p] = {}
    BY <2>5, <2>6 DEF Commit, CommitAs, At
  <2> QED
    BY <2>7, ReleaseAssumption DEF Embedded
<1> QED
  BY <1>1, Invariance, PTL DEF Spec, AppliesAllPending

-----------------------------------------------------------------------------
\* Startup.

\* The value that Load takes for v before it looks at the provider.
Taken(e, v) == IF e[v] \in {"unset", "word"} THEN Defaults[v] ELSE e[v]

\* An environment gives each variable one of its values.
LEMMA Settings ==
  ASSUME NEW e \in Environment
  PROVE  /\ e["APP_ENV"] \in {"unset", "production", "staging"}
         /\ e["HTTP_PORT"] \in {"unset", "in_range", "zero", "word"}
         /\ e["LOG_LEVEL"] \in {"unset", "debug", "word"}
         /\ e["DATABASE_URL"] \in {"unset", "url", "not_a_url"}
         /\ e["LLM_PROVIDER"] \in {"unset", "rules", "OpenAI", "ollama", "other"}
         /\ e["LLM_MODEL"] \in {"unset", "mine"}
         /\ e["LLM_TIMEOUT"] \in {"unset", "positive", "zero", "word"}
         /\ e["OPENAI_API_KEY"] \in {"unset", "key"}
         /\ e["SIMULATION_ENABLED"] \in {"unset", "true", "false", "word"}
         /\ e["SIMULATION_SCENARIO"] \in {"unset", "known", "unknown"}
         /\ e["INVESTIGATION_TIMEOUT"] \in {"unset", "positive", "zero", "word"}
         /\ e["MAX_CONCURRENT_INVESTIGATIONS"] \in {"unset", "in_range", "zero", "word"}
<1>1. \A v \in Variable : e[v] \in Values[v]
  BY StartupAssumption
<1> QED BY <1>1 DEF Variable, Values

Names == {"APP_ENV", "HTTP_PORT", "LOG_LEVEL", "DATABASE_URL", "LLM_PROVIDER", "LLM_MODEL",
          "LLM_TIMEOUT", "OPENAI_API_KEY", "SIMULATION_ENABLED", "SIMULATION_SCENARIO",
          "INVESTIGATION_TIMEOUT", "MAX_CONCURRENT_INVESTIGATIONS"}

LEMMA VariableNames == Variable = Names
BY DEF Variable, Values, Names

\* Only the provider and the model come out otherwise than they were taken.
LEMMA LoadedSettings ==
  ASSUME NEW e, NEW v \in Variable
  PROVE  /\ v \notin {"LLM_PROVIDER", "LLM_MODEL"} => Loaded(e)[v] = Taken(e, v)
         /\ v = "LLM_PROVIDER" => Loaded(e)[v] = Lower(Taken(e, v))
<1> DEFINE value == [w \in Variable |-> Taken(e, w)]
           provider == Lower(Taken(e, "LLM_PROVIDER"))
           model == IF value["LLM_MODEL"] = "unset" /\ provider \in DOMAIN DefaultModel
                    THEN DefaultModel[provider] ELSE value["LLM_MODEL"]
<1>1. Loaded(e) = [value EXCEPT !["LLM_PROVIDER"] = provider, !["LLM_MODEL"] = model]
  BY VariableNames DEF Loaded, Taken, Names
<1> HIDE DEF provider, model
<1>2. \A w \in Variable : value[w] = Taken(e, w)
  OBVIOUS
<1>3. provider = Lower(Taken(e, "LLM_PROVIDER"))
  BY DEF provider
<1> QED BY <1>1, <1>2, <1>3

\* What Load complains of, variable by variable.
LEMMA ComplaintsByName ==
  ASSUME NEW e, NEW v \in Variable
  PROVE  v \in Complaints(e) <=>
           \/ e[v] = "word"
           \/ /\ v \in {"HTTP_PORT", "LLM_TIMEOUT", "INVESTIGATION_TIMEOUT",
                        "MAX_CONCURRENT_INVESTIGATIONS"}
              /\ Taken(e, v) = "zero"
           \/ v = "DATABASE_URL" /\ Taken(e, v) = "unset"
           \/ v = "APP_ENV" /\ Taken(e, v) \notin {"development", "production"}
           \/ v = "LLM_PROVIDER" /\ Lower(Taken(e, v)) \notin DOMAIN DefaultModel
           \/ /\ v = "OPENAI_API_KEY" /\ Taken(e, v) = "unset"
              /\ Lower(Taken(e, "LLM_PROVIDER")) = "openai"
<1> DEFINE c == Loaded(e)
<1>1. /\ v \notin {"LLM_PROVIDER", "LLM_MODEL"} => c[v] = Taken(e, v)
      /\ v = "LLM_PROVIDER" => c[v] = Lower(Taken(e, v))
  BY LoadedSettings
<1>2. c.LLM_PROVIDER = Lower(Taken(e, "LLM_PROVIDER"))
  BY LoadedSettings, VariableNames DEF Names
<1>3. v \in Complaints(e) <=>
           \/ e[v] = "word"
           \/ /\ v \in {"HTTP_PORT", "LLM_TIMEOUT", "INVESTIGATION_TIMEOUT",
                        "MAX_CONCURRENT_INVESTIGATIONS"}
              /\ c[v] = "zero"
           \/ v = "DATABASE_URL" /\ c[v] = "unset"
           \/ v = "APP_ENV" /\ c[v] \notin {"development", "production"}
           \/ v = "LLM_PROVIDER" /\ c[v] \notin DOMAIN DefaultModel
           \/ v = "OPENAI_API_KEY" /\ c[v] = "unset" /\ c.LLM_PROVIDER = "openai"
  <2> HIDE DEF c
  <2>1. Complaints(e) =
          Unparsed(e)
          \cup {w \in {"HTTP_PORT", "LLM_TIMEOUT", "INVESTIGATION_TIMEOUT",
                       "MAX_CONCURRENT_INVESTIGATIONS"} : c[w] = "zero"}
          \cup {w \in {"DATABASE_URL"} : c[w] = "unset"}
          \cup {w \in {"APP_ENV"} : c[w] \notin {"development", "production"}}
          \cup {w \in {"LLM_PROVIDER"} : c[w] \notin DOMAIN DefaultModel}
          \cup {w \in {"OPENAI_API_KEY"} : c.LLM_PROVIDER = "openai" /\ c[w] = "unset"}
    BY Zenon DEF Complaints, c
  <2>2. v \in Unparsed(e) <=> e[v] = "word"
    BY DEF Unparsed
  <2> HIDE <1>1, <1>2
  <2> QED BY <2>1, <2>2
<1> HIDE DEF c
<1> QED BY <1>1, <1>2, <1>3

\* Lower and the table of models on the values that the provider takes.
LEMMA Providers ==
  /\ DOMAIN DefaultModel = {"rules", "openai", "ollama"}
  /\ Lower("OpenAI") = "openai" /\ Lower("rules") = "rules" /\ Lower("ollama") = "ollama"
  /\ Lower("other") = "other" /\ Lower("unset") = "unset"
BY DEF DefaultModel, Lower

\* Load complains of what is wrong and can be seen before the database is
\* asked, no less and no more.
LEMMA ComplaintsAreWrong ==
  ASSUME env \in Environment
  PROVE  Complaints(env) = Wrong \ Unseen
<1>1. \A v \in Variable : v \in Wrong \ Unseen <=>
        /\ v # "SIMULATION_SCENARIO" /\ ~(v = "DATABASE_URL" /\ env[v] = "not_a_url")
        /\ \/ env[v] \in {"word", "zero", "staging", "other", "not_a_url"}
           \/ v = "DATABASE_URL" /\ env[v] = "unset"
           \/ v = "OPENAI_API_KEY" /\ env[v] = "unset" /\ Lower(env["LLM_PROVIDER"]) = "openai"
  BY DEF Wrong, Unseen
<1>2. Complaints(env) \subseteq Variable /\ Wrong \subseteq Variable
  BY VariableNames DEF Names, Complaints, Unparsed, Wrong
<1>3. ASSUME NEW v \in Variable
      PROVE  v \in Complaints(env) <=> v \in Wrong \ Unseen
  <2> HIDE DEF Variable
  <2>1. v \in Names
    BY VariableNames
  <2>2. CASE v = "APP_ENV"
    BY <1>1, <2>2, ComplaintsByName, Settings DEF Taken, Defaults
  <2>3. CASE v = "HTTP_PORT"
    BY <1>1, <2>3, ComplaintsByName, Settings DEF Taken, Defaults
  <2>4. CASE v = "LOG_LEVEL"
    BY <1>1, <2>4, ComplaintsByName, Settings DEF Taken, Defaults
  <2>5. CASE v = "DATABASE_URL"
    BY <1>1, <2>5, ComplaintsByName, Settings DEF Taken, Defaults
  <2>6. CASE v = "LLM_PROVIDER"
    BY <1>1, <2>6, ComplaintsByName, Settings, Providers DEF Taken, Defaults
  <2>7. CASE v = "LLM_MODEL"
    BY <1>1, <2>7, ComplaintsByName, Settings DEF Taken, Defaults
  <2>8. CASE v = "LLM_TIMEOUT"
    BY <1>1, <2>8, ComplaintsByName, Settings DEF Taken, Defaults
  <2>9. CASE v = "OPENAI_API_KEY"
    BY <1>1, <2>9, ComplaintsByName, Settings, Providers DEF Taken, Defaults
  <2>10. CASE v = "SIMULATION_ENABLED"
    BY <1>1, <2>10, ComplaintsByName, Settings DEF Taken, Defaults
  <2>11. CASE v = "SIMULATION_SCENARIO"
    BY <1>1, <2>11, ComplaintsByName, Settings DEF Taken, Defaults
  <2>12. CASE v = "INVESTIGATION_TIMEOUT"
    BY <1>1, <2>12, ComplaintsByName, Settings DEF Taken, Defaults
  <2>13. CASE v = "MAX_CONCURRENT_INVESTIGATIONS"
    BY <1>1, <2>13, ComplaintsByName, Settings DEF Taken, Defaults
  <2> QED
    BY <2>1, <2>2, <2>3, <2>4, <2>5, <2>6, <2>7, <2>8, <2>9, <2>10, <2>11, <2>12, <2>13
    DEF Names
<1> QED BY <1>2, <1>3

\* The inductive invariant says what has been settled at each phase.
Serving == {"migrate", "sweep", "toolbox", "listen", "serving", "draining"}

StartupTypes == env \in Environment /\ args \in Args

\* Before Load nothing has been done; a complaint of Load is the end.
LoadFirst ==
    /\ phase \in {"load", "connect"} => did = {}
    /\ phase # "load" /\ Complaints(env) # {} =>
          phase = "exited" /\ exit = 1 /\ did = {} /\ named = Complaints(env)
    /\ phase # "load" /\ Complaints(env) = {} => config = Loaded(env)

\* Only a process that was asked to serves, on a URL that parses, and what
\* listens has a scenario that is known or not asked for.
Prepared ==
    /\ phase \in Serving => args = "serve" /\ config.DATABASE_URL = "url"
    /\ phase \in {"listen", "serving", "draining"} \/ "served" \in did =>
          /\ phase # "load" /\ Complaints(env) = {} /\ config.DATABASE_URL = "url"
          /\ ~(config.SIMULATION_ENABLED = "true" /\ config.SIMULATION_SCENARIO = "unknown")

StartupInv == StartupTypes /\ LoadFirst /\ Prepared

LEMMA StartupInvariance == StartupSpec => []StartupInv
<1>1. StartupInit => StartupInv
  BY DEF StartupInit, StartupInv, StartupTypes, LoadFirst, Prepared, Serving
<1>2. ASSUME StartupInv, [StartupNext]_startupVars
      PROVE  StartupInv'
  <2> USE DEF StartupInv, StartupTypes, LoadFirst, Prepared, Serving
  <2>1. CASE Load
    <3>1. CASE Complaints(env) # {}
      BY <1>2, <2>1, <3>1 DEF Load, Exit
    <3>2. CASE Complaints(env) = {}
      BY <1>2, <2>1, <3>2 DEF Load, GoOn
    <3> QED BY <3>1, <3>2
  <2>2. CASE Connect
    <3>0. Complaints(env) = {} /\ did = {}
      BY <1>2, <2>2 DEF Connect
    <3> QED BY <1>2, <2>2, <3>0 DEF Connect, Exit, GoOn
  <2>3. CASE Command
    BY <1>2, <2>3 DEF Command, Leave, Perhaps
  <2>4. CASE Migrate
    BY <1>2, <2>4 DEF Migrate, Leave, GoOn, Perhaps
  <2>5. CASE Sweep
    BY <1>2, <2>5 DEF Sweep, Leave, GoOn, Perhaps
  <2>6. CASE Toolbox
    BY <1>2, <2>6 DEF Toolbox, Leave, GoOn
  <2>7. CASE Listen
    BY <1>2, <2>7 DEF Listen, Leave, GoOn
  <2>8. CASE Signal
    BY <1>2, <2>8 DEF Signal
  <2>9. CASE Shutdown
    BY <1>2, <2>9 DEF Shutdown, GoOn
  <2>10. CASE ServeFails \/ Drained \/ GraceEnds
    BY <1>2, <2>10 DEF ServeFails, Drained, GraceEnds, Leave
  <2>11. CASE Close
    BY <1>2, <2>11 DEF Close
  <2>12. CASE Handler
    BY <1>2, <2>12 DEF Handler, Arrive, Acquire, Release, Return
  <2>13. CASE UNCHANGED startupVars
    BY <1>2, <2>13 DEF startupVars
  <2> QED
    BY <1>2, <2>1, <2>2, <2>3, <2>4, <2>5, <2>6, <2>7, <2>8, <2>9, <2>10, <2>11, <2>12, <2>13
    DEF StartupNext, Proceed
<1> QED BY <1>1, <1>2, PTL DEF StartupSpec

\* A process whose settings Load can see to be wrong ends with status 1, names
\* every one of them at once, the unparsed and the out of range alike, and has
\* not touched the database; none with a wrong setting, seen by Load or later
\* by pgx or the toolbox, ever serves.
THEOREM BadSettingsRefused == StartupSpec => []RefusedAtOnce
<1>1. ASSUME StartupInv PROVE RefusedAtOnce
  <2>1. env \in Environment /\ Complaints(env) = Wrong \ Unseen
    BY <1>1, ComplaintsAreWrong DEF StartupInv, StartupTypes
  <2>2. phase # "load" /\ Wrong \ Unseen # {} =>
          exit = 1 /\ did = {} /\ named = Wrong \ Unseen
    BY <1>1, <2>1 DEF StartupInv, LoadFirst
  <2>3. ASSUME "served" \in did PROVE Wrong = {}
    <3>1. /\ Complaints(env) = {} /\ config = Loaded(env)
          /\ config["DATABASE_URL"] = "url"
          /\ ~(config["SIMULATION_ENABLED"] = "true" /\ config["SIMULATION_SCENARIO"] = "unknown")
      BY <1>1, <2>3 DEF StartupInv, LoadFirst, Prepared
    <3>2. \A v \in {"DATABASE_URL", "SIMULATION_ENABLED", "SIMULATION_SCENARIO"} :
             config[v] = Taken(env, v)
      BY <3>1, LoadedSettings, VariableNames DEF Names
    <3>3. env["DATABASE_URL"] # "not_a_url"
      BY <3>1, <3>2 DEF Taken
    <3>4. "SIMULATION_SCENARIO" \notin Wrong
      <4>1. env["SIMULATION_SCENARIO"] \in {"unset", "known", "unknown"}
        BY <2>1, Settings
      <4>2. env["SIMULATION_ENABLED"] \in {"unset", "true", "false", "word"}
        BY <2>1, Settings
      <4>3. env["SIMULATION_SCENARIO"] = "unknown" => env["SIMULATION_ENABLED"] = "false"
        BY <3>1, <3>2, <4>1, <4>2 DEF Taken, Defaults
      <4> QED BY <4>1, <4>3 DEF Wrong
    <3> QED BY <2>1, <3>1, <3>3, <3>4 DEF Unseen
  <2> QED BY <2>2, <2>3 DEF RefusedAtOnce
<1> QED BY <1>1, StartupInvariance, PTL
=============================================================================
