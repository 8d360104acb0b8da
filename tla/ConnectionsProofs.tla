------------------------- MODULE ConnectionsProofs -------------------------
(***************************************************************************)
(* No pool and no lock order of the store brings its callers to a stop:    *)
(* for any replicas, pool sizes, jobs and incidents.                       *)
(***************************************************************************)
EXTENDS Connections, FiniteSetTheorems, SequenceTheorems, TLAPS

\* A job has a connection, and can be at a row, only while it is open.
PoolInv ==
    /\ \A j \in Job : phase[j] = "open" <=> j \in connected
    /\ \A j \in Job : phase[j] # "done" => left[j] >= 1
    /\ \A j \in Job : phase[j] # "open" => holds[j] = {} /\ target[j] = NoLock

\* What a transaction locks is what it may lock, each row once, and the row of
\* a save when nothing else is left to lock.
LockInv ==
    \A j \in Job :
      /\ todo[j] \cup holds[j] \subseteq Locks(j) /\ todo[j] \cap holds[j] = {}
      /\ target[j] # NoLock => MayReach(j, target[j])
      /\ j \in Save /\ j \in holds[j] => todo[j] = {}

Shape ==
    /\ phase \in [Job -> {"new", "queued", "open", "done"}]
    /\ left \in [Job -> Nat]
    /\ connected \subseteq Job
    /\ todo \in [Job -> SUBSET Lock]
    /\ target \in [Job -> Lock \cup {NoLock}]
    /\ holds \in [Job -> SUBSET Lock]

Bounded == \A r \in Replica : Cardinality(InUse(r)) <= MaxConns

IInv == TypeOK /\ PoolInv /\ LockInv

LEMMA Types == TypeOK <=> Shape /\ Bounded /\ queue \in [Replica -> Seq(Job)]
BY DEF TypeOK, Shape, Bounded

LEMMA HomeType == \A j \in Job : Home[j] \in Replica
BY ConnectionsAssumption

LEMMA LocksType == \A j \in Job : Locks(j) \subseteq Lock
BY ConnectionsAssumption DEF Locks, Lock, Job

LEMMA InitInv == Init => IInv
<1> SUFFICES ASSUME Init PROVE IInv
  OBVIOUS
<1> USE ConnectionsAssumption
<1>1. Shape
  BY LocksType DEF Init, Shape
<1>2. Bounded
  <2>1. \A r \in Replica : InUse(r) = {}
    BY DEF Init, InUse
  <2> QED
    BY <2>1, FS_EmptySet DEF Bounded
<1>3. queue \in [Replica -> Seq(Job)]
  BY DEF Init
<1>4. PoolInv /\ LockInv
  BY DEF Init, PoolInv, LockInv
<1> QED
  BY <1>1, <1>2, <1>3, <1>4, Types DEF IInv

\* A pool whose connections come back holds no more than before.
LEMMA Released ==
  ASSUME TypeOK, connected' \subseteq connected
  PROVE  Bounded'
<1> SUFFICES ASSUME NEW r \in Replica PROVE Cardinality(InUse(r)') <= MaxConns
  BY DEF Bounded
<1>1. InUse(r)' \in SUBSET InUse(r) /\ InUse(r) \in SUBSET Job
  BY DEF InUse, TypeOK
<1>2. IsFiniteSet(InUse(r)) /\ IsFiniteSet(InUse(r)')
  BY <1>1, ConnectionsAssumption, FS_Subset
<1>3. Cardinality(InUse(r)') <= Cardinality(InUse(r))
  BY <1>1, <1>2, FS_Subset
<1>4. Cardinality(InUse(r)) \in Nat /\ Cardinality(InUse(r)') \in Nat
  BY <1>2, FS_CardinalityType
<1>5. Cardinality(InUse(r)) <= MaxConns /\ MaxConns \in Nat
  BY ConnectionsAssumption DEF TypeOK
<1> QED
  BY <1>3, <1>4, <1>5

\* A connection is given out while one is free.
LEMMA Given ==
  ASSUME TypeOK, NEW j \in Job, Acquire(j)
  PROVE  Bounded'
<1> SUFFICES ASSUME NEW r \in Replica PROVE Cardinality(InUse(r)') <= MaxConns
  BY DEF Bounded
<1>0. IsFiniteSet(InUse(r)) /\ Cardinality(InUse(r)) \in Nat
  <2>1. InUse(r) \in SUBSET Job
    BY DEF InUse, TypeOK
  <2> QED
    BY <2>1, ConnectionsAssumption, FS_Subset, FS_CardinalityType
<1>1. CASE r = Home[j]
  <2>1. InUse(r)' = InUse(r) \cup {j} /\ Cardinality(InUse(r)) < MaxConns
    BY <1>1 DEF Acquire, InUse
  <2>2. /\ Cardinality(InUse(r) \cup {j}) \in Nat
        /\ Cardinality(InUse(r) \cup {j}) <= Cardinality(InUse(r)) + 1
    <3>1. Cardinality(InUse(r) \cup {j}) =
            IF j \in InUse(r) THEN Cardinality(InUse(r)) ELSE Cardinality(InUse(r)) + 1
      BY <1>0, FS_AddElement
    <3> QED
      BY <1>0, <3>1
  <2>3. MaxConns \in Nat
    BY ConnectionsAssumption
  <2>4. Cardinality(InUse(r) \cup {j}) <= MaxConns
    BY <1>0, <2>1, <2>2, <2>3
  <2> QED
    BY <2>1, <2>4
<1>2. CASE r # Home[j]
  <2>1. InUse(r)' = InUse(r)
    BY <1>2 DEF Acquire, InUse
  <2> QED
    BY <2>1 DEF TypeOK
<1> QED
  BY <1>1, <1>2

\* What each step does to the queues.
LEMMA QueueStep ==
  ASSUME IInv, [Next]_vars
  PROVE  (queue \in [Replica -> Seq(Job)])'
<1> USE HomeType DEF IInv, TypeOK
<1>1. ASSUME NEW j \in Job, Enqueue(j) PROVE queue' \in [Replica -> Seq(Job)]
  BY <1>1, AppendProperties DEF Enqueue
<1>2. ASSUME NEW j \in Job, Acquire(j) PROVE queue' \in [Replica -> Seq(Job)]
  <2>1. queue[Home[j]] \in Seq(Job) /\ queue[Home[j]] # <<>>
    BY <1>2 DEF Acquire
  <2>2. Tail(queue[Home[j]]) \in Seq(Job)
    BY <2>1, HeadTailProperties
  <2> QED
    BY <1>2, <2>2 DEF Acquire
<1>3. ASSUME NEW j \in Job, GiveUp(j) PROVE queue' \in [Replica -> Seq(Job)]
  <2> DEFINE q == queue[Home[j]]
  <2>1. q \in Seq(Job)
    OBVIOUS
  <2>2. PICK i \in 1..Len(q) :
          queue' = [queue EXCEPT ![Home[j]] = SubSeq(q, 1, i - 1) \o SubSeq(q, i + 1, Len(q))]
    BY <1>3 DEF GiveUp
  <2>3. Len(q) \in Nat /\ i \in Nat
    BY <2>1, LenProperties
  <2>4. SubSeq(q, 1, i - 1) \in Seq(Job) /\ SubSeq(q, i + 1, Len(q)) \in Seq(Job)
    <3>1. /\ \A k \in 1..(i - 1) : k \in 1..Len(q)
          /\ \A k \in (i + 1)..Len(q) : k \in 1..Len(q)
      BY <2>3
    <3>2. \A k \in 1..Len(q) : q[k] \in Job
      BY <2>1, ElementOfSeq
    <3> QED
      BY <2>1, <2>3, <3>1, <3>2, SubSeqProperties
  <2>5. SubSeq(q, 1, i - 1) \o SubSeq(q, i + 1, Len(q)) \in Seq(Job)
    BY <2>4, ConcatProperties
  <2> QED
    BY <2>2, <2>5
<1>4. ASSUME UNCHANGED queue PROVE queue' \in [Replica -> Seq(Job)]
  BY <1>4
<1>5. CASE UNCHANGED vars
  BY <1>4, <1>5 DEF vars
<1>6. ASSUME NEW j \in Job, Submit(j) \/ Work(j) \/ GiveUp(j) \/ Skip(j) \/ Fail(j)
      PROVE  queue' \in [Replica -> Seq(Job)]
  BY <1>1, <1>2, <1>3, <1>4, <1>6
  DEF Submit, Work, Statement, Take, Commit, TimeOut, Reach, Skip, Fail, Close
<1> QED
  BY <1>5, <1>6 DEF Next

LEMMA BoundedStep == IInv /\ [Next]_vars => Bounded'
<1> SUFFICES ASSUME IInv, [Next]_vars PROVE Bounded'
  OBVIOUS
<1>1. CASE connected' \subseteq connected
  BY <1>1, Released DEF IInv
<1>2. CASE \E j \in Job : Acquire(j)
  BY <1>2, Given DEF IInv
<1>3. connected' \subseteq connected \/ \E j \in Job : Acquire(j)
  BY DEF Next, vars, Submit, Work, GiveUp, Statement, Take, Commit, TimeOut, Reach, Skip, Fail, Close
<1> QED
  BY <1>1, <1>2, <1>3

\* The jobs after a step.
Jobs == Shape /\ PoolInv /\ LockInv

\* A step that leaves locks and targets alone preserves what is said of them.
LEMMA SameLocks ==
  ASSUME LockInv, UNCHANGED <<todo, target, holds>>
  PROVE  LockInv'
BY DEF LockInv, MayReach

LEMMA CloseStep ==
  ASSUME IInv, NEW j \in Job, phase[j] = "open", Close(j)
  PROVE  Jobs'
<1> USE DEF IInv, TypeOK
<1>1. Shape'
  BY ConnectionsAssumption DEF Close, Shape
<1>2. PoolInv'
  BY DEF Close, PoolInv
<1>3. LockInv'
  <2> SUFFICES ASSUME NEW k \in Job
               PROVE  (/\ todo[k] \cup holds[k] \subseteq Locks(k) /\ todo[k] \cap holds[k] = {}
                       /\ target[k] # NoLock => MayReach(k, target[k])
                       /\ k \in Save /\ k \in holds[k] => todo[k] = {})'
    BY DEF LockInv
  <2>1. CASE k = j
    BY <2>1 DEF Close, LockInv
  <2>2. CASE k # j
    BY <2>2 DEF Close, LockInv, MayReach
  <2> QED
    BY <2>1, <2>2
<1> QED
  BY <1>1, <1>2, <1>3 DEF Jobs

LEMMA StatementStep ==
  ASSUME IInv, NEW j \in Job, Statement(j)
  PROVE  Jobs'
<1> USE DEF IInv, TypeOK
<1>1. left[j] \in Nat /\ left[j] >= 1 /\ phase[j] = "open"
  BY DEF Statement, PoolInv
<1>2. holds[j] = {} /\ target[j] = NoLock
  <2>1. Locks(j) = {}
    BY ConnectionsAssumption DEF Statement, Locks
  <2> QED
    BY <2>1 DEF LockInv, MayReach
<1>3. CASE left[j] = 1
  <2>1. /\ phase' = [phase EXCEPT ![j] = "done"] /\ left' = [left EXCEPT ![j] = @ - 1]
        /\ connected' = connected \ {j} /\ UNCHANGED <<todo, target, holds>>
    BY <1>3 DEF Statement
  <2>2. Shape'
    BY <1>1, <2>1 DEF Shape
  <2>3. PoolInv'
    BY <1>1, <1>2, <2>1 DEF PoolInv
  <2> QED
    BY <2>1, <2>2, <2>3, SameLocks DEF Jobs
<1>4. CASE left[j] # 1
  BY <1>1, <1>2, <1>4, SameLocks DEF Statement, Shape, PoolInv, Jobs
<1> QED
  BY <1>3, <1>4

LEMMA TakeStep ==
  ASSUME IInv, NEW j \in Job, Take(j)
  PROVE  Jobs'
<1> USE DEF IInv, TypeOK
<1>1. Shape'
  BY DEF Take, Shape
<1>2. PoolInv'
  BY DEF Take, PoolInv
<1>3. LockInv'
  <2> SUFFICES ASSUME NEW k \in Job
               PROVE  (/\ todo[k] \cup holds[k] \subseteq Locks(k) /\ todo[k] \cap holds[k] = {}
                       /\ target[k] # NoLock => MayReach(k, target[k])
                       /\ k \in Save /\ k \in holds[k] => todo[k] = {})'
    BY DEF LockInv
  <2>1. CASE k = j
    <3>1. MayReach(j, target[j])
      BY DEF Take, LockInv
    <3> QED
      BY <2>1, <3>1 DEF Take, LockInv, MayReach, Locks
  <2>2. CASE k # j
    BY <2>2 DEF Take, LockInv, MayReach, Locks
  <2> QED
    BY <2>1, <2>2
<1> QED
  BY <1>1, <1>2, <1>3 DEF Jobs

LEMMA SkipStep ==
  ASSUME IInv, NEW j \in Job, Skip(j)
  PROVE  Jobs'
<1> USE DEF IInv, TypeOK
<1>1. Shape'
  BY DEF Skip, Shape
<1>2. PoolInv'
  BY DEF Skip, PoolInv
<1>3. LockInv'
  <2> SUFFICES ASSUME NEW k \in Job
               PROVE  (/\ todo[k] \cup holds[k] \subseteq Locks(k) /\ todo[k] \cap holds[k] = {}
                       /\ target[k] # NoLock => MayReach(k, target[k])
                       /\ k \in Save /\ k \in holds[k] => todo[k] = {})'
    BY DEF LockInv
  <2>1. CASE k = j
    BY <2>1 DEF Skip, LockInv, MayReach, Locks
  <2>2. CASE k # j
    BY <2>2 DEF Skip, LockInv, MayReach, Locks
  <2> QED
    BY <2>1, <2>2
<1> QED
  BY <1>1, <1>2, <1>3 DEF Jobs

LEMMA ReachStep ==
  ASSUME IInv, NEW j \in Job, NEW l \in Lock, Reach(j, l)
  PROVE  Jobs'
<1> USE DEF IInv, TypeOK
<1>1. Shape'
  BY DEF Reach, Shape
<1>2. PoolInv'
  BY DEF Reach, PoolInv
<1>3. LockInv'
  BY DEF Reach, LockInv, MayReach, Locks
<1> QED
  BY <1>1, <1>2, <1>3 DEF Jobs

LEMMA JobStep == IInv /\ [Next]_vars => Jobs'
<1> SUFFICES ASSUME IInv, [Next]_vars PROVE Jobs'
  OBVIOUS
<1> USE DEF IInv, TypeOK
<1>1. ASSUME NEW j \in Job, Submit(j) PROVE Jobs'
  BY <1>1, SameLocks DEF Submit, Shape, PoolInv, Jobs
<1>2. ASSUME NEW j \in Job, Acquire(j) PROVE Jobs'
  BY <1>2, SameLocks DEF Acquire, Shape, PoolInv, Jobs
<1>3. ASSUME NEW j \in Job, GiveUp(j) PROVE Jobs'
  BY <1>3, SameLocks DEF GiveUp, Shape, PoolInv, Jobs
<1>4. ASSUME NEW j \in Job, Commit(j) \/ Fail(j) \/ TimeOut(j) PROVE Jobs'
  BY <1>4, CloseStep DEF Commit, Fail, TimeOut
<1>5. CASE UNCHANGED vars
  BY <1>5, SameLocks DEF vars, Shape, PoolInv, Jobs
<1> QED
  BY <1>1, <1>2, <1>3, <1>4, <1>5, StatementStep, TakeStep, SkipStep, ReachStep
  DEF Next, Work

LEMMA Invariant == Spec => []IInv
<1>1. IInv /\ [Next]_vars => IInv'
  <2> SUFFICES ASSUME IInv, [Next]_vars PROVE IInv'
    OBVIOUS
  <2>1. Bounded' /\ (queue \in [Replica -> Seq(Job)])' /\ Jobs'
    BY QueueStep, BoundedStep, JobStep
  <2>2. TypeOK'
    BY <2>1 DEF TypeOK, Bounded, Jobs, Shape
  <2> QED
    BY <2>1, <2>2 DEF IInv, Jobs
<1> QED
  BY <1>1, InitInv, PTL DEF Spec

\* The type invariant, with the bound of the pools.
THEOREM TypeCorrect == Spec => []TypeOK
<1>1. IInv => TypeOK
  BY DEF IInv
<1> QED
  BY <1>1, Invariant, PTL

\* Who waits for a connection has nothing that others wait for: see NoHoldAndWait.
THEOREM NobodyHoldsAndWaits == Spec => []NoHoldAndWait
<1>1. IInv => NoHoldAndWait
  BY DEF IInv, PoolInv, NoHoldAndWait
<1> QED
  BY <1>1, Invariant, PTL

\* A circle of waiting jobs holds two sweeps: see DeadlocksNeedTwoSweeps.
THEOREM SavesNeverDeadlock == Spec => []DeadlocksNeedTwoSweeps
<1>1. ASSUME IInv, NEW X \in SUBSET Job, Stuck(X)
      PROVE  \E j, k \in X \cap Sweep : j # k
  <2>1. \A j \in Job : /\ holds[j] \subseteq Locks(j) /\ todo[j] \subseteq Locks(j)
                       /\ target[j] # NoLock => target[j] \in todo[j] /\ target[j] \notin holds[j]
                       /\ holds[j] \subseteq Lock
    BY <1>1 DEF IInv, LockInv, MayReach, TypeOK
  <2>2. \A j \in X : target[j] # NoLock
    BY <1>1, <2>1, ConnectionsAssumption DEF Stuck
  <2>3. ASSUME NEW j \in X, NEW k \in X \ {j}, k \in Save, target[j] \in holds[k]
        PROVE  target[j] = About[k] /\ target[k] = k
    <3>1. target[k] \in todo[k] /\ todo[k] # {}
      BY <2>1, <2>2
    <3>2. k \notin holds[k]
      BY <2>3, <3>1, <1>1 DEF IInv, LockInv
    <3>3. Locks(k) = {k} \cup ({About[k]} \ {NoLock})
      BY <2>3 DEF Locks
    <3>4. target[j] = About[k] /\ About[k] \in holds[k]
      BY <2>1, <2>3, <3>2, <3>3
    <3>5. target[k] # About[k]
      BY <2>1, <2>2, <3>4
    <3> QED
      BY <2>1, <3>1, <3>3, <3>4, <3>5
  <2>4. ASSUME NEW j \in X, target[j] \in Save
        PROVE  \E k \in X \ {j} : k \in Sweep
    <3>1. PICK k \in X \ {j} : target[j] \in holds[k]
      BY <1>1 DEF Stuck
    <3>2. k \notin Save
      <4>1. SUFFICES ASSUME k \in Save PROVE FALSE
        OBVIOUS
      <4>2. target[j] = About[k]
        BY <2>3, <3>1, <4>1
      <4>3. About[k] \in Incident \cup {NoLock}
        BY <4>1, ConnectionsAssumption
      <4> QED
        BY <2>4, <4>2, <4>3, ConnectionsAssumption DEF Lock
    <3>3. k \notin Read
      BY <2>1, <3>1, ConnectionsAssumption DEF Locks
    <3> QED
      BY <3>2, <3>3 DEF Job
  <2>5. \E w \in X : w \in Sweep
    <3>1. PICK j \in X : TRUE
      BY <1>1 DEF Stuck
    <3>2. PICK k \in X \ {j} : target[j] \in holds[k]
      BY <1>1 DEF Stuck
    <3>3. CASE k \in Save
      <4>1. target[k] \in Save
        BY <2>3, <3>2, <3>3
      <4> QED
        BY <2>4, <4>1
    <3>4. CASE k \notin Save
      <4>1. k \notin Read
        BY <2>1, <3>2, ConnectionsAssumption DEF Locks
      <4> QED
        BY <3>4, <4>1 DEF Job
    <3> QED
      BY <3>3, <3>4
  <2>6. PICK w \in X : w \in Sweep
    BY <2>5
  <2>7. target[w] \in Save
    BY <2>1, <2>2, <2>6, ConnectionsAssumption DEF Locks
  <2> QED
    BY <2>4, <2>6, <2>7
<1>2. IInv => DeadlocksNeedTwoSweeps
  BY <1>1 DEF DeadlocksNeedTwoSweeps, AtARow
<1> QED
  BY <1>2, Invariant, PTL
=============================================================================
