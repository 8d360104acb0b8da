---------------------------- MODULE Connections ----------------------------
(***************************************************************************)
(* The connections of the replicas' pools and the row locks of PostgreSQL, *)
(* as the store's operations take them.  A read sends its statements one   *)
(* by one, each on a connection of its own; a save is one transaction that *)
(* updates the incident, if it has a report, and then its own row; a sweep *)
(* is one UPDATE that takes the running rows in the order it meets them.   *)
(* A row is named by the save of its investigation.                        *)
(***************************************************************************)
EXTENDS Naturals, Sequences, FiniteSets

CONSTANTS
    Replica,    \* each with a pool
    MaxConns,   \* connections of a pool
    Read,       \* operations that only read or insert
    Save,       \* calls of FinishInvestigation
    Sweep,      \* calls of FailStaleInvestigations
    Home,       \* Home[j]: the replica of job j
    Statements, \* Statements[j]: how many statements read j sends
    Incident,
    About,      \* About[j]: the incident that save j marks, NoLock without a report
    NoLock      \* no row

Job == Read \cup Save \cup Sweep
Lock == Save \cup Incident

ASSUME ConnectionsAssumption ==
    /\ MaxConns \in Nat \ {0}
    /\ Home \in [Job -> Replica] /\ IsFiniteSet(Job)
    /\ Statements \in [Read -> Nat \ {0}]
    /\ About \in [Save -> Incident \cup {NoLock}]
    /\ Read \cap Save = {} /\ Read \cap Sweep = {} /\ Save \cap Sweep = {}
    /\ Save \cap Incident = {} /\ NoLock \notin Lock

VARIABLES
    phase,      \* phase[j]: "new", "queued" for a connection, "open", "done"
    left,       \* left[j]: the statements or transactions j has still to send
    connected,  \* the jobs that have a connection
    queue,      \* queue[r]: who waits for a connection of r, first come first
    todo,       \* todo[j]: the rows the transaction of j has still to lock
    target,     \* target[j]: the row it is at, or NoLock
    holds       \* holds[j]: the rows it has locked

vars == <<phase, left, connected, queue, todo, target, holds>>

\* Mutant: a sweep updates the incidents of what it fails too.
Locks_SweepMarksIncidents(j) ==
    IF j \in Save THEN {j} \cup ({About[j]} \ {NoLock})
    ELSE IF j \in Sweep THEN Lock ELSE {}

Locks(j) == IF j \in Save THEN {j} \cup ({About[j]} \ {NoLock})
            ELSE IF j \in Sweep THEN Save ELSE {}

Init ==
    /\ phase = [j \in Job |-> "new"]
    /\ left = [j \in Job |-> IF j \in Read THEN Statements[j] ELSE 1]
    /\ connected = {}
    /\ queue = [r \in Replica |-> <<>>]
    /\ todo = [j \in Job |-> Locks(j)]
    /\ target = [j \in Job |-> NoLock]
    /\ holds = [j \in Job |-> {}]

-----------------------------------------------------------------------------
\* The next statement, or the transaction, asks the pool for a connection.
Enqueue(j) == queue' = [queue EXCEPT ![Home[j]] = Append(@, j)]

Submit(j) ==
    /\ phase[j] = "new"
    /\ phase' = [phase EXCEPT ![j] = "queued"]
    /\ Enqueue(j)
    /\ UNCHANGED <<left, connected, todo, target, holds>>

InUse(r) == {j \in connected : Home[j] = r}

Acquire(j) ==
    /\ phase[j] = "queued"
    /\ queue[Home[j]] # <<>> /\ Head(queue[Home[j]]) = j
    /\ Cardinality(InUse(Home[j])) < MaxConns
    /\ queue' = [queue EXCEPT ![Home[j]] = Tail(@)]
    /\ connected' = connected \cup {j}
    /\ phase' = [phase EXCEPT ![j] = "open"]
    /\ UNCHANGED <<left, todo, target, holds>>

\* The context ends before a connection is free.
GiveUp(j) ==
    /\ phase[j] = "queued"
    /\ phase' = [phase EXCEPT ![j] = "done"]
    /\ \E i \in 1..Len(queue[Home[j]]) :
         /\ queue[Home[j]][i] = j
         /\ queue' = [queue EXCEPT ![Home[j]] = SubSeq(@, 1, i - 1) \o SubSeq(@, i + 1, Len(@))]
    /\ UNCHANGED <<left, connected, todo, target, holds>>

\* Mutant: the rows of one statement are open while the next one is sent.
Statement_RowsStayOpen(j) ==
    /\ phase[j] = "open" /\ j \in Read
    /\ left' = [left EXCEPT ![j] = @ - 1]
    /\ IF left[j] = 1 THEN /\ phase' = [phase EXCEPT ![j] = "done"]
                           /\ connected' = connected \ {j}
                           /\ UNCHANGED queue
       ELSE phase' = [phase EXCEPT ![j] = "queued"] /\ Enqueue(j) /\ UNCHANGED connected
    /\ UNCHANGED <<todo, target, holds>>

\* A statement of a read: its rows are collected and closed before the next.
Statement(j) ==
    /\ phase[j] = "open" /\ j \in Read
    /\ connected' = connected \ {j}
    /\ left' = [left EXCEPT ![j] = @ - 1]
    /\ IF left[j] = 1 THEN phase' = [phase EXCEPT ![j] = "done"] /\ UNCHANGED queue
       ELSE phase' = [phase EXCEPT ![j] = "queued"] /\ Enqueue(j)
    /\ UNCHANGED <<todo, target, holds>>

\* A save updates its incident first; a sweep takes rows in any order.
MayReach(j, l) == l \in todo[j] /\ (j \in Save /\ l = j => todo[j] = {j})

Reach(j, l) ==
    /\ phase[j] = "open" /\ target[j] = NoLock
    /\ MayReach(j, l)
    /\ target' = [target EXCEPT ![j] = l]
    /\ UNCHANGED <<phase, left, connected, queue, todo, holds>>

Blocked(j) == \E k \in Job \ {j} : target[j] \in holds[k]

Take(j) ==
    /\ phase[j] = "open" /\ target[j] # NoLock /\ ~Blocked(j)
    /\ holds' = [holds EXCEPT ![j] = @ \cup {target[j]}]
    /\ todo' = [todo EXCEPT ![j] = @ \ {target[j]}]
    /\ target' = [target EXCEPT ![j] = NoLock]
    /\ UNCHANGED <<phase, left, connected, queue>>

\* A sweep leaves a row alone that has been concluded, or is too young.
Skip(j) ==
    /\ phase[j] = "open" /\ j \in Sweep /\ target[j] # NoLock /\ ~Blocked(j)
    /\ todo' = [todo EXCEPT ![j] = @ \ {target[j]}]
    /\ target' = [target EXCEPT ![j] = NoLock]
    /\ UNCHANGED <<phase, left, connected, queue, holds>>

\* The end of a transaction or of a failed statement.
Close(j) ==
    /\ phase' = [phase EXCEPT ![j] = "done"]
    /\ connected' = connected \ {j}
    /\ target' = [target EXCEPT ![j] = NoLock]
    /\ holds' = [holds EXCEPT ![j] = {}]
    /\ UNCHANGED <<left, queue, todo>>

Commit(j) ==
    /\ phase[j] = "open" /\ j \in Save \cup Sweep
    /\ todo[j] = {} /\ target[j] = NoLock
    /\ Close(j)

\* A refused statement, a context that ends, a lost connection.
Fail(j) == phase[j] = "open" /\ Close(j)

\* Mutant: no statement_timeout.
TimeOut_Never(j) == FALSE /\ Close(j)

\* statement_timeout ends a wait for a lock; so does the server's search for
\* deadlocks.
TimeOut(j) == phase[j] = "open" /\ Blocked(j) /\ Close(j)

Work(j) == \/ Acquire(j) \/ Statement(j) \/ Take(j) \/ Commit(j) \/ TimeOut(j)
           \/ \E l \in Lock : Reach(j, l)

Next == \E j \in Job : Submit(j) \/ Work(j) \/ GiveUp(j) \/ Skip(j) \/ Fail(j)

Spec == Init /\ [][Next]_vars

FairSpec == Spec /\ \A j \in Job : WF_vars(Work(j))

-----------------------------------------------------------------------------
\* The types of the variables; no pool gives out more than it has.
TypeOK ==
    /\ phase \in [Job -> {"new", "queued", "open", "done"}]
    /\ left \in [Job -> Nat]
    /\ connected \subseteq Job
    /\ \A r \in Replica : Cardinality(InUse(r)) <= MaxConns
    /\ queue \in [Replica -> Seq(Job)]
    /\ todo \in [Job -> SUBSET Lock]
    /\ target \in [Job -> Lock \cup {NoLock}]
    /\ holds \in [Job -> SUBSET Lock]

\* Nobody keeps a connection, or a row, while waiting for a connection: a pool
\* that is used up delays its callers and cannot bring them to a stop.
NoHoldAndWait == \A j \in Job : phase[j] # "open" => j \notin connected /\ holds[j] = {}

\* A set of jobs each of which waits for a row that another of them has locked.
AtARow == {j \in Job : target[j] # NoLock}

Stuck(X) ==
    /\ X # {}
    /\ \A j \in X : \E k \in X \ {j} : target[j] \in holds[k]

\* Only sweeps of two replicas can wait for each other in a circle: saves among
\* themselves cannot, nor can saves and one sweep, since the one row that a save
\* and a sweep have in common is the last that the save takes.
DeadlocksNeedTwoSweeps ==
    \A X \in SUBSET AtARow : Stuck(X) => \E j, k \in X \cap Sweep : j # k

\* Whoever asks the store for something gets an answer or an error: in the end
\* nobody waits for a connection or works on one.
EveryJobEnds == <>[](\A j \in Job : phase[j] \in {"new", "done"})
=============================================================================
