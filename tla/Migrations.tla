----------------------------- MODULE Migrations -----------------------------
(***************************************************************************)
(* Schema migrations (migrate.go): replicas that start and operators that  *)
(* run "api migrate up" or "down" work on one database, each in a single   *)
(* transaction under an advisory lock that ends with the transaction.      *)
(* Every process runs the release it was built from: the versions embedded *)
(* in its binary, each with an up and a down script.                       *)
(***************************************************************************)
EXTENDS Integers

CONSTANTS
    Process,        \* sessions that migrate: starting replicas, operators
    None,           \* no process
    Latest,         \* Latest[p]: the newest version embedded in p's binary
    Skipped,        \* Skipped[p]: the versions below it that p's binary does not have
    Newest,         \* the newest version of any release
    Faults          \* whether statements, commits and processes may fail

ASSUME ProcessAssumption == None \notin Process

ASSUME ReleaseAssumption ==
    /\ Newest \in Nat
    /\ Latest \in [Process -> 0..Newest]
    /\ Skipped \in [Process -> SUBSET (1..Newest)]
    /\ Faults \in BOOLEAN

VARIABLES
    ledger,     \* the committed rows of schema_migrations
    schema,     \* the versions whose up script is in force, committed
    holder,     \* who holds the advisory lock
    run         \* run[p]: the command p executes and its transaction

vars == <<ledger, schema, holder, run>>

Version == 1..Newest

\* loadMigrations, sorted by version.
Embedded(p) == (1..Latest[p]) \ Skipped[p]

\* Every release adds its versions above those of the releases before it.
Contiguous == \A p \in Process : Skipped[p] = {}

Run == [pc : {"idle", "waiting", "locked", "migrating", "gone"},
        goal : {"up", "down"},
        current : 0..Newest,
        left : SUBSET Version,      \* what the loop still has to apply
        rows : SUBSET Version,      \* the rows the transaction wrote or deleted
        scripts : SUBSET Version,   \* the scripts it has run
        result : {"none", "ok", "error"}]

Idle(answer) == [pc |-> "idle", goal |-> "up", current |-> 0, left |-> {}, rows |-> {},
                 scripts |-> {}, result |-> answer]

Becomes(p, r) == run' = [run EXCEPT ![p] = r]

\* COALESCE(MAX(version), 0)
MaxVersion(versions) ==
    IF versions = {} THEN 0
    ELSE CHOOSE v \in versions : \A u \in versions : u <= v

Init ==
    /\ ledger = {}
    /\ schema = {}
    /\ holder = None
    /\ run = [p \in Process |-> Idle("none")]

\* The transaction begins and asks for the lock.
Begin(p, goal) ==
    /\ run[p].pc = "idle"
    /\ Becomes(p, [Idle("none") EXCEPT !.pc = "waiting", !.goal = goal])
    /\ UNCHANGED <<ledger, schema, holder>>

\* Mutant: the lock is asked for and not waited for.
Lock_Ignored(p) ==
    /\ run[p].pc = "waiting"
    /\ holder' = IF holder = None THEN p ELSE holder
    /\ Becomes(p, [run[p] EXCEPT !.pc = "locked"])
    /\ UNCHANGED <<ledger, schema>>

\* pg_advisory_xact_lock
Lock(p) ==
    /\ run[p].pc = "waiting"
    /\ holder = None
    /\ holder' = p
    /\ Becomes(p, [run[p] EXCEPT !.pc = "locked"])
    /\ UNCHANGED <<ledger, schema>>

\* Mutant: the pool sets no statement_timeout.
LockTimesOut_Never(p) == FALSE /\ run[p].pc = "waiting" /\ UNCHANGED vars

\* The wait is cut off by the pool's statement_timeout.
LockTimesOut(p) ==
    /\ run[p].pc = "waiting"
    /\ holder # None \/ Faults
    /\ Becomes(p, Idle("error"))
    /\ UNCHANGED <<ledger, schema, holder>>

\* Mutant: one version at a time.
Due_Next(p, current) ==
    IF run[p].goal = "up" THEN {v \in Embedded(p) : v = current + 1}
    ELSE {v \in Embedded(p) : v = current}

\* The versions the loops of MigrateUp and MigrateDown do not skip.
Due(p, current) ==
    IF run[p].goal = "up" THEN {v \in Embedded(p) : v > current}
    ELSE {v \in Embedded(p) : v = current}

\* The statement after the lock reads what is committed by then.
ReadCurrent(p) ==
    /\ run[p].pc = "locked"
    /\ LET current == MaxVersion(ledger)
       IN  Becomes(p, [run[p] EXCEPT !.pc = "migrating", !.current = current,
                                     !.left = Due(p, current)])
    /\ UNCHANGED <<ledger, schema, holder>>

IsNext(p, v) == v \in run[p].left /\ \A u \in run[p].left : v <= u

\* What p's statements see: what is committed by then and p's own changes.
Seen(p, committed, own) == IF run[p].goal = "up" THEN committed \cup own ELSE committed \ own

SeenLedger(p) == Seen(p, ledger, run[p].rows)
SeenSchema(p) == Seen(p, schema, run[p].scripts)

\* A version's script and its row are two statements; this script has run and
\* its row is yet to be written or deleted.
Unwritten(p) == run[p].scripts \ run[p].rows

RunScript(p, v) ==
    /\ run[p].pc = "migrating" /\ Unwritten(p) = {}
    /\ IsNext(p, v)
    /\ Becomes(p, [run[p] EXCEPT !.scripts = @ \cup {v}])
    /\ UNCHANGED <<ledger, schema, holder>>

WriteRow(p, v) ==
    /\ run[p].pc = "migrating" /\ v \in Unwritten(p)
    /\ Becomes(p, [run[p] EXCEPT !.left = @ \ {v}, !.rows = @ \cup {v}])
    /\ UNCHANGED <<ledger, schema, holder>>

\* An up script fails if what it creates is there.
ApplyUp(p, v) ==
    /\ run[p].goal = "up" /\ v \notin SeenSchema(p)
    /\ RunScript(p, v)

\* INSERT: the version is the primary key.
InsertRow(p, v) ==
    /\ run[p].goal = "up" /\ v \notin SeenLedger(p)
    /\ WriteRow(p, v)

\* A down script drops what is there (DROP TABLE IF EXISTS).
ApplyDown(p, v) ==
    /\ run[p].goal = "down"
    /\ RunScript(p, v)

DeleteRow(p, v) ==
    /\ run[p].goal = "down"
    /\ WriteRow(p, v)

\* The end of the transaction frees the lock.
Unlock(p) == holder' = IF holder = p THEN None ELSE holder

CommitAs(p, answer) ==
    /\ run[p].pc = "migrating" /\ run[p].left = {}
    /\ ledger' = SeenLedger(p)
    /\ schema' = SeenSchema(p)
    /\ Unlock(p)
    /\ Becomes(p, Idle(answer))

Commit(p) == CommitAs(p, "ok")

\* The commit is done but its acknowledgement is lost.
CommitLost(p) == Faults /\ CommitAs(p, "error")

\* An up meets what it creates: a table, or the row of its version.
UpFails(p) ==
    /\ run[p].goal = "up"
    /\ \/ Unwritten(p) = {} /\ \E v \in SeenSchema(p) : IsNext(p, v)
       \/ Unwritten(p) \cap SeenLedger(p) # {}

\* Mutant: what was applied before the error is committed.
Rollback_KeepsPart(p) ==
    /\ run[p].pc \in {"locked", "migrating"}
    /\ Faults \/ (run[p].pc = "migrating" /\ UpFails(p))
    /\ ledger' = SeenLedger(p)
    /\ schema' = SeenSchema(p)
    /\ Unlock(p)
    /\ Becomes(p, Idle("error"))

\* A statement fails: BeginFunc rolls everything back.
Rollback(p) ==
    /\ run[p].pc \in {"locked", "migrating"}
    /\ Faults \/ (run[p].pc = "migrating" /\ UpFails(p))
    /\ Unlock(p)
    /\ Becomes(p, Idle("error"))
    /\ UNCHANGED <<ledger, schema>>

\* The process dies; the server has yet to notice.
Crash(p) ==
    /\ Faults
    /\ run[p].pc \in {"waiting", "locked", "migrating"}
    /\ Becomes(p, [Idle("none") EXCEPT !.pc = "gone"])
    /\ UNCHANGED <<ledger, schema, holder>>

\* The server ends the session of a process that died.
Reap(p) ==
    /\ run[p].pc = "gone"
    /\ Unlock(p)
    /\ Becomes(p, Idle("none"))
    /\ UNCHANGED <<ledger, schema>>

\* What a session does of itself, or the server for it.
Work(p) ==
    \/ Lock(p) \/ LockTimesOut(p) \/ ReadCurrent(p)
    \/ \E v \in Version : ApplyUp(p, v) \/ InsertRow(p, v) \/ ApplyDown(p, v) \/ DeleteRow(p, v)
    \/ Commit(p) \/ CommitLost(p) \/ Rollback(p) \/ Reap(p)

Step(p) == (\E goal \in {"up", "down"} : Begin(p, goal)) \/ Work(p) \/ Crash(p)

Next == \E p \in Process : Step(p)

Spec == Init /\ [][Next]_vars

\* Every statement ends, at the latest with statement_timeout, and the server
\* notices that a client is gone.  Who gets the lock is left open.
FairSpec == Spec /\ \A p \in Process : WF_vars(Work(p))

-----------------------------------------------------------------------------
\* Every variable has its type; no version 0 is applied or dropped.
TypeOK ==
    /\ ledger \subseteq Version
    /\ schema \subseteq Version
    /\ holder \in Process \cup {None}
    /\ run \in [Process -> Run]

\* A script never meets a schema it was not written for, whoever else
\* migrates: up scripts find neither their objects nor their rows, down scripts
\* find their objects ("concurrent replicas never migrate at the same time").
ScriptsApplyCleanly ==
    \A p \in Process : run[p].pc = "migrating" =>
        /\ ~UpFails(p)
        /\ run[p].goal = "down" /\ Unwritten(p) = {} =>
              \A v \in Version : IsNext(p, v) => v \in SeenSchema(p)

\* schema_migrations tells what the schema is: no error, lost commit or death
\* between a script and its row leaves one of them without the other.
LedgerTellsSchema == ledger = schema

\* No version is missing below another one, provided every release adds its
\* versions at the end.
NoGaps == \A v \in ledger : 1..v \subseteq ledger

\* A step leaves the ledger alone, brings it to the end of some release
\* ("applies all pending migrations in a single transaction"), or takes the
\* latest version off it.
WholeStepsOnly ==
    [][\/ ledger' = ledger
       \/ \E p \in Process : ledger' = ledger \cup Embedded(p)
       \/ ledger' = ledger \ {MaxVersion(ledger)}]_vars

\* "MigrateUp applies all pending migrations in a single transaction": an up
\* that reports success leaves every version of its binary applied.
AppliesAllPending ==
    [][\A p \in Process :
          run[p].pc = "migrating" /\ run[p].goal = "up" /\ run'[p] = Idle("ok")
          => Embedded(p) \subseteq ledger']_vars

\* A command that begins comes to an end, with the lock or without it: one
\* session after another may migrate while it waits, and die doing so.
CommandsEnd == \A p \in Process : run[p].pc = "waiting" ~> run[p].pc = "idle"
=============================================================================
