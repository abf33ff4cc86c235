----------------------------- MODULE Migrations -----------------------------
(***************************************************************************)
(* database/migrate.ts: `npm run migrate` applies the .sql files that      *)
(* schema_migrations does not list yet, in filename order, each in a       *)
(* transaction together with its record.  Several runners may be started   *)
(* on one database, and any of them may fail or be killed between two      *)
(* statements and be started again.                                        *)
(*                                                                         *)
(* Files are numbered in filename order.  What a transaction writes is its *)
(* own until COMMIT; an error ends the transaction there and then.         *)
(***************************************************************************)
EXTENDS Integers

CONSTANTS
    Runner,     \* processes that run migrate.ts
    LastFile    \* how many files there are

ASSUME FilesAssumption == LastFile \in Nat \ {0}

VARIABLES
    tracked,    \* schema_migrations exists
    recorded,   \* the files that it lists
    schema,     \* the files whose tables the database has
    created,    \* the files whose tables a runner's open transaction has created
    inserted,   \* the files that it has put on record
    label,      \* where a runner is
    command,    \* "up" or "status"
    todo,       \* pending: what its loop has left
    exit        \* the exit code of its last run, "none" while it runs

migrationVars == <<tracked, recorded, schema, created, inserted, label, command, todo, exit>>
database == <<tracked, recorded, schema>>
transactions == <<created, inserted>>

File == 1..LastFile

\* The statements a runner can be at; "end" is pool.end() in the finally.
RunnerLabel == {"idle", "ensure", "read", "begin", "sql", "record", "commit", "rollback",
                "endOk", "endFailed"}

MigrationTypeOK ==
    /\ tracked \in BOOLEAN
    /\ recorded \subseteq File
    /\ schema \subseteq File
    /\ created \in [Runner -> SUBSET File]
    /\ inserted \in [Runner -> SUBSET File]
    /\ label \in [Runner -> RunnerLabel]
    /\ command \in [Runner -> {"up", "status"}]
    /\ todo \in [Runner -> SUBSET File]
    /\ exit \in [Runner -> {"none", "ok", "failed"}]

MigrationInit ==
    /\ tracked = FALSE
    /\ recorded = {}
    /\ schema = {}
    /\ created = [r \in Runner |-> {}]
    /\ inserted = [r \in Runner |-> {}]
    /\ label = [r \in Runner |-> "idle"]
    /\ command = [r \in Runner |-> "up"]
    /\ todo = [r \in Runner |-> {}]
    /\ exit = [r \in Runner |-> "none"]

-----------------------------------------------------------------------------
MoveTo(r, l) == label' = [label EXCEPT ![r] = l]

StartRunner(r) ==
    /\ label[r] = "idle"
    /\ MoveTo(r, "ensure")
    /\ \E c \in {"up", "status"} : command' = [command EXCEPT ![r] = c]
    /\ exit' = [exit EXCEPT ![r] = "none"]
    /\ UNCHANGED <<database, transactions, todo>>

EnsureMigrationsTable(r) ==
    /\ label[r] = "ensure"
    /\ tracked' = TRUE
    /\ MoveTo(r, "read")
    /\ UNCHANGED <<recorded, schema, transactions, command, todo, exit>>

\* getAppliedMigrations, and the filter: showStatus prints it, up works on it.
ReadApplied(r) ==
    /\ label[r] = "read"
    /\ LET pending == IF command[r] = "up" THEN File \ recorded ELSE {}
       IN  /\ todo' = [todo EXCEPT ![r] = pending]
           /\ MoveTo(r, IF pending = {} THEN "endOk" ELSE "begin")
    /\ UNCHANGED <<database, transactions, command, exit>>

\* The file of this turn of the loop.
Current(r, f) == f \in todo[r] /\ \A g \in todo[r] : f <= g

\* The transaction is over: its writes are the database's, or nobody's.
Close(r) ==
    /\ created' = [created EXCEPT ![r] = {}]
    /\ inserted' = [inserted EXCEPT ![r] = {}]

BeginMigration(r) ==
    /\ label[r] = "begin"
    /\ MoveTo(r, "sql")
    /\ UNCHANGED <<database, transactions, command, todo, exit>>

\* The tables of 002 and 003 reference those of 001.
Referenced(f) == IF f = 1 THEN {} ELSE {1}

\* CREATE ... IF NOT EXISTS: nothing to do when the tables are there; if
\* another open transaction has created them, its end is waited for.
RunSql(r) ==
    /\ label[r] = "sql"
    /\ \E f \in File :
        /\ Current(r, f)
        /\ \A q \in Runner \ {r} : f \notin created[q]
        /\ created' = [created EXCEPT ![r] = IF Referenced(f) \subseteq schema THEN {f} \ schema ELSE {}]
        /\ MoveTo(r, IF Referenced(f) \subseteq schema THEN "record" ELSE "rollback")
    /\ UNCHANGED inserted
    /\ UNCHANGED <<database, command, todo, exit>>

\* Mutant: the INSERT goes to the pool, not to the client of the transaction.
InsertRecordOnPool(r) ==
    /\ label[r] = "record"
    /\ \E f \in File : Current(r, f) /\ f \notin recorded /\ recorded' = recorded \cup {f}
    /\ MoveTo(r, "commit")
    /\ UNCHANGED <<tracked, schema, transactions, command, todo, exit>>

\* filename is UNIQUE: another open transaction's record is waited for, a
\* committed one is an error.
InsertRecord(r) ==
    /\ label[r] = "record"
    /\ \E f \in File :
        /\ Current(r, f)
        /\ \A q \in Runner \ {r} : f \notin inserted[q]
        /\ \/ /\ f \notin recorded
              /\ inserted' = [inserted EXCEPT ![r] = {f}]
              /\ MoveTo(r, "commit")
              /\ UNCHANGED created
           \/ f \in recorded /\ Close(r) /\ MoveTo(r, "rollback")
    /\ UNCHANGED <<database, command, todo, exit>>

Commit(r) ==
    /\ schema' = schema \cup created[r]
    /\ recorded' = recorded \cup inserted[r]
    /\ Close(r)
    /\ UNCHANGED tracked

CommitMigration(r) ==
    /\ label[r] = "commit"
    /\ Commit(r)
    /\ \E f \in File :
        /\ Current(r, f)
        /\ todo' = [todo EXCEPT ![r] = @ \ {f}]
        /\ MoveTo(r, IF todo[r] = {f} THEN "endOk" ELSE "begin")
    /\ UNCHANGED <<command, exit>>

\* The COMMIT is done and its answer is lost.
CommitUnanswered(r) ==
    /\ label[r] = "commit"
    /\ Commit(r)
    /\ MoveTo(r, "rollback")
    /\ UNCHANGED <<command, todo, exit>>

\* Mutant: log the failure and go on with the next file.
RollbackAndSkip(r) ==
    /\ label[r] = "rollback"
    /\ Close(r)
    /\ \E f \in File :
        /\ Current(r, f)
        /\ todo' = [todo EXCEPT ![r] = @ \ {f}]
        /\ MoveTo(r, IF todo[r] = {f} THEN "endOk" ELSE "begin")
    /\ UNCHANGED <<database, command, exit>>

\* ROLLBACK (or its failure), and the error is thrown out of the loop.
RollbackMigration(r) ==
    /\ label[r] = "rollback"
    /\ Close(r)
    /\ MoveTo(r, "endFailed")
    /\ UNCHANGED <<database, command, todo, exit>>

\* pool.connect() stands before the try; what fails inside is rolled back.
MigrationStatementFails(r) ==
    /\ \/ label[r] \in {"ensure", "read", "begin"} /\ MoveTo(r, "endFailed")
       \/ label[r] \in {"begin", "sql", "record", "commit"} /\ MoveTo(r, "rollback")
    /\ Close(r)
    /\ UNCHANGED <<database, command, todo, exit>>

Exits(r, code) ==
    /\ MoveTo(r, "idle")
    /\ Close(r)
    /\ exit' = [exit EXCEPT ![r] = code]
    /\ todo' = [todo EXCEPT ![r] = {}]
    /\ UNCHANGED <<database, command>>

\* Mutant: after a failure the client is not released, and pool.end() waits for it.
EndRunnerUnreleased(r) == label[r] = "endOk" /\ Exits(r, "ok")

\* pool.end(), then the end of the process.
EndRunner(r) ==
    \/ label[r] = "endOk" /\ Exits(r, "ok")
    \/ label[r] = "endFailed" /\ Exits(r, "failed")

KillRunner(r) == label[r] # "idle" /\ Exits(r, "failed")

RunnerStep(r) ==
    \/ EnsureMigrationsTable(r) \/ ReadApplied(r) \/ BeginMigration(r) \/ RunSql(r)
    \/ InsertRecord(r) \/ CommitMigration(r) \/ RollbackMigration(r) \/ EndRunner(r)

MigrationNext ==
    \E r \in Runner : \/ StartRunner(r) \/ RunnerStep(r) \/ CommitUnanswered(r)
                      \/ MigrationStatementFails(r) \/ KillRunner(r)

MigrationSpec == MigrationInit /\ [][MigrationNext]_migrationVars

-----------------------------------------------------------------------------
(* Properties.                                                             *)

\* The database lists a file exactly if it has the file's tables, although a
\* transaction writes the one and the other in statements of their own, creates
\* no tables that it finds, and may fail, be killed, or meet another runner's
\* transaction between any two of them.
RecordedIffApplied == recorded = schema

\* Files are applied in filename order without a gap, also when two runners
\* share the work.
AppliedInOrder == \A f \in recorded : 1..f \subseteq recorded

\* A run of "up" that exits with 0 leaves nothing pending, even if another
\* runner took some of its files.
SuccessMeansComplete ==
    \A r \in Runner : command[r] = "up" /\ exit[r] = "ok" => recorded = File

\* No run waits forever: not for the other's tables, and not in a circle.
EveryRunEnds == \A r \in Runner : label[r] # "idle" ~> label[r] = "idle"
=============================================================================
