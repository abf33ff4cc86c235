-------------------------- MODULE DeploymentProofs --------------------------
(***************************************************************************)
(* Safety of Migrations, ServerLifecycle and their composition, for any    *)
(* number of runners, files, connections and signals.                      *)
(***************************************************************************)
EXTENDS Deployment, TLAPS

(***************************************************************************)
(* Migrations.                                                             *)
(***************************************************************************)

Working == {"begin", "sql", "record", "commit"}

\* What a runner has left is what the database may still lack; others may have
\* applied some of it meanwhile.
RunnerInv(r) ==
    /\ label[r] \in Working => File \ todo[r] \subseteq recorded
    /\ label[r] = "endOk" /\ command[r] = "up" => recorded = File
    /\ exit[r] = "ok" /\ command[r] = "up" => recorded = File

\* What a runner's open transaction has written: after the file's SQL its tables
\* are there, or created, and after the INSERT its record is written too.
WorkInv(r) ==
    /\ label[r] \notin {"record", "commit"} => created[r] = {}
    /\ label[r] # "commit" => inserted[r] = {}
    /\ label[r] \in {"record", "commit"} =>
          \E f \in File : /\ Current(r, f)
                          /\ created[r] \subseteq {f}
                          /\ f \in schema \cup created[r]
                          /\ label[r] = "commit" => inserted[r] = {f}

MInv ==
    /\ MigrationTypeOK
    /\ RecordedIffApplied
    /\ AppliedInOrder
    /\ \A r \in Runner : RunnerInv(r) /\ WorkInv(r)

\* The initial database is empty and no runner runs.
LEMMA MigrationStart == MigrationInit => MInv
BY DEF MigrationInit, MInv, MigrationTypeOK, RecordedIffApplied, AppliedInOrder, RunnerInv, WorkInv,
       Working, RunnerLabel

\* Another runner is where it was.
Stays(q) ==
    /\ label'[q] = label[q] /\ command'[q] = command[q] /\ todo'[q] = todo[q] /\ exit'[q] = exit[q]
    /\ created'[q] = created[q] /\ inserted'[q] = inserted[q]

\* A step that leaves the database alone may move one runner to any label at
\* which its part of the invariant holds.
LEMMA RunnerMoves ==
    ASSUME MInv, NEW r \in Runner, UNCHANGED database, MigrationTypeOK', RunnerInv(r)', WorkInv(r)',
           \A q \in Runner \ {r} : Stays(q)
    PROVE  MInv'
<1>1. \A q \in Runner \ {r} : RunnerInv(q)'
  BY DEF MInv, RunnerInv, database, Stays
<1>2. \A q \in Runner \ {r} : WorkInv(q)'
  BY DEF MInv, WorkInv, Current, database, Stays
<1> QED BY <1>1, <1>2 DEF MInv, RecordedIffApplied, AppliedInOrder, database

\* A transaction that commits has the tables and the record of one file, the
\* first that is left: by minimality all before it are recorded, so that the
\* record has no gap.
LEMMA CommitKeepsOrder ==
    ASSUME MInv, NEW r \in Runner, label[r] = "commit", Commit(r)
    PROVE  /\ RecordedIffApplied' /\ AppliedInOrder'
           /\ recorded' \subseteq File /\ schema' \subseteq File
           /\ recorded \subseteq recorded' /\ schema \subseteq schema'
           /\ \A f \in File : Current(r, f) => File \ (todo[r] \ {f}) \subseteq recorded'
<1>1. PICK f \in File : /\ Current(r, f) /\ created[r] \subseteq {f} /\ inserted[r] = {f}
                        /\ f \in schema \cup created[r]
  BY DEF MInv, WorkInv
<1>2. recorded' = recorded \cup {f} /\ schema' = schema \cup {f}
  BY <1>1 DEF Commit
<1>3. File \ todo[r] \subseteq recorded
  BY DEF MInv, RunnerInv, Working
<1>4. \A g \in 1..f : g = f \/ g \in recorded
  <2> SUFFICES ASSUME NEW g \in 1..f, g # f PROVE g \in recorded
    OBVIOUS
  <2>1. g \in File /\ ~(f <= g)
    BY FilesAssumption DEF File
  <2> QED BY <1>1, <1>3, <2>1 DEF Current
<1>5. AppliedInOrder'
  <2> SUFFICES ASSUME NEW h \in recorded', NEW g \in 1..h PROVE g \in recorded'
    BY DEF AppliedInOrder
  <2>1. CASE h = f
    BY <1>2, <1>4, <2>1
  <2>2. CASE h \in recorded
    BY <1>2, <2>2 DEF MInv, AppliedInOrder
  <2> QED BY <1>2, <2>1, <2>2
<1>6. \A g \in File : Current(r, g) => g = f
  BY <1>1 DEF Current, File
<1> QED BY <1>2, <1>3, <1>5, <1>6 DEF MInv, MigrationTypeOK, RecordedIffApplied

\* What holds of the other runners holds of a larger database too.
LEMMA OthersKeep ==
    ASSUME MInv, NEW q \in Runner, recorded \subseteq recorded', schema \subseteq schema',
           recorded' \subseteq File, Stays(q)
    PROVE  RunnerInv(q)' /\ WorkInv(q)'
<1>1. RunnerInv(q)'
  BY DEF MInv, RunnerInv, Stays
<1>2. WorkInv(q)'
  BY DEF MInv, WorkInv, Current, Stays
<1> QED BY <1>1, <1>2

\* Every step of any runner, fault included, keeps the invariant.
LEMMA MigrationStep ==
    ASSUME MInv, [MigrationNext]_migrationVars
    PROVE  MInv'
<1>1. CASE UNCHANGED migrationVars
  BY <1>1 DEF MInv, MigrationTypeOK, RecordedIffApplied, AppliedInOrder, RunnerInv, WorkInv, Current,
              migrationVars
<1> SUFFICES ASSUME NEW r \in Runner,
                    \/ StartRunner(r) \/ RunnerStep(r) \/ CommitUnanswered(r)
                    \/ MigrationStatementFails(r) \/ KillRunner(r)
             PROVE  MInv'
  BY <1>1 DEF MigrationNext
<1> USE DEF MoveTo, database, transactions
<1>0. MigrationTypeOK /\ RunnerInv(r) /\ WorkInv(r)
  BY DEF MInv
\* A step to which only its own runner's label and transaction matter.
<1>own. ASSUME NEW l \in RunnerLabel, MoveTo(r, l), UNCHANGED <<database, command, todo, exit>>,
              l # "endOk", l \in Working => label[r] \in Working,
              created' = [created EXCEPT ![r] = created'[r]], created'[r] \subseteq File,
              inserted' = [inserted EXCEPT ![r] = inserted'[r]], inserted'[r] \subseteq File,
              l \notin {"record", "commit"} => created'[r] = {},
              l # "commit" => inserted'[r] = {},
              l \in {"record", "commit"} =>
                 \E f \in File : /\ Current(r, f) /\ created'[r] \subseteq {f}
                                 /\ f \in schema \cup created'[r]
                                 /\ l = "commit" => inserted'[r] = {f}
      PROVE  MInv'
  <2>1. MigrationTypeOK'
    BY <1>0, <1>own DEF MigrationTypeOK
  <2>2. RunnerInv(r)'
    BY <1>0, <1>own DEF MigrationTypeOK, RunnerInv
  <2>3. WorkInv(r)'
    BY <1>0, <1>own DEF MigrationTypeOK, WorkInv, Current
  <2>4. \A q \in Runner \ {r} : Stays(q)
    BY <1>0, <1>own DEF MigrationTypeOK, Stays
  <2> QED BY <1>own, <2>1, <2>2, <2>3, <2>4, RunnerMoves
<1>2. CASE StartRunner(r)
  <2>1. MigrationTypeOK' /\ \A q \in Runner \ {r} : Stays(q)
    BY <1>0, <1>2 DEF StartRunner, MigrationTypeOK, RunnerLabel, Stays
  <2>2. RunnerInv(r)' /\ WorkInv(r)'
    BY <1>0, <1>2 DEF StartRunner, MigrationTypeOK, RunnerInv, WorkInv, Working
  <2> QED BY <1>2, <2>1, <2>2, RunnerMoves DEF StartRunner
<1>3. CASE EnsureMigrationsTable(r)
  <2>1. MigrationTypeOK' /\ RecordedIffApplied' /\ AppliedInOrder'
    BY <1>0, <1>3 DEF EnsureMigrationsTable, MInv, MigrationTypeOK, RunnerLabel,
                      RecordedIffApplied, AppliedInOrder
  <2>2. RunnerInv(r)' /\ WorkInv(r)'
    BY <1>0, <1>3 DEF EnsureMigrationsTable, MigrationTypeOK, RunnerInv, WorkInv, Working
  <2>3. \A q \in Runner \ {r} : RunnerInv(q)' /\ WorkInv(q)'
    BY <1>0, <1>3, OthersKeep DEF EnsureMigrationsTable, MigrationTypeOK, Stays
  <2> QED BY <2>1, <2>2, <2>3 DEF MInv
<1>4. CASE ReadApplied(r)
  <2> DEFINE pending == IF command[r] = "up" THEN File \ recorded ELSE {}
  <2>1. /\ todo' = [todo EXCEPT ![r] = pending]
        /\ label' = [label EXCEPT ![r] = IF pending = {} THEN "endOk" ELSE "begin"]
        /\ UNCHANGED <<database, transactions, command, exit>> /\ label[r] = "read"
    BY <1>4 DEF ReadApplied
  <2>2. MigrationTypeOK' /\ \A q \in Runner \ {r} : Stays(q)
    BY <1>0, <2>1 DEF MigrationTypeOK, RunnerLabel, Stays
  <2>3. RunnerInv(r)'
    <3>1. recorded \subseteq File
      BY <1>0 DEF MigrationTypeOK
    <3> QED BY <1>0, <2>1, <3>1 DEF MigrationTypeOK, RunnerInv, Working
  <2>4. WorkInv(r)'
    BY <1>0, <2>1 DEF MigrationTypeOK, WorkInv
  <2> QED BY <2>1, <2>2, <2>3, <2>4, RunnerMoves
<1>5. CASE BeginMigration(r)
  <2>1. created' = [created EXCEPT ![r] = {}] /\ inserted' = [inserted EXCEPT ![r] = {}]
    BY <1>0, <1>5 DEF BeginMigration, MigrationTypeOK, WorkInv
  <2>2. created'[r] = {} /\ inserted'[r] = {}
    BY <1>0, <2>1 DEF MigrationTypeOK
  <2> QED BY <1>own, <1>5, <2>1, <2>2 DEF BeginMigration, RunnerLabel, Working
<1>6. CASE RunSql(r)
  <2>1. PICK f \in File :
          /\ Current(r, f)
          /\ created' = [created EXCEPT ![r] = IF Referenced(f) \subseteq schema THEN {f} \ schema ELSE {}]
          /\ MoveTo(r, IF Referenced(f) \subseteq schema THEN "record" ELSE "rollback")
    BY <1>6 DEF RunSql
  <2>2. /\ inserted' = [inserted EXCEPT ![r] = {}] /\ inserted'[r] = {} /\ label[r] = "sql"
        /\ UNCHANGED <<database, command, todo, exit>>
    BY <1>0, <1>6 DEF RunSql, MigrationTypeOK, WorkInv
  <2>3. CASE Referenced(f) \subseteq schema
    <3>1. created' = [created EXCEPT ![r] = {f} \ schema] /\ MoveTo(r, "record")
      BY <2>1, <2>3
    <3>2. created'[r] = {f} \ schema
      BY <1>0, <3>1 DEF MigrationTypeOK
    <3>3. created'[r] \subseteq File /\ created'[r] \subseteq {f} /\ f \in schema \cup created'[r]
      BY <3>2
    <3> QED BY <1>own, <2>1, <2>2, <3>1, <3>2, <3>3 DEF RunnerLabel, Working
  <2>4. CASE ~(Referenced(f) \subseteq schema)
    <3>1. created' = [created EXCEPT ![r] = {}] /\ MoveTo(r, "rollback") /\ created'[r] = {}
      BY <1>0, <2>1, <2>4 DEF MigrationTypeOK
    <3> QED BY <1>own, <2>2, <3>1 DEF RunnerLabel, Working
  <2> QED BY <2>3, <2>4
<1>7. CASE InsertRecord(r)
  <2>1. PICK g \in File : Current(r, g) /\ created[r] \subseteq {g} /\ g \in schema \cup created[r]
    BY <1>0, <1>7 DEF InsertRecord, WorkInv
  <2>2. label[r] = "record" /\ UNCHANGED <<database, command, todo, exit>>
    BY <1>7 DEF InsertRecord
  <2>3. CASE Close(r) /\ MoveTo(r, "rollback")
    <3>1. /\ created' = [created EXCEPT ![r] = {}] /\ inserted' = [inserted EXCEPT ![r] = {}]
          /\ created'[r] = {} /\ inserted'[r] = {}
      BY <1>0, <2>3 DEF Close, MigrationTypeOK
    <3> QED BY <1>own, <2>2, <2>3, <3>1 DEF RunnerLabel, Working
  <2>4. ASSUME NEW f \in File, Current(r, f), inserted' = [inserted EXCEPT ![r] = {f}],
               MoveTo(r, "commit"), UNCHANGED created
        PROVE  MInv'
    <3>1. f = g
      BY <2>1, <2>4 DEF Current, File
    <3>2. created' = [created EXCEPT ![r] = created[r]] /\ created[r] \in SUBSET File
      BY <1>0, <2>4 DEF MigrationTypeOK
    <3>3. inserted'[r] = {g} /\ created'[r] = created[r]
      BY <1>0, <2>4, <3>1 DEF MigrationTypeOK
    <3> QED BY <1>own, <2>1, <2>2, <2>4, <3>1, <3>2, <3>3 DEF RunnerLabel, Working
  <2> QED BY <1>7, <2>3, <2>4 DEF InsertRecord
<1>8. CASE RollbackMigration(r) \/ MigrationStatementFails(r)
  <2>1. /\ created' = [created EXCEPT ![r] = {}] /\ inserted' = [inserted EXCEPT ![r] = {}]
        /\ created'[r] = {} /\ inserted'[r] = {}
    BY <1>0, <1>8 DEF RollbackMigration, MigrationStatementFails, Close, MigrationTypeOK
  <2> QED BY <1>own, <1>8, <2>1 DEF RollbackMigration, MigrationStatementFails, RunnerLabel, Working
<1>9. ASSUME label[r] = "commit", Commit(r)
      PROVE  /\ label'[r] \notin {"record", "commit"} => WorkInv(r)'
             /\ created' \in [Runner -> SUBSET File] /\ inserted' \in [Runner -> SUBSET File]
             /\ \A q \in Runner \ {r} : created'[q] = created[q] /\ inserted'[q] = inserted[q]
  <2>1. /\ created' = [created EXCEPT ![r] = {}] /\ inserted' = [inserted EXCEPT ![r] = {}]
    BY <1>9 DEF Commit, Close
  <2>2. created'[r] = {} /\ inserted'[r] = {}
    BY <1>0, <2>1 DEF MigrationTypeOK
  <2> QED BY <1>0, <2>1, <2>2 DEF MigrationTypeOK, WorkInv
<1>10. CASE CommitMigration(r)
  <2>1. PICK f \in File :
          /\ Current(r, f)
          /\ todo' = [todo EXCEPT ![r] = @ \ {f}]
          /\ label' = [label EXCEPT ![r] = IF todo[r] = {f} THEN "endOk" ELSE "begin"]
    BY <1>10 DEF CommitMigration
  <2>2. label[r] = "commit" /\ Commit(r) /\ tracked' = tracked /\ UNCHANGED <<command, exit>>
    BY <1>10 DEF CommitMigration, Commit
  <2>3. /\ RecordedIffApplied' /\ AppliedInOrder'
        /\ recorded' \subseteq File /\ schema' \subseteq File
        /\ recorded \subseteq recorded' /\ schema \subseteq schema'
        /\ File \ (todo[r] \ {f}) \subseteq recorded'
    BY <2>1, <2>2, CommitKeepsOrder
  <2>4. MigrationTypeOK'
    BY <1>0, <1>9, <2>1, <2>2, <2>3 DEF MigrationTypeOK, RunnerLabel
  <2>5. \A q \in Runner \ {r} : RunnerInv(q)' /\ WorkInv(q)'
    BY <1>0, <1>9, <2>1, <2>2, <2>3, OthersKeep DEF MigrationTypeOK, Stays
  <2>6. RunnerInv(r)'
    BY <1>0, <2>1, <2>2, <2>3 DEF MigrationTypeOK, RunnerInv, Working
  <2>7. WorkInv(r)'
    BY <1>0, <1>9, <2>1, <2>2 DEF MigrationTypeOK
  <2> QED BY <2>3, <2>4, <2>5, <2>6, <2>7 DEF MInv
<1>11. CASE CommitUnanswered(r)
  <2>2. /\ label[r] = "commit" /\ Commit(r) /\ tracked' = tracked /\ UNCHANGED <<command, todo, exit>>
        /\ label' = [label EXCEPT ![r] = "rollback"]
    BY <1>11 DEF CommitUnanswered, Commit
  <2>3. /\ RecordedIffApplied' /\ AppliedInOrder'
        /\ recorded' \subseteq File /\ schema' \subseteq File
        /\ recorded \subseteq recorded' /\ schema \subseteq schema'
    BY <2>2, CommitKeepsOrder
  <2>4. MigrationTypeOK'
    BY <1>0, <1>9, <2>2, <2>3 DEF MigrationTypeOK, RunnerLabel
  <2>5. \A q \in Runner \ {r} : RunnerInv(q)' /\ WorkInv(q)'
    BY <1>0, <1>9, <2>2, <2>3, OthersKeep DEF MigrationTypeOK, Stays
  <2>6. RunnerInv(r)' /\ WorkInv(r)'
    BY <1>0, <1>9, <2>2, <2>3 DEF MigrationTypeOK, RunnerInv, Working
  <2> QED BY <2>3, <2>4, <2>5, <2>6 DEF MInv
<1>12. ASSUME NEW c \in {"ok", "failed"}, Exits(r, c), c = "ok" => label[r] = "endOk" PROVE MInv'
  <2>1. MigrationTypeOK' /\ \A q \in Runner \ {r} : Stays(q)
    BY <1>0, <1>12 DEF Exits, Close, MigrationTypeOK, RunnerLabel, Stays
  <2>2. RunnerInv(r)' /\ WorkInv(r)'
    BY <1>0, <1>12 DEF Exits, Close, MigrationTypeOK, RunnerInv, WorkInv, Working
  <2> QED BY <1>12, <2>1, <2>2, RunnerMoves DEF Exits
<1>13. CASE EndRunner(r) \/ KillRunner(r)
  BY <1>12, <1>13 DEF EndRunner, KillRunner
<1> QED
  BY <1>2, <1>3, <1>4, <1>5, <1>6, <1>7, <1>8, <1>10, <1>11, <1>13 DEF RunnerStep

(***************************************************************************)
(* ServerLifecycle.                                                        *)
(***************************************************************************)

\* A handler that works has turns left, each forced exit was set by a signal.
\* Once the pool was told to end no connection is open and none can be opened,
\* and once it has ended no handler is left with a client of it.
SInv ==
    /\ ServerTypeOK
    /\ callbacks <= signals
    /\ \A c \in Client : handler[c] \in {"wants", "holds"} => left[c] > 0
    /\ pool # "open" => process \in {"closing", "down"} /\ connected = {}
    /\ pool = "ended" => \A c \in Client : handler[c] # "holds"
    /\ CleanExitCutsNothing

\* The server is down, its pool untouched.
LEMMA ServerStart == ServerInit => SInv
BY SignalsAssumption, TurnsAssumption DEF ServerInit, SInv, ServerTypeOK, CleanExitCutsNothing

\* The process may end anywhere; with 0 only where nothing is broken off.
LEMMA ExitKeeps ==
    ASSUME SInv, NEW c \in {"0", "1", "killed"}, Exit(c), c = "0" => Unfinished = {}
    PROVE  SInv'
<1>1. ServerTypeOK'
  BY SignalsAssumption, TurnsAssumption DEF SInv, ServerTypeOK, Exit, Unfinished
<1> QED BY <1>1 DEF SInv, ServerTypeOK, Exit, CleanExitCutsNothing

\* Where the pool has ended, nothing is left to break off.
LEMMA EndedPoolIsIdle == SInv /\ pool = "ended" => Unfinished = {}
BY DEF SInv, Unfinished

\* A step of the life cycle keeps the invariant.
LEMMA ServerStepKeeps ==
    ASSUME SInv, [ServerNext]_serverVars
    PROVE  SInv'
<1> USE SignalsAssumption, TurnsAssumption DEF SInv, ServerTypeOK, CleanExitCutsNothing
<1>1. CASE UNCHANGED serverVars
  BY <1>1 DEF serverVars
<1>2. CASE StartServer
  BY <1>2 DEF StartServer, requests
<1>3. CASE ConnectToDb \/ Listen
  BY <1>3 DEF ConnectToDb, Listen, BootTo, requests
<1>4. CASE Fatal
  BY <1>4, ExitKeeps DEF Fatal
<1>5. CASE Signal
  <2>1. CASE Exit("killed")
    BY <2>1, ExitKeeps
  <2>2. CASE ~Exit("killed")
    <3>1. /\ Up /\ signals < MaxSignals /\ process' = "closing" /\ pool' = pool
          /\ signals' = signals + 1 /\ callbacks' = callbacks + 1
          /\ connected' = {c \in connected : handler[c] # "idle"}
          /\ UNCHANGED <<code, cut, handler, left>>
      BY <1>5, <2>2 DEF Signal, PoolOnSignal
    <3> QED BY <3>1
  <2> QED BY <2>1, <2>2
<1>6. CASE CloseEvent
  BY <1>6 DEF CloseEvent, requests
<1>7. CASE PoolEnds
  BY <1>7 DEF PoolEnds, requests
<1>8. CASE ExitClean
  BY <1>8, ExitKeeps, EndedPoolIsIdle DEF ExitClean, MayExit
<1>9. CASE ForcedExit
  BY <1>9, ExitKeeps DEF ForcedExit
<1>10. ASSUME NEW c \in Client, Traffic(c) PROVE SInv'
  BY <1>10 DEF Traffic, Connect, Send, Disconnect, lifecycle, Up
<1>11. ASSUME NEW c \in Client, TakeClient(c) PROVE SInv'
  BY <1>11 DEF TakeClient, Becomes, lifecycle
<1>12. ASSUME NEW c \in Client, Throws(c) \/ Respond(c) PROVE SInv'
  BY <1>12 DEF Throws, Respond, Becomes, lifecycle
<1>13. ASSUME NEW c \in Client, GiveBack(c) PROVE SInv'
  BY <1>13 DEF GiveBack, Becomes, lifecycle
<1> QED
  BY <1>1, <1>2, <1>3, <1>4, <1>5, <1>6, <1>7, <1>8, <1>9, <1>10, <1>11, <1>12, <1>13
  DEF ServerNext, ServerStep, Shutdown

(***************************************************************************)
(* The composition.                                                        *)
(***************************************************************************)

\* A step of the deployment is a step of each part or leaves it alone.
LEMMA PartsStep == [Next]_vars => [MigrationNext]_migrationVars /\ [ServerNext]_serverVars
BY DEF Next, vars, Migrate, Serve, Use, ServerNext

LEMMA Invariance == Spec => [](MInv /\ SInv)
<1>1. Init => MInv /\ SInv
  BY MigrationStart, ServerStart DEF Init
<1>2. MInv /\ SInv /\ [Next]_vars => (MInv /\ SInv)'
  BY PartsStep, MigrationStep, ServerStepKeeps
<1> QED BY <1>1, <1>2, PTL DEF Spec

\* migrate.ts:53: no failure, kill or second runner, between any two statements,
\* leaves a file's tables without its record or the record without the tables.
THEOREM RecordsTellTheSchema == Spec => []RecordedIffApplied
<1>1. MInv => RecordedIffApplied
  BY DEF MInv
<1> QED BY <1>1, Invariance, PTL

\* The applied files are a prefix in filename order, for any number of runners.
THEOREM FilesInOrder == Spec => []AppliedInOrder
<1>1. MInv => AppliedInOrder
  BY DEF MInv
<1> QED BY <1>1, Invariance, PTL

\* Exit code 0 of "up" means that every file is applied, now and from then on.
THEOREM SuccessIsComplete == Spec => []SuccessMeansComplete
<1>1. MInv => SuccessMeansComplete
  BY DEF MInv, RunnerInv, SuccessMeansComplete
<1> QED BY <1>1, Invariance, PTL

\* server.ts:20: pool.end() is called only when no connection is left, for any
\* number of connections and signals.
THEOREM PoolServesTheWaiting == Spec => []PoolOutlivesRequests
<1>1. SInv => PoolOutlivesRequests
  BY DEF SInv, PoolOutlivesRequests
<1> QED BY <1>1, Invariance, PTL

\* process.exit(0) comes after everything that was in flight.
THEOREM CleanExits == Spec => []CleanExitCutsNothing
<1>1. SInv => CleanExitCutsNothing
  BY DEF SInv
<1> QED BY <1>1, Invariance, PTL
=============================================================================
