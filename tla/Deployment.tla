----------------------------- MODULE Deployment -----------------------------
(***************************************************************************)
(* One database: runners migrate it, a server works on it.  Nothing in     *)
(* bootstrap looks at the schema, so a server may be up before, during and *)
(* after a migration; statements on tables that are not there fail.        *)
(***************************************************************************)
EXTENDS Migrations, ServerLifecycle

vars == <<migrationVars, serverVars>>

Init == MigrationInit /\ ServerInit

Migrate == MigrationNext /\ UNCHANGED serverVars

Serve == ServerStep /\ UNCHANGED migrationVars

\* A handler's statements on the tables of file f succeed.
Use(c, f) == f \in schema /\ GiveBack(c) /\ UNCHANGED migrationVars

Next == Migrate \/ Serve \/ \E c \in Client, f \in File : Use(c, f)

Spec == Init /\ [][Next]_vars

\* Runners: a statement returns or throws, and PostgreSQL wakes those who wait
\* for another transaction in the order in which they came.  The server: the
\* timer of the forced exit fires.  Nothing is assumed of anybody else.
FairSpec ==
    /\ Spec
    /\ \A r \in Runner : SF_vars(RunnerStep(r) /\ UNCHANGED serverVars)
    /\ WF_vars(ForcedExit /\ UNCHANGED migrationVars)
=============================================================================
