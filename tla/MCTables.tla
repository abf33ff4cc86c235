------------------------------ MODULE MCTables ------------------------------
(***************************************************************************)
(* Three ways of using the tables, side by side: a behaviour is a client   *)
(* paging, a summary being read, or the callers of several tenants at work.*)
(***************************************************************************)
EXTENDS PagedList, Summaries, TenantTables, TLC

VARIABLE use

allVars == <<use, listVars, summaryVars, vars>>

UseInit ==
    /\ use \in {"list", "summary", "tables"}
    /\ ListInit /\ SummaryInit /\ Init
    /\ use # "summary" => \A t \in Clock : now <= t

UseNext ==
    \/ use = "list" /\ ListNext /\ UNCHANGED <<use, summaryVars, vars>>
    \/ use = "summary" /\ SummaryNext /\ UNCHANGED <<use, listVars, vars>>
    \/ use = "tables" /\ Next /\ UNCHANGED <<use, listVars, summaryVars>>

UseSpec == UseInit /\ [][UseNext]_allVars

(* The properties say nothing of a summary during which rows changed, of a *)
(* list during which rows both came and went, and of what follows an       *)
(* answer; the next request finds only rows that the first one could find. *)
WorthReading ==
    /\ ~changed /\ (reading = <<>> => figures = <<>>)
    /\ ~(inserted /\ removed) /\ at # "done"

(* Interchangeable ids.                                                    *)
Ids == Permutations(Id \cup RowId) \cup Permutations(Record \cup Request)
=============================================================================
