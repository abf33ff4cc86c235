----------------------------- MODULE PagedList -----------------------------
(***************************************************************************)
(* list of createBaseRepository and of the stock transfers' repository: a  *)
(* page of a table, newest rows first, and the number of all rows, as two  *)
(* statements.  A client pages through the table while others insert into  *)
(* it and remove from it.                                                  *)
(*                                                                         *)
(* The client is not in the repository.  It takes limit rows at a time,    *)
(* asks for the next page while page * limit < total, and asks again for a *)
(* page that failed.                                                       *)
(***************************************************************************)
EXTENDS OwnedRows, Integers, SequencesExt

CONSTANTS
    Id, Owner,  \* rows, and the tenants they belong to
    Caller,     \* the tenant whose client pages
    Limit,      \* values of ?limit= that clients use and paginationQuerySchema admits
    MaxLimit,   \* 100 in the code
    Overtaken   \* bound: how many INSERTs begin during another one and end before it

ASSUME ListAssumption ==
    /\ Caller \in Owner /\ Limit \subseteq 1..MaxLimit
    /\ MaxLimit \in Nat \ {0} /\ Overtaken \in Nat

VARIABLES
    table,      \* the rows, in the order of created_at DESC
    at,         \* the client: idle, or the statement its request is at, or between requests
    limit, page, items, \* of the request: the query, and what the first statement returned
    total,      \* of the last answer
    seen,       \* the rows of all pages answered so far
    start,      \* history: the caller's rows when the first page was asked for
    inserted, removed   \* history: whether such rows came or went since

listVars == <<table, at, limit, page, items, total, seen, start, inserted, removed>>
client == <<at, limit, page, items, total, seen>>
query == <<limit, page>>

ListInit ==
    /\ table = <<>>
    /\ at = "idle"
    /\ limit = 1 /\ page = 1
    /\ items = <<>>
    /\ total = 0
    /\ seen = <<>>
    /\ start = {}
    /\ inserted = FALSE /\ removed = FALSE

-----------------------------------------------------------------------------
(* The two SELECTs.                                                        *)

\* WHERE tenant_id IS NOT DISTINCT FROM $1
VisibleTo(tenant) == OwnedBy(table, tenant)

\* The bounds once more; behind paginationQuerySchema they never bite.
SafeLimit == Min({Max({limit, 1}), MaxLimit})
SafePage == Max({page, 1})

\* Mutant: pages are counted from 0.
OffsetFromZero == SafePage * SafeLimit

\* Mutant: the page number is the offset.
OffsetOfRows == SafePage - 1

Offset == (SafePage - 1) * SafeLimit

SelectPage ==
    /\ at = "page"
    /\ LET rows == VisibleTo(Caller)
       IN  items' = SubSeq(rows, Offset + 1, Min({Offset + SafeLimit, Len(rows)}))
    /\ at' = "count"
    /\ UNCHANGED <<table, query, total, seen, start, inserted, removed>>

\* Mutant: the tenant is forgotten in the second statement.
CountAll == Len(table)

Count == Len(VisibleTo(Caller))

SelectCount ==
    /\ at = "count"
    /\ total' = Count
    /\ seen' = seen \o items
    /\ at' = IF SafePage * SafeLimit < Count THEN "next" ELSE "done"
    /\ UNCHANGED <<table, query, items, start, inserted, removed>>

\* Either statement fails: 500, and the client asks for the same page again.
ListFails ==
    /\ at \in {"page", "count"}
    /\ at' = "page"
    /\ items' = <<>>
    /\ UNCHANGED <<table, query, total, seen, start, inserted, removed>>

-----------------------------------------------------------------------------
(* The client, and the others.                                             *)

FirstPage ==
    /\ at \in {"idle", "done"}
    /\ at' = "page"
    /\ limit' \in Limit
    /\ page' = 1
    /\ items' = <<>> /\ total' = 0 /\ seen' = <<>>
    /\ start' = ToSet(VisibleTo(Caller))
    /\ inserted' = FALSE /\ removed' = FALSE
    /\ UNCHANGED table

NextPage ==
    /\ at = "next"
    /\ at' = "page"
    /\ page' = page + 1
    /\ UNCHANGED <<table, limit, items, total, seen, start, inserted, removed>>

\* A create: created_at is the start of the INSERT, so that rows which became
\* visible before it may be newer.
InsertRow ==
    \E i \in Id, owner \in Owner, k \in 1..(Min({Overtaken, Len(table)}) + 1) :
        /\ \A j \in DOMAIN table : table[j].id # i
        /\ table' = InsertAt(table, k, [id |-> i, owner |-> owner])
        /\ inserted' = (inserted \/ owner = Caller)
        /\ UNCHANGED <<client, start, removed>>

RemoveRow ==
    \E j \in DOMAIN table :
        /\ table' = RemoveAt(table, j)
        /\ removed' = (removed \/ table[j].owner = Caller)
        /\ UNCHANGED <<client, start, inserted>>

ListNext ==
    \/ FirstPage \/ SelectPage \/ SelectCount \/ ListFails \/ NextPage
    \/ InsertRow \/ RemoveRow

ListSpec == ListInit /\ [][ListNext]_listVars

-----------------------------------------------------------------------------
(* Properties.                                                             *)

\* A client that has been through all pages has had every row that was there
\* when it began and still is, whatever was inserted meanwhile, unless a row of
\* its tenant was removed and shifted the others into a page it had.
NothingMissed == at = "done" /\ ~removed => start \subseteq ToSet(seen)

\* It has no row twice, whatever was removed meanwhile, unless a row was
\* inserted and shifted the others into the next page.
NothingTwice == ~inserted => IsInjective(seen)

\* On a table that only other tenants change, the pages are the table and the
\* total is their length.
PagesAddUp ==
    at = "done" /\ ~inserted /\ ~removed => seen = VisibleTo(Caller) /\ total = Len(seen)
=============================================================================
