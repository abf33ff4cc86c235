---------------------------- MODULE TenantTables ----------------------------
(***************************************************************************)
(* The tables of the plain CRUD modules (createBaseRepository and the      *)
(* stock transfers' own repository), attendance, and the foreign keys that *)
(* tie them together, as the callers of several tenants use them.          *)
(*                                                                         *)
(* A handler of these modules is one statement, and so one action here;    *)
(* only POST /stock-transfers is two.  Categories stand for every table    *)
(* that has no references and that one reference may point to: suppliers   *)
(* are the same; branches, farmers, warehouses, expenses, reports and so   *)
(* on have not even the reference.  Of an inventory row this module has    *)
(* category_id; StockLedger has its stock and sku.                         *)
(***************************************************************************)
CONSTANTS
    RowId,          \* ids of rows, of all tables
    Tenant,         \* values of tenant_id, NoTenant among them
    NoTenant,       \* tenant_id NULL
    Value,          \* what the columns hold that a PUT may change
    TransferNo,
    Request,        \* POST /stock-transfers that can be in flight together
    Null            \* no row, or a column that is NULL or does not exist

ASSUME TenantAssumption == NoTenant \in Tenant

VARIABLES
    stored,         \* the row with an id, Null when there is none
    creating        \* a request between its two statements: what it inserts

vars == <<stored, creating>>

Table == {"categories", "inventory", "employees", "attendance", "stock_transfers"}

Row == [table: Table, tenant: Tenant, ref: RowId \cup {Null}, no: TransferNo \cup {Null},
        value: Value]

Transfer == [tenant: Tenant, no: TransferNo, value: Value]

ASSUME NullAssumption == Null \notin RowId \cup TransferNo \cup Row \cup Transfer

TypeOK ==
    /\ stored \in [RowId -> Row \cup {Null}]
    /\ creating \in [Request -> Transfer \cup {Null}]

Init ==
    /\ stored = [i \in RowId |-> Null]
    /\ creating = [r \in Request |-> Null]

-----------------------------------------------------------------------------
IsIn(table, i) == stored[i] # Null /\ stored[i].table = table

\* inventory.category_id and attendance.employee_id.
Target(table) == IF table = "inventory" THEN "categories" ELSE "employees"

\* Mutant: a WHERE by id alone.
FindsById(tenant, i) == stored[i] # Null /\ stored[i].table # "attendance"

\* WHERE id = $1 AND tenant_id IS NOT DISTINCT FROM $2, on the tables that
\* have a route by id.
Finds(tenant, i) ==
    stored[i] # Null /\ stored[i].table # "attendance" /\ stored[i].tenant = tenant

\* Mutant: createBaseRepository(table, false).
StampNone(tenant) == Null

\* tenantScoped, which every table of the API is: the row gets the caller's tenant.
Stamp(tenant) == tenant

Insert(row) ==
    /\ \E i \in RowId : stored[i] = Null /\ stored' = [stored EXCEPT ![i] = row]
    /\ UNCHANGED creating

-----------------------------------------------------------------------------
(* Handlers.  What answers 404 or breaks a constraint changes nothing.     *)

\* createBaseRepository create.  The foreign key asks for a category, not for
\* one of the caller.
Create(tenant) ==
    \E table \in {"categories", "inventory", "employees"}, v \in Value, c \in RowId \cup {Null} :
        /\ c # Null => table = "inventory" /\ IsIn("categories", c)
        /\ Insert([table |-> table, tenant |-> Stamp(tenant), ref |-> c, no |-> Null,
                   value |-> v])

\* POST /employees/:employeeId/attendance takes any employee's id and leaves
\* tenant_id out.
RecordAttendance ==
    \E e \in RowId, v \in Value :
        /\ IsIn("employees", e)
        /\ Insert([table |-> "attendance", tenant |-> NoTenant, ref |-> e, no |-> Null,
                   value |-> v])

\* PUT: the columns of the body, and of these neither tenant_id nor
\* transfer_no; categoryId can be changed and not be taken away.
Update(tenant, i) ==
    /\ Finds(tenant, i)
    /\ \E v \in Value, c \in RowId \cup {Null} :
        /\ c = stored[i].ref \/ (stored[i].table = "inventory" /\ c # Null /\ IsIn("categories", c))
        /\ stored' = [stored EXCEPT ![i] = [@ EXCEPT !.value = v, !.ref = c]]
    /\ UNCHANGED creating

\* Mutant: the references are plain UUID columns.
WithoutReferenced(i) == [stored EXCEPT ![i] = Null]

\* The table without row i: ON DELETE CASCADE of attendance, SET NULL of
\* inventory.
Without(i) ==
    [j \in RowId |->
        IF j = i \/ (IsIn("attendance", j) /\ stored[j].ref = i) THEN Null
        ELSE IF IsIn("inventory", j) /\ stored[j].ref = i THEN [stored[j] EXCEPT !.ref = Null]
        ELSE stored[j]]

RemoveById(tenant, i) ==
    /\ Finds(tenant, i)
    /\ stored' = Without(i)
    /\ UNCHANGED creating

-----------------------------------------------------------------------------
(* POST /stock-transfers: look the number up, then insert.                 *)

HasNumber(i, tenant, no) ==
    IsIn("stock_transfers", i) /\ stored[i].tenant = tenant /\ stored[i].no = no

FindByTransferNo(r, tenant) ==
    /\ creating[r] = Null
    /\ \E no \in TransferNo, v \in Value :
        /\ ~\E i \in RowId : HasNumber(i, tenant, no)
        /\ creating' = [creating EXCEPT ![r] = [tenant |-> tenant, no |-> no, value |-> v]]
    /\ UNCHANGED stored

\* Mutant: the SELECT alone has to do.
NeverDuplicate(tenant, no) == FALSE

\* UNIQUE (tenant_id, transfer_no): NULLs are distinct.
Duplicate(tenant, no) == tenant # NoTenant /\ \E i \in RowId : HasNumber(i, tenant, no)

\* The INSERT, which the constraint refuses when the number was taken meanwhile.
InsertTransfer(r) ==
    /\ creating[r] # Null
    /\ LET tr == creating[r]
       IN  IF Duplicate(tr.tenant, tr.no)
           THEN UNCHANGED stored
           ELSE \E i \in RowId :
                    /\ stored[i] = Null
                    /\ stored' = [stored EXCEPT ![i] =
                            [table |-> "stock_transfers", tenant |-> tr.tenant, ref |-> Null,
                             no |-> tr.no, value |-> tr.value]]
    /\ creating' = [creating EXCEPT ![r] = Null]

\* A statement fails, or the process dies.
AbandonTransfer(r) ==
    /\ creating[r] # Null
    /\ creating' = [creating EXCEPT ![r] = Null]
    /\ UNCHANGED stored

-----------------------------------------------------------------------------
\* What a caller of a tenant can have done.
By(tenant) ==
    \/ Create(tenant)
    \/ RecordAttendance
    \/ \E i \in RowId : Update(tenant, i) \/ RemoveById(tenant, i)
    \/ \E r \in Request :
        \/ FindByTransferNo(r, tenant)
        \/ creating[r] # Null /\ creating[r].tenant = tenant
           /\ (InsertTransfer(r) \/ AbandonTransfer(r))

Next == \E tenant \in Tenant : By(tenant)

Spec == Init /\ [][Next]_vars

-----------------------------------------------------------------------------
(* GET /employees/:employeeId/attendance.                                  *)

\* Mutant: WHERE a.tenant_id IS NOT DISTINCT FROM $2, as on every other table.
AttendanceListByTenantId(tenant, e) ==
    {i \in RowId : IsIn("attendance", i) /\ stored[i].ref = e /\ stored[i].tenant = tenant}

\* The join of attendance with employees: the employee's tenant decides.
AttendanceList(tenant, e) ==
    {i \in RowId : /\ IsIn("attendance", i) /\ stored[i].ref = e
                   /\ IsIn("employees", e) /\ stored[e].tenant = tenant}

-----------------------------------------------------------------------------
(* Properties.                                                             *)

\* A row refers only where its table has a reference, and to a row that is
\* there; attendance always refers.
Resolves(row) ==
    /\ row.ref # Null => /\ row.table \in {"inventory", "attendance"}
                         /\ IsIn(Target(row.table), row.ref)
    /\ row.table = "attendance" => row.ref # Null

\* Whatever is removed and by whom, references point to rows of their table,
\* and attendance does not outlive its employee.
ReferencesResolve == \A i \in RowId : stored[i] # Null => Resolves(stored[i])

\* Two transfers of a tenant never share a number, also if both were looked up
\* before either was inserted.  (Without a tenant they can, as invoices can.)
TransferNoUnique ==
    \A i, j \in RowId, no \in TransferNo, tenant \in Tenant \ {NoTenant} :
        HasNumber(i, tenant, no) /\ HasNumber(j, tenant, no) => i = j

\* An attendance row, which has no tenant of its own, is on exactly one list:
\* its employee's, as the employee's tenant gets it.
AttendanceOnOneList ==
    \A i \in RowId : IsIn("attendance", i) =>
        \E e \in RowId :
            /\ IsIn("employees", e)
            /\ \A tenant \in Tenant, d \in RowId :
                   i \in AttendanceList(tenant, d) <=> d = e /\ tenant = stored[e].tenant

\* The step removes the row that i refers to, and i follows as its foreign key
\* says.
Follows(tenant, i) ==
    /\ stored[i] # Null /\ stored[i].ref # Null
    /\ Finds(tenant, stored[i].ref) /\ stored'[stored[i].ref] = Null
    /\ IF stored[i].table = "attendance" THEN stored'[i] = Null
       ELSE stored'[i] = [stored[i] EXCEPT !.ref = Null]

\* A tenant's callers touch nothing of another tenant but what refers to a row
\* of theirs that they remove, and they add nothing to it but attendance.
TenantsApart ==
    [][\A i \in RowId : stored'[i] # stored[i] =>
        \A tenant \in Tenant : By(tenant) =>
            \/ stored[i] # Null /\ stored[i].tenant = tenant
            \/ stored[i] = Null /\ (stored'[i].tenant = tenant \/ stored'[i].table = "attendance")
            \/ Follows(tenant, i)]_vars
=============================================================================
