------------------------- MODULE TenantTablesProofs -------------------------
(***************************************************************************)
(* Theorems about TenantTables, for any tenants, ids and requests.  The    *)
(* invariants are inductive given TypeOK, so that each needs one lemma     *)
(* over the actions.                                                       *)
(***************************************************************************)
EXTENDS TenantTables, TLAPS

\* A step by the tables it touches, which every proof below splits on.
LEMMA StepCases ==
    ASSUME Next
    PROVE  \/ \E tenant \in Tenant : Create(tenant)
           \/ RecordAttendance
           \/ \E tenant \in Tenant, i \in RowId : Update(tenant, i)
           \/ \E tenant \in Tenant, i \in RowId : RemoveById(tenant, i)
           \/ \E tenant \in Tenant, r \in Request : FindByTransferNo(r, tenant)
           \/ \E r \in Request : InsertTransfer(r)
           \/ \E r \in Request : AbandonTransfer(r)
BY DEF Next, By

\* An INSERT of a well-formed row is a well-formed row more.
LEMMA InsertTyped ==
    ASSUME TypeOK, NEW row \in Row, Insert(row)
    PROVE  TypeOK'
BY DEF TypeOK, Insert

\* A PUT leaves a well-formed row in the place of one, in the same table, with
\* the same owner and number, and with a reference that it had or that resolves.
LEMMA UpdateRow ==
    ASSUME TypeOK, NEW tenant \in Tenant, NEW i \in RowId, Update(tenant, i)
    PROVE  \E row \in Row :
               /\ stored' = [stored EXCEPT ![i] = row]
               /\ stored[i] \in Row
               /\ row.table = stored[i].table /\ row.tenant = stored[i].tenant /\ row.no = stored[i].no
               /\ \/ row.ref = stored[i].ref
                  \/ row.table = "inventory" /\ row.ref \in RowId /\ IsIn("categories", row.ref)
<1>1. stored[i] \in Row
  BY DEF TypeOK, Update, Finds
<1>2. PICK v \in Value, c \in RowId \cup {Null} :
        /\ c = stored[i].ref \/ (stored[i].table = "inventory" /\ c # Null /\ IsIn("categories", c))
        /\ stored' = [stored EXCEPT ![i] = [stored[i] EXCEPT !.value = v, !.ref = c]]
  BY DEF Update
<1> DEFINE row == [stored[i] EXCEPT !.value = v, !.ref = c]
<1>3. row \in Row
  BY <1>1 DEF Row
<1>4. /\ row.table = stored[i].table /\ row.tenant = stored[i].tenant /\ row.no = stored[i].no
      /\ row.ref = c
  BY <1>1 DEF Row
<1> HIDE DEF row
<1>5. stored' = [stored EXCEPT ![i] = row]
  BY <1>2 DEF row
<1> QED BY <1>1, <1>2, <1>3, <1>4, <1>5

\* Every step keeps the shape of rows and of creations in flight.
LEMMA TypeStep ==
    ASSUME TypeOK, [Next]_vars
    PROVE  TypeOK'
<1>1. CASE UNCHANGED vars
  BY <1>1 DEF TypeOK, vars
<1>2. ASSUME NEW tenant \in Tenant, Create(tenant) PROVE TypeOK'
  <2>1. PICK row \in Row : Insert(row)
    BY <1>2, SMTT(30) DEF Create, Row, Table, Stamp
  <2> QED BY <2>1, InsertTyped
<1>3. CASE RecordAttendance
  <2>1. PICK row \in Row : Insert(row)
    BY <1>3, TenantAssumption, SMTT(30) DEF RecordAttendance, Row, Table
  <2> QED BY <2>1, InsertTyped
<1>4. ASSUME NEW tenant \in Tenant, NEW i \in RowId, Update(tenant, i) PROVE TypeOK'
  <2>1. PICK row \in Row : stored' = [stored EXCEPT ![i] = row]
    BY <1>4, UpdateRow
  <2> QED BY <1>4, <2>1 DEF TypeOK, Update
<1>5. ASSUME NEW tenant \in Tenant, NEW i \in RowId, RemoveById(tenant, i) PROVE TypeOK'
  BY <1>5, NullAssumption DEF TypeOK, RemoveById, Without, IsIn, Row
<1>6. ASSUME NEW tenant \in Tenant, NEW r \in Request, FindByTransferNo(r, tenant) PROVE TypeOK'
  BY <1>6 DEF TypeOK, FindByTransferNo, Transfer
<1>7. ASSUME NEW r \in Request, InsertTransfer(r) PROVE TypeOK'
  BY <1>7 DEF TypeOK, InsertTransfer, Transfer, Row, Table
<1>8. ASSUME NEW r \in Request, AbandonTransfer(r) PROVE TypeOK'
  BY <1>8 DEF TypeOK, AbandonTransfer
<1> QED BY <1>1, <1>2, <1>3, <1>4, <1>5, <1>6, <1>7, <1>8, StepCases

\* Every row keeps its columns and every creation in flight its fields.
THEOREM TypeCorrectness == Spec => []TypeOK
<1>1. Init => TypeOK
  BY DEF Init, TypeOK
<1>2. TypeOK /\ [Next]_vars => TypeOK'
  BY TypeStep
<1> QED BY <1>1, <1>2, PTL DEF Spec

-----------------------------------------------------------------------------
(* Foreign keys.                                                           *)

\* Resolves, of the rows of any state.
ResolvesIn(rs, row) ==
    /\ row.ref # Null => /\ row.table \in {"inventory", "attendance"}
                         /\ rs[row.ref] # Null /\ rs[row.ref].table = Target(row.table)
    /\ row.table = "attendance" => row.ref # Null

AllResolve(rs) == \A i \in RowId : rs[i] # Null => ResolvesIn(rs, rs[i])

LEMMA ResolveForms ==
    /\ ReferencesResolve <=> AllResolve(stored)
    /\ ReferencesResolve' <=> AllResolve(stored')
BY DEF ReferencesResolve, Resolves, IsIn, AllResolve, ResolvesIn

\* A reference resolves as long as the rows of its target table stay there.
LEMMA StillResolves ==
    ASSUME NEW rs, NEW qs, NEW row \in Row, ResolvesIn(rs, row),
           \A k \in RowId : k = row.ref /\ rs[k] # Null /\ rs[k].table = Target(row.table) =>
               qs[k] # Null /\ qs[k].table = Target(row.table)
    PROVE  ResolvesIn(qs, row)
BY DEF ResolvesIn, Row

\* Replacing a row by one of its table, or putting one where none was, keeps
\* all references.
LEMMA PutResolves ==
    ASSUME NEW rs \in [RowId -> Row \cup {Null}], AllResolve(rs), NEW i \in RowId, NEW row \in Row,
           ResolvesIn(rs, row), rs[i] # Null => row.table = rs[i].table
    PROVE  AllResolve([rs EXCEPT ![i] = row])
<1> DEFINE qs == [rs EXCEPT ![i] = row]
<1>1. qs[i] = row /\ \A k \in RowId : k # i => qs[k] = rs[k]
  OBVIOUS
<1>2. \A k \in RowId : rs[k] # Null => qs[k] # Null /\ qs[k].table = rs[k].table
  BY <1>1, NullAssumption
<1> HIDE DEF qs
<1>3. ASSUME NEW k \in RowId, qs[k] # Null PROVE ResolvesIn(qs, qs[k])
  <2>1. CASE k = i
    BY <1>1, <1>2, <2>1, StillResolves
  <2>2. CASE k # i
    BY <1>1, <1>2, <1>3, <2>2, StillResolves DEF AllResolve
  <2> QED BY <2>1, <2>2
<1> QED BY <1>3 DEF AllResolve, qs

\* An INSERT of a row whose reference resolves keeps all others as they are.
LEMMA InsertResolves ==
    ASSUME TypeOK, AllResolve(stored), NEW row \in Row, Insert(row), ResolvesIn(stored, row)
    PROVE  AllResolve(stored')
BY PutResolves DEF TypeOK, Insert

\* A PUT keeps every row in its table, so that all references still resolve.
LEMMA UpdateResolves ==
    ASSUME TypeOK, AllResolve(stored), NEW tenant \in Tenant, NEW i \in RowId, Update(tenant, i)
    PROVE  AllResolve(stored')
<1>1. PICK row \in Row :
        /\ stored' = [stored EXCEPT ![i] = row]
        /\ stored[i] \in Row
        /\ row.table = stored[i].table
        /\ \/ row.ref = stored[i].ref
           \/ row.table = "inventory" /\ row.ref \in RowId /\ IsIn("categories", row.ref)
  BY UpdateRow
<1>2. ResolvesIn(stored, row)
  BY <1>1, NullAssumption DEF AllResolve, ResolvesIn, Target, IsIn
<1> QED BY <1>1, <1>2, PutResolves DEF TypeOK

\* A DELETE takes away or unties what referred to the row.
LEMMA RemoveResolves ==
    ASSUME TypeOK, AllResolve(stored), NEW tenant \in Tenant, NEW i \in RowId, RemoveById(tenant, i)
    PROVE  AllResolve(stored')
<1>1. stored' = Without(i)
  BY DEF RemoveById
<1>2. ASSUME NEW k \in RowId, k # i, stored[k] # Null, stored[k].table \in {"categories", "employees"}
      PROVE  stored'[k] = stored[k]
  BY <1>1, <1>2 DEF Without, IsIn
<1>3. ASSUME NEW j \in RowId, stored'[j] # Null PROVE ResolvesIn(stored', stored'[j])
  <2>1. stored[j] \in Row /\ ResolvesIn(stored, stored[j])
    <3>1. stored'[j] = Without(i)[j]
      BY <1>1
    <3>2. stored[j] # Null
      BY <1>3, <3>1 DEF Without, IsIn
    <3> QED BY <3>2 DEF TypeOK, AllResolve
  <2>2. CASE stored[j].ref # i
    <3>1. stored'[j] = stored[j]
      BY <1>1, <1>3, <2>2 DEF Without
    <3>2. ResolvesIn(stored', stored[j])
      BY <1>2, <2>1, <2>2, StillResolves DEF Target
    <3> QED BY <3>1, <3>2
  <2>3. CASE stored[j].ref = i
    <3>1. stored[j].table \in {"inventory", "attendance"}
      BY <2>1, <2>3, NullAssumption DEF ResolvesIn
    <3>2. stored[j].table = "inventory" /\ stored'[j] = [stored[j] EXCEPT !.ref = Null]
      BY <1>1, <1>3, <2>1, <2>3, <3>1, NullAssumption DEF Without, IsIn
    <3> QED BY <2>1, <3>2 DEF ResolvesIn, Row
  <2> QED BY <2>2, <2>3
<1> QED BY <1>3 DEF AllResolve

\* No step leaves a reference behind that points to nothing.
LEMMA ReferencesStep ==
    ASSUME TypeOK, ReferencesResolve, [Next]_vars
    PROVE  ReferencesResolve'
<1>0. AllResolve(stored)
  BY ResolveForms
<1>2. ASSUME NEW tenant \in Tenant, Create(tenant) PROVE AllResolve(stored')
  <2>1. PICK table \in {"categories", "inventory", "employees"}, v \in Value, c \in RowId \cup {Null} :
          /\ c # Null => table = "inventory" /\ IsIn("categories", c)
          /\ Insert([table |-> table, tenant |-> Stamp(tenant), ref |-> c, no |-> Null, value |-> v])
    BY <1>2 DEF Create
  <2> DEFINE row == [table |-> table, tenant |-> Stamp(tenant), ref |-> c, no |-> Null, value |-> v]
  <2>2. row \in Row /\ ResolvesIn(stored, row)
    BY <2>1 DEF Row, Table, Stamp, ResolvesIn, IsIn, Target
  <2> QED BY <1>0, <2>1, <2>2, InsertResolves
<1>3. ASSUME RecordAttendance PROVE AllResolve(stored')
  <2>1. PICK e \in RowId, v \in Value :
          /\ IsIn("employees", e)
          /\ Insert([table |-> "attendance", tenant |-> NoTenant, ref |-> e, no |-> Null,
                     value |-> v])
    BY <1>3 DEF RecordAttendance
  <2> DEFINE row == [table |-> "attendance", tenant |-> NoTenant, ref |-> e, no |-> Null, value |-> v]
  <2>2. row \in Row /\ ResolvesIn(stored, row)
    BY <2>1, TenantAssumption, NullAssumption DEF Row, Table, ResolvesIn, IsIn, Target
  <2> QED BY <1>0, <2>1, <2>2, InsertResolves
<1>4. ASSUME NEW r \in Request, InsertTransfer(r) PROVE AllResolve(stored')
  <2> DEFINE row == [table |-> "stock_transfers", tenant |-> creating[r].tenant, ref |-> Null,
                     no |-> creating[r].no, value |-> creating[r].value]
  <2>1. row \in Row /\ ResolvesIn(stored, row)
    BY <1>4 DEF TypeOK, InsertTransfer, Transfer, Row, Table, ResolvesIn
  <2>2. UNCHANGED stored \/ \E i \in RowId : stored[i] = Null /\ stored' = [stored EXCEPT ![i] = row]
    BY <1>4 DEF InsertTransfer
  <2> QED BY <1>0, <2>1, <2>2, PutResolves DEF TypeOK
<1>5. ASSUME UNCHANGED stored PROVE AllResolve(stored')
  BY <1>0, <1>5
<1> QED
  BY <1>0, <1>2, <1>3, <1>4, <1>5, UpdateResolves, RemoveResolves, StepCases, ResolveForms
  DEF vars, FindByTransferNo, AbandonTransfer

\* Whatever is removed and by whom, references point to rows of their table.
THEOREM ReferentialIntegrity == Spec => []ReferencesResolve
<1>1. Init => ReferencesResolve
  BY DEF Init, ReferencesResolve
<1>2. TypeOK /\ ReferencesResolve /\ [Next]_vars => ReferencesResolve'
  BY ReferencesStep
<1> QED BY <1>1, <1>2, TypeCorrectness, PTL DEF Spec

\* Attendance, which no tenant owns, is on one list of one tenant.
THEOREM AttendanceHasOneReader == Spec => []AttendanceOnOneList
<1>1. TypeOK /\ ReferencesResolve => AttendanceOnOneList
  BY NullAssumption, SMTT(30)
  DEF TypeOK, ReferencesResolve, AttendanceOnOneList, AttendanceList, IsIn, Resolves, Target, Row
<1> QED BY <1>1, TypeCorrectness, ReferentialIntegrity, PTL

-----------------------------------------------------------------------------
(* Transfer numbers.                                                       *)

\* Rows that are not transfers do not matter, and no PUT changes a number.
LEMMA NumberStep ==
    ASSUME TypeOK, TransferNoUnique, [Next]_vars
    PROVE  TransferNoUnique'
<1>1. CASE UNCHANGED vars
  BY <1>1 DEF TransferNoUnique, HasNumber, IsIn, vars
<1>2. ASSUME NEW row, row.table # "stock_transfers", Insert(row) PROVE TransferNoUnique'
  BY <1>2, SMTT(30) DEF TypeOK, TransferNoUnique, HasNumber, IsIn, Insert
<1>3. ASSUME NEW tenant \in Tenant, Create(tenant) PROVE TransferNoUnique'
  BY <1>2, <1>3 DEF Create
<1>4. CASE RecordAttendance
  BY <1>2, <1>4 DEF RecordAttendance
<1>5. ASSUME NEW tenant \in Tenant, NEW i \in RowId, Update(tenant, i) PROVE TransferNoUnique'
  BY <1>5, NullAssumption, SMTT(30) DEF TypeOK, TransferNoUnique, HasNumber, IsIn, Update, Finds, Row
<1>6. ASSUME NEW tenant \in Tenant, NEW i \in RowId, RemoveById(tenant, i) PROVE TransferNoUnique'
  BY <1>6, NullAssumption, SMTT(30) DEF TypeOK, TransferNoUnique, HasNumber, IsIn, RemoveById, Without, Row
<1>7. ASSUME NEW tenant \in Tenant, NEW r \in Request, FindByTransferNo(r, tenant)
      PROVE TransferNoUnique'
  BY <1>7 DEF TransferNoUnique, HasNumber, IsIn, FindByTransferNo
<1>8. ASSUME NEW r \in Request, InsertTransfer(r) PROVE TransferNoUnique'
  BY <1>8, SMTT(30) DEF TypeOK, TransferNoUnique, HasNumber, IsIn, InsertTransfer, Duplicate
<1>9. ASSUME NEW r \in Request, AbandonTransfer(r) PROVE TransferNoUnique'
  BY <1>9 DEF TransferNoUnique, HasNumber, IsIn, AbandonTransfer
<1> QED BY <1>1, <1>3, <1>4, <1>5, <1>6, <1>7, <1>8, <1>9, StepCases

\* The constraint decides, whatever two requests saw before their INSERTs.
THEOREM TransferNumbersUnique == Spec => []TransferNoUnique
<1>1. Init => TransferNoUnique
  BY DEF Init, TransferNoUnique, HasNumber, IsIn
<1>2. TypeOK /\ TransferNoUnique /\ [Next]_vars => TransferNoUnique'
  BY NumberStep
<1> QED BY <1>1, <1>2, TypeCorrectness, PTL DEF Spec
-----------------------------------------------------------------------------
(* Tenants.                                                                *)

\* What TenantsApart lets a step of a tenant's caller do to a row.
Allowed(tenant, i) ==
    \/ stored[i] # Null /\ stored[i].tenant = tenant
    \/ stored[i] = Null /\ (stored'[i].tenant = tenant \/ stored'[i].table = "attendance")
    \/ Follows(tenant, i)

\* An INSERT changes nothing but a free id.
LEMMA InsertAllowed ==
    ASSUME TypeOK, NEW row, Insert(row), NEW tenant,
           row.tenant = tenant \/ row.table = "attendance",
           NEW j \in RowId, stored'[j] # stored[j]
    PROVE  Allowed(tenant, j)
<1>1. PICK i \in RowId : stored[i] = Null /\ stored' = [stored EXCEPT ![i] = row]
  BY DEF Insert
<1>2. j = i /\ stored'[j] = row
  BY <1>1 DEF TypeOK
<1> QED BY <1>1, <1>2 DEF Allowed

\* A DELETE reaches beyond the caller's rows only along foreign keys.
LEMMA RemoveAllowed ==
    ASSUME TypeOK, NEW tenant, NEW i \in RowId, RemoveById(tenant, i), NEW j \in RowId, stored'[j] # stored[j]
    PROVE  Allowed(tenant, j)
<1>1. stored' = Without(i) /\ Finds(tenant, i)
  BY DEF RemoveById
<1>2. stored'[i] = Null
  BY <1>1 DEF Without
<1>3. CASE j = i
  BY <1>1, <1>3 DEF Finds, Allowed
<1>4. CASE j # i /\ IsIn("attendance", j) /\ stored[j].ref = i
  <2>1. stored'[j] = Null /\ stored[j].ref # Null
    BY <1>1, <1>4, NullAssumption DEF Without
  <2> QED BY <1>1, <1>2, <1>4, <2>1 DEF Allowed, Follows, IsIn
<1>5. CASE j # i /\ IsIn("inventory", j) /\ stored[j].ref = i
  <2>1. stored'[j] = [stored[j] EXCEPT !.ref = Null] /\ stored[j].ref # Null
    BY <1>1, <1>5, NullAssumption DEF Without, IsIn
  <2> QED BY <1>1, <1>2, <1>5, <2>1 DEF Allowed, Follows, IsIn
<1> QED BY <1>1, <1>3, <1>4, <1>5 DEF Without

\* The step of any caller of a tenant, row by row.
LEMMA ByAllowed ==
    ASSUME TypeOK, NEW tenant \in Tenant, By(tenant), NEW j \in RowId, stored'[j] # stored[j]
    PROVE  Allowed(tenant, j)
<1>1. CASE Create(tenant)
  <2>1. PICK row : Insert(row) /\ row.tenant = tenant
    BY <1>1 DEF Create, Stamp
  <2> QED BY <2>1, InsertAllowed
<1>2. CASE RecordAttendance
  <2>1. PICK row : Insert(row) /\ row.table = "attendance"
    BY <1>2 DEF RecordAttendance
  <2> QED BY <2>1, InsertAllowed
<1>3. ASSUME NEW i \in RowId, Update(tenant, i) PROVE Allowed(tenant, j)
  BY <1>3 DEF TypeOK, Update, Finds, Allowed
<1>4. ASSUME NEW i \in RowId, RemoveById(tenant, i) PROVE Allowed(tenant, j)
  BY <1>4, RemoveAllowed
<1>5. ASSUME NEW r \in Request, creating[r] # Null, creating[r].tenant = tenant, InsertTransfer(r)
      PROVE  Allowed(tenant, j)
  BY <1>5 DEF TypeOK, InsertTransfer, Allowed
<1> QED BY <1>1, <1>2, <1>3, <1>4, <1>5 DEF By, FindByTransferNo, AbandonTransfer

\* A tenant's callers leave the other tenants' rows alone, but for what
\* refers to a row that they remove and for attendance that they add.
THEOREM TenantIsolation == Spec => TenantsApart
<1>1. TypeOK /\ [Next]_vars =>
        [\A i \in RowId : stored'[i] # stored[i] =>
            \A tenant \in Tenant : By(tenant) =>
                \/ stored[i] # Null /\ stored[i].tenant = tenant
                \/ stored[i] = Null /\ (stored'[i].tenant = tenant \/ stored'[i].table = "attendance")
                \/ Follows(tenant, i)]_vars
  BY ByAllowed DEF Allowed
<1> QED BY <1>1, TypeCorrectness, PTL DEF Spec, TenantsApart
=============================================================================
