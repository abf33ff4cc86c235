-------------------------- MODULE StockLedgerProofs --------------------------
(***************************************************************************)
(* Safety of StockLedger for any number of requests, rows, tenants, pool   *)
(* clients and amounts.                                                    *)
(***************************************************************************)
EXTENDS StockLedger, FiniteSetTheorems, TLAPS

(***************************************************************************)
(* StockMath.                                                              *)
(***************************************************************************)

\* The status is one of the four that the column's CHECK admits.
LEMMA StatusType ==
    ASSUME NEW x \in Int
    PROVE  ComputeStockStatus(x) \in StockStatus
BY DEF ComputeStockStatus, StockStatus, LowStockThreshold, MediumStockThreshold, Unit, Cent

\* The column keeps whole cents.
LEMMA NumericType ==
    ASSUME NEW x \in Int
    PROVE  /\ ToNumeric(x) \in Int
           /\ WholeCents(ToNumeric(x))
BY DEF ToNumeric, WholeCents, Cent

\* Rounding never makes a non-negative amount negative.
LEMMA NumericNat ==
    ASSUME NEW x \in Int, x >= 0
    PROVE  ToNumeric(x) >= 0
BY DEF ToNumeric, Cent

\* The column keeps whole units as they are.
LEMMA NumericExact ==
    ASSUME NEW x \in Int, Whole(x)
    PROVE  ToNumeric(x) = x
BY DEF ToNumeric, Whole, Unit, Cent

\* A computed stock is an integer number of grains.
LEMMA FloatSumType ==
    ASSUME NEW a \in Int, NEW d \in Int
    PROVE  FloatSum(a, d) \subseteq Int
BY DEF FloatSum

\* On whole units the computation is exact and stays on whole units.
LEMMA FloatSumWhole ==
    ASSUME NEW a \in Int, NEW d \in Int, Whole(a), Whole(d), NEW x \in FloatSum(a, d)
    PROVE  x = a + d /\ Whole(x)
BY DEF FloatSum, Whole, Unit, Cent

(***************************************************************************)
(* StockLedger.                                                            *)
(***************************************************************************)

(* What validateRequest lets through.                                      *)
LEMMA CallShape ==
    ASSUME NEW c \in Calls
    PROVE  /\ c \in CallRecord
           /\ c.op \in {"createItem", "updateItem", "removeItem", "adjustStock",
                        "createTxn", "updateTxn", "removeTxn"}
           /\ c.op = "createItem" => c.item \in Item /\ c.sku \in Sku /\ c.amount \in Opening
           /\ c.op = "updateItem" => c.item \in Item /\ c.amount \in Opening \cup {Null}
           /\ c.op = "removeItem" => c.item \in Item
           /\ c.op = "createTxn" => c.txn \in Txn /\ c.invoice \in Invoice
           /\ c.op \in {"updateTxn", "removeTxn"} => c.txn \in Txn
           /\ MovesStock(c) => c.item \in Item /\ Movement(c) \in Int
<1>0. /\ Opening \subseteq Int /\ Quantity \subseteq Int
      /\ {-q : q \in Quantity} \subseteq Int
  BY TablesAssumption
<1> USE <1>0 DEF Shape, Absent, CallRecord, MovesStock, Movement
<1>1. CASE c \in Shape({"createItem"}, Item, Absent, Sku, Absent, Absent, Opening)
  BY <1>1
<1>2. CASE c \in Shape({"updateItem"}, Item, Absent, Sku \cup Absent, Absent, Absent,
                       Opening \cup Absent)
  BY <1>2
<1>3. CASE c \in Shape({"removeItem"}, Item, Absent, Absent, Absent, Absent, Absent)
  BY <1>3
<1>4. CASE c \in Shape({"adjustStock"}, Item, Absent, Absent, Absent, Absent,
                       Quantity \cup {-q : q \in Quantity})
  BY <1>4
<1>5. CASE c \in Shape({"createTxn"}, Item \cup Absent, Txn, Absent, Invoice, TxnType,
                       Quantity \cup Absent)
  BY <1>5 DEF Delta
<1>6. CASE c \in Shape({"updateTxn", "removeTxn"}, Absent, Txn, Absent, Absent, Absent, Absent)
  BY <1>6
<1> QED
  BY <1>1, <1>2, <1>3, <1>4, <1>5, <1>6 DEF Calls, ItemCalls, TxnCalls

\* POST /inventory writes a well-formed row of its caller's tenant.
LEMMA NewItemType ==
    ASSUME NEW c \in Calls, c.op = "createItem"
    PROVE  /\ NewItem(c) \in ItemRow
           /\ NewItem(c).stock = ToNumeric(c.amount) /\ c.amount \in Nat
<1>1. c.tenant \in Tenant /\ c.sku \in Sku /\ c.amount \in Nat
  BY CallShape, TablesAssumption DEF CallRecord
<1>2. ToNumeric(c.amount) \in Int /\ ComputeStockStatus(c.amount) \in StockStatus
  BY <1>1, NumericType, StatusType
<1> QED
  BY <1>1, <1>2 DEF NewItem, ItemRow

\* The UPDATE of adjustStock and create leaves a well-formed row, same tenant.
LEMMA WithStockType ==
    ASSUME NEW row \in ItemRow, NEW x \in Int
    PROVE  /\ WithStock(row, x) \in ItemRow
           /\ WithStock(row, x).stock = ToNumeric(x)
           /\ WithStock(row, x).tenant = row.tenant
<1>1. ToNumeric(x) \in Int /\ ComputeStockStatus(x) \in StockStatus
  BY NumericType, StatusType
<1> QED
  BY <1>1 DEF WithStock, ItemRow

\* PUT /inventory leaves a well-formed row, same tenant.
LEMMA PatchedType ==
    ASSUME NEW row \in ItemRow, NEW c \in Calls, c.op = "updateItem"
    PROVE  /\ Patched(row, c) \in ItemRow
           /\ Patched(row, c).tenant = row.tenant
           /\ Patched(row, c).stock = IF c.amount = Null THEN row.stock ELSE ToNumeric(c.amount)
           /\ EmptyPatch(c) => Patched(row, c) = row
<1>1. c.amount \in Nat \cup {Null} /\ c.sku \in Sku \cup {Null}
  BY CallShape, TablesAssumption DEF CallRecord
<1> DEFINE restocked == IF c.amount = Null THEN row ELSE WithStock(row, c.amount)
<1>2. /\ restocked \in ItemRow /\ restocked.tenant = row.tenant
      /\ restocked.stock = IF c.amount = Null THEN row.stock ELSE ToNumeric(c.amount)
  BY <1>1, WithStockType
<1>3. Patched(row, c) = IF c.sku = Null THEN restocked ELSE [restocked EXCEPT !.sku = c.sku]
  BY DEF Patched
<1>4. EmptyPatch(c) => Patched(row, c) = row
  BY DEF EmptyPatch, Patched
<1> HIDE DEF restocked
<1> QED
  BY <1>1, <1>2, <1>3, <1>4 DEF ItemRow

-----------------------------------------------------------------------------
(* The steps that leave the tables alone.                                  *)

\* The empty database, with nothing in flight.
LEMMA InitInv == Init => IInv
<1> SUFFICES ASSUME Init PROVE IInv
  OBVIOUS
<1> USE DEF Init
<1>1. TypeOK
  BY TablesAssumption
     DEF TypeOK, Label, Reply, NoCall, CallRecord
<1>2. OnPath /\ OwnIds /\ ReadIsCurrent /\ StockInRange
  BY DEF OnPath, OwnIds, NoCall, ReadIsCurrent, StockInRange
<1>3. NothingLeaks
  BY FS_EmptySet, PoolAssumption DEF NothingLeaks
<1> QED
  BY <1>1, <1>2, <1>3 DEF IInv

\* The pool only shrinks when clients are given back.
LEMMA PoolShrinks ==
    ASSUME NothingLeaks, NEW S, S \subseteq clients
    PROVE  IsFiniteSet(S) /\ Cardinality(S) <= PoolMax
<1>1. IsFiniteSet(clients) /\ Cardinality(clients) <= PoolMax
  BY DEF NothingLeaks
<1>2. IsFiniteSet(S) /\ Cardinality(S) <= Cardinality(clients)
  BY <1>1, FS_Subset
<1>3. Cardinality(S) \in Int /\ Cardinality(clients) \in Int
  BY <1>1, <1>2, FS_CardinalityType
<1> QED
  BY <1>1, <1>2, <1>3, PoolAssumption

\* A handler that read a row under lock is working on one.
LEMMA ReaderItem ==
    ASSUME OnPath, NEW q \in Request, pc[q] # "idle", MovesStock(call[q])
    PROVE  call[q] \in Calls /\ call[q].item \in Item /\ Movement(call[q]) \in Int
BY CallShape DEF OnPath

\* A handler that ends, with whatever locks it held set free.
LEMMA EndsInv ==
    ASSUME IInv, NEW r \in Request, NEW answer \in Reply, Ends(r, answer),
           \/ lock' = Unlocked(r)
           \/ lock' = lock /\ pc[r] \notin {"update", "commit", "rollback"},
           UNCHANGED tables
    PROVE  IInv'
<1> USE DEF IInv, Ends, tables
<1>0. lock' = Unlocked(r)
  BY DEF NothingLeaks, Unlocked, TypeOK
<1>1. TypeOK'
  BY <1>0, TablesAssumption DEF TypeOK, Unlocked, Label, NoCall, CallRecord
<1>2. OnPath'
  BY DEF OnPath, TypeOK
<1>3. ReadIsCurrent'
  <2>1. \A q \in Request : pc'[q] = IF q = r THEN "idle" ELSE pc[q]
    BY DEF TypeOK
  <2>2. \A q \in Request \ {r} : call'[q] = call[q] /\ target'[q] = target[q]
    BY DEF TypeOK
  <2>3. \A q \in Request \ {r} : pc[q] \in {"update", "commit"} /\ MovesStock(call[q])
            => lock'[call[q].item] = lock[call[q].item]
    BY <1>0, ReaderItem DEF ReadIsCurrent, Unlocked, TypeOK
  <2> QED
    BY <2>1, <2>2, <2>3 DEF ReadIsCurrent
<1>4. StockInRange'
  BY DEF StockInRange
<1>6. OwnIds'
  BY CallShape, NullAssumption DEF OwnIds, OnPath, NoCall, TypeOK
<1>5. NothingLeaks'
  <2>1. IsFiniteSet(clients') /\ Cardinality(clients') <= PoolMax
    BY PoolShrinks
  <2>2. \A q \in clients' : pc'[q] # "idle"
    BY DEF NothingLeaks, TypeOK
  <2>3. \A i \in Item : lock'[i] # Free =>
          /\ lock'[i] \in clients' /\ call'[lock'[i]].item = i
          /\ pc'[lock'[i]] \in {"update", "commit", "rollback"}
    BY <1>0 DEF NothingLeaks, Unlocked, TypeOK
  <2> QED
    BY <2>1, <2>2, <2>3 DEF NothingLeaks
<1> QED
  BY <1>1, <1>2, <1>3, <1>4, <1>5, <1>6

\* A request arrives.
LEMMA ReceiveInv == ASSUME IInv, NEW r \in Request, Receive(r) PROVE IInv'
<1> USE DEF IInv, Receive
<1>1. PICK c \in Calls : /\ IdsPossible(c, inventory, ledger, InFlight)
                         /\ call' = [call EXCEPT ![r] = c]
                         /\ pc' = [pc EXCEPT ![r] = FirstLabel(c)]
  OBVIOUS
<1>2. /\ c \in CallRecord
      /\ FirstLabel(c) \in {"find", "select", "write"}
      /\ FirstLabel(c) = "find" => c.op \in {"createItem", "createTxn"}
      /\ FirstLabel(c) = "select" => MovesStock(c)
  BY CallShape DEF FirstLabel, MovesStock
<1>3. \A q \in Request : q # r => call'[q] = call[q] /\ pc'[q] = pc[q]
  BY <1>1 DEF TypeOK
<1>4. call'[r] = c /\ pc'[r] = FirstLabel(c)
  BY <1>1 DEF TypeOK
<1>5. TypeOK'
  BY <1>1, <1>2 DEF TypeOK, Label, Reply
<1>6. OnPath'
  BY <1>2, <1>3, <1>4 DEF OnPath
<1>7. ReadIsCurrent'
  BY <1>2, <1>3, <1>4 DEF ReadIsCurrent
<1>8. NothingLeaks'
  BY <1>2, <1>3, <1>4 DEF NothingLeaks, TypeOK
<1>9. StockInRange'
  BY DEF StockInRange
<1>10. OwnIds'
  <2>1. \A q \in Request \ {r} :
          /\ c.op = "createItem" => call[q].item # c.item
          /\ c.op = "createTxn" => call[q].txn # c.txn
          /\ call[q].op = "createItem" => call[q].item # c.item
          /\ call[q].op = "createTxn" => call[q].txn # c.txn
    <3> TAKE q \in Request \ {r}
    <3>1. CASE pc[q] = "idle"
      BY <3>1, CallShape, NullAssumption DEF OnPath, NoCall
    <3>2. CASE pc[q] # "idle"
      BY <1>1, <3>2 DEF IdsPossible, InFlight
    <3> QED
      BY <3>1, <3>2
  <2> QED
    BY <1>3, <1>4, <2>1 DEF OwnIds
<1> QED
  BY <1>5, <1>6, <1>7, <1>8, <1>9, <1>10

\* A client leaves the pool only while there is one.
LEMMA AcquireClientInv == ASSUME IInv, NEW r \in Request, AcquireClient(r) PROVE IInv'
<1> USE DEF IInv, AcquireClient
<1>1. IsFiniteSet(clients') /\ Cardinality(clients') <= PoolMax
  <2>1. IsFiniteSet(clients) /\ r \notin clients
    BY DEF NothingLeaks, WaitsForClient
  <2>2. /\ IsFiniteSet(clients \cup {r})
        /\ Cardinality(clients \cup {r}) = Cardinality(clients) + 1
    BY <2>1, FS_AddElement
  <2>3. Cardinality(clients) \in Nat
    BY <2>1, FS_CardinalityType
  <2> QED
    BY <2>2, <2>3, PoolAssumption DEF ClientAvailable
<1>2. TypeOK' /\ OnPath' /\ OwnIds' /\ ReadIsCurrent' /\ StockInRange'
  BY DEF TypeOK, OnPath, OwnIds, ReadIsCurrent, StockInRange
<1>3. NothingLeaks'
  BY <1>1 DEF NothingLeaks, WaitsForClient
<1> QED
  BY <1>2, <1>3

\* The process dies: whatever was held is free.
LEMMA CrashInv == ASSUME IInv, Crash PROVE IInv'
<1> USE DEF IInv, Crash, tables
<1>1. TypeOK'
  BY TablesAssumption DEF TypeOK, Label, Reply, NoCall, CallRecord
<1>2. OnPath' /\ OwnIds' /\ ReadIsCurrent' /\ StockInRange'
  BY DEF OnPath, OwnIds, NoCall, ReadIsCurrent, StockInRange
<1>3. NothingLeaks'
  BY FS_EmptySet, PoolAssumption DEF NothingLeaks
<1> QED
  BY <1>1, <1>2, <1>3

\* A handler without a row lock moves on and nobody else notices.
LEMMA MovesOnInv ==
    ASSUME IInv, NEW r \in Request, NEW label \in Label \ {"idle", "update"},
           Goto(r, label), pc[r] # "idle",
           \A i \in Item : lock[i] # r,
           label = "find" => call[r].op \in {"createItem", "createTxn"},
           label = "insert" => call[r].op = "createTxn",
           label = "select" => MovesStock(call[r]),
           label = "commit" => call[r].op = "createTxn" /\ ~MovesStock(call[r]),
           clients' \in {clients, clients \ {r}},
           UNCHANGED <<inventory, ledger, lock, call, target, reply>>
    PROVE  IInv'
<1> USE DEF IInv, Goto
<1>1. TypeOK'
  BY DEF TypeOK
<1>2. OnPath' /\ OwnIds' /\ ReadIsCurrent' /\ StockInRange'
  BY DEF TypeOK, OnPath, OwnIds, ReadIsCurrent, StockInRange
<1>3. NothingLeaks'
  <2>1. IsFiniteSet(clients') /\ Cardinality(clients') <= PoolMax
    BY PoolShrinks DEF NothingLeaks
  <2> QED
    BY <2>1 DEF NothingLeaks, TypeOK
<1> QED
  BY <1>1, <1>2, <1>3

-----------------------------------------------------------------------------
(* The steps that write a table.                                           *)

\* An autocommitted write: its handler goes on to its answer, and a row that
\* another handler has locked stays as it is.
LEMMA WrittenInv ==
    ASSUME IInv, NEW r \in Request, At(r, "write"), Written(r),
           inventory' \in [Item -> ItemRow \cup {Null}],
           ledger' \in [Txn -> TxnRow \cup {Null}],
           \A i \in Item : lock[i] # Free => inventory'[i] = inventory[i],
           StockInRange'
    PROVE  IInv'
<1> USE DEF IInv, Written, Goto, At
<1>1. TypeOK'
  BY DEF TypeOK, Label
<1>2. OnPath' /\ OwnIds'
  BY DEF TypeOK, OnPath, OwnIds
<1>3. ReadIsCurrent'
  <2>1. \A q \in Request : pc[q] \in {"update", "commit"} /\ MovesStock(call[q])
            => /\ inventory'[call[q].item] = inventory[call[q].item]
               /\ Finds(inventory', call[q].item, call[q].tenant)
    BY ReaderItem, FreeAssumption DEF ReadIsCurrent, Finds
  <2> QED
    BY <2>1 DEF ReadIsCurrent, TypeOK
<1>4. NothingLeaks'
  BY DEF NothingLeaks, TypeOK
<1> QED
  BY <1>1, <1>2, <1>3, <1>4

\* What a column that did not overflow holds.
LEMMA ColumnHolds ==
    ASSUME NEW x \in Int, x >= 0, ~ColumnOverflows(x)
    PROVE  ToNumeric(x) \in 0..MaxStock /\ WholeCents(ToNumeric(x))
BY NumericType, NumericNat, TablesAssumption DEF ColumnOverflows

\* findBySku and findByInvoiceNo.
LEMMA FindInv == ASSUME IInv, NEW r \in Request, Find(r) PROVE IInv'
<1> DEFINE c == call[r]
           taken == IF c.op = "createItem" THEN SkuTaken(inventory, c) ELSE InvoiceTaken(ledger, c)
           next == IF c.op = "createItem" THEN "write" ELSE "insert"
<1>1. pc[r] = "find" /\ \A i \in Item : lock[i] # r
  BY FreeAssumption DEF Find, At, IInv, NothingLeaks
<1>2. CASE taken
  <2>1. Ends(r, "refused") /\ lock' = lock /\ UNCHANGED tables
    BY <1>2 DEF Find, Refused, tables
  <2> QED
    BY <1>1, <2>1, EndsInv DEF Reply
<1>3. CASE ~taken
  <2>1. /\ Goto(r, next) /\ clients' = clients \ {r}
        /\ UNCHANGED <<inventory, ledger, lock, call, target, reply>>
    BY <1>3 DEF Find
  <2>2. next = "insert" => call[r].op = "createTxn"
    BY <1>1 DEF IInv, OnPath
  <2> QED
    BY <1>1, <2>1, <2>2, MovesOnInv DEF Label
<1> QED
  BY <1>2, <1>3

\* POST /inventory, the INSERT.
LEMMA InsertItemInv == ASSUME IInv, NEW r \in Request, InsertItem(r) PROVE IInv'
<1> DEFINE c == call[r]
           fails == (UniqueApplies(c.tenant) /\ SkuTaken(inventory, c)) \/ ColumnOverflows(c.amount)
<1>1. At(r, "write") /\ c \in Calls /\ c.op = "createItem" /\ c.item \in Item
  BY CallShape DEF InsertItem, At, IInv, OnPath
<1>2. CASE fails
  BY <1>1, <1>2, EndsInv DEF InsertItem, Failed, At, Reply, tables
<1>3. CASE ~fails
  <2>1. inventory' = [inventory EXCEPT ![c.item] = NewItem(c)] /\ Written(r) /\ UNCHANGED ledger
    BY <1>3 DEF InsertItem
  <2>2. NewItem(c) \in ItemRow /\ NewItem(c).stock = ToNumeric(c.amount) /\ c.amount \in Nat
    BY <1>1, NewItemType
  <2>3. NewItem(c).stock \in 0..MaxStock /\ WholeCents(NewItem(c).stock)
    BY <1>3, <2>2, ColumnHolds
  <2>4. StockInRange'
    BY <1>1, <2>1, <2>3 DEF StockInRange, IInv, TypeOK
  <2>5. lock[c.item] = Free
    <3>1. lock[c.item] # Free => lock[c.item] \in Request \ {r} /\ call[lock[c.item]].item = c.item
      BY <1>1 DEF IInv, NothingLeaks, TypeOK, At
    <3> QED
      BY <1>1, <3>1 DEF IInv, OwnIds
  <2> QED
    BY <1>1, <2>1, <2>2, <2>4, <2>5, WrittenInv DEF IInv, TypeOK
<1> QED
  BY <1>2, <1>3

\* PUT /inventory, which waits for the row lock before it writes.
LEMMA UpdateItemInv == ASSUME IInv, NEW r \in Request, UpdateItem(r) PROVE IInv'
<1> DEFINE c == call[r]
           violates == \/ UniqueApplies(c.tenant) /\ c.sku # Null /\ SkuTaken(inventory, c)
                       \/ c.amount # Null /\ ColumnOverflows(c.amount)
<1>1. /\ At(r, "write") /\ c \in Calls /\ c.op = "updateItem" /\ c.item \in Item
      /\ c.amount \in Nat \cup {Null}
  BY CallShape, TablesAssumption DEF UpdateItem, At, IInv, OnPath
<1>2. CASE ~Finds(inventory, c.item, c.tenant) \/ violates
  <2>1. \E a \in {"refused", "failed"} : Ends(r, a) /\ UNCHANGED <<inventory, ledger, lock>>
    BY <1>2 DEF UpdateItem, Refused, Failed
  <2> QED
    BY <1>1, <2>1, EndsInv DEF At, Reply, tables
<1>3. CASE Finds(inventory, c.item, c.tenant) /\ ~violates
  <2>1. /\ EmptyPatch(c) \/ lock[c.item] = Free
        /\ inventory' = [inventory EXCEPT ![c.item] = Patched(@, c)]
        /\ Written(r) /\ UNCHANGED ledger
    BY <1>3 DEF UpdateItem, RowFree
  <2> DEFINE row == inventory[c.item]
  <2>2. row \in ItemRow
    BY <1>1, <1>3 DEF Finds, IInv, TypeOK
  <2>3. /\ Patched(row, c) \in ItemRow
        /\ Patched(row, c).stock = IF c.amount = Null THEN row.stock ELSE ToNumeric(c.amount)
        /\ EmptyPatch(c) => Patched(row, c) = row
    BY <1>1, <2>2, PatchedType
  <2>4. Patched(row, c).stock \in 0..MaxStock /\ WholeCents(Patched(row, c).stock)
    <3>1. c.amount # Null => ToNumeric(c.amount) \in 0..MaxStock /\ WholeCents(ToNumeric(c.amount))
      BY <1>1, <1>3, ColumnHolds
    <3>2. row.stock \in 0..MaxStock /\ WholeCents(row.stock)
      BY <1>1, <1>3 DEF Finds, IInv, StockInRange
    <3> QED
      BY <2>3, <3>1, <3>2
  <2>5. \A i \in Item : inventory'[i] = IF i = c.item THEN Patched(row, c) ELSE inventory[i]
    BY <1>1, <2>1 DEF IInv, TypeOK
  <2>6. StockInRange'
    BY <2>4, <2>5 DEF StockInRange, IInv
  <2>7. inventory' \in [Item -> ItemRow \cup {Null}] /\ ledger' \in [Txn -> TxnRow \cup {Null}]
    BY <2>1, <2>3 DEF IInv, TypeOK
  <2>8. \A i \in Item : lock[i] # Free => inventory'[i] = inventory[i]
    BY <2>1, <2>3, <2>5
  <2> QED
    BY <1>1, <2>1, <2>6, <2>7, <2>8, WrittenInv
<1> QED
  BY <1>2, <1>3

\* DELETE /inventory, which waits for the row lock before it deletes.
LEMMA RemoveItemInv == ASSUME IInv, NEW r \in Request, RemoveItem(r) PROVE IInv'
<1> DEFINE c == call[r]
<1>1. At(r, "write") /\ c \in Calls /\ c.item \in Item
  BY CallShape DEF RemoveItem, At, IInv, OnPath
<1>2. CASE ~Finds(inventory, c.item, c.tenant)
  BY <1>1, <1>2, EndsInv DEF RemoveItem, Refused, At, Reply, tables
<1>3. CASE Finds(inventory, c.item, c.tenant)
  <2>1. /\ lock[c.item] = Free /\ Written(r) /\ UNCHANGED ledger
        /\ inventory' = [inventory EXCEPT ![c.item] = Null]
    BY <1>3 DEF RemoveItem, RowFree
  <2>2. StockInRange'
    BY <1>1, <2>1 DEF StockInRange, IInv, TypeOK
  <2> QED
    BY <1>1, <2>1, <2>2, WrittenInv DEF IInv, TypeOK
<1> QED
  BY <1>2, <1>3

\* PUT and DELETE /transactions leave the inventory alone.
LEMMA TxnWriteInv == ASSUME IInv, NEW r \in Request, UpdateTxn(r) \/ RemoveTxn(r) PROVE IInv'
<1>1. At(r, "write") /\ call[r] \in Calls /\ call[r].txn \in Txn
  BY CallShape DEF UpdateTxn, RemoveTxn, At, IInv, OnPath
<1>2. CASE Refused(r)
  BY <1>1, <1>2, EndsInv DEF Refused, At, Reply, tables
<1>3. CASE /\ Written(r) /\ UNCHANGED inventory
           /\ ledger' \in {ledger, [ledger EXCEPT ![call[r].txn] = Null]}
  <2>1. StockInRange' /\ ledger' \in [Txn -> TxnRow \cup {Null}]
    BY <1>1, <1>3 DEF StockInRange, IInv, TypeOK
  <2> QED
    BY <1>1, <1>3, <2>1, WrittenInv DEF IInv, TypeOK
<1> QED
  BY <1>2, <1>3 DEF UpdateTxn, RemoveTxn, tables

-----------------------------------------------------------------------------
(* withTransaction.                                                        *)

\* A statement of withTransaction fails.
LEMMA AbortInv ==
    ASSUME IInv, NEW r \in Request, pc[r] \in {"insert", "select", "update"}, Abort(r)
    PROVE  IInv'
<1> USE DEF IInv, Abort, Goto
<1>1. TypeOK'
  BY DEF TypeOK, Unlocked, Label
<1>2. OnPath' /\ OwnIds' /\ StockInRange'
  BY DEF TypeOK, OnPath, OwnIds, StockInRange
<1>3. ReadIsCurrent'
  <2>1. \A q \in Request \ {r} : pc[q] \in {"update", "commit"} /\ MovesStock(call[q])
            => lock'[call[q].item] = lock[call[q].item]
    BY ReaderItem DEF ReadIsCurrent, Unlocked, TypeOK
  <2> QED
    BY <2>1 DEF ReadIsCurrent, TypeOK
<1>4. NothingLeaks'
  BY DEF NothingLeaks, Unlocked, TypeOK
<1> QED
  BY <1>1, <1>2, <1>3, <1>4

\* transactions.create, the INSERT.
LEMMA InsertTxnInv == ASSUME IInv, NEW r \in Request, InsertTxn(r) PROVE IInv'
<1> DEFINE label == IF MovesStock(call[r]) THEN "select" ELSE "commit"
           taken == UniqueApplies(call[r].tenant) /\ InvoiceTaken(ledger, call[r])
<1>1. pc[r] = "insert" /\ call[r].op = "createTxn" /\ \A i \in Item : lock[i] # r
  BY FreeAssumption DEF InsertTxn, At, IInv, OnPath, NothingLeaks
<1>2. CASE taken
  BY <1>1, <1>2, AbortInv DEF InsertTxn
<1>3. CASE ~taken
  <2>1. Goto(r, label) /\ UNCHANGED <<inventory, ledger, lock, clients, call, target, reply>>
    BY <1>3 DEF InsertTxn
  <2> QED
    BY <1>1, <2>1, MovesOnInv DEF Label
<1> QED
  BY <1>2, <1>3

\* SELECT ... FOR UPDATE: the row that is read is locked, the sum is checked.
LEMMA SelectForUpdateInv == ASSUME IInv, NEW r \in Request, SelectForUpdate(r) PROVE IInv'
<1> DEFINE c == call[r]
<1>1. /\ At(r, "select") /\ MovesStock(c) /\ c \in Calls /\ c.item \in Item
      /\ Movement(c) \in Int
      /\ UNCHANGED <<inventory, ledger, clients, call, reply>>
      /\ \A i \in Item : lock[i] # r
  BY ReaderItem, FreeAssumption DEF SelectForUpdate, At, IInv, OnPath, NothingLeaks
<1>2. CASE ~Finds(inventory, c.item, c.tenant)
  BY <1>1, <1>2, MovesOnInv DEF SelectForUpdate, Throws, At, Label
<1>3. CASE Finds(inventory, c.item, c.tenant)
  <2>1. /\ lock[c.item] = Free /\ lock' = [lock EXCEPT ![c.item] = r]
        /\ \E x \in FloatSum(inventory[c.item].stock, Movement(c)) :
              IF Insufficient(x) THEN Throws(r)
              ELSE Goto(r, "update") /\ target' = [target EXCEPT ![r] = x]
    BY <1>3 DEF SelectForUpdate, ForUpdate, RowFree
  <2>2. PICK x \in FloatSum(inventory[c.item].stock, Movement(c)) :
              IF Insufficient(x) THEN Throws(r)
              ELSE Goto(r, "update") /\ target' = [target EXCEPT ![r] = x]
    BY <2>1
  <2>3. x \in Int
    BY <1>1, <1>3, FloatSumType DEF Finds, IInv, TypeOK, ItemRow
  <2> DEFINE label == IF Insufficient(x) THEN "rollback" ELSE "update"
  <2>4. /\ pc' = [pc EXCEPT ![r] = label]
        /\ target' = IF Insufficient(x) THEN target ELSE [target EXCEPT ![r] = x]
    BY <2>2 DEF Throws, Goto
  <2>5. /\ \A q \in Request \ {r} : pc'[q] = pc[q] /\ target'[q] = target[q]
        /\ pc'[r] = label
        /\ pc'[r] = "update" => target'[r] = x /\ x >= 0
        /\ \A i \in Item : lock'[i] = IF i = c.item THEN r ELSE lock[i]
    BY <1>1, <2>1, <2>3, <2>4 DEF IInv, TypeOK, Insufficient
  <2>6. TypeOK'
    BY <1>1, <2>1, <2>3, <2>4 DEF IInv, TypeOK, Label
  <2>7. OnPath' /\ OwnIds' /\ StockInRange'
    BY <1>1, <2>5 DEF IInv, OnPath, OwnIds, StockInRange, At
  <2>8. ReadIsCurrent'
    <3>1. \A q \in Request \ {r} : pc[q] \in {"update", "commit"} /\ MovesStock(call[q])
              => lock'[call[q].item] = lock[call[q].item]
      BY <2>1, <2>5, ReaderItem, FreeAssumption DEF IInv, ReadIsCurrent
    <3> QED
      BY <1>1, <1>3, <2>2, <2>5, <3>1 DEF IInv, ReadIsCurrent
  <2>9. NothingLeaks'
    BY <1>1, <2>5 DEF IInv, TypeOK, NothingLeaks, At
  <2> QED
    BY <2>6, <2>7, <2>8, <2>9 DEF IInv
<1> QED
  BY <1>2, <1>3

\* The UPDATE of the stock, not visible to others before the COMMIT.
LEMMA UpdateStockInv == ASSUME IInv, NEW r \in Request, UpdateStock(r) PROVE IInv'
<1>1. At(r, "update") /\ MovesStock(call[r]) /\ call[r] \in Calls
  BY CallShape DEF UpdateStock, IInv, OnPath, At
<1>2. CASE ColumnOverflows(target[r])
  BY <1>1, <1>2, AbortInv DEF UpdateStock, At
<1>3. CASE ~ColumnOverflows(target[r])
  <2>1. pc' = [pc EXCEPT ![r] = "commit"]
        /\ UNCHANGED <<inventory, ledger, lock, clients, call, target, reply>>
    BY <1>3 DEF UpdateStock, Goto
  <2>2. TypeOK' /\ OwnIds' /\ StockInRange'
    BY <2>1 DEF IInv, TypeOK, OwnIds, StockInRange, Label
  <2>3. call[r].op \in {"adjustStock", "createTxn"}
    BY <1>1 DEF MovesStock
  <2>4. OnPath'
    BY <1>1, <1>3, <2>1, <2>3 DEF IInv, TypeOK, OnPath, At
  <2>5. ReadIsCurrent' /\ NothingLeaks'
    BY <1>1, <2>1 DEF IInv, TypeOK, ReadIsCurrent, NothingLeaks, At
  <2> QED
    BY <2>2, <2>4, <2>5 DEF IInv
<1> QED
  BY <1>2, <1>3

\* COMMIT: what was computed from the locked row becomes the row.
LEMMA CommitInv == ASSUME IInv, NEW r \in Request, Commit(r) PROVE IInv'
<1> DEFINE c == call[r]
           row == WithStock(inventory[c.item], target[r])
<1>1. /\ At(r, "commit") /\ c \in Calls /\ pc' = [pc EXCEPT ![r] = "committed"]
      /\ lock' = Unlocked(r) /\ UNCHANGED <<clients, call, target, reply>>
      /\ c.op = "createTxn" => c.txn \in Txn
      /\ target[r] \in Int
  BY CallShape DEF Commit, At, Goto, IInv, OnPath, TypeOK
<1>2. MovesStock(c) =>
        /\ c.item \in Item /\ inventory[c.item] \in ItemRow
        /\ lock[c.item] = r
        /\ row \in ItemRow /\ row.stock \in 0..MaxStock /\ WholeCents(row.stock)
  <2> SUFFICES ASSUME MovesStock(c) PROVE <1>2!2
    OBVIOUS
  <2>1. c.item \in Item
    BY <1>1, CallShape
  <2>2. lock[c.item] = r /\ inventory[c.item] \in ItemRow /\ target[r] >= 0
    BY <1>1, <2>1 DEF IInv, ReadIsCurrent, Finds, TypeOK, At
  <2>3. ~ColumnOverflows(target[r])
    BY <1>1 DEF IInv, OnPath, At
  <2> QED
    BY <1>1, <2>1, <2>2, <2>3, WithStockType, ColumnHolds
<1>3. \A i \in Item : inventory'[i] = IF MovesStock(c) /\ i = c.item THEN row ELSE inventory[i]
  BY <1>2 DEF Commit, IInv, TypeOK
<1>4. TypeOK'
  <2>1. inventory' \in [Item -> ItemRow \cup {Null}]
    BY <1>2 DEF Commit, IInv, TypeOK
  <2>2. ledger' \in [Txn -> TxnRow \cup {Null}]
    <3>1. c.op = "createTxn" => NewTxn(c) \in TxnRow
      BY <1>1, CallShape DEF NewTxn, TxnRow, CallRecord
    <3> QED
      BY <1>1, <3>1 DEF Commit, IInv, TypeOK
  <2> QED
    BY <1>1, <2>1, <2>2 DEF IInv, TypeOK, Unlocked, Label
<1>5. OnPath' /\ OwnIds'
  BY <1>1 DEF IInv, TypeOK, OnPath, OwnIds, At
<1>6. StockInRange'
  BY <1>2, <1>3 DEF IInv, StockInRange
<1>7. ReadIsCurrent'
  <2> SUFFICES ASSUME NEW q \in Request, pc'[q] \in {"update", "commit"}, MovesStock(call'[q])
               PROVE  /\ lock'[call[q].item] = q
                      /\ Finds(inventory', call[q].item, call[q].tenant)
                      /\ target[q] \in FloatSum(inventory'[call[q].item].stock, Movement(call[q]))
                      /\ target[q] >= 0
    BY <1>1 DEF ReadIsCurrent
  <2>1. q # r /\ pc[q] \in {"update", "commit"} /\ MovesStock(call[q])
    BY <1>1 DEF IInv, TypeOK, At
  <2>2. call[q].item \in Item /\ lock[call[q].item] = q
    BY <2>1, ReaderItem DEF IInv, ReadIsCurrent
  <2>3. lock'[call[q].item] = q /\ inventory'[call[q].item] = inventory[call[q].item]
    BY <1>1, <1>2, <1>3, <2>1, <2>2 DEF Unlocked
  <2> QED
    BY <2>1, <2>3 DEF IInv, ReadIsCurrent, Finds
<1>8. NothingLeaks'
  BY <1>1 DEF IInv, NothingLeaks, Unlocked, TypeOK, At
<1> QED
  BY <1>4, <1>5, <1>6, <1>7, <1>8 DEF IInv

\* The ways in which a handler ends, or its transaction is aborted.
LEMMA AnswersInv ==
    ASSUME IInv, NEW r \in Request,
           \/ Finish(r) \/ Rollback(r) \/ ConnectTimeout(r) \/ LoseConnection(r)
           \/ StatementFails(r)
    PROVE  IInv'
<1>1. CASE Finish(r)
  BY <1>1, EndsInv DEF Finish, At, Reply, tables
<1>2. CASE Rollback(r)
  BY <1>2, EndsInv DEF Rollback, Reply
<1>3. CASE ConnectTimeout(r)
  BY <1>3, EndsInv DEF ConnectTimeout, WaitsForClient, Reply, tables
<1>4. CASE LoseConnection(r)
  BY <1>4, EndsInv DEF LoseConnection, Reply
<1>5. CASE StatementFails(r)
  BY <1>5, AbortInv DEF StatementFails
<1> QED
  BY <1>1, <1>2, <1>3, <1>4, <1>5

-----------------------------------------------------------------------------
\* Every step keeps the inductive invariant.
LEMMA NextInv == IInv /\ [Next]_vars => IInv'
<1> SUFFICES ASSUME IInv, [Next]_vars PROVE IInv'
  OBVIOUS
<1>1. ASSUME NEW r \in Request, Statement(r) PROVE IInv'
  BY <1>1, FindInv, InsertItemInv, UpdateItemInv, RemoveItemInv, TxnWriteInv, InsertTxnInv,
     SelectForUpdateInv, UpdateStockInv, CommitInv, AnswersInv DEF Statement
<1>2. ASSUME NEW r \in Request,
             \/ Receive(r) \/ AcquireClient(r) \/ ConnectTimeout(r) \/ LoseConnection(r)
             \/ StatementFails(r)
      PROVE  IInv'
  BY <1>2, ReceiveInv, AcquireClientInv, AnswersInv
<1>3. CASE Crash
  BY <1>3, CrashInv
<1>4. CASE UNCHANGED vars
  BY <1>4 DEF vars, IInv, TypeOK, OnPath, OwnIds, ReadIsCurrent, NothingLeaks, StockInRange
<1> QED
  BY <1>1, <1>2, <1>3, <1>4 DEF Next, Step

\* The inductive invariant holds of every behaviour.
THEOREM Invariance == Spec => []IInv
BY InitInv, NextInv, PTL DEF Spec

\* Every variable keeps its type, whatever requests, crashes and lost
\* connections do.
THEOREM TypeCorrectness == Spec => []TypeOK
BY Invariance, PTL DEF IInv

\* No withdrawal, sale or restocking leaves a stock below zero or beyond its
\* column, however many requests move the same item.
THEOREM StockStaysInRange == Spec => []StockInRange
BY Invariance, PTL DEF IInv

\* Between the locked read and the commit nobody changes the row: no lost
\* update.
THEOREM NoLostUpdate == Spec => []ReadIsCurrent
BY Invariance, PTL DEF IInv

\* The pool keeps its size; no client and no row lock outlives its request.
THEOREM PoolAndLocksReturned == Spec => []NothingLeaks
BY Invariance, PTL DEF IInv

-----------------------------------------------------------------------------
(* The status, when all amounts are whole units.                           *)

\* Calls with whole amounts move whole units.
LEMMA WholeMovement ==
    ASSUME WholeAmounts, NEW c \in Calls
    PROVE  /\ MovesStock(c) => Whole(Movement(c))
           /\ c.op \in {"createItem", "updateItem"} /\ c.amount # Null => Whole(c.amount)
<1>1. \A q \in Quantity : q \in Int /\ Whole(q) /\ Whole(-q)
  BY TablesAssumption DEF WholeAmounts, Whole, Unit, Cent
<1>2. MovesStock(c) => \/ c.amount \in Quantity
                       \/ c.op = "adjustStock" /\ \E q \in Quantity : c.amount = -q
  BY DEF Calls, ItemCalls, TxnCalls, Shape, Absent, MovesStock
<1>3. MovesStock(c) => Whole(Movement(c))
  BY <1>1, <1>2 DEF Movement, Delta
<1>4. c.op \in {"createItem", "updateItem"} /\ c.amount # Null => c.amount \in Opening
  BY CallShape
<1> QED
  BY <1>3, <1>4 DEF WholeAmounts

\* A stock written as a whole number of units comes with its status.
LEMMA WithStockWhole ==
    ASSUME NEW row \in ItemRow, NEW x \in Int, Whole(x)
    PROVE  /\ WithStock(row, x).stock = x
           /\ WithStock(row, x).status = ComputeStockStatus(x)
BY NumericExact DEF WithStock, ItemRow

\* Who writes the inventory table.
LEMMA InventoryWriters ==
    ASSUME [Next]_vars, inventory' # inventory
    PROVE  \E r \in Request : InsertItem(r) \/ UpdateItem(r) \/ RemoveItem(r) \/ Commit(r)
<1>1. CASE Crash \/ UNCHANGED vars
  BY <1>1 DEF Crash, vars, tables
<1>2. ASSUME NEW r \in Request,
             \/ Receive(r) \/ AcquireClient(r) \/ ConnectTimeout(r) \/ LoseConnection(r)
             \/ StatementFails(r)
      PROVE  inventory' = inventory
  BY <1>2 DEF Receive, AcquireClient, ConnectTimeout, LoseConnection, StatementFails, Abort,
              tables
<1>3. ASSUME NEW r \in Request,
             \/ Find(r) \/ UpdateTxn(r) \/ RemoveTxn(r) \/ Finish(r) \/ InsertTxn(r)
             \/ SelectForUpdate(r) \/ UpdateStock(r) \/ Rollback(r)
      PROVE  inventory' = inventory
  BY <1>3 DEF Find, UpdateTxn, RemoveTxn, Finish, InsertTxn, SelectForUpdate, UpdateStock,
              Rollback, Refused, Abort, tables
<1> QED
  BY <1>1, <1>2, <1>3 DEF Next, Step, Statement

\* Every step keeps the stock whole and the status in agreement with it.
LEMMA StatusNext ==
    ASSUME WholeAmounts, IInv, WholeStock, StatusMatchesStock, [Next]_vars
    PROVE  WholeStock' /\ StatusMatchesStock'
<1> DEFINE Good(row) == Whole(row.stock) /\ row.status = ComputeStockStatus(row.stock)
<1>1. CASE inventory' = inventory
  BY <1>1 DEF WholeStock, StatusMatchesStock
<1>2. SUFFICES ASSUME NEW i \in Item, NEW row, inventory' = [inventory EXCEPT ![i] = row],
                      row # Null => Good(row)
               PROVE  \A j \in Item : inventory'[j] # Null => Good(inventory'[j])
  <2> SUFFICES ASSUME inventory' # inventory
               PROVE  \E i \in Item, row \in ItemRow \cup {Null} :
                        /\ inventory' = [inventory EXCEPT ![i] = row]
                        /\ row # Null => Good(row)
    BY <1>1 DEF WholeStock, StatusMatchesStock
  <2>1. PICK r \in Request : \/ InsertItem(r) \/ UpdateItem(r) \/ RemoveItem(r) \/ Commit(r)
    BY InventoryWriters
  <2> DEFINE c == call[r]
  <2>2. c \in Calls
    BY <2>1 DEF IInv, OnPath, InsertItem, UpdateItem, RemoveItem, Commit, At
  <2>3. CASE InsertItem(r)
    <3>1. c.op = "createItem" /\ inventory' = [inventory EXCEPT ![c.item] = NewItem(c)]
      BY <2>3 DEF InsertItem, Failed
    <3>2. c.item \in Item /\ NewItem(c) \in ItemRow /\ c.amount \in Int /\ Whole(c.amount)
      BY <2>2, <3>1, CallShape, NewItemType, WholeMovement, NullAssumption
    <3> QED
      BY <3>1, <3>2, NumericExact DEF NewItem
  <2>4. CASE UpdateItem(r)
    <3> DEFINE old == inventory[c.item]
               new == Patched(old, c)
    <3>1. /\ c.op = "updateItem" /\ c.item \in Item /\ old \in ItemRow /\ Good(old)
          /\ inventory' = [inventory EXCEPT ![c.item] = new]
      BY <2>2, <2>4, CallShape
         DEF UpdateItem, Refused, Failed, Finds, IInv, TypeOK, WholeStock, StatusMatchesStock
    <3>2. c.amount # Null => c.amount \in Int /\ Whole(c.amount)
      <4>1. c.amount # Null => c.amount \in Opening
        BY <2>2, <3>1, CallShape
      <4>2. Opening \subseteq Int
        BY TablesAssumption
      <4> QED
        BY <4>1, <4>2 DEF WholeAmounts
    <3> DEFINE restocked == IF c.amount = Null THEN old ELSE WithStock(old, c.amount)
    <3>3. restocked \in ItemRow /\ Good(restocked)
      BY <3>1, <3>2, WithStockWhole, WithStockType
    <3>4. new = IF c.sku = Null THEN restocked ELSE [restocked EXCEPT !.sku = c.sku]
      BY DEF Patched
    <3> HIDE DEF restocked
    <3>5. new \in ItemRow
      BY <2>2, <3>1, PatchedType
    <3>6. new.stock = restocked.stock /\ new.status = restocked.status
      BY <3>3, <3>4 DEF ItemRow
    <3> QED
      BY <3>1, <3>3, <3>5, <3>6
  <2>5. CASE RemoveItem(r)
    BY <2>2, <2>5, CallShape DEF RemoveItem, Refused
  <2>6. CASE Commit(r)
    <3> DEFINE old == inventory[c.item]
               new == WithStock(old, target[r])
    <3>1. /\ MovesStock(c) /\ pc[r] = "commit"
          /\ inventory' = [inventory EXCEPT ![c.item] = new]
      BY <2>6 DEF Commit, At
    <3>2. /\ c.item \in Item /\ old \in ItemRow /\ Whole(old.stock)
          /\ target[r] \in FloatSum(old.stock, Movement(c))
          /\ Movement(c) \in Int /\ Whole(Movement(c))
      BY <2>2, <3>1, CallShape, WholeMovement DEF IInv, ReadIsCurrent, Finds, TypeOK, WholeStock
    <3>3. old.stock \in Int
      BY <3>2 DEF ItemRow
    <3>4. target[r] \in Int /\ Whole(target[r])
      BY <3>2, <3>3, FloatSumWhole, FloatSumType
    <3>5. new \in ItemRow /\ new.stock = target[r] /\ new.status = ComputeStockStatus(target[r])
      BY <3>2, <3>4, WithStockWhole, WithStockType
    <3> QED
      BY <3>1, <3>2, <3>4, <3>5
  <2> QED
    BY <2>1, <2>3, <2>4, <2>5, <2>6
<1>3. \A j \in Item : inventory'[j] = IF j = i THEN row ELSE inventory[j]
  BY <1>2 DEF IInv, TypeOK
<1> QED
  BY <1>2, <1>3 DEF WholeStock, StatusMatchesStock

\* With whole units only, the stored status is always the one computed from
\* the stored stock (inventory.validators.ts:11); StockLedger_status_float
\* shows why the hypothesis is needed.
THEOREM StatusNeverDrifts == ASSUME WholeAmounts PROVE Spec => []StatusMatchesStock
<1>1. Init => WholeStock /\ StatusMatchesStock
  BY DEF Init, WholeStock, StatusMatchesStock
<1>2. IInv /\ WholeStock /\ StatusMatchesStock /\ [Next]_vars
        => WholeStock' /\ StatusMatchesStock'
  BY StatusNext
<1> QED
  BY <1>1, <1>2, Invariance, PTL DEF Spec

(***************************************************************************)
(* UNIQUE (tenant_id, sku): an INSERT or UPDATE checks and writes at once. *)
(***************************************************************************)

SameSku(a, b) == a.tenant = b.tenant /\ a.sku = b.sku

\* The key of a row that was there stays, unless its new one is free.
LEMMA SkuKept ==
    ASSUME IInv, SkuUnique, NEW i \in Item, NEW row \in ItemRow \cup {Null},
           inventory' = [inventory EXCEPT ![i] = row],
           row # Null /\ row.tenant # NoTenant =>
               \/ inventory[i] # Null /\ SameSku(row, inventory[i])
               \/ \A j \in Item \ {i} : inventory[j] # Null => ~SameSku(row, inventory[j])
    PROVE  SkuUnique'
<1>1. \A j \in Item : inventory'[j] = IF j = i THEN row ELSE inventory[j]
  BY DEF IInv, TypeOK
<1> QED BY <1>1 DEF SkuUnique, SameSku

LEMMA SkuStep ==
    ASSUME IInv, SkuUnique, [Next]_vars
    PROVE  SkuUnique'
<1> SUFFICES ASSUME inventory' # inventory PROVE SkuUnique'
  BY DEF SkuUnique
<1>1. PICK r \in Request : InsertItem(r) \/ UpdateItem(r) \/ RemoveItem(r) \/ Commit(r)
  BY InventoryWriters
<1>2. PICK c \in Calls : c = call[r]
  BY <1>1 DEF IInv, OnPath, InsertItem, UpdateItem, RemoveItem, Commit, At
<1>3. CASE InsertItem(r)
  <2>1. /\ c.op = "createItem" /\ inventory' = [inventory EXCEPT ![c.item] = NewItem(c)]
        /\ ~(UniqueApplies(c.tenant) /\ SkuTaken(inventory, c))
    BY <1>2, <1>3 DEF InsertItem, Failed
  <2>2. c.item \in Item /\ NewItem(c) \in ItemRow
    BY <2>1, CallShape, NewItemType
  <2>3. NewItem(c).tenant = c.tenant /\ NewItem(c).sku = c.sku
    BY DEF NewItem
  <2> QED BY <2>1, <2>2, <2>3, SkuKept DEF UniqueApplies, SkuTaken, SameSku
<1>4. CASE UpdateItem(r)
  <2>1. /\ c.op = "updateItem" /\ c.item \in Item /\ Finds(inventory, c.item, c.tenant)
        /\ inventory' = [inventory EXCEPT ![c.item] = Patched(@, c)]
        /\ ~(UniqueApplies(c.tenant) /\ c.sku # Null /\ SkuTaken(inventory, c))
    BY <1>2, <1>4, CallShape DEF UpdateItem, Refused, Failed
  <2> DEFINE old == inventory[c.item]
             restocked == IF c.amount = Null THEN old ELSE WithStock(old, c.amount)
  <2>2. inventory' = [inventory EXCEPT ![c.item] = Patched(old, c)]
    BY <2>1 DEF IInv, TypeOK
  <2>3. old \in ItemRow /\ old # Null /\ old.tenant = c.tenant
    BY <2>1 DEF Finds, IInv, TypeOK
  <2>4. Patched(old, c) \in ItemRow /\ Patched(old, c).tenant = c.tenant
    BY <2>1, <2>3, PatchedType
  <2>5. c.amount # Null => c.amount \in Int
    <3>1. c.amount # Null => c.amount \in Opening
      BY <2>1, CallShape
    <3>2. Opening \subseteq Int
      BY TablesAssumption
    <3> QED BY <3>1, <3>2
  <2>6. restocked \in ItemRow /\ restocked.sku = old.sku
    BY <2>3, <2>5, WithStockType DEF WithStock, ItemRow
  <2>7. Patched(old, c) = IF c.sku = Null THEN restocked ELSE [restocked EXCEPT !.sku = c.sku]
    BY DEF Patched
  <2> HIDE DEF restocked
  <2>8. Patched(old, c).sku = IF c.sku = Null THEN old.sku ELSE c.sku
    BY <2>6, <2>7 DEF ItemRow
  <2> QED BY <2>1, <2>2, <2>3, <2>4, <2>8, SkuKept DEF UniqueApplies, SkuTaken, SameSku
<1>5. CASE RemoveItem(r)
  BY <1>2, <1>5, CallShape, SkuKept DEF RemoveItem, Refused
<1>6. CASE Commit(r)
  <2> DEFINE old == inventory[c.item]
  <2>1. /\ MovesStock(c) /\ pc[r] = "commit"
        /\ inventory' = [inventory EXCEPT ![c.item] = WithStock(old, target[r])]
    BY <1>2, <1>6 DEF Commit, At
  <2>2. /\ c.item \in Item /\ old \in ItemRow /\ old # Null /\ target[r] \in Int
    BY <1>2, <2>1, CallShape DEF IInv, ReadIsCurrent, Finds, TypeOK
  <2>3. WithStock(old, target[r]) \in ItemRow /\ SameSku(WithStock(old, target[r]), old)
    BY <2>2, WithStockType DEF WithStock, ItemRow, SameSku
  <2> QED BY <2>1, <2>2, <2>3, SkuKept
<1> QED BY <1>1, <1>3, <1>4, <1>5, <1>6

\* No two items of a tenant have one sku, however creations and updates
\* overlap (a tenant: tenant_id is not NULL).
THEOREM SkusAreUnique == Spec => []SkuUnique
<1>1. Init => SkuUnique
  BY DEF Init, SkuUnique
<1>2. IInv /\ SkuUnique /\ [Next]_vars => SkuUnique'
  BY SkuStep
<1> QED BY <1>1, <1>2, Invariance, PTL DEF Spec

(***************************************************************************)
(* UNIQUE (tenant_id, invoice_no): the INSERT and the COMMIT are apart.    *)
(***************************************************************************)

\* It has inserted a row that is not committed yet.
Pending(r) == call[r].op = "createTxn" /\ pc[r] \in {"select", "update", "commit"}

SameKey(a, b) == a.tenant = b.tenant /\ a.invoice = b.invoice

\* A key that is pending is neither in the table nor pending elsewhere.
KeyHeld ==
    \A r \in Request : Pending(r) /\ call[r].tenant # NoTenant =>
        /\ ~InvoiceTaken(ledger, call[r])
        /\ \A q \in Request \ {r} : Pending(q) => ~SameKey(call[q], call[r])

\* Steps that no key is concerned in.
Elsewhere ==
    ledger' = ledger /\ \A q \in Request : Pending(q)' => Pending(q) /\ call'[q] = call[q]

LEMMA KeySteps ==
    ASSUME IInv, [Next]_vars, ~Elsewhere
    PROVE  \E r \in Request : InsertTxn(r) \/ RemoveTxn(r) \/ Commit(r)
<1>1. ASSUME NEW r \in Request, NEW a, Ends(r, a), UNCHANGED tables PROVE FALSE
  BY <1>1 DEF Elsewhere, Ends, Pending, IInv, TypeOK, NoCall, tables
<1>2. ASSUME NEW r \in Request, NEW l \in Label, Goto(r, l), UNCHANGED <<ledger, call>>,
             call[r].op = "createTxn" => Pending(r) \/ l \notin {"select", "update", "commit"}
      PROVE  FALSE
  BY <1>2 DEF Elsewhere, Goto, Pending, IInv, TypeOK
<1>3. CASE Crash \/ UNCHANGED vars
  BY <1>3 DEF Elsewhere, Crash, Pending, vars, tables
<1>4. ASSUME NEW r \in Request,
             ConnectTimeout(r) \/ LoseConnection(r) \/ Rollback(r) \/ Finish(r)
      PROVE  FALSE
  BY <1>1, <1>4 DEF ConnectTimeout, LoseConnection, Rollback, Finish, tables
<1>5. ASSUME NEW r \in Request, Receive(r) PROVE FALSE
  <2>1. PICK c \in Calls : call' = [call EXCEPT ![r] = c] /\ pc' = [pc EXCEPT ![r] = FirstLabel(c)]
    BY <1>5 DEF Receive
  <2>2. c.op = "createTxn" => FirstLabel(c) = "find"
    BY DEF FirstLabel
  <2> QED BY <1>5, <2>1, <2>2 DEF Elsewhere, Receive, Pending, IInv, TypeOK
<1>6. ASSUME NEW r \in Request, AcquireClient(r) PROVE FALSE
  BY <1>6 DEF Elsewhere, AcquireClient, Pending
<1>7. ASSUME NEW r \in Request, Find(r) PROVE FALSE
  BY <1>1, <1>2, <1>7 DEF Find, Refused, Label, tables
<1>8. ASSUME NEW r \in Request, InsertItem(r) \/ UpdateItem(r) \/ RemoveItem(r) \/ UpdateTxn(r)
      PROVE  FALSE
  BY <1>1, <1>2, <1>8
  DEF InsertItem, UpdateItem, RemoveItem, UpdateTxn, Written, Refused, Failed, Label, tables
<1>9. ASSUME NEW r \in Request, SelectForUpdate(r) \/ UpdateStock(r) \/ StatementFails(r)
      PROVE  FALSE
  BY <1>2, <1>9
  DEF SelectForUpdate, UpdateStock, StatementFails, Throws, Abort, At, Label, Pending, tables
<1> QED
  BY <1>3, <1>4, <1>5, <1>6, <1>7, <1>8, <1>9 DEF Next, Step, Statement

\* Whoever inserts a key finds it neither in the table nor pending; whoever
\* commits one was the only one to hold it.
LEMMA KeyStep ==
    ASSUME IInv, KeyHeld, InvoiceUnique, [Next]_vars
    PROVE  KeyHeld' /\ InvoiceUnique'
<1>1. CASE Elsewhere
  BY <1>1 DEF Elsewhere, KeyHeld, InvoiceUnique, InvoiceTaken
<1>2. CASE ~Elsewhere
  <2>1. PICK r \in Request : InsertTxn(r) \/ RemoveTxn(r) \/ Commit(r)
    BY <1>2, KeySteps
  <2>2. CASE InsertTxn(r)
    <3>1. /\ pc[r] = "insert" /\ call[r].op = "createTxn" /\ UNCHANGED <<ledger, call>>
          /\ \A q \in Request \ {r} : pc'[q] = pc[q]
          /\ Pending(r)' => \/ call[r].tenant = NoTenant
                            \/ ~KeyPending(r) /\ ~InvoiceTaken(ledger, call[r])
      BY <2>2 DEF InsertTxn, At, Abort, Goto, UniqueApplies, Pending, IInv, OnPath, TypeOK
    <3>2. \A q \in Request \ {r} : Pending(q)' = Pending(q)
      BY <3>1 DEF Pending
    <3>3. ~KeyPending(r) => \A q \in Request \ {r} : Pending(q) => ~SameKey(call[q], call[r])
      BY DEF KeyPending, Pending, SameKey
    <3>4. KeyHeld'
      BY <3>1, <3>2, <3>3 DEF KeyHeld, SameKey
    <3> QED BY <3>1, <3>4 DEF InvoiceUnique
  <2>3. CASE RemoveTxn(r)
    <3>1. /\ \A x \in Txn : ledger'[x] # Null => ledger'[x] = ledger[x]
          /\ \A q \in Request : Pending(q)' => Pending(q) /\ call'[q] = call[q]
      BY <2>3 DEF RemoveTxn, Refused, Ends, Written, Goto, At, Pending, NoCall, IInv, TypeOK
    <3> QED BY <3>1 DEF KeyHeld, InvoiceUnique, InvoiceTaken
  <2>4. CASE Commit(r)
    <3>1. PICK c \in Calls : c = call[r]
      BY <2>4 DEF Commit, At, IInv, OnPath
    <3>2. /\ pc[r] = "commit" /\ call' = call
          /\ ledger' = IF c.op = "createTxn" THEN [ledger EXCEPT ![c.txn] = NewTxn(c)] ELSE ledger
          /\ \A q \in Request : Pending(q)' => Pending(q) /\ q # r
      BY <2>4, <3>1 DEF Commit, At, Goto, Pending, IInv, TypeOK
    <3>3. CASE c.op # "createTxn"
      BY <3>2, <3>3 DEF KeyHeld, InvoiceUnique
    <3>4. CASE c.op = "createTxn"
      <4>1. c.txn \in Txn /\ Pending(r)
        BY <3>1, <3>2, <3>4, CallShape DEF Pending
      <4>2. \A x \in Txn : ledger'[x] = IF x = c.txn THEN NewTxn(c) ELSE ledger[x]
        BY <3>2, <3>4 DEF IInv, TypeOK
      <4>3. NewTxn(c).tenant = c.tenant /\ NewTxn(c).invoice = c.invoice
        BY DEF NewTxn
      <4>4. c.tenant # NoTenant => ~InvoiceTaken(ledger, c)
        BY <3>1, <4>1 DEF KeyHeld
      <4>5. InvoiceUnique'
        <5>1. \A x \in Txn \ {c.txn} : ledger[x] # Null /\ c.tenant # NoTenant => ledger[x] # NewTxn(c)
          BY <4>3, <4>4 DEF InvoiceTaken
        <5> QED BY <4>2, <4>3, <5>1 DEF InvoiceUnique
      <4>6. KeyHeld'
        <5> SUFFICES ASSUME NEW q \in Request, Pending(q)', call[q].tenant # NoTenant
                     PROVE  /\ ~InvoiceTaken(ledger', call[q])
                            /\ \A p \in Request \ {q} : Pending(p)' => ~SameKey(call[p], call[q])
          BY <3>2 DEF KeyHeld, SameKey
        <5>1. Pending(q) /\ q # r
          BY <3>2
        <5>2. ~SameKey(c, call[q]) /\ ~InvoiceTaken(ledger, call[q])
          BY <3>1, <4>1, <5>1 DEF KeyHeld
        <5>3. ~InvoiceTaken(ledger', call[q])
          BY <4>2, <4>3, <5>2 DEF InvoiceTaken, SameKey
        <5> QED BY <3>2, <5>1, <5>3 DEF KeyHeld
      <4> QED BY <4>5, <4>6
    <3> QED BY <3>3, <3>4
  <2> QED BY <2>1, <2>2, <2>3, <2>4
<1> QED BY <1>1, <1>2

\* No two transactions of a tenant have one invoice number, however many
\* handlers insert it and whenever they commit.
THEOREM InvoicesAreUnique == Spec => []InvoiceUnique
<1>1. Init => KeyHeld /\ InvoiceUnique
  BY DEF Init, KeyHeld, InvoiceUnique, Pending
<1>2. IInv /\ KeyHeld /\ InvoiceUnique /\ [Next]_vars => KeyHeld' /\ InvoiceUnique'
  BY KeyStep
<1> QED BY <1>1, <1>2, Invariance, PTL DEF Spec
==============================================================================
