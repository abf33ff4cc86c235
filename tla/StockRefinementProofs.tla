------------------------ MODULE StockRefinementProofs ------------------------
(***************************************************************************)
(* StockLedger implements AtomicLedger, for any number of requests, rows,  *)
(* tenants, pool clients and amounts.                                      *)
(***************************************************************************)
EXTENDS StockLedgerProofs

(***************************************************************************)
(* Both speak of the same calls and rows.                                  *)
(***************************************************************************)

LEMMA SameCalls == Atomic!Calls = Calls /\ Atomic!NoCall = NoCall
BY DEF Atomic!Calls, Calls, Atomic!ItemCalls, ItemCalls, Atomic!TxnCalls, TxnCalls, Atomic!Shape,
       Shape, Atomic!Absent, Absent, Atomic!TxnType, TxnType, Atomic!NoCall, NoCall

LEMMA SameGuards ==
    ASSUME NEW c, NEW table, NEW rows, NEW inFlight, NEW id, NEW tenant, NEW x, NEW y
    PROVE  /\ Atomic!IdsPossible(c, table, rows, inFlight) <=> IdsPossible(c, table, rows, inFlight)
           /\ Atomic!MovesStock(c) <=> MovesStock(c)
           /\ Atomic!Movement(c) = Movement(c)
           /\ Atomic!Finds(table, id, tenant) <=> Finds(table, id, tenant)
           /\ Atomic!SkuTaken(table, c) <=> SkuTaken(table, c)
           /\ Atomic!InvoiceTaken(table, c) <=> InvoiceTaken(table, c)
           /\ Atomic!UniqueApplies(tenant) <=> UniqueApplies(tenant)
           /\ Atomic!ColumnOverflows(x) <=> ColumnOverflows(x)
           /\ Atomic!Insufficient(x) <=> Insufficient(x)
           /\ Atomic!FloatSum(x, y) = FloatSum(x, y)
BY DEF Atomic!IdsPossible, IdsPossible, Atomic!MovesStock, MovesStock, Atomic!Movement, Movement,
       Atomic!Delta, Delta, Atomic!Finds, Finds, Atomic!SkuTaken, SkuTaken,
       Atomic!InvoiceTaken, InvoiceTaken, Atomic!UniqueApplies, UniqueApplies,
       Atomic!ColumnOverflows, ColumnOverflows, Atomic!ToNumeric, ToNumeric, Atomic!Cent, Cent,
       Atomic!Insufficient, Insufficient, Atomic!FloatSum, FloatSum, Atomic!Whole, Whole,
       Atomic!Unit, Unit

LEMMA SameRows ==
    ASSUME NEW c, NEW row, NEW x
    PROVE  /\ Atomic!NewItem(c) = NewItem(c)
           /\ Atomic!NewTxn(c) = NewTxn(c)
           /\ Atomic!Patched(row, c) = Patched(row, c)
           /\ Atomic!WithStock(row, x) = WithStock(row, x)
BY DEF Atomic!NewItem, NewItem, Atomic!NewTxn, NewTxn, Atomic!Patched, Patched, Atomic!WithStock,
       WithStock, Atomic!ToNumeric, ToNumeric, Atomic!Cent, Cent, Atomic!Unit, Unit,
       Atomic!ComputeStockStatus, ComputeStockStatus, Atomic!LowStockThreshold, LowStockThreshold,
       Atomic!MediumStockThreshold, MediumStockThreshold

(***************************************************************************)
(* Who is refused by a rollback is refused for a reason, to the end.       *)
(***************************************************************************)

Shortage(c) ==
    \E x \in FloatSum(inventory[c.item].stock, Movement(c)) : Insufficient(x)

\* The row is not there, and no row with its id can come; or it is too short
\* and locked.
Reason(r) ==
    /\ MovesStock(call[r])
    /\ \/ ~Finds(inventory, call[r].item, call[r].tenant)
       \/ lock[call[r].item] = r /\ Shortage(call[r])

Reasons == \A r \in Request : pc[r] = "rollback" => Reason(r)

\* A handler that is about to roll back waits, its lock with it.
LEMMA RollbackWaits ==
    ASSUME IInv, [Next]_vars, NEW r \in Request, pc'[r] = "rollback", ~SelectForUpdate(r)
    PROVE  /\ pc[r] = "rollback" /\ call'[r] = call[r]
           /\ \A i \in Item : lock[i] = r => lock'[i] = r
<1> DEFINE Waits == /\ pc[r] = "rollback" /\ call'[r] = call[r]
                    /\ \A i \in Item : lock[i] = r => lock'[i] = r
<1> SUFFICES ASSUME ~Waits PROVE FALSE
  OBVIOUS
<1>1. ASSUME NEW q \in Request, NEW a, Ends(q, a), lock' = lock \/ lock' = Unlocked(q) PROVE FALSE
  BY <1>1 DEF Ends, Unlocked, IInv, TypeOK
<1>2. ASSUME NEW q \in Request, NEW l \in Label \ {"rollback"}, Goto(q, l), call' = call,
             lock' = lock \/ lock' = Unlocked(q)
      PROVE  FALSE
  BY <1>2 DEF Goto, Unlocked, IInv, TypeOK
<1>3. CASE Crash \/ UNCHANGED vars
  BY <1>3 DEF Crash, vars
<1>4. ASSUME NEW q \in Request,
             ConnectTimeout(q) \/ LoseConnection(q) \/ Rollback(q) \/ Finish(q)
      PROVE  FALSE
  BY <1>1, <1>4 DEF ConnectTimeout, LoseConnection, Rollback, Finish
<1>5. ASSUME NEW q \in Request, Receive(q) PROVE FALSE
  BY <1>5 DEF Receive, FirstLabel, IInv, TypeOK
<1>6. ASSUME NEW q \in Request, AcquireClient(q) PROVE FALSE
  BY <1>6 DEF AcquireClient
<1>7. ASSUME NEW q \in Request,
             Find(q) \/ InsertItem(q) \/ UpdateItem(q) \/ RemoveItem(q) \/ UpdateTxn(q) \/ RemoveTxn(q)
      PROVE  FALSE
  BY <1>1, <1>2, <1>7
  DEF Find, InsertItem, UpdateItem, RemoveItem, UpdateTxn, RemoveTxn, Written, Refused, Failed, Label
<1>8. ASSUME NEW q \in Request, InsertTxn(q) \/ UpdateStock(q) \/ StatementFails(q) \/ Commit(q)
      PROVE  FALSE
  BY <1>2, <1>8 DEF InsertTxn, UpdateStock, StatementFails, Commit, Abort, Label
<1>9. ASSUME NEW q \in Request, SelectForUpdate(q) PROVE FALSE
  <2>1. q # r /\ pc'[r] = pc[r] /\ call' = call
    BY <1>9 DEF SelectForUpdate, Throws, Goto, IInv, TypeOK
  <2>2. \A i \in Item : lock[i] = r => lock'[i] = r
    BY <1>9, FreeAssumption DEF SelectForUpdate, ForUpdate, RowFree, IInv, TypeOK
  <2> QED BY <2>1, <2>2
<1> QED
  BY <1>3, <1>4, <1>5, <1>6, <1>7, <1>8, <1>9 DEF Next, Step, Statement

\* Writes leave a row its tenant and spare a row that somebody else has
\* locked; a new one has an id that nobody names.
LEMMA RowsKept ==
    ASSUME IInv, [Next]_vars, NEW r \in Request, NEW i \in Item, call[r].item = i,
           MovesStock(call[r]), inventory'[i] # inventory[i]
    PROVE  /\ inventory[i] # Null
           /\ inventory'[i] # Null => inventory'[i].tenant = inventory[i].tenant
           /\ lock[i] = r => pc[r] = "commit"
<1>1. PICK q \in Request : InsertItem(q) \/ UpdateItem(q) \/ RemoveItem(q) \/ Commit(q)
  BY InventoryWriters
<1>2. PICK c \in Calls : c = call[q]
  BY <1>1 DEF IInv, OnPath, InsertItem, UpdateItem, RemoveItem, Commit, At
<1>3. CASE InsertItem(q)
  <2>1. c.op = "createItem" /\ c.item \in Item /\ inventory' = [inventory EXCEPT ![c.item] = NewItem(c)]
        /\ pc[q] = "write"
    BY <1>2, <1>3, CallShape DEF InsertItem, Failed, At
  <2>2. c.item = i
    BY <2>1 DEF IInv, TypeOK
  <2>3. q = r
    BY <1>2, <2>1, <2>2 DEF IInv, OwnIds
  <2> QED BY <1>2, <2>1, <2>3 DEF MovesStock
<1>4. CASE UpdateItem(q)
  <2> DEFINE old == inventory[c.item]
  <2>1. /\ c.op = "updateItem" /\ c.item \in Item /\ Finds(inventory, c.item, c.tenant)
        /\ EmptyPatch(c) \/ lock[c.item] = Free
        /\ inventory' = [inventory EXCEPT ![c.item] = Patched(old, c)]
    BY <1>2, <1>4, CallShape DEF UpdateItem, Refused, Failed, RowFree, IInv, TypeOK
  <2>2. c.item = i
    BY <2>1 DEF IInv, TypeOK
  <2>3. old \in ItemRow /\ old # Null
    BY <2>1 DEF Finds, IInv, TypeOK
  <2>4. Patched(old, c).tenant = old.tenant /\ (EmptyPatch(c) => Patched(old, c) = old)
    BY <2>1, <2>3, PatchedType
  <2>5. inventory'[i] = Patched(old, c)
    BY <2>1, <2>2 DEF IInv, TypeOK
  <2> QED BY <2>1, <2>2, <2>3, <2>4, <2>5, FreeAssumption
<1>5. CASE RemoveItem(q)
  <2>1. /\ c.item \in Item /\ Finds(inventory, c.item, c.tenant) /\ lock[c.item] = Free
        /\ inventory' = [inventory EXCEPT ![c.item] = Null]
    BY <1>2, <1>5, CallShape DEF RemoveItem, Refused, RowFree
  <2>2. c.item = i /\ inventory'[i] = Null
    BY <2>1 DEF IInv, TypeOK
  <2> QED BY <2>1, <2>2, FreeAssumption DEF Finds
<1>6. CASE Commit(q)
  <2> DEFINE old == inventory[c.item]
  <2>1. /\ MovesStock(c) /\ pc[q] = "commit"
        /\ inventory' = [inventory EXCEPT ![c.item] = WithStock(old, target[q])]
    BY <1>2, <1>6 DEF Commit, At
  <2>2. /\ c.item \in Item /\ old \in ItemRow /\ old # Null /\ target[q] \in Int /\ lock[c.item] = q
    BY <1>2, <2>1, CallShape DEF IInv, ReadIsCurrent, Finds, TypeOK
  <2>3. c.item = i /\ inventory'[i] = WithStock(old, target[q])
    BY <2>1, <2>2 DEF IInv, TypeOK
  <2> QED BY <2>1, <2>2, <2>3, WithStockType
<1> QED BY <1>1, <1>3, <1>4, <1>5, <1>6

\* A handler throws because the row is missing or short, and until it has
\* rolled back the row stays missing, or short and locked.
LEMMA ReasonStep ==
    ASSUME IInv, Reasons, [Next]_vars
    PROVE  Reasons'
<1> SUFFICES ASSUME NEW r \in Request, pc'[r] = "rollback" PROVE Reason(r)'
  BY DEF Reasons
<1>1. CASE SelectForUpdate(r)
  <2>1. /\ MovesStock(call[r]) /\ call[r].item \in Item
        /\ UNCHANGED <<inventory, call>>
    BY <1>1, ReaderItem DEF SelectForUpdate, At, IInv, OnPath
  <2>2. CASE ~Finds(inventory, call[r].item, call[r].tenant)
    BY <2>1, <2>2 DEF Reason
  <2>3. CASE Finds(inventory, call[r].item, call[r].tenant)
    <3>1. lock' = [lock EXCEPT ![call[r].item] = r]
      BY <1>1, <2>3 DEF SelectForUpdate
    <3>2. PICK x \in FloatSum(inventory[call[r].item].stock, Movement(call[r])) : Insufficient(x)
      BY <1>1, <2>3 DEF SelectForUpdate, Goto, IInv, TypeOK
    <3>3. lock'[call[r].item] = r
      BY <2>1, <3>1 DEF IInv, TypeOK
    <3> QED BY <2>1, <3>2, <3>3 DEF Reason, Shortage
  <2> QED BY <2>2, <2>3
<1>2. CASE ~SelectForUpdate(r)
  <2>1. pc[r] = "rollback" /\ call'[r] = call[r] /\ \A i \in Item : lock[i] = r => lock'[i] = r
    BY <1>2, RollbackWaits
  <2>2. Reason(r) /\ MovesStock(call[r]) /\ call[r].item \in Item
    BY <2>1, ReaderItem DEF Reasons, Reason, IInv
  <2>3. CASE inventory'[call[r].item] = inventory[call[r].item]
    BY <2>1, <2>2, <2>3 DEF Reason, Shortage, Finds
  <2>4. CASE inventory'[call[r].item] # inventory[call[r].item]
    BY <2>1, <2>2, <2>4, RowsKept DEF Reason, Finds
  <2> QED BY <2>3, <2>4
<1> QED BY <1>1, <1>2

(***************************************************************************)
(* Steps of a handler as steps of AtomicLedger.                            *)
(***************************************************************************)

\* Every answer is an answer there.
LEMMA EndsAnswers ==
    ASSUME IInv, NEW r \in Request, NEW answer, Ends(r, answer), UNCHANGED tables
    PROVE  Atomic!Answered(r, answer)
<1>1. \A q \in Request : Phase(q)' = IF q = r THEN "idle" ELSE Phase(q)
  BY DEF Ends, Phase, IInv, TypeOK
<1> QED BY <1>1 DEF Ends, tables, Atomic!Answered, Atomic!NoCall, NoCall

\* A handler that goes on without touching a table: nothing happens there.
LEMMA GoesOn ==
    ASSUME IInv, NEW r \in Request, NEW label \in Label \ {"idle", "committed"}, Goto(r, label),
           pc[r] \notin {"idle", "committed"}, UNCHANGED <<inventory, ledger, call, reply>>
    PROVE  UNCHANGED Atomic!vars
<1>1. \A q \in Request : Phase(q)' = Phase(q)
  BY DEF Goto, Phase, IInv, TypeOK
<1> QED BY <1>1 DEF Atomic!vars

\* A handler whose change is in the database.
LEMMA TakesEffect ==
    ASSUME IInv, NEW r \in Request, Goto(r, "committed"), pc[r] \notin {"idle", "committed"},
           UNCHANGED <<call, reply>>,
           \/ Atomic!AddItem(call[r]) \/ Atomic!ReviseItem(call[r]) \/ Atomic!DropItem(call[r])
           \/ Atomic!Adjust(call[r]) \/ Atomic!Record(call[r]) \/ Atomic!ReviseTxn(call[r])
           \/ Atomic!DropTxn(call[r])
    PROVE  Atomic!TakeEffect(r)
<1>1. /\ Phase(r) = "pending"
      /\ \A q \in Request : Phase(q)' = IF q = r THEN "done" ELSE Phase(q)
  BY DEF Goto, Phase, IInv, TypeOK
<1> QED BY <1>1 DEF Atomic!TakeEffect

LEMMA FailsThere ==
    ASSUME IInv, NEW r \in Request, pc[r] # "idle", Ends(r, "failed"), UNCHANGED tables
    PROVE  Atomic!Fail(r)
<1>1. Phase(r) # "idle"
  BY DEF Phase
<1> QED BY <1>1, EndsAnswers DEF Atomic!Fail

LEMMA RefusesThere ==
    ASSUME IInv, NEW r \in Request, pc[r] \notin {"idle", "committed"}, Ends(r, "refused"),
           UNCHANGED tables, Atomic!Refusable(call[r])
    PROVE  Atomic!Refuse(r)
<1>1. Phase(r) = "pending"
  BY DEF Phase
<1> QED BY <1>1, EndsAnswers DEF Atomic!Refuse

StepThere == Atomic!Next \/ UNCHANGED Atomic!vars

LEMMA ReceiveThere == ASSUME IInv, NEW r \in Request, Receive(r) PROVE Atomic!Receive(r)
<1>1. PICK c \in Calls : /\ IdsPossible(c, inventory, ledger, InFlight)
                         /\ call' = [call EXCEPT ![r] = c]
                         /\ pc' = [pc EXCEPT ![r] = FirstLabel(c)]
  BY DEF Receive
<1>2. FirstLabel(c) \in {"find", "select", "write"}
  BY DEF FirstLabel
<1>3. /\ Phase(r) = "idle"
      /\ \A q \in Request : Phase(q)' = IF q = r THEN "pending" ELSE Phase(q)
  BY <1>1, <1>2 DEF Receive, Phase, IInv, TypeOK
<1>4. Atomic!InFlight = InFlight
  BY DEF Atomic!InFlight, InFlight, Phase
<1>5. c \in Atomic!Calls /\ Atomic!IdsPossible(c, inventory, ledger, Atomic!InFlight)
  BY <1>1, <1>4, SameCalls, SameGuards
<1> QED BY <1>1, <1>3, <1>5 DEF Receive, Atomic!Receive

LEMMA FindThere == ASSUME IInv, NEW r \in Request, Find(r) PROVE StepThere
<1> DEFINE c == call[r]
           taken == IF c.op = "createItem" THEN SkuTaken(inventory, c) ELSE InvoiceTaken(ledger, c)
<1>1. pc[r] = "find" /\ c.op \in {"createItem", "createTxn"}
  BY DEF Find, At, IInv, OnPath
<1>2. CASE taken
  <2>1. Atomic!Refusable(c)
    BY <1>1, <1>2, SameGuards DEF Atomic!Refusable
  <2>2. Atomic!Refuse(r)
    BY <1>1, <1>2, <2>1, RefusesThere DEF Find, Refused, tables
  <2> QED BY <2>2 DEF StepThere, Atomic!Next
<1>3. CASE ~taken
  BY <1>1, <1>3, GoesOn DEF Find, StepThere, Label
<1> QED BY <1>2, <1>3

LEMMA InsertItemThere == ASSUME IInv, NEW r \in Request, InsertItem(r) PROVE StepThere
<1> DEFINE c == call[r]
<1>1. pc[r] = "write" /\ c.op = "createItem"
  BY DEF InsertItem, At
<1>2. CASE Failed(r)
  BY <1>1, <1>2, FailsThere DEF Failed, tables, StepThere, Atomic!Next
<1>3. CASE ~Failed(r)
  <2>1. Atomic!AddItem(c)
    BY <1>3, SameGuards, SameRows DEF InsertItem, Atomic!AddItem
  <2>2. Atomic!TakeEffect(r)
    BY <1>1, <1>3, <2>1, TakesEffect DEF InsertItem, Written
  <2> QED BY <2>2 DEF StepThere, Atomic!Next
<1> QED BY <1>2, <1>3

LEMMA UpdateItemThere == ASSUME IInv, NEW r \in Request, UpdateItem(r) PROVE StepThere
<1> DEFINE c == call[r]
<1>1. pc[r] = "write" /\ c.op = "updateItem"
  BY DEF UpdateItem, At
<1>2. CASE ~Finds(inventory, c.item, c.tenant)
  <2>1. Atomic!Refusable(c)
    BY <1>1, <1>2, SameGuards DEF Atomic!Refusable
  <2>2. Atomic!Refuse(r)
    BY <1>1, <1>2, <2>1, RefusesThere DEF UpdateItem, Refused, tables
  <2> QED BY <2>2 DEF StepThere, Atomic!Next
<1>3. CASE Failed(r)
  BY <1>1, <1>3, FailsThere DEF Failed, tables, StepThere, Atomic!Next
<1>4. CASE Finds(inventory, c.item, c.tenant) /\ ~Failed(r)
  <2>1. Atomic!ReviseItem(c)
    BY <1>1, <1>4, SameGuards, SameRows DEF UpdateItem, Atomic!ReviseItem
  <2>2. Atomic!TakeEffect(r)
    BY <1>1, <1>4, <2>1, TakesEffect DEF UpdateItem, Written
  <2> QED BY <2>2 DEF StepThere, Atomic!Next
<1> QED BY <1>2, <1>3, <1>4

LEMMA RemoveItemThere == ASSUME IInv, NEW r \in Request, RemoveItem(r) PROVE StepThere
<1> DEFINE c == call[r]
<1>1. pc[r] = "write" /\ c.op = "removeItem"
  BY DEF RemoveItem, At
<1>2. CASE ~Finds(inventory, c.item, c.tenant)
  <2>1. Atomic!Refusable(c)
    BY <1>1, <1>2, SameGuards DEF Atomic!Refusable
  <2>2. Atomic!Refuse(r)
    BY <1>1, <1>2, <2>1, RefusesThere DEF RemoveItem, Refused, tables
  <2> QED BY <2>2 DEF StepThere, Atomic!Next
<1>3. CASE Finds(inventory, c.item, c.tenant)
  <2>1. Atomic!DropItem(c)
    BY <1>1, <1>3, SameGuards DEF RemoveItem, Atomic!DropItem
  <2>2. Atomic!TakeEffect(r)
    BY <1>1, <1>3, <2>1, TakesEffect DEF RemoveItem, Written
  <2> QED BY <2>2 DEF StepThere, Atomic!Next
<1> QED BY <1>2, <1>3

LEMMA TxnWriteThere == ASSUME IInv, NEW r \in Request, UpdateTxn(r) \/ RemoveTxn(r) PROVE StepThere
<1> DEFINE c == call[r]
<1>1. pc[r] = "write" /\ c.op \in {"updateTxn", "removeTxn"}
  BY DEF UpdateTxn, RemoveTxn, At
<1>2. CASE ~Finds(ledger, c.txn, c.tenant)
  <2>1. Atomic!Refusable(c)
    BY <1>1, <1>2, SameGuards DEF Atomic!Refusable
  <2>2. Atomic!Refuse(r)
    BY <1>1, <1>2, <2>1, RefusesThere DEF UpdateTxn, RemoveTxn, Refused, tables
  <2> QED BY <2>2 DEF StepThere, Atomic!Next
<1>3. CASE Finds(ledger, c.txn, c.tenant)
  <2>1. Atomic!ReviseTxn(c) \/ Atomic!DropTxn(c)
    BY <1>1, <1>3, SameGuards DEF UpdateTxn, RemoveTxn, tables, Atomic!ReviseTxn, Atomic!DropTxn
  <2>2. Atomic!TakeEffect(r)
    BY <1>1, <1>3, <2>1, TakesEffect DEF UpdateTxn, RemoveTxn, Written
  <2> QED BY <2>2 DEF StepThere, Atomic!Next
<1> QED BY <1>2, <1>3

\* The statements of a transaction before its COMMIT show nobody anything.
LEMMA WithinTransaction ==
    ASSUME IInv, NEW r \in Request,
           InsertTxn(r) \/ SelectForUpdate(r) \/ UpdateStock(r) \/ StatementFails(r)
    PROVE  StepThere
<1>1. pc[r] \in {"insert", "select", "update"} /\ UNCHANGED <<inventory, ledger, call, reply>>
  BY DEF InsertTxn, SelectForUpdate, UpdateStock, StatementFails, Abort, At
<1>2. PICK label \in Label \ {"idle", "committed"} : Goto(r, label)
  BY DEF InsertTxn, SelectForUpdate, UpdateStock, StatementFails, Abort, Throws, Label
<1> QED BY <1>1, <1>2, GoesOn DEF StepThere

LEMMA CommitThere == ASSUME IInv, KeyHeld, NEW r \in Request, Commit(r) PROVE StepThere
<1>1. PICK c \in Calls : c = call[r]
  BY DEF Commit, At, IInv, OnPath
<1>2. /\ pc[r] = "commit" /\ c.op \in {"adjustStock", "createTxn"}
      /\ ledger' = IF c.op = "createTxn" THEN [ledger EXCEPT ![c.txn] = NewTxn(c)] ELSE ledger
  BY <1>1 DEF Commit, At, IInv, OnPath
<1>3. MovesStock(c) => Atomic!MoveStock(c)
  <2> SUFFICES ASSUME MovesStock(c) PROVE Atomic!MoveStock(c)
    OBVIOUS
  <2> DEFINE old == inventory[c.item]
  <2>1. /\ Finds(inventory, c.item, c.tenant) /\ target[r] \in FloatSum(old.stock, Movement(c))
        /\ ~Insufficient(target[r]) /\ ~ColumnOverflows(target[r])
    BY <1>1, <1>2 DEF IInv, ReadIsCurrent, OnPath, TypeOK, Insufficient
  <2>2. inventory' = [inventory EXCEPT ![c.item] = Atomic!WithStock(old, target[r])]
    BY <1>1, SameRows DEF Commit
  <2>3. /\ Atomic!MovesStock(c) /\ Atomic!Finds(inventory, c.item, c.tenant)
        /\ target[r] \in Atomic!FloatSum(old.stock, Atomic!Movement(c))
        /\ ~Atomic!Insufficient(target[r]) /\ ~Atomic!ColumnOverflows(target[r])
    BY <2>1, SameGuards
  <2> QED BY <2>2, <2>3 DEF Atomic!MoveStock
<1>4. ~MovesStock(c) => UNCHANGED inventory
  BY <1>1 DEF Commit
<1>5. c.op = "createTxn" /\ UniqueApplies(c.tenant) => ~InvoiceTaken(ledger, c)
  BY <1>1, <1>2 DEF KeyHeld, Pending, UniqueApplies
<1>6. Atomic!Adjust(c) \/ Atomic!Record(c)
  <2>1. CASE c.op = "adjustStock"
    BY <1>2, <1>3, <2>1 DEF MovesStock, Atomic!Adjust
  <2>2. CASE c.op = "createTxn"
    BY <1>2, <1>3, <1>4, <1>5, <2>2, SameGuards, SameRows DEF Atomic!Record
  <2> QED BY <1>2, <2>1, <2>2
<1>7. Atomic!TakeEffect(r)
  BY <1>1, <1>2, <1>6, TakesEffect DEF Commit
<1> QED BY <1>7 DEF StepThere, Atomic!Next

LEMMA AnswersThere ==
    ASSUME IInv, Reasons, NEW r \in Request,
           Finish(r) \/ Rollback(r) \/ ConnectTimeout(r) \/ LoseConnection(r)
    PROVE  StepThere
<1>1. CASE Finish(r)
  <2>1. Phase(r) = "done"
    BY <1>1 DEF Finish, At, Phase
  <2>2. Atomic!AnswerOk(r)
    BY <1>1, <2>1, EndsAnswers DEF Finish, tables, Atomic!AnswerOk
  <2> QED BY <2>2 DEF StepThere, Atomic!Next
<1>2. CASE pc[r] # "idle" /\ Ends(r, "failed") /\ UNCHANGED tables
  BY <1>2, FailsThere DEF StepThere, Atomic!Next
<1>3. CASE ConnectTimeout(r) \/ LoseConnection(r)
  BY <1>2, <1>3 DEF ConnectTimeout, LoseConnection, WaitsForClient, IInv, NothingLeaks, tables
<1>4. CASE Rollback(r)
  <2>1. CASE At(r, "aborted")
    BY <1>2, <1>4, <2>1 DEF Rollback, At
  <2>2. CASE At(r, "rollback")
    <3>1. Atomic!Refusable(call[r])
      BY <2>2, SameGuards DEF At, Reasons, Reason, Shortage, Atomic!Refusable
    <3>2. Atomic!Refuse(r)
      BY <1>4, <2>2, <3>1, RefusesThere DEF Rollback, At
    <3> QED BY <3>2 DEF StepThere, Atomic!Next
  <2> QED BY <1>4, <2>1, <2>2 DEF Rollback
<1> QED BY <1>1, <1>3, <1>4

LEMMA CrashThere == ASSUME IInv, Crash PROVE StepThere
<1>1. \A r \in Request : (Phase(r) = "idle" <=> pc[r] = "idle") /\ Phase(r)' = "idle"
  BY DEF Crash, Phase, IInv, TypeOK
<1>2. Atomic!FailAll
  BY <1>1, SameCalls DEF Crash, tables, Atomic!FailAll
<1> QED BY <1>2 DEF StepThere, Atomic!Next

LEMMA RefinesNext == ASSUME IInv, KeyHeld, Reasons, [Next]_vars PROVE StepThere
<1>1. CASE UNCHANGED vars
  BY <1>1 DEF vars, StepThere, Atomic!vars, Phase
<1>2. CASE Crash
  BY <1>2, CrashThere
<1>3. ASSUME NEW r \in Request, Receive(r) PROVE StepThere
  BY <1>3, ReceiveThere DEF StepThere, Atomic!Next
<1>4. ASSUME NEW r \in Request, AcquireClient(r) PROVE StepThere
  BY <1>4 DEF AcquireClient, StepThere, Atomic!vars, Phase
<1>5. ASSUME NEW r \in Request, Statement(r) PROVE StepThere
  BY <1>5, FindThere, InsertItemThere, UpdateItemThere, RemoveItemThere, TxnWriteThere,
     WithinTransaction, CommitThere, AnswersThere DEF Statement
<1>6. ASSUME NEW r \in Request, ConnectTimeout(r) \/ LoseConnection(r) \/ StatementFails(r)
      PROVE  StepThere
  BY <1>6, AnswersThere, WithinTransaction
<1> QED BY <1>1, <1>2, <1>3, <1>4, <1>5, <1>6 DEF Next, Step

LEMMA RefinesInit == Init => Atomic!Init
BY SameCalls DEF Init, Atomic!Init, Phase

\* Every call of the API is one atomic step on both tables, or none, between
\* its arrival and its answer, and is answered as it went: for any number of
\* requests, rows, tenants, clients and amounts.
THEOREM ImplementsAtomicLedger == Spec => AtomicSpec
<1>1. Init => KeyHeld /\ InvoiceUnique /\ Reasons
  BY DEF Init, KeyHeld, InvoiceUnique, Pending, Reasons
<1>2. IInv /\ KeyHeld /\ InvoiceUnique /\ Reasons /\ [Next]_vars
      => KeyHeld' /\ InvoiceUnique' /\ Reasons'
  BY KeyStep, ReasonStep
<1>3. IInv /\ KeyHeld /\ Reasons /\ [Next]_vars => [Atomic!Next]_Atomic!vars
  BY RefinesNext DEF StepThere
<1> QED BY <1>1, <1>2, <1>3, RefinesInit, Invariance, PTL DEF Spec, AtomicSpec, Atomic!Spec
==============================================================================
