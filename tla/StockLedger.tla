----------------------------- MODULE StockLedger -----------------------------
(***************************************************************************)
(* The handlers of /inventory and /transactions as they run: one step per  *)
(* await, so that requests interleave wherever the code gives up control.  *)
(* Every statement goes to PostgreSQL (READ COMMITTED) over a client of    *)
(* the shared pool; adjustStock and transactions.create hold one client    *)
(* for a whole withTransaction.                                            *)
(*                                                                         *)
(* inventory and ledger hold committed rows only: what an open transaction *)
(* has written is determined by its call, its pc and its target.           *)
(***************************************************************************)
EXTENDS LedgerTables

CONSTANTS
    PoolMax,    \* DB_POOL_MAX: the clients of the pool
    Free        \* a row nobody has locked

ASSUME PoolAssumption == PoolMax \in Nat \ {0}
ASSUME FreeAssumption == Free \notin Request

VARIABLES
    inventory,  \* inventory table: Item -> row or Null
    ledger,     \* transactions table: Txn -> row or Null
    lock,       \* who holds the row lock of an inventory row
    clients,    \* requests that hold a client of the pool
    pc,         \* where each request's handler is
    call,       \* the validated fields it works on
    target,     \* newStock, between the locked read and the UPDATE
    reply       \* the last answer each request got

vars == <<inventory, ledger, lock, clients, pc, call, target, reply>>
tables == <<inventory, ledger>>

\* The awaits a handler can be at:
\*   find       SELECT for an existing sku or invoice number (pool.query)
\*   write      its one INSERT, UPDATE or DELETE (pool.query)
\*   insert, select, update, commit   the statements of withTransaction
\*   rollback   the ROLLBACK of withTransaction, after the callback threw
\*   aborted    the same, after a statement failed: PostgreSQL has let go already
\*   committed  its change is in the database, the answer is not out yet
Label == {"idle", "find", "write", "insert", "select", "update", "commit",
          "rollback", "aborted", "committed"}

Reply == {"none", "ok", "refused", "failed"}

TypeOK ==
    /\ inventory \in [Item -> ItemRow \cup {Null}]
    /\ ledger \in [Txn -> TxnRow \cup {Null}]
    /\ lock \in [Item -> Request \cup {Free}]
    /\ clients \subseteq Request
    /\ pc \in [Request -> Label]
    /\ call \in [Request -> CallRecord]
    /\ target \in [Request -> Int]
    /\ reply \in [Request -> Reply]

Init ==
    /\ inventory = [i \in Item |-> Null]
    /\ ledger = [x \in Txn |-> Null]
    /\ lock = [i \in Item |-> Free]
    /\ clients = {}
    /\ pc = [r \in Request |-> "idle"]
    /\ call = [r \in Request |-> NoCall]
    /\ target = [r \in Request |-> 0]
    /\ reply = [r \in Request |-> "none"]

InFlight == {call[r] : r \in {q \in Request : pc[q] # "idle"}}

-----------------------------------------------------------------------------
(* Arrival, the pool, and the ways a handler ends.                         *)

FirstLabel(c) ==
    CASE c.op \in {"createItem", "createTxn"} -> "find"
      [] c.op = "adjustStock" -> "select"
      [] OTHER -> "write"

Receive(r) ==
    /\ pc[r] = "idle"
    /\ \E c \in Calls :
        /\ IdsPossible(c, inventory, ledger, InFlight)
        /\ call' = [call EXCEPT ![r] = c]
        /\ pc' = [pc EXCEPT ![r] = FirstLabel(c)]
    /\ reply' = [reply EXCEPT ![r] = "none"]
    /\ UNCHANGED <<inventory, ledger, lock, clients, target>>

\* It asks the pool for a client; "select" asks only when it opens the
\* transaction (adjustStock), not when the INSERT came before it.
WaitsForClient(r) == pc[r] \in {"find", "write", "insert", "select"} /\ r \notin clients

ClientAvailable == Cardinality(clients) < PoolMax

\* pool.connect() (and BEGIN), or the client that pool.query takes.
AcquireClient(r) ==
    /\ WaitsForClient(r) /\ ClientAvailable
    /\ clients' = clients \cup {r}
    /\ UNCHANGED <<inventory, ledger, lock, pc, call, target, reply>>

\* The handler is over; every lock and the client it had are free again.
Ends(r, answer) ==
    /\ pc' = [pc EXCEPT ![r] = "idle"]
    /\ call' = [call EXCEPT ![r] = NoCall]
    /\ target' = [target EXCEPT ![r] = 0]
    /\ reply' = [reply EXCEPT ![r] = answer]
    /\ clients' = clients \ {r}

Unlocked(r) == [i \in Item |-> IF lock[i] = r THEN Free ELSE lock[i]]

At(r, label) == pc[r] = label /\ r \in clients

Goto(r, label) == pc' = [pc EXCEPT ![r] = label]

\* connectionTimeoutMillis: no client came free in time.
ConnectTimeout(r) ==
    /\ WaitsForClient(r) /\ ~ClientAvailable
    /\ Ends(r, "failed")
    /\ UNCHANGED <<inventory, ledger, lock>>

\* A pool.query fails, or a connection breaks: the statement throws, ROLLBACK
\* throws, and the database undoes what was not committed.  In withTransaction
\* nobody listens to the client's "error" event, and it may be a Crash as well.
LoseConnection(r) ==
    /\ r \in clients
    /\ Ends(r, "failed")
    /\ lock' = Unlocked(r)
    /\ UNCHANGED tables

\* The process dies or is killed; PostgreSQL undoes the open transactions.
Crash ==
    /\ \E r \in Request : pc[r] # "idle"
    /\ pc' = [r \in Request |-> "idle"]
    /\ call' = [r \in Request |-> NoCall]
    /\ target' = [r \in Request |-> 0]
    /\ reply' = [r \in Request |-> IF pc[r] = "idle" THEN reply[r] ELSE "failed"]
    /\ clients' = {}
    /\ lock' = [i \in Item |-> Free]
    /\ UNCHANGED tables

\* A pool.query whose statement changed the database.
Written(r) == Goto(r, "committed") /\ UNCHANGED <<lock, clients, call, target, reply>>

\* Mutant: the client is not released.
FinishUnreleased(r) ==
    /\ At(r, "committed")
    /\ pc' = [pc EXCEPT ![r] = "idle"]
    /\ call' = [call EXCEPT ![r] = NoCall]
    /\ target' = [target EXCEPT ![r] = 0]
    /\ reply' = [reply EXCEPT ![r] = "ok"]
    /\ UNCHANGED <<inventory, ledger, lock, clients>>

Finish(r) ==
    /\ At(r, "committed")
    /\ Ends(r, "ok")
    /\ UNCHANGED <<inventory, ledger, lock>>

Refused(r) == Ends(r, "refused") /\ UNCHANGED <<inventory, ledger, lock>>
Failed(r) == Ends(r, "failed") /\ UNCHANGED <<inventory, ledger, lock>>

-----------------------------------------------------------------------------
(* The statements of pool.query.                                           *)

\* findBySku / findByInvoiceNo: 409 if there is one; else on to the INSERT.
\* Nothing keeps another request from inserting in between.
Find(r) ==
    /\ At(r, "find")
    /\ LET c == call[r]
           taken == IF c.op = "createItem" THEN SkuTaken(inventory, c)
                                           ELSE InvoiceTaken(ledger, c)
       IN  IF taken
           THEN Refused(r)
           ELSE /\ Goto(r, IF c.op = "createItem" THEN "write" ELSE "insert")
                /\ clients' = clients \ {r}
                /\ UNCHANGED <<inventory, ledger, lock, call, target, reply>>

InsertItem(r) ==
    /\ At(r, "write") /\ call[r].op = "createItem"
    /\ LET c == call[r]
       IN  IF (UniqueApplies(c.tenant) /\ SkuTaken(inventory, c)) \/ ColumnOverflows(c.amount)
           THEN Failed(r)
           ELSE /\ inventory' = [inventory EXCEPT ![c.item] = NewItem(c)]
                /\ Written(r) /\ UNCHANGED ledger

\* UPDATE and DELETE of a row wait until nobody else has it locked.
RowFree(i) == lock[i] = Free

UpdateItem(r) ==
    /\ At(r, "write") /\ call[r].op = "updateItem"
    /\ LET c == call[r]
           violates == \/ UniqueApplies(c.tenant) /\ c.sku # Null /\ SkuTaken(inventory, c)
                       \/ c.amount # Null /\ ColumnOverflows(c.amount)
       IN  IF ~Finds(inventory, c.item, c.tenant)
           THEN Refused(r)
           ELSE /\ EmptyPatch(c) \/ RowFree(c.item)
                /\ IF violates
                   THEN Failed(r)
                   ELSE /\ inventory' = [inventory EXCEPT ![c.item] = Patched(@, c)]
                        /\ Written(r) /\ UNCHANGED ledger

RemoveItem(r) ==
    /\ At(r, "write") /\ call[r].op = "removeItem"
    /\ LET c == call[r]
       IN  IF ~Finds(inventory, c.item, c.tenant)
           THEN Refused(r)
           ELSE /\ RowFree(c.item)
                /\ inventory' = [inventory EXCEPT ![c.item] = Null]
                /\ Written(r) /\ UNCHANGED ledger

UpdateTxn(r) ==
    /\ At(r, "write") /\ call[r].op = "updateTxn"
    /\ IF Finds(ledger, call[r].txn, call[r].tenant)
       THEN Written(r) /\ UNCHANGED tables
       ELSE Refused(r)

RemoveTxn(r) ==
    /\ At(r, "write") /\ call[r].op = "removeTxn"
    /\ IF Finds(ledger, call[r].txn, call[r].tenant)
       THEN /\ ledger' = [ledger EXCEPT ![call[r].txn] = Null]
            /\ Written(r) /\ UNCHANGED inventory
       ELSE Refused(r)

-----------------------------------------------------------------------------
(* withTransaction.                                                        *)

\* The statement failed: PostgreSQL aborts the transaction and lets go of
\* its locks at once; the handler still has to send ROLLBACK.
Abort(r) ==
    /\ Goto(r, "aborted")
    /\ lock' = Unlocked(r)
    /\ UNCHANGED <<inventory, ledger, clients, call, target, reply>>

\* An error of PostgreSQL that no guard stands for: a column that is too
\* narrow (amount is not checked against NUMERIC(14,2)), a cancelled statement.
StatementFails(r) == pc[r] \in {"insert", "select", "update"} /\ r \in clients /\ Abort(r)

\* An open transaction of another request has inserted the same key.
KeyPending(r) ==
    \E q \in Request \ {r} :
        /\ call[q].op = "createTxn" /\ pc[q] \in {"select", "update", "commit", "rollback"}
        /\ call[q].tenant = call[r].tenant /\ call[q].invoice = call[r].invoice

InsertTxn(r) ==
    /\ At(r, "insert")
    /\ UniqueApplies(call[r].tenant) => ~KeyPending(r)
    /\ IF UniqueApplies(call[r].tenant) /\ InvoiceTaken(ledger, call[r])
       THEN Abort(r)
       ELSE /\ Goto(r, IF MovesStock(call[r]) THEN "select" ELSE "commit")
            /\ UNCHANGED <<inventory, ledger, lock, clients, call, target, reply>>

\* The callback threw (404 or 400); the row lock, if it got one, stays.
Throws(r) == Goto(r, "rollback") /\ UNCHANGED target

\* Mutant: a plain SELECT, which waits for nobody.
PlainSelect(i) == TRUE

\* FOR UPDATE: the read waits for the lock, as a write does.
ForUpdate(i) == RowFree(i)

\* SELECT ... FOR UPDATE, and what the handler computes from the row.
SelectForUpdate(r) ==
    /\ At(r, "select")
    /\ LET c == call[r]
       IN  IF ~Finds(inventory, c.item, c.tenant)
           THEN Throws(r) /\ UNCHANGED lock
           ELSE /\ ForUpdate(c.item)
                /\ lock' = [lock EXCEPT ![c.item] = r]
                /\ \E newStock \in FloatSum(inventory[c.item].stock, Movement(c)) :
                    IF Insufficient(newStock)
                    THEN Throws(r)
                    ELSE Goto(r, "update") /\ target' = [target EXCEPT ![r] = newStock]
    /\ UNCHANGED <<inventory, ledger, clients, call, reply>>

UpdateStock(r) ==
    /\ At(r, "update")
    /\ IF ColumnOverflows(target[r])
       THEN Abort(r)
       ELSE Goto(r, "commit") /\ UNCHANGED <<inventory, ledger, lock, clients, call, target, reply>>

Commit(r) ==
    /\ At(r, "commit")
    /\ LET c == call[r]
       IN  /\ inventory' = IF MovesStock(c)
                           THEN [inventory EXCEPT ![c.item] = WithStock(@, target[r])]
                           ELSE inventory
           /\ ledger' = IF c.op = "createTxn" THEN [ledger EXCEPT ![c.txn] = NewTxn(c)]
                                              ELSE ledger
    /\ lock' = Unlocked(r)
    /\ Goto(r, "committed")
    /\ UNCHANGED <<clients, call, target, reply>>

\* Mutant: the transaction is left open when its client goes back.
RollbackForgotten(r) ==
    /\ \/ At(r, "rollback") /\ Ends(r, "refused")
       \/ At(r, "aborted") /\ Ends(r, "failed")
    /\ UNCHANGED <<inventory, ledger, lock>>

Rollback(r) ==
    /\ \/ At(r, "rollback") /\ Ends(r, "refused")
       \/ At(r, "aborted") /\ Ends(r, "failed")
    /\ lock' = Unlocked(r)
    /\ UNCHANGED tables

-----------------------------------------------------------------------------
Statement(r) ==
    \/ Find(r) \/ InsertItem(r) \/ UpdateItem(r) \/ RemoveItem(r) \/ UpdateTxn(r) \/ RemoveTxn(r)
    \/ InsertTxn(r) \/ SelectForUpdate(r) \/ UpdateStock(r) \/ Commit(r) \/ Rollback(r)
    \/ Finish(r)

Step(r) == AcquireClient(r) \/ Statement(r)

Next ==
    \/ \E r \in Request :
        Receive(r) \/ Step(r) \/ ConnectTimeout(r) \/ LoseConnection(r) \/ StatementFails(r)
    \/ Crash

Spec == Init /\ [][Next]_vars

\* The pool and PostgreSQL's lock queue are first come, first served: a
\* request that gets its turn again and again in the end takes it.
FairSpec == Spec /\ \A r \in Request : SF_vars(Step(r))

-----------------------------------------------------------------------------
(* Properties.                                                             *)

\* Stock is never negative and fits its column (NUMERIC(14,2), no CHECK on
\* the sign): the guards of adjustStock and create must hold at commit too.
StockInRange ==
    \A i \in Item : inventory[i] # Null =>
        inventory[i].stock \in 0..MaxStock /\ WholeCents(inventory[i].stock)

\* inventory.validators.ts:11: the status is derived from stock "so it can
\* never drift out of sync".
StatusMatchesStock ==
    \A i \in Item : inventory[i] # Null =>
        inventory[i].status = ComputeStockStatus(inventory[i].stock)

\* It holds when all amounts are whole units: then nothing is ever rounded.
WholeAmounts == \A n \in Opening \cup Quantity : Whole(n)

WholeStock == \A i \in Item : inventory[i] # Null => Whole(inventory[i].stock)

\* One row per invoice number and per sku within a tenant that has an id.
InvoiceUnique ==
    \A x, y \in Txn : ledger[x] # Null /\ ledger[x] = ledger[y]
                      /\ ledger[x].tenant # NoTenant => x = y

SkuUnique ==
    \A i, j \in Item :
        /\ inventory[i] # Null /\ inventory[j] # Null
        /\ inventory[i].tenant = inventory[j].tenant /\ inventory[i].sku = inventory[j].sku
        /\ inventory[i].tenant # NoTenant
        => i = j

\* The conflict check promises it to a deployment without tenants as well.
InvoiceUniqueEverywhere ==
    \A x, y \in Txn : ledger[x] # Null /\ ledger[x] = ledger[y] => x = y

\* Nothing leaks: a client or a row lock belongs to a request in flight, a
\* row lock to an open transaction on that row, and the pool has its size.
NothingLeaks ==
    /\ IsFiniteSet(clients) /\ Cardinality(clients) <= PoolMax
    /\ \A r \in clients : pc[r] # "idle"
    /\ \A i \in Item : lock[i] # Free =>
        /\ lock[i] \in clients /\ call[lock[i]].item = i
        /\ pc[lock[i]] \in {"update", "commit", "rollback"}

\* What was read under the row lock is still the committed row when the
\* UPDATE and the COMMIT act on it, and the sum was checked: no lost update.
ReadIsCurrent ==
    \A r \in Request : pc[r] \in {"update", "commit"} /\ MovesStock(call[r]) =>
        LET i == call[r].item
        IN  /\ lock[i] = r
            /\ Finds(inventory, i, call[r].tenant)
            /\ target[r] \in FloatSum(inventory[i].stock, Movement(call[r]))
            /\ target[r] >= 0

\* Each handler works on a call that was validated, along its own path, and
\* commits only a stock that the column can hold.
OnPath ==
    \A r \in Request :
        /\ IF pc[r] = "idle" THEN call[r] = NoCall ELSE call[r] \in Calls
        /\ pc[r] = "find" => call[r].op \in {"createItem", "createTxn"}
        /\ pc[r] = "insert" => call[r].op = "createTxn"
        /\ pc[r] \in {"select", "update"} => MovesStock(call[r])
        /\ pc[r] = "commit" => call[r].op \in {"adjustStock", "createTxn"}
        /\ pc[r] = "commit" /\ MovesStock(call[r]) => ~ColumnOverflows(target[r])

\* The id of a row that is being created is known to its handler only.
OwnIds ==
    \A r \in Request : \A q \in Request \ {r} :
        /\ call[r].op = "createItem" => call[q].item # call[r].item
        /\ call[r].op = "createTxn" => call[q].txn # call[r].txn

\* The inductive invariant.
IInv == TypeOK /\ OnPath /\ OwnIds /\ ReadIsCurrent /\ NothingLeaks /\ StockInRange

\* Every call is one atomic step of AtomicLedger, truthfully answered.
Phase(r) == CASE pc[r] = "idle" -> "idle" [] pc[r] = "committed" -> "done" [] OTHER -> "pending"

Atomic == INSTANCE AtomicLedger WITH phase <- [r \in Request |-> Phase(r)]
AtomicSpec == Atomic!Spec

\* Every request is answered in the end, whoever holds the row or the pool.
EveryRequestAnswered == \A r \in Request : pc[r] # "idle" ~> pc[r] = "idle"
=============================================================================
