---------------------------- MODULE LedgerTables ----------------------------
(***************************************************************************)
(* The inventory and transactions tables, the calls clients make on them,  *)
(* and what one statement makes of a row.  AtomicLedger (what the API      *)
(* promises) and StockLedger (how the handlers do it) both build on this.  *)
(*                                                                         *)
(* A table maps an id to its row, or to Null when there is no such row.    *)
(***************************************************************************)
EXTENDS Integers, FiniteSets, StockMath

CONSTANTS
    Request,    \* HTTP requests that can be in flight together
    Item, Txn,  \* ids of inventory rows and of transactions rows
    Tenant,     \* values of tenant_id, NoTenant among them
    NoTenant,   \* tenant_id NULL: single-tenant deployments
    Sku, Invoice,
    Opening,    \* the stock a POST or PUT /inventory may carry
    Quantity,   \* the amounts a sale, purchase or adjustment may move
    Operation,  \* the operations that clients use
    MaxStock,   \* the largest value of the NUMERIC(14,2) stock column
    Null        \* no row, or a field that is absent

ASSUME TablesAssumption ==
    /\ NoTenant \in Tenant
    /\ MaxStock \in Nat /\ WholeCents(MaxStock)
    /\ Opening \subseteq Nat
    /\ Quantity \subseteq Nat \ {0}

ItemRow == [tenant: Tenant, sku: Sku, stock: Int, status: StockStatus]
TxnRow == [tenant: Tenant, invoice: Invoice]

ASSUME NullAssumption == Null \notin Item \cup Txn \cup Sku \cup Int \cup ItemRow \cup TxnRow

-----------------------------------------------------------------------------
(* Calls: the fields that pass validateRequest, Null where one is absent.  *)

TxnType == {"sale", "purchase"}

CallRecord ==
    [op: {"none", "createItem", "updateItem", "removeItem", "adjustStock",
          "createTxn", "updateTxn", "removeTxn"},
     tenant: Tenant, item: Item \cup {Null}, txn: Txn \cup {Null},
     sku: Sku \cup {Null}, invoice: Invoice \cup {Null},
     type: TxnType \cup {Null}, amount: Int \cup {Null}]

NoCall == [op |-> "none", tenant |-> NoTenant, item |-> Null, txn |-> Null, sku |-> Null,
           invoice |-> Null, type |-> Null, amount |-> Null]

\* The calls of the operations op whose fields come from the given sets.
Shape(op, item, txn, sku, invoice, type, amount) ==
    [op: op, tenant: Tenant, item: item, txn: txn, sku: sku, invoice: invoice, type: type,
     amount: amount]

Absent == {Null}

ItemCalls ==
    Shape({"createItem"}, Item, Absent, Sku, Absent, Absent, Opening)
    \cup Shape({"updateItem"}, Item, Absent, Sku \cup Absent, Absent, Absent, Opening \cup Absent)
    \cup Shape({"removeItem"}, Item, Absent, Absent, Absent, Absent, Absent)
    \cup Shape({"adjustStock"}, Item, Absent, Absent, Absent, Absent,
               Quantity \cup {-q : q \in Quantity})

TxnCalls ==
    Shape({"createTxn"}, Item \cup Absent, Txn, Absent, Invoice, TxnType, Quantity \cup Absent)
    \cup Shape({"updateTxn", "removeTxn"}, Absent, Txn, Absent, Absent, Absent, Absent)

Calls == {c \in ItemCalls \cup TxnCalls : c.op \in Operation}

\* Ids are random UUIDs: a create gets one that no row has and no other call
\* in flight names, and nobody can name the id of a row still being created.
IdsPossible(c, inventory, ledger, inFlight) ==
    /\ c.op = "createItem" => inventory[c.item] = Null /\ \A d \in inFlight : d.item # c.item
    /\ c.op = "createTxn" => ledger[c.txn] = Null /\ \A d \in inFlight : d.txn # c.txn
    /\ \A d \in inFlight : /\ d.op = "createItem" => d.item # c.item
                           /\ d.op = "createTxn" => d.txn # c.txn

MovesStock(c) ==
    \/ c.op = "adjustStock"
    \/ c.op = "createTxn" /\ c.item # Null /\ c.amount # Null

Movement(c) == IF c.op = "adjustStock" THEN c.amount ELSE Delta(c.type, c.amount)

-----------------------------------------------------------------------------
(* Rows.                                                                   *)

\* WHERE id = $1 AND tenant_id IS NOT DISTINCT FROM $2
Finds(table, id, tenant) == table[id] # Null /\ table[id].tenant = tenant

SkuTaken(inventory, c) ==
    \E i \in Item \ {c.item} :
        inventory[i] # Null /\ inventory[i].tenant = c.tenant /\ inventory[i].sku = c.sku

InvoiceTaken(ledger, c) ==
    \E x \in Txn \ {c.txn} :
        ledger[x] # Null /\ ledger[x].tenant = c.tenant /\ ledger[x].invoice = c.invoice

\* Mutant: a migration without the UNIQUE constraints.
UniqueNowhere(tenant) == FALSE

\* UNIQUE (tenant_id, ...) holds two rows apart only when tenant_id is not
\* NULL: in SQL, NULL equals nothing, not even NULL.
UniqueApplies(tenant) == tenant # NoTenant

ColumnOverflows(stock) == ToNumeric(stock) > MaxStock

\* Mutant: a withdrawal of more than there is goes through.
InsufficientNever(newStock) == FALSE

Insufficient(newStock) == newStock < 0

\* Mutant: the UPDATE writes the stock and leaves the status.
WithStockOnly(row, stock) == [row EXCEPT !.stock = ToNumeric(stock)]

\* The status is computed from the number in memory, the column rounds it.
WithStock(row, stock) ==
    [row EXCEPT !.stock = ToNumeric(stock), !.status = ComputeStockStatus(stock)]

NewItem(c) == [tenant |-> c.tenant, sku |-> c.sku, stock |-> ToNumeric(c.amount),
               status |-> ComputeStockStatus(c.amount)]
NewTxn(c) == [tenant |-> c.tenant, invoice |-> c.invoice]

\* PUT: only the fields that are present are written.
Patched(row, c) ==
    LET restocked == IF c.amount = Null THEN row ELSE WithStock(row, c.amount)
    IN  IF c.sku = Null THEN restocked ELSE [restocked EXCEPT !.sku = c.sku]

EmptyPatch(c) == c.op = "updateItem" /\ c.sku = Null /\ c.amount = Null
=============================================================================
