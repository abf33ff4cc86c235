---------------------------- MODULE AtomicLedger ----------------------------
(***************************************************************************)
(* What /inventory and /transactions promise: every call takes effect at   *)
(* most once, at one moment between its arrival and its answer, on both    *)
(* tables together; a call that is refused changed nothing and there was a *)
(* reason to refuse it; "ok" is only answered to a call that took effect.  *)
(* A call that fails (HTTP 500, lost connection) may have taken effect.    *)
(***************************************************************************)
EXTENDS LedgerTables

VARIABLES
    inventory, ledger,  \* the two tables
    call,               \* the call each request carries
    phase,              \* "idle", "pending" (not yet in effect) or "done"
    reply               \* the last answer each request got

vars == <<inventory, ledger, call, phase, reply>>

Init ==
    /\ inventory = [i \in Item |-> Null]
    /\ ledger = [x \in Txn |-> Null]
    /\ call = [r \in Request |-> NoCall]
    /\ phase = [r \in Request |-> "idle"]
    /\ reply = [r \in Request |-> "none"]

InFlight == {call[r] : r \in {q \in Request : phase[q] # "idle"}}

Receive(r) ==
    /\ phase[r] = "idle"
    /\ \E c \in Calls :
        /\ IdsPossible(c, inventory, ledger, InFlight)
        /\ call' = [call EXCEPT ![r] = c]
    /\ phase' = [phase EXCEPT ![r] = "pending"]
    /\ reply' = [reply EXCEPT ![r] = "none"]
    /\ UNCHANGED <<inventory, ledger>>

-----------------------------------------------------------------------------
(* The effect of a call, given its fields.                                 *)

AddItem(c) ==
    /\ c.op = "createItem"
    /\ UniqueApplies(c.tenant) => ~SkuTaken(inventory, c)
    /\ ~ColumnOverflows(c.amount)
    /\ inventory' = [inventory EXCEPT ![c.item] = NewItem(c)]
    /\ UNCHANGED ledger

ReviseItem(c) ==
    /\ c.op = "updateItem"
    /\ Finds(inventory, c.item, c.tenant)
    /\ UniqueApplies(c.tenant) /\ c.sku # Null => ~SkuTaken(inventory, c)
    /\ c.amount # Null => ~ColumnOverflows(c.amount)
    /\ inventory' = [inventory EXCEPT ![c.item] = Patched(@, c)]
    /\ UNCHANGED ledger

DropItem(c) ==
    /\ c.op = "removeItem"
    /\ Finds(inventory, c.item, c.tenant)
    /\ inventory' = [inventory EXCEPT ![c.item] = Null]
    /\ UNCHANGED ledger

MoveStock(c) ==
    /\ MovesStock(c)
    /\ Finds(inventory, c.item, c.tenant)
    /\ \E stock \in FloatSum(inventory[c.item].stock, Movement(c)) :
        /\ ~Insufficient(stock) /\ ~ColumnOverflows(stock)
        /\ inventory' = [inventory EXCEPT ![c.item] = WithStock(@, stock)]

Adjust(c) == c.op = "adjustStock" /\ MoveStock(c) /\ UNCHANGED ledger

\* A ledger entry and the movement it stands for: both, or neither.
Record(c) ==
    /\ c.op = "createTxn"
    /\ UniqueApplies(c.tenant) => ~InvoiceTaken(ledger, c)
    /\ ledger' = [ledger EXCEPT ![c.txn] = NewTxn(c)]
    /\ IF MovesStock(c) THEN MoveStock(c) ELSE UNCHANGED inventory

\* PUT /transactions changes status, payment method, amount and the like.
ReviseTxn(c) ==
    /\ c.op = "updateTxn"
    /\ Finds(ledger, c.txn, c.tenant)
    /\ UNCHANGED <<inventory, ledger>>

\* DELETE /transactions does not give the stock back.
DropTxn(c) ==
    /\ c.op = "removeTxn"
    /\ Finds(ledger, c.txn, c.tenant)
    /\ ledger' = [ledger EXCEPT ![c.txn] = Null]
    /\ UNCHANGED inventory

TakeEffect(r) ==
    /\ phase[r] = "pending"
    /\ \/ AddItem(call[r]) \/ ReviseItem(call[r]) \/ DropItem(call[r])
       \/ Adjust(call[r]) \/ Record(call[r]) \/ ReviseTxn(call[r]) \/ DropTxn(call[r])
    /\ phase' = [phase EXCEPT ![r] = "done"]
    /\ UNCHANGED <<call, reply>>

-----------------------------------------------------------------------------
(* The answer.                                                             *)

Answered(r, answer) ==
    /\ phase' = [phase EXCEPT ![r] = "idle"]
    /\ call' = [call EXCEPT ![r] = NoCall]
    /\ reply' = [reply EXCEPT ![r] = answer]
    /\ UNCHANGED <<inventory, ledger>>

AnswerOk(r) == phase[r] = "done" /\ Answered(r, "ok")

\* Why a call may be refused: a duplicate, a row that is not there, or a
\* movement that would leave the stock below zero.
Refusable(c) ==
    \/ c.op = "createItem" /\ SkuTaken(inventory, c)
    \/ c.op = "createTxn" /\ InvoiceTaken(ledger, c)
    \/ c.op \in {"updateItem", "removeItem"} /\ ~Finds(inventory, c.item, c.tenant)
    \/ c.op \in {"updateTxn", "removeTxn"} /\ ~Finds(ledger, c.txn, c.tenant)
    \/ /\ MovesStock(c)
       /\ \/ ~Finds(inventory, c.item, c.tenant)
          \/ \E stock \in FloatSum(inventory[c.item].stock, Movement(c)) : Insufficient(stock)

Refuse(r) == phase[r] = "pending" /\ Refusable(call[r]) /\ Answered(r, "refused")

Fail(r) == phase[r] # "idle" /\ Answered(r, "failed")

\* The process dies: every request in flight gets no proper answer.
FailAll ==
    /\ phase' = [r \in Request |-> "idle"]
    /\ call' = [r \in Request |-> NoCall]
    /\ reply' = [r \in Request |-> IF phase[r] = "idle" THEN reply[r] ELSE "failed"]
    /\ UNCHANGED <<inventory, ledger>>

Next ==
    \/ \E r \in Request : Receive(r) \/ TakeEffect(r) \/ AnswerOk(r) \/ Refuse(r) \/ Fail(r)
    \/ FailAll

Spec == Init /\ [][Next]_vars
=============================================================================
