--------------------------- MODULE MCStockLedger ---------------------------
EXTENDS StockLedger, TLC

CONSTANT t1

(* Amounts: with these every status and every refusal comes up.            *)
NoStock == {0}
ThirtyUnits == {30 * Unit}
NoAmounts == {}
TwentyFour == {24 * Unit}
SixteenOhEight == {16 * Unit + 8 * Cent}
SixOhEight == {6 * Unit + 8 * Cent}
Capacity == 54 * Unit
SmallCapacity == 30 * Unit

(* Tenants. *)
OneTenant == {NoTenant}
TwoTenants == {NoTenant, t1}

(* Operations. *)
AllOperations == {"createItem", "updateItem", "removeItem", "adjustStock",
                  "createTxn", "updateTxn", "removeTxn"}
WaitingOperations == {"createItem", "adjustStock", "createTxn"}

(* Interchangeable ids.                                                    *)
Ids == Permutations(Request) \cup Permutations(Item) \cup Permutations(Txn) \cup Permutations(Sku)
=============================================================================
