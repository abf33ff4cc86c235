------------------------------ MODULE StockMath ------------------------------
(***************************************************************************)
(* The arithmetic of stock quantities: what JavaScript computes with them, *)
(* what the NUMERIC(14,2) column keeps of them, and the stock status that  *)
(* inventory.repository.ts derives from them.                              *)
(*                                                                         *)
(* A quantity is an integer number of grains.  A grain is finer than any   *)
(* amount a client sends: it stands for the last bits of a double.         *)
(***************************************************************************)
EXTENDS Integers

Cent == 20              \* grains in the column's smallest step, 0.01
Unit == 100 * Cent      \* grains in one whole unit

Whole(x) == x % Unit = 0
WholeCents(x) == x % Cent = 0

LowStockThreshold == 10 * Unit
MediumStockThreshold == 50 * Unit

StockStatus == {"out", "low", "medium", "healthy"}

\* Mutant: a status that the column's CHECK does not know.
ComputeStockStatusRenamed(stock) ==
    IF stock < LowStockThreshold THEN "critical" ELSE "healthy"

ComputeStockStatus(stock) ==
    CASE stock <= 0                                            -> "out"
      [] stock > 0 /\ stock < LowStockThreshold                -> "low"
      [] stock >= LowStockThreshold /\ stock < MediumStockThreshold -> "medium"
      [] stock >= MediumStockThreshold                         -> "healthy"

\* The stock movement of a ledger entry: a sale deducts, a purchase adds.
Delta(type, quantity) == IF type = "sale" THEN -quantity ELSE quantity

\* Number(row.stock) + delta in doubles: exact on whole units and when the
\* operands cancel out, otherwise off by at most the last bit.
FloatSum(stock, delta) ==
    IF (Whole(stock) /\ Whole(delta)) \/ stock + delta = 0
    THEN {stock + delta}
    ELSE (stock + delta - 1) .. (stock + delta + 1)

\* What a NUMERIC(14,2) column stores of a non-negative number: the nearest
\* multiple of 0.01, ties away from zero.
ToNumeric(x) ==
    IF 2 * (x % Cent) >= Cent THEN x - (x % Cent) + Cent ELSE x - (x % Cent)
=============================================================================
