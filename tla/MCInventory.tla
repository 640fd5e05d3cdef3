---------------------------- MODULE MCInventory -----------------------------
(* Two warehouses and two concurrent requests over two keys; two units of    *)
(* quantity make a piece.                                                    *)
EXTENDS Inventory

CONSTANTS w1, w2, r1, r2, k1, k2

TwoWarehouses == {w1, w2}
TwoRequests == {r1, r2}
TwoKeys == {k1, k2}
OneAndThree == {1, 3}
CheapAndDear == {1, 4}
DebtAndSome == {-1, 2}
=============================================================================
