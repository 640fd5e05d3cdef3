------------------------- MODULE MCPosOfflineQueue --------------------------
(* Two tabs, two tickets and two queue rows, of which a drain takes one.     *)
EXTENDS PosOfflineQueue, TLC

CONSTANTS k1, k2, b1, b2

MCKeys == {k1, k2}
MCTabs == {b1, b2}
TwoRows == {1, 2}
Symmetric == Permutations(MCKeys) \cup Permutations(MCTabs)
=============================================================================
