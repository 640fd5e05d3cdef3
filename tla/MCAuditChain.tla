---------------------------- MODULE MCAuditChain ----------------------------
(* An instance of AuditChain for TLC.                                      *)
EXTENDS AuditChain, TLC

CONSTANTS sys, co, e1, e2, e3, e4, w1, w2, k1, k2

MCPartitions == {sys, co}
MCEvents == {e1, e2, e3, e4}
MCWriters == {w1, w2}
MCKeys == {k1, k2}
Symmetric == Permutations(MCEvents) \cup Permutations(MCWriters) \cup Permutations(MCPartitions)
=============================================================================
