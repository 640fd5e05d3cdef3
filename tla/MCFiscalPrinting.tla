------------------------- MODULE MCFiscalPrinting -------------------------
(* Two documents, two print jobs and two overlapping cycles.                *)
EXTENDS FiscalPrinting, TLC

CONSTANTS d1, d2, w1, w2, key

MCDocs == {d1, d2}
TwoJobs == 1..2
MCKeys == {key}
MCWorkers == {w1, w2}

\* Documents and cycles are interchangeable.
MCSymmetry == Permutations(MCDocs) \cup Permutations(MCWorkers)
=============================================================================
