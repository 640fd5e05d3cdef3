--------------------------- MODULE MCIntercompany ---------------------------
(* One transaction, two requests that dispute or settle it, and the job; what *)
(* the properties say of several transactions is in Closing_proofs.  The      *)
(* amounts offered are a cent off the transaction's, and far off.             *)
EXTENDS Intercompany, TLC

CONSTANTS r1, r2, c1

OneTransaction == {1}
OneCase == {c1}
TwoRequests == {r1, r2}
OffersMade == {6, 8}
Symmetric == Permutations(TwoRequests)
=============================================================================
