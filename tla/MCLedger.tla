------------------------------ MODULE MCLedger ------------------------------
(* One event, two people, one fiscal period and two rule versions.           *)
EXTENDS Ledger, TLC

CONSTANTS ana, luis, p1

MCUsers == {ana, luis}
OneEvent == {1}
InFirst == [e \in Events |-> p1]
OnePeriod == {p1}
BadSecond == {<<1, 2>>}

People == Permutations(MCUsers)
=============================================================================
