----------------------------- MODULE FiscalLife -----------------------------
(***************************************************************************)
(* The life of the fiscal documents of one series, as an auditor sees it:  *)
(* numbers are given in order and without gaps when a document is issued   *)
(* and stay with it; an issued document waits for its printed form, gets   *)
(* it, or is declared in contingency, from which it may still be printed;  *)
(* a printed document does not wait again, and a void one stays void.      *)
(***************************************************************************)
EXTENDS Naturals

CONSTANT Docs

VARIABLES stage, number, last

Init ==
  /\ stage = [d \in Docs |-> "none"]
  /\ number = [d \in Docs |-> 0]
  /\ last = 0

Becomes(d, from, to) ==
  /\ stage[d] \in from
  /\ stage' = [stage EXCEPT ![d] = to]

Draft(d) == Becomes(d, {"none"}, "draft") /\ UNCHANGED <<number, last>>

Issue(d) ==
  /\ Becomes(d, {"draft"}, "waiting")
  /\ last' = last + 1
  /\ number' = [number EXCEPT ![d] = last + 1]

FormPrinted(d) == Becomes(d, {"waiting", "contingency"}, "printed") /\ UNCHANGED <<number, last>>
Declare(d) == Becomes(d, {"waiting"}, "contingency") /\ UNCHANGED <<number, last>>
Annul(d) == Becomes(d, {"waiting", "contingency", "printed"}, "void") /\ UNCHANGED <<number, last>>

Next == \E d \in Docs : Draft(d) \/ Issue(d) \/ FormPrinted(d) \/ Declare(d) \/ Annul(d)

Spec == Init /\ [][Next]_<<stage, number, last>>
=============================================================================
