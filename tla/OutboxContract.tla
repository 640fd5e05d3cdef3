--------------------------- MODULE OutboxContract ---------------------------
(***************************************************************************)
(* What the outbox promises to the modules that publish into it: a row     *)
(* lives once.  It waits until it is either handed over or buried as a     *)
(* dead letter, and only an operator may dismiss one that was not handed   *)
(* over.  Dispatches, lists, locks and retries are not visible here.       *)
(***************************************************************************)
CONSTANT Events

VARIABLE fate

Init == fate = [e \in Events |-> "absent"]

Becomes(e, from, to) ==
  /\ fate[e] \in from
  /\ fate' = [fate EXCEPT ![e] = to]

Accept(e)  == Becomes(e, {"absent"}, "queued")
HandOver(e) == Becomes(e, {"queued"}, "handed")
Bury(e)    == Becomes(e, {"queued"}, "dead")
Dismiss(e) == Becomes(e, {"queued", "dead"}, "dismissed")

Next == \E e \in Events : Accept(e) \/ HandOver(e) \/ Bury(e) \/ Dismiss(e)

Spec == Init /\ [][Next]_fate
=============================================================================
