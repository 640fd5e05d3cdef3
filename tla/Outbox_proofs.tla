--------------------------- MODULE Outbox_proofs ---------------------------
(***************************************************************************)
(* For any rows, workers, scopes, limits and attempt budgets: the retry    *)
(* budget, the single delivery, the finality of SENT, the spacing of the   *)
(* retries, and that the dispatcher implements OutboxContract.             *)
(***************************************************************************)
EXTENDS Outbox, TLAPS

\* A row is SENT exactly when something sent it, and a row that was not inserted
\* carries no trace of an attempt.
Untouched ==
  \A e \in Events :
    /\ (status[e] = "SENT") <=> (via[e] # "none")
    /\ status[e] = "ABSENT" => attempts[e] = 0 /\ next[e] = Unscheduled

\* A dispatch works with an instant that has passed, and what is in an operator's
\* hands is a row that exists.
Sane ==
  /\ \A w \in Workers : clock[w] <= now
  /\ now > 0
  /\ \A o \in Operators :
       copy[o] # NoCopy => /\ copy[o].event \in Events
                           /\ status[copy[o].event] # "ABSENT"

IInv ==
  /\ TypeOK
  /\ RetryBudget
  /\ ConsumedOnce
  /\ OperationalIsConsumed
  /\ Untouched
  /\ Sane

LEMMA BackoffPositive == ASSUME NEW n \in Nat \ {0} PROVE Backoff(n) \in Nat \ {0}
  BY DEF Backoff

LEMMA CapPositive == ASSUME NEW t \in Nat \ {0} PROVE Cap(t) \in Nat \ {0}
  BY OutboxAssumption DEF Cap

LEMMA InitInv == Init => IInv
  BY OutboxAssumption
  DEF Init, IInv, TypeOK, RetryBudget, ConsumedOnce, OperationalIsConsumed, Untouched, Sane,
      Statuses, Vias, Unscheduled, NoCopy

LEMMA StepInv == IInv /\ [Next]_vars => IInv'
<1> SUFFICES ASSUME IInv, [Next]_vars PROVE IInv'
  OBVIOUS
<1> USE OutboxAssumption DEF IInv, Statuses, Vias, Unscheduled
<1>1. CASE Tick
  BY <1>1 DEF Tick, TypeOK, RetryBudget, ConsumedOnce, OperationalIsConsumed, Untouched, Sane
<1>2. ASSUME NEW e \in Events, Publish(e) PROVE IInv'
  BY <1>2 DEF Publish, TypeOK, RetryBudget, ConsumedOnce, OperationalIsConsumed, Untouched, Sane
<1>3. ASSUME NEW w \in Workers, StartDispatch(w) PROVE IInv'
  <2>1. FirstOf(Listed(w)) \in SUBSET Events
    BY DEF FirstOf, Listed
  <2>2. TypeOK' /\ Sane'
    BY <1>3, <2>1 DEF StartDispatch, TypeOK, Sane
  <2>3. QED
    BY <1>3, <2>2 DEF StartDispatch, RetryBudget, ConsumedOnce, OperationalIsConsumed, Untouched
<1>4. ASSUME NEW w \in Workers, NEW e \in Events, SkipRow(w, e) PROVE IInv'
  BY <1>4 DEF SkipRow, TypeOK, RetryBudget, ConsumedOnce, OperationalIsConsumed, Untouched, Sane
<1>5. ASSUME NEW w \in Workers, NEW e \in Events, SendRow(w, e) PROVE IInv'
  <2>1. status[e] = "PENDING" /\ consumed[e] = 0
    BY <1>5 DEF SendRow, StillDue, TypeOK, ConsumedOnce, Untouched
  <2>2. TypeOK' /\ Sane'
    BY <1>5 DEF SendRow, TypeOK, Sane
  <2>3. RetryBudget' /\ Untouched'
    BY <1>5 DEF SendRow, TypeOK, RetryBudget, Untouched
  <2>4. ConsumedOnce'
    BY <1>5, <2>1 DEF SendRow, TypeOK, ConsumedOnce
  <2>5. OperationalIsConsumed'
    BY <1>5 DEF SendRow, StillDue, Admissible, TypeOK, OperationalIsConsumed
  <2>6. QED
    BY <2>2, <2>3, <2>4, <2>5
<1>6. ASSUME NEW w \in Workers, NEW e \in Events, RetryRow(w, e) PROVE IInv'
  <2>1. status[e] = "PENDING" /\ attempts[e] + 1 \in Nat \ {0} /\ clock[w] \in Nat
    BY <1>6 DEF RetryRow, StillDue, TypeOK
  <2>2. Backoff(attempts[e] + 1) \in Nat \ {0}
    BY <2>1, BackoffPositive
  <2>3. Cap(clock[w] + Backoff(attempts[e] + 1)) \in Nat \ {0}
    BY <2>1, <2>2, CapPositive
  <2>4. TypeOK'
    BY <1>6, <2>3 DEF RetryRow, TypeOK
  <2>8. Sane'
    <3>1. \A f \in Events : status'[f] = "ABSENT" => status[f] = "ABSENT"
      BY <1>6, <2>1 DEF RetryRow, TypeOK
    <3>2. QED
      BY <1>6, <3>1 DEF RetryRow, TypeOK, Sane
  <2>5. RetryBudget'
    BY <1>6, <2>1, <2>3 DEF RetryRow, Exhausted, TypeOK, RetryBudget
  <2>6. ConsumedOnce' /\ OperationalIsConsumed' /\ Untouched'
    BY <1>6, <2>1 DEF RetryRow, TypeOK, ConsumedOnce, OperationalIsConsumed, Untouched
  <2>7. QED
    BY <2>4, <2>8, <2>5, <2>6
<1>7. ASSUME NEW w \in Workers, Crash(w) PROVE IInv'
  BY <1>7 DEF Crash, TypeOK, RetryBudget, ConsumedOnce, OperationalIsConsumed, Untouched, Sane
<1>8. ASSUME NEW o \in Operators, NEW e \in Events, MarkSentLoad(o, e) PROVE IInv'
  <2>1. TypeOK'
    BY <1>8 DEF MarkSentLoad, TypeOK
  <2>2. Sane'
    BY <1>8 DEF MarkSentLoad, TypeOK, Sane
  <2>3. QED
    BY <1>8, <2>1, <2>2
    DEF MarkSentLoad, RetryBudget, ConsumedOnce, OperationalIsConsumed, Untouched
<1>9. ASSUME NEW o \in Operators, NEW e \in Events, MarkSentSave(o, e) PROVE IInv'
  <2>1. copy[o] \in [event : Events, attempts : Nat] /\ status[e] # "ABSENT"
    BY <1>9 DEF MarkSentSave, TypeOK, Sane
  <2>2. TypeOK'
    BY <1>9, <2>1 DEF MarkSentSave, TypeOK
  <2>3. Sane'
    BY <1>9, <2>1 DEF MarkSentSave, TypeOK, Sane
  <2>4. RetryBudget' /\ Untouched'
    BY <1>9 DEF MarkSentSave, TypeOK, RetryBudget, Untouched
  <2>5. ConsumedOnce' /\ OperationalIsConsumed'
    BY <1>9 DEF MarkSentSave, TypeOK, ConsumedOnce, OperationalIsConsumed
  <2>6. QED
    BY <2>2, <2>3, <2>4, <2>5
<1>10. CASE UNCHANGED vars
  BY <1>10 DEF vars, TypeOK, RetryBudget, ConsumedOnce, OperationalIsConsumed, Untouched, Sane
<1>11. QED
  BY <1>1, <1>2, <1>3, <1>4, <1>5, <1>6, <1>7, <1>8, <1>9, <1>10 DEF Next

\* The inductive invariant of the outbox: whatever the number of overlapping
\* dispatches and operators, every conjunct of IInv holds of every reachable state.
THEOREM Inductive == Spec => []IInv
  BY InitInv, StepInv, PTL DEF Spec

\* The row, the lists and the copies keep the types of their columns: statuses and attempts
\* stay in range whatever dispatches and operators do (OutboxEvent).
THEOREM TypeCorrect == Spec => []TypeOK
<1>1. IInv => TypeOK
  BY DEF IInv
<1>2. QED
  BY <1>1, Inductive, PTL

\* Every row keeps its retry budget: a dead letter used exactly MaxAttempts attempts
\* and a waiting row never exceeds them (mark_outbox_event_retry).
THEOREM RetryBudgetHolds == Spec => []RetryBudget
<1>1. IInv => RetryBudget
  BY DEF IInv
<1>2. QED
  BY <1>1, Inductive, PTL

\* The accounting consumer's effect commits at most once per outbox row, however the
\* dispatches overlap (the re-check under select_for_update).
THEOREM ConsumedOnceHolds == Spec => []ConsumedOnce
<1>1. IInv => ConsumedOnce
  BY DEF IInv
<1>2. QED
  BY <1>1, Inductive, PTL

\* No dispatch without a consumer closes an operational contract silently.
THEOREM OperationalIsConsumedHolds == Spec => []OperationalIsConsumed
<1>1. IInv => OperationalIsConsumed
  BY DEF IInv
<1>2. QED
  BY <1>1, Inductive, PTL

\* SENT is final: no dispatch and no operator reopens a row that was closed.
THEOREM SentIsFinalHolds == Spec => SentIsFinal
<1>1. IInv /\ [Next]_vars => [\A e \in Events : status[e] = "SENT" => status'[e] = "SENT"]_vars
  <2> SUFFICES ASSUME IInv, Next, NEW e \in Events, status[e] = "SENT"
               PROVE status'[e] = "SENT"
    OBVIOUS
  <2>1. ASSUME NEW w \in Workers, NEW f \in Events, SendRow(w, f) \/ RetryRow(w, f)
        PROVE status'[e] = "SENT"
    BY <2>1 DEF SendRow, RetryRow, StillDue, IInv, TypeOK
  <2>2. ASSUME NEW o \in Operators, NEW f \in Events, MarkSentSave(o, f)
        PROVE status'[e] = "SENT"
    BY <2>2 DEF MarkSentSave, IInv, TypeOK
  <2>3. ASSUME NEW f \in Events, Publish(f)
        PROVE status'[e] = "SENT"
    BY <2>3 DEF Publish, IInv, TypeOK
  <2>4. QED
    BY <2>1, <2>2, <2>3 DEF Next, Tick, StartDispatch, SkipRow, Crash, MarkSentLoad
<1>2. QED
  BY <1>1, Inductive, PTL DEF Spec, SentIsFinal

\* An attempt is made only on a row that was due, so one backoff window costs one
\* attempt even when several dispatches hold the row in their lists.
THEOREM BackoffRespectedHolds == Spec => BackoffRespected
<1> DEFINE Tried(e) == status[e] = "PENDING" /\ attempts'[e] # attempts[e] /\ via'[e] # "manual"
           Spaced == \A e \in Events : Tried(e) => next[e] <= now
<1>1. IInv /\ [Next]_vars => [Spaced]_vars
  <2> SUFFICES ASSUME IInv, Next, NEW e \in Events, Tried(e)
               PROVE next[e] <= now
    OBVIOUS
  <2>1. ASSUME NEW w \in Workers, NEW f \in Events, SendRow(w, f) \/ RetryRow(w, f)
        PROVE next[e] <= now
    <3>1. f = e
      BY <2>1 DEF SendRow, RetryRow, IInv, TypeOK
    <3>2. next[e] <= clock[w] /\ clock[w] <= now
      BY <2>1, <3>1 DEF SendRow, RetryRow, StillDue, IInv, Sane
    <3>3. QED
      BY <3>2 DEF IInv, TypeOK
  <2>2. ASSUME NEW o \in Operators, NEW f \in Events, MarkSentSave(o, f)
        PROVE FALSE
    <3>1. via[e] = "none"
      BY DEF IInv, Untouched, TypeOK
    <3>2. f = e
      BY <2>2 DEF MarkSentSave, IInv, TypeOK
    <3>3. QED
      BY <2>2, <3>1, <3>2 DEF MarkSentSave, IInv, TypeOK
  <2>3. QED
    BY <2>1, <2>2
    DEF Next, Tick, Publish, StartDispatch, SkipRow, Crash, MarkSentLoad
<1>2. QED
  BY <1>1, Inductive, PTL DEF Spec, BackoffRespected

\* The dispatcher implements the contract: every step of it is, for each row, a step of
\* OutboxContract or no step at all.
THEOREM Refinement == Spec => ImplementsContract
<1> DEFINE f == [e \in Events |-> Fate(e)]
<1>1. Init => Contract!Init
  BY DEF Init, Contract!Init, Fate
<1>2. IInv /\ [Next]_vars => [Contract!Next]_f
  <2> SUFFICES ASSUME IInv, [Next]_vars PROVE [Contract!Next]_f
    OBVIOUS
  <2> USE DEF Contract!Next, Contract!Accept, Contract!HandOver, Contract!Bury, Contract!Dismiss,
              Contract!Becomes
  <2>a. ASSUME NEW e \in Events, \A g \in Events \ {e} : Fate(g)' = Fate(g)
        PROVE f' = [f EXCEPT ![e] = Fate(e)']
    BY <2>a
  <2>b. ASSUME NEW e \in Events,
               \A g \in Events \ {e} : status'[g] = status[g] /\ via'[g] = via[g]
        PROVE \A g \in Events \ {e} : Fate(g)' = Fate(g)
    BY <2>b DEF Fate
  <2>1. CASE UNCHANGED <<status, via>>
    BY <2>1 DEF Fate
  <2>2. ASSUME NEW e \in Events, Publish(e) PROVE Contract!Accept(e)
    <3>1. Fate(e) = "absent" /\ Fate(e)' = "queued"
      BY <2>2 DEF Publish, Fate, IInv, TypeOK
    <3>2. \A g \in Events \ {e} : status'[g] = status[g] /\ via'[g] = via[g]
      BY <2>2 DEF Publish, IInv, TypeOK
    <3>3. QED
      BY <2>a, <2>b, <3>1, <3>2
  <2>3. ASSUME NEW w \in Workers, NEW e \in Events, SendRow(w, e) PROVE Contract!HandOver(e)
    <3>1. status[e] = "PENDING" /\ status'[e] = "SENT" /\ via'[e] # "manual"
      BY <2>3 DEF SendRow, StillDue, IInv, TypeOK
    <3>2. Fate(e) = "queued" /\ Fate(e)' = "handed"
      BY <3>1 DEF Fate
    <3>3. \A g \in Events \ {e} : status'[g] = status[g] /\ via'[g] = via[g]
      BY <2>3 DEF SendRow, IInv, TypeOK
    <3>4. QED
      BY <2>a, <2>b, <3>2, <3>3
  <2>4. ASSUME NEW w \in Workers, NEW e \in Events, RetryRow(w, e)
        PROVE Contract!Bury(e) \/ f' = f
    <3>1. status[e] = "PENDING" /\ via' = via
      BY <2>4 DEF RetryRow, StillDue
    <3>2. \A g \in Events \ {e} : status'[g] = status[g] /\ via'[g] = via[g]
      BY <2>4 DEF RetryRow, IInv, TypeOK
    <3>3. CASE status' = [status EXCEPT ![e] = "FAILED"]
      <4>1. Fate(e) = "queued" /\ Fate(e)' = "dead"
        BY <3>1, <3>3 DEF Fate, IInv, TypeOK
      <4>2. QED
        BY <2>a, <2>b, <3>2, <4>1
    <3>4. CASE status' = [status EXCEPT ![e] = "PENDING"]
      <4>1. status' = status
        BY <3>1, <3>4 DEF IInv, TypeOK
      <4>2. QED
        BY <3>1, <4>1 DEF Fate
    <3>5. QED
      BY <2>4, <3>3, <3>4 DEF RetryRow
  <2>5. ASSUME NEW o \in Operators, NEW e \in Events, MarkSentSave(o, e)
        PROVE Contract!Dismiss(e) \/ f' = f
    <3>1. status[e] \in {"PENDING", "FAILED", "SENT"} /\ status'[e] = "SENT"
      BY <2>5 DEF MarkSentSave, IInv, TypeOK, Sane, Statuses
    <3>2. \A g \in Events \ {e} : status'[g] = status[g] /\ via'[g] = via[g]
      BY <2>5 DEF MarkSentSave, IInv, TypeOK
    <3>3. CASE status[e] = "SENT"
      <4>1. via[e] # "none"
        BY <3>3 DEF IInv, Untouched
      <4>2. status' = status /\ via' = via
        BY <2>5, <3>3, <4>1 DEF MarkSentSave, IInv, TypeOK
      <4>3. QED
        BY <4>2 DEF Fate
    <3>4. CASE status[e] # "SENT"
      <4>1. via[e] = "none" /\ via'[e] = "manual"
        BY <2>5, <3>4 DEF MarkSentSave, IInv, TypeOK, Untouched
      <4>2. Fate(e) \in {"queued", "dead"} /\ Fate(e)' = "dismissed"
        BY <3>1, <3>4, <4>1 DEF Fate
      <4>3. QED
        BY <2>a, <2>b, <3>2, <4>2
    <3>5. QED
      BY <3>3, <3>4
  <2>6. QED
    BY <2>1, <2>2, <2>3, <2>4, <2>5 DEF Next, vars, Tick, StartDispatch, SkipRow, Crash, MarkSentLoad
<1>3. QED
  BY <1>1, <1>2, Inductive, PTL DEF Spec, ImplementsContract, Contract!Spec
=============================================================================
