------------------------------- MODULE Outbox -------------------------------
(***************************************************************************)
(* The transactional outbox of the integration module and its dispatcher.  *)
(*                                                                         *)
(* Business code inserts OutboxEvent rows.  Scheduled commands (workers)   *)
(* call dispatch_outbox_events: the list of due rows is read without any   *)
(* lock, then each row is locked, checked again, handed to the sender and  *)
(* marked in one transaction.  An operator may mark a row as sent by hand  *)
(* through OutboxMarkSentView, which reads and writes it without a lock.   *)
(*                                                                         *)
(* One transaction of the dispatcher is one step: it holds the row lock    *)
(* from its read to its commit, and a crash inside it rolls back.  Time is *)
(* counted in minutes, the unit of the backoff.                            *)
(***************************************************************************)
EXTENDS Integers, FiniteSets

CONSTANTS
  Events,          \* row ids; a smaller id occurred earlier
  Operational,     \* rows whose (module, type) accounting must consume
  Workers,         \* scheduled dispatch commands
  Consumes,        \* workers that pass the accounting sender
  AllowNoop,       \* workers started with --no-local-consumers
  Scope,           \* Scope[w]: rows that pass the source_module filter of w
  Limit,           \* rows a dispatch takes at most
  MaxAttempts,     \* attempts before a row goes to the dead letters
  Operators,       \* users of the mark-sent endpoint
  MaxTime          \* bound on the clock

ASSUME OutboxAssumption ==
  /\ Events \subseteq Nat \ {0}
  /\ Operational \subseteq Events
  /\ Consumes \subseteq Workers
  /\ AllowNoop \subseteq Workers
  /\ Scope \in [Workers -> SUBSET Events]
  /\ Limit \in Nat \ {0}
  /\ MaxAttempts \in Nat \ {0}
  /\ MaxTime \in Nat \ {0}

VARIABLES
  now,         \* the wall clock
  status,      \* status[e]: ABSENT until the row is inserted
  attempts,    \* attempts[e]: attempt_count
  next,        \* next[e]: next_attempt_at, Unscheduled when NULL
  via,         \* via[e]: how the row was sent (history)
  consumed,    \* consumed[e]: times the consumer's effect was committed
  rows,        \* rows[w]: ids the running dispatch of w has still to visit
  clock,       \* clock[w]: the instant that dispatch works with
  copy         \* copy[o]: the row instance an operator's request has loaded

vars == <<now, status, attempts, next, via, consumed, rows, clock, copy>>

Unscheduled == 0
NoCopy == [event |-> Unscheduled, attempts |-> 0]
Statuses == {"ABSENT", "PENDING", "SENT", "FAILED"}
Vias == {"none", "consumer", "noop", "forced", "manual"}

\* Times past the bound are kept at the bound, so that a row is always due again.
Cap(t) == IF t > MaxTime THEN MaxTime ELSE t
\* min(2^n, 60) minutes, tabulated.
Backoff(n) == IF n > 5 THEN 60 ELSE <<2, 4, 8, 16, 32>>[n]

TypeOK ==
  /\ now \in Nat
  /\ status \in [Events -> Statuses]
  /\ attempts \in [Events -> Nat]
  /\ next \in [Events -> Nat]
  /\ via \in [Events -> Vias]
  /\ consumed \in [Events -> Nat]
  /\ rows \in [Workers -> SUBSET Events]
  /\ clock \in [Workers -> Nat]
  /\ copy \in [Operators -> [event : Events, attempts : Nat] \cup {NoCopy}]

Init ==
  /\ now = 1
  /\ status = [e \in Events |-> "ABSENT"]
  /\ attempts = [e \in Events |-> 0]
  /\ next = [e \in Events |-> Unscheduled]
  /\ via = [e \in Events |-> "none"]
  /\ consumed = [e \in Events |-> 0]
  /\ rows = [w \in Workers |-> {}]
  /\ clock = [w \in Workers |-> 1]
  /\ copy = [o \in Operators |-> NoCopy]

-----------------------------------------------------------------------------
PublishReceived(e) ==
  /\ status[e] = "ABSENT"
  /\ status' = [status EXCEPT ![e] = "RECEIVED"]
  /\ UNCHANGED <<now, attempts, next, via, consumed, rows, clock, copy>>

\* publish_outbox_event: the row is inserted PENDING, with no attempt made.
Publish(e) ==
  /\ status[e] = "ABSENT"
  /\ \A f \in Events : f < e => status[f] # "ABSENT"
  /\ status' = [status EXCEPT ![e] = "PENDING"]
  /\ UNCHANGED <<now, attempts, next, via, consumed, rows, clock, copy>>

Tick ==
  /\ now < MaxTime
  /\ now' = now + 1
  /\ UNCHANGED <<status, attempts, next, via, consumed, rows, clock, copy>>

\* An operational contract goes only to a dispatch that may consume it.
Admissible(w, e) == w \in Consumes \/ w \in AllowNoop \/ e \notin Operational

\* The query for the due rows, without locks, and its first Limit rows.
ListedNeverTried(w) ==
  {e \in Scope[w] : status[e] = "PENDING" /\ next[e] = Unscheduled /\ Admissible(w, e)}
Listed(w) == {e \in Scope[w] : status[e] = "PENDING" /\ next[e] <= now /\ Admissible(w, e)}
FirstOf(S) == {e \in S : Cardinality({f \in S : f < e}) < Limit}

StartDispatch(w) ==
  /\ rows[w] = {}
  /\ Listed(w) # {}
  /\ rows' = [rows EXCEPT ![w] = FirstOf(Listed(w))]
  /\ clock' = [clock EXCEPT ![w] = now]
  /\ UNCHANGED <<now, status, attempts, next, via, consumed, copy>>

\* The loop visits the listed ids in order.
Visits(w, e) == e \in rows[w] /\ \A f \in rows[w] : e <= f

\* The re-check under the row lock, with the instant the dispatch began at.
StillDueUnchecked(w, e) == Admissible(w, e)
StillDueAnyTime(w, e) == status[e] = "PENDING" /\ Admissible(w, e)
StillDue(w, e) == status[e] = "PENDING" /\ next[e] <= clock[w] /\ Admissible(w, e)

SkipRow(w, e) ==
  /\ Visits(w, e)
  /\ ~StillDue(w, e)
  /\ rows' = [rows EXCEPT ![w] = @ \ {e}]
  /\ UNCHANGED <<now, status, attempts, next, via, consumed, clock, copy>>

\* publish_fn returned: the consumer's effect and mark_outbox_event_sent commit together.
SendRow(w, e) ==
  /\ Visits(w, e)
  /\ StillDue(w, e)
  /\ rows' = [rows EXCEPT ![w] = @ \ {e}]
  /\ status' = [status EXCEPT ![e] = "SENT"]
  /\ attempts' = [attempts EXCEPT ![e] = @ + 1]
  /\ next' = [next EXCEPT ![e] = Unscheduled]
  /\ consumed' = [consumed EXCEPT ![e] = IF w \in Consumes THEN @ + 1 ELSE @]
  /\ via' = [via EXCEPT ![e] = IF w \in Consumes THEN "consumer"
                               ELSE IF w \in AllowNoop THEN "forced" ELSE "noop"]
  /\ UNCHANGED <<now, clock, copy>>

Exhausted(e) == attempts[e] + 1 >= MaxAttempts

\* publish_fn raised: mark_outbox_event_retry.  The no-op sender never raises.
RetryRow(w, e) ==
  /\ Visits(w, e)
  /\ StillDue(w, e)
  /\ w \in Consumes
  /\ rows' = [rows EXCEPT ![w] = @ \ {e}]
  /\ attempts' = [attempts EXCEPT ![e] = @ + 1]
  /\ IF Exhausted(e)
       THEN /\ status' = [status EXCEPT ![e] = "FAILED"]
            /\ next' = [next EXCEPT ![e] = Unscheduled]
       ELSE /\ status' = [status EXCEPT ![e] = "PENDING"]
            /\ next' = [next EXCEPT ![e] = Cap(clock[w] + Backoff(attempts[e] + 1))]
  /\ UNCHANGED <<now, via, consumed, clock, copy>>

\* The process dies, or a transaction aborts the loop: nothing of the open
\* transaction stays and the rest of the list is forgotten.
Crash(w) ==
  /\ rows[w] # {}
  /\ rows' = [rows EXCEPT ![w] = {}]
  /\ UNCHANGED <<now, status, attempts, next, via, consumed, clock, copy>>

\* OutboxMarkSentView: load the row, then save five of its columns from that copy.
MarkSentLoad(o, e) ==
  /\ copy[o] = NoCopy
  /\ status[e] # "ABSENT"
  /\ attempts[e] <= MaxAttempts     \* bound on repeated marks by hand
  /\ copy' = [copy EXCEPT ![o] = [event |-> e, attempts |-> attempts[e]]]
  /\ UNCHANGED <<now, status, attempts, next, via, consumed, rows, clock>>

MarkSentSave(o, e) ==
  /\ copy[o] # NoCopy
  /\ e = copy[o].event
  /\ status' = [status EXCEPT ![e] = "SENT"]
  /\ attempts' = [attempts EXCEPT ![e] = copy[o].attempts + 1]
  /\ next' = [next EXCEPT ![e] = Unscheduled]
  /\ via' = [via EXCEPT ![e] = IF @ = "none" THEN "manual" ELSE @]
  /\ copy' = [copy EXCEPT ![o] = NoCopy]
  /\ UNCHANGED <<now, consumed, rows, clock>>

DispatchRow(w) == \E e \in Events : SkipRow(w, e) \/ SendRow(w, e) \/ RetryRow(w, e)

Next ==
  \/ Tick
  \/ \E e \in Events : Publish(e)
  \/ \E w \in Workers : StartDispatch(w)
  \/ \E w \in Workers, e \in Events : SkipRow(w, e)
  \/ \E w \in Workers, e \in Events : SendRow(w, e)
  \/ \E w \in Workers, e \in Events : RetryRow(w, e)
  \/ \E w \in Workers : Crash(w)
  \/ \E o \in Operators, e \in Events : MarkSentLoad(o, e)
  \/ \E o \in Operators, e \in Events : MarkSentSave(o, e)

Spec == Init /\ [][Next]_vars

\* The cron entries of the accounting workers keep starting them, time passes, and
\* a worker is not killed every single time before it finishes a row.
Fairness ==
  /\ WF_vars(Tick)
  /\ \A w \in Consumes : WF_vars(StartDispatch(w)) /\ SF_vars(DispatchRow(w))

FairSpec == Spec /\ Fairness

-----------------------------------------------------------------------------
\* A row waiting for delivery still has attempts left, and it carries a schedule
\* exactly when an attempt has failed; a dead letter used up all its attempts
\* (mark_outbox_event_retry, whatever dispatches overlap).
RetryBudget ==
  \A e \in Events :
    /\ status[e] = "PENDING" => /\ attempts[e] < MaxAttempts
                                /\ (next[e] = Unscheduled) <=> (attempts[e] = 0)
    /\ status[e] = "FAILED" => attempts[e] = MaxAttempts

\* The consumer's effect commits at most once per row, and only with its SENT mark,
\* although overlapping dispatches listed the row from the same unlocked read.
ConsumedOnce ==
  \A e \in Events :
    /\ consumed[e] <= 1
    /\ (consumed[e] = 1) <=> (via[e] = "consumer")
    /\ via[e] = "consumer" => status[e] = "SENT"

\* An operational contract is never closed by a dispatch that had no consumer for
\* it, unless the operator asked for exactly that with --no-local-consumers.
OperationalIsConsumed ==
  \A e \in Operational : via[e] # "noop"

\* SENT is final: no dispatch working from an old list reopens a row that another
\* dispatch or an operator has already closed.
SentIsFinal ==
  [][\A e \in Events : status[e] = "SENT" => status'[e] = "SENT"]_vars

\* An attempt is made on a row only once its schedule is due, so two dispatches that
\* listed the same row cannot spend two attempts within one backoff window (a mark by
\* hand needs no schedule).
BackoffRespected ==
  [][\A e \in Events :
       status[e] = "PENDING" /\ attempts'[e] # attempts[e] /\ via'[e] # "manual"
         => next[e] <= now]_vars

\* Every row in the scope of an accounting worker is eventually sent or buried.
EventuallySettled ==
  \A w \in Consumes : \A e \in Scope[w] :
    status[e] = "PENDING" ~> status[e] \in {"SENT", "FAILED"}

\* What the rest of the system is promised about a row, see OutboxContract.
Fate(e) ==
  CASE status[e] = "ABSENT" -> "absent"
    [] status[e] = "PENDING" -> "queued"
    [] status[e] = "FAILED" -> "dead"
    [] status[e] = "SENT" /\ via[e] = "manual" -> "dismissed"
    [] status[e] = "SENT" /\ via[e] # "manual" -> "handed"

Contract == INSTANCE OutboxContract WITH fate <- [e \in Events |-> Fate(e)]

\* The dispatcher implements the contract of one life per row.
ImplementsContract == Contract!Spec
=============================================================================
