---------------------------- MODULE Intercompany ----------------------------
(***************************************************************************)
(* Transactions between two companies of a group: created by one, confirmed *)
(* or reconciled with the other, disputed, settled and closed, by requests  *)
(* and by the job that runs every five minutes.                             *)
(*                                                                         *)
(* Each operation on a transaction locks its row and is one step, but a     *)
(* dispute, a settlement and the job put several of them in a row and work  *)
(* in between with what they read before.  Grants, segregation of duties    *)
(* and evidence are verdicts: an operation refused for them is not a step,  *)
(* and a request may end after any of its transactions.  The companies'     *)
(* amounts are in cents.                                                    *)
(***************************************************************************)
EXTENDS Integers, FiniteSets

CONSTANTS
  Transactions,   \* ids of intercompany transactions, in order of creation
  Cases,          \* ids of dispute cases
  Requests,       \* requests that take several transactions
  Amount,         \* amount of a transaction
  Offers,         \* amounts that a reconciliation or an entry may state
  Limit,          \* transactions a cycle takes at most
  MaxCrashes      \* bound: jobs that die

ASSUME IntercompanyAssumption ==
  /\ Transactions \subseteq Nat
  /\ Amount \in Nat \ {0} /\ Offers \subseteq Nat \ {0}
  /\ Limit \in Nat \ {0} /\ MaxCrashes \in Nat

VARIABLES
  tx,        \* tx[t]: the transaction's row
  case,      \* case[c]: the dispute case's row
  open,      \* open[t]: blocking exceptions of t are open
  request,   \* request[r]: what the request does next
  job,       \* the job of the schedule: its stage and the copies it has still to visit
  waived,    \* transactions closed with allow_difference (history)
  crashes    \* jobs that died (history)

vars == <<tx, case, open, request, job, waived, crashes>>

Statuses == {"PENDING", "CONFIRMED", "DIFFERENCE", "DISPUTED", "CLOSED"}
Active == {"OPEN", "UNDER_REVIEW", "APPROVED"}
Reviews == {"UNDER_REVIEW", "APPROVED", "REJECTED", "CANCELLED"}
NoTx == [status |-> "ABSENT"]
NoCase == [status |-> "ABSENT"]
Idle == [next |-> "NOTHING"]
NoJob == [stage |-> "IDLE", rows |-> {}]
Amounts == Offers \cup {0, Amount}
TxRows == [status : Statuses, source : Amounts, target : Amounts, entry : Offers \cup {0}, own : BOOLEAN]
CaseRows == [on : Transactions, status : Active \cup Reviews \cup {"SETTLED"}]
Doing ==
  [next : {"FIND", "RESOLVE"}, on : Transactions]
    \cup [next : {"SAVE"}, on : Transactions, found : SUBSET Cases]
    \cup [next : {"CLOSE"}, on : Transactions, allow : BOOLEAN]
Copies == [id : Transactions, status : Statuses, against : Amounts, paired : BOOLEAN]
Running ==
  [stage : {"CYCLE", "SLA"}, rows : SUBSET Copies]
    \cup [stage : {"CLOSING"}, rows : SUBSET Copies, on : Transactions]

TypeOK ==
  /\ tx \in [Transactions -> TxRows \cup {NoTx}]
  /\ case \in [Cases -> CaseRows \cup {NoCase}]
  /\ open \in [Transactions -> BOOLEAN]
  /\ request \in [Requests -> Doing \cup {Idle}]
  /\ job \in Running \cup {NoJob}
  /\ waived \subseteq Transactions
  /\ crashes \in Nat

Init ==
  /\ tx = [t \in Transactions |-> NoTx]
  /\ case = [c \in Cases |-> NoCase]
  /\ open = [t \in Transactions |-> FALSE]
  /\ request = [r \in Requests |-> Idle]
  /\ job = NoJob
  /\ waived = {}
  /\ crashes = 0

-----------------------------------------------------------------------------
Row(status, source, target, entry, own) ==
  [status |-> status, source |-> source, target |-> target, entry |-> entry, own |-> own]

\* create_intercompany_transaction, with an entry of its own or not, and with the entry
\* of the counterpart or not (0).
Create(t, own, entry) ==
  /\ tx[t] = NoTx
  /\ \A u \in Transactions : u < t => tx[u] # NoTx
  /\ tx' = [tx EXCEPT ![t] = Row("PENDING", Amount, 0, entry, own)]
  /\ UNCHANGED <<case, open, request, job, waived, crashes>>

\* _ALLOWED_TRANSITIONS and can_transition_to: a status may always be written again.
Transitions ==
  {<<"PENDING", "CONFIRMED">>, <<"PENDING", "DIFFERENCE">>, <<"PENDING", "DISPUTED">>,
   <<"PENDING", "CLOSED">>, <<"CONFIRMED", "DIFFERENCE">>, <<"CONFIRMED", "DISPUTED">>,
   <<"CONFIRMED", "CLOSED">>, <<"DIFFERENCE", "CONFIRMED">>, <<"DIFFERENCE", "DISPUTED">>,
   <<"DIFFERENCE", "CLOSED">>, <<"DISPUTED", "CONFIRMED">>, <<"DISPUTED", "CLOSED">>}
Transits(from, to) == from = to \/ <<from, to>> \in Transitions
Allowed(t, status) == tx[t] # NoTx /\ Transits(tx[t].status, status)

\* confirm_intercompany_transaction: both sides have the amount; an entry may be attached.
Confirm(t, entry) ==
  /\ Allowed(t, "CONFIRMED")
  /\ LET attached == IF entry = 0 THEN tx[t].entry ELSE entry IN
       tx' = [tx EXCEPT ![t] = Row("CONFIRMED", Amount, Amount, attached, @.own)]
  /\ open' = [open EXCEPT ![t] = FALSE]
  /\ UNCHANGED <<case, request, job, waived, crashes>>

\* reconcile_intercompany_transaction: a cent is tolerated.
Apart(s, g) == IF s > g THEN s - g ELSE g - s
Found(s, g) == IF Apart(s, g) <= 1 THEN "CONFIRMED" ELSE "DIFFERENCE"
Stated(t, s, g, status) ==
  /\ tx' = [tx EXCEPT ![t] = Row(status, s, g, @.entry, @.own)]
  /\ open' = [open EXCEPT ![t] = status # "CONFIRMED"]
Reconciled(t, s, g, status) == Allowed(t, status) /\ Stated(t, s, g, status)

Reconcile(t, s, g) ==
  /\ Reconciled(t, s, g, Found(s, g))
  /\ UNCHANGED <<case, request, job, waived, crashes>>

-----------------------------------------------------------------------------
\* close_intercompany_transaction; its cases are settled with it.
ActiveOn(t) == {c \in Cases : case[c].status \in Active /\ case[c].on = t}
SettledAsClosed(t) ==
  case' = [c \in Cases |-> IF c \in ActiveOn(t) THEN [case[c] EXCEPT !.status = "CLOSED"]
                                                 ELSE case[c]]
Settled(t) ==
  case' = [c \in Cases |-> IF c \in ActiveOn(t) THEN [case[c] EXCEPT !.status = "SETTLED"]
                                                 ELSE case[c]]
ClosableUnread(t, allow) == tx[t] # NoTx /\ tx[t].status # "CLOSED"
Closable(t, allow) ==
  \/ tx[t].status = "CONFIRMED"
  \/ allow /\ tx[t].status \in {"DIFFERENCE", "DISPUTED"}
Closed(t, allow) ==
  /\ tx' = [tx EXCEPT ![t].status = "CLOSED"]
  /\ open' = [open EXCEPT ![t] = FALSE]
  /\ waived' = IF allow THEN waived \cup {t} ELSE waived
  /\ Settled(t)

Close(t, allow) ==
  /\ Closable(t, allow)
  /\ Closed(t, allow)
  /\ UNCHANGED <<request, job, crashes>>

-----------------------------------------------------------------------------
\* dispute_intercompany_transaction: the transaction is disputed, then the active case
\* is looked up, and then it is saved as open or a new one is inserted.
Continues(r, next) == request' = [request EXCEPT ![r] = next]
Ends(r) == Continues(r, Idle)
Dispute(r, t, s, g) ==
  /\ request[r] = Idle
  /\ Reconciled(t, s, g, "DISPUTED")
  /\ Continues(r, [next |-> "FIND", on |-> t])
  /\ UNCHANGED <<case, job, waived, crashes>>

DisputeFinds(r) ==
  /\ request[r].next = "FIND"
  /\ Continues(r, [next |-> "SAVE", on |-> request[r].on, found |-> ActiveOn(request[r].on)])
  /\ UNCHANGED <<tx, case, open, job, waived, crashes>>

\* A transaction has one active case at most, by a constraint.
DisputeSaves(r) ==
  /\ request[r].next = "SAVE"
  /\ \E c \in Cases :
       /\ IF request[r].found = {} THEN case[c] = NoCase ELSE c \in request[r].found
       /\ ActiveOn(request[r].on) \subseteq {c}
       /\ case' = [case EXCEPT ![c] = [on |-> request[r].on, status |-> "OPEN"]]
  /\ Ends(r)
  /\ UNCHANGED <<tx, open, job, waived, crashes>>

\* settle_intercompany_transaction: reconciled without tolerance, then closed if it was
\* confirmed, then what is left of its case is settled.
Settle(r, t, s, g, closes, allow) ==
  LET status == IF s = g THEN "CONFIRMED" ELSE "DISPUTED" IN
    /\ request[r] = Idle
    /\ Reconciled(t, s, g, status)
    /\ IF closes /\ status = "CONFIRMED" THEN Continues(r, [next |-> "CLOSE", on |-> t, allow |-> allow])
       ELSE UNCHANGED request
    /\ UNCHANGED <<case, job, waived, crashes>>

SettleCloses(r) ==
  /\ request[r].next = "CLOSE"
  /\ Closable(request[r].on, request[r].allow)
  /\ Closed(request[r].on, request[r].allow)
  /\ Continues(r, [next |-> "RESOLVE", on |-> request[r].on])
  /\ UNCHANGED <<job, crashes>>

SettleResolves(r) ==
  /\ request[r].next = "RESOLVE"
  /\ Settled(request[r].on)
  /\ Ends(r)
  /\ UNCHANGED <<tx, open, job, waived, crashes>>

\* The rest is refused, or the request dies.
GivesUp(r) == request[r] # Idle /\ Ends(r) /\ UNCHANGED <<tx, case, open, job, waived, crashes>>

\* review_intercompany_dispute_case, whatever the case's status is.
Review(c, action) ==
  /\ case[c] # NoCase
  /\ action \in Active => ActiveOn(case[c].on) \subseteq {c}
  /\ case' = [case EXCEPT ![c].status = action]
  /\ UNCHANGED <<tx, open, request, job, waived, crashes>>

\* A person resolves the last open exception of t.
Excuse(t) ==
  /\ open[t]
  /\ open' = [open EXCEPT ![t] = FALSE]
  /\ UNCHANGED <<tx, case, request, job, waived, crashes>>

-----------------------------------------------------------------------------
\* run_phase11_intercompany_cycle: first run_intercompany_cycle with the oldest
\* transactions that are not confirmed, each against the amount of the counterpart's
\* entry or else the one last stated, then enforce_intercompany_sla.
Copy(t) ==
  [id |-> t, status |-> tx[t].status,
   against |-> IF tx[t].entry # 0 THEN tx[t].entry ELSE tx[t].target,
   paired |-> tx[t].own /\ tx[t].entry # 0]
Existing == {t \in Transactions : tx[t] # NoTx}
Unconfirmed == {t \in Existing : tx[t].status \in {"PENDING", "DIFFERENCE", "DISPUTED"}}
FirstOf(S) == {t \in S : Cardinality({u \in S : u < t}) < Limit}
CycleStarts ==
  /\ job = NoJob
  /\ job' = [stage |-> "CYCLE", rows |-> {Copy(t) : t \in FirstOf(Unconfirmed)}]
  /\ UNCHANGED <<tx, case, open, request, waived, crashes>>

\* A transaction without an amount to compare, whose transition is refused or to which
\* the company has no grant is an incidence of the report, and the next one is visited.
Visits(c) == c \in job.rows /\ \A d \in job.rows : c.id <= d.id
Left(c) == [stage |-> "CYCLE", rows |-> job.rows \ {c}]
After(c, status) ==
  IF status = "CONFIRMED" /\ c.paired
  THEN [stage |-> "CLOSING", rows |-> job.rows \ {c}, on |-> c.id]
  ELSE Left(c)
ComparedAsListed(c, status) ==
  /\ c.against # 0 /\ Transits(c.status, status)
  /\ Stated(c.id, Amount, c.against, status)
  /\ job' = After(c, status)
Compared(c, status) ==
  /\ c.against # 0
  /\ Reconciled(c.id, Amount, c.against, status)
  /\ job' = After(c, status)
CycleVisits ==
  /\ job.stage = "CYCLE"
  /\ \E c \in job.rows :
       /\ Visits(c)
       /\ \/ Compared(c, Found(Amount, c.against))
          \/ UNCHANGED <<tx, open>> /\ job' = Left(c)
  /\ UNCHANGED <<case, request, waived, crashes>>

CycleCloses ==
  /\ job.stage = "CLOSING"
  /\ Closable(job.on, FALSE)
  /\ Closed(job.on, FALSE)
  /\ job' = [stage |-> "CYCLE", rows |-> job.rows]
  /\ UNCHANGED <<request, crashes>>

\* A close that is refused, because the transaction is no longer confirmed or for want of
\* a grant, is not caught: the command ends there, before the terms are looked at.
CycleBreaks ==
  /\ job.stage = "CLOSING"
  /\ job' = NoJob
  /\ UNCHANGED <<tx, case, open, request, waived, crashes>>

\* enforce_intercompany_sla over copies of all transactions: one out of its term gets an
\* exception, any other has all of its exceptions resolved.
SlaStarts ==
  /\ job.stage = "CYCLE" /\ job.rows = {}
  /\ job' = IF Existing = {} THEN NoJob ELSE [stage |-> "SLA", rows |-> {Copy(t) : t \in Existing}]
  /\ UNCHANGED <<tx, case, open, request, waived, crashes>>

SlaVisits(t) ==
  /\ job.stage = "SLA"
  /\ \E c \in job.rows, late \in BOOLEAN :
       /\ c.id = t
       /\ open' = [open EXCEPT ![t] = late /\ c.status # "CLOSED"]
       /\ job' = IF job.rows = {c} THEN NoJob ELSE [stage |-> "SLA", rows |-> job.rows \ {c}]
  /\ UNCHANGED <<tx, case, request, waived, crashes>>

JobDies ==
  /\ job # NoJob
  /\ crashes < MaxCrashes     \* bound
  /\ crashes' = crashes + 1
  /\ job' = NoJob
  /\ UNCHANGED <<tx, case, open, request, waived>>

-----------------------------------------------------------------------------
Asks(t) ==
  \/ \E own \in BOOLEAN, entry \in Offers \cup {0} : Create(t, own, entry)
  \/ \E entry \in Offers \cup {0} : Confirm(t, entry)
  \/ \E s, g \in Offers : Reconcile(t, s, g)
  \/ \E allow \in BOOLEAN : Close(t, allow)
  \/ Excuse(t)
Serves(r) ==
  \/ \E t \in Transactions, s, g \in Offers :
       \/ Dispute(r, t, s, g)
       \/ \E closes, allow \in BOOLEAN : Settle(r, t, s, g, closes, allow)
  \/ DisputeFinds(r) \/ DisputeSaves(r) \/ SettleCloses(r) \/ SettleResolves(r) \/ GivesUp(r)
Next ==
  \/ \E t \in Transactions : Asks(t)
  \/ \E r \in Requests : Serves(r)
  \/ \E c \in Cases, action \in Reviews : Review(c, action)
  \/ CycleStarts \/ CycleVisits \/ CycleCloses \/ CycleBreaks \/ SlaStarts \/ JobDies
  \/ \E t \in Transactions : SlaVisits(t)

Spec == Init /\ [][Next]_vars

-----------------------------------------------------------------------------
\* A closed transaction has both sides within a cent of each other unless somebody waived
\* it: a settlement or a cycle closes what it confirmed in an earlier transaction, which
\* may be reconciled or disputed again in between (close_intercompany_transaction).
ClosedIsMatched ==
  \A t \in Existing : tx[t].status = "CLOSED" =>
    t \in waived \/ Apart(tx[t].source, tx[t].target) <= 1

\* Nothing a request or the job still holds of a transaction reaches it once it is closed:
\* a cycle reconciles, and a dispute or a settlement goes on, with what was read when the
\* transaction was open (_ensure_transition under the row's lock).
ClosedIsFinal ==
  [][\A t \in Existing : tx[t].status = "CLOSED" => tx'[t] = tx[t]]_vars
=============================================================================
