# Necktral: verification project

Necktral is an ERP for fuel stations and retail: a Django backend on PostgreSQL
(`src/backend/src`), a Vue client with an offline point of sale (`src/frontend`),
and scheduled commands that move events from the business modules into the general
ledger. This directory holds TLA+ models of the parts where several transactions,
workers, devices or people act at once, the TLC runs that check them on small
instances and the TLAPS proofs of what holds for every instance.

Every definition is translated from the source; `PROJECT.json` maps each one to its
lines. Paths below are relative to `src/backend/src/apps` unless they start with `src/`.

## How the system behaves under concurrency

Three facts of the code decide what can interleave, and every model rests on them.

* PostgreSQL runs at READ COMMITTED and there is no `ATOMIC_REQUESTS`. A transaction
  is what a `transaction.atomic()` block makes it; a view without one commits
  statement by statement.
* A row is protected only from `select_for_update()` to the commit. Much code reads a
  row without it, decides, and saves a few fields (`save(update_fields=...)`): the save
  waits for locks but never looks again. Where the code reads and then writes this way,
  the model has two steps with others in between; where it locks first, one step, or a
  session whose lock is a guard on the others.
* Uniqueness constraints serialise inserts: an insert of a key that another transaction
  is inserting waits for it.

A rolled back transaction, and a crash inside one, leaves nothing: the models have a
step for it only where something outside the transaction is lost or kept (a list, a
copy, a paper printed, an answer), or where being rolled back is itself the question
(`AuditChain`, `SyncCommands`, the deadlock of `Inventory`).

## Inventory

| component | state | operations | talks to |
|---|---|---|---|
| Outbox and dispatcher (`modulos/integration`) | `OutboxEvent`: status, attempts, next attempt | publish, dispatch, retry, bury, mark sent by hand | every module publishes; accounting consumes |
| Accounting kernel (`kernels/accounting`) | economic events, drafts, entries, periods, rule sets, inbox | link, project a close run, approve, post, reverse, close, reconcile, seed rules | called by publishers in their transaction, by the dispatcher, by commands and by people |
| Phase 7 and 7B (`phase7.py`, `phase7b.py`) | chart of accounts, entry lines, revaluation runs, intercompany transactions | build lines, revalue, confirm, reconcile, dispute, settle, consolidate | accounting |
| Sync engine (`modulos/sync_engine`) | `Device`, `AppliedCommand`, nonces, enrollment codes | enroll, batch, apply, revoke, quarantine | handlers call inventory and POS |
| Legacy sync (`modulos/sync`) | the same tables, demo commands | batch | sync engine |
| Audit trail (`modulos/audit`) | `AuditEvent` chain per partition, chain heads | write an event, verify a chain | called by everything |
| Billing (`kernels/facturacion`) | documents, sequences, print jobs, fiscal status | draft, issue, print, retry, contingency, void | inventory, outbox, accounting |
| Payments (`kernels/payments`) | payment intents, cash sessions and movements | open, move, close, capture, reverse | outbox |
| Retail POS (`modulos/retail_pos`) | sessions, tickets, compensation counters, edge connectors | open, check out, retry, void, handshake | fuel, payments, outbox |
| POS offline queue (`src/frontend/src/services/retail-pos-offline-queue.ts`) | commands in local storage | enqueue, drain | retail POS over HTTP |
| Fuel station (`modulos/estacion_servicios`) | shifts, dispenses, sales, compensation counters | open, dispense, sell, cancel, compensate | inventory, billing, outbox |
| Inventory (`kernels/inventarios`) | balances with average cost, movements | receive, issue, adjust, transfer | outbox, accounting |
| Procurement (`modulos/compras`) | purchase documents, sequences | draft, post, void | parties, outbox |
| Portfolio (`kernels/portfolio`) | obligations, allocations, accruals | create, adjust, allocate, write off, accrue | outbox |
| Close runs (`modulos/cec`) | runs, exceptions, manifests | create, execute, approve, deliver | reads the business tables, triggers projection |
| Reporting, dashboards (`kernels/reporting`, `modulos/dashboard`) | snapshots, runs, grants | execute, materialise, embed | read side |
| Accounts, IAM, RBAC, org, HR, parties (`modulos/...`) | users, sessions, roles, units, employees | CRUD, login, provisioning | a verdict to the others |

What makes them hard, and what makes them correct:

* **Outbox.** Overlapping scheduled runs share unlocked lists of due rows; a worker
  dies inside a row; a failing row must not starve others. Correct: one effect per row,
  one close, retries within their budget and spacing, everything settled in the end.
* **Accounting kernel.** Link, projector, approver, poster, reverser and closer write
  the same drafts under different locking habits. Correct: a posted draft has its
  entry, one reversal per entry, duties stay segregated, an unforced close misses nothing
  but what came after it began to look, and what the documents promise: nothing posted
  into a closed period, POSTED is the end of a draft's life, one entry per event (all
  three are broken, see below).
* **Sync engine.** Devices repeat what was not answered, batches overlap with stale
  copies of the device, a revocation comes in the middle. Correct: one effect and one
  final verdict per command, answers that agree with it, a blocked device stays so.
* **Audit trail.** Concurrent writers extend one chain per partition. Correct: the
  chain is one path from one genesis to the head, and the verifier accepts it.
* **Billing.** Printing and voiding lock the job and the document in opposite orders;
  print cycles work from lists read without a lock and overlap. Correct: numbers without
  gaps or repeats, a document that failed to print has a job that will try again, none
  is given up unseen, contingency has a reason, and what the code says of itself:
  nothing printed after it was voided (which a listed job breaks, see below).
* **Payments and POS.** A checkout is a saga over three kernels that keeps what it
  achieved, retried by requests that read the ticket before they lock it and by a cycle.
  Correct: a void gives back what the checkout took, every dispense is billed or was left
  by a counted failure, the compensation of a fuel sale ends, and what the code says of
  itself: a voided ticket is not checked out again.
* **POS offline queue.** Tabs share local storage without a lock, drain old snapshots and
  die. Correct: no queued ticket disappears unserved, except where two tabs update the
  queue over each other.
* **Inventory.** Keys are looked up before any lock and transfers lock two warehouses in
  no order; totals and averages are rounded. Correct: a key is one operation, and stock is
  worth what accounting was told, up to what the roundings lose.
* **Close runs and the projector.** Advances by hand save stale copies and publish later;
  projector cycles overlap, fail and are killed. Correct: what is said packaged has
  nothing open that blocks, and every trigger whose window can be projected is processed
  for good.
* **Intercompany.** Disputes, settlements and the job put several transactions in a row
  and work in between with what they read before. Correct: a closed transaction is
  matched or was waived, and nothing stale changes it again.
* **Portfolio.** `kernels/portfolio/models.py:194` reads `max_length=24,theory`: the
  module does not compile, and `src/backend/src/config/settings/base.py:255` installs it.
  There is no behaviour to be faithful to at this commit.

`PROJECT.json` lists the hazards at the line where each bites and the properties that
watch it. A hazard that none watches has a note that says why.

## The modules

### Outbox, OutboxContract

`Outbox` is the table of outbox rows, the scheduled commands (`Workers`) and the
operators of the mark-sent endpoint.

| code | model |
|---|---|
| `publish_outbox_event` | `Publish`: the row exists from the commit of the business transaction |
| `dispatch_outbox_events`, the query | `StartDispatch`: ids of the first `Limit` due rows, and the clock the whole dispatch uses |
| the loop: lock, check again, call the sender, mark | `SkipRow`, `SendRow`, `RetryRow`: one step, since the lock is held from the read to the commit |
| `mark_outbox_event_retry` | `Exhausted`, `Backoff` (2^n minutes up to 60, tabulated and checked against the formula) |
| exclusion of operational contracts without a consumer | `Admissible` |
| death of a worker | `Crash`: the list is forgotten, the row is as it was |
| `OutboxMarkSentView` | `MarkSentLoad`, `MarkSentSave`: read and write without a lock |

`via` and `consumed` are history variables: how a row was closed, and how often its
consumer's effect committed. The sender's own behaviour is a choice between
returning (`SendRow`) and raising (`RetryRow`). Publication order is the order of ids.

`OutboxContract` is the promise to publishers: a row is queued, then handed over or
buried, and only an operator dismisses one. `ImplementsContract` says that `Outbox`
refines it; lists, locks, crashes and retries are stutters.

### Ledger

`Ledger` is the accounting kernel from an event to the books. A draft is a pair of an
event and a rules version, as the unique key of `JournalDraft` has it.

| code | model |
|---|---|
| `publish_outbox_event` for a module accounting does not take | `Occur` |
| `link_operational_event_to_accounting` | `BeginLink` (read), then `SaveLink`, or `BeginAutoPost` and `FinishAutoPost` |
| `_post_single_journal_draft` | `Settled`, `FinishAutoPost`: the period is read at the beginning, the entry appears at the end |
| `project_close_run_from_trigger`, per event | `BeginProjection`, `SaveProjection`, `ProjectWithoutRules` |
| `approve_journal_drafts` | `Approve` |
| `post_journal_drafts`, per draft | `BeginPosting`, `FinishPosting`, `AbandonPosting` |
| `close_fiscal_period` with `evaluate_period_close_gates` and `reconcile_operational_vs_accounting` | `BeginClose` (locks the period, counts `Pending`), `ListEvents`, `Reconcile` (`Unreconciled` of those listed), `FinishClose` or `RefuseClose` (`Exceptions`, `PostedIn`): each statement reads what is committed by then |
| `reverse_journal_entry` | `BeginReversal`, `FinishReversal` |
| `seed_posting_rules_v1_for_company` | `SeedRules` |

Locks are predicates over the sessions under way: `Held` (a draft that a poster or an
auto-posting link has written), `OriginalHeld` (a reversal) and `PeriodHeld` (a reversal or a close), and
`BeingCreated` (the unique key of a draft being inserted).

What is abstracted: amounts and lines. Whether the rules can build the lines of a draft
(`Faulty`) and whether Phase 7 accepts them (`Unmapped`) are constants, because both
are functions of the event and the rules. A link by the dispatcher may happen any number
of times although it normally happens once per row; this allows more than the code and
so loses no behaviour. Reading the candidates of an approval or a posting and locking
each of them is one step: a stale candidate is skipped by the code under the lock. The
gate on FAILED outbox rows is left out; it only refuses more closes. `require_approved`
is a narrower choice of the same step. The company has its rules seeded and Phase 7 on;
events that no rule matches stay out.

### SyncCommands

`SyncCommands` is the command ledger of the sync engine. A batch keeps the `Device`
instance it loaded (`batch[b].status`, `batch[b].sequence`) and serves commands one by
one.

| code | model |
|---|---|
| `SyncBatchView.post`, end of `process_batch` | `OpenBatch`, `CloseBatch` |
| `_reject_without_db`, clock-skew quarantine | `RejectUnstored`, `Quarantine` |
| `_reject_with_db` | `RejectStored`: the refusal gets a row unless the id has one |
| lookup of `AppliedCommand` | `Repeat` (found), `Look` (not found) |
| insert of the provisional row | `Insert`, `InsertFails`; `Inserting` is the wait on the primary key |
| handler outcomes | `Apply`, `HandlerRejects` (with or without partial effects kept), `HandlerBreaks` |
| `DeviceRevokeView` | `Revoke` |
| death of the worker, lost answer | `Crash` |

Signatures, scopes, sizes and skew are the choice to refuse. Nonces only refuse whole
batches and receipts are read by nobody: both are left out. `told` records the answers
given, plain refusals apart.

### FiscalPrinting, FiscalLife

`FiscalPrinting` is one series of documents of a branch in fiscal mode B, with its print
queue and the scheduled print cycles (`Workers`).

| code | model |
|---|---|
| `create_draft` | `CreateDraft`: number 0 is unique in the series, so a second draft waits for the first |
| `issue_doc`, `_allocate_document_number` | `Numbered` in `Issue` and `IssueAndPrint` |
| `queue_fiscal_print`, `_create_or_reuse_print_job` | `QueuePrint`, `Request` |
| `mark_doc_contingency` | `MarkContingency` |
| `void_doc` | `VoidDoc`, with the closing of active jobs (`Closed`) |
| `resolve_doc_contingency` | `QueuePrint` or `VoidDoc` |
| `retry_fiscal_print_job` | `RetryJob` |
| `process_fiscal_print_jobs`, the query | `StartCycle`: ids of the first `Limit` due jobs |
| the loop and `_process_print_job` | `PrintDone`, `PrintRefused`, `PrintFails`, `PrintExhausted`, `Abort` |
| `_assert_fiscal_transition` | `Transitions`, `Allowed` |

The printer is a choice between answering and raising. Every operation holds the lock of
its document from its first read to its commit and is one step; what interleaves is the
list of a cycle with everything else, because the loop locks a job without reading its
status again. A transition that is refused raises `ConflictError`, which the job does not
catch: the job rolls back and the cycle ends, and when the printer had already answered,
the paper stays printed (`PrintRefused`). `Abort` is every other
end of a cycle: the refusal of `CONTINGENCY` at the last attempt, the death of the process,
and the database choosing it as the victim when printing (job, then document) and voiding
(document, then jobs) wait for each other. `declared` remembers contingency recorded by hand.

`NUMBER_RESERVED` lives only inside the transaction of `issue_doc` and is never stored.
Attempts need no clock: whether a RETRY job is due is a choice (`elapsed`). Left out: modes
NOOP and A, which have no jobs; changes of the branch's configuration; lines, totals, the
stock issue, and the accounting link, which is `Ledger`'s.

`FiscalLife` is what an auditor sees: numbers given in order and kept; a document waits,
is printed or is declared; a printed one does not wait again; a void one stays void.
`ImplementsLife` says that `FiscalPrinting` refines it; the queue is stutters.

### PosTicket, CashDesk, FuelSales, Retail

`PosTicket` is the point of sale of one branch. It EXTENDS `CashDesk` (cash sessions,
movements, payment intents) and `FuelSales` (sales of fuel and their compensation);
`Retail` declares the tickets that all three speak of.

| code | model |
|---|---|
| `open_cash_session`, `open_pos_session` | `Looks` or `OpenPosLook`, then `OpenCash` or `OpenPos`: finding no open session locks nothing, so looking and inserting are two steps; `OpenPosRefused` is the unique index |
| `close_pos_session`, `close_cash_session` | `ClosePos`, `CloseCash` |
| `open_ticket` | `OpenTicket` |
| the checkout and retry views, `POS_TICKET`, `POS_COMPENSATION_RETRY` | `CheckoutReads` (the ticket, without a lock), then `CheckoutRuns` |
| `checkout_ticket` under its locks | `Checkout`: `Parts` in order, of which `n` are over when it fails; `Sells`, `Charges`, `AfterFailure`, `AfterClose` |
| `run_pos_compensation_cycle` | `PosCycle` |
| `POS_PAYMENT_INTENT` | `PaymentReads`, `PaymentRuns` |
| `void_ticket` | `VoidTicket` with `Cancelled` and `Refunded` |
| `reverse_captured_payment_intent` | `ReverseTransfer` |
| `cancel_sale`, `retry_sale_compensation` | `CancelSale` or `RetrySale` (the copy), then `RunOnCopy` |
| `_attempt_sale_compensation` | `Compensated`: the bill and the stock may fail separately |
| `run_fuel_compensation_cycle` | `FuelCycle` |

What fails in a checkout is a choice (`n`), limited by what cannot succeed (`Possible`: cash
into a counted session, capturing a refunded payment). A sale's bill and stock are two
flags, because `FiscalPrinting` and `Inventory` have their lives. Amounts are left out: a
movement is in its session once by its key.

### PosOfflineQueue

The queue in the browser's local storage, and one flag per ticket of what the server made
of it. `updateQueue` reads the whole queue and writes it back; within a tab nothing comes in
between, but the tabs are event loops of their own and nothing locks the storage. So each
update is two steps, of which the first keeps what it read in `edit`.

| code | model |
|---|---|
| `createAndCheckout` of the page, when the server answers | `Direct` |
| the same when it does not: `enqueuePosOfflineCommand` | `BeginEnqueue`, `Enqueue`, with the dedupe over the rows it read that are not DONE |
| `drainPosOfflineQueue`, the snapshot | `StartDrain` |
| the loop: mark, execute, write the result | `BeginMark`, then `BeginSuccess` or `BeginFailure`, each written by `Update` |
| `writeQueueState`, compaction | `Write`: the oldest DONE rows beyond `DoneKeep` go; which are oldest is left open |
| a tab that is closed or killed | `Crash` |

`Delivers` is a request whose answer was lost or refused: the server did it or not. The
page enqueues only tickets to create and check out, under the key of the ticket. It does not
drain twice at once (`queueLoading`, `PosTerminalPage.vue:604`); a page that is left and
entered again while a drain runs behaves like another tab. `overwritten` remembers the keys
of rows that were in the queue when somebody wrote back one that he had read before they
came in.

### Inventory

One item in the warehouses of a branch. A request looks its key up (`Start`), locks its
warehouses one at a time (`Lock`), and then commits or is refused (`Commit`, `Refuse`);
what else it asks for is chosen when it commits, which allows the same runs with fewer
states. `Received`, `Issued`, `Adjusted` and `Transferred` are the four services with
their average cost and with the movements they record. `_q_cost` is `Rounded`, half away
from zero, and applies to every total and average: quantities and costs are in the smallest
units of their columns, and `Scale` units of quantity are a piece (10000 in the code).
`Victim` is the database ending one of the transactions that wait for each other in a
circle.

### AuditChain, AuditLog

`write_event` is `Write`, inside a transaction that ends with `Commit` or `Rollback`;
`tip` is the head row as the holder of its lock sees it. `Rotate` puts a new key first in the
ring. `Damage` is external: a row lost or changed behind the program's back. The
verifier reads the events (`BeginVerify`, `EventCodes`) and then each partition's head as
it is by then (`VerifyPartition`, `ChainCodes`, with the walk along the links).

An event stands for its hash, since what is hashed holds a fresh id; a signature is the
key it was made with. `AuditLog` is an append-only log for each partition, and
`ImplementsLog` maps the committed chain to it.

### CloseRuns

| code | model |
|---|---|
| `execute_close_run` | `Execute`: `Register`, `Stopping`, packaged with a trigger or sent back |
| `_register_exception` | `Register` |
| `ExceptionResolveView` | `Resolve` |
| `CloseRunAdvanceView` | `CheckAdvance`, `SaveAdvance`, `PublishAdvance`: a check on a copy, a save, and a publication that commits by itself; `DropAdvance` when the request dies |
| `project_pending_shadow_ledger_triggers` | `Take`, then for each trigger `Look`, `Project` or `ProjectFails`, `SaveInbox` |
| `project_close_run_from_trigger` | `Project`: which events cannot be booked is a choice; `Ledger` has the drafts |
| any error of a projection, and its rollback | `ProjectFails`: the run has left PACKAGED, its window has an event that no projection gets over (`Malformed`), or something fails in passing |
| death of the cycle | `Crash` |

The collectors are reduced to the set of causes they find, any set each time.

### Intercompany

| code | model |
|---|---|
| `create_`, `confirm_`, `reconcile_`, `close_intercompany_transaction` | `Create`, `Confirm`, `Reconcile`, `Close` |
| `dispute_intercompany_transaction` | `Dispute`, `DisputeFinds`, `DisputeSaves`: three commits |
| `settle_intercompany_transaction` | `Settle`, `SettleCloses`, `SettleResolves` |
| `review_intercompany_dispute_case` | `Review` |
| a person resolving exceptions | `Excuse` |
| `run_intercompany_cycle` | `CycleStarts`, `CycleVisits` (reconciled, or left because the reconciliation is refused), `CycleCloses`; `CycleBreaks` is a refused close, whatever refuses it, which nothing catches |
| `enforce_intercompany_sla` | `SlaStarts`, `SlaVisits` |
| a request that is refused halfway or dies; the job that dies | `GivesUp`, `JobDies` |

Grants, duties and evidence are verdicts. Whether a transaction is out of its term is a choice.

## The runs

| run | instance | distinct states | what it shows |
|---|---|---|---|
| `outbox` | 2 rows (one operational), 2 accounting workers with different filters, 1 plain worker, 1 operator, 2 attempts, lists of 1, clock to 3 | 64,175 | `ConsumedOnce`, `BackoffRespected`, `ImplementsContract`; `EventuallySettled`: every row in the accounting worker's scope is sent or buried in the end |
| `ledger` | 1 event, 2 people, 1 period, 2 versions of the rules, the second with lines Phase 7 rejects | 633,653 | `PostedHasEntry`, `ReversalInOpenPeriod` under every overlap of sessions; `CloseMissesOnlyTheLate`: an unforced close leaves without an entry only what was drafted after its first read |
| `ledger_closed_period` | 1 event, 2 people, 1 version | | fails `NoPostingInClosedPeriod`: a posting that read the period before its close commits after it |
| `sync` | 1 device, 2 batches of 2 commands, 2 payloads | 599,598 | `AppliedOnce`, `AnswersMatchLedger`, `BlockIsFinal` |
| `fiscal` | 2 documents, 2 jobs, 2 cycles, 2 attempts, 1 key | 179,400 | `NumbersDense`, `FailedPrintHasRetry`, `ImplementsLife` |
| `retail` | 1 ticket, 1 session, 2 cashiers, 1 till, 1 cancel request, 2 attempts of each kind, 3 tries by request | 151,999 | `VoidGivesBack`, `DispensesExplained`; `VoidedAtRestIsFinal`: only a checkout that had read the ticket before revives it; `CompensationEnds`: a fuel sale is cancelled or flagged in the end |
| `retail_voided` | the same | | fails `VoidedIsFinal`: a checkout that read the ticket before another closed it and a third voided it writes CHECKOUT_PENDING over VOIDED |
| `queue` | 2 rows, 2 keys, 2 tabs that die at any time, 2 attempts, snapshots of 1, 1 DONE row kept | 3,385,310 | `LostOnlyToOverlaps`: only an update over another one loses a queued ticket |
| `stock` | 2 warehouses, 2 requests, 2 keys, quantities of half a piece and of one and a half, costs 1 and 4, counts -1 and 2 | 19,121 | `OncePerKey`; `ValueIsBooked`: stock is worth what its movements booked, up to the roundings |
| `audit` | 2 partitions, 4 events, 2 transactions, 2 keys, 1 damage | 17,372 | `NeverForks`, `UndamagedVerifies`, `DamageIsReported`, `ImplementsLog` |
| `close` | 2 runs, of which 1 with a window that no projection gets over, 1 cause that only blocks a strict execution, 1 event, 1 user who asks for 2 statuses, 2 projectors, batches of 2, 2 triggers, 1 advance, 1 fault | 336,847 | `LastSaidPackagedIsClean`; `TriggersSettle`: every trigger that can be projected is processed for good, also behind one that cannot |
| `intercompany` | 1 transaction of 5 cents, 1 case, 2 requests, offers of 6 and 8, 1 crash | 887,468 | `ClosedIsMatched`; `ClosedIsFinal`: nothing stale changes a closed transaction |

Every passing run also checks the type invariant of its module. The failing runs are
disagreements between the code and what it or its documents say; `PROJECT.json` quotes
both sides under `findings`.

**Why these bounds are enough.** Every hazard listed needs two actors on one object, or
one actor twice, and each instance has them.

* `outbox`: two accounting workers with different filters give two lists of one row; lists
  of one row make the other row wait its turn; two attempts are one that is repeated and
  the last; a clock of 3 lets a backoff of 2 elapse.
* `ledger`: two people are a person and somebody else; two versions are an old one and a
  new one, of which the new one cannot be posted. One period is where the entry is and
  where its reversal goes, and the close that races both.
* `sync`: two batches of two commands give a first request, its retry and a command after
  it on the same stale copy of the device; two payloads are the same command changed.
* `fiscal`: two jobs are two of one document or one of each; two cycles hold one job in
  both lists.
* `retail`: everything happens to one ticket. The till, the cancel request and the cycles
  are four actors on it; two cashiers are what it takes to open two sessions at once;
  three tries let a checkout fail, be retried by the cycle and still be read by a request.
* `queue`: two tabs hold one row in both snapshots, and read one queue before either has
  written it; snapshots of one row leave the other out; two rows with one DONE kept make a
  compaction drop one; a second row under the same key needs the first to be DONE.
* `stock`: two warehouses in either order are the deadlock; quantities of 1 and 3 halves of
  a piece at costs 1 and 4 make totals and averages that round; a count of -1 makes the owed
  stock that `ValueIsBooked` excludes.
* `audit`: four events are a chain with an inside, and two partitions share a transaction.
* `close`: two triggers of one run are a packaging, a reopening and a packaging again,
  both in the projector's batch; of two runs, they are a trigger that can be projected
  before or behind one that cannot. A user who asks for PACKAGED or for a reopening can
  undo and redo all that matters to an execution and a projection.
* `intercompany`: two requests and the job are three holders of stale copies of one
  transaction, and both properties are about one; 5, 6 and 8 are a difference within the
  cent, one beyond it and one the counterpart's entry states.

The theorems below hold for every value of the constants, so there the bounds only matter
to what is said to be only model-checked. Symmetry is used only in the runs without liveness (`ledger`:
people; `sync`: batches and payloads; `fiscal`: documents and cycles; `audit`: writers,
partitions and events; `queue`: tickets and tabs; `intercompany`: requests).

`CHECK_DEADLOCK FALSE` is set where the model really ends: the outbox when everything is
settled and the clock is at its bound, the ledger when everything is posted, closed and
reversed, billing when every document is void and no job may be rescheduled, the point of sale
and the close runs when their bounds on requests are used up, inventory when
every key is used. The deadlock of `Inventory` that matters, transactions that
wait for each other in a circle, is an action (`Victim`).

Bounds in the models: `MaxTime` (a retry time past it is kept at it, so rows stay due) and the
limit on hand marks in `MarkSentLoad`; `MaxVersion`; `BatchSize`; `MaxRevived` (attempts of
a job that may still be rescheduled by hand); `MaxTries` and `MaxByHand` (failed checkouts
and attempts that requests may read); `MaxCrashes` in `Intercompany`;
`MaxFaults` in `CloseRuns` (kills and passing failures); `MaxDamage`; `MaxTriggers` and
`MaxAdvances`. (`MaxReplays` of
`PosOfflineQueue` and `MaxAttempts` elsewhere are limits of the code, not bounds.)

**Fairness.** Where the code says who runs what again:

* `Outbox!FairSpec`: the clock advances and an accounting worker with due rows is started
  (weak), and a running worker finishes some row of those it starts again and again
  (strong, since crashes may interrupt it). The schedule is
  `src/docs/operacion/SHADOW_LEDGER_FASE4A_CERTIFICACION_v1.0.md:107`, every five minutes.
  Nothing is assumed of plain workers, operators or the sender: one that always raises
  buries the row.
* `CloseRuns`: the projector's cycle, by the same schedule, starts and goes on unless it
  is killed.
* `PosTicket`: the compensation cycle of the fuel station runs again and again. The
  repository has the command but no schedule for it: this is an assumption on the operator.
  Its batch takes the first `limit` sales by the time of their next retry, and every try
  counts and moves that time or ends the compensation, so each sale gets its turn. Nothing
  is assumed of the cycle of the point of sale, where a refused ticket does not count.

`Ledger`, `SyncCommands`, `FiscalPrinting`, `PosOfflineQueue`, `Inventory`, `AuditChain` and
`Intercompany` have none: people, devices and terminals owe nothing, a print cycle may end on
the same refused job for ever, and so may the job of the intercompany schedule.

## The proofs

All are checked by TLAPS for arbitrary constants that satisfy the named assumption of each
module: typed, positive bounds, a `Nobody` that is not a person, a `Blank` that is no key,
finite sets of events where something is counted, causes that are not events.

| module | theorems, each after the property it states | assumption |
|---|---|---|
| `Outbox_proofs` | `TypeCorrect`, `RetryBudgetHolds`, `ConsumedOnceHolds`, `OperationalIsConsumedHolds`, `SentIsFinalHolds`, `BackoffRespectedHolds`, `Refinement` (of `OutboxContract`) | `OutboxAssumption` |
| `Ledger_proofs` | `TypeCorrect`, `PostedHasEntryHolds`, `ReversedOnceHolds`, `ReversalInOpenPeriodHolds`, `SoDPostingHolds`, `CloseMissesOnlyTheLateHolds`, `QuietBooksAreFinalHolds` | `LedgerAssumption` |
| `SyncCommands_proofs` | `TypeCorrect`, `AppliedOnceHolds`, `AnswersMatchLedgerHolds`, `LedgerIsFinalHolds`, `BlockIsFinalHolds` | `SyncAssumption` |
| `FiscalPrinting_proofs` | `TypeCorrect`, `NumbersDenseHolds`, `FailedPrintHasRetryHolds`, `GivenUpIsVisibleHolds`, `ContingencyHasReasonHolds`, `Refinement` (of `FiscalLife`) | `FiscalAssumption` |
| `AuditChain_proofs` | `TypeCorrect`, `ChainsNeverFork`, `Trail`, `DamageShows`, `UndamagedPasses`, `ImplementsAuditLog` (refinement of `AuditLog`) | `AuditAssumption` |
| `Inventory_proofs` | `StockType`, `KeysMoveOnce`, `BalanceIsSum`, `StockIsWorth` | `InventoryAssumption` |
| `Pos_proofs`, on `PosTicket` | `TypeCorrect`, `VoidGivesBackHolds`, `DispensesExplainedHolds`, `VoidedAtRestIsFinalHolds` | `PosAssumption`, `FuelAssumption` |
| `Pos_proofs`, on `PosOfflineQueue` | `QueueTypeCorrect`, `LostOnlyToOverlapsHolds`, `NothingLostIfApart` | `QueueAssumption` |
| `Closing_proofs`, on `CloseRuns` | `CloseTypeCorrect`, `PackagedIsClean` | `CloseAssumption` |
| `Closing_proofs`, on `Intercompany` | `TypeCorrect`, `ClosedIsMatchedHolds`, `ClosedIsFinalHolds` | `IntercompanyAssumption` |

The two halves of `Pos_proofs`, the till and its offline queue, are about one terminal; those
of `Closing_proofs` about what blocks the end of a day and of a period. Each pair shares a
module, which EXTENDS both components: that is why `CloseRuns` and `PosOfflineQueue` name
their specification `CloseSpec` and `QueueSpec` and prefix their other general names.

The argument is the same in each: an inductive invariant, that it holds initially, that each
action preserves it (one step per action), then the property from the invariant and, for an
action property or a refinement, from one more pass over the actions.

* **Outbox.** The properties are inductive together with `Untouched` (a row is SENT
  exactly when something sent it; an unpublished row has no attempts) and `Sane` (a
  dispatch works with an instant that has passed, an operator holds a row that exists).
  Without `Sane` the spacing of retries does not follow: a row may be rescheduled by a
  dispatch whose clock is older than now, never younger.
* **Ledger.** `PostedHasEntry` is inductive because entries are never removed once
  posted. The two-step sessions need more: `Segregated` (a poster without the override
  is not the approver, and will not become it, while it holds the draft), `Reversing`
  (a reversal under way is alone with its original, which has none yet, and its period
  is open), and `Sane` (a link for a person runs before its event exists to anyone else,
  so nobody can have approved its draft). `ClosesBacked` follows a close from statement to
  statement: what it counted has its entries and what it listed is drafted by the time the
  next one reads, since entries and drafts are never removed (`BooksGrow`).
  `QuietBooksAreFinal` bounds what the failing run
  `ledger_closed_period` finds: a closed period takes entries only from postings that had
  read it open and are still under way, and none of these begins after the close.
* **SyncCommands.** `Exclusive`: a transaction that inserted the provisional row of a
  command is the only one that has, and no committed row exists. That is what makes the
  handler's effect single and the verdict final; `Serving` keeps the count of the batch.
* **FiscalPrinting.** `Agree` ties the two statuses of a document together (void in one is
  void in the other), without which a given-up job could belong to a document that was never
  issued; `Requested` says that only issued documents have jobs and only jobs are listed, so a
  visit always finds a row. `VisitInv` proves once that a visit preserves the invariant when
  the statuses it leaves on job and document agree; each outcome then shows that its two do.
* **AuditChain.** `NeverForks` speaks of events already written; what keeps a new one from
  forking is where the chain ends. `Chained` adds: a transaction with a pending event holds
  its partition and a free partition shows its committed head (`LocksHeld`); heads and tips
  point into their partition (`HeadsPoint`); nothing follows the tip, and nothing committed
  follows the head (`EndsAreEnds`); what an event follows was written (`PrevWritten`).
  The verifier needs the global fact that these local ones add up to, `Lined`: the events of
  a partition can be numbered in the order of their links, the committed ones first, up to its
  head and tip. The walk of the verifier then meets all it should (`WalkMeets`), so an
  undamaged chain has no fault. `VerifierLags` says why damage is seen although events and
  heads are read at different moments: while a harmed partition has nothing reported, it is
  still to be visited and has an event that was never seen. The refinement maps a
  partition's committed events to the log by that numbering, which is unique (`ChainIsLine`).
* **Inventory.** `KeysMoveOnce` does not rest on the look-up of the key, which is made
  before any lock, but on the unique keys at the commit (`Insertable`). The value of the stock
  is a statement on sums over the set of movements, so their theory comes first: the fold of
  the community modules over a set adds one element at a time (`SumAdds`). `OneMovement` is
  the induction step for every service: a movement adds its delta to the stock and its total
  to what was booked, the rounding of that total costs half a unit (`TotalBounds`), and the
  rounding of a new average half a unit for each piece on hand (`RoundedBounds`). The bound
  grows with pieces ever received, so `Valued` must also say that what is on hand lies between
  zero and those.
* **PosTicket.** A request may run on an old copy of a sale, and the code does not return stock
  that the copy says is back. `SalesSound` is what a copy may know: if it says that the stock
  was received back, it was; a sale is CANCELLED only with its bill void and its stock
  back. `TicketsExist` says that only a sale closes a ticket and that nothing is dispensed
  for a ticket that is not open yet. `VoidedAtRestIsFinal` bounds what the failing run
  `retail_voided` finds: only a checkout that had read the ticket before its void revives it.
* **CloseRuns.** `Core` is the property; `RowsExist` says that the inbox row a cycle is at
  belongs to a trigger that exists, so that `Project` acts on a run.
* **Intercompany.** Closing relies on the status CONFIRMED alone, so a CONFIRMED transaction
  must match at every moment, not only when it was confirmed: `ConfirmedMatches`.
* **PosOfflineQueue.** A tab may write the outcome of an old copy over any row, and any queue
  it has read over the one there is, so what it writes must be true of both: `Honest` (a row
  has the key it was given, and a row that is DONE was served, so that compacting it loses
  nothing) holds of the stored queue and of every queue that an update has read
  (`HonestEdits`). Where updates do not overlap (`UpdatesApart`: one tab, or a lock around
  `updateQueue`), what an update has read is the queue as it is (`ReadIsCurrent`), nothing is
  ever overwritten, and no queued ticket is lost at all: `NothingLostIfApart`.

Induction over sums, walks and lines is made by the least counterexample, among the numbers
(`LeastNumber`) or the finite sets (`SmallestSet`), since an induction theorem that takes
an operator as a parameter cannot be used here. For the same reason no operator in a module
with a proof is RECURSIVE: `Walk` and the sums are a fixed point and a fold.

**Only model-checked.** Liveness, which is out of the prover's reach: `EventuallySettled`,
`CompensationEnds` and `TriggersSettle`. And the failing runs, where a counterexample is the
result. Every other property of a passing run is a theorem.

## What was seen besides

Disagreements and oddities met while modelling that no run states; the models allow most of
them.

* Accounting: a projection that read a draft before its posting saves VALIDATED over POSTED;
  an event is drafted and posted under each version of the rules. An unforced close may miss
  an event: one linked, with a VALIDATED draft, after the pending drafts were counted
  (`kernels/accounting/services.py:1921`) and before the reconciliation, or one that occurs
  after the events were listed, passes every gate. It is then in a CLOSED period without an
  entry, and every posting of it is refused from then on. `CloseMissesOnlyTheLate` is what is
  left of the promise.
* Sync: a stale copy of the device stores a smaller sequence; a retry
  that overlaps its first request is answered with an internal error.
* Billing: a job listed before its document was voided is printed after it.
* Point of sale: a ticket whose session was closed is refused before its attempt is counted
  (`modulos/retail_pos/services.py:703`) and keeps its place in the order of the compensation
  cycle (line 1064): as many of them as the cycle's `limit` keep every later ticket from being
  retried, for ever. Two openings may leave two open cash sessions
  (`kernels/payments/services.py:383`).
* Offline queue: two tabs that queue a ticket each at the same moment may leave one row (two
  `BeginEnqueue`, then two `Enqueue`): the first ticket was reported as queued and is lost
  (`NothingLost` without an excuse fails in four steps). FAILED rows have no `next_retry_at`
  and so are always due, and as many old ones as `maxCommands` keep newer rows out of every
  drain; a failure of another tab turns DONE back to PENDING; PROCESSING rows of a dead tab
  are abandoned.
* Audit: a partition that lost all its events is not reported; a verification while events
  are written can report a fault that is none; deleting a user sets the actor of signed
  events to null, and they verify as altered (`modulos/audit/models.py:60`).
* Inventory: a transfer leaves the destination's average cost as it was
  (`kernels/inventarios/services.py:906`), which is why `ValueIsBooked` excludes it. The
  comment "Lock balances in deterministic order to avoid deadlocks" (line 844) does not hold:
  the query below it sorts the ids it looks for, not the rows it locks, and two transfers in
  opposite directions reach `Victim`. Accounting multiplies quantity and cost of adjustments
  and transfers again, unrounded (`kernels/accounting/services.py:294-301`), so its amount of
  one may differ from the movement's total before it is rounded itself.
* Close runs: an exception whose cause has gone stays open until somebody resolves it; a run
  advanced to DELIVERED has its trigger skipped; the loser of two projectors may save FAILED over
  PROCESSED until a later cycle repairs it; the projector's limit counts processed
  triggers, so `TriggersSettle` holds only while the limit covers all there are; a trigger whose
  window has an event that cannot be read (`occurred_at` at
  `kernels/accounting/services.py:1026`) fails at every cycle, for ever and without a budget
  (`Malformed`).
* Intercompany: a refused close in the cycle (`kernels/accounting/phase7b.py:1108`) ends the
  command, SLA sweep included, so that an exception that a sweep opened on a transaction
  closed meanwhile stays, and blocks, for as long as some other transaction breaks every
  command that way; the sweep resolves the exceptions of disputed transactions
  within their term; a dispute commits before its case and evidence are checked (line 322).

## Plan

Done: `Outbox` with `OutboxContract`, `Ledger`, `SyncCommands`, `FiscalPrinting` with
`FiscalLife`, `PosTicket` over `CashDesk` and `FuelSales`, `PosOfflineQueue`, `Inventory`,
`AuditChain` with `AuditLog`, `CloseRuns` and `Intercompany`, each with proofs of all its
safety properties.

Left, most important first:

1. Enrollment by one-time code and the nonces of batches, in front of `SyncCommands`.
2. Procurement's drafts under a key and their numbers; fuel shifts and their close over `FuelSales`.
3. Consolidation and revaluation over the entries of `Ledger`.
4. Proofs: the safety halves of the liveness properties: when work is left, a step of those
   that fairness names is possible.
5. Portfolio, once it compiles.

## Not modelled

The map covers about a ninth of the implementation. Most of the rest keeps no state of its
own or changes one row under one lock: views that check a permission and call the
services that are modelled, serialisers, screens, query modules, certification and QA scripts, the seeding of
roles. In particular:

* the read side: reporting, dashboards, the close-run collectors, accounting reports;
* cryptography, permission checks, duties and evidence: verdicts to the models;
* master data (HR, organisation, parties, items, warehouses): one lock, one aggregate;
* accounts and sessions: mostly behaviour of libraries;
* procurement: one row lock per document, billing's shape without printing;
* consolidation and revaluation: they compute a report or one entry from committed rows;
* portfolio: it does not compile (see above);
* the sunset sync endpoint, and the copy of the sync services under
  `modulos/audit/services.py`, which no module imports.

`PROJECT.json` gives the reason component by component.
