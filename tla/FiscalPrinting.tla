--------------------------- MODULE FiscalPrinting ---------------------------
(***************************************************************************)
(* Billing documents of one series of a branch in fiscal mode B, and their *)
(* print queue.                                                            *)
(*                                                                         *)
(* Documents are drafted, issued with the next number, sent to the printer *)
(* and voided.  Print jobs are served by scheduled cycles (workers) which  *)
(* read the list of due jobs without a lock and then lock one job at a     *)
(* time, and its document, without looking at the job's status again.      *)
(*                                                                         *)
(* Every operation locks the document it changes from its first read to    *)
(* its commit and is one step.  Printing locks job, then document; voiding *)
(* locks document, then jobs: when both wait for each other the database   *)
(* aborts one, which is a cycle that ends (Abort) or a request that leaves *)
(* nothing.  The printer itself is outside the transaction: what was sent  *)
(* to it stays sent when the transaction rolls back.                       *)
(***************************************************************************)
EXTENDS Integers, FiniteSets

CONSTANTS
  Docs,          \* billing documents
  Jobs,          \* ids of print jobs, in order of creation
  Keys,          \* idempotency keys of print requests
  Blank,         \* the key of a request that carries none
  Workers,       \* scheduled print cycles
  Limit,         \* jobs a cycle takes at most
  MaxAttempts,   \* contingency_max_attempts of the branch
  MaxRevived     \* bound: attempts of a job that may be rescheduled by hand

ASSUME FiscalAssumption ==
  /\ Jobs \subseteq Nat \ {0}
  /\ Blank \notin Keys
  /\ Limit \in Nat \ {0}
  /\ MaxAttempts \in Nat \ {0}
  /\ MaxRevived \in Nat

VARIABLES
  docStatus,     \* docStatus[d]: ABSENT until the draft is created
  number,        \* number[d]: 0 until the document is issued
  nextNumber,    \* next_number of the series
  fiscal,        \* fiscal[d]: fiscal_status, NONE before the document is issued
  declared,      \* declared[d]: contingency was recorded by hand (history)
  job,           \* job[j]: the print job, ABSENT until requested
  list           \* list[w]: ids the running cycle of w has still to visit

vars == <<docStatus, number, nextNumber, fiscal, declared, job, list>>

JobStatuses == {"PENDING", "RETRY", "PRINTED", "FAILED"}
Active == {"PENDING", "RETRY"}
FiscalStatuses == {"ISSUED", "PRINTED", "FAILED_PRINT", "CONTINGENCY", "VOIDED"}
NoJob == [status |-> "ABSENT"]
JobRows == [doc : Docs, key : Keys \cup {Blank}, status : JobStatuses, attempts : Nat]

TypeOK ==
  /\ docStatus \in [Docs -> {"ABSENT", "DRAFT", "ISSUED", "VOIDED"}]
  /\ number \in [Docs -> Nat]
  /\ nextNumber \in Nat \ {0}
  /\ fiscal \in [Docs -> FiscalStatuses \cup {"NONE"}]
  /\ declared \in [Docs -> BOOLEAN]
  /\ job \in [Jobs -> JobRows \cup {NoJob}]
  /\ list \in [Workers -> SUBSET Jobs]

Init ==
  /\ docStatus = [d \in Docs |-> "ABSENT"]
  /\ number = [d \in Docs |-> 0]
  /\ nextNumber = 1
  /\ fiscal = [d \in Docs |-> "NONE"]
  /\ declared = [d \in Docs |-> FALSE]
  /\ job = [j \in Jobs |-> NoJob]
  /\ list = [w \in Workers |-> {}]

-----------------------------------------------------------------------------
\* _FISCAL_TRANSITIONS and _assert_fiscal_transition, from a status that is set.
Transitions ==
  [ISSUED       |-> {"PRINTED", "FAILED_PRINT", "CONTINGENCY", "VOIDED"},
   FAILED_PRINT |-> {"PRINTED", "CONTINGENCY"},
   CONTINGENCY  |-> {"PRINTED", "VOIDED"},
   PRINTED      |-> {"VOIDED"},
   VOIDED       |-> {}]

AllowedFromAny(current, target) == TRUE
Allowed(current, target) == current = target \/ target \in Transitions[current]

\* create_draft: a draft has number 0, which is unique in the series like any other.
CreateDraft(d) ==
  /\ docStatus[d] = "ABSENT"
  /\ \A e \in Docs : docStatus[e] # "DRAFT"
  /\ docStatus' = [docStatus EXCEPT ![d] = "DRAFT"]
  /\ UNCHANGED <<number, nextNumber, fiscal, declared, job, list>>

\* _create_or_reuse_print_job, when no job of the document has the key.
NewKey(d, k) == \A j \in Jobs : job[j] # NoJob => job[j].doc # d \/ job[j].key # k
Request(d, k, j) ==
  /\ k = Blank \/ NewKey(d, k)
  /\ job[j] = NoJob
  /\ \A i \in Jobs : i < j => job[i] # NoJob
  /\ job' = [job EXCEPT ![j] = [doc |-> d, key |-> k, status |-> "PENDING", attempts |-> 0]]

\* issue_doc: an issued or voided document is answered without change, and a failure of
\* the adapter, the stock or the request gives the number back with the rollback.
IssuableAgain(d) == docStatus[d] \in {"DRAFT", "ISSUED"}
Issuable(d) == docStatus[d] = "DRAFT"
StillReserved == "NUMBER_RESERVED"
AfterIssue == "ISSUED"

Numbered(d) ==
  /\ Issuable(d)
  /\ number' = [number EXCEPT ![d] = nextNumber]
  /\ nextNumber' = nextNumber + 1
  /\ docStatus' = [docStatus EXCEPT ![d] = "ISSUED"]
  /\ fiscal' = [fiscal EXCEPT ![d] = AfterIssue]
  /\ UNCHANGED <<declared, list>>

Issue(d) == Numbered(d) /\ UNCHANGED job
IssueAndPrint(d, k, j) == Numbered(d) /\ k \in Keys /\ Request(d, k, j)

\* queue_fiscal_print, also for resolve_doc_contingency with RETRY_PRINT.
QueuePrint(d, k, j) ==
  /\ docStatus[d] = "ISSUED"
  /\ fiscal[d] # "VOIDED"
  /\ Request(d, k, j)
  /\ UNCHANGED <<docStatus, number, nextNumber, fiscal, declared, list>>

\* mark_doc_contingency; a document already in contingency is answered without change.
MarkContingency(d) ==
  /\ docStatus[d] = "ISSUED"
  /\ fiscal[d] # "CONTINGENCY"
  /\ Allowed(fiscal[d], "CONTINGENCY")
  /\ fiscal' = [fiscal EXCEPT ![d] = "CONTINGENCY"]
  /\ declared' = [declared EXCEPT ![d] = TRUE]
  /\ UNCHANGED <<docStatus, number, nextNumber, job, list>>

\* void_doc, also for resolve_doc_contingency with VOID: active jobs are closed.
Closed(d, j) == job[j] # NoJob /\ job[j].doc = d /\ job[j].status \in Active
VoidDoc(d) ==
  /\ docStatus[d] = "ISSUED"
  /\ Allowed(fiscal[d], "VOIDED")
  /\ docStatus' = [docStatus EXCEPT ![d] = "VOIDED"]
  /\ fiscal' = [fiscal EXCEPT ![d] = "VOIDED"]
  /\ job' = [j \in Jobs |-> IF Closed(d, j) THEN [job[j] EXCEPT !.status = "FAILED"] ELSE job[j]]
  /\ UNCHANGED <<number, nextNumber, declared, list>>

\* retry_fiscal_print_job, whatever became of the document.
RetryJob(j) ==
  /\ job[j] # NoJob
  /\ job[j].status # "PRINTED"
  /\ job[j].attempts <= MaxRevived     \* bound on rescheduling by hand
  /\ job' = [job EXCEPT ![j].status = "PENDING"]
  /\ UNCHANGED <<docStatus, number, nextNumber, fiscal, declared, list>>

-----------------------------------------------------------------------------
\* process_fiscal_print_jobs: a PENDING job is due, a RETRY job when its backoff has
\* elapsed; the first Limit of them are listed.
HasStatus(s) == {j \in Jobs : job[j] # NoJob /\ job[j].status = s}
FirstOf(S) == {j \in S : Cardinality({i \in S : i < j}) < Limit}
StartCycle(w) ==
  /\ list[w] = {}
  /\ \E elapsed \in SUBSET HasStatus("RETRY") :
       list' = [list EXCEPT ![w] = FirstOf(HasStatus("PENDING") \cup elapsed)]
  /\ UNCHANGED <<docStatus, number, nextNumber, fiscal, declared, job>>

Visits(w, j) == j \in list[w] /\ \A i \in list[w] : j <= i

\* Every attempt counts, and max_attempts of them are the last.
Exhausted(j) == job[j].attempts + 1 >= MaxAttempts
Attempted(j, s) ==
  job' = [job EXCEPT ![j] = [doc |-> job[j].doc, key |-> job[j].key, status |-> s,
                             attempts |-> job[j].attempts + 1]]

\* The printer answered and the document may become PRINTED (or is already).
PrintDone(w, j) ==
  /\ Visits(w, j)
  /\ Allowed(fiscal[job[j].doc], "PRINTED")
  /\ fiscal' = [fiscal EXCEPT ![job[j].doc] = "PRINTED"]
  /\ Attempted(j, "PRINTED")
  /\ list' = [list EXCEPT ![w] = @ \ {j}]
  /\ UNCHANGED <<docStatus, number, nextNumber, declared>>

\* The printer answered for a document that may not become PRINTED: ConflictError is
\* none of the exceptions the code catches, so it rolls back and ends the whole cycle.
PrintRefused(w, j) ==
  /\ Visits(w, j)
  /\ ~Allowed(fiscal[job[j].doc], "PRINTED")
  /\ list' = [list EXCEPT ![w] = {}]
  /\ UNCHANGED <<docStatus, number, nextNumber, fiscal, declared, job>>

\* The printer failed and attempts are left: the job waits for its backoff.
AfterFailure(f) == IF f \in {"ISSUED", "FAILED_PRINT"} THEN "FAILED_PRINT" ELSE f
PrintFails(w, j) ==
  /\ Visits(w, j)
  /\ ~Exhausted(j)
  /\ fiscal' = [fiscal EXCEPT ![job[j].doc] = AfterFailure(@)]
  /\ Attempted(j, "RETRY")
  /\ list' = [list EXCEPT ![w] = @ \ {j}]
  /\ UNCHANGED <<docStatus, number, nextNumber, declared>>

\* The printer failed for the last time: the job is given up, the document declared.
GivenUpSilently(f) == AfterFailure(f)
GivenUp(f) == "CONTINGENCY"
PrintExhausted(w, j) ==
  /\ Visits(w, j)
  /\ Exhausted(j)
  /\ Allowed(fiscal[job[j].doc], "CONTINGENCY")
  /\ fiscal' = [fiscal EXCEPT ![job[j].doc] = GivenUp(@)]
  /\ Attempted(j, "FAILED")
  /\ list' = [list EXCEPT ![w] = @ \ {j}]
  /\ UNCHANGED <<docStatus, number, nextNumber, declared>>

\* The transition to CONTINGENCY is refused, the process dies, or the database picks it
\* as the victim of a lock cycle: the transaction rolls back and the cycle ends.
Abort(w) ==
  /\ list[w] # {}
  /\ list' = [list EXCEPT ![w] = {}]
  /\ UNCHANGED <<docStatus, number, nextNumber, fiscal, declared, job>>

Next ==
  \/ \E d \in Docs : CreateDraft(d)
  \/ \E d \in Docs : Issue(d)
  \/ \E d \in Docs, k \in Keys, j \in Jobs : IssueAndPrint(d, k, j)
  \/ \E d \in Docs, k \in Keys \cup {Blank}, j \in Jobs : QueuePrint(d, k, j)
  \/ \E d \in Docs : MarkContingency(d)
  \/ \E d \in Docs : VoidDoc(d)
  \/ \E j \in Jobs : RetryJob(j)
  \/ \E w \in Workers : StartCycle(w)
  \/ \E w \in Workers, j \in Jobs : PrintDone(w, j)
  \/ \E w \in Workers, j \in Jobs : PrintRefused(w, j)
  \/ \E w \in Workers, j \in Jobs : PrintFails(w, j)
  \/ \E w \in Workers, j \in Jobs : PrintExhausted(w, j)
  \/ \E w \in Workers : Abort(w)

Spec == Init /\ [][Next]_vars

-----------------------------------------------------------------------------
JobsOf(d) == {j \in Jobs : job[j] # NoJob /\ job[j].doc = d}

\* Numbers are dense: the issued and the voided documents hold exactly the numbers below
\* next_number, one each, whatever was answered twice or rolled back (issue_doc).
NumbersDense ==
  /\ \A d \in Docs :
       /\ number[d] < nextNumber
       /\ (number[d] = 0) <=> (docStatus[d] \in {"ABSENT", "DRAFT"})
  /\ \A n \in 1..(nextNumber - 1) : \E d \in Docs : number[d] = n
  /\ \A d, e \in Docs : number[d] = number[e] /\ number[d] # 0 => d = e

\* A document that failed to print has a job that will try again: no overlap of cycles,
\* second requests and rescheduling leaves it without one and outside contingency.
FailedPrintHasRetry ==
  \A d \in Docs : fiscal[d] = "FAILED_PRINT" => \E j \in JobsOf(d) : job[j].status \in Active

\* No job is given up while its document still looks as if it waited for the printer:
\* the document is in contingency, was printed by another job, or is void.
GivenUpIsVisible ==
  \A d \in Docs : \A j \in JobsOf(d) :
    job[j].status = "FAILED" => fiscal[d] \in {"CONTINGENCY", "PRINTED", "VOIDED"}

\* Contingency always has a reason: somebody recorded it, or one job of the document
\* used all its attempts.
ContingencyHasReason ==
  \A d \in Docs : fiscal[d] = "CONTINGENCY" =>
    declared[d] \/ \E j \in JobsOf(d) : job[j].attempts >= MaxAttempts

\* The life an auditor sees, see FiscalLife.
Stage(d) ==
  CASE docStatus[d] = "ABSENT" -> "none"
    [] docStatus[d] = "DRAFT" -> "draft"
    [] docStatus[d] = "VOIDED" -> "void"
    [] docStatus[d] = "ISSUED" /\ fiscal[d] = "PRINTED" -> "printed"
    [] docStatus[d] = "ISSUED" /\ fiscal[d] = "CONTINGENCY" -> "contingency"
    [] docStatus[d] = "ISSUED" /\ fiscal[d] \notin {"PRINTED", "CONTINGENCY"} -> "waiting"

Life == INSTANCE FiscalLife
          WITH stage <- [d \in Docs |-> Stage(d)], last <- nextNumber - 1

\* The documents and their queue implement that life.
ImplementsLife == Life!Spec
=============================================================================
