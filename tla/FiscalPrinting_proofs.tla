----------------------- MODULE FiscalPrinting_proofs -----------------------
(***************************************************************************)
(* For any documents, jobs, keys, cycles, limits and attempt budgets:      *)
(* dense numbering, no failed document without a job that tries again, no  *)
(* job given up in silence, contingency with a reason, and that documents  *)
(* and queue implement FiscalLife.                                         *)
(***************************************************************************)
EXTENDS FiscalPrinting, TLAPS

\* The two statuses of a document agree.
Agree ==
  \A d \in Docs :
    /\ (fiscal[d] = "NONE") <=> (docStatus[d] \in {"ABSENT", "DRAFT"})
    /\ (fiscal[d] = "VOIDED") <=> (docStatus[d] = "VOIDED")

\* Only issued documents have jobs, and only jobs are listed.
Requested ==
  /\ \A j \in Jobs : job[j] # NoJob => docStatus[job[j].doc] \in {"ISSUED", "VOIDED"}
  /\ \A w \in Workers : \A j \in list[w] : job[j] # NoJob

IInv ==
  /\ TypeOK
  /\ NumbersDense
  /\ Agree
  /\ Requested
  /\ FailedPrintHasRetry
  /\ GivenUpIsVisible
  /\ ContingencyHasReason

Rows == JobRows \cup {NoJob}

LEMMA InitInv == Init => IInv
<1> SUFFICES ASSUME Init PROVE IInv
  OBVIOUS
<1>1. TypeOK
  BY DEF Init, TypeOK
<1>2. NumbersDense
  BY DEF Init, NumbersDense
<1>3. Agree /\ Requested /\ FailedPrintHasRetry
  BY DEF Init, Agree, Requested, FailedPrintHasRetry
<1>4. GivenUpIsVisible /\ ContingencyHasReason
  BY DEF Init, GivenUpIsVisible, ContingencyHasReason, JobsOf
<1>5. QED
  BY <1>1, <1>2, <1>3, <1>4 DEF IInv

\* A requested job is a row; what is no row is no job.
LEMMA RowOrNone ==
  ASSUME TypeOK, NEW j \in Jobs, job[j] # NoJob
  PROVE  job[j] \in JobRows /\ job[j].doc \in Docs /\ job[j].attempts \in Nat
  BY DEF TypeOK, JobRows

LEMMA RowIsJob == ASSUME NEW r \in JobRows PROVE r # NoJob
  BY DEF JobRows, NoJob, JobStatuses

\* What a visited job does to itself: it keeps its document and counts the attempt.
LEMMA AttemptedRow ==
  ASSUME TypeOK, NEW j \in Jobs, job[j] # NoJob, NEW s \in JobStatuses, Attempted(j, s)
  PROVE  /\ job' \in [Jobs -> Rows]
         /\ job'[j] # NoJob
         /\ job'[j].doc = job[j].doc
         /\ job'[j].status = s
         /\ job'[j].attempts = job[j].attempts + 1
         /\ \A i \in Jobs \ {j} : job'[i] = job[i]
<1>1. job[j] \in JobRows
  BY RowOrNone
<1>2. job'[j] = [doc |-> job[j].doc, key |-> job[j].key, status |-> s,
                 attempts |-> job[j].attempts + 1]
  BY DEF Attempted, TypeOK
<1>3. job'[j] \in JobRows
  BY <1>1, <1>2 DEF JobRows
<1>4. job' \in [Jobs -> Rows] /\ \A i \in Jobs \ {j} : job'[i] = job[i]
  BY <1>2, <1>3 DEF TypeOK, Rows, Attempted
<1>5. QED
  BY <1>2, <1>3, <1>4, RowIsJob

\* A visited job has a document, which has been issued.
LEMMA VisitedStatus ==
  ASSUME IInv, NEW w \in Workers, NEW j \in Jobs, Visits(w, j)
  PROVE  job[j] # NoJob /\ job[j].doc \in Docs /\ fiscal[job[j].doc] \in FiscalStatuses
<1>1. job[j] # NoJob /\ job[j].doc \in Docs /\ docStatus[job[j].doc] \in {"ISSUED", "VOIDED"}
  BY RowOrNone DEF IInv, Requested, Visits
<1>2. fiscal[job[j].doc] # "NONE" /\ fiscal[job[j].doc] \in FiscalStatuses \cup {"NONE"}
  BY <1>1 DEF IInv, Agree, TypeOK
<1>3. QED
  BY <1>1, <1>2

\* The invariant survives a visit to a job that leaves the job with status s and its
\* document with fiscal status f, when the two agree with each other and with before.
LEMMA VisitInv ==
  ASSUME IInv, NEW w \in Workers, NEW j \in Jobs, Visits(w, j),
         NEW s \in JobStatuses, NEW f \in FiscalStatuses,
         Attempted(j, s),
         fiscal' = [fiscal EXCEPT ![job[j].doc] = f],
         list' = [list EXCEPT ![w] = @ \ {j}],
         UNCHANGED <<docStatus, number, nextNumber, declared>>,
         (f = "VOIDED") <=> (fiscal[job[j].doc] = "VOIDED"),
         f = "FAILED_PRINT" => s \in Active /\ fiscal[job[j].doc] \in {"ISSUED", "FAILED_PRINT"},
         s = "FAILED" => f = "CONTINGENCY",
         f = "ISSUED" => fiscal[job[j].doc] = "ISSUED",
         f = "CONTINGENCY" => \/ fiscal[job[j].doc] = "CONTINGENCY"
                              \/ job[j].attempts + 1 >= MaxAttempts
  PROVE  IInv'
<1> DEFINE d == job[j].doc
<1>1. /\ TypeOK
      /\ job[j] # NoJob
      /\ d \in Docs
      /\ docStatus[d] \in {"ISSUED", "VOIDED"}
      /\ fiscal[d] # "NONE"
      /\ job[j].attempts \in Nat
  BY RowOrNone DEF IInv, Requested, Visits, Agree
<1> HIDE DEF d
<1>2. /\ job' \in [Jobs -> Rows]
      /\ job'[j] # NoJob
      /\ job'[j].doc = d
      /\ job'[j].status = s
      /\ job'[j].attempts = job[j].attempts + 1
      /\ \A i \in Jobs \ {j} : job'[i] = job[i]
  BY <1>1, AttemptedRow DEF d
<1>3. /\ fiscal'[d] = f
      /\ \A e \in Docs \ {d} : fiscal'[e] = fiscal[e]
      /\ fiscal' \in [Docs -> FiscalStatuses \cup {"NONE"}]
  BY <1>1 DEF TypeOK, d
<1>4. TypeOK'
  <2>1. list' \in [Workers -> SUBSET Jobs]
    BY <1>1 DEF TypeOK
  <2>2. QED
    BY <1>1, <1>2, <1>3, <2>1 DEF TypeOK, Rows
<1>5. NumbersDense'
  BY DEF IInv, NumbersDense
<1>6. Agree'
  BY <1>1, <1>3 DEF IInv, Agree, FiscalStatuses, d
<1>7. Requested'
  <2>1. \A i \in Jobs : job'[i] # NoJob => job[i] # NoJob /\ job'[i].doc = job[i].doc
    BY <1>1, <1>2 DEF d
  <2>2. \A i \in Jobs : job[i] # NoJob => job'[i] # NoJob
    BY <1>2
  <2>3. \A v \in Workers : list'[v] \subseteq list[v] /\ list[v] \subseteq Jobs
    BY <1>1 DEF TypeOK
  <2>4. QED
    BY <2>1, <2>2, <2>3 DEF IInv, Requested
<1>8. FailedPrintHasRetry'
  <2> SUFFICES ASSUME NEW e \in Docs, fiscal'[e] = "FAILED_PRINT"
               PROVE \E i \in Jobs : job'[i] # NoJob /\ job'[i].doc = e /\ job'[i].status \in Active
    BY DEF FailedPrintHasRetry, JobsOf
  <2>1. CASE e = d
    BY <1>2, <1>3, <2>1 DEF d
  <2>2. CASE e # d
    <3>1. PICK i \in Jobs : job[i] # NoJob /\ job[i].doc = e /\ job[i].status \in Active
      BY <1>3, <2>2 DEF IInv, FailedPrintHasRetry, JobsOf
    <3>2. i # j
      BY <3>1, <2>2 DEF d
    <3>3. QED
      BY <1>2, <3>1, <3>2
  <2>3. QED
    BY <2>1, <2>2
<1>9. GivenUpIsVisible'
  <2> SUFFICES ASSUME NEW e \in Docs, NEW i \in Jobs, job'[i] # NoJob, job'[i].doc = e,
                      job'[i].status = "FAILED"
               PROVE fiscal'[e] \in {"CONTINGENCY", "PRINTED", "VOIDED"}
    BY DEF GivenUpIsVisible, JobsOf
  <2>1. CASE i = j
    BY <1>2, <1>3, <2>1
  <2>2. CASE i # j
    <3>1. fiscal[e] \in {"CONTINGENCY", "PRINTED", "VOIDED"}
      BY <1>2, <2>2 DEF IInv, GivenUpIsVisible, JobsOf
    <3>2. QED
      BY <1>3, <3>1 DEF d, FiscalStatuses
  <2>3. QED
    BY <2>1, <2>2
<1>10. ContingencyHasReason'
  <2> SUFFICES ASSUME NEW e \in Docs, fiscal'[e] = "CONTINGENCY", ~declared[e]
               PROVE \E i \in Jobs : /\ job'[i] # NoJob /\ job'[i].doc = e
                                     /\ job'[i].attempts >= MaxAttempts
    BY DEF ContingencyHasReason, JobsOf
  <2>1. CASE fiscal[e] = "CONTINGENCY"
    <3>1. PICK i \in Jobs : job[i] # NoJob /\ job[i].doc = e /\ job[i].attempts >= MaxAttempts
      BY <2>1 DEF IInv, ContingencyHasReason, JobsOf
    <3>2. CASE i = j
      <4>1. job'[j].attempts >= MaxAttempts
        BY <1>1, <1>2, <3>1, <3>2, FiscalAssumption
      <4>2. QED
        BY <1>2, <3>1, <3>2, <4>1 DEF d
    <3>3. CASE i # j
      BY <1>2, <3>1, <3>3
    <3>4. QED
      BY <3>2, <3>3
  <2>2. CASE fiscal[e] # "CONTINGENCY"
    <3>1. e = d /\ f = "CONTINGENCY"
      BY <1>3, <2>2
    <3>2. job[j].attempts + 1 >= MaxAttempts
      BY <2>2, <3>1 DEF d
    <3>3. QED
      BY <1>2, <3>1, <3>2
  <2>3. QED
    BY <2>1, <2>2
<1>11. QED
  BY <1>4, <1>5, <1>6, <1>7, <1>8, <1>9, <1>10 DEF IInv

\* A request adds a row that waits and touches no other.
LEMMA RequestedRow ==
  ASSUME TypeOK, NEW d \in Docs, NEW k \in Keys \cup {Blank}, NEW j \in Jobs, Request(d, k, j)
  PROVE  /\ job' \in [Jobs -> Rows]
         /\ job[j] = NoJob /\ job'[j] # NoJob
         /\ job'[j].doc = d /\ job'[j].status = "PENDING"
         /\ \A i \in Jobs \ {j} : job'[i] = job[i]
<1> DEFINE r == [doc |-> d, key |-> k, status |-> "PENDING", attempts |-> 0]
<1>1. r \in JobRows
  BY DEF JobRows, JobStatuses
<1>2. r # NoJob
  BY <1>1, RowIsJob
<1>3. job' = [job EXCEPT ![j] = r] /\ job[j] = NoJob
  BY DEF Request
<1>4. job'[j] = r /\ \A i \in Jobs \ {j} : job'[i] = job[i]
  BY <1>3 DEF TypeOK
<1>5. job' \in [Jobs -> Rows]
  BY <1>1, <1>3 DEF TypeOK, Rows
<1>6. QED
  BY <1>2, <1>3, <1>4, <1>5

\* New waiting jobs disturb nothing that is said of jobs, as long as the fiscal status
\* they find only comes to ISSUED from NONE.
LEMMA RequestInv ==
  ASSUME IInv, NEW d \in Docs, NEW k \in Keys \cup {Blank}, NEW j \in Jobs, Request(d, k, j),
         UNCHANGED <<declared, list>>,
         docStatus' \in [Docs -> {"ABSENT", "DRAFT", "ISSUED", "VOIDED"}],
         docStatus'[d] = "ISSUED",
         \A e \in Docs \ {d} : docStatus'[e] = docStatus[e] /\ fiscal'[e] = fiscal[e],
         fiscal'[d] = fiscal[d] \/ (fiscal[d] = "NONE" /\ fiscal'[d] = "ISSUED")
  PROVE  Requested' /\ FailedPrintHasRetry' /\ GivenUpIsVisible' /\ ContingencyHasReason'
<1>1. TypeOK
  BY DEF IInv
<1>2. /\ job[j] = NoJob /\ job'[j] # NoJob
      /\ job'[j].doc = d /\ job'[j].status = "PENDING"
      /\ \A i \in Jobs \ {j} : job'[i] = job[i]
  BY <1>1, RequestedRow
<1>3. Requested'
  <2>1. ASSUME NEW i \in Jobs, job'[i] # NoJob
        PROVE docStatus'[job'[i].doc] \in {"ISSUED", "VOIDED"}
    <3>1. CASE i = j
      BY <1>2, <3>1
    <3>2. CASE i # j
      <4>1. job'[i] = job[i] /\ job[i].doc \in Docs
        BY <1>1, <1>2, <2>1, <3>2, RowOrNone
      <4>2. docStatus[job[i].doc] \in {"ISSUED", "VOIDED"}
        BY <2>1, <4>1 DEF IInv, Requested
      <4>3. QED
        BY <4>1, <4>2
    <3>3. QED
      BY <3>1, <3>2
  <2>2. \A w \in Workers : list[w] \subseteq Jobs
    BY <1>1 DEF TypeOK
  <2>3. \A w \in Workers : \A i \in list'[w] : job'[i] # NoJob
    BY <1>2, <2>2 DEF IInv, Requested
  <2>4. QED
    BY <2>1, <2>3 DEF Requested
<1>4. \A i \in Jobs : job[i] # NoJob => job'[i] = job[i]
  BY <1>2
<1>5. \A e \in Docs : fiscal'[e] \in {"FAILED_PRINT", "CONTINGENCY"} => fiscal[e] = fiscal'[e]
  OBVIOUS
<1>6. FailedPrintHasRetry'
  BY <1>4, <1>5 DEF IInv, FailedPrintHasRetry, JobsOf
<1>7. ContingencyHasReason'
  BY <1>4, <1>5 DEF IInv, ContingencyHasReason, JobsOf
<1>8. GivenUpIsVisible'
  <2> SUFFICES ASSUME NEW e \in Docs, NEW i \in Jobs, job'[i] # NoJob, job'[i].doc = e,
                      job'[i].status = "FAILED"
               PROVE fiscal'[e] \in {"CONTINGENCY", "PRINTED", "VOIDED"}
    BY DEF GivenUpIsVisible, JobsOf
  <2>1. i # j /\ job'[i] = job[i]
    BY <1>2
  <2>2. fiscal[e] \in {"CONTINGENCY", "PRINTED", "VOIDED"}
    BY <2>1 DEF IInv, GivenUpIsVisible, JobsOf
  <2>3. QED
    BY <2>2
<1>9. QED
  BY <1>3, <1>6, <1>7, <1>8

\* Giving the next number keeps the numbers dense.
LEMMA NumberedInv ==
  ASSUME IInv, NEW d \in Docs, Numbered(d)
  PROVE  NumbersDense' /\ Agree' /\ fiscal[d] = "NONE" /\ docStatus[d] = "DRAFT"
<1>1. /\ docStatus[d] = "DRAFT" /\ number[d] = 0 /\ fiscal[d] = "NONE"
      /\ nextNumber' = nextNumber + 1 /\ nextNumber \in Nat \ {0}
      /\ number'[d] = nextNumber
      /\ docStatus'[d] = "ISSUED" /\ fiscal'[d] = "ISSUED"
      /\ \A e \in Docs \ {d} : /\ number'[e] = number[e] /\ number[e] \in Nat
                               /\ docStatus'[e] = docStatus[e] /\ fiscal'[e] = fiscal[e]
  BY DEF Numbered, Issuable, AfterIssue, IInv, TypeOK, NumbersDense, Agree
<1>2. \A n \in 1..(nextNumber' - 1) : \E e \in Docs : number'[e] = n
  <2> SUFFICES ASSUME NEW n \in 1..(nextNumber' - 1) PROVE \E e \in Docs : number'[e] = n
    OBVIOUS
  <2>1. CASE n = nextNumber
    BY <1>1, <2>1
  <2>2. CASE n # nextNumber
    <3>1. n \in 1..(nextNumber - 1)
      BY <1>1, <2>2
    <3>2. PICK e \in Docs : number[e] = n
      BY <3>1 DEF IInv, NumbersDense
    <3>3. e # d
      BY <1>1, <3>1, <3>2
    <3>4. QED
      BY <1>1, <3>2, <3>3
  <2>3. QED
    BY <2>1, <2>2
<1>3. \A e \in Docs : /\ number'[e] < nextNumber'
                      /\ (number'[e] = 0) <=> (docStatus'[e] \in {"ABSENT", "DRAFT"})
  BY <1>1 DEF IInv, NumbersDense
<1>4. \A e, g \in Docs : number'[e] = number'[g] /\ number'[e] # 0 => e = g
  BY <1>1 DEF IInv, NumbersDense
<1>5. Agree'
  BY <1>1 DEF IInv, Agree
<1>6. NumbersDense'
  BY <1>2, <1>3, <1>4 DEF NumbersDense
<1>7. QED
  BY <1>1, <1>5, <1>6

LEMMA StepInv == IInv /\ [Next]_vars => IInv'
<1> SUFFICES ASSUME IInv, [Next]_vars PROVE IInv'
  OBVIOUS
<1> USE DEF IInv
<1>1. ASSUME NEW d \in Docs, CreateDraft(d) PROVE IInv'
  <2>1. /\ docStatus[d] = "ABSENT" /\ docStatus'[d] = "DRAFT"
        /\ \A e \in Docs \ {d} : docStatus'[e] = docStatus[e]
        /\ UNCHANGED <<number, nextNumber, fiscal, declared, job, list>>
    BY <1>1 DEF CreateDraft, TypeOK
  <2>2. TypeOK'
    BY <1>1 DEF CreateDraft, TypeOK
  <2>3. NumbersDense' /\ Agree'
    BY <2>1 DEF NumbersDense, Agree
  <2>4. Requested'
    <3>1. \A j \in Jobs : job[j] # NoJob => job[j].doc \in Docs
      BY RowOrNone
    <3>2. QED
      BY <2>1, <3>1 DEF Requested
  <2>5. FailedPrintHasRetry' /\ GivenUpIsVisible' /\ ContingencyHasReason'
    BY <2>1 DEF FailedPrintHasRetry, GivenUpIsVisible, ContingencyHasReason, JobsOf
  <2>6. QED
    BY <2>2, <2>3, <2>4, <2>5
<1>2. ASSUME NEW d \in Docs, Issue(d) PROVE IInv'
  <2>1. NumbersDense' /\ Agree' /\ fiscal[d] = "NONE" /\ docStatus[d] = "DRAFT"
    BY <1>2, NumberedInv DEF Issue
  <2>2. /\ fiscal'[d] = "ISSUED" /\ docStatus'[d] = "ISSUED"
        /\ \A e \in Docs \ {d} : docStatus'[e] = docStatus[e] /\ fiscal'[e] = fiscal[e]
        /\ UNCHANGED <<declared, job, list>>
    BY <1>2 DEF Issue, Numbered, AfterIssue, TypeOK
  <2>3. TypeOK'
    BY <1>2 DEF Issue, Numbered, AfterIssue, TypeOK, FiscalStatuses
  <2>4. Requested'
    <3>1. \A j \in Jobs : job[j] # NoJob => job[j].doc \in Docs
      BY RowOrNone
    <3>2. QED
      BY <2>2, <3>1 DEF Requested
  <2>5. FailedPrintHasRetry' /\ ContingencyHasReason'
    BY <2>2 DEF FailedPrintHasRetry, ContingencyHasReason, JobsOf
  <2>6. GivenUpIsVisible'
    BY <2>1, <2>2 DEF GivenUpIsVisible, JobsOf
  <2>7. QED
    BY <2>1, <2>3, <2>4, <2>5, <2>6
<1>3. ASSUME NEW d \in Docs, NEW k \in Keys, NEW j \in Jobs, IssueAndPrint(d, k, j) PROVE IInv'
  <2>1. Numbered(d) /\ Request(d, k, j)
    BY <1>3 DEF IssueAndPrint
  <2>2. NumbersDense' /\ Agree' /\ fiscal[d] = "NONE"
    BY <2>1, NumberedInv
  <2>3. /\ fiscal'[d] = "ISSUED" /\ docStatus'[d] = "ISSUED"
        /\ \A e \in Docs \ {d} : docStatus'[e] = docStatus[e] /\ fiscal'[e] = fiscal[e]
        /\ UNCHANGED <<declared, list>>
    BY <2>1 DEF Numbered, AfterIssue, TypeOK
  <2>4. TypeOK'
    <3>1. job' \in [Jobs -> Rows]
      BY <2>1, RequestedRow
    <3>2. QED
      BY <2>1, <3>1 DEF Numbered, AfterIssue, TypeOK, FiscalStatuses, Rows
  <2>5. Requested' /\ FailedPrintHasRetry' /\ GivenUpIsVisible' /\ ContingencyHasReason'
    BY <2>1, <2>2, <2>3, <2>4, RequestInv DEF TypeOK
  <2>6. QED
    BY <2>2, <2>4, <2>5
<1>4. ASSUME NEW d \in Docs, NEW k \in Keys \cup {Blank}, NEW j \in Jobs, QueuePrint(d, k, j)
      PROVE IInv'
  <2>1. /\ Request(d, k, j) /\ docStatus[d] = "ISSUED"
        /\ UNCHANGED <<docStatus, number, nextNumber, fiscal, declared, list>>
    BY <1>4 DEF QueuePrint
  <2>2. TypeOK'
    <3>1. job' \in [Jobs -> Rows]
      BY <2>1, RequestedRow
    <3>2. QED
      BY <2>1, <3>1 DEF TypeOK, Rows
  <2>3. NumbersDense' /\ Agree'
    BY <2>1 DEF NumbersDense, Agree
  <2>4. Requested' /\ FailedPrintHasRetry' /\ GivenUpIsVisible' /\ ContingencyHasReason'
    BY <2>1, <2>2, RequestInv DEF TypeOK
  <2>5. QED
    BY <2>2, <2>3, <2>4
<1>5. ASSUME NEW d \in Docs, MarkContingency(d) PROVE IInv'
  <2>1. /\ docStatus[d] = "ISSUED" /\ fiscal[d] # "NONE" /\ fiscal[d] # "VOIDED"
        /\ fiscal'[d] = "CONTINGENCY" /\ declared'[d]
        /\ \A e \in Docs \ {d} : fiscal'[e] = fiscal[e] /\ declared'[e] = declared[e]
        /\ UNCHANGED <<docStatus, number, nextNumber, job, list>>
    BY <1>5 DEF MarkContingency, TypeOK, Agree
  <2>2. TypeOK'
    BY <1>5 DEF MarkContingency, TypeOK, FiscalStatuses
  <2>3. NumbersDense' /\ Agree' /\ Requested'
    BY <2>1 DEF NumbersDense, Agree, Requested
  <2>4. FailedPrintHasRetry' /\ GivenUpIsVisible' /\ ContingencyHasReason'
    BY <2>1 DEF FailedPrintHasRetry, GivenUpIsVisible, ContingencyHasReason, JobsOf
  <2>5. QED
    BY <2>2, <2>3, <2>4
<1>6. ASSUME NEW d \in Docs, VoidDoc(d) PROVE IInv'
  <2>1. /\ docStatus[d] = "ISSUED"
        /\ fiscal'[d] = "VOIDED" /\ docStatus'[d] = "VOIDED"
        /\ \A e \in Docs \ {d} : fiscal'[e] = fiscal[e] /\ docStatus'[e] = docStatus[e]
        /\ UNCHANGED <<number, nextNumber, declared, list>>
    BY <1>6 DEF VoidDoc, TypeOK
  <2>2. ASSUME NEW j \in Jobs
        PROVE /\ job'[j] \in Rows
              /\ (job'[j] # NoJob) <=> (job[j] # NoJob)
              /\ job[j] # NoJob => /\ job'[j].doc = job[j].doc /\ job[j].doc \in Docs
                                   /\ job'[j].attempts = job[j].attempts
              /\ job'[j] # job[j] => job[j].doc = d
    <3>1. CASE Closed(d, j)
      <4>1. job[j] \in JobRows /\ job[j] # NoJob /\ job[j].doc = d
        BY <3>1, RowOrNone DEF Closed
      <4>2. job'[j] = [job[j] EXCEPT !.status = "FAILED"]
        BY <1>6, <3>1 DEF VoidDoc
      <4>3. job'[j] \in JobRows /\ job'[j].doc = d /\ job'[j].attempts = job[j].attempts
        BY <4>1, <4>2 DEF JobRows, JobStatuses
      <4>4. QED
        BY <4>1, <4>3, RowIsJob DEF Rows
    <3>2. CASE ~Closed(d, j)
      <4>1. job'[j] = job[j]
        BY <1>6, <3>2 DEF VoidDoc
      <4>2. QED
        BY <4>1, RowOrNone DEF TypeOK, Rows
    <3>3. QED
      BY <3>1, <3>2
  <2>3. TypeOK'
    <3>1. job' \in [Jobs -> Rows]
      BY <1>6, <2>2 DEF VoidDoc
    <3>2. QED
      BY <1>6, <3>1 DEF VoidDoc, TypeOK, FiscalStatuses, Rows
  <2>4. NumbersDense' /\ Agree'
    BY <2>1 DEF NumbersDense, Agree
  <2>5. Requested'
    <3>1. \A w \in Workers : list[w] \subseteq Jobs
      BY DEF TypeOK
    <3>2. QED
      BY <2>1, <2>2, <3>1 DEF Requested
  <2>6. FailedPrintHasRetry'
    <3> SUFFICES ASSUME NEW e \in Docs, fiscal'[e] = "FAILED_PRINT"
                 PROVE \E i \in Jobs : job'[i] # NoJob /\ job'[i].doc = e /\ job'[i].status \in Active
      BY DEF FailedPrintHasRetry, JobsOf
    <3>1. PICK i \in Jobs : job[i] # NoJob /\ job[i].doc = e /\ job[i].status \in Active
      BY <2>1 DEF FailedPrintHasRetry, JobsOf
    <3>2. job'[i] = job[i]
      BY <2>1, <2>2, <3>1
    <3>3. QED
      BY <3>1, <3>2
  <2>7. GivenUpIsVisible'
    <3> SUFFICES ASSUME NEW e \in Docs, NEW i \in Jobs, job'[i] # NoJob, job'[i].doc = e,
                        job'[i].status = "FAILED"
                 PROVE fiscal'[e] \in {"CONTINGENCY", "PRINTED", "VOIDED"}
      BY DEF GivenUpIsVisible, JobsOf
    <3>1. CASE e = d
      BY <2>1, <3>1
    <3>2. CASE e # d
      <4>1. job'[i] = job[i]
        BY <2>2, <3>2
      <4>2. QED
        BY <2>1, <3>2, <4>1 DEF GivenUpIsVisible, JobsOf
    <3>3. QED
      BY <3>1, <3>2
  <2>8. ContingencyHasReason'
    BY <2>1, <2>2 DEF ContingencyHasReason, JobsOf
  <2>9. QED
    BY <2>3, <2>4, <2>5, <2>6, <2>7, <2>8
<1>7. ASSUME NEW j \in Jobs, RetryJob(j) PROVE IInv'
  <2>1. job[j] # NoJob /\ job[j] \in JobRows
    BY <1>7, RowOrNone DEF RetryJob
  <2>2. job'[j] = [job[j] EXCEPT !.status = "PENDING"] /\ \A i \in Jobs \ {j} : job'[i] = job[i]
    BY <1>7 DEF RetryJob, TypeOK
  <2>3. /\ job'[j] \in JobRows /\ job'[j].doc = job[j].doc /\ job'[j].status = "PENDING"
        /\ job'[j].attempts = job[j].attempts
    BY <2>1, <2>2 DEF JobRows, JobStatuses
  <2>4. job'[j] # NoJob
    BY <2>3, RowIsJob
  <2>5. UNCHANGED <<docStatus, number, nextNumber, fiscal, declared, list>>
    BY <1>7 DEF RetryJob
  <2>6. TypeOK'
    <3>1. job' \in [Jobs -> Rows]
      BY <1>7, <2>2, <2>3 DEF RetryJob, TypeOK, Rows
    <3>2. QED
      BY <2>5, <3>1 DEF TypeOK, Rows
  <2>7. NumbersDense' /\ Agree'
    BY <2>5 DEF NumbersDense, Agree
  <2>8. Requested'
    <3>1. \A w \in Workers : list[w] \subseteq Jobs
      BY DEF TypeOK
    <3>2. \A i \in Jobs : /\ (job'[i] # NoJob) <=> (job[i] # NoJob)
                          /\ job[i] # NoJob => job'[i].doc = job[i].doc
      BY <2>1, <2>2, <2>3, <2>4
    <3>3. QED
      BY <2>5, <3>1, <3>2 DEF Requested
  <2>9. \A i \in Jobs :
           /\ (job'[i] # NoJob) <=> (job[i] # NoJob)
           /\ job[i] # NoJob => /\ job'[i].doc = job[i].doc
                                /\ job'[i].attempts = job[i].attempts
                                /\ job'[i].status \in {job[i].status, "PENDING"}
    BY <2>1, <2>2, <2>3, <2>4
  <2>10. FailedPrintHasRetry' /\ GivenUpIsVisible'
    <3>1. FailedPrintHasRetry'
      BY <2>5, <2>9 DEF FailedPrintHasRetry, JobsOf, Active
    <3>2. GivenUpIsVisible'
      BY <2>5, <2>9 DEF GivenUpIsVisible, JobsOf
    <3>3. QED
      BY <3>1, <3>2
  <2>11. ContingencyHasReason'
    BY <2>5, <2>9 DEF ContingencyHasReason, JobsOf
  <2>12. QED
    BY <2>6, <2>7, <2>8, <2>10, <2>11
<1>8. ASSUME NEW w \in Workers, StartCycle(w) \/ Abort(w) \/ \E j \in Jobs : PrintRefused(w, j)
      PROVE IInv'
  <2>1. UNCHANGED <<docStatus, number, nextNumber, fiscal, declared, job>>
    BY <1>8 DEF StartCycle, Abort, PrintRefused
  <2>2. list' \in [Workers -> SUBSET {j \in Jobs : job[j] # NoJob}]
    <3> DEFINE Known == {j \in Jobs : job[j] # NoJob}
    <3>1. list \in [Workers -> SUBSET Known]
      BY DEF TypeOK, Requested
    <3>2. \A S \in SUBSET Known : FirstOf(S) \in SUBSET Known
      BY DEF FirstOf
    <3>3. HasStatus("PENDING") \in SUBSET Known /\ HasStatus("RETRY") \in SUBSET Known
      BY DEF HasStatus
    <3>4. \E S \in SUBSET Known : list' = [list EXCEPT ![w] = S]
      <4>1. CASE StartCycle(w)
        <5>1. PICK elapsed \in SUBSET HasStatus("RETRY") :
                     list' = [list EXCEPT ![w] = FirstOf(HasStatus("PENDING") \cup elapsed)]
          BY <4>1 DEF StartCycle
        <5>2. HasStatus("PENDING") \cup elapsed \in SUBSET Known
          BY <3>3
        <5> HIDE DEF Known
        <5>3. QED
          BY <3>2, <5>1, <5>2
      <4>2. CASE Abort(w) \/ \E j \in Jobs : PrintRefused(w, j)
        BY <4>2 DEF Abort, PrintRefused
      <4>3. QED
        BY <1>8, <4>1, <4>2
    <3> HIDE DEF Known
    <3>5. list' \in [Workers -> SUBSET Known]
      BY <3>1, <3>4
    <3>6. QED
      BY <3>5 DEF Known
  <2>4. TypeOK'
    BY <2>1, <2>2 DEF TypeOK
  <2>5. NumbersDense' /\ Agree' /\ FailedPrintHasRetry' /\ GivenUpIsVisible' /\ ContingencyHasReason'
    BY <2>1 DEF NumbersDense, Agree, FailedPrintHasRetry, GivenUpIsVisible, ContingencyHasReason, JobsOf
  <2>6. Requested'
    BY <2>1, <2>2 DEF Requested
  <2>7. QED
    BY <2>4, <2>5, <2>6
<1>9. ASSUME NEW w \in Workers, NEW j \in Jobs, PrintDone(w, j) PROVE IInv'
  <2>1. /\ Visits(w, j) /\ Attempted(j, "PRINTED")
        /\ fiscal' = [fiscal EXCEPT ![job[j].doc] = "PRINTED"]
        /\ list' = [list EXCEPT ![w] = @ \ {j}]
        /\ UNCHANGED <<docStatus, number, nextNumber, declared>>
    BY <1>9 DEF PrintDone
  <2>2. fiscal[job[j].doc] # "VOIDED"
    BY <1>9 DEF PrintDone, Allowed, Transitions
  <2>3. QED
    BY <2>1, <2>2, VisitInv DEF JobStatuses, FiscalStatuses
<1>10. ASSUME NEW w \in Workers, NEW j \in Jobs, PrintFails(w, j) PROVE IInv'
  <2> DEFINE f == AfterFailure(fiscal[job[j].doc])
  <2>1. /\ Visits(w, j) /\ Attempted(j, "RETRY")
        /\ fiscal' = [fiscal EXCEPT ![job[j].doc] = f]
        /\ list' = [list EXCEPT ![w] = @ \ {j}]
        /\ UNCHANGED <<docStatus, number, nextNumber, declared>>
    BY <1>10 DEF PrintFails
  <2>2. fiscal[job[j].doc] \in FiscalStatuses
    BY <1>10, VisitedStatus DEF PrintFails
  <2>3. /\ f \in FiscalStatuses /\ f # "ISSUED"
        /\ (f = "VOIDED") <=> (fiscal[job[j].doc] = "VOIDED")
        /\ f = "FAILED_PRINT" => fiscal[job[j].doc] \in {"ISSUED", "FAILED_PRINT"}
        /\ f = "CONTINGENCY" => fiscal[job[j].doc] = "CONTINGENCY"
    BY <2>2 DEF AfterFailure, FiscalStatuses
  <2> HIDE DEF f
  <2>4. QED
    BY <2>1, <2>3, VisitInv DEF JobStatuses, Active
<1>11. ASSUME NEW w \in Workers, NEW j \in Jobs, PrintExhausted(w, j) PROVE IInv'
  <2>1. /\ Visits(w, j) /\ Attempted(j, "FAILED")
        /\ fiscal' = [fiscal EXCEPT ![job[j].doc] = "CONTINGENCY"]
        /\ list' = [list EXCEPT ![w] = @ \ {j}]
        /\ UNCHANGED <<docStatus, number, nextNumber, declared>>
        /\ job[j].attempts + 1 >= MaxAttempts
    BY <1>11 DEF PrintExhausted, GivenUp, Exhausted
  <2>2. fiscal[job[j].doc] # "VOIDED"
    BY <1>11 DEF PrintExhausted, Allowed, Transitions
  <2>3. QED
    BY <2>1, <2>2, VisitInv DEF JobStatuses, FiscalStatuses
<1>12. CASE UNCHANGED vars
  BY <1>12 DEF vars, TypeOK, NumbersDense, Agree, Requested, FailedPrintHasRetry, GivenUpIsVisible,
               ContingencyHasReason, JobsOf
<1>13. QED
  BY <1>1, <1>2, <1>3, <1>4, <1>5, <1>6, <1>7, <1>8, <1>9, <1>10, <1>11, <1>12 DEF Next

\* The inductive invariant: the statuses agree, only issued documents have jobs, and the
\* four properties below, in every reachable state.
THEOREM Inductive == Spec => []IInv
  BY InitInv, StepInv, PTL DEF Spec

\* Documents, jobs and lists stay in their ranges and numbers stay naturals
\* (BillingDocument, FiscalPrintJob).
THEOREM TypeCorrect == Spec => []TypeOK
<1>1. IInv => TypeOK
  BY DEF IInv
<1>2. QED
  BY <1>1, Inductive, PTL

\* The numbers of a series are dense, whatever number of documents is issued, answered
\* twice, refused or voided (issue_doc, _allocate_document_number).
THEOREM NumbersDenseHolds == Spec => []NumbersDense
<1>1. IInv => NumbersDense
  BY DEF IInv
<1>2. QED
  BY <1>1, Inductive, PTL

\* A document that failed to print always has an active job, however many cycles overlap
\* and jobs are requested or rescheduled (_process_print_job, void_doc).
THEOREM FailedPrintHasRetryHolds == Spec => []FailedPrintHasRetry
<1>1. IInv => FailedPrintHasRetry
  BY DEF IInv
<1>2. QED
  BY <1>1, Inductive, PTL

\* No job is given up while its document still looks as if it waited (_process_print_job).
THEOREM GivenUpIsVisibleHolds == Spec => []GivenUpIsVisible
<1>1. IInv => GivenUpIsVisible
  BY DEF IInv
<1>2. QED
  BY <1>1, Inductive, PTL

\* Contingency was recorded by hand or after the last attempt of a job.
THEOREM ContingencyHasReasonHolds == Spec => []ContingencyHasReason
<1>1. IInv => ContingencyHasReason
  BY DEF IInv
<1>2. QED
  BY <1>1, Inductive, PTL

\* Documents and queue implement the life an auditor sees: every step is a step of
\* FiscalLife or invisible to it.
THEOREM Refinement == Spec => ImplementsLife
<1> DEFINE st == [d \in Docs |-> Stage(d)]
           lv == <<st, number, nextNumber - 1>>
<1>1. Init => Life!Init
  BY DEF Init, Life!Init, Stage
<1>2. IInv /\ [Next]_vars => [Life!Next]_lv
  <2> SUFFICES ASSUME IInv, [Next]_vars PROVE [Life!Next]_lv
    OBVIOUS
  <2> USE DEF Life!Next, Life!Draft, Life!Issue, Life!FormPrinted, Life!Declare, Life!Annul, Life!Becomes
  <2>a. ASSUME NEW d \in Docs,
               \A e \in Docs \ {d} : docStatus'[e] = docStatus[e] /\ fiscal'[e] = fiscal[e]
        PROVE st' = [st EXCEPT ![d] = Stage(d)']
    <3>1. \A e \in Docs \ {d} : Stage(e)' = Stage(e)
      BY <2>a DEF Stage
    <3>2. QED
      BY <3>1
  <2>1. ASSUME UNCHANGED <<docStatus, fiscal, number, nextNumber>> PROVE UNCHANGED lv
    <3>1. \A d \in Docs : Stage(d)' = Stage(d)
      BY <2>1 DEF Stage
    <3>2. QED
      BY <2>1, <3>1
  <2>2. ASSUME NEW d \in Docs, CreateDraft(d) PROVE Life!Draft(d)
    <3>1. Stage(d) = "none" /\ Stage(d)' = "draft"
      BY <2>2 DEF CreateDraft, Stage, IInv, TypeOK
    <3>2. \A e \in Docs \ {d} : docStatus'[e] = docStatus[e] /\ fiscal'[e] = fiscal[e]
      BY <2>2 DEF CreateDraft, IInv, TypeOK
    <3>3. UNCHANGED <<number, nextNumber>>
      BY <2>2 DEF CreateDraft
    <3>4. QED
      BY <2>a, <3>1, <3>2, <3>3
  <2>3. ASSUME NEW d \in Docs, Numbered(d) PROVE Life!Issue(d)
    <3>1. Stage(d) = "draft" /\ Stage(d)' = "waiting"
      BY <2>3 DEF Numbered, Issuable, AfterIssue, Stage, IInv, TypeOK
    <3>2. \A e \in Docs \ {d} : docStatus'[e] = docStatus[e] /\ fiscal'[e] = fiscal[e]
      BY <2>3 DEF Numbered, IInv, TypeOK
    <3>3. /\ nextNumber' - 1 = (nextNumber - 1) + 1
          /\ number' = [number EXCEPT ![d] = (nextNumber - 1) + 1]
      BY <2>3 DEF Numbered, IInv, TypeOK
    <3>4. QED
      BY <2>a, <3>1, <3>2, <3>3
  <2>4. ASSUME NEW d \in Docs, MarkContingency(d) PROVE Life!Declare(d)
    <3>1. docStatus[d] = "ISSUED" /\ fiscal[d] \in {"ISSUED", "FAILED_PRINT"}
      BY <2>4 DEF MarkContingency, Allowed, Transitions, IInv, TypeOK, Agree, FiscalStatuses
    <3>2. Stage(d) = "waiting" /\ Stage(d)' = "contingency"
      BY <2>4, <3>1 DEF MarkContingency, Stage, IInv, TypeOK
    <3>3. \A e \in Docs \ {d} : docStatus'[e] = docStatus[e] /\ fiscal'[e] = fiscal[e]
      BY <2>4 DEF MarkContingency, IInv, TypeOK
    <3>4. UNCHANGED <<number, nextNumber>>
      BY <2>4 DEF MarkContingency
    <3>5. QED
      BY <2>a, <3>2, <3>3, <3>4
  <2>5. ASSUME NEW d \in Docs, VoidDoc(d) PROVE Life!Annul(d)
    <3>1. Stage(d) \in {"waiting", "contingency", "printed"} /\ Stage(d)' = "void"
      BY <2>5 DEF VoidDoc, Stage, IInv, TypeOK
    <3>2. \A e \in Docs \ {d} : docStatus'[e] = docStatus[e] /\ fiscal'[e] = fiscal[e]
      BY <2>5 DEF VoidDoc, IInv, TypeOK
    <3>3. UNCHANGED <<number, nextNumber>>
      BY <2>5 DEF VoidDoc
    <3>4. QED
      BY <2>a, <3>1, <3>2, <3>3
  <2>6. ASSUME NEW w \in Workers, NEW j \in Jobs,
               PrintDone(w, j) \/ PrintFails(w, j) \/ PrintExhausted(w, j)
        PROVE Life!Next \/ UNCHANGED lv
    <3>1. PICK d \in Docs : d = job[j].doc /\ fiscal[d] \in FiscalStatuses
      BY <2>6, VisitedStatus DEF PrintDone, PrintFails, PrintExhausted
    <3>2. docStatus[d] = IF fiscal[d] = "VOIDED" THEN "VOIDED" ELSE "ISSUED"
      BY <3>1 DEF IInv, TypeOK, Agree, FiscalStatuses
    <3>3. UNCHANGED <<docStatus, number, nextNumber>>
      BY <2>6 DEF PrintDone, PrintFails, PrintExhausted
    <3>4. \A e \in Docs \ {d} : docStatus'[e] = docStatus[e] /\ fiscal'[e] = fiscal[e]
      BY <2>6, <3>1 DEF PrintDone, PrintFails, PrintExhausted, IInv, TypeOK
    <3>5. st' = [st EXCEPT ![d] = Stage(d)']
      BY <2>a, <3>1, <3>4
    <3>6. CASE PrintDone(w, j)
      <4>1. fiscal'[d] = "PRINTED" /\ fiscal[d] # "VOIDED"
        BY <3>1, <3>6 DEF PrintDone, Allowed, Transitions, IInv, TypeOK
      <4>2. Stage(d)' = "printed" /\ Stage(d) \in {"waiting", "contingency", "printed"}
        BY <3>1, <3>2, <3>3, <4>1 DEF Stage, FiscalStatuses
      <4>3. CASE Stage(d) = "printed"
        <5>1. st' = st
          BY <3>5, <4>2, <4>3
        <5>2. QED
          BY <3>3, <5>1
      <4>4. CASE Stage(d) # "printed"
        BY <3>1, <3>3, <3>5, <4>2, <4>4
      <4>5. QED
        BY <4>3, <4>4
    <3>7. CASE PrintFails(w, j)
      <4>1. fiscal'[d] = AfterFailure(fiscal[d])
        BY <3>1, <3>7 DEF PrintFails, IInv, TypeOK
      <4>2. Stage(d)' = Stage(d)
        BY <3>1, <3>2, <3>3, <4>1 DEF Stage, AfterFailure, FiscalStatuses
      <4>3. QED
        BY <3>1, <3>3, <3>5, <4>2
    <3>8. CASE PrintExhausted(w, j)
      <4>1. fiscal'[d] = "CONTINGENCY" /\ fiscal[d] \in {"ISSUED", "FAILED_PRINT", "CONTINGENCY"}
        BY <3>1, <3>8
        DEF PrintExhausted, GivenUp, Allowed, Transitions, FiscalStatuses, IInv, TypeOK
      <4>2. Stage(d)' = "contingency" /\ Stage(d) \in {"waiting", "contingency"}
        BY <3>1, <3>2, <3>3, <4>1 DEF Stage
      <4>3. CASE Stage(d) = "contingency"
        <5>1. st' = st
          BY <3>5, <4>2, <4>3
        <5>2. QED
          BY <3>3, <5>1
      <4>4. CASE Stage(d) # "contingency"
        BY <3>1, <3>3, <3>5, <4>2, <4>4
      <4>5. QED
        BY <4>3, <4>4
    <3>9. QED
      BY <2>6, <3>6, <3>7, <3>8
  <2>7. QED
    BY <2>1, <2>2, <2>3, <2>4, <2>5, <2>6
    DEF Next, vars, Issue, IssueAndPrint, QueuePrint, RetryJob, StartCycle, PrintRefused, Abort
<1>3. QED
  BY <1>1, <1>2, Inductive, PTL DEF Spec, ImplementsLife, Life!Spec
=============================================================================
