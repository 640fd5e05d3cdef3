---------------------------- MODULE Closing_proofs ----------------------------
(***************************************************************************)
(* What is closed stays right, for any constants.  Close runs: the types,   *)
(* and that a run last said to be packaged has no open exception that       *)
(* blocks.  Intercompany: closed transactions match and stay as they were.  *)
(***************************************************************************)
EXTENDS CloseRuns, Intercompany, TLAPS

(* Close runs.                                                             *)

\* A cycle works on a trigger that is there.
RowsExist ==
  \A p \in Projectors :
    projector[p] # Asleep => projector[p].row <= projector[p].end
                             /\ projector[p].end <= Len(triggers)

Core == CloseTypeOK /\ LastSaidPackagedIsClean

CloseInv == Core /\ RowsExist

LEMMA CausesAreCauses == ASSUME NEW r \in Runs PROVE SUBSET CausesOf[r] \subseteq SUBSET Causes
  BY DEF Causes

LEMMA RegisterType ==
  ASSUME CloseTypeOK, NEW r \in Runs, NEW cs \in SUBSET (Causes \cup Events), NEW strict \in BOOLEAN
  PROVE  Register(r, cs, strict) \subseteq Exceptions
<1>1. \A c : Blocks(c, strict) \in BOOLEAN
  BY DEF Blocks
<1>2. \A c \in cs : [run |-> r, cause |-> c, blocking |-> Blocks(c, strict)] \in Exceptions
  BY <1>1 DEF Exceptions
<1> QED
  BY <1>2 DEF Register, CloseTypeOK

\* What is registered for a run leaves the exceptions of the others alone.
LEMMA RegisterLocal ==
  ASSUME NEW r, NEW cs, NEW strict, NEW q, q # r
  PROVE  Blocking(Register(r, cs, strict), q) = Blocking(exceptions, q)
  BY DEF Register, Blocking

LEMMA RegisterNothing ==
  ASSUME NEW r, NEW strict
  PROVE  Register(r, {}, strict) = exceptions
  BY DEF Register

LEMMA BatchIsRows ==
  ASSUME CloseTypeOK, Batch > 0
  PROVE  1 \in Rows /\ Batch \in Rows
  BY CloseAssumption DEF Batch, Least, Rows, CloseTypeOK

\* Where a cycle may be once it works on a row.
LEMMA CycleType ==
  ASSUME CloseTypeOK, NEW p \in Projectors, projector[p] # Asleep
  PROVE  projector[p].row \in Rows /\ projector[p].end \in Rows
  BY DEF CloseTypeOK, Asleep

Places ==
  {Asleep} \cup [at : {"look", "project"}, row : Rows, end : Rows]
         \cup [at : {"save"}, row : Rows, end : Rows, result : {"FAILED", "PROCESSED"}]

LEMMA OnwardExists ==
  ASSUME NEW c, c.row \in Nat, c.end \in Nat, c.row <= c.end, c.end <= Len(triggers), Onward(c) # Asleep
  PROVE  Onward(c).row <= Onward(c).end /\ Onward(c).end <= Len(triggers)
  BY DEF Onward

LEMMA NextPlace ==
  ASSUME CloseTypeOK, NEW c, c.row \in Rows, c.end \in Rows, NEW result \in {"FAILED", "PROCESSED"}
  PROVE  Onward(c) \in Places /\ Saving(c, result) \in Places
<1>1. c.row < c.end => c.row + 1 \in Rows
  BY CloseAssumption DEF Rows
<1> QED
  BY <1>1 DEF Onward, Saving, Places

LEMMA CloseInitInv == CloseInit => CloseInv
  BY CloseAssumption DEF CloseInit, CloseInv, Core, CloseTypeOK, RowsExist, LastSaidPackagedIsClean, RunStatuses, InboxStatuses, Asleep

LEMMA ResolveInv ==
  ASSUME CloseInv, NEW x \in exceptions, Resolve(x)
  PROVE  Core'
  BY DEF CloseInv, Core, Resolve, CloseTypeOK, RowsExist, LastSaidPackagedIsClean, Blocking

LEMMA ExecuteInv ==
  ASSUME CloseInv, NEW r \in Runs, NEW strict \in BOOLEAN, NEW found \in SUBSET Causes,
         Execute(r, strict, found)
  PROVE  Core'
<1> USE DEF CloseInv, Core
<1> DEFINE rows == Register(r, found, strict)
<1>1. rows \subseteq Exceptions
  BY RegisterType
<1>2. triggers' \in Seq(Runs) /\ Len(triggers') <= MaxTriggers
  <2>1. Len(triggers) \in Nat
    BY DEF CloseTypeOK
  <2>2. CASE Blocking(rows, r) # {}
    BY <2>2 DEF Execute, Stopping, CloseTypeOK
  <2>3. CASE Blocking(rows, r) = {}
    BY <2>1, <2>3, CloseAssumption DEF Execute, Stopping, CloseTypeOK
  <2>4. QED
    BY <2>2, <2>3
<1>3. CloseTypeOK'
  BY <1>1, <1>2 DEF Execute, CloseTypeOK, RunStatuses
<1>4. LastSaidPackagedIsClean'
  <2>1. ASSUME NEW q \in Runs, news'[q] = "CloseRunPackaged" PROVE Blocking(rows, q) = {}
    <3>1. CASE q = r
      BY <2>1, <3>1 DEF Execute, Stopping, CloseTypeOK
    <3>2. CASE q # r
      <4>1. news[q] = "CloseRunPackaged"
        BY <2>1, <3>2 DEF Execute, CloseTypeOK
      <4>2. QED
        BY <3>2, <4>1, RegisterLocal DEF LastSaidPackagedIsClean
    <3>3. QED
      BY <3>1, <3>2
  <2>2. QED
    BY <2>1 DEF Execute, LastSaidPackagedIsClean
<1> QED
  BY <1>3, <1>4

LEMMA UserInv ==
  ASSUME CloseInv, NEW u \in Users,
         \/ \E r \in Runs, to \in RunStatuses : CheckAdvance(u, r, to)
         \/ SaveAdvance(u) \/ PublishAdvance(u) \/ DropAdvance(u)
  PROVE  Core'
<1> USE DEF CloseInv, Core
<1>1. ASSUME NEW r \in Runs, NEW to \in RunStatuses, CheckAdvance(u, r, to) PROVE Core'
  <2>1. CloseTypeOK'
    BY <1>1, CloseAssumption DEF CheckAdvance, CloseTypeOK
  <2>2. QED
    BY <1>1, <2>1 DEF CheckAdvance, LastSaidPackagedIsClean
<1>2. CASE SaveAdvance(u)
  <2>1. user[u] \in [at : {"checked", "saved"}, run : Runs, to : RunStatuses]
    BY <1>2 DEF SaveAdvance, CloseTypeOK, Asleep
  <2>2. CloseTypeOK'
    BY <1>2, <2>1 DEF SaveAdvance, CloseTypeOK
  <2>3. QED
    BY <1>2, <2>2 DEF SaveAdvance, LastSaidPackagedIsClean
<1>3. CASE PublishAdvance(u)
  <2>1. CloseTypeOK'
    BY <1>3 DEF PublishAdvance, CloseTypeOK
  <2>2. ASSUME NEW q \in Runs, news'[q] = "CloseRunPackaged" PROVE news[q] = "CloseRunPackaged"
    BY <1>3, <2>2 DEF PublishAdvance, CloseTypeOK
  <2>3. QED
    BY <1>3, <2>1, <2>2 DEF PublishAdvance, LastSaidPackagedIsClean
<1>4. CASE DropAdvance(u)
  BY <1>4 DEF DropAdvance, CloseTypeOK, LastSaidPackagedIsClean
<1> QED
  BY <1>1, <1>2, <1>3, <1>4

LEMMA ProjectInv ==
  ASSUME CloseInv, NEW p \in Projectors, NEW unbooked \in SUBSET Events, Project(p, unbooked)
  PROVE  Core'
<1> USE DEF CloseInv, Core
<1> DEFINE c == projector[p]
           r == triggers[c.row]
           rows == Register(r, unbooked, TRUE)
           blocked == \E x \in Blocking(rows, r) : x.cause \in Events
<1>1. c.row \in Rows /\ c.end \in Rows
  BY CycleType DEF Project, Asleep
<1>2. r \in Runs
  BY <1>1 DEF Project, RowsExist, CloseTypeOK, Asleep, Rows
<1>3. QED
  <2>1. rows \subseteq Exceptions
    BY <1>2, RegisterType
  <2>2. Saving(c, "PROCESSED") \in Places
    BY <1>1, NextPlace
  <2>3. CloseTypeOK'
    BY <2>1, <2>2 DEF Project, CloseTypeOK, Places, RunStatuses
  <2>4. ASSUME NEW q \in Runs, news'[q] = "CloseRunPackaged" PROVE Blocking(rows, q) = {}
    <3>1. CASE q # r
      <4>1. news[q] = "CloseRunPackaged"
        BY <2>4, <3>1 DEF Project, CloseTypeOK
      <4>2. Blocking(exceptions, q) = {}
        BY <4>1 DEF LastSaidPackagedIsClean
      <4>3. Blocking(rows, q) = Blocking(exceptions, q)
        BY <3>1, RegisterLocal
      <4>4. QED
        BY <4>2, <4>3
    <3>2. CASE q = r
      <4>1. ~blocked /\ news[r] = "CloseRunPackaged"
        BY <2>4, <3>2 DEF Project, CloseTypeOK
      <4>2. ASSUME NEW e \in unbooked PROVE FALSE
        <5> DEFINE x == [run |-> r, cause |-> e, blocking |-> Blocks(e, TRUE)]
        <5>1. x \in rows
          BY <4>2 DEF Register
        <5>2. x \in Blocking(rows, r) /\ x.cause \in Events
          BY <5>1, <4>2 DEF Blocking, Blocks
        <5>3. QED
          BY <4>1, <5>2
      <4>3. rows = exceptions
        <5>1. unbooked = {}
          BY <4>2
        <5>2. QED
          BY <5>1, RegisterNothing
      <4>4. QED
        BY <1>2, <3>2, <4>1, <4>3 DEF LastSaidPackagedIsClean
    <3>3. QED
      BY <3>1, <3>2
  <2>5. LastSaidPackagedIsClean'
    BY <2>4 DEF Project, LastSaidPackagedIsClean
  <2>6. QED
    BY <2>3, <2>5

LEMMA CycleInv ==
  ASSUME CloseInv, NEW p \in Projectors,
         Take(p) \/ Look(p) \/ ProjectFails(p) \/ SaveInbox(p) \/ Crash(p)
  PROVE  Core'
<1> USE DEF CloseInv, Core
<1> DEFINE c == projector[p]
<1>1. CASE Take(p)
  <2>1. CloseTypeOK'
    BY <1>1, BatchIsRows DEF Take, CloseTypeOK
  <2>2. QED
    BY <1>1, <2>1 DEF Take, LastSaidPackagedIsClean
<1>2. CASE Look(p)
  <2>1. c.row \in Rows /\ c.end \in Rows
    BY <1>2, CycleType DEF Look, Asleep
  <2>2. c = [at |-> "look", row |-> c.row, end |-> c.end]
    BY <1>2 DEF Look, CloseTypeOK, Asleep
  <2>3. projector'[p] \in Places
    <3>1. [c EXCEPT !.at = "project"] \in Places
      BY <2>1, <2>2 DEF Places
    <3>2. QED
      BY <1>2, <2>1, <3>1, NextPlace DEF Look, CloseTypeOK
  <2>4. inbox' \in [Rows -> InboxStatuses]
    BY <1>2, <2>1 DEF Look, CloseTypeOK, InboxStatuses
  <2>5. CloseTypeOK'
    BY <1>2, <2>3, <2>4 DEF Look, CloseTypeOK, Places
  <2>6. QED
    BY <1>2, <2>5 DEF Look, LastSaidPackagedIsClean
<1>3. CASE ProjectFails(p)
  <2>1. Saving(c, "FAILED") \in Places
    BY <1>3, CycleType, NextPlace DEF ProjectFails, Asleep
  <2>2. faults' \in 0..MaxFaults
    BY <1>3, CloseAssumption DEF ProjectFails, CloseTypeOK
  <2>3. projector' \in [Projectors -> Places]
    BY <1>3, <2>1 DEF ProjectFails, CloseTypeOK, Places
  <2>4. CloseTypeOK'
    BY <1>3, <2>2, <2>3 DEF ProjectFails, CloseTypeOK, Places
  <2>5. QED
    BY <1>3, <2>4 DEF ProjectFails, LastSaidPackagedIsClean
<1>4. CASE SaveInbox(p)
  <2>1. c.row \in Rows /\ c.end \in Rows /\ c.result \in {"FAILED", "PROCESSED"}
    BY <1>4 DEF SaveInbox, CloseTypeOK, Asleep
  <2>2. Onward(c) \in Places
    BY <2>1, NextPlace
  <2>3. CloseTypeOK'
    BY <1>4, <2>1, <2>2 DEF SaveInbox, CloseTypeOK, Places, InboxStatuses
  <2>4. QED
    BY <1>4, <2>3 DEF SaveInbox, LastSaidPackagedIsClean
<1>5. CASE Crash(p)
  <2>1. CloseTypeOK'
    BY <1>5, CloseAssumption DEF Crash, CloseTypeOK
  <2>2. QED
    BY <1>5, <2>1 DEF Crash, LastSaidPackagedIsClean
<1> QED
  BY <1>1, <1>2, <1>3, <1>4, <1>5

LEMMA RowsStep ==
  ASSUME CloseInv, [CloseNext]_closeVars
  PROVE  RowsExist'
<1> USE DEF CloseInv, Core
<1>1. ASSUME NEW q \in Projectors, projector'[q] # Asleep, projector'[q] = projector[q]
      PROVE  projector'[q].row <= projector'[q].end /\ projector'[q].end <= Len(triggers)
  BY <1>1 DEF RowsExist
<1>2. CASE UNCHANGED <<projector, triggers>>
  BY <1>1, <1>2 DEF RowsExist
<1>3. ASSUME NEW r \in Runs, NEW strict \in BOOLEAN, NEW found \in SUBSET Causes,
             Execute(r, strict, found)
      PROVE  RowsExist'
  <2>1. projector' = projector /\ Len(triggers) \in Nat
    BY <1>3 DEF Execute, CloseTypeOK
  <2>2. Len(triggers') >= Len(triggers) /\ Len(triggers') \in Nat
    BY <1>3, <2>1 DEF Execute, CloseTypeOK
  <2>3. ASSUME NEW q \in Projectors, projector[q] # Asleep PROVE projector[q].end \in Nat
    BY <2>3, CycleType DEF Rows
  <2>4. QED
    BY <2>1, <2>2, <2>3 DEF RowsExist
<1>4. ASSUME NEW p \in Projectors, Cycle(p) \/ Crash(p)
      PROVE  RowsExist'
  <2> DEFINE c == projector[p]
  <2>1. /\ triggers' = triggers
        /\ \A q \in Projectors : q # p => projector'[q] = projector[q]
    BY <1>4 DEF Cycle, Take, Look, Project, ProjectFails, SaveInbox, Crash, CloseTypeOK
  <2>2. CASE c = Asleep
    <3>1. projector'[p] = [at |-> "look", row |-> 1, end |-> Batch] /\ Batch > 0
      BY <1>4, <2>2 DEF Cycle, Take, Look, Project, ProjectFails, SaveInbox, Crash, CloseTypeOK, Asleep
    <3>2. 1 <= Batch /\ Batch <= Len(triggers)
      BY <3>1, CloseAssumption DEF Batch, Least, CloseTypeOK
    <3>3. QED
      BY <2>1, <3>1, <3>2, <1>1 DEF RowsExist
  <2>3. CASE c # Asleep
    <3>1. c.row \in Nat /\ c.end \in Nat /\ c.row <= c.end /\ c.end <= Len(triggers)
      BY <2>3, CycleType DEF RowsExist, Rows
    <3>2. \/ projector'[p] \in {Asleep, Onward(c)}
          \/ projector'[p].row = c.row /\ projector'[p].end = c.end
      <4>1. CASE Look(p)
        <5>1. c = [at |-> "look", row |-> c.row, end |-> c.end]
          BY <4>1 DEF Look, CloseTypeOK, Asleep
        <5>2. projector'[p] \in {Onward(c), [c EXCEPT !.at = "project"], Saving(c, "PROCESSED")}
          BY <4>1 DEF Look, CloseTypeOK
        <5>3. QED
          BY <5>1, <5>2 DEF Saving
      <4>2. CASE SaveInbox(p) \/ Crash(p)
        BY <4>2 DEF SaveInbox, Crash, CloseTypeOK
      <4>3. CASE ProjectFails(p)
        BY <4>3 DEF ProjectFails, Saving, CloseTypeOK
      <4>4. ASSUME NEW unbooked, Project(p, unbooked) PROVE projector'[p] = Saving(c, "PROCESSED")
        BY <4>4 DEF Project, CloseTypeOK
      <4>5. QED
        BY <1>4, <2>3, <4>1, <4>2, <4>3, <4>4 DEF Cycle, Take, Saving
    <3>3. QED
      BY <2>1, <3>1, <3>2, <1>1, OnwardExists DEF RowsExist
  <2>4. QED
    BY <2>2, <2>3
<1> QED
  BY <1>2, <1>3, <1>4, CausesAreCauses
  DEF CloseNext, closeVars, Resolve, CheckAdvance, SaveAdvance, PublishAdvance, DropAdvance

LEMMA CloseStepInv == CloseInv /\ [CloseNext]_closeVars => CloseInv'
<1> SUFFICES ASSUME CloseInv, [CloseNext]_closeVars PROVE CloseInv'
  OBVIOUS
<1>1. CASE UNCHANGED closeVars
  BY <1>1 DEF closeVars, CloseInv, Core, CloseTypeOK, LastSaidPackagedIsClean, RowsExist
<1>2. CASE CloseNext
  <2>1. RowsExist'
    BY <1>2, RowsStep
  <2>2. ASSUME NEW r \in Runs, NEW strict \in BOOLEAN, NEW found \in SUBSET CausesOf[r],
               Execute(r, strict, found)
        PROVE Core'
    BY <2>2, ExecuteInv, CausesAreCauses
  <2>3. ASSUME NEW x \in exceptions, Resolve(x) PROVE Core'
    BY <2>3, ResolveInv
  <2>4. ASSUME NEW u \in Users,
               \/ \E r \in Runs, to \in Asked \cap RunStatuses : CheckAdvance(u, r, to)
               \/ SaveAdvance(u) \/ PublishAdvance(u) \/ DropAdvance(u)
        PROVE Core'
    BY <2>4, UserInv
  <2>5. ASSUME NEW p \in Projectors, Cycle(p) \/ Crash(p) PROVE Core'
    BY <2>5, ProjectInv, CycleInv DEF Cycle
  <2>6. QED
    BY <1>2, <2>1, <2>2, <2>3, <2>4, <2>5 DEF CloseNext, CloseInv
<1> QED
  BY <1>1, <1>2

\* The state of the close has its type.
THEOREM CloseTypeCorrect == CloseSpec => []CloseTypeOK
<1>1. CloseInv => CloseTypeOK
  BY DEF CloseInv, Core
<1> QED
  BY <1>1, CloseInitInv, CloseStepInv, PTL DEF CloseSpec

\* For any number of runs, causes, users and projectors, a run of which "packaged" is the
\* last word has no open exception that blocks it (execute_close_run,
\* project_close_run_from_trigger, under the run's lock; advances by hand included).
THEOREM PackagedIsClean == CloseSpec => []LastSaidPackagedIsClean
<1>1. CloseInv => LastSaidPackagedIsClean
  BY DEF CloseInv, Core
<1> QED
  BY <1>1, CloseInitInv, CloseStepInv, PTL DEF CloseSpec

-----------------------------------------------------------------------------
(* Intercompany transactions.                                              *)

\* Whoever closes without a waiver relies on the status alone, so a confirmed
\* transaction must match at every moment.
ConfirmedMatches ==
  \A t \in Transactions : tx[t].status = "CONFIRMED" => Apart(tx[t].source, tx[t].target) <= 1

IInv == TypeOK /\ ConfirmedMatches /\ ClosedIsMatched

LEMMA RowOrNone ==
  ASSUME TypeOK, NEW t \in Transactions
  PROVE /\ tx[t] # NoTx <=> tx[t] \in TxRows
        /\ tx[t] # NoTx <=> tx[t].status # "ABSENT"
        /\ tx[t] # NoTx <=> tx[t].status \in Statuses
  BY DEF TypeOK, TxRows, NoTx, Statuses

LEMMA AmountsAreNat == Amounts \subseteq Nat /\ Amount \in Amounts /\ Offers \subseteq Amounts
  BY IntercompanyAssumption DEF Amounts

\* A transaction's copy in the job has the types of its row.
LEMMA CopyType ==
  ASSUME TypeOK, NEW t \in Existing
  PROVE Copy(t) \in Copies
<1>1. t \in Transactions /\ tx[t] \in TxRows
  BY RowOrNone DEF Existing
<1>2. QED
  BY <1>1, AmountsAreNat DEF Copy, Copies, TxRows

\* What a reconciliation writes, when the status it writes agrees with the amounts.
LEMMA ReconciledRow ==
  ASSUME IInv, NEW t \in Transactions, NEW s \in Amounts, NEW g \in Amounts,
         NEW verdict \in {"CONFIRMED", "DIFFERENCE", "DISPUTED"},
         verdict = "CONFIRMED" => Apart(s, g) <= 1,
         Reconciled(t, s, g, verdict), waived' = waived
  PROVE /\ tx' \in [Transactions -> TxRows \cup {NoTx}]
        /\ open' \in [Transactions -> BOOLEAN]
        /\ ConfirmedMatches'
        /\ ClosedIsMatched'
<1>1. /\ tx[t] \in TxRows /\ tx[t].status # "CLOSED"
      /\ tx' = [tx EXCEPT ![t] = Row(verdict, s, g, tx[t].entry, tx[t].own)]
      /\ open' = [open EXCEPT ![t] = verdict # "CONFIRMED"]
  BY RowOrNone DEF Reconciled, Stated, Allowed, Transits, Transitions, IInv
<1>2. tx \in [Transactions -> TxRows \cup {NoTx}] /\ open \in [Transactions -> BOOLEAN]
  BY DEF IInv, TypeOK
<1>3. /\ tx'[t] = Row(verdict, s, g, tx[t].entry, tx[t].own)
      /\ \A u \in Transactions \ {t} : tx'[u] = tx[u]
  BY <1>1, <1>2
<1>4. /\ tx'[t] \in TxRows
      /\ tx'[t].status = verdict /\ tx'[t].source = s /\ tx'[t].target = g
  <2>1. verdict \in Statuses
    BY DEF Statuses
  <2>2. QED
    BY <1>1, <1>3, <2>1 DEF TxRows, Row
<1>5. tx' \in [Transactions -> TxRows \cup {NoTx}] /\ open' \in [Transactions -> BOOLEAN]
  BY <1>1, <1>2, <1>4
<1>6. ConfirmedMatches'
  BY <1>3, <1>4 DEF ConfirmedMatches, IInv
<1>7. ClosedIsMatched'
  BY <1>3, <1>4 DEF ClosedIsMatched, Existing, IInv
<1>8. QED
  BY <1>5, <1>6, <1>7

\* What a close writes.
LEMMA ClosedRow ==
  ASSUME IInv, NEW t \in Transactions, NEW allow \in BOOLEAN, Closable(t, allow), Closed(t, allow)
  PROVE /\ tx' \in [Transactions -> TxRows \cup {NoTx}]
        /\ open' \in [Transactions -> BOOLEAN]
        /\ case' \in [Cases -> CaseRows \cup {NoCase}]
        /\ waived' \subseteq Transactions
        /\ ConfirmedMatches'
        /\ ClosedIsMatched'
<1>1. /\ tx' = [tx EXCEPT ![t].status = "CLOSED"]
      /\ open' = [open EXCEPT ![t] = FALSE]
      /\ waived' = IF allow THEN waived \cup {t} ELSE waived
      /\ Settled(t)
  BY DEF Closed
<1>2. tx[t] \in TxRows /\ (tx[t].status = "CONFIRMED" \/ allow)
  BY RowOrNone DEF Closable, IInv, Statuses
<1>3. /\ tx'[t] = [tx[t] EXCEPT !.status = "CLOSED"]
      /\ \A u \in Transactions \ {t} : tx'[u] = tx[u]
  BY <1>1 DEF IInv, TypeOK
<1>4. /\ tx'[t] \in TxRows /\ tx'[t].status = "CLOSED"
      /\ tx'[t].source = tx[t].source /\ tx'[t].target = tx[t].target
  BY <1>2, <1>3 DEF TxRows, Statuses
<1>5. tx' \in [Transactions -> TxRows \cup {NoTx}] /\ open' \in [Transactions -> BOOLEAN]
  BY <1>1, <1>4 DEF IInv, TypeOK
<1>6. case' \in [Cases -> CaseRows \cup {NoCase}]
  <2>1. \A c \in ActiveOn(t) : [case[c] EXCEPT !.status = "SETTLED"] \in CaseRows
    BY DEF ActiveOn, IInv, TypeOK, CaseRows, NoCase, Active
  <2>2. QED
    BY <1>1, <2>1 DEF Settled, IInv, TypeOK
<1>7. waived \subseteq waived' /\ waived' \subseteq Transactions /\ (allow => t \in waived')
  BY <1>1 DEF IInv, TypeOK
<1>8. ConfirmedMatches'
  BY <1>3, <1>4 DEF ConfirmedMatches, IInv
<1>9. ClosedIsMatched'
  BY <1>2, <1>3, <1>4, <1>7 DEF ClosedIsMatched, ConfirmedMatches, Existing, NoTx, TxRows, Statuses, IInv
<1>10. QED
  BY <1>5, <1>6, <1>7, <1>8, <1>9

LEMMA InitInv == Init => IInv
  BY IntercompanyAssumption
  DEF Init, IInv, TypeOK, ConfirmedMatches, ClosedIsMatched, Existing, NoTx, NoCase, Idle, NoJob

\* Each operation on a transaction keeps the invariant.
LEMMA OperationInv ==
  ASSUME IInv, NEW t \in Transactions, Asks(t)
  PROVE IInv'
<1>1. ASSUME NEW own \in BOOLEAN, NEW entry \in Offers \cup {0}, Create(t, own, entry)
      PROVE IInv'
  <2> DEFINE new == Row("PENDING", Amount, 0, entry, own)
  <2>1. new \in TxRows /\ new.status = "PENDING"
    BY AmountsAreNat DEF Row, TxRows, Statuses, Amounts
  <2>2. /\ tx' = [tx EXCEPT ![t] = new]
        /\ UNCHANGED <<case, open, request, job, waived, crashes>>
    BY <1>1 DEF Create
  <2>3. tx'[t].status = "PENDING" /\ \A u \in Transactions \ {t} : tx'[u] = tx[u]
    BY <2>1, <2>2 DEF IInv, TypeOK
  <2> HIDE DEF new
  <2>4. TypeOK'
    BY <2>1, <2>2 DEF IInv, TypeOK
  <2>5. QED
    BY <2>2, <2>3, <2>4 DEF IInv, ConfirmedMatches, ClosedIsMatched, Existing
<1>2. ASSUME NEW entry \in Offers \cup {0}, Confirm(t, entry)
      PROVE IInv'
  <2> DEFINE new == Row("CONFIRMED", Amount, Amount,
                        IF entry = 0 THEN tx[t].entry ELSE entry, tx[t].own)
  <2>1. tx[t] \in TxRows
    BY <1>2, RowOrNone DEF Confirm, Allowed, IInv
  <2>2. new \in TxRows /\ new.status = "CONFIRMED" /\ new.source = Amount /\ new.target = Amount
    BY <2>1, AmountsAreNat DEF Row, TxRows, Statuses
  <2>3. /\ tx' = [tx EXCEPT ![t] = new]
        /\ open' = [open EXCEPT ![t] = FALSE]
        /\ UNCHANGED <<case, request, job, waived, crashes>>
    BY <1>2 DEF Confirm
  <2> HIDE DEF new
  <2>4. tx'[t] = new /\ \A u \in Transactions \ {t} : tx'[u] = tx[u]
    BY <2>3 DEF IInv, TypeOK
  <2>5. TypeOK'
    BY <2>2, <2>3 DEF IInv, TypeOK
  <2>6. Apart(Amount, Amount) <= 1
    BY IntercompanyAssumption DEF Apart
  <2>7. QED
    BY <2>2, <2>3, <2>4, <2>5, <2>6 DEF IInv, ConfirmedMatches, ClosedIsMatched, Existing
<1>3. ASSUME NEW s \in Offers, NEW g \in Offers, Reconcile(t, s, g)
      PROVE IInv'
  <2>1. /\ Reconciled(t, s, g, Found(s, g))
        /\ UNCHANGED <<case, request, job, waived, crashes>>
    BY <1>3 DEF Reconcile
  <2>2. /\ Found(s, g) \in {"CONFIRMED", "DIFFERENCE", "DISPUTED"}
        /\ Found(s, g) = "CONFIRMED" => Apart(s, g) <= 1
    BY DEF Found
  <2>3. /\ tx' \in [Transactions -> TxRows \cup {NoTx}]
        /\ open' \in [Transactions -> BOOLEAN]
        /\ ConfirmedMatches' /\ ClosedIsMatched'
    BY <2>1, <2>2, ReconciledRow, AmountsAreNat
  <2>4. QED
    BY <2>1, <2>3 DEF IInv, TypeOK
<1>4. ASSUME NEW allow \in BOOLEAN, Close(t, allow)
      PROVE IInv'
  <2>1. Closable(t, allow) /\ Closed(t, allow) /\ UNCHANGED <<request, job, crashes>>
    BY <1>4 DEF Close
  <2>2. QED
    BY <2>1, ClosedRow DEF IInv, TypeOK
<1>5. ASSUME Excuse(t)
      PROVE IInv'
  BY <1>5 DEF Excuse, IInv, TypeOK, ConfirmedMatches, ClosedIsMatched, Existing
<1>6. QED
  BY <1>1, <1>2, <1>3, <1>4, <1>5 DEF Asks

\* A request that runs has a transaction.
LEMMA RequestOn ==
  ASSUME TypeOK, NEW r \in Requests, request[r].next \in {"FIND", "SAVE", "CLOSE", "RESOLVE"}
  PROVE /\ request[r] \in Doing
        /\ request[r].on \in Transactions
        /\ request[r].next = "CLOSE" => request[r].allow \in BOOLEAN
  BY DEF TypeOK, Doing, Idle

LEMMA Continued ==
  ASSUME TypeOK, NEW r \in Requests, NEW next \in Doing \cup {Idle}, Continues(r, next)
  PROVE request' \in [Requests -> Doing \cup {Idle}]
  BY DEF TypeOK, Continues

\* Each step of a request keeps the invariant.
LEMMA RequestInv ==
  ASSUME IInv, NEW r \in Requests, Serves(r)
  PROVE IInv'
<1> USE DEF IInv
<1>1. ASSUME NEW t \in Transactions, NEW s \in Offers, NEW g \in Offers, Dispute(r, t, s, g)
      PROVE IInv'
  <2>1. /\ Reconciled(t, s, g, "DISPUTED")
        /\ Continues(r, [next |-> "FIND", on |-> t])
        /\ UNCHANGED <<case, job, waived, crashes>>
    BY <1>1 DEF Dispute
  <2>2. [next |-> "FIND", on |-> t] \in Doing
    BY DEF Doing
  <2>3. /\ tx' \in [Transactions -> TxRows \cup {NoTx}]
        /\ open' \in [Transactions -> BOOLEAN]
        /\ ConfirmedMatches' /\ ClosedIsMatched'
    BY <2>1, ReconciledRow, AmountsAreNat
  <2>4. request' \in [Requests -> Doing \cup {Idle}]
    BY <2>1, <2>2, Continued
  <2>5. QED
    BY <2>1, <2>3, <2>4 DEF TypeOK
<1>2. ASSUME NEW t \in Transactions, NEW s \in Offers, NEW g \in Offers,
             NEW closes \in BOOLEAN, NEW allow \in BOOLEAN, Settle(r, t, s, g, closes, allow)
      PROVE IInv'
  <2> DEFINE verdict == IF s = g THEN "CONFIRMED" ELSE "DISPUTED"
  <2>1. /\ Reconciled(t, s, g, verdict)
        /\ \/ Continues(r, [next |-> "CLOSE", on |-> t, allow |-> allow])
           \/ UNCHANGED request
        /\ UNCHANGED <<case, job, waived, crashes>>
    BY <1>2 DEF Settle
  <2>2. [next |-> "CLOSE", on |-> t, allow |-> allow] \in Doing
    BY DEF Doing
  <2>3. verdict = "CONFIRMED" => Apart(s, g) <= 1
    BY IntercompanyAssumption DEF Apart
  <2>4. /\ tx' \in [Transactions -> TxRows \cup {NoTx}]
        /\ open' \in [Transactions -> BOOLEAN]
        /\ ConfirmedMatches' /\ ClosedIsMatched'
    BY <2>1, <2>3, ReconciledRow, AmountsAreNat
  <2>5. request' \in [Requests -> Doing \cup {Idle}]
    BY <2>1, <2>2, Continued DEF TypeOK
  <2>6. QED
    BY <2>1, <2>4, <2>5 DEF TypeOK
<1>3. ASSUME DisputeFinds(r) PROVE IInv'
  <2> DEFINE next == [next |-> "SAVE", on |-> request[r].on, found |-> ActiveOn(request[r].on)]
  <2>1. Continues(r, next) /\ UNCHANGED <<tx, case, open, job, waived, crashes>>
    BY <1>3 DEF DisputeFinds
  <2>2. request[r].on \in Transactions /\ ActiveOn(request[r].on) \in SUBSET Cases
    BY <1>3, RequestOn DEF DisputeFinds, ActiveOn
  <2>3. next \in Doing
    BY <2>2 DEF Doing
  <2>4. request' \in [Requests -> Doing \cup {Idle}]
    BY <2>1, <2>3, Continued
  <2>5. QED
    BY <2>1, <2>4 DEF TypeOK, ConfirmedMatches, ClosedIsMatched, Existing
<1>4. ASSUME DisputeSaves(r) PROVE IInv'
  <2>1. request[r].on \in Transactions
    BY <1>4, RequestOn DEF DisputeSaves
  <2>2. PICK c \in Cases : case' = [case EXCEPT ![c] = [on |-> request[r].on, status |-> "OPEN"]]
    BY <1>4 DEF DisputeSaves
  <2>3. [on |-> request[r].on, status |-> "OPEN"] \in CaseRows
    BY <2>1 DEF CaseRows, Active
  <2>4. Continues(r, Idle) /\ UNCHANGED <<tx, open, job, waived, crashes>>
    BY <1>4 DEF DisputeSaves, Ends
  <2>5. case' \in [Cases -> CaseRows \cup {NoCase}]
    BY <2>2, <2>3 DEF TypeOK
  <2>6. request' \in [Requests -> Doing \cup {Idle}]
    BY <2>4, Continued
  <2>7. QED
    BY <2>4, <2>5, <2>6 DEF TypeOK, ConfirmedMatches, ClosedIsMatched, Existing
<1>5. ASSUME SettleCloses(r) PROVE IInv'
  <2>1. request[r].on \in Transactions /\ request[r].allow \in BOOLEAN
    BY <1>5, RequestOn DEF SettleCloses
  <2>2. /\ Closable(request[r].on, request[r].allow)
        /\ Closed(request[r].on, request[r].allow)
        /\ Continues(r, [next |-> "RESOLVE", on |-> request[r].on])
        /\ UNCHANGED <<job, crashes>>
    BY <1>5 DEF SettleCloses
  <2>3. [next |-> "RESOLVE", on |-> request[r].on] \in Doing
    BY <2>1 DEF Doing
  <2>4. request' \in [Requests -> Doing \cup {Idle}]
    BY <2>2, <2>3, Continued
  <2>5. /\ tx' \in [Transactions -> TxRows \cup {NoTx}]
        /\ open' \in [Transactions -> BOOLEAN]
        /\ case' \in [Cases -> CaseRows \cup {NoCase}]
        /\ waived' \subseteq Transactions
        /\ ConfirmedMatches' /\ ClosedIsMatched'
    BY <2>1, <2>2, ClosedRow
  <2>6. QED
    BY <2>2, <2>4, <2>5 DEF TypeOK
<1>6. ASSUME SettleResolves(r) PROVE IInv'
  <2>1. Settled(request[r].on) /\ Continues(r, Idle) /\ UNCHANGED <<tx, open, job, waived, crashes>>
    BY <1>6 DEF SettleResolves, Ends
  <2>2. \A c \in ActiveOn(request[r].on) : [case[c] EXCEPT !.status = "SETTLED"] \in CaseRows
    BY DEF ActiveOn, TypeOK, CaseRows, NoCase, Active
  <2>3. case' \in [Cases -> CaseRows \cup {NoCase}]
    BY <2>1, <2>2 DEF Settled, TypeOK
  <2>4. request' \in [Requests -> Doing \cup {Idle}]
    BY <2>1, Continued
  <2>5. QED
    BY <2>1, <2>3, <2>4 DEF TypeOK, ConfirmedMatches, ClosedIsMatched, Existing
<1>7. ASSUME GivesUp(r) PROVE IInv'
  BY <1>7, Continued DEF GivesUp, Ends, TypeOK, ConfirmedMatches, ClosedIsMatched, Existing
<1>8. QED
  BY <1>1, <1>2, <1>3, <1>4, <1>5, <1>6, <1>7 DEF Serves

LEMMA ReviewInv ==
  ASSUME IInv, NEW c \in Cases, NEW action \in Reviews, Review(c, action)
  PROVE IInv'
<1>1. case[c] \in CaseRows
  BY DEF Review, IInv, TypeOK
<1>2. [case[c] EXCEPT !.status = action] \in CaseRows
  BY <1>1 DEF CaseRows
<1>3. case' \in [Cases -> CaseRows \cup {NoCase}]
  BY <1>2 DEF Review, IInv, TypeOK
<1>4. QED
  BY <1>3 DEF Review, IInv, TypeOK, ConfirmedMatches, ClosedIsMatched, Existing

\* A running job holds copies, and a transaction when it is about to close one.
LEMMA JobHolds ==
  ASSUME TypeOK, job.stage \in {"CYCLE", "SLA", "CLOSING"}
  PROVE /\ job.rows \in SUBSET Copies
        /\ job.stage = "CLOSING" => job.on \in Transactions
  BY DEF TypeOK, Running, NoJob

\* Each step of the scheduled job keeps the invariant.
LEMMA JobInv ==
  ASSUME IInv,
         \/ CycleStarts \/ CycleVisits \/ CycleCloses \/ CycleBreaks \/ SlaStarts \/ JobDies
         \/ \E t \in Transactions : SlaVisits(t)
  PROVE IInv'
<1> USE DEF IInv
<1>1. ASSUME CycleStarts PROVE IInv'
  <2>1. {Copy(t) : t \in FirstOf(Unconfirmed)} \in SUBSET Copies
    BY CopyType DEF FirstOf, Unconfirmed
  <2>2. job' \in Running /\ UNCHANGED <<tx, case, open, request, waived, crashes>>
    BY <1>1, <2>1 DEF CycleStarts, Running
  <2>3. QED
    BY <2>2 DEF TypeOK, ConfirmedMatches, ClosedIsMatched, Existing
<1>2. ASSUME CycleVisits PROVE IInv'
  <2>1. job.stage = "CYCLE" /\ UNCHANGED <<case, request, waived, crashes>>
    BY <1>2 DEF CycleVisits
  <2>2. PICK c \in job.rows :
          \/ Compared(c, Found(Amount, c.against))
          \/ UNCHANGED <<tx, open>> /\ job' = Left(c)
    BY <1>2 DEF CycleVisits
  <2>3. job.rows \in SUBSET Copies /\ c \in Copies
    BY <2>1, <2>2, JobHolds
  <2>4. c.id \in Transactions /\ c.against \in Amounts
    BY <2>3 DEF Copies
  <2>5. job' \in Running
    BY <2>2, <2>3, <2>4 DEF Running, Left, After, Compared
  <2>6. /\ tx' \in [Transactions -> TxRows \cup {NoTx}]
        /\ open' \in [Transactions -> BOOLEAN]
        /\ ConfirmedMatches' /\ ClosedIsMatched'
    <3>1. CASE Compared(c, Found(Amount, c.against))
      <4>1. /\ Found(Amount, c.against) \in {"CONFIRMED", "DIFFERENCE", "DISPUTED"}
            /\ Found(Amount, c.against) = "CONFIRMED" => Apart(Amount, c.against) <= 1
        BY DEF Found
      <4>2. Reconciled(c.id, Amount, c.against, Found(Amount, c.against))
        BY <3>1 DEF Compared
      <4>3. QED
        BY <2>1, <2>4, <4>1, <4>2, ReconciledRow, AmountsAreNat
    <3>2. CASE UNCHANGED <<tx, open>>
      BY <2>1, <3>2 DEF TypeOK, ConfirmedMatches, ClosedIsMatched, Existing
    <3>3. QED
      BY <2>2, <3>1, <3>2
  <2>7. QED
    BY <2>1, <2>5, <2>6 DEF TypeOK
<1>3. ASSUME CycleCloses PROVE IInv'
  <2>1. /\ job.stage = "CLOSING" /\ Closable(job.on, FALSE) /\ Closed(job.on, FALSE)
        /\ job' = [stage |-> "CYCLE", rows |-> job.rows]
        /\ UNCHANGED <<request, crashes>>
    BY <1>3 DEF CycleCloses
  <2>2. job.on \in Transactions /\ job.rows \in SUBSET Copies
    BY <2>1, JobHolds
  <2>3. job' \in Running
    BY <2>1, <2>2 DEF Running
  <2>4. /\ tx' \in [Transactions -> TxRows \cup {NoTx}]
        /\ open' \in [Transactions -> BOOLEAN]
        /\ case' \in [Cases -> CaseRows \cup {NoCase}]
        /\ waived' \subseteq Transactions
        /\ ConfirmedMatches' /\ ClosedIsMatched'
    BY <2>1, <2>2, ClosedRow
  <2>5. QED
    BY <2>1, <2>3, <2>4 DEF TypeOK
<1>4. ASSUME CycleBreaks PROVE IInv'
  BY <1>4 DEF CycleBreaks, TypeOK, ConfirmedMatches, ClosedIsMatched, Existing
<1>5. ASSUME SlaStarts PROVE IInv'
  <2>1. {Copy(t) : t \in Existing} \in SUBSET Copies
    BY CopyType
  <2>2. job' \in Running \cup {NoJob} /\ UNCHANGED <<tx, case, open, request, waived, crashes>>
    BY <1>5, <2>1 DEF SlaStarts, Running
  <2>3. QED
    BY <2>2 DEF TypeOK, ConfirmedMatches, ClosedIsMatched, Existing
<1>6. ASSUME NEW t \in Transactions, SlaVisits(t) PROVE IInv'
  <2>1. job.stage = "SLA" /\ UNCHANGED <<tx, case, request, waived, crashes>>
    BY <1>6 DEF SlaVisits
  <2>2. PICK c \in job.rows, late \in BOOLEAN :
          /\ open' = [open EXCEPT ![t] = late /\ c.status # "CLOSED"]
          /\ job' = IF job.rows = {c} THEN NoJob ELSE [stage |-> "SLA", rows |-> job.rows \ {c}]
    BY <1>6 DEF SlaVisits
  <2>3. job.rows \in SUBSET Copies
    BY <2>1, JobHolds
  <2>4. job' \in Running \cup {NoJob}
    BY <2>2, <2>3 DEF Running
  <2>5. open' \in [Transactions -> BOOLEAN]
    BY <2>2 DEF TypeOK
  <2>6. QED
    BY <2>1, <2>4, <2>5 DEF TypeOK, ConfirmedMatches, ClosedIsMatched, Existing
<1>7. ASSUME JobDies PROVE IInv'
  BY <1>7 DEF JobDies, TypeOK, ConfirmedMatches, ClosedIsMatched, Existing
<1>8. QED
  BY <1>1, <1>2, <1>3, <1>4, <1>5, <1>6, <1>7

LEMMA StepInv == IInv /\ [Next]_vars => IInv'
<1>1. ASSUME IInv, UNCHANGED vars PROVE IInv'
  BY <1>1 DEF vars, IInv, TypeOK, ConfirmedMatches, ClosedIsMatched, Existing
<1>2. ASSUME IInv, Next PROVE IInv'
  BY <1>2, OperationInv, RequestInv, ReviewInv, JobInv DEF Next
<1>3. QED
  BY <1>1, <1>2

THEOREM Inductive == Spec => []IInv
  BY InitInv, StepInv, PTL DEF Spec

\* Rows, copies, requests and jobs stay in the states of their models
\* (IntercompanyTransaction, IntercompanyDisputeCase).
THEOREM TypeCorrect == Spec => []TypeOK
<1>1. IInv => TypeOK
  BY DEF IInv
<1>2. QED
  BY <1>1, Inductive, PTL

\* A closed transaction has both sides within a cent of each other unless somebody waived
\* it, whoever closed it and whatever was reconciled or disputed before
\* (close_intercompany_transaction).
THEOREM ClosedIsMatchedHolds == Spec => []ClosedIsMatched
<1>1. IInv => ClosedIsMatched
  BY DEF IInv
<1>2. QED
  BY <1>1, Inductive, PTL

\* What a request or the job still holds of a closed transaction never changes it
\* (can_transition_to, under the row's lock).
THEOREM ClosedIsFinalHolds == Spec => ClosedIsFinal
<1> DEFINE Final == \A t \in Existing : tx[t].status = "CLOSED" => tx'[t] = tx[t]
<1>1. IInv /\ [Next]_vars => [Final]_vars
  <2> SUFFICES ASSUME IInv, Next, NEW t \in Existing, tx[t].status = "CLOSED"
               PROVE tx'[t] = tx[t]
    OBVIOUS
  <2> USE DEF IInv, TypeOK
  <2>1. ASSUME NEW u \in Transactions, NEW s, NEW g, NEW verdict \in {"CONFIRMED", "DIFFERENCE", "DISPUTED"},
               Reconciled(u, s, g, verdict)
        PROVE tx'[t] = tx[t]
    <3>1. u # t
      BY <2>1 DEF Reconciled, Allowed, Transits, Transitions
    <3>2. QED
      BY <2>1, <3>1 DEF Reconciled, Stated, Existing
  <2>2. ASSUME NEW u \in Transactions, NEW allow \in BOOLEAN, Closable(u, allow), Closed(u, allow)
        PROVE tx'[t] = tx[t]
    BY <2>2 DEF Closable, Closed, Existing
  <2>3. ASSUME NEW u \in Transactions, Asks(u) PROVE tx'[t] = tx[t]
    <3>1. ASSUME NEW own \in BOOLEAN, NEW entry \in Offers \cup {0}, Create(u, own, entry)
          PROVE tx'[t] = tx[t]
      BY <3>1 DEF Create, Existing
    <3>2. ASSUME NEW entry \in Offers \cup {0}, Confirm(u, entry) PROVE tx'[t] = tx[t]
      BY <3>2 DEF Confirm, Allowed, Transits, Transitions, Existing
    <3>3. ASSUME NEW s \in Offers, NEW g \in Offers, Reconcile(u, s, g) PROVE tx'[t] = tx[t]
      BY <2>1, <3>3 DEF Reconcile, Found
    <3>4. ASSUME NEW allow \in BOOLEAN, Close(u, allow) PROVE tx'[t] = tx[t]
      BY <2>2, <3>4 DEF Close
    <3>5. QED
      BY <2>3, <3>1, <3>2, <3>3, <3>4 DEF Asks, Excuse
  <2>4. ASSUME NEW r \in Requests, Serves(r) PROVE tx'[t] = tx[t]
    <3>1. ASSUME NEW u \in Transactions, NEW s \in Offers, NEW g \in Offers, Dispute(r, u, s, g)
          PROVE tx'[t] = tx[t]
      BY <2>1, <3>1 DEF Dispute
    <3>2. ASSUME NEW u \in Transactions, NEW s \in Offers, NEW g \in Offers,
                 NEW closes \in BOOLEAN, NEW allow \in BOOLEAN, Settle(r, u, s, g, closes, allow)
          PROVE tx'[t] = tx[t]
      BY <2>1, <3>2 DEF Settle
    <3>3. ASSUME SettleCloses(r) PROVE tx'[t] = tx[t]
      <4>1. request[r].on \in Transactions /\ request[r].allow \in BOOLEAN
        BY <3>3, RequestOn DEF SettleCloses
      <4>2. QED
        BY <2>2, <3>3, <4>1 DEF SettleCloses
    <3>4. QED
      BY <2>4, <3>1, <3>2, <3>3 DEF Serves, DisputeFinds, DisputeSaves, SettleResolves, GivesUp
  <2>5. ASSUME CycleVisits PROVE tx'[t] = tx[t]
    <3>1. PICK c \in job.rows :
            \/ Reconciled(c.id, Amount, c.against, Found(Amount, c.against))
            \/ UNCHANGED <<tx, open>>
      BY <2>5 DEF CycleVisits, Compared
    <3>2. c.id \in Transactions
      BY <2>5, JobHolds DEF CycleVisits, Copies
    <3>3. QED
      BY <2>1, <3>1, <3>2 DEF Found
  <2>6. ASSUME CycleCloses PROVE tx'[t] = tx[t]
    BY <2>2, <2>6, JobHolds DEF CycleCloses
  <2>7. QED
    BY <2>3, <2>4, <2>5, <2>6
    DEF Next, Review, CycleStarts, CycleBreaks, SlaStarts, SlaVisits, JobDies
<1>2. QED
  BY <1>1, Inductive, PTL DEF Spec, ClosedIsFinal
=============================================================================
