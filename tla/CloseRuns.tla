----------------------------- MODULE CloseRuns ------------------------------
(***************************************************************************)
(* The close of a window of business: a close run gathers what is wrong in *)
(* the business tables, registers it as exceptions and is packaged or sent *)
(* back; a packaged run publishes a trigger, and the projector of the      *)
(* shadow ledger, run by cron, books the events of its window or sends it  *)
(* back.  Execution and projection lock the run.  Advancing a run by hand  *)
(* does not: it checks a copy and saves it, and publishes afterwards.      *)
(*                                                                         *)
(* What the collectors query is reduced to the causes they find, any set   *)
(* at each execution, and the drafts of a projection to the events that no *)
(* active rule books (Ledger has the rest of a draft's life).              *)
(***************************************************************************)
EXTENDS Integers, Sequences

CONSTANTS
  Runs,           \* close runs
  CausesOf,       \* CausesOf[r]: what a collector may report of run r: a code and an object
  StrictCauses,   \* the causes that block a strict execution only
  Events,         \* operational events in the window of the runs
  Malformed,      \* runs with an event in their window that no projection gets over
  Users,          \* requests that advance a run by hand
  Asked,          \* the statuses they ask for
  Projectors,     \* processes of the projector's cycle
  BatchLimit,     \* triggers a cycle takes (--project-limit)
  MaxTriggers,    \* bound: executions that package a run
  MaxAdvances,    \* bound: advances by hand
  MaxFaults       \* bound: projectors killed, and projections that fail in passing

Causes == UNION {CausesOf[r] : r \in Runs}

ASSUME CloseAssumption ==
  /\ StrictCauses \subseteq Causes
  /\ Causes \cap Events = {}
  /\ Malformed \subseteq Runs
  /\ BatchLimit \in Nat /\ MaxTriggers \in Nat /\ MaxAdvances \in Nat /\ MaxFaults \in Nat

VARIABLES
  status,      \* status[r]: the run's status
  news,        \* news[r]: the last event CEC published about the run
  exceptions,  \* the open exceptions: [run, cause, blocking]
  triggers,    \* the CloseRunPackaged events, oldest first: the run of each
  inbox,       \* inbox[i]: the projector's inbox row of trigger i
  user,        \* user[u]: the request's copy of a run, and where it is
  projector,   \* projector[p]: where the cycle is
  advances, faults

closeVars == <<status, news, exceptions, triggers, inbox, user, projector,
               advances, faults>>
-----------------------------------------------------------------------------
RunStatuses == {"CREATED", "GATHERED", "VALIDATED", "PACKAGED", "DELIVERED", "REOPENED_EXCEPTION"}

CanTransition(from, to) ==
  \/ to = from
  \/ /\ to = "GATHERED"  /\ from \in {"CREATED", "REOPENED_EXCEPTION"}
  \/ /\ to = "VALIDATED" /\ from \in {"GATHERED", "REOPENED_EXCEPTION"}
  \/ /\ to = "PACKAGED"  /\ from \in {"VALIDATED", "REOPENED_EXCEPTION"}
  \/ /\ to = "DELIVERED" /\ from = "PACKAGED"
  \/ to = "REOPENED_EXCEPTION"

Exceptions == [run : Runs, cause : Causes \cup Events, blocking : BOOLEAN]
InboxStatuses == {"NONE", "RECEIVED", "FAILED", "PROCESSED"}
Asleep == [at |-> "idle"]
Rows == 1..MaxTriggers

CloseTypeOK ==
  /\ status \in [Runs -> RunStatuses]
  /\ news \in [Runs -> {"CloseRunCreated", "CloseRunPackaged", "CloseRunBlocked", "CloseRunAdvanced"}]
  /\ exceptions \subseteq Exceptions
  /\ triggers \in Seq(Runs) /\ Len(triggers) <= MaxTriggers
  /\ inbox \in [Rows -> InboxStatuses]
  /\ user \in [Users -> {Asleep} \cup [at : {"checked", "saved"}, run : Runs, to : RunStatuses]]
  /\ projector \in [Projectors ->
       {Asleep} \cup [at : {"look", "project"}, row : Rows, end : Rows]
                \cup [at : {"save"}, row : Rows, end : Rows, result : {"FAILED", "PROCESSED"}]]
  /\ advances \in 0..MaxAdvances
  /\ faults \in 0..MaxFaults

CloseInit ==
  /\ status = [r \in Runs |-> "CREATED"]
  /\ news = [r \in Runs |-> "CloseRunCreated"]
  /\ exceptions = {}
  /\ triggers = <<>>
  /\ inbox = [i \in Rows |-> "NONE"]
  /\ user = [u \in Users |-> Asleep]
  /\ projector = [p \in Projectors |-> Asleep]
  /\ advances = 0 /\ faults = 0
-----------------------------------------------------------------------------
(* Exceptions.                                                             *)

Blocks(c, strict) == c \in Events \/ c \notin StrictCauses \/ strict

\* _register_exception of every cause in cs: an open exception of the run for the same
\* cause is brought up to date, otherwise one is opened.  An exception whose cause is no
\* longer there stays as it is.
Register(r, cs, strict) ==
  {x \in exceptions : x.run # r \/ x.cause \notin cs}
    \cup {[run |-> r, cause |-> c, blocking |-> Blocks(c, strict)] : c \in cs}

Blocking(rows, r) == {x \in rows : x.run = r /\ x.blocking}

\* What stops an execution: the open exceptions of the run that block, those of earlier
\* executions too.
StoppingNow(rows, r, found) == {x \in Blocking(rows, r) : x.cause \in found}
Stopping(rows, r, found) == Blocking(rows, r)

\* ExceptionResolveView, without the run's lock.
Resolve(x) ==
  /\ x \in exceptions
  /\ exceptions' = exceptions \ {x}
  /\ UNCHANGED <<status, news, triggers, inbox, user, projector, advances, faults>>
-----------------------------------------------------------------------------
(* Execution.                                                              *)

\* execute_close_run, one transaction under the run's lock: CREATED or reopened, through
\* GATHERED and VALIDATED, to PACKAGED with its trigger or back to reopened.
Execute(r, strict, found) ==
  LET rows == Register(r, found, strict)
      blocked == Stopping(rows, r, found) # {}
  IN /\ status[r] \in {"CREATED", "REOPENED_EXCEPTION"}
     /\ ~blocked => Len(triggers) < MaxTriggers
     /\ exceptions' = rows
     /\ status' = [status EXCEPT ![r] = IF blocked THEN "REOPENED_EXCEPTION" ELSE "PACKAGED"]
     /\ news' = [news EXCEPT ![r] = IF blocked THEN "CloseRunBlocked" ELSE "CloseRunPackaged"]
     /\ triggers' = IF blocked THEN triggers ELSE Append(triggers, r)
     /\ UNCHANGED <<inbox, user, projector, advances, faults>>
-----------------------------------------------------------------------------
(* CloseRunAdvanceView.                                                    *)

CheckAdvance(u, r, to) ==
  /\ user[u] = Asleep
  /\ advances < MaxAdvances
  /\ CanTransition(status[r], to)
  /\ user' = [user EXCEPT ![u] = [at |-> "checked", run |-> r, to |-> to]]
  /\ advances' = advances + 1
  /\ UNCHANGED <<status, news, exceptions, triggers, inbox, projector, faults>>

\* The save waits for the run's lock and writes the status of the copy.
SaveAdvance(u) ==
  /\ user[u].at = "checked"
  /\ status' = [status EXCEPT ![user[u].run] = user[u].to]
  /\ user' = [user EXCEPT ![u].at = "saved"]
  /\ UNCHANGED <<news, exceptions, triggers, inbox, projector, advances, faults>>

PublishAdvance(u) ==
  /\ user[u].at = "saved"
  /\ news' = [news EXCEPT ![user[u].run] = "CloseRunAdvanced"]
  /\ user' = [user EXCEPT ![u] = Asleep]
  /\ UNCHANGED <<status, exceptions, triggers, inbox, projector, advances, faults>>

\* The request dies: what it saved stays, what it had not done is not done.
DropAdvance(u) ==
  /\ user[u] # Asleep
  /\ user' = [user EXCEPT ![u] = Asleep]
  /\ UNCHANGED <<status, news, exceptions, triggers, inbox, projector, advances, faults>>
-----------------------------------------------------------------------------
(* The projector: project_pending_shadow_ledger_triggers.                  *)

Least(m, n) == IF m < n THEN m ELSE n

\* The oldest triggers, those already processed included.
Batch == Least(BatchLimit, Len(triggers))

Take(p) ==
  /\ projector[p] = Asleep
  /\ Batch > 0
  /\ projector' = [projector EXCEPT ![p] = [at |-> "look", row |-> 1, end |-> Batch]]
  /\ UNCHANGED <<status, news, exceptions, triggers, inbox, user, advances, faults>>

\* Where a cycle goes once it is done with its row.
Onward(c) ==
  IF c.row < c.end THEN [at |-> "look", row |-> c.row + 1, end |-> c.end] ELSE Asleep

SavingSkipped(c, result) ==
  [at |-> "save", row |-> c.row, end |-> c.end,
   result |-> IF c.at = "look" THEN "SKIPPED" ELSE result]
Saving(c, result) == [at |-> "save", row |-> c.row, end |-> c.end, result |-> result]

\* A row received or failed is taken again.
Seen(i) == inbox[i] # "NONE"
Done(i) == inbox[i] = "PROCESSED"

\* The inbox row and then the run, both read without a lock.
Look(p) ==
  LET c == projector[p]
      i == c.row
  IN /\ c.at = "look"
     /\ inbox' = [inbox EXCEPT ![i] = IF @ = "NONE" THEN "RECEIVED" ELSE @]
     /\ projector' = [projector EXCEPT ![p] =
          IF Done(i) THEN Onward(c)
          ELSE IF status[triggers[i]] = "PACKAGED" THEN [c EXCEPT !.at = "project"]
          ELSE Saving(c, "PROCESSED")]
     /\ UNCHANGED <<status, news, exceptions, triggers, user, advances, faults>>

\* project_close_run_from_trigger, one transaction under the run's lock: every event of
\* the window is booked or becomes a blocking exception; open ones send the run back.
Project(p, unbooked) ==
  LET c == projector[p]
      r == triggers[c.row]
      rows == Register(r, unbooked, TRUE)
      blocked == \E x \in Blocking(rows, r) : x.cause \in Events
  IN /\ c.at = "project"
     /\ status[r] = "PACKAGED" /\ r \notin Malformed
     /\ exceptions' = rows
     /\ status' = [status EXCEPT ![r] = IF blocked THEN "REOPENED_EXCEPTION" ELSE @]
     /\ news' = [news EXCEPT ![r] = IF blocked THEN "CloseRunBlocked" ELSE @]
     /\ projector' = [projector EXCEPT ![p] = Saving(c, "PROCESSED")]
     /\ UNCHANGED <<triggers, inbox, user, advances, faults>>

\* It fails and is rolled back: the run has left PACKAGED since it was looked at, an event
\* of the window cannot be read (its occurred_at, say), or there is some passing error.
ProjectFails(p) ==
  LET c == projector[p]
      r == triggers[c.row]
  IN /\ c.at = "project"
     /\ \/ status[r] # "PACKAGED" /\ UNCHANGED faults
        \/ r \in Malformed /\ UNCHANGED faults
        \/ faults < MaxFaults /\ faults' = faults + 1
     /\ projector' = [projector EXCEPT ![p] = Saving(c, "FAILED")]
     /\ UNCHANGED <<status, news, exceptions, triggers, inbox, user, advances>>

SaveInbox(p) ==
  LET c == projector[p]
  IN /\ c.at = "save"
     /\ inbox' = [inbox EXCEPT ![c.row] = c.result]
     /\ projector' = [projector EXCEPT ![p] = Onward(c)]
     /\ UNCHANGED <<status, news, exceptions, triggers, user, advances, faults>>

\* The cycle is killed; the next one starts from the oldest trigger.
Crash(p) ==
  /\ projector[p] # Asleep
  /\ faults < MaxFaults
  /\ faults' = faults + 1
  /\ projector' = [projector EXCEPT ![p] = Asleep]
  /\ UNCHANGED <<status, news, exceptions, triggers, inbox, user, advances>>
-----------------------------------------------------------------------------
Cycle(p) ==
  \/ Take(p) \/ Look(p) \/ ProjectFails(p) \/ SaveInbox(p)
  \/ \E unbooked \in SUBSET Events : Project(p, unbooked)

CloseNext ==
  \/ \E x \in exceptions : Resolve(x)
  \/ \E r \in Runs, strict \in BOOLEAN : \E found \in SUBSET CausesOf[r] : Execute(r, strict, found)
  \/ \E u \in Users, r \in Runs, to \in Asked \cap RunStatuses : CheckAdvance(u, r, to)
  \/ \E u \in Users : SaveAdvance(u) \/ PublishAdvance(u) \/ DropAdvance(u)
  \/ \E p \in Projectors : Cycle(p) \/ Crash(p)

\* Cron starts the cycle again and again, and a cycle goes on unless it is killed.
CloseFairness == \A p \in Projectors : WF_closeVars(Cycle(p))

CloseSpec == CloseInit /\ [][CloseNext]_closeVars /\ CloseFairness
-----------------------------------------------------------------------------
(* What the close of a window must keep.                                   *)

\* As long as "packaged" is the last that was said of a run, no open exception of it
\* blocks: what an execution or a projection opens, or finds still open, is followed by
\* "blocked" (execute_close_run, project_close_run_from_trigger).
LastSaidPackagedIsClean ==
  \A r \in Runs : news[r] = "CloseRunPackaged" => Blocking(exceptions, r) = {}

\* Every trigger whose window can be projected is in the end processed for good: a cycle
\* that fails because the run has moved or for a passing error, one that is killed, a
\* second one that saves an older result, and a window before it that fails again and
\* again do not keep it from being processed, as long as the cycle's limit covers the
\* triggers there are.
Projectable(i) == Len(triggers) >= i /\ triggers[i] \notin Malformed
TriggersSettle ==
  \A i \in Rows : Projectable(i) ~> [](inbox[i] = "PROCESSED")

=============================================================================
