------------------------------- MODULE Ledger -------------------------------
(***************************************************************************)
(* The accounting kernel from an operational event to the general ledger:  *)
(* drafts, approval, posting, reversal and the close of fiscal periods.    *)
(*                                                                         *)
(* A draft belongs to one event and one version of the posting rules.  It  *)
(* is written by the link (inside the business transaction, and again by   *)
(* the outbox dispatcher), by the projector of close runs, by approvers    *)
(* and by posters.  Only approvers and posters lock the row before they    *)
(* read it; link and projector read first and lock when they save.         *)
(*                                                                         *)
(* A transaction that holds a row lock or works with something it read     *)
(* earlier is a session with a begin and a commit; the others are one      *)
(* step.  A rolled back transaction leaves no trace and is not a step.     *)
(* The company is taken with its first rules seeded and Fase 7 enabled.    *)
(***************************************************************************)
EXTENDS Integers, Sequences, FiniteSets

CONSTANTS
  Events,      \* operational events
  Users,       \* people who approve, post, close and reverse
  Nobody,      \* actor of the dispatcher, and approver of an unapproved draft
  Periods,     \* fiscal periods
  PeriodOf,    \* PeriodOf[e]: the period e occurred in
  MaxVersion,  \* bound on the versions of the posting rules
  Faulty,      \* drafts whose lines the rules cannot build
  Unmapped     \* drafts whose lines Fase 7 rejects (unknown account, currency)

Drafts == Events \X (1..MaxVersion)

ASSUME LedgerAssumption ==
  /\ Nobody \notin Users
  /\ MaxVersion \in Nat \ {0}
  /\ PeriodOf \in [Events -> Periods]
  /\ Faulty \subseteq Drafts
  /\ Unmapped \subseteq Drafts

VARIABLES
  active,     \* version of the ACTIVE PostingRuleSet
  born,       \* born[e]: version active when e occurred, 0 before
  eco,        \* events with an EconomicEvent row
  draft,      \* draft[d]: state of the JournalDraft
  approver,   \* approver[d]: approved_by
  entry,      \* entry[d]: the JournalEntry of d
  reversals,  \* reversals[d]: entries with reversed_entry = entry[d]
  period,     \* period[p]: FiscalPeriod.status
  link,       \* link[e]: transaction linking e
  proj,       \* proj[e]: transaction projecting e
  post,       \* post[u]: posting transaction of u
  rev,        \* rev[u]: reversal transaction of u
  close       \* close[p]: transaction closing p

vars == <<active, born, eco, draft, approver, entry, reversals, period, link, proj, post, rev,
          close>>

States == {"NONE", "VALIDATED", "EXCEPTION", "APPROVED_FOR_POSTING", "POSTED"}
Actors == Users \cup {Nobody}
NoEntry == [posted |-> FALSE, by |-> Nobody]

Entries == [posted : BOOLEAN, by : Actors]
Reversals == [by : Users, into : Periods]
Links == [stage : {"idle", "loaded", "posting"}, ver : 0..MaxVersion,
          fresh : BOOLEAN, auto : BOOLEAN, actor : Actors, open : BOOLEAN]
Projections == [ver : 0..MaxVersion, seen : States]
Postings == [on : SUBSET Drafts, auto : BOOLEAN, override : BOOLEAN]
Undoings == [on : SUBSET Drafts, into : SUBSET Periods]
\* drafted: the events that had a draft when the close counted the pending ones (history).
Closings == [stage : {"idle", "counted", "listed", "reconciled"}, force : BOOLEAN,
             drafted : SUBSET Events, listed : SUBSET Events]

LinkIdle == [stage |-> "idle", ver |-> 0, fresh |-> FALSE, auto |-> FALSE,
             actor |-> Nobody, open |-> FALSE]
ProjIdle == [ver |-> 0, seen |-> "NONE"]
PostIdle == [on |-> {}, auto |-> FALSE, override |-> FALSE]
RevIdle  == [on |-> {}, into |-> {}]
CloseIdle == [stage |-> "idle", force |-> FALSE, drafted |-> {}, listed |-> {}]

TypeOK ==
  /\ active \in 1..MaxVersion
  /\ born \in [Events -> 0..MaxVersion]
  /\ eco \subseteq Events
  /\ draft \in [Drafts -> States]
  /\ approver \in [Drafts -> Actors]
  /\ entry \in [Drafts -> Entries]
  /\ reversals \in [Drafts -> Seq(Reversals)]
  /\ period \in [Periods -> {"OPEN", "CLOSED"}]
  /\ link \in [Events -> Links]
  /\ proj \in [Events -> Projections]
  /\ post \in [Users -> Postings]
  /\ rev \in [Users -> Undoings]
  /\ close \in [Periods -> Closings]

Init ==
  /\ active = 1
  /\ born = [e \in Events |-> 0]
  /\ eco = {}
  /\ draft = [d \in Drafts |-> "NONE"]
  /\ approver = [d \in Drafts |-> Nobody]
  /\ entry = [d \in Drafts |-> NoEntry]
  /\ reversals = [d \in Drafts |-> <<>>]
  /\ period = [p \in Periods |-> "OPEN"]
  /\ link = [e \in Events |-> LinkIdle]
  /\ proj = [e \in Events |-> ProjIdle]
  /\ post = [u \in Users |-> PostIdle]
  /\ rev = [u \in Users |-> RevIdle]
  /\ close = [p \in Periods |-> CloseIdle]

-----------------------------------------------------------------------------
\* Row locks on a draft: posters from their read, an auto-posting link from its save.
HeldByLink(d) == \E e \in Events : link[e].stage = "posting" /\ d = <<e, link[e].ver>>
Held(d) == HeldByLink(d) \/ \E u \in Users : d \in post[u].on

\* A reversal locks its original and the period it goes into, a close its period.  A new
\* JournalEntry waits for that lock too, in the check of its foreign key at the commit.
Unlocked(x) == FALSE
OriginalHeld(d) == \E u \in Users : d \in rev[u].on
PeriodHeld(p) == close[p].stage # "idle" \/ \E u \in Users : p \in rev[u].into

\* get_or_create waits on the unique key while another transaction is inserting it.
BeingCreated(d) ==
  \E e \in Events : \/ link[e].fresh /\ d = <<e, link[e].ver>>
                    \/ proj[e].ver # 0 /\ proj[e].seen = "NONE" /\ d = <<e, proj[e].ver>>

\* The lines, and so the verdict on them, are a function of the event and the rules.
VerdictGenerated(d) == "GENERATED"
Verdict(d) == IF d \in Faulty THEN "EXCEPTION" ELSE "VALIDATED"

\* seed_posting_rules_v1_for_company, after a release changed the rules.
SeedRules ==
  /\ active < MaxVersion
  /\ active' = active + 1
  /\ UNCHANGED <<born, eco, draft, approver, entry, reversals, period, link, proj, post, rev, close>>

\* An event published while accounting does not take its module.
Occur(e) ==
  /\ born[e] = 0
  /\ link[e] = LinkIdle
  /\ born' = [born EXCEPT ![e] = active]
  /\ UNCHANGED <<active, eco, draft, approver, entry, reversals, period, link, proj, post, rev, close>>

\* link_operational_event_to_accounting: the business transaction that publishes e
\* runs it for its user, the dispatcher runs it again for nobody.  Rules that are not
\* yet in force at the event's date are used all the same, through the seed.
BeginLink(e, auto, u) ==
  LET d == <<e, active>> IN
    /\ link[e] = LinkIdle
    /\ (born[e] # 0) <=> (u = Nobody)
    /\ ~(draft[d] = "POSTED" /\ entry[d].posted)
    /\ ~BeingCreated(d)
    /\ link' = [link EXCEPT ![e] = [stage |-> "loaded", ver |-> active,
                                    fresh |-> draft[d] = "NONE", auto |-> auto,
                                    actor |-> u, open |-> FALSE]]
    /\ UNCHANGED <<active, born, eco, draft, approver, entry, reversals, period, proj, post, rev, close>>

\* What the commit of the link makes visible, the draft apart.
EndLink(e) ==
  /\ born' = [born EXCEPT ![e] = IF @ = 0 THEN link[e].ver ELSE @]
  /\ eco' = eco \cup {e}
  /\ link' = [link EXCEPT ![e] = LinkIdle]
  /\ UNCHANGED <<active, approver, reversals, period, proj, post, rev, close>>

SaveLink(e) ==
  LET d == <<e, link[e].ver>> IN
    /\ link[e].stage = "loaded"
    /\ ~Held(d)
    /\ ~link[e].auto \/ d \in Faulty
    /\ draft' = [draft EXCEPT ![d] = Verdict(d)]
    /\ EndLink(e)
    /\ UNCHANGED entry

\* auto_post_on_write: the draft is saved and its period read, without a lock.
BeginAutoPost(e) ==
  LET d == <<e, link[e].ver>> IN
    /\ link[e].stage = "loaded"
    /\ ~Held(d)
    /\ link[e].auto /\ d \notin Faulty
    /\ link' = [link EXCEPT ![e] = [@ EXCEPT !.stage = "posting",
                                              !.open = period[PeriodOf[e]] = "OPEN"]]
    /\ UNCHANGED <<active, born, eco, draft, approver, entry, reversals, period, proj, post, rev, close>>

\* _post_single_journal_draft: a closed period or bad Fase 7 lines raise, and the
\* link turns that into a status; an entry already inserted stays, without lines.
SettledEarly(e, d) == entry[d].posted \/ d \notin Unmapped
Settled(e, d) == link[e].open /\ (entry[d].posted \/ d \notin Unmapped)

FinishAutoPost(e) ==
  LET d == <<e, link[e].ver>> IN
    /\ link[e].stage = "posting"
    /\ link[e].open /\ ~entry[d].posted => ~PeriodHeld(PeriodOf[e])
    /\ draft' = [draft EXCEPT ![d] = IF Settled(e, d) THEN "POSTED" ELSE "VALIDATED"]
    /\ entry' = IF link[e].open /\ ~entry[d].posted
                  THEN [entry EXCEPT ![d] = [posted |-> TRUE, by |-> link[e].actor]]
                  ELSE entry
    /\ EndLink(e)

\* project_close_run_from_trigger, for an event in the window of a PACKAGED run.
ProjectWithoutRules(e) ==
  /\ born[e] # 0 /\ active > born[e]
  /\ proj[e] = ProjIdle
  /\ eco' = eco \cup {e}
  /\ UNCHANGED <<active, born, draft, approver, entry, reversals, period, link, proj, post, rev, close>>

BeginProjection(e) ==
  /\ born[e] # 0 /\ active = born[e]
  /\ proj[e] = ProjIdle
  /\ ~BeingCreated(<<e, active>>)
  /\ proj' = [proj EXCEPT ![e] = [ver |-> active, seen |-> draft[<<e, active>>]]]
  /\ UNCHANGED <<active, born, eco, draft, approver, entry, reversals, period, link, post, rev, close>>

SaveProjection(e) ==
  LET d == <<e, proj[e].ver>> IN
    /\ proj[e].ver # 0
    /\ proj[e].seen = Verdict(d) \/ ~Held(d)
    /\ draft' = IF proj[e].seen = Verdict(d) THEN draft
                                             ELSE [draft EXCEPT ![d] = Verdict(d)]
    /\ eco' = eco \cup {e}
    /\ proj' = [proj EXCEPT ![e] = ProjIdle]
    /\ UNCHANGED <<active, born, approver, entry, reversals, period, link, post, rev, close>>

\* approve_journal_drafts.  A posting with auto_approve that is then refused (same
\* user, closed period) commits exactly this.
Approve(u, d) ==
  /\ draft[d] = "VALIDATED"
  /\ ~Held(d)
  /\ draft' = [draft EXCEPT ![d] = "APPROVED_FOR_POSTING"]
  /\ approver' = [approver EXCEPT ![d] = u]
  /\ UNCHANGED <<active, born, eco, entry, reversals, period, link, proj, post, rev, close>>

\* post_journal_drafts on one draft: it is locked, the two users are compared, and the
\* period is read without a lock.
ApproverAt(u, d, auto) == IF auto /\ draft[d] = "VALIDATED" THEN u ELSE approver[d]

BeginPosting(u, d, auto, override) ==
  /\ post[u] = PostIdle
  /\ draft[d] \in {"VALIDATED", "APPROVED_FOR_POSTING"}
  /\ ~Held(d)
  /\ override \/ ApproverAt(u, d, auto) # u
  /\ period[PeriodOf[d[1]]] = "OPEN"
  /\ post' = [post EXCEPT ![u] = [on |-> {d}, auto |-> auto /\ draft[d] = "VALIDATED",
                                  override |-> override]]
  /\ UNCHANGED <<active, born, eco, draft, approver, entry, reversals, period, link, proj, rev, close>>

EndPosting(u, d, state) ==
  /\ post[u].on = {d}
  /\ draft' = [draft EXCEPT ![d] = state]
  /\ approver' = IF post[u].auto THEN [approver EXCEPT ![d] = u] ELSE approver
  /\ post' = [post EXCEPT ![u] = PostIdle]
  /\ UNCHANGED <<active, born, eco, reversals, period, link, proj, rev, close>>

FinishPosting(u, d) ==
  /\ EndPosting(u, d, "POSTED")
  /\ entry[d].posted \/ (d \notin Unmapped /\ ~PeriodHeld(PeriodOf[d[1]]))
  /\ entry' = IF entry[d].posted THEN entry
              ELSE [entry EXCEPT ![d] = [posted |-> TRUE, by |-> u]]

\* Fase 7 rejects the lines: the entry is deleted, the approval stays.
AbandonPosting(u, d) ==
  /\ EndPosting(u, d, IF post[u].auto THEN "APPROVED_FOR_POSTING" ELSE draft[d])
  /\ ~entry[d].posted /\ d \in Unmapped
  /\ UNCHANGED entry

\* What evaluate_period_close_gates reads, one statement after another.  FAILED outbox rows,
\* which only add refusals, are left out.
DraftsOf(p) == {d \in Drafts : PeriodOf[d[1]] = p /\ draft[d] # "NONE"}
Pending(p) == {d \in DraftsOf(p) : draft[d] # "POSTED"}
OccurredIn(p) == {e \in Events : born[e] # 0 /\ PeriodOf[e] = p}
Drafted(e) == \E d \in Drafts : d[1] = e /\ draft[d] # "NONE"
UnreconciledByEvent(E) == E \ eco
Unreconciled(E) == {e \in E : e \notin eco \/ ~Drafted(e)}
Exceptions(E) == {d \in Drafts : d[1] \in E /\ draft[d] = "EXCEPTION"}

PostedIn(u, p) ==
  \E d \in Drafts : \/ entry[d].posted /\ entry[d].by = u /\ PeriodOf[d[1]] = p
                    \/ \E i \in DOMAIN reversals[d] : reversals[d][i] = [by |-> u, into |-> p]

\* close_fiscal_period locks the period, and nothing else, and reads the gates statement by
\* statement (READ COMMITTED): the pending drafts, the events, what is linked and drafted of
\* them, and last the exceptions and who posted.  A gate that fails ends it.
BeginClose(p, force) ==
  /\ period[p] = "OPEN"
  /\ ~PeriodHeld(p)
  /\ Pending(p) = {} \/ force
  /\ close' = [close EXCEPT ![p] = [stage |-> "counted", force |-> force, listed |-> {},
                                    drafted |-> {d[1] : d \in DraftsOf(p)}]]
  /\ UNCHANGED <<active, born, eco, draft, approver, entry, reversals, period, link, proj, post, rev>>

ListEvents(p) ==
  /\ close[p].stage = "counted"
  /\ close' = [close EXCEPT ![p] = [@ EXCEPT !.stage = "listed", !.listed = OccurredIn(p)]]
  /\ UNCHANGED <<active, born, eco, draft, approver, entry, reversals, period, link, proj, post, rev>>

Reconcile(p) ==
  /\ close[p].stage = "listed"
  /\ Unreconciled(close[p].listed) = {}
  /\ close' = [close EXCEPT ![p] = [@ EXCEPT !.stage = "reconciled"]]
  /\ UNCHANGED <<active, born, eco, draft, approver, entry, reversals, period, link, proj, post, rev>>

FinishClose(u, p, override) ==
  /\ close[p].stage = "reconciled"
  /\ Exceptions(close[p].listed) = {}
  /\ override \/ ~PostedIn(u, p)
  /\ period' = [period EXCEPT ![p] = "CLOSED"]
  /\ close' = [close EXCEPT ![p] = CloseIdle]
  /\ UNCHANGED <<active, born, eco, draft, approver, entry, reversals, link, proj, post, rev>>

RefuseClose(u, p, override) ==
  /\ \/ close[p].stage = "listed" /\ Unreconciled(close[p].listed) # {}
     \/ /\ close[p].stage = "reconciled"
        /\ \/ Exceptions(close[p].listed) # {}
           \/ ~override /\ PostedIn(u, p)
  /\ close' = [close EXCEPT ![p] = CloseIdle]
  /\ UNCHANGED <<active, born, eco, draft, approver, entry, reversals, period, link, proj, post, rev>>

\* reverse_journal_entry: the original and the period are locked until the commit.
BeginReversal(u, d, p, override) ==
  /\ rev[u] = RevIdle
  /\ entry[d].posted /\ d \notin Unmapped
  /\ ~OriginalHeld(d)
  /\ reversals[d] = <<>>
  /\ override \/ entry[d].by # u
  /\ ~PeriodHeld(p)
  /\ period[p] = "OPEN"
  /\ rev' = [rev EXCEPT ![u] = [on |-> {d}, into |-> {p}]]
  /\ UNCHANGED <<active, born, eco, draft, approver, entry, reversals, period, link, proj, post, close>>

FinishReversal(u, d, p) ==
  /\ rev[u] = [on |-> {d}, into |-> {p}]
  /\ reversals' = [reversals EXCEPT ![d] = Append(@, [by |-> u, into |-> p])]
  /\ rev' = [rev EXCEPT ![u] = RevIdle]
  /\ UNCHANGED <<active, born, eco, draft, approver, entry, period, link, proj, post, close>>

Next ==
  \/ SeedRules
  \/ \E e \in Events :
       \/ Occur(e)
       \/ \E auto \in BOOLEAN, u \in Actors : BeginLink(e, auto, u)
       \/ SaveLink(e)
       \/ BeginAutoPost(e)
       \/ FinishAutoPost(e)
       \/ ProjectWithoutRules(e)
       \/ BeginProjection(e)
       \/ SaveProjection(e)
  \/ \E u \in Users, d \in Drafts :
       \/ Approve(u, d)
       \/ \E auto, override \in BOOLEAN : BeginPosting(u, d, auto, override)
       \/ FinishPosting(u, d)
       \/ AbandonPosting(u, d)
       \/ \E p \in Periods, override \in BOOLEAN : BeginReversal(u, d, p, override)
       \/ \E p \in Periods : FinishReversal(u, d, p)
  \/ \E p \in Periods :
       \/ \E force \in BOOLEAN : BeginClose(p, force)
       \/ ListEvents(p)
       \/ Reconcile(p)
       \/ \E u \in Users, override \in BOOLEAN : FinishClose(u, p, override)
       \/ \E u \in Users, override \in BOOLEAN : RefuseClose(u, p, override)

Spec == Init /\ [][Next]_vars

-----------------------------------------------------------------------------
\* A draft that says POSTED has its entry in the general ledger, whatever link,
\* projector and posters wrote over one another (_post_single_journal_draft).
PostedHasEntry == \A d \in Drafts : draft[d] = "POSTED" => entry[d].posted

\* Concurrent reversals of one entry leave one reversal: the second finds the first
\* under the lock of the original (reverse_journal_entry).
ReversedOnce == \A d \in Drafts : Len(reversals[d]) <= 1

\* A reversal never lands in a closed period, although the close may come between its
\* check and its commit.
ReversalInOpenPeriod ==
  [][\A d \in Drafts, u \in Users, p \in Periods :
       reversals'[d] = Append(reversals[d], [by |-> u, into |-> p]) => period[p] = "OPEN"]_vars

\* Segregation of duties: who approved the draft, as it stands when the entry is
\* created, is not who posts it, unless the override was given.
SoDPosting ==
  [][\A d \in Drafts, u \in Users :
       ~entry[d].posted /\ entry'[d].posted /\ entry'[d].by = u /\ approver'[d] = u
         => post[u].override]_vars

\* What an unforced close leaves without an entry is late: an event drafted before its first
\* read has one, whatever was overwritten since, and an event that had occurred when it listed
\* them is at least drafted (evaluate_period_close_gates).
Complete(p) ==
  /\ \A e \in close[p].drafted : \E v \in 1..MaxVersion : entry[<<e, v>>].posted
  /\ \A e \in close[p].listed : Drafted(e)

CloseMissesOnlyTheLate ==
  [][\A p \in Periods :
       period[p] = "OPEN" /\ period'[p] = "CLOSED" /\ ~close[p].force => Complete(p)]_vars

\* "No posting en periodo cerrado": no entry appears in a period that is closed.
NoPostingInClosedPeriod ==
  [][\A d \in Drafts :
       ~entry[d].posted /\ entry'[d].posted => period[PeriodOf[d[1]]] = "OPEN"]_vars

=============================================================================
