--------------------------- MODULE Ledger_proofs ---------------------------
(***************************************************************************)
(* For any events, users, periods and rule versions: a posted draft has    *)
(* its entry, an entry is reversed once and into an open period, nobody    *)
(* posts what they approved, and an unforced close leaves no event out.    *)
(***************************************************************************)
EXTENDS Ledger, TLAPS

\* A link or a posting under way works on a version that exists, and what is not in
\* the database yet has no draft, no approver, no projection and no posting.
Sane ==
  /\ \A e \in Events :
       /\ link[e].stage # "idle" => link[e].ver # 0
       /\ link[e].actor # Nobody => born[e] = 0
       /\ born[e] = 0 => proj[e].ver = 0
  /\ \A d \in Drafts : born[d[1]] = 0 => draft[d] = "NONE" /\ approver[d] = Nobody
  /\ \A u \in Users, d \in Drafts : post[u].on = {d} => born[d[1]] # 0

\* Who posts without the override is not the approver, now and until the commit.
Segregated ==
  \A u \in Users, d \in Drafts :
    post[u].on = {d} /\ ~post[u].override => approver[d] # u /\ ~post[u].auto

\* A reversal under way is alone with its original, which has none yet, and keeps the
\* period it goes into open.
Reversing ==
  \A u \in Users :
    /\ \A d \in Drafts : rev[u].on = {d} => /\ reversals[d] = <<>>
                                            /\ \A w \in Users \ {u} : rev[w].on # {d}
    /\ \A p \in Periods : rev[u].into = {p} => period[p] = "OPEN"

\* A close under way keeps its period open and without a reversal that goes into it.
PeriodsLocked ==
  \A p \in Periods :
    close[p].stage # "idle" => period[p] = "OPEN" /\ \A u \in Users : rev[u].into # {p}

IInv ==
  /\ TypeOK /\ PostedHasEntry /\ ReversedOnce /\ Sane /\ Segregated
  /\ Reversing /\ PeriodsLocked

LEMMA DraftType == \A d \in Drafts : d[1] \in Events /\ d = <<d[1], d[2]>>
  BY DEF Drafts

LEMMA InitInv == Init => IInv
<1> SUFFICES ASSUME Init PROVE IInv
  OBVIOUS
<1>1. TypeOK
  <2>1. /\ LinkIdle \in Links
        /\ ProjIdle \in Projections
        /\ PostIdle \in Postings
        /\ RevIdle \in Undoings
        /\ CloseIdle \in Closings
        /\ NoEntry \in Entries
        /\ <<>> \in Seq(Reversals)
    BY LedgerAssumption
    DEF LinkIdle, ProjIdle, PostIdle, RevIdle, CloseIdle, NoEntry, Links, Projections, Postings,
        Undoings, Closings, Entries, Actors, States
  <2>2. QED
    BY <2>1, LedgerAssumption DEF Init, TypeOK, States, Actors
<1>2. Sane /\ Segregated /\ Reversing /\ PeriodsLocked
  BY DraftType
  DEF Init, Sane, Segregated, Reversing, PeriodsLocked, LinkIdle, ProjIdle, PostIdle, RevIdle,
      CloseIdle
<1>3. PostedHasEntry /\ ReversedOnce
  BY DEF Init, PostedHasEntry, ReversedOnce
<1>4. QED
  BY <1>1, <1>2, <1>3 DEF IInv

\* The locks and the history of reversals stand when a step leaves them alone.
LEMMA ReversalsUntouched ==
  ASSUME ReversedOnce, Reversing, PeriodsLocked, UNCHANGED <<reversals, rev, period, close>>
  PROVE ReversedOnce' /\ Reversing' /\ PeriodsLocked'
  BY DEF ReversedOnce, Reversing, PeriodsLocked

LEMMA PostingsUntouched ==
  ASSUME Segregated, UNCHANGED <<post, approver>>
  PROVE Segregated'
  BY DEF Segregated

LEMMA VerdictType == \A d \in Drafts : Verdict(d) \in {"VALIDATED", "EXCEPTION"}
  BY DEF Verdict

LEMMA LinkIdleType == LinkIdle \in Links /\ LinkIdle.stage = "idle" /\ LinkIdle.actor = Nobody
  BY LedgerAssumption DEF LinkIdle, Links, Actors

\* The draft a link or a projection under way works on.
LEMMA DraftAt ==
  ASSUME NEW e \in Events, NEW v \in 1..MaxVersion
  PROVE <<e, v>> \in Drafts /\ <<e, v>>[1] = e
  BY DEF Drafts

LEMMA LinkedDraft ==
  ASSUME IInv, NEW e \in Events, link[e].stage # "idle"
  PROVE /\ link[e] \in Links
        /\ link[e].ver \in 1..MaxVersion
        /\ <<e, link[e].ver>> \in Drafts
        /\ <<e, link[e].ver>>[1] = e
<1>1. link[e] \in Links /\ link[e].ver # 0
  BY DEF IInv, TypeOK, Sane
<1>2. link[e].ver \in 1..MaxVersion
  BY <1>1, LedgerAssumption DEF Links
<1>3. QED
  BY <1>1, <1>2, DraftAt

\* The commit of a link: its event is born, whatever it saved in its draft.
LEMMA LinkEnds ==
  ASSUME IInv, NEW e \in Events, link[e].stage # "idle", EndLink(e),
         NEW s \in {"VALIDATED", "EXCEPTION", "POSTED"},
         draft' = [draft EXCEPT ![<<e, link[e].ver>>] = s],
         entry' \in [Drafts -> Entries]
  PROVE TypeOK' /\ Sane' /\ Segregated' /\ ReversedOnce' /\ Reversing' /\ PeriodsLocked'
<1> DEFINE d == <<e, link[e].ver>>
<1>1. /\ link[e].ver \in 1..MaxVersion
      /\ d \in Drafts
      /\ d[1] = e
  BY LinkedDraft
<1>2. /\ born' = [born EXCEPT ![e] = IF @ = 0 THEN link[e].ver ELSE @]
      /\ link' = [link EXCEPT ![e] = LinkIdle]
      /\ UNCHANGED <<active, approver, reversals, period, proj, post, rev, close>>
      /\ eco' = eco \cup {e}
  BY DEF EndLink
<1>3. TypeOK'
  <2>1. born' \in [Events -> 0..MaxVersion]
    BY <1>1, <1>2, LedgerAssumption DEF IInv, TypeOK
  <2>2. draft' \in [Drafts -> States]
    BY DEF IInv, TypeOK, States
  <2>3. link' \in [Events -> Links]
    BY <1>2, LinkIdleType DEF IInv, TypeOK
  <2>4. QED
    BY <1>2, <2>1, <2>2, <2>3 DEF IInv, TypeOK
<1>4. /\ born'[e] # 0
      /\ \A x \in Events \ {e} : born'[x] = born[x] /\ link'[x] = link[x]
      /\ link'[e] = LinkIdle
      /\ \A x \in Drafts : x[1] # e => draft'[x] = draft[x]
  BY <1>1, <1>2, LedgerAssumption DEF IInv, TypeOK
<1>5. Sane'
  <2>1. ASSUME NEW x \in Events
        PROVE /\ link'[x].stage # "idle" => link'[x].ver # 0
              /\ link'[x].actor # Nobody => born'[x] = 0
              /\ born'[x] = 0 => proj'[x].ver = 0
    BY <1>2, <1>4, LinkIdleType DEF IInv, Sane
  <2>2. ASSUME NEW x \in Drafts
        PROVE /\ born'[x[1]] = 0 => draft'[x] = "NONE" /\ approver'[x] = Nobody
              /\ \A u \in Users : post'[u].on = {x} => born'[x[1]] # 0
    BY <1>2, <1>4, DraftType DEF IInv, Sane
  <2>3. QED
    BY <2>1, <2>2 DEF Sane
<1>6. QED
  BY <1>2, <1>3, <1>5, PostingsUntouched, ReversalsUntouched DEF IInv

LEMMA StepInv == IInv /\ [Next]_vars => IInv'
<1> SUFFICES ASSUME IInv, [Next]_vars PROVE IInv'
  OBVIOUS
<1> USE DEF IInv
<1>1. CASE SeedRules
  <2>1. TypeOK'
    BY <1>1, LedgerAssumption DEF SeedRules, TypeOK
  <2>2. QED
    BY <1>1, <2>1, PostingsUntouched, ReversalsUntouched DEF SeedRules, PostedHasEntry, Sane
<1>2. ASSUME NEW e \in Events, Occur(e) PROVE IInv'
  <2>1. active # 0 /\ active \in 0..MaxVersion
    BY LedgerAssumption DEF TypeOK
  <2>2. TypeOK'
    BY <1>2, <2>1 DEF Occur, TypeOK
  <2>3. Sane'
    BY <1>2, <2>1, LinkIdleType, DraftType DEF Occur, TypeOK, Sane
  <2>4. QED
    BY <1>2, <2>2, <2>3, PostingsUntouched, ReversalsUntouched DEF Occur, PostedHasEntry
<1>3. ASSUME NEW e \in Events, NEW auto \in BOOLEAN, NEW u \in Actors, BeginLink(e, auto, u)
      PROVE IInv'
  <2> DEFINE r == [stage |-> "loaded", ver |-> active, fresh |-> draft[<<e, active>>] = "NONE",
                   auto |-> auto, actor |-> u, open |-> FALSE]
  <2>1. active # 0 /\ active \in 0..MaxVersion
    BY LedgerAssumption DEF TypeOK
  <2>2. r \in Links /\ r.ver # 0 /\ (r.actor # Nobody => born[e] = 0)
    BY <1>3, <2>1 DEF BeginLink, Links
  <2>3. link' = [link EXCEPT ![e] = r]
    BY <1>3 DEF BeginLink
  <2> HIDE DEF r
  <2>4. TypeOK'
    BY <1>3, <2>2, <2>3 DEF BeginLink, TypeOK
  <2>5. ASSUME NEW x \in Events
        PROVE /\ link'[x].stage # "idle" => link'[x].ver # 0
              /\ link'[x].actor # Nobody => born[x] = 0
    BY <2>2, <2>3 DEF TypeOK, Sane
  <2>6. Sane'
    BY <1>3, <2>5 DEF BeginLink, Sane
  <2>7. QED
    BY <1>3, <2>4, <2>6, PostingsUntouched, ReversalsUntouched DEF BeginLink, PostedHasEntry
<1>4. ASSUME NEW e \in Events, SaveLink(e) PROVE IInv'
  <2> DEFINE d == <<e, link[e].ver>>
  <2>1. link[e].stage # "idle" /\ d \in Drafts /\ Verdict(d) \in {"VALIDATED", "EXCEPTION"}
    BY <1>4, LinkedDraft, VerdictType DEF SaveLink
  <2>2. draft' = [draft EXCEPT ![d] = Verdict(d)] /\ EndLink(e) /\ entry' = entry
    BY <1>4 DEF SaveLink
  <2>3. TypeOK' /\ Sane' /\ Segregated' /\ ReversedOnce' /\ Reversing' /\ PeriodsLocked'
    BY <2>1, <2>2, LinkEnds DEF TypeOK
  <2>4. PostedHasEntry'
    BY <2>1, <2>2 DEF TypeOK, PostedHasEntry
  <2>5. QED
    BY <2>3, <2>4
<1>5. ASSUME NEW e \in Events, BeginAutoPost(e) PROVE IInv'
  <2> DEFINE r == [link[e] EXCEPT !.stage = "posting", !.open = period[PeriodOf[e]] = "OPEN"]
  <2>1. link[e] \in Links /\ link[e].ver # 0
    BY <1>5, LinkedDraft DEF BeginAutoPost
  <2>2. r \in Links /\ r.ver = link[e].ver /\ r.actor = link[e].actor
    BY <2>1 DEF Links
  <2>3. link' = [link EXCEPT ![e] = r]
    BY <1>5 DEF BeginAutoPost
  <2> HIDE DEF r
  <2>4. TypeOK'
    BY <1>5, <2>2, <2>3 DEF BeginAutoPost, TypeOK
  <2>5. ASSUME NEW x \in Events
        PROVE /\ link'[x].stage # "idle" => link'[x].ver # 0
              /\ link'[x].actor # Nobody => born[x] = 0
    BY <2>1, <2>2, <2>3 DEF TypeOK, Sane
  <2>6. Sane'
    BY <1>5, <2>5 DEF BeginAutoPost, Sane
  <2>7. QED
    BY <1>5, <2>4, <2>6, PostingsUntouched, ReversalsUntouched DEF BeginAutoPost, PostedHasEntry
<1>6. ASSUME NEW e \in Events, FinishAutoPost(e) PROVE IInv'
  <2> DEFINE d == <<e, link[e].ver>>
             r == [posted |-> TRUE, by |-> link[e].actor]
             s == IF Settled(e, d) THEN "POSTED" ELSE "VALIDATED"
  <2>1. link[e].stage # "idle" /\ d \in Drafts /\ link[e] \in Links
    BY <1>6, LinkedDraft DEF FinishAutoPost
  <2>2. r \in Entries
    BY <2>1 DEF Links, Entries
  <2>3. /\ draft' = [draft EXCEPT ![d] = s]
        /\ entry' = IF link[e].open /\ ~entry[d].posted THEN [entry EXCEPT ![d] = r] ELSE entry
        /\ EndLink(e)
    BY <1>6 DEF FinishAutoPost
  <2>4. entry' \in [Drafts -> Entries] /\ s \in {"VALIDATED", "POSTED"}
    BY <2>2, <2>3 DEF TypeOK
  <2>5. TypeOK' /\ Sane' /\ Segregated' /\ ReversedOnce' /\ Reversing' /\ PeriodsLocked'
    BY <2>1, <2>3, <2>4, LinkEnds
  <2>6. ASSUME NEW x \in Drafts, draft'[x] = "POSTED" PROVE entry'[x].posted
    <3>1. CASE x = d
      <4>1. Settled(e, d)
        BY <2>3, <2>6, <3>1 DEF TypeOK
      <4>2. link[e].open
        BY <4>1 DEF Settled
      <4>3. CASE entry[d].posted
        BY <2>3, <3>1, <4>3
      <4>4. CASE ~entry[d].posted
        BY <2>3, <3>1, <4>2, <4>4 DEF TypeOK
      <4>5. QED
        BY <4>3, <4>4
    <3>2. CASE x # d
      BY <2>3, <2>6, <3>2 DEF TypeOK, PostedHasEntry
    <3>3. QED
      BY <3>1, <3>2
  <2>7. QED
    BY <2>5, <2>6 DEF PostedHasEntry
<1>7. ASSUME NEW e \in Events, ProjectWithoutRules(e) PROVE IInv'
  BY <1>7, PostingsUntouched, ReversalsUntouched
  DEF ProjectWithoutRules, TypeOK, PostedHasEntry, Sane
<1>8. ASSUME NEW e \in Events, BeginProjection(e) PROVE IInv'
  <2>1. active \in 1..MaxVersion /\ active \in 0..MaxVersion
    BY LedgerAssumption DEF TypeOK
  <2>2. [ver |-> active, seen |-> draft[<<e, active>>]] \in Projections
    BY <2>1, DraftAt DEF TypeOK, Projections
  <2>3. TypeOK'
    BY <1>8, <2>2 DEF BeginProjection, TypeOK
  <2>4. Sane'
    BY <1>8 DEF BeginProjection, TypeOK, Sane
  <2>5. QED
    BY <1>8, <2>3, <2>4, PostingsUntouched, ReversalsUntouched DEF BeginProjection, PostedHasEntry
<1>9. ASSUME NEW e \in Events, SaveProjection(e) PROVE IInv'
  <2> DEFINE d == <<e, proj[e].ver>>
  <2>1. proj[e].ver \in 1..MaxVersion /\ born[e] # 0
    <3>1. proj[e] \in Projections /\ proj[e].ver # 0
      BY <1>9 DEF SaveProjection, TypeOK
    <3>2. QED
      BY <3>1, LedgerAssumption DEF Projections, Sane
  <2>2. d \in Drafts /\ d[1] = e /\ Verdict(d) \in {"VALIDATED", "EXCEPTION"}
    BY <2>1, DraftAt, VerdictType
  <2>3. /\ draft' = draft \/ draft' = [draft EXCEPT ![d] = Verdict(d)]
        /\ proj' = [proj EXCEPT ![e] = ProjIdle]
        /\ eco' = eco \cup {e}
        /\ UNCHANGED <<active, born, approver, entry, reversals, period, link, post, rev, close>>
    BY <1>9 DEF SaveProjection
  <2>4. ProjIdle \in Projections /\ ProjIdle.ver = 0
    BY LedgerAssumption DEF ProjIdle, Projections, States
  <2>5. TypeOK'
    BY <2>2, <2>3, <2>4 DEF TypeOK, States
  <2>6. PostedHasEntry'
    BY <2>2, <2>3 DEF TypeOK, PostedHasEntry
  <2>7. Sane'
    BY <2>1, <2>2, <2>3, <2>4 DEF TypeOK, Sane
  <2>8. QED
    BY <2>3, <2>5, <2>6, <2>7, PostingsUntouched, ReversalsUntouched
<1>10. ASSUME NEW u \in Users, NEW d \in Drafts, Approve(u, d) PROVE IInv'
  <2>1. born[d[1]] # 0
    BY <1>10 DEF Approve, Sane
  <2>2. TypeOK'
    BY <1>10 DEF Approve, TypeOK, States, Actors
  <2>3. PostedHasEntry'
    BY <1>10 DEF Approve, TypeOK, PostedHasEntry
  <2>4. Sane'
    BY <1>10, <2>1 DEF Approve, TypeOK, Sane
  <2>5. ASSUME NEW w \in Users, NEW x \in Drafts, post[w].on = {x} PROVE approver'[x] = approver[x]
    BY <1>10, <2>5 DEF Approve, Held, TypeOK
  <2>6. Segregated'
    BY <1>10, <2>5 DEF Approve, Segregated
  <2>7. QED
    BY <1>10, <2>2, <2>3, <2>4, <2>6, ReversalsUntouched DEF Approve
<1>11. ASSUME NEW u \in Users, NEW d \in Drafts, NEW auto \in BOOLEAN, NEW override \in BOOLEAN,
              BeginPosting(u, d, auto, override)
       PROVE IInv'
  <2> DEFINE r == [on |-> {d}, auto |-> auto /\ draft[d] = "VALIDATED", override |-> override]
  <2>1. r \in Postings
    BY DEF Postings
  <2>2. born[d[1]] # 0
    BY <1>11 DEF BeginPosting, Sane
  <2>3. ~r.override => approver[d] # u /\ ~r.auto
    BY <1>11 DEF BeginPosting, ApproverAt
  <2>4. post' = [post EXCEPT ![u] = r]
    BY <1>11 DEF BeginPosting
  <2>5. r.on = {d}
    OBVIOUS
  <2> HIDE DEF r
  <2>6. TypeOK'
    BY <1>11, <2>1, <2>4 DEF BeginPosting, TypeOK
  <2>7. /\ post'[u].on = {d} /\ post'[u].auto = r.auto /\ post'[u].override = r.override
        /\ \A w \in Users \ {u} : post'[w] = post[w]
    BY <2>4, <2>5 DEF TypeOK
  <2>8. Sane' /\ Segregated'
    <3>1. ASSUME NEW w \in Users, NEW x \in Drafts, post'[w].on = {x}
          PROVE /\ born[x[1]] # 0
                /\ ~post'[w].override => approver[x] # w /\ ~post'[w].auto
      <4>1. CASE w = u
        <5>1. x = d
          BY <2>7, <3>1, <4>1
        <5>2. QED
          BY <2>2, <2>3, <2>7, <4>1, <5>1
      <4>2. CASE w # u
        BY <2>7, <3>1, <4>2 DEF Sane, Segregated
      <4>3. QED
        BY <4>1, <4>2
    <3>2. QED
      BY <1>11, <3>1 DEF BeginPosting, Sane, Segregated
  <2>9. QED
    BY <1>11, <2>6, <2>7, <2>8, ReversalsUntouched DEF BeginPosting, PostedHasEntry
<1>12. ASSUME NEW u \in Users, NEW d \in Drafts,
              \/ FinishPosting(u, d)
              \/ AbandonPosting(u, d)
       PROVE IInv'
  <2>1. /\ post[u].on = {d}
        /\ approver' = IF post[u].auto THEN [approver EXCEPT ![d] = u] ELSE approver
        /\ post' = [post EXCEPT ![u] = PostIdle]
        /\ UNCHANGED <<active, born, eco, reversals, period, link, proj, rev, close>>
    BY <1>12 DEF FinishPosting, AbandonPosting, EndPosting
  <2>2. PICK s \in States : /\ draft' = [draft EXCEPT ![d] = s]
                            /\ s = "POSTED" => entry'[d].posted
    <3>1. CASE FinishPosting(u, d)
      <4>1. draft' = [draft EXCEPT ![d] = "POSTED"] /\ entry'[d].posted
        BY <3>1 DEF FinishPosting, EndPosting, TypeOK
      <4>2. QED
        BY <4>1 DEF States
    <3>2. CASE AbandonPosting(u, d)
      <4> DEFINE t == IF post[u].auto THEN "APPROVED_FOR_POSTING" ELSE draft[d]
      <4>1. draft' = [draft EXCEPT ![d] = t] /\ entry' = entry
        BY <3>2 DEF AbandonPosting, EndPosting
      <4>2. t \in States /\ (t = "POSTED" => entry[d].posted)
        BY DEF TypeOK, States, PostedHasEntry
      <4>3. QED
        BY <4>1, <4>2
    <3>3. QED
      BY <1>12, <3>1, <3>2
  <2>3. /\ entry' \in [Drafts -> Entries]
        /\ \A x \in Drafts \ {d} : entry'[x] = entry[x]
    <3>1. [posted |-> TRUE, by |-> u] \in Entries
      BY DEF Entries, Actors
    <3>2. QED
      BY <1>12, <3>1 DEF FinishPosting, AbandonPosting, TypeOK
  <2>4. PostIdle \in Postings /\ PostIdle.on = {}
    BY DEF PostIdle, Postings
  <2>5. TypeOK'
    BY <2>1, <2>2, <2>3, <2>4 DEF TypeOK, Actors
  <2>6. PostedHasEntry'
    BY <2>2, <2>3 DEF TypeOK, PostedHasEntry
  <2>7. born[d[1]] # 0
    BY <2>1 DEF Sane
  <2>8. Sane'
    BY <2>1, <2>2, <2>4, <2>7 DEF TypeOK, Sane
  <2>9. Segregated'
    BY <2>1, <2>4 DEF TypeOK, Segregated
  <2>10. QED
    BY <2>1, <2>5, <2>6, <2>8, <2>9, ReversalsUntouched
<1>13. ASSUME NEW p \in Periods,
              \/ \E force \in BOOLEAN : BeginClose(p, force)
              \/ ListEvents(p)
              \/ Reconcile(p)
              \/ \E u \in Users, override \in BOOLEAN :
                   FinishClose(u, p, override) \/ RefuseClose(u, p, override)
       PROVE IInv'
  <2> DEFINE To(c) ==
        /\ close' = [close EXCEPT ![p] = c]
        /\ c.stage # "idle" => /\ period' = period /\ period[p] = "OPEN"
                               /\ \A u \in Users : rev[u].into # {p}
        /\ \/ period' = period
           \/ close[p].stage # "idle" /\ period' = [period EXCEPT ![p] = "CLOSED"]
  <2>1. \E c \in Closings : To(c)
    <3>1. ASSUME NEW force \in BOOLEAN, BeginClose(p, force) PROVE \E c \in Closings : To(c)
      <4> DEFINE c == [stage |-> "counted", force |-> force, listed |-> {},
                       drafted |-> {d[1] : d \in DraftsOf(p)}]
      <4>1. c \in Closings
        BY DraftType DEF Closings, DraftsOf
      <4>2. close' = [close EXCEPT ![p] = c] /\ period' = period /\ period[p] = "OPEN"
        BY <3>1 DEF BeginClose
      <4>3. \A u \in Users : rev[u].into # {p}
        BY <3>1 DEF BeginClose, PeriodHeld
      <4> HIDE DEF c
      <4> QED
        BY <4>1, <4>2, <4>3
    <3>2. ASSUME ListEvents(p) PROVE \E c \in Closings : To(c)
      <4> DEFINE c == [close[p] EXCEPT !.stage = "listed", !.listed = OccurredIn(p)]
      <4>1. c \in Closings /\ close' = [close EXCEPT ![p] = c] /\ period' = period
        BY <3>2 DEF ListEvents, TypeOK, Closings, OccurredIn
      <4>2. period[p] = "OPEN" /\ \A u \in Users : rev[u].into # {p}
        BY <3>2 DEF ListEvents, PeriodsLocked
      <4> HIDE DEF c
      <4> QED
        BY <4>1, <4>2
    <3>3. ASSUME Reconcile(p) PROVE \E c \in Closings : To(c)
      <4> DEFINE c == [close[p] EXCEPT !.stage = "reconciled"]
      <4>1. c \in Closings /\ close' = [close EXCEPT ![p] = c] /\ period' = period
        BY <3>3 DEF Reconcile, TypeOK, Closings
      <4>2. period[p] = "OPEN" /\ \A u \in Users : rev[u].into # {p}
        BY <3>3 DEF Reconcile, PeriodsLocked
      <4> HIDE DEF c
      <4> QED
        BY <4>1, <4>2
    <3>4. CloseIdle \in Closings /\ CloseIdle.stage = "idle"
      BY DEF CloseIdle, Closings
    <3>5. ASSUME NEW u \in Users, NEW override \in BOOLEAN,
                 FinishClose(u, p, override) \/ RefuseClose(u, p, override)
          PROVE \E c \in Closings : To(c)
      <4>1. /\ close' = [close EXCEPT ![p] = CloseIdle]
            /\ period' = period \/ (close[p].stage # "idle" /\ period' = [period EXCEPT ![p] = "CLOSED"])
        BY <3>5 DEF FinishClose, RefuseClose
      <4> QED
        BY <3>4, <4>1
    <3> QED
      BY <1>13, <3>1, <3>2, <3>3, <3>5
  <2>2. UNCHANGED <<active, born, eco, draft, approver, entry, reversals, link, proj, post, rev>>
    BY <1>13 DEF BeginClose, ListEvents, Reconcile, FinishClose, RefuseClose
  <2>3. TypeOK'
    BY <2>1, <2>2 DEF TypeOK
  <2>4. Reversing'
    <3>1. ASSUME NEW u \in Users, NEW q \in Periods, rev[u].into = {q}
          PROVE  period'[q] = "OPEN"
      BY <2>1, <3>1 DEF TypeOK, Reversing, PeriodsLocked
    <3> QED
      BY <2>2, <3>1 DEF Reversing
  <2>5. PeriodsLocked'
    <3> SUFFICES ASSUME NEW q \in Periods, close'[q].stage # "idle"
                 PROVE  period'[q] = "OPEN" /\ \A u \in Users : rev[u].into # {q}
      BY <2>2 DEF PeriodsLocked
    <3>1. CASE q = p
      BY <2>1, <3>1 DEF TypeOK
    <3>2. CASE q # p
      BY <2>1, <3>2 DEF TypeOK, PeriodsLocked
    <3> QED
      BY <3>1, <3>2
  <2>6. QED
    BY <2>2, <2>3, <2>4, <2>5, PostingsUntouched DEF PostedHasEntry, ReversedOnce, Sane
<1>14. ASSUME NEW u \in Users, NEW d \in Drafts, NEW p \in Periods, NEW override \in BOOLEAN,
              BeginReversal(u, d, p, override)
       PROVE IInv'
  <2> DEFINE r == [on |-> {d}, into |-> {p}]
  <2>1. r \in Undoings /\ r.on = {d} /\ r.into = {p}
    BY DEF Undoings
  <2>2. rev' = [rev EXCEPT ![u] = r]
    BY <1>14 DEF BeginReversal
  <2> HIDE DEF r
  <2>3. TypeOK'
    BY <1>14, <2>1, <2>2 DEF BeginReversal, TypeOK
  <2>4. /\ rev'[u].on = {d} /\ rev'[u].into = {p}
        /\ \A w \in Users \ {u} : rev'[w] = rev[w] /\ rev[w].on # {d}
        /\ reversals[d] = <<>> /\ period[p] = "OPEN"
        /\ UNCHANGED <<reversals, period>>
    BY <1>14, <2>1, <2>2 DEF BeginReversal, OriginalHeld, TypeOK
  <2>5. Reversing'
    <3>1. ASSUME NEW w \in Users, NEW x \in Drafts, rev'[w].on = {x}
          PROVE reversals[x] = <<>> /\ \A v \in Users \ {w} : rev'[v].on # {x}
      <4>1. CASE w = u
        <5>1. x = d
          BY <2>4, <3>1, <4>1
        <5>2. QED
          BY <2>4, <4>1, <5>1
      <4>2. CASE w # u
        <5>1. rev[w].on = {x} /\ x # d
          BY <2>4, <3>1, <4>2
        <5>2. QED
          BY <2>4, <4>2, <5>1 DEF Reversing
      <4>3. QED
        BY <4>1, <4>2
    <3>2. ASSUME NEW w \in Users, NEW q \in Periods, rev'[w].into = {q} PROVE period[q] = "OPEN"
      <4>1. CASE w = u
        BY <2>4, <3>2, <4>1
      <4>2. CASE w # u
        BY <2>4, <3>2, <4>2 DEF Reversing
      <4>3. QED
        BY <4>1, <4>2
    <3>3. QED
      BY <2>4, <3>1, <3>2 DEF Reversing
  <2>6. PeriodsLocked'
    <3>1. close[p].stage = "idle" /\ UNCHANGED <<close, period>>
      BY <1>14 DEF BeginReversal, PeriodHeld
    <3>2. QED
      BY <2>4, <3>1 DEF PeriodsLocked
  <2>7. QED
    BY <1>14, <2>3, <2>5, <2>6, PostingsUntouched
    DEF BeginReversal, PostedHasEntry, ReversedOnce, Sane
<1>15. ASSUME NEW u \in Users, NEW d \in Drafts, NEW p \in Periods, FinishReversal(u, d, p)
       PROVE IInv'
  <2> DEFINE one == [by |-> u, into |-> p]
  <2>1. rev[u].on = {d} /\ reversals[d] = <<>> /\ one \in Reversals
    BY <1>15 DEF FinishReversal, Reversing, Reversals
  <2>2. /\ reversals' = [reversals EXCEPT ![d] = <<one>>]
        /\ rev' = [rev EXCEPT ![u] = RevIdle]
    BY <1>15, <2>1 DEF FinishReversal, TypeOK
  <2>3. <<one>> \in Seq(Reversals) /\ Len(<<one>>) = 1
    BY <2>1
  <2> HIDE DEF one
  <2>4. RevIdle \in Undoings /\ RevIdle.on = {} /\ RevIdle.into = {}
    BY DEF RevIdle, Undoings
  <2>5. TypeOK'
    BY <1>15, <2>2, <2>3, <2>4 DEF FinishReversal, TypeOK
  <2>6. ReversedOnce'
    BY <2>2, <2>3 DEF TypeOK, ReversedOnce
  <2>7. /\ rev'[u].on = {} /\ rev'[u].into = {}
        /\ \A w \in Users \ {u} : rev'[w] = rev[w] /\ rev[w].on # {d}
        /\ \A x \in Drafts \ {d} : reversals'[x] = reversals[x]
        /\ period' = period
    BY <1>15, <2>1, <2>2, <2>4 DEF FinishReversal, TypeOK, Reversing
  <2>8. Reversing'
    <3>1. ASSUME NEW w \in Users, NEW x \in Drafts, rev'[w].on = {x}
          PROVE reversals'[x] = <<>> /\ \A v \in Users \ {w} : rev'[v].on # {x}
      <4>1. w # u /\ rev[w].on = {x} /\ x # d
        BY <2>7, <3>1
      <4>2. reversals[x] = <<>> /\ \A v \in Users \ {w} : rev[v].on # {x}
        BY <4>1 DEF Reversing
      <4>3. QED
        BY <2>7, <4>1, <4>2
    <3>2. ASSUME NEW w \in Users, NEW q \in Periods, rev'[w].into = {q} PROVE period[q] = "OPEN"
      BY <2>7, <3>2 DEF Reversing
    <3>3. QED
      BY <2>7, <3>1, <3>2 DEF Reversing
  <2>9. PeriodsLocked'
    <3>1. close' = close
      BY <1>15 DEF FinishReversal
    <3>2. QED
      BY <2>7, <3>1 DEF PeriodsLocked
  <2>10. QED
    BY <1>15, <2>5, <2>6, <2>8, <2>9, PostingsUntouched DEF FinishReversal, PostedHasEntry, Sane
<1>16. CASE UNCHANGED vars
  BY <1>16, PostingsUntouched, ReversalsUntouched DEF vars, TypeOK, PostedHasEntry, Sane
<1>17. QED
  BY <1>1, <1>2, <1>3, <1>4, <1>5, <1>6, <1>7, <1>8, <1>9, <1>10, <1>11, <1>12, <1>13, <1>14,
     <1>15, <1>16
  DEF Next

-----------------------------------------------------------------------------
\* The inductive invariant holds in every state that links, projections, postings,
\* reversals and closes reach.
THEOREM Inductive == Spec => []IInv
  BY InitInv, StepInv, PTL DEF Spec

\* Drafts, entries, reversals and what every transaction holds in between stay in the states
\* of their models (JournalDraft, JournalEntry, FiscalPeriod).
THEOREM TypeCorrect == Spec => []TypeOK
<1>1. IInv => TypeOK
  BY DEF IInv
<1>2. QED
  BY <1>1, Inductive, PTL

\* A draft that says POSTED has its entry in the general ledger.
THEOREM PostedHasEntryHolds == Spec => []PostedHasEntry
<1>1. IInv => PostedHasEntry
  BY DEF IInv
<1>2. QED
  BY Inductive, <1>1, PTL

\* However many reversals of an entry are asked for at once, one is made.
THEOREM ReversedOnceHolds == Spec => []ReversedOnce
<1>1. IInv => ReversedOnce
  BY DEF IInv
<1>2. QED
  BY Inductive, <1>1, PTL

\* Which steps touch the reversals and the entries.
LEMMA OnlyReversalsReverse ==
  ASSUME Next, reversals' # reversals
  PROVE \E u \in Users, d \in Drafts, p \in Periods : FinishReversal(u, d, p)
<1>1. ASSUME NEW e \in Events,
             \/ Occur(e) \/ SaveLink(e) \/ BeginAutoPost(e) \/ FinishAutoPost(e)
             \/ ProjectWithoutRules(e) \/ BeginProjection(e) \/ SaveProjection(e)
             \/ \E auto \in BOOLEAN, u \in Actors : BeginLink(e, auto, u)
      PROVE FALSE
  BY <1>1
  DEF Occur, BeginLink, SaveLink, BeginAutoPost, FinishAutoPost, EndLink, ProjectWithoutRules,
      BeginProjection, SaveProjection
<1>2. ASSUME NEW u \in Users, NEW d \in Drafts,
             \/ Approve(u, d) \/ FinishPosting(u, d) \/ AbandonPosting(u, d)
             \/ \E auto, override \in BOOLEAN : BeginPosting(u, d, auto, override)
             \/ \E p \in Periods, override \in BOOLEAN : BeginReversal(u, d, p, override)
      PROVE FALSE
  BY <1>2 DEF Approve, BeginPosting, FinishPosting, AbandonPosting, EndPosting, BeginReversal
<1>3. ASSUME NEW p \in Periods,
             \/ \E force \in BOOLEAN : BeginClose(p, force)
             \/ ListEvents(p) \/ Reconcile(p)
             \/ \E u \in Users, override \in BOOLEAN :
                  FinishClose(u, p, override) \/ RefuseClose(u, p, override)
      PROVE FALSE
  BY <1>3 DEF BeginClose, ListEvents, Reconcile, FinishClose, RefuseClose
<1>4. ~SeedRules
  BY DEF SeedRules
<1> QED
  BY <1>1, <1>2, <1>3, <1>4 DEF Next

LEMMA OnlyPostingsPost ==
  ASSUME Next, entry' # entry
  PROVE \/ \E u \in Users, d \in Drafts : FinishPosting(u, d)
        \/ \E e \in Events : FinishAutoPost(e)
<1>1. ASSUME NEW e \in Events,
             \/ Occur(e) \/ SaveLink(e) \/ BeginAutoPost(e)
             \/ ProjectWithoutRules(e) \/ BeginProjection(e) \/ SaveProjection(e)
             \/ \E auto \in BOOLEAN, u \in Actors : BeginLink(e, auto, u)
      PROVE FALSE
  BY <1>1
  DEF Occur, BeginLink, SaveLink, BeginAutoPost, EndLink, ProjectWithoutRules,
      BeginProjection, SaveProjection
<1>2. ASSUME NEW u \in Users, NEW d \in Drafts,
             \/ Approve(u, d) \/ AbandonPosting(u, d)
             \/ \E auto, override \in BOOLEAN : BeginPosting(u, d, auto, override)
             \/ \E p \in Periods, override \in BOOLEAN : BeginReversal(u, d, p, override)
             \/ \E p \in Periods : FinishReversal(u, d, p)
      PROVE FALSE
  BY <1>2 DEF Approve, BeginPosting, AbandonPosting, BeginReversal, FinishReversal
<1>3. ASSUME NEW p \in Periods,
             \/ \E force \in BOOLEAN : BeginClose(p, force)
             \/ ListEvents(p) \/ Reconcile(p)
             \/ \E u \in Users, override \in BOOLEAN :
                  FinishClose(u, p, override) \/ RefuseClose(u, p, override)
      PROVE FALSE
  BY <1>3 DEF BeginClose, ListEvents, Reconcile, FinishClose, RefuseClose
<1>4. ~SeedRules
  BY DEF SeedRules
<1> QED
  BY <1>1, <1>2, <1>3, <1>4 DEF Next

\* Only the commit of a reversal adds one, and its period, locked since it was found
\* open, is open still.
THEOREM ReversalInOpenPeriodHolds == Spec => ReversalInOpenPeriod
<1> DEFINE Into == \A d \in Drafts, u \in Users, p \in Periods :
       reversals'[d] = Append(reversals[d], [by |-> u, into |-> p]) => period[p] = "OPEN"
<1>1. IInv /\ [Next]_vars => [Into]_vars
  <2> SUFFICES ASSUME IInv, Next, NEW d \in Drafts, NEW u \in Users, NEW p \in Periods,
                      reversals'[d] = Append(reversals[d], [by |-> u, into |-> p])
               PROVE period[p] = "OPEN"
    OBVIOUS
  <2>1. reversals'[d] # reversals[d] /\ reversals[d] \in Seq(Reversals)
    <3>1. reversals[d] \in Seq(Reversals)
      BY DEF IInv, TypeOK
    <3>2. Len(reversals'[d]) = Len(reversals[d]) + 1 /\ Len(reversals[d]) \in Nat
      BY <3>1
    <3>3. QED
      BY <3>1, <3>2
  <2>2. PICK w \in Users, x \in Drafts, q \in Periods : FinishReversal(w, x, q)
    BY <2>1, OnlyReversalsReverse
  <2>3. period[q] = "OPEN"
    BY <2>2 DEF IInv, Reversing, FinishReversal
  <2>4. reversals'[d] = Append(reversals[d], [by |-> w, into |-> q])
    BY <2>1, <2>2 DEF IInv, TypeOK, FinishReversal
  <2>5. [by |-> u, into |-> p] = [by |-> w, into |-> q]
    <3> DEFINE a == [by |-> u, into |-> p]
               b == [by |-> w, into |-> q]
    <3>1. a \in Reversals /\ b \in Reversals
      BY DEF Reversals
    <3> HIDE DEF a, b
    <3>2. Append(reversals[d], a) = Append(reversals[d], b)
      BY <2>4 DEF a, b
    <3>3. a = b
      BY <2>1, <3>1, <3>2
    <3>4. QED
      BY <3>3 DEF a, b
  <2>6. QED
    BY <2>3, <2>5
<1>2. QED
  BY Inductive, <1>1, PTL DEF Spec, ReversalInOpenPeriod

\* Whoever creates the entry of a draft is not its approver, without the override: a
\* link posts for its user only drafts nobody could approve yet.
THEOREM SoDPostingHolds == Spec => SoDPosting
<1> DEFINE Duties == \A d \in Drafts, u \in Users :
       ~entry[d].posted /\ entry'[d].posted /\ entry'[d].by = u /\ approver'[d] = u
         => post[u].override
<1>1. IInv /\ [Next]_vars => [Duties]_vars
  <2> SUFFICES ASSUME IInv, Next, NEW d \in Drafts, NEW u \in Users,
                      ~entry[d].posted, entry'[d].posted,
                      entry'[d].by = u, approver'[d] = u
               PROVE post[u].override
    OBVIOUS
  <2> USE DEF IInv
  <2>1. ASSUME NEW w \in Users, NEW x \in Drafts, FinishPosting(w, x) PROVE post[u].override
    <3>1. x = d
      BY <2>1 DEF FinishPosting, TypeOK
    <3>2. w = u
      BY <2>1, <3>1 DEF FinishPosting, TypeOK
    <3>3. post[u].on = {d}
      BY <2>1, <3>1, <3>2 DEF FinishPosting, EndPosting
    <3>4. SUFFICES ASSUME ~post[u].override PROVE FALSE
      OBVIOUS
    <3>5. approver[d] # u /\ ~post[u].auto
      BY <3>3, <3>4 DEF Segregated
    <3>6. approver' = approver
      BY <2>1, <3>1, <3>2, <3>5 DEF FinishPosting, EndPosting
    <3>7. QED
      BY <3>5, <3>6
  <2>2. ASSUME NEW e \in Events, FinishAutoPost(e) PROVE post[u].override
    <3>1. <<e, link[e].ver>> = d /\ <<e, link[e].ver>>[1] = e
      BY <2>2, LinkedDraft DEF FinishAutoPost, TypeOK
    <3>2. link[e].actor = u
      BY <2>2, <3>1 DEF FinishAutoPost, TypeOK
    <3>3. born[e] = 0
      BY <3>2, LedgerAssumption DEF Sane
    <3>4. approver[d] = Nobody /\ approver' = approver
      BY <2>2, <3>1, <3>3 DEF Sane, FinishAutoPost, EndLink
    <3>5. QED
      BY <3>4, LedgerAssumption
  <2>3. QED
    BY <2>1, <2>2, OnlyPostingsPost
<1>2. QED
  BY Inductive, <1>1, PTL DEF Spec, SoDPosting

\* Nothing leaves the books and no draft is deleted, whatever overwrites its state.
LEMMA BooksGrow ==
  ASSUME IInv, [Next]_vars
  PROVE  \A d \in Drafts : /\ entry[d].posted => entry'[d].posted
                           /\ draft[d] # "NONE" => draft'[d] # "NONE"
<1> USE DEF IInv
<1>1. \A d \in Drafts : entry[d].posted => entry'[d].posted
  <2>1. ASSUME NEW u \in Users, NEW x \in Drafts, FinishPosting(u, x)
        PROVE  \A d \in Drafts : entry[d].posted => entry'[d].posted
    BY <2>1 DEF FinishPosting, TypeOK
  <2>2. ASSUME NEW e \in Events, FinishAutoPost(e)
        PROVE  \A d \in Drafts : entry[d].posted => entry'[d].posted
    BY <2>2 DEF FinishAutoPost, TypeOK
  <2> QED
    BY <2>1, <2>2, OnlyPostingsPost DEF vars
<1>2. \A d \in Drafts : draft[d] # "NONE" => draft'[d] # "NONE"
  <2>1. ASSUME NEW e \in Events, SaveLink(e) \/ FinishAutoPost(e) \/ SaveProjection(e)
        PROVE  \A d \in Drafts : draft[d] # "NONE" => draft'[d] # "NONE"
    BY <2>1, VerdictType DEF SaveLink, FinishAutoPost, SaveProjection, Verdict, TypeOK
  <2>2. ASSUME NEW u \in Users, NEW x \in Drafts,
               Approve(u, x) \/ FinishPosting(u, x) \/ AbandonPosting(u, x)
        PROVE  \A d \in Drafts : draft[d] # "NONE" => draft'[d] # "NONE"
    BY <2>2 DEF Approve, FinishPosting, AbandonPosting, EndPosting, TypeOK
  <2>3. ASSUME NEW e \in Events,
               \/ Occur(e) \/ BeginAutoPost(e) \/ ProjectWithoutRules(e) \/ BeginProjection(e)
               \/ \E auto \in BOOLEAN, u \in Actors : BeginLink(e, auto, u)
        PROVE  draft' = draft
    BY <2>3 DEF Occur, BeginLink, BeginAutoPost, ProjectWithoutRules, BeginProjection
  <2>4. ASSUME NEW u \in Users, NEW x \in Drafts,
               \/ \E auto, override \in BOOLEAN : BeginPosting(u, x, auto, override)
               \/ \E p \in Periods, override \in BOOLEAN : BeginReversal(u, x, p, override)
               \/ \E p \in Periods : FinishReversal(u, x, p)
        PROVE  draft' = draft
    BY <2>4 DEF BeginPosting, BeginReversal, FinishReversal
  <2>5. ASSUME NEW p \in Periods,
               \/ \E force \in BOOLEAN : BeginClose(p, force)
               \/ ListEvents(p) \/ Reconcile(p)
               \/ \E u \in Users, override \in BOOLEAN :
                    FinishClose(u, p, override) \/ RefuseClose(u, p, override)
        PROVE  draft' = draft
    BY <2>5 DEF BeginClose, ListEvents, Reconcile, FinishClose, RefuseClose
  <2>6. SeedRules => draft' = draft
    BY DEF SeedRules
  <2>7. CASE UNCHANGED vars
    BY <2>7 DEF vars
  <2> QED
    BY <2>1, <2>2, <2>3, <2>4, <2>5, <2>6, <2>7 DEF Next
<1> QED
  BY <1>1, <1>2

\* What an unforced close has read so far stands: the drafts it counted have their entries,
\* and once it has reconciled the events it listed, they are drafted.
Backed(p) ==
  /\ close[p].stage # "idle" /\ ~close[p].force
       => \A e \in close[p].drafted : \E v \in 1..MaxVersion : entry[<<e, v>>].posted
  /\ close[p].stage = "reconciled" => \A e \in close[p].listed : Drafted(e)

ClosesBacked == \A p \in Periods : Backed(p)

\* Only the statements of its own close change what is read, and each of them reads what the
\* next ones build upon.
LEMMA StepBacked == IInv /\ ClosesBacked /\ [Next]_vars => ClosesBacked'
<1> SUFFICES ASSUME IInv, ClosesBacked, [Next]_vars, NEW p \in Periods PROVE Backed(p)'
  BY DEF ClosesBacked
<1> USE DEF IInv
<1>1. /\ \A e \in Events, v \in 1..MaxVersion : entry[<<e, v>>].posted => entry'[<<e, v>>].posted
      /\ \A e \in Events : Drafted(e) => Drafted(e)'
  BY BooksGrow, DraftAt DEF Drafted
<1>2. close[p].drafted \subseteq Events /\ close[p].listed \subseteq Events
  BY DEF TypeOK, Closings
<1>3. CASE close'[p] = close[p]
  BY <1>1, <1>2, <1>3 DEF ClosesBacked, Backed
<1>4. ASSUME NEW force \in BOOLEAN, BeginClose(p, force) PROVE Backed(p)'
  <2>1. /\ close'[p].stage = "counted" /\ close'[p].force = force
        /\ close'[p].drafted = {d[1] : d \in DraftsOf(p)}
        /\ entry' = entry
        /\ force \/ Pending(p) = {}
    BY <1>4 DEF BeginClose, TypeOK
  <2>2. ASSUME ~force, NEW d \in DraftsOf(p)
        PROVE  \E v \in 1..MaxVersion : entry[<<d[1], v>>].posted
    <3>1. d \in Drafts /\ draft[d] = "POSTED"
      BY <2>1, <2>2 DEF Pending, DraftsOf
    <3>2. entry[d].posted /\ d = <<d[1], d[2]>> /\ d[2] \in 1..MaxVersion
      BY <3>1 DEF PostedHasEntry, Drafts
    <3> QED
      BY <3>2
  <2> QED
    BY <2>1, <2>2 DEF Backed
<1>5. ASSUME ListEvents(p) PROVE Backed(p)'
  <2>1. /\ close'[p].stage = "listed" /\ close'[p].force = close[p].force
        /\ close'[p].drafted = close[p].drafted /\ close[p].stage # "idle"
        /\ entry' = entry
    BY <1>5 DEF ListEvents, TypeOK, Closings
  <2> QED
    BY <2>1 DEF ClosesBacked, Backed
<1>6. ASSUME Reconcile(p) PROVE Backed(p)'
  <2>1. /\ close'[p].stage = "reconciled" /\ close'[p].force = close[p].force
        /\ close'[p].drafted = close[p].drafted /\ close[p].stage # "idle"
        /\ close'[p].listed = close[p].listed /\ Unreconciled(close[p].listed) = {}
        /\ entry' = entry
    BY <1>6 DEF Reconcile, TypeOK, Closings
  <2>2. \A e \in close[p].listed : Drafted(e)
    BY <2>1 DEF Unreconciled
  <2> QED
    BY <1>1, <1>2, <2>1, <2>2 DEF ClosesBacked, Backed
<1>7. ASSUME NEW u \in Users, NEW override \in BOOLEAN,
             FinishClose(u, p, override) \/ RefuseClose(u, p, override)
      PROVE Backed(p)'
  BY <1>7 DEF FinishClose, RefuseClose, TypeOK, CloseIdle, Backed
<1>8. \/ close'[p] = close[p]
      \/ \E force \in BOOLEAN : BeginClose(p, force)
      \/ ListEvents(p) \/ Reconcile(p)
      \/ \E u \in Users, override \in BOOLEAN :
           FinishClose(u, p, override) \/ RefuseClose(u, p, override)
  <2>1. ASSUME NEW q \in Periods, q # p,
               \/ \E force \in BOOLEAN : BeginClose(q, force)
               \/ ListEvents(q) \/ Reconcile(q)
               \/ \E u \in Users, override \in BOOLEAN :
                    FinishClose(u, q, override) \/ RefuseClose(u, q, override)
        PROVE close'[p] = close[p]
    BY <2>1 DEF BeginClose, ListEvents, Reconcile, FinishClose, RefuseClose, TypeOK
  <2>2. ASSUME NEW e \in Events,
               \/ Occur(e) \/ SaveLink(e) \/ BeginAutoPost(e) \/ FinishAutoPost(e)
               \/ ProjectWithoutRules(e) \/ BeginProjection(e) \/ SaveProjection(e)
               \/ \E auto \in BOOLEAN, u \in Actors : BeginLink(e, auto, u)
        PROVE close' = close
    BY <2>2
    DEF Occur, BeginLink, SaveLink, BeginAutoPost, FinishAutoPost, EndLink, ProjectWithoutRules,
        BeginProjection, SaveProjection
  <2>3. ASSUME NEW u \in Users, NEW d \in Drafts,
               \/ Approve(u, d) \/ FinishPosting(u, d) \/ AbandonPosting(u, d)
               \/ \E auto, override \in BOOLEAN : BeginPosting(u, d, auto, override)
               \/ \E q \in Periods, override \in BOOLEAN : BeginReversal(u, d, q, override)
               \/ \E q \in Periods : FinishReversal(u, d, q)
        PROVE close' = close
    BY <2>3
    DEF Approve, BeginPosting, FinishPosting, AbandonPosting, EndPosting, BeginReversal,
        FinishReversal
  <2>4. SeedRules \/ UNCHANGED vars => close' = close
    BY DEF SeedRules, vars
  <2> QED
    BY <2>1, <2>2, <2>3, <2>4 DEF Next
<1> QED
  BY <1>3, <1>4, <1>5, <1>6, <1>7, <1>8

\* Whatever links, projections and postings commit between the statements of an unforced
\* close, an event it saw drafted has its entry and an event it listed is drafted when it
\* commits: only what came after its reads can be missing.
THEOREM CloseMissesOnlyTheLateHolds == Spec => CloseMissesOnlyTheLate
<1> DEFINE Missing == \A p \in Periods :
      period[p] = "OPEN" /\ period'[p] = "CLOSED" /\ ~close[p].force => Complete(p)
<1>1. Init => ClosesBacked
  BY DEF Init, ClosesBacked, Backed, CloseIdle
<1>2. Spec => []ClosesBacked
  BY <1>1, StepBacked, Inductive, PTL DEF Spec
<1>3. IInv /\ ClosesBacked /\ [Next]_vars => [Missing]_vars
  <2> SUFFICES ASSUME IInv, ClosesBacked, Next, NEW p \in Periods,
                      period[p] = "OPEN", period'[p] = "CLOSED", ~close[p].force
               PROVE  Complete(p)
    OBVIOUS
  <2>1. PICK u \in Users, override \in BOOLEAN : FinishClose(u, p, override)
    <3>1. ASSUME NEW e \in Events,
                 \/ Occur(e) \/ SaveLink(e) \/ BeginAutoPost(e) \/ FinishAutoPost(e)
                 \/ ProjectWithoutRules(e) \/ BeginProjection(e) \/ SaveProjection(e)
                 \/ \E auto \in BOOLEAN, u \in Actors : BeginLink(e, auto, u)
          PROVE period' = period
      BY <3>1
      DEF Occur, BeginLink, SaveLink, BeginAutoPost, FinishAutoPost, EndLink,
          ProjectWithoutRules, BeginProjection, SaveProjection
    <3>2. ASSUME NEW u \in Users, NEW d \in Drafts,
                 \/ Approve(u, d) \/ FinishPosting(u, d) \/ AbandonPosting(u, d)
                 \/ \E auto, override \in BOOLEAN : BeginPosting(u, d, auto, override)
                 \/ \E q \in Periods, override \in BOOLEAN : BeginReversal(u, d, q, override)
                 \/ \E q \in Periods : FinishReversal(u, d, q)
          PROVE period' = period
      BY <3>2
      DEF Approve, BeginPosting, FinishPosting, AbandonPosting, EndPosting, BeginReversal,
          FinishReversal
    <3>3. ASSUME NEW q \in Periods,
                 \/ \E force \in BOOLEAN : BeginClose(q, force)
                 \/ ListEvents(q) \/ Reconcile(q)
                 \/ \E u \in Users, override \in BOOLEAN : RefuseClose(u, q, override)
          PROVE period' = period
      BY <3>3 DEF BeginClose, ListEvents, Reconcile, RefuseClose
    <3>4. ASSUME NEW q \in Periods, q # p, NEW u \in Users, NEW override \in BOOLEAN,
                 FinishClose(u, q, override)
          PROVE period'[p] = period[p]
      BY <3>4 DEF FinishClose, IInv, TypeOK
    <3>5. SeedRules => period' = period
      BY DEF SeedRules
    <3> QED
      BY <3>1, <3>2, <3>3, <3>4, <3>5 DEF Next
  <2>2. close[p].stage = "reconciled"
    BY <2>1 DEF FinishClose
  <2> QED
    BY <2>2 DEF ClosesBacked, Backed, Complete
<1> QED
  BY <1>2, <1>3, Inductive, PTL DEF Spec, CloseMissesOnlyTheLate

\* No entry is added to period p, whose drafts' entries stay as they are.
BooksKept(p) == \A d \in Drafts : PeriodOf[d[1]] = p => entry'[d] = entry[d]
\* A closed period in which no posting that read it before the close is under way.
ClosedAndQuiet(p) ==
  /\ period[p] = "CLOSED"
  /\ \A e \in Events : PeriodOf[e] = p => ~(link[e].stage = "posting" /\ link[e].open)
  /\ \A u \in Users : \A d \in post[u].on : PeriodOf[d[1]] # p

\* The books of a closed period are final once the postings that read it before its close
\* have ended: nothing is posted, and no posting that may do so begins.
QuietBooksAreFinal ==
  [][\A p \in Periods : ClosedAndQuiet(p) => ClosedAndQuiet(p)' /\ BooksKept(p)]_vars

\* An auto-posting link works on the draft of its own event and adds an entry only if it
\* found the period open.
LEMMA AutoPostKeepsBooks ==
  ASSUME IInv, NEW e \in Events, NEW p \in Periods, ClosedAndQuiet(p), FinishAutoPost(e)
  PROVE  BooksKept(p)
<1> DEFINE d == <<e, link[e].ver>>
<1>1. d \in Drafts /\ d[1] = e
  BY LinkedDraft DEF FinishAutoPost
<1>2. CASE PeriodOf[e] = p
  BY <1>2 DEF FinishAutoPost, ClosedAndQuiet, BooksKept
<1>3. CASE PeriodOf[e] # p
  <2>1. \A x \in Drafts : PeriodOf[x[1]] = p => x # d
    BY <1>1, <1>3
  <2> QED
    BY <2>1 DEF FinishAutoPost, BooksKept, IInv, TypeOK
<1> QED
  BY <1>2, <1>3

\* Only postings that were under way at the close of a period, having read it open without
\* a lock (_post_single_journal_draft), may still add to its books.
THEOREM QuietBooksAreFinalHolds == Spec => QuietBooksAreFinal
<1> DEFINE Kept == \A p \in Periods : ClosedAndQuiet(p) => ClosedAndQuiet(p)' /\ BooksKept(p)
<1>1. IInv /\ [Next]_vars => [Kept]_vars
  <2> SUFFICES ASSUME IInv, Next, NEW p \in Periods, ClosedAndQuiet(p)
               PROVE  ClosedAndQuiet(p)' /\ BooksKept(p)
    OBVIOUS
  <2> USE DEF IInv
  <2>1. ASSUME NEW e \in Events, FinishAutoPost(e)
        PROVE  ClosedAndQuiet(p)' /\ BooksKept(p)
    <3>1. link' = [link EXCEPT ![e] = LinkIdle] /\ UNCHANGED <<period, post>>
      BY <2>1 DEF FinishAutoPost, EndLink
    <3>2. ClosedAndQuiet(p)'
      BY <3>1 DEF ClosedAndQuiet, TypeOK, LinkIdle
    <3> QED
      BY <2>1, <3>2, AutoPostKeepsBooks
  <2>2. ASSUME NEW e \in Events, SaveLink(e)
        PROVE  ClosedAndQuiet(p)' /\ BooksKept(p)
    BY <2>2 DEF SaveLink, EndLink, ClosedAndQuiet, BooksKept, TypeOK, LinkIdle
  <2>3. ASSUME NEW e \in Events, NEW auto \in BOOLEAN, NEW u \in Actors, BeginLink(e, auto, u)
        PROVE  ClosedAndQuiet(p)' /\ BooksKept(p)
    BY <2>3 DEF BeginLink, ClosedAndQuiet, BooksKept, TypeOK
  <2>4. ASSUME NEW e \in Events, BeginAutoPost(e)
        PROVE  ClosedAndQuiet(p)' /\ BooksKept(p)
    <3>1. /\ link'[e].open = (period[PeriodOf[e]] = "OPEN")
          /\ \A x \in Events \ {e} : link'[x] = link[x]
          /\ UNCHANGED <<period, post, entry>>
      BY <2>4 DEF BeginAutoPost, TypeOK, Links
    <3> QED
      BY <3>1 DEF ClosedAndQuiet, BooksKept
  <2>5. ASSUME NEW u \in Users, NEW d \in Drafts, NEW auto \in BOOLEAN,
               NEW override \in BOOLEAN, BeginPosting(u, d, auto, override)
        PROVE  ClosedAndQuiet(p)' /\ BooksKept(p)
    <3>1. /\ period[PeriodOf[d[1]]] = "OPEN" /\ post'[u].on = {d}
          /\ \A w \in Users \ {u} : post'[w] = post[w]
          /\ UNCHANGED <<period, link, entry>>
      BY <2>5 DEF BeginPosting, TypeOK
    <3> QED
      BY <3>1 DEF ClosedAndQuiet, BooksKept
  <2>6. ASSUME NEW u \in Users, NEW d \in Drafts, FinishPosting(u, d) \/ AbandonPosting(u, d)
        PROVE  ClosedAndQuiet(p)' /\ BooksKept(p)
    <3>1. /\ post[u].on = {d} /\ post'[u].on = {}
          /\ \A w \in Users \ {u} : post'[w] = post[w]
          /\ UNCHANGED <<period, link>>
      BY <2>6 DEF FinishPosting, AbandonPosting, EndPosting, TypeOK, PostIdle
    <3>2. ClosedAndQuiet(p)' /\ PeriodOf[d[1]] # p
      BY <3>1 DEF ClosedAndQuiet
    <3>3. \A x \in Drafts : x # d => entry'[x] = entry[x]
      BY <2>6 DEF FinishPosting, AbandonPosting, TypeOK
    <3> QED
      BY <3>2, <3>3 DEF BooksKept
  <2>7. ASSUME NEW e \in Events,
               Occur(e) \/ ProjectWithoutRules(e) \/ BeginProjection(e) \/ SaveProjection(e)
        PROVE  UNCHANGED <<period, post, entry, link>>
    BY <2>7 DEF Occur, ProjectWithoutRules, BeginProjection, SaveProjection
  <2>8. ASSUME NEW u \in Users, NEW d \in Drafts,
               \/ Approve(u, d)
               \/ \E q \in Periods, override \in BOOLEAN : BeginReversal(u, d, q, override)
               \/ \E q \in Periods : FinishReversal(u, d, q)
        PROVE  UNCHANGED <<period, post, entry, link>>
    BY <2>8 DEF Approve, BeginReversal, FinishReversal
  <2>9. ASSUME NEW q \in Periods,
               \/ \E force \in BOOLEAN : BeginClose(q, force)
               \/ ListEvents(q) \/ Reconcile(q)
               \/ \E u \in Users, override \in BOOLEAN :
                    FinishClose(u, q, override) \/ RefuseClose(u, q, override)
        PROVE  ClosedAndQuiet(p)' /\ BooksKept(p)
    <3>1. /\ period' = period \/ period' = [period EXCEPT ![q] = "CLOSED"]
          /\ UNCHANGED <<post, entry, link>>
      BY <2>9 DEF BeginClose, ListEvents, Reconcile, FinishClose, RefuseClose
    <3> QED
      BY <3>1 DEF ClosedAndQuiet, BooksKept, TypeOK
  <2>10. SeedRules => UNCHANGED <<period, post, entry, link>>
    BY DEF SeedRules
  <2>11. UNCHANGED <<period, post, entry, link>> => ClosedAndQuiet(p)' /\ BooksKept(p)
    BY DEF ClosedAndQuiet, BooksKept
  <2> QED
    BY <2>1, <2>2, <2>3, <2>4, <2>5, <2>6, <2>7, <2>8, <2>9, <2>10, <2>11 DEF Next
<1> QED
  BY Inductive, <1>1, PTL DEF Spec, QuietBooksAreFinal
=============================================================================
