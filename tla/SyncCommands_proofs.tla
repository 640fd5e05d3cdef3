------------------------ MODULE SyncCommands_proofs ------------------------
(***************************************************************************)
(* For any devices, batches, commands and payloads: a command takes effect *)
(* at most once, its verdict and the answers given about it are final, and *)
(* a blocked device stays blocked.                                         *)
(***************************************************************************)
EXTENDS SyncCommands, TLAPS

\* The transaction that inserted the provisional row of a command is alone in having
\* done so, and no committed row of it exists.
Exclusive ==
  \A b \in Batches, c \in Commands :
    batch[b].stage = "handling" /\ batch[b].cmd = {c}
      => /\ row[c] = NoRow
         /\ \A x \in Batches \ {b} : ~(batch[x].stage = "handling" /\ batch[x].cmd = {c})

\* A command in progress still counts against its batch.
Serving == \A b \in Batches : batch[b].stage \in {"looked", "handling"} => batch[b].left > 0

IInv == TypeOK /\ AppliedOnce /\ AnswersMatchLedger /\ Exclusive /\ Serving

LEMMA InitInv == Init => IInv
  BY SyncAssumption
  DEF Init, IInv, TypeOK, AppliedOnce, AnswersMatchLedger, Exclusive, Serving, NoRow, Idle, Statuses, Answers, Rows, Requests

\* What the invariant says of a command whose row is absent: nothing was done, nothing told.
LEMMA Undecided ==
  ASSUME IInv, NEW c \in Commands, row[c] = NoRow
  PROVE /\ effects[c] = 0
        /\ \A h \in Payloads : <<c, h, "APPLIED">> \notin told /\ <<c, h, "DUPLICATE">> \notin told
<1>1. effects[c] = 0
  <2>1. effects[c] \in Nat /\ effects[c] <= 1 /\ effects[c] # 1
    BY DEF IInv, TypeOK, AppliedOnce
  <2>2. QED
    BY <2>1
<1>2. ASSUME NEW h \in Payloads
      PROVE <<c, h, "APPLIED">> \notin told /\ <<c, h, "DUPLICATE">> \notin told
  <2>1. row[c].hash # {h}
    BY DEF NoRow
  <2>2. row[c] # [hash |-> {h}, result |-> "APPLIED"]
    BY <2>1
  <2>3. QED
    BY <2>1, <2>2 DEF IInv, AnswersMatchLedger
<1>3. QED
  BY <1>1, <1>2

LEMMA DoneType ==
  ASSUME NEW r \in Requests, r.left > 0
  PROVE Done(r) \in Requests /\ Done(r).stage = "open"
<1>1. r.left \in Nat /\ r.left - 1 \in Nat
  BY DEF Requests
<1>2. Done(r) \in Requests
  BY <1>1 DEF Done, Requests
<1>3. Done(r).stage = "open"
  BY DEF Done, Requests
<1>4. QED
  BY <1>2, <1>3

LEMMA ServedType ==
  ASSUME TypeOK, NEW b \in Batches, batch[b].left > 0
  PROVE /\ Served(b) \in [Batches -> Requests]
        /\ Served(b)[b].stage = "open"
        /\ \A x \in Batches \ {b} : Served(b)[x] = batch[x]
<1>1. batch[b] \in Requests
  BY DEF TypeOK
<1>2. Done(batch[b]) \in Requests /\ Done(batch[b]).stage = "open"
  BY <1>1, DoneType
<1>3. QED
  BY <1>2 DEF TypeOK, Served

LEMMA OpenType ==
  ASSUME TypeOK, NEW b \in Batches, NEW d \in Devices, OpenBatch(b, d)
  PROVE batch' \in [Batches -> Requests] /\ batch'[b].stage = "open"
<1> DEFINE r == [Idle EXCEPT !.stage = "open", !.dev = {d}, !.status = status[d],
                             !.sequence = sequence[d], !.left = BatchSize]
<1>1. r \in Requests /\ r.stage = "open"
  BY SyncAssumption DEF TypeOK, Idle, Requests, Statuses
<1>2. batch' = [batch EXCEPT ![b] = r]
  BY DEF OpenBatch
<1> HIDE DEF r
<1>3. QED
  BY <1>1, <1>2 DEF TypeOK

LEMMA IdleType == Idle \in Requests /\ Idle.stage = "idle"
  BY DEF Idle, Requests, Statuses

\* A step of batch b that decides no command and inserts no row keeps the others exclusive.
LEMMA Released ==
  ASSUME IInv, NEW b \in Batches, row' = row, batch'[b].stage # "handling",
         \A x \in Batches \ {b} : batch'[x] = batch[x]
  PROVE Exclusive'
  BY DEF IInv, Exclusive

\* So does one that decides a command nobody else is handling.
LEMMA Decided ==
  ASSUME IInv, NEW b \in Batches, NEW c \in Commands, ~Inserting(b, c),
         \A x \in Commands \ {c} : row'[x] = row[x], batch'[b].stage # "handling",
         \A x \in Batches \ {b} : batch'[x] = batch[x]
  PROVE Exclusive'
  BY DEF IInv, Exclusive, Inserting

\* The batch that handles a command holds its primary key.
LEMMA HandlerAlone ==
  ASSUME IInv, NEW b \in Batches, NEW c \in Commands, NEW h \in Payloads, Handles(b, c, h)
  PROVE row[c] = NoRow /\ ~Inserting(b, c) /\ effects[c] = 0
<1>1. row[c] = NoRow /\ ~Inserting(b, c)
  BY DEF IInv, Exclusive, Handles, Inserting
<1>2. QED
  BY <1>1, Undecided

\* Verdicts and answers stay in agreement when one undecided command is decided.
LEMMA Agreement ==
  ASSUME IInv, NEW c \in Commands, NEW h \in Payloads, row[c] = NoRow,
         NEW result \in {"APPLIED", "REJECTED"},
         row' = [row EXCEPT ![c] = [hash |-> {h}, result |-> result]],
         \/ told' = told
         \/ result = "APPLIED" /\ told' = told \cup {<<c, h, "APPLIED">>}
  PROVE AnswersMatchLedger'
<1> SUFFICES ASSUME NEW c2 \in Commands, NEW h2 \in Payloads
             PROVE /\ <<c2, h2, "APPLIED">> \in told'
                         => row'[c2] = [hash |-> {h2}, result |-> "APPLIED"]
                   /\ <<c2, h2, "DUPLICATE">> \in told' => row'[c2].hash = {h2}
  BY DEF AnswersMatchLedger
<1>1. CASE c2 = c
  <2>1. <<c, h2, "APPLIED">> \notin told /\ <<c, h2, "DUPLICATE">> \notin told
    BY Undecided
  <2>2. row'[c] = [hash |-> {h}, result |-> result]
    BY DEF IInv, TypeOK
  <2>3. QED
    BY <1>1, <2>1, <2>2
<1>2. CASE c2 # c
  <2>1. row'[c2] = row[c2]
    BY <1>2 DEF IInv, TypeOK
  <2>2. QED
    BY <1>2, <2>1 DEF IInv, AnswersMatchLedger
<1>3. QED
  BY <1>1, <1>2

LEMMA StepInv == IInv /\ [Next]_vars => IInv'
<1> SUFFICES ASSUME IInv, [Next]_vars PROVE IInv'
  OBVIOUS
<1> USE DEF IInv
<1>1. ASSUME NEW b \in Batches, NEW d \in Devices, OpenBatch(b, d) PROVE IInv'
  <2>1. batch' \in [Batches -> Requests] /\ batch'[b].stage = "open"
    BY <1>1, OpenType
  <2>2. Exclusive'
    BY <1>1, <2>1, Released DEF OpenBatch, TypeOK
  <2>3. QED
    BY <1>1, <2>1, <2>2 DEF OpenBatch, TypeOK, AppliedOnce, AnswersMatchLedger, Serving
<1>2. ASSUME NEW b \in Batches, NEW d \in Devices, CloseBatch(b, d) PROVE IInv'
  <2>1. batch' \in [Batches -> Requests] /\ batch'[b].stage = "idle"
    BY <1>2, IdleType DEF CloseBatch, TypeOK
  <2>2. Exclusive'
    BY <1>2, <2>1, Released DEF CloseBatch, TypeOK
  <2>3. status' = status
    BY <1>2 DEF CloseBatch, StatusAfterBatch, TypeOK
  <2>4. QED
    BY <1>2, <2>1, <2>2, <2>3 DEF CloseBatch, TypeOK, AppliedOnce, AnswersMatchLedger, Serving
<1>3. ASSUME NEW b \in Batches, NEW d \in Devices, Quarantine(b, d) PROVE IInv'
  <2>1. /\ Served(b) \in [Batches -> Requests]
        /\ Served(b)[b].stage = "open"
        /\ \A x \in Batches \ {b} : Served(b)[x] = batch[x]
    BY <1>3, ServedType DEF Quarantine, Takes
  <2>2. batch' \in [Batches -> Requests] /\ batch'[b].stage = "open"
    BY <1>3, <2>1 DEF Quarantine, Requests, Statuses
  <2>3. \A x \in Batches \ {b} : batch'[x] = batch[x]
    BY <1>3, <2>1 DEF Quarantine
  <2>4. Exclusive'
    BY <1>3, <2>2, <2>3, Released DEF Quarantine
  <2>5. Serving'
    BY <2>2, <2>3 DEF Serving
  <2>6. QED
    BY <1>3, <2>2, <2>4, <2>5 DEF Quarantine, TypeOK, Statuses, AppliedOnce, AnswersMatchLedger
<1>4. ASSUME NEW b \in Batches, RejectUnstored(b) PROVE IInv'
  <2>1. /\ batch' \in [Batches -> Requests]
        /\ batch'[b].stage = "open"
        /\ \A x \in Batches \ {b} : batch'[x] = batch[x]
    BY <1>4, ServedType DEF RejectUnstored, Takes, Refuse
  <2>2. Exclusive'
    BY <1>4, <2>1, Released DEF RejectUnstored
  <2>3. QED
    BY <1>4, <2>1, <2>2 DEF RejectUnstored, Refuse, TypeOK, AppliedOnce, AnswersMatchLedger, Serving
<1>5. ASSUME NEW b \in Batches, NEW c \in Commands, NEW h \in Payloads, RejectStored(b, c, h)
      PROVE IInv'
  <2>1. /\ batch' \in [Batches -> Requests]
        /\ batch'[b].stage = "open"
        /\ \A x \in Batches \ {b} : batch'[x] = batch[x]
    BY <1>5, ServedType DEF RejectStored, Takes, Refuse
  <2>2. \A x \in Commands \ {c} : row'[x] = row[x]
    BY <1>5 DEF RejectStored, TypeOK
  <2>3. Exclusive'
    BY <1>5, <2>1, <2>2, Decided DEF RejectStored
  <2>4. CASE row[c] = NoRow
    <3>1. row' = [row EXCEPT ![c] = [hash |-> {h}, result |-> "REJECTED"]] /\ told' = told
      BY <1>5, <2>4 DEF RejectStored, Refused, Refusal, Refuse
    <3>2. AnswersMatchLedger'
      BY <2>4, <3>1, Agreement
    <3>3. AppliedOnce'
      BY <1>5, <3>1 DEF RejectStored, TypeOK, AppliedOnce, NoRow
    <3>4. TypeOK'
      BY <1>5, <2>1, <3>1 DEF RejectStored, TypeOK, Rows
    <3>5. QED
      BY <2>1, <2>3, <3>2, <3>3, <3>4 DEF Serving
  <2>5. CASE row[c] # NoRow
    <3>1. row' = row /\ told' = told
      BY <1>5, <2>5 DEF RejectStored, Refused, Refuse, TypeOK
    <3>2. Serving'
      BY <2>1 DEF Serving
    <3>3. TypeOK'
      BY <1>5, <2>1, <3>1 DEF RejectStored, TypeOK
    <3>4. AppliedOnce' /\ AnswersMatchLedger'
      BY <1>5, <3>1 DEF RejectStored, AppliedOnce, AnswersMatchLedger
    <3>5. QED
      BY <2>3, <3>2, <3>3, <3>4
  <2>6. QED
    BY <2>4, <2>5
<1>6. ASSUME NEW b \in Batches, NEW c \in Commands, NEW h \in Payloads, Repeat(b, c, h)
      PROVE IInv'
  <2>1. /\ batch' \in [Batches -> Requests]
        /\ batch'[b].stage = "open"
        /\ \A x \in Batches \ {b} : batch'[x] = batch[x]
    BY <1>6, ServedType DEF Repeat, Takes, Answer
  <2>2. Exclusive'
    BY <1>6, <2>1, Released DEF Repeat
  <2>3. AnswersMatchLedger'
    BY <1>6 DEF Repeat, Answer, AnswerFromRow, AnswersMatchLedger
  <2>4. told' \subseteq Commands \X Payloads \X Answers
    BY <1>6 DEF Repeat, Answer, AnswerFromRow, TypeOK, Answers
  <2>5. QED
    BY <1>6, <2>1, <2>2, <2>3, <2>4 DEF Repeat, TypeOK, AppliedOnce, Serving
<1>7. ASSUME NEW b \in Batches, NEW c \in Commands, NEW h \in Payloads, Look(b, c, h)
      PROVE IInv'
  <2>1. /\ batch' \in [Batches -> Requests]
        /\ batch'[b].stage = "looked"
        /\ \A x \in Batches \ {b} : batch'[x] = batch[x]
    BY <1>7 DEF Look, TypeOK, Requests
  <2>2. Exclusive'
    BY <1>7, <2>1, Released DEF Look
  <2>3. QED
    BY <1>7, <2>1, <2>2 DEF Look, Takes, TypeOK, AppliedOnce, AnswersMatchLedger, Serving
<1>8. ASSUME NEW b \in Batches, NEW c \in Commands, Insert(b, c) PROVE IInv'
  <2>1. /\ batch' \in [Batches -> Requests]
        /\ batch'[b].stage = "handling" /\ batch'[b].cmd = {c}
        /\ \A x \in Batches \ {b} : batch'[x] = batch[x]
    BY <1>8 DEF Insert, TypeOK, Requests
  <2>2. Exclusive'
    BY <1>8, <2>1 DEF Insert, Inserting, Exclusive
  <2>3. QED
    BY <1>8, <2>1, <2>2 DEF Insert, TypeOK, AppliedOnce, AnswersMatchLedger, Serving
<1>9. ASSUME NEW b \in Batches, NEW c \in Commands, NEW h \in Payloads,
             \/ InsertFails(b, c, h)
             \/ HandlerBreaks(b, c, h)
      PROVE IInv'
  <2>1. batch[b].left > 0
    BY <1>9 DEF InsertFails, HandlerBreaks, Handles, Serving
  <2>2. /\ batch' = Served(b)
        /\ told' = told \cup {<<c, h, "SYNC_INTERNAL_ERROR">>}
        /\ UNCHANGED <<status, sequence, row, effects>>
    BY <1>9 DEF InsertFails, HandlerBreaks, Answer
  <2>3. /\ batch' \in [Batches -> Requests]
        /\ batch'[b].stage = "open"
        /\ \A x \in Batches \ {b} : batch'[x] = batch[x]
    BY <2>1, <2>2, ServedType
  <2>4. Exclusive'
    BY <2>2, <2>3, Released
  <2>5. AnswersMatchLedger'
    BY <2>2 DEF AnswersMatchLedger
  <2>6. TypeOK'
    BY <2>2, <2>3 DEF TypeOK, Answers
  <2>7. QED
    BY <2>2, <2>3, <2>4, <2>5, <2>6 DEF AppliedOnce, Serving
<1>10. ASSUME NEW b \in Batches, NEW c \in Commands, NEW h \in Payloads, NEW kept \in BOOLEAN,
              HandlerRejects(b, c, h, kept)
       PROVE IInv'
  <2>1. /\ row[c] = NoRow
        /\ ~Inserting(b, c)
        /\ effects[c] = 0
        /\ batch[b].left > 0
    BY <1>10, HandlerAlone DEF HandlerRejects, Handles, Serving
  <2>2. /\ batch' \in [Batches -> Requests]
        /\ batch'[b].stage = "open"
        /\ \A x \in Batches \ {b} : batch'[x] = batch[x]
    BY <1>10, <2>1, ServedType DEF HandlerRejects, Refuse
  <2>3. row' = [row EXCEPT ![c] = [hash |-> {h}, result |-> "REJECTED"]] /\ told' = told
    BY <1>10 DEF HandlerRejects, Refusal, Refuse
  <2>4. Exclusive'
    BY <2>1, <2>2, <2>3, Decided DEF TypeOK
  <2>5. AnswersMatchLedger'
    BY <2>1, <2>3, Agreement
  <2>6. AppliedOnce'
    BY <1>10, <2>1, <2>3 DEF HandlerRejects, TypeOK, AppliedOnce, NoRow
  <2>7. TypeOK'
    BY <1>10, <2>1, <2>2, <2>3 DEF HandlerRejects, TypeOK, Rows
  <2>8. QED
    BY <2>2, <2>4, <2>5, <2>6, <2>7 DEF Serving
<1>11. ASSUME NEW b \in Batches, NEW d \in Devices, NEW c \in Commands, NEW h \in Payloads,
              Apply(b, d, c, h)
       PROVE IInv'
  <2> DEFINE ahead == SequenceOf[c] > batch[b].sequence
  <2>1. /\ row[c] = NoRow
        /\ ~Inserting(b, c)
        /\ effects[c] = 0
        /\ batch[b].left > 0
    BY <1>11, HandlerAlone DEF Apply, Handles, Serving
  <2>2. /\ Served(b) \in [Batches -> Requests]
        /\ Served(b)[b].stage = "open"
        /\ \A x \in Batches \ {b} : Served(b)[x] = batch[x]
    BY <2>1, ServedType
  <2>3. batch' = IF ahead THEN [Served(b) EXCEPT ![b].sequence = SequenceOf[c]] ELSE Served(b)
    BY <1>11 DEF Apply
  <2>4. SequenceOf[c] \in Nat
    BY SyncAssumption
  <2>5. /\ batch' \in [Batches -> Requests]
        /\ batch'[b].stage = "open"
        /\ \A x \in Batches \ {b} : batch'[x] = batch[x]
    <3>1. CASE ahead
      BY <2>2, <2>3, <2>4, <3>1 DEF Requests
    <3>2. CASE ~ahead
      BY <2>2, <2>3, <3>2
    <3>3. QED
      BY <3>1, <3>2
  <2>6. /\ row' = [row EXCEPT ![c] = [hash |-> {h}, result |-> "APPLIED"]]
        /\ told' = told \cup {<<c, h, "APPLIED">>}
        /\ effects' = [effects EXCEPT ![c] = @ + 1]
    BY <1>11 DEF Apply
  <2>7. Exclusive'
    BY <2>1, <2>5, <2>6, Decided DEF TypeOK
  <2>8. AnswersMatchLedger'
    BY <2>1, <2>6, Agreement
  <2>9. AppliedOnce'
    BY <2>1, <2>6 DEF TypeOK, AppliedOnce, NoRow
  <2>10. TypeOK'
    BY <1>11, <2>1, <2>4, <2>5, <2>6 DEF Apply, TypeOK, Rows, Answers
  <2>11. QED
    BY <2>5, <2>7, <2>8, <2>9, <2>10 DEF Serving
<1>12. ASSUME NEW b \in Batches, Crash(b) PROVE IInv'
  <2>1. batch' \in [Batches -> Requests] /\ batch'[b].stage = "idle"
    BY <1>12, IdleType DEF Crash, TypeOK
  <2>2. Exclusive'
    BY <1>12, <2>1, Released DEF Crash, TypeOK
  <2>3. QED
    BY <1>12, <2>1, <2>2 DEF Crash, TypeOK, AppliedOnce, AnswersMatchLedger, Serving
<1>13. ASSUME NEW d \in Devices, Revoke(d) PROVE IInv'
  BY <1>13 DEF Revoke, TypeOK, Statuses, AppliedOnce, AnswersMatchLedger, Exclusive, Serving
<1>14. CASE UNCHANGED vars
  BY <1>14 DEF vars, TypeOK, AppliedOnce, AnswersMatchLedger, Exclusive, Serving
<1>15. QED
  BY <1>1, <1>2, <1>3, <1>4, <1>5, <1>6, <1>7, <1>8, <1>9, <1>10, <1>11, <1>12, <1>13, <1>14
  DEF Next

THEOREM Inductive == Spec => []IInv
  BY InitInv, StepInv, PTL DEF Spec

\* Devices, rows, provisional rows and answers stay in their ranges (Device, AppliedCommand).
THEOREM TypeCorrect == Spec => []TypeOK
<1>1. IInv => TypeOK
  BY DEF IInv
<1>2. QED
  BY <1>1, Inductive, PTL

\* However often and concurrently a command is sent, its handler commits at most once
\* (the primary key of AppliedCommand and process_command's transaction).
THEOREM AppliedOnceHolds == Spec => []AppliedOnce
<1>1. IInv => AppliedOnce
  BY DEF IInv
<1>2. QED
  BY Inductive, <1>1, PTL

\* Every APPLIED and DUPLICATE a device was told agrees with the ledger for good.
THEOREM AnswersMatchLedgerHolds == Spec => []AnswersMatchLedger
<1>1. IInv => AnswersMatchLedger
  BY DEF IInv
<1>2. QED
  BY Inductive, <1>1, PTL

\* No step rewrites the verdict on a command: provisional rows are not visible, and a
\* failed insert leaves the row alone.
THEOREM LedgerIsFinalHolds == Spec => LedgerIsFinal
<1> DEFINE Final == \A c \in Commands : row[c] # NoRow => row'[c] = row[c]
<1>1. IInv /\ [Next]_vars => [Final]_vars
  <2> SUFFICES ASSUME IInv, Next, NEW c \in Commands, row[c] # NoRow PROVE row'[c] = row[c]
    OBVIOUS
  <2> USE DEF IInv, TypeOK
  <2>1. ASSUME NEW b \in Batches, NEW x \in Commands, NEW h \in Payloads, RejectStored(b, x, h)
        PROVE row'[c] = row[c]
    BY <2>1 DEF RejectStored, Refused
  <2>2. ASSUME NEW b \in Batches, NEW x \in Commands, NEW h \in Payloads, Handles(b, x, h),
               NEW R, row' = [row EXCEPT ![x] = R]
        PROVE row'[c] = row[c]
    <3>1. x # c
      BY <2>2, HandlerAlone
    <3>2. QED
      BY <2>2, <3>1
  <2>3. ASSUME NEW b \in Batches, NEW x \in Commands, NEW h \in Payloads,
               \/ \E d \in Devices : Apply(b, d, x, h)
               \/ \E kept \in BOOLEAN : HandlerRejects(b, x, h, kept)
        PROVE row'[c] = row[c]
    BY <2>2, <2>3 DEF Apply, HandlerRejects
  <2>4. QED
    BY <2>1, <2>3
    DEF Next, OpenBatch, CloseBatch, Quarantine, RejectUnstored, Repeat, Look, Insert, InsertFails,
        HandlerBreaks, Crash, Revoke
<1>2. QED
  BY Inductive, <1>1, PTL DEF Spec, LedgerIsFinal

\* Nothing a batch saves from its copy of the device makes a blocked device ACTIVE.
THEOREM BlockIsFinalHolds == Spec => BlockIsFinal
<1> DEFINE Blocked == \A d \in Devices : status[d] # "ACTIVE" => status'[d] # "ACTIVE"
<1>1. IInv /\ [Next]_vars => [Blocked]_vars
  <2> SUFFICES ASSUME IInv, Next, NEW d \in Devices, status[d] # "ACTIVE"
               PROVE status'[d] # "ACTIVE"
    OBVIOUS
  <2> USE DEF IInv, TypeOK
  <2>1. ASSUME NEW b \in Batches, NEW x \in Devices, Quarantine(b, x) PROVE status'[d] # "ACTIVE"
    BY <2>1 DEF Quarantine
  <2>2. ASSUME NEW b \in Batches, NEW x \in Devices, CloseBatch(b, x) PROVE status'[d] # "ACTIVE"
    BY <2>2 DEF CloseBatch, StatusAfterBatch
  <2>3. ASSUME NEW x \in Devices, Revoke(x) PROVE status'[d] # "ACTIVE"
    BY <2>3 DEF Revoke
  <2>4. ASSUME NEW b \in Batches, NEW x \in Devices, NEW c \in Commands, NEW h \in Payloads,
               Apply(b, x, c, h)
        PROVE status'[d] # "ACTIVE"
    BY <2>4 DEF Apply
  <2>5. ASSUME NEW b \in Batches, NEW c \in Commands, NEW h \in Payloads,
               \/ RejectStored(b, c, h) \/ Repeat(b, c, h) \/ Look(b, c, h)
               \/ InsertFails(b, c, h) \/ HandlerBreaks(b, c, h)
               \/ \E kept \in BOOLEAN : HandlerRejects(b, c, h, kept)
        PROVE status'[d] # "ACTIVE"
    BY <2>5 DEF RejectStored, Repeat, Look, InsertFails, HandlerBreaks, HandlerRejects
  <2>6. ASSUME NEW b \in Batches,
               \/ \E x \in Devices : OpenBatch(b, x)
               \/ \E c \in Commands : Insert(b, c)
               \/ RejectUnstored(b) \/ Crash(b)
        PROVE status'[d] # "ACTIVE"
    BY <2>6 DEF OpenBatch, Insert, RejectUnstored, Crash
  <2>7. QED
    BY <2>1, <2>2, <2>3, <2>4, <2>5, <2>6 DEF Next
<1>2. QED
  BY Inductive, <1>1, PTL DEF Spec, BlockIsFinal
=============================================================================
