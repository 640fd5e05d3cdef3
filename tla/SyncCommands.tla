---------------------------- MODULE SyncCommands ----------------------------
(***************************************************************************)
(* The command ledger of sync_engine: offline devices send batches of      *)
(* commands, and send them again when the network fails.                   *)
(*                                                                         *)
(* A batch works with the Device instance it loaded when it began, while   *)
(* other batches of the same device, an operator's revocation and a        *)
(* quarantine change the row.  A command is one transaction: it looks for  *)
(* its AppliedCommand row, inserts a provisional one, whose primary key    *)
(* makes other inserts of that id wait, runs its handler and commits both. *)
(*                                                                         *)
(* Signatures, scopes, sizes and clock skew are a choice of the step that  *)
(* refuses the command.  Request nonces only refuse whole batches, and     *)
(* receipts are not read by anyone: both are left out.                     *)
(***************************************************************************)
EXTENDS Integers

CONSTANTS
  Devices,    \* enrolled devices
  Batches,    \* requests being served at the same time
  Commands,   \* command ids
  Payloads,   \* canonical payload hashes
  SequenceOf, \* SequenceOf[c]: sequence the device gave to c, 0 when it gave none
  BatchSize   \* bound on the commands of a batch

ASSUME SyncAssumption ==
  /\ SequenceOf \in [Commands -> Nat]
  /\ BatchSize \in Nat \ {0}

VARIABLES
  status,    \* status[d]: Device.status
  sequence,  \* sequence[d]: Device.last_accepted_sequence
  row,       \* row[c]: the committed AppliedCommand, if any
  effects,   \* effects[c]: times a handler of c has committed something
  batch,     \* batch[b]: the request served by b and its copy of the device
  told       \* answers given, plain refusals apart: <<command, payload, answer>>

vars == <<status, sequence, row, effects, batch, told>>

Statuses == {"ACTIVE", "REVOKED", "QUARANTINED"}
Answers == {"APPLIED", "DUPLICATE", "SYNC_INTERNAL_ERROR"}

NoRow == [hash |-> {}, result |-> "NONE"]
Idle == [stage |-> "idle", dev |-> {}, status |-> "ACTIVE", sequence |-> 0,
         cmd |-> {}, hash |-> {}, left |-> 0]

Rows == [hash : SUBSET Payloads, result : {"NONE", "APPLIED", "REJECTED"}]
Requests == [stage : {"idle", "open", "looked", "handling"},
             dev : SUBSET Devices, status : Statuses, sequence : Nat,
             cmd : SUBSET Commands, hash : SUBSET Payloads, left : Nat]

TypeOK ==
  /\ status \in [Devices -> Statuses]
  /\ sequence \in [Devices -> Nat]
  /\ row \in [Commands -> Rows]
  /\ effects \in [Commands -> Nat]
  /\ batch \in [Batches -> Requests]
  /\ told \subseteq Commands \X Payloads \X Answers

Init ==
  /\ status = [d \in Devices |-> "ACTIVE"]
  /\ sequence = [d \in Devices |-> 0]
  /\ row = [c \in Commands |-> NoRow]
  /\ effects = [c \in Commands |-> 0]
  /\ batch = [b \in Batches |-> Idle]
  /\ told = {}

-----------------------------------------------------------------------------
\* SyncBatchView: the device is read without a lock and kept for the whole batch.
OpenBatch(b, d) ==
  /\ batch[b] = Idle
  /\ batch' = [batch EXCEPT ![b] = [Idle EXCEPT !.stage = "open", !.dev = {d},
                                      !.status = status[d], !.sequence = sequence[d],
                                      !.left = BatchSize]]
  /\ UNCHANGED <<status, sequence, row, effects, told>>

\* The end of process_batch saves last_seen_at alone.
StatusOfCopy(b, d) == batch[b].status
StatusAfterBatch(b, d) == status[d]

CloseBatch(b, d) ==
  /\ batch[b].stage = "open" /\ batch[b].dev = {d}
  /\ status' = [status EXCEPT ![d] = StatusAfterBatch(b, d)]
  /\ batch' = [batch EXCEPT ![b] = Idle]
  /\ UNCHANGED <<sequence, row, effects, told>>

\* The current command of the batch has its answer.
Done(r) == [r EXCEPT !.stage = "open", !.cmd = {}, !.hash = {}, !.left = @ - 1]
Served(b) == [batch EXCEPT ![b] = Done(@)]
Refuse(b) == batch' = Served(b) /\ UNCHANGED told
Answer(b, answers) == batch' = Served(b) /\ told' = told \cup answers

Takes(b) == batch[b].stage = "open" /\ batch[b].left > 0

\* _reject_without_db: the copy says blocked, or size, scope or hash are wrong.
RejectUnstored(b) ==
  /\ Takes(b)
  /\ Refuse(b)
  /\ UNCHANGED <<status, sequence, row, effects>>

\* An extreme clock skew quarantines the device, in the copy and in the table.
Quarantine(b, d) ==
  /\ Takes(b) /\ batch[b].dev = {d}
  /\ batch[b].status = "ACTIVE"
  /\ status' = [status EXCEPT ![d] = "QUARANTINED"]
  /\ batch' = [Served(b) EXCEPT ![b].status = "QUARANTINED"]
  /\ UNCHANGED <<sequence, row, effects, told>>

\* An insert waits for the transaction that is inserting the same primary key.
NeverInserting(b, c) == FALSE
Inserting(b, c) == \E x \in Batches \ {b} : batch[x].stage = "handling" /\ batch[x].cmd = {c}

\* _reject_with_db: bad signature or unknown type.  When the row is there its insert
\* fails, nothing else can be read in that transaction and the refusal is answered.
RefusalMarked(c, h) == [hash |-> {h}, result |-> "DUPLICATE"]
Refusal(c, h) == [hash |-> {h}, result |-> "REJECTED"]
Refused(c, h) == IF row[c] = NoRow THEN Refusal(c, h) ELSE row[c]

RejectStored(b, c, h) ==
  /\ Takes(b)
  /\ batch[b].status = "ACTIVE"
  /\ ~Inserting(b, c)
  /\ row' = [row EXCEPT ![c] = Refused(c, h)]
  /\ Refuse(b)
  /\ UNCHANGED <<status, sequence, effects>>

\* process_command from its lookup: a committed row answers at once.
AnswerUnread(c, h) == {<<c, h, "DUPLICATE">>}
AnswerFromRow(c, h) == IF row[c].hash = {h} THEN {<<c, h, "DUPLICATE">>} ELSE {}

Repeat(b, c, h) ==
  /\ Takes(b)
  /\ batch[b].status = "ACTIVE"
  /\ row[c] # NoRow
  /\ Answer(b, AnswerFromRow(c, h))
  /\ UNCHANGED <<status, sequence, row, effects>>

Look(b, c, h) ==
  /\ Takes(b)
  /\ batch[b].status = "ACTIVE"
  /\ row[c] = NoRow
  /\ batch' = [batch EXCEPT ![b] = [@ EXCEPT !.stage = "looked", !.cmd = {c}, !.hash = {h}]]
  /\ UNCHANGED <<status, sequence, row, effects, told>>

\* The provisional row is inserted and the handler runs.
Insert(b, c) ==
  /\ batch[b].stage = "looked" /\ batch[b].cmd = {c}
  /\ ~Inserting(b, c)
  /\ row[c] = NoRow
  /\ batch' = [batch EXCEPT ![b].stage = "handling"]
  /\ UNCHANGED <<status, sequence, row, effects, told>>

\* The insert fails because another batch has committed the id since the lookup.  The
\* failed create marks the whole transaction for rollback and the savepoint does not
\* take that back: the query that would find the row raises.
InsertFails(b, c, h) ==
  /\ batch[b].stage = "looked" /\ batch[b].cmd = {c} /\ batch[b].hash = {h}
  /\ ~Inserting(b, c)
  /\ row[c] # NoRow
  /\ Answer(b, {<<c, h, "SYNC_INTERNAL_ERROR">>})
  /\ UNCHANGED <<status, sequence, row, effects>>

Handles(b, c, h) == batch[b].stage = "handling" /\ batch[b].cmd = {c} /\ batch[b].hash = {h}

\* The handler returned.  last_accepted_sequence is compared with the copy.
Apply(b, d, c, h) ==
  /\ Handles(b, c, h) /\ batch[b].dev = {d}
  /\ row' = [row EXCEPT ![c] = [hash |-> {h}, result |-> "APPLIED"]]
  /\ effects' = [effects EXCEPT ![c] = @ + 1]
  /\ told' = told \cup {<<c, h, "APPLIED">>}
  /\ LET ahead == SequenceOf[c] > batch[b].sequence IN
       /\ sequence' = IF ahead THEN [sequence EXCEPT ![d] = SequenceOf[c]] ELSE sequence
       /\ batch' = IF ahead THEN [Served(b) EXCEPT ![b].sequence = SequenceOf[c]] ELSE Served(b)
  /\ UNCHANGED status

\* The handler raised: the refusal is stored with whatever the handler had done, since
\* no savepoint is around it (POS_TICKET answers POS_COMPENSATION_PENDING this way).
HandlerRejects(b, c, h, kept) ==
  /\ Handles(b, c, h)
  /\ row' = [row EXCEPT ![c] = Refusal(c, h)]
  /\ effects' = [effects EXCEPT ![c] = IF kept THEN @ + 1 ELSE @]
  /\ Refuse(b)
  /\ UNCHANGED <<status, sequence>>

\* The handler left the transaction broken: it is rolled back and the batch goes on.
HandlerBreaks(b, c, h) ==
  /\ Handles(b, c, h)
  /\ Answer(b, {<<c, h, "SYNC_INTERNAL_ERROR">>})
  /\ UNCHANGED <<status, sequence, row, effects>>

\* The worker dies or the answer is lost; an open transaction leaves nothing.
Crash(b) ==
  /\ batch[b] # Idle
  /\ batch' = [batch EXCEPT ![b] = Idle]
  /\ UNCHANGED <<status, sequence, row, effects, told>>

\* DeviceRevokeView
Revoke(d) ==
  /\ status' = [status EXCEPT ![d] = "REVOKED"]
  /\ UNCHANGED <<sequence, row, effects, batch, told>>

Next ==
  \/ \E b \in Batches, d \in Devices : OpenBatch(b, d) \/ Quarantine(b, d) \/ CloseBatch(b, d)
  \/ \E b \in Batches, c \in Commands, h \in Payloads :
       \/ RejectStored(b, c, h)
       \/ Repeat(b, c, h)
       \/ Look(b, c, h)
       \/ InsertFails(b, c, h)
       \/ HandlerBreaks(b, c, h)
       \/ \E kept \in BOOLEAN : HandlerRejects(b, c, h, kept)
       \/ \E d \in Devices : Apply(b, d, c, h)
  \/ \E b \in Batches, c \in Commands : Insert(b, c)
  \/ \E b \in Batches : RejectUnstored(b) \/ Crash(b)
  \/ \E d \in Devices : Revoke(d)

Spec == Init /\ [][Next]_vars

-----------------------------------------------------------------------------
\* However often and concurrently a command is sent, its handler commits at most once,
\* and what it committed has its row in the ledger.
AppliedOnce ==
  \A c \in Commands :
    /\ effects[c] <= 1
    /\ effects[c] = 1 => row[c] # NoRow
    /\ row[c].result = "APPLIED" => effects[c] = 1

\* What devices have been told agrees with the ledger for good: APPLIED was that very
\* payload, and DUPLICATE is never said of another payload.
AnswersMatchLedger ==
  \A c \in Commands, h \in Payloads :
    /\ <<c, h, "APPLIED">> \in told => row[c] = [hash |-> {h}, result |-> "APPLIED"]
    /\ <<c, h, "DUPLICATE">> \in told => row[c].hash = {h}

\* The verdict on a command is final, also against later refusals of the same id.
LedgerIsFinal == [][\A c \in Commands : row[c] # NoRow => row'[c] = row[c]]_vars

\* A device that was revoked or quarantined is never ACTIVE again, although batches
\* that loaded it earlier keep saving their copies.
BlockIsFinal == [][\A d \in Devices : status[d] # "ACTIVE" => status'[d] # "ACTIVE"]_vars

=============================================================================
