-------------------------- MODULE PosOfflineQueue ---------------------------
(***************************************************************************)
(* The offline queue of the POS terminal, kept in the local storage of the *)
(* browser, and what the server makes of the tickets it replays.           *)
(*                                                                         *)
(* A ticket that could not be delivered is queued under its dedupe key.  A *)
(* drain takes a snapshot of the rows that are due and replays them one by *)
(* one.  Several tabs of the terminal share the storage and drain it by    *)
(* themselves; nothing locks it.  Every update reads the whole queue and   *)
(* writes it back: within a tab nothing comes in between, but other tabs   *)
(* may.  A tab may be closed or crash between any two steps, and the       *)
(* network may lose a request or its answer.                               *)
(***************************************************************************)
EXTENDS Integers, FiniteSets

CONSTANTS
  RowIds,        \* ids of queue rows, in order of creation
  Keys,          \* dedupe keys: one for each ticket
  Tabs,          \* open terminals
  MaxReplays,    \* POS_OFFLINE_MAX_ATTEMPTS
  MaxCommands,   \* maxCommands of a drain
  DoneKeep       \* POS_OFFLINE_DONE_KEEP

ASSUME QueueAssumption ==
  /\ RowIds \subseteq Nat
  /\ "NONE" \notin Keys
  /\ MaxReplays \in Nat \ {0} /\ MaxCommands \in Nat \ {0} /\ DoneKeep \in Nat

VARIABLES
  queue,       \* queue[i]: the row with id i in the storage
  keyOf,       \* keyOf[i]: dedupe_key of the row that was given the id i
  edit,        \* edit[b]: the update of the tab that has read the queue and not written it
  snap,        \* snap[b]: the rows the running drain of the tab has still to replay
  busy,        \* busy[b]: the row that the tab is replaying
  server,      \* server[k]: the ticket with that idempotency key is checked out
  overwritten  \* keys of which another tab overwrote the row (history)

queueVars == <<queue, keyOf, edit, snap, busy, server, overwritten>>

Waits == {"PENDING", "PROCESSING", "FAILED"}
Statuses == Waits \cup {"DONE"}
NoRow == [status |-> "ABSENT"]
Nothing == [id |-> "NONE"]
NoEdit == [to |-> "NONE"]
QueueRows == [status : Statuses, attempts : Nat]
Queues == [RowIds -> QueueRows \cup {NoRow}]
QueueCopies == [id : RowIds, attempts : Nat]
Edits == [to : Statuses \cup {"QUEUED"}, key : Keys, read : Queues]

QueueTypeOK ==
  /\ queue \in Queues
  /\ keyOf \in [RowIds -> Keys \cup {"NONE"}]
  /\ edit \in [Tabs -> Edits \cup {NoEdit}]
  /\ snap \in [Tabs -> SUBSET QueueCopies]
  /\ busy \in [Tabs -> QueueCopies \cup {Nothing}]
  /\ server \in [Keys -> BOOLEAN]
  /\ overwritten \in SUBSET Keys

QueueInit ==
  /\ queue = [i \in RowIds |-> NoRow]
  /\ keyOf = [i \in RowIds |-> "NONE"]
  /\ edit = [b \in Tabs |-> NoEdit]
  /\ snap = [b \in Tabs |-> {}]
  /\ busy = [b \in Tabs |-> Nothing]
  /\ server = [k \in Keys |-> FALSE]
  /\ overwritten = {}

-----------------------------------------------------------------------------
\* readQueueState of updateQueue: the tab has read the queue that it will write back.
Reads(b, to, k) == edit' = [edit EXCEPT ![b] = [to |-> to, key |-> k, read |-> queue]]

\* writeQueueState of queue r drops the oldest DONE rows beyond DoneKeep; which are the
\* oldest is left open.  A row that came in after the read is overwritten.
SettledRows(r) == {i \in RowIds : r[i].status \in {"DONE", "FAILED"}}
DoneRows(r) == {i \in RowIds : r[i].status = "DONE"}
Overwrites(b) ==
  {keyOf[i] : i \in {j \in RowIds : queue[j].status \in Waits /\ edit[b].read[j] = NoRow}}
Write(b, r) ==
  /\ \E D \in SUBSET DoneRows(r) :
       /\ Cardinality(DoneRows(r) \ D) <= DoneKeep
       /\ D # {} => Cardinality(DoneRows(r) \ D) = DoneKeep
       /\ queue' = [i \in RowIds |-> IF i \in D THEN NoRow ELSE r[i]]
  /\ edit' = [edit EXCEPT ![b] = NoEdit]

\* A delivery of open_ticket and checkout_ticket that ends without an answer, or is
\* refused, may have checked the ticket out or not.
Delivers(k) == \E done \in BOOLEAN : server' = [server EXCEPT ![k] = @ \/ done]

\* createAndCheckout when the server answers.
Direct(k) ==
  /\ Delivers(k)
  /\ UNCHANGED <<queue, keyOf, edit, snap, busy, overwritten>>

\* createAndCheckout when it does not: enqueuePosOfflineCommand.  A key with a row that
\* is not DONE is answered with that row, and the queue written back as it was read.
BeginEnqueue(b, k) ==
  /\ edit[b] = NoEdit
  /\ Delivers(k)
  /\ Reads(b, "QUEUED", k)
  /\ UNCHANGED <<queue, keyOf, snap, busy, overwritten>>

Active(q, i, k) == keyOf[i] = k /\ q[i].status \in Waits
NewRow == [status |-> "PENDING", attempts |-> 0]
Enqueue(b, i) ==
  LET k == edit[b].key IN
  LET read == edit[b].read IN
    /\ edit[b].to = "QUEUED"
    /\ IF \E j \in RowIds : Active(read, j, k)
         THEN Active(read, i, k) /\ Write(b, read) /\ UNCHANGED keyOf
         ELSE /\ keyOf[i] = "NONE"
              /\ \A j \in RowIds : j < i => keyOf[j] # "NONE"
              /\ keyOf' = [keyOf EXCEPT ![i] = k]
              /\ Write(b, [read EXCEPT ![i] = NewRow])
    /\ overwritten' = (overwritten \cup Overwrites(b)) \ {k}
    /\ UNCHANGED <<snap, busy, server>>

-----------------------------------------------------------------------------
\* drainPosOfflineQueue: the snapshot.  A PROCESSING row is never due; a FAILED one
\* always is, having no next_retry_at; of the PENDING ones, those whose backoff elapsed.
HasStatus(s) == {i \in RowIds : queue[i].status = s}
FirstOf(S) == {i \in S : Cardinality({j \in S : j < i}) < MaxCommands}
Copy(i) == [id |-> i, attempts |-> queue[i].attempts]
StartDrain(b) ==
  /\ edit[b] = NoEdit /\ snap[b] = {} /\ busy[b] = Nothing
  /\ \E elapsed \in SUBSET HasStatus("PENDING") :
       LET due == elapsed \cup HasStatus("FAILED") IN
         due # {} /\ snap' = [snap EXCEPT ![b] = {Copy(i) : i \in FirstOf(due)}]
  /\ UNCHANGED <<queue, keyOf, edit, busy, server, overwritten>>

\* The oldest row of the snapshot is to be marked PROCESSING, whatever became of it.
BeginMark(b) ==
  /\ edit[b] = NoEdit /\ busy[b] = Nothing
  /\ \E c \in snap[b] :
       /\ \A d \in snap[b] : c.id <= d.id
       /\ snap' = [snap EXCEPT ![b] = @ \ {c}]
       /\ busy' = [busy EXCEPT ![b] = c]
       /\ Reads(b, "PROCESSING", keyOf[c.id])
  /\ UNCHANGED <<queue, keyOf, server, overwritten>>

\* The executor is done: it delivered the ticket and both answers came back ...
BeginSuccess(b) ==
  /\ edit[b] = NoEdit /\ busy[b] # Nothing
  /\ server' = [server EXCEPT ![keyOf[busy[b].id]] = TRUE]
  /\ Reads(b, "DONE", keyOf[busy[b].id])
  /\ UNCHANGED <<queue, keyOf, snap, busy, overwritten>>

\* ... or it failed: attempts are counted from the snapshot, and from MaxReplays on they
\* change nothing any more (the count stops there).
CountedTo(n) == IF n < MaxReplays THEN n ELSE MaxReplays - 1
AfterErrorRetry(retryable, attempts) == IF retryable THEN "RETRY" ELSE "FAILED"
AfterError(retryable, attempts) ==
  IF retryable /\ attempts < MaxReplays THEN "PENDING" ELSE "FAILED"
BeginFailure(b) ==
  /\ edit[b] = NoEdit /\ busy[b] # Nothing
  /\ Delivers(keyOf[busy[b].id])
  /\ \E retryable \in BOOLEAN :
       Reads(b, AfterError(retryable, busy[b].attempts + 1), keyOf[busy[b].id])
  /\ UNCHANGED <<queue, keyOf, snap, busy, overwritten>>

\* The write of these three: a row that the read did not have is not put back.
Put(b) ==
  LET i == busy[b].id IN
  LET read == edit[b].read IN
    IF read[i] = NoRow THEN read
    ELSE [read EXCEPT ![i] =
           [status |-> edit[b].to,
            attempts |-> IF edit[b].to \in {"PENDING", "FAILED"}
                           THEN CountedTo(busy[b].attempts + 1) ELSE @.attempts]]
Update(b) ==
  /\ edit[b].to \in Statuses
  /\ Write(b, Put(b))
  /\ busy' = IF edit[b].to = "PROCESSING" THEN busy ELSE [busy EXCEPT ![b] = Nothing]
  /\ overwritten' = overwritten \cup Overwrites(b)
  /\ UNCHANGED <<keyOf, snap, server>>

\* The tab is closed, reloaded or killed: nothing more is written.
Crash(b) ==
  /\ edit[b] # NoEdit \/ snap[b] # {} \/ busy[b] # Nothing
  /\ edit' = [edit EXCEPT ![b] = NoEdit]
  /\ snap' = [snap EXCEPT ![b] = {}]
  /\ busy' = [busy EXCEPT ![b] = Nothing]
  /\ UNCHANGED <<queue, keyOf, server, overwritten>>

-----------------------------------------------------------------------------
QueueNext ==
  \/ \E k \in Keys : Direct(k)
  \/ \E b \in Tabs, k \in Keys : BeginEnqueue(b, k)
  \/ \E b \in Tabs, i \in RowIds : Enqueue(b, i)
  \/ \E b \in Tabs : \/ StartDrain(b) \/ BeginMark(b) \/ BeginSuccess(b) \/ BeginFailure(b)
                     \/ Update(b) \/ Crash(b)

QueueSpec == QueueInit /\ [][QueueNext]_queueVars

-----------------------------------------------------------------------------
\* A ticket that the terminal reported as queued is on the server or waits in the queue.
Kept(k) == server[k] \/ \E i \in RowIds : Active(queue, i, k)
Told == {keyOf[i] : i \in RowIds} \cap Keys
NothingLost == \A k \in Told : Kept(k)

\* Only an overlap loses a queued ticket: unless another tab wrote back a queue that it had
\* read before the ticket came in (updateQueue), it is kept, whatever tabs overlap or die,
\* whatever is compacted away and however a replay of an old snapshot ends.
LostOnlyToOverlaps == \A k \in Told \ overwritten : Kept(k)
=============================================================================
