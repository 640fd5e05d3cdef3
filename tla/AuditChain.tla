----------------------------- MODULE AuditChain -----------------------------
(***************************************************************************)
(* The audit trail: events chained by hash inside a partition (a company,  *)
(* or the system), each written in its caller's transaction under the lock *)
(* of the partition's head row, and the verifier that reads the events and *)
(* then, one by one and later, the heads.                                  *)
(*                                                                         *)
(* A hash names the event it was computed from, which holds a fresh id, so *)
(* an event stands for its hash; a row whose payload was changed since no  *)
(* longer has the hash of what it says.  A signature is the key it was     *)
(* made with.                                                              *)
(***************************************************************************)
EXTENDS Integers, FiniteSets

CONSTANTS
  Partitions,    \* partition keys
  Events,        \* events, by id and by hash
  Writers,       \* transactions that write events
  Keys,          \* signing keys
  FirstKey,      \* the key the ring starts with
  Genesis,       \* the empty hash
  Nobody,        \* no transaction
  NoRow,         \* not a row
  MaxDamage      \* bound: rows lost or altered behind the program's back

VARIABLES
  row,        \* row[e]: the event's row, `by` the transaction that has not committed it
  head,       \* head[p]: last_event_hash, as committed
  tip,        \* tip[p]: last_event_hash, as the holder of the row's lock sees it
  lock,       \* lock[p]: the transaction that holds the head row of p
  ring,       \* the keys signatures are verified with
  active,     \* the key new events are signed with
  verifier    \* the verification under way

vars == <<row, head, tip, lock, ring, active, verifier>>
-----------------------------------------------------------------------------
Rows == [part : Partitions, prev : Events \cup {Genesis}, key : Keys,
         by : Writers \cup {Nobody}, state : {"kept", "lost", "altered"}]

ASSUME AuditAssumption ==
  /\ IsFiniteSet(Events) /\ IsFiniteSet(Partitions)
  /\ FirstKey \in Keys
  /\ Genesis \notin Events
  /\ Nobody \notin Writers
  /\ NoRow \notin Rows
  /\ MaxDamage \in Nat

Codes == {"SIGNATURE_MISMATCH", "EVENT_HASH_MISMATCH", "CHAIN_GENESIS_COUNT", "CHAIN_TAIL_COUNT",
          "CHAIN_HEAD_MISMATCH", "CHAIN_HEAD_UNKNOWN_HASH", "CHAIN_MISSING_PREV_LINK",
          "CHAIN_CYCLE", "CHAIN_DISCONNECTED"}

TypeOK ==
  /\ row \in [Events -> Rows \cup {NoRow}]
  /\ head \in [Partitions -> Events \cup {Genesis}]
  /\ tip \in [Partitions -> Events \cup {Genesis}]
  /\ lock \in [Partitions -> Writers \cup {Nobody}]
  /\ ring \subseteq Keys /\ active \in ring
  /\ verifier \in [seen : SUBSET Events, left : SUBSET Partitions, codes : SUBSET Codes,
                   harmed : SUBSET Partitions]

Init ==
  /\ row = [e \in Events |-> NoRow]
  /\ head = [p \in Partitions |-> Genesis]
  /\ tip = head
  /\ lock = [p \in Partitions |-> Nobody]
  /\ ring = {FirstKey} /\ active = FirstKey
  /\ verifier = [seen |-> {}, left |-> {}, codes |-> {}, harmed |-> {}]

Written == {e \in Events : row[e] # NoRow}
Committed == {e \in Written : row[e].by = Nobody}
Kept == {e \in Committed : row[e].state # "lost"}
-----------------------------------------------------------------------------
(* Writing.                                                                *)

\* The lock of the head row; a row that is not there yet is inserted, and the unique key
\* of the partition makes a second inserter wait like a lock does.
FreeForAll(w, p) == TRUE
Free(w, p) == lock[p] \in {Nobody, w}

\* write_event: chained on what the holder of the lock last wrote.
Write(w, p, e) ==
  /\ row[e] = NoRow
  /\ Free(w, p)
  /\ row' = [row EXCEPT ![e] =
       [part |-> p, prev |-> tip[p], key |-> active, by |-> w, state |-> "kept"]]
  /\ tip' = [tip EXCEPT ![p] = e]
  /\ lock' = [lock EXCEPT ![p] = w]
  /\ UNCHANGED <<head, ring, active, verifier>>

Commit(w) ==
  /\ \E p \in Partitions : lock[p] = w
  /\ row' = [e \in Events |->
       IF e \in Written /\ row[e].by = w THEN [row[e] EXCEPT !.by = Nobody] ELSE row[e]]
  /\ head' = [p \in Partitions |-> IF lock[p] = w THEN tip[p] ELSE head[p]]
  /\ lock' = [p \in Partitions |-> IF lock[p] = w THEN Nobody ELSE lock[p]]
  /\ UNCHANGED <<tip, ring, active, verifier>>

\* What a rollback leaves of the head row.
TipKept(w, p) == tip[p]
TipBefore(w, p) == IF lock[p] = w THEN head[p] ELSE tip[p]

\* The caller's transaction is refused, dies or is the victim of a deadlock: its events
\* were never written.
Rollback(w) ==
  /\ \E p \in Partitions : lock[p] = w
  /\ row' = [e \in Events |-> IF e \in Written /\ row[e].by = w THEN NoRow ELSE row[e]]
  /\ tip' = [p \in Partitions |-> TipBefore(w, p)]
  /\ lock' = [p \in Partitions |-> IF lock[p] = w THEN Nobody ELSE lock[p]]
  /\ UNCHANGED <<head, ring, active, verifier>>

\* AUDIT_HMAC_KEYS gets a new first key; the older ones still verify.
RingOfActive(k) == {k}
RingAsItWas(k) == ring
RingWith(k) == ring \cup {k}
Rotate(k) ==
  /\ k \notin ring
  /\ ring' = RingWith(k)
  /\ active' = k
  /\ UNCHANGED <<row, head, tip, lock, verifier>>

\* A committed row is lost or changed by something that is not the program.
Damage(e, state) ==
  /\ e \in Committed
  /\ row[e].state = "kept"
  /\ Cardinality({x \in Committed : row[x].state # "kept"}) < MaxDamage
  /\ row' = [row EXCEPT ![e].state = state]
  /\ UNCHANGED <<head, tip, lock, ring, active, verifier>>
-----------------------------------------------------------------------------
(* Verifying.                                                              *)

When(holds, code) == IF holds THEN {code} ELSE {}

\* verify_events: each event by itself.  Its hash is computed again from the row, and the
\* signature is checked over the hash so computed.
AlwaysMatches(e) == TRUE
Matches(e) == row[e].state # "altered"
EventCodes(events) ==
  When(\E e \in events : ~Matches(e), "EVENT_HASH_MISMATCH")
    \cup When(\E e \in events : ~Matches(e) \/ row[e].key \notin ring, "SIGNATURE_MISMATCH")

\* The events of the group met walking back from start, which is one of them: those in
\* every set that holds start and, with an event, the one before it.
WalksBack(S, group) == \A e \in S : row[e].prev \in group => row[e].prev \in S
Walk(group, start) ==
  {e \in group : \A S \in SUBSET group : start \in S /\ WalksBack(S, group) => e \in S}

\* verify_queryset for the events of one partition and the head as it is read.
ChainCodes(group, h) ==
  LET genesis == {e \in group : row[e].prev = Genesis}
      tails == {e \in group : \A f \in group : row[f].prev # e}
      tail == CHOOSE e \in tails : TRUE
      start == IF h = Genesis THEN tail ELSE h
      met == Walk(group, start)
      visited ==
        When(\E e \in met : row[e].prev \notin group \cup {Genesis}, "CHAIN_MISSING_PREV_LINK")
          \cup When(\A e \in met : row[e].prev \in group, "CHAIN_CYCLE")
          \cup When(met # group, "CHAIN_DISCONNECTED")
  IN When(Cardinality(genesis) # 1, "CHAIN_GENESIS_COUNT")
       \cup IF Cardinality(tails) # 1 THEN {"CHAIN_TAIL_COUNT"}
            ELSE When(h # tail, "CHAIN_HEAD_MISMATCH")
                   \cup IF start \notin group THEN {"CHAIN_HEAD_UNKNOWN_HASH"} ELSE visited

InPartition(events, p) == {e \in events : row[e].part = p}
Harmed == {row[e].part : e \in {x \in Committed : row[x].state # "kept"}}

\* The events of the queryset; a partition without events has nothing to check.
BeginVerify ==
  /\ verifier.left = {}
  /\ Kept # {}
  /\ verifier' = [seen |-> Kept, codes |-> EventCodes(Kept),
                  left |-> {row[e].part : e \in Kept}, harmed |-> Harmed]
  /\ UNCHANGED <<row, head, tip, lock, ring, active>>

\* The next partition, with the head it has by now.
VerifyPartition(p) ==
  /\ p \in verifier.left
  /\ verifier' = [verifier EXCEPT !.left = @ \ {p},
       !.codes = @ \cup ChainCodes(InPartition(verifier.seen, p), head[p])]
  /\ UNCHANGED <<row, head, tip, lock, ring, active>>
-----------------------------------------------------------------------------
Next ==
  \/ \E w \in Writers, p \in Partitions, e \in Events : Write(w, p, e)
  \/ \E w \in Writers : Commit(w) \/ Rollback(w)
  \/ \E k \in Keys : Rotate(k)
  \/ \E e \in Events, state \in {"lost", "altered"} : Damage(e, state)
  \/ BeginVerify
  \/ \E p \in Partitions : VerifyPartition(p)

Spec == Init /\ [][Next]_vars
-----------------------------------------------------------------------------
(* What the trail must keep.                                               *)

\* Whatever transactions do at the same time and however they end, no two events of a
\* partition follow the same one, and a committed event follows a committed event of its
\* partition (write_event under select_for_update).
NeverForks ==
  /\ \A e, f \in Written : row[e].part = row[f].part /\ row[e].prev = row[f].prev => e = f
  /\ \A e \in Committed :
       row[e].prev = Genesis
         \/ row[e].prev \in InPartition(Committed, row[e].part)

\* As long as nothing was damaged, the verifier finds no fault with the committed events
\* and heads of one moment, over rollbacks and rotations of the key (verify_queryset).
UndamagedVerifies ==
  \A p \in Partitions \ Harmed :
    LET group == InPartition(Kept, p)
    IN group # {} => EventCodes(group) \cup ChainCodes(group, head[p]) = {}

\* A verification that began when a row of a partition was lost or altered, and still saw
\* a row of it, reports a fault, whatever is written while it runs (verify_queryset).
DamageIsReported ==
  \A p \in verifier.harmed :
    verifier.left = {} /\ InPartition(verifier.seen, p) # {} => verifier.codes # {}

-----------------------------------------------------------------------------
(* The promise this implements.                                            *)

\* The committed events up to h, oldest first: from the i-th, i events are met.
ChainTo(h) ==
  LET met == IF h = Genesis THEN {} ELSE Walk(Committed, h)
  IN [i \in 1..Cardinality(met) |-> CHOOSE e \in met : Cardinality(Walk(Committed, e)) = i]

Log == INSTANCE AuditLog WITH log <- [p \in Partitions |-> ChainTo(head[p])]

\* The committed chains are append-only logs: a commit adds its events at the ends, and
\* nothing else shows (write_event).
ImplementsLog == Log!Spec
=============================================================================
