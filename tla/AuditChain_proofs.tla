------------------------- MODULE AuditChain_proofs --------------------------
(***************************************************************************)
(* For any partitions, events, transactions and keys: the types, that the  *)
(* chains never fork, whatever transactions run at the same time and       *)
(* however they end, that the verifier finds no fault with what was not    *)
(* damaged and finds one with what was, and that the committed chains are  *)
(* append-only logs.                                                       *)
(***************************************************************************)
EXTENDS AuditChain, FiniteSetTheorems, WellFoundedInduction, TLAPS

\* A pending event's transaction holds its partition, and a free head row shows what was
\* committed.
LocksHeld ==
  /\ \A p \in Partitions : lock[p] = Nobody => tip[p] = head[p]
  /\ \A e \in Written : row[e].by # Nobody => lock[row[e].part] = row[e].by

\* The head and the tip of a partition are events of it, and the head is committed.
HeadsPoint ==
  \A p \in Partitions :
    /\ head[p] # Genesis => head[p] \in Committed /\ row[head[p]].part = p
    /\ tip[p] # Genesis => tip[p] \in Written /\ row[tip[p]].part = p

\* Nothing follows the tip, and nothing committed follows the head.
EndsAreEnds ==
  /\ \A e \in Written : row[e].prev # tip[row[e].part]
  /\ \A e \in Committed : row[e].prev # head[row[e].part]

\* An event follows an event of its partition.
PrevWritten ==
  \A e \in Written :
    row[e].prev = Genesis \/ (row[e].prev \in Written /\ row[row[e].prev].part = row[e].part)

Chained == LocksHeld /\ HeadsPoint /\ EndsAreEnds /\ PrevWritten /\ NeverForks

IInv == TypeOK /\ Chained

LEMMA WrittenRow ==
  ASSUME TypeOK, NEW e \in Written
  PROVE  /\ row[e] \in Rows
         /\ row[e].part \in Partitions
         /\ row[e].prev \in Events \cup {Genesis}
         /\ row[e].by \in Writers \cup {Nobody}
  BY DEF TypeOK, Written, Rows

LEMMA CodesAreCodes ==
  ASSUME NEW events, NEW group, NEW h
  PROVE  EventCodes(events) \subseteq Codes /\ ChainCodes(group, h) \subseteq Codes
  BY DEF EventCodes, ChainCodes, When, Codes

LEMMA InitInv == Init => IInv
<1> SUFFICES ASSUME Init PROVE IInv
  OBVIOUS
<1>1. Written = {} /\ Committed = {}
  BY DEF Init, Written, Committed
<1>2. TypeOK
  BY AuditAssumption DEF Init, TypeOK
<1>3. Chained
  BY <1>1 DEF Init, Chained, LocksHeld, HeadsPoint, EndsAreEnds, PrevWritten, NeverForks
<1> QED
  BY <1>2, <1>3 DEF IInv

\* A step that leaves the links, the owners, the heads and the locks alone leaves the
\* chains alone: keys and states are not part of them.
LEMMA LinksKeep ==
  ASSUME Chained, UNCHANGED <<head, tip, lock>>, Written' = Written,
         \A e \in Written : /\ row'[e].part = row[e].part
                            /\ row'[e].prev = row[e].prev
                            /\ row'[e].by = row[e].by,
         TypeOK
  PROVE  Chained'
<1>1. Committed' = Committed
  BY DEF Committed
<1>2. LocksHeld'
  BY DEF Chained, LocksHeld
<1>3. HeadsPoint'
  BY <1>1 DEF Chained, HeadsPoint, Committed
<1>4. EndsAreEnds'
  BY <1>1 DEF Chained, EndsAreEnds, Committed
<1>5. PrevWritten'
  BY DEF Chained, PrevWritten
<1>6. NeverForks'
  BY <1>1 DEF Chained, NeverForks, InPartition, Committed
<1> QED
  BY <1>2, <1>3, <1>4, <1>5, <1>6 DEF Chained

\* What a write does: one row more, of a transaction, at the tip of its partition.
NewRow(w, p) == [part |-> p, prev |-> tip[p], key |-> active, by |-> w, state |-> "kept"]

LEMMA WriteFacts ==
  ASSUME TypeOK, NEW w \in Writers, NEW p \in Partitions, NEW e \in Events, Write(w, p, e)
  PROVE  /\ NewRow(w, p) \in Rows
         /\ e \notin Written /\ w # Nobody /\ lock[p] \in {Nobody, w}
         /\ Written' = Written \cup {e}
         /\ row'[e] = NewRow(w, p)
         /\ \A f \in Written : row'[f] = row[f]
         /\ Committed' = Committed
         /\ head' = head
         /\ tip'[p] = e /\ \A q \in Partitions : q # p => tip'[q] = tip[q]
         /\ lock'[p] = w /\ \A q \in Partitions : q # p => lock'[q] = lock[q]
<1> DEFINE new == NewRow(w, p)
<1>1. new \in Rows /\ new # NoRow /\ new.by = w
  BY AuditAssumption DEF Write, TypeOK, Rows, NewRow
<1>2. row' = [row EXCEPT ![e] = new]
  BY DEF Write, NewRow
<1>3. e \notin Written /\ w # Nobody /\ lock[p] \in {Nobody, w}
  BY AuditAssumption DEF Write, Written, Free
<1> HIDE DEF new
<1>4. /\ Written' = Written \cup {e}
      /\ row'[e] = new
      /\ \A f \in Written : row'[f] = row[f]
  BY <1>1, <1>2, <1>3 DEF Written, TypeOK
<1>5. Committed' = Committed
  BY <1>1, <1>3, <1>4 DEF Committed
<1>6. /\ head' = head
      /\ tip'[p] = e /\ \A q \in Partitions : q # p => tip'[q] = tip[q]
      /\ lock'[p] = w /\ \A q \in Partitions : q # p => lock'[q] = lock[q]
  BY DEF Write, TypeOK
<1> QED
  BY <1>1, <1>3, <1>4, <1>5, <1>6 DEF new

LEMMA WriteInv ==
  ASSUME IInv, NEW w \in Writers, NEW p \in Partitions, NEW e \in Events, Write(w, p, e)
  PROVE  IInv'
<1> DEFINE new == NewRow(w, p)
<1> USE DEF IInv
<1>1. new \in Rows /\ new.part = p /\ new.prev = tip[p] /\ new.by = w
  BY WriteFacts DEF NewRow
<1>2. e \notin Written /\ w # Nobody /\ lock[p] \in {Nobody, w}
  BY WriteFacts
<1>3. TypeOK'
  BY <1>1 DEF Write, TypeOK, NewRow
<1>4. /\ Written' = Written \cup {e}
      /\ row'[e] = new
      /\ \A f \in Written : row'[f] = row[f]
  BY WriteFacts
<1>5. Committed' = Committed
  BY WriteFacts
<1>6. /\ head' = head
      /\ tip'[p] = e /\ \A q \in Partitions : q # p => tip'[q] = tip[q]
      /\ lock'[p] = w /\ \A q \in Partitions : q # p => lock'[q] = lock[q]
  BY WriteFacts
<1> HIDE DEF new
<1>7. LocksHeld'
  <2>1. \A q \in Partitions : lock'[q] = Nobody => tip'[q] = head'[q]
    BY <1>2, <1>6 DEF Chained, LocksHeld
  <2>2. ASSUME NEW f \in Written, row[f].by # Nobody PROVE lock'[row[f].part] = row[f].by
    BY <2>2, <1>2, <1>6, WrittenRow DEF Chained, LocksHeld
  <2>3. QED
    BY <2>1, <2>2, <1>1, <1>4, <1>6 DEF LocksHeld
<1>8. HeadsPoint'
  <2>1. ASSUME NEW q \in Partitions
        PROVE /\ head'[q] # Genesis => head'[q] \in Committed' /\ row'[head'[q]].part = q
              /\ tip'[q] # Genesis => tip'[q] \in Written' /\ row'[tip'[q]].part = q
    BY <1>1, <1>4, <1>5, <1>6 DEF Chained, HeadsPoint, Committed
  <2>2. QED
    BY <2>1 DEF HeadsPoint
<1>9. EndsAreEnds'
  <2>1. ASSUME NEW f \in Written PROVE row'[f].prev # tip'[row'[f].part]
    <3>1. row'[f] = row[f] /\ row[f].part \in Partitions
      BY <1>4, WrittenRow
    <3>2. CASE row[f].part = p
      <4>1. row[f].prev # e
        BY <1>2, AuditAssumption DEF Chained, PrevWritten
      <4>2. QED
        BY <3>1, <3>2, <4>1, <1>6
    <3>3. CASE row[f].part # p
      BY <3>1, <3>3, <1>6 DEF Chained, EndsAreEnds
    <3>4. QED
      BY <3>2, <3>3
  <2>2. row'[e].prev # tip'[row'[e].part]
    BY <1>1, <1>2, <1>4, <1>6, AuditAssumption DEF Chained, HeadsPoint
  <2>3. \A f \in Committed' : row'[f].prev # head'[row'[f].part]
    BY <1>4, <1>5, <1>6 DEF Chained, EndsAreEnds, Committed
  <2>4. QED
    BY <2>1, <2>2, <2>3, <1>4 DEF EndsAreEnds
<1>10. PrevWritten'
  <2>1. ASSUME NEW f \in Written
        PROVE \/ row'[f].prev = Genesis
              \/ row'[f].prev \in Written' /\ row'[row'[f].prev].part = row'[f].part
    BY <1>4 DEF Chained, PrevWritten
  <2>2. \/ row'[e].prev = Genesis
        \/ row'[e].prev \in Written' /\ row'[row'[e].prev].part = row'[e].part
    BY <1>1, <1>4 DEF Chained, HeadsPoint
  <2>3. QED
    BY <2>1, <2>2, <1>4 DEF PrevWritten
<1>11. NeverForks'
  <2>1. ASSUME NEW f \in Written, row[f].part = p PROVE row[f].prev # tip[p]
    BY <2>1 DEF Chained, EndsAreEnds
  <2>2. \A f, g \in Written' :
          row'[f].part = row'[g].part /\ row'[f].prev = row'[g].prev => f = g
    BY <2>1, <1>1, <1>4 DEF Chained, NeverForks
  <2>3. \A f \in Committed' : row'[f].prev = Genesis
                                \/ row'[f].prev \in InPartition(Committed, row[f].part)'
    BY <1>4, <1>5 DEF Chained, NeverForks, InPartition, Committed
  <2>4. QED
    BY <2>2, <2>3, <1>4, <1>5 DEF NeverForks, InPartition, Committed
<1> QED
  BY <1>3, <1>7, <1>8, <1>9, <1>10, <1>11 DEF Chained

\* What a commit does: the transaction's rows have no owner any more, and its heads move.
LEMMA CommitFacts ==
  ASSUME TypeOK, NEW w \in Writers, Commit(w)
  PROVE  /\ Nobody # w
         /\ \A e \in Written :
              /\ row'[e] \in Rows /\ row'[e] # NoRow
              /\ row'[e].part = row[e].part /\ row'[e].prev = row[e].prev
              /\ row'[e].key = row[e].key
              /\ row'[e].by = IF row[e].by = w THEN Nobody ELSE row[e].by
         /\ Written' = Written
         /\ Committed' = Committed \cup {e \in Written : row[e].by = w}
         /\ tip' = tip
         /\ \A p \in Partitions :
              /\ head'[p] = IF lock[p] = w THEN tip[p] ELSE head[p]
              /\ lock'[p] = IF lock[p] = w THEN Nobody ELSE lock[p]
<1>1. Nobody # w
  BY AuditAssumption
<1>2. ASSUME NEW e \in Written
      PROVE  /\ row'[e] \in Rows /\ row'[e] # NoRow
             /\ row'[e].part = row[e].part /\ row'[e].prev = row[e].prev
             /\ row'[e].key = row[e].key
             /\ row'[e].by = IF row[e].by = w THEN Nobody ELSE row[e].by
  BY AuditAssumption, WrittenRow DEF Commit, Written, Rows
<1>3. Written' = Written
  BY <1>2 DEF Commit, Written
<1>4. Committed' = Committed \cup {e \in Written : row[e].by = w}
  BY <1>1, <1>2, <1>3 DEF Committed
<1> QED
  BY <1>1, <1>2, <1>3, <1>4 DEF Commit

LEMMA CommitInv ==
  ASSUME IInv, NEW w \in Writers, Commit(w)
  PROVE  IInv'
<1> USE DEF IInv
<1>1. Nobody # w
  BY AuditAssumption
<1>2. ASSUME NEW e \in Written
      PROVE  /\ row'[e] \in Rows /\ row'[e] # NoRow
             /\ row'[e].part = row[e].part /\ row'[e].prev = row[e].prev
             /\ row'[e].by = IF row[e].by = w THEN Nobody ELSE row[e].by
  BY CommitFacts
<1>3. Written' = Written
  BY CommitFacts
<1>4. TypeOK'
  BY <1>2 DEF Commit, TypeOK, Written
<1>5. Committed' = Committed \cup {e \in Written : row[e].by = w}
  BY CommitFacts
<1>6. /\ tip' = tip
      /\ \A p \in Partitions :
           /\ head'[p] = IF lock[p] = w THEN tip[p] ELSE head[p]
           /\ lock'[p] = IF lock[p] = w THEN Nobody ELSE lock[p]
  BY CommitFacts
<1>7. \A e \in Written : row[e].by = w => lock[row[e].part] = w
  BY <1>1 DEF Chained, LocksHeld
<1>8. LocksHeld'
  <2>1. \A p \in Partitions : lock'[p] = Nobody => tip'[p] = head'[p]
    BY <1>6 DEF Chained, LocksHeld
  <2>2. ASSUME NEW e \in Written, row'[e].by # Nobody PROVE lock'[row'[e].part] = row'[e].by
    BY <2>2, <1>1, <1>2, <1>6, WrittenRow DEF Chained, LocksHeld
  <2>3. QED
    BY <2>1, <2>2, <1>3 DEF LocksHeld
<1>9. HeadsPoint'
  <2>1. ASSUME NEW p \in Partitions, tip[p] # Genesis
        PROVE tip[p] \in Written' /\ row'[tip[p]].part = p
    BY <2>1, <1>2, <1>3 DEF Chained, HeadsPoint
  <2>2. ASSUME NEW p \in Partitions, lock[p] = w, tip[p] # Genesis PROVE tip[p] \in Committed'
    <3>1. tip[p] \in Written /\ row[tip[p]].part = p
      BY <2>2 DEF Chained, HeadsPoint
    <3>2. row[tip[p]].by \in {Nobody, w}
      BY <3>1, <2>2 DEF Chained, LocksHeld
    <3>3. QED
      BY <3>1, <3>2, <1>5 DEF Committed
  <2>3. ASSUME NEW p \in Partitions, lock[p] # w, head[p] # Genesis
        PROVE head[p] \in Committed' /\ row'[head[p]].part = p
    BY <2>3, <1>2, <1>5 DEF Chained, HeadsPoint, Committed
  <2>4. QED
    BY <2>1, <2>2, <2>3, <1>6 DEF HeadsPoint
<1>10. EndsAreEnds'
  <2>1. \A e \in Written' : row'[e].prev # tip'[row'[e].part]
    BY <1>2, <1>3, <1>6 DEF Chained, EndsAreEnds
  <2>2. ASSUME NEW e \in Committed' PROVE row'[e].prev # head'[row'[e].part]
    <3>1. e \in Written /\ row[e].part \in Partitions
      BY <1>5, WrittenRow DEF Committed
    <3>2. CASE lock[row[e].part] = w
      BY <3>1, <3>2, <1>2, <1>6 DEF Chained, EndsAreEnds
    <3>3. CASE lock[row[e].part] # w
      BY <3>1, <3>3, <1>2, <1>5, <1>6, <1>7 DEF Chained, EndsAreEnds
    <3>4. QED
      BY <3>2, <3>3
  <2>3. QED
    BY <2>1, <2>2 DEF EndsAreEnds
<1>11. PrevWritten'
  BY <1>2, <1>3 DEF Chained, PrevWritten
<1>12. NeverForks'
  <2>1. \A f, g \in Written' :
          row'[f].part = row'[g].part /\ row'[f].prev = row'[g].prev => f = g
    BY <1>2, <1>3 DEF Chained, NeverForks
  <2>2. ASSUME NEW e \in Committed', row'[e].prev # Genesis
        PROVE row'[e].prev \in Committed' /\ row'[row'[e].prev].part = row'[e].part
    <3>1. e \in Written
      BY <1>5 DEF Committed
    <3>2. /\ row'[e].prev = row[e].prev
          /\ row[e].prev \in Written /\ row[row[e].prev].part = row[e].part
          /\ row'[row[e].prev].part = row'[e].part
      BY <2>2, <3>1, <1>2 DEF Chained, PrevWritten
    <3>3. CASE e \in Committed
      BY <3>2, <3>3, <2>2, <1>5 DEF Chained, NeverForks, InPartition
    <3>4. CASE row[e].by = w
      <4>1. row[row[e].prev].by \in {Nobody, w}
        BY <3>1, <3>2, <3>4, <1>7 DEF Chained, LocksHeld
      <4>2. QED
        BY <4>1, <3>2, <1>5 DEF Committed
    <3>5. QED
      BY <3>3, <3>4, <1>5
  <2>3. QED
    BY <2>1, <2>2 DEF NeverForks, InPartition
<1> QED
  BY <1>4, <1>8, <1>9, <1>10, <1>11, <1>12 DEF Chained

\* What a rollback does: the transaction's rows are gone, and its tips are the heads.
LEMMA RollbackFacts ==
  ASSUME TypeOK, NEW w \in Writers, Rollback(w)
  PROVE  /\ Nobody # w
         /\ Written' = {e \in Written : row[e].by # w}
         /\ \A e \in Written' : row'[e] = row[e]
         /\ Committed' = Committed
         /\ head' = head
         /\ \A p \in Partitions :
              /\ tip'[p] = IF lock[p] = w THEN head[p] ELSE tip[p]
              /\ lock'[p] = IF lock[p] = w THEN Nobody ELSE lock[p]
<1>1. Nobody # w
  BY AuditAssumption
<1>2. /\ Written' = {e \in Written : row[e].by # w}
      /\ \A e \in Written' : row'[e] = row[e]
  BY DEF Rollback, Written
<1>3. Committed' = Committed
  BY <1>1, <1>2 DEF Committed
<1> QED
  BY <1>1, <1>2, <1>3 DEF Rollback, TipBefore

LEMMA RollbackInv ==
  ASSUME IInv, NEW w \in Writers, Rollback(w)
  PROVE  IInv'
<1> USE DEF IInv
<1>1. Nobody # w
  BY AuditAssumption
<1>2. /\ Written' = {e \in Written : row[e].by # w}
      /\ \A e \in Written' : row'[e] = row[e]
  BY RollbackFacts
<1>3. TypeOK'
  BY DEF Rollback, TypeOK, TipBefore
<1>4. Committed' = Committed
  BY RollbackFacts
<1>5. /\ head' = head
      /\ \A p \in Partitions :
           /\ tip'[p] = IF lock[p] = w THEN head[p] ELSE tip[p]
           /\ lock'[p] = IF lock[p] = w THEN Nobody ELSE lock[p]
  BY RollbackFacts
<1>6. ASSUME NEW e \in Written'
      PROVE  /\ e \in Written /\ row[e].part \in Partitions
             /\ lock[row[e].part] = w => e \in Committed
  BY <1>2, WrittenRow DEF Chained, LocksHeld, Committed
<1>7. ASSUME NEW e \in Written, row[e].by = w PROVE lock[row[e].part] = w
  BY <1>1, <1>7 DEF Chained, LocksHeld
<1>8. LocksHeld'
  <2>1. \A p \in Partitions : lock'[p] = Nobody => tip'[p] = head'[p]
    BY <1>5 DEF Chained, LocksHeld
  <2>2. ASSUME NEW e \in Written', row'[e].by # Nobody PROVE lock'[row'[e].part] = row'[e].by
    BY <2>2, <1>2, <1>5, <1>6 DEF Chained, LocksHeld
  <2>3. QED
    BY <2>1, <2>2 DEF LocksHeld
<1>9. HeadsPoint'
  <2>1. ASSUME NEW p \in Partitions, head[p] # Genesis
        PROVE head[p] \in Committed' /\ head[p] \in Written' /\ row'[head[p]].part = p
    BY <2>1, <1>1, <1>2, <1>4 DEF Chained, HeadsPoint, Committed
  <2>2. ASSUME NEW p \in Partitions, lock[p] # w, tip[p] # Genesis
        PROVE tip[p] \in Written' /\ row'[tip[p]].part = p
    BY <2>2, <1>2, <1>7 DEF Chained, HeadsPoint
  <2>3. QED
    BY <2>1, <2>2, <1>5 DEF HeadsPoint
<1>10. EndsAreEnds'
  <2>1. ASSUME NEW e \in Written' PROVE row'[e].prev # tip'[row'[e].part]
    BY <1>2, <1>5, <1>6 DEF Chained, EndsAreEnds
  <2>2. \A e \in Committed' : row'[e].prev # head'[row'[e].part]
    BY <1>1, <1>2, <1>4, <1>5 DEF Chained, EndsAreEnds, Committed
  <2>3. QED
    BY <2>1, <2>2 DEF EndsAreEnds
<1>11. \A e \in Committed : e \in Written' /\ row'[e] = row[e]
  BY <1>1, <1>2 DEF Committed
<1>12. PrevWritten'
  <2>1. ASSUME NEW e \in Written', row'[e].prev # Genesis
        PROVE row'[e].prev \in Written' /\ row'[row'[e].prev].part = row'[e].part
    <3>1. /\ row'[e] = row[e]
          /\ row[e].prev \in Written /\ row[row[e].prev].part = row[e].part
      BY <2>1, <1>2 DEF Chained, PrevWritten
    <3>2. row[row[e].prev].by # w
      <4>1. CASE e \in Committed
        BY <4>1, <3>1, <2>1, <1>1 DEF Chained, NeverForks, InPartition, Committed
      <4>2. CASE e \notin Committed
        BY <4>2, <3>1, <1>6, <1>7
      <4>3. QED
        BY <4>1, <4>2
    <3>3. QED
      BY <3>1, <3>2, <1>2
  <2>2. QED
    BY <2>1 DEF PrevWritten
<1>13. NeverForks'
  BY <1>2, <1>4, <1>11 DEF Chained, NeverForks, InPartition
<1> QED
  BY <1>3, <1>8, <1>9, <1>10, <1>12, <1>13 DEF Chained

LEMMA OtherInv ==
  ASSUME IInv,
         \/ \E k \in Keys : Rotate(k)
         \/ \E e \in Events, state \in {"lost", "altered"} : Damage(e, state)
         \/ BeginVerify
         \/ \E p \in Partitions : VerifyPartition(p)
         \/ UNCHANGED vars
  PROVE  IInv'
<1> USE DEF IInv
<1>1. ASSUME NEW k \in Keys, Rotate(k) PROVE IInv'
  <2>1. TypeOK'
    BY <1>1 DEF Rotate, RingWith, TypeOK
  <2>2. Chained'
    BY <1>1, LinksKeep DEF Rotate, Written
  <2>3. QED
    BY <2>1, <2>2
<1>2. ASSUME NEW e \in Events, NEW state \in {"lost", "altered"}, Damage(e, state) PROVE IInv'
  <2>1. e \in Written /\ row[e] \in Rows
    BY <1>2, WrittenRow DEF Damage, Committed
  <2>2. /\ row' = [row EXCEPT ![e] = [row[e] EXCEPT !.state = state]]
        /\ [row[e] EXCEPT !.state = state] \in Rows
    BY <1>2, <2>1 DEF Damage, Rows
  <2>3. TypeOK'
    BY <1>2, <2>2 DEF Damage, TypeOK
  <2>4. Written' = Written
    BY <2>1, <2>2, AuditAssumption DEF Written, TypeOK
  <2>5. \A f \in Written : /\ row'[f].part = row[f].part
                           /\ row'[f].prev = row[f].prev
                           /\ row'[f].by = row[f].by
    BY <2>1, <2>2 DEF Rows, TypeOK, Written
  <2>6. Chained'
    BY <1>2, <2>4, <2>5, LinksKeep DEF Damage
  <2>7. QED
    BY <2>3, <2>6
<1>3. CASE BeginVerify
  <2>1. /\ Kept \subseteq Events
        /\ {row[e].part : e \in Kept} \subseteq Partitions
        /\ Harmed \subseteq Partitions
    BY WrittenRow DEF Kept, Committed, Written, Harmed
  <2>2. TypeOK'
    BY <1>3, <2>1, CodesAreCodes DEF BeginVerify, TypeOK
  <2>3. Chained'
    BY <1>3, LinksKeep DEF BeginVerify, Written
  <2>4. QED
    BY <2>2, <2>3
<1>4. ASSUME NEW p \in Partitions, VerifyPartition(p) PROVE IInv'
  <2>1. TypeOK'
    BY <1>4, CodesAreCodes DEF VerifyPartition, TypeOK
  <2>2. Chained'
    BY <1>4, LinksKeep DEF VerifyPartition, Written
  <2>3. QED
    BY <2>1, <2>2
<1>5. CASE UNCHANGED vars
  <2>1. TypeOK'
    BY <1>5 DEF vars, TypeOK
  <2>2. Chained'
    BY <1>5, LinksKeep DEF vars, Written
  <2>3. QED
    BY <2>1, <2>2
<1> QED
  BY <1>1, <1>2, <1>3, <1>4, <1>5

LEMMA StepInv == IInv /\ [Next]_vars => IInv'
  BY WriteInv, CommitInv, RollbackInv, OtherInv DEF Next

\* The state of the trail has its type.
THEOREM TypeCorrect == Spec => []TypeOK
<1>1. IInv => TypeOK
  BY DEF IInv
<1> QED
  BY <1>1, InitInv, StepInv, PTL DEF Spec

\* For any number of transactions, partitions and events, no two events of a partition
\* follow the same one and committed events follow committed events: the chain that the
\* verifier walks is one chain (write_event under the head's lock).
THEOREM ChainsNeverFork == Spec => []NeverForks
<1>1. IInv => NeverForks
  BY DEF IInv, Chained
<1> QED
  BY <1>1, InitInv, StepInv, PTL DEF Spec

-----------------------------------------------------------------------------
(* One line of events in each partition, of which the verifier sees a part *)
(* and the log is the committed part.                                      *)

\* A set of numbers that is not empty has a least one.
LEMMA LeastNumber ==
  ASSUME NEW T \in SUBSET Nat, T # {}
  PROVE  \E m \in T : \A k \in T : m <= k
<1> DEFINE Upto == {0..k : k \in T}
           R == StrictSubsetOrdering(Nat)
<1>1. Upto \subseteq FiniteSubsetsOf(Nat)
  <2>1. \A k \in Nat : 0..k \subseteq Nat /\ IsFiniteSet(0..k)
    BY FS_Interval
  <2> QED
    BY <2>1 DEF FiniteSubsetsOf
<1>2. Upto # {}
  OBVIOUS
<1>3. PICK x \in Upto : \A y \in Upto : <<y, x>> \notin R
  <2> HIDE DEF Upto, R
  <2>1. IsWellFoundedOn(R, FiniteSubsetsOf(Nat))
    BY FS_StrictSubsetOrderingWellFounded DEF R
  <2> QED
    BY <1>1, <1>2, <2>1, WFMin
<1>4. PICK m \in T : x = 0..m
  OBVIOUS
<1>5. ASSUME NEW k \in T, k < m PROVE FALSE
  <2>1. 0..k \subseteq Nat /\ 0..m \subseteq Nat /\ 0..k \subseteq 0..m /\ m \in 0..m /\ m \notin 0..k
    BY <1>5
  <2>2. <<0..k, 0..m>> \in R
    BY <2>1 DEF StrictSubsetOrdering
  <2> QED
    BY <1>3, <1>4, <2>2
<1> QED
  BY <1>5

\* A set that holds m and, with a number, the one before it holds all from 1 to m.
LEMMA DownToOne ==
  ASSUME NEW m \in Nat, NEW T, m \in T, \A i \in 2..m : i \in T => i - 1 \in T
  PROVE  1..m \subseteq T
<1> SUFFICES ASSUME NEW i \in 1..m, i \notin T PROVE FALSE
  OBVIOUS
<1> DEFINE D == {k \in Nat : m - k \in 1..m /\ m - k \notin T}
<1>1. m - i \in D
  OBVIOUS
<1>2. PICK k \in D : \A j \in D : k <= j
  BY <1>1, LeastNumber
<1>3. k # 0 /\ m - (k - 1) \in 2..m /\ m - (k - 1) \notin T
  BY <1>2
<1>4. k - 1 \in D
  BY <1>3
<1> QED
  BY <1>2, <1>4

\* s lists the n events of p in the order of their links; the first m are committed.
Line(p, s, m, n) ==
  /\ m \in Nat /\ n \in Nat /\ m <= n
  /\ InPartition(Written, p) = {s[i] : i \in 1..n}
  /\ InPartition(Committed, p) = {s[i] : i \in 1..m}
  /\ \A i, j \in 1..n : s[i] = s[j] => i = j
  /\ \A i \in 1..n : row[s[i]].prev = IF i = 1 THEN Genesis ELSE s[i - 1]
  /\ head[p] = IF m = 0 THEN Genesis ELSE s[m]
  /\ tip[p] = IF n = 0 THEN Genesis ELSE s[n]

Lined == \A p \in Partitions : \E s, m, n : Line(p, s, m, n)

\* The line of a partition that a step does not touch.
LEMMA LineKeeps ==
  ASSUME NEW p \in Partitions, NEW s, NEW m, NEW n, Line(p, s, m, n),
         InPartition(Written, p)' = InPartition(Written, p),
         InPartition(Committed, p)' = InPartition(Committed, p),
         \A e \in InPartition(Written, p) : row'[e].prev = row[e].prev,
         head'[p] = head[p], tip'[p] = tip[p]
  PROVE  Line(p, s, m, n)'
<1>1. \A i \in 1..n : row'[s[i]].prev = row[s[i]].prev
  BY DEF Line
<1> QED
  BY <1>1 DEF Line

\* A step only makes the line longer, or cuts off what was never committed.
Grows(p, s, m) ==
  \E t, i, j : Line(p, t, i, j)' /\ m <= i /\ \A k \in 1..m : t[k] = s[k]

LEMMA GrowsTo ==
  ASSUME NEW p, NEW s, NEW m, NEW t, NEW i, NEW j,
         Line(p, t, i, j)', m <= i, \A k \in 1..m : t[k] = s[k]
  PROVE  Grows(p, s, m)
  BY DEF Grows

LEMMA LineLengths ==
  ASSUME NEW p, NEW s, NEW m, NEW n, Line(p, s, m, n)
  PROVE  m \in Nat /\ n \in Nat /\ m <= n /\ m <= m
  BY DEF Line

LEMMA WriteLine ==
  ASSUME IInv, NEW w \in Writers, NEW q \in Partitions, NEW e \in Events, Write(w, q, e),
         NEW p \in Partitions, NEW s, NEW m, NEW n, Line(p, s, m, n)
  PROVE  Grows(p, s, m)
<1>1. /\ e \notin Written
      /\ Written' = Written \cup {e} /\ Committed' = Committed
      /\ row'[e].part = q /\ row'[e].prev = tip[q]
      /\ \A f \in Written : row'[f] = row[f]
      /\ head' = head
      /\ tip'[q] = e /\ \A r \in Partitions : r # q => tip'[r] = tip[r]
  <2>1. NewRow(w, q).part = q /\ NewRow(w, q).prev = tip[q]
    BY DEF NewRow
  <2> QED
    BY <2>1, WriteFacts DEF IInv
<1>2. InPartition(Committed, p)' = InPartition(Committed, p)
  BY <1>1 DEF InPartition, Committed
<1>3. CASE p # q
  <2>1. InPartition(Written, p)' = InPartition(Written, p)
    BY <1>1, <1>3 DEF InPartition
  <2>2. Line(p, s, m, n)'
    BY <1>1, <1>2, <1>3, <2>1, LineKeeps DEF InPartition
  <2> QED
    BY <2>2, LineLengths, GrowsTo
<1>4. CASE p = q
  <2> DEFINE t == [i \in 1..(n + 1) |-> IF i = n + 1 THEN e ELSE s[i]]
  <2>1. /\ m \in Nat /\ n \in Nat /\ m <= n /\ n + 1 \in Nat
        /\ t[n + 1] = e /\ \A i \in 1..n : t[i] = s[i]
    BY DEF Line
  <2>2. \A i \in 1..n : s[i] \in Written
    BY DEF Line, InPartition
  <2>3. InPartition(Written, p)' = InPartition(Written, p) \cup {e}
    BY <1>1, <1>4 DEF InPartition
  <2> HIDE DEF t
  <2>4. {t[i] : i \in 1..(n + 1)} = {s[i] : i \in 1..n} \cup {e}
    BY <2>1
  <2>5. {t[i] : i \in 1..m} = {s[i] : i \in 1..m}
    BY <2>1
  <2>6. \A i, j \in 1..(n + 1) : t[i] = t[j] => i = j
    <3>1. \A i \in 1..n : t[i] # e
      BY <1>1, <2>1, <2>2
    <3>2. \A i, j \in 1..n : t[i] = t[j] => i = j
      BY <2>1 DEF Line
    <3> QED
      BY <2>1, <3>1, <3>2
  <2>7. ASSUME NEW i \in 1..(n + 1)
        PROVE  row'[t[i]].prev = IF i = 1 THEN Genesis ELSE t[i - 1]
    <3>1. CASE i = n + 1
      <4>1. row'[t[i]].prev = IF n = 0 THEN Genesis ELSE s[n]
        BY <1>1, <1>4, <2>1, <3>1 DEF Line
      <4> QED
        BY <2>1, <3>1, <4>1
    <3>2. CASE i \in 1..n
      <4>1. row'[t[i]].prev = IF i = 1 THEN Genesis ELSE s[i - 1]
        BY <1>1, <2>1, <2>2, <3>2 DEF Line
      <4> QED
        BY <2>1, <3>2, <4>1
    <3> QED
      BY <2>1, <3>1, <3>2
  <2>8. head'[p] = IF m = 0 THEN Genesis ELSE t[m]
    BY <1>1, <2>1 DEF Line
  <2>9. tip'[p] = t[n + 1] /\ n + 1 # 0
    BY <1>1, <1>4, <2>1
  <2>10. Line(p, t, m, n + 1)'
    BY <1>2, <2>1, <2>3, <2>4, <2>5, <2>6, <2>7, <2>8, <2>9 DEF Line
  <2> QED
    BY <2>1, <2>10, LineLengths, GrowsTo
<1> QED
  BY <1>3, <1>4

LEMMA CommitLine ==
  ASSUME IInv, NEW w \in Writers, Commit(w),
         NEW p \in Partitions, NEW s, NEW m, NEW n, Line(p, s, m, n)
  PROVE  Grows(p, s, m)
<1>1. /\ Nobody # w
      /\ \A e \in Written : row'[e].part = row[e].part /\ row'[e].prev = row[e].prev
      /\ Written' = Written
      /\ Committed' = Committed \cup {e \in Written : row[e].by = w}
      /\ tip' = tip
      /\ head'[p] = IF lock[p] = w THEN tip[p] ELSE head[p]
  BY CommitFacts DEF IInv
<1>2. InPartition(Written, p)' = InPartition(Written, p)
  BY <1>1 DEF InPartition
<1>3. \A e \in InPartition(Written, p) : row'[e].prev = row[e].prev
  BY <1>1 DEF InPartition
<1>4. \A e \in Written : row[e].by # Nobody => lock[row[e].part] = row[e].by
  BY DEF IInv, Chained, LocksHeld
<1>5. CASE lock[p] # w
  <2>1. InPartition(Committed, p)' = InPartition(Committed, p)
    BY <1>1, <1>4, <1>5 DEF InPartition, Committed
  <2>2. Line(p, s, m, n)'
    BY <1>1, <1>2, <1>3, <1>5, <2>1, LineKeeps
  <2> QED
    BY <2>2, LineLengths, GrowsTo
<1>6. CASE lock[p] = w
  <2>1. InPartition(Committed, p)' = InPartition(Written, p)
    BY <1>1, <1>4, <1>6 DEF InPartition, Committed
  <2>2. \A i \in 1..n : row'[s[i]].prev = row[s[i]].prev
    BY <1>3 DEF Line
  <2>3. Line(p, s, n, n)'
    BY <1>1, <1>2, <1>6, <2>1, <2>2 DEF Line
  <2> QED
    BY <2>3, LineLengths, GrowsTo
<1> QED
  BY <1>5, <1>6

LEMMA RollbackLine ==
  ASSUME IInv, NEW w \in Writers, Rollback(w),
         NEW p \in Partitions, NEW s, NEW m, NEW n, Line(p, s, m, n)
  PROVE  Grows(p, s, m)
<1>1. /\ Nobody # w
      /\ Written' = {e \in Written : row[e].by # w}
      /\ \A e \in Written' : row'[e] = row[e]
      /\ Committed' = Committed
      /\ head' = head
      /\ tip'[p] = IF lock[p] = w THEN head[p] ELSE tip[p]
  BY RollbackFacts DEF IInv
<1>2. \A e \in Committed : e \in Written' /\ row'[e] = row[e]
  BY <1>1 DEF Committed
<1>3. InPartition(Committed, p)' = InPartition(Committed, p)
  BY <1>1, <1>2 DEF InPartition
<1>4. \A e \in Written : row[e].by # Nobody => lock[row[e].part] = row[e].by
  BY DEF IInv, Chained, LocksHeld
<1>5. CASE lock[p] # w
  <2>1. \A e \in InPartition(Written, p) : e \in Written' /\ row'[e] = row[e]
    BY <1>1, <1>4, <1>5 DEF InPartition
  <2>2. InPartition(Written, p)' = InPartition(Written, p)
    BY <1>1, <2>1 DEF InPartition
  <2>3. Line(p, s, m, n)'
    BY <1>1, <1>3, <1>5, <2>1, <2>2, LineKeeps
  <2> QED
    BY <2>3, LineLengths, GrowsTo
<1>6. CASE lock[p] = w
  <2>1. InPartition(Written, p)' = InPartition(Committed, p)
    BY <1>1, <1>2, <1>4, <1>6 DEF InPartition, Committed
  <2>2. \A i \in 1..m : row'[s[i]].prev = row[s[i]].prev
    BY <1>2 DEF Line, InPartition
  <2>3. m \in Nat /\ n \in Nat /\ \A i \in 1..m : i \in 1..n
    BY DEF Line
  <2>4. Line(p, s, m, m)'
    BY <1>1, <1>3, <1>6, <2>1, <2>2, <2>3 DEF Line
  <2> QED
    BY <2>4, LineLengths, GrowsTo
<1> QED
  BY <1>5, <1>6

\* What leaves the links, the owners and the heads alone.
LEMMA OtherFacts ==
  ASSUME TypeOK,
         \/ \E k \in Keys : Rotate(k)
         \/ \E e \in Events, state \in {"lost", "altered"} : Damage(e, state)
         \/ BeginVerify
         \/ \E p \in Partitions : VerifyPartition(p)
         \/ UNCHANGED vars
  PROVE  /\ Written' = Written /\ Committed' = Committed
         /\ \A e \in Written : /\ row'[e].part = row[e].part /\ row'[e].prev = row[e].prev
                               /\ row'[e].key = row[e].key /\ row'[e].by = row[e].by
         /\ UNCHANGED <<head, tip, lock>>
<1>1. ASSUME NEW e \in Events, NEW state \in {"lost", "altered"}, Damage(e, state)
      PROVE  /\ Written' = Written
             /\ \A f \in Written : /\ row'[f].part = row[f].part /\ row'[f].prev = row[f].prev
                                   /\ row'[f].key = row[f].key /\ row'[f].by = row[f].by
  <2> DEFINE new == [row[e] EXCEPT !.state = state]
  <2>1. e \in Written /\ row[e] \in Rows
    BY <1>1, WrittenRow DEF Damage, Committed
  <2>2. /\ row' = [row EXCEPT ![e] = new] /\ new \in Rows
        /\ new.part = row[e].part /\ new.prev = row[e].prev
        /\ new.key = row[e].key /\ new.by = row[e].by
    BY <1>1, <2>1 DEF Damage, Rows
  <2> HIDE DEF new
  <2>3. Written' = Written
    BY <2>1, <2>2, AuditAssumption DEF Written, TypeOK
  <2> QED
    BY <2>1, <2>2, <2>3 DEF TypeOK, Written
<1>2. /\ Written' = Written
      /\ \A e \in Written : /\ row'[e].part = row[e].part /\ row'[e].prev = row[e].prev
                            /\ row'[e].key = row[e].key /\ row'[e].by = row[e].by
  BY <1>1 DEF Rotate, BeginVerify, VerifyPartition, vars, Written
<1>3. Committed' = Committed
  BY <1>2 DEF Committed
<1> QED
  BY <1>2, <1>3 DEF Rotate, Damage, BeginVerify, VerifyPartition, vars

LEMMA StepLine ==
  ASSUME IInv, [Next]_vars, NEW p \in Partitions, NEW s, NEW m, NEW n, Line(p, s, m, n)
  PROVE  Grows(p, s, m)
<1>1. ASSUME \/ \E k \in Keys : Rotate(k)
             \/ \E e \in Events, state \in {"lost", "altered"} : Damage(e, state)
             \/ BeginVerify
             \/ \E q \in Partitions : VerifyPartition(q)
             \/ UNCHANGED vars
      PROVE  Grows(p, s, m)
  <2>1. /\ Written' = Written /\ Committed' = Committed
        /\ \A e \in Written : row'[e].part = row[e].part /\ row'[e].prev = row[e].prev
        /\ head' = head /\ tip' = tip
    BY <1>1, OtherFacts DEF IInv
  <2>2. /\ InPartition(Written, p)' = InPartition(Written, p)
        /\ InPartition(Committed, p)' = InPartition(Committed, p)
        /\ \A e \in InPartition(Written, p) : row'[e].prev = row[e].prev
    BY <2>1 DEF InPartition, Committed
  <2>3. Line(p, s, m, n)'
    BY <2>1, <2>2, LineKeeps
  <2> QED
    BY <2>3, LineLengths, GrowsTo
<1>2. ASSUME NEW w \in Writers, NEW q \in Partitions, NEW e \in Events, Write(w, q, e)
      PROVE  Grows(p, s, m)
  BY <1>2, WriteLine
<1>3. ASSUME NEW w \in Writers, Commit(w) PROVE Grows(p, s, m)
  BY <1>3, CommitLine
<1>4. ASSUME NEW w \in Writers, Rollback(w) PROVE Grows(p, s, m)
  BY <1>4, RollbackLine
<1> QED
  BY <1>1, <1>2, <1>3, <1>4 DEF Next

\* Walking back from the k-th event meets the first k, whatever else is in the group.
LEMMA WalkMeets ==
  ASSUME NEW p, NEW s, NEW m, NEW n, Line(p, s, m, n), NEW k \in 1..m,
         NEW group \in SUBSET Events, \A i \in 1..k : s[i] \in group
  PROVE  Walk(group, s[k]) = {s[i] : i \in 1..k}
<1> DEFINE first == {s[i] : i \in 1..k}
<1>1. /\ m \in Nat /\ n \in Nat /\ m <= n /\ k \in Nat
      /\ \A i \in 1..k : row[s[i]].prev = IF i = 1 THEN Genesis ELSE s[i - 1]
  BY DEF Line
<1>2. ASSUME NEW S \in SUBSET group, s[k] \in S, WalksBack(S, group), NEW i \in 1..k
      PROVE  s[i] \in S
  <2> DEFINE T == {j \in 1..k : s[j] \in S}
  <2>1. ASSUME NEW j \in 2..k, j \in T PROVE j - 1 \in T
    <3>1. row[s[j]].prev = s[j - 1] /\ j - 1 \in 1..k
      BY <1>1, <2>1
    <3> QED
      BY <1>2, <2>1, <3>1 DEF WalksBack
  <2>2. k \in T
    BY <1>1, <1>2
  <2> HIDE DEF T
  <2>3. 1..k \subseteq T
    BY <1>1, <2>1, <2>2, DownToOne
  <2> QED
    BY <1>2, <2>3 DEF T
<1>3. first \subseteq group /\ s[k] \in first
  BY <1>1
<1>4. WalksBack(first, group)
  <2> SUFFICES ASSUME NEW i \in 1..k, row[s[i]].prev \in group PROVE row[s[i]].prev \in first
    BY DEF WalksBack
  <2>1. i # 1
    BY <1>1, AuditAssumption
  <2> QED
    BY <1>1, <2>1
<1>5. Walk(group, s[k]) \subseteq first
  BY <1>3, <1>4 DEF Walk
<1>6. first \subseteq Walk(group, s[k])
  <2> SUFFICES ASSUME NEW i \in 1..k PROVE s[i] \in Walk(group, s[k])
    OBVIOUS
  <2> QED
    BY <1>2 DEF Walk
<1> QED
  BY <1>5, <1>6

\* What the verifier asks of one partition's events and its head, when it finds no fault.
Sound(group, h) ==
  /\ \E e \in group : {f \in group : row[f].prev = Genesis} = {e}
  /\ {e \in group : \A f \in group : row[f].prev # e} = {h}
  /\ h \in group
  /\ Walk(group, h) = group
  /\ \A e \in group : row[e].prev \in group \cup {Genesis}

LEMMA SoundIsSilent ==
  ASSUME NEW group \in SUBSET Events, NEW h, Sound(group, h)
  PROVE  ChainCodes(group, h) = {}
<1>1. Cardinality({e \in group : row[e].prev = Genesis}) = 1
  BY FS_Singleton DEF Sound
<1>2. Cardinality({e \in group : \A f \in group : row[f].prev # e}) = 1
  BY FS_Singleton DEF Sound
<1>3. PICK g \in group : row[g].prev = Genesis
  BY DEF Sound
<1>4. h # Genesis /\ Genesis \notin group
  BY AuditAssumption DEF Sound
<1>5. (CHOOSE e \in {e \in group : \A f \in group : row[f].prev # e} : TRUE) = h
  BY DEF Sound
<1> QED
  BY <1>1, <1>2, <1>3, <1>4, <1>5 DEF ChainCodes, When, Sound

LEMMA SilentIsClosed ==
  ASSUME NEW group \in SUBSET Events, NEW h \in Events \cup {Genesis},
         ChainCodes(group, h) = {}
  PROVE  h \in group /\ \A e \in group : row[e].prev \in group \cup {Genesis}
<1> DEFINE tails == {e \in group : \A f \in group : row[f].prev # e}
           tail == CHOOSE e \in tails : TRUE
           start == IF h = Genesis THEN tail ELSE h
           met == Walk(group, start)
<1>1. Cardinality(tails) = 1
  BY DEF ChainCodes, When
<1>2. IsFiniteSet(tails)
  BY AuditAssumption, FS_Subset
<1>3. \E x : tails = {x}
  <2> HIDE DEF tails
  <2> QED
    BY <1>1, <1>2, FS_Singleton
<1>4. tail \in group
  BY <1>3
<1>5. h = tail
  BY <1>1 DEF ChainCodes, When
<1>6. start = h /\ h \in group
  BY <1>4, <1>5
<1>7. /\ ~ \E e \in met : row[e].prev \notin group \cup {Genesis}
      /\ met = group
  BY <1>1, <1>6 DEF ChainCodes, When
<1> QED
  BY <1>6, <1>7

\* Every event was signed with a key of the ring.
KeysKnown == \A e \in Written : row[e].key \in ring

\* What the verifier saw was committed, and as long as it has no fault to report of a
\* harmed partition it has that partition still before it, with an event it never saw.
VerifierLags ==
  /\ verifier.seen \subseteq Committed
  /\ \A p \in verifier.harmed :
       \/ InPartition(verifier.seen, p) = {}
       \/ verifier.codes # {}
       \/ p \in verifier.left /\ \E x \in InPartition(Committed, p) : x \notin verifier.seen

TrailInv == IInv /\ Lined /\ KeysKnown /\ VerifierLags

LEMMA TrailInit == Init => TrailInv
<1> SUFFICES ASSUME Init PROVE TrailInv
  OBVIOUS
<1>1. Written = {} /\ Committed = {}
  BY DEF Init, Written, Committed
<1>2. ASSUME NEW p \in Partitions PROVE Line(p, <<>>, 0, 0)
  BY <1>1, <1>2 DEF Init, Line, InPartition
<1> QED
  BY <1>1, <1>2, InitInv DEF Init, TrailInv, Lined, KeysKnown, VerifierLags

LEMMA LinedStep == IInv /\ Lined /\ [Next]_vars => Lined'
  BY StepLine DEF Lined, Grows

LEMMA KeysStep == IInv /\ KeysKnown /\ [Next]_vars => KeysKnown'
<1> SUFFICES ASSUME IInv, KeysKnown, [Next]_vars PROVE KeysKnown'
  OBVIOUS
<1>1. ASSUME NEW w \in Writers, NEW p \in Partitions, NEW e \in Events, Write(w, p, e)
      PROVE  KeysKnown'
  <2>1. NewRow(w, p).key \in ring /\ ring' = ring
    BY <1>1 DEF NewRow, Write, IInv, TypeOK
  <2> QED
    BY <1>1, <2>1, WriteFacts DEF IInv, KeysKnown
<1>2. ASSUME NEW w \in Writers, Commit(w) PROVE KeysKnown'
  <2>1. ring' = ring
    BY <1>2 DEF Commit
  <2> QED
    BY <1>2, <2>1, CommitFacts DEF IInv, KeysKnown
<1>3. ASSUME NEW w \in Writers, Rollback(w) PROVE KeysKnown'
  BY <1>3, RollbackFacts DEF Rollback, IInv, KeysKnown
<1>4. CASE \/ \E k \in Keys : Rotate(k)
           \/ \E e \in Events, state \in {"lost", "altered"} : Damage(e, state)
           \/ BeginVerify
           \/ \E p \in Partitions : VerifyPartition(p)
           \/ UNCHANGED vars
  <2>1. ring \subseteq ring'
    BY <1>4 DEF Rotate, RingWith, Damage, BeginVerify, VerifyPartition, vars
  <2> QED
    BY <1>4, <2>1, OtherFacts DEF IInv, KeysKnown
<1> QED
  BY <1>1, <1>2, <1>3, <1>4 DEF Next

\* What is committed stays so, in its partition.
LEMMA CommittedStays ==
  ASSUME IInv, [Next]_vars
  PROVE  \A e \in Committed : e \in Committed' /\ row'[e].part = row[e].part
<1> USE DEF IInv
<1>1. ASSUME NEW w \in Writers, NEW p \in Partitions, NEW e \in Events, Write(w, p, e)
      PROVE  \A f \in Committed : f \in Committed' /\ row'[f].part = row[f].part
  BY <1>1, WriteFacts DEF Committed
<1>2. ASSUME NEW w \in Writers, Commit(w)
      PROVE  \A f \in Committed : f \in Committed' /\ row'[f].part = row[f].part
  BY <1>2, CommitFacts DEF Committed
<1>3. ASSUME NEW w \in Writers, Rollback(w)
      PROVE  \A f \in Committed : f \in Committed' /\ row'[f].part = row[f].part
  BY <1>3, RollbackFacts DEF Committed
<1>4. CASE \/ \E k \in Keys : Rotate(k)
           \/ \E e \in Events, state \in {"lost", "altered"} : Damage(e, state)
           \/ BeginVerify
           \/ \E p \in Partitions : VerifyPartition(p)
           \/ UNCHANGED vars
  BY <1>4, OtherFacts DEF Committed
<1> QED
  BY <1>1, <1>2, <1>3, <1>4 DEF Next

LEMMA BeginLags ==
  ASSUME IInv, BeginVerify
  PROVE  VerifierLags'
<1>1. /\ Committed' = Committed
      /\ row' = row
      /\ verifier'.seen = Kept /\ verifier'.codes = EventCodes(Kept)
      /\ verifier'.left = {row[e].part : e \in Kept} /\ verifier'.harmed = Harmed
  BY DEF BeginVerify, Committed, Written
<1>2. ASSUME NEW p \in Harmed, InPartition(Kept, p) # {}, EventCodes(Kept) = {}
      PROVE  /\ p \in {row[e].part : e \in Kept}
             /\ \E x \in InPartition(Committed, p) : x \notin Kept
  <2>1. PICK x \in Committed : row[x].state # "kept" /\ row[x].part = p
    BY <1>2 DEF Harmed
  <2>2. x \notin Kept
    <3>1. x \in Kept => Matches(x)
      BY <1>2 DEF EventCodes, When
    <3>2. row[x] \in Rows
      BY WrittenRow DEF IInv, Committed
    <3> QED
      BY <2>1, <3>1, <3>2 DEF Matches, Kept, Rows
  <2> QED
    BY <1>2, <2>1, <2>2 DEF InPartition
<1>3. Kept \subseteq Committed'
  BY <1>1 DEF Kept
<1>4. ASSUME NEW p \in verifier'.harmed
      PROVE  \/ InPartition(verifier.seen, p)' = {}
             \/ verifier'.codes # {}
             \/ /\ p \in verifier'.left
                /\ \E x \in InPartition(Committed, p)' : x \notin verifier'.seen
  <2>1. InPartition(verifier.seen, p)' = InPartition(Kept, p)
    BY <1>1 DEF InPartition
  <2>2. InPartition(Committed, p)' = InPartition(Committed, p)
    BY <1>1 DEF InPartition
  <2> QED
    BY <1>1, <1>2, <1>4, <2>1, <2>2
<1> QED
  BY <1>1, <1>3, <1>4 DEF VerifierLags

\* No fault in a partition means that the verifier saw every committed event of it: what
\* it saw holds the head and is closed under the links.
LEMMA SilentSawAll ==
  ASSUME IInv, Lined, NEW p \in Partitions, NEW seen \in SUBSET Committed,
         ChainCodes(InPartition(seen, p), head[p]) = {}
  PROVE  InPartition(Committed, p) \subseteq seen
<1> DEFINE group == InPartition(seen, p)
<1>1. PICK s, m, n : Line(p, s, m, n)
  BY DEF Lined
<1>2. /\ m \in Nat /\ n \in Nat /\ m <= n
      /\ InPartition(Committed, p) = {s[i] : i \in 1..m}
      /\ \A i \in 1..n : row[s[i]].prev = IF i = 1 THEN Genesis ELSE s[i - 1]
      /\ head[p] = IF m = 0 THEN Genesis ELSE s[m]
  BY <1>1 DEF Line
<1>3. group \in SUBSET Events /\ head[p] \in Events \cup {Genesis}
  BY DEF InPartition, Committed, Written, IInv, TypeOK
<1>4. head[p] \in group /\ \A e \in group : row[e].prev \in group \cup {Genesis}
  <2> HIDE DEF group
  <2> QED
    BY <1>3, SilentIsClosed DEF group
<1>5. m # 0 /\ s[m] \in group
  BY <1>2, <1>3, <1>4, AuditAssumption
<1> DEFINE T == {i \in 1..m : s[i] \in group}
<1>6. ASSUME NEW i \in 2..m, i \in T PROVE i - 1 \in T
  <2>1. row[s[i]].prev = s[i - 1] /\ i - 1 \in 1..m
    BY <1>2, <1>6
  <2>2. s[i - 1] \in Events
    BY <1>2, <2>1 DEF InPartition, Committed, Written
  <2>3. s[i - 1] # Genesis
    BY <2>2, AuditAssumption
  <2>4. row[s[i]].prev \in group \cup {Genesis}
    <3> HIDE DEF group
    <3> QED
      BY <1>4, <1>6
  <2> QED
    BY <2>1, <2>3, <2>4
<1>7. m \in T
  BY <1>2, <1>5
<1> HIDE DEF T
<1>8. 1..m \subseteq T
  BY <1>2, <1>6, <1>7, DownToOne
<1> QED
  BY <1>2, <1>8 DEF T, InPartition

LEMMA VerifyLags ==
  ASSUME TrailInv, NEW q \in Partitions, VerifyPartition(q)
  PROVE  VerifierLags'
<1> USE DEF TrailInv
<1> DEFINE found == ChainCodes(InPartition(verifier.seen, q), head[q])
<1>1. /\ row' = row
      /\ verifier'.seen = verifier.seen /\ verifier'.codes = verifier.codes \cup found
      /\ verifier'.left = verifier.left \ {q} /\ verifier'.harmed = verifier.harmed
  BY DEF VerifyPartition, IInv, TypeOK
<1>2. Committed' = Committed
  BY <1>1 DEF Committed, Written
<1> HIDE DEF found
<1>3. ASSUME NEW p \in verifier.harmed
      PROVE  \/ InPartition(verifier.seen, p) = {}
             \/ verifier'.codes # {}
             \/ p \in verifier'.left /\ \E x \in InPartition(Committed, p) : x \notin verifier.seen
  <2>1. CASE p # q
    BY <1>1, <1>3, <2>1 DEF VerifierLags
  <2>2. CASE p = q /\ verifier.codes = {} /\ InPartition(verifier.seen, p) # {}
    <3>1. ~(InPartition(Committed, q) \subseteq verifier.seen)
      BY <1>3, <2>2 DEF VerifierLags
    <3>2. found # {}
      BY <3>1, SilentSawAll DEF found, VerifierLags
    <3> QED
      BY <1>1, <3>2
  <2> QED
    BY <1>1, <2>1, <2>2
<1>4. \A p : /\ InPartition(verifier.seen, p)' = InPartition(verifier.seen, p)
             /\ InPartition(Committed, p)' = InPartition(Committed, p)
  BY <1>1, <1>2 DEF InPartition
<1> QED
  BY <1>1, <1>2, <1>3, <1>4 DEF VerifierLags

LEMMA LagsStep == TrailInv /\ [Next]_vars => VerifierLags'
<1> SUFFICES ASSUME TrailInv, [Next]_vars PROVE VerifierLags'
  OBVIOUS
<1>1. CASE BeginVerify
  BY <1>1, BeginLags DEF TrailInv
<1>2. ASSUME NEW p \in Partitions, VerifyPartition(p) PROVE VerifierLags'
  BY <1>2, VerifyLags
<1>3. CASE verifier' = verifier
  <2>1. \A e \in Committed : e \in Committed' /\ row'[e].part = row[e].part
    BY CommittedStays DEF TrailInv
  <2>2. \A p : /\ InPartition(verifier.seen, p)' = InPartition(verifier.seen, p)
               /\ InPartition(Committed, p) \subseteq InPartition(Committed, p)'
    BY <1>3, <2>1 DEF InPartition, TrailInv, VerifierLags
  <2> QED
    BY <1>3, <2>1, <2>2 DEF TrailInv, VerifierLags
<1> QED
  BY <1>1, <1>2, <1>3 DEF Next, Write, Commit, Rollback, Rotate, Damage, vars

THEOREM Trail == Spec => []TrailInv
<1>1. TrailInv /\ [Next]_vars => TrailInv'
  BY StepInv, LinedStep, KeysStep, LagsStep DEF TrailInv
<1> QED
  BY <1>1, TrailInit, PTL DEF Spec

\* A verification that began after a row of a partition was lost or altered, and still saw
\* a row of it, reports a fault, whatever transactions commit while it runs: what it saw
\* would have to be closed under the links down from the head it reads (verify_queryset).
THEOREM DamageShows == Spec => []DamageIsReported
<1>1. TrailInv => DamageIsReported
  BY DEF TrailInv, VerifierLags, DamageIsReported
<1> QED
  BY <1>1, Trail, PTL

\* Committed events and heads of one moment pass the verifier as long as nothing of their
\* partition was damaged, for any transactions, rollbacks and keys (verify_queryset).
THEOREM UndamagedPasses == Spec => []UndamagedVerifies
<1>1. ASSUME TrailInv, NEW p \in Partitions \ Harmed, InPartition(Kept, p) # {}
      PROVE  EventCodes(InPartition(Kept, p)) \cup ChainCodes(InPartition(Kept, p), head[p]) = {}
  <2> DEFINE group == InPartition(Kept, p)
  <2>1. \A e \in InPartition(Committed, p) : row[e].state = "kept"
    BY <1>1 DEF Harmed, InPartition
  <2>2. group = InPartition(Committed, p)
    BY <2>1 DEF InPartition, Kept
  <2>3. EventCodes(group) = {}
    BY <1>1, <2>1, <2>2 DEF EventCodes, When, Matches, TrailInv, KeysKnown, InPartition, Committed
  <2>4. PICK s, m, n : Line(p, s, m, n)
    BY <1>1 DEF TrailInv, Lined
  <2>5. /\ m \in Nat /\ n \in Nat /\ m <= n
        /\ group = {s[i] : i \in 1..m}
        /\ \A i, j \in 1..m : s[i] = s[j] => i = j
        /\ \A i \in 1..m : row[s[i]].prev = IF i = 1 THEN Genesis ELSE s[i - 1]
        /\ head[p] = IF m = 0 THEN Genesis ELSE s[m]
    BY <2>2, <2>4 DEF Line
  <2>6. m # 0 /\ head[p] = s[m] /\ group \in SUBSET Events
    BY <1>1, <2>5 DEF InPartition, Kept, Committed, Written
  <2> HIDE DEF group
  <2>7. \A i \in 1..m : s[i] \in group /\ s[i] # Genesis
    BY <2>5, <2>6, AuditAssumption
  <2>8. {f \in group : row[f].prev = Genesis} = {s[1]}
    <3>1. \A i \in 1..m : row[s[i]].prev = Genesis => i = 1
      BY <2>5, <2>7
    <3> QED
      BY <2>5, <2>6, <3>1
  <2>9. {e \in group : \A f \in group : row[f].prev # e} = {s[m]}
    <3>1. \A i \in 1..m : row[s[i]].prev # s[m]
      BY <2>5, <2>6, <2>7
    <3>2. \A i \in 1..m : i # m => row[s[i + 1]].prev = s[i] /\ s[i + 1] \in group
      BY <2>5
    <3> QED
      BY <2>5, <2>6, <3>1, <3>2
  <2>10. Walk(group, s[m]) = group
    <3>1. m \in 1..m
      BY <2>5, <2>6
    <3>2. Walk(group, s[m]) = {s[i] : i \in 1..m}
      BY <2>4, <2>6, <2>7, <3>1, WalkMeets
    <3> QED
      BY <2>5, <3>2
  <2>11. \A e \in group : row[e].prev \in group \cup {Genesis}
    BY <2>5
  <2>12. Sound(group, head[p])
    BY <2>5, <2>6, <2>8, <2>9, <2>10, <2>11 DEF Sound
  <2> QED
    BY <2>3, <2>6, <2>12, SoundIsSilent DEF group
<1>2. TrailInv => UndamagedVerifies
  BY <1>1 DEF UndamagedVerifies
<1> QED
  BY <1>2, Trail, PTL

-----------------------------------------------------------------------------
(* The committed chains are append-only logs.                              *)

LEMMA FirstEvents ==
  ASSUME NEW p, NEW s, NEW m, NEW n, Line(p, s, m, n), NEW k \in 0..m
  PROVE  Cardinality({s[i] : i \in 1..k}) = k
<1> DEFINE S == {s[i] : i \in 1..k}
           f == [i \in 1..k |-> s[i]]
<1>1. k \in Nat /\ \A i, j \in 1..k : s[i] = s[j] => i = j
  BY DEF Line
<1>2. f \in Bijection(1..k, S)
  BY <1>1 DEF Bijection, Injection, Surjection, IsInjective
<1>3. ExistsBijection(1..k, S)
  BY <1>2 DEF ExistsBijection
<1> HIDE DEF S
<1> QED
  BY <1>1, <1>3, FS_CountingElements DEF S

\* The chain up to the head is the committed part of the line.
LEMMA ChainIsLine ==
  ASSUME NEW p, NEW s, NEW m, NEW n, Line(p, s, m, n)
  PROVE  ChainTo(head[p]) = [i \in 1..m |-> s[i]]
<1>1. /\ m \in Nat /\ n \in Nat /\ m <= n
      /\ \A i, j \in 1..m : s[i] = s[j] => i = j
      /\ head[p] = IF m = 0 THEN Genesis ELSE s[m]
      /\ \A i \in 1..m : s[i] \in Committed
  <2>1. InPartition(Committed, p) = {s[i] : i \in 1..m}
    BY DEF Line
  <2> QED
    BY <2>1 DEF Line, InPartition
<1>2. Committed \in SUBSET Events /\ Genesis \notin Committed
  BY AuditAssumption DEF Committed, Written
<1>3. ASSUME NEW k \in 1..m
      PROVE  /\ Walk(Committed, s[k]) = {s[i] : i \in 1..k}
             /\ Cardinality(Walk(Committed, s[k])) = k
  <2>1. k \in 0..m /\ \A i \in 1..k : s[i] \in Committed
    BY <1>1
  <2>2. Walk(Committed, s[k]) = {s[i] : i \in 1..k}
    BY <1>2, <2>1, WalkMeets
  <2>3. Cardinality({s[i] : i \in 1..k}) = k
    BY <2>1, FirstEvents
  <2> QED
    BY <2>2, <2>3
<1> DEFINE met == IF head[p] = Genesis THEN {} ELSE Walk(Committed, head[p])
<1>4. met = {s[i] : i \in 1..m}
  BY <1>1, <1>2, <1>3
<1>5. Cardinality(met) = m
  <2>1. m \in 0..m
    BY <1>1
  <2>2. Cardinality({s[i] : i \in 1..m}) = m
    BY <2>1, FirstEvents
  <2> QED
    BY <1>4, <2>2
<1>6. \A k \in 1..m : (CHOOSE e \in met : Cardinality(Walk(Committed, e)) = k) = s[k]
  BY <1>1, <1>3, <1>4
<1>7. ChainTo(head[p]) =
        [i \in 1..Cardinality(met) |-> CHOOSE e \in met : Cardinality(Walk(Committed, e)) = i]
  BY DEF ChainTo
<1> HIDE DEF met
<1> QED
  BY <1>5, <1>6, <1>7

ChainsAreLines == \A p, s, m, n : Line(p, s, m, n) => ChainTo(head[p]) = [i \in 1..m |-> s[i]]

LEMMA ChainIsLineNext == ChainsAreLines /\ ChainsAreLines'
<1>1. ChainsAreLines
  BY ChainIsLine DEF ChainsAreLines
<1> QED
  BY <1>1, PTL

LEMMA Prefixes ==
  ASSUME NEW m \in Nat, NEW n \in Nat, m <= n, NEW s, NEW t, \A i \in 1..m : t[i] = s[i]
  PROVE  Log!IsPrefix([i \in 1..m |-> s[i]], [i \in 1..n |-> t[i]])
  BY DEF Log!IsPrefix

\* The committed chains are append-only logs, one for each partition: a commit adds its
\* events at the ends of the chains it holds, whoever else writes, and no other step shows
\* (write_event under the head's lock).
THEOREM ImplementsAuditLog == Spec => ImplementsLog
<1> DEFINE logs == [p \in Partitions |-> ChainTo(head[p])]
<1>1. Init => Log!Init
  <2> SUFFICES ASSUME Init, NEW p \in Partitions PROVE ChainTo(head[p]) = <<>>
    BY DEF Log!Init
  <2>1. head[p] = Genesis
    BY DEF Init
  <2> QED
    BY <2>1, FS_EmptySet DEF ChainTo
<1>2. TrailInv /\ [Next]_vars => [Log!Add]_logs
  <2> SUFFICES ASSUME TrailInv, [Next]_vars PROVE Log!Add
    OBVIOUS
  <2>1. ASSUME NEW p \in Partitions
        PROVE  /\ Log!IsPrefix(ChainTo(head[p]), ChainTo(head[p])')
               /\ Log!IsInjective(ChainTo(head[p])')
               /\ \A e \in Log!ToSet(ChainTo(head[p])') : row'[e].part = p
    <3>1. PICK s, m, n : Line(p, s, m, n)
      BY DEF TrailInv, Lined
    <3>2. PICK t, i, j : Line(p, t, i, j)' /\ m <= i /\ \A k \in 1..m : t[k] = s[k]
      BY <3>1, StepLine DEF TrailInv, Grows
    <3>3. ChainTo(head[p]) = [k \in 1..m |-> s[k]] /\ m \in Nat
      BY <3>1, ChainIsLine, LineLengths
    <3>4. ChainTo(head[p])' = [k \in 1..i |-> t[k]]
      BY <3>2, ChainIsLineNext DEF ChainsAreLines
    <3>5. /\ i \in Nat
          /\ \A k, l \in 1..i : t[k] = t[l] => k = l
          /\ \A k \in 1..i : row'[t[k]].part = p
      BY <3>2 DEF Line, InPartition
    <3>6. Log!IsPrefix(ChainTo(head[p]), ChainTo(head[p])')
      <4>1. /\ m \in Nat /\ i \in Nat /\ m <= i
            /\ \A k \in 1..m : t[k] = s[k]
        BY <3>2, <3>3, <3>5
      <4>2. Log!IsPrefix([k \in 1..m |-> s[k]], [k \in 1..i |-> t[k]])
        BY <4>1, Prefixes
      <4> QED
        BY <3>3, <3>4, <4>2
    <3> QED
      BY <3>4, <3>5, <3>6 DEF Log!IsInjective, Log!ToSet
  <2>2. \A p \in Partitions : logs[p] = ChainTo(head[p]) /\ logs'[p] = ChainTo(head[p])'
    OBVIOUS
  <2> QED
    BY <2>1, <2>2 DEF Log!Add, Log!SaidOnce
<1> QED
  BY <1>1, <1>2, Trail, PTL DEF Spec, ImplementsLog, Log!Spec
=============================================================================
