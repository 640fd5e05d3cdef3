------------------------------ MODULE AuditLog ------------------------------
(***************************************************************************)
(* What the audit trail promises: one append-only log for each partition.  *)
(* A transaction adds its events at the ends of the logs it touches, all   *)
(* at once; nothing is taken back, put in between or said twice.           *)
(***************************************************************************)
EXTENDS SequencesExt

CONSTANTS Partitions, Events

VARIABLE log   \* log[p]: the events of partition p, oldest first

Init == log = [p \in Partitions |-> <<>>]

SaidOnce(logs) ==
  /\ \A p \in Partitions : IsInjective(logs[p])
  /\ \A p, q \in Partitions : p # q => ToSet(logs[p]) \cap ToSet(logs[q]) = {}

Add ==
  /\ \A p \in Partitions : IsPrefix(log[p], log'[p])
  /\ SaidOnce(log')

Spec == Init /\ [][Add]_log
=============================================================================
