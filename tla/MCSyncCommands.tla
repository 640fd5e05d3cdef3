--------------------------- MODULE MCSyncCommands ---------------------------
(* One device with two batches in flight, two commands and two payloads.    *)
EXTENDS SyncCommands, TLC

CONSTANTS phone, b1, b2, h1, h2

MCDevices == {phone}
MCBatches == {b1, b2}
MCPayloads == {h1, h2}
TwoCommands == 1..2

\* The device numbered its commands.
MCSequenceOf == [c \in Commands |-> c]

Symmetric == Permutations(Batches) \cup Permutations(Payloads)
=============================================================================
