---------------------------- MODULE MCPosTicket -----------------------------
(* One ticket, two cashiers, a request that overlaps the others, both cycles.*)
EXTENDS PosTicket, TLC

CONSTANTS t1, s1, r1, q1, c1, c2

OneTicket == {t1}
OneSession == {s1}
OneTill == {r1}
OneCancel == {q1}
TwoCashiers == {c1, c2}
=============================================================================
