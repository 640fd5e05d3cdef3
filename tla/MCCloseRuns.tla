---------------------------- MODULE MCCloseRuns -----------------------------
(* Two runs, the window of one malformed, and two cycles of the projector.  *)
EXTENDS CloseRuns, TLC

CONSTANTS r1, r2, u1, p1, p2, gap, e1

MCRuns == {r1, r2}
MCMalformed == {r2}
MCCausesOf == (r1 :> {gap}) @@ (r2 :> {})
MCAsked == {"PACKAGED", "REOPENED_EXCEPTION"}
MCStrictCauses == {gap}
MCEvents == {e1}
MCUsers == {u1}
MCProjectors == {p1, p2}
=============================================================================
