-------------------------- MODULE MCPostRestartJob --------------------------
(* Two revisions and two knob values: enough for a revert and a retry.     *)
EXTENDS PostRestartJob

CONSTANTS r1, r2, k1, k2

TwoRevisions == {r1, r2}
TwoKnobs     == {k1, k2}

\* The revisions differ in their config.
OwnConfig(r) == r
=============================================================================
