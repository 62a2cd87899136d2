---------------------------- MODULE MCCheckSlots ----------------------------
(* One gateway worker, as wired, and more callers than there are slots.    *)
EXTENDS CheckSlots

CONSTANTS w, s1, s2, q1, q2

MCWorkers  == {w}
MCSharers  == {s1, s2}
MCRequests == {q1, q2}
=============================================================================
