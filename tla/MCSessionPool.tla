---- MODULE MCSessionPool ----
(* Two slots, two threads and the accept thread, two session ids: enough    *)
(* for a slot to be reused while stale IDs of its last session circulate.   *)
EXTENDS SessionPool, TLC

CONSTANTS i1, i2, w1, w2

Symmetry == Permutations({i1, i2}) \cup Permutations({w1, w2})
====
