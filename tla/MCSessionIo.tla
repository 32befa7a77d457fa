---- MODULE MCSessionIo ----
(* Two workers, one thread of the contents and the accept thread. *)
EXTENDS SessionIo, TLC

CONSTANTS w1, w2

Symmetry == Permutations({w1, w2})
====
