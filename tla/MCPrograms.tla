----------------------------- MODULE MCPrograms -----------------------------
(* Bounds for Programs: two slots and two sessions, two threads of a client   *)
(* with a session each, three sectors in a row so that some are not around.   *)
EXTENDS Programs

=============================================================================
