----------------------------- MODULE MCGameEcho -----------------------------
(* GameEcho for TLC. *)
EXTENDS GameEcho
CONSTANTS s1, s2, auth, game, w1
==============================================================================
