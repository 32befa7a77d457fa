----------------------------- MODULE MCChatMulti -----------------------------
(* ChatMulti for TLC. *)
EXTENDS ChatMulti, TLC
CONSTANTS s1, s2, s3, w1, w2, w3
==============================================================================
