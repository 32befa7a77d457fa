---- MODULE MCAdmission ----
(* Two closers, and more connections than the two sessions admitted (the     *)
(* count stays below MaxCount).                                              *)
EXTENDS Admission, TLC
====
