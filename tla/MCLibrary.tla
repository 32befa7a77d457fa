------------------------------ MODULE MCLibrary ------------------------------
(* Bounds for Library: two threads and three nodes, so that a node comes back *)
(* to a thread that still holds its address.                               *)
EXTENDS Library

=============================================================================
