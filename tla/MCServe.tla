------------------------------ MODULE MCServe ------------------------------
(* Small instances of Serve for TLC. *)
EXTENDS Serve

CONSTANTS c1, c2
=============================================================================
