------------------------------ MODULE MCBriefs -------------------------------
(* Instances of Briefs for TLC. *)
EXTENDS Briefs
=============================================================================
