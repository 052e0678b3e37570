------------------------------ MODULE MCSchema -------------------------------
(* The upgrade of a project with two claims, one of which rests on another. *)
EXTENDS Schema, TLC

CONSTANTS c1, c2

TwoClaims == {c1, c2}
OneDependent == {c1}
=============================================================================
