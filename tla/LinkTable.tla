------------------------------ MODULE LinkTable ------------------------------
(***************************************************************************)
(* What the writers of a module's code links promise, however they are     *)
(* interleaved: a link, once recorded, stays, and the version of the file  *)
(* it was recorded against never goes back.                                *)
(***************************************************************************)
EXTENDS Naturals

CONSTANT Keys   \* claim, file and step: what a link is keyed by

VARIABLES
    table,     \* the version of the file recorded for each linked key
    current    \* the version of the file of each key, 0 when there is none

vars == <<table, current>>

Init == table = << >> /\ current \in [Keys -> Nat]

\* One writer records a batch against versions its files have had.
Record(batch) ==
    /\ DOMAIN table' = DOMAIN table \cup batch
    /\ \A k \in DOMAIN table' : IF k \in batch THEN table'[k] <= current[k] ELSE table'[k] = table[k]
    /\ \A k \in DOMAIN table : table'[k] >= table[k]
    /\ UNCHANGED current

Save == /\ current' \in [Keys -> Nat] /\ \A k \in Keys : current'[k] >= current[k]
        /\ UNCHANGED table

Next == Save \/ \E batch \in SUBSET Keys : Record(batch)

Spec == Init /\ [][Next]_vars
=============================================================================
