----------------------------- MODULE MCApproval -----------------------------
(* Small instances of Approval for TLC. *)
EXTENDS Advice, TLC

CONSTANTS p1, p2, a, b

\* Claim a rests on claim b.
ARestsOnB == [c \in Claims |-> IF c = a THEN {b} ELSE {}]

\* No dependencies: for instances with one claim or a flat batch.
Flat == [c \in Claims |-> {}]

EachAlone == {{c} : c \in Claims}

AllTogether == {Claims}

\* A file changed behind the commands' back is explored on its own: not together
\* with an edit, a kill or a failed write.
TamperAlone == budget.tampers = MaxTampers \/
    (budget.edits = MaxEdits /\ budget.crashes = MaxCrashes /\ budget.faults = MaxFaults)

\* The processes are interchangeable.
Symmetry == Permutations(Procs)
=============================================================================
