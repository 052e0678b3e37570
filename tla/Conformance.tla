----------------------------- MODULE Conformance -----------------------------
(***************************************************************************)
(* Conformance: what claims say of the code, compared with what adapters   *)
(* observed.                                                               *)
(*                                                                         *)
(* A claim's embodiment is "none", with a reason, or a list of checks; an  *)
(* observation is a set, a scalar or an error under an adapter and target. *)
(* The report is bounded: Evaluate refuses one that would not fit, judging *)
(* by a lower bound first and by the encoded bytes only when an upper      *)
(* bound does not settle it.                                               *)
(***************************************************************************)
EXTENDS Naturals, Sequences, FiniteSets, SequencesExt, FiniteSetsExt

CONSTANTS
    Keys,            \* adapter and target pairs
    Members,         \* strings a set or a scalar is made of
    Raw(_),          \* the length of a string in bytes
    Escaped(_),      \* the bytes of its JSON form
    MaxOutputBytes,  \* the bound on the encoded report
    Structure        \* the bytes of JSON around the parts of a check

ASSUME ConformanceAssumption ==
    /\ MaxOutputBytes \in Nat /\ Structure \in Nat
    /\ \A m \in Members : /\ Raw(m) \in Nat /\ Escaped(m) \in Nat
                            /\ Raw(m) + 2 <= Escaped(m) /\ Escaped(m) <= 6 * Raw(m) + 2

VARIABLES
    embodiment,  \* for each declared claim, its mode and checks
    input        \* the observation file: absent (not configured, or not readable), or its observations

Shapes == {"set", "scalar", "other"}

-----------------------------------------------------------------------------
(* DecodeEnvelope: one bad observation makes the whole input invalid. *)

\* The error arm carries no shape or value; a set has members, none twice; a
\* scalar is one string.
validObservation(o) ==
    \/ o.error /\ o.shape = "none" /\ o.value = <<>>
    \/ ~o.error /\ o.shape = "set" /\ o.value # <<>> /\ IsInjective(o.value)
    \/ ~o.error /\ o.shape = "scalar" /\ Len(o.value) = 1

DecodeEnvelope(raw) ==
    /\ \A i \in DOMAIN raw : validObservation(raw[i])
    /\ \A i, j \in DOMAIN raw : raw[i].key = raw[j].key => i = j

NeedsInput == \E c \in DOMAIN embodiment : embodiment[c].mode = "compare"

\* The configured path must resolve outside the generated build directory.
inputErr ==
    /\ NeedsInput
    /\ input.state # "read" \/ ~DecodeEnvelope(input.observations)

index(k) == {o \in ToSet(input.observations) : ~inputErr /\ NeedsInput /\ o.key = k}

-----------------------------------------------------------------------------
(* evaluateCheck, evaluateClaim. *)

Missing(e, o) == ToSet(e) \ ToSet(o)

\* Mutant of evaluateCheck: the observed extras are not looked at.
evaluateCheckMissingOnly(k) ==
    IF inputErr THEN "uncheckable"
    ELSE IF index(k.key) = {} THEN "owed"
    ELSE IF \E o \in index(k.key) : o.error \/ o.shape # k.shape THEN "uncheckable"
    ELSE IF k.shape = "set" /\ (\A o \in index(k.key) : Missing(k.value, o.value) = {}) THEN "matched"
    ELSE IF k.shape = "scalar" /\ (\A o \in index(k.key) : k.value = o.value) THEN "matched"
    ELSE "mismatch"

evaluateCheck(k) ==
    IF inputErr THEN "uncheckable"
    ELSE IF index(k.key) = {} THEN "owed"
    ELSE IF \E o \in index(k.key) : o.error \/ o.shape # k.shape THEN "uncheckable"
    ELSE IF k.shape = "set" /\ (\A o \in index(k.key) : Missing(k.value, o.value) = {} /\ Missing(o.value, k.value) = {}) THEN "matched"
    ELSE IF k.shape = "scalar" /\ (\A o \in index(k.key) : k.value = o.value) THEN "matched"
    ELSE IF k.shape \notin {"set", "scalar"} THEN "uncheckable"
    ELSE "mismatch"

ImplementationReady(c) ==
    embodiment[c].mode = "none" \/ \A k \in ToSet(embodiment[c].checks) : evaluateCheck(k) = "matched"

Checks == UNION {{<<c, i>> : i \in DOMAIN embodiment[c].checks} : c \in DOMAIN embodiment}

Check(x) == embodiment[x[1]].checks[x[2]]

-----------------------------------------------------------------------------
(* The size of the report, and the two bounds Evaluate judges it by. *)

\* The bytes of the encoded strings, and what they come to at most.
Bytes(s) == SumFunction([i \in DOMAIN s |-> Escaped(s[i])])

Upper(s) == SumFunction([i \in DOMAIN s |-> 2 + 6 * Raw(s[i])])

Observed(k) == {o \in index(k.key) : ~o.error /\ o.shape = k.shape}

Difference(k, o) == Missing(k.value, o.value) \cup Missing(o.value, k.value)

\* A check as it is encoded: what was expected and observed, and the difference.
encodedCheck(k) ==
    Structure + Bytes(k.value)
    + SumFunction([o \in Observed(k) |-> Bytes(o.value)
               + IF k.shape # "set" THEN 0 ELSE SumFunction([m \in Difference(k, o) |-> Escaped(m)])])

estimateCheckLowerBound(k) ==
    Structure + Bytes(k.value) + SumFunction([o \in Observed(k) |-> Bytes(o.value)])

\* Mutant of estimateCheck: the differences are not counted.
estimateCheckOnce(k) ==
    Structure + Upper(k.value) + SumFunction([o \in index(k.key) |-> Upper(o.value)])

\* Each member of a set is counted twice, for the list it is in and the difference.
addProjectionValue(shape, v) == (IF shape = "set" THEN 2 ELSE 1) * Upper(v)

estimateCheck(k) ==
    2 * Structure + addProjectionValue(k.shape, k.value)
    + SumFunction([o \in {o \in index(k.key) : ~o.error} |-> addProjectionValue(o.shape, o.value)])

\* projectionBudget.add: the total saturates at the limit.
add(b, n) == IF b.exceeded \/ n > b.limit \/ b.total > b.limit - n
             THEN [b EXCEPT !.exceeded = TRUE, !.total = b.limit] ELSE [b EXCEPT !.total = @ + n]

Budget(limit, costs) ==
    FoldFunction(LAMBDA n, b : add(b, n), [limit |-> limit, total |-> 0, exceeded |-> FALSE], costs)

Encoded == SumFunction([x \in Checks |-> encodedCheck(Check(x))])

\* Evaluate returns a report, or refuses it as too large.
EvaluateRefuses ==
    LET lower == Budget(MaxOutputBytes + 1, [x \in Checks |-> estimateCheckLowerBound(Check(x))])
        upper == Budget(MaxOutputBytes, [x \in Checks |-> estimateCheck(Check(x))])
    IN \/ lower.exceeded \/ lower.total > MaxOutputBytes
       \/ upper.exceeded /\ Encoded > MaxOutputBytes
=============================================================================
