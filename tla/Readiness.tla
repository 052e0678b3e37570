------------------------------ MODULE Readiness ------------------------------
(***************************************************************************)
(* What is read off a project: whether a claim is ready to be relied on,   *)
(* with the shortest path to each thing that says it is not; the catalog   *)
(* other projects integrate against; and the graph of the viewer.          *)
(*                                                                         *)
(* Claim ids are numbers, ordered as their names are.  A claim's words are *)
(* members of a small set, so its hashes are the words themselves.         *)
(***************************************************************************)
EXTENDS Naturals, Sequences, FiniteSets, SequencesExt

CONSTANTS
    MaxId,    \* ids are 1..MaxId; a claim file may be missing for any of them
    Texts,    \* what a claim can say
    MaxRests, \* bound on the entries of one rests_on list
    None      \* absence of a value

ASSUME ReadinessAssumption == MaxId \in Nat \ {0} /\ MaxRests \in Nat /\ Texts # {} /\ None \notin Texts

VARIABLES
    claims,  \* the claims that load, by id
    rec,     \* the lock ledger: the record of each id, None when there is none
    base,    \* the baseline each dependent recorded for each dependency
    flags    \* the ids with a pending flag

project == <<claims, rec, base, flags>>

Ids == 1..MaxId

\* "retired" and "unreadable" stand for the statuses this engine does not write.
Statuses == {"draft", "locked", "retired", "unreadable"}

Lists == UNION {[1..n -> Ids] : n \in 0..MaxRests}

Claim == [status: Statuses, rests: Lists, text: Texts, open: BOOLEAN, internals: BOOLEAN]

Record == [text: Texts, released: BOOLEAN]

Here == DOMAIN claims

-----------------------------------------------------------------------------
(* One claim's own standing. *)

restsOn(c) == ToSet(claims[c].rests)

dependencyState(c) ==
    CASE claims[c].status = "retired" -> "retired_dependency"
      [] claims[c].status = "unreadable" -> "unreadable_dependency"
      [] OTHER -> ""

Eligible == {c \in Here : dependencyState(c) = ""}

\* The reason a locked claim's approval does not stand, "" when it does.
approvalState(c) ==
    IF claims[c].status # "locked" THEN "not_locked"
    ELSE IF rec[c] = None THEN "approval_missing"
    ELSE IF rec[c].released THEN "approval_released"
    ELSE IF rec[c].text # claims[c].text THEN "approval_content_drift"
    ELSE ""

LocalApproved(c) == approvalState(c) = ""

EditedSinceApproval(c) ==
    /\ claims[c].status = "draft" /\ rec[c] # None
    /\ rec[c].released /\ rec[c].text # claims[c].text

Locked(c) == claims[c].status = "locked"

\* What is wrong with c itself: [kind, dep, path], dep and path from c.
localCauses(c) ==
    {[kind |-> k, dep |-> None, path |-> <<c>>] :
        k \in {k \in {approvalState(c)} : Locked(c) /\ k # ""}
              \cup {k \in {"own_thread"} : claims[c].open}
              \cup {k \in {"own_flag"} : c \in flags}
              \cup {k \in {"unapproved_edit"} : EditedSinceApproval(c)}}
    \cup {[kind |-> "direct_dependency_change", dep |-> d, path |-> <<c, d>>] :
             d \in {d \in restsOn(c) \cap Eligible :
                       Locked(c) /\ base[c][d] # None /\ base[c][d] # claims[d].text}}

localConditions(c) ==
    IF ~Locked(c) THEN {}
    ELSE {[kind |-> "missing_dependency", dep |-> d, path |-> <<c, d>>] : d \in restsOn(c) \ Here}
         \cup {[kind |-> dependencyState(d), dep |-> d, path |-> <<c, d>>] :
                  d \in (restsOn(c) \cap Here) \ Eligible}
         \cup {[kind |-> "unknown_historical_baseline", dep |-> d, path |-> <<c, d>>] :
                  d \in {d \in restsOn(c) \cap Eligible : base[c][d] = None}}

-----------------------------------------------------------------------------
(* Paths. *)

pathLess(a, b) ==
    \E i \in 1..Len(b) :
        /\ \A j \in 1..(i - 1) : j <= Len(a) /\ a[j] = b[j]
        /\ i > Len(a) \/ a[i] < b[i]

Shorter(a, b) == Len(a) < Len(b) \/ (Len(a) = Len(b) /\ pathLess(a, b))

Least(P) == CHOOSE p \in P : \A q \in P : q = p \/ Shorter(p, q)

\* Mutant of Levels: the first parent met keeps the path.
LevelsFirstParent(r) ==
    LET f[n \in 0..MaxId] ==
          IF n = 0 THEN [c \in {r} |-> <<r>>]
          ELSE LET seen == f[n-1]
                   at == {u \in DOMAIN seen : Len(seen[u]) = n /\ (u = r \/ u \in Eligible)}
                   new == ((UNION {restsOn(u) : u \in at}) \cap Here) \ DOMAIN seen
                   parent(d) == CHOOSE u \in at : d \in restsOn(u) /\ \A v \in at : d \in restsOn(v) => v <= u
               IN [d \in DOMAIN seen \cup new |-> IF d \in new THEN Append(seen[parent(d)], d) ELSE seen[d]]
    IN f[MaxId]

\* The breadth-first search from r: its paths after n levels.  A claim that
\* cannot be consumed is reached but not passed through.
Levels(r) ==
    LET f[n \in 0..MaxId] ==
          IF n = 0 THEN [c \in {r} |-> <<r>>]
          ELSE LET seen == f[n-1]
                   at == {u \in DOMAIN seen : Len(seen[u]) = n /\ (u = r \/ u \in Eligible)}
                   new == ((UNION {restsOn(u) : u \in at}) \cap Here) \ DOMAIN seen
               IN [d \in DOMAIN seen \cup new |->
                     IF d \in new THEN Append(Least({seen[u] : u \in {u \in at : d \in restsOn(u)}}), d)
                     ELSE seen[d]]
    IN f[MaxId]

Expanded(r, paths) == {u \in DOMAIN paths : u = r \/ u \in Eligible}

\* The best path to an id with no claim, and back to a root that cannot be consumed.
bestMissing(r, paths) ==
    LET missing == (UNION {restsOn(u) : u \in Expanded(r, paths)}) \ Here
    IN {Append(Least({paths[u] : u \in {u \in Expanded(r, paths) : m \in restsOn(u)}}), m) : m \in missing}

invalidRootPath(r, paths) ==
    {Append(Least({paths[u] : u \in back}), r) :
        back \in {B \in {{u \in Expanded(r, paths) : r \in restsOn(u)}} : B # {} /\ r \notin Eligible}}

-----------------------------------------------------------------------------
(* Cycles. *)

Edge(u, v) == v \in restsOn(u)

\* What u reaches through claims that can be consumed (Tarjan's components are
\* the sets of claims that reach each other).
Reach(u) ==
    LET ok == Eligible
        f[n \in 0..MaxId] ==
          IF n = 0 THEN restsOn(u) \cap ok
          ELSE LET near == f[n-1] IN near \cup UNION {restsOn(v) \cap ok : v \in near}
    IN f[MaxId]

\* The components with a cycle in them: more than one claim, or one that rests on itself.
findSCCs ==
    {{v \in Reach(u) : u \in Reach(v)} : u \in {u \in Eligible : u \in Reach(u)}}

\* The least of the shortest cycles through s inside its component.
getShortestCycle(s, S) ==
    IF Edge(s, s) THEN <<s, s>>
    ELSE LET f[n \in 1..MaxId] ==    \* the queue after n rounds: a path to each node seen
               IF n = 1 THEN [u \in restsOn(s) \cap S |-> <<s, u>>]
               ELSE LET seen == f[n-1]
                        at == {u \in DOMAIN seen : Len(seen[u]) = n}
                        new == ((UNION {restsOn(u) : u \in at}) \cap S) \ (DOMAIN seen \cup {s})
                    IN [d \in DOMAIN seen \cup new |->
                          IF d \in new THEN Append(Least({seen[u] : u \in {u \in at : Edge(u, d)}}), d)
                          ELSE seen[d]]
             all == f[MaxId]
         IN Least({Append(all[u], s) : u \in {u \in DOMAIN all : Edge(u, s)}})

\* The best witness of one component: a path to it and round it.
Witness(r, paths, S) ==
    Least({IF e = r THEN getShortestCycle(e, S) ELSE paths[e] \o Tail(getShortestCycle(e, S)) :
              e \in S \cap DOMAIN paths})

-----------------------------------------------------------------------------
(* The assessment. *)

Inherit(p, q) == p \o Tail(q)

\* What each reached dependency contributes, keyed so that a local one wins.
reachedConditions(r, paths) ==
    UNION {LET p == paths[u] IN
           IF u \notin Eligible THEN {[kind |-> dependencyState(u), dep |-> u, path |-> p]}
           ELSE {[kind |-> "dependency_unapproved", dep |-> u, path |-> p] : x \in {x \in {1} : ~LocalApproved(u)}}
                \cup {[c EXCEPT !.path = Inherit(p, c.path)] :
                         c \in {c \in localConditions(u) : c.kind = "unknown_historical_baseline"}}
           : u \in DOMAIN paths \ {r}}

Conditions(r) ==
    LET paths == Levels(r) IN
    localConditions(r)
    \cup reachedConditions(r, paths)
    \cup {[kind |-> dependencyState(r), dep |-> r, path |-> p] : p \in invalidRootPath(r, paths)}
    \cup {[kind |-> "missing_dependency", dep |-> Last(p), path |-> p] : p \in bestMissing(r, paths)}
    \cup {[kind |-> "dependency_cycle", dep |-> Last(w), path |-> w] :
             w \in {Witness(r, paths, S) : S \in {S \in findSCCs : S \cap DOMAIN paths # {}}}}

\* Mutant of Causes: what is under review upstream is not inherited.
CausesOwn(r) == localCauses(r)

Causes(r) ==
    LET paths == Levels(r) IN
    localCauses(r)
    \cup UNION {{[c EXCEPT !.path = Inherit(paths[u], c.path)] : c \in localCauses(u)} :
                   u \in (DOMAIN paths \cap Eligible) \ {r}}

\* Compute: the assessment of every claim.
Assessments == {[claim |-> r, conditions |-> Conditions(r), causes |-> Causes(r)] : r \in Here}

Ready(a) == LocalApproved(a.claim) /\ a.conditions = {} /\ a.causes = {}

-----------------------------------------------------------------------------
(* visibility, catalog.Document, graph.Build. *)

RedactedInternalsID == 0

InternalsIDs == {c \in Here : claims[c].internals}

IntegrationClaims == Here \ InternalsIDs

DropInternalsTargets(s) ==
    LET f[n \in 0..Len(s)] ==
          IF n = 0 THEN <<>>
          ELSE IF s[n] \in InternalsIDs THEN f[n-1] ELSE Append(f[n-1], s[n])
    IN f[Len(s)]

redactID(d) == IF d \in InternalsIDs THEN RedactedInternalsID ELSE d

\* Mutant of redactAssessment: the dependency is redacted and its path is not.
redactAssessmentIds(as) == {[a EXCEPT !.dep = redactID(a.dep)] : a \in as}

redactAssessment(as) ==
    {[a EXCEPT !.dep = redactID(a.dep), !.path = [i \in DOMAIN a.path |-> redactID(a.path[i])]] : a \in as}

entryForIntegration(c) ==
    [rests |-> DropInternalsTargets(claims[c].rests),
     omitted |-> Len(claims[c].rests) - Len(DropInternalsTargets(claims[c].rests)),
     conditions |-> redactAssessment(Conditions(c)), causes |-> redactAssessment(Causes(c))]

Document == [c \in IntegrationClaims |-> entryForIntegration(c)]

\* Every id an integrating project can read in the document.
Mentioned ==
    LET doc == Document
    IN UNION {{c} \cup ToSet(doc[c].rests)
              \cup UNION {{a.dep} \cup ToSet(a.path) : a \in doc[c].conditions \cup doc[c].causes} :
                 c \in DOMAIN doc}

\* The targets a claim lists: the claim, and the place in its list.
Listed == {e \in Here \X (1..MaxRests) : e[2] <= Len(claims[e[1]].rests)}

\* Mutant of GraphEdges: a claim listed by two others is drawn once.
GraphEdgesOnce ==
    {e \in Listed : /\ claims[e[1]].rests[e[2]] \in Here
                    /\ \A d \in Here : d < e[1] => claims[e[1]].rests[e[2]] \notin restsOn(d)}

\* The edges of the viewer's graph, one for each listed target that exists.
GraphEdges == {e \in Listed : claims[e[1]].rests[e[2]] \in Here}

\* The listed targets that were not drawn, which the pane counts.
Dropped == Listed \ GraphEdges
=============================================================================
