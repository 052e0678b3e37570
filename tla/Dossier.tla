------------------------------- MODULE Dossier -------------------------------
(***************************************************************************)
(* A project edited step by step, and everything that is read off it after *)
(* each step: the readiness of its claims, the integration catalog and the *)
(* graph, the conformance report, and the code links.                      *)
(*                                                                         *)
(* The readings do not look at each other's files, so a behaviour edits    *)
(* the files of one of them (part) and leaves the others as they started.  *)
(***************************************************************************)
EXTENDS Readiness, Conformance, Links, Assets, Inbox, Recovery, Skills, Manifest, ClaimNew

CONSTANT MaxEdits   \* bound on the edits of a behaviour, for each part

ASSUME DossierAssumption == \A p \in DOMAIN MaxEdits : MaxEdits[p] \in Nat

VARIABLES
    part,   \* the reading whose files this behaviour edits
    edits   \* the edits so far

vars == <<project, embodiment, input, linkVars, assetVars, inboxVars, recoveryVars, skillVars, manifestVars, newVars, part, edits>>

\* A step of one part leaves the variables of the others alone.
Of(p) ==
    /\ part = p /\ UNCHANGED part
    /\ IF p = "claims" THEN TRUE ELSE UNCHANGED project
    /\ IF p = "conformance" THEN TRUE ELSE UNCHANGED <<embodiment, input>>
    /\ IF p = "links" THEN TRUE ELSE UNCHANGED linkVars
    /\ IF p = "assets" THEN TRUE ELSE UNCHANGED assetVars
    /\ IF p = "inbox" THEN TRUE ELSE UNCHANGED inboxVars
    /\ IF p = "recovery" THEN TRUE ELSE UNCHANGED recoveryVars
    /\ IF p = "skills" THEN TRUE ELSE UNCHANGED skillVars
    /\ IF p = "manifests" THEN TRUE ELSE UNCHANGED manifestVars
    /\ IF p = "new" THEN TRUE ELSE UNCHANGED newVars

\* What people do to the files counts; the steps of a command do not.
Edit(p) == Of(p) /\ edits < MaxEdits[p] /\ edits' = edits + 1

Run(p) == Of(p) /\ UNCHANGED edits

-----------------------------------------------------------------------------
(* The claims. *)

Rewrite(c, f) == claims' = [claims EXCEPT ![c] = f]

EditClaim(c) ==
    /\ Edit("claims")
    /\ \/ \E t \in Texts \ {claims[c].text} : Rewrite(c, [claims[c] EXCEPT !.text = t])
       \/ \E s \in Statuses \ {claims[c].status} : Rewrite(c, [claims[c] EXCEPT !.status = s])
       \/ \E d \in Ids : Len(claims[c].rests) < MaxRests
                         /\ Rewrite(c, [claims[c] EXCEPT !.rests = Append(@, d)])
       \/ claims[c].rests # <<>> /\ Rewrite(c, [claims[c] EXCEPT !.rests = Tail(@)])
       \/ Rewrite(c, [claims[c] EXCEPT !.internals = ~@])
    /\ UNCHANGED <<rec, base, flags>>

Comment(c) ==
    /\ Edit("claims")
    /\ Rewrite(c, [claims[c] EXCEPT !.open = ~@])
    /\ UNCHANGED <<rec, base, flags>>

Flag(c) ==
    /\ Edit("claims")
    /\ claims[c].status = "locked" /\ c \notin flags
    /\ flags' = flags \cup {c}
    /\ UNCHANGED <<claims, rec, base>>

\* The baselines an approval records: the words of each dependency as it stands.
Baselines(c) == [d \in Ids |-> IF d \in restsOn(c) \cap Here THEN claims[d].text ELSE None]

Approve(c) ==
    /\ Edit("claims")
    /\ claims[c].status = "draft" /\ ~claims[c].open
    /\ \A d \in restsOn(c) : d \in Here /\ d # c /\ Locked(d)
    /\ Rewrite(c, [claims[c] EXCEPT !.status = "locked"])
    /\ rec' = [rec EXCEPT ![c] = [text |-> claims[c].text, released |-> FALSE]]
    /\ base' = [base EXCEPT ![c] = Baselines(c)]
    /\ UNCHANGED flags

Release(c) ==
    /\ Edit("claims")
    /\ Locked(c) /\ rec[c] # None
    /\ Rewrite(c, [claims[c] EXCEPT !.status = "draft"])
    /\ rec' = [rec EXCEPT ![c].released = TRUE]
    /\ flags' = flags \ {c}
    /\ UNCHANGED base

DeleteClaim(c) ==
    /\ Edit("claims")
    /\ claims' = [d \in Here \ {c} |-> claims[d]]
    /\ UNCHANGED <<rec, base, flags>>

-----------------------------------------------------------------------------
(* The embodiments and the observation file. *)

Words == {<<m>> : m \in Members} \cup {s \in [1..2 -> Members] : s[1] = CHOOSE m \in Members : TRUE}

Declare(c) ==
    /\ Edit("conformance")
    /\ \E k \in Keys, shape \in Shapes, v \in {v \in Words : IsInjective(v)} :
          /\ shape # "set" => Len(v) = 1
          /\ embodiment' = [embodiment EXCEPT ![c] =
                [mode |-> "compare", checks |-> Append(@.checks, [key |-> k, shape |-> shape, value |-> v])]]
    /\ UNCHANGED input

\* An adapter reports a value, well formed or not, or an error.
Reports(k) ==
    {[key |-> k, shape |-> shape, value |-> v, error |-> FALSE] : shape \in {"set", "scalar"}, v \in Words}
    \cup {[key |-> k, shape |-> "none", value |-> <<>>, error |-> TRUE]}

Observe ==
    /\ Edit("conformance")
    /\ \E k \in Keys : \E o \in Reports(k) :
          input' = [state |-> "read", observations |-> Append(input.observations, o)]
    /\ UNCHANGED embodiment

-----------------------------------------------------------------------------
(* The other parts. *)

Linking ==
    \/ Edit("links") /\ ((\E f \in Files : SaveFile(f)) \/ (\E c \in Owned : Reapprove(c))
                         \/ \E p \in Linkers : KillLinker(p))
    \/ /\ Run("links")
       /\ \/ ClearStale
          \/ \E p \in Linkers : \/ Scan(p) \/ Acquire(p) \/ GiveUp(p) \/ WriteArtifact(p)
                                \/ \E c \in Owned, f \in Files : Link(p, c, f)

Serving ==
    \/ Edit("assets") /\ (RelinkImage \/ \E f \in ClaimFiles : SaveClaimFile(f))
    \/ Run("assets") /\ (Tick \/ ScanClaims \/ LoadClaims \/ \E u \in URLs : Request(u))

Reviewing ==
    \/ Edit("inbox") /\ \E i \in Places, op \in {"add", "reply", "resolve", "reopen"} : BeginOp(i, op)
    \/ Run("inbox") /\ (Second \/ SaveOp \/ PollRead \/ PollAnswer)

Recovering == (Edit("recovery") /\ RecoveryEdit) \/ (Run("recovery") /\ RecoveryStep)

Exporting == (Edit("skills") /\ SkillsEdit) \/ (Run("skills") /\ SkillsStep)

Presenting == Edit("manifests") /\ ManifestEdit

Authoring == (Edit("new") /\ \E a \in Authors : StartNew(a)) \/ (Run("new") /\ NewStep)

-----------------------------------------------------------------------------

\* Locked claims that rest on each other as e says.
Approved(e) ==
    [c \in Ids |-> [status |-> "locked", text |-> CHOOSE t \in Texts : TRUE,
                    rests |-> SetToSortSeq({d \in Ids : <<c, d>> \in e}, <),
                    open |-> FALSE, internals |-> FALSE]]

\* A project approved from its leaves up: a claim rests on claims after it, on no
\* more of them than a list holds, and the first stands on all the others.
ClaimsInit ==
    \E e \in SUBSET {x \in Ids \X Ids : x[1] < x[2]} :
        /\ part = "claims" => \A d \in Ids \ {1} : \E c \in Ids : <<c, d>> \in e
        /\ part # "claims" => e = {}
        /\ claims = Approved(e)
        /\ \A c \in Ids : claims[c].rests \in Lists

Init ==
    /\ part \in DOMAIN MaxEdits
    /\ ClaimsInit
    /\ rec = [c \in Ids |-> [text |-> claims[c].text, released |-> FALSE]]
    /\ base = [c \in Ids |-> Baselines(c)]
    /\ flags = {}
    /\ embodiment = [c \in {1, 2} |-> [mode |-> "none", checks |-> <<>>]]
    /\ input = [state |-> "absent", observations |-> <<>>]
    /\ LinksInit
    /\ AssetsInit
    /\ InboxInit
    /\ RecoveryInit
    /\ part # "recovery" => edited.content = [body |-> <<>>, field |-> <<>>]
    /\ SkillsInit
    /\ part # "skills" => guide = NoFile /\ agents = NoFile
    /\ ManifestInit
    /\ NewInit
    /\ edits = 0

Next ==
    \/ \E c \in Here : EditClaim(c) \/ Comment(c) \/ Flag(c) \/ Approve(c) \/ Release(c) \/ DeleteClaim(c)
    \/ \E c \in DOMAIN embodiment : Declare(c)
    \/ Observe
    \/ Linking
    \/ Serving
    \/ Reviewing
    \/ Recovering
    \/ Exporting
    \/ Presenting
    \/ Authoring

Spec == Init /\ [][Next]_vars

-----------------------------------------------------------------------------
(* Reference definitions. *)

\* The ways down from r: no claim twice, each but the first and the last one
\* that can be passed through.
Ways(r) ==
    LET f[n \in 1..MaxId] ==
          IF n = 1 THEN {<<r>>}
          ELSE LET seen == f[n-1]
                   open == {p \in seen : Len(p) = n - 1 /\ (n = 2 \/ Last(p) \in Eligible)}
               IN seen \cup UNION {{Append(p, d) : d \in (restsOn(Last(p)) \cap Here) \ ToSet(p)} : p \in open}
    IN f[MaxId]

\* Everything r stands on, itself included, however it is reached.
Below(r) ==
    LET f[n \in 1..MaxId] ==
          IF n = 1 THEN {r}
          ELSE LET seen == f[n-1]
               IN seen \cup UNION {restsOn(u) \cap Here : u \in seen \cap (Eligible \cup {r})}
    IN f[MaxId]

Sound(u) ==
    /\ u \in Eligible /\ LocalApproved(u) /\ ~claims[u].open /\ u \notin flags
    /\ restsOn(u) \subseteq Here
    /\ \A d \in restsOn(u) : base[u][d] = claims[d].text

-----------------------------------------------------------------------------
(* Properties, each of the part whose files it reads. *)

ClaimsTyped ==
    /\ Here \subseteq Ids /\ claims \in [Here -> Claim]
    /\ rec \in [Ids -> Record \cup {None}]
    /\ base \in [Ids -> [Ids -> Texts \cup {None}]]
    /\ flags \subseteq Ids

TypeOK ==
    /\ ClaimsTyped /\ edits \in 0..MaxEdits[part]
    /\ DOMAIN links \subseteq LinkKeys /\ \A k \in DOMAIN links : links[k] \in Row
    /\ stands \in [Owned -> Standing]

\* A claim is reported ready exactly when everything it stands on is sound and
\* nothing it stands on stands on itself.
ReadyMeansSound(assessed) ==
    \A a \in assessed : Ready(a) <=>
        \A u \in Below(a.claim) : Sound(u) /\ \A d \in restsOn(u) : u \notin Below(d)

\* The path given to each dependency is the first of the shortest ways to it.
LeastPaths ==
    \A r \in Here :
        LET ways == Ways(r)
            paths == Levels(r)
        IN /\ DOMAIN paths = {Last(p) : p \in ways}
           /\ \A p \in ways : p = paths[Last(p)] \/ Shorter(paths[Last(p)], p)

\* Nothing an integrating project reads names a claim kept internal.
NoInternalsLeak == part = "claims" => \A c \in InternalsIDs : c \notin Mentioned

\* Every step of every path that explains an assessment is drawn in the graph,
\* or its target is not a claim and the pane counts it as dropped.
PathsDrawn(assessed) ==
    LET drawn == {<<e[1], claims[e[1]].rests[e[2]]>> : e \in GraphEdges}
        counted == {<<e[1], claims[e[1]].rests[e[2]]>> : e \in Dropped}
    IN \A a \in assessed : \A e \in a.conditions \cup a.causes : \A i \in 1..(Len(e.path) - 1) :
          LET step == <<e.path[i], e.path[i+1]>>
          IN IF step[2] \in Here THEN step \in drawn ELSE step \in counted

\* Inductive: a claim that is compared has something to compare.
DeclaredTyped ==
    /\ embodiment \in [{1, 2} -> [mode: {"none", "compare"},
                                  checks: Seq([key: Keys, shape: Shapes, value: Words])]]
    /\ \A c \in {1, 2} : embodiment[c].mode = "compare" => embodiment[c].checks # <<>>

InputTyped ==
    input.observations \in Seq([key: Keys, shape: Shapes \cup {"none"}, value: Seq(Members), error: BOOLEAN])

\* A claim's code is reported ready only when one well-formed observation of
\* each of its checks, and of nothing twice, says what the claim says.
ReadyMeansObserved ==
    \A c \in DOMAIN embodiment : embodiment[c].mode = "compare" /\ ImplementationReady(c) =>
        /\ input.state = "read"
        /\ \A i \in DOMAIN input.observations : validObservation(input.observations[i])
        /\ \A k \in ToSet(embodiment[c].checks) :
              LET of == {i \in DOMAIN input.observations : input.observations[i].key = k.key}
              IN /\ Cardinality(of) = 1
                 /\ \A i \in of : LET o == input.observations[i]
                                 IN ~o.error /\ o.shape = k.shape /\ ToSet(o.value) = ToSet(k.value)

\* The two bounds refuse exactly the reports whose encoding is too large.
CapacityExact == EvaluateRefuses <=> Encoded > MaxOutputBytes

\* Assessments are right, and their evidence is: ready means sound, and the path
\* shown for a cause is a least one and is drawn in the graph.
ReadinessTrue ==
    /\ TypeOK
    /\ part = "claims" => LET assessed == Assessments
                           IN ReadyMeansSound(assessed) /\ LeastPaths /\ PathsDrawn(assessed)

\* What a reading takes from another part is there: code is reported ready only on
\* complete, well-formed observations of what the claims say (conformance.go), and a
\* module whose manifest has no finding pins what another provides (manifest.go).
ProvidedTrue ==
    /\ part = "conformance" => ReadyMeansObserved
    /\ part = "manifests" => PinsProvided

\* Bounds refuse what they must and nothing else: the report's output, and the budgets
\* of the manifests, whose excess is blamed on the entry that crosses them.
BoundsExact ==
    /\ part = "conformance" => CapacityExact
    /\ part = "manifests" => ViewsFit

\* The link gate and the absence of drift both mean that the code is tagged, as far as a
\* scan or a link could see: a file saved after its tags were read and before its
\* fingerprint was taken is excepted while its row stands (raced, in Links).
LinksTrue == part = "links" => GateMeansTagged /\ UndriftedAreTagged

\* What a client is shown stands: an image is one a claim file refers to
\* (claim_assets.go), and the wording a record keeps was approved (recover.go).
ShownIsTrue ==
    /\ part = "assets" => AssetsFresh
    /\ part = "recovery" => KeptIsSigned

\* The polls of an inbox pass over no open thread that comments are written on, also
\* while they read, but one that a single poll both read before it was written and
\* passed with a newer one it read after (comment.go).
InboxTrue == part = "inbox" => InboxComplete

\* comment.go:646-650 promises it of every thread: the next poll "cannot miss a thread
\* that arrived between two calls", as passing the wall clock "would silently drop
\* anything written while the previous call was running".
InboxMissesNone == part = "inbox" => \A i \in Places : Reaches(i)

\* The panel of an edited claim reads back to what was approved and what is there.
PanelsTrue == part = "recovery" => PanelTrue

\* Exported skills are the release's, edits of them are named, and the project's
\* own files are left alone.
SkillsTrue == part = "skills" => SkillsSound

=============================================================================
