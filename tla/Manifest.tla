------------------------------- MODULE Manifest -------------------------------
(***************************************************************************)
(* The module manifests: one file per module that says what it is for,     *)
(* which of its contract claims other modules may pin (provides) and which *)
(* of theirs it pins (depends_on).  check and claim lock refuse the        *)
(* findings of checkTree; manifest show and the viewer's Manifest tab read *)
(* the same files.                                                         *)
(*                                                                         *)
(* A claim is a number, in the order of the ids; its module and facet are  *)
(* in its id.  A text is one of Blurbs, with its length in characters and  *)
(* in bytes, and every other piece of JSON is one byte.                    *)
(***************************************************************************)
EXTENDS Integers, SequencesExt

CONSTANTS
    Home,             \* the module of each claim, NoModule for a project claim, and its facet
    NoModule,
    Modules,          \* the modules of the project, in their order
    Blurbs,           \* the texts a summary can be
    Characters(_), Width(_),
    MaxSummaryRunes,
    SharedBudgetBytes, ModuleBudgetBytes

ASSUME BudgetAssumption ==
    /\ SharedBudgetBytes \in Nat /\ ModuleBudgetBytes \in Nat
    /\ {"none", "plain"} \subseteq Blurbs /\ \A b \in Blurbs : Width(b) \in Nat

ASSUME HomeAssumption ==
    /\ DOMAIN Home \subseteq Nat \ {0} /\ IsFiniteSet(DOMAIN Home)
    /\ \A c \in DOMAIN Home : Home[c].module \in ToSet(Modules) \cup {NoModule}

VARIABLES
    cards,         \* the summary of each claim of the project
    files,         \* the manifest of each module that has one
    stray,         \* a manifest file lies anywhere else
    constitution   \* the text every module is shown

manifestVars == <<cards, files, stray, constitution>>

Numbers == DOMAIN Home

Empty == [decodes |-> TRUE, summary |-> "none", provides |-> <<>>, depends |-> <<>>]

\* What decodeManifest makes of a file that is no manifest.
decodeManifest(m) == IF m \in DOMAIN files /\ files[m].decodes THEN files[m] ELSE Empty

Parsed == {m \in DOMAIN files : files[m].decodes}

ModuleClaims(m) == {c \in DOMAIN cards : Home[c].module = m}

IsContract(c) == c \in DOMAIN cards /\ Home[c].module # NoModule /\ Home[c].facet = "contract"

-----------------------------------------------------------------------------
(* The sizes of manifest show --isolation. *)

Commas(n) == IF n = 0 THEN 0 ELSE n - 1

ListBytes(n) == n + Commas(n)

SummaryLines(S) == SumFunction([c \in S |-> 1 + Width(cards[c])]) + Commas(Cardinality(S))

\* The manifest, the claims' summaries and the suggested provides.
measureIsolation(file, m) ==
    Width(file.summary) + ListBytes(Len(file.provides)) + ListBytes(Len(file.depends))
      + SummaryLines(ModuleClaims(m))
      + ListBytes(Cardinality({c \in ModuleClaims(m) : IsContract(c)}))

\* The project's claims in the order of their ids.
ProjectIndex ==
    LET S == ModuleClaims(NoModule)
    IN CHOOSE s \in [1..Cardinality(S) -> S] : \A i, j \in DOMAIN s : i < j => s[i] < s[j]

SharedBytes == 2 + Width(constitution) + SummaryLines(ModuleClaims(NoModule))

\* A comma after every entry.
sharedSizesTrailing ==
    LET size[i \in 0..Len(ProjectIndex)] ==
          IF i = 0 THEN 2 + Width(constitution) ELSE size[i-1] + 2 + Width(cards[ProjectIndex[i]])
    IN size

\* The size with each entry added in turn, after the comma before all but the first.
sharedSizes ==
    LET size[i \in 0..Len(ProjectIndex)] ==
          IF i = 0 THEN 2 + Width(constitution)
          ELSE size[i-1] + 1 + Width(cards[ProjectIndex[i]]) + IF i > 1 THEN 1 ELSE 0
    IN size

\* The first entry that crosses the budget, 0 when the constitution alone does.
CheckSharedBudget ==
    LET size == sharedSizes
        over == {i \in DOMAIN size : size[i] > SharedBudgetBytes}
    IN IF over = {} THEN [over |-> FALSE]
       ELSE [over |-> TRUE, bytes |-> size[Len(ProjectIndex)],
             claim |-> LET i == CHOOSE i \in over : \A j \in over : i <= j
                       IN IF i = 0 THEN 0 ELSE ProjectIndex[i]]

-----------------------------------------------------------------------------
(* module-manifest: a finding is the module it is about and what it says. *)

Finding(m, what, c) == [module |-> m, what |-> what, claim |-> c]

When(condition, f) == IF condition THEN {f} ELSE {}

Repeats(s, i) == \E j \in 1..(i-1) : s[j] = s[i]

\* The first thing wrong with each id listed; 0 is an empty id.
checkIDs(m, s, provides) ==
    {Finding(m, "empty id", 0) : i \in {i \in DOMAIN s : s[i] = 0}}
    \cup {Finding(m, "twice", s[i]) : i \in {i \in DOMAIN s : s[i] # 0 /\ Repeats(s, i)}}
    \cup {Finding(m, "not a contract claim", s[i]) :
            i \in {i \in DOMAIN s : s[i] # 0 /\ ~Repeats(s, i) /\ ~IsContract(s[i])}}
    \cup {Finding(m, IF provides THEN "not its own" ELSE "its own", s[i]) :
            i \in {i \in DOMAIN s : s[i] # 0 /\ ~Repeats(s, i) /\ IsContract(s[i])
                                      /\ (Home[s[i]].module = m) # provides}}

fieldFindings(m) ==
    LET file == decodeManifest(m)
    IN When(Characters(file.summary) = 0, Finding(m, "no summary", 0))
       \cup When(Characters(file.summary) > MaxSummaryRunes, Finding(m, "long summary", 0))
       \cup checkIDs(m, file.provides, TRUE)
       \cup checkIDs(m, file.depends, FALSE)

\* Checked while the manifests are decoded, one after another.
UnexportedSoFar(m) ==
    {Finding(m, "not provided", c) : c \in
        {c \in ToSet(decodeManifest(m).depends) :
            /\ IsContract(c) /\ Home[c].module # m
            /\ \E i, j \in DOMAIN Modules : i < j /\ Modules[i] = Home[c].module /\ Modules[j] = m
            /\ c \notin ToSet(decodeManifest(Home[c].module).provides)}}

\* A module may only pin what its provider exports; a provider whose own file
\* does not decode is not consulted.
Unexported(m) ==
    {Finding(m, "not provided", c) : c \in
        {c \in ToSet(decodeManifest(m).depends) :
            /\ IsContract(c) /\ Home[c].module # m
            /\ Home[c].module \in Parsed
            /\ c \notin ToSet(decodeManifest(Home[c].module).provides)}}

\* The claims measured, and not the manifest.
moduleBudgetFindingsClaims(m) ==
    When(measureIsolation(Empty, m) > ModuleBudgetBytes, Finding(m, "too large", 0))

moduleBudgetFindings(m) ==
    When(measureIsolation(decodeManifest(m), m) > ModuleBudgetBytes, Finding(m, "too large", 0))

checkTree ==
    (UNION {IF m \notin DOMAIN files THEN {Finding(m, "missing", 0)}
            ELSE IF m \notin Parsed THEN {Finding(m, "not a manifest", 0)}
            ELSE fieldFindings(m) \cup Unexported(m) : m \in ToSet(Modules)})
    \cup (UNION {moduleBudgetFindings(m) : m \in ToSet(Modules)})
    \cup When(stray, Finding(NoModule, "not a module manifest", 0))

\* What refuses the locking of a claim of m, manifest show m and its tab.
Findings(m) == {f \in checkTree : f.module \in {m, NoModule}}

-----------------------------------------------------------------------------
(* manifest show. *)

Isolation(m) ==
    [refused |-> measureIsolation(decodeManifest(m), m) > ModuleBudgetBytes,
     bytes |-> SharedBytes + measureIsolation(decodeManifest(m), m)]

Edges(m) ==
    {c \in ToSet(decodeManifest(m).depends) :
        c \in DOMAIN cards /\ Home[c].module \notin {NoModule, m}}

providedClaims(m) == {c \in ToSet(decodeManifest(m).provides) : IsContract(c) /\ Home[c].module = m}

Neighbors(m) == {[module |-> Home[c].module, provides |-> providedClaims(Home[c].module)] : c \in Edges(m)}

-----------------------------------------------------------------------------

\* Every module exports its contract claims, and pins nothing.
ManifestInit ==
    /\ cards = [c \in Numbers |-> "plain"]
    /\ files = [m \in ToSet(Modules) |->
                  [decodes |-> TRUE, summary |-> "plain", depends |-> <<>>,
                   provides |-> SetToSeq({c \in Numbers : Home[c] = [module |-> m, facet |-> "contract"]})]]
    /\ stray = FALSE
    /\ constitution = "plain"

SaveManifest(m) ==
    /\ \/ m \in DOMAIN files /\ files' = [k \in DOMAIN files \ {m} |-> files[k]]
       \/ m \notin DOMAIN files /\ files' = [k \in DOMAIN files \cup {m} |-> IF k = m THEN Empty ELSE files[k]]
       \/ /\ m \in DOMAIN files
          /\ \/ \E s \in Blurbs : files' = [files EXCEPT ![m].summary = s]
             \/ \E c \in Numbers \cup {0} : \/ files' = [files EXCEPT ![m].provides = Append(@, c)]
                                          \/ files' = [files EXCEPT ![m].depends = Append(@, c)]
             \/ files[m].provides # <<>> /\ files' = [files EXCEPT ![m].provides = Tail(@)]
             \/ files' = [files EXCEPT ![m].decodes = ~@]
    /\ UNCHANGED <<cards, stray, constitution>>

EditCard(c) ==
    /\ \/ c \in DOMAIN cards /\ cards' = [d \in DOMAIN cards \ {c} |-> cards[d]]
       \/ c \in DOMAIN cards /\ \E s \in Blurbs \ {"none"} : cards' = [cards EXCEPT ![c] = s]
    /\ UNCHANGED <<files, stray, constitution>>

EditShared ==
    /\ \/ stray' = ~stray /\ UNCHANGED constitution
       \/ UNCHANGED stray /\ \E s \in Blurbs : constitution' = s
    /\ UNCHANGED <<cards, files>>

ManifestEdit == (\E m \in ToSet(Modules) : SaveManifest(m)) \/ (\E c \in Numbers : EditCard(c)) \/ EditShared

-----------------------------------------------------------------------------

\* "A module may only depend on what its provider exports": what a module without
\* a finding pins is another module's contract claim, and manifest show
\* --integration shows it among what that module provides, unless that module's
\* own file is not to be read, which is a finding of that module.
PinsProvided ==
    \A m \in ToSet(Modules) : Findings(m) = {} =>
        \A c \in ToSet(decodeManifest(m).depends) :
            /\ c \in Edges(m) /\ IsContract(c)
            /\ \/ Findings(Home[c].module) # {} /\ Home[c].module \notin Parsed
               \/ \E n \in Neighbors(m) : n.module = Home[c].module /\ c \in n.provides

\* Inductive: the claims and the manifests are the project's.
ManifestsKept == DOMAIN cards \subseteq Numbers /\ DOMAIN files \subseteq ToSet(Modules)

ManifestsTyped ==
    /\ ManifestsKept /\ cards \in [DOMAIN cards -> Blurbs] /\ constitution \in Blurbs
    /\ files \in [DOMAIN files -> [decodes: BOOLEAN, summary: Blurbs,
                                   provides: Seq(Numbers \cup {0}), depends: Seq(Numbers \cup {0})]]

\* The shared budget is found exceeded exactly when the shared text is too large,
\* at its true size, and is blamed on the first claim that does not fit.
SharedBlame ==
    LET found == CheckSharedBudget
        upTo(c) == 2 + Width(constitution) + SummaryLines({d \in ModuleClaims(NoModule) : d <= c})
    IN /\ found.over <=> SharedBytes > SharedBudgetBytes
       /\ found.over => /\ found.bytes = SharedBytes
                        /\ upTo(found.claim) > SharedBudgetBytes
                        /\ \A c \in ModuleClaims(NoModule) \cup {0} :
                              c < found.claim => upTo(c) <= SharedBudgetBytes

\* "A view inside both budgets is inside the whole cap": what check lets pass,
\* manifest show --isolation prints, within the sum of the two budgets, and an
\* overflow of the text all modules share is blamed on the claim that causes it.
ViewsFit ==
    /\ \A m \in ToSet(Modules) : Findings(m) = {} =>
          /\ ~Isolation(m).refused
          /\ ~CheckSharedBudget.over => Isolation(m).bytes <= SharedBudgetBytes + ModuleBudgetBytes
    /\ SharedBlame
=============================================================================
