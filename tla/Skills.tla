------------------------------- MODULE Skills -------------------------------
(***************************************************************************)
(* dossierx skills export and skills export --check: the skill trees a     *)
(* release writes, the lock beside each, the retired bundles and guide an  *)
(* older release left, and the section of AGENTS.md.                       *)
(*                                                                         *)
(* A bundle has one file, whose content is the release that wrote it,      *)
(* "edited" or "torn".  AGENTS.md is a sequence of the section's markers,  *)
(* line ends and pieces of text.                                           *)
(***************************************************************************)
EXTENDS Naturals, Sequences, SequencesExt

CONSTANTS
    Trees,      \* the skill trees of the project, in the order they are written
    Releases,   \* the releases of the binary
    Ships,      \* the bundles each release ships
    Own,        \* directories of the project's own beside the bundles
    NoFile      \* what is not there

Bundles == UNION {Ships[r] : r \in Releases}

\* The lock of a release lists what it ships.
LockOf(r) == [b \in Ships[r] |-> r]

ASSUME SkillsAssumption ==
    /\ Own \cap Bundles = {}
    /\ NoFile \notin Releases \cup {"edited", "torn"} /\ \A r \in Releases : NoFile # LockOf(r)
    /\ Releases \cap {"edited", "torn", "BEGIN", "END"} = {}
    /\ Trees \in Seq({Trees[i] : i \in DOMAIN Trees}) /\ Trees # <<>>

VARIABLES
    dirs,     \* by tree: the content of each directory's file
    locks,    \* by tree: the lock, the content recorded for each bundle it lists
    guide,    \* the retired guide of an old release: generated, the project's own, or none
    agents,   \* AGENTS.md, NoFile when the project has none
    export,   \* the export under way
    touched,  \* ghost: the files a person wrote, and the bundles completed exports wrote
    spent     \* ghost: what interfered: killed exports, removed locks, cut markers

skillVars == <<dirs, locks, guide, agents, export, touched, spent>>

-----------------------------------------------------------------------------
(* AGENTS.md. *)

buildAgentsSection(r) == <<"BEGIN", r, "END", "\n">>

Index(s, x, from) ==
    LET at == {i \in DOMAIN s : i >= from /\ s[i] = x}
    IN IF at = {} THEN 0 ELSE Min(at)

\* Mutant of spliceAgentsSection: the newline after the end marker is kept.
spliceAgentsSectionGrowing(existing, section) ==
    LET begin == Index(existing, "BEGIN", 1)
        end == IF begin = 0 THEN 0 ELSE Index(existing, "END", begin)
    IN IF end # 0
       THEN SubSeq(existing, 1, begin - 1) \o section \o SubSeq(existing, end + 1, Len(existing))
       ELSE existing \o (IF existing = <<>> THEN <<>> ELSE <<"\n">>) \o section

\* The section replaces what stands between the first marker and the first end
\* after it; without both it is appended after a blank line.
spliceAgentsSection(existing, section) ==
    LET begin == Index(existing, "BEGIN", 1)
        end == IF begin = 0 THEN 0 ELSE Index(existing, "END", begin)
        rest == SubSeq(existing, end + 1, Len(existing))
        ended == existing = <<>> \/ Last(existing) = "\n"
    IN IF end # 0
       THEN SubSeq(existing, 1, begin - 1) \o section \o (IF rest # <<>> /\ Head(rest) = "\n" THEN Tail(rest) ELSE rest)
       ELSE existing \o (IF ended THEN <<>> ELSE <<"\n">>) \o (IF existing = <<>> THEN <<>> ELSE <<"\n">>) \o section

-----------------------------------------------------------------------------
(* skills export --check. *)

\* The lists the check refuses on, for one tree.
checkSkillTree(r, t) ==
    LET present == {b \in Ships[r] : dirs[t][b] # NoFile}
        differ == {b \in present : dirs[t][b] # r}
    IN [missing |-> Ships[r] \ present,
        unverified |-> IF locks[t] = NoFile THEN differ ELSE {},
        stale |-> IF locks[t] = NoFile THEN {} ELSE {b \in differ : b \in DOMAIN locks[t] /\ locks[t][b] = dirs[t][b]},
        handEdited |-> IF locks[t] = NoFile THEN {}
                       ELSE {b \in differ : b \notin DOMAIN locks[t] \/ locks[t][b] # dirs[t][b]},
        retired |-> {b \in Bundles \ Ships[r] : dirs[t][b] # NoFile}]

-----------------------------------------------------------------------------
(* skills export, one write after another. *)

NoExport == [pc |-> "idle", release |-> NoFile, tree |-> 0]

SkillsInit ==
    /\ dirs = [t \in DOMAIN Trees |-> [b \in Bundles \cup Own |-> IF b \in Own THEN "edited" ELSE NoFile]]
    /\ locks = [t \in DOMAIN Trees |-> NoFile]
    /\ guide \in {"generated", "own", NoFile}
    /\ agents \in {NoFile, <<>>, <<"above">>, <<"above", "\n", "below", "\n">>}
    /\ export = NoExport
    /\ touched = [by |-> [t \in DOMAIN Trees |-> Own], exported |-> [t \in DOMAIN Trees |-> {}]]
    /\ spent = {}

BeginExport(r) ==
    /\ export.pc = "idle"
    /\ export' = [pc |-> "guide", release |-> r, tree |-> 1]
    /\ UNCHANGED <<dirs, locks, guide, agents, touched, spent>>

\* Only a guide that opens with the generated header is removed.
removeRetiredGuides ==
    /\ export.pc = "guide"
    /\ guide' = IF guide = "generated" THEN NoFile ELSE guide
    /\ export' = [export EXCEPT !.pc = "prune"]
    /\ UNCHANGED <<dirs, locks, agents, touched, spent>>

Retired(r, t) ==
    IF locks[t] = NoFile THEN {} ELSE {b \in DOMAIN locks[t] \ Ships[r] : dirs[t][b] # NoFile}

\* One retired bundle the tree's lock lists is removed, or the writes begin.
pruneRetiredSkills ==
    /\ export.pc = "prune"
    /\ LET t == export.tree
           retired == Retired(export.release, t)
       IN IF retired = {}
          THEN export' = [export EXCEPT !.pc = "write"] /\ UNCHANGED <<dirs, touched>>
          ELSE \E b \in retired : /\ dirs' = [dirs EXCEPT ![t][b] = NoFile]
                                  /\ touched' = [touched EXCEPT !.by[t] = @ \ {b}, !.exported[t] = @ \ {b}]
                                  /\ UNCHANGED export
    /\ UNCHANGED <<locks, guide, agents, spent>>

\* One file of the bundle is written.
WriteSkill ==
    /\ export.pc = "write"
    /\ \E b \in Ships[export.release] :
          /\ dirs[export.tree][b] # export.release
          /\ dirs' = [dirs EXCEPT ![export.tree][b] = export.release]
          /\ touched' = [touched EXCEPT !.by[export.tree] = @ \ {b}]
    /\ UNCHANGED <<locks, guide, agents, export, spent>>

\* The lock comes after the files, and the retired bundles went before both.
NextTree == IF export.tree = Len(Trees) THEN [export EXCEPT !.pc = "agents"]
            ELSE [export EXCEPT !.pc = "prune", !.tree = @ + 1]

WriteLock ==
    /\ export.pc = "write"
    /\ \A b \in Ships[export.release] : dirs[export.tree][b] = export.release
    /\ locks' = [locks EXCEPT ![export.tree] = LockOf(export.release)]
    /\ touched' = [touched EXCEPT !.exported[export.tree] = @ \cup Ships[export.release]]
    /\ export' = NextTree
    /\ UNCHANGED <<dirs, guide, agents, spent>>

WriteAgents ==
    /\ export.pc = "agents"
    /\ agents' = IF agents = NoFile THEN NoFile ELSE spliceAgentsSection(agents, buildAgentsSection(export.release))
    /\ export' = [export EXCEPT !.pc = "done"]
    /\ UNCHANGED <<dirs, locks, guide, touched, spent>>

ExportEnds ==
    /\ export.pc = "done"
    /\ export' = NoExport
    /\ UNCHANGED <<dirs, locks, guide, agents, touched, spent>>

\* The command is killed, between two writes or in the middle of one.
KillExport ==
    /\ export.pc \notin {"idle", "done"}
    /\ export' = NoExport
    /\ spent' = spent \cup {"killed"}
    /\ \/ UNCHANGED <<dirs, touched>>
       \/ /\ export.pc = "write"
          /\ \E b \in Ships[export.release] : dirs' = [dirs EXCEPT ![export.tree][b] = "torn"]
          /\ UNCHANGED touched
    /\ UNCHANGED <<locks, guide, agents>>

-----------------------------------------------------------------------------
(* What people do. *)

\* A file is rewritten, or a directory put there by hand.
EditSkill ==
    /\ export.pc = "idle"
    /\ \E t \in DOMAIN Trees, b \in Bundles :
          /\ dirs' = [dirs EXCEPT ![t][b] = "edited"]
          /\ touched' = [touched EXCEPT !.by[t] = @ \cup {b}]
    /\ UNCHANGED <<locks, guide, agents, export, spent>>

RemoveLock ==
    /\ export.pc = "idle"
    /\ \E t \in DOMAIN Trees : locks[t] # NoFile /\ locks' = [locks EXCEPT ![t] = NoFile]
    /\ spent' = spent \cup {"lock"}
    /\ UNCHANGED <<dirs, guide, agents, export, touched>>

\* Words are added under the section, or its end marker is lost.
EditAgents ==
    /\ export.pc = "idle" /\ agents # NoFile
    /\ \/ agents' = Append(agents, "below") /\ UNCHANGED spent
       \/ /\ "END" \in ToSet(agents)
          /\ agents' = SelectSeq(agents, LAMBDA x : x # "END")
          /\ spent' = spent \cup {"marker"}
    /\ UNCHANGED <<dirs, locks, guide, export, touched>>

SkillsEdit == EditSkill \/ RemoveLock \/ EditAgents \/ KillExport \/ \E r \in Releases : BeginExport(r)

SkillsStep == removeRetiredGuides \/ pruneRetiredSkills \/ WriteSkill \/ WriteLock \/ WriteAgents \/ ExportEnds

-----------------------------------------------------------------------------

\* An export heals: whatever was edited, torn or left by another release, the
\* check of the same release then finds only what no export proved it wrote.
ExportHeals ==
    export.pc = "done" => \A t \in DOMAIN Trees :
        LET found == checkSkillTree(export.release, t)
        IN /\ found.missing \cup found.unverified \cup found.stale \cup found.handEdited = {}
           /\ "lock" \notin spent => found.retired \cap touched.exported[t] = {}

\* Any release's check says of a file that it was rewritten exactly when a
\* person did, unless an export was killed or a lock lost.
EditsNamed ==
    export.pc = "idle" /\ spent \cap {"killed", "lock"} = {} =>
        \A r \in Releases, t \in DOMAIN Trees : locks[t] # NoFile =>
            checkSkillTree(r, t).handEdited = {b \in Ships[r] : dirs[t][b] # NoFile} \cap touched.by[t]

\* The export leaves the project's own directories alone, what it wrote is what the
\* check expects, and, while the section of AGENTS.md has both its markers,
\* exporting twice writes what exporting once did.
SkillsSound ==
    /\ ExportHeals
    /\ EditsNamed
    /\ \A t \in DOMAIN Trees, b \in Own : dirs[t][b] = "edited"
    /\ export.pc = "done" /\ agents # NoFile /\ "marker" \notin spent =>
          agents = spliceAgentsSection(agents, buildAgentsSection(export.release))

Pieces == Releases \cup {"BEGIN", "END", "\n", "above", "below"}

SkillsTyped ==
    /\ dirs \in [DOMAIN Trees -> [Bundles \cup Own -> Releases \cup {"edited", "torn", NoFile}]]
    /\ locks \in [DOMAIN Trees -> {LockOf(r) : r \in Releases} \cup {NoFile}]
    /\ export \in {NoExport} \cup
          [pc: {"guide", "prune", "write", "agents", "done"}, release: Releases, tree: DOMAIN Trees]
    /\ export.pc = "guide" => export.tree = 1
    /\ touched \in [by: [DOMAIN Trees -> SUBSET (Bundles \cup Own)], exported: [DOMAIN Trees -> SUBSET Bundles]]

\* The trees the export under way is over with.
Behind ==
    CASE export.pc \in {"prune", "write"} -> 1..(export.tree - 1)
      [] export.pc \in {"agents", "done"} -> DOMAIN Trees
      [] OTHER -> {}

Recorded(t, b) == locks[t] # NoFile /\ b \in DOMAIN locks[t] /\ locks[t][b] = dirs[t][b]

\* A section that begins also ends.
Whole(s) == LET begin == Index(s, "BEGIN", 1) IN begin # 0 => Index(s, "END", begin) # 0

OwnKept == \A t \in DOMAIN Trees, b \in Own : dirs[t][b] = "edited"

\* A tree the export is over with has the release, and nothing an earlier one left.
BehindDone ==
    \A t \in Behind : /\ \A b \in Ships[export.release] : dirs[t][b] = export.release
                      /\ "lock" \notin spent => touched.exported[t] \subseteq Ships[export.release]

\* What exports wrote still stands, and the tree's lock lists it.
ExportedStands ==
    \A t \in DOMAIN Trees : \A b \in touched.exported[t] :
        dirs[t][b] # NoFile /\ ("lock" \notin spent => locks[t] # NoFile /\ b \in DOMAIN locks[t])

NothingRetired == export.pc = "write" => Retired(export.release, export.tree) = {}

EditsKnown ==
    "killed" \notin spent => \A t \in DOMAIN Trees, b \in Bundles :
        dirs[t][b] # "torn" /\ (b \in touched.by[t] <=> dirs[t][b] = "edited")

\* A release's file is what the lock recorded, or what this export has just written.
LocksTell ==
    spent \cap {"killed", "lock"} = {} => \A t \in DOMAIN Trees, b \in Bundles :
        dirs[t][b] \in Releases =>
           \/ Recorded(t, b)
           \/ export.pc = "write" /\ t = export.tree /\ b \in Ships[export.release] /\ dirs[t][b] = export.release

SectionKept ==
    agents # NoFile /\ "marker" \notin spent =>
        /\ agents \in Seq(Pieces) /\ Whole(agents)
        /\ export.pc = "done" => agents = spliceAgentsSection(agents, buildAgentsSection(export.release))

\* Inductive.
SkillsInv ==
    /\ SkillsTyped
    /\ OwnKept
    /\ BehindDone
    /\ ExportedStands
    /\ NothingRetired
    /\ EditsKnown
    /\ LocksTell
    /\ SectionKept
=============================================================================
