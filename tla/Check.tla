-------------------------------- MODULE Check --------------------------------
(***************************************************************************)
(* "dossierx check" and its three siblings.                                *)
(*                                                                         *)
(* Plain check lints, scans, renders, writes the generated files and then  *)
(* gates; "--validate" and GET /api/status ask the same of the same files  *)
(* without writing; "--staged" asks it of the git index, from the          *)
(* pre-commit hook.  A project is a tree of files; there are three of      *)
(* them: the working tree, the index and the last commit.  A plain check   *)
(* reads and writes file by file while people, other commands and git      *)
(* change the trees, and it may be killed between any two writes.          *)
(*                                                                         *)
(* What the ledger audit, the lints and the projections find in detail is  *)
(* the business of Approval, Briefs and Dossier: here a file is as good or *)
(* as bad as the gates can tell.                                           *)
(***************************************************************************)
EXTENDS Naturals, FiniteSets

CONSTANTS
    Editable,    \* the files people and commands change
    Claims,      \* the values the claim file takes
    MaxEdits,    \* bound on the changes to the working tree
    MaxStages,   \* bound on the paths staged or untracked
    MaxRuns      \* bound on the plain checks

Absent == "absent"

\* The contents of each file, as far as a gate tells them apart.
Content ==
    [config |-> {Absent, "plain", "outside", "sources", "compare", "blocking"},
     claim  |-> {Absent, "draft", "bad", "locked", "drifted", "link"},
     store  |-> {Absent, "roof", "approval", "unreadable"},
     digest |-> {Absent, "kept", "emptied", "unreadable"},
     flags  |-> {Absent, "kept", "unreadable"},
     roof   |-> {"locked", "edited"},
     obs    |-> {"match", "mismatch", "bad", "huge"},
     code   |-> {"linked", "unlinked", "mistagged"},
     pages  |-> {"small", "hugeCatalog", "hugeViewer"},
     ignore |-> {"none", "build"},
     legacy |-> {Absent, "store"}]

Files == DOMAIN Content

ASSUME CheckAssumption == /\ Editable \subseteq Files /\ Claims \subseteq Content["claim"]
                          /\ MaxEdits \in Nat /\ MaxStages \in Nat /\ MaxRuns \in Nat

VARIABLES
    work,     \* the working tree
    index,    \* the git index
    head,     \* the last commit
    build,    \* the generated files
    run,      \* the plain check in progress, or the last one
    edits, stages   \* how much happened, for the bounds

vars == <<work, index, head, build, run, edits, stages>>

\* A project everybody agrees about: one locked claim, its approval, its digest.
Good == [config |-> "plain", claim |-> "locked", store |-> "approval", digest |-> "kept",
         flags |-> Absent, roof |-> "locked", obs |-> "match", code |-> "linked",
         pages |-> "small", ignore |-> "none", legacy |-> Absent]

Tree(t) == t = [f \in Files |-> t[f]] /\ \A f \in Files : t[f] \in Content[f]

Steps == {"idle", "loaded", "marker", "catalog", "gitignore", "status", "assets", "viewer",
          "unstatus", "unignore", "unmark", "gate"}

\* The steps a check stops at, as "stopped_at" names them; "" is success.
Phases == {"", "config", "load", "lint", "catalog", "conformance", "render", "scan",
           "ledger", "constitution", "links", "killed"}

Build == [marker: {"none", "owned", "foreign"}, status: {"none", "ours", "foreign"},
          ignore: {"none", "plain", "conformance", "custom"},
          catalog: 0..MaxRuns, assets: 0..MaxRuns, viewer: 0..MaxRuns]

TypeOK ==
    /\ Tree(work) /\ Tree(index) /\ Tree(head)
    /\ build \in Build
    /\ Tree(run.tree)
    /\ run.at \in Steps /\ run.n \in 0..MaxRuns /\ run.owned \in BOOLEAN
    /\ run.stopped \in Phases /\ run.capacity \in BOOLEAN
    /\ edits \in 0..MaxEdits /\ stages \in 0..MaxStages

-----------------------------------------------------------------------------
(***************************************************************************)
(* The gates, on a tree                                                    *)
(***************************************************************************)

LockedClaim(t) == t.claim \in {"locked", "drifted"}

\* The store carries the schema of the lock ledger.
LedgerCovered(t) == t.store \in {"roof", "approval"}

commentDigestAbsent(t) == LedgerCovered(t) /\ t.digest = Absent

\* Every standing approval has its comment digest, and no digest of threads
\* outlives its claim.
commentDigestCoverage(t) ==
    LedgerCovered(t) /\ \/ t.digest = "emptied" /\ t.store = "approval" /\ t.claim # Absent
                        \/ t.digest = "kept" /\ t.claim = Absent

\* lock.Audit, from afar: a locked claim is exactly what was approved, and
\* what was approved is still there, locked.
Audit(t) == \/ LockedClaim(t) /\ t.store # "approval"
            \/ t.claim = "drifted"
            \/ t.store = "approval" /\ ~ LockedClaim(t)

ledgerGate(t) == \/ t.store = "unreadable" \/ t.digest = "unreadable"
                 \/ commentDigestAbsent(t) \/ commentDigestCoverage(t)
                 \/ Audit(t)

\* The constitution is locked when its record is in the store and still matches.
RoofLocked(t) == t.roof = "locked" /\ LedgerCovered(t)

ClaimLintErrors(t) == t.claim = "bad"

\* Gitignored: an ignored path is a finding unless git tracks it all the same.
\* The patterns are those of the tree on disk, whatever is being judged.
Gitignored(disk, tracked) ==
    disk.ignore = "build" /\ \E f \in {"store", "digest", "flags"} : tracked[f] = Absent

Compares(t) == t.config \in {"compare", "blocking"}

\* What conformance.Evaluate makes of the observations.
Evaluate(t) == IF ~ Compares(t) THEN "off"
               ELSE CASE t.obs = "bad" -> "error" [] t.obs = "huge" -> "capacity" [] OTHER -> t.obs

Blocking(t) == t.config = "blocking" /\ Evaluate(t) = "mismatch"

\* Where encoding the catalog and rendering the page overflow their bound.
Overflow(t) == CASE t.pages = "hugeCatalog" -> "catalog" [] t.pages = "hugeViewer" -> "render" [] OTHER -> ""

-----------------------------------------------------------------------------
(***************************************************************************)
(* check.Status, and what --validate and the server make of it             *)
(***************************************************************************)

\* A tree as loadConfig and LoadClaims see it from disk: a link is followed,
\* and what it leads to is a locked claim.
Loaded(t) == [t EXCEPT !.claim = IF @ = "link" THEN "locked" ELSE @]

\* The projections are tried only for a tree whose lints and roof are clean,
\* and bounded only where conformance is configured.
StatusProjection(t) ==
    IF Evaluate(t) \in {"error", "capacity"} THEN "conformance"
    ELSE IF ClaimLintErrors(t) \/ ~ RoofLocked(t) THEN ""
    ELSE IF t.flags = "unreadable" THEN "catalog"
    ELSE IF Compares(t) THEN Overflow(t)
    ELSE ""

status(t, ignored) ==
    [lint     |-> ClaimLintErrors(t),
     ledger   |-> ignored \/ ledgerGate(t),
     roof     |-> RoofLocked(t),
     failed   |-> StatusProjection(t),
     capacity |-> Evaluate(t) = "capacity" \/ (StatusProjection(t) # "" /\ StatusProjection(t) = Overflow(t)
                                               /\ t.flags # "unreadable" /\ Evaluate(t) # "error"),
     blocked  |-> Blocking(t),
     OK       |-> ~ ClaimLintErrors(t) /\ RoofLocked(t) /\ StatusProjection(t) = ""]

\* Where runCheckValidate and runCheckStaged stop, given the result.
StoppedAt(res) ==
    IF res.lint THEN "lint"
    ELSE IF res.failed # "" THEN res.failed
    ELSE IF res.ledger THEN "ledger"
    ELSE IF ~ res.roof THEN "constitution"
    ELSE IF res.blocked THEN "conformance"
    ELSE ""

\* The error code of the same commands.
FailureCode(res) ==
    IF res.lint THEN "lint_failed"
    ELSE IF res.failed # "" /\ res.capacity THEN "conformance_capacity_exceeded"
    ELSE IF res.failed # "" THEN "write_failed"
    ELSE IF res.ledger THEN "integrity_failed"
    ELSE IF ~ res.roof THEN "constitution_not_locked"
    ELSE IF res.blocked THEN "conformance_failed"
    ELSE ""

\* Mutant: the ledger gate is left out of "ok".
statusToDTOWithoutLedger(res) ==
    [ok |-> res.OK /\ ~ res.blocked, phase |-> StoppedAt(res), code |-> FailureCode(res)]

\* statusToDTO, the answer of GET /api/status.
statusToDTO(res) ==
    [ok    |-> res.OK /\ ~ res.ledger /\ ~ res.blocked,
     phase |-> IF res.lint THEN "lint"
               ELSE IF res.capacity \/ res.failed # "" THEN res.failed
               ELSE IF res.ledger THEN (IF res.failed = "" THEN "ledger" ELSE res.failed)
               ELSE IF ~ res.roof THEN "constitution"
               ELSE IF res.blocked THEN "conformance"
               ELSE res.failed,
     code  |-> IF res.lint THEN "lint_failed"
               ELSE IF res.capacity THEN "conformance_capacity_exceeded"
               ELSE IF res.failed # "" THEN "write_failed"
               ELSE IF res.ledger THEN "integrity_failed"
               ELSE IF ~ res.roof THEN "constitution_not_locked"
               ELSE IF res.blocked THEN "conformance_failed"
               ELSE ""]

\* A root-level store of an older release is refused before anything is read.
runCheckValidate(t, tracked) ==
    IF t.config = Absent \/ t.legacy # Absent THEN "config"
    ELSE StoppedAt(status(Loaded(t), Gitignored(t, tracked)))

-----------------------------------------------------------------------------
(***************************************************************************)
(* check.Staged: the index, assembled as a tree                            *)
(***************************************************************************)

\* indexEntries: a symbolic link is not claim text, so it is not in the registry.
indexEntries(v) == IF v = "link" THEN Absent ELSE v

\* A directory outside the work tree is in no commit, whatever it holds.
stagedClaims(t) == IF t.config = "outside" THEN Absent ELSE indexEntries(t.claim)

\* indexHoldsJudgeableContent: something strictly decodes as a claim or a store.
JudgeableContent(t) == \/ t.claim \in {"draft", "bad", "locked", "drifted"}
                       \/ t.store \in {"roof", "approval"} \/ t.digest \in {"kept", "emptied"}
                       \/ t.flags = "kept"

\* The configuration comes from the index too, unless the index has neither
\* a configuration nor anything to judge.
stagedConfig(t, disk) == IF t.config = Absent THEN disk.config ELSE t.config

\* holdsGateEvidence: there is a ledger or a digest to judge.
GateEvidence(t) == t.store # Absent \/ t.digest # Absent

\* Mutant: the lock store is read from the working tree.
stagedStoreOnDisk(t, disk) == [t EXCEPT !.store = disk.store]

\* stagedLedgerInputs: every store, the constitution and the briefs are the
\* blobs of the index; an untracked one is absent, whatever is on disk.
stagedLedgerInputs(t, disk) == t

Staged(t, disk) == LET c == [t EXCEPT !.config = stagedConfig(t, disk)]
                   IN [stagedLedgerInputs(c, disk) EXCEPT !.claim = stagedClaims(c)]

runCheckStaged(t, disk) ==
    IF disk.config = Absent \/ disk.legacy # Absent \/ t.legacy # Absent THEN "config"
    ELSE IF t.config = Absent /\ JudgeableContent(t) THEN "load"
    ELSE IF stagedConfig(t, disk) = "outside" /\ ~ GateEvidence(t) THEN ""
    ELSE StoppedAt(status(Staged(t, disk), Gitignored(disk, t)))

-----------------------------------------------------------------------------
(***************************************************************************)
(* People, other commands and git                                          *)
(***************************************************************************)

Idle == run.at = "idle"

\* Somebody, or another command, replaces one file of the working tree.
Edit == \E f \in Editable : \E v \in Content[f] \ {work[f]} :
    /\ edits < MaxEdits
    /\ f = "claim" => v \in Claims
    /\ edits' = edits + 1
    /\ work' = [work EXCEPT ![f] = v]
    /\ UNCHANGED <<index, head, build, run, stages>>

\* git add of one path.  (Git acts between checks: a check reads the index once,
\* to tell which ignored paths are tracked, and writes nothing git tracks.)
Stage == \E f \in Editable :
    /\ Idle /\ stages < MaxStages /\ index[f] # work[f]
    /\ stages' = stages + 1
    /\ index' = [index EXCEPT ![f] = work[f]]
    /\ UNCHANGED <<work, head, build, run, edits>>

\* git rm --cached of one path.
Untrack == \E f \in Editable :
    /\ Idle /\ stages < MaxStages /\ Absent \in Content[f] /\ index[f] # Absent
    /\ stages' = stages + 1
    /\ index' = [index EXCEPT ![f] = Absent]
    /\ UNCHANGED <<work, head, build, run, edits>>

\* git commit, through the hook that runs "check --staged".
Commit ==
    /\ Idle /\ head # index
    /\ runCheckStaged(index, work) = ""
    /\ head' = index
    /\ UNCHANGED <<work, index, build, run, edits, stages>>

\* Somebody keeps a file of their own where the status would go, or edits the
\* build directory's .gitignore: never under a marker of ours, nor mid-check.
KeepOwnStatus ==
    /\ Idle /\ build.marker = "none" /\ build.status = "none" /\ edits < MaxEdits
    /\ \E m \in {"none", "foreign"} : build' = [build EXCEPT !.status = "foreign", !.marker = m]
    /\ edits' = edits + 1
    /\ UNCHANGED <<work, index, head, run, stages>>

EditGitignore ==
    /\ Idle /\ build.ignore # "custom" /\ edits < MaxEdits
    /\ build' = [build EXCEPT !.ignore = "custom"]
    /\ edits' = edits + 1
    /\ UNCHANGED <<work, index, head, run, stages>>

-----------------------------------------------------------------------------
(***************************************************************************)
(* check.Run, step by step                                                 *)
(***************************************************************************)

\* What stops a run before it writes anything: the lints, then the flag store,
\* the observations and the bounds of the three outputs, in that order.
RunStop(t) ==
    IF ClaimLintErrors(t) THEN "lint"
    ELSE IF t.flags = "unreadable" THEN "catalog"
    ELSE IF Evaluate(t) \in {"error", "capacity"} THEN "conformance"
    ELSE Overflow(t)

\* A capacity refusal, among those.
RunCapacity(t) == /\ ~ ClaimLintErrors(t) /\ t.flags # "unreadable"
                  /\ Evaluate(t) # "error"
                  /\ Evaluate(t) = "capacity" \/ Overflow(t) # ""

\* What refuses the run once the generated files have landed.  The ledger and
\* the constitution are read again; the rest was read before the writes.
RunGate(t, now) ==
    IF t.code = "mistagged" THEN "scan"
    ELSE IF t.ignore = "build" \/ ledgerGate([now EXCEPT !.claim = t.claim]) THEN "ledger"
    ELSE IF ~ RoofLocked(now) THEN "constitution"
    ELSE IF t.config = "sources" /\ t.code = "unlinked" THEN "links"
    ELSE IF Blocking(t) THEN "conformance"
    ELSE ""

\* What a plain check of a project nobody is changing says.
runCheck(t, tracked) ==
    LET l == [Loaded(t) EXCEPT !.ignore = IF Gitignored(t, tracked) THEN "build" ELSE "none"] IN
    IF t.config = Absent \/ t.legacy # Absent THEN "config"
    ELSE IF RunStop(l) # "" THEN RunStop(l)
    ELSE RunGate(l, l)

\* A process that has ended has forgotten what it read; its configuration is
\* kept here for Landed.
Stop(phase) == run' = [run EXCEPT !.at = "idle", !.stopped = phase,
                                  !.tree = [Good EXCEPT !.config = run.tree.config], !.owned = FALSE]

Goto(step) == run' = [run EXCEPT !.at = step]

Keep == UNCHANGED <<work, index, head, edits, stages>>

\* The command loads the configuration and the claims; Run reads the rest
\* afterwards, so the two may differ by an edit.
RunLoad ==
    /\ Idle /\ run.n < MaxRuns
    /\ work.config # Absent /\ work.legacy = Absent
    /\ run' = [run EXCEPT !.n = @ + 1, !.at = "loaded", !.stopped = "", !.capacity = FALSE,
                          !.tree = [Good EXCEPT !.config = work.config, !.claim = Loaded(work).claim]]
    /\ UNCHANGED build /\ Keep

\* Mutant: the catalog is written before the viewer is rendered.
RunRefusedLate(t) ==
    /\ run' = [run EXCEPT !.at = "idle", !.tree = [Good EXCEPT !.config = t.config],
                          !.stopped = RunStop(t), !.capacity = RunCapacity(t)]
    /\ build' = [build EXCEPT !.catalog = IF RunStop(t) = "render" THEN run.n ELSE @]

\* A refusal before the first write.
RunRefused(t) ==
    /\ run' = [run EXCEPT !.at = "idle", !.tree = [Good EXCEPT !.config = t.config],
                          !.stopped = RunStop(t), !.capacity = RunCapacity(t)]
    /\ UNCHANGED build

\* Stores, lints, scan, catalog, conformance, and all three outputs encoded:
\* nothing is written before everything that can overflow has been tried.
RunEvaluate ==
    /\ run.at = "loaded"
    /\ LET t == [work EXCEPT !.config = run.tree.config, !.claim = run.tree.claim,
                             !.ignore = IF Gitignored(work, index) THEN "build" ELSE "none"]
       IN \/ RunStop(t) # "" /\ RunRefused(t)
          \/ /\ RunStop(t) = "" /\ UNCHANGED build
             /\ run' = [run EXCEPT !.at = IF Compares(t) THEN "marker" ELSE "catalog", !.tree = t,
                                   !.owned = build.marker = "owned"]
    /\ Keep

\* Mutant: a status file found without a marker is taken over.
RunMarkerTakesOver ==
    /\ run.at = "marker" /\ Keep
    /\ \/ build.marker = "foreign" /\ Stop("conformance") /\ UNCHANGED build
       \/ build.marker # "foreign" /\ build' = [build EXCEPT !.marker = "owned"] /\ Goto("catalog")

\* PrepareConformanceStatusOwnership: never claim a status file found there.
RunMarker ==
    /\ run.at = "marker" /\ Keep
    /\ \/ build.marker = "owned" /\ Goto("catalog") /\ UNCHANGED build
       \/ /\ build.marker # "owned" /\ (build.marker = "foreign" \/ build.status # "none")
          /\ Stop("conformance") /\ UNCHANGED build
       \/ /\ build.marker = "none" /\ build.status = "none"
          /\ build' = [build EXCEPT !.marker = "owned"] /\ Goto("catalog")

RunCatalog ==
    /\ run.at = "catalog" /\ Keep
    /\ build' = [build EXCEPT !.catalog = run.n]
    /\ Goto(IF Compares(run.tree) \/ ~ run.owned THEN "gitignore" ELSE "assets")

\* Mutant: an existing file is never rewritten.
EnsureBuildGitignoreOnce(want) ==
    build' = [build EXCEPT !.ignore = IF @ = "none" THEN want ELSE @]

\* EnsureBuildGitignoreForConformance rewrites only a file it wrote itself.
EnsureBuildGitignore(want) ==
    build' = [build EXCEPT !.ignore = IF @ = "custom" THEN @ ELSE want]

RunGitignore ==
    /\ run.at = "gitignore" /\ Keep
    /\ EnsureBuildGitignore(IF Compares(run.tree) THEN "conformance" ELSE "plain")
    /\ Goto(IF Compares(run.tree) THEN "status" ELSE "assets")

RunStatus ==
    /\ run.at = "status" /\ Keep
    /\ build' = [build EXCEPT !.status = "ours"]
    /\ Goto("assets")

\* writeBriefAssets: the directory beside the viewer is cleared and copied anew.
RunAssets ==
    /\ run.at = "assets" /\ Keep
    /\ build' = [build EXCEPT !.assets = run.n]
    /\ Goto("viewer")

RunViewer ==
    /\ run.at = "viewer" /\ Keep
    /\ build' = [build EXCEPT !.viewer = run.n]
    /\ Goto(IF ~ Compares(run.tree) /\ run.owned THEN "unstatus" ELSE "gate")

\* Mutant: the marker goes before the status.
RemoveStatusAfterMarker ==
    /\ run.at = "unstatus" /\ Keep
    /\ build' = [build EXCEPT !.marker = "none"]
    /\ Goto("unignore")

\* Conformance was switched off: the status goes first, the marker last, so
\* that a check killed in between is finished by the next one.
RemoveStatus ==
    /\ run.at = "unstatus" /\ Keep
    /\ build' = [build EXCEPT !.status = "none"]
    /\ Goto("unignore")

RestoreGitignore ==
    /\ run.at = "unignore" /\ Keep
    /\ EnsureBuildGitignore("plain")
    /\ Goto("unmark")

RemoveMarker ==
    /\ run.at = "unmark" /\ Keep
    /\ build' = [build EXCEPT !.marker = "none"]
    /\ Goto("gate")

RunVerdict ==
    /\ run.at = "gate"
    /\ Stop(RunGate(run.tree, work))
    /\ UNCHANGED build /\ Keep

\* A write fails: the step's own phase is reported and the rest is not tried.
WriteFails ==
    /\ run.at \notin {"idle", "loaded", "gate"}
    /\ Stop(CASE run.at \in {"catalog", "gitignore", "unignore"}           -> "catalog"
              [] run.at \in {"marker", "status", "unstatus", "unmark"}     -> "conformance"
              [] run.at \in {"assets", "viewer"}                           -> "render")
    /\ UNCHANGED build /\ Keep

\* The process is killed.
Kill == ~ Idle /\ Stop("killed") /\ UNCHANGED build /\ Keep

Init ==
    /\ work = Good /\ index = Good /\ head = Good
    /\ build = [marker |-> "none", status |-> "none", ignore |-> "none",
                catalog |-> 0, assets |-> 0, viewer |-> 0]
    /\ run = [at |-> "idle", n |-> 0, tree |-> Good, owned |-> FALSE,
              stopped |-> "", capacity |-> FALSE]
    /\ edits = 0 /\ stages = 0

Next == \/ Edit \/ Stage \/ Untrack \/ Commit \/ KeepOwnStatus \/ EditGitignore
        \/ RunLoad \/ RunEvaluate \/ RunMarker \/ RunCatalog \/ RunGitignore \/ RunStatus
        \/ RunAssets \/ RunViewer \/ RemoveStatus \/ RestoreGitignore \/ RemoveMarker
        \/ RunVerdict \/ WriteFails \/ Kill

Spec == Init /\ [][Next]_vars

-----------------------------------------------------------------------------
(***************************************************************************)
(* Properties                                                              *)
(***************************************************************************)

\* The server, --validate and plain check never disagree about a project: the
\* server says what --validate says, with the same phase and code; what plain
\* check accepts, --validate accepts; and what only plain check refuses it
\* refuses for the code it scans, or for an output --validate does not build.
VerdictsAgree ==
    LET valid == runCheckValidate(work, index)
        plain == runCheck(work, index)
        res   == status(Loaded(work), Gitignored(work, index))
        dto   == statusToDTO(res)
    IN valid # "config" =>
         /\ dto.phase = valid /\ dto.ok = (valid = "") /\ dto.code = FailureCode(res)
         /\ plain = "" => valid = ""
         /\ valid = "" /\ plain # "" => plain \in {"scan", "links"} \/ (~ Compares(work) /\ plain = Overflow(work))

\* What the hook let through stands on its own: whoever checks out the commit
\* gets the same approval verdict, whatever the author's working tree held.
\* (The rule about ignored stores is read off the disk, and is left aside.)  Of projects
\* without symbolic links only: the hook leaves a claim that is a link out of the registry
\* (indexEntries), and a checkout follows it.  The instance and the theorem have none.
CommitsValidate ==
    head.config \notin {Absent, "outside"} => runCheckValidate([head EXCEPT !.ignore = "none"], head) = ""

\* A conformance status file of ours is always covered by the ownership
\* marker, at every instant and after every crash: otherwise no later check
\* could remove it.
StatusOwned == build.status = "ours" => build.marker = "owned"

\* A status file or marker that dossierx did not write is never replaced or
\* removed by a check.
ForeignKept == [][/\ build.status = "foreign" => build'.status = "foreign"
                  /\ build.marker = "foreign" => build'.marker = "foreign"
                  /\ build.ignore = "custom" => build'.ignore = "custom"]_vars

\* A run refused because an output is too large has replaced nothing, as its
\* recovery hint promises.
CapacityReplacesNothing == Idle /\ run.stopped \in {"catalog", "conformance", "render"} /\ run.capacity
                               => run.n \notin {build.catalog, build.assets, build.viewer}

\* A run that got as far as its gates left generated files that agree with one
\* another and with the configuration it read, whatever was killed before it.
Landed ==
    Idle /\ run.stopped \in {"", "scan", "ledger", "constitution", "links"} /\ run.n > 0 =>
      /\ build.catalog = run.n /\ build.viewer = run.n /\ build.assets = run.n
      /\ Compares(run.tree) =>
           build.status = "ours" /\ build.ignore \in {"conformance", "custom"}
      /\ ~ Compares(run.tree) =>
           build.status # "ours" /\ build.marker # "owned" /\ build.ignore \in {"plain", "custom"}

\* What the last check left in build/ is whole, or was left alone, and is owned:
\* a check refused for capacity replaced nothing, one that finished landed all of
\* it, and a status of ours is always one a later check may remove.
OutputsTrue == TypeOK /\ StatusOwned /\ CapacityReplacesNothing /\ Landed

-----------------------------------------------------------------------------
(***************************************************************************)
(* The inductive invariant                                                 *)
(***************************************************************************)

\* A process that ended has forgotten what it read, and a run has the fields
\* below and no others.
RunShape == /\ run = [at |-> run.at, n |-> run.n, tree |-> run.tree, owned |-> run.owned,
                      stopped |-> run.stopped, capacity |-> run.capacity]
            /\ ~ Idle => ~ run.capacity

\* The generated files written by this run are numbered with it, and those it
\* has yet to write with an earlier one.
Numbered ==
    /\ run.at \in {"loaded", "marker"} => build.catalog < run.n
    /\ run.at \in {"loaded", "marker", "catalog"} => build.assets < run.n /\ build.viewer < run.n
    /\ run.at \in {"gitignore", "status", "assets", "viewer", "unstatus", "unignore", "unmark", "gate"}
         => build.catalog = run.n
    /\ run.at \in {"viewer", "unstatus", "unignore", "unmark", "gate"} => build.assets = run.n
    /\ run.at \in {"unstatus", "unignore", "unmark", "gate"} => build.viewer = run.n
    /\ build.catalog <= run.n /\ build.assets <= run.n /\ build.viewer <= run.n

\* A status is ours only under our marker, and under our marker nobody else's.
MarkerCovers == /\ build.status = "ours" => build.marker = "owned"
                /\ build.marker = "owned" => build.status # "foreign"

\* What a run that publishes a status has done by each step.
Publishes ==
    /\ run.at \in {"marker", "status"} => Compares(run.tree)
    /\ Compares(run.tree) =>
         /\ run.at \notin {"unstatus", "unignore", "unmark"}
         /\ run.at \in {"catalog", "gitignore", "status", "assets", "viewer", "gate"} => build.marker = "owned"
         /\ run.at \in {"status", "assets", "viewer", "gate"} => build.ignore \in {"conformance", "custom"}
         /\ run.at \in {"assets", "viewer", "gate"} => build.status = "ours"

\* What a run of a project that compares nothing has done by each step: it
\* withdraws the status and marker it found, and leaves other people's alone.
Withdraws ==
    ~ Compares(run.tree) =>
      /\ run.at \in {"catalog", "gitignore", "assets", "viewer"} => (run.owned <=> build.marker = "owned")
      /\ run.at \in {"unstatus", "unignore", "unmark"} => run.owned /\ build.marker = "owned"
      /\ run.at = "gitignore" => ~ run.owned
      /\ run.at \in {"unignore", "unmark"} => build.status = "none"
      /\ run.at \in {"assets", "viewer"} /\ ~ run.owned => build.ignore \in {"plain", "custom"}
      /\ run.at \in {"unmark", "gate"} => build.ignore \in {"plain", "custom"}
      /\ run.at = "gate" => build.marker # "owned"

CInv == /\ TypeOK /\ RunShape /\ Numbered /\ MarkerCovers /\ Publishes /\ Withdraws
        /\ CapacityReplacesNothing /\ Landed
=============================================================================
