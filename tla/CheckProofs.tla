------------------------------ MODULE CheckProofs ------------------------------
(* Theorems about check, for every choice of the files that change and of the  *)
(* values a claim file takes, and every number of edits, commits and runs: the *)
(* four readers agree, what the hook let through validates, and build/ is      *)
(* whole, owned, or left alone.                                                *)
EXTENDS Check, TLAPS

-----------------------------------------------------------------------------
(* Trees. *)

LEMMA TreeFields ==
  ASSUME NEW t, Tree(t)
  PROVE  /\ t.config \in {Absent, "plain", "outside", "sources", "compare", "blocking"}
         /\ t.claim \in {Absent, "draft", "bad", "locked", "drifted", "link"}
         /\ t.store \in {Absent, "roof", "approval", "unreadable"}
         /\ t.digest \in {Absent, "kept", "emptied", "unreadable"}
         /\ t.flags \in {Absent, "kept", "unreadable"}
         /\ t.roof \in {"locked", "edited"}
         /\ t.obs \in {"match", "mismatch", "bad", "huge"}
         /\ t.code \in {"linked", "unlinked", "mistagged"}
         /\ t.pages \in {"small", "hugeCatalog", "hugeViewer"}
         /\ t.ignore \in {"none", "build"}
         /\ t.legacy \in {Absent, "store"}
  BY DEF Tree, Files, Content

\* Replacing one file of a tree by another content of it leaves a tree.
LEMMA TreeExcept ==
  ASSUME NEW t, Tree(t), NEW f \in Files, NEW v \in Content[f]
  PROVE  Tree([t EXCEPT ![f] = v]) /\ [t EXCEPT ![f] = v][f] = v
  BY DEF Tree

LEMMA GoodIsTree == Tree(Good)
  BY DEF Tree, Files, Content, Good, Absent

\* What a load makes of a tree: a link is followed, the rest is kept.
LEMMA LoadedFields ==
  ASSUME NEW t, Tree(t)
  PROVE  /\ Tree(Loaded(t))
         /\ Loaded(t).claim = IF t.claim = "link" THEN "locked" ELSE t.claim
         /\ Loaded(t).config = t.config /\ Loaded(t).store = t.store /\ Loaded(t).digest = t.digest
         /\ Loaded(t).flags = t.flags /\ Loaded(t).roof = t.roof /\ Loaded(t).obs = t.obs
         /\ Loaded(t).code = t.code /\ Loaded(t).pages = t.pages /\ Loaded(t).ignore = t.ignore
         /\ Loaded(t).legacy = t.legacy
  BY DEF Loaded, Tree, Files, Content

-----------------------------------------------------------------------------
(* The verdicts. *)

\* What a status is: each part a verdict, and a capacity refusal a failed projection.
LEMMA StatusShape ==
  ASSUME NEW t, Tree(t), NEW ignored \in BOOLEAN
  PROVE  LET res == status(t, ignored)
         IN /\ res.lint \in BOOLEAN /\ res.ledger \in BOOLEAN /\ res.roof \in BOOLEAN
            /\ res.blocked \in BOOLEAN /\ res.capacity \in BOOLEAN
            /\ res.failed \in {"", "conformance", "catalog", "render"}
            /\ res.OK = (~ res.lint /\ res.roof /\ res.failed = "")
            /\ res.capacity => res.failed # ""
<1>1. Evaluate(t) \in {"off", "error", "capacity", "match", "mismatch"}
  BY TreeFields DEF Evaluate
<1>2. Overflow(t) \in {"", "catalog", "render"}
  BY TreeFields DEF Overflow
<1>3. StatusProjection(t) \in {"", "conformance", "catalog", "render"}
  BY <1>2 DEF StatusProjection
<1>4. Evaluate(t) = "capacity" => StatusProjection(t) # ""
  BY DEF StatusProjection
<1> QED
  BY <1>3, <1>4 DEF status, ledgerGate, commentDigestAbsent, commentDigestCoverage, Audit,
     RoofLocked, ClaimLintErrors, Blocking

\* What the gates of a run and of a status read of a tree does not include the
\* ignore file.
LEMMA IgnoreAside ==
  ASSUME NEW t, Tree(t), NEW v \in Content["ignore"]
  PROVE  LET l == [t EXCEPT !.ignore = v]
         IN /\ Tree(l) /\ l.ignore = v
            /\ l.config = t.config /\ l.claim = t.claim /\ l.store = t.store /\ l.digest = t.digest
            /\ l.flags = t.flags /\ l.roof = t.roof /\ l.obs = t.obs
            /\ l.code = t.code /\ l.pages = t.pages /\ l.legacy = t.legacy
  BY DEF Tree, Files, Content

LEMMA GatesRead ==
  ASSUME NEW t, NEW l,
         l.config = t.config, l.claim = t.claim, l.store = t.store, l.digest = t.digest,
         l.flags = t.flags, l.roof = t.roof, l.obs = t.obs, l.pages = t.pages
  PROVE  /\ ClaimLintErrors(l) <=> ClaimLintErrors(t)
         /\ RoofLocked(l) <=> RoofLocked(t)
         /\ ledgerGate(l) <=> ledgerGate(t)
         /\ Evaluate(l) = Evaluate(t) /\ (Compares(l) <=> Compares(t)) /\ (Blocking(l) <=> Blocking(t))
         /\ Overflow(l) = Overflow(t)
<1>1. (LedgerCovered(l) <=> LedgerCovered(t)) /\ (LockedClaim(l) <=> LockedClaim(t))
  BY DEF LedgerCovered, LockedClaim
<1>2. (Audit(l) <=> Audit(t)) /\ (commentDigestAbsent(l) <=> commentDigestAbsent(t))
      /\ (commentDigestCoverage(l) <=> commentDigestCoverage(t))
  BY <1>1 DEF Audit, commentDigestAbsent, commentDigestCoverage
<1>3. (Compares(l) <=> Compares(t)) /\ Evaluate(l) = Evaluate(t) /\ Overflow(l) = Overflow(t)
  BY DEF Compares, Evaluate, Overflow
<1> QED
  BY <1>1, <1>2, <1>3 DEF ClaimLintErrors, RoofLocked, ledgerGate, Blocking

\* What plain check accepts --validate accepts, and what only plain check refuses
\* it refuses for the code it scans, or for an output --validate does not build.
LEMMA PlainAndValid ==
  ASSUME NEW t, Tree(t), NEW ignored \in BOOLEAN
  PROVE  LET l     == [t EXCEPT !.ignore = IF ignored THEN "build" ELSE "none"]
             plain == IF RunStop(l) # "" THEN RunStop(l) ELSE RunGate(l, l)
             valid == StoppedAt(status(t, ignored))
         IN /\ plain = "" => valid = ""
            /\ valid = "" /\ plain # "" => plain \in {"scan", "links"} \/ (~ Compares(t) /\ plain = Overflow(t))
<1> DEFINE l == [t EXCEPT !.ignore = IF ignored THEN "build" ELSE "none"]
           plain == IF RunStop(l) # "" THEN RunStop(l) ELSE RunGate(l, l)
           valid == StoppedAt(status(t, ignored))
<1>1. /\ l.ignore = "build" <=> ignored
      /\ l.config = t.config /\ l.code = t.code /\ l.flags = t.flags /\ Tree(l) /\ l.claim = t.claim
      /\ ClaimLintErrors(l) <=> ClaimLintErrors(t)
      /\ RoofLocked(l) <=> RoofLocked(t)
      /\ ledgerGate(l) <=> ledgerGate(t)
      /\ Evaluate(l) = Evaluate(t) /\ (Compares(l) <=> Compares(t)) /\ (Blocking(l) <=> Blocking(t))
      /\ Overflow(l) = Overflow(t)
  <2> DEFINE v == IF ignored THEN "build" ELSE "none"
  <2>1. v \in Content["ignore"]
    BY DEF Content
  <2>2. /\ Tree(l) /\ l.ignore = v
        /\ l.config = t.config /\ l.claim = t.claim /\ l.store = t.store /\ l.digest = t.digest
        /\ l.flags = t.flags /\ l.roof = t.roof /\ l.obs = t.obs
        /\ l.code = t.code /\ l.pages = t.pages
    BY <2>1, IgnoreAside
  <2> HIDE DEF l
  <2> QED
    BY <2>2, GatesRead
<1>2. RunStop(l) = IF ClaimLintErrors(t) THEN "lint"
                   ELSE IF t.flags = "unreadable" THEN "catalog"
                   ELSE IF Evaluate(t) \in {"error", "capacity"} THEN "conformance"
                   ELSE Overflow(t)
  BY <1>1 DEF RunStop
<1>3. ledgerGate([l EXCEPT !.claim = l.claim]) <=> ledgerGate(l)
  <2>1. [l EXCEPT !.claim = l.claim] = l
    BY <1>1 DEF Tree, Files, Content
  <2> QED
    BY <2>1
<1>4. RunGate(l, l) = IF t.code = "mistagged" THEN "scan"
                      ELSE IF ignored \/ ledgerGate(t) THEN "ledger"
                      ELSE IF ~ RoofLocked(t) THEN "constitution"
                      ELSE IF t.config = "sources" /\ t.code = "unlinked" THEN "links"
                      ELSE IF Blocking(t) THEN "conformance"
                      ELSE ""
  BY <1>1, <1>3 DEF RunGate
<1>5. valid = IF ClaimLintErrors(t) THEN "lint"
              ELSE IF StatusProjection(t) # "" THEN StatusProjection(t)
              ELSE IF ignored \/ ledgerGate(t) THEN "ledger"
              ELSE IF ~ RoofLocked(t) THEN "constitution"
              ELSE IF Blocking(t) THEN "conformance"
              ELSE ""
  BY DEF status, StoppedAt
<1>6. plain = "" => valid = ""
  BY <1>2, <1>4, <1>5 DEF StatusProjection
<1>7. ASSUME valid = "", plain # ""
      PROVE  plain \in {"scan", "links"} \/ (~ Compares(t) /\ plain = Overflow(t))
  <2> HIDE DEF valid, plain, l
  <2>1. ~ ClaimLintErrors(t) /\ StatusProjection(t) = "" /\ ~ ignored /\ ~ ledgerGate(t)
        /\ RoofLocked(t) /\ ~ Blocking(t)
    BY <1>5, <1>7
  <2>2. t.flags # "unreadable" /\ Evaluate(t) \notin {"error", "capacity"} /\ (Compares(t) => Overflow(t) = "")
    BY <2>1 DEF StatusProjection
  <2>3. plain = IF RunStop(l) # "" THEN RunStop(l) ELSE RunGate(l, l)
    BY DEF plain
  <2> QED
    BY <1>2, <1>4, <1>7, <2>1, <2>2, <2>3
<1> QED
  BY <1>6, <1>7

LEMMA AgreeOnTrees ==
  ASSUME Tree(work), Tree(index)
  PROVE  VerdictsAgree
<1> DEFINE t == Loaded(work)
           ignored == Gitignored(work, index)
           res == status(t, ignored)
           valid == runCheckValidate(work, index)
           plain == runCheck(work, index)
           dto == statusToDTO(res)
<1> SUFFICES ASSUME valid # "config"
             PROVE  /\ dto.phase = valid /\ dto.ok = (valid = "") /\ dto.code = FailureCode(res)
                    /\ plain = "" => valid = ""
                    /\ valid = "" /\ plain # ""
                         => plain \in {"scan", "links"} \/ (~ Compares(work) /\ plain = Overflow(work))
  BY DEF VerdictsAgree
<1>1. Tree(t) /\ t.config = work.config /\ t.pages = work.pages
  BY LoadedFields
<1>2. ignored \in BOOLEAN
  BY DEF Gitignored
<1>3. valid = StoppedAt(res) /\ work.config # Absent /\ work.legacy = Absent
  BY DEF runCheckValidate
<1>4. plain = LET l == [t EXCEPT !.ignore = IF ignored THEN "build" ELSE "none"]
              IN IF RunStop(l) # "" THEN RunStop(l) ELSE RunGate(l, l)
  BY <1>3 DEF runCheck
<1>5. (Compares(t) <=> Compares(work)) /\ Overflow(t) = Overflow(work)
  BY <1>1 DEF Compares, Overflow
<1> HIDE DEF t, ignored, res, plain
<1>6. dto.phase = StoppedAt(res) /\ dto.ok = (StoppedAt(res) = "") /\ dto.code = FailureCode(res)
  <2>1. /\ res.lint \in BOOLEAN /\ res.ledger \in BOOLEAN /\ res.roof \in BOOLEAN
        /\ res.blocked \in BOOLEAN /\ res.capacity \in BOOLEAN
        /\ res.failed \in {"", "conformance", "catalog", "render"}
        /\ res.OK = (~ res.lint /\ res.roof /\ res.failed = "")
        /\ res.capacity => res.failed # ""
    BY <1>1, <1>2, StatusShape, Zenon DEF res
  <2> QED
    BY <2>1 DEF statusToDTO, StoppedAt, FailureCode
<1> QED
  BY <1>1, <1>2, <1>3, <1>4, <1>5, <1>6, PlainAndValid DEF res

-----------------------------------------------------------------------------
(* Commits. *)

\* A tree without links that the hook lets through validates where it is checked
\* out, whatever the working tree beside the index held.
LEMMA HookIsValidation ==
  ASSUME NEW t, Tree(t), NEW disk, t.claim # "link", t.config \notin {Absent, "outside"},
         runCheckStaged(t, disk) = ""
  PROVE  runCheckValidate([t EXCEPT !.ignore = "none"], t) = ""
<1> DEFINE v == [t EXCEPT !.ignore = "none"]
<1>1. t.legacy = Absent /\ StoppedAt(status(Staged(t, disk), Gitignored(disk, t))) = ""
  BY DEF runCheckStaged, stagedConfig
<1>2. Staged(t, disk) = t
  <2>1. [t EXCEPT !.config = t.config] = t /\ [t EXCEPT !.claim = t.claim] = t
    BY DEF Tree, Files, Content
  <2>2. stagedConfig(t, disk) = t.config /\ stagedClaims(t) = t.claim
    BY DEF stagedConfig, stagedClaims, indexEntries
  <2> QED
    BY <2>1, <2>2 DEF Staged, stagedLedgerInputs
<1>3. /\ Tree(v) /\ v.ignore = "none"
      /\ v.config = t.config /\ v.claim = t.claim /\ v.store = t.store /\ v.digest = t.digest
      /\ v.flags = t.flags /\ v.roof = t.roof /\ v.obs = t.obs /\ v.pages = t.pages /\ v.legacy = t.legacy
  <2>1. "none" \in Content["ignore"]
    BY DEF Content
  <2> QED
    BY <2>1, IgnoreAside
<1>4. Loaded(v) = v
  <2>1. [v EXCEPT !.claim = v.claim] = v
    BY <1>3 DEF Tree, Files, Content
  <2> HIDE DEF v
  <2> QED
    BY <1>3, <2>1 DEF Loaded
<1> HIDE DEF v
<1>5. /\ ClaimLintErrors(v) <=> ClaimLintErrors(t)
      /\ RoofLocked(v) <=> RoofLocked(t)
      /\ ledgerGate(v) <=> ledgerGate(t)
      /\ Evaluate(v) = Evaluate(t) /\ (Compares(v) <=> Compares(t)) /\ (Blocking(v) <=> Blocking(t))
      /\ Overflow(v) = Overflow(t)
  BY <1>3, GatesRead
<1>6. ~ Gitignored(v, t)
  BY <1>3 DEF Gitignored
<1>7. StatusProjection(v) = StatusProjection(t)
  BY <1>3, <1>5 DEF StatusProjection
<1>8. /\ ~ ClaimLintErrors(t) /\ StatusProjection(t) = "" /\ ~ ledgerGate(t)
      /\ RoofLocked(t) /\ ~ Blocking(t)
  BY <1>1, <1>2 DEF StoppedAt, status
<1>9. StoppedAt(status(v, Gitignored(v, t))) = ""
  BY <1>5, <1>6, <1>7, <1>8 DEF StoppedAt, status
<1>10. runCheckValidate(v, t) = ""
  BY <1>1, <1>3, <1>4, <1>9 DEF runCheckValidate
<1> QED
  BY <1>10 DEF v

\* Where nobody makes the claim a symbolic link, no tree has one.
NoLinks == work.claim # "link" /\ index.claim # "link"

\* The hook's promise holds of the first commit.
LEMMA GoodValidates == runCheckValidate([Good EXCEPT !.ignore = "none"], Good) = ""
<1>1. [Good EXCEPT !.ignore = "none"] = Good /\ Loaded(Good) = Good
  BY DEF Good, Loaded
<1>2. /\ ~ ClaimLintErrors(Good) /\ RoofLocked(Good) /\ ~ ledgerGate(Good) /\ ~ Blocking(Good)
      /\ Evaluate(Good) = "off" /\ ~ Compares(Good) /\ Good.flags # "unreadable"
  BY DEF Good, ClaimLintErrors, RoofLocked, ledgerGate, Blocking, Evaluate, Compares, LedgerCovered,
     Audit, commentDigestAbsent, commentDigestCoverage, LockedClaim, Absent
<1>3. ~ Gitignored(Good, Good) /\ Good.config # Absent /\ Good.legacy = Absent
  BY DEF Good, Gitignored, Absent
<1>4. StatusProjection(Good) = ""
  BY <1>2 DEF StatusProjection
<1>5. StoppedAt(status(Good, Gitignored(Good, Good))) = ""
  BY <1>2, <1>3, <1>4 DEF StoppedAt, status
<1> QED
  BY <1>1, <1>3, <1>5 DEF runCheckValidate

-----------------------------------------------------------------------------
(* What a step does to a run and to the generated files. *)

\* A step of a run in progress.
LEMMA Moves ==
  ASSUME TypeOK, RunShape, ~ Idle, NEW step \in Steps \ {"idle"}, Goto(step)
  PROVE  /\ run'.at = step /\ run'.n = run.n /\ run'.tree = run.tree /\ run'.owned = run.owned
         /\ run'.stopped = run.stopped /\ run'.capacity = run.capacity
         /\ RunShape' /\ ~ Idle'
  BY DEF Goto, RunShape, Idle

\* The end of one: it forgets all but its configuration.
LEMMA Forgets ==
  ASSUME NEW t, Tree(t)
  PROVE  /\ Tree([Good EXCEPT !.config = t.config])
         /\ Compares([Good EXCEPT !.config = t.config]) <=> Compares(t)
<1>1. "config" \in Files /\ t["config"] \in Content["config"]
  BY DEF Tree, Files, Content
<1>2. Tree([Good EXCEPT !["config"] = t["config"]]) /\ [Good EXCEPT !["config"] = t["config"]]["config"] = t["config"]
  BY <1>1, GoodIsTree, TreeExcept
<1> QED
  BY <1>2 DEF Compares

LEMMA Stops ==
  ASSUME TypeOK, RunShape, ~ Idle, NEW phase, Stop(phase)
  PROVE  /\ run'.at = "idle" /\ run'.n = run.n /\ ~ run'.owned /\ run'.owned \in BOOLEAN
         /\ Tree(run'.tree) /\ (Compares(run'.tree) <=> Compares(run.tree))
         /\ run'.stopped = phase /\ run'.capacity = FALSE
         /\ RunShape' /\ Idle'
<1>1. PICK g : g = [Good EXCEPT !.config = run.tree.config]
  OBVIOUS
<1>2. Tree(g) /\ (Compares(g) <=> Compares(run.tree))
  BY <1>1, Forgets DEF TypeOK
<1>3. run.capacity = FALSE
  BY DEF TypeOK, RunShape
<1>4. run' = [at |-> "idle", n |-> run.n, tree |-> g, owned |-> FALSE, stopped |-> phase, capacity |-> FALSE]
  BY <1>1, <1>3 DEF Stop, RunShape
<1> QED
  BY <1>2, <1>4 DEF RunShape, Idle

\* What a run that ends has to have done: nothing, if it did not get to its gates.
LEMMA StopKeeps ==
  ASSUME CInv, ~ Idle, NEW phase \in Phases, Stop(phase), UNCHANGED build, Keep,
         phase \in {"conformance", "catalog", "render", "killed"} \/ run.at = "gate"
  PROVE  CInv'
<1>1. /\ run'.at = "idle" /\ run'.n = run.n /\ run'.owned \in BOOLEAN
      /\ Tree(run'.tree) /\ (Compares(run'.tree) <=> Compares(run.tree))
      /\ run'.stopped = phase /\ run'.capacity = FALSE
      /\ RunShape'
  BY Stops DEF CInv
<1>2. TypeOK'
  BY <1>1 DEF CInv, TypeOK, Keep, Steps
<1>3. Numbered' /\ MarkerCovers' /\ Publishes' /\ Withdraws' /\ CapacityReplacesNothing'
  BY <1>1 DEF CInv, Numbered, MarkerCovers, Publishes, Withdraws, CapacityReplacesNothing
<1>4. ASSUME run.at = "gate" PROVE Landed'
  BY <1>1, <1>4 DEF CInv, TypeOK, Build, Numbered, MarkerCovers, Publishes, Withdraws, Landed
<1>5. ASSUME phase \in {"conformance", "catalog", "render", "killed"} PROVE Landed'
  BY <1>1, <1>5 DEF Landed
<1> QED
  BY <1>1, <1>2, <1>3, <1>4, <1>5 DEF CInv

\* A step of a run in progress keeps what only matters at its end.
LEMMA MoveKeeps ==
  ASSUME CInv, ~ Idle, NEW step \in Steps \ {"idle"}, Goto(step), Keep, build' \in Build,
         Numbered', MarkerCovers', Publishes', Withdraws'
  PROVE  CInv'
<1>1. /\ run'.at = step /\ run'.n = run.n /\ run'.tree = run.tree /\ run'.owned = run.owned
      /\ run'.stopped = run.stopped /\ run'.capacity = run.capacity
      /\ RunShape' /\ ~ Idle'
  BY Moves DEF CInv
<1>2. TypeOK'
  BY <1>1 DEF CInv, TypeOK, Keep
<1>3. CapacityReplacesNothing' /\ Landed'
  BY <1>1 DEF CapacityReplacesNothing, Landed
<1> QED
  BY <1>1, <1>2, <1>3 DEF CInv

(* Step by step. *)

LEMMA RunCatalogKeeps ==
  ASSUME CInv, RunCatalog
  PROVE  CInv'
<1> DEFINE step == IF Compares(run.tree) \/ ~ run.owned THEN "gitignore" ELSE "assets"
<1>1. run.at = "catalog" /\ ~ Idle /\ step \in Steps \ {"idle"} /\ Goto(step) /\ Keep
  BY DEF RunCatalog, Idle, Steps
<1>2. /\ build' \in Build
      /\ build'.catalog = run.n
      /\ build'.marker = build.marker /\ build'.status = build.status /\ build'.ignore = build.ignore /\ build'.assets = build.assets /\ build'.viewer = build.viewer
  BY DEF RunCatalog, CInv, TypeOK, Build
<1>3. run'.at = step /\ run'.n = run.n /\ run'.tree = run.tree /\ run'.owned = run.owned
  BY <1>1, Moves DEF CInv
<1>4. Numbered' /\ MarkerCovers' /\ Publishes' /\ Withdraws'
  BY <1>1, <1>2, <1>3 DEF CInv, TypeOK, Build, Numbered, MarkerCovers, Publishes, Withdraws
<1> QED
  BY <1>1, <1>2, <1>4, MoveKeeps

LEMMA RunGitignoreKeeps ==
  ASSUME CInv, RunGitignore
  PROVE  CInv'
<1> DEFINE step == IF Compares(run.tree) THEN "status" ELSE "assets"
<1>1. run.at = "gitignore" /\ ~ Idle /\ step \in Steps \ {"idle"} /\ Goto(step) /\ Keep
  BY DEF RunGitignore, Idle, Steps
<1>2. /\ build' \in Build
      /\ build'.ignore = IF build.ignore = "custom" THEN "custom" ELSE (IF Compares(run.tree) THEN "conformance" ELSE "plain")
      /\ build'.marker = build.marker /\ build'.status = build.status /\ build'.catalog = build.catalog /\ build'.assets = build.assets /\ build'.viewer = build.viewer
  BY DEF RunGitignore, EnsureBuildGitignore, CInv, TypeOK, Build
<1>3. run'.at = step /\ run'.n = run.n /\ run'.tree = run.tree /\ run'.owned = run.owned
  BY <1>1, Moves DEF CInv
<1>4. Numbered' /\ MarkerCovers' /\ Publishes' /\ Withdraws'
  BY <1>1, <1>2, <1>3 DEF CInv, TypeOK, Build, Numbered, MarkerCovers, Publishes, Withdraws
<1> QED
  BY <1>1, <1>2, <1>4, MoveKeeps

LEMMA RunStatusKeeps ==
  ASSUME CInv, RunStatus
  PROVE  CInv'
<1> DEFINE step == "assets"
<1>1. run.at = "status" /\ ~ Idle /\ step \in Steps \ {"idle"} /\ Goto(step) /\ Keep
  BY DEF RunStatus, Idle, Steps
<1>2. /\ build' \in Build
      /\ build'.status = "ours"
      /\ build'.marker = build.marker /\ build'.ignore = build.ignore /\ build'.catalog = build.catalog /\ build'.assets = build.assets /\ build'.viewer = build.viewer
  BY DEF RunStatus, CInv, TypeOK, Build
<1>3. run'.at = step /\ run'.n = run.n /\ run'.tree = run.tree /\ run'.owned = run.owned
  BY <1>1, Moves DEF CInv
<1>4. Numbered' /\ MarkerCovers' /\ Publishes' /\ Withdraws'
  BY <1>1, <1>2, <1>3 DEF CInv, TypeOK, Build, Numbered, MarkerCovers, Publishes, Withdraws
<1> QED
  BY <1>1, <1>2, <1>4, MoveKeeps

LEMMA RunAssetsKeeps ==
  ASSUME CInv, RunAssets
  PROVE  CInv'
<1> DEFINE step == "viewer"
<1>1. run.at = "assets" /\ ~ Idle /\ step \in Steps \ {"idle"} /\ Goto(step) /\ Keep
  BY DEF RunAssets, Idle, Steps
<1>2. /\ build' \in Build
      /\ build'.assets = run.n
      /\ build'.marker = build.marker /\ build'.status = build.status /\ build'.ignore = build.ignore /\ build'.catalog = build.catalog /\ build'.viewer = build.viewer
  BY DEF RunAssets, CInv, TypeOK, Build
<1>3. run'.at = step /\ run'.n = run.n /\ run'.tree = run.tree /\ run'.owned = run.owned
  BY <1>1, Moves DEF CInv
<1>4. Numbered' /\ MarkerCovers' /\ Publishes' /\ Withdraws'
  BY <1>1, <1>2, <1>3 DEF CInv, TypeOK, Build, Numbered, MarkerCovers, Publishes, Withdraws
<1> QED
  BY <1>1, <1>2, <1>4, MoveKeeps

LEMMA RunViewerKeeps ==
  ASSUME CInv, RunViewer
  PROVE  CInv'
<1> DEFINE step == IF ~ Compares(run.tree) /\ run.owned THEN "unstatus" ELSE "gate"
<1>1. run.at = "viewer" /\ ~ Idle /\ step \in Steps \ {"idle"} /\ Goto(step) /\ Keep
  BY DEF RunViewer, Idle, Steps
<1>2. /\ build' \in Build
      /\ build'.viewer = run.n
      /\ build'.marker = build.marker /\ build'.status = build.status /\ build'.ignore = build.ignore /\ build'.catalog = build.catalog /\ build'.assets = build.assets
  BY DEF RunViewer, CInv, TypeOK, Build
<1>3. run'.at = step /\ run'.n = run.n /\ run'.tree = run.tree /\ run'.owned = run.owned
  BY <1>1, Moves DEF CInv
<1>4. Numbered' /\ MarkerCovers' /\ Publishes' /\ Withdraws'
  BY <1>1, <1>2, <1>3 DEF CInv, TypeOK, Build, Numbered, MarkerCovers, Publishes, Withdraws
<1> QED
  BY <1>1, <1>2, <1>4, MoveKeeps

LEMMA RemoveStatusKeeps ==
  ASSUME CInv, RemoveStatus
  PROVE  CInv'
<1> DEFINE step == "unignore"
<1>1. run.at = "unstatus" /\ ~ Idle /\ step \in Steps \ {"idle"} /\ Goto(step) /\ Keep
  BY DEF RemoveStatus, Idle, Steps
<1>2. /\ build' \in Build
      /\ build'.status = "none"
      /\ build'.marker = build.marker /\ build'.ignore = build.ignore /\ build'.catalog = build.catalog /\ build'.assets = build.assets /\ build'.viewer = build.viewer
  BY DEF RemoveStatus, CInv, TypeOK, Build
<1>3. run'.at = step /\ run'.n = run.n /\ run'.tree = run.tree /\ run'.owned = run.owned
  BY <1>1, Moves DEF CInv
<1>4. Numbered' /\ MarkerCovers' /\ Publishes' /\ Withdraws'
  BY <1>1, <1>2, <1>3 DEF CInv, TypeOK, Build, Numbered, MarkerCovers, Publishes, Withdraws
<1> QED
  BY <1>1, <1>2, <1>4, MoveKeeps

LEMMA RestoreGitignoreKeeps ==
  ASSUME CInv, RestoreGitignore
  PROVE  CInv'
<1> DEFINE step == "unmark"
<1>1. run.at = "unignore" /\ ~ Idle /\ step \in Steps \ {"idle"} /\ Goto(step) /\ Keep
  BY DEF RestoreGitignore, Idle, Steps
<1>2. /\ build' \in Build
      /\ build'.ignore = IF build.ignore = "custom" THEN "custom" ELSE "plain"
      /\ build'.marker = build.marker /\ build'.status = build.status /\ build'.catalog = build.catalog /\ build'.assets = build.assets /\ build'.viewer = build.viewer
  BY DEF RestoreGitignore, EnsureBuildGitignore, CInv, TypeOK, Build
<1>3. run'.at = step /\ run'.n = run.n /\ run'.tree = run.tree /\ run'.owned = run.owned
  BY <1>1, Moves DEF CInv
<1>4. Numbered' /\ MarkerCovers' /\ Publishes' /\ Withdraws'
  BY <1>1, <1>2, <1>3 DEF CInv, TypeOK, Build, Numbered, MarkerCovers, Publishes, Withdraws
<1> QED
  BY <1>1, <1>2, <1>4, MoveKeeps

LEMMA RemoveMarkerKeeps ==
  ASSUME CInv, RemoveMarker
  PROVE  CInv'
<1> DEFINE step == "gate"
<1>1. run.at = "unmark" /\ ~ Idle /\ step \in Steps \ {"idle"} /\ Goto(step) /\ Keep
  BY DEF RemoveMarker, Idle, Steps
<1>2. /\ build' \in Build
      /\ build'.marker = "none"
      /\ build'.status = build.status /\ build'.ignore = build.ignore /\ build'.catalog = build.catalog /\ build'.assets = build.assets /\ build'.viewer = build.viewer
  BY DEF RemoveMarker, CInv, TypeOK, Build
<1>3. run'.at = step /\ run'.n = run.n /\ run'.tree = run.tree /\ run'.owned = run.owned
  BY <1>1, Moves DEF CInv
<1>4. Numbered' /\ MarkerCovers' /\ Publishes' /\ Withdraws'
  BY <1>1, <1>2, <1>3 DEF CInv, TypeOK, Build, Numbered, MarkerCovers, Publishes, Withdraws
<1> QED
  BY <1>1, <1>2, <1>4, MoveKeeps

LEMMA RunLoadKeeps ==
  ASSUME CInv, RunLoad
  PROVE  CInv'
<1>1. PICK g : g = [Good EXCEPT !.config = work.config, !.claim = Loaded(work).claim]
  OBVIOUS
<1>2. Tree(g)
  <2>1. Tree(Loaded(work)) /\ Tree(work)
    BY LoadedFields DEF CInv, TypeOK
  <2>2. work.config \in Content["config"] /\ Loaded(work).claim \in Content["claim"]
        /\ "config" \in Files /\ "claim" \in Files
    BY <2>1 DEF Tree, Files, Content
  <2>3. Tree([Good EXCEPT !["config"] = work.config])
    BY <2>2, GoodIsTree, TreeExcept
  <2>4. Tree([[Good EXCEPT !["config"] = work.config] EXCEPT !["claim"] = Loaded(work).claim])
    BY <2>2, <2>3, TreeExcept
  <2> QED
    BY <1>1, <2>4
<1>3. run' = [at |-> "loaded", n |-> run.n + 1, tree |-> g, owned |-> run.owned, stopped |-> "", capacity |-> FALSE]
  BY <1>1 DEF RunLoad, CInv, RunShape
<1>4. /\ run'.at = "loaded" /\ run'.n = run.n + 1 /\ run'.tree = g /\ run'.owned = run.owned
      /\ run'.stopped = "" /\ run'.capacity = FALSE
      /\ RunShape' /\ ~ Idle'
  BY <1>3 DEF RunShape, Idle
<1>5. build' = build /\ Idle /\ run.n < MaxRuns
  BY DEF RunLoad
<1>6. run.n \in Nat /\ run.n + 1 \in 0..MaxRuns
  BY <1>5, CheckAssumption DEF CInv, TypeOK
<1>7. TypeOK'
  BY <1>2, <1>4, <1>5, <1>6 DEF CInv, TypeOK, RunLoad, Keep, Steps, Phases
<1>8. build.catalog \in Nat /\ build.assets \in Nat /\ build.viewer \in Nat
      /\ build.catalog <= run.n /\ build.assets <= run.n /\ build.viewer <= run.n
  BY CheckAssumption DEF CInv, TypeOK, Build, Numbered
<1>9. Numbered'
  <2>1. build.catalog < run.n + 1 /\ build.assets < run.n + 1 /\ build.viewer < run.n + 1
        /\ build.catalog <= run.n + 1 /\ build.assets <= run.n + 1 /\ build.viewer <= run.n + 1
    BY <1>6, <1>8
  <2> QED
    BY <1>4, <1>5, <2>1 DEF Numbered
<1>10. MarkerCovers' /\ Publishes' /\ Withdraws' /\ CapacityReplacesNothing' /\ Landed'
  BY <1>4, <1>5 DEF CInv, MarkerCovers, Publishes, Withdraws, CapacityReplacesNothing, Landed
<1> QED
  BY <1>4, <1>7, <1>9, <1>10 DEF CInv

LEMMA RunEvaluateKeeps ==
  ASSUME CInv, RunEvaluate
  PROVE  CInv'
<1>1. PICK t : t = [work EXCEPT !.config = run.tree.config, !.claim = run.tree.claim,
                                !.ignore = IF Gitignored(work, index) THEN "build" ELSE "none"]
  OBVIOUS
<1>2. \/ RunStop(t) # "" /\ RunRefused(t)
      \/ /\ RunStop(t) = "" /\ UNCHANGED build
         /\ run' = [run EXCEPT !.at = IF Compares(t) THEN "marker" ELSE "catalog", !.tree = t,
                               !.owned = build.marker = "owned"]
  BY <1>1 DEF RunEvaluate
<1>3. run.at = "loaded" /\ ~ Idle /\ Keep
  BY DEF RunEvaluate, Idle
<1>4. Tree(t)
  <2>1. Tree(run.tree) /\ Tree(work)
    BY DEF CInv, TypeOK
  <2>2. run.tree.config \in Content["config"] /\ run.tree.claim \in Content["claim"]
        /\ "config" \in Files /\ "claim" \in Files /\ "ignore" \in Files
        /\ "build" \in Content["ignore"] /\ "none" \in Content["ignore"]
    BY <2>1 DEF Tree, Files, Content
  <2>3. Tree([work EXCEPT !["config"] = run.tree.config])
    BY <2>1, <2>2, TreeExcept
  <2>4. Tree([[work EXCEPT !["config"] = run.tree.config] EXCEPT !["claim"] = run.tree.claim])
    BY <2>2, <2>3, TreeExcept
  <2> DEFINE v == IF Gitignored(work, index) THEN "build" ELSE "none"
  <2>5. v \in Content["ignore"]
    BY <2>2
  <2> HIDE DEF v
  <2>6. Tree([[[work EXCEPT !["config"] = run.tree.config] EXCEPT !["claim"] = run.tree.claim] EXCEPT !["ignore"] = v])
    BY <2>2, <2>4, <2>5, TreeExcept
  <2> QED
    BY <1>1, <2>6 DEF v
<1>5. RunStop(t) \in {"", "lint", "catalog", "conformance", "render"} /\ RunCapacity(t) \in BOOLEAN
  BY <1>4, TreeFields DEF RunStop, RunCapacity, Overflow
<1>6. ASSUME RunStop(t) # "", RunRefused(t) PROVE CInv'
  <2>1. PICK g : g = [Good EXCEPT !.config = t.config]
    OBVIOUS
  <2>2. Tree(g)
    BY <1>4, <2>1, Forgets
  <2>3. run' = [at |-> "idle", n |-> run.n, tree |-> g, owned |-> run.owned,
                stopped |-> RunStop(t), capacity |-> RunCapacity(t)] /\ build' = build
    BY <1>6, <2>1 DEF RunRefused, CInv, RunShape
  <2>4. /\ run'.at = "idle" /\ run'.n = run.n /\ run'.tree = g /\ run'.owned = run.owned
        /\ run'.stopped = RunStop(t) /\ run'.capacity = RunCapacity(t)
        /\ RunShape' /\ Idle'
    BY <2>3 DEF RunShape, Idle
  <2>5. TypeOK'
    BY <1>3, <1>5, <2>2, <2>3, <2>4 DEF CInv, TypeOK, Keep, Steps, Phases
  <2>6. Numbered' /\ MarkerCovers' /\ Publishes' /\ Withdraws'
    BY <2>3, <2>4 DEF CInv, Numbered, MarkerCovers, Publishes, Withdraws
  <2>7. run.n \notin {build.catalog, build.assets, build.viewer}
    <3>1. build.catalog \in Nat /\ build.assets \in Nat /\ build.viewer \in Nat /\ run.n \in Nat
      BY CheckAssumption DEF CInv, TypeOK, Build
    <3> QED
      BY <1>3, <3>1 DEF CInv, Numbered
  <2>8. CapacityReplacesNothing'
    BY <2>3, <2>4, <2>7 DEF CapacityReplacesNothing
  <2>9. Landed'
    BY <1>5, <1>6, <2>4 DEF Landed
  <2> QED
    BY <2>4, <2>5, <2>6, <2>8, <2>9 DEF CInv
<1>7. ASSUME RunStop(t) = "", UNCHANGED build,
             run' = [run EXCEPT !.at = IF Compares(t) THEN "marker" ELSE "catalog", !.tree = t,
                               !.owned = build.marker = "owned"]
      PROVE  CInv'
  <2>1. run' = [at |-> IF Compares(t) THEN "marker" ELSE "catalog", n |-> run.n, tree |-> t,
                owned |-> build.marker = "owned", stopped |-> run.stopped, capacity |-> run.capacity]
    BY <1>7 DEF CInv, RunShape
  <2>2. /\ run'.at = (IF Compares(t) THEN "marker" ELSE "catalog") /\ run'.n = run.n /\ run'.tree = t
        /\ run'.owned = (build.marker = "owned")
        /\ run'.stopped = run.stopped /\ run'.capacity = run.capacity
    BY <2>1
  <2>3. RunShape' /\ ~ Idle'
    BY <1>3, <2>1, <2>2 DEF CInv, RunShape, Idle
  <2>4. TypeOK'
    BY <1>3, <1>4, <1>7, <2>2 DEF CInv, TypeOK, Keep, Steps
  <2>5. /\ run'.at \in {"marker", "catalog"} /\ (run'.at = "marker" => Compares(t))
        /\ run'.at = "catalog" => ~ Compares(t)
    BY <2>2
  <2>6. (run'.owned <=> build.marker = "owned") /\ build' = build
    BY <1>7, <2>2
  <2>7. Numbered'
    BY <1>3, <2>2, <2>5, <2>6 DEF CInv, Numbered
  <2>8. MarkerCovers' /\ Publishes' /\ Withdraws'
    BY <2>2, <2>5, <2>6 DEF CInv, MarkerCovers, Publishes, Withdraws
  <2>9. CapacityReplacesNothing' /\ Landed'
    BY <2>3 DEF CapacityReplacesNothing, Landed
  <2> QED
    BY <2>3, <2>4, <2>7, <2>8, <2>9 DEF CInv
<1> QED
  BY <1>2, <1>6, <1>7

LEMMA RunMarkerKeeps ==
  ASSUME CInv, RunMarker
  PROVE  CInv'
<1>1. run.at = "marker" /\ ~ Idle /\ Keep
  BY DEF RunMarker, Idle
<1>2. ASSUME Stop("conformance"), UNCHANGED build PROVE CInv'
  BY <1>1, <1>2, StopKeeps DEF Phases
<1>3. ASSUME Goto("catalog"), build.marker \in {"owned", "none"}, build.marker = "none" => build.status = "none",
             build' = [build EXCEPT !.marker = "owned"] \/ (build.marker = "owned" /\ UNCHANGED build)
      PROVE  CInv'
  <2>1. /\ build' \in Build /\ build'.marker = "owned"
        /\ build'.status = build.status /\ build'.ignore = build.ignore
        /\ build'.catalog = build.catalog /\ build'.assets = build.assets /\ build'.viewer = build.viewer
    BY <1>3 DEF CInv, TypeOK, Build
  <2>2. "catalog" \in Steps \ {"idle"}
    BY DEF Steps
  <2>3. run'.at = "catalog" /\ run'.n = run.n /\ run'.tree = run.tree /\ run'.owned = run.owned
    BY <1>1, <1>3, <2>2, Moves DEF CInv
  <2>4. Numbered' /\ MarkerCovers' /\ Publishes' /\ Withdraws'
    BY <1>1, <1>3, <2>1, <2>3 DEF CInv, TypeOK, Build, Numbered, MarkerCovers, Publishes, Withdraws
  <2> QED
    BY <1>1, <1>3, <2>1, <2>2, <2>4, MoveKeeps
<1> QED
  BY <1>2, <1>3 DEF RunMarker

\* The gates answer with a phase.
LEMMA GatePhase ==
  ASSUME NEW t, NEW now
  PROVE  RunGate(t, now) \in Phases
  BY DEF RunGate, Phases

LEMMA EndKeeps ==
  ASSUME CInv, RunVerdict \/ WriteFails \/ Kill
  PROVE  CInv'
<1>1. CASE RunVerdict
  BY <1>1, GatePhase, StopKeeps DEF RunVerdict, Idle
<1>2. CASE WriteFails
  <2>1. PICK phase : Stop(phase) /\ phase \in {"catalog", "conformance", "render"}
    BY <1>2 DEF WriteFails, CInv, TypeOK, Steps
  <2> QED
    BY <1>2, <2>1, StopKeeps DEF WriteFails, Idle, Phases
<1>3. CASE Kill
  BY <1>3, StopKeeps DEF Kill, Phases
<1> QED
  BY <1>1, <1>2, <1>3

\* Only the types read the trees.
LEMMA TreesAside ==
  ASSUME CInv, UNCHANGED <<build, run>>, TypeOK'
  PROVE  CInv'
<1>1. RunShape' /\ Numbered'
  BY DEF CInv, RunShape, Idle, Numbered
<1>2. MarkerCovers' /\ Publishes' /\ Withdraws'
  BY DEF CInv, MarkerCovers, Publishes, Withdraws
<1>3. CapacityReplacesNothing' /\ Landed'
  BY DEF CInv, CapacityReplacesNothing, Landed, Idle
<1> QED
  BY <1>1, <1>2, <1>3 DEF CInv

\* People and git change the trees and no run, and the trees stay trees.
LEMMA PeopleKeep ==
  ASSUME CInv, Edit \/ Stage \/ Untrack \/ Commit
  PROVE  CInv'
<1>1. UNCHANGED <<build, run>>
  BY DEF Edit, Stage, Untrack, Commit
<1>2. Tree(work') /\ Tree(index') /\ Tree(head') /\ edits' \in 0..MaxEdits /\ stages' \in 0..MaxStages
  <2> USE CheckAssumption DEF CInv, TypeOK
  <2>1. CASE Edit
    <3>1. PICK f \in Editable : \E v \in Content[f] : work' = [work EXCEPT ![f] = v]
      BY <2>1 DEF Edit
    <3>2. PICK v \in Content[f] : work' = [work EXCEPT ![f] = v]
      BY <3>1
    <3>3. Tree(work')
      BY <3>2, TreeExcept
    <3> QED
      BY <2>1, <3>3 DEF Edit
  <2>2. CASE Stage
    <3>1. PICK f \in Editable : index' = [index EXCEPT ![f] = work[f]]
      BY <2>2 DEF Stage
    <3>2. work[f] \in Content[f]
      BY DEF Tree
    <3>3. Tree(index')
      BY <3>1, <3>2, TreeExcept
    <3> QED
      BY <2>2, <3>3 DEF Stage
  <2>3. CASE Untrack
    <3>1. PICK f \in Editable : Absent \in Content[f] /\ index' = [index EXCEPT ![f] = Absent]
      BY <2>3 DEF Untrack
    <3>2. Tree(index')
      BY <3>1, TreeExcept
    <3> QED
      BY <2>3, <3>2 DEF Untrack
  <2>4. CASE Commit
    BY <2>4 DEF Commit
  <2> QED
    BY <2>1, <2>2, <2>3, <2>4
<1>3. TypeOK'
  BY <1>1, <1>2 DEF CInv, TypeOK
<1> QED
  BY <1>1, <1>3, TreesAside

LEMMA KeepOwnStatusKeeps ==
  ASSUME CInv, KeepOwnStatus
  PROVE  CInv'
<1>1. PICK m \in {"none", "foreign"} : build' = [build EXCEPT !.status = "foreign", !.marker = m]
  BY DEF KeepOwnStatus
<1>2. /\ build' \in Build /\ build'.status = "foreign" /\ build'.marker \in {"none", "foreign"}
      /\ build'.ignore = build.ignore /\ build'.catalog = build.catalog
      /\ build'.assets = build.assets /\ build'.viewer = build.viewer
  BY <1>1 DEF CInv, TypeOK, Build
<1>3. Idle /\ build.status = "none" /\ UNCHANGED <<work, index, head, run, stages>>
  BY DEF KeepOwnStatus
<1>4. TypeOK'
  BY <1>2, <1>3, CheckAssumption DEF KeepOwnStatus, CInv, TypeOK
<1> QED
  BY <1>2, <1>3, <1>4 DEF CInv, RunShape, Idle, Numbered, MarkerCovers, Publishes, Withdraws,
     CapacityReplacesNothing, Landed

LEMMA EditGitignoreKeeps ==
  ASSUME CInv, EditGitignore
  PROVE  CInv'
<1>1. /\ build' \in Build /\ build'.ignore = "custom"
      /\ build'.status = build.status /\ build'.marker = build.marker /\ build'.catalog = build.catalog
      /\ build'.assets = build.assets /\ build'.viewer = build.viewer
  BY DEF EditGitignore, CInv, TypeOK, Build
<1>2. Idle /\ UNCHANGED <<work, index, head, run, stages>>
  BY DEF EditGitignore
<1>3. TypeOK'
  BY <1>1, <1>2, CheckAssumption DEF EditGitignore, CInv, TypeOK
<1> QED
  BY <1>1, <1>2, <1>3 DEF CInv, RunShape, Idle, Numbered, MarkerCovers, Publishes, Withdraws,
     CapacityReplacesNothing, Landed

-----------------------------------------------------------------------------
(* Theorems. *)

LEMMA CheckInit == Init => CInv
<1> SUFFICES ASSUME Init PROVE CInv
  OBVIOUS
<1>1. MaxRuns \in Nat /\ MaxEdits \in Nat /\ MaxStages \in Nat
      /\ 0 \in 0..MaxRuns /\ 0 \in 0..MaxEdits /\ 0 \in 0..MaxStages
  BY CheckAssumption
<1>2. /\ build = [marker |-> "none", status |-> "none", ignore |-> "none",
                  catalog |-> 0, assets |-> 0, viewer |-> 0]
      /\ run = [at |-> "idle", n |-> 0, tree |-> Good, owned |-> FALSE, stopped |-> "", capacity |-> FALSE]
  BY DEF Init
<1>3. /\ run.at = "idle" /\ run.n = 0 /\ run.tree = Good /\ run.owned = FALSE
      /\ run.stopped = "" /\ run.capacity = FALSE /\ build.status = "none"
  BY <1>2
<1>4. build \in Build /\ build.catalog = 0 /\ build.assets = 0 /\ build.viewer = 0 /\ build.marker = "none"
  BY <1>1, <1>2 DEF Build
<1>5. TypeOK
  BY <1>1, <1>3, <1>4, GoodIsTree DEF Init, TypeOK, Steps, Phases
<1>6. RunShape
  BY <1>2, <1>3 DEF RunShape, Idle
<1>7. Numbered /\ CapacityReplacesNothing /\ Landed
  <2>1. ~ (run.n > 0) /\ build.catalog <= run.n /\ build.assets <= run.n /\ build.viewer <= run.n
    <3>1. ~ (0 > 0) /\ 0 <= 0
      OBVIOUS
    <3>2. run.n = 0 /\ build.catalog = 0 /\ build.assets = 0 /\ build.viewer = 0
      BY <1>3, <1>4
    <3> QED
      BY <3>1, <3>2, Zenon
  <2> QED
    BY <1>3, <2>1 DEF Numbered, CapacityReplacesNothing, Landed
<1>8. MarkerCovers /\ Publishes /\ Withdraws
  BY <1>3, <1>4 DEF MarkerCovers, Publishes, Withdraws
<1> QED
  BY <1>5, <1>6, <1>7, <1>8 DEF CInv

LEMMA CheckSteps == CInv /\ [Next]_vars => CInv'
<1> SUFFICES ASSUME CInv, [Next]_vars PROVE CInv'
  OBVIOUS
<1>1. CASE UNCHANGED vars
  <2>1. TypeOK'
    BY <1>1 DEF vars, CInv, TypeOK
  <2> QED
    BY <1>1, <2>1, TreesAside DEF vars
<1>2. CASE Next
  BY <1>2, PeopleKeep, KeepOwnStatusKeeps, EditGitignoreKeeps, RunLoadKeeps, RunEvaluateKeeps,
     RunMarkerKeeps, RunCatalogKeeps, RunGitignoreKeeps, RunStatusKeeps, RunAssetsKeeps, RunViewerKeeps,
     RemoveStatusKeeps, RestoreGitignoreKeeps, RemoveMarkerKeeps, EndKeeps DEF Next
<1> QED
  BY <1>1, <1>2

\* The inductive invariant: at each step of a run, which generated files are this
\* run's, and whose the status, its marker and the ignore file are.
THEOREM CheckInvariance == Spec => []CInv
  BY CheckInit, CheckSteps, PTL DEF Spec

\* Plain check, --validate and the viewer give one verdict on the same files, and
\* where plain check refuses more, it refuses for what only it reads (check.go,
\* handlers.go: statusToDTO).
THEOREM VerdictsAlwaysAgree == Spec => []VerdictsAgree
<1>1. CInv => VerdictsAgree
  BY AgreeOnTrees DEF CInv, TypeOK
<1> QED
  BY <1>1, CheckInvariance, PTL

\* What check left in build/ is whole, or was left alone, and is owned, after any
\* kills and failed writes.
THEOREM OutputsAreTrue == Spec => []OutputsTrue
<1>1. CInv => OutputsTrue
  BY DEF CInv, MarkerCovers, OutputsTrue, StatusOwned
<1> QED
  BY <1>1, CheckInvariance, PTL

\* A check never replaces or removes a status, a marker or an ignore file that
\* people wrote.
THEOREM ForeignAlwaysKept == Spec => ForeignKept
<1>1. CInv /\ [Next]_vars =>
        [/\ build.status = "foreign" => build'.status = "foreign"
         /\ build.marker = "foreign" => build'.marker = "foreign"
         /\ build.ignore = "custom" => build'.ignore = "custom"]_vars
  <2> SUFFICES ASSUME CInv, Next
               PROVE  /\ build.status = "foreign" => build'.status = "foreign"
                      /\ build.marker = "foreign" => build'.marker = "foreign"
                      /\ build.ignore = "custom" => build'.ignore = "custom"
    OBVIOUS
  <2>1. build \in Build
    BY DEF CInv, TypeOK
  <2>2. run.at \in {"unstatus", "unignore", "unmark"} => build.marker = "owned" /\ build.status # "foreign"
    BY DEF CInv, MarkerCovers, Publishes, Withdraws
  <2>3. run.at = "status" => build.status # "foreign"
    BY DEF CInv, MarkerCovers, Publishes
  <2>4. CASE UNCHANGED build
    BY <2>4
  <2>5. CASE KeepOwnStatus \/ EditGitignore
    BY <2>1, <2>5 DEF KeepOwnStatus, EditGitignore, Build
  <2>6. CASE RunMarker
    BY <2>1, <2>6 DEF RunMarker, Build
  <2>7. CASE RunCatalog \/ RunAssets \/ RunViewer
    BY <2>1, <2>7 DEF RunCatalog, RunAssets, RunViewer, Build
  <2>8. CASE RunGitignore \/ RestoreGitignore
    BY <2>1, <2>8 DEF RunGitignore, RestoreGitignore, EnsureBuildGitignore, Build
  <2>9. CASE RunStatus \/ RemoveStatus \/ RemoveMarker
    BY <2>1, <2>2, <2>3, <2>9 DEF RunStatus, RemoveStatus, RemoveMarker, Build
  <2>10. Edit \/ Stage \/ Untrack \/ Commit \/ RunLoad \/ RunEvaluate \/ RunVerdict \/ WriteFails \/ Kill
           => UNCHANGED build
    BY DEF Edit, Stage, Untrack, Commit, RunLoad, RunEvaluate, RunRefused, RunVerdict, WriteFails, Kill
  <2> QED
    BY <2>4, <2>5, <2>6, <2>7, <2>8, <2>9, <2>10 DEF Next
<1> QED
  BY <1>1, CheckInvariance, PTL DEF Spec, ForeignKept

\* What the hook let through validates where it is checked out, whatever the
\* author's working tree held, in projects whose claims are not symbolic links.
THEOREM CommitsAlwaysValidate ==
  ASSUME "link" \notin Claims
  PROVE  Spec => []CommitsValidate
<1> DEFINE Inv == NoLinks /\ CommitsValidate
<1>1. Init => Inv
  <2> SUFFICES ASSUME Init PROVE Inv
    OBVIOUS
  <2>1. work = Good /\ index = Good /\ head = Good
    BY DEF Init
  <2>2. Good.claim # "link"
    BY DEF Good
  <2> QED
    BY <2>1, <2>2, GoodValidates DEF NoLinks, CommitsValidate
<1>2. CInv /\ Inv /\ [Next]_vars => Inv'
  <2> SUFFICES ASSUME CInv, Inv, [Next]_vars PROVE Inv'
    OBVIOUS
  <2>1. Tree(work) /\ Tree(index)
    BY DEF CInv, TypeOK
  <2>2. CASE UNCHANGED <<work, index, head>>
    BY <2>2 DEF NoLinks, CommitsValidate
  <2>3. CASE Edit
    <3>1. PICK f \in Editable :
            \E v \in Content[f] : work' = [work EXCEPT ![f] = v] /\ (f = "claim" => v \in Claims)
      BY <2>3 DEF Edit
    <3>2. PICK v \in Content[f] : work' = [work EXCEPT ![f] = v] /\ (f = "claim" => v \in Claims)
      BY <3>1
    <3>3. work'.claim # "link"
      BY <2>1, <3>2, CheckAssumption DEF NoLinks, Tree
    <3> QED
      BY <2>3, <3>3 DEF Edit, NoLinks, CommitsValidate
  <2>4. CASE Stage
    <3>1. PICK f \in Editable : index' = [index EXCEPT ![f] = work[f]]
      BY <2>4 DEF Stage
    <3>2. index'.claim # "link"
      BY <2>1, <3>1, CheckAssumption DEF NoLinks, Tree
    <3> QED
      BY <2>4, <3>2 DEF Stage, NoLinks, CommitsValidate
  <2>5. CASE Untrack
    <3>1. PICK f \in Editable : index' = [index EXCEPT ![f] = Absent]
      BY <2>5 DEF Untrack
    <3>2. index'.claim # "link"
      BY <2>1, <3>1, CheckAssumption DEF NoLinks, Tree, Absent
    <3> QED
      BY <2>5, <3>2 DEF Untrack, NoLinks, CommitsValidate
  <2>6. CASE Commit
    <3>1. head' = index /\ work' = work /\ index' = index /\ runCheckStaged(index, work) = ""
      BY <2>6 DEF Commit
    <3>2. index.config \notin {Absent, "outside"} => runCheckValidate([index EXCEPT !.ignore = "none"], index) = ""
      BY <2>1, <3>1, HookIsValidation DEF NoLinks
    <3> QED
      BY <3>1, <3>2 DEF NoLinks, CommitsValidate
  <2>7. \/ Edit \/ Stage \/ Untrack \/ Commit \/ UNCHANGED <<work, index, head>>
    BY DEF Next, vars, KeepOwnStatus, EditGitignore, RunLoad, RunEvaluate, RunMarker, RunCatalog,
       RunGitignore, RunStatus, RunAssets, RunViewer, RemoveStatus, RestoreGitignore, RemoveMarker,
       RunVerdict, WriteFails, Kill, Keep
  <2> QED
    BY <2>2, <2>3, <2>4, <2>5, <2>6, <2>7
<1>3. Inv => CommitsValidate
  OBVIOUS
<1> QED
  BY <1>1, <1>2, <1>3, CheckInvariance, PTL DEF Spec
=============================================================================
