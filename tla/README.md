# A TLA+ model of DossierX

DossierX keeps a project's knowledge as small YAML claims that humans approve
("lock") and agents consume. What makes it trustworthy is that a claim's file, the
record of its approval, the record of its review, and everything shown or generated
from them never disagree silently. This directory specifies the commands that maintain
that agreement and the readings taken from it, checks them with TLC on small instances,
and proves, with TLAPS and for every instance, what the approval core, its advice, the
upgrade of old stores, the briefs, `check`, the viewer's server, `claim new` and most of
the readings promise.

    tlc -config MCApproval_<run>.cfg MCApproval     # one run
    tlapm ApprovalProofs.tla                        # the proofs of one module

## The system

### State on disk

| file | written by | what it holds |
|---|---|---|
| claim files (`claims_dir/**.yaml`) | authors, `claim new`, claim commands, comments, `check` | status, `review_pending`, content, comment threads |
| brief files (`*.md`) | authors, brief commands, comments | status, words, `rests_on`, comment threads |
| `build/ledger/lock-store.json` | lock, unlock, reaudit, constitution lock, brief commands, recovery | approval records (signed hash, release stamp, approved content), dependency baselines, the constitution's record, a schema version |
| `build/ledger/comment-digest.json` | comment operations, approvals, the sweep | a digest of each comment block |
| `build/ledger/flag-store.json` | flag, unlock, reaudit | an agent's pending before/after assertion |
| `constitution.yaml` | author, constitution lock | the project's roof and its status |
| code-link artifacts, one per module | `links scan`, `claim link`, `check` | which file carries which claim's tag, at which content |
| module manifests | authors, `claim new` (stub) | what a module provides and depends on |
| `build/` catalog, viewer, conformance status, `.gitignore`, ownership marker | `check` | generated output |
| skill trees, `dossierx-skills.lock`, `AGENTS.md` | `skills export`, people | exported instructions |
| `*.lock` sentinels | every writer | mutual exclusion between processes |

### Components and how they interact

* **cmd/dossierx** runs each command as one process: it takes sentinels in the order
  claims, lock store, flag store, digest store, loads, computes, and saves one file at a
  time. Nothing is transactional across files.
* **internal/lock**: the store, its ledger and schema versions, `EvaluateSet` (may these
  claims be approved?), `Audit` (what disagrees?), content hashes and sentinels.
* **internal/comments** + **internal/digest**: thread operations from the CLI and from
  the viewer's HTTP handlers, all through `Deps.mutate`, under the claims sentinel.
* **internal/reaudit**: flags and the re-signing of a locked claim under review.
* **internal/constitution**: the roof, whose lock gates every approval; its lock command
  holds the store sentinel only.
* **internal/briefs**: documents that rest on claims, with records and baselines of their
  own in the same lock store.
* **internal/loader**: atomic saves and the file token (compare, then rename).
* **internal/check**: `reconcileReviewPending`, then lint, catalog, scan, render,
  conformance, and the gates; the same questions asked without writing by
  `check --validate`, `GET /api/status` and `check --staged`.
* **internal/serve**: a watcher, a single-flight render pipeline, an event hub, comment
  endpoints and the images of claims, for browser tabs.
* **internal/readiness**, **catalog**, **graph**, **conformance**, **implink**,
  **manifest**, **approvalrecovery**, **approvaledit**, **textdiff**: readings of the
  project, each with rules of its own.
* **internal/lint**, **render**, **layout**, **config**, **cliout** and leaf helpers:
  predicates over one load, formatting, and paths.

### What is hard

Two processes interleave between any two file writes; a process can be killed there and
leaves stale sentinels; a write can fail; authors save drafts with an editor at any time,
without any sentinel; files that only commands should change are sometimes changed by
hand; projects are older or newer than the engine; several pieces of code decide the same
question again. A unit test fixes one order of these. `PROJECT.json` lists each hazard at
its line.

What makes each part correct:

* claim lock: signs only what was admitted and reviewed; all of a batch or none of it.
* unlock: always works, and never opens the gate before the file is draft.
* reaudit: never launders a changed file; consumes a flag once; is not asked for again.
* advice: what an agent is told to do is accepted when it does it.
* comments: threads and digest move together; `review_pending` follows threads and flags.
* briefs: a clean brief is one its approver read, claims and images included.
* lock store: no record lost, no mark without its record, no update of one command lost
  to another's save; no version read or written by an engine that does not know it.
* audit: silent on every honest history, loud on every other.
* check: four readers, one verdict; generated files are whole, owned, or left alone.
* serve: no answer older than its question, every change shown, shutdown prompt.
* readings: ready, linked, conforming, provided, approved mean what they say.
* sentinels: every command ends.

## Modules

| module | role |
|---|---|
| `Approval` | claim commands, comments, constitution lock and `check`'s writing phase over the files; properties and inductive invariant |
| `Advice` | next actions, next steps and dry runs, related to `Approval`'s gates (extends it) |
| `ApprovalProofs` | theorems about `Approval`: its lock store, what it signs, recovers and repairs, and the silence of the audit on undisturbed histories |
| `AdviceProofs` | theorems about the advice (extends `Advice` and the module above) |
| `BriefsProofs`, `SchemaProofs`, `CheckProofs`, `ServeProofs` | the theorems about the module each is named after |
| `RecoveryProofs` | the wording a record keeps, the diff of two texts and the panel it is shown in |
| `DossierProofs` | what the parts of the project promise, alone and within the whole (extends it) |
| `Threads` | a comment block, its six operations and the rights to them |
| `Briefs` | brief lock, unlock, reaudit and comments on briefs (uses `Threads`) |
| `Schema` | store versions, the crossing onto the ledger, the digest store beside it |
| `Check` | plain check, `--validate`, `/api/status` and `--staged` over three trees |
| `Serve` | watcher, pipeline, hub, tabs, comment operations, shutdown |
| `Readiness`, `Conformance`, `Links`, `Assets`, `Inbox`, `Recovery` (with `Wording`), `Skills`, `Manifest`, `ClaimNew` | one reading or command each |
| `LinkTable` | what the writers of code links promise, which `Links` implements |
| `Dossier` | the project being edited; composes the modules of the two rows above, with reference definitions |
| `MCApproval`, `MCBriefs`, `MCCheck`, `MCSchema`, `MCServe`, `MCDossier` | constants for TLC |

### `Approval` and `Advice`

State: `file`, `store`, `digest`, `flags`, `roof` are the files above; `holder` the two
sentinels; `pc` and `mem` each process's next step and what it has loaded; `budget` bounds
edits, crashes, failed writes and out-of-band changes; `approved` is history (contents
that passed a lock's admission, or a confirmed reaudit of such content).

Every durable write is one action, in the order of the code:

| command | actions |
|---|---|
| `claim lock` | `Preview`, `LockLoad`, `LockAdmit` or `LockRefuse`, `LockWrite`/`LockWriteFails` per claim, `LockSign` per claim, `LockSave`/`LockSaveFails`; rollback `LockUndo` per claim, `LockRestore` |
| `claim unlock` | `UnlockLoad`, `UnlockSweep`, `UnlockFlag`, `UnlockClaim`, `UnlockSave` |
| `claim flag` | `FlagLoad`, `FlagSave`, `FlagClaim` |
| `claim reaudit --confirm` | `ReauditLoad`, `ReauditApply` or `ReauditRefuse`, `ReauditSign`, `ReauditClaim`, `ReauditSave`, `ReauditFlag` |
| comment operations | `CommentLoad`, `CommentClaim`, `CommentDigest` |
| `check` | `CheckLoad`, `CheckSweep`, `CheckWrite` per claim |
| `constitution lock` | `RoofLoad`, `RoofFile`, `RoofSave` |
| any | `Timeout`, `Refused` (token), `Fails` (write), `Crash`, `RemoveStale` |
| outside | `EditDraft`, `EditRoof`, `Tamper` |

Abstractions:

* The project is past the ledger crossing: `LedgerCovered` holds and both stores exist.
  On such a project `PrepareStore` changes nothing but digest entries (`Sweep`) and
  constitution lock adopts no comments. `Schema` has the rest.
* A claim's content is a `body` (everything `ContentHash` reads) and `extra` (a count of
  changes to what `LockedClaimHash` signs in addition). Claims are lint-clean, body-only
  and never deleted; `rests_on` is the constant `RestsOn`. Hashes are the hashed values:
  SHA-256 is taken as injective, here and in every module.
* A comment block is its threads' statuses; `Threads` has replies, authors and rights.
* A process waiting for its first sentinel has not started. The flag and digest
  sentinels are only ever taken under the claims sentinel on a covered project, so they
  never block and are omitted.
* Loading the claims and capturing a token is one step, except in claim lock, where the
  wait for the store sentinel lies between the two. `SaveClaimIfUnchanged`'s compare and
  rename are one step.
* Digest writes of approvals and of the sweep are best-effort: they may fail silently
  (`RecordDigest`, `SweepDigest`).
* A bare `reaudit` (no `--confirm`) does what `ReauditRefuse` does: it sweeps.
* `Tamper` changes a locked claim's content or anybody's threads, not a status and not
  the lock store: those are what the audit's other rules report.
* The order in which a set lock visits its claims is left open.

`Advice` adds no state: `claimNextActions`, `nextSteps`, `reauditDryRun`,
`previewPolicyLock` and `commentDryRun` are functions of the same files, and
`AdviceAgrees` relates them to `ReauditAllowed` and `CommentAllowed`, `HintsSucceed` to `Admissible`.

### `Threads` and `Briefs`

`Threads` defines add, reply, resolve, reopen, edit and delete on one block with
`canAct`, identifiers included; `forged` marks a block changed by hand. `Briefs` composes
it with the brief commands: `op` holds each process's command and phase, and each command
is its gates, one or two file writes in the code's order, and the store save. A brief's
words, image digests and the claims it quotes are members of `Contents`.

### `Schema`

Lock stores of versions 0 to the briefs' version, or newer than the engine, absent,
or with their version lowered by hand; the digest store beside them; `PrepareStore`,
`MigrateLegacyStore`, `CrossPreLedger`, the sweep, and the steps of lock, unlock,
constitution lock, check and comments that touch versions. Commands hold the store's
sentinel, so one runs at a time; it can be killed or fail between any two writes.

### `Check`

A project is a tree of files; `work`, `index` and `head` are the three of them. The
decisions are operators (`runCheckValidate`, `runCheck`, `status`, `statusToDTO`,
`stagedLedgerInputs`, ...) over a tree, in the order of the code's gates. A plain check is
one action per written file (`RunLoad`, `RunEvaluate`, `RunMarker`, `RunCatalog`,
`RunGitignore`, `RunStatus`, `RunAssets`, `RunViewer`, `RunVerdict`, ...), with kills and edits in between. What a lint or projection finds is good
or bad; the modules of `Dossier` say when.

### `Serve`

A file is the number of times it was written. `Poll`, `OnChange` and `Refresh` are the
watcher; `Get`, `ReadClaims`, `ReadStores` and `Drain` the pipeline, which reads the
project in two parts without any sentinel; `Deliver`, `Changed`, `Fetch` and
`ApplyFragment` the tab, which may hide, lose its stream and come back; `MutateAcquire`,
`MutateWrite` and `MutateTimeout` a comment operation waiting for its sentinels;
`Shutdown` and `Exit` the grace period.

### `Dossier` and its parts

A behaviour chooses a part and edits its files; every reading is an operator of the files,
compared in each state with a reference definition in `Dossier` (`Ways`, `Sound`, ...).

* `Readiness`: `Compute` with shortest paths, cycles, inherited causes, redaction, the
  catalog's projection and the edges of the graph. Claims are edited, commented, flagged,
  approved, released and deleted.
* `Conformance`: decoding, one verdict per check, and the two capacity bounds.
* `Links`: scan and link under the artifact's sentinel, `Acquire` with the batch applied in memory, and
  `WriteArtifact`; a kill leaves the sentinel. `LinkTable` is the abstract table: rows
  are added or replaced atomically and never go back in version; the mapping takes the
  artifact on disk for the table.
* `Assets`: the image index, its trust window and its grace period, in ticks.
* `Inbox`: `comment inbox --since` polled while operations run; one read per subject. Two
  history variables tell what no file does: `behind`, the subjects saved after the poll
  under way had read them, and `passed`, those of them it then read a newer open thread
  after, each until it is saved again. `InboxComplete` excepts `passed` and nothing else.
* `Recovery`, `Wording`: `RetainApprovedContent`, the search of the history, the panel,
  and the word diff it shows.
* `Skills`: export over earlier releases, retired bundles, torn and edited files, the
  AGENTS.md section; `--check`.
* `Manifest`: export rule, budgets with the entry to blame, the viewer's lists.
* `ClaimNew`: concurrent `claim new` with one sentinel, stub and claim, failure and kill.

## Runs

| run | instance | shows |
|---|---|---|
| `honest` | 2 processes, claim a rests on b, 2 bodies, 1 edit; lock, unlock, flag, reaudit, check | `Honest`, `ReauditSettles` |
| `crash` | 2 processes, 1 claim, 1 thread; all claim commands and comments; 1 kill, 1 failed write, 1 edit, or 1 change by hand | `Honest`, `NoUnapproved`, `AdviceAgrees`, `ReleaseFollowsDraft`, `UnlockRecovers`, `CheckReconciles`, `NoApprovalOverThreads` |
| `batch` | a set lock of 2 claims beside check and constitution lock, 1 kill, 2 failed writes, 1 edit, weak fairness | `BatchAtomic`, `RecordsNeverLost`, `NoLostUpdate`, `CommandsEnd` |
| `serve` | one tab, 2 writes, one comment operation, hide or dropped stream, the digest sentinel held by another process, weak fairness | `FreshResponse`, `PagesNeverRegress`, `ChangesReachTabs`, `ShutdownPrompt` |
| `briefs` | 2 processes, 1 brief resting on 1 claim, 1 thread, 2 edits, 1 failure or kill, 1 change by hand | `CleanMeansRead`, `HonestAudit`, `NeverLaundered`, `DryRunTells`, `NoOpenThreadSigned` |
| `check` | all editable files, 2 edits, 2 stagings, 2 plain checks | `VerdictsAgree`, `CommitsValidate`, `OutputsTrue`, `ForeignKept` |
| `schema` | 2 claims, one resting on the other, 2 comments, 1 fault, 1 lapse of best effort, 1 kill, 1 change by hand | `NotAccused`, `NothingLaundered`, `StoresRespected` |
| `dossier` | 4 claims with up to 3 dependencies; small instances of the other parts; 2 to 4 edits per part | `ReadinessTrue`, `NoInternalsLeak`, `ProvidedTrue`, `BoundsExact`, `LinksTrue`, `ShownIsTrue`, `InboxTrue`, `PanelsTrue`, `SkillsTrue`, `LinksAreATable`, `NewKeepsFiles` |
| `unseen`, `hints`, `missed`, `crossing` | smallest instances | the four disagreements below |

Bounds. Two processes suffice for every race of one sentinel holder with one waiter or
with the sentinel-free editor; a claim with one dependency exercises drift and closures
of two. One thread passes through all thread states. `MaxExtra` bounds the reaudits of
one claim, as each appends an audit note; `MaxEdits`, `MaxCrashes`, `MaxFaults`,
`MaxTampers` and the like are the budgets of each run. In `crash` a change by hand is
explored apart from edits, kills and failures (`TamperAlone`). Four claims are the least
with a diamond and a way around it, or a cycle behind a chain; the output bounds of
`Conformance` and `Manifest` are small numbers that the instance's strings straddle;
`Assets` counts two ticks of grace against four in all. One tab is enough in `serve`
because tabs share only the pipeline and the watcher, which `Refresh` also calls. Processes, linkers, source
files and claim files are symmetric in safety runs; runs with liveness use no symmetry.
`LinksAreATable` and `NewKeepsFiles` are action properties that no permutation changes.
The theorems have no bounds at all.

Deadlock is checked in the `Approval` runs: an idle process can always start something.
The others stop when their budgets are spent, which their configurations say.

Fairness. `Approval`'s `FairSpec` assumes weak fairness of `Step(p)` for every process: a
running command is scheduled until it ends, and `AcquireFileLock` gives up after its
timeout (`Timeout` is part of `Step`). Nothing obliges a process to start a command, an
author to edit or anybody to remove a stale sentinel. `Serve`'s assumes that the server's
goroutines run, its ticker ticks and a browser handles what arrives; `ChangesReachTabs`
assumes in addition that the claims are eventually parseable for good, as a render of a
broken tree is an error page. Nobody has to write, post, hide or stop.

### Where the code and its documentation disagree

* `unseen`: docs/approval-policy.md says the writer never substitutes unseen content into
  an approval. The proposal binds `ContentHash`; the approval signs `LockedClaimHash`.
* `hints`: internal/check says the draft its lock hint names is one the real command
  would accept. `firstLockableDraft` tries two of the gates; a draft whose unlock was
  killed before the release was saved is named, and refused.
* `missed`: cmd/dossierx/comment.go:646-650 says that the next poll with the cursor cannot
  miss a thread, writes during the previous call included. A comment takes its time before
  it is saved, and the inbox reads one subject after another: a comment saved behind the
  poll is missed for good when the same poll then reads a newer thread, as its cursor is
  past both. `InboxTrue` holds of everything else.
* `crossing`: a comment made before the ledger exists has no digest; the first lock
  crosses the project without adopting it, and the claim refuses comments and locks from
  then on, in "a state no honest sequence produces".

Read in the code beside the models, without a run:

* `RecordApproval` overwrites a recorded comment digest that disagrees with its claim
  (ledger.go:363), which comments.go:528 says no command does; the error of a failed
  digest save advises another comment operation (comments.go:705), which is refused
  (comments.go:576).
* The set lock captures its file tokens after waiting for the store sentinel
  (lock_policy.go:200), the token's function asks for it right after the load
  (loader.go:588).
* The lock hint is printed without `--proposal`, and so is always refused with
  missing_flag (lock_policy.go:176).
* `reaudit --dry-run` requires drift or a flag; `--confirm` on a pending claim without a
  trigger goes through. A locked claim left without a record by a killed lock is given
  its first one by reaudit, over open threads (main.go:842).
* The dry run of a comment passes a block nobody recorded where the operation refuses it
  (comment.go:216-319, comments.go:573-580).
* `spliceAgentsSection` leaves an unpaired BEGIN marker in place and appends a section
  (skills_embed.go:898-906); the next export pairs that marker with the new section's END
  and removes the text between, which the comment above it promises to keep.
* An agent may not delete a human's reply (comments.go:49); deleting its own thread deletes
  the human's replies in it (comments.go:989).
* The server's shutdown grace of 5 s is shorter than the 10 s a handler may wait for a
  sentinel (server.go:94, filelock.go:13).
* The hook leaves a claim that is a symbolic link out of the registry (staged.go:1321),
  which staged.go:1310-1320 calls the safe direction; a link to a claim with no record is
  let through, and a checkout of that commit, whose loader follows links (loader.go:61),
  does not validate. `Check`'s instance has no links.

## Proofs

The theorems hold for every value of the constants that satisfies the modules'
assumptions: names are distinct, `RestsOn` is a relation on claims, bounds are naturals,
lengths of texts and members are naturals, ids are finitely many and positive,
the bodies and fields of claims are texts over some vocabulary of words,
there is at least one content, text and claim, and `None` is none of the things it stands for the absence
of (a ledger record, a comment block, a claim file). None of them bounds the
number of processes, claims, briefs, tabs, linkers, files or faults. Each module's
inductive invariant stands at the end of the module it is about, and can be given to TLC as
an INVARIANT of the module's runs; the runs listed above check what follows from it.

| theorem | statement |
|---|---|
| `ApprovalProofs!Invariance` | `Spec => []IInv` |
| `ApprovalProofs!TypeCorrect` | `Spec => []TypeOK` |
| `ApprovalProofs!NeverDeleted` | `Spec => []NeverLooksDeleted` |
| `ApprovalProofs!RecordsKept` | `Spec => RecordsNeverLost` |
| `ApprovalProofs!UpdatesKept` | `Spec => NoLostUpdate` |
| `ApprovalProofs!ReleaseOrdered` | `Spec => ReleaseFollowsDraft` |
| `ApprovalProofs!SafetyInvariance` | `Spec => []AInv` |
| `ApprovalProofs!GatePromise` | `Spec => []NoUnapproved` |
| `ApprovalProofs!UnlockIsRecovery` | `Spec => UnlockRecovers` |
| `ApprovalProofs!CheckRepairs` | `Spec => CheckReconciles` |
| `ApprovalProofs!ApprovalsAreSettled` | `Spec => NoApprovalOverThreads` |
| `ApprovalProofs!BatchInvariance` | `Spec => []BInv` |
| `ApprovalProofs!BatchesAreAtomic` | `Spec => BatchAtomic` |
| `ApprovalProofs!HonestInvariance` | `Spec => []HInv` |
| `ApprovalProofs!HonestAudits` | `Spec => []Honest` |
| `AdviceProofs!AdviceSound` | `Spec => []AdviceAgrees` |
| `AdviceProofs!ReauditInvariance` | `Spec => []RInv` |
| `AdviceProofs!ReauditIsDone` | `Spec => ReauditSettles` |
| `SchemaProofs!SchemaInvariance` | `Spec => []SInv` |
| `SchemaProofs!NeverLaundered` | `Spec => []NothingLaundered` |
| `SchemaProofs!HonestNotAccused` | `Spec => []NotAccused` |
| `SchemaProofs!StoresAreRespected` | `Spec => StoresRespected` |
| `CheckProofs!CheckInvariance` | `Spec => []CInv` |
| `CheckProofs!VerdictsAlwaysAgree` | `Spec => []VerdictsAgree` |
| `CheckProofs!OutputsAreTrue` | `Spec => []OutputsTrue` |
| `CheckProofs!ForeignAlwaysKept` | `Spec => ForeignKept` |
| `CheckProofs!CommitsAlwaysValidate` | `Spec => []CommitsValidate`, if no claim is a symbolic link |
| `BriefsProofs!BriefsCleanMeansRead` | `Spec => []CleanMeansRead` |
| `BriefsProofs!BriefsHonestAudit` | `Spec => []HonestAudit` |
| `BriefsProofs!BriefsNeverLaundered` | `Spec => []NeverLaundered` |
| `BriefsProofs!BriefsDryRunTells` | `Spec => []DryRunTells` |
| `BriefsProofs!BriefsNoOpenThreadSigned` | `Spec => NoOpenThreadSigned` |
| `ServeProofs!ServeFresh` | `Spec => []FreshResponse` |
| `ServeProofs!ServePages` | `Spec => PagesNeverRegress` |
| `DossierProofs!LinksRefine` | `LinksSpec => LinksAreATable` (`Links` implements `LinkTable`) |
| `DossierProofs!LinksTagged` | `LinksSpec => [](UndriftedAreTagged /\ GateMeansTagged)` |
| `DossierProofs!NewKeeps` | `NewSpec => NewKeepsFiles` |
| `DossierProofs!InboxMissesNothing` | `InboxSpec => []InboxComplete` |
| `DossierProofs!ImagesAreFresh` | `AssetsSpec => []AssetsFresh` |
| `DossierProofs!ExportsAreSound` | `SkillsSpec => []SkillsSound` |
| `DossierProofs!PinsAreProvided` | `ManifestSpec => []PinsProvided` |
| `RecoveryProofs!KeptWasSigned` | `RecoverySpec => []KeptIsSigned` |
| `RecoveryProofs!PanelIsTrue` | `RecoverySpec => []PanelTrue` |
| `DossierProofs!ProjectLinks`, `ProjectTagged`, `ProjectNew` | `LinksAreATable`, `[]LinksTrue`, `NewKeepsFiles` of the whole project |
| `DossierProofs!ProjectShown`, `ProjectInbox`, `ProjectSkills`, `ProjectProvided` | `[]ShownIsTrue`, `[]InboxTrue`, `[]SkillsTrue`, `[]ProvidedTrue` of the whole project |
| `DossierProofs!ProjectReadiness`, `ProjectHides` | `[]ReadinessTrue`, `[]NoInternalsLeak` of the whole project |
| `DossierProofs!ViewsAreFit` | `ManifestSpec => []ViewsFit` |
| `DossierProofs!ProjectBounds`, `ProjectPanels` | `[]BoundsExact`, `[]PanelsTrue` of the whole project |

**The lock store** (`IInv`). A save of the lock store writes what a command computed
several steps earlier, so no property of the store on disk is inductive. `IInv` adds what
links that memory to the disk:

* `MemoryFits`: what a command has loaded by the time it is at a label;
* `StoreGuarded`: a command that will save the store holds its sentinel, and the store in
  its memory keeps every record on disk (`Link`), differs in the constitution's record
  only if the command is constitution lock, and in nothing else if it is;
* `ClaimsGuarded`: a command that will save claim files holds the claims sentinel;
* `ReleaseGuarded`: a release of a standing record is in memory only at `unlock.save`,
  when the file is draft already.

One lemma per action shows that it keeps `IInv`. Most follow from `GotoKeeps`: a step of
one process leaves alone what the other processes' obligations mention, because whatever
it writes it holds the sentinel of. `StoreSteps` then says that the store on disk changes
only by such a save, and the action properties follow from `Link` and `ReleaseLink`.

**What is signed** (`AInv`). The approval properties need to know of the claim files what
`IInv` knows of the store. `Knows` is what the holder of the claims sentinel knows:

* `Kept`: a file it has not written (`Unwritten`) still has the status it was loaded with,
  and while it is locked and nobody tampers, its content; an editor saves drafts only;
* `LockKnows`: what a set lock admitted was draft, without open threads and approved; what
  it has written is locked, what it has rolled back is draft;
* `ReauditKnows`, `CheckKnows`: reaudit writes the content it signs; check marks locked
  claims and no claim it has passed needs its mark;
* `WillSave`: each record in memory is the one on disk, or the command's own (`Signed`).

To these `AInv` adds `RecordsApproved` (a standing record's hash was approved),
`FilesApproved` (without a hand, so is a locked file's) and `FilesRecorded` (without a
kill or a failed write, a locked claim has a standing record or its set lock is still
running). `HolderStep` and `AsideStep` carry `Knows` across the steps of its process and of
everybody else. `NoUnapproved` is claimed when nothing died or nobody tampered, and proved
for exactly that: with both, a set lock killed before its save leaves a locked claim
without a record, a hand changes it, and a reaudit signs what it finds (main.go:842).

**All or nothing** (`BInv`). `BatchAtomic` is about the step that ends a set lock, of any
batch and beside any commands: its save, the end of its rollback, or a kill. `BatchKnows`
adds to what `AInv` knows of the lock that no member's record stands before the save (the
restored store is the one on disk, by `Link`), and it counts slips, failed writes and
editor saves: none has happened while the files not yet written are what the tokens stand
for, at least one by the time a rollback begins, so that after one slip every write of the
rollback succeeds. Whatever else happens, a member that stays locked without a record is
reported.

**The silent audit** (`HInv`). While nothing was killed, failed or changed by hand, the
file, the record, the digest, the flag and `review_pending` of a claim agree at every
instant but for the one write the holder of the claims sentinel is about: `Settled` says
which (`Recorded`, `Digested`, the flag and the mark), `HolderKnows` what that command
has in memory of blocks, digests and flags so that its write closes the gap. Neither is
inductive without the other, nor without `AInv`: `check`, for one, may drop a mark only
because `CheckKnows` ties it to the flags it has loaded.

**Advice** (`RInv`). `AdviceAgrees` compares two computations over the same files and needs
their types only. It covers reaudit, the discussion, restoring, and the dry runs of reaudit
and of comments, the latter with its one difference from the operation written out; the lock
hint of `check` is not in it, as the run `hints` refutes it. `ReauditSettles` needs that nobody has undone what a reaudit did by the
time it returns (`Settling`: the flag it consumed is the one that stands, its baselines are
those it loaded), and that nothing locked is in a cycle of `rests_on` (`LockedUncycled`),
as a cycle would make its own reaudit drift again.

**Old stores** (`SInv`). Commands run one at a time here, so memory is one record.
`RecordsKept`, `BaselinesKept` and `LoweredStays` say how the store in memory may differ
from the one on disk at each label: in the record of the command's own claim, in a
baseline of it, or in a version that only the crossing raises. `StandingSigned` and
`AbsentEmpty` then give `NothingLaundered`; `VersionsKept`, for projects nobody tampers
with, and `LocksAgree` and `DigestsAgree`, for clean histories, give `NotAccused`. The
clean histories include the failed writes of a store from before the ledger, which is why
`LocksAgree` says what lies beside such a store at every step of a crossing.

**Check** (`CInv`). `VerdictsAgree` is a theorem about any two trees, by cases on where each
reader stops. `OutputsTrue` needs to know, at each step of a run, which generated files
carry its number (`Numbered`), what a run that publishes a status has done so far
(`Publishes`), and what one that withdraws it has (`Withdraws`); `MarkerCovers` ties the
status to its ownership marker at every instant, and a kill leaves what those say.
`CommitsValidate` is an invariant of the last commit: the tree the hook assembles from the
index is the tree a checkout would load, when no claim is a symbolic link.

**Briefs** (`BriefsInv`). `RecordRead` (a record's content was signed by a human, and there
is a baseline they read for each claim it names), `HandsShow` (a forged block has no digest
of its own) and `Untouched` (files and records agree where no hand has been) hold of every
brief; `Knows` and `KnowsUntouched` hold of each process in the middle of a command, which
has the claims sentinel. `BriefsProofs` reaches through `Threads`: no operation forges a
block, and what it makes of one is one.

**Code links** (`LinksInv`). Under the artifact's sentinel, what a process is about to
write `Extends` the artifact on disk: it keeps every row, moves none back, and adds the
batch found before the sentinel was taken. `RowTrue` and `MatchTrue` tie rows and matches
to the versions of the sources. `StepRefines` maps every step to a step of `LinkTable` or
a stutter; in `Table!Put` the batch is the set of rows the write changes.

**claim new** (`NewInv`). `SavesFresh`: a run about to save holds the sentinel, its id and
path are still free, the manifest is there, and if it wrote the manifest no claim needs it
yet, so that removing it on failure harms nobody.

**The server** (`ServeInv`). `AnsweredOnce` (a tab has one request in flight and at most
one answer to it), `AnswersFresh` (the render it waits for has read nothing older than
what it asked for; a render that was already running serves only those who came before it
started), `ShownBefore` (what is on screen is no newer than the next question), and
`StreamOfPage` (a signal comes to a page on screen). `RefreshPerWrite` bounds the renders
by the writes.

**The inbox** (`InboxInv`). An operation takes its time under the sentinel and saves
later, so `Latest`, the time its holder will save, bounds every event there is, on disk or
already read by a poll, and every cursor given out. What a poll has read is still what is
there, or is `behind`; what is behind and not `passed` is `Ahead` of every open thread the
poll has read so far, and so at or after the cursor it will answer with. A step that would
break this, reading a newer open thread, is the one that adds to `passed`.

**Images** (`AssetsInv`). An index that the fingerprint of the files still confirms is the
index of the files (no stamp is ever used twice), every file in it was shown since that was last
confirmed, and when a request ends the last check left it complete and within the grace.

**Skills** (`SkillsInv`). `BehindDone` and `ExportedStands` say what the trees hold that an
export is over with, at every step of the next one; `LocksTell` and `EditsKnown`, what the
lock tells of each file between the files and the lock being written. `SectionKept` needs
that splicing a section twice is splicing it once, for any text around the markers.

**Manifests, recovery, conformance.** `PinsProvided` is a theorem about any cards and
manifests (`ManifestsKept`); `KeptIsSigned` is inductive with the types of the approval
(`ApprovalTyped`); `ReadyMeansObserved`, with `DeclaredTyped`: a claim that is compared
has something to compare.

**The panel** (`RecoveryTyped`, the inductive part, checked by TLC on the recovery part too).
The table and the walk of a diff are functions over the pairs of tails of two texts. Such a
recursion has one solution (`Recursion`, `Unique`), whose values follow by the rank of a pair,
the passages left in it (`TailInduction`). The walk reads back on both sides wherever it
removes (`WalkReads`); that it keeps the most needs more: the table bounds what two tails can
have in common (`TableBounds`, by where the first common entry of each lies), and a walk that
goes where more is left keeps what the table says (`WalkKeeps`). Every stage after it is a
concatenation over steps or hunks, and loses nothing: the parts of a side are its words
(`PartsRead`), marks keep the words of their hunk (`MarkedHunks`), a hunk left out has none
(`VisibleSide`), and with no change counted every hunk is equal (`NoChange`).

**Readiness.** What `Compute` finds is a theorem about any typed claims (`ClaimsTyped`,
the inductive part): `AssessedSoundly`, `SearchIsLeast` and `EvidenceDrawn` are its three
parts. `Below` and `Reach` add what is one step away for as many rounds as there are ids;
by pigeonhole (`Cardinality`) a round before the last adds nothing, so the result is closed,
and it is the least closed set. `Levels` is breadth-first: after n rounds it holds exactly
the claims within n steps, each with the first of its shortest ways in the order the code
sorts them (`LevelTrue`), and a round that finds nothing new is the last. A cause inherited
by a claim starts at a claim on one of these ways or at a missing target just past one, and
`CycleTrail` gives the path around a cycle; each step of either is a `rests_on` entry, which
`GraphEdges` draws unless it repeats one drawn already or its target is gone. `NoInternalsLeak`
follows field by field from `redactAssessment` and `entryForIntegration`.

**Byte bounds** (`DeclaredTyped`, `InputTyped`, `ManifestsTyped`). The library sums over a
set in the order `CHOOSE` takes its members; `SumFolds` shows such a sum to be a fold, `SumAt`
that any member may be taken first, and `SumLeq`, `SumJoin` and `SumImage` follow by the size
of the set. A check is answered by one observation at most (`IndexOne`), so what it takes in
the report lies between its two estimates (`CheckBounded`), the missing and extra members of
a set included; a saturating budget is the sum or the limit (`BudgetIs`), so `Evaluate`, which
encodes only where the upper estimate is too large, refuses exactly what is too large
(`CapacityKept`). In the manifests the size after i entries is that of the shared text with
the first i claims alone (`SizesAre`), it never falls (`SizesGrow`), and the first that
crosses the budget is the one blamed (`Blamed`).

**The project.** `Dossier` composes parts with variables of their own; `DossierProofs`
shows that a step of one part stutters on the others (`StepOfPart`, `OthersKeep`), so that
a behaviour of the project is a behaviour of each part's specification (`PartsOf`).

Where an argument is by induction over numbers, tails or sequences, it is by the least counterexample
(`LeastNat`, from the well-foundedness of the library), as the library's induction
theorems take operators that the provers cannot instantiate.

Only model-checked:

* the liveness properties `CommandsEnd`, `ChangesReachTabs`, `ShutdownPrompt`: out of the
  prover's reach.

## Not modelled

* **lint**: some thirty independent predicates over one load; `Check` has their verdict
  and `Approval` the cycle rule.
* **render, markdown, components, layout**: what a page looks like. Which files are
  written, and when, is in `Check`.
* **config, cliout, gitrepo, releasebaseline, urlsafe**: reading and printing.
* Brief parsing, its lints and its read commands; YAML rendering and round-trip checks;
  the text limits of comments; HTTP headers.
* A human removing the sentinel of a live process: the release function would then remove
  the next holder's (filelock.go:76). The models let people remove those of dead ones.

## Plan

1. A shared store under `Approval` and `Briefs`, whose commands take the same sentinels.
2. The catalog's output bounds and the configuration's defaults.
