------------------------------ MODULE Approval ------------------------------
(***************************************************************************)
(* The approval core of DossierX: the commands that move a claim between   *)
(* draft and locked, and the files they keep in agreement.                 *)
(*                                                                         *)
(* A claim is one YAML file (its status, review_pending bit, content and   *)
(* comment threads).  Three project-wide files say what is approved about  *)
(* it: the lock store (ledger records, dependency baselines, the           *)
(* constitution's record), the comment digest store and the flag store.    *)
(* A command changes several of them, one atomic file replacement at a     *)
(* time, under sentinel files taken in the order claims, lock store.       *)
(* Every durable write is an action of its own, so that a crash, a failed  *)
(* write, an edit made with a text editor, or another command's step may   *)
(* come between any two of them.                                           *)
(*                                                                         *)
(* The project is past the ledger crossing (LedgerCovered holds and both   *)
(* stores exist) and its claims are body-only, lint-clean and present.     *)
(***************************************************************************)
EXTENDS Naturals, FiniteSets

CONSTANTS
    Procs,       \* processes: CLI invocations and the viewer's comment handlers
    Claims,      \* claim ids
    RestsOn,     \* RestsOn[c]: the dependencies claim c names in rests_on
    Batches,     \* the sets of ids one "claim lock" may be asked to approve
    Bodies,      \* everything ContentHash reads: body, rows, steps, rests_on...
    Texts,       \* constitution texts
    Threads,     \* comment thread ids
    Commands,    \* the commands the processes issue
    MaxExtra,    \* bound on changes to signed fields ContentHash leaves out
    MaxEdits, MaxCrashes, MaxFaults, MaxTampers,  \* budgets, see Budgets
    None,        \* absence of a value
    Stale        \* the holder of a sentinel whose process died

ASSUME ProcsAssumption == None \notin Procs /\ Stale \notin Procs /\ Stale # None
ASSUME ClaimsAssumption == /\ RestsOn \in [Claims -> SUBSET Claims]
                           /\ Batches \subseteq SUBSET Claims
ASSUME ValuesAssumption == None \notin Bodies /\ None \notin Texts /\ Bodies # {} /\ Texts # {}
ASSUME BoundsAssumption == /\ MaxExtra \in Nat /\ MaxEdits \in Nat /\ MaxCrashes \in Nat
                           /\ MaxFaults \in Nat /\ MaxTampers \in Nat

VARIABLES
    file,      \* the claim files
    store,     \* build/ledger/lock-store.json
    digest,    \* build/ledger/comment-digest.json: recorded comment block or None
    flags,     \* build/ledger/flag-store.json: the now_does body of a pending flag or None
    roof,      \* constitution.yaml
    holder,    \* who holds each sentinel file
    pc,        \* each process's next step
    mem,       \* what a running command has loaded and computed
    budget,    \* edits, crashes, failed writes and out-of-band edits still allowed
    approved   \* history: contents that passed an approval gate, per claim

vars == <<file, store, digest, flags, roof, holder, pc, mem, budget, approved>>

-----------------------------------------------------------------------------
(* The data on disk. *)

ThreadStates == {"none", "open", "resolved"}

Blocks == [Threads -> ThreadStates]

NoThreads == [t \in Threads |-> "none"]

\* A claim file.  extra counts changes to the fields LockedClaimHash signs and
\* ContentHash does not read (sources, scope, section, order, audit_notes).
ClaimFile == [status: {"draft", "locked"}, pending: BOOLEAN,
              body: Bodies, extra: 0..MaxExtra, threads: Blocks]

\* LockedClaimHash: every persisted field but status, review_pending, comments.
LockedClaimHash(f) == [body |-> f.body, extra |-> f.extra]

ContentHash(f) == f.body

Contents == [body: Bodies, extra: 0..MaxExtra]

LedgerRecord == [hash: Contents, released: BOOLEAN]

ASSUME NoneAssumption == None \notin LedgerRecord /\ None \notin Blocks

LockStore == [rec: [Claims -> LedgerRecord \cup {None}],
              base: [Claims -> [Claims -> Bodies \cup {None}]],
              lockedAt: SUBSET Claims,
              roof: Texts \cup {None}]

Constitution == [text: Texts, status: {"draft", "locked"}]

Sentinels == {"claims", "store"}

\* Editor saves of drafts and of the constitution; killed processes; failed
\* file writes; edits of files that only commands should change.
Budgets == [edits: 0..MaxEdits, crashes: 0..MaxCrashes,
            faults: 0..MaxFaults, tampers: 0..MaxTampers]

OpenThreads(f) == {t \in Threads : f.threads[t] = "open"}

HasThreads(f) == f.threads # NoThreads

-----------------------------------------------------------------------------
(* What a running command remembers. *)

Labels == {"idle", "reviewed",
           "lock.store", "lock.write", "lock.sign", "lock.save", "lock.undo",
           "unlock.store", "unlock.flag", "unlock.claim", "unlock.save",
           "flag.save", "flag.claim",
           "reaudit.store", "reaudit.sign", "reaudit.claim", "reaudit.save", "reaudit.flag",
           "comment.claim", "comment.digest",
           "check.store", "check.write",
           "roof.file", "roof.save"}

\* Where a process holds the lock-store sentinel, and where it is asking for it
\* while it holds the claims sentinel.
StoreHeld == {"lock.write", "lock.sign", "lock.save", "lock.undo",
              "unlock.flag", "unlock.claim", "unlock.save",
              "reaudit.sign", "reaudit.claim", "reaudit.save", "reaudit.flag",
              "roof.file", "roof.save"}

StoreWanted == {"lock.store", "unlock.store", "reaudit.store", "check.store"}

ClaimsHeld == Labels \ {"idle", "reviewed", "roof.file", "roof.save"}

Files == [Claims -> ClaimFile]

Memory == [ids: SUBSET Claims,                    \* the claims the command is about
           left: SUBSET Claims,                   \* those the current loop has not reached
           prop: [Claims -> Contents \cup {None}],\* what the human reviewed in the preview
           snap: Files \cup {None},               \* the claims as loaded
           tok: Files \cup {None},                \* the bytes the file tokens stand for
           st: LockStore \cup {None},             \* the lock store as loaded, then as it will be saved
           raw: LockStore \cup {None},            \* the lock store to roll back to
           dg: [Claims -> Blocks \cup {None}],    \* the digest store to roll back to
           out: Files \cup {None},                \* the claims as they will be saved
           note: Bodies \cup {None},              \* a flag's now_does
           roof: Constitution \cup {None}]        \* the constitution as loaded

Blank == [ids |-> {}, left |-> {}, prop |-> [c \in Claims |-> None], snap |-> None,
          tok |-> None, st |-> None, raw |-> None, dg |-> [c \in Claims |-> None],
          out |-> None, note |-> None, roof |-> None]

-----------------------------------------------------------------------------
(* The verdicts and updates the commands share. *)

\* The requested ids and everything they transitively rest on.
Closure(B) == {d \in Claims : \A S \in SUBSET Claims :
                   (B \subseteq S /\ \A c \in S : RestsOn[c] \subseteq S) => d \in S}

Drift(c, fs, st) == \E d \in RestsOn[c] :
    st.base[c][d] # None /\ st.base[c][d] # ContentHash(fs[d])

\* Mutant of Recompute: the flag trigger is forgotten.
RecomputeWithoutFlag(c, fs, st, fl) == Drift(c, fs, st) \/ OpenThreads(fs[c]) # {}

\* review_pending, from the three triggers.
Recompute(c, fs, st, fl) == \/ Drift(c, fs, st)
                            \/ fl[c] # None
                            \/ OpenThreads(fs[c]) # {}

Standing(st, c) == st.rec[c] # None /\ ~st.rec[c].released

\* The store bears marks of having locked c: its stamp or its baselines.
EngineLocked(st, c) == c \in st.lockedAt \/ \E d \in Claims : st.base[c][d] # None

LedgerRecordDeleted(st, c) == st.rec[c] = None /\ EngineLocked(st, c)

\* Mutant of RefreshBaseline: a dependency that has a baseline keeps it.
RefreshBaselineOnce(st, c, fs) ==
    [st EXCEPT !.base[c] = [d \in Claims |-> IF d \in RestsOn[c] /\ st.base[c][d] = None
                                             THEN ContentHash(fs[d]) ELSE st.base[c][d]],
               !.lockedAt = st.lockedAt \cup {c}]

RefreshBaseline(st, c, fs) ==
    [st EXCEPT !.base[c] = [d \in Claims |-> IF d \in RestsOn[c] THEN ContentHash(fs[d])
                                                                 ELSE st.base[c][d]],
               !.lockedAt = st.lockedAt \cup {c}]

\* Mutant of RecordApproval: an earlier release stays stamped on the record.
RecordKeepsRelease(st, c, f) ==
    [st EXCEPT !.rec[c] = [hash |-> LockedClaimHash(f),
                           released |-> st.rec[c] # None /\ ~Standing(st, c)]]

RecordApproval(st, c, f) ==
    [st EXCEPT !.rec[c] = [hash |-> LockedClaimHash(f), released |-> FALSE]]

\* The record is kept and marked; a claim without one releases nothing.
ReleaseApproval(st, c) ==
    IF st.rec[c] = None THEN st
    ELSE [st EXCEPT !.rec[c] = [hash |-> st.rec[c].hash, released |-> TRUE]]

RoofLocked(r, st) == r.status = "locked" /\ st.roof = r.text

\* SweepCommentDigests on a covered project: a claim with no entry, no standing
\* record and no threads is adopted at its empty block.
Sweep(fs, st, dg) ==
    [c \in Claims |-> IF dg[c] = None /\ ~Standing(st, c) /\ ~HasThreads(fs[c])
                      THEN NoThreads ELSE dg[c]]

CommentDigestUnrecorded(f, c, dg) == HasThreads(f) /\ dg[c] = None

\* Mutant of Admissible: the unresolved-comments refusal is dropped.
AdmissibleOverThreads(c, fs, st, dg) ==
    /\ fs[c].status = "draft" /\ ~Standing(st, c)
    /\ \A d \in RestsOn[c] : c \notin Closure({d})

\* EvaluateSet's local verdict on one requested claim.
Admissible(c, fs, st, dg) ==
    /\ fs[c].status = "draft"
    /\ ~Standing(st, c)
    /\ ~LedgerRecordDeleted(st, c)
    /\ ~CommentDigestUnrecorded(fs[c], c, dg)
    /\ OpenThreads(fs[c]) = {}
    /\ \A d \in RestsOn[c] : c \notin Closure({d})

\* checkCommentDigest: the block is the recorded one, or there is nothing yet.
CommentsIntact(f, c, dg) == IF dg[c] = None THEN ~HasThreads(f) ELSE dg[c] = f.threads

\* lock.Audit on one claim: its lock rule (at most one, the first that applies)
\* and its comment rule.
LockFinding(f, c, st) ==
    IF LedgerRecordDeleted(st, c) THEN {"lock-ledger-deleted"}
    ELSE IF st.rec[c] = None
         THEN IF f.status = "locked" THEN {"lock-ledger-missing"} ELSE {}
    ELSE IF f.status = "draft"
         THEN IF st.rec[c].released THEN {} ELSE {"lock-ledger-orphan"}
    ELSE IF st.rec[c].released THEN {"lock-ledger-released"}
    ELSE IF st.rec[c].hash # LockedClaimHash(f) THEN {"lock-content-drift"} ELSE {}

CommentFinding(f, c, st, dg) ==
    IF dg[c] # None THEN IF dg[c] # f.threads THEN {"comment-ledger-drift"} ELSE {}
    ELSE IF Standing(st, c) THEN {"comment-digest-missing"}
    ELSE IF HasThreads(f) THEN {"comment-digest-unrecorded"} ELSE {}

Findings(c) == LockFinding(file[c], c, store) \cup CommentFinding(file[c], c, store, digest)

-----------------------------------------------------------------------------
(* Sentinels, budgets and the shape of a step. *)

Free(s) == holder[s] = None

Take(s, p) == Free(s) /\ holder' = [holder EXCEPT ![s] = p]

Goto(p, l, m) == pc' = [pc EXCEPT ![p] = l] /\ mem' = [mem EXCEPT ![p] = m]

\* The command returns: its deferred releases run.
End(p) == /\ Goto(p, "idle", Blank)
          /\ holder' = [s \in Sentinels |-> IF holder[s] = p THEN None ELSE holder[s]]

\* A file write fails.
Fault == budget.faults > 0 /\ budget' = [budget EXCEPT !.faults = @ - 1]

\* The best-effort digest writes of recordCommentDigestBeside and of the sweep.
RecordDigest(c, block) ==
    \/ digest' = [digest EXCEPT ![c] = block] /\ UNCHANGED budget
    \/ Fault /\ UNCHANGED digest

SweepDigest(fs) ==
    \/ digest' = Sweep(fs, store, digest) /\ UNCHANGED budget
    \/ Fault /\ UNCHANGED digest

\* A command that names one claim takes the claims sentinel and loads every
\* claim; its file token is captured right after.
Load(p, name, c, next) ==
    /\ name \in Commands /\ pc[p] = "idle" /\ Take("claims", p)
    /\ Goto(p, next, [Blank EXCEPT !.ids = {c}, !.snap = file, !.tok = file])

\* SaveClaimIfUnchanged: refused when the file is not what the token stands for.
SaveClaimIfUnchanged(p, c, f) ==
    file[c] = mem[p].tok[c] /\ file' = [file EXCEPT ![c] = f]

-----------------------------------------------------------------------------
(* claim lock: preview, then the set lock with its rollback. *)

\* claim lock --dry-run: no sentinel, no write.  The human keeps the proposal,
\* which binds the reviewed closure, and the reviewed content.
Preview(p, B) ==
    /\ "lock" \in Commands /\ pc[p] = "idle" /\ B # {}
    /\ Goto(p, "reviewed",
            [Blank EXCEPT !.ids = B,
                          !.prop = [c \in Claims |-> IF c \in Closure(B) THEN LockedClaimHash(file[c])
                                                                         ELSE None]])
    /\ UNCHANGED <<file, store, digest, flags, roof, holder, budget, approved>>

LockLoad(p) ==
    /\ pc[p] = "reviewed" /\ Take("claims", p)
    /\ Goto(p, "lock.store", [mem[p] EXCEPT !.snap = file])
    /\ UNCHANGED <<file, store, digest, flags, roof, budget, approved>>

\* The proposal hashes ContentHash over the closure, for these requested ids.
ProposalCurrent(m) ==
    \A c \in Closure(m.ids) : ContentHash(m.prop[c]) = ContentHash(m.snap[c])

LockAllowed(p) == /\ RoofLocked(roof, store)
                  /\ ProposalCurrent(mem[p])
                  /\ \A c \in mem[p].ids : Admissible(c, mem[p].snap, store, digest)

\* Mutant of LockAdmit: the store is loaded without its sentinel.
LockAdmitUnserialized(p) ==
    /\ pc[p] = "lock.store" /\ LockAllowed(p)
    /\ Goto(p, "lock.write", [mem[p] EXCEPT !.left = mem[p].ids, !.tok = file,
                                            !.st = store, !.raw = store, !.dg = digest])
    /\ approved' = [c \in Claims |-> approved[c] \cup
                       (IF c \in mem[p].ids THEN {LockedClaimHash(mem[p].snap[c])} ELSE {})]
    /\ UNCHANGED <<file, store, digest, flags, roof, holder, budget>>

\* The store sentinel is taken, the set is admitted, and only then are the file
\* tokens captured and the two stores' bytes kept for the rollback.
LockAdmit(p) ==
    /\ pc[p] = "lock.store" /\ LockAllowed(p) /\ Take("store", p)
    /\ Goto(p, "lock.write", [mem[p] EXCEPT !.left = mem[p].ids, !.tok = file,
                                            !.st = store, !.raw = store, !.dg = digest])
    /\ approved' = [c \in Claims |-> approved[c] \cup
                       (IF c \in mem[p].ids THEN {LockedClaimHash(mem[p].snap[c])} ELSE {})]
    /\ UNCHANGED <<file, store, digest, flags, roof, budget>>

LockRefuse(p) ==
    /\ pc[p] = "lock.store" /\ Free("store") /\ ~LockAllowed(p) /\ End(p)
    /\ UNCHANGED <<file, store, digest, flags, roof, budget, approved>>

Locked(f) == [f EXCEPT !.status = "locked", !.pending = FALSE]

\* One loop of the set lock: c is done; after the last one the loop restarts
\* over the whole batch at the label "next".
LoopNext(p, c, here, next) ==
    LET rest == mem[p].left \ {c}
    IN  Goto(p, IF rest = {} THEN next ELSE here,
             [mem[p] EXCEPT !.left = IF rest = {} THEN mem[p].ids ELSE rest])

\* Mutant of LockWrite: the file's current content is locked, with no token.
LockWriteCurrent(p, c) ==
    /\ pc[p] = "lock.write" /\ c \in mem[p].left
    /\ file' = [file EXCEPT ![c] = Locked(file[c])]
    /\ LoopNext(p, c, "lock.write", "lock.sign")
    /\ UNCHANGED <<store, digest, flags, roof, holder, budget, approved>>

LockWrite(p, c) ==
    /\ pc[p] = "lock.write" /\ c \in mem[p].left
    /\ SaveClaimIfUnchanged(p, c, Locked(mem[p].snap[c]))
    /\ LoopNext(p, c, "lock.write", "lock.sign")
    /\ UNCHANGED <<store, digest, flags, roof, holder, budget, approved>>

\* Mutant of LockWriteFails: the failed member is skipped, and what was
\* written is signed.
LockSkipsFailed(p, c) ==
    /\ pc[p] = "lock.write" /\ c \in mem[p].left /\ mem[p].ids # mem[p].left
    /\ \/ file[c] # mem[p].tok[c] /\ UNCHANGED budget
       \/ Fault
    /\ Goto(p, "lock.sign", [mem[p] EXCEPT !.left = mem[p].ids \ @])
    /\ UNCHANGED <<file, store, digest, flags, roof, holder, approved>>

\* The write of c is refused or fails: roll back the members already written.
LockWriteFails(p, c) ==
    /\ pc[p] = "lock.write" /\ c \in mem[p].left
    /\ \/ file[c] # mem[p].tok[c] /\ UNCHANGED budget
       \/ Fault
    /\ Goto(p, "lock.undo", [mem[p] EXCEPT !.left = mem[p].ids \ @])
    /\ UNCHANGED <<file, store, digest, flags, roof, holder, approved>>

\* RefreshBaseline and RecordApproval in memory; the digest entry on disk.
LockSign(p, c) ==
    /\ pc[p] = "lock.sign" /\ c \in mem[p].left
    /\ LET m == [mem[p] EXCEPT !.st = RecordApproval(RefreshBaseline(@, c, mem[p].snap),
                                                     c, mem[p].snap[c])]
           rest == m.left \ {c}
       IN  Goto(p, IF rest = {} THEN "lock.save" ELSE "lock.sign",
                [m EXCEPT !.left = IF rest = {} THEN m.ids ELSE rest])
    /\ RecordDigest(c, mem[p].snap[c].threads)
    /\ UNCHANGED <<file, store, flags, roof, holder, approved>>

LockSave(p) ==
    /\ pc[p] = "lock.save" /\ store' = mem[p].st /\ End(p)
    /\ UNCHANGED <<file, digest, flags, roof, budget, approved>>

\* Mutant of LockSaveFails: the error is returned without a rollback.
LockSaveFailsPlainly(p) ==
    /\ pc[p] = "lock.save" /\ Fault /\ End(p)
    /\ UNCHANGED <<file, store, digest, flags, roof, approved>>

LockSaveFails(p) ==
    /\ pc[p] = "lock.save" /\ Fault /\ Goto(p, "lock.undo", mem[p])
    /\ UNCHANGED <<file, store, digest, flags, roof, holder, approved>>

\* The original goes back under a freshly captured token, whatever the file
\* holds by now; a failure is noted and the rollback goes on.
LockUndo(p, c) ==
    /\ pc[p] = "lock.undo" /\ c \in mem[p].left
    /\ \/ file' = [file EXCEPT ![c] = mem[p].snap[c]] /\ UNCHANGED budget
       \/ Fault /\ UNCHANGED file
    /\ Goto(p, "lock.undo", [mem[p] EXCEPT !.left = @ \ {c}])
    /\ UNCHANGED <<store, digest, flags, roof, holder, approved>>

LockRestore(p) ==
    /\ pc[p] = "lock.undo" /\ mem[p].left = {}
    /\ store' = mem[p].raw
    /\ \/ digest' = mem[p].dg /\ UNCHANGED budget
       \/ Fault /\ UNCHANGED digest
    /\ End(p)
    /\ UNCHANGED <<file, flags, roof, approved>>

-----------------------------------------------------------------------------
(* claim unlock: always allowed, whatever the claim's status. *)

UnlockLoad(p, c) ==
    /\ Load(p, "unlock", c, "unlock.store")
    /\ UNCHANGED <<file, store, digest, flags, roof, budget, approved>>

\* Mutant of UnlockSweep: the release is saved before the claim is draft.
UnlockReleasesFirst(p) ==
    /\ pc[p] = "unlock.store" /\ Take("store", p)
    /\ \E c \in mem[p].ids : store' = ReleaseApproval(store, c)
    /\ SweepDigest(mem[p].snap)
    /\ Goto(p, "unlock.flag", [mem[p] EXCEPT !.st = store'])
    /\ UNCHANGED <<file, flags, roof, approved>>

UnlockSweep(p) ==
    /\ pc[p] = "unlock.store" /\ Take("store", p)
    /\ SweepDigest(mem[p].snap)
    /\ Goto(p, "unlock.flag", [mem[p] EXCEPT !.st = store])
    /\ UNCHANGED <<file, store, flags, roof, approved>>

\* Mutant of UnlockFlag: the pending flag survives the unlock.
UnlockKeepsFlag(p) ==
    /\ pc[p] = "unlock.flag" /\ Goto(p, "unlock.claim", mem[p])
    /\ UNCHANGED <<file, store, digest, flags, roof, holder, budget, approved>>

UnlockFlag(p) ==
    /\ pc[p] = "unlock.flag"
    /\ flags' = [c \in Claims |-> IF c \in mem[p].ids THEN None ELSE flags[c]]
    /\ Goto(p, "unlock.claim", mem[p])
    /\ UNCHANGED <<file, store, digest, roof, holder, budget, approved>>

\* Mutant of UnlockClaim: a claim that is already draft has nothing to release.
UnlockClaimIfLocked(p, c) ==
    /\ pc[p] = "unlock.claim" /\ c \in mem[p].ids
    /\ SaveClaimIfUnchanged(p, c, [mem[p].snap[c] EXCEPT !.status = "draft", !.pending = FALSE])
    /\ Goto(p, "unlock.save", [mem[p] EXCEPT !.st = IF mem[p].snap[c].status = "locked"
                                                    THEN ReleaseApproval(@, c) ELSE @])
    /\ UNCHANGED <<store, digest, flags, roof, holder, budget, approved>>

UnlockClaim(p, c) ==
    /\ pc[p] = "unlock.claim" /\ c \in mem[p].ids
    /\ SaveClaimIfUnchanged(p, c, [mem[p].snap[c] EXCEPT !.status = "draft", !.pending = FALSE])
    /\ Goto(p, "unlock.save", [mem[p] EXCEPT !.st = ReleaseApproval(@, c)])
    /\ UNCHANGED <<store, digest, flags, roof, holder, budget, approved>>

UnlockSave(p) ==
    /\ pc[p] = "unlock.save" /\ store' = mem[p].st /\ End(p)
    /\ UNCHANGED <<file, digest, flags, roof, budget, approved>>

-----------------------------------------------------------------------------
(* claim flag: an agent asserts that a locked claim's body is now b. *)

FlagLoad(p, c, b) ==
    /\ "flag" \in Commands /\ pc[p] = "idle" /\ file[c].status = "locked" /\ Take("claims", p)
    /\ Goto(p, "flag.save", [Blank EXCEPT !.ids = {c}, !.snap = file, !.tok = file, !.note = b])
    /\ UNCHANGED <<file, store, digest, flags, roof, budget, approved>>

FlagSave(p, c) ==
    /\ pc[p] = "flag.save" /\ c \in mem[p].ids
    /\ flags' = [flags EXCEPT ![c] = mem[p].note]
    /\ Goto(p, "flag.claim", mem[p])
    /\ UNCHANGED <<file, store, digest, roof, holder, budget, approved>>

FlagClaim(p, c) ==
    /\ pc[p] = "flag.claim" /\ c \in mem[p].ids
    /\ SaveClaimIfUnchanged(p, c, [mem[p].snap[c] EXCEPT !.pending = TRUE])
    /\ End(p)
    /\ UNCHANGED <<store, digest, flags, roof, budget, approved>>

-----------------------------------------------------------------------------
(* claim reaudit --confirm. *)

\* MaxExtra bounds the audit notes.
ReauditLoad(p, c) ==
    /\ file[c].status = "locked" /\ file[c].pending /\ file[c].extra < MaxExtra
    /\ Load(p, "reaudit", c, "reaudit.store")
    /\ UNCHANGED <<file, store, digest, flags, roof, budget, approved>>

\* Mutant of ReauditAllowed: the pre-reaudit integrity gate is dropped.
ReauditUngated(c, fs) == Drift(c, fs, store) \/ flags[c] # None \/ OpenThreads(fs[c]) = {}

\* Refused when open threads are the only trigger, and when the file no longer
\* matches its standing record.
ReauditAllowed(c, fs) ==
    /\ Drift(c, fs, store) \/ flags[c] # None \/ OpenThreads(fs[c]) = {}
    /\ Standing(store, c) => store.rec[c].hash = LockedClaimHash(fs[c])

\* reaudit.Apply: a flag's now_does replaces the body, a drift keeps it, and an
\* audit note is appended either way.
Applied(c, f) == [f EXCEPT !.body = IF flags[c] # None THEN flags[c] ELSE @,
                           !.extra = @ + 1]

\* A history step: what is signed was approved if what it started from was.
ApproveApplied(c, before, after) ==
    approved' = IF LockedClaimHash(before) \in approved[c]
                THEN [approved EXCEPT ![c] = @ \cup {LockedClaimHash(after)}]
                ELSE approved

\* The proposal is applied in memory: baselines, record and the recomputed
\* review_pending, with the flag already gone.
ReauditApply(p, c) ==
    /\ pc[p] = "reaudit.store" /\ c \in mem[p].ids
    /\ RoofLocked(roof, store) /\ ReauditAllowed(c, mem[p].snap)
    /\ Take("store", p)
    /\ SweepDigest(mem[p].snap)
    /\ LET f  == Applied(c, mem[p].snap[c])
           fs == [mem[p].snap EXCEPT ![c] = f]
           st == RecordApproval(RefreshBaseline(store, c, mem[p].snap), c, f)
       IN  /\ Goto(p, "reaudit.sign",
                   [mem[p] EXCEPT !.st = st, !.note = flags[c],
                       !.out = [fs EXCEPT ![c].pending =
                                   Recompute(c, fs, st, [flags EXCEPT ![c] = None])]])
           /\ ApproveApplied(c, mem[p].snap[c], f)
    /\ UNCHANGED <<file, store, flags, roof>>

\* The roof gate refuses before the sweep, the other gates after it.
ReauditRefuse(p, c) ==
    /\ pc[p] = "reaudit.store" /\ c \in mem[p].ids /\ Free("store")
    /\ \/ ~RoofLocked(roof, store) /\ UNCHANGED <<digest, budget>>
       \/ /\ RoofLocked(roof, store)
          /\ ~ReauditAllowed(c, mem[p].snap)
          /\ SweepDigest(mem[p].snap)
    /\ End(p)
    /\ UNCHANGED <<file, store, flags, roof, approved>>

ReauditSign(p, c) ==
    /\ pc[p] = "reaudit.sign" /\ c \in mem[p].ids
    /\ RecordDigest(c, mem[p].out[c].threads)
    /\ Goto(p, "reaudit.claim", mem[p])
    /\ UNCHANGED <<file, store, flags, roof, holder, approved>>

ReauditClaim(p, c) ==
    /\ pc[p] = "reaudit.claim" /\ c \in mem[p].ids
    /\ SaveClaimIfUnchanged(p, c, mem[p].out[c])
    /\ Goto(p, "reaudit.save", mem[p])
    /\ UNCHANGED <<store, digest, flags, roof, holder, budget, approved>>

ReauditSave(p) ==
    /\ pc[p] = "reaudit.save" /\ store' = mem[p].st
    /\ IF mem[p].note = None THEN End(p)
       ELSE Goto(p, "reaudit.flag", mem[p]) /\ UNCHANGED holder
    /\ UNCHANGED <<file, digest, flags, roof, budget, approved>>

ReauditFlag(p, c) ==
    /\ pc[p] = "reaudit.flag" /\ c \in mem[p].ids
    /\ flags' = [flags EXCEPT ![c] = None] /\ End(p)
    /\ UNCHANGED <<file, store, digest, roof, budget, approved>>

-----------------------------------------------------------------------------
(* Comment operations, from the CLI and the viewer: Deps.mutate. *)

\* Add, Resolve, Reopen and Delete on one thread.
CommentOp == {<<"none", "open">>, <<"open", "resolved">>, <<"resolved", "open">>,
              <<"open", "none">>, <<"resolved", "none">>}

CommentAllowed(c) == CommentsIntact(file[c], c, digest)

CommentLoad(p, c, t, op) ==
    /\ "comment" \in Commands /\ pc[p] = "idle" /\ Take("claims", p)
    /\ CommentAllowed(c) /\ file[c].threads[t] = op[1]
    /\ LET f  == [file[c] EXCEPT !.threads[t] = op[2]]
           fs == [file EXCEPT ![c] = f]
           pending == IF f.status = "locked" THEN Recompute(c, fs, store, flags) ELSE f.pending
       IN  Goto(p, "comment.claim", [Blank EXCEPT !.ids = {c}, !.snap = file, !.tok = file,
                                                  !.out = [fs EXCEPT ![c].pending = pending]])
    /\ UNCHANGED <<file, store, digest, flags, roof, budget, approved>>

CommentClaim(p, c) ==
    /\ pc[p] = "comment.claim" /\ c \in mem[p].ids
    /\ SaveClaimIfUnchanged(p, c, mem[p].out[c])
    /\ Goto(p, "comment.digest", mem[p])
    /\ UNCHANGED <<store, digest, flags, roof, holder, budget, approved>>

\* Mutant of CommentDigest: the block as loaded is recorded.
CommentDigestOfLoad(p, c) ==
    /\ pc[p] = "comment.digest" /\ c \in mem[p].ids
    /\ digest' = [digest EXCEPT ![c] = mem[p].snap[c].threads]
    /\ End(p)
    /\ UNCHANGED <<file, store, flags, roof, budget, approved>>

CommentDigest(p, c) ==
    /\ pc[p] = "comment.digest" /\ c \in mem[p].ids
    /\ digest' = [digest EXCEPT ![c] = mem[p].out[c].threads]
    /\ End(p)
    /\ UNCHANGED <<file, store, flags, roof, budget, approved>>

-----------------------------------------------------------------------------
(* check: reconcileReviewPending, its only claim-writing phase. *)

CheckLoad(p) ==
    /\ "check" \in Commands /\ pc[p] = "idle" /\ Take("claims", p)
    /\ Goto(p, "check.store", [Blank EXCEPT !.snap = file, !.tok = file])
    /\ UNCHANGED <<file, store, digest, flags, roof, budget, approved>>

\* Mutant of Reconciled: the flag store is not consulted.
ReconciledWithoutFlags(fs) ==
    {c \in Claims : /\ fs[c].status = "locked" /\ ~fs[c].pending
                    /\ Drift(c, fs, store) \/ OpenThreads(fs[c]) # {}}

Reconciled(fs) ==
    {c \in Claims : fs[c].status = "locked" /\ ~fs[c].pending /\ Recompute(c, fs, store, flags)}

\* The store sentinel is held for the load and the sweep only.
CheckSweep(p) ==
    /\ pc[p] = "check.store" /\ Free("store")
    /\ SweepDigest(mem[p].snap)
    /\ IF Reconciled(mem[p].snap) = {} THEN End(p)
       ELSE /\ Goto(p, "check.write", [mem[p] EXCEPT !.left = Reconciled(mem[p].snap)])
            /\ UNCHANGED holder
    /\ UNCHANGED <<file, store, flags, roof, approved>>

\* Plain SaveClaim: no token.
CheckWrite(p, c) ==
    /\ pc[p] = "check.write" /\ c \in mem[p].left
    /\ file' = [file EXCEPT ![c] = [mem[p].snap[c] EXCEPT !.pending = TRUE]]
    /\ IF mem[p].left = {c} THEN End(p)
       ELSE Goto(p, "check.write", [mem[p] EXCEPT !.left = @ \ {c}]) /\ UNCHANGED holder
    /\ UNCHANGED <<store, digest, flags, roof, budget, approved>>

-----------------------------------------------------------------------------
(* constitution lock: under the store sentinel alone. *)

\* Mutant of RoofLoad: the store is read before its sentinel is waited for.
RoofLoadUnserialized(p) ==
    /\ "roof" \in Commands /\ pc[p] = "idle" /\ ~RoofLocked(roof, store)
    /\ Goto(p, "roof.file", [Blank EXCEPT !.st = store, !.roof = roof])
    /\ UNCHANGED <<file, store, digest, flags, roof, holder, budget, approved>>

RoofLoad(p) ==
    /\ "roof" \in Commands /\ pc[p] = "idle" /\ ~RoofLocked(roof, store)
    /\ Take("store", p)
    /\ Goto(p, "roof.file", [Blank EXCEPT !.st = store, !.roof = roof])
    /\ UNCHANGED <<file, store, digest, flags, roof, budget, approved>>

\* The status line is rewritten only when it was not already locked.
RoofFile(p) ==
    /\ pc[p] = "roof.file"
    /\ roof' = IF mem[p].roof.status = "draft" THEN [mem[p].roof EXCEPT !.status = "locked"]
                                               ELSE roof
    /\ Goto(p, "roof.save", [mem[p] EXCEPT !.st = [@ EXCEPT !.roof = mem[p].roof.text]])
    /\ UNCHANGED <<file, store, digest, flags, holder, budget, approved>>

RoofSave(p) ==
    /\ pc[p] = "roof.save" /\ store' = mem[p].st /\ End(p)
    /\ UNCHANGED <<file, digest, flags, roof, budget, approved>>

-----------------------------------------------------------------------------
(* Ways a command ends early. *)

\* Mutant of Timeout: a process waits for a sentinel for ever.
TimeoutNever(p) == FALSE /\ UNCHANGED vars

\* AcquireFileLock gives up on the store sentinel after its timeout.
Timeout(p) ==
    /\ pc[p] \in StoreWanted /\ ~Free("store") /\ End(p)
    /\ UNCHANGED <<file, store, digest, flags, roof, budget, approved>>

\* ErrClaimFileChanged outside the set lock: the command returns the error.
Refused(p, c) ==
    /\ pc[p] \in {"unlock.claim", "flag.claim", "reaudit.claim", "comment.claim"}
    /\ c \in mem[p].ids /\ file[c] # mem[p].tok[c]
    /\ End(p)
    /\ UNCHANGED <<file, store, digest, flags, roof, budget, approved>>

\* A failed write that is returned as it is, without a rollback.  unlock writes
\* the flag store only to clear a flag, constitution lock the file only to lock it.
Fails(p) ==
    /\ pc[p] \in {"unlock.flag", "unlock.claim", "unlock.save", "flag.save", "flag.claim",
                  "reaudit.claim", "reaudit.save", "reaudit.flag", "comment.claim",
                  "comment.digest", "check.write", "roof.file", "roof.save"}
    /\ pc[p] = "unlock.flag" => \E c \in mem[p].ids : flags[c] # None
    /\ pc[p] = "roof.file" => mem[p].roof.status = "draft"
    /\ Fault /\ End(p)
    /\ UNCHANGED <<file, store, digest, flags, roof, approved>>

\* The process is killed: what it held stays behind as stale sentinels.
Crash(p) ==
    /\ pc[p] # "idle" /\ budget.crashes > 0
    /\ budget' = [budget EXCEPT !.crashes = @ - 1]
    /\ Goto(p, "idle", Blank)
    /\ holder' = [s \in Sentinels |-> IF holder[s] = p THEN Stale ELSE holder[s]]
    /\ UNCHANGED <<file, store, digest, flags, roof, approved>>

\* "remove the file manually if it was left behind by a crash"
RemoveStale(s) ==
    /\ holder[s] = Stale /\ holder' = [holder EXCEPT ![s] = None]
    /\ UNCHANGED <<file, store, digest, flags, roof, pc, mem, budget, approved>>

-----------------------------------------------------------------------------
(* What happens to the files outside the commands. *)

\* A draft is authored in a text editor, whatever the commands are doing.
EditDraft(c, k) ==
    /\ budget.edits > 0 /\ budget' = [budget EXCEPT !.edits = @ - 1]
    /\ file[c].status = "draft" /\ k # LockedClaimHash(file[c])
    /\ file' = [file EXCEPT ![c] = [@ EXCEPT !.body = k.body, !.extra = k.extra]]
    /\ UNCHANGED <<store, digest, flags, roof, holder, pc, mem, approved>>

\* So is the constitution.
EditRoof(r) ==
    /\ "roof" \in Commands /\ budget.edits > 0 /\ budget' = [budget EXCEPT !.edits = @ - 1]
    /\ r # roof /\ roof' = r
    /\ UNCHANGED <<file, store, digest, flags, holder, pc, mem, approved>>

\* A file is changed where only commands should: a locked claim's content, or
\* the comment threads of any claim.
Tamper(c, f) ==
    /\ budget.tampers > 0 /\ budget' = [budget EXCEPT !.tampers = @ - 1]
    /\ f.status = file[c].status /\ f.pending = file[c].pending /\ f # file[c]
    /\ f.status = "draft" => LockedClaimHash(f) = LockedClaimHash(file[c])
    /\ file' = [file EXCEPT ![c] = f]
    /\ UNCHANGED <<store, digest, flags, roof, holder, pc, mem, approved>>

-----------------------------------------------------------------------------
(* The system. *)

Init ==
    /\ file \in [Claims -> {f \in ClaimFile : /\ f.status = "draft" /\ ~f.pending
                                              /\ f.extra = 0 /\ ~HasThreads(f)}]
    /\ roof \in {r \in Constitution : r.status = "locked"}
    /\ store = [rec |-> [c \in Claims |-> None],
                base |-> [c \in Claims |-> [d \in Claims |-> None]],
                lockedAt |-> {}, roof |-> roof.text]
    /\ digest \in [Claims -> {NoThreads, None}]
    /\ flags = [c \in Claims |-> None]
    /\ holder = [s \in Sentinels |-> None]
    /\ pc = [p \in Procs |-> "idle"]
    /\ mem = [p \in Procs |-> Blank]
    /\ budget = [edits |-> MaxEdits, crashes |-> MaxCrashes,
                 faults |-> MaxFaults, tampers |-> MaxTampers]
    /\ approved = [c \in Claims |-> {}]

\* A process starts a command.
Start(p) ==
    \/ \E B \in Batches : Preview(p, B)
    \/ LockLoad(p)
    \/ \E c \in Claims : \/ UnlockLoad(p, c) \/ ReauditLoad(p, c)
                         \/ \E b \in Bodies : FlagLoad(p, c, b)
                         \/ \E t \in Threads, op \in CommentOp : CommentLoad(p, c, t, op)
    \/ CheckLoad(p)
    \/ RoofLoad(p)

\* A running command takes its next step, or gives up.
Step(p) ==
    \/ LockAdmit(p) \/ LockRefuse(p) \/ LockSave(p) \/ LockSaveFails(p) \/ LockRestore(p)
    \/ UnlockSweep(p) \/ UnlockFlag(p) \/ UnlockSave(p)
    \/ ReauditSave(p) \/ CheckSweep(p) \/ RoofFile(p) \/ RoofSave(p)
    \/ \E c \in Claims :
          \/ LockWrite(p, c) \/ LockWriteFails(p, c) \/ LockSign(p, c) \/ LockUndo(p, c)
          \/ UnlockClaim(p, c) \/ FlagSave(p, c) \/ FlagClaim(p, c)
          \/ ReauditApply(p, c) \/ ReauditRefuse(p, c) \/ ReauditSign(p, c)
          \/ ReauditClaim(p, c) \/ ReauditFlag(p, c)
          \/ CommentClaim(p, c) \/ CommentDigest(p, c) \/ CheckWrite(p, c)
          \/ Refused(p, c)
    \/ Timeout(p) \/ Fails(p)

Outside ==
    \/ \E p \in Procs : Crash(p)
    \/ \E s \in Sentinels : RemoveStale(s)
    \/ \E c \in Claims : \/ \E k \in Contents : EditDraft(c, k)
                         \/ \E f \in ClaimFile : Tamper(c, f)
    \/ \E r \in Constitution : EditRoof(r)

Next == \/ \E p \in Procs : Start(p) \/ Step(p)
        \/ Outside

Spec == Init /\ [][Next]_vars

\* A running command is scheduled; nothing obliges anybody to start one.
FairSpec == Spec /\ \A p \in Procs : WF_vars(Step(p))

-----------------------------------------------------------------------------
(* Properties. *)

\* The files, the sentinels and what each command remembers keep their types; in
\* particular every ledger record carries the hash it was signed with.
TypeOK ==
    /\ file \in Files
    /\ store \in LockStore
    /\ digest \in [Claims -> Blocks \cup {None}]
    /\ flags \in [Claims -> Bodies \cup {None}]
    /\ roof \in Constitution
    /\ holder \in [Sentinels -> Procs \cup {None, Stale}]
    /\ pc \in [Procs -> Labels]
    /\ mem \in [Procs -> Memory]
    /\ budget \in Budgets
    /\ approved \in [Claims -> SUBSET Contents]

\* No command is between two of its writes.
Quiet == \A p \in Procs : pc[p] \in {"idle", "reviewed"}

\* No process was killed, no write failed, and no file was changed behind the
\* commands' back.
Undisturbed == /\ budget.crashes = MaxCrashes /\ budget.faults = MaxFaults
               /\ budget.tampers = MaxTampers

\* Commands that run to their end, in any interleaving and around any editor
\* save of a draft, leave nothing for the audit to report: the claim files, the
\* ledger records and the comment digests agree (lock.Audit's rules accuse only
\* states no honest sequence produces).
HonestClean == Quiet /\ Undisturbed => \A c \in Claims : Findings(c) = {}

\* A locked claim with a pending flag or an open thread is review_pending, and
\* only a locked claim is flagged: no comment operation, reaudit or check that
\* recomputes review_pending misses a flag or a thread that another command
\* committed (reviewStores, Recompute, unlock's clearing of the flag).
PendingHonest ==
    Quiet /\ Undisturbed => \A c \in Claims :
        /\ file[c].status = "locked" /\ (flags[c] # None \/ OpenThreads(file[c]) # {})
              => file[c].pending
        /\ flags[c] # None => file[c].status = "locked"

\* Undisturbed commands, whatever their interleaving, leave nothing to report and
\* nothing unreported: the audit is silent and review_pending is right.
Honest == HonestClean /\ PendingHonest

\* No process was killed and no write failed, or no file was changed by hand.
Steady == budget.crashes = MaxCrashes /\ budget.faults = MaxFaults

Untampered == budget.tampers = MaxTampers

\* The gate's promise: a locked claim the audit is silent about says what was
\* approved for it, after crashes and failed writes, or after edits of the locked
\* file.  (Not after both: a kill leaves a locked claim without its record, and a
\* reaudit records whatever such a claim says by then.)
NoUnapproved ==
    Steady \/ Untampered =>
        \A c \in Claims : file[c].status = "locked" /\ LockFinding(file[c], c, store) = {}
                             => LockedClaimHash(file[c]) \in approved[c]

\* "Nothing in this build deletes a record": no save of the lock store, by any
\* command, loses the ledger record of a claim.
RecordsNeverLost ==
    [][\A c \in Claims : store.rec[c] # None => store'.rec[c] # None]_vars

\* The audit never reads lock-ledger-deleted off the engine's own writes: marks
\* of a past lock are always accompanied by the record.
NeverLooksDeleted == \A c \in Claims : ~LedgerRecordDeleted(store, c)

\* constitution lock holds the store sentinel without the claims sentinel, the
\* claim commands hold both: neither's save undoes what the other recorded.
NoLostUpdate ==
    [][store'.roof # store.roof => store' = [store EXCEPT !.roof = store'.roof]]_vars

\* unlock persists the release after the claim file is draft: "the reverse
\* ordering is the one direction that would weaken the gate".
ReleaseFollowsDraft ==
    [][\A c \in Claims : Standing(store, c) /\ store'.rec[c] # None /\ store'.rec[c].released
                            => file[c].status = "draft"]_vars

\* "unlock is the recovery escape hatch and must always work": an unlock that
\* completes clears whatever lock rule an earlier crash or failed write left.
UnlockRecovers ==
    [][\A p \in Procs : UnlockSave(p) =>
          \A c \in mem[p].ids : LockFinding(file'[c], c, store') = {}]_vars

\* A check that completes repairs review_pending: what a crash or a failed write
\* left of a flag or a comment operation, no locked claim with a pending flag or an
\* open thread reads as settled afterwards (reconcileReviewPending).
CheckReconciles ==
    [][\A p \in Procs :
          pc'[p] = "idle" /\ budget.tampers = MaxTampers
             /\ (CheckSweep(p) \/ \E c \in Claims : CheckWrite(p, c)) =>
             \A c \in Claims :
                file'[c].status = "locked" /\ (flags'[c] # None \/ OpenThreads(file'[c]) # {})
                   => file'[c].pending]_vars

\* No set lock puts a standing record on a claim with an unresolved thread: no
\* comment operation can open one between the evaluation of the set and its save.
\* (A reaudit may: it gives a locked claim that a killed lock left without a
\* record its first one, open threads or not.)
NoApprovalOverThreads ==
    [][\A p \in Procs, c \in Claims :
          LockSave(p) /\ ~Standing(store, c) /\ Standing(store', c)
             /\ budget.tampers = MaxTampers => OpenThreads(file[c]) = {}]_vars

\* An admitted set lock that has not ended.
InLock == {"lock.write", "lock.sign", "lock.save", "lock.undo"}

\* How many writes failed and how many drafts an editor saved.
Slips == (MaxFaults - budget.faults) + (MaxEdits - budget.edits)

\* A set lock is all or nothing, or reported: it ends, or dies, with all of its
\* batch locked and signed, or with none of it signed and the audit's finding on
\* whatever is still locked; and one failed write, or one editor save, is rolled
\* back ("prior state restored", runPolicySetLock's rollback).
BatchAtomic ==
    [][\A p \in Procs : pc[p] \in InLock /\ pc'[p] = "idle" =>
          \/ \A c \in mem[p].ids : file'[c].status = "locked" /\ Standing(store', c)
          \/ /\ \A c \in mem[p].ids :
                   /\ ~Standing(store', c)
                   /\ file'[c].status = "locked" => LockFinding(file'[c], c, store') # {}
             /\ budget'.crashes = MaxCrashes /\ budget'.tampers = MaxTampers /\ Slips' <= 1
                   => \A c \in mem[p].ids : file'[c].status = "draft"]_vars

\* Every command that has taken a sentinel ends and releases it, whoever else
\* waits, times out or has died holding one.
CommandsEnd ==
    \A p \in Procs : pc[p] \notin {"idle", "reviewed"} ~> pc[p] = "idle"

\* What docs/approval-policy.md says of the set lock: the content it signs is the
\* content the preview showed.
SignsReviewed ==
    \A p \in Procs : pc[p] = "lock.write" =>
        \A c \in mem[p].ids : LockedClaimHash(mem[p].snap[c]) = mem[p].prop[c]

-----------------------------------------------------------------------------
(* The inductive invariant behind the theorems of ApprovalProofs. *)

\* What a command has in memory by the time it reaches label l.
Fits(l, m) ==
    /\ l \in ClaimsHeld => m.snap \in Files
    /\ l \in StoreHeld => m.st \in LockStore
    /\ l \in {"lock.write", "lock.sign", "lock.save", "lock.undo"} => m.raw \in LockStore
    /\ l \in {"reaudit.sign", "reaudit.claim", "comment.claim", "comment.digest"}
          => m.out \in Files
    /\ l \in {"roof.file", "roof.save"} => m.roof \in Constitution
    /\ l = "reaudit.store" => \A c \in m.ids : m.snap[c].extra < MaxExtra

MemoryFits == \A p \in Procs : Fits(pc[p], mem[p])

\* How the store a command will save relates to the store s on disk.
Link(l, m, s) ==
    /\ l # "reaudit.flag" =>
          /\ \A c \in Claims : s.rec[c] # None => m.st.rec[c] # None
          /\ \A c \in Claims : ~LedgerRecordDeleted(m.st, c)
    /\ l \notin {"roof.save", "reaudit.flag"} => m.st.roof = s.roof
    /\ l \in {"lock.write", "lock.sign", "lock.save", "lock.undo"} => m.raw = s
    /\ l = "roof.file" => m.st = s
    /\ l = "roof.save" => m.st = [s EXCEPT !.roof = m.st.roof]

\* A command that will save the lock store holds its sentinel, and what it will
\* save is derived from what is on disk: it keeps every record, and only
\* constitution lock changes the constitution's.
StoreGuarded == \A p \in Procs : pc[p] \in StoreHeld =>
    holder["store"] = p /\ Link(pc[p], mem[p], store)

\* A command that will save claim files holds the claims sentinel.
ClaimsGuarded == \A p \in Procs : pc[p] \in ClaimsHeld => holder["claims"] = p

\* A release of a standing record is in memory only after its claim is draft.
ReleaseLink(l, m, s, f) == l # "reaudit.flag" =>
    \A c \in Claims : Standing(s, c) /\ m.st.rec[c] # None /\ m.st.rec[c].released
                         => l = "unlock.save" /\ f[c].status = "draft"

ReleaseGuarded == \A p \in Procs : pc[p] \in StoreHeld => ReleaseLink(pc[p], mem[p], store, file)

\* Inductive: whatever a command saves to the lock store next, under the sentinel it
\* holds, loses no record, leaves no mark of a lock without its record, and carries
\* a release only of a claim that is already draft.
IInv == /\ TypeOK /\ MemoryFits
        /\ StoreGuarded /\ ClaimsGuarded /\ ReleaseGuarded
        /\ NeverLooksDeleted

-----------------------------------------------------------------------------
(* What the holder of the claims sentinel knows: the invariant behind         *)
(* ApprovalProofs, inductive together with IInv.                               *)

\* The claims whose file a command at l has not written since it loaded them.
Unwritten(l, m) ==
    IF l \in {"lock.sign", "lock.save", "lock.undo", "unlock.save", "reaudit.save", "reaudit.flag",
              "comment.digest"} THEN Claims \ m.ids
    ELSE IF l = "lock.write" THEN (Claims \ m.ids) \cup m.left
    ELSE IF l = "check.write" THEN {c \in Claims : m.snap[c].status = "draft"} \cup m.left
    ELSE Claims

\* Nobody else writes a claim file: only a draft's words change, in an editor, or
\* what a hand changes.
Kept(l, m) ==
    \A c \in Unwritten(l, m) :
        /\ file[c].status = m.snap[c].status
        /\ Untampered /\ m.snap[c].status = "locked" => file[c] = m.snap[c]

\* A set lock has admitted drafts without open threads; the members it has written
\* are locked, those it has rolled back are drafts.
LockKnows(l, m) ==
    /\ m.left \subseteq m.ids
    /\ \A c \in m.ids : /\ m.snap[c].status = "draft" /\ OpenThreads(m.snap[c]) = {}
                         /\ LockedClaimHash(m.snap[c]) \in approved[c]
    /\ l # "lock.undo" => \A c \in m.ids \ Unwritten(l, m) :
          file[c].status = "locked" /\ (Untampered => file[c] = Locked(m.snap[c]))
    /\ l = "lock.undo" /\ Steady => \A c \in m.ids \ m.left : file[c].status = "draft"

\* A reaudit writes and signs one content, approved if what it started from was.
ReauditKnows(l, m) ==
    l \in {"reaudit.sign", "reaudit.claim"} =>
        \A c \in m.ids : /\ m.out[c].status = "locked"
                         /\ m.st.rec[c] = [hash |-> LockedClaimHash(m.out[c]), released |-> FALSE]

\* check marks locked claims, and has marked those it needed to.
CheckKnows(m) ==
    /\ \A c \in m.left : m.snap[c].status = "locked"
    /\ \A c \in Claims \ Unwritten("check.write", m) :
          /\ file[c].status = "locked"
          /\ Untampered => /\ [file[c] EXCEPT !.pending = TRUE] = [m.snap[c] EXCEPT !.pending = TRUE]
                           /\ flags[c] # None \/ OpenThreads(file[c]) # {} => file[c].pending

\* The claims whose record in memory is a command's own.
Signed(l, m) ==
    IF l \in {"lock.save", "unlock.save", "reaudit.sign", "reaudit.claim", "reaudit.save"} THEN m.ids
    ELSE IF l = "lock.sign" THEN m.ids \ m.left
    ELSE {}

\* What a command will save to the lock store: the record of each claim as it is on
\* disk, or what the command signs or releases.
WillSave(l, m) ==
    l \in StoreHeld \ {"lock.undo", "reaudit.flag"} =>
        /\ \A c \in Claims \ Signed(l, m) : m.st.rec[c] = store.rec[c]
        /\ l \in {"lock.sign", "lock.save"} => \A c \in Signed(l, m) :
              m.st.rec[c] = [hash |-> LockedClaimHash(m.snap[c]), released |-> FALSE]
        /\ l \in {"reaudit.sign", "reaudit.claim", "reaudit.save"} => \A c \in m.ids :
              /\ Standing(m.st, c)
              /\ Steady \/ Untampered => m.st.rec[c].hash \in approved[c]
        /\ l = "unlock.save" => \A c \in m.ids : file[c].status = "draft" /\ ~Standing(m.st, c)

\* Where a command is about one claim.
AboutOne == ClaimsHeld \ (InLock \cup {"lock.store", "check.store", "check.write"})

Knows(l, m) ==
    /\ Kept(l, m)
    /\ l \in AboutOne => \A c, d \in m.ids : c = d
    /\ l \in InLock => LockKnows(l, m)
    /\ l \in {"flag.save", "flag.claim", "reaudit.store", "reaudit.sign", "reaudit.claim"} =>
          \A c \in m.ids : m.snap[c].status = "locked"
    /\ ReauditKnows(l, m)
    /\ l = "comment.claim" => \A c \in m.ids :
          m.out[c].status = m.snap[c].status /\ LockedClaimHash(m.out[c]) = LockedClaimHash(m.snap[c])
    /\ l = "check.write" => CheckKnows(m)
    /\ WillSave(l, m)
    \* What was locked when it was loaded was approved, and has a record that stands.
    /\ \A c \in Claims : m.snap[c].status = "locked" =>
          /\ Untampered => LockedClaimHash(m.snap[c]) \in approved[c]
          /\ Steady => Standing(store, c)

\* A record that stands carries an approved content.
RecordsApproved ==
    Steady \/ Untampered => \A c \in Claims : Standing(store, c) => store.rec[c].hash \in approved[c]

\* Without a hand, a locked file says what was approved, recorded or not.
FilesApproved ==
    Untampered => \A c \in Claims : file[c].status = "locked" => LockedClaimHash(file[c]) \in approved[c]

\* Without a kill or a failed write, a locked claim has its record, unless the set
\* lock that locked it is still running.
FilesRecorded ==
    Steady => \A c \in Claims : file[c].status = "locked" =>
        Standing(store, c) \/ \E p \in Procs : pc[p] \in InLock /\ c \in mem[p].ids

\* Inductive.
AInv == /\ IInv
        /\ RecordsApproved /\ FilesApproved /\ FilesRecorded
        /\ \A p \in Procs : pc[p] \in ClaimsHeld => Knows(pc[p], mem[p])

-----------------------------------------------------------------------------
(* Why a set lock is all or nothing: the invariant behind BatchAtomic,         *)
(* inductive together with AInv.                                               *)

\* No record of a member stands before the lock's one save.  What the lock was refused
\* or failed at had gone wrong before its rollback began: with nothing else to go wrong
\* the rollback undoes every write.
BatchKnows(l, m) == l \in InLock =>
    /\ \A c \in m.ids : ~Standing(store, c)
    /\ l = "lock.save" => m.left = m.ids
    /\ Untampered =>
          /\ l = "lock.write" /\ Slips = 0 => \A c \in m.left : file[c] = m.tok[c]
          /\ l = "lock.undo" => Slips >= 1
          /\ l = "lock.undo" /\ Slips = 1 => \A c \in m.ids \ m.left : file[c].status = "draft"

\* Inductive.
BInv == AInv /\ \A p \in Procs : BatchKnows(pc[p], mem[p])

-----------------------------------------------------------------------------
(* Why the audit is silent on honest histories: the invariant behind Honest,   *)
(* inductive together with AInv.                                               *)

\* The file and the record of c agree: c is locked with what the record signs, or
\* draft and no record stands.
Recorded(c) ==
    IF Standing(store, c) THEN file[c].status = "locked" /\ store.rec[c].hash = LockedClaimHash(file[c])
                          ELSE file[c].status = "draft"

\* A digest entry d is that of the block of c, or there is nothing to record yet.
Digested(d, c) ==
    IF d = None THEN ~HasThreads(file[c]) /\ ~Standing(store, c) ELSE d = file[c].threads

\* What is true of c while the holder of the claims sentinel is at l: its file, record,
\* digest, flag and review_pending agree, but for the write the command is about.
Settled(c, l, m) ==
    /\ Recorded(c) \/ (c \in m.ids /\ l \in InLock \cup {"unlock.save", "reaudit.save"})
    /\ Digested(digest[c], c) \/ (c \in m.ids /\ l = "comment.digest")
    /\ file[c].status = "locked" /\ OpenThreads(file[c]) # {} => file[c].pending
    /\ flags[c] # None =>
          /\ file[c].status = "locked"
          /\ file[c].pending \/ (c \in m.ids /\ l \in {"flag.claim", "reaudit.save", "reaudit.flag"})

\* What the holder knows of the blocks, digests and flags: nobody else writes them.
HolderKnows(l, m) ==
    /\ \A c \in Claims :
          file[c].threads = IF l = "comment.digest" /\ c \in m.ids THEN m.out[c].threads
                                                              ELSE m.snap[c].threads
    /\ l \in InLock => /\ \A c \in m.ids : flags[c] = None /\ ~Standing(store, c)
                       /\ \A c \in Claims : Digested(m.dg[c], c)
    /\ l \in {"lock.sign", "lock.save"} => \A c \in Signed(l, m) : digest[c] = m.snap[c].threads
    /\ l \in {"unlock.claim", "unlock.save"} => \A c \in m.ids : flags[c] = None
    /\ l \in {"flag.save", "flag.claim"} => m.tok = m.snap
    /\ l \in {"reaudit.sign", "reaudit.claim"} => \A c \in m.ids :
          /\ m.out[c].threads = m.snap[c].threads
          /\ OpenThreads(m.out[c]) # {} => m.out[c].pending
    /\ l \in {"reaudit.sign", "reaudit.claim", "reaudit.save"} => \A c \in m.ids : m.note = flags[c]
    /\ l \in {"reaudit.claim", "reaudit.save"} => \A c \in m.ids : digest[c] # None
    /\ l = "reaudit.save" => \A c \in m.ids :
          /\ file[c].status = "locked"
          /\ m.st.rec[c] = [hash |-> LockedClaimHash(file[c]), released |-> FALSE]
    /\ l = "comment.claim" => \A c \in m.ids :
          m.out[c].status = "locked" /\ (flags[c] # None \/ OpenThreads(m.out[c]) # {}) => m.out[c].pending

\* Inductive.
HInv == /\ AInv
        /\ Undisturbed =>
              /\ \A p \in Procs : pc[p] \in ClaimsHeld =>
                    HolderKnows(pc[p], mem[p]) /\ \A c \in Claims : Settled(c, pc[p], mem[p])
              /\ (\A p \in Procs : pc[p] \notin ClaimsHeld) => \A c \in Claims : Settled(c, "idle", Blank)
=============================================================================
