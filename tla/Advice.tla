-------------------------------- MODULE Advice --------------------------------
(***************************************************************************)
(* What DossierX tells an agent to do next, against what its commands      *)
(* accept.  "claim show" answers next_actions, "check" answers next_steps, *)
(* and every writing command has a --dry-run: each of them reads the same  *)
(* files as the commands of Approval and decides again, in code of its     *)
(* own, what those commands would decide.                                  *)
(*                                                                         *)
(* The advice is a function of the files, so this module adds no state: it *)
(* relates the advice to the gates of Approval in every state that         *)
(* commands, kills, failed writes and edits of locked files can leave.     *)
(***************************************************************************)
EXTENDS Approval

-----------------------------------------------------------------------------
(* The triggers, and the one claim show names. *)

\* comments.PendingTriggers: the three causes, kept apart.
PendingTriggers(c) ==
    {t \in {"drift", "flag", "comments"} :
        \/ t = "drift" /\ Drift(c, file, store)
        \/ t = "flag" /\ flags[c] # None
        \/ t = "comments" /\ OpenThreads(file[c]) # {}}

\* Mutant of claimReviewTrigger: an open thread is named first.
claimReviewTriggerThreads(c) ==
    LET on == PendingTriggers(c)
    IN  IF ~file[c].pending THEN "settled"
        ELSE IF "comments" \in on THEN "comments"
        ELSE IF "flag" \in on THEN "flag"
        ELSE IF "drift" \in on THEN "drift" ELSE "none"

claimReviewTrigger(c) ==
    LET on == PendingTriggers(c)
    IN  IF ~file[c].pending THEN "settled"
        ELSE IF "flag" \in on THEN "flag"
        ELSE IF "drift" \in on THEN "drift"
        ELSE IF "comments" \in on THEN "comments" ELSE "none"

\* claimLedgerView: a missing or released record mismatches nothing.
ContentMatches(c) == Standing(store, c) => store.rec[c].hash = LockedClaimHash(file[c])

-----------------------------------------------------------------------------
(* claim show: next_actions. *)

\* policyVerdictNextActions: the evaluator's verdict is passed on.
policyVerdictNextActions(c) ==
    IF Admissible(c, file, store, digest) THEN {"lock"}
    ELSE IF OpenThreads(file[c]) # {} THEN {"resolve", "preview"} ELSE {"preview"}

claimNextActions(c) ==
    IF file[c].status = "draft" THEN policyVerdictNextActions(c)
    ELSE IF ~ContentMatches(c) THEN {"restore"}
    ELSE CASE claimReviewTrigger(c) = "comments"           -> {"reply"}
           [] claimReviewTrigger(c) \in {"drift", "flag"}  -> {"reaudit"}
           [] claimReviewTrigger(c) = "none"               -> {"reaudit", "unlock"}
           [] claimReviewTrigger(c) = "settled"            -> {"unlock"}

-----------------------------------------------------------------------------
(* check: next_steps. *)

\* The drafts that would pass the two claim gates it tries: open threads, and
\* the lints over the candidate as if it were locked (here the rests_on cycle).
\* check names the first of them in load order.
firstLockableDraft ==
    {c \in Claims : /\ file[c].status = "draft" /\ OpenThreads(file[c]) = {}
                    /\ \A d \in RestsOn[c] : c \notin Closure({d})}

Pending == {c \in Claims : file[c].status = "locked" /\ file[c].pending}

\* nextSteps: the claims each hint is drawn from.
nextSteps ==
    [lock      |-> firstLockableDraft,
     reply     |-> {c \in Claims : OpenThreads(file[c]) # {}},
     triggered |-> {c \in Pending : PendingTriggers(c) \cap {"drift", "flag"} # {}},
     causeless |-> {c \in Pending : PendingTriggers(c) = {}}]

-----------------------------------------------------------------------------
(* --dry-run: nothing unmet means the real run would go through. *)

\* Mutant of reauditDryRun: content_matches_ledger is not a precondition.
reauditDryRunUngated(c) ==
    /\ file[c].status = "locked" /\ file[c].pending /\ RoofLocked(roof, store)
    /\ PendingTriggers(c) \cap {"drift", "flag"} # {}

reauditDryRun(c) ==
    /\ file[c].status = "locked" /\ file[c].pending /\ RoofLocked(roof, store)
    /\ PendingTriggers(c) \cap {"drift", "flag"} # {}
    /\ ContentMatches(c)

\* unlockDryRun is never blocked; previewPolicyLock asks the set evaluator.
previewPolicyLock(B) ==
    RoofLocked(roof, store) /\ \A c \in B : Admissible(c, file, store, digest)

\* commentDigestPrecondition: here a block nobody recorded passes as well.
commentDryRun(c) == digest[c] = None \/ digest[c] = file[c].threads

-----------------------------------------------------------------------------
(* Properties. *)

\* What the reaudit command requires of a claim before it applies the diff.
ReauditAccepts(c) ==
    /\ file[c].status = "locked" /\ file[c].pending
    /\ RoofLocked(roof, store) /\ ReauditAllowed(c, file)

\* "A stale hint is wrong advice an agent will act on": between commands, whatever
\* they, kills, failed writes and edits of locked files have left, a reaudit that
\* claim show or its dry run offers is one the command accepts, a claim is sent to
\* the discussion only when reaudit would refuse it, a claim whose content nobody
\* approved is never sent to reaudit or unlock, and no locked pending claim goes
\* without a step (claimNextActions, nextSteps, reauditDryRunResult).  The dry run
\* of a comment passes what the operation accepts and one thing it refuses, threads
\* nobody recorded (commentDigestPrecondition, checkCommentDigest).  The lock hint
\* of check is not part of this: HintsSucceed does not hold.
AdviceAgrees == Quiet => \A c \in Claims :
    /\ "reaudit" \in claimNextActions(c) /\ RoofLocked(roof, store) => ReauditAccepts(c)
    /\ "reply" \in claimNextActions(c) => ~ReauditAccepts(c) /\ c \in nextSteps.reply
    /\ "lock-content-drift" \in Findings(c) => claimNextActions(c) = {"restore"}
    /\ reauditDryRun(c) => ReauditAccepts(c) /\ c \in nextSteps.triggered
    /\ commentDryRun(c) <=> CommentAllowed(c) \/ (digest[c] = None /\ HasThreads(file[c]))
    /\ c \in Pending => c \in nextSteps.reply \cup nextSteps.triggered \cup nextSteps.causeless

\* Process p's reaudit of c returns successfully.
ReauditDone(p, c) == c \in mem[p].ids /\ pc'[p] = "idle" /\ (ReauditSave(p) \/ ReauditFlag(p, c))

\* A reaudit that completes is not asked for again: afterwards the claim is settled,
\* waits for the discussion only, or was edited behind the command's back; it never
\* loops between a reaudit and the advice to reaudit (Recompute over the flag
\* already gone, RefreshBaseline over the claims as loaded, the flag's clearing),
\* whatever was killed or failed to write before.
ReauditSettles ==
    [][\A p \in Procs, c \in Claims :
          ReauditDone(p, c) /\ Untampered /\ (\A d \in Claims \ {c} : file[d] = mem[p].snap[d])
             => "reaudit" \notin claimNextActions(c)']_vars

\* What internal/check says of the draft its lock hint names: "the claim it names
\* is a claim the real command would accept" (given its proposal).
HintsSucceed == Quiet => \A c \in nextSteps.lock : previewPolicyLock({c})

-----------------------------------------------------------------------------
(* Why a reaudit settles: the invariant behind AdviceProofs, inductive        *)
(* together with AInv.                                                        *)

\* c is in no cycle of rests_on.
Uncycled(c) == \A d \in RestsOn[c] : c \notin Closure({d})

\* What is locked, or about to be, is in no cycle: reaudit compares no claim with a
\* baseline of its own former words.
LockedUncycled ==
    /\ \A c \in Claims : file[c].status = "locked" => Uncycled(c)
    /\ \A p \in Procs : pc[p] \in ClaimsHeld => \A c \in Claims :
          mem[p].snap[c].status = "locked" \/ (pc[p] \in InLock /\ c \in mem[p].ids) => Uncycled(c)

\* A reaudit consumes the flag that stands, takes its baselines from the claims as
\* loaded, and marks the claim for its open threads only; nobody undoes any of it
\* before the command returns.
Settling(l, m) ==
    l \in {"reaudit.sign", "reaudit.claim", "reaudit.save", "reaudit.flag"} => \A c \in m.ids :
        /\ m.note = flags[c]
        /\ Uncycled(c)
        /\ m.out[c].status = "locked"
        /\ m.out[c].pending => OpenThreads(m.out[c]) # {}
        /\ l \in {"reaudit.save", "reaudit.flag"} /\ Untampered => file[c] = m.out[c]
        /\ \A d \in RestsOn[c] : m.st.base[c][d] = m.snap[d].body
        /\ l = "reaudit.flag" => m.st = store

\* Inductive.
RInv == /\ AInv
        /\ LockedUncycled
        /\ \A p \in Procs : Settling(pc[p], mem[p])
=============================================================================
