------------------------------ MODULE AdviceProofs ------------------------------
(* Theorems about the advice, for every set of processes, claims and threads: *)
(* what is offered is accepted, and a reaudit that is done is not offered      *)
(* again.                                                                      *)
EXTENDS Advice, ApprovalProofs

-----------------------------------------------------------------------------
(* What is offered is accepted. *)

\* A claim that names a trigger has it.
LEMMA TriggersAre ==
  ASSUME NEW c \in Claims
  PROVE  /\ "drift" \in PendingTriggers(c) <=> Drift(c, file, store)
         /\ "flag" \in PendingTriggers(c) <=> flags[c] # None
         /\ "comments" \in PendingTriggers(c) <=> OpenThreads(file[c]) # {}
         /\ PendingTriggers(c) \subseteq {"drift", "flag", "comments"}
  BY DEF PendingTriggers

\* The pre-reaudit gate, in the words of the advice.
LEMMA AllowedIs ==
  ASSUME NEW c \in Claims
  PROVE  ReauditAllowed(c, file) <=>
            /\ PendingTriggers(c) \cap {"drift", "flag"} # {} \/ "comments" \notin PendingTriggers(c)
            /\ ContentMatches(c)
  BY TriggersAre DEF ReauditAllowed, ContentMatches

LEMMA OffersReaudit ==
  ASSUME TypeOK, NEW c \in Claims, "reaudit" \in claimNextActions(c)
  PROVE  /\ file[c].status = "locked" /\ file[c].pending /\ ContentMatches(c)
         /\ PendingTriggers(c) \cap {"drift", "flag"} # {} \/ PendingTriggers(c) = {}
<1>1. file[c].status \in {"draft", "locked"} /\ file[c].pending \in BOOLEAN
  BY DEF TypeOK, Files, ClaimFile
<1>2. file[c].status # "draft"
  BY DEF claimNextActions, policyVerdictNextActions
<1>3. ContentMatches(c)
  BY <1>2 DEF claimNextActions
<1>4. claimReviewTrigger(c) \in {"settled", "flag", "drift", "comments", "none"}
  BY DEF claimReviewTrigger
<1>5. claimReviewTrigger(c) \in {"flag", "drift", "none"}
  BY <1>2, <1>3, <1>4 DEF claimNextActions
<1>6. file[c].pending
  BY <1>5 DEF claimReviewTrigger
<1>7. PendingTriggers(c) \cap {"drift", "flag"} # {} \/ PendingTriggers(c) = {}
  BY <1>5, <1>6, TriggersAre DEF claimReviewTrigger
<1> QED
  BY <1>1, <1>2, <1>3, <1>6, <1>7

LEMMA OffersReply ==
  ASSUME TypeOK, NEW c \in Claims, "reply" \in claimNextActions(c)
  PROVE  "comments" \in PendingTriggers(c) /\ PendingTriggers(c) \cap {"drift", "flag"} = {}
<1>1. file[c].status # "draft"
  BY DEF claimNextActions, policyVerdictNextActions
<1>2. ContentMatches(c)
  BY <1>1 DEF claimNextActions
<1>3. claimReviewTrigger(c) \in {"settled", "flag", "drift", "comments", "none"}
  BY DEF claimReviewTrigger
<1>4. claimReviewTrigger(c) = "comments"
  BY <1>1, <1>2, <1>3 DEF claimNextActions
<1> QED
  BY <1>4 DEF claimReviewTrigger

\* Nothing but the types is needed: advice and gates read the same files.
LEMMA AdviceIsGate == TypeOK => AdviceAgrees
<1> SUFFICES ASSUME TypeOK, NEW c \in Claims
             PROVE  /\ "reaudit" \in claimNextActions(c) /\ RoofLocked(roof, store) => ReauditAccepts(c)
                    /\ "reply" \in claimNextActions(c) => ~ReauditAccepts(c) /\ c \in nextSteps.reply
                    /\ "lock-content-drift" \in Findings(c) => claimNextActions(c) = {"restore"}
                    /\ reauditDryRun(c) => ReauditAccepts(c) /\ c \in nextSteps.triggered
                    /\ commentDryRun(c) <=> CommentAllowed(c) \/ (digest[c] = None /\ HasThreads(file[c]))
                    /\ c \in Pending => c \in nextSteps.reply \cup nextSteps.triggered \cup nextSteps.causeless
  BY DEF AdviceAgrees
<1>1. "reaudit" \in claimNextActions(c) /\ RoofLocked(roof, store) => ReauditAccepts(c)
  BY OffersReaudit, AllowedIs DEF ReauditAccepts
<1>2. "reply" \in claimNextActions(c) => ~ReauditAccepts(c) /\ c \in nextSteps.reply
  BY OffersReply, AllowedIs, TriggersAre DEF ReauditAccepts, nextSteps
<1>3. "lock-content-drift" \in Findings(c) => claimNextActions(c) = {"restore"}
  <2> SUFFICES ASSUME "lock-content-drift" \in Findings(c) PROVE claimNextActions(c) = {"restore"}
    OBVIOUS
  <2>1. "lock-content-drift" \notin CommentFinding(file[c], c, store, digest)
    BY DEF CommentFinding
  <2>2. "lock-content-drift" \in LockFinding(file[c], c, store)
    BY <2>1 DEF Findings
  <2>3. /\ store.rec[c] # None /\ file[c].status # "draft" /\ ~store.rec[c].released
        /\ store.rec[c].hash # LockedClaimHash(file[c])
    BY <2>2 DEF LockFinding
  <2> QED
    BY <2>3 DEF claimNextActions, ContentMatches, Standing
<1>4. reauditDryRun(c) => ReauditAccepts(c) /\ c \in nextSteps.triggered
  BY AllowedIs DEF reauditDryRun, ReauditAccepts, nextSteps, Pending
<1>5. commentDryRun(c) <=> CommentAllowed(c) \/ (digest[c] = None /\ HasThreads(file[c]))
  BY DEF CommentAllowed, CommentsIntact, commentDryRun
<1>6. c \in Pending => c \in nextSteps.reply \cup nextSteps.triggered \cup nextSteps.causeless
  BY TriggersAre DEF nextSteps
<1> QED
  BY <1>1, <1>2, <1>3, <1>4, <1>5, <1>6

\* Between commands, whatever they, kills, failed writes and edits of locked files left: a
\* reaudit that claim show or the dry run of reaudit offers is accepted, the discussion is
\* offered only where reaudit is refused, unapproved content is only to be restored, and
\* every locked claim under review has a step (claimNextActions, nextSteps,
\* reauditDryRunResult against prepareReaudit); the dry run of a comment passes what the
\* operation accepts and, besides, exactly the threads nobody recorded
\* (commentDigestPrecondition against checkCommentDigest).
THEOREM AdviceSound == Spec => []AdviceAgrees
  BY TypeCorrect, AdviceIsGate, PTL

-----------------------------------------------------------------------------
(* A reaudit settles: the shapes a step has. *)

Reauditing == {"reaudit.sign", "reaudit.claim", "reaudit.save", "reaudit.flag"}

LEMMA RTyped ==
  ASSUME RInv
  PROVE  /\ AInv /\ IInv /\ TypeOK /\ LockedUncycled /\ file \in Files
         /\ \A p \in Procs : Settling(pc[p], mem[p])
  BY DEF RInv, AInv, IInv, TypeOK

LEMMA ReauditPhases == Reauditing \subseteq ClaimsHeld /\ Reauditing \subseteq StoreHeld /\ Reauditing \cap InLock = {}
  BY DEF Reauditing, ClaimsHeld, StoreHeld, Labels, InLock

\* A claim that rests on itself is in a cycle.
LEMMA UncycledApart == ASSUME NEW c \in Claims, Uncycled(c) PROVE c \notin RestsOn[c]
<1> SUFFICES ASSUME c \in RestsOn[c] PROVE FALSE
  OBVIOUS
<1>1. c \notin Closure({c})
  BY DEF Uncycled
<1> QED
  BY <1>1 DEF Closure

\* What the holder of the claims sentinel has loaded or is locking is in no cycle.
LEMMA HeldUncycled ==
  ASSUME RInv, NEW p \in Procs, pc[p] \in ClaimsHeld
  PROVE  \A c \in Claims :
            mem[p].snap[c].status = "locked" \/ (pc[p] \in InLock /\ c \in mem[p].ids) => Uncycled(c)
  BY DEF RInv, LockedUncycled

\* A step of the process that holds, or takes, the claims sentinel.
LEMMA HolderStepR ==
  ASSUME RInv, AInv', NEW p \in Procs, pc[p] \in ClaimsHeld \/ holder["claims"] = None,
         NEW l, NEW m, pc'[p] = l, mem'[p] = m,
         \A q \in Procs \ {p} : pc'[q] = pc[q] /\ mem'[q] = mem[q],
         \A c \in Claims : file'[c].status = "locked" => file[c].status = "locked" \/ Uncycled(c),
         l \in ClaimsHeld => \A c \in Claims :
            m.snap[c].status = "locked" \/ (l \in InLock /\ c \in m.ids) => Uncycled(c),
         l \in Reauditing => Settling(l, m)'
  PROVE  RInv'
<1>1. \A q \in Procs : pc'[q] \in ClaimsHeld => q = p
  BY OnlyHolder, RTyped
<1>2. \A c \in Claims : file'[c].status = "locked" => Uncycled(c)
  BY RTyped DEF LockedUncycled
<1>3. LockedUncycled'
  BY <1>1, <1>2 DEF LockedUncycled, Uncycled, Closure
<1>4. ASSUME NEW q \in Procs PROVE Settling(pc[q], mem[q])'
  <2>1. CASE pc'[q] \in Reauditing
    BY <1>1, <2>1, ReauditPhases
  <2>2. CASE pc'[q] \notin Reauditing
    BY <2>2 DEF Settling, Reauditing
  <2> QED
    BY <2>1, <2>2
<1> QED
  BY <1>3, <1>4 DEF RInv

\* One that goes on with what it has loaded.
LEMMA WithinR ==
  ASSUME RInv, AInv', NEW p \in Procs, pc[p] \in ClaimsHeld,
         NEW l, NEW m, pc'[p] = l, mem'[p] = m,
         \A q \in Procs \ {p} : pc'[q] = pc[q] /\ mem'[q] = mem[q],
         \A c \in Claims : file'[c].status = "locked" => file[c].status = "locked" \/ Uncycled(c),
         l \in ClaimsHeld => m.snap = mem[p].snap,
         l \in InLock => pc[p] \in InLock /\ m.ids = mem[p].ids,
         l \in Reauditing => Settling(l, m)'
  PROVE  RInv'
  BY HolderStepR, HeldUncycled

\* One that returns, having written no claim a cycle reaches.
LEMMA EndR ==
  ASSUME RInv, AInv', NEW p \in Procs, pc[p] \in ClaimsHeld, End(p),
         \A c \in Claims : file'[c].status = "locked" => file[c].status = "locked" \/ Uncycled(c)
  PROVE  RInv'
<1>1. "idle" \notin ClaimsHeld /\ "idle" \notin Reauditing
  BY Phases, ReauditPhases
<1> QED
  BY <1>1, Ends, RTyped, HolderStepR

\* A step of nobody who works on the claims, or one that only ends a command.
LEMMA AsideStepR ==
  ASSUME RInv, AInv', Untampered' => Untampered, UNCHANGED flags,
         \A q \in Procs : pc'[q] \in ClaimsHeld => pc'[q] = pc[q] /\ mem'[q] = mem[q],
         (\E q \in Procs : pc[q] = "reaudit.flag") => UNCHANGED store,
         \A c \in Claims : file'[c].status = file[c].status,
         \A c \in Claims : Untampered' /\ file[c].status = "locked" => file'[c] = file[c]
  PROVE  RInv'
<1>1. \A c \in Claims : file'[c].status = "locked" => Uncycled(c)
  BY RTyped DEF LockedUncycled
<1>2. \A q \in Procs : pc'[q] \in ClaimsHeld => \A c \in Claims :
         mem'[q].snap[c].status = "locked" \/ (pc'[q] \in InLock /\ c \in mem'[q].ids) => Uncycled(c)
  BY HeldUncycled
<1>3. LockedUncycled'
  BY <1>1, <1>2 DEF LockedUncycled, Uncycled, Closure
<1>4. ASSUME NEW q \in Procs PROVE Settling(pc[q], mem[q])'
  <2>1. CASE pc'[q] \in Reauditing
    <3>1. pc'[q] = pc[q] /\ mem'[q] = mem[q] /\ pc[q] \in ClaimsHeld
      BY <2>1, ReauditPhases
    <3>2. Settling(pc[q], mem[q]) /\ mem[q].ids \subseteq Claims
      BY <3>1, RTyped, Held
    <3> QED
      BY <2>1, <3>1, <3>2 DEF Settling, Reauditing, Uncycled, Closure, OpenThreads
  <2>2. CASE pc'[q] \notin Reauditing
    BY <2>2 DEF Settling, Reauditing
  <2> QED
    BY <2>1, <2>2
<1> QED
  BY <1>3, <1>4 DEF RInv

-----------------------------------------------------------------------------
(* A reaudit settles: one lemma per kind of step. *)

\* Previews, constitution lock, kills, editors and hands.
LEMMA ApartKeepsR ==
  ASSUME RInv, AInv', NEW p \in Procs,
         \/ \E B \in Batches : Preview(p, B)
         \/ RoofLoad(p) \/ RoofFile(p) \/ RoofSave(p)
  PROVE  RInv'
<1>1. PICK l \in {"idle", "reviewed", "roof.file", "roof.save"} :
         /\ pc[p] \in {"idle", "roof.file", "roof.save"}
         /\ pc'[p] = l /\ \A q \in Procs \ {p} : pc'[q] = pc[q] /\ mem'[q] = mem[q]
  BY RTyped, Goes, Ends DEF Preview, RoofLoad, RoofFile, RoofSave
<1>2. UNCHANGED <<file, flags, budget>>
  BY DEF Preview, RoofLoad, RoofFile, RoofSave
<1>3. (\E q \in Procs : pc[q] = "reaudit.flag") => UNCHANGED store
  <2>1. CASE RoofSave(p)
    <3>1. ASSUME NEW q \in Procs, pc[q] = "reaudit.flag" PROVE FALSE
      <4>1. pc[p] = "roof.save"
        BY <2>1 DEF RoofSave
      <4>2. q # p /\ pc[p] \in StoreHeld /\ pc[q] \in StoreHeld
        BY <3>1, <4>1 DEF StoreHeld
      <4> QED
        BY <4>2, RTyped DEF IInv, StoreGuarded
    <3> QED
      BY <3>1
  <2>2. CASE ~RoofSave(p)
    BY <2>2 DEF Preview, RoofLoad, RoofFile
  <2> QED
    BY <2>1, <2>2
<1>4. pc'[p] \notin ClaimsHeld
  BY <1>1, Phases
<1>5. Untampered' => Untampered
  BY <1>2 DEF Untampered
<1> QED
  BY <1>1, <1>2, <1>3, <1>4, <1>5, AsideStepR

LEMMA OutsideKeepsR == ASSUME RInv, AInv', Outside PROVE RInv'
<1>1. TypeOK /\ file \in Files
  BY RTyped
<1>2. UNCHANGED <<store, flags>>
  BY DEF Outside, Crash, RemoveStale, EditDraft, EditRoof, Tamper
<1>3. \A q \in Procs : pc'[q] \in ClaimsHeld => pc'[q] = pc[q] /\ mem'[q] = mem[q]
  <2>1. ASSUME NEW p \in Procs, Crash(p)
        PROVE  \A q \in Procs : pc'[q] \in ClaimsHeld => pc'[q] = pc[q] /\ mem'[q] = mem[q]
    BY <1>1, <2>1, Goes, Phases DEF Crash
  <2> QED
    BY <2>1 DEF Outside, RemoveStale, EditDraft, EditRoof, Tamper
<1>4. Untampered' => Untampered
  <2>1. budget \in Budgets
    BY <1>1 DEF TypeOK
  <2>2. ASSUME NEW c \in Claims, NEW f \in ClaimFile, Tamper(c, f) PROVE ~Untampered'
    BY <2>1, <2>2, BoundsAssumption DEF Tamper, Untampered, Budgets
  <2>3. ASSUME ~\E c \in Claims, f \in ClaimFile : Tamper(c, f) PROVE budget'.tampers = budget.tampers
    BY <2>1, <2>3 DEF Outside, Crash, RemoveStale, EditDraft, EditRoof, Budgets
  <2> QED
    BY <2>2, <2>3 DEF Untampered
<1>5. /\ \A c \in Claims : file'[c].status = file[c].status
      /\ \A c \in Claims : Untampered' /\ file[c].status = "locked" => file'[c] = file[c]
  <2>1. ASSUME NEW c \in Claims, NEW f \in ClaimFile, Tamper(c, f)
        PROVE  ~Untampered' /\ \A d \in Claims : file'[d].status = file[d].status
    BY <1>1, <2>1, BoundsAssumption DEF Tamper, Untampered, TypeOK, Budgets, Files
  <2>2. ASSUME NEW c \in Claims, NEW k \in Contents, EditDraft(c, k)
        PROVE  /\ file[c].status = "draft" /\ file'[c].status = "draft"
               /\ \A d \in Claims \ {c} : file'[d] = file[d]
    BY <1>1, <2>2 DEF EditDraft, Files, ClaimFile
  <2>3. CASE UNCHANGED file
    BY <2>3
  <2>4. \/ UNCHANGED file
        \/ \E c \in Claims : \/ \E k \in Contents : EditDraft(c, k)
                             \/ \E f \in ClaimFile : Tamper(c, f)
    BY DEF Outside, Crash, RemoveStale, EditRoof
  <2> QED
    BY <2>1, <2>2, <2>3, <2>4
<1> QED
  BY <1>2, <1>3, <1>4, <1>5, AsideStepR

\* What is loaded is what is on disk.
LEMMA LoadsKeepR ==
  ASSUME RInv, AInv', NEW p \in Procs,
         \/ LockLoad(p) \/ CheckLoad(p)
         \/ \E c \in Claims : \/ UnlockLoad(p, c) \/ ReauditLoad(p, c)
                              \/ \E b \in Bodies : FlagLoad(p, c, b)
                              \/ \E t \in Threads, op \in CommentOp : CommentLoad(p, c, t, op)
  PROVE  RInv'
<1>1. UNCHANGED file /\ holder["claims"] = None
  BY DEF LockLoad, CheckLoad, UnlockLoad, ReauditLoad, FlagLoad, CommentLoad, Load, Take, Free
<1>2. ASSUME NEW l \in Loading, NEW m, Goto(p, l, m), m.snap = file PROVE RInv'
  <2>1. l \notin InLock /\ l \notin Reauditing
    BY <1>2 DEF Loading, InLock, Reauditing
  <2>2. \A c \in Claims : m.snap[c].status = "locked" => Uncycled(c)
    BY <1>2, RTyped DEF LockedUncycled
  <2> QED
    BY <1>1, <1>2, <2>1, <2>2, Goes, RTyped, HolderStepR
<1>3. CASE LockLoad(p)
  <2>1. [mem[p] EXCEPT !.snap = file].snap = file
    BY RTyped DEF TypeOK, Memory
  <2> QED
    BY <1>2, <1>3, <2>1 DEF LockLoad, Loading
<1>4. CASE CheckLoad(p)
  <2>1. [Blank EXCEPT !.snap = file, !.tok = file].snap = file
    BY DEF Blank
  <2> QED
    BY <1>2, <1>4, <2>1 DEF CheckLoad, Loading
<1>5. ASSUME NEW c \in Claims, UnlockLoad(p, c) \/ ReauditLoad(p, c) PROVE RInv'
  <2>1. [Blank EXCEPT !.ids = {c}, !.snap = file, !.tok = file].snap = file
    BY DEF Blank
  <2> QED
    BY <1>2, <1>5, <2>1 DEF UnlockLoad, ReauditLoad, Load, Loading
<1>6. ASSUME NEW c \in Claims, NEW b \in Bodies, FlagLoad(p, c, b) PROVE RInv'
  <2>1. [Blank EXCEPT !.ids = {c}, !.snap = file, !.tok = file, !.note = b].snap = file
    BY DEF Blank
  <2> QED
    BY <1>2, <1>6, <2>1 DEF FlagLoad, Loading
<1>7. ASSUME NEW c \in Claims, NEW t \in Threads, NEW op \in CommentOp, CommentLoad(p, c, t, op) PROVE RInv'
  <2>1. ASSUME NEW out
        PROVE  [Blank EXCEPT !.ids = {c}, !.snap = file, !.tok = file, !.out = out].snap = file
    BY DEF Blank
  <2>2. PICK m : Goto(p, "comment.claim", m) /\ m.snap = file
    BY <1>7, <2>1 DEF CommentLoad
  <2> QED
    BY <1>2, <2>2 DEF Loading
<1> QED
  BY <1>3, <1>4, <1>5, <1>6, <1>7

\* Commands that give up, and the last write of a comment operation.
LEMMA EndingsKeepR ==
  ASSUME RInv, AInv', NEW p \in Procs,
         \/ LockRefuse(p) \/ Timeout(p) \/ Fails(p)
         \/ \E c \in Claims : Refused(p, c) \/ ReauditRefuse(p, c) \/ CommentDigest(p, c)
  PROVE  RInv'
<1>1. End(p) /\ UNCHANGED <<file, store, flags>>
  BY DEF LockRefuse, Timeout, Fails, Refused, ReauditRefuse, CommentDigest
<1>2. UNCHANGED budget \/ Fault
  BY DEF LockRefuse, Timeout, Fails, Refused, ReauditRefuse, CommentDigest, SweepDigest
<1>3. Untampered' => Untampered
  BY <1>2, BudgetFalls, RTyped
<1>4. \A q \in Procs : pc'[q] \in ClaimsHeld => pc'[q] = pc[q] /\ mem'[q] = mem[q]
  BY <1>1, Ends, Phases, RTyped
<1> QED
  BY <1>1, <1>3, <1>4, AsideStepR

\* The set lock admits claims that no cycle reaches, and writes no others.
LEMMA LockKeepsR ==
  ASSUME RInv, AInv', NEW p \in Procs,
         \/ LockAdmit(p) \/ LockSave(p) \/ LockSaveFails(p) \/ LockRestore(p)
         \/ \E c \in Claims : LockWrite(p, c) \/ LockWriteFails(p, c) \/ LockSign(p, c) \/ LockUndo(p, c)
  PROVE  RInv'
<1>a. TypeOK /\ file \in Files
  BY RTyped
<1>b. pc[p] \in ClaimsHeld
  BY DEF LockAdmit, LockSave, LockSaveFails, LockRestore, LockWrite, LockWriteFails, LockSign, LockUndo,
         ClaimsHeld, Labels
<1>c. /\ mem[p] \in Memory /\ mem[p].snap \in Files /\ mem[p].ids \subseteq Claims
      /\ pc[p] \in InLock => mem[p].left \subseteq mem[p].ids
  BY <1>b, Held, RTyped DEF Knows, LockKnows
<1>d. \A l \in InLock : l \notin Reauditing
  BY ReauditPhases
<1>1. CASE LockAdmit(p)
  <2>1. PICK m : m = [mem[p] EXCEPT !.left = mem[p].ids, !.tok = file, !.st = store, !.raw = store, !.dg = digest]
    OBVIOUS
  <2>2. Goto(p, "lock.write", m) /\ m.snap = mem[p].snap /\ m.ids = mem[p].ids /\ UNCHANGED file
    BY <1>1, <1>c, <2>1 DEF LockAdmit, Memory
  <2>3. \A c \in m.ids : Uncycled(c)
    BY <1>1, <2>2 DEF LockAdmit, LockAllowed, Admissible, Uncycled
  <2>4. \A c \in Claims : m.snap[c].status = "locked" \/ c \in m.ids => Uncycled(c)
    BY <1>b, <2>2, <2>3, HeldUncycled
  <2>5. "lock.write" \in InLock
    BY DEF InLock
  <2> QED
    BY <1>a, <1>b, <1>d, <2>2, <2>4, <2>5, Goes, HolderStepR
<1>2. CASE LockSave(p) \/ LockRestore(p)
  <2>1. End(p) /\ UNCHANGED file
    BY <1>2 DEF LockSave, LockRestore
  <2> QED
    BY <1>b, <2>1, EndR
<1>3. ASSUME NEW l \in InLock, NEW m, Goto(p, l, m), m.snap = mem[p].snap, m.ids = mem[p].ids, pc[p] \in InLock,
             \A c \in Claims : file'[c].status = "locked" => file[c].status = "locked" \/ Uncycled(c)
      PROVE  RInv'
  BY <1>a, <1>b, <1>d, <1>3, Goes, WithinR
<1>4. CASE LockSaveFails(p)
  BY <1>3, <1>4 DEF LockSaveFails, InLock
<1>5. ASSUME NEW c \in Claims, LockWrite(p, c) PROVE RInv'
  <2>1. pc[p] \in InLock /\ pc[p] = "lock.write" /\ c \in mem[p].ids /\ file' = [file EXCEPT ![c] = Locked(mem[p].snap[c])]
    BY <1>5, <1>c DEF LockWrite, SaveClaimIfUnchanged, InLock
  <2>2. \A d \in Claims : file'[d].status = "locked" => file[d].status = "locked" \/ Uncycled(d)
    BY <1>a, <1>b, <2>1, HeldUncycled DEF Files
  <2>3. PICK l, m : m = [mem[p] EXCEPT !.left = m.left] /\ l \in InLock /\ Goto(p, l, m)
    <3>1. PICK rest : rest = mem[p].left \ {c}
      OBVIOUS
    <3>2. PICK n : n = [mem[p] EXCEPT !.left = IF rest = {} THEN mem[p].ids ELSE rest]
      OBVIOUS
    <3>3. n = [mem[p] EXCEPT !.left = n.left]
      BY <1>c, <3>2 DEF Memory
    <3>4. Goto(p, IF rest = {} THEN "lock.sign" ELSE "lock.write", n)
      BY <1>5, <3>1, <3>2 DEF LockWrite, LoopNext
    <3> QED
      BY <3>3, <3>4 DEF InLock
  <2>4. m.snap = mem[p].snap /\ m.ids = mem[p].ids
    BY <1>c, <2>3 DEF Memory
  <2> QED
    BY <1>3, <2>1, <2>2, <2>3, <2>4
<1>6. ASSUME NEW c \in Claims, LockWriteFails(p, c) PROVE RInv'
  <2>1. PICK m : m = [mem[p] EXCEPT !.left = mem[p].ids \ @]
    OBVIOUS
  <2>2. m.snap = mem[p].snap /\ m.ids = mem[p].ids
    BY <1>c, <2>1 DEF Memory
  <2> QED
    BY <1>3, <1>6, <2>1, <2>2 DEF LockWriteFails, InLock
<1>7. ASSUME NEW c \in Claims, LockSign(p, c) PROVE RInv'
  <2>1. PICK n : n = [mem[p] EXCEPT !.st = RecordApproval(RefreshBaseline(@, c, mem[p].snap), c, mem[p].snap[c])]
    OBVIOUS
  <2>2. PICK rest : rest = n.left \ {c}
    OBVIOUS
  <2>3. PICK m : m = [n EXCEPT !.left = IF rest = {} THEN n.ids ELSE rest]
    OBVIOUS
  <2>4. Goto(p, IF rest = {} THEN "lock.save" ELSE "lock.sign", m) /\ UNCHANGED file /\ pc[p] \in InLock
    BY <1>7, <2>1, <2>2, <2>3 DEF LockSign, InLock
  <2>5. m.snap = mem[p].snap /\ m.ids = mem[p].ids
    BY <1>c, <2>1, <2>3 DEF Memory
  <2> QED
    BY <1>3, <2>4, <2>5 DEF InLock
<1>8. ASSUME NEW c \in Claims, LockUndo(p, c) PROVE RInv'
  <2>1. PICK m : m = [mem[p] EXCEPT !.left = @ \ {c}]
    OBVIOUS
  <2>2. m.snap = mem[p].snap /\ m.ids = mem[p].ids /\ pc[p] \in InLock /\ Goto(p, "lock.undo", m)
    BY <1>8, <1>c, <2>1 DEF LockUndo, Memory, InLock
  <2>3. UNCHANGED file \/ file' = [file EXCEPT ![c] = mem[p].snap[c]]
    BY <1>8 DEF LockUndo
  <2>4. \A d \in Claims : file'[d].status = "locked" => file[d].status = "locked" \/ Uncycled(d)
    BY <1>a, <1>b, <2>3, HeldUncycled DEF Files
  <2> QED
    BY <1>3, <2>2, <2>4 DEF InLock
<1> QED
  BY <1>1, <1>2, <1>4, <1>5, <1>6, <1>7, <1>8

\* unlock, flag, comment operations and check write claims with the status they were
\* loaded with, or draft.
LEMMA OthersKeepR ==
  ASSUME RInv, AInv', NEW p \in Procs,
         \/ UnlockSweep(p) \/ UnlockFlag(p) \/ UnlockSave(p) \/ CheckSweep(p)
         \/ \E c \in Claims : \/ UnlockClaim(p, c) \/ FlagSave(p, c) \/ FlagClaim(p, c)
                              \/ CommentClaim(p, c) \/ CheckWrite(p, c)
  PROVE  RInv'
<1>a. TypeOK /\ file \in Files
  BY RTyped
<1>b. pc[p] \in ClaimsHeld
  BY DEF UnlockSweep, UnlockFlag, UnlockSave, CheckSweep, UnlockClaim, FlagSave, FlagClaim, CommentClaim,
         CheckWrite, ClaimsHeld, Labels
<1>c. /\ mem[p] \in Memory /\ mem[p].snap \in Files /\ Knows(pc[p], mem[p]) /\ Fits(pc[p], mem[p])
      /\ \A c \in Claims : mem[p].snap[c].status = "locked" => Uncycled(c)
  BY <1>b, Held, HeldUncycled, RTyped
<1>1. ASSUME NEW l, l \notin InLock, l \notin Reauditing, NEW m, Goto(p, l, m), m.snap = mem[p].snap,
             \A c \in Claims : file'[c].status = "locked" => file[c].status = "locked" \/ Uncycled(c)
      PROVE  RInv'
  BY <1>a, <1>b, <1>1, Goes, WithinR
<1>2. ASSUME End(p), \A c \in Claims : file'[c].status = "locked" => file[c].status = "locked" \/ Uncycled(c)
      PROVE  RInv'
  BY <1>b, <1>2, EndR
<1>3. CASE UnlockSweep(p)
  <2>1. PICK m : m = [mem[p] EXCEPT !.st = store]
    OBVIOUS
  <2>2. m.snap = mem[p].snap
    BY <1>c, <2>1 DEF Memory
  <2> QED
    BY <1>1, <1>3, <2>1, <2>2 DEF UnlockSweep, InLock, Reauditing
<1>4. CASE UnlockFlag(p)
  BY <1>1, <1>4 DEF UnlockFlag, InLock, Reauditing
<1>5. CASE UnlockSave(p)
  BY <1>2, <1>5 DEF UnlockSave
<1>6. CASE CheckSweep(p)
  <2>1. PICK m : m = [mem[p] EXCEPT !.left = Reconciled(mem[p].snap)]
    OBVIOUS
  <2>2. m.snap = mem[p].snap
    BY <1>c, <2>1 DEF Memory
  <2>3. UNCHANGED file /\ (End(p) \/ Goto(p, "check.write", m))
    BY <1>6, <2>1 DEF CheckSweep
  <2> QED
    BY <1>1, <1>2, <2>2, <2>3 DEF InLock, Reauditing
<1>7. ASSUME NEW c \in Claims, NEW f, file' = [file EXCEPT ![c] = f],
             f.status \in {"draft", mem[p].snap[c].status}
      PROVE  \A d \in Claims : file'[d].status = "locked" => file[d].status = "locked" \/ Uncycled(d)
  BY <1>a, <1>c, <1>7 DEF Files
<1>8. ASSUME NEW c \in Claims PROVE mem[p].snap[c] \in ClaimFile
  BY <1>c DEF Files
<1>9. ASSUME NEW c \in Claims, UnlockClaim(p, c) PROVE RInv'
  <2>1. PICK m : m = [mem[p] EXCEPT !.st = ReleaseApproval(@, c)]
    OBVIOUS
  <2>2. m.snap = mem[p].snap
    BY <1>c, <2>1 DEF Memory
  <2>3. PICK f : f = [mem[p].snap[c] EXCEPT !.status = "draft", !.pending = FALSE]
    OBVIOUS
  <2>4. f.status = "draft"
    BY <1>8, <2>3 DEF ClaimFile
  <2>5. \A d \in Claims : file'[d].status = "locked" => file[d].status = "locked" \/ Uncycled(d)
    BY <1>7, <1>9, <2>3, <2>4 DEF UnlockClaim, SaveClaimIfUnchanged
  <2> QED
    BY <1>1, <1>9, <2>1, <2>2, <2>5 DEF UnlockClaim, InLock, Reauditing
<1>10. ASSUME NEW c \in Claims, FlagSave(p, c) PROVE RInv'
  BY <1>1, <1>10 DEF FlagSave, InLock, Reauditing
<1>11. ASSUME NEW c \in Claims, FlagClaim(p, c) PROVE RInv'
  <2>1. PICK f : f = [mem[p].snap[c] EXCEPT !.pending = TRUE]
    OBVIOUS
  <2>2. f.status = mem[p].snap[c].status
    BY <1>8, <2>1 DEF ClaimFile
  <2>3. \A d \in Claims : file'[d].status = "locked" => file[d].status = "locked" \/ Uncycled(d)
    BY <1>7, <1>11, <2>1, <2>2 DEF FlagClaim, SaveClaimIfUnchanged
  <2> QED
    BY <1>2, <1>11, <2>3 DEF FlagClaim
<1>12. ASSUME NEW c \in Claims, CommentClaim(p, c) PROVE RInv'
  <2>1. mem[p].out[c].status = mem[p].snap[c].status
    BY <1>c, <1>12 DEF CommentClaim, Knows
  <2>2. \A d \in Claims : file'[d].status = "locked" => file[d].status = "locked" \/ Uncycled(d)
    BY <1>7, <1>12, <2>1 DEF CommentClaim, SaveClaimIfUnchanged
  <2> QED
    BY <1>1, <1>12, <2>2 DEF CommentClaim, InLock, Reauditing
<1>13. ASSUME NEW c \in Claims, CheckWrite(p, c) PROVE RInv'
  <2>1. PICK f : f = [mem[p].snap[c] EXCEPT !.pending = TRUE]
    OBVIOUS
  <2>2. f.status = mem[p].snap[c].status
    BY <1>8, <2>1 DEF ClaimFile
  <2>3. \A d \in Claims : file'[d].status = "locked" => file[d].status = "locked" \/ Uncycled(d)
    BY <1>7, <1>13, <2>1, <2>2 DEF CheckWrite
  <2>4. PICK m : m = [mem[p] EXCEPT !.left = @ \ {c}]
    OBVIOUS
  <2>5. m.snap = mem[p].snap
    BY <1>c, <2>4 DEF Memory
  <2>6. End(p) \/ Goto(p, "check.write", m)
    BY <1>13, <2>4 DEF CheckWrite
  <2> QED
    BY <1>1, <1>2, <2>3, <2>5, <2>6 DEF InLock, Reauditing
<1> QED
  BY <1>3, <1>4, <1>5, <1>6, <1>9, <1>10, <1>11, <1>12, <1>13

\* What RefreshBaseline and RecordApproval leave of the baselines of c.
LEMMA BaselinesTaken ==
  ASSUME NEW st \in LockStore, NEW c \in Claims, NEW fs \in Files, NEW f
  PROVE  \A d \in RestsOn[c] : RecordApproval(RefreshBaseline(st, c, fs), c, f).base[c][d] = fs[d].body
<1>1. RefreshBaseline(st, c, fs) \in LockStore
  BY RefreshTyped
<1>2. RecordApproval(RefreshBaseline(st, c, fs), c, f).base = RefreshBaseline(st, c, fs).base
  BY <1>1 DEF RecordApproval, LockStore
<1>3. RefreshBaseline(st, c, fs).base[c]
         = [d \in Claims |-> IF d \in RestsOn[c] THEN ContentHash(fs[d]) ELSE st.base[c][d]]
  BY DEF RefreshBaseline, LockStore
<1> QED
  BY <1>2, <1>3, ClaimsAssumption DEF ContentHash

\* The proposal in memory: the standing flag is consumed, and nothing has drifted.
LEMMA ReauditApplyKeepsR ==
  ASSUME RInv, AInv', NEW p \in Procs, NEW c \in Claims, ReauditApply(p, c)
  PROVE  RInv'
<1>a. TypeOK /\ file \in Files /\ store \in LockStore
  BY RTyped DEF TypeOK
<1>b. pc[p] = "reaudit.store" /\ pc[p] \in ClaimsHeld /\ c \in mem[p].ids
  BY DEF ReauditApply, ClaimsHeld, Labels
<1>c. /\ mem[p] \in Memory /\ mem[p].snap \in Files /\ mem[p].snap[c] \in ClaimFile
      /\ mem[p].snap[c].status = "locked"
      /\ mem[p].ids = {c}
  BY <1>b, Held, RTyped DEF Knows, AboutOne, InLock, Files
<1>d. Uncycled(c) /\ c \notin RestsOn[c]
  BY <1>b, <1>c, HeldUncycled, UncycledApart
<1>1. PICK f : f = Applied(c, mem[p].snap[c])
  OBVIOUS
<1>2. PICK fs : fs = [mem[p].snap EXCEPT ![c] = f]
  OBVIOUS
<1>3. PICK st : st = RecordApproval(RefreshBaseline(store, c, mem[p].snap), c, f)
  OBVIOUS
<1>4. PICK out : out = [fs EXCEPT ![c].pending = Recompute(c, fs, st, [flags EXCEPT ![c] = None])]
  OBVIOUS
<1>5. PICK m : m = [mem[p] EXCEPT !.st = st, !.note = flags[c], !.out = out]
  OBVIOUS
<1>6. Goto(p, "reaudit.sign", m) /\ UNCHANGED <<file, store, flags>>
  BY <1>1, <1>2, <1>3, <1>4, <1>5 DEF ReauditApply
<1>7. m.snap = mem[p].snap /\ m.ids = mem[p].ids /\ m.st = st /\ m.note = flags[c] /\ m.out = out
  BY <1>c, <1>5 DEF Memory
<1>8. \A d \in RestsOn[c] : st.base[c][d] = mem[p].snap[d].body
  BY <1>a, <1>c, <1>3, BaselinesTaken
<1>9. f.status = "locked" /\ DOMAIN f = DOMAIN mem[p].snap[c]
  BY <1>c, <1>1 DEF Applied, ClaimFile
<1>10. fs[c] = f /\ \A d \in Claims \ {c} : fs[d] = mem[p].snap[d]
  BY <1>c, <1>2 DEF Files
<1>11. ~Drift(c, fs, st)
  BY <1>8, <1>10, <1>d, ClaimsAssumption DEF Drift, ContentHash
<1>12. /\ out[c].status = "locked"
       /\ out[c].pending => OpenThreads(out[c]) # {}
  <2>1. out[c] = [f EXCEPT !.pending = Recompute(c, fs, st, [flags EXCEPT ![c] = None])]
    BY <1>c, <1>2, <1>4, <1>10 DEF Files
  <2>2. /\ out[c].status = "locked" /\ out[c].threads = f.threads
        /\ out[c].pending = Recompute(c, fs, st, [flags EXCEPT ![c] = None])
    BY <1>9, <1>c, <2>1 DEF ClaimFile
  <2>3. [flags EXCEPT ![c] = None][c] = None
    BY <1>a DEF TypeOK
  <2>4. out[c].pending => OpenThreads(f) # {}
    BY <1>10, <1>11, <2>2, <2>3 DEF Recompute
  <2> QED
    BY <2>2, <2>4 DEF OpenThreads
<1>13. Settling("reaudit.sign", m)'
  BY <1>6, <1>7, <1>8, <1>12, <1>c, <1>d DEF Settling, Uncycled, Closure, OpenThreads
<1>14. "reaudit.sign" \notin InLock
  BY DEF InLock
<1> QED
  BY <1>a, <1>b, <1>6, <1>7, <1>13, <1>14, Goes, WithinR

\* Its writes: each puts on disk what is in memory, and ends or leaves that alone.
LEMMA ReauditKeepsR ==
  ASSUME RInv, AInv', NEW p \in Procs,
         \/ ReauditSave(p)
         \/ \E c \in Claims : ReauditSign(p, c) \/ ReauditClaim(p, c) \/ ReauditFlag(p, c)
  PROVE  RInv'
<1>a. TypeOK /\ file \in Files
  BY RTyped
<1>b. pc[p] \in Reauditing /\ pc[p] \in ClaimsHeld
  BY DEF ReauditSave, ReauditSign, ReauditClaim, ReauditFlag, Reauditing, ClaimsHeld, Labels
<1>m. PICK m : m = mem[p]
  OBVIOUS
<1>c. Settling(pc[p], m) /\ m.ids \subseteq Claims /\ \A c, d \in m.ids : c = d
  BY <1>b, <1>m, Held, RTyped DEF Knows, AboutOne, InLock, Reauditing
<1>1. ASSUME NEW l \in Reauditing, Goto(p, l, m), Settling(l, m)',
             \A c \in Claims : file'[c].status = "locked" => file[c].status = "locked" \/ Uncycled(c)
      PROVE  RInv'
  BY <1>a, <1>b, <1>m, <1>1, ReauditPhases, Goes, WithinR
<1>2. CASE ReauditSave(p)
  <2>1. CASE m.note = None
    BY <1>2, <1>b, <1>m, <2>1, EndR DEF ReauditSave
  <2>2. CASE m.note # None
    <3>1. Goto(p, "reaudit.flag", m) /\ UNCHANGED <<file, flags, budget>> /\ store' = m.st
          /\ pc[p] = "reaudit.save"
      BY <1>2, <1>m, <2>2 DEF ReauditSave
    <3>2. Settling("reaudit.flag", m)'
      BY <1>c, <3>1 DEF Settling, Uncycled, Closure, OpenThreads, Untampered
    <3> QED
      BY <1>1, <3>1, <3>2 DEF Reauditing
  <2> QED
    BY <2>1, <2>2
<1>3. ASSUME NEW c \in Claims, ReauditSign(p, c) PROVE RInv'
  <2>1. /\ Goto(p, "reaudit.claim", m) /\ UNCHANGED <<file, store, flags>>
        /\ pc[p] = "reaudit.sign"
    BY <1>3, <1>m DEF ReauditSign
  <2>2. Settling("reaudit.claim", m)'
    BY <1>c, <2>1 DEF Settling, Uncycled, Closure, OpenThreads
  <2> QED
    BY <1>1, <2>1, <2>2 DEF Reauditing
<1>4. ASSUME NEW c \in Claims, ReauditClaim(p, c) PROVE RInv'
  <2>1. /\ Goto(p, "reaudit.save", m) /\ UNCHANGED <<store, flags>>
        /\ pc[p] = "reaudit.claim" /\ c \in m.ids
        /\ file' = [file EXCEPT ![c] = m.out[c]]
    BY <1>4, <1>m DEF ReauditClaim, SaveClaimIfUnchanged
  <2>2. m.ids = {c} /\ file'[c] = m.out[c] /\ Uncycled(c)
    BY <1>a, <1>c, <2>1 DEF Files, Settling
  <2>3. Settling("reaudit.save", m)'
    BY <1>c, <2>1, <2>2 DEF Settling, Uncycled, Closure, OpenThreads
  <2>4. \A d \in Claims : file'[d].status = "locked" => file[d].status = "locked" \/ Uncycled(d)
    BY <1>a, <2>1, <2>2 DEF Files
  <2> QED
    BY <1>1, <2>1, <2>3, <2>4 DEF Reauditing
<1>5. ASSUME NEW c \in Claims, ReauditFlag(p, c) PROVE RInv'
  BY <1>5, <1>b, EndR DEF ReauditFlag
<1> QED
  BY <1>2, <1>3, <1>4, <1>5

LEMMA InitRInv == Init => RInv
<1> SUFFICES ASSUME Init PROVE RInv
  OBVIOUS
<1>1. AInv
  BY InitAInv
<1>2. \A p \in Procs : pc[p] = "idle"
  BY DEF Init
<1>3. \A c \in Claims : file[c].status # "locked"
  BY DEF Init
<1>4. LockedUncycled
  BY <1>2, <1>3, Phases DEF LockedUncycled
<1>5. \A p \in Procs : Settling(pc[p], mem[p])
  BY <1>2 DEF Settling
<1> QED
  BY <1>1, <1>4, <1>5 DEF RInv

LEMMA NextRInv == RInv /\ [Next]_vars => RInv'
<1> SUFFICES ASSUME RInv, [Next]_vars PROVE RInv'
  OBVIOUS
<1>1. AInv'
  BY NextAInv, RTyped
<1>2. CASE UNCHANGED vars
  BY <1>1, <1>2, AsideStepR DEF vars, Untampered
<1>3. ASSUME NEW p \in Procs, Start(p) PROVE RInv'
  BY <1>1, <1>3, ApartKeepsR, LoadsKeepR DEF Start
<1>4. ASSUME NEW p \in Procs, Step(p) PROVE RInv'
  BY <1>1, <1>4, ApartKeepsR, EndingsKeepR, LockKeepsR, OthersKeepR, ReauditApplyKeepsR, ReauditKeepsR DEF Step
<1>5. CASE Outside
  BY <1>1, <1>5, OutsideKeepsR
<1> QED
  BY <1>2, <1>3, <1>4, <1>5 DEF Next

\* Every reaudit in flight consumes the flag that stands and has taken its baselines
\* from the claims as loaded, and nothing locked is in a cycle of rests_on.
THEOREM ReauditInvariance == Spec => []RInv
  BY InitRInv, NextRInv, PTL DEF Spec

\* What the last write of a reaudit leaves: no flag, no drift, and no mark but for open
\* threads.
LEMMA ReauditLeaves ==
  ASSUME RInv, NEW p \in Procs, NEW c \in Claims, ReauditDone(p, c), Untampered,
         \A d \in Claims \ {c} : file[d] = mem[p].snap[d]
  PROVE  /\ flags'[c] = None /\ ~Drift(c, file', store')
         /\ file'[c].pending => OpenThreads(file[c])' # {}
<1>1. /\ pc[p] \in {"reaudit.save", "reaudit.flag"} /\ pc[p] \in Reauditing /\ pc[p] \in ClaimsHeld
      /\ UNCHANGED file /\ c \in mem[p].ids
  BY DEF ReauditDone, ReauditSave, ReauditFlag, Reauditing, ClaimsHeld, Labels
<1>2. Settling(pc[p], mem[p]) /\ mem[p].ids = {c}
  BY <1>1, RTyped, Held DEF Knows, AboutOne, InLock
<1>3. /\ file[c] = mem[p].out[c] /\ mem[p].note = flags[c] /\ Uncycled(c)
      /\ file[c].pending => OpenThreads(file[c]) # {}
      /\ \A d \in RestsOn[c] : mem[p].st.base[c][d] = mem[p].snap[d].body
      /\ pc[p] = "reaudit.flag" => mem[p].st = store
  BY <1>1, <1>2 DEF Settling
<1>4. flags'[c] = None /\ store' = mem[p].st
  <2>1. CASE ReauditSave(p)
    <3>1. mem[p].note = None
      <4>1. pc'[p] = "idle" /\ pc \in [Procs -> Labels]
        BY RTyped DEF ReauditDone, TypeOK
      <4>2. CASE mem[p].note # None
        BY <2>1, <4>1, <4>2 DEF ReauditSave, Goto
      <4> QED
        BY <4>2
    <3> QED
      BY <2>1, <3>1, <1>3 DEF ReauditSave
  <2>2. ASSUME ReauditFlag(p, c) PROVE flags'[c] = None /\ store' = mem[p].st
    BY <2>2, <1>3, RTyped DEF ReauditFlag, TypeOK
  <2> QED
    BY <2>1, <2>2 DEF ReauditDone
<1>5. c \notin RestsOn[c]
  BY <1>3, UncycledApart
<1>6. ~Drift(c, file', store')
  BY <1>1, <1>3, <1>4, <1>5, ClaimsAssumption DEF Drift, ContentHash
<1> QED
  BY <1>1, <1>3, <1>4, <1>6 DEF OpenThreads

\* A reaudit that completes is not asked for again (Recompute over the flag already
\* gone, RefreshBaseline over the claims as loaded, then the flag's clearing, against
\* claimReviewTrigger), whatever was killed or failed to write before it.
THEOREM ReauditIsDone == Spec => ReauditSettles
<1>a. TypeOK => \A c \in Claims : "reaudit" \in claimNextActions(c) =>
         /\ file[c].pending
         /\ PendingTriggers(c) \cap {"drift", "flag"} # {} \/ PendingTriggers(c) = {}
  BY OffersReaudit
<1>b. (TypeOK => \A c \in Claims : "reaudit" \in claimNextActions(c) =>
          /\ file[c].pending
          /\ PendingTriggers(c) \cap {"drift", "flag"} # {} \/ PendingTriggers(c) = {})'
  BY <1>a, PTL
<1>1. ASSUME RInv, RInv', NEW p \in Procs, NEW c \in Claims, ReauditDone(p, c), Untampered,
             \A d \in Claims \ {c} : file[d] = mem[p].snap[d]
      PROVE  "reaudit" \notin claimNextActions(c)'
  <2> SUFFICES ASSUME "reaudit" \in claimNextActions(c)' PROVE FALSE
    OBVIOUS
  <2>1. /\ flags'[c] = None /\ ~Drift(c, file', store')
        /\ file'[c].pending => OpenThreads(file[c])' # {}
    BY <1>1, ReauditLeaves
  <2>2. TypeOK'
    BY <1>1 DEF RInv, AInv, IInv
  <2>3. /\ file'[c].pending
        /\ PendingTriggers(c)' \cap {"drift", "flag"} # {} \/ PendingTriggers(c)' = {}
    BY <1>b, <2>2
  <2> QED
    BY <2>1, <2>3 DEF PendingTriggers
<1>2. RInv /\ RInv' /\ [Next]_vars =>
         [\A p \in Procs, c \in Claims :
            ReauditDone(p, c) /\ Untampered /\ (\A d \in Claims \ {c} : file[d] = mem[p].snap[d])
              => "reaudit" \notin claimNextActions(c)']_vars
  BY <1>1
<1> QED
  BY <1>2, ReauditInvariance, PTL DEF Spec, ReauditSettles
=============================================================================
