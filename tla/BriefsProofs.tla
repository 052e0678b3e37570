----------------------------- MODULE BriefsProofs -----------------------------
(* Theorems about Briefs, for every set of briefs, claims, threads and       *)
(* processes and every number of edits, faults and changes by hand.          *)
EXTENDS Briefs, TLAPS

-----------------------------------------------------------------------------
(* The comment operations. *)

LEMMA PartialIs ==
  ASSUME NEW S, NEW T, NEW f
  PROVE  f \in Partial(S, T) <=> \E D \in SUBSET S : f \in [D -> T]
  BY DEF Partial

LEMMA PartialOf ==
  ASSUME NEW S, NEW T, NEW f \in Partial(S, T)
  PROVE  DOMAIN f \subseteq S /\ f \in [DOMAIN f -> T] /\ \A x \in DOMAIN f : f[x] \in T
<1>1. PICK D \in SUBSET S : f \in [D -> T]
  BY PartialIs
<1> QED
  BY <1>1

\* A member more, another value for a member, a member less.
LEMMA WithTyped ==
  ASSUME NEW S, NEW T, NEW f \in Partial(S, T), NEW x \in S, NEW v \in T
  PROVE  With(f, x, v) \in Partial(S, T)
<1>1. DOMAIN f \cup {x} \in SUBSET S
  BY PartialOf
<1>2. With(f, x, v) \in [DOMAIN f \cup {x} -> T]
  BY PartialOf DEF With
<1> QED
  BY <1>1, <1>2, PartialIs

LEMMA ExceptTyped ==
  ASSUME NEW S, NEW T, NEW f \in Partial(S, T), NEW x \in DOMAIN f, NEW v \in T
  PROVE  [f EXCEPT ![x] = v] \in Partial(S, T)
<1>1. [f EXCEPT ![x] = v] \in [DOMAIN f -> T]
  BY PartialOf
<1> QED
  BY <1>1, PartialOf, PartialIs

LEMMA WithoutTyped ==
  ASSUME NEW S, NEW T, NEW f \in Partial(S, T), NEW x
  PROVE  Without(f, x) \in Partial(S, T)
<1>1. Without(f, x) \in [DOMAIN f \ {x} -> T] /\ DOMAIN f \ {x} \in SUBSET S
  BY PartialOf DEF Without
<1> QED
  BY <1>1, PartialIs

LEMMA EmptyTyped == ASSUME NEW S, NEW T PROVE <<>> \in Partial(S, T)
<1>1. <<>> \in [{} -> T]
  OBVIOUS
<1> QED
  BY <1>1, PartialIs

\* No operation forges a block: what it makes of one is a block, forged if that was.
LEMMA OutcomeTyped ==
  ASSUME NEW block \in Blocks, NEW actor \in Roles, NEW new \in Outcomes(block, actor)
  PROVE  new \in Blocks /\ new.forged = block.forged
<1> DEFINE G == Partial(ThreadIds, Thread)
<1>1. block.threads \in G /\ block.forged \in BOOLEAN
  BY DEF Blocks
<1>2. \A g \in G : [block EXCEPT !.threads = g] \in Blocks /\ [block EXCEPT !.threads = g].forged = block.forged
  BY DEF Blocks
<1>3. \A t \in DOMAIN block.threads : block.threads[t] \in Thread /\ t \in ThreadIds
  BY <1>1, PartialOf
<1>4. ASSUME NEW t \in DOMAIN block.threads, NEW th \in Thread
      PROVE  [block.threads EXCEPT ![t] = th] \in G
  BY <1>1, <1>4, ExceptTyped
<1>5. CASE new \in addThreadOp(block, actor)
  <2>1. PICK t \in ThreadIds :
           new = [block EXCEPT !.threads = With(@, t, [author |-> actor, status |-> "open", replies |-> <<>>])]
    BY <1>5 DEF addThreadOp, mintUniqueID
  <2>2. [author |-> actor, status |-> "open", replies |-> <<>>] \in Thread
    BY EmptyTyped DEF Thread
  <2>3. With(block.threads, t, [author |-> actor, status |-> "open", replies |-> <<>>]) \in G
    BY <1>1, <2>2, WithTyped
  <2> QED
    BY <1>2, <2>1, <2>3
<1>6. ASSUME NEW t \in DOMAIN block.threads, NEW rs \in Partial(ReplyIds, Roles),
             new = [block EXCEPT !.threads[t].replies = rs]
      PROVE  new \in Blocks /\ new.forged = block.forged
  <2>1. [block.threads[t] EXCEPT !.replies = rs] \in Thread
    BY <1>3 DEF Thread
  <2>2. new = [block EXCEPT !.threads = [block.threads EXCEPT ![t] = [block.threads[t] EXCEPT !.replies = rs]]]
    BY <1>6 DEF Blocks
  <2> QED
    BY <1>2, <1>4, <2>1, <2>2
<1>7. ASSUME NEW t \in DOMAIN block.threads, NEW s \in {"open", "resolved"},
             new = [block EXCEPT !.threads[t].status = s]
      PROVE  new \in Blocks /\ new.forged = block.forged
  <2>1. [block.threads[t] EXCEPT !.status = s] \in Thread
    BY <1>3 DEF Thread
  <2>2. new = [block EXCEPT !.threads = [block.threads EXCEPT ![t] = [block.threads[t] EXCEPT !.status = s]]]
    BY <1>7 DEF Blocks
  <2> QED
    BY <1>2, <1>4, <2>1, <2>2
<1>8. CASE new \in replyOp(block, actor)
  <2>1. PICK t \in DOMAIN block.threads, r \in ReplyIds :
           new = [block EXCEPT !.threads[t].replies = With(@, r, actor)]
    BY <1>8 DEF replyOp, mintUniqueID
  <2>2. With(block.threads[t].replies, r, actor) \in Partial(ReplyIds, Roles)
    BY <1>3, WithTyped DEF Thread
  <2>3. new = [block EXCEPT !.threads[t].replies = With(block.threads[t].replies, r, actor)]
    BY <2>1
  <2> QED
    BY <1>6, <2>2, <2>3
<1>9. CASE new \in resolveOp(block, actor) \cup reopenOp(block, actor)
  BY <1>7, <1>9 DEF resolveOp, reopenOp, Actionable
<1>10. CASE new \in editOp(block, actor)
  BY <1>10 DEF editOp
<1>11. CASE new \in deleteOp(block, actor)
  <2>1. CASE \E t \in DOMAIN block.threads : new = [block EXCEPT !.threads = Without(@, t)]
    BY <1>1, <1>2, <2>1, WithoutTyped
  <2>2. ASSUME NEW t \in DOMAIN block.threads, NEW r \in ReplyIds,
               new = [block EXCEPT !.threads[t].replies = Without(@, r)]
        PROVE  new \in Blocks /\ new.forged = block.forged
    <3>1. Without(block.threads[t].replies, r) \in Partial(ReplyIds, Roles)
      BY <1>3, WithoutTyped DEF Thread
    <3>2. new = [block EXCEPT !.threads[t].replies = Without(block.threads[t].replies, r)]
      BY <2>2
    <3> QED
      BY <1>6, <3>1, <3>2
  <2> QED
    BY <1>11, <2>1, <2>2 DEF deleteOp
<1> QED
  BY <1>5, <1>8, <1>9, <1>10, <1>11 DEF Outcomes

\* A hand resolves threads and takes them away; it opens none.
LEMMA TamperedTyped ==
  ASSUME NEW f \in File, NEW g \in Tampered(f)
  PROVE  /\ g \in File /\ g.signed = f.signed /\ (HasOpen(g.block) => HasOpen(f.block))
         /\ (f.block.forged => DOMAIN f.block.threads # {}) => (g.block.forged => DOMAIN g.block.threads # {})
<1>1. CASE \E s \in {"draft", "locked"} : g = [f EXCEPT !.status = s]
  BY <1>1 DEF File
<1>2. CASE g = [f EXCEPT !.here = FALSE]
  BY <1>2 DEF File
<1>3. ASSUME NEW D \in SUBSET DOMAIN f.block.threads,
             g = [f EXCEPT !.block =
                    [threads |-> [t \in D |-> [f.block.threads[t] EXCEPT !.status = "resolved"]],
                     forged |-> DOMAIN [t \in D |-> [f.block.threads[t] EXCEPT !.status = "resolved"]] # {}]]
      PROVE  /\ g \in File /\ g.signed = f.signed /\ ~HasOpen(g.block)
             /\ g.block.forged => DOMAIN g.block.threads # {}
  <2> DEFINE h == [t \in D |-> [f.block.threads[t] EXCEPT !.status = "resolved"]]
             k == [threads |-> h, forged |-> DOMAIN h # {}]
  <2>1. f.block \in Blocks /\ f.block.threads \in Partial(ThreadIds, Thread)
    BY DEF File, Blocks
  <2>2. \A t \in D : f.block.threads[t] \in Thread /\ t \in ThreadIds
    BY <2>1, PartialOf
  <2>3. \A t \in D : h[t] \in Thread /\ h[t].status = "resolved"
    BY <2>2 DEF Thread
  <2>4. h \in [D -> Thread] /\ DOMAIN h = D
    BY <2>3
  <2>5. h \in Partial(ThreadIds, Thread)
    BY <2>2, <2>4, PartialIs
  <2>6. ~\E t \in DOMAIN h : h[t].status = "open"
    BY <2>3, <2>4
  <2>7. g = [f EXCEPT !.block = k]
    BY <1>3
  <2> HIDE DEF h
  <2>8. k \in Blocks /\ k.threads = h /\ (k.forged => DOMAIN h # {})
    BY <2>5 DEF Blocks
  <2> HIDE DEF k
  <2>9. g \in File /\ g.signed = f.signed /\ g.block = k
    BY <2>7, <2>8 DEF File
  <2> QED
    BY <2>6, <2>8, <2>9 DEF HasOpen
<1> QED
  BY <1>1, <1>2, <1>3 DEF Tampered, File

-----------------------------------------------------------------------------
(* Who is at work. *)

\* What a process is doing, by its phase.
LEMMA OpTyped ==
  ASSUME TypeOK, NEW p \in Procs
  PROVE  /\ op[p] # Idle <=> op[p].at # "idle"
         /\ op[p].at # "idle" => op[p] \in Doing /\ op[p].brief \in Briefs
  BY DEF TypeOK, Doing, Idle, Phases

\* One process is in the middle of something at a time.
LEMMA Alone ==
  ASSUME BriefsInv, NEW p \in Procs, op[p] # Idle \/ held["claims"] = None
  PROVE  \A q \in Procs \ {p} : op[q] = Idle
  BY BriefsAssumption DEF BriefsInv, ProcTrue

\* A step of p: the others sit by, before and after.
LEMMA StepOf ==
  ASSUME BriefsInv, TypeOK', NEW p \in Procs, op[p] # Idle \/ held["claims"] = None,
         \A q \in Procs \ {p} : op'[q] = op[q],
         ProcTrue(p)', \A b \in Briefs : BriefTrue(b)'
  PROVE  BriefsInv'
  BY Alone DEF BriefsInv, ProcTrue

LEMMA InCommandOf ==
  ASSUME BriefsInv, NEW p \in Procs, op[p] # Idle \/ held["claims"] = None,
         NEW b \in Briefs, NEW phases \in SUBSET Phases
  PROVE  InCommand(b, phases) <=> op[p].brief = b /\ op[p].at \in phases
  BY Alone DEF InCommand, Idle, Phases

LEMMA ReleaseTyped ==
  ASSUME TypeOK, NEW p \in Procs PROVE Release(p) \in [{"claims", "store"} -> Procs \cup {None, Dead}]
  BY DEF TypeOK, Release

\* A brief whose file, record and digest stay as they are.
LEMMA BriefKept ==
  ASSUME BriefsInv, NEW b \in Briefs,
         file'[b] = file[b], rec'[b] = rec[b], dig'[b] = dig[b], yes'[b] = yes[b],
         budget'.tampers = 0 => budget.tampers = 0,
         budget'.faults = 0 => budget.faults = 0,
         budget'.edits = 0 => budget.edits = 0,
         InCommand(b, {"lockSave", "unlockFile"}) =>
            budget'.faults > 0 \/ InCommand(b, {"lockSave", "unlockFile"})',
         InCommand(b, {"commentDigest"}) => budget'.faults > 0 \/ InCommand(b, {"commentDigest"})'
  PROVE  BriefTrue(b)'
  BY DEF BriefsInv, BriefTrue, Untouched, Standing, checkBriefDigest

\* A command begins: it knows what it read.
LEMMA BeginKeeps ==
  ASSUME BriefsInv, NEW p \in Procs, NEW b \in Briefs, NEW at \in Phases \ {"lockSave", "unlockFile", "commentDigest"},
         NEW block \in Blocks \cup {None}, Begin(p, b, at, block),
         at = "lock" => ~HasOpen(file[b].block) /\ briefErrorFindings(file[b], claim) = {},
         at = "comment" => block \in Blocks /\ ~block.forged
  PROVE  BriefsInv'
<1> DEFINE o == [at |-> at, brief |-> b, file |-> file[b], claims |-> claim, block |-> block]
<1>1. /\ op[p] = Idle /\ held["claims"] = None /\ held' = [held EXCEPT !["claims"] = p]
      /\ op' = [op EXCEPT ![p] = o] /\ UNCHANGED <<claim, file, rec, dig, budget, yes>>
  BY DEF Begin, Free, Acquire
<1>2. TypeOK /\ file[b] \in File /\ claim \in Readings
  BY DEF BriefsInv, TypeOK
<1>3. o \in Doing
  BY <1>2 DEF Doing
<1>4. /\ o.at = at /\ o.brief = b /\ o.file = file[b] /\ o.claims = claim /\ o.block = block
  OBVIOUS
<1> HIDE DEF o
<1>5. op'[p] = o /\ \A q \in Procs \ {p} : op'[q] = op[q]
  BY <1>1, <1>2 DEF TypeOK
<1>6. TypeOK'
  BY <1>1, <1>2, <1>3 DEF TypeOK
<1>8. at = "lock" => \A c \in file[b].signed.rests : claim[c] # None
  BY DEF briefErrorFindings
<1>9. /\ op'[p].at = at /\ op'[p].brief = b /\ op'[p].file = file[b] /\ op'[p].claims = claim
      /\ op'[p].block = block /\ file'[b] = file[b] /\ held'["claims"] = p
  BY <1>1, <1>2, <1>4, <1>5 DEF TypeOK
<1>10. Knows(op[p], file[op[p].brief])'
  BY <1>8, <1>9 DEF Knows
<1>11. KnowsUntouched(op[p], file[op[p].brief])'
  BY <1>9 DEF KnowsUntouched
<1>12. ProcTrue(p)'
  BY <1>9, <1>10, <1>11 DEF ProcTrue
<1>13. \A x \in Briefs, S \in SUBSET Phases : ~InCommand(x, S)
  BY <1>1, InCommandOf DEF Idle, Phases
<1>14. \A x \in Briefs : BriefTrue(x)'
  BY <1>1, <1>13, BriefKept DEF Phases
<1> QED
  BY <1>1, <1>5, <1>6, <1>12, <1>14, StepOf

\* lock, unlock, reaudit and a comment operation begin.
LEMMA BeginsKeep ==
  ASSUME BriefsInv, NEW p \in Procs, NEW b \in Briefs,
         \/ BeginLock(p, b) \/ BeginUnlock(p, b) \/ BeginReaudit(p, b)
         \/ \E actor \in Roles : BeginComment(p, b, actor)
  PROVE  BriefsInv'
<1>1. CASE BeginLock(p, b)
  BY <1>1, BeginKeeps DEF BeginLock, Phases
<1>2. CASE BeginUnlock(p, b) \/ BeginReaudit(p, b)
  BY <1>2, BeginKeeps DEF BeginUnlock, BeginReaudit, Phases
<1>3. ASSUME NEW actor \in Roles, BeginComment(p, b, actor) PROVE BriefsInv'
  <2>1. PICK block \in Outcomes(file[b].block, actor) : Begin(p, b, "comment", block)
    BY <1>3 DEF BeginComment
  <2>2. file[b].block \in Blocks /\ HandsShow(file[b], dig[b]) /\ checkBriefDigest(b)
    BY <1>3 DEF BriefsInv, TypeOK, File, BriefTrue, BeginComment
  <2>3. ~file[b].block.forged
    BY <2>2 DEF HandsShow, checkBriefDigest
  <2>4. block \in Blocks /\ block.forged = file[b].block.forged
    BY <2>2, OutcomeTyped
  <2>5. "comment" \in Phases \ {"lockSave", "unlockFile", "commentDigest"}
    BY DEF Phases
  <2> QED
    BY <2>1, <2>3, <2>4, <2>5, BeginKeeps
<1> QED
  BY <1>1, <1>2, <1>3

\* What a process in the middle of something is, and is on.
LEMMA Working ==
  ASSUME BriefsInv, NEW p \in Procs, op[p].at \in Phases
  PROVE  /\ op[p] # Idle /\ op[p] \in Doing /\ op[p].brief \in Briefs /\ op[p].file \in File
         /\ op[p].claims \in Readings /\ file[op[p].brief] \in File
         /\ held["claims"] = p /\ Knows(op[p], file[op[p].brief])
         /\ budget.tampers = 0 => KnowsUntouched(op[p], file[op[p].brief])
         /\ BriefTrue(op[p].brief)
         /\ \A b \in Briefs, S \in SUBSET Phases : InCommand(b, S) <=> op[p].brief = b /\ op[p].at \in S
<1>1. op[p] # Idle
  BY DEF Idle, Phases
<1>2. op[p] \in Doing
  BY <1>1 DEF BriefsInv, TypeOK
<1> QED
  BY <1>1, <1>2, InCommandOf DEF BriefsInv, ProcTrue, Doing, TypeOK

\* A command ends: nobody is in the middle of anything.
LEMMA FinishIdle ==
  ASSUME BriefsInv, NEW p \in Procs, op[p].at \in Phases, Finish(p)
  PROVE  /\ op' \in [Procs -> {Idle} \cup Doing] /\ held' \in [{"claims", "store"} -> Procs \cup {None, Dead}]
         /\ ProcTrue(p)' /\ \A q \in Procs \ {p} : op'[q] = op[q]
         /\ \A b \in Briefs, S \in SUBSET Phases : ~InCommand(b, S)'
<1>1. op' = [op EXCEPT ![p] = Idle] /\ held' = Release(p) /\ TypeOK /\ op[p] # Idle
  BY Working DEF Finish, BriefsInv
<1>2. op'[p] = Idle /\ \A q \in Procs \ {p} : op'[q] = op[q] /\ op[q] = Idle
  BY <1>1, Alone DEF TypeOK
<1>3. \A b \in Briefs, S \in SUBSET Phases : ~InCommand(b, S)'
  BY <1>2 DEF InCommand, Idle, Phases
<1> QED
  BY <1>1, <1>2, <1>3, ReleaseTyped DEF TypeOK, ProcTrue

\* p moves on to the phase at.
LEMMA MovesOn ==
  ASSUME BriefsInv, NEW p \in Procs, op[p].at \in Phases, NEW at \in Phases,
         op' = [op EXCEPT ![p].at = at]
  PROVE  /\ op' \in [Procs -> {Idle} \cup Doing] /\ \A q \in Procs \ {p} : op'[q] = op[q]
         /\ op'[p].at = at /\ op'[p].brief = op[p].brief /\ op'[p].file = op[p].file
         /\ op'[p].claims = op[p].claims /\ op'[p].block = op[p].block
         /\ \A b \in Briefs, S \in SUBSET Phases : InCommand(b, S)' <=> op[p].brief = b /\ at \in S
<1>1. op \in [Procs -> {Idle} \cup Doing] /\ op[p] \in Doing /\ op[p] # Idle
  BY Working DEF BriefsInv, TypeOK
<1> DEFINE o == [op[p] EXCEPT !.at = at]
<1>2. op' = [op EXCEPT ![p] = o]
  OBVIOUS
<1>3. /\ o \in Doing /\ o.at = at /\ o.brief = op[p].brief /\ o.file = op[p].file
      /\ o.claims = op[p].claims /\ o.block = op[p].block
  BY <1>1 DEF Doing
<1> HIDE DEF o
<1>4. op'[p] = o /\ \A q \in Procs \ {p} : op'[q] = op[q] /\ op[q] = Idle
  BY <1>1, <1>2, Alone
<1>5. \A b \in Briefs, S \in SUBSET Phases : InCommand(b, S)' <=> op[p].brief = b /\ at \in S
  BY <1>3, <1>4 DEF InCommand, Idle, Phases
<1> QED
  BY <1>1, <1>2, <1>3, <1>4, <1>5

-----------------------------------------------------------------------------
(* brief lock. *)

LEMMA LockKeeps == ASSUME BriefsInv, NEW p \in Procs, Lock(p) PROVE BriefsInv'
<1>1. op[p].at = "lock" /\ op[p].at \in Phases /\ UNCHANGED <<claim, rec, dig, budget, yes>>
  BY DEF Lock, Phases
<1>a. op[p].brief \in Briefs /\ op[p].file \in File
  BY <1>1, Working
<1>b. PICK b \in Briefs, f \in File : b = op[p].brief /\ f = op[p].file
  BY <1>a
<1>2. TypeOK /\ op[p] # Idle /\ b \in Briefs /\ f \in File /\ file[b] \in File
      /\ Knows(op[p], file[b]) /\ held["claims"] = p
  BY <1>1, <1>b, Working DEF BriefsInv
<1>3. CASE Finish(p) /\ UNCHANGED file
  <2>1. TypeOK'
    BY <1>1, <1>2, <1>3, FinishIdle DEF TypeOK
  <2>2. \A x \in Briefs, S \in SUBSET Phases : "lock" \notin S => ~InCommand(x, S)
    BY <1>1, Working
  <2>3. \A x \in Briefs : BriefTrue(x)'
    BY <1>1, <1>3, <2>2, BriefKept DEF Phases
  <2> QED
    BY <1>1, <1>2, <1>3, <2>1, <2>3, FinishIdle, StepOf
<1>4. CASE /\ file' = IF f.status # "locked" THEN [file EXCEPT ![b].status = "locked"] ELSE file
           /\ held' = Acquire(p, "store") /\ op' = [op EXCEPT ![p].at = "lockSave"]
  <2>1. /\ file' \in [Briefs -> File] /\ \A x \in Briefs \ {b} : file'[x] = file[x]
        /\ file'[b].here = file[b].here /\ file'[b].block = file[b].block
        /\ f.status # "locked" => file'[b].status = "locked"
        /\ f.status = "locked" => file'[b] = file[b]
    BY <1>2, <1>4 DEF TypeOK, File
  <2>2. held' \in [{"claims", "store"} -> Procs \cup {None, Dead}] /\ held'["claims"] = p
    BY <1>2, <1>4 DEF TypeOK, Acquire
  <2>3. "lockSave" \in Phases
    BY DEF Phases
  <2>4. TypeOK'
    BY <1>1, <1>2, <1>4, <2>1, <2>2, <2>3, MovesOn DEF TypeOK
  <2>5. /\ op'[p].at = "lockSave" /\ op'[p].brief = b /\ op'[p].file = f /\ op'[p].claims = op[p].claims
        /\ \A x \in Briefs, S \in SUBSET Phases : InCommand(x, S)' <=> b = x /\ "lockSave" \in S
    BY <1>1, <1>b, <1>4, <2>3, MovesOn
  <2>6. Knows(op[p], file[op[p].brief])'
    BY <1>1, <1>2, <1>b, <2>1, <2>5 DEF Knows
  <2>7. budget.tampers = 0 => file'[b].status = "locked" /\ file[b].status = f.status
    BY <1>1, <1>b, <2>1, Working DEF KnowsUntouched
  <2>8. budget.tampers = 0 => KnowsUntouched(op[p], file[op[p].brief])'
    BY <2>5, <2>7 DEF KnowsUntouched
  <2>9. ProcTrue(p)'
    BY <1>1, <2>2, <2>6, <2>8 DEF ProcTrue
  <2>10. \A x \in Briefs, S \in SUBSET Phases : "lock" \notin S => ~InCommand(x, S)
    BY <1>1, Working
  <2>11. \A x \in Briefs \ {b} : BriefTrue(x)'
    BY <1>1, <2>1, <2>10, BriefKept DEF Phases
  <2>12. BriefTrue(b) /\ ~InCommand(b, {"commentDigest"})
    BY <1>1, <1>2, <2>10 DEF Phases, BriefsInv
  <2>13. InCommand(b, {"lockSave", "unlockFile"})'
    BY <1>2, <2>5 DEF Phases
  <2>15. /\ rec'[b] = rec[b] /\ yes'[b] = yes[b] /\ dig'[b] = dig[b]
         /\ (checkBriefDigest(b)' <=> checkBriefDigest(b)) /\ (Standing(b)' <=> Standing(b))
    BY <1>1, <2>1 DEF checkBriefDigest, Standing
  <2>16. budget.tampers = 0 => Untouched(b)'
    BY <1>1, <2>1, <2>7, <2>12, <2>13, <2>15 DEF BriefTrue, Untouched
  <2>14. BriefTrue(b)'
    BY <1>1, <2>1, <2>12, <2>15, <2>16 DEF BriefTrue, HandsShow
  <2> QED
    BY <1>1, <1>2, <1>4, <2>3, <2>4, <2>9, <2>11, <2>14, MovesOn, StepOf
<1> QED
  BY <1>b, <1>3, <1>4 DEF Lock

\* The record a lock writes: what it signs was signed, and each baseline was read,
\* now or when an earlier lock or reaudit took it.
LEMMA RelockRead ==
  ASSUME NEW f \in File, NEW cs \in Readings, NEW r \in Record, NEW y, RecordRead(r, y),
         \A c \in f.signed.rests : cs[c] # None, NEW z,
         f.signed \in z.signed, y.read \subseteq z.read,
         \A c \in f.signed.rests : ~r.has \/ r.base[c] = None => <<c, cs[c]>> \in z.read
  PROVE  /\ [has |-> TRUE, released |-> FALSE, signed |-> f.signed, base |-> RelockBaselines(f, cs, r)] \in Record
         /\ RecordRead([has |-> TRUE, released |-> FALSE, signed |-> f.signed, base |-> RelockBaselines(f, cs, r)], z)
<1> DEFINE n == RelockBaselines(f, cs, r)
<1>1. f.signed \in Signed /\ f.signed.rests \subseteq Claims /\ f.signed # None
  BY BriefsAssumption DEF File, Signed
<1>2. \A c \in Claims : n[c] = IF c \in f.signed.rests /\ r.base[c] # None THEN r.base[c]
                                ELSE IF c \in f.signed.rests THEN cs[c] ELSE None
  BY DEF RelockBaselines, Baselines
<1>3. r.base \in Readings /\ \A c \in Claims : cs[c] \in Contents \cup {None}
  BY DEF Record, Readings
<1>4. n \in Readings
  BY <1>2, <1>3 DEF RelockBaselines, Readings
<1>5. /\ \A c \in f.signed.rests : n[c] # None
      /\ \A c \in Claims : n[c] # None => <<c, n[c]>> \in z.read
  BY <1>1, <1>2 DEF RecordRead
<1> HIDE DEF n
<1> DEFINE q == [has |-> TRUE, released |-> FALSE, signed |-> f.signed, base |-> n]
<1>6. q.has = TRUE /\ q.released = FALSE /\ q.signed = f.signed /\ q.base = n
  OBVIOUS
<1>7. q \in Record
  BY <1>1, <1>4 DEF Record
<1> HIDE DEF q
<1>8. RecordRead(q, z)
  BY <1>1, <1>5, <1>6 DEF RecordRead
<1> QED
  BY <1>7, <1>8 DEF q, n

LEMMA LockSaveKeeps == ASSUME BriefsInv, NEW p \in Procs, LockSave(p) PROVE BriefsInv'
<1>1. op[p].at = "lockSave" /\ op[p].at \in Phases /\ Finish(p) /\ UNCHANGED <<claim, file, dig, budget>>
  BY DEF LockSave, Phases
<1>a. op[p].brief \in Briefs /\ op[p].file \in File /\ op[p].claims \in Readings
  BY <1>1, Working
<1>b. PICK b \in Briefs, f \in File, cs \in Readings : b = op[p].brief /\ f = op[p].file /\ cs = op[p].claims
  BY <1>a
<1>2. TypeOK /\ op[p] # Idle /\ file[b] \in File /\ rec[b] \in Record /\ yes[b] \in Approved /\ BriefTrue(b)
      /\ Knows(op[p], file[b]) /\ held["claims"] = p
      /\ (budget.tampers = 0 => KnowsUntouched(op[p], file[b]))
  BY <1>1, <1>b, Working DEF BriefsInv, TypeOK
<1> DEFINE new == [has |-> TRUE, released |-> FALSE, signed |-> f.signed, base |-> RelockBaselines(f, cs, rec[b])]
           fresh == {c \in f.signed.rests : ~rec[b].has \/ rec[b].base[c] = None}
           z == [yes[b] EXCEPT !.signed = @ \cup {f.signed}, !.read = @ \cup {<<c, cs[c]>> : c \in fresh}]
<1>3. rec' = [rec EXCEPT ![b] = new] /\ yes' = [yes EXCEPT ![b] = z]
  BY <1>b DEF LockSave
<1>4. /\ z \in Approved /\ f.signed \in z.signed /\ yes[b].read \subseteq z.read
      /\ \A c \in fresh : <<c, cs[c]>> \in z.read
  <2>1. f.signed \in Signed /\ \A c \in fresh : c \in Claims /\ cs[c] \in Contents \cup {None}
    BY DEF File, Signed, Readings
  <2>2. yes[b].signed \cup {f.signed} \in SUBSET Signed
        /\ yes[b].read \cup {<<c, cs[c]>> : c \in fresh} \in SUBSET (Claims \X (Contents \cup {None}))
    BY <1>2, <2>1 DEF Approved
  <2> HIDE DEF fresh
  <2>3. z.signed = yes[b].signed \cup {f.signed} /\ z.read = yes[b].read \cup {<<c, cs[c]>> : c \in fresh}
    BY <1>2 DEF Approved
  <2>4. z \in Approved
    BY <1>2, <2>2 DEF Approved
  <2> QED
    BY <2>3, <2>4
<1> HIDE DEF z
<1>5. new \in Record /\ RecordRead(new, z)
  <2>1. \A c \in f.signed.rests : cs[c] # None
    BY <1>1, <1>2, <1>b DEF Knows
  <2>2. RecordRead(rec[b], yes[b])
    BY <1>2 DEF BriefTrue
  <2> QED
    BY <1>2, <1>4, <2>1, <2>2, RelockRead
<1>6. new.has = TRUE /\ new.released = FALSE
  OBVIOUS
<1> HIDE DEF new, fresh
<1>7. /\ rec' \in [Briefs -> Record] /\ yes' \in [Briefs -> Approved] /\ rec'[b] = new /\ yes'[b] = z
      /\ \A x \in Briefs \ {b} : rec'[x] = rec[x] /\ yes'[x] = yes[x]
  BY <1>2, <1>3, <1>4, <1>5 DEF TypeOK
<1>8. TypeOK'
  BY <1>1, <1>2, <1>7, FinishIdle DEF TypeOK
<1>9. \A x \in Briefs, S \in SUBSET Phases : "lockSave" \notin S \/ x # b => ~InCommand(x, S)
  BY <1>1, <1>b, Working
<1>10. \A x \in Briefs \ {b} : BriefTrue(x)'
  BY <1>1, <1>7, <1>9, BriefKept DEF Phases
<1>11. Standing(b)' /\ (checkBriefDigest(b)' <=> checkBriefDigest(b))
  BY <1>1, <1>6, <1>7 DEF Standing, checkBriefDigest
<1>12. budget.tampers = 0 => Untouched(b)'
  <2>1. ~InCommand(b, {"commentDigest"})
    BY <1>9 DEF Phases
  <2>2. budget.tampers = 0 => file[b].status = "locked" /\ Untouched(b)
    BY <1>1, <1>2, <1>b DEF KnowsUntouched, BriefTrue
  <2> QED
    BY <1>1, <1>11, <2>1, <2>2 DEF Untouched
<1>13. BriefTrue(b)'
  BY <1>1, <1>2, <1>5, <1>7, <1>12 DEF BriefTrue
<1> QED
  BY <1>1, <1>2, <1>8, <1>10, <1>13, FinishIdle, StepOf

-----------------------------------------------------------------------------
(* brief unlock and brief reaudit. *)

\* The record is released, the file still reads as before.
LEMMA UnlockKeeps == ASSUME BriefsInv, NEW p \in Procs, Unlock(p) PROVE BriefsInv'
<1>1. /\ op[p].at = "unlock" /\ op[p].at \in Phases /\ "unlockFile" \in Phases
      /\ UNCHANGED <<claim, file, dig, budget, yes>>
      /\ held' = Acquire(p, "store") /\ op' = [op EXCEPT ![p].at = "unlockFile"]
  BY DEF Unlock, Phases
<1>a. op[p].brief \in Briefs /\ op[p].file \in File /\ op[p].claims \in Readings
  BY <1>1, Working
<1>b. PICK b \in Briefs, f \in File, cs \in Readings : b = op[p].brief /\ f = op[p].file /\ cs = op[p].claims
  BY <1>a
<1>2. TypeOK /\ op[p] # Idle /\ file[b] \in File /\ rec[b] \in Record /\ yes[b] \in Approved /\ BriefTrue(b)
      /\ Knows(op[p], file[b]) /\ held["claims"] = p
      /\ (budget.tampers = 0 => KnowsUntouched(op[p], file[b]))
  BY <1>1, <1>b, Working DEF BriefsInv, TypeOK
<1> DEFINE new == IF Standing(b) THEN [rec[b] EXCEPT !.released = TRUE] ELSE rec[b]
<1>3. rec' = [rec EXCEPT ![b] = new]
  BY <1>2, <1>b DEF Unlock, TypeOK
<1>4. /\ new \in Record /\ new.has = rec[b].has /\ new.signed = rec[b].signed /\ new.base = rec[b].base
      /\ ~(new.has /\ ~new.released)
  BY <1>2 DEF Record, Standing
<1> HIDE DEF new
<1>5. rec' \in [Briefs -> Record] /\ rec'[b] = new /\ \A x \in Briefs \ {b} : rec'[x] = rec[x]
  BY <1>2, <1>3, <1>4 DEF TypeOK
<1>6. held' \in [{"claims", "store"} -> Procs \cup {None, Dead}] /\ held'["claims"] = p
  BY <1>1, <1>2 DEF TypeOK, Acquire
<1>7. TypeOK'
  BY <1>1, <1>2, <1>5, <1>6, MovesOn DEF TypeOK
<1>8. /\ op'[p].at = "unlockFile" /\ op'[p].brief = b /\ op'[p].file = f
      /\ \A x \in Briefs, S \in SUBSET Phases : InCommand(x, S)' <=> b = x /\ "unlockFile" \in S
  BY <1>1, <1>b, MovesOn
<1>9. \A x \in Briefs, S \in SUBSET Phases : "unlock" \notin S => ~InCommand(x, S)
  BY <1>1, Working
<1>10. ~Standing(b)' /\ (checkBriefDigest(b)' <=> checkBriefDigest(b))
  BY <1>1, <1>4, <1>5 DEF Standing, checkBriefDigest
<1>11. Knows(op[p], file[op[p].brief])'
  BY <1>8 DEF Knows
<1>12. budget.tampers = 0 => KnowsUntouched(op[p], file[op[p].brief])'
  <2>1. Standing(op[p].brief)' <=> Standing(b)'
    BY <1>8 DEF Standing
  <2> QED
    BY <1>1, <1>2, <1>b, <1>8, <1>10, <2>1 DEF KnowsUntouched
<1>13. ProcTrue(p)'
  BY <1>1, <1>6, <1>11, <1>12 DEF ProcTrue
<1>14. \A x \in Briefs \ {b} : BriefTrue(x)'
  BY <1>1, <1>5, <1>9, BriefKept DEF Phases
<1>15. budget.tampers = 0 => Untouched(b)'
  <2>1. ~InCommand(b, {"commentDigest"}) /\ InCommand(b, {"lockSave", "unlockFile"})'
    BY <1>8, <1>9 DEF Phases
  <2> QED
    BY <1>1, <1>2, <1>10, <2>1 DEF BriefTrue, Untouched
<1>16. BriefTrue(b)'
  BY <1>1, <1>2, <1>4, <1>5, <1>15 DEF BriefTrue, RecordRead
<1> QED
  BY <1>1, <1>2, <1>7, <1>13, <1>14, <1>16, MovesOn, StepOf

LEMMA UnlockFileKeeps == ASSUME BriefsInv, NEW p \in Procs, UnlockFile(p) PROVE BriefsInv'
<1>1. /\ op[p].at = "unlockFile" /\ op[p].at \in Phases /\ Finish(p)
      /\ UNCHANGED <<claim, rec, dig, budget, yes>>
  BY DEF UnlockFile, Phases
<1>a. op[p].brief \in Briefs /\ op[p].file \in File /\ op[p].claims \in Readings
  BY <1>1, Working
<1>b. PICK b \in Briefs, f \in File, cs \in Readings : b = op[p].brief /\ f = op[p].file /\ cs = op[p].claims
  BY <1>a
<1>2. TypeOK /\ op[p] # Idle /\ file[b] \in File /\ rec[b] \in Record /\ yes[b] \in Approved /\ BriefTrue(b)
      /\ Knows(op[p], file[b]) /\ held["claims"] = p
      /\ (budget.tampers = 0 => KnowsUntouched(op[p], file[b]))
  BY <1>1, <1>b, Working DEF BriefsInv, TypeOK
<1>3. /\ file' \in [Briefs -> File] /\ \A x \in Briefs \ {b} : file'[x] = file[x]
      /\ file'[b].here = file[b].here /\ file'[b].block = file[b].block
      /\ file'[b].status = (IF file[b] = f THEN "draft" ELSE file[b].status)
  BY <1>2, <1>b DEF UnlockFile, AsRead, TypeOK, File
<1>4. TypeOK'
  BY <1>1, <1>2, <1>3, FinishIdle DEF TypeOK
<1>5. \A x \in Briefs, S \in SUBSET Phases : "unlockFile" \notin S \/ x # b => ~InCommand(x, S)
  BY <1>1, <1>b, Working
<1>6. \A x \in Briefs \ {b} : BriefTrue(x)'
  BY <1>1, <1>3, <1>5, BriefKept DEF Phases
<1>7. (Standing(b)' <=> Standing(b)) /\ (checkBriefDigest(b)' <=> checkBriefDigest(b))
  BY <1>1, <1>3 DEF Standing, checkBriefDigest
<1>8. budget.tampers = 0 => Untouched(b)'
  <2>1. ~InCommand(b, {"commentDigest"})
    BY <1>5 DEF Phases
  <2>2. budget.tampers = 0 => ~Standing(b) /\ (budget.edits = 0 => file[b] = f) /\ Untouched(b)
    BY <1>1, <1>2, <1>b DEF KnowsUntouched, BriefTrue
  <2> QED
    BY <1>1, <1>3, <1>7, <2>1, <2>2 DEF Untouched
<1>9. BriefTrue(b)'
  BY <1>1, <1>2, <1>3, <1>8 DEF BriefTrue, HandsShow
<1> QED
  BY <1>1, <1>2, <1>4, <1>6, <1>9, FinishIdle, StepOf

\* A reaudit reads every claim again that the brief rests on.
LEMMA ReauditKeeps == ASSUME BriefsInv, NEW p \in Procs, Reaudit(p) PROVE BriefsInv'
<1>1. /\ op[p].at = "reaudit" /\ op[p].at \in Phases /\ Finish(p) /\ UNCHANGED <<claim, file, dig, budget>>
  BY DEF Reaudit, Phases
<1>a. op[p].brief \in Briefs /\ op[p].file \in File /\ op[p].claims \in Readings
  BY <1>1, Working
<1>b. PICK b \in Briefs, f \in File, cs \in Readings : b = op[p].brief /\ f = op[p].file /\ cs = op[p].claims
  BY <1>a
<1>2. TypeOK /\ op[p] # Idle /\ file[b] \in File /\ rec[b] \in Record /\ yes[b] \in Approved /\ BriefTrue(b)
      /\ Knows(op[p], file[b]) /\ held["claims"] = p
      /\ (budget.tampers = 0 => KnowsUntouched(op[p], file[b]))
  BY <1>1, <1>b, Working DEF BriefsInv, TypeOK
<1>3. \A x \in Briefs, S \in SUBSET Phases : "reaudit" \notin S => ~InCommand(x, S)
  BY <1>1, Working
<1>4. CASE UNCHANGED <<rec, yes>>
  <2>1. TypeOK'
    BY <1>1, <1>2, <1>4, FinishIdle DEF TypeOK
  <2>2. \A x \in Briefs : BriefTrue(x)'
    BY <1>1, <1>3, <1>4, BriefKept DEF Phases
  <2> QED
    BY <1>1, <1>2, <2>1, <2>2, FinishIdle, StepOf
<1>5. CASE ReauditAllowed(f, rec[b], cs) /\ rec' = [rec EXCEPT ![b].base = Baselines(f, cs)]
           /\ yes' = [yes EXCEPT ![b].read = @ \cup {<<c, cs[c]>> : c \in f.signed.rests}]
  <2> DEFINE read == {<<c, cs[c]>> : c \in f.signed.rests}
             z == [yes[b] EXCEPT !.read = @ \cup read]
             n == Baselines(f, cs)
             new == [rec[b] EXCEPT !.base = n]
  <2>1. f.signed = rec[b].signed /\ rec[b].has /\ \A c \in f.signed.rests : cs[c] # None
    BY <1>5 DEF ReauditAllowed, LockState, ContentMoved
  <2>2. f.signed.rests \subseteq Claims /\ n \in Readings /\ read \subseteq Claims \X (Contents \cup {None})
    BY DEF File, Signed, Readings, Baselines
  <2>3. \A c \in Claims : n[c] # None => c \in f.signed.rests /\ n[c] = cs[c]
    BY DEF Baselines
  <2>4. \A c \in f.signed.rests : n[c] # None /\ <<c, n[c]>> \in read
    BY <2>1, <2>2 DEF Baselines
  <2> HIDE DEF read, n
  <2>5. /\ new \in Record /\ new.has = rec[b].has /\ new.released = rec[b].released
        /\ new.signed = rec[b].signed /\ new.base = n
    BY <1>2, <2>2 DEF Record
  <2>6. z \in Approved /\ z.signed = yes[b].signed /\ z.read = yes[b].read \cup read
    BY <1>2, <2>2 DEF Approved
  <2>7. rec' = [rec EXCEPT ![b] = new] /\ yes' = [yes EXCEPT ![b] = z]
    BY <1>2, <1>5 DEF TypeOK, read, n
  <2> HIDE DEF new, z
  <2>8. /\ rec' \in [Briefs -> Record] /\ yes' \in [Briefs -> Approved] /\ rec'[b] = new /\ yes'[b] = z
        /\ \A x \in Briefs \ {b} : rec'[x] = rec[x] /\ yes'[x] = yes[x]
    BY <1>2, <2>5, <2>6, <2>7 DEF TypeOK
  <2>9. TypeOK'
    BY <1>1, <1>2, <2>8, FinishIdle DEF TypeOK
  <2>10. \A x \in Briefs \ {b} : BriefTrue(x)'
    BY <1>1, <1>3, <2>8, BriefKept DEF Phases
  <2>11. (Standing(b)' <=> Standing(b)) /\ (checkBriefDigest(b)' <=> checkBriefDigest(b))
    BY <1>1, <2>5, <2>8 DEF Standing, checkBriefDigest
  <2>12. budget.tampers = 0 => Untouched(b)'
    <3>1. ~InCommand(b, {"commentDigest"}) /\ ~InCommand(b, {"lockSave", "unlockFile"})
      BY <1>3 DEF Phases
    <3> QED
      BY <1>1, <1>2, <2>11, <3>1 DEF BriefTrue, Untouched
  <2>13. RecordRead(new, z)
    BY <1>2, <2>1, <2>3, <2>4, <2>5, <2>6 DEF BriefTrue, RecordRead
  <2>14. BriefTrue(b)'
    BY <1>1, <1>2, <2>8, <2>12, <2>13 DEF BriefTrue
  <2> QED
    BY <1>1, <1>2, <2>9, <2>10, <2>14, FinishIdle, StepOf
<1> QED
  BY <1>b, <1>4, <1>5 DEF Reaudit

-----------------------------------------------------------------------------
(* Comment operations. *)

LEMMA CommentWriteKeeps == ASSUME BriefsInv, NEW p \in Procs, CommentWrite(p) PROVE BriefsInv'
<1>1. /\ op[p].at = "comment" /\ op[p].at \in Phases /\ "commentDigest" \in Phases
      /\ UNCHANGED <<claim, rec, dig, budget, yes>>
  BY DEF CommentWrite, Phases
<1>a. op[p].brief \in Briefs /\ op[p].file \in File /\ op[p].claims \in Readings
  BY <1>1, Working
<1>b. PICK b \in Briefs, f \in File, cs \in Readings : b = op[p].brief /\ f = op[p].file /\ cs = op[p].claims
  BY <1>a
<1>2. TypeOK /\ op[p] # Idle /\ file[b] \in File /\ rec[b] \in Record /\ yes[b] \in Approved /\ BriefTrue(b)
      /\ Knows(op[p], file[b]) /\ held["claims"] = p
      /\ (budget.tampers = 0 => KnowsUntouched(op[p], file[b]))
  BY <1>1, <1>b, Working DEF BriefsInv, TypeOK
<1>3. \A x \in Briefs, S \in SUBSET Phases : "comment" \notin S => ~InCommand(x, S)
  BY <1>1, Working
<1>4. CASE Finish(p) /\ UNCHANGED file
  <2>1. TypeOK'
    BY <1>1, <1>2, <1>4, FinishIdle DEF TypeOK
  <2>2. \A x \in Briefs : BriefTrue(x)'
    BY <1>1, <1>3, <1>4, BriefKept DEF Phases
  <2> QED
    BY <1>1, <1>2, <1>4, <2>1, <2>2, FinishIdle, StepOf
<1>5. CASE file' = [file EXCEPT ![b].block = op[p].block] /\ op' = [op EXCEPT ![p].at = "commentDigest"]
           /\ held' = held
  <2>1. op[p].block \in Blocks /\ ~op[p].block.forged
    BY <1>1, <1>2 DEF Knows
  <2>2. PICK block \in Blocks : block = op[p].block
    BY <2>1
  <2>3. /\ file' \in [Briefs -> File] /\ \A x \in Briefs \ {b} : file'[x] = file[x]
        /\ file'[b].here = file[b].here /\ file'[b].block = block /\ file'[b].status = file[b].status
    BY <1>2, <1>5, <2>2 DEF TypeOK, File
  <2>4. TypeOK'
    BY <1>1, <1>2, <1>5, <2>3, MovesOn DEF TypeOK
  <2>5. /\ op'[p].at = "commentDigest" /\ op'[p].brief = b /\ op'[p].file = f /\ op'[p].block = block
        /\ \A x \in Briefs, S \in SUBSET Phases : InCommand(x, S)' <=> b = x /\ "commentDigest" \in S
    BY <1>1, <1>b, <1>5, <2>2, MovesOn
  <2>6. Knows(op[p], file[op[p].brief])'
    BY <2>1, <2>2, <2>5 DEF Knows
  <2>7. budget.tampers = 0 => KnowsUntouched(op[p], file[op[p].brief])'
    BY <1>1, <1>2, <1>b, <2>3, <2>5 DEF KnowsUntouched
  <2>8. ProcTrue(p)'
    BY <1>1, <1>2, <1>5, <2>6, <2>7 DEF ProcTrue
  <2>9. \A x \in Briefs \ {b} : BriefTrue(x)'
    BY <1>1, <1>3, <2>3, BriefKept DEF Phases
  <2>10. budget.tampers = 0 => Untouched(b)'
    <3>1. ~InCommand(b, {"lockSave", "unlockFile"}) /\ InCommand(b, {"commentDigest"})' /\ (Standing(b)' <=> Standing(b))
      BY <1>1, <1>3, <2>5 DEF Phases, Standing
    <3> QED
      BY <1>1, <1>2, <2>3, <3>1 DEF BriefTrue, Untouched
  <2>11. BriefTrue(b)'
    BY <1>1, <1>2, <2>1, <2>2, <2>3, <2>10 DEF BriefTrue, HandsShow
  <2> QED
    BY <1>1, <1>2, <1>5, <2>4, <2>8, <2>9, <2>11, MovesOn, StepOf
<1> QED
  BY <1>b, <1>4, <1>5 DEF CommentWrite

\* The digest is that of the block that was written.
LEMMA CommentDigestKeeps == ASSUME BriefsInv, NEW p \in Procs, CommentDigest(p) PROVE BriefsInv'
<1>1. /\ op[p].at = "commentDigest" /\ op[p].at \in Phases /\ Finish(p)
      /\ UNCHANGED <<claim, file, rec, budget, yes>>
  BY DEF CommentDigest, Phases
<1>a. op[p].brief \in Briefs /\ op[p].file \in File /\ op[p].claims \in Readings
  BY <1>1, Working
<1>b. PICK b \in Briefs, f \in File, cs \in Readings : b = op[p].brief /\ f = op[p].file /\ cs = op[p].claims
  BY <1>a
<1>2. TypeOK /\ op[p] # Idle /\ file[b] \in File /\ rec[b] \in Record /\ yes[b] \in Approved /\ BriefTrue(b)
      /\ Knows(op[p], file[b]) /\ held["claims"] = p
      /\ (budget.tampers = 0 => KnowsUntouched(op[p], file[b]))
  BY <1>1, <1>b, Working DEF BriefsInv, TypeOK
<1>3. op[p].block \in Blocks /\ ~op[p].block.forged
  BY <1>1, <1>2 DEF Knows
<1>4. PICK block \in Blocks : block = op[p].block
  BY <1>3
<1>5. dig' = [dig EXCEPT ![b] = [known |-> TRUE, block |-> block]]
  BY <1>b, <1>4 DEF CommentDigest
<1>6. /\ dig' \in [Briefs -> Digest] /\ dig'[b] = [known |-> TRUE, block |-> block]
      /\ \A x \in Briefs \ {b} : dig'[x] = dig[x]
  BY <1>2, <1>5 DEF TypeOK, Digest
<1>7. TypeOK'
  BY <1>1, <1>2, <1>6, FinishIdle DEF TypeOK
<1>8. \A x \in Briefs, S \in SUBSET Phases : "commentDigest" \notin S \/ x # b => ~InCommand(x, S)
  BY <1>1, <1>b, Working
<1>9. \A x \in Briefs \ {b} : BriefTrue(x)'
  BY <1>1, <1>6, <1>8, BriefKept DEF Phases
<1>10. budget.tampers = 0 => Untouched(b)'
  <2>1. ~InCommand(b, {"lockSave", "unlockFile"}) /\ (Standing(b)' <=> Standing(b))
    BY <1>1, <1>8 DEF Phases, Standing
  <2>2. budget.tampers = 0 => file[b].block = block /\ Untouched(b)
    BY <1>1, <1>2, <1>4 DEF KnowsUntouched, BriefTrue
  <2>3. budget.tampers = 0 => checkBriefDigest(b)'
    BY <1>1, <1>6, <2>2 DEF checkBriefDigest
  <2> QED
    BY <1>1, <2>1, <2>2, <2>3 DEF Untouched
<1>11. BriefTrue(b)'
  BY <1>1, <1>2, <1>3, <1>4, <1>6, <1>10 DEF BriefTrue, HandsShow
<1> QED
  BY <1>1, <1>2, <1>7, <1>9, <1>11, FinishIdle, StepOf

-----------------------------------------------------------------------------
(* Faults, editors and hands. *)

LEMMA SpendTyped ==
  ASSUME TypeOK, NEW what \in {"edits", "faults", "tampers"}, Spend(what),
         what = "edits" => budget.edits < MaxEdits,
         what = "faults" => budget.faults < MaxFaults,
         what = "tampers" => budget.tampers < MaxTampers
  PROVE  /\ budget' \in [edits: 0..MaxEdits, faults: 0..MaxFaults, tampers: 0..MaxTampers]
         /\ what # "edits" => budget'.edits = budget.edits
         /\ what # "faults" => budget'.faults = budget.faults
         /\ what # "tampers" => budget'.tampers = budget.tampers
         /\ budget'[what] = budget[what] + 1 /\ budget'[what] > 0
<1>1. budget.edits \in Nat /\ budget.faults \in Nat /\ budget.tampers \in Nat
      /\ budget \in [edits: 0..MaxEdits, faults: 0..MaxFaults, tampers: 0..MaxTampers]
  BY BriefsAssumption DEF TypeOK
<1>2. CASE what = "edits"
  BY <1>1, <1>2, BriefsAssumption DEF Spend
<1>3. CASE what = "faults"
  BY <1>1, <1>3, BriefsAssumption DEF Spend
<1>4. CASE what = "tampers"
  BY <1>1, <1>4, BriefsAssumption DEF Spend
<1> QED
  BY <1>2, <1>3, <1>4

\* A process dies, or its second write fails: a fault, after which nobody works.
LEMMA FaultKeeps == ASSUME BriefsInv, NEW p \in Procs, Crash(p) \/ WriteFails(p) PROVE BriefsInv'
<1>1. /\ budget.faults < MaxFaults /\ Spend("faults") /\ op[p] # Idle /\ op' = [op EXCEPT ![p] = Idle]
      /\ UNCHANGED <<claim, file, rec, dig, yes>>
      /\ held' \in {Release(p), [s \in DOMAIN held |-> IF held[s] = p THEN Dead ELSE held[s]]}
  BY DEF Crash, WriteFails, Finish, Idle
<1>2. TypeOK
  BY DEF BriefsInv
<1>3. held' \in [{"claims", "store"} -> Procs \cup {None, Dead}]
  BY <1>1, <1>2, ReleaseTyped DEF TypeOK
<1>4. /\ budget' \in [edits: 0..MaxEdits, faults: 0..MaxFaults, tampers: 0..MaxTampers]
      /\ budget'.faults > 0 /\ budget'.tampers = budget.tampers /\ budget'.edits = budget.edits
  BY <1>1, <1>2, SpendTyped
<1>5. op' \in [Procs -> {Idle} \cup Doing] /\ op'[p] = Idle /\ \A q \in Procs \ {p} : op'[q] = op[q]
  BY <1>1, <1>2 DEF TypeOK
<1>6. TypeOK'
  BY <1>1, <1>2, <1>3, <1>4, <1>5 DEF TypeOK
<1>7. \A b \in Briefs : BriefTrue(b)'
  BY <1>1, <1>4, BriefKept
<1>8. ProcTrue(p)'
  BY <1>5 DEF ProcTrue
<1> QED
  BY <1>1, <1>5, <1>6, <1>7, <1>8, StepOf

\* A step of nobody's command: g is what each brief file is after it.
LEMMA OutsideStep ==
  ASSUME BriefsInv, TypeOK', UNCHANGED <<rec, dig, op, yes>>,
         \A q \in Procs : held["claims"] = q => held'["claims"] = q,
         \A b \in Briefs : /\ HasOpen(file'[b].block) => HasOpen(file[b].block)
                           /\ (file[b].block.forged => DOMAIN file[b].block.threads # {})
                                 => (file'[b].block.forged => DOMAIN file'[b].block.threads # {}),
         budget'.faults = budget.faults,
         budget'.tampers = 0 =>
            /\ budget.tampers = 0 /\ (budget'.edits = 0 => budget.edits = 0)
            /\ \A b \in Briefs : /\ file'[b].here = file[b].here /\ file'[b].status = file[b].status
                                 /\ file'[b].block = file[b].block
                                 /\ budget'.edits = 0 => file'[b] = file[b]
  PROVE  BriefsInv'
<1>1. ASSUME NEW p \in Procs PROVE ProcTrue(p)'
  <2>1. ProcTrue(p) /\ op'[p] = op[p]
    BY DEF BriefsInv
  <2>2. CASE op[p] # Idle
    <3>1. op[p].brief \in Briefs
      BY <2>2 DEF BriefsInv, TypeOK, Doing
    <3>2. PICK b \in Briefs : b = op[p].brief /\ b = op'[p].brief
      BY <2>1, <3>1
    <3>3. Knows(op[p], file[op[p].brief])'
      BY <2>1, <2>2, <3>2 DEF ProcTrue, Knows
    <3>4. ASSUME budget'.tampers = 0 PROVE KnowsUntouched(op[p], file[op[p].brief])'
      <4>1. KnowsUntouched(op[p], file[b])
        BY <2>1, <2>2, <3>2, <3>4 DEF ProcTrue
      <4>2. /\ file'[b].status = file[b].status /\ file'[b].block = file[b].block
            /\ budget'.edits = 0 => budget.edits = 0 /\ file'[b] = file[b]
        BY <3>4
      <4>3. Standing(b)' <=> Standing(b)
        BY DEF Standing
      <4>4. op'[p] = op[p] /\ op[p].brief = b
        BY <2>1, <3>2
      <4> QED
        BY <4>1, <4>2, <4>3, <4>4 DEF KnowsUntouched
    <3> QED
      BY <2>1, <2>2, <3>3, <3>4 DEF ProcTrue
  <2> QED
    BY <2>1, <2>2 DEF ProcTrue
<1>2. ASSUME NEW b \in Briefs PROVE BriefTrue(b)'
  <2>1. \A S \in SUBSET Phases : InCommand(b, S)' <=> InCommand(b, S)
    BY DEF InCommand
  <2>2. BriefTrue(b) /\ (Standing(b)' <=> Standing(b))
    BY DEF BriefsInv, Standing
  <2>3. ASSUME budget'.tampers = 0 PROVE Untouched(b)'
    <3>1. /\ Untouched(b) /\ budget'.faults = budget.faults /\ (budget'.edits = 0 => budget.edits = 0)
          /\ file'[b].here = file[b].here /\ file'[b].status = file[b].status
          /\ file'[b].block = file[b].block
      BY <2>2, <2>3 DEF BriefTrue
    <3>2. checkBriefDigest(b)' <=> checkBriefDigest(b)
      BY <3>1 DEF checkBriefDigest
    <3>3. {"lockSave", "unlockFile"} \in SUBSET Phases /\ {"commentDigest"} \in SUBSET Phases
      BY DEF Phases
    <3>4. /\ InCommand(b, {"lockSave", "unlockFile"})' <=> InCommand(b, {"lockSave", "unlockFile"})
          /\ InCommand(b, {"commentDigest"})' <=> InCommand(b, {"commentDigest"})
      BY <2>1, <3>3
    <3> QED
      BY <2>2, <3>1, <3>2, <3>4 DEF Untouched
  <2> QED
    BY <2>2, <2>3 DEF BriefTrue, HandsShow
<1> QED
  BY <1>1, <1>2 DEF BriefsInv

\* A human takes the stale sentinel of a dead process away.
LEMMA RemoveStaleKeeps ==
  ASSUME BriefsInv, NEW s \in {"claims", "store"}, RemoveStale(s) PROVE BriefsInv'
<1>1. /\ held[s] = Dead /\ held' = [held EXCEPT ![s] = None]
      /\ UNCHANGED <<claim, file, rec, dig, op, budget, yes>> /\ TypeOK
  BY DEF RemoveStale, BriefsInv
<1>2. TypeOK'
  BY <1>1 DEF TypeOK
<1>3. \A q \in Procs : held["claims"] = q => held'["claims"] = q
  BY <1>1, BriefsAssumption DEF TypeOK
<1> QED
  BY <1>1, <1>2, <1>3, OutsideStep DEF BriefsInv, BriefTrue

\* An editor saves a claim: no record and no brief moves.
LEMMA EditClaimKeeps ==
  ASSUME BriefsInv, NEW c \in Claims, NEW v \in Contents \cup {None}, EditClaim(c, v) PROVE BriefsInv'
<1>1. /\ budget.edits < MaxEdits /\ Spend("edits") /\ claim' = [claim EXCEPT ![c] = v]
      /\ UNCHANGED <<file, rec, dig, held, op, yes>> /\ TypeOK
  BY DEF EditClaim, BriefsInv
<1>2. /\ budget' \in [edits: 0..MaxEdits, faults: 0..MaxFaults, tampers: 0..MaxTampers]
      /\ budget'.edits > 0 /\ budget'.faults = budget.faults /\ budget'.tampers = budget.tampers
  BY <1>1, SpendTyped
<1>3. TypeOK'
  BY <1>1, <1>2 DEF TypeOK, Readings
<1> QED
  BY <1>1, <1>2, <1>3, OutsideStep

\* An editor saves a brief: its words move, its status line and its threads do not.
LEMMA EditBriefKeeps ==
  ASSUME BriefsInv, NEW b \in Briefs, NEW s \in Signed, EditBrief(b, s) PROVE BriefsInv'
<1> DEFINE g == [file[b] EXCEPT !.signed = s]
<1>1. /\ budget.edits < MaxEdits /\ Spend("edits") /\ TypeOK /\ file[b] \in File
      /\ UNCHANGED <<claim, rec, dig, held, op, yes>>
  BY DEF EditBrief, BriefsInv, TypeOK
<1>2. /\ budget' \in [edits: 0..MaxEdits, faults: 0..MaxFaults, tampers: 0..MaxTampers]
      /\ budget'.edits > 0 /\ budget'.faults = budget.faults /\ budget'.tampers = budget.tampers
  BY <1>1, SpendTyped
<1>3. /\ g \in File /\ g.here = file[b].here /\ g.status = file[b].status /\ g.block = file[b].block
  BY <1>1 DEF File
<1>4. file' = [file EXCEPT ![b] = g]
  BY <1>1 DEF EditBrief, TypeOK
<1> HIDE DEF g
<1>5. file' \in [Briefs -> File] /\ file'[b] = g /\ \A x \in Briefs \ {b} : file'[x] = file[x]
  BY <1>1, <1>3, <1>4 DEF TypeOK
<1>6. TypeOK'
  BY <1>1, <1>2, <1>5 DEF TypeOK
<1>7. \A x \in Briefs : /\ file'[x].here = file[x].here /\ file'[x].status = file[x].status
                        /\ file'[x].block = file[x].block
  BY <1>3, <1>5
<1> QED
  BY <1>1, <1>2, <1>6, <1>7, OutsideStep

\* A change by hand: what it may not do is open a thread or forge one unseen.
LEMMA TamperKeeps ==
  ASSUME BriefsInv, NEW b \in Briefs, NEW g \in Tampered(file[b]), Tamper(b, g) PROVE BriefsInv'
<1>1. /\ budget.tampers < MaxTampers /\ Spend("tampers") /\ TypeOK /\ file[b] \in File
      /\ file' = [file EXCEPT ![b] = g] /\ UNCHANGED <<claim, rec, dig, held, op, yes>>
  BY DEF Tamper, BriefsInv, TypeOK
<1>2. /\ budget' \in [edits: 0..MaxEdits, faults: 0..MaxFaults, tampers: 0..MaxTampers]
      /\ budget'.tampers > 0 /\ budget'.faults = budget.faults
  BY <1>1, SpendTyped
<1>3. /\ g \in File /\ (HasOpen(g.block) => HasOpen(file[b].block))
      /\ (file[b].block.forged => DOMAIN file[b].block.threads # {})
            => (g.block.forged => DOMAIN g.block.threads # {})
  BY <1>1, TamperedTyped
<1>4. file' \in [Briefs -> File] /\ file'[b] = g /\ \A x \in Briefs \ {b} : file'[x] = file[x]
  BY <1>1, <1>3 DEF TypeOK
<1>5. TypeOK'
  BY <1>1, <1>2, <1>4 DEF TypeOK
<1>6. \A x \in Briefs :
         /\ HasOpen(file'[x].block) => HasOpen(file[x].block)
         /\ (file[x].block.forged => DOMAIN file[x].block.threads # {})
               => (file'[x].block.forged => DOMAIN file'[x].block.threads # {})
  BY <1>3, <1>4
<1> QED
  BY <1>1, <1>2, <1>5, <1>6, OutsideStep

-----------------------------------------------------------------------------
(* The invariant, and what follows from it. *)

\* A project starts with drafts nobody signed and without threads.
LEMMA InitBriefsInv == Init => BriefsInv
<1> SUFFICES ASSUME Init PROVE BriefsInv
  OBVIOUS
<1>1. PICK v \in First, r \in SUBSET Claims :
        /\ claim = [c \in Claims |-> v]
        /\ file = [b \in Briefs |-> [here |-> TRUE, status |-> "draft", block |-> NoThreads,
                                     signed |-> [text |-> v, rests |-> r]]]
  BY DEF Init
<1>2. v \in Contents
  BY BriefsAssumption DEF First
<1>3. NoThreads \in Blocks /\ DOMAIN NoThreads.threads = {} /\ ~NoThreads.forged
  BY EmptyTyped DEF NoThreads, Blocks
<1>4. [text |-> v, rests |-> r] \in Signed
  BY <1>2 DEF Signed
<1>5. file \in [Briefs -> File] /\ claim \in Readings
  BY <1>1, <1>2, <1>3, <1>4 DEF File, Readings
<1>6. rec = [b \in Briefs |-> NoRecord] /\ NoRecord \in Record
  BY BriefsAssumption DEF Init, NoRecord, Record, Readings
<1>7. dig \in [Briefs -> Digest] /\ \A b \in Briefs : ~dig[b].known
  BY <1>3 DEF Init, Digest
<1>8. /\ held \in [{"claims", "store"} -> Procs \cup {None, Dead}]
      /\ op = [p \in Procs |-> Idle]
      /\ budget \in [edits: 0..MaxEdits, faults: 0..MaxFaults, tampers: 0..MaxTampers]
      /\ yes \in [Briefs -> Approved]
  BY BriefsAssumption DEF Init, Approved
<1>9. TypeOK
  BY <1>5, <1>6, <1>7, <1>8 DEF TypeOK
<1>10. ASSUME NEW b \in Briefs PROVE BriefTrue(b)
  <2>1. /\ file[b].here /\ file[b].status = "draft" /\ file[b].block = NoThreads
        /\ rec[b] = NoRecord /\ ~dig[b].known
    BY <1>1, <1>6, <1>7
  <2>2. RecordRead(rec[b], yes[b])
    BY <2>1 DEF RecordRead, NoRecord
  <2>3. HandsShow(file[b], dig[b]) /\ checkBriefDigest(b) /\ ~Standing(b)
    BY <1>3, <2>1 DEF HandsShow, checkBriefDigest, Standing, NoRecord
  <2> QED
    BY <2>1, <2>2, <2>3 DEF BriefTrue, Untouched
<1> QED
  BY <1>8, <1>9, <1>10 DEF BriefsInv, ProcTrue

\* Every step keeps the invariant.
LEMMA NextBriefsInv == BriefsInv /\ [Next]_vars => BriefsInv'
<1> SUFFICES ASSUME BriefsInv, [Next]_vars PROVE BriefsInv'
  OBVIOUS
<1>1. CASE UNCHANGED vars
  <2>1. UNCHANGED <<claim, file, rec, dig, held, op, budget, yes>> /\ TypeOK'
    BY <1>1 DEF vars, BriefsInv, TypeOK
  <2> QED
    BY <2>1, OutsideStep DEF BriefsInv, BriefTrue
<1>2. ASSUME NEW p \in Procs, NEW b \in Briefs,
             \/ BeginLock(p, b) \/ BeginUnlock(p, b) \/ BeginReaudit(p, b)
             \/ \E actor \in Roles : BeginComment(p, b, actor)
      PROVE  BriefsInv'
  BY <1>2, BeginsKeep
<1>3. ASSUME NEW p \in Procs, Lock(p) \/ LockSave(p) \/ Unlock(p) \/ UnlockFile(p) \/ Reaudit(p)
      PROVE  BriefsInv'
  BY <1>3, LockKeeps, LockSaveKeeps, UnlockKeeps, UnlockFileKeeps, ReauditKeeps
<1>4. ASSUME NEW p \in Procs, CommentWrite(p) \/ CommentDigest(p) \/ Crash(p) \/ WriteFails(p)
      PROVE  BriefsInv'
  BY <1>4, CommentWriteKeeps, CommentDigestKeeps, FaultKeeps
<1>5. ASSUME NEW c \in Claims, NEW v \in Contents \cup {None}, EditClaim(c, v) PROVE BriefsInv'
  BY <1>5, EditClaimKeeps
<1>6. ASSUME NEW b \in Briefs, \/ \E s \in Signed : EditBrief(b, s)
                               \/ \E g \in Tampered(file[b]) : Tamper(b, g)
      PROVE  BriefsInv'
  <2>1. CASE \E s \in Signed : EditBrief(b, s)
    BY <2>1, EditBriefKeeps
  <2>2. CASE \E g \in Tampered(file[b]) : Tamper(b, g)
    BY <2>2, TamperKeeps
  <2> QED
    BY <1>6, <2>1, <2>2
<1>7. ASSUME NEW s \in {"claims", "store"}, RemoveStale(s) PROVE BriefsInv'
  BY <1>7, RemoveStaleKeeps
<1>8. CASE Next
  <2>1. CASE \E p \in Procs, b \in Briefs : \/ BeginLock(p, b) \/ BeginUnlock(p, b) \/ BeginReaudit(p, b)
                                            \/ \E actor \in Roles : BeginComment(p, b, actor)
    BY <2>1, <1>2
  <2>2. CASE \E p \in Procs : Lock(p) \/ LockSave(p) \/ Unlock(p) \/ UnlockFile(p) \/ Reaudit(p)
    BY <2>2, <1>3
  <2>3. CASE \E p \in Procs : CommentWrite(p) \/ CommentDigest(p) \/ Crash(p) \/ WriteFails(p)
    BY <2>3, <1>4
  <2>4. CASE \E c \in Claims, v \in Contents \cup {None} : EditClaim(c, v)
    BY <2>4, <1>5
  <2>5. CASE \E b \in Briefs : \/ \E s \in Signed : EditBrief(b, s)
                               \/ \E g \in Tampered(file[b]) : Tamper(b, g)
    BY <2>5, <1>6
  <2>6. CASE \E s \in {"claims", "store"} : RemoveStale(s)
    BY <2>6, <1>7
  <2> QED
    BY <1>8, <2>1, <2>2, <2>3, <2>4, <2>5, <2>6 DEF Next
<1> QED
  BY <1>1, <1>8

LEMMA AlwaysBriefsInv == Spec => []BriefsInv
  BY InitBriefsInv, NextBriefsInv, PTL DEF Spec

\* A brief that is locked with nothing pending reads as a human signed it, and
\* every claim it rests on as a human accepted it for this brief: the baselines
\* brief lock carries over (RelockBaselines) and brief reaudit replaces.
THEOREM BriefsCleanMeansRead == Spec => []CleanMeansRead
<1>1. ASSUME BriefsInv PROVE CleanMeansRead
  <2>1. ASSUME NEW b \in Briefs, LockState(file[b], rec[b]) = "locked",
               ~ReviewPending(file[b], rec[b], claim)
        PROVE  /\ file[b].signed \in yes[b].signed
               /\ \A c \in file[b].signed.rests : <<c, claim[c]>> \in yes[b].read
    <3>1. file[b].signed = rec[b].signed /\ rec[b].has
      BY <2>1 DEF LockState, ContentMoved
    <3>2. \A c \in Claims : rec[b].base[c] # None => claim[c] = rec[b].base[c]
      BY <2>1 DEF ReviewPending, ChangedClaims
    <3>3. file[b].signed.rests \subseteq Claims
      BY <1>1 DEF BriefsInv, TypeOK, File, Signed
    <3> QED
      BY <1>1, <3>1, <3>2, <3>3 DEF BriefsInv, BriefTrue, RecordRead
  <2> QED
    BY <2>1 DEF CleanMeansRead
<1> QED
  BY <1>1, AlwaysBriefsInv, PTL

\* What check accuses a brief of is never the work of whole commands alone: the
\* record goes before the file in brief unlock and after it in brief lock, so an
\* orphan or an abandoned record needs a hand, and an unrecorded status line or
\* an unpaired digest a fault, an editor's save or a command half done.
THEOREM BriefsHonestAudit == Spec => []HonestAudit
<1>1. ASSUME BriefsInv PROVE HonestAudit
  <2>1. TypeOK
    BY <1>1 DEF BriefsInv
  <2>2. ASSUME NEW b \in Briefs, budget.tampers = 0
        PROVE  /\ Integrity(b) \cap {"brief-orphan", "brief-abandoned"} = {}
               /\ "brief-unrecorded" \in Integrity(b)
                    => budget.faults > 0 \/ budget.edits > 0 \/ InCommand(b, {"lockSave", "unlockFile"})
               /\ budget.faults = 0 /\ DigestFindings(b) # {} => InCommand(b, {"commentDigest"})
    <3>1. Untouched(b)
      BY <1>1, <2>2 DEF BriefsInv, BriefTrue
    <3>2. budget.faults \in Nat /\ budget.edits \in Nat
      BY <2>1, BriefsAssumption DEF TypeOK
    <3>3. Integrity(b) \cap {"brief-orphan", "brief-abandoned"} = {}
      BY <3>1 DEF Untouched, Integrity
    <3>4. "brief-unrecorded" \in Integrity(b) => file[b].status = "locked" /\ ~Standing(b)
      <4>1. SUFFICES ASSUME LockState(file[b], rec[b]) = "unrecorded"
                     PROVE  file[b].status = "locked" /\ ~Standing(b)
        <5>1. Integrity(b) = {x \in {"brief-orphan"} : file[b].status # "locked" /\ Standing(b)}
                 \cup {x \in {"brief-unrecorded"} : LockState(file[b], rec[b]) = "unrecorded"}
                 \cup {x \in {"brief-content-drift"} : LockState(file[b], rec[b]) = "edited"}
          BY <3>1 DEF Untouched, Integrity
        <5> QED
          BY <5>1
      <4>2. file[b].status = "locked" /\ (~rec[b].has \/ rec[b].released)
        BY <4>1, Zenon DEF LockState
      <4> QED
        BY <4>2 DEF Standing
    <3>5. DigestFindings(b) # {} => ~checkBriefDigest(b)
      BY <3>1 DEF Untouched, DigestFindings, checkBriefDigest
    <3> QED
      BY <3>1, <3>2, <3>3, <3>4, <3>5 DEF Untouched
  <2> QED
    BY <2>1, <2>2 DEF HonestAudit, HonestRecords, DigestPaired
<1> QED
  BY <1>1, AlwaysBriefsInv, PTL

\* A block changed by hand is never recorded as the truth: the operation that
\* would record it refuses to start (checkBriefDigest).
THEOREM BriefsNeverLaundered == Spec => []NeverLaundered
<1>1. BriefsInv => NeverLaundered
  BY DEF BriefsInv, BriefTrue, HandsShow, NeverLaundered
<1> QED
  BY <1>1, AlwaysBriefsInv, PTL

\* The previews of brief lock and brief reaudit admit exactly what the commands do.
THEOREM BriefsDryRunTells == Spec => []DryRunTells
<1>1. DryRunTells
  BY DEF DryRunTells, briefLockDryRun, briefReauditDryRun, AlreadyLocked, Standing, ReauditAllowed,
         LockState, ReviewPending
<1> QED
  BY <1>1, PTL

\* An approval is recorded over no open thread: the claims sentinel, held from the
\* look at the threads to the save of the record, keeps every comment operation out.
THEOREM BriefsNoOpenThreadSigned == Spec => NoOpenThreadSigned
<1>1. BriefsInv /\ [Next]_vars
         => [\A b \in Briefs : /\ rec'[b] # rec[b] /\ ~rec'[b].released
                               /\ file[b].here
                               => ~HasOpen(file[b].block)]_vars
  <2> SUFFICES ASSUME BriefsInv, [Next]_vars, NEW c \in Briefs, rec'[c] # rec[c], ~rec'[c].released
               PROVE  ~HasOpen(file[c].block)
    OBVIOUS
  <2>2. ASSUME NEW p \in Procs, LockSave(p) PROVE ~HasOpen(file[c].block)
    <3>1. op[p].at = "lockSave" /\ op[p].at \in Phases /\ \A b \in Briefs \ {op[p].brief} : rec'[b] = rec[b]
      BY <2>2 DEF LockSave, Phases, BriefsInv, TypeOK
    <3>2. ~HasOpen(file[op[p].brief].block)
      BY <3>1, Working DEF Knows
    <3> QED
      BY <3>1, <3>2
  <2>3. ASSUME NEW p \in Procs, Unlock(p) PROVE ~HasOpen(file[c].block)
    <3>1. op[p].at \in Phases /\ \A b \in Briefs \ {op[p].brief} : rec'[b] = rec[b]
      BY <2>3 DEF Unlock, Phases, BriefsInv, TypeOK
    <3>2. op[p].brief \in Briefs /\ rec \in [Briefs -> Record]
      BY <3>1, Working DEF BriefsInv, TypeOK
    <3>3. rec'[op[p].brief] = rec[op[p].brief] \/ rec'[op[p].brief].released
      BY <2>3, <3>2 DEF Unlock, Record
    <3> QED
      BY <3>1, <3>3
  <2>4. ASSUME NEW p \in Procs, Reaudit(p) PROVE ~HasOpen(file[c].block)
    <3>1. op[p].at = "reaudit" /\ op[p].at \in Phases /\ \A b \in Briefs \ {op[p].brief} : rec'[b] = rec[b]
      BY <2>4 DEF Reaudit, Phases, BriefsInv, TypeOK
    <3>2. HasOpen(file[op[p].brief].block) => HasOpen(op[p].file.block)
      BY <3>1, Working DEF Knows
    <3>3. UNCHANGED rec \/ ~HasOpen(op[p].file.block)
      BY <2>4 DEF Reaudit, ReauditAllowed
    <3> QED
      BY <3>1, <3>2, <3>3
  <2>5. CASE \E p \in Procs : LockSave(p) \/ Unlock(p) \/ Reaudit(p)
    BY <2>2, <2>3, <2>4, <2>5
  <2>6. ASSUME NEW p \in Procs, NEW b \in Briefs,
               \/ BeginLock(p, b) \/ BeginUnlock(p, b) \/ BeginReaudit(p, b)
               \/ \E actor \in Roles : BeginComment(p, b, actor)
        PROVE  UNCHANGED rec
    BY <2>6 DEF BeginLock, BeginUnlock, BeginReaudit, BeginComment, Begin
  <2>7. ASSUME NEW p \in Procs, \/ Lock(p) \/ UnlockFile(p) \/ CommentWrite(p) \/ CommentDigest(p)
                                \/ Crash(p) \/ WriteFails(p)
        PROVE  UNCHANGED rec
    BY <2>7 DEF Lock, UnlockFile, CommentWrite, CommentDigest, Crash, WriteFails
  <2>8. CASE \/ \E x \in Claims, v \in Contents \cup {None} : EditClaim(x, v)
             \/ \E b \in Briefs : \/ \E s \in Signed : EditBrief(b, s)
                                  \/ \E g \in Tampered(file[b]) : Tamper(b, g)
             \/ \E s \in {"claims", "store"} : RemoveStale(s)
    BY <2>8 DEF EditClaim, EditBrief, Tamper, RemoveStale
  <2>9. UNCHANGED vars => UNCHANGED rec
    BY DEF vars
  <2>10. ~UNCHANGED rec
    OBVIOUS
  <2> QED
    BY <2>5, <2>6, <2>7, <2>8, <2>9, <2>10, Zenon DEF Next
<1> QED
  BY <1>1, AlwaysBriefsInv, PTL DEF Spec, NoOpenThreadSigned
=============================================================================
