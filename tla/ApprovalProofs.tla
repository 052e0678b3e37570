--------------------------- MODULE ApprovalProofs ---------------------------
(* Theorems about Approval, for every set of processes and claims, every     *)
(* dependency relation and every budget of edits, crashes and faults.        *)
EXTENDS Approval, TLAPS

-----------------------------------------------------------------------------
(* The operators keep their types. *)

\* The memory of a process that runs no command.
LEMMA BlankTyped == Blank \in Memory /\ Fits("idle", Blank)
  BY ValuesAssumption DEF Blank, Memory, Fits, ClaimsHeld, StoreHeld, Labels

\* RefreshBaseline changes the baselines and the stamp of c and nothing else.
LEMMA RefreshTyped ==
  ASSUME NEW st \in LockStore, NEW c \in Claims, NEW fs \in Files
  PROVE  /\ RefreshBaseline(st, c, fs) \in LockStore
         /\ RefreshBaseline(st, c, fs).rec = st.rec
         /\ RefreshBaseline(st, c, fs).roof = st.roof
         /\ RefreshBaseline(st, c, fs).lockedAt = st.lockedAt \cup {c}
         /\ \A d \in Claims \ {c} : RefreshBaseline(st, c, fs).base[d] = st.base[d]
<1> DEFINE new == [d \in Claims |-> IF d \in RestsOn[c] THEN ContentHash(fs[d]) ELSE st.base[c][d]]
<1>1. st.base \in [Claims -> [Claims -> Bodies \cup {None}]]
  BY DEF LockStore
<1>2. \A d \in Claims : ContentHash(fs[d]) \in Bodies
  BY DEF Files, ClaimFile, ContentHash
<1>3. new \in [Claims -> Bodies \cup {None}]
  BY <1>1, <1>2
<1> HIDE DEF new
<1>4. [st.base EXCEPT ![c] = new] \in [Claims -> [Claims -> Bodies \cup {None}]]
  BY <1>1, <1>3
<1>5. RefreshBaseline(st, c, fs) =
        [st EXCEPT !.base = [st.base EXCEPT ![c] = new], !.lockedAt = st.lockedAt \cup {c}]
  BY DEF RefreshBaseline, LockStore, new
<1> DEFINE upd == [st.base EXCEPT ![c] = new]
<1> HIDE DEF upd
<1>6. RefreshBaseline(st, c, fs) = [rec |-> st.rec, base |-> upd,
                                    lockedAt |-> st.lockedAt \cup {c}, roof |-> st.roof]
  BY <1>5 DEF LockStore, upd
<1>7. upd \in [Claims -> [Claims -> Bodies \cup {None}]]
  BY <1>4 DEF upd
<1>8. \A d \in Claims \ {c} : upd[d] = st.base[d]
  BY <1>1 DEF upd
<1> QED
  BY <1>6, <1>7, <1>8 DEF LockStore

\* What LockedClaimHash signs of a claim file.
LEMMA HashTyped == ASSUME NEW f \in ClaimFile PROVE LockedClaimHash(f) \in Contents
  BY DEF ClaimFile, LockedClaimHash, Contents

\* RecordApproval gives c a standing record and touches no other part of the store.
LEMMA RecordTyped ==
  ASSUME NEW st \in LockStore, NEW c \in Claims, NEW f \in ClaimFile
  PROVE  /\ RecordApproval(st, c, f) \in LockStore
         /\ RecordApproval(st, c, f).rec[c] = [hash |-> LockedClaimHash(f), released |-> FALSE]
         /\ \A d \in Claims \ {c} : RecordApproval(st, c, f).rec[d] = st.rec[d]
         /\ RecordApproval(st, c, f).base = st.base
         /\ RecordApproval(st, c, f).lockedAt = st.lockedAt
         /\ RecordApproval(st, c, f).roof = st.roof
  BY HashTyped DEF LockStore, RecordApproval, LedgerRecord

\* ReleaseApproval neither creates nor deletes a record.
LEMMA ReleaseTyped ==
  ASSUME NEW st \in LockStore, NEW c \in Claims
  PROVE  /\ ReleaseApproval(st, c) \in LockStore
         /\ \A d \in Claims \ {c} : ReleaseApproval(st, c).rec[d] = st.rec[d]
         /\ (ReleaseApproval(st, c).rec[c] = None) <=> (st.rec[c] = None)
         /\ ReleaseApproval(st, c).base = st.base
         /\ ReleaseApproval(st, c).lockedAt = st.lockedAt
         /\ ReleaseApproval(st, c).roof = st.roof
<1>1. CASE st.rec[c] = None
  BY <1>1 DEF ReleaseApproval
<1>2. CASE st.rec[c] # None
  <2> DEFINE r == [hash |-> st.rec[c].hash, released |-> TRUE]
  <2>1. st.rec \in [Claims -> LedgerRecord \cup {None}]
    BY DEF LockStore
  <2>a. st.rec[c].hash \in Contents
    BY <1>2, <2>1 DEF LedgerRecord
  <2>b. r \in LedgerRecord
    BY <2>a DEF LedgerRecord
  <2>2. r \in LedgerRecord /\ r # None
    BY <2>b, NoneAssumption
  <2> HIDE DEF r
  <2>3. ReleaseApproval(st, c) = [st EXCEPT !.rec = [st.rec EXCEPT ![c] = r]]
    BY <1>2 DEF ReleaseApproval, LockStore, r
  <2>4. [st.rec EXCEPT ![c] = r] \in [Claims -> LedgerRecord \cup {None}]
    BY <2>1, <2>2
  <2> QED
    BY <1>2, <2>1, <2>2, <2>3, <2>4 DEF LockStore
<1> QED
  BY <1>1, <1>2

\* The comment-digest sweep leaves a digest store.
LEMMA SweepTyped ==
  ASSUME NEW fs, NEW st, NEW dg \in [Claims -> Blocks \cup {None}]
  PROVE  Sweep(fs, st, dg) \in [Claims -> Blocks \cup {None}]
  BY DEF Sweep, Blocks, NoThreads, ThreadStates

-----------------------------------------------------------------------------
(* The shapes a step has. *)

\* A step of p leaves the other processes where they were.
LEMMA GotoTyped ==
  ASSUME TypeOK, MemoryFits, NEW p \in Procs, NEW l \in Labels, NEW m \in Memory,
         Fits(l, m), Goto(p, l, m)
  PROVE  /\ pc' \in [Procs -> Labels] /\ mem' \in [Procs -> Memory] /\ MemoryFits'
         /\ pc'[p] = l /\ mem'[p] = m
         /\ \A q \in Procs \ {p} : pc'[q] = pc[q] /\ mem'[q] = mem[q]
<1>1. /\ pc' \in [Procs -> Labels] /\ mem' \in [Procs -> Memory]
      /\ pc'[p] = l /\ mem'[p] = m
      /\ \A q \in Procs \ {p} : pc'[q] = pc[q] /\ mem'[q] = mem[q]
  BY DEF TypeOK, Goto
<1>2. MemoryFits'
  BY <1>1 DEF MemoryFits
<1> QED
  BY <1>1, <1>2

\* Taking a sentinel changes that sentinel only.
LEMMA TakeTyped ==
  ASSUME TypeOK, NEW p \in Procs, NEW s \in Sentinels, Take(s, p)
  PROVE  /\ holder' \in [Sentinels -> Procs \cup {None, Stale}]
         /\ holder[s] = None /\ holder'[s] = p
         /\ \A r \in Sentinels \ {s} : holder'[r] = holder[r]
  BY DEF TypeOK, Take, Free

\* A command that returns releases no sentinel of another process.
LEMMA EndTyped ==
  ASSUME TypeOK, MemoryFits, NEW p \in Procs, End(p)
  PROVE  /\ pc' \in [Procs -> Labels] /\ mem' \in [Procs -> Memory] /\ MemoryFits'
         /\ holder' \in [Sentinels -> Procs \cup {None, Stale}]
         /\ pc'[p] = "idle"
         /\ \A q \in Procs \ {p} : pc'[q] = pc[q] /\ mem'[q] = mem[q]
         /\ \A s \in Sentinels, q \in Procs \ {p} : holder[s] = q => holder'[s] = q
<1>1. Goto(p, "idle", Blank) /\ "idle" \in Labels
  BY DEF End, Labels
<1>2. /\ holder' \in [Sentinels -> Procs \cup {None, Stale}]
      /\ \A s \in Sentinels, q \in Procs \ {p} : holder[s] = q => holder'[s] = q
  BY DEF End, TypeOK
<1> QED
  BY <1>1, <1>2, GotoTyped, BlankTyped

\* A failed write is paid for from the budget.
LEMMA FaultTyped == ASSUME TypeOK, Fault PROVE budget' \in Budgets
  BY BoundsAssumption DEF TypeOK, Fault, Budgets

\* The best-effort digest write of an approval, done or failed.
LEMMA RecordDigestTyped ==
  ASSUME TypeOK, NEW c \in Claims, NEW block \in Blocks, RecordDigest(c, block)
  PROVE  digest' \in [Claims -> Blocks \cup {None}] /\ budget' \in Budgets
  BY FaultTyped DEF TypeOK, RecordDigest

\* The best-effort digest write of the sweep, done or failed.
LEMMA SweepDigestTyped ==
  ASSUME TypeOK, NEW fs, SweepDigest(fs)
  PROVE  digest' \in [Claims -> Blocks \cup {None}] /\ budget' \in Budgets
  BY FaultTyped, SweepTyped DEF TypeOK, SweepDigest

-----------------------------------------------------------------------------
(* What a step owes the invariant. *)

\* The part of TypeOK that is not about processes.
DataOK ==
    /\ file \in Files /\ store \in LockStore /\ roof \in Constitution
    /\ digest \in [Claims -> Blocks \cup {None}]
    /\ flags \in [Claims -> Bodies \cup {None}]
    /\ budget \in Budgets
    /\ approved \in [Claims -> SUBSET Contents]

\* A step of p to label l with memory m: the other processes keep what they
\* hold, so only p's own obligations remain.
LEMMA GotoKeeps ==
  ASSUME IInv, NEW p \in Procs, NEW l \in Labels, NEW m \in Memory,
         Fits(l, m), Goto(p, l, m),
         holder' \in [Sentinels -> Procs \cup {None, Stale}],
         \A s \in Sentinels, q \in Procs \ {p} : holder[s] = q => holder'[s] = q,
         l \in StoreHeld => /\ holder'["store"] = p
                            /\ Link(l, m, store') /\ ReleaseLink(l, m, store', file'),
         l \in ClaimsHeld => holder'["claims"] = p,
         DataOK', NeverLooksDeleted',
         store' = store \/ holder["store"] = p,
         file' = file \/ holder["claims"] = p
  PROVE  IInv'
<1>1. /\ pc' \in [Procs -> Labels] /\ mem' \in [Procs -> Memory] /\ MemoryFits'
      /\ pc'[p] = l /\ mem'[p] = m
      /\ \A q \in Procs \ {p} : pc'[q] = pc[q] /\ mem'[q] = mem[q]
  BY GotoTyped DEF IInv
<1>2. TypeOK'
  BY <1>1 DEF TypeOK, DataOK
<1>3. \A q \in Procs \ {p} : pc[q] \in StoreHeld => holder["store"] = q /\ store' = store
  BY DEF IInv, StoreGuarded
<1>4. \A q \in Procs \ {p} : pc[q] \in ClaimsHeld => holder["claims"] = q /\ file' = file
  BY DEF IInv, ClaimsGuarded
<1>5. StoreGuarded'
  BY <1>1, <1>3 DEF IInv, StoreGuarded, Sentinels
<1>6. ClaimsGuarded'
  BY <1>1, <1>4 DEF IInv, ClaimsGuarded, Sentinels
<1>7. ReleaseGuarded'
  <2> SUFFICES ASSUME NEW q \in Procs, pc'[q] \in StoreHeld
               PROVE  ReleaseLink(pc'[q], mem'[q], store', file')
    BY DEF ReleaseGuarded
  <2>1. CASE q = p
    BY <1>1, <2>1
  <2>2. CASE q # p
    <3>1. ReleaseLink(pc[q], mem[q], store, file) /\ store' = store
      BY <1>1, <1>3, <2>2 DEF IInv, ReleaseGuarded
    <3>2. pc[q] = "unlock.save" => file' = file
      BY <1>4, <2>2 DEF ClaimsHeld, Labels
    <3> QED
      BY <1>1, <2>2, <3>1, <3>2 DEF ReleaseLink
  <2> QED
    BY <2>1, <2>2
<1> QED
  BY <1>1, <1>2, <1>5, <1>6, <1>7 DEF IInv

\* An idle process holds no sentinel.
LEMMA IdleHoldsNothing == "idle" \in Labels /\ "idle" \notin StoreHeld /\ "idle" \notin ClaimsHeld
  BY DEF Labels, StoreHeld, ClaimsHeld

\* A command that returns, having saved at most what it held the sentinel for.
LEMMA EndKeeps ==
  ASSUME IInv, NEW p \in Procs, End(p), DataOK', NeverLooksDeleted',
         store' = store \/ holder["store"] = p,
         file' = file \/ holder["claims"] = p
  PROVE  IInv'
<1>1. Goto(p, "idle", Blank)
  BY DEF End
<1>2. /\ holder' \in [Sentinels -> Procs \cup {None, Stale}]
      /\ \A s \in Sentinels, q \in Procs \ {p} : holder[s] = q => holder'[s] = q
  BY EndTyped DEF IInv
<1> QED
  BY <1>1, <1>2, GotoKeeps, BlankTyped, IdleHoldsNothing

\* A step that leaves the processes alone.
LEMMA OutsideKeeps ==
  ASSUME IInv, pc' = pc, mem' = mem, store' = store,
         holder' \in [Sentinels -> Procs \cup {None, Stale}],
         \A s \in Sentinels, q \in Procs : holder[s] = q => holder'[s] = q,
         DataOK',
         \A c \in Claims : file'[c].status = file[c].status
  PROVE  IInv'
<1>1. TypeOK' /\ MemoryFits'
  BY DEF IInv, TypeOK, DataOK, MemoryFits
<1>2. StoreGuarded' /\ ClaimsGuarded'
  BY DEF IInv, StoreGuarded, ClaimsGuarded, Sentinels
<1>3. ReleaseGuarded'
  BY DEF IInv, ReleaseGuarded, ReleaseLink
<1>4. NeverLooksDeleted'
  BY DEF IInv, NeverLooksDeleted
<1> QED
  BY <1>1, <1>2, <1>3, <1>4 DEF IInv

\* The invariant types the files.
LEMMA IInvData == ASSUME IInv PROVE DataOK
  BY DEF IInv, TypeOK, DataOK

\* The invariant types what a command remembers.
LEMMA MemTyped ==
  ASSUME IInv, NEW p \in Procs
  PROVE  mem[p] \in Memory /\ pc[p] \in Labels /\ Fits(pc[p], mem[p])
  BY DEF IInv, TypeOK, MemoryFits

\* Taking a free sentinel takes it from nobody.
LEMMA TakeKeeps ==
  ASSUME IInv, NEW p \in Procs, NEW s \in Sentinels, Take(s, p)
  PROVE  /\ holder' \in [Sentinels -> Procs \cup {None, Stale}]
         /\ holder'[s] = p
         /\ \A r \in Sentinels \ {s} : holder'[r] = holder[r]
         /\ \A r \in Sentinels, q \in Procs : holder[r] = q => holder'[r] = q
  BY TakeTyped, ProcsAssumption DEF IInv

\* Saving one claim file.
LEMMA SaveTyped ==
  ASSUME IInv, NEW p \in Procs, NEW c \in Claims, NEW f \in ClaimFile,
         file' = [file EXCEPT ![c] = f]
  PROVE  file' \in Files
  BY DEF IInv, TypeOK, Files

-----------------------------------------------------------------------------
(* claim lock. *)

\* claim lock --dry-run takes no sentinel and writes nothing.
LEMMA PreviewKeeps ==
  ASSUME IInv, NEW p \in Procs, NEW B \in Batches, Preview(p, B) PROVE IInv'
<1> DEFINE pr == [c \in Claims |-> IF c \in Closure(B) THEN LockedClaimHash(file[c]) ELSE None]
<1> DEFINE m == [Blank EXCEPT !.ids = B, !.prop = pr]
<1>1. pr \in [Claims -> Contents \cup {None}]
  BY HashTyped DEF IInv, TypeOK, Files
<1>2. B \in SUBSET Claims
  BY ClaimsAssumption
<1>3. m \in Memory
  <2> HIDE DEF pr
  <2> QED BY <1>1, <1>2, BlankTyped DEF Memory
<1>4. "reviewed" \in Labels /\ "reviewed" \notin StoreHeld /\ "reviewed" \notin ClaimsHeld
      /\ Fits("reviewed", m)
  BY DEF Labels, StoreHeld, ClaimsHeld, Fits
<1>5. Goto(p, "reviewed", m) /\ UNCHANGED <<file, store, digest, flags, roof, holder, budget, approved>>
  BY DEF Preview
<1>6. DataOK' /\ NeverLooksDeleted'
  BY <1>5, IInvData DEF DataOK, IInv, NeverLooksDeleted
<1>7. holder' \in [Sentinels -> Procs \cup {None, Stale}] /\ holder' = holder
  BY <1>5 DEF IInv, TypeOK
<1> HIDE DEF m
<1> QED
  BY <1>3, <1>4, <1>5, <1>6, <1>7, GotoKeeps

\* The set lock takes the claims sentinel and loads the claims.
LEMMA LockLoadKeeps ==
  ASSUME IInv, NEW p \in Procs, LockLoad(p) PROVE IInv'
<1> DEFINE m == [mem[p] EXCEPT !.snap = file]
<1>1. m \in Memory /\ m.snap \in Files
  BY MemTyped, IInvData DEF Memory, DataOK
<1>2. "lock.store" \in Labels /\ "lock.store" \notin StoreHeld /\ Fits("lock.store", m)
  BY <1>1 DEF Labels, StoreHeld, ClaimsHeld, Fits
<1>3. Goto(p, "lock.store", m) /\ Take("claims", p)
      /\ UNCHANGED <<file, store, digest, flags, roof, budget, approved>>
  BY DEF LockLoad
<1>4. DataOK' /\ NeverLooksDeleted'
  BY <1>3, IInvData DEF DataOK, IInv, NeverLooksDeleted
<1> HIDE DEF m
<1> QED
  BY <1>1, <1>2, <1>3, <1>4, GotoKeeps, TakeKeeps DEF Sentinels

\* The set lock takes the store sentinel: what it may save starts as what is on disk.
LEMMA LockAdmitKeeps ==
  ASSUME IInv, NEW p \in Procs, LockAdmit(p) PROVE IInv'
<1> DEFINE m == [mem[p] EXCEPT !.left = mem[p].ids, !.tok = file,
                               !.st = store, !.raw = store, !.dg = digest]
<1>1. pc[p] = "lock.store" /\ mem[p] \in Memory /\ mem[p].snap \in Files
  BY MemTyped DEF LockAdmit, Fits, ClaimsHeld, Labels
<1>2. m \in Memory /\ m.st = store /\ m.raw = store /\ m.snap = mem[p].snap
  BY <1>1, IInvData DEF Memory, DataOK
<1>3. "lock.write" \in Labels /\ "lock.write" \in StoreHeld /\ Fits("lock.write", m)
  BY <1>1, <1>2, IInvData DEF Labels, StoreHeld, ClaimsHeld, Fits, DataOK
<1>4. Goto(p, "lock.write", m) /\ Take("store", p)
      /\ UNCHANGED <<file, store, digest, flags, roof, budget>>
  BY DEF LockAdmit
<1>5. approved' \in [Claims -> SUBSET Contents]
  <2>1. \A c \in Claims : LockedClaimHash(mem[p].snap[c]) \in Contents
    BY <1>1, HashTyped DEF Files
  <2> QED BY <2>1, IInvData DEF LockAdmit, DataOK
<1>6. DataOK' /\ NeverLooksDeleted'
  BY <1>4, <1>5, IInvData DEF DataOK, IInv, NeverLooksDeleted
<1>7. Link("lock.write", m, store')
  BY <1>2, <1>4 DEF Link, IInv, NeverLooksDeleted
<1>8. ReleaseLink("lock.write", m, store', file')
  BY <1>2, <1>4 DEF ReleaseLink, Standing
<1>9. holder["claims"] = p
  BY <1>1 DEF IInv, ClaimsGuarded, ClaimsHeld, Labels
<1> HIDE DEF m
<1> QED
  BY <1>2, <1>3, <1>4, <1>6, <1>7, <1>8, <1>9, GotoKeeps, TakeKeeps DEF Sentinels

\* A command that returns having written at most the digest store.
LEMMA QuietEnd ==
  ASSUME IInv, NEW p \in Procs, End(p), UNCHANGED <<file, store, flags, roof, approved>>,
         digest' \in [Claims -> Blocks \cup {None}], budget' \in Budgets
  PROVE  IInv'
<1>1. DataOK' /\ NeverLooksDeleted'
  BY IInvData DEF DataOK, IInv, NeverLooksDeleted
<1> QED
  BY <1>1, EndKeeps

\* The set lock moves to another of its labels with the same stores in memory.
LEMMA LockMoves ==
  ASSUME IInv, NEW p \in Procs,
         pc[p] \in {"lock.write", "lock.sign", "lock.save", "lock.undo"},
         NEW l \in {"lock.write", "lock.sign", "lock.save", "lock.undo"},
         NEW left \in SUBSET Claims, Goto(p, l, [mem[p] EXCEPT !.left = left]),
         DataOK', UNCHANGED <<store, holder>>
  PROVE  IInv'
<1> DEFINE m == [mem[p] EXCEPT !.left = left]
<1>1. pc[p] \in StoreHeld /\ pc[p] \in ClaimsHeld /\ l \in Labels /\ l \in StoreHeld /\ l \in ClaimsHeld
  BY DEF StoreHeld, ClaimsHeld, Labels
<1>2. mem[p] \in Memory /\ Fits(pc[p], mem[p]) /\ Link(pc[p], mem[p], store)
      /\ ReleaseLink(pc[p], mem[p], store, file) /\ holder["store"] = p /\ holder["claims"] = p
  BY <1>1, MemTyped DEF IInv, StoreGuarded, ClaimsGuarded, ReleaseGuarded
<1>3. m \in Memory /\ m.snap = mem[p].snap /\ m.st = mem[p].st /\ m.raw = mem[p].raw
  BY <1>2 DEF Memory
<1>4. Fits(l, m)
  BY <1>1, <1>2, <1>3 DEF Fits
<1>5. Link(l, m, store')
  BY <1>2, <1>3 DEF Link
<1>6. ReleaseLink(l, m, store', file')
  BY <1>2, <1>3 DEF ReleaseLink
<1>7. NeverLooksDeleted' /\ holder' \in [Sentinels -> Procs \cup {None, Stale}]
  BY DEF IInv, NeverLooksDeleted, TypeOK
<1> HIDE DEF m
<1>8. Goto(p, l, m)
  BY DEF m
<1> QED
  BY <1>1, <1>2, <1>3, <1>4, <1>5, <1>6, <1>7, <1>8, GotoKeeps

\* A refused set lock writes nothing.
LEMMA LockRefuseKeeps == ASSUME IInv, NEW p \in Procs, LockRefuse(p) PROVE IInv'
  BY QuietEnd DEF LockRefuse, IInv, TypeOK

\* A member is written under its token; the stores in memory do not change.
LEMMA LockWriteKeeps ==
  ASSUME IInv, NEW p \in Procs, NEW c \in Claims, LockWrite(p, c) PROVE IInv'
<1>1. pc[p] = "lock.write" /\ mem[p] \in Memory /\ mem[p].snap \in Files
      /\ mem[p].left \in SUBSET Claims /\ mem[p].ids \in SUBSET Claims
  BY MemTyped DEF LockWrite, Fits, ClaimsHeld, Labels, Memory
<1>2. Locked(mem[p].snap[c]) \in ClaimFile
  BY <1>1 DEF Locked, Files, ClaimFile
<1>3. file' \in Files
  BY <1>2, SaveTyped DEF LockWrite, SaveClaimIfUnchanged
<1>4. DataOK' /\ UNCHANGED <<store, holder>>
  BY <1>3, IInvData DEF LockWrite, DataOK
<1>5. PICK l \in {"lock.write", "lock.sign"}, left \in SUBSET Claims :
         Goto(p, l, [mem[p] EXCEPT !.left = left])
  BY <1>1 DEF LockWrite, LoopNext
<1> QED
  BY <1>1, <1>4, <1>5, LockMoves

\* A refused or failed write of a member starts the rollback.
LEMMA LockWriteFailsKeeps ==
  ASSUME IInv, NEW p \in Procs, NEW c \in Claims, LockWriteFails(p, c) PROVE IInv'
<1>1. pc[p] = "lock.write" /\ mem[p].ids \in SUBSET Claims
  BY MemTyped DEF LockWriteFails, Memory
<1>2. budget' \in Budgets
  BY FaultTyped DEF LockWriteFails, IInv, TypeOK
<1>3. DataOK' /\ UNCHANGED <<store, holder>>
  BY <1>2, IInvData DEF LockWriteFails, DataOK
<1>4. mem[p].ids \ mem[p].left \in SUBSET Claims
      /\ Goto(p, "lock.undo", [mem[p] EXCEPT !.left = mem[p].ids \ mem[p].left])
  BY <1>1 DEF LockWriteFails
<1> QED
  BY <1>1, <1>3, <1>4, LockMoves

\* The rollback rewrites a claim file under the claims sentinel.
LEMMA LockUndoKeeps ==
  ASSUME IInv, NEW p \in Procs, NEW c \in Claims, LockUndo(p, c) PROVE IInv'
<1>1. pc[p] = "lock.undo" /\ mem[p].left \in SUBSET Claims /\ mem[p].snap \in Files
  BY MemTyped DEF LockUndo, Memory, Fits, ClaimsHeld, Labels
<1>2. file' \in Files
  BY <1>1, IInvData, SaveTyped DEF LockUndo, DataOK, Files
<1>3. budget' \in Budgets
  BY FaultTyped DEF LockUndo, IInv, TypeOK
<1>4. DataOK' /\ UNCHANGED <<store, holder>>
  BY <1>2, <1>3, IInvData DEF LockUndo, DataOK
<1>5. mem[p].left \ {c} \in SUBSET Claims
      /\ Goto(p, "lock.undo", [mem[p] EXCEPT !.left = mem[p].left \ {c}])
  BY <1>1 DEF LockUndo
<1> QED
  BY <1>1, <1>4, <1>5, LockMoves

\* A failed save of the lock store starts the rollback.
LEMMA LockSaveFailsKeeps == ASSUME IInv, NEW p \in Procs, LockSaveFails(p) PROVE IInv'
<1>1. pc[p] = "lock.save" /\ mem[p] \in Memory /\ mem[p].left \in SUBSET Claims
  BY MemTyped DEF LockSaveFails, Memory
<1>2. budget' \in Budgets
  BY FaultTyped DEF LockSaveFails, IInv
<1>3. DataOK' /\ UNCHANGED <<store, holder>>
  BY <1>2, IInvData DEF LockSaveFails, DataOK
<1>4. mem[p] = [mem[p] EXCEPT !.left = mem[p].left]
  BY <1>1 DEF Memory
<1>5. Goto(p, "lock.undo", [mem[p] EXCEPT !.left = mem[p].left])
  BY <1>4 DEF LockSaveFails
<1> QED
  BY <1>1, <1>3, <1>5, LockMoves

\* The record of c is written into a store that had every record of s.
LEMMA SignLinks ==
  ASSUME NEW st \in LockStore, NEW s \in LockStore, NEW c \in Claims,
         NEW f \in ClaimFile, NEW fs \in Files,
         \A d \in Claims : s.rec[d] # None => st.rec[d] # None,
         \A d \in Claims : ~LedgerRecordDeleted(st, d)
  PROVE  LET t == RecordApproval(RefreshBaseline(st, c, fs), c, f) IN
         /\ t \in LockStore /\ t.roof = st.roof
         /\ \A d \in Claims : s.rec[d] # None => t.rec[d] # None
         /\ \A d \in Claims : ~LedgerRecordDeleted(t, d)
         /\ \A d \in Claims : t.rec[d] # None /\ t.rec[d].released => t.rec[d] = st.rec[d]
<1> DEFINE u == RefreshBaseline(st, c, fs)
           t == RecordApproval(u, c, f)
<1>1. u \in LockStore /\ u.rec = st.rec /\ u.roof = st.roof /\ u.lockedAt = st.lockedAt \cup {c}
      /\ \A d \in Claims \ {c} : u.base[d] = st.base[d]
  BY RefreshTyped
<1> HIDE DEF u
<1>2. /\ t \in LockStore
      /\ t.rec[c] = [hash |-> LockedClaimHash(f), released |-> FALSE]
      /\ \A d \in Claims \ {c} : t.rec[d] = u.rec[d]
      /\ t.base = u.base /\ t.lockedAt = u.lockedAt /\ t.roof = u.roof
  BY <1>1, RecordTyped
<1> HIDE DEF t
<1>3. t.rec[c] # None /\ t.rec[c].released = FALSE
  <2>1. [hash |-> LockedClaimHash(f), released |-> FALSE] \in LedgerRecord
    BY HashTyped DEF LedgerRecord
  <2>2. t.rec[c] \in LedgerRecord
    BY <1>2, <2>1
  <2>3. t.rec[c] # None
    BY <2>2, NoneAssumption
  <2>4. t.rec[c].released = FALSE
    BY <1>2
  <2> QED BY <2>3, <2>4
<1>4. \A d \in Claims : s.rec[d] # None => t.rec[d] # None
  BY <1>1, <1>2, <1>3
<1>5. \A d \in Claims : ~LedgerRecordDeleted(t, d)
  BY <1>1, <1>2, <1>3 DEF LedgerRecordDeleted, EngineLocked
<1>6. \A d \in Claims : t.rec[d] # None /\ t.rec[d].released => t.rec[d] = st.rec[d]
  BY <1>1, <1>2, <1>3
<1> QED
  BY <1>1, <1>2, <1>4, <1>5, <1>6 DEF u, t

\* Signing a member in memory loses no record and releases none.
LEMMA LockSignKeeps ==
  ASSUME IInv, NEW p \in Procs, NEW c \in Claims, LockSign(p, c) PROVE IInv'
<1> DEFINE t == RecordApproval(RefreshBaseline(mem[p].st, c, mem[p].snap), c, mem[p].snap[c])
<1>1. pc[p] = "lock.sign" /\ pc[p] \in StoreHeld /\ pc[p] \in ClaimsHeld
  BY DEF LockSign, StoreHeld, ClaimsHeld, Labels
<1>2. mem[p] \in Memory /\ mem[p].snap \in Files /\ mem[p].st \in LockStore /\ mem[p].raw \in LockStore
      /\ mem[p].left \in SUBSET Claims /\ mem[p].ids \in SUBSET Claims
  BY <1>1, MemTyped DEF Fits, Memory
<1>3. Link("lock.sign", mem[p], store) /\ ReleaseLink("lock.sign", mem[p], store, file)
      /\ holder["store"] = p /\ holder["claims"] = p
  BY <1>1 DEF IInv, StoreGuarded, ClaimsGuarded, ReleaseGuarded
<1>4. mem[p].snap[c] \in ClaimFile /\ store \in LockStore
  BY <1>2, IInvData DEF Files, DataOK
<1>5. /\ t \in LockStore /\ t.roof = mem[p].st.roof
      /\ \A d \in Claims : store.rec[d] # None => t.rec[d] # None
      /\ \A d \in Claims : ~LedgerRecordDeleted(t, d)
      /\ \A d \in Claims : t.rec[d] # None /\ t.rec[d].released => t.rec[d] = mem[p].st.rec[d]
  BY <1>2, <1>3, <1>4, SignLinks DEF Link
<1>6. PICK l \in {"lock.sign", "lock.save"}, left \in SUBSET Claims :
         Goto(p, l, [mem[p] EXCEPT !.st = t, !.left = left])
  <2> DEFINE n == [mem[p] EXCEPT !.st = t]
             rest == n.left \ {c}
  <2>1. n.left = mem[p].left /\ n.ids = mem[p].ids
    BY <1>2 DEF Memory
  <2>2. Goto(p, IF rest = {} THEN "lock.save" ELSE "lock.sign",
             [n EXCEPT !.left = IF rest = {} THEN n.ids ELSE rest])
    BY DEF LockSign
  <2>3. \A x : [n EXCEPT !.left = x] = [mem[p] EXCEPT !.st = t, !.left = x]
    OBVIOUS
  <2> HIDE DEF t, n
  <2> QED
    BY <1>2, <2>1, <2>2, <2>3
<1> HIDE DEF t
<1> DEFINE m == [mem[p] EXCEPT !.st = t, !.left = left]
<1>7. m \in Memory /\ m.snap = mem[p].snap /\ m.st = t /\ m.raw = mem[p].raw
  BY <1>2, <1>5 DEF Memory
<1>8. Goto(p, l, m)
  BY <1>6
<1> HIDE DEF m
<1>9. l \in Labels /\ Fits(l, m)
  BY <1>2, <1>5, <1>7 DEF Fits, Labels
<1>10. store' = store /\ file' = file /\ holder' = holder
  BY DEF LockSign
<1>11. Link(l, m, store')
  BY <1>3, <1>5, <1>7, <1>10 DEF Link
<1>12. ReleaseLink(l, m, store', file')
  BY <1>3, <1>5, <1>7, <1>10 DEF ReleaseLink
<1>13. digest' \in [Claims -> Blocks \cup {None}] /\ budget' \in Budgets
  <2>1. mem[p].snap[c].threads \in Blocks
    BY <1>4 DEF ClaimFile
  <2> QED BY <2>1, RecordDigestTyped DEF LockSign, IInv
<1>14. DataOK' /\ NeverLooksDeleted' /\ holder' \in [Sentinels -> Procs \cup {None, Stale}]
  BY <1>10, <1>13, IInvData DEF LockSign, DataOK, IInv, NeverLooksDeleted, TypeOK
<1> QED
  BY <1>3, <1>7, <1>8, <1>9, <1>10, <1>11, <1>12, <1>14, GotoKeeps

\* Saving the store in memory by a command that holds the sentinel.
LEMMA SaveStore ==
  ASSUME IInv, NEW p \in Procs, pc[p] \in StoreHeld, pc[p] # "reaudit.flag",
         store' = mem[p].st, UNCHANGED <<file, digest, flags, roof, budget, approved>>
  PROVE  DataOK' /\ NeverLooksDeleted' /\ holder["store"] = p
<1>1. mem[p].st \in LockStore /\ Link(pc[p], mem[p], store) /\ holder["store"] = p
  BY MemTyped DEF Fits, IInv, StoreGuarded
<1>2. NeverLooksDeleted'
  BY <1>1 DEF Link, NeverLooksDeleted
<1> QED
  BY <1>1, <1>2, IInvData DEF DataOK

\* The set lock saves the signed store.
LEMMA LockSaveKeeps == ASSUME IInv, NEW p \in Procs, LockSave(p) PROVE IInv'
<1>1. DataOK' /\ NeverLooksDeleted' /\ holder["store"] = p
  BY SaveStore DEF LockSave, StoreHeld
<1> QED
  BY <1>1, EndKeeps DEF LockSave

\* The rollback rewrites the store with the bytes that are still on disk.
LEMMA LockRestoreKeeps == ASSUME IInv, NEW p \in Procs, LockRestore(p) PROVE IInv'
<1>1. mem[p].raw = store
  BY DEF LockRestore, IInv, StoreGuarded, StoreHeld, Link
<1>2. digest' \in [Claims -> Blocks \cup {None}]
  BY MemTyped, IInvData DEF LockRestore, Memory, DataOK
<1>3. budget' \in Budgets
  BY FaultTyped DEF LockRestore, IInv, TypeOK
<1> QED
  BY <1>1, <1>2, <1>3, QuietEnd DEF LockRestore

\* A step of p that keeps its sentinels, its memory and the store on disk.
LEMMA SameMemory ==
  ASSUME IInv, NEW p \in Procs, NEW l \in Labels, Goto(p, l, mem[p]), Fits(l, mem[p]),
         DataOK', UNCHANGED <<store, holder>>,
         file' = file \/ holder["claims"] = p,
         l \in StoreHeld => /\ pc[p] \in StoreHeld /\ Link(l, mem[p], store)
                            /\ ReleaseLink(l, mem[p], store, file'),
         l \in ClaimsHeld => pc[p] \in ClaimsHeld
  PROVE  IInv'
<1>1. /\ l \in StoreHeld => holder'["store"] = p
      /\ l \in ClaimsHeld => holder'["claims"] = p
  BY DEF IInv, StoreGuarded, ClaimsGuarded
<1>2. NeverLooksDeleted' /\ holder' \in [Sentinels -> Procs \cup {None, Stale}]
  BY DEF IInv, NeverLooksDeleted, TypeOK
<1> QED
  BY <1>1, <1>2, MemTyped, GotoKeeps

\* A command takes the claims sentinel and remembers what it loaded.
LEMMA LoadKeeps ==
  ASSUME IInv, NEW p \in Procs, NEW l \in Labels \ StoreHeld, NEW m \in Memory,
         Fits(l, m), Goto(p, l, m), Take("claims", p),
         UNCHANGED <<file, store, digest, flags, roof, budget, approved>>
  PROVE  IInv'
<1>1. DataOK' /\ NeverLooksDeleted'
  BY IInvData DEF DataOK, IInv, NeverLooksDeleted
<1> QED
  BY <1>1, GotoKeeps, TakeKeeps DEF Sentinels

-----------------------------------------------------------------------------
(* claim unlock. *)

\* The memory with which a command that names one claim starts.
LEMMA OneClaimTyped ==
  ASSUME IInv, NEW c \in Claims
  PROVE  LET m == [Blank EXCEPT !.ids = {c}, !.snap = file, !.tok = file]
         IN  m \in Memory /\ m.snap = file /\ m.ids = {c}
  BY BlankTyped, IInvData DEF Memory, DataOK

\* unlock takes the claims sentinel and loads.
LEMMA UnlockLoadKeeps ==
  ASSUME IInv, NEW p \in Procs, NEW c \in Claims, UnlockLoad(p, c) PROVE IInv'
<1> DEFINE m == [Blank EXCEPT !.ids = {c}, !.snap = file, !.tok = file]
<1>1. m \in Memory /\ m.snap = file
  BY OneClaimTyped
<1>2. Goto(p, "unlock.store", m) /\ Take("claims", p)
      /\ UNCHANGED <<file, store, digest, flags, roof, budget, approved>>
  BY DEF UnlockLoad, Load
<1> HIDE DEF m
<1>3. "unlock.store" \in Labels \ StoreHeld /\ Fits("unlock.store", m)
  BY <1>1, IInvData DEF Labels, StoreHeld, Fits, DataOK
<1> QED
  BY <1>1, <1>2, <1>3, LoadKeeps

\* unlock takes the store sentinel, loads the store and sweeps the digests.
LEMMA UnlockSweepKeeps == ASSUME IInv, NEW p \in Procs, UnlockSweep(p) PROVE IInv'
<1> DEFINE m == [mem[p] EXCEPT !.st = store]
<1>1. pc[p] = "unlock.store" /\ mem[p] \in Memory /\ mem[p].snap \in Files
  BY MemTyped DEF UnlockSweep, Fits, ClaimsHeld, Labels
<1>2. m \in Memory /\ m.st = store /\ m.snap = mem[p].snap
  BY <1>1, IInvData DEF Memory, DataOK
<1>3. Goto(p, "unlock.flag", m) /\ Take("store", p)
      /\ UNCHANGED <<file, store, flags, roof, approved>>
  BY DEF UnlockSweep
<1>4. digest' \in [Claims -> Blocks \cup {None}] /\ budget' \in Budgets
  BY SweepDigestTyped DEF UnlockSweep, IInv
<1>5. DataOK' /\ NeverLooksDeleted'
  BY <1>3, <1>4, IInvData DEF DataOK, IInv, NeverLooksDeleted
<1>6. holder["claims"] = p
  BY <1>1 DEF IInv, ClaimsGuarded, ClaimsHeld, Labels
<1> HIDE DEF m
<1>7. "unlock.flag" \in Labels /\ "unlock.flag" \in StoreHeld /\ Fits("unlock.flag", m)
  BY <1>1, <1>2, IInvData DEF Labels, StoreHeld, Fits, DataOK
<1>8. Link("unlock.flag", m, store')
  BY <1>2, <1>3 DEF Link, IInv, NeverLooksDeleted
<1>9. ReleaseLink("unlock.flag", m, store', file')
  BY <1>2, <1>3 DEF ReleaseLink, Standing
<1> QED
  BY <1>2, <1>3, <1>5, <1>6, <1>7, <1>8, <1>9, GotoKeeps, TakeKeeps DEF Sentinels

\* unlock clears the claim's flag.
LEMMA UnlockFlagKeeps == ASSUME IInv, NEW p \in Procs, UnlockFlag(p) PROVE IInv'
<1>1. pc[p] = "unlock.flag" /\ pc[p] \in StoreHeld /\ pc[p] \in ClaimsHeld
      /\ "unlock.claim" \in Labels
  BY DEF UnlockFlag, StoreHeld, ClaimsHeld, Labels
<1>2. Fits("unlock.claim", mem[p])
  BY <1>1, MemTyped DEF Fits
<1>3. Link("unlock.claim", mem[p], store) /\ ReleaseLink("unlock.claim", mem[p], store, file)
  BY <1>1 DEF IInv, StoreGuarded, ReleaseGuarded, Link, ReleaseLink
<1>4. flags' \in [Claims -> Bodies \cup {None}]
  BY IInvData DEF UnlockFlag, DataOK
<1>5. DataOK'
  BY <1>4, IInvData DEF UnlockFlag, DataOK
<1> QED
  BY <1>1, <1>2, <1>3, <1>5, SameMemory DEF UnlockFlag

\* The release enters memory in the step that makes the claim draft.
LEMMA UnlockClaimKeeps ==
  ASSUME IInv, NEW p \in Procs, NEW c \in Claims, UnlockClaim(p, c) PROVE IInv'
<1> DEFINE t == ReleaseApproval(mem[p].st, c)
           m == [mem[p] EXCEPT !.st = t]
           f == [mem[p].snap[c] EXCEPT !.status = "draft", !.pending = FALSE]
<1>1. pc[p] = "unlock.claim" /\ pc[p] \in StoreHeld /\ pc[p] \in ClaimsHeld
  BY DEF UnlockClaim, StoreHeld, ClaimsHeld, Labels
<1>2. mem[p] \in Memory /\ mem[p].snap \in Files /\ mem[p].st \in LockStore
  BY <1>1, MemTyped DEF Fits
<1>3. Link("unlock.claim", mem[p], store) /\ ReleaseLink("unlock.claim", mem[p], store, file)
      /\ holder["store"] = p /\ holder["claims"] = p
  BY <1>1 DEF IInv, StoreGuarded, ClaimsGuarded, ReleaseGuarded
<1>4. /\ t \in LockStore
      /\ \A d \in Claims \ {c} : t.rec[d] = mem[p].st.rec[d]
      /\ (t.rec[c] = None) <=> (mem[p].st.rec[c] = None)
      /\ t.base = mem[p].st.base /\ t.lockedAt = mem[p].st.lockedAt /\ t.roof = mem[p].st.roof
  BY <1>2, ReleaseTyped
<1>5. Goto(p, "unlock.save", m) /\ file' = [file EXCEPT ![c] = f]
      /\ UNCHANGED <<store, digest, flags, roof, holder, budget, approved>>
  BY DEF UnlockClaim, SaveClaimIfUnchanged
<1>6. f \in ClaimFile /\ f.status = "draft"
  BY <1>2 DEF Files, ClaimFile
<1> HIDE DEF t, f
<1>7. m \in Memory /\ m.st = t /\ m.snap = mem[p].snap
  BY <1>2, <1>4 DEF Memory
<1> HIDE DEF m
<1>8. "unlock.save" \in Labels /\ "unlock.save" \in StoreHeld /\ Fits("unlock.save", m)
  BY <1>2, <1>4, <1>7 DEF Labels, StoreHeld, Fits
<1>9. file' \in Files /\ file'[c].status = "draft" /\ \A d \in Claims \ {c} : file'[d] = file[d]
  BY <1>5, <1>6, IInvData DEF Files, DataOK
<1>10. DataOK' /\ NeverLooksDeleted' /\ holder' \in [Sentinels -> Procs \cup {None, Stale}]
  BY <1>5, <1>9, IInvData DEF DataOK, IInv, NeverLooksDeleted, TypeOK
<1>11. Link("unlock.save", m, store')
  <2>1. \A d \in Claims : store.rec[d] # None => t.rec[d] # None
    BY <1>3, <1>4 DEF Link
  <2>2. \A d \in Claims : ~LedgerRecordDeleted(t, d)
    BY <1>3, <1>4 DEF Link, LedgerRecordDeleted, EngineLocked
  <2> QED
    BY <1>3, <1>4, <1>5, <1>7, <2>1, <2>2 DEF Link
<1>12. ReleaseLink("unlock.save", m, store', file')
  BY <1>3, <1>4, <1>5, <1>7, <1>9 DEF ReleaseLink
<1> QED
  BY <1>3, <1>5, <1>7, <1>8, <1>10, <1>11, <1>12, GotoKeeps

\* unlock saves the release.
LEMMA UnlockSaveKeeps == ASSUME IInv, NEW p \in Procs, UnlockSave(p) PROVE IInv'
<1>1. DataOK' /\ NeverLooksDeleted' /\ holder["store"] = p
  BY SaveStore DEF UnlockSave, StoreHeld
<1> QED
  BY <1>1, EndKeeps DEF UnlockSave

-----------------------------------------------------------------------------
(* claim flag. *)

\* flag takes the claims sentinel and loads.
LEMMA FlagLoadKeeps ==
  ASSUME IInv, NEW p \in Procs, NEW c \in Claims, NEW b \in Bodies, FlagLoad(p, c, b)
  PROVE  IInv'
<1> DEFINE m == [Blank EXCEPT !.ids = {c}, !.snap = file, !.tok = file, !.note = b]
<1>1. m \in Memory /\ m.snap = file
  BY BlankTyped, IInvData DEF Memory, DataOK
<1>2. Goto(p, "flag.save", m) /\ Take("claims", p)
      /\ UNCHANGED <<file, store, digest, flags, roof, budget, approved>>
  BY DEF FlagLoad
<1> HIDE DEF m
<1>3. "flag.save" \in Labels \ StoreHeld /\ Fits("flag.save", m)
  BY <1>1, IInvData DEF Labels, StoreHeld, Fits, DataOK
<1> QED
  BY <1>1, <1>2, <1>3, LoadKeeps

\* flag saves the flag store.
LEMMA FlagSaveKeeps ==
  ASSUME IInv, NEW p \in Procs, NEW c \in Claims, FlagSave(p, c) PROVE IInv'
<1>1. pc[p] = "flag.save" /\ pc[p] \in ClaimsHeld
      /\ "flag.claim" \in Labels /\ "flag.claim" \notin StoreHeld
  BY DEF FlagSave, StoreHeld, ClaimsHeld, Labels
<1>2. Fits("flag.claim", mem[p])
  BY <1>1, MemTyped DEF Fits, StoreHeld
<1>3. flags' \in [Claims -> Bodies \cup {None}]
  BY MemTyped, IInvData DEF FlagSave, DataOK, Memory
<1>4. DataOK'
  BY <1>3, IInvData DEF FlagSave, DataOK
<1> QED
  BY <1>1, <1>2, <1>4, SameMemory DEF FlagSave

\* The last write of a command is of a claim file, under the claims sentinel.
LEMMA ClaimEnd ==
  ASSUME IInv, NEW p \in Procs, NEW c \in Claims, NEW f \in ClaimFile, pc[p] \in ClaimsHeld,
         file' = [file EXCEPT ![c] = f], End(p),
         UNCHANGED <<store, digest, flags, roof, budget, approved>>
  PROVE  IInv'
<1>1. file' \in Files /\ holder["claims"] = p
  BY SaveTyped DEF IInv, ClaimsGuarded
<1>2. DataOK' /\ NeverLooksDeleted'
  BY <1>1, IInvData DEF DataOK, IInv, NeverLooksDeleted
<1> QED
  BY <1>1, <1>2, EndKeeps

\* flag marks the claim review_pending.
LEMMA FlagClaimKeeps ==
  ASSUME IInv, NEW p \in Procs, NEW c \in Claims, FlagClaim(p, c) PROVE IInv'
<1>1. pc[p] \in ClaimsHeld
  BY DEF FlagClaim, ClaimsHeld, Labels
<1>2. mem[p].snap[c] \in ClaimFile
  BY <1>1, MemTyped DEF Fits, Files
<1>3. [mem[p].snap[c] EXCEPT !.pending = TRUE] \in ClaimFile
  BY <1>2 DEF ClaimFile
<1> QED
  BY <1>1, <1>3, ClaimEnd DEF FlagClaim, SaveClaimIfUnchanged

-----------------------------------------------------------------------------
(* claim reaudit. *)

\* reaudit takes the claims sentinel and loads.
LEMMA ReauditLoadKeeps ==
  ASSUME IInv, NEW p \in Procs, NEW c \in Claims, ReauditLoad(p, c) PROVE IInv'
<1> DEFINE m == [Blank EXCEPT !.ids = {c}, !.snap = file, !.tok = file]
<1>1. m \in Memory /\ m.snap = file /\ m.ids = {c}
  BY OneClaimTyped
<1>2. Goto(p, "reaudit.store", m) /\ Take("claims", p) /\ file[c].extra < MaxExtra
      /\ UNCHANGED <<file, store, digest, flags, roof, budget, approved>>
  BY DEF ReauditLoad, Load
<1> HIDE DEF m
<1>3. "reaudit.store" \in Labels \ StoreHeld /\ Fits("reaudit.store", m)
  BY <1>1, <1>2, IInvData DEF Labels, StoreHeld, Fits, DataOK
<1> QED
  BY <1>1, <1>2, <1>3, LoadKeeps

\* reaudit.Apply leaves a claim file.
LEMMA AppliedTyped ==
  ASSUME IInv, NEW c \in Claims, NEW f \in ClaimFile, f.extra < MaxExtra
  PROVE  Applied(c, f) \in ClaimFile
<1>1. f.extra + 1 \in 0..MaxExtra
  BY BoundsAssumption DEF ClaimFile
<1>2. (IF flags[c] # None THEN flags[c] ELSE f.body) \in Bodies
  BY IInvData DEF DataOK, ClaimFile
<1>3. Applied(c, f) = [f EXCEPT !.body = IF flags[c] # None THEN flags[c] ELSE f.body,
                                !.extra = f.extra + 1]
  BY DEF Applied
<1> QED
  BY <1>1, <1>2, <1>3 DEF ClaimFile

\* reaudit signs in memory: no record is lost and none is released.
LEMMA ReauditApplyKeeps ==
  ASSUME IInv, NEW p \in Procs, NEW c \in Claims, ReauditApply(p, c) PROVE IInv'
<1> DEFINE f  == Applied(c, mem[p].snap[c])
           fs == [mem[p].snap EXCEPT ![c] = f]
           t  == RecordApproval(RefreshBaseline(store, c, mem[p].snap), c, f)
           r  == Recompute(c, fs, t, [flags EXCEPT ![c] = None])
           o  == [fs EXCEPT ![c].pending = r]
           m  == [mem[p] EXCEPT !.st = t, !.note = flags[c], !.out = o]
<1>1. pc[p] = "reaudit.store" /\ c \in mem[p].ids /\ pc[p] \in ClaimsHeld
  BY DEF ReauditApply, ClaimsHeld, Labels
<1>2. mem[p] \in Memory /\ mem[p].snap \in Files /\ mem[p].snap[c].extra < MaxExtra
  BY <1>1, MemTyped DEF Fits
<1>3. Goto(p, "reaudit.sign", m) /\ Take("store", p) /\ SweepDigest(mem[p].snap)
      /\ ApproveApplied(c, mem[p].snap[c], f) /\ UNCHANGED <<file, store, flags, roof>>
  BY DEF ReauditApply
<1>4. mem[p].snap[c] \in ClaimFile
  BY <1>2 DEF Files
<1>5. f \in ClaimFile
  BY <1>2, <1>4, AppliedTyped
<1>6. store \in LockStore /\ \A d \in Claims : ~LedgerRecordDeleted(store, d)
  BY IInvData DEF DataOK, IInv, NeverLooksDeleted
<1> HIDE DEF f
<1>7. /\ t \in LockStore /\ t.roof = store.roof
      /\ \A d \in Claims : store.rec[d] # None => t.rec[d] # None
      /\ \A d \in Claims : ~LedgerRecordDeleted(t, d)
      /\ \A d \in Claims : t.rec[d] # None /\ t.rec[d].released => t.rec[d] = store.rec[d]
  BY <1>2, <1>5, <1>6, SignLinks
<1> HIDE DEF t
<1>8. r \in BOOLEAN
  BY DEF Recompute, Drift
<1> HIDE DEF r
<1>9. fs \in Files
  BY <1>2, <1>5 DEF Files
<1> HIDE DEF fs
<1>10. o \in Files
  BY <1>8, <1>9 DEF Files, ClaimFile
<1> HIDE DEF o
<1>11. m \in Memory /\ m.st = t /\ m.out = o /\ m.snap = mem[p].snap
  BY <1>2, <1>7, <1>10, IInvData DEF Memory, DataOK
<1> HIDE DEF m
<1>12. "reaudit.sign" \in Labels /\ "reaudit.sign" \in StoreHeld /\ Fits("reaudit.sign", m)
  BY <1>2, <1>7, <1>10, <1>11 DEF Labels, StoreHeld, Fits
<1>13. Link("reaudit.sign", m, store')
  BY <1>3, <1>7, <1>11 DEF Link
<1>14. ReleaseLink("reaudit.sign", m, store', file')
  BY <1>3, <1>7, <1>11 DEF ReleaseLink, Standing
<1>15. digest' \in [Claims -> Blocks \cup {None}] /\ budget' \in Budgets
  BY <1>3, SweepDigestTyped DEF IInv
<1>16. approved' \in [Claims -> SUBSET Contents]
  BY <1>3, <1>5, HashTyped, IInvData DEF ApproveApplied, DataOK
<1>17. DataOK' /\ NeverLooksDeleted'
  BY <1>3, <1>15, <1>16, IInvData DEF DataOK, IInv, NeverLooksDeleted
<1>18. holder["claims"] = p
  BY <1>1 DEF IInv, ClaimsGuarded
<1> QED
  BY <1>3, <1>11, <1>12, <1>13, <1>14, <1>17, <1>18, GotoKeeps, TakeKeeps DEF Sentinels

\* A refused reaudit has at most swept the digests.
LEMMA ReauditRefuseKeeps ==
  ASSUME IInv, NEW p \in Procs, NEW c \in Claims, ReauditRefuse(p, c) PROVE IInv'
<1>1. digest' \in [Claims -> Blocks \cup {None}] /\ budget' \in Budgets
  BY SweepDigestTyped, IInvData DEF ReauditRefuse, DataOK, IInv
<1> QED
  BY <1>1, QuietEnd DEF ReauditRefuse

\* reaudit records the comment digest beside its approval.
LEMMA ReauditSignKeeps ==
  ASSUME IInv, NEW p \in Procs, NEW c \in Claims, ReauditSign(p, c) PROVE IInv'
<1>1. pc[p] = "reaudit.sign" /\ pc[p] \in StoreHeld /\ pc[p] \in ClaimsHeld
      /\ "reaudit.claim" \in Labels
  BY DEF ReauditSign, StoreHeld, ClaimsHeld, Labels
<1>2. Fits("reaudit.claim", mem[p]) /\ mem[p].out \in Files
  BY <1>1, MemTyped DEF Fits
<1>3. Link("reaudit.claim", mem[p], store) /\ ReleaseLink("reaudit.claim", mem[p], store, file)
  BY <1>1 DEF IInv, StoreGuarded, ReleaseGuarded, Link, ReleaseLink
<1>4. mem[p].out[c].threads \in Blocks
  BY <1>2 DEF Files, ClaimFile
<1>5. digest' \in [Claims -> Blocks \cup {None}] /\ budget' \in Budgets
  BY <1>4, RecordDigestTyped DEF ReauditSign, IInv
<1>6. DataOK'
  BY <1>5, IInvData DEF ReauditSign, DataOK
<1> QED
  BY <1>1, <1>2, <1>3, <1>6, SameMemory DEF ReauditSign

\* reaudit saves the claim file.
LEMMA ReauditClaimKeeps ==
  ASSUME IInv, NEW p \in Procs, NEW c \in Claims, ReauditClaim(p, c) PROVE IInv'
<1>1. pc[p] = "reaudit.claim" /\ pc[p] \in StoreHeld /\ pc[p] \in ClaimsHeld
      /\ "reaudit.save" \in Labels
  BY DEF ReauditClaim, StoreHeld, ClaimsHeld, Labels
<1>2. Fits("reaudit.save", mem[p]) /\ mem[p].out \in Files
  BY <1>1, MemTyped DEF Fits
<1>3. Link("reaudit.save", mem[p], store) /\ ReleaseLink("reaudit.save", mem[p], store, file')
  BY <1>1 DEF IInv, StoreGuarded, ReleaseGuarded, Link, ReleaseLink
<1>4. file' \in Files /\ holder["claims"] = p
  BY <1>1, <1>2, SaveTyped DEF ReauditClaim, SaveClaimIfUnchanged, Files, IInv, ClaimsGuarded
<1>5. DataOK'
  BY <1>4, IInvData DEF ReauditClaim, DataOK
<1> QED
  BY <1>1, <1>2, <1>3, <1>4, <1>5, SameMemory DEF ReauditClaim

\* reaudit saves the lock store; with a flag to clear it keeps its sentinels.
LEMMA ReauditSaveKeeps == ASSUME IInv, NEW p \in Procs, ReauditSave(p) PROVE IInv'
<1>1. pc[p] = "reaudit.save" /\ pc[p] \in StoreHeld /\ pc[p] \in ClaimsHeld
      /\ "reaudit.flag" \in Labels
  BY DEF ReauditSave, StoreHeld, ClaimsHeld, Labels
<1>2. DataOK' /\ NeverLooksDeleted' /\ holder["store"] = p /\ holder["claims"] = p
  BY <1>1, SaveStore DEF ReauditSave, IInv, ClaimsGuarded
<1>3. CASE mem[p].note = None
  BY <1>2, <1>3, EndKeeps DEF ReauditSave
<1>4. CASE mem[p].note # None
  <2>1. Goto(p, "reaudit.flag", mem[p]) /\ holder' = holder
    BY <1>4 DEF ReauditSave
  <2>2. mem[p] \in Memory /\ Fits("reaudit.flag", mem[p])
    BY <1>1, MemTyped DEF Fits
  <2>3. Link("reaudit.flag", mem[p], store') /\ ReleaseLink("reaudit.flag", mem[p], store', file')
    BY DEF Link, ReleaseLink
  <2>4. holder' \in [Sentinels -> Procs \cup {None, Stale}]
    BY <2>1 DEF IInv, TypeOK
  <2> QED
    BY <1>1, <1>2, <2>1, <2>2, <2>3, <2>4, GotoKeeps
<1> QED
  BY <1>3, <1>4

\* reaudit clears the flag it consumed.
LEMMA ReauditFlagKeeps ==
  ASSUME IInv, NEW p \in Procs, NEW c \in Claims, ReauditFlag(p, c) PROVE IInv'
<1>1. DataOK' /\ NeverLooksDeleted'
  BY IInvData DEF ReauditFlag, DataOK, IInv, NeverLooksDeleted
<1> QED
  BY <1>1, EndKeeps DEF ReauditFlag

-----------------------------------------------------------------------------
(* Comments. *)

\* A comment operation loads, mutates in memory and recomputes review_pending.
LEMMA CommentLoadKeeps ==
  ASSUME IInv, NEW p \in Procs, NEW c \in Claims, NEW t \in Threads, NEW op \in CommentOp,
         CommentLoad(p, c, t, op)
  PROVE  IInv'
<1> DEFINE f  == [file[c] EXCEPT !.threads[t] = op[2]]
           fs == [file EXCEPT ![c] = f]
           pending == IF f.status = "locked" THEN Recompute(c, fs, store, flags) ELSE f.pending
           o == [fs EXCEPT ![c].pending = pending]
           m == [Blank EXCEPT !.ids = {c}, !.snap = file, !.tok = file, !.out = o]
<1>1. Goto(p, "comment.claim", m) /\ Take("claims", p)
      /\ UNCHANGED <<file, store, digest, flags, roof, budget, approved>>
  BY DEF CommentLoad
<1>2. op[2] \in ThreadStates
  BY DEF CommentOp, ThreadStates
<1>3. file \in Files /\ file[c] \in ClaimFile
  BY IInvData DEF DataOK, Files
<1>4. f \in ClaimFile
  <2>1. [file[c].threads EXCEPT ![t] = op[2]] \in Blocks
    BY <1>2, <1>3 DEF ClaimFile, Blocks
  <2>2. f = [file[c] EXCEPT !.threads = [file[c].threads EXCEPT ![t] = op[2]]]
    BY <1>3 DEF ClaimFile
  <2> QED
    BY <1>3, <2>1, <2>2 DEF ClaimFile
<1> HIDE DEF f
<1>5. pending \in BOOLEAN
  BY <1>4 DEF Recompute, Drift, ClaimFile
<1> HIDE DEF pending
<1>6. fs \in Files
  BY <1>3, <1>4 DEF Files
<1> HIDE DEF fs
<1>7. o \in Files
  BY <1>5, <1>6 DEF Files, ClaimFile
<1> HIDE DEF o
<1>8. m \in Memory /\ m.snap = file /\ m.out = o
  BY <1>3, <1>7, BlankTyped DEF Memory
<1> HIDE DEF m
<1>9. "comment.claim" \in Labels \ StoreHeld /\ Fits("comment.claim", m)
  BY <1>3, <1>7, <1>8 DEF Labels, StoreHeld, Fits
<1> QED
  BY <1>1, <1>8, <1>9, LoadKeeps

\* A comment operation saves the claim file.
LEMMA CommentClaimKeeps ==
  ASSUME IInv, NEW p \in Procs, NEW c \in Claims, CommentClaim(p, c) PROVE IInv'
<1>1. pc[p] = "comment.claim" /\ pc[p] \in ClaimsHeld
      /\ "comment.digest" \in Labels /\ "comment.digest" \notin StoreHeld
  BY DEF CommentClaim, StoreHeld, ClaimsHeld, Labels
<1>2. Fits("comment.digest", mem[p]) /\ mem[p].out \in Files
  BY <1>1, MemTyped DEF Fits
<1>3. file' \in Files /\ holder["claims"] = p
  BY <1>1, <1>2, SaveTyped DEF CommentClaim, SaveClaimIfUnchanged, Files, IInv, ClaimsGuarded
<1>4. DataOK'
  BY <1>3, IInvData DEF CommentClaim, DataOK
<1> QED
  BY <1>1, <1>2, <1>3, <1>4, SameMemory DEF CommentClaim

\* A comment operation records the digest of what it saved.
LEMMA CommentDigestKeeps ==
  ASSUME IInv, NEW p \in Procs, NEW c \in Claims, CommentDigest(p, c) PROVE IInv'
<1>1. mem[p].out \in Files
  BY MemTyped DEF CommentDigest, Fits
<1>2. digest' \in [Claims -> Blocks \cup {None}]
  BY <1>1, IInvData DEF CommentDigest, DataOK, Files, ClaimFile
<1>3. budget' \in Budgets
  BY IInvData DEF CommentDigest, DataOK
<1> QED
  BY <1>2, <1>3, QuietEnd DEF CommentDigest

-----------------------------------------------------------------------------
(* check. *)

\* check takes the claims sentinel and loads.
LEMMA CheckLoadKeeps == ASSUME IInv, NEW p \in Procs, CheckLoad(p) PROVE IInv'
<1> DEFINE m == [Blank EXCEPT !.snap = file, !.tok = file]
<1>1. m \in Memory /\ m.snap = file
  BY BlankTyped, IInvData DEF Memory, DataOK
<1>2. Goto(p, "check.store", m) /\ Take("claims", p)
      /\ UNCHANGED <<file, store, digest, flags, roof, budget, approved>>
  BY DEF CheckLoad
<1> HIDE DEF m
<1>3. "check.store" \in Labels \ StoreHeld /\ Fits("check.store", m)
  BY <1>1, IInvData DEF Labels, StoreHeld, Fits, DataOK
<1> QED
  BY <1>1, <1>2, <1>3, LoadKeeps

\* check moves on to the next claim it has to write.
LEMMA CheckMoves ==
  ASSUME IInv, NEW p \in Procs, pc[p] \in {"check.store", "check.write"},
         NEW left \in SUBSET Claims, Goto(p, "check.write", [mem[p] EXCEPT !.left = left]),
         DataOK', UNCHANGED <<store, holder>>
  PROVE  IInv'
<1> DEFINE m == [mem[p] EXCEPT !.left = left]
<1>1. pc[p] \in ClaimsHeld /\ "check.write" \in Labels /\ "check.write" \notin StoreHeld
  BY DEF StoreHeld, ClaimsHeld, Labels
<1>2. mem[p] \in Memory /\ mem[p].snap \in Files /\ holder["claims"] = p
  BY <1>1, MemTyped DEF Fits, IInv, ClaimsGuarded
<1>3. m \in Memory /\ m.snap = mem[p].snap
  BY <1>2 DEF Memory
<1>4. NeverLooksDeleted' /\ holder' \in [Sentinels -> Procs \cup {None, Stale}]
  BY DEF IInv, NeverLooksDeleted, TypeOK
<1>5. Goto(p, "check.write", m)
  OBVIOUS
<1> HIDE DEF m
<1>6. Fits("check.write", m)
  BY <1>2, <1>3 DEF Fits, StoreHeld
<1> QED
  BY <1>1, <1>2, <1>3, <1>4, <1>5, <1>6, GotoKeeps

\* check reads the lock store under its sentinel and sweeps the digests.
LEMMA CheckSweepKeeps == ASSUME IInv, NEW p \in Procs, CheckSweep(p) PROVE IInv'
<1>1. digest' \in [Claims -> Blocks \cup {None}] /\ budget' \in Budgets
  BY SweepDigestTyped DEF CheckSweep, IInv
<1>2. CASE End(p)
  BY <1>1, <1>2, QuietEnd DEF CheckSweep
<1>3. CASE ~End(p)
  <2>1. DataOK' /\ UNCHANGED <<store, holder>> /\ pc[p] = "check.store"
    BY <1>1, <1>3, IInvData DEF CheckSweep, DataOK
  <2>2. Reconciled(mem[p].snap) \in SUBSET Claims
    BY DEF Reconciled
  <2>3. Goto(p, "check.write", [mem[p] EXCEPT !.left = Reconciled(mem[p].snap)])
    BY <1>3 DEF CheckSweep
  <2> QED
    BY <2>1, <2>2, <2>3, CheckMoves
<1> QED
  BY <1>2, <1>3

\* check marks one claim review_pending.
LEMMA CheckWriteKeeps ==
  ASSUME IInv, NEW p \in Procs, NEW c \in Claims, CheckWrite(p, c) PROVE IInv'
<1> DEFINE f == [mem[p].snap[c] EXCEPT !.pending = TRUE]
<1>1. pc[p] = "check.write" /\ pc[p] \in ClaimsHeld
  BY DEF CheckWrite, ClaimsHeld, Labels
<1>2. mem[p].snap[c] \in ClaimFile /\ mem[p].left \in SUBSET Claims
  BY <1>1, MemTyped DEF Fits, Files, Memory
<1>3. f \in ClaimFile
  BY <1>2 DEF ClaimFile
<1>4. file' = [file EXCEPT ![c] = f] /\ UNCHANGED <<store, digest, flags, roof, budget, approved>>
  BY DEF CheckWrite
<1> HIDE DEF f
<1>5. CASE mem[p].left = {c}
  BY <1>1, <1>3, <1>4, <1>5, ClaimEnd DEF CheckWrite
<1>6. CASE mem[p].left # {c}
  <2>1. DataOK' /\ UNCHANGED <<store, holder>>
    BY <1>3, <1>4, <1>6, SaveTyped, IInvData DEF CheckWrite, DataOK
  <2>2. mem[p].left \ {c} \in SUBSET Claims
        /\ Goto(p, "check.write", [mem[p] EXCEPT !.left = mem[p].left \ {c}])
    BY <1>2, <1>6 DEF CheckWrite
  <2> QED
    BY <1>1, <2>1, <2>2, CheckMoves
<1> QED
  BY <1>5, <1>6

-----------------------------------------------------------------------------
(* constitution lock. *)

\* constitution lock takes the store sentinel alone.
LEMMA RoofLoadKeeps == ASSUME IInv, NEW p \in Procs, RoofLoad(p) PROVE IInv'
<1> DEFINE m == [Blank EXCEPT !.st = store, !.roof = roof]
<1>1. m \in Memory /\ m.st = store /\ m.roof = roof
  BY BlankTyped, IInvData DEF Memory, DataOK
<1>2. Goto(p, "roof.file", m) /\ Take("store", p)
      /\ UNCHANGED <<file, store, digest, flags, roof, budget, approved>>
  BY DEF RoofLoad
<1> HIDE DEF m
<1>3. "roof.file" \in Labels /\ "roof.file" \notin ClaimsHeld /\ Fits("roof.file", m)
  BY <1>1, IInvData DEF Labels, ClaimsHeld, Fits, DataOK
<1>4. DataOK' /\ NeverLooksDeleted'
  BY <1>2, IInvData DEF DataOK, IInv, NeverLooksDeleted
<1>5. Link("roof.file", m, store')
  BY <1>1, <1>2 DEF Link, IInv, NeverLooksDeleted
<1>6. ReleaseLink("roof.file", m, store', file')
  BY <1>1, <1>2 DEF ReleaseLink, Standing
<1> QED
  BY <1>1, <1>2, <1>3, <1>4, <1>5, <1>6, GotoKeeps, TakeKeeps DEF Sentinels

\* constitution lock writes constitution.yaml and records its text in memory.
LEMMA RoofFileKeeps == ASSUME IInv, NEW p \in Procs, RoofFile(p) PROVE IInv'
<1> DEFINE t == [mem[p].st EXCEPT !.roof = mem[p].roof.text]
           m == [mem[p] EXCEPT !.st = t]
<1>1. pc[p] = "roof.file" /\ pc[p] \in StoreHeld
      /\ "roof.save" \in Labels /\ "roof.save" \notin ClaimsHeld
  BY DEF RoofFile, StoreHeld, ClaimsHeld, Labels
<1>2. mem[p] \in Memory /\ mem[p].st \in LockStore /\ mem[p].roof \in Constitution
  BY <1>1, MemTyped DEF Fits
<1>3. Link("roof.file", mem[p], store) /\ ReleaseLink("roof.file", mem[p], store, file)
      /\ holder["store"] = p
  BY <1>1 DEF IInv, StoreGuarded, ReleaseGuarded
<1>4. Goto(p, "roof.save", m) /\ UNCHANGED <<file, store, digest, flags, holder, budget, approved>>
  BY DEF RoofFile
<1>5. t \in LockStore /\ t.rec = mem[p].st.rec /\ t.base = mem[p].st.base
      /\ t.lockedAt = mem[p].st.lockedAt /\ t.roof = mem[p].roof.text
  BY <1>2 DEF LockStore, Constitution
<1>6. t = [store EXCEPT !.roof = t.roof]
  BY <1>3, <1>5 DEF Link
<1> HIDE DEF t
<1>7. m \in Memory /\ m.st = t /\ m.roof = mem[p].roof
  BY <1>2, <1>5 DEF Memory
<1> HIDE DEF m
<1>8. Fits("roof.save", m)
  BY <1>1, <1>2, <1>5, <1>7 DEF Fits
<1>9. Link("roof.save", m, store')
  BY <1>3, <1>4, <1>5, <1>6, <1>7 DEF Link, LedgerRecordDeleted, EngineLocked
<1>10. ReleaseLink("roof.save", m, store', file')
  BY <1>3, <1>4, <1>5, <1>7 DEF ReleaseLink
<1>11. roof' \in Constitution
  BY <1>2, IInvData DEF RoofFile, Constitution, DataOK
<1>12. DataOK' /\ NeverLooksDeleted' /\ holder' \in [Sentinels -> Procs \cup {None, Stale}]
  BY <1>4, <1>11, IInvData DEF DataOK, IInv, NeverLooksDeleted, TypeOK
<1> QED
  BY <1>1, <1>3, <1>4, <1>7, <1>8, <1>9, <1>10, <1>12, GotoKeeps

\* constitution lock saves the lock store.
LEMMA RoofSaveKeeps == ASSUME IInv, NEW p \in Procs, RoofSave(p) PROVE IInv'
<1>1. DataOK' /\ NeverLooksDeleted' /\ holder["store"] = p
  BY SaveStore DEF RoofSave, StoreHeld
<1> QED
  BY <1>1, EndKeeps DEF RoofSave

-----------------------------------------------------------------------------
(* Early ends, crashes and edits. *)

\* A command that gives up on a sentinel returns.
LEMMA TimeoutKeeps == ASSUME IInv, NEW p \in Procs, Timeout(p) PROVE IInv'
  BY QuietEnd DEF Timeout, IInv, TypeOK

\* A command whose token is stale returns.
LEMMA RefusedKeeps ==
  ASSUME IInv, NEW p \in Procs, NEW c \in Claims, Refused(p, c) PROVE IInv'
  BY QuietEnd DEF Refused, IInv, TypeOK

\* A command whose write fails returns.
LEMMA FailsKeeps == ASSUME IInv, NEW p \in Procs, Fails(p) PROVE IInv'
  BY QuietEnd, FaultTyped DEF Fails, IInv, TypeOK

\* A killed process forgets everything and leaves stale sentinels.
LEMMA CrashKeeps == ASSUME IInv, NEW p \in Procs, Crash(p) PROVE IInv'
<1>1. Goto(p, "idle", Blank) /\ UNCHANGED <<file, store, digest, flags, roof, approved>>
  BY DEF Crash
<1>2. budget' \in Budgets
  BY IInvData, BoundsAssumption DEF Crash, DataOK, Budgets
<1>3. /\ holder' \in [Sentinels -> Procs \cup {None, Stale}]
      /\ \A s \in Sentinels, q \in Procs \ {p} : holder[s] = q => holder'[s] = q
  BY DEF Crash, IInv, TypeOK
<1>4. DataOK' /\ NeverLooksDeleted'
  BY <1>1, <1>2, IInvData DEF DataOK, IInv, NeverLooksDeleted
<1> QED
  BY <1>1, <1>3, <1>4, GotoKeeps, BlankTyped, IdleHoldsNothing

\* Removing a stale sentinel takes it from no live process.
LEMMA RemoveStaleKeeps == ASSUME IInv, NEW s \in Sentinels, RemoveStale(s) PROVE IInv'
<1>1. /\ holder' \in [Sentinels -> Procs \cup {None, Stale}]
      /\ \A r \in Sentinels, q \in Procs : holder[r] = q => holder'[r] = q
  BY ProcsAssumption DEF RemoveStale, IInv, TypeOK
<1>2. DataOK'
  BY IInvData DEF RemoveStale, DataOK
<1> QED
  BY <1>1, <1>2, OutsideKeeps DEF RemoveStale

\* Editing files outside the commands changes no status and no store.
LEMMA EditsKeep ==
  ASSUME IInv,
         \/ \E c \in Claims : \/ \E k \in Contents : EditDraft(c, k)
                              \/ \E f \in ClaimFile : Tamper(c, f)
         \/ \E r \in Constitution : EditRoof(r)
  PROVE  IInv'
<1>1. UNCHANGED <<store, digest, flags, holder, pc, mem, approved>> /\ budget' \in Budgets
  <2>1. UNCHANGED <<store, digest, flags, holder, pc, mem, approved>>
    BY DEF EditDraft, Tamper, EditRoof
  <2>2. \/ budget.edits > 0 /\ budget' = [budget EXCEPT !.edits = budget.edits - 1]
        \/ budget.tampers > 0 /\ budget' = [budget EXCEPT !.tampers = budget.tampers - 1]
    BY DEF EditDraft, Tamper, EditRoof
  <2>3. budget' \in Budgets
    BY <2>2, IInvData, BoundsAssumption DEF DataOK, Budgets
  <2> QED
    BY <2>1, <2>3
<1>2. roof' \in Constitution
  BY IInvData DEF EditDraft, Tamper, EditRoof, DataOK
<1>3. file' \in Files /\ \A c \in Claims : file'[c].status = file[c].status
  <2>1. CASE \E r \in Constitution : EditRoof(r)
    BY <2>1, IInvData DEF EditRoof, DataOK
  <2>2. ASSUME NEW c \in Claims, NEW k \in Contents, EditDraft(c, k)
        PROVE  file' \in Files /\ \A d \in Claims : file'[d].status = file[d].status
    <3> DEFINE f == [file[c] EXCEPT !.body = k.body, !.extra = k.extra]
    <3>1. f \in ClaimFile /\ f.status = file[c].status
      BY IInvData DEF DataOK, Files, ClaimFile, Contents
    <3>2. file' = [file EXCEPT ![c] = f]
      BY <2>2 DEF EditDraft
    <3> HIDE DEF f
    <3> QED
      BY <3>1, <3>2, IInvData DEF DataOK, Files
  <2>3. ASSUME NEW c \in Claims, NEW f \in ClaimFile, Tamper(c, f)
        PROVE  file' \in Files /\ \A d \in Claims : file'[d].status = file[d].status
    BY <2>3, IInvData DEF Tamper, DataOK, Files
  <2> QED
    BY <2>1, <2>2, <2>3
<1>4. DataOK' /\ holder' \in [Sentinels -> Procs \cup {None, Stale}]
  BY <1>1, <1>2, <1>3, IInvData DEF DataOK, IInv, TypeOK
<1> QED
  BY <1>1, <1>3, <1>4, OutsideKeeps

-----------------------------------------------------------------------------
(* The invariant. *)

\* A fresh covered project satisfies the invariant.
LEMMA InitIInv == Init => IInv
<1> SUFFICES ASSUME Init PROVE IInv
  OBVIOUS
<1>1. store \in LockStore
  BY DEF Init, LockStore, Constitution
<1>2. digest \in [Claims -> Blocks \cup {None}]
  BY DEF Init, NoThreads, Blocks, ThreadStates
<1>3. budget \in Budgets
  BY BoundsAssumption DEF Init, Budgets
<1>4. DataOK
  BY <1>1, <1>2, <1>3 DEF Init, DataOK, Files
<1>5. pc \in [Procs -> Labels] /\ mem \in [Procs -> Memory] /\ MemoryFits
  BY BlankTyped, IdleHoldsNothing DEF Init, MemoryFits
<1>6. TypeOK
  BY <1>4, <1>5 DEF Init, TypeOK, DataOK
<1>7. StoreGuarded /\ ClaimsGuarded /\ ReleaseGuarded
  BY IdleHoldsNothing DEF Init, StoreGuarded, ClaimsGuarded, ReleaseGuarded
<1>8. NeverLooksDeleted
  BY DEF Init, NeverLooksDeleted, LedgerRecordDeleted, EngineLocked
<1> QED
  BY <1>5, <1>6, <1>7, <1>8 DEF IInv

\* Every step of a command, and everything that happens outside them, keeps it.
LEMMA NextIInv == IInv /\ [Next]_vars => IInv'
<1> SUFFICES ASSUME IInv, [Next]_vars PROVE IInv'
  OBVIOUS
<1>1. ASSUME NEW p \in Procs, Start(p) PROVE IInv'
  BY <1>1, PreviewKeeps, LockLoadKeeps, UnlockLoadKeeps, ReauditLoadKeeps, FlagLoadKeeps,
     CommentLoadKeeps, CheckLoadKeeps, RoofLoadKeeps DEF Start
<1>2. ASSUME NEW p \in Procs, Step(p) PROVE IInv'
  <2>1. CASE LockAdmit(p) \/ LockRefuse(p) \/ LockSave(p) \/ LockSaveFails(p) \/ LockRestore(p)
    BY <2>1, LockAdmitKeeps, LockRefuseKeeps, LockSaveKeeps, LockSaveFailsKeeps, LockRestoreKeeps
  <2>2. CASE \/ UnlockSweep(p) \/ UnlockFlag(p) \/ UnlockSave(p)
             \/ ReauditSave(p) \/ CheckSweep(p) \/ RoofFile(p) \/ RoofSave(p)
    BY <2>2, UnlockSweepKeeps, UnlockFlagKeeps, UnlockSaveKeeps, ReauditSaveKeeps,
       CheckSweepKeeps, RoofFileKeeps, RoofSaveKeeps
  <2>3. ASSUME NEW c \in Claims,
               \/ LockWrite(p, c) \/ LockWriteFails(p, c) \/ LockSign(p, c) \/ LockUndo(p, c)
               \/ UnlockClaim(p, c) \/ FlagSave(p, c) \/ FlagClaim(p, c)
        PROVE  IInv'
    BY <2>3, LockWriteKeeps, LockWriteFailsKeeps, LockSignKeeps, LockUndoKeeps,
       UnlockClaimKeeps, FlagSaveKeeps, FlagClaimKeeps
  <2>4. ASSUME NEW c \in Claims,
               \/ ReauditApply(p, c) \/ ReauditRefuse(p, c) \/ ReauditSign(p, c)
               \/ ReauditClaim(p, c) \/ ReauditFlag(p, c)
               \/ CommentClaim(p, c) \/ CommentDigest(p, c) \/ CheckWrite(p, c)
               \/ Refused(p, c)
        PROVE  IInv'
    BY <2>4, ReauditApplyKeeps, ReauditRefuseKeeps, ReauditSignKeeps, ReauditClaimKeeps,
       ReauditFlagKeeps, CommentClaimKeeps, CommentDigestKeeps, CheckWriteKeeps, RefusedKeeps
  <2>5. CASE Timeout(p) \/ Fails(p)
    BY <2>5, TimeoutKeeps, FailsKeeps
  <2> QED
    BY <1>2, <2>1, <2>2, <2>3, <2>4, <2>5 DEF Step
<1>3. CASE Outside
  BY <1>3, CrashKeeps, RemoveStaleKeeps, EditsKeep DEF Outside
<1>4. CASE UNCHANGED vars
  <2>1. DataOK' /\ holder' \in [Sentinels -> Procs \cup {None, Stale}]
    BY <1>4, IInvData DEF vars, DataOK, IInv, TypeOK
  <2> QED
    BY <1>4, <2>1, OutsideKeeps DEF vars
<1> QED
  BY <1>1, <1>2, <1>3, <1>4 DEF Next

\* The inductive invariant holds of every run, whatever crashes, write faults and
\* edits happen: a command that will save the lock store holds its sentinel and
\* will save something derived from what is on disk.
THEOREM Invariance == Spec => []IInv
  BY InitIInv, NextIInv, PTL DEF Spec

\* Type correctness of the claim files, the stores and the commands' memory.
THEOREM TypeCorrect == Spec => []TypeOK
<1>1. IInv => TypeOK
  BY DEF IInv
<1> QED
  BY <1>1, Invariance, PTL

\* No sequence of commands, crashes and failed writes leaves the lock store's
\* stamp or baselines of a claim without its ledger record, so that Audit's
\* lock-ledger-deleted always accuses somebody else.
THEOREM NeverDeleted == Spec => []NeverLooksDeleted
<1>1. IInv => NeverLooksDeleted
  BY DEF IInv
<1> QED
  BY <1>1, Invariance, PTL

-----------------------------------------------------------------------------
(* What a save of the lock store may change. *)

\* Where a command saves the store it has in memory.
Saving == {"lock.save", "unlock.save", "reaudit.save", "roof.save"}

\* The store on disk changes only by a save of what a command has in memory, and
\* the claim files do not change in that step.  The rollback of a set lock
\* rewrites the store with what is on disk.
LEMMA StoreSteps ==
  ASSUME IInv, [Next]_vars
  PROVE  \/ store' = store
         \/ \E p \in Procs : pc[p] \in Saving /\ store' = mem[p].st
<1>1. ASSUME NEW p \in Procs, Start(p) PROVE store' = store
  BY <1>1 DEF Start, Preview, LockLoad, UnlockLoad, ReauditLoad, FlagLoad, CommentLoad,
              CheckLoad, RoofLoad
<1>2. ASSUME NEW p \in Procs, Step(p)
      PROVE  store' = store \/ (pc[p] \in Saving /\ store' = mem[p].st)
  <2>1. CASE LockSave(p) \/ UnlockSave(p) \/ ReauditSave(p) \/ RoofSave(p)
    BY <2>1 DEF LockSave, UnlockSave, ReauditSave, RoofSave, Saving
  <2>2. CASE LockRestore(p)
    BY <2>2 DEF LockRestore, IInv, StoreGuarded, StoreHeld, Link
  <2>3. CASE \/ LockAdmit(p) \/ LockRefuse(p) \/ LockSaveFails(p)
             \/ UnlockSweep(p) \/ UnlockFlag(p) \/ CheckSweep(p) \/ RoofFile(p)
    BY <2>3 DEF LockAdmit, LockRefuse, LockSaveFails, UnlockSweep, UnlockFlag, CheckSweep, RoofFile
  <2>4. ASSUME NEW c \in Claims,
               \/ LockWrite(p, c) \/ LockWriteFails(p, c) \/ LockSign(p, c) \/ LockUndo(p, c)
               \/ UnlockClaim(p, c) \/ FlagSave(p, c) \/ FlagClaim(p, c)
        PROVE  store' = store
    BY <2>4 DEF LockWrite, LockWriteFails, LockSign, LockUndo, UnlockClaim, FlagSave, FlagClaim
  <2>5. ASSUME NEW c \in Claims,
               \/ ReauditApply(p, c) \/ ReauditRefuse(p, c) \/ ReauditSign(p, c)
               \/ ReauditClaim(p, c) \/ ReauditFlag(p, c)
               \/ CommentClaim(p, c) \/ CommentDigest(p, c) \/ CheckWrite(p, c)
               \/ Refused(p, c)
        PROVE  store' = store
    BY <2>5 DEF ReauditApply, ReauditRefuse, ReauditSign, ReauditClaim, ReauditFlag,
                CommentClaim, CommentDigest, CheckWrite, Refused
  <2>6. CASE Timeout(p) \/ Fails(p)
    BY <2>6 DEF Timeout, Fails
  <2> QED
    BY <1>2, <2>1, <2>2, <2>3, <2>4, <2>5, <2>6 DEF Step
<1>3. CASE Outside
  BY <1>3 DEF Outside, Crash, RemoveStale, EditDraft, Tamper, EditRoof
<1>4. CASE UNCHANGED vars
  BY <1>4 DEF vars
<1> QED
  BY <1>1, <1>2, <1>3, <1>4 DEF Next

\* What the invariant says where a command saves the store.
LEMMA SavingLinks ==
  ASSUME IInv, NEW p \in Procs, pc[p] \in Saving
  PROVE  /\ \A c \in Claims : store.rec[c] # None => mem[p].st.rec[c] # None
         /\ mem[p].st.roof = store.roof \/ mem[p].st = [store EXCEPT !.roof = mem[p].st.roof]
         /\ \A c \in Claims :
               Standing(store, c) /\ mem[p].st.rec[c] # None /\ mem[p].st.rec[c].released
                  => file[c].status = "draft"
<1>1. pc[p] \in StoreHeld /\ pc[p] # "reaudit.flag"
  BY DEF Saving, StoreHeld
<1>2. Link(pc[p], mem[p], store) /\ ReleaseLink(pc[p], mem[p], store, file)
  BY <1>1 DEF IInv, StoreGuarded, ReleaseGuarded
<1>3. pc[p] \notin {"roof.save", "reaudit.flag"} => mem[p].st.roof = store.roof
  BY <1>2 DEF Link
<1>4. pc[p] = "roof.save" => mem[p].st = [store EXCEPT !.roof = mem[p].st.roof]
  BY <1>2 DEF Link
<1> QED
  BY <1>1, <1>2, <1>3, <1>4 DEF Link, ReleaseLink

\* "Nothing in this build deletes a record", for every project and every
\* interleaving of commands, crashes, write faults and edits.
THEOREM RecordsKept == Spec => RecordsNeverLost
<1>1. IInv /\ [Next]_vars => [\A c \in Claims : store.rec[c] # None => store'.rec[c] # None]_vars
  BY StoreSteps, SavingLinks
<1> QED
  BY <1>1, Invariance, PTL DEF Spec, RecordsNeverLost

\* The lock-store sentinel alone serialises constitution lock with the claim
\* commands: the step that changes the constitution's record changes nothing else.
THEOREM UpdatesKept == Spec => NoLostUpdate
<1>1. IInv /\ [Next]_vars
         => [store'.roof # store.roof => store' = [store EXCEPT !.roof = store'.roof]]_vars
  BY StoreSteps, SavingLinks
<1> QED
  BY <1>1, Invariance, PTL DEF Spec, NoLostUpdate

\* A release reaches the lock store only when the claim file already says draft,
\* so a kill between unlock's writes leaves a finding and not an open gate.
THEOREM ReleaseOrdered == Spec => ReleaseFollowsDraft
<1>1. IInv /\ [Next]_vars
         => [\A c \in Claims : Standing(store, c) /\ store'.rec[c] # None /\ store'.rec[c].released
                                  => file[c].status = "draft"]_vars
  <2> SUFFICES ASSUME IInv, [Next]_vars, NEW c \in Claims, Standing(store, c),
                      store'.rec[c] # None, store'.rec[c].released
               PROVE  file[c].status = "draft"
    OBVIOUS
  <2>1. CASE store' = store
    BY <2>1 DEF Standing
  <2>2. CASE \E p \in Procs : pc[p] \in Saving /\ store' = mem[p].st
    BY <2>2, SavingLinks
  <2> QED
    BY <2>1, <2>2, StoreSteps
<1> QED
  BY <1>1, Invariance, PTL DEF Spec, ReleaseFollowsDraft

-----------------------------------------------------------------------------
(* The shapes a step has. *)

LEMMA Goes ==
  ASSUME TypeOK, NEW p \in Procs, NEW l, NEW m, Goto(p, l, m)
  PROVE  pc'[p] = l /\ mem'[p] = m /\ \A q \in Procs \ {p} : pc'[q] = pc[q] /\ mem'[q] = mem[q]
  BY DEF TypeOK, Goto

LEMMA Ends ==
  ASSUME TypeOK, NEW p \in Procs, End(p)
  PROVE  pc'[p] = "idle" /\ mem'[p] = Blank /\ \A q \in Procs \ {p} : pc'[q] = pc[q] /\ mem'[q] = mem[q]
  BY Goes DEF End

LEMMA BudgetFalls ==
  ASSUME TypeOK, UNCHANGED budget \/ Fault
  PROVE  (Steady' => Steady /\ UNCHANGED budget) /\ (Untampered' => Untampered)
<1>1. CASE UNCHANGED budget
  BY <1>1 DEF Steady, Untampered
<1>2. CASE Fault
  BY <1>2, BoundsAssumption DEF Fault, TypeOK, Budgets, Steady, Untampered
<1> QED
  BY <1>1, <1>2

LEMMA Phases == /\ InLock \subseteq ClaimsHeld /\ InLock \subseteq StoreHeld /\ "idle" \notin ClaimsHeld
                /\ "reviewed" \notin ClaimsHeld /\ "roof.file" \notin ClaimsHeld /\ "roof.save" \notin ClaimsHeld
  BY DEF InLock, ClaimsHeld, StoreHeld, Labels

\* One process at a time is in the middle of a claim command.
LEMMA OnlyHolder ==
  ASSUME IInv, NEW p \in Procs, pc[p] \in ClaimsHeld \/ holder["claims"] = None
  PROVE  \A q \in Procs \ {p} : pc[q] \notin ClaimsHeld /\ pc[q] \notin InLock
  BY Phases, ProcsAssumption DEF IInv, ClaimsGuarded

\* A step of the process that holds, or takes, the claims sentinel.
LEMMA HolderStep ==
  ASSUME AInv, IInv', NEW p \in Procs, pc[p] \in ClaimsHeld \/ holder["claims"] = None,
         NEW l, NEW m, pc'[p] = l, mem'[p] = m,
         \A q \in Procs \ {p} : pc'[q] = pc[q] /\ mem'[q] = mem[q],
         Steady' => Steady, Untampered' => Untampered,
         \A c \in Claims : approved[c] \subseteq approved'[c],
         \A c \in Claims : \/ store'.rec[c] = store.rec[c]
                           \/ (Steady' \/ Untampered') /\ Standing(store, c)'
                                 => store'.rec[c].hash \in approved'[c],
         \A c \in Claims : \/ file'[c] = file[c]
                           \/ Untampered' /\ file'[c].status = "locked"
                                 => LockedClaimHash(file'[c]) \in approved'[c],
         \A c \in Claims : Steady' /\ file'[c].status = "locked" =>
            \/ Standing(store, c)'
            \/ l \in InLock /\ c \in m.ids
            \/ /\ file'[c] = file[c] /\ store'.rec[c] = store.rec[c]
               /\ ~(pc[p] \in InLock /\ c \in mem[p].ids),
         l \in ClaimsHeld => Knows(l, m)'
  PROVE  AInv'
<1>1. \A q \in Procs \ {p} : pc'[q] \notin ClaimsHeld /\ pc[q] \notin InLock
  BY OnlyHolder DEF AInv
<1>2. \A q \in Procs : pc'[q] \in ClaimsHeld => Knows(pc[q], mem[q])'
  BY <1>1
<1>3. RecordsApproved'
  BY DEF AInv, RecordsApproved, Standing
<1>4. FilesApproved'
  BY DEF AInv, FilesApproved
<1>5. FilesRecorded'
  <2> SUFFICES ASSUME Steady', NEW c \in Claims, file'[c].status = "locked", ~Standing(store, c)'
               PROVE  \E q \in Procs : pc'[q] \in InLock /\ c \in mem'[q].ids
    BY DEF FilesRecorded
  <2>1. CASE l \in InLock /\ c \in m.ids
    BY <2>1
  <2>2. CASE /\ file'[c] = file[c] /\ store'.rec[c] = store.rec[c]
             /\ ~(pc[p] \in InLock /\ c \in mem[p].ids)
    <3>1. Steady /\ file[c].status = "locked" /\ ~Standing(store, c)
      BY <2>2 DEF Standing
    <3>2. PICK q \in Procs : pc[q] \in InLock /\ c \in mem[q].ids
      BY <3>1 DEF AInv, FilesRecorded
    <3> QED
      BY <1>1, <2>2, <3>2
  <2> QED
    BY <2>1, <2>2
<1> QED
  BY <1>2, <1>3, <1>4, <1>5 DEF AInv

\* A step that writes no claim file and no record.
LEMMA HolderReads ==
  ASSUME AInv, IInv', NEW p \in Procs, pc[p] \in ClaimsHeld \/ holder["claims"] = None,
         NEW l, NEW m, pc'[p] = l, mem'[p] = m,
         \A q \in Procs \ {p} : pc'[q] = pc[q] /\ mem'[q] = mem[q],
         Steady' => Steady, Untampered' => Untampered,
         \A c \in Claims : approved[c] \subseteq approved'[c],
         file' = file, store' = store,
         Steady' /\ pc[p] \in InLock => l \in InLock /\ m.ids = mem[p].ids,
         l \in ClaimsHeld => Knows(l, m)'
  PROVE  AInv'
  BY HolderStep

\* A step of nobody who works on the claims, or one that only ends a command.
LEMMA AsideStep ==
  ASSUME AInv, IInv',
         \A q \in Procs : pc'[q] \in ClaimsHeld => pc'[q] = pc[q] /\ mem'[q] = mem[q],
         Steady' => \A q \in Procs : pc[q] \in InLock => pc'[q] = pc[q] /\ mem'[q] = mem[q],
         Steady' => Steady, Untampered' => Untampered,
         UNCHANGED <<approved, flags>>,
         \A c \in Claims : store'.rec[c] = store.rec[c],
         \A c \in Claims : file'[c].status = file[c].status,
         \A c \in Claims : Untampered' /\ file[c].status = "locked" => file'[c] = file[c]
  PROVE  AInv'
<1>1. RecordsApproved'
  BY DEF AInv, RecordsApproved, Standing
<1>2. FilesApproved'
  BY DEF AInv, FilesApproved
<1>3. FilesRecorded'
  BY DEF AInv, FilesRecorded, Standing
<1>4. ASSUME NEW q \in Procs, pc'[q] \in ClaimsHeld PROVE Knows(pc[q], mem[q])'
  <2>1. PICK l, m : l = pc[q] /\ m = mem[q] /\ l = pc'[q] /\ m = mem'[q]
    BY <1>4
  <2>2. Knows(l, m)
    BY <1>4, <2>1 DEF AInv
  <2>a. mem[q] \in Memory
    BY DEF AInv, IInv, TypeOK
  <2>b. m.ids \subseteq Claims /\ m.left \subseteq Claims
    BY <2>1, <2>a DEF Memory
  <2>3. ASSUME NEW c \in Unwritten(l, m)
        PROVE  /\ file'[c].status = m.snap[c].status
               /\ Untampered' /\ m.snap[c].status = "locked" => file'[c] = m.snap[c]
    <3>1. c \in Claims
      BY <2>b DEF Unwritten
    <3>2. /\ file[c].status = m.snap[c].status
          /\ Untampered /\ m.snap[c].status = "locked" => file[c] = m.snap[c]
      BY <2>2 DEF Knows, Kept
    <3> QED
      BY <3>1, <3>2
  <2>4. ASSUME l \in InLock PROVE LockKnows(l, m)'
    <3>1. LockKnows(l, m)
      BY <2>2, <2>4 DEF Knows
    <3>5. ASSUME l # "lock.undo", NEW c \in m.ids \ Unwritten(l, m)
          PROVE  file'[c].status = "locked" /\ (Untampered' => file'[c] = Locked(m.snap[c]))
      BY <2>b, <3>1, <3>5 DEF LockKnows
    <3>6. ASSUME l = "lock.undo", Steady', NEW c \in m.ids \ m.left PROVE file'[c].status = "draft"
      BY <2>b, <3>1, <3>6 DEF LockKnows
    <3>7. \A c \in m.ids : LockedClaimHash(m.snap[c]) \in approved'[c]
      BY <3>1 DEF LockKnows
    <3> QED
      BY <3>1, <3>5, <3>6, <3>7 DEF LockKnows
  <2>5. ReauditKnows(l, m)'
    BY <2>2 DEF Knows, ReauditKnows
  <2>6. ASSUME l = "check.write" PROVE CheckKnows(m)'
    <3>1. CheckKnows(m)
      BY <2>2, <2>6 DEF Knows
    <3>2. ASSUME NEW c \in Claims \ Unwritten("check.write", m)
          PROVE  /\ file'[c].status = "locked"
                 /\ Untampered' => /\ [file'[c] EXCEPT !.pending = TRUE] = [m.snap[c] EXCEPT !.pending = TRUE]
                                   /\ flags'[c] # None \/ OpenThreads(file'[c]) # {} => file'[c].pending
      BY <3>1, <3>2 DEF CheckKnows
    <3> QED
      BY <3>1, <3>2 DEF CheckKnows
  <2>7. WillSave(l, m)'
    <3>1. WillSave(l, m)
      BY <2>2 DEF Knows
    <3>4. ASSUME NEW c \in m.ids, l = "unlock.save" PROVE file'[c].status = "draft" /\ ~Standing(m.st, c)
      BY <2>b, <3>1, <3>4 DEF WillSave, StoreHeld
    <3>5. \A c \in Claims \ Signed(l, m) : l \in StoreHeld \ {"lock.undo", "reaudit.flag"} => m.st.rec[c] = store'.rec[c]
      BY <3>1 DEF WillSave
    <3>6. \A c \in m.ids : l \in {"reaudit.sign", "reaudit.claim", "reaudit.save"} =>
              /\ Standing(m.st, c)
              /\ Steady' \/ Untampered' => m.st.rec[c].hash \in approved'[c]
      BY <3>1 DEF WillSave, StoreHeld
    <3> QED
      BY <3>1, <3>4, <3>5, <3>6 DEF WillSave
  <2>8. Knows(l, m)'
    BY <2>2, <2>3, <2>4, <2>5, <2>6, <2>7 DEF Knows, Kept, Standing
  <2> QED
    BY <2>1, <2>8
<1> QED
  BY <1>1, <1>2, <1>3, <1>4 DEF AInv

-----------------------------------------------------------------------------
(* Steps that leave the claims alone. *)

\* A command returns, and no file of the claims was written in that step.
LEMMA EndAside ==
  ASSUME AInv, IInv', NEW p \in Procs, End(p), UNCHANGED budget \/ Fault,
         pc[p] \notin InLock \/ ~Steady', UNCHANGED <<file, store, flags, approved>>
  PROVE  AInv'
<1>1. pc'[p] = "idle" /\ \A q \in Procs \ {p} : pc'[q] = pc[q] /\ mem'[q] = mem[q]
  BY Ends DEF AInv, IInv
<1>2. (Steady' => Steady) /\ (Untampered' => Untampered)
  BY BudgetFalls DEF AInv, IInv
<1>3. \A q \in Procs : pc'[q] \in ClaimsHeld => pc'[q] = pc[q] /\ mem'[q] = mem[q]
  BY <1>1, Phases
<1>4. Steady' => \A q \in Procs : pc[q] \in InLock => pc'[q] = pc[q] /\ mem'[q] = mem[q]
  BY <1>1
<1> QED
  BY <1>2, <1>3, <1>4, AsideStep

LEMMA EndingsKeepA ==
  ASSUME AInv, NEW p \in Procs,
         \/ LockRefuse(p) \/ Timeout(p) \/ Fails(p)
         \/ \E c \in Claims : Refused(p, c) \/ ReauditRefuse(p, c) \/ CommentDigest(p, c)
  PROVE  AInv'
<1> USE DEF AInv
<1>1. CASE LockRefuse(p)
  BY <1>1, LockRefuseKeeps, EndAside DEF LockRefuse, InLock
<1>2. CASE Timeout(p)
  BY <1>2, TimeoutKeeps, EndAside DEF Timeout, StoreWanted, InLock
<1>3. CASE Fails(p)
  BY <1>3, FailsKeeps, EndAside DEF Fails, InLock
<1>4. ASSUME NEW c \in Claims, Refused(p, c) PROVE AInv'
  BY <1>4, RefusedKeeps, EndAside DEF Refused, InLock
<1>5. ASSUME NEW c \in Claims, ReauditRefuse(p, c) PROVE AInv'
  <2>1. UNCHANGED budget \/ Fault
    BY <1>5 DEF ReauditRefuse, SweepDigest
  <2> QED
    BY <1>5, <2>1, ReauditRefuseKeeps, EndAside DEF ReauditRefuse, InLock
<1>6. ASSUME NEW c \in Claims, CommentDigest(p, c) PROVE AInv'
  BY <1>6, CommentDigestKeeps, EndAside DEF CommentDigest, InLock
<1> QED
  BY <1>1, <1>2, <1>3, <1>4, <1>5, <1>6

\* The preview and constitution lock never hold the claims sentinel.
LEMMA ApartKeepsA ==
  ASSUME AInv, NEW p \in Procs,
         \/ \E B \in Batches : Preview(p, B)
         \/ RoofLoad(p) \/ RoofFile(p) \/ RoofSave(p)
  PROVE  AInv'
<1>1. TypeOK /\ StoreGuarded
  BY DEF AInv, IInv
<1>2. IInv'
  BY PreviewKeeps, RoofLoadKeeps, RoofFileKeeps, RoofSaveKeeps DEF AInv
<1>3. PICK l \in {"idle", "reviewed", "roof.file", "roof.save"} :
         pc[p] \notin InLock /\ pc'[p] = l /\ \A q \in Procs \ {p} : pc'[q] = pc[q] /\ mem'[q] = mem[q]
  <2>1. CASE \E B \in Batches : Preview(p, B)
    BY <1>1, <2>1, Goes DEF Preview, InLock
  <2>2. CASE RoofLoad(p)
    BY <1>1, <2>2, Goes DEF RoofLoad, InLock
  <2>3. CASE RoofFile(p)
    BY <1>1, <2>3, Goes DEF RoofFile, InLock
  <2>4. CASE RoofSave(p)
    BY <1>1, <2>4, Ends DEF RoofSave, InLock
  <2> QED
    BY <2>1, <2>2, <2>3, <2>4
<1>4. UNCHANGED <<file, flags, approved, budget>>
  BY DEF Preview, RoofLoad, RoofFile, RoofSave
<1>5. \A c \in Claims : store'.rec[c] = store.rec[c]
  <2>1. CASE RoofSave(p)
    <3>1. pc[p] = "roof.save" /\ pc[p] \in StoreHeld /\ store' = mem[p].st
      BY <2>1 DEF RoofSave, StoreHeld
    <3>2. mem[p].st = [store EXCEPT !.roof = mem[p].st.roof]
      BY <1>1, <3>1 DEF StoreGuarded, Link
    <3>3. store \in LockStore
      BY <1>1 DEF TypeOK
    <3> QED
      BY <3>1, <3>2, <3>3 DEF LockStore
  <2>2. CASE ~RoofSave(p)
    BY <2>2 DEF Preview, RoofLoad, RoofFile
  <2> QED
    BY <2>1, <2>2
<1>6. (Steady' <=> Steady) /\ (Untampered' <=> Untampered)
  BY <1>4 DEF Steady, Untampered
<1> QED
  BY <1>2, <1>3, <1>4, <1>5, <1>6, Phases, AsideStep

\* Kills, editors and hands.
LEMMA OutsideKeepsA == ASSUME AInv, Outside PROVE AInv'
<1>1. TypeOK /\ file \in Files
  BY DEF AInv, IInv, TypeOK
<1>2. IInv'
  BY CrashKeeps, RemoveStaleKeeps, EditsKeep DEF Outside, AInv
<1>3. CASE \E p \in Procs : Crash(p)
  <2>1. PICK p \in Procs : Crash(p)
    BY <1>3
  <2>2. pc'[p] = "idle" /\ \A q \in Procs \ {p} : pc'[q] = pc[q] /\ mem'[q] = mem[q]
    BY <1>1, <2>1, Goes DEF Crash
  <2>3. ~Steady' /\ (Untampered' => Untampered)
    BY <1>1, <2>1, BoundsAssumption DEF Crash, TypeOK, Budgets, Steady, Untampered
  <2> QED
    BY <1>2, <2>1, <2>2, <2>3, Phases, AsideStep DEF Crash
<1>4. CASE \E s \in Sentinels : RemoveStale(s)
  <2>1. UNCHANGED <<file, store, flags, pc, mem, budget, approved>>
    BY <1>4 DEF RemoveStale
  <2> QED
    BY <1>2, <2>1, AsideStep DEF Steady, Untampered
<1>5. CASE \E r \in Constitution : EditRoof(r)
  <2>1. UNCHANGED <<file, store, flags, pc, mem, approved>>
    BY <1>5 DEF EditRoof
  <2>2. (Steady' => Steady) /\ (Untampered' => Untampered)
    BY <1>1, <1>5 DEF EditRoof, TypeOK, Budgets, Steady, Untampered
  <2> QED
    BY <1>2, <2>1, <2>2, AsideStep
<1>6. ASSUME NEW c \in Claims, NEW k \in Contents, EditDraft(c, k) PROVE AInv'
  <2>1. UNCHANGED <<store, flags, pc, mem, approved>>
    BY <1>6 DEF EditDraft
  <2>2. (Steady' => Steady) /\ (Untampered' => Untampered)
    BY <1>1, <1>6 DEF EditDraft, TypeOK, Budgets, Steady, Untampered
  <2>3. /\ file[c].status = "draft" /\ file'[c].status = "draft"
        /\ \A d \in Claims \ {c} : file'[d] = file[d]
    BY <1>1, <1>6 DEF EditDraft, Files, ClaimFile
  <2> QED
    BY <1>2, <2>1, <2>2, <2>3, AsideStep
<1>7. ASSUME NEW c \in Claims, NEW f \in ClaimFile, Tamper(c, f) PROVE AInv'
  <2>1. UNCHANGED <<store, flags, pc, mem, approved>>
    BY <1>7 DEF Tamper
  <2>2. (Steady' => Steady) /\ ~Untampered'
    BY <1>1, <1>7, BoundsAssumption DEF Tamper, TypeOK, Budgets, Steady, Untampered
  <2>3. file'[c].status = file[c].status /\ \A d \in Claims \ {c} : file'[d] = file[d]
    BY <1>1, <1>7 DEF Tamper, Files, ClaimFile
  <2> QED
    BY <1>2, <2>1, <2>2, <2>3, AsideStep
<1> QED
  BY <1>3, <1>4, <1>5, <1>6, <1>7 DEF Outside

-----------------------------------------------------------------------------
(* A claim command takes its sentinel and loads the claims. *)

Loading == {"lock.store", "unlock.store", "flag.save", "reaudit.store", "comment.claim", "check.store"}

\* What is loaded is what is on disk: approved if it is locked, and recorded, as no
\* set lock is running.
LEMMA LoadStep ==
  ASSUME AInv, IInv', NEW p \in Procs, holder["claims"] = None, pc[p] \notin InLock,
         NEW l \in Loading, NEW m, m.snap = file, pc'[p] = l, mem'[p] = m,
         \A q \in Procs \ {p} : pc'[q] = pc[q] /\ mem'[q] = mem[q],
         UNCHANGED <<file, store, approved, budget>>,
         l \in AboutOne => \A c, d \in m.ids : c = d,
         l \in {"flag.save", "reaudit.store"} => \A c \in m.ids : file[c].status = "locked",
         l = "comment.claim" => \A c \in m.ids :
            m.out[c].status = file[c].status /\ LockedClaimHash(m.out[c]) = LockedClaimHash(file[c])
  PROVE  AInv'
<1>1. (Steady' <=> Steady) /\ (Untampered' <=> Untampered)
  BY DEF Steady, Untampered
<1>2. /\ l \notin InLock /\ l \notin StoreHeld /\ l # "check.write"
      /\ l \notin {"reaudit.sign", "reaudit.claim", "flag.claim"} /\ Unwritten(l, m) = Claims
  BY DEF Loading, InLock, StoreHeld, Unwritten
<1>3. \A q \in Procs : pc[q] \notin InLock
  BY OnlyHolder DEF AInv
<1>4. ASSUME NEW c \in Claims, m.snap[c].status = "locked"
      PROVE  /\ Untampered' => LockedClaimHash(m.snap[c]) \in approved'[c]
             /\ Steady' => Standing(store, c)'
  BY <1>1, <1>3, <1>4 DEF AInv, FilesApproved, FilesRecorded, Standing
<1>5. Kept(l, m)'
  BY <1>2 DEF Kept
<1>6. WillSave(l, m)' /\ ReauditKnows(l, m)'
  BY <1>2 DEF WillSave, ReauditKnows
<1>7. Knows(l, m)'
  BY <1>2, <1>4, <1>5, <1>6 DEF Knows
<1> QED
  BY <1>1, <1>7, HolderReads

LEMMA LoadsKeepA ==
  ASSUME AInv, NEW p \in Procs,
         \/ LockLoad(p) \/ CheckLoad(p)
         \/ \E c \in Claims : \/ UnlockLoad(p, c) \/ ReauditLoad(p, c)
                              \/ \E b \in Bodies : FlagLoad(p, c, b)
                              \/ \E t \in Threads, op \in CommentOp : CommentLoad(p, c, t, op)
  PROVE  AInv'
<1>a. IInv /\ TypeOK /\ file \in Files
  BY DEF AInv, IInv, TypeOK
<1>1. CASE LockLoad(p)
  <2>1. PICK m : m = [mem[p] EXCEPT !.snap = file]
    OBVIOUS
  <2>2. m.snap = file
    BY <1>a, <2>1 DEF TypeOK, Memory
  <2>3. Goto(p, "lock.store", m) /\ Take("claims", p) /\ pc[p] = "reviewed"
        /\ UNCHANGED <<file, store, approved, budget>>
    BY <1>1, <2>1 DEF LockLoad
  <2> QED
    BY <1>1, <1>a, <2>2, <2>3, Goes, LockLoadKeeps, LoadStep DEF Take, Free, Loading, InLock, AboutOne
<1>2. CASE CheckLoad(p)
  <2>1. PICK m : m = [Blank EXCEPT !.snap = file, !.tok = file]
    OBVIOUS
  <2>2. m.snap = file
    BY <2>1 DEF Blank
  <2>3. Goto(p, "check.store", m) /\ Take("claims", p) /\ pc[p] = "idle"
        /\ UNCHANGED <<file, store, approved, budget>>
    BY <1>2, <2>1 DEF CheckLoad
  <2> QED
    BY <1>2, <1>a, <2>2, <2>3, Goes, CheckLoadKeeps, LoadStep DEF Take, Free, Loading, InLock, AboutOne
<1>3. ASSUME NEW c \in Claims, UnlockLoad(p, c) \/ ReauditLoad(p, c) PROVE AInv'
  <2>1. PICK m : m = [Blank EXCEPT !.ids = {c}, !.snap = file, !.tok = file]
    OBVIOUS
  <2>2. m.snap = file /\ m.ids = {c}
    BY <2>1 DEF Blank
  <2>3. PICK l \in {"unlock.store", "reaudit.store"} :
           Goto(p, l, m) /\ (l = "reaudit.store" => file[c].status = "locked")
    BY <1>3, <2>1 DEF UnlockLoad, ReauditLoad, Load
  <2>4. Take("claims", p) /\ pc[p] = "idle" /\ UNCHANGED <<file, store, approved, budget>>
    BY <1>3 DEF UnlockLoad, ReauditLoad, Load
  <2>5. IInv'
    BY <1>3, <1>a, UnlockLoadKeeps, ReauditLoadKeeps
  <2>6. l \in Loading /\ pc[p] \notin InLock /\ holder["claims"] = None
    BY <2>4 DEF Loading, InLock, Take, Free
  <2>7. pc'[p] = l /\ mem'[p] = m /\ \A q \in Procs \ {p} : pc'[q] = pc[q] /\ mem'[q] = mem[q]
    BY <1>a, <2>3, Goes
  <2> QED
    BY <2>2, <2>3, <2>4, <2>5, <2>6, <2>7, LoadStep
<1>4. ASSUME NEW c \in Claims, NEW b \in Bodies, FlagLoad(p, c, b) PROVE AInv'
  <2>1. PICK m : m = [Blank EXCEPT !.ids = {c}, !.snap = file, !.tok = file, !.note = b]
    OBVIOUS
  <2>2. m.snap = file /\ m.ids = {c}
    BY <2>1 DEF Blank
  <2>3. /\ Goto(p, "flag.save", m) /\ Take("claims", p) /\ pc[p] = "idle" /\ file[c].status = "locked"
        /\ UNCHANGED <<file, store, approved, budget>>
    BY <1>4, <2>1 DEF FlagLoad
  <2>4. IInv'
    BY <1>4, <1>a, FlagLoadKeeps
  <2> QED
    BY <1>a, <2>2, <2>3, <2>4, Goes, LoadStep DEF Take, Free, Loading, InLock, AboutOne
<1>5. ASSUME NEW c \in Claims, NEW t \in Threads, NEW op \in CommentOp, CommentLoad(p, c, t, op)
      PROVE  AInv'
  <2> DEFINE f == [file[c] EXCEPT !.threads[t] = op[2]]
             pending == IF f.status = "locked" THEN Recompute(c, [file EXCEPT ![c] = f], store, flags) ELSE f.pending
             out == [[file EXCEPT ![c] = f] EXCEPT ![c].pending = pending]
  <2>1. PICK m : m = [Blank EXCEPT !.ids = {c}, !.snap = file, !.tok = file, !.out = out]
    OBVIOUS
  <2>2. m.snap = file /\ m.ids = {c} /\ m.out = out
    BY <2>1 DEF Blank
  <2>3. /\ Goto(p, "comment.claim", m) /\ Take("claims", p) /\ pc[p] = "idle"
        /\ UNCHANGED <<file, store, approved, budget>>
    BY <1>5, <2>1 DEF CommentLoad
  <2>4. /\ out[c].status = file[c].status /\ LockedClaimHash(out[c]) = LockedClaimHash(file[c])
    <3>1. f.status = file[c].status /\ f.body = file[c].body /\ f.extra = file[c].extra
      BY <1>a DEF Files, ClaimFile
    <3>2. out[c] = [f EXCEPT !.pending = pending]
      BY <1>a DEF Files
    <3> HIDE DEF f, pending, out
    <3>3. out[c].status = f.status /\ out[c].body = f.body /\ out[c].extra = f.extra
      BY <3>2
    <3> QED
      BY <3>1, <3>3 DEF LockedClaimHash
  <2>5. IInv'
    BY <1>5, <1>a, CommentLoadKeeps
  <2> HIDE DEF f, pending, out
  <2>6. \A d \in m.ids : m.out[d].status = file[d].status /\ LockedClaimHash(m.out[d]) = LockedClaimHash(file[d])
    BY <2>2, <2>4
  <2> QED
    BY <1>a, <2>2, <2>3, <2>5, <2>6, Goes, LoadStep DEF Take, Free, Loading, InLock, AboutOne
<1> QED
  BY <1>1, <1>2, <1>3, <1>4, <1>5

-----------------------------------------------------------------------------
(* What a step of the holder leaves true of what it knows. *)

\* A command that holds the claims sentinel has loaded the claims.
LEMMA Held ==
  ASSUME AInv, NEW p \in Procs, pc[p] \in ClaimsHeld
  PROVE  /\ Knows(pc[p], mem[p]) /\ Fits(pc[p], mem[p]) /\ mem[p] \in Memory /\ mem[p].snap \in Files
         /\ mem[p].ids \subseteq Claims /\ mem[p].left \subseteq Claims
         /\ pc[p] \in StoreHeld => Link(pc[p], mem[p], store)
  BY MemTyped DEF AInv, IInv, Fits, Memory, StoreGuarded

\* What was known of the files it has not written is still true if it wrote none
\* of them, and so is what was known of the claims that were locked.
LEMMA KnowsOn ==
  ASSUME NEW l, NEW m, Knows(l, m), NEW k, NEW n, n.snap = m.snap,
         Unwritten(k, n) \subseteq Unwritten(l, m),
         \A c \in Unwritten(k, n) : file'[c] = file[c],
         \A c \in Claims : approved[c] \subseteq approved'[c],
         \A c \in Claims : Standing(store, c) => Standing(store, c)',
         Steady' => Steady, Untampered' => Untampered
  PROVE  /\ Kept(k, n)'
         /\ \A c \in Claims : n.snap[c].status = "locked" =>
               /\ Untampered' => LockedClaimHash(n.snap[c]) \in approved'[c]
               /\ Steady' => Standing(store, c)'
<1>1. Kept(k, n)'
  BY DEF Knows, Kept
<1>2. ASSUME NEW c \in Claims, n.snap[c].status = "locked"
      PROVE  /\ Untampered' => LockedClaimHash(n.snap[c]) \in approved'[c]
             /\ Steady' => Standing(store, c)'
  BY <1>2 DEF Knows
<1> QED
  BY <1>1, <1>2

-----------------------------------------------------------------------------
(* claim lock. *)

LEMMA LockAdmitKeepsA == ASSUME AInv, NEW p \in Procs, LockAdmit(p) PROVE AInv'
<1>a. IInv /\ TypeOK /\ IInv'
  BY LockAdmitKeeps DEF AInv, IInv
<1>b. pc[p] = "lock.store" /\ pc[p] \in ClaimsHeld /\ UNCHANGED <<file, store, budget>>
  BY DEF LockAdmit, ClaimsHeld, Labels
<1>1. PICK m : m = mem[p]
  OBVIOUS
<1>2. /\ Knows("lock.store", m) /\ m \in Memory /\ m.snap \in Files /\ m.ids \subseteq Claims
  BY <1>b, <1>1, Held
<1>3. PICK n : n = [m EXCEPT !.left = m.ids, !.tok = file, !.st = store, !.raw = store, !.dg = digest]
  OBVIOUS
<1>4. n.snap = m.snap /\ n.ids = m.ids /\ n.left = m.ids /\ n.st = store
  BY <1>2, <1>3 DEF Memory
<1>5. /\ pc'[p] = "lock.write" /\ mem'[p] = n
      /\ \A q \in Procs \ {p} : pc'[q] = pc[q] /\ mem'[q] = mem[q]
  BY <1>a, <1>1, <1>3, Goes DEF LockAdmit
<1>6. \A c \in Claims : approved[c] \subseteq approved'[c]
  BY DEF LockAdmit
<1>7. \A c \in m.ids : /\ m.snap[c].status = "draft" /\ OpenThreads(m.snap[c]) = {}
                       /\ LockedClaimHash(m.snap[c]) \in approved'[c]
  BY <1>1, <1>2 DEF LockAdmit, LockAllowed, Admissible
<1>8. (Steady' <=> Steady) /\ (Untampered' <=> Untampered)
  BY <1>b DEF Steady, Untampered
<1>9. Unwritten("lock.write", n) \subseteq Unwritten("lock.store", m) /\ m.ids \subseteq Unwritten("lock.write", n)
  BY <1>2, <1>4 DEF Unwritten
<1>10. /\ Kept("lock.write", n)'
       /\ \A c \in Claims : n.snap[c].status = "locked" =>
             /\ Untampered' => LockedClaimHash(n.snap[c]) \in approved'[c]
             /\ Steady' => Standing(store, c)'
  BY <1>b, <1>2, <1>4, <1>6, <1>8, <1>9, KnowsOn DEF Standing
<1>11. LockKnows("lock.write", n)'
  BY <1>4, <1>7, <1>9 DEF LockKnows
<1>12. WillSave("lock.write", n)'
  BY <1>b, <1>4 DEF WillSave, Signed
<1>13. Knows("lock.write", n)'
  BY <1>10, <1>11, <1>12 DEF Knows, ReauditKnows, AboutOne, InLock
<1> QED
  BY <1>a, <1>b, <1>5, <1>6, <1>8, <1>13, HolderReads DEF InLock

LEMMA LockWriteKeepsA ==
  ASSUME AInv, NEW p \in Procs, NEW c \in Claims, LockWrite(p, c) PROVE AInv'
<1>a. IInv /\ TypeOK /\ IInv' /\ file \in Files
  BY LockWriteKeeps DEF AInv, IInv, TypeOK
<1>b. pc[p] = "lock.write" /\ pc[p] \in ClaimsHeld /\ UNCHANGED <<store, budget, approved>>
  BY DEF LockWrite, ClaimsHeld, Labels
<1>1. PICK m : m = mem[p]
  OBVIOUS
<1>2. /\ Knows("lock.write", m) /\ m \in Memory /\ m.snap \in Files
      /\ m.ids \subseteq Claims /\ m.left \subseteq Claims
  BY <1>b, <1>1, Held
<1>3. LockKnows("lock.write", m) /\ WillSave("lock.write", m)
  BY <1>2 DEF Knows, InLock
<1>4. c \in m.left /\ c \in m.ids
  BY <1>1, <1>3 DEF LockWrite, LockKnows
<1>5. PICK k \in {"lock.write", "lock.sign"}, left \in SUBSET m.ids :
         /\ Goto(p, k, [m EXCEPT !.left = left])
         /\ k = "lock.write" => left = m.left \ {c}
         /\ k = "lock.sign" => left = m.ids /\ m.left \ {c} = {}
  BY <1>1, <1>3 DEF LockWrite, LoopNext, LockKnows
<1>6. PICK n : n = [m EXCEPT !.left = left]
  OBVIOUS
<1>7. n.snap = m.snap /\ n.ids = m.ids /\ n.left = left /\ n.st = m.st
  BY <1>2, <1>6 DEF Memory
<1>8. pc'[p] = k /\ mem'[p] = n /\ \A q \in Procs \ {p} : pc'[q] = pc[q] /\ mem'[q] = mem[q]
  BY <1>a, <1>5, <1>6, Goes
<1>9. (Steady' <=> Steady) /\ (Untampered' <=> Untampered)
  BY <1>b DEF Steady, Untampered
<1>10. file'[c] = Locked(m.snap[c]) /\ \A d \in Claims \ {c} : file'[d] = file[d]
  BY <1>a, <1>1 DEF LockWrite, SaveClaimIfUnchanged, Files
<1>11. /\ file'[c].status = "locked"
       /\ LockedClaimHash(file'[c]) = LockedClaimHash(m.snap[c])
  BY <1>2, <1>10 DEF Locked, Files, ClaimFile, LockedClaimHash
<1>12. /\ Unwritten(k, n) \subseteq Unwritten("lock.write", m) /\ c \notin Unwritten(k, n)
       /\ (m.ids \ {c}) \ Unwritten(k, n) \subseteq m.ids \ Unwritten("lock.write", m)
       /\ Unwritten(k, n) \subseteq Claims
  BY <1>2, <1>4, <1>5, <1>7 DEF Unwritten
<1>13. /\ Kept(k, n)'
       /\ \A d \in Claims : n.snap[d].status = "locked" =>
             /\ Untampered' => LockedClaimHash(n.snap[d]) \in approved'[d]
             /\ Steady' => Standing(store, d)'
  <2>1. \A d \in Unwritten(k, n) : file'[d] = file[d]
    BY <1>10, <1>12
  <2> QED
    BY <1>b, <1>2, <1>7, <1>9, <1>12, <2>1, KnowsOn DEF Standing
<1>14. LockKnows(k, n)'
  <2>1. ASSUME NEW d \in n.ids \ Unwritten(k, n)
        PROVE  file'[d].status = "locked" /\ (Untampered' => file'[d] = Locked(n.snap[d]))
    BY <1>2, <1>3, <1>7, <1>9, <1>10, <1>11, <1>12 DEF LockKnows
  <2>2. n.left \subseteq n.ids /\ k # "lock.undo"
    BY <1>3, <1>5, <1>7 DEF LockKnows
  <2>3. \A d \in n.ids : /\ n.snap[d].status = "draft" /\ OpenThreads(n.snap[d]) = {}
                         /\ LockedClaimHash(n.snap[d]) \in approved'[d]
    BY <1>b, <1>3, <1>7 DEF LockKnows
  <2> QED
    BY <2>1, <2>2, <2>3 DEF LockKnows
<1>15. WillSave(k, n)'
  BY <1>b, <1>3, <1>5, <1>7 DEF WillSave, Signed, StoreHeld
<1>16. Knows(k, n)'
  BY <1>13, <1>14, <1>15 DEF Knows, ReauditKnows, AboutOne, InLock
<1>17. \A d \in Claims : \/ file'[d] = file[d]
                         \/ Untampered' /\ file'[d].status = "locked"
                               => LockedClaimHash(file'[d]) \in approved'[d]
  BY <1>b, <1>3, <1>4, <1>10, <1>11 DEF LockKnows
<1>18. k \in InLock /\ \A d \in Claims : \/ d \in n.ids
                                         \/ file'[d] = file[d] /\ d \notin mem[p].ids
  BY <1>1, <1>4, <1>7, <1>10 DEF InLock
<1> QED
  BY <1>a, <1>b, <1>8, <1>9, <1>16, <1>17, <1>18, HolderStep

\* A refused or failed write: the rollback starts with the members already written.
LEMMA LockWriteFailsKeepsA ==
  ASSUME AInv, NEW p \in Procs, NEW c \in Claims, LockWriteFails(p, c) PROVE AInv'
<1>a. IInv /\ TypeOK /\ IInv'
  BY LockWriteFailsKeeps DEF AInv, IInv
<1>b. pc[p] = "lock.write" /\ pc[p] \in ClaimsHeld /\ UNCHANGED <<file, store, approved>>
  BY DEF LockWriteFails, ClaimsHeld, Labels
<1>1. PICK m : m = mem[p]
  OBVIOUS
<1>2. /\ Knows("lock.write", m) /\ m \in Memory /\ m.snap \in Files
      /\ m.ids \subseteq Claims /\ m.left \subseteq Claims
  BY <1>b, <1>1, Held
<1>3. LockKnows("lock.write", m) /\ Kept("lock.write", m)
  BY <1>2 DEF Knows, InLock
<1>4. PICK n : n = [m EXCEPT !.left = m.ids \ m.left]
  OBVIOUS
<1>5. n.snap = m.snap /\ n.ids = m.ids /\ n.left = m.ids \ m.left
  BY <1>2, <1>4 DEF Memory
<1>6. /\ pc'[p] = "lock.undo" /\ mem'[p] = n
      /\ \A q \in Procs \ {p} : pc'[q] = pc[q] /\ mem'[q] = mem[q]
  BY <1>a, <1>1, <1>2, <1>4, Goes DEF LockWriteFails, Memory
<1>7. (Steady' => Steady) /\ (Untampered' => Untampered)
  BY <1>a, BudgetFalls DEF LockWriteFails
<1>8. Unwritten("lock.undo", n) \subseteq Unwritten("lock.write", m)
      /\ m.left \subseteq Unwritten("lock.write", m)
  BY <1>5 DEF Unwritten
<1>9. /\ Kept("lock.undo", n)'
      /\ \A d \in Claims : n.snap[d].status = "locked" =>
            /\ Untampered' => LockedClaimHash(n.snap[d]) \in approved'[d]
            /\ Steady' => Standing(store, d)'
  BY <1>b, <1>2, <1>5, <1>7, <1>8, KnowsOn DEF Standing
<1>10. LockKnows("lock.undo", n)'
  <2>1. ASSUME NEW d \in n.ids \ n.left PROVE file'[d].status = "draft"
    BY <1>b, <1>3, <1>5, <1>8 DEF LockKnows, Kept
  <2>2. \A d \in n.ids : /\ n.snap[d].status = "draft" /\ OpenThreads(n.snap[d]) = {}
                         /\ LockedClaimHash(n.snap[d]) \in approved'[d]
    BY <1>b, <1>3, <1>5 DEF LockKnows
  <2> QED
    BY <1>5, <2>1, <2>2 DEF LockKnows
<1>11. Knows("lock.undo", n)'
  BY <1>9, <1>10 DEF Knows, ReauditKnows, WillSave, AboutOne, InLock
<1> QED
  BY <1>a, <1>b, <1>1, <1>5, <1>6, <1>7, <1>11, HolderReads DEF InLock

LEMMA LockSignKeepsA ==
  ASSUME AInv, NEW p \in Procs, NEW c \in Claims, LockSign(p, c) PROVE AInv'
<1>a. IInv /\ TypeOK /\ IInv'
  BY LockSignKeeps DEF AInv, IInv
<1>b. pc[p] = "lock.sign" /\ pc[p] \in ClaimsHeld /\ pc[p] \in StoreHeld /\ UNCHANGED <<file, store, approved>>
  BY DEF LockSign, ClaimsHeld, StoreHeld, Labels
<1>1. PICK m : m = mem[p]
  OBVIOUS
<1>2. /\ Knows("lock.sign", m) /\ m \in Memory /\ m.snap \in Files /\ m.st \in LockStore
      /\ m.ids \subseteq Claims /\ m.left \subseteq Claims /\ m.snap[c] \in ClaimFile
  BY <1>b, <1>1, Held DEF Fits, Files
<1>3. LockKnows("lock.sign", m) /\ WillSave("lock.sign", m)
  BY <1>2 DEF Knows, InLock
<1>4. c \in m.left /\ c \in m.ids
  BY <1>1, <1>3 DEF LockSign, LockKnows
<1>5. PICK u : u = RefreshBaseline(m.st, c, m.snap)
  OBVIOUS
<1>6. PICK t : t = RecordApproval(u, c, m.snap[c])
  OBVIOUS
<1>7. u \in LockStore /\ u.rec = m.st.rec
  BY <1>2, <1>5, RefreshTyped
<1>8. t.rec[c] = [hash |-> LockedClaimHash(m.snap[c]), released |-> FALSE]
      /\ \A d \in Claims \ {c} : t.rec[d] = m.st.rec[d]
  BY <1>2, <1>6, <1>7, RecordTyped
<1>9. PICK k \in {"lock.sign", "lock.save"}, left \in SUBSET m.ids :
         /\ Goto(p, k, [m EXCEPT !.st = t, !.left = left])
         /\ k = "lock.sign" => left = m.left \ {c}
         /\ k = "lock.save" => left = m.ids /\ m.left \ {c} = {}
  <2>1. PICK v : v = [m EXCEPT !.st = t]
    OBVIOUS
  <2>2. v.left = m.left /\ v.ids = m.ids
    BY <1>2, <2>1 DEF Memory
  <2>3. Goto(p, IF v.left \ {c} = {} THEN "lock.save" ELSE "lock.sign",
             [v EXCEPT !.left = IF v.left \ {c} = {} THEN v.ids ELSE v.left \ {c}])
    BY <1>1, <1>5, <1>6, <2>1 DEF LockSign
  <2>4. \A x : [v EXCEPT !.left = x] = [m EXCEPT !.st = t, !.left = x]
    BY <2>1
  <2>5. Goto(p, IF m.left \ {c} = {} THEN "lock.save" ELSE "lock.sign",
             [m EXCEPT !.st = t, !.left = IF m.left \ {c} = {} THEN m.ids ELSE m.left \ {c}])
    BY <2>2, <2>3, <2>4
  <2> QED
    <3>1. m.ids \in SUBSET m.ids /\ m.left \ {c} \in SUBSET m.ids
      BY <1>3 DEF LockKnows
    <3> QED
      BY <2>5, <3>1
<1>10. PICK n : n = [m EXCEPT !.st = t, !.left = left]
  OBVIOUS
<1>11. n.snap = m.snap /\ n.ids = m.ids /\ n.left = left /\ n.st = t
  BY <1>2, <1>10 DEF Memory
<1>12. pc'[p] = k /\ mem'[p] = n /\ \A q \in Procs \ {p} : pc'[q] = pc[q] /\ mem'[q] = mem[q]
  BY <1>a, <1>9, <1>10, Goes
<1>13. (Steady' => Steady) /\ (Untampered' => Untampered)
  BY <1>a, BudgetFalls DEF LockSign, RecordDigest
<1>14. Unwritten(k, n) = Unwritten("lock.sign", m)
  BY <1>11 DEF Unwritten
<1>15. /\ Kept(k, n)'
       /\ \A d \in Claims : n.snap[d].status = "locked" =>
             /\ Untampered' => LockedClaimHash(n.snap[d]) \in approved'[d]
             /\ Steady' => Standing(store, d)'
  BY <1>b, <1>2, <1>11, <1>13, <1>14, KnowsOn DEF Standing
<1>16. LockKnows(k, n)'
  <2>1. n.left \subseteq n.ids /\ k # "lock.undo"
    BY <1>3, <1>9, <1>11 DEF LockKnows
  <2> QED
    BY <1>b, <1>3, <1>11, <1>13, <1>14, <2>1 DEF LockKnows
<1>17. WillSave(k, n)'
  <2>1. Signed(k, n) \subseteq Signed("lock.sign", m) \cup {c} /\ Signed("lock.sign", m) \subseteq Signed(k, n)
        /\ c \in Signed(k, n)
    BY <1>4, <1>9, <1>11 DEF Signed
  <2>2. \A d \in Claims \ Signed("lock.sign", m) : m.st.rec[d] = store'.rec[d]
    BY <1>b, <1>3 DEF WillSave, StoreHeld
  <2>3. \A d \in Signed("lock.sign", m) : m.st.rec[d] = [hash |-> LockedClaimHash(m.snap[d]), released |-> FALSE]
    BY <1>3 DEF WillSave, StoreHeld
  <2>4. Signed("lock.sign", m) \subseteq Claims
    BY <1>2 DEF Signed
  <2> QED
    BY <1>8, <1>11, <2>1, <2>2, <2>3, <2>4 DEF WillSave
<1>18. Knows(k, n)'
  BY <1>15, <1>16, <1>17 DEF Knows, ReauditKnows, AboutOne, InLock
<1> QED
  BY <1>a, <1>b, <1>1, <1>11, <1>12, <1>13, <1>18, HolderReads DEF InLock

LEMMA LockSaveKeepsA == ASSUME AInv, NEW p \in Procs, LockSave(p) PROVE AInv'
<1>a. IInv /\ TypeOK /\ IInv'
  BY LockSaveKeeps DEF AInv, IInv
<1>b. /\ pc[p] = "lock.save" /\ pc[p] \in ClaimsHeld /\ pc[p] \in StoreHeld
      /\ UNCHANGED <<file, approved, budget>> /\ store' = mem[p].st
  BY DEF LockSave, ClaimsHeld, StoreHeld, Labels
<1>1. PICK m : m = mem[p]
  OBVIOUS
<1>2. Knows("lock.save", m) /\ m.ids \subseteq Claims /\ m.snap \in Files /\ m.st \in LockStore
  BY <1>b, <1>1, Held DEF Fits
<1>3. LockKnows("lock.save", m) /\ WillSave("lock.save", m)
  BY <1>2 DEF Knows, InLock
<1>4. \A c \in Claims \ m.ids : store'.rec[c] = store.rec[c]
  BY <1>b, <1>1, <1>3 DEF WillSave, Signed, StoreHeld
<1>5. \A c \in m.ids : store'.rec[c] = [hash |-> LockedClaimHash(m.snap[c]), released |-> FALSE]
  BY <1>b, <1>1, <1>3 DEF WillSave, Signed, StoreHeld
<1>6. \A c \in m.ids : Standing(store, c)' /\ store'.rec[c].hash \in approved'[c]
  <2> SUFFICES ASSUME NEW c \in m.ids PROVE Standing(store, c)' /\ store'.rec[c].hash \in approved'[c]
    OBVIOUS
  <2>0. PICK h : h = LockedClaimHash(m.snap[c])
    OBVIOUS
  <2>1. h \in Contents /\ store'.rec[c] = [hash |-> h, released |-> FALSE]
    BY <1>2, <1>5, <2>0, HashTyped DEF Files
  <2>a. [hash |-> h, released |-> FALSE] \in LedgerRecord
    BY <2>1 DEF LedgerRecord
  <2>2. store'.rec[c] # None
    BY <2>1, <2>a, NoneAssumption
  <2>3. store'.rec[c].hash = h /\ store'.rec[c].released = FALSE
    BY <2>1
  <2> QED
    BY <1>b, <1>3, <2>0, <2>2, <2>3 DEF Standing, LockKnows
<1>7. pc'[p] = "idle" /\ \A q \in Procs \ {p} : pc'[q] = pc[q] /\ mem'[q] = mem[q]
  BY <1>a, Ends DEF LockSave
<1>8. PICK n : n = mem'[p]
  OBVIOUS
<1>9. (Steady' <=> Steady) /\ (Untampered' <=> Untampered)
  BY <1>b DEF Steady, Untampered
<1>10. \A c \in Claims : \/ store'.rec[c] = store.rec[c]
                         \/ (Steady' \/ Untampered') /\ Standing(store, c)'
                               => store'.rec[c].hash \in approved'[c]
  BY <1>4, <1>6
<1>11. \A c \in Claims : \/ Standing(store, c)'
                         \/ /\ file'[c] = file[c] /\ store'.rec[c] = store.rec[c]
                            /\ ~(pc[p] \in InLock /\ c \in mem[p].ids)
  BY <1>b, <1>1, <1>4, <1>6
<1> QED
  BY <1>a, <1>b, <1>7, <1>8, <1>9, <1>10, <1>11, Phases, HolderStep

LEMMA LockSaveFailsKeepsA == ASSUME AInv, NEW p \in Procs, LockSaveFails(p) PROVE AInv'
<1>a. IInv /\ TypeOK /\ IInv'
  BY LockSaveFailsKeeps DEF AInv, IInv
<1>b. pc[p] = "lock.save" /\ pc[p] \in ClaimsHeld /\ UNCHANGED <<file, store, approved>>
  BY DEF LockSaveFails, ClaimsHeld, Labels
<1>1. PICK m : m = mem[p]
  OBVIOUS
<1>2. Knows("lock.save", m) /\ m.ids \subseteq Claims
  BY <1>b, <1>1, Held
<1>3. /\ pc'[p] = "lock.undo" /\ mem'[p] = m
      /\ \A q \in Procs \ {p} : pc'[q] = pc[q] /\ mem'[q] = mem[q]
  BY <1>a, <1>1, Goes DEF LockSaveFails
<1>4. ~Steady' /\ (Untampered' => Untampered)
  BY <1>a, BoundsAssumption DEF LockSaveFails, Fault, TypeOK, Budgets, Steady, Untampered
<1>5. /\ Kept("lock.undo", m)'
      /\ \A d \in Claims : m.snap[d].status = "locked" =>
            /\ Untampered' => LockedClaimHash(m.snap[d]) \in approved'[d]
            /\ Steady' => Standing(store, d)'
  BY <1>b, <1>2, <1>4, KnowsOn DEF Standing, Unwritten
<1>6. LockKnows("lock.undo", m)'
  BY <1>b, <1>2, <1>4 DEF Knows, LockKnows, InLock
<1>7. Knows("lock.undo", m)'
  BY <1>5, <1>6 DEF Knows, ReauditKnows, WillSave, AboutOne, InLock
<1> QED
  BY <1>a, <1>b, <1>3, <1>4, <1>7, HolderReads

LEMMA LockUndoKeepsA ==
  ASSUME AInv, NEW p \in Procs, NEW c \in Claims, LockUndo(p, c) PROVE AInv'
<1>a. IInv /\ TypeOK /\ IInv' /\ file \in Files
  BY LockUndoKeeps DEF AInv, IInv, TypeOK
<1>b. pc[p] = "lock.undo" /\ pc[p] \in ClaimsHeld /\ UNCHANGED <<store, approved>>
  BY DEF LockUndo, ClaimsHeld, Labels
<1>1. PICK m : m = mem[p]
  OBVIOUS
<1>2. /\ Knows("lock.undo", m) /\ m \in Memory /\ m.snap \in Files
      /\ m.ids \subseteq Claims /\ m.left \subseteq Claims
  BY <1>b, <1>1, Held
<1>3. LockKnows("lock.undo", m) /\ c \in m.left /\ c \in m.ids
  BY <1>1, <1>2 DEF Knows, InLock, LockUndo, LockKnows
<1>4. PICK n : n = [m EXCEPT !.left = m.left \ {c}]
  OBVIOUS
<1>5. n.snap = m.snap /\ n.ids = m.ids /\ n.left = m.left \ {c}
  BY <1>2, <1>4 DEF Memory
<1>6. /\ pc'[p] = "lock.undo" /\ mem'[p] = n
      /\ \A q \in Procs \ {p} : pc'[q] = pc[q] /\ mem'[q] = mem[q]
  BY <1>a, <1>1, <1>4, Goes DEF LockUndo
<1>7. (Steady' => Steady /\ UNCHANGED budget) /\ (Untampered' => Untampered)
  BY <1>a, BudgetFalls DEF LockUndo
<1>8. /\ \A d \in Claims \ {c} : file'[d] = file[d]
      /\ file' = file \/ file'[c] = m.snap[c]
      /\ Steady' => file'[c] = m.snap[c]
  BY <1>a, <1>1, <1>7, BoundsAssumption DEF LockUndo, Files, Fault, TypeOK, Budgets
<1>9. m.snap[c].status = "draft"
  BY <1>3 DEF LockKnows
<1>10. Unwritten("lock.undo", n) = Claims \ m.ids /\ Unwritten("lock.undo", m) = Claims \ m.ids
  BY <1>5 DEF Unwritten
<1>11. /\ Kept("lock.undo", n)'
       /\ \A d \in Claims : n.snap[d].status = "locked" =>
             /\ Untampered' => LockedClaimHash(n.snap[d]) \in approved'[d]
             /\ Steady' => Standing(store, d)'
  BY <1>b, <1>2, <1>3, <1>5, <1>7, <1>8, <1>10, KnowsOn DEF Standing
<1>12. LockKnows("lock.undo", n)'
  <2>1. ASSUME Steady', NEW d \in n.ids \ n.left PROVE file'[d].status = "draft"
    BY <1>2, <1>3, <1>5, <1>7, <1>8, <1>9, <2>1 DEF LockKnows
  <2>2. n.left \subseteq n.ids
    BY <1>3, <1>5 DEF LockKnows
  <2>3. \A d \in n.ids : /\ n.snap[d].status = "draft" /\ OpenThreads(n.snap[d]) = {}
                         /\ LockedClaimHash(n.snap[d]) \in approved'[d]
    BY <1>b, <1>3, <1>5 DEF LockKnows
  <2> QED
    BY <2>1, <2>2, <2>3 DEF LockKnows
<1>13. Knows("lock.undo", n)'
  BY <1>11, <1>12 DEF Knows, ReauditKnows, WillSave, AboutOne, InLock
<1>14. \A d \in Claims : \/ file'[d] = file[d]
                         \/ file'[d].status # "locked"
  BY <1>8, <1>9
<1>15. \A d \in Claims : \/ d \in n.ids
                         \/ file'[d] = file[d] /\ d \notin mem[p].ids
  BY <1>1, <1>3, <1>5, <1>8
<1> QED
  BY <1>a, <1>b, <1>6, <1>7, <1>13, <1>14, <1>15, HolderStep DEF InLock

LEMMA LockRestoreKeepsA == ASSUME AInv, NEW p \in Procs, LockRestore(p) PROVE AInv'
<1>a. IInv /\ TypeOK /\ IInv'
  BY LockRestoreKeeps DEF AInv, IInv
<1>b. pc[p] = "lock.undo" /\ pc[p] \in ClaimsHeld /\ pc[p] \in StoreHeld /\ UNCHANGED <<file, approved>>
  BY DEF LockRestore, ClaimsHeld, StoreHeld, Labels
<1>1. PICK m : m = mem[p]
  OBVIOUS
<1>2. Knows("lock.undo", m) /\ Link("lock.undo", m, store) /\ m.ids \subseteq Claims /\ m.left = {}
  BY <1>b, <1>1, Held DEF LockRestore
<1>3. LockKnows("lock.undo", m) /\ store' = store
  BY <1>1, <1>2 DEF Knows, InLock, LockRestore, Link
<1>4. pc'[p] = "idle" /\ \A q \in Procs \ {p} : pc'[q] = pc[q] /\ mem'[q] = mem[q]
  BY <1>a, Ends DEF LockRestore
<1>5. (Steady' => Steady) /\ (Untampered' => Untampered)
  BY <1>a, BudgetFalls DEF LockRestore
<1>6. PICK n : n = mem'[p]
  OBVIOUS
<1>7. \A c \in Claims : Steady' /\ file'[c].status = "locked" => c \notin m.ids
  BY <1>b, <1>2, <1>3, <1>5 DEF LockKnows
<1>8. \A c \in Claims : Steady' /\ file'[c].status = "locked" =>
         /\ file'[c] = file[c] /\ store'.rec[c] = store.rec[c]
         /\ ~(pc[p] \in InLock /\ c \in mem[p].ids)
  BY <1>b, <1>1, <1>3, <1>7
<1> QED
  BY <1>a, <1>b, <1>3, <1>4, <1>5, <1>6, <1>8, Phases, HolderStep

-----------------------------------------------------------------------------
(* claim unlock. *)

\* A step of the holder that keeps its memory and writes no claim file and no record.
LEMMA SameKnown ==
  ASSUME AInv, IInv', NEW p \in Procs, pc[p] \in ClaimsHeld, pc[p] \notin InLock,
         NEW k, Goto(p, k, mem[p]), UNCHANGED <<file, store, approved>>, UNCHANGED budget \/ Fault,
         Unwritten(k, mem[p]) \subseteq Unwritten(pc[p], mem[p]),
         k \notin InLock, k # "comment.claim", k # "check.write",
         k \in AboutOne => pc[p] \in AboutOne,
         k \in {"flag.save", "flag.claim", "reaudit.store", "reaudit.sign", "reaudit.claim"} =>
            pc[p] \in {"flag.save", "flag.claim", "reaudit.store", "reaudit.sign", "reaudit.claim"},
         ReauditKnows(pc[p], mem[p]) => ReauditKnows(k, mem[p]),
         k \in StoreHeld \ {"lock.undo", "reaudit.flag"} =>
            /\ pc[p] \in StoreHeld \ {"lock.undo", "reaudit.flag"}
            /\ Signed(k, mem[p]) = Signed(pc[p], mem[p])
            /\ k # "unlock.save" /\ k \notin {"lock.sign", "lock.save"}
            /\ k \in {"reaudit.sign", "reaudit.claim", "reaudit.save"} =>
                  pc[p] \in {"reaudit.sign", "reaudit.claim", "reaudit.save"}
  PROVE  AInv'
<1>a. IInv /\ TypeOK
  BY DEF AInv, IInv
<1>1. PICK m, l : m = mem[p] /\ l = pc[p]
  OBVIOUS
<1>2. Knows(l, m)
  BY <1>1, Held
<1>3. pc'[p] = k /\ mem'[p] = m /\ \A q \in Procs \ {p} : pc'[q] = pc[q] /\ mem'[q] = mem[q]
  BY <1>a, <1>1, Goes
<1>4. (Steady' => Steady) /\ (Untampered' => Untampered)
  BY <1>a, BudgetFalls
<1>5. /\ Kept(k, m)'
      /\ \A d \in Claims : m.snap[d].status = "locked" =>
            /\ Untampered' => LockedClaimHash(m.snap[d]) \in approved'[d]
            /\ Steady' => Standing(store, d)'
  BY <1>1, <1>2, <1>4, KnowsOn DEF Standing
<1>6. WillSave(k, m)'
  <2>1. WillSave(l, m)
    BY <1>2 DEF Knows
  <2>2. SUFFICES ASSUME k \in StoreHeld \ {"lock.undo", "reaudit.flag"} PROVE WillSave(k, m)'
    BY DEF WillSave
  <2>3. /\ l \in StoreHeld \ {"lock.undo", "reaudit.flag"} /\ Signed(k, m) = Signed(l, m)
        /\ k # "unlock.save" /\ k \notin {"lock.sign", "lock.save"}
    BY <1>1, <2>2
  <2>4. \A c \in Claims \ Signed(k, m) : m.st.rec[c] = store'.rec[c]
    BY <2>1, <2>3 DEF WillSave
  <2>5. ASSUME k \in {"reaudit.sign", "reaudit.claim", "reaudit.save"}
        PROVE  \A c \in m.ids : /\ Standing(m.st, c)
                                /\ Steady' \/ Untampered' => m.st.rec[c].hash \in approved'[c]
    BY <1>1, <1>4, <2>1, <2>2, <2>3, <2>5 DEF WillSave
  <2> QED
    BY <2>3, <2>4, <2>5 DEF WillSave
<1>7. ReauditKnows(k, m)'
  BY <1>1, <1>2 DEF Knows, ReauditKnows
<1>8. Knows(k, m)'
  BY <1>1, <1>2, <1>5, <1>6, <1>7 DEF Knows
<1> QED
  BY <1>3, <1>4, <1>8, HolderReads

LEMMA UnlockSweepKeepsA == ASSUME AInv, NEW p \in Procs, UnlockSweep(p) PROVE AInv'
<1>a. IInv /\ TypeOK /\ IInv'
  BY UnlockSweepKeeps DEF AInv, IInv
<1>b. /\ pc[p] = "unlock.store" /\ pc[p] \in ClaimsHeld /\ pc[p] \notin InLock
      /\ UNCHANGED <<file, store, approved>>
  BY DEF UnlockSweep, ClaimsHeld, Labels, InLock
<1>1. PICK m : m = mem[p]
  OBVIOUS
<1>2. Knows("unlock.store", m) /\ m \in Memory
  BY <1>b, <1>1, Held
<1>3. PICK n : n = [m EXCEPT !.st = store]
  OBVIOUS
<1>4. n.snap = m.snap /\ n.ids = m.ids /\ n.st = store
  BY <1>2, <1>3 DEF Memory
<1>5. /\ pc'[p] = "unlock.flag" /\ mem'[p] = n
      /\ \A q \in Procs \ {p} : pc'[q] = pc[q] /\ mem'[q] = mem[q]
  BY <1>a, <1>1, <1>3, Goes DEF UnlockSweep
<1>6. (Steady' => Steady) /\ (Untampered' => Untampered)
  BY <1>a, BudgetFalls DEF UnlockSweep, SweepDigest
<1>7. Unwritten("unlock.flag", n) = Claims /\ Unwritten("unlock.store", m) = Claims
  BY DEF Unwritten
<1>8. /\ Kept("unlock.flag", n)'
      /\ \A d \in Claims : n.snap[d].status = "locked" =>
            /\ Untampered' => LockedClaimHash(n.snap[d]) \in approved'[d]
            /\ Steady' => Standing(store, d)'
  BY <1>b, <1>2, <1>4, <1>6, <1>7, KnowsOn DEF Standing
<1>9. WillSave("unlock.flag", n)'
  BY <1>b, <1>4 DEF WillSave
<1>10. Knows("unlock.flag", n)'
  BY <1>2, <1>4, <1>8, <1>9 DEF Knows, ReauditKnows, AboutOne, ClaimsHeld, InLock, Labels
<1> QED
  BY <1>a, <1>b, <1>5, <1>6, <1>10, HolderReads

LEMMA UnlockFlagKeepsA == ASSUME AInv, NEW p \in Procs, UnlockFlag(p) PROVE AInv'
<1>1. IInv'
  BY UnlockFlagKeeps DEF AInv
<1>2. pc[p] = "unlock.flag" /\ Goto(p, "unlock.claim", mem[p]) /\ UNCHANGED <<file, store, approved, budget>>
  BY DEF UnlockFlag
<1> QED
  BY <1>1, <1>2, SameKnown DEF ClaimsHeld, StoreHeld, Labels, InLock, AboutOne, Unwritten, Signed, ReauditKnows

\* The claim goes back to draft, and its release is in memory.
LEMMA UnlockClaimKeepsA ==
  ASSUME AInv, NEW p \in Procs, NEW c \in Claims, UnlockClaim(p, c) PROVE AInv'
<1>a. IInv /\ TypeOK /\ IInv' /\ file \in Files
  BY UnlockClaimKeeps DEF AInv, IInv, TypeOK
<1>b. /\ pc[p] = "unlock.claim" /\ pc[p] \in ClaimsHeld /\ pc[p] \in StoreHeld /\ pc[p] \notin InLock
      /\ UNCHANGED <<store, approved, budget>>
  BY DEF UnlockClaim, ClaimsHeld, StoreHeld, Labels, InLock
<1>1. PICK m : m = mem[p]
  OBVIOUS
<1>2. /\ Knows("unlock.claim", m) /\ m \in Memory /\ m.snap \in Files /\ m.st \in LockStore
      /\ m.ids \subseteq Claims
  BY <1>b, <1>1, Held DEF Fits
<1>3. c \in m.ids /\ (\A d \in m.ids : d = c) /\ WillSave("unlock.claim", m)
  BY <1>1, <1>2 DEF Knows, UnlockClaim, AboutOne, ClaimsHeld, InLock, Labels
<1>4. PICK t : t = ReleaseApproval(m.st, c)
  OBVIOUS
<1>5. (\A d \in Claims \ {c} : t.rec[d] = m.st.rec[d]) /\ ~Standing(t, c)
  <2>1. \A d \in Claims \ {c} : t.rec[d] = m.st.rec[d]
    BY <1>2, <1>4, ReleaseTyped
  <2>2. CASE m.st.rec[c] = None
    BY <1>4, <2>2 DEF ReleaseApproval, Standing
  <2>3. CASE m.st.rec[c] # None
    <3>1. t.rec[c] = [hash |-> m.st.rec[c].hash, released |-> TRUE]
      BY <1>2, <1>4, <2>3 DEF ReleaseApproval, LockStore
    <3>2. t.rec[c].released = TRUE
      BY <3>1
    <3> QED
      BY <2>1, <3>2 DEF Standing
  <2> QED
    BY <2>1, <2>2, <2>3
<1>6. PICK n : n = [m EXCEPT !.st = t]
  OBVIOUS
<1>7. n.snap = m.snap /\ n.ids = m.ids /\ n.st = t
  BY <1>2, <1>6 DEF Memory
<1>8. /\ pc'[p] = "unlock.save" /\ mem'[p] = n
      /\ \A q \in Procs \ {p} : pc'[q] = pc[q] /\ mem'[q] = mem[q]
  <2>1. Goto(p, "unlock.save", n)
    BY <1>1, <1>4, <1>6 DEF UnlockClaim
  <2> QED
    BY <1>a, <2>1, Goes
<1>9. (Steady' <=> Steady) /\ (Untampered' <=> Untampered)
  BY <1>b DEF Steady, Untampered
<1>10. file'[c].status = "draft" /\ \A d \in Claims \ {c} : file'[d] = file[d]
  <2>1. file' = [file EXCEPT ![c] = [m.snap[c] EXCEPT !.status = "draft", !.pending = FALSE]]
    BY <1>1 DEF UnlockClaim, SaveClaimIfUnchanged
  <2>2. [m.snap[c] EXCEPT !.status = "draft", !.pending = FALSE].status = "draft"
    BY <1>2 DEF Files, ClaimFile
  <2> QED
    BY <1>a, <2>1, <2>2 DEF Files
<1>11. Unwritten("unlock.save", n) = Claims \ m.ids /\ Unwritten("unlock.claim", m) = Claims
  BY <1>7 DEF Unwritten
<1>12. /\ Kept("unlock.save", n)'
       /\ \A d \in Claims : n.snap[d].status = "locked" =>
             /\ Untampered' => LockedClaimHash(n.snap[d]) \in approved'[d]
             /\ Steady' => Standing(store, d)'
  BY <1>b, <1>2, <1>3, <1>7, <1>9, <1>10, <1>11, KnowsOn DEF Standing
<1>13. WillSave("unlock.save", n)'
  <2>1. Signed("unlock.save", n) = m.ids /\ Signed("unlock.claim", m) = {}
    BY <1>7 DEF Signed
  <2>2. \A d \in Claims \ m.ids : n.st.rec[d] = store'.rec[d]
    BY <1>b, <1>3, <1>5, <1>7, <2>1 DEF WillSave
  <2>3. \A d \in m.ids : file'[d].status = "draft" /\ ~Standing(n.st, d)
    BY <1>3, <1>5, <1>7, <1>10
  <2> QED
    BY <1>7, <2>1, <2>2, <2>3 DEF WillSave
<1>14. Knows("unlock.save", n)'
  BY <1>2, <1>7, <1>12, <1>13 DEF Knows, ReauditKnows, AboutOne, ClaimsHeld, InLock, Labels
<1>15. \A d \in Claims : file'[d] = file[d] \/ file'[d].status # "locked"
  BY <1>10
<1> QED
  BY <1>a, <1>b, <1>8, <1>9, <1>14, <1>15, HolderStep

LEMMA UnlockSaveKeepsA == ASSUME AInv, NEW p \in Procs, UnlockSave(p) PROVE AInv'
<1>a. IInv /\ TypeOK /\ IInv'
  BY UnlockSaveKeeps DEF AInv, IInv
<1>b. /\ pc[p] = "unlock.save" /\ pc[p] \in ClaimsHeld /\ pc[p] \in StoreHeld /\ pc[p] \notin InLock
      /\ UNCHANGED <<file, approved, budget>> /\ store' = mem[p].st
  BY DEF UnlockSave, ClaimsHeld, StoreHeld, Labels, InLock
<1>1. PICK m : m = mem[p]
  OBVIOUS
<1>2. Knows("unlock.save", m) /\ m.ids \subseteq Claims
  BY <1>b, <1>1, Held
<1>3. /\ \A c \in Claims \ m.ids : store'.rec[c] = store.rec[c]
      /\ \A c \in m.ids : file'[c].status = "draft" /\ ~Standing(store, c)'
  BY <1>b, <1>1, <1>2 DEF Knows, WillSave, Signed
<1>4. PICK n : n = mem'[p]
  OBVIOUS
<1>5. pc'[p] = "idle" /\ \A q \in Procs \ {p} : pc'[q] = pc[q] /\ mem'[q] = mem[q]
  BY <1>a, Ends DEF UnlockSave
<1>6. (Steady' <=> Steady) /\ (Untampered' <=> Untampered)
  BY <1>b DEF Steady, Untampered
<1>7. \A c \in Claims : store'.rec[c] = store.rec[c] \/ ~Standing(store, c)'
  BY <1>3
<1>8. \A c \in Claims : Steady' /\ file'[c].status = "locked" =>
         file'[c] = file[c] /\ store'.rec[c] = store.rec[c]
  BY <1>b, <1>3
<1> QED
  BY <1>a, <1>b, <1>4, <1>5, <1>6, <1>7, <1>8, Phases, HolderStep

-----------------------------------------------------------------------------
(* claim flag and the comment operations. *)

LEMMA FlagSaveKeepsA ==
  ASSUME AInv, NEW p \in Procs, NEW c \in Claims, FlagSave(p, c) PROVE AInv'
<1>1. IInv'
  BY FlagSaveKeeps DEF AInv
<1>2. pc[p] = "flag.save" /\ Goto(p, "flag.claim", mem[p]) /\ UNCHANGED <<file, store, approved, budget>>
  BY DEF FlagSave
<1> QED
  BY <1>1, <1>2, SameKnown DEF ClaimsHeld, StoreHeld, Labels, InLock, AboutOne, Unwritten, ReauditKnows

\* The file of a locked claim is written as it was loaded but for its review_pending
\* bit, or its comment threads: it was approved and has its record.
LEMMA MarkStep ==
  ASSUME AInv, IInv', NEW p \in Procs, NEW c \in Claims, pc[p] \in ClaimsHeld, pc[p] \notin InLock,
         NEW f, file' = [file EXCEPT ![c] = f], UNCHANGED <<store, approved, budget>>,
         f.status = mem[p].snap[c].status, LockedClaimHash(f) = LockedClaimHash(mem[p].snap[c]),
         NEW l, NEW m, pc'[p] = l, mem'[p] = m,
         \A q \in Procs \ {p} : pc'[q] = pc[q] /\ mem'[q] = mem[q],
         l \in ClaimsHeld => Knows(l, m)'
  PROVE  AInv'
<1>a. TypeOK /\ file \in Files
  BY DEF AInv, IInv, TypeOK
<1>1. Knows(pc[p], mem[p])
  BY Held
<1>2. (Steady' <=> Steady) /\ (Untampered' <=> Untampered)
  BY DEF Steady, Untampered
<1>3. file'[c] = f /\ \A d \in Claims \ {c} : file'[d] = file[d]
  BY <1>a DEF Files
<1>4. f.status = "locked" => /\ Untampered => LockedClaimHash(f) \in approved[c]
                             /\ Steady => Standing(store, c)
  BY <1>1 DEF Knows
<1>5. \A d \in Claims : \/ file'[d] = file[d]
                        \/ Untampered' /\ file'[d].status = "locked"
                              => LockedClaimHash(file'[d]) \in approved'[d]
  BY <1>2, <1>3, <1>4
<1>6. \A d \in Claims : Steady' /\ file'[d].status = "locked" =>
         Standing(store, d)' \/ file'[d] = file[d]
  BY <1>2, <1>3, <1>4 DEF Standing
<1> QED
  BY <1>2, <1>5, <1>6, HolderStep

LEMMA FlagClaimKeepsA ==
  ASSUME AInv, NEW p \in Procs, NEW c \in Claims, FlagClaim(p, c) PROVE AInv'
<1>a. TypeOK /\ IInv'
  BY FlagClaimKeeps DEF AInv, IInv
<1>b. pc[p] = "flag.claim" /\ pc[p] \in ClaimsHeld /\ pc[p] \notin InLock
  BY DEF FlagClaim, ClaimsHeld, Labels, InLock
<1>1. mem[p].snap[c] \in ClaimFile
  BY <1>b, Held DEF Files
<1>2. PICK f : f = [mem[p].snap[c] EXCEPT !.pending = TRUE]
  OBVIOUS
<1>3. f.status = mem[p].snap[c].status /\ LockedClaimHash(f) = LockedClaimHash(mem[p].snap[c])
  BY <1>1, <1>2 DEF ClaimFile, LockedClaimHash
<1>4. pc'[p] = "idle" /\ \A q \in Procs \ {p} : pc'[q] = pc[q] /\ mem'[q] = mem[q]
  BY <1>a, Ends DEF FlagClaim
<1>5. PICK n : n = mem'[p]
  OBVIOUS
<1>6. file' = [file EXCEPT ![c] = f] /\ UNCHANGED <<store, approved, budget>>
  BY <1>2 DEF FlagClaim, SaveClaimIfUnchanged
<1> QED
  BY <1>a, <1>b, <1>3, <1>4, <1>5, <1>6, Phases, MarkStep

LEMMA CommentClaimKeepsA ==
  ASSUME AInv, NEW p \in Procs, NEW c \in Claims, CommentClaim(p, c) PROVE AInv'
<1>a. TypeOK /\ IInv' /\ file \in Files
  BY CommentClaimKeeps DEF AInv, IInv, TypeOK
<1>b. pc[p] = "comment.claim" /\ pc[p] \in ClaimsHeld /\ pc[p] \notin InLock
  BY DEF CommentClaim, ClaimsHeld, Labels, InLock
<1>1. PICK m : m = mem[p]
  OBVIOUS
<1>2. Knows("comment.claim", m) /\ m.ids \subseteq Claims
  BY <1>b, <1>1, Held
<1>3. PICK f : f = m.out[c]
  OBVIOUS
<1>4. c \in m.ids /\ f.status = m.snap[c].status /\ LockedClaimHash(f) = LockedClaimHash(m.snap[c])
  BY <1>1, <1>2, <1>3 DEF Knows, CommentClaim
<1>5. /\ pc'[p] = "comment.digest" /\ mem'[p] = m
      /\ \A q \in Procs \ {p} : pc'[q] = pc[q] /\ mem'[q] = mem[q]
  BY <1>a, <1>1, Goes DEF CommentClaim
<1>6. file' = [file EXCEPT ![c] = f] /\ UNCHANGED <<store, approved, budget>>
  BY <1>1, <1>3 DEF CommentClaim, SaveClaimIfUnchanged
<1>7. (Steady' <=> Steady) /\ (Untampered' <=> Untampered)
  BY <1>6 DEF Steady, Untampered
<1>8. Unwritten("comment.digest", m) = Claims \ m.ids /\ Unwritten("comment.claim", m) = Claims
  BY DEF Unwritten
<1>9. /\ Kept("comment.digest", m)'
      /\ \A d \in Claims : m.snap[d].status = "locked" =>
            /\ Untampered' => LockedClaimHash(m.snap[d]) \in approved'[d]
            /\ Steady' => Standing(store, d)'
  <2>1. \A d \in Unwritten("comment.digest", m) : file'[d] = file[d]
    BY <1>a, <1>4, <1>6, <1>8 DEF Files
  <2> QED
    BY <1>2, <1>6, <1>7, <1>8, <2>1, KnowsOn DEF Standing
<1>10. Knows("comment.digest", m)'
  BY <1>2, <1>9 DEF Knows, ReauditKnows, WillSave, StoreHeld, AboutOne, ClaimsHeld, InLock, Labels
<1> QED
  BY <1>a, <1>b, <1>1, <1>4, <1>5, <1>6, <1>10, MarkStep

-----------------------------------------------------------------------------
(* claim reaudit. *)

\* A record that was just signed stands.
LEMMA RecordStands ==
  ASSUME NEW st, NEW c, NEW h \in Contents, st.rec[c] = [hash |-> h, released |-> FALSE]
  PROVE  Standing(st, c) /\ st.rec[c].hash = h
<1>1. [hash |-> h, released |-> FALSE] \in LedgerRecord
  BY DEF LedgerRecord
<1>2. st.rec[c] # None
  BY <1>1, NoneAssumption
<1>3. st.rec[c].released = FALSE /\ st.rec[c].hash = h
  OBVIOUS
<1> QED
  BY <1>2, <1>3 DEF Standing

\* What a reaudit signs was approved if what it started from was; and what it started
\* from was, or it matched a record that stands.
LEMMA ReauditApplyKeepsA ==
  ASSUME AInv, NEW p \in Procs, NEW c \in Claims, ReauditApply(p, c) PROVE AInv'
<1>a. IInv /\ TypeOK /\ IInv' /\ store \in LockStore
  BY ReauditApplyKeeps DEF AInv, IInv, TypeOK
<1>b. /\ pc[p] = "reaudit.store" /\ pc[p] \in ClaimsHeld /\ pc[p] \notin InLock
      /\ UNCHANGED <<file, store>>
  BY DEF ReauditApply, ClaimsHeld, Labels, InLock
<1>1. PICK m : m = mem[p]
  OBVIOUS
<1>2. /\ Knows("reaudit.store", m) /\ m \in Memory /\ m.snap \in Files
      /\ m.ids \subseteq Claims /\ m.snap[c] \in ClaimFile /\ m.snap[c].extra < MaxExtra
  BY <1>b, <1>1, Held DEF Fits, Files, ReauditApply
<1>3. c \in m.ids /\ (\A d \in m.ids : d = c) /\ m.snap[c].status = "locked"
  BY <1>1, <1>2 DEF Knows, ReauditApply, AboutOne, ClaimsHeld, InLock, Labels
<1>4. PICK f : f = Applied(c, m.snap[c])
  OBVIOUS
<1>5. f \in ClaimFile /\ f.status = "locked"
  BY <1>a, <1>2, <1>3, <1>4, AppliedTyped DEF Applied, ClaimFile
<1>6. PICK u : u = RefreshBaseline(store, c, m.snap)
  OBVIOUS
<1>7. PICK t : t = RecordApproval(u, c, f)
  OBVIOUS
<1>8. u \in LockStore /\ u.rec = store.rec
  BY <1>a, <1>2, <1>6, RefreshTyped
<1>9. /\ t.rec[c] = [hash |-> LockedClaimHash(f), released |-> FALSE]
      /\ \A d \in Claims \ {c} : t.rec[d] = store.rec[d]
  BY <1>5, <1>7, <1>8, RecordTyped
<1>10. PICK o : o = [[m.snap EXCEPT ![c] = f] EXCEPT ![c].pending =
                        Recompute(c, [m.snap EXCEPT ![c] = f], t, [flags EXCEPT ![c] = None])]
  OBVIOUS
<1>11. o[c].status = "locked" /\ LockedClaimHash(o[c]) = LockedClaimHash(f)
  <2>1. PICK r : r = Recompute(c, [m.snap EXCEPT ![c] = f], t, [flags EXCEPT ![c] = None])
    OBVIOUS
  <2>2. o[c] = [f EXCEPT !.pending = r]
    BY <1>2, <1>10, <2>1 DEF Files
  <2> QED
    BY <1>5, <2>2 DEF ClaimFile, LockedClaimHash
<1>12. PICK n : n = [m EXCEPT !.st = t, !.note = flags[c], !.out = o]
  OBVIOUS
<1>13. n.snap = m.snap /\ n.ids = m.ids /\ n.st = t /\ n.out = o
  BY <1>2, <1>12 DEF Memory
<1>14. /\ pc'[p] = "reaudit.sign" /\ mem'[p] = n
       /\ \A q \in Procs \ {p} : pc'[q] = pc[q] /\ mem'[q] = mem[q]
  <2>1. Goto(p, "reaudit.sign", n)
    BY <1>1, <1>4, <1>6, <1>7, <1>10, <1>12 DEF ReauditApply
  <2> QED
    BY <1>a, <2>1, Goes
<1>15. (Steady' => Steady) /\ (Untampered' => Untampered)
  BY <1>a, BudgetFalls DEF ReauditApply, SweepDigest
<1>16. /\ \A d \in Claims : approved[d] \subseteq approved'[d]
       /\ LockedClaimHash(m.snap[c]) \in approved[c] => LockedClaimHash(f) \in approved'[c]
  <2>1. ApproveApplied(c, m.snap[c], f) /\ approved \in [Claims -> SUBSET Contents]
    BY <1>a, <1>1, <1>4 DEF ReauditApply, TypeOK
  <2> QED
    BY <2>1 DEF ApproveApplied
<1>17. Unwritten("reaudit.sign", n) = Claims /\ Unwritten("reaudit.store", m) = Claims
  BY DEF Unwritten
<1>18. /\ Kept("reaudit.sign", n)'
       /\ \A d \in Claims : n.snap[d].status = "locked" =>
             /\ Untampered' => LockedClaimHash(n.snap[d]) \in approved'[d]
             /\ Steady' => Standing(store, d)'
  BY <1>b, <1>2, <1>13, <1>15, <1>16, <1>17, KnowsOn DEF Standing
<1>19. Steady' \/ Untampered' => LockedClaimHash(f) \in approved'[c]
  <2>1. ASSUME Steady PROVE LockedClaimHash(m.snap[c]) \in approved[c]
    <3>1. Standing(store, c)
      BY <1>2, <1>3, <2>1 DEF Knows
    <3>2. store.rec[c].hash = LockedClaimHash(m.snap[c])
      BY <1>1, <3>1 DEF ReauditApply, ReauditAllowed
    <3> QED
      BY <2>1, <3>1, <3>2 DEF AInv, RecordsApproved
  <2>2. ASSUME Untampered PROVE LockedClaimHash(m.snap[c]) \in approved[c]
    BY <1>2, <1>3, <2>2 DEF Knows
  <2> QED
    BY <1>15, <1>16, <2>1, <2>2
<1>20. WillSave("reaudit.sign", n)'
  <2>1. Signed("reaudit.sign", n) = m.ids
    BY <1>13 DEF Signed
  <2>2. \A d \in Claims \ m.ids : n.st.rec[d] = store'.rec[d]
    BY <1>b, <1>3, <1>9, <1>13
  <2>3. LockedClaimHash(f) \in Contents
    BY <1>5, HashTyped
  <2>4. Standing(t, c) /\ t.rec[c].hash = LockedClaimHash(f)
    BY <1>9, <2>3, RecordStands
  <2> QED
    BY <1>3, <1>13, <1>19, <2>1, <2>2, <2>4 DEF WillSave
<1>21. ReauditKnows("reaudit.sign", n)'
  BY <1>3, <1>9, <1>11, <1>13 DEF ReauditKnows
<1>22. Knows("reaudit.sign", n)'
  BY <1>2, <1>3, <1>13, <1>18, <1>20, <1>21 DEF Knows, AboutOne, ClaimsHeld, InLock, Labels
<1> QED
  BY <1>a, <1>b, <1>14, <1>15, <1>16, <1>22, HolderReads

LEMMA ReauditSignKeepsA ==
  ASSUME AInv, NEW p \in Procs, NEW c \in Claims, ReauditSign(p, c) PROVE AInv'
<1>1. IInv'
  BY ReauditSignKeeps DEF AInv
<1>2. /\ pc[p] = "reaudit.sign" /\ Goto(p, "reaudit.claim", mem[p]) /\ UNCHANGED <<file, store, approved>>
      /\ UNCHANGED budget \/ Fault
  BY DEF ReauditSign, RecordDigest
<1> QED
  BY <1>1, <1>2, SameKnown
     DEF ClaimsHeld, StoreHeld, Labels, InLock, AboutOne, Unwritten, Signed, ReauditKnows

\* The file says what the record in memory signs.
LEMMA ReauditClaimKeepsA ==
  ASSUME AInv, NEW p \in Procs, NEW c \in Claims, ReauditClaim(p, c) PROVE AInv'
<1>a. IInv /\ TypeOK /\ IInv' /\ file \in Files
  BY ReauditClaimKeeps DEF AInv, IInv, TypeOK
<1>b. /\ pc[p] = "reaudit.claim" /\ pc[p] \in ClaimsHeld /\ pc[p] \in StoreHeld /\ pc[p] \notin InLock
      /\ UNCHANGED <<store, approved, budget>>
  BY DEF ReauditClaim, ClaimsHeld, StoreHeld, Labels, InLock
<1>1. PICK m : m = mem[p]
  OBVIOUS
<1>2. Knows("reaudit.claim", m) /\ m.ids \subseteq Claims /\ m.out \in Files
  BY <1>b, <1>1, Held DEF Fits
<1>3. c \in m.ids /\ (\A d \in m.ids : d = c) /\ m.snap[c].status = "locked"
  BY <1>1, <1>2 DEF Knows, ReauditClaim, AboutOne, ClaimsHeld, InLock, Labels
<1>4. /\ pc'[p] = "reaudit.save" /\ mem'[p] = m
      /\ \A q \in Procs \ {p} : pc'[q] = pc[q] /\ mem'[q] = mem[q]
  BY <1>a, <1>1, Goes DEF ReauditClaim
<1>5. (Steady' <=> Steady) /\ (Untampered' <=> Untampered)
  BY <1>b DEF Steady, Untampered
<1>6. file'[c] = m.out[c] /\ \A d \in Claims \ {c} : file'[d] = file[d]
  BY <1>a, <1>1 DEF ReauditClaim, SaveClaimIfUnchanged, Files
<1>7. LockedClaimHash(m.out[c]) \in Contents
      /\ m.st.rec[c] = [hash |-> LockedClaimHash(m.out[c]), released |-> FALSE]
  BY <1>2, <1>3, HashTyped DEF Files, Knows, ReauditKnows
<1>8. Untampered => LockedClaimHash(m.out[c]) \in approved[c]
  BY <1>2, <1>3, <1>7, RecordStands DEF Knows, WillSave, StoreHeld
<1>9. Unwritten("reaudit.save", m) = Claims \ m.ids /\ Unwritten("reaudit.claim", m) = Claims
  BY DEF Unwritten
<1>10. /\ Kept("reaudit.save", m)'
       /\ \A d \in Claims : m.snap[d].status = "locked" =>
             /\ Untampered' => LockedClaimHash(m.snap[d]) \in approved'[d]
             /\ Steady' => Standing(store, d)'
  BY <1>b, <1>2, <1>3, <1>5, <1>6, <1>9, KnowsOn DEF Standing
<1>11. WillSave("reaudit.save", m)'
  <2>1. Signed("reaudit.save", m) = m.ids /\ Signed("reaudit.claim", m) = m.ids
    BY DEF Signed
  <2>2. WillSave("reaudit.claim", m)
    BY <1>2 DEF Knows
  <2> QED
    BY <1>b, <1>5, <2>1, <2>2 DEF WillSave, StoreHeld
<1>12. Knows("reaudit.save", m)'
  BY <1>2, <1>10, <1>11 DEF Knows, ReauditKnows, AboutOne, ClaimsHeld, InLock, Labels
<1>13. \A d \in Claims : \/ file'[d] = file[d]
                         \/ Untampered' => LockedClaimHash(file'[d]) \in approved'[d]
  BY <1>b, <1>5, <1>6, <1>8
<1>14. \A d \in Claims : Steady' => Standing(store, d)' \/ file'[d] = file[d]
  BY <1>b, <1>2, <1>3, <1>5, <1>6 DEF Knows, Standing
<1> QED
  BY <1>a, <1>b, <1>4, <1>5, <1>12, <1>13, <1>14, HolderStep

LEMMA ReauditSaveKeepsA == ASSUME AInv, NEW p \in Procs, ReauditSave(p) PROVE AInv'
<1>a. IInv /\ TypeOK /\ IInv'
  BY ReauditSaveKeeps DEF AInv, IInv
<1>b. /\ pc[p] = "reaudit.save" /\ pc[p] \in ClaimsHeld /\ pc[p] \in StoreHeld /\ pc[p] \notin InLock
      /\ UNCHANGED <<file, approved, budget>> /\ store' = mem[p].st
  BY DEF ReauditSave, ClaimsHeld, StoreHeld, Labels, InLock
<1>1. PICK m : m = mem[p]
  OBVIOUS
<1>2. Knows("reaudit.save", m) /\ m.ids \subseteq Claims
  BY <1>b, <1>1, Held
<1>3. (Steady' <=> Steady) /\ (Untampered' <=> Untampered)
  BY <1>b DEF Steady, Untampered
<1>4. /\ \A c \in Claims \ m.ids : store'.rec[c] = store.rec[c]
      /\ \A c \in m.ids : /\ Standing(store, c)'
                          /\ Steady' \/ Untampered' => store'.rec[c].hash \in approved'[c]
  BY <1>b, <1>1, <1>2, <1>3 DEF Knows, WillSave, Signed
<1>5. PICK k, n : /\ pc'[p] = k /\ mem'[p] = n
                  /\ \A q \in Procs \ {p} : pc'[q] = pc[q] /\ mem'[q] = mem[q]
                  /\ k = "idle" \/ (k = "reaudit.flag" /\ n = m)
  <2>1. CASE m.note = None
    BY <1>a, <1>1, <2>1, Ends DEF ReauditSave
  <2>2. CASE m.note # None
    BY <1>a, <1>1, <2>2, Goes DEF ReauditSave
  <2> QED
    BY <2>1, <2>2
<1>6. ASSUME k \in ClaimsHeld PROVE Knows(k, n)'
  <2>1. k = "reaudit.flag" /\ n = m
    BY <1>5, <1>6, Phases
  <2>2. Unwritten("reaudit.flag", m) = Unwritten("reaudit.save", m)
    BY DEF Unwritten
  <2>3. \A c \in Claims : Standing(store, c) => Standing(store, c)'
    BY <1>4 DEF Standing
  <2>4. /\ Kept("reaudit.flag", m)'
        /\ \A d \in Claims : m.snap[d].status = "locked" =>
              /\ Untampered' => LockedClaimHash(m.snap[d]) \in approved'[d]
              /\ Steady' => Standing(store, d)'
    BY <1>b, <1>2, <1>3, <2>2, <2>3, KnowsOn
  <2> QED
    BY <1>2, <2>1, <2>4 DEF Knows, ReauditKnows, WillSave, AboutOne, ClaimsHeld, InLock, Labels
<1>7. \A c \in Claims : \/ store'.rec[c] = store.rec[c]
                        \/ Steady' \/ Untampered' => store'.rec[c].hash \in approved'[c]
  BY <1>4
<1>8. \A c \in Claims : \/ Standing(store, c)'
                        \/ file'[c] = file[c] /\ store'.rec[c] = store.rec[c]
  BY <1>b, <1>4
<1> QED
  BY <1>a, <1>b, <1>3, <1>5, <1>6, <1>7, <1>8, HolderStep

LEMMA ReauditFlagKeepsA ==
  ASSUME AInv, NEW p \in Procs, NEW c \in Claims, ReauditFlag(p, c) PROVE AInv'
<1>a. TypeOK /\ IInv'
  BY ReauditFlagKeeps DEF AInv, IInv
<1>b. /\ pc[p] = "reaudit.flag" /\ pc[p] \in ClaimsHeld /\ pc[p] \notin InLock
      /\ UNCHANGED <<file, store, approved, budget>>
  BY DEF ReauditFlag, ClaimsHeld, Labels, InLock
<1>1. pc'[p] = "idle" /\ \A q \in Procs \ {p} : pc'[q] = pc[q] /\ mem'[q] = mem[q]
  BY <1>a, Ends DEF ReauditFlag
<1>2. PICK n : n = mem'[p]
  OBVIOUS
<1>3. (Steady' <=> Steady) /\ (Untampered' <=> Untampered)
  BY <1>b DEF Steady, Untampered
<1> QED
  BY <1>a, <1>b, <1>1, <1>2, <1>3, Phases, HolderReads

-----------------------------------------------------------------------------
(* check. *)

\* What check does not mark needs no mark.
LEMMA CheckSweepKeepsA == ASSUME AInv, NEW p \in Procs, CheckSweep(p) PROVE AInv'
<1>a. IInv /\ TypeOK /\ IInv'
  BY CheckSweepKeeps DEF AInv, IInv
<1>b. /\ pc[p] = "check.store" /\ pc[p] \in ClaimsHeld /\ pc[p] \notin InLock
      /\ UNCHANGED <<file, store, flags, approved>>
  BY DEF CheckSweep, ClaimsHeld, Labels, InLock
<1>c. UNCHANGED budget \/ Fault
  BY DEF CheckSweep, SweepDigest
<1>1. CASE End(p)
  BY <1>a, <1>b, <1>c, <1>1, EndAside
<1>2. CASE ~End(p)
  <2>1. PICK m : m = mem[p]
    OBVIOUS
  <2>2. Knows("check.store", m) /\ m \in Memory /\ m.snap \in Files
    BY <1>b, <2>1, Held
  <2>3. PICK left : left = Reconciled(m.snap)
    OBVIOUS
  <2>4. PICK n : n = [m EXCEPT !.left = left]
    OBVIOUS
  <2>5. n.snap = m.snap /\ n.left = left /\ n.ids = m.ids
    BY <2>2, <2>4 DEF Memory
  <2>6. /\ pc'[p] = "check.write" /\ mem'[p] = n
        /\ \A q \in Procs \ {p} : pc'[q] = pc[q] /\ mem'[q] = mem[q]
    BY <1>a, <1>2, <2>1, <2>3, <2>4, Goes DEF CheckSweep
  <2>7. (Steady' => Steady) /\ (Untampered' => Untampered)
    BY <1>a, <1>c, BudgetFalls
  <2>8. left \subseteq Claims /\ \A c \in left : m.snap[c].status = "locked"
    BY <2>3 DEF Reconciled
  <2>9. Unwritten("check.store", m) = Claims /\ Unwritten("check.write", n) \subseteq Claims
    BY <2>5, <2>8 DEF Unwritten
  <2>10. /\ Kept("check.write", n)'
         /\ \A d \in Claims : n.snap[d].status = "locked" =>
               /\ Untampered' => LockedClaimHash(n.snap[d]) \in approved'[d]
               /\ Steady' => Standing(store, d)'
    BY <1>b, <2>2, <2>5, <2>7, <2>9, KnowsOn DEF Standing
  <2>11. ASSUME NEW c \in Claims \ Unwritten("check.write", n)
         PROVE  /\ file'[c].status = "locked"
                /\ Untampered' => /\ [file'[c] EXCEPT !.pending = TRUE] = [n.snap[c] EXCEPT !.pending = TRUE]
                                  /\ flags'[c] # None \/ OpenThreads(file'[c]) # {} => file'[c].pending
    <3>1. m.snap[c].status # "draft" /\ c \notin left
      BY <2>5, <2>11 DEF Unwritten
    <3>2. m.snap[c].status = "locked"
      BY <2>2, <3>1 DEF Files, ClaimFile
    <3>3. file[c].status = "locked" /\ (Untampered => file[c] = m.snap[c])
      BY <2>2, <2>9, <3>2 DEF Knows, Kept
    <3>4. m.snap[c].pending \/ ~Recompute(c, m.snap, store, flags)
      BY <2>3, <3>1, <3>2 DEF Reconciled
    <3>5. flags[c] # None \/ OpenThreads(m.snap[c]) # {} => m.snap[c].pending
      BY <3>4 DEF Recompute
    <3> QED
      BY <1>b, <2>5, <2>7, <3>3, <3>5
  <2>12. CheckKnows(n)'
    BY <2>5, <2>8, <2>11 DEF CheckKnows
  <2>13. Knows("check.write", n)'
    BY <2>10, <2>12 DEF Knows, ReauditKnows, WillSave, StoreHeld, AboutOne, InLock
  <2> QED
    BY <1>a, <1>b, <2>6, <2>7, <2>13, HolderReads
<1> QED
  BY <1>1, <1>2

LEMMA CheckWriteKeepsA ==
  ASSUME AInv, NEW p \in Procs, NEW c \in Claims, CheckWrite(p, c) PROVE AInv'
<1>a. IInv /\ TypeOK /\ IInv' /\ file \in Files
  BY CheckWriteKeeps DEF AInv, IInv, TypeOK
<1>b. /\ pc[p] = "check.write" /\ pc[p] \in ClaimsHeld /\ pc[p] \notin InLock
      /\ UNCHANGED <<store, flags, approved, budget>>
  BY DEF CheckWrite, ClaimsHeld, Labels, InLock
<1>1. PICK m : m = mem[p]
  OBVIOUS
<1>2. /\ Knows("check.write", m) /\ CheckKnows(m) /\ m \in Memory /\ m.snap \in Files
      /\ m.snap[c] \in ClaimFile /\ m.left \subseteq Claims
  BY <1>b, <1>1, Held DEF Knows, Files
<1>3. c \in m.left /\ m.snap[c].status = "locked"
  BY <1>1, <1>2 DEF CheckWrite, CheckKnows
<1>4. PICK f : f = [m.snap[c] EXCEPT !.pending = TRUE]
  OBVIOUS
<1>5. /\ f.status = m.snap[c].status /\ LockedClaimHash(f) = LockedClaimHash(m.snap[c])
      /\ f.pending /\ [f EXCEPT !.pending = TRUE] = [m.snap[c] EXCEPT !.pending = TRUE]
  BY <1>2, <1>4 DEF ClaimFile, LockedClaimHash
<1>6. file' = [file EXCEPT ![c] = f]
  BY <1>1, <1>4 DEF CheckWrite
<1>7. file'[c] = f /\ \A d \in Claims \ {c} : file'[d] = file[d]
  BY <1>a, <1>6 DEF Files
<1>8. PICK k, n : /\ pc'[p] = k /\ mem'[p] = n
                  /\ \A q \in Procs \ {p} : pc'[q] = pc[q] /\ mem'[q] = mem[q]
                  /\ k = "idle" \/ (k = "check.write" /\ n = [m EXCEPT !.left = m.left \ {c}])
  <2>1. CASE m.left = {c}
    BY <1>a, <1>1, <2>1, Ends DEF CheckWrite
  <2>2. CASE m.left # {c}
    BY <1>a, <1>1, <2>2, Goes DEF CheckWrite
  <2> QED
    BY <2>1, <2>2
<1>9. (Steady' <=> Steady) /\ (Untampered' <=> Untampered)
  BY <1>b DEF Steady, Untampered
<1>10. ASSUME k \in ClaimsHeld PROVE Knows(k, n)'
  <2>1. k = "check.write" /\ n.snap = m.snap /\ n.left = m.left \ {c} /\ n.ids = m.ids
    BY <1>2, <1>8, <1>10, Phases DEF Memory
  <2>2. /\ Unwritten("check.write", n) \subseteq Unwritten("check.write", m) \ {c}
        /\ (Claims \ {c}) \ Unwritten("check.write", n) \subseteq Claims \ Unwritten("check.write", m)
        /\ Unwritten("check.write", n) \subseteq Claims
    BY <1>2, <1>3, <2>1 DEF Unwritten
  <2>3. /\ Kept("check.write", n)'
        /\ \A d \in Claims : n.snap[d].status = "locked" =>
              /\ Untampered' => LockedClaimHash(n.snap[d]) \in approved'[d]
              /\ Steady' => Standing(store, d)'
    <3>1. \A d \in Unwritten("check.write", n) : file'[d] = file[d]
      BY <1>7, <2>2
    <3> QED
      BY <1>b, <1>2, <1>9, <2>1, <2>2, <3>1, KnowsOn DEF Standing
  <2>4. ASSUME NEW d \in Claims \ Unwritten("check.write", n)
        PROVE  /\ file'[d].status = "locked"
               /\ Untampered' => /\ [file'[d] EXCEPT !.pending = TRUE] = [n.snap[d] EXCEPT !.pending = TRUE]
                                 /\ flags'[d] # None \/ OpenThreads(file'[d]) # {} => file'[d].pending
    <3>1. CASE d = c
      BY <1>3, <1>5, <1>7, <2>1, <3>1
    <3>2. CASE d # c
      <4>1. d \in Claims \ Unwritten("check.write", m) /\ file'[d] = file[d]
        BY <1>7, <2>2, <2>4, <3>2
      <4> QED
        BY <1>b, <1>2, <1>9, <2>1, <4>1 DEF CheckKnows
    <3> QED
      BY <3>1, <3>2
  <2>5. CheckKnows(n)'
    BY <1>2, <2>1, <2>4 DEF CheckKnows
  <2> QED
    BY <2>1, <2>3, <2>5 DEF Knows, ReauditKnows, WillSave, StoreHeld, AboutOne, InLock
<1> QED
  BY <1>a, <1>b, <1>1, <1>5, <1>6, <1>8, <1>10, MarkStep

-----------------------------------------------------------------------------
(* The invariant. *)

\* The initial states: nothing is locked, recorded or running.
LEMMA InitAInv == Init => AInv
<1> SUFFICES ASSUME Init PROVE AInv
  OBVIOUS
<1>1. IInv
  BY InitIInv
<1>2. \A c \in Claims : file[c].status = "draft" /\ ~Standing(store, c)
  BY DEF Init, Standing
<1>3. \A p \in Procs : pc[p] \notin ClaimsHeld
  BY Phases DEF Init
<1> QED
  BY <1>1, <1>2, <1>3 DEF AInv, RecordsApproved, FilesApproved, FilesRecorded

\* A step of the set lock, from its admission to its end.
LEMMA LockKeepsA ==
  ASSUME AInv, NEW p \in Procs,
         \/ LockAdmit(p) \/ LockRefuse(p) \/ LockSave(p) \/ LockSaveFails(p) \/ LockRestore(p)
         \/ \E c \in Claims : LockWrite(p, c) \/ LockWriteFails(p, c) \/ LockSign(p, c) \/ LockUndo(p, c)
  PROVE  AInv'
  BY LockAdmitKeepsA, EndingsKeepA, LockSaveKeepsA, LockSaveFailsKeepsA, LockRestoreKeepsA,
     LockWriteKeepsA, LockWriteFailsKeepsA, LockSignKeepsA, LockUndoKeepsA

\* A step of another command, or the end of one.
LEMMA OthersKeepA ==
  ASSUME AInv, NEW p \in Procs,
         \/ UnlockSweep(p) \/ UnlockFlag(p) \/ UnlockSave(p)
         \/ ReauditSave(p) \/ CheckSweep(p) \/ RoofFile(p) \/ RoofSave(p)
         \/ \E c \in Claims :
               \/ UnlockClaim(p, c) \/ FlagSave(p, c) \/ FlagClaim(p, c)
               \/ ReauditApply(p, c) \/ ReauditRefuse(p, c) \/ ReauditSign(p, c)
               \/ ReauditClaim(p, c) \/ ReauditFlag(p, c)
               \/ CommentClaim(p, c) \/ CommentDigest(p, c) \/ CheckWrite(p, c)
               \/ Refused(p, c)
         \/ Timeout(p) \/ Fails(p)
  PROVE  AInv'
<1>1. ASSUME NEW c \in Claims,
             \/ ReauditApply(p, c) \/ ReauditRefuse(p, c) \/ ReauditSign(p, c)
             \/ ReauditClaim(p, c) \/ ReauditFlag(p, c)
      PROVE  AInv'
  BY <1>1, ReauditApplyKeepsA, EndingsKeepA, ReauditSignKeepsA, ReauditClaimKeepsA, ReauditFlagKeepsA
<1>2. ASSUME NEW c \in Claims,
             \/ UnlockClaim(p, c) \/ FlagSave(p, c) \/ FlagClaim(p, c)
             \/ CommentClaim(p, c) \/ CommentDigest(p, c) \/ CheckWrite(p, c) \/ Refused(p, c)
      PROVE  AInv'
  BY <1>2, UnlockClaimKeepsA, FlagSaveKeepsA, FlagClaimKeepsA, CommentClaimKeepsA, EndingsKeepA,
     CheckWriteKeepsA
<1>3. CASE UnlockSweep(p) \/ UnlockFlag(p) \/ UnlockSave(p) \/ ReauditSave(p) \/ CheckSweep(p)
  BY <1>3, UnlockSweepKeepsA, UnlockFlagKeepsA, UnlockSaveKeepsA, ReauditSaveKeepsA, CheckSweepKeepsA
<1>4. CASE RoofFile(p) \/ RoofSave(p) \/ Timeout(p) \/ Fails(p)
  BY <1>4, ApartKeepsA, EndingsKeepA
<1> QED
  BY <1>1, <1>2, <1>3, <1>4

LEMMA NextAInv == AInv /\ [Next]_vars => AInv'
<1> SUFFICES ASSUME AInv, [Next]_vars PROVE AInv'
  OBVIOUS
<1>1. CASE UNCHANGED vars
  <2>1. IInv'
    BY NextIInv DEF AInv
  <2>2. /\ UNCHANGED <<file, store, flags, approved, pc, mem>>
        /\ (Steady' <=> Steady) /\ (Untampered' <=> Untampered)
    BY <1>1 DEF vars, Steady, Untampered
  <2> QED
    BY <2>1, <2>2, AsideStep
<1>2. ASSUME NEW p \in Procs, Start(p) PROVE AInv'
  BY <1>2, LoadsKeepA, ApartKeepsA DEF Start
<1>3. ASSUME NEW p \in Procs, Step(p) PROVE AInv'
  BY <1>3, LockKeepsA, OthersKeepA DEF Step
<1>4. CASE Outside
  BY <1>4, OutsideKeepsA
<1> QED
  BY <1>1, <1>2, <1>3, <1>4 DEF Next

\* AInv holds of every behaviour: what is signed was approved, what is locked is
\* recorded once its set lock has ended, and the holder of the claims sentinel knows
\* what the files it has not written say.
THEOREM SafetyInvariance == Spec => []AInv
  BY InitAInv, NextAInv, PTL DEF Spec

-----------------------------------------------------------------------------
(* The properties. *)

\* The gate's promise (lock.Audit's lock rules over RecordApproval): a locked claim the
\* audit is silent about says what was approved, unless there were kills or failed
\* writes and edits of locked files as well.
THEOREM GatePromise == Spec => []NoUnapproved
<1>1. ASSUME AInv PROVE NoUnapproved
  <2> SUFFICES ASSUME Steady \/ Untampered, NEW c \in Claims, file[c].status = "locked",
                      LockFinding(file[c], c, store) = {}
               PROVE  LockedClaimHash(file[c]) \in approved[c]
    BY DEF NoUnapproved
  <2>1. store.rec[c] # None /\ ~store.rec[c].released /\ store.rec[c].hash = LockedClaimHash(file[c])
    BY DEF LockFinding
  <2> QED
    BY <1>1, <2>1 DEF AInv, RecordsApproved, Standing
<1> QED
  BY <1>1, SafetyInvariance, PTL

\* unlock is the recovery escape hatch (runClaimUnlock saves the release last): once it
\* has saved it, the claim has no lock rule to report, whatever was left before.
THEOREM UnlockIsRecovery == Spec => UnlockRecovers
<1>1. ASSUME AInv, NEW p \in Procs, UnlockSave(p)
      PROVE  \A c \in mem[p].ids : LockFinding(file'[c], c, store') = {}
  <2>1. pc[p] = "unlock.save" /\ pc[p] \in ClaimsHeld /\ pc[p] \in StoreHeld /\ store' = mem[p].st /\ file' = file
    BY <1>1 DEF UnlockSave, ClaimsHeld, StoreHeld, Labels
  <2>2. Knows("unlock.save", mem[p]) /\ Link("unlock.save", mem[p], store) /\ mem[p].ids \subseteq Claims
    BY <1>1, <2>1, Held
  <2>3. ASSUME NEW c \in mem[p].ids PROVE LockFinding(file'[c], c, store') = {}
    <3>1. file'[c].status = "draft" /\ ~Standing(store', c)
      BY <2>1, <2>2, <2>3 DEF Knows, WillSave
    <3>2. ~LedgerRecordDeleted(store', c)
      BY <2>1, <2>2, <2>3 DEF Link
    <3> QED
      BY <3>1, <3>2 DEF LockFinding, Standing
  <2> QED
    BY <2>3
<1>2. AInv /\ [Next]_vars =>
        [\A p \in Procs : UnlockSave(p) => \A c \in mem[p].ids : LockFinding(file'[c], c, store') = {}]_vars
  BY <1>1
<1> QED
  BY <1>2, SafetyInvariance, PTL DEF Spec, UnlockRecovers

\* reconcileReviewPending repairs review_pending: when a check ends, no locked claim
\* with a pending flag or an open thread reads as settled.
THEOREM CheckRepairs == Spec => CheckReconciles
<1>1. ASSUME AInv, NEW p \in Procs, pc'[p] = "idle", budget.tampers = MaxTampers, CheckSweep(p),
             NEW c \in Claims, file'[c].status = "locked", flags'[c] # None \/ OpenThreads(file'[c]) # {}
      PROVE  file'[c].pending
  <2>1. pc[p] = "check.store" /\ pc[p] \in ClaimsHeld /\ UNCHANGED <<file, flags>> /\ TypeOK
    BY <1>1 DEF CheckSweep, ClaimsHeld, Labels, AInv, IInv
  <2>2. Knows("check.store", mem[p]) /\ Unwritten("check.store", mem[p]) = Claims
    BY <1>1, <2>1, Held DEF Unwritten
  <2>3. file[c] = mem[p].snap[c]
    BY <1>1, <2>1, <2>2 DEF Knows, Kept, Untampered
  <2>4. Reconciled(mem[p].snap) = {}
    BY <1>1, <2>1, Goes DEF CheckSweep
  <2>5. file[c].pending \/ ~Recompute(c, mem[p].snap, store, flags)
    BY <1>1, <2>1, <2>3, <2>4 DEF Reconciled
  <2> QED
    BY <1>1, <2>1, <2>3, <2>5 DEF Recompute
<1>2. ASSUME AInv, NEW p \in Procs, pc'[p] = "idle", budget.tampers = MaxTampers,
             NEW d \in Claims, CheckWrite(p, d),
             NEW c \in Claims, file'[c].status = "locked", flags'[c] # None \/ OpenThreads(file'[c]) # {}
      PROVE  file'[c].pending
  <2>1. pc[p] = "check.write" /\ pc[p] \in ClaimsHeld /\ flags' = flags /\ TypeOK /\ file \in Files
    BY <1>2 DEF CheckWrite, ClaimsHeld, Labels, AInv, IInv, TypeOK
  <2>2. Knows("check.write", mem[p]) /\ CheckKnows(mem[p]) /\ mem[p].snap \in Files
    BY <1>2, <2>1, Held DEF Knows
  <2>3. mem[p].left = {d}
    BY <1>2, <2>1, Goes DEF CheckWrite
  <2>4. file'[d].pending /\ \A e \in Claims \ {d} : file'[e] = file[e]
    BY <1>2, <2>1, <2>2 DEF CheckWrite, Files, ClaimFile
  <2>5. CASE c \in Unwritten("check.write", mem[p]) /\ c # d
    <3>1. mem[p].snap[c].status = "draft"
      BY <2>3, <2>5 DEF Unwritten
    <3>2. file[c].status = "draft"
      BY <2>2, <2>5, <3>1 DEF Knows, Kept
    <3> QED
      BY <1>2, <2>4, <2>5, <3>2
  <2>6. CASE c \notin Unwritten("check.write", mem[p]) /\ c # d
    BY <1>2, <2>1, <2>2, <2>4, <2>6 DEF CheckKnows, Untampered
  <2> QED
    BY <2>4, <2>5, <2>6
<1>3. AInv /\ [Next]_vars =>
        [\A p \in Procs :
          pc'[p] = "idle" /\ budget.tampers = MaxTampers
             /\ (CheckSweep(p) \/ \E c \in Claims : CheckWrite(p, c)) =>
             \A c \in Claims :
                file'[c].status = "locked" /\ (flags'[c] # None \/ OpenThreads(file'[c]) # {})
                   => file'[c].pending]_vars
  BY <1>1, <1>2
<1> QED
  BY <1>3, SafetyInvariance, PTL DEF Spec, CheckReconciles

\* No approval over unresolved comments (EvaluateSet's refusal, under the claims
\* sentinel): a claim that a set lock gives a standing record has no open thread.
THEOREM ApprovalsAreSettled == Spec => NoApprovalOverThreads
<1>1. ASSUME AInv, NEW p \in Procs, NEW c \in Claims, LockSave(p), ~Standing(store, c),
             Standing(store', c), budget.tampers = MaxTampers
      PROVE  OpenThreads(file[c]) = {}
  <2>1. pc[p] = "lock.save" /\ pc[p] \in ClaimsHeld /\ store' = mem[p].st
    BY <1>1 DEF LockSave, ClaimsHeld, Labels
  <2>2. Knows("lock.save", mem[p]) /\ mem[p].snap \in Files
    BY <1>1, <2>1, Held
  <2>3. c \in mem[p].ids
    BY <1>1, <2>1, <2>2 DEF Knows, WillSave, Signed, StoreHeld, Standing
  <2>4. c \notin Unwritten("lock.save", mem[p])
    BY <2>3 DEF Unwritten
  <2>5. file[c] = Locked(mem[p].snap[c]) /\ OpenThreads(mem[p].snap[c]) = {}
    BY <1>1, <2>2, <2>3, <2>4 DEF Knows, LockKnows, InLock, Untampered
  <2>6. Locked(mem[p].snap[c]).threads = mem[p].snap[c].threads
    BY <2>2 DEF Files, ClaimFile, Locked
  <2> QED
    BY <2>5, <2>6 DEF OpenThreads
<1>2. AInv /\ [Next]_vars =>
        [\A p \in Procs, c \in Claims :
          LockSave(p) /\ ~Standing(store, c) /\ Standing(store', c)
             /\ budget.tampers = MaxTampers => OpenThreads(file[c]) = {}]_vars
  BY <1>1
<1> QED
  BY <1>2, SafetyInvariance, PTL DEF Spec, NoApprovalOverThreads

-----------------------------------------------------------------------------
(***************************************************************************)
(* A set lock is all or nothing.  BInv adds to AInv that no member's       *)
(* record stands before the save, and what had gone wrong by the rollback. *)
(***************************************************************************)

LEMMA SlipsCount ==
  ASSUME TypeOK
  PROVE  /\ Slips \in Nat /\ (UNCHANGED budget => Slips' = Slips)
         /\ Fault => Slips' = Slips + 1
         /\ \A c \in Claims, k \in Contents : EditDraft(c, k) => Slips' = Slips + 1
         /\ \A r \in Constitution : EditRoof(r) => Slips' = Slips + 1
<1>1. budget \in Budgets /\ budget.faults \in 0..MaxFaults /\ budget.edits \in 0..MaxEdits
  BY DEF TypeOK, Budgets
<1>2. Slips \in Nat /\ (UNCHANGED budget => Slips' = Slips)
  BY <1>1, BoundsAssumption DEF Slips
<1>3. ASSUME Fault PROVE Slips' = Slips + 1
  <2>1. budget'.faults = budget.faults - 1 /\ budget'.edits = budget.edits
    BY <1>1, <1>3 DEF Fault, Budgets
  <2> QED
    BY <1>1, <2>1, BoundsAssumption DEF Slips
<1>4. ASSUME budget' = [budget EXCEPT !.edits = @ - 1] PROVE Slips' = Slips + 1
  <2>1. budget'.edits = budget.edits - 1 /\ budget'.faults = budget.faults
    BY <1>1, <1>4 DEF Budgets
  <2> QED
    BY <1>1, <2>1, BoundsAssumption DEF Slips
<1> QED
  BY <1>2, <1>3, <1>4 DEF EditDraft, EditRoof

\* After a step of the process that holds or takes the claims sentinel nobody else
\* is in a set lock.
LEMMA NobodyElse ==
  ASSUME BInv, AInv', NEW p \in Procs, pc[p] \in ClaimsHeld \/ holder["claims"] = None,
         \A q \in Procs \ {p} : pc'[q] = pc[q] /\ mem'[q] = mem[q],
         NEW l, NEW m, pc'[p] = l, mem'[p] = m, BatchKnows(l, m)'
  PROVE  BInv'
<1>1. \A q \in Procs \ {p} : pc[q] \notin InLock
  BY OnlyHolder DEF BInv, AInv
<1>2. ASSUME NEW q \in Procs PROVE BatchKnows(pc[q], mem[q])'
  <2>1. CASE q = p
    BY <2>1
  <2>2. CASE q # p
    BY <1>1, <2>2 DEF BatchKnows
  <2> QED
    BY <2>1, <2>2
<1> QED
  BY <1>2 DEF BInv

\* What others do beside a set lock: they leave the records alone, and the files but
\* for an editor's draft, which is a slip, or a hand.
LEMMA Beside ==
  ASSUME BInv, AInv', \A q \in Procs : pc'[q] \in InLock => pc'[q] = pc[q] /\ mem'[q] = mem[q],
         \A c \in Claims : store'.rec[c] = store.rec[c],
         Untampered' => Untampered, Slips' \in Nat, Slips' >= Slips,
         Untampered' /\ Slips' = Slips => file' = file,
         \A c \in Claims : file'[c].status = file[c].status
  PROVE  BInv'
<1> SUFFICES ASSUME NEW q \in Procs, pc'[q] \in InLock PROVE BatchKnows(pc[q], mem[q])'
  BY DEF BInv, BatchKnows
<1>1. pc'[q] = pc[q] /\ mem'[q] = mem[q] /\ BatchKnows(pc[q], mem[q]) /\ pc[q] \in ClaimsHeld
  BY Phases DEF BInv
<1>2. mem[q].ids \subseteq Claims /\ mem[q].left \subseteq Claims /\ Slips \in Nat
  BY <1>1, Held, SlipsCount DEF BInv, AInv, IInv
<1>3. \A c \in mem[q].ids : ~Standing(store, c)'
  BY <1>1, <1>2 DEF BatchKnows, Standing
<1>4. Untampered' /\ Slips' <= 1 => Slips <= 1 /\ (Slips = 1 => Slips' = 1) /\ (Slips' = 0 => Slips = 0)
  BY <1>2
<1>5. pc[q] = "lock.save" => mem[q].left = mem[q].ids
  BY <1>1 DEF BatchKnows
<1>6. Untampered' /\ pc[q] = "lock.write" /\ Slips' = 0 => \A c \in mem[q].left : file'[c] = mem[q].tok[c]
  BY <1>1, <1>2 DEF BatchKnows
<1>7. Untampered' /\ pc[q] = "lock.undo" => Slips' >= 1
  BY <1>1, <1>2 DEF BatchKnows
<1>8. Untampered' /\ pc[q] = "lock.undo" /\ Slips' = 1 => \A c \in mem[q].ids \ mem[q].left : file'[c].status = "draft"
  <2>1. pc[q] = "lock.undo" /\ Untampered' => Slips >= 1
    BY <1>1 DEF BatchKnows
  <2>2. Untampered' /\ pc[q] = "lock.undo" /\ Slips' = 1 => Slips = 1
    BY <1>2, <2>1
  <2> QED
    BY <1>1, <1>2, <2>2 DEF BatchKnows
<1>9. Slips' = Slips'
  OBVIOUS
<1> QED
  BY <1>1, <1>3, <1>5, <1>6, <1>7, <1>8 DEF BatchKnows

\* The steps of a set lock.
LEMMA LockKeepsB ==
  ASSUME BInv, AInv', NEW p \in Procs,
         \/ LockAdmit(p) \/ LockSave(p) \/ LockSaveFails(p) \/ LockRestore(p)
         \/ \E c \in Claims : LockWrite(p, c) \/ LockWriteFails(p, c) \/ LockSign(p, c) \/ LockUndo(p, c)
  PROVE  BInv'
<1>1. TypeOK /\ IInv /\ AInv /\ Slips \in Nat
  BY SlipsCount DEF BInv, AInv, IInv
<1>2. pc[p] \in ClaimsHeld
  BY Phases DEF LockAdmit, LockSave, LockSaveFails, LockRestore, LockWrite, LockWriteFails, LockSign, LockUndo,
     InLock, ClaimsHeld, Labels
<1>3. mem[p].ids \subseteq Claims /\ mem[p].left \subseteq Claims /\ mem[p] \in Memory /\ mem[p].snap \in Files
  BY <1>1, <1>2, Held
<1>4. pc[p] \in InLock => BatchKnows(pc[p], mem[p]) /\ LockKnows(pc[p], mem[p]) /\ Kept(pc[p], mem[p])
  BY <1>1, <1>2, Held DEF BInv, Knows
<1>5. CASE LockAdmit(p)
  <2>0. PICK m : m = [mem[p] EXCEPT !.left = mem[p].ids, !.tok = file, !.st = store, !.raw = store, !.dg = digest]
    OBVIOUS
  <2>1. pc'[p] = "lock.write" /\ mem'[p] = m /\ (\A q \in Procs \ {p} : pc'[q] = pc[q] /\ mem'[q] = mem[q])
        /\ UNCHANGED <<file, store>>
    BY <1>1, <1>5, <2>0, Goes DEF LockAdmit
  <2>2. m.ids = mem[p].ids /\ m.left = mem[p].ids /\ m.tok = file
    BY <1>3, <2>0 DEF Memory
  <2>3. \A c \in mem[p].ids : ~Standing(store, c)
    BY <1>5 DEF LockAdmit, LockAllowed, Admissible
  <2>4. BatchKnows("lock.write", m)'
    BY <2>1, <2>2, <2>3 DEF BatchKnows, Standing
  <2> QED
    BY <1>2, <2>1, <2>4, NobodyElse
<1>6. CASE LockSave(p) \/ LockRestore(p)
  <2>1. pc'[p] = "idle" /\ mem'[p] = Blank /\ (\A q \in Procs \ {p} : pc'[q] = pc[q] /\ mem'[q] = mem[q])
    BY <1>1, <1>6, Ends DEF LockSave, LockRestore
  <2>2. BatchKnows("idle", Blank)'
    BY DEF BatchKnows, InLock
  <2> QED
    BY <1>2, <2>1, <2>2, NobodyElse
<1>7. CASE LockSaveFails(p)
  <2>0. PICK m : m = mem[p]
    OBVIOUS
  <2>1. pc'[p] = "lock.undo" /\ mem'[p] = m /\ (\A q \in Procs \ {p} : pc'[q] = pc[q] /\ mem'[q] = mem[q])
        /\ UNCHANGED <<file, store>> /\ Fault /\ pc[p] = "lock.save"
    BY <1>1, <1>7, <2>0, Goes DEF LockSaveFails
  <2>2. Slips' = Slips + 1
    BY <1>1, <2>1, SlipsCount
  <2>3. m.left = m.ids /\ \A c \in m.ids : ~Standing(store, c)
    BY <1>4, <2>0, <2>1 DEF BatchKnows, InLock
  <2>4. BatchKnows("lock.undo", m)'
    BY <1>1, <2>1, <2>2, <2>3 DEF BatchKnows, Standing
  <2> QED
    BY <1>2, <2>1, <2>4, NobodyElse
<1>8. ASSUME NEW c \in Claims, LockWrite(p, c) PROVE BInv'
  <2>0. PICK l, m, rest : /\ rest = mem[p].left \ {c}
                          /\ l = IF rest = {} THEN "lock.sign" ELSE "lock.write"
                          /\ m = [mem[p] EXCEPT !.left = IF rest = {} THEN mem[p].ids ELSE rest]
    OBVIOUS
  <2>1. pc'[p] = l /\ mem'[p] = m /\ (\A q \in Procs \ {p} : pc'[q] = pc[q] /\ mem'[q] = mem[q])
        /\ UNCHANGED <<store, budget>> /\ pc[p] = "lock.write"
        /\ file' = [file EXCEPT ![c] = Locked(mem[p].snap[c])]
    BY <1>1, <1>8, <2>0, Goes DEF LockWrite, LoopNext, SaveClaimIfUnchanged
  <2>2. m.ids = mem[p].ids /\ m.tok = mem[p].tok /\ (l = "lock.write" => m.left = rest)
    BY <1>3, <2>0 DEF Memory
  <2>3. \A d \in Claims \ {c} : file'[d] = file[d]
    BY <1>1, <2>1 DEF TypeOK, Files
  <2>4. /\ \A d \in mem[p].ids : ~Standing(store, d)
        /\ Untampered /\ Slips = 0 => \A d \in mem[p].left : file[d] = mem[p].tok[d]
    BY <1>4, <2>1 DEF BatchKnows, InLock
  <2>5. Slips' = Slips /\ (Untampered' => Untampered)
    BY <1>1, <2>1, SlipsCount, BudgetFalls
  <2>6. l \in {"lock.sign", "lock.write"}
    BY <2>0
  <2>7. Untampered' /\ l = "lock.write" /\ Slips' = 0 => \A d \in m.left : file'[d] = m.tok[d]
    BY <1>3, <2>0, <2>2, <2>3, <2>4, <2>5
  <2>8. BatchKnows(l, m)'
    BY <2>1, <2>2, <2>4, <2>6, <2>7 DEF BatchKnows, Standing
  <2> QED
    BY <1>2, <2>1, <2>8, NobodyElse
<1>9. ASSUME NEW c \in Claims, LockWriteFails(p, c) PROVE BInv'
  <2>0. PICK m : m = [mem[p] EXCEPT !.left = mem[p].ids \ @]
    OBVIOUS
  <2>1. pc'[p] = "lock.undo" /\ mem'[p] = m /\ (\A q \in Procs \ {p} : pc'[q] = pc[q] /\ mem'[q] = mem[q])
        /\ UNCHANGED <<file, store>> /\ pc[p] = "lock.write" /\ c \in mem[p].left
        /\ ((file[c] # mem[p].tok[c] /\ UNCHANGED budget) \/ Fault)
    BY <1>1, <1>9, <2>0, Goes DEF LockWriteFails
  <2>2. m.ids = mem[p].ids /\ m.left = mem[p].ids \ mem[p].left /\ mem[p].left \subseteq mem[p].ids
    BY <1>3, <1>4, <2>0, <2>1 DEF Memory, LockKnows, InLock
  <2>3. /\ \A d \in mem[p].ids : ~Standing(store, d)
        /\ Untampered /\ Slips = 0 => \A d \in mem[p].left : file[d] = mem[p].tok[d]
    BY <1>4, <2>1 DEF BatchKnows, InLock
  <2>4. Untampered' => Untampered /\ Slips' >= 1
    BY <1>1, <2>1, <2>3, SlipsCount, BudgetFalls
  <2>5. \A d \in mem[p].left : file[d].status = "draft"
    BY <1>4, <2>1, <2>2 DEF Kept, Unwritten, LockKnows, InLock
  <2>6. BatchKnows("lock.undo", m)'
    BY <2>1, <2>2, <2>3, <2>4, <2>5 DEF BatchKnows, Standing
  <2> QED
    BY <1>2, <2>1, <2>6, NobodyElse
<1>10. ASSUME NEW c \in Claims, LockSign(p, c) PROVE BInv'
  <2>a. PICK l, rest : rest = mem[p].left \ {c} /\ l = IF rest = {} THEN "lock.save" ELSE "lock.sign"
    OBVIOUS
  <2>b. PICK st : st = RecordApproval(RefreshBaseline(mem[p].st, c, mem[p].snap), c, mem[p].snap[c])
    OBVIOUS
  <2>c. PICK m : m = [mem[p] EXCEPT !.st = st, !.left = IF rest = {} THEN mem[p].ids ELSE rest]
    OBVIOUS
  <2>1. pc'[p] = l /\ mem'[p] = m /\ (\A q \in Procs \ {p} : pc'[q] = pc[q] /\ mem'[q] = mem[q])
        /\ UNCHANGED <<file, store>> /\ pc[p] = "lock.sign"
    <3>1. Goto(p, l, m)
      BY <1>3, <1>10, <2>a, <2>b, <2>c DEF LockSign, Memory
    <3> QED
      BY <1>1, <1>10, <3>1, Goes DEF LockSign
  <2>2. m.ids = mem[p].ids /\ (l = "lock.save" => m.left = m.ids)
    BY <1>3, <2>a, <2>c DEF Memory
  <2>3. \A d \in mem[p].ids : ~Standing(store, d)
    BY <1>4, <2>1 DEF BatchKnows, InLock
  <2>4. l \in {"lock.save", "lock.sign"}
    BY <2>a
  <2>5. BatchKnows(l, m)'
    BY <2>1, <2>2, <2>3, <2>4 DEF BatchKnows, Standing
  <2> QED
    BY <1>2, <2>1, <2>5, NobodyElse
<1>11. ASSUME NEW c \in Claims, LockUndo(p, c) PROVE BInv'
  <2>0. PICK m : m = [mem[p] EXCEPT !.left = @ \ {c}]
    OBVIOUS
  <2>1. pc'[p] = "lock.undo" /\ mem'[p] = m /\ (\A q \in Procs \ {p} : pc'[q] = pc[q] /\ mem'[q] = mem[q])
        /\ UNCHANGED store /\ pc[p] = "lock.undo" /\ c \in mem[p].left
        /\ ((file' = [file EXCEPT ![c] = mem[p].snap[c]] /\ UNCHANGED budget) \/ (Fault /\ UNCHANGED file))
    BY <1>1, <1>11, <2>0, Goes DEF LockUndo
  <2>2. m.ids = mem[p].ids /\ m.left = mem[p].left \ {c}
    BY <1>3, <2>0 DEF Memory
  <2>3. /\ \A d \in mem[p].ids : ~Standing(store, d)
        /\ Untampered => Slips >= 1 /\ (Slips = 1 => \A d \in mem[p].ids \ mem[p].left : file[d].status = "draft")
    BY <1>4, <2>1 DEF BatchKnows, InLock
  <2>4. \A d \in mem[p].ids : mem[p].snap[d].status = "draft"
    BY <1>4, <2>1 DEF LockKnows, InLock
  <2>5. CASE Fault /\ UNCHANGED file
    <3>1. Untampered' => Untampered /\ Slips' >= 1 /\ Slips' # 1
      BY <1>1, <2>3, <2>5, SlipsCount, BudgetFalls
    <3>2. BatchKnows("lock.undo", m)'
      BY <2>1, <2>2, <2>3, <3>1 DEF BatchKnows, Standing
    <3> QED
      BY <1>2, <2>1, <3>2, NobodyElse
  <2>6. CASE file' = [file EXCEPT ![c] = mem[p].snap[c]] /\ UNCHANGED budget
    <3>1. Slips' = Slips /\ (Untampered' => Untampered)
      BY <1>1, <2>6, SlipsCount, BudgetFalls
    <3>2. file'[c] = mem[p].snap[c] /\ \A d \in Claims \ {c} : file'[d] = file[d]
      BY <1>1, <2>6 DEF TypeOK, Files
    <3>3. Untampered' /\ Slips' = 1 => \A d \in m.ids \ m.left : file'[d].status = "draft"
      BY <1>3, <2>2, <2>3, <2>4, <3>1, <3>2
    <3>4. BatchKnows("lock.undo", m)'
      BY <2>1, <2>2, <2>3, <3>1, <3>3 DEF BatchKnows, Standing
    <3> QED
      BY <1>2, <2>1, <3>4, NobodyElse
  <2> QED
    BY <2>1, <2>5, <2>6
<1> QED
  BY <1>5, <1>6, <1>7, <1>8, <1>9, <1>10, <1>11

\* The holder of the claims sentinel, or who takes it, in any other command.
LEMMA Elsewhere ==
  ASSUME BInv, AInv', NEW p \in Procs, pc[p] \in ClaimsHeld \/ holder["claims"] = None,
         NEW l, l \notin InLock, NEW m, Goto(p, l, m)
  PROVE  BInv'
<1>1. pc'[p] = l /\ mem'[p] = m /\ \A q \in Procs \ {p} : pc'[q] = pc[q] /\ mem'[q] = mem[q]
  BY Goes DEF BInv, AInv, IInv
<1>2. BatchKnows(l, m)'
  BY DEF BatchKnows
<1> QED
  BY <1>1, <1>2, NobodyElse

LEMMA LoadsKeepB ==
  ASSUME BInv, AInv', NEW p \in Procs,
         \/ LockLoad(p) \/ CheckLoad(p)
         \/ \E c \in Claims : \/ UnlockLoad(p, c) \/ ReauditLoad(p, c)
                              \/ \E b \in Bodies : FlagLoad(p, c, b)
                              \/ \E t \in Threads, op \in CommentOp : CommentLoad(p, c, t, op)
  PROVE  BInv'
<1>1. holder["claims"] = None
  BY DEF LockLoad, CheckLoad, UnlockLoad, ReauditLoad, FlagLoad, CommentLoad, Load, Take, Free
<1>2. PICK l \in Loading : \E m : Goto(p, l, m)
  BY DEF LockLoad, CheckLoad, UnlockLoad, ReauditLoad, FlagLoad, CommentLoad, Load, Loading
<1> QED
  BY <1>1, <1>2, Elsewhere DEF Loading, InLock

\* A step of another command, or the end of one.
LEMMA OthersKeepB ==
  ASSUME BInv, AInv', NEW p \in Procs,
         \/ LockRefuse(p) \/ UnlockSweep(p) \/ UnlockFlag(p) \/ UnlockSave(p)
         \/ ReauditSave(p) \/ CheckSweep(p)
         \/ \E c \in Claims :
               \/ UnlockClaim(p, c) \/ FlagSave(p, c) \/ FlagClaim(p, c)
               \/ ReauditApply(p, c) \/ ReauditRefuse(p, c) \/ ReauditSign(p, c)
               \/ ReauditClaim(p, c) \/ ReauditFlag(p, c)
               \/ CommentClaim(p, c) \/ CommentDigest(p, c) \/ CheckWrite(p, c)
               \/ Refused(p, c)
  PROVE  BInv'
<1> DEFINE Away == pc[p] \in ClaimsHeld /\ \E l, m : l \notin InLock /\ Goto(p, l, m)
<1>1. ASSUME LockRefuse(p) PROVE Away
  BY <1>1 DEF LockRefuse, End, InLock, ClaimsHeld, Labels
<1>2. ASSUME UnlockSweep(p) PROVE Away
  BY <1>2 DEF UnlockSweep, End, InLock, ClaimsHeld, Labels
<1>3. ASSUME UnlockFlag(p) PROVE Away
  BY <1>3 DEF UnlockFlag, End, InLock, ClaimsHeld, Labels
<1>4. ASSUME UnlockSave(p) PROVE Away
  BY <1>4 DEF UnlockSave, End, InLock, ClaimsHeld, Labels
<1>5. ASSUME ReauditSave(p) PROVE Away
  BY <1>5 DEF ReauditSave, End, InLock, ClaimsHeld, Labels
<1>6. ASSUME CheckSweep(p) PROVE Away
  BY <1>6 DEF CheckSweep, End, InLock, ClaimsHeld, Labels
<1>7. ASSUME NEW c \in Claims, UnlockClaim(p, c) PROVE Away
  BY <1>7 DEF UnlockClaim, End, InLock, ClaimsHeld, Labels
<1>8. ASSUME NEW c \in Claims, FlagSave(p, c) PROVE Away
  BY <1>8 DEF FlagSave, End, InLock, ClaimsHeld, Labels
<1>9. ASSUME NEW c \in Claims, FlagClaim(p, c) PROVE Away
  BY <1>9 DEF FlagClaim, End, InLock, ClaimsHeld, Labels
<1>10. ASSUME NEW c \in Claims, ReauditApply(p, c) PROVE Away
  BY <1>10 DEF ReauditApply, End, InLock, ClaimsHeld, Labels
<1>11. ASSUME NEW c \in Claims, ReauditRefuse(p, c) PROVE Away
  BY <1>11 DEF ReauditRefuse, End, InLock, ClaimsHeld, Labels
<1>12. ASSUME NEW c \in Claims, ReauditSign(p, c) PROVE Away
  BY <1>12 DEF ReauditSign, End, InLock, ClaimsHeld, Labels
<1>13. ASSUME NEW c \in Claims, ReauditClaim(p, c) PROVE Away
  BY <1>13 DEF ReauditClaim, End, InLock, ClaimsHeld, Labels
<1>14. ASSUME NEW c \in Claims, ReauditFlag(p, c) PROVE Away
  BY <1>14 DEF ReauditFlag, End, InLock, ClaimsHeld, Labels
<1>15. ASSUME NEW c \in Claims, CommentClaim(p, c) PROVE Away
  BY <1>15 DEF CommentClaim, End, InLock, ClaimsHeld, Labels
<1>16. ASSUME NEW c \in Claims, CommentDigest(p, c) PROVE Away
  BY <1>16 DEF CommentDigest, End, InLock, ClaimsHeld, Labels
<1>17. ASSUME NEW c \in Claims, CheckWrite(p, c) PROVE Away
  BY <1>17 DEF CheckWrite, End, InLock, ClaimsHeld, Labels
<1>18. ASSUME NEW c \in Claims, Refused(p, c) PROVE Away
  BY <1>18 DEF Refused, End, InLock, ClaimsHeld, Labels
<1>19. Away
  BY <1>1, <1>2, <1>3, <1>4, <1>5, <1>6, <1>7, <1>8, <1>9, <1>10, <1>11, <1>12, <1>13, <1>14, <1>15, <1>16, <1>17, <1>18
<1> QED
  BY <1>19, Elsewhere

\* The preview, constitution lock, and commands that give up.
LEMMA ApartKeepsB ==
  ASSUME BInv, AInv', NEW p \in Procs,
         \/ \E B \in Batches : Preview(p, B)
         \/ RoofLoad(p) \/ RoofFile(p) \/ RoofSave(p) \/ Timeout(p) \/ Fails(p)
  PROVE  BInv'
<1>1. TypeOK /\ StoreGuarded /\ Slips \in Nat
  BY SlipsCount DEF BInv, AInv, IInv
<1>2. PICK l : l \notin InLock /\ \E m : Goto(p, l, m)
  BY DEF Preview, RoofLoad, RoofFile, RoofSave, Timeout, Fails, End, InLock
<1>3. \A q \in Procs : pc'[q] \in InLock => pc'[q] = pc[q] /\ mem'[q] = mem[q]
  BY <1>1, <1>2, Goes
<1>4. UNCHANGED file /\ (UNCHANGED budget \/ Fault)
  BY DEF Preview, RoofLoad, RoofFile, RoofSave, Timeout, Fails
<1>5. \A c \in Claims : store'.rec[c] = store.rec[c]
  <2>1. CASE RoofSave(p)
    <3>1. pc[p] = "roof.save" /\ pc[p] \in StoreHeld /\ store' = mem[p].st
      BY <2>1 DEF RoofSave, StoreHeld
    <3>2. mem[p].st = [store EXCEPT !.roof = mem[p].st.roof]
      BY <1>1, <3>1 DEF StoreGuarded, Link
    <3> QED
      BY <1>1, <3>1, <3>2 DEF LockStore, TypeOK
  <2>2. CASE ~RoofSave(p)
    BY <2>2 DEF Preview, RoofLoad, RoofFile, Timeout, Fails
  <2> QED
    BY <2>1, <2>2
<1>6. (Untampered' => Untampered) /\ Slips' \in Nat /\ Slips' >= Slips
  BY <1>1, <1>4, SlipsCount, BudgetFalls
<1> QED
  BY <1>3, <1>4, <1>5, <1>6, Beside

LEMMA OutsideKeepsB == ASSUME BInv, AInv', Outside PROVE BInv'
<1>1. TypeOK /\ file \in Files /\ Slips \in Nat
  BY SlipsCount DEF BInv, AInv, IInv, TypeOK
<1>2. ASSUME NEW p \in Procs, Crash(p) PROVE BInv'
  <2>1. \A q \in Procs : pc'[q] \in InLock => pc'[q] = pc[q] /\ mem'[q] = mem[q]
    BY <1>1, <1>2, Goes DEF Crash, InLock
  <2>2. budget'.faults = budget.faults /\ budget'.edits = budget.edits /\ budget'.tampers = budget.tampers
    BY <1>1, <1>2 DEF Crash, TypeOK, Budgets
  <2>3. Slips' = Slips /\ (Untampered' => Untampered)
    BY <2>2 DEF Slips, Untampered
  <2> QED
    BY <1>1, <1>2, <2>1, <2>3, Beside DEF Crash
<1>3. ASSUME NEW s \in Sentinels, RemoveStale(s) PROVE BInv'
  <2>1. UNCHANGED <<file, store, pc, mem, budget>>
    BY <1>3 DEF RemoveStale
  <2>2. Slips' = Slips /\ (Untampered' => Untampered)
    BY <2>1 DEF Slips, Untampered
  <2> QED
    BY <1>1, <2>1, <2>2, Beside
<1>4. ASSUME NEW r \in Constitution, EditRoof(r) PROVE BInv'
  <2>1. UNCHANGED <<file, store, pc, mem>> /\ Slips' = Slips + 1
    BY <1>1, <1>4, SlipsCount DEF EditRoof
  <2>2. Untampered' => Untampered
    BY <1>1, <1>4 DEF EditRoof, TypeOK, Budgets, Untampered
  <2> QED
    BY <1>1, <2>1, <2>2, Beside
<1>5. ASSUME NEW c \in Claims, NEW k \in Contents, EditDraft(c, k) PROVE BInv'
  <2>1. UNCHANGED <<store, pc, mem>> /\ Slips' = Slips + 1
    BY <1>1, <1>5, SlipsCount DEF EditDraft
  <2>2. Untampered' => Untampered
    BY <1>1, <1>5 DEF EditDraft, TypeOK, Budgets, Untampered
  <2>3. \A d \in Claims : file'[d].status = file[d].status
    BY <1>1, <1>5 DEF EditDraft, Files, ClaimFile
  <2> QED
    BY <1>1, <2>1, <2>2, <2>3, Beside
<1>6. ASSUME NEW c \in Claims, NEW f \in ClaimFile, Tamper(c, f) PROVE BInv'
  <2>1. UNCHANGED <<store, pc, mem>>
    BY <1>6 DEF Tamper
  <2>2. ~Untampered' /\ budget'.faults = budget.faults /\ budget'.edits = budget.edits
    BY <1>1, <1>6, BoundsAssumption DEF Tamper, TypeOK, Budgets, Untampered
  <2>3. Slips' = Slips
    BY <2>2 DEF Slips
  <2>4. \A d \in Claims : file'[d].status = file[d].status
    BY <1>1, <1>6 DEF Tamper, Files
  <2> QED
    BY <1>1, <2>1, <2>2, <2>3, <2>4, Beside
<1> QED
  BY <1>2, <1>3, <1>4, <1>5, <1>6 DEF Outside

LEMMA NextBInv == BInv /\ [Next]_vars => BInv'
<1> SUFFICES ASSUME BInv, [Next]_vars PROVE BInv'
  OBVIOUS
<1>1. AInv'
  BY NextAInv DEF BInv
<1>2. CASE UNCHANGED vars
  <2>1. UNCHANGED <<file, store, budget, pc, mem>>
    BY <1>2 DEF vars
  <2> QED
    BY <1>1, <2>1 DEF BInv, BatchKnows, Standing, Untampered, Slips
<1>3. ASSUME NEW p \in Procs, Start(p) PROVE BInv'
  BY <1>1, <1>3, LoadsKeepB, ApartKeepsB DEF Start
<1>4. ASSUME NEW p \in Procs, Step(p) PROVE BInv'
  BY <1>1, <1>4, LockKeepsB, OthersKeepB, ApartKeepsB DEF Step
<1>5. CASE Outside
  BY <1>1, <1>5, OutsideKeepsB
<1> QED
  BY <1>2, <1>3, <1>4, <1>5 DEF Next

\* BInv holds of every behaviour: no record of a set lock's member stands before the
\* lock's one save, and a rollback that began after one slip undoes every write.
THEOREM BatchInvariance == Spec => []BInv
<1>1. Init => BInv
  BY InitAInv DEF Init, BInv, BatchKnows, InLock
<1> QED
  BY <1>1, NextBInv, PTL DEF Spec

\* A set lock (runPolicySetLock) ends, or dies, all done or not at all: everything
\* locked and signed, or nothing signed, what is still locked reported, and one slip
\* rolled back, for every set of batches.
THEOREM BatchesAreAtomic == Spec => BatchAtomic
<1> DEFINE Done(p) == \A c \in mem[p].ids : file'[c].status = "locked" /\ Standing(store', c)
           Reported(p) == \A c \in mem[p].ids :
                            /\ ~Standing(store', c)
                            /\ file'[c].status = "locked" => LockFinding(file'[c], c, store') # {}
           RolledBack(p) == budget'.crashes = MaxCrashes /\ budget'.tampers = MaxTampers /\ Slips' <= 1
                              => \A c \in mem[p].ids : file'[c].status = "draft"
<1>1. ASSUME BInv, BInv', NEW p \in Procs, pc[p] \in InLock, pc'[p] = "idle", [Next]_vars
      PROVE  Done(p) \/ (Reported(p) /\ RolledBack(p))
  <2>1. TypeOK /\ AInv /\ Slips \in Nat
    BY <1>1, SlipsCount DEF BInv, AInv, IInv
  <2>2. /\ LockKnows(pc[p], mem[p]) /\ WillSave(pc[p], mem[p]) /\ BatchKnows(pc[p], mem[p])
        /\ Link(pc[p], mem[p], store) /\ mem[p].ids \subseteq Claims
    BY <1>1, <2>1, Phases, Held DEF BInv, Knows
  <2>3. CASE LockSave(p)
    <3>1. pc[p] = "lock.save" /\ store' = mem[p].st /\ file' = file
      BY <2>3 DEF LockSave
    <3>2. \A c \in mem[p].ids : file[c].status = "locked"
      BY <2>2, <3>1 DEF LockKnows, Unwritten
    <3>3. \A c \in mem[p].ids : mem[p].st.rec[c] = [hash |-> LockedClaimHash(mem[p].snap[c]), released |-> FALSE]
      BY <2>2, <3>1 DEF WillSave, Signed, StoreHeld
    <3>4. ASSUME NEW c \in mem[p].ids PROVE Standing(store', c)
      <4>1. PICK h : h = LockedClaimHash(mem[p].snap[c])
        OBVIOUS
      <4>2. h \in Contents /\ store'.rec[c] = [hash |-> h, released |-> FALSE]
        BY <1>1, <2>1, <2>2, <3>1, <3>3, <3>4, <4>1, Phases, Held, HashTyped DEF Files
      <4>3. [hash |-> h, released |-> FALSE] \in LedgerRecord
        BY <4>2 DEF LedgerRecord
      <4>4. store'.rec[c] # None
        BY <4>2, <4>3, NoneAssumption
      <4>5. store'.rec[c].released = FALSE
        BY <4>2
      <4> QED
        BY <4>4, <4>5 DEF Standing
    <3> QED
      BY <3>1, <3>2, <3>4
  <2>4. ASSUME \A c \in mem[p].ids : ~Standing(store', c) PROVE Reported(p)
    BY <2>4 DEF Standing, LockFinding
  <2>5. CASE LockRestore(p)
    <3>1. pc[p] = "lock.undo" /\ mem[p].left = {} /\ store' = mem[p].raw /\ file' = file /\ (UNCHANGED budget \/ Fault)
      BY <2>5 DEF LockRestore
    <3>2. store' = store
      BY <2>2, <3>1 DEF Link
    <3>3. Reported(p)
      BY <2>2, <2>4, <3>1, <3>2 DEF BatchKnows, InLock
    <3>4. RolledBack(p)
      BY <2>1, <2>2, <3>1, SlipsCount, BudgetFalls DEF BatchKnows, InLock, Untampered
    <3> QED
      BY <3>3, <3>4
  <2>6. CASE Crash(p)
    <3>1. store' = store /\ budget'.crashes # MaxCrashes
      BY <2>1, <2>6, BoundsAssumption DEF Crash, TypeOK, Budgets
    <3> QED
      BY <1>1, <2>2, <2>4, <3>1 DEF BatchKnows
  <2>7. LockSave(p) \/ LockRestore(p) \/ Crash(p)
    <3>1. ASSUME NEW q \in Procs, NEW l, NEW m, Goto(q, l, m) PROVE q = p /\ l = "idle"
      BY <1>1, <2>1, <3>1, Goes DEF InLock
    <3>2. ASSUME NEW q \in Procs, Start(q) PROVE FALSE
      <4>1. PICK l : l # "idle" /\ \E m : Goto(q, l, m)
        BY <3>2 DEF Start, Preview, LockLoad, UnlockLoad, ReauditLoad, FlagLoad, CommentLoad, CheckLoad, RoofLoad, Load
      <4> QED
        BY <3>1, <4>1
    <3>3. ASSUME NEW q \in Procs, Step(q) PROVE q = p
      <4>1. \E l, m : Goto(q, l, m)
        BY <3>3 DEF Step, End, LoopNext, LockAdmit, LockRefuse, LockSave, LockSaveFails, LockRestore, UnlockSweep,
           UnlockFlag, UnlockSave, ReauditSave, CheckSweep, RoofFile, RoofSave, LockWrite, LockWriteFails,
           LockSign, LockUndo, UnlockClaim, FlagSave, FlagClaim, ReauditApply, ReauditRefuse, ReauditSign,
           ReauditClaim, ReauditFlag, CommentClaim, CommentDigest, CheckWrite, Refused, Timeout, Fails
      <4> QED
        BY <3>1, <4>1
    <3>4. ASSUME Step(p) PROVE LockSave(p) \/ LockRestore(p)
      <4>1. \/ LockSave(p) \/ LockRestore(p) \/ LockSaveFails(p)
            \/ \E c \in Claims : LockWrite(p, c) \/ LockWriteFails(p, c) \/ LockSign(p, c) \/ LockUndo(p, c)
        BY <1>1, <3>4 DEF InLock, Step, LockAdmit, LockRefuse, UnlockSweep,
           UnlockFlag, UnlockSave, ReauditSave, CheckSweep, RoofFile, RoofSave,
           UnlockClaim, FlagSave, FlagClaim, ReauditApply, ReauditRefuse, ReauditSign,
           ReauditClaim, ReauditFlag, CommentClaim, CommentDigest, CheckWrite, Refused, Timeout, Fails, StoreWanted
      <4>2. ASSUME \/ LockSaveFails(p)
                   \/ \E c \in Claims : LockWrite(p, c) \/ LockWriteFails(p, c) \/ LockSign(p, c) \/ LockUndo(p, c)
            PROVE  \E l, m : l # "idle" /\ Goto(p, l, m)
        BY <4>2 DEF LoopNext, LockSaveFails, LockWrite, LockWriteFails, LockSign, LockUndo
      <4> QED
        BY <3>1, <4>1, <4>2
    <3>5. ASSUME Outside PROVE Crash(p)
      <4>1. ASSUME NEW q \in Procs, Crash(q) PROVE q = p
        BY <3>1, <4>1 DEF Crash
      <4>2. (\E q \in Procs : Crash(q)) \/ pc' = pc
        BY <3>5 DEF Outside, RemoveStale, EditDraft, Tamper, EditRoof
      <4> QED
        BY <1>1, <4>1, <4>2 DEF InLock
    <3>6. ~UNCHANGED vars
      BY <1>1 DEF vars, InLock
    <3> QED
      BY <1>1, <3>2, <3>3, <3>4, <3>5, <3>6 DEF Next
  <2> QED
    BY <2>3, <2>5, <2>6, <2>7
<1>2. BInv /\ BInv' /\ [Next]_vars =>
        [\A p \in Procs : pc[p] \in InLock /\ pc'[p] = "idle" =>
           \/ \A c \in mem[p].ids : file'[c].status = "locked" /\ Standing(store', c)
           \/ /\ \A c \in mem[p].ids :
                    /\ ~Standing(store', c)
                    /\ file'[c].status = "locked" => LockFinding(file'[c], c, store') # {}
              /\ budget'.crashes = MaxCrashes /\ budget'.tampers = MaxTampers /\ Slips' <= 1
                    => \A c \in mem[p].ids : file'[c].status = "draft"]_vars
  BY <1>1
<1> QED
  BY <1>2, BatchInvariance, PTL DEF Spec, BatchAtomic

-----------------------------------------------------------------------------
(***************************************************************************)
(* The audit and review_pending on histories nobody disturbed.  They rest  *)
(* on HInv: what the holder of the claims sentinel knows of comment        *)
(* blocks, digests and flags.                                              *)
(***************************************************************************)

(* The verdicts. *)

\* A claim whose marks have their record is reported unless file and record agree.
LEMMA RecordedIsQuiet ==
  ASSUME TypeOK, NEW c \in Claims, ~LedgerRecordDeleted(store, c)
  PROVE  LockFinding(file[c], c, store) = {} <=> Recorded(c)
<1>1. file[c].status \in {"draft", "locked"} /\ store.rec[c] \in LedgerRecord \cup {None}
  BY DEF TypeOK, Files, ClaimFile, LockStore
<1>2. store.rec[c] # None => store.rec[c].released \in BOOLEAN
  BY <1>1 DEF LedgerRecord
<1> QED
  BY <1>1, <1>2 DEF LockFinding, Recorded, Standing

LEMMA DigestedIsQuiet ==
  ASSUME TypeOK, NEW c \in Claims, Digested(digest[c], c)
  PROVE  CommentFinding(file[c], c, store, digest) = {}
  BY DEF Digested, CommentFinding

\* A block is a block: no entry of the digest store that records one is missing.
LEMMA BlockIsSome ==
  ASSUME TypeOK, NEW f \in ClaimFile
  PROVE  f.threads # None
  BY NoneAssumption DEF ClaimFile

-----------------------------------------------------------------------------
(* The shapes a step has. *)

\* Where a claim's files may disagree, and what about.
Recording == InLock \cup {"unlock.save", "reaudit.save"}
Flagging == {"flag.claim", "reaudit.save", "reaudit.flag"}

LEMMA Undisturbing ==
  ASSUME TypeOK, UNCHANGED budget \/ Fault, Undisturbed'
  PROVE  Undisturbed /\ UNCHANGED budget /\ ~Fault /\ Steady /\ Untampered /\ Steady' /\ Untampered'
<1>1. ~Fault
  BY BoundsAssumption DEF Fault, TypeOK, Budgets, Undisturbed
<1> QED
  BY <1>1 DEF Undisturbed, Steady, Untampered

\* Outside a claim command nothing is in between.
LEMMA NothingMidway ==
  ASSUME NEW l, l \notin ClaimsHeld, NEW m
  PROVE  l \notin Recording /\ l \notin Flagging /\ l # "comment.digest"
  BY Phases DEF Recording, Flagging, ClaimsHeld, Labels

\* The files of a claim in the eyes of Settled.
LEMMA SettledOn ==
  ASSUME NEW c \in Claims, NEW l, NEW m, Settled(c, l, m), NEW k, NEW n,
         /\ file'[c].status = file[c].status /\ file'[c].pending = file[c].pending
         /\ file'[c].threads = file[c].threads,
         file[c].status = "locked" => LockedClaimHash(file'[c]) = LockedClaimHash(file[c]),
         digest'[c] = digest[c], flags'[c] = flags[c], store'.rec[c] = store.rec[c],
         c \in m.ids => /\ l \in Recording => c \in n.ids /\ k \in Recording
                        /\ l \in Flagging => c \in n.ids /\ k \in Flagging
                        /\ l = "comment.digest" => c \in n.ids /\ k = "comment.digest"
  PROVE  Settled(c, k, n)'
<1>1. (Standing(store, c) <=> Standing(store, c)') /\ (HasThreads(file[c]) <=> HasThreads(file[c])')
      /\ OpenThreads(file[c])' = OpenThreads(file[c])
  BY DEF Standing, HasThreads, OpenThreads
<1>2. Recorded(c) => Recorded(c)'
  BY <1>1 DEF Recorded
<1>3. Digested(digest[c], c) => Digested(digest[c], c)'
  BY <1>1 DEF Digested
<1> QED
  BY <1>1, <1>2, <1>3 DEF Settled, Recording, Flagging

LEMMA FreeHas ==
  ASSUME HInv, Undisturbed, holder["claims"] = None
  PROVE  \A c \in Claims : Settled(c, "idle", Blank)
  BY ProcsAssumption DEF HInv, AInv, IInv, ClaimsGuarded

LEMMA HolderHas ==
  ASSUME HInv, NEW p \in Procs, pc[p] \in ClaimsHeld, Undisturbed
  PROVE  HolderKnows(pc[p], mem[p]) /\ \A c \in Claims : Settled(c, pc[p], mem[p])
  BY DEF HInv

\* A step of the process that holds, or takes, the claims sentinel.
LEMMA HolderStepH ==
  ASSUME HInv, AInv', NEW p \in Procs, pc[p] \in ClaimsHeld \/ holder["claims"] = None,
         NEW l, NEW m, pc'[p] = l, mem'[p] = m,
         \A q \in Procs \ {p} : pc'[q] = pc[q] /\ mem'[q] = mem[q],
         Undisturbed' => /\ l \in ClaimsHeld => HolderKnows(l, m)'
                         /\ \A c \in Claims : Settled(c, l, m)'
  PROVE  HInv'
<1>1. \A q \in Procs : pc'[q] \in ClaimsHeld => q = p
  BY OnlyHolder DEF HInv, AInv
<1>2. ASSUME Undisturbed', l \notin ClaimsHeld, NEW c \in Claims
      PROVE  Settled(c, "idle", Blank)'
  <2>1. Settled(c, l, m)'
    BY <1>2
  <2>2. l \notin Recording /\ l \notin Flagging /\ l # "comment.digest"
    BY <1>2, NothingMidway
  <2> QED
    BY <2>1, <2>2 DEF Settled, Recording, Flagging
<1> QED
  BY <1>1, <1>2 DEF HInv

\* A step beside the claim commands.
LEMMA AsideStepH ==
  ASSUME HInv, AInv', Undisturbed' => Undisturbed,
         \A q \in Procs : /\ pc'[q] \in ClaimsHeld <=> pc[q] \in ClaimsHeld
                          /\ pc[q] \in ClaimsHeld => pc'[q] = pc[q] /\ mem'[q] = mem[q],
         UNCHANGED <<digest, flags>>,
         \A c \in Claims : store'.rec[c] = store.rec[c],
         \A c \in Claims : /\ file'[c].status = file[c].status /\ file'[c].pending = file[c].pending
                           /\ file'[c].threads = file[c].threads
                           /\ file[c].status = "locked" => LockedClaimHash(file'[c]) = LockedClaimHash(file[c])
  PROVE  HInv'
<1> SUFFICES ASSUME Undisturbed'
             PROVE  /\ \A p \in Procs : pc'[p] \in ClaimsHeld =>
                          HolderKnows(pc[p], mem[p])' /\ \A c \in Claims : Settled(c, pc[p], mem[p])'
                    /\ (\A p \in Procs : pc'[p] \notin ClaimsHeld) => \A c \in Claims : Settled(c, "idle", Blank)'
  BY DEF HInv
<1>1. ASSUME NEW p \in Procs, pc'[p] \in ClaimsHeld
      PROVE  HolderKnows(pc[p], mem[p])' /\ \A c \in Claims : Settled(c, pc[p], mem[p])'
  <2>1. PICK l, m : l = pc[p] /\ m = mem[p] /\ pc'[p] = l /\ mem'[p] = m
    BY <1>1
  <2>2. HolderKnows(l, m) /\ \A c \in Claims : Settled(c, l, m)
    BY <1>1, <2>1, HolderHas
  <2>3. \A c \in Claims : Settled(c, l, m)'
    BY <2>2, SettledOn
  <2>4. m.ids \subseteq Claims
    BY <1>1, <2>1, Held DEF HInv
  <2>5. HolderKnows(l, m)'
    <3>1. \A c \in Claims : (Standing(store, c) <=> Standing(store, c)') /\ (HasThreads(file[c]) <=> HasThreads(file[c])')
      BY DEF Standing, HasThreads
    <3>2. ASSUME NEW c \in Claims, NEW d PROVE Digested(d, c) => Digested(d, c)'
      BY <3>1 DEF Digested
    <3>3. l = "reaudit.save" => \A c \in m.ids :
             /\ file'[c].status = "locked"
             /\ m.st.rec[c] = [hash |-> LockedClaimHash(file'[c]), released |-> FALSE]
      BY <2>2, <2>4 DEF HolderKnows
    <3>4. Signed(l, m) \subseteq Claims
      BY <2>4 DEF Signed
    <3> QED
      BY <2>2, <2>4, <3>1, <3>2, <3>3, <3>4 DEF HolderKnows
  <2> QED
    BY <2>1, <2>3, <2>5
<1>2. ASSUME \A p \in Procs : pc'[p] \notin ClaimsHeld, NEW c \in Claims PROVE Settled(c, "idle", Blank)'
  <2>1. Settled(c, "idle", Blank)
    BY <1>2 DEF HInv
  <2> QED
    BY <2>1, SettledOn
<1> QED
  BY <1>1, <1>2

LEMMA DisturbedH == ASSUME AInv', ~Undisturbed' PROVE HInv'
  BY DEF HInv

LEMMA Typed == ASSUME HInv PROVE AInv /\ IInv /\ TypeOK /\ file \in Files
  BY DEF HInv, AInv, IInv, TypeOK

\* Kills, editors and hands.
LEMMA OutsideKeepsH == ASSUME HInv, AInv', Outside PROVE HInv'
<1>1. TypeOK /\ file \in Files
  BY Typed
<1>2. CASE \E p \in Procs : Crash(p)
  <2>1. ~Undisturbed'
    BY <1>1, <1>2, BoundsAssumption DEF Crash, TypeOK, Budgets, Undisturbed
  <2> QED
    BY <2>1, DisturbedH
<1>3. CASE \E s \in Sentinels : RemoveStale(s)
  <2>1. UNCHANGED <<file, store, digest, flags, pc, mem, budget>>
    BY <1>3 DEF RemoveStale
  <2> QED
    BY <2>1, AsideStepH DEF Undisturbed
<1>4. CASE \E r \in Constitution : EditRoof(r)
  <2>1. UNCHANGED <<file, store, digest, flags, pc, mem>>
    BY <1>4 DEF EditRoof
  <2>2. Undisturbed' => Undisturbed
    BY <1>1, <1>4 DEF EditRoof, TypeOK, Budgets, Undisturbed
  <2> QED
    BY <2>1, <2>2, AsideStepH
<1>5. ASSUME NEW c \in Claims, NEW k \in Contents, EditDraft(c, k) PROVE HInv'
  <2>1. UNCHANGED <<store, digest, flags, pc, mem>>
    BY <1>5 DEF EditDraft
  <2>2. Undisturbed' => Undisturbed
    BY <1>1, <1>5 DEF EditDraft, TypeOK, Budgets, Undisturbed
  <2>3. /\ file[c].status = "draft" /\ file'[c].status = "draft"
        /\ file'[c].pending = file[c].pending /\ file'[c].threads = file[c].threads
        /\ \A d \in Claims \ {c} : file'[d] = file[d]
    BY <1>1, <1>5 DEF EditDraft, Files, ClaimFile
  <2> QED
    BY <2>1, <2>2, <2>3, AsideStepH
<1>6. ASSUME NEW c \in Claims, NEW f \in ClaimFile, Tamper(c, f) PROVE HInv'
  <2>1. ~Undisturbed'
    BY <1>1, <1>6, BoundsAssumption DEF Tamper, TypeOK, Budgets, Undisturbed
  <2> QED
    BY <2>1, DisturbedH
<1> QED
  BY <1>2, <1>3, <1>4, <1>5, <1>6 DEF Outside

\* The preview and constitution lock change no record.
LEMMA ApartKeepsH ==
  ASSUME HInv, AInv', NEW p \in Procs,
         \/ \E B \in Batches : Preview(p, B)
         \/ RoofLoad(p) \/ RoofFile(p) \/ RoofSave(p)
  PROVE  HInv'
<1>1. TypeOK /\ StoreGuarded
  BY Typed DEF IInv
<1>2. PICK l \in {"idle", "reviewed", "roof.file", "roof.save"} :
         /\ pc[p] \in {"idle", "roof.file", "roof.save"}
         /\ pc'[p] = l /\ \A q \in Procs \ {p} : pc'[q] = pc[q] /\ mem'[q] = mem[q]
  <2>1. CASE \E B \in Batches : Preview(p, B)
    BY <1>1, <2>1, Goes DEF Preview
  <2>2. CASE RoofLoad(p)
    BY <1>1, <2>2, Goes DEF RoofLoad
  <2>3. CASE RoofFile(p)
    BY <1>1, <2>3, Goes DEF RoofFile
  <2>4. CASE RoofSave(p)
    BY <1>1, <2>4, Ends DEF RoofSave
  <2> QED
    BY <2>1, <2>2, <2>3, <2>4
<1>3. UNCHANGED <<file, digest, flags, budget>>
  BY DEF Preview, RoofLoad, RoofFile, RoofSave
<1>4. \A c \in Claims : store'.rec[c] = store.rec[c]
  <2>1. CASE RoofSave(p)
    <3>1. pc[p] = "roof.save" /\ pc[p] \in StoreHeld /\ store' = mem[p].st
      BY <2>1 DEF RoofSave, StoreHeld
    <3>2. mem[p].st = [store EXCEPT !.roof = mem[p].st.roof]
      BY <1>1, <3>1 DEF StoreGuarded, Link
    <3>3. store \in LockStore
      BY <1>1 DEF TypeOK
    <3> QED
      BY <3>1, <3>2, <3>3 DEF LockStore
  <2>2. CASE ~RoofSave(p)
    BY <2>2 DEF Preview, RoofLoad, RoofFile
  <2> QED
    BY <2>1, <2>2
<1>5. /\ pc[p] \notin ClaimsHeld /\ pc'[p] \notin ClaimsHeld
      /\ Undisturbed' => Undisturbed
  BY <1>2, <1>3, Phases DEF Undisturbed
<1> QED
  BY <1>2, <1>3, <1>4, <1>5, AsideStepH

-----------------------------------------------------------------------------
(* Loading, sweeping, and giving up. *)

\* What is loaded is what is on disk.
LEMMA LoadStepH ==
  ASSUME HInv, AInv', NEW p \in Procs, holder["claims"] = None,
         NEW l \in Loading, NEW m, m.snap = file, pc'[p] = l, mem'[p] = m,
         \A q \in Procs \ {p} : pc'[q] = pc[q] /\ mem'[q] = mem[q],
         UNCHANGED <<file, store, digest, flags, budget>>,
         l = "flag.save" => m.tok = file,
         l = "comment.claim" => \A c \in m.ids :
            m.out[c].status = "locked" /\ (flags[c] # None \/ OpenThreads(m.out[c]) # {}) => m.out[c].pending
  PROVE  HInv'
<1> SUFFICES ASSUME Undisturbed'
             PROVE  HolderKnows(l, m)' /\ \A c \in Claims : Settled(c, l, m)'
  BY HolderStepH
<1>1. Undisturbed
  BY DEF Undisturbed
<1>2. \A c \in Claims : Settled(c, l, m)'
  BY <1>1, FreeHas, SettledOn, Phases, NothingMidway
<1>3. HolderKnows(l, m)'
  BY DEF HolderKnows, Loading, InLock
<1> QED
  BY <1>2, <1>3

\* The sweep adopts only claims that have nothing to record.
LEMMA SweepSettles ==
  ASSUME HInv, NEW p \in Procs, pc[p] \in ClaimsHeld,
         pc[p] \notin Recording, pc[p] \notin Flagging, pc[p] # "comment.digest",
         SweepDigest(mem[p].snap), Undisturbed', UNCHANGED <<file, store, flags>>,
         NEW k, NEW n
  PROVE  \A c \in Claims : Settled(c, k, n)'
<1>1. /\ Undisturbed /\ digest' = Sweep(mem[p].snap, store, digest)
  BY Undisturbing, Typed DEF SweepDigest
<1>2. HolderKnows(pc[p], mem[p]) /\ \A c \in Claims : Settled(c, pc[p], mem[p])
  BY <1>1, HolderHas
<1> SUFFICES ASSUME NEW c \in Claims PROVE Settled(c, k, n)'
  OBVIOUS
<1>3. Recorded(c) /\ Digested(digest[c], c)
      /\ (file[c].status = "locked" /\ OpenThreads(file[c]) # {} => file[c].pending)
      /\ (flags[c] # None => file[c].status = "locked" /\ file[c].pending)
  BY <1>2 DEF Settled, Recording, Flagging
<1>4. HasThreads(mem[p].snap[c]) <=> HasThreads(file[c])
  BY <1>2 DEF HolderKnows, HasThreads
<1>5. Digested(digest'[c], c)
  <2>1. NoThreads # None
    BY NoneAssumption DEF NoThreads, Blocks, ThreadStates
  <2> QED
    BY <1>1, <1>3, <1>4, <2>1 DEF Sweep, Digested, HasThreads
<1>6. Recorded(c)' /\ Digested(digest[c], c)'
  BY <1>3, <1>5 DEF Recorded, Digested, Standing, HasThreads
<1> QED
  BY <1>3, <1>6 DEF Settled, OpenThreads

\* A command that returns where its claims agree, changing nothing.
LEMMA EndH ==
  ASSUME HInv, AInv', NEW p \in Procs, pc[p] \in ClaimsHeld, End(p), UNCHANGED budget \/ Fault,
         pc[p] \notin Recording, pc[p] \notin Flagging, pc[p] # "comment.digest",
         UNCHANGED <<file, store, digest, flags>>
  PROVE  HInv'
<1>1. pc'[p] = "idle" /\ mem'[p] = Blank /\ \A q \in Procs \ {p} : pc'[q] = pc[q] /\ mem'[q] = mem[q]
  BY Ends, Typed
<1> SUFFICES ASSUME Undisturbed' PROVE \A c \in Claims : Settled(c, "idle", Blank)'
  BY <1>1, HolderStepH, Phases
<1>2. Undisturbed
  BY Undisturbing, Typed
<1> QED
  BY <1>2, HolderHas, SettledOn

LEMMA LoadsKeepH ==
  ASSUME HInv, AInv', NEW p \in Procs,
         \/ LockLoad(p) \/ CheckLoad(p)
         \/ \E c \in Claims : \/ UnlockLoad(p, c) \/ ReauditLoad(p, c)
                              \/ \E b \in Bodies : FlagLoad(p, c, b)
                              \/ \E t \in Threads, op \in CommentOp : CommentLoad(p, c, t, op)
  PROVE  HInv'
<1>a. IInv /\ TypeOK /\ file \in Files
  BY Typed
<1>1. CASE LockLoad(p)
  <2>1. PICK m : m = [mem[p] EXCEPT !.snap = file]
    OBVIOUS
  <2>2. m.snap = file
    BY <1>a, <2>1 DEF TypeOK, Memory
  <2>3. Goto(p, "lock.store", m) /\ Take("claims", p) /\ UNCHANGED <<file, store, digest, flags, budget>>
    BY <1>1, <2>1 DEF LockLoad
  <2> QED
    BY <1>a, <2>2, <2>3, Goes, LoadStepH DEF Take, Free, Loading
<1>2. CASE CheckLoad(p)
  <2>1. PICK m : m = [Blank EXCEPT !.snap = file, !.tok = file]
    OBVIOUS
  <2>2. m.snap = file
    BY <2>1 DEF Blank
  <2>3. Goto(p, "check.store", m) /\ Take("claims", p) /\ UNCHANGED <<file, store, digest, flags, budget>>
    BY <1>2, <2>1 DEF CheckLoad
  <2> QED
    BY <1>a, <2>2, <2>3, Goes, LoadStepH DEF Take, Free, Loading
<1>3. ASSUME NEW c \in Claims, UnlockLoad(p, c) \/ ReauditLoad(p, c) PROVE HInv'
  <2>1. PICK m : m = [Blank EXCEPT !.ids = {c}, !.snap = file, !.tok = file]
    OBVIOUS
  <2>2. m.snap = file
    BY <2>1 DEF Blank
  <2>3. PICK l \in {"unlock.store", "reaudit.store"} : Goto(p, l, m)
    BY <1>3, <2>1 DEF UnlockLoad, ReauditLoad, Load
  <2>4. Take("claims", p) /\ UNCHANGED <<file, store, digest, flags, budget>>
    BY <1>3 DEF UnlockLoad, ReauditLoad, Load
  <2> QED
    BY <1>a, <2>2, <2>3, <2>4, Goes, LoadStepH DEF Take, Free, Loading
<1>4. ASSUME NEW c \in Claims, NEW b \in Bodies, FlagLoad(p, c, b) PROVE HInv'
  <2>1. PICK m : m = [Blank EXCEPT !.ids = {c}, !.snap = file, !.tok = file, !.note = b]
    OBVIOUS
  <2>2. m.snap = file /\ m.tok = file
    BY <2>1 DEF Blank
  <2>3. Goto(p, "flag.save", m) /\ Take("claims", p) /\ UNCHANGED <<file, store, digest, flags, budget>>
    BY <1>4, <2>1 DEF FlagLoad
  <2> QED
    BY <1>a, <2>2, <2>3, Goes, LoadStepH DEF Take, Free, Loading
<1>5. ASSUME NEW c \in Claims, NEW t \in Threads, NEW op \in CommentOp, CommentLoad(p, c, t, op)
      PROVE  HInv'
  <2> DEFINE f == [file[c] EXCEPT !.threads[t] = op[2]]
             fs == [file EXCEPT ![c] = f]
             pending == IF f.status = "locked" THEN Recompute(c, fs, store, flags) ELSE f.pending
             out == [fs EXCEPT ![c].pending = pending]
  <2>1. PICK m : m = [Blank EXCEPT !.ids = {c}, !.snap = file, !.tok = file, !.out = out]
    OBVIOUS
  <2>2. m.snap = file /\ m.ids = {c} /\ m.out = out
    BY <2>1 DEF Blank
  <2>3. Goto(p, "comment.claim", m) /\ Take("claims", p) /\ UNCHANGED <<file, store, digest, flags, budget>>
    BY <1>5, <2>1 DEF CommentLoad
  <2>4. out[c].status = "locked" /\ (flags[c] # None \/ OpenThreads(out[c]) # {}) => out[c].pending
    <3>1. fs[c] = f /\ out[c] = [f EXCEPT !.pending = pending]
      BY <1>a DEF Files
    <3>2. PICK b : f = [file[c] EXCEPT !.threads = b]
      OBVIOUS
    <3> HIDE DEF f, fs, pending, out
    <3>3. f \in [status: {"draft", "locked"}, pending: BOOLEAN, body: Bodies, extra: 0..MaxExtra, threads: {b}]
      BY <1>a, <3>2 DEF Files, ClaimFile
    <3>5. out[c].status = f.status /\ out[c].threads = f.threads /\ out[c].pending = pending
      BY <3>1, <3>3
    <3>4. OpenThreads(out[c]) = OpenThreads(fs[c])
      BY <3>1, <3>5 DEF OpenThreads
    <3> QED
      BY <3>1, <3>4, <3>5 DEF Recompute, pending
  <2> HIDE DEF f, fs, pending, out
  <2>5. \A d \in m.ids : m.out[d].status = "locked" /\ (flags[d] # None \/ OpenThreads(m.out[d]) # {})
                            => m.out[d].pending
    BY <2>2, <2>4
  <2> QED
    BY <1>a, <2>2, <2>3, <2>5, Goes, LoadStepH DEF Take, Free, Loading
<1> QED
  BY <1>1, <1>2, <1>3, <1>4, <1>5

\* Commands that return early.
LEMMA EndingsKeepH ==
  ASSUME HInv, AInv', NEW p \in Procs,
         \/ LockRefuse(p) \/ Timeout(p) \/ Fails(p)
         \/ \E c \in Claims : Refused(p, c) \/ ReauditRefuse(p, c)
  PROVE  HInv'
<1>a. AInv /\ TypeOK /\ file \in Files
  BY Typed
<1>1. CASE LockRefuse(p)
  BY <1>1, EndH DEF LockRefuse, ClaimsHeld, Labels, Recording, InLock, Flagging
<1>2. CASE Timeout(p)
  BY <1>2, EndH DEF Timeout, StoreWanted, ClaimsHeld, Labels, Recording, InLock, Flagging
<1>3. CASE Fails(p)
  BY <1>3, <1>a, Undisturbing, DisturbedH DEF Fails
<1>4. ASSUME NEW c \in Claims, Refused(p, c), pc[p] # "flag.claim" PROVE HInv'
  BY <1>4, EndH DEF Refused, ClaimsHeld, Labels, Recording, InLock, Flagging
<1>5. ASSUME NEW c \in Claims, Refused(p, c), pc[p] = "flag.claim" PROVE HInv'
  <2> SUFFICES ASSUME Undisturbed' PROVE FALSE
    BY DisturbedH
  <2>1. Undisturbed /\ Untampered
    BY <1>5, <1>a, Undisturbing DEF Refused
  <2>2. "flag.claim" \in ClaimsHeld /\ "flag.claim" \notin InLock
    BY DEF ClaimsHeld, Labels, InLock
  <2>3. mem[p].tok = mem[p].snap
    BY <1>5, <2>1, <2>2, HolderHas DEF HolderKnows
  <2>4. c \in Unwritten("flag.claim", mem[p]) /\ c \in mem[p].ids
    BY <1>5 DEF Unwritten, Refused
  <2>5. Knows("flag.claim", mem[p])
    BY <1>5, <1>a, <2>2, Held
  <2>6. file[c] = mem[p].snap[c]
    BY <2>1, <2>4, <2>5 DEF Knows, Kept
  <2> QED
    BY <1>5, <2>3, <2>6 DEF Refused
<1>6. ASSUME NEW c \in Claims, ReauditRefuse(p, c) PROVE HInv'
  <2>1. CASE ~RoofLocked(roof, store)
    BY <1>6, <2>1, EndH DEF ReauditRefuse, ClaimsHeld, Labels, Recording, InLock, Flagging
  <2>2. CASE RoofLocked(roof, store)
    <3>1. /\ pc[p] = "reaudit.store" /\ SweepDigest(mem[p].snap) /\ End(p) /\ UNCHANGED <<file, store, flags>>
      BY <1>6, <2>2 DEF ReauditRefuse
    <3>2. pc[p] \in ClaimsHeld /\ pc[p] \notin Recording /\ pc[p] \notin Flagging /\ pc[p] # "comment.digest"
      BY <3>1 DEF ClaimsHeld, Labels, Recording, InLock, Flagging
    <3>3. pc'[p] = "idle" /\ mem'[p] = Blank /\ \A q \in Procs \ {p} : pc'[q] = pc[q] /\ mem'[q] = mem[q]
      BY <1>a, <3>1, Ends
    <3>4. Undisturbed' => \A d \in Claims : Settled(d, "idle", Blank)'
      BY <3>1, <3>2, SweepSettles
    <3> QED
      BY <3>2, <3>3, <3>4, HolderStepH, Phases
  <2> QED
    BY <2>1, <2>2
<1> QED
  BY <1>1, <1>2, <1>3, <1>4, <1>5, <1>6

-----------------------------------------------------------------------------
(* claim lock. *)

\* What was admitted is a draft that nobody flagged and nobody recorded.
LEMMA LockAdmitKeepsH == ASSUME HInv, AInv', NEW p \in Procs, LockAdmit(p) PROVE HInv'
<1>a. AInv /\ TypeOK /\ file \in Files
  BY Typed
<1>b. /\ pc[p] = "lock.store" /\ pc[p] \in ClaimsHeld /\ UNCHANGED <<file, store, digest, flags, budget>>
      /\ pc[p] \notin Recording /\ pc[p] \notin Flagging
  BY DEF LockAdmit, ClaimsHeld, Labels, Recording, InLock, Flagging
<1>1. PICK m : m = mem[p]
  OBVIOUS
<1>2. Knows("lock.store", m) /\ m \in Memory /\ m.snap \in Files /\ m.ids \subseteq Claims
  BY <1>a, <1>b, <1>1, Held
<1>3. PICK n : n = [m EXCEPT !.left = m.ids, !.tok = file, !.st = store, !.raw = store, !.dg = digest]
  OBVIOUS
<1>4. n.snap = m.snap /\ n.ids = m.ids /\ n.dg = digest
  BY <1>2, <1>3 DEF Memory
<1>5. pc'[p] = "lock.write" /\ mem'[p] = n /\ \A q \in Procs \ {p} : pc'[q] = pc[q] /\ mem'[q] = mem[q]
  BY <1>a, <1>1, <1>3, Goes DEF LockAdmit
<1> SUFFICES ASSUME Undisturbed'
             PROVE  HolderKnows("lock.write", n)' /\ \A c \in Claims : Settled(c, "lock.write", n)'
  BY <1>b, <1>5, HolderStepH
<1>6. Undisturbed /\ HolderKnows("lock.store", m) /\ \A c \in Claims : Settled(c, "lock.store", m)
  BY <1>a, <1>b, <1>1, Undisturbing, HolderHas
<1>7. \A c \in Claims : Settled(c, "lock.write", n)'
  BY <1>b, <1>6, SettledOn
<1>8. ASSUME NEW c \in m.ids PROVE flags[c] = None /\ ~Standing(store, c)
  <2>1. m.snap[c].status = "draft" /\ ~Standing(store, c)
    BY <1>1 DEF LockAdmit, LockAllowed, Admissible
  <2>2. file[c].status = "draft"
    BY <1>2, <2>1 DEF Knows, Kept, Unwritten
  <2> QED
    BY <1>2, <1>6, <2>1, <2>2 DEF Settled
<1>9. \A c \in Claims : Digested(digest[c], c)
  BY <1>6 DEF Settled
<1>10. HolderKnows("lock.write", n)'
  BY <1>b, <1>4, <1>6, <1>8, <1>9 DEF HolderKnows, Standing, Digested, HasThreads
<1> QED
  BY <1>7, <1>10

LEMMA LockWriteKeepsH ==
  ASSUME HInv, AInv', NEW p \in Procs, NEW c \in Claims, LockWrite(p, c) PROVE HInv'
<1>a. AInv /\ TypeOK /\ file \in Files
  BY Typed
<1>b. pc[p] = "lock.write" /\ pc[p] \in ClaimsHeld /\ UNCHANGED <<store, digest, flags, budget>>
  BY DEF LockWrite, ClaimsHeld, Labels
<1>1. PICK m : m = mem[p]
  OBVIOUS
<1>2. /\ Knows("lock.write", m) /\ m \in Memory /\ m.snap \in Files
      /\ m.ids \subseteq Claims /\ m.left \subseteq Claims
  BY <1>a, <1>b, <1>1, Held
<1>3. LockKnows("lock.write", m)
  BY <1>2 DEF Knows, InLock
<1>4. c \in m.left /\ c \in m.ids
  BY <1>1, <1>3 DEF LockWrite, LockKnows
<1>5. PICK k \in {"lock.write", "lock.sign"}, left \in SUBSET m.ids :
         Goto(p, k, [m EXCEPT !.left = left]) /\ (k = "lock.sign" => left = m.ids)
  BY <1>1, <1>3 DEF LockWrite, LoopNext, LockKnows
<1>6. PICK n : n = [m EXCEPT !.left = left]
  OBVIOUS
<1>7. n.snap = m.snap /\ n.ids = m.ids /\ n.left = left /\ n.dg = m.dg
  BY <1>2, <1>6 DEF Memory
<1>8. pc'[p] = k /\ mem'[p] = n /\ \A q \in Procs \ {p} : pc'[q] = pc[q] /\ mem'[q] = mem[q]
  BY <1>a, <1>5, <1>6, Goes
<1> SUFFICES ASSUME Undisturbed' PROVE HolderKnows(k, n)' /\ \A d \in Claims : Settled(d, k, n)'
  BY <1>b, <1>8, HolderStepH
<1>9. Undisturbed /\ HolderKnows("lock.write", m) /\ \A d \in Claims : Settled(d, "lock.write", m)
  BY <1>a, <1>b, <1>1, Undisturbing, HolderHas
<1>10. file'[c] = Locked(m.snap[c]) /\ \A d \in Claims \ {c} : file'[d] = file[d]
  BY <1>a, <1>1 DEF LockWrite, SaveClaimIfUnchanged, Files
<1>11. /\ file'[c].threads = m.snap[c].threads /\ file[c].threads = m.snap[c].threads
       /\ OpenThreads(file'[c]) = {}
  <2>1. file'[c].threads = m.snap[c].threads
    BY <1>2, <1>10 DEF Locked, Files, ClaimFile
  <2> QED
    BY <1>3, <1>4, <1>9, <2>1 DEF HolderKnows, LockKnows, OpenThreads
<1>12. \A d \in Claims : file'[d].threads = file[d].threads
  BY <1>10, <1>11
<1>13. ASSUME NEW d \in Claims, NEW e PROVE Digested(e, d) <=> Digested(e, d)'
  BY <1>b, <1>12 DEF Digested, HasThreads, Standing
<1>14. /\ k \in InLock /\ k \in Recording /\ "lock.write" \in InLock /\ k # "comment.digest"
       /\ k \notin Flagging /\ "lock.write" \notin Flagging
  BY DEF InLock, Recording, Flagging
<1>15. flags[c] = None
  BY <1>4, <1>9, <1>14 DEF HolderKnows
<1>16. Settled(c, k, n)'
  BY <1>b, <1>4, <1>7, <1>9, <1>11, <1>13, <1>14, <1>15 DEF Settled, Recording
<1>17. ASSUME NEW d \in Claims \ {c} PROVE Settled(d, k, n)'
  BY <1>b, <1>7, <1>9, <1>10, <1>14, SettledOn
<1>18. k = "lock.sign" => Signed(k, n) = {}
  BY <1>5, <1>7 DEF Signed
<1>19. HolderKnows(k, n)'
  BY <1>b, <1>2, <1>5, <1>7, <1>9, <1>12, <1>13, <1>14, <1>18 DEF HolderKnows, Standing
<1> QED
  BY <1>16, <1>17, <1>19

\* A refused write starts the rollback; a failed one disturbs.
LEMMA LockWriteFailsKeepsH ==
  ASSUME HInv, AInv', NEW p \in Procs, NEW c \in Claims, LockWriteFails(p, c) PROVE HInv'
<1>a. AInv /\ TypeOK /\ file \in Files
  BY Typed
<1>b. pc[p] = "lock.write" /\ pc[p] \in ClaimsHeld /\ UNCHANGED <<file, store, digest, flags>>
      /\ (UNCHANGED budget \/ Fault)
  BY DEF LockWriteFails, ClaimsHeld, Labels
<1>1. PICK m : m = mem[p]
  OBVIOUS
<1>2. m \in Memory
  BY <1>a, <1>b, <1>1, Held
<1>3. PICK n : n = [m EXCEPT !.left = m.ids \ m.left]
  OBVIOUS
<1>4. n.snap = m.snap /\ n.ids = m.ids /\ n.dg = m.dg
  BY <1>2, <1>3 DEF Memory
<1>5. pc'[p] = "lock.undo" /\ mem'[p] = n /\ \A q \in Procs \ {p} : pc'[q] = pc[q] /\ mem'[q] = mem[q]
  BY <1>a, <1>1, <1>2, <1>3, Goes DEF LockWriteFails, Memory
<1> SUFFICES ASSUME Undisturbed' PROVE HolderKnows("lock.undo", n)' /\ \A d \in Claims : Settled(d, "lock.undo", n)'
  BY <1>b, <1>5, HolderStepH
<1>6. Undisturbed /\ HolderKnows("lock.write", m) /\ \A d \in Claims : Settled(d, "lock.write", m)
  BY <1>a, <1>b, <1>1, Undisturbing, HolderHas
<1>7. {"lock.write", "lock.undo"} \subseteq InLock /\ "lock.write" \notin Flagging
  BY DEF InLock, Flagging
<1>8. \A d \in Claims : Settled(d, "lock.undo", n)'
  BY <1>b, <1>4, <1>6, <1>7, SettledOn DEF Recording
<1>9. HolderKnows("lock.undo", n)'
  BY <1>b, <1>4, <1>6, <1>7 DEF HolderKnows, Standing, Digested, HasThreads
<1> QED
  BY <1>8, <1>9

\* The digest entry that is written is that of the block on disk.
LEMMA LockSignKeepsH ==
  ASSUME HInv, AInv', NEW p \in Procs, NEW c \in Claims, LockSign(p, c) PROVE HInv'
<1>a. AInv /\ TypeOK /\ file \in Files /\ digest \in [Claims -> Blocks \cup {None}]
  BY Typed DEF TypeOK
<1>b. /\ pc[p] = "lock.sign" /\ pc[p] \in ClaimsHeld /\ UNCHANGED <<file, store, flags>>
      /\ (UNCHANGED budget \/ Fault)
  BY DEF LockSign, RecordDigest, ClaimsHeld, Labels
<1>1. PICK m : m = mem[p]
  OBVIOUS
<1>2. /\ Knows("lock.sign", m) /\ m \in Memory /\ m.snap \in Files
      /\ m.ids \subseteq Claims /\ m.left \subseteq Claims
  BY <1>a, <1>b, <1>1, Held
<1>3. LockKnows("lock.sign", m)
  BY <1>2 DEF Knows, InLock
<1>4. c \in m.left /\ c \in m.ids
  BY <1>1, <1>3 DEF LockSign, LockKnows
<1>5. PICK t : t = RecordApproval(RefreshBaseline(m.st, c, m.snap), c, m.snap[c])
  OBVIOUS
<1>6. PICK v : v = [m EXCEPT !.st = t]
  OBVIOUS
<1>7. v.left = m.left /\ v.ids = m.ids /\ v.snap = m.snap /\ v.dg = m.dg
  BY <1>2, <1>6 DEF Memory
<1>8. Goto(p, IF v.left \ {c} = {} THEN "lock.save" ELSE "lock.sign",
           [v EXCEPT !.left = IF v.left \ {c} = {} THEN v.ids ELSE v.left \ {c}])
  BY <1>1, <1>5, <1>6 DEF LockSign
<1>9. PICK k \in {"lock.sign", "lock.save"}, left \in SUBSET m.ids :
         /\ Goto(p, k, [v EXCEPT !.left = left])
         /\ k = "lock.sign" => left = m.left \ {c}
         /\ k = "lock.save" => m.left \ {c} = {}
  <2>1. m.ids \in SUBSET m.ids /\ m.left \ {c} \in SUBSET m.ids
    BY <1>3 DEF LockKnows
  <2> QED
    BY <1>7, <1>8, <2>1
<1>10. PICK n : n = [v EXCEPT !.left = left]
  OBVIOUS
<1>11. n.snap = m.snap /\ n.ids = m.ids /\ n.left = left /\ n.dg = m.dg
  BY <1>2, <1>6, <1>7, <1>10 DEF Memory
<1>12. pc'[p] = k /\ mem'[p] = n /\ \A q \in Procs \ {p} : pc'[q] = pc[q] /\ mem'[q] = mem[q]
  BY <1>a, <1>9, <1>10, Goes
<1> SUFFICES ASSUME Undisturbed' PROVE HolderKnows(k, n)' /\ \A d \in Claims : Settled(d, k, n)'
  BY <1>b, <1>12, HolderStepH
<1>13. Undisturbed /\ ~Fault /\ HolderKnows("lock.sign", m) /\ \A d \in Claims : Settled(d, "lock.sign", m)
  BY <1>a, <1>b, <1>1, Undisturbing, HolderHas
<1>14. digest'[c] = m.snap[c].threads /\ \A d \in Claims \ {c} : digest'[d] = digest[d]
  BY <1>a, <1>1, <1>13 DEF LockSign, RecordDigest
<1>15. m.snap[c] \in ClaimFile /\ m.snap[c].threads = file[c].threads
  BY <1>2, <1>13 DEF Files, HolderKnows
<1>16. /\ k \in InLock /\ k \in Recording /\ "lock.sign" \in InLock /\ k # "comment.digest"
       /\ k \notin Flagging /\ "lock.sign" \notin Flagging
  BY DEF InLock, Recording, Flagging
<1>17. ASSUME NEW d \in Claims, NEW e PROVE Digested(e, d) <=> Digested(e, d)'
  BY <1>b DEF Digested, HasThreads, Standing
<1>18. Digested(digest[c], c)'
  BY <1>b, <1>14, <1>15, BlockIsSome, <1>a DEF Digested
<1>19. Settled(c, k, n)'
  BY <1>b, <1>4, <1>11, <1>13, <1>16, <1>18 DEF Settled, Recording, Flagging, OpenThreads
<1>20. ASSUME NEW d \in Claims \ {c} PROVE Settled(d, k, n)'
  BY <1>b, <1>11, <1>13, <1>14, <1>16, SettledOn
<1>21. \A d \in Signed(k, n) : digest'[d] = n.snap[d].threads
  <2>1. Signed(k, n) \subseteq Signed("lock.sign", m) \cup {c} /\ Signed("lock.sign", m) \subseteq Claims
    BY <1>2, <1>9, <1>11 DEF Signed
  <2> QED
    BY <1>11, <1>13, <1>14, <2>1 DEF HolderKnows
<1>22. HolderKnows(k, n)'
  BY <1>b, <1>2, <1>11, <1>13, <1>16, <1>17, <1>21 DEF HolderKnows, Standing
<1> QED
  BY <1>19, <1>20, <1>22

\* What is saved is the record of each locked file, and its digest is on disk.
LEMMA LockSaveKeepsH == ASSUME HInv, AInv', NEW p \in Procs, LockSave(p) PROVE HInv'
<1>a. AInv /\ TypeOK /\ file \in Files
  BY Typed
<1>b. /\ pc[p] = "lock.save" /\ pc[p] \in ClaimsHeld /\ pc[p] \in StoreHeld
      /\ UNCHANGED <<file, digest, flags, budget>> /\ store' = mem[p].st
  BY DEF LockSave, ClaimsHeld, StoreHeld, Labels
<1>1. PICK m : m = mem[p]
  OBVIOUS
<1>2. /\ Knows("lock.save", m) /\ m \in Memory /\ m.snap \in Files /\ m.ids \subseteq Claims
  BY <1>a, <1>b, <1>1, Held
<1>3. LockKnows("lock.save", m) /\ WillSave("lock.save", m)
  BY <1>2 DEF Knows, InLock
<1>4. pc'[p] = "idle" /\ mem'[p] = Blank /\ \A q \in Procs \ {p} : pc'[q] = pc[q] /\ mem'[q] = mem[q]
  BY <1>a, Ends DEF LockSave
<1> SUFFICES ASSUME Undisturbed' PROVE \A c \in Claims : Settled(c, "idle", Blank)'
  BY <1>b, <1>4, HolderStepH, Phases
<1>5. /\ Undisturbed /\ Untampered /\ HolderKnows("lock.save", m)
      /\ \A c \in Claims : Settled(c, "lock.save", m)
  BY <1>a, <1>b, <1>1, Undisturbing, HolderHas
<1>6. ASSUME NEW c \in Claims \ m.ids PROVE Settled(c, "idle", Blank)'
  <2>1. store'.rec[c] = store.rec[c]
    BY <1>b, <1>1, <1>3, <1>6 DEF WillSave, Signed, StoreHeld
  <2> QED
    BY <1>b, <1>5, <1>6, <2>1, SettledOn
<1>7. ASSUME NEW c \in m.ids PROVE Settled(c, "idle", Blank)'
  <2>1. c \in Claims /\ m.snap[c] \in ClaimFile
    BY <1>2 DEF Files
  <2>2. file[c].status = "locked" /\ file[c] = Locked(m.snap[c])
    BY <1>2, <1>3, <1>5 DEF LockKnows, Unwritten
  <2>3. LockedClaimHash(file[c]) = LockedClaimHash(m.snap[c])
    BY <2>1, <2>2 DEF Locked, ClaimFile, LockedClaimHash
  <2>4. store'.rec[c] = [hash |-> LockedClaimHash(m.snap[c]), released |-> FALSE]
    BY <1>b, <1>1, <1>3 DEF WillSave, Signed, StoreHeld
  <2>5. Standing(store', c) /\ store'.rec[c].hash = LockedClaimHash(m.snap[c])
    BY <2>1, <2>4, RecordStands, HashTyped
  <2>6. Recorded(c)'
    BY <1>b, <2>2, <2>3, <2>5 DEF Recorded
  <2>7. digest[c] = m.snap[c].threads /\ file[c].threads = m.snap[c].threads
    BY <1>5, <2>1 DEF HolderKnows, Signed
  <2>8. Digested(digest[c], c)'
    BY <1>a, <1>b, <2>1, <2>7, BlockIsSome DEF Digested
  <2>9. flags[c] = None
    BY <1>5 DEF HolderKnows, InLock
  <2>10. OpenThreads(file[c]) = {}
    BY <1>3, <2>7 DEF LockKnows, OpenThreads
  <2> QED
    BY <1>b, <2>6, <2>8, <2>9, <2>10 DEF Settled, OpenThreads
<1> QED
  BY <1>6, <1>7

LEMMA LockSaveFailsKeepsH == ASSUME HInv, AInv', NEW p \in Procs, LockSaveFails(p) PROVE HInv'
  BY Typed, Undisturbing, DisturbedH DEF LockSaveFails

\* A member goes back to the draft that was loaded, its block is what it was.
LEMMA LockUndoKeepsH ==
  ASSUME HInv, AInv', NEW p \in Procs, NEW c \in Claims, LockUndo(p, c) PROVE HInv'
<1>a. AInv /\ TypeOK /\ file \in Files
  BY Typed
<1>b. /\ pc[p] = "lock.undo" /\ pc[p] \in ClaimsHeld /\ UNCHANGED <<store, digest, flags>>
      /\ (UNCHANGED budget \/ Fault)
  BY DEF LockUndo, ClaimsHeld, Labels
<1>1. PICK m : m = mem[p]
  OBVIOUS
<1>2. Knows("lock.undo", m) /\ m \in Memory /\ m.snap \in Files /\ m.ids \subseteq Claims
  BY <1>a, <1>b, <1>1, Held
<1>3. LockKnows("lock.undo", m)
  BY <1>2 DEF Knows, InLock
<1>4. c \in m.left /\ c \in m.ids
  BY <1>1, <1>3 DEF LockUndo, LockKnows
<1>5. PICK n : n = [m EXCEPT !.left = @ \ {c}]
  OBVIOUS
<1>6. n.snap = m.snap /\ n.ids = m.ids /\ n.dg = m.dg
  BY <1>2, <1>5 DEF Memory
<1>7. pc'[p] = "lock.undo" /\ mem'[p] = n /\ \A q \in Procs \ {p} : pc'[q] = pc[q] /\ mem'[q] = mem[q]
  BY <1>a, <1>1, <1>5, Goes DEF LockUndo
<1> SUFFICES ASSUME Undisturbed' PROVE HolderKnows("lock.undo", n)' /\ \A d \in Claims : Settled(d, "lock.undo", n)'
  BY <1>b, <1>7, HolderStepH
<1>8. Undisturbed /\ ~Fault /\ HolderKnows("lock.undo", m) /\ \A d \in Claims : Settled(d, "lock.undo", m)
  BY <1>a, <1>b, <1>1, Undisturbing, HolderHas
<1>9. file'[c] = m.snap[c] /\ \A d \in Claims \ {c} : file'[d] = file[d]
  BY <1>a, <1>1, <1>8 DEF LockUndo, Files
<1>10. file'[c].status = "draft" /\ file[c].threads = m.snap[c].threads
  BY <1>3, <1>4, <1>8, <1>9 DEF LockKnows, HolderKnows
<1>11. \A d \in Claims : file'[d].threads = file[d].threads
  BY <1>9, <1>10
<1>12. ASSUME NEW d \in Claims, NEW e PROVE Digested(e, d) <=> Digested(e, d)'
  BY <1>b, <1>11 DEF Digested, HasThreads, Standing
<1>13. "lock.undo" \in InLock /\ "lock.undo" \in Recording /\ "lock.undo" \notin Flagging
  BY DEF InLock, Recording, Flagging
<1>14. flags[c] = None
  BY <1>4, <1>8, <1>13 DEF HolderKnows
<1>15. Settled(c, "lock.undo", n)'
  BY <1>b, <1>4, <1>6, <1>8, <1>10, <1>12, <1>13, <1>14 DEF Settled, Recording
<1>16. ASSUME NEW d \in Claims \ {c} PROVE Settled(d, "lock.undo", n)'
  BY <1>b, <1>6, <1>8, <1>9, <1>13, SettledOn
<1>17. HolderKnows("lock.undo", n)'
  BY <1>b, <1>2, <1>6, <1>8, <1>11, <1>12, <1>13 DEF HolderKnows, Standing
<1> QED
  BY <1>15, <1>16, <1>17

\* The rollback ends with drafts nobody recorded and the digests that were loaded.
LEMMA LockRestoreKeepsH == ASSUME HInv, AInv', NEW p \in Procs, LockRestore(p) PROVE HInv'
<1>a. AInv /\ IInv /\ TypeOK /\ file \in Files
  BY Typed
<1>b. /\ pc[p] = "lock.undo" /\ pc[p] \in ClaimsHeld /\ pc[p] \in StoreHeld
      /\ UNCHANGED <<file, flags>> /\ (UNCHANGED budget \/ Fault)
  BY DEF LockRestore, ClaimsHeld, StoreHeld, Labels
<1>1. PICK m : m = mem[p]
  OBVIOUS
<1>2. Knows("lock.undo", m) /\ Link("lock.undo", m, store) /\ m.ids \subseteq Claims /\ m.left = {}
  BY <1>a, <1>b, <1>1, Held DEF LockRestore
<1>3. store' = store
  BY <1>1, <1>2 DEF LockRestore, Link
<1>4. pc'[p] = "idle" /\ mem'[p] = Blank /\ \A q \in Procs \ {p} : pc'[q] = pc[q] /\ mem'[q] = mem[q]
  BY <1>a, Ends DEF LockRestore
<1> SUFFICES ASSUME Undisturbed' PROVE \A c \in Claims : Settled(c, "idle", Blank)'
  BY <1>b, <1>4, HolderStepH, Phases
<1>5. /\ Undisturbed /\ Steady /\ ~Fault /\ HolderKnows("lock.undo", m)
      /\ \A c \in Claims : Settled(c, "lock.undo", m)
  BY <1>a, <1>b, <1>1, Undisturbing, HolderHas
<1>6. digest' = m.dg
  BY <1>1, <1>5 DEF LockRestore
<1> TAKE c \in Claims
<1>7. Digested(digest[c], c)'
  BY <1>b, <1>3, <1>5, <1>6 DEF HolderKnows, InLock, Digested, HasThreads, Standing
<1>8. Recorded(c)
  <2>1. CASE c \in m.ids
    <3>1. file[c].status = "draft" /\ ~Standing(store, c)
      BY <1>2, <1>5, <2>1 DEF Knows, LockKnows, HolderKnows, InLock
    <3> QED
      BY <3>1 DEF Recorded
  <2>2. CASE c \notin m.ids
    BY <1>5, <2>2 DEF Settled
  <2> QED
    BY <2>1, <2>2
<1> QED
  BY <1>b, <1>3, <1>5, <1>7, <1>8 DEF Settled, Recorded, Standing, OpenThreads

-----------------------------------------------------------------------------
(* claim unlock. *)

LEMMA UnlockSweepKeepsH == ASSUME HInv, AInv', NEW p \in Procs, UnlockSweep(p) PROVE HInv'
<1>a. AInv /\ TypeOK /\ file \in Files
  BY Typed
<1>b. /\ pc[p] = "unlock.store" /\ pc[p] \in ClaimsHeld /\ UNCHANGED <<file, store, flags>>
      /\ pc[p] \notin Recording /\ pc[p] \notin Flagging /\ SweepDigest(mem[p].snap)
  BY DEF UnlockSweep, ClaimsHeld, Labels, Recording, InLock, Flagging
<1>1. PICK m : m = mem[p]
  OBVIOUS
<1>2. m \in Memory
  BY <1>a, <1>b, <1>1, Held
<1>3. PICK n : n = [m EXCEPT !.st = store]
  OBVIOUS
<1>4. n.snap = m.snap
  BY <1>2, <1>3 DEF Memory
<1>5. pc'[p] = "unlock.flag" /\ mem'[p] = n /\ \A q \in Procs \ {p} : pc'[q] = pc[q] /\ mem'[q] = mem[q]
  BY <1>a, <1>1, <1>3, Goes DEF UnlockSweep
<1> SUFFICES ASSUME Undisturbed'
             PROVE  HolderKnows("unlock.flag", n)' /\ \A c \in Claims : Settled(c, "unlock.flag", n)'
  BY <1>b, <1>5, HolderStepH
<1>6. \A c \in Claims : Settled(c, "unlock.flag", n)'
  BY <1>b, SweepSettles
<1>7. HolderKnows("unlock.store", m)
  BY <1>a, <1>b, <1>1, Undisturbing, HolderHas DEF SweepDigest
<1> QED
  BY <1>b, <1>4, <1>6, <1>7 DEF HolderKnows, InLock

\* The flag goes before the claim is written.
LEMMA UnlockFlagKeepsH == ASSUME HInv, AInv', NEW p \in Procs, UnlockFlag(p) PROVE HInv'
<1>a. AInv /\ TypeOK /\ file \in Files
  BY Typed
<1>b. pc[p] = "unlock.flag" /\ pc[p] \in ClaimsHeld /\ UNCHANGED <<file, store, digest, budget>>
  BY DEF UnlockFlag, ClaimsHeld, Labels
<1>1. PICK m : m = mem[p]
  OBVIOUS
<1>2. m.ids \subseteq Claims
  BY <1>a, <1>b, <1>1, Held
<1>3. pc'[p] = "unlock.claim" /\ mem'[p] = m /\ \A q \in Procs \ {p} : pc'[q] = pc[q] /\ mem'[q] = mem[q]
  BY <1>a, <1>1, Goes DEF UnlockFlag
<1> SUFFICES ASSUME Undisturbed'
             PROVE  HolderKnows("unlock.claim", m)' /\ \A c \in Claims : Settled(c, "unlock.claim", m)'
  BY <1>b, <1>3, HolderStepH
<1>4. HolderKnows("unlock.flag", m) /\ \A c \in Claims : Settled(c, "unlock.flag", m)
  BY <1>a, <1>b, <1>1, Undisturbing, HolderHas
<1>5. \A c \in Claims : flags'[c] = IF c \in m.ids THEN None ELSE flags[c]
  BY <1>1 DEF UnlockFlag
<1>6. ASSUME NEW c \in Claims PROVE Settled(c, "unlock.claim", m)'
  BY <1>b, <1>4, <1>5, SettledOn
     DEF Settled, Recorded, Digested, Standing, HasThreads, OpenThreads, InLock
<1>7. HolderKnows("unlock.claim", m)'
  BY <1>b, <1>2, <1>4, <1>5 DEF HolderKnows, InLock
<1> QED
  BY <1>6, <1>7

\* A claim that has become a draft has no flag any more; its release is to be saved.
LEMMA UnlockClaimKeepsH ==
  ASSUME HInv, AInv', NEW p \in Procs, NEW c \in Claims, UnlockClaim(p, c) PROVE HInv'
<1>a. AInv /\ TypeOK /\ file \in Files
  BY Typed
<1>b. pc[p] = "unlock.claim" /\ pc[p] \in ClaimsHeld /\ UNCHANGED <<store, digest, flags, budget>>
  BY DEF UnlockClaim, ClaimsHeld, Labels
<1>1. PICK m : m = mem[p]
  OBVIOUS
<1>2. Knows("unlock.claim", m) /\ m \in Memory /\ m.snap \in Files /\ m.ids \subseteq Claims
  BY <1>a, <1>b, <1>1, Held
<1>3. c \in m.ids /\ \A d \in m.ids : d = c
  BY <1>1, <1>2 DEF Knows, UnlockClaim, AboutOne, ClaimsHeld, InLock, Labels
<1>4. PICK n : n = [m EXCEPT !.st = ReleaseApproval(@, c)]
  OBVIOUS
<1>5. n.snap = m.snap /\ n.ids = m.ids
  BY <1>2, <1>4 DEF Memory
<1>6. pc'[p] = "unlock.save" /\ mem'[p] = n /\ \A q \in Procs \ {p} : pc'[q] = pc[q] /\ mem'[q] = mem[q]
  BY <1>a, <1>1, <1>4, Goes DEF UnlockClaim
<1> SUFFICES ASSUME Undisturbed'
             PROVE  HolderKnows("unlock.save", n)' /\ \A d \in Claims : Settled(d, "unlock.save", n)'
  BY <1>b, <1>6, HolderStepH
<1>7. HolderKnows("unlock.claim", m) /\ \A d \in Claims : Settled(d, "unlock.claim", m)
  BY <1>a, <1>b, <1>1, Undisturbing, HolderHas
<1>8. file'[c].status = "draft" /\ file'[c].threads = m.snap[c].threads
      /\ \A d \in Claims \ {c} : file'[d] = file[d]
  <2>1. PICK f : f = [m.snap[c] EXCEPT !.status = "draft", !.pending = FALSE]
    OBVIOUS
  <2>2. f.status = "draft" /\ f.threads = m.snap[c].threads
    BY <1>2, <2>1 DEF Files, ClaimFile
  <2>3. file' = [file EXCEPT ![c] = f]
    BY <1>1, <2>1 DEF UnlockClaim, SaveClaimIfUnchanged
  <2> QED
    BY <1>a, <2>2, <2>3 DEF Files
<1>9. file[c].threads = m.snap[c].threads /\ flags[c] = None
  BY <1>3, <1>7 DEF HolderKnows
<1>10. Settled(c, "unlock.save", n)'
  BY <1>b, <1>3, <1>5, <1>7, <1>8, <1>9 DEF Settled, Digested, HasThreads, Standing
<1>11. ASSUME NEW d \in Claims \ {c} PROVE Settled(d, "unlock.save", n)'
  BY <1>b, <1>3, <1>7, <1>8, SettledOn
<1>12. HolderKnows("unlock.save", n)'
  BY <1>b, <1>3, <1>5, <1>7, <1>8, <1>9 DEF HolderKnows, InLock
<1> QED
  BY <1>10, <1>11, <1>12

\* The release that is saved is that of a draft.
LEMMA UnlockSaveKeepsH == ASSUME HInv, AInv', NEW p \in Procs, UnlockSave(p) PROVE HInv'
<1>a. AInv /\ TypeOK /\ file \in Files
  BY Typed
<1>b. /\ pc[p] = "unlock.save" /\ pc[p] \in ClaimsHeld /\ pc[p] \in StoreHeld
      /\ UNCHANGED <<file, digest, flags, budget>> /\ store' = mem[p].st
  BY DEF UnlockSave, ClaimsHeld, StoreHeld, Labels
<1>1. PICK m : m = mem[p]
  OBVIOUS
<1>2. Knows("unlock.save", m) /\ m.ids \subseteq Claims
  BY <1>a, <1>b, <1>1, Held
<1>3. pc'[p] = "idle" /\ mem'[p] = Blank /\ \A q \in Procs \ {p} : pc'[q] = pc[q] /\ mem'[q] = mem[q]
  BY <1>a, Ends DEF UnlockSave
<1> SUFFICES ASSUME Undisturbed' PROVE \A c \in Claims : Settled(c, "idle", Blank)'
  BY <1>b, <1>3, HolderStepH, Phases
<1>4. HolderKnows("unlock.save", m) /\ \A c \in Claims : Settled(c, "unlock.save", m)
  BY <1>a, <1>b, <1>1, Undisturbing, HolderHas
<1>5. /\ \A c \in Claims \ m.ids : store'.rec[c] = store.rec[c]
      /\ \A c \in m.ids : file'[c].status = "draft" /\ ~Standing(store, c)'
  BY <1>b, <1>1, <1>2 DEF Knows, WillSave, Signed
<1>6. ASSUME NEW c \in Claims \ m.ids PROVE Settled(c, "idle", Blank)'
  BY <1>b, <1>4, <1>5, SettledOn
<1>7. ASSUME NEW c \in m.ids PROVE Settled(c, "idle", Blank)'
  <2>1. flags[c] = None /\ file[c].status = "draft" /\ Digested(digest[c], c)
    BY <1>b, <1>2, <1>4, <1>5 DEF HolderKnows, Settled
  <2> QED
    BY <1>b, <1>5, <2>1 DEF Settled, Recorded, Digested, HasThreads
<1> QED
  BY <1>6, <1>7

-----------------------------------------------------------------------------
(* claim flag. *)

\* A flag is put on a claim that is locked; its claim is to be marked.
LEMMA FlagSaveKeepsH ==
  ASSUME HInv, AInv', NEW p \in Procs, NEW c \in Claims, FlagSave(p, c) PROVE HInv'
<1>a. AInv /\ TypeOK /\ file \in Files /\ flags \in [Claims -> Bodies \cup {None}]
  BY Typed DEF TypeOK
<1>b. pc[p] = "flag.save" /\ pc[p] \in ClaimsHeld /\ UNCHANGED <<file, store, digest, budget>>
  BY DEF FlagSave, ClaimsHeld, Labels
<1>1. PICK m : m = mem[p]
  OBVIOUS
<1>2. Knows("flag.save", m) /\ m.ids \subseteq Claims /\ c \in m.ids
  BY <1>a, <1>b, <1>1, Held DEF FlagSave
<1>3. file[c].status = "locked"
  <2>1. m.snap[c].status = "locked" /\ c \in Unwritten("flag.save", m)
    BY <1>2 DEF Knows, Unwritten
  <2> QED
    BY <1>2, <2>1 DEF Knows, Kept
<1>4. pc'[p] = "flag.claim" /\ mem'[p] = m /\ \A q \in Procs \ {p} : pc'[q] = pc[q] /\ mem'[q] = mem[q]
  BY <1>a, <1>1, Goes DEF FlagSave
<1> SUFFICES ASSUME Undisturbed'
             PROVE  HolderKnows("flag.claim", m)' /\ \A d \in Claims : Settled(d, "flag.claim", m)'
  BY <1>b, <1>4, HolderStepH
<1>5. HolderKnows("flag.save", m) /\ \A d \in Claims : Settled(d, "flag.save", m)
  BY <1>a, <1>b, <1>1, Undisturbing, HolderHas
<1>6. \A d \in Claims \ {c} : flags'[d] = flags[d]
  BY <1>a DEF FlagSave
<1>7. Settled(c, "flag.claim", m)'
  BY <1>b, <1>2, <1>3, <1>5
     DEF Settled, Recorded, Digested, Standing, HasThreads, OpenThreads, InLock
<1>8. "flag.save" \notin Recording /\ "flag.save" \notin Flagging
  BY DEF Recording, Flagging, InLock
<1>9. ASSUME NEW d \in Claims \ {c} PROVE Settled(d, "flag.claim", m)'
  BY <1>b, <1>5, <1>6, <1>8, SettledOn
<1>10. HolderKnows("flag.claim", m)'
  BY <1>b, <1>5 DEF HolderKnows, InLock
<1> QED
  BY <1>7, <1>9, <1>10

\* The mark is put on the file as it is: a locked file changes under no command.
LEMMA FlagClaimKeepsH ==
  ASSUME HInv, AInv', NEW p \in Procs, NEW c \in Claims, FlagClaim(p, c) PROVE HInv'
<1>a. AInv /\ TypeOK /\ file \in Files
  BY Typed
<1>b. pc[p] = "flag.claim" /\ pc[p] \in ClaimsHeld /\ UNCHANGED <<store, digest, flags, budget>>
  BY DEF FlagClaim, ClaimsHeld, Labels
<1>1. PICK m : m = mem[p]
  OBVIOUS
<1>2. Knows("flag.claim", m) /\ m.ids \subseteq Claims /\ m.snap \in Files
  BY <1>a, <1>b, <1>1, Held
<1>3. c \in m.ids /\ (\A d \in m.ids : d = c) /\ m.snap[c].status = "locked"
  BY <1>1, <1>2 DEF Knows, FlagClaim, AboutOne, ClaimsHeld, InLock, Labels
<1>4. pc'[p] = "idle" /\ mem'[p] = Blank /\ \A q \in Procs \ {p} : pc'[q] = pc[q] /\ mem'[q] = mem[q]
  BY <1>a, Ends DEF FlagClaim
<1> SUFFICES ASSUME Undisturbed' PROVE \A d \in Claims : Settled(d, "idle", Blank)'
  BY <1>b, <1>4, HolderStepH, Phases
<1>5. Untampered /\ \A d \in Claims : Settled(d, "flag.claim", m)
  BY <1>a, <1>b, <1>1, Undisturbing, HolderHas
<1>6. file[c] = m.snap[c] /\ file[c] \in ClaimFile
  BY <1>a, <1>2, <1>3, <1>5 DEF Knows, Kept, Unwritten, Files
<1>7. /\ file'[c] = [file[c] EXCEPT !.pending = TRUE]
      /\ \A d \in Claims \ {c} : file'[d] = file[d]
  BY <1>a, <1>1, <1>6 DEF FlagClaim, SaveClaimIfUnchanged, Files
<1>8. /\ file'[c].pending /\ file'[c].status = "locked" /\ file'[c].threads = file[c].threads
      /\ LockedClaimHash(file'[c]) = LockedClaimHash(file[c])
  BY <1>3, <1>6, <1>7 DEF ClaimFile, LockedClaimHash
<1>9. Settled(c, "idle", Blank)'
  <2>1. file[c].status = "locked" /\ Recorded(c) /\ Digested(digest[c], c)
    BY <1>3, <1>5, <1>6 DEF Settled, InLock
  <2> QED
    BY <1>b, <1>8, <2>1 DEF Settled, Recorded, Digested, Standing, HasThreads
<1>10. "flag.claim" \notin Recording /\ "flag.claim" # "comment.digest"
  BY DEF Recording, InLock
<1>11. ASSUME NEW d \in Claims \ {c} PROVE Settled(d, "idle", Blank)'
  BY <1>b, <1>3, <1>5, <1>7, <1>10, SettledOn
<1> QED
  BY <1>9, <1>11

-----------------------------------------------------------------------------
(* claim reaudit. *)

\* What will be written keeps the block, and is marked while a thread is open.
LEMMA ReauditApplyKeepsH ==
  ASSUME HInv, AInv', NEW p \in Procs, NEW c \in Claims, ReauditApply(p, c) PROVE HInv'
<1>a. AInv /\ IInv /\ TypeOK /\ file \in Files
  BY Typed
<1>b. /\ pc[p] = "reaudit.store" /\ pc[p] \in ClaimsHeld /\ UNCHANGED <<file, store, flags>>
      /\ pc[p] \notin Recording /\ pc[p] \notin Flagging /\ SweepDigest(mem[p].snap)
  BY DEF ReauditApply, ClaimsHeld, Labels, Recording, InLock, Flagging
<1>1. PICK m : m = mem[p]
  OBVIOUS
<1>2. /\ Knows("reaudit.store", m) /\ m \in Memory /\ m.snap \in Files
      /\ m.ids \subseteq Claims /\ m.snap[c] \in ClaimFile /\ m.snap[c].extra < MaxExtra
  BY <1>a, <1>b, <1>1, Held DEF Fits, Files, ReauditApply
<1>3. c \in m.ids /\ \A d \in m.ids : d = c
  BY <1>1, <1>2 DEF Knows, ReauditApply, AboutOne, ClaimsHeld, InLock, Labels
<1>4. PICK f : f = Applied(c, m.snap[c])
  OBVIOUS
<1>5. f \in ClaimFile /\ f.threads = m.snap[c].threads
  BY <1>a, <1>2, <1>4, AppliedTyped DEF Applied, ClaimFile
<1>6. PICK t : t = RecordApproval(RefreshBaseline(store, c, m.snap), c, f)
  OBVIOUS
<1>7. PICK fs : fs = [m.snap EXCEPT ![c] = f]
  OBVIOUS
<1>8. PICK r : r = Recompute(c, fs, t, [flags EXCEPT ![c] = None])
  OBVIOUS
<1>9. PICK o : o = [fs EXCEPT ![c].pending = r]
  OBVIOUS
<1>10. /\ o[c].threads = m.snap[c].threads
       /\ OpenThreads(o[c]) # {} => o[c].pending
  <2>1. fs[c] = f /\ o[c] = [f EXCEPT !.pending = r]
    BY <1>2, <1>7, <1>9 DEF Files
  <2>2. o[c].threads = f.threads /\ o[c].pending = r
    BY <1>5, <2>1 DEF ClaimFile
  <2> QED
    BY <1>5, <1>8, <2>1, <2>2 DEF Recompute, OpenThreads
<1>11. PICK n : n = [m EXCEPT !.st = t, !.note = flags[c], !.out = o]
  OBVIOUS
<1>12. n.snap = m.snap /\ n.ids = m.ids /\ n.note = flags[c] /\ n.out = o
  BY <1>2, <1>11 DEF Memory
<1>13. /\ pc'[p] = "reaudit.sign" /\ mem'[p] = n
       /\ \A q \in Procs \ {p} : pc'[q] = pc[q] /\ mem'[q] = mem[q]
  <2>1. Goto(p, "reaudit.sign", n)
    BY <1>1, <1>4, <1>6, <1>7, <1>8, <1>9, <1>11 DEF ReauditApply
  <2> QED
    BY <1>a, <2>1, Goes
<1> SUFFICES ASSUME Undisturbed'
             PROVE  HolderKnows("reaudit.sign", n)' /\ \A d \in Claims : Settled(d, "reaudit.sign", n)'
  BY <1>b, <1>13, HolderStepH
<1>14. \A d \in Claims : Settled(d, "reaudit.sign", n)'
  BY <1>b, SweepSettles
<1>15. HolderKnows("reaudit.store", m)
  BY <1>a, <1>b, <1>1, Undisturbing, HolderHas DEF SweepDigest
<1>16. HolderKnows("reaudit.sign", n)'
  BY <1>b, <1>3, <1>10, <1>12, <1>15 DEF HolderKnows, InLock
<1> QED
  BY <1>14, <1>16

\* The digest that is recorded is that of the block on disk.
LEMMA ReauditSignKeepsH ==
  ASSUME HInv, AInv', NEW p \in Procs, NEW c \in Claims, ReauditSign(p, c) PROVE HInv'
<1>a. AInv /\ TypeOK /\ file \in Files /\ digest \in [Claims -> Blocks \cup {None}]
  BY Typed DEF TypeOK
<1>b. /\ pc[p] = "reaudit.sign" /\ pc[p] \in ClaimsHeld /\ UNCHANGED <<file, store, flags>>
      /\ (UNCHANGED budget \/ Fault)
  BY DEF ReauditSign, RecordDigest, ClaimsHeld, Labels
<1>1. PICK m : m = mem[p]
  OBVIOUS
<1>2. Knows("reaudit.sign", m) /\ m.ids \subseteq Claims /\ m.snap \in Files
  BY <1>a, <1>b, <1>1, Held
<1>3. c \in m.ids /\ \A d \in m.ids : d = c
  BY <1>1, <1>2 DEF Knows, ReauditSign, AboutOne, ClaimsHeld, InLock, Labels
<1>4. pc'[p] = "reaudit.claim" /\ mem'[p] = m /\ \A q \in Procs \ {p} : pc'[q] = pc[q] /\ mem'[q] = mem[q]
  BY <1>a, <1>1, Goes DEF ReauditSign
<1> SUFFICES ASSUME Undisturbed'
             PROVE  HolderKnows("reaudit.claim", m)' /\ \A d \in Claims : Settled(d, "reaudit.claim", m)'
  BY <1>b, <1>4, HolderStepH
<1>5. ~Fault /\ HolderKnows("reaudit.sign", m) /\ \A d \in Claims : Settled(d, "reaudit.sign", m)
  BY <1>a, <1>b, <1>1, Undisturbing, HolderHas
<1>6. m.out[c].threads = m.snap[c].threads /\ file[c].threads = m.snap[c].threads
      /\ m.snap[c].threads # None
  BY <1>a, <1>2, <1>3, <1>5, BlockIsSome DEF HolderKnows, Files
<1>7. digest'[c] = m.snap[c].threads /\ \A d \in Claims \ {c} : digest'[d] = digest[d]
  BY <1>a, <1>1, <1>5, <1>6 DEF ReauditSign, RecordDigest
<1>8. Settled(c, "reaudit.claim", m)'
  BY <1>b, <1>5, <1>6, <1>7 DEF Settled, Recorded, Digested, Standing, OpenThreads, InLock
<1>9. "reaudit.sign" \notin Recording /\ "reaudit.sign" \notin Flagging
  BY DEF Recording, Flagging, InLock
<1>10. ASSUME NEW d \in Claims \ {c} PROVE Settled(d, "reaudit.claim", m)'
  BY <1>b, <1>5, <1>7, <1>9, SettledOn
<1>11. HolderKnows("reaudit.claim", m)'
  BY <1>b, <1>3, <1>5, <1>6, <1>7 DEF HolderKnows, InLock
<1> QED
  BY <1>8, <1>10, <1>11

\* The file is written before the record that signs it is saved.
LEMMA ReauditClaimKeepsH ==
  ASSUME HInv, AInv', NEW p \in Procs, NEW c \in Claims, ReauditClaim(p, c) PROVE HInv'
<1>a. AInv /\ TypeOK /\ file \in Files
  BY Typed
<1>b. pc[p] = "reaudit.claim" /\ pc[p] \in ClaimsHeld /\ UNCHANGED <<store, digest, flags, budget>>
  BY DEF ReauditClaim, ClaimsHeld, Labels
<1>1. PICK m : m = mem[p]
  OBVIOUS
<1>2. Knows("reaudit.claim", m) /\ m.ids \subseteq Claims
  BY <1>a, <1>b, <1>1, Held
<1>3. c \in m.ids /\ \A d \in m.ids : d = c
  BY <1>1, <1>2 DEF Knows, ReauditClaim, AboutOne, ClaimsHeld, InLock, Labels
<1>4. pc'[p] = "reaudit.save" /\ mem'[p] = m /\ \A q \in Procs \ {p} : pc'[q] = pc[q] /\ mem'[q] = mem[q]
  BY <1>a, <1>1, Goes DEF ReauditClaim
<1> SUFFICES ASSUME Undisturbed'
             PROVE  HolderKnows("reaudit.save", m)' /\ \A d \in Claims : Settled(d, "reaudit.save", m)'
  BY <1>b, <1>4, HolderStepH
<1>5. HolderKnows("reaudit.claim", m) /\ \A d \in Claims : Settled(d, "reaudit.claim", m)
  BY <1>a, <1>b, <1>1, Undisturbing, HolderHas
<1>6. file'[c] = m.out[c] /\ \A d \in Claims \ {c} : file'[d] = file[d]
  BY <1>a, <1>1 DEF ReauditClaim, SaveClaimIfUnchanged, Files
<1>7. /\ m.out[c].status = "locked"
      /\ m.st.rec[c] = [hash |-> LockedClaimHash(m.out[c]), released |-> FALSE]
  BY <1>2, <1>3 DEF Knows, ReauditKnows
<1>8. /\ m.out[c].threads = m.snap[c].threads /\ file[c].threads = m.snap[c].threads
      /\ OpenThreads(m.out[c]) # {} => m.out[c].pending
  BY <1>2, <1>3, <1>5 DEF HolderKnows
<1>9. Settled(c, "reaudit.save", m)'
  <2>1. Digested(digest[c], c)
    BY <1>5 DEF Settled
  <2>2. Digested(digest[c], c)'
    BY <1>b, <1>6, <1>8, <2>1 DEF Digested, HasThreads, Standing
  <2> QED
    BY <1>b, <1>3, <1>6, <1>7, <1>8, <2>2 DEF Settled
<1>10. ASSUME NEW d \in Claims \ {c} PROVE Settled(d, "reaudit.save", m)'
  <2>1. d \notin m.ids
    BY <1>3
  <2> QED
    BY <1>b, <1>5, <1>6, <2>1, SettledOn
<1>11. HolderKnows("reaudit.save", m)'
  <2>1. \A d \in Claims : file'[d].threads = m.snap[d].threads
    BY <1>5, <1>6, <1>8 DEF HolderKnows
  <2>2. \A d \in m.ids : m.note = flags[d] /\ digest[d] # None
    BY <1>5 DEF HolderKnows
  <2>3. \A d \in m.ids :
           /\ file'[d].status = "locked"
           /\ m.st.rec[d] = [hash |-> LockedClaimHash(file'[d]), released |-> FALSE]
    BY <1>3, <1>6, <1>7
  <2>4. "reaudit.save" \notin InLock
    BY DEF InLock
  <2> QED
    BY <1>b, <2>1, <2>2, <2>3, <2>4 DEF HolderKnows
<1> QED
  BY <1>9, <1>10, <1>11

\* Record, file and digest agree; the flag it resolved goes last.
LEMMA ReauditSaveKeepsH == ASSUME HInv, AInv', NEW p \in Procs, ReauditSave(p) PROVE HInv'
<1>a. AInv /\ TypeOK /\ file \in Files
  BY Typed
<1>b. /\ pc[p] = "reaudit.save" /\ pc[p] \in ClaimsHeld /\ pc[p] \in StoreHeld
      /\ UNCHANGED <<file, digest, flags, budget>> /\ store' = mem[p].st
  BY DEF ReauditSave, ClaimsHeld, StoreHeld, Labels
<1>1. PICK m : m = mem[p]
  OBVIOUS
<1>2. Knows("reaudit.save", m) /\ m.ids \subseteq Claims
  BY <1>a, <1>b, <1>1, Held
<1>3. PICK k, n : /\ pc'[p] = k /\ mem'[p] = n
                  /\ \A q \in Procs \ {p} : pc'[q] = pc[q] /\ mem'[q] = mem[q]
                  /\ \/ k = "idle" /\ n = Blank /\ m.note = None
                     \/ k = "reaudit.flag" /\ n = m
  <2>1. CASE m.note = None
    BY <1>a, <1>1, <2>1, Ends DEF ReauditSave
  <2>2. CASE m.note # None
    BY <1>a, <1>1, <2>2, Goes DEF ReauditSave
  <2> QED
    BY <2>1, <2>2
<1> SUFFICES ASSUME Undisturbed'
             PROVE  (k \in ClaimsHeld => HolderKnows(k, n)') /\ \A c \in Claims : Settled(c, k, n)'
  BY <1>b, <1>3, HolderStepH
<1>4. HolderKnows("reaudit.save", m) /\ \A c \in Claims : Settled(c, "reaudit.save", m)
  BY <1>a, <1>b, <1>1, Undisturbing, HolderHas
<1>5. \A c \in Claims \ m.ids : store'.rec[c] = store.rec[c]
  BY <1>b, <1>1, <1>2 DEF Knows, WillSave, Signed
<1>6. k # "comment.digest" /\ k \notin InLock
  BY <1>3 DEF InLock
<1>7. ASSUME NEW c \in Claims \ m.ids PROVE Settled(c, k, n)'
  BY <1>b, <1>4, <1>5, SettledOn
<1>8. ASSUME NEW c \in m.ids PROVE Settled(c, k, n)'
  <2>1. /\ c \in Claims /\ file[c].status = "locked" /\ m.note = flags[c] /\ digest[c] # None
        /\ store'.rec[c] = [hash |-> LockedClaimHash(file[c]), released |-> FALSE]
    BY <1>b, <1>1, <1>2, <1>4, <1>8 DEF HolderKnows
  <2>2. LockedClaimHash(file[c]) \in Contents
    BY <1>a, <2>1, HashTyped DEF Files
  <2>3. Standing(store', c) /\ store'.rec[c].hash = LockedClaimHash(file[c])
    BY <2>1, <2>2, RecordStands
  <2>4. Recorded(c)'
    BY <1>b, <2>1, <2>3 DEF Recorded
  <2>5. Digested(digest[c], c) /\ (OpenThreads(file[c]) # {} => file[c].pending)
    BY <1>4, <2>1 DEF Settled
  <2>6. Digested(digest[c], c)'
    BY <1>b, <2>1, <2>5 DEF Digested
  <2>7. flags[c] = None \/ (k = "reaudit.flag" /\ c \in n.ids)
    BY <1>3, <1>8, <2>1
  <2> QED
    BY <1>b, <2>1, <2>4, <2>5, <2>6, <2>7 DEF Settled, OpenThreads
<1>9. ASSUME k \in ClaimsHeld PROVE HolderKnows(k, n)'
  <2>1. k = "reaudit.flag" /\ n = m
    BY <1>3, <1>9, Phases
  <2> QED
    BY <1>b, <1>4, <1>6, <2>1 DEF HolderKnows
<1> QED
  BY <1>7, <1>8, <1>9

LEMMA ReauditFlagKeepsH ==
  ASSUME HInv, AInv', NEW p \in Procs, NEW c \in Claims, ReauditFlag(p, c) PROVE HInv'
<1>a. AInv /\ TypeOK /\ file \in Files /\ flags \in [Claims -> Bodies \cup {None}]
  BY Typed DEF TypeOK
<1>b. pc[p] = "reaudit.flag" /\ pc[p] \in ClaimsHeld /\ UNCHANGED <<file, store, digest, budget>>
  BY DEF ReauditFlag, ClaimsHeld, Labels
<1>1. PICK m : m = mem[p]
  OBVIOUS
<1>2. Knows("reaudit.flag", m) /\ m.ids \subseteq Claims
  BY <1>a, <1>b, <1>1, Held
<1>3. c \in m.ids /\ \A d \in m.ids : d = c
  BY <1>1, <1>2 DEF Knows, ReauditFlag, AboutOne, ClaimsHeld, InLock, Labels
<1>4. pc'[p] = "idle" /\ mem'[p] = Blank /\ \A q \in Procs \ {p} : pc'[q] = pc[q] /\ mem'[q] = mem[q]
  BY <1>a, Ends DEF ReauditFlag
<1> SUFFICES ASSUME Undisturbed' PROVE \A d \in Claims : Settled(d, "idle", Blank)'
  BY <1>b, <1>4, HolderStepH, Phases
<1>5. \A d \in Claims : Settled(d, "reaudit.flag", m)
  BY <1>a, <1>b, <1>1, Undisturbing, HolderHas
<1>6. flags'[c] = None /\ \A d \in Claims \ {c} : flags'[d] = flags[d]
  BY <1>a DEF ReauditFlag
<1>7. Settled(c, "idle", Blank)'
  BY <1>b, <1>5, <1>6 DEF Settled, Recorded, Digested, Standing, HasThreads, OpenThreads, InLock
<1>8. ASSUME NEW d \in Claims \ {c} PROVE Settled(d, "idle", Blank)'
  <2>1. d \notin m.ids
    BY <1>3
  <2> QED
    BY <1>b, <1>5, <1>6, <2>1, SettledOn
<1> QED
  BY <1>7, <1>8

-----------------------------------------------------------------------------
(* Comment operations and check. *)

\* What a comment operation writes is marked if it must be; its digest is to come.
LEMMA CommentClaimKeepsH ==
  ASSUME HInv, AInv', NEW p \in Procs, NEW c \in Claims, CommentClaim(p, c) PROVE HInv'
<1>a. AInv /\ TypeOK /\ file \in Files
  BY Typed
<1>b. pc[p] = "comment.claim" /\ pc[p] \in ClaimsHeld /\ UNCHANGED <<store, digest, flags, budget>>
  BY DEF CommentClaim, ClaimsHeld, Labels
<1>1. PICK m : m = mem[p]
  OBVIOUS
<1>2. Knows("comment.claim", m) /\ m.ids \subseteq Claims
  BY <1>a, <1>b, <1>1, Held
<1>3. c \in m.ids /\ \A d \in m.ids : d = c
  BY <1>1, <1>2 DEF Knows, CommentClaim, AboutOne, ClaimsHeld, InLock, Labels
<1>4. pc'[p] = "comment.digest" /\ mem'[p] = m /\ \A q \in Procs \ {p} : pc'[q] = pc[q] /\ mem'[q] = mem[q]
  BY <1>a, <1>1, Goes DEF CommentClaim
<1> SUFFICES ASSUME Undisturbed'
             PROVE  HolderKnows("comment.digest", m)' /\ \A d \in Claims : Settled(d, "comment.digest", m)'
  BY <1>b, <1>4, HolderStepH
<1>5. Untampered /\ HolderKnows("comment.claim", m) /\ \A d \in Claims : Settled(d, "comment.claim", m)
  BY <1>a, <1>b, <1>1, Undisturbing, HolderHas
<1>6. file'[c] = m.out[c] /\ \A d \in Claims \ {c} : file'[d] = file[d]
  BY <1>a, <1>1 DEF CommentClaim, SaveClaimIfUnchanged, Files
<1>7. /\ m.out[c].status = file[c].status
      /\ file[c].status = "locked" => LockedClaimHash(m.out[c]) = LockedClaimHash(file[c])
  BY <1>2, <1>3, <1>5 DEF Knows, Kept, Unwritten
<1>8. /\ "comment.claim" \notin Recording /\ "comment.claim" \notin Flagging
      /\ "comment.claim" # "comment.digest" /\ "comment.digest" \notin InLock
  BY DEF Recording, Flagging, InLock
<1>9. Settled(c, "comment.digest", m)'
  <2>1. Recorded(c) /\ (flags[c] # None => file[c].status = "locked")
    BY <1>5, <1>8 DEF Settled, Recording
  <2>2. Recorded(c)'
    BY <1>b, <1>6, <1>7, <2>1 DEF Recorded, Standing
  <2>3. m.out[c].status = "locked" /\ (flags[c] # None \/ OpenThreads(m.out[c]) # {}) => m.out[c].pending
    BY <1>3, <1>5 DEF HolderKnows
  <2> QED
    BY <1>b, <1>3, <1>6, <1>7, <2>1, <2>2, <2>3 DEF Settled
<1>10. ASSUME NEW d \in Claims \ {c} PROVE Settled(d, "comment.digest", m)'
  BY <1>b, <1>3, <1>5, <1>6, <1>8, SettledOn
<1>11. HolderKnows("comment.digest", m)'
  BY <1>3, <1>5, <1>6, <1>8 DEF HolderKnows
<1> QED
  BY <1>9, <1>10, <1>11

\* The digest that is recorded is that of the block just written.
LEMMA CommentDigestKeepsH ==
  ASSUME HInv, AInv', NEW p \in Procs, NEW c \in Claims, CommentDigest(p, c) PROVE HInv'
<1>a. AInv /\ TypeOK /\ file \in Files /\ digest \in [Claims -> Blocks \cup {None}]
  BY Typed DEF TypeOK
<1>b. pc[p] = "comment.digest" /\ pc[p] \in ClaimsHeld /\ UNCHANGED <<file, store, flags, budget>>
  BY DEF CommentDigest, ClaimsHeld, Labels
<1>1. PICK m : m = mem[p]
  OBVIOUS
<1>2. Knows("comment.digest", m) /\ m.ids \subseteq Claims /\ m.out \in Files
  BY <1>a, <1>b, <1>1, Held DEF Fits
<1>3. c \in m.ids /\ \A d \in m.ids : d = c
  BY <1>1, <1>2 DEF Knows, CommentDigest, AboutOne, ClaimsHeld, InLock, Labels
<1>4. pc'[p] = "idle" /\ mem'[p] = Blank /\ \A q \in Procs \ {p} : pc'[q] = pc[q] /\ mem'[q] = mem[q]
  BY <1>a, Ends DEF CommentDigest
<1> SUFFICES ASSUME Undisturbed' PROVE \A d \in Claims : Settled(d, "idle", Blank)'
  BY <1>b, <1>4, HolderStepH, Phases
<1>5. HolderKnows("comment.digest", m) /\ \A d \in Claims : Settled(d, "comment.digest", m)
  BY <1>a, <1>b, <1>1, Undisturbing, HolderHas
<1>6. file[c].threads = m.out[c].threads /\ m.out[c].threads # None
  BY <1>a, <1>2, <1>3, <1>5, BlockIsSome DEF HolderKnows, Files
<1>7. digest'[c] = m.out[c].threads /\ \A d \in Claims \ {c} : digest'[d] = digest[d]
  BY <1>a, <1>1 DEF CommentDigest
<1>8. Settled(c, "idle", Blank)'
  BY <1>b, <1>5, <1>6, <1>7 DEF Settled, Recorded, Digested, Standing, OpenThreads, InLock
<1>9. ASSUME NEW d \in Claims \ {c} PROVE Settled(d, "idle", Blank)'
  <2>1. d \notin m.ids
    BY <1>3
  <2> QED
    BY <1>b, <1>5, <1>7, <2>1, SettledOn
<1> QED
  BY <1>8, <1>9

LEMMA CheckSweepKeepsH == ASSUME HInv, AInv', NEW p \in Procs, CheckSweep(p) PROVE HInv'
<1>a. AInv /\ TypeOK /\ file \in Files
  BY Typed
<1>b. /\ pc[p] = "check.store" /\ pc[p] \in ClaimsHeld /\ UNCHANGED <<file, store, flags>>
      /\ pc[p] \notin Recording /\ pc[p] \notin Flagging /\ SweepDigest(mem[p].snap)
  BY DEF CheckSweep, ClaimsHeld, Labels, Recording, InLock, Flagging
<1>1. PICK m : m = mem[p]
  OBVIOUS
<1>2. m \in Memory
  BY <1>a, <1>b, <1>1, Held
<1>3. PICK k, n : /\ pc'[p] = k /\ mem'[p] = n
                  /\ \A q \in Procs \ {p} : pc'[q] = pc[q] /\ mem'[q] = mem[q]
                  /\ k = "idle" \/ (k = "check.write" /\ n.snap = m.snap)
  <2>1. CASE Reconciled(m.snap) = {}
    BY <1>a, <1>1, <2>1, Ends DEF CheckSweep
  <2>2. CASE Reconciled(m.snap) # {}
    <3>1. PICK n : n = [m EXCEPT !.left = Reconciled(m.snap)]
      OBVIOUS
    <3>2. n.snap = m.snap
      BY <1>2, <3>1 DEF Memory
    <3>3. pc'[p] = "check.write" /\ mem'[p] = n /\ \A q \in Procs \ {p} : pc'[q] = pc[q] /\ mem'[q] = mem[q]
      BY <1>a, <1>1, <2>2, <3>1, Goes DEF CheckSweep
    <3> QED
      BY <3>2, <3>3
  <2> QED
    BY <2>1, <2>2
<1> SUFFICES ASSUME Undisturbed'
             PROVE  (k \in ClaimsHeld => HolderKnows(k, n)') /\ \A c \in Claims : Settled(c, k, n)'
  BY <1>b, <1>3, HolderStepH
<1>4. \A c \in Claims : Settled(c, k, n)'
  BY <1>b, SweepSettles
<1>5. HolderKnows("check.store", m)
  BY <1>a, <1>b, <1>1, Undisturbing, HolderHas DEF SweepDigest
<1>6. ASSUME k \in ClaimsHeld PROVE HolderKnows(k, n)'
  <2>1. k = "check.write" /\ n.snap = m.snap
    BY <1>3, <1>6, Phases
  <2> QED
    BY <1>b, <1>5, <2>1 DEF HolderKnows, InLock
<1> QED
  BY <1>4, <1>6

\* check writes with no token, but only files that are locked: they are as loaded.
LEMMA CheckWriteKeepsH ==
  ASSUME HInv, AInv', NEW p \in Procs, NEW c \in Claims, CheckWrite(p, c) PROVE HInv'
<1>a. AInv /\ TypeOK /\ file \in Files
  BY Typed
<1>b. /\ pc[p] = "check.write" /\ pc[p] \in ClaimsHeld /\ UNCHANGED <<store, digest, flags, budget>>
      /\ pc[p] \notin Recording /\ pc[p] \notin Flagging
  BY DEF CheckWrite, ClaimsHeld, Labels, Recording, InLock, Flagging
<1>1. PICK m : m = mem[p]
  OBVIOUS
<1>2. Knows("check.write", m) /\ CheckKnows(m) /\ m \in Memory /\ m.snap \in Files
  BY <1>a, <1>b, <1>1, Held DEF Knows
<1>3. c \in m.left /\ m.snap[c].status = "locked"
  BY <1>1, <1>2 DEF CheckWrite, CheckKnows
<1>4. PICK k, n : /\ pc'[p] = k /\ mem'[p] = n
                  /\ \A q \in Procs \ {p} : pc'[q] = pc[q] /\ mem'[q] = mem[q]
                  /\ k = "idle" \/ (k = "check.write" /\ n.snap = m.snap)
  <2>1. CASE m.left = {c}
    BY <1>a, <1>1, <2>1, Ends DEF CheckWrite
  <2>2. CASE m.left # {c}
    <3>1. PICK n : n = [m EXCEPT !.left = m.left \ {c}]
      OBVIOUS
    <3>2. n.snap = m.snap
      BY <1>2, <3>1 DEF Memory
    <3>3. pc'[p] = "check.write" /\ mem'[p] = n /\ \A q \in Procs \ {p} : pc'[q] = pc[q] /\ mem'[q] = mem[q]
      BY <1>a, <1>1, <2>2, <3>1, Goes DEF CheckWrite
    <3> QED
      BY <3>2, <3>3
  <2> QED
    BY <2>1, <2>2
<1> SUFFICES ASSUME Undisturbed'
             PROVE  (k \in ClaimsHeld => HolderKnows(k, n)') /\ \A d \in Claims : Settled(d, k, n)'
  BY <1>b, <1>4, HolderStepH
<1>5. Untampered /\ HolderKnows("check.write", m) /\ \A d \in Claims : Settled(d, "check.write", m)
  BY <1>a, <1>b, <1>1, Undisturbing, HolderHas
<1>6. file[c] = m.snap[c] /\ file[c] \in ClaimFile
  BY <1>a, <1>2, <1>3, <1>5 DEF Knows, Kept, Unwritten, Files
<1>7. /\ file'[c] = [file[c] EXCEPT !.pending = TRUE]
      /\ \A d \in Claims \ {c} : file'[d] = file[d]
  BY <1>a, <1>1, <1>6 DEF CheckWrite, Files
<1>8. /\ file'[c].pending /\ file'[c].status = "locked" /\ file'[c].threads = file[c].threads
      /\ LockedClaimHash(file'[c]) = LockedClaimHash(file[c])
  BY <1>3, <1>6, <1>7 DEF ClaimFile, LockedClaimHash
<1>9. Settled(c, k, n)'
  <2>1. file[c].status = "locked" /\ Recorded(c) /\ Digested(digest[c], c)
    BY <1>3, <1>5, <1>6 DEF Settled, InLock
  <2> QED
    BY <1>b, <1>8, <2>1 DEF Settled, Recorded, Digested, Standing, HasThreads
<1>10. ASSUME NEW d \in Claims \ {c} PROVE Settled(d, k, n)'
  BY <1>b, <1>5, <1>7, SettledOn
<1>11. ASSUME k \in ClaimsHeld PROVE HolderKnows(k, n)'
  <2>1. k = "check.write" /\ n.snap = m.snap
    BY <1>4, <1>11, Phases
  <2>2. \A d \in Claims : file'[d].threads = m.snap[d].threads
    <3>1. \A d \in Claims : file[d].threads = m.snap[d].threads
      BY <1>5 DEF HolderKnows
    <3>2. \A d \in Claims : file'[d].threads = file[d].threads
      BY <1>7, <1>8
    <3> QED
      BY <3>1, <3>2
  <2> QED
    BY <2>1, <2>2 DEF HolderKnows, InLock
<1> QED
  BY <1>9, <1>10, <1>11

-----------------------------------------------------------------------------
(* The invariant. *)

\* The initial states: drafts without threads, records or flags.
LEMMA InitHInv == Init => HInv
<1> SUFFICES ASSUME Init PROVE HInv
  OBVIOUS
<1>1. AInv
  BY InitAInv
<1>2. \A p \in Procs : pc[p] \notin ClaimsHeld
  BY Phases DEF Init
<1>3. ASSUME NEW c \in Claims PROVE Settled(c, "idle", Blank)
  <2>1. /\ file[c].status = "draft" /\ ~HasThreads(file[c]) /\ ~Standing(store, c) /\ flags[c] = None
        /\ digest[c] \in {NoThreads, None}
    BY DEF Init, Standing
  <2> QED
    BY <2>1 DEF Settled, Recorded, Digested, HasThreads
<1> QED
  BY <1>1, <1>2, <1>3 DEF HInv

\* A step of the set lock, from its admission to its end.
LEMMA LockKeepsH ==
  ASSUME HInv, AInv', NEW p \in Procs,
         \/ LockAdmit(p) \/ LockRefuse(p) \/ LockSave(p) \/ LockSaveFails(p) \/ LockRestore(p)
         \/ \E c \in Claims : LockWrite(p, c) \/ LockWriteFails(p, c) \/ LockSign(p, c) \/ LockUndo(p, c)
  PROVE  HInv'
  BY LockAdmitKeepsH, EndingsKeepH, LockSaveKeepsH, LockSaveFailsKeepsH, LockRestoreKeepsH,
     LockWriteKeepsH, LockWriteFailsKeepsH, LockSignKeepsH, LockUndoKeepsH

\* A step of another command, or the end of one.
LEMMA OthersKeepH ==
  ASSUME HInv, AInv', NEW p \in Procs,
         \/ UnlockSweep(p) \/ UnlockFlag(p) \/ UnlockSave(p)
         \/ ReauditSave(p) \/ CheckSweep(p) \/ RoofFile(p) \/ RoofSave(p)
         \/ \E c \in Claims :
               \/ UnlockClaim(p, c) \/ FlagSave(p, c) \/ FlagClaim(p, c)
               \/ ReauditApply(p, c) \/ ReauditRefuse(p, c) \/ ReauditSign(p, c)
               \/ ReauditClaim(p, c) \/ ReauditFlag(p, c)
               \/ CommentClaim(p, c) \/ CommentDigest(p, c) \/ CheckWrite(p, c)
               \/ Refused(p, c)
         \/ Timeout(p) \/ Fails(p)
  PROVE  HInv'
<1>1. ASSUME NEW c \in Claims,
             \/ ReauditApply(p, c) \/ ReauditRefuse(p, c) \/ ReauditSign(p, c)
             \/ ReauditClaim(p, c) \/ ReauditFlag(p, c)
      PROVE  HInv'
  BY <1>1, ReauditApplyKeepsH, EndingsKeepH, ReauditSignKeepsH, ReauditClaimKeepsH, ReauditFlagKeepsH
<1>2. ASSUME NEW c \in Claims,
             \/ UnlockClaim(p, c) \/ FlagSave(p, c) \/ FlagClaim(p, c)
             \/ CommentClaim(p, c) \/ CommentDigest(p, c) \/ CheckWrite(p, c) \/ Refused(p, c)
      PROVE  HInv'
  BY <1>2, UnlockClaimKeepsH, FlagSaveKeepsH, FlagClaimKeepsH, CommentClaimKeepsH, CommentDigestKeepsH,
     EndingsKeepH, CheckWriteKeepsH
<1>3. CASE UnlockSweep(p) \/ UnlockFlag(p) \/ UnlockSave(p) \/ ReauditSave(p) \/ CheckSweep(p)
  BY <1>3, UnlockSweepKeepsH, UnlockFlagKeepsH, UnlockSaveKeepsH, ReauditSaveKeepsH, CheckSweepKeepsH
<1>4. CASE RoofFile(p) \/ RoofSave(p) \/ Timeout(p) \/ Fails(p)
  BY <1>4, ApartKeepsH, EndingsKeepH
<1> QED
  BY <1>1, <1>2, <1>3, <1>4

LEMMA NextHInv == HInv /\ [Next]_vars => HInv'
<1> SUFFICES ASSUME HInv, [Next]_vars PROVE HInv'
  OBVIOUS
<1>a. AInv'
  BY NextAInv, Typed
<1>1. CASE UNCHANGED vars
  <2>1. UNCHANGED <<file, store, digest, flags, pc, mem, budget>>
    BY <1>1 DEF vars
  <2> QED
    BY <1>a, <2>1, AsideStepH DEF Undisturbed
<1>2. ASSUME NEW p \in Procs, Start(p) PROVE HInv'
  BY <1>2, <1>a, LoadsKeepH, ApartKeepsH DEF Start
<1>3. ASSUME NEW p \in Procs, Step(p) PROVE HInv'
  BY <1>3, <1>a, LockKeepsH, OthersKeepH DEF Step
<1>4. CASE Outside
  BY <1>4, <1>a, OutsideKeepsH
<1> QED
  BY <1>1, <1>2, <1>3, <1>4 DEF Next

\* HInv holds of every behaviour: while nobody was killed and no write failed or was
\* made by hand, file, record, digest, flag and review_pending of every claim agree,
\* but for the writes the running command still has to do.
THEOREM HonestInvariance == Spec => []HInv
  BY InitHInv, NextHInv, PTL DEF Spec

\* Commands that run to their end, in any number, any interleaving and around any edit
\* of a draft, leave nothing for lock.Audit to report and no review_pending unset
\* beside a flag or an open thread.
THEOREM HonestAudits == Spec => []Honest
<1>1. ASSUME HInv PROVE Honest
  <2> SUFFICES ASSUME Quiet, Undisturbed, NEW c \in Claims
               PROVE  /\ Findings(c) = {}
                      /\ file[c].status = "locked" /\ (flags[c] # None \/ OpenThreads(file[c]) # {})
                            => file[c].pending
                      /\ flags[c] # None => file[c].status = "locked"
    BY DEF Honest, HonestClean, PendingHonest
  <2>1. \A p \in Procs : pc[p] \notin ClaimsHeld
    BY Phases DEF Quiet
  <2>2. Settled(c, "idle", Blank) /\ TypeOK /\ ~LedgerRecordDeleted(store, c)
    BY <1>1, <2>1, Typed DEF HInv, IInv, NeverLooksDeleted
  <2>3. "idle" \notin InLock
    BY DEF InLock
  <2>4. /\ Recorded(c) /\ Digested(digest[c], c)
        /\ file[c].status = "locked" /\ OpenThreads(file[c]) # {} => file[c].pending
        /\ flags[c] # None => file[c].status = "locked" /\ file[c].pending
    BY <2>2, <2>3 DEF Settled
  <2> QED
    BY <2>2, <2>4, RecordedIsQuiet, DigestedIsQuiet DEF Findings
<1> QED
  BY <1>1, HonestInvariance, PTL
=============================================================================
