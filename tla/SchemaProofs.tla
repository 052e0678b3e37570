------------------------------ MODULE SchemaProofs ------------------------------
(* Theorems about the upgrade of a project onto the lock ledger, for every set *)
(* of claims and any number of comments, failed writes, kills and changes by   *)
(* hand.                                                                       *)
EXTENDS Schema, TLAPS

-----------------------------------------------------------------------------
(* The operators on stores. *)

Versions == 0..(briefsSchemaVersion + 1)

LEMMA VersionNumbers ==
  /\ nestedHashSchemaVersion = 1 /\ ledgerSchemaVersion = 2 /\ storeSchemaVersion = 3
  /\ briefsSchemaVersion = 4 /\ Versions = 0..5
  BY DEF nestedHashSchemaVersion, ledgerSchemaVersion, storeSchemaVersion, briefsSchemaVersion, Versions

LEMMA StoreTyped ==
  ASSUME NEW st \in Stores
  PROVE  /\ st.here \in BOOLEAN /\ st.version \in Versions /\ st.key \in BOOLEAN /\ st.roof \in BOOLEAN
         /\ st.rec \in [Claims -> {"none", "standing", "released"}]
         /\ st.at \subseteq Claims /\ st.base \subseteq Claims
  BY DEF Stores, Versions

LEMMA EmptyTyped ==
  /\ emptyStore \in Stores /\ ~emptyStore.here /\ emptyStore.version = storeSchemaVersion
  /\ ~emptyStore.key /\ ~emptyStore.roof /\ emptyStore.at = {} /\ emptyStore.base = {}
  /\ \A c \in Claims : emptyStore.rec[c] = "none"
  BY VersionNumbers DEF emptyStore, Stores, Versions

LEMMA LoadedTyped ==
  ASSUME NEW st \in Stores
  PROVE  /\ loaded(st) \in Stores
         /\ loaded(st).here = st.here /\ loaded(st).version = st.version /\ loaded(st).key = st.key
         /\ loaded(st).roof = st.roof /\ loaded(st).rec = st.rec /\ loaded(st).at = st.at
         /\ loaded(st).base \subseteq st.base
         /\ ~st.here \/ st.version >= nestedHashSchemaVersion => loaded(st) = st
<1>1. CASE st.here /\ st.version < nestedHashSchemaVersion
  <2>1. loaded(st) = [st EXCEPT !.base = {}]
    BY <1>1 DEF loaded
  <2>2. loaded(st) \in Stores
    BY <2>1 DEF Stores
  <2>3. /\ loaded(st).here = st.here /\ loaded(st).version = st.version /\ loaded(st).key = st.key
        /\ loaded(st).roof = st.roof /\ loaded(st).rec = st.rec /\ loaded(st).at = st.at
        /\ loaded(st).base = {}
    BY <2>1 DEF Stores
  <2>4. ~(st.version >= nestedHashSchemaVersion)
    BY <1>1 DEF Stores, nestedHashSchemaVersion, briefsSchemaVersion
  <2> QED
    BY <1>1, <2>2, <2>3, <2>4
<1>2. CASE ~(st.here /\ st.version < nestedHashSchemaVersion)
  <2>1. loaded(st) = st
    BY <1>2 DEF loaded
  <2> QED
    BY <2>1
<1> QED
  BY <1>1, <1>2

\* A migration re-arms baselines of a store before the ledger, or of none at all.
LEMMA MigratedTyped ==
  ASSUME NEW st \in Stores, NEW dg
  PROVE  /\ MigrateLegacyStore(st, dg) \in Stores
         /\ MigrateLegacyStore(st, dg).here = st.here /\ MigrateLegacyStore(st, dg).key = st.key
         /\ MigrateLegacyStore(st, dg).roof = st.roof /\ MigrateLegacyStore(st, dg).rec = st.rec
         /\ MigrateLegacyStore(st, dg).at = st.at
         /\ \/ MigrateLegacyStore(st, dg) = st
            \/ /\ Locked # {} /\ ~LedgerDowngraded(st, dg)
               /\ ~st.here \/ st.version < nestedHashSchemaVersion
               /\ MigrateLegacyStore(st, dg).version = nestedHashSchemaVersion
<1>1. CASE Migrates(st, dg)
  <2>1. MigrateLegacyStore(st, dg)
           = [st EXCEPT !.base = Locked \cap Dependent, !.version = nestedHashSchemaVersion]
    BY <1>1 DEF MigrateLegacyStore
  <2>2. Locked \cap Dependent \subseteq Claims
    BY SchemaAssumption
  <2>3. nestedHashSchemaVersion \in 0..(briefsSchemaVersion + 1)
    BY DEF nestedHashSchemaVersion, briefsSchemaVersion
  <2>4. MigrateLegacyStore(st, dg) \in Stores
    BY <2>1, <2>2, <2>3 DEF Stores
  <2>5. LET m == MigrateLegacyStore(st, dg)
        IN /\ m.here = st.here /\ m.key = st.key /\ m.roof = st.roof /\ m.rec = st.rec /\ m.at = st.at
           /\ m.version = nestedHashSchemaVersion
    BY <2>1 DEF Stores
  <2>6. /\ Locked # {} /\ ~LedgerDowngraded(st, dg)
        /\ ~st.here \/ st.version < nestedHashSchemaVersion
    BY <1>1 DEF Migrates
  <2> QED
    BY <2>4, <2>5, <2>6
<1>2. CASE ~Migrates(st, dg)
  <2>1. MigrateLegacyStore(st, dg) = st
    BY <1>2 DEF MigrateLegacyStore
  <2> QED
    BY <2>1
<1> QED
  BY <1>1, <1>2

LEMMA SavedTyped ==
  ASSUME NEW st \in Stores
  PROVE  /\ Saved(st) \in Stores /\ Saved(st).here /\ Saved(st).key = (Records(st) # {})
         /\ Saved(st).version = st.version /\ Saved(st).roof = st.roof /\ Saved(st).rec = st.rec
         /\ Saved(st).at = st.at /\ Saved(st).base = st.base
  BY DEF Saved, Stores

LEMMA CrossedTyped ==
  ASSUME NEW st \in Stores
  PROVE  /\ Crossed(st) \in Stores /\ Crossed(st).here = st.here /\ Crossed(st).key = st.key
         /\ Crossed(st).version = storeSchemaVersion /\ Crossed(st).roof = st.roof
         /\ Crossed(st).rec = st.rec /\ Crossed(st).at = {} /\ Crossed(st).base = {}
<1>1. storeSchemaVersion \in 0..(briefsSchemaVersion + 1)
  BY DEF storeSchemaVersion, briefsSchemaVersion
<1>2. Crossed(st) = [st EXCEPT !.version = storeSchemaVersion, !.at = {}, !.base = {}]
  BY DEF Crossed
<1>3. Crossed(st) \in Stores
  BY <1>1, <1>2 DEF Stores
<1> QED
  BY <1>2, <1>3 DEF Stores

-----------------------------------------------------------------------------
(* The operators on digests. *)

Sound(dg) == dg \in Digests /\ (~dg.here => dg = NoDigests)

LEMMA NoDigestsTyped ==
  /\ Sound(NoDigests) /\ ~NoDigests.here /\ \A c \in Claims : NoDigests.entry[c] = None
  BY DEF Sound, NoDigests, Digests

LEMMA AdoptTyped ==
  ASSUME NEW dg \in Digests, NEW cs \in SUBSET Here, \A c \in Here : claim[c].threads \in Threads
  PROVE  /\ Sound(Adopt(dg, cs)) /\ Adopt(dg, cs).here
         /\ \A c \in Claims : Adopt(dg, cs).entry[c]
               = IF c \in cs /\ dg.entry[c] = None THEN ThreadsOf(c) ELSE dg.entry[c]
  BY DEF Sound, Adopt, Digests, ThreadsOf, Here

LEMMA ForgetTyped ==
  ASSUME NEW dg, Sound(dg), NEW cs
  PROVE  /\ Sound(Forget(dg, cs)) /\ Forget(dg, cs).here = dg.here
         /\ \A c \in Claims : Forget(dg, cs).entry[c] = IF c \in cs THEN None ELSE dg.entry[c]
<1>1. /\ Forget(dg, cs) = [dg EXCEPT !.entry = [c \in Claims |-> IF c \in cs THEN None ELSE dg.entry[c]]]
      /\ dg \in Digests
  BY DEF Forget, Sound
<1>2. /\ Forget(dg, cs) \in Digests /\ Forget(dg, cs).here = dg.here
      /\ Forget(dg, cs).entry = [c \in Claims |-> IF c \in cs THEN None ELSE dg.entry[c]]
  BY <1>1 DEF Digests
<1>3. ASSUME ~dg.here PROVE Forget(dg, cs) = NoDigests
  <2>1. dg = NoDigests
    BY <1>3 DEF Sound
  <2>2. [c \in Claims |-> IF c \in cs THEN None ELSE dg.entry[c]] = [c \in Claims |-> None]
    BY <2>1 DEF NoDigests
  <2> QED
    BY <1>1, <2>1, <2>2 DEF NoDigests
<1> QED
  BY <1>2, <1>3 DEF Sound

\* The sweep creates no digest store beside a store before the ledger, adopts only
\* claims that are here, and forgets only claims that are not.
LEMMA SweepTyped ==
  ASSUME Typed, NEW st, NEW covered \in BOOLEAN, NEW dg, dg = SweepCommentDigests(st, covered)
  PROVE  /\ Sound(dg)
         /\ digests.here => dg.here
         /\ PreLedger(st) /\ ~digests.here => dg = NoDigests
         /\ ~covered /\ ~PreLedger(st) => dg.here
         /\ \A c \in Here : \/ dg.entry[c] = digests.entry[c]
                            \/ digests.entry[c] = None /\ dg.entry[c] = ThreadsOf(c)
         /\ \A c \in Claims \ Here : dg.entry[c] \in {None, digests.entry[c]}
<1>1. PICK adopted : adopted = IF digests.here THEN Adopt(digests, adoptableClaims(st))
                               ELSE IF ~digests.here /\ ~covered /\ ~PreLedger(st) THEN Adopt(digests, Here) ELSE digests
  OBVIOUS
<1>2. dg = Forget(adopted, releasableCommentDigests(st, adopted))
  BY <1>1 DEF SweepCommentDigests
<1>3. /\ digests \in Digests /\ Sound(digests) /\ \A c \in Here : claim[c].threads \in Threads
      /\ adoptableClaims(st) \subseteq Here
  BY DEF Typed, TypeOK, Sound, Here, adoptableClaims
<1>4. Here \subseteq Claims /\ releasableCommentDigests(st, adopted) \cap Here = {}
  BY DEF Here, releasableCommentDigests
<1>5. /\ Sound(adopted)
      /\ digests.here => adopted.here
      /\ ~covered /\ ~PreLedger(st) => adopted.here
      /\ PreLedger(st) /\ ~digests.here => adopted = digests
      /\ \A c \in Here : \/ adopted.entry[c] = digests.entry[c]
                         \/ digests.entry[c] = None /\ adopted.entry[c] = ThreadsOf(c)
      /\ \A c \in Claims \ Here : adopted.entry[c] = digests.entry[c]
  <2>1. CASE adopted = digests
    BY <1>1, <1>3, <2>1, AdoptTyped
  <2>2. ASSUME NEW cs \in SUBSET Here, adopted = Adopt(digests, cs), digests.here \/ ~PreLedger(st)
        PROVE  /\ Sound(adopted) /\ adopted.here
               /\ \A c \in Here : \/ adopted.entry[c] = digests.entry[c]
                                  \/ digests.entry[c] = None /\ adopted.entry[c] = ThreadsOf(c)
               /\ \A c \in Claims \ Here : adopted.entry[c] = digests.entry[c]
    BY <1>3, <1>4, <2>2, AdoptTyped
  <2>3. \/ adopted = digests /\ ~digests.here /\ ~(~covered /\ ~PreLedger(st))
        \/ adopted = Adopt(digests, adoptableClaims(st)) /\ digests.here
        \/ adopted = Adopt(digests, Here) /\ ~PreLedger(st)
    BY <1>1
  <2> QED
    BY <1>3, <2>2, <2>3
<1>6. /\ Sound(dg) /\ dg.here = adopted.here
      /\ \A c \in Claims : dg.entry[c] = IF c \in releasableCommentDigests(st, adopted) THEN None ELSE adopted.entry[c]
  BY <1>2, <1>5, ForgetTyped
<1>7. ASSUME PreLedger(st), ~digests.here PROVE dg = NoDigests
  BY <1>3, <1>5, <1>6, <1>7 DEF Sound
<1> QED
  BY <1>4, <1>5, <1>6, <1>7

-----------------------------------------------------------------------------
(* The parts of the state. *)

Files == [Claims -> [locked: BOOLEAN, threads: Threads] \cup {None}]

Commands == [at: Labels, id: Claims \cup {None}, st: Stores, was: Digests]

Bounded(b) ==
  /\ b \in [comments: Nat, faults: Nat, lapses: Nat, kills: Nat, tampers: Nat]
  /\ b.comments <= MaxComments /\ b.faults <= MaxFaults /\ b.lapses <= MaxLapses
  /\ b.kills <= MaxKills /\ b.tampers <= MaxTampers

\* The invariant of types, part by part.
Parts ==
  /\ claim \in Files /\ store \in Stores /\ Sound(digests)
  /\ cmd \in Commands /\ Sound(cmd.was) /\ Bounded(budget)
  /\ lowered \in BOOLEAN /\ unseen \subseteq Claims /\ signed \subseteq Claims

LEMMA TypedParts == Typed <=> Parts
<1>1. ASSUME Typed PROVE Parts
  <2>1. Sound(cmd.was)
    BY <1>1 DEF Typed, Sound
  <2>2. /\ claim \in Files /\ store \in Stores /\ cmd \in Commands
        /\ lowered \in BOOLEAN /\ unseen \subseteq Claims /\ signed \subseteq Claims
    BY <1>1 DEF Typed, TypeOK, Files, Commands
  <2>3. Sound(digests) /\ Bounded(budget)
    BY <1>1 DEF Typed, TypeOK, Bounded, Sound
  <2> QED
    BY <2>1, <2>2, <2>3 DEF Parts
<1>2. ASSUME Parts PROVE Typed
  <2>1. /\ claim \in [Claims -> [locked: BOOLEAN, threads: Threads] \cup {None}]
        /\ cmd \in [at: Labels, id: Claims \cup {None}, st: Stores, was: Digests]
        /\ ~cmd.was.here => cmd.was = NoDigests
        /\ budget \in [comments: Nat, faults: Nat, lapses: Nat, kills: Nat, tampers: Nat]
    BY <1>2 DEF Parts, Files, Commands, Bounded, Sound
  <2>2. \A c \in Claims : claim[c] # None => claim[c] \in [locked: BOOLEAN, threads: Threads]
    BY <2>1
  <2>3. cmd.at \in Labels /\ cmd.id \in Claims \cup {None} /\ cmd.st \in Stores
    BY <2>1
  <2> QED
    BY <1>2, <2>1, <2>2, <2>3 DEF Typed, TypeOK, Parts, Bounded, Sound
<1> QED
  BY <1>1, <1>2

LEMMA HereTyped ==
  ASSUME Parts
  PROVE  /\ Locked \subseteq Here /\ Here \subseteq Claims
         /\ \A c \in Here : /\ claim[c] \in [locked: BOOLEAN, threads: Threads]
                            /\ claim[c].locked \in BOOLEAN /\ claim[c].threads \in Threads
         /\ \A c \in Claims : claim[c].threads = ThreadsOf(c)
<1>1. \A c \in Here : claim[c] \in [locked: BOOLEAN, threads: Threads]
  BY DEF Parts, Files, Here
<1> QED
  BY <1>1 DEF Here, Locked, ThreadsOf

LEMMA SetLockedFiles ==
  ASSUME Parts, NEW c \in Here, NEW b \in BOOLEAN, SetLocked(c, b)
  PROVE  /\ claim' \in Files /\ Here' = Here
         /\ Locked' = IF b THEN Locked \cup {c} ELSE Locked \ {c}
         /\ \A d \in Here : claim'[d].threads = claim[d].threads
<1> DEFINE file == [claim[c] EXCEPT !.locked = b]
<1>1. claim' = [claim EXCEPT ![c] = file] /\ claim \in Files /\ c \in Claims
  BY HereTyped DEF SetLocked, Parts
<1>2. claim[c] \in [locked: BOOLEAN, threads: Threads]
  BY HereTyped
<1>3. /\ file \in [locked: BOOLEAN, threads: Threads] /\ file.locked = b
      /\ file.threads = claim[c].threads
  BY <1>2
<1>4. file # None
  BY <1>3, NoneAssumption DEF Threads
<1> HIDE DEF file
<1>5. claim'[c] = file /\ \A d \in Claims : d # c => claim'[d] = claim[d]
  BY <1>1 DEF Files
<1>6. claim' \in Files
  BY <1>1, <1>3 DEF Files
<1>7. Here' = Here
  BY <1>4, <1>5 DEF Here
<1>8. Locked' = {d \in Here : claim'[d].locked}
  BY <1>7 DEF Locked
<1>9. Locked' = IF b THEN Locked \cup {c} ELSE Locked \ {c}
  BY <1>3, <1>5, <1>8 DEF Locked, Here
<1> QED
  BY <1>3, <1>5, <1>6, <1>7, <1>9 DEF Here

LEMMA BudgetSpent ==
  ASSUME Bounded(budget)
  PROVE  /\ Fault => /\ Bounded(budget') /\ budget'.faults # 0 /\ budget'.lapses = budget.lapses
                     /\ budget'.kills = budget.kills /\ budget'.tampers = budget.tampers
         /\ Lapse => /\ Bounded(budget') /\ budget'.lapses # 0 /\ budget'.faults = budget.faults
                     /\ budget'.kills = budget.kills /\ budget'.tampers = budget.tampers
         /\ Tampered => Bounded(budget') /\ budget'.tampers # 0
<1>1. ASSUME Fault
      PROVE  /\ Bounded(budget') /\ budget'.faults # 0 /\ budget'.lapses = budget.lapses
             /\ budget'.kills = budget.kills /\ budget'.tampers = budget.tampers
  BY <1>1, SchemaAssumption DEF Fault, Bounded
<1>2. ASSUME Lapse
      PROVE  /\ Bounded(budget') /\ budget'.lapses # 0 /\ budget'.faults = budget.faults
             /\ budget'.kills = budget.kills /\ budget'.tampers = budget.tampers
  BY <1>2, SchemaAssumption DEF Lapse, Bounded
<1>3. ASSUME Tampered PROVE Bounded(budget') /\ budget'.tampers # 0
  BY <1>3, SchemaAssumption DEF Tampered, Bounded
<1> QED
  BY <1>1, <1>2, <1>3

LEMMA IdleTyped ==
  /\ Idle \in Commands /\ Sound(Idle.was) /\ Idle.at = "idle" /\ Idle.id = None
  BY EmptyTyped, NoDigestsTyped DEF Idle, Commands, Labels, Sound

LEMMA GotoTyped ==
  ASSUME Parts, NEW l \in Labels, NEW c \in Claims \cup {None}, NEW st \in Stores, Goto(l, c, st)
  PROVE  /\ cmd' \in Commands /\ Sound(cmd'.was)
         /\ cmd'.at = l /\ cmd'.id = c /\ cmd'.st = st /\ cmd'.was = digests
  BY DEF Goto, Parts, Commands, Sound

-----------------------------------------------------------------------------
(* What each step writes. *)

LEMMA BestEffortStep ==
  ASSUME Parts, NEW dg, Sound(dg), BestEffort(dg)
  PROVE  /\ Sound(digests') /\ Bounded(budget')
         /\ budget'.faults = budget.faults /\ budget'.kills = budget.kills /\ budget'.tampers = budget.tampers
         /\ \/ digests' = dg /\ budget' = budget
            \/ digests' = digests /\ budget'.lapses # 0
  BY BudgetSpent DEF BestEffort, Parts

LEMMA SweptDigests ==
  ASSUME Parts, NEW st, NEW covered \in BOOLEAN
  PROVE  Sound(SweepCommentDigests(st, covered))
  BY SweepTyped, TypedParts

LEMMA PrepareStep ==
  ASSUME Parts, NEW l \in Labels, NEW c \in Claims \cup {None}, Prepare(l, c)
  PROVE  /\ Parts'
         /\ cmd'.at = l /\ cmd'.id = c /\ cmd'.was = digests
         /\ cmd'.st = MigrateLegacyStore(loaded(store), digests)
         /\ budget'.faults = budget.faults /\ budget'.kills = budget.kills /\ budget'.tampers = budget.tampers
         /\ \/ /\ digests' = SweepCommentDigests(loaded(store), LedgerEstablished(loaded(store), digests))
               /\ budget' = budget
            \/ digests' = digests /\ budget'.lapses # 0
<1> DEFINE dg == SweepCommentDigests(loaded(store), LedgerEstablished(loaded(store), digests))
<1>1. loaded(store) \in Stores /\ MigrateLegacyStore(loaded(store), digests) \in Stores
  BY LoadedTyped, MigratedTyped DEF Parts
<1>2. LedgerEstablished(loaded(store), digests) \in BOOLEAN
  BY <1>1, StoreTyped DEF LedgerEstablished, LedgerCovered, LedgerDowngraded, PreLedger
<1>3. Sound(dg)
  BY <1>2, SweptDigests
<1>4. /\ BestEffort(dg) /\ Goto(l, c, MigrateLegacyStore(loaded(store), digests))
      /\ UNCHANGED <<claim, store, lowered, unseen, signed>>
  BY DEF Prepare
<1> HIDE DEF dg
<1>5. /\ Sound(digests') /\ Bounded(budget')
      /\ budget'.faults = budget.faults /\ budget'.kills = budget.kills /\ budget'.tampers = budget.tampers
      /\ \/ digests' = dg /\ budget' = budget
         \/ digests' = digests /\ budget'.lapses # 0
  BY <1>3, <1>4, BestEffortStep
<1>6. /\ cmd' \in Commands /\ Sound(cmd'.was)
      /\ cmd'.at = l /\ cmd'.id = c /\ cmd'.st = MigrateLegacyStore(loaded(store), digests)
      /\ cmd'.was = digests
  BY <1>1, <1>4, GotoTyped
<1>7. Parts'
  BY <1>4, <1>5, <1>6 DEF Parts
<1> QED
  BY <1>5, <1>6, <1>7 DEF dg

LEMMA SaveThenEndStep ==
  ASSUME Parts, NEW st \in Stores, SaveThenEnd(st)
  PROVE  /\ store' = Saved(st) /\ store' \in Stores
         /\ cmd' \in Commands /\ Sound(cmd'.was) /\ cmd'.at \in {"idle", "ensure"}
         /\ cmd'.at = "ensure" => ~cmd.st.here
<1>1. store' = Saved(st) /\ store' \in Stores
  BY SavedTyped DEF SaveThenEnd
<1>2. CASE cmd.st.here
  BY <1>1, <1>2, IdleTyped DEF SaveThenEnd, Return
<1>3. CASE ~cmd.st.here
  <2>1. cmd' = [cmd EXCEPT !.at = "ensure", !.st = store', !.id = None]
    BY <1>3 DEF SaveThenEnd
  <2> QED
    BY <1>1, <1>3, <2>1 DEF Commands, Labels, Parts
<1> QED
  BY <1>2, <1>3

LEMMA LockDigestStep ==
  ASSUME Parts, cmd.id \in Here, LockDigest
  PROVE  /\ Parts'
         /\ cmd'.at = "lock.save" /\ cmd'.id = cmd.id /\ cmd'.was = cmd.was
         /\ cmd'.st.here = cmd.st.here /\ cmd'.st.version = cmd.st.version
         /\ \A c \in Claims : cmd'.st.rec[c] = IF c = cmd.id THEN "standing" ELSE cmd.st.rec[c]
         /\ cmd'.st.at = cmd.st.at \cup {cmd.id}
         /\ cmd'.st.base = cmd.st.base \cup (Dependent \cap {cmd.id})
         /\ budget'.faults = budget.faults /\ budget'.kills = budget.kills /\ budget'.tampers = budget.tampers
         /\ \/ /\ digests'.here /\ budget' = budget
               /\ \A c \in Claims : digests'.entry[c] = IF c = cmd.id THEN ThreadsOf(cmd.id) ELSE digests.entry[c]
            \/ digests' = digests /\ budget'.lapses # 0
<1> DEFINE dg == [here |-> TRUE, entry |-> [digests.entry EXCEPT ![cmd.id] = ThreadsOf(cmd.id)]]
<1>0. cmd.id \in Claims /\ ThreadsOf(cmd.id) \in Threads
  BY HereTyped
<1>1. /\ digests.entry \in [Claims -> Threads \cup {None}] /\ cmd \in Commands /\ cmd.st \in Stores
      /\ cmd.st.rec \in [Claims -> {"none", "standing", "released"}]
  BY DEF Parts, Sound, Digests, Commands, Stores
<1>2. /\ Sound(dg) /\ dg.here
      /\ \A c \in Claims : dg.entry[c] = IF c = cmd.id THEN ThreadsOf(cmd.id) ELSE digests.entry[c]
  BY <1>0, <1>1 DEF Sound, Digests
<1>3. BestEffort(dg) /\ UNCHANGED <<claim, store, lowered, unseen, signed>>
  BY DEF LockDigest
<1> HIDE DEF dg
<1>4. /\ Sound(digests') /\ Bounded(budget')
      /\ budget'.faults = budget.faults /\ budget'.kills = budget.kills /\ budget'.tampers = budget.tampers
      /\ \/ digests' = dg /\ budget' = budget
         \/ digests' = digests /\ budget'.lapses # 0
  BY <1>2, <1>3, BestEffortStep
<1>5. PICK st : st = [cmd.st EXCEPT !.rec[cmd.id] = "standing", !.at = @ \cup {cmd.id},
                                    !.base = @ \cup (Dependent \cap {cmd.id})]
  OBVIOUS
<1>6. cmd' = [cmd EXCEPT !.at = "lock.save", !.st = st]
  BY <1>1, <1>5 DEF LockDigest, Commands
<1>7. /\ st \in Stores /\ st.here = cmd.st.here /\ st.version = cmd.st.version
      /\ \A c \in Claims : st.rec[c] = IF c = cmd.id THEN "standing" ELSE cmd.st.rec[c]
      /\ st.at = cmd.st.at \cup {cmd.id} /\ st.base = cmd.st.base \cup (Dependent \cap {cmd.id})
  BY <1>0, <1>1, <1>5, SchemaAssumption DEF Stores
<1>8. /\ cmd' \in Commands /\ cmd'.at = "lock.save" /\ cmd'.id = cmd.id /\ cmd'.was = cmd.was /\ cmd'.st = st
  BY <1>1, <1>6, <1>7 DEF Commands, Labels
<1>9. Parts'
  BY <1>3, <1>4, <1>8 DEF Parts
<1> QED
  BY <1>2, <1>4, <1>7, <1>8, <1>9

LEMMA UnlockClaimStep ==
  ASSUME Parts, cmd.id \in Here, UnlockClaim
  PROVE  /\ Parts' /\ Here' = Here /\ Locked' = Locked \ {cmd.id}
         /\ \A c \in Here : claim'[c].threads = claim[c].threads
         /\ cmd'.at = "release.save" /\ cmd'.id = cmd.id /\ cmd'.was = digests
         /\ cmd'.st.here = cmd.st.here /\ cmd'.st.version = cmd.st.version
         /\ cmd'.st.at = cmd.st.at /\ cmd'.st.base = cmd.st.base
         /\ \A c \in Claims : cmd'.st.rec[c]
               = IF c = cmd.id /\ cmd.st.rec[c] # "none" THEN "released" ELSE cmd.st.rec[c]
<1>1. cmd.id \in Claims /\ cmd.st \in Stores /\ cmd.st.rec \in [Claims -> {"none", "standing", "released"}]
  BY HereTyped DEF Parts, Commands, Stores
<1>2. PICK st : st = [cmd.st EXCEPT !.rec[cmd.id] = IF @ = "none" THEN @ ELSE "released"]
  OBVIOUS
<1>3. /\ SetLocked(cmd.id, FALSE) /\ Goto("release.save", cmd.id, st)
      /\ UNCHANGED <<store, digests, budget, lowered, unseen, signed>>
  BY <1>2 DEF UnlockClaim
<1>4. /\ st \in Stores /\ st.here = cmd.st.here /\ st.version = cmd.st.version
      /\ st.at = cmd.st.at /\ st.base = cmd.st.base
      /\ \A c \in Claims : st.rec[c] = IF c = cmd.id /\ cmd.st.rec[c] # "none" THEN "released" ELSE cmd.st.rec[c]
  BY <1>1, <1>2 DEF Stores
<1>5. /\ claim' \in Files /\ Here' = Here /\ Locked' = Locked \ {cmd.id}
      /\ \A c \in Here : claim'[c].threads = claim[c].threads
  BY <1>3, SetLockedFiles
<1>6. /\ cmd' \in Commands /\ Sound(cmd'.was) /\ cmd'.at = "release.save" /\ cmd'.id = cmd.id
      /\ cmd'.st = st /\ cmd'.was = digests
  BY <1>1, <1>3, <1>4, GotoTyped DEF Labels
<1>7. Parts'
  BY <1>3, <1>5, <1>6 DEF Parts
<1> QED
  BY <1>4, <1>5, <1>6, <1>7

LEMMA RoofSweepStep ==
  ASSUME Parts, RoofSweep
  PROVE  /\ Parts'
         /\ cmd'.at = "roof.save" /\ cmd'.id = None
         /\ cmd'.st.here = store.here /\ cmd'.st.version = store.version /\ cmd'.st.rec = store.rec
         /\ cmd'.st.at = store.at /\ cmd'.st.base = loaded(store).base
         /\ budget'.faults = budget.faults /\ budget'.kills = budget.kills /\ budget'.tampers = budget.tampers
         /\ \/ /\ LedgerCovered(store) \/ PreLedger(store)
               /\ digests' = digests /\ budget' = budget
            \/ /\ ~LedgerCovered(store) /\ ~PreLedger(store)
               /\ digests' = SweepCommentDigests(loaded(store), FALSE) /\ budget' = budget
            \/ digests' = digests /\ budget'.lapses # 0
<1>1. PICK dg : dg = SweepCommentDigests(loaded(store), FALSE)
  OBVIOUS
<1>2. PICK st : st = [loaded(store) EXCEPT !.roof = TRUE]
  OBVIOUS
<1>3. Sound(dg)
  BY <1>1, SweptDigests
<1>4. /\ loaded(store) \in Stores
      /\ loaded(store).here = store.here /\ loaded(store).version = store.version
      /\ loaded(store).rec = store.rec /\ loaded(store).at = store.at
  BY LoadedTyped DEF Parts
<1>5. /\ st \in Stores /\ st.here = store.here /\ st.version = store.version /\ st.rec = store.rec
      /\ st.at = store.at /\ st.base = loaded(store).base
  BY <1>2, <1>4 DEF Stores
<1>6. /\ IF LedgerCovered(store) \/ PreLedger(store) THEN UNCHANGED <<digests, budget>> ELSE BestEffort(dg)
      /\ Goto("roof.save", None, st)
      /\ UNCHANGED <<claim, store, lowered, unseen, signed>>
  BY <1>1, <1>2 DEF RoofSweep
<1>7. /\ cmd' \in Commands /\ Sound(cmd'.was) /\ cmd'.at = "roof.save" /\ cmd'.id = None /\ cmd'.st = st
  BY <1>5, <1>6, GotoTyped DEF Labels
<1>8. /\ Sound(digests') /\ Bounded(budget')
      /\ budget'.faults = budget.faults /\ budget'.kills = budget.kills /\ budget'.tampers = budget.tampers
      /\ \/ /\ LedgerCovered(store) \/ PreLedger(store)
            /\ digests' = digests /\ budget' = budget
         \/ /\ ~LedgerCovered(store) /\ ~PreLedger(store)
            /\ digests' = dg /\ budget' = budget
         \/ digests' = digests /\ budget'.lapses # 0
  <2>1. CASE LedgerCovered(store) \/ PreLedger(store)
    BY <1>6, <2>1 DEF Parts
  <2>2. CASE ~(LedgerCovered(store) \/ PreLedger(store))
    BY <1>3, <1>6, <2>2, BestEffortStep
  <2> QED
    BY <2>1, <2>2
<1>9. Parts'
  BY <1>6, <1>7, <1>8 DEF Parts
<1> QED
  BY <1>1, <1>5, <1>7, <1>8, <1>9

LEMMA CommentStep ==
  ASSUME Parts, NEW c \in Claims, NEW op \in CommentOp, Comment(c, op)
  PROVE  /\ Parts' /\ Here' = Here /\ Locked' = Locked /\ c \in Here
         /\ \A d \in Here : d # c => claim'[d].threads = claim[d].threads
         /\ cmd'.at = "comment.digest" /\ cmd'.id = c /\ cmd'.st = store /\ cmd'.was = digests
         /\ budget'.faults = budget.faults /\ budget'.lapses = budget.lapses
         /\ budget'.kills = budget.kills /\ budget'.tampers = budget.tampers
<1> DEFINE file == [claim[c] EXCEPT !.threads = op[2]]
<1>1. /\ claim' = [claim EXCEPT ![c] = file] /\ c \in Here /\ claim \in Files
      /\ Goto("comment.digest", c, store) /\ UNCHANGED <<store, digests, lowered, unseen, signed>>
  BY DEF Comment, Parts
<1>2. op[2] \in Threads
  BY DEF CommentOp, Threads
<1>3. claim[c] \in [locked: BOOLEAN, threads: Threads]
  BY <1>1, HereTyped
<1>4. file \in [locked: BOOLEAN, threads: Threads] /\ file.locked = claim[c].locked
  BY <1>2, <1>3
<1>5. file # None
  BY <1>4, NoneAssumption DEF Threads
<1> HIDE DEF file
<1>6. claim'[c] = file /\ \A d \in Claims : d # c => claim'[d] = claim[d]
  BY <1>1 DEF Files
<1>7. claim' \in Files
  BY <1>1, <1>4 DEF Files
<1>8. Here' = Here
  BY <1>1, <1>5, <1>6 DEF Here
<1>9. Locked' = {d \in Here : claim'[d].locked}
  BY <1>8 DEF Locked
<1>10. Locked' = Locked
  BY <1>4, <1>6, <1>9 DEF Locked, Here
<1>11. /\ cmd' \in Commands /\ Sound(cmd'.was) /\ cmd'.at = "comment.digest" /\ cmd'.id = c
       /\ cmd'.st = store /\ cmd'.was = digests
  BY <1>1, GotoTyped DEF Labels, Parts
<1>12. /\ Bounded(budget') /\ budget'.faults = budget.faults /\ budget'.lapses = budget.lapses
       /\ budget'.kills = budget.kills /\ budget'.tampers = budget.tampers
  BY SchemaAssumption DEF Comment, Parts, Bounded
<1>13. Parts'
  BY <1>1, <1>7, <1>11, <1>12 DEF Parts
<1> QED
  BY <1>1, <1>6, <1>8, <1>10, <1>11, <1>12, <1>13 DEF Here

\* Recording a comment adopts the other claims only where there was no store of digests.
LEMMA CommentDigestStep ==
  ASSUME Parts, cmd.id \in Here, CommentDigest
  PROVE  /\ Parts' /\ cmd' = Idle
         /\ budget'.faults = budget.faults /\ budget'.kills = budget.kills /\ budget'.tampers = budget.tampers
         /\ \/ /\ PreLedger(cmd.st) /\ ~digests.here /\ unseen' # {}
               /\ digests' = digests /\ budget' = budget
            \/ /\ digests' = digests /\ budget'.lapses # 0 /\ unseen' = unseen
               /\ ~PreLedger(cmd.st) \/ digests.here
            \/ /\ ~PreLedger(cmd.st) \/ digests.here
               /\ digests'.here /\ budget' = budget /\ unseen' = unseen
               /\ digests'.entry[cmd.id] = ThreadsOf(cmd.id)
               /\ \A c \in Here : \/ digests'.entry[c] = digests.entry[c]
                                  \/ digests'.entry[c] = ThreadsOf(c) /\ (digests.entry[c] = None \/ c = cmd.id)
               /\ \A c \in Claims \ Here : digests'.entry[c] = digests.entry[c]
<1>1. PICK first : first = IF ~digests.here /\ ~LedgerEstablished(cmd.st, digests)
                           THEN Adopt(digests, Here) ELSE digests
  OBVIOUS
<1>2. PICK dg : dg = [here |-> TRUE, entry |-> [first.entry EXCEPT ![cmd.id] = ThreadsOf(cmd.id)]]
  OBVIOUS
<1>3. /\ cmd.id \in Claims /\ ThreadsOf(cmd.id) \in Threads /\ Here \subseteq Claims
      /\ digests \in Digests /\ \A c \in Here : claim[c].threads \in Threads
  BY HereTyped DEF Parts, Sound
<1>4. /\ first \in Digests
      /\ \A c \in Here : \/ first.entry[c] = digests.entry[c]
                         \/ first.entry[c] = ThreadsOf(c) /\ digests.entry[c] = None
      /\ \A c \in Claims \ Here : first.entry[c] = digests.entry[c]
  BY <1>1, <1>3, AdoptTyped DEF Sound
<1>5. /\ Sound(dg) /\ dg.here
      /\ \A c \in Claims : dg.entry[c] = IF c = cmd.id THEN ThreadsOf(cmd.id) ELSE first.entry[c]
  BY <1>2, <1>3, <1>4 DEF Sound, Digests
<1>6. /\ cmd' = Idle /\ UNCHANGED <<claim, store, lowered, signed>>
      /\ IF PreLedger(cmd.st) /\ ~digests.here
         THEN unseen' = unseen \cup {cmd.id} /\ UNCHANGED <<digests, budget>>
         ELSE /\ \/ digests' = dg /\ UNCHANGED budget
                 \/ Lapse /\ UNCHANGED digests
              /\ UNCHANGED unseen
  BY <1>1, <1>2 DEF CommentDigest, Return
<1>7. CASE PreLedger(cmd.st) /\ ~digests.here
  BY <1>3, <1>6, <1>7, IdleTyped DEF Parts
<1>8. CASE ~(PreLedger(cmd.st) /\ ~digests.here)
  <2>1. CASE digests' = dg /\ UNCHANGED budget
    <3>1. Parts'
      BY <1>5, <1>6, <1>8, <2>1, IdleTyped DEF Parts
    <3> QED
      BY <1>3, <1>4, <1>5, <1>6, <1>8, <2>1, <3>1
  <2>2. CASE Lapse /\ UNCHANGED digests
    BY <1>6, <1>8, <2>2, IdleTyped, BudgetSpent DEF Parts
  <2> QED
    BY <1>6, <1>8, <2>1, <2>2
<1> QED
  BY <1>7, <1>8

LEMMA CrossDigestStep ==
  ASSUME Parts, CrossDigest
  PROVE  /\ Parts'
         /\ budget'.faults = budget.faults /\ budget'.kills = budget.kills /\ budget'.tampers = budget.tampers
         /\ \/ /\ digests'.here /\ digests'.entry = digests.entry /\ budget' = budget
               /\ cmd'.at = "cross.save" /\ cmd'.id = cmd.id /\ cmd'.st = cmd.st
            \/ digests' = digests /\ cmd' = Idle /\ budget'.lapses # 0
<1>0. /\ "cross.save" \in Labels /\ cmd.id \in Claims \cup {None} /\ cmd.st \in Stores
      /\ UNCHANGED <<claim, store, lowered, unseen, signed>>
  BY DEF Labels, Parts, Commands, CrossDigest
<1>1. CASE digests' = [digests EXCEPT !.here = TRUE] /\ Goto("cross.save", cmd.id, cmd.st) /\ UNCHANGED budget
  <2>1. Sound(digests') /\ digests'.here /\ digests'.entry = digests.entry
    BY <1>1 DEF Parts, Sound, Digests
  <2>2. /\ cmd' \in Commands /\ Sound(cmd'.was)
        /\ cmd'.at = "cross.save" /\ cmd'.id = cmd.id /\ cmd'.st = cmd.st
    BY <1>0, <1>1, GotoTyped
  <2>3. Parts'
    BY <1>0, <1>1, <2>1, <2>2 DEF Parts
  <2> QED
    BY <1>1, <2>1, <2>2, <2>3
<1>2. CASE Lapse /\ Return /\ UNCHANGED digests
  <2>1. /\ Bounded(budget') /\ budget'.lapses # 0 /\ budget'.faults = budget.faults
        /\ budget'.kills = budget.kills /\ budget'.tampers = budget.tampers
    BY <1>2, BudgetSpent DEF Parts
  <2>2. cmd' = Idle
    BY <1>2 DEF Return
  <2>3. Parts'
    BY <1>0, <1>2, <2>1, <2>2, IdleTyped DEF Parts
  <2> QED
    BY <1>2, <2>1, <2>2, <2>3
<1> QED
  BY <1>1, <1>2 DEF CrossDigest

LEMMA CrossSaveStep ==
  ASSUME Parts, cmd.id \in Claims, CrossSave
  PROVE  /\ Parts'
         /\ \/ /\ store' = Saved(Crossed(cmd.st)) /\ digests' = digests /\ budget' = budget
               /\ \/ cmd' = Idle
                  \/ /\ Admissible(Crossed(cmd.st), cmd.id)
                     /\ cmd'.at = "lock.claim" /\ cmd'.id = cmd.id /\ cmd'.st = Crossed(cmd.st)
                     /\ cmd'.was = digests
            \/ /\ store' = store /\ digests' = NoDigests /\ cmd' = Idle /\ budget'.faults # 0
               /\ budget'.lapses = budget.lapses /\ budget'.kills = budget.kills
               /\ budget'.tampers = budget.tampers
<1>1. /\ cmd.st \in Stores /\ Crossed(cmd.st) \in Stores /\ Saved(Crossed(cmd.st)) \in Stores
      /\ "lock.claim" \in Labels /\ UNCHANGED <<claim, lowered, unseen, signed>>
  BY CrossedTyped, SavedTyped DEF Parts, Commands, Labels, CrossSave
<1>2. ASSUME store' = Saved(Crossed(cmd.st)), digests' = digests, budget' = budget, cmd' = Idle
      PROVE  Parts'
  BY <1>1, <1>2, IdleTyped DEF Parts
<1>3. ASSUME store' = Saved(Crossed(cmd.st)), digests' = digests, budget' = budget,
             Goto("lock.claim", cmd.id, Crossed(cmd.st))
      PROVE  /\ Parts'
             /\ cmd'.at = "lock.claim" /\ cmd'.id = cmd.id /\ cmd'.st = Crossed(cmd.st) /\ cmd'.was = digests
  <2>1. /\ cmd' \in Commands /\ Sound(cmd'.was)
        /\ cmd'.at = "lock.claim" /\ cmd'.id = cmd.id /\ cmd'.st = Crossed(cmd.st) /\ cmd'.was = digests
    BY <1>1, <1>3, GotoTyped
  <2> QED
    BY <1>1, <1>3, <2>1 DEF Parts
<1>4. ASSUME Fault, cmd' = Idle, digests' = NoDigests, store' = store
      PROVE  /\ Parts' /\ budget'.faults # 0 /\ budget'.lapses = budget.lapses
             /\ budget'.kills = budget.kills /\ budget'.tampers = budget.tampers
  BY <1>1, <1>4, IdleTyped, NoDigestsTyped, BudgetSpent DEF Parts
<1> QED
  BY <1>2, <1>3, <1>4 DEF CrossSave, Return

LEMMA LockBeginStep ==
  ASSUME Parts, NEW c \in Claims, LockBegin(c)
  PROVE  /\ Parts' /\ c \in Here /\ cmd'.id = c /\ cmd'.st = loaded(store) /\ cmd'.was = digests
         /\ \/ cmd'.at = "cross.digest" /\ PreLedgerUnadopted(store, digests) /\ Locked = {}
            \/ /\ cmd'.at = "lock.claim" /\ ~PreLedgerUnadopted(store, digests)
               /\ Admissible(loaded(store), c)
<1>1. /\ loaded(store) \in Stores /\ "cross.digest" \in Labels /\ "lock.claim" \in Labels
      /\ UNCHANGED <<claim, store, digests, budget, lowered, unseen, signed>> /\ c \in Here
  BY LoadedTyped DEF Parts, Labels, LockBegin
<1>2. PICK l \in {"cross.digest", "lock.claim"} : Goto(l, c, loaded(store))
  BY DEF LockBegin
<1>3. /\ cmd' \in Commands /\ Sound(cmd'.was)
      /\ cmd'.at = l /\ cmd'.id = c /\ cmd'.st = loaded(store) /\ cmd'.was = digests
  BY <1>1, <1>2, GotoTyped
<1>4. Parts'
  BY <1>1, <1>3 DEF Parts
<1>5. \/ Goto("cross.digest", c, loaded(store)) /\ PreLedgerUnadopted(store, digests) /\ Locked = {}
      \/ /\ Goto("lock.claim", c, loaded(store)) /\ ~PreLedgerUnadopted(store, digests)
         /\ Admissible(loaded(store), c)
  BY DEF LockBegin
<1>6. \A m \in Labels : Goto(m, c, loaded(store)) => cmd'.at = m
  BY <1>1, GotoTyped
<1> QED
  BY <1>1, <1>3, <1>4, <1>5, <1>6

LEMMA LockClaimStep ==
  ASSUME Parts, cmd.id \in Here, LockClaim
  PROVE  /\ Parts' /\ Here' = Here /\ Locked' = Locked \cup {cmd.id}
         /\ \A c \in Here : claim'[c].threads = claim[c].threads
         /\ cmd'.at = "lock.digest" /\ cmd'.id = cmd.id /\ cmd'.st = cmd.st /\ cmd'.was = digests
<1>1. /\ cmd.st \in Stores /\ cmd.id \in Claims /\ "lock.digest" \in Labels
      /\ SetLocked(cmd.id, TRUE) /\ Goto("lock.digest", cmd.id, cmd.st)
      /\ UNCHANGED <<store, digests, budget, lowered, unseen, signed>>
  BY HereTyped DEF Parts, Commands, Labels, LockClaim
<1>2. /\ cmd' \in Commands /\ Sound(cmd'.was)
      /\ cmd'.at = "lock.digest" /\ cmd'.id = cmd.id /\ cmd'.st = cmd.st /\ cmd'.was = digests
  BY <1>1, GotoTyped
<1>3. /\ claim' \in Files /\ Here' = Here /\ Locked' = Locked \cup {cmd.id}
      /\ \A c \in Here : claim'[c].threads = claim[c].threads
  BY <1>1, SetLockedFiles
<1>4. Parts'
  BY <1>1, <1>2, <1>3 DEF Parts
<1> QED
  BY <1>2, <1>3, <1>4

LEMMA LockSaveStep ==
  ASSUME Parts, cmd.id \in Here, LockSave
  PROVE  /\ Parts' /\ cmd' = Idle /\ Here' = Here
         /\ \A c \in Here : claim'[c].threads = claim[c].threads
         /\ \/ /\ store' = Saved(cmd.st) /\ signed' = signed \cup {cmd.id}
               /\ claim' = claim /\ digests' = digests /\ budget' = budget
            \/ /\ store' = store /\ signed' = signed /\ digests' = cmd.was
               /\ Locked' = Locked \ {cmd.id} /\ budget'.faults # 0
               /\ budget'.lapses = budget.lapses /\ budget'.kills = budget.kills
               /\ budget'.tampers = budget.tampers
<1>1. cmd.st \in Stores /\ Saved(cmd.st) \in Stores /\ cmd.id \in Claims /\ cmd' = Idle
  BY HereTyped, SavedTyped DEF Parts, Commands, LockSave, Return
<1>2. CASE store' = Saved(cmd.st) /\ signed' = signed \cup {cmd.id} /\ UNCHANGED <<claim, digests, budget>>
  BY <1>1, <1>2, IdleTyped DEF Parts, LockSave, Here
<1>3. CASE Fault /\ SetLocked(cmd.id, FALSE) /\ digests' = cmd.was /\ UNCHANGED <<store, signed>>
  <2>1. /\ claim' \in Files /\ Here' = Here /\ Locked' = Locked \ {cmd.id}
        /\ \A c \in Here : claim'[c].threads = claim[c].threads
    BY <1>3, SetLockedFiles
  <2>2. /\ Bounded(budget') /\ budget'.faults # 0 /\ budget'.lapses = budget.lapses
        /\ budget'.kills = budget.kills /\ budget'.tampers = budget.tampers
    BY <1>3, BudgetSpent DEF Parts
  <2>3. Parts'
    BY <1>1, <1>3, <2>1, <2>2, IdleTyped DEF Parts, LockSave
  <2> QED
    BY <1>1, <1>3, <2>1, <2>2, <2>3
<1> QED
  BY <1>2, <1>3 DEF LockSave

LEMMA UnlockMigratedStep ==
  ASSUME Parts, cmd.id \in Claims, UnlockMigrated
  PROVE  /\ Parts'
         /\ budget'.kills = budget.kills /\ budget'.tampers = budget.tampers
         /\ \/ /\ store' = Saved(cmd.st)
               /\ cmd'.at = "unlock.claim" /\ cmd'.id = cmd.id /\ cmd'.st = cmd.st
               /\ budget'.faults = budget.faults
               /\ \/ /\ digests'.entry = digests.entry /\ budget' = budget
                     /\ digests'.here <=> digests.here \/ ~cmd.st.here
                  \/ digests' = digests /\ budget'.lapses # 0
            \/ /\ store' = store /\ digests' = digests /\ cmd' = Idle
               /\ budget'.faults # 0 /\ budget'.lapses = budget.lapses
            \/ /\ store' = store /\ digests' = digests /\ budget' = budget
               /\ cmd'.at = "unlock.claim" /\ cmd'.id = cmd.id /\ cmd'.st = cmd.st
               /\ cmd.st = loaded(store)
<1>1. /\ cmd.st \in Stores /\ Saved(cmd.st) \in Stores /\ "unlock.claim" \in Labels
      /\ UNCHANGED <<claim, lowered, unseen, signed>>
  BY SavedTyped DEF Parts, Commands, Labels, UnlockMigrated
<1>2. ASSUME Goto("unlock.claim", cmd.id, cmd.st)
      PROVE  /\ cmd' \in Commands /\ Sound(cmd'.was)
             /\ cmd'.at = "unlock.claim" /\ cmd'.id = cmd.id /\ cmd'.st = cmd.st
  BY <1>1, <1>2, GotoTyped
<1>3. CASE store' = Saved(cmd.st) /\ Goto("unlock.claim", cmd.id, cmd.st)
           /\ BestEffort([digests EXCEPT !.here = @ \/ ~cmd.st.here])
  <2>1. PICK dg : dg = [digests EXCEPT !.here = @ \/ ~cmd.st.here]
    OBVIOUS
  <2>2. /\ digests \in Digests /\ digests.here \in BOOLEAN /\ cmd.st.here \in BOOLEAN
        /\ ~digests.here => digests = NoDigests
    BY <1>1 DEF Parts, Sound, Digests, Stores
  <2>3. PICK h \in BOOLEAN : h <=> digests.here \/ ~cmd.st.here
    OBVIOUS
  <2>4. (digests.here \/ ~cmd.st.here) = h
    BY <2>2, <2>3
  <2>5. dg = [digests EXCEPT !.here = h]
    BY <2>1, <2>4
  <2>6. dg \in Digests /\ dg.entry = digests.entry /\ dg.here = h
    BY <2>2, <2>5 DEF Digests
  <2>7. ~dg.here => dg = NoDigests
    BY <2>2, <2>3, <2>5, <2>6 DEF NoDigests
  <2>8. /\ Sound(digests') /\ Bounded(budget')
        /\ budget'.faults = budget.faults /\ budget'.kills = budget.kills /\ budget'.tampers = budget.tampers
        /\ \/ digests' = dg /\ budget' = budget
           \/ digests' = digests /\ budget'.lapses # 0
    <3>1. Sound(dg) /\ BestEffort(dg)
      BY <1>3, <2>1, <2>6, <2>7 DEF Sound
    <3> QED
      BY <3>1, BestEffortStep
  <2>9. Parts'
    BY <1>1, <1>2, <1>3, <2>8 DEF Parts
  <2> QED
    BY <1>2, <1>3, <2>3, <2>6, <2>8, <2>9
<1>4. CASE Fault /\ Return /\ UNCHANGED <<store, digests>>
  BY <1>1, <1>4, IdleTyped, BudgetSpent DEF Parts, Return
<1>5. CASE Goto("unlock.claim", cmd.id, cmd.st) /\ UNCHANGED <<store, digests, budget>> /\ cmd.st = loaded(store)
  BY <1>1, <1>2, <1>5 DEF Parts
<1> QED
  BY <1>3, <1>4, <1>5 DEF UnlockMigrated

\* check, claim unlock and constitution lock end alike: saved, refused, or nothing to save.
Ends == \/ /\ SaveThenEnd(cmd.st) /\ UNCHANGED budget
        \/ Fault /\ Return /\ UNCHANGED store
        \/ /\ cmd.st = loaded(store) /\ Return /\ UNCHANGED <<store, budget>>

LEMMA EndsStep ==
  ASSUME Parts, Ends, UNCHANGED <<claim, digests, lowered, unseen>>, signed' \subseteq signed
  PROVE  /\ Parts' /\ cmd'.at \in {"idle", "ensure"}
         /\ budget'.kills = budget.kills /\ budget'.tampers = budget.tampers /\ budget'.lapses = budget.lapses
         /\ \/ /\ store' = Saved(cmd.st) /\ budget' = budget
               /\ cmd'.at = "ensure" => ~cmd.st.here
            \/ cmd'.at = "idle" /\ store' = store /\ budget'.faults # 0
            \/ cmd'.at = "idle" /\ store' = store /\ budget' = budget /\ cmd.st = loaded(store)
<1>1. cmd.st \in Stores
  BY DEF Parts, Commands
<1>2. CASE SaveThenEnd(cmd.st) /\ UNCHANGED budget
  <2>1. /\ store' = Saved(cmd.st) /\ store' \in Stores
        /\ cmd' \in Commands /\ Sound(cmd'.was) /\ cmd'.at \in {"idle", "ensure"}
        /\ cmd'.at = "ensure" => ~cmd.st.here
    BY <1>1, <1>2, SaveThenEndStep
  <2> QED
    BY <1>2, <2>1 DEF Parts
<1>3. CASE Fault /\ Return /\ UNCHANGED store
  BY <1>3, IdleTyped, BudgetSpent DEF Parts, Return
<1>4. CASE cmd.st = loaded(store) /\ Return /\ UNCHANGED <<store, budget>>
  BY <1>4, IdleTyped DEF Parts, Return
<1> QED
  BY <1>2, <1>3, <1>4 DEF Ends

LEMMA EndingActions ==
  /\ CheckSave => Ends /\ UNCHANGED <<claim, digests, lowered, unseen, signed>>
  /\ RoofSave => Ends /\ UNCHANGED <<claim, digests, lowered, unseen, signed>>
  /\ UnlockSave => /\ Ends /\ UNCHANGED <<claim, digests, lowered, unseen>>
                   /\ signed' = signed \/ (SaveThenEnd(cmd.st) /\ signed' = signed \ {cmd.id})
  BY DEF CheckSave, RoofSave, UnlockSave, Ends

LEMMA EnsureStep ==
  ASSUME Parts, Ensure
  PROVE  /\ Parts' /\ cmd' = Idle /\ digests'.entry = digests.entry
         /\ budget'.faults = budget.faults /\ budget'.kills = budget.kills /\ budget'.tampers = budget.tampers
         /\ \/ digests'.here /\ budget' = budget
            \/ digests' = digests /\ budget'.lapses # 0
<1>1. PICK dg : dg = [digests EXCEPT !.here = TRUE]
  OBVIOUS
<1>2. Sound(dg) /\ dg.here /\ dg.entry = digests.entry
  BY <1>1 DEF Parts, Sound, Digests
<1>3. BestEffort(dg) /\ cmd' = Idle /\ UNCHANGED <<claim, store, lowered, unseen, signed>>
  BY <1>1 DEF Ensure, Return
<1>4. /\ Sound(digests') /\ Bounded(budget')
      /\ budget'.faults = budget.faults /\ budget'.kills = budget.kills /\ budget'.tampers = budget.tampers
      /\ \/ digests' = dg /\ budget' = budget
         \/ digests' = digests /\ budget'.lapses # 0
  BY <1>2, <1>3, BestEffortStep
<1>5. Parts'
  BY <1>3, <1>4, IdleTyped DEF Parts
<1> QED
  BY <1>2, <1>3, <1>4, <1>5

LEMMA DraftStep ==
  ASSUME Parts, NEW c \in Claims
  PROVE  /\ DeleteClaim(c) => /\ Parts' /\ Here' = Here \ {c} /\ Locked' = Locked
                              /\ \A d \in Here' : claim'[d].threads = claim[d].threads
         /\ CreateClaim(c) => /\ Parts' /\ Here' = Here \cup {c} /\ Locked' = Locked
                              /\ claim'[c].threads = "none"
                              /\ \A d \in Here : claim'[d].threads = claim[d].threads
<1>0. claim \in Files
  BY DEF Parts
<1>1. ASSUME DeleteClaim(c)
      PROVE  /\ Parts' /\ Here' = Here \ {c} /\ Locked' = Locked
             /\ \A d \in Here' : claim'[d].threads = claim[d].threads
  <2>1. claim' = [claim EXCEPT ![c] = None] /\ c \notin Locked
    BY <1>1 DEF DeleteClaim
  <2>2. claim'[c] = None /\ claim' \in Files /\ \A d \in Claims : d # c => claim'[d] = claim[d]
    BY <1>0, <2>1 DEF Files
  <2>3. Here' = Here \ {c}
    BY <2>2 DEF Here
  <2>4. Locked' = {d \in Here' : claim'[d].locked}
    BY DEF Locked
  <2>5. Locked' = Locked
    BY <2>1, <2>2, <2>3, <2>4 DEF Locked, Here
  <2>6. Parts'
    BY <1>1, <2>2 DEF Parts, DeleteClaim
  <2> QED
    BY <2>2, <2>3, <2>5, <2>6 DEF Here
<1>2. ASSUME CreateClaim(c)
      PROVE  /\ Parts' /\ Here' = Here \cup {c} /\ Locked' = Locked
             /\ claim'[c].threads = "none"
             /\ \A d \in Here : claim'[d].threads = claim[d].threads
  <2>1. PICK file : file = [locked |-> FALSE, threads |-> "none"]
    OBVIOUS
  <2>2. claim' = [claim EXCEPT ![c] = file] /\ c \notin Here
    BY <1>2, <2>1 DEF CreateClaim
  <2>3. file \in [locked: BOOLEAN, threads: Threads] /\ ~file.locked /\ file.threads = "none"
    BY <2>1 DEF Threads
  <2>4. file # None
    BY <2>3, NoneAssumption DEF Threads
  <2>5. claim'[c] = file /\ claim' \in Files /\ \A d \in Claims : d # c => claim'[d] = claim[d]
    BY <1>0, <2>2, <2>3 DEF Files
  <2>6. Here' = Here \cup {c}
    BY <2>4, <2>5 DEF Here
  <2>7. Locked' = {d \in Here' : claim'[d].locked}
    BY DEF Locked
  <2>8. Locked' = Locked
    BY <2>2, <2>3, <2>5, <2>6, <2>7 DEF Locked, Here
  <2>9. Parts'
    BY <1>2, <2>5 DEF Parts, CreateClaim
  <2> QED
    BY <2>2, <2>3, <2>5, <2>6, <2>8, <2>9 DEF Here
<1> QED
  BY <1>1, <1>2

LEMMA KillStep ==
  ASSUME Parts, Kill
  PROVE  Parts' /\ cmd' = Idle /\ budget'.kills # 0
<1>1. Bounded(budget') /\ budget'.kills # 0
  BY SchemaAssumption DEF Kill, Parts, Bounded
<1> QED
  BY <1>1, IdleTyped DEF Kill, Parts, Return

LEMMA TamperStep ==
  ASSUME Parts
  PROVE  /\ \A v \in {0, 1} : LowerVersion(v) =>
              /\ Parts' /\ budget'.tampers # 0 /\ lowered' = TRUE /\ digests.here /\ LedgerCovered(store)
              /\ store'.version = v /\ store'.here /\ store'.rec = store.rec /\ store'.base = store.base
         /\ \A c \in Claims : FlipLocked(c) => Parts' /\ budget'.tampers # 0 /\ Here' = Here
         /\ NewerEngine =>
              /\ Parts' /\ budget'.tampers # 0 /\ store'.here /\ ~lowered
              /\ store'.rec = store.rec /\ store'.base = store.base
<1>0. store \in Stores
  BY DEF Parts
<1>1. ASSUME NEW v \in {0, 1}, LowerVersion(v)
      PROVE  /\ Parts' /\ budget'.tampers # 0 /\ lowered' = TRUE /\ digests.here /\ LedgerCovered(store)
             /\ store'.version = v /\ store'.here /\ store'.rec = store.rec /\ store'.base = store.base
  <2>1. /\ v \in 0..(briefsSchemaVersion + 1) /\ store' = [store EXCEPT !.version = v] /\ store.here
        /\ lowered' = TRUE /\ LedgerCovered(store) /\ digests.here /\ Tampered
        /\ UNCHANGED <<claim, digests, cmd, unseen, signed>>
    BY <1>1 DEF LowerVersion, LedgerCovered, briefsSchemaVersion
  <2>2. /\ store' \in Stores /\ store'.version = v /\ store'.here = store.here
        /\ store'.rec = store.rec /\ store'.base = store.base
    BY <1>0, <2>1 DEF Stores
  <2>3. Bounded(budget') /\ budget'.tampers # 0
    BY <2>1, BudgetSpent DEF Parts
  <2> QED
    BY <2>1, <2>2, <2>3 DEF Parts
<1>2. ASSUME NEW c \in Claims, FlipLocked(c) PROVE Parts' /\ budget'.tampers # 0 /\ Here' = Here
  <2>1. /\ c \in Here /\ Tampered /\ SetLocked(c, TRUE)
        /\ UNCHANGED <<store, digests, cmd, lowered, unseen, signed>>
    BY <1>2 DEF FlipLocked
  <2>2. claim' \in Files /\ Here' = Here
    BY <2>1, SetLockedFiles
  <2>3. Bounded(budget') /\ budget'.tampers # 0
    BY <2>1, BudgetSpent DEF Parts
  <2> QED
    BY <2>1, <2>2, <2>3 DEF Parts
<1>3. ASSUME NewerEngine
      PROVE  /\ Parts' /\ budget'.tampers # 0 /\ store'.here /\ ~lowered
             /\ store'.rec = store.rec /\ store'.base = store.base
  <2>1. /\ briefsSchemaVersion + 1 \in 0..(briefsSchemaVersion + 1)
        /\ store' = [store EXCEPT !.version = briefsSchemaVersion + 1]
        /\ store.here /\ ~lowered /\ Tampered /\ UNCHANGED <<claim, digests, cmd, lowered, unseen, signed>>
    BY <1>3 DEF NewerEngine, briefsSchemaVersion
  <2>2. store' \in Stores /\ store'.here = store.here /\ store'.rec = store.rec /\ store'.base = store.base
    BY <1>0, <2>1 DEF Stores
  <2>3. Bounded(budget') /\ budget'.tampers # 0
    BY <2>1, BudgetSpent DEF Parts
  <2> QED
    BY <2>1, <2>2, <2>3 DEF Parts
<1> QED
  BY <1>1, <1>2, <1>3

-----------------------------------------------------------------------------
(* Types, records and absence are kept by every step. *)

\* The store is written by a command that saves, or by hand.
Kept == store' = store /\ signed' = signed

SavedBy(st) == /\ store' = Saved(st) /\ cmd.at \in Saving
               /\ IF cmd.at = "lock.save" THEN signed' = signed \cup {cmd.id}
                  ELSE signed' = signed \/ (cmd.at = "release.save" /\ signed' = signed \ {cmd.id})

ByHand == /\ store'.here /\ store'.rec = store.rec /\ store'.base = store.base /\ budget'.tampers # 0
          /\ cmd.at = "idle" /\ signed' = signed
          /\ NewerEngine \/ (\E v \in {0, 1} : LowerVersion(v))

LEMMA WritesNext ==
  ASSUME Parts, RecordsKept, Next
  PROVE  /\ Parts'
         /\ \/ Kept
            \/ SavedBy(cmd.st)
            \/ SavedBy(Crossed(cmd.st)) /\ cmd.at = "cross.save"
            \/ ByHand
<1> USE DEF Saving, Crossing, Locking, Unlocking
<1>0. Here \subseteq Claims
  BY HereTyped
<1>1. CASE CheckPrepare
  <2>1. "save" \in Labels /\ Prepare("save", None)
    BY <1>1 DEF CheckPrepare, Labels
  <2>2. Parts'
    BY <2>1, PrepareStep
  <2> QED
    BY <2>1, <2>2 DEF Prepare, Kept
<1>2. CASE CheckSave
  BY <1>2, EndingActions, EndsStep DEF CheckSave, Kept, SavedBy
<1>3. CASE Ensure
  BY <1>3, EnsureStep DEF Ensure, Kept
<1>4. ASSUME NEW c \in Claims, LockBegin(c) PROVE Parts' /\ Kept
  BY <1>4, LockBeginStep DEF LockBegin, Kept
<1>5. CASE CrossDigest
  BY <1>5, CrossDigestStep DEF CrossDigest, Kept
<1>6. CASE CrossSave
  <2>1. cmd.id \in Claims /\ cmd.at = "cross.save" /\ signed' = signed
    BY <1>0, <1>6 DEF CrossSave, RecordsKept
  <2> QED
    BY <1>6, <2>1, CrossSaveStep DEF Kept, SavedBy
<1>7. CASE LockClaim
  BY <1>7, LockClaimStep DEF LockClaim, RecordsKept, Kept
<1>8. CASE LockDigest
  BY <1>8, LockDigestStep DEF LockDigest, RecordsKept, Kept
<1>9. CASE LockSave
  <2>1. cmd.id \in Here /\ cmd.at = "lock.save"
    BY <1>9 DEF LockSave, RecordsKept
  <2> QED
    BY <1>9, <2>1, LockSaveStep DEF Kept, SavedBy
<1>10. ASSUME NEW c \in Claims, UnlockPrepare(c) PROVE Parts' /\ Kept
  <2>1. "unlock.save" \in Labels /\ Prepare("unlock.save", c)
    BY <1>10 DEF UnlockPrepare, Labels
  <2>2. Parts'
    BY <2>1, PrepareStep
  <2> QED
    BY <2>1, <2>2 DEF Prepare, Kept
<1>11. CASE UnlockMigrated
  <2>1. cmd.id \in Claims /\ cmd.at = "unlock.save" /\ signed' = signed
    BY <1>0, <1>11 DEF UnlockMigrated, RecordsKept
  <2> QED
    BY <1>11, <2>1, UnlockMigratedStep DEF Kept, SavedBy
<1>12. CASE UnlockClaim
  BY <1>12, UnlockClaimStep DEF UnlockClaim, RecordsKept, Kept
<1>13. CASE UnlockSave
  <2>1. signed' \subseteq signed /\ cmd.at = "release.save"
    BY <1>13, EndingActions DEF UnlockSave
  <2>2. \/ store' = Saved(cmd.st) /\ signed' = signed \ {cmd.id}
        \/ store' = store /\ signed' = signed
    BY <1>13 DEF UnlockSave, SaveThenEnd
  <2> QED
    BY <1>13, <2>1, <2>2, EndingActions, EndsStep DEF Kept, SavedBy
<1>14. CASE RoofSweep
  BY <1>14, RoofSweepStep DEF RoofSweep, Kept
<1>15. CASE RoofSave
  BY <1>15, EndingActions, EndsStep DEF RoofSave, Kept, SavedBy
<1>16. ASSUME NEW c \in Claims, NEW op \in CommentOp, Comment(c, op) PROVE Parts' /\ Kept
  BY <1>16, CommentStep DEF Comment, Kept
<1>17. CASE CommentDigest
  BY <1>17, CommentDigestStep DEF CommentDigest, RecordsKept, Kept
<1>18. ASSUME NEW c \in Claims, DeleteClaim(c) \/ CreateClaim(c) PROVE Parts' /\ Kept
  BY <1>18, DraftStep DEF DeleteClaim, CreateClaim, Kept
<1>19. ASSUME NEW c \in Claims, FlipLocked(c) PROVE Parts' /\ Kept
  BY <1>19, TamperStep DEF FlipLocked, Kept
<1>20. ASSUME NEW v \in {0, 1}, LowerVersion(v) PROVE Parts' /\ ByHand
  BY <1>20, TamperStep DEF LowerVersion, ByHand
<1>21. CASE NewerEngine
  BY <1>21, TamperStep DEF NewerEngine, ByHand
<1>22. CASE Kill
  BY <1>22, KillStep DEF Kill, Kept
<1> QED
  BY <1>1, <1>2, <1>3, <1>4, <1>5, <1>6, <1>7, <1>8, <1>9, <1>10, <1>11, <1>12, <1>13, <1>14, <1>15,
     <1>16, <1>17, <1>18, <1>19, <1>20, <1>21, <1>22 DEF Next, Engine, Outside

\* What is judged of a store is not changed by loading it.
LEMMA LoadedSame ==
  ASSUME NEW st \in Stores, NEW dg
  PROVE  /\ Records(loaded(st)) = Records(st) /\ \A c \in Claims : Standing(loaded(st), c) = Standing(st, c)
         /\ PreLedger(loaded(st)) = PreLedger(st) /\ LedgerCovered(loaded(st)) = LedgerCovered(st)
         /\ LedgerDowngraded(loaded(st), dg) = LedgerDowngraded(st, dg)
         /\ LedgerEstablished(loaded(st), dg) = LedgerEstablished(st, dg)
         /\ PreLedgerUnadopted(loaded(st), dg) = PreLedgerUnadopted(st, dg)
<1>1. PICK ld : ld = loaded(st)
  OBVIOUS
<1>2. ld.here = st.here /\ ld.version = st.version /\ ld.key = st.key /\ ld.rec = st.rec
  BY <1>1, LoadedTyped
<1>3. /\ Records(ld) = Records(st) /\ \A c \in Claims : Standing(ld, c) = Standing(st, c)
      /\ PreLedger(ld) = PreLedger(st) /\ LedgerCovered(ld) = LedgerCovered(st)
  BY <1>2 DEF Records, Standing, PreLedger, LedgerCovered
<1>4. LedgerDowngraded(ld, dg) = LedgerDowngraded(st, dg)
  BY <1>2, <1>3 DEF LedgerDowngraded
<1> QED
  BY <1>1, <1>3, <1>4 DEF LedgerEstablished, PreLedgerUnadopted

LEMMA PreparedStore ==
  ASSUME Parts, NEW l \in Labels, NEW c \in Claims \cup {None}, Prepare(l, c)
  PROVE  /\ cmd'.st \in Stores /\ cmd'.st.here = store.here /\ cmd'.st.rec = store.rec /\ cmd'.st.at = store.at
         /\ \/ cmd'.st = loaded(store)
            \/ /\ Locked # {} /\ ~LedgerDowngraded(store, digests)
               /\ ~store.here \/ store.version < nestedHashSchemaVersion
               /\ cmd'.st.version = nestedHashSchemaVersion
<1>1. PICK ld : ld = loaded(store)
  OBVIOUS
<1>2. /\ ld \in Stores /\ ld.here = store.here /\ ld.rec = store.rec /\ ld.at = store.at
      /\ ld.version = store.version /\ LedgerDowngraded(ld, digests) = LedgerDowngraded(store, digests)
  BY <1>1, LoadedTyped, LoadedSame DEF Parts
<1>3. cmd'.st = MigrateLegacyStore(ld, digests)
  BY <1>1, PrepareStep
<1> HIDE <1>1
<1>4. /\ cmd'.st \in Stores /\ cmd'.st.here = ld.here /\ cmd'.st.rec = ld.rec /\ cmd'.st.at = ld.at
      /\ \/ cmd'.st = ld
         \/ /\ Locked # {} /\ ~LedgerDowngraded(ld, digests)
            /\ ~ld.here \/ ld.version < nestedHashSchemaVersion
            /\ cmd'.st.version = nestedHashSchemaVersion
  BY <1>2, <1>3, MigratedTyped
<1> QED
  BY <1>1, <1>2, <1>4

LEMMA SignedNext ==
  ASSUME Parts, RecordsKept, StandingSigned, Next
  PROVE  StandingSigned'
<1> SUFFICES ASSUME NEW c \in Claims, Standing(store', c)
             PROVE  c \in signed'
  BY DEF StandingSigned
<1>1. cmd.st \in Stores /\ Crossed(cmd.st) \in Stores /\ Crossed(cmd.st).rec = cmd.st.rec
  BY CrossedTyped DEF Parts, Commands
<1>2. CASE Kept
  BY <1>2 DEF Kept, StandingSigned
<1>3. CASE SavedBy(cmd.st) \/ SavedBy(Crossed(cmd.st))
  <2>1. store'.rec = cmd.st.rec /\ cmd.at \in Saving
    BY <1>1, <1>3, SavedTyped DEF SavedBy
  <2>2. Standing(cmd.st, c)
    BY <2>1 DEF Standing
  <2>3. CASE cmd.at = "lock.save"
    BY <1>3, <2>1, <2>2, <2>3 DEF SavedBy, RecordsKept, StandingSigned, Standing
  <2>4. CASE cmd.at = "release.save"
    BY <1>3, <2>1, <2>2, <2>4 DEF SavedBy, RecordsKept, StandingSigned, Standing
  <2>5. CASE cmd.at \notin {"lock.save", "release.save"}
    BY <1>3, <2>1, <2>2, <2>5 DEF SavedBy, RecordsKept, StandingSigned, Standing
  <2> QED
    BY <2>3, <2>4, <2>5
<1>4. CASE ByHand
  BY <1>4 DEF ByHand, StandingSigned, Standing
<1> QED
  BY <1>2, <1>3, <1>4, WritesNext

LEMMA AbsentNext ==
  ASSUME Parts, RecordsKept, AbsentEmpty, Next
  PROVE  AbsentEmpty'
<1>1. cmd.st \in Stores /\ Crossed(cmd.st) \in Stores
  BY CrossedTyped DEF Parts, Commands
<1>2. store' = store \/ store'.here
  BY <1>1, WritesNext, SavedTyped DEF Kept, SavedBy, ByHand
<1> QED
  BY <1>2 DEF AbsentEmpty

LEMMA RecordsKeptNext ==
  ASSUME Parts, RecordsKept, Next
  PROVE  RecordsKept'
<1> USE DEF Saving, Crossing, Locking, Unlocking
<1>0. /\ Here \subseteq Claims /\ loaded(store).rec = store.rec
      /\ cmd.st \in Stores /\ Crossed(cmd.st) \in Stores /\ Crossed(cmd.st).rec = cmd.st.rec
      /\ \A st \in Stores : Saved(st).rec = st.rec
  BY HereTyped, LoadedTyped, CrossedTyped, SavedTyped DEF Parts, Commands
<1>1. CASE CheckPrepare
  <2>1. /\ "save" \in Labels /\ Prepare("save", None) /\ store' = store
    BY <1>1 DEF CheckPrepare, Labels, Prepare
  <2> QED
    BY <2>1, PrepareStep, PreparedStore DEF RecordsKept
<1>2. CASE CheckSave
  <2>1. cmd'.at \in {"idle", "ensure"}
    BY <1>2, EndingActions, EndsStep
  <2> QED
    BY <2>1 DEF RecordsKept
<1>3. ASSUME cmd' = Idle PROVE RecordsKept'
  BY <1>3, IdleTyped DEF RecordsKept
<1>4. ASSUME NEW c \in Claims, LockBegin(c) PROVE RecordsKept'
  <2>1. Here' = Here /\ store' = store
    BY <1>4 DEF LockBegin, Here
  <2>2. Admissible(loaded(store), c) => ~Standing(store, c)
    BY <1>0 DEF Admissible, Standing
  <2> QED
    BY <1>0, <1>4, <2>1, <2>2, LockBeginStep DEF RecordsKept
<1>5. CASE CrossDigest
  <2>1. Here' = Here /\ store' = store /\ cmd.at = "cross.digest"
    BY <1>5 DEF CrossDigest, Here
  <2> QED
    BY <1>3, <1>5, <2>1, CrossDigestStep DEF RecordsKept
<1>6. CASE CrossSave
  <2>1. Here' = Here /\ cmd.at = "cross.save" /\ cmd.id \in Here
    BY <1>6 DEF CrossSave, Here, RecordsKept
  <2>2. cmd' # Idle => /\ cmd'.at = "lock.claim" /\ cmd'.id = cmd.id /\ cmd'.st.rec = cmd.st.rec
                       /\ store'.rec = cmd.st.rec /\ ~Standing(store', cmd.id)
    BY <1>0, <1>6, <2>1, CrossSaveStep DEF Admissible, Standing
  <2> QED
    BY <1>3, <2>1, <2>2 DEF RecordsKept
<1>7. CASE LockClaim
  <2>1. cmd.at = "lock.claim" /\ store' = store /\ cmd.id \in Here
    BY <1>7 DEF LockClaim, RecordsKept
  <2> QED
    BY <1>7, <2>1, LockClaimStep DEF RecordsKept, Standing
<1>8. CASE LockDigest
  <2>1. Here' = Here /\ cmd.at = "lock.digest" /\ store' = store /\ cmd.id \in Here
    BY <1>8 DEF LockDigest, RecordsKept, Here
  <2> QED
    BY <1>0, <1>8, <2>1, LockDigestStep DEF RecordsKept, Standing
<1>9. CASE LockSave
  BY <1>3, <1>9 DEF LockSave, Return
<1>10. ASSUME NEW c \in Claims, UnlockPrepare(c) PROVE RecordsKept'
  <2>1. /\ "unlock.save" \in Labels /\ Prepare("unlock.save", c) /\ store' = store /\ Here' = Here /\ c \in Here
    BY <1>10, HereTyped DEF UnlockPrepare, Labels, Prepare, Here
  <2> QED
    BY <1>0, <2>1, PrepareStep, PreparedStore DEF RecordsKept
<1>11. CASE UnlockMigrated
  <2>1. Here' = Here /\ cmd.at = "unlock.save" /\ cmd.id \in Here
    BY <1>11 DEF UnlockMigrated, RecordsKept, Here
  <2>2. cmd' # Idle => /\ cmd'.at = "unlock.claim" /\ cmd'.id = cmd.id /\ cmd'.st = cmd.st
                       /\ \A c \in Claims : cmd.st.rec[c] = store'.rec[c]
    BY <1>0, <1>11, <2>1, UnlockMigratedStep DEF RecordsKept
  <2> QED
    BY <1>3, <2>1, <2>2 DEF RecordsKept
<1>12. CASE UnlockClaim
  <2>1. cmd.at = "unlock.claim" /\ store' = store /\ cmd.id \in Here
    BY <1>12 DEF UnlockClaim, RecordsKept
  <2> QED
    BY <1>0, <1>12, <2>1, UnlockClaimStep DEF RecordsKept, Standing
<1>13. CASE UnlockSave
  <2>1. cmd'.at \in {"idle", "ensure"}
    BY <1>13, EndingActions, EndsStep
  <2> QED
    BY <2>1 DEF RecordsKept
<1>14. CASE RoofSweep
  <2>1. store' = store
    BY <1>14 DEF RoofSweep
  <2> QED
    BY <1>14, <2>1, RoofSweepStep DEF RecordsKept
<1>15. CASE RoofSave
  <2>1. cmd'.at \in {"idle", "ensure"}
    BY <1>15, EndingActions, EndsStep
  <2> QED
    BY <2>1 DEF RecordsKept
<1>16. ASSUME NEW c \in Claims, NEW op \in CommentOp, Comment(c, op) PROVE RecordsKept'
  BY <1>16, CommentStep DEF RecordsKept
<1>17. CASE CommentDigest
  BY <1>3, <1>17 DEF CommentDigest, Return
<1>18. ASSUME cmd' = cmd, cmd.at = "idle" PROVE RecordsKept'
  BY <1>18 DEF RecordsKept
<1> QED
  BY <1>1, <1>2, <1>3, <1>4, <1>5, <1>6, <1>7, <1>8, <1>9, <1>10, <1>11, <1>12, <1>13, <1>14, <1>15,
     <1>16, <1>17, <1>18
  DEF Next, Engine, Outside, Ensure, Return, Kill, DeleteClaim, CreateClaim, FlipLocked, LowerVersion, NewerEngine

-----------------------------------------------------------------------------
(* A lowered store, and where baselines come from. *)

LEMMA LoweredNext ==
  ASSUME Parts, RecordsKept, LoweredStays, Next
  PROVE  LoweredStays'
<1> USE DEF Saving, Crossing, Locking, Unlocking
<1>0. /\ loaded(store).here = store.here /\ loaded(store).version = store.version
      /\ cmd.st \in Stores /\ \A st \in Stores : Saved(st).here /\ Saved(st).version = st.version
      /\ store.version \in 0..5 /\ cmd.st.version \in 0..5 /\ ledgerSchemaVersion = 2
  BY LoadedTyped, SavedTyped DEF Parts, Commands, Stores, briefsSchemaVersion, ledgerSchemaVersion
<1>1. ASSUME NEW v \in {0, 1}, LowerVersion(v) PROVE LoweredStays'
  <2>1. /\ digests' = digests /\ cmd' = cmd /\ cmd.at = "idle"
    BY <1>1 DEF LowerVersion
  <2> QED
    BY <1>0, <1>1, <2>1, TamperStep DEF LoweredStays
<1>2. ASSUME NewerEngine PROVE LoweredStays'
  BY <1>2 DEF NewerEngine, LoweredStays
<1> SUFFICES ASSUME lowered, lowered' = lowered, ~NewerEngine, \A v \in {0, 1} : ~LowerVersion(v)
             PROVE  LoweredStays'
  BY <1>1, <1>2 DEF Next, Engine, Outside, CheckPrepare, Prepare, CheckSave, Ensure, LockBegin, CrossDigest,
     CrossSave, LockClaim, LockDigest, LockSave, UnlockPrepare, UnlockMigrated, UnlockClaim, UnlockSave,
     RoofSweep, RoofSave, Comment, CommentDigest, DeleteClaim, CreateClaim, FlipLocked, Kill, LoweredStays
<1> DEFINE Low == store'.here /\ store'.version < ledgerSchemaVersion
<1>3. /\ store.here /\ store.version < ledgerSchemaVersion /\ digests.here
      /\ cmd.at \notin Crossing
      /\ cmd.at \in Saving => cmd.st.here /\ cmd.st.version < ledgerSchemaVersion
      /\ cmd.at \in {"lock.digest", "lock.save"} => cmd.was.here
  BY DEF LoweredStays
<1>4. Low
  BY <1>0, <1>3, WritesNext DEF Kept, SavedBy, ByHand
<1>5. digests'.here
  <2>1. ASSUME NEW st, NEW covered \in BOOLEAN
        PROVE  SweepCommentDigests(st, covered).here
    BY <1>3, <2>1, SweepTyped, TypedParts
  <2>2. LedgerEstablished(loaded(store), digests) \in BOOLEAN
    BY LoadedSame DEF LedgerEstablished, LedgerCovered, LedgerDowngraded, PreLedger, Parts, Stores
  <2>3. ASSUME NEW l \in Labels, NEW c \in Claims \cup {None}, Prepare(l, c) PROVE digests'.here
    BY <1>3, <2>1, <2>2, <2>3, PrepareStep
  <2>4. CASE CheckPrepare \/ \E c \in Claims : UnlockPrepare(c)
    BY <2>3, <2>4 DEF CheckPrepare, UnlockPrepare, Labels
  <2>5. CASE Ensure
    BY <1>3, <2>5, EnsureStep
  <2>6. CASE CrossDigest \/ CrossSave
    BY <1>3, <2>6 DEF CrossDigest, CrossSave
  <2>7. CASE LockDigest
    BY <1>3, <2>7, LockDigestStep DEF RecordsKept, LockDigest
  <2>8. CASE LockSave
    BY <1>3, <2>8 DEF LockSave
  <2>9. CASE UnlockMigrated
    BY <1>0, <1>3, <2>9, HereTyped, UnlockMigratedStep DEF RecordsKept, UnlockMigrated
  <2>10. CASE RoofSweep
    BY <1>3, <2>1, <2>10, RoofSweepStep
  <2>11. CASE CommentDigest
    BY <1>3, <2>11, CommentDigestStep DEF RecordsKept, CommentDigest
  <2>12. CASE digests' = digests
    BY <1>3, <2>12
  <2> QED
    BY <2>4, <2>5, <2>6, <2>7, <2>8, <2>9, <2>10, <2>11, <2>12
    DEF Next, Engine, Outside, CheckSave, LockBegin, LockClaim, UnlockClaim, UnlockSave, RoofSave, Comment,
        DeleteClaim, CreateClaim, FlipLocked, Kill
<1>6. /\ cmd'.at \notin Crossing
      /\ cmd'.at \in Saving => cmd'.st.here /\ cmd'.st.version < ledgerSchemaVersion
      /\ cmd'.at \in {"lock.digest", "lock.save"} => cmd'.was.here
  <2>1. ASSUME NEW l \in {"save", "unlock.save"}, NEW c \in Claims \cup {None}, Prepare(l, c)
        PROVE  cmd'.st.here /\ cmd'.st.version < ledgerSchemaVersion /\ cmd'.at = l
    <3>1. l \in Labels /\ nestedHashSchemaVersion = 1
      BY DEF Labels, nestedHashSchemaVersion
    <3>2. cmd'.at = l
      BY <2>1, <3>1, PrepareStep
    <3>3. /\ cmd'.st.here = store.here
          /\ cmd'.st = loaded(store) \/ cmd'.st.version = nestedHashSchemaVersion
      BY <2>1, <3>1, PreparedStore
    <3> QED
      BY <1>0, <1>3, <3>1, <3>2, <3>3
  <2>2. CASE CheckPrepare \/ \E c \in Claims : UnlockPrepare(c)
    BY <2>1, <2>2 DEF CheckPrepare, UnlockPrepare
  <2>3. CASE cmd' = Idle \/ cmd'.at \in {"idle", "ensure"}
    BY <2>3, IdleTyped
  <2>4. CASE CheckSave \/ UnlockSave \/ RoofSave
    BY <2>3, <2>4, EndingActions, EndsStep
  <2>5. ASSUME NEW c \in Claims, LockBegin(c) PROVE cmd'.at = "lock.claim" /\ cmd'.st = loaded(store)
    BY <1>3, <2>5, LockBeginStep DEF PreLedgerUnadopted, LedgerDowngraded, PreLedger
  <2>6. CASE CrossDigest \/ CrossSave
    BY <1>3, <2>6 DEF CrossDigest, CrossSave
  <2>7. CASE LockClaim
    BY <1>3, <2>7, LockClaimStep DEF RecordsKept, LockClaim
  <2>8. CASE LockDigest
    BY <1>3, <2>8, LockDigestStep DEF RecordsKept, LockDigest
  <2>9. CASE UnlockMigrated
    BY <1>0, <1>3, <2>3, <2>9, HereTyped, UnlockMigratedStep DEF RecordsKept, UnlockMigrated
  <2>10. CASE UnlockClaim
    BY <1>0, <1>3, <2>10, UnlockClaimStep DEF RecordsKept, UnlockClaim
  <2>11. CASE RoofSweep
    BY <1>0, <1>3, <2>11, RoofSweepStep
  <2>12. CASE \E c \in Claims, op \in CommentOp : Comment(c, op)
    BY <2>12, CommentStep
  <2>13. CASE cmd' = cmd
    BY <1>3, <2>13
  <2> QED
    BY <1>0, <1>3, <2>2, <2>3, <2>4, <2>5, <2>6, <2>7, <2>8, <2>9, <2>10, <2>11, <2>12, <2>13
    DEF Next, Engine, Outside, Ensure, LockSave, CommentDigest, Return, DeleteClaim, CreateClaim, FlipLocked, Kill
<1> QED
  BY <1>4, <1>5, <1>6 DEF LoweredStays

LEMMA BaselinesNext ==
  ASSUME Parts, RecordsKept, BaselinesKept, Next
  PROVE  BaselinesKept'
<1> USE DEF Saving, Crossing, Locking, Unlocking
<1>0. /\ loaded(store).base \subseteq store.base /\ cmd.st \in Stores
      /\ \A st \in Stores : Saved(st).base = st.base
  BY LoadedTyped, SavedTyped DEF Parts, Commands
<1>1. ASSUME NEW l \in {"save", "unlock.save"}, NEW c \in Claims \cup {None}, Prepare(l, c)
      PROVE  BaselinesKept'
  <2>1. l \in Labels /\ store' = store
    BY <1>1 DEF Labels, Prepare
  <2>2. cmd'.at = l
    BY <1>1, <2>1, PrepareStep
  <2>3. CASE cmd'.st = loaded(store)
    BY <1>0, <2>1, <2>3 DEF BaselinesKept
  <2>4. CASE ~LedgerDowngraded(store, digests)
    <3>1. ASSUME PreLedger(store) PROVE ~LedgerDowngraded(store, digests')
      <4>1. ~digests.here /\ digests = NoDigests /\ ~store.key /\ Records(store) = {}
        BY <2>4, <3>1 DEF LedgerDowngraded, Parts, Sound
      <4>2. PreLedger(loaded(store)) /\ LedgerEstablished(loaded(store), digests) \in BOOLEAN
        BY <3>1, LoadedSame DEF Parts, LedgerEstablished, LedgerCovered, LedgerDowngraded, PreLedger, Stores
      <4>3. digests' = NoDigests
        <5>1. PICK dg : dg = SweepCommentDigests(loaded(store), LedgerEstablished(loaded(store), digests))
          OBVIOUS
        <5>2. dg = NoDigests
          BY <4>1, <4>2, <5>1, SweepTyped, TypedParts
        <5>3. digests' = dg \/ digests' = digests
          BY <1>1, <2>1, <5>1, PrepareStep
        <5> QED
          BY <4>1, <5>2, <5>3
      <4> QED
        BY <4>1, <4>3, NoDigestsTyped DEF LedgerDowngraded
    <3>2. ~LedgerDowngraded(store', digests')
      BY <2>1, <3>1 DEF LedgerDowngraded
    <3> QED
      BY <2>2, <3>2 DEF BaselinesKept
  <2> QED
    BY <1>1, <2>1, <2>3, <2>4, PreparedStore
<1>2. CASE CheckPrepare \/ \E c \in Claims : UnlockPrepare(c)
  BY <1>1, <1>2 DEF CheckPrepare, UnlockPrepare
<1>3. CASE cmd' = Idle \/ cmd'.at \in {"idle", "ensure"}
  BY <1>3, IdleTyped DEF BaselinesKept
<1>4. CASE CheckSave \/ UnlockSave \/ RoofSave
  BY <1>3, <1>4, EndingActions, EndsStep
<1>5. ASSUME NEW c \in Claims, LockBegin(c) PROVE BaselinesKept'
  BY <1>0, <1>5, LockBeginStep DEF BaselinesKept, LockBegin
<1>6. CASE CrossDigest
  BY <1>3, <1>6, CrossDigestStep DEF BaselinesKept, CrossDigest
<1>7. CASE CrossSave
  <2>1. cmd.id \in Claims
    BY <1>7, HereTyped DEF CrossSave, RecordsKept
  <2>2. cmd' # Idle => cmd'.st = Crossed(cmd.st)
    BY <1>7, <2>1, CrossSaveStep
  <2> QED
    BY <1>0, <1>3, <2>2, CrossedTyped DEF BaselinesKept
<1>8. CASE LockClaim
  BY <1>8, LockClaimStep DEF RecordsKept, LockClaim, BaselinesKept
<1>9. CASE LockDigest
  BY <1>9, LockDigestStep DEF RecordsKept, LockDigest, BaselinesKept
<1>10. CASE UnlockMigrated
  <2>1. cmd.id \in Claims /\ cmd.at = "unlock.save"
    BY <1>10, HereTyped DEF UnlockMigrated, RecordsKept
  <2>2. cmd' # Idle => /\ cmd'.st = cmd.st
                       /\ store'.base = cmd.st.base \/ cmd.st.base \subseteq store'.base
    BY <1>0, <1>10, <2>1, UnlockMigratedStep
  <2> QED
    BY <1>3, <2>2 DEF BaselinesKept
<1>11. CASE UnlockClaim
  BY <1>11, UnlockClaimStep DEF RecordsKept, UnlockClaim, BaselinesKept
<1>12. CASE RoofSweep
  BY <1>0, <1>12, RoofSweepStep DEF BaselinesKept, RoofSweep
<1>13. CASE \E c \in Claims, op \in CommentOp : Comment(c, op)
  BY <1>13, CommentStep DEF BaselinesKept
<1>14. CASE cmd' = cmd /\ cmd.at = "idle"
  BY <1>3, <1>14
<1> QED
  BY <1>2, <1>3, <1>4, <1>5, <1>6, <1>7, <1>8, <1>9, <1>10, <1>11, <1>12, <1>13, <1>14
  DEF Next, Engine, Outside, Ensure, LockSave, CommentDigest, Return, DeleteClaim, CreateClaim, FlipLocked, Kill,
      LowerVersion, NewerEngine

\* A count of mishaps that is zero was zero.
LEMMA BudgetNext ==
  ASSUME Parts, Next
  PROVE  /\ budget'.tampers = 0 => budget.tampers = 0
         /\ budget'.kills = 0 => budget.kills = 0
         /\ budget'.lapses = 0 => budget.lapses = 0
         /\ budget'.faults = 0 => budget.faults = 0
<1>1. \/ UNCHANGED budget \/ Fault \/ Lapse \/ Tampered \/ Kill
      \/ \E c \in Claims, op \in CommentOp : Comment(c, op)
  BY DEF Next, Engine, Outside, CheckPrepare, Prepare, BestEffort, CheckSave, Ensure, LockBegin, CrossDigest,
     CrossSave, LockClaim, LockDigest, LockSave, UnlockPrepare, UnlockMigrated, UnlockClaim, UnlockSave,
     RoofSweep, RoofSave, CommentDigest, DeleteClaim, CreateClaim, FlipLocked, LowerVersion, NewerEngine
<1>2. Bounded(budget)
  BY DEF Parts
<1>3. ASSUME Tampered
      PROVE  /\ budget'.kills = budget.kills /\ budget'.lapses = budget.lapses
             /\ budget'.faults = budget.faults /\ budget'.tampers # 0
  BY <1>2, <1>3 DEF Tampered, Bounded
<1>4. ASSUME Kill
      PROVE  /\ budget'.tampers = budget.tampers /\ budget'.lapses = budget.lapses
             /\ budget'.faults = budget.faults /\ budget'.kills # 0
  BY <1>2, <1>4 DEF Kill, Bounded
<1> QED
  BY <1>1, <1>2, <1>3, <1>4, BudgetSpent, CommentStep

LEMMA VersionsNext ==
  ASSUME Parts, RecordsKept, AbsentEmpty, VersionsKept, Next
  PROVE  VersionsKept'
<1> USE DEF Saving, Crossing, Locking, Unlocking
<1>0. /\ loaded(store).here = store.here /\ loaded(store).version = store.version
      /\ cmd.st \in Stores /\ Crossed(cmd.st) \in Stores
      /\ Crossed(cmd.st).version = 3 /\ Crossed(cmd.st).here = cmd.st.here
      /\ \A st \in Stores : Saved(st).here /\ Saved(st).version = st.version
      /\ store.version \in 0..5 /\ cmd.st.version \in 0..5
      /\ nestedHashSchemaVersion = 1 /\ ledgerSchemaVersion = 2 /\ storeSchemaVersion = 3
  BY LoadedTyped, SavedTyped, CrossedTyped
  DEF Parts, Commands, Stores, briefsSchemaVersion, ledgerSchemaVersion, storeSchemaVersion, nestedHashSchemaVersion
<1>1. ~store.here => store.version = 3 /\ ~store.roof
  BY EmptyTyped DEF AbsentEmpty, storeSchemaVersion
<1> SUFFICES ASSUME budget'.tampers = 0
             PROVE  VersionsKept'
  BY DEF VersionsKept
<1>2. /\ budget.tampers = 0 /\ ~NewerEngine /\ \A v \in {0, 1} : ~LowerVersion(v)
      /\ \A c \in Claims : ~FlipLocked(c)
  BY BudgetNext, TamperStep
<1>3. /\ store.version <= 3 /\ ~lowered
      /\ ~store.here => Locked = {}
      /\ cmd.at \in Unlocking \ {"release.save"} => cmd.id \in Locked
      /\ cmd.at \in Crossing \cup Locking \cup {"release.save"} => store.here
      /\ cmd.at \in Saving =>
            /\ cmd.st.here = store.here /\ cmd.st.version <= 3
            /\ cmd.st.version < 2 <=> PreLedger(store)
      /\ cmd.at \in Crossing => PreLedger(store)
  BY <1>0, <1>2 DEF VersionsKept
<1>4. /\ store'.version <= 3
      /\ store' = store \/ store'.here
  BY <1>0, <1>2, <1>3, WritesNext DEF Kept, SavedBy, ByHand
<1>5. lowered' = lowered
  BY <1>2 DEF Next, Engine, Outside, CheckPrepare, Prepare, CheckSave, Ensure, LockBegin, CrossDigest,
     CrossSave, LockClaim, LockDigest, LockSave, UnlockPrepare, UnlockMigrated, UnlockClaim, UnlockSave,
     RoofSweep, RoofSave, Comment, CommentDigest, DeleteClaim, CreateClaim, Kill
<1>6. Locked' \subseteq Locked \/ store.here
  <2>1. CASE LockClaim
    BY <1>3, <2>1 DEF LockClaim
  <2>2. CASE UnlockClaim
    BY <2>2, UnlockClaimStep DEF RecordsKept, UnlockClaim
  <2>3. CASE LockSave
    BY <1>3, <2>3 DEF LockSave
  <2>4. CASE \E c \in Claims, op \in CommentOp : Comment(c, op)
    BY <2>4, CommentStep
  <2>5. CASE \E c \in Claims : DeleteClaim(c) \/ CreateClaim(c)
    BY <2>5, DraftStep
  <2>6. CASE claim' = claim
    BY <2>6 DEF Locked, Here
  <2> QED
    BY <1>2, <2>1, <2>2, <2>3, <2>4, <2>5, <2>6
    DEF Next, Engine, Outside, CheckPrepare, Prepare, CheckSave, Ensure, LockBegin, CrossDigest,
        CrossSave, LockDigest, UnlockPrepare, UnlockMigrated, UnlockSave, RoofSweep, RoofSave, CommentDigest, Kill
<1>7. ~store'.here => Locked' = {}
  BY <1>3, <1>4, <1>6
<1> DEFINE Agrees == /\ cmd'.st.here = store'.here /\ cmd'.st.version <= 3
                     /\ cmd'.st.version < 2 <=> PreLedger(store')
           Goal == /\ cmd'.at \in Unlocking \ {"release.save"} => cmd'.id \in Locked'
                   /\ cmd'.at \in Crossing \cup Locking \cup {"release.save"} => store'.here
                   /\ cmd'.at \in Saving => Agrees
                   /\ cmd'.at \in Crossing => PreLedger(store')
<1>8. PreLedger(store) <=> store.here /\ store.version < 2
  BY <1>0 DEF PreLedger
<1>9. ASSUME NEW l \in {"save", "unlock.save"}, NEW c \in Claims \cup {None}, Prepare(l, c)
      PROVE  store' = store /\ Locked' = Locked /\ cmd'.at = l /\ cmd'.id = c /\ Agrees
  <2>1. l \in Labels /\ store' = store /\ Locked' = Locked
    BY <1>9 DEF Labels, Prepare, Locked, Here
  <2>2. cmd'.at = l /\ cmd'.id = c
    BY <1>9, <2>1, PrepareStep
  <2>3. /\ cmd'.st.here = store.here
        /\ \/ cmd'.st = loaded(store)
           \/ Locked # {} /\ (~store.here \/ store.version < 1) /\ cmd'.st.version = 1
    BY <1>0, <1>9, <2>1, PreparedStore
  <2> QED
    BY <1>0, <1>1, <1>3, <1>8, <2>1, <2>2, <2>3
<1>10. ASSUME CheckPrepare PROVE Goal
  BY <1>9, <1>10 DEF CheckPrepare
<1>11. ASSUME NEW c \in Claims, UnlockPrepare(c) PROVE Goal
  BY <1>9, <1>11 DEF UnlockPrepare
<1>12. ASSUME cmd' = Idle \/ cmd'.at \in {"idle", "ensure"} PROVE Goal
  BY <1>12, IdleTyped
<1>13. ASSUME CheckSave \/ UnlockSave \/ RoofSave PROVE Goal
  BY <1>12, <1>13, EndingActions, EndsStep
<1>14. ASSUME NEW c \in Claims, LockBegin(c) PROVE Goal
  <2>1. store' = store /\ store.roof
    BY <1>14 DEF LockBegin
  <2> QED
    BY <1>0, <1>1, <1>3, <1>8, <1>14, <2>1, LockBeginStep DEF PreLedgerUnadopted
<1>15. ASSUME CrossDigest PROVE Goal
  <2>1. store' = store /\ cmd.at = "cross.digest"
    BY <1>15 DEF CrossDigest
  <2> QED
    BY <1>3, <1>12, <1>15, <2>1, CrossDigestStep
<1>16. ASSUME CrossSave PROVE Goal
  <2>1. cmd.id \in Claims /\ cmd.at = "cross.save"
    BY <1>16, HereTyped DEF CrossSave, RecordsKept
  <2>2. cmd' # Idle => /\ cmd'.at = "lock.claim" /\ cmd'.st = Crossed(cmd.st)
                       /\ store' = Saved(Crossed(cmd.st))
    BY <1>16, <2>1, CrossSaveStep
  <2>3. store.here /\ cmd.st.here = store.here
    BY <1>3, <2>1
  <2>4. cmd' # Idle => /\ cmd'.st.here /\ store'.here /\ cmd'.st.version = 3 /\ store'.version = 3
    BY <1>0, <2>2, <2>3
  <2>5. store'.here \in BOOLEAN /\ cmd'.st.here \in BOOLEAN
    BY WritesNext DEF Parts, Commands, Stores
  <2>6. cmd' # Idle => Agrees
    BY <1>0, <2>4, <2>5 DEF PreLedger
  <2> QED
    BY <1>12, <2>2, <2>4, <2>6
<1>17. ASSUME LockClaim PROVE Goal
  <2>1. store' = store /\ cmd.at = "lock.claim"
    BY <1>17 DEF LockClaim
  <2> QED
    BY <1>3, <1>17, <2>1, LockClaimStep DEF RecordsKept
<1>18. ASSUME LockDigest PROVE Goal
  <2>1. store' = store /\ cmd.at = "lock.digest"
    BY <1>18 DEF LockDigest
  <2> QED
    BY <1>3, <1>18, <2>1, LockDigestStep DEF RecordsKept
<1>19. ASSUME UnlockMigrated PROVE Goal
  <2>1. cmd.id \in Claims /\ cmd.at = "unlock.save" /\ Locked' = Locked
    BY <1>19, HereTyped DEF UnlockMigrated, RecordsKept, Locked, Here
  <2>2. cmd' # Idle => /\ cmd'.at = "unlock.claim" /\ cmd'.id = cmd.id /\ cmd'.st = cmd.st
                       /\ store' = store \/ store' = Saved(cmd.st)
    BY <1>19, <2>1, UnlockMigratedStep
  <2>3. store.here /\ cmd.st.here = store.here
    BY <1>3, <2>1
  <2> QED
    BY <1>0, <1>3, <1>12, <2>1, <2>2, <2>3 DEF PreLedger
<1>20. ASSUME UnlockClaim PROVE Goal
  <2>1. store' = store /\ cmd.at = "unlock.claim"
    BY <1>20 DEF UnlockClaim
  <2> QED
    BY <1>3, <1>20, <2>1, UnlockClaimStep DEF RecordsKept
<1>21. ASSUME RoofSweep PROVE Goal
  <2>1. store' = store
    BY <1>21 DEF RoofSweep
  <2> QED
    BY <1>0, <1>1, <1>3, <1>8, <1>21, <2>1, RoofSweepStep
<1>22. ASSUME NEW c \in Claims, NEW op \in CommentOp, Comment(c, op) PROVE Goal
  BY <1>22, CommentStep
<1>23. ASSUME cmd' = cmd /\ cmd.at = "idle" PROVE Goal
  BY <1>12, <1>23
<1>24. Goal
  BY <1>2, <1>10, <1>11, <1>12, <1>13, <1>14, <1>15, <1>16, <1>17, <1>18, <1>19, <1>20, <1>21, <1>22, <1>23
  DEF Next, Engine, Outside, Ensure, LockSave, CommentDigest, Return, DeleteClaim, CreateClaim, FlipLocked, Kill
<1> QED
  BY <1>0, <1>3, <1>4, <1>5, <1>7, <1>24 DEF VersionsKept

-----------------------------------------------------------------------------
(* Nothing is out of step in a project that no hand, kill or lapse has disturbed. *)

Honest == /\ Parts /\ RecordsKept /\ AbsentEmpty /\ VersionsKept /\ budget.tampers = 0
          /\ LocksAgree /\ DigestsAgree

Agree == LocksAgree /\ DigestsAgree

\* The judgements on stores, with the bounds on versions that hold without a hand.
LEMMA HonestStores ==
  ASSUME Honest
  PROVE  /\ PreLedger(store) <=> store.here /\ store.version < 2
         /\ LedgerCovered(store) <=> store.here /\ ~PreLedger(store)
         /\ ~store.here => /\ Locked = {} /\ store.version = 3 /\ ~store.roof /\ store.at = {} /\ store.base = {}
                           /\ \A c \in Claims : store.rec[c] = "none"
         /\ cmd.at \in Saving => /\ cmd.st.here = store.here
                                 /\ cmd.st.version < 2 <=> PreLedger(store)
                                 /\ cmd.st.version >= 2 <=> ~PreLedger(store)
         /\ cmd.at \in Crossing => PreLedger(store)
         /\ cmd.at \in Crossing \cup Locking \cup Unlocking => store.here
         /\ store.here \in BOOLEAN /\ cmd.st.here \in BOOLEAN /\ store.version \in 0..5 /\ cmd.st.version \in 0..5
         /\ ledgerSchemaVersion = 2
<1>1. /\ store.here \in BOOLEAN /\ cmd.st.here \in BOOLEAN /\ store.version \in 0..5 /\ cmd.st.version \in 0..5
      /\ ledgerSchemaVersion = 2
  BY DEF Honest, Parts, Commands, Stores, briefsSchemaVersion, ledgerSchemaVersion
<1>2. PreLedger(store) <=> store.here /\ store.version < 2
  BY <1>1 DEF PreLedger
<1>3. LedgerCovered(store) <=> store.here /\ ~PreLedger(store)
  BY <1>1, <1>2 DEF LedgerCovered
<1>4. ~store.here => /\ Locked = {} /\ store.version = 3 /\ ~store.roof /\ store.at = {} /\ store.base = {}
                     /\ \A c \in Claims : store.rec[c] = "none"
  BY EmptyTyped DEF Honest, AbsentEmpty, VersionsKept, storeSchemaVersion
<1>5. /\ cmd.at \in Saving => cmd.st.here = store.here /\ (cmd.st.version < 2 <=> PreLedger(store))
      /\ cmd.at \in Crossing => PreLedger(store)
      /\ cmd.at \in Crossing \cup Locking \cup {"release.save"} => store.here
      /\ cmd.at \in Unlocking \ {"release.save"} => Locked # {}
  BY <1>1 DEF Honest, VersionsKept
<1>6. cmd.at \in Crossing \cup Locking \cup Unlocking => store.here
  BY <1>4, <1>5 DEF Crossing, Locking, Unlocking
<1>7. cmd.at \in Saving => (cmd.st.version >= 2 <=> ~PreLedger(store))
  BY <1>1, <1>5
<1> QED
  BY <1>1, <1>2, <1>3, <1>4, <1>5, <1>6, <1>7

LEMMA PrepareAgrees ==
  ASSUME Honest, cmd.at = "idle", NEW l \in {"save", "unlock.save"}, NEW c \in Claims \cup {None},
         Prepare(l, c), budget'.lapses = 0
  PROVE  Agree'
<1> USE DEF Saving, Crossing, Locking, Unlocking
<1>1. /\ UNCHANGED <<claim, store>> /\ Here' = Here /\ Locked' = Locked /\ l \in Labels
      /\ \A d \in Claims : ThreadsOf(d)' = ThreadsOf(d)
  BY DEF Prepare, Here, Locked, Labels, ThreadsOf
<1>2. /\ cmd'.at = l /\ cmd'.id = c
      /\ cmd'.st.here = store.here /\ cmd'.st.rec = store.rec /\ cmd'.st.at = store.at
      /\ cmd'.st = loaded(store) \/ (Locked # {} /\ cmd'.st.version = 1)
  BY <1>1, PrepareStep, PreparedStore DEF Honest, nestedHashSchemaVersion
<1>3. PICK covered \in BOOLEAN : covered = LedgerEstablished(loaded(store), digests)
  BY LoadedSame DEF LedgerEstablished, LedgerCovered, LedgerDowngraded, PreLedger, Honest, Parts, Stores
<1>4. /\ digests' = SweepCommentDigests(loaded(store), covered)
      /\ loaded(store).base \subseteq store.base /\ loaded(store).version = store.version
      /\ ~store.here => loaded(store) = store
      /\ PreLedger(loaded(store)) = PreLedger(store)
  BY <1>1, <1>3, PrepareStep, LoadedTyped, LoadedSame DEF Honest, Parts
<1>5. /\ digests.here => digests'.here
      /\ PreLedger(store) /\ ~digests.here => digests' = NoDigests
      /\ \A d \in Here : \/ digests'.entry[d] = digests.entry[d]
                         \/ digests.entry[d] = None /\ digests'.entry[d] = ThreadsOf(d)
      /\ \A d \in Claims \ Here : digests'.entry[d] \in {None, digests.entry[d]}
  <2>1. PICK dg : dg = SweepCommentDigests(loaded(store), covered)
    OBVIOUS
  <2>2. /\ digests.here => dg.here
        /\ PreLedger(loaded(store)) /\ ~digests.here => dg = NoDigests
        /\ \A d \in Here : \/ dg.entry[d] = digests.entry[d]
                           \/ digests.entry[d] = None /\ dg.entry[d] = ThreadsOf(d)
        /\ \A d \in Claims \ Here : dg.entry[d] \in {None, digests.entry[d]}
    BY <2>1, SweepTyped, TypedParts DEF Honest
  <2> QED
    BY <1>4, <2>1, <2>2
<1>6. LocksAgree'
  <2>1. PreLedger(store) => digests = NoDigests /\ ~digests.here
    BY NoDigestsTyped DEF Honest, LocksAgree
  <2>2. cmd'.st.version >= ledgerSchemaVersion => cmd'.st.at \cup cmd'.st.base \subseteq Records(cmd'.st)
    <3>1. Records(cmd'.st) = Records(store)
      BY <1>2 DEF Records
    <3>2. CASE cmd'.st = loaded(store)
      <4>1. CASE ~store.here
        BY <1>2, <1>4, <3>2, <4>1, HonestStores
      <4>2. CASE store.here
        BY <1>2, <1>4, <3>1, <3>2, <4>2, HonestStores DEF Honest, LocksAgree
      <4> QED
        BY <4>1, <4>2
    <3> QED
      BY <1>2, <3>2, HonestStores
  <2>3. ~store.here => cmd'.st = store
    BY <1>2, <1>4, HonestStores
  <2> QED
    BY <1>1, <1>2, <1>5, <2>1, <2>2, <2>3 DEF Honest, LocksAgree
<1>7. DigestsAgree'
  BY <1>1, <1>2, <1>5, HereTyped DEF Honest, DigestsAgree
<1> QED
  BY <1>6, <1>7 DEF Agree

\* A command that ends with its store saved, or with nothing written.
LEMMA SavedAgrees ==
  ASSUME Honest, Parts', cmd.at \in {"save", "roof.save", "release.save"}, cmd.at = "save" => store.here,
         store' = Saved(cmd.st), UNCHANGED <<claim, digests>>,
         cmd'.at \in {"idle", "ensure"}, cmd'.at = "ensure" => ~cmd.st.here
  PROVE  Agree'
<1> USE DEF Saving, Crossing, Locking, Unlocking
<1>1. /\ Here' = Here /\ Locked' = Locked /\ \A d \in Claims : ThreadsOf(d)' = ThreadsOf(d)
      /\ Here \subseteq Claims /\ Locked \subseteq Here
  BY HereTyped DEF Here, Locked, ThreadsOf, Honest
<1>2. /\ store'.here /\ store'.version = cmd.st.version /\ store'.rec = cmd.st.rec
      /\ store'.at = cmd.st.at /\ store'.base = cmd.st.base /\ store'.key = (Records(cmd.st) # {})
      /\ Records(store') = Records(cmd.st)
  BY SavedTyped DEF Honest, Parts, Commands, Records
<1>3. /\ PreLedger(store') <=> PreLedger(store)
      /\ LedgerCovered(store') <=> ~PreLedger(store)
  BY <1>2, HonestStores DEF PreLedger, LedgerCovered
<1>4. /\ \A c \in Claims : c # cmd.id \/ cmd.at # "release.save" => cmd.st.rec[c] = store.rec[c]
      /\ cmd.at = "release.save" => /\ cmd.id \in Here /\ cmd.id \notin Locked /\ ~Standing(cmd.st, cmd.id)
                                    /\ cmd.st.rec[cmd.id] = "none" <=> store.rec[cmd.id] = "none"
  BY DEF Honest, RecordsKept, LocksAgree
<1>5. Records(cmd.st) = Records(store)
  BY <1>4 DEF Records
<1>6. ASSUME PreLedger(store)
      PROVE  ~store'.key /\ Records(store') = {} /\ digests = NoDigests
  BY <1>2, <1>5, <1>6 DEF Honest, LocksAgree
<1>7. ASSUME ~PreLedger(store)
      PROVE  /\ store'.at \cup store'.base \subseteq Records(store')
             /\ \A c \in Claims : c \in Locked <=> Standing(store', c)
             /\ digests.here
  <2>1. cmd.st.version >= ledgerSchemaVersion
    BY <1>7, HonestStores
  <2>2. store'.at \cup store'.base \subseteq Records(store')
    BY <1>2, <2>1 DEF Honest, LocksAgree
  <2>3. digests.here
    <3>1. CASE store.here
      BY <1>7, <3>1, HonestStores DEF Honest, LocksAgree
    <3>2. CASE ~store.here
      BY <1>7, <3>2, HonestStores DEF Honest, LocksAgree
    <3> QED
      BY <3>1, <3>2
  <2>4. ASSUME NEW c \in Claims PROVE c \in Locked <=> Standing(store', c)
    <3>1. CASE c = cmd.id /\ cmd.at = "release.save"
      BY <1>2, <1>4, <3>1 DEF Standing
    <3>2. CASE ~(c = cmd.id /\ cmd.at = "release.save") /\ store.here
      BY <1>2, <1>4, <1>7, <3>2, HonestStores DEF Standing, Honest, LocksAgree
    <3>3. CASE ~(c = cmd.id /\ cmd.at = "release.save") /\ ~store.here
      BY <1>2, <1>4, <3>3, HonestStores DEF Standing
    <3> QED
      BY <3>1, <3>2, <3>3
  <2> QED
    BY <2>2, <2>3, <2>4
<1>8. cmd'.at = "ensure" => LedgerCovered(store')
  BY <1>3, HonestStores
<1>9. LocksAgree'
  BY <1>1, <1>3, <1>6, <1>7, <1>8 DEF LocksAgree
<1>10. DigestsAgree'
  <2>1. cmd.at # "comment.digest"
    OBVIOUS
  <2>2. \A c \in Here : ~Standing(store, c) => ~Standing(store', c)
    BY <1>1, <1>2, <1>4 DEF Standing
  <2>3. \A c \in Claims \ Here : store'.rec[c] = store.rec[c]
    BY <1>2, <1>4
  <2> QED
    BY <1>1, <2>1, <2>2, <2>3 DEF Honest, DigestsAgree
<1> QED
  BY <1>9, <1>10 DEF Agree

LEMMA NothingWrittenAgrees ==
  ASSUME Honest, UNCHANGED <<claim, store, digests>>, cmd'.at = "idle",
         cmd.at \in {"save", "roof.save", "unlock.save"} \/ (cmd.at = "release.save" /\ PreLedger(store))
  PROVE  Agree'
<1> USE DEF Saving, Crossing, Locking, Unlocking
<1>1. /\ Here' = Here /\ Locked' = Locked /\ \A d \in Claims : ThreadsOf(d)' = ThreadsOf(d)
      /\ Here \subseteq Claims
  BY HereTyped DEF Here, Locked, ThreadsOf, Honest
<1>2. LocksAgree'
  BY <1>1, HonestStores DEF Honest, LocksAgree
<1>3. DigestsAgree'
  BY <1>1 DEF Honest, DigestsAgree
<1> QED
  BY <1>2, <1>3 DEF Agree

LEMMA EnsureAgrees ==
  ASSUME Honest, Ensure, budget'.lapses = 0
  PROVE  Agree'
<1>1. /\ Here' = Here /\ Locked' = Locked /\ \A d \in Claims : ThreadsOf(d)' = ThreadsOf(d)
      /\ store' = store /\ cmd.at = "ensure" /\ Here \subseteq Claims
  BY HereTyped DEF Here, Locked, ThreadsOf, Ensure, Honest
<1>2. cmd' = Idle /\ digests'.entry = digests.entry /\ digests'.here
  BY EnsureStep DEF Honest
<1>3. ~PreLedger(store)
  BY <1>1, HonestStores DEF Honest, LocksAgree
<1>4. LocksAgree'
  BY <1>1, <1>2, <1>3, IdleTyped DEF Honest, LocksAgree, Saving, Crossing, Locking, Unlocking
<1>5. DigestsAgree'
  BY <1>1, <1>2, IdleTyped DEF Honest, DigestsAgree
<1> QED
  BY <1>4, <1>5 DEF Agree

LEMMA LockBeginAgrees ==
  ASSUME Honest, NEW c \in Claims, LockBegin(c)
  PROVE  Agree'
<1> USE DEF Saving, Crossing, Locking, Unlocking
<1>1. /\ Here' = Here /\ Locked' = Locked /\ \A d \in Claims : ThreadsOf(d)' = ThreadsOf(d)
      /\ UNCHANGED <<claim, store, digests>> /\ cmd.at = "idle" /\ store.roof
      /\ Here \subseteq Claims
  BY HereTyped DEF Here, Locked, ThreadsOf, LockBegin, Begin, Honest
<1>2. /\ c \in Here /\ cmd'.id = c /\ cmd'.st = loaded(store)
      /\ \/ cmd'.at = "cross.digest" /\ PreLedgerUnadopted(store, digests) /\ Locked = {}
         \/ cmd'.at = "lock.claim" /\ ~PreLedgerUnadopted(store, digests) /\ c \notin Locked
  BY LockBeginStep DEF Honest, Admissible, Locked
<1>3. store.here /\ (PreLedger(store) => PreLedgerUnadopted(store, digests))
  BY <1>1, HonestStores, NoDigestsTyped DEF Honest, LocksAgree, PreLedgerUnadopted, LedgerDowngraded
<1>4. ASSUME cmd'.at = "lock.claim"
      PROVE  /\ LedgerCovered(store)
             /\ cmd'.st.at \cup cmd'.st.base \subseteq Records(cmd'.st)
  <2>1. LedgerCovered(store)
    BY <1>2, <1>3, <1>4, HonestStores
  <2>2. /\ loaded(store).at = store.at /\ loaded(store).base \subseteq store.base
        /\ Records(loaded(store)) = Records(store)
    BY LoadedTyped, LoadedSame DEF Honest, Parts
  <2> QED
    BY <1>2, <2>1, <2>2 DEF Honest, LocksAgree
<1>5. LocksAgree'
  BY <1>1, <1>2, <1>4, HonestStores DEF Honest, LocksAgree
<1>6. DigestsAgree'
  BY <1>1, <1>2 DEF Honest, DigestsAgree
<1> QED
  BY <1>5, <1>6 DEF Agree

LEMMA CrossDigestAgrees ==
  ASSUME Honest, CrossDigest, budget'.lapses = 0
  PROVE  Agree'
<1> USE DEF Saving, Crossing, Locking, Unlocking
<1>1. /\ Here' = Here /\ Locked' = Locked /\ \A d \in Claims : ThreadsOf(d)' = ThreadsOf(d)
      /\ UNCHANGED <<claim, store>> /\ cmd.at = "cross.digest" /\ Here \subseteq Claims
  BY HereTyped DEF Here, Locked, ThreadsOf, CrossDigest, Honest
<1>2. /\ digests'.here /\ digests'.entry = digests.entry
      /\ cmd'.at = "cross.save" /\ cmd'.id = cmd.id /\ cmd'.st = cmd.st
  BY CrossDigestStep DEF Honest
<1>3. PreLedger(store) /\ \A c \in Claims : digests.entry[c] = None
  BY <1>1, HonestStores, NoDigestsTyped DEF Honest, LocksAgree
<1>4. LocksAgree'
  BY <1>1, <1>2, <1>3, HonestStores DEF Honest, LocksAgree
<1>5. DigestsAgree'
  BY <1>1, <1>2 DEF Honest, DigestsAgree
<1> QED
  BY <1>4, <1>5 DEF Agree

LEMMA CrossSaveAgrees ==
  ASSUME Honest, Parts', CrossSave
  PROVE  Agree'
<1> USE DEF Saving, Crossing, Locking, Unlocking
<1>1. /\ Here' = Here /\ Locked' = Locked /\ \A d \in Claims : ThreadsOf(d)' = ThreadsOf(d)
      /\ claim' = claim /\ cmd.at = "cross.save" /\ cmd.id \in Here /\ Here \subseteq Claims
      /\ \A c \in Claims : cmd.st.rec[c] = store.rec[c]
  BY HereTyped DEF Here, Locked, ThreadsOf, CrossSave, Honest, RecordsKept
<1>2. /\ PreLedger(store) /\ Locked = {} /\ \A c \in Claims : digests.entry[c] = None
      /\ digests.here /\ Records(store) = {}
  BY <1>1, HonestStores DEF Honest, LocksAgree
<1>3. \A c \in Claims : store.rec[c] = "none" /\ cmd.st.rec[c] = "none"
  BY <1>1, <1>2 DEF Records
<1>4. CASE store' = store /\ digests' = NoDigests /\ cmd' = Idle
  <2>1. LocksAgree'
    BY <1>1, <1>2, <1>4, IdleTyped, NoDigestsTyped, HonestStores DEF Honest, LocksAgree
  <2>2. DigestsAgree'
    BY <1>1, <1>2, <1>4, IdleTyped, NoDigestsTyped DEF Honest, DigestsAgree
  <2> QED
    BY <2>1, <2>2 DEF Agree
<1>5. CASE /\ store' = Saved(Crossed(cmd.st)) /\ digests' = digests
           /\ \/ cmd' = Idle
              \/ cmd'.at = "lock.claim" /\ cmd'.id = cmd.id /\ cmd'.st = Crossed(cmd.st)
  <2>1. /\ store'.here /\ store'.version = 3 /\ store'.rec = cmd.st.rec /\ store'.at = {} /\ store'.base = {}
        /\ Crossed(cmd.st).at = {} /\ Crossed(cmd.st).base = {}
    BY <1>5, SavedTyped, CrossedTyped DEF Honest, Parts, Commands, storeSchemaVersion
  <2>2. ~PreLedger(store') /\ LedgerCovered(store') /\ \A c \in Claims : ~Standing(store', c)
    BY <1>3, <2>1 DEF PreLedger, LedgerCovered, Standing, ledgerSchemaVersion
  <2>3. LocksAgree'
    BY <1>1, <1>2, <1>5, <2>1, <2>2, IdleTyped DEF LocksAgree
  <2>4. DigestsAgree'
    BY <1>1, <1>2, <1>5, <2>1, <2>2, IdleTyped DEF Honest, DigestsAgree
  <2> QED
    BY <2>3, <2>4 DEF Agree
<1> QED
  BY <1>1, <1>4, <1>5, CrossSaveStep DEF Honest

LEMMA LockClaimAgrees ==
  ASSUME Honest, LockClaim
  PROVE  Agree'
<1> USE DEF Saving, Crossing, Locking, Unlocking
<1>1. /\ store' = store /\ digests' = digests /\ cmd.at = "lock.claim" /\ cmd.id \in Here /\ Here \subseteq Claims
  BY HereTyped DEF LockClaim, Honest, RecordsKept
<1>2. /\ Here' = Here /\ Locked' = Locked \cup {cmd.id}
      /\ \A c \in Here : ThreadsOf(c)' = ThreadsOf(c)
      /\ cmd'.at = "lock.digest" /\ cmd'.id = cmd.id /\ cmd'.st = cmd.st
  BY <1>1, LockClaimStep DEF Honest, ThreadsOf
<1>3. LocksAgree'
  BY <1>1, <1>2, HonestStores DEF Honest, LocksAgree
<1>4. DigestsAgree'
  BY <1>1, <1>2 DEF Honest, DigestsAgree
<1> QED
  BY <1>3, <1>4 DEF Agree

LEMMA LockDigestAgrees ==
  ASSUME Honest, LockDigest, budget'.lapses = 0
  PROVE  Agree'
<1> USE DEF Saving, Crossing, Locking, Unlocking
<1>1. /\ Here' = Here /\ Locked' = Locked /\ \A d \in Claims : ThreadsOf(d)' = ThreadsOf(d)
      /\ UNCHANGED <<claim, store>> /\ cmd.at = "lock.digest" /\ cmd.id \in Here /\ Here \subseteq Claims
      /\ ThreadsOf(cmd.id) \in Threads
  BY HereTyped DEF Here, Locked, ThreadsOf, LockDigest, Honest, RecordsKept
<1>2. /\ cmd'.at = "lock.save" /\ cmd'.id = cmd.id /\ cmd'.st.version = cmd.st.version
      /\ \A c \in Claims : cmd'.st.rec[c] = IF c = cmd.id THEN "standing" ELSE cmd.st.rec[c]
      /\ cmd'.st.at = cmd.st.at \cup {cmd.id}
      /\ cmd'.st.base = cmd.st.base \cup (Dependent \cap {cmd.id})
      /\ digests'.here
      /\ \A c \in Claims : digests'.entry[c] = IF c = cmd.id THEN ThreadsOf(cmd.id) ELSE digests.entry[c]
  BY <1>1, LockDigestStep DEF Honest
<1>3. LedgerCovered(store) /\ cmd.id \in Locked /\ ~PreLedger(store)
  BY <1>1, HonestStores DEF Honest, LocksAgree
<1>4. cmd'.st.at \cup cmd'.st.base \subseteq Records(cmd'.st)
  <2>1. cmd.st.at \cup cmd.st.base \subseteq Records(cmd.st)
    BY <1>1, <1>3, HonestStores DEF Honest, LocksAgree
  <2>2. Records(cmd'.st) = Records(cmd.st) \cup {cmd.id}
    BY <1>1, <1>2 DEF Records
  <2> QED
    BY <1>2, <2>1, <2>2
<1>5. LocksAgree'
  BY <1>1, <1>2, <1>3, <1>4 DEF Honest, LocksAgree
<1>6. ThreadsOf(cmd.id) # None
  BY <1>1, NoneAssumption DEF Threads
<1>7. DigestsAgree'
  BY <1>1, <1>2, <1>6 DEF Honest, DigestsAgree
<1> QED
  BY <1>5, <1>7 DEF Agree

LEMMA LockSaveAgrees ==
  ASSUME Honest, LockSave, budget'.faults # 0 => PreLedger(store)
  PROVE  Agree'
<1> USE DEF Saving, Crossing, Locking, Unlocking
<1>1. cmd.at = "lock.save" /\ cmd.id \in Here /\ Here \subseteq Claims /\ Standing(cmd.st, cmd.id)
  BY HereTyped DEF LockSave, Honest, RecordsKept
<1>2. LedgerCovered(store) /\ cmd.id \in Locked /\ ~PreLedger(store)
  BY <1>1, HonestStores DEF Honest, LocksAgree
<1>3. /\ cmd' = Idle /\ store' = Saved(cmd.st) /\ UNCHANGED <<claim, digests>>
  BY <1>1, <1>2, LockSaveStep DEF Honest
<1>4. /\ Here' = Here /\ Locked' = Locked /\ \A d \in Claims : ThreadsOf(d)' = ThreadsOf(d)
  BY <1>3 DEF Here, Locked, ThreadsOf
<1>5. /\ store'.here /\ store'.version = cmd.st.version /\ store'.rec = cmd.st.rec
      /\ store'.at = cmd.st.at /\ store'.base = cmd.st.base /\ Records(store') = Records(cmd.st)
  BY <1>3, SavedTyped DEF Honest, Parts, Commands, Records
<1>6. /\ LedgerCovered(store') /\ ~PreLedger(store')
      /\ store'.at \cup store'.base \subseteq Records(store')
  BY <1>1, <1>2, <1>5, HonestStores DEF Honest, LocksAgree, LedgerCovered, PreLedger
<1>7. \A c \in Claims : c # cmd.id => cmd.st.rec[c] = store.rec[c]
  BY <1>1 DEF Honest, RecordsKept
<1>8. \A c \in Claims : c \in Locked <=> Standing(store', c)
  BY <1>1, <1>2, <1>5, <1>7 DEF Honest, LocksAgree, Standing
<1>9. digests.here
  BY <1>2 DEF Honest, LocksAgree
<1>10. LocksAgree'
  BY <1>3, <1>4, <1>6, <1>8, <1>9, IdleTyped DEF LocksAgree
<1>11. DigestsAgree'
  BY <1>1, <1>3, <1>4, <1>5, <1>7, IdleTyped DEF Honest, DigestsAgree, Standing
<1> QED
  BY <1>10, <1>11 DEF Agree

LEMMA UnlockMigratedAgrees ==
  ASSUME Honest, Parts', UnlockMigrated, budget'.lapses = 0
  PROVE  Agree'
<1> USE DEF Saving, Crossing, Locking, Unlocking
<1>1. /\ Here' = Here /\ Locked' = Locked /\ \A d \in Claims : ThreadsOf(d)' = ThreadsOf(d)
      /\ claim' = claim /\ cmd.at = "unlock.save" /\ cmd.id \in Here /\ Here \subseteq Claims
      /\ \A c \in Claims : cmd.st.rec[c] = store.rec[c]
  BY HereTyped DEF Here, Locked, ThreadsOf, UnlockMigrated, Honest, RecordsKept
<1>2. store.here /\ cmd.st.here
  BY <1>1, HonestStores
<1>3. /\ digests'.entry = digests.entry /\ (digests'.here <=> digests.here)
      /\ \/ store' = store /\ digests' = digests /\ cmd' = Idle
         \/ /\ store' = store \/ store' = Saved(cmd.st)
            /\ cmd'.at = "unlock.claim" /\ cmd'.id = cmd.id /\ cmd'.st = cmd.st
  BY <1>1, <1>2, UnlockMigratedStep DEF Honest
<1>4. CASE store' = store /\ digests' = digests /\ cmd' = Idle
  BY <1>1, <1>4, IdleTyped, NothingWrittenAgrees
<1>5. CASE /\ store' = store \/ store' = Saved(cmd.st)
           /\ cmd'.at = "unlock.claim" /\ cmd'.id = cmd.id /\ cmd'.st = cmd.st
  <2>1. Records(cmd.st) = Records(store)
    BY <1>1 DEF Records
  <2>2. ~PreLedger(store) => cmd.st.at \cup cmd.st.base \subseteq Records(store)
    BY <1>1, <2>1, HonestStores DEF Honest, LocksAgree
  <2>3. PreLedger(store) => Records(store) = {} /\ ~store.key /\ digests = NoDigests
    BY <1>1 DEF Honest, LocksAgree
  <2>4. /\ store'.here /\ Records(store') = Records(store)
        /\ \A c \in Claims : store'.rec[c] = store.rec[c]
        /\ PreLedger(store') <=> PreLedger(store)
        /\ LedgerCovered(store') <=> ~PreLedger(store)
        /\ ~PreLedger(store) => store'.at \cup store'.base \subseteq Records(store)
        /\ PreLedger(store) => ~store'.key
    <3>1. CASE store' = store
      BY <1>2, <2>3, <3>1, HonestStores DEF Honest, LocksAgree
    <3>2. CASE store' = Saved(cmd.st)
      <4>1. /\ store'.here /\ store'.version = cmd.st.version /\ store'.rec = cmd.st.rec
            /\ store'.at = cmd.st.at /\ store'.base = cmd.st.base /\ store'.key = (Records(cmd.st) # {})
        BY <3>2, SavedTyped DEF Honest, Parts, Commands
      <4>2. Records(store') = Records(cmd.st)
        BY <4>1 DEF Records
      <4>3. /\ PreLedger(store') <=> PreLedger(store)
            /\ LedgerCovered(store') <=> ~PreLedger(store)
        BY <1>1, <1>2, <4>1, HonestStores DEF PreLedger, LedgerCovered
      <4> QED
        BY <1>1, <2>1, <2>2, <2>3, <4>1, <4>2, <4>3
    <3> QED
      BY <1>5, <3>1, <3>2
  <2>5. PreLedger(store) => digests' = NoDigests
    BY <1>3, <2>3, NoDigestsTyped DEF Parts, Sound
  <2>6. ~PreLedger(store) => digests'.here
    BY <1>1, <1>2, <1>3, HonestStores DEF Honest, LocksAgree
  <2>7. \A c \in Claims : ~PreLedger(store) => (c \in Locked <=> Standing(store', c))
    BY <1>1, <1>2, <2>4, HonestStores DEF Honest, LocksAgree, Standing
  <2>8. LocksAgree'
    BY <1>1, <1>5, <2>1, <2>2, <2>3, <2>4, <2>5, <2>6, <2>7, HonestStores DEF LocksAgree
  <2>9. DigestsAgree'
    BY <1>1, <1>3, <1>5, <2>4 DEF Honest, DigestsAgree, Standing
  <2> QED
    BY <2>8, <2>9 DEF Agree
<1> QED
  BY <1>3, <1>4, <1>5

LEMMA UnlockClaimAgrees ==
  ASSUME Honest, UnlockClaim
  PROVE  Agree'
<1> USE DEF Saving, Crossing, Locking, Unlocking
<1>1. /\ UNCHANGED <<store, digests>> /\ cmd.at = "unlock.claim" /\ cmd.id \in Here /\ Here \subseteq Claims
  BY HereTyped DEF UnlockClaim, Honest, RecordsKept
<1>2. /\ Here' = Here /\ Locked' = Locked \ {cmd.id} /\ \A c \in Here : ThreadsOf(c)' = ThreadsOf(c)
      /\ cmd'.at = "release.save" /\ cmd'.id = cmd.id /\ cmd'.st.version = cmd.st.version
      /\ cmd'.st.at = cmd.st.at /\ cmd'.st.base = cmd.st.base
      /\ \A c \in Claims : cmd'.st.rec[c]
            = IF c = cmd.id /\ cmd.st.rec[c] # "none" THEN "released" ELSE cmd.st.rec[c]
  BY <1>1, UnlockClaimStep DEF Honest, ThreadsOf
<1>3. Records(cmd'.st) = Records(cmd.st)
  BY <1>2 DEF Records
<1>4. LocksAgree'
  BY <1>1, <1>2, <1>3, HonestStores DEF Honest, LocksAgree
<1>5. DigestsAgree'
  BY <1>1, <1>2 DEF Honest, DigestsAgree
<1> QED
  BY <1>4, <1>5 DEF Agree

LEMMA RoofSweepAgrees ==
  ASSUME Honest, RoofSweep, budget'.lapses = 0
  PROVE  Agree'
<1> USE DEF Saving, Crossing, Locking, Unlocking
<1>1. /\ Here' = Here /\ Locked' = Locked /\ \A d \in Claims : ThreadsOf(d)' = ThreadsOf(d)
      /\ UNCHANGED <<claim, store>> /\ cmd.at = "idle" /\ Here \subseteq Claims
  BY HereTyped DEF Here, Locked, ThreadsOf, RoofSweep, Begin, Honest
<1>2. /\ cmd'.at = "roof.save" /\ cmd'.id = None
      /\ cmd'.st.here = store.here /\ cmd'.st.version = store.version /\ cmd'.st.rec = store.rec
      /\ cmd'.st.at = store.at /\ cmd'.st.base \subseteq store.base
      /\ \/ (LedgerCovered(store) \/ PreLedger(store)) /\ digests' = digests
         \/ /\ ~LedgerCovered(store) /\ ~PreLedger(store)
            /\ digests' = SweepCommentDigests(loaded(store), FALSE)
  BY RoofSweepStep, LoadedTyped DEF Honest, Parts
<1>3. /\ digests.here => digests'.here
      /\ PreLedger(store) => digests' = digests
      /\ ~PreLedger(store) => digests'.here
      /\ \A d \in Here : \/ digests'.entry[d] = digests.entry[d]
                         \/ digests.entry[d] = None /\ digests'.entry[d] = ThreadsOf(d)
      /\ \A d \in Claims \ Here : digests'.entry[d] \in {None, digests.entry[d]}
  <2>1. PICK dg : dg = SweepCommentDigests(loaded(store), FALSE)
    OBVIOUS
  <2>2. /\ digests.here => dg.here
        /\ ~PreLedger(store) => dg.here
        /\ \A d \in Here : \/ dg.entry[d] = digests.entry[d]
                           \/ digests.entry[d] = None /\ dg.entry[d] = ThreadsOf(d)
        /\ \A d \in Claims \ Here : dg.entry[d] \in {None, digests.entry[d]}
    <3>1. PreLedger(loaded(store)) = PreLedger(store) /\ Typed /\ FALSE \in BOOLEAN
      BY TypedParts, LoadedSame DEF Honest, Parts
    <3> QED
      BY <2>1, <3>1, SweepTyped
  <2>3. LedgerCovered(store) => digests.here
    BY DEF Honest, LocksAgree
  <2> QED
    BY <1>2, <2>1, <2>2, <2>3
<1>4. ~PreLedger(store) => cmd'.st.at \cup cmd'.st.base \subseteq Records(cmd'.st)
  <2>1. Records(cmd'.st) = Records(store)
    BY <1>2 DEF Records
  <2>2. CASE store.here
    BY <1>2, <2>1, <2>2, HonestStores DEF Honest, LocksAgree
  <2>3. CASE ~store.here
    BY <1>2, <2>3, HonestStores
  <2> QED
    BY <2>2, <2>3
<1>5. cmd'.st.version >= ledgerSchemaVersion => ~PreLedger(store)
  BY <1>2, HonestStores
<1>6. LocksAgree'
  BY <1>1, <1>2, <1>3, <1>4, <1>5 DEF Honest, LocksAgree
<1>7. DigestsAgree'
  BY <1>1, <1>2, <1>3 DEF Honest, DigestsAgree
<1> QED
  BY <1>6, <1>7 DEF Agree

LEMMA CommentAgrees ==
  ASSUME Honest, NEW c \in Claims, NEW op \in CommentOp, Comment(c, op)
  PROVE  Agree'
<1>1. /\ UNCHANGED <<store, digests>> /\ cmd.at = "idle" /\ Here \subseteq Claims
  BY HereTyped DEF Comment, Honest
<1>2. /\ Here' = Here /\ Locked' = Locked
      /\ \A d \in Here : d # c => ThreadsOf(d)' = ThreadsOf(d)
      /\ cmd'.at = "comment.digest" /\ cmd'.id = c /\ cmd'.st = store
  BY CommentStep DEF Honest, ThreadsOf
<1>3. LocksAgree'
  BY <1>1, <1>2 DEF Honest, LocksAgree, Saving, Crossing, Locking, Unlocking
<1>4. DigestsAgree'
  BY <1>1, <1>2 DEF Honest, DigestsAgree
<1> QED
  BY <1>3, <1>4 DEF Agree

LEMMA CommentDigestAgrees ==
  ASSUME Honest, CommentDigest, budget'.lapses = 0, unseen' = {}
  PROVE  Agree'
<1>1. /\ Here' = Here /\ Locked' = Locked /\ \A d \in Claims : ThreadsOf(d)' = ThreadsOf(d)
      /\ UNCHANGED <<claim, store>> /\ cmd.at = "comment.digest" /\ cmd.id \in Here /\ Here \subseteq Claims
      /\ cmd.st = store /\ ThreadsOf(cmd.id) \in Threads
  BY HereTyped DEF Here, Locked, ThreadsOf, CommentDigest, Honest, RecordsKept, DigestsAgree
<1>2. /\ cmd' = Idle /\ digests'.here
      /\ ~PreLedger(store) \/ digests.here
      /\ digests'.entry[cmd.id] = ThreadsOf(cmd.id)
      /\ \A c \in Here : \/ digests'.entry[c] = digests.entry[c]
                         \/ digests'.entry[c] = ThreadsOf(c) /\ (digests.entry[c] = None \/ c = cmd.id)
      /\ \A c \in Claims \ Here : digests'.entry[c] = digests.entry[c]
  BY <1>1, CommentDigestStep DEF Honest
<1>3. ~PreLedger(store)
  BY <1>1, <1>2, NoDigestsTyped DEF Honest, LocksAgree
<1>4. LocksAgree'
  BY <1>1, <1>2, <1>3, IdleTyped DEF Honest, LocksAgree, Saving, Crossing, Locking, Unlocking
<1>5. ThreadsOf(cmd.id) # None
  BY <1>1, NoneAssumption DEF Threads
<1>6. DigestsAgree'
  BY <1>1, <1>2, <1>5, IdleTyped DEF Honest, DigestsAgree
<1> QED
  BY <1>4, <1>6 DEF Agree

LEMMA DraftAgrees ==
  ASSUME Honest, NEW c \in Claims, DeleteClaim(c) \/ CreateClaim(c)
  PROVE  Agree'
<1>1. UNCHANGED <<store, digests, cmd>> /\ cmd.at = "idle" /\ Here \subseteq Claims
  BY HereTyped DEF DeleteClaim, CreateClaim, Honest
<1>2. Locked' = Locked
  BY DraftStep DEF Honest
<1>3. LocksAgree'
  BY <1>1, <1>2 DEF Honest, LocksAgree, Saving, Crossing, Locking, Unlocking
<1>4. CASE DeleteClaim(c)
  <2>1. Here' = Here \ {c} /\ \A d \in Here' : ThreadsOf(d)' = ThreadsOf(d)
    BY <1>4, DraftStep DEF Honest, ThreadsOf
  <2>2. digests.entry[c] \in {None, "none"} \/ store.rec[c] = "released"
    BY <1>4 DEF DeleteClaim, commentDigestReleased
  <2>3. DigestsAgree'
    BY <1>1, <2>1, <2>2 DEF Honest, DigestsAgree
  <2> QED
    BY <1>3, <2>3 DEF Agree
<1>5. CASE CreateClaim(c)
  <2>1. /\ Here' = Here \cup {c} /\ c \notin Here /\ digests.entry[c] \in {None, "none"}
        /\ ThreadsOf(c)' = "none" /\ \A d \in Here : ThreadsOf(d)' = ThreadsOf(d)
    BY <1>5, DraftStep DEF Honest, ThreadsOf, CreateClaim
  <2>2. ~Standing(store, c)
    <3>1. c \notin Locked
      BY <2>1 DEF Locked
    <3>2. CASE PreLedger(store) \/ ~store.here
      BY <3>2, HonestStores DEF Honest, LocksAgree, Records, Standing
    <3>3. CASE LedgerCovered(store)
      BY <1>1, <3>1, <3>3 DEF Honest, LocksAgree, Locking
    <3> QED
      BY <3>2, <3>3, HonestStores
  <2>3. DigestsAgree'
    BY <1>1, <2>1, <2>2 DEF Honest, DigestsAgree
  <2> QED
    BY <1>3, <2>3 DEF Agree
<1> QED
  BY <1>4, <1>5

LEMMA CleanBefore ==
  ASSUME SInv, Next, Clean'
  PROVE  /\ Clean /\ Honest /\ budget'.lapses = 0 /\ unseen' = {}
         /\ budget'.faults # 0 => PreLedger(store)
<1>1. Parts /\ RecordsKept /\ AbsentEmpty /\ VersionsKept
  BY TypedParts DEF SInv
<1>2. /\ budget'.kills = 0 /\ budget'.tampers = 0 /\ budget'.lapses = 0 /\ unseen' = {}
      /\ budget'.faults = 0 \/ PreLedger(store')
  BY DEF Clean, Untouched
<1>3. /\ budget.kills = 0 /\ budget.tampers = 0 /\ budget.lapses = 0
      /\ budget'.faults = 0 => budget.faults = 0
  BY <1>1, <1>2, BudgetNext
<1>4. unseen \subseteq unseen'
  BY DEF Next, Engine, Outside, CheckPrepare, Prepare, CheckSave, Ensure, LockBegin, CrossDigest,
     CrossSave, LockClaim, LockDigest, LockSave, UnlockPrepare, UnlockMigrated, UnlockClaim, UnlockSave,
     RoofSweep, RoofSave, Comment, CommentDigest, DeleteClaim, CreateClaim, FlipLocked, LowerVersion, NewerEngine, Kill
<1>5. PreLedger(store') => PreLedger(store)
  <2>1. /\ cmd.st \in Stores /\ Crossed(cmd.st) \in Stores /\ Crossed(cmd.st).version = 3
        /\ Saved(cmd.st).version = cmd.st.version /\ Saved(Crossed(cmd.st)).version = 3
        /\ ledgerSchemaVersion = 2
    BY <1>1, SavedTyped, CrossedTyped DEF Parts, Commands, storeSchemaVersion, ledgerSchemaVersion
  <2>2. CASE Kept
    BY <2>2 DEF Kept
  <2>3. CASE SavedBy(cmd.st)
    BY <1>1, <1>3, <2>1, <2>3 DEF SavedBy, VersionsKept, PreLedger
  <2>4. CASE SavedBy(Crossed(cmd.st))
    BY <2>1, <2>4 DEF SavedBy, PreLedger
  <2>5. ~ByHand
    BY <1>2 DEF ByHand
  <2> QED
    BY <1>1, <2>2, <2>3, <2>4, <2>5, WritesNext
<1>6. Clean
  BY <1>2, <1>3, <1>4, <1>5 DEF Clean, Untouched
<1>7. LocksAgree /\ DigestsAgree
  BY <1>6 DEF SInv
<1> QED
  BY <1>1, <1>2, <1>3, <1>5, <1>6, <1>7 DEF Honest

LEMMA AgreesNext ==
  ASSUME SInv, Next, Clean'
  PROVE  Agree'
<1>1. /\ Honest /\ budget'.lapses = 0 /\ unseen' = {}
      /\ budget'.faults # 0 => PreLedger(store)
      /\ budget'.tampers = 0 /\ budget'.kills = 0
  BY CleanBefore DEF Clean, Untouched
<1>2. Parts'
  BY <1>1, WritesNext DEF Honest
<1>3. ASSUME NEW l \in {"save", "unlock.save"}, NEW c \in Claims \cup {None}, Prepare(l, c), cmd.at = "idle"
      PROVE  Agree'
  BY <1>1, <1>3, PrepareAgrees
<1>4. CASE CheckPrepare \/ \E c \in Claims : UnlockPrepare(c)
  BY <1>3, <1>4 DEF CheckPrepare, UnlockPrepare, Begin
<1>5. CASE CheckSave
  <2>1. cmd.at = "save" /\ UNCHANGED <<claim, digests>>
    BY <1>5 DEF CheckSave
  <2>2. CASE store' = store /\ cmd' = Idle
    BY <1>1, <2>1, <2>2, IdleTyped, NothingWrittenAgrees
  <2>3. CASE cmd.st # loaded(store) /\ SaveThenEnd(cmd.st)
    <3>1. store.here
      BY <1>1, <2>1, <2>3, LoadedTyped DEF Honest, LocksAgree, Parts
    <3>2. cmd.st \in Stores /\ Parts
      BY <1>1 DEF Honest, Parts, Commands
    <3>3. /\ store' = Saved(cmd.st) /\ cmd'.at \in {"idle", "ensure"}
          /\ cmd'.at = "ensure" => ~cmd.st.here
      BY <2>3, <3>2, SaveThenEndStep
    <3> QED
      BY <1>1, <1>2, <2>1, <3>1, <3>3, SavedAgrees
  <2> QED
    BY <1>5, <2>2, <2>3 DEF CheckSave, Return
<1>6. CASE UnlockSave \/ RoofSave
  <2>1. cmd.at \in {"release.save", "roof.save"} /\ UNCHANGED <<claim, digests>> /\ cmd.st \in Stores /\ Parts
    BY <1>1, <1>6 DEF UnlockSave, RoofSave, Honest, Parts, Commands
  <2>2. CASE Fault /\ store' = store /\ cmd' = Idle
    <3>1. PreLedger(store)
      BY <1>1, <2>1, <2>2, BudgetSpent DEF Parts
    <3> QED
      BY <1>1, <2>1, <2>2, <3>1, IdleTyped, NothingWrittenAgrees
  <2>3. CASE SaveThenEnd(cmd.st)
    <3>1. /\ store' = Saved(cmd.st) /\ cmd'.at \in {"idle", "ensure"}
          /\ cmd'.at = "ensure" => ~cmd.st.here
      BY <2>1, <2>3, SaveThenEndStep
    <3> QED
      BY <1>1, <1>2, <2>1, <3>1, SavedAgrees
  <2> QED
    BY <1>6, <2>2, <2>3 DEF UnlockSave, RoofSave, Return
<1>7. CASE \E c \in Claims : FlipLocked(c)
  BY <1>1, <1>7, TamperStep DEF Honest
<1>8. CASE (\E v \in {0, 1} : LowerVersion(v)) \/ NewerEngine
  BY <1>1, <1>8, TamperStep DEF Honest
<1>9. CASE Kill
  BY <1>1, <1>9, KillStep DEF Honest
<1>10. CASE \E c \in Claims : DeleteClaim(c) \/ CreateClaim(c)
  BY <1>1, <1>10, DraftAgrees
<1>11. CASE Ensure
  BY <1>1, <1>11, EnsureAgrees
<1>12. CASE (\E c \in Claims : LockBegin(c)) \/ CrossDigest \/ CrossSave
  BY <1>1, <1>2, <1>12, LockBeginAgrees, CrossDigestAgrees, CrossSaveAgrees
<1>13. CASE LockClaim \/ LockDigest \/ LockSave
  BY <1>1, <1>13, LockClaimAgrees, LockDigestAgrees, LockSaveAgrees
<1>14. CASE UnlockMigrated \/ UnlockClaim \/ RoofSweep
  BY <1>1, <1>2, <1>14, UnlockMigratedAgrees, UnlockClaimAgrees, RoofSweepAgrees
<1>15. CASE (\E c \in Claims, op \in CommentOp : Comment(c, op)) \/ CommentDigest
  BY <1>1, <1>15, CommentAgrees, CommentDigestAgrees
<1> QED
  BY <1>4, <1>5, <1>6, <1>7, <1>8, <1>9, <1>10, <1>11, <1>12, <1>13, <1>14, <1>15 DEF Next, Engine, Outside

-----------------------------------------------------------------------------
(* The invariant. *)

LEMMA InitSInv == Init => SInv
<1> SUFFICES ASSUME Init PROVE SInv
  OBVIOUS
<1>1. PICK L \in SUBSET Claims :
        /\ claim = [c \in Claims |-> [locked |-> c \in L, threads |-> "none"]]
        /\ \/ store = emptyStore /\ L = {}
           \/ \E old \in {0, 1}, roof \in BOOLEAN, base \in SUBSET L :
                 store = [emptyStore EXCEPT !.here = TRUE, !.version = old, !.at = L, !.roof = roof, !.base = base]
  <2>1. PICK old \in {None, 0, 1} : \E L \in SUBSET Claims : \E roof \in BOOLEAN :
          /\ claim = [c \in Claims |-> [locked |-> c \in L, threads |-> "none"]]
          /\ IF old = None THEN store = emptyStore /\ L = {} /\ ~roof
             ELSE store = [emptyStore EXCEPT !.here = TRUE, !.version = old, !.at = L, !.roof = roof,
                                             !.base = IF old = 1 THEN L \cap Dependent ELSE {}]
    BY DEF Init
  <2>2. PICK L \in SUBSET Claims : \E roof \in BOOLEAN :
          /\ claim = [c \in Claims |-> [locked |-> c \in L, threads |-> "none"]]
          /\ IF old = None THEN store = emptyStore /\ L = {} /\ ~roof
             ELSE store = [emptyStore EXCEPT !.here = TRUE, !.version = old, !.at = L, !.roof = roof,
                                             !.base = IF old = 1 THEN L \cap Dependent ELSE {}]
    BY <2>1
  <2>3. PICK roof \in BOOLEAN :
          /\ claim = [c \in Claims |-> [locked |-> c \in L, threads |-> "none"]]
          /\ IF old = None THEN store = emptyStore /\ L = {} /\ ~roof
             ELSE store = [emptyStore EXCEPT !.here = TRUE, !.version = old, !.at = L, !.roof = roof,
                                             !.base = IF old = 1 THEN L \cap Dependent ELSE {}]
    BY <2>2
  <2>4. (IF old = 1 THEN L \cap Dependent ELSE {}) \in SUBSET L
    OBVIOUS
  <2> QED
    BY <2>3, <2>4
<1>2. /\ digests = NoDigests /\ cmd = Idle /\ lowered = FALSE /\ unseen = {} /\ signed = {}
      /\ budget = [comments |-> 0, faults |-> 0, lapses |-> 0, kills |-> 0, tampers |-> 0]
  BY DEF Init
<1>3. /\ store \in Stores /\ ~store.key /\ \A c \in Claims : store.rec[c] = "none"
      /\ \/ store = emptyStore /\ L = {} /\ ~store.here /\ store.version = 3
         \/ store.here /\ store.version \in {0, 1}
  <2>1. CASE store = emptyStore /\ L = {}
    BY <2>1, EmptyTyped DEF storeSchemaVersion
  <2>2. ASSUME NEW old \in {0, 1}, NEW roof \in BOOLEAN, NEW base \in SUBSET L,
               store = [emptyStore EXCEPT !.here = TRUE, !.version = old, !.at = L, !.roof = roof, !.base = base]
        PROVE  /\ store \in Stores /\ ~store.key /\ \A c \in Claims : store.rec[c] = "none"
               /\ store.here /\ store.version \in {0, 1}
    <3>1. old \in 0..(briefsSchemaVersion + 1)
      BY DEF briefsSchemaVersion
    <3> QED
      BY <2>2, <3>1, EmptyTyped DEF Stores
  <2> QED
    BY <1>1, <2>1, <2>2
<1>4. /\ claim \in Files /\ Here = Claims /\ Locked = L
      /\ \A c \in Claims : ThreadsOf(c) = "none"
  <2>1. \A c \in Claims : claim[c] = [locked |-> c \in L, threads |-> "none"]
    BY <1>1
  <2>2. ASSUME NEW c \in Claims
        PROVE  /\ claim[c] \in [locked: BOOLEAN, threads: Threads]
               /\ claim[c].locked <=> c \in L
               /\ claim[c].threads = "none" /\ claim[c] # None
    <3>1. PICK b \in BOOLEAN : b = (c \in L)
      <4>1. CASE c \in L
        <5>1. TRUE = (c \in L)
          BY <4>1
        <5> QED
          BY <5>1
      <4>2. CASE c \notin L
        <5>1. FALSE = (c \in L)
          BY <4>2
        <5> QED
          BY <5>1
      <4> QED
        BY <4>1, <4>2
    <3>2. claim[c] = [locked |-> b, threads |-> "none"]
      BY <2>1, <3>1
    <3>3. /\ claim[c] \in [locked: BOOLEAN, threads: Threads]
          /\ claim[c].locked = b /\ claim[c].threads = "none"
      BY <3>2 DEF Threads
    <3> QED
      BY <3>1, <3>3, NoneAssumption DEF Threads
  <2>3. claim \in Files
    BY <1>1, <2>2 DEF Files
  <2>4. Here = Claims
    BY <2>2 DEF Here
  <2> QED
    BY <2>2, <2>3, <2>4 DEF Locked, ThreadsOf
<1>5. Bounded(budget) /\ budget.tampers = 0
  BY <1>2, SchemaAssumption DEF Bounded
<1>6. Parts
  BY <1>2, <1>3, <1>4, <1>5, IdleTyped, NoDigestsTyped DEF Parts
<1>7. Typed
  BY <1>6, TypedParts
<1> USE DEF Saving, Crossing, Locking, Unlocking
<1>8. RecordsKept /\ StandingSigned /\ AbsentEmpty
  BY <1>2, <1>3, IdleTyped DEF RecordsKept, StandingSigned, AbsentEmpty, Standing
<1>9. LoweredStays /\ BaselinesKept
  BY <1>2, IdleTyped DEF LoweredStays, BaselinesKept
<1>10. VersionsKept
  BY <1>2, <1>3, <1>4, IdleTyped DEF VersionsKept, storeSchemaVersion
<1>11. LocksAgree
  BY <1>2, <1>3, IdleTyped, NoDigestsTyped DEF LocksAgree, Records, LedgerCovered, ledgerSchemaVersion
<1>12. DigestsAgree
  BY <1>2, <1>3, <1>4, IdleTyped, NoDigestsTyped DEF DigestsAgree, Standing
<1> QED
  BY <1>7, <1>8, <1>9, <1>10, <1>11, <1>12 DEF SInv

LEMMA NextSInv == SInv /\ [Next]_vars => SInv'
<1>a. Parts => Typed
  BY TypedParts
<1>0. (Parts => Typed)'
  BY <1>a, PTL
<1>1. ASSUME SInv, Next PROVE SInv'
  <2>1. Parts /\ RecordsKept /\ StandingSigned /\ AbsentEmpty /\ LoweredStays /\ BaselinesKept /\ VersionsKept
    BY <1>1, TypedParts DEF SInv
  <2>2. Parts'
    BY <1>1, <2>1, WritesNext
  <2>4. Typed'
    BY <1>0, <2>2
  <2>5. /\ RecordsKept' /\ StandingSigned' /\ AbsentEmpty' /\ LoweredStays' /\ BaselinesKept' /\ VersionsKept'
    BY <1>1, <2>1, RecordsKeptNext, SignedNext, AbsentNext, LoweredNext, BaselinesNext, VersionsNext
  <2>6. Clean' => LocksAgree' /\ DigestsAgree'
    BY <1>1, AgreesNext DEF Agree
  <2> QED
    BY <2>4, <2>5, <2>6 DEF SInv
<1>2. ASSUME SInv, UNCHANGED vars PROVE SInv'
  BY <1>2 DEF vars, SInv, Typed, TypeOK, RecordsKept, StandingSigned, AbsentEmpty, LoweredStays, BaselinesKept,
     VersionsKept, Clean, Untouched, LocksAgree, DigestsAgree, Here, Locked, ThreadsOf
<1> QED
  BY <1>1, <1>2

\* Every file and counter keeps its type; a record stands only of a lock that was asked for; a
\* lowered store stays old with its digests beside it; no command in flight would write a
\* baseline, a record or a version it should not (PrepareStore, CrossPreLedger, policyLock,
\* unlock); and where nothing was disturbed, statuses, records, marks and digests agree.
THEOREM SchemaInvariance == Spec => []SInv
  BY InitSInv, NextSInv, PTL DEF Spec

\* No upgrade path launders: a version lowered by hand stays reported, and a locked claim whose
\* lock no human asked for is reported whatever version its store has, reached or pretends
\* (MigrateLegacyStore, CrossPreLedger, ledgerGate).
THEOREM NeverLaundered == Spec => []NothingLaundered
<1>1. ASSUME SInv PROVE DowngradeSticks
  BY <1>1 DEF SInv, LoweredStays, DowngradeSticks, StoreFindings, LedgerDowngraded, PreLedger
<1>2. ASSUME SInv, NEW c \in Locked \ signed PROVE ledgerGate # {}
  <2>1. c \in Here /\ c \in Claims /\ store.rec[c] \in {"none", "released"}
    BY <1>2, TypedParts, HereTyped DEF SInv, StandingSigned, Standing, Parts, Stores
  <2>2. CASE ~decodeStore(store)
    BY <2>2 DEF ledgerGate
  <2>3. CASE decodeStore(store) /\ store.rec[c] = "none" /\ PreLedgerUnadopted(store, digests)
    <3>1. "lock-ledger-pre-ledger" \in StoreFindings
      BY <1>2, <2>3 DEF StoreFindings
    <3> QED
      BY <2>3, <3>1 DEF ledgerGate
  <2>4. CASE decodeStore(store) /\ ~(store.rec[c] = "none" /\ PreLedgerUnadopted(store, digests))
    <3>1. LockFinding(c) # {}
      BY <1>2, <2>1, <2>4 DEF LockFinding
    <3>2. PICK r : r \in LockFinding(c)
      BY <3>1
    <3>3. r \in UNION {LockFinding(d) \cup CommentFinding(d) : d \in Here}
      BY <2>1, <3>2
    <3>4. r \in ledgerGate
      BY <2>4, <3>3, Zenon DEF ledgerGate
    <3> QED
      BY <3>4
  <2> QED
    BY <2>2, <2>3, <2>4
<1>3. SInv => NothingLaundered
  BY <1>1, <1>2 DEF NothingLaundered, NothingGrandfathered, SInv, Typed
<1> QED
  BY <1>3, SchemaInvariance, PTL

\* An honest project is never accused at any point of its upgrade, whatever commands ran and
\* whichever writes of a store before the ledger failed (ledgerGate, lock.Audit).
THEOREM HonestNotAccused == Spec => []NotAccused
<1>1. ASSUME SInv, Quiet, Clean PROVE ledgerGate \subseteq {"lock-ledger-pre-ledger"}
  <2>1. Honest /\ Here \subseteq Claims /\ Locked \subseteq Here
    BY <1>1, TypedParts, HereTyped DEF SInv, Clean, Untouched, Honest
  <2>2. cmd.at = "idle" /\ budget.tampers = 0
    BY <1>1 DEF Quiet, Clean, Untouched
  <2>3. decodeStore(store)
    <3>1. store.version \in 0..5 /\ store.version <= 3
      BY <2>1, <2>2, HonestStores DEF Honest, VersionsKept, storeSchemaVersion
    <3> QED
      BY <3>1 DEF decodeStore, briefsSchemaVersion
  <2>4. PreLedger(store) => ~LedgerDowngraded(store, digests) /\ PreLedgerUnadopted(store, digests)
    BY <2>1, <2>2, NoDigestsTyped DEF Honest, LocksAgree, LedgerDowngraded, PreLedgerUnadopted
  <2>5. \A c \in Claims : /\ PreLedger(store) \/ ~store.here => store.rec[c] = "none"
                          /\ ~PreLedger(store) => (c \in Locked <=> Standing(store, c))
                          /\ LedgerCovered(store) /\ store.rec[c] = "none" => ~engineLocked(store, c)
    <3>1. PreLedger(store) \/ ~store.here => \A c \in Claims : store.rec[c] = "none"
      BY <2>1, HonestStores DEF Honest, LocksAgree, Records
    <3>2. LedgerCovered(store) => /\ \A c \in Claims : c \in Locked <=> Standing(store, c)
                                  /\ store.at \cup store.base \subseteq Records(store)
      BY <2>1, <2>2 DEF Honest, LocksAgree, Locking
    <3> QED
      BY <2>1, <3>1, <3>2, HonestStores DEF Standing, Records, engineLocked
  <2>6. StoreFindings \subseteq {"lock-ledger-pre-ledger"}
    BY <2>1, <2>4, HonestStores DEF StoreFindings, Honest, LocksAgree, LedgerDowngraded
  <2>7. ASSUME NEW c \in Here PROVE LockFinding(c) = {}
    BY <2>1, <2>4, <2>5, HonestStores DEF LockFinding, Standing
  <2>8. ASSUME NEW c \in Here PROVE CommentFinding(c) = {}
    BY <2>1, <2>2 DEF CommentFinding, Honest, DigestsAgree
  <2>9. AbandonedCommentDigests(store, digests) = {}
    BY <2>1 DEF AbandonedCommentDigests, commentDigestReleased, Honest, DigestsAgree
  <2>10. \A c \in Claims \ Here : ~Standing(store, c)
    BY <2>1, <2>5 DEF Standing
  <2> QED
    BY <2>3, <2>6, <2>7, <2>8, <2>9, <2>10 DEF ledgerGate
<1>2. SInv => NotAccused
  BY <1>1 DEF NotAccused, Clean
<1> QED
  BY <1>2, SchemaInvariance, PTL

\* A store of a newer engine is left alone, and no store that a ledger engine has touched gets
\* its baselines re-armed from current content (ErrStoreTooNew, MigrateLegacyStore's third guard).
THEOREM StoresAreRespected == Spec => StoresRespected
<1>1. ASSUME SInv, Next
      PROVE  (Engine /\ store.version > briefsSchemaVersion /\ Quiet) => UNCHANGED <<claim, store, digests>>
  <2>1. store.version > briefsSchemaVersion => ~decodeStore(store)
    BY <1>1, EmptyTyped, TypedParts
    DEF SInv, AbsentEmpty, decodeStore, storeSchemaVersion, briefsSchemaVersion, Parts, Stores
  <2> QED
    BY <1>1, <2>1
    DEF Quiet, Engine, CheckPrepare, CheckSave, Ensure, LockBegin, CrossDigest, CrossSave, LockClaim, LockDigest,
        LockSave, UnlockPrepare, UnlockMigrated, UnlockClaim, UnlockSave, RoofSweep, RoofSave, Comment,
        CommentDigest, Begin
<1>2. ASSUME SInv, Next, LedgerEstablished(store, digests), ~LedgerCovered(store)
      PROVE  store'.base \ store.base \subseteq
                {c \in Claims : store'.rec[c] = "standing" /\ store.rec[c] # "standing"}
  <2>1. /\ Parts /\ RecordsKept /\ BaselinesKept /\ LedgerDowngraded(store, digests)
        /\ cmd.st \in Stores /\ Crossed(cmd.st) \in Stores
    BY <1>2, TypedParts, CrossedTyped DEF SInv, LedgerEstablished, Parts, Commands
  <2>2. CASE Kept
    BY <2>2 DEF Kept
  <2>3. CASE SavedBy(cmd.st)
    <3>1. store'.base = cmd.st.base /\ store'.rec = cmd.st.rec /\ cmd.at \in Saving
      BY <2>1, <2>3, SavedTyped DEF SavedBy
    <3>2. cmd.st.base \subseteq store.base \cup {c \in {cmd.id} : cmd.at = "lock.save"}
      BY <2>1, <3>1 DEF BaselinesKept
    <3>3. cmd.at = "lock.save" => /\ cmd.id \in Claims
                                  /\ cmd.st.rec[cmd.id] = "standing" /\ store.rec[cmd.id] # "standing"
      BY <2>1, HereTyped DEF RecordsKept, Locking, Standing
    <3> QED
      BY <3>1, <3>2, <3>3
  <2>4. CASE SavedBy(Crossed(cmd.st))
    BY <2>1, <2>4, SavedTyped, CrossedTyped DEF SavedBy
  <2>5. CASE ByHand
    BY <2>5 DEF ByHand
  <2> QED
    BY <1>2, <2>1, <2>2, <2>3, <2>4, <2>5, WritesNext
<1>3. SInv /\ [Next]_vars =>
        [(Engine /\ store.version > briefsSchemaVersion /\ Quiet) => UNCHANGED <<claim, store, digests>>]_vars
  BY <1>1
<1>4. SInv /\ [Next]_vars =>
        [(LedgerEstablished(store, digests) /\ ~LedgerCovered(store)) => store'.base \ store.base \subseteq
            {c \in Claims : store'.rec[c] = "standing" /\ store.rec[c] # "standing"}]_vars
  BY <1>2
<1>5. Spec => NewerUntouched
  BY <1>3, SchemaInvariance, PTL DEF Spec, NewerUntouched
<1>6. Spec => NoRearm
  BY <1>4, SchemaInvariance, PTL DEF Spec, NoRearm
<1> QED
  BY <1>5, <1>6 DEF StoresRespected
=============================================================================
