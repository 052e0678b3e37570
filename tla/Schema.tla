------------------------------- MODULE Schema --------------------------------
(***************************************************************************)
(* The lock store across its schema versions, and the comment digest store *)
(* that must stand beside it.                                              *)
(*                                                                         *)
(* A store written before the lock ledger (versions 0 and 1) is crossed    *)
(* onto it by the first lock of a project with nothing locked; a store of  *)
(* a newer engine is refused.  Whether a store that says it is old is to   *)
(* be believed is judged from evidence outside its version field.  The     *)
(* commands below hold the lock store's sentinel, so one runs at a time;   *)
(* each writes several files and may die, or fail, between any two.        *)
(***************************************************************************)
EXTENDS Naturals, FiniteSets

CONSTANTS
    Claims,      \* claim ids
    Dependent,   \* the claims that rest on another one
    MaxComments, \* bound on comment operations
    MaxFaults,   \* bound on failed writes of the lock store
    MaxLapses,   \* bound on digest writes that fail or time out on the sentinel
    MaxKills,    \* bound on killed commands
    MaxTampers,  \* bound on changes of the stores by hand
    None         \* absence of a value

ASSUME SchemaAssumption == Dependent \subseteq Claims /\ MaxComments \in Nat /\ MaxFaults \in Nat
                           /\ MaxLapses \in Nat /\ MaxKills \in Nat /\ MaxTampers \in Nat
ASSUME NoneAssumption == /\ None \notin Claims /\ None \notin {"none", "open", "resolved"}
                         /\ None \notin [locked: BOOLEAN, threads: {"none", "open", "resolved"}]

VARIABLES
    claim,    \* the claim files: status and threads, None when deleted
    store,    \* the lock store
    digests,  \* the comment digest store
    cmd,      \* the command in progress
    budget,   \* operations, faults, kills and tampers so far
    lowered,  \* history: the version was lowered by hand, and not restored
    unseen,   \* history: claims commented on while no digest could be recorded
    signed    \* history: the claims whose lock a human asked for and got

vars == <<claim, store, digests, cmd, budget, lowered, unseen, signed>>

-----------------------------------------------------------------------------

nestedHashSchemaVersion == 1
ledgerSchemaVersion == 2
storeSchemaVersion == 3
briefsSchemaVersion == 4

Threads == {"none", "open", "resolved"}

Stores == [here: BOOLEAN, version: 0..(briefsSchemaVersion + 1), key: BOOLEAN, roof: BOOLEAN,
           rec: [Claims -> {"none", "standing", "released"}],
           at: SUBSET Claims, base: SUBSET Claims]

Digests == [here: BOOLEAN, entry: [Claims -> Threads \cup {None}]]

NoDigests == [here |-> FALSE, entry |-> [c \in Claims |-> None]]

emptyStore == [here |-> FALSE, version |-> storeSchemaVersion, key |-> FALSE, roof |-> FALSE,
               rec |-> [c \in Claims |-> "none"], at |-> {}, base |-> {}]

Idle == [at |-> "idle", id |-> None, st |-> emptyStore, was |-> NoDigests]

Labels == {"idle", "save", "ensure", "cross.digest", "cross.save", "lock.claim", "lock.digest",
           "lock.save", "unlock.save", "unlock.claim", "release.save", "roof.save", "comment.digest"}

TypeOK ==
    /\ \A c \in Claims : claim[c] # None => claim[c] \in [locked: BOOLEAN, threads: Threads]
    /\ store \in Stores /\ digests \in Digests
    /\ ~digests.here => digests = NoDigests
    /\ cmd.at \in Labels /\ cmd.id \in Claims \cup {None} /\ cmd.st \in Stores
    /\ budget.comments <= MaxComments /\ budget.faults <= MaxFaults /\ budget.lapses <= MaxLapses
    /\ budget.kills <= MaxKills /\ budget.tampers <= MaxTampers
    /\ lowered \in BOOLEAN /\ unseen \subseteq Claims /\ signed \subseteq Claims

Here == {c \in Claims : claim[c] # None}
Locked == {c \in Here : claim[c].locked}

-----------------------------------------------------------------------------
(* What a store says of itself, and what the evidence beside it says. *)

Records(st) == {c \in Claims : st.rec[c] # "none"}
Standing(st, c) == st.rec[c] = "standing"

PreLedger(st) == st.here /\ st.version < ledgerSchemaVersion

LedgerCovered(st) == st.here /\ st.version >= ledgerSchemaVersion

\* Evidence that a ledger-aware engine has been here: its digest file, its key.
LedgerDowngraded(st, dg) == PreLedger(st) /\ (dg.here \/ st.key \/ Records(st) # {})

LedgerEstablished(st, dg) == LedgerCovered(st) \/ LedgerDowngraded(st, dg)

\* Mutant of PreLedgerUnadopted: the store's own version is believed.
PreLedgerBelieved(st, dg) == PreLedger(st)

PreLedgerUnadopted(st, dg) == PreLedger(st) /\ ~LedgerDowngraded(st, dg)

engineLocked(st, c) == c \in st.at \cup st.base

LedgerRecordDeleted(st, dg, c) ==
    ~PreLedgerUnadopted(st, dg) /\ st.rec[c] = "none" /\ engineLocked(st, c)

commentDigestUnrecorded(st, dg, c) ==
    claim[c].threads # "none" /\ dg.here /\ LedgerEstablished(st, dg) /\ dg.entry[c] = None

\* Mutant of decodeStore: a version this engine does not know is read as its own.
decodeAnything(st) == TRUE

\* LoadStore succeeds: the version is one this engine knows.
decodeStore(st) == st.here => st.version <= briefsSchemaVersion

\* A store before nested hashes keeps no baselines in memory.
loaded(st) == IF st.here /\ st.version < nestedHashSchemaVersion THEN [st EXCEPT !.base = {}] ELSE st

\* MigrateLegacyStore: a version 0 store with no ledger evidence is re-armed.
\* (An absent store has no version on disk and is re-armed too.)
Migrates(st, dg) ==
    /\ st.base = {} /\ (~st.here \/ st.version < nestedHashSchemaVersion)
    /\ ~LedgerDowngraded(st, dg) /\ Locked \cap Dependent # {}

\* Mutant of MigrateLegacyStore: what is locked is given a record.
MigrateAdopts(st, dg) ==
    IF Migrates(st, dg)
    THEN [st EXCEPT !.base = Locked \cap Dependent, !.version = ledgerSchemaVersion,
                    !.rec = [c \in Claims |-> IF c \in Locked THEN "standing" ELSE st.rec[c]]] ELSE st

\* Mutant of MigrateLegacyStore: the evidence of a ledger is not looked at.
MigrateDowngraded(st, dg) ==
    IF st.base = {} /\ st.version < nestedHashSchemaVersion /\ Locked \cap Dependent # {}
    THEN [st EXCEPT !.base = Locked \cap Dependent, !.version = nestedHashSchemaVersion] ELSE st

MigrateLegacyStore(st, dg) ==
    IF Migrates(st, dg)
    THEN [st EXCEPT !.base = Locked \cap Dependent, !.version = nestedHashSchemaVersion] ELSE st

\* What Save writes: the ledger key goes with the records (omitempty).
Saved(st) == [st EXCEPT !.here = TRUE, !.key = (Records(st) # {})]

-----------------------------------------------------------------------------
(* The digest store's own rules. *)

ThreadsOf(c) == claim[c].threads

Adopt(dg, cs) == [here |-> TRUE, entry |-> [c \in Claims |->
                     IF c \in cs /\ dg.entry[c] = None THEN ThreadsOf(c) ELSE dg.entry[c]]]

adoptableClaims(st) == {c \in Here : ~Standing(st, c) /\ ThreadsOf(c) = "none"}

commentDigestReleased(st, dg, c) == dg.entry[c] = "none" \/ st.rec[c] = "released"

AbandonedCommentDigests(st, dg) ==
    {c \in Claims \ Here : st.here /\ dg.here /\ dg.entry[c] # None /\ ~commentDigestReleased(st, dg, c)}

releasableCommentDigests(st, dg) ==
    {c \in Claims \ Here : dg.entry[c] # None /\ commentDigestReleased(st, dg, c)}

Forget(dg, cs) == [dg EXCEPT !.entry = [c \in Claims |-> IF c \in cs THEN None ELSE dg.entry[c]]]

SweepCommentDigests(st, covered) ==
    LET crossing == ~digests.here /\ ~covered /\ ~PreLedger(st)
        adopted == IF digests.here THEN Adopt(digests, adoptableClaims(st))
                   ELSE IF crossing THEN Adopt(digests, Here) ELSE digests
    IN Forget(adopted, releasableCommentDigests(st, adopted))

-----------------------------------------------------------------------------
(* The shape of a step. *)

Goto(l, c, st) == cmd' = [at |-> l, id |-> c, st |-> st, was |-> digests]

Return == cmd' = Idle

Fault == budget.faults < MaxFaults /\ budget' = [budget EXCEPT !.faults = @ + 1]

Lapse == budget.lapses < MaxLapses /\ budget' = [budget EXCEPT !.lapses = @ + 1]

\* A digest write whose error the engine swallows.
BestEffort(dg) == \/ digests' = dg /\ UNCHANGED budget
                  \/ dg # digests /\ Lapse /\ UNCHANGED digests

\* Every command but the comment operations begins by loading the store.
Begin == cmd.at = "idle" /\ decodeStore(store)

\* PrepareStore: migrate, then sweep under the digest store's own sentinel.
Prepare(l, c) ==
    LET st == loaded(store) IN
    /\ BestEffort(SweepCommentDigests(st, LedgerEstablished(st, digests)))
    /\ Goto(l, c, MigrateLegacyStore(st, digests))
    /\ UNCHANGED <<claim, store, lowered, unseen, signed>>

\* A first save of the store is followed by ensureCommentDigestStore.
SaveThenEnd(st) == /\ store' = Saved(st)
                   /\ IF cmd.st.here THEN Return
                      ELSE cmd' = [cmd EXCEPT !.at = "ensure", !.st = store', !.id = None]

-----------------------------------------------------------------------------
(* check: loadStoreForRead. *)

CheckPrepare == Begin /\ Prepare("save", None)

CheckSave ==
    /\ cmd.at = "save"
    /\ \/ /\ cmd.st # loaded(store) /\ SaveThenEnd(cmd.st) /\ UNCHANGED budget
       \/ /\ cmd.st # loaded(store) /\ Fault /\ Return /\ UNCHANGED store
       \/ /\ cmd.st = loaded(store) /\ Return /\ UNCHANGED <<store, budget>>
    /\ UNCHANGED <<claim, digests, lowered, unseen, signed>>

Ensure ==
    /\ cmd.at = "ensure" /\ BestEffort([digests EXCEPT !.here = TRUE]) /\ Return
    /\ UNCHANGED <<claim, store, lowered, unseen, signed>>

-----------------------------------------------------------------------------
(* claim lock of one claim, the roof being locked. *)

Admissible(st, c) ==
    /\ ~claim[c].locked /\ ~Standing(st, c) /\ claim[c].threads # "open"
    /\ ~LedgerRecordDeleted(st, digests, c) /\ ~commentDigestUnrecorded(st, digests, c)

LockBegin(c) ==
    /\ Begin /\ c \in Here /\ store.roof
    /\ IF PreLedgerUnadopted(store, digests)
       THEN Locked = {} /\ Goto("cross.digest", c, loaded(store))
       ELSE Admissible(loaded(store), c) /\ Goto("lock.claim", c, loaded(store))
    /\ UNCHANGED <<claim, store, digests, budget, lowered, unseen, signed>>

\* CrossPreLedger: the digest store first, then the stamped and emptied store.
CrossDigest ==
    /\ cmd.at = "cross.digest"
    /\ \/ digests' = [digests EXCEPT !.here = TRUE] /\ Goto("cross.save", cmd.id, cmd.st) /\ UNCHANGED budget
       \/ Lapse /\ Return /\ UNCHANGED digests
    /\ UNCHANGED <<claim, store, lowered, unseen, signed>>

Crossed(st) == [st EXCEPT !.version = storeSchemaVersion, !.at = {}, !.base = {}]

\* A failed save removes the digest store again; the lock then goes on, or is refused.
CrossSave ==
    /\ cmd.at = "cross.save"
    /\ \/ /\ store' = Saved(Crossed(cmd.st)) /\ UNCHANGED <<digests, budget>>
          /\ IF Admissible(Crossed(cmd.st), cmd.id) THEN Goto("lock.claim", cmd.id, Crossed(cmd.st)) ELSE Return
       \/ Fault /\ Return /\ digests' = NoDigests /\ UNCHANGED store
    /\ UNCHANGED <<claim, lowered, unseen, signed>>

SetLocked(c, b) == claim' = [claim EXCEPT ![c].locked = b]

\* policyLock: the claim, its digest entry, the store; a failed save restores all three.
LockClaim ==
    /\ cmd.at = "lock.claim" /\ SetLocked(cmd.id, TRUE) /\ Goto("lock.digest", cmd.id, cmd.st)
    /\ UNCHANGED <<store, digests, budget, lowered, unseen, signed>>

LockDigest ==
    /\ cmd.at = "lock.digest"
    /\ BestEffort([here |-> TRUE, entry |-> [digests.entry EXCEPT ![cmd.id] = ThreadsOf(cmd.id)]])
    /\ cmd' = [cmd EXCEPT !.at = "lock.save",
                          !.st.rec[cmd.id] = "standing", !.st.at = @ \cup {cmd.id},
                          !.st.base = @ \cup (Dependent \cap {cmd.id})]
    /\ UNCHANGED <<claim, store, lowered, unseen, signed>>

LockSave ==
    /\ cmd.at = "lock.save" /\ Return
    /\ \/ /\ store' = Saved(cmd.st) /\ signed' = signed \cup {cmd.id}
          /\ UNCHANGED <<claim, digests, budget>>
       \/ Fault /\ SetLocked(cmd.id, FALSE) /\ digests' = cmd.was /\ UNCHANGED <<store, signed>>
    /\ UNCHANGED <<lowered, unseen>>

-----------------------------------------------------------------------------
(* claim unlock: gateless. *)

UnlockPrepare(c) == c \in Locked /\ Begin /\ Prepare("unlock.save", c)

\* A changed store is saved before the claim is touched, a first save with its digests.
UnlockMigrated ==
    /\ cmd.at = "unlock.save"
    /\ IF cmd.st # loaded(store)
       THEN \/ /\ store' = Saved(cmd.st) /\ Goto("unlock.claim", cmd.id, cmd.st)
               /\ BestEffort([digests EXCEPT !.here = @ \/ ~cmd.st.here])
            \/ Fault /\ Return /\ UNCHANGED <<store, digests>>
       ELSE Goto("unlock.claim", cmd.id, cmd.st) /\ UNCHANGED <<store, digests, budget>>
    /\ UNCHANGED <<claim, lowered, unseen, signed>>

\* The claim first, then the store with the release stamped.
UnlockClaim ==
    /\ cmd.at = "unlock.claim" /\ SetLocked(cmd.id, FALSE)
    /\ Goto("release.save", cmd.id, [cmd.st EXCEPT !.rec[cmd.id] = IF @ = "none" THEN @ ELSE "released"])
    /\ UNCHANGED <<store, digests, budget, lowered, unseen, signed>>

UnlockSave ==
    /\ cmd.at = "release.save"
    /\ \/ SaveThenEnd(cmd.st) /\ signed' = signed \ {cmd.id} /\ UNCHANGED budget
       \/ Fault /\ Return /\ UNCHANGED <<store, signed>>
    /\ UNCHANGED <<claim, digests, lowered, unseen>>

-----------------------------------------------------------------------------
(* constitution lock. *)

RoofSweep ==
    /\ Begin /\ ~store.roof
    /\ IF LedgerCovered(store) \/ PreLedger(store) THEN UNCHANGED <<digests, budget>>
       ELSE BestEffort(SweepCommentDigests(loaded(store), FALSE))
    /\ Goto("roof.save", None, [loaded(store) EXCEPT !.roof = TRUE])
    /\ UNCHANGED <<claim, store, lowered, unseen, signed>>

RoofSave ==
    /\ cmd.at = "roof.save"
    /\ \/ SaveThenEnd(cmd.st) /\ UNCHANGED budget
       \/ Fault /\ Return /\ UNCHANGED store
    /\ UNCHANGED <<claim, digests, lowered, unseen, signed>>

-----------------------------------------------------------------------------
(* A comment operation: it reads the lock store and writes claim and digests. *)

\* checkCommentDigest.
CommentAllowed(c) ==
    IF digests.entry[c] = None
    THEN LedgerEstablished(store, digests) => claim[c].threads = "none"
    ELSE digests.entry[c] = claim[c].threads

\* add, resolve, reopen, or delete the thread.
CommentOp == {<<"none", "open">>, <<"open", "resolved">>, <<"resolved", "open">>, <<"open", "none">>}

Comment(c, op) ==
    /\ cmd.at = "idle" /\ decodeStore(store) /\ c \in Here /\ budget.comments < MaxComments
    /\ CommentAllowed(c) /\ claim[c].threads = op[1]
    /\ claim' = [claim EXCEPT ![c].threads = op[2]]
    /\ budget' = [budget EXCEPT !.comments = @ + 1]
    /\ Goto("comment.digest", c, store)
    /\ UNCHANGED <<store, digests, lowered, unseen, signed>>

\* Mutant of CommentDigest: a digest store is created whatever the project.
CommentDigestAlways ==
    /\ cmd.at = "comment.digest" /\ Return
    /\ digests' = [here |-> TRUE, entry |-> [digests.entry EXCEPT ![cmd.id] = ThreadsOf(cmd.id)]]
    /\ UNCHANGED <<claim, store, budget, lowered, unseen, signed>>

\* recordCommentDigest: nothing beside a pre-ledger store that has no digests.
CommentDigest ==
    LET c == cmd.id
        first == IF ~digests.here /\ ~LedgerEstablished(cmd.st, digests) THEN Adopt(digests, Here) ELSE digests
    IN /\ cmd.at = "comment.digest" /\ Return
       /\ IF PreLedger(cmd.st) /\ ~digests.here
          THEN unseen' = unseen \cup {c} /\ UNCHANGED <<digests, budget>>
          ELSE /\ \/ digests' = [here |-> TRUE, entry |-> [first.entry EXCEPT ![c] = ThreadsOf(c)]] /\ UNCHANGED budget
                  \/ Lapse /\ UNCHANGED digests
               /\ UNCHANGED unseen
       /\ UNCHANGED <<claim, store, lowered, signed>>

-----------------------------------------------------------------------------
(* Authors, crashes and hands. *)

\* A draft that no rule holds on to is deleted, or written anew.
DeleteClaim(c) ==
    /\ cmd.at = "idle" /\ c \in Here \ Locked /\ ~Standing(store, c)
    /\ digests.entry[c] = None \/ commentDigestReleased(store, digests, c)
    /\ claim' = [claim EXCEPT ![c] = None]
    /\ UNCHANGED <<store, digests, cmd, budget, lowered, unseen, signed>>

CreateClaim(c) ==
    /\ cmd.at = "idle" /\ c \notin Here
    /\ digests.entry[c] \in {None, "none"}
    /\ claim' = [claim EXCEPT ![c] = [locked |-> FALSE, threads |-> "none"]]
    /\ UNCHANGED <<store, digests, cmd, budget, lowered, unseen, signed>>

Kill ==
    /\ cmd.at # "idle" /\ budget.kills < MaxKills /\ Return
    /\ budget' = [budget EXCEPT !.kills = @ + 1]
    /\ UNCHANGED <<claim, store, digests, lowered, unseen, signed>>

Tampered == budget.tampers < MaxTampers /\ budget' = [budget EXCEPT !.tampers = @ + 1]

\* The version is lowered in a project whose digest store stays beside it.
LowerVersion(v) ==
    /\ cmd.at = "idle" /\ LedgerCovered(store) /\ store.version <= briefsSchemaVersion
    /\ digests.here /\ Tampered
    /\ store' = [store EXCEPT !.version = v] /\ lowered' = TRUE
    /\ UNCHANGED <<claim, digests, cmd, unseen, signed>>

\* A status is flipped to locked by hand.
FlipLocked(c) ==
    /\ cmd.at = "idle" /\ c \in Here \ Locked /\ Tampered /\ SetLocked(c, TRUE)
    /\ UNCHANGED <<store, digests, cmd, lowered, unseen, signed>>

\* A collaborator's newer engine writes the store.
NewerEngine ==
    /\ cmd.at = "idle" /\ store.here /\ ~lowered /\ store.version # briefsSchemaVersion + 1 /\ Tampered
    /\ store' = [store EXCEPT !.version = briefsSchemaVersion + 1]
    /\ UNCHANGED <<claim, digests, cmd, lowered, unseen, signed>>

-----------------------------------------------------------------------------
(* What check reports: ledgerGate and lock.Audit. *)

StoreFindings ==
    {r \in {"lock-ledger-absent"} : ~store.here /\ Locked # {}}
    \cup {r \in {"lock-ledger-pre-ledger"} : PreLedgerUnadopted(store, digests) /\ Locked # {}}
    \cup {r \in {"lock-ledger-downgraded"} : LedgerDowngraded(store, digests)}
    \cup {r \in {"comment-digest-absent"} : LedgerCovered(store) /\ ~digests.here}

LockFinding(c) ==
    IF store.rec[c] = "none" /\ PreLedgerUnadopted(store, digests) THEN {}
    ELSE IF store.rec[c] = "none" /\ LedgerCovered(store) /\ engineLocked(store, c) THEN {"lock-ledger-deleted"}
    ELSE IF c \in Locked /\ store.rec[c] = "none" THEN {"lock-ledger-missing"}
    ELSE IF c \in Locked /\ store.rec[c] = "released" THEN {"lock-ledger-released"}
    ELSE IF c \notin Locked /\ Standing(store, c) THEN {"lock-ledger-orphan"}
    ELSE {}

CommentFinding(c) ==
    LET known == digests.entry[c] # None IN
    IF known /\ digests.entry[c] # ThreadsOf(c) THEN {"comment-ledger-drift"}
    ELSE IF ~known /\ digests.here /\ LedgerCovered(store) /\ Standing(store, c) THEN {"comment-digest-missing"}
    ELSE IF ~known /\ digests.here /\ LedgerCovered(store) /\ ThreadsOf(c) # "none" THEN {"comment-digest-unrecorded"}
    ELSE {}

ledgerGate ==
    IF ~decodeStore(store) THEN {"ledger-unreadable"}
    ELSE StoreFindings \cup UNION {LockFinding(c) \cup CommentFinding(c) : c \in Here}
         \cup {r \in {"comment-digest-abandoned"} : AbandonedCommentDigests(store, digests) # {}}
         \cup {r \in {"lock-ledger-abandoned"} : \E c \in Claims \ Here : Standing(store, c)}

-----------------------------------------------------------------------------

\* The projects an upgrade meets: a fresh one, and one written before the ledger.
Init ==
    /\ \E old \in {None, 0, 1}, L \in SUBSET Claims, roof \in BOOLEAN :
          /\ claim = [c \in Claims |-> [locked |-> c \in L, threads |-> "none"]]
          /\ IF old = None THEN store = emptyStore /\ L = {} /\ ~roof
             ELSE store = [emptyStore EXCEPT !.here = TRUE, !.version = old, !.at = L, !.roof = roof,
                                             !.base = IF old = 1 THEN L \cap Dependent ELSE {}]
    /\ digests = NoDigests /\ cmd = Idle
    /\ budget = [comments |-> 0, faults |-> 0, lapses |-> 0, kills |-> 0, tampers |-> 0]
    /\ lowered = FALSE /\ unseen = {} /\ signed = {}

Engine ==
    \/ CheckPrepare \/ CheckSave \/ Ensure
    \/ (\E c \in Claims : LockBegin(c)) \/ CrossDigest \/ CrossSave \/ LockClaim \/ LockDigest \/ LockSave
    \/ (\E c \in Claims : UnlockPrepare(c)) \/ UnlockMigrated \/ UnlockClaim \/ UnlockSave
    \/ RoofSweep \/ RoofSave
    \/ (\E c \in Claims, op \in CommentOp : Comment(c, op)) \/ CommentDigest

Outside ==
    \/ \E c \in Claims : DeleteClaim(c) \/ CreateClaim(c) \/ FlipLocked(c)
    \/ (\E v \in {0, 1} : LowerVersion(v)) \/ NewerEngine \/ Kill

Next == Engine \/ Outside

Spec == Init /\ [][Next]_vars

-----------------------------------------------------------------------------
(* Properties. *)

Quiet == cmd.at = "idle"

Untouched == budget.kills = 0 /\ budget.tampers = 0

\* An honest project is never accused, at any point of its upgrade: whatever
\* commands ran, and whichever writes of a store from before the ledger failed,
\* check reports nothing but the pre-ledger state of locks that still predate the
\* ledger (ledgerGate, lock.Audit).  Not claimed are histories with a kill, with a
\* lapse of a best-effort write, or with a failed write in a store of the ledger,
\* and those in which the crossing left threads without a digest, which the run
\* `crossing` is about.
NotAccused ==
    (Quiet /\ Untouched /\ budget.lapses = 0 /\ unseen = {} /\ (budget.faults = 0 \/ PreLedger(store)))
        => ledgerGate \subseteq {"lock-ledger-pre-ledger"}

\* A store whose version was lowered by hand stays reported as downgraded,
\* whatever commands run over it (LedgerDowngraded, CrossPreLedger).
DowngradeSticks == (lowered /\ decodeStore(store)) => "lock-ledger-downgraded" \in StoreFindings

\* A locked claim whose lock no human asked for is always reported, whatever
\* schema version its store has, reached or pretends (nothing is adopted by
\* MigrateLegacyStore, CrossPreLedger or a sweep).
NothingGrandfathered == (Quiet /\ ~(Locked \subseteq signed)) => ledgerGate # {}

\* No upgrade path launders: neither a lowered version nor a lock nobody asked
\* for goes unreported, whatever commands ran over it.
NothingLaundered == TypeOK /\ DowngradeSticks /\ NothingGrandfathered

\* No command writes a project whose store is from a newer engine
\* (ErrStoreTooNew before any write).
NewerUntouched ==
    [][(Engine /\ store.version > briefsSchemaVersion /\ Quiet) => UNCHANGED <<claim, store, digests>>]_vars

\* Baselines are re-armed from current content only in a store that no ledger
\* engine has touched (MigrateLegacyStore's third guard).
NoRearm ==
    [][(LedgerEstablished(store, digests) /\ ~LedgerCovered(store)) => store'.base \ store.base \subseteq
          {c \in Claims : store'.rec[c] = "standing" /\ store.rec[c] # "standing"}]_vars

\* A store is written only by an engine that understands it, and never back to a
\* state from which its drift could no longer be seen.
StoresRespected == NewerUntouched /\ NoRearm

\* The engine's own claim about unrecorded threads: "a state no honest sequence
\* produces" (checkCommentDigest).
ThreadsAlwaysRecorded ==
    (Quiet /\ Untouched /\ budget.faults = 0 /\ budget.lapses = 0) => "comment-digest-unrecorded" \notin ledgerGate

-----------------------------------------------------------------------------
(* The inductive invariant behind the theorems of SchemaProofs. *)

\* TypeOK with the files and counters it leaves open.
Typed ==
    /\ TypeOK
    /\ claim \in [Claims -> [locked: BOOLEAN, threads: Threads] \cup {None}]
    /\ cmd \in [at: Labels, id: Claims \cup {None}, st: Stores, was: Digests]
    /\ ~cmd.was.here => cmd.was = NoDigests
    /\ budget \in [comments: Nat, faults: Nat, lapses: Nat, kills: Nat, tampers: Nat]

Crossing == {"cross.digest", "cross.save"}
Locking == {"lock.claim", "lock.digest", "lock.save"}
Unlocking == {"unlock.save", "unlock.claim", "release.save"}

\* Where a command will save the store it has in memory.
Saving == {"save", "roof.save"} \cup Crossing \cup Locking \cup Unlocking

\* A command's claim exists, and it will save the records on disk but for that claim's:
\* standing once a lock saves, and not standing once a release does.
RecordsKept ==
    /\ cmd.at \in Crossing \cup Locking \cup Unlocking \cup {"comment.digest"} => cmd.id \in Here
    /\ cmd.at \in Saving => \A c \in Claims :
          cmd.st.rec[c] = store.rec[c] \/ (c = cmd.id /\ cmd.at \in {"lock.save", "release.save"})
    /\ cmd.at \in Locking => ~Standing(store, cmd.id)
    /\ cmd.at = "lock.save" => Standing(cmd.st, cmd.id)
    /\ cmd.at = "release.save" => /\ ~Standing(cmd.st, cmd.id)
                                  /\ cmd.st.rec[cmd.id] = "none" <=> store.rec[cmd.id] = "none"

\* A record stands only of a lock that was asked for.
StandingSigned == \A c \in Claims : Standing(store, c) => c \in signed

AbsentEmpty == ~store.here => store = emptyStore

\* A lowered store stays old, and the digests that give it away stay beside it: no
\* command in flight makes it newer, or has a state without digests to go back to.
LoweredStays == lowered =>
    /\ store.here /\ store.version < ledgerSchemaVersion /\ digests.here
    /\ cmd.at \notin Crossing
    /\ cmd.at \in Saving => cmd.st.here /\ cmd.st.version < ledgerSchemaVersion
    /\ cmd.at \in {"lock.digest", "lock.save"} => cmd.was.here

\* Baselines in memory come from the store on disk or the lock under way, unless a
\* store that no ledger engine has touched is being re-armed.
BaselinesKept == cmd.at \in Saving =>
    \/ cmd.st.base \subseteq store.base \cup {c \in {cmd.id} : cmd.at = "lock.save"}
    \/ cmd.at \in {"save", "unlock.save"} /\ ~LedgerDowngraded(store, digests)

\* Without a hand, an absent store has no locks beside it, and a command crosses a store
\* onto the ledger only where the code does.
VersionsKept == budget.tampers = 0 =>
    /\ store.version <= storeSchemaVersion /\ ~lowered
    /\ ~store.here => Locked = {}
    /\ cmd.at \in Unlocking \ {"release.save"} => cmd.id \in Locked
    /\ cmd.at \in Crossing \cup Locking \cup {"release.save"} => store.here
    /\ cmd.at \in Saving =>
          /\ cmd.st.here = store.here /\ cmd.st.version <= storeSchemaVersion
          /\ cmd.st.version < ledgerSchemaVersion <=> PreLedger(store)
    /\ cmd.at \in Crossing => PreLedger(store)

\* Nothing was killed, changed by hand or left without its digest, and no write of a
\* store on the ledger failed.
Clean == Untouched /\ budget.lapses = 0 /\ unseen = {} /\ (budget.faults = 0 \/ PreLedger(store))

\* Before the ledger nothing has been written beside the store; after it the records,
\* the marks and the statuses agree but for the claim of the command under way.
LocksAgree ==
    /\ PreLedger(store) => /\ ~store.key /\ Records(store) = {}
                           /\ cmd.at # "cross.save" => digests = NoDigests
    /\ cmd.at = "cross.save" => \A c \in Claims : digests.entry[c] = None
    /\ cmd.at \in Crossing => Locked = {}
    /\ ~digests.here => /\ ~LedgerCovered(store) /\ cmd.at # "cross.save"
                        /\ cmd.at = "roof.save" => PreLedger(store)
    /\ LedgerCovered(store) =>
          /\ store.at \cup store.base \subseteq Records(store)
          /\ \A c \in Claims : (c # cmd.id \/ cmd.at \notin Locking \cup {"release.save"}) =>
                (c \in Locked <=> Standing(store, c))
    /\ cmd.at \in Locking =>
          /\ LedgerCovered(store)
          /\ cmd.id \in Locked <=> cmd.at # "lock.claim"
    /\ cmd.at = "release.save" => cmd.id \notin Locked
    /\ cmd.at \in Saving \ Crossing /\ cmd.st.version >= ledgerSchemaVersion =>
          cmd.st.at \cup cmd.st.base \subseteq Records(cmd.st)
    /\ cmd.at = "save" /\ ~store.here => cmd.st = store
    /\ cmd.at = "ensure" => LedgerCovered(store)

\* The digest store follows the comment blocks; what is left of a deleted claim is what
\* was abandoned with leave.
DigestsAgree ==
    /\ \A c \in Here : (c # cmd.id \/ cmd.at # "comment.digest") =>
          IF digests.entry[c] = None THEN ThreadsOf(c) = "none" /\ ~Standing(store, c)
                                     ELSE digests.entry[c] = ThreadsOf(c)
    /\ \A c \in Claims \ Here : digests.entry[c] \in {None, "none"} \/ store.rec[c] = "released"
    /\ cmd.at = "lock.save" => digests.entry[cmd.id] # None
    /\ cmd.at = "comment.digest" => cmd.st = store

\* Inductive.
SInv == /\ Typed /\ RecordsKept /\ StandingSigned /\ AbsentEmpty
        /\ LoweredStays /\ BaselinesKept /\ VersionsKept
        /\ Clean => LocksAgree /\ DigestsAgree
=============================================================================
