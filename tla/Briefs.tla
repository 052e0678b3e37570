------------------------------- MODULE Briefs --------------------------------
(***************************************************************************)
(* Briefs: markdown documents that rest on claims and are locked, unlocked *)
(* and reaudited like them.                                                *)
(*                                                                         *)
(* A brief's approval is a record in the lock store: the hash of its       *)
(* summary, rests_on and body, its images' digests, and one baseline per   *)
(* claim it rests on.  The commands and the comment operations run under   *)
(* the claims sentinel and write two files each, one after the other;      *)
(* editors save, and processes die, between any two steps.  The project is *)
(* covered by the lock ledger and its digest store exists.                 *)
(*                                                                         *)
(* A content (of a claim, of a brief's words and images) is a member of a  *)
(* small set, so hashes and digests are the contents themselves.           *)
(***************************************************************************)
EXTENDS Threads

CONSTANTS
    Briefs,      \* brief ids
    Claims,      \* claim ids
    Contents,    \* what a file can hold
    Procs,       \* command and server processes
    MaxEdits,    \* bound on the saves of editors
    MaxFaults,   \* bound on crashes and failed writes
    MaxTampers,  \* bound on changes by hand to what only the engine writes
    None,        \* absence of a value
    Dead         \* holder of a sentinel whose process died

\* What a lock signs: the words and images, and the claims named.
Signed == [text: Contents, rests: SUBSET Claims]

ASSUME BriefsAssumption ==
    /\ {None, Dead} \cap (Procs \cup Claims \cup Contents) = {} /\ None \notin Signed
    /\ Contents # {}
    /\ MaxEdits \in Nat /\ MaxFaults \in Nat /\ MaxTampers \in Nat

VARIABLES
    claim,    \* the content of each claim, None when it is gone
    file,     \* the brief files
    rec,      \* the briefs map of the lock store
    dig,      \* the briefs map of the comment digest store
    held,     \* the holders of the claims and the store sentinel
    op,       \* what each process is in the middle of
    budget,   \* saves, faults and tampers so far
    yes       \* history: what a human signed, and read, of each brief

vars == <<claim, file, rec, dig, held, op, budget, yes>>

-----------------------------------------------------------------------------

NoRecord == [has |-> FALSE, released |-> FALSE, signed |-> None,
             base |-> [c \in Claims |-> None]]

File == [here: BOOLEAN, status: {"draft", "locked"}, signed: Signed, block: Blocks]

Idle == [at |-> "idle", brief |-> None, file |-> None, claims |-> None, block |-> None]

Phases == {"lock", "lockSave", "unlock", "unlockFile", "reaudit", "comment", "commentDigest"}

Readings == [Claims -> Contents \cup {None}]

Record == {r \in [has: BOOLEAN, released: BOOLEAN, signed: Signed \cup {None}, base: Readings] :
              r.has <=> r.signed # None}

Digest == [known: BOOLEAN, block: Blocks]

\* What humans signed of a brief, and what they read of each claim for it.
Approved == [signed: SUBSET Signed, read: SUBSET (Claims \X (Contents \cup {None}))]

Doing == [at: Phases, brief: Briefs, file: File, claims: Readings,
          block: Blocks \cup {None}]

TypeOK ==
    /\ claim \in Readings
    /\ file \in [Briefs -> File]
    /\ rec \in [Briefs -> Record]
    /\ dig \in [Briefs -> Digest]
    /\ held \in [{"claims", "store"} -> Procs \cup {None, Dead}]
    /\ op \in [Procs -> {Idle} \cup Doing]
    /\ budget \in [edits: 0..MaxEdits, faults: 0..MaxFaults, tampers: 0..MaxTampers]
    /\ yes \in [Briefs -> Approved]

\* One content to start from: contents are interchangeable.
First == {CHOOSE v \in Contents : TRUE}

Init ==
    /\ \E v \in First, r \in SUBSET Claims :
          /\ claim = [c \in Claims |-> v]
          /\ file = [b \in Briefs |-> [here |-> TRUE, status |-> "draft", block |-> NoThreads,
                                       signed |-> [text |-> v, rests |-> r]]]
    /\ rec = [b \in Briefs |-> NoRecord]
    /\ dig = [b \in Briefs |-> [known |-> FALSE, block |-> NoThreads]]
    /\ held = [s \in {"claims", "store"} |-> None]
    /\ op = [p \in Procs |-> Idle]
    /\ budget = [edits |-> 0, faults |-> 0, tampers |-> 0]
    /\ yes = [b \in Briefs |-> [signed |-> {}, read |-> {}]]

-----------------------------------------------------------------------------
(* A brief's state, as Evaluate reads it from the files and the store. *)

Standing(b) == rec[b].has /\ ~rec[b].released

ContentMoved(f, r) == f.signed # r.signed

LockState(f, r) ==
    IF f.status # "locked" THEN "draft"
    ELSE IF ~r.has \/ r.released THEN "unrecorded"
    ELSE IF ContentMoved(f, r) THEN "edited"
    ELSE "locked"

\* The claims that moved under the brief, or went missing, since its baseline.
ChangedClaims(r, cs) == {c \in Claims : r.base[c] # None /\ cs[c] # r.base[c]}

ReviewPending(f, r, cs) ==
    LockState(f, r) \in {"locked", "edited"} /\ ChangedClaims(r, cs) # {}

\* The integrity findings check reports about a brief.
Integrity(b) ==
    (IF file[b].here
     THEN {x \in {"brief-orphan"} : file[b].status # "locked" /\ Standing(b)}
          \cup {x \in {"brief-unrecorded"} : LockState(file[b], rec[b]) = "unrecorded"}
          \cup {x \in {"brief-content-drift"} : LockState(file[b], rec[b]) = "edited"}
     ELSE {x \in {"brief-abandoned"} : Standing(b)})

\* The comment findings check reports about a brief of a covered project.
DigestFindings(b) ==
    IF file[b].here
    THEN {x \in {"comment-ledger-drift"} : dig[b].known /\ dig[b].block # file[b].block}
         \cup {x \in {"comment-digest-unrecorded"} :
                  ~dig[b].known /\ DOMAIN file[b].block.threads # {}}
    ELSE {x \in {"comment-digest-abandoned"} :
            /\ dig[b].known /\ DOMAIN dig[b].block.threads # {}
            /\ ~(rec[b].has /\ rec[b].released)}

\* The error findings that refuse a lock: here, a rests_on id that is no claim.
briefErrorFindings(f, cs) == {c \in f.signed.rests : cs[c] = None}

Baselines(f, cs) == [c \in Claims |-> IF c \in f.signed.rests THEN cs[c] ELSE None]

\* Mutant: a record an unlock released carries nothing.
RelockBaselinesStandingOnly(f, cs, prev) ==
    [c \in Claims |-> IF c \in f.signed.rests /\ prev.base[c] # None /\ ~prev.released
                      THEN prev.base[c] ELSE Baselines(f, cs)[c]]

\* A lock over an earlier record keeps the baselines of the claims still listed.
RelockBaselines(f, cs, prev) ==
    [c \in Claims |-> IF c \in f.signed.rests /\ prev.base[c] # None
                      THEN prev.base[c] ELSE Baselines(f, cs)[c]]

AlreadyLocked(f, r) == f.status = "locked" /\ r.has /\ ~r.released /\ ~ContentMoved(f, r)

-----------------------------------------------------------------------------
(* Sentinels and the life of a process. *)

Free(s) == held[s] = None

Acquire(p, s) == [held EXCEPT ![s] = p]

Release(p) == [s \in DOMAIN held |-> IF held[s] = p THEN None ELSE held[s]]

Finish(p) == op' = [op EXCEPT ![p] = Idle] /\ held' = Release(p)

\* A command takes the claims sentinel and reads the claims and the brief.
Begin(p, b, at, block) ==
    /\ op[p] = Idle
    /\ Free("claims")
    /\ file[b].here
    /\ held' = Acquire(p, "claims")
    /\ op' = [op EXCEPT ![p] = [at |-> at, brief |-> b, file |-> file[b], claims |-> claim,
                                block |-> block]]
    /\ UNCHANGED <<claim, file, rec, dig, budget, yes>>

\* The file still holds the bytes the command read.
AsRead(p) == file[op[p].brief] = op[p].file

-----------------------------------------------------------------------------
(* brief lock: the status line first, then the record. *)

BeginLock(p, b) ==
    /\ briefErrorFindings(file[b], claim) = {}
    /\ ~HasOpen(file[b].block)
    /\ Begin(p, b, "lock", None)

Lock(p) ==
    LET b == op[p].brief
        f == op[p].file
        rewrite == f.status # "locked"
    IN  /\ op[p].at = "lock"
        /\ Free("store")
        /\ \/ /\ AlreadyLocked(f, rec[b]) \/ (rewrite /\ ~AsRead(p))
              /\ Finish(p)
              /\ UNCHANGED file
           \/ /\ ~AlreadyLocked(f, rec[b]) /\ (rewrite => AsRead(p))
              /\ file' = IF rewrite THEN [file EXCEPT ![b].status = "locked"] ELSE file
              /\ held' = Acquire(p, "store")
              /\ op' = [op EXCEPT ![p].at = "lockSave"]
        /\ UNCHANGED <<claim, rec, dig, budget, yes>>

\* The human's yes covers the brief's own words, and the claims listed for the first time.
LockSave(p) ==
    LET b == op[p].brief
        f == op[p].file
        fresh == {c \in f.signed.rests : ~rec[b].has \/ rec[b].base[c] = None}
    IN  /\ op[p].at = "lockSave"
        /\ rec' = [rec EXCEPT ![b] = [has |-> TRUE, released |-> FALSE, signed |-> f.signed,
                                      base |-> RelockBaselines(f, op[p].claims, rec[b])]]
        /\ yes' = [yes EXCEPT ![b].signed = @ \cup {f.signed},
                              ![b].read = @ \cup {<<c, op[p].claims[c]>> : c \in fresh}]
        /\ Finish(p)
        /\ UNCHANGED <<claim, file, dig, budget>>

-----------------------------------------------------------------------------
(* brief unlock: the record first, then the status line. *)

BeginUnlock(p, b) ==
    /\ file[b].status = "locked"
    /\ Begin(p, b, "unlock", None)

\* Mutant: the file first, then the record.
UnlockFileFirst(p) ==
    /\ op[p].at = "unlock"
    /\ Free("store")
    /\ AsRead(p)
    /\ file' = [file EXCEPT ![op[p].brief].status = "draft"]
    /\ held' = Acquire(p, "store")
    /\ op' = [op EXCEPT ![p].at = "unlockFile"]
    /\ UNCHANGED <<claim, rec, dig, budget, yes>>

Unlock(p) ==
    LET b == op[p].brief
    IN  /\ op[p].at = "unlock"
        /\ Free("store")
        /\ held' = Acquire(p, "store")
        /\ rec' = IF Standing(b) THEN [rec EXCEPT ![b].released = TRUE] ELSE rec
        /\ op' = [op EXCEPT ![p].at = "unlockFile"]
        /\ UNCHANGED <<claim, file, dig, budget, yes>>

\* A file that changed meanwhile is left alone; the approval stays released.
UnlockFile(p) ==
    LET b == op[p].brief
    IN  /\ op[p].at = "unlockFile"
        /\ file' = IF AsRead(p) THEN [file EXCEPT ![b].status = "draft"] ELSE file
        /\ Finish(p)
        /\ UNCHANGED <<claim, rec, dig, budget, yes>>

-----------------------------------------------------------------------------
(* brief reaudit --confirm: accept the claims that moved. *)

BeginReaudit(p, b) == Begin(p, b, "reaudit", None)

ReauditAllowed(f, r, cs) ==
    /\ LockState(f, r) = "locked"
    /\ ~HasOpen(f.block)
    /\ ReviewPending(f, r, cs)
    /\ \A c \in f.signed.rests : cs[c] # None

Reaudit(p) ==
    LET b == op[p].brief
        f == op[p].file
        cs == op[p].claims
    IN  /\ op[p].at = "reaudit"
        /\ Free("store")
        /\ Finish(p)
        /\ IF ReauditAllowed(f, rec[b], cs)
           THEN /\ rec' = [rec EXCEPT ![b].base = Baselines(f, cs)]
                /\ yes' = [yes EXCEPT ![b].read = @ \cup {<<c, cs[c]>> : c \in f.signed.rests}]
           ELSE UNCHANGED <<rec, yes>>
        /\ UNCHANGED <<claim, file, dig, budget>>

-----------------------------------------------------------------------------
(* What --dry-run says of the two commands, computed apart from them. *)

briefLockDryRun(b) ==
    /\ briefErrorFindings(file[b], claim) = {}
    /\ ~HasOpen(file[b].block)
    /\ ~(file[b].status = "locked" /\ Standing(b) /\ ~ContentMoved(file[b], rec[b]))

\* Mutant: the preview of a reaudit forgets the edited brief.
briefReauditDryRunEdited(b) ==
    LET f == file[b]
    IN  /\ LockState(f, rec[b]) \in {"locked", "edited"}
        /\ ~HasOpen(f.block)
        /\ ReviewPending(f, rec[b], claim)
        /\ \A c \in f.signed.rests : claim[c] # None

briefReauditDryRun(b) ==
    LET f == file[b]
    IN  /\ LockState(f, rec[b]) \in {"locked", "edited"}
        /\ LockState(f, rec[b]) # "edited"
        /\ ~HasOpen(f.block)
        /\ ReviewPending(f, rec[b], claim)
        /\ \A c \in f.signed.rests : claim[c] # None

-----------------------------------------------------------------------------
(* A comment operation on a brief: the file, then the digest. *)

\* Mutant: threads without an entry are taken as they are.
checkBriefDigestKnownOnly(b) == dig[b].known => dig[b].block = file[b].block

checkBriefDigest(b) ==
    IF dig[b].known THEN dig[b].block = file[b].block
                    ELSE DOMAIN file[b].block.threads = {}

\* Mutant: a comment operation takes no sentinel.
BeginCommentUnguarded(p, b, actor) ==
    /\ checkBriefDigest(b)
    /\ op[p] = Idle /\ file[b].here
    /\ \E block \in Outcomes(file[b].block, actor) :
          op' = [op EXCEPT ![p] = [at |-> "comment", brief |-> b, file |-> file[b],
                                   claims |-> claim, block |-> block]]
    /\ UNCHANGED <<claim, file, rec, dig, held, budget, yes>>

BeginComment(p, b, actor) ==
    /\ checkBriefDigest(b)
    /\ \E block \in Outcomes(file[b].block, actor) : Begin(p, b, "comment", block)

\* The bytes are compared once more right before the write.
CommentWrite(p) ==
    LET b == op[p].brief
    IN  /\ op[p].at = "comment"
        /\ \/ /\ AsRead(p)
              /\ file' = [file EXCEPT ![b].block = op[p].block]
              /\ op' = [op EXCEPT ![p].at = "commentDigest"]
              /\ UNCHANGED held
           \/ ~AsRead(p) /\ Finish(p) /\ UNCHANGED file
        /\ UNCHANGED <<claim, rec, dig, budget, yes>>

\* Mutant: the digest of the block as it was read.
CommentDigestBefore(p) ==
    /\ op[p].at = "commentDigest"
    /\ dig' = [dig EXCEPT ![op[p].brief] = [known |-> TRUE, block |-> op[p].file.block]]
    /\ Finish(p)
    /\ UNCHANGED <<claim, file, rec, budget, yes>>

CommentDigest(p) ==
    /\ op[p].at = "commentDigest"
    /\ dig' = [dig EXCEPT ![op[p].brief] = [known |-> TRUE, block |-> op[p].block]]
    /\ Finish(p)
    /\ UNCHANGED <<claim, file, rec, budget, yes>>

-----------------------------------------------------------------------------
(* Editors, hands and faults. *)

Spend(what) == budget' = [budget EXCEPT ![what] = @ + 1]

EditClaim(c, v) ==
    /\ budget.edits < MaxEdits /\ Spend("edits")
    /\ v # claim[c]
    /\ claim' = [claim EXCEPT ![c] = v]
    /\ UNCHANGED <<file, rec, dig, held, op, yes>>

EditBrief(b, s) ==
    /\ budget.edits < MaxEdits /\ Spend("edits")
    /\ file[b].here /\ s # file[b].signed
    /\ file' = [file EXCEPT ![b].signed = s]
    /\ UNCHANGED <<claim, rec, dig, held, op, yes>>

\* By hand: the status line, the comments block, or the whole file.
Tampered(f) ==
    {[f EXCEPT !.status = s] : s \in {"draft", "locked"} \ {f.status}}
    \cup {[f EXCEPT !.block = [threads |-> g, forged |-> DOMAIN g # {}]] :
            g \in {[t \in D |-> [f.block.threads[t] EXCEPT !.status = "resolved"]]
                     : D \in SUBSET DOMAIN f.block.threads} \ {f.block.threads}}
    \cup {[f EXCEPT !.here = FALSE]}

Tamper(b, g) ==
    /\ budget.tampers < MaxTampers /\ Spend("tampers")
    /\ file[b].here
    /\ file' = [file EXCEPT ![b] = g]
    /\ UNCHANGED <<claim, rec, dig, held, op, yes>>

\* A process dies and its sentinels stay.
Crash(p) ==
    /\ budget.faults < MaxFaults /\ Spend("faults")
    /\ op[p] # Idle
    /\ op' = [op EXCEPT ![p] = Idle]
    /\ held' = [s \in DOMAIN held |-> IF held[s] = p THEN Dead ELSE held[s]]
    /\ UNCHANGED <<claim, file, rec, dig, yes>>

\* The second write of a command fails: it reports the error and lets go.
WriteFails(p) ==
    /\ budget.faults < MaxFaults /\ Spend("faults")
    /\ op[p].at \in {"lockSave", "unlockFile", "commentDigest"}
    /\ Finish(p)
    /\ UNCHANGED <<claim, file, rec, dig, yes>>

\* A human removes the sentinel of a dead process.
RemoveStale(s) ==
    /\ held[s] = Dead
    /\ held' = [held EXCEPT ![s] = None]
    /\ UNCHANGED <<claim, file, rec, dig, op, budget, yes>>

-----------------------------------------------------------------------------

Next ==
    \/ \E p \in Procs, b \in Briefs :
          \/ BeginLock(p, b) \/ BeginUnlock(p, b) \/ BeginReaudit(p, b)
          \/ \E actor \in Roles : BeginComment(p, b, actor)
    \/ \E p \in Procs :
          \/ Lock(p) \/ LockSave(p) \/ Unlock(p) \/ UnlockFile(p) \/ Reaudit(p)
          \/ CommentWrite(p) \/ CommentDigest(p)
          \/ Crash(p) \/ WriteFails(p)
    \/ \E c \in Claims, v \in Contents \cup {None} : EditClaim(c, v)
    \/ \E b \in Briefs : \/ \E s \in Signed : EditBrief(b, s)
                         \/ \E g \in Tampered(file[b]) : Tamper(b, g)
    \/ \E s \in {"claims", "store"} : RemoveStale(s)

Spec == Init /\ [][Next]_vars

-----------------------------------------------------------------------------
(* Properties. *)

\* A brief that evaluates as locked with nothing pending reads as a human signed
\* it, and each claim it rests on reads as a human accepted it for this brief: a
\* claim that moved is never accepted by unlocking, editing and locking again.
CleanMeansRead ==
    \A b \in Briefs :
        /\ file[b].here
        /\ LockState(file[b], rec[b]) = "locked"
        /\ ~ReviewPending(file[b], rec[b], claim)
        => /\ file[b].signed \in yes[b].signed
           /\ \A c \in file[b].signed.rests : <<c, claim[c]>> \in yes[b].read

InCommand(b, phases) == \E p \in Procs : op[p].brief = b /\ op[p].at \in phases

\* Nobody tampered: whatever died, no record is left that approves a draft or a
\* missing brief, and "unrecorded" means a fault, an editor's save that stopped
\* brief unlock's rewrite, or a command half done.
HonestRecords ==
    budget.tampers = 0 =>
        \A b \in Briefs :
            /\ Integrity(b) \cap {"brief-orphan", "brief-abandoned"} = {}
            /\ "brief-unrecorded" \in Integrity(b)
                 => \/ budget.faults > 0 \/ budget.edits > 0
                    \/ InCommand(b, {"lockSave", "unlockFile"})

\* The digest of a brief's threads always is that of a block the comment
\* operations wrote: a block changed by hand is never recorded as the truth.
NeverLaundered == \A b \in Briefs : dig[b].known => ~dig[b].block.forged

\* Without a fault or a hand, check never accuses a brief's threads.
DigestPaired ==
    budget.faults = 0 /\ budget.tampers = 0 =>
        \A b \in Briefs : DigestFindings(b) # {} => InCommand(b, {"commentDigest"})

\* What check accuses a brief of is never the work of whole commands alone.
HonestAudit == TypeOK /\ HonestRecords /\ DigestPaired

\* While nothing runs, the previews tell exactly what the commands would do.
DryRunTells ==
    (\A p \in Procs : op[p] = Idle) =>
        \A b \in Briefs : file[b].here =>
            /\ briefLockDryRun(b) <=> /\ briefErrorFindings(file[b], claim) = {}
                                      /\ ~HasOpen(file[b].block)
                                      /\ ~AlreadyLocked(file[b], rec[b])
            /\ briefReauditDryRun(b) <=> ReauditAllowed(file[b], rec[b], claim)

\* An approval is recorded only over a brief that has no open thread at that
\* moment, though threads are opened by other processes at any time.
NoOpenThreadSigned ==
    [][\A b \in Briefs :
          /\ rec'[b] # rec[b] /\ ~rec'[b].released
          /\ file[b].here
          => ~HasOpen(file[b].block)]_vars

-----------------------------------------------------------------------------
(* The inductive invariant behind the theorems of BriefsProofs. *)

\* A record has what it signs, and a baseline for each claim named there; a human
\* signed the one and read the other.
RecordRead(r, y) ==
    /\ r.has => r.signed \in y.signed /\ \A c \in r.signed.rests : r.base[c] # None
    /\ \A c \in Claims : r.base[c] # None => <<c, r.base[c]>> \in y.read

\* A block changed by hand is left without a digest of its own.
HandsShow(f, d) == (f.block.forged => DOMAIN f.block.threads # {}) /\ (d.known => ~d.block.forged)

\* What a process in the middle of o knows of the brief it works on: f is its file.
\* Nobody opens a thread meanwhile, and without a hand nothing but its words moves.
Knows(o, f) ==
    /\ o.at \in {"lock", "lockSave"} => /\ ~HasOpen(o.file.block)
                                       /\ \A c \in o.file.signed.rests : o.claims[c] # None
    /\ o.at \in {"lock", "lockSave", "reaudit"} => (HasOpen(f.block) => HasOpen(o.file.block))
    /\ o.at \in {"comment", "commentDigest"} => o.block \in Blocks /\ ~o.block.forged

KnowsUntouched(o, f) ==
    /\ o.at = "lockSave" => f.status = "locked"
    /\ o.at # "lockSave" => f.status = o.file.status
    /\ o.at = "unlockFile" => ~Standing(o.brief)
    /\ o.at = "commentDigest" => f.block = o.block
    /\ o.at \in {"unlock", "unlockFile"} /\ budget.edits = 0 => f = o.file

\* Where no hand has been, files and records agree, unless a command is half done.
Untouched(b) ==
    /\ file[b].here
    /\ Standing(b) => file[b].status = "locked"
    /\ file[b].status = "locked" /\ ~Standing(b) /\ budget.faults = 0 /\ budget.edits = 0
          => InCommand(b, {"lockSave", "unlockFile"})
    /\ ~checkBriefDigest(b) /\ budget.faults = 0 => InCommand(b, {"commentDigest"})

BriefTrue(b) ==
    RecordRead(rec[b], yes[b]) /\ HandsShow(file[b], dig[b]) /\ (budget.tampers = 0 => Untouched(b))

\* Whoever is in the middle of something holds the claims sentinel.
ProcTrue(p) ==
    op[p] # Idle =>
        /\ held["claims"] = p
        /\ Knows(op[p], file[op[p].brief])
        /\ budget.tampers = 0 => KnowsUntouched(op[p], file[op[p].brief])

\* Inductive.
BriefsInv == TypeOK /\ (\A b \in Briefs : BriefTrue(b)) /\ \A p \in Procs : ProcTrue(p)
=============================================================================
