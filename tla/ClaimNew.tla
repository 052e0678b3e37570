------------------------------- MODULE ClaimNew -------------------------------
(***************************************************************************)
(* claim new: several of them run at once, each authoring a draft in a     *)
(* file that must not exist yet, and leaving a stub of the module's        *)
(* manifest when it has none.                                              *)
(*                                                                         *)
(* The claims are all of one module.  A file holds one claim, or none.     *)
(***************************************************************************)
EXTENDS Naturals, FiniteSets

CONSTANTS
    Authors,    \* the runs of claim new
    NewIds,     \* the ids they may be given
    ClaimPaths,      \* the files they may write: an id's own, or --file's
    NoClaim     \* no claim, no file

ASSUME NewAssumption == NoClaim \notin NewIds /\ NoClaim \notin Authors

VARIABLES
    disk,       \* the claim in each file, NoClaim where there is no file
    stub,       \* the module's manifest exists
    author,     \* each run: where it is, its id and file, whether it wrote the stub
    newLock,    \* the run that holds the claims sentinel, NoClaim when nobody does
    faults      \* saves that have failed

newVars == <<disk, stub, author, newLock, faults>>

NoRun == [pc |-> "idle", id |-> NoClaim, path |-> NoClaim, wrote |-> FALSE]

Taken(i) == \E p \in ClaimPaths : disk[p] = i

NewInit ==
    /\ disk = [p \in ClaimPaths |-> NoClaim]
    /\ stub = FALSE
    /\ author = [a \in Authors |-> NoRun]
    /\ newLock = NoClaim
    /\ faults = 0

\* The id and the path are valid; whatever is loaded here is loaded again.
StartNew(a) ==
    /\ author[a].pc = "idle"
    /\ \E i \in NewIds, p \in ClaimPaths : author' = [author EXCEPT ![a] = [NoRun EXCEPT !.pc = "started", !.id = i, !.path = p]]
    /\ UNCHANGED <<disk, stub, newLock, faults>>

\* Nothing taken before the project is loaded.
AcquireLate(a) ==
    /\ author[a].pc = "started"
    /\ author' = [author EXCEPT ![a].pc = "holding"]
    /\ UNCHANGED <<disk, stub, newLock, faults>>

AcquireNew(a) ==
    /\ author[a].pc = "started" /\ newLock = NoClaim
    /\ newLock' = a
    /\ author' = [author EXCEPT ![a].pc = "holding"]
    /\ UNCHANGED <<disk, stub, faults>>

\* A conflict is reported when the sentinel is not given back in time.
ConflictNew(a) ==
    /\ author[a].pc = "started" /\ newLock # NoClaim
    /\ author' = [author EXCEPT ![a] = NoRun]
    /\ UNCHANGED <<disk, stub, newLock, faults>>

Done(a) ==
    /\ author' = [author EXCEPT ![a] = NoRun]
    /\ newLock' = IF newLock = a THEN NoClaim ELSE newLock

RefuseNew(a) ==
    /\ author[a].pc = "holding"
    /\ Taken(author[a].id) \/ disk[author[a].path] # NoClaim
    /\ Done(a)
    /\ UNCHANGED <<disk, stub, faults>>

missingModuleManifest == ~stub

\* The claim is not there, and neither is the file: the stub comes first.
WriteStub(a) ==
    /\ author[a].pc = "holding"
    /\ ~Taken(author[a].id) /\ disk[author[a].path] = NoClaim
    /\ author' = [author EXCEPT ![a].pc = "saving", ![a].wrote = missingModuleManifest]
    /\ stub' = TRUE
    /\ UNCHANGED <<disk, newLock, faults>>

SaveNew(a) ==
    /\ author[a].pc = "saving"
    /\ disk' = [disk EXCEPT ![author[a].path] = author[a].id]
    /\ Done(a)
    /\ UNCHANGED <<stub, faults>>

\* A save that fails takes its stub back.
SaveNewFails(a) ==
    /\ author[a].pc = "saving"
    /\ faults < 1 /\ faults' = faults + 1
    /\ stub' = (stub /\ ~author[a].wrote)
    /\ Done(a)
    /\ UNCHANGED disk

\* A killed run leaves the sentinel, which a person removes.
KillNew(a) ==
    /\ author[a].pc # "idle"
    /\ author' = [author EXCEPT ![a] = NoRun]
    /\ UNCHANGED <<disk, stub, newLock, faults>>

RemoveSentinel ==
    /\ newLock # NoClaim /\ author[newLock].pc = "idle"
    /\ newLock' = NoClaim
    /\ UNCHANGED <<disk, stub, author, faults>>

NewStep ==
    \/ RemoveSentinel
    \/ \E a \in Authors : \/ AcquireNew(a) \/ ConflictNew(a) \/ RefuseNew(a) \/ WriteStub(a)
                          \/ SaveNew(a) \/ SaveNewFails(a) \/ KillNew(a)

-----------------------------------------------------------------------------

\* The manifest a claim was authored with is there when the claim is.
OneClaimOneFile ==
    /\ \A p, q \in ClaimPaths : disk[p] = disk[q] /\ disk[p] # NoClaim => p = q
    /\ (\E p \in ClaimPaths : disk[p] # NoClaim) => stub

\* "Refusing to overwrite it": however the runs interleave, fail or are killed,
\* no file is written over, no id comes to be in two files, and the manifest a
\* claim was authored with is still there when the claim is on disk.
NewKeepsFiles ==
    [][/\ OneClaimOneFile'
       /\ \A p \in ClaimPaths : disk[p] # NoClaim => disk'[p] = disk[p]]_newVars

-----------------------------------------------------------------------------
(* The inductive invariant behind the theorems of ClaimNewProofs. *)

NewTyped ==
    /\ disk \in [ClaimPaths -> NewIds \cup {NoClaim}]
    /\ stub \in BOOLEAN
    /\ author \in [Authors -> [pc: {"idle", "started", "holding", "saving"}, id: NewIds \cup {NoClaim},
                               path: ClaimPaths \cup {NoClaim}, wrote: BOOLEAN]]
    /\ newLock \in Authors \cup {NoClaim}

\* A run about to save holds the sentinel, its id and its file are still free, the
\* manifest is there, and if it wrote the manifest no claim has come to need it.
SavesFresh(a) ==
    /\ author[a].pc # "idle" => author[a].id \in NewIds /\ author[a].path \in ClaimPaths
    /\ author[a].pc \in {"holding", "saving"} => newLock = a
    /\ author[a].pc = "saving" =>
          /\ ~Taken(author[a].id) /\ disk[author[a].path] = NoClaim /\ stub
          /\ author[a].wrote => \A p \in ClaimPaths : disk[p] = NoClaim

\* Inductive: what a run checked under the sentinel is still so when it saves.
NewInv == NewTyped /\ OneClaimOneFile /\ \A a \in Authors : SavesFresh(a)
=============================================================================
