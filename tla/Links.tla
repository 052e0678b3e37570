-------------------------------- MODULE Links --------------------------------
(***************************************************************************)
(* Code links: dossierx-claim and dossierx-step tags found in the source,  *)
(* and claim link, recorded in one artifact per module; and the gate that  *)
(* check holds a module to.                                                *)
(*                                                                         *)
(* The artifact is read, changed and written under its sentinel.  A scan   *)
(* reads the tags of every file first and hashes the files afterwards.     *)
(***************************************************************************)
EXTENDS Naturals, Sequences, FiniteSets

CONSTANTS
    Linkers,     \* processes: a check that scans, or a claim link
    Files,       \* the files under source_dirs
    Owned,       \* the module's claims
    Steps,       \* what a step of a claim can say
    MaxSteps,    \* bound on the steps of a claim
    NoStep,      \* the step of a whole-claim tag
    MaxVersion   \* bound on the saves of one file

ASSUME LinksAssumption == /\ {"free", "stale"} \cap Linkers = {}
                          /\ MaxVersion \in Nat \ {0} /\ MaxSteps \in Nat \ {0} /\ Steps # {}

VARIABLES
    source,     \* the files: their tags and version
    stands,     \* the claims: locked, their steps, whether they declare no code
    links,      \* the artifact: rows by claim, file and step
    sentinel,   \* who holds the artifact's sentinel: a linker, "free" or "stale"
    linker      \* what each process is doing

linkVars == <<source, stands, links, sentinel, linker>>

\* A tag names a claim and, for a step tag, the step's number and the hash of its words.
Tags == [claim: Owned, step: {0}, says: {NoStep}] \cup [claim: Owned, step: 1..MaxSteps, says: Steps]

Standing == [locked: BOOLEAN, steps: UNION {[1..n -> Steps] : n \in 0..MaxSteps}, none: BOOLEAN]

LinkKeys == Owned \X Files \X (0..MaxSteps)

Row == [version: 1..MaxVersion, says: Steps \cup {NoStep}, by: {"tag", "hand"}, raced: BOOLEAN]

\* found: the matches of a scan with the version they were read in.
Idle == [pc |-> "idle", found |-> {}, artifact |-> << >>, by |-> "tag"]

-----------------------------------------------------------------------------
(* Reading tags. *)

recordClaimTag(claims, t) == t.step = 0 /\ claims[t.claim].locked

\* Mutant of recordStepTag: the step's words are not compared.
recordStepTagNumber(claims, t) ==
    t.step # 0 /\ claims[t.claim].locked /\ t.step \in DOMAIN claims[t.claim].steps

recordStepTag(claims, t) ==
    /\ t.step # 0 /\ claims[t.claim].locked
    /\ t.step \in DOMAIN claims[t.claim].steps
    /\ t.says = claims[t.claim].steps[t.step]

\* The tags of a scan that will be recorded, and the ones it reports as errors.
Matches(claims) ==
    {[file |-> f, tag |-> t, seen |-> source[f].version] :
        f \in Files, t \in {t \in Tags : recordClaimTag(claims, t) \/ recordStepTag(claims, t)}}

Pending(claims) == {m \in Matches(claims) : m.tag \in source[m.file].tags}

ScanErrors(claims) == (UNION {source[f].tags : f \in Files}) \ {m.tag : m \in Pending(claims)}

-----------------------------------------------------------------------------
(* The writers. *)

Set(p, r) == linker' = [linker EXCEPT ![p] = r]

\* check loads the claims and walks the source.
Scan(p) ==
    /\ linker[p].pc = "idle" /\ Pending(stands) # {}
    /\ Set(p, [Idle EXCEPT !.pc = "walked", !.found = Pending(stands)])
    /\ UNCHANGED <<source, stands, links, sentinel>>

\* claim link of a locked claim to one file.
Link(p, c, f) ==
    /\ linker[p].pc = "idle" /\ stands[c].locked
    /\ Set(p, [Idle EXCEPT !.pc = "walked", !.by = "hand",
                           !.found = {[file |-> f, seen |-> source[f].version,
                                       tag |-> [claim |-> c, step |-> 0, says |-> NoStep]]}])
    /\ UNCHANGED <<source, stands, links, sentinel>>

Key(m) == <<m.tag.claim, m.file, m.tag.step>>

\* Mutant of applyLink: every row of the file gets the new hash.
applyLinkFile(p) ==
    [k \in {Key(m) : m \in linker[p].found} \cup {k \in DOMAIN links : \E m \in linker[p].found : m.file = k[2]} |->
        IF k \in DOMAIN links THEN [links[k] EXCEPT !.version = source[k[2]].version]
        ELSE LET m == CHOOSE m \in linker[p].found : Key(m) = k
             IN [version |-> source[m.file].version, says |-> m.tag.says, by |-> linker[p].by,
                 raced |-> m.seen # source[m.file].version]]

\* The rows of the batch, each with the hash its file has now.
applyLink(p) ==
    [k \in {Key(m) : m \in linker[p].found} |->
        LET m == CHOOSE m \in linker[p].found : Key(m) = k
        IN [version |-> source[m.file].version, says |-> m.tag.says, by |-> linker[p].by,
            raced |-> m.seen # source[m.file].version]]

\* A batch over the rows of the artifact.
Over(batch, rows) ==
    [k \in DOMAIN batch \cup DOMAIN rows |-> IF k \in DOMAIN batch THEN batch[k] ELSE rows[k]]

\* Mutant of Acquire: the artifact is read whoever holds the sentinel.
AcquireLater(p) ==
    /\ linker[p].pc = "walked" /\ sentinel # "stale"
    /\ sentinel' = p
    /\ Set(p, [linker[p] EXCEPT !.pc = "held", !.artifact = Over(applyLink(p), links)])
    /\ UNCHANGED <<source, stands, links>>

\* The artifact is read and the batch applied to it, in memory.
Acquire(p) ==
    /\ linker[p].pc = "walked" /\ sentinel = "free"
    /\ sentinel' = p
    /\ Set(p, [linker[p] EXCEPT !.pc = "held", !.artifact = Over(applyLink(p), links)])
    /\ UNCHANGED <<source, stands, links>>

GiveUp(p) ==
    /\ linker[p].pc = "walked" /\ sentinel # "free"
    /\ Set(p, Idle)
    /\ UNCHANGED <<source, stands, links, sentinel>>

\* The artifact replaces the file, or the write fails; the sentinel is removed.
WriteArtifact(p) ==
    /\ linker[p].pc = "held"
    /\ links' \in {linker[p].artifact, links}
    /\ sentinel' = "free"
    /\ Set(p, Idle)
    /\ UNCHANGED <<source, stands>>

\* A process is killed; a sentinel it held stays.
KillLinker(p) ==
    /\ linker[p].pc # "idle"
    /\ sentinel' = IF sentinel = p THEN "stale" ELSE sentinel
    /\ Set(p, Idle)
    /\ UNCHANGED <<source, stands, links>>

\* Told that no other dossierx runs, a human removes the file it left.
ClearStale ==
    /\ sentinel = "stale"
    /\ sentinel' = "free"
    /\ UNCHANGED <<source, stands, links, linker>>

-----------------------------------------------------------------------------
(* The people. *)

SaveFile(f) ==
    /\ source[f].version < MaxVersion
    /\ \E t \in Tags, with \in BOOLEAN :
          source' = [source EXCEPT ![f] = [tags |-> IF with THEN @.tags \cup {t} ELSE @.tags \ {t},
                                           version |-> @.version + 1]]
    /\ UNCHANGED <<stands, links, sentinel, linker>>

\* The claim is unlocked, or edited and locked again.
Reapprove(c) ==
    /\ \E s \in Standing : s # stands[c] /\ stands' = [stands EXCEPT ![c] = s]
    /\ UNCHANGED <<source, links, sentinel, linker>>

\* A claim of one step, tagged in one file, before its first scan.
LinksInit ==
    /\ stands = [c \in Owned |-> [locked |-> TRUE, steps |-> <<CHOOSE w \in Steps : TRUE>>, none |-> FALSE]]
    /\ source = [f \in Files |->
         [version |-> 1,
          tags |-> IF f # CHOOSE g \in Files : TRUE THEN {}
                   ELSE {[claim |-> c, step |-> 1, says |-> stands[c].steps[1]] : c \in Owned}]]
    /\ links = << >>
    /\ sentinel = "free"
    /\ linker = [p \in Linkers |-> Idle]

LinksNext ==
    \/ ClearStale
    \/ \E f \in Files : SaveFile(f)
    \/ \E c \in Owned : Reapprove(c)
    \/ \E p \in Linkers : \/ Scan(p) \/ Acquire(p) \/ GiveUp(p) \/ WriteArtifact(p) \/ KillLinker(p)
                         \/ \E c \in Owned, f \in Files : Link(p, c, f)

-----------------------------------------------------------------------------
(* The gate. *)

Expects(c) == stands[c].locked /\ ~stands[c].none

Unlinked == {c \in Owned : Expects(c) /\ \A k \in DOMAIN links : k[1] # c}

Covered(c) == {k[3] : k \in {k \in DOMAIN links : k[1] = c}} \cap DOMAIN stands[c].steps

Partial == {c \in Owned \ Unlinked : Expects(c) /\ Covered(c) # DOMAIN stands[c].steps}

Drifted == {k \in DOMAIN links : links[k].version # source[k[2]].version}

\* check passes the code-link gate: no tag is in error and no claim is short of links.
Gate == ScanErrors(stands) = {} /\ Unlinked = {} /\ Partial = {}

-----------------------------------------------------------------------------
(* Properties. *)

\* Links recorded by a scan and by claim link are never lost to each other, and
\* no stale copy of the artifact takes a link back to an older file: the
\* artifact is a link table.
Table == INSTANCE LinkTable WITH
    Keys <- LinkKeys,
    table <- [k \in DOMAIN links |-> links[k].version],
    current <- [k \in LinkKeys |-> source[k[2]].version]

LinksAreATable == Table!Spec

\* A link that is not reported drifted and came from a tag points at a file that
\* has the tag, unless the file was saved between the scan's reading it and the
\* hash of it that was recorded.
UndriftedAreTagged ==
    \A k \in DOMAIN links \ Drifted : links[k].by = "tag" /\ ~links[k].raced =>
        [claim |-> k[1], step |-> k[3], says |-> links[k].says] \in source[k[2]].tags

\* When the gate passes with nothing drifted, every step of every claim that is
\* expected to have code is named by a tag with the words it has now, unless a
\* file was saved during the scan.
GateMeansTagged ==
    Gate /\ Drifted = {} /\ (\A k \in DOMAIN links : ~links[k].raced) =>
        \A c \in Owned : Expects(c) => \A n \in DOMAIN stands[c].steps :
            \E f \in Files : [claim |-> c, step |-> n, says |-> stands[c].steps[n]] \in source[f].tags

-----------------------------------------------------------------------------
(* The inductive invariant behind the theorems of LinksProofs. *)

Found == [file: Files, tag: Tags, seen: Nat]

Artifacts == UNION {[D -> Row] : D \in SUBSET LinkKeys}

Doing == [pc: {"idle", "walked", "held"}, found: SUBSET Found, artifact: Artifacts, by: {"tag", "hand"}]

LinksTyped ==
    /\ source \in [Files -> [tags: SUBSET Tags, version: 1..MaxVersion]]
    /\ stands \in [Owned -> Standing]
    /\ links \in Artifacts
    /\ linker \in [Linkers -> Doing]

TagOf(k, r) == [claim |-> k[1], step |-> k[3], says |-> r.says]

\* A row is no newer than its file; recorded from a tag of the file as it still
\* is, the file has that tag.
RowTrue(k, r) ==
    /\ r.version <= source[k[2]].version
    /\ r.by = "hand" => k[3] = 0
    /\ r.by = "tag" /\ ~r.raced /\ r.version = source[k[2]].version
          => TagOf(k, r) \in source[k[2]].tags

\* So is a match of a scan, as of the version of the file it was read in.
MatchTrue(m, by) ==
    /\ m.seen <= source[m.file].version
    /\ by = "hand" => m.tag.step = 0
    /\ by = "tag" /\ m.seen = source[m.file].version => m.tag \in source[m.file].tags

\* What a process will write keeps every link of the artifact on disk, moves none
\* of them back, and adds the batch it found.
Extends(r) ==
    /\ DOMAIN r.artifact = DOMAIN links \cup {Key(m) : m \in r.found}
    /\ \A k \in DOMAIN r.artifact : RowTrue(k, r.artifact[k])
    /\ \A k \in DOMAIN links :
          /\ r.artifact[k].version >= links[k].version
          /\ k \notin {Key(m) : m \in r.found} => r.artifact[k] = links[k]

\* Inductive: under the sentinel a process holds, the artifact it will write extends
\* the one on disk, and every row of both is true of the sources.
LinksInv ==
    /\ LinksTyped
    /\ \A k \in DOMAIN links : RowTrue(k, links[k])
    /\ \A p \in Linkers :
          /\ \A m \in linker[p].found : MatchTrue(m, linker[p].by)
          /\ linker[p].pc = "held" => sentinel = p /\ Extends(linker[p])
=============================================================================
