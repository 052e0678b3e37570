----------------------------- MODULE DossierProofs -----------------------------
(* Theorems about the parts of a project and the project composed of them, for *)
(* every set of linkers, runs, files, claims, modules and releases: the links  *)
(* artifact is a LinkTable, claim new keeps files, polls miss no thread, images *)
(* are fresh, exports sound, pins provided, assessments right, internal claims  *)
(* hidden and byte bounds exact; and each holds of a project whose other files  *)
(* are edited and read beside theirs.                                           *)
EXTENDS Dossier, RecoveryProofs

-----------------------------------------------------------------------------
(* Code links: what a process finds, and what it makes of it. *)

\* The tags of a match are tags, its file is a file, and it was read just now.
LEMMA PendingFound ==
  ASSUME LinksTyped, NEW m \in Pending(stands)
  PROVE  m \in Found /\ MatchTrue(m, "tag")
<1>1. PICK f \in Files, t \in Tags : m = [file |-> f, tag |-> t, seen |-> source[f].version]
  BY DEF Pending, Matches
<1>2. m.tag \in source[m.file].tags
  BY DEF Pending
<1>3. source[f].version \in Nat
  BY LinksAssumption DEF LinksTyped
<1>4. m \in Found
  BY <1>1, <1>3 DEF Found
<1>5. MatchTrue(m, "tag")
  BY <1>1, <1>2, <1>3 DEF MatchTrue
<1> QED
  BY <1>4, <1>5

\* The key of a match, and the tag a row of that key stands for.
LEMMA KeyTyped ==
  ASSUME NEW m \in Found
  PROVE  /\ Key(m) \in LinkKeys /\ Key(m)[2] = m.file /\ Key(m)[3] = m.tag.step
         /\ m.tag = [claim |-> Key(m)[1], step |-> Key(m)[3], says |-> m.tag.says]
         /\ m.tag.says \in Steps \cup {NoStep}
<1>1. m.tag \in Tags /\ m.file \in Files
  BY DEF Found
<1>2. m.tag.claim \in Owned /\ m.tag.step \in 0..MaxSteps /\ m.tag.says \in Steps \cup {NoStep}
      /\ m.tag = [claim |-> m.tag.claim, step |-> m.tag.step, says |-> m.tag.says]
  <2>1. CASE m.tag \in [claim: Owned, step: {0}, says: {NoStep}]
    BY <2>1, LinksAssumption
  <2>2. CASE m.tag \in [claim: Owned, step: 1..MaxSteps, says: Steps]
    BY <2>2, LinksAssumption
  <2> QED
    BY <1>1, <2>1, <2>2 DEF Tags
<1> QED
  BY <1>1, <1>2 DEF Key, LinkKeys

\* The rows of a batch: typed, true, and with the versions the files have now.
LEMMA ApplyTyped ==
  ASSUME LinksInv, NEW p \in Linkers
  PROVE  /\ applyLink(p) \in [{Key(m) : m \in linker[p].found} -> Row]
         /\ \A k \in {Key(m) : m \in linker[p].found} :
               RowTrue(k, applyLink(p)[k]) /\ applyLink(p)[k].version = source[k[2]].version
<1> DEFINE B == {Key(m) : m \in linker[p].found}
<1>1. linker[p].found \subseteq Found /\ linker[p].by \in {"tag", "hand"}
  BY DEF LinksInv, LinksTyped, Doing
<1>2. SUFFICES ASSUME NEW k \in B
               PROVE  /\ applyLink(p)[k] \in Row /\ RowTrue(k, applyLink(p)[k])
                      /\ applyLink(p)[k].version = source[k[2]].version
  BY DEF applyLink
<1> DEFINE m == CHOOSE m \in linker[p].found : Key(m) = k
<1>3. m \in linker[p].found /\ Key(m) = k
  BY <1>2
<1> HIDE DEF m
<1>4. m \in Found /\ MatchTrue(m, linker[p].by)
  BY <1>1, <1>3 DEF LinksInv
<1>5. k[2] = m.file /\ k[3] = m.tag.step /\ m.tag.says \in Steps \cup {NoStep}
      /\ m.tag = [claim |-> k[1], step |-> k[3], says |-> m.tag.says]
  BY <1>3, <1>4, KeyTyped
<1>6. applyLink(p)[k] = [version |-> source[m.file].version, says |-> m.tag.says,
                         by |-> linker[p].by, raced |-> m.seen # source[m.file].version]
  BY <1>2 DEF applyLink, m
<1>7. m.file \in Files /\ source[m.file].version \in 1..MaxVersion
  BY <1>4 DEF LinksInv, LinksTyped, Found
<1>8. applyLink(p)[k] \in Row
  BY <1>1, <1>5, <1>6, <1>7 DEF Row
<1> DEFINE r == applyLink(p)[k]
<1>a. /\ r.version = source[m.file].version /\ r.says = m.tag.says /\ r.by = linker[p].by
      /\ r.raced = (m.seen # source[m.file].version)
  BY <1>6
<1>b. TagOf(k, r) = m.tag
  BY <1>5, <1>a DEF TagOf
<1> HIDE DEF r
<1>c. r.by = "tag" /\ ~r.raced => m.tag \in source[m.file].tags
  BY <1>4, <1>a DEF MatchTrue
<1>d. r.by = "hand" => k[3] = 0
  BY <1>4, <1>5, <1>a DEF MatchTrue
<1>e. r.version <= source[k[2]].version
  BY <1>5, <1>7, <1>a, LinksAssumption
<1>9. RowTrue(k, r)
  BY <1>5, <1>b, <1>c, <1>d, <1>e DEF RowTrue
<1> QED
  BY <1>5, <1>8, <1>9, <1>a DEF r

-----------------------------------------------------------------------------
(* One step of a process. *)

\* A process that does nothing has nothing to answer for.
LEMMA IdleTyped == Idle \in Doing /\ Idle.found = {} /\ Idle.pc = "idle"
<1>1. << >> \in [{} -> Row]
  OBVIOUS
<1>2. << >> \in Artifacts
  BY <1>1 DEF Artifacts
<1> QED
  BY <1>2 DEF Idle, Doing

\* p moves on with a record r of its own; nobody else's sentinel is touched.
LEMMA SetKeeps ==
  ASSUME LinksInv, NEW p \in Linkers, NEW r \in Doing, Set(p, r), UNCHANGED <<source, stands, links>>,
         \A m \in r.found : MatchTrue(m, r.by),
         r.pc = "held" => sentinel' = p /\ Extends(r),
         \A q \in Linkers \ {p} : sentinel = q => sentinel' = q
  PROVE  LinksInv'
<1>1. linker' = [linker EXCEPT ![p] = r] /\ linker \in [Linkers -> Doing]
  BY DEF Set, LinksInv, LinksTyped
<1>2. linker' \in [Linkers -> Doing] /\ linker'[p] = r
      /\ \A q \in Linkers \ {p} : linker'[q] = linker[q]
  BY <1>1
<1>3. LinksTyped'
  BY <1>2 DEF LinksInv, LinksTyped
<1>4. \A k \in DOMAIN links' : RowTrue(k, links[k])'
  BY DEF LinksInv, RowTrue
<1>5. ASSUME NEW q \in Linkers
      PROVE  /\ \A m \in linker'[q].found : MatchTrue(m, linker[q].by)'
             /\ linker'[q].pc = "held" => sentinel' = q /\ Extends(linker[q])'
  <2>1. CASE q = p
    BY <1>2, <2>1 DEF MatchTrue, Extends, RowTrue
  <2>2. CASE q # p
    <3>1. linker'[q] = linker[q]
      BY <1>2, <2>2
    <3>2. /\ \A m \in linker[q].found : MatchTrue(m, linker[q].by)
          /\ linker[q].pc = "held" => sentinel = q /\ Extends(linker[q])
      BY DEF LinksInv
    <3> QED
      BY <2>2, <3>1, <3>2 DEF MatchTrue, Extends, RowTrue
  <2> QED
    BY <2>1, <2>2
<1> QED
  BY <1>3, <1>4, <1>5 DEF LinksInv

\* A scan remembers the matches it found; it writes nothing.
LEMMA ScanKeeps == ASSUME LinksInv, NEW p \in Linkers, Scan(p) PROVE LinksInv'
<1> DEFINE r == [Idle EXCEPT !.pc = "walked", !.found = Pending(stands)]
<1>1. r \in Doing /\ r.found = Pending(stands) /\ r.by = "tag" /\ r.pc = "walked"
  BY IdleTyped, PendingFound DEF Doing, Idle, LinksInv
<1>2. \A m \in r.found : MatchTrue(m, r.by)
  BY <1>1, PendingFound DEF LinksInv
<1>3. Set(p, r) /\ UNCHANGED <<source, stands, links, sentinel>>
  BY DEF Scan
<1> HIDE DEF r
<1> QED
  BY <1>1, <1>2, <1>3, SetKeeps

\* claim link remembers the one row it will record.
LEMMA LinkKeeps ==
  ASSUME LinksInv, NEW p \in Linkers, NEW c \in Owned, NEW f \in Files, Link(p, c, f)
  PROVE  LinksInv'
<1> DEFINE t == [claim |-> c, step |-> 0, says |-> NoStep]
           m == [file |-> f, seen |-> source[f].version, tag |-> t]
           r == [Idle EXCEPT !.pc = "walked", !.by = "hand", !.found = {m}]
<1>1. source[f].version \in Nat /\ t \in Tags
  BY LinksAssumption DEF LinksInv, LinksTyped, Tags
<1>2. m \in Found /\ MatchTrue(m, "hand")
  BY <1>1 DEF Found, MatchTrue
<1>3. Set(p, r) /\ UNCHANGED <<source, stands, links, sentinel>>
  BY DEF Link
<1> HIDE DEF m
<1>4. r \in Doing /\ r.found = {m} /\ r.by = "hand" /\ r.pc = "walked"
  BY <1>2, IdleTyped DEF Doing, Idle
<1> HIDE DEF r
<1> QED
  BY <1>2, <1>3, <1>4, SetKeeps

\* The batch over the artifact on disk: typed, true, and an extension of it.
LEMMA AppliedExtends ==
  ASSUME LinksInv, NEW p \in Linkers, NEW r, r.found = linker[p].found,
         r.artifact = Over(applyLink(p), links)
  PROVE  r.artifact \in Artifacts /\ Extends(r)
<1> DEFINE B == {Key(m) : m \in linker[p].found}
           b == applyLink(p)
           new == Over(b, links)
<1>1. b \in [B -> Row] /\ \A k \in B : RowTrue(k, b[k]) /\ b[k].version = source[k[2]].version
  BY ApplyTyped
<1>2. PICK D \in SUBSET LinkKeys : links \in [D -> Row]
  BY DEF LinksInv, LinksTyped, Artifacts
<1>a. linker[p].found \subseteq Found
  BY DEF LinksInv, LinksTyped, Doing
<1>3. B \subseteq LinkKeys
  BY <1>a, KeyTyped
<1> HIDE DEF b, B
<1>4. new = [k \in B \cup D |-> IF k \in B THEN b[k] ELSE links[k]]
  BY <1>1, <1>2 DEF Over
<1>5. new \in [B \cup D -> Row] /\ DOMAIN new = B \cup D /\ DOMAIN links = D
  BY <1>1, <1>2, <1>4
<1>6. new \in Artifacts
  BY <1>2, <1>3, <1>5 DEF Artifacts
<1>7. \A k \in D : RowTrue(k, links[k])
  BY <1>5 DEF LinksInv
<1>8. ASSUME NEW k \in B \cup D PROVE RowTrue(k, new[k])
  BY <1>1, <1>4, <1>7
<1>9. ASSUME NEW k \in D
      PROVE  new[k].version >= links[k].version /\ (k \notin B => new[k] = links[k])
  <2>1. CASE k \in B
    <3>1. links[k].version <= source[k[2]].version
      BY <1>7 DEF RowTrue
    <3>2. b[k].version = source[k[2]].version /\ new[k] = b[k]
      BY <1>1, <1>4, <2>1
    <3>3. links[k].version \in Nat /\ b[k].version \in Nat
      BY <1>1, <1>2, <2>1, LinksAssumption DEF Row
    <3> QED
      BY <2>1, <3>1, <3>2, <3>3
  <2>2. CASE k \notin B
    <3>1. new[k] = links[k] /\ links[k].version \in Nat
      BY <1>2, <1>4, <2>2, LinksAssumption DEF Row
    <3> QED
      BY <3>1
  <2> QED
    BY <2>1, <2>2
<1>10. r.artifact = new
  BY DEF b
<1> HIDE DEF new
<1>11. Extends(r)
  BY <1>5, <1>8, <1>9, <1>10 DEF Extends, B
<1> QED
  BY <1>6, <1>10, <1>11

\* The sentinel is taken, and the batch applied to the artifact as it then is.
LEMMA AcquireKeeps == ASSUME LinksInv, NEW p \in Linkers, Acquire(p) PROVE LinksInv'
<1> DEFINE r == [linker[p] EXCEPT !.pc = "held", !.artifact = Over(applyLink(p), links)]
<1>1. linker[p] \in Doing
  BY DEF LinksInv, LinksTyped
<1>2. r.pc = "held" /\ r.found = linker[p].found /\ r.by = linker[p].by
      /\ r.artifact = Over(applyLink(p), links)
  BY <1>1 DEF Doing
<1>3. r.artifact \in Artifacts /\ Extends(r)
  BY <1>2, AppliedExtends
<1>4. r \in Doing
  BY <1>1, <1>3 DEF Doing
<1>5. \A m \in r.found : MatchTrue(m, r.by)
  BY <1>2 DEF LinksInv
<1>6. Set(p, r) /\ UNCHANGED <<source, stands, links>> /\ sentinel = "free" /\ sentinel' = p
  BY DEF Acquire
<1>7. "free" \notin Linkers
  BY LinksAssumption
<1> HIDE DEF r
<1> QED
  BY <1>2, <1>3, <1>4, <1>5, <1>6, <1>7, SetKeeps

\* A process that gives up or is killed forgets what it had in memory.
LEMMA ForgetKeeps ==
  ASSUME LinksInv, NEW p \in Linkers, Set(p, Idle), UNCHANGED <<source, stands, links>>,
         \A q \in Linkers \ {p} : sentinel = q => sentinel' = q
  PROVE  LinksInv'
  BY SetKeeps, IdleTyped

\* The artifact replaces the file, and nobody else had one to write.
LEMMA WriteArtifactKeeps == ASSUME LinksInv, NEW p \in Linkers, WriteArtifact(p) PROVE LinksInv'
<1>1. sentinel = p /\ Extends(linker[p]) /\ linker[p] \in Doing
  BY DEF WriteArtifact, LinksInv, LinksTyped
<1>2. CASE links' = links
  BY <1>1, <1>2, ForgetKeeps DEF WriteArtifact
<1>3. CASE links' = linker[p].artifact
  <2>1. linker' = [linker EXCEPT ![p] = Idle] /\ linker \in [Linkers -> Doing] /\ source' = source
        /\ stands' = stands
    BY DEF WriteArtifact, Set, LinksInv, LinksTyped
  <2>2. linker' \in [Linkers -> Doing] /\ linker'[p] = Idle
        /\ \A q \in Linkers \ {p} : linker'[q] = linker[q]
    BY <2>1, IdleTyped
  <2>3. LinksTyped'
    BY <1>1, <1>3, <2>1, <2>2 DEF LinksInv, LinksTyped, Doing
  <2>4. \A k \in DOMAIN links' : RowTrue(k, links[k])'
    BY <1>1, <1>3, <2>1 DEF Extends, RowTrue
  <2>5. ASSUME NEW q \in Linkers
        PROVE  linker'[q].pc # "held" /\ \A m \in linker'[q].found : MatchTrue(m, linker[q].by)'
    <3>1. CASE q = p
      BY <2>2, <3>1, IdleTyped
    <3>2. CASE q # p
      BY <1>1, <2>1, <2>2, <3>2 DEF LinksInv, MatchTrue
    <3> QED
      BY <3>1, <3>2
  <2> QED
    BY <2>3, <2>4, <2>5 DEF LinksInv
<1> QED
  BY <1>2, <1>3 DEF WriteArtifact

-----------------------------------------------------------------------------
(* What people do. *)

\* A killed process leaves its sentinel, stale; a human removes it.
LEMMA KillKeeps ==
  /\ \A p \in Linkers : LinksInv /\ (KillLinker(p) \/ GiveUp(p)) => LinksInv'
  /\ LinksInv /\ ClearStale => LinksInv'
<1>1. ASSUME LinksInv, NEW p \in Linkers, KillLinker(p) PROVE LinksInv'
  BY <1>1, ForgetKeeps DEF KillLinker
<1>2. ASSUME LinksInv, NEW p \in Linkers, GiveUp(p) PROVE LinksInv'
  BY <1>2, ForgetKeeps DEF GiveUp
<1>3. ASSUME LinksInv, ClearStale PROVE LinksInv'
  <2>1. /\ UNCHANGED <<source, stands, links, linker>>
        /\ \A q \in Linkers : linker[q].pc # "held"
    BY <1>3, LinksAssumption DEF LinksInv, ClearStale
  <2> QED
    BY <1>3, <2>1 DEF LinksInv, LinksTyped, RowTrue, MatchTrue
<1> QED
  BY <1>1, <1>2, <1>3

\* Saves give a file new tags and a newer version; what is known of the older
\* version stays true, for it says nothing of the newer one.
LEMMA SaveFileKeeps == ASSUME LinksInv, NEW f \in Files, SaveFile(f) PROVE LinksInv'
<1>1. source \in [Files -> [tags: SUBSET Tags, version: 1..MaxVersion]] /\ MaxVersion \in Nat
  BY LinksAssumption DEF LinksInv, LinksTyped
<1>2. PICK tags \in SUBSET Tags :
         source' = [source EXCEPT ![f] = [tags |-> tags, version |-> source[f].version + 1]]
  <2>1. PICK t \in Tags, with \in BOOLEAN :
           source' = [source EXCEPT ![f] =
              [tags |-> IF with THEN source[f].tags \cup {t} ELSE source[f].tags \ {t},
               version |-> source[f].version + 1]]
    BY DEF SaveFile
  <2>2. source[f].tags \in SUBSET Tags
    BY <1>1
  <2> QED
    BY <2>1, <2>2
<1>3. UNCHANGED <<stands, links, sentinel, linker>> /\ source[f].version < MaxVersion
  BY DEF SaveFile
<1>4. source' \in [Files -> [tags: SUBSET Tags, version: 1..MaxVersion]]
  BY <1>1, <1>2, <1>3
<1>5. ASSUME NEW g \in Files
      PROVE  /\ source[g].version \in Nat
             /\ \/ source'[g] = source[g]
                \/ source'[g].version = source[g].version + 1
  BY <1>1, <1>2
<1>6. ASSUME NEW k \in LinkKeys, NEW r \in Row, RowTrue(k, r) PROVE RowTrue(k, r)'
  <2>1. k[2] \in Files /\ r.version \in Nat
    BY LinksAssumption DEF LinkKeys, Row
  <2> QED
    BY <1>5, <1>6, <2>1 DEF RowTrue, TagOf
<1>7. ASSUME NEW m \in Found, NEW by, MatchTrue(m, by) PROVE MatchTrue(m, by)'
  <2>1. m.file \in Files /\ m.seen \in Nat
    BY DEF Found
  <2> QED
    BY <1>5, <1>7, <2>1 DEF MatchTrue
<1>8. LinksTyped'
  BY <1>3, <1>4 DEF LinksInv, LinksTyped
<1>9. ASSUME NEW a \in Artifacts, \A k \in DOMAIN a : RowTrue(k, a[k])
      PROVE  \A k \in DOMAIN a : RowTrue(k, a[k])'
  BY <1>6, <1>9 DEF Artifacts
<1>10. \A k \in DOMAIN links' : RowTrue(k, links[k])'
  BY <1>3, <1>9 DEF LinksInv, LinksTyped
<1>11. ASSUME NEW p \in Linkers
       PROVE  /\ \A m \in linker'[p].found : MatchTrue(m, linker[p].by)'
              /\ linker'[p].pc = "held" => sentinel' = p /\ Extends(linker[p])'
  <2>1. linker[p] \in Doing
    BY DEF LinksInv, LinksTyped
  <2>2. /\ \A m \in linker[p].found : m \in Found /\ MatchTrue(m, linker[p].by)
        /\ linker[p].pc = "held" => sentinel = p /\ Extends(linker[p])
    BY <2>1 DEF LinksInv, Doing
  <2>3. \A m \in linker'[p].found : MatchTrue(m, linker[p].by)'
    BY <1>3, <1>7, <2>2
  <2>4. Extends(linker[p]) => Extends(linker[p])'
    BY <1>3, <1>9, <2>1 DEF Extends, Doing
  <2> QED
    BY <1>3, <2>2, <2>3, <2>4
<1> QED
  BY <1>8, <1>10, <1>11 DEF LinksInv

\* Approvals come and go without the artifact hearing of it.
LEMMA ReapproveKeeps == ASSUME LinksInv, NEW c \in Owned, Reapprove(c) PROVE LinksInv'
<1>1. PICK s \in Standing : stands' = [stands EXCEPT ![c] = s]
  BY DEF Reapprove
<1>2. stands' \in [Owned -> Standing]
  BY <1>1 DEF LinksInv, LinksTyped
<1> QED
  BY <1>2 DEF Reapprove, LinksInv, LinksTyped, RowTrue, MatchTrue, Extends

-----------------------------------------------------------------------------
(* The theorems. *)

LinksSpec == LinksInit /\ [][LinksNext]_linkVars

LEMMA InitLinksInv == LinksInit => LinksInv
<1> SUFFICES ASSUME LinksInit PROVE LinksInv
  OBVIOUS
<1>1. links = << >> /\ DOMAIN links = {} /\ links \in Artifacts
  BY IdleTyped DEF LinksInit, Idle, Doing
<1> DEFINE w == CHOOSE w \in Steps : TRUE
<1>a. w \in Steps /\ \A c \in Owned : stands[c].steps[1] = w
  BY LinksAssumption DEF LinksInit
<1> HIDE DEF w
<1>b. \A c \in Owned : [claim |-> c, step |-> 1, says |-> stands[c].steps[1]] \in Tags
  BY <1>a, LinksAssumption DEF Tags
<1> DEFINE T == {[claim |-> c, step |-> 1, says |-> stands[c].steps[1]] : c \in Owned}
           first == CHOOSE g \in Files : TRUE
<1>c. T \in SUBSET Tags
  BY <1>b
<1>d. source = [f \in Files |-> [version |-> 1, tags |-> IF f # first THEN {} ELSE T]]
  BY DEF LinksInit
<1> HIDE DEF T, first
<1>2. source \in [Files -> [tags: SUBSET Tags, version: 1..MaxVersion]]
  BY <1>c, <1>d, LinksAssumption
<1>3. <<w>> \in [1..1 -> Steps]
  BY <1>a
<1>4. <<w>> \in UNION {[1..n -> Steps] : n \in 0..MaxSteps}
  BY <1>3, LinksAssumption
<1>5. stands \in [Owned -> Standing]
  BY <1>4 DEF LinksInit, Standing, w
<1> QED
  BY <1>1, <1>2, <1>5, IdleTyped DEF LinksInit, LinksInv, LinksTyped

LEMMA NextLinksInv == LinksInv /\ [LinksNext]_linkVars => LinksInv'
<1> SUFFICES ASSUME LinksInv, [LinksNext]_linkVars PROVE LinksInv'
  OBVIOUS
<1>1. CASE UNCHANGED linkVars
  BY <1>1 DEF linkVars, LinksInv, LinksTyped, RowTrue, MatchTrue, Extends
<1>2. CASE LinksNext
  BY <1>2, KillKeeps, SaveFileKeeps, ReapproveKeeps, ScanKeeps, LinkKeeps, AcquireKeeps,
     WriteArtifactKeeps DEF LinksNext
<1> QED
  BY <1>1, <1>2

\* A write of the artifact records one batch in the table, a save moves a file's
\* version, and nothing else shows.
LEMMA StepRefines == LinksInv /\ [LinksNext]_linkVars => [Table!Next]_Table!vars
<1> SUFFICES ASSUME LinksInv, [LinksNext]_linkVars PROVE [Table!Next]_Table!vars
  OBVIOUS
<1>1. ASSUME UNCHANGED <<links, source>> PROVE UNCHANGED Table!vars
  BY <1>1 DEF Table!vars
<1>2. ASSUME NEW p \in Linkers, WriteArtifact(p), links' = linker[p].artifact PROVE Table!Next
  <2> DEFINE batch == {Key(m) : m \in linker[p].found}
  <2>1. linker[p] \in Doing /\ Extends(linker[p]) /\ source' = source
    BY <1>2 DEF LinksInv, LinksTyped, WriteArtifact
  <2>2. linker[p].found \subseteq Found
    BY <2>1 DEF Doing
  <2>3. batch \in SUBSET LinkKeys
    BY <2>2, KeyTyped
  <2> HIDE DEF batch
  <2>4. /\ DOMAIN links' = DOMAIN links \cup batch
        /\ \A k \in DOMAIN links' : links'[k].version <= source[k[2]].version
        /\ \A k \in DOMAIN links : links'[k].version >= links[k].version
        /\ \A k \in DOMAIN links : k \notin batch => links'[k] = links[k]
    BY <1>2, <2>1 DEF Extends, RowTrue, batch
  <2> QED
    BY <2>1, <2>3, <2>4 DEF Table!Next, Table!Record
<1>3. ASSUME NEW f \in Files, SaveFile(f) PROVE Table!Next
  <2>1. LinksInv' /\ links' = links
    BY <1>3, SaveFileKeeps DEF SaveFile
  <2>2. /\ source \in [Files -> [tags: SUBSET Tags, version: 1..MaxVersion]]
        /\ \A g \in Files : source'[g].version \in 1..MaxVersion
    BY <2>1 DEF LinksInv, LinksTyped
  <2>3. \A g \in Files : source'[g].version \in Nat /\ source'[g].version >= source[g].version
    BY <1>3, <2>2, LinksAssumption DEF SaveFile
  <2>4. \A k \in LinkKeys : k[2] \in Files
    BY DEF LinkKeys
  <2>5. Table!Save
    BY <2>1, <2>3, <2>4 DEF Table!Save
  <2> QED
    BY <2>5 DEF Table!Next
<1>4. CASE UNCHANGED linkVars
  BY <1>1, <1>4 DEF linkVars
<1>5. CASE LinksNext
  <2>1. ASSUME ClearStale \/ (\E c \in Owned : Reapprove(c)) PROVE UNCHANGED <<links, source>>
    BY <2>1 DEF ClearStale, Reapprove
  <2>2. ASSUME NEW p \in Linkers,
               \/ Scan(p) \/ Acquire(p) \/ GiveUp(p) \/ KillLinker(p)
               \/ \E c \in Owned, f \in Files : Link(p, c, f)
        PROVE  UNCHANGED <<links, source>>
    BY <2>2 DEF Scan, Acquire, GiveUp, KillLinker, Link
  <2>3. ASSUME NEW p \in Linkers, WriteArtifact(p)
        PROVE  Table!Next \/ UNCHANGED <<links, source>>
    BY <1>2, <2>3 DEF WriteArtifact
  <2> QED
    BY <1>1, <1>3, <1>5, <2>1, <2>2, <2>3 DEF LinksNext
<1> QED
  BY <1>4, <1>5

LEMMA InitRefines == LinksInit => Table!Init
<1> SUFFICES ASSUME LinksInit PROVE Table!Init
  OBVIOUS
<1>1. [k \in DOMAIN links |-> links[k].version] = << >>
  BY DEF LinksInit
<1>2. LinksInv
  BY InitLinksInv
<1>3. \A k \in LinkKeys : source[k[2]].version \in Nat
  BY <1>2, LinksAssumption DEF LinksInv, LinksTyped, LinkKeys
<1> QED
  BY <1>1, <1>3 DEF Table!Init

\* Scans and claim link, interleaved and killed at any point, refine the link table:
\* no link is lost, and none goes back to an older file (implink's artifact).
THEOREM LinksRefine == LinksSpec => LinksAreATable
<1>1. LinksInit => LinksInv /\ Table!Init
  BY InitLinksInv, InitRefines
<1>2. LinksInv /\ [LinksNext]_linkVars => LinksInv' /\ [Table!Next]_Table!vars
  BY NextLinksInv, StepRefines
<1> QED
  BY <1>1, <1>2, PTL DEF LinksSpec, LinksAreATable, Table!Spec

\* A passing gate without drift means that the code is tagged: it holds wherever the
\* rows are true of the sources, for the rows of the steps are rows of tags.
LEMMA GateTagged == LinksInv => UndriftedAreTagged /\ GateMeansTagged
<1> SUFFICES ASSUME LinksInv PROVE UndriftedAreTagged /\ GateMeansTagged
  OBVIOUS
<1>1. PICK D \in SUBSET LinkKeys : links \in [D -> Row]
  BY DEF LinksInv, LinksTyped, Artifacts
<1>2. UndriftedAreTagged
  BY DEF UndriftedAreTagged, LinksInv, RowTrue, TagOf, Drifted
<1>3. SUFFICES ASSUME Gate, Drifted = {}, \A k \in DOMAIN links : ~links[k].raced,
                      NEW c \in Owned, Expects(c), NEW n \in DOMAIN stands[c].steps
               PROVE  \E f \in Files : [claim |-> c, step |-> n, says |-> stands[c].steps[n]]
                                           \in source[f].tags
  BY <1>2 DEF GateMeansTagged
<1>4. n \in Covered(c)
  BY <1>3 DEF Gate, Unlinked, Partial
<1>5. PICK k \in D : k[1] = c /\ k[3] = n
  BY <1>1, <1>4 DEF Covered
<1>6. k[2] \in Files /\ links[k] \in Row /\ k \notin Drifted /\ ~links[k].raced /\ RowTrue(k, links[k])
  BY <1>1, <1>3 DEF LinkKeys, LinksInv
<1>a. stands[c].steps \in UNION {[1..l -> Steps] : l \in 0..MaxSteps}
  BY DEF LinksInv, LinksTyped, Standing
<1>b. PICK l \in 0..MaxSteps : stands[c].steps \in [1..l -> Steps]
  BY <1>a
<1>7. n # 0
  BY <1>3, <1>b
<1>8. links[k].by = "tag"
  BY <1>5, <1>6, <1>7 DEF RowTrue, Row
<1> DEFINE t == [claim |-> c, step |-> n, says |-> links[k].says]
<1>9. t \in source[k[2]].tags
  BY <1>1, <1>2, <1>5, <1>6, <1>8 DEF UndriftedAreTagged
<1>10. t \notin ScanErrors(stands)
  BY <1>3 DEF Gate
<1>11. PICK m \in Pending(stands) : m.tag = t
  BY <1>6, <1>9, <1>10 DEF ScanErrors
<1>12. recordClaimTag(stands, t) \/ recordStepTag(stands, t)
  BY <1>11 DEF Pending, Matches
<1>13. t.says = stands[c].steps[n]
  BY <1>7, <1>12 DEF recordClaimTag, recordStepTag
<1> QED
  BY <1>6, <1>9, <1>13

\* Whatever people save, approve and kill, the gate and the absence of drift mean
\* that the code is tagged (linkgate, DriftReport).
THEOREM LinksTagged == LinksSpec => [](UndriftedAreTagged /\ GateMeansTagged)
  BY InitLinksInv, NextLinksInv, GateTagged, PTL DEF LinksSpec

-----------------------------------------------------------------------------
(* claim new, for every set of runs, ids and files: no run writes over a file, *)
(* gives an id twice, or takes away a manifest in use.                         *)

NewNext == NewStep \/ \E a \in Authors : StartNew(a)

NewSpec == NewInit /\ [][NewNext]_newVars

LEMMA InitNewInv == NewInit => NewInv
<1> SUFFICES ASSUME NewInit PROVE NewInv
  OBVIOUS
<1>1. /\ \A a \in Authors : author[a] = NoRun
      /\ \A p \in ClaimPaths : disk[p] = NoClaim
      /\ author = [a \in Authors |-> NoRun] /\ disk = [p \in ClaimPaths |-> NoClaim]
      /\ stub = FALSE /\ newLock = NoClaim
  BY DEF NewInit
<1>2. NoRun \in [pc: {"idle", "started", "holding", "saving"}, id: NewIds \cup {NoClaim},
                path: ClaimPaths \cup {NoClaim}, wrote: BOOLEAN]
  BY DEF NoRun
<1>3. NewTyped
  BY <1>1, <1>2 DEF NewTyped
<1>4. OneClaimOneFile
  BY <1>1 DEF OneClaimOneFile
<1>5. \A a \in Authors : SavesFresh(a)
  BY <1>1 DEF SavesFresh, NoRun
<1> QED
  BY <1>3, <1>4, <1>5 DEF NewInv

\* A run that is over answers for nothing, and the others are as they were.
LEMMA OverKeeps ==
  ASSUME NewInv, NEW a \in Authors, author' = [author EXCEPT ![a] = NoRun],
         newLock' = newLock \/ (newLock = a /\ newLock' = NoClaim), UNCHANGED <<disk, stub>>
  PROVE  NewInv'
  BY NewAssumption DEF NewInv, NewTyped, NoRun, OneClaimOneFile, SavesFresh, Taken

\* Two runs are never both past the sentinel.
LEMMA OneHolds ==
  ASSUME NewInv, NEW a \in Authors, NEW b \in Authors \ {a}, author[a].pc \in {"holding", "saving"}
  PROVE  author[b].pc \notin {"holding", "saving"}
  BY DEF NewInv, SavesFresh

LEMMA StartKeeps == ASSUME NewInv, NEW a \in Authors, StartNew(a) PROVE NewInv'
<1>1. PICK i \in NewIds, p \in ClaimPaths :
         author' = [author EXCEPT ![a] = [NoRun EXCEPT !.pc = "started", !.id = i, !.path = p]]
  BY DEF StartNew
<1>a. NoRun \in [pc: {"idle", "started", "holding", "saving"}, id: NewIds \cup {NoClaim},
                path: ClaimPaths \cup {NoClaim}, wrote: BOOLEAN]
  BY DEF NoRun
<1>b. [NoRun EXCEPT !.pc = "started", !.id = i, !.path = p]
        \in [pc: {"started"}, id: {i}, path: {p}, wrote: BOOLEAN]
  BY <1>a
<1>2. /\ author'[a] \in [pc: {"started"}, id: {i}, path: {p}, wrote: BOOLEAN]
      /\ \A b \in Authors \ {a} : author'[b] = author[b]
      /\ author' \in [Authors -> [pc: {"idle", "started", "holding", "saving"}, id: NewIds \cup {NoClaim},
                                  path: ClaimPaths \cup {NoClaim}, wrote: BOOLEAN]]
  BY <1>1, <1>b DEF NewInv, NewTyped
<1>3. UNCHANGED <<disk, stub, newLock>>
  BY DEF StartNew
<1>4. NewTyped'
  BY <1>2, <1>3 DEF NewInv, NewTyped
<1>5. ASSUME NEW b \in Authors PROVE SavesFresh(b)'
  BY <1>2, <1>3 DEF NewInv, NewTyped, SavesFresh, Taken
<1> QED
  BY <1>3, <1>4, <1>5 DEF NewInv, OneClaimOneFile

LEMMA AcquireNewKeeps == ASSUME NewInv, NEW a \in Authors, AcquireNew(a) PROVE NewInv'
  BY NewAssumption DEF AcquireNew, NewInv, NewTyped, NoRun, OneClaimOneFile, SavesFresh, Taken

\* The manifest comes first, and is this run's own only when there was none, and
\* hence no claim either.
LEMMA StubKeeps == ASSUME NewInv, NEW a \in Authors, WriteStub(a) PROVE NewInv'
<1>1. author \in [Authors -> [pc: {"idle", "started", "holding", "saving"}, id: NewIds \cup {NoClaim},
                              path: ClaimPaths \cup {NoClaim}, wrote: BOOLEAN]]
  BY DEF NewInv, NewTyped
<1>2. /\ author' \in [Authors -> [pc: {"idle", "started", "holding", "saving"}, id: NewIds \cup {NoClaim},
                                  path: ClaimPaths \cup {NoClaim}, wrote: BOOLEAN]]
      /\ author'[a].pc = "saving" /\ author'[a].wrote = ~stub
      /\ author'[a].id = author[a].id /\ author'[a].path = author[a].path
      /\ \A b \in Authors \ {a} : author'[b] = author[b]
  BY <1>1 DEF WriteStub, missingModuleManifest, NewInv, NewTyped
<1>3. UNCHANGED <<disk, newLock>> /\ stub' = TRUE /\ author[a].pc = "holding"
      /\ ~Taken(author[a].id) /\ disk[author[a].path] = NoClaim
  BY DEF WriteStub
<1>4. ~stub => \A p \in ClaimPaths : disk[p] = NoClaim
  BY DEF NewInv, OneClaimOneFile
<1>5. SavesFresh(a)'
  BY <1>2, <1>3, <1>4 DEF NewInv, SavesFresh, Taken
<1>6. ASSUME NEW b \in Authors \ {a} PROVE SavesFresh(b)'
  BY <1>2, <1>3, <1>6, OneHolds DEF NewInv, SavesFresh, Taken
<1> QED
  BY <1>2, <1>3, <1>5, <1>6 DEF NewInv, NewTyped, OneClaimOneFile

\* A save fills a file that is still free with an id that is still free.
LEMMA SaveKeeps == ASSUME NewInv, NEW a \in Authors, SaveNew(a) PROVE NewInv'
<1>1. author[a].pc = "saving" /\ author[a].id \in NewIds /\ author[a].path \in ClaimPaths
      /\ ~Taken(author[a].id) /\ disk[author[a].path] = NoClaim /\ stub = TRUE /\ newLock = a
  BY DEF SaveNew, NewInv, NewTyped, SavesFresh
<1>2. disk' = [disk EXCEPT ![author[a].path] = author[a].id] /\ stub' = stub
      /\ author' = [author EXCEPT ![a] = NoRun] /\ newLock' = NoClaim
  BY <1>1 DEF SaveNew, Done
<1>3. NewTyped'
  BY <1>1, <1>2 DEF NewInv, NewTyped, NoRun
<1>4. OneClaimOneFile'
  BY <1>1, <1>2, NewAssumption DEF NewInv, NewTyped, OneClaimOneFile, Taken
<1>5. ASSUME NEW b \in Authors PROVE SavesFresh(b)'
  <2>1. CASE b = a
    BY <1>2, <2>1 DEF NewInv, NewTyped, SavesFresh, NoRun
  <2>2. CASE b # a
    BY <1>1, <1>2, <2>2, OneHolds DEF NewInv, NewTyped, SavesFresh
  <2> QED
    BY <2>1, <2>2
<1> QED
  BY <1>3, <1>4, <1>5 DEF NewInv

\* A save that fails takes away only a manifest no claim was authored with.
LEMMA SaveFailsKeeps == ASSUME NewInv, NEW a \in Authors, SaveNewFails(a) PROVE NewInv'
<1>1. author[a].pc = "saving" /\ newLock = a /\ author[a].wrote \in BOOLEAN
      /\ (author[a].wrote => \A p \in ClaimPaths : disk[p] = NoClaim)
  BY DEF SaveNewFails, NewInv, NewTyped, SavesFresh
<1>2. disk' = disk /\ stub' = (stub /\ ~author[a].wrote)
      /\ author' = [author EXCEPT ![a] = NoRun] /\ newLock' = NoClaim
  BY <1>1 DEF SaveNewFails, Done
<1>3. NewTyped'
  BY <1>1, <1>2 DEF NewInv, NewTyped, NoRun
<1>4. OneClaimOneFile'
  BY <1>1, <1>2 DEF NewInv, OneClaimOneFile
<1>5. ASSUME NEW b \in Authors PROVE SavesFresh(b)'
  <2>1. CASE b = a
    BY <1>2, <2>1 DEF NewInv, NewTyped, SavesFresh, NoRun
  <2>2. CASE b # a
    BY <1>1, <1>2, <2>2, OneHolds DEF NewInv, NewTyped, SavesFresh
  <2> QED
    BY <2>1, <2>2
<1> QED
  BY <1>3, <1>4, <1>5 DEF NewInv

\* A human removes the sentinel of a run that is no more.
LEMMA RemoveKeeps == ASSUME NewInv, RemoveSentinel PROVE NewInv'
  BY NewAssumption DEF RemoveSentinel, NewInv, NewTyped, OneClaimOneFile, SavesFresh, Taken

LEMMA NextNewInv == NewInv /\ [NewNext]_newVars => NewInv'
<1> SUFFICES ASSUME NewInv, [NewNext]_newVars PROVE NewInv'
  OBVIOUS
<1>1. CASE UNCHANGED newVars
  BY <1>1 DEF newVars, NewInv, NewTyped, OneClaimOneFile, SavesFresh, Taken
<1>2. ASSUME NEW a \in Authors, ConflictNew(a) \/ RefuseNew(a) \/ KillNew(a) PROVE NewInv'
  BY <1>2, OverKeeps DEF ConflictNew, RefuseNew, KillNew, Done
<1>3. CASE NewNext
  BY <1>2, <1>3, StartKeeps, AcquireNewKeeps, StubKeeps, SaveKeeps, SaveFailsKeeps, RemoveKeeps
     DEF NewNext, NewStep
<1> QED
  BY <1>1, <1>3

\* No step writes over a file.
LEMMA NeverOver ==
  NewInv /\ [NewNext]_newVars => \A p \in ClaimPaths : disk[p] # NoClaim => disk'[p] = disk[p]
<1> SUFFICES ASSUME NewInv, [NewNext]_newVars, NEW p \in ClaimPaths, disk[p] # NoClaim
             PROVE  disk'[p] = disk[p]
  OBVIOUS
<1>1. ASSUME NEW a \in Authors, SaveNew(a) PROVE disk'[p] = disk[p]
  <2>1. disk[author[a].path] = NoClaim
    BY <1>1 DEF SaveNew, NewInv, SavesFresh
  <2> QED
    BY <1>1, <2>1 DEF SaveNew, NewInv, NewTyped
<1>2. CASE UNCHANGED disk
  BY <1>2
<1> QED
  BY <1>1, <1>2 DEF NewNext, NewStep, newVars, StartNew, AcquireNew, ConflictNew, RefuseNew, WriteStub,
     SaveNewFails, KillNew, RemoveSentinel

\* "Refusing to overwrite it": runs of claim new, interleaved, failing and killed,
\* write over no file, give no id twice, and keep the manifest of every claim.
THEOREM NewKeeps == NewSpec => NewKeepsFiles
<1>1. NewInit => NewInv
  BY InitNewInv
<1>2. NewInv /\ [NewNext]_newVars =>
         /\ NewInv'
         /\ OneClaimOneFile' /\ \A p \in ClaimPaths : disk[p] # NoClaim => disk'[p] = disk[p]
  BY NextNewInv, NeverOver DEF NewInv
<1> QED
  BY <1>1, <1>2, PTL DEF NewSpec, NewKeepsFiles

-----------------------------------------------------------------------------
(* Numbers.  Every set of natural numbers that is not empty has a least one: a *)
(* property of numbers is shown by looking at the least that would lack it.    *)

\* A bounded one has a greatest.
LEMMA GreatestNat ==
  ASSUME NEW T, T \subseteq Nat, T # {}, NEW b \in Nat, \A y \in T : y <= b
  PROVE  \E x \in T : \A y \in T : y <= x
<1> DEFINE U == {b - y : y \in T}
<1>a. \A y \in T : b - y \in Nat
  OBVIOUS
<1>1. U \subseteq Nat /\ U # {}
  BY <1>a
<1>2. PICK u \in U : \A v \in U : u <= v
  BY <1>1, LeastNat
<1>3. PICK x \in T : u = b - x
  OBVIOUS
<1>4. ASSUME NEW y \in T PROVE y <= x
  BY <1>2, <1>3
<1> QED
  BY <1>4

-----------------------------------------------------------------------------
(* The inbox, for every number of subjects: threads, polls and the clock.      *)

InboxNext ==
    \/ \E i \in Places, op \in {"add", "reply", "resolve", "reopen"} : BeginOp(i, op)
    \/ Second \/ SaveOp \/ PollRead \/ PollAnswer

InboxSpec == InboxInit /\ [][InboxNext]_inboxVars

LEMMA PlacesTyped == Len(Subjects) \in Nat /\ Places = 1..Len(Subjects)
  BY SecondsAssumption DEF Places

\* The activity of a thread is one of its events, and none is later.
LEMMA ActivityTyped ==
  ASSUME NEW th \in Thread
  PROVE  LET a == threadLastActivity(th)
         IN /\ a \in {th.created, th.replied, th.resolved, th.reopened}
            /\ a \in Nat /\ Past(th, a)
<1> DEFINE T == {th.created, th.replied, th.resolved, th.reopened}
<1>1. T \subseteq Nat /\ T # {}
  BY DEF Thread
<1>2. \E t \in T : \A u \in T : u <= t
  <2>1. PICK b \in Nat : b = th.created + th.replied + th.resolved + th.reopened
    BY DEF Thread
  <2>2. \A y \in T : y <= b
    BY <2>1 DEF Thread
  <2> HIDE DEF T
  <2> QED
    BY <1>1, <2>2, GreatestNat
<1>3. threadLastActivity(th) = CHOOSE t \in T : \A u \in T : u <= t
  BY DEF threadLastActivity
<1>4. threadLastActivity(th) \in T /\ \A u \in T : u <= threadLastActivity(th)
  <2> HIDE DEF T
  <2> QED
    BY <1>2, <1>3
<1> QED
  BY <1>1, <1>4 DEF Past

LEMMA InitInboxInv == InboxInit => InboxInv
<1> SUFFICES ASSUME InboxInit PROVE InboxInv
  OBVIOUS
<1>1. NoThread \in Thread /\ Past(NoThread, 1)
  BY DEF NoThread, Thread, Past
<1>2. /\ now = 1 /\ cursor = 0 /\ behind = {} /\ passed = {} /\ writer.op = "none" /\ Latest = 1
      /\ poll.at = 0 /\ \A i \in Places : thread[i] = NoThread /\ poll.seen[i] = NoThread
  BY DEF InboxInit, Latest
<1>a. thread \in [Places -> Thread] /\ told \in [Places -> Thread]
      /\ poll \in [at: 0..Len(Subjects), seen: [Places -> Thread]]
  BY <1>1, PlacesTyped DEF InboxInit
<1>b. writer \in [at: {0}, op: {"none"}, stamp: {0}]
  BY DEF InboxInit
<1>3. InboxTyped
  BY <1>2, <1>a, <1>b DEF InboxTyped
<1>4. InboxComplete
  BY <1>2 DEF InboxComplete, Reaches, NoThread
<1> QED
  BY <1>1, <1>2, <1>3, <1>4 DEF InboxInv

\* An operation makes of a thread another thread, whose times were there or are its own.
LEMMA AppliedTyped ==
  ASSUME NEW op \in {"add", "reply", "resolve", "reopen"}, NEW th \in Thread, NEW t \in Nat, Past(th, t)
  PROVE  LET new == Applied(op, th, t)
         IN /\ new \in Thread /\ Past(new, t)
            /\ new.status = "open" => new.created = t \/ new.replied = t \/ new.reopened = t
<1> DEFINE new == Applied(op, th, t)
<1>1. CASE op = "add"
  <2>1. new = [status |-> "open", created |-> t, replied |-> 0, resolved |-> 0, reopened |-> 0, messages |-> 1]
    BY <1>1 DEF Applied, NoThread
  <2> QED
    BY <2>1 DEF Thread, Past
<1>2. CASE op = "reply"
  <2>1. new = [status |-> th.status, created |-> th.created, replied |-> t, resolved |-> th.resolved,
               reopened |-> th.reopened, messages |-> th.messages + 1]
    BY <1>2 DEF Applied, Thread
  <2> QED
    BY <2>1 DEF Thread, Past
<1>3. CASE op = "resolve"
  <2>1. new = [status |-> "resolved", created |-> th.created, replied |-> th.replied,
               resolved |-> t, reopened |-> th.reopened, messages |-> th.messages]
    BY <1>3 DEF Applied, Thread
  <2> QED
    BY <2>1 DEF Thread, Past
<1>4. CASE op = "reopen"
  <2>1. new = [status |-> "open", created |-> th.created, replied |-> th.replied,
               resolved |-> th.resolved, reopened |-> t, messages |-> th.messages]
    BY <1>4 DEF Applied, Thread
  <2> QED
    BY <2>1 DEF Thread, Past
<1> QED
  BY <1>1, <1>2, <1>3, <1>4

LEMMA SecondKeeps == InboxInv /\ Second => InboxInv'
<1> SUFFICES ASSUME InboxInv, Second PROVE InboxInv'
  OBVIOUS
<1>1. now \in Nat /\ now' = now + 1 /\ UNCHANGED <<thread, writer, cursor, poll, told, behind, passed>>
  BY DEF Second, InboxInv, InboxTyped
<1>2. InboxTyped'
  BY <1>1 DEF InboxInv, InboxTyped
<1>3. InboxComplete'
  BY <1>1 DEF InboxInv, InboxComplete, Reaches
<1>4. Latest \in Nat /\ Latest' \in Nat /\ Latest <= Latest' /\ Latest' <= now'
  BY <1>1 DEF InboxInv, InboxTyped, Latest
<1>5. ASSUME NEW i \in Places PROVE Past(thread[i], Latest') /\ Past(poll.seen[i], Latest')
  <2>1. thread[i] \in Thread /\ poll.seen[i] \in Thread
    BY DEF InboxInv, InboxTyped
  <2> QED
    BY <1>4, <2>1 DEF InboxInv, Past, Thread
<1>6. cursor' <= Latest'
  BY <1>1, <1>4 DEF InboxInv, InboxTyped
<1>7. \A i \in (behind \ passed)' : Ahead(i)'
  BY <1>1 DEF InboxInv, Ahead, OpenSeen
<1> QED
  BY <1>1, <1>2, <1>3, <1>4, <1>5, <1>6, <1>7 DEF InboxInv

LEMMA BeginOpKeeps ==
  ASSUME InboxInv, NEW i \in Places, NEW op \in {"add", "reply", "resolve", "reopen"}, BeginOp(i, op)
  PROVE  InboxInv'
<1>1. /\ writer.op = "none" /\ writer' = [at |-> i, op |-> op, stamp |-> now]
      /\ UNCHANGED <<now, thread, cursor, poll, told, behind, passed>>
  BY DEF BeginOp
<1>2. InboxTyped'
  BY <1>1 DEF InboxInv, InboxTyped
<1>3. Latest = now /\ Latest' = now
  BY <1>1 DEF Latest
<1>4. InboxComplete'
  BY <1>1 DEF InboxInv, InboxComplete, Reaches
<1>5. \A i2 \in (behind \ passed)' : Ahead(i2)'
  BY <1>1 DEF InboxInv, Ahead, OpenSeen
<1> QED
  BY <1>1, <1>2, <1>3, <1>4, <1>5 DEF InboxInv

\* No open thread a poll has read is of a time after the latest event.
LEMMA SeenPast ==
  ASSUME InboxInv, NEW i \in OpenSeen
  PROVE  /\ i \in Places /\ poll.seen[i] \in Thread
         /\ threadLastActivity(poll.seen[i]) \in Nat /\ threadLastActivity(poll.seen[i]) <= Latest
<1>1. i \in Places /\ poll.seen[i] \in Thread /\ Past(poll.seen[i], Latest)
  BY DEF OpenSeen, InboxInv, InboxTyped
<1> QED
  BY <1>1, ActivityTyped DEF Past

\* What is saved is newer than everything a poll has answered for or read.
LEMMA SaveOpKeeps == InboxInv /\ SaveOp => InboxInv'
<1> SUFFICES ASSUME InboxInv, SaveOp PROVE InboxInv'
  OBVIOUS
<1>1. PICK w \in Places, op \in {"add", "reply", "resolve", "reopen"}, t \in Nat :
         writer.at = w /\ writer.op = op /\ writer.stamp = t
  BY DEF SaveOp, InboxInv, InboxTyped
<1>2. Latest = t
  BY <1>1 DEF Latest
<1>3. thread[w] \in Thread /\ Past(thread[w], t)
  BY <1>2 DEF InboxInv, InboxTyped
<1>4. PICK new \in Thread : new = Applied(op, thread[w], t)
  BY <1>3, AppliedTyped
<1>5. Past(new, t) /\ (new.status = "open" => new.created = t \/ new.replied = t \/ new.reopened = t)
  BY <1>3, <1>4, AppliedTyped
<1>6. /\ thread' = [thread EXCEPT ![w] = new]
      /\ writer' = [at |-> 0, op |-> "none", stamp |-> 0]
      /\ behind' = behind \cup ({w} \cap 1..poll.at) /\ passed' = passed \ {w}
      /\ UNCHANGED <<now, cursor, poll, told>>
  BY <1>1, <1>4 DEF SaveOp
<1>7. InboxTyped'
  BY <1>1, <1>6 DEF InboxInv, InboxTyped
<1>8. /\ thread'[w] = new /\ \A i \in Places \ {w} : thread'[i] = thread[i]
      /\ Latest' = now
  BY <1>6 DEF InboxInv, InboxTyped, Latest
<1>9. cursor <= t /\ t <= now /\ now \in Nat /\ cursor \in Nat
  BY <1>2 DEF InboxInv, InboxTyped
<1>10. ASSUME NEW i \in Places PROVE Past(thread[i], Latest)' /\ Past(poll.seen[i], Latest)'
  <2>1. thread[i] \in Thread /\ poll.seen[i] \in Thread /\ Past(thread[i], t) /\ Past(poll.seen[i], t)
    BY <1>2 DEF InboxInv, InboxTyped
  <2>2. thread'[i] \in Thread /\ Past(thread'[i], t)
    BY <1>5, <1>8, <2>1
  <2> QED
    BY <1>6, <1>8, <1>9, <2>1, <2>2 DEF Past, Thread
<1>11. /\ behind' \subseteq 1..poll'.at
       /\ \A i \in (1..poll'.at) \ behind' : poll'.seen[i] = thread'[i]
  <2>1. (1..poll.at) \subseteq Places
    BY PlacesTyped DEF InboxInv, InboxTyped
  <2>2. behind' \subseteq 1..poll'.at
    BY <1>6 DEF InboxInv
  <2>3. ASSUME NEW i \in (1..poll'.at) \ behind' PROVE poll'.seen[i] = thread'[i]
    <3>1. i \in (1..poll.at) \ behind /\ i # w /\ i \in Places
      BY <1>6, <2>1
    <3> QED
      BY <1>6, <1>8, <3>1 DEF InboxInv
  <2> QED
    BY <2>2, <2>3
<1>12. threadLastActivity(new) \in Nat /\ (new.status = "open" => threadLastActivity(new) >= t)
  BY <1>5, ActivityTyped DEF Past, Thread
<1>13. ASSUME NEW i \in Places \ passed' PROVE Reaches(i)'
  <2>1. CASE i = w
    BY <1>6, <1>8, <1>9, <1>12, <2>1 DEF Reaches
  <2>2. CASE i # w
    <3>1. Reaches(i)
      BY <1>6, <2>2 DEF InboxInv, InboxComplete
    <3> QED
      BY <1>6, <1>8, <2>2, <3>1 DEF Reaches
  <2> QED
    BY <2>1, <2>2
<1>14. InboxComplete'
  BY <1>13 DEF InboxComplete, Places
<1>15. ASSUME NEW i \in (behind \ passed)' PROVE Ahead(i)'
  <2>1. OpenSeen' = OpenSeen /\ UNCHANGED <<cursor, poll>>
    BY <1>6 DEF OpenSeen, Places
  <2>2. CASE i = w
    <3>1. \A j \in OpenSeen : threadLastActivity(poll.seen[j]) \in Nat /\ threadLastActivity(poll.seen[j]) <= t
      BY <1>2, SeenPast
    <3>2. thread'[i].status = "open" =>
             /\ threadLastActivity(thread'[i]) >= cursor
             /\ \A j \in OpenSeen : threadLastActivity(poll.seen[j]) <= threadLastActivity(thread'[i])
      BY <1>8, <1>9, <1>12, <2>2, <3>1
    <3> QED
      BY <2>1, <3>2 DEF Ahead
  <2>3. CASE i # w
    <3>1. i \in behind \ passed /\ i \in Places
      BY <1>6, <2>3 DEF InboxInv, InboxTyped
    <3>2. Ahead(i) /\ thread'[i] = thread[i]
      BY <1>8, <2>3, <3>1 DEF InboxInv
    <3> QED
      BY <2>1, <3>2 DEF Ahead
  <2> QED
    BY <2>2, <2>3
<1>16. cursor' <= Latest' /\ Latest' <= now'
  BY <1>6, <1>8, <1>9
<1>17. \A i \in (1..poll.at)' \ behind' : poll.seen[i]' = thread[i]'
  BY <1>11
<1>18. \A i \in behind' \ passed' : Ahead(i)'
  BY <1>15
<1> QED
  BY <1>7, <1>10, <1>11, <1>14, <1>16, <1>17, <1>18 DEF InboxInv

\* A file is read as it is; what it passes was saved behind the poll and is older.
LEMMA PollReadKeeps == InboxInv /\ PollRead => InboxInv'
<1> SUFFICES ASSUME InboxInv, PollRead PROVE InboxInv'
  OBVIOUS
<1>1. PICK n \in Nat : n = poll.at /\ n + 1 \in Places
  BY PlacesTyped DEF PollRead, InboxInv, InboxTyped
<1>2. PICK th \in Thread : th = thread[n + 1]
  BY <1>1 DEF InboxInv, InboxTyped
<1>3. /\ poll' = [at |-> n + 1, seen |-> [poll.seen EXCEPT ![n + 1] = th]]
      /\ passed' = passed \cup Overtaken(th)
      /\ UNCHANGED <<now, thread, writer, cursor, told, behind>>
  BY <1>1, <1>2 DEF PollRead
<1>a. Overtaken(th) \subseteq behind /\ behind \subseteq 1..n
  BY <1>1 DEF Overtaken, InboxInv
<1>b. behind' \subseteq Places /\ passed' \subseteq Places
  BY <1>3, <1>a DEF InboxInv, InboxTyped
<1>c. poll' \in [at: 0..Len(Subjects), seen: [Places -> Thread]]
  BY <1>1, <1>3, PlacesTyped DEF InboxInv, InboxTyped
<1>4. InboxTyped'
  BY <1>3, <1>b, <1>c DEF InboxInv, InboxTyped
<1>5. /\ poll'.at = n + 1 /\ poll'.seen[n + 1] = th
      /\ \A i \in Places \ {n + 1} : poll'.seen[i] = poll.seen[i]
  BY <1>1, <1>3 DEF InboxInv, InboxTyped
<1>6. Latest' = Latest /\ InboxComplete'
  BY <1>3 DEF InboxInv, InboxComplete, Latest, Reaches
<1>7. \A i \in Places : Past(thread[i], Latest)' /\ Past(poll.seen[i], Latest)'
  BY <1>2, <1>3, <1>5, <1>6 DEF InboxInv
<1>8. ASSUME NEW i \in (1..poll'.at) \ behind' PROVE poll'.seen[i] = thread'[i]
  <2>1. i \in 1..(n + 1) /\ i \in Places
    BY <1>1, <1>5, PlacesTyped
  <2>2. i # n + 1 => i \in (1..poll.at) \ behind
    BY <1>1, <1>3, <2>1
  <2> QED
    BY <1>1, <1>2, <1>3, <1>5, <2>1, <2>2 DEF InboxInv
<1>9. ASSUME NEW i \in (behind \ passed)' PROVE Ahead(i)'
  <2>1. i \in behind /\ i \notin passed /\ i \notin Overtaken(th) /\ i \in Places
    BY <1>3 DEF InboxInv, InboxTyped
  <2>2. Ahead(i) /\ thread'[i] = thread[i] /\ cursor' = cursor /\ thread[i] \in Thread
    BY <1>3, <2>1 DEF InboxInv, InboxTyped
  <2>3. threadLastActivity(th) \in Nat /\ threadLastActivity(thread[i]) \in Nat
    BY <2>2, ActivityTyped
  <2>4. th.status = "open" => threadLastActivity(th) <= threadLastActivity(thread[i])
    BY <2>1, <2>3 DEF Overtaken
  <2>5. ASSUME NEW j \in OpenSeen', thread[i].status = "open"
        PROVE  threadLastActivity(poll'.seen[j]) <= threadLastActivity(thread[i])
    <3>1. j \in Places /\ poll'.seen[j].status = "open"
      BY DEF OpenSeen, Places
    <3>2. CASE j = n + 1
      BY <1>5, <2>4, <3>1, <3>2
    <3>3. CASE j # n + 1
      <4>1. poll'.seen[j] = poll.seen[j] /\ j \in OpenSeen
        BY <1>5, <3>1, <3>3 DEF OpenSeen
      <4> QED
        BY <2>2, <2>5, <4>1 DEF Ahead
    <3> QED
      BY <3>2, <3>3
  <2> QED
    BY <2>2, <2>5 DEF Ahead
<1>10. behind' \subseteq 1..poll'.at
  BY <1>1, <1>3, <1>5, <1>a
<1> QED
  BY <1>3, <1>4, <1>6, <1>7, <1>8, <1>9, <1>10 DEF InboxInv

\* The new cursor is the old one or the activity of a thread that was seen.
LEMMA CursorTyped ==
  ASSUME InboxInv
  PROVE  /\ Cursor \in Nat /\ Cursor <= Latest
         /\ Cursor = cursor \/ \E i \in OpenSeen : Cursor = threadLastActivity(poll.seen[i])
<1> DEFINE T == {cursor} \cup {threadLastActivity(poll.seen[i]) : i \in OpenSeen}
<1>1. Latest \in Nat /\ cursor \in Nat /\ cursor <= Latest
  BY DEF InboxInv, InboxTyped, Latest
<1>2. ASSUME NEW i \in OpenSeen
      PROVE  threadLastActivity(poll.seen[i]) \in Nat /\ threadLastActivity(poll.seen[i]) <= Latest
  BY SeenPast
<1>3. T \subseteq Nat /\ T # {} /\ \A y \in T : y <= Latest
  BY <1>1, <1>2
<1>4. Cursor = CHOOSE t \in T : \A u \in T : u <= t
  BY DEF Cursor
<1> HIDE DEF T
<1>5. \E t \in T : \A u \in T : u <= t
  BY <1>1, <1>3, GreatestNat
<1>6. Cursor \in T
  BY <1>4, <1>5
<1>7. Cursor = cursor \/ \E i \in OpenSeen : Cursor = threadLastActivity(poll.seen[i])
  BY <1>6 DEF T
<1> QED
  BY <1>3, <1>6, <1>7

\* Everything that was read is answered for, or was before; what was saved behind the
\* poll, and not passed by it, is at or after the new cursor.
LEMMA PollAnswerKeeps == InboxInv /\ PollAnswer => InboxInv'
<1> SUFFICES ASSUME InboxInv, PollAnswer PROVE InboxInv'
  OBVIOUS
<1>1. PICK c \in Nat : /\ c = Cursor /\ c <= Latest
                       /\ c = cursor \/ \E i \in OpenSeen : c = threadLastActivity(poll.seen[i])
  BY CursorTyped
<1>2. /\ cursor' = c /\ poll' = [at |-> 0, seen |-> [i \in Places |-> NoThread]]
      /\ told' = [i \in Places |-> IF i \in Reported THEN poll.seen[i] ELSE told[i]]
      /\ behind' = {} /\ UNCHANGED <<now, thread, writer, passed>> /\ poll.at = Len(Subjects)
  BY <1>1 DEF PollAnswer
<1>3. NoThread \in Thread /\ Latest \in Nat
  BY DEF NoThread, Thread, Latest, InboxInv, InboxTyped
<1>4. told' \in [Places -> Thread]
  BY <1>2 DEF InboxInv, InboxTyped
<1>5. InboxTyped'
  BY <1>2, <1>3, <1>4, PlacesTyped DEF InboxInv, InboxTyped
<1>6. Latest' = Latest
  BY <1>2 DEF Latest
<1>7. \A i \in Places : Past(thread[i], Latest)' /\ Past(poll.seen[i], Latest)'
  BY <1>2, <1>3, <1>6 DEF InboxInv, Past, NoThread
<1>8. ASSUME NEW i \in Places \ passed' PROVE Reaches(i)'
  <2>1. thread[i] \in Thread /\ Reaches(i) /\ i \in 1..poll.at
    BY <1>2, PlacesTyped DEF InboxInv, InboxTyped, InboxComplete
  <2>2. CASE i \in behind
    <3>1. Ahead(i)
      BY <1>2, <2>2 DEF InboxInv
    <3>2. thread[i].status = "open" => threadLastActivity(thread[i]) >= c
      BY <1>1, <3>1 DEF Ahead
    <3> QED
      BY <1>2, <3>2 DEF Reaches
  <2>3. CASE i \notin behind
    <3>1. poll.seen[i] = thread[i]
      BY <2>1, <2>3 DEF InboxInv
    <3>2. CASE thread[i].status = "open" /\ threadLastActivity(thread[i]) >= cursor
      <4>1. i \in Reported
        BY <3>1, <3>2 DEF Reported, OpenSeen
      <4>2. told'[i] = thread[i]
        BY <1>2, <3>1, <4>1
      <4> QED
        BY <1>2, <4>2 DEF Reaches
    <3>3. CASE thread[i].status = "open" /\ ~(threadLastActivity(thread[i]) >= cursor)
      <4>1. i \notin Reported
        BY <3>1, <3>3 DEF Reported
      <4>2. told'[i] = told[i] /\ told[i] = thread[i]
        BY <1>2, <2>1, <3>3, <4>1 DEF Reaches
      <4> QED
        BY <1>2, <4>2 DEF Reaches
    <3>4. CASE thread[i].status # "open"
      BY <1>2, <3>4 DEF Reaches
    <3> QED
      BY <3>2, <3>3, <3>4
  <2> QED
    BY <2>2, <2>3
<1>9. InboxComplete'
  BY <1>8 DEF InboxComplete, Places
<1>10. behind' \subseteq 1..poll'.at /\ (1..poll'.at) \ behind' = {} /\ (behind \ passed)' = {}
  BY <1>2
<1> QED
  BY <1>1, <1>2, <1>5, <1>6, <1>7, <1>9, <1>10 DEF InboxInv

LEMMA NextInboxInv == InboxInv /\ [InboxNext]_inboxVars => InboxInv'
<1>1. InboxInv /\ UNCHANGED inboxVars => InboxInv'
  BY DEF inboxVars, InboxInv, InboxTyped, InboxComplete, Reaches, Latest, Ahead, OpenSeen
<1> QED
  BY <1>1, SecondKeeps, BeginOpKeeps, SaveOpKeeps, PollReadKeeps, PollAnswerKeeps DEF InboxNext

\* The agent was told of each open thread as it is, or the next poll tells it, operations
\* saved while polls read included, for every number of claims and briefs; but for a thread
\* written behind a poll that the same poll passed, until it is written again
\* (comment inbox --since).
THEOREM InboxMissesNothing == InboxSpec => []InboxComplete
<1>1. InboxInv => InboxComplete
  BY DEF InboxInv
<1> QED
  BY <1>1, InitInboxInv, NextInboxInv, PTL DEF InboxSpec

-----------------------------------------------------------------------------
(* The images, for every set of claim files, window and grace.                 *)

AssetsNext ==
    \/ RelinkImage \/ \E f \in ClaimFiles : SaveClaimFile(f)
    \/ Tick \/ ScanClaims \/ LoadClaims \/ \E u \in URLs : Request(u)

AssetsSpec == AssetsInit /\ [][AssetsNext]_assetVars

\* A claim alone with its id is the only one with it.
LEMMA AloneWithId ==
  ASSUME NEW t \in [ClaimFiles -> ClaimFile], NEW f \in ClaimFiles, NEW g \in ClaimFiles,
         t[f].id = t[g].id, t[f].id \notin duplicateClaimIDs(t)
  PROVE  f = g
<1> DEFINE S == {h \in ClaimFiles : t[h].id = t[f].id}
<1>1. t[f].id \in Names
  BY DEF ClaimFile
<1>2. ~(Cardinality(S) > 1)
  BY <1>1 DEF duplicateClaimIDs
<1>3. IsFiniteSet(S) /\ {f, g} \subseteq S
  BY WindowAssumption, FS_Subset
<1> HIDE DEF S
<1>4. Cardinality({f, g}) <= Cardinality(S) /\ Cardinality(S) \in Nat /\ Cardinality({f, g}) \in Nat
  BY <1>3, FS_Subset, FS_CardinalityType
<1>5. ASSUME f # g PROVE Cardinality({f, g}) = 2
  <2>1. IsFiniteSet({f}) /\ Cardinality({f}) = 1
    BY FS_Singleton
  <2>2. Cardinality({f} \cup {g}) = Cardinality({f}) + 1
    BY <1>5, <2>1, FS_AddElement
  <2>3. {f} \cup {g} = {f, g}
    OBVIOUS
  <2> QED
    BY <2>1, <2>2, <2>3
<1> QED
  BY <1>2, <1>4, <1>5

\* The index of a tree stands for images, each under the id of its claim.
LEMMA PathsTyped ==
  ASSUME NEW t \in [ClaimFiles -> ClaimFile]
  PROVE  /\ DOMAIN Paths(t) \subseteq URLs
         /\ Paths(t) = [u \in DOMAIN Paths(t) |-> Paths(t)[u]]
         /\ \A u \in DOMAIN Paths(t) : Paths(t)[u] \in ImageFiles /\ Paths(t)[u] # NoImage
<1> DEFINE alone == {f \in ClaimFiles : t[f].id \notin duplicateClaimIDs(t)}
           urls == UNION {DOMAIN indexClaimAssets(t, f) : f \in alone}
           at(u) == CHOOSE g \in alone : t[g].id = u[1]
<1>1. Paths(t) = [u \in urls |-> indexClaimAssets(t, at(u))[u]]
  BY DEF Paths
<1>2. ASSUME NEW u \in urls
      PROVE  u \in URLs /\ indexClaimAssets(t, at(u))[u] \in ImageFiles
  <2>1. PICK f \in alone : u \in {t[f].id} \X t[f].images
    BY <1>2 DEF indexClaimAssets
  <2>2. t[f].id \in Names /\ t[f].images \subseteq Images
    BY DEF ClaimFile
  <2>3. at(u) \in alone /\ t[at(u)].id = u[1]
    BY <2>1
  <2>4. at(u) = f
    BY <2>1, <2>3, AloneWithId
  <2> HIDE DEF at, alone
  <2>5. u[2] \in Images /\ f \in ClaimFiles
    BY <2>1, <2>2 DEF alone
  <2>6. indexClaimAssets(t, f)[u] = <<f, u[2]>>
    BY <2>1 DEF indexClaimAssets
  <2> QED
    BY <2>1, <2>2, <2>4, <2>5, <2>6 DEF URLs, ImageFiles
<1> HIDE DEF urls, at
<1> QED
  BY <1>1, <1>2, WindowAssumption DEF ImageFiles

LEMMA ShowingTyped ==
  ASSUME NEW t \in [ClaimFiles -> ClaimFile], NEW u
  PROVE  /\ Showing(t, u) \in ImageFiles \cup {NoImage}
         /\ ~Loads(t) => Showing(t, u) = NoImage
         /\ Loads(t) /\ u \in DOMAIN Paths(t) => Showing(t, u) = Paths(t)[u] /\ Showing(t, u) # NoImage
         /\ u \notin DOMAIN Paths(t) => Showing(t, u) = NoImage
  BY PathsTyped DEF Showing

LEMMA InitAssetsInv == AssetsInit => AssetsInv
<1> SUFFICES ASSUME AssetsInit PROVE AssetsInv
  OBVIOUS
<1>1. /\ clock = 0 /\ tree \in [ClaimFiles -> ClaimFile] /\ assets = NoIndex
      /\ checked = [at |-> 0, confirmed |-> 0] /\ asset = NoRequest
      /\ \A f \in ClaimFiles : tree[f].images = {}
  <2>1. (CHOOSE n \in Names : TRUE) \in Names
    BY WindowAssumption
  <2> QED
    BY <2>1 DEF AssetsInit, ClaimFile, States
<1>2. ASSUME NEW u \in URLs PROVE Showing(tree, u) = NoImage
  <2>1. DOMAIN Paths(tree) = {}
    BY <1>1 DEF Paths, indexClaimAssets
  <2> QED
    BY <2>1 DEF Showing
<1>3. shown \in [URLs -> ShownTyped] /\ \A u \in URLs : shown[u].file = NoImage
  BY WindowAssumption DEF AssetsInit, ShownTyped, Never
<1>4. ~assets.built /\ DOMAIN assets.paths = {} /\ DOMAIN assets.fp = {} /\ asset.pc = "idle"
  BY <1>1 DEF NoIndex, NoRequest
<1>5. AssetsTyped
  BY <1>1, <1>3, <1>4, WindowAssumption DEF AssetsTyped, NoIndex, NoRequest
<1> QED
  BY <1>2, <1>3, <1>4, <1>5 DEF AssetsInv, AssetsFresh, Earlier

\* An index that holds no image not shown within the grace, and lacks none shown for
\* a window, answers every request as it must.
LEMMA AnswersFresh ==
  ASSUME NEW u \in URLs, NEW idx, clock \in Nat,
         shown[u].last \in [ImageFiles -> 0..Never], shown[u].since \in Nat,
         u \in DOMAIN idx.paths => /\ idx.paths[u] \in ImageFiles
                                   /\ shown[u].last[idx.paths[u]] <= clock
                                   /\ clock - shown[u].last[idx.paths[u]] < Window + Grace,
         clock <= MaxTick,
         \/ shown[u].file = NoImage
         \/ clock - shown[u].since < Window
         \/ u \in DOMAIN idx.paths /\ idx.paths[u] = shown[u].file,
         UNCHANGED <<clock, linked, shown>>, Answer(u, idx)
  PROVE  AssetsFresh'
<1>1. /\ asset'.pc = "answered" /\ asset'.url = u
      /\ asset'.answer = IF u \in DOMAIN idx.paths /\ idx.paths[u] \notin linked
                         THEN idx.paths[u] ELSE NoImage
  BY DEF Answer, handleClaimAsset
<1>2. CASE u \in DOMAIN idx.paths /\ idx.paths[u] \notin linked
  <2>1. asset'.answer = idx.paths[u] /\ asset'.answer # NoImage
    BY <1>1, <1>2, WindowAssumption DEF ImageFiles
  <2>2. shown[u].last[idx.paths[u]] # Never
    BY <1>2, WindowAssumption DEF Never
  <2> QED
    BY <1>1, <1>2, <2>1, <2>2 DEF AssetsFresh
<1>3. CASE ~(u \in DOMAIN idx.paths /\ idx.paths[u] \notin linked)
  <2>1. asset'.answer = NoImage
    BY <1>1, <1>3
  <2> QED
    BY <1>1, <1>3, <2>1 DEF AssetsFresh
<1> QED
  BY <1>2, <1>3

LEMMA AnswerTyped ==
  ASSUME NEW u \in URLs, NEW idx, Answer(u, idx),
         \A v \in DOMAIN idx.paths : idx.paths[v] \in ImageFiles
  PROVE  /\ asset' \in [pc: {"idle", "scan", "load", "answered"}, url: URLs \cup {NoImage},
                        fp: Fingerprint \cup {NoImage}, answer: ImageFiles \cup {NoImage}]
         /\ asset'.pc = "answered" /\ asset'.url \in URLs
  BY DEF Answer, handleClaimAsset

\* What is not a request changes neither the index nor the check.
LEMMA SettleTyped ==
  ASSUME AssetsInv, Settle
  PROVE  /\ asset' \in [pc: {"idle", "scan", "load", "answered"}, url: URLs \cup {NoImage},
                        fp: Fingerprint \cup {NoImage}, answer: ImageFiles \cup {NoImage}]
         /\ asset'.pc # "answered" /\ (asset'.pc # "idle" => asset' = asset)
         /\ asset'.pc \in {"scan", "load"} <=> asset.pc \in {"scan", "load"}
  BY DEF Settle, NoRequest, AssetsInv, AssetsTyped

LEMMA RelinkKeeps == AssetsInv /\ RelinkImage => AssetsInv'
<1> SUFFICES ASSUME AssetsInv, RelinkImage PROVE AssetsInv'
  OBVIOUS
<1>1. Settle /\ UNCHANGED <<clock, tree, assets, checked, shown>>
  BY DEF RelinkImage
<1>2. AssetsTyped'
  BY <1>1, SettleTyped DEF AssetsInv, AssetsTyped
<1>3. AssetsFresh'
  BY <1>1, SettleTyped DEF AssetsFresh
<1>4. Earlier(assets.fp)' /\ (asset'.pc = "load" => Earlier(asset.fp)')
  BY <1>1, SettleTyped DEF AssetsInv, Earlier
<1>5. (assets.built /\ assets.fp = scanLoadedClaimFingerprint => Loads(tree) /\ assets.paths = Paths(tree))'
  BY <1>1 DEF AssetsInv, scanLoadedClaimFingerprint
<1>6. Complete' <=> Complete
  BY <1>1 DEF Complete
<1> QED
  BY <1>1, <1>2, <1>3, <1>4, <1>5, <1>6, SettleTyped DEF AssetsInv

\* What a tree shows is a matter of the tree.
LEMMA SameTree ==
  ASSUME UNCHANGED tree
  PROVE  /\ Loads(tree)' <=> Loads(tree)
         /\ Paths(tree)' = Paths(tree)
         /\ \A u \in URLs : Showing(tree, u)' = Showing(tree, u)
<1>1. Loads(tree)' <=> Loads(tree)
  BY DEF Loads
<1>2. Paths(tree)' = Paths(tree)
  BY DEF Paths, duplicateClaimIDs, indexClaimAssets
<1>3. ASSUME NEW u \in URLs PROVE Showing(tree, u)' = Showing(tree, u)
  BY <1>1, <1>2 DEF Showing
<1> QED
  BY <1>1, <1>2, <1>3

LEMMA SameShown ==
  ASSUME AssetsInv, UNCHANGED <<clock, tree, shown>>
  PROVE  \A v \in URLs : (/\ shown[v].file = Showing(tree, v)
                          /\ shown[v].file # NoImage => shown[v].last[shown[v].file] = clock)'
<1> SUFFICES ASSUME NEW v \in URLs
             PROVE  /\ shown'[v].file = Showing(tree, v)'
                    /\ shown'[v].file # NoImage => shown'[v].last[shown'[v].file] = clock'
  OBVIOUS
<1>1. Showing(tree, v)' = Showing(tree, v)
  BY SameTree
<1> QED
  BY <1>1 DEF AssetsInv

LEMMA TickKeeps == AssetsInv /\ Tick => AssetsInv'
<1> SUFFICES ASSUME AssetsInv, Tick PROVE AssetsInv'
  OBVIOUS
<1>1. PICK n \in 0..MaxTick : n = clock /\ n + 1 \in 0..MaxTick /\ clock' = n + 1
  BY WindowAssumption DEF Tick, AssetsInv, AssetsTyped
<1>2. Settle /\ UNCHANGED <<tree, linked, assets, checked>> /\ asset.pc \notin {"scan", "load"}
  BY DEF Tick
<1>3. ASSUME NEW u \in URLs
      PROVE  /\ shown'[u].file = shown[u].file /\ shown'[u].since = shown[u].since
             /\ shown'[u].last = [x \in ImageFiles |-> IF shown[u].file = x THEN n + 1 ELSE shown[u].last[x]]
             /\ shown'[u] \in ShownTyped
             /\ shown[u] \in ShownTyped
  <2>1. shown[u] \in ShownTyped
    BY DEF AssetsInv, AssetsTyped
  <2>2. shown'[u] = [shown[u] EXCEPT !.last =
                       [x \in ImageFiles |-> IF shown[u].file = x THEN n + 1 ELSE @[x]]]
    BY <1>1 DEF Tick
  <2>3. n + 1 \in 0..Never
    BY <1>1, WindowAssumption DEF Never
  <2> QED
    BY <2>1, <2>2, <2>3 DEF ShownTyped
<1>4. shown' \in [URLs -> ShownTyped]
  <2>1. shown' = [u \in URLs |-> shown'[u]]
    BY <1>1 DEF Tick
  <2> QED
    BY <1>3, <2>1
<1>5. checked \in [at: 0..(n + 1), confirmed: 0..(n + 1)]
  BY <1>1 DEF AssetsInv, AssetsTyped
<1>6. AssetsTyped'
  BY <1>1, <1>2, <1>4, <1>5, SettleTyped DEF AssetsInv, AssetsTyped
<1>7. ASSUME NEW u \in URLs
      PROVE  (/\ shown[u].file = Showing(tree, u)
              /\ shown[u].file # NoImage => shown[u].last[shown[u].file] = clock)'
  <2>1. shown[u].file \in ImageFiles \cup {NoImage} /\ shown[u].file = Showing(tree, u)
    BY <1>3 DEF AssetsInv, ShownTyped
  <2>2. Showing(tree, u)' = Showing(tree, u)
    BY <1>2, SameTree
  <2> QED
    BY <1>1, <1>2, <1>3, <2>1, <2>2
<1>8. ASSUME NEW u \in DOMAIN assets.paths
      PROVE  shown'[u].last[assets.paths[u]] \in checked.confirmed..(n + 1)
  <2>1. /\ u \in URLs /\ assets.paths[u] \in ImageFiles
        /\ shown[u].last[assets.paths[u]] \in checked.confirmed..n
        /\ checked.confirmed \in 0..n
    BY <1>1 DEF AssetsInv, AssetsTyped
  <2>2. PICK x \in ImageFiles, c \in Nat, l \in Nat :
           /\ x = assets.paths[u] /\ c = checked.confirmed /\ l = shown[u].last[x]
           /\ c <= l /\ l <= n
    BY <2>1
  <2>3. shown'[u].last[x] \in {l, n + 1}
    BY <1>3, <2>1, <2>2
  <2> QED
    BY <2>2, <2>3
<1>9. Complete' <=> Complete
  BY <1>2, <1>3 DEF Complete
<1>10. Earlier(assets.fp)' /\ asset'.pc \notin {"scan", "load", "answered"}
  BY <1>2, SettleTyped DEF AssetsInv, Earlier
<1>11. (assets.built /\ assets.fp = scanLoadedClaimFingerprint => Loads(tree) /\ assets.paths = Paths(tree))'
  BY <1>2 DEF AssetsInv, scanLoadedClaimFingerprint
<1>12. AssetsFresh'
  BY <1>10 DEF AssetsFresh
<1>13. assets.built => DOMAIN assets.paths = {} \/ checked.at <= checked.confirmed + Grace
  BY <1>2 DEF AssetsInv
<1>14. assets.built => Complete
  BY <1>2 DEF AssetsInv
<1> QED
  BY <1>1, <1>2, <1>6, <1>7, <1>8, <1>9, <1>10, <1>11, <1>12, <1>13, <1>14 DEF AssetsInv

\* An edit makes every fingerprint taken before it another one.
LEMMA SaveClaimKeeps == ASSUME AssetsInv, NEW f \in ClaimFiles, SaveClaimFile(f) PROVE AssetsInv'
<1>1. PICK n \in 0..MaxTick : n = clock /\ clock' = n
  BY DEF SaveClaimFile, AssetsInv, AssetsTyped
<1>2. Settle /\ UNCHANGED <<clock, linked, assets, checked>>
  BY DEF SaveClaimFile
<1>3. tree' \in [ClaimFiles -> ClaimFile] /\ tree'[f].stamp = tree[f].stamp + 1
      /\ \A g \in ClaimFiles : tree[g].stamp \in Nat /\ tree[g].stamp <= tree'[g].stamp
  <2>1. PICK s \in States, m \in Names, i \in SUBSET Images :
           tree' = [tree EXCEPT ![f] = [state |-> s, id |-> m, images |-> i, stamp |-> tree[f].stamp + 1]]
    BY DEF SaveClaimFile
  <2>2. tree \in [ClaimFiles -> ClaimFile] /\ \A g \in ClaimFiles : tree[g].stamp \in Nat
    BY DEF AssetsInv, AssetsTyped, ClaimFile
  <2>3. [state |-> s, id |-> m, images |-> i, stamp |-> tree[f].stamp + 1] \in ClaimFile
    BY <2>2 DEF ClaimFile
  <2> QED
    BY <2>1, <2>2, <2>3
<1>4. ASSUME NEW u \in URLs
      PROVE  /\ shown'[u].file = Showing(tree', u) /\ shown'[u].file \in ImageFiles \cup {NoImage}
             /\ shown'[u].last = [x \in ImageFiles |-> IF Showing(tree', u) = x THEN n ELSE shown[u].last[x]]
             /\ shown'[u].since = IF Showing(tree', u) = shown[u].file THEN shown[u].since ELSE n
             /\ shown[u] \in ShownTyped /\ shown'[u] \in ShownTyped
  <2>1. shown[u] \in ShownTyped
    BY DEF AssetsInv, AssetsTyped
  <2>2. shown'[u] = [last |-> [x \in ImageFiles |-> IF Showing(tree', u) = x THEN n ELSE shown[u].last[x]],
                     file |-> Showing(tree', u),
                     since |-> IF Showing(tree', u) = shown[u].file THEN shown[u].since ELSE n]
    BY <1>1 DEF SaveClaimFile, Shown
  <2>3. Showing(tree', u) \in ImageFiles \cup {NoImage}
    BY <1>3, ShowingTyped
  <2>4. n \in 0..Never
    BY <1>1, WindowAssumption DEF Never
  <2> QED
    BY <2>1, <2>2, <2>3, <2>4 DEF ShownTyped
<1>5. shown' \in [URLs -> ShownTyped]
  <2>1. shown' = [u \in URLs |-> shown'[u]]
    BY DEF SaveClaimFile, Shown
  <2> QED
    BY <1>4, <2>1
<1>6. AssetsTyped'
  BY <1>2, <1>3, <1>5, SettleTyped DEF AssetsInv, AssetsTyped
<1>7. ASSUME NEW u \in URLs
      PROVE  (/\ shown[u].file = Showing(tree, u)
              /\ shown[u].file # NoImage => shown[u].last[shown[u].file] = clock)'
  <2>1. shown'[u].file = Showing(tree', u) /\ Showing(tree, u)' = Showing(tree', u)
    BY <1>4 DEF Showing, Loads, Paths, duplicateClaimIDs, indexClaimAssets
  <2> QED
    BY <1>1, <1>4, <2>1
<1>8. ASSUME NEW u \in DOMAIN assets.paths
      PROVE  shown'[u].last[assets.paths[u]] \in checked.confirmed..n
  <2>1. /\ u \in URLs /\ assets.paths[u] \in ImageFiles
        /\ shown[u].last[assets.paths[u]] \in checked.confirmed..n
        /\ checked.confirmed \in 0..n
    BY <1>1 DEF AssetsInv, AssetsTyped
  <2>2. PICK x \in ImageFiles, c \in Nat, l \in Nat :
           /\ x = assets.paths[u] /\ c = checked.confirmed /\ l = shown[u].last[x]
           /\ c <= l /\ l <= n
    BY <2>1
  <2>3. shown'[u].last[x] \in {l, n}
    BY <1>4, <2>1, <2>2
  <2> QED
    BY <2>2, <2>3
<1>9. Complete => Complete'
  <2>1. checked.at \in 0..n
    BY <1>1 DEF AssetsInv, AssetsTyped
  <2>2. ASSUME NEW u \in URLs, \/ shown[u].file = NoImage
                               \/ shown[u].since >= checked.at
                               \/ u \in DOMAIN assets.paths /\ assets.paths[u] = shown[u].file
        PROVE  \/ shown'[u].file = NoImage
               \/ shown'[u].since >= checked.at
               \/ u \in DOMAIN assets.paths /\ assets.paths[u] = shown'[u].file
    <3>1. CASE Showing(tree', u) = shown[u].file
      <4>1. shown'[u].file = shown[u].file /\ shown'[u].since = shown[u].since
        BY <1>4, <3>1
      <4> QED
        BY <2>2, <4>1
    <3>2. CASE Showing(tree', u) # shown[u].file
      <4>1. shown'[u].since = n
        BY <1>4, <3>2
      <4>2. n >= checked.at
        BY <2>1
      <4> QED
        BY <4>1, <4>2
    <3> QED
      BY <3>1, <3>2
  <2> QED
    BY <1>2, <2>2 DEF Complete
<1>10. ASSUME NEW fp \in Fingerprint, \A g \in ClaimFiles : fp[g] <= tree[g].stamp
       PROVE  fp[f] < tree'[f].stamp /\ \A g \in ClaimFiles : fp[g] <= tree'[g].stamp
  <2>1. ASSUME NEW g \in ClaimFiles PROVE fp[g] \in Nat /\ tree'[g].stamp \in Nat
    BY <1>3 DEF ClaimFile, Fingerprint
  <2> QED
    BY <1>3, <1>10, <2>1
<1>11. Earlier(assets.fp)' /\ assets.fp # scanLoadedClaimFingerprint'
  <2>1. CASE assets.fp \in Fingerprint
    <3>1. \A g \in ClaimFiles : assets.fp[g] <= tree[g].stamp
      BY <2>1 DEF AssetsInv, Earlier, Fingerprint
    <3>2. assets.fp[f] < tree'[f].stamp /\ \A g \in ClaimFiles : assets.fp[g] <= tree'[g].stamp
      BY <1>10, <2>1, <3>1
    <3>3. scanLoadedClaimFingerprint'[f] = tree'[f].stamp
      BY DEF scanLoadedClaimFingerprint
    <3>4. assets.fp[f] \in Nat /\ tree'[f].stamp \in Nat /\ DOMAIN assets.fp = ClaimFiles
      BY <1>3, <2>1 DEF Fingerprint, ClaimFile
    <3> QED
      BY <1>2, <3>2, <3>3, <3>4 DEF Earlier
  <2>2. CASE assets.fp = NoIndex.fp
    <3>1. DOMAIN assets.fp = {}
      BY <2>2 DEF NoIndex
    <3>2. DOMAIN scanLoadedClaimFingerprint' = ClaimFiles
      BY DEF scanLoadedClaimFingerprint
    <3> QED
      BY <1>2, <3>1, <3>2 DEF Earlier
  <2> QED
    BY <2>1, <2>2 DEF AssetsInv, AssetsTyped
<1>12. asset'.pc = "load" => Earlier(asset.fp)'
  <2>1. SUFFICES ASSUME asset'.pc = "load" PROVE Earlier(asset.fp)'
    OBVIOUS
  <2>2. asset' = asset /\ asset.fp \in Fingerprint /\ \A g \in ClaimFiles : asset.fp[g] <= tree[g].stamp
    BY <1>2, <2>1, SettleTyped DEF AssetsInv, AssetsTyped, Earlier, Fingerprint
  <2>3. \A g \in ClaimFiles : asset.fp[g] <= tree'[g].stamp
    BY <1>10, <2>2
  <2>4. DOMAIN asset.fp = ClaimFiles
    BY <2>2 DEF Fingerprint
  <2> QED
    BY <2>2, <2>3, <2>4 DEF Earlier
<1>13. AssetsFresh'
  BY <1>2, SettleTyped DEF AssetsFresh
<1> QED
  BY <1>1, <1>2, <1>6, <1>7, <1>8, <1>9, <1>11, <1>12, <1>13, SettleTyped DEF AssetsInv

\* An index that was trusted, and what a request it answers leaves.
LEMMA IndexFresh ==
  ASSUME AssetsInv, assets.built, NEW u \in URLs, NEW a \in 0..clock,
         clock - a < Window,
         DOMAIN assets.paths = {} \/ a <= checked.confirmed + Grace,
         \/ shown[u].file = NoImage
         \/ shown[u].since >= a
         \/ u \in DOMAIN assets.paths /\ assets.paths[u] = shown[u].file,
         UNCHANGED <<clock, linked, shown>>, Answer(u, assets)
  PROVE  AssetsFresh'
<1>1. PICK n \in Nat : n = clock /\ n <= MaxTick
  BY WindowAssumption DEF AssetsInv, AssetsTyped
<1>2. shown[u].last \in [ImageFiles -> 0..Never] /\ shown[u].since \in Nat
  BY WindowAssumption DEF AssetsInv, AssetsTyped, ShownTyped, Never
<1>3. ASSUME u \in DOMAIN assets.paths
      PROVE  /\ assets.paths[u] \in ImageFiles
             /\ shown[u].last[assets.paths[u]] <= clock
             /\ clock - shown[u].last[assets.paths[u]] < Window + Grace
  <2>1. PICK c \in Nat, l \in Nat : /\ c = checked.confirmed /\ c <= l /\ l <= n
                                    /\ l = shown[u].last[assets.paths[u]]
    BY <1>1, <1>3 DEF AssetsInv, AssetsTyped
  <2>2. a <= c + Grace
    BY <1>3, <2>1
  <2>3. n - l < Window + Grace
    BY <1>1, <2>1, <2>2, WindowAssumption
  <2> QED
    BY <1>1, <1>3, <2>1, <2>3 DEF AssetsInv, AssetsTyped
<1>4. \/ shown[u].file = NoImage
      \/ clock - shown[u].since < Window
      \/ u \in DOMAIN assets.paths /\ assets.paths[u] = shown[u].file
  <2>1. shown[u].since >= a => clock - shown[u].since < Window
    BY <1>1, <1>2, WindowAssumption
  <2> QED
    BY <2>1
<1> QED
  BY <1>1, <1>2, <1>3, <1>4, AnswersFresh

LEMMA RequestKeeps == ASSUME AssetsInv, NEW u \in URLs, Request(u) PROVE AssetsInv'
<1>1. UNCHANGED <<clock, tree, linked, assets, shown>> /\ asset.pc \in {"idle", "answered"}
  BY DEF Request
<1>2. /\ Earlier(assets.fp)'
      /\ (assets.built /\ assets.fp = scanLoadedClaimFingerprint => Loads(tree) /\ assets.paths = Paths(tree))'
  BY <1>1 DEF AssetsInv, Earlier, scanLoadedClaimFingerprint
<1>3. \A v \in URLs : (/\ shown[v].file = Showing(tree, v)
                       /\ shown[v].file # NoImage => shown[v].last[shown[v].file] = clock)'
  BY <1>1, SameShown
<1>4. CASE assets.built /\ clock - checked.at < Window
  <2>1. Answer(u, assets) /\ UNCHANGED checked
    BY <1>4 DEF Request
  <2>2. AssetsFresh'
    <3>1. checked.at \in 0..clock /\ (DOMAIN assets.paths = {} \/ checked.at <= checked.confirmed + Grace) /\ Complete
      BY <1>1, <1>4 DEF AssetsInv, AssetsTyped
    <3>2. \/ shown[u].file = NoImage
          \/ shown[u].since >= checked.at
          \/ u \in DOMAIN assets.paths /\ assets.paths[u] = shown[u].file
      BY <3>1 DEF Complete
    <3> QED
      BY <1>1, <1>4, <2>1, <3>1, <3>2, IndexFresh
  <2>3. AssetsTyped'
    BY <1>1, <2>1, AnswerTyped DEF AssetsInv, AssetsTyped
  <2>4. asset'.pc = "answered" /\ (Complete' <=> Complete)
    BY <1>1, <2>1 DEF Answer, Complete
  <2> QED
    BY <1>1, <1>2, <1>3, <2>1, <2>2, <2>3, <2>4 DEF AssetsInv
<1>5. CASE ~(assets.built /\ clock - checked.at < Window)
  <2>1. checked' = [checked EXCEPT !.at = clock] /\ asset' = [NoRequest EXCEPT !.pc = "scan", !.url = u]
    BY <1>5 DEF Request
  <2>2. /\ asset' = [pc |-> "scan", url |-> u, fp |-> NoImage, answer |-> NoImage]
        /\ asset'.pc = "scan"
    BY <2>1 DEF NoRequest
  <2>3. checked'.at = clock /\ checked'.confirmed = checked.confirmed
        /\ checked' \in [at: 0..clock, confirmed: 0..clock]
    BY <2>1 DEF AssetsInv, AssetsTyped
  <2>4. AssetsTyped'
    BY <1>1, <2>2, <2>3 DEF AssetsInv, AssetsTyped
  <2>5. AssetsFresh'
    BY <2>2 DEF AssetsFresh
  <2> QED
    BY <1>1, <1>2, <1>3, <2>2, <2>3, <2>4, <2>5 DEF AssetsInv
<1> QED
  BY <1>4, <1>5

\* A check that could not be completed: nothing is shown now, and the index that is
\* kept was confirmed within the grace.
LEMMA KeptKeeps ==
  ASSUME AssetsInv, asset.pc \in {"scan", "load"}, ~Loads(tree), keepAssets,
         UNCHANGED <<clock, tree, linked, shown>>
  PROVE  AssetsInv'
<1>1. PICK u \in URLs : u = asset.url
  BY DEF AssetsInv, AssetsTyped
<1>2. PICK n \in Nat : n = clock /\ n <= MaxTick /\ n = checked.at
  BY WindowAssumption DEF AssetsInv, AssetsTyped
<1>3. UNCHANGED checked /\ Answer(u, assets')
  BY <1>1 DEF keepAssets
<1>4. \A v \in URLs : /\ shown[v].file = NoImage
                      /\ (shown[v].file = Showing(tree, v))'
  BY SameTree DEF AssetsInv, Showing
<1>5. Complete'
  BY <1>4 DEF Complete
<1>6. CASE assets.built /\ clock - checked.confirmed <= Grace
  <2>1. assets' = assets
    BY <1>6 DEF keepAssets
  <2>2. clock <= checked.confirmed + Grace
    BY <1>2, <1>6, WindowAssumption DEF AssetsInv, AssetsTyped
  <2>3. AssetsFresh'
    BY <1>2, <1>3, <1>4, <1>6, <2>1, <2>2, IndexFresh, WindowAssumption
  <2>4. AssetsTyped'
    BY <1>3, <2>1, AnswerTyped DEF AssetsInv, AssetsTyped
  <2>5. /\ Earlier(assets.fp)'
        /\ (assets.built /\ assets.fp = scanLoadedClaimFingerprint => Loads(tree) /\ assets.paths = Paths(tree))'
    BY <2>1 DEF AssetsInv, Earlier, scanLoadedClaimFingerprint
  <2>6. asset'.pc = "answered"
    BY <1>3 DEF Answer
  <2> QED
    BY <1>2, <1>3, <1>4, <1>5, <2>1, <2>2, <2>3, <2>4, <2>5, <2>6 DEF AssetsInv
<1>7. CASE ~(assets.built /\ clock - checked.confirmed <= Grace)
  <2>1. assets' = [NoIndex EXCEPT !.built = TRUE]
    BY <1>7 DEF keepAssets
  <2>2. /\ DOMAIN assets'.paths = {} /\ assets'.fp = NoIndex.fp /\ DOMAIN assets'.fp = {}
        /\ assets'.built \in BOOLEAN
    BY <2>1 DEF NoIndex
  <2>3. AssetsFresh'
    <3>1. /\ shown[u].last \in [ImageFiles -> 0..Never] /\ shown[u].since \in Nat
      BY WindowAssumption DEF AssetsInv, AssetsTyped, ShownTyped, Never
    <3> QED
      BY <1>2, <1>3, <1>4, <2>2, <3>1, AnswersFresh
  <2>4. AssetsTyped'
    BY <1>3, <2>2, AnswerTyped DEF AssetsInv, AssetsTyped
  <2>5. assets'.fp # scanLoadedClaimFingerprint'
    BY <2>2 DEF Loads, scanLoadedClaimFingerprint
  <2>6. asset'.pc = "answered"
    BY <1>3 DEF Answer
  <2> QED
    BY <1>4, <1>5, <2>2, <2>3, <2>4, <2>5, <2>6 DEF AssetsInv, Earlier
<1> QED
  BY <1>6, <1>7

\* A check that was completed: the index is that of the tree on disk.
LEMMA ConfirmedKeeps ==
  ASSUME AssetsInv, asset.pc \in {"scan", "load"}, Loads(tree), NEW u \in URLs,
         Answer(u, assets'), checked' = [checked EXCEPT !.confirmed = clock],
         assets'.built = TRUE, assets'.paths = Paths(tree),
         assets'.fp \in Fingerprint \cup {NoIndex.fp}, Earlier(assets'.fp),
         UNCHANGED <<clock, tree, linked, shown>>
  PROVE  AssetsInv'
<1>1. tree \in [ClaimFiles -> ClaimFile]
  BY DEF AssetsInv, AssetsTyped
<1>2. PICK n \in Nat : n = clock /\ n <= MaxTick /\ n = checked.at
  BY WindowAssumption DEF AssetsInv, AssetsTyped
<1>3. checked'.at = n /\ checked'.confirmed = n /\ checked' \in [at: 0..clock, confirmed: 0..clock]
  BY <1>2 DEF AssetsInv, AssetsTyped
<1>4. ASSUME NEW v \in URLs
      PROVE  /\ shown[v].file = Showing(tree, v)
             /\ shown[v].file # NoImage => shown[v].last[shown[v].file] = n
             /\ v \in DOMAIN assets'.paths => shown[v].file = assets'.paths[v] /\ shown[v].file # NoImage
             /\ v \notin DOMAIN assets'.paths => shown[v].file = NoImage
  BY <1>1, <1>2, ShowingTyped DEF AssetsInv
<1>5. DOMAIN assets'.paths \subseteq URLs /\ \A v \in DOMAIN assets'.paths : assets'.paths[v] \in ImageFiles
  BY <1>1, PathsTyped
<1>6. AssetsTyped'
  BY <1>3, <1>5, AnswerTyped DEF AssetsInv, AssetsTyped
<1>7. Complete'
  BY <1>4 DEF Complete
<1>8. AssetsFresh'
  <2>1. /\ shown[u].last \in [ImageFiles -> 0..Never] /\ shown[u].since \in Nat
    BY WindowAssumption DEF AssetsInv, AssetsTyped, ShownTyped, Never
  <2>2. u \in DOMAIN assets'.paths => /\ assets'.paths[u] \in ImageFiles
                                      /\ shown[u].last[assets'.paths[u]] = n
    BY <1>4, <1>5
  <2>3. \A l : l = n => l <= n /\ n - l < Window + Grace
    BY WindowAssumption
  <2> QED
    BY <1>2, <1>4, <2>1, <2>2, <2>3, AnswersFresh
<1>9. \A v \in URLs : (/\ shown[v].file = Showing(tree, v)
                       /\ shown[v].file # NoImage => shown[v].last[shown[v].file] = clock)'
  BY SameShown
<1>10. (Loads(tree) /\ assets.paths = Paths(tree))' /\ Earlier(assets.fp)'
  BY SameTree DEF Earlier
<1>11. \A v \in DOMAIN assets'.paths : shown'[v].last[assets'.paths[v]] \in checked'.confirmed..clock'
  BY <1>2, <1>3, <1>4, <1>5
<1>12. checked'.at <= checked'.confirmed + Grace
  BY <1>3, WindowAssumption
<1>13. asset'.pc = "answered"
  BY DEF Answer
<1> QED
  BY <1>6, <1>7, <1>8, <1>9, <1>10, <1>11, <1>12, <1>13 DEF AssetsInv

\* The fingerprint says that the tree is the one of the index, or the claims are
\* still to be loaded.
LEMMA ScanKeepsAssets == AssetsInv /\ ScanClaims => AssetsInv'
<1> SUFFICES ASSUME AssetsInv, ScanClaims PROVE AssetsInv'
  OBVIOUS
<1>1. asset.pc = "scan" /\ UNCHANGED <<clock, tree, linked, shown>>
  BY DEF ScanClaims
<1>2. CASE (\E f \in ClaimFiles : tree[f].state = "unreadable") /\ keepAssets
  <2>1. ~Loads(tree)
    BY <1>2 DEF Loads
  <2> QED
    BY <1>1, <1>2, <2>1, KeptKeeps
<1> DEFINE fp == scanLoadedClaimFingerprint
<1>3. fp \in Fingerprint /\ Earlier(fp)
  BY DEF scanLoadedClaimFingerprint, Fingerprint, Earlier, AssetsInv, AssetsTyped, ClaimFile
<1>4. CASE /\ assets.built /\ assets.fp = fp
           /\ checked' = [checked EXCEPT !.confirmed = clock]
           /\ Answer(asset.url, assets) /\ UNCHANGED assets
  <2>1. Loads(tree) /\ assets.paths = Paths(tree) /\ asset.url \in URLs /\ Earlier(assets.fp)
    BY <1>1, <1>4 DEF AssetsInv, AssetsTyped
  <2> QED
    BY <1>1, <1>3, <1>4, <2>1, ConfirmedKeeps
<1>5. CASE asset' = [asset EXCEPT !.pc = "load", !.fp = fp] /\ UNCHANGED <<assets, checked>>
  <2>1. /\ asset' \in [pc: {"load"}, url: URLs, fp: Fingerprint, answer: ImageFiles \cup {NoImage}]
        /\ asset'.fp = fp
    BY <1>1, <1>3, <1>5 DEF AssetsInv, AssetsTyped
  <2>2. AssetsTyped'
    BY <1>1, <1>5, <2>1 DEF AssetsInv, AssetsTyped
  <2>3. AssetsFresh'
    BY <2>1 DEF AssetsFresh
  <2>4. \A v \in URLs : (/\ shown[v].file = Showing(tree, v)
                         /\ shown[v].file # NoImage => shown[v].last[shown[v].file] = clock)'
    BY <1>1, SameShown
  <2>5. /\ Earlier(assets.fp)' /\ Earlier(asset.fp)'
        /\ (assets.built /\ assets.fp = scanLoadedClaimFingerprint => Loads(tree) /\ assets.paths = Paths(tree))'
    BY <1>1, <1>3, <1>5, <2>1 DEF AssetsInv, Earlier, scanLoadedClaimFingerprint
  <2> QED
    BY <1>1, <1>5, <2>1, <2>2, <2>3, <2>4, <2>5 DEF AssetsInv
<1> QED
  BY <1>2, <1>4, <1>5 DEF ScanClaims

LEMMA LoadKeeps == AssetsInv /\ LoadClaims => AssetsInv'
<1> SUFFICES ASSUME AssetsInv, LoadClaims PROVE AssetsInv'
  OBVIOUS
<1>1. asset.pc = "load" /\ UNCHANGED <<clock, tree, linked, shown>>
  BY DEF LoadClaims
<1>2. CASE ~Loads(tree)
  BY <1>1, <1>2, KeptKeeps DEF LoadClaims
<1>3. CASE Loads(tree)
  <2>1. /\ assets' = buildAssetIndex(asset.fp) /\ Answer(asset.url, assets')
        /\ checked' = [checked EXCEPT !.confirmed = clock]
    BY <1>3 DEF LoadClaims
  <2>2. assets'.built = TRUE /\ assets'.paths = Paths(tree) /\ assets'.fp = asset.fp
    BY <2>1 DEF buildAssetIndex
  <2>3. asset.fp \in Fingerprint /\ Earlier(asset.fp) /\ asset.url \in URLs
    BY <1>1 DEF AssetsInv, AssetsTyped
  <2> QED
    BY <1>1, <1>3, <2>1, <2>2, <2>3, ConfirmedKeeps
<1> QED
  BY <1>2, <1>3

LEMMA NextAssetsInv == AssetsInv /\ [AssetsNext]_assetVars => AssetsInv'
<1>1. AssetsInv /\ UNCHANGED assetVars => AssetsInv'
  <2> SUFFICES ASSUME AssetsInv, UNCHANGED assetVars PROVE AssetsInv'
    OBVIOUS
  <2>1. UNCHANGED <<clock, tree, linked, assets, checked, asset, shown>>
    BY DEF assetVars
  <2>2. AssetsTyped' /\ AssetsFresh' /\ (Complete' <=> Complete)
    BY <2>1 DEF AssetsInv, AssetsTyped, AssetsFresh, Complete
  <2>3. \A v \in URLs : (/\ shown[v].file = Showing(tree, v)
                         /\ shown[v].file # NoImage => shown[v].last[shown[v].file] = clock)'
    BY <2>1, SameShown
  <2>4. /\ Earlier(assets.fp)' /\ (asset'.pc = "load" => Earlier(asset.fp)')
        /\ (assets.built /\ assets.fp = scanLoadedClaimFingerprint => Loads(tree) /\ assets.paths = Paths(tree))'
    BY <2>1 DEF AssetsInv, Earlier, scanLoadedClaimFingerprint
  <2> QED
    BY <2>1, <2>2, <2>3, <2>4 DEF AssetsInv
<1> QED
  BY <1>1, TickKeeps, SaveClaimKeeps, RelinkKeeps, RequestKeeps, ScanKeepsAssets, LoadKeeps DEF AssetsNext

\* For any claims, window and grace: an image is sent only if the page of one claim
\* showed it within the window and the grace, and refused only if it has not been
\* shown for a window (claim_assets.go, claimAssets and keepAssets).
THEOREM ImagesAreFresh == AssetsSpec => []AssetsFresh
<1>1. AssetsInv => AssetsFresh
  BY DEF AssetsInv
<1> QED
  BY <1>1, InitAssetsInv, NextAssetsInv, PTL DEF AssetsSpec

-----------------------------------------------------------------------------
(* Skills, for any releases, trees and bundles.  First the section of AGENTS.md. *)

SkillsNext == SkillsEdit \/ SkillsStep

SkillsSpec == SkillsInit /\ [][SkillsNext]_skillVars

\* A word is found at its first place, or nowhere.
LEMMA IndexFound ==
  ASSUME NEW W, NEW s \in Seq(W), NEW x, NEW from \in Nat
  PROVE  \/ Index(s, x, from) = 0 /\ \A i \in 1..Len(s) : i >= from => s[i] # x
         \/ /\ Index(s, x, from) \in 1..Len(s) /\ Index(s, x, from) >= from /\ s[Index(s, x, from)] = x
            /\ \A i \in 1..Len(s) : i >= from /\ s[i] = x => Index(s, x, from) <= i
<1> DEFINE at == {i \in 1..Len(s) : i >= from /\ s[i] = x}
<1>1. Index(s, x, from) = IF at = {} THEN 0 ELSE CHOOSE i \in at : \A j \in at : i <= j
  <2>1. DOMAIN s = 1..Len(s)
    OBVIOUS
  <2>2. {i \in DOMAIN s : i >= from /\ s[i] = x} = at
    BY <2>1
  <2>3. Index(s, x, from) = IF at = {} THEN 0 ELSE Min(at)
    <3> HIDE DEF at
    <3> QED
      BY <2>2, Zenon DEF Index
  <2>4. Min(at) = CHOOSE i \in at : \A j \in at : i <= j
    <3> HIDE DEF at
    <3> QED
      BY DEF Min
  <2> QED
    BY <2>3, <2>4, Zenon
<1>2. CASE at = {}
  BY <1>1, <1>2
<1>3. CASE at # {}
  <2>1. \E i \in at : \A j \in at : i <= j
    <3>1. at \subseteq Nat
      OBVIOUS
    <3> HIDE DEF at
    <3> QED
      BY <1>3, <3>1, LeastNat
  <2>2. Index(s, x, from) \in at /\ \A j \in at : Index(s, x, from) <= j
    <3> HIDE DEF at
    <3> QED
      BY <1>1, <1>3, <2>1
  <2> QED
    BY <2>2
<1> QED
  BY <1>2, <1>3

\* The first place is the first place.
LEMMA IndexIs ==
  ASSUME NEW W, NEW s \in Seq(W), NEW x, NEW from \in Nat, NEW k \in 1..Len(s),
         k >= from, s[k] = x, \A i \in 1..Len(s) : i >= from /\ s[i] = x => k <= i
  PROVE  Index(s, x, from) = k
<1>1. Index(s, x, from) \in 1..Len(s) /\ Index(s, x, from) <= k /\ k <= Index(s, x, from)
  BY IndexFound
<1> QED
  BY <1>1

\* What a splice writes: the section, after text in which none begins.
Spliced(s, r, p, q) ==
    /\ p \in Seq(Pieces) /\ q \in Seq(Pieces) /\ s = p \o buildAgentsSection(r) \o q
    /\ \A i \in 1..Len(p) : p[i] # "BEGIN"

LEMMA SplicedParts ==
  ASSUME NEW r \in Releases, NEW p, NEW q, NEW s, Spliced(s, r, p, q)
  PROVE  /\ s \in Seq(Pieces) /\ Len(s) = Len(p) + 4 + Len(q) /\ Len(p) \in Nat /\ Len(q) \in Nat
         /\ \A i \in 1..Len(p) : s[i] = p[i]
         /\ s[Len(p) + 1] = "BEGIN" /\ s[Len(p) + 2] = r /\ s[Len(p) + 3] = "END" /\ s[Len(p) + 4] = "\n"
         /\ \A i \in 1..Len(q) : s[Len(p) + 4 + i] = q[i]
<1> DEFINE c == buildAgentsSection(r)
<1>1. c \in Seq(Pieces) /\ Len(c) = 4 /\ c[1] = "BEGIN" /\ c[2] = r /\ c[3] = "END" /\ c[4] = "\n"
  BY DEF buildAgentsSection, Pieces
<1> HIDE DEF c
<1>2. p \in Seq(Pieces) /\ q \in Seq(Pieces) /\ s = (p \o c) \o q
  <2>1. Spliced(s, r, p, q)
    OBVIOUS
  <2> QED
    BY <2>1, Zenon DEF Spliced, c
<1>3. p \o c \in Seq(Pieces) /\ Len(p \o c) = Len(p) + 4
      /\ \A i \in 1..(Len(p) + 4) : (p \o c)[i] = IF i <= Len(p) THEN p[i] ELSE c[i - Len(p)]
  <2>1. Len(p \o c) = Len(p) + Len(c) /\ p \o c \in Seq(Pieces)
        /\ \A i \in 1..(Len(p) + Len(c)) : (p \o c)[i] = IF i <= Len(p) THEN p[i] ELSE c[i - Len(p)]
    BY <1>1, <1>2, ConcatProperties
  <2> QED
    BY <1>1, <2>1
<1>4. s \in Seq(Pieces) /\ Len(s) = Len(p) + 4 + Len(q)
      /\ \A i \in 1..(Len(p) + 4 + Len(q)) : s[i] = IF i <= Len(p) + 4 THEN (p \o c)[i] ELSE q[i - (Len(p) + 4)]
  <2>1. (p \o c) \o q \in Seq(Pieces) /\ Len((p \o c) \o q) = Len(p \o c) + Len(q)
        /\ \A i \in 1..(Len(p \o c) + Len(q)) :
              ((p \o c) \o q)[i] = IF i <= Len(p \o c) THEN (p \o c)[i] ELSE q[i - Len(p \o c)]
    <3> DEFINE d == p \o c
    <3>1. d \in Seq(Pieces) /\ q \in Seq(Pieces)
      BY <1>2, <1>3
    <3> HIDE DEF d
    <3>2. d \o q \in Seq(Pieces) /\ Len(d \o q) = Len(d) + Len(q)
          /\ \A i \in 1..(Len(d) + Len(q)) : (d \o q)[i] = IF i <= Len(d) THEN d[i] ELSE q[i - Len(d)]
      BY <3>1, ConcatProperties
    <3> QED
      BY <3>2, Zenon DEF d
  <2> QED
    BY <1>2, <1>3, <2>1
<1>5. Len(p) \in Nat /\ Len(q) \in Nat
  BY <1>2
<1>6. \A i \in 1..4 : s[Len(p) + i] = c[i]
  BY <1>3, <1>4, <1>5
<1>7. \A i \in 1..Len(p) : s[i] = p[i]
  BY <1>3, <1>4, <1>5
<1>8. \A i \in 1..Len(q) : s[Len(p) + 4 + i] = q[i]
  BY <1>4, <1>5
<1> QED
  BY <1>1, <1>4, <1>5, <1>6, <1>7, <1>8

LEMMA SplicedFound ==
  ASSUME NEW r \in Releases, NEW p, NEW q, NEW s, Spliced(s, r, p, q)
  PROVE  /\ Index(s, "BEGIN", 1) = Len(p) + 1
         /\ Index(s, "END", Len(p) + 1) = Len(p) + 3
         /\ Whole(s)
<1>1. PICK n \in Nat, m \in Nat : n = Len(p) /\ m = Len(q)
  BY SplicedParts
<1>2. s \in Seq(Pieces) /\ Len(s) = n + 4 + m /\ s[n + 1] = "BEGIN" /\ s[n + 2] # "END" /\ s[n + 1] # "END"
      /\ s[n + 3] = "END" /\ \A i \in 1..n : s[i] # "BEGIN"
  <2>1. s \in Seq(Pieces) /\ Len(s) = n + 4 + m /\ s[n + 1] = "BEGIN" /\ s[n + 2] = r /\ s[n + 3] = "END"
        /\ \A i \in 1..n : s[i] = p[i]
    BY <1>1, SplicedParts
  <2>2. \A i \in 1..n : p[i] # "BEGIN"
    BY <1>1, Zenon DEF Spliced
  <2>3. r # "END"
    BY SkillsAssumption
  <2> QED
    BY <2>1, <2>2, <2>3
<1>3. Index(s, "BEGIN", 1) = n + 1
  <2>1. n + 1 \in 1..Len(s) /\ n + 1 >= 1 /\ \A i \in 1..Len(s) : i >= 1 /\ s[i] = "BEGIN" => n + 1 <= i
    BY <1>1, <1>2
  <2> QED
    BY <1>2, <2>1, IndexIs
<1>4. Index(s, "END", n + 1) = n + 3
  <2>1. n + 3 \in 1..Len(s) /\ n + 1 \in Nat /\ n + 3 >= n + 1
    BY <1>1, <1>2
  <2>2. ASSUME NEW i \in 1..Len(s), i >= n + 1, s[i] = "END" PROVE n + 3 <= i
    <3>1. i # n + 1 /\ i # n + 2
      BY <1>2, <2>2
    <3> QED
      BY <1>1, <2>2, <3>1
  <2> QED
    BY <1>2, <2>1, <2>2, IndexIs
<1>5. Whole(s)
  BY <1>1, <1>3, <1>4 DEF Whole
<1> QED
  BY <1>1, <1>3, <1>4, <1>5

\* Splicing the same section once more writes the same.
LEMMA SplicedTwice ==
  ASSUME NEW r \in Releases, NEW p, NEW q, NEW s, Spliced(s, r, p, q)
  PROVE  spliceAgentsSection(s, buildAgentsSection(r)) = s
<1>1. PICK n \in Nat, m \in Nat : n = Len(p) /\ m = Len(q)
  BY SplicedParts
<1>2. s \in Seq(Pieces) /\ Len(s) = n + 4 + m /\ p \in Seq(Pieces) /\ q \in Seq(Pieces)
  <2>1. s \in Seq(Pieces) /\ Len(s) = n + 4 + m
    BY <1>1, SplicedParts
  <2>2. p \in Seq(Pieces) /\ q \in Seq(Pieces)
    BY Zenon DEF Spliced
  <2> QED
    BY <2>1, <2>2
<1> DEFINE rest == SubSeq(s, n + 4, Len(s))
<1>3. SubSeq(s, 1, n) = p
  <2>1. SubSeq(s, 1, n) \in Seq(Pieces) /\ Len(SubSeq(s, 1, n)) = n
        /\ \A i \in 1..n : SubSeq(s, 1, n)[i] = s[i]
    BY <1>1, <1>2, SubSeqProperties
  <2>2. \A i \in 1..n : s[i] = p[i]
    BY <1>1, SplicedParts
  <2> QED
    BY <1>1, <1>2, <2>1, <2>2, SeqEqual
<1>4. rest \in Seq(Pieces) /\ Len(rest) = m + 1 /\ \A i \in 1..(m + 1) : rest[i] = s[n + 3 + i]
  BY <1>1, <1>2, SubSeqProperties
<1>5. rest # <<>> /\ Head(rest) = "\n" /\ Tail(rest) = q
  <2>1. rest[1] = "\n" /\ \A i \in 1..m : rest[i + 1] = q[i]
    BY <1>1, <1>4, SplicedParts
  <2>2. rest # <<>> /\ Head(rest) = rest[1] /\ Tail(rest) \in Seq(Pieces) /\ Len(Tail(rest)) = m
        /\ \A i \in 1..m : Tail(rest)[i] = rest[i + 1]
    <3> HIDE DEF rest
    <3>1. rest # <<>>
      BY <1>1, <1>4
    <3>2. Head(rest) = rest[1]
      BY <1>4, <3>1
    <3>3. Tail(rest) \in Seq(Pieces) /\ Len(Tail(rest)) = Len(rest) - 1
          /\ \A i \in 1..(Len(rest) - 1) : Tail(rest)[i] = rest[i + 1]
      BY <1>4, <3>1, HeadTailProperties
    <3> QED
      BY <1>1, <1>4, <3>1, <3>2, <3>3
  <2>3. Tail(rest) = q
    BY <1>1, <1>2, <2>1, <2>2, SeqEqual
  <2> QED
    BY <2>1, <2>2, <2>3
<1> HIDE DEF rest
<1>6. (n + 1) - 1 = n /\ (n + 3) + 1 = n + 4 /\ n + 1 # 0 /\ n + 3 # 0
  BY <1>1
<1>7. Index(s, "BEGIN", 1) = n + 1 /\ Index(s, "END", n + 1) = n + 3
  BY <1>1, SplicedFound
<1>8. spliceAgentsSection(s, buildAgentsSection(r)) =
         SubSeq(s, 1, n) \o buildAgentsSection(r) \o (IF rest # <<>> /\ Head(rest) = "\n" THEN Tail(rest) ELSE rest)
  BY <1>6, <1>7 DEF spliceAgentsSection, rest
<1> QED
  BY <1>3, <1>5, <1>8 DEF Spliced

\* A file in which every section that begins also ends is written as that.
LEMMA SpliceWrites ==
  ASSUME NEW r \in Releases, NEW a \in Seq(Pieces), Whole(a)
  PROVE  \E p, q : Spliced(spliceAgentsSection(a, buildAgentsSection(r)), r, p, q)
<1> DEFINE begin == Index(a, "BEGIN", 1)
           end == IF begin = 0 THEN 0 ELSE Index(a, "END", begin)
           rest == SubSeq(a, end + 1, Len(a))
           ended == a = <<>> \/ Last(a) = "\n"
           c == buildAgentsSection(r)
           f == spliceAgentsSection(a, c)
<1>1. f = IF end # 0
          THEN SubSeq(a, 1, begin - 1) \o c \o (IF rest # <<>> /\ Head(rest) = "\n" THEN Tail(rest) ELSE rest)
          ELSE a \o (IF ended THEN <<>> ELSE <<"\n">>) \o (IF a = <<>> THEN <<>> ELSE <<"\n">>) \o c
  BY DEF spliceAgentsSection
<1>2. \/ begin = 0 /\ \A i \in 1..Len(a) : a[i] # "BEGIN"
      \/ begin \in 1..Len(a) /\ \A i \in 1..Len(a) : i < begin => a[i] # "BEGIN"
  <2>1. Len(a) \in Nat
    OBVIOUS
  <2> QED
    BY <2>1, IndexFound
<1>3. CASE begin = 0
  <2> DEFINE u == IF ended THEN <<>> ELSE <<"\n">>
             v == IF a = <<>> THEN <<>> ELSE <<"\n">>
             p == (a \o u) \o v
  <2>1. end = 0
    BY <1>3
  <2>2. f = p \o c
    BY <1>1, <2>1
  <2>3. u \in Seq({"\n"}) /\ v \in Seq({"\n"}) /\ u \in Seq(Pieces) /\ v \in Seq(Pieces)
    <3>1. <<>> \in Seq({"\n"}) /\ <<"\n">> \in Seq({"\n"})
      OBVIOUS
    <3>2. <<>> \in Seq(Pieces) /\ <<"\n">> \in Seq(Pieces)
      BY DEF Pieces
    <3>3. (u = <<>> \/ u = <<"\n">>) /\ (v = <<>> \/ v = <<"\n">>)
      <4> HIDE DEF ended
      <4> QED
        OBVIOUS
    <3> QED
      BY <3>1, <3>2, <3>3
  <2> HIDE DEF u, v
  <2>4. a \o u \in Seq(Pieces) /\ Len(a \o u) = Len(a) + Len(u)
        /\ \A i \in 1..(Len(a) + Len(u)) : (a \o u)[i] = IF i <= Len(a) THEN a[i] ELSE u[i - Len(a)]
    BY <2>3, ConcatProperties
  <2>5. \A i \in 1..Len(u) : u[i] # "BEGIN"
    BY <2>3
  <2>6. \A i \in 1..Len(v) : v[i] # "BEGIN"
    BY <2>3
  <2>7. \A i \in 1..Len(a) : a[i] # "BEGIN"
    BY <1>2, <1>3
  <2>8. Len(a) \in Nat /\ Len(u) \in Nat /\ Len(v) \in Nat
    BY <2>3
  <2>9. \A i \in 1..(Len(a) + Len(u)) : (a \o u)[i] # "BEGIN"
    BY <2>4, <2>5, <2>7, <2>8
  <2>10. p \in Seq(Pieces) /\ Len(p) = (Len(a) + Len(u)) + Len(v)
         /\ \A i \in 1..(Len(a) + Len(u) + Len(v)) :
               p[i] = IF i <= Len(a) + Len(u) THEN (a \o u)[i] ELSE v[i - (Len(a) + Len(u))]
    BY <2>3, <2>4, <2>8, ConcatProperties
  <2>11. \A i \in 1..Len(p) : p[i] # "BEGIN"
    BY <2>6, <2>8, <2>9, <2>10
  <2>12. c \in Seq(Pieces) /\ <<>> \in Seq(Pieces)
    BY DEF buildAgentsSection, Pieces
  <2> HIDE DEF p, c
  <2>13. p \o c \in Seq(Pieces) /\ (p \o c) \o <<>> = p \o c
    BY <2>10, <2>12, ConcatProperties, ConcatEmptySeq
  <2> QED
    BY <2>2, <2>10, <2>11, <2>12, <2>13 DEF Spliced, c
<1>4. CASE begin \in 1..Len(a)
  <2>1. end # 0 /\ end \in 1..Len(a)
    <3>1. begin # 0 /\ begin \in Nat /\ end = Index(a, "END", begin)
      BY <1>4
    <3>2. Index(a, "END", begin) # 0
      BY <3>1 DEF Whole
    <3> QED
      BY <3>1, <3>2, IndexFound
  <2> DEFINE p == SubSeq(a, 1, begin - 1)
             q == IF rest # <<>> /\ Head(rest) = "\n" THEN Tail(rest) ELSE rest
  <2>2. f = p \o c \o q
    BY <1>1, <2>1
  <2>3. Len(a) \in Nat /\ begin - 1 \in Nat /\ begin - 1 <= Len(a)
    BY <1>4
  <2>4. p \in Seq(Pieces) /\ Len(p) = begin - 1 /\ \A i \in 1..(begin - 1) : p[i] = a[i]
    <3> HIDE DEF begin
    <3> QED
      BY <2>3, <1>4, SubSeqProperties
  <2>5. \A i \in 1..Len(p) : p[i] # "BEGIN"
    <3>1. \A i \in 1..(begin - 1) : a[i] # "BEGIN"
      <4> HIDE DEF begin
      <4> QED
        BY <1>2, <1>4, <2>3
    <3> HIDE DEF p, begin
    <3> QED
      BY <2>4, <3>1
  <2>6. rest \in Seq(Pieces)
    <3> HIDE DEF end
    <3> QED
      BY <2>1, <2>3, SubSeqProperties
  <2>7. q \in Seq(Pieces)
    <3> HIDE DEF rest
    <3> QED
      BY <2>6, HeadTailProperties
  <2> HIDE DEF p, q, f
  <2> QED
    BY <2>2, <2>4, <2>5, <2>7 DEF Spliced, f
<1> QED
  BY <1>2, <1>3, <1>4

\* Words that are no marker keep a section whole.
LEMMA AppendedWhole ==
  ASSUME NEW s \in Seq(Pieces), Whole(s)
  PROVE  Append(s, "below") \in Seq(Pieces) /\ Whole(Append(s, "below"))
<1> DEFINE a == Append(s, "below")
<1>1. PICK n \in Nat : n = Len(s)
  OBVIOUS
<1>2. a \in Seq(Pieces) /\ Len(a) = n + 1 /\ a[n + 1] = "below" /\ \A i \in 1..n : a[i] = s[i]
  BY <1>1 DEF Pieces
<1> HIDE DEF a
<1>3. ASSUME Index(a, "BEGIN", 1) # 0 PROVE Index(a, "END", Index(a, "BEGIN", 1)) # 0
  <2>1. PICK b : b = Index(a, "BEGIN", 1)
    OBVIOUS
  <2>2. b \in 1..(n + 1) /\ a[b] = "BEGIN" /\ \A i \in 1..(n + 1) : a[i] = "BEGIN" => b <= i
    BY <1>2, <1>3, <2>1, IndexFound
  <2>3. b \in 1..n /\ s[b] = "BEGIN"
    BY <1>1, <1>2, <2>2
  <2>4. Index(s, "BEGIN", 1) = b
    <3>1. \A i \in 1..Len(s) : i >= 1 /\ s[i] = "BEGIN" => b <= i
      BY <1>1, <1>2, <2>2
    <3> QED
      BY <1>1, <2>3, <3>1, IndexIs
  <2>5. PICK e : e = Index(s, "END", b)
    OBVIOUS
  <2>6. e # 0
    BY <2>3, <2>4, <2>5 DEF Whole
  <2>7. e \in 1..n /\ e >= b /\ s[e] = "END"
    BY <1>1, <2>3, <2>5, <2>6, IndexFound
  <2>8. e \in 1..Len(a) /\ a[e] = "END"
    BY <1>1, <1>2, <2>7
  <2>9. b \in Nat
    BY <2>3
  <2> QED
    BY <1>2, <2>1, <2>7, <2>8, <2>9, IndexFound
<1> QED
  BY <1>2, <1>3 DEF Whole, a

LEMMA SectionWritten ==
  ASSUME NEW r \in Releases, NEW a \in Seq(Pieces), Whole(a)
  PROVE  LET s == spliceAgentsSection(a, buildAgentsSection(r))
         IN s \in Seq(Pieces) /\ Whole(s) /\ s = spliceAgentsSection(s, buildAgentsSection(r))
<1> DEFINE s == spliceAgentsSection(a, buildAgentsSection(r))
<1>1. PICK p, q : Spliced(s, r, p, q)
  BY SpliceWrites
<1> HIDE DEF s
<1>2. s \in Seq(Pieces) /\ Whole(s) /\ spliceAgentsSection(s, buildAgentsSection(r)) = s
  BY <1>1, SplicedParts, SplicedFound, SplicedTwice
<1> QED
  BY <1>2 DEF s

-----------------------------------------------------------------------------
(* Each step. *)

Content == Releases \cup {"edited", "torn", NoFile}

\* One file of one tree is written, or removed.
LEMMA DirWritten ==
  ASSUME NEW d \in [DOMAIN Trees -> [Bundles \cup Own -> Content]],
         NEW t \in DOMAIN Trees, NEW b \in Bundles \cup Own, NEW v \in Content,
         NEW e, e = [d EXCEPT ![t][b] = v]
  PROVE  /\ e \in [DOMAIN Trees -> [Bundles \cup Own -> Content]]
         /\ \A t2 \in DOMAIN Trees : \A b2 \in Bundles \cup Own :
               e[t2][b2] = IF t2 = t /\ b2 = b THEN v ELSE d[t2][b2]
<1>1. e = [d EXCEPT ![t] = [d[t] EXCEPT ![b] = v]]
  OBVIOUS
<1>2. [d[t] EXCEPT ![b] = v] \in [Bundles \cup Own -> Content]
      /\ \A b2 \in Bundles \cup Own : [d[t] EXCEPT ![b] = v][b2] = IF b2 = b THEN v ELSE d[t][b2]
  OBVIOUS
<1> QED
  BY <1>1, <1>2

LEMMA TreesAre == DOMAIN Trees = 1..Len(Trees) /\ Len(Trees) \in Nat /\ 1 \in DOMAIN Trees
<1>1. Trees \in Seq({Trees[i] : i \in DOMAIN Trees}) /\ Trees # <<>>
  BY SkillsAssumption
<1> DEFINE T == {Trees[i] : i \in DOMAIN Trees}
<1> HIDE DEF T
<1>2. \A s \in Seq(T) : s # <<>> => DOMAIN s = 1..Len(s) /\ Len(s) \in Nat /\ 1 \in DOMAIN s
  OBVIOUS
<1> QED
  BY <1>1, <1>2 DEF T

\* What the lock lists is a bundle, and a release of it.
LEMMA LocksAre ==
  ASSUME NEW l \in {LockOf(r) : r \in Releases} \cup {NoFile}, l # NoFile
  PROVE  DOMAIN l \subseteq Bundles /\ \A b \in DOMAIN l : l[b] \in Releases
BY DEF LockOf, Bundles

LEMMA InitSkillsInv == SkillsInit => SkillsInv
<1> SUFFICES ASSUME SkillsInit PROVE SkillsInv
  OBVIOUS
<1>1. dirs = [t \in DOMAIN Trees |-> [b \in Bundles \cup Own |-> IF b \in Own THEN "edited" ELSE NoFile]]
      /\ locks = [t \in DOMAIN Trees |-> NoFile] /\ export = NoExport /\ export.pc = "idle"
      /\ touched.by = [t \in DOMAIN Trees |-> Own] /\ touched.exported = [t \in DOMAIN Trees |-> {}]
  BY DEF SkillsInit, NoExport
<1>2. SkillsTyped
  <2>1. dirs \in [DOMAIN Trees -> [Bundles \cup Own -> Releases \cup {"edited", "torn", NoFile}]]
    BY <1>1
  <2>2. touched \in [by: [DOMAIN Trees -> SUBSET (Bundles \cup Own)], exported: [DOMAIN Trees -> SUBSET Bundles]]
    BY DEF SkillsInit
  <2> QED
    BY <1>1, <2>1, <2>2 DEF SkillsTyped
<1>3. OwnKept
  BY <1>1 DEF OwnKept
<1>4. BehindDone
  BY <1>1 DEF BehindDone, Behind
<1>5. ExportedStands
  BY <1>1 DEF ExportedStands
<1>6. NothingRetired
  BY <1>1 DEF NothingRetired
<1>7. EditsKnown
  <2>1. \A t \in DOMAIN Trees : \A b \in Bundles : dirs[t][b] = NoFile /\ touched.by[t] = Own /\ b \notin Own
    BY <1>1, SkillsAssumption
  <2> QED
    BY <2>1, SkillsAssumption DEF EditsKnown
<1>8. LocksTell
  <2>1. \A t \in DOMAIN Trees : \A b \in Bundles : dirs[t][b] = NoFile
    BY <1>1, SkillsAssumption
  <2> QED
    BY <2>1, SkillsAssumption DEF LocksTell
<1>9. SectionKept
  <2>0. agents = NoFile \/ agents = <<>> \/ agents = <<"above">> \/ agents = <<"above", "\n", "below", "\n">>
    BY DEF SkillsInit
  <2>1. agents # NoFile => agents \in Seq(Pieces)
    <3>1. "above" \in Pieces /\ "below" \in Pieces /\ "\n" \in Pieces
      BY DEF Pieces
    <3>2. <<>> \in Seq(Pieces) /\ <<"above">> \in Seq(Pieces) /\ <<"above", "\n", "below", "\n">> \in Seq(Pieces)
      BY <3>1
    <3> QED
      BY <2>0, <3>2, Zenon
  <2>2. agents # NoFile => \A i \in 1..Len(agents) : agents[i] # "BEGIN"
    <3>1. CASE agents = <<>>
      BY <3>1
    <3>2. CASE agents = <<"above">>
      BY <3>2
    <3>3. CASE agents = <<"above", "\n", "below", "\n">>
      BY <3>3
    <3> QED
      BY <2>0, <3>1, <3>2, <3>3
  <2>3. agents # NoFile => Index(agents, "BEGIN", 1) = 0
    BY <2>1, <2>2, IndexFound
  <2> QED
    BY <1>1, <2>1, <2>3 DEF SectionKept, Whole
<1> QED
  BY <1>2, <1>3, <1>4, <1>5, <1>6, <1>7, <1>8, <1>9 DEF SkillsInv

LEMMA BeginExportKeeps == SkillsInv /\ (\E r \in Releases : BeginExport(r)) => SkillsInv'
<1> SUFFICES ASSUME SkillsInv, NEW r \in Releases, BeginExport(r) PROVE SkillsInv'
  OBVIOUS
<1>1. export.pc = "idle" /\ UNCHANGED <<dirs, locks, guide, agents, touched, spent>>
      /\ export' = [pc |-> "guide", release |-> r, tree |-> 1] /\ export'.pc = "guide" /\ export'.tree = 1
  BY DEF BeginExport
<1>2. SkillsTyped'
  BY <1>1, TreesAre DEF SkillsInv, SkillsTyped
<1>3. OwnKept'
  BY <1>1 DEF SkillsInv, OwnKept
<1>4. BehindDone'
  BY <1>1 DEF BehindDone, Behind
<1>5. ExportedStands'
  BY <1>1 DEF SkillsInv, ExportedStands
<1>6. NothingRetired'
  BY <1>1 DEF NothingRetired
<1>7. EditsKnown'
  BY <1>1 DEF SkillsInv, EditsKnown
<1>8. LocksTell'
  BY <1>1 DEF SkillsInv, LocksTell, Recorded
<1>9. SectionKept'
  BY <1>1 DEF SkillsInv, SectionKept
<1> QED
  BY <1>2, <1>3, <1>4, <1>5, <1>6, <1>7, <1>8, <1>9 DEF SkillsInv

LEMMA removeRetiredGuidesKeeps == SkillsInv /\ removeRetiredGuides => SkillsInv'
<1> SUFFICES ASSUME SkillsInv, removeRetiredGuides PROVE SkillsInv'
  OBVIOUS
<1>0. export # NoExport /\ export.pc = "guide" /\ export.tree = 1 /\ export.release \in Releases
      /\ export \in [pc: {"guide", "prune", "write", "agents", "done"}, release: Releases, tree: DOMAIN Trees]
  BY DEF SkillsInv, SkillsTyped, removeRetiredGuides, NoExport
<1>1. UNCHANGED <<dirs, locks, agents, touched, spent>> /\ export'.pc = "prune" /\ export'.tree = 1
      /\ export' = [pc |-> "prune", release |-> export.release, tree |-> 1]
  BY <1>0 DEF removeRetiredGuides
<1>2. SkillsTyped'
  BY <1>0, <1>1, TreesAre DEF SkillsInv, SkillsTyped
<1>3. OwnKept'
  BY <1>1 DEF SkillsInv, OwnKept
<1>4. BehindDone'
  BY <1>1 DEF BehindDone, Behind
<1>5. ExportedStands'
  BY <1>1 DEF SkillsInv, ExportedStands
<1>6. NothingRetired'
  BY <1>1 DEF NothingRetired
<1>7. EditsKnown'
  BY <1>1 DEF SkillsInv, EditsKnown
<1>8. LocksTell'
  BY <1>0, <1>1 DEF SkillsInv, LocksTell, Recorded
<1>9. SectionKept'
  BY <1>1 DEF SkillsInv, SectionKept
<1> QED
  BY <1>2, <1>3, <1>4, <1>5, <1>6, <1>7, <1>8, <1>9 DEF SkillsInv

\* An export under way is of a release, in a tree.
LEMMA ExportIs ==
  ASSUME SkillsTyped, export.pc # "idle"
  PROVE  /\ export \in [pc: {"guide", "prune", "write", "agents", "done"}, release: Releases, tree: DOMAIN Trees]
         /\ export.release \in Releases /\ export.tree \in DOMAIN Trees /\ export.tree \in 1..Len(Trees)
BY TreesAre DEF SkillsTyped, NoExport

\* Who wrote a tree's files changes.
LEMMA ByWritten ==
  ASSUME SkillsTyped, NEW t \in DOMAIN Trees, NEW by \in SUBSET (Bundles \cup Own),
         NEW T, T = [touched EXCEPT !.by[t] = by]
  PROVE  /\ T \in [by: [DOMAIN Trees -> SUBSET (Bundles \cup Own)], exported: [DOMAIN Trees -> SUBSET Bundles]]
         /\ \A t2 \in DOMAIN Trees : T.by[t2] = IF t2 = t THEN by ELSE touched.by[t2]
         /\ T.exported = touched.exported
<1>1. touched.by \in [DOMAIN Trees -> SUBSET (Bundles \cup Own)]
      /\ touched.exported \in [DOMAIN Trees -> SUBSET Bundles]
      /\ touched = [by |-> touched.by, exported |-> touched.exported]
  BY DEF SkillsTyped
<1>2. T = [by |-> [touched.by EXCEPT ![t] = by], exported |-> touched.exported]
  BY <1>1
<1> QED
  BY <1>1, <1>2

LEMMA pruneRetiredSkillsKeeps == SkillsInv /\ pruneRetiredSkills => SkillsInv'
<1> SUFFICES ASSUME SkillsInv, pruneRetiredSkills PROVE SkillsInv'
  OBVIOUS
<1>0. export.pc = "prune" /\ export.release \in Releases /\ export.tree \in DOMAIN Trees /\ export.tree \in 1..Len(Trees)
      /\ export \in [pc: {"guide", "prune", "write", "agents", "done"}, release: Releases, tree: DOMAIN Trees]
  BY ExportIs DEF SkillsInv, pruneRetiredSkills
<1>1. UNCHANGED <<locks, guide, agents, spent>>
  BY DEF pruneRetiredSkills
<1>2. CASE Retired(export.release, export.tree) = {}
  <2>1. export'.pc = "write" /\ export'.tree = export.tree /\ export'.release = export.release
        /\ export' \in [pc: {"guide", "prune", "write", "agents", "done"}, release: Releases, tree: DOMAIN Trees]
        /\ UNCHANGED <<dirs, touched>>
    BY <1>0, <1>2 DEF pruneRetiredSkills
  <2>2. SkillsTyped'
    BY <1>1, <2>1 DEF SkillsInv, SkillsTyped
  <2>3. OwnKept'
    BY <1>1, <2>1 DEF SkillsInv, OwnKept
  <2>4. BehindDone'
    BY <1>0, <1>1, <2>1 DEF SkillsInv, BehindDone, Behind
  <2>5. ExportedStands'
    BY <1>1, <2>1 DEF SkillsInv, ExportedStands
  <2>6. NothingRetired'
    BY <1>1, <1>2, <2>1 DEF NothingRetired, Retired
  <2>7. EditsKnown'
    BY <1>1, <2>1 DEF SkillsInv, EditsKnown
  <2>8. LocksTell'
    BY <1>0, <1>1, <2>1 DEF SkillsInv, LocksTell, Recorded
  <2>9. SectionKept'
    BY <1>1, <2>1 DEF SkillsInv, SectionKept
  <2> QED
    BY <2>2, <2>3, <2>4, <2>5, <2>6, <2>7, <2>8, <2>9 DEF SkillsInv
<1>3. CASE Retired(export.release, export.tree) # {}
  <2>1. PICK t \in DOMAIN Trees, r \in Releases : t = export.tree /\ r = export.release
    BY <1>0
  <2>2. PICK b \in Retired(r, t) :
             /\ dirs' = [dirs EXCEPT ![t][b] = NoFile]
             /\ touched' = [touched EXCEPT !.by[t] = @ \ {b}, !.exported[t] = @ \ {b}]
             /\ UNCHANGED export
    BY <1>3, <2>1 DEF pruneRetiredSkills
  <2>3. locks[t] # NoFile /\ b \in Bundles /\ b \notin Own /\ b \notin Ships[r]
    <3>1. locks[t] # NoFile /\ b \in DOMAIN locks[t] /\ b \notin Ships[r]
      BY <2>2 DEF Retired
    <3>2. locks[t] \in {LockOf(q) : q \in Releases} \cup {NoFile}
      BY DEF SkillsInv, SkillsTyped
    <3> QED
      BY <3>1, <3>2, LocksAre, SkillsAssumption
  <2>4. dirs' \in [DOMAIN Trees -> [Bundles \cup Own -> Content]]
        /\ \A t2 \in DOMAIN Trees : \A b2 \in Bundles \cup Own :
              dirs'[t2][b2] = IF t2 = t /\ b2 = b THEN NoFile ELSE dirs[t2][b2]
    <3>1. dirs \in [DOMAIN Trees -> [Bundles \cup Own -> Content]] /\ b \in Bundles \cup Own /\ NoFile \in Content
      BY <2>3 DEF SkillsInv, SkillsTyped, Content
    <3> QED
      BY <2>2, <3>1, DirWritten
  <2>5. touched' \in [by: [DOMAIN Trees -> SUBSET (Bundles \cup Own)], exported: [DOMAIN Trees -> SUBSET Bundles]]
        /\ (\A t2 \in DOMAIN Trees : touched'.by[t2] = IF t2 = t THEN touched.by[t] \ {b} ELSE touched.by[t2])
        /\ \A t2 \in DOMAIN Trees :
              touched'.exported[t2] = IF t2 = t THEN touched.exported[t] \ {b} ELSE touched.exported[t2]
    <3>1. touched.by \in [DOMAIN Trees -> SUBSET (Bundles \cup Own)]
          /\ touched.exported \in [DOMAIN Trees -> SUBSET Bundles]
          /\ touched = [by |-> touched.by, exported |-> touched.exported]
      BY DEF SkillsInv, SkillsTyped
    <3>2. touched' = [by |-> [touched.by EXCEPT ![t] = @ \ {b}], exported |-> [touched.exported EXCEPT ![t] = @ \ {b}]]
      BY <2>2, <3>1
    <3> QED
      BY <3>1, <3>2
  <2>6. SkillsTyped'
    BY <1>1, <2>2, <2>4, <2>5 DEF SkillsInv, SkillsTyped, Content
  <2>7. OwnKept'
    BY <2>3, <2>4 DEF SkillsInv, OwnKept
  <2>8. BehindDone'
    <3>1. Behind' = Behind /\ \A t2 \in Behind : t2 \in DOMAIN Trees /\ t2 # t
      BY <1>0, <2>1, <2>2, TreesAre DEF Behind
    <3>2. \A t2 \in Behind : touched'.exported[t2] = touched.exported[t2]
      BY <2>5, <3>1
    <3>3. \A b2 \in Ships[r] : b2 \in Bundles
      BY DEF Bundles
    <3>4. \A t2 \in Behind : \A b2 \in Ships[r] : dirs'[t2][b2] = dirs[t2][b2]
      BY <2>4, <3>1, <3>3
    <3> QED
      BY <1>1, <2>1, <2>2, <3>1, <3>2, <3>4 DEF SkillsInv, BehindDone
  <2>9. ExportedStands'
    <3>1. ASSUME NEW t2 \in DOMAIN Trees, NEW b2 \in touched'.exported[t2]
          PROVE  b2 \in touched.exported[t2] /\ dirs'[t2][b2] = dirs[t2][b2]
      <4>1. b2 \in touched.exported[t2] /\ ~(t2 = t /\ b2 = b)
        BY <2>5
      <4>2. b2 \in Bundles
        BY <4>1 DEF SkillsInv, SkillsTyped
      <4> QED
        BY <2>4, <4>1, <4>2
    <3> QED
      BY <1>1, <3>1 DEF SkillsInv, ExportedStands
  <2>10. NothingRetired'
    BY <1>0, <2>2 DEF NothingRetired
  <2>11. EditsKnown'
    <3>1. ASSUME "killed" \notin spent, NEW t2 \in DOMAIN Trees, NEW b2 \in Bundles
          PROVE  dirs'[t2][b2] # "torn" /\ (b2 \in touched'.by[t2] <=> dirs'[t2][b2] = "edited")
      <4>1. dirs[t2][b2] # "torn" /\ (b2 \in touched.by[t2] <=> dirs[t2][b2] = "edited")
        BY <3>1 DEF SkillsInv, EditsKnown
      <4>2. CASE t2 = t /\ b2 = b
        BY <2>4, <2>5, <4>2, SkillsAssumption
      <4>3. CASE ~(t2 = t /\ b2 = b)
        <5>1. dirs'[t2][b2] = dirs[t2][b2]
          BY <2>4, <4>3
        <5>2. b2 \in touched'.by[t2] <=> b2 \in touched.by[t2]
          BY <2>5, <4>3
        <5> QED
          BY <4>1, <5>1, <5>2
      <4> QED
        BY <4>2, <4>3
    <3> QED
      BY <1>1, <3>1 DEF EditsKnown
  <2>12. LocksTell'
    <3>1. ASSUME spent \cap {"killed", "lock"} = {}, NEW t2 \in DOMAIN Trees, NEW b2 \in Bundles, dirs'[t2][b2] \in Releases
          PROVE  Recorded(t2, b2)'
      <4>1. dirs'[t2][b2] = dirs[t2][b2]
        BY <2>4, <3>1, SkillsAssumption
      <4>2. Recorded(t2, b2)
        BY <1>0, <3>1, <4>1 DEF SkillsInv, LocksTell
      <4> QED
        BY <1>1, <4>1, <4>2 DEF Recorded
    <3> QED
      BY <1>1, <3>1 DEF LocksTell
  <2>13. SectionKept'
    BY <1>1, <2>2 DEF SkillsInv, SectionKept
  <2> QED
    BY <2>6, <2>7, <2>8, <2>9, <2>10, <2>11, <2>12, <2>13 DEF SkillsInv
<1> QED
  BY <1>2, <1>3

LEMMA WriteSkillKeeps == SkillsInv /\ WriteSkill => SkillsInv'
<1> SUFFICES ASSUME SkillsInv, WriteSkill PROVE SkillsInv'
  OBVIOUS
<1>0. export.pc = "write" /\ export.release \in Releases /\ export.tree \in DOMAIN Trees /\ export.tree \in 1..Len(Trees)
      /\ UNCHANGED <<locks, guide, agents, export, spent>>
  BY ExportIs DEF SkillsInv, WriteSkill
<1>1. PICK t \in DOMAIN Trees, r \in Releases : t = export.tree /\ r = export.release
  BY <1>0
<1>2. PICK b \in Ships[r] : /\ dirs' = [dirs EXCEPT ![t][b] = r]
                            /\ touched' = [touched EXCEPT !.by[t] = @ \ {b}]
  BY <1>1 DEF WriteSkill
<1>3. b \in Bundles /\ b \notin Own /\ r \notin {"edited", "torn", NoFile} /\ r \in Content
      /\ \A b2 \in Ships[r] : b2 \in Bundles
  BY SkillsAssumption DEF Bundles, Content
<1>4. dirs' \in [DOMAIN Trees -> [Bundles \cup Own -> Content]]
      /\ \A t2 \in DOMAIN Trees : \A b2 \in Bundles \cup Own :
            dirs'[t2][b2] = IF t2 = t /\ b2 = b THEN r ELSE dirs[t2][b2]
  <2>1. dirs \in [DOMAIN Trees -> [Bundles \cup Own -> Content]] /\ b \in Bundles \cup Own /\ r \in Content
    BY <1>3 DEF SkillsInv, SkillsTyped, Content
  <2> QED
    BY <1>2, <2>1, DirWritten
<1>5. touched' \in [by: [DOMAIN Trees -> SUBSET (Bundles \cup Own)], exported: [DOMAIN Trees -> SUBSET Bundles]]
      /\ (\A t2 \in DOMAIN Trees : touched'.by[t2] = IF t2 = t THEN touched.by[t] \ {b} ELSE touched.by[t2])
      /\ touched'.exported = touched.exported
  <2>1. SkillsTyped /\ touched.by[t] \ {b} \in SUBSET (Bundles \cup Own)
    BY DEF SkillsInv, SkillsTyped
  <2>2. touched' = [touched EXCEPT !.by[t] = touched.by[t] \ {b}]
    BY <1>2, <2>1 DEF SkillsTyped
  <2> QED
    BY <2>1, <2>2, ByWritten
<1>6. SkillsTyped'
  BY <1>0, <1>4, <1>5 DEF SkillsInv, SkillsTyped, Content
<1>7. OwnKept'
  BY <1>3, <1>4 DEF SkillsInv, OwnKept
<1>8. BehindDone'
  <2>1. Behind' = Behind /\ \A t2 \in Behind : t2 \in DOMAIN Trees /\ t2 # t
    BY <1>0, <1>1, TreesAre DEF Behind
  <2>2. \A t2 \in Behind : \A b2 \in Ships[r] : dirs'[t2][b2] = dirs[t2][b2]
    BY <1>3, <1>4, <2>1
  <2> QED
    BY <1>0, <1>1, <1>5, <2>1, <2>2 DEF SkillsInv, BehindDone
<1>9. ExportedStands'
  <2>1. ASSUME NEW t2 \in DOMAIN Trees, NEW b2 \in touched.exported[t2] PROVE dirs'[t2][b2] # NoFile
    <3>1. dirs[t2][b2] # NoFile /\ b2 \in Bundles
      BY DEF SkillsInv, ExportedStands, SkillsTyped
    <3> QED
      BY <1>3, <1>4, <3>1
  <2> QED
    BY <1>0, <1>5, <2>1 DEF SkillsInv, ExportedStands
<1>10. NothingRetired'
  <2>1. Retired(r, t) = {}
    BY <1>0, <1>1 DEF SkillsInv, NothingRetired
  <2>2. locks[t] \in {LockOf(q) : q \in Releases} \cup {NoFile}
    BY DEF SkillsInv, SkillsTyped
  <2>3. ASSUME locks[t] # NoFile, NEW x \in DOMAIN locks[t] \ Ships[r] PROVE dirs'[t][x] = dirs[t][x]
    BY <1>2, <1>4, <2>2, <2>3, LocksAre
  <2>4. Retired(r, t)' = {}
    BY <1>0, <2>1, <2>3 DEF Retired
  <2> QED
    BY <1>0, <1>1, <2>4 DEF NothingRetired
<1>11. EditsKnown'
  <2>1. ASSUME "killed" \notin spent, NEW t2 \in DOMAIN Trees, NEW b2 \in Bundles
        PROVE  dirs'[t2][b2] # "torn" /\ (b2 \in touched'.by[t2] <=> dirs'[t2][b2] = "edited")
    <3>1. dirs[t2][b2] # "torn" /\ (b2 \in touched.by[t2] <=> dirs[t2][b2] = "edited")
      BY <2>1 DEF SkillsInv, EditsKnown
    <3>2. CASE t2 = t /\ b2 = b
      BY <1>3, <1>4, <1>5, <3>2
    <3>3. CASE ~(t2 = t /\ b2 = b)
      <4>1. dirs'[t2][b2] = dirs[t2][b2]
        BY <1>4, <3>3
      <4>2. b2 \in touched'.by[t2] <=> b2 \in touched.by[t2]
        BY <1>5, <3>3
      <4> QED
        BY <3>1, <4>1, <4>2
    <3> QED
      BY <3>2, <3>3
  <2> QED
    BY <1>0, <2>1 DEF EditsKnown
<1>12. LocksTell'
  <2>1. ASSUME spent \cap {"killed", "lock"} = {}, NEW t2 \in DOMAIN Trees, NEW b2 \in Bundles, dirs'[t2][b2] \in Releases
        PROVE  Recorded(t2, b2)' \/ (t2 = t /\ b2 \in Ships[r] /\ dirs'[t2][b2] = r)
    <3>1. CASE t2 = t /\ b2 = b
      BY <1>4, <3>1
    <3>2. CASE ~(t2 = t /\ b2 = b)
      <4>1. dirs'[t2][b2] = dirs[t2][b2]
        BY <1>4, <3>2
      <4>2. Recorded(t2, b2) \/ (t2 = t /\ b2 \in Ships[r] /\ dirs[t2][b2] = r)
        BY <1>1, <2>1, <4>1 DEF SkillsInv, LocksTell
      <4> QED
        BY <1>0, <4>1, <4>2 DEF Recorded
    <3> QED
      BY <3>1, <3>2
  <2> QED
    BY <1>0, <1>1, <2>1 DEF LocksTell
<1>13. SectionKept'
  BY <1>0 DEF SkillsInv, SectionKept
<1> QED
  BY <1>6, <1>7, <1>8, <1>9, <1>10, <1>11, <1>12, <1>13 DEF SkillsInv

LEMMA WriteLockKeeps == SkillsInv /\ WriteLock => SkillsInv'
<1> SUFFICES ASSUME SkillsInv, WriteLock PROVE SkillsInv'
  OBVIOUS
<1>0. export.pc = "write" /\ export.release \in Releases /\ export.tree \in DOMAIN Trees /\ export.tree \in 1..Len(Trees)
      /\ export \in [pc: {"guide", "prune", "write", "agents", "done"}, release: Releases, tree: DOMAIN Trees]
      /\ UNCHANGED <<dirs, guide, agents, spent>>
  BY ExportIs DEF SkillsInv, WriteLock
<1>1. PICK t \in DOMAIN Trees, r \in Releases : t = export.tree /\ r = export.release
  BY <1>0
<1>2. /\ \A b \in Ships[r] : dirs[t][b] = r
      /\ locks' = [locks EXCEPT ![t] = LockOf(r)]
      /\ export' = NextTree
      /\ touched' = [touched EXCEPT !.exported[t] = @ \cup Ships[r]]
  BY <1>1 DEF WriteLock
<1>3. (\A b \in Ships[r] : b \in Bundles) /\ r \notin {"edited", "torn", NoFile}
      /\ LockOf(r) # NoFile /\ DOMAIN LockOf(r) = Ships[r] /\ \A b \in Ships[r] : LockOf(r)[b] = r
  BY SkillsAssumption DEF Bundles, LockOf
<1>4. \A t2 \in DOMAIN Trees : locks[t2] \in {LockOf(q) : q \in Releases} \cup {NoFile}
  BY DEF SkillsInv, SkillsTyped
<1>5. locks' \in [DOMAIN Trees -> {LockOf(q) : q \in Releases} \cup {NoFile}]
      /\ \A t2 \in DOMAIN Trees : locks'[t2] = IF t2 = t THEN LockOf(r) ELSE locks[t2]
  BY <1>2 DEF SkillsInv, SkillsTyped
<1>6. touched' \in [by: [DOMAIN Trees -> SUBSET (Bundles \cup Own)], exported: [DOMAIN Trees -> SUBSET Bundles]]
      /\ touched'.by = touched.by
      /\ \A t2 \in DOMAIN Trees :
            touched'.exported[t2] = IF t2 = t THEN touched.exported[t] \cup Ships[r] ELSE touched.exported[t2]
  <2>1. touched.by \in [DOMAIN Trees -> SUBSET (Bundles \cup Own)]
        /\ touched.exported \in [DOMAIN Trees -> SUBSET Bundles]
        /\ touched = [by |-> touched.by, exported |-> touched.exported]
    BY DEF SkillsInv, SkillsTyped
  <2>2. touched' = [by |-> touched.by, exported |-> [touched.exported EXCEPT ![t] = @ \cup Ships[r]]]
    BY <1>2, <2>1
  <2> QED
    BY <1>3, <2>1, <2>2
<1>7. /\ export' \in [pc: {"guide", "prune", "write", "agents", "done"}, release: Releases, tree: DOMAIN Trees]
      /\ export'.release = r
      /\ \/ t = Len(Trees) /\ export'.pc = "agents"
         \/ t < Len(Trees) /\ export'.pc = "prune" /\ export'.tree = t + 1
  <2>1. t \in 1..Len(Trees) /\ DOMAIN Trees = 1..Len(Trees) /\ Len(Trees) \in Nat
    BY <1>0, <1>1, TreesAre
  <2>2. CASE t = Len(Trees)
    <3>1. export' = [export EXCEPT !.pc = "agents"]
      BY <1>1, <1>2, <2>2 DEF NextTree
    <3> QED
      BY <1>0, <1>1, <2>2, <3>1
  <2>3. CASE t # Len(Trees)
    <3>1. export' = [pc |-> "prune", release |-> r, tree |-> t + 1]
      BY <1>0, <1>1, <1>2, <2>3 DEF NextTree
    <3>2. t < Len(Trees) /\ t + 1 \in DOMAIN Trees
      BY <2>1, <2>3
    <3> QED
      BY <3>1, <3>2
  <2> QED
    BY <2>2, <2>3
<1>8. Behind' = Behind \cup {t} /\ Behind' \subseteq DOMAIN Trees /\ t \notin Behind
  <2>1. Behind = 1..(t - 1)
    BY <1>0, <1>1 DEF Behind
  <2>2. t \in 1..Len(Trees) /\ DOMAIN Trees = 1..Len(Trees) /\ Len(Trees) \in Nat
    BY <1>0, <1>1, TreesAre
  <2>3. Behind' = 1..t
    <3>1. CASE t = Len(Trees) /\ export'.pc = "agents"
      BY <2>2, <3>1 DEF Behind
    <3>2. CASE export'.pc = "prune" /\ export'.tree = t + 1
      BY <2>2, <3>2 DEF Behind
    <3> QED
      BY <1>7, <3>1, <3>2
  <2> QED
    BY <2>1, <2>2, <2>3
<1>9. \A b \in Bundles : dirs[t][b] # NoFile /\ locks[t] # NoFile /\ b \in DOMAIN locks[t] => b \in Ships[r]
  <2>1. Retired(r, t) = {}
    BY <1>0, <1>1 DEF SkillsInv, NothingRetired
  <2> QED
    BY <2>1 DEF Retired
<1>10. SkillsTyped'
  BY <1>0, <1>5, <1>6, <1>7 DEF SkillsInv, SkillsTyped
<1>11. OwnKept'
  BY <1>0 DEF SkillsInv, OwnKept
<1>12. BehindDone'
  <2>1. "lock" \notin spent => touched.exported[t] \subseteq Ships[r]
    <3>1. \A b \in touched.exported[t] : b \in Bundles
      BY DEF SkillsInv, SkillsTyped
    <3>2. "lock" \notin spent =>
             \A b \in touched.exported[t] : dirs[t][b] # NoFile /\ locks[t] # NoFile /\ b \in DOMAIN locks[t]
      BY DEF SkillsInv, ExportedStands
    <3> QED
      BY <1>9, <3>1, <3>2
  <2>2. ASSUME NEW t2 \in Behind'
        PROVE  /\ \A b \in Ships[r] : dirs[t2][b] = r
               /\ "lock" \notin spent => touched'.exported[t2] \subseteq Ships[r]
    <3>1. CASE t2 = t
      BY <1>2, <1>6, <2>1, <3>1
    <3>2. CASE t2 # t
      <4>1. t2 \in Behind /\ t2 \in DOMAIN Trees /\ touched'.exported[t2] = touched.exported[t2]
        BY <1>6, <1>8, <2>2, <3>2
      <4> QED
        BY <1>1, <4>1 DEF SkillsInv, BehindDone
    <3> QED
      BY <3>1, <3>2
  <2> QED
    BY <1>0, <1>7, <2>2 DEF BehindDone
<1>13. ExportedStands'
  <2>1. ASSUME NEW t2 \in DOMAIN Trees, NEW b \in touched'.exported[t2]
        PROVE  dirs[t2][b] # NoFile /\ ("lock" \notin spent => locks'[t2] # NoFile /\ b \in DOMAIN locks'[t2])
    <3>1. CASE t2 # t
      <4>1. b \in touched.exported[t2] /\ locks'[t2] = locks[t2]
        BY <1>5, <1>6, <3>1
      <4> QED
        BY <4>1 DEF SkillsInv, ExportedStands
    <3>2. CASE t2 = t /\ b \in Ships[r]
      BY <1>2, <1>3, <1>5, <3>2
    <3>3. CASE t2 = t /\ b \notin Ships[r]
      <4>1. b \in touched.exported[t]
        BY <1>6, <2>1, <3>3
      <4>2. b \in Bundles /\ dirs[t][b] # NoFile
            /\ ("lock" \notin spent => locks[t] # NoFile /\ b \in DOMAIN locks[t])
        BY <4>1 DEF SkillsInv, SkillsTyped, ExportedStands
      <4> QED
        BY <1>9, <3>3, <4>2
    <3> QED
      BY <3>1, <3>2, <3>3
  <2> QED
    BY <1>0, <2>1 DEF ExportedStands
<1>14. NothingRetired'
  BY <1>7 DEF NothingRetired
<1>15. EditsKnown'
  BY <1>0, <1>6 DEF SkillsInv, EditsKnown
<1>16. LocksTell'
  <2>1. ASSUME spent \cap {"killed", "lock"} = {}, NEW t2 \in DOMAIN Trees, NEW b \in Bundles, dirs[t2][b] \in Releases
        PROVE  locks'[t2] # NoFile /\ b \in DOMAIN locks'[t2] /\ locks'[t2][b] = dirs[t2][b]
    <3>1. Recorded(t2, b) \/ (t2 = t /\ b \in Ships[r] /\ dirs[t2][b] = r)
      BY <1>1, <2>1 DEF SkillsInv, LocksTell
    <3>2. CASE t2 # t
      BY <1>5, <3>1, <3>2 DEF Recorded
    <3>3. CASE t2 = t
      <4>1. dirs[t][b] # NoFile
        BY <2>1, <3>3, SkillsAssumption
      <4>2. b \in Ships[r]
        BY <1>9, <3>1, <3>3, <4>1 DEF Recorded
      <4> QED
        BY <1>2, <1>3, <1>5, <3>3, <4>2
    <3> QED
      BY <3>2, <3>3
  <2> QED
    BY <1>0, <2>1 DEF LocksTell, Recorded
<1>17. SectionKept'
  BY <1>0, <1>7 DEF SkillsInv, SectionKept
<1> QED
  BY <1>10, <1>11, <1>12, <1>13, <1>14, <1>15, <1>16, <1>17 DEF SkillsInv

\* The steps that touch no tree: AGENTS.md is written, and the export ends.
LEMMA WriteAgentsKeeps == SkillsInv /\ WriteAgents => SkillsInv'
<1> SUFFICES ASSUME SkillsInv, WriteAgents PROVE SkillsInv'
  OBVIOUS
<1>0. export.pc = "agents" /\ export.release \in Releases
      /\ export \in [pc: {"guide", "prune", "write", "agents", "done"}, release: Releases, tree: DOMAIN Trees]
  BY ExportIs DEF SkillsInv, WriteAgents
<1>1. UNCHANGED <<dirs, locks, touched, spent>> /\ export'.pc = "done" /\ export'.release = export.release
      /\ export' \in [pc: {"guide", "prune", "write", "agents", "done"}, release: Releases, tree: DOMAIN Trees]
      /\ agents' = IF agents = NoFile THEN NoFile ELSE spliceAgentsSection(agents, buildAgentsSection(export.release))
  BY <1>0 DEF WriteAgents
<1>2. SkillsTyped'
  BY <1>1 DEF SkillsInv, SkillsTyped
<1>3. OwnKept'
  BY <1>1 DEF SkillsInv, OwnKept
<1>4. BehindDone'
  BY <1>0, <1>1 DEF SkillsInv, BehindDone, Behind
<1>5. ExportedStands'
  BY <1>1 DEF SkillsInv, ExportedStands
<1>6. NothingRetired'
  BY <1>1 DEF NothingRetired
<1>7. EditsKnown'
  BY <1>1 DEF SkillsInv, EditsKnown
<1>8. LocksTell'
  BY <1>0, <1>1 DEF SkillsInv, LocksTell, Recorded
<1>9. SectionKept'
  <2>1. ASSUME agents' # NoFile, "marker" \notin spent
        PROVE  agents' \in Seq(Pieces) /\ Whole(agents')
               /\ agents' = spliceAgentsSection(agents', buildAgentsSection(export.release))
    <3>1. agents # NoFile /\ agents' = spliceAgentsSection(agents, buildAgentsSection(export.release))
      BY <1>1, <2>1
    <3>2. agents \in Seq(Pieces) /\ Whole(agents)
      BY <2>1, <3>1 DEF SkillsInv, SectionKept
    <3> QED
      BY <1>0, <3>1, <3>2, SectionWritten
  <2>2. Whole(agents)' = Whole(agents')
    BY DEF Whole
  <2> QED
    BY <1>1, <2>1, <2>2 DEF SectionKept
<1> QED
  BY <1>2, <1>3, <1>4, <1>5, <1>6, <1>7, <1>8, <1>9 DEF SkillsInv

LEMMA ExportEndsKeeps == SkillsInv /\ ExportEnds => SkillsInv'
<1> SUFFICES ASSUME SkillsInv, ExportEnds PROVE SkillsInv'
  OBVIOUS
<1>1. export.pc = "done" /\ UNCHANGED <<dirs, locks, agents, touched, spent>> /\ export' = NoExport /\ export'.pc = "idle"
  BY DEF ExportEnds, NoExport
<1>2. SkillsTyped'
  BY <1>1 DEF SkillsInv, SkillsTyped
<1>3. OwnKept'
  BY <1>1 DEF SkillsInv, OwnKept
<1>4. BehindDone'
  BY <1>1 DEF BehindDone, Behind
<1>5. ExportedStands'
  BY <1>1 DEF SkillsInv, ExportedStands
<1>6. NothingRetired'
  BY <1>1 DEF NothingRetired
<1>7. EditsKnown'
  BY <1>1 DEF SkillsInv, EditsKnown
<1>8. LocksTell'
  BY <1>1 DEF SkillsInv, LocksTell, Recorded
<1>9. SectionKept'
  BY <1>1 DEF SkillsInv, SectionKept
<1> QED
  BY <1>2, <1>3, <1>4, <1>5, <1>6, <1>7, <1>8, <1>9 DEF SkillsInv

LEMMA KillExportKeeps == SkillsInv /\ KillExport => SkillsInv'
<1> SUFFICES ASSUME SkillsInv, KillExport PROVE SkillsInv'
  OBVIOUS
<1>1. UNCHANGED <<locks, agents, touched>> /\ export' = NoExport /\ export'.pc = "idle"
      /\ spent' = spent \cup {"killed"} /\ "killed" \in spent'
  BY DEF KillExport, NoExport
<1>2. /\ dirs' \in [DOMAIN Trees -> [Bundles \cup Own -> Content]]
      /\ \A t \in DOMAIN Trees : \A b \in Bundles \cup Own :
            dirs'[t][b] = dirs[t][b] \/ (b \in Bundles /\ dirs'[t][b] = "torn")
  <2>1. dirs \in [DOMAIN Trees -> [Bundles \cup Own -> Content]]
    BY DEF SkillsInv, SkillsTyped, Content
  <2>2. CASE UNCHANGED dirs
    BY <2>1, <2>2
  <2>3. CASE export.pc = "write" /\ \E b \in Ships[export.release] : dirs' = [dirs EXCEPT ![export.tree][b] = "torn"]
    <3>1. PICK t \in DOMAIN Trees, r \in Releases : t = export.tree /\ r = export.release
      BY <2>3, ExportIs DEF SkillsInv
    <3>2. PICK b \in Ships[r] : dirs' = [dirs EXCEPT ![t][b] = "torn"]
      BY <2>3, <3>1
    <3>3. b \in Bundles /\ b \in Bundles \cup Own /\ "torn" \in Content
      BY DEF Bundles, Content
    <3>4. dirs' \in [DOMAIN Trees -> [Bundles \cup Own -> Content]]
          /\ \A t2 \in DOMAIN Trees : \A b2 \in Bundles \cup Own :
                dirs'[t2][b2] = IF t2 = t /\ b2 = b THEN "torn" ELSE dirs[t2][b2]
      BY <2>1, <3>2, <3>3, DirWritten
    <3> QED
      BY <3>3, <3>4
  <2> QED
    BY <2>2, <2>3 DEF KillExport
<1>3. SkillsTyped'
  BY <1>1, <1>2 DEF SkillsInv, SkillsTyped, Content
<1>4. OwnKept'
  BY <1>2, SkillsAssumption DEF SkillsInv, OwnKept
<1>5. BehindDone'
  BY <1>1 DEF BehindDone, Behind
<1>6. ExportedStands'
  <2>1. ASSUME NEW t \in DOMAIN Trees, NEW b \in touched.exported[t] PROVE dirs'[t][b] # NoFile
    <3>1. dirs[t][b] # NoFile /\ b \in Bundles
      BY DEF SkillsInv, ExportedStands, SkillsTyped
    <3> QED
      BY <1>2, <3>1, SkillsAssumption
  <2> QED
    BY <1>1, <2>1 DEF SkillsInv, ExportedStands
<1>7. NothingRetired'
  BY <1>1 DEF NothingRetired
<1>8. EditsKnown'
  BY <1>1 DEF EditsKnown
<1>9. LocksTell'
  BY <1>1 DEF LocksTell
<1>10. SectionKept'
  BY <1>1 DEF SkillsInv, SectionKept
<1> QED
  BY <1>3, <1>4, <1>5, <1>6, <1>7, <1>8, <1>9, <1>10 DEF SkillsInv

LEMMA EditSkillKeeps == SkillsInv /\ EditSkill => SkillsInv'
<1> SUFFICES ASSUME SkillsInv, EditSkill PROVE SkillsInv'
  OBVIOUS
<1>1. export.pc = "idle" /\ UNCHANGED <<locks, agents, export, spent>>
  BY DEF EditSkill
<1>2. PICK t \in DOMAIN Trees : \E b \in Bundles : /\ dirs' = [dirs EXCEPT ![t][b] = "edited"]
                                                   /\ touched' = [touched EXCEPT !.by[t] = @ \cup {b}]
  BY DEF EditSkill
<1>3. PICK b \in Bundles : /\ dirs' = [dirs EXCEPT ![t][b] = "edited"]
                           /\ touched' = [touched EXCEPT !.by[t] = @ \cup {b}]
  BY <1>2
<1>4. /\ dirs' \in [DOMAIN Trees -> [Bundles \cup Own -> Content]]
      /\ \A t2 \in DOMAIN Trees : \A b2 \in Bundles \cup Own :
            dirs'[t2][b2] = IF t2 = t /\ b2 = b THEN "edited" ELSE dirs[t2][b2]
  <2>1. dirs \in [DOMAIN Trees -> [Bundles \cup Own -> Content]] /\ b \in Bundles \cup Own /\ "edited" \in Content
    BY DEF SkillsInv, SkillsTyped, Content
  <2> QED
    BY <1>3, <2>1, DirWritten
<1>5. touched' \in [by: [DOMAIN Trees -> SUBSET (Bundles \cup Own)], exported: [DOMAIN Trees -> SUBSET Bundles]]
      /\ (\A t2 \in DOMAIN Trees : touched'.by[t2] = IF t2 = t THEN touched.by[t] \cup {b} ELSE touched.by[t2])
      /\ touched'.exported = touched.exported
  <2>1. SkillsTyped /\ touched.by[t] \cup {b} \in SUBSET (Bundles \cup Own)
    BY DEF SkillsInv, SkillsTyped
  <2>2. touched' = [touched EXCEPT !.by[t] = touched.by[t] \cup {b}]
    BY <1>3, <2>1 DEF SkillsTyped
  <2> QED
    BY <2>1, <2>2, ByWritten
<1>6. "edited" \notin Releases /\ "edited" # NoFile /\ "edited" # "torn" /\ b \notin Own
  BY SkillsAssumption
<1>7. SkillsTyped'
  BY <1>1, <1>4, <1>5 DEF SkillsInv, SkillsTyped, Content
<1>8. OwnKept'
  BY <1>4 DEF SkillsInv, OwnKept
<1>9. BehindDone'
  BY <1>1 DEF BehindDone, Behind
<1>10. ExportedStands'
  <2>1. ASSUME NEW t2 \in DOMAIN Trees, NEW b2 \in touched.exported[t2] PROVE dirs'[t2][b2] # NoFile
    <3>1. dirs[t2][b2] # NoFile /\ b2 \in Bundles
      BY DEF SkillsInv, ExportedStands, SkillsTyped
    <3> QED
      BY <1>4, <1>6, <3>1
  <2> QED
    BY <1>1, <1>5, <2>1 DEF SkillsInv, ExportedStands
<1>11. NothingRetired'
  BY <1>1 DEF NothingRetired
<1>12. EditsKnown'
  <2>1. ASSUME "killed" \notin spent, NEW t2 \in DOMAIN Trees, NEW b2 \in Bundles
        PROVE  dirs'[t2][b2] # "torn" /\ (b2 \in touched'.by[t2] <=> dirs'[t2][b2] = "edited")
    <3>1. dirs[t2][b2] # "torn" /\ (b2 \in touched.by[t2] <=> dirs[t2][b2] = "edited")
      BY <2>1 DEF SkillsInv, EditsKnown
    <3>2. CASE t2 = t /\ b2 = b
      BY <1>4, <1>5, <3>2
    <3>3. CASE ~(t2 = t /\ b2 = b)
      <4>1. dirs'[t2][b2] = dirs[t2][b2]
        BY <1>4, <3>3
      <4>2. b2 \in touched'.by[t2] <=> b2 \in touched.by[t2]
        BY <1>5, <3>3
      <4> QED
        BY <3>1, <4>1, <4>2
    <3> QED
      BY <3>2, <3>3
  <2> QED
    BY <1>1, <2>1 DEF EditsKnown
<1>13. LocksTell'
  <2>1. ASSUME spent \cap {"killed", "lock"} = {}, NEW t2 \in DOMAIN Trees, NEW b2 \in Bundles, dirs'[t2][b2] \in Releases
        PROVE  Recorded(t2, b2)'
    <3>1. dirs'[t2][b2] = dirs[t2][b2]
      BY <1>4, <1>6, <2>1
    <3>2. Recorded(t2, b2)
      BY <1>1, <2>1, <3>1 DEF SkillsInv, LocksTell
    <3> QED
      BY <1>1, <3>1, <3>2 DEF Recorded
  <2> QED
    BY <1>1, <2>1 DEF LocksTell
<1>14. SectionKept'
  BY <1>1 DEF SkillsInv, SectionKept
<1> QED
  BY <1>7, <1>8, <1>9, <1>10, <1>11, <1>12, <1>13, <1>14 DEF SkillsInv

LEMMA RemoveLockKeeps == SkillsInv /\ RemoveLock => SkillsInv'
<1> SUFFICES ASSUME SkillsInv, RemoveLock PROVE SkillsInv'
  OBVIOUS
<1>1. export.pc = "idle" /\ UNCHANGED <<dirs, agents, export, touched>>
      /\ spent' = spent \cup {"lock"} /\ "lock" \in spent'
  BY DEF RemoveLock
<1>2. locks' \in [DOMAIN Trees -> {LockOf(r) : r \in Releases} \cup {NoFile}]
  <2>1. PICK t \in DOMAIN Trees : locks' = [locks EXCEPT ![t] = NoFile]
    BY DEF RemoveLock
  <2> QED
    BY <2>1 DEF SkillsInv, SkillsTyped
<1>3. SkillsTyped'
  BY <1>1, <1>2 DEF SkillsInv, SkillsTyped
<1>4. OwnKept'
  BY <1>1 DEF SkillsInv, OwnKept
<1>5. BehindDone'
  BY <1>1 DEF BehindDone, Behind
<1>6. ExportedStands'
  BY <1>1 DEF SkillsInv, ExportedStands
<1>7. NothingRetired'
  BY <1>1 DEF NothingRetired
<1>8. EditsKnown'
  BY <1>1 DEF SkillsInv, EditsKnown
<1>9. LocksTell'
  BY <1>1 DEF LocksTell
<1>10. SectionKept'
  BY <1>1 DEF SkillsInv, SectionKept
<1> QED
  BY <1>3, <1>4, <1>5, <1>6, <1>7, <1>8, <1>9, <1>10 DEF SkillsInv

LEMMA EditAgentsKeeps == SkillsInv /\ EditAgents => SkillsInv'
<1> SUFFICES ASSUME SkillsInv, EditAgents PROVE SkillsInv'
  OBVIOUS
<1>1. export.pc = "idle" /\ UNCHANGED <<dirs, locks, export, touched>> /\ agents # NoFile
      /\ (spent' = spent \/ spent' = spent \cup {"marker"})
  BY DEF EditAgents
<1>2. SkillsTyped'
  BY <1>1 DEF SkillsInv, SkillsTyped
<1>3. OwnKept'
  BY <1>1 DEF SkillsInv, OwnKept
<1>4. BehindDone'
  BY <1>1 DEF BehindDone, Behind
<1>5. ExportedStands'
  BY <1>1 DEF SkillsInv, ExportedStands
<1>6. NothingRetired'
  BY <1>1 DEF NothingRetired
<1>7. EditsKnown'
  BY <1>1 DEF SkillsInv, EditsKnown
<1>8. LocksTell'
  <2>1. spent' \cap {"killed", "lock"} = spent \cap {"killed", "lock"}
    BY <1>1
  <2> QED
    BY <1>1, <2>1 DEF SkillsInv, LocksTell, Recorded
<1>9. SectionKept'
  <2>1. ASSUME "marker" \notin spent' PROVE agents' \in Seq(Pieces) /\ Whole(agents')
    <3>1. agents' = Append(agents, "below") /\ "marker" \notin spent
      BY <2>1 DEF EditAgents
    <3>2. agents \in Seq(Pieces) /\ Whole(agents)
      BY <1>1, <3>1 DEF SkillsInv, SectionKept
    <3> QED
      BY <3>1, <3>2, AppendedWhole
  <2>2. Whole(agents)' = Whole(agents')
    BY DEF Whole
  <2> QED
    BY <1>1, <2>1, <2>2 DEF SectionKept
<1> QED
  BY <1>2, <1>3, <1>4, <1>5, <1>6, <1>7, <1>8, <1>9 DEF SkillsInv

LEMMA SkillsKeeps == SkillsInv /\ [SkillsNext]_skillVars => SkillsInv'
<1>1. ASSUME SkillsInv, UNCHANGED skillVars PROVE SkillsInv'
  <2>1. UNCHANGED <<dirs, locks, guide, agents, export, touched, spent>>
    BY <1>1 DEF skillVars
  <2>2. SkillsTyped' /\ OwnKept'
    BY <1>1, <2>1 DEF SkillsInv, SkillsTyped, OwnKept
  <2>3. BehindDone' /\ ExportedStands'
    BY <1>1, <2>1 DEF SkillsInv, BehindDone, Behind, ExportedStands
  <2>4. NothingRetired' /\ EditsKnown'
    BY <1>1, <2>1 DEF SkillsInv, NothingRetired, Retired, EditsKnown
  <2>5. LocksTell'
    BY <1>1, <2>1 DEF SkillsInv, LocksTell, Recorded
  <2>6. SectionKept'
    BY <1>1, <2>1 DEF SkillsInv, SectionKept
  <2> QED
    BY <2>2, <2>3, <2>4, <2>5, <2>6 DEF SkillsInv
<1> QED
  BY <1>1, BeginExportKeeps, removeRetiredGuidesKeeps, pruneRetiredSkillsKeeps, WriteSkillKeeps, WriteLockKeeps,
     WriteAgentsKeeps, ExportEndsKeeps, KillExportKeeps, EditSkillKeeps, RemoveLockKeeps, EditAgentsKeeps
  DEF SkillsNext, SkillsEdit, SkillsStep

LEMMA SkillsInvSound == SkillsInv => SkillsSound
<1> SUFFICES ASSUME SkillsInv PROVE SkillsSound
  OBVIOUS
<1>1. ASSUME export.pc = "done", NEW t \in DOMAIN Trees
      PROVE  LET found == checkSkillTree(export.release, t)
             IN /\ found.missing \cup found.unverified \cup found.stale \cup found.handEdited = {}
                /\ "lock" \notin spent => found.retired \cap touched.exported[t] = {}
  <2>1. PICK r \in Releases : r = export.release
    BY <1>1, ExportIs DEF SkillsInv
  <2>2. (\A b \in Ships[r] : dirs[t][b] = r) /\ ("lock" \notin spent => touched.exported[t] \subseteq Ships[r])
    BY <1>1, <2>1 DEF SkillsInv, BehindDone, Behind
  <2>3. r # NoFile
    BY SkillsAssumption
  <2> DEFINE found == checkSkillTree(r, t)
             present == {b \in Ships[r] : dirs[t][b] # NoFile}
             differ == {b \in present : dirs[t][b] # r}
  <2>4. present = Ships[r] /\ differ = {}
    BY <2>2, <2>3
  <2> HIDE DEF present, differ
  <2>5. found.missing = {} /\ found.unverified = {} /\ found.stale = {} /\ found.handEdited = {}
        /\ found.retired = {b \in Bundles \ Ships[r] : dirs[t][b] # NoFile}
    <3>1. found = [missing |-> Ships[r] \ present,
                   unverified |-> IF locks[t] = NoFile THEN differ ELSE {},
                   stale |-> IF locks[t] = NoFile THEN {}
                             ELSE {b \in differ : b \in DOMAIN locks[t] /\ locks[t][b] = dirs[t][b]},
                   handEdited |-> IF locks[t] = NoFile THEN {}
                                  ELSE {b \in differ : b \notin DOMAIN locks[t] \/ locks[t][b] # dirs[t][b]},
                   retired |-> {b \in Bundles \ Ships[r] : dirs[t][b] # NoFile}]
      BY DEF checkSkillTree, present, differ
    <3> HIDE DEF found
    <3> QED
      BY <2>4, <3>1
  <2> HIDE DEF found
  <2> QED
    BY <2>1, <2>2, <2>5 DEF found
<1>2. ASSUME export.pc = "idle", spent \cap {"killed", "lock"} = {},
             NEW r \in Releases, NEW t \in DOMAIN Trees, locks[t] # NoFile
      PROVE  checkSkillTree(r, t).handEdited = {b \in Ships[r] : dirs[t][b] # NoFile} \cap touched.by[t]
  <2>1. checkSkillTree(r, t).handEdited =
           {b \in {b \in {b \in Ships[r] : dirs[t][b] # NoFile} : dirs[t][b] # r} :
               b \notin DOMAIN locks[t] \/ locks[t][b] # dirs[t][b]}
    BY <1>2 DEF checkSkillTree
  <2>2. ASSUME NEW b \in Ships[r], dirs[t][b] # NoFile
        PROVE  dirs[t][b] # r /\ (b \notin DOMAIN locks[t] \/ locks[t][b] # dirs[t][b]) <=> b \in touched.by[t]
    <3>1. b \in Bundles
      BY DEF Bundles
    <3>2. "killed" \notin spent
      BY <1>2
    <3>3. dirs[t][b] # "torn" /\ (b \in touched.by[t] <=> dirs[t][b] = "edited")
      BY <3>1, <3>2 DEF SkillsInv, EditsKnown
    <3>4. dirs[t][b] \in Releases => b \in DOMAIN locks[t] /\ locks[t][b] = dirs[t][b]
      BY <1>2, <3>1 DEF SkillsInv, LocksTell, Recorded
    <3>5. dirs[t][b] \in Releases \cup {"edited", "torn", NoFile}
      BY <3>1 DEF SkillsInv, SkillsTyped
    <3>6. locks[t] \in {LockOf(q) : q \in Releases} \cup {NoFile}
      BY DEF SkillsInv, SkillsTyped
    <3>7. \A x \in DOMAIN locks[t] : locks[t][x] \in Releases
      BY <1>2, <3>6, LocksAre
    <3>8. r # "edited" /\ "edited" \notin Releases
      BY SkillsAssumption
    <3> QED
      BY <2>2, <3>3, <3>4, <3>5, <3>7, <3>8
  <2> QED
    BY <2>1, <2>2
<1>3. ExportHeals
  BY <1>1 DEF ExportHeals
<1>4. EditsNamed
  BY <1>2 DEF EditsNamed
<1>5. \A t \in DOMAIN Trees, b \in Own : dirs[t][b] = "edited"
  BY DEF SkillsInv, OwnKept
<1>6. export.pc = "done" /\ agents # NoFile /\ "marker" \notin spent =>
         agents = spliceAgentsSection(agents, buildAgentsSection(export.release))
  BY DEF SkillsInv, SectionKept
<1> QED
  BY <1>3, <1>4, <1>5, <1>6 DEF SkillsSound

\* An export heals every tree of the project, its lock afterwards tells a person's edit
\* from a release's file, the project's own directories stay, and a second export of
\* the release writes the same AGENTS.md.
THEOREM ExportsAreSound == SkillsSpec => []SkillsSound
<1>1. SkillsSpec => []SkillsInv
  BY InitSkillsInv, SkillsKeeps, PTL DEF SkillsSpec
<1> QED
  BY <1>1, SkillsInvSound, PTL

-----------------------------------------------------------------------------
(* Manifests, for any modules and claims. *)

ManifestSpec == ManifestInit /\ [][ManifestEdit]_manifestVars

LEMMA InitManifestsKept == ManifestInit => ManifestsKept
BY DEF ManifestInit, ManifestsKept, Numbers

LEMMA ManifestsKeep == ManifestsKept /\ [ManifestEdit]_manifestVars => ManifestsKept'
<1> SUFFICES ASSUME ManifestsKept, [ManifestEdit]_manifestVars PROVE ManifestsKept'
  OBVIOUS
<1>1. ASSUME NEW m \in ToSet(Modules), SaveManifest(m) PROVE ManifestsKept'
  <2>1. DOMAIN files' \subseteq DOMAIN files \cup {m} /\ cards' = cards
    BY <1>1 DEF SaveManifest
  <2> QED
    BY <2>1 DEF ManifestsKept, Numbers
<1>2. ASSUME NEW c \in Numbers, EditCard(c) PROVE ManifestsKept'
  <2>1. DOMAIN cards' \subseteq DOMAIN cards /\ files' = files
    BY <1>2 DEF EditCard
  <2> QED
    BY <2>1 DEF ManifestsKept, Numbers
<1>3. EditShared => ManifestsKept'
  BY DEF EditShared, ManifestsKept, Numbers
<1>4. UNCHANGED manifestVars => ManifestsKept'
  BY DEF manifestVars, ManifestsKept, Numbers
<1> QED
  BY <1>1, <1>2, <1>3, <1>4 DEF ManifestEdit

\* A module with nothing found has a manifest that is one, no field of which is found
\* fault with, and which fits.
LEMMA NothingFound ==
  ASSUME NEW m \in ToSet(Modules), Findings(m) = {}
  PROVE  m \in Parsed /\ fieldFindings(m) = {} /\ Unexported(m) = {} /\ moduleBudgetFindings(m) = {}
<1> DEFINE of(k) == IF k \notin DOMAIN files THEN {Finding(k, "missing", 0)}
                    ELSE IF k \notin Parsed THEN {Finding(k, "not a manifest", 0)}
                    ELSE fieldFindings(k) \cup Unexported(k)
<1>1. \A f \in checkTree : f.module # m
  BY DEF Findings
<1>2. of(m) \subseteq checkTree /\ moduleBudgetFindings(m) \subseteq checkTree
  <2>0. checkTree = (UNION {of(k) : k \in ToSet(Modules)})
                    \cup (UNION {moduleBudgetFindings(k) : k \in ToSet(Modules)})
                    \cup When(stray, Finding(NoModule, "not a module manifest", 0))
    BY Zenon DEF checkTree
  <2> HIDE DEF of
  <2> DEFINE read == {of(k) : k \in ToSet(Modules)}
             sized == {moduleBudgetFindings(k) : k \in ToSet(Modules)}
             lost == When(stray, Finding(NoModule, "not a module manifest", 0))
  <2>1. checkTree = (UNION read) \cup (UNION sized) \cup lost
    BY <2>0
  <2> HIDE DEF lost
  <2>2. of(m) \in read /\ moduleBudgetFindings(m) \in sized
    BY Zenon
  <2> HIDE DEF read, sized
  <2>3. (UNION read) \subseteq checkTree /\ (UNION sized) \subseteq checkTree
    BY <2>1
  <2> QED
    BY <2>2, <2>3
<1>3. \A f \in of(m) \cup moduleBudgetFindings(m) : f.module # m
  BY <1>1, <1>2
<1>4. \A what, c : Finding(m, what, c).module = m
  BY DEF Finding
<1>5. m \in DOMAIN files /\ m \in Parsed
  <2>1. m \notin DOMAIN files => Finding(m, "missing", 0) \in of(m)
    OBVIOUS
  <2>2. m \in DOMAIN files /\ m \notin Parsed => Finding(m, "not a manifest", 0) \in of(m)
    OBVIOUS
  <2> HIDE DEF of
  <2> QED
    BY <1>3, <1>4, <2>1, <2>2
<1>6. of(m) = fieldFindings(m) \cup Unexported(m)
  BY <1>5
<1> HIDE DEF of
<1>7. \A condition : \A f : f \in When(condition, f) \/ When(condition, f) = {}
  BY DEF When
<1>8. \A f \in moduleBudgetFindings(m) : f.module = m
  BY <1>4 DEF moduleBudgetFindings, When
<1>9. \A f \in Unexported(m) : f.module = m
  BY <1>4 DEF Unexported
<1>10. \A s, provides : \A f \in checkIDs(m, s, provides) : f.module = m
  BY <1>4 DEF checkIDs
<1>11. \A f \in fieldFindings(m) : f.module = m
  BY <1>4, <1>10 DEF fieldFindings, When
<1> QED
  BY <1>3, <1>5, <1>6, <1>8, <1>9, <1>11

\* Another module's file that is not to be read is found.
LEMMA UnreadFound ==
  ASSUME NEW m \in ToSet(Modules), m \notin Parsed
  PROVE  Findings(m) # {}
BY NothingFound

LEMMA ManifestsPin == ManifestsKept => PinsProvided
<1> SUFFICES ASSUME ManifestsKept, NEW m \in ToSet(Modules), Findings(m) = {},
                    NEW c \in ToSet(decodeManifest(m).depends)
             PROVE  /\ c \in Edges(m) /\ IsContract(c)
                    /\ \/ Findings(Home[c].module) # {} /\ Home[c].module \notin Parsed
                       \/ \E n \in Neighbors(m) : n.module = Home[c].module /\ c \in n.provides
  BY DEF PinsProvided
<1> DEFINE s == decodeManifest(m).depends
<1>1. PICK i \in DOMAIN s : s[i] = c
  BY DEF ToSet
<1>2. checkIDs(m, s, FALSE) = {}
  BY NothingFound DEF fieldFindings
<1> HIDE DEF s
<1>3. c # 0 /\ IsContract(c) /\ Home[c].module # m
  <2>1. {i2 \in DOMAIN s : s[i2] = 0} = {}
    BY <1>2 DEF checkIDs
  <2>2. {i2 \in DOMAIN s : s[i2] # 0 /\ Repeats(s, i2)} = {}
    BY <1>2 DEF checkIDs
  <2>3. {i2 \in DOMAIN s : s[i2] # 0 /\ ~Repeats(s, i2) /\ ~IsContract(s[i2])} = {}
    BY <1>2 DEF checkIDs
  <2>4. {i2 \in DOMAIN s : s[i2] # 0 /\ ~Repeats(s, i2) /\ IsContract(s[i2])
                                /\ (Home[s[i2]].module = m) # FALSE} = {}
    <3> DEFINE own == {i2 \in DOMAIN s : s[i2] # 0 /\ ~Repeats(s, i2) /\ IsContract(s[i2])
                                         /\ (Home[s[i2]].module = m) # FALSE}
    <3>1. {Finding(m, IF FALSE THEN "not its own" ELSE "its own", s[i2]) : i2 \in own} \subseteq checkIDs(m, s, FALSE)
      BY Zenon DEF checkIDs
    <3> HIDE DEF own
    <3>2. own = {}
      BY <1>2, <3>1
    <3> QED
      BY <3>2 DEF own
  <2>5. s[i] # 0 /\ ~Repeats(s, i)
    BY <2>1, <2>2
  <2>6. IsContract(s[i])
    BY <2>3, <2>5
  <2>7. ~((Home[s[i]].module = m) # FALSE)
    BY <2>4, <2>5, <2>6, Zenon
  <2>8. Home[s[i]].module # m
    BY <2>7, Zenon
  <2> QED
    BY <1>1, <2>5, <2>6, <2>8
<1>4. c \in DOMAIN cards /\ Home[c].module # NoModule /\ c \in DOMAIN Home
  BY <1>3 DEF IsContract, ManifestsKept, Numbers
<1>5. c \in Edges(m)
  BY <1>3, <1>4 DEF Edges
<1>6. Home[c].module \in ToSet(Modules)
  BY <1>4, HomeAssumption
<1>7. CASE Home[c].module \notin Parsed
  BY <1>3, <1>5, <1>6, <1>7, UnreadFound
<1>8. CASE Home[c].module \in Parsed
  <2>1. c \in ToSet(decodeManifest(Home[c].module).provides)
    <3>1. Unexported(m) = {}
      BY NothingFound
    <3> QED
      BY <1>3, <1>8, <3>1 DEF Unexported
  <2>2. c \in providedClaims(Home[c].module)
    BY <1>3, <2>1 DEF providedClaims
  <2>3. [module |-> Home[c].module, provides |-> providedClaims(Home[c].module)] \in Neighbors(m)
    BY <1>5 DEF Neighbors
  <2> QED
    BY <1>3, <1>5, <2>2, <2>3
<1> QED
  BY <1>7, <1>8

\* What a module with nothing found depends on is another module's contract claim that
\* module provides (manifest.go: a module may only depend on what is exported).
THEOREM PinsAreProvided == ManifestSpec => []PinsProvided
<1>1. ManifestSpec => []ManifestsKept
  BY InitManifestsKept, ManifestsKeep, PTL DEF ManifestSpec
<1> QED
  BY <1>1, ManifestsPin, PTL

-----------------------------------------------------------------------------
(* Conformance, for any checks and observations. *)

LEMMA InitDeclaredTyped == Init => DeclaredTyped
<1> SUFFICES ASSUME Init PROVE DeclaredTyped
  OBVIOUS
<1>1. embodiment = [c \in {1, 2} |-> [mode |-> "none", checks |-> <<>>]]
  BY DEF Init
<1> DEFINE T == [key: Keys, shape: Shapes, value: Words]
<1> HIDE DEF T
<1>2. [mode |-> "none", checks |-> <<>>] \in [mode: {"none", "compare"}, checks: Seq(T)]
  OBVIOUS
<1> QED
  BY <1>1, <1>2 DEF DeclaredTyped, T

\* A declaration adds a check, which is what makes the claim one that is compared.
LEMMA DeclareKeeps ==
  ASSUME DeclaredTyped, NEW c \in DOMAIN embodiment, Declare(c)
  PROVE  DeclaredTyped'
<1> DEFINE T == [key: Keys, shape: Shapes, value: Words]
           D == [mode: {"none", "compare"}, checks: Seq(T)]
<1>1. embodiment \in [{1, 2} -> D] /\ c \in {1, 2}
  BY DEF DeclaredTyped
<1>2. PICK k \in Keys, shape \in Shapes, v \in {v \in Words : IsInjective(v)} :
         embodiment' = [embodiment EXCEPT ![c] =
            [mode |-> "compare", checks |-> Append(@.checks, [key |-> k, shape |-> shape, value |-> v])]]
  BY DEF Declare
<1>3. [key |-> k, shape |-> shape, value |-> v] \in T
  OBVIOUS
<1> DEFINE s == Append(embodiment[c].checks, [key |-> k, shape |-> shape, value |-> v])
<1>4. s \in Seq(T) /\ s # <<>>
  <2> HIDE DEF T
  <2>1. embodiment[c].checks \in Seq(T)
    BY <1>1
  <2>2. \A q \in Seq(T) : \A x \in T : Append(q, x) \in Seq(T) /\ Append(q, x) # <<>>
    OBVIOUS
  <2> QED
    BY <1>3, <2>1, <2>2
<1>5. embodiment' = [embodiment EXCEPT ![c] = [mode |-> "compare", checks |-> s]]
  BY <1>1, <1>2
<1> HIDE DEF T, s
<1>6. embodiment' \in [{1, 2} -> D] /\ \A d \in {1, 2} :
         embodiment'[d] = IF d = c THEN [mode |-> "compare", checks |-> s] ELSE embodiment[d]
  BY <1>1, <1>4, <1>5
<1>7. \A d \in {1, 2} : embodiment'[d].mode = "compare" => embodiment'[d].checks # <<>>
  BY <1>4, <1>6 DEF DeclaredTyped
<1> QED
  BY <1>6, <1>7 DEF DeclaredTyped, T

\* A match is of one observation, which is well formed and says what was declared.
LEMMA MatchedIsObserved ==
  ASSUME NeedsInput, NEW k, k.shape \in Shapes, evaluateCheck(k) = "matched"
  PROVE  /\ ~inputErr
         /\ LET of == {i \in DOMAIN input.observations : input.observations[i].key = k.key}
            IN /\ Cardinality(of) = 1
               /\ \A i \in of : LET o == input.observations[i]
                               IN ~o.error /\ o.shape = k.shape /\ ToSet(o.value) = ToSet(k.value)
<1>1. /\ ~inputErr /\ index(k.key) # {}
      /\ \A o \in index(k.key) : ~o.error /\ o.shape = k.shape
      /\ \/ k.shape = "set" /\ \A o \in index(k.key) : Missing(k.value, o.value) = {} /\ Missing(o.value, k.value) = {}
         \/ k.shape = "scalar" /\ \A o \in index(k.key) : k.value = o.value
  <2>1. evaluateCheck(k) = "matched"
    OBVIOUS
  <2>2. ~inputErr
    BY <2>1 DEF evaluateCheck
  <2>3. index(k.key) # {}
    BY <2>1, <2>2 DEF evaluateCheck
  <2>4. ~(\E o \in index(k.key) : o.error \/ o.shape # k.shape)
    BY <2>1, <2>2, <2>3 DEF evaluateCheck
  <2>5. \/ k.shape = "set" /\ (\A o \in index(k.key) : Missing(k.value, o.value) = {} /\ Missing(o.value, k.value) = {})
        \/ k.shape = "scalar" /\ (\A o \in index(k.key) : k.value = o.value)
    BY <2>1, <2>2, <2>3, <2>4 DEF evaluateCheck
  <2> QED
    BY <2>2, <2>3, <2>4, <2>5
<1> DEFINE s == input.observations
           of == {i \in DOMAIN s : s[i].key = k.key}
<1>2. input.state = "read" /\ DecodeEnvelope(s)
  BY <1>1 DEF inputErr
<1> HIDE DEF s
<1>3. \A i \in of : s[i] \in index(k.key)
  BY <1>1 DEF index, ToSet, s
<1>4. PICK i \in DOMAIN s : s[i].key = k.key
  BY <1>1 DEF index, ToSet, s
<1>5. of = {i}
  BY <1>2, <1>4 DEF DecodeEnvelope
<1>6. Cardinality(of) = 1
  BY <1>5, FS_Singleton
<1>7. ASSUME NEW j \in of PROVE ~s[j].error /\ s[j].shape = k.shape /\ ToSet(s[j].value) = ToSet(k.value)
  <2>1. s[j] \in index(k.key)
    BY <1>3
  <2>2. ~s[j].error /\ s[j].shape = k.shape
    BY <1>1, <2>1
  <2>3. CASE k.shape = "set"
    <3>1. Missing(k.value, s[j].value) = {} /\ Missing(s[j].value, k.value) = {}
      BY <1>1, <2>1, <2>3
    <3> QED
      BY <2>2, <3>1 DEF Missing
  <2>4. CASE k.shape # "set"
    <3>1. k.value = s[j].value
      BY <1>1, <2>1, <2>4
    <3> QED
      BY <2>2, <3>1
  <2> QED
    BY <2>3, <2>4
<1> QED
  BY <1>1, <1>6, <1>7 DEF s

LEMMA DeclaredReady == DeclaredTyped => ReadyMeansObserved
<1> SUFFICES ASSUME DeclaredTyped, NEW c \in DOMAIN embodiment,
                    embodiment[c].mode = "compare", ImplementationReady(c)
             PROVE  /\ input.state = "read"
                    /\ \A i \in DOMAIN input.observations : validObservation(input.observations[i])
                    /\ \A k \in ToSet(embodiment[c].checks) :
                          LET of == {i \in DOMAIN input.observations : input.observations[i].key = k.key}
                          IN /\ Cardinality(of) = 1
                             /\ \A i \in of : LET o == input.observations[i]
                                             IN ~o.error /\ o.shape = k.shape /\ ToSet(o.value) = ToSet(k.value)
  BY DEF ReadyMeansObserved
<1> DEFINE T == [key: Keys, shape: Shapes, value: Words]
<1>1. NeedsInput
  BY DEF NeedsInput
<1>2. embodiment[c].checks \in Seq(T) /\ embodiment[c].checks # <<>>
  BY DEF DeclaredTyped
<1>3. \A k \in ToSet(embodiment[c].checks) : evaluateCheck(k) = "matched"
  BY DEF ImplementationReady
<1>4. \A k \in T : k.shape \in Shapes
  OBVIOUS
<1> HIDE DEF T
<1>5. /\ ToSet(embodiment[c].checks) # {}
      /\ \A k \in ToSet(embodiment[c].checks) : k \in T
  <2>1. \A q \in Seq(T) : q # <<>> => 1 \in DOMAIN q
    OBVIOUS
  <2>2. \A q \in Seq(T) : \A i \in DOMAIN q : q[i] \in T
    OBVIOUS
  <2> QED
    BY <1>2, <2>1, <2>2 DEF ToSet
<1>6. ~inputErr
  BY <1>1, <1>3, <1>4, <1>5, MatchedIsObserved
<1>7. input.state = "read" /\ \A i \in DOMAIN input.observations : validObservation(input.observations[i])
  BY <1>1, <1>6 DEF inputErr, DecodeEnvelope
<1>8. ASSUME NEW k \in ToSet(embodiment[c].checks)
      PROVE  LET of == {i \in DOMAIN input.observations : input.observations[i].key = k.key}
             IN /\ Cardinality(of) = 1
                /\ \A i \in of : LET o == input.observations[i]
                                IN ~o.error /\ o.shape = k.shape /\ ToSet(o.value) = ToSet(k.value)
  <2>1. k.shape \in Shapes /\ evaluateCheck(k) = "matched"
    BY <1>3, <1>4, <1>5
  <2> QED
    BY <1>1, <2>1, MatchedIsObserved
<1> QED
  BY <1>7, <1>8

-----------------------------------------------------------------------------
(* Readiness.  What a search yields, for any number of claims: a step that adds *)
(* to a set of ids finds nothing new after as many rounds as there are ids.     *)

LEMMA IdsFinite == IsFiniteSet(Ids) /\ Cardinality(Ids) = MaxId
  BY FS_Interval, ReadinessAssumption DEF Ids

\* What each round makes of what the one before it found, and such a search from A.
Rounds(S, lo, hi) == [lo..hi -> [S -> S]]

Searches(f, A, b, lo, hi) == f[lo] = A /\ \A n \in (lo + 1)..hi : f[n] = b[n][f[n-1]]

\* A search exists.
LEMMA SearchExists ==
  ASSUME NEW S, NEW A, A \in S, NEW lo \in Nat, NEW hi \in Nat, lo <= hi, NEW b, b \in Rounds(S, lo, hi)
  PROVE  \E f \in [lo..hi -> S] : Searches(f, A, b, lo, hi)
<1>0. b \in [lo..hi -> [S -> S]]
  BY DEF Rounds
<1> DEFINE Is(f, m) == f \in [lo..m -> S] /\ f = [n \in lo..m |-> IF n = lo THEN A ELSE b[n][f[n-1]]]
           Bad == {m \in lo..hi : ~\E f \in [lo..m -> S] : Is(f, m)}
<1>1. Bad = {}
  <2> SUFFICES ASSUME Bad # {} PROVE FALSE
    OBVIOUS
  <2>1. PICK m \in Bad : \A k \in Bad : m <= k
    <3>1. Bad \subseteq Nat
      OBVIOUS
    <3> QED
      BY <3>1, LeastNat
  <2>2. CASE m = lo
    <3>1. Is([n \in lo..lo |-> A], lo)
      OBVIOUS
    <3> QED
      BY <2>2, <3>1
  <2>3. CASE m # lo
    <3>0. m \in lo..hi
      OBVIOUS
    <3>1. m - 1 \in lo..hi /\ m - 1 \notin Bad /\ m \in lo..hi
      <4>1. m - 1 \in lo..hi /\ ~(m <= m - 1)
        BY <3>0, <2>3
      <4> HIDE DEF Bad
      <4> QED
        BY <4>1, <3>0, <2>1
    <3>2. PICK g \in [lo..(m-1) -> S] : Is(g, m - 1)
      BY <3>1
    <3> DEFINE h == [n \in lo..m |-> IF n = m THEN b[m][g[m-1]] ELSE g[n]]
    <3>3. \A n \in lo..m : h[n] = IF n = lo THEN A ELSE b[n][h[n-1]]
      <4> TAKE n \in lo..m
      <4>1. CASE n = m
        BY <3>1, <2>3, <4>1
      <4>2. CASE n # m
        <5>1. n \in lo..(m-1) /\ h[n] = g[n]
          BY <4>2, <3>1
        <5>2. g[n] = IF n = lo THEN A ELSE b[n][g[n-1]]
          BY <3>2, <5>1
        <5>3. n # lo => n - 1 \in lo..m /\ n - 1 # m /\ h[n-1] = g[n-1]
          BY <5>1, <3>1
        <5> QED
          BY <5>1, <5>2, <5>3
      <4> QED
        BY <4>1, <4>2
    <3>4. \A n \in lo..m : h[n] \in S
      BY <3>1, <3>2, <2>3, <1>0
    <3>5. h \in [lo..m -> S] /\ h = [n \in lo..m |-> IF n = lo THEN A ELSE b[n][h[n-1]]]
      <4> HIDE DEF Bad
      <4>1. h = [n \in lo..m |-> h[n]]
        OBVIOUS
      <4> HIDE DEF h
      <4> QED
        BY <3>3, <3>4, <4>1
    <3> HIDE DEF h
    <3>6. Is(h, m)
      BY <3>5
    <3> QED
      BY <3>5, <3>6, <2>1
  <2> QED
    BY <2>2, <2>3
<1>2. hi \in lo..hi /\ hi \notin Bad
  <2> HIDE DEF Bad
  <2> QED
    BY <1>1
<1>3. PICK f \in [lo..hi -> S] : f = [n \in lo..hi |-> IF n = lo THEN A ELSE b[n][f[n-1]]]
  BY <1>2
<1>4. f[lo] = A /\ \A n \in (lo + 1)..hi : n \in lo..hi /\ n # lo /\ f[n] = b[n][f[n-1]]
  <2>1. lo \in lo..hi
    OBVIOUS
  <2>2. \A n \in (lo + 1)..hi : n \in lo..hi /\ n # lo
    OBVIOUS
  <2>3. \A n \in lo..hi : f[n] = IF n = lo THEN A ELSE b[n][f[n-1]]
    BY <1>3
  <2> QED
    BY <2>1, <2>2, <2>3
<1> QED
  BY <1>4 DEF Searches

\* What goes like a search, as far as what it finds is of the kind it searches, is one.
GoesLike(f, S, A, b, lo, hi) ==
    /\ f = [n \in lo..hi |-> f[n]] /\ f[lo] = A
    /\ \A n \in (lo + 1)..hi : f[n-1] \in S => f[n] = b[n][f[n-1]]

LEMMA SearchTyped ==
  ASSUME NEW S, NEW A, A \in S, NEW lo \in Nat, NEW hi \in Nat, lo <= hi, NEW b, b \in Rounds(S, lo, hi),
         NEW f, GoesLike(f, S, A, b, lo, hi)
  PROVE  f \in [lo..hi -> S] /\ Searches(f, A, b, lo, hi)
<1>g. /\ f = [n \in lo..hi |-> f[n]] /\ f[lo] = A
      /\ \A n \in (lo + 1)..hi : f[n-1] \in S => f[n] = b[n][f[n-1]]
  BY DEF GoesLike
<1> DEFINE Bad == {n \in lo..hi : f[n] \notin S}
<1>1. Bad = {}
  <2> SUFFICES ASSUME Bad # {} PROVE FALSE
    OBVIOUS
  <2>1. PICK m \in Bad : \A k \in Bad : m <= k
    <3>1. Bad \subseteq Nat
      OBVIOUS
    <3> HIDE DEF Bad
    <3> QED
      BY <3>1, LeastNat
  <2>2. m \in lo..hi /\ m # lo
    BY <1>g
  <2>3. m - 1 \in lo..hi /\ m \in (lo + 1)..hi /\ ~(m <= m - 1) /\ m \in lo..hi
    BY <2>2
  <2>4. f[m-1] \in S
    BY <2>1, <2>3
  <2>5. b[m] \in [S -> S]
    BY <2>3 DEF Rounds
  <2> QED
    BY <2>3, <2>4, <2>5, <1>g
<1>2. \A n \in (lo + 1)..hi : n - 1 \in lo..hi
  OBVIOUS
<1> QED
  BY <1>1, <1>2, <1>g DEF Searches

\* A search over ids that starts with A: its last round is closed under the step, has
\* what it started with, and nothing that a closed set with A does not have.
Adds(b) == b \in [SUBSET Ids -> SUBSET Ids] /\ \A x \in SUBSET Ids : x \subseteq b[x]

Closed(x, A, b) ==
    /\ x \in SUBSET Ids /\ A \subseteq x /\ b[x] = x
    /\ \A C \in SUBSET Ids : A \subseteq C /\ (\A y \in SUBSET C : b[y] \subseteq C) => x \subseteq C

LEMMA SearchCloses ==
  ASSUME NEW lo \in {0, 1}, NEW A, A \in SUBSET Ids, lo = 1 => A # {}, NEW b, Adds(b),
         NEW e, \A n \in (lo + 1)..MaxId : e[n] = b,
         NEW f, f \in [lo..MaxId -> SUBSET Ids], Searches(f, A, e, lo, MaxId)
  PROVE  Closed(f[MaxId], A, b)
<1>a. b \in [SUBSET Ids -> SUBSET Ids] /\ (\A x \in SUBSET Ids : x \subseteq b[x])
      /\ f[lo] = A /\ \A n \in (lo + 1)..MaxId : f[n] = b[f[n-1]]
  BY DEF Adds, Searches
<1>0. MaxId \in Nat /\ MaxId >= 1 /\ lo \in Nat /\ lo \in lo..MaxId /\ MaxId \in lo..MaxId
  BY ReadinessAssumption
<1>n. \A n \in lo..MaxId : n \in Nat
  BY <1>0
<1>1. f[lo] = A /\ \A n \in lo..MaxId : n # lo => f[n] = b[f[n-1]] /\ n - 1 \in lo..MaxId
  <2>1. \A n \in lo..MaxId : n # lo => n \in (lo + 1)..MaxId /\ n - 1 \in lo..MaxId
    BY <1>0
  <2> QED
    BY <2>1, <1>a
<1> DEFINE Fine(n) == A \subseteq f[n] /\ (Cardinality(f[n]) >= n \/ b[f[n]] = f[n])
           Bad == {n \in lo..MaxId : ~Fine(n)}
<1>2. \A n \in lo..MaxId : IsFiniteSet(f[n]) /\ Cardinality(f[n]) \in Nat /\ Cardinality(f[n]) <= MaxId
                          /\ (Cardinality(f[n]) = MaxId => f[n] = Ids)
  BY IdsFinite, FS_Subset, FS_CardinalityType, <1>0
<1>3. ASSUME NEW n \in lo..MaxId, n # lo, Fine(n - 1) PROVE Fine(n)
  <2>1. f[n] = b[f[n-1]] /\ n - 1 \in lo..MaxId /\ f[n-1] \subseteq f[n]
    BY <1>1, <1>3, <1>a
  <2>2. CASE b[f[n-1]] = f[n-1]
    BY <2>1, <2>2, <1>3
  <2>3. CASE b[f[n-1]] # f[n-1]
    <3>1. Cardinality(f[n-1]) >= n - 1
      BY <2>3, <1>3
    <3>2. Cardinality(f[n-1]) <= Cardinality(f[n]) /\ Cardinality(f[n-1]) # Cardinality(f[n])
      BY <2>1, <2>3, <1>2, FS_Subset
    <3>3. Cardinality(f[n-1]) \in Nat /\ Cardinality(f[n]) \in Nat /\ n \in Nat
      BY <1>2, <2>1, <1>n
    <3>4. Cardinality(f[n]) >= n
      BY <3>1, <3>2, <3>3
    <3> QED
      BY <3>4, <2>1, <1>3
  <2> QED
    BY <2>2, <2>3
<1>4. Fine(lo)
  <2>1. lo = 1 => Cardinality(f[lo]) # 0
    BY <1>1, <1>2, <1>0, FS_EmptySet
  <2>2. Cardinality(f[lo]) \in Nat
    BY <1>2, <1>0
  <2>3. Cardinality(f[lo]) >= lo
    BY <2>1, <2>2
  <2> QED
    BY <1>1, <2>3
<1>5. Bad = {}
  <2> SUFFICES ASSUME Bad # {} PROVE FALSE
    OBVIOUS
  <2>1. PICK m \in Bad : \A k \in Bad : m <= k
    <3>1. Bad \subseteq Nat
      OBVIOUS
    <3> HIDE DEF Bad
    <3> QED
      BY <3>1, LeastNat
  <2>2. m # lo /\ m \in lo..MaxId /\ ~Fine(m)
    BY <1>4, <2>1
  <2>3. m - 1 \in lo..MaxId /\ m - 1 \notin Bad
    <3>1. m - 1 \in lo..MaxId /\ ~(m <= m - 1)
      BY <2>2, <1>1, <1>n
    <3> HIDE DEF Bad
    <3> QED
      BY <3>1, <2>1
  <2>4. Fine(m - 1)
    BY <2>3
  <2> HIDE DEF Fine, Bad
  <2> QED
    BY <2>2, <2>4, <1>3
<1>6. MaxId \in lo..MaxId /\ Fine(MaxId)
  <2>1. MaxId \notin Bad
    <3> HIDE DEF Bad
    <3> QED
      BY <1>5
  <2> QED
    BY <1>0, <2>1
<1>7. f[MaxId] \in SUBSET Ids /\ A \subseteq f[MaxId] /\ b[f[MaxId]] = f[MaxId]
  <2>1. CASE Cardinality(f[MaxId]) >= MaxId
    <3>1. f[MaxId] = Ids
      BY <2>1, <1>2, <1>0
    <3>2. b[Ids] \in SUBSET Ids /\ Ids \subseteq b[Ids]
      BY <1>a
    <3> QED
      BY <3>1, <3>2, <1>6
  <2> QED
    BY <1>6, <2>1
<1>8. ASSUME NEW C \in SUBSET Ids, A \subseteq C, \A x \in SUBSET C : b[x] \subseteq C
      PROVE  f[MaxId] \subseteq C
  <2> DEFINE Out == {n \in lo..MaxId : ~(f[n] \subseteq C)}
  <2> SUFFICES ASSUME Out # {} PROVE FALSE
    BY <1>6
  <2>1. PICK m \in Out : \A k \in Out : m <= k
    <3>1. Out \subseteq Nat
      OBVIOUS
    <3> HIDE DEF Out
    <3> QED
      BY <3>1, LeastNat
  <2>2. m # lo
    BY <2>1, <1>1, <1>8
  <2>3. m - 1 \in lo..MaxId /\ m - 1 \notin Out /\ f[m] = b[f[m-1]]
    <3>1. m \in lo..MaxId
      OBVIOUS
    <3> HIDE DEF Out
    <3>2. m \in Nat /\ m - 1 \in lo..MaxId /\ f[m] = b[f[m-1]]
      BY <2>2, <3>1, <1>1, <1>n
    <3>3. ~(m <= m - 1)
      BY <3>2
    <3> QED
      BY <3>2, <3>3, <2>1
  <2>4. f[m-1] \in SUBSET C
    BY <2>3
  <2> QED
    BY <2>1, <2>3, <2>4, <1>8
<1> QED
  BY <1>7, <1>8 DEF Closed

\* What a claim rests on is named by ids.
LEMMA RestsTyped ==
  ASSUME ClaimsTyped, NEW c \in Here
  PROVE  /\ claims[c].rests \in Seq(Ids) /\ claims[c].text \in Texts
         /\ claims[c].status \in Statuses /\ claims[c].open \in BOOLEAN
         /\ restsOn(c) \subseteq Ids
<1>1. claims[c] \in Claim
  BY DEF ClaimsTyped
<1>2. claims[c].rests \in UNION {[1..n -> Ids] : n \in 0..MaxRests} /\ claims[c].text \in Texts
      /\ claims[c].status \in Statuses /\ claims[c].open \in BOOLEAN
  BY <1>1 DEF Claim, Lists
<1>3. PICK n \in 0..MaxRests : claims[c].rests \in [1..n -> Ids]
  BY <1>2
<1>4. n \in Nat
  BY <1>3, ReadinessAssumption
<1>5. claims[c].rests \in Seq(Ids)
  BY <1>3, <1>4, SeqDef
<1> QED
  BY <1>2, <1>5 DEF restsOn, ToSet

\* What r stands on: closed under resting on, but for what cannot be passed through,
\* and nothing more than a closed set has.
LEMMA BelowCloses ==
  ASSUME ClaimsTyped, NEW r \in Ids
  PROVE  /\ Below(r) \subseteq Ids /\ r \in Below(r)
         /\ \A u \in Below(r) \cap (Eligible \cup {r}) : restsOn(u) \cap Here \subseteq Below(r)
         /\ \A C : r \in C /\ (\A u \in C \cap (Eligible \cup {r}) : restsOn(u) \cap Here \subseteq C) => Below(r) \subseteq C
<1> DEFINE E == Eligible \cup {r}
           Round(x) == x \cup UNION {restsOn(u) \cap Here : u \in x \cap E}
<1>b. PICK b : b = [x \in SUBSET Ids |-> Round(x)]
  OBVIOUS
<1>d. PICK d : d = [n \in 1..MaxId |-> b]
  OBVIOUS
<1> DEFINE Eq(f) == Searches(f, {r}, d, 1, MaxId)
           Was(f) == f = [n \in 1..MaxId |-> IF n = 1 THEN {r}
                                             ELSE LET seen == f[n-1]
                                                  IN seen \cup UNION {restsOn(u) \cap Here : u \in seen \cap (Eligible \cup {r})}]
<1>f. PICK f : f = CHOOSE h : Was(h)
  OBVIOUS
<1>0. MaxId \in Nat /\ 1 <= MaxId /\ 1 \in Nat /\ Here \subseteq Ids
  BY ReadinessAssumption DEF ClaimsTyped
<1>1. \A x \in SUBSET Ids : Round(x) \in SUBSET Ids /\ x \subseteq Round(x)
  BY <1>0
<1>2. b \in [SUBSET Ids -> SUBSET Ids] /\ \A x \in SUBSET Ids : x \subseteq b[x]
  BY <1>1, <1>b
<1>3. PICK g \in [1..MaxId -> SUBSET Ids] : Eq(g)
  <2>1. d \in Rounds(SUBSET Ids, 1, MaxId)
    BY <1>2, <1>d DEF Rounds
  <2>2. {r} \in SUBSET Ids
    OBVIOUS
  <2>3. PICK g \in [1..MaxId -> SUBSET Ids] : Searches(g, {r}, d, 1, MaxId)
    BY <2>1, <2>2, <1>0, SearchExists, Zenon
  <2> QED
    BY <2>3
<1>4. Was(g)
  <2>1. \A n \in 1..MaxId : n # 1 => n \in 2..MaxId /\ n - 1 \in 1..MaxId
    BY <1>0
  <2>2. \A n \in 1..MaxId : n # 1 => g[n] = Round(g[n-1])
    <3>1. \A n \in (1 + 1)..MaxId : g[n] = d[n][g[n-1]]
      BY <1>3 DEF Searches
    <3>2. \A n \in 1..MaxId : n # 1 => n \in (1 + 1)..MaxId /\ d[n] = b /\ g[n-1] \in SUBSET Ids
      BY <2>1, <1>d
    <3>3. \A x \in SUBSET Ids : b[x] = Round(x)
      BY <1>b
    <3> HIDE DEF Round
    <3> QED
      BY <3>1, <3>2, <3>3
  <2>3. \A n \in 1..MaxId : g[n] = IF n = 1 THEN {r} ELSE g[n-1] \cup UNION {restsOn(u) \cap Here : u \in g[n-1] \cap (Eligible \cup {r})}
    BY <2>2, <1>3 DEF Searches
  <2> QED
    BY <2>3
<1>5. Was(f)
  <2> HIDE DEF Was
  <2> QED
    BY <1>4, <1>f
<1>6. f \in [1..MaxId -> SUBSET Ids] /\ Eq(f)
  <2>1. f = [n \in 1..MaxId |-> f[n]] /\ f[1] = {r}
    BY <1>5, <1>0
  <2>2. \A n \in (1 + 1)..MaxId : f[n-1] \in SUBSET Ids => f[n] = d[n][f[n-1]]
    <3>1. \A n \in (1 + 1)..MaxId : n \in 1..MaxId /\ n # 1
      BY <1>0
    <3>2. \A n \in (1 + 1)..MaxId : f[n] = Round(f[n-1])
      BY <1>5, <3>1
    <3>3. \A n \in (1 + 1)..MaxId : d[n] = b
      BY <1>d, <3>1
    <3>4. \A x \in SUBSET Ids : b[x] = Round(x)
      BY <1>b
    <3> HIDE DEF Round, Was
    <3> QED
      BY <3>2, <3>3, <3>4
  <2>3. d \in Rounds(SUBSET Ids, 1, MaxId) /\ {r} \in SUBSET Ids
    BY <1>2, <1>d DEF Rounds
  <2>4. GoesLike(f, SUBSET Ids, {r}, d, 1, MaxId)
    BY <2>1, <2>2 DEF GoesLike
  <2> QED
    BY <2>3, <2>4, <1>0, SearchTyped, Zenon
<1>7. Below(r) = f[MaxId]
  BY <1>f DEF Below
<1>c. Closed(f[MaxId], {r}, b)
  <2>1. {r} \in SUBSET Ids /\ {r} # {} /\ 1 \in {0, 1}
    OBVIOUS
  <2>2. Adds(b)
    BY <1>2 DEF Adds
  <2>3. \A n \in (1 + 1)..MaxId : d[n] = b
    BY <1>d
  <2> QED
    BY <2>1, <2>2, <2>3, <1>6, SearchCloses, Zenon
<1>8. /\ f[MaxId] \in SUBSET Ids /\ {r} \subseteq f[MaxId] /\ b[f[MaxId]] = f[MaxId]
      /\ \A C \in SUBSET Ids : {r} \subseteq C /\ (\A x \in SUBSET C : b[x] \subseteq C) => f[MaxId] \subseteq C
  BY <1>c DEF Closed
<1>9. ASSUME NEW C, r \in C, \A u \in C \cap (Eligible \cup {r}) : restsOn(u) \cap Here \subseteq C
      PROVE  f[MaxId] \subseteq C
  <2> DEFINE D == C \cap Ids
  <2>1. D \in SUBSET Ids /\ {r} \subseteq D
    BY <1>9
  <2>2. ASSUME NEW x \in SUBSET D PROVE b[x] \subseteq D
    <3>1. b[x] = Round(x)
      BY <1>b, <2>1
    <3>2. \A u \in x \cap E : restsOn(u) \cap Here \subseteq D
      BY <1>9, <1>0
    <3> QED
      BY <3>1, <3>2
  <2> HIDE DEF Round
  <2>3. f[MaxId] \subseteq D
    BY <2>1, <2>2, <1>8
  <2> QED
    BY <2>3
<1>10. \A u \in f[MaxId] \cap (Eligible \cup {r}) : restsOn(u) \cap Here \subseteq f[MaxId]
  <2>1. b[f[MaxId]] = Round(f[MaxId])
    BY <1>8, <1>b
  <2> QED
    BY <2>1, <1>8
<1> HIDE DEF Round
<1> QED
  BY <1>7, <1>8, <1>9, <1>10

\* What u reaches through claims that can be consumed: closed under resting on, and
\* nothing more than a closed set has.
LEMMA ReachCloses ==
  ASSUME ClaimsTyped, NEW u \in Here
  PROVE  /\ Reach(u) \subseteq Eligible /\ restsOn(u) \cap Eligible \subseteq Reach(u)
         /\ \A v \in Reach(u) : restsOn(v) \cap Eligible \subseteq Reach(u)
         /\ \A C : restsOn(u) \cap Eligible \subseteq C /\ (\A v \in C \cap Eligible : restsOn(v) \cap Eligible \subseteq C)
               => Reach(u) \subseteq C
<1> DEFINE Round(x) == x \cup UNION {restsOn(v) \cap Eligible : v \in x}
<1>a. PICK A : A = restsOn(u) \cap Eligible
  OBVIOUS
<1>b. PICK b : b = [x \in SUBSET Ids |-> Round(x)]
  OBVIOUS
<1>d. PICK d : d = [n \in 0..MaxId |-> b]
  OBVIOUS
<1> DEFINE Eq(f) == Searches(f, A, d, 0, MaxId)
           Was(f) == f = [n \in 0..MaxId |-> IF n = 0 THEN restsOn(u) \cap Eligible
                                             ELSE LET near == f[n-1]
                                                  IN near \cup UNION {restsOn(v) \cap Eligible : v \in near}]
<1>f. PICK f : f = CHOOSE h : Was(h)
  OBVIOUS
<1>0. MaxId \in Nat /\ 0 <= MaxId /\ 0 \in Nat /\ Eligible \subseteq Ids /\ A \in SUBSET Ids
  <2>1. Eligible \subseteq Ids
    BY DEF ClaimsTyped, Eligible
  <2> QED
    BY <2>1, <1>a, ReadinessAssumption
<1>1. \A x \in SUBSET Ids : Round(x) \in SUBSET Ids /\ x \subseteq Round(x)
  BY <1>0
<1>2. b \in [SUBSET Ids -> SUBSET Ids] /\ \A x \in SUBSET Ids : x \subseteq b[x]
  BY <1>1, <1>b
<1>3. PICK g \in [0..MaxId -> SUBSET Ids] : Eq(g)
  <2>1. d \in Rounds(SUBSET Ids, 0, MaxId)
    BY <1>2, <1>d DEF Rounds
  <2>2. A \in SUBSET Ids
    BY <1>0
  <2>3. PICK g \in [0..MaxId -> SUBSET Ids] : Searches(g, A, d, 0, MaxId)
    BY <2>1, <2>2, <1>0, SearchExists, Zenon
  <2> QED
    BY <2>3
<1>4. Was(g)
  <2>1. \A n \in 0..MaxId : n # 0 => n \in 1..MaxId /\ n - 1 \in 0..MaxId
    BY <1>0
  <2>2. \A n \in 0..MaxId : n # 0 => g[n] = Round(g[n-1])
    <3>1. \A n \in (0 + 1)..MaxId : g[n] = d[n][g[n-1]]
      BY <1>3 DEF Searches
    <3>2. \A n \in 0..MaxId : n # 0 => n \in (0 + 1)..MaxId /\ d[n] = b /\ g[n-1] \in SUBSET Ids
      BY <2>1, <1>d
    <3>3. \A x \in SUBSET Ids : b[x] = Round(x)
      BY <1>b
    <3> HIDE DEF Round
    <3> QED
      BY <3>1, <3>2, <3>3
  <2>3. \A n \in 0..MaxId : g[n] = IF n = 0 THEN restsOn(u) \cap Eligible ELSE g[n-1] \cup UNION {restsOn(v) \cap Eligible : v \in g[n-1]}
    BY <2>2, <1>3, <1>a DEF Searches
  <2> QED
    BY <2>3
<1>5. Was(f)
  <2> HIDE DEF Was
  <2> QED
    BY <1>4, <1>f
<1>6. f \in [0..MaxId -> SUBSET Ids] /\ Eq(f)
  <2>1. f = [n \in 0..MaxId |-> f[n]] /\ f[0] = A
    BY <1>5, <1>0, <1>a
  <2>2. \A n \in (0 + 1)..MaxId : f[n-1] \in SUBSET Ids => f[n] = d[n][f[n-1]]
    <3>1. \A n \in (0 + 1)..MaxId : n \in 0..MaxId /\ n # 0
      BY <1>0
    <3>2. \A n \in (0 + 1)..MaxId : f[n] = Round(f[n-1])
      BY <1>5, <3>1
    <3>3. \A n \in (0 + 1)..MaxId : d[n] = b
      BY <1>d, <3>1
    <3>4. \A x \in SUBSET Ids : b[x] = Round(x)
      BY <1>b
    <3> HIDE DEF Round, Was
    <3> QED
      BY <3>2, <3>3, <3>4
  <2>3. d \in Rounds(SUBSET Ids, 0, MaxId) /\ A \in SUBSET Ids
    BY <1>0, <1>2, <1>d DEF Rounds
  <2>4. GoesLike(f, SUBSET Ids, A, d, 0, MaxId)
    BY <2>1, <2>2 DEF GoesLike
  <2> QED
    BY <2>3, <2>4, <1>0, SearchTyped, Zenon
<1>7. Reach(u) = f[MaxId]
  BY <1>f DEF Reach
<1>c. Closed(f[MaxId], A, b)
  <2>1. A \in SUBSET Ids /\ (0 = 1 => A # {}) /\ 0 \in {0, 1}
    BY <1>0
  <2>2. Adds(b)
    BY <1>2 DEF Adds
  <2>3. \A n \in (0 + 1)..MaxId : d[n] = b
    BY <1>d
  <2> QED
    BY <2>1, <2>2, <2>3, <1>6, SearchCloses, Zenon
<1>8. /\ f[MaxId] \in SUBSET Ids /\ A \subseteq f[MaxId] /\ b[f[MaxId]] = f[MaxId]
      /\ \A C \in SUBSET Ids : A \subseteq C /\ (\A x \in SUBSET C : b[x] \subseteq C) => f[MaxId] \subseteq C
  BY <1>c DEF Closed
<1>9. ASSUME NEW C, A \subseteq C, \A v \in C \cap Eligible : restsOn(v) \cap Eligible \subseteq C
      PROVE  f[MaxId] \subseteq C \cap Eligible
  <2> DEFINE D == C \cap Eligible
  <2>1. D \in SUBSET Ids /\ A \subseteq D
    BY <1>9, <1>0, <1>a
  <2>2. ASSUME NEW x \in SUBSET D PROVE b[x] \subseteq D
    <3>1. b[x] = Round(x)
      BY <1>b, <2>1
    <3>2. \A v \in x : restsOn(v) \cap Eligible \subseteq D
      BY <1>9
    <3> QED
      BY <3>1, <3>2
  <2> HIDE DEF D
  <2>3. f[MaxId] \subseteq D
    BY <2>1, <2>2, <1>8
  <2> QED
    BY <2>3 DEF D
<1>10. \A v \in f[MaxId] : restsOn(v) \cap Eligible \subseteq f[MaxId]
  <2>1. b[f[MaxId]] = Round(f[MaxId])
    BY <1>8, <1>b
  <2> QED
    BY <2>1, <1>8
<1>11. f[MaxId] \subseteq Eligible
  <2>1. A \subseteq Eligible /\ \A v \in Eligible : restsOn(v) \cap Eligible \subseteq Eligible
    BY <1>a
  <2> QED
    BY <2>1, <1>9
<1> HIDE DEF Round
<1> QED
  BY <1>a, <1>7, <1>8, <1>9, <1>10, <1>11

\* Paths are compared by length, then element by element: any set of paths has a least.
LEMMA LeastIs ==
  ASSUME NEW P, P # {}, P \subseteq Seq(Nat)
  PROVE  Least(P) \in P /\ \A q \in P : q = Least(P) \/ Shorter(Least(P), q)
<1>1. PICK n \in Nat : (\E p \in P : Len(p) = n) /\ \A q \in P : n <= Len(q)
  <2> DEFINE T == {Len(p) : p \in P}
  <2>0. \A p \in P : Len(p) \in Nat
    OBVIOUS
  <2>1. T \subseteq Nat /\ T # {}
    BY <2>0
  <2>2. PICK n \in T : \A y \in T : n <= y
    BY <2>1, LeastNat
  <2> QED
    BY <2>1, <2>2
<1> DEFINE Q == {p \in P : Len(p) = n}
           Agree(p, q, k) == \A j \in 1..k : p[j] = q[j]
           Before(p, q, k) == \E i \in 1..k : Agree(p, q, i - 1) /\ p[i] < q[i]
           Good(k) == \E p \in Q : \A q \in Q : Agree(p, q, k) \/ Before(p, q, k)
           Bad == {k \in 0..n : ~Good(k)}
<1>2. Q # {} /\ \A q \in Q : Len(q) = n /\ q \in P /\ \A j \in 1..n : q[j] \in Nat
  BY <1>1
<1>3. ASSUME NEW k \in 1..n, Good(k - 1) PROVE Good(k)
  <2>1. PICK p \in Q : \A q \in Q : Agree(p, q, k - 1) \/ Before(p, q, k - 1)
    BY <1>3
  <2> DEFINE R == {q \in Q : Agree(p, q, k - 1)}
             V == {q[k] : q \in R}
  <2>2. p \in R /\ V # {} /\ V \subseteq Nat
    BY <1>2
  <2>3. PICK v \in V : \A w \in V : v <= w
    <3> HIDE DEF V
    <3> QED
      BY <2>2, LeastNat
  <2>4. PICK s \in R : s[k] = v
    OBVIOUS
  <2>5. ASSUME NEW q \in Q PROVE Agree(s, q, k) \/ Before(s, q, k)
    <3>1. CASE q \in R
      <4>1. Agree(s, q, k - 1) /\ s[k] <= q[k] /\ s[k] \in Nat /\ q[k] \in Nat
        BY <2>3, <2>4, <3>1, <1>2
      <4>2. CASE s[k] = q[k]
        BY <4>1, <4>2
      <4>3. CASE s[k] # q[k]
        <5>0. \A x, y \in Nat : x <= y /\ x # y => x < y
          OBVIOUS
        <5>1. s[k] < q[k] /\ k \in 1..k
          <6>1. s[k] < q[k]
            BY <4>1, <4>3, <5>0
          <6> QED
            BY <6>1
        <5> QED
          BY <4>1, <5>1
      <4> QED
        BY <4>2, <4>3
    <3>2. CASE q \notin R
      <4>1. PICK i \in 1..(k - 1) : Agree(p, q, i - 1) /\ p[i] < q[i]
        BY <2>1, <3>2
      <4>2. Agree(s, q, i - 1) /\ s[i] < q[i] /\ i \in 1..k
        <5>1. i \in 1..(k - 1) /\ k \in 1..n /\ n \in Nat
          BY <4>1
        <5>2. i \in 1..k /\ \A j \in 1..i : j \in 1..(k - 1)
          BY <5>1
        <5>3. \A j \in 1..(i - 1) : j \in 1..i
          BY <5>1
        <5>4. \A j \in 1..(k - 1) : p[j] = s[j]
          BY <2>4
        <5>5. i \in 1..i
          BY <5>1
        <5> QED
          BY <4>1, <5>2, <5>3, <5>4, <5>5
      <4> QED
        BY <4>2
    <3> QED
      BY <3>1, <3>2
  <2> HIDE DEF Agree, Before
  <2> QED
    BY <2>4, <2>5
<1>4. Good(0)
  BY <1>2
<1>5. Bad = {}
  <2> SUFFICES ASSUME Bad # {} PROVE FALSE
    OBVIOUS
  <2>1. PICK m \in Bad : \A k \in Bad : m <= k
    <3>1. Bad \subseteq Nat
      OBVIOUS
    <3> HIDE DEF Bad
    <3> QED
      BY <3>1, LeastNat
  <2> HIDE DEF Good
  <2>2. m \in 0..n /\ m # 0 /\ ~Good(m)
    BY <1>4
  <2>3. m \in 1..n /\ m - 1 \in 0..n /\ ~(m <= m - 1)
    BY <2>2
  <2> HIDE DEF Bad
  <2>4. m - 1 \notin Bad
    BY <2>1, <2>3
  <2>5. Good(m - 1)
    BY <2>3, <2>4 DEF Bad
  <2> QED
    BY <2>2, <2>3, <2>5, <1>3
<1>6. PICK p \in Q : \A q \in Q : Agree(p, q, n) \/ Before(p, q, n)
  <2>1. n \in 0..n
    OBVIOUS
  <2>2. n \notin Bad
    <3> HIDE DEF Bad
    <3> QED
      BY <1>5
  <2> QED
    BY <2>1, <2>2
<1>7. ASSUME NEW q \in P PROVE q = p \/ Shorter(p, q)
  <2>0. p \in Seq(Nat) /\ q \in Seq(Nat) /\ Len(p) = n /\ n <= Len(q)
    BY <1>1
  <2>1. CASE Len(q) # n
    BY <2>0, <2>1 DEF Shorter
  <2>2. CASE Len(q) = n /\ Agree(p, q, n)
    BY <2>0, <2>2
  <2>3. CASE Len(q) = n /\ Before(p, q, n)
    <3>1. PICK i \in 1..n : Agree(p, q, i - 1) /\ p[i] < q[i]
      BY <2>3
    <3>2. \A j \in 1..(i - 1) : j <= Len(p) /\ p[j] = q[j]
      BY <3>1, <2>0
    <3>3. pathLess(p, q)
      BY <3>1, <3>2, <2>3 DEF pathLess
    <3> QED
      BY <2>0, <2>3, <3>3 DEF Shorter
  <2> QED
    BY <2>1, <2>2, <2>3, <1>6
<1>8. \E x \in P : \A q \in P : q = x \/ Shorter(x, q)
  BY <1>7
<1> HIDE DEF Q, Bad, Good, Agree, Before
<1> QED
  BY <1>8 DEF Least

\* A round of the breadth-first search from r: the claims its level passes through,
\* what they reach for the first time, and the paths with these added.
PathMaps == UNION {[D -> Seq(Ids)] : D \in SUBSET Ids}

Border(r, seen, n) == {u \in DOMAIN seen : Len(seen[u]) = n /\ (u = r \/ u \in Eligible)}

Fresh(r, seen, n) == ((UNION {restsOn(u) : u \in Border(r, seen, n)}) \cap Here) \ DOMAIN seen

Onto(r, seen, n, d) == {seen[u] : u \in {u \in Border(r, seen, n) : d \in restsOn(u)}}

Widen(r, seen, n) ==
    [d \in DOMAIN seen \cup Fresh(r, seen, n) |->
        IF d \in Fresh(r, seen, n) THEN Append(Least(Onto(r, seen, n, d)), d) ELSE seen[d]]

LEMMA PathMapsAre ==
  ASSUME NEW x
  PROVE  x \in PathMaps <=> /\ DOMAIN x \subseteq Ids /\ x = [u \in DOMAIN x |-> x[u]]
                            /\ \A u \in DOMAIN x : x[u] \in Seq(Ids)
<1>1. ASSUME x \in PathMaps PROVE DOMAIN x \subseteq Ids /\ x = [u \in DOMAIN x |-> x[u]] /\ \A u \in DOMAIN x : x[u] \in Seq(Ids)
  <2>1. PICK D \in SUBSET Ids : x \in [D -> Seq(Ids)]
    BY <1>1 DEF PathMaps
  <2> QED
    BY <2>1
<1>2. ASSUME DOMAIN x \subseteq Ids, x = [u \in DOMAIN x |-> x[u]], \A u \in DOMAIN x : x[u] \in Seq(Ids)
      PROVE  x \in PathMaps
  <2>1. PICK S : S = Seq(Ids)
    OBVIOUS
  <2>2. x \in [DOMAIN x -> S]
    BY <1>2, <2>1
  <2> QED
    BY <1>2, <2>1, <2>2 DEF PathMaps
<1> QED
  BY <1>1, <1>2

\* What is new is reached by the least of the paths of the level before, and one step.
LEMMA WidenStep ==
  ASSUME ClaimsTyped, NEW r \in Ids, NEW seen \in PathMaps, NEW n \in Nat
  PROVE  /\ Widen(r, seen, n) \in PathMaps
         /\ DOMAIN Widen(r, seen, n) = DOMAIN seen \cup Fresh(r, seen, n)
         /\ \A d \in DOMAIN seen : Widen(r, seen, n)[d] = seen[d]
         /\ \A d \in Fresh(r, seen, n) :
               \E u \in Border(r, seen, n) :
                  /\ d \in restsOn(u) /\ Widen(r, seen, n)[d] = Append(seen[u], d)
                  /\ \A v \in Border(r, seen, n) : d \in restsOn(v) => seen[v] = seen[u] \/ Shorter(seen[u], seen[v])
<1>1. /\ DOMAIN seen \subseteq Ids /\ seen = [u \in DOMAIN seen |-> seen[u]]
      /\ \A u \in DOMAIN seen : seen[u] \in Seq(Ids)
  BY PathMapsAre
<1>2. Fresh(r, seen, n) \subseteq Ids /\ Fresh(r, seen, n) \cap DOMAIN seen = {}
      /\ Border(r, seen, n) \subseteq DOMAIN seen
  <2>1. Here \subseteq Ids
    BY DEF ClaimsTyped
  <2>2. Fresh(r, seen, n) \subseteq Here /\ Fresh(r, seen, n) \cap DOMAIN seen = {}
    BY DEF Fresh
  <2> QED
    BY <2>1, <2>2 DEF Border
<1>3. ASSUME NEW d \in Fresh(r, seen, n)
      PROVE  \E u \in Border(r, seen, n) :
                  /\ d \in restsOn(u) /\ Least(Onto(r, seen, n, d)) = seen[u]
                  /\ \A v \in Border(r, seen, n) : d \in restsOn(v) => seen[v] = seen[u] \/ Shorter(seen[u], seen[v])
  <2>1. \E u \in Border(r, seen, n) : d \in restsOn(u)
    BY DEF Fresh
  <2>2. PICK P : P = Onto(r, seen, n, d)
    OBVIOUS
  <2>3. P # {} /\ P \subseteq Seq(Ids)
    BY <1>1, <1>2, <2>1, <2>2 DEF Onto
  <2>4. Seq(Ids) \subseteq Seq(Nat)
    <3>1. Ids \subseteq Nat
      BY ReadinessAssumption DEF Ids
    <3> SUFFICES ASSUME NEW s \in Seq(Ids) PROVE s \in Seq(Nat)
      OBVIOUS
    <3>2. Len(s) \in Nat /\ s = [i \in 1..Len(s) |-> s[i]] /\ \A i \in 1..Len(s) : s[i] \in Nat
      BY <3>1
    <3>3. s \in [1..Len(s) -> Nat]
      BY <3>2
    <3> QED
      BY <3>2, <3>3, SeqDef
  <2>5. Least(P) \in P /\ \A q \in P : q = Least(P) \/ Shorter(Least(P), q)
    BY <2>3, <2>4, LeastIs
  <2>6. PICK u \in Border(r, seen, n) : d \in restsOn(u) /\ Least(P) = seen[u]
    BY <2>2, <2>5 DEF Onto
  <2>7. \A v \in Border(r, seen, n) : d \in restsOn(v) => seen[v] \in P
    BY <2>2 DEF Onto
  <2> QED
    BY <2>2, <2>5, <2>6, <2>7
<1>4. PICK w : w = Widen(r, seen, n)
  OBVIOUS
<1>5. /\ DOMAIN w = DOMAIN seen \cup Fresh(r, seen, n)
      /\ w = [d \in DOMAIN w |-> w[d]]
      /\ \A d \in DOMAIN w : w[d] = IF d \in Fresh(r, seen, n) THEN Append(Least(Onto(r, seen, n, d)), d) ELSE seen[d]
  BY <1>4 DEF Widen
<1>6. \A d \in DOMAIN seen : w[d] = seen[d]
  BY <1>2, <1>5
<1>7. \A d \in Fresh(r, seen, n) : \E u \in Border(r, seen, n) :
                  /\ d \in restsOn(u) /\ w[d] = Append(seen[u], d)
                  /\ \A v \in Border(r, seen, n) : d \in restsOn(v) => seen[v] = seen[u] \/ Shorter(seen[u], seen[v])
  <2> SUFFICES ASSUME NEW d \in Fresh(r, seen, n)
               PROVE  \E u \in Border(r, seen, n) :
                         /\ d \in restsOn(u) /\ w[d] = Append(seen[u], d)
                         /\ \A v \in Border(r, seen, n) : d \in restsOn(v) => seen[v] = seen[u] \/ Shorter(seen[u], seen[v])
    OBVIOUS
  <2>1. PICK u \in Border(r, seen, n) :
           /\ d \in restsOn(u) /\ Least(Onto(r, seen, n, d)) = seen[u]
           /\ \A v \in Border(r, seen, n) : d \in restsOn(v) => seen[v] = seen[u] \/ Shorter(seen[u], seen[v])
    BY <1>3
  <2>2. w[d] = Append(seen[u], d)
    BY <1>5, <2>1
  <2> QED
    BY <2>1, <2>2
<1>8. \A d \in DOMAIN w : w[d] \in Seq(Ids)
  <2> SUFFICES ASSUME NEW d \in DOMAIN w PROVE w[d] \in Seq(Ids)
    OBVIOUS
  <2>1. CASE d \in DOMAIN seen
    BY <2>1, <1>1, <1>6
  <2>2. CASE d \in Fresh(r, seen, n)
    <3>1. PICK u \in Border(r, seen, n) : w[d] = Append(seen[u], d)
      BY <2>2, <1>7
    <3>2. seen[u] \in Seq(Ids) /\ d \in Ids
      BY <1>1, <1>2, <2>2
    <3> QED
      BY <3>1, <3>2
  <2> QED
    BY <2>1, <2>2, <1>5
<1>9. w \in PathMaps
  BY <1>1, <1>2, <1>5, <1>8, PathMapsAre
<1> QED
  BY <1>4, <1>5, <1>6, <1>7, <1>9

\* The search from r, level by level.
Search(r, f) ==
    /\ \A n \in 0..MaxId : f[n] \in PathMaps
    /\ f[0] = [c \in {r} |-> <<r>>]
    /\ \A n \in 1..MaxId : f[n] = Widen(r, f[n-1], n)

LEMMA LevelsSearch ==
  ASSUME ClaimsTyped, NEW r \in Ids
  PROVE  \E f : Search(r, f) /\ Levels(r) = f[MaxId]
<1>a. PICK A : A = [c \in {r} |-> <<r>>]
  OBVIOUS
<1>b. PICK b : b = [n \in 0..MaxId |-> [x \in PathMaps |-> Widen(r, x, n)]]
  OBVIOUS
<1>0. MaxId \in Nat /\ 0 <= MaxId /\ 0 \in Nat
  BY ReadinessAssumption
<1> DEFINE Was(f) == f = [n \in 0..MaxId |->
          IF n = 0 THEN [c \in {r} |-> <<r>>]
          ELSE LET seen == f[n-1]
                   at == {u \in DOMAIN seen : Len(seen[u]) = n /\ (u = r \/ u \in Eligible)}
                   new == ((UNION {restsOn(u) : u \in at}) \cap Here) \ DOMAIN seen
               IN [d \in DOMAIN seen \cup new |->
                     IF d \in new THEN Append(Least({seen[u] : u \in {u \in at : d \in restsOn(u)}}), d)
                     ELSE seen[d]]]
           Is(f) == f = [n \in 0..MaxId |-> IF n = 0 THEN A ELSE Widen(r, f[n-1], n)]
<1>w. \A f : Was(f) <=> Is(f)
  BY <1>a DEF Widen, Fresh, Onto, Border
<1>f. PICK f : f = CHOOSE h : Was(h)
  OBVIOUS
<1>1. A \in PathMaps
  <2>1. DOMAIN A = {r} /\ A = [u \in DOMAIN A |-> A[u]] /\ A[r] = <<r>>
    BY <1>a
  <2>2. <<r>> \in Seq(Ids)
    OBVIOUS
  <2> QED
    BY <2>1, <2>2, PathMapsAre
<1>2. b \in Rounds(PathMaps, 0, MaxId)
  <2>1. \A n \in 0..MaxId : \A x \in PathMaps : Widen(r, x, n) \in PathMaps
    <3>1. \A n \in 0..MaxId : n \in Nat
      BY <1>0
    <3>2. \A x \in PathMaps : \A n \in Nat : Widen(r, x, n) \in PathMaps
      BY WidenStep
    <3> QED
      BY <3>1, <3>2
  <2> QED
    BY <2>1, <1>b DEF Rounds
<1>n. \A n \in (0 + 1)..MaxId : n \in 0..MaxId /\ n # 0 /\ n - 1 \in 0..MaxId
  BY <1>0
<1>m. \A n \in 0..MaxId : n # 0 => n \in (0 + 1)..MaxId
  BY <1>0
<1>3. PICK g \in [0..MaxId -> PathMaps] : Searches(g, A, b, 0, MaxId)
  BY <1>0, <1>1, <1>2, SearchExists, Zenon
<1>4. Is(g)
  <2>1. \A n \in 0..MaxId : n # 0 => g[n] = b[n][g[n-1]] /\ g[n-1] \in PathMaps
    BY <1>3, <1>m, <1>n DEF Searches
  <2>2. \A n \in 0..MaxId : n # 0 => g[n] = Widen(r, g[n-1], n)
    BY <2>1, <1>b
  <2>3. \A n \in 0..MaxId : g[n] = IF n = 0 THEN A ELSE Widen(r, g[n-1], n)
    BY <2>2, <1>3 DEF Searches
  <2> QED
    BY <2>3
<1> HIDE DEF Was
<1>5. Is(f)
  BY <1>4, <1>w, <1>f
<1>6. GoesLike(f, PathMaps, A, b, 0, MaxId)
  <2>1. f = [n \in 0..MaxId |-> f[n]] /\ f[0] = A
    BY <1>5, <1>0
  <2>2. \A n \in (0 + 1)..MaxId : f[n] = Widen(r, f[n-1], n)
    BY <1>5, <1>n
  <2>3. \A n \in (0 + 1)..MaxId : f[n-1] \in PathMaps => f[n] = b[n][f[n-1]]
    BY <2>2, <1>n, <1>b
  <2> QED
    BY <2>1, <2>3 DEF GoesLike
<1>7. f \in [0..MaxId -> PathMaps] /\ Searches(f, A, b, 0, MaxId)
  BY <1>0, <1>1, <1>2, <1>6, SearchTyped, Zenon
<1>8. Search(r, f)
  <2>1. \A n \in 1..MaxId : f[n] = Widen(r, f[n-1], n)
    BY <1>5, <1>n
  <2>2. f[0] = A
    BY <1>6 DEF GoesLike
  <2> QED
    BY <2>1, <2>2, <1>7, <1>a DEF Search
<1>9. Levels(r) = f[MaxId]
  BY <1>f DEF Levels, Was
<1> QED
  BY <1>8, <1>9

\* Of two paths of one length, the lesser is less where they part.
LEMMA LessOfLength ==
  ASSUME NEW a \in Seq(Nat), NEW b \in Seq(Nat), Len(a) = Len(b)
  PROVE  Shorter(a, b) <=> \E i \in 1..Len(a) : (\A j \in 1..(i - 1) : a[j] = b[j]) /\ a[i] < b[i]
<1>1. Len(a) \in Nat /\ Len(b) = Len(a)
  OBVIOUS
<1>2. \A i \in 1..Len(a) : ~(i > Len(a)) /\ \A j \in 1..(i - 1) : j <= Len(a)
  BY <1>1
<1>3. Shorter(a, b) <=> pathLess(a, b)
  BY <1>1 DEF Shorter
<1>4. pathLess(a, b) <=> \E i \in 1..Len(a) : (\A j \in 1..(i - 1) : a[j] = b[j]) /\ a[i] < b[i]
  BY <1>1, <1>2 DEF pathLess
<1> QED
  BY <1>3, <1>4

LEMMA ShorterTransitive ==
  ASSUME NEW a \in Seq(Nat), NEW b \in Seq(Nat), NEW c \in Seq(Nat), Shorter(a, b), Shorter(b, c)
  PROVE  Shorter(a, c)
<1>1. CASE Len(a) < Len(b) \/ Len(b) < Len(c)
  BY <1>1 DEF Shorter
<1>2. CASE Len(a) = Len(b) /\ Len(b) = Len(c)
  <2>1. PICK i \in 1..Len(a) : (\A k \in 1..(i - 1) : a[k] = b[k]) /\ a[i] < b[i]
    BY <1>2, LessOfLength
  <2>2. PICK j \in 1..Len(b) : (\A k \in 1..(j - 1) : b[k] = c[k]) /\ b[j] < c[j]
    BY <1>2, LessOfLength
  <2>3. \A k \in 1..Len(a) : a[k] \in Nat /\ b[k] \in Nat /\ c[k] \in Nat
    <3>1. \A s \in Seq(Nat) : \A k \in 1..Len(s) : s[k] \in Nat
      OBVIOUS
    <3> QED
      BY <3>1, <1>2
  <2>4. CASE i < j
    <3>1. i \in 1..(j - 1) /\ \A k \in 1..(i - 1) : k \in 1..(j - 1)
      BY <2>4
    <3>2. (\A k \in 1..(i - 1) : a[k] = c[k]) /\ a[i] < c[i]
      BY <2>1, <2>2, <3>1
    <3> QED
      BY <3>2, <1>2, LessOfLength
  <2>5. CASE j < i
    <3>1. j \in 1..(i - 1) /\ \A k \in 1..(j - 1) : k \in 1..(i - 1)
      BY <2>5
    <3>2. (\A k \in 1..(j - 1) : a[k] = c[k]) /\ a[j] < c[j]
      BY <2>1, <2>2, <3>1
    <3> QED
      BY <3>2, <1>2, LessOfLength
  <2>6. CASE i = j
    <3>1. (\A k \in 1..(i - 1) : a[k] = c[k]) /\ a[i] < c[i]
      BY <2>1, <2>2, <2>3, <2>6
    <3> QED
      BY <3>1, <1>2, LessOfLength
  <2> QED
    BY <2>4, <2>5, <2>6
<1> QED
  BY <1>1, <1>2 DEF Shorter

LEMMA ShorterAppend ==
  ASSUME NEW a \in Seq(Nat), NEW b \in Seq(Nat), NEW d \in Nat, Len(a) = Len(b), Shorter(a, b)
  PROVE  Shorter(Append(a, d), Append(b, d))
<1>1. PICK i \in 1..Len(a) : (\A j \in 1..(i - 1) : a[j] = b[j]) /\ a[i] < b[i]
  BY LessOfLength
<1>2. PICK x, y : x = Append(a, d) /\ y = Append(b, d)
  OBVIOUS
<1>3. /\ x \in Seq(Nat) /\ y \in Seq(Nat) /\ Len(x) = Len(a) + 1 /\ Len(y) = Len(a) + 1
      /\ \A j \in 1..Len(a) : x[j] = a[j] /\ y[j] = b[j]
  BY <1>2
<1>4. i \in 1..Len(x) /\ \A j \in 1..(i - 1) : j \in 1..Len(a)
  BY <1>3
<1>5. (\A j \in 1..(i - 1) : x[j] = y[j]) /\ x[i] < y[i]
  BY <1>1, <1>3, <1>4
<1> QED
  BY <1>2, <1>3, <1>4, <1>5, LessOfLength

\* A way down from r: from a claim to one it rests on, no claim twice, and passing
\* only through claims that can be consumed.
Way(r, p) ==
    /\ p \in Seq(Ids) /\ p # <<>> /\ p[1] = r
    /\ \A i \in 1..Len(p) : p[i] \in Here
    /\ \A i \in 2..Len(p) : p[i] \in restsOn(p[i-1])
    /\ \A i \in 2..(Len(p) - 1) : p[i] \in Eligible
    /\ \A i, j \in 1..Len(p) : p[i] = p[j] => i = j

Passes(r, u) == u = r \/ u \in Eligible

LEMMA WayOn ==
  ASSUME NEW r, NEW p, Way(r, p), Passes(r, Last(p)), NEW d \in Ids, d \in restsOn(Last(p)), d \in Here,
         \A i \in 1..Len(p) : p[i] # d
  PROVE  Way(r, Append(p, d)) /\ Last(Append(p, d)) = d /\ Len(Append(p, d)) = Len(p) + 1
<1>1. p \in Seq(Ids) /\ Len(p) \in Nat /\ Len(p) >= 1 /\ p[1] = r /\ Last(p) = p[Len(p)]
  BY DEF Way, Last
<1>2. PICK q : q = Append(p, d)
  OBVIOUS
<1>3. /\ q \in Seq(Ids) /\ Len(q) = Len(p) + 1 /\ q[Len(p) + 1] = d
      /\ \A i \in 1..Len(p) : q[i] = p[i]
  BY <1>1, <1>2
<1>4. \A i \in 1..Len(q) : i = Len(p) + 1 \/ i \in 1..Len(p)
  BY <1>1, <1>3
<1>5. q # <<>> /\ q[1] = r /\ Last(q) = d
  BY <1>1, <1>3 DEF Last
<1>6. \A i \in 1..Len(q) : q[i] \in Here
  BY <1>3, <1>4 DEF Way
<1>7. ASSUME NEW i \in 2..Len(q) PROVE q[i] \in restsOn(q[i-1])
  <2>1. CASE i = Len(p) + 1
    <3>1. i - 1 = Len(p) /\ Len(p) \in 1..Len(p)
      BY <2>1, <1>1
    <3> QED
      BY <2>1, <3>1, <1>1, <1>3
  <2>2. CASE i # Len(p) + 1
    <3>1. i \in 2..Len(p) /\ i \in 1..Len(p) /\ i - 1 \in 1..Len(p)
      BY <2>2, <1>1, <1>3
    <3> QED
      BY <3>1, <1>3 DEF Way
  <2> QED
    BY <2>1, <2>2
<1>8. ASSUME NEW i \in 2..(Len(q) - 1) PROVE q[i] \in Eligible
  <2>0. i \in 2..Len(p) /\ i \in 1..Len(p)
    BY <1>1, <1>3
  <2>1. CASE i = Len(p)
    <3>1. q[i] = Last(p) /\ i # 1 /\ 1 \in 1..Len(p)
      BY <2>0, <2>1, <1>1, <1>3
    <3>2. p[i] # p[1]
      BY <3>1, <2>0 DEF Way
    <3> QED
      BY <3>1, <3>2, <2>0, <2>1, <1>1, <1>3 DEF Passes
  <2>2. CASE i # Len(p)
    <3>1. i \in 2..(Len(p) - 1)
      BY <2>0, <2>2, <1>1
    <3> QED
      BY <3>1, <2>0, <1>3 DEF Way
  <2> QED
    BY <2>1, <2>2
<1>9. \A i, j \in 1..Len(q) : q[i] = q[j] => i = j
  BY <1>3, <1>4 DEF Way
<1> QED
  BY <1>2, <1>3, <1>5, <1>6, <1>7, <1>8, <1>9 DEF Way

\* A way of more than one claim goes on from a shorter one.
LEMMA WayBack ==
  ASSUME NEW r, NEW p, Way(r, p), Len(p) # 1
  PROVE  \E q : /\ Way(r, q) /\ Passes(r, Last(q)) /\ p = Append(q, Last(p)) /\ Len(p) = Len(q) + 1
                /\ Last(p) \in restsOn(Last(q)) /\ Last(p) \in Here /\ Last(p) \in Ids
                /\ \A i \in 1..Len(q) : q[i] # Last(p)
<1>1. p \in Seq(Ids) /\ Len(p) \in Nat /\ Len(p) >= 2 /\ p[1] = r /\ Last(p) = p[Len(p)]
  <2>1. p \in Seq(Ids) /\ p # <<>> /\ p[1] = r
    BY DEF Way
  <2>2. Len(p) \in Nat /\ Len(p) # 0
    BY <2>1
  <2>3. \A n \in Nat : n # 0 /\ n # 1 => n >= 2
    OBVIOUS
  <2>4. Len(p) >= 2
    BY <2>2, <2>3
  <2> QED
    BY <2>1, <2>2, <2>4 DEF Last
<1>2. PICK m \in Nat : Len(p) = m + 1 /\ m >= 1
  BY <1>1
<1>3. PICK q : q = [i \in 1..m |-> p[i]]
  OBVIOUS
<1>4. q \in Seq(Ids) /\ Len(q) = m /\ \A i \in 1..m : q[i] = p[i]
  BY <1>1, <1>2, <1>3
<1>5. p = Append(q, Last(p))
  <2>1. PICK s : s = Append(q, Last(p))
    OBVIOUS
  <2>2. Last(p) \in Ids
    BY <1>1
  <2>3. s \in Seq(Ids) /\ Len(s) = m + 1 /\ s[m + 1] = Last(p) /\ \A i \in 1..m : s[i] = q[i]
    BY <2>1, <2>2, <1>4
  <2>4. \A i \in 1..(m + 1) : i = m + 1 \/ i \in 1..m
    BY <1>2
  <2>5. \A i \in 1..(m + 1) : s[i] = p[i]
    BY <2>3, <2>4, <1>1, <1>2, <1>4
  <2>6. s = p
    BY <2>3, <2>5, <1>1, <1>2
  <2> QED
    BY <2>1, <2>6
<1>6. /\ \A i \in 1..m : i \in 1..Len(p)
      /\ \A i \in 2..m : i \in 2..Len(p) /\ i \in 1..m /\ i - 1 \in 1..m
      /\ \A i \in 2..(m - 1) : i \in 2..(Len(p) - 1) /\ i \in 1..m
      /\ 1 \in 1..m /\ m \in 1..m
  BY <1>2
<1>7. Way(r, q)
  <2>1. q # <<>> /\ q[1] = r
    BY <1>1, <1>2, <1>4, <1>6
  <2>2. \A i \in 1..Len(q) : q[i] \in Here
    BY <1>4, <1>6 DEF Way
  <2>3. \A i \in 2..Len(q) : q[i] \in restsOn(q[i-1])
    BY <1>4, <1>6 DEF Way
  <2>4. \A i \in 2..(Len(q) - 1) : q[i] \in Eligible
    BY <1>4, <1>6 DEF Way
  <2>5. \A i, j \in 1..Len(q) : q[i] = q[j] => i = j
    BY <1>4, <1>6 DEF Way
  <2> QED
    BY <1>4, <2>1, <2>2, <2>3, <2>4, <2>5 DEF Way
<1>8. Last(q) = p[m] /\ p[m + 1] = Last(p) /\ m + 1 \in 2..Len(p) /\ m + 1 \in 1..Len(p) /\ (m + 1) - 1 = m
  BY <1>1, <1>2, <1>4, <1>6 DEF Last
<1>9. Passes(r, Last(q))
  <2>1. CASE m = 1
    BY <1>1, <1>8, <2>1 DEF Passes
  <2>2. CASE m # 1
    <3>1. m \in 2..(Len(p) - 1)
      BY <1>2, <2>2
    <3> QED
      BY <3>1, <1>8 DEF Way, Passes
  <2> QED
    BY <2>1, <2>2
<1>10. Last(p) \in restsOn(Last(q)) /\ Last(p) \in Here
  BY <1>8 DEF Way
<1>11. Last(p) \in Ids /\ \A i \in 1..Len(q) : q[i] # Last(p)
  <2>1. Last(p) \in Ids
    BY <1>1
  <2>2. \A i \in 1..m : i # m + 1 /\ i \in 1..Len(p)
    BY <1>2
  <2> QED
    BY <2>1, <2>2, <1>4, <1>8 DEF Way
<1> QED
  BY <1>2, <1>4, <1>5, <1>7, <1>9, <1>10, <1>11

LEMMA IdsNat == Ids \subseteq Nat /\ \A p \in Seq(Ids) : p \in Seq(Nat)
<1>1. Ids \subseteq Nat
  BY ReadinessAssumption DEF Ids
<1> SUFFICES ASSUME NEW s \in Seq(Ids) PROVE s \in Seq(Nat)
  BY <1>1
<1>2. Len(s) \in Nat /\ s = [i \in 1..Len(s) |-> s[i]] /\ \A i \in 1..Len(s) : s[i] \in Nat
  BY <1>1
<1>3. s \in [1..Len(s) -> Nat]
  BY <1>2
<1> QED
  BY <1>2, <1>3, SeqDef

\* After n levels: the paths found are ways, what is n away has been passed through,
\* nothing is new once a level is empty, and no way as short is before the one found.
LevelTrue(r, seen, n) ==
    /\ seen \in PathMaps /\ r \in DOMAIN seen /\ DOMAIN seen \subseteq Here
    /\ \A u \in DOMAIN seen : /\ Way(r, seen[u]) /\ Last(seen[u]) = u /\ Len(seen[u]) <= n + 1
                              /\ \A i \in 1..Len(seen[u]) : seen[u][i] \in DOMAIN seen
    /\ \A u \in DOMAIN seen : Passes(r, u) /\ Len(seen[u]) <= n => restsOn(u) \cap Here \subseteq DOMAIN seen
    /\ Cardinality(DOMAIN seen) >= n + 1 \/ \A u \in DOMAIN seen : Len(seen[u]) <= n
    /\ \A C : r \in C /\ (\A u \in C : Passes(r, u) => restsOn(u) \cap Here \subseteq C) => DOMAIN seen \subseteq C
    /\ \A p : Way(r, p) /\ Len(p) <= n + 1 =>
                 Last(p) \in DOMAIN seen /\ (p = seen[Last(p)] \/ Shorter(seen[Last(p)], p))

LEMMA WayLength ==
  ASSUME NEW r, NEW p, Way(r, p)
  PROVE  Len(p) \in Nat /\ Len(p) >= 1 /\ p \in Seq(Ids) /\ p \in Seq(Nat) /\ p[1] = r /\ 1 \in 1..Len(p)
<1>1. p \in Seq(Ids) /\ p # <<>> /\ p[1] = r
  BY DEF Way
<1>2. Len(p) \in Nat /\ Len(p) # 0
  BY <1>1
<1> QED
  BY <1>1, <1>2, IdsNat

LEMMA LevelZero ==
  ASSUME ClaimsTyped, NEW r \in Here, NEW seen, seen = [c \in {r} |-> <<r>>], seen \in PathMaps
  PROVE  LevelTrue(r, seen, 0)
<1>1. DOMAIN seen = {r} /\ seen[r] = <<r>> /\ r \in Ids
  BY DEF ClaimsTyped
<1>2. Way(r, <<r>>) /\ Last(<<r>>) = r /\ Len(<<r>>) = 1
  BY <1>1 DEF Way, Last
<1>3. IsFiniteSet({r}) /\ Cardinality({r}) = 1
  BY FS_Singleton
<1>4. ASSUME NEW p, Way(r, p), Len(p) <= 0 + 1 PROVE Last(p) = r /\ p = <<r>>
  <2>1. Len(p) = 1 /\ p \in Seq(Ids) /\ p[1] = r
    BY <1>4, WayLength
  <2> QED
    BY <2>1 DEF Last
<1>5. \A u \in DOMAIN seen : /\ Way(r, seen[u]) /\ Last(seen[u]) = u /\ Len(seen[u]) <= 0 + 1
                              /\ \A i \in 1..Len(seen[u]) : seen[u][i] \in DOMAIN seen
  BY <1>1, <1>2
<1>6. \A u \in DOMAIN seen : ~(Len(seen[u]) <= 0)
  BY <1>1, <1>2
<1> QED
  BY <1>1, <1>2, <1>3, <1>4, <1>5, <1>6 DEF LevelTrue

LEMMA LevelNext ==
  ASSUME ClaimsTyped, NEW r \in Here, NEW n \in 1..MaxId, NEW seen, LevelTrue(r, seen, n - 1),
         NEW w, w = Widen(r, seen, n)
  PROVE  LevelTrue(r, w, n)
<1> DEFINE D == DOMAIN seen
           B == Border(r, seen, n)
           F == Fresh(r, seen, n)
<1>0. n \in Nat /\ n >= 1 /\ (n - 1) + 1 = n /\ r \in Ids /\ Here \subseteq Ids /\ MaxId \in Nat
  BY ReadinessAssumption DEF ClaimsTyped
<1>s. /\ seen \in PathMaps /\ r \in D /\ D \subseteq Here
      /\ \A u \in D : /\ Way(r, seen[u]) /\ Last(seen[u]) = u /\ Len(seen[u]) <= n
                      /\ \A i \in 1..Len(seen[u]) : seen[u][i] \in D
      /\ \A u \in D : Passes(r, u) /\ Len(seen[u]) <= n - 1 => restsOn(u) \cap Here \subseteq D
      /\ Cardinality(D) >= n \/ \A u \in D : Len(seen[u]) <= n - 1
      /\ \A C : r \in C /\ (\A u \in C : Passes(r, u) => restsOn(u) \cap Here \subseteq C) => D \subseteq C
      /\ \A p : Way(r, p) /\ Len(p) <= n => Last(p) \in D /\ (p = seen[Last(p)] \/ Shorter(seen[Last(p)], p))
  BY <1>0 DEF LevelTrue
<1>l. \A u \in D : Len(seen[u]) \in Nat /\ Len(seen[u]) >= 1
  BY <1>s, WayLength
<1>b. /\ B \subseteq D /\ F \cap D = {} /\ F \subseteq Here
      /\ \A u \in D : u \in B <=> Len(seen[u]) = n /\ Passes(r, u)
      /\ \A u \in B : (restsOn(u) \cap Here) \ D \subseteq F
  BY DEF Border, Fresh, Passes
<1>v. /\ Widen(r, seen, n) \in PathMaps
      /\ DOMAIN Widen(r, seen, n) = DOMAIN seen \cup Fresh(r, seen, n)
      /\ \A d \in DOMAIN seen : Widen(r, seen, n)[d] = seen[d]
      /\ \A d \in Fresh(r, seen, n) :
               \E u \in Border(r, seen, n) :
                  /\ d \in restsOn(u) /\ Widen(r, seen, n)[d] = Append(seen[u], d)
                  /\ \A v \in Border(r, seen, n) : d \in restsOn(v) => seen[v] = seen[u] \/ Shorter(seen[u], seen[v])
  <2>1. seen \in PathMaps
    BY <1>s
  <2> HIDE DEF D, B, F
  <2> QED
    BY <2>1, <1>0, WidenStep
<1>w. /\ w \in PathMaps /\ DOMAIN w = D \cup F /\ \A d \in D : w[d] = seen[d]
      /\ \A d \in F : \E u \in B :
            /\ d \in restsOn(u) /\ w[d] = Append(seen[u], d)
            /\ \A v \in B : d \in restsOn(v) => seen[v] = seen[u] \/ Shorter(seen[u], seen[v])
  BY <1>v, Zenon
<1> HIDE DEF D, B, F
<1>1. r \in DOMAIN w /\ DOMAIN w \subseteq Here
  BY <1>s, <1>b, <1>w
<1>f. ASSUME NEW d \in F, NEW u \in B, d \in restsOn(u), w[d] = Append(seen[u], d)
      PROVE  /\ Way(r, w[d]) /\ Last(w[d]) = d /\ Len(w[d]) = n + 1
             /\ \A i \in 1..Len(w[d]) : w[d][i] \in DOMAIN w
  <2>1. u \in D /\ Way(r, seen[u]) /\ Last(seen[u]) = u /\ Len(seen[u]) = n /\ Passes(r, u)
    BY <1>s, <1>b
  <2>2. d \in Here /\ d \in Ids /\ d \notin D
    BY <1>0, <1>b
  <2>3. \A i \in 1..Len(seen[u]) : seen[u][i] # d
    BY <1>s, <2>1, <2>2
  <2>4. Way(r, w[d]) /\ Last(w[d]) = d /\ Len(w[d]) = n + 1
    BY <1>f, <2>1, <2>2, <2>3, WayOn
  <2>5. seen[u] \in Seq(Ids) /\ \A i \in 1..(n + 1) : i = n + 1 \/ i \in 1..n
    BY <2>1, <1>0, WayLength
  <2>6. \A i \in 1..(n + 1) : w[d][i] = IF i = n + 1 THEN d ELSE seen[u][i]
    BY <1>f, <2>1, <2>2, <2>5
  <2>7. \A i \in 1..n : seen[u][i] \in D
    BY <2>1, <1>s
  <2> QED
    BY <2>4, <2>5, <2>6, <2>7, <1>w
<1>2. \A u \in DOMAIN w : /\ Way(r, w[u]) /\ Last(w[u]) = u /\ Len(w[u]) <= n + 1
                          /\ \A i \in 1..Len(w[u]) : w[u][i] \in DOMAIN w
  <2>1. \A u \in F : /\ Way(r, w[u]) /\ Last(w[u]) = u /\ Len(w[u]) = n + 1
                     /\ \A i \in 1..Len(w[u]) : w[u][i] \in DOMAIN w
    BY <1>w, <1>f
  <2>2. \A u \in D : Len(seen[u]) <= n + 1
    BY <1>s, <1>l, <1>0
  <2> QED
    BY <2>1, <2>2, <1>0, <1>s, <1>w
<1>n. \A u \in F : Len(w[u]) = n + 1
  BY <1>w, <1>f
<1>3. ASSUME NEW u \in DOMAIN w, Passes(r, u), Len(w[u]) <= n PROVE restsOn(u) \cap Here \subseteq DOMAIN w
  <2>1. u \in D /\ w[u] = seen[u]
    BY <1>3, <1>w, <1>n, <1>0
  <2>2. CASE Len(seen[u]) = n
    BY <2>1, <2>2, <1>3, <1>b, <1>w
  <2>3. CASE Len(seen[u]) # n
    <3>1. Len(seen[u]) <= n - 1
      BY <2>1, <2>3, <1>3, <1>l, <1>0
    <3> QED
      BY <2>1, <3>1, <1>3, <1>s, <1>w
  <2> QED
    BY <2>2, <2>3
<1>4. Cardinality(DOMAIN w) >= n + 1 \/ \A u \in DOMAIN w : Len(w[u]) <= n
  <2>1. CASE F = {}
    BY <2>1, <1>w, <1>s
  <2>2. CASE F # {}
    <3>1. PICK d \in F : TRUE
      BY <2>2
    <3>2. B # {}
      BY <3>1, <1>w
    <3>3. ~ \A u \in D : Len(seen[u]) <= n - 1
      BY <3>2, <1>b, <1>0
    <3>4. Cardinality(D) >= n
      BY <3>3, <1>s
    <3>5. IsFiniteSet(DOMAIN w) /\ IsFiniteSet(D)
      BY <1>0, <1>1, <1>s, IdsFinite, FS_Subset
    <3>6. Cardinality(D \cup {d}) = Cardinality(D) + 1
      BY <3>1, <3>5, <1>b, FS_AddElement
    <3>7. Cardinality(D \cup {d}) <= Cardinality(DOMAIN w)
      BY <3>1, <3>5, <1>w, FS_Subset
    <3>8. Cardinality(DOMAIN w) \in Nat /\ Cardinality(D) \in Nat
      BY <3>5, FS_CardinalityType
    <3> QED
      BY <3>4, <3>6, <3>7, <3>8, <1>0
  <2> QED
    BY <2>1, <2>2
<1>5. ASSUME NEW C, r \in C, \A u \in C : Passes(r, u) => restsOn(u) \cap Here \subseteq C
      PROVE  DOMAIN w \subseteq C
  <2>1. D \subseteq C
    BY <1>5, <1>s
  <2>2. \A d \in F : \E u \in B : d \in restsOn(u)
    BY <1>w
  <2> QED
    BY <2>1, <2>2, <1>5, <1>b, <1>w
<1>6. ASSUME NEW p, Way(r, p), Len(p) <= n + 1
      PROVE  Last(p) \in DOMAIN w /\ (p = w[Last(p)] \/ Shorter(w[Last(p)], p))
  <2>0. Len(p) \in Nat /\ Len(p) >= 1 /\ p \in Seq(Nat)
    BY <1>6, WayLength
  <2>1. CASE Len(p) <= n
    BY <2>1, <1>6, <1>s, <1>w
  <2>2. CASE Len(p) = n + 1
    <3>1. PICK q : /\ Way(r, q) /\ Passes(r, Last(q)) /\ p = Append(q, Last(p)) /\ Len(p) = Len(q) + 1
                   /\ Last(p) \in restsOn(Last(q)) /\ Last(p) \in Here /\ Last(p) \in Ids
                   /\ \A i \in 1..Len(q) : q[i] # Last(p)
      <4>1. Len(p) # 1
        BY <2>2, <1>0
      <4> QED
        BY <4>1, <1>6, WayBack
    <3>2. Len(q) = n /\ q \in Seq(Nat)
      BY <3>1, <2>2, <1>0, WayLength
    <3>3. Last(q) \in D /\ (q = seen[Last(q)] \/ Shorter(seen[Last(q)], q))
      BY <3>1, <3>2, <1>0, <1>s
    <3>4. CASE Last(p) \in D
      <4>1. w[Last(p)] = seen[Last(p)] /\ Len(seen[Last(p)]) < Len(p)
        BY <3>4, <2>2, <1>w, <1>s, <1>l, <1>0
      <4> QED
        BY <4>1, <3>4, <1>w DEF Shorter
    <3>5. CASE Last(p) \notin D
      <4>1. Last(q) \in B
        <5>1. ~(Len(seen[Last(q)]) <= n - 1)
          BY <3>1, <3>3, <3>5, <1>s
        <5>2. Len(seen[Last(q)]) = n
          BY <5>1, <3>3, <1>s, <1>l, <1>0
        <5> QED
          BY <5>2, <3>1, <3>3, <1>b
      <4>2. Last(p) \in F
        BY <4>1, <3>1, <3>5, <1>b
      <4>3. PICK u \in B : /\ w[Last(p)] = Append(seen[u], Last(p))
                           /\ seen[Last(q)] = seen[u] \/ Shorter(seen[u], seen[Last(q)])
        BY <4>1, <4>2, <3>1, <1>w
      <4>4. /\ seen[u] \in Seq(Nat) /\ seen[Last(q)] \in Seq(Nat)
            /\ Len(seen[u]) = n /\ Len(seen[Last(q)]) = n
        BY <4>1, <1>b, <1>s, WayLength
      <4>5. q = seen[u] \/ Shorter(seen[u], q)
        BY <4>3, <4>4, <3>2, <3>3, ShorterTransitive
      <4>6. Last(p) \in Nat
        BY <3>1, IdsNat
      <4>7. p = w[Last(p)] \/ Shorter(w[Last(p)], p)
        BY <4>3, <4>4, <4>5, <4>6, <3>1, <3>2, ShorterAppend
      <4> QED
        BY <4>2, <4>7, <1>w
    <3> QED
      BY <3>4, <3>5
  <2> QED
    BY <2>0, <2>1, <2>2, <1>6, <1>0
<1> QED
  BY <1>w, <1>1, <1>2, <1>3, <1>4, <1>5, <1>6 DEF LevelTrue

\* A way is no longer than there are ids.
LEMMA WayShort ==
  ASSUME NEW r, NEW p, Way(r, p)
  PROVE  Len(p) <= MaxId
<1>0. MaxId \in Nat /\ Len(p) \in Nat /\ p \in Seq(Ids)
  BY WayLength, ReadinessAssumption
<1> SUFFICES ASSUME MaxId < Len(p) PROVE FALSE
  BY <1>0
<1>1. IsFiniteSet(1..Len(p)) /\ Cardinality(1..Len(p)) = Len(p)
  BY <1>0, FS_Interval
<1>2. p \in [1..Len(p) -> Ids]
  BY <1>0
<1>3. \E x, y \in 1..Len(p) : x # y /\ p[x] = p[y]
  BY <1>1, <1>2, IdsFinite, FS_PigeonHole
<1> QED
  BY <1>3 DEF Way

\* The search finds every claim r stands on, by the first of the shortest ways to it.
LEMMA LevelsAre ==
  ASSUME ClaimsTyped, NEW r \in Here
  PROVE  /\ Levels(r) \in PathMaps /\ r \in Below(r) /\ DOMAIN Levels(r) = Below(r) /\ Below(r) \subseteq Here
         /\ \A u \in Below(r) : /\ Way(r, Levels(r)[u]) /\ Last(Levels(r)[u]) = u
                                /\ \A i \in 1..Len(Levels(r)[u]) : Levels(r)[u][i] \in Below(r)
         /\ \A p : Way(r, p) => Last(p) \in Below(r) /\ (p = Levels(r)[Last(p)] \/ Shorter(Levels(r)[Last(p)], p))
<1>0. r \in Ids /\ Here \subseteq Ids /\ MaxId \in Nat /\ MaxId >= 1 /\ MaxId \in 0..MaxId /\ 0 \in 0..MaxId
  BY ReadinessAssumption DEF ClaimsTyped
<1>1. PICK f : Search(r, f) /\ Levels(r) = f[MaxId]
  BY <1>0, LevelsSearch
<1>2. /\ \A n \in 0..MaxId : f[n] \in PathMaps
      /\ f[0] = [c \in {r} |-> <<r>>]
      /\ \A n \in 1..MaxId : f[n] = Widen(r, f[n-1], n)
  BY <1>1 DEF Search
<1> DEFINE Bad == {n \in 0..MaxId : ~LevelTrue(r, f[n], n)}
<1>3. LevelTrue(r, f[0], 0)
  BY <1>0, <1>2, LevelZero
<1>4. ASSUME NEW n \in 1..MaxId, LevelTrue(r, f[n-1], n - 1) PROVE LevelTrue(r, f[n], n)
  <2>1. f[n] = Widen(r, f[n-1], n)
    BY <1>2
  <2>2. PICK s : s = f[n-1]
    OBVIOUS
  <2>3. PICK w : w = f[n]
    OBVIOUS
  <2>4. LevelTrue(r, s, n - 1) /\ w = Widen(r, s, n)
    BY <1>4, <2>1, <2>2, <2>3
  <2>5. LevelTrue(r, w, n)
    BY <2>4, LevelNext
  <2> QED
    BY <2>3, <2>5
<1>5. Bad = {}
  <2> SUFFICES ASSUME Bad # {} PROVE FALSE
    OBVIOUS
  <2>1. Bad \subseteq Nat /\ \A n \in Bad : n \in 0..MaxId /\ ~LevelTrue(r, f[n], n)
    OBVIOUS
  <2>2. \A n \in 0..MaxId : n \notin Bad => LevelTrue(r, f[n], n)
    OBVIOUS
  <2> HIDE DEF Bad
  <2>3. PICK m \in Bad : \A k \in Bad : m <= k
    BY <2>1, LeastNat
  <2>4. m \in 0..MaxId /\ m # 0 /\ ~LevelTrue(r, f[m], m)
    BY <1>3, <2>1
  <2>5. m \in 1..MaxId /\ m - 1 \in 0..MaxId /\ ~(m <= m - 1)
    BY <2>4, <1>0
  <2>6. m - 1 \notin Bad
    BY <2>3, <2>5
  <2> QED
    BY <1>4, <2>2, <2>4, <2>5, <2>6
<1>6. LevelTrue(r, f[MaxId], MaxId)
  <2>1. MaxId \notin Bad
    <3> HIDE DEF Bad
    <3> QED
      BY <1>5
  <2> QED
    BY <2>1, <1>0
<1>7. PICK L : L = f[MaxId]
  OBVIOUS
<1>8. /\ L \in PathMaps /\ r \in DOMAIN L /\ DOMAIN L \subseteq Here
      /\ \A u \in DOMAIN L : /\ Way(r, L[u]) /\ Last(L[u]) = u
                             /\ \A i \in 1..Len(L[u]) : L[u][i] \in DOMAIN L
      /\ \A u \in DOMAIN L : Passes(r, u) /\ Len(L[u]) <= MaxId => restsOn(u) \cap Here \subseteq DOMAIN L
      /\ \A C : r \in C /\ (\A u \in C : Passes(r, u) => restsOn(u) \cap Here \subseteq C) => DOMAIN L \subseteq C
      /\ \A p : Way(r, p) /\ Len(p) <= MaxId + 1 => Last(p) \in DOMAIN L /\ (p = L[Last(p)] \/ Shorter(L[Last(p)], p))
  BY <1>6, <1>7 DEF LevelTrue
<1>9. \A u \in DOMAIN L : Passes(r, u) => restsOn(u) \cap Here \subseteq DOMAIN L
  BY <1>8, WayShort
<1>10. /\ r \in Below(r)
       /\ \A u \in Below(r) \cap (Eligible \cup {r}) : restsOn(u) \cap Here \subseteq Below(r)
       /\ \A C : r \in C /\ (\A u \in C \cap (Eligible \cup {r}) : restsOn(u) \cap Here \subseteq C) => Below(r) \subseteq C
  BY <1>0, BelowCloses
<1>11. \A u : Passes(r, u) <=> u \in Eligible \cup {r}
  BY DEF Passes
<1>12. DOMAIN L = Below(r)
  <2>1. DOMAIN L \subseteq Below(r)
    BY <1>8, <1>10, <1>11
  <2>2. Below(r) \subseteq DOMAIN L
    BY <1>8, <1>9, <1>10, <1>11
  <2> QED
    BY <2>1, <2>2
<1>13. \A p : Way(r, p) => Len(p) <= MaxId + 1
  BY <1>0, WayShort, WayLength
<1>14. Levels(r) = L
  BY <1>1, <1>7
<1> QED
  BY <1>8, <1>10, <1>12, <1>13, <1>14

\* There is nothing wrong with a claim itself when its own standing is sound.
LEMMA NoCauses ==
  ASSUME NEW u
  PROVE  localCauses(u) = {} <=>
            /\ ~(Locked(u) /\ approvalState(u) # "") /\ ~claims[u].open /\ u \notin flags
            /\ ~EditedSinceApproval(u)
            /\ \A d \in restsOn(u) \cap Eligible :
                  ~(Locked(u) /\ base[u][d] # None /\ base[u][d] # claims[d].text)
<1> DEFINE K == {k \in {approvalState(u)} : Locked(u) /\ k # ""}
                \cup {k \in {"own_thread"} : claims[u].open}
                \cup {k \in {"own_flag"} : u \in flags}
                \cup {k \in {"unapproved_edit"} : EditedSinceApproval(u)}
           D == {d \in restsOn(u) \cap Eligible :
                       Locked(u) /\ base[u][d] # None /\ base[u][d] # claims[d].text}
<1>1. localCauses(u) = {} <=> K = {} /\ D = {}
  BY DEF localCauses
<1>2. K = {} <=> /\ ~(Locked(u) /\ approvalState(u) # "") /\ ~claims[u].open /\ u \notin flags
                 /\ ~EditedSinceApproval(u)
  OBVIOUS
<1>3. D = {} <=> \A d \in restsOn(u) \cap Eligible :
                  ~(Locked(u) /\ base[u][d] # None /\ base[u][d] # claims[d].text)
  OBVIOUS
<1> HIDE DEF K, D
<1> QED
  BY <1>1, <1>2, <1>3

LEMMA NoConditions ==
  ASSUME NEW u
  PROVE  /\ (\A d \in restsOn(u) : d \in Here /\ d \in Eligible /\ base[u][d] # None) => localConditions(u) = {}
         /\ Locked(u) /\ (\A c \in localConditions(u) : c.kind # "unknown_historical_baseline")
               => \A d \in restsOn(u) \cap Eligible : base[u][d] # None
<1>1. ASSUME \A d \in restsOn(u) : d \in Here /\ d \in Eligible /\ base[u][d] # None
      PROVE  localConditions(u) = {}
  BY <1>1 DEF localConditions
<1>2. ASSUME Locked(u), \A c \in localConditions(u) : c.kind # "unknown_historical_baseline",
             NEW d \in restsOn(u) \cap Eligible, base[u][d] = None
      PROVE  FALSE
  <2>1. PICK c : c = [kind |-> "unknown_historical_baseline", dep |-> d, path |-> <<u, d>>]
    OBVIOUS
  <2>2. c \in {[kind |-> "unknown_historical_baseline", dep |-> x, path |-> <<u, x>>] :
                  x \in {x \in restsOn(u) \cap Eligible : base[u][x] = None}}
    BY <1>2, <2>1
  <2>3. c \in localConditions(u)
    BY <1>2, <2>2 DEF localConditions
  <2> QED
    BY <1>2, <2>1, <2>3
<1> QED
  BY <1>1, <1>2

LEMMA NoReached ==
  ASSUME NEW r, NEW paths
  PROVE  reachedConditions(r, paths) = {} <=>
            \A u \in DOMAIN paths \ {r} :
               u \in Eligible /\ LocalApproved(u)
               /\ \A c \in localConditions(u) : c.kind # "unknown_historical_baseline"
<1> DEFINE Of1(u) == IF u \notin Eligible THEN {[kind |-> dependencyState(u), dep |-> u, path |-> paths[u]]}
           ELSE {[kind |-> "dependency_unapproved", dep |-> u, path |-> paths[u]] : x \in {x \in {1} : ~LocalApproved(u)}}
                \cup {[c EXCEPT !.path = Inherit(paths[u], c.path)] :
                         c \in {c \in localConditions(u) : c.kind = "unknown_historical_baseline"}}
<1>1. reachedConditions(r, paths) = UNION {Of1(u) : u \in DOMAIN paths \ {r}}
  BY DEF reachedConditions
<1>2. ASSUME NEW u
      PROVE  Of1(u) = {} <=> u \in Eligible /\ LocalApproved(u)
                             /\ \A c \in localConditions(u) : c.kind # "unknown_historical_baseline"
  <2>1. CASE u \notin Eligible
    BY <2>1
  <2>2. CASE u \in Eligible
    <3> DEFINE X == {x \in {1} : ~LocalApproved(u)}
               Y == {c \in localConditions(u) : c.kind = "unknown_historical_baseline"}
    <3>1. Of1(u) = {} <=> X = {} /\ Y = {}
      BY <2>2
    <3>2. X = {} <=> LocalApproved(u)
      OBVIOUS
    <3>3. Y = {} <=> \A c \in localConditions(u) : c.kind # "unknown_historical_baseline"
      OBVIOUS
    <3> HIDE DEF X, Y, Of1
    <3> QED
      BY <2>2, <3>1, <3>2, <3>3
  <2> QED
    BY <2>1, <2>2
<1> HIDE DEF Of1
<1>3. UNION {Of1(u) : u \in DOMAIN paths \ {r}} = {} <=> \A u \in DOMAIN paths \ {r} : Of1(u) = {}
  OBVIOUS
<1> QED
  BY <1>1, <1>2, <1>3

LEMMA ConditionsEmpty ==
  ASSUME NEW r, NEW paths, paths = Levels(r)
  PROVE  Conditions(r) = {} <=>
            /\ localConditions(r) = {} /\ reachedConditions(r, paths) = {}
            /\ invalidRootPath(r, paths) = {} /\ bestMissing(r, paths) = {}
            /\ \A S \in findSCCs : S \cap DOMAIN paths = {}
<1> DEFINE Z == {S \in findSCCs : S \cap DOMAIN paths # {}}
           W == {Witness(r, paths, S) : S \in Z}
           A == {[kind |-> dependencyState(r), dep |-> r, path |-> p] : p \in invalidRootPath(r, paths)}
           M == {[kind |-> "missing_dependency", dep |-> Last(p), path |-> p] : p \in bestMissing(r, paths)}
           Y == {[kind |-> "dependency_cycle", dep |-> Last(w), path |-> w] : w \in W}
<1>1. Conditions(r) = localConditions(r) \cup reachedConditions(r, paths) \cup A \cup M \cup Y
  BY DEF Conditions
<1>2. (A = {} <=> invalidRootPath(r, paths) = {}) /\ (M = {} <=> bestMissing(r, paths) = {}) /\ (Y = {} <=> W = {}) /\ (W = {} <=> Z = {})
  OBVIOUS
<1>3. Z = {} <=> \A S \in findSCCs : S \cap DOMAIN paths = {}
  OBVIOUS
<1> HIDE DEF A, M, Y, W, Z
<1> QED
  BY <1>1, <1>2, <1>3

LEMMA CausesEmpty ==
  ASSUME NEW r, NEW paths, paths = Levels(r)
  PROVE  Causes(r) = {} <=>
            /\ localCauses(r) = {}
            /\ \A u \in (DOMAIN paths \cap Eligible) \ {r} : localCauses(u) = {}
<1> DEFINE Up(u) == {[c EXCEPT !.path = Inherit(paths[u], c.path)] : c \in localCauses(u)}
<1>1. Causes(r) = localCauses(r) \cup UNION {Up(u) : u \in (DOMAIN paths \cap Eligible) \ {r}}
  BY DEF Causes
<1>2. \A u : Up(u) = {} <=> localCauses(u) = {}
  OBVIOUS
<1> HIDE DEF Up
<1>3. UNION {Up(u) : u \in (DOMAIN paths \cap Eligible) \ {r}} = {} <=> \A u \in (DOMAIN paths \cap Eligible) \ {r} : Up(u) = {}
  OBVIOUS
<1> QED
  BY <1>1, <1>2, <1>3

\* The components found are made of claims that each stand on themselves.
LEMMA CycleIsBelow ==
  ASSUME ClaimsTyped, NEW S \in findSCCs, NEW v \in S
  PROVE  v \in Here /\ \E d \in restsOn(v) \cap Here : v \in Below(d)
<1>0. Eligible \subseteq Here /\ Here \subseteq Ids
  BY DEF Eligible, ClaimsTyped
<1>1. PICK w \in Eligible : w \in Reach(w) /\ S = {x \in Reach(w) : w \in Reach(x)}
  BY DEF findSCCs
<1>2. v \in Reach(w) /\ w \in Reach(v) /\ v \in Here /\ w \in Here
  BY <1>0, <1>1, ReachCloses
<1>3. v \in Reach(v)
  <2>1. Reach(v) \subseteq Eligible /\ \A x \in Reach(v) : restsOn(x) \cap Eligible \subseteq Reach(v)
    BY <1>2, ReachCloses
  <2>2. restsOn(w) \cap Eligible \subseteq Reach(v) /\ \A x \in Reach(v) \cap Eligible : restsOn(x) \cap Eligible \subseteq Reach(v)
    BY <2>1, <1>2
  <2>3. Reach(w) \subseteq Reach(v)
    BY <2>2, <1>2, ReachCloses
  <2> QED
    BY <2>3, <1>2
<1> DEFINE C == UNION {Below(d) : d \in restsOn(v) \cap Here}
<1>4. \A d \in Here : d \in Below(d) /\ \A x \in Below(d) \cap Eligible : restsOn(x) \cap Here \subseteq Below(d)
  BY <1>0, BelowCloses
<1>5. restsOn(v) \cap Eligible \subseteq C
  BY <1>0, <1>4
<1>6. \A x \in C \cap Eligible : restsOn(x) \cap Eligible \subseteq C
  <2> SUFFICES ASSUME NEW d \in restsOn(v) \cap Here, NEW x \in Below(d) \cap Eligible
               PROVE  restsOn(x) \cap Eligible \subseteq Below(d)
    OBVIOUS
  <2> QED
    BY <1>0, <1>4
<1>7. Reach(v) \subseteq C
  <2> HIDE DEF C
  <2> QED
    BY <1>2, <1>5, <1>6, ReachCloses
<1> QED
  BY <1>2, <1>3, <1>7

LEMMA ApprovedIsLocked ==
  ASSUME NEW u
  PROVE  LocalApproved(u) <=> /\ claims[u].status = "locked" /\ approvalState(u) = ""
  BY DEF LocalApproved, approvalState

LEMMA LockedEligible ==
  ASSUME NEW u \in Here, claims[u].status = "locked"
  PROVE  u \in Eligible /\ Locked(u) /\ ~EditedSinceApproval(u)
  BY DEF Eligible, dependencyState, Locked, EditedSinceApproval

\* What is reported ready is sound all the way down.
LEMMA ReadyIsSound ==
  ASSUME ClaimsTyped, NEW r \in Here, LocalApproved(r), Conditions(r) = {}, Causes(r) = {}, NEW u \in Below(r)
  PROVE  Sound(u) /\ \A d \in restsOn(u) : u \notin Below(d)
<1>p. PICK paths : paths = Levels(r)
  OBVIOUS
<1> DEFINE D == Below(r)
<1>0. Eligible \subseteq Here /\ Here \subseteq Ids /\ r \in Eligible /\ Locked(r) /\ r \in Ids
  BY ApprovedIsLocked, LockedEligible DEF Eligible, ClaimsTyped
<1>1. DOMAIN paths = D /\ D \subseteq Here /\ r \in D
  BY <1>p, LevelsAre
<1>2. /\ localConditions(r) = {} /\ reachedConditions(r, paths) = {} /\ bestMissing(r, paths) = {}
      /\ \A S \in findSCCs : S \cap D = {}
  BY <1>p, <1>1, ConditionsEmpty
<1>3. localCauses(r) = {} /\ \A x \in (D \cap Eligible) \ {r} : localCauses(x) = {}
  BY <1>p, <1>1, CausesEmpty
<1>4. \A x \in D \ {r} : /\ x \in Eligible /\ LocalApproved(x)
                         /\ \A c \in localConditions(x) : c.kind # "unknown_historical_baseline"
  BY <1>1, <1>2, NoReached
<1>5. \A x \in D : /\ x \in Eligible /\ LocalApproved(x) /\ Locked(x)
                   /\ \A c \in localConditions(x) : c.kind # "unknown_historical_baseline"
                   /\ localCauses(x) = {}
  BY <1>0, <1>1, <1>2, <1>3, <1>4, ApprovedIsLocked, LockedEligible
<1>6. \A x \in D : restsOn(x) \subseteq Here
  <2> SUFFICES ASSUME NEW x \in D, NEW m \in restsOn(x), m \notin Here PROVE FALSE
    OBVIOUS
  <2>1. x \in Expanded(r, paths)
    BY <1>1, <1>5 DEF Expanded
  <2>2. m \in (UNION {restsOn(y) : y \in Expanded(r, paths)}) \ Here
    BY <2>1
  <2>3. bestMissing(r, paths) # {}
    BY <2>2 DEF bestMissing
  <2> QED
    BY <2>3, <1>2
<1>7. \A x \in D : restsOn(x) \subseteq D
  BY <1>0, <1>1, <1>5, <1>6, BelowCloses
<1>8. Sound(u)
  <2>1. u \in Eligible /\ LocalApproved(u) /\ Locked(u) /\ localCauses(u) = {} /\ restsOn(u) \subseteq Here
    BY <1>5, <1>6
  <2>2. ~claims[u].open /\ u \notin flags
    BY <2>1, NoCauses
  <2>3. ASSUME NEW d \in restsOn(u) PROVE base[u][d] = claims[d].text
    <3>1. d \in restsOn(u) \cap Eligible
      BY <1>5, <1>7
    <3>2. base[u][d] # None
      BY <3>1, <2>1, <1>5, NoConditions
    <3> QED
      BY <3>1, <3>2, <2>1, NoCauses
  <2> QED
    BY <2>1, <2>2, <2>3 DEF Sound
<1>9. ASSUME NEW d \in restsOn(u), u \in Below(d) PROVE FALSE
  <2>1. u \in Here /\ u \in Eligible /\ d \in D /\ d \in Eligible /\ d \in Ids
    BY <1>0, <1>1, <1>5, <1>7
  <2> DEFINE C == Reach(u) \cap D
  <2>2. d \in C /\ \A x \in C : restsOn(x) \cap Here \subseteq C
    <3>1. restsOn(u) \cap Eligible \subseteq Reach(u) /\ \A x \in Reach(u) : restsOn(x) \cap Eligible \subseteq Reach(u)
      BY <2>1, ReachCloses
    <3> QED
      BY <3>1, <2>1, <1>5, <1>7
  <2>3. Below(d) \subseteq C
    <3> HIDE DEF C
    <3> QED
      BY <2>1, <2>2, BelowCloses
  <2>4. u \in Reach(u)
    BY <2>3, <1>9
  <2>5. PICK S : S = {v \in Reach(u) : u \in Reach(v)}
    OBVIOUS
  <2>6. S \in findSCCs /\ u \in S
    BY <2>1, <2>4, <2>5 DEF findSCCs
  <2> QED
    BY <2>6, <1>2
<1> QED
  BY <1>8, <1>9

\* What is sound all the way down is reported ready.
LEMMA SoundIsReady ==
  ASSUME ClaimsTyped, NEW r \in Here, \A u \in Below(r) : Sound(u) /\ \A d \in restsOn(u) : u \notin Below(d)
  PROVE  LocalApproved(r) /\ Conditions(r) = {} /\ Causes(r) = {}
<1>p. PICK paths : paths = Levels(r)
  OBVIOUS
<1> DEFINE D == Below(r)
<1>0. Eligible \subseteq Here /\ Here \subseteq Ids /\ r \in Ids
  BY DEF Eligible, ClaimsTyped
<1>1. DOMAIN paths = D /\ D \subseteq Here /\ r \in D
  BY <1>p, LevelsAre
<1>2. \A u \in D : Sound(u) /\ Locked(u) /\ ~EditedSinceApproval(u) /\ LocalApproved(u) /\ u \in Eligible
  BY <1>1, ApprovedIsLocked, LockedEligible DEF Sound
<1>3. \A u \in D : restsOn(u) \subseteq D
  <2>1. \A u \in D \cap (Eligible \cup {r}) : restsOn(u) \cap Here \subseteq D
    BY <1>0, BelowCloses
  <2> QED
    BY <2>1, <1>2 DEF Sound
<1>4. ASSUME NEW u \in D PROVE localCauses(u) = {}
  <2>1. Sound(u) /\ Locked(u) /\ ~EditedSinceApproval(u) /\ approvalState(u) = ""
    BY <1>2, ApprovedIsLocked
  <2>2. \A d \in restsOn(u) \cap Eligible : base[u][d] = claims[d].text
    BY <2>1 DEF Sound
  <2>3. ~claims[u].open /\ u \notin flags
    BY <2>1 DEF Sound
  <2> QED
    BY <2>1, <2>2, <2>3, NoCauses
<1>5. ASSUME NEW u \in D PROVE localConditions(u) = {}
  <2>1. ASSUME NEW d \in restsOn(u) PROVE d \in Here /\ d \in Eligible /\ base[u][d] # None
    <3>1. d \in D /\ d \in Here /\ d \in Eligible
      BY <1>1, <1>2, <1>3
    <3>2. base[u][d] = claims[d].text
      BY <1>2 DEF Sound
    <3>3. claims[d].text \in Texts
      BY <3>1, RestsTyped
    <3> QED
      BY <3>1, <3>2, <3>3, ReadinessAssumption
  <2> QED
    BY <2>1, NoConditions
<1>6. reachedConditions(r, paths) = {}
  BY <1>1, <1>2, <1>5, NoReached
<1>7. invalidRootPath(r, paths) = {}
  <2>1. r \in Eligible
    BY <1>1, <1>2
  <2> QED
    BY <2>1 DEF invalidRootPath
<1>8. bestMissing(r, paths) = {}
  <2>1. Expanded(r, paths) \subseteq D
    BY <1>1 DEF Expanded
  <2>2. \A u \in Expanded(r, paths) : restsOn(u) \subseteq Here
    BY <2>1, <1>1, <1>3
  <2>3. (UNION {restsOn(u) : u \in Expanded(r, paths)}) \ Here = {}
    BY <2>2
  <2> QED
    BY <2>3 DEF bestMissing
<1>9. \A S \in findSCCs : S \cap DOMAIN paths = {}
  <2> SUFFICES ASSUME NEW S \in findSCCs, NEW v \in S, v \in D PROVE FALSE
    BY <1>1
  <2>1. \E d \in restsOn(v) \cap Here : v \in Below(d)
    BY CycleIsBelow
  <2> QED
    BY <2>1
<1> HIDE DEF D
<1>10. Conditions(r) = {}
  BY <1>p, <1>1, <1>5, <1>6, <1>7, <1>8, <1>9, ConditionsEmpty
<1>11. Causes(r) = {}
  BY <1>p, <1>1, <1>4, CausesEmpty
<1> QED
  BY <1>1, <1>2, <1>10, <1>11

LEMMA AssessedSoundly ==
  ASSUME ClaimsTyped
  PROVE  ReadyMeansSound(Assessments)
<1>1. SUFFICES ASSUME NEW a \in Assessments
               PROVE  Ready(a) <=> \A u \in Below(a.claim) : Sound(u) /\ \A d \in restsOn(u) : u \notin Below(d)
  BY DEF ReadyMeansSound
<1>2. PICK r \in Here : a = [claim |-> r, conditions |-> Conditions(r), causes |-> Causes(r)]
  BY DEF Assessments
<1>3. Ready(a) <=> LocalApproved(r) /\ Conditions(r) = {} /\ Causes(r) = {}
  BY <1>2 DEF Ready
<1>4. a.claim = r
  BY <1>2
<1> QED
  BY <1>3, <1>4, ReadyIsSound, SoundIsReady

\* A round of the reference: the ways of n - 1 claims, each taken one claim on.
Extended(r, seen, n) ==
    {p \in seen : Len(p) = n - 1 /\ (n = 2 \/ Last(p) \in Eligible)}

Longer(r, seen, n) ==
    seen \cup UNION {{Append(p, d) : d \in (restsOn(Last(p)) \cap Here) \ ToSet(p)} : p \in Extended(r, seen, n)}

WaysUpTo(r, n) == {p \in Seq(Ids) : Way(r, p) /\ Len(p) <= n}

LEMMA WaysNext ==
  ASSUME ClaimsTyped, NEW r \in Here, NEW n \in Nat, n >= 2, NEW x, x = WaysUpTo(r, n - 1)
  PROVE  Longer(r, x, n) = WaysUpTo(r, n)
<1>0. r \in Ids /\ Here \subseteq Ids /\ n - 1 \in Nat /\ n - 1 >= 1
  BY DEF ClaimsTyped
<1>w. \A p : p \in WaysUpTo(r, n) <=> Way(r, p) /\ Len(p) <= n
  BY WayLength DEF WaysUpTo
<1>x. \A p : p \in x <=> Way(r, p) /\ Len(p) <= n - 1
  BY WayLength DEF WaysUpTo
<1>1. ASSUME NEW p, Way(r, p), Len(p) = n - 1
      PROVE  (n = 2 \/ Last(p) \in Eligible) <=> Passes(r, Last(p))
  <2>1. Len(p) \in Nat /\ p[1] = r /\ Last(p) = p[Len(p)] /\ 1 \in 1..Len(p) /\ Len(p) \in 1..Len(p)
    BY <1>1, WayLength DEF Last
  <2>2. Last(p) = r <=> Len(p) = 1
    BY <1>1, <2>1 DEF Way
  <2>3. n = 2 <=> Len(p) = 1
    BY <1>1, <1>0
  <2> QED
    BY <2>2, <2>3 DEF Passes
<1>2. ASSUME NEW q \in Longer(r, x, n) PROVE Way(r, q) /\ Len(q) <= n
  <2>1. CASE q \in x
    BY <2>1, <1>x, <1>0, WayLength
  <2>2. CASE q \notin x
    <3>1. PICK p \in Extended(r, x, n) : \E d \in (restsOn(Last(p)) \cap Here) \ ToSet(p) : q = Append(p, d)
      BY <2>2 DEF Longer
    <3>2. PICK d \in (restsOn(Last(p)) \cap Here) \ ToSet(p) : q = Append(p, d)
      BY <3>1
    <3>3. Way(r, p) /\ Len(p) = n - 1 /\ Passes(r, Last(p)) /\ p \in Seq(Ids)
      BY <1>x, <1>1, WayLength DEF Extended
    <3>4. \A i \in 1..Len(p) : p[i] # d
      BY <3>3 DEF ToSet
    <3>5. d \in Ids
      BY <1>0
    <3>6. Way(r, q) /\ Len(q) = Len(p) + 1
      BY <3>2, <3>3, <3>4, <3>5, WayOn
    <3> QED
      BY <3>3, <3>6, <1>0
  <2> QED
    BY <2>1, <2>2
<1>3. ASSUME NEW q, Way(r, q), Len(q) <= n PROVE q \in Longer(r, x, n)
  <2>0. Len(q) \in Nat /\ Len(q) >= 1
    BY <1>3, WayLength
  <2>1. CASE Len(q) <= n - 1
    BY <2>1, <1>3, <1>x DEF Longer
  <2>2. CASE Len(q) = n
    <3>1. PICK p : /\ Way(r, p) /\ Passes(r, Last(p)) /\ q = Append(p, Last(q)) /\ Len(q) = Len(p) + 1
                   /\ Last(q) \in restsOn(Last(p)) /\ Last(q) \in Here
                   /\ \A i \in 1..Len(p) : p[i] # Last(q)
      <4>1. Len(q) # 1
        BY <2>2, <1>0
      <4> QED
        BY <4>1, <1>3, WayBack
    <3>2. Len(p) = n - 1 /\ p \in Seq(Ids)
      BY <3>1, <2>2, <1>0, WayLength
    <3>3. p \in Extended(r, x, n)
      BY <3>1, <3>2, <1>x, <1>1, <1>0 DEF Extended
    <3>4. Last(q) \in (restsOn(Last(p)) \cap Here) \ ToSet(p)
      BY <3>1, <3>2 DEF ToSet
    <3>5. q \in {Append(p, d) : d \in (restsOn(Last(p)) \cap Here) \ ToSet(p)}
      BY <3>1, <3>4
    <3> QED
      BY <3>3, <3>5 DEF Longer
  <2> QED
    BY <2>0, <2>1, <2>2, <1>3, <1>0
<1> QED
  BY <1>2, <1>3, <1>w

LEMMA WaysAre ==
  ASSUME ClaimsTyped, NEW r \in Here
  PROVE  \A p : p \in Ways(r) <=> Way(r, p)
<1>0. r \in Ids /\ MaxId \in Nat /\ 1 <= MaxId /\ 1 \in Nat /\ MaxId \in 1..MaxId
  BY ReadinessAssumption DEF ClaimsTyped
<1>s. PICK S : S = SUBSET Seq(Ids)
  OBVIOUS
<1>a. PICK A : A = {<<r>>}
  OBVIOUS
<1>b. PICK b : b = [n \in 1..MaxId |-> [x \in S |-> Longer(r, x, n)]]
  OBVIOUS
<1> DEFINE Was(f) == f = [n \in 1..MaxId |->
          IF n = 1 THEN {<<r>>}
          ELSE LET seen == f[n-1]
                   open == {p \in seen : Len(p) = n - 1 /\ (n = 2 \/ Last(p) \in Eligible)}
               IN seen \cup UNION {{Append(p, d) : d \in (restsOn(Last(p)) \cap Here) \ ToSet(p)} : p \in open}]
           Is(f) == f = [n \in 1..MaxId |-> IF n = 1 THEN A ELSE Longer(r, f[n-1], n)]
<1>w. \A f : Was(f) <=> Is(f)
  BY <1>a DEF Longer, Extended
<1>f. PICK f : f = CHOOSE h : Was(h)
  OBVIOUS
<1>m. \A n \in 1..MaxId : n # 1 => n \in (1 + 1)..MaxId /\ n - 1 \in 1..MaxId /\ n \in Nat /\ n >= 2
  BY <1>0
<1>1. A \in S /\ b \in Rounds(S, 1, MaxId)
  <2>1. ASSUME NEW x \in S, NEW n PROVE Longer(r, x, n) \in S
    <3> SUFFICES ASSUME NEW q \in Longer(r, x, n) PROVE q \in Seq(Ids)
      BY <1>s
    <3>1. CASE q \in x
      BY <3>1, <1>s
    <3>2. CASE q \notin x
      <4>1. PICK p \in Extended(r, x, n) : \E d \in (restsOn(Last(p)) \cap Here) \ ToSet(p) : q = Append(p, d)
        BY <3>2 DEF Longer
      <4>2. PICK d \in Here : q = Append(p, d)
        BY <4>1
      <4>3. p \in Seq(Ids) /\ d \in Ids
        BY <1>s DEF Extended, ClaimsTyped
      <4> QED
        BY <4>2, <4>3
    <3> QED
      BY <3>1, <3>2
  <2>2. A \in S
    BY <1>0, <1>a, <1>s
  <2>3. b \in [1..MaxId -> [S -> S]]
    BY <2>1, <1>b
  <2> QED
    BY <2>2, <2>3 DEF Rounds
<1>3. PICK g \in [1..MaxId -> S] : Searches(g, A, b, 1, MaxId)
  BY <1>0, <1>1, SearchExists, Zenon
<1>4. Is(g)
  <2>1. \A n \in 1..MaxId : n # 1 => g[n] = b[n][g[n-1]] /\ g[n-1] \in S
    BY <1>3, <1>m DEF Searches
  <2>2. \A n \in 1..MaxId : n # 1 => g[n] = Longer(r, g[n-1], n)
    BY <2>1, <1>b
  <2>3. \A n \in 1..MaxId : g[n] = IF n = 1 THEN A ELSE Longer(r, g[n-1], n)
    BY <2>2, <1>3 DEF Searches
  <2> QED
    BY <2>3
<1> HIDE DEF Was
<1>5. Is(f)
  BY <1>4, <1>w, <1>f
<1>6. f[1] = A /\ \A n \in 1..MaxId : n # 1 => f[n] = Longer(r, f[n-1], n)
  BY <1>5, <1>0
<1> HIDE DEF Is
<1> DEFINE Bad == {n \in 1..MaxId : f[n] # WaysUpTo(r, n)}
<1>7. f[1] = WaysUpTo(r, 1)
  <2>1. Way(r, <<r>>) /\ Len(<<r>>) = 1 /\ <<r>> \in Seq(Ids)
    BY <1>0 DEF Way
  <2>2. ASSUME NEW p \in WaysUpTo(r, 1) PROVE p = <<r>>
    <3>1. Way(r, p) /\ Len(p) <= 1
      BY DEF WaysUpTo
    <3>2. Len(p) \in Nat /\ Len(p) >= 1 /\ p \in Seq(Ids) /\ p[1] = r
      BY <3>1, WayLength
    <3>3. Len(p) = 1
      <4>1. \A n \in Nat : n >= 1 /\ n <= 1 => n = 1
        OBVIOUS
      <4>2. Len(p) \in Nat /\ Len(p) >= 1 /\ Len(p) <= 1
        BY <3>1, <3>2
      <4> QED
        BY <4>1, <4>2
    <3> QED
      BY <3>2, <3>3
  <2>3. <<r>> \in WaysUpTo(r, 1)
    BY <2>1 DEF WaysUpTo
  <2> QED
    BY <2>2, <2>3, <1>6, <1>a
<1>8. Bad = {}
  <2> SUFFICES ASSUME Bad # {} PROVE FALSE
    OBVIOUS
  <2>1. Bad \subseteq Nat /\ \A n \in Bad : n \in 1..MaxId /\ f[n] # WaysUpTo(r, n)
    OBVIOUS
  <2>2. \A n \in 1..MaxId : n \notin Bad => f[n] = WaysUpTo(r, n)
    OBVIOUS
  <2> HIDE DEF Bad
  <2>3. PICK m \in Bad : \A k \in Bad : m <= k
    BY <2>1, LeastNat
  <2>4. m \in 1..MaxId /\ m # 1 /\ m \in Nat /\ m >= 2 /\ m - 1 \in 1..MaxId /\ ~(m <= m - 1)
    BY <1>7, <2>1, <1>m
  <2>5. f[m-1] = WaysUpTo(r, m - 1)
    BY <2>2, <2>3, <2>4
  <2>6. PICK x : x = f[m-1]
    OBVIOUS
  <2>7. Longer(r, x, m) = WaysUpTo(r, m)
    BY <2>4, <2>5, <2>6, WaysNext
  <2> QED
    BY <2>1, <2>4, <2>6, <2>7, <1>6
<1>9. f[MaxId] = WaysUpTo(r, MaxId)
  <2>1. MaxId \notin Bad
    <3> HIDE DEF Bad
    <3> QED
      BY <1>8
  <2> QED
    BY <2>1, <1>0
<1>10. Ways(r) = f[MaxId]
  BY <1>f DEF Ways, Was
<1> QED
  BY <1>9, <1>10, WayShort, WayLength DEF WaysUpTo

\* The search gives each claim below the first of the shortest ways to it.
LEMMA SearchIsLeast ==
  ASSUME ClaimsTyped
  PROVE  LeastPaths
<1> SUFFICES ASSUME NEW r \in Here
             PROVE  /\ DOMAIN Levels(r) = {Last(p) : p \in Ways(r)}
                    /\ \A p \in Ways(r) : p = Levels(r)[Last(p)] \/ Shorter(Levels(r)[Last(p)], p)
  BY DEF LeastPaths
<1>1. \A p : p \in Ways(r) <=> Way(r, p)
  BY WaysAre
<1>2. /\ DOMAIN Levels(r) = Below(r)
      /\ \A u \in Below(r) : Way(r, Levels(r)[u]) /\ Last(Levels(r)[u]) = u
      /\ \A p : Way(r, p) => Last(p) \in Below(r) /\ (p = Levels(r)[Last(p)] \/ Shorter(Levels(r)[Last(p)], p))
  BY LevelsAre
<1> QED
  BY <1>1, <1>2

\* A trail goes from a claim to what it rests on, claim or not.
Trail(p) == p \in Seq(Ids) /\ p # <<>> /\ \A i \in 1..(Len(p) - 1) : p[i] \in Here /\ p[i+1] \in restsOn(p[i])

Starts(p, c) == p[1] = c

LEMMA TrailLength ==
  ASSUME NEW p, Trail(p)
  PROVE  Len(p) \in Nat /\ Len(p) >= 1 /\ p \in Seq(Ids) /\ p \in Seq(Nat) /\ Last(p) = p[Len(p)] /\ Last(p) \in Ids
<1>1. p \in Seq(Ids) /\ p # <<>>
  BY DEF Trail
<1>2. Len(p) \in Nat /\ Len(p) # 0
  BY <1>1
<1>3. Len(p) >= 1
  BY <1>2
<1>4. Last(p) = p[Len(p)] /\ Len(p) \in 1..Len(p)
  BY <1>2, <1>3 DEF Last
<1> QED
  BY <1>1, <1>2, <1>3, <1>4, IdsNat

LEMMA WayIsTrail ==
  ASSUME NEW r, NEW p, Way(r, p)
  PROVE  Trail(p) /\ Starts(p, r)
<1>1. Len(p) \in Nat /\ Len(p) >= 1 /\ p \in Seq(Ids) /\ p # <<>>
  BY WayLength DEF Way
<1>2. ASSUME NEW i \in 1..(Len(p) - 1) PROVE p[i] \in Here /\ p[i+1] \in restsOn(p[i])
  <2>1. i \in 1..Len(p) /\ i + 1 \in 2..Len(p) /\ (i + 1) - 1 = i
    BY <1>1
  <2> QED
    BY <2>1 DEF Way
<1> QED
  BY <1>1, <1>2 DEF Trail, Starts, Way

LEMMA TrailOne ==
  ASSUME NEW c \in Ids
  PROVE  Trail(<<c>>) /\ Starts(<<c>>, c) /\ Last(<<c>>) = c
<1>1. PICK p : p = <<c>>
  OBVIOUS
<1>2. p \in Seq(Ids) /\ Len(p) = 1 /\ p[1] = c
  BY <1>1
<1> QED
  BY <1>1, <1>2 DEF Trail, Starts, Last

LEMMA TrailTwo ==
  ASSUME NEW c \in Here, c \in Ids, NEW d \in Ids, d \in restsOn(c)
  PROVE  Trail(<<c, d>>) /\ Starts(<<c, d>>, c) /\ Last(<<c, d>>) = d /\ Len(<<c, d>>) = 2
<1>1. PICK p : p = <<c, d>>
  OBVIOUS
<1>2. p \in Seq(Ids) /\ Len(p) = 2 /\ p[1] = c /\ p[2] = d
  BY <1>1
<1>3. \A i \in 1..(Len(p) - 1) : i = 1
  BY <1>2
<1> QED
  BY <1>1, <1>2, <1>3 DEF Trail, Starts, Last

\* A trail that ends where another starts goes on along it.
LEMMA TrailOn ==
  ASSUME NEW p, NEW q, Trail(p), Trail(q), q[1] = Last(p)
  PROVE  Trail(p \o Tail(q)) /\ (p \o Tail(q))[1] = p[1] /\ Last(p \o Tail(q)) = Last(q)
<1>1. /\ p \in Seq(Ids) /\ Len(p) \in Nat /\ Len(p) >= 1 /\ Last(p) = p[Len(p)]
      /\ q \in Seq(Ids) /\ Len(q) \in Nat /\ Len(q) >= 1 /\ Last(q) = q[Len(q)]
  BY TrailLength
<1>2. PICK m \in Nat : Len(p) = m /\ m >= 1
  BY <1>1
<1>3. PICK n \in Nat : Len(q) = n /\ n >= 1
  BY <1>1
<1>4. PICK t : t = Tail(q)
  OBVIOUS
<1>5. t \in Seq(Ids) /\ Len(t) = n - 1 /\ \A i \in 1..(n - 1) : t[i] = q[i+1]
  BY <1>1, <1>3, <1>4
<1>6. PICK s : s = p \o t
  OBVIOUS
<1>7. /\ s \in Seq(Ids) /\ Len(s) = m + (n - 1)
      /\ \A i \in 1..(m + (n - 1)) : s[i] = IF i <= m THEN p[i] ELSE t[i - m]
  <2>1. /\ p \o t \in Seq(Ids) /\ Len(p \o t) = Len(p) + Len(t)
        /\ \A i \in 1..(Len(p) + Len(t)) : (p \o t)[i] = IF i <= Len(p) THEN p[i] ELSE t[i - Len(p)]
    BY <1>1, <1>5, ConcatProperties
  <2> QED
    BY <2>1, <1>2, <1>5, <1>6
<1>8. \A i \in 1..(m + (n - 1)) : i >= m => s[i] = q[(i - m) + 1] /\ (i - m) + 1 \in 1..n
  <2> TAKE i \in 1..(m + (n - 1))
  <2>1. CASE i = m
    <3>1. s[i] = p[m] /\ (i - m) + 1 = 1 /\ 1 \in 1..n
      BY <1>2, <1>3, <1>7, <2>1
    <3> QED
      BY <3>1, <1>1, <1>2
  <2>2. CASE i > m
    <3>1. i - m \in 1..(n - 1) /\ ~(i <= m) /\ (i - m) + 1 \in 1..n
      BY <1>2, <1>3, <2>2
    <3> QED
      BY <3>1, <1>5, <1>7
  <2> QED
    BY <2>1, <2>2, <1>2
<1>9. ASSUME NEW i \in 1..(Len(s) - 1) PROVE s[i] \in Here /\ s[i+1] \in restsOn(s[i])
  <2>0. i \in 1..(m + (n - 1)) /\ i + 1 \in 1..(m + (n - 1)) /\ i \in Nat
    BY <1>2, <1>3, <1>7
  <2>1. CASE i < m
    <3>1. i <= m /\ i + 1 <= m /\ i \in 1..(Len(p) - 1)
      BY <2>0, <2>1, <1>2
    <3>2. s[i] = p[i] /\ s[i+1] = p[i+1]
      BY <2>0, <3>1, <1>7
    <3> QED
      BY <3>1, <3>2 DEF Trail
  <2>2. CASE i >= m
    <3>1. i + 1 >= m /\ (i + 1) - m = (i - m) + 1 /\ (i - m) + 1 \in 1..(Len(q) - 1)
      BY <2>0, <2>2, <1>2, <1>3, <1>7
    <3>2. s[i] = q[(i - m) + 1] /\ s[i+1] = q[((i - m) + 1) + 1]
      BY <2>0, <2>2, <3>1, <1>8
    <3> QED
      BY <3>1, <3>2 DEF Trail
  <2> QED
    BY <2>0, <2>1, <2>2, <1>2
<1>10. s # <<>> /\ s[1] = p[1] /\ Last(s) = Last(q)
  <2>1. 1 \in 1..(m + (n - 1)) /\ 1 <= m /\ m + (n - 1) \in 1..(m + (n - 1)) /\ m + (n - 1) >= m
        /\ ((m + (n - 1)) - m) + 1 = n /\ m + (n - 1) # 0
    BY <1>2, <1>3
  <2>2. s[1] = p[1] /\ s[m + (n - 1)] = q[n]
    BY <2>1, <1>7, <1>8
  <2>3. s # <<>>
    BY <2>1, <1>7
  <2>4. Last(s) = s[m + (n - 1)]
    BY <1>7 DEF Last
  <2> QED
    BY <2>2, <2>3, <2>4, <1>1, <1>3
<1> QED
  BY <1>4, <1>6, <1>7, <1>9, <1>10 DEF Trail

LEMMA TrailAppend ==
  ASSUME NEW p, Trail(p), Last(p) \in Here, NEW d \in Ids, d \in restsOn(Last(p))
  PROVE  Trail(Append(p, d)) /\ Append(p, d)[1] = p[1] /\ Last(Append(p, d)) = d /\ Len(Append(p, d)) = Len(p) + 1
<1>1. p \in Seq(Ids) /\ Len(p) \in Nat /\ Len(p) >= 1 /\ Last(p) = p[Len(p)]
  BY TrailLength
<1>2. PICK m \in Nat : Len(p) = m /\ m >= 1
  BY <1>1
<1>3. PICK s : s = Append(p, d)
  OBVIOUS
<1>4. s \in Seq(Ids) /\ Len(s) = m + 1 /\ s[m+1] = d /\ \A i \in 1..m : s[i] = p[i]
  BY <1>1, <1>2, <1>3
<1>5. ASSUME NEW i \in 1..(Len(s) - 1) PROVE s[i] \in Here /\ s[i+1] \in restsOn(s[i])
  <2>0. i \in 1..m
    BY <1>2, <1>4
  <2>1. CASE i = m
    BY <2>0, <2>1, <1>1, <1>2, <1>4
  <2>2. CASE i # m
    <3>1. i \in 1..(Len(p) - 1) /\ i + 1 \in 1..m
      BY <2>0, <2>2, <1>2
    <3>2. s[i] = p[i] /\ s[i+1] = p[i+1]
      BY <2>0, <3>1, <1>4
    <3> QED
      BY <3>1, <3>2 DEF Trail
  <2> QED
    BY <2>1, <2>2
<1>6. s # <<>> /\ s[1] = p[1] /\ Last(s) = d
  BY <1>2, <1>4 DEF Last
<1> QED
  BY <1>2, <1>3, <1>4, <1>5, <1>6 DEF Trail

\* Every step of a trail is drawn, or counted as dropped.
LEMMA StepDrawn ==
  ASSUME ClaimsTyped, NEW u \in Here, NEW v \in restsOn(u)
  PROVE  \E e \in Listed : /\ e[1] = u /\ claims[e[1]].rests[e[2]] = v
                           /\ IF v \in Here THEN e \in GraphEdges ELSE e \in Dropped
<1>1. claims[u].rests \in UNION {[1..n -> Ids] : n \in 0..MaxRests}
  BY DEF ClaimsTyped, Claim, Lists
<1>2. PICK n \in 0..MaxRests : claims[u].rests \in [1..n -> Ids]
  BY <1>1
<1>3. PICK s : s = claims[u].rests
  OBVIOUS
<1>4. n \in Nat /\ n <= MaxRests /\ MaxRests \in Nat
  BY <1>2, ReadinessAssumption
<1>5. s \in Seq(Ids) /\ Len(s) = n
  BY <1>2, <1>3, <1>4, SeqDef
<1>6. PICK j \in 1..n : s[j] = v
  BY <1>2, <1>3 DEF restsOn, ToSet
<1>7. PICK e : e = <<u, j>>
  OBVIOUS
<1>8. e \in Here \X (1..MaxRests) /\ e[1] = u /\ e[2] = j /\ j <= Len(s)
  BY <1>4, <1>5, <1>6, <1>7
<1>9. e \in Listed /\ claims[e[1]].rests[e[2]] = v
  BY <1>3, <1>6, <1>8 DEF Listed
<1> QED
  BY <1>8, <1>9 DEF GraphEdges, Dropped

\* A round of the search for the shortest cycle through s inside its component.
RingBorder(seen, n) == {u \in DOMAIN seen : Len(seen[u]) = n}

RingFresh(s, S, seen, n) ==
    ((UNION {restsOn(u) : u \in RingBorder(seen, n)}) \cap S) \ (DOMAIN seen \cup {s})

RingOnto(seen, n, d) == {seen[u] : u \in {u \in RingBorder(seen, n) : Edge(u, d)}}

RingWiden(s, S, seen, n) ==
    [d \in DOMAIN seen \cup RingFresh(s, S, seen, n) |->
        IF d \in RingFresh(s, S, seen, n) THEN Append(Least(RingOnto(seen, n, d)), d) ELSE seen[d]]

LEMMA LeastOf ==
  ASSUME NEW P, P # {}, P \subseteq Seq(Ids)
  PROVE  Least(P) \in P
<1>1. P \subseteq Seq(Nat)
  BY IdsNat
<1> QED
  BY <1>1, LeastIs

LEMMA RingStep ==
  ASSUME NEW S \in SUBSET Ids, NEW s \in S, NEW seen \in PathMaps, NEW n \in Nat
  PROVE  /\ RingWiden(s, S, seen, n) \in PathMaps
         /\ DOMAIN RingWiden(s, S, seen, n) = DOMAIN seen \cup RingFresh(s, S, seen, n)
         /\ \A d \in DOMAIN seen : RingWiden(s, S, seen, n)[d] = seen[d]
         /\ \A d \in RingFresh(s, S, seen, n) :
               \E u \in RingBorder(seen, n) :
                  d \in restsOn(u) /\ RingWiden(s, S, seen, n)[d] = Append(seen[u], d)
<1>1. /\ DOMAIN seen \subseteq Ids /\ seen = [u \in DOMAIN seen |-> seen[u]]
      /\ \A u \in DOMAIN seen : seen[u] \in Seq(Ids)
  BY PathMapsAre
<1>2. RingFresh(s, S, seen, n) \subseteq Ids /\ RingFresh(s, S, seen, n) \cap DOMAIN seen = {}
      /\ RingBorder(seen, n) \subseteq DOMAIN seen
  BY DEF RingFresh, RingBorder
<1>3. ASSUME NEW d \in RingFresh(s, S, seen, n)
      PROVE  \E u \in RingBorder(seen, n) : d \in restsOn(u) /\ Least(RingOnto(seen, n, d)) = seen[u]
  <2>1. \E u \in RingBorder(seen, n) : d \in restsOn(u)
    BY DEF RingFresh
  <2>2. PICK P : P = RingOnto(seen, n, d)
    OBVIOUS
  <2>3. P # {} /\ P \subseteq Seq(Ids)
    BY <1>1, <1>2, <2>1, <2>2 DEF RingOnto, Edge
  <2>4. Least(P) \in P
    BY <2>3, LeastOf
  <2> QED
    BY <2>2, <2>4 DEF RingOnto, Edge
<1>4. PICK w : w = RingWiden(s, S, seen, n)
  OBVIOUS
<1>5. /\ DOMAIN w = DOMAIN seen \cup RingFresh(s, S, seen, n)
      /\ w = [d \in DOMAIN w |-> w[d]]
      /\ \A d \in DOMAIN w : w[d] = IF d \in RingFresh(s, S, seen, n) THEN Append(Least(RingOnto(seen, n, d)), d) ELSE seen[d]
  BY <1>4 DEF RingWiden
<1>6. \A d \in DOMAIN seen : w[d] = seen[d]
  BY <1>2, <1>5
<1>7. \A d \in RingFresh(s, S, seen, n) : \E u \in RingBorder(seen, n) : d \in restsOn(u) /\ w[d] = Append(seen[u], d)
  <2> SUFFICES ASSUME NEW d \in RingFresh(s, S, seen, n)
               PROVE  \E u \in RingBorder(seen, n) : d \in restsOn(u) /\ w[d] = Append(seen[u], d)
    OBVIOUS
  <2>1. PICK u \in RingBorder(seen, n) : d \in restsOn(u) /\ Least(RingOnto(seen, n, d)) = seen[u]
    BY <1>3
  <2>2. w[d] = Append(seen[u], d)
    BY <1>5, <2>1
  <2> QED
    BY <2>1, <2>2
<1>8. \A d \in DOMAIN w : w[d] \in Seq(Ids)
  <2> SUFFICES ASSUME NEW d \in DOMAIN w PROVE w[d] \in Seq(Ids)
    OBVIOUS
  <2>1. CASE d \in DOMAIN seen
    BY <2>1, <1>1, <1>6
  <2>2. CASE d \in RingFresh(s, S, seen, n)
    <3>1. PICK u \in RingBorder(seen, n) : w[d] = Append(seen[u], d)
      BY <2>2, <1>7
    <3>2. seen[u] \in Seq(Ids) /\ d \in Ids
      BY <1>1, <1>2, <2>2
    <3> QED
      BY <3>1, <3>2
  <2> QED
    BY <2>1, <2>2, <1>5
<1>9. w \in PathMaps
  BY <1>1, <1>2, <1>5, <1>8, PathMapsAre
<1> QED
  BY <1>4, <1>5, <1>6, <1>7, <1>9

\* After n rounds: the paths found are trails from s, what is n away has been passed
\* through, and nothing is new once a round has found nothing.
RingTrue(s, S, seen, n) ==
    /\ seen \in PathMaps /\ DOMAIN seen \subseteq S \ {s} /\ restsOn(s) \cap S \subseteq DOMAIN seen
    /\ \A u \in DOMAIN seen : Trail(seen[u]) /\ seen[u][1] = s /\ Last(seen[u]) = u /\ Len(seen[u]) <= n + 1
    /\ \A u \in DOMAIN seen : Len(seen[u]) <= n => (restsOn(u) \cap S) \ {s} \subseteq DOMAIN seen
    /\ Cardinality(DOMAIN seen) >= n \/ \A u \in DOMAIN seen : Len(seen[u]) <= n

LEMMA RingOne ==
  ASSUME ClaimsTyped, NEW S, S \subseteq Here, NEW s \in S, ~Edge(s, s),
         NEW seen, seen = [u \in restsOn(s) \cap S |-> <<s, u>>]
  PROVE  seen \in PathMaps /\ RingTrue(s, S, seen, 1)
<1>0. S \subseteq Ids /\ s \in Here
  BY DEF ClaimsTyped
<1>1. DOMAIN seen = restsOn(s) \cap S /\ seen = [u \in DOMAIN seen |-> seen[u]] /\ s \notin restsOn(s)
      /\ \A u \in DOMAIN seen : seen[u] = <<s, u>>
  BY DEF Edge
<1>2. \A u \in DOMAIN seen : Trail(seen[u]) /\ seen[u][1] = s /\ Last(seen[u]) = u /\ Len(seen[u]) = 2
  BY <1>0, <1>1, TrailTwo DEF Starts
<1>3. seen \in PathMaps
  BY <1>0, <1>1, <1>2, TrailLength, PathMapsAre
<1>4. Cardinality(DOMAIN seen) >= 1 \/ DOMAIN seen = {}
  <2>1. IsFiniteSet(DOMAIN seen)
    BY <1>0, <1>1, IdsFinite, FS_Subset
  <2>2. Cardinality(DOMAIN seen) \in Nat /\ (Cardinality(DOMAIN seen) = 0 => DOMAIN seen = {})
    BY <2>1, FS_CardinalityType, FS_EmptySet
  <2> QED
    BY <2>2
<1>5. DOMAIN seen \subseteq S \ {s}
  BY <1>1
<1>6. \A u \in DOMAIN seen : ~(Len(seen[u]) <= 1) /\ Len(seen[u]) <= 1 + 1
  BY <1>2
<1> QED
  BY <1>1, <1>2, <1>3, <1>4, <1>5, <1>6 DEF RingTrue

LEMMA RingNext ==
  ASSUME ClaimsTyped, NEW S, S \subseteq Here, NEW s \in S, NEW n \in Nat, n >= 2,
         NEW seen, RingTrue(s, S, seen, n - 1), NEW w, w = RingWiden(s, S, seen, n)
  PROVE  RingTrue(s, S, w, n)
<1> DEFINE D == DOMAIN seen
           B == RingBorder(seen, n)
           F == RingFresh(s, S, seen, n)
<1>0. (n - 1) + 1 = n /\ S \subseteq Ids /\ Here \subseteq Ids
  BY DEF ClaimsTyped
<1>s. /\ seen \in PathMaps /\ D \subseteq S \ {s} /\ restsOn(s) \cap S \subseteq D
      /\ \A u \in D : Trail(seen[u]) /\ seen[u][1] = s /\ Last(seen[u]) = u /\ Len(seen[u]) <= n
      /\ \A u \in D : Len(seen[u]) <= n - 1 => (restsOn(u) \cap S) \ {s} \subseteq D
      /\ Cardinality(D) >= n - 1 \/ \A u \in D : Len(seen[u]) <= n - 1
  BY <1>0 DEF RingTrue
<1>l. \A u \in D : Len(seen[u]) \in Nat
  BY <1>s, TrailLength
<1>b. /\ B \subseteq D /\ F \cap D = {} /\ F \subseteq S \ {s}
      /\ \A u \in D : u \in B <=> Len(seen[u]) = n
      /\ \A u \in B : ((restsOn(u) \cap S) \ {s}) \ D \subseteq F
  BY DEF RingBorder, RingFresh
<1>v. /\ RingWiden(s, S, seen, n) \in PathMaps
      /\ DOMAIN RingWiden(s, S, seen, n) = DOMAIN seen \cup RingFresh(s, S, seen, n)
      /\ \A d \in DOMAIN seen : RingWiden(s, S, seen, n)[d] = seen[d]
      /\ \A d \in RingFresh(s, S, seen, n) :
               \E u \in RingBorder(seen, n) :
                  d \in restsOn(u) /\ RingWiden(s, S, seen, n)[d] = Append(seen[u], d)
  <2>1. seen \in PathMaps /\ S \in SUBSET Ids
    BY <1>0, <1>s
  <2> HIDE DEF D, B, F
  <2> QED
    BY <2>1, RingStep
<1>w. /\ w \in PathMaps /\ DOMAIN w = D \cup F /\ \A d \in D : w[d] = seen[d]
      /\ \A d \in F : \E u \in B : d \in restsOn(u) /\ w[d] = Append(seen[u], d)
  BY <1>v, Zenon
<1> HIDE DEF D, B, F
<1>1. DOMAIN w \subseteq S \ {s} /\ restsOn(s) \cap S \subseteq DOMAIN w
  BY <1>s, <1>b, <1>w
<1>f. ASSUME NEW d \in F PROVE Trail(w[d]) /\ w[d][1] = s /\ Last(w[d]) = d /\ Len(w[d]) = n + 1
  <2>1. PICK u \in B : d \in restsOn(u) /\ w[d] = Append(seen[u], d)
    BY <1>w
  <2>2. u \in D /\ Trail(seen[u]) /\ seen[u][1] = s /\ Last(seen[u]) = u /\ Len(seen[u]) = n /\ u \in Here /\ d \in Ids
    BY <1>0, <1>s, <1>b
  <2> QED
    BY <2>1, <2>2, TrailAppend
<1>2. \A u \in DOMAIN w : Trail(w[u]) /\ w[u][1] = s /\ Last(w[u]) = u /\ Len(w[u]) <= n + 1
  <2>1. \A u \in D : Len(seen[u]) <= n + 1
    BY <1>s, <1>l
  <2> QED
    BY <2>1, <1>f, <1>s, <1>w
<1>3. ASSUME NEW u \in DOMAIN w, Len(w[u]) <= n PROVE (restsOn(u) \cap S) \ {s} \subseteq DOMAIN w
  <2>1. u \in D /\ w[u] = seen[u]
    BY <1>3, <1>w, <1>f
  <2>2. CASE Len(seen[u]) = n
    BY <2>1, <2>2, <1>b, <1>w
  <2>3. CASE Len(seen[u]) # n
    <3>1. Len(seen[u]) <= n - 1
      BY <2>1, <2>3, <1>3, <1>l
    <3> QED
      BY <2>1, <3>1, <1>s, <1>w
  <2> QED
    BY <2>2, <2>3
<1>4. Cardinality(DOMAIN w) >= n \/ \A u \in DOMAIN w : Len(w[u]) <= n
  <2>1. CASE F = {}
    BY <2>1, <1>w, <1>s
  <2>2. CASE F # {}
    <3>1. PICK d \in F : TRUE
      BY <2>2
    <3>2. B # {}
      BY <3>1, <1>w
    <3>3. ~ \A u \in D : Len(seen[u]) <= n - 1
      BY <3>2, <1>b
    <3>4. Cardinality(D) >= n - 1
      BY <3>3, <1>s
    <3>5. IsFiniteSet(DOMAIN w) /\ IsFiniteSet(D)
      <4>1. DOMAIN w \subseteq Ids /\ D \subseteq Ids
        BY <1>0, <1>1, <1>s
      <4> QED
        BY <4>1, IdsFinite, FS_Subset
    <3>6. Cardinality(D \cup {d}) = Cardinality(D) + 1
      BY <3>1, <3>5, <1>b, FS_AddElement
    <3>7. Cardinality(D \cup {d}) <= Cardinality(DOMAIN w)
      BY <3>1, <3>5, <1>w, FS_Subset
    <3>8. Cardinality(DOMAIN w) \in Nat /\ Cardinality(D) \in Nat
      BY <3>5, FS_CardinalityType
    <3> QED
      BY <3>4, <3>6, <3>7, <3>8
  <2> QED
    BY <2>1, <2>2
<1> QED
  BY <1>w, <1>1, <1>2, <1>3, <1>4 DEF RingTrue

LEMMA ReachOn ==
  ASSUME ClaimsTyped, NEW u \in Here, NEW v \in Reach(u)
  PROVE  Reach(v) \subseteq Reach(u) /\ v \in Here
<1>1. Reach(u) \subseteq Eligible /\ \A x \in Reach(u) : restsOn(x) \cap Eligible \subseteq Reach(u)
  BY ReachCloses
<1>2. v \in Here
  BY <1>1 DEF Eligible
<1>3. restsOn(v) \cap Eligible \subseteq Reach(u) /\ \A x \in Reach(u) \cap Eligible : restsOn(x) \cap Eligible \subseteq Reach(u)
  BY <1>1
<1> QED
  BY <1>2, <1>3, ReachCloses

\* A component is what its claims reach and are reached from.
LEMMA SccIs ==
  ASSUME ClaimsTyped, NEW S \in findSCCs, NEW s \in S
  PROVE  /\ S \subseteq Here /\ s \in Reach(s)
         /\ \A v \in Reach(s) : s \in Reach(v) => v \in S
<1>1. PICK w \in Eligible : w \in Reach(w) /\ S = {x \in Reach(w) : w \in Reach(x)}
  BY DEF findSCCs
<1>2. w \in Here /\ s \in Reach(w) /\ w \in Reach(s)
  BY <1>1 DEF Eligible
<1>3. s \in Here /\ S \subseteq Here /\ Reach(s) \subseteq Reach(w)
  BY <1>1, <1>2, ReachOn
<1>4. s \in Reach(s)
  BY <1>2, <1>3, ReachOn
<1>5. ASSUME NEW v \in Reach(s), s \in Reach(v) PROVE v \in S
  <2>1. v \in Here /\ v \in Reach(w)
    BY <1>3, ReachOn
  <2>2. w \in Reach(v)
    BY <2>1, <1>2, <1>5, ReachOn
  <2> QED
    BY <2>1, <2>2, <1>1
<1> QED
  BY <1>3, <1>4, <1>5

\* The search inside the component, round by round.
Ring(s, S, f) ==
    /\ \A n \in 1..MaxId : f[n] \in PathMaps
    /\ f[1] = [u \in restsOn(s) \cap S |-> <<s, u>>]
    /\ \A n \in 1..MaxId : n # 1 => f[n] = RingWiden(s, S, f[n-1], n)

LEMMA RingSearch ==
  ASSUME ClaimsTyped, NEW S, S \subseteq Here, NEW s \in S, ~Edge(s, s)
  PROVE  \E f : /\ Ring(s, S, f)
                /\ getShortestCycle(s, S) =
                      Least({Append(f[MaxId][u], s) : u \in {u \in DOMAIN f[MaxId] : Edge(u, s)}})
<1>a. PICK A : A = [u \in restsOn(s) \cap S |-> <<s, u>>]
  OBVIOUS
<1>b. PICK b : b = [n \in 1..MaxId |-> [x \in PathMaps |-> RingWiden(s, S, x, n)]]
  OBVIOUS
<1>0. MaxId \in Nat /\ 1 <= MaxId /\ 1 \in Nat /\ S \in SUBSET Ids
  BY ReadinessAssumption DEF ClaimsTyped
<1> DEFINE Was(f) == f = [n \in 1..MaxId |->
               IF n = 1 THEN [u \in restsOn(s) \cap S |-> <<s, u>>]
               ELSE LET seen == f[n-1]
                        at == {u \in DOMAIN seen : Len(seen[u]) = n}
                        new == ((UNION {restsOn(u) : u \in at}) \cap S) \ (DOMAIN seen \cup {s})
                    IN [d \in DOMAIN seen \cup new |->
                          IF d \in new THEN Append(Least({seen[u] : u \in {u \in at : Edge(u, d)}}), d)
                          ELSE seen[d]]]
           Is(f) == f = [n \in 1..MaxId |-> IF n = 1 THEN A ELSE RingWiden(s, S, f[n-1], n)]
<1>w. \A f : Was(f) <=> Is(f)
  BY <1>a DEF RingWiden, RingFresh, RingOnto, RingBorder
<1>f. PICK f : f = CHOOSE h : Was(h)
  OBVIOUS
<1>1. A \in PathMaps
  BY <1>a, RingOne
<1>2. b \in Rounds(PathMaps, 1, MaxId)
  <2>1. \A n \in 1..MaxId : \A x \in PathMaps : RingWiden(s, S, x, n) \in PathMaps
    <3>1. \A n \in 1..MaxId : n \in Nat
      BY <1>0
    <3>2. \A x \in PathMaps : \A n \in Nat : RingWiden(s, S, x, n) \in PathMaps
      BY <1>0, RingStep
    <3> QED
      BY <3>1, <3>2
  <2> QED
    BY <2>1, <1>b DEF Rounds
<1>m. \A n \in 1..MaxId : n # 1 => n \in (1 + 1)..MaxId /\ n - 1 \in 1..MaxId
  BY <1>0
<1>n. \A n \in (1 + 1)..MaxId : n \in 1..MaxId /\ n # 1
  BY <1>0
<1>3. PICK g \in [1..MaxId -> PathMaps] : Searches(g, A, b, 1, MaxId)
  BY <1>0, <1>1, <1>2, SearchExists, Zenon
<1>4. Is(g)
  <2>1. \A n \in 1..MaxId : n # 1 => g[n] = b[n][g[n-1]] /\ g[n-1] \in PathMaps
    BY <1>3, <1>m DEF Searches
  <2>2. \A n \in 1..MaxId : n # 1 => g[n] = RingWiden(s, S, g[n-1], n)
    BY <2>1, <1>b
  <2>3. \A n \in 1..MaxId : g[n] = IF n = 1 THEN A ELSE RingWiden(s, S, g[n-1], n)
    BY <2>2, <1>3 DEF Searches
  <2> QED
    BY <2>3
<1> HIDE DEF Was
<1>5. Is(f)
  BY <1>4, <1>w, <1>f
<1>6. GoesLike(f, PathMaps, A, b, 1, MaxId)
  <2>1. f = [n \in 1..MaxId |-> f[n]] /\ f[1] = A
    BY <1>5, <1>0
  <2>2. \A n \in (1 + 1)..MaxId : f[n] = RingWiden(s, S, f[n-1], n)
    BY <1>5, <1>n
  <2>3. \A n \in (1 + 1)..MaxId : f[n-1] \in PathMaps => f[n] = b[n][f[n-1]]
    BY <2>2, <1>n, <1>b
  <2> QED
    BY <2>1, <2>3 DEF GoesLike
<1>7. f \in [1..MaxId -> PathMaps] /\ Searches(f, A, b, 1, MaxId)
  BY <1>0, <1>1, <1>2, <1>6, SearchTyped, Zenon
<1>8. Ring(s, S, f)
  <2>1. \A n \in 1..MaxId : n # 1 => f[n] = RingWiden(s, S, f[n-1], n)
    BY <1>5
  <2>2. f[1] = [u \in restsOn(s) \cap S |-> <<s, u>>]
    BY <1>6, <1>a DEF GoesLike
  <2>3. \A n \in 1..MaxId : f[n] \in PathMaps
    BY <1>7
  <2> QED
    BY <2>1, <2>2, <2>3 DEF Ring
<1>9. getShortestCycle(s, S) = Least({Append(f[MaxId][u], s) : u \in {u \in DOMAIN f[MaxId] : Edge(u, s)}})
  BY <1>f DEF getShortestCycle, Was
<1> QED
  BY <1>8, <1>9

LEMMA RingCloses ==
  ASSUME ClaimsTyped, NEW S, S \subseteq Here, NEW s \in S, ~Edge(s, s), NEW f, Ring(s, S, f)
  PROVE  /\ DOMAIN f[MaxId] \subseteq S \ {s} /\ restsOn(s) \cap S \subseteq DOMAIN f[MaxId]
         /\ \A u \in DOMAIN f[MaxId] : /\ Trail(f[MaxId][u]) /\ f[MaxId][u][1] = s /\ Last(f[MaxId][u]) = u
                                       /\ (restsOn(u) \cap S) \ {s} \subseteq DOMAIN f[MaxId]
<1>0. MaxId \in Nat /\ 1 <= MaxId /\ MaxId \in 1..MaxId /\ 1 \in 1..MaxId /\ S \subseteq Ids
  BY ReadinessAssumption DEF ClaimsTyped
<1>1. RingTrue(s, S, f[1], 1)
  <2>1. PICK x : x = f[1]
    OBVIOUS
  <2>2. x = [u \in restsOn(s) \cap S |-> <<s, u>>]
    BY <2>1 DEF Ring
  <2>3. RingTrue(s, S, x, 1)
    BY <2>2, RingOne
  <2> QED
    BY <2>1, <2>3
<1>2. ASSUME NEW n \in 1..MaxId, n # 1, RingTrue(s, S, f[n-1], n - 1) PROVE RingTrue(s, S, f[n], n)
  <2>1. f[n] = RingWiden(s, S, f[n-1], n) /\ n \in Nat /\ n >= 2
    BY <1>0, <1>2 DEF Ring
  <2>2. PICK x : x = f[n-1]
    OBVIOUS
  <2>3. PICK w : w = f[n]
    OBVIOUS
  <2>4. RingTrue(s, S, x, n - 1) /\ w = RingWiden(s, S, x, n)
    BY <1>2, <2>1, <2>2, <2>3
  <2>5. RingTrue(s, S, w, n)
    BY <2>1, <2>4, RingNext
  <2> QED
    BY <2>3, <2>5
<1> DEFINE Bad == {n \in 1..MaxId : ~RingTrue(s, S, f[n], n)}
<1>3. Bad = {}
  <2> SUFFICES ASSUME Bad # {} PROVE FALSE
    OBVIOUS
  <2>1. Bad \subseteq Nat /\ \A n \in Bad : n \in 1..MaxId /\ ~RingTrue(s, S, f[n], n)
    OBVIOUS
  <2>2. \A n \in 1..MaxId : n \notin Bad => RingTrue(s, S, f[n], n)
    OBVIOUS
  <2> HIDE DEF Bad
  <2>3. PICK m \in Bad : \A k \in Bad : m <= k
    BY <2>1, LeastNat
  <2>4. m \in 1..MaxId /\ m # 1 /\ ~RingTrue(s, S, f[m], m)
    BY <1>1, <2>1
  <2>5. m - 1 \in 1..MaxId /\ ~(m <= m - 1)
    BY <2>4, <1>0
  <2>6. m - 1 \notin Bad
    BY <2>3, <2>5
  <2> QED
    BY <1>2, <2>2, <2>4, <2>5, <2>6
<1>4. RingTrue(s, S, f[MaxId], MaxId)
  <2>1. MaxId \notin Bad
    <3> HIDE DEF Bad
    <3> QED
      BY <1>3
  <2> QED
    BY <2>1, <1>0
<1>5. PICK L : L = f[MaxId]
  OBVIOUS
<1>6. /\ DOMAIN L \subseteq S \ {s} /\ restsOn(s) \cap S \subseteq DOMAIN L
      /\ \A u \in DOMAIN L : Trail(L[u]) /\ L[u][1] = s /\ Last(L[u]) = u
      /\ \A u \in DOMAIN L : Len(L[u]) <= MaxId => (restsOn(u) \cap S) \ {s} \subseteq DOMAIN L
      /\ Cardinality(DOMAIN L) >= MaxId \/ \A u \in DOMAIN L : Len(L[u]) <= MaxId
  BY <1>4, <1>5 DEF RingTrue
<1>7. ~(Cardinality(DOMAIN L) >= MaxId)
  <2>1. DOMAIN L \subseteq Ids /\ s \in Ids /\ s \notin DOMAIN L
    BY <1>0, <1>6
  <2>2. IsFiniteSet(DOMAIN L) /\ Cardinality(DOMAIN L) \in Nat /\ Cardinality(DOMAIN L) <= MaxId
        /\ (Cardinality(DOMAIN L) = MaxId => DOMAIN L = Ids)
    BY <2>1, IdsFinite, FS_Subset, FS_CardinalityType
  <2> QED
    BY <2>1, <2>2, <1>0
<1> QED
  BY <1>5, <1>6, <1>7

\* The cycle found is a trail from s back to s.
LEMMA CycleTrail ==
  ASSUME ClaimsTyped, NEW S \in findSCCs, NEW s \in S, NEW c, c = getShortestCycle(s, S)
  PROVE  Trail(c) /\ c[1] = s /\ Last(c) = s
<1>0. S \subseteq Here /\ s \in Here /\ s \in Ids /\ Here \subseteq Ids /\ s \in Reach(s) /\ Eligible \subseteq Here
      /\ \A v \in Reach(s) : s \in Reach(v) => v \in S
  BY SccIs DEF ClaimsTyped, Eligible
<1>1. CASE Edge(s, s)
  <2>1. c = <<s, s>> /\ s \in restsOn(s)
    BY <1>1 DEF getShortestCycle, Edge
  <2> QED
    BY <2>1, <1>0, TrailTwo DEF Starts
<1>2. CASE ~Edge(s, s)
  <2>1. PICK f : /\ Ring(s, S, f)
                 /\ c = Least({Append(f[MaxId][u], s) : u \in {u \in DOMAIN f[MaxId] : Edge(u, s)}})
    BY <1>0, <1>2, RingSearch
  <2>2. PICK L : L = f[MaxId]
    OBVIOUS
  <2>3. /\ DOMAIN L \subseteq S \ {s} /\ restsOn(s) \cap S \subseteq DOMAIN L
        /\ \A u \in DOMAIN L : /\ Trail(L[u]) /\ L[u][1] = s /\ Last(L[u]) = u
                               /\ (restsOn(u) \cap S) \ {s} \subseteq DOMAIN L
    <3>1. /\ DOMAIN f[MaxId] \subseteq S \ {s} /\ restsOn(s) \cap S \subseteq DOMAIN f[MaxId]
          /\ \A u \in DOMAIN f[MaxId] : /\ Trail(f[MaxId][u]) /\ f[MaxId][u][1] = s /\ Last(f[MaxId][u]) = u
                                       /\ (restsOn(u) \cap S) \ {s} \subseteq DOMAIN f[MaxId]
      <4>1. S \subseteq Here /\ Ring(s, S, f)
        BY <1>0, <2>1
      <4> QED
        BY <4>1, <1>2, RingCloses
    <3> QED
      BY <2>2, <3>1, Zenon
  <2>4. \E u \in DOMAIN L : Edge(u, s)
    <3> SUFFICES ASSUME \A u \in DOMAIN L : s \notin restsOn(u) PROVE FALSE
      BY DEF Edge
    <3> DEFINE Z == DOMAIN L \cup {v \in Eligible : s \notin Reach(v)}
    <3>1. restsOn(s) \cap Eligible \subseteq Z
      <4> SUFFICES ASSUME NEW v \in restsOn(s) \cap Eligible, s \in Reach(v) PROVE v \in DOMAIN L
        OBVIOUS
      <4>1. v \in Reach(s)
        BY <1>0, ReachCloses
      <4> QED
        BY <4>1, <1>0, <2>3
    <3>2. ASSUME NEW v \in Z \cap Eligible, NEW x \in restsOn(v) \cap Eligible, s \in Reach(x) PROVE x \in DOMAIN L
      <4>1. v \in Here /\ x \in Here /\ x \in Reach(v)
        BY <1>0, ReachCloses
      <4>2. s \in Reach(v)
        BY <4>1, <3>2, ReachOn
      <4>3. v \in DOMAIN L /\ v \in S
        BY <4>2, <2>3
      <4>4. v \in Reach(s)
        <5>1. PICK w \in Eligible : w \in Reach(w) /\ S = {y \in Reach(w) : w \in Reach(y)}
          BY DEF findSCCs
        <5>2. w \in Reach(s) /\ v \in Reach(w)
          BY <4>3, <5>1
        <5> QED
          BY <5>2, <1>0, ReachOn
      <4>5. x \in Reach(s)
        BY <4>4, <1>0, ReachCloses
      <4>6. x \in S /\ x # s
        BY <4>3, <4>5, <3>2, <1>0
      <4> QED
        BY <4>3, <4>6, <2>3
    <3>3. \A v \in Z \cap Eligible : restsOn(v) \cap Eligible \subseteq Z
      BY <3>2
    <3>4. Reach(s) \subseteq Z
      <4> HIDE DEF Z
      <4> QED
        BY <3>1, <3>3, <1>0, ReachCloses
    <3>5. s \in DOMAIN L
      BY <3>4, <1>0
    <3> QED
      BY <3>5, <2>3
  <2>5. PICK P : P = {Append(L[u], s) : u \in {u \in DOMAIN L : Edge(u, s)}}
    OBVIOUS
  <2>6. ASSUME NEW p \in P PROVE Trail(p) /\ p[1] = s /\ Last(p) = s
    <3>1. PICK u \in DOMAIN L : p = Append(L[u], s) /\ s \in restsOn(u)
      BY <2>5 DEF Edge
    <3>2. Trail(L[u]) /\ L[u][1] = s /\ Last(L[u]) = u /\ u \in Here
      BY <2>3, <1>0
    <3> QED
      BY <3>1, <3>2, <1>0, TrailAppend
  <2>7. P # {} /\ P \subseteq Seq(Ids)
    BY <2>4, <2>5, <2>6, TrailLength
  <2>8. c = Least(P) /\ Least(P) \in P
    BY <2>1, <2>2, <2>5, <2>7, LeastOf
  <2> QED
    BY <2>6, <2>8
<1> QED
  BY <1>1, <1>2

\* What explains an assessment: a kind, what it is about, and a trail to it.
Evidence(e) ==
    /\ e = [kind |-> e.kind, dep |-> e.dep, path |-> e.path]
    /\ e.dep \in Ids \cup {None} /\ Trail(e.path)

LEMMA EvidenceOf ==
  ASSUME NEW k, NEW d \in Ids \cup {None}, NEW p, Trail(p), NEW e, e = [kind |-> k, dep |-> d, path |-> p]
  PROVE  Evidence(e) /\ e.path = p
  BY DEF Evidence

LEMMA Inherited ==
  ASSUME NEW e, Evidence(e), NEW p, Trail(p), e.path[1] = Last(p),
         NEW x, x = [e EXCEPT !.path = Inherit(p, e.path)]
  PROVE  Evidence(x)
<1>1. Trail(Inherit(p, e.path))
  BY TrailOn DEF Inherit, Evidence
<1>2. e = [kind |-> e.kind, dep |-> e.dep, path |-> e.path] /\ e.dep \in Ids \cup {None}
  BY DEF Evidence
<1>3. PICK q : q = Inherit(p, e.path)
  OBVIOUS
<1>4. x = [kind |-> e.kind, dep |-> e.dep, path |-> q]
  BY <1>2, <1>3
<1> QED
  BY <1>1, <1>2, <1>3, <1>4, EvidenceOf

LEMMA LocalEvidence ==
  ASSUME ClaimsTyped, NEW c \in Here, NEW e \in localCauses(c) \cup localConditions(c)
  PROVE  Evidence(e) /\ e.path[1] = c
<1>0. c \in Ids /\ Here \subseteq Ids /\ restsOn(c) \subseteq Ids
  BY RestsTyped DEF ClaimsTyped
<1>1. (\E k : e = [kind |-> k, dep |-> None, path |-> <<c>>])
      \/ \E k : \E d \in restsOn(c) : e = [kind |-> k, dep |-> d, path |-> <<c, d>>]
  <2>1. CASE e \in localCauses(c)
    <3>1. (\E k : e = [kind |-> k, dep |-> None, path |-> <<c>>])
          \/ \E d \in restsOn(c) : e = [kind |-> "direct_dependency_change", dep |-> d, path |-> <<c, d>>]
      BY <2>1 DEF localCauses
    <3> QED
      BY <3>1
  <2>2. CASE e \in localConditions(c)
    <3>1. \/ \E d \in restsOn(c) : e = [kind |-> "missing_dependency", dep |-> d, path |-> <<c, d>>]
          \/ \E d \in restsOn(c) : e = [kind |-> dependencyState(d), dep |-> d, path |-> <<c, d>>]
          \/ \E d \in restsOn(c) : e = [kind |-> "unknown_historical_baseline", dep |-> d, path |-> <<c, d>>]
      BY <2>2 DEF localConditions
    <3> QED
      BY <3>1
  <2> QED
    BY <2>1, <2>2
<1>2. ASSUME NEW k, e = [kind |-> k, dep |-> None, path |-> <<c>>] PROVE Evidence(e) /\ e.path[1] = c
  <2>1. Trail(<<c>>) /\ <<c>>[1] = c
    BY <1>0, TrailOne
  <2>2. PICK p : p = <<c>>
    OBVIOUS
  <2>3. Evidence(e) /\ e.path = p
    BY <1>2, <2>1, <2>2, EvidenceOf
  <2> QED
    BY <2>1, <2>2, <2>3
<1>3. ASSUME NEW k, NEW d \in restsOn(c), e = [kind |-> k, dep |-> d, path |-> <<c, d>>] PROVE Evidence(e) /\ e.path[1] = c
  <2>1. Trail(<<c, d>>) /\ <<c, d>>[1] = c /\ d \in Ids
    BY <1>0, TrailTwo
  <2>2. PICK p : p = <<c, d>>
    OBVIOUS
  <2>3. Evidence(e) /\ e.path = p
    BY <1>3, <2>1, <2>2, EvidenceOf
  <2> QED
    BY <2>1, <2>2, <2>3
<1> QED
  BY <1>1, <1>2, <1>3

LEMMA CausesEvidence ==
  ASSUME ClaimsTyped, NEW r \in Here, NEW e \in Causes(r)
  PROVE  Evidence(e)
<1>p. PICK paths : paths = Levels(r)
  OBVIOUS
<1>0. DOMAIN paths \subseteq Here /\ \A u \in DOMAIN paths : Trail(paths[u]) /\ Last(paths[u]) = u
  BY <1>p, LevelsAre, WayIsTrail
<1>1. CASE e \in localCauses(r)
  BY <1>1, LocalEvidence
<1>2. CASE e \notin localCauses(r)
  <2>1. \E u \in (DOMAIN paths \cap Eligible) \ {r} :
           e \in {[c EXCEPT !.path = Inherit(paths[u], c.path)] : c \in localCauses(u)}
    BY <1>2, <1>p DEF Causes
  <2>x. PICK u \in DOMAIN paths : \E c \in localCauses(u) : e = [c EXCEPT !.path = Inherit(paths[u], c.path)]
    BY <2>1
  <2>2. PICK c \in localCauses(u) : e = [c EXCEPT !.path = Inherit(paths[u], c.path)]
    BY <2>x
  <2>3. u \in Here /\ Trail(paths[u]) /\ Last(paths[u]) = u
    BY <1>0
  <2>4. Evidence(c) /\ c.path[1] = u
    BY <2>3, LocalEvidence
  <2>5. PICK p : p = paths[u]
    OBVIOUS
  <2> QED
    BY <2>2, <2>3, <2>4, <2>5, Inherited
<1> QED
  BY <1>1, <1>2

LEMMA ReachedEvidence ==
  ASSUME ClaimsTyped, NEW r \in Here, NEW paths, DOMAIN paths \subseteq Here,
         \A u \in DOMAIN paths : Trail(paths[u]) /\ Last(paths[u]) = u,
         NEW e \in reachedConditions(r, paths)
  PROVE  Evidence(e)
<1>1. PICK u \in DOMAIN paths :
         \/ e = [kind |-> dependencyState(u), dep |-> u, path |-> paths[u]]
         \/ e = [kind |-> "dependency_unapproved", dep |-> u, path |-> paths[u]]
         \/ \E c \in localConditions(u) : e = [c EXCEPT !.path = Inherit(paths[u], c.path)]
  <2>1. PICK u \in DOMAIN paths \ {r} :
           e \in IF u \notin Eligible THEN {[kind |-> dependencyState(u), dep |-> u, path |-> paths[u]]}
           ELSE {[kind |-> "dependency_unapproved", dep |-> u, path |-> paths[u]] : x \in {x \in {1} : ~LocalApproved(u)}}
                \cup {[c EXCEPT !.path = Inherit(paths[u], c.path)] :
                         c \in {c \in localConditions(u) : c.kind = "unknown_historical_baseline"}}
    BY DEF reachedConditions
  <2>2. CASE u \notin Eligible
    BY <2>1, <2>2
  <2>3. CASE u \in Eligible
    BY <2>1, <2>3
  <2> QED
    BY <2>2, <2>3
<1>2. u \in Here /\ u \in Ids /\ Trail(paths[u]) /\ Last(paths[u]) = u
  BY DEF ClaimsTyped
<1>3. PICK p : p = paths[u]
  OBVIOUS
<1>4. CASE \E c \in localConditions(u) : e = [c EXCEPT !.path = Inherit(paths[u], c.path)]
  <2>1. PICK c \in localConditions(u) : e = [c EXCEPT !.path = Inherit(p, c.path)]
    BY <1>3, <1>4
  <2>2. Evidence(c) /\ c.path[1] = u
    BY <1>2, LocalEvidence
  <2> QED
    BY <1>2, <1>3, <2>1, <2>2, Inherited
<1>5. CASE \E k : e = [kind |-> k, dep |-> u, path |-> p]
  <2>1. PICK k : e = [kind |-> k, dep |-> u, path |-> p]
    BY <1>5
  <2> QED
    BY <1>2, <1>3, <2>1, EvidenceOf
<1> QED
  BY <1>1, <1>3, <1>4, <1>5

\* The best of the paths to the claims that rest on m, and on to m.
LEMMA BackTrail ==
  ASSUME ClaimsTyped, NEW paths, DOMAIN paths \subseteq Here,
         \A u \in DOMAIN paths : Trail(paths[u]) /\ Last(paths[u]) = u,
         NEW m \in Ids, NEW P, P # {}, \A q \in P : \E u \in DOMAIN paths : q = paths[u] /\ m \in restsOn(u),
         NEW p, p = Append(Least(P), m)
  PROVE  Trail(p) /\ Last(p) = m
<1>2. P # {} /\ P \subseteq Seq(Ids)
  BY TrailLength
<1>3. Least(P) \in P
  BY <1>2, LeastOf
<1>4. PICK u \in DOMAIN paths : Least(P) = paths[u] /\ m \in restsOn(u)
  BY <1>3
<1>5. PICK q : q = paths[u]
  OBVIOUS
<1>6. Trail(q) /\ Last(q) \in Here /\ m \in restsOn(Last(q)) /\ p = Append(q, m)
  BY <1>4, <1>5
<1> QED
  BY <1>6, TrailAppend

LEMMA MissingTrail ==
  ASSUME ClaimsTyped, NEW r \in Here, NEW paths, DOMAIN paths \subseteq Here,
         \A u \in DOMAIN paths : Trail(paths[u]) /\ Last(paths[u]) = u,
         NEW p \in bestMissing(r, paths) \cup invalidRootPath(r, paths)
  PROVE  Trail(p)
<1>0. Here \subseteq Ids /\ Expanded(r, paths) \subseteq DOMAIN paths /\ r \in Ids
  BY DEF ClaimsTyped, Expanded
<1>1. CASE p \in bestMissing(r, paths)
  <2>1. PICK m \in (UNION {restsOn(u) : u \in Expanded(r, paths)}) \ Here :
           p = Append(Least({paths[u] : u \in {u \in Expanded(r, paths) : m \in restsOn(u)}}), m)
    BY <1>1 DEF bestMissing
  <2>2. PICK P : P = {paths[u] : u \in {u \in Expanded(r, paths) : m \in restsOn(u)}}
    OBVIOUS
  <2>3. P # {} /\ (\A q \in P : \E u \in DOMAIN paths : q = paths[u] /\ m \in restsOn(u)) /\ p = Append(Least(P), m)
    BY <1>0, <2>1, <2>2
  <2>4. m \in Ids
    BY <1>0, <2>1, RestsTyped
  <2> QED
    BY <2>3, <2>4, BackTrail
<1>2. CASE p \in invalidRootPath(r, paths)
  <2>1. PICK U : U = {u \in Expanded(r, paths) : r \in restsOn(u)}
    OBVIOUS
  <2>2. PICK P : P = {paths[u] : u \in U}
    OBVIOUS
  <2>4. U # {} /\ p = Append(Least(P), r)
    BY <1>2, <2>1, <2>2 DEF invalidRootPath
  <2>3. P # {} /\ \A q \in P : \E u \in DOMAIN paths : q = paths[u] /\ r \in restsOn(u)
    BY <1>0, <2>1, <2>2, <2>4
  <2> QED
    BY <1>0, <2>3, <2>4, BackTrail
<1> QED
  BY <1>1, <1>2

LEMMA WitnessTrail ==
  ASSUME ClaimsTyped, NEW r \in Here, NEW paths, DOMAIN paths \subseteq Here,
         \A u \in DOMAIN paths : Trail(paths[u]) /\ Last(paths[u]) = u,
         NEW S \in findSCCs, S \cap DOMAIN paths # {}
  PROVE  Trail(Witness(r, paths, S))
<1>1. PICK P : P = {IF e = r THEN getShortestCycle(e, S) ELSE paths[e] \o Tail(getShortestCycle(e, S)) :
              e \in S \cap DOMAIN paths}
  OBVIOUS
<1>2. ASSUME NEW p \in P PROVE Trail(p)
  <2>1. PICK e \in S \cap DOMAIN paths :
           p = IF e = r THEN getShortestCycle(e, S) ELSE paths[e] \o Tail(getShortestCycle(e, S))
    BY <1>1
  <2>2. PICK c : c = getShortestCycle(e, S)
    OBVIOUS
  <2>3. Trail(c) /\ c[1] = e /\ Last(c) = e
    BY <2>2, CycleTrail
  <2>4. PICK q : q = paths[e]
    OBVIOUS
  <2>5. Trail(q) /\ Last(q) = e
    BY <2>4
  <2>6. Trail(q \o Tail(c))
    BY <2>3, <2>5, TrailOn
  <2> QED
    BY <2>1, <2>2, <2>3, <2>4, <2>6
<1>3. P # {} /\ P \subseteq Seq(Ids)
  BY <1>1, <1>2, TrailLength
<1>4. Least(P) \in P
  BY <1>3, LeastOf
<1>5. Witness(r, paths, S) = Least(P)
  BY <1>1 DEF Witness
<1> QED
  BY <1>2, <1>4, <1>5

LEMMA ConditionsEvidence ==
  ASSUME ClaimsTyped, NEW r \in Here, NEW e \in Conditions(r)
  PROVE  Evidence(e)
<1>p. PICK paths : paths = Levels(r)
  OBVIOUS
<1>0. /\ DOMAIN paths \subseteq Here /\ r \in Ids
      /\ \A u \in DOMAIN paths : Trail(paths[u]) /\ Last(paths[u]) = u
  BY <1>p, LevelsAre, WayIsTrail DEF ClaimsTyped
<1>1. \/ e \in localConditions(r) \/ e \in reachedConditions(r, paths)
      \/ \E p \in invalidRootPath(r, paths) : e = [kind |-> dependencyState(r), dep |-> r, path |-> p]
      \/ \E p \in bestMissing(r, paths) : e = [kind |-> "missing_dependency", dep |-> Last(p), path |-> p]
      \/ \E S \in findSCCs : S \cap DOMAIN paths # {} /\
            e = [kind |-> "dependency_cycle", dep |-> Last(Witness(r, paths, S)), path |-> Witness(r, paths, S)]
  BY <1>p DEF Conditions
<1>2. CASE e \in localConditions(r)
  BY <1>2, LocalEvidence
<1>3. CASE e \in reachedConditions(r, paths)
  BY <1>0, <1>3, ReachedEvidence
<1>4. CASE \E p : Trail(p) /\ \E k : \E d \in Ids : e = [kind |-> k, dep |-> d, path |-> p]
  BY <1>4, EvidenceOf
<1>5. CASE \E p \in invalidRootPath(r, paths) : e = [kind |-> dependencyState(r), dep |-> r, path |-> p]
  <2>1. PICK p \in invalidRootPath(r, paths) : e = [kind |-> dependencyState(r), dep |-> r, path |-> p]
    BY <1>5
  <2>2. Trail(p)
    BY <1>0, MissingTrail
  <2> QED
    BY <2>1, <2>2, <1>0, <1>4
<1>6. CASE \E p \in bestMissing(r, paths) : e = [kind |-> "missing_dependency", dep |-> Last(p), path |-> p]
  <2>1. PICK p \in bestMissing(r, paths) : e = [kind |-> "missing_dependency", dep |-> Last(p), path |-> p]
    BY <1>6
  <2>2. Trail(p) /\ Last(p) \in Ids
    BY <1>0, MissingTrail, TrailLength
  <2> QED
    BY <2>1, <2>2, <1>4
<1>7. CASE \E S \in findSCCs : S \cap DOMAIN paths # {} /\
            e = [kind |-> "dependency_cycle", dep |-> Last(Witness(r, paths, S)), path |-> Witness(r, paths, S)]
  <2>1. PICK S \in findSCCs : S \cap DOMAIN paths # {} /\
            e = [kind |-> "dependency_cycle", dep |-> Last(Witness(r, paths, S)), path |-> Witness(r, paths, S)]
    BY <1>7
  <2>2. PICK p : p = Witness(r, paths, S)
    OBVIOUS
  <2>3. Trail(p)
    BY <1>0, <2>1, <2>2, WitnessTrail
  <2>4. Last(p) \in Ids
    BY <2>3, TrailLength
  <2> QED
    BY <2>1, <2>2, <2>3, <2>4, <1>4
<1> QED
  BY <1>1, <1>2, <1>3, <1>5, <1>6, <1>7

\* Every step of the evidence is drawn in the graph or counted as dropped.
LEMMA EvidenceDrawn ==
  ASSUME ClaimsTyped
  PROVE  PathsDrawn(Assessments)
<1> DEFINE drawn == {<<e[1], claims[e[1]].rests[e[2]]>> : e \in GraphEdges}
           counted == {<<e[1], claims[e[1]].rests[e[2]]>> : e \in Dropped}
<1>1. ASSUME NEW u \in Here, NEW v \in restsOn(u)
      PROVE  IF v \in Here THEN <<u, v>> \in drawn ELSE <<u, v>> \in counted
  <2>1. PICK e \in Listed : /\ e[1] = u /\ claims[e[1]].rests[e[2]] = v
                            /\ IF v \in Here THEN e \in GraphEdges ELSE e \in Dropped
    BY StepDrawn
  <2> QED
    BY <2>1
<1> HIDE DEF drawn, counted
<1>2. ASSUME NEW a \in Assessments, NEW e \in a.conditions \cup a.causes, NEW i \in 1..(Len(e.path) - 1)
      PROVE  IF e.path[i+1] \in Here THEN <<e.path[i], e.path[i+1]>> \in drawn ELSE <<e.path[i], e.path[i+1]>> \in counted
  <2>1. PICK r \in Here : a = [claim |-> r, conditions |-> Conditions(r), causes |-> Causes(r)]
    BY DEF Assessments
  <2>2. Evidence(e)
    BY <2>1, ConditionsEvidence, CausesEvidence
  <2>3. e.path[i] \in Here /\ e.path[i+1] \in restsOn(e.path[i])
    BY <2>2 DEF Evidence, Trail
  <2> QED
    BY <2>3, <1>1
<1>3. \A a \in Assessments : \A e \in a.conditions \cup a.causes : \A i \in 1..(Len(e.path) - 1) :
         IF e.path[i+1] \in Here THEN <<e.path[i], e.path[i+1]>> \in drawn ELSE <<e.path[i], e.path[i+1]>> \in counted
  BY <1>2
<1> QED
  BY <1>3 DEF PathsDrawn, drawn, counted

-----------------------------------------------------------------------------
(* The parts of the project. *)

\* A step of one part leaves the variables of the others alone.
LEMMA OthersKeep ==
  ASSUME NEW p, Of(p)
  PROVE  /\ p # "conformance" => UNCHANGED embodiment /\ UNCHANGED input
         /\ p # "links" => UNCHANGED linkVars
         /\ p # "assets" => UNCHANGED assetVars
         /\ p # "inbox" => UNCHANGED inboxVars
         /\ p # "recovery" => UNCHANGED recoveryVars
         /\ p # "skills" => UNCHANGED skillVars
         /\ p # "manifests" => UNCHANGED manifestVars
         /\ p # "new" => UNCHANGED newVars
BY DEF Of

\* Every step of the project is a step of one part, which its files allow.
LEMMA StepOfPart ==
  ASSUME Next
  PROVE  \/ Of("claims") /\ \E c \in Here : EditClaim(c) \/ Comment(c) \/ Flag(c) \/ Approve(c) \/ Release(c) \/ DeleteClaim(c)
         \/ Of("conformance") /\ (Observe \/ \E c \in DOMAIN embodiment : Declare(c))
         \/ Of("links") /\ LinksNext
         \/ Of("assets") /\ AssetsNext
         \/ Of("inbox") /\ InboxNext
         \/ Of("recovery") /\ RecoveryNext
         \/ Of("skills") /\ SkillsNext
         \/ Of("manifests") /\ ManifestEdit
         \/ Of("new") /\ NewNext
<1> USE DEF Edit, Run
<1>1. ASSUME NEW c \in Here, EditClaim(c) \/ Comment(c) \/ Flag(c) \/ Approve(c) \/ Release(c) \/ DeleteClaim(c)
      PROVE  Of("claims")
  BY <1>1 DEF EditClaim, Comment, Flag, Approve, Release, DeleteClaim
<1>2. ASSUME NEW c \in DOMAIN embodiment, Declare(c) PROVE Of("conformance")
  BY <1>2 DEF Declare
<1>3. Observe => Of("conformance")
  BY DEF Observe
<1>4. Linking => Of("links") /\ LinksNext
  BY DEF Linking, LinksNext
<1>5. Serving => Of("assets") /\ AssetsNext
  BY DEF Serving, AssetsNext
<1>6. Reviewing => Of("inbox") /\ InboxNext
  BY DEF Reviewing, InboxNext
<1>7. Recovering => Of("recovery") /\ RecoveryNext
  BY DEF Recovering, RecoveryNext
<1>8. Exporting => Of("skills") /\ SkillsNext
  BY DEF Exporting, SkillsNext
<1>9. Presenting => Of("manifests") /\ ManifestEdit
  BY DEF Presenting
<1>10. Authoring => Of("new") /\ NewNext
  BY DEF Authoring, NewNext
<1> QED
  BY <1>1, <1>2, <1>3, <1>4, <1>5, <1>6, <1>7, <1>8, <1>9, <1>10, Zenon DEF Next

\* A step of the project is a step of each part, or leaves its files alone.
LEMMA StepsOf ==
  [Next]_vars => /\ [LinksNext]_linkVars /\ [AssetsNext]_assetVars /\ [InboxNext]_inboxVars
                 /\ [RecoveryNext]_recoveryVars /\ [SkillsNext]_skillVars
                 /\ [ManifestEdit]_manifestVars /\ [NewNext]_newVars
<1>1. UNCHANGED vars => /\ UNCHANGED linkVars /\ UNCHANGED assetVars /\ UNCHANGED inboxVars
                        /\ UNCHANGED recoveryVars /\ UNCHANGED skillVars
                        /\ UNCHANGED manifestVars /\ UNCHANGED newVars
  BY DEF vars
<1>2. Next => /\ [LinksNext]_linkVars /\ [AssetsNext]_assetVars /\ [InboxNext]_inboxVars
              /\ [RecoveryNext]_recoveryVars /\ [SkillsNext]_skillVars
              /\ [ManifestEdit]_manifestVars /\ [NewNext]_newVars
  <2> SUFFICES ASSUME Next
               PROVE  /\ [LinksNext]_linkVars /\ [AssetsNext]_assetVars /\ [InboxNext]_inboxVars
                      /\ [RecoveryNext]_recoveryVars /\ [SkillsNext]_skillVars
                      /\ [ManifestEdit]_manifestVars /\ [NewNext]_newVars
    OBVIOUS
  <2>1. \/ Of("claims") \/ Of("conformance")
        \/ Of("links") /\ LinksNext
        \/ Of("assets") /\ AssetsNext
        \/ Of("inbox") /\ InboxNext
        \/ Of("recovery") /\ RecoveryNext
        \/ Of("skills") /\ SkillsNext
        \/ Of("manifests") /\ ManifestEdit
        \/ Of("new") /\ NewNext
    BY StepOfPart
  <2>2. \A p : Of(p) => /\ p # "links" => UNCHANGED linkVars
                        /\ p # "assets" => UNCHANGED assetVars
                        /\ p # "inbox" => UNCHANGED inboxVars
                        /\ p # "recovery" => UNCHANGED recoveryVars
                        /\ p # "skills" => UNCHANGED skillVars
                        /\ p # "manifests" => UNCHANGED manifestVars
                        /\ p # "new" => UNCHANGED newVars
    BY OthersKeep
  <2> QED
    BY <2>1, <2>2
<1> QED
  BY <1>1, <1>2

\* A behaviour of the project is a behaviour of each of its parts.
LEMMA PartsOf ==
  Spec => LinksSpec /\ AssetsSpec /\ InboxSpec /\ RecoverySpec /\ SkillsSpec /\ ManifestSpec /\ NewSpec
<1>1. Init => LinksInit /\ AssetsInit /\ InboxInit /\ RecoveryInit /\ SkillsInit /\ ManifestInit /\ NewInit
  BY DEF Init
<1>2. Spec => /\ LinksInit /\ AssetsInit /\ InboxInit /\ RecoveryInit /\ SkillsInit /\ ManifestInit /\ NewInit
              /\ [][LinksNext]_linkVars /\ [][AssetsNext]_assetVars /\ [][InboxNext]_inboxVars
              /\ [][RecoveryNext]_recoveryVars /\ [][SkillsNext]_skillVars
              /\ [][ManifestEdit]_manifestVars /\ [][NewNext]_newVars
  BY <1>1, StepsOf, PTL DEF Spec
<1> QED
  BY <1>2 DEF LinksSpec, AssetsSpec, InboxSpec, RecoverySpec, SkillsSpec, ManifestSpec, NewSpec

\* In a project edited step by step the link artifact of a module stays a link table
\* (implink): the refinement the run checks.
THEOREM ProjectLinks == Spec => LinksAreATable
  BY PartsOf, LinksRefine, PTL

\* When the link gate passes without drift the code is tagged (linkgate.go).
THEOREM ProjectTagged == Spec => []LinksTrue
<1>1. UndriftedAreTagged /\ GateMeansTagged => LinksTrue
  BY DEF LinksTrue
<1> QED
  BY <1>1, PartsOf, LinksTagged, PTL

\* claim new writes over no file, whatever else is edited meanwhile.
THEOREM ProjectNew == Spec => NewKeepsFiles
  BY PartsOf, NewKeeps, PTL

\* What a client is shown stands, whatever is edited beside it: images of claims and
\* the wording records keep (claim_assets.go, recover.go).
THEOREM ProjectShown == Spec => []ShownIsTrue
<1>1. AssetsFresh /\ KeptIsSigned => ShownIsTrue
  BY DEF ShownIsTrue
<1> QED
  BY <1>1, PartsOf, ImagesAreFresh, KeptWasSigned, PTL

\* In every project the polls of an inbox pass over no open thread but one written behind
\* a poll that the same poll passed, until it is written again (comment.go).
THEOREM ProjectInbox == Spec => []InboxTrue
<1>1. InboxComplete => InboxTrue
  BY DEF InboxTrue
<1> QED
  BY <1>1, PartsOf, InboxMissesNothing, PTL

\* In every project the panel of an edited claim is true to what was approved and to
\* what is there, whatever is edited beside it (approvaledit.go).
THEOREM ProjectPanels == Spec => []PanelsTrue
<1>1. PanelTrue => PanelsTrue
  BY DEF PanelsTrue
<1> QED
  BY <1>1, PartsOf, PanelIsTrue, PTL

\* Exports are sound in every project (skills_embed.go).
THEOREM ProjectSkills == Spec => []SkillsTrue
<1>1. SkillsSound => SkillsTrue
  BY DEF SkillsTrue
<1> QED
  BY <1>1, PartsOf, ExportsAreSound, PTL

\* Only a declaration touches the embodiments.
LEMMA DeclaredTypedStep == DeclaredTyped /\ [Next]_vars => DeclaredTyped'
<1>1. DeclaredTyped /\ UNCHANGED embodiment => DeclaredTyped'
  BY DEF DeclaredTyped
<1>2. Next => UNCHANGED embodiment \/ \E c \in DOMAIN embodiment : Declare(c)
  <2>1. \A p : Of(p) => (p # "conformance" => UNCHANGED embodiment)
    BY OthersKeep
  <2>2. Observe => UNCHANGED embodiment
    BY DEF Observe
  <2> QED
    BY <2>1, <2>2, StepOfPart
<1>3. UNCHANGED vars => UNCHANGED embodiment
  BY DEF vars
<1> QED
  BY <1>1, <1>2, <1>3, DeclareKeeps

\* Code is ready only on one well-formed observation of each of its checks that says
\* what the claim says, and a module with nothing found pins what another provides
\* (conformance.go, manifest.go).
THEOREM ProjectProvided == Spec => []ProvidedTrue
<1>1. DeclaredTyped /\ PinsProvided => ProvidedTrue
  BY DeclaredReady DEF ProvidedTrue
<1> QED
  BY <1>1, InitDeclaredTyped, DeclaredTypedStep, PartsOf, PinsAreProvided, PTL DEF Spec

\* Only the steps on claims touch them, and each counts one edit or none.
LEMMA ClaimStep ==
  ASSUME Next
  PROVE  UNCHANGED project
         \/ \E c \in Here : EditClaim(c) \/ Comment(c) \/ Flag(c) \/ Approve(c) \/ Release(c) \/ DeleteClaim(c)
<1>1. \A p : Of(p) => (p # "claims" => UNCHANGED project)
  BY DEF Of
<1> QED
  BY <1>1, StepOfPart

LEMMA StepCounts ==
  ASSUME Next
  PROVE  part' = part /\ (edits' = edits \/ (edits < MaxEdits[part] /\ edits' = edits + 1))
<1>0. \A p : Edit(p) \/ Run(p) => part' = part /\ (edits' = edits \/ (edits < MaxEdits[part] /\ edits' = edits + 1))
  BY DEF Edit, Run, Of
<1>1. \A c : EditClaim(c) \/ Comment(c) \/ Flag(c) \/ Approve(c) \/ Release(c) \/ DeleteClaim(c) => Edit("claims")
  BY DEF EditClaim, Comment, Flag, Approve, Release, DeleteClaim
<1>2. Observe \/ (\E c : Declare(c)) => Edit("conformance")
  BY DEF Declare, Observe
<1>3. Linking => Edit("links") \/ Run("links")
  BY DEF Linking
<1>4. Serving => Edit("assets") \/ Run("assets")
  BY DEF Serving
<1>5. Reviewing => Edit("inbox") \/ Run("inbox")
  BY DEF Reviewing
<1>6. Recovering => Edit("recovery") \/ Run("recovery")
  BY DEF Recovering
<1>7. Exporting => Edit("skills") \/ Run("skills")
  BY DEF Exporting
<1>8. Presenting => Edit("manifests")
  BY DEF Presenting
<1>9. Authoring => Edit("new") \/ Run("new")
  BY DEF Authoring
<1>10. \E p : Edit(p) \/ Run(p)
  BY <1>1, <1>2, <1>3, <1>4, <1>5, <1>6, <1>7, <1>8, <1>9, Zenon DEF Next
<1> QED
  BY <1>0, <1>10

\* The files of claims stay well formed.
LEMMA RewriteKeeps ==
  ASSUME ClaimsTyped, NEW c \in Here, NEW f \in Claim, Rewrite(c, f)
  PROVE  Here' \subseteq Ids /\ claims' \in [Here' -> Claim]
<1>1. claims \in [Here -> Claim] /\ Here \subseteq Ids
  BY DEF ClaimsTyped
<1>2. claims' = [claims EXCEPT ![c] = f] /\ DOMAIN claims' = Here
  BY DEF Rewrite, Here
<1>3. Here' = Here
  BY <1>2 DEF Here
<1>4. claims' \in [Here -> Claim]
  BY <1>1, <1>2
<1> QED
  BY <1>1, <1>3, <1>4

LEMMA ClaimIs ==
  ASSUME ClaimsTyped, NEW c \in Here
  PROVE  /\ claims[c] \in Claim /\ c \in Ids /\ claims[c].text \in Texts /\ claims[c].rests \in Lists
         /\ claims[c].status \in Statuses /\ claims[c].open \in BOOLEAN /\ claims[c].internals \in BOOLEAN
<1>1. claims[c] \in Claim /\ c \in Ids
  BY DEF ClaimsTyped
<1> QED
  BY <1>1 DEF Claim

LEMMA ListsAre ==
  ASSUME NEW s
  PROVE  s \in Lists <=> s \in Seq(Ids) /\ Len(s) <= MaxRests
<1>0. MaxRests \in Nat
  BY ReadinessAssumption
<1>1. ASSUME s \in Lists PROVE s \in Seq(Ids) /\ Len(s) <= MaxRests
  <2>1. PICK n \in 0..MaxRests : s \in [1..n -> Ids]
    BY <1>1 DEF Lists
  <2>2. n \in Nat /\ n <= MaxRests
    BY <1>0, <2>1
  <2>3. s \in Seq(Ids) /\ Len(s) = n
    BY <2>1, <2>2, SeqDef
  <2> QED
    BY <2>2, <2>3
<1>2. ASSUME s \in Seq(Ids), Len(s) <= MaxRests PROVE s \in Lists
  <2>1. Len(s) \in Nat /\ s \in [1..Len(s) -> Ids]
    BY <1>2
  <2>2. Len(s) \in 0..MaxRests
    BY <1>0, <1>2, <2>1
  <2> QED
    BY <2>1, <2>2 DEF Lists
<1> QED
  BY <1>1, <1>2

LEMMA BaselinesTyped ==
  ASSUME ClaimsTyped, NEW c \in Here
  PROVE  Baselines(c) \in [Ids -> Texts \cup {None}]
<1>1. \A d \in Here : claims[d].text \in Texts
  BY ClaimIs
<1> QED
  BY <1>1 DEF Baselines

LEMMA ClaimsKept ==
  ASSUME ClaimsTyped, NEW c \in Here,
         EditClaim(c) \/ Comment(c) \/ Flag(c) \/ Approve(c) \/ Release(c) \/ DeleteClaim(c)
  PROVE  ClaimsTyped'
<1>0. /\ claims[c] \in Claim /\ c \in Ids /\ claims[c].text \in Texts /\ claims[c].rests \in Lists
      /\ claims[c].status \in Statuses /\ claims[c].open \in BOOLEAN /\ claims[c].internals \in BOOLEAN
  BY ClaimIs
<1>t. /\ Here \subseteq Ids /\ claims \in [Here -> Claim]
      /\ rec \in [Ids -> Record \cup {None}]
      /\ base \in [Ids -> [Ids -> Texts \cup {None}]]
      /\ flags \subseteq Ids
  BY DEF ClaimsTyped
<1>1. ASSUME \E f \in Claim : Rewrite(c, f), UNCHANGED <<rec, base, flags>> PROVE ClaimsTyped'
  <2>1. Here' \subseteq Ids /\ claims' \in [Here' -> Claim]
    BY <1>1, RewriteKeeps
  <2> QED
    BY <1>1, <1>t, <2>1 DEF ClaimsTyped
<1>2. CASE EditClaim(c)
  <2>1. ASSUME NEW t \in Texts PROVE [claims[c] EXCEPT !.text = t] \in Claim
    BY <1>0 DEF Claim
  <2>2. ASSUME NEW s \in Statuses PROVE [claims[c] EXCEPT !.status = s] \in Claim
    BY <1>0 DEF Claim
  <2>3. ASSUME NEW d \in Ids, Len(claims[c].rests) < MaxRests
        PROVE  [claims[c] EXCEPT !.rests = Append(@, d)] \in Claim
    <3>1. PICK s : s = claims[c].rests
      OBVIOUS
    <3>2. s \in Seq(Ids) /\ Len(s) \in Nat /\ Len(s) < MaxRests
      BY <1>0, <2>3, <3>1, ListsAre
    <3>3. Append(s, d) \in Seq(Ids) /\ Len(Append(s, d)) <= MaxRests
      BY <3>2, ReadinessAssumption
    <3>4. PICK q : q = Append(s, d)
      OBVIOUS
    <3>5. q \in Lists
      BY <3>3, <3>4, ListsAre
    <3>6. [claims[c] EXCEPT !.rests = q] \in Claim
      BY <1>0, <3>5 DEF Claim
    <3> QED
      BY <3>1, <3>4, <3>6
  <2>4. ASSUME claims[c].rests # <<>>
        PROVE  [claims[c] EXCEPT !.rests = Tail(@)] \in Claim
    <3>1. PICK s : s = claims[c].rests
      OBVIOUS
    <3>2. s \in Seq(Ids) /\ Len(s) \in Nat /\ Len(s) <= MaxRests /\ s # <<>>
      BY <1>0, <2>4, <3>1, ListsAre
    <3>3. Tail(s) \in Seq(Ids) /\ Len(Tail(s)) <= MaxRests
      BY <3>2, ReadinessAssumption
    <3>4. PICK q : q = Tail(s)
      OBVIOUS
    <3>5. q \in Lists
      BY <3>3, <3>4, ListsAre
    <3>6. [claims[c] EXCEPT !.rests = q] \in Claim
      BY <1>0, <3>5 DEF Claim
    <3> QED
      BY <3>1, <3>4, <3>6
  <2>5. [claims[c] EXCEPT !.internals = ~@] \in Claim
    BY <1>0 DEF Claim
  <2>6. UNCHANGED <<rec, base, flags>>
    BY <1>2 DEF EditClaim
  <2>7. \/ \E t \in Texts : Rewrite(c, [claims[c] EXCEPT !.text = t])
        \/ \E s \in Statuses : Rewrite(c, [claims[c] EXCEPT !.status = s])
        \/ \E d \in Ids : Len(claims[c].rests) < MaxRests
                          /\ Rewrite(c, [claims[c] EXCEPT !.rests = Append(@, d)])
        \/ claims[c].rests # <<>> /\ Rewrite(c, [claims[c] EXCEPT !.rests = Tail(@)])
        \/ Rewrite(c, [claims[c] EXCEPT !.internals = ~@])
    BY <1>2 DEF EditClaim
  <2>8. \E f \in Claim : Rewrite(c, f)
    BY <2>1, <2>2, <2>3, <2>4, <2>5, <2>7, Zenon
  <2> QED
    BY <1>1, <2>6, <2>8
<1>3. CASE Comment(c)
  <2>1. [claims[c] EXCEPT !.open = ~@] \in Claim
    BY <1>0 DEF Claim
  <2> QED
    BY <1>1, <1>3, <2>1 DEF Comment
<1>4. CASE Flag(c)
  <2>1. claims' = claims /\ UNCHANGED <<rec, base>> /\ flags' \subseteq Ids
    BY <1>4, <1>0, <1>t DEF Flag
  <2> QED
    BY <1>t, <2>1 DEF ClaimsTyped, Here
<1>5. CASE Approve(c)
  <2>1. [claims[c] EXCEPT !.status = "locked"] \in Claim
    BY <1>0 DEF Claim, Statuses
  <2>2. Here' \subseteq Ids /\ claims' \in [Here' -> Claim]
    BY <1>5, <2>1, RewriteKeeps DEF Approve
  <2>3. rec' \in [Ids -> Record \cup {None}]
    <3>1. [text |-> claims[c].text, released |-> FALSE] \in Record
      BY <1>0 DEF Record
    <3> QED
      BY <1>5, <1>t, <3>1 DEF Approve
  <2>4. base' \in [Ids -> [Ids -> Texts \cup {None}]]
    <3>1. PICK b : b = Baselines(c)
      OBVIOUS
    <3>2. PICK B : B = [Ids -> Texts \cup {None}]
      OBVIOUS
    <3>3. b \in B /\ base \in [Ids -> B] /\ base' = [base EXCEPT ![c] = b]
      BY <1>5, <1>t, <3>1, <3>2, BaselinesTyped DEF Approve
    <3>4. base' \in [Ids -> B]
      BY <3>3
    <3> QED
      BY <3>2, <3>4
  <2>5. flags' = flags
    BY <1>5 DEF Approve
  <2> QED
    BY <1>t, <2>2, <2>3, <2>4, <2>5 DEF ClaimsTyped
<1>6. CASE Release(c)
  <2>1. [claims[c] EXCEPT !.status = "draft"] \in Claim
    BY <1>0 DEF Claim, Statuses
  <2>2. Here' \subseteq Ids /\ claims' \in [Here' -> Claim]
    BY <1>6, <2>1, RewriteKeeps DEF Release
  <2>3. rec' \in [Ids -> Record \cup {None}]
    <3>1. rec[c] \in Record
      BY <1>6, <1>0, <1>t DEF Release
    <3>2. [rec[c] EXCEPT !.released = TRUE] \in Record
      BY <3>1 DEF Record
    <3>3. rec' = [rec EXCEPT ![c] = [rec[c] EXCEPT !.released = TRUE]]
      BY <1>6, <1>0, <1>t DEF Release
    <3> QED
      BY <1>t, <3>2, <3>3
  <2>4. base' = base /\ flags' \subseteq Ids
    BY <1>6, <1>t DEF Release
  <2> QED
    BY <1>t, <2>2, <2>3, <2>4 DEF ClaimsTyped
<1>7. CASE DeleteClaim(c)
  <2>1. claims' = [d \in Here \ {c} |-> claims[d]] /\ UNCHANGED <<rec, base, flags>>
    BY <1>7 DEF DeleteClaim
  <2>2. Here' = Here \ {c}
    BY <2>1 DEF Here
  <2>3. claims' \in [Here \ {c} -> Claim]
    BY <1>t, <2>1
  <2> QED
    BY <1>t, <2>1, <2>2, <2>3 DEF ClaimsTyped
<1> QED
  BY <1>2, <1>3, <1>4, <1>5, <1>6, <1>7

LEMMA ClaimsTypedStep == ClaimsTyped /\ [Next]_vars => ClaimsTyped'
<1>1. ClaimsTyped /\ UNCHANGED project => ClaimsTyped'
  BY DEF ClaimsTyped, project, Here
<1>2. UNCHANGED vars => UNCHANGED project
  BY DEF vars
<1>3. ClaimsTyped /\ Next => ClaimsTyped'
  BY <1>1, ClaimStep, ClaimsKept
<1> QED
  BY <1>1, <1>2, <1>3

LEMMA ClaimsTypedInit == Init => ClaimsTyped
<1> SUFFICES ASSUME Init PROVE ClaimsTyped
  OBVIOUS
<1>1. PICK e : claims = Approved(e) /\ \A c \in Ids : claims[c].rests \in Lists
  BY Zenon DEF Init, ClaimsInit
<1>2. Here = Ids /\ claims = [c \in Ids |-> claims[c]]
  BY <1>1 DEF Here, Approved
<1>3. ASSUME NEW c \in Ids PROVE claims[c] \in Claim /\ claims[c].text \in Texts
  <2>1. PICK s : s = SetToSortSeq({d \in Ids : <<c, d>> \in e}, <)
    OBVIOUS
  <2>2. PICK t : t = CHOOSE x \in Texts : TRUE
    OBVIOUS
  <2>3. t \in Texts
    BY <2>2, ReadinessAssumption
  <2>4. claims[c] = [status |-> "locked", text |-> t, rests |-> s, open |-> FALSE, internals |-> FALSE]
    BY <1>1, <2>1, <2>2 DEF Approved
  <2>5. s \in Lists
    BY <1>1, <2>4
  <2> QED
    BY <2>3, <2>4, <2>5 DEF Claim, Statuses
<1>4. claims \in [Here -> Claim]
  BY <1>2, <1>3
<1>5. rec \in [Ids -> Record \cup {None}]
  BY <1>3 DEF Init, Record
<1>6. base \in [Ids -> [Ids -> Texts \cup {None}]]
  <2>1. \A c \in Ids : Baselines(c) \in [Ids -> Texts \cup {None}]
    BY <1>2, <1>3 DEF Baselines
  <2>2. base = [c \in Ids |-> Baselines(c)]
    BY DEF Init
  <2> QED
    BY <2>1, <2>2
<1> QED
  BY <1>2, <1>4, <1>5, <1>6 DEF Init, ClaimsTyped

\* What is left of a list without its internals.
LEMMA DropLeaves ==
  ASSUME NEW s \in Seq(Ids)
  PROVE  DropInternalsTargets(s) \in Seq(Ids \ InternalsIDs)
<1>s. PICK S : S = Seq(Ids \ InternalsIDs)
  OBVIOUS
<1>h. PICK hi \in Nat : hi = Len(s)
  OBVIOUS
<1>b. PICK b : b = [n \in 0..hi |-> [x \in S |-> IF n = 0 \/ s[n] \in InternalsIDs THEN x ELSE Append(x, s[n])]]
  OBVIOUS
<1> DEFINE Was(f) == f = [n \in 0..Len(s) |->
          IF n = 0 THEN <<>>
          ELSE IF s[n] \in InternalsIDs THEN f[n-1] ELSE Append(f[n-1], s[n])]
           Is(f) == f = [n \in 0..hi |->
          IF n = 0 THEN <<>>
          ELSE IF s[n] \in InternalsIDs THEN f[n-1] ELSE Append(f[n-1], s[n])]
<1>w. \A f : Was(f) <=> Is(f)
  BY <1>h
<1>f. PICK f : f = CHOOSE h : Was(h)
  OBVIOUS
<1>0. 0 \in Nat /\ 0 <= hi /\ hi \in 0..hi
  OBVIOUS
<1>1. <<>> \in S
  BY <1>s
<1>2. b \in Rounds(S, 0, hi)
  <2>1. ASSUME NEW n \in 0..hi, NEW x \in S
        PROVE  (IF n = 0 \/ s[n] \in InternalsIDs THEN x ELSE Append(x, s[n])) \in S
    <3>1. CASE n = 0 \/ s[n] \in InternalsIDs
      BY <3>1
    <3>2. CASE n # 0 /\ s[n] \notin InternalsIDs
      <4>1. n \in 1..Len(s)
        BY <3>2, <1>h
      <4>2. s[n] \in Ids \ InternalsIDs
        BY <4>1, <3>2
      <4> QED
        BY <3>2, <4>2, <1>s
    <3> QED
      BY <3>1, <3>2
  <2> QED
    BY <2>1, <1>b DEF Rounds
<1>m. \A n \in 0..hi : n # 0 => n \in (0 + 1)..hi /\ n - 1 \in 0..hi
  BY <1>0
<1>3. PICK g \in [0..hi -> S] : Searches(g, <<>>, b, 0, hi)
  BY <1>0, <1>1, <1>2, SearchExists, Zenon
<1>4. Is(g)
  <2>1. \A n \in 0..hi : n # 0 => g[n] = b[n][g[n-1]] /\ g[n-1] \in S
    BY <1>3, <1>m DEF Searches
  <2>2. \A n \in 0..hi : n # 0 => g[n] = IF s[n] \in InternalsIDs THEN g[n-1] ELSE Append(g[n-1], s[n])
    BY <2>1, <1>b
  <2>3. \A n \in 0..hi : g[n] = IF n = 0 THEN <<>>
                                ELSE IF s[n] \in InternalsIDs THEN g[n-1] ELSE Append(g[n-1], s[n])
    BY <2>2, <1>3 DEF Searches
  <2> QED
    BY <2>3
<1> HIDE DEF Was
<1>5. Is(f)
  BY <1>4, <1>w, <1>f
<1>6. GoesLike(f, S, <<>>, b, 0, hi)
  <2>1. f = [n \in 0..hi |-> f[n]] /\ f[0] = <<>>
    BY <1>5, <1>0
  <2>2. \A n \in (0 + 1)..hi : n \in 0..hi /\ n # 0
    BY <1>0
  <2>3. \A n \in (0 + 1)..hi : f[n-1] \in S => f[n] = b[n][f[n-1]]
    BY <1>5, <2>2, <1>b
  <2> QED
    BY <2>1, <2>3 DEF GoesLike
<1>7. f \in [0..hi -> S]
  BY <1>0, <1>1, <1>2, <1>6, SearchTyped, Zenon
<1>8. DropInternalsTargets(s) = f[hi]
  BY <1>f, <1>h DEF DropInternalsTargets, Was
<1> QED
  BY <1>7, <1>8, <1>0, <1>s

\* What is redacted names nothing kept internal.
LEMMA RedactHides ==
  ASSUME ClaimsTyped, NEW d
  PROVE  redactID(d) \notin InternalsIDs
<1>1. InternalsIDs \subseteq Ids /\ 0 \notin Ids
  <2>1. InternalsIDs \subseteq Ids
    BY DEF InternalsIDs, ClaimsTyped
  <2>2. 0 \notin 1..MaxId
    BY ReadinessAssumption
  <2> QED
    BY <2>1, <2>2 DEF Ids
<1> QED
  BY <1>1 DEF redactID, RedactedInternalsID

LEMMA DocumentHides ==
  ASSUME ClaimsTyped, NEW c \in InternalsIDs
  PROVE  c \notin Mentioned
<1> SUFFICES ASSUME c \in Mentioned PROVE FALSE
  OBVIOUS
<1>1. PICK doc : doc = Document
  OBVIOUS
<1>2. PICK k \in DOMAIN doc :
         c \in {k} \cup ToSet(doc[k].rests)
               \cup UNION {{a.dep} \cup ToSet(a.path) : a \in doc[k].conditions \cup doc[k].causes}
  BY <1>1 DEF Mentioned
<1>3. k \in Here /\ k \notin InternalsIDs /\ doc[k] = entryForIntegration(k)
  BY <1>1 DEF Document, IntegrationClaims
<1>4. /\ doc[k].rests = DropInternalsTargets(claims[k].rests)
      /\ doc[k].conditions = redactAssessment(Conditions(k)) /\ doc[k].causes = redactAssessment(Causes(k))
  BY <1>3 DEF entryForIntegration
<1>5. c \notin ToSet(doc[k].rests)
  <2>1. claims[k].rests \in Seq(Ids)
    BY <1>3, RestsTyped
  <2>2. PICK s : s = claims[k].rests
    OBVIOUS
  <2>3. DropInternalsTargets(s) \in Seq(Ids \ InternalsIDs)
    BY <2>1, <2>2, DropLeaves
  <2>4. doc[k].rests \in Seq(Ids \ InternalsIDs)
    BY <2>2, <2>3, <1>4
  <2> QED
    BY <2>4 DEF ToSet
<1>6. PICK a \in doc[k].conditions \cup doc[k].causes : c \in {a.dep} \cup ToSet(a.path)
  BY <1>2, <1>3, <1>5
<1>7. PICK e \in Conditions(k) \cup Causes(k) :
         a = [e EXCEPT !.dep = redactID(e.dep), !.path = [i \in DOMAIN e.path |-> redactID(e.path[i])]]
  BY <1>4, <1>6 DEF redactAssessment
<1>8. e = [kind |-> e.kind, dep |-> e.dep, path |-> e.path]
  BY <1>3, ConditionsEvidence, CausesEvidence DEF Evidence
<1>9. PICK p : p = [i \in DOMAIN e.path |-> redactID(e.path[i])]
  OBVIOUS
<1>10. a.dep = redactID(e.dep) /\ a.path = p
  BY <1>7, <1>8, <1>9
<1>11. \A i \in DOMAIN p : p[i] \notin InternalsIDs
  BY <1>9, RedactHides
<1> QED
  BY <1>6, <1>10, <1>11, RedactHides DEF ToSet

\* Assessments are right and so is their evidence (readiness.Compute): in every project
\* that people edit a step at a time, a claim is ready exactly when all it stands on is
\* sound, each path shown is the first of the shortest, and the graph draws its steps.
THEOREM ProjectReadiness == Spec => []ReadinessTrue
<1> DEFINE Kept == ClaimsTyped /\ edits \in 0..MaxEdits[part] /\ part \in DOMAIN MaxEdits
<1>1. Init => Kept
  <2> SUFFICES ASSUME Init PROVE Kept
    OBVIOUS
  <2>1. part \in DOMAIN MaxEdits /\ edits = 0
    BY DEF Init
  <2> QED
    BY <2>1, ClaimsTypedInit, DossierAssumption
<1>2. Kept /\ [Next]_vars => Kept'
  <2> SUFFICES ASSUME Kept, [Next]_vars PROVE Kept'
    OBVIOUS
  <2>1. ClaimsTyped'
    BY ClaimsTypedStep
  <2>2. part' = part /\ (edits' = edits \/ (edits < MaxEdits[part] /\ edits' = edits + 1))
    BY StepCounts DEF vars
  <2>3. MaxEdits[part] \in Nat
    BY DossierAssumption
  <2> QED
    BY <2>1, <2>2, <2>3
<1>3. Kept /\ LinksInv => ReadinessTrue
  <2> SUFFICES ASSUME Kept, LinksInv PROVE ReadinessTrue
    OBVIOUS
  <2>1. stands \in [Owned -> Standing] /\ links \in Artifacts
    BY DEF LinksInv, LinksTyped
  <2>2. DOMAIN links \subseteq LinkKeys /\ \A k \in DOMAIN links : links[k] \in Row
    BY <2>1 DEF Artifacts
  <2>3. TypeOK
    BY <2>1, <2>2 DEF TypeOK
  <2> QED
    BY <2>3, AssessedSoundly, SearchIsLeast, EvidenceDrawn DEF ReadinessTrue
<1>4. Spec => []Kept
  BY <1>1, <1>2, PTL DEF Spec
<1>5. LinksSpec => []LinksInv
  BY InitLinksInv, NextLinksInv, PTL DEF LinksSpec
<1> QED
  BY <1>3, <1>4, <1>5, PartsOf, PTL

\* Nothing an integrating project reads names a claim kept internal (catalog, visibility).
THEOREM ProjectHides == Spec => []NoInternalsLeak
<1>1. ClaimsTyped => NoInternalsLeak
  BY DocumentHides DEF NoInternalsLeak
<1> QED
  BY <1>1, ClaimsTypedInit, ClaimsTypedStep, PTL DEF Spec

-----------------------------------------------------------------------------
(* Sums and budgets: a fold over a set takes its members in the order CHOOSE picks  *)
(* them, and a sum comes out the same whichever is taken first.                     *)

\* h is a fold of f over the subsets of S, from from 'from' on.
IsFold(h, f, S, from, op) ==
    \A s \in SUBSET S : h[s] = IF s = {} THEN from
                               ELSE LET x == CHOOSE x \in s : TRUE IN op[<<f[x], h[s \ {x}]>>]

\* What is left of a set without the member CHOOSE takes.
LEMMA Rest ==
  ASSUME NEW s, IsFiniteSet(s), s # {}, NEW x, x = CHOOSE y \in s : TRUE
  PROVE  /\ x \in s /\ s \ {x} \in SUBSET s /\ IsFiniteSet(s \ {x})
         /\ Cardinality(s) \in Nat /\ Cardinality(s \ {x}) = Cardinality(s) - 1
         /\ Cardinality(s \ {x}) \in Nat
<1>1. x \in s
  OBVIOUS
<1> QED
  BY <1>1, FS_RemoveElement, FS_CardinalityType

\* A fold over the subsets of a finite set exists, by the size of the subset.
LEMMA FoldExists ==
  ASSUME NEW V, NEW A, NEW from \in A, NEW op \in [V \X A -> A], NEW S, IsFiniteSet(S),
         NEW f, \A x \in S : f[x] \in V
  PROVE  \E h \in [SUBSET S -> A] : IsFold(h, f, S, from, op)
<1> DEFINE Next1(h) == [s \in SUBSET S |-> IF s = {} THEN from
                         ELSE op[<<f[CHOOSE x \in s : TRUE], h[s \ {CHOOSE x \in s : TRUE}]>>]]
           Eq(h, s) == h[s] = Next1(h)[s]
           Good(n) == \E h \in [SUBSET S -> A] : \A s \in SUBSET S : Cardinality(s) <= n => Eq(h, s)
           Bad == {n \in Nat : ~Good(n)}
<1>f. \A s \in SUBSET S : IsFiniteSet(s) /\ Cardinality(s) \in Nat
  BY FS_Subset, FS_CardinalityType
<1>t. ASSUME NEW h \in [SUBSET S -> A] PROVE Next1(h) \in [SUBSET S -> A]
  <2>1. ASSUME NEW s \in SUBSET S, s # {} 
        PROVE  op[<<f[CHOOSE x \in s : TRUE], h[s \ {CHOOSE x \in s : TRUE}]>>] \in A
    <3>1. (CHOOSE x \in s : TRUE) \in S
      BY <2>1
    <3>2. h[s \ {CHOOSE x \in s : TRUE}] \in A
      OBVIOUS
    <3> QED
      BY <3>1, <3>2
  <2> QED
    BY <2>1
<1>1. Bad = {}
  <2> SUFFICES ASSUME Bad # {} PROVE FALSE
    OBVIOUS
  <2>1. PICK n \in Bad : \A k \in Bad : n <= k
    BY LeastNat
  <2>2. CASE n = 0
    <3>1. PICK h : h = [s \in SUBSET S |-> from]
      OBVIOUS
    <3>2. ASSUME NEW s \in SUBSET S, Cardinality(s) <= 0 PROVE Eq(h, s)
      <4>1. s = {}
        BY <3>2, <1>f, FS_EmptySet
      <4> QED
        BY <3>1, <4>1
    <3>a. h \in [SUBSET S -> A]
      BY <3>1
    <3> HIDE DEF Eq
    <3>3. Good(0)
      BY <3>a, <3>2
    <3> QED
      BY <3>3, <2>2, <2>1
  <2>3. CASE n # 0
    <3>1. n - 1 \in Nat /\ Good(n - 1)
      <4>1. n - 1 \in Nat /\ ~(n <= n - 1)
        BY <2>1, <2>3
      <4> HIDE DEF Good
      <4> QED
        BY <4>1, <2>1
    <3>2. PICK h \in [SUBSET S -> A] : \A s \in SUBSET S : Cardinality(s) <= n - 1 => Eq(h, s)
      BY <3>1
    <3>3. PICK g : g = Next1(h)
      OBVIOUS
    <3>4. g \in [SUBSET S -> A]
      BY <3>3, <1>t
    <3>5. ASSUME NEW s \in SUBSET S, Cardinality(s) <= n PROVE Eq(g, s)
      <4>1. CASE s = {}
        BY <3>3, <4>1
      <4>2. CASE s # {}
        <5>1. PICK x : x = CHOOSE y \in s : TRUE
          OBVIOUS
        <5>2. s \ {x} \in SUBSET S /\ Cardinality(s \ {x}) <= n - 1
          <6>1. IsFiniteSet(s)
            BY <1>f
          <6>2. /\ x \in s /\ s \ {x} \in SUBSET s
                /\ Cardinality(s) \in Nat /\ Cardinality(s \ {x}) = Cardinality(s) - 1
            BY <6>1, <4>2, <5>1, Rest
          <6> QED
            BY <6>2, <3>5, <2>1
        <5>3. h[s \ {x}] = Next1(h)[s \ {x}]
          BY <5>2, <3>2
        <5>4. g[s \ {x}] = h[s \ {x}]
          BY <5>3, <3>3
        <5>5. g[s] = op[<<f[x], h[s \ {x}]>>]
          BY <3>3, <4>2, <5>1
        <5>6. Next1(g)[s] = op[<<f[x], g[s \ {x}]>>]
          BY <4>2, <5>1
        <5> QED
          BY <5>4, <5>5, <5>6
      <4> QED
        BY <4>1, <4>2
    <3>6. Good(n)
      BY <3>4, <3>5
    <3> QED
      BY <3>6, <2>1
  <2> QED
    BY <2>2, <2>3
<1>2. Good(Cardinality(S))
  BY <1>1, <1>f
<1>3. PICK h \in [SUBSET S -> A] : \A s \in SUBSET S : Cardinality(s) <= Cardinality(S) => Eq(h, s)
  BY <1>2
<1>4. ASSUME NEW s \in SUBSET S PROVE Eq(h, s)
  BY <1>3, FS_Subset
<1> QED
  BY <1>4 DEF IsFold

\* Two folds agree where what they fold does.
LEMMA FoldUnique ==
  ASSUME NEW from, NEW op, NEW S, IsFiniteSet(S), NEW T, IsFiniteSet(T),
         NEW f, NEW g, NEW h, NEW k, IsFold(h, f, S, from, op), IsFold(k, g, T, from, op),
         NEW U, U \subseteq S, U \subseteq T, \A x \in U : f[x] = g[x]
  PROVE  h[U] = k[U]
<1> DEFINE Bad == {n \in Nat : \E s \in SUBSET U : Cardinality(s) = n /\ h[s] # k[s]}
<1>f. \A s \in SUBSET U : IsFiniteSet(s) /\ Cardinality(s) \in Nat
  BY FS_Subset, FS_CardinalityType
<1>1. Bad = {}
  <2> SUFFICES ASSUME Bad # {} PROVE FALSE
    OBVIOUS
  <2>1. PICK n \in Bad : \A m \in Bad : n <= m
    BY LeastNat
  <2>2. PICK s \in SUBSET U : Cardinality(s) = n /\ h[s] # k[s]
    BY <2>1
  <2>3. s \in SUBSET S /\ s \in SUBSET T
    OBVIOUS
  <2>4. s # {}
    BY <2>2, <2>3 DEF IsFold
  <2>5. PICK x : x = CHOOSE y \in s : TRUE
    OBVIOUS
  <2>6. x \in s /\ s \ {x} \in SUBSET U /\ Cardinality(s \ {x}) \in Nat /\ ~(n <= Cardinality(s \ {x}))
    <3>1. IsFiniteSet(s)
      BY <1>f
    <3>2. /\ x \in s /\ s \ {x} \in SUBSET s /\ Cardinality(s \ {x}) \in Nat
          /\ Cardinality(s) \in Nat /\ Cardinality(s \ {x}) = Cardinality(s) - 1
      BY <3>1, <2>4, <2>5, Rest
    <3> QED
      BY <3>2, <2>2
  <2>7. h[s \ {x}] = k[s \ {x}]
    <3>1. Cardinality(s \ {x}) \notin Bad
      BY <2>6, <2>1
    <3> QED
      BY <3>1, <2>6
  <2>8. h[s] = op[<<f[x], h[s \ {x}]>>] /\ k[s] = op[<<g[x], k[s \ {x}]>>]
    BY <2>3, <2>4, <2>5 DEF IsFold
  <2> QED
    BY <2>2, <2>6, <2>7, <2>8
<1> QED
  BY <1>1, <1>f

\* Addition as a function of pairs, for a fold to take.
Plus == [p \in Nat \X Nat |-> p[1] + p[2]]

\* The library's sum over a set is a fold of addition.
LEMMA SumFolds ==
  ASSUME NEW S, IsFiniteSet(S), NEW f, \A x \in S : f[x] \in Nat
  PROVE  \E h \in [SUBSET S -> Nat] : IsFold(h, f, S, 0, Plus) /\ SumFunctionOnSet(f, S) = h[S]
<1> DEFINE Was(h) == h = [s \in SUBSET S |-> IF s = {} THEN 0
                            ELSE LET x == CHOOSE x \in s : TRUE IN f[x] + h[s \ {x}]]
<1>1. PICK g : g = CHOOSE h : Was(h)
  OBVIOUS
<1>2. SumFunctionOnSet(f, S) = g[S]
  BY <1>1 DEF SumFunctionOnSet, FoldFunctionOnSet, MapThenFoldSet
<1>3. PICK h \in [SUBSET S -> Nat] : IsFold(h, f, S, 0, Plus)
  <2>1. Plus \in [Nat \X Nat -> Nat]
    BY DEF Plus
  <2> HIDE DEF Plus
  <2> QED
    BY <2>1, FoldExists, Zenon
<1>4. ASSUME NEW k \in [SUBSET S -> Nat], IsFold(k, f, S, 0, Plus) PROVE Was(k)
  <2>1. ASSUME NEW s \in SUBSET S, s # {}
        PROVE  k[s] = LET x == CHOOSE x \in s : TRUE IN f[x] + k[s \ {x}]
    <3>1. PICK x : x = CHOOSE y \in s : TRUE
      OBVIOUS
    <3>2. x \in S /\ f[x] \in Nat /\ k[s \ {x}] \in Nat
      BY <3>1, <2>1
    <3>3. k[s] = Plus[<<f[x], k[s \ {x}]>>]
      BY <2>1, <3>1, <1>4 DEF IsFold
    <3>4. k[s] = f[x] + k[s \ {x}]
      BY <3>2, <3>3 DEF Plus
    <3> QED
      BY <3>1, <3>4
  <2>2. k[{}] = 0
    BY <1>4 DEF IsFold
  <2> QED
    BY <2>1, <2>2
<1>5. Was(g)
  <2>1. Was(h)
    BY <1>3, <1>4
  <2> HIDE DEF Was
  <2> QED
    BY <2>1, <1>1
<1>6. \A s \in SUBSET S : IsFiniteSet(s) /\ Cardinality(s) \in Nat
  BY FS_Subset, FS_CardinalityType
<1> DEFINE Bad == {n \in Nat : \E s \in SUBSET S : Cardinality(s) = n /\ g[s] # h[s]}
<1>7. Bad = {}
  <2> SUFFICES ASSUME Bad # {} PROVE FALSE
    OBVIOUS
  <2>1. PICK n \in Bad : \A m \in Bad : n <= m
    BY LeastNat
  <2>2. PICK s \in SUBSET S : Cardinality(s) = n /\ g[s] # h[s]
    BY <2>1
  <2>3. s # {}
    <3>1. g[{}] = 0 /\ h[{}] = 0
      BY <1>3, <1>5 DEF IsFold
    <3> QED
      BY <3>1, <2>2
  <2>4. PICK x : x = CHOOSE y \in s : TRUE
    OBVIOUS
  <2>5. x \in s /\ s \ {x} \in SUBSET S /\ Cardinality(s \ {x}) \in Nat /\ ~(n <= Cardinality(s \ {x}))
    <3>1. IsFiniteSet(s)
      BY <1>6
    <3>2. /\ x \in s /\ s \ {x} \in SUBSET s /\ Cardinality(s \ {x}) \in Nat
          /\ Cardinality(s) \in Nat /\ Cardinality(s \ {x}) = Cardinality(s) - 1
      BY <3>1, <2>3, <2>4, Rest
    <3> QED
      BY <3>2, <2>2
  <2>6. g[s \ {x}] = h[s \ {x}]
    <3>1. Cardinality(s \ {x}) \notin Bad
      BY <2>5, <2>1
    <3> QED
      BY <3>1, <2>5
  <2>7. g[s] = f[x] + g[s \ {x}]
    BY <1>5, <2>3, <2>4
  <2>8. h[s] = f[x] + h[s \ {x}]
    <3>1. Was(h)
      BY <1>3, <1>4
    <3> QED
      BY <3>1, <2>3, <2>4
  <2> QED
    BY <2>2, <2>6, <2>7, <2>8
<1>8. g[S] = h[S]
  BY <1>6, <1>7
<1> QED
  BY <1>2, <1>3, <1>8

\* Sums of numbers agree when the numbers do.
LEMMA SumSame ==
  ASSUME NEW S, IsFiniteSet(S), NEW f, NEW g, \A x \in S : f[x] \in Nat /\ g[x] = f[x]
  PROVE  SumFunctionOnSet(g, S) = SumFunctionOnSet(f, S)
<1>1. PICK h \in [SUBSET S -> Nat] : IsFold(h, f, S, 0, Plus) /\ SumFunctionOnSet(f, S) = h[S]
  BY SumFolds
<1>2. PICK k \in [SUBSET S -> Nat] : IsFold(k, g, S, 0, Plus) /\ SumFunctionOnSet(g, S) = k[S]
  BY SumFolds
<1>3. h[S] = k[S]
  BY <1>1, <1>2, FoldUnique
<1> QED
  BY <1>1, <1>2, <1>3

\* A sum takes the chosen number and the sum of the others.
LEMMA SumChosen ==
  ASSUME NEW S, IsFiniteSet(S), NEW f, \A x \in S : f[x] \in Nat
  PROVE  /\ SumFunctionOnSet(f, S) \in Nat
         /\ S = {} => SumFunctionOnSet(f, S) = 0
         /\ S # {} => LET x == CHOOSE x \in S : TRUE
                      IN SumFunctionOnSet(f, S) = f[x] + SumFunctionOnSet(f, S \ {x})
<1>1. PICK h \in [SUBSET S -> Nat] : IsFold(h, f, S, 0, Plus) /\ SumFunctionOnSet(f, S) = h[S]
  BY SumFolds
<1>2. PICK x : x = CHOOSE y \in S : TRUE
  OBVIOUS
<1>3. ASSUME S # {} PROVE SumFunctionOnSet(f, S) = f[x] + SumFunctionOnSet(f, S \ {x})
  <2>1. x \in S /\ IsFiniteSet(S \ {x}) /\ S \ {x} \subseteq S
    BY <1>2, <1>3, Rest
  <2>2. PICK k \in [SUBSET (S \ {x}) -> Nat] : IsFold(k, f, S \ {x}, 0, Plus)
                                            /\ SumFunctionOnSet(f, S \ {x}) = k[S \ {x}]
    BY <2>1, SumFolds
  <2>3. k[S \ {x}] = h[S \ {x}]
    BY <1>1, <2>1, <2>2, FoldUnique
  <2>4. h[S] = Plus[<<f[x], h[S \ {x}]>>]
    BY <1>1, <1>2, <1>3 DEF IsFold
  <2>5. h[S \ {x}] \in Nat /\ f[x] \in Nat
    BY <2>1
  <2>6. h[S] = f[x] + h[S \ {x}]
    BY <2>4, <2>5 DEF Plus
  <2> QED
    BY <1>1, <2>2, <2>3, <2>6
<1>4. ASSUME S = {} PROVE SumFunctionOnSet(f, S) = 0
  BY <1>1, <1>4 DEF IsFold
<1>5. SumFunctionOnSet(f, S) \in Nat
  BY <1>1
<1> QED
  BY <1>2, <1>3, <1>4, <1>5

\* Any number can be taken first.
LEMMA SumAt ==
  ASSUME NEW S, IsFiniteSet(S), NEW f, \A x \in S : f[x] \in Nat, NEW x \in S
  PROVE  /\ SumFunctionOnSet(f, S) = f[x] + SumFunctionOnSet(f, S \ {x})
         /\ SumFunctionOnSet(f, S) \in Nat /\ SumFunctionOnSet(f, S \ {x}) \in Nat
<1> DEFINE Sum(s) == SumFunctionOnSet(f, s)
           Off(s) == \E y \in s : Sum(s) # f[y] + Sum(s \ {y})
           Bad == {n \in Nat : \E s \in SUBSET S : Cardinality(s) = n /\ Off(s)}
<1>0. ASSUME NEW s \in SUBSET S, NEW y \in s
      PROVE  /\ IsFiniteSet(s) /\ Cardinality(s) \in Nat /\ s \ {y} \in SUBSET S
             /\ Cardinality(s \ {y}) \in Nat /\ Cardinality(s \ {y}) < Cardinality(s)
  <2>1. IsFiniteSet(s)
    BY FS_Subset
  <2>2. Cardinality(s) \in Nat /\ IsFiniteSet(s \ {y}) /\ Cardinality(s \ {y}) = Cardinality(s) - 1
    BY <2>1, FS_RemoveElement, FS_CardinalityType
  <2>3. Cardinality(s \ {y}) \in Nat
    BY <2>2, FS_CardinalityType
  <2> QED
    BY <2>1, <2>2, <2>3
<1>1. \A s \in SUBSET S : IsFiniteSet(s) /\ Sum(s) \in Nat
  BY FS_Subset, SumChosen
<1>2. Bad = {}
  <2> SUFFICES ASSUME Bad # {} PROVE FALSE
    OBVIOUS
  <2>1. PICK n \in Bad : \A m \in Bad : n <= m
    BY LeastNat
  <2>a. PICK s \in SUBSET S : Cardinality(s) = n /\ Off(s)
    BY <2>1
  <2>b. PICK y \in s : Sum(s) # f[y] + Sum(s \ {y})
    BY <2>a
  <2>2. Cardinality(s) = n /\ Sum(s) # f[y] + Sum(s \ {y})
    BY <2>a, <2>b
  <2>3. PICK c : c = CHOOSE z \in s : TRUE
    OBVIOUS
  <2>4. c \in s /\ Sum(s) = f[c] + Sum(s \ {c})
    BY <1>1, <2>2, <2>3, SumChosen
  <2>5. c # y
    BY <2>2, <2>4
  <2>6. ASSUME NEW z \in s, NEW w \in s \ {z} PROVE Sum(s \ {z}) = f[w] + Sum((s \ {z}) \ {w})
    <3>1. Cardinality(s \ {z}) \in Nat /\ ~(n <= Cardinality(s \ {z})) /\ s \ {z} \in SUBSET S
      BY <2>2, <1>0
    <3>2. Cardinality(s \ {z}) \notin Bad
      BY <3>1, <2>1
    <3>3. ~Off(s \ {z})
      BY <3>1, <3>2
    <3> QED
      BY <3>3
  <2>7. Sum(s \ {c}) = f[y] + Sum((s \ {c}) \ {y})
    BY <2>4, <2>5, <2>6
  <2>8. Sum(s \ {y}) = f[c] + Sum((s \ {y}) \ {c})
    BY <2>4, <2>5, <2>6
  <2>9. Sum((s \ {c}) \ {y}) = Sum((s \ {y}) \ {c})
    <3>1. (s \ {c}) \ {y} = (s \ {y}) \ {c}
      OBVIOUS
    <3> QED
      BY <3>1
  <2>10. Sum((s \ {y}) \ {c}) \in Nat /\ f[c] \in Nat /\ f[y] \in Nat
    <3>1. (s \ {y}) \ {c} \in SUBSET S /\ c \in S /\ y \in S
      BY <2>4
    <3> QED
      BY <3>1, <1>1
  <2>11. Sum(s) = f[y] + Sum(s \ {y})
    <3> HIDE DEF Sum
    <3> QED
      BY <2>4, <2>7, <2>8, <2>9, <2>10
  <2> QED
    BY <2>2, <2>11
<1>3. IsFiniteSet(S) /\ Cardinality(S) \in Nat
  BY FS_CardinalityType
<1>4. ~Off(S)
  BY <1>2, <1>3
<1> QED
  BY <1>1, <1>4

\* A sum is at most that of numbers each as large.
LEMMA SumLeq ==
  ASSUME NEW S, IsFiniteSet(S), NEW f, NEW g, \A x \in S : f[x] \in Nat /\ g[x] \in Nat /\ f[x] <= g[x]
  PROVE  SumFunctionOnSet(f, S) <= SumFunctionOnSet(g, S)
<1> DEFINE F(s) == SumFunctionOnSet(f, s)
           G(s) == SumFunctionOnSet(g, s)
           Bad == {n \in Nat : \E s \in SUBSET S : Cardinality(s) = n /\ ~(F(s) <= G(s))}
<1>1. \A s \in SUBSET S : IsFiniteSet(s) /\ Cardinality(s) \in Nat
  BY FS_Subset, FS_CardinalityType
<1>2. Bad = {}
  <2> SUFFICES ASSUME Bad # {} PROVE FALSE
    OBVIOUS
  <2>1. PICK n \in Bad : \A m \in Bad : n <= m
    BY LeastNat
  <2>2. PICK s \in SUBSET S : Cardinality(s) = n /\ ~(F(s) <= G(s))
    BY <2>1
  <2>3. s # {}
    <3>1. IsFiniteSet({})
      BY FS_EmptySet
    <3>2. F({}) = 0 /\ G({}) = 0
      BY <3>1, SumChosen
    <3> QED
      BY <3>2, <2>2
  <2>4. PICK x : x = CHOOSE y \in s : TRUE
    OBVIOUS
  <2>5. /\ x \in s /\ s \ {x} \in SUBSET s /\ Cardinality(s \ {x}) \in Nat
        /\ Cardinality(s) \in Nat /\ Cardinality(s \ {x}) = Cardinality(s) - 1
    BY <1>1, <2>3, <2>4, Rest
  <2>6. F(s \ {x}) <= G(s \ {x})
    <3>a. ~(n <= Cardinality(s \ {x}))
      BY <2>5, <2>2
    <3>1. Cardinality(s \ {x}) \notin Bad
      BY <3>a, <2>1
    <3> QED
      BY <3>1, <2>5
  <2>7. F(s) = f[x] + F(s \ {x}) /\ F(s \ {x}) \in Nat
    BY <1>1, <2>5, SumAt
  <2>8. G(s) = g[x] + G(s \ {x}) /\ G(s \ {x}) \in Nat
    BY <1>1, <2>5, SumAt
  <2>9. f[x] \in Nat /\ g[x] \in Nat /\ f[x] <= g[x]
    BY <2>5
  <2>10. F(s) <= G(s)
    <3> HIDE DEF F, G
    <3> QED
      BY <2>6, <2>7, <2>8, <2>9
  <2> QED
    BY <2>2, <2>10
<1> QED
  BY <1>1, <1>2

\* A sum splits.
LEMMA SumJoin ==
  ASSUME NEW S, IsFiniteSet(S), NEW f, \A x \in S : f[x] \in Nat, NEW T \in SUBSET S
  PROVE  SumFunctionOnSet(f, S) = SumFunctionOnSet(f, T) + SumFunctionOnSet(f, S \ T)
<1> DEFINE F(s) == SumFunctionOnSet(f, s)
           Off(t) == F(S) # F(t) + F(S \ t)
           Bad == {n \in Nat : \E t \in SUBSET S : Cardinality(t) = n /\ Off(t)}
<1>1. \A s \in SUBSET S : IsFiniteSet(s) /\ Cardinality(s) \in Nat /\ F(s) \in Nat
  BY FS_Subset, FS_CardinalityType, SumChosen
<1>2. Bad = {}
  <2> SUFFICES ASSUME Bad # {} PROVE FALSE
    OBVIOUS
  <2>1. PICK n \in Bad : \A m \in Bad : n <= m
    BY LeastNat
  <2>2. PICK t \in SUBSET S : Cardinality(t) = n /\ Off(t)
    BY <2>1
  <2>3. t # {}
    <3>1. IsFiniteSet({})
      BY FS_EmptySet
    <3>2. F({}) = 0 /\ S \ {} = S /\ F(S) \in Nat
      BY <3>1, <1>1, SumChosen
    <3> QED
      BY <3>2, <2>2
  <2>4. PICK x : x = CHOOSE y \in t : TRUE
    OBVIOUS
  <2>5. /\ x \in t /\ t \ {x} \in SUBSET t /\ Cardinality(t \ {x}) \in Nat
        /\ Cardinality(t) \in Nat /\ Cardinality(t \ {x}) = Cardinality(t) - 1
    BY <1>1, <2>3, <2>4, Rest
  <2>6. F(S) = F(t \ {x}) + F(S \ (t \ {x}))
    <3>a. ~(n <= Cardinality(t \ {x}))
      BY <2>5, <2>2
    <3>1. Cardinality(t \ {x}) \notin Bad
      BY <3>a, <2>1
    <3>2. ~Off(t \ {x})
      BY <3>1, <2>5
    <3> QED
      BY <3>2
  <2>7. F(t) = f[x] + F(t \ {x}) /\ F(t \ {x}) \in Nat
    BY <1>1, <2>5, SumAt
  <2>8. F(S \ (t \ {x})) = f[x] + F(S \ t) /\ F(S \ t) \in Nat
    <3>1. S \ (t \ {x}) \in SUBSET S /\ x \in S \ (t \ {x}) /\ (S \ (t \ {x})) \ {x} = S \ t
      BY <2>5
    <3>2. IsFiniteSet(S \ (t \ {x})) /\ \A y \in S \ (t \ {x}) : f[y] \in Nat
      BY <3>1, <1>1
    <3>3. F(S \ (t \ {x})) = f[x] + F((S \ (t \ {x})) \ {x}) /\ F((S \ (t \ {x})) \ {x}) \in Nat
      BY <3>1, <3>2, SumAt
    <3> QED
      BY <3>1, <3>3
  <2>9. f[x] \in Nat
    BY <2>5
  <2>10. F(S) = F(t) + F(S \ t)
    <3>1. PICK a \in Nat, b \in Nat, c \in Nat, e \in Nat, y \in Nat :
             a = F(S) /\ b = F(t \ {x}) /\ c = F(S \ (t \ {x})) /\ e = F(S \ t) /\ y = f[x]
      BY <1>1, <2>7, <2>8, <2>9
    <3>2. a = b + c /\ F(t) = y + b /\ c = y + e
      BY <3>1, <2>6, <2>7, <2>8
    <3>3. a = (y + b) + e
      BY <3>2
    <3> QED
      BY <3>1, <3>2, <3>3
  <2> QED
    BY <2>2, <2>10
<1> QED
  BY <1>1, <1>2

\* What a list holds sums to no more than the list.
LEMMA SumImage ==
  ASSUME NEW D, IsFiniteSet(D), NEW s, NEW g, \A i \in D : g[s[i]] \in Nat
  PROVE  /\ IsFiniteSet({s[i] : i \in D})
         /\ SumFunctionOnSet(g, {s[i] : i \in D}) <= SumFunctionOnSet([i \in D |-> g[s[i]]], D)
<1> DEFINE f == [i \in D |-> g[s[i]]]
           F(d) == SumFunctionOnSet(f, d)
           Held(d) == {s[i] : i \in d}
           G(d) == SumFunctionOnSet(g, Held(d))
           Bad == {n \in Nat : \E d \in SUBSET D : Cardinality(d) = n /\ ~(G(d) <= F(d))}
<1>1. \A d \in SUBSET D : IsFiniteSet(d) /\ Cardinality(d) \in Nat /\ IsFiniteSet(Held(d))
  <2> TAKE d \in SUBSET D
  <2>1. IsFiniteSet(d)
    BY FS_Subset
  <2> QED
    <3>1. [j \in d |-> s[j]] \in Surjection(d, Held(d))
      BY DEF Surjection
    <3> QED
      BY <3>1, <2>1, FS_CardinalityType, FS_Surjection
<1>2. Bad = {}
  <2> SUFFICES ASSUME Bad # {} PROVE FALSE
    OBVIOUS
  <2>1. PICK n \in Bad : \A m \in Bad : n <= m
    BY LeastNat
  <2>2. PICK d \in SUBSET D : Cardinality(d) = n /\ ~(G(d) <= F(d))
    BY <2>1
  <2>3. d # {}
    <3>1. IsFiniteSet({}) /\ Held({}) = {}
      BY FS_EmptySet
    <3>2. F({}) = 0 /\ SumFunctionOnSet(g, {}) = 0
      BY <3>1, SumChosen
    <3> QED
      BY <3>1, <3>2, <2>2
  <2>4. PICK i : i = CHOOSE j \in d : TRUE
    OBVIOUS
  <2>5. /\ i \in d /\ d \ {i} \in SUBSET d /\ Cardinality(d \ {i}) \in Nat
        /\ Cardinality(d) \in Nat /\ Cardinality(d \ {i}) = Cardinality(d) - 1
    BY <1>1, <2>3, <2>4, Rest
  <2>6. G(d \ {i}) <= F(d \ {i})
    <3>a. ~(n <= Cardinality(d \ {i}))
      BY <2>5, <2>2
    <3>1. Cardinality(d \ {i}) \notin Bad
      BY <3>a, <2>1
    <3> QED
      BY <3>1, <2>5
  <2>a. f[i] = g[s[i]] /\ f[i] \in Nat /\ \A j \in D : f[j] \in Nat
    BY <2>5
  <2>7. F(d) = f[i] + F(d \ {i}) /\ F(d \ {i}) \in Nat
    <3>1. \A j \in d : f[j] \in Nat
      BY <2>a
    <3> HIDE DEF f
    <3> QED
      BY <1>1, <2>5, <3>1, SumAt
  <2>8. s[i] \in Held(d) /\ IsFiniteSet(Held(d)) /\ \A x \in Held(d) : g[x] \in Nat
    BY <1>1, <2>5
  <2>b. IsFiniteSet(Held(d \ {i})) /\ \A x \in Held(d \ {i}) : g[x] \in Nat
    <3>1. d \ {i} \in SUBSET D
      BY <2>5
    <3> QED
      BY <1>1, <3>1
  <2>c. G(d \ {i}) \in Nat
    BY <2>b, SumChosen
  <2>9. G(d) <= F(d)
    <3>1. CASE s[i] \in Held(d \ {i})
      <4>1. Held(d) = Held(d \ {i})
        BY <2>5, <3>1
      <4>2. G(d) = G(d \ {i})
        BY <4>1
      <4> HIDE DEF F, G, f
      <4> QED
        BY <4>2, <2>6, <2>7, <2>a, <2>c
    <3>2. CASE s[i] \notin Held(d \ {i})
      <4>1. Held(d) \ {s[i]} = Held(d \ {i})
        BY <2>5, <3>2
      <4>2. SumFunctionOnSet(g, Held(d)) = g[s[i]] + SumFunctionOnSet(g, Held(d) \ {s[i]})
        <5> HIDE DEF Held
        <5> QED
          BY <2>8, SumAt
      <4>3. G(d) = g[s[i]] + G(d \ {i})
        BY <4>1, <4>2
      <4> HIDE DEF F, G, f
      <4> QED
        BY <4>3, <2>6, <2>7, <2>a, <2>c
    <3> QED
      BY <3>1, <3>2
  <2> QED
    BY <2>2, <2>9
<1>3. D \in SUBSET D
  OBVIOUS
<1>4. G(D) <= F(D)
  BY <1>1, <1>2, <1>3
<1> QED
  BY <1>1, <1>3, <1>4

-----------------------------------------------------------------------------
(* The conformance report: each check takes between its two estimates. *)

\* The total of a budget: the sum, or the limit and that it was exceeded.
LEMMA BudgetIs ==
  ASSUME NEW limit \in Nat, NEW costs, IsFiniteSet(DOMAIN costs), \A x \in DOMAIN costs : costs[x] \in Nat
  PROVE  LET sum == SumFunction(costs)
         IN /\ sum \in Nat
            /\ Budget(limit, costs) = IF sum > limit THEN [limit |-> limit, total |-> limit, exceeded |-> TRUE]
                                       ELSE [limit |-> limit, total |-> sum, exceeded |-> FALSE]
<1>d. PICK D : D = DOMAIN costs
  OBVIOUS
<1>n. IsFiniteSet(D) /\ \A x \in D : costs[x] \in Nat
  BY <1>d
<1> DEFINE A == [limit: {limit}, total: Nat, exceeded: BOOLEAN]
           none == [limit |-> limit, total |-> 0, exceeded |-> FALSE]
           Takes == [p \in Nat \X A |-> add(p[2], p[1])]
           Was(h) == h = [s \in SUBSET D |-> IF s = {} THEN none
                            ELSE LET x == CHOOSE x \in s : TRUE IN add(h[s \ {x}], costs[x])]
           Spent(t) == IF t > limit THEN [limit |-> limit, total |-> limit, exceeded |-> TRUE]
                       ELSE [limit |-> limit, total |-> t, exceeded |-> FALSE]
<1>1. PICK g : g = CHOOSE h : Was(h)
  OBVIOUS
<1>2. Budget(limit, costs) = g[D]
  BY <1>1, <1>d DEF Budget, FoldFunction, FoldFunctionOnSet, MapThenFoldSet
<1>3. none \in A /\ Takes \in [Nat \X A -> A]
  <2>1. none \in A
    OBVIOUS
  <2>2. ASSUME NEW b \in A, NEW n \in Nat PROVE add(b, n) \in A
    <3>1. CASE b.exceeded \/ n > b.limit \/ b.total > b.limit - n
      <4>1. add(b, n) = [b EXCEPT !.exceeded = TRUE, !.total = b.limit]
        BY <3>1 DEF add
      <4> QED
        BY <4>1
    <3>2. CASE ~(b.exceeded \/ n > b.limit \/ b.total > b.limit - n)
      <4>1. add(b, n) = [b EXCEPT !.total = @ + n]
        BY <3>2 DEF add
      <4> QED
        BY <4>1
    <3> QED
      BY <3>1, <3>2
  <2> HIDE DEF A
  <2>3. \A p \in Nat \X A : add(p[2], p[1]) \in A
    BY <2>2
  <2> QED
    BY <2>1, <2>3
<1>4. PICK h \in [SUBSET D -> A] : IsFold(h, costs, D, none, Takes)
  <2> HIDE DEF A, Takes, none
  <2> QED
    BY <1>3, <1>n, FoldExists, Zenon
<1>5. Was(h)
  <2>1. ASSUME NEW s \in SUBSET D, s # {}
        PROVE  h[s] = LET x == CHOOSE x \in s : TRUE IN add(h[s \ {x}], costs[x])
    <3>1. PICK x : x = CHOOSE y \in s : TRUE
      OBVIOUS
    <3>2. x \in D /\ costs[x] \in Nat /\ h[s \ {x}] \in A
      BY <3>1, <2>1, <1>4, <1>n
    <3>3. h[s] = Takes[<<costs[x], h[s \ {x}]>>]
      BY <2>1, <3>1, <1>4 DEF IsFold
    <3> HIDE DEF A
    <3>4. h[s] = add(h[s \ {x}], costs[x])
      BY <3>2, <3>3
    <3> QED
      BY <3>1, <3>4
  <2>2. h[{}] = none
    BY <1>4 DEF IsFold
  <2> HIDE DEF A, none
  <2> QED
    BY <2>1, <2>2, <1>4
<1>6. Was(g)
  <2> HIDE DEF Was
  <2> QED
    BY <1>1, <1>5
<1>7. \A s \in SUBSET D : IsFiniteSet(s) /\ Cardinality(s) \in Nat
  BY <1>n, FS_Subset, FS_CardinalityType
<1> DEFINE Sum(s) == SumFunctionOnSet(costs, s)
           Bad == {n \in Nat : \E s \in SUBSET D : Cardinality(s) = n /\ g[s] # Spent(Sum(s))}
<1>8. Bad = {}
  <2> SUFFICES ASSUME Bad # {} PROVE FALSE
    OBVIOUS
  <2>1. PICK n \in Bad : \A m \in Bad : n <= m
    BY LeastNat
  <2>2. PICK s \in SUBSET D : Cardinality(s) = n /\ g[s] # Spent(Sum(s))
    BY <2>1
  <2>3. s # {}
    <3>1. Sum({}) = 0
      BY FS_EmptySet, SumChosen
    <3>2. g[{}] = none
      BY <1>6
    <3> QED
      <4>1. Spent(0) = none
        OBVIOUS
      <4> QED
        BY <4>1, <3>1, <3>2, <2>2
  <2>4. PICK x : x = CHOOSE y \in s : TRUE
    OBVIOUS
  <2>5. /\ x \in s /\ s \ {x} \in SUBSET D /\ Cardinality(s \ {x}) \in Nat
        /\ ~(n <= Cardinality(s \ {x}))
    <3>1. IsFiniteSet(s)
      BY <1>7
    <3>2. /\ x \in s /\ s \ {x} \in SUBSET s /\ Cardinality(s \ {x}) \in Nat
          /\ Cardinality(s) \in Nat /\ Cardinality(s \ {x}) = Cardinality(s) - 1
      BY <3>1, <2>3, <2>4, Rest
    <3> QED
      BY <3>2, <2>2
  <2>6. g[s \ {x}] = Spent(Sum(s \ {x}))
    <3>1. Cardinality(s \ {x}) \notin Bad
      BY <2>5, <2>1
    <3> QED
      BY <3>1, <2>5
  <2>7. g[s] = add(g[s \ {x}], costs[x])
    BY <1>6, <2>3, <2>4
  <2>8. Sum(s) = costs[x] + Sum(s \ {x}) /\ Sum(s \ {x}) \in Nat
    BY <1>7, <1>n, <2>5, SumAt
  <2>9. ASSUME NEW t \in Nat, NEW n1 \in Nat PROVE add(Spent(t), n1) = Spent(n1 + t)
    <3>1. CASE t > limit \/ n1 > limit \/ t > limit - n1
      <4>1. n1 + t > limit
        BY <3>1
      <4>2. Spent(n1 + t) = [limit |-> limit, total |-> limit, exceeded |-> TRUE]
        BY <4>1
      <4>3. add(Spent(t), n1) = [Spent(t) EXCEPT !.exceeded = TRUE, !.total = limit]
        BY <3>1 DEF add
      <4> QED
        BY <4>2, <4>3
    <3>2. CASE ~(t > limit \/ n1 > limit \/ t > limit - n1)
      <4>1. ~(n1 + t > limit)
        BY <3>2
      <4>2. Spent(n1 + t) = [limit |-> limit, total |-> n1 + t, exceeded |-> FALSE]
        BY <4>1
      <4>3. Spent(t) = [limit |-> limit, total |-> t, exceeded |-> FALSE]
        BY <3>2
      <4>4. PICK b : b = Spent(t)
        OBVIOUS
      <4>5. add(b, n1) = [b EXCEPT !.total = @ + n1]
        BY <3>2, <4>3, <4>4 DEF add
      <4>6. add(b, n1) = [limit |-> limit, total |-> t + n1, exceeded |-> FALSE]
        BY <4>3, <4>4, <4>5
      <4>7. t + n1 = n1 + t
        OBVIOUS
      <4> HIDE DEF Spent
      <4> QED
        BY <4>2, <4>4, <4>6, <4>7
    <3> QED
      BY <3>1, <3>2
  <2>10. costs[x] \in Nat
    BY <2>5, <1>n
  <2>11. g[s] = Spent(Sum(s))
    <3> HIDE DEF Spent, Sum
    <3> QED
      BY <2>6, <2>7, <2>8, <2>9, <2>10
  <2> QED
    BY <2>2, <2>11
<1>9. g[D] = Spent(Sum(D)) /\ Sum(D) \in Nat
  BY <1>7, <1>8, <1>n, SumChosen
<1> QED
  BY <1>d, <1>2, <1>9 DEF SumFunction

\* The bytes of a list of strings, of what it holds, and what they come to at most.
LEMMA BytesBounded ==
  ASSUME NEW v \in Seq(Members)
  PROVE  /\ Bytes(v) \in Nat /\ Upper(v) \in Nat /\ Bytes(v) <= Upper(v)
         /\ \A S \in SUBSET ToSet(v) :
               LET sum == SumFunction([m \in S |-> Escaped(m)])
               IN IsFiniteSet(S) /\ sum \in Nat /\ sum <= Bytes(v)
<1> DEFINE D == DOMAIN v
           f == [i \in D |-> Escaped(v[i])]
           u == [i \in D |-> 2 + 6 * Raw(v[i])]
           e == [m \in Members |-> Escaped(m)]
<1>1. IsFiniteSet(D)
  <2>1. D = 1..Len(v) /\ Len(v) \in Nat
    OBVIOUS
  <2> QED
    BY <2>1, FS_Interval
<1>2. \A i \in D : v[i] \in Members
  OBVIOUS
<1>3. \A i \in D : f[i] \in Nat /\ u[i] \in Nat /\ f[i] <= u[i] /\ e[v[i]] = f[i]
  <2> TAKE i \in D
  <2>1. PICK m : m = v[i]
    OBVIOUS
  <2>2. /\ Raw(m) \in Nat /\ Escaped(m) \in Nat /\ Escaped(m) <= 6 * Raw(m) + 2
    BY <1>2, <2>1, ConformanceAssumption
  <2>3. 2 + 6 * Raw(m) \in Nat /\ Escaped(m) <= 2 + 6 * Raw(m)
    BY <2>2
  <2>4. f[i] = Escaped(m) /\ u[i] = 2 + 6 * Raw(m) /\ e[m] = Escaped(m)
    BY <2>1, <1>2
  <2> QED
    BY <2>1, <2>2, <2>3, <2>4
<1>4. Bytes(v) = SumFunctionOnSet(f, D) /\ Upper(v) = SumFunctionOnSet(u, D)
  BY DEF Bytes, Upper, SumFunction
<1> HIDE DEF f, u
<1>5. Bytes(v) \in Nat /\ Upper(v) \in Nat /\ Bytes(v) <= Upper(v)
  <2>1. SumFunctionOnSet(f, D) \in Nat /\ SumFunctionOnSet(u, D) \in Nat
    BY <1>1, <1>3, SumChosen
  <2>2. SumFunctionOnSet(f, D) <= SumFunctionOnSet(u, D)
    BY <1>1, <1>3, SumLeq
  <2> QED
    BY <2>1, <2>2, <1>4
<1>6. ASSUME NEW S \in SUBSET ToSet(v)
      PROVE  LET sum == SumFunction([m \in S |-> Escaped(m)])
             IN IsFiniteSet(S) /\ sum \in Nat /\ sum <= Bytes(v)
  <2>1. \A i \in D : e[v[i]] \in Nat
    BY <1>3
  <2>2. \A i \in D : [j \in D |-> e[v[j]]][i] = f[i]
    BY <1>3
  <2>3. ToSet(v) = {v[i] : i \in D}
    BY DEF ToSet
  <2> HIDE DEF e
  <2>4. IsFiniteSet(ToSet(v)) /\ SumFunctionOnSet(e, ToSet(v)) <= SumFunctionOnSet([i \in D |-> e[v[i]]], D)
    BY <2>1, <2>3, <1>1, SumImage
  <2>5. SumFunctionOnSet([i \in D |-> e[v[i]]], D) = SumFunctionOnSet(f, D)
    BY <2>2, <1>1, <1>3, SumSame
  <2>6. \A m \in ToSet(v) : e[m] \in Nat
    BY <2>1, <2>3
  <2>7. SumFunctionOnSet(e, ToSet(v)) = SumFunctionOnSet(e, S) + SumFunctionOnSet(e, ToSet(v) \ S)
    BY <2>4, <2>6, SumJoin
  <2>8. IsFiniteSet(S) /\ IsFiniteSet(ToSet(v) \ S)
    BY <2>4, FS_Subset
  <2>9. SumFunctionOnSet(e, S) \in Nat /\ SumFunctionOnSet(e, ToSet(v) \ S) \in Nat
    BY <2>6, <2>8, SumChosen
  <2>10. SumFunctionOnSet([m \in S |-> Escaped(m)], S) = SumFunctionOnSet(e, S)
    <3>1. \A m \in S : e[m] \in Nat /\ [n \in S |-> Escaped(n)][m] = e[m]
      BY <2>6, <1>2, <2>3 DEF e
    <3> QED
      BY <3>1, <2>8, SumSame
  <2>11. SumFunction([m \in S |-> Escaped(m)]) = SumFunctionOnSet(e, S)
    BY <2>10 DEF SumFunction
  <2>12. SumFunctionOnSet(f, D) \in Nat
    BY <1>4, <1>5
  <2> QED
    BY <2>4, <2>5, <2>7, <2>8, <2>9, <2>11, <2>12, <1>4
<1> QED
  BY <1>5, <1>6

\* A sum over at most one.
LEMMA SumOne ==
  ASSUME NEW S, NEW f, NEW o, S = {} \/ S = {o}, o \in S => f[o] \in Nat
  PROVE  /\ SumFunctionOnSet(f, S) \in Nat
         /\ SumFunctionOnSet(f, S) = IF o \in S THEN f[o] ELSE 0
<1>1. IsFiniteSet(S)
  BY FS_EmptySet, FS_Singleton
<1>2. SumFunctionOnSet(f, S) \in Nat /\ (S = {} => SumFunctionOnSet(f, S) = 0)
  BY <1>1, SumChosen
<1>3. ASSUME o \in S PROVE SumFunctionOnSet(f, S) = f[o]
  <2>1. S \ {o} = {}
    BY <1>3
  <2>2. SumFunctionOnSet(f, S) = f[o] + SumFunctionOnSet(f, S \ {o})
    BY <1>1, <1>3, SumAt
  <2>3. SumFunctionOnSet(f, S \ {o}) = 0
    BY <2>1, FS_EmptySet, SumChosen
  <2> QED
    BY <1>3, <2>2, <2>3
<1> QED
  BY <1>2, <1>3

\* A check is answered by one observation, whose values are strings.
LEMMA IndexOne ==
  ASSUME InputTyped, NEW key
  PROVE  \E o : /\ index(key) = {} \/ index(key) = {o}
                /\ o \in index(key) => o.value \in Seq(Members)
<1> DEFINE s == input.observations
           O == [key: Keys, shape: Shapes \cup {"none"}, value: Seq(Members), error: BOOLEAN]
<1>1. s \in Seq(O)
  BY DEF InputTyped
<1>2. \A i \in DOMAIN s : s[i].value \in Seq(Members)
  <2>1. \A o \in O : o.value \in Seq(Members)
    OBVIOUS
  <2> HIDE DEF O, s
  <2>2. \A i \in DOMAIN s : s[i] \in O
    BY <1>1
  <2> QED
    BY <2>1, <2>2
<1>3. CASE index(key) = {}
  BY <1>3
<1>4. CASE index(key) # {}
  <2>1. ~inputErr /\ NeedsInput
    BY <1>4 DEF index
  <2>2. DecodeEnvelope(s)
    BY <2>1 DEF inputErr
  <2>3. PICK i \in DOMAIN s : s[i].key = key
    BY <1>4 DEF index, ToSet
  <2>4. index(key) = {s[i]}
    <3>1. \A j \in DOMAIN s : s[j].key = key => j = i
      BY <2>2, <2>3 DEF DecodeEnvelope
    <3> QED
      BY <2>1, <2>3, <3>1 DEF index, ToSet
  <2> QED
    BY <1>2, <2>3, <2>4
<1> QED
  BY <1>3, <1>4

\* What one check takes in the report lies between its two estimates.
LEMMA CheckBounded ==
  ASSUME InputTyped, NEW k, k.value \in Seq(Members)
  PROVE  /\ estimateCheckLowerBound(k) \in Nat /\ encodedCheck(k) \in Nat /\ estimateCheck(k) \in Nat
         /\ estimateCheckLowerBound(k) <= encodedCheck(k)
         /\ encodedCheck(k) <= estimateCheck(k)
<1>1. PICK o : /\ index(k.key) = {} \/ index(k.key) = {o}
               /\ o \in index(k.key) => o.value \in Seq(Members)
  BY IndexOne
<1>2. PICK S : S = Observed(k)
  OBVIOUS
<1>3. PICK R : R = {p \in index(k.key) : ~p.error}
  OBVIOUS
<1>4. /\ S = {} \/ S = {o}
      /\ R = {} \/ R = {o}
      /\ S \subseteq R
      /\ o \in R => o.value \in Seq(Members)
      /\ o \in S => o.shape = k.shape
  BY <1>1, <1>2, <1>3 DEF Observed
<1>5. PICK diff : diff = [p \in S |-> IF k.shape # "set" THEN 0
                             ELSE SumFunction([m \in Difference(k, p) |-> Escaped(m)])]
  OBVIOUS
<1>6. PICK b : b = [p \in S |-> Bytes(p.value)]
  OBVIOUS
<1>7. PICK e : e = [p \in S |-> Bytes(p.value)
               + IF k.shape # "set" THEN 0 ELSE SumFunction([m \in Difference(k, p) |-> Escaped(m)])]
  OBVIOUS
<1>8. PICK u : u = [p \in R |-> addProjectionValue(p.shape, p.value)]
  OBVIOUS
<1>9. /\ estimateCheckLowerBound(k) = Structure + Bytes(k.value) + SumFunctionOnSet(b, S)
      /\ encodedCheck(k) = Structure + Bytes(k.value) + SumFunctionOnSet(e, S)
      /\ estimateCheck(k) = 2 * Structure + addProjectionValue(k.shape, k.value) + SumFunctionOnSet(u, R)
  <2>1. DOMAIN b = S /\ DOMAIN e = S /\ DOMAIN u = R
    BY <1>6, <1>7, <1>8
  <2>2. SumFunction(b) = SumFunctionOnSet(b, S) /\ SumFunction(e) = SumFunctionOnSet(e, S)
        /\ SumFunction(u) = SumFunctionOnSet(u, R)
    BY <2>1 DEF SumFunction
  <2>3. estimateCheckLowerBound(k) = Structure + Bytes(k.value) + SumFunction(b)
    BY <1>2, <1>6 DEF estimateCheckLowerBound
  <2>4. encodedCheck(k) = Structure + Bytes(k.value) + SumFunction(e)
    BY <1>2, <1>7 DEF encodedCheck
  <2>5. estimateCheck(k) = 2 * Structure + addProjectionValue(k.shape, k.value) + SumFunction(u)
    BY <1>3, <1>8 DEF estimateCheck
  <2> QED
    BY <2>2, <2>3, <2>4, <2>5
<1>10. Structure \in Nat
  BY ConformanceAssumption
<1>11. Bytes(k.value) \in Nat /\ Upper(k.value) \in Nat /\ Bytes(k.value) <= Upper(k.value)
  BY BytesBounded
<1>12. ASSUME o \in R
       PROVE  Bytes(o.value) \in Nat /\ Upper(o.value) \in Nat /\ Bytes(o.value) <= Upper(o.value)
  BY <1>4, <1>12, BytesBounded
<1>13. ASSUME o \in S, k.shape = "set"
       PROVE  LET d == SumFunction([m \in Difference(k, o) |-> Escaped(m)])
              IN d \in Nat /\ d <= Bytes(k.value) + Bytes(o.value)
  <2>1. PICK A : A = Missing(k.value, o.value)
    OBVIOUS
  <2>2. PICK B : B = Missing(o.value, k.value)
    OBVIOUS
  <2>3. A \subseteq ToSet(k.value) /\ B \subseteq ToSet(o.value) /\ A \cap B = {}
    BY <2>1, <2>2 DEF Missing
  <2>4. o.value \in Seq(Members)
    BY <1>4, <1>13
  <2>5. PICK a : a = [m \in A |-> Escaped(m)]
    OBVIOUS
  <2>6. PICK c : c = [m \in B |-> Escaped(m)]
    OBVIOUS
  <2>7. PICK g : g = [m \in A \cup B |-> Escaped(m)]
    OBVIOUS
  <2>8. /\ SumFunction(a) = SumFunctionOnSet(a, A)
        /\ SumFunction(c) = SumFunctionOnSet(c, B)
        /\ SumFunction(g) = SumFunctionOnSet(g, A \cup B)
    BY <2>5, <2>6, <2>7 DEF SumFunction
  <2>9. IsFiniteSet(A) /\ SumFunction(a) \in Nat /\ SumFunction(a) <= Bytes(k.value)
    BY <2>3, <2>5, BytesBounded
  <2>10. IsFiniteSet(B) /\ SumFunction(c) \in Nat /\ SumFunction(c) <= Bytes(o.value)
    BY <2>3, <2>4, <2>6, BytesBounded
  <2>11. \A m \in A \cup B : g[m] \in Nat /\ m \in Members
    <3>1. A \cup B \subseteq Members
      <4>1. ToSet(k.value) \subseteq Members /\ ToSet(o.value) \subseteq Members
        BY <2>4 DEF ToSet
      <4> QED
        BY <4>1, <2>3
    <3> QED
      BY <3>1, <2>7, ConformanceAssumption
  <2>12. IsFiniteSet(A \cup B)
    BY <2>9, <2>10, FS_Union
  <2>13. SumFunctionOnSet(g, A \cup B) = SumFunctionOnSet(g, A) + SumFunctionOnSet(g, B)
    <3>1. (A \cup B) \ A = B
      BY <2>3
    <3>2. A \in SUBSET (A \cup B)
      OBVIOUS
    <3> QED
      BY <3>1, <3>2, <2>11, <2>12, SumJoin
  <2>14. SumFunctionOnSet(g, A) = SumFunctionOnSet(a, A)
    <3>1. \A m \in A : a[m] \in Nat /\ g[m] = a[m]
      BY <2>5, <2>7, <2>11
    <3> QED
      BY <3>1, <2>9, SumSame
  <2>15. SumFunctionOnSet(g, B) = SumFunctionOnSet(c, B)
    <3>1. \A m \in B : c[m] \in Nat /\ g[m] = c[m]
      BY <2>6, <2>7, <2>11
    <3> QED
      BY <3>1, <2>10, SumSame
  <2>16. SumFunction([m \in Difference(k, o) |-> Escaped(m)]) = SumFunction(g)
    BY <2>1, <2>2, <2>7 DEF Difference
  <2>17. Bytes(o.value) \in Nat
    BY <2>4, BytesBounded
  <2> QED
    BY <2>8, <2>9, <2>10, <2>13, <2>14, <2>15, <2>16, <2>17, <1>11
<1>14. ASSUME o \in S
       PROVE  /\ b[o] = Bytes(o.value) /\ b[o] \in Nat
              /\ e[o] \in Nat /\ b[o] <= e[o]
              /\ e[o] <= b[o] + (IF k.shape = "set" THEN Bytes(k.value) + Bytes(o.value) ELSE 0)
  <2>1. b[o] = Bytes(o.value) /\ b[o] \in Nat
    BY <1>4, <1>6, <1>12, <1>14
  <2>2. CASE k.shape = "set"
    <3>1. PICK d : d = SumFunction([m \in Difference(k, o) |-> Escaped(m)])
      OBVIOUS
    <3>2. e[o] = b[o] + d
      BY <1>7, <1>14, <2>1, <2>2, <3>1
    <3>3. d \in Nat /\ d <= Bytes(k.value) + Bytes(o.value)
      BY <2>2, <3>1, <1>13, <1>14
    <3>4. e[o] \in Nat /\ b[o] <= e[o] /\ e[o] <= b[o] + (Bytes(k.value) + Bytes(o.value))
      BY <3>2, <3>3, <2>1, <1>11
    <3> QED
      BY <3>4, <2>1, <2>2
  <2>3. CASE k.shape # "set"
    <3>1. e[o] = b[o] + 0
      BY <1>7, <1>14, <2>1, <2>3
    <3> QED
      BY <3>1, <2>1, <2>3
  <2> QED
    BY <2>1, <2>2, <2>3
<1>15. ASSUME o \in R PROVE u[o] = addProjectionValue(o.shape, o.value) /\ u[o] \in Nat
  BY <1>8, <1>12, <1>15 DEF addProjectionValue
<1>16. /\ SumFunctionOnSet(b, S) \in Nat /\ SumFunctionOnSet(b, S) = IF o \in S THEN b[o] ELSE 0
       /\ SumFunctionOnSet(e, S) \in Nat /\ SumFunctionOnSet(e, S) = IF o \in S THEN e[o] ELSE 0
  BY <1>4, <1>14, SumOne
<1>17. SumFunctionOnSet(u, R) \in Nat /\ SumFunctionOnSet(u, R) = IF o \in R THEN u[o] ELSE 0
  BY <1>4, <1>15, SumOne
<1>18. addProjectionValue(k.shape, k.value) \in Nat
       /\ addProjectionValue(k.shape, k.value) = IF k.shape = "set" THEN 2 * Upper(k.value) ELSE Upper(k.value)
  BY <1>11 DEF addProjectionValue
<1>19. estimateCheckLowerBound(k) <= encodedCheck(k)
  <2>1. SumFunctionOnSet(b, S) <= SumFunctionOnSet(e, S)
    BY <1>14, <1>16
  <2> QED
    BY <2>1, <1>9, <1>10, <1>11, <1>16
<1>20. encodedCheck(k) <= estimateCheck(k)
  <2>1. CASE o \notin S
    BY <2>1, <1>9, <1>10, <1>11, <1>16, <1>17, <1>18
  <2>2. CASE o \in S
    <3>1. o \in R /\ o.shape = k.shape
      BY <2>2, <1>4
    <3>2. u[o] = IF k.shape = "set" THEN 2 * Upper(o.value) ELSE Upper(o.value)
      BY <3>1, <1>12, <1>15 DEF addProjectionValue
    <3>3. Bytes(o.value) \in Nat /\ Upper(o.value) \in Nat /\ Bytes(o.value) <= Upper(o.value)
      BY <3>1, <1>12
    <3>4. e[o] \in Nat /\ e[o] <= Bytes(o.value) + (IF k.shape = "set" THEN Bytes(k.value) + Bytes(o.value) ELSE 0)
      BY <2>2, <1>14
    <3>5. SumFunctionOnSet(e, S) = e[o] /\ SumFunctionOnSet(u, R) = u[o]
      BY <2>2, <3>1, <1>16, <1>17
    <3>6. Bytes(k.value) + e[o] <= addProjectionValue(k.shape, k.value) + u[o]
      BY <3>2, <3>3, <3>4, <1>11, <1>18
    <3>7. u[o] \in Nat
      BY <3>1, <1>15
    <3>8. /\ encodedCheck(k) = Structure + Bytes(k.value) + e[o]
          /\ estimateCheck(k) = 2 * Structure + addProjectionValue(k.shape, k.value) + u[o]
      BY <3>5, <1>9
    <3>9. \A a, c, d, f, g \in Nat : c + d <= f + g => a + c + d <= 2 * a + f + g
      OBVIOUS
    <3>10. Structure + Bytes(k.value) + e[o] <= 2 * Structure + addProjectionValue(k.shape, k.value) + u[o]
      BY <3>4, <3>6, <3>7, <3>9, <1>10, <1>11, <1>18
    <3> QED
      BY <3>8, <3>10
  <2> QED
    BY <2>1, <2>2
<1>21. estimateCheckLowerBound(k) \in Nat /\ encodedCheck(k) \in Nat /\ estimateCheck(k) \in Nat
  <2>1. \A a, c, d \in Nat : a + c + d \in Nat /\ 2 * a + c + d \in Nat
    OBVIOUS
  <2>2. Structure + Bytes(k.value) + SumFunctionOnSet(b, S) \in Nat
    BY <2>1, <1>10, <1>11, <1>16
  <2>3. Structure + Bytes(k.value) + SumFunctionOnSet(e, S) \in Nat
    BY <2>1, <1>10, <1>11, <1>16
  <2>4. 2 * Structure + addProjectionValue(k.shape, k.value) + SumFunctionOnSet(u, R) \in Nat
    BY <2>1, <1>10, <1>17, <1>18
  <2> QED
    BY <2>2, <2>3, <2>4, <1>9
<1> QED
  BY <1>19, <1>20, <1>21

\* The values a claim can declare are lists of members.
LEMMA WordsListed == Words \subseteq Seq(Members)
<1> SUFFICES ASSUME NEW w \in Words PROVE w \in Seq(Members)
  OBVIOUS
<1>1. ASSUME NEW m \in Members, w = <<m>> PROVE w \in Seq(Members)
  BY <1>1
<1>2. ASSUME w \in [1..2 -> Members] PROVE w \in Seq(Members)
  <2>1. PICK n \in Nat : n = 2
    OBVIOUS
  <2>2. w \in [1..n -> Members]
    BY <2>1, <1>2
  <2>3. \E k \in Nat : w \in [1..k -> Members]
    BY <2>2
  <2> QED
    BY <2>3, SeqDef
<1>3. (\E m \in Members : w = <<m>>) \/ w \in [1..2 -> Members]
  BY DEF Words
<1> QED
  BY <1>1, <1>2, <1>3

\* The checks of the project are finitely many, and their values lists of members.
LEMMA ChecksListed ==
  ASSUME DeclaredTyped
  PROVE  IsFiniteSet(Checks) /\ \A x \in Checks : Check(x).value \in Seq(Members)
<1> DEFINE T == [key: Keys, shape: Shapes, value: Words]
           At(c) == {<<c, i>> : i \in DOMAIN embodiment[c].checks}
<1>1. \A c \in {1, 2} : embodiment[c].checks \in Seq(T)
  BY DEF DeclaredTyped
<1>2. DOMAIN embodiment = {1, 2}
  BY DEF DeclaredTyped
<1>3. Checks = At(1) \cup At(2)
  BY <1>2 DEF Checks
<1>4. ASSUME NEW c \in {1, 2} PROVE IsFiniteSet(At(c))
  <2>1. PICK n \in Nat : DOMAIN embodiment[c].checks = 1..n
    <3> HIDE DEF T
    <3>1. embodiment[c].checks \in Seq(T)
      BY <1>1
    <3>2. \A s \in Seq(T) : DOMAIN s = 1..Len(s) /\ Len(s) \in Nat
      OBVIOUS
    <3> QED
      BY <3>1, <3>2
  <2>2. [i \in 1..n |-> <<c, i>>] \in Surjection(1..n, At(c))
    BY <2>1 DEF Surjection
  <2>3. IsFiniteSet(1..n)
    BY FS_Interval
  <2> QED
    BY <2>2, <2>3, FS_Surjection
<1>5. IsFiniteSet(Checks)
  <2>1. IsFiniteSet(At(1)) /\ IsFiniteSet(At(2))
    BY <1>4
  <2> HIDE DEF At
  <2> QED
    BY <2>1, <1>3, FS_Union
<1>6. ASSUME NEW x \in Checks PROVE Check(x).value \in Seq(Members)
  <2>1. PICK c \in {1, 2} : x \in At(c)
    BY <1>3
  <2>2. PICK i \in DOMAIN embodiment[c].checks : x = <<c, i>>
    BY <2>1
  <2>3. Check(x) = embodiment[c].checks[i]
    BY <2>2 DEF Check
  <2>4. \A k \in T : k.value \in Words
    OBVIOUS
  <2>5. Words \subseteq Seq(Members)
    BY WordsListed
  <2>6. Check(x) \in T
    <3> HIDE DEF T
    <3>1. embodiment[c].checks \in Seq(T)
      BY <1>1
    <3>2. \A s \in Seq(T) : \A j \in DOMAIN s : s[j] \in T
      OBVIOUS
    <3> QED
      BY <3>1, <3>2, <2>2, <2>3
  <2> HIDE DEF T
  <2> QED
    BY <2>4, <2>5, <2>6
<1> QED
  BY <1>5, <1>6

\* The bounds refuse what does not fit, for any checks and observations: a report is
\* no smaller than its lower estimate and no larger than its upper one.
LEMMA CapacityKept == DeclaredTyped /\ InputTyped => CapacityExact
<1> SUFFICES ASSUME DeclaredTyped, InputTyped PROVE CapacityExact
  OBVIOUS
<1>1. PICK L : L = [x \in Checks |-> estimateCheckLowerBound(Check(x))]
  OBVIOUS
<1>2. PICK E : E = [x \in Checks |-> encodedCheck(Check(x))]
  OBVIOUS
<1>3. PICK U : U = [x \in Checks |-> estimateCheck(Check(x))]
  OBVIOUS
<1>4. DOMAIN L = Checks /\ DOMAIN E = Checks /\ DOMAIN U = Checks /\ IsFiniteSet(Checks)
  BY <1>1, <1>2, <1>3, ChecksListed
<1>5. ASSUME NEW x \in Checks
      PROVE  L[x] \in Nat /\ E[x] \in Nat /\ U[x] \in Nat /\ L[x] <= E[x] /\ E[x] <= U[x]
  <2>1. PICK k : k = Check(x)
    OBVIOUS
  <2>2. k.value \in Seq(Members)
    BY <2>1, ChecksListed
  <2>3. L[x] = estimateCheckLowerBound(k) /\ E[x] = encodedCheck(k) /\ U[x] = estimateCheck(k)
    BY <1>1, <1>2, <1>3, <2>1
  <2> QED
    BY <2>2, <2>3, CheckBounded
<1>6. PICK l, e, u : l = SumFunction(L) /\ e = SumFunction(E) /\ u = SumFunction(U)
  OBVIOUS
<1>7. l = SumFunctionOnSet(L, Checks) /\ e = SumFunctionOnSet(E, Checks) /\ u = SumFunctionOnSet(U, Checks)
  BY <1>4, <1>6 DEF SumFunction
<1>8. l \in Nat /\ e \in Nat /\ u \in Nat
  BY <1>4, <1>5, <1>7, SumChosen
<1>9. l <= e
  BY <1>4, <1>5, <1>7, SumLeq
<1>10. e <= u
  BY <1>4, <1>5, <1>7, SumLeq
<1>11. MaxOutputBytes \in Nat /\ MaxOutputBytes + 1 \in Nat
  BY ConformanceAssumption
<1>12. PICK lower, upper : lower = Budget(MaxOutputBytes + 1, L) /\ upper = Budget(MaxOutputBytes, U)
  OBVIOUS
<1>13. lower = IF l > MaxOutputBytes + 1 THEN [limit |-> MaxOutputBytes + 1, total |-> MaxOutputBytes + 1, exceeded |-> TRUE]
               ELSE [limit |-> MaxOutputBytes + 1, total |-> l, exceeded |-> FALSE]
  BY <1>4, <1>5, <1>6, <1>11, <1>12, BudgetIs
<1>14. upper = IF u > MaxOutputBytes THEN [limit |-> MaxOutputBytes, total |-> MaxOutputBytes, exceeded |-> TRUE]
               ELSE [limit |-> MaxOutputBytes, total |-> u, exceeded |-> FALSE]
  BY <1>4, <1>5, <1>6, <1>11, <1>12, BudgetIs
<1>15. EvaluateRefuses <=> \/ lower.exceeded \/ lower.total > MaxOutputBytes
                           \/ upper.exceeded /\ e > MaxOutputBytes
  BY <1>1, <1>2, <1>3, <1>6, <1>12 DEF EvaluateRefuses, Encoded
<1>16. (lower.exceeded \/ lower.total > MaxOutputBytes) <=> l > MaxOutputBytes
  BY <1>8, <1>11, <1>13
<1>17. upper.exceeded <=> u > MaxOutputBytes
  BY <1>8, <1>11, <1>14
<1>18. EvaluateRefuses <=> e > MaxOutputBytes
  BY <1>8, <1>9, <1>10, <1>11, <1>15, <1>16, <1>17
<1> QED
  BY <1>2, <1>6, <1>18 DEF CapacityExact, Encoded

\* An observation adds one, of strings.
LEMMA ObserveKeeps ==
  ASSUME InputTyped, Observe
  PROVE  InputTyped'
<1> DEFINE O == [key: Keys, shape: Shapes \cup {"none"}, value: Seq(Members), error: BOOLEAN]
<1>0. PICK k \in Keys : \E o \in Reports(k) :
          input' = [state |-> "read", observations |-> Append(input.observations, o)]
  BY DEF Observe
<1>1. PICK o \in Reports(k) : input' = [state |-> "read", observations |-> Append(input.observations, o)]
  BY <1>0
<1>4. o \in O
  <2>1. CASE o = [key |-> k, shape |-> "none", value |-> <<>>, error |-> TRUE]
    BY <2>1
  <2>2. CASE o # [key |-> k, shape |-> "none", value |-> <<>>, error |-> TRUE]
    <3>1. PICK shape \in {"set", "scalar"}, v \in Words :
             o = [key |-> k, shape |-> shape, value |-> v, error |-> FALSE]
      BY <2>2 DEF Reports
    <3>2. v \in Seq(Members)
      BY WordsListed
    <3> QED
      BY <3>1, <3>2 DEF Shapes
  <2> QED
    BY <2>1, <2>2
<1> HIDE DEF O
<1>5. input.observations \in Seq(O)
  BY DEF InputTyped, O
<1>6. Append(input.observations, o) \in Seq(O)
  BY <1>4, <1>5
<1>7. input'.observations \in Seq(O)
  BY <1>1, <1>6
<1> QED
  BY <1>7 DEF InputTyped, O

\* No observation has been reported yet.
LEMMA InitInputTyped == Init => InputTyped
<1> DEFINE O == [key: Keys, shape: Shapes \cup {"none"}, value: Seq(Members), error: BOOLEAN]
<1>1. Init => input.observations = <<>>
  BY DEF Init
<1> HIDE DEF O
<1>2. <<>> \in Seq(O)
  OBVIOUS
<1> QED
  BY <1>1, <1>2 DEF InputTyped, O

\* Only an observation touches the observation file.
LEMMA InputTypedStep == InputTyped /\ [Next]_vars => InputTyped'
<1>1. InputTyped /\ UNCHANGED input => InputTyped'
  BY DEF InputTyped
<1>2. Next => UNCHANGED input \/ Observe
  <2>1. \A p : Of(p) => (p # "conformance" => UNCHANGED input)
    BY OthersKeep
  <2>2. \A c : Declare(c) => UNCHANGED input
    BY DEF Declare
  <2> QED
    BY <2>1, <2>2, StepOfPart
<1>3. UNCHANGED vars => UNCHANGED input
  BY DEF vars
<1> QED
  BY <1>1, <1>2, <1>3, ObserveKeeps

-----------------------------------------------------------------------------
(* The manifests' budgets: the running sizes are those of the first claims. *)

\* Finitely many numbers have an order.
LEMMA InOrder ==
  ASSUME NEW S, S \subseteq Nat, IsFiniteSet(S)
  PROVE  \E s \in [1..Cardinality(S) -> S] : \A i, j \in DOMAIN s : i < j => s[i] < s[j]
<1> DEFINE Ordered(T) == \E s \in [1..Cardinality(T) -> T] : \A i, j \in 1..Cardinality(T) : i < j => s[i] < s[j]
           Bad == {n \in Nat : \E T \in SUBSET S : Cardinality(T) = n /\ ~Ordered(T)}
<1>1. \A T \in SUBSET S : IsFiniteSet(T) /\ Cardinality(T) \in Nat
  BY FS_Subset, FS_CardinalityType
<1>2. Bad = {}
  <2> SUFFICES ASSUME Bad # {} PROVE FALSE
    OBVIOUS
  <2>1. PICK n \in Bad : \A m \in Bad : n <= m
    BY LeastNat
  <2>2. PICK T \in SUBSET S : Cardinality(T) = n /\ ~Ordered(T)
    BY <2>1
  <2>3. T # {}
    <3>1. Ordered({})
      <4>1. Cardinality({}) = 0
        BY FS_EmptySet
      <4>2. 1..0 = {}
        OBVIOUS
      <4>3. [i \in {} |-> 0] \in [{} -> {}]
        OBVIOUS
      <4> QED
        BY <4>1, <4>2, <4>3
    <3> HIDE DEF Ordered
    <3> QED
      BY <3>1, <2>2
  <2>4. PICK x \in T : \A y \in T : x <= y
    <3>1. T \subseteq Nat
      OBVIOUS
    <3> QED
      BY <3>1, <2>3, LeastNat
  <2>5. /\ T \ {x} \in SUBSET S /\ Cardinality(T \ {x}) = n - 1 /\ Cardinality(T \ {x}) \in Nat
    <3>1. IsFiniteSet(T)
      BY <1>1
    <3>2. Cardinality(T \ {x}) = Cardinality(T) - 1
      BY <3>1, <2>4, FS_RemoveElement
    <3> QED
      BY <3>2, <2>2, <1>1
  <2>6. Ordered(T \ {x})
    <3>1. ~(n <= Cardinality(T \ {x}))
      BY <2>5, <2>1
    <3>2. Cardinality(T \ {x}) \notin Bad
      BY <3>1, <2>1
    <3> HIDE DEF Ordered
    <3> QED
      BY <3>2, <2>5
  <2>7. PICK t \in [1..(n - 1) -> T \ {x}] : \A i, j \in 1..(n - 1) : i < j => t[i] < t[j]
    BY <2>5, <2>6
  <2>8. PICK s : s = [i \in 1..n |-> IF i = 1 THEN x ELSE t[i - 1]]
    OBVIOUS
  <2>9. \A i \in 1..n : i # 1 => i - 1 \in 1..(n - 1) /\ s[i] = t[i - 1] /\ t[i - 1] \in T \ {x}
    BY <2>1, <2>7, <2>8
  <2>10. s \in [1..n -> T]
    BY <2>4, <2>8, <2>9
  <2>11. ASSUME NEW i \in 1..n, NEW j \in 1..n, i < j PROVE s[i] < s[j]
    <3>0. j # 1 /\ j - 1 \in 1..(n - 1) /\ s[j] = t[j - 1] /\ t[j - 1] \in T \ {x}
      BY <2>9, <2>11, <2>1
    <3>1. CASE i = 1
      <4>1. s[i] = x
        BY <2>8, <3>1
      <4>2. x <= t[j - 1] /\ x # t[j - 1] /\ x \in Nat /\ t[j - 1] \in Nat
        BY <2>4, <3>0
      <4> QED
        BY <4>1, <4>2, <3>0
    <3>2. CASE i # 1
      <4>1. i - 1 \in 1..(n - 1) /\ s[i] = t[i - 1]
        BY <2>9, <3>2
      <4>2. i - 1 < j - 1
        BY <2>11, <2>1
      <4> QED
        BY <4>1, <4>2, <3>0, <2>7
    <3> QED
      BY <3>1, <3>2
  <2>12. Ordered(T)
    BY <2>2, <2>10, <2>11
  <2> HIDE DEF Ordered
  <2> QED
    BY <2>2, <2>12
<1>3. Ordered(S)
  <2>1. S \in SUBSET S
    OBVIOUS
  <2> HIDE DEF Ordered
  <2> QED
    BY <1>1, <1>2, <2>1
<1> QED
  BY <1>3

\* The project's claims are listed each once, in order.
LEMMA IndexLists ==
  ASSUME ManifestsTyped
  PROVE  LET S == ModuleClaims(NoModule)
             n == Cardinality(S)
         IN /\ IsFiniteSet(S) /\ S \subseteq Nat \ {0} /\ S \subseteq DOMAIN cards /\ n \in Nat
            /\ ProjectIndex \in [1..n -> S] /\ Len(ProjectIndex) = n
            /\ \A i, j \in 1..n : i < j => ProjectIndex[i] < ProjectIndex[j]
            /\ \A c \in S : \E i \in 1..n : ProjectIndex[i] = c
<1>1. PICK S : S = ModuleClaims(NoModule)
  OBVIOUS
<1>2. S \subseteq DOMAIN cards /\ S \subseteq Numbers
  BY <1>1 DEF ManifestsTyped, ManifestsKept, ModuleClaims
<1>3. IsFiniteSet(S) /\ S \subseteq Nat \ {0}
  BY <1>2, HomeAssumption, FS_Subset DEF Numbers
<1>4. PICK n : n = Cardinality(S)
  OBVIOUS
<1>5. n \in Nat
  BY <1>3, <1>4, FS_CardinalityType
<1>6. PICK s : s = ProjectIndex
  OBVIOUS
<1>7. s \in [1..n -> S] /\ \A i, j \in 1..n : i < j => s[i] < s[j]
  <2>1. \E t \in [1..n -> S] : \A i, j \in DOMAIN t : i < j => t[i] < t[j]
    BY <1>3, <1>4, InOrder
  <2>2. s = CHOOSE t \in [1..n -> S] : \A i, j \in DOMAIN t : i < j => t[i] < t[j]
    BY <1>1, <1>4, <1>6 DEF ProjectIndex
  <2>3. s \in [1..n -> S] /\ \A i, j \in DOMAIN s : i < j => s[i] < s[j]
    BY <2>1, <2>2
  <2> QED
    BY <2>3
<1>8. s \in Injection(1..n, S)
  <2>1. ASSUME NEW i \in 1..n, NEW j \in 1..n, s[i] = s[j] PROVE i = j
    <3>1. s[i] \in Nat /\ s[j] \in Nat
      BY <1>3, <1>7
    <3>2. ~(i < j) /\ ~(j < i)
      BY <3>1, <2>1, <1>7
    <3> QED
      BY <3>2
  <2> QED
    BY <2>1, <1>7 DEF Injection, IsInjective
<1>9. s \in Surjection(1..n, S)
  <2>1. Cardinality(1..n) = n
    BY <1>5, FS_Interval
  <2> QED
    BY <2>1, <1>3, <1>4, <1>8, FS_Injection
<1>10. \A c \in S : \E i \in 1..n : s[i] = c
  BY <1>9 DEF Surjection
<1>11. Len(s) = n
  BY <1>5, <1>7
<1> QED
  BY <1>1, <1>2, <1>3, <1>4, <1>5, <1>6, <1>7, <1>10, <1>11

\* The first i claims of the index, and the size of the shared text with them.
FirstClaims(i) == {ProjectIndex[j] : j \in 1..i}

SizeWith(T) == 2 + Width(constitution) + SummaryLines(T)

\* The lines of a set of claims: a width for each, and a comma between two.
LEMMA LinesAre ==
  ASSUME ManifestsTyped, NEW T \in SUBSET DOMAIN cards
  PROVE  LET w == [c \in DOMAIN cards |-> 1 + Width(cards[c])]
         IN /\ \A c \in DOMAIN cards : w[c] \in Nat
            /\ IsFiniteSet(T) /\ Cardinality(T) \in Nat
            /\ SumFunctionOnSet(w, T) \in Nat
            /\ SummaryLines(T) = SumFunctionOnSet(w, T) + Commas(Cardinality(T))
            /\ Commas(Cardinality(T)) \in Nat /\ SummaryLines(T) \in Nat
<1>1. PICK w : w = [c \in DOMAIN cards |-> 1 + Width(cards[c])]
  OBVIOUS
<1>2. \A c \in DOMAIN cards : w[c] \in Nat
  <2> TAKE c \in DOMAIN cards
  <2>1. cards[c] \in Blurbs
    BY DEF ManifestsTyped
  <2>2. Width(cards[c]) \in Nat
    BY <2>1, BudgetAssumption
  <2> QED
    BY <1>1, <2>2
<1>3. IsFiniteSet(T) /\ Cardinality(T) \in Nat
  <2>1. T \subseteq Numbers
    BY DEF ManifestsTyped, ManifestsKept
  <2> QED
    BY <2>1, HomeAssumption, FS_Subset, FS_CardinalityType DEF Numbers
<1>4. PICK v : v = [c \in T |-> 1 + Width(cards[c])]
  OBVIOUS
<1>5. \A c \in T : w[c] \in Nat /\ v[c] = w[c]
  BY <1>1, <1>2, <1>4
<1>6. SumFunctionOnSet(v, T) = SumFunctionOnSet(w, T)
  BY <1>3, <1>5, SumSame
<1>7. SummaryLines(T) = SumFunctionOnSet(v, T) + Commas(Cardinality(T))
  BY <1>4 DEF SummaryLines, SumFunction
<1>8. SumFunctionOnSet(w, T) \in Nat
  BY <1>3, <1>5, SumChosen
<1>9. Commas(Cardinality(T)) \in Nat
  BY <1>3 DEF Commas
<1>10. SummaryLines(T) \in Nat
  BY <1>6, <1>7, <1>8, <1>9
<1> QED
  BY <1>1, <1>2, <1>3, <1>6, <1>7, <1>8, <1>9, <1>10

\* The first i claims are those up to the i-th, and one more each time.
LEMMA FirstAre ==
  ASSUME ManifestsTyped, NEW i \in 0..Cardinality(ModuleClaims(NoModule))
  PROVE  /\ FirstClaims(i) \subseteq ModuleClaims(NoModule) /\ FirstClaims(i) \subseteq DOMAIN cards
         /\ Cardinality(FirstClaims(i)) = i
         /\ i = 0 => FirstClaims(i) = {}
         /\ i = Cardinality(ModuleClaims(NoModule)) => FirstClaims(i) = ModuleClaims(NoModule)
         /\ i # 0 => /\ ProjectIndex[i] \in FirstClaims(i)
                     /\ FirstClaims(i) \ {ProjectIndex[i]} = FirstClaims(i - 1)
                     /\ FirstClaims(i) = {d \in ModuleClaims(NoModule) : d <= ProjectIndex[i]}
<1>1. PICK S, n, s : S = ModuleClaims(NoModule) /\ n = Cardinality(S) /\ s = ProjectIndex
  OBVIOUS
<1>2. /\ IsFiniteSet(S) /\ S \subseteq Nat \ {0} /\ S \subseteq DOMAIN cards /\ n \in Nat
      /\ s \in [1..n -> S]
      /\ \A j, k \in 1..n : j < k => s[j] < s[k]
      /\ \A c \in S : \E j \in 1..n : s[j] = c
  BY <1>1, IndexLists
<1>3. i \in 0..n /\ i \in Nat /\ 1..i \subseteq 1..n
  BY <1>1, <1>2
<1>4. PICK F : F = FirstClaims(i)
  OBVIOUS
<1>5. F = {s[j] : j \in 1..i} /\ F \subseteq S
  BY <1>1, <1>2, <1>3, <1>4 DEF FirstClaims
<1>a. \A j, k \in 1..n : s[j] = s[k] => j = k
  <2> TAKE j, k \in 1..n
  <2>1. s[j] \in Nat /\ s[k] \in Nat
    BY <1>2
  <2>2. j < k => s[j] < s[k]
    BY <1>2
  <2>3. k < j => s[k] < s[j]
    BY <1>2
  <2> QED
    BY <2>1, <2>2, <2>3
<1>6. Cardinality(F) = i
  <2>1. PICK f : f = [j \in 1..i |-> s[j]]
    OBVIOUS
  <2>2. f \in Surjection(1..i, F) /\ f \in Injection(1..i, F)
    BY <1>3, <1>5, <1>a, <2>1 DEF Surjection, Injection, IsInjective
  <2>3. IsFiniteSet(1..i) /\ Cardinality(1..i) = i
    BY <1>3, FS_Interval
  <2> QED
    BY <2>2, <2>3, FS_Surjection
<1>7. i = n => F = S
  BY <1>2, <1>5
<1>8. ASSUME i # 0
      PROVE  /\ s[i] \in F /\ F \ {s[i]} = {s[j] : j \in 1..(i - 1)}
             /\ F = {d \in S : d <= s[i]}
  <2>1. i \in 1..n /\ i \in 1..i
    BY <1>3, <1>8
  <2>2. s[i] \in F
    BY <1>5, <2>1
  <2>3. F \ {s[i]} = {s[j] : j \in 1..(i - 1)}
    <3>1. \A j \in 1..i : j \in 1..n /\ (s[j] # s[i] <=> j \in 1..(i - 1))
      BY <1>3, <1>a, <2>1
    <3>2. \A j \in 1..(i - 1) : j \in 1..i
      BY <2>1
    <3> QED
      BY <1>5, <3>1, <3>2
  <2>4. ASSUME NEW d \in S, d <= s[i] PROVE d \in F
    <3>1. PICK j \in 1..n : s[j] = d
      BY <1>2
    <3>2. ~(i < j)
      <4>1. i < j => s[i] < s[j]
        BY <1>2, <2>1
      <4>2. s[i] \in Nat /\ s[j] \in Nat
        BY <1>2, <2>1
      <4> QED
        BY <4>1, <4>2, <2>4, <3>1
    <3>3. j \in 1..i
      BY <3>2, <2>1
    <3> QED
      BY <1>5, <3>1, <3>3
  <2>5. ASSUME NEW d \in F PROVE d \in S /\ d <= s[i]
    <3>1. PICK j \in 1..i : d = s[j]
      BY <1>5
    <3>2. j \in 1..n /\ (j = i \/ j < i)
      BY <1>3, <3>1
    <3>3. s[i] \in Nat /\ s[j] \in S /\ s[j] \in Nat
      BY <1>2, <2>1, <3>2
    <3>4. j < i => s[j] < s[i]
      BY <1>2, <2>1, <3>2
    <3> QED
      BY <3>1, <3>2, <3>3, <3>4
  <2> QED
    BY <2>2, <2>3, <2>4, <2>5
<1>9. i = 0 => F = {}
  BY <1>5
<1> QED
  BY <1>1, <1>2, <1>4, <1>5, <1>6, <1>7, <1>8, <1>9 DEF FirstClaims

\* The size added up entry by entry is the size of the text so far.
LEMMA SizesAre ==
  ASSUME ManifestsTyped
  PROVE  LET n == Cardinality(ModuleClaims(NoModule))
         IN /\ Len(ProjectIndex) = n /\ n \in Nat /\ DOMAIN sharedSizes = 0..n
            /\ \A i \in 0..n : sharedSizes[i] = SizeWith(FirstClaims(i)) /\ sharedSizes[i] \in Nat
<1>1. PICK S, n, s : S = ModuleClaims(NoModule) /\ n = Cardinality(S) /\ s = ProjectIndex
  OBVIOUS
<1>2. n \in Nat /\ s \in [1..n -> S] /\ Len(s) = n /\ S \subseteq DOMAIN cards
  BY <1>1, IndexLists
<1>c. PICK start : start = 2 + Width(constitution)
  OBVIOUS
<1>d. start \in Nat
  BY <1>c, BudgetAssumption DEF ManifestsTyped
<1>3. PICK h : h = [i \in 0..n |-> SizeWith(FirstClaims(i))]
  OBVIOUS
<1>4. \A i \in 0..n : h[i] \in Nat /\ h[i] = start + SummaryLines(FirstClaims(i))
  <2> TAKE i \in 0..n
  <2>1. FirstClaims(i) \in SUBSET DOMAIN cards
    BY <1>1, FirstAre
  <2>2. SummaryLines(FirstClaims(i)) \in Nat
    BY <2>1, LinesAre
  <2>3. h[i] = start + SummaryLines(FirstClaims(i))
    BY <1>3, <1>c DEF SizeWith
  <2> QED
    BY <1>d, <2>2, <2>3
<1>5. h[0] = start
  <2>1. 0 \in 0..n
    BY <1>2
  <2>2. FirstClaims(0) = {}
    BY <1>1, <2>1, FirstAre
  <2>3. SummaryLines({}) = 0
    <3>1. Cardinality({}) = 0 /\ IsFiniteSet({})
      BY FS_EmptySet
    <3>2. Commas(0) = 0
      BY DEF Commas
    <3>3. PICK w : w = [c \in DOMAIN cards |-> 1 + Width(cards[c])]
      OBVIOUS
    <3>4. SumFunctionOnSet(w, {}) = 0
      BY <3>1, SumChosen
    <3>5. SummaryLines({}) = SumFunctionOnSet(w, {}) + Commas(Cardinality({}))
      BY <3>3, LinesAre
    <3> QED
      BY <3>1, <3>2, <3>4, <3>5
  <2> QED
    BY <1>4, <1>d, <2>1, <2>2, <2>3
<1>6. ASSUME NEW i \in 1..n
      PROVE  h[i] = h[i - 1] + 1 + Width(cards[s[i]]) + IF i > 1 THEN 1 ELSE 0
  <2>1. i \in 0..n /\ i - 1 \in 0..n /\ i # 0
    BY <1>2
  <2>2. PICK F, G : F = FirstClaims(i) /\ G = FirstClaims(i - 1)
    OBVIOUS
  <2>3. /\ F \in SUBSET DOMAIN cards /\ G \in SUBSET DOMAIN cards
        /\ Cardinality(F) = i /\ Cardinality(G) = i - 1
        /\ s[i] \in F /\ F \ {s[i]} = G
    BY <1>1, <2>1, <2>2, FirstAre
  <2>4. PICK w : w = [c \in DOMAIN cards |-> 1 + Width(cards[c])]
    OBVIOUS
  <2>5. /\ IsFiniteSet(F) /\ \A c \in DOMAIN cards : w[c] \in Nat
        /\ SummaryLines(F) = SumFunctionOnSet(w, F) + Commas(i)
        /\ SummaryLines(G) = SumFunctionOnSet(w, G) + Commas(i - 1)
        /\ SumFunctionOnSet(w, G) \in Nat
    BY <2>3, <2>4, LinesAre
  <2>6. SumFunctionOnSet(w, F) = w[s[i]] + SumFunctionOnSet(w, F \ {s[i]})
    BY <2>3, <2>5, SumAt
  <2>7. w[s[i]] = 1 + Width(cards[s[i]]) /\ Width(cards[s[i]]) \in Nat
    <3>1. s[i] \in DOMAIN cards
      BY <2>3
    <3>2. cards[s[i]] \in Blurbs
      BY <3>1 DEF ManifestsTyped
    <3> QED
      BY <3>1, <3>2, <2>4, BudgetAssumption
  <2>8. Commas(i) = Commas(i - 1) + (IF i > 1 THEN 1 ELSE 0) /\ Commas(i - 1) \in Nat
    BY <2>1 DEF Commas
  <2>9. h[i] = start + SummaryLines(F) /\ h[i - 1] = start + SummaryLines(G)
    BY <1>4, <2>1, <2>2
  <2>10. PICK a, b, d, e : a = SumFunctionOnSet(w, G) /\ b = Width(cards[s[i]]) /\ d = Commas(i - 1)
                           /\ e = IF i > 1 THEN 1 ELSE 0
    OBVIOUS
  <2>11. a \in Nat /\ b \in Nat /\ d \in Nat /\ e \in Nat
    BY <2>5, <2>7, <2>8, <2>10
  <2>12. h[i] = start + ((1 + b) + a + (d + e))
    BY <2>3, <2>5, <2>6, <2>7, <2>8, <2>9, <2>10
  <2>13. h[i - 1] = start + (a + d)
    BY <2>5, <2>9, <2>10
  <2>14. h[i] = h[i - 1] + 1 + b + e
    BY <2>11, <2>12, <2>13, <1>d
  <2> QED
    BY <2>10, <2>14
<1> DEFINE Was(g) == g = [i \in 0..Len(ProjectIndex) |->
              IF i = 0 THEN 2 + Width(constitution)
              ELSE g[i-1] + 1 + Width(cards[ProjectIndex[i]]) + IF i > 1 THEN 1 ELSE 0]
           Is(g) == g = [i \in 0..n |-> IF i = 0 THEN start
              ELSE g[i-1] + 1 + Width(cards[s[i]]) + IF i > 1 THEN 1 ELSE 0]
<1>7. \A g : Was(g) <=> Is(g)
  BY <1>1, <1>2, <1>c
<1>8. PICK g : g = sharedSizes
  OBVIOUS
<1>9. g = CHOOSE f : Was(f)
  BY <1>8 DEF sharedSizes
<1>10. Is(h)
  <2>1. \A i \in 0..n : h[i] = IF i = 0 THEN start
              ELSE h[i-1] + 1 + Width(cards[s[i]]) + IF i > 1 THEN 1 ELSE 0
    BY <1>5, <1>6, <1>2
  <2>2. h = [i \in 0..n |-> h[i]]
    BY <1>3
  <2> QED
    BY <2>1, <2>2
<1> HIDE DEF Was
<1>11. Is(g)
  BY <1>7, <1>9, <1>10
<1>12. DOMAIN g = 0..n
  BY <1>11
<1> DEFINE Bad == {i \in 0..n : g[i] # h[i]}
<1>13. Bad = {}
  <2> SUFFICES ASSUME Bad # {} PROVE FALSE
    OBVIOUS
  <2>0. Bad \subseteq Nat
    BY <1>2
  <2>1. PICK i \in Bad : \A j \in Bad : i <= j
    BY <2>0, LeastNat
  <2>2. i \in 0..n /\ g[i] # h[i]
    BY <2>1
  <2>3. CASE i = 0
    BY <2>2, <2>3, <1>10, <1>11
  <2>4. CASE i # 0
    <3>1. i - 1 \in 0..n /\ ~(i <= i - 1)
      BY <2>2, <2>4, <1>2
    <3>2. g[i - 1] = h[i - 1]
      BY <3>1, <2>1
    <3>3. g[i] = g[i-1] + 1 + Width(cards[s[i]]) + IF i > 1 THEN 1 ELSE 0
      BY <1>11, <2>2, <2>4
    <3>4. h[i] = h[i-1] + 1 + Width(cards[s[i]]) + IF i > 1 THEN 1 ELSE 0
      BY <1>10, <2>2, <2>4
    <3> QED
      BY <2>2, <3>2, <3>3, <3>4
  <2> QED
    BY <2>3, <2>4
<1>14. \A i \in 0..n : g[i] = SizeWith(FirstClaims(i)) /\ g[i] \in Nat
  BY <1>3, <1>4, <1>13
<1> QED
  BY <1>1, <1>2, <1>8, <1>12, <1>14

\* No size is less than an earlier one.
LEMMA SizesGrow ==
  ASSUME ManifestsTyped, NEW i \in 0..Cardinality(ModuleClaims(NoModule))
  PROVE  SizeWith(FirstClaims(i)) <= SharedBytes
<1>1. PICK S, F : S = ModuleClaims(NoModule) /\ F = FirstClaims(i)
  OBVIOUS
<1>2. S \in SUBSET DOMAIN cards /\ F \in SUBSET DOMAIN cards /\ F \in SUBSET S /\ Cardinality(F) = i
  BY <1>1, FirstAre DEF ModuleClaims
<1>3. PICK w : w = [c \in DOMAIN cards |-> 1 + Width(cards[c])]
  OBVIOUS
<1>4. /\ IsFiniteSet(S) /\ Cardinality(S) \in Nat /\ \A c \in DOMAIN cards : w[c] \in Nat
      /\ SummaryLines(S) = SumFunctionOnSet(w, S) + Commas(Cardinality(S))
      /\ SummaryLines(F) = SumFunctionOnSet(w, F) + Commas(i)
      /\ SumFunctionOnSet(w, F) \in Nat
  BY <1>2, <1>3, LinesAre
<1>5. SumFunctionOnSet(w, S) = SumFunctionOnSet(w, F) + SumFunctionOnSet(w, S \ F)
  BY <1>2, <1>4, SumJoin
<1>6. SumFunctionOnSet(w, S \ F) \in Nat
  <2>1. IsFiniteSet(S \ F) /\ \A c \in S \ F : w[c] \in Nat
    BY <1>2, <1>4, FS_Subset
  <2> QED
    BY <2>1, SumChosen
<1>7. Commas(i) <= Commas(Cardinality(S)) /\ Commas(i) \in Nat /\ Commas(Cardinality(S)) \in Nat
  <2>1. i \in Nat /\ i <= Cardinality(S)
    BY <1>1, <1>4
  <2> QED
    BY <2>1, <1>4 DEF Commas
<1>8. PICK a, b, d, e, z : /\ a = SumFunctionOnSet(w, F) /\ b = SumFunctionOnSet(w, S \ F)
                           /\ d = Commas(i) /\ e = Commas(Cardinality(S)) /\ z = 2 + Width(constitution)
  OBVIOUS
<1>9. SizeWith(F) = z + (a + d) /\ SharedBytes = z + ((a + b) + e)
  BY <1>1, <1>4, <1>5, <1>8 DEF SizeWith, SharedBytes
<1>10. z \in Nat
  BY <1>8, BudgetAssumption DEF ManifestsTyped
<1>11. a \in Nat /\ b \in Nat /\ d \in Nat /\ e \in Nat /\ d <= e
  BY <1>4, <1>6, <1>7, <1>8
<1>12. z + (a + d) <= z + ((a + b) + e)
  BY <1>10, <1>11
<1> QED
  BY <1>1, <1>9, <1>12

\* An overflow of the shared text is found, at its size, and blamed on the first
\* claim that does not fit: the sizes are those of the first claims, in order.
LEMMA Blamed == ManifestsTyped => SharedBlame
<1> SUFFICES ASSUME ManifestsTyped PROVE SharedBlame
  OBVIOUS
<1>1. PICK S, n, s, z : S = ModuleClaims(NoModule) /\ n = Cardinality(S) /\ s = ProjectIndex /\ z = sharedSizes
  OBVIOUS
<1>2. /\ S \subseteq Nat \ {0} /\ n \in Nat /\ s \in [1..n -> S] /\ Len(s) = n
      /\ \A i, j \in 1..n : i < j => s[i] < s[j]
      /\ \A c \in S : \E i \in 1..n : s[i] = c
  BY <1>1, IndexLists
<1>3. DOMAIN z = 0..n /\ \A i \in 0..n : z[i] = SizeWith(FirstClaims(i)) /\ z[i] \in Nat
  BY <1>1, SizesAre
<1>4. z[n] = SharedBytes /\ n \in 0..n
  <2>1. n \in 0..n
    BY <1>2
  <2>2. FirstClaims(n) = S
    BY <1>1, <2>1, FirstAre
  <2> QED
    BY <1>1, <1>3, <2>1, <2>2 DEF SizeWith, SharedBytes
<1>5. \A i \in 0..n : z[i] <= SharedBytes
  BY <1>1, <1>3, SizesGrow
<1>6. PICK upto : upto = [c \in S \cup {0} |-> SizeWith({d \in S : d <= c})]
  OBVIOUS
<1>7. upto[0] = z[0]
  <2>1. {d \in S : d <= 0} = {}
    <3>1. \A d \in S : d \in Nat /\ d # 0
      BY <1>2
    <3>2. \A d \in Nat : d # 0 => ~(d <= 0)
      OBVIOUS
    <3> QED
      BY <3>1, <3>2
  <2>2. 0 \in 0..n /\ FirstClaims(0) = {}
    BY <1>1, <1>2, FirstAre
  <2>3. upto[0] = SizeWith({d \in S : d <= 0})
    BY <1>6
  <2> QED
    BY <1>3, <2>1, <2>2, <2>3
<1>8. ASSUME NEW i \in 1..n PROVE upto[s[i]] = z[i]
  <2>1. i \in 0..n /\ i # 0 /\ s[i] \in S
    BY <1>2
  <2>2. FirstClaims(i) = {d \in S : d <= s[i]}
    BY <1>1, <2>1, FirstAre
  <2>3. upto[s[i]] = SizeWith({d \in S : d <= s[i]})
    BY <1>6, <2>1
  <2> QED
    BY <1>3, <2>1, <2>2, <2>3
<1>9. PICK over : over = {i \in 0..n : z[i] > SharedBudgetBytes}
  OBVIOUS
<1>10. PICK found : found = CheckSharedBudget
  OBVIOUS
<1>11. found = IF over = {} THEN [over |-> FALSE]
               ELSE [over |-> TRUE, bytes |-> z[n],
                     claim |-> LET i == CHOOSE i \in over : \A j \in over : i <= j
                               IN IF i = 0 THEN 0 ELSE s[i]]
  BY <1>1, <1>2, <1>3, <1>9, <1>10 DEF CheckSharedBudget
<1>12. over = {} <=> ~(SharedBytes > SharedBudgetBytes)
  <2>1. over # {} => SharedBytes > SharedBudgetBytes
    <3> SUFFICES ASSUME over # {} PROVE SharedBytes > SharedBudgetBytes
      OBVIOUS
    <3>1. PICK i \in 0..n : z[i] > SharedBudgetBytes
      BY <1>9
    <3>2. z[i] <= z[n] /\ z[i] \in Nat /\ z[n] \in Nat /\ SharedBudgetBytes \in Nat
      BY <1>3, <1>4, <1>5, BudgetAssumption
    <3>3. z[n] > SharedBudgetBytes
      BY <3>1, <3>2
    <3> QED
      BY <3>3, <1>4
  <2>2. SharedBytes > SharedBudgetBytes => over # {}
    BY <1>4, <1>9
  <2> QED
    BY <2>1, <2>2
<1>13. found.over <=> SharedBytes > SharedBudgetBytes
  BY <1>11, <1>12
<1>14. ASSUME over # {}
       PROVE  /\ found.bytes = SharedBytes
              /\ found.claim \in S \cup {0} /\ upto[found.claim] > SharedBudgetBytes
              /\ \A c \in S \cup {0} : c < found.claim => upto[c] <= SharedBudgetBytes
  <2>1. over \subseteq Nat
    BY <1>2, <1>9
  <2>2. \E i \in over : \A j \in over : i <= j
    BY <2>1, <1>14, LeastNat
  <2>3. PICK i : i = CHOOSE k \in over : \A j \in over : k <= j
    OBVIOUS
  <2>4. i \in over /\ \A j \in over : i <= j
    BY <2>2, <2>3
  <2>5. i \in 0..n /\ z[i] > SharedBudgetBytes
    BY <2>4, <1>9
  <2>6. found.bytes = SharedBytes /\ found.claim = IF i = 0 THEN 0 ELSE s[i]
    BY <1>11, <1>14, <2>3, <1>4
  <2>7. ASSUME NEW j \in 0..n, j < i PROVE z[j] <= SharedBudgetBytes
    <3>1. j \notin over
      BY <2>1, <2>4, <2>5, <2>7
    <3> QED
      BY <3>1, <1>3, <1>9, BudgetAssumption
  <2>8. CASE i = 0
    <3>1. found.claim = 0
      BY <2>6, <2>8
    <3>2. \A c \in S \cup {0} : ~(c < 0)
      BY <1>2
    <3> QED
      BY <2>5, <2>6, <2>8, <3>1, <3>2, <1>7
  <2>9. CASE i # 0
    <3>1. i \in 1..n /\ found.claim = s[i] /\ s[i] \in S
      BY <2>5, <2>6, <2>9, <1>2
    <3>2. upto[found.claim] > SharedBudgetBytes
      BY <2>5, <3>1, <1>8
    <3>3. ASSUME NEW c \in S \cup {0}, c < s[i] PROVE upto[c] <= SharedBudgetBytes
      <4>1. CASE c = 0
        <5>1. 0 \in 0..n /\ 0 < i
          BY <1>2, <3>1
        <5> QED
          BY <4>1, <5>1, <2>7, <1>7
      <4>2. CASE c # 0
        <5>1. PICK j \in 1..n : s[j] = c
          BY <3>3, <4>2, <1>2
        <5>2. ~(i < j) /\ i # j
          <6>1. i < j => s[i] < s[j]
            BY <3>1, <1>2
          <6>2. s[i] \in Nat /\ s[j] \in Nat
            BY <3>1, <1>2
          <6>3. s[j] < s[i]
            BY <3>3, <5>1
          <6> QED
            BY <6>1, <6>2, <6>3
        <5>3. j < i /\ j \in 0..n
          BY <5>2, <3>1
        <5> QED
          BY <5>1, <5>3, <2>7, <1>8
      <4> QED
        BY <4>1, <4>2
    <3> QED
      BY <2>6, <3>1, <3>2, <3>3
  <2> QED
    BY <2>8, <2>9
<1>15. \A c \in S \cup {0} : upto[c] = 2 + Width(constitution) + SummaryLines({d \in S : d <= c})
  BY <1>6 DEF SizeWith
<1>16. found.over => over # {}
  BY <1>11
<1> QED
  BY <1>1, <1>10, <1>13, <1>14, <1>15, <1>16 DEF SharedBlame

\* The views are measured in naturals.
LEMMA ViewsMeasured ==
  ASSUME ManifestsTyped, NEW m
  PROVE  measureIsolation(decodeManifest(m), m) \in Nat /\ SharedBytes \in Nat
<1>1. PICK file : file = decodeManifest(m)
  OBVIOUS
<1>2. file.summary \in Blurbs /\ Len(file.provides) \in Nat /\ Len(file.depends) \in Nat
  <2>1. CASE file = Empty
    <3>1. Len(<<>>) = 0
      OBVIOUS
    <3>2. file.summary = "none" /\ file.provides = <<>> /\ file.depends = <<>>
      BY <2>1 DEF Empty
    <3> QED
      BY <3>1, <3>2, BudgetAssumption
  <2>2. CASE m \in DOMAIN files /\ file = files[m]
    <3> DEFINE Q == Seq(Numbers \cup {0})
    <3>1. files[m] \in [decodes: BOOLEAN, summary: Blurbs, provides: Q, depends: Q]
      BY <2>2 DEF ManifestsTyped
    <3>2. file.summary \in Blurbs /\ file.provides \in Q /\ file.depends \in Q
      <4> HIDE DEF Q
      <4> QED
        BY <2>2, <3>1
    <3>3. \A q \in Q : Len(q) \in Nat
      OBVIOUS
    <3> QED
      BY <3>2, <3>3
  <2> QED
    BY <1>1, <2>1, <2>2 DEF decodeManifest
<1>3. ModuleClaims(m) \in SUBSET DOMAIN cards /\ ModuleClaims(NoModule) \in SUBSET DOMAIN cards
  BY DEF ModuleClaims
<1>4. PICK P : P = {c \in ModuleClaims(m) : IsContract(c)}
  OBVIOUS
<1>5. Cardinality(P) \in Nat /\ SummaryLines(ModuleClaims(m)) \in Nat
      /\ SummaryLines(ModuleClaims(NoModule)) \in Nat
  <2>1. P \in SUBSET DOMAIN cards
    BY <1>3, <1>4
  <2> QED
    BY <2>1, <1>3, LinesAre
<1>6. \A n \in Nat : ListBytes(n) \in Nat
  BY DEF ListBytes, Commas
<1>7. Width(file.summary) \in Nat /\ Width(constitution) \in Nat
  BY <1>2, BudgetAssumption DEF ManifestsTyped
<1>8. SharedBytes \in Nat
  BY <1>5, <1>7 DEF SharedBytes
<1>9. /\ ListBytes(Len(file.provides)) \in Nat /\ ListBytes(Len(file.depends)) \in Nat
      /\ ListBytes(Cardinality(P)) \in Nat
  BY <1>2, <1>5, <1>6
<1>10. measureIsolation(file, m) = Width(file.summary) + ListBytes(Len(file.provides))
          + ListBytes(Len(file.depends)) + SummaryLines(ModuleClaims(m)) + ListBytes(Cardinality(P))
  BY <1>4 DEF measureIsolation
<1>11. measureIsolation(file, m) \in Nat
  <2>1. \A a, b, c, d, e \in Nat : a + b + c + d + e \in Nat
    OBVIOUS
  <2> QED
    BY <1>5, <1>7, <1>9, <1>10, <2>1
<1> QED
  BY <1>1, <1>8, <1>11

\* A module without a finding is within the module budget, so that the view is
\* within the sum of the two when the shared text is within its own.
LEMMA ViewsAre == ManifestsTyped => ViewsFit
<1> SUFFICES ASSUME ManifestsTyped PROVE ViewsFit
  OBVIOUS
<1>1. SharedBlame
  BY Blamed
<1>2. ASSUME NEW m \in ToSet(Modules), Findings(m) = {}
      PROVE  /\ ~Isolation(m).refused
             /\ ~CheckSharedBudget.over => Isolation(m).bytes <= SharedBudgetBytes + ModuleBudgetBytes
  <2>1. PICK u, b, f : u = measureIsolation(decodeManifest(m), m) /\ b = SharedBytes
                       /\ f = Finding(m, "too large", 0)
    OBVIOUS
  <2>2. u \in Nat /\ b \in Nat
    BY <2>1, ViewsMeasured
  <2>3. ~(u > ModuleBudgetBytes)
    <3> SUFFICES ASSUME u > ModuleBudgetBytes PROVE FALSE
      OBVIOUS
    <3>1. f \in moduleBudgetFindings(m)
      BY <2>1 DEF moduleBudgetFindings, When
    <3>2. f \in checkTree
      BY <3>1 DEF checkTree
    <3>3. f.module = m
      BY <2>1 DEF Finding
    <3> QED
      BY <1>2, <3>2, <3>3 DEF Findings
  <2>4. Isolation(m) = [refused |-> u > ModuleBudgetBytes, bytes |-> b + u]
    BY <2>1 DEF Isolation
  <2>5. ~CheckSharedBudget.over => ~(b > SharedBudgetBytes)
    BY <1>1, <2>1 DEF SharedBlame
  <2>6. ~(b > SharedBudgetBytes) => b + u <= SharedBudgetBytes + ModuleBudgetBytes
    BY <2>2, <2>3, BudgetAssumption
  <2>7. Isolation(m).refused = (u > ModuleBudgetBytes) /\ Isolation(m).bytes = b + u
    BY <2>4
  <2> QED
    BY <2>3, <2>5, <2>6, <2>7
<1> QED
  BY <1>1, <1>2 DEF ViewsFit

-----------------------------------------------------------------------------

\* The drafted manifests are of the form a manifest has.
LEMMA ManifestInitTyped == ManifestInit => ManifestsTyped
<1> DEFINE Q == Seq(Numbers \cup {0})
           R == [decodes: BOOLEAN, summary: Blurbs, provides: Q, depends: Q]
           Contract(m) == {c \in Numbers : Home[c] = [module |-> m, facet |-> "contract"]}
<1> SUFFICES ASSUME ManifestInit PROVE ManifestsTyped
  OBVIOUS
<1>1. ManifestsKept
  BY DEF ManifestInit, ManifestsKept
<1>2. cards \in [DOMAIN cards -> Blurbs] /\ constitution \in Blurbs
  BY BudgetAssumption DEF ManifestInit
<1>3. \A m : SetToSeq(Contract(m)) \in Q
  <2> TAKE m
  <2>1. IsFiniteSet(Contract(m))
    BY HomeAssumption, FS_Subset DEF Numbers
  <2>2. PICK S, n : S = Contract(m) /\ n = Cardinality(S)
    OBVIOUS
  <2>3. n \in Nat /\ \E g \in Bijection(1..n, S) : TRUE
    <3>1. ExistsBijection(1..n, S) /\ n \in Nat
      BY <2>1, <2>2, FS_CardinalityType
    <3> QED
      BY <3>1 DEF ExistsBijection
  <2>4. \E g \in [1..n -> S] : IsInjective(g)
    BY <2>3 DEF Bijection, Injection
  <2>5. SetToSeq(S) \in [1..n -> S]
    BY <2>2, <2>4 DEF SetToSeq
  <2>6. SetToSeq(S) \in Seq(S)
    BY <2>3, <2>5, SeqDef
  <2>7. S \subseteq Numbers \cup {0}
    BY <2>2
  <2> QED
    BY <2>2, <2>6, <2>7
<1>4. files \in [ToSet(Modules) -> R]
  <2>1. files = [m \in ToSet(Modules) |-> [decodes |-> TRUE, summary |-> "plain", depends |-> <<>>,
                                           provides |-> SetToSeq(Contract(m))]]
    BY DEF ManifestInit
  <2>2. <<>> \in Q
    OBVIOUS
  <2> HIDE DEF Q, Contract
  <2>3. \A m \in ToSet(Modules) : [decodes |-> TRUE, summary |-> "plain", depends |-> <<>>,
                                   provides |-> SetToSeq(Contract(m))] \in R
    BY <1>3, <2>2, BudgetAssumption
  <2> QED
    BY <2>1, <2>3
<1>5. DOMAIN files = ToSet(Modules)
  BY DEF ManifestInit
<1> HIDE DEF R
<1>6. files \in [DOMAIN files -> R]
  BY <1>4, <1>5
<1> QED
  BY <1>1, <1>2, <1>6 DEF ManifestsTyped, R

\* An edit leaves manifests of the same form.
LEMMA ManifestsTypedStep ==
  ASSUME ManifestsTyped, [ManifestEdit]_manifestVars
  PROVE  ManifestsTyped'
<1> DEFINE Q == Seq(Numbers \cup {0})
           R == [decodes: BOOLEAN, summary: Blurbs, provides: Q, depends: Q]
<1>1. ManifestsKept'
  BY ManifestsKeep DEF ManifestsTyped
<1>2. /\ cards \in [DOMAIN cards -> Blurbs] /\ constitution \in Blurbs
      /\ files \in [DOMAIN files -> R]
  BY DEF ManifestsTyped
<1>3. Numbers' = Numbers
  BY DEF Numbers
<1>4. cards' \in [DOMAIN cards' -> Blurbs] /\ constitution' \in Blurbs /\ files' \in [DOMAIN files' -> R]
  <2>1. ASSUME NEW m \in ToSet(Modules), SaveManifest(m)
        PROVE  files' \in [DOMAIN files' -> R] /\ UNCHANGED <<cards, constitution>>
    <3>0. UNCHANGED <<cards, constitution>>
      BY <2>1 DEF SaveManifest
    <3>1. CASE files' = [k \in DOMAIN files \ {m} |-> files[k]]
      <4> HIDE DEF R
      <4> QED
        BY <1>2, <3>0, <3>1
    <3>2. CASE files' = [k \in DOMAIN files \cup {m} |-> IF k = m THEN Empty ELSE files[k]]
      <4>1. Empty \in R
        <5>1. <<>> \in Q
          OBVIOUS
        <5> HIDE DEF Q
        <5> QED
          BY <5>1, BudgetAssumption DEF Empty
      <4> HIDE DEF R
      <4> QED
        BY <1>2, <3>0, <3>2, <4>1
    <3>3. CASE m \in DOMAIN files /\ \E r \in R : files' = [files EXCEPT ![m] = r]
      <4> HIDE DEF R
      <4> QED
        BY <1>2, <3>0, <3>3
    <3>4. ASSUME m \in DOMAIN files,
                 \/ \E s \in Blurbs : files' = [files EXCEPT ![m].summary = s]
                 \/ \E c \in Numbers \cup {0} : \/ files' = [files EXCEPT ![m].provides = Append(@, c)]
                                              \/ files' = [files EXCEPT ![m].depends = Append(@, c)]
                 \/ files[m].provides # <<>> /\ files' = [files EXCEPT ![m].provides = Tail(@)]
                 \/ files' = [files EXCEPT ![m].decodes = ~@]
          PROVE  \E r \in R : files' = [files EXCEPT ![m] = r]
      <4>1. PICK r : r = files[m]
        OBVIOUS
      <4>2. r \in R
        <5> HIDE DEF R
        <5> QED
          BY <1>2, <3>4, <4>1
      <4>3. \A q \in Q : \A c \in Numbers \cup {0} : Append(q, c) \in Q
        OBVIOUS
      <4>4. \A q \in Q : q # <<>> => Tail(q) \in Q
        OBVIOUS
      <4> HIDE DEF Q
      <4>5. /\ \A s \in Blurbs : [r EXCEPT !.summary = s] \in R
            /\ \A c \in Numbers \cup {0} : /\ [r EXCEPT !.provides = Append(@, c)] \in R
                                         /\ [r EXCEPT !.depends = Append(@, c)] \in R
            /\ r.provides # <<>> => [r EXCEPT !.provides = Tail(@)] \in R
            /\ [r EXCEPT !.decodes = ~@] \in R
        BY <4>2, <4>3, <4>4
      <4> HIDE DEF R
      <4> QED
        BY <3>4, <4>1, <4>5
    <3> QED
      BY <2>1, <3>0, <3>1, <3>2, <3>3, <3>4 DEF SaveManifest
  <2> HIDE DEF R
  <2>2. ASSUME NEW c \in Numbers, EditCard(c)
        PROVE  cards' \in [DOMAIN cards' -> Blurbs] /\ UNCHANGED <<files, constitution>>
    BY <1>2, <2>2 DEF EditCard
  <2>3. EditShared => UNCHANGED <<cards, files>> /\ constitution' \in Blurbs
    BY <1>2 DEF EditShared
  <2>4. UNCHANGED manifestVars => UNCHANGED <<cards, files, constitution>>
    BY DEF manifestVars
  <2> QED
    BY <1>2, <2>1, <2>2, <2>3, <2>4 DEF ManifestEdit
<1> QED
  BY <1>1, <1>3, <1>4 DEF ManifestsTyped

\* What check lets pass fits (manifest show --isolation), and an overflow of the text
\* all modules share is blamed on the claim that causes it.
THEOREM ViewsAreFit == ManifestSpec => []ViewsFit
<1>1. ManifestSpec => []ManifestsTyped
  BY ManifestInitTyped, ManifestsTypedStep, PTL DEF ManifestSpec
<1> QED
  BY <1>1, ViewsAre, PTL

\* The byte bounds are exact for any files (Evaluate, refreshReport, checkTree): a report
\* is refused exactly when it is larger than the limit, and a view that check lets pass fits.
THEOREM ProjectBounds == Spec => []BoundsExact
<1>1. CapacityExact /\ ViewsFit => BoundsExact
  BY DEF BoundsExact
<1>2. Spec => [](DeclaredTyped /\ InputTyped)
  BY InitDeclaredTyped, DeclaredTypedStep, InitInputTyped, InputTypedStep, PTL DEF Spec
<1> QED
  BY <1>1, <1>2, CapacityKept, PartsOf, ViewsAreFit, PTL
=============================================================================
