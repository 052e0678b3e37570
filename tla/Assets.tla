------------------------------- MODULE Assets -------------------------------
(***************************************************************************)
(* The images of claim bodies under dossierx serve: the index of the paths *)
(* the route may answer, rebuilt from the claims on disk and trusted for a *)
(* while, and the requests answered from it.                               *)
(*                                                                         *)
(* Time is counted in ticks of the poll interval.  A check of the index is *)
(* much shorter than a tick, but an edit can fall between its two reads of *)
(* the disk.  A URL is a claim id and an image name; the file it stands    *)
(* for is beside the claim file, so two files never share an image.        *)
(***************************************************************************)
EXTENDS Naturals, FiniteSets

CONSTANTS
    ClaimFiles,   \* the claim files, each in a directory of its own
    Names,        \* the ids a claim can have
    Images,       \* the names of the images beside a claim file
    Window,       \* ticks a check of the index is trusted for
    Grace,        \* ticks an index is kept without being confirmed
    MaxTick,      \* bound on the clock
    NoImage       \* where there is no image

ASSUME WindowAssumption ==
    /\ Window \in Nat \ {0} /\ Grace \in Nat /\ MaxTick \in Nat
    /\ IsFiniteSet(ClaimFiles) /\ Names # {}
    /\ NoImage \notin ClaimFiles \X Images

VARIABLES
    clock,     \* ticks since the server started
    tree,      \* each claim file: its state, its id, the images its page shows, its stamp
    linked,    \* the images that are a symbolic link or no regular file
    assets,    \* the index: what it was built from, and the file each URL stands for
    checked,   \* when the index was last checked, and last confirmed
    asset,     \* the check a request is in the middle of, and the request's answer
    shown      \* when each URL last stood for each file, and since when it has without a break

assetVars == <<clock, tree, linked, assets, checked, asset, shown>>

\* No tick of the clock.
Never == MaxTick + 1

States == {"good", "broken", "unreadable"}

URLs == Names \X Images
ImageFiles == ClaimFiles \X Images

NoIndex == [fp |-> [f \in {} |-> 0], paths |-> [u \in {} |-> NoImage], built |-> FALSE]

\* The fingerprint of the files the loader reads: a stamp for each.
scanLoadedClaimFingerprint == [f \in ClaimFiles |-> tree[f].stamp]

\* The ids more than one claim has.
duplicateClaimIDs(t) ==
    {n \in Names : Cardinality({f \in ClaimFiles : t[f].id = n}) > 1}

\* The URLs of one claim, and the file of each.
indexClaimAssets(t, f) == [u \in {t[f].id} \X t[f].images |-> <<f, u[2]>>]

\* An ambiguous id has no images; a tree that does not parse has no index.
Loads(t) == \A f \in ClaimFiles : t[f].state = "good"

Paths(t) ==
    LET alone == {f \in ClaimFiles : t[f].id \notin duplicateClaimIDs(t)}
        urls == UNION {DOMAIN indexClaimAssets(t, f) : f \in alone}
    IN [u \in urls |-> LET f == CHOOSE g \in alone : t[g].id = u[1] IN indexClaimAssets(t, f)[u]]

buildAssetIndex(fp) == [fp |-> fp, paths |-> Paths(tree), built |-> TRUE]

-----------------------------------------------------------------------------

\* What the pages of the tree show; nothing when they do not render.
Showing(t, u) == IF Loads(t) /\ u \in DOMAIN Paths(t) THEN Paths(t)[u] ELSE NoImage

\* The times the property speaks of.
Shown(t) ==
    [u \in URLs |-> [last |-> [x \in ImageFiles |-> IF Showing(t, u) = x THEN clock ELSE shown[u].last[x]],
                     file |-> Showing(t, u),
                     since |-> IF Showing(t, u) = shown[u].file THEN shown[u].since ELSE clock]]

NoRequest == [pc |-> "idle", url |-> NoImage, fp |-> NoImage, answer |-> NoImage]

AssetsInit ==
    /\ clock = 0
    /\ tree = [f \in ClaimFiles |-> [state |-> "good", id |-> CHOOSE n \in Names : TRUE, images |-> {}, stamp |-> 0]]
    /\ linked = {}
    /\ assets = NoIndex
    /\ checked = [at |-> 0, confirmed |-> 0]
    /\ asset = NoRequest
    /\ shown = [u \in URLs |-> [last |-> [x \in ImageFiles |-> Never], file |-> NoImage, since |-> 0]]

\* An answer is looked at as it is given.
Settle == asset' = IF asset.pc = "answered" THEN NoRequest ELSE asset

\* Time passes between requests.
Tick ==
    /\ asset.pc \in {"idle", "answered"} /\ clock < MaxTick
    /\ clock' = clock + 1
    /\ Settle
    /\ shown' = [u \in URLs |-> [shown[u] EXCEPT !.last =
                    [x \in ImageFiles |-> IF shown[u].file = x THEN clock + 1 ELSE @[x]]]]
    /\ UNCHANGED <<tree, linked, assets, checked>>

\* A claim file is saved: broken or not, with another id or other images.
SaveClaimFile(f) ==
    /\ \E s \in States, n \in Names, i \in SUBSET Images :
          /\ s # "good" => n = tree[f].id /\ i = tree[f].images
          /\ tree[f] # [tree[f] EXCEPT !.state = s, !.id = n, !.images = i]
          /\ tree' = [tree EXCEPT ![f] = [state |-> s, id |-> n, images |-> i, stamp |-> @.stamp + 1]]
    /\ shown' = Shown(tree')
    /\ Settle
    /\ UNCHANGED <<clock, linked, assets, checked>>

\* An image is replaced by a symbolic link, or a link by an image.
RelinkImage ==
    /\ \E x \in ImageFiles : linked' = (linked \ {x}) \cup ({x} \ linked)
    /\ Settle
    /\ UNCHANGED <<clock, tree, assets, checked, shown>>

-----------------------------------------------------------------------------
(* A request.  claimAssets holds assetsMu to its end: one check at a time. *)

\* The file is looked up in the index, resolved again, and sent or not.
handleClaimAsset(u, idx) ==
    IF u \in DOMAIN idx.paths /\ idx.paths[u] \notin linked THEN idx.paths[u] ELSE NoImage

Answer(u, idx) == asset' = [pc |-> "answered", url |-> u, fp |-> NoImage, answer |-> handleClaimAsset(u, idx)]

Request(u) ==
    /\ asset.pc \in {"idle", "answered"}
    /\ IF assets.built /\ clock - checked.at < Window
       THEN Answer(u, assets) /\ UNCHANGED <<assets, checked>>
       ELSE /\ checked' = [checked EXCEPT !.at = clock]
            /\ asset' = [NoRequest EXCEPT !.pc = "scan", !.url = u]
            /\ UNCHANGED assets
    /\ UNCHANGED <<clock, tree, linked, shown>>

\* A failed check counts as one more confirmation.
keepAssetsConfirms ==
    /\ assets' = [assets EXCEPT !.built = TRUE]
    /\ Answer(asset.url, assets')
    /\ checked' = [checked EXCEPT !.confirmed = clock]

\* A check that could not be completed keeps the index until the grace is over.
keepAssets ==
    LET kept == IF assets.built /\ clock - checked.confirmed <= Grace
                THEN assets ELSE [NoIndex EXCEPT !.built = TRUE]
    IN assets' = kept /\ Answer(asset.url, kept) /\ UNCHANGED checked

\* The fingerprint: unreadable, the one the index was built from, or a new one.
ScanClaims ==
    /\ asset.pc = "scan"
    /\ \/ (\E f \in ClaimFiles : tree[f].state = "unreadable") /\ keepAssets
       \/ LET fp == scanLoadedClaimFingerprint
          IN /\ \A f \in ClaimFiles : tree[f].state # "unreadable"
             /\ IF assets.built /\ assets.fp = fp
                THEN /\ checked' = [checked EXCEPT !.confirmed = clock]
                     /\ Answer(asset.url, assets) /\ UNCHANGED assets
                ELSE asset' = [asset EXCEPT !.pc = "load", !.fp = fp] /\ UNCHANGED <<assets, checked>>
    /\ UNCHANGED <<clock, tree, linked, shown>>

\* The claims are loaded and indexed under the fingerprint taken before.
LoadClaims ==
    /\ asset.pc = "load"
    /\ IF Loads(tree)
       THEN /\ assets' = buildAssetIndex(asset.fp)
            /\ Answer(asset.url, assets')
            /\ checked' = [checked EXCEPT !.confirmed = clock]
       ELSE keepAssets
    /\ UNCHANGED <<clock, tree, linked, shown>>

-----------------------------------------------------------------------------

\* An image is sent only if, not longer ago than the window and the grace, the
\* page of exactly one claim showed it under that URL, and it is no link; an
\* image the pages have shown for a whole window is not refused (claimAssets,
\* keepAssets: a failing check must not make a stale index immortal, and an edit
\* between the fingerprint and the load must not be lost).
AssetsFresh ==
    asset.pc = "answered" =>
        LET s == shown[asset.url]
        IN IF asset.answer # NoImage
           THEN /\ asset.answer \notin linked
                /\ s.last[asset.answer] # Never
                /\ clock - s.last[asset.answer] < Window + Grace
           ELSE s.file = NoImage \/ s.file \in linked \/ clock - s.since < Window

Fingerprint == [ClaimFiles -> Nat]

ClaimFile == [state: States, id: Names, images: SUBSET Images, stamp: Nat]

ShownTyped == [last: [ImageFiles -> 0..Never], file: ImageFiles \cup {NoImage}, since: 0..MaxTick]

AssetsTyped ==
    /\ clock \in 0..MaxTick
    /\ tree \in [ClaimFiles -> ClaimFile]
    /\ checked \in [at: 0..clock, confirmed: 0..clock]
    /\ assets.built \in BOOLEAN /\ assets.fp \in Fingerprint \cup {NoIndex.fp}
    /\ DOMAIN assets.paths \subseteq URLs /\ \A u \in DOMAIN assets.paths : assets.paths[u] \in ImageFiles
    /\ asset \in [pc: {"idle", "scan", "load", "answered"}, url: URLs \cup {NoImage},
                  fp: Fingerprint \cup {NoImage}, answer: ImageFiles \cup {NoImage}]
    /\ asset.pc # "idle" => asset.url \in URLs
    /\ asset.pc = "load" => asset.fp \in Fingerprint
    /\ shown \in [URLs -> ShownTyped]

\* A fingerprint was taken of this tree, or of an earlier one.
Earlier(fp) == \A f \in DOMAIN fp : fp[f] <= tree[f].stamp

\* The index has every image its pages have shown since it was checked.
Complete ==
    \A u \in URLs : \/ shown[u].file = NoImage
                    \/ shown[u].since >= checked.at
                    \/ u \in DOMAIN assets.paths /\ assets.paths[u] = shown[u].file

\* Inductive: an index that the fingerprint still confirms is that of the tree on
\* disk, every file of the index was shown since it was confirmed, and between
\* requests the last check left it within the grace, and complete.
AssetsInv ==
    /\ AssetsTyped
    /\ \A u \in URLs : /\ shown[u].file = Showing(tree, u)
                       /\ shown[u].file # NoImage => shown[u].last[shown[u].file] = clock
    /\ Earlier(assets.fp) /\ (asset.pc = "load" => Earlier(asset.fp))
    /\ assets.built /\ assets.fp = scanLoadedClaimFingerprint =>
          Loads(tree) /\ assets.paths = Paths(tree)
    /\ \A u \in DOMAIN assets.paths : shown[u].last[assets.paths[u]] \in checked.confirmed..clock
    /\ asset.pc \in {"scan", "load"} => checked.at = clock
    /\ asset.pc \notin {"scan", "load"} /\ assets.built =>
          /\ DOMAIN assets.paths = {} \/ checked.at <= checked.confirmed + Grace
          /\ Complete
    /\ AssetsFresh
=============================================================================
