------------------------------ MODULE ServeProofs ------------------------------
(* Theorems about Serve, for every set of tabs and every number of writes:   *)
(* who asks for a page gets one rendered from files at least as new, and no  *)
(* page on screen is replaced by an older one.                               *)
EXTENDS Serve, TLAPS

-----------------------------------------------------------------------------
(* Versions of the files. *)

LEMMA NeverIsLeast == Never \in Versions /\ \A v \in Versions : AtLeast(v, Never)
  BY ServeAssumption DEF Never, Versions, AtLeast

LEMMA AtLeastOrder ==
  ASSUME NEW u \in Versions, NEW v \in Versions, NEW w \in Versions
  PROVE  AtLeast(u, u) /\ (AtLeast(u, v) /\ AtLeast(v, w) => AtLeast(u, w))
  BY ServeAssumption DEF Versions, AtLeast

LEMMA PageIsIt == ASSUME NEW v \in Versions PROVE Page(v) = v
  BY DEF Page, Versions

\* Newer versions were written more often.
LEMMA WritesGrow ==
  ASSUME NEW v \in Versions, NEW w \in Versions, AtLeast(v, w)
  PROVE  Writes(v) \in Nat /\ Writes(w) \in Nat /\ Writes(v) >= Writes(w) /\ (v # w => Writes(v) > Writes(w))
<1>1. /\ v["claims"] \in Nat /\ v["store"] \in Nat /\ w["claims"] \in Nat /\ w["store"] \in Nat
      /\ v["claims"] >= w["claims"] /\ v["store"] >= w["store"]
  BY ServeAssumption DEF Versions, Files, AtLeast
<1>2. v # w => v["claims"] # w["claims"] \/ v["store"] # w["store"]
  BY DEF Versions, Files
<1> QED
  BY <1>1, <1>2 DEF Writes

\* A write below the bound gives versions again, newer by one.
LEMMA WriteTyped ==
  ASSUME NEW v \in Versions, NEW f \in Files, Writes(v) < MaxWrites
  PROVE  /\ [v EXCEPT ![f] = @ + 1] \in Versions
         /\ AtLeast([v EXCEPT ![f] = @ + 1], v)
         /\ Writes([v EXCEPT ![f] = @ + 1]) <= MaxWrites
<1> DEFINE w == [v EXCEPT ![f] = @ + 1]
<1>1. v["claims"] \in 0..MaxWrites /\ v["store"] \in 0..MaxWrites /\ v[f] \in 0..MaxWrites
  BY DEF Versions, Files
<1>2. v[f] < MaxWrites
  BY <1>1, ServeAssumption DEF Writes, Files
<1>3. w \in Versions
  BY <1>1, <1>2, ServeAssumption DEF Versions
<1>4. AtLeast(w, v)
  BY <1>1, ServeAssumption DEF AtLeast, Versions
<1>5. Writes(w) <= MaxWrites
  BY <1>1, ServeAssumption DEF Writes, Files, Versions
<1> QED
  BY <1>3, <1>4, <1>5

-----------------------------------------------------------------------------
(* The pipeline. *)

\* A caller of get waits for a render that has not started.
LEMMA GetJoins ==
  ASSUME NEW p \in Pipes, NEW ws \in SUBSET Clients
  PROVE  /\ Get(p, ws) \in Pipes /\ Get(p, ws).seen = p.seen
         /\ p.stage = "idle" => Get(p, ws).stage = "start" /\ Get(p, ws).waiters = ws
                                /\ Get(p, ws).joined = p.joined
         /\ p.stage # "idle" => Get(p, ws).stage = p.stage /\ Get(p, ws).err = p.err
                                /\ Get(p, ws).waiters = p.waiters /\ Get(p, ws).joined = p.joined \cup ws
  BY DEF Get, Pipes, Stages

\* Nobody else's call changes what a tab waits for.
LEMMA GetOfOthers ==
  ASSUME NEW p \in Pipes, NEW ws \in SUBSET Clients, NEW c \in Clients \ ws, NEW t \in Tabs, NEW v \in Versions,
         TabTrue(c, t, p, v)
  PROVE  TabTrue(c, t, Get(p, ws), v)
<1>1. CASE p.stage = "idle"
  BY <1>1, GetJoins DEF TabTrue, AnsweredOnce, AnswersFresh
<1>2. CASE p.stage # "idle"
  BY <1>2, GetJoins DEF TabTrue, AnsweredOnce, AnswersFresh
<1> QED
  BY <1>1, <1>2

\* A tab that waits for nothing may ask.
LEMMA AskFresh ==
  ASSUME NEW p \in Pipes, NEW c \in Clients, NEW t \in Tabs, NEW v \in Versions, v = disk.ver,
         AnsweredOnce(c, t, p), ShownBefore(t, v), ~t.inflight, t.at # "closed"
  PROVE  Asks(t) \in Tabs /\ TabTrue(c, Asks(t), Get(p, {c}), v)
<1>1. /\ Asks(t) \in Tabs /\ Asks(t).inflight = TRUE /\ Asks(t).asked = v
      /\ Asks(t).replies = t.replies /\ Asks(t).at = t.at /\ Asks(t).shown = t.shown
  BY PageIsIt DEF Asks, Tabs
<1>2. c \notin p.waiters \cup p.joined /\ t.replies = {}
  BY DEF AnsweredOnce
<1>3. AtLeast(v, v)
  BY AtLeastOrder
<1>4. ShownBefore(Asks(t), v)
  BY <1>1 DEF ShownBefore
<1>5. CASE p.stage = "idle"
  BY <1>1, <1>2, <1>3, <1>4, <1>5, GetJoins DEF TabTrue, AnsweredOnce, AnswersFresh
<1>6. CASE p.stage # "idle"
  BY <1>1, <1>2, <1>3, <1>4, <1>6, GetJoins DEF TabTrue, AnsweredOnce, AnswersFresh
<1> QED
  BY <1>5, <1>6

\* What a tab has stays true when files are written.
LEMMA WritesKeepTabs ==
  ASSUME NEW p \in Pipes, NEW c \in Clients, NEW t \in Tabs, NEW v \in Versions, NEW w \in Versions,
         AtLeast(w, v), TabTrue(c, t, p, v)
  PROVE  TabTrue(c, t, p, w)
<1>1. t.asked \in Versions /\ \A r \in t.replies : r.page \in Versions
  BY DEF Tabs, Answers
<1>2. t.shown # None => t.shown \in Versions
  BY DEF Tabs
<1> QED
  BY <1>1, <1>2, AtLeastOrder DEF TabTrue, AnsweredOnce, AnswersFresh, ShownBefore

\* A tab whose answers, request and page are as they were has what it had.
LEMMA SameAnswers ==
  ASSUME NEW p, NEW c, NEW t, NEW u, NEW v, TabTrue(c, t, p, v),
         u.inflight = t.inflight, u.replies = t.replies, u.asked = t.asked, u.shown = t.shown,
         u.at = t.at \/ (t.at \in {"visible", "hidden"} /\ u.at \in {"visible", "hidden"})
  PROVE  TabTrue(c, u, p, v)
  BY DEF TabTrue, AnsweredOnce, AnswersFresh, ShownBefore

\* The answer r arrives, and is shown or is not.
LEMMA AnswerTaken ==
  ASSUME NEW p \in Pipes, NEW c \in Clients, NEW t \in Tabs, NEW u \in Tabs, NEW v \in Versions,
         TabTrue(c, t, p, v), NEW r \in t.replies,
         ~u.inflight, u.replies = t.replies \ {r}, u.asked \in {Never, v},
         u.shown = t.shown \/ (u.shown = r.page /\ u.at \in {"visible", "hidden"}),
         u.at \in {"closed", "loading"} => t.at \in {"closed", "loading"}
  PROVE  TabTrue(c, u, p, v)
<1>1. u.replies = {} /\ c \notin p.waiters \cup p.joined
  BY DEF TabTrue, AnsweredOnce
<1>2. AtLeast(v, r.page) /\ AtLeast(v, u.asked)
  BY NeverIsLeast, AtLeastOrder DEF TabTrue, AnswersFresh
<1>3. AnsweredOnce(c, u, p) /\ AnswersFresh(c, u, p, v)
  BY <1>1, <1>2 DEF TabTrue, AnsweredOnce, AnswersFresh
<1>4. ShownBefore(u, v)
  BY <1>2 DEF TabTrue, ShownBefore
<1> QED
  BY <1>3, <1>4 DEF TabTrue

-----------------------------------------------------------------------------
(* Fetching. *)

\* onServerChanged asks, or remembers that it must: t is the tab that fetches.
LEMMA FetchKeeps ==
  ASSUME TypeOK, NEW c \in Clients, NEW t \in Tabs, Fetch(c, t),
         TabTrue(c, t, pipe, disk.ver), t.at # "closed",
         \A b \in Clients \ {c} : TabTrue(b, tab[b], pipe, disk.ver)
  PROVE  /\ tab' \in [Clients -> Tabs] /\ pipe' \in Pipes /\ pipe'.seen = pipe.seen
         /\ \A b \in Clients : TabTrue(b, tab'[b], pipe', disk.ver)
         /\ tab'[c].shown = t.shown /\ \A b \in Clients \ {c} : tab'[b] = tab[b]
<1>1. disk.ver \in Versions /\ pipe \in Pipes /\ tab \in [Clients -> Tabs]
  BY DEF TypeOK
<1>2. CASE t.inflight
  <2> DEFINE u == [t EXCEPT !.pending = TRUE]
  <2>1. tab' = [tab EXCEPT ![c] = u] /\ pipe' = pipe
    BY <1>2 DEF Fetch
  <2>2. /\ u \in Tabs /\ u.inflight = t.inflight /\ u.replies = t.replies /\ u.asked = t.asked
        /\ u.shown = t.shown /\ u.at = t.at
    BY DEF Tabs
  <2>3. TabTrue(c, u, pipe, disk.ver)
    BY <2>2, SameAnswers
  <2> QED
    BY <1>1, <2>1, <2>2, <2>3
<1>3. CASE ~t.inflight
  <2>1. tab' = [tab EXCEPT ![c] = Asks(t)] /\ pipe' = Get(pipe, {c})
    BY <1>3 DEF Fetch
  <2>2. Asks(t) \in Tabs /\ TabTrue(c, Asks(t), Get(pipe, {c}), disk.ver)
    BY <1>1, <1>3, AskFresh DEF TabTrue
  <2>3. Asks(t).shown = t.shown
    BY DEF Asks, Tabs
  <2>4. \A b \in Clients \ {c} : TabTrue(b, tab[b], Get(pipe, {c}), disk.ver)
    BY <1>1, GetOfOthers
  <2>5. Get(pipe, {c}) \in Pipes /\ Get(pipe, {c}).seen = pipe.seen
    BY <1>1, GetJoins
  <2> QED
    BY <1>1, <2>1, <2>2, <2>3, <2>4, <2>5
<1> QED
  BY <1>2, <1>3

-----------------------------------------------------------------------------
(* The steps. *)

\* No page on screen goes back.
PagesKept == \A c \in Clients : tab[c].shown # None /\ tab'[c].shown # None
                                    => AtLeast(tab'[c].shown, tab[c].shown)

LEMMA SamePages ==
  ASSUME TypeOK, \A c \in Clients : tab'[c].shown = tab[c].shown PROVE PagesKept
<1>1. \A c \in Clients : tab[c].shown # None => tab[c].shown \in Versions
  BY DEF TypeOK, Tabs
<1> QED
  BY <1>1, AtLeastOrder DEF PagesKept

\* A step that writes no file, renders nothing, asks nothing and answers nothing.
LEMMA OthersKeep ==
  ASSUME AnswersInv, TypeOK', UNCHANGED <<disk, watch, pipe, refreshes>>,
         \A c \in Clients :
            /\ tab'[c].inflight = tab[c].inflight /\ tab'[c].replies = tab[c].replies
            /\ tab'[c].asked = tab[c].asked /\ tab'[c].shown = tab[c].shown
            /\ \/ tab'[c].at = tab[c].at
               \/ tab[c].at \in {"visible", "hidden"} /\ tab'[c].at \in {"visible", "hidden"}
  PROVE  AnswersInv' /\ PagesKept
<1>1. \A c \in Clients : TabTrue(c, tab'[c], pipe', disk'.ver)
  BY SameAnswers DEF AnswersInv
<1> QED
  BY <1>1, SamePages DEF AnswersInv, RefreshPerWrite

\* A step of one tab or of its stream: u is the tab after it.
LEMMA QuietTab ==
  ASSUME AnswersInv, NEW c \in Clients, NEW u \in Tabs, tab' = [tab EXCEPT ![c] = u],
         hub' \in [Clients -> {"none", "empty", "full"}], acts' \in 0..MaxActs,
         UNCHANGED <<disk, watch, pipe, refreshes, op, held, server>>,
         /\ u.inflight = tab[c].inflight /\ u.replies = tab[c].replies
         /\ u.asked = tab[c].asked /\ u.shown = tab[c].shown
         /\ \/ u.at = tab[c].at
            \/ tab[c].at \in {"visible", "hidden"} /\ u.at \in {"visible", "hidden"}
  PROVE  AnswersInv' /\ PagesKept
<1>1. tab \in [Clients -> Tabs]
  BY DEF AnswersInv, TypeOK
<1>2. TypeOK'
  BY <1>1 DEF AnswersInv, TypeOK
<1> QED
  BY <1>1, <1>2, OthersKeep

\* A stream opens, carries a signal, drops, or is closed by a tab that is hidden.
LEMMA StreamKeeps ==
  ASSUME AnswersInv, NEW c \in Clients, Connect(c) \/ Deliver(c) \/ Hide(c) \/ DropStream(c)
  PROVE  AnswersInv' /\ PagesKept
<1>1. /\ tab \in [Clients -> Tabs] /\ tab[c] \in Tabs /\ hub \in [Clients -> {"none", "empty", "full"}]
      /\ acts \in 0..MaxActs /\ disk.ver \in Versions
  BY DEF AnswersInv, TypeOK
<1>2. CASE Connect(c)
  <2> DEFINE u == [tab[c] EXCEPT !.sse = "open", !.since = Page(disk.ver)]
  <2>1. u \in Tabs
    BY <1>1, PageIsIt DEF Tabs
  <2>2. tab' = [tab EXCEPT ![c] = u]
    BY <1>1, <1>2 DEF Connect
  <2>4. /\ u.inflight = tab[c].inflight /\ u.replies = tab[c].replies
        /\ u.asked = tab[c].asked /\ u.shown = tab[c].shown /\ u.at = tab[c].at
    BY <1>1, <1>2 DEF Connect, Tabs
  <2>5. /\ hub' \in [Clients -> {"none", "empty", "full"}] /\ acts' \in 0..MaxActs
        /\ UNCHANGED <<disk, watch, pipe, refreshes, op, held, server>>
    BY <1>1, <1>2, ServeAssumption DEF Connect
  <2> HIDE DEF u
  <2> QED
    BY <2>1, <2>2, <2>4, <2>5, QuietTab
<1>3. CASE Deliver(c)
  <2> DEFINE u == [tab[c] EXCEPT !.frame = TRUE]
  <2>1. u \in Tabs
    BY <1>1 DEF Tabs
  <2>2. tab' = [tab EXCEPT ![c] = u]
    BY <1>1, <1>3 DEF Deliver
  <2> QED
    BY <1>1, <1>3, <2>1, <2>2, QuietTab DEF Deliver, Tabs
<1>4. CASE Hide(c)
  <2> DEFINE u == [tab[c] EXCEPT !.at = "hidden", !.sse = "closed", !.frame = FALSE, !.since = Never]
  <2>1. u \in Tabs
    BY <1>1, NeverIsLeast DEF Tabs
  <2>2. tab' = [tab EXCEPT ![c] = u]
    BY <1>1, <1>4 DEF Hide
  <2>4. /\ u.inflight = tab[c].inflight /\ u.replies = tab[c].replies
        /\ u.asked = tab[c].asked /\ u.shown = tab[c].shown /\ u.at = "hidden" /\ tab[c].at = "visible"
    BY <1>1, <1>4 DEF Hide, Tabs
  <2>5. /\ hub' \in [Clients -> {"none", "empty", "full"}] /\ acts' \in 0..MaxActs
        /\ UNCHANGED <<disk, watch, pipe, refreshes, op, held, server>>
    BY <1>1, <1>4, ServeAssumption DEF Hide
  <2> HIDE DEF u
  <2> QED
    BY <2>1, <2>2, <2>4, <2>5, QuietTab
<1>5. CASE DropStream(c)
  <2> DEFINE u == [tab[c] EXCEPT !.sse = "connecting", !.frame = FALSE, !.since = Never]
  <2>1. u \in Tabs
    BY <1>1, NeverIsLeast DEF Tabs
  <2>2. tab' = [tab EXCEPT ![c] = u]
    BY <1>1, <1>5 DEF DropStream
  <2>4. /\ u.inflight = tab[c].inflight /\ u.replies = tab[c].replies
        /\ u.asked = tab[c].asked /\ u.shown = tab[c].shown /\ u.at = tab[c].at
    BY <1>1, <1>5 DEF DropStream, Tabs
  <2>5. /\ hub' \in [Clients -> {"none", "empty", "full"}] /\ acts' \in 0..MaxActs
        /\ UNCHANGED <<disk, watch, pipe, refreshes, op, held, server>>
    BY <1>1, <1>5, ServeAssumption DEF DropStream
  <2> HIDE DEF u
  <2> QED
    BY <2>1, <2>2, <2>4, <2>5, QuietTab
<1> QED
  BY <1>2, <1>3, <1>4, <1>5

\* A comment write takes, waits for or gives back a sentinel.
LEMMA SentinelKeeps ==
  ASSUME AnswersInv, NEW c \in Clients, MutateStart(c) \/ MutateAcquire(c) \/ MutateTimeout(c)
  PROVE  AnswersInv' /\ PagesKept
<1> USE ServeAssumption DEF AnswersInv
<1>1. CASE MutateStart(c)
  BY <1>1, OthersKeep DEF MutateStart, TypeOK, Ops
<1>2. CASE MutateAcquire(c)
  BY <1>2, OthersKeep DEF MutateAcquire, TypeOK, Ops
<1>3. CASE MutateTimeout(c)
  BY <1>3, OthersKeep DEF MutateTimeout, Released, TypeOK, Ops
<1> QED
  BY <1>1, <1>2, <1>3

\* So does another process; and the server is told to stop.
LEMMA OutsideKeeps ==
  ASSUME AnswersInv, NEW s \in Busy, OtherProcess(s) PROVE AnswersInv' /\ PagesKept
  BY ServeAssumption, OthersKeep DEF AnswersInv, OtherProcess, TypeOK

LEMMA ShutdownKeeps == ASSUME AnswersInv, Shutdown PROVE AnswersInv' /\ PagesKept
<1>1. tab \in [Clients -> Tabs]
  BY DEF AnswersInv, TypeOK
<1>2. ASSUME NEW c \in Clients
      PROVE  /\ tab'[c] \in Tabs
             /\ tab'[c].inflight = tab[c].inflight /\ tab'[c].replies = tab[c].replies
             /\ tab'[c].asked = tab[c].asked /\ tab'[c].shown = tab[c].shown /\ tab'[c].at = tab[c].at
  BY <1>1 DEF Shutdown, Tabs
<1>3. tab' \in [Clients -> Tabs]
  BY <1>2 DEF Shutdown
<1>4. TypeOK'
  BY <1>3 DEF AnswersInv, TypeOK, Shutdown
<1> QED
  BY <1>2, <1>4, OthersKeep DEF Shutdown

\* A file is written: what was fresh is fresh still.
LEMMA WrittenKeeps ==
  ASSUME AnswersInv, TypeOK', UNCHANGED <<watch, pipe, refreshes, tab>>,
         AtLeast(disk'.ver, disk.ver), Writes(disk'.ver) <= MaxWrites
  PROVE  AnswersInv' /\ PagesKept
<1>1. /\ disk.ver \in Versions /\ disk'.ver \in Versions /\ watch.prev \in Versions
      /\ pipe \in Pipes /\ pipe.seen \in Versions /\ tab \in [Clients -> Tabs]
  BY DEF AnswersInv, TypeOK, Pipes
<1>2. \A c \in Clients : TabTrue(c, tab[c], pipe, disk'.ver)
  BY <1>1, WritesKeepTabs DEF AnswersInv
<1>3. AtLeast(disk'.ver, watch.prev) /\ AtLeast(disk'.ver, pipe.seen)
  BY <1>1, AtLeastOrder DEF AnswersInv, RefreshPerWrite
<1> QED
  BY <1>2, <1>3, SamePages DEF AnswersInv, RefreshPerWrite

LEMMA WriteKeeps ==
  ASSUME AnswersInv, NEW f \in Files, NEW bad \in BOOLEAN, Write(f, bad) PROVE AnswersInv' /\ PagesKept
<1>1. disk.ver \in Versions /\ Writes(disk.ver) < MaxWrites /\ disk'.ver = [disk.ver EXCEPT ![f] = @ + 1]
  BY DEF AnswersInv, TypeOK, Write
<1>2. disk'.ver \in Versions /\ AtLeast(disk'.ver, disk.ver) /\ Writes(disk'.ver) <= MaxWrites
  BY <1>1, WriteTyped
<1>3. TypeOK'
  BY <1>2 DEF AnswersInv, TypeOK, Write
<1> QED
  BY <1>2, <1>3, WrittenKeeps DEF Write

LEMMA MutateWriteKeeps ==
  ASSUME AnswersInv, NEW c \in Clients, MutateWrite(c) PROVE AnswersInv' /\ PagesKept
<1>1. disk \in [ver: Versions, broken: BOOLEAN] /\ Writes(disk.ver) <= MaxWrites
  BY DEF AnswersInv, TypeOK, RefreshPerWrite
<1>2. disk' \in [ver: Versions, broken: BOOLEAN] /\ AtLeast(disk'.ver, disk.ver) /\ Writes(disk'.ver) <= MaxWrites
  <2>1. CASE disk.broken \/ Writes(disk.ver) = MaxWrites
    BY <1>1, <2>1, AtLeastOrder DEF MutateWrite
  <2>2. CASE ~(disk.broken \/ Writes(disk.ver) = MaxWrites)
    <3> DEFINE w == [disk.ver EXCEPT !["claims"] = @ + 1]
    <3>1. Writes(disk.ver) < MaxWrites /\ "claims" \in Files
      BY <1>1, <2>2, ServeAssumption, WritesGrow, AtLeastOrder DEF Files
    <3>2. w \in Versions /\ AtLeast(w, disk.ver) /\ Writes(w) <= MaxWrites
      BY <1>1, <3>1, WriteTyped
    <3>3. disk' = [disk EXCEPT !.ver = w]
      BY <1>1, <2>2 DEF MutateWrite
    <3> QED
      BY <1>1, <3>2, <3>3
  <2> QED
    BY <2>1, <2>2
<1>3. TypeOK'
  BY <1>2 DEF AnswersInv, TypeOK, MutateWrite, Released, Ops
<1> QED
  BY <1>2, <1>3, WrittenKeeps DEF MutateWrite

\* The watcher polls, and asks for a refresh.
LEMMA WatchKeeps == ASSUME AnswersInv, Poll \/ OnChange PROVE AnswersInv' /\ PagesKept
<1>1. /\ disk.ver \in Versions /\ watch.prev \in Versions /\ watch.timer \in BOOLEAN
      /\ AtLeast(disk.ver, watch.prev) /\ AtLeast(disk.ver, disk.ver) /\ refreshes \in Nat
      /\ watch \in [prev: Versions, timer: BOOLEAN]
  BY ServeAssumption, AtLeastOrder DEF AnswersInv, TypeOK, RefreshPerWrite
<1>2. \A v, w \in Versions : AtLeast(v, w) => /\ Writes(v) \in Nat /\ Writes(w) \in Nat /\ Writes(v) >= Writes(w)
                                            /\ (v # w => Writes(v) > Writes(w))
  BY WritesGrow
<1>3. CASE Poll
  <2>1. watch' = [prev |-> disk.ver, timer |-> TRUE] /\ watch.prev # disk.ver
    BY <1>1, <1>3 DEF Poll, Fingerprint, Versions
  <2>2. UNCHANGED <<disk, pipe, refreshes, hub, tab, op, held, acts, server>>
    BY <1>3 DEF Poll
  <2>3. TypeOK'
    BY <1>1, <2>1, <2>2 DEF AnswersInv, TypeOK
  <2>4. RefreshPerWrite'
    BY <1>1, <1>2, <2>1, <2>2 DEF AnswersInv, RefreshPerWrite
  <2> QED
    BY <2>2, <2>3, <2>4, SamePages DEF AnswersInv
<1>4. CASE OnChange
  <2>1. watch' = [prev |-> watch.prev, timer |-> FALSE] /\ watch.timer /\ refreshes' = refreshes + 1
    BY <1>1, <1>4 DEF OnChange
  <2>2. UNCHANGED <<disk, pipe, tab, op, held, acts, server>>
    BY <1>4 DEF OnChange
  <2>3. RefreshPerWrite'
    BY <1>1, <2>1, <2>2 DEF AnswersInv, RefreshPerWrite
  <2>4. refreshes' <= MaxWrites
    BY <1>1, <1>2, <2>1, <2>2, <2>3, ServeAssumption DEF RefreshPerWrite
  <2>5. hub' \in [Clients -> {"none", "empty", "full"}]
    BY <1>4 DEF OnChange, Broadcast
  <2>6. TypeOK'
    BY <1>1, <2>1, <2>2, <2>4, <2>5, ServeAssumption DEF AnswersInv, TypeOK
  <2> QED
    BY <2>2, <2>3, <2>6, SamePages DEF AnswersInv
<1> QED
  BY <1>3, <1>4

\* A refresh asks for a render on behalf of nobody.
LEMMA RefreshKeeps == ASSUME AnswersInv, Refresh PROVE AnswersInv' /\ PagesKept
<1>1. /\ pipe \in Pipes /\ disk.ver \in Versions /\ tab \in [Clients -> Tabs] /\ refreshes \in Nat
      /\ watch.prev \in Versions /\ Writes(watch.prev) \in Nat
  BY ServeAssumption, WritesGrow, AtLeastOrder DEF AnswersInv, TypeOK
<1>2. pipe' = Get(pipe, {}) /\ refreshes' = refreshes - 1 /\ refreshes > 0
      /\ UNCHANGED <<disk, watch, hub, tab, op, held, acts, server>>
  BY DEF Refresh
<1>3. pipe' \in Pipes /\ pipe'.seen = pipe.seen
  BY <1>1, <1>2, GetJoins
<1>4. \A c \in Clients : TabTrue(c, tab[c], Get(pipe, {}), disk.ver)
  BY <1>1, GetOfOthers DEF AnswersInv
<1>5. TypeOK'
  BY <1>1, <1>2, <1>3, ServeAssumption DEF AnswersInv, TypeOK
<1>6. RefreshPerWrite'
  BY <1>1, <1>2 DEF AnswersInv, RefreshPerWrite, TypeOK
<1> QED
  BY <1>2, <1>3, <1>4, <1>5, <1>6, SamePages DEF AnswersInv

\* The render reads the claims, then the stores: what it has read is what is on disk,
\* and at least what everybody who waits for it asked for.
LEMMA ReadKeeps == ASSUME AnswersInv, ReadClaims \/ ReadStores PROVE AnswersInv' /\ PagesKept
<1>1. /\ pipe \in Pipes /\ disk \in [ver: Versions, broken: BOOLEAN] /\ tab \in [Clients -> Tabs]
      /\ pipe.seen \in Versions
  BY DEF AnswersInv, TypeOK, Pipes
<1>2. UNCHANGED <<disk, watch, refreshes, hub, tab, op, held, acts, server>>
  BY DEF ReadClaims, ReadStores
<1>3. \E f \in Files : pipe'.seen = [pipe.seen EXCEPT ![f] = disk.ver[f]]
  BY <1>1 DEF ReadClaims, ReadStores, Pipes, Files
<1>4. pipe'.seen \in Versions /\ AtLeast(disk.ver, pipe'.seen)
  BY <1>1, <1>3, ServeAssumption DEF AnswersInv, Versions, AtLeast
<1>5. pipe'.waiters = pipe.waiters /\ pipe'.joined = pipe.joined /\ pipe' \in Pipes
  <2>1. CASE ReadClaims
    <3> DEFINE w == [pipe.seen EXCEPT !["claims"] = disk.ver["claims"]]
    <3>1. pipe' = [pipe EXCEPT !.seen = w, !.err = disk.broken, !.stage = IF disk.broken THEN "done" ELSE "stores"]
      BY <1>1, <2>1 DEF ReadClaims
    <3>2. pipe'.seen = w
      BY <1>1, <3>1 DEF Pipes
    <3>3. w \in Versions /\ disk.broken \in BOOLEAN
      BY <1>1, <1>4, <3>2
    <3> HIDE DEF w
    <3> QED
      BY <1>1, <3>1, <3>3 DEF Pipes, Stages
  <2>2. CASE ReadStores
    <3> DEFINE w == [pipe.seen EXCEPT !["store"] = disk.ver["store"]]
    <3>1. pipe' = [pipe EXCEPT !.seen = w, !.stage = "done"]
      BY <1>1, <2>2 DEF ReadStores
    <3>2. w \in Versions
      BY <1>1, <1>4, <3>1 DEF Pipes
    <3> HIDE DEF w
    <3> QED
      BY <1>1, <3>1, <3>2 DEF Pipes, Stages
  <2> QED
    BY <2>1, <2>2
<1>6. ASSUME NEW c \in Clients PROVE TabTrue(c, tab[c], pipe', disk.ver)
  <2>1. TabTrue(c, tab[c], pipe, disk.ver) /\ tab[c].asked \in Versions
    BY <1>1 DEF AnswersInv, Tabs
  <2>2. c \in pipe.waiters => /\ pipe'.stage = "stores" => pipe'.seen["claims"] >= tab[c].asked["claims"]
                              /\ pipe'.stage = "done" /\ ~pipe'.err => AtLeast(pipe'.seen, tab[c].asked)
    <3>1. AtLeast(disk.ver, tab[c].asked)
      BY <2>1 DEF TabTrue, AnswersFresh
    <3>2. CASE ReadClaims
      BY <1>1, <3>1, <3>2 DEF ReadClaims, Pipes, AtLeast, Files, Versions
    <3>3. CASE ReadStores
      <4>1. /\ pipe'.seen["claims"] = pipe.seen["claims"] /\ pipe'.seen["store"] = disk.ver["store"]
            /\ pipe.stage = "stores" /\ pipe'.stage = "done"
        BY <1>1, <3>3 DEF ReadStores, Pipes, Files, Versions
      <4> QED
        BY <2>1, <3>1, <4>1 DEF TabTrue, AnswersFresh, AtLeast, Files
    <3> QED
      BY <3>2, <3>3
  <2> QED
    BY <1>5, <2>1, <2>2 DEF TabTrue, AnsweredOnce, AnswersFresh
<1>7. TypeOK'
  BY <1>2, <1>5 DEF AnswersInv, TypeOK
<1> QED
  BY <1>2, <1>4, <1>6, <1>7, SamePages DEF AnswersInv, RefreshPerWrite

\* A batch is closed: each waiter gets the render, which is fresh for it, and the queued
\* batch waits for one that has not started.
LEMMA DrainKeeps == ASSUME AnswersInv, Drain PROVE AnswersInv' /\ PagesKept
<1>1. /\ pipe \in Pipes /\ disk.ver \in Versions /\ tab \in [Clients -> Tabs] /\ pipe.stage = "done"
      /\ pipe.seen \in Versions /\ pipe.err \in BOOLEAN
  BY DEF AnswersInv, TypeOK, Pipes, Drain
<1>2. UNCHANGED <<disk, watch, refreshes, hub, op, held, acts, server>>
  BY DEF Drain
<1> DEFINE a == [ok |-> ~pipe.err, page |-> pipe.seen]
           q == [stage |-> IF pipe.queued THEN "start" ELSE "idle", seen |-> Never, err |-> FALSE,
                 waiters |-> pipe.joined, queued |-> FALSE, joined |-> {}]
<1>3. pipe' = q /\ pipe' \in Pipes
  BY <1>1, NeverIsLeast DEF Drain, Pipes, Stages
<1>4. a \in [ok: BOOLEAN, page: Versions] /\ a.page = pipe.seen /\ (a.ok <=> ~pipe.err)
  BY <1>1
<1>5. q.waiters = pipe.joined /\ q.joined = {} /\ q.stage \in {"start", "idle"} /\ q.seen = Never
  OBVIOUS
<1> HIDE DEF a, q
<1>6. ASSUME NEW c \in Clients
      PROVE  tab'[c] \in Tabs /\ TabTrue(c, tab'[c], q, disk.ver) /\ tab'[c].shown = tab[c].shown
  <2>1. TabTrue(c, tab[c], pipe, disk.ver) /\ tab[c] \in Tabs /\ tab[c].replies \in Answers
    BY <1>1 DEF AnswersInv, Tabs
  <2>2. CASE c \in pipe.waiters
    <3>1. tab'[c] = [tab[c] EXCEPT !.replies = @ \cup {a}]
      BY <2>2 DEF Drain, a
    <3>2. tab[c].replies = {} /\ c \notin pipe.joined
      BY <2>1, <2>2 DEF TabTrue, AnsweredOnce
    <3>3. tab'[c] = [tab[c] EXCEPT !.replies = {a}]
      BY <3>1, <3>2
    <3>4. {a} \in Answers
      BY <1>4 DEF Answers
    <3>5. /\ tab'[c] \in Tabs /\ tab'[c].replies = {a} /\ tab'[c].inflight = tab[c].inflight
          /\ tab'[c].asked = tab[c].asked /\ tab'[c].shown = tab[c].shown /\ tab'[c].at = tab[c].at
      BY <2>1, <3>3, <3>4 DEF Tabs
    <3>6. AtLeast(disk.ver, a.page) /\ (a.ok => AtLeast(a.page, tab[c].asked))
      BY <1>1, <1>4, <2>1, <2>2 DEF AnswersInv, TabTrue, AnswersFresh
    <3> QED
      BY <1>5, <2>1, <2>2, <3>2, <3>5, <3>6 DEF TabTrue, AnsweredOnce, AnswersFresh, ShownBefore
  <2>3. CASE c \notin pipe.waiters
    <3>1. tab'[c] = tab[c]
      BY <2>3 DEF Drain
    <3> QED
      BY <1>5, <2>1, <2>3, <3>1 DEF TabTrue, AnsweredOnce, AnswersFresh, ShownBefore
  <2> QED
    BY <2>2, <2>3
<1>7. tab' \in [Clients -> Tabs]
  BY <1>6 DEF Drain
<1>8. TypeOK'
  BY <1>2, <1>3, <1>7 DEF AnswersInv, TypeOK
<1>9. AtLeast(disk.ver, Never)
  BY <1>1, NeverIsLeast
<1> QED
  BY <1>2, <1>3, <1>5, <1>6, <1>8, <1>9, SamePages DEF AnswersInv, RefreshPerWrite

\* Shutdown returns: nothing in memory, nothing in a tab, nothing to keep.
LEMMA ExitKeeps == ASSUME AnswersInv, Exit PROVE AnswersInv' /\ PagesKept
<1>1. /\ disk.ver \in Versions /\ watch.prev \in Versions /\ tab \in [Clients -> Tabs]
      /\ watch \in [prev: Versions, timer: BOOLEAN]
  BY DEF AnswersInv, TypeOK
<1>2. AtLeast(disk.ver, Never) /\ Never \in Versions /\ Writes(watch.prev) \in Nat
  BY <1>1, NeverIsLeast, WritesGrow, AtLeastOrder
<1>3. UNCHANGED <<disk, hub, op, held, acts>> /\ refreshes' = 0 /\ server' = "exited"
      /\ watch' = [watch EXCEPT !.timer = FALSE]
  BY DEF Exit
<1>4. /\ pipe' \in Pipes /\ pipe'.seen = Never /\ pipe'.waiters = {} /\ pipe'.joined = {}
  BY <1>2 DEF Exit, Pipes, Stages
<1>5. ASSUME NEW c \in Clients
      PROVE  /\ tab'[c] \in Tabs /\ tab'[c].at = "closed" /\ tab'[c].shown = None /\ tab'[c].asked = Never
             /\ ~tab'[c].inflight /\ tab'[c].replies = {}
  <2>1. tab[c] \in Tabs /\ {} \in Answers
    BY <1>1 DEF Answers
  <2> QED
    BY <1>2, <2>1 DEF Exit, Tabs
<1>6. tab' \in [Clients -> Tabs]
  BY <1>5 DEF Exit
<1>10. watch' = [prev |-> watch.prev, timer |-> FALSE]
  BY <1>1, <1>3
<1>a. watch' \in [prev: Versions, timer: BOOLEAN]
  BY <1>1, <1>10
<1>b. refreshes' \in 0..MaxWrites
  BY <1>3, ServeAssumption
<1>7. TypeOK'
  BY <1>3, <1>4, <1>6, <1>a, <1>b DEF AnswersInv, TypeOK
<1>8. \A c \in Clients : TabTrue(c, tab'[c], pipe', disk.ver)
  BY <1>2, <1>4, <1>5 DEF TabTrue, AnsweredOnce, AnswersFresh, ShownBefore
<1>9. RefreshPerWrite'
  BY <1>1, <1>2, <1>3 DEF AnswersInv, RefreshPerWrite
<1> QED
  BY <1>2, <1>3, <1>4, <1>5, <1>7, <1>8, <1>9 DEF AnswersInv, PagesKept

-----------------------------------------------------------------------------
(* A tab asks, and is answered. *)

\* A tab is opened.
LEMMA OpenKeeps == ASSUME AnswersInv, NEW c \in Clients, OpenTab(c) PROVE AnswersInv' /\ PagesKept
<1>1. /\ pipe \in Pipes /\ disk.ver \in Versions /\ tab \in [Clients -> Tabs] /\ tab[c] \in Tabs
      /\ \A b \in Clients : TabTrue(b, tab[b], pipe, disk.ver)
  BY DEF AnswersInv, TypeOK
<1> DEFINE t == [tab[c] EXCEPT !.at = "loading"]
<1>2. /\ t \in Tabs /\ t.at = "loading" /\ t.inflight = tab[c].inflight /\ t.replies = tab[c].replies
      /\ t.asked = tab[c].asked /\ t.shown = tab[c].shown
  BY <1>1 DEF Tabs
<1>3. tab[c].at = "closed" /\ ~tab[c].inflight /\ tab[c].shown = None
  BY <1>1 DEF OpenTab, TabTrue, AnsweredOnce
<1>4. tab' = [tab EXCEPT ![c] = Asks(t)] /\ pipe' = Get(pipe, {c})
      /\ UNCHANGED <<disk, watch, refreshes, hub, op, held, acts, server>>
  BY DEF OpenTab
<1>5. AnsweredOnce(c, t, pipe) /\ ShownBefore(t, disk.ver)
  BY <1>1, <1>2, <1>3 DEF TabTrue, AnsweredOnce, ShownBefore
<1>6. Asks(t).shown = t.shown
  BY <1>2 DEF Asks, Tabs
<1> HIDE DEF t
<1>7. Asks(t) \in Tabs /\ TabTrue(c, Asks(t), Get(pipe, {c}), disk.ver)
  BY <1>1, <1>2, <1>3, <1>5, AskFresh
<1>8. \A b \in Clients \ {c} : TabTrue(b, tab[b], Get(pipe, {c}), disk.ver)
  BY <1>1, GetOfOthers
<1>9. Get(pipe, {c}) \in Pipes /\ Get(pipe, {c}).seen = pipe.seen
  BY <1>1, GetJoins
<1>10. TypeOK'
  BY <1>1, <1>4, <1>7, <1>9 DEF AnswersInv, TypeOK
<1>11. \A b \in Clients : TabTrue(b, tab'[b], pipe', disk'.ver) /\ tab'[b].shown = tab[b].shown
  BY <1>1, <1>2, <1>4, <1>6, <1>7, <1>8
<1> QED
  BY <1>4, <1>9, <1>10, <1>11, SamePages DEF AnswersInv, RefreshPerWrite

\* The page arrives, or the error.
LEMMA LoadKeeps == ASSUME AnswersInv, NEW c \in Clients, Load(c) PROVE AnswersInv' /\ PagesKept
<1>1. /\ pipe \in Pipes /\ disk.ver \in Versions /\ tab \in [Clients -> Tabs] /\ tab[c] \in Tabs
      /\ \A b \in Clients : TabTrue(b, tab[b], pipe, disk.ver)
  BY DEF AnswersInv, TypeOK
<1>2. UNCHANGED <<disk, watch, pipe, refreshes, hub, op, held, acts, server>> /\ tab[c].at = "loading"
  BY DEF Load
<1>3. PICK r \in tab[c].replies :
         LET t == [tab[c] EXCEPT !.inflight = FALSE, !.asked = Never, !.replies = @ \ {r}]
         IN  tab' = [tab EXCEPT ![c] = IF r.ok
                                       THEN [t EXCEPT !.at = "visible", !.shown = r.page, !.sse = "connecting"]
                                       ELSE [t EXCEPT !.at = "closed"]]
  BY DEF Load
<1> DEFINE t == [tab[c] EXCEPT !.inflight = FALSE, !.asked = Never, !.replies = @ \ {r}]
           u == IF r.ok THEN [t EXCEPT !.at = "visible", !.shown = r.page, !.sse = "connecting"]
                ELSE [t EXCEPT !.at = "closed"]
<1>4. tab' = [tab EXCEPT ![c] = u]
  BY <1>3
<1>5. r.page \in Versions /\ tab[c].replies \ {r} \in Answers
  BY <1>1 DEF Tabs, Answers
<1>6. /\ t \in Tabs /\ ~t.inflight /\ t.asked = Never /\ t.replies = tab[c].replies \ {r}
      /\ t.at = tab[c].at /\ t.shown = tab[c].shown
  BY <1>1, <1>5, NeverIsLeast DEF Tabs
<1> HIDE DEF t
<1>7. /\ u \in Tabs /\ ~u.inflight /\ u.asked = Never /\ u.replies = tab[c].replies \ {r}
      /\ \/ u.at = "visible" /\ u.shown = r.page
         \/ u.at = "closed" /\ u.shown = tab[c].shown
  BY <1>5, <1>6 DEF Tabs
<1> HIDE DEF u
<1>8. TabTrue(c, u, pipe, disk.ver)
  BY <1>1, <1>2, <1>7, AnswerTaken
<1>9. TypeOK'
  BY <1>1, <1>2, <1>4, <1>7 DEF AnswersInv, TypeOK
<1>10. \A b \in Clients : TabTrue(b, tab'[b], pipe', disk'.ver)
  BY <1>1, <1>2, <1>4, <1>8
<1>11. tab[c].shown = None
  BY <1>1, <1>2 DEF TabTrue, AnsweredOnce
<1>12. PagesKept
  <2>1. \A b \in Clients \ {c} : tab'[b] = tab[b] /\ tab[b] \in Tabs
    BY <1>1, <1>4
  <2> QED
    BY <1>11, <2>1, AtLeastOrder DEF PagesKept, Tabs
<1> QED
  BY <1>2, <1>9, <1>10, <1>12 DEF AnswersInv, RefreshPerWrite

\* A signal is heard, or a tab is shown again: u is the tab that fetches.
LEMMA FetchStep ==
  ASSUME AnswersInv, NEW c \in Clients, NEW u \in Tabs, Fetch(c, u), tab[c].at # "closed",
         UNCHANGED <<disk, watch, refreshes, hub, op, held, acts, server>>,
         TabTrue(c, u, pipe, disk.ver), u.at # "closed",
         tab[c].shown # None /\ u.shown # None => AtLeast(u.shown, tab[c].shown)
  PROVE  AnswersInv' /\ PagesKept
<1>1. TypeOK /\ tab \in [Clients -> Tabs] /\ \A b \in Clients : TabTrue(b, tab[b], pipe, disk.ver)
  BY DEF AnswersInv, TypeOK
<1>2. /\ tab' \in [Clients -> Tabs] /\ pipe' \in Pipes /\ pipe'.seen = pipe.seen
      /\ \A b \in Clients : TabTrue(b, tab'[b], pipe', disk.ver)
      /\ tab'[c].shown = u.shown /\ \A b \in Clients \ {c} : tab'[b] = tab[b]
  BY <1>1, FetchKeeps
<1>a. tab' \in [Clients -> Tabs] /\ pipe' \in Pipes
  BY <1>2
<1>3. TypeOK'
  BY <1>1, <1>a DEF TypeOK
<1>4. PagesKept
  BY <1>1, <1>2, AtLeastOrder DEF PagesKept, Tabs
<1> QED
  BY <1>2, <1>3, <1>4 DEF AnswersInv, RefreshPerWrite

LEMMA ChangedKeeps == ASSUME ServeInv, NEW c \in Clients, Changed(c) PROVE AnswersInv' /\ PagesKept
<1>1. /\ tab[c] \in Tabs /\ TabTrue(c, tab[c], pipe, disk.ver) /\ TypeOK
  BY DEF ServeInv, AnswersInv, TypeOK
<1> DEFINE u == [tab[c] EXCEPT !.frame = FALSE]
<1>2. /\ u \in Tabs /\ u.inflight = tab[c].inflight /\ u.replies = tab[c].replies
      /\ u.asked = tab[c].asked /\ u.shown = tab[c].shown /\ u.at = tab[c].at
  BY <1>1 DEF Tabs
<1>3. Fetch(c, u) /\ UNCHANGED <<disk, watch, refreshes, hub, op, held, acts, server>>
  BY DEF Changed
<1>4. tab[c].shown # None => AtLeast(tab[c].shown, tab[c].shown)
  BY <1>1, AtLeastOrder DEF Tabs
<1> HIDE DEF u
<1>5. TabTrue(c, u, pipe, disk.ver)
  BY <1>1, <1>2, SameAnswers
<1>6. tab[c].at # "closed"
  BY DEF ServeInv, StreamOfPage, Changed
<1> QED
  BY <1>1, <1>2, <1>3, <1>4, <1>5, <1>6, FetchStep DEF ServeInv

\* The fragment arrives: it is shown, and the tab fetches again if it must.
LEMMA FragmentKeeps == ASSUME ServeInv, NEW c \in Clients, ApplyFragment(c) PROVE AnswersInv' /\ PagesKept
<1>1. /\ pipe \in Pipes /\ disk.ver \in Versions /\ tab \in [Clients -> Tabs] /\ tab[c] \in Tabs
      /\ \A b \in Clients : TabTrue(b, tab[b], pipe, disk.ver)
      /\ AnswersInv /\ TypeOK
  BY DEF ServeInv, AnswersInv, TypeOK
<1>2. UNCHANGED <<disk, watch, refreshes, hub, op, held, acts, server>> /\ tab[c].at \in {"visible", "hidden"}
  BY DEF ApplyFragment
<1>3. PICK r \in tab[c].replies :
         LET t == [tab[c] EXCEPT !.inflight = FALSE, !.asked = Never, !.pending = FALSE, !.replies = @ \ {r},
                                 !.shown = IF r.ok THEN r.page ELSE @]
         IN  IF tab[c].pending /\ server = "up"
             THEN Fetch(c, t)
             ELSE tab' = [tab EXCEPT ![c] = t] /\ UNCHANGED pipe
  BY DEF ApplyFragment
<1> DEFINE u == [tab[c] EXCEPT !.inflight = FALSE, !.asked = Never, !.pending = FALSE, !.replies = @ \ {r},
                               !.shown = IF r.ok THEN r.page ELSE @]
<1>4. Fetch(c, u) \/ (tab' = [tab EXCEPT ![c] = u] /\ UNCHANGED pipe)
  BY <1>3
<1>5. r.page \in Versions /\ tab[c].replies \ {r} \in Answers
  BY <1>1 DEF Tabs, Answers
<1>6. /\ u \in Tabs /\ ~u.inflight /\ u.asked = Never /\ u.replies = tab[c].replies \ {r}
      /\ u.at = tab[c].at /\ u.shown = IF r.ok THEN r.page ELSE tab[c].shown
  BY <1>1, <1>5, NeverIsLeast DEF Tabs
<1> HIDE DEF u
<1>7. TabTrue(c, u, pipe, disk.ver)
  BY <1>1, <1>2, <1>6, AnswerTaken
\* The page shown was on disk when the tab asked, and the render is no older.
<1>8. tab[c].shown # None /\ u.shown # None => AtLeast(u.shown, tab[c].shown)
  <2>1. tab[c].inflight /\ (r.ok => AtLeast(r.page, tab[c].asked))
    BY <1>1 DEF TabTrue, AnsweredOnce, AnswersFresh
  <2>2. tab[c].shown # None => AtLeast(tab[c].asked, tab[c].shown)
    BY <1>1, <2>1 DEF TabTrue, ShownBefore
  <2>3. tab[c].asked \in Versions /\ (tab[c].shown # None => tab[c].shown \in Versions)
    BY <1>1 DEF Tabs
  <2> QED
    BY <1>5, <1>6, <2>1, <2>2, <2>3, AtLeastOrder
<1>9. CASE Fetch(c, u)
  BY <1>1, <1>2, <1>6, <1>7, <1>8, <1>9, FetchStep
<1>10. CASE tab' = [tab EXCEPT ![c] = u] /\ UNCHANGED pipe
  <2>1. tab' \in [Clients -> Tabs] /\ tab'[c] = u /\ \A b \in Clients \ {c} : tab'[b] = tab[b]
    BY <1>1, <1>6, <1>10
  <2>2. TypeOK'
    BY <1>1, <1>2, <1>10, <2>1 DEF TypeOK
  <2>3. \A b \in Clients : TabTrue(b, tab'[b], pipe', disk'.ver)
    BY <1>1, <1>2, <1>7, <1>10, <2>1
  <2>4. PagesKept
    BY <1>1, <1>8, <2>1, AtLeastOrder DEF PagesKept, Tabs
  <2> QED
    BY <1>1, <1>2, <1>10, <2>2, <2>3, <2>4 DEF AnswersInv, RefreshPerWrite
<1> QED
  BY <1>4, <1>9, <1>10

\* A tab shown again catches up.
LEMMA ShowKeeps == ASSUME ServeInv, NEW c \in Clients, Show(c) PROVE AnswersInv' /\ PagesKept
<1>1. /\ tab[c] \in Tabs /\ TabTrue(c, tab[c], pipe, disk.ver) /\ TypeOK /\ AnswersInv
  BY DEF ServeInv, AnswersInv, TypeOK
<1> DEFINE u == [tab[c] EXCEPT !.at = "visible", !.sse = "connecting"]
<1>2. /\ u \in Tabs /\ u.inflight = tab[c].inflight /\ u.replies = tab[c].replies
      /\ u.asked = tab[c].asked /\ u.shown = tab[c].shown /\ u.at = "visible"
  BY <1>1 DEF Tabs
<1>3. Fetch(c, u) /\ UNCHANGED <<disk, watch, refreshes, hub, op, held, acts, server>> /\ tab[c].at = "hidden"
  BY DEF Show
<1>4. tab[c].shown # None => AtLeast(tab[c].shown, tab[c].shown)
  BY <1>1, AtLeastOrder DEF Tabs
<1> HIDE DEF u
<1>5. TabTrue(c, u, pipe, disk.ver)
  BY <1>1, <1>2, <1>3, SameAnswers
<1> QED
  BY <1>1, <1>2, <1>3, <1>4, <1>5, FetchStep

\* A fetch asks for a page and leaves the stream as it is.
LEMMA FetchSameStream ==
  ASSUME NEW c \in Clients, NEW t \in Tabs, Fetch(c, t), tab \in [Clients -> Tabs]
  PROVE  /\ tab'[c].at = t.at /\ tab'[c].frame = t.frame /\ tab'[c].sse = t.sse
         /\ \A b \in Clients \ {c} : tab'[b] = tab[b]
<1>1. tab'[c] \in {[t EXCEPT !.pending = TRUE], [t EXCEPT !.inflight = TRUE, !.asked = Page(disk.ver)]}
      /\ \A b \in Clients \ {c} : tab'[b] = tab[b]
  BY DEF Fetch, Asks
<1> QED
  BY <1>1 DEF Tabs

\* A stream is opened by a page on screen and closed before the page goes.
LEMMA StreamsKept ==
  ASSUME ServeInv, [Next]_vars, NEW b \in Clients PROVE StreamOfPage(b)'
<1>1. StreamOfPage(b) /\ tab \in [Clients -> Tabs] /\ hub \in [Clients -> {"none", "empty", "full"}]
  BY DEF ServeInv, AnswersInv, TypeOK
<1>2. CASE UNCHANGED <<hub, tab, server>>
  BY <1>1, <1>2 DEF StreamOfPage
<1>3. CASE OnChange
  BY <1>1, <1>3 DEF OnChange, Broadcast, StreamOfPage
<1>4. CASE Drain
  <2>1. tab'[b].at = tab[b].at /\ tab'[b].frame = tab[b].frame /\ tab'[b].sse = tab[b].sse
    BY <1>1, <1>4 DEF Drain, Tabs
  <2> QED
    BY <1>1, <1>4, <2>1 DEF Drain, StreamOfPage
<1>5. CASE Exit
  BY <1>5 DEF Exit, StreamOfPage
<1>6. CASE Shutdown
  <2>1. tab'[b].sse = "closed" /\ tab'[b].frame = FALSE /\ hub'[b] = "none"
    BY <1>1, <1>6 DEF Shutdown, Tabs
  <2> QED
    BY <2>1 DEF StreamOfPage
<1>7. ASSUME NEW c \in Clients, OpenTab(c) PROVE StreamOfPage(b)'
  <2> DEFINE t == [tab[c] EXCEPT !.at = "loading"]
  <2>1. tab' = [tab EXCEPT ![c] = [t EXCEPT !.inflight = TRUE, !.asked = Page(disk.ver)]]
    BY <1>7 DEF OpenTab, Asks
  <2>4. t \in Tabs /\ t.frame = tab[c].frame /\ t.sse = tab[c].sse
    BY <1>1 DEF Tabs
  <2> HIDE DEF t
  <2>5. tab'[c] = [t EXCEPT !.inflight = TRUE, !.asked = Page(disk.ver)]
    BY <1>1, <2>1
  <2>6. tab'[c].frame = t.frame /\ tab'[c].sse = t.sse
    BY <2>4, <2>5 DEF Tabs
  <2>2. tab'[c].frame = tab[c].frame /\ tab'[c].sse = tab[c].sse /\ tab[c].at = "closed"
    BY <1>7, <2>4, <2>6 DEF OpenTab
  <2>3. UNCHANGED <<hub, server>> /\ (b # c => tab'[b] = tab[b])
    BY <1>7 DEF OpenTab
  <2> QED
    BY <1>1, <2>2, <2>3 DEF StreamOfPage
<1>8. ASSUME NEW c \in Clients, Load(c) PROVE StreamOfPage(b)'
  <2>1. tab[c].at = "loading" /\ UNCHANGED <<hub, server>> /\ (b # c => tab'[b] = tab[b])
    BY <1>8 DEF Load
  <2>2. tab'[c].at = "visible" \/ (tab'[c].frame = tab[c].frame /\ tab'[c].sse = tab[c].sse)
    BY <1>1, <1>8 DEF Load, Tabs
  <2> QED
    BY <1>1, <2>1, <2>2 DEF StreamOfPage
<1>9. ASSUME NEW c \in Clients, Connect(c) \/ Deliver(c) \/ DropStream(c) PROVE StreamOfPage(b)'
  <2>1. /\ tab'[c].at = tab[c].at /\ (hub[c] # "none" \/ tab[c].sse # "closed") /\ UNCHANGED server
        /\ b # c => tab'[b] = tab[b] /\ hub'[b] = hub[b]
    BY <1>1, <1>9 DEF Connect, Deliver, DropStream, Tabs
  <2> QED
    BY <1>1, <2>1 DEF StreamOfPage
<1>10. ASSUME NEW c \in Clients, Hide(c) PROVE StreamOfPage(b)'
  <2>1. /\ tab'[c].at = "hidden" /\ UNCHANGED server
        /\ b # c => tab'[b] = tab[b] /\ hub'[b] = hub[b]
    BY <1>1, <1>10 DEF Hide, Tabs
  <2> QED
    BY <1>1, <2>1 DEF StreamOfPage
<1>11. ASSUME NEW c \in Clients, Changed(c) \/ Show(c) PROVE StreamOfPage(b)'
  <2> DEFINE t == [tab[c] EXCEPT !.frame = FALSE]
             u == [tab[c] EXCEPT !.at = "visible", !.sse = "connecting"]
  <2>1. t \in Tabs /\ u \in Tabs /\ u.at = "visible" /\ t.at = tab[c].at
    BY <1>1 DEF Tabs
  <2>2. (Fetch(c, t) /\ tab[c].frame) \/ Fetch(c, u)
    BY <1>11 DEF Changed, Show
  <2>3. UNCHANGED <<hub, server>>
    BY <1>11 DEF Changed, Show
  <2> HIDE DEF t, u
  <2>4. (tab'[c].at = tab[c].at /\ tab[c].frame) \/ tab'[c].at = "visible"
    BY <1>1, <2>1, <2>2, FetchSameStream
  <2>5. b # c => tab'[b] = tab[b]
    BY <1>1, <2>1, <2>2, FetchSameStream
  <2> QED
    BY <1>1, <2>3, <2>4, <2>5 DEF StreamOfPage
<1>12. ASSUME NEW c \in Clients, ApplyFragment(c) PROVE StreamOfPage(b)'
  <2>1. PICK r \in tab[c].replies :
         LET t == [tab[c] EXCEPT !.inflight = FALSE, !.asked = Never, !.pending = FALSE, !.replies = @ \ {r},
                                 !.shown = IF r.ok THEN r.page ELSE @]
         IN  Fetch(c, t) \/ tab' = [tab EXCEPT ![c] = t]
    BY <1>12 DEF ApplyFragment
  <2> DEFINE t == [tab[c] EXCEPT !.inflight = FALSE, !.asked = Never, !.pending = FALSE, !.replies = @ \ {r},
                                 !.shown = IF r.ok THEN r.page ELSE @]
  <2>2. r.page \in Versions /\ tab[c].replies \ {r} \in Answers /\ tab[c] \in Tabs
    BY <1>1 DEF Tabs, Answers
  <2>3. t \in Tabs /\ t.at = tab[c].at
    BY <1>1, <2>2, NeverIsLeast DEF Tabs
  <2>4. Fetch(c, t) \/ tab' = [tab EXCEPT ![c] = t]
    BY <2>1
  <2>5. UNCHANGED <<hub, server>> /\ tab[c].at \in {"visible", "hidden"}
    BY <1>12 DEF ApplyFragment
  <2> HIDE DEF t
  <2>6. tab'[c].at = tab[c].at /\ (b # c => tab'[b] = tab[b])
    BY <1>1, <2>3, <2>4, FetchSameStream
  <2> QED
    BY <1>1, <2>5, <2>6 DEF StreamOfPage
<1> QED
  BY <1>2, <1>3, <1>4, <1>5, <1>6, <1>7, <1>8, <1>9, <1>10, <1>11, <1>12
     DEF vars, Next, ServerStep, BrowserStep, OpStep, UserStep, Write, Poll, Refresh, ReadClaims, ReadStores,
         MutateStart, MutateAcquire, MutateWrite, MutateTimeout, OtherProcess

-----------------------------------------------------------------------------

LEMMA InitServeInv == Init => ServeInv
<1> SUFFICES ASSUME Init PROVE ServeInv
  OBVIOUS
<1>1. Never \in Versions /\ AtLeast(Never, Never) /\ Writes(Never) = 0 /\ Never = [f \in Files |-> 0]
  BY ServeAssumption DEF Never, Versions, AtLeast, Writes, Files
<1>2. TypeOK
  <2>1. disk \in [ver: Versions, broken: BOOLEAN] /\ watch \in [prev: Versions, timer: BOOLEAN] /\ pipe \in Pipes
    BY <1>1 DEF Init, Pipes, Stages
  <2>2. tab \in [Clients -> Tabs]
    <3>1. {} \in Answers
      BY DEF Answers
    <3> QED
      BY <1>1, <3>1 DEF Init, Tabs
  <2>3. op \in [Clients -> Ops] /\ hub \in [Clients -> {"none", "empty", "full"}]
    BY DEF Init, Ops
  <2>4. refreshes \in 0..MaxWrites /\ acts \in 0..MaxActs
        /\ held \in [{"claims", "digest"} -> Clients \cup {None, Other}]
    BY ServeAssumption DEF Init
  <2> QED
    BY <2>1, <2>2, <2>3, <2>4 DEF Init, TypeOK
<1>3. RefreshPerWrite
  BY <1>1, ServeAssumption DEF Init, RefreshPerWrite
<1>4. \A c \in Clients : TabTrue(c, tab[c], pipe, disk.ver) /\ StreamOfPage(c)
  BY <1>1 DEF Init, TabTrue, AnsweredOnce, AnswersFresh, ShownBefore, StreamOfPage
<1>5. AtLeast(disk.ver, pipe.seen)
  BY <1>1 DEF Init
<1> QED
  BY <1>2, <1>3, <1>4, <1>5 DEF ServeInv, AnswersInv

LEMMA NextServeInv == ServeInv /\ [Next]_vars => ServeInv' /\ PagesKept
<1> SUFFICES ASSUME ServeInv, [Next]_vars PROVE AnswersInv' /\ PagesKept
  BY StreamsKept DEF ServeInv
<1>1. AnswersInv
  BY DEF ServeInv
<1>2. CASE UNCHANGED vars
  <2>1. TypeOK'
    BY <1>1, <1>2 DEF vars, AnswersInv, TypeOK
  <2> QED
    BY <1>1, <1>2, <2>1, OthersKeep DEF vars
<1>3. CASE ServerStep
  BY <1>1, <1>3, WatchKeeps, RefreshKeeps, ReadKeeps, DrainKeeps, ExitKeeps DEF ServerStep
<1>4. ASSUME NEW c \in Clients, BrowserStep(c) PROVE AnswersInv' /\ PagesKept
  BY <1>1, <1>4, LoadKeeps, StreamKeeps, ChangedKeeps, FragmentKeeps DEF BrowserStep
<1>5. ASSUME NEW c \in Clients, OpStep(c) \/ UserStep(c) PROVE AnswersInv' /\ PagesKept
  BY <1>1, <1>5, SentinelKeeps, MutateWriteKeeps, OpenKeeps, StreamKeeps, ShowKeeps DEF OpStep, UserStep
<1>6. ASSUME NEW s \in Busy, OtherProcess(s) PROVE AnswersInv' /\ PagesKept
  BY <1>1, <1>6, OutsideKeeps
<1> QED
  BY <1>1, <1>2, <1>3, <1>4, <1>5, <1>6, WriteKeeps, ShutdownKeeps DEF Next

\* pipeline.get: whoever asks for a page gets a render that started at or after the
\* call, whatever else is asked, written, hidden or stopped meanwhile.
THEOREM ServeFresh == Spec => []FreshResponse
<1>1. ServeInv => FreshResponse
  BY DEF ServeInv, AnswersInv, TabTrue, AnswersFresh, FreshResponse
<1> QED
  BY <1>1, InitServeInv, NextServeInv, PTL DEF Spec

\* reloadInFlight and reloadPending: a page on screen is never replaced by an older one.
THEOREM ServePages == Spec => PagesNeverRegress
  BY InitServeInv, NextServeInv, PTL DEF Spec, PagesNeverRegress, PagesKept
=============================================================================
