-------------------------------- MODULE Serve --------------------------------
(***************************************************************************)
(* "dossierx serve": the live viewer.                                      *)
(*                                                                         *)
(* A polling watcher notices that files changed, waits for a quiet moment, *)
(* asks for a render and signals every event stream.  A browser tab that   *)
(* hears "changed" fetches the page again.  Renders go through a           *)
(* single-flight pipeline that reads the project file by file, without any *)
(* sentinel, while commands write.  A tab may also post a comment, which   *)
(* takes the claims and then the digest sentinel, and the server may be    *)
(* asked to stop at any time.                                              *)
(*                                                                         *)
(* A file is the number of times it was written: a write always changes    *)
(* its stamp (the documented limit of fileStamp is left out).  The status  *)
(* pipeline is a second instance of the page's and is not repeated.        *)
(***************************************************************************)
EXTENDS Naturals, FiniteSets

CONSTANTS
    Clients,      \* browser tabs
    MaxWrites,    \* bound on the number of file writes
    MaxActs,      \* bound on the comments posted, tabs hidden and streams dropped
    None,         \* absence of a value
    Busy,         \* the sentinels that processes outside this server take
    Other         \* a holder of a sentinel outside this server: a CLI process, or a crash

ASSUME ServeAssumption == /\ None \notin Clients /\ Other \notin Clients /\ None # Other
                          /\ MaxWrites \in Nat /\ MaxActs \in Nat
                          /\ Busy \subseteq {"claims", "digest"}

VARIABLES
    disk,      \* how often each file was written, and whether the claims parse
    watch,     \* the watcher: last fingerprint and its debounce timer
    pipe,      \* the render pipeline
    refreshes, \* refresh goroutines that have not called get yet
    hub,       \* each subscriber's capacity-1 channel
    tab,       \* the browser tabs
    op,        \* the comment write each tab's request is in
    held,      \* the holders of the two sentinels a comment write takes
    acts,      \* comments posted, tabs hidden and streams dropped so far
    server     \* running, shutting down, gone

vars == <<disk, watch, pipe, refreshes, hub, tab, op, held, acts, server>>

-----------------------------------------------------------------------------

\* What a page is rendered from, in the order renderViewer reads it.
Files == {"claims", "store"}

Versions == [Files -> 0..MaxWrites]

Writes(v) == v["claims"] + v["store"]

Never == [f \in Files |-> 0]

Page(d) == [f \in Files |-> d[f]]

AtLeast(v, w) == \A f \in Files : v[f] >= w[f]

ShutdownGrace == 5         \* seconds http.Server.Shutdown waits for handlers

LockAcquireTimeout == 10   \* seconds AcquireFileLock waits for a sentinel

\* A render's next step.  "done" is the instant before its batch is closed.
Stages == {"idle", "start", "stores", "done"}

Ops == {"idle", "claims", "digest", "write"}

Pipes == [stage: Stages, seen: Versions, err: BOOLEAN,
          waiters: SUBSET Clients, queued: BOOLEAN, joined: SUBSET Clients]

Answers == SUBSET [ok: BOOLEAN, page: Versions]

Tabs == [at: {"closed", "loading", "visible", "hidden"}, shown: Versions \cup {None},
         sse: {"closed", "connecting", "open"}, frame: BOOLEAN,
         inflight: BOOLEAN, pending: BOOLEAN, replies: Answers,
         asked: Versions, since: Versions]

TypeOK ==
    /\ disk \in [ver: Versions, broken: BOOLEAN]
    /\ watch \in [prev: Versions, timer: BOOLEAN]
    /\ pipe \in Pipes
    /\ refreshes \in 0..MaxWrites
    /\ hub \in [Clients -> {"none", "empty", "full"}]
    /\ tab \in [Clients -> Tabs]
    /\ op \in [Clients -> Ops]
    /\ held \in [{"claims", "digest"} -> Clients \cup {None, Other}]
    /\ acts \in 0..MaxActs
    /\ server \in {"up", "closing", "exited"}

Init ==
    /\ disk = [ver |-> Never, broken |-> FALSE]
    /\ watch = [prev |-> [f \in Files |-> 0], timer |-> FALSE]
    /\ pipe = [stage |-> "idle", seen |-> Never, err |-> FALSE,
               waiters |-> {}, queued |-> FALSE, joined |-> {}]
    /\ refreshes = 0
    /\ hub = [c \in Clients |-> "none"]
    /\ tab = [c \in Clients |-> [at |-> "closed", shown |-> None, sse |-> "closed",
                                 frame |-> FALSE, inflight |-> FALSE, pending |-> FALSE,
                                 replies |-> {}, asked |-> Never, since |-> Never]]
    /\ op = [c \in Clients |-> "idle"]
    /\ held = [s \in {"claims", "digest"} |-> None]
    /\ acts = 0
    /\ server = "up"

-----------------------------------------------------------------------------
(* The project's files. *)

\* A command or an editor writes one file; an editor may leave a claim unparseable.
Write(f, bad) ==
    /\ server = "up"
    /\ Writes(disk.ver) < MaxWrites
    /\ bad => f = "claims"
    /\ disk' = [ver |-> [disk.ver EXCEPT ![f] = @ + 1],
                broken |-> IF f = "claims" THEN bad ELSE disk.broken]
    /\ UNCHANGED <<watch, pipe, refreshes, hub, tab, op, held, acts, server>>

-----------------------------------------------------------------------------
(* The watcher. *)

Fingerprint == [f \in Files |-> disk.ver[f]]

\* A tick: scan, and on a difference restart the debounce timer.  A scan that
\* fails changes nothing.
Poll ==
    /\ server = "up"
    /\ watch.prev # Fingerprint
    /\ watch' = [prev |-> Fingerprint, timer |-> TRUE]
    /\ UNCHANGED <<disk, pipe, refreshes, hub, tab, op, held, acts, server>>

Broadcast(h) == [c \in Clients |-> IF h[c] = "none" THEN "none" ELSE "full"]

\* The debounce timer fires: onChange starts a refresh goroutine and signals
\* every subscriber without blocking.
OnChange ==
    /\ server = "up"
    /\ watch.timer
    /\ watch' = [watch EXCEPT !.timer = FALSE]
    /\ refreshes' = refreshes + 1
    /\ hub' = Broadcast(hub)
    /\ UNCHANGED <<disk, pipe, tab, op, held, acts, server>>

-----------------------------------------------------------------------------
(* The render pipeline: one render in flight, at most one queued. *)

\* Mutant: a caller takes the result of the render in flight.
GetJoinsInflight(p, ws) ==
    IF p.stage = "idle"
    THEN [p EXCEPT !.stage = "start", !.waiters = ws]
    ELSE [p EXCEPT !.waiters = @ \cup ws]

\* pipeline.get on behalf of the callers ws: start a render, or join the queued
\* one; never the one in flight, which may have read the files already.
Get(p, ws) ==
    IF p.stage = "idle"
    THEN [p EXCEPT !.stage = "start", !.waiters = ws]
    ELSE [p EXCEPT !.queued = TRUE, !.joined = @ \cup ws]

Refresh ==
    /\ refreshes > 0
    /\ refreshes' = refreshes - 1
    /\ pipe' = Get(pipe, {})
    /\ UNCHANGED <<disk, watch, hub, tab, op, held, acts, server>>

\* renderViewer: load the claims (a claim that does not parse fails the render),
\* then the stores, with no sentinel held.
ReadClaims ==
    /\ server # "exited"
    /\ pipe.stage = "start"
    /\ pipe' = [pipe EXCEPT !.seen["claims"] = disk.ver["claims"], !.err = disk.broken,
                            !.stage = IF disk.broken THEN "done" ELSE "stores"]
    /\ UNCHANGED <<disk, watch, refreshes, hub, tab, op, held, acts, server>>

ReadStores ==
    /\ server # "exited"
    /\ pipe.stage = "stores"
    /\ pipe' = [pipe EXCEPT !.seen["store"] = disk.ver["store"], !.stage = "done"]
    /\ UNCHANGED <<disk, watch, refreshes, hub, tab, op, held, acts, server>>

\* The end of one round of drain: close the batch, promote the queued one.
Drain ==
    /\ server # "exited"
    /\ pipe.stage = "done"
    /\ tab' = [c \in Clients |->
                 IF c \in pipe.waiters
                 THEN [tab[c] EXCEPT !.replies = @ \cup {[ok |-> ~pipe.err, page |-> pipe.seen]}]
                 ELSE tab[c]]
    /\ pipe' = [stage |-> IF pipe.queued THEN "start" ELSE "idle", seen |-> Never, err |-> FALSE,
                waiters |-> pipe.joined, queued |-> FALSE, joined |-> {}]
    /\ UNCHANGED <<disk, watch, refreshes, hub, op, held, acts, server>>

-----------------------------------------------------------------------------
(* Browser tabs. *)

Asks(t) == [t EXCEPT !.inflight = TRUE, !.asked = Page(disk.ver)]

\* GET /: a tab is opened (or reloaded after its page failed to load).
OpenTab(c) ==
    /\ server = "up"
    /\ tab[c].at = "closed"
    /\ tab' = [tab EXCEPT ![c] = Asks([@ EXCEPT !.at = "loading"])]
    /\ pipe' = Get(pipe, {c})
    /\ UNCHANGED <<disk, watch, refreshes, hub, op, held, acts, server>>

\* The page arrives; its script confirms the server and opens the event stream.
Load(c) ==
    /\ server # "exited"
    /\ tab[c].at = "loading"
    /\ \E r \in tab[c].replies :
         LET t == [tab[c] EXCEPT !.inflight = FALSE, !.asked = Never, !.replies = @ \ {r}]
         IN  tab' = [tab EXCEPT ![c] = IF r.ok
                                       THEN [t EXCEPT !.at = "visible", !.shown = r.page,
                                                      !.sse = "connecting"]
                                       ELSE [t EXCEPT !.at = "closed"]]
    /\ UNCHANGED <<disk, watch, pipe, refreshes, hub, op, held, acts, server>>

\* handleEvents subscribes before it answers, so a stream that is open is in the hub.
Connect(c) ==
    /\ server = "up"
    /\ tab[c].sse = "connecting"
    /\ hub' = [hub EXCEPT ![c] = "empty"]
    /\ tab' = [tab EXCEPT ![c].sse = "open", ![c].since = Page(disk.ver)]
    /\ UNCHANGED <<disk, watch, pipe, refreshes, op, held, acts, server>>

\* The handler takes the signal from its channel and writes a "changed" frame.
Deliver(c) ==
    /\ server # "exited"
    /\ hub[c] = "full"
    /\ hub' = [hub EXCEPT ![c] = "empty"]
    /\ tab' = [tab EXCEPT ![c].frame = TRUE]
    /\ UNCHANGED <<disk, watch, pipe, refreshes, op, held, acts, server>>

\* Mutant: a signal during a fetch starts a second one.
FetchOverlaps(c, t) ==
    /\ tab' = [tab EXCEPT ![c] = Asks(t)]
    /\ pipe' = Get(pipe, {c})

\* Mutant: a signal during a fetch is forgotten.
FetchForgets(c, t) ==
    IF t.inflight
    THEN tab' = [tab EXCEPT ![c] = t] /\ UNCHANGED pipe
    ELSE tab' = [tab EXCEPT ![c] = Asks(t)] /\ pipe' = Get(pipe, {c})

\* onServerChanged: one fetch at a time; a signal during a fetch is remembered.
Fetch(c, t) ==
    IF t.inflight
    THEN tab' = [tab EXCEPT ![c] = [t EXCEPT !.pending = TRUE]] /\ UNCHANGED pipe
    ELSE tab' = [tab EXCEPT ![c] = Asks(t)] /\ pipe' = Get(pipe, {c})

Changed(c) ==
    /\ server = "up"
    /\ tab[c].frame
    /\ Fetch(c, [tab[c] EXCEPT !.frame = FALSE])
    /\ UNCHANGED <<disk, watch, refreshes, hub, op, held, acts, server>>

\* The fragment arrives: swap it in (a failed one leaves the page alone), and
\* fetch once more when a signal came meanwhile.
ApplyFragment(c) ==
    /\ server # "exited"
    /\ tab[c].at \in {"visible", "hidden"}
    /\ \E r \in tab[c].replies :
         LET t == [tab[c] EXCEPT !.inflight = FALSE, !.asked = Never,
                                 !.pending = FALSE, !.replies = @ \ {r},
                                 !.shown = IF r.ok THEN r.page ELSE @]
         IN  IF tab[c].pending /\ server = "up"
             THEN Fetch(c, t)
             ELSE tab' = [tab EXCEPT ![c] = t] /\ UNCHANGED pipe
    /\ UNCHANGED <<disk, watch, refreshes, hub, op, held, acts, server>>

\* visibilitychange: a hidden tab closes its stream.
Hide(c) ==
    /\ server = "up"
    /\ tab[c].at = "visible"
    /\ acts < MaxActs /\ acts' = acts + 1
    /\ tab' = [tab EXCEPT ![c].at = "hidden", ![c].sse = "closed", ![c].frame = FALSE,
                          ![c].since = Never]
    /\ hub' = [hub EXCEPT ![c] = "none"]
    /\ UNCHANGED <<disk, watch, pipe, refreshes, op, held, server>>

\* A tab shown again reopens the stream and fetches once to catch up.
Show(c) ==
    /\ server = "up"
    /\ tab[c].at = "hidden"
    /\ Fetch(c, [tab[c] EXCEPT !.at = "visible", !.sse = "connecting"])
    /\ UNCHANGED <<disk, watch, refreshes, hub, op, held, acts, server>>

\* The connection drops; EventSource reconnects by itself and fetches nothing.
DropStream(c) ==
    /\ server = "up"
    /\ tab[c].sse = "open"
    /\ acts < MaxActs /\ acts' = acts + 1
    /\ tab' = [tab EXCEPT ![c].sse = "connecting", ![c].frame = FALSE,
                          ![c].since = Never]
    /\ hub' = [hub EXCEPT ![c] = "none"]
    /\ UNCHANGED <<disk, watch, pipe, refreshes, op, held, server>>

-----------------------------------------------------------------------------
(* Comment writes over HTTP. *)

\* A mutating request passed admission, decoded, names a known actor, and the
\* server is not read-only: the handler calls internal/comments.
MutateStart(c) ==
    /\ server = "up"
    /\ tab[c].at = "visible"
    /\ op[c] = "idle"
    /\ acts < MaxActs /\ acts' = acts + 1
    /\ op' = [op EXCEPT ![c] = "claims"]
    /\ UNCHANGED <<disk, watch, pipe, refreshes, hub, tab, held, server>>

\* Deps.mutate takes the claims sentinel, then openCommentDigest the digest one.
MutateAcquire(c) ==
    /\ server # "exited"
    /\ op[c] \in {"claims", "digest"}
    /\ held[op[c]] = None
    /\ held' = [held EXCEPT ![op[c]] = c]
    /\ op' = [op EXCEPT ![c] = IF @ = "claims" THEN "digest" ELSE "write"]
    /\ UNCHANGED <<disk, watch, pipe, refreshes, hub, tab, acts, server>>

Released(c) == [s \in DOMAIN held |-> IF held[s] = c THEN None ELSE held[s]]

\* The claim file and its digest are written and both sentinels released.  An
\* unparseable claims tree, or the bound on writes, refuses the write.
MutateWrite(c) ==
    /\ server # "exited"
    /\ op[c] = "write"
    /\ disk' = IF disk.broken \/ Writes(disk.ver) = MaxWrites
               THEN disk ELSE [disk EXCEPT !.ver["claims"] = @ + 1]
    /\ op' = [op EXCEPT ![c] = "idle"]
    /\ held' = Released(c)
    /\ UNCHANGED <<watch, pipe, refreshes, hub, tab, acts, server>>

\* AcquireFileLock gives up: the request fails and releases what it holds.
MutateTimeout(c) ==
    /\ server # "exited"
    /\ op[c] \in {"claims", "digest"}
    /\ held[op[c]] # None
    /\ op' = [op EXCEPT ![c] = "idle"]
    /\ held' = Released(c)
    /\ UNCHANGED <<disk, watch, pipe, refreshes, hub, tab, acts, server>>

\* A process outside this server takes a sentinel, or frees it (or dies holding
\* it).  Only while an operation waits for it: what it does otherwise shows nowhere.
OtherProcess(s) ==
    /\ server # "exited"
    /\ \E c \in Clients : op[c] = s
    /\ held[s] \in {None, Other}
    /\ held' = [held EXCEPT ![s] = IF @ = None THEN Other ELSE None]
    /\ UNCHANGED <<disk, watch, pipe, refreshes, hub, tab, op, acts, server>>

-----------------------------------------------------------------------------
(* Shutdown. *)

\* Mutant: the event handlers do not select on closing.
ShutdownKeepsStreams ==
    /\ server = "up"
    /\ server' = "closing"
    /\ UNCHANGED <<disk, watch, pipe, refreshes, hub, tab, op, held, acts>>

\* SIGINT or SIGTERM: the watcher stops, closing wakes the event streams, and
\* Shutdown stops accepting requests.
Shutdown ==
    /\ server = "up"
    /\ server' = "closing"
    /\ hub' = [c \in Clients |-> "none"]
    /\ tab' = [c \in Clients |-> [tab[c] EXCEPT !.sse = "closed", !.frame = FALSE]]
    /\ UNCHANGED <<disk, watch, pipe, refreshes, op, held, acts>>

HandlersDone == /\ pipe.waiters \cup pipe.joined = {}
                /\ \A c \in Clients : op[c] = "idle" /\ hub[c] = "none"

\* Shutdown returns when every handler has; or after its grace period, which a
\* handler can outlast while it waits for a sentinel.  What is in memory is gone,
\* and the tabs are of no more interest.
Exit ==
    /\ server = "closing"
    /\ \/ HandlersDone
       \/ /\ LockAcquireTimeout > ShutdownGrace
          /\ \E c \in Clients : op[c] \in {"claims", "digest"} /\ held[op[c]] # None
    /\ server' = "exited"
    /\ pipe' = [stage |-> "idle", seen |-> Never, err |-> FALSE,
                waiters |-> {}, queued |-> FALSE, joined |-> {}]
    /\ refreshes' = 0
    /\ watch' = [watch EXCEPT !.timer = FALSE]
    /\ tab' = [c \in Clients |-> [tab[c] EXCEPT !.at = "closed", !.shown = None, !.asked = Never,
                                                !.since = Never, !.inflight = FALSE,
                                                !.pending = FALSE, !.replies = {}]]
    /\ UNCHANGED <<disk, hub, op, held, acts>>

-----------------------------------------------------------------------------

BrowserStep(c) == Load(c) \/ Connect(c) \/ Deliver(c) \/ Changed(c) \/ ApplyFragment(c)

OpStep(c) == MutateAcquire(c) \/ MutateWrite(c) \/ MutateTimeout(c)

ServerStep == Poll \/ OnChange \/ Refresh \/ ReadClaims \/ ReadStores \/ Drain \/ Exit

UserStep(c) == OpenTab(c) \/ Hide(c) \/ Show(c) \/ DropStream(c) \/ MutateStart(c)

Next ==
    \/ \E f \in Files, bad \in BOOLEAN : Write(f, bad)
    \/ ServerStep
    \/ \E c \in Clients : BrowserStep(c) \/ OpStep(c) \/ UserStep(c)
    \/ \E s \in Busy : OtherProcess(s)
    \/ Shutdown

Spec == Init /\ [][Next]_vars

\* The server's goroutines are scheduled, its ticker ticks, and a browser
\* handles what arrives.  Nobody has to write, post, hide, show or stop.
Fairness ==
    /\ WF_vars(Poll) /\ WF_vars(OnChange) /\ WF_vars(Refresh)
    /\ WF_vars(ReadClaims \/ ReadStores \/ Drain) /\ WF_vars(Exit)
    /\ \A c \in Clients : /\ WF_vars(Load(c)) /\ WF_vars(Connect(c)) /\ WF_vars(Deliver(c))
                          /\ WF_vars(Changed(c)) /\ WF_vars(ApplyFragment(c)) /\ WF_vars(OpStep(c))

FairSpec == Spec /\ Fairness

-----------------------------------------------------------------------------
(* Properties. *)

\* pipeline.get: whoever asks for a page gets a render that started at or after
\* the call, so every file it shows is at least as new as when it was asked for,
\* however many callers share the render.
FreshResponse == TypeOK /\
    \A c \in Clients : \A r \in tab[c].replies : r.ok => AtLeast(r.page, tab[c].asked)

\* reloadInFlight and reloadPending: signals, fetches and renders overlap, but a
\* page on screen is never replaced by an older one.
PagesNeverRegress ==
    [][\A c \in Clients : tab[c].shown # None /\ tab'[c].shown # None
                            => AtLeast(tab'[c].shown, tab[c].shown)]_vars

\* A change made while the stream is open that the page on screen lacks.
Behind(c) ==
    tab[c].sse = "open" /\ \E f \in Files : /\ tab[c].since[f] < disk.ver[f]
                                           /\ tab[c].shown[f] < disk.ver[f]

\* handleEvents subscribes before it answers: a change made while a tab's stream
\* is open reaches that tab's page, unless the stream closes first, provided the
\* claims eventually stay parseable.
ChangesReachTabs ==
    (<>[](~disk.broken)) => \A c \in Clients : Behind(c) ~> ~Behind(c)

\* Serve closes "closing" before Shutdown: live event streams and page requests
\* never make a shutdown wait out its grace period.
ShutdownPrompt ==
    (server = "closing" /\ \A c \in Clients : op[c] = "idle") ~> HandlersDone

-----------------------------------------------------------------------------
(* The inductive invariant behind the theorems of ServeProofs. *)

\* A tab t of c waits for one answer at a time, to the request in flight.
AnsweredOnce(c, t, p) ==
    /\ c \in p.waiters \cup p.joined \/ t.replies # {} => t.inflight
    /\ t.replies # {} => c \notin p.waiters \cup p.joined
    /\ c \notin p.waiters \cap p.joined
    /\ \A r, s \in t.replies : r = s
    /\ t.at = "closed" => ~t.inflight
    /\ t.at \in {"closed", "loading"} => t.shown = None

\* What it asked for was on disk; what it waits for has read no file before that.
AnswersFresh(c, t, p, v) ==
    /\ AtLeast(v, t.asked)
    /\ c \in p.waiters =>
          /\ p.stage = "stores" => p.seen["claims"] >= t.asked["claims"]
          /\ p.stage = "done" /\ ~p.err => AtLeast(p.seen, t.asked)
    /\ \A r \in t.replies : AtLeast(v, r.page) /\ (r.ok => AtLeast(r.page, t.asked))

\* What it shows was on disk, and before it last asked.
ShownBefore(t, v) ==
    t.shown # None => AtLeast(v, t.shown) /\ (t.inflight => AtLeast(t.asked, t.shown))

\* Every refresh, and the timer of the next one, are for a write of their own.
RefreshPerWrite ==
    /\ AtLeast(disk.ver, watch.prev)
    /\ refreshes + (IF watch.timer THEN 1 ELSE 0) <= Writes(watch.prev)
    /\ Writes(disk.ver) <= MaxWrites

TabTrue(c, t, p, v) == AnsweredOnce(c, t, p) /\ AnswersFresh(c, t, p, v) /\ ShownBefore(t, v)

\* Only a page on screen has a stream, and a signal comes from a stream.
StreamOfPage(c) ==
    server # "exited" /\ (hub[c] # "none" \/ tab[c].frame \/ tab[c].sse # "closed")
        => tab[c].at \in {"visible", "hidden"}

\* No more refreshes than writes, nothing read that is not on disk, and every tab's
\* answers fresh.
AnswersInv ==
    /\ TypeOK
    /\ RefreshPerWrite
    /\ AtLeast(disk.ver, pipe.seen)
    /\ \A c \in Clients : TabTrue(c, tab[c], pipe, disk.ver)

\* Inductive.
ServeInv == AnswersInv /\ \A c \in Clients : StreamOfPage(c)
=============================================================================
