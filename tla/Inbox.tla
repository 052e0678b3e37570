-------------------------------- MODULE Inbox --------------------------------
(***************************************************************************)
(* The review loop: people and the agent write on claims and briefs, under *)
(* the claims sentinel, while the agent polls comment inbox with the       *)
(* cursor of its last poll.  The inbox takes no sentinel and reads one     *)
(* file after another.                                                     *)
(*                                                                         *)
(* Each subject, a claim or a brief, has at most one thread here; a thread *)
(* is the times of its last events, in seconds of the one clock, and the   *)
(* number of its messages.                                                 *)
(***************************************************************************)
EXTENDS Naturals, Sequences

CONSTANTS
    Subjects,    \* the claims, then the briefs, in the order they are read
    MaxSecond    \* bound on the clock

ASSUME SecondsAssumption ==
    /\ MaxSecond \in Nat
    /\ Subjects \in Seq({Subjects[i] : i \in DOMAIN Subjects})

VARIABLES
    now,      \* the clock, from 1; 0 is no time
    thread,   \* the thread of each subject, by its place in Subjects
    writer,   \* the operation that holds the claims sentinel
    cursor,   \* the cursor of the last poll; 0 before the first
    poll,     \* the poll under way: how far it has read, and what it saw
    told,     \* each thread as the agent was last told of it
    behind,   \* history: the subjects saved after the poll under way had read them
    passed    \* history: of those, the ones it then read a newer open thread after,
              \* until they are saved again

inboxVars == <<now, thread, writer, cursor, poll, told, behind, passed>>

Places == DOMAIN Subjects

NoThread == [status |-> "none", created |-> 0, replied |-> 0, resolved |-> 0, reopened |-> 0, messages |-> 0]

\* A reopen that adds no message is left out.
threadLastMessage(th) == IF th.replied > th.created THEN th.replied ELSE th.created

\* The newest of everything that happened to a thread.
threadLastActivity(th) ==
    CHOOSE t \in {th.created, th.replied, th.resolved, th.reopened} :
        \A u \in {th.created, th.replied, th.resolved, th.reopened} : u <= t

InboxInit ==
    /\ now = 1
    /\ thread = [i \in Places |-> NoThread]
    /\ writer = [at |-> 0, op |-> "none", stamp |-> 0]
    /\ cursor = 0
    /\ poll = [at |-> 0, seen |-> [i \in Places |-> NoThread]]
    /\ told = [i \in Places |-> NoThread]
    /\ behind = {} /\ passed = {}

Second ==
    /\ now < MaxSecond
    /\ now' = now + 1
    /\ UNCHANGED <<thread, writer, cursor, poll, told, behind, passed>>

-----------------------------------------------------------------------------

\* What an operation makes of a thread at time t, if it may.
Applies(op, th) ==
    CASE op = "add" -> th.status = "none"
      [] op = "reply" -> th.status = "open"
      [] op = "resolve" -> th.status = "open"
      [] op = "reopen" -> th.status = "resolved"

Applied(op, th, t) ==
    CASE op = "add" -> [NoThread EXCEPT !.status = "open", !.created = t, !.messages = 1]
      [] op = "reply" -> [th EXCEPT !.replied = t, !.messages = @ + 1]
      [] op = "resolve" -> [th EXCEPT !.status = "resolved", !.resolved = t]
      [] op = "reopen" -> [th EXCEPT !.status = "open", !.reopened = t]

\* The operation has the sentinel, has loaded the subject, and stamps its event.
BeginOp(i, op) ==
    /\ writer.op = "none"
    /\ Applies(op, thread[i])
    /\ writer' = [at |-> i, op |-> op, stamp |-> now]
    /\ UNCHANGED <<now, thread, cursor, poll, told, behind, passed>>

\* The subject is saved, and the sentinel given back.
SaveOp ==
    /\ writer.op # "none"
    /\ thread' = [thread EXCEPT ![writer.at] = Applied(writer.op, @, writer.stamp)]
    /\ writer' = [at |-> 0, op |-> "none", stamp |-> 0]
    /\ behind' = behind \cup ({writer.at} \cap 1..poll.at)
    /\ passed' = passed \ {writer.at}
    /\ UNCHANGED <<now, cursor, poll, told>>

-----------------------------------------------------------------------------

\* History: the subjects saved behind a poll that now reads th, open and newer.
Overtaken(th) ==
    {i \in behind : th.status = "open" /\ threadLastActivity(th) > threadLastActivity(thread[i])}

\* comment inbox --since <cursor>: the files are read one after another.
PollRead ==
    /\ poll.at < Len(Subjects)
    /\ poll' = [at |-> poll.at + 1, seen |-> [poll.seen EXCEPT ![poll.at + 1] = thread[poll.at + 1]]]
    /\ passed' = passed \cup Overtaken(thread[poll.at + 1])
    /\ UNCHANGED <<now, thread, writer, cursor, told, behind>>

OpenSeen == {i \in Places : poll.seen[i].status = "open"}

\* The cursor moves over every open thread, reported or not.
Cursor ==
    CHOOSE t \in {cursor} \cup {threadLastActivity(poll.seen[i]) : i \in OpenSeen} :
        \A u \in {cursor} \cup {threadLastActivity(poll.seen[i]) : i \in OpenSeen} : u <= t

\* The threads reported: the boundary second is reported again.
Reported == {i \in OpenSeen : threadLastActivity(poll.seen[i]) >= cursor}

PollAnswer ==
    /\ poll.at = Len(Subjects)
    /\ told' = [i \in Places |-> IF i \in Reported THEN poll.seen[i] ELSE told[i]]
    /\ cursor' = Cursor
    /\ poll' = [at |-> 0, seen |-> [i \in Places |-> NoThread]]
    /\ behind' = {}
    /\ UNCHANGED <<now, thread, writer, passed>>

-----------------------------------------------------------------------------

\* The agent was told of an open thread as it is, or the next poll reports it.
Reaches(i) == thread[i].status = "open" => told[i] = thread[i] \/ threadLastActivity(thread[i]) >= cursor

\* "Cannot miss a thread that arrived between two calls" (comment.go:646-650): whatever
\* the agent has not been told of, a later poll with the cursor reports, also what was
\* written while a poll was reading.  Excepted is a thread written behind the poll that
\* the same poll passed, reading a newer one after it, until something else happens to
\* it: InboxMissesNone of Dossier, without the exception, does not hold.
InboxComplete == \A i \in Places \ passed : Reaches(i)

Thread == [status: {"none", "open", "resolved"}, created: Nat, replied: Nat,
           resolved: Nat, reopened: Nat, messages: Nat]

InboxTyped ==
    /\ now \in Nat /\ cursor \in Nat
    /\ behind \subseteq Places /\ passed \subseteq Places
    /\ thread \in [Places -> Thread] /\ told \in [Places -> Thread]
    /\ poll \in [at: 0..Len(Subjects), seen: [Places -> Thread]]
    /\ writer \in [at: {0}, op: {"none"}, stamp: {0}]
                  \cup [at: Places, op: {"add", "reply", "resolve", "reopen"}, stamp: Nat]

\* Nothing that happened to a thread happened after t.
Past(th, t) == th.created <= t /\ th.replied <= t /\ th.resolved <= t /\ th.reopened <= t

\* The latest event there is, or the one the holder of the sentinel will save.
Latest == IF writer.op = "none" THEN now ELSE writer.stamp

\* What was saved behind the poll is open at a time no open thread it has read is after.
Ahead(i) ==
    thread[i].status = "open" =>
        /\ threadLastActivity(thread[i]) >= cursor
        /\ \A j \in OpenSeen : threadLastActivity(poll.seen[j]) <= threadLastActivity(thread[i])

\* Inductive: no event on disk, seen or answered for is later than the event the
\* holder of the sentinel will save; what a poll has read is still so, or was saved
\* behind it and is ahead of what it has read.
InboxInv ==
    /\ InboxTyped
    /\ cursor <= Latest /\ Latest <= now
    /\ \A i \in Places : Past(thread[i], Latest) /\ Past(poll.seen[i], Latest)
    /\ behind \subseteq 1..poll.at
    /\ \A i \in (1..poll.at) \ behind : poll.seen[i] = thread[i]
    /\ \A i \in behind \ passed : Ahead(i)
    /\ InboxComplete
=============================================================================
