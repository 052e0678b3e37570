------------------------------ MODULE Threads -------------------------------
(***************************************************************************)
(* The comment block of a claim or a brief, and the six operations that    *)
(* change it.  A block maps the ids in use to threads; a thread holds its  *)
(* author, its status and the authors of its replies, by reply id.  Bodies *)
(* and times are left out: no rule reads them.  "forged" marks a block     *)
(* that was changed by hand, outside the operations.                       *)
(***************************************************************************)
EXTENDS Naturals, FiniteSets

CONSTANTS
    ThreadIds,   \* the ids a new thread can draw
    ReplyIds     \* the ids a new reply can draw

ASSUME IdsAssumption == ThreadIds \cap ReplyIds = {}

Roles == {"human", "agent"}

Partial(S, T) == UNION {[D -> T] : D \in SUBSET S}

Thread == [author: Roles, status: {"open", "resolved"}, replies: Partial(ReplyIds, Roles)]

Blocks == [threads: Partial(ThreadIds, Thread), forged: BOOLEAN]

NoThreads == [threads |-> <<>>, forged |-> FALSE]

HasOpen(block) == \E t \in DOMAIN block.threads : block.threads[t].status = "open"

Without(f, x) == [y \in DOMAIN f \ {x} |-> f[y]]

With(f, x, v) == [y \in DOMAIN f \cup {x} |-> IF y = x THEN v ELSE f[y]]

\* Advisory rights: a human acts on anything, an agent on an agent's message.
canAct(actor, author) == actor = "human" \/ author = "agent"

\* A fresh id is drawn until it is none of the ids in use.
mintUniqueID(prefix, used) == prefix \ used

UsedReplies(block) == UNION {DOMAIN block.threads[t].replies : t \in DOMAIN block.threads}

addThreadOp(block, actor) ==
    {[block EXCEPT !.threads = With(@, t, [author |-> actor, status |-> "open", replies |-> <<>>])]
        : t \in mintUniqueID(ThreadIds, DOMAIN block.threads)}

\* Only an open thread takes a reply.
replyOp(block, actor) ==
    {[block EXCEPT !.threads[tr[1]].replies = With(@, tr[2], actor)]
        : tr \in {t \in DOMAIN block.threads : block.threads[t].status = "open"}
                 \X mintUniqueID(ReplyIds, UsedReplies(block))}

Actionable(block, actor, status) ==
    {t \in DOMAIN block.threads : /\ canAct(actor, block.threads[t].author)
                                  /\ block.threads[t].status = status}

resolveOp(block, actor) ==
    {[block EXCEPT !.threads[t].status = "resolved"] : t \in Actionable(block, actor, "open")}

reopenOp(block, actor) ==
    {[block EXCEPT !.threads[t].status = "open"] : t \in Actionable(block, actor, "resolved")}

\* An edit replaces a body, which no block here tells apart.
editOp(block, actor) ==
    IF \E t \in DOMAIN block.threads :
          \/ canAct(actor, block.threads[t].author)
          \/ \E r \in DOMAIN block.threads[t].replies : canAct(actor, block.threads[t].replies[r])
    THEN {block}
    ELSE {}

\* A thread goes with its replies: the rights looked at are those on the thread.
deleteOp(block, actor) ==
    {[block EXCEPT !.threads = Without(@, t)]
        : t \in {u \in DOMAIN block.threads : canAct(actor, block.threads[u].author)}}
    \cup
    {[block EXCEPT !.threads[tr[1]].replies = Without(@, tr[2])]
        : tr \in {ur \in (DOMAIN block.threads) \X ReplyIds :
                    /\ ur[2] \in DOMAIN block.threads[ur[1]].replies
                    /\ canAct(actor, block.threads[ur[1]].replies[ur[2]])}}

\* What one operation of the actor can make of the block.
Outcomes(block, actor) ==
    UNION {addThreadOp(block, actor), replyOp(block, actor), resolveOp(block, actor),
           reopenOp(block, actor), editOp(block, actor), deleteOp(block, actor)}

=============================================================================
