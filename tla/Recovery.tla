------------------------------ MODULE Recovery ------------------------------
(***************************************************************************)
(* A claim edited since the approval that an unlock released: the panel    *)
(* that shows what moved, and claim recover-approved-content, which looks  *)
(* in the git history for the wording an approval signed before the ledger *)
(* kept it.                                                                *)
(*                                                                         *)
(* The content of a claim is a body and one more signed field, both texts  *)
(* of Wording; a hash is the content it was taken of.                      *)
(***************************************************************************)
EXTENDS Wording

CONSTANTS
    Vocabulary,    \* the words a text can have
    Bodies,        \* the texts a body can be
    Fields,        \* the texts the other field can be
    MaxRevisions,  \* the revisions searched for one claim
    TooLong,       \* the texts over the size a field's diff may have
    Unreadable,    \* a revision that is no claim, or that git cannot show
    NoContent      \* no wording retained, or none found

ASSUME RecoveryAssumption ==
    /\ MaxRevisions \in Nat /\ TooLong \subseteq Fields /\ <<>> \in Fields
    /\ \A t \in Bodies \cup Fields : t \in Seq(Seq(Vocabulary))

VARIABLES
    edited,     \* the claim: its status and content
    approval,   \* its ledger record: the content hashed, the release, the content kept
    history,    \* the committed revisions of its file, the newest first
    recovery    \* the command: where it is, and what its search found

recoveryVars == <<edited, approval, history, recovery>>

\* A claim starts with an empty field.
Drafted == [body: Bodies, field: {<<>>}]

EditedSinceApproved == edited.status = "draft" /\ approval.released /\ approval.hash # edited.content

Resting == [pc |-> "idle", found |-> NoContent]

RecoveryInit ==
    /\ \E c \in Drafted : /\ edited = [status |-> "locked", content |-> c]
                          /\ approval = [hash |-> c, released |-> FALSE, kept |-> NoContent]
                          /\ history = <<c>>
    /\ recovery = Resting

-----------------------------------------------------------------------------
(* The claim's life, each command whole: it takes the store sentinel. *)

EditClaimContent ==
    /\ edited.status = "draft"
    /\ \/ \E t \in Bodies \ {edited.content.body} : edited' = [edited EXCEPT !.content.body = t]
       \/ \E t \in Fields \ {edited.content.field} : edited' = [edited EXCEPT !.content.field = t]
    /\ UNCHANGED <<approval, history, recovery>>

CommitFile ==
    /\ \/ history' = <<edited.content>> \o history
       \/ history' = <<Unreadable>> \o history
    /\ UNCHANGED <<edited, approval, recovery>>

UnlockEdited ==
    /\ recovery.pc # "holding"
    /\ edited.status = "locked"
    /\ edited' = [edited EXCEPT !.status = "draft"]
    /\ approval' = [approval EXCEPT !.released = TRUE]
    /\ UNCHANGED <<history, recovery>>

\* An approval keeps the content it signs; one by an older release does not.
LockEdited ==
    /\ recovery.pc # "holding"
    /\ edited.status = "draft"
    /\ edited' = [edited EXCEPT !.status = "locked"]
    /\ \E kept \in {edited.content, NoContent} :
          approval' = [hash |-> edited.content, released |-> FALSE, kept |-> kept]
    /\ UNCHANGED <<history, recovery>>

-----------------------------------------------------------------------------
(* claim recover-approved-content. *)

EligibleForRecovery == EditedSinceApproved /\ approval.kept = NoContent

\* The newest revision that hashes to what was signed, among those searched.
search ==
    LET hits == {i \in DOMAIN history : i <= MaxRevisions /\ history[i] = approval.hash}
    IN IF hits = {} THEN NoContent ELSE history[Min(hits)]

\* Claims and store are read, and the history searched, without a sentinel.
RecoverSearch ==
    /\ recovery.pc = "idle"
    /\ EligibleForRecovery /\ search # NoContent
    /\ recovery' = [pc |-> "found", found |-> search]
    /\ UNCHANGED <<edited, approval, history>>

RecoverAcquire ==
    /\ recovery.pc = "found"
    /\ recovery' = [recovery EXCEPT !.pc = "holding"]
    /\ UNCHANGED <<edited, approval, history>>

\* The record is trusted to be the one that was searched for.
RetainFound(record, found) ==
    IF record.kept # NoContent THEN record ELSE [record EXCEPT !.kept = found]

\* Content goes on a record that has none and whose hash it has; else nothing.
RetainApprovedContent(record, found) ==
    IF record.kept # NoContent \/ record.hash # found THEN record ELSE [record EXCEPT !.kept = found]

\* The store is read again under its sentinel, and saved when that changed it.
RecoverApply ==
    /\ recovery.pc = "holding"
    /\ approval' = RetainApprovedContent(approval, recovery.found)
    /\ recovery' = Resting
    /\ UNCHANGED <<edited, history>>

RecoveryEdit == EditClaimContent \/ CommitFile \/ UnlockEdited \/ LockEdited

RecoveryStep == RecoverSearch \/ RecoverAcquire \/ RecoverApply

-----------------------------------------------------------------------------
(* The panel. *)

OtherFields == IF approval.kept.field # edited.content.field THEN {"field"} ELSE {}

fieldChanges ==
    [name \in OtherFields |->
        LET before == approval.kept[name]
            after == edited.content[name]
        IN IF before \in TooLong \/ after \in TooLong
           THEN [truncated |-> TRUE, hunks |-> <<>>]
           ELSE [truncated |-> FALSE, hunks |-> Passages(before, after).hunks]]

Compute ==
    IF ~EditedSinceApproved THEN [shown |-> FALSE, retained |-> FALSE]
    ELSE IF approval.kept = NoContent THEN [shown |-> TRUE, retained |-> FALSE]
    ELSE [shown |-> TRUE, retained |-> TRUE, fields |-> fieldChanges,
          body |-> Passages(approval.kept.body, edited.content.body)]

-----------------------------------------------------------------------------

\* What the panel compares with was signed: the content on a record is the content
\* its hash was taken of, whichever commands ran between the search and the write.
KeptIsSigned == approval.kept # NoContent => approval.kept = approval.hash

ApprovalTyped == approval = [hash |-> approval.hash, released |-> approval.released, kept |-> approval.kept]

\* Inductive: what is edited and what was approved are texts.
RecoveryTyped ==
    /\ edited \in [status: {"draft", "locked"}, content: [body: Bodies, field: Fields]]
    /\ approval.hash \in [body: Bodies, field: Fields] /\ ApprovalTyped

\* A panel reads back, on either side and in every field, to the words before and after.
ReadsBack(panel, before, after) ==
    /\ Side(panel.body.hunks, "add") = FlattenSeq(before.body)
    /\ Side(panel.body.hunks, "remove") = FlattenSeq(after.body)
    /\ \A h \in ToSet(panel.body.hunks) : Marked(h)
    /\ panel.body.changed = 0 => FlattenSeq(before.body) = FlattenSeq(after.body)
    /\ \A name \in DOMAIN panel.fields : ~panel.fields[name].truncated =>
          /\ Side(panel.fields[name].hunks, "add") = FlattenSeq(before[name])
          /\ Side(panel.fields[name].hunks, "remove") = FlattenSeq(after[name])

\* No diff of two texts would keep more than these do, passage by passage.
LeastChanges(before, after) ==
    /\ Faithful(script(splitBlocks(before), splitBlocks(after)), splitBlocks(before), splitBlocks(after))
    /\ Faithful(wordingDiff(before, after), before, after)

\* The panel reads back to the words approved and the words now there, with no smaller
\* set of changes.
PanelTrue ==
    Compute.shown /\ Compute.retained =>
        /\ ReadsBack(Compute, approval.hash, edited.content)
        /\ LeastChanges(approval.hash.body, edited.content.body)
=============================================================================
