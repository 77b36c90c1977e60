------------------------------ MODULE EventStore ------------------------------
(***************************************************************************)
(* The processed_events table (src/src/storage/schema.ts) and the          *)
(* statements PostgresEventStore runs on it.  One statement, or one        *)
(* transaction, is one operator from the table before it to the table      *)
(* after it; the modules that extend this one decide who runs it and when. *)
(*                                                                         *)
(* Only the columns the properties tell apart are kept.  reply stands for  *)
(* reply_attempted_at together with the key and the prepared reply in      *)
(* outcome, which markReplyStarted sets in one statement; progress stands  *)
(* for progress_attempted_at and progress_message_id; reaction says        *)
(* whether processing_reaction_id is set (a handler adds one reaction to   *)
(* an accepted event).  leased_until and next_attempt_at carry wall-clock  *)
(* times: a lease may expire, and a retry become ready, at any later       *)
(* moment.                                                                 *)
(***************************************************************************)
EXTENDS Naturals, FiniteSets

CONSTANTS
  Events,            \* event ids; they are compared, so they are numbers
  Conversations,     \* conversation keys (a group chat or a private chat)
  ConversationKey,   \* the conversation of each event
  Stamps,            \* values received_at may take
  AdmissionSlots     \* AGENT_ADMISSION_CONCURRENCY

ASSUME StoreAssumption ==
  /\ Events \subseteq Nat
  /\ IsFiniteSet(Events)
  /\ ConversationKey \in [Events -> Conversations]
  /\ Stamps \subseteq Nat
  /\ AdmissionSlots \in Nat \ {0}

VARIABLE rows        \* processed_events, by event id

Statuses == {"absent", "queued", "processing", "completed", "failed"}
Terminal == {"completed", "failed"}

\* How a terminal event ended: a confirmed reply, a control outcome with no
\* reply (complete with an errorCode), or an uncertain reply.
Outcomes == {"none", "replied", "gave_up", "uncertain"}

\* A prepared reply, told apart by what it says and by the claim whose
\* execution composed its text.
ReplyKinds == {"answer", "write_report", "temporary_error", "unsupported"}
Replies == [kind: ReplyKinds, claim: Nat]
NoReply == [kind |-> "none", claim |-> 0]

Row == [status: Statuses, receivedAt: Nat, attempts: Nat,
        writeStarted: BOOLEAN, reply: Replies \cup {NoReply},
        progress: {"none", "attempted", "confirmed"},
        reaction: BOOLEAN, outcome: Outcomes]

AbsentRow == [status |-> "absent", receivedAt |-> 0, attempts |-> 0,
              writeStarted |-> FALSE, reply |-> NoReply, progress |-> "none",
              reaction |-> FALSE, outcome |-> "none"]

InitStore == rows = [e \in Events |-> AbsentRow]

-------------------------------------------------------------------------------
\* Admission.

\* enqueue: insert ... on conflict do nothing.  received_at is now(), the time
\* the transaction began, not the time it obtained the admission lock.
Inserted(e, stamp) ==
  IF rows[e].status = "absent"
    THEN [rows EXCEPT ![e] = [AbsentRow EXCEPT !.status = "queued", !.receivedAt = stamp]]
    ELSE rows

Active(e) == rows[e].status \in {"queued", "processing"}

\* Faulty: order by event_id.
BeforeByName(f, e) == f < e

\* order by received_at, event_id
Before(f, e) ==
  \/ rows[f].receivedAt < rows[e].receivedAt
  \/ rows[f].receivedAt = rows[e].receivedAt /\ f < e

\* conversation_position = 1
HeadOfConversation(e) ==
  \A f \in Events :
     (f # e /\ Active(f) /\ ConversationKey[f] = ConversationKey[e]) => ~Before(f, e)

Processing == {e \in Events : rows[e].status = "processing"}

\* Faulty: the last slot is counted as free.
ClaimableBeyondSlots(e, busyChats, scheduledRuns) ==
  /\ rows[e].status = "queued"
  /\ HeadOfConversation(e)
  /\ ConversationKey[e] \notin busyChats
  /\ Cardinality(Processing) + scheduledRuns <= AdmissionSlots

\* The where clause of claimReady.  busyChats holds the result chats of the
\* scheduled runs in processing, scheduledRuns counts them.
Claimable(e, busyChats, scheduledRuns) ==
  /\ rows[e].status = "queued"
  /\ HeadOfConversation(e)
  /\ ConversationKey[e] \notin busyChats
  /\ Cardinality(Processing) + scheduledRuns < AdmissionSlots

Claimed(e) ==
  [rows EXCEPT ![e] = [@ EXCEPT !.status = "processing", !.attempts = rows[e].attempts + 1]]

-------------------------------------------------------------------------------
\* Statements fenced by the claim: status = 'processing' and attempts = claim.
\* A statement whose fence fails updates no row and throws StaleEventClaimError.

Owns(e, claim) == rows[e].status = "processing" /\ rows[e].attempts = claim

\* complete: replyMessageId or errorCode; the reaction id is handed back and cleared.
Completed(e, outcome) ==
  [rows EXCEPT ![e] = [@ EXCEPT !.status = "completed", !.outcome = outcome,
                                !.reaction = FALSE]]

ReplyUncertain(e) ==
  [rows EXCEPT ![e] = [@ EXCEPT !.status = "failed", !.outcome = "uncertain",
                                !.reaction = FALSE]]

ReplyStarted(e, reply) == [rows EXCEPT ![e].reply = reply]

\* Faulty: retry overwrites outcome instead of merging into it.
RetriedWithoutReply(e) ==
  [rows EXCEPT ![e] = [@ EXCEPT !.status = "queued", !.reply = NoReply]]

\* retry keeps the prepared reply: the error code is merged into outcome.
Retried(e) == [rows EXCEPT ![e].status = "queued"]

\* beginWrite marks write_started_at in the transaction that inserts the tool run.
WriteStarted(e) == [rows EXCEPT ![e].writeStarted = TRUE]

\* recoverExpiredLeases on one expired row; it is not fenced by a claim.
LeaseRecovered(e) == [rows EXCEPT ![e].status = "queued"]

-------------------------------------------------------------------------------
\* Statements of the progress reply and of the processing reaction.

\* Faulty: the marker is keyed by the event alone.
MayMarkProgressUnfenced(e, claim) == rows[e].reply = NoReply

\* markProgressAttempted: same claim, no final reply started, no attempt before.
MayMarkProgress(e, claim) ==
  Owns(e, claim) /\ rows[e].reply = NoReply /\ rows[e].progress = "none"

ProgressAttempted(e) == [rows EXCEPT ![e].progress = "attempted"]

MayConfirmProgress(e, claim) ==
  Owns(e, claim) /\ rows[e].reply = NoReply /\ rows[e].progress = "attempted"

ProgressConfirmed(e) == [rows EXCEPT ![e].progress = "confirmed"]

MayAttachReaction(e) == Active(e) /\ ~rows[e].reaction

ReactionAttached(e) == [rows EXCEPT ![e].reaction = TRUE]
===============================================================================
