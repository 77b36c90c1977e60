---------------------------- MODULE MessageWorker -----------------------------
(***************************************************************************)
(* The life of a message event: the durable queue of EventStore, the       *)
(* executions of MessageWorker.process, the agent run inside an execution  *)
(* with its persistent writes (src/src/agent/run.ts), and delivery of the  *)
(* reply to Feishu under a stable idempotency key.                         *)
(*                                                                         *)
(* An execution is named by its claim: the event and the value attempts    *)
(* had when claimReady returned it.  Executions of one event overlap when  *)
(* a lease expires under an execution that is still alive.  A step of an   *)
(* execution is one await of the code: a statement of the store, a call to *)
(* Feishu, the agent.  The processing reaction and the progress reply,     *)
(* which leave these steps alone, are modules of their own.                *)
(***************************************************************************)
EXTENDS EventStore

CONSTANTS
  Unsupported,     \* events whose content kind is unsupported
  AttemptLimit,    \* failures before the reply end the event at this attempt (3)
  MaxFaults,       \* bound on failures, deaths and premature lease expiries
  PromptSends      \* TRUE: the window never closes between its check and the send

ASSUME WorkerAssumption ==
  /\ Unsupported \subseteq Events
  /\ AttemptLimit \in Nat \ {0}
  /\ MaxFaults \in Nat
  /\ PromptSends \in BOOLEAN

VARIABLES
  pc,          \* pc[e][c]: where the execution of claim c on event e stands
  prepared,    \* prepared[e][c]: the reply it holds (event.preparedReply* or composed)
  sawWrite,    \* sawWrite[e][c]: event.writeStartedAt in the row it claimed
  flight,      \* flight[e][c]: its send request at Feishu
  writers,     \* writers[e]: claims whose persistent write was carried out
  posts,       \* posts[e]: final replies visible in the chat
  windowOpen,  \* windowOpen[e]: the deduplication window of e's key is not over
  faults       \* failures so far

execution == <<pc, prepared, sawWrite, flight>>
feishu == <<posts, windowOpen>>
vars == <<rows, pc, prepared, sawWrite, flight, writers, posts, windowOpen, faults>>

\* Every claim but the first follows a fault, so attempts never exceeds MaxFaults + 1.
Claims == 1 .. (MaxFaults + 1)

Steps == {"none", "claimed", "conversation", "agent", "writing", "load_writes",
          "mark_reply", "marked", "resend", "sending", "replied",
          "retry", "give_up", "uncertain", "done", "dead"}
Stopped == {"none", "done", "dead"}

TypeOK ==
  /\ rows \in [Events -> Row]
  /\ pc \in [Events -> [Claims -> Steps]]
  /\ prepared \in [Events -> [Claims -> Replies \cup {NoReply}]]
  /\ sawWrite \in [Events -> [Claims -> BOOLEAN]]
  /\ flight \in [Events -> [Claims -> {"none", "in_flight", "landed"}]]
  /\ writers \in [Events -> SUBSET Claims]
  /\ posts \in [Events -> Nat]
  /\ windowOpen \in [Events -> BOOLEAN]
  /\ faults \in 0 .. MaxFaults

Init ==
  /\ InitStore
  /\ pc = [e \in Events |-> [c \in Claims |-> "none"]]
  /\ prepared = [e \in Events |-> [c \in Claims |-> NoReply]]
  /\ sawWrite = [e \in Events |-> [c \in Claims |-> FALSE]]
  /\ flight = [e \in Events |-> [c \in Claims |-> "none"]]
  /\ writers = [e \in Events |-> {}]
  /\ posts = [e \in Events |-> 0]
  /\ windowOpen = [e \in Events |-> TRUE]
  /\ faults = 0

-------------------------------------------------------------------------------
\* Control flow of one execution.

Goto(e, c, step) == pc' = [pc EXCEPT ![e][c] = step]

Fault == faults < MaxFaults /\ faults' = faults + 1

\* state.replyStarted: set when the snapshot held a reply, or once
\* markReplyStarted has returned to the execution.
ReplyHasStarted(e, c) ==
  prepared[e][c] # NoReply /\ pc[e][c] \notin {"mark_reply", "marked"}

\* failBeforeReply: another attempt, or a terminal outcome with no reply.
BeforeReplyStep(c) == IF c < AttemptLimit THEN "retry" ELSE "give_up"

\* Faulty: prepareReply without the branch on event.writeStartedAt.
PrepareReplaysWrites(e, c) ==
  CASE prepared[e][c] # NoReply -> "resend"
    [] prepared[e][c] = NoReply /\ e \in Unsupported -> "mark_reply"
    [] prepared[e][c] = NoReply /\ e \notin Unsupported -> "agent"

\* prepareReply, up to the await it reaches first.
PrepareStep(e, c) ==
  CASE prepared[e][c] # NoReply -> "resend"
    [] prepared[e][c] = NoReply /\ e \in Unsupported -> "mark_reply"
    [] prepared[e][c] = NoReply /\ e \notin Unsupported ->
         IF sawWrite[e][c] THEN "load_writes" ELSE "agent"

Compose(e, c, kind) ==
  prepared' = [prepared EXCEPT ![e][c] = [kind |-> kind, claim |-> c]]

-------------------------------------------------------------------------------
\* The queue.

Enqueue(e) ==
  /\ rows[e].status = "absent"
  /\ \E stamp \in Stamps : rows' = Inserted(e, stamp)
  /\ UNCHANGED <<execution, writers, feishu, faults>>

\* processNext: claimReady(1, lease) and the row it returns.  The next retry may
\* be ready at any time, so any head of a conversation may be the earliest ready.
Claim(e) ==
  LET c == rows[e].attempts + 1 IN
  /\ Claimable(e, {}, 0)
  /\ rows' = Claimed(e)
  /\ Goto(e, c, "claimed")
  /\ prepared' = [prepared EXCEPT ![e][c] = rows[e].reply]
  /\ sawWrite' = [sawWrite EXCEPT ![e][c] = rows[e].writeStarted]
  /\ UNCHANGED <<flight, writers, feishu, faults>>

\* recoverExpiredLeases.  A lease normally outlives the execution's own deadline,
\* so losing it while the execution lives is a fault.
RecoverExpiredLease(e) ==
  /\ rows[e].status = "processing"
  /\ IF pc[e][rows[e].attempts] \in Stopped THEN UNCHANGED faults ELSE Fault
  /\ rows' = LeaseRecovered(e)
  /\ UNCHANGED <<execution, writers, feishu>>

-------------------------------------------------------------------------------
\* processWithinDeadline.

\* Faulty: an attempted reply is resent however old it is.
CheckNoWindow(e, c) ==
  /\ pc[e][c] = "claimed"
  /\ Goto(e, c, "conversation")
  /\ UNCHANGED <<rows, prepared, sawWrite, flight, writers, feishu, faults>>

\* Faulty: an attempted reply that is too old is left where it is.
CheckWindowWaits(e, c) ==
  /\ pc[e][c] = "claimed"
  /\ IF prepared[e][c] # NoReply /\ ~windowOpen[e]
       THEN UNCHANGED pc
       ELSE Goto(e, c, "conversation")
  /\ UNCHANGED <<rows, prepared, sawWrite, flight, writers, feishu, faults>>

\* A reply already attempted is resent only inside the deduplication window.
CheckWindow(e, c) ==
  /\ pc[e][c] = "claimed"
  /\ Goto(e, c, IF prepared[e][c] # NoReply /\ ~windowOpen[e]
                  THEN "uncertain" ELSE "conversation")
  /\ UNCHANGED <<rows, prepared, sawWrite, flight, writers, feishu, faults>>

MarkReplyUncertain(e, c) ==
  /\ pc[e][c] = "uncertain"
  /\ Owns(e, c)
  /\ rows' = ReplyUncertain(e)
  /\ Goto(e, c, "done")
  /\ UNCHANGED <<prepared, sawWrite, flight, writers, feishu, faults>>

\* getOrCreateConversation and append of the member's message succeed.
ConversationStored(e, c) ==
  /\ pc[e][c] = "conversation"
  /\ Goto(e, c, PrepareStep(e, c))
  /\ IF prepared[e][c] = NoReply /\ e \in Unsupported
       THEN Compose(e, c, "unsupported")
       ELSE UNCHANGED prepared
  /\ UNCHANGED <<rows, sawWrite, flight, writers, feishu, faults>>

ConversationFails(e, c) ==
  /\ pc[e][c] = "conversation"
  /\ Fault
  /\ Goto(e, c, IF prepared[e][c] # NoReply THEN "retry" ELSE BeforeReplyStep(c))
  /\ UNCHANGED <<rows, prepared, sawWrite, flight, writers, feishu>>

\* A run whose event already began a write is not replayed: its durable write
\* attempts are loaded and reported instead.
LoadWriteAttempts(e, c) ==
  /\ pc[e][c] = "load_writes"
  /\ Compose(e, c, "write_report")
  /\ Goto(e, c, "mark_reply")
  /\ UNCHANGED <<rows, sawWrite, flight, writers, feishu, faults>>

-------------------------------------------------------------------------------
\* runKnowledgeAgent, with the write audit around every persistent tool.

\* Faulty: beginWrite does not check that the event is still leased to its claim.
BeginWriteUnfenced(e, c) ==
  /\ pc[e][c] = "agent"
  /\ rows' = WriteStarted(e)
  /\ Goto(e, c, "writing")
  /\ UNCHANGED <<prepared, sawWrite, flight, writers, feishu, faults>>

\* beginWrite commits: the tool run and write_started_at, fenced by the claim.
\* When the fence fails nothing is written and the tool reports an error.
BeginWrite(e, c) ==
  /\ pc[e][c] = "agent"
  /\ Owns(e, c)
  /\ rows' = WriteStarted(e)
  /\ Goto(e, c, "writing")
  /\ UNCHANGED <<prepared, sawWrite, flight, writers, feishu, faults>>

\* beginWrite returns to a run that was not aborted: the operation is carried out.
PerformWrite(e, c) ==
  /\ pc[e][c] = "writing"
  /\ writers' = [writers EXCEPT ![e] = @ \cup {c}]
  /\ Goto(e, c, "agent")
  /\ UNCHANGED <<rows, prepared, sawWrite, flight, feishu, faults>>

\* The run returns a reply: completed, or stopped by its step limit or its own
\* time limit, which may fire while beginWrite is still awaited.
AgentReturns(e, c) ==
  /\ pc[e][c] \in {"agent", "writing"}
  /\ Compose(e, c, "answer")
  /\ Goto(e, c, "mark_reply")
  /\ UNCHANGED <<rows, sawWrite, flight, writers, feishu, faults>>

\* The run fails after its replay boundary: it reports its writes.  The boundary
\* is crossed when beginWrite returns, before the operation is carried out.
AgentInterruptedAfterWrite(e, c) ==
  /\ \/ pc[e][c] = "writing"
     \/ pc[e][c] = "agent" /\ c \in writers[e]
  /\ Fault
  /\ Compose(e, c, "write_report")
  /\ Goto(e, c, "mark_reply")
  /\ UNCHANGED <<rows, sawWrite, flight, writers, feishu>>

\* The run throws: it failed before its replay boundary (its record, the history, Team
\* Context, the group's messages or the model), it was aborted while beginWrite was
\* awaited, or, on either side of the boundary, finishing its audit failed.  The worker retries the event or prepares the temporary-error reply.
AgentThrows(e, c) ==
  /\ pc[e][c] \in {"agent", "writing"}
  /\ Fault
  /\ IF c < AttemptLimit
       THEN Goto(e, c, "retry") /\ UNCHANGED prepared
       ELSE Goto(e, c, "mark_reply") /\ Compose(e, c, "temporary_error")
  /\ UNCHANGED <<rows, sawWrite, flight, writers, feishu>>

-------------------------------------------------------------------------------
\* persistPreparedReply, delivery and completion.

\* Faulty: markReplyStarted keyed by the event alone.
MarkReplyStartedUnfenced(e, c) ==
  /\ pc[e][c] = "mark_reply"
  /\ rows' = ReplyStarted(e, prepared[e][c])
  /\ Goto(e, c, "marked")
  /\ UNCHANGED <<prepared, sawWrite, flight, writers, feishu, faults>>

\* markReplyStarted commits; the execution has not seen it return yet.
MarkReplyStarted(e, c) ==
  /\ pc[e][c] = "mark_reply"
  /\ Owns(e, c)
  /\ rows' = ReplyStarted(e, prepared[e][c])
  /\ Goto(e, c, "marked")
  /\ UNCHANGED <<prepared, sawWrite, flight, writers, feishu, faults>>

SendReply(e, c) ==
  /\ pc[e][c] \in {"marked", "resend"}
  /\ flight' = [flight EXCEPT ![e][c] = "in_flight"]
  /\ Goto(e, c, "sending")
  /\ UNCHANGED <<rows, prepared, sawWrite, writers, feishu, faults>>

\* Feishu accepts the request.  Inside the window a key it has seen yields the
\* message it already posted.  The request may land after its sender is gone.
ReplyLands(e, c) ==
  /\ flight[e][c] = "in_flight"
  /\ flight' = [flight EXCEPT ![e][c] = "landed"]
  /\ posts' = [posts EXCEPT ![e] = IF @ > 0 /\ windowOpen[e] THEN @ ELSE @ + 1]
  /\ UNCHANGED <<rows, pc, prepared, sawWrite, writers, windowOpen, faults>>

ReplyAcknowledged(e, c) ==
  /\ pc[e][c] = "sending"
  /\ flight[e][c] = "landed"
  /\ Goto(e, c, "replied")
  /\ UNCHANGED <<rows, prepared, sawWrite, flight, writers, feishu, faults>>

\* The send call fails, whether or not Feishu accepted the request.
ReplyFails(e, c) ==
  /\ pc[e][c] = "sending"
  /\ Fault
  /\ Goto(e, c, "retry")
  /\ UNCHANGED <<rows, prepared, sawWrite, flight, writers, feishu>>

\* append of the assistant's message, then complete.
CompleteReplied(e, c) ==
  /\ pc[e][c] = "replied"
  /\ Owns(e, c)
  /\ rows' = Completed(e, "replied")
  /\ Goto(e, c, "done")
  /\ UNCHANGED <<prepared, sawWrite, flight, writers, feishu, faults>>

CompleteGivenUp(e, c) ==
  /\ pc[e][c] = "give_up"
  /\ Owns(e, c)
  /\ rows' = Completed(e, "gave_up")
  /\ Goto(e, c, "done")
  /\ UNCHANGED <<prepared, sawWrite, flight, writers, feishu, faults>>

Retry(e, c) ==
  /\ pc[e][c] = "retry"
  /\ Owns(e, c)
  /\ rows' = Retried(e)
  /\ Goto(e, c, "done")
  /\ UNCHANGED <<prepared, sawWrite, flight, writers, feishu, faults>>

-------------------------------------------------------------------------------
\* What cuts an execution short.

\* A fenced statement finds that the claim is gone: StaleEventClaimError ends
\* the execution and leaves the row to its new owner.
StaleClaim(e, c) ==
  /\ pc[e][c] \in {"uncertain", "mark_reply", "replied", "give_up", "retry"}
  /\ ~Owns(e, c)
  /\ Goto(e, c, "dead")
  /\ UNCHANGED <<rows, prepared, sawWrite, flight, writers, feishu, faults>>

\* The processing deadline aborts the awaited step.  A markReplyStarted that had
\* committed but not returned does not count as started.
DeadlineExceeded(e, c) ==
  /\ pc[e][c] \in {"conversation", "agent", "writing", "load_writes", "mark_reply",
                   "marked", "resend", "sending", "replied"}
  /\ Fault
  /\ Goto(e, c, IF ReplyHasStarted(e, c) THEN "retry" ELSE BeforeReplyStep(c))
  /\ UNCHANGED <<rows, prepared, sawWrite, flight, writers, feishu>>

\* The process crashes, or an error other than those above escapes process():
\* the row stays in processing until its lease expires.
Dies(e, c) ==
  /\ pc[e][c] \notin Stopped
  /\ Fault
  /\ Goto(e, c, "dead")
  /\ UNCHANGED <<rows, prepared, sawWrite, flight, writers, feishu>>

\* An hour passes after replyAttemptedAt.  The execution that marked the reply has
\* ended by then: its deadline is a quarter of the window.
WindowCloses(e) ==
  /\ rows[e].reply # NoReply
  /\ windowOpen[e]
  /\ pc[e][rows[e].reply.claim] \in Stopped
  /\ PromptSends =>
       \A c \in Claims :
          /\ flight[e][c] # "in_flight"
          /\ pc[e][c] \notin {"marked", "resend"}
          /\ ~(pc[e][c] = "conversation" /\ prepared[e][c] # NoReply)
  /\ windowOpen' = [windowOpen EXCEPT ![e] = FALSE]
  /\ UNCHANGED <<rows, execution, writers, posts, faults>>

-------------------------------------------------------------------------------

\* Steps an execution takes by itself as long as it is alive.
Runs(e, c) ==
  \/ CheckWindow(e, c) \/ MarkReplyUncertain(e, c)
  \/ ConversationStored(e, c) \/ LoadWriteAttempts(e, c)
  \/ PerformWrite(e, c) \/ AgentReturns(e, c)
  \/ MarkReplyStarted(e, c) \/ SendReply(e, c) \/ ReplyAcknowledged(e, c)
  \/ CompleteReplied(e, c) \/ CompleteGivenUp(e, c) \/ Retry(e, c)
  \/ StaleClaim(e, c)

Disturbed(e, c) ==
  \/ ConversationFails(e, c) \/ AgentInterruptedAfterWrite(e, c) \/ AgentThrows(e, c)
  \/ ReplyFails(e, c) \/ DeadlineExceeded(e, c) \/ Dies(e, c)

\* Every event of the instance is settled and nothing is under way.
Idle ==
  /\ \A e \in Events :
       /\ rows[e].status \in Terminal
       /\ \A c \in Claims : pc[e][c] \in Stopped /\ flight[e][c] # "in_flight"
  /\ UNCHANGED vars

Next ==
  \/ Idle
  \/ \E e \in Events :
       Enqueue(e) \/ Claim(e) \/ RecoverExpiredLease(e) \/ WindowCloses(e)
  \/ \E e \in Events, c \in Claims :
       Runs(e, c) \/ BeginWrite(e, c) \/ ReplyLands(e, c) \/ Disturbed(e, c)

Spec == Init /\ [][Next]_vars

\* The coordinator's loops keep claiming and running, the recovery timer keeps
\* returning expired leases, a run ends by its step or time limit, and a request
\* that is not reported as failed is answered.  Nothing forces a fault.
Fairness ==
  /\ \A e \in Events :
       /\ WF_vars(Claim(e))
       /\ WF_vars(rows[e].status = "processing" /\ pc[e][rows[e].attempts] \in Stopped
                    /\ RecoverExpiredLease(e))
  /\ \A e \in Events, c \in Claims :
       WF_vars(Runs(e, c)) /\ WF_vars(AgentReturns(e, c)) /\ WF_vars(ReplyLands(e, c))

FairSpec == Spec /\ Fairness

-------------------------------------------------------------------------------
(***************************************************************************)
(* Properties.                                                             *)
(***************************************************************************)

\* Write Replay Boundary: all persistent writes of an event are carried out by the
\* executions of one claim, however leases expire and executions overlap.
OneWritingClaim ==
  \A e \in Events : \A c, d \in writers[e] : c = d

\* No automatic replay: a run of the agent is never live in a claim later than one
\* that began a write (beginWrite committed and the write is pending or done).
NoReplayAfterWrite ==
  \A e \in Events : \A c, d \in Claims :
     /\ c < d
     /\ c \in writers[e] \/ pc[e][c] = "writing"
     => pc[e][d] \notin {"agent", "writing"}

\* Every request sent under an event's stable key carries one and the same prepared
\* reply, the one its row holds, whichever execution sent it.
OneReplyPerKey ==
  \A e \in Events : \A c \in Claims :
     flight[e][c] # "none" => prepared[e][c] = rows[e].reply /\ rows[e].reply # NoReply

\* A member sees at most one final reply to an event, across retries, crashes and
\* executions that outlive their lease.
AtMostOnePost ==
  \A e \in Events : posts[e] <= 1

\* An event completed as replied has its reply in the chat, and an event that gave
\* up before a reply has none that its own row did not prepare.
RepliedIsVisible ==
  \A e \in Events :
     /\ rows[e].outcome = "replied" => posts[e] > 0
     /\ posts[e] > 0 => rows[e].reply # NoReply

\* A terminal event is settled for good: no late execution requeues, reclaims or
\* rewrites it.
TerminalIsFinal ==
  [][\A e \in Events : rows[e].status \in Terminal => rows'[e] = rows[e]]_vars

\* To the members of the chat the whole machinery is ReplyDelivery: one reply per
\* event, decided once, posted at most once, and never in doubt once confirmed.
Phase(e) ==
  CASE rows[e].status = "absent" -> "unknown"
    [] rows[e].status \in {"queued", "processing"} -> "pending"
    [] rows[e].status \in Terminal -> rows[e].outcome

Delivery == INSTANCE ReplyDelivery
  WITH phase <- [e \in Events |-> Phase(e)], reply <- [e \in Events |-> rows[e].reply]

DeliversOnce == Delivery!Spec

\* The members learn what an event wrote: once a terminal event has begun a write,
\* its reply is the agent's own answer or the report of its write attempts.
WriteOutcomesReported ==
  \A e \in Events :
     (rows[e].status \in Terminal /\ writers[e] # {}) =>
        rows[e].reply.kind \in {"answer", "write_report"}

\* Every accepted event is eventually terminal.
EventuallySettled ==
  \A e \in Events : rows[e].status = "queued" ~> rows[e].status \in Terminal
===============================================================================
