--------------------------- MODULE ScheduledDelivery --------------------------
(***************************************************************************)
(* One scheduled run from its claim to its end: ScheduledTaskWorker's      *)
(* processOne (src/src/schedule/worker.ts) on the statements of the run    *)
(* store, the result in the target chat and the failure notice in the      *)
(* chat the task came from.  A run is claimed once, so it has one          *)
(* execution; the lease under it may expire at any moment, an expired      *)
(* lease cannot be extended, and recoverExpired then fails the run while   *)
(* the execution may still be alive.  A statement or a request that fails  *)
(* may have taken effect.  Runs do not touch each other.                   *)
(***************************************************************************)
EXTENDS Naturals

CONSTANT Runs

VARIABLES
  row,       \* row[r]: the columns of scheduled_runs the delivery works on
  leased,    \* leased[r]: leased_until has not passed
  pc,        \* pc[r]: where the execution stands
  outcome,   \* outcome[r]: runOutcome, then the status that category leads to
  sends,     \* sends[r]: requests to deliver the result
  result,    \* result[r]: what became of them at Feishu
  notice     \* notice[r]: what became of the failure notice

vars == <<row, leased, pc, outcome, sends, result, notice>>

Statuses == {"queued", "processing", "completed", "failed", "delivery_uncertain"}
Ends == {"completed", "failed", "delivery_uncertain"}
Row == [status: Statuses, attempted: BOOLEAN, message: BOOLEAN, fallback: BOOLEAN]
Requests == {"none", "in_flight", "posted", "rejected"}

Steps == {"none", "task", "agent", "revalidate", "prepare", "send", "sending", "mark",
          "finish", "fallback", "notify", "notifying", "finish_failed", "gone"}

TypeOK ==
  /\ row \in [Runs -> Row]
  /\ leased \in [Runs -> BOOLEAN]
  /\ pc \in [Runs -> Steps]
  /\ outcome \in [Runs -> Ends]
  /\ sends \in [Runs -> Nat]
  /\ result \in [Runs -> Requests]
  /\ notice \in [Runs -> Requests]

Init ==
  /\ row = [r \in Runs |-> [status |-> "queued", attempted |-> FALSE, message |-> FALSE,
                            fallback |-> FALSE]]
  /\ leased = [r \in Runs |-> FALSE]
  /\ pc = [r \in Runs |-> "none"]
  /\ outcome = [r \in Runs |-> "completed"]
  /\ sends = [r \in Runs |-> 0]
  /\ result = [r \in Runs |-> "none"]
  /\ notice = [r \in Runs |-> "none"]

Goto(r, step) == pc' = [pc EXCEPT ![r] = step]
Owned(r) == row[r].status = "processing"

\* finish's update of a run it owns: the status is set, the lease is gone.
End(r) ==
  /\ row' = [row EXCEPT ![r].status = outcome[r]]
  /\ leased' = [leased EXCEPT ![r] = FALSE]

-------------------------------------------------------------------------------
\* Claim, agent and the last look at the lease.

Claim(r) ==
  /\ row[r].status = "queued"
  /\ row' = [row EXCEPT ![r].status = "processing"]
  /\ leased' = [leased EXCEPT ![r] = TRUE]
  /\ Goto(r, "task")
  /\ UNCHANGED <<outcome, sends, result, notice>>

\* schedules.get; a task with a run is never removed.
TaskLoaded(r) ==
  /\ pc[r] = "task"
  /\ Goto(r, "agent")
  /\ UNCHANGED <<row, leased, outcome, sends, result, notice>>

\* runScheduled returns or throws; a thrown error is delivered as a control text.
AgentEnds(r) ==
  /\ pc[r] = "agent"
  /\ \E o \in {"completed", "failed"} : outcome' = [outcome EXCEPT ![r] = o]
  /\ Goto(r, "revalidate")
  /\ UNCHANGED <<row, leased, sends, result, notice>>

\* The heartbeat could not extend the lease: the agent is aborted, nothing is sent.
HeartbeatLost(r) ==
  /\ pc[r] \in {"task", "agent", "revalidate"}
  /\ Goto(r, "gone")
  /\ UNCHANGED <<row, leased, outcome, sends, result, notice>>

\* extendLease before the delivery: the row is still processing and not expired.
Revalidate(r) ==
  /\ pc[r] = "revalidate"
  /\ Goto(r, IF Owned(r) /\ leased[r] THEN "prepare" ELSE "gone")
  /\ UNCHANGED <<row, leased, outcome, sends, result, notice>>

-------------------------------------------------------------------------------
\* Delivery of the result.  Whatever throws in here leads to the fallback.

FallBack(r, status) ==
  /\ outcome' = [outcome EXCEPT ![r] = status]
  /\ Goto(r, "fallback")

\* prepareDelivery: delivery_attempted_at is set before the request, at most once.
PrepareDelivery(r) ==
  /\ pc[r] = "prepare"
  /\ Owned(r)
  /\ ~row[r].attempted
  /\ row' = [row EXCEPT ![r].attempted = TRUE]
  /\ Goto(r, "send")
  /\ UNCHANGED <<leased, outcome, sends, result, notice>>

SendResult(r) ==
  /\ pc[r] = "send"
  /\ sends' = [sends EXCEPT ![r] = @ + 1]
  /\ result' = [result EXCEPT ![r] = "in_flight"]
  /\ Goto(r, "sending")
  /\ UNCHANGED <<row, leased, outcome, notice>>

\* Feishu posts the result or refuses it.
ResultArrives(r) ==
  /\ result[r] = "in_flight"
  /\ \E answer \in {"posted", "rejected"} : result' = [result EXCEPT ![r] = answer]
  /\ UNCHANGED <<row, leased, pc, outcome, sends, notice>>

\* A refusal is scheduled_delivery_rejected.
ResultAnswered(r) ==
  /\ pc[r] = "sending"
  /\ \/ result[r] = "posted" /\ Goto(r, "mark") /\ UNCHANGED outcome
     \/ result[r] = "rejected" /\ FallBack(r, "failed")
  /\ UNCHANGED <<row, leased, sends, result, notice>>

\* Faulty: a request without an answer is sent again.
ResultUncertainResent(r) ==
  /\ pc[r] = "sending"
  /\ Goto(r, "send")
  /\ UNCHANGED <<row, leased, outcome, sends, result, notice>>

\* No answer, or one without a message id.
ResultUncertain(r) ==
  /\ pc[r] = "sending"
  /\ FallBack(r, "delivery_uncertain")
  /\ UNCHANGED <<row, leased, sends, result, notice>>

MarkDelivered(r) ==
  /\ pc[r] = "mark"
  /\ Owned(r)
  /\ row' = [row EXCEPT ![r].message = TRUE]
  /\ Goto(r, "finish")
  /\ UNCHANGED <<leased, outcome, sends, result, notice>>

Finish(r) ==
  /\ pc[r] = "finish"
  /\ Owned(r)
  /\ End(r)
  /\ Goto(r, "gone")
  /\ UNCHANGED <<outcome, sends, result, notice>>

\* prepareDelivery, markDelivered or finish throws: the row is not the execution's
\* any more, the statement failed, or it committed and the answer was lost.
StatementThrows(r) ==
  /\ pc[r] \in {"prepare", "mark", "finish"}
  /\ \/ UNCHANGED <<row, leased>>
     \/ Owned(r) /\ pc[r] = "prepare" /\ row' = [row EXCEPT ![r].attempted = TRUE]
        /\ UNCHANGED leased
     \/ Owned(r) /\ pc[r] = "mark" /\ row' = [row EXCEPT ![r].message = TRUE]
        /\ UNCHANGED leased
     \/ Owned(r) /\ pc[r] = "finish" /\ End(r)
  /\ FallBack(r, "delivery_uncertain")
  /\ UNCHANGED <<sends, result, notice>>

-------------------------------------------------------------------------------
\* The fallback: one notice to the chat of origin, then the end of the run.

\* Faulty: beginFallback keyed by the run alone.
BeginFallbackUnfenced(r) ==
  /\ pc[r] = "fallback"
  /\ ~row[r].fallback
  /\ row' = [row EXCEPT ![r].fallback = TRUE]
  /\ Goto(r, "notify")
  /\ UNCHANGED <<leased, outcome, sends, result, notice>>

BeginFallback(r) ==
  /\ pc[r] = "fallback"
  /\ Owned(r)
  /\ ~row[r].fallback
  /\ row' = [row EXCEPT ![r].fallback = TRUE]
  /\ Goto(r, "notify")
  /\ UNCHANGED <<leased, outcome, sends, result, notice>>

SendNotice(r) ==
  /\ pc[r] = "notify"
  /\ notice' = [notice EXCEPT ![r] = "in_flight"]
  /\ Goto(r, "notifying")
  /\ UNCHANGED <<row, leased, outcome, sends, result>>

NoticeArrives(r) ==
  /\ notice[r] = "in_flight"
  /\ \E answer \in {"posted", "rejected"} : notice' = [notice EXCEPT ![r] = answer]
  /\ UNCHANGED <<row, leased, pc, outcome, sends, result>>

\* finishFallback records the notice.
NoticeAnswered(r) ==
  /\ pc[r] = "notifying"
  /\ notice[r] = "posted"
  /\ Goto(r, "finish_failed")
  /\ UNCHANGED <<row, leased, outcome, sends, result, notice>>

\* beginFallback, the request or finishFallback throws: schedule_origin_delivery_failed
\* is recorded instead.
NoticeFails(r) ==
  /\ pc[r] \in {"fallback", "notifying"}
  /\ \/ UNCHANGED row
     \/ pc[r] = "fallback" /\ Owned(r) /\ row' = [row EXCEPT ![r].fallback = TRUE]
  /\ Goto(r, "finish_failed")
  /\ UNCHANGED <<leased, outcome, sends, result, notice>>

\* finish throws scheduled_run_claim_stale when the run is not the execution's any more.
FinishFailed(r) ==
  /\ pc[r] = "finish_failed"
  /\ IF Owned(r) THEN End(r) ELSE UNCHANGED <<row, leased>>
  /\ Goto(r, "gone")
  /\ UNCHANGED <<outcome, sends, result, notice>>

-------------------------------------------------------------------------------
\* Leases and crashes.

\* A lease is renewed only while it lasts, and one that nobody renews any more ends.
LeaseExpires(r) ==
  /\ leased[r]
  /\ leased' = [leased EXCEPT ![r] = FALSE]
  /\ UNCHANGED <<row, pc, outcome, sends, result, notice>>

\* Faulty: a run whose delivery was attempted is left to its execution.
RecoverUnattempted(r) ==
  /\ Owned(r)
  /\ ~leased[r]
  /\ row' = [row EXCEPT ![r].status = IF row[r].attempted THEN @ ELSE "failed"]
  /\ UNCHANGED <<leased, pc, outcome, sends, result, notice>>

RecoverExpired(r) ==
  /\ Owned(r)
  /\ ~leased[r]
  /\ row' = [row EXCEPT ![r].status = "failed"]
  /\ UNCHANGED <<leased, pc, outcome, sends, result, notice>>

\* The process dies, or an error escapes processOne.
Dies(r) ==
  /\ pc[r] \notin {"none", "gone"}
  /\ Goto(r, "gone")
  /\ UNCHANGED <<row, leased, outcome, sends, result, notice>>

\* Every run has ended and nothing is under way.
Idle ==
  /\ \A r \in Runs : row[r].status \in Ends /\ pc[r] = "gone" /\ ~leased[r]
                       /\ "in_flight" \notin {result[r], notice[r]}
  /\ UNCHANGED vars

-------------------------------------------------------------------------------

Delivers(r) ==
  \/ PrepareDelivery(r) \/ SendResult(r) \/ ResultArrives(r) \/ ResultAnswered(r)
  \/ ResultUncertain(r) \/ MarkDelivered(r) \/ Finish(r) \/ StatementThrows(r)

Falls(r) ==
  \/ BeginFallback(r) \/ SendNotice(r) \/ NoticeArrives(r) \/ NoticeAnswered(r)
  \/ NoticeFails(r) \/ FinishFailed(r)

Next ==
  \/ Idle
  \/ \E r \in Runs :
       \/ Claim(r) \/ TaskLoaded(r) \/ AgentEnds(r) \/ HeartbeatLost(r) \/ Revalidate(r)
       \/ Delivers(r) \/ Falls(r)
       \/ LeaseExpires(r) \/ RecoverExpired(r) \/ Dies(r)

Spec == Init /\ [][Next]_vars

\* Time passes over every lease, and the recovery timer keeps firing.
Fairness == \A r \in Runs : WF_vars(LeaseExpires(r)) /\ WF_vars(RecoverExpired(r))

FairSpec == Spec /\ Fairness

-------------------------------------------------------------------------------
(***************************************************************************)
(* Properties.                                                             *)
(***************************************************************************)

\* A result is sent once, and only under a durable record that it may have been: a
\* run that was failed before that record is never heard of in its chat.
SentOnceOnRecord ==
  \A r \in Runs :
    /\ sends[r] <= 1
    /\ sends[r] > 0 => row[r].attempted
    /\ result[r] = "posted" => sends[r] = 1

\* A run is completed only when its result is in the target chat, and then nobody
\* is told that it failed.
CompletedMeansPosted ==
  \A r \in Runs :
    /\ row[r].status = "completed" => result[r] = "posted" /\ notice[r] = "none"
    /\ row[r].message => result[r] = "posted"

\* The end of a run is final, whatever its execution still does.
EndIsFinal ==
  [][\A r \in Runs : row[r].status \in Ends => row'[r].status = row[r].status]_vars

\* Nobody is told that a result was not delivered when Feishu had confirmed it.
NoticeOnlyUnconfirmed ==
  \A r \in Runs : notice[r] = "posted" => ~row[r].message

\* A claimed run ends, even if its execution is lost.
ClaimedRunEnds == \A r \in Runs : Owned(r) ~> row[r].status \in Ends
===============================================================================
