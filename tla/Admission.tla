------------------------------ MODULE Admission -------------------------------
(***************************************************************************)
(* Who may work next.  Message events and scheduled runs share the         *)
(* AdmissionSlots slots of the process; claimReady and claimNext decide    *)
(* under one advisory lock, and the loops of the admission coordinator     *)
(* (src/src/worker/admission-coordinator.ts) ask them in turn.             *)
(*                                                                         *)
(* enqueue is two steps here: received_at is the time its transaction      *)
(* began, the row appears when the transaction, having waited for the      *)
(* lock, commits.  What an admitted event or run does is the subject of    *)
(* other modules: here its work ends, succeeds, is retried, throws or      *)
(* outlives its lease.                                                     *)
(***************************************************************************)
EXTENDS EventStore, Sequences

CONSTANTS
  Runs,              \* ids of scheduled runs, in the order of scheduled_for
  ResultChat,        \* the chat each scheduled run delivers to
  Loops,             \* the coordinator's loops
  MaxOpenEnqueues,   \* enqueue transactions that may be open at a time
  MaxDeliveries,     \* bound on deliveries of events by Feishu
  MaxDisturbances    \* bound on retries, throws, crashes and premature lease expiries

ASSUME AdmissionAssumption ==
  /\ Runs \subseteq Nat /\ IsFiniteSet(Runs)
  /\ ResultChat \in [Runs -> Conversations]
  /\ IsFiniteSet(Loops)
  /\ MaxOpenEnqueues \in Nat \ {0}
  /\ MaxDeliveries \in Nat
  /\ MaxDisturbances \in Nat

VARIABLES
  backoff,               \* events whose next_attempt_at lies in the future
  runs,                  \* runs[r]: status of the scheduled run
  opened,                \* enqueue transactions that began and did not commit
  deliveries,            \* deliveries so far; also the clock of received_at
  accepted,              \* events in the order their enqueue committed
  loops,                 \* what each loop of the coordinator is doing
  scheduledProcessing,   \* the coordinator's flag of that name
  disturbances

queue == <<rows, backoff, accepted>>
entry == <<opened, deliveries>>
coordinator == <<loops, scheduledProcessing>>
vars == <<queue, runs, entry, coordinator, disturbances>>

RunStatuses == {"none", "queued", "processing", "finished", "failed"}

At(where) == [at |-> where, id |-> 0, claim |-> 0]
Working == {"message", "scheduled"}

TypeOK ==
  /\ rows \in [Events -> Row]
  /\ backoff \subseteq Events
  /\ runs \in [Runs -> RunStatuses]
  /\ opened \subseteq [event: Events, stamp: 1 .. MaxDeliveries]
  /\ deliveries \in 0 .. MaxDeliveries
  /\ accepted \in Seq(Events)
  /\ loops \in [Loops -> [at: {"ready", "asking", "waiting"} \cup Working, id: Nat, claim: Nat]]
  /\ scheduledProcessing \in BOOLEAN
  /\ disturbances \in 0 .. MaxDisturbances

Init ==
  /\ InitStore
  /\ backoff = {}
  /\ runs = [r \in Runs |-> "none"]
  /\ opened = {}
  /\ deliveries = 0
  /\ accepted = <<>>
  /\ loops = [l \in Loops |-> At("ready")]
  /\ scheduledProcessing = FALSE
  /\ disturbances = 0

Disturb == disturbances < MaxDisturbances /\ disturbances' = disturbances + 1

-------------------------------------------------------------------------------
\* What arrives.

\* The gateway's handler begins the transaction of enqueue; Feishu may deliver an
\* event more than once.
OpenEnqueue(e) ==
  /\ deliveries < MaxDeliveries
  /\ Cardinality(opened) < MaxOpenEnqueues
  /\ deliveries' = deliveries + 1
  /\ opened' = opened \cup {[event |-> e, stamp |-> deliveries + 1]}
  /\ UNCHANGED <<queue, runs, coordinator, disturbances>>

\* The transaction obtains the admission lock, inserts and commits.
CommitEnqueue(t) ==
  /\ t \in opened
  /\ opened' = opened \ {t}
  /\ rows' = Inserted(t.event, t.stamp)
  /\ accepted' = IF rows[t.event].status = "absent" THEN Append(accepted, t.event) ELSE accepted
  /\ UNCHANGED <<backoff, runs, deliveries, coordinator, disturbances>>

\* The dispatcher creates a run; runs come in the order of scheduled_for.
CreateRun(r) ==
  /\ runs[r] = "none"
  /\ \A q \in Runs : q < r => runs[q] # "none"
  /\ runs' = [runs EXCEPT ![r] = "queued"]
  /\ UNCHANGED <<queue, entry, coordinator, disturbances>>

\* next_attempt_at passes.
BackoffEnds(e) ==
  /\ e \in backoff
  /\ backoff' = backoff \ {e}
  /\ UNCHANGED <<rows, accepted, runs, entry, coordinator, disturbances>>

-------------------------------------------------------------------------------
\* The two claims.

ProcessingRuns == {r \in Runs : runs[r] = "processing"}
BusyChats == {ResultChat[r] : r \in ProcessingRuns}

Candidates ==
  {e \in Events \ backoff : Claimable(e, BusyChats, Cardinality(ProcessingRuns))}

\* claimReady(1, lease): the earliest of the candidates.
NextEvents == {e \in Candidates : \A f \in Candidates : f = e \/ Before(e, f)}

\* Faulty: claimNext does not look at the events in processing.
RunCandidatesInBusyChats ==
  {r \in Runs :
     /\ runs[r] = "queued"
     /\ ProcessingRuns = {}
     /\ Cardinality(Processing) + Cardinality(ProcessingRuns) < AdmissionSlots
     /\ \A e \in Events : rows[e].status = "queued" => e \in backoff}

\* The where clause of claimNext: messages first, one scheduled run at a time.
RunCandidates ==
  {r \in Runs :
     /\ runs[r] = "queued"
     /\ ProcessingRuns = {}
     /\ Cardinality(Processing) + Cardinality(ProcessingRuns) < AdmissionSlots
     /\ \A e \in Events : rows[e].status = "queued" => e \in backoff
     /\ \A e \in Processing : ConversationKey[e] # ResultChat[r]}

NextRuns == {r \in RunCandidates : \A q \in RunCandidates : r <= q}

-------------------------------------------------------------------------------
\* One loop of the coordinator.

\* message.processNext() obtains an event and works on it.
AdmitMessage(l) ==
  /\ loops[l].at = "ready"
  /\ \E e \in NextEvents :
       /\ rows' = Claimed(e)
       /\ loops' = [loops EXCEPT ![l] =
                      [at |-> "message", id |-> e, claim |-> rows[e].attempts + 1]]
  /\ UNCHANGED <<backoff, accepted, runs, entry, scheduledProcessing, disturbances>>

\* processNext() found nothing: the loop asks for a scheduled run, unless another
\* loop of the process is busy with one.
NoMessage(l) ==
  /\ loops[l].at = "ready"
  /\ NextEvents = {}
  /\ loops' = [loops EXCEPT ![l] = At(IF scheduledProcessing THEN "waiting" ELSE "asking")]
  /\ scheduledProcessing' = TRUE
  /\ UNCHANGED <<queue, runs, entry, disturbances>>

\* scheduled.processOne() claims a run and works on it.
AdmitRun(l) ==
  /\ loops[l].at = "asking"
  /\ \E r \in NextRuns :
       /\ runs' = [runs EXCEPT ![r] = "processing"]
       /\ loops' = [loops EXCEPT ![l] = [at |-> "scheduled", id |-> r, claim |-> 1]]
  /\ UNCHANGED <<queue, entry, scheduledProcessing, disturbances>>

NoRun(l) ==
  /\ loops[l].at = "asking"
  /\ NextRuns = {}
  /\ loops' = [loops EXCEPT ![l] = At("waiting")]
  /\ scheduledProcessing' = FALSE
  /\ UNCHANGED <<queue, runs, entry, disturbances>>

\* The poll timer fires or the gateway wakes the coordinator.
Wake(l) ==
  /\ loops[l].at = "waiting"
  /\ loops' = [loops EXCEPT ![l] = At("ready")]
  /\ UNCHANGED <<queue, runs, entry, scheduledProcessing, disturbances>>

\* process() settles its event, if the claim is still its own.
MessageSettles(l) ==
  LET e == loops[l].id IN
  /\ loops[l].at = "message"
  /\ rows' = IF Owns(e, loops[l].claim) THEN Completed(e, "replied") ELSE rows
  /\ loops' = [loops EXCEPT ![l] = At("ready")]
  /\ UNCHANGED <<backoff, accepted, runs, entry, scheduledProcessing, disturbances>>

\* process() returns its event to the queue, to be tried again later.
MessageRetries(l) ==
  LET e == loops[l].id IN
  /\ loops[l].at = "message"
  /\ Owns(e, loops[l].claim)
  /\ Disturb
  /\ rows' = Retried(e)
  /\ backoff' = backoff \cup {e}
  /\ loops' = [loops EXCEPT ![l] = At("ready")]
  /\ UNCHANGED <<accepted, runs, entry, scheduledProcessing>>

\* The run is finished, if it was not taken for expired.  finally clears the flag.
RunSettles(l) ==
  LET r == loops[l].id IN
  /\ loops[l].at = "scheduled"
  /\ runs' = IF runs[r] = "processing" THEN [runs EXCEPT ![r] = "finished"] ELSE runs
  /\ loops' = [loops EXCEPT ![l] = At("ready")]
  /\ scheduledProcessing' = FALSE
  /\ UNCHANGED <<queue, entry, disturbances>>

\* Faulty: the flag is cleared after processOne() rather than in its finally.
IterationFailsHoldingFlag(l) ==
  /\ loops[l].at # "waiting"
  /\ Disturb
  /\ loops' = [loops EXCEPT ![l] = At("waiting")]
  /\ UNCHANGED <<queue, runs, entry, scheduledProcessing>>

\* A statement, process() or processOne() throws: the loop waits for the next poll and the row
\* for the end of its lease.
IterationFails(l) ==
  /\ loops[l].at # "waiting"
  /\ Disturb
  /\ loops' = [loops EXCEPT ![l] = At("waiting")]
  /\ scheduledProcessing' =
       IF loops[l].at \in {"scheduled", "asking"} THEN FALSE ELSE scheduledProcessing
  /\ UNCHANGED <<queue, runs, entry>>

-------------------------------------------------------------------------------
\* Leases and crashes.

WorksOn(kind, id, claim) == \E l \in Loops : loops[l] = [at |-> kind, id |-> id, claim |-> claim]

\* recoverExpiredLeases of the event store: next_attempt_at becomes now().
RecoverEvent(e) ==
  /\ rows[e].status = "processing"
  /\ IF WorksOn("message", e, rows[e].attempts) THEN Disturb ELSE UNCHANGED disturbances
  /\ rows' = LeaseRecovered(e)
  /\ backoff' = backoff \ {e}
  /\ UNCHANGED <<accepted, runs, entry, coordinator>>

\* recoverExpired of the run store: an expired run is not tried again.
RecoverRun(r) ==
  /\ runs[r] = "processing"
  /\ IF WorksOn("scheduled", r, 1) THEN Disturb ELSE UNCHANGED disturbances
  /\ runs' = [runs EXCEPT ![r] = "failed"]
  /\ UNCHANGED <<queue, entry, coordinator>>

\* The process stops at any point and starts again; open transactions roll back and
\* Feishu is not told that the event was taken.
Crash ==
  /\ Disturb
  /\ opened' = {}
  /\ loops' = [l \in Loops |-> At("ready")]
  /\ scheduledProcessing' = FALSE
  /\ UNCHANGED <<queue, runs, deliveries>>

-------------------------------------------------------------------------------

Loop(l) ==
  \/ AdmitMessage(l) \/ NoMessage(l) \/ AdmitRun(l) \/ NoRun(l) \/ Wake(l)
  \/ MessageSettles(l) \/ RunSettles(l)

Next ==
  \/ \E e \in Events : OpenEnqueue(e) \/ BackoffEnds(e) \/ RecoverEvent(e)
  \/ \E t \in opened : CommitEnqueue(t)
  \/ \E r \in Runs : CreateRun(r) \/ RecoverRun(r)
  \/ \E l \in Loops : Loop(l) \/ MessageRetries(l) \/ IterationFails(l)
  \/ Crash

Spec == Init /\ [][Next]_vars

\* Loops run, timers fire and work ends; expired leases are recovered when nobody
\* works under them.
Fairness ==
  /\ \A l \in Loops : WF_vars(Loop(l))
  /\ \A e \in Events :
       /\ WF_vars(BackoffEnds(e))
       /\ WF_vars(RecoverEvent(e) /\ ~WorksOn("message", e, rows[e].attempts))
  /\ \A r \in Runs : WF_vars(RecoverRun(r) /\ ~WorksOn("scheduled", r, 1))

FairSpec == Spec /\ Fairness

-------------------------------------------------------------------------------
(***************************************************************************)
(* Properties.                                                             *)
(***************************************************************************)

\* Messages and scheduled runs together never hold more than the slots, whatever
\* loop, retry or recovery interleaves with the two claims.
WithinCapacity ==
  Cardinality(Processing) + Cardinality(ProcessingRuns) <= AdmissionSlots

\* A chat never has an event and a scheduled run in processing at the same time,
\* and there is never more than one scheduled run in processing.
ChatHasOneInvocation ==
  /\ \A e \in Processing : ConversationKey[e] \notin BusyChats
  /\ Cardinality(ProcessingRuns) <= 1

\* The invocations of one conversation are serialized.
SerializedConversation ==
  \A e, f \in Processing : ConversationKey[e] = ConversationKey[f] => e = f

AcceptedBefore(f, e) ==
  \E i, j \in DOMAIN accepted : i < j /\ accepted[i] = f /\ accepted[j] = e

\* A conversation is worked off in the order its events were accepted: an event is
\* claimed, for the first time or again, only when all before it are settled.
InAcceptedOrder ==
  [][\A e, f \in Events :
       /\ rows[e].status = "queued" /\ rows'[e].status = "processing"
       /\ ConversationKey[f] = ConversationKey[e] /\ AcceptedBefore(f, e)
       => rows[f].status \in Terminal]_vars

\* No loop, flag or lease gets stuck: an accepted event is settled and a queued
\* scheduled run is admitted in the end.
EverythingAdmitted ==
  /\ \A e \in Events : rows[e].status = "queued" ~> rows[e].status \in Terminal
  /\ \A r \in Runs : runs[r] = "queued" ~> runs[r] \in {"finished", "failed"}
===============================================================================
