--------------------------- MODULE AdmissionProofs ----------------------------
(***************************************************************************)
(* Proofs about Admission.  Whatever the loops, retries, recoveries and    *)
(* crashes do, only the two claims add work: lemma WorkStarts says what a  *)
(* step may add to the events and runs in processing, and under which      *)
(* guard.  The capacity of the process, the exclusion of a chat's          *)
(* invocations and, with one enqueue transaction at a time, the order of   *)
(* a conversation follow from it.                                          *)
(***************************************************************************)
EXTENDS Admission, FiniteSetTheorems, TLAPS

\* A loop at work on a message names an event.
LoopsNameEvents == \A l \in Loops : loops[l].at = "message" => loops[l].id \in Events

Base == TypeOK /\ LoopsNameEvents

\* A conversation's rows keep the order of acceptance, as long as one enqueue is open
\* at a time: received_at grows along accepted, and the next row will be later still.
OneOpen == \A t, u \in opened : t = u
StampsAhead ==
  \A t \in opened :
    /\ t.stamp <= deliveries
    /\ \A i \in DOMAIN accepted : rows[accepted[i]].receivedAt < t.stamp
AcceptedExactly ==
  \A e \in Events : rows[e].status # "absent" <=> \E i \in DOMAIN accepted : accepted[i] = e
AcceptedByStamp ==
  /\ \A i \in DOMAIN accepted : rows[accepted[i]].receivedAt <= deliveries
  /\ \A i, j \in DOMAIN accepted :
       i < j => rows[accepted[i]].receivedAt < rows[accepted[j]].receivedAt

\* Before an event in processing, nothing of its conversation is left unsettled.
EarlierSettled ==
  \A e \in Processing, f \in Events :
     ConversationKey[f] = ConversationKey[e] /\ AcceptedBefore(f, e)
       => rows[f].status \in Terminal

OrderInv ==
  OneOpen /\ StampsAhead /\ AcceptedExactly /\ AcceptedByStamp /\ EarlierSettled

-------------------------------------------------------------------------------
(***************************************************************************)
(* What each statement does to the table: to the columns of its own row    *)
(* that the order of a conversation depends on, and to no other row.       *)
(***************************************************************************)

RowSet(new, e, status, receivedAt) ==
  /\ new \in [Events -> Row]
  /\ new[e].status = status
  /\ new[e].receivedAt = receivedAt
  /\ \A f \in Events : f # e => new[f] = rows[f]

\* An insert queues the row with its stamp, and only where there was none.
LEMMA InsertedRow ==
  ASSUME rows \in [Events -> Row], NEW e \in Events, NEW stamp \in Nat, rows[e].status = "absent"
  PROVE  RowSet(Inserted(e, stamp), e, "queued", stamp)
<1> DEFINE r == [AbsentRow EXCEPT !.status = "queued", !.receivedAt = stamp]
<1>1. r \in Row /\ r.status = "queued" /\ r.receivedAt = stamp
  BY DEF AbsentRow, Row, Statuses, Outcomes
<1>2. Inserted(e, stamp) = [rows EXCEPT ![e] = r]
  BY DEF Inserted
<1> HIDE DEF r
<1> QED BY <1>1, <1>2 DEF RowSet

\* A claim moves the row to processing and keeps its stamp.
LEMMA ClaimedRow ==
  ASSUME rows \in [Events -> Row], NEW e \in Events
  PROVE  RowSet(Claimed(e), e, "processing", rows[e].receivedAt)
<1> DEFINE r == [rows[e] EXCEPT !.status = "processing", !.attempts = rows[e].attempts + 1]
<1>1. rows[e] \in Row /\ rows[e].attempts + 1 \in Nat
  BY DEF Row
<1>2. r \in Row /\ r.status = "processing" /\ r.receivedAt = rows[e].receivedAt
  BY <1>1 DEF Row, Statuses
<1>3. Claimed(e) = [rows EXCEPT ![e] = r]
  BY DEF Claimed
<1> HIDE DEF r
<1> QED BY <1>2, <1>3 DEF RowSet

\* Completion, retry and recovery keep the stamp too.
LEMMA SettledRow ==
  ASSUME rows \in [Events -> Row], NEW e \in Events
  PROVE  /\ RowSet(Completed(e, "replied"), e, "completed", rows[e].receivedAt)
         /\ RowSet(Retried(e), e, "queued", rows[e].receivedAt)
         /\ RowSet(LeaseRecovered(e), e, "queued", rows[e].receivedAt)
<1> DEFINE r == [rows[e] EXCEPT !.status = "completed", !.outcome = "replied", !.reaction = FALSE]
           q == [rows[e] EXCEPT !.status = "queued"]
<1>1. rows[e] \in Row
  OBVIOUS
<1>2. /\ r \in Row /\ r.status = "completed" /\ r.receivedAt = rows[e].receivedAt
      /\ q \in Row /\ q.status = "queued" /\ q.receivedAt = rows[e].receivedAt
  BY <1>1 DEF Row, Statuses, Outcomes
<1>3. /\ Completed(e, "replied") = [rows EXCEPT ![e] = r]
      /\ Retried(e) = [rows EXCEPT ![e] = q]
      /\ LeaseRecovered(e) = [rows EXCEPT ![e] = q]
  BY DEF Completed, Retried, LeaseRecovered
<1> HIDE DEF r, q
<1> QED BY <1>2, <1>3 DEF RowSet

-------------------------------------------------------------------------------
(***************************************************************************)
(* What a step does to the rows, the runs and the sets of work under way.  *)
(***************************************************************************)

\* The life of an accepted row, as far as its status goes; the other rows stay.
RowMoves(e) ==
  /\ \/ rows[e].status = "queued" /\ rows'[e].status = "processing"
     \/ rows[e].status = "processing" /\ rows'[e].status \in {"queued", "completed"}
  /\ rows'[e].receivedAt = rows[e].receivedAt
  /\ \A f \in Events : f # e => rows'[f] = rows[f]

\* A step that accepts nothing: no delivery begins, none is committed.
NothingArrives ==
  /\ accepted' = accepted /\ deliveries' = deliveries /\ opened' \subseteq opened
  /\ rows' = rows \/ \E e \in Events : RowMoves(e)
Arrives == (\E e \in Events : OpenEnqueue(e)) \/ (\E t \in opened : CommitEnqueue(t))

\* No step adds to the work under way, except the two claims.
NothingStarts ==
  /\ \A e \in Events : rows'[e].status = "processing" => rows[e].status = "processing"
  /\ \A r \in Runs : runs'[r] = "processing" => runs[r] = "processing"
MessageStarts ==
  /\ \E e \in NextEvents : rows' = Claimed(e)
  /\ runs' = runs
RunStarts ==
  /\ \E r \in NextRuns : runs' = [runs EXCEPT ![r] = "processing"]
  /\ rows' = rows

\* Every step keeps the types, moves at most one accepted row along its life, and starts
\* work through one of the two claims only.
LEMMA Step ==
  ASSUME Base, [Next]_vars
  PROVE  /\ Base'
         /\ NothingArrives \/ Arrives
         /\ NothingStarts \/ MessageStarts \/ RunStarts
<1> DEFINE Goal ==
             /\ Base'
             /\ NothingArrives \/ Arrives
             /\ NothingStarts \/ MessageStarts \/ RunStarts
           LoopState == [at: {"ready", "asking", "waiting"} \cup Working, id: Nat, claim: Nat]
<1>t. /\ rows \in [Events -> Row] /\ backoff \subseteq Events /\ runs \in [Runs -> RunStatuses]
      /\ opened \subseteq [event: Events, stamp: 1 .. MaxDeliveries]
      /\ deliveries \in 0 .. MaxDeliveries /\ accepted \in Seq(Events)
      /\ loops \in [Loops -> LoopState] /\ scheduledProcessing \in BOOLEAN
      /\ disturbances \in 0 .. MaxDisturbances /\ LoopsNameEvents
  BY DEF Base, TypeOK
<1>a. MaxDeliveries \in Nat /\ MaxDisturbances \in Nat /\ Events \subseteq Nat /\ Runs \subseteq Nat
  BY StoreAssumption, AdmissionAssumption DEF StoreAssumption, AdmissionAssumption
<1>b. ASSUME NEW where \in {"ready", "asking", "waiting"}
      PROVE  At(where) \in LoopState /\ At(where).at = where
  BY DEF At, Working
<1>i. ASSUME rows' \in [Events -> Row], backoff' \subseteq Events, runs' \in [Runs -> RunStatuses],
             opened' \subseteq [event: Events, stamp: 1 .. MaxDeliveries],
             deliveries' \in 0 .. MaxDeliveries, accepted' \in Seq(Events),
             loops' \in [Loops -> LoopState], scheduledProcessing' \in BOOLEAN,
             disturbances' \in 0 .. MaxDisturbances, LoopsNameEvents'
      PROVE  Base'
  BY <1>i DEF Base, TypeOK
<1>d. ASSUME Disturb PROVE disturbances' \in 0 .. MaxDisturbances
  BY <1>t, <1>a, <1>d DEF Disturb
<1>s. ASSUME NEW l \in Loops, NEW where \in {"ready", "asking", "waiting"},
             loops' = [loops EXCEPT ![l] = At(where)]
      PROVE  loops' \in [Loops -> LoopState] /\ LoopsNameEvents'
  <2>1. loops' \in [Loops -> LoopState]
    BY <1>t, <1>b, <1>s
  <2>2. \A k \in Loops : loops'[k] = IF k = l THEN At(where) ELSE loops[k]
    BY <1>t, <1>s
  <2>3. At(where).at # "message"
    BY <1>b
  <2> QED BY <1>t, <2>1, <2>2, <2>3 DEF LoopsNameEvents
<1>f. ASSUME NEW e \in Events, NEW status, NEW new, RowSet(new, e, status, rows[e].receivedAt),
             rows' = new
      PROVE  /\ rows' \in [Events -> Row]
             /\ rows'[e].status = status
             /\ rows'[e].receivedAt = rows[e].receivedAt
             /\ \A f \in Events : f # e => rows'[f] = rows[f]
  BY <1>f DEF RowSet
<1> HIDE DEF LoopState
<1>1. ASSUME NEW e \in Events, OpenEnqueue(e) PROVE Goal
  <2>1. opened' \subseteq [event: Events, stamp: 1 .. MaxDeliveries] /\ deliveries' \in 0 .. MaxDeliveries
    BY <1>t, <1>a, <1>1 DEF OpenEnqueue
  <2> QED BY <1>t, <1>i, <1>1, <2>1 DEF Arrives, OpenEnqueue, queue, coordinator, LoopsNameEvents, NothingStarts
<1>2. ASSUME NEW t \in opened, CommitEnqueue(t) PROVE Goal
  <2>1. t.event \in Events /\ t.stamp \in Nat
    BY <1>t, <1>a
  <2>2. opened' \subseteq [event: Events, stamp: 1 .. MaxDeliveries] /\ accepted' \in Seq(Events)
    BY <1>t, <1>2, <2>1 DEF CommitEnqueue
  <2>3. CASE rows[t.event].status = "absent"
    <3>1. RowSet(rows', t.event, "queued", t.stamp)
      BY <1>t, <1>2, <2>1, <2>3, InsertedRow DEF CommitEnqueue
    <3>2. rows' \in [Events -> Row]
      BY <3>1 DEF RowSet
    <3>3. NothingStarts
      BY <1>2, <2>1, <3>1 DEF RowSet, NothingStarts, CommitEnqueue
    <3> QED BY <1>t, <1>i, <1>2, <2>2, <3>2, <3>3 DEF Arrives, CommitEnqueue, coordinator, LoopsNameEvents
  <2>4. CASE rows[t.event].status # "absent"
    <3>1. rows' = rows
      BY <1>2, <2>4 DEF CommitEnqueue, Inserted
    <3> QED BY <1>t, <1>i, <1>2, <2>2, <3>1 DEF Arrives, CommitEnqueue, coordinator, LoopsNameEvents, NothingStarts
  <2> QED BY <2>3, <2>4
<1>3. ASSUME NEW r \in Runs, CreateRun(r) PROVE Goal
  <2>1. runs' \in [Runs -> RunStatuses] /\ NothingStarts
    BY <1>t, <1>3 DEF CreateRun, RunStatuses, NothingStarts, queue
  <2> QED BY <1>t, <1>i, <1>3, <2>1 DEF NothingArrives, CreateRun, queue, entry, coordinator, LoopsNameEvents
<1>4. ASSUME NEW e \in Events, BackoffEnds(e) PROVE Goal
  BY <1>t, <1>i, <1>4 DEF NothingArrives, BackoffEnds, entry, coordinator, LoopsNameEvents, NothingStarts, queue
<1>5. ASSUME NEW l \in Loops, AdmitMessage(l) PROVE Goal
  <2>1. PICK e \in NextEvents :
          /\ rows' = Claimed(e)
          /\ loops' = [loops EXCEPT ![l] = [at |-> "message", id |-> e, claim |-> rows[e].attempts + 1]]
    BY <1>5 DEF AdmitMessage
  <2>2. e \in Events /\ rows[e].status = "queued"
    BY DEF NextEvents, Candidates, Claimable
  <2>3. RowSet(rows', e, "processing", rows[e].receivedAt)
    BY <1>t, <2>1, <2>2, ClaimedRow
  <2>4. rows' \in [Events -> Row] /\ RowMoves(e)
    BY <2>2, <2>3 DEF RowSet, RowMoves
  <2>5. [at |-> "message", id |-> e, claim |-> rows[e].attempts + 1] \in LoopState
    BY <1>t, <1>a, <2>2 DEF LoopState, Row, Working
  <2>6. loops' \in [Loops -> LoopState] /\ LoopsNameEvents'
    BY <1>t, <2>1, <2>2, <2>5 DEF LoopsNameEvents
  <2>7. MessageStarts
    BY <1>5, <2>1 DEF MessageStarts, AdmitMessage
  <2>8. NothingArrives
    BY <1>5, <2>2, <2>4 DEF NothingArrives, AdmitMessage, entry
  <2> QED BY <1>t, <1>i, <1>5, <2>4, <2>6, <2>7, <2>8 DEF AdmitMessage, entry
<1>6. ASSUME NEW l \in Loops, NoMessage(l) PROVE Goal
  <2>1. loops' \in [Loops -> LoopState] /\ LoopsNameEvents'
    BY <1>t, <1>s, <1>6 DEF NoMessage
  <2> QED BY <1>t, <1>i, <1>6, <2>1 DEF NothingArrives, NoMessage, queue, entry, NothingStarts
<1>7. ASSUME NEW l \in Loops, AdmitRun(l) PROVE Goal
  <2>1. PICK r \in NextRuns :
          /\ runs' = [runs EXCEPT ![r] = "processing"]
          /\ loops' = [loops EXCEPT ![l] = [at |-> "scheduled", id |-> r, claim |-> 1]]
    BY <1>7 DEF AdmitRun
  <2>2. r \in Runs
    BY DEF NextRuns, RunCandidates
  <2>3. [at |-> "scheduled", id |-> r, claim |-> 1] \in LoopState
    BY <1>a, <2>2 DEF LoopState, Working
  <2>4. loops' \in [Loops -> LoopState] /\ LoopsNameEvents'
    BY <1>t, <2>1, <2>3 DEF LoopsNameEvents
  <2>5. RunStarts
    BY <1>7, <2>1 DEF RunStarts, AdmitRun, queue
  <2>6. runs' \in [Runs -> RunStatuses]
    BY <1>t, <2>1 DEF RunStatuses
  <2> QED BY <1>t, <1>i, <1>7, <2>4, <2>5, <2>6 DEF NothingArrives, AdmitRun, queue, entry
<1>8. ASSUME NEW l \in Loops, NoRun(l) PROVE Goal
  <2>1. loops' \in [Loops -> LoopState] /\ LoopsNameEvents'
    BY <1>t, <1>s, <1>8 DEF NoRun
  <2> QED BY <1>t, <1>i, <1>8, <2>1 DEF NothingArrives, NoRun, queue, entry, NothingStarts
<1>9. ASSUME NEW l \in Loops, Wake(l) PROVE Goal
  <2>1. loops' \in [Loops -> LoopState] /\ LoopsNameEvents'
    BY <1>t, <1>s, <1>9 DEF Wake
  <2> QED BY <1>t, <1>i, <1>9, <2>1 DEF NothingArrives, Wake, queue, entry, NothingStarts
<1>10. ASSUME NEW l \in Loops, MessageSettles(l) PROVE Goal
  <2> DEFINE e == loops[l].id
  <2>1. e \in Events
    BY <1>t, <1>10 DEF MessageSettles, LoopsNameEvents
  <2>2. loops' \in [Loops -> LoopState] /\ LoopsNameEvents'
    BY <1>t, <1>s, <1>10 DEF MessageSettles
  <2>3. rows' \in [Events -> Row] /\ (rows' = rows \/ RowMoves(e)) /\ NothingStarts
    <3>1. CASE Owns(e, loops[l].claim)
      <4>1. RowSet(rows', e, "completed", rows[e].receivedAt) /\ rows[e].status = "processing"
        BY <1>t, <1>10, <2>1, <3>1, SettledRow DEF MessageSettles, Owns
      <4> QED BY <1>10, <2>1, <4>1 DEF RowSet, RowMoves, NothingStarts, MessageSettles
    <3>2. CASE ~Owns(e, loops[l].claim)
      BY <1>t, <1>10, <3>2 DEF MessageSettles, NothingStarts
    <3> QED BY <3>1, <3>2
  <2>4. NothingArrives
    BY <1>10, <2>1, <2>3 DEF NothingArrives, MessageSettles, entry
  <2> HIDE DEF e
  <2> QED BY <1>t, <1>i, <1>10, <2>2, <2>3, <2>4 DEF MessageSettles, entry
<1>11. ASSUME NEW l \in Loops, MessageRetries(l) PROVE Goal
  <2> DEFINE e == loops[l].id
  <2>1. e \in Events
    BY <1>t, <1>11 DEF MessageRetries, LoopsNameEvents
  <2>2. loops' \in [Loops -> LoopState] /\ LoopsNameEvents'
    BY <1>t, <1>s, <1>11 DEF MessageRetries
  <2>3. RowSet(rows', e, "queued", rows[e].receivedAt) /\ rows[e].status = "processing"
    BY <1>t, <1>11, <2>1, SettledRow DEF MessageRetries, Owns
  <2>4. rows' \in [Events -> Row] /\ RowMoves(e) /\ NothingStarts
    BY <1>11, <2>1, <2>3 DEF RowSet, RowMoves, NothingStarts, MessageRetries
  <2> QED BY <1>t, <1>i, <1>d, <1>11, <2>1, <2>2, <2>4 DEF NothingArrives, MessageRetries, entry, queue
<1>12. ASSUME NEW l \in Loops, RunSettles(l) PROVE Goal
  <2>1. loops' \in [Loops -> LoopState] /\ LoopsNameEvents'
    BY <1>t, <1>s, <1>12 DEF RunSettles
  <2>2. runs' \in [Runs -> RunStatuses] /\ NothingStarts
    BY <1>t, <1>12 DEF RunSettles, RunStatuses, NothingStarts, queue
  <2> QED BY <1>t, <1>i, <1>12, <2>1, <2>2 DEF NothingArrives, RunSettles, queue, entry
<1>13. ASSUME NEW l \in Loops, IterationFails(l) PROVE Goal
  <2>1. loops' \in [Loops -> LoopState] /\ LoopsNameEvents'
    BY <1>t, <1>s, <1>13 DEF IterationFails
  <2> QED BY <1>t, <1>i, <1>d, <1>13, <2>1 DEF NothingArrives, IterationFails, queue, entry, NothingStarts
<1>14. ASSUME NEW e \in Events, RecoverEvent(e) PROVE Goal
  <2>1. RowSet(rows', e, "queued", rows[e].receivedAt) /\ rows[e].status = "processing"
    BY <1>t, <1>14, SettledRow DEF RecoverEvent
  <2>2. rows' \in [Events -> Row] /\ RowMoves(e) /\ NothingStarts
    BY <1>14, <2>1 DEF RowSet, RowMoves, NothingStarts, RecoverEvent
  <2>3. disturbances' \in 0 .. MaxDisturbances
    BY <1>t, <1>d, <1>14 DEF RecoverEvent
  <2> QED BY <1>t, <1>i, <1>14, <2>2, <2>3 DEF NothingArrives, RecoverEvent, entry, coordinator, LoopsNameEvents, queue
<1>15. ASSUME NEW r \in Runs, RecoverRun(r) PROVE Goal
  <2>1. runs' \in [Runs -> RunStatuses] /\ NothingStarts
    BY <1>t, <1>15 DEF RecoverRun, RunStatuses, NothingStarts, queue
  <2>2. disturbances' \in 0 .. MaxDisturbances
    BY <1>t, <1>d, <1>15 DEF RecoverRun
  <2> QED BY <1>t, <1>i, <1>15, <2>1, <2>2 DEF NothingArrives, RecoverRun, queue, entry, coordinator, LoopsNameEvents
<1>16. CASE Crash
  <2>1. loops' \in [Loops -> LoopState] /\ LoopsNameEvents'
    <3>1. At("ready") \in LoopState /\ At("ready").at # "message"
      BY DEF At, LoopState
    <3> QED BY <1>16, <3>1 DEF Crash, LoopsNameEvents
  <2> QED BY <1>t, <1>i, <1>d, <1>16, <2>1 DEF NothingArrives, Crash, queue, NothingStarts, entry
<1>17. CASE UNCHANGED vars
  BY <1>t, <1>i, <1>17 DEF NothingArrives, vars, queue, entry, coordinator, LoopsNameEvents, NothingStarts
<1>18. Goal
  BY <1>1, <1>2, <1>3, <1>4, <1>5, <1>6, <1>7, <1>8, <1>9, <1>10, <1>11, <1>12, <1>13,
     <1>14, <1>15, <1>16, <1>17 DEF Next, Loop
<1> QED BY <1>18

\* Nothing works at the start.
LEMMA Start ==
  ASSUME Init
  PROVE  Base /\ Processing = {} /\ ProcessingRuns = {} /\ accepted = <<>> /\ opened = {}
<1>1. AbsentRow \in Row /\ AbsentRow.status = "absent"
  BY DEF AbsentRow, Row, Statuses, Outcomes
<1>2. rows \in [Events -> Row] /\ \A e \in Events : rows[e].status = "absent"
  BY <1>1 DEF Init, InitStore
<1>3. At("ready") \in [at: {"ready", "asking", "waiting"} \cup Working, id: Nat, claim: Nat]
      /\ At("ready").at # "message"
  BY DEF At
<1>4. accepted \in Seq(Events) /\ deliveries \in 0 .. MaxDeliveries /\ disturbances \in 0 .. MaxDisturbances
  BY AdmissionAssumption DEF Init, AdmissionAssumption
<1>5. Base
  BY <1>2, <1>3, <1>4 DEF Base, TypeOK, Init, LoopsNameEvents, RunStatuses
<1> QED BY <1>2, <1>5 DEF Processing, ProcessingRuns, Init

\* What the two claims add to the sets of work, and what every other step leaves.
LEMMA WorkStarts ==
  ASSUME Base, [Next]_vars
  PROVE  \/ Processing' \subseteq Processing /\ ProcessingRuns' \subseteq ProcessingRuns
         \/ \E e \in NextEvents :
              Processing' = Processing \cup {e} /\ ProcessingRuns' = ProcessingRuns
         \/ \E r \in NextRuns :
              Processing' = Processing /\ ProcessingRuns' = ProcessingRuns \cup {r}
<1>1. CASE NothingStarts
  BY <1>1 DEF NothingStarts, Processing, ProcessingRuns
<1>2. CASE MessageStarts
  <2>1. PICK e \in NextEvents : rows' = Claimed(e)
    BY <1>2 DEF MessageStarts
  <2>2. e \in Events
    BY DEF NextEvents, Candidates
  <2>3. RowSet(rows', e, "processing", rows[e].receivedAt)
    BY <2>1, <2>2, ClaimedRow DEF Base, TypeOK
  <2>4. Processing' = Processing \cup {e} /\ ProcessingRuns' = ProcessingRuns
    BY <1>2, <2>2, <2>3 DEF RowSet, Processing, ProcessingRuns, MessageStarts
  <2> QED BY <2>4
<1>3. CASE RunStarts
  <2>1. PICK r \in NextRuns : runs' = [runs EXCEPT ![r] = "processing"]
    BY <1>3 DEF RunStarts
  <2>2. r \in Runs
    BY DEF NextRuns, RunCandidates
  <2>3. Processing' = Processing /\ ProcessingRuns' = ProcessingRuns \cup {r}
    BY <1>3, <2>1, <2>2 DEF RunStarts, Processing, ProcessingRuns, Base, TypeOK
  <2> QED BY <2>3
<1> QED BY <1>1, <1>2, <1>3, Step

\* The sets that are counted are finite.
LEMMA WorkIsFinite ==
  ASSUME NEW S \in SUBSET Events, NEW T \in SUBSET Runs
  PROVE  /\ IsFiniteSet(S) /\ Cardinality(S) \in Nat
         /\ IsFiniteSet(T) /\ Cardinality(T) \in Nat
<1>1. IsFiniteSet(Events) /\ IsFiniteSet(Runs)
  BY StoreAssumption, AdmissionAssumption DEF StoreAssumption, AdmissionAssumption
<1>2. IsFiniteSet(S) /\ IsFiniteSet(T)
  BY <1>1, FS_Subset
<1> QED BY <1>2, FS_CardinalityType

\* Both claims count what is in processing under the admission lock: a step adds one
\* piece of work, and only where a slot is free.
LEMMA StepKeepsCapacity ==
  ASSUME Base, WithinCapacity, [Next]_vars
  PROVE  WithinCapacity'
<1>1. /\ Processing \in SUBSET Events /\ Processing' \in SUBSET Events
      /\ ProcessingRuns \in SUBSET Runs /\ ProcessingRuns' \in SUBSET Runs
  BY DEF Processing, ProcessingRuns
<1> DEFINE P == Processing
           Q == Processing'
           R == ProcessingRuns
           S == ProcessingRuns'
<1>2. /\ IsFiniteSet(P) /\ IsFiniteSet(Q) /\ IsFiniteSet(R) /\ IsFiniteSet(S)
      /\ Cardinality(P) \in Nat /\ Cardinality(Q) \in Nat
      /\ Cardinality(R) \in Nat /\ Cardinality(S) \in Nat
  BY <1>1, WorkIsFinite
<1>3. AdmissionSlots \in Nat /\ Cardinality(P) + Cardinality(R) <= AdmissionSlots
  BY StoreAssumption DEF StoreAssumption, WithinCapacity
<1>4. \/ Q \subseteq P /\ S \subseteq R
      \/ \E e \in NextEvents : Q = P \cup {e} /\ S = R
      \/ \E r \in NextRuns : Q = P /\ S = R \cup {r}
  BY WorkStarts
<1>5. (NextEvents # {} \/ NextRuns # {}) => Cardinality(P) + Cardinality(R) < AdmissionSlots
  BY DEF NextEvents, Candidates, Claimable, NextRuns, RunCandidates
<1> HIDE DEF P, Q, R, S
<1>6. CASE Q \subseteq P /\ S \subseteq R
  <2>1. Cardinality(Q) <= Cardinality(P) /\ Cardinality(S) <= Cardinality(R)
    BY <1>2, <1>6, FS_Subset
  <2> QED BY <1>2, <1>3, <2>1 DEF Q, S, WithinCapacity
<1>7. ASSUME NEW e \in NextEvents, Q = P \cup {e}, S = R PROVE WithinCapacity'
  <2>1. Cardinality(Q) <= Cardinality(P) + 1
    BY <1>2, <1>7, FS_AddElement
  <2> QED BY <1>2, <1>3, <1>5, <1>7, <2>1 DEF Q, S, WithinCapacity
<1>8. ASSUME NEW r \in NextRuns, Q = P, S = R \cup {r} PROVE WithinCapacity'
  <2>1. Cardinality(S) <= Cardinality(R) + 1
    BY <1>2, <1>8, FS_AddElement
  <2> QED BY <1>2, <1>3, <1>5, <1>8, <2>1 DEF Q, S, WithinCapacity
<1> QED BY <1>4, <1>6, <1>7, <1>8

\* A message is claimed for a chat without a scheduled run, a run while there is none
\* and for a chat without a message in processing.
LEMMA StepKeepsChats ==
  ASSUME Base, ChatHasOneInvocation, [Next]_vars
  PROVE  ChatHasOneInvocation'
<1>1. /\ ProcessingRuns \in SUBSET Runs /\ ProcessingRuns' \in SUBSET Runs
      /\ IsFiniteSet(ProcessingRuns) /\ IsFiniteSet(ProcessingRuns')
      /\ Cardinality(ProcessingRuns) \in Nat /\ Cardinality(ProcessingRuns') \in Nat
  <2>1. ProcessingRuns \in SUBSET Runs /\ ProcessingRuns' \in SUBSET Runs
    BY DEF ProcessingRuns
  <2>2. {} \in SUBSET Events
    OBVIOUS
  <2> QED BY <2>1, <2>2, WorkIsFinite
<1>2. /\ \A e \in Processing : ConversationKey[e] \notin BusyChats
      /\ Cardinality(ProcessingRuns) <= 1
  BY DEF ChatHasOneInvocation
<1>3. CASE Processing' \subseteq Processing /\ ProcessingRuns' \subseteq ProcessingRuns
  <2>1. Cardinality(ProcessingRuns') <= Cardinality(ProcessingRuns)
    BY <1>1, <1>3, FS_Subset
  <2>2. BusyChats' \subseteq BusyChats
    BY <1>3 DEF BusyChats
  <2> QED BY <1>1, <1>2, <1>3, <2>1, <2>2 DEF ChatHasOneInvocation
<1>4. ASSUME NEW e \in NextEvents, Processing' = Processing \cup {e}, ProcessingRuns' = ProcessingRuns
      PROVE  ChatHasOneInvocation'
  <2>1. ConversationKey[e] \notin BusyChats
    BY DEF NextEvents, Candidates, Claimable
  <2>2. BusyChats' = BusyChats
    BY <1>4 DEF BusyChats
  <2> QED BY <1>2, <1>4, <2>1, <2>2 DEF ChatHasOneInvocation
<1>5. ASSUME NEW r \in NextRuns, Processing' = Processing, ProcessingRuns' = ProcessingRuns \cup {r}
      PROVE  ChatHasOneInvocation'
  <2>1. ProcessingRuns = {} /\ \A e \in Processing : ConversationKey[e] # ResultChat[r]
    BY DEF NextRuns, RunCandidates
  <2>2. ProcessingRuns' = {r}
    BY <1>5, <2>1
  <2>3. BusyChats' = {ResultChat[r]}
    BY <2>2 DEF BusyChats
  <2>4. Cardinality(ProcessingRuns') = 1
    BY <2>2, FS_Singleton
  <2> QED BY <1>5, <2>1, <2>3, <2>4 DEF ChatHasOneInvocation
<1> QED BY <1>3, <1>4, <1>5, WorkStarts

-------------------------------------------------------------------------------
(***************************************************************************)
(* The order of a conversation, with one enqueue transaction at a time.    *)
(***************************************************************************)

\* A step moves a row from queued to processing only by claimReady.
LEMMA QueuedIsClaimed ==
  ASSUME Base, [Next]_vars, NEW e \in Events,
         rows[e].status # "processing", rows'[e].status = "processing"
  PROVE  e \in NextEvents /\ NothingArrives
<1>1. ~NothingStarts /\ ~RunStarts
  BY DEF NothingStarts, RunStarts
<1>2. MessageStarts
  BY <1>1, Step
<1>3. PICK c \in NextEvents : rows' = Claimed(c)
  BY <1>2 DEF MessageStarts
<1>4. c \in Events /\ rows[c].status = "queued"
  BY DEF NextEvents, Candidates, Claimable
<1>5. RowSet(rows', c, "processing", rows[c].receivedAt)
  BY <1>3, <1>4, ClaimedRow DEF Base, TypeOK
<1>6. e = c
  BY <1>5 DEF RowSet
<1>7. ~(\E f \in Events : OpenEnqueue(f))
  BY <1>4, <1>5 DEF OpenEnqueue, queue, RowSet
<1>8. ~(\E t \in opened : CommitEnqueue(t))
  <2> SUFFICES ASSUME NEW t \in opened, CommitEnqueue(t) PROVE FALSE
    OBVIOUS
  <2>1. rows'[c] # [AbsentRow EXCEPT !.status = "queued", !.receivedAt = t.stamp] /\ rows'[c] # rows[c]
    <3>1. [AbsentRow EXCEPT !.status = "queued", !.receivedAt = t.stamp].status = "queued"
      BY DEF AbsentRow
    <3> QED BY <1>4, <1>5, <3>1 DEF RowSet
  <2>2. rows' = Inserted(t.event, t.stamp)
    BY DEF CommitEnqueue
  <2>3. rows \in [Events -> Row]
    BY DEF Base, TypeOK
  <2>4. rows'[c] = rows[c] \/ rows'[c] = [AbsentRow EXCEPT !.status = "queued", !.receivedAt = t.stamp]
    BY <1>4, <2>2, <2>3 DEF Inserted
  <2> QED BY <2>1, <2>4
<1> QED BY <1>3, <1>6, <1>7, <1>8, Step DEF Arrives

\* What a claim takes has nothing unsettled before it in its conversation.
LEMMA ClaimsInOrder ==
  ASSUME Base, OrderInv, NEW e \in NextEvents, NEW f \in Events,
         ConversationKey[f] = ConversationKey[e], AcceptedBefore(f, e)
  PROVE  rows[f].status \in Terminal
<1>1. PICK i, j \in DOMAIN accepted : i < j /\ accepted[i] = f /\ accepted[j] = e
  BY DEF AcceptedBefore
<1>2. rows[f].receivedAt < rows[e].receivedAt
  BY <1>1 DEF OrderInv, AcceptedByStamp
<1>3. e \in Events /\ HeadOfConversation(e)
  BY DEF NextEvents, Candidates, Claimable
<1>4. rows[e] \in Row /\ rows[f] \in Row
  BY <1>3 DEF Base, TypeOK
<1>5. Before(f, e) /\ f # e
  BY <1>2, <1>4 DEF Before, Row
<1>6. ~Active(f)
  BY <1>3, <1>5 DEF HeadOfConversation
<1>7. rows[f].status # "absent"
  BY <1>1 DEF OrderInv, AcceptedExactly
<1> QED BY <1>4, <1>6, <1>7 DEF Active, Row, Statuses, Terminal

\* A settled row stays settled; so does the order when nothing arrives.
LEMMA QuietStepKeepsOrder ==
  ASSUME Base, OrderInv, [Next]_vars, NothingArrives
  PROVE  OrderInv'
<1>1. /\ accepted' = accepted /\ deliveries' = deliveries /\ opened' \subseteq opened
      /\ \A e \in Events :
           /\ rows[e].status = "absent" <=> rows'[e].status = "absent"
           /\ rows'[e].receivedAt = rows[e].receivedAt
           /\ rows[e].status \in Terminal => rows'[e].status \in Terminal
  BY DEF NothingArrives, RowMoves, Terminal
<1>2. \A i \in DOMAIN accepted : accepted[i] \in Events
  BY DEF Base, TypeOK
<1>3. OneOpen' /\ StampsAhead' /\ AcceptedExactly' /\ AcceptedByStamp'
  BY <1>1, <1>2 DEF OrderInv, OneOpen, StampsAhead, AcceptedExactly, AcceptedByStamp
<1>4. ASSUME NEW e \in Processing', NEW f \in Events,
             ConversationKey[f] = ConversationKey[e], AcceptedBefore(f, e)'
      PROVE  rows'[f].status \in Terminal
  <2>1. e \in Events /\ rows'[e].status = "processing"
    BY DEF Processing
  <2>2. AcceptedBefore(f, e)
    BY <1>1, <1>4 DEF AcceptedBefore
  <2>3. CASE rows[e].status = "processing"
    BY <1>1, <1>4, <2>1, <2>2, <2>3 DEF OrderInv, EarlierSettled, Processing
  <2>4. CASE rows[e].status # "processing"
    BY <1>1, <1>4, <2>1, <2>2, <2>4, QueuedIsClaimed, ClaimsInOrder
  <2> QED BY <2>3, <2>4
<1> QED BY <1>3, <1>4 DEF OrderInv, EarlierSettled

\* The transaction that begins is the only one and later than every accepted row.
LEMMA OpenKeepsOrder ==
  ASSUME MaxOpenEnqueues = 1, Base, OrderInv, NEW e \in Events, OpenEnqueue(e)
  PROVE  OrderInv'
<1>1. /\ rows' = rows /\ accepted' = accepted /\ deliveries' = deliveries + 1
      /\ opened' = opened \cup {[event |-> e, stamp |-> deliveries + 1]}
      /\ Cardinality(opened) < 1
  BY DEF OpenEnqueue, queue
<1>2. opened = {}
  <2> SUFFICES ASSUME NEW t \in opened PROVE FALSE
    OBVIOUS
  <2>1. opened = {t}
    BY DEF OrderInv, OneOpen
  <2>2. Cardinality({t}) = 1
    BY FS_Singleton
  <2> QED BY <1>1, <2>1, <2>2
<1>3. deliveries \in Nat /\ \A i \in DOMAIN accepted : rows[accepted[i]].receivedAt \in Nat
  BY DEF Base, TypeOK, Row
<1>4. StampsAhead' /\ AcceptedByStamp'
  BY <1>1, <1>2, <1>3 DEF OrderInv, AcceptedByStamp, StampsAhead
<1> QED BY <1>1, <1>2, <1>4 DEF OrderInv, OneOpen, AcceptedExactly, EarlierSettled, Processing, AcceptedBefore

\* The row that is inserted comes last and has the latest stamp.
LEMMA CommitKeepsOrder ==
  ASSUME Base, OrderInv, NEW t \in opened, CommitEnqueue(t)
  PROVE  OrderInv'
<1>1. /\ t.event \in Events /\ t.stamp \in Nat /\ deliveries \in Nat /\ accepted \in Seq(Events)
      /\ rows \in [Events -> Row]
  BY AdmissionAssumption DEF Base, TypeOK, AdmissionAssumption
<1>2. opened' = opened \ {t} /\ deliveries' = deliveries /\ opened' = {}
  BY DEF CommitEnqueue, OrderInv, OneOpen
<1>3. OneOpen' /\ StampsAhead'
  BY <1>2 DEF OneOpen, StampsAhead
<1>4. CASE rows[t.event].status # "absent"
  <2>1. rows' = rows /\ accepted' = accepted
    BY <1>4 DEF CommitEnqueue, Inserted
  <2> QED BY <1>2, <1>3, <2>1 DEF OrderInv, AcceptedExactly, AcceptedByStamp, EarlierSettled, Processing, AcceptedBefore
<1>5. CASE rows[t.event].status = "absent"
  <2> DEFINE x == t.event
             n == Len(accepted)
  <2>1. RowSet(rows', x, "queued", t.stamp)
    BY <1>1, <1>5, InsertedRow DEF CommitEnqueue
  <2>2. accepted' = Append(accepted, x)
    BY <1>5 DEF CommitEnqueue
  <2>3. /\ n \in Nat /\ DOMAIN accepted = 1 .. n /\ DOMAIN accepted' = 1 .. (n + 1)
        /\ accepted'[n + 1] = x
        /\ \A i \in 1 .. n : accepted'[i] = accepted[i] /\ accepted[i] \in Events /\ accepted[i] # x
    <3>1. \A i \in DOMAIN accepted : accepted[i] \in Events /\ rows[accepted[i]].status # "absent"
      BY <1>1 DEF OrderInv, AcceptedExactly
    <3> QED BY <1>1, <1>5, <2>2, <3>1
  <2>4. rows'[x].status = "queued" /\ rows'[x].receivedAt = t.stamp
        /\ \A f \in Events : f # x => rows'[f] = rows[f]
    BY <2>1 DEF RowSet
  <2> HIDE DEF x, n
  <2>5. x \in Events
    BY <1>1 DEF x
  <2>6. AcceptedExactly'
    <3>1. \A e \in Events : rows[e].status # "absent" <=> \E i \in DOMAIN accepted : accepted[i] = e
      BY DEF OrderInv, AcceptedExactly
    <3>2. ASSUME NEW e \in Events, e # x
          PROVE  (\E i \in DOMAIN accepted' : accepted'[i] = e) <=> (\E i \in DOMAIN accepted : accepted[i] = e)
      <4>1. \A i \in DOMAIN accepted' : accepted'[i] = e => i \in DOMAIN accepted /\ accepted[i] = e
        <5> SUFFICES ASSUME NEW i \in 1 .. (n + 1), accepted'[i] = e PROVE i \in 1 .. n /\ accepted[i] = e
          BY <2>3
        <5>1. i # n + 1
          BY <2>3, <3>2
        <5> QED BY <2>3, <5>1
      <4>2. \A i \in DOMAIN accepted : accepted[i] = e => i \in DOMAIN accepted' /\ accepted'[i] = e
        BY <2>3
      <4> QED BY <4>1, <4>2
    <3>3. n + 1 \in DOMAIN accepted' /\ accepted'[n + 1] = x /\ rows'[x].status # "absent"
      BY <2>3, <2>4
    <3>4. ASSUME NEW e \in Events
          PROVE  rows'[e].status # "absent" <=> \E i \in DOMAIN accepted' : accepted'[i] = e
      <4>1. CASE e = x
        BY <3>3, <4>1
      <4>2. CASE e # x
        BY <2>4, <3>1, <3>2, <4>2
      <4> QED BY <4>1, <4>2
    <3> QED BY <3>4 DEF AcceptedExactly
  <2>7. AcceptedByStamp'
    <3>1. /\ \A i \in 1 .. n : rows[accepted[i]].receivedAt < t.stamp /\ rows[accepted[i]].receivedAt <= deliveries
          /\ \A i, j \in 1 .. n : i < j => rows[accepted[i]].receivedAt < rows[accepted[j]].receivedAt
          /\ t.stamp <= deliveries
      BY <2>3 DEF OrderInv, StampsAhead, AcceptedByStamp
    <3>2. \A i \in 1 .. n : rows'[accepted'[i]].receivedAt = rows[accepted[i]].receivedAt
      BY <2>3, <2>4
    <3>3. rows'[accepted'[n + 1]].receivedAt = t.stamp
      BY <2>3, <2>4
    <3>4. \A i \in 1 .. (n + 1) : i \in 1 .. n \/ i = n + 1
      BY <2>3
    <3>5. ASSUME NEW i \in 1 .. (n + 1) PROVE rows'[accepted'[i]].receivedAt <= deliveries'
      BY <1>2, <3>1, <3>2, <3>3, <3>4
    <3>6. ASSUME NEW i \in 1 .. (n + 1), NEW j \in 1 .. (n + 1), i < j
          PROVE  rows'[accepted'[i]].receivedAt < rows'[accepted'[j]].receivedAt
      <4>1. i \in 1 .. n
        BY <2>3, <3>6
      <4> QED BY <3>1, <3>2, <3>3, <3>4, <3>6, <4>1
    <3> QED BY <2>3, <3>5, <3>6 DEF AcceptedByStamp
  <2>8. EarlierSettled'
    <3> SUFFICES ASSUME NEW e \in Processing', NEW f \in Events,
                        ConversationKey[f] = ConversationKey[e], AcceptedBefore(f, e)'
                 PROVE  rows'[f].status \in Terminal
      BY DEF EarlierSettled
    <3>1. e \in Events /\ e # x /\ e \in Processing
      BY <2>4 DEF Processing
    <3>2. PICK i, j \in 1 .. (n + 1) : i < j /\ accepted'[i] = f /\ accepted'[j] = e
      BY <2>3 DEF AcceptedBefore
    <3>3. i \in 1 .. n /\ j \in 1 .. n
      <4>1. j # n + 1
        BY <2>3, <3>1, <3>2
      <4> QED BY <2>3, <3>2, <4>1
    <3>4. AcceptedBefore(f, e) /\ f # x
      BY <2>3, <3>2, <3>3 DEF AcceptedBefore
    <3>5. rows[f].status \in Terminal
      BY <3>1, <3>4 DEF OrderInv, EarlierSettled
    <3> QED BY <2>4, <3>4, <3>5
  <2> QED BY <1>3, <2>6, <2>7, <2>8 DEF OrderInv
<1> QED BY <1>4, <1>5

\* So every step keeps the order, when enqueue transactions do not overlap.
LEMMA StepKeepsOrder ==
  ASSUME MaxOpenEnqueues = 1, Base, OrderInv, [Next]_vars
  PROVE  OrderInv'
  BY Step, QuietStepKeepsOrder, OpenKeepsOrder, CommitKeepsOrder DEF Arrives

\* The empty queue is in order, and nothing is in processing.
LEMMA StartInOrder ==
  ASSUME Init
  PROVE  OrderInv /\ WithinCapacity /\ ChatHasOneInvocation
<1>1. /\ Processing = {} /\ ProcessingRuns = {} /\ accepted = <<>> /\ opened = {}
      /\ \A e \in Events : rows[e].status = "absent"
  BY Start DEF Init, InitStore, AbsentRow
<1>2. OrderInv
  BY <1>1 DEF OrderInv, OneOpen, StampsAhead, AcceptedExactly, AcceptedByStamp, EarlierSettled
<1>3. WithinCapacity /\ ChatHasOneInvocation
  BY <1>1, FS_EmptySet, StoreAssumption
     DEF WithinCapacity, ChatHasOneInvocation, StoreAssumption
<1> QED BY <1>2, <1>3

-------------------------------------------------------------------------------
(***************************************************************************)
(* The theorems.                                                           *)
(***************************************************************************)

\* Every reachable state is well typed, and a loop at work on a message names an event.
THEOREM Invariance == Spec => []Base
<1>1. Init => Base
  BY Start
<1>2. Base /\ [Next]_vars => Base'
  BY Step
<1> QED BY <1>1, <1>2, PTL DEF Spec

\* Messages and scheduled runs together never hold more than the admission slots
\* (claimReady and claimNext count both under one advisory lock).
THEOREM CapacityHolds == Spec => []WithinCapacity
<1>1. Init => WithinCapacity
  BY StartInOrder
<1>2. Base /\ WithinCapacity /\ [Next]_vars => WithinCapacity'
  BY StepKeepsCapacity
<1> QED BY <1>1, <1>2, Invariance, PTL DEF Spec

\* A chat never has a message and a scheduled run in processing together, and at most
\* one scheduled run is in processing at all.
THEOREM ChatsAreExclusive == Spec => []ChatHasOneInvocation
<1>1. Init => ChatHasOneInvocation
  BY StartInOrder
<1>2. Base /\ ChatHasOneInvocation /\ [Next]_vars => ChatHasOneInvocation'
  BY StepKeepsChats
<1> QED BY <1>1, <1>2, Invariance, PTL DEF Spec

\* With one enqueue transaction at a time, received_at follows the order of acceptance,
\* and before an event in processing everything of its conversation is settled.
THEOREM OrderIsKept ==
  ASSUME MaxOpenEnqueues = 1
  PROVE  Spec => []OrderInv
<1>1. Init => OrderInv
  BY StartInOrder
<1>2. Base /\ OrderInv /\ [Next]_vars => OrderInv'
  BY StepKeepsOrder
<1> QED BY <1>1, <1>2, Invariance, PTL DEF Spec

\* A conversation is worked off in the order its events were accepted: claimReady
\* takes an event only when all accepted before it are settled, on a retry too.
THEOREM ConversationInOrder ==
  ASSUME MaxOpenEnqueues = 1
  PROVE  Spec => InAcceptedOrder
<1> DEFINE A == \A e, f \in Events :
                  /\ rows[e].status = "queued" /\ rows'[e].status = "processing"
                  /\ ConversationKey[f] = ConversationKey[e] /\ AcceptedBefore(f, e)
                  => rows[f].status \in Terminal
<1>1. Base /\ OrderInv /\ [Next]_vars => [A]_vars
  BY QueuedIsClaimed, ClaimsInOrder
<1>2. InAcceptedOrder <=> [][A]_vars
  BY DEF InAcceptedOrder
<1> HIDE DEF A
<1> QED BY <1>1, <1>2, Invariance, OrderIsKept, PTL DEF Spec

\* Two events of one conversation are never in processing together: the race of two
\* overlapping enqueue transactions is the only way to it.
THEOREM ConversationIsSerialized ==
  ASSUME MaxOpenEnqueues = 1
  PROVE  Spec => []SerializedConversation
<1>1. Base /\ OrderInv => SerializedConversation
  <2> SUFFICES ASSUME Base, OrderInv, NEW e \in Processing, NEW f \in Processing,
                      ConversationKey[e] = ConversationKey[f], e # f
               PROVE  FALSE
    BY DEF SerializedConversation
  <2>1. /\ e \in Events /\ rows[e].status = "processing"
        /\ f \in Events /\ rows[f].status = "processing"
    BY DEF Processing
  <2>2. PICK i, j \in DOMAIN accepted : accepted[i] = e /\ accepted[j] = f
    BY <2>1 DEF OrderInv, AcceptedExactly
  <2>3. i < j \/ j < i
    BY <2>2 DEF Base, TypeOK
  <2>4. AcceptedBefore(e, f) \/ AcceptedBefore(f, e)
    BY <2>2, <2>3 DEF AcceptedBefore
  <2>5. rows[e].status \in Terminal \/ rows[f].status \in Terminal
    BY <2>1, <2>4 DEF OrderInv, EarlierSettled
  <2> QED BY <2>1, <2>5 DEF Terminal
<1> QED BY <1>1, Invariance, OrderIsKept, PTL
===============================================================================
