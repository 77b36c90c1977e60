------------------------- MODULE MessageWorkerProofs --------------------------
(***************************************************************************)
(* Proofs about MessageWorker for every set of events, every admission and *)
(* attempt limit and every number of faults.                               *)
(***************************************************************************)
EXTENDS MessageWorker, TLAPS

-------------------------------------------------------------------------------
(***************************************************************************)
(* The inductive invariant, in the parts the theorems need.                *)
(***************************************************************************)

\* Every claim but the first is paid for by a fault.
Budget ==
  \A e \in Events :
    /\ rows[e].attempts <= faults + 1
    /\ rows[e].status \in {"absent", "queued"} => rows[e].attempts <= faults
    /\ rows[e].status = "processing" =>
         /\ rows[e].attempts >= 1
         /\ pc[e][rows[e].attempts] \in Stopped \cup {"retry"} => rows[e].attempts <= faults

\* A claim that was not handed out yet has left no trace.
Fresh ==
  \A e \in Events, c \in Claims :
    c > rows[e].attempts => pc[e][c] = "none" /\ flight[e][c] = "none" /\ c \notin writers[e]

\* Nothing is recorded for an event that was not accepted yet.
Unaccepted ==
  \A e \in Events : rows[e].status = "absent" =>
    /\ rows[e].attempts = 0
    /\ ~rows[e].writeStarted
    /\ rows[e].reply = NoReply
    /\ rows[e].outcome = "none"

Base == TypeOK /\ Budget /\ Fresh /\ Unaccepted

Began(e, c) == c \in writers[e] \/ pc[e][c] = "writing"

\* A write that began is on the row, every later claim saw it there, and an
\* execution that saw a write never writes.
WriteFence ==
  /\ \A e \in Events, c \in Claims :
       /\ Began(e, c) => rows[e].writeStarted
       /\ Began(e, c) \/ pc[e][c] = "agent" => ~sawWrite[e][c]
  /\ \A e \in Events, c, d \in Claims :
       Began(e, c) /\ c < d /\ d <= rows[e].attempts => sawWrite[e][d]

\* An execution that may send holds the reply of the row; the owner of the row that
\* still has to prepare one finds none on it.
ReplyFence ==
  \A e \in Events, c \in Claims :
    /\ pc[e][c] \in {"marked", "resend", "sending", "replied"} \/ flight[e][c] # "none" =>
         prepared[e][c] = rows[e].reply /\ rows[e].reply # NoReply
    /\ pc[e][c] \in {"claimed", "conversation"} =>
         /\ prepared[e][c] # NoReply => prepared[e][c] = rows[e].reply
         /\ c = rows[e].attempts => prepared[e][c] = rows[e].reply
    /\ pc[e][c] \in {"agent", "writing", "load_writes"} => prepared[e][c] = NoReply
    /\ pc[e][c] = "mark_reply" => prepared[e][c] # NoReply
    /\ pc[e][c] \in {"agent", "writing", "load_writes", "mark_reply"} /\ c = rows[e].attempts =>
         rows[e].reply = NoReply

\* Once the window is over nobody is between the check of the window and the send.
WindowFence ==
  \A e \in Events :
    /\ posts[e] <= 1
    /\ ~windowOpen[e] =>
         /\ rows[e].reply # NoReply
         /\ \A c \in Claims :
              /\ flight[e][c] # "in_flight"
              /\ pc[e][c] \notin {"marked", "resend"}
              /\ ~(pc[e][c] = "conversation" /\ prepared[e][c] # NoReply)

\* What an execution knows about its reply is true in the chat.
Visibility ==
  \A e \in Events :
    /\ posts[e] > 0 => rows[e].reply # NoReply
    /\ rows[e].outcome = "replied" => posts[e] > 0
    /\ \A c \in Claims :
         flight[e][c] = "landed" \/ pc[e][c] = "replied" => posts[e] > 0

Fences == WriteFence /\ ReplyFence /\ Visibility /\ (PromptSends => WindowFence)

-------------------------------------------------------------------------------

\* Claims are numbered from one, up to one more than the faults.
LEMMA ClaimsAreNaturals == Claims \subseteq Nat /\ \A c \in Claims : c >= 1 /\ c <= MaxFaults + 1
  BY WorkerAssumption DEF Claims, WorkerAssumption

(***************************************************************************)
(* What each statement does to the table: to the columns of its own row    *)
(* that the invariant mentions, and to no other row.                       *)
(***************************************************************************)

RowSet(new, e, status, attempts, writeStarted, reply, outcome) ==
  /\ new \in [Events -> Row]
  /\ new[e].status = status
  /\ new[e].attempts = attempts
  /\ new[e].writeStarted = writeStarted
  /\ new[e].reply = reply
  /\ new[e].outcome = outcome
  /\ \A f \in Events : f # e => new[f] = rows[f]

\* enqueue: a queued row without attempts.
LEMMA InsertedRow ==
  ASSUME rows \in [Events -> Row], NEW e \in Events, NEW stamp \in Stamps, rows[e].status = "absent"
  PROVE  RowSet(Inserted(e, stamp), e, "queued", 0, FALSE, NoReply, "none")
  BY StoreAssumption DEF Inserted, AbsentRow, RowSet, Row, Statuses, Outcomes, StoreAssumption

\* claimReady: processing, one attempt more.
LEMMA ClaimedRow ==
  ASSUME rows \in [Events -> Row], NEW e \in Events
  PROVE  RowSet(Claimed(e), e, "processing", rows[e].attempts + 1, rows[e].writeStarted, rows[e].reply, rows[e].outcome)
<1> DEFINE r == [rows[e] EXCEPT !.status = "processing", !.attempts = rows[e].attempts + 1]
<1>1. rows[e] \in Row /\ rows[e].attempts + 1 \in Nat
  BY DEF Row
<1>2. /\ r \in Row
      /\ r.status = "processing" /\ r.attempts = rows[e].attempts + 1
      /\ r.writeStarted = rows[e].writeStarted /\ r.reply = rows[e].reply
      /\ r.outcome = rows[e].outcome
  BY <1>1 DEF Row, Statuses
<1>3. Claimed(e) = [rows EXCEPT ![e] = r]
  BY DEF Claimed
<1> HIDE DEF r
<1> QED BY <1>2, <1>3 DEF RowSet

\* complete: the outcome is on the row.
LEMMA CompletedRow ==
  ASSUME rows \in [Events -> Row], NEW e \in Events, NEW outcome \in Outcomes
  PROVE  RowSet(Completed(e, outcome), e, "completed", rows[e].attempts, rows[e].writeStarted, rows[e].reply, outcome)
  BY StoreAssumption DEF Completed, RowSet, Row, Statuses, Outcomes, StoreAssumption

\* markReplyUncertain: failed, with an outcome of its own.
LEMMA ReplyUncertainRow ==
  ASSUME rows \in [Events -> Row], NEW e \in Events
  PROVE  RowSet(ReplyUncertain(e), e, "failed", rows[e].attempts, rows[e].writeStarted, rows[e].reply, "uncertain")
  BY StoreAssumption DEF ReplyUncertain, RowSet, Row, Statuses, Outcomes, StoreAssumption

\* markReplyStarted: the reply is on the row.
LEMMA ReplyStartedRow ==
  ASSUME rows \in [Events -> Row], NEW e \in Events, NEW reply \in Replies \cup {NoReply}
  PROVE  RowSet(ReplyStarted(e, reply), e, rows[e].status, rows[e].attempts, rows[e].writeStarted, reply, rows[e].outcome)
  BY StoreAssumption DEF ReplyStarted, RowSet, Row, Statuses, Outcomes, StoreAssumption

\* retry: queued again, the rest as it was.
LEMMA RetriedRow ==
  ASSUME rows \in [Events -> Row], NEW e \in Events
  PROVE  RowSet(Retried(e), e, "queued", rows[e].attempts, rows[e].writeStarted, rows[e].reply, rows[e].outcome)
  BY StoreAssumption DEF Retried, RowSet, Row, Statuses, Outcomes, StoreAssumption

\* beginWrite: the write is on the row.
LEMMA WriteStartedRow ==
  ASSUME rows \in [Events -> Row], NEW e \in Events
  PROVE  RowSet(WriteStarted(e), e, rows[e].status, rows[e].attempts, TRUE, rows[e].reply, rows[e].outcome)
  BY StoreAssumption DEF WriteStarted, RowSet, Row, Statuses, Outcomes, StoreAssumption

\* recoverExpiredLeases: queued again, the rest as it was.
LEMMA LeaseRecoveredRow ==
  ASSUME rows \in [Events -> Row], NEW e \in Events
  PROVE  RowSet(LeaseRecovered(e), e, "queued", rows[e].attempts, rows[e].writeStarted, rows[e].reply, rows[e].outcome)
  BY StoreAssumption DEF LeaseRecovered, RowSet, Row, Statuses, Outcomes, StoreAssumption

\* The start.
LEMMA BaseInit == Init => Base
  BY StoreAssumption, WorkerAssumption
  DEF Init, InitStore, AbsentRow, Base, TypeOK, Row, Statuses, Outcomes, Steps, Budget, Fresh,
      Unaccepted, NoReply, Claims, StoreAssumption, WorkerAssumption

(***************************************************************************)
(* The base of the invariant: types, claims and what is not accepted yet.  *)
(***************************************************************************)

\* Every step keeps the types, the budget of claims and their freshness.
LEMMA BaseStep == Base /\ [Next]_vars => Base'
<1> SUFFICES ASSUME Base, [Next]_vars PROVE Base'
  OBVIOUS
<1> USE WorkerAssumption, ClaimsAreNaturals
    DEF WorkerAssumption, Base, execution, feishu, Goto, Fault
<1>1. ASSUME NEW e \in Events, Enqueue(e) PROVE Base'
  <2>1. PICK stamp \in Stamps : rows[e].status = "absent" /\ rows' = Inserted(e, stamp)
    BY <1>1 DEF Enqueue
  <2>2. RowSet(rows', e, "queued", 0, FALSE, NoReply, "none")
    BY <2>1, InsertedRow DEF TypeOK
  <2>3. rows[e].attempts = 0
    BY <2>1 DEF Unaccepted
  <2>4. UNCHANGED <<pc, prepared, sawWrite, flight, writers, posts, windowOpen, faults>>
    BY <1>1 DEF Enqueue
  <2>9. rows'[e].status = "queued" /\ rows'[e].attempts = 0 /\ \A f \in Events : f # e => rows'[f] = rows[f]
    BY <2>2 DEF RowSet
  <2>5. TypeOK'
    BY <2>4, <2>2 DEF RowSet, TypeOK
  <2>6. Budget'
    <3> SUFFICES ASSUME NEW f \in Events PROVE Budget!(f)'
      BY DEF Budget
    <3>1. CASE f = e
      BY <2>4, <2>9, <3>1 DEF TypeOK
    <3>2. CASE f # e
      BY <2>4, <2>9, <3>2 DEF Budget
    <3> QED BY <3>1, <3>2
  <2>7. Fresh'
    <3> SUFFICES ASSUME NEW f \in Events, NEW d \in Claims, d > rows'[f].attempts
                 PROVE  pc'[f][d] = "none" /\ flight'[f][d] = "none" /\ d \notin writers'[f]
      BY DEF Fresh
    <3>1. rows'[f].attempts = rows[f].attempts
      BY <2>3, <2>9
    <3> QED BY <3>1, <2>4 DEF Fresh
  <2>8. Unaccepted'
    BY <2>2, <2>4 DEF RowSet, Unaccepted
  <2> QED BY <2>5, <2>6, <2>7, <2>8
<1>2. ASSUME NEW e \in Events, Claim(e) PROVE Base'
  <2> DEFINE c == rows[e].attempts + 1
  <2>1. RowSet(rows', e, "processing", c, rows[e].writeStarted, rows[e].reply, rows[e].outcome)
    BY <1>2, ClaimedRow DEF Claim, TypeOK
  <2>2. c \in Claims /\ c <= faults + 1 /\ rows[e].status = "queued"
    BY <1>2 DEF Claim, Claimable, Claims, Row, TypeOK, Budget
  <2>3. /\ pc' = [pc EXCEPT ![e][c] = "claimed"]
        /\ prepared' = [prepared EXCEPT ![e][c] = rows[e].reply]
        /\ sawWrite' = [sawWrite EXCEPT ![e][c] = rows[e].writeStarted]
        /\ UNCHANGED <<flight, writers, posts, windowOpen, faults>>
    BY <1>2 DEF Claim
  <2> HIDE DEF c
  <2>4. TypeOK'
    BY <2>1, <2>2, <2>3 DEF RowSet, Row, TypeOK, Steps
  <2>5. Budget'
    BY <2>1, <2>2, <2>3 DEF RowSet, Row, TypeOK, Budget, Stopped
  <2>6. Fresh'
    BY <2>1, <2>2, <2>3 DEF RowSet, Row, c, TypeOK, Fresh
  <2>7. Unaccepted'
    BY <2>1 DEF RowSet, Unaccepted
  <2> QED BY <2>4, <2>5, <2>6, <2>7
<1>3. ASSUME NEW e \in Events, RecoverExpiredLease(e) PROVE Base'
  <2>1. RowSet(rows', e, "queued", rows[e].attempts, rows[e].writeStarted, rows[e].reply, rows[e].outcome)
    BY <1>3, LeaseRecoveredRow DEF RecoverExpiredLease, TypeOK
  <2>2. UNCHANGED <<pc, prepared, sawWrite, flight, writers, posts, windowOpen>>
    BY <1>3 DEF RecoverExpiredLease
  <2>3. faults' \in 0 .. MaxFaults /\ faults <= faults' /\ rows[e].attempts <= faults'
    <3>1. CASE pc[e][rows[e].attempts] \in Stopped
      BY <1>3, <3>1 DEF RecoverExpiredLease, Row, TypeOK, Budget, Stopped
    <3>2. CASE pc[e][rows[e].attempts] \notin Stopped
      BY <1>3, <3>2 DEF RecoverExpiredLease, Row, TypeOK, Budget, Stopped
    <3> QED BY <3>1, <3>2
  <2>4. TypeOK'
    BY <2>1, <2>2, <2>3 DEF RowSet, TypeOK
  <2>5. Budget'
    BY <2>1, <2>2, <2>3 DEF RowSet, Row, TypeOK, Budget
  <2>6. Fresh'
    BY <2>1, <2>2 DEF RowSet, Row, TypeOK, Fresh
  <2>7. Unaccepted'
    BY <2>1 DEF RowSet, Unaccepted
  <2> QED BY <2>4, <2>5, <2>6, <2>7
<1>4. ASSUME NEW e \in Events, WindowCloses(e) PROVE Base'
  <2>1. TypeOK'
    BY <1>4 DEF WindowCloses, TypeOK, Steps
  <2>2. Budget'
    BY <1>4 DEF WindowCloses, TypeOK, Row, Budget, Stopped
  <2>3. Fresh'
    BY <1>4 DEF WindowCloses, TypeOK, Row, Fresh, Stopped
  <2>4. Unaccepted'
    BY <1>4 DEF WindowCloses, Unaccepted
  <2> QED BY <2>1, <2>2, <2>3, <2>4
<1>5. ASSUME NEW e \in Events, NEW c \in Claims, CheckWindow(e, c) PROVE Base'
  <2>1. TypeOK'
    BY <1>5 DEF CheckWindow, TypeOK, Steps
  <2>2. Budget'
    BY <1>5 DEF CheckWindow, TypeOK, Row, Budget, Stopped
  <2>3. Fresh'
    BY <1>5 DEF CheckWindow, TypeOK, Row, Fresh, Stopped
  <2>4. Unaccepted'
    BY <1>5 DEF CheckWindow, Unaccepted
  <2> QED BY <2>1, <2>2, <2>3, <2>4
<1>6. ASSUME NEW e \in Events, NEW c \in Claims, MarkReplyUncertain(e, c) PROVE Base'
  <2>1. RowSet(rows', e, "failed", rows[e].attempts, rows[e].writeStarted, rows[e].reply, "uncertain")
    BY <1>6, ReplyUncertainRow DEF MarkReplyUncertain, Owns, TypeOK
  <2>2. TypeOK'
    BY <1>6, <2>1 DEF MarkReplyUncertain, Owns, RowSet, TypeOK, Steps
  <2>3. Budget'
    BY <1>6, <2>1 DEF MarkReplyUncertain, Owns, RowSet, TypeOK, Row, Budget, Stopped
  <2>4. Fresh'
    BY <1>6, <2>1 DEF MarkReplyUncertain, Owns, RowSet, TypeOK, Row, Fresh, Stopped
  <2>5. Unaccepted'
    BY <1>6, <2>1 DEF MarkReplyUncertain, Owns, RowSet, Unaccepted
  <2> QED BY <2>2, <2>3, <2>4, <2>5
<1>7. ASSUME NEW e \in Events, NEW c \in Claims, ConversationStored(e, c) PROVE Base'
  <2>1. PrepareStep(e, c) \in {"resend", "mark_reply", "load_writes", "agent"}
    BY DEF PrepareStep
  <2>2. /\ pc[e][c] = "conversation"
        /\ pc' = [pc EXCEPT ![e][c] = PrepareStep(e, c)]
        /\ UNCHANGED <<rows, sawWrite, flight, writers, posts, windowOpen, faults>>
    BY <1>7 DEF ConversationStored
  <2>3. prepared' \in [Events -> [Claims -> Replies \cup {NoReply}]]
    <3>1. [kind |-> "unsupported", claim |-> c] \in Replies
      BY DEF Replies, ReplyKinds
    <3>2. prepared' = prepared \/ prepared' = [prepared EXCEPT ![e][c] = [kind |-> "unsupported", claim |-> c]]
      BY <1>7 DEF ConversationStored, Compose
    <3>3. CASE prepared' = prepared
      BY <3>3 DEF TypeOK
    <3>4. CASE prepared' # prepared
      <4> DEFINE S == Replies \cup {NoReply}
                 v == [kind |-> "unsupported", claim |-> c]
      <4>1. v \in S /\ prepared \in [Events -> [Claims -> S]] /\ prepared' = [prepared EXCEPT ![e][c] = v]
        BY <3>1, <3>2, <3>4 DEF TypeOK
      <4> HIDE DEF S, v
      <4>2. prepared' \in [Events -> [Claims -> S]]
        BY <4>1
      <4> QED BY <4>2 DEF S
    <3> QED BY <3>3, <3>4
  <2>4. TypeOK'
    BY <2>1, <2>2, <2>3 DEF TypeOK, Steps
  <2>5. Budget'
    BY <2>1, <2>2, <2>3 DEF TypeOK, Row, Budget, Stopped
  <2>6. Fresh'
    BY <2>1, <2>2, <2>3 DEF TypeOK, Row, Fresh
  <2>7. Unaccepted'
    BY <2>1, <2>2, <2>3 DEF Unaccepted
  <2> QED BY <2>4, <2>5, <2>6, <2>7
<1>8. ASSUME NEW e \in Events, NEW c \in Claims, LoadWriteAttempts(e, c) PROVE Base'
  <2>1. TypeOK'
    BY <1>8 DEF LoadWriteAttempts, Compose, Replies, ReplyKinds, TypeOK, Steps
  <2>2. Budget'
    BY <1>8 DEF LoadWriteAttempts, Compose, TypeOK, Row, Budget, Stopped
  <2>3. Fresh'
    BY <1>8 DEF LoadWriteAttempts, Compose, TypeOK, Row, Fresh, Stopped
  <2>4. Unaccepted'
    BY <1>8 DEF LoadWriteAttempts, Compose, Unaccepted
  <2> QED BY <2>1, <2>2, <2>3, <2>4
<1>9. ASSUME NEW e \in Events, NEW c \in Claims, PerformWrite(e, c) PROVE Base'
  <2>1. TypeOK'
    BY <1>9 DEF PerformWrite, TypeOK, Steps
  <2>2. Budget'
    BY <1>9 DEF PerformWrite, TypeOK, Row, Budget, Stopped
  <2>3. Fresh'
    BY <1>9 DEF PerformWrite, TypeOK, Row, Fresh, Stopped
  <2>4. Unaccepted'
    BY <1>9 DEF PerformWrite, Unaccepted
  <2> QED BY <2>1, <2>2, <2>3, <2>4
<1>10. ASSUME NEW e \in Events, NEW c \in Claims, AgentReturns(e, c) PROVE Base'
  <2>1. TypeOK'
    BY <1>10 DEF AgentReturns, Compose, Replies, ReplyKinds, TypeOK, Steps
  <2>2. Budget'
    BY <1>10 DEF AgentReturns, Compose, TypeOK, Row, Budget, Stopped
  <2>3. Fresh'
    BY <1>10 DEF AgentReturns, Compose, TypeOK, Row, Fresh, Stopped
  <2>4. Unaccepted'
    BY <1>10 DEF AgentReturns, Compose, Unaccepted
  <2> QED BY <2>1, <2>2, <2>3, <2>4
<1>11. ASSUME NEW e \in Events, NEW c \in Claims, MarkReplyStarted(e, c) PROVE Base'
  <2>1. RowSet(rows', e, rows[e].status, rows[e].attempts, rows[e].writeStarted, prepared[e][c], rows[e].outcome)
    BY <1>11, ReplyStartedRow DEF MarkReplyStarted, Owns, TypeOK
  <2>2. TypeOK'
    BY <1>11, <2>1 DEF MarkReplyStarted, Owns, RowSet, TypeOK, Steps
  <2>3. Budget'
    BY <1>11, <2>1 DEF MarkReplyStarted, Owns, RowSet, TypeOK, Row, Budget, Stopped
  <2>4. Fresh'
    BY <1>11, <2>1 DEF MarkReplyStarted, Owns, RowSet, TypeOK, Row, Fresh, Stopped
  <2>5. Unaccepted'
    BY <1>11, <2>1 DEF MarkReplyStarted, Owns, RowSet, Unaccepted
  <2> QED BY <2>2, <2>3, <2>4, <2>5
<1>12. ASSUME NEW e \in Events, NEW c \in Claims, SendReply(e, c) PROVE Base'
  <2>1. TypeOK'
    BY <1>12 DEF SendReply, TypeOK, Steps
  <2>2. Budget'
    BY <1>12 DEF SendReply, TypeOK, Row, Budget, Stopped
  <2>3. Fresh'
    BY <1>12 DEF SendReply, TypeOK, Row, Fresh, Stopped
  <2>4. Unaccepted'
    BY <1>12 DEF SendReply, Unaccepted
  <2> QED BY <2>1, <2>2, <2>3, <2>4
<1>13. ASSUME NEW e \in Events, NEW c \in Claims, ReplyAcknowledged(e, c) PROVE Base'
  <2>1. TypeOK'
    BY <1>13 DEF ReplyAcknowledged, TypeOK, Steps
  <2>2. Budget'
    BY <1>13 DEF ReplyAcknowledged, TypeOK, Row, Budget, Stopped
  <2>3. Fresh'
    BY <1>13 DEF ReplyAcknowledged, TypeOK, Row, Fresh, Stopped
  <2>4. Unaccepted'
    BY <1>13 DEF ReplyAcknowledged, Unaccepted
  <2> QED BY <2>1, <2>2, <2>3, <2>4
<1>14. ASSUME NEW e \in Events, NEW c \in Claims, CompleteReplied(e, c) PROVE Base'
  <2>1. RowSet(rows', e, "completed", rows[e].attempts, rows[e].writeStarted, rows[e].reply, "replied")
    BY <1>14, CompletedRow DEF CompleteReplied, Owns, TypeOK, Outcomes
  <2>2. TypeOK'
    BY <1>14, <2>1 DEF CompleteReplied, Owns, RowSet, TypeOK, Steps
  <2>3. Budget'
    BY <1>14, <2>1 DEF CompleteReplied, Owns, RowSet, TypeOK, Row, Budget, Stopped
  <2>4. Fresh'
    BY <1>14, <2>1 DEF CompleteReplied, Owns, RowSet, TypeOK, Row, Fresh, Stopped
  <2>5. Unaccepted'
    BY <1>14, <2>1 DEF CompleteReplied, Owns, RowSet, Unaccepted
  <2> QED BY <2>2, <2>3, <2>4, <2>5
<1>15. ASSUME NEW e \in Events, NEW c \in Claims, CompleteGivenUp(e, c) PROVE Base'
  <2>1. RowSet(rows', e, "completed", rows[e].attempts, rows[e].writeStarted, rows[e].reply, "gave_up")
    BY <1>15, CompletedRow DEF CompleteGivenUp, Owns, TypeOK, Outcomes
  <2>2. TypeOK'
    BY <1>15, <2>1 DEF CompleteGivenUp, Owns, RowSet, TypeOK, Steps
  <2>3. Budget'
    BY <1>15, <2>1 DEF CompleteGivenUp, Owns, RowSet, TypeOK, Row, Budget, Stopped
  <2>4. Fresh'
    BY <1>15, <2>1 DEF CompleteGivenUp, Owns, RowSet, TypeOK, Row, Fresh, Stopped
  <2>5. Unaccepted'
    BY <1>15, <2>1 DEF CompleteGivenUp, Owns, RowSet, Unaccepted
  <2> QED BY <2>2, <2>3, <2>4, <2>5
<1>16. ASSUME NEW e \in Events, NEW c \in Claims, Retry(e, c) PROVE Base'
  <2>1. RowSet(rows', e, "queued", rows[e].attempts, rows[e].writeStarted, rows[e].reply, rows[e].outcome)
    BY <1>16, RetriedRow DEF Retry, Owns, TypeOK
  <2>2. TypeOK'
    BY <1>16, <2>1 DEF Retry, Owns, RowSet, TypeOK, Steps
  <2>3. Budget'
    BY <1>16, <2>1 DEF Retry, Owns, RowSet, TypeOK, Row, Budget, Stopped
  <2>4. Fresh'
    BY <1>16, <2>1 DEF Retry, Owns, RowSet, TypeOK, Row, Fresh, Stopped
  <2>5. Unaccepted'
    BY <1>16, <2>1 DEF Retry, Owns, RowSet, Unaccepted
  <2> QED BY <2>2, <2>3, <2>4, <2>5
<1>17. ASSUME NEW e \in Events, NEW c \in Claims, StaleClaim(e, c) PROVE Base'
  <2>1. TypeOK'
    BY <1>17 DEF StaleClaim, Owns, TypeOK, Steps
  <2>2. Budget'
    BY <1>17 DEF StaleClaim, Owns, TypeOK, Row, Budget, Stopped
  <2>3. Fresh'
    BY <1>17 DEF StaleClaim, Owns, TypeOK, Row, Fresh, Stopped
  <2>4. Unaccepted'
    BY <1>17 DEF StaleClaim, Owns, Unaccepted
  <2> QED BY <2>1, <2>2, <2>3, <2>4
<1>18. ASSUME NEW e \in Events, NEW c \in Claims, BeginWrite(e, c) PROVE Base'
  <2>1. RowSet(rows', e, rows[e].status, rows[e].attempts, TRUE, rows[e].reply, rows[e].outcome)
    BY <1>18, WriteStartedRow DEF BeginWrite, Owns, TypeOK
  <2>2. TypeOK'
    BY <1>18, <2>1 DEF BeginWrite, Owns, RowSet, TypeOK, Steps
  <2>3. Budget'
    BY <1>18, <2>1 DEF BeginWrite, Owns, RowSet, TypeOK, Row, Budget, Stopped
  <2>4. Fresh'
    BY <1>18, <2>1 DEF BeginWrite, Owns, RowSet, TypeOK, Row, Fresh, Stopped
  <2>5. Unaccepted'
    BY <1>18, <2>1 DEF BeginWrite, Owns, RowSet, Unaccepted
  <2> QED BY <2>2, <2>3, <2>4, <2>5
<1>19. ASSUME NEW e \in Events, NEW c \in Claims, ReplyLands(e, c) PROVE Base'
  <2>1. TypeOK'
    BY <1>19 DEF ReplyLands, TypeOK, Steps
  <2>2. Budget'
    BY <1>19 DEF ReplyLands, TypeOK, Row, Budget, Stopped
  <2>3. Fresh'
    BY <1>19 DEF ReplyLands, TypeOK, Row, Fresh, Stopped
  <2>4. Unaccepted'
    BY <1>19 DEF ReplyLands, Unaccepted
  <2> QED BY <2>1, <2>2, <2>3, <2>4
<1>20. ASSUME NEW e \in Events, NEW c \in Claims, ConversationFails(e, c) PROVE Base'
  <2>1. TypeOK'
    BY <1>20 DEF ConversationFails, BeforeReplyStep, TypeOK, Steps
  <2>2. Budget'
    BY <1>20 DEF ConversationFails, BeforeReplyStep, TypeOK, Row, Budget, Stopped
  <2>3. Fresh'
    BY <1>20 DEF ConversationFails, BeforeReplyStep, TypeOK, Row, Fresh, Stopped
  <2>4. Unaccepted'
    BY <1>20 DEF ConversationFails, BeforeReplyStep, Unaccepted
  <2> QED BY <2>1, <2>2, <2>3, <2>4
<1>21. ASSUME NEW e \in Events, NEW c \in Claims, AgentInterruptedAfterWrite(e, c) PROVE Base'
  <2>1. TypeOK'
    BY <1>21 DEF AgentInterruptedAfterWrite, Compose, Replies, ReplyKinds, TypeOK, Steps
  <2>2. Budget'
    BY <1>21 DEF AgentInterruptedAfterWrite, Compose, TypeOK, Row, Budget, Stopped
  <2>3. Fresh'
    BY <1>21 DEF AgentInterruptedAfterWrite, Compose, TypeOK, Row, Fresh, Stopped
  <2>4. Unaccepted'
    BY <1>21 DEF AgentInterruptedAfterWrite, Compose, Unaccepted
  <2> QED BY <2>1, <2>2, <2>3, <2>4
<1>22. ASSUME NEW e \in Events, NEW c \in Claims, AgentThrows(e, c) PROVE Base'
  <2>1. PICK step \in {"retry", "mark_reply"} :
          /\ pc[e][c] \in {"agent", "writing"}
          /\ pc' = [pc EXCEPT ![e][c] = step]
          /\ Fault
          /\ UNCHANGED <<rows, sawWrite, flight, writers, posts, windowOpen>>
    BY <1>22 DEF AgentThrows
  <2>2. prepared' \in [Events -> [Claims -> Replies \cup {NoReply}]]
    <3>1. [kind |-> "temporary_error", claim |-> c] \in Replies
      BY DEF Replies, ReplyKinds
    <3>2. prepared' = prepared \/ prepared' = [prepared EXCEPT ![e][c] = [kind |-> "temporary_error", claim |-> c]]
      BY <1>22 DEF AgentThrows, Compose
    <3>3. CASE prepared' = prepared
      BY <3>3 DEF TypeOK
    <3>4. CASE prepared' # prepared
      <4> DEFINE S == Replies \cup {NoReply}
                 v == [kind |-> "temporary_error", claim |-> c]
      <4>1. v \in S /\ prepared \in [Events -> [Claims -> S]] /\ prepared' = [prepared EXCEPT ![e][c] = v]
        BY <3>1, <3>2, <3>4 DEF TypeOK
      <4> HIDE DEF S, v
      <4>2. prepared' \in [Events -> [Claims -> S]]
        BY <4>1
      <4> QED BY <4>2 DEF S
    <3> QED BY <3>3, <3>4
  <2>3. faults' \in 0 .. MaxFaults /\ pc' \in [Events -> [Claims -> Steps]]
    BY <2>1 DEF TypeOK, Steps
  <2>4. TypeOK'
    BY <2>1, <2>2, <2>3 DEF TypeOK
  <2>5. Budget'
    BY <2>1, <2>2 DEF TypeOK, Row, Budget, Stopped
  <2>6. Fresh'
    BY <2>1, <2>2 DEF TypeOK, Row, Fresh
  <2>7. Unaccepted'
    BY <2>1, <2>2 DEF Unaccepted
  <2> QED BY <2>4, <2>5, <2>6, <2>7
<1>23. ASSUME NEW e \in Events, NEW c \in Claims, ReplyFails(e, c) PROVE Base'
  <2>1. TypeOK'
    BY <1>23 DEF ReplyFails, TypeOK, Steps
  <2>2. Budget'
    BY <1>23 DEF ReplyFails, TypeOK, Row, Budget, Stopped
  <2>3. Fresh'
    BY <1>23 DEF ReplyFails, TypeOK, Row, Fresh, Stopped
  <2>4. Unaccepted'
    BY <1>23 DEF ReplyFails, Unaccepted
  <2> QED BY <2>1, <2>2, <2>3, <2>4
<1>24. ASSUME NEW e \in Events, NEW c \in Claims, DeadlineExceeded(e, c) PROVE Base'
  <2>1. TypeOK'
    BY <1>24 DEF DeadlineExceeded, BeforeReplyStep, ReplyHasStarted, TypeOK, Steps
  <2>2. Budget'
    BY <1>24 DEF DeadlineExceeded, BeforeReplyStep, ReplyHasStarted, TypeOK, Row, Budget, Stopped
  <2>3. Fresh'
    BY <1>24 DEF DeadlineExceeded, BeforeReplyStep, ReplyHasStarted, TypeOK, Row, Fresh, Stopped
  <2>4. Unaccepted'
    BY <1>24 DEF DeadlineExceeded, BeforeReplyStep, ReplyHasStarted, Unaccepted
  <2> QED BY <2>1, <2>2, <2>3, <2>4
<1>25. ASSUME NEW e \in Events, NEW c \in Claims, Dies(e, c) PROVE Base'
  <2>1. TypeOK'
    BY <1>25 DEF Dies, TypeOK, Steps
  <2>2. Budget'
    BY <1>25 DEF Dies, TypeOK, Row, Budget, Stopped
  <2>3. Fresh'
    BY <1>25 DEF Dies, TypeOK, Row, Fresh, Stopped
  <2>4. Unaccepted'
    BY <1>25 DEF Dies, Unaccepted
  <2> QED BY <2>1, <2>2, <2>3, <2>4
<1>26. CASE UNCHANGED vars
  BY <1>26 DEF vars, TypeOK, Budget, Fresh, Unaccepted
<1> QED
  BY <1>1, <1>2, <1>3, <1>4, <1>5, <1>6, <1>7, <1>8, <1>9, <1>10, <1>11, <1>12, <1>13, <1>14, <1>15, <1>16, <1>17, <1>18, <1>19, <1>20, <1>21, <1>22, <1>23, <1>24, <1>25, <1>26 DEF Next, Runs, Disturbed, Idle

-------------------------------------------------------------------------------
(***************************************************************************)
(* The fences.  Most actions only end an execution: they move it to a step *)
(* from which it neither writes nor sends, and keep the columns the fences *)
(* read.                                                                   *)
(***************************************************************************)

Ended == {"retry", "give_up", "uncertain", "done", "dead"}

KeepsColumns ==
  \A f \in Events :
    /\ rows'[f].attempts = rows[f].attempts
    /\ rows'[f].writeStarted = rows[f].writeStarted
    /\ rows'[f].reply = rows[f].reply
    /\ rows'[f].outcome = "replied" => rows[f].outcome = "replied"

OnlyEnds ==
  /\ KeepsColumns
  /\ \A f \in Events, d \in Claims : pc'[f][d] = pc[f][d] \/ pc'[f][d] \in Ended
  /\ UNCHANGED <<prepared, sawWrite, flight, writers, posts, windowOpen>>

\* An execution that only ends takes nothing along.
LEMMA EndingKeepsFences ==
  ASSUME Base, Fences, OnlyEnds
  PROVE  Fences'
<1>1. WriteFence'
  BY DEF Fences, OnlyEnds, KeepsColumns, WriteFence, Began, Ended
<1>2. ReplyFence'
  BY DEF Fences, OnlyEnds, KeepsColumns, ReplyFence, Ended
<1>3. Visibility'
  BY DEF Fences, OnlyEnds, KeepsColumns, Visibility, Ended
<1>4. WindowFence => WindowFence'
  BY DEF OnlyEnds, KeepsColumns, WindowFence, Ended
<1> QED BY <1>1, <1>2, <1>3, <1>4 DEF Fences

\* An execution composes its reply and goes to mark it.
Composes(e, c) ==
  /\ pc[e][c] \in {"agent", "writing", "load_writes"}
  /\ pc' = [pc EXCEPT ![e][c] = "mark_reply"]
  /\ \E kind \in ReplyKinds : prepared' = [prepared EXCEPT ![e][c] = [kind |-> kind, claim |-> c]]
  /\ UNCHANGED <<rows, sawWrite, flight, writers, posts, windowOpen>>

\* The empty column is not a reply.
LEMMA NoReplyIsNoReply == NoReply \notin Replies
  BY DEF NoReply, Replies, ReplyKinds

\* Composing a reply, under the name of the claim, binds nobody else.
LEMMA ComposingKeepsFences ==
  ASSUME Base, Fences, NEW e \in Events, NEW c \in Claims, Composes(e, c)
  PROVE  Fences'
<1>1. PICK v \in Replies : prepared' = [prepared EXCEPT ![e][c] = v]
  BY ClaimsAreNaturals DEF Composes, Replies
<1>2. v # NoReply
  BY NoReplyIsNoReply
<1>3. /\ pc[e][c] \in {"agent", "writing", "load_writes"}
      /\ pc' = [pc EXCEPT ![e][c] = "mark_reply"]
      /\ UNCHANGED <<rows, sawWrite, flight, writers, posts, windowOpen>>
  BY DEF Composes
<1>4. WriteFence'
  BY <1>3 DEF Base, TypeOK, Fences, WriteFence, Began
<1>5. ReplyFence'
  BY <1>1, <1>2, <1>3 DEF Base, TypeOK, Fences, ReplyFence
<1>6. Visibility'
  BY <1>3 DEF Base, TypeOK, Fences, Visibility
<1>7. WindowFence => WindowFence'
  BY <1>1, <1>3 DEF Base, TypeOK, WindowFence
<1> QED BY <1>4, <1>5, <1>6, <1>7 DEF Fences

\* The start.
LEMMA FencesInit == Init => Fences
  BY DEF Init, InitStore, AbsentRow, Fences, WriteFence, Began, ReplyFence, Visibility, WindowFence

\* Every step keeps the fences.
LEMMA FencesStep == Base /\ Fences /\ [Next]_vars => Fences'
<1> SUFFICES ASSUME Base, Fences, [Next]_vars PROVE Fences'
  OBVIOUS
<1> USE DEF execution, feishu, Goto, Fault
<1>1. ASSUME NEW e \in Events, Enqueue(e) PROVE Fences'
  <2>1. PICK stamp \in Stamps : rows[e].status = "absent" /\ rows' = Inserted(e, stamp)
    BY <1>1 DEF Enqueue
  <2>2. RowSet(rows', e, "queued", 0, FALSE, NoReply, "none")
    BY <2>1, InsertedRow DEF Base, TypeOK
  <2>3. KeepsColumns
    <3> SUFFICES ASSUME NEW f \in Events PROVE KeepsColumns!(f)
      BY DEF KeepsColumns
    <3>1. CASE f = e
      <4>1. rows[e].attempts = 0 /\ rows[e].writeStarted = FALSE /\ rows[e].reply = NoReply
        BY <2>1 DEF Base, Unaccepted, TypeOK, Row
      <4> QED BY <2>2, <3>1, <4>1 DEF RowSet
    <3>2. CASE f # e
      BY <2>2, <3>2 DEF RowSet
    <3> QED BY <3>1, <3>2
  <2>4. OnlyEnds
    BY <1>1, <2>3 DEF Enqueue, OnlyEnds
  <2> QED BY <2>4, EndingKeepsFences
<1>2. ASSUME NEW e \in Events, RecoverExpiredLease(e) PROVE Fences'
  <2>1. RowSet(rows', e, "queued", rows[e].attempts, rows[e].writeStarted, rows[e].reply, rows[e].outcome)
    BY <1>2, LeaseRecoveredRow DEF RecoverExpiredLease, Base, TypeOK
  <2>2. KeepsColumns
    BY <2>1 DEF RowSet, KeepsColumns
  <2>3. OnlyEnds
    BY <1>2, <2>2 DEF RecoverExpiredLease, OnlyEnds, Ended, Base, TypeOK
  <2> QED BY <2>3, EndingKeepsFences
<1>3. ASSUME NEW e \in Events, NEW c \in Claims, MarkReplyUncertain(e, c) PROVE Fences'
  <2>1. RowSet(rows', e, "failed", rows[e].attempts, rows[e].writeStarted, rows[e].reply, "uncertain")
    BY <1>3, ReplyUncertainRow DEF MarkReplyUncertain, Base, TypeOK
  <2>2. KeepsColumns
    BY <2>1 DEF RowSet, KeepsColumns
  <2>3. OnlyEnds
    BY <1>3, <2>2 DEF MarkReplyUncertain, OnlyEnds, Ended, Base, TypeOK
  <2> QED BY <2>3, EndingKeepsFences
<1>4. ASSUME NEW e \in Events, NEW c \in Claims, CompleteGivenUp(e, c) PROVE Fences'
  <2>1. RowSet(rows', e, "completed", rows[e].attempts, rows[e].writeStarted, rows[e].reply, "gave_up")
    BY <1>4, CompletedRow DEF CompleteGivenUp, Base, TypeOK, Outcomes
  <2>2. KeepsColumns
    BY <2>1 DEF RowSet, KeepsColumns
  <2>3. OnlyEnds
    BY <1>4, <2>2 DEF CompleteGivenUp, OnlyEnds, Ended, Base, TypeOK
  <2> QED BY <2>3, EndingKeepsFences
<1>5. ASSUME NEW e \in Events, NEW c \in Claims, Retry(e, c) PROVE Fences'
  <2>1. RowSet(rows', e, "queued", rows[e].attempts, rows[e].writeStarted, rows[e].reply, rows[e].outcome)
    BY <1>5, RetriedRow DEF Retry, Base, TypeOK
  <2>2. KeepsColumns
    BY <2>1 DEF RowSet, KeepsColumns
  <2>3. OnlyEnds
    BY <1>5, <2>2 DEF Retry, OnlyEnds, Ended, Base, TypeOK
  <2> QED BY <2>3, EndingKeepsFences
<1>6. ASSUME NEW e \in Events, NEW c \in Claims, StaleClaim(e, c) PROVE Fences'
  <2>1. OnlyEnds
    BY <1>6 DEF StaleClaim, OnlyEnds, KeepsColumns, Ended, Base, TypeOK
  <2> QED BY <2>1, EndingKeepsFences
<1>7. ASSUME NEW e \in Events, NEW c \in Claims, ConversationFails(e, c) PROVE Fences'
  <2>1. OnlyEnds
    BY <1>7 DEF ConversationFails, OnlyEnds, KeepsColumns, Ended, Base, TypeOK, BeforeReplyStep
  <2> QED BY <2>1, EndingKeepsFences
<1>8. ASSUME NEW e \in Events, NEW c \in Claims, ReplyFails(e, c) PROVE Fences'
  <2>1. OnlyEnds
    BY <1>8 DEF ReplyFails, OnlyEnds, KeepsColumns, Ended, Base, TypeOK
  <2> QED BY <2>1, EndingKeepsFences
<1>9. ASSUME NEW e \in Events, NEW c \in Claims, DeadlineExceeded(e, c) PROVE Fences'
  <2>1. OnlyEnds
    BY <1>9 DEF DeadlineExceeded, OnlyEnds, KeepsColumns, Ended, Base, TypeOK, BeforeReplyStep
  <2> QED BY <2>1, EndingKeepsFences
<1>10. ASSUME NEW e \in Events, NEW c \in Claims, Dies(e, c) PROVE Fences'
  <2>1. OnlyEnds
    BY <1>10 DEF Dies, OnlyEnds, KeepsColumns, Ended, Base, TypeOK
  <2> QED BY <2>1, EndingKeepsFences
<1>11. ASSUME NEW e \in Events, NEW c \in Claims, LoadWriteAttempts(e, c) PROVE Fences'
  <2>1. Composes(e, c)
    BY <1>11 DEF LoadWriteAttempts, Composes, Compose, ReplyKinds
  <2> QED BY <2>1, ComposingKeepsFences
<1>12. ASSUME NEW e \in Events, NEW c \in Claims, AgentReturns(e, c) PROVE Fences'
  <2>1. Composes(e, c)
    BY <1>12 DEF AgentReturns, Composes, Compose, ReplyKinds
  <2> QED BY <2>1, ComposingKeepsFences
<1>13. ASSUME NEW e \in Events, NEW c \in Claims, AgentInterruptedAfterWrite(e, c) PROVE Fences'
  <2>1. Composes(e, c)
    BY <1>13 DEF AgentInterruptedAfterWrite, Composes, Compose, ReplyKinds
  <2> QED BY <2>1, ComposingKeepsFences
<1>14. ASSUME NEW e \in Events, NEW c \in Claims, AgentThrows(e, c) PROVE Fences'
  <2>1. CASE c < AttemptLimit
    <3>1. /\ pc' = [pc EXCEPT ![e][c] = "retry"]
          /\ UNCHANGED <<rows, prepared, sawWrite, flight, writers, posts, windowOpen>>
      BY <1>14, <2>1 DEF AgentThrows, Goto, feishu
    <3>2. OnlyEnds
      BY <3>1 DEF OnlyEnds, KeepsColumns, Ended, Base, TypeOK
    <3> QED BY <3>2, EndingKeepsFences
  <2>2. CASE ~(c < AttemptLimit)
    <3>1. Composes(e, c)
      BY <1>14, <2>2 DEF AgentThrows, Composes, Compose, ReplyKinds
    <3> QED BY <3>1, ComposingKeepsFences
  <2> QED BY <2>1, <2>2
<1>15. ASSUME NEW e \in Events, Claim(e) PROVE Fences'
  <2> DEFINE c == rows[e].attempts + 1
  <2>1. RowSet(rows', e, "processing", c, rows[e].writeStarted, rows[e].reply, rows[e].outcome)
    BY <1>15, ClaimedRow DEF Claim, Base, TypeOK
  <2>2. c \in Claims /\ c > rows[e].attempts
    <3>1. rows[e].attempts \in Nat /\ rows[e].attempts <= faults /\ faults \in 0 .. MaxFaults
      BY <1>15 DEF Claim, Claimable, Row, Base, TypeOK, Budget
    <3> QED BY <3>1, WorkerAssumption DEF Claims, WorkerAssumption
  <2>3. /\ pc' = [pc EXCEPT ![e][c] = "claimed"]
        /\ prepared' = [prepared EXCEPT ![e][c] = rows[e].reply]
        /\ sawWrite' = [sawWrite EXCEPT ![e][c] = rows[e].writeStarted]
        /\ UNCHANGED <<flight, writers, posts, windowOpen, faults>>
    BY <1>15 DEF Claim
  <2>4. pc[e][c] = "none" /\ flight[e][c] = "none" /\ c \notin writers[e]
    BY <2>2 DEF Base, Fresh
  <2>n. rows'[e].attempts = c /\ c = rows[e].attempts + 1 /\ rows[e].attempts \in Nat
    BY <2>1 DEF RowSet, Base, TypeOK, Row
  <2> HIDE DEF c
  <2>5. WriteFence'
    <3>1. \A f \in Events, d \in Claims : Began(f, d)' => Began(f, d)
      BY <2>3 DEF Base, TypeOK, Began
    <3>2. ~Began(e, c)
      BY <2>4 DEF Began
    <3>3. \A f \in Events, d \in Claims : f # e \/ d # c =>
            pc'[f][d] = pc[f][d] /\ sawWrite'[f][d] = sawWrite[f][d]
      BY <2>3 DEF Base, TypeOK
    <3>4. pc'[e][c] = "claimed" /\ (sawWrite'[e][c] <=> rows[e].writeStarted)
      BY <2>2, <2>3 DEF Base, TypeOK
    <3>5. \A f \in Events : (rows'[f].writeStarted <=> rows[f].writeStarted)
      BY <2>1 DEF RowSet
    <3>6. \A f \in Events, d \in Claims :
             /\ Began(f, d)' => rows'[f].writeStarted
             /\ Began(f, d)' \/ pc'[f][d] = "agent" => ~sawWrite'[f][d]
      BY <3>1, <3>2, <3>3, <3>4, <3>5 DEF Fences, WriteFence
    <3>7. ASSUME NEW f \in Events, NEW d \in Claims, NEW b \in Claims,
                 Began(f, d)', d < b, b <= rows'[f].attempts
          PROVE  sawWrite'[f][b]
      <4>1. Began(f, d) /\ rows[f].writeStarted
        BY <3>1, <3>7 DEF Fences, WriteFence
      <4>2. CASE f = e /\ b = c
        BY <4>1, <4>2, <3>4
      <4>3. CASE f = e /\ b # c
        <5>1. b <= rows[e].attempts
          BY <4>3, <3>7, <2>n, ClaimsAreNaturals
        <5>2. sawWrite[e][b]
          BY <5>1, <4>1, <4>3, <3>7 DEF Fences, WriteFence
        <5> QED BY <5>2, <4>3, <3>3
      <4>4. CASE f # e
        <5>1. b <= rows[f].attempts
          BY <4>4, <3>7, <2>1 DEF RowSet
        <5>2. sawWrite[f][b]
          BY <5>1, <4>1, <3>7 DEF Fences, WriteFence
        <5> QED BY <5>2, <4>4, <3>3
      <4> QED BY <4>2, <4>3, <4>4
    <3> QED BY <3>6, <3>7 DEF WriteFence
  <2>6. ReplyFence'
    BY <2>1, <2>2, <2>3, <2>4 DEF Base, TypeOK, Fences, ReplyFence, RowSet, Row
  <2>7. Visibility'
    BY <2>1, <2>2, <2>3, <2>4 DEF Base, TypeOK, Fences, Visibility, RowSet, Row
  <2>8. PromptSends => WindowFence'
    BY <2>1, <2>2, <2>3, <2>4 DEF Base, TypeOK, Fences, WindowFence, RowSet, Row
  <2> QED BY <2>5, <2>6, <2>7, <2>8 DEF Fences
<1>16. ASSUME NEW e \in Events, NEW c \in Claims, CheckWindow(e, c) PROVE Fences'
  <2>5. WriteFence'
    BY <1>16 DEF Base, TypeOK, Fences, WriteFence, Began, CheckWindow
  <2>6. ReplyFence'
    BY <1>16 DEF Base, TypeOK, Fences, ReplyFence, CheckWindow
  <2>7. Visibility'
    BY <1>16 DEF Base, TypeOK, Fences, Visibility, CheckWindow
  <2>8. PromptSends => WindowFence'
    BY <1>16 DEF Base, TypeOK, Fences, WindowFence, CheckWindow
  <2> QED BY <2>5, <2>6, <2>7, <2>8 DEF Fences
<1>17. ASSUME NEW e \in Events, NEW c \in Claims, ConversationStored(e, c) PROVE Fences'
  <2>1. /\ pc[e][c] = "conversation"
        /\ pc' = [pc EXCEPT ![e][c] = PrepareStep(e, c)]
        /\ UNCHANGED <<rows, sawWrite, flight, writers, posts, windowOpen, faults>>
    BY <1>17 DEF ConversationStored
  <2>2. \/ PrepareStep(e, c) = "resend" /\ prepared[e][c] # NoReply /\ prepared' = prepared
        \/ PrepareStep(e, c) = "agent" /\ ~sawWrite[e][c] /\ prepared[e][c] = NoReply /\ prepared' = prepared
        \/ PrepareStep(e, c) = "load_writes" /\ prepared[e][c] = NoReply /\ prepared' = prepared
        \/ /\ PrepareStep(e, c) = "mark_reply" /\ prepared[e][c] = NoReply
           /\ prepared' = [prepared EXCEPT ![e][c] = [kind |-> "unsupported", claim |-> c]]
    BY <1>17 DEF ConversationStored, PrepareStep, Compose
  <2>3. [kind |-> "unsupported", claim |-> c] # NoReply
    BY DEF NoReply
  <2>5. WriteFence'
    BY <2>1, <2>2, <2>3 DEF Base, TypeOK, Fences, WriteFence, Began
  <2>6. ReplyFence'
    BY <2>1, <2>2, <2>3 DEF Base, TypeOK, Fences, ReplyFence
  <2>7. Visibility'
    BY <2>1, <2>2, <2>3 DEF Base, TypeOK, Fences, Visibility
  <2>8. PromptSends => WindowFence'
    BY <2>1, <2>2, <2>3 DEF Base, TypeOK, Fences, WindowFence
  <2> QED BY <2>5, <2>6, <2>7, <2>8 DEF Fences
<1>18. ASSUME NEW e \in Events, NEW c \in Claims, BeginWrite(e, c) PROVE Fences'
  <2>1. RowSet(rows', e, rows[e].status, rows[e].attempts, TRUE, rows[e].reply, rows[e].outcome)
    BY <1>18, WriteStartedRow DEF BeginWrite, Base, TypeOK
  <2>2. /\ pc[e][c] = "agent" /\ rows[e].attempts = c
        /\ pc' = [pc EXCEPT ![e][c] = "writing"]
        /\ UNCHANGED <<prepared, sawWrite, flight, writers, posts, windowOpen>>
    BY <1>18 DEF BeginWrite, Owns
  <2>5. WriteFence'
    BY <2>1, <2>2, ClaimsAreNaturals DEF Base, TypeOK, Fences, WriteFence, Began, RowSet
  <2>6. ReplyFence'
    BY <2>1, <2>2, ClaimsAreNaturals DEF Base, TypeOK, Fences, ReplyFence, RowSet
  <2>7. Visibility'
    BY <2>1, <2>2, ClaimsAreNaturals DEF Base, TypeOK, Fences, Visibility, RowSet
  <2>8. PromptSends => WindowFence'
    BY <2>1, <2>2, ClaimsAreNaturals DEF Base, TypeOK, Fences, WindowFence, RowSet
  <2> QED BY <2>5, <2>6, <2>7, <2>8 DEF Fences
<1>19. ASSUME NEW e \in Events, NEW c \in Claims, PerformWrite(e, c) PROVE Fences'
  <2>5. WriteFence'
    BY <1>19 DEF Base, TypeOK, Fences, WriteFence, Began, PerformWrite
  <2>6. ReplyFence'
    BY <1>19 DEF Base, TypeOK, Fences, ReplyFence, PerformWrite
  <2>7. Visibility'
    BY <1>19 DEF Base, TypeOK, Fences, Visibility, PerformWrite
  <2>8. PromptSends => WindowFence'
    BY <1>19 DEF Base, TypeOK, Fences, WindowFence, PerformWrite
  <2> QED BY <2>5, <2>6, <2>7, <2>8 DEF Fences
<1>20. ASSUME NEW e \in Events, NEW c \in Claims, MarkReplyStarted(e, c) PROVE Fences'
  <2>1. RowSet(rows', e, rows[e].status, rows[e].attempts, rows[e].writeStarted, prepared[e][c], rows[e].outcome)
    BY <1>20, ReplyStartedRow DEF MarkReplyStarted, Base, TypeOK
  <2>2. /\ pc[e][c] = "mark_reply" /\ rows[e].attempts = c
        /\ pc' = [pc EXCEPT ![e][c] = "marked"]
        /\ UNCHANGED <<prepared, sawWrite, flight, writers, posts, windowOpen>>
    BY <1>20 DEF MarkReplyStarted, Owns
  <2>3. rows[e].reply = NoReply /\ prepared[e][c] # NoReply
    BY <2>2 DEF Fences, ReplyFence
  <2>5. WriteFence'
    BY <2>1, <2>2, <2>3 DEF Base, TypeOK, Fences, WriteFence, Began, RowSet
  <2>6. ReplyFence'
    BY <2>1, <2>2, <2>3 DEF Base, TypeOK, Fences, ReplyFence, RowSet
  <2>7. Visibility'
    BY <2>1, <2>2, <2>3 DEF Base, TypeOK, Fences, Visibility, RowSet
  <2>8. PromptSends => WindowFence'
    BY <2>1, <2>2, <2>3 DEF Base, TypeOK, Fences, WindowFence, RowSet
  <2> QED BY <2>5, <2>6, <2>7, <2>8 DEF Fences
<1>21. ASSUME NEW e \in Events, NEW c \in Claims, SendReply(e, c) PROVE Fences'
  <2>5. WriteFence'
    BY <1>21 DEF Base, TypeOK, Fences, WriteFence, Began, SendReply
  <2>6. ReplyFence'
    BY <1>21 DEF Base, TypeOK, Fences, ReplyFence, SendReply
  <2>7. Visibility'
    BY <1>21 DEF Base, TypeOK, Fences, Visibility, SendReply
  <2>8. PromptSends => WindowFence'
    BY <1>21 DEF Base, TypeOK, Fences, WindowFence, SendReply
  <2> QED BY <2>5, <2>6, <2>7, <2>8 DEF Fences
<1>22. ASSUME NEW e \in Events, NEW c \in Claims, ReplyLands(e, c) PROVE Fences'
  <2>5. WriteFence'
    BY <1>22 DEF Base, TypeOK, Fences, WriteFence, Began, ReplyLands
  <2>6. ReplyFence'
    BY <1>22 DEF Base, TypeOK, Fences, ReplyFence, ReplyLands
  <2>7. Visibility'
    <3>1. rows[e].reply # NoReply
      BY <1>22 DEF ReplyLands, Fences, ReplyFence
    <3>2. posts'[e] > 0 /\ \A f \in Events : f # e => posts'[f] = posts[f]
      BY <1>22 DEF ReplyLands, Base, TypeOK
    <3>3. \A f \in Events, d \in Claims : f # e => flight'[f][d] = flight[f][d]
      BY <1>22 DEF ReplyLands, Base, TypeOK
    <3>4. rows' = rows /\ pc' = pc
      BY <1>22 DEF ReplyLands
    <3> QED BY <3>1, <3>2, <3>3, <3>4 DEF Fences, Visibility
  <2>8. PromptSends => WindowFence'
    BY <1>22 DEF Base, TypeOK, Fences, WindowFence, ReplyLands
  <2> QED BY <2>5, <2>6, <2>7, <2>8 DEF Fences
<1>23. ASSUME NEW e \in Events, NEW c \in Claims, ReplyAcknowledged(e, c) PROVE Fences'
  <2>5. WriteFence'
    BY <1>23 DEF Base, TypeOK, Fences, WriteFence, Began, ReplyAcknowledged
  <2>6. ReplyFence'
    BY <1>23 DEF Base, TypeOK, Fences, ReplyFence, ReplyAcknowledged
  <2>7. Visibility'
    BY <1>23 DEF Base, TypeOK, Fences, Visibility, ReplyAcknowledged
  <2>8. PromptSends => WindowFence'
    BY <1>23 DEF Base, TypeOK, Fences, WindowFence, ReplyAcknowledged
  <2> QED BY <2>5, <2>6, <2>7, <2>8 DEF Fences
<1>24. ASSUME NEW e \in Events, NEW c \in Claims, CompleteReplied(e, c) PROVE Fences'
  <2>1. RowSet(rows', e, "completed", rows[e].attempts, rows[e].writeStarted, rows[e].reply, "replied")
    BY <1>24, CompletedRow DEF CompleteReplied, Base, TypeOK, Outcomes
  <2>2. /\ pc[e][c] = "replied"
        /\ pc' = [pc EXCEPT ![e][c] = "done"]
        /\ UNCHANGED <<prepared, sawWrite, flight, writers, posts, windowOpen>>
    BY <1>24 DEF CompleteReplied
  <2>5. WriteFence'
    BY <2>1, <2>2 DEF Base, TypeOK, Fences, WriteFence, Began, RowSet
  <2>6. ReplyFence'
    BY <2>1, <2>2 DEF Base, TypeOK, Fences, ReplyFence, RowSet
  <2>7. Visibility'
    BY <2>1, <2>2 DEF Base, TypeOK, Fences, Visibility, RowSet
  <2>8. PromptSends => WindowFence'
    BY <2>1, <2>2 DEF Base, TypeOK, Fences, WindowFence, RowSet
  <2> QED BY <2>5, <2>6, <2>7, <2>8 DEF Fences
<1>25. ASSUME NEW e \in Events, WindowCloses(e) PROVE Fences'
  <2>5. WriteFence'
    BY <1>25 DEF Base, TypeOK, Fences, WriteFence, Began, WindowCloses
  <2>6. ReplyFence'
    BY <1>25 DEF Base, TypeOK, Fences, ReplyFence, WindowCloses
  <2>7. Visibility'
    BY <1>25 DEF Base, TypeOK, Fences, Visibility, WindowCloses
  <2>8. PromptSends => WindowFence'
    BY <1>25 DEF Base, TypeOK, Fences, WindowFence, WindowCloses
  <2> QED BY <2>5, <2>6, <2>7, <2>8 DEF Fences
<1>26. CASE UNCHANGED vars
  <2>1. OnlyEnds
    BY <1>26 DEF vars, OnlyEnds, KeepsColumns
  <2> QED BY <2>1, EndingKeepsFences
<1> QED
  BY <1>1, <1>2, <1>3, <1>4, <1>5, <1>6, <1>7, <1>8, <1>9, <1>10, <1>11, <1>12, <1>13, <1>14, <1>15, <1>16, <1>17, <1>18, <1>19, <1>20, <1>21, <1>22, <1>23, <1>24, <1>25, <1>26 DEF Next, Runs, Disturbed, Idle

-------------------------------------------------------------------------------
(***************************************************************************)
(* The theorems.                                                           *)
(***************************************************************************)

\* The invariant the theorems rest on holds in every reachable state: claims are
\* handed out one at a time and leave no trace before, a write that began is seen
\* by every later claim, and whoever may send holds the reply of the row.
THEOREM Invariance == Spec => [](Base /\ Fences)
<1>1. Init => Base /\ Fences
  BY BaseInit, FencesInit
<1>2. Base /\ Fences /\ [Next]_vars => (Base /\ Fences)'
  BY BaseStep, FencesStep
<1> QED BY <1>1, <1>2, PTL DEF Spec

\* Every variable keeps its type, and attempts and executions stay within the claims
\* that faults pay for.
THEOREM TypeCorrect == Spec => []TypeOK
<1>1. Base /\ Fences => TypeOK
  BY DEF Base
<1> QED BY <1>1, Invariance, PTL

\* Write Replay Boundary: once beginWrite has committed for one claim, no execution
\* of another claim ever carries out a persistent write of the event.
THEOREM WritesOnce == Spec => []OneWritingClaim
<1>1. Base /\ Fences => OneWritingClaim
  <2> SUFFICES ASSUME Base, Fences, NEW e \in Events, NEW c \in writers[e], NEW d \in writers[e]
               PROVE  c = d
    BY DEF OneWritingClaim
  <2>1. c \in Claims /\ d \in Claims
    BY DEF Base, TypeOK
  <2>2. Began(e, c) /\ Began(e, d)
    BY DEF Began
  <2>3. c <= rows[e].attempts /\ d <= rows[e].attempts
    BY <2>1, ClaimsAreNaturals DEF Base, Fresh, TypeOK, Row
  <2>4. ~(c < d) /\ ~(d < c)
    BY <2>1, <2>2, <2>3 DEF Fences, WriteFence
  <2> QED BY <2>1, <2>4, ClaimsAreNaturals
<1> QED BY <1>1, Invariance, PTL

\* No automatic replay: the agent never runs in a claim that follows one that began
\* a persistent write, even while the earlier execution is still alive.
THEOREM WritesAreNotReplayed == Spec => []NoReplayAfterWrite
<1>1. Base /\ Fences => NoReplayAfterWrite
  <2> SUFFICES ASSUME Base, Fences, NEW e \in Events, NEW c \in Claims, NEW d \in Claims,
                      c < d, Began(e, c)
               PROVE  pc[e][d] \notin {"agent", "writing"}
    BY DEF NoReplayAfterWrite, Began
  <2>1. CASE d <= rows[e].attempts
    BY <2>1 DEF Fences, WriteFence, Began
  <2>2. CASE d > rows[e].attempts
    BY <2>2 DEF Base, Fresh
  <2> QED BY <2>1, <2>2, ClaimsAreNaturals DEF Base, TypeOK, Row
<1> QED BY <1>1, Invariance, PTL

\* A stable idempotency key never carries two different replies.
THEOREM KeyNamesOneReply == Spec => []OneReplyPerKey
<1>1. Base /\ Fences => OneReplyPerKey
  BY DEF OneReplyPerKey, Fences, ReplyFence
<1> QED BY <1>1, Invariance, PTL

\* A completed reply is in the chat, and nothing is in the chat that the row did not
\* prepare first.
THEOREM RepliesAreVisible == Spec => []RepliedIsVisible
<1>1. Base /\ Fences => RepliedIsVisible
  BY DEF RepliedIsVisible, Fences, Visibility
<1> QED BY <1>1, Invariance, PTL

\* When a send never straddles the end of the deduplication window, a member sees
\* at most one final reply to an event.
THEOREM PostsAtMostOnce ==
  ASSUME PromptSends
  PROVE  Spec => []AtMostOnePost
<1>1. Base /\ Fences => AtMostOnePost
  BY PromptSends DEF AtMostOnePost, Fences, WindowFence
<1> QED BY <1>1, Invariance, PTL

\* A settled event is never touched again, not by a late execution, not by the
\* recovery of expired leases.
THEOREM SettledForGood == Spec => TerminalIsFinal
<1>1. Base /\ Fences /\ [Next]_vars
        => [\A e \in Events : rows[e].status \in Terminal => rows'[e] = rows[e]]_vars
  <2> SUFFICES ASSUME Base, Next, NEW e \in Events, rows[e].status \in Terminal
               PROVE  rows'[e] = rows[e]
    BY DEF vars
  <2>1. rows[e].status \notin {"absent", "queued", "processing"}
    BY DEF Terminal
  <2>2. ASSUME NEW f \in Events,
               Enqueue(f) \/ Claim(f) \/ RecoverExpiredLease(f) \/ WindowCloses(f)
        PROVE  rows'[e] = rows[e]
    <3>1. CASE Enqueue(f)
      <4>1. f # e /\ \E stamp \in Stamps : rows' = Inserted(f, stamp)
        BY <3>1, <2>1 DEF Enqueue
      <4> QED BY <4>1 DEF Inserted, Base, TypeOK
    <3>2. CASE Claim(f)
      <4>1. f # e /\ rows' = Claimed(f)
        BY <3>2, <2>1 DEF Claim, Claimable
      <4> QED BY <4>1 DEF Claimed, Base, TypeOK
    <3>3. CASE RecoverExpiredLease(f)
      <4>1. f # e /\ rows' = LeaseRecovered(f)
        BY <3>3, <2>1 DEF RecoverExpiredLease
      <4> QED BY <4>1 DEF LeaseRecovered, Base, TypeOK
    <3>4. CASE WindowCloses(f)
      BY <3>4 DEF WindowCloses
    <3> QED BY <2>2, <3>1, <3>2, <3>3, <3>4
  <2>3. ASSUME NEW f \in Events, NEW c \in Claims,
               Runs(f, c) \/ BeginWrite(f, c) \/ ReplyLands(f, c) \/ Disturbed(f, c)
        PROVE  rows'[e] = rows[e]
    <3>1. rows' = rows \/ (Owns(f, c) /\ rows' \in
             {Completed(f, "replied"), Completed(f, "gave_up"), ReplyUncertain(f),
              ReplyStarted(f, prepared[f][c]), Retried(f), WriteStarted(f)})
      BY <2>3 DEF Runs, Disturbed, CheckWindow, MarkReplyUncertain, ConversationStored,
           LoadWriteAttempts, PerformWrite, AgentReturns, MarkReplyStarted, SendReply,
           ReplyAcknowledged, CompleteReplied, CompleteGivenUp, Retry, StaleClaim, BeginWrite,
           ReplyLands, ConversationFails, AgentInterruptedAfterWrite, AgentThrows, ReplyFails,
           DeadlineExceeded, Dies
    <3>2. Owns(f, c) => f # e
      BY <2>1 DEF Owns
    <3> QED
      BY <3>1, <3>2 DEF Base, TypeOK, Completed, ReplyUncertain, ReplyStarted, Retried, WriteStarted
  <2> QED BY <2>2, <2>3 DEF Next, Idle, vars
<1> QED BY <1>1, Invariance, PTL DEF Spec, TerminalIsFinal

-------------------------------------------------------------------------------
(***************************************************************************)
(* The refinement of ReplyDelivery.                                        *)
(*                                                                         *)
(* Beyond the fences above, a step of the worker maps to a step of the     *)
(* abstract queue because a reply is traced back to the claim that         *)
(* composed it, and because whoever gives up is alone: it may give up with *)
(* a reply on the row (its deadline struck between the commit of           *)
(* markReplyStarted and its return), and then no execution holds it.       *)
(***************************************************************************)

BeforeSend == {"claimed", "conversation", "agent", "writing", "load_writes", "mark_reply",
               "marked", "resend"}

\* A reply was composed by the claim it names or an earlier one has it from the row, and
\* nothing is sent or visible before its send.
Provenance ==
  \A e \in Events :
    /\ rows[e].reply # NoReply => rows[e].reply.claim <= rows[e].attempts
    /\ posts[e] > 0 => \E c \in Claims : flight[e][c] = "landed"
    /\ \A c \in Claims :
         /\ prepared[e][c] # NoReply => prepared[e][c].claim <= c
         /\ pc[e][c] \in {"mark_reply", "marked"} => prepared[e][c].claim = c
         /\ pc[e][c] \in BeforeSend => flight[e][c] = "none"
         /\ pc[e][c] = "uncertain" => rows[e].reply # NoReply

\* An event has an outcome exactly when it is terminal.
Settled == \A e \in Events : rows[e].outcome # "none" <=> rows[e].status \in Terminal

\* Execution c has not sent the reply and is not on its way to.
Still(e, c) ==
  /\ flight[e][c] = "none"
  /\ pc[e][c] \notin {"marked", "resend"}
  /\ ~(pc[e][c] \in {"claimed", "conversation"} /\ prepared[e][c] # NoReply)

GivesUp(e) ==
  rows[e].outcome = "gave_up" \/ \E c \in Claims : c = rows[e].attempts /\ pc[e][c] = "give_up"

\* When an event is given up, nobody has sent its reply and nobody will.
GiveUpFence == \A e \in Events : GivesUp(e) => \A c \in Claims : Still(e, c)

DeliveryInv == Provenance /\ Settled /\ GiveUpFence

\* The start.
LEMMA DeliveryInit == Init => DeliveryInv
<1> SUFFICES ASSUME Init PROVE DeliveryInv
  OBVIOUS
<1>1. /\ \A e \in Events : /\ rows[e].status = "absent" /\ rows[e].outcome = "none"
                           /\ rows[e].reply = NoReply /\ posts[e] = 0
      /\ \A e \in Events, c \in Claims :
           pc[e][c] = "none" /\ prepared[e][c] = NoReply /\ flight[e][c] = "none"
  BY DEF Init, InitStore, AbsentRow
<1>2. Provenance
  BY <1>1 DEF Provenance, BeforeSend
<1>3. Settled /\ GiveUpFence
  BY <1>1 DEF Settled, Terminal, GiveUpFence, GivesUp
<1> QED BY <1>2, <1>3 DEF DeliveryInv

\* The owner that gives up leaves every other execution still: either the row holds no
\* reply, or the owner itself put it there and only it could send it.
LEMMA OwnerIsAlone ==
  ASSUME Base, Fences, Provenance, NEW e \in Events, NEW c \in Claims, c = rows[e].attempts,
         \/ pc[e][c] \in {"agent", "writing", "load_writes", "mark_reply", "marked"}
         \/ pc[e][c] = "conversation" /\ prepared[e][c] = NoReply,
         NEW d \in Claims, d # c
  PROVE  flight[e][c] = "none" /\ Still(e, d)
<1>1. flight[e][c] = "none"
  BY DEF Provenance, BeforeSend
<1>2. \/ Still(e, d)
      \/ prepared[e][d] = rows[e].reply /\ rows[e].reply # NoReply
  BY DEF Still, Fences, ReplyFence
<1>3. CASE pc[e][c] # "marked"
  <2>1. rows[e].reply = NoReply
    BY <1>3 DEF Fences, ReplyFence
  <2> QED BY <1>1, <1>2, <2>1
<1>4. CASE pc[e][c] = "marked" /\ ~Still(e, d)
  <2>1. prepared[e][d] = prepared[e][c] /\ prepared[e][d] # NoReply
    BY <1>2, <1>4 DEF Fences, ReplyFence
  <2>2. prepared[e][c].claim = c
    BY <1>4 DEF Provenance
  <2>3. c <= d
    BY <2>1, <2>2 DEF Provenance
  <2>4. ~(d > rows[e].attempts)
    <3>1. d > rows[e].attempts => pc[e][d] = "none" /\ flight[e][d] = "none"
      BY DEF Base, Fresh
    <3> QED BY <1>4, <3>1 DEF Still
  <2> QED BY <2>3, <2>4, ClaimsAreNaturals
<1> QED BY <1>1, <1>3, <1>4

\* What a step may not do when it moves one execution on and keeps the reply of the row.
MovesOn(e, c, step, status, writeStarted, outcome) ==
  /\ RowSet(rows', e, status, rows[e].attempts, writeStarted, rows[e].reply, outcome)
  /\ pc'[e][c] = step
  /\ \A f \in Events, d \in Claims : f # e \/ d # c => pc'[f][d] = pc[f][d]
  /\ UNCHANGED <<prepared, flight, posts>>
  /\ outcome # "none" <=> status \in Terminal
  /\ outcome = "gave_up" => GivesUp(e)
  /\ step \in BeforeSend => pc[e][c] \in BeforeSend
  /\ step \in {"mark_reply", "marked"} => pc[e][c] = step
  /\ step = "uncertain" => rows[e].reply # NoReply
  /\ step \in {"claimed", "conversation", "resend"} =>
       \/ pc[e][c] = step
       \/ pc[e][c] \in {"claimed", "conversation"} /\ (step = "resend" => prepared[e][c] # NoReply)
  /\ step = "give_up" =>
       \/ pc[e][c] \in {"give_up", "agent", "writing", "load_writes", "mark_reply", "marked"}
       \/ pc[e][c] = "conversation" /\ prepared[e][c] = NoReply

\* Such a step keeps the invariant.
LEMMA MovingOnKeepsDelivery ==
  ASSUME Base, Fences, DeliveryInv, NEW e \in Events, NEW c \in Claims,
         NEW step, NEW status, NEW ws, NEW outcome, MovesOn(e, c, step, status, ws, outcome)
  PROVE  DeliveryInv'
<1>1. /\ rows'[e].status = status /\ rows'[e].outcome = outcome /\ rows'[e].attempts = rows[e].attempts
      /\ rows'[e].reply = rows[e].reply /\ \A f \in Events : f # e => rows'[f] = rows[f]
  BY DEF MovesOn, RowSet
<1>2. /\ pc'[e][c] = step /\ \A f \in Events, d \in Claims : f # e \/ d # c => pc'[f][d] = pc[f][d]
      /\ prepared' = prepared /\ flight' = flight /\ posts' = posts
  BY DEF MovesOn
<1>3. Provenance'
  <2>1. \A f \in Events : rows'[f].reply = rows[f].reply /\ rows'[f].attempts = rows[f].attempts
    BY <1>1
  <2>2. \A f \in Events, d \in Claims :
          /\ pc'[f][d] \in {"mark_reply", "marked"} => pc[f][d] \in {"mark_reply", "marked"}
          /\ pc'[f][d] \in BeforeSend => pc[f][d] \in BeforeSend
          /\ pc'[f][d] = "uncertain" => rows[f].reply # NoReply
    BY <1>2 DEF MovesOn, DeliveryInv, Provenance
  <2> QED BY <1>2, <2>1, <2>2 DEF DeliveryInv, Provenance
<1>4. Settled'
  BY <1>1 DEF MovesOn, DeliveryInv, Settled
<1>5. ASSUME NEW f \in Events, GivesUp(f)', NEW d \in Claims PROVE Still(f, d)'
  <2>1. CASE f # e
    <3>1. GivesUp(f)
      BY <1>1, <1>2, <1>5, <2>1 DEF GivesUp
    <3> QED BY <1>2, <2>1, <3>1 DEF DeliveryInv, GiveUpFence, Still
  <2>2. CASE f = e /\ GivesUp(e)
    <3>1. \A b \in Claims : Still(e, b)
      BY <2>2 DEF DeliveryInv, GiveUpFence
    <3>2. CASE d # c
      BY <1>2, <2>2, <3>1, <3>2 DEF Still
    <3>3. CASE d = c
      BY <1>2, <2>2, <3>1, <3>3 DEF Still, MovesOn
    <3> QED BY <3>2, <3>3
  <2>3. CASE f = e /\ ~GivesUp(e)
    <3>1. c = rows[e].attempts /\ step = "give_up" /\ pc[e][c] # "give_up"
      BY <1>1, <1>2, <1>5, <2>3 DEF MovesOn, GivesUp
    <3>2. CASE d # c
      <4>1. Still(e, d)
        BY <3>1, <3>2, OwnerIsAlone DEF MovesOn, DeliveryInv
      <4> QED BY <1>2, <2>3, <3>2, <4>1 DEF Still
    <3>3. CASE d = c
      <4>1. flight[e][c] = "none"
        BY <3>1 DEF MovesOn, DeliveryInv, Provenance, BeforeSend
      <4> QED BY <1>2, <2>3, <3>1, <3>3, <4>1 DEF Still
    <3> QED BY <3>2, <3>3
  <2> QED BY <2>1, <2>2, <2>3
<1> QED BY <1>3, <1>4, <1>5 DEF DeliveryInv, GiveUpFence

\* An execution that holds no reply composes one under its own claim.
LEMMA ComposingKeepsDelivery ==
  ASSUME Base, Fences, DeliveryInv, NEW e \in Events, NEW c \in Claims, NEW kind \in ReplyKinds,
         pc[e][c] \in {"agent", "writing", "load_writes", "conversation"},
         pc' = [pc EXCEPT ![e][c] = "mark_reply"],
         prepared' = [prepared EXCEPT ![e][c] = [kind |-> kind, claim |-> c]],
         UNCHANGED <<rows, flight, posts>>
  PROVE  DeliveryInv'
<1> DEFINE v == [kind |-> kind, claim |-> c]
<1>1. v.claim = c /\ prepared' = [prepared EXCEPT ![e][c] = v]
  OBVIOUS
<1> HIDE DEF v
<1>2. /\ pc'[e][c] = "mark_reply" /\ prepared'[e][c] = v
      /\ \A f \in Events, d \in Claims :
           f # e \/ d # c => pc'[f][d] = pc[f][d] /\ prepared'[f][d] = prepared[f][d]
      /\ rows' = rows /\ flight' = flight /\ posts' = posts
  BY <1>1 DEF Base, TypeOK
<1>3. Provenance'
  <2>1. flight[e][c] = "none"
    BY DEF DeliveryInv, Provenance, BeforeSend
  <2>2. ASSUME NEW f \in Events, NEW d \in Claims
        PROVE  /\ prepared'[f][d] # NoReply => prepared'[f][d].claim <= d
               /\ pc'[f][d] \in {"mark_reply", "marked"} => prepared'[f][d].claim = d
               /\ pc'[f][d] \in BeforeSend => flight'[f][d] = "none"
               /\ pc'[f][d] = "uncertain" => rows'[f].reply # NoReply
    <3>1. CASE f = e /\ d = c
      BY <1>1, <1>2, <2>1, <3>1, ClaimsAreNaturals
    <3>2. CASE f # e \/ d # c
      BY <1>2, <3>2 DEF DeliveryInv, Provenance
    <3> QED BY <3>1, <3>2
  <2> QED BY <1>2, <2>2 DEF DeliveryInv, Provenance
<1>4. Settled'
  BY <1>2 DEF DeliveryInv, Settled
<1>5. GiveUpFence'
  BY <1>2 DEF DeliveryInv, GiveUpFence, GivesUp, Still
<1> QED BY <1>3, <1>4, <1>5 DEF DeliveryInv

\* enqueue adds a row without a reply, on which nothing is under way.
LEMMA EnqueueKeepsDelivery ==
  ASSUME Base, Fences, DeliveryInv, NEW e \in Events, Enqueue(e)
  PROVE  DeliveryInv'
<1>1. PICK stamp \in Stamps : rows[e].status = "absent" /\ rows' = Inserted(e, stamp)
  BY DEF Enqueue
<1>2. RowSet(rows', e, "queued", 0, FALSE, NoReply, "none")
  BY <1>1, InsertedRow DEF Base, TypeOK
<1>3. rows[e].attempts = 0 /\ rows[e].reply = NoReply /\ rows[e].outcome = "none"
  BY <1>1 DEF Base, Unaccepted
<1>4. UNCHANGED <<pc, prepared, flight, posts>>
  BY DEF Enqueue, execution, feishu
<1>5. /\ \A f \in Events : /\ rows'[f].reply = rows[f].reply /\ rows'[f].attempts = rows[f].attempts
                           /\ rows'[f].outcome = rows[f].outcome
      /\ rows'[e].status = "queued" /\ \A f \in Events : f # e => rows'[f] = rows[f]
  BY <1>2, <1>3 DEF RowSet
<1>6. Provenance'
  BY <1>4, <1>5 DEF DeliveryInv, Provenance
<1>7. Settled'
  BY <1>1, <1>5 DEF DeliveryInv, Settled, Terminal
<1>8. GiveUpFence'
  BY <1>4, <1>5 DEF DeliveryInv, GiveUpFence, GivesUp, Still
<1> QED BY <1>6, <1>7, <1>8 DEF DeliveryInv

\* claimReady starts the next execution with the reply of the row; the one that gave up
\* before it owns the event no more.
LEMMA ClaimKeepsDelivery ==
  ASSUME Base, Fences, DeliveryInv, NEW e \in Events, Claim(e)
  PROVE  DeliveryInv'
<1> DEFINE c == rows[e].attempts + 1
<1>1. RowSet(rows', e, "processing", c, rows[e].writeStarted, rows[e].reply, rows[e].outcome)
  BY ClaimedRow DEF Claim, Base, TypeOK
<1>2. c \in Claims /\ rows[e].status = "queued" /\ rows[e].attempts \in Nat
  BY WorkerAssumption DEF WorkerAssumption, Claim, Claimable, Claims, Row, Base, TypeOK, Budget
<1>3. /\ pc' = [pc EXCEPT ![e][c] = "claimed"]
      /\ prepared' = [prepared EXCEPT ![e][c] = rows[e].reply]
      /\ UNCHANGED <<flight, posts>>
  BY DEF Claim, Goto, feishu
<1>4. flight[e][c] = "none"
  BY <1>2 DEF Base, Fresh
<1>5. rows[e].attempts < c /\ rows[e].attempts <= c /\ rows[e].attempts # c
  BY <1>2
<1>6. rows[e].reply # NoReply => rows[e].reply.claim <= c
  <2>1. rows[e].reply \in Replies \cup {NoReply}
    BY DEF Base, TypeOK, Row
  <2>2. rows[e].reply # NoReply => rows[e].reply.claim \in Nat
    BY <2>1 DEF Replies
  <2> QED BY <1>2, <2>2 DEF DeliveryInv, Provenance
<1> HIDE DEF c
<1>7. /\ pc'[e][c] = "claimed" /\ prepared'[e][c] = rows[e].reply
      /\ \A f \in Events, d \in Claims :
           f # e \/ d # c => pc'[f][d] = pc[f][d] /\ prepared'[f][d] = prepared[f][d]
      /\ flight' = flight /\ posts' = posts
  BY <1>2, <1>3 DEF Base, TypeOK
<1>8. /\ rows'[e].status = "processing" /\ rows'[e].attempts = c /\ rows'[e].outcome = rows[e].outcome
      /\ \A f \in Events : rows'[f].reply = rows[f].reply
      /\ \A f \in Events : f # e => rows'[f] = rows[f]
  BY <1>1 DEF RowSet
<1>9. Provenance'
  <2>1. ASSUME NEW f \in Events, NEW d \in Claims
        PROVE  /\ prepared'[f][d] # NoReply => prepared'[f][d].claim <= d
               /\ pc'[f][d] \in {"mark_reply", "marked"} => prepared'[f][d].claim = d
               /\ pc'[f][d] \in BeforeSend => flight'[f][d] = "none"
               /\ pc'[f][d] = "uncertain" => rows'[f].reply # NoReply
    <3>1. CASE f = e /\ d = c
      BY <1>4, <1>6, <1>7, <3>1
    <3>2. CASE f # e \/ d # c
      BY <1>7, <1>8, <3>2 DEF DeliveryInv, Provenance
    <3> QED BY <3>1, <3>2
  <2>2. ASSUME NEW f \in Events, rows'[f].reply # NoReply PROVE rows'[f].reply.claim <= rows'[f].attempts
    <3>1. CASE f = e
      BY <1>6, <1>8, <2>2, <3>1
    <3>2. CASE f # e
      BY <1>8, <2>2, <3>2 DEF DeliveryInv, Provenance
    <3> QED BY <3>1, <3>2
  <2> QED BY <1>7, <2>1, <2>2 DEF DeliveryInv, Provenance
<1>10. Settled'
  BY <1>2, <1>8 DEF DeliveryInv, Settled, Terminal
<1>11. rows[e].outcome = "none"
  BY <1>2 DEF DeliveryInv, Settled, Terminal
<1>12. ASSUME NEW f \in Events, GivesUp(f)' PROVE f # e /\ GivesUp(f)
  <2>1. f # e
    BY <1>7, <1>8, <1>11, <1>12 DEF GivesUp
  <2> QED BY <1>7, <1>8, <1>12, <2>1 DEF GivesUp
<1>13. GiveUpFence'
  BY <1>7, <1>12 DEF DeliveryInv, GiveUpFence, Still
<1> QED BY <1>9, <1>10, <1>13 DEF DeliveryInv

\* markReplyStarted puts the owner's reply on the row.
LEMMA MarkingKeepsDelivery ==
  ASSUME Base, Fences, DeliveryInv, NEW e \in Events, NEW c \in Claims, MarkReplyStarted(e, c)
  PROVE  DeliveryInv'
<1>1. RowSet(rows', e, rows[e].status, rows[e].attempts, rows[e].writeStarted, prepared[e][c], rows[e].outcome)
  BY ReplyStartedRow DEF MarkReplyStarted, Base, TypeOK
<1>2. /\ pc[e][c] = "mark_reply" /\ rows[e].attempts = c /\ rows[e].status = "processing"
      /\ pc' = [pc EXCEPT ![e][c] = "marked"] /\ UNCHANGED <<prepared, flight, posts>>
  BY DEF MarkReplyStarted, Owns, Goto, feishu
<1>3. pc'[e][c] = "marked" /\ \A f \in Events, d \in Claims : f # e \/ d # c => pc'[f][d] = pc[f][d]
  BY <1>2 DEF Base, TypeOK
<1>4. /\ rows'[e].reply = prepared[e][c] /\ rows'[e].attempts = c /\ rows'[e].status = "processing"
      /\ rows'[e].outcome = rows[e].outcome /\ \A f \in Events : f # e => rows'[f] = rows[f]
  BY <1>1, <1>2 DEF RowSet
<1>5. /\ prepared[e][c].claim = c /\ prepared[e][c] # NoReply /\ flight[e][c] = "none"
      /\ rows[e].outcome = "none"
  BY <1>2 DEF DeliveryInv, Provenance, BeforeSend, Settled, Terminal, Fences, ReplyFence
<1>6. Provenance'
  <2>1. ASSUME NEW f \in Events, NEW d \in Claims
        PROVE  /\ prepared'[f][d] # NoReply => prepared'[f][d].claim <= d
               /\ pc'[f][d] \in {"mark_reply", "marked"} => prepared'[f][d].claim = d
               /\ pc'[f][d] \in BeforeSend => flight'[f][d] = "none"
               /\ pc'[f][d] = "uncertain" => rows'[f].reply # NoReply
    <3>1. CASE f = e /\ d = c
      BY <1>2, <1>3, <1>5, <3>1, ClaimsAreNaturals
    <3>2. CASE f # e \/ d # c
      BY <1>2, <1>3, <1>4, <1>5, <3>2 DEF DeliveryInv, Provenance
    <3> QED BY <3>1, <3>2
  <2>2. \A f \in Events : rows'[f].reply # NoReply => rows'[f].reply.claim <= rows'[f].attempts
    BY <1>4, <1>5, ClaimsAreNaturals DEF DeliveryInv, Provenance
  <2> QED BY <1>2, <2>1, <2>2 DEF DeliveryInv, Provenance
<1>7. Settled'
  BY <1>2, <1>4 DEF DeliveryInv, Settled
<1>8. ASSUME NEW f \in Events, GivesUp(f)' PROVE f # e /\ GivesUp(f)
  BY <1>3, <1>4, <1>5, <1>8 DEF GivesUp
<1>9. GiveUpFence'
  BY <1>2, <1>3, <1>8 DEF DeliveryInv, GiveUpFence, Still
<1> QED BY <1>6, <1>7, <1>9 DEF DeliveryInv

\* A send, and its arrival: neither is possible once the event is given up.
LEMMA SendingKeepsDelivery ==
  ASSUME Base, Fences, DeliveryInv, NEW e \in Events, NEW c \in Claims,
         SendReply(e, c) \/ ReplyLands(e, c)
  PROVE  DeliveryInv' /\ ~GivesUp(e)
<1>1. rows' = rows /\ prepared' = prepared
  BY DEF SendReply, ReplyLands
<1>2. ~Still(e, c)
  BY DEF SendReply, ReplyLands, Still
<1>3. ~GivesUp(e)
  BY <1>2 DEF DeliveryInv, GiveUpFence
<1>4. /\ \A f \in Events, d \in Claims :
           f # e \/ d # c => pc'[f][d] = pc[f][d] /\ flight'[f][d] = flight[f][d]
      /\ \A f \in Events : f # e => posts'[f] = posts[f]
      /\ \/ pc'[e][c] = "sending" /\ pc[e][c] \in {"marked", "resend"} /\ posts' = posts
         \/ pc' = pc /\ flight'[e][c] = "landed" /\ flight[e][c] = "in_flight"
  BY DEF SendReply, ReplyLands, Goto, feishu, Base, TypeOK
<1>5. \/ pc'[e][c] = "sending" /\ pc'[e][c] \notin BeforeSend
      \/ pc' = pc /\ flight[e][c] # "none"
  BY <1>4 DEF BeforeSend
<1>6. \A f \in Events, d \in Claims :
        /\ pc'[f][d] \in {"mark_reply", "marked"} => pc[f][d] \in {"mark_reply", "marked"}
        /\ pc'[f][d] \in BeforeSend => flight'[f][d] = "none"
        /\ pc'[f][d] = "uncertain" => rows[f].reply # NoReply
  BY <1>4, <1>5 DEF DeliveryInv, Provenance, BeforeSend
<1>7. \A f \in Events : posts'[f] > 0 => \E d \in Claims : flight'[f][d] = "landed"
  <2>1. SUFFICES ASSUME NEW f \in Events, posts'[f] > 0 PROVE \E d \in Claims : flight'[f][d] = "landed"
    OBVIOUS
  <2>2. CASE flight'[e][c] = "landed" /\ f = e
    BY <2>2
  <2>3. CASE ~(flight'[e][c] = "landed" /\ f = e)
    <3>1. posts'[f] = posts[f]
      BY <1>4, <2>3
    <3>2. PICK d \in Claims : flight[f][d] = "landed"
      BY <2>1, <3>1 DEF DeliveryInv, Provenance
    <3>3. f # e \/ d # c
      BY <1>4, <2>3, <3>2 DEF DeliveryInv, Provenance, BeforeSend
    <3> QED BY <1>4, <3>2, <3>3
  <2> QED BY <2>2, <2>3
<1>8. Provenance'
  BY <1>1, <1>6, <1>7 DEF DeliveryInv, Provenance
<1>9. Settled'
  BY <1>1 DEF DeliveryInv, Settled
<1>10. ASSUME NEW f \in Events, GivesUp(f)' PROVE f # e /\ GivesUp(f)
  <2>1. \A d \in Claims : pc'[f][d] = "give_up" => pc[f][d] = "give_up"
    BY <1>4
  <2>2. GivesUp(f)
    BY <1>1, <1>10, <2>1 DEF GivesUp
  <2> QED BY <1>3, <2>2
<1>11. GiveUpFence'
  BY <1>1, <1>4, <1>10 DEF DeliveryInv, GiveUpFence, Still
<1> QED BY <1>3, <1>8, <1>9, <1>11 DEF DeliveryInv

\* A step that leaves all rows alone.
LEMMA RowsKept ==
  ASSUME Base, NEW e \in Events, rows' = rows
  PROVE  RowSet(rows', e, rows[e].status, rows[e].attempts, rows[e].writeStarted, rows[e].reply, rows[e].outcome)
  BY DEF RowSet, Base, TypeOK

\* The executions that move on, and those that are cut short, without a statement that
\* changes the row.
LEMMA MovesWithoutRow ==
  ASSUME Base, Fences, DeliveryInv, NEW e \in Events, NEW c \in Claims, NEW step,
         UNCHANGED <<rows, prepared, flight, posts>>, pc' = [pc EXCEPT ![e][c] = step],
         step \in BeforeSend => pc[e][c] \in BeforeSend,
         step \notin {"mark_reply", "marked"},
         step = "uncertain" => prepared[e][c] # NoReply /\ pc[e][c] = "claimed",
         step \in {"claimed", "conversation", "resend"} =>
           pc[e][c] \in {"claimed", "conversation"} /\ (step = "resend" => prepared[e][c] # NoReply),
         step = "give_up" =>
           \/ pc[e][c] \in {"give_up", "agent", "writing", "load_writes", "mark_reply", "marked"}
           \/ pc[e][c] = "conversation" /\ prepared[e][c] = NoReply
  PROVE  MovesOn(e, c, step, rows[e].status, rows[e].writeStarted, rows[e].outcome)
<1>1. pc'[e][c] = step /\ \A f \in Events, d \in Claims : f # e \/ d # c => pc'[f][d] = pc[f][d]
  BY DEF Base, TypeOK
<1>2. step = "uncertain" => rows[e].reply # NoReply
  BY DEF Fences, ReplyFence
<1>3. rows[e].outcome # "none" <=> rows[e].status \in Terminal
  BY DEF DeliveryInv, Settled
<1>4. rows[e].outcome = "gave_up" => GivesUp(e)
  BY DEF GivesUp
<1>5. RowSet(rows', e, rows[e].status, rows[e].attempts, rows[e].writeStarted, rows[e].reply, rows[e].outcome)
  BY RowsKept
<1> QED BY <1>1, <1>2, <1>3, <1>4, <1>5 DEF MovesOn

\* The execution's own statements that leave the reply of the row as it is, and the
\* executions' steps between their statements.
Onward(e, c) ==
  \/ CheckWindow(e, c) \/ PerformWrite(e, c) \/ ReplyAcknowledged(e, c) \/ StaleClaim(e, c)
  \/ ConversationFails(e, c) \/ ReplyFails(e, c) \/ DeadlineExceeded(e, c) \/ Dies(e, c)
  \/ (ConversationStored(e, c) /\ pc'[e][c] # "mark_reply")
  \/ (AgentThrows(e, c) /\ c < AttemptLimit)

\* These steps change neither the rows nor what is sent or visible.
LEMMA OnwardMovesOn ==
  ASSUME Base, Fences, DeliveryInv, NEW e \in Events, NEW c \in Claims, Onward(e, c)
  PROVE  \E step : MovesOn(e, c, step, rows[e].status, rows[e].writeStarted, rows[e].outcome)
<1> DEFINE step == pc'[e][c]
<1>1. PICK s : pc' = [pc EXCEPT ![e][c] = s]
  BY DEF Onward, CheckWindow, PerformWrite, ReplyAcknowledged, StaleClaim, ConversationFails,
         ReplyFails, DeadlineExceeded, Dies, ConversationStored, AgentThrows, Goto
<1>2. s = step /\ pc' = [pc EXCEPT ![e][c] = step]
  BY <1>1 DEF Base, TypeOK
<1>3. UNCHANGED <<rows, prepared, flight, posts>>
  <2>1. CASE ConversationStored(e, c) /\ pc'[e][c] # "mark_reply"
    <3>1. ~(prepared[e][c] = NoReply /\ e \in Unsupported)
      BY <1>2, <2>1 DEF ConversationStored, PrepareStep, Goto, Base, TypeOK
    <3> QED BY <2>1, <3>1 DEF ConversationStored, feishu
  <2> QED BY <2>1 DEF Onward, CheckWindow, PerformWrite, ReplyAcknowledged, StaleClaim, ConversationFails,
                      ReplyFails, DeadlineExceeded, Dies, AgentThrows, feishu
<1> HIDE DEF step
<1>4. CASE CheckWindow(e, c)
  <2>1. /\ pc[e][c] = "claimed"
        /\ step = IF prepared[e][c] # NoReply /\ ~windowOpen[e] THEN "uncertain" ELSE "conversation"
    BY <1>1, <1>2, <1>4 DEF CheckWindow, Goto, Base, TypeOK, step
  <2>2. /\ step \in BeforeSend => pc[e][c] \in BeforeSend
        /\ step \notin {"mark_reply", "marked", "resend", "give_up"}
        /\ step = "uncertain" => prepared[e][c] # NoReply
    BY <2>1 DEF BeforeSend
  <2> QED BY <1>2, <1>3, <2>1, <2>2, MovesWithoutRow
<1>5. CASE ConversationStored(e, c) /\ step # "mark_reply"
  <2>1. /\ pc[e][c] = "conversation"
        /\ \/ step = "resend" /\ prepared[e][c] # NoReply
           \/ step \in {"load_writes", "agent"}
    BY <1>1, <1>2, <1>5 DEF ConversationStored, PrepareStep, Goto, Base, TypeOK, step
  <2> QED BY <1>2, <1>3, <2>1, MovesWithoutRow DEF BeforeSend
<1>6. CASE PerformWrite(e, c)
  <2>1. pc[e][c] = "writing" /\ step = "agent"
    BY <1>6 DEF PerformWrite, Goto, Base, TypeOK, step
  <2>2. /\ pc[e][c] \in BeforeSend
        /\ step \notin {"mark_reply", "marked", "uncertain", "claimed", "conversation", "resend", "give_up"}
    BY <2>1 DEF BeforeSend
  <2> QED BY <1>2, <1>3, <2>1, <2>2, MovesWithoutRow
<1>7. CASE ReplyAcknowledged(e, c) \/ StaleClaim(e, c) \/ ReplyFails(e, c) \/ Dies(e, c)
           \/ (AgentThrows(e, c) /\ c < AttemptLimit)
  <2>1. step \in {"replied", "dead", "retry"}
    BY <1>7 DEF ReplyAcknowledged, StaleClaim, ReplyFails, Dies, AgentThrows, Goto, Base, TypeOK, step
  <2> QED BY <1>2, <1>3, <2>1, MovesWithoutRow DEF BeforeSend
<1>8. CASE ConversationFails(e, c)
  <2>1. /\ pc[e][c] = "conversation"
        /\ step \in {"retry", "give_up"} /\ (step = "give_up" => prepared[e][c] = NoReply)
    BY <1>8 DEF ConversationFails, BeforeReplyStep, Goto, Base, TypeOK, step
  <2> QED BY <1>2, <1>3, <2>1, MovesWithoutRow DEF BeforeSend
<1>9. CASE DeadlineExceeded(e, c)
  <2>1. /\ pc[e][c] \in {"conversation", "agent", "writing", "load_writes", "mark_reply",
                         "marked", "resend", "sending", "replied"}
        /\ step \in {"retry", "give_up"} /\ (step = "give_up" => ~ReplyHasStarted(e, c))
    BY <1>9 DEF DeadlineExceeded, BeforeReplyStep, Goto, Base, TypeOK, step
  <2>2. pc[e][c] \in {"resend", "sending", "replied"} => prepared[e][c] # NoReply
    BY DEF Fences, ReplyFence
  <2>3. step = "give_up" =>
          \/ pc[e][c] \in {"agent", "writing", "load_writes", "mark_reply", "marked"}
          \/ pc[e][c] = "conversation" /\ prepared[e][c] = NoReply
    BY <2>1, <2>2 DEF ReplyHasStarted
  <2> QED BY <1>2, <1>3, <2>1, <2>3, MovesWithoutRow DEF BeforeSend
<1> QED BY <1>4, <1>5, <1>6, <1>7, <1>8, <1>9 DEF Onward, step

\* The executions' statements that change other columns of the row than the reply.
LEMMA StatementsMoveOn ==
  ASSUME Base, Fences, DeliveryInv, NEW e \in Events, NEW c \in Claims
  PROVE  /\ MarkReplyUncertain(e, c) =>
              MovesOn(e, c, "done", "failed", rows[e].writeStarted, "uncertain")
         /\ CompleteReplied(e, c) =>
              MovesOn(e, c, "done", "completed", rows[e].writeStarted, "replied")
         /\ CompleteGivenUp(e, c) =>
              MovesOn(e, c, "done", "completed", rows[e].writeStarted, "gave_up")
         /\ Retry(e, c) =>
              MovesOn(e, c, "done", "queued", rows[e].writeStarted, "none") /\ rows[e].outcome = "none"
         /\ BeginWrite(e, c) =>
              MovesOn(e, c, "writing", rows[e].status, TRUE, rows[e].outcome)
<1> USE DEF Goto, feishu
<1>1. ASSUME NEW step, pc' = [pc EXCEPT ![e][c] = step], step \in {"done", "writing"},
             step = "writing" => pc[e][c] = "agent",
             UNCHANGED <<prepared, flight, posts>>,
             NEW status, NEW ws, NEW outcome,
             RowSet(rows', e, status, rows[e].attempts, ws, rows[e].reply, outcome),
             outcome # "none" <=> status \in Terminal, outcome = "gave_up" => GivesUp(e)
      PROVE  MovesOn(e, c, step, status, ws, outcome)
  <2>1. pc'[e][c] = step /\ \A f \in Events, d \in Claims : f # e \/ d # c => pc'[f][d] = pc[f][d]
    BY <1>1 DEF Base, TypeOK
  <2>2. /\ step \in BeforeSend => pc[e][c] \in BeforeSend
        /\ step \notin {"mark_reply", "marked", "uncertain", "claimed", "conversation", "resend", "give_up"}
    BY <1>1 DEF BeforeSend
  <2> QED BY <1>1, <2>1, <2>2 DEF MovesOn
<1>2. rows[e].status = "processing" => rows[e].outcome = "none"
  BY DEF DeliveryInv, Settled, Terminal
<1>3. ASSUME MarkReplyUncertain(e, c)
      PROVE  MovesOn(e, c, "done", "failed", rows[e].writeStarted, "uncertain")
  <2>1. RowSet(rows', e, "failed", rows[e].attempts, rows[e].writeStarted, rows[e].reply, "uncertain")
    BY <1>3, ReplyUncertainRow DEF MarkReplyUncertain, Base, TypeOK
  <2>2. "uncertain" # "none" /\ "failed" \in Terminal /\ "uncertain" # "gave_up"
    BY DEF Terminal
  <2>3. pc' = [pc EXCEPT ![e][c] = "done"] /\ UNCHANGED <<prepared, flight, posts>>
    BY <1>3 DEF MarkReplyUncertain
  <2> QED BY <1>1, <2>1, <2>2, <2>3
<1>4. ASSUME CompleteReplied(e, c)
      PROVE  MovesOn(e, c, "done", "completed", rows[e].writeStarted, "replied")
  <2>1. RowSet(rows', e, "completed", rows[e].attempts, rows[e].writeStarted, rows[e].reply, "replied")
    BY <1>4, CompletedRow DEF CompleteReplied, Base, TypeOK, Outcomes
  <2>2. "replied" # "none" /\ "completed" \in Terminal /\ "replied" # "gave_up"
    BY DEF Terminal
  <2>3. pc' = [pc EXCEPT ![e][c] = "done"] /\ UNCHANGED <<prepared, flight, posts>>
    BY <1>4 DEF CompleteReplied
  <2> QED BY <1>1, <2>1, <2>2, <2>3
<1>5. ASSUME CompleteGivenUp(e, c)
      PROVE  MovesOn(e, c, "done", "completed", rows[e].writeStarted, "gave_up")
  <2>1. RowSet(rows', e, "completed", rows[e].attempts, rows[e].writeStarted, rows[e].reply, "gave_up")
    BY <1>5, CompletedRow DEF CompleteGivenUp, Base, TypeOK, Outcomes
  <2>2. "gave_up" # "none" /\ "completed" \in Terminal /\ GivesUp(e)
    BY <1>5 DEF Terminal, GivesUp, CompleteGivenUp, Owns
  <2>3. pc' = [pc EXCEPT ![e][c] = "done"] /\ UNCHANGED <<prepared, flight, posts>>
    BY <1>5 DEF CompleteGivenUp
  <2> QED BY <1>1, <2>1, <2>2, <2>3
<1>6. ASSUME Retry(e, c)
      PROVE  MovesOn(e, c, "done", "queued", rows[e].writeStarted, "none") /\ rows[e].outcome = "none"
  <2>1. rows[e].outcome = "none"
    BY <1>2, <1>6 DEF Retry, Owns
  <2>2. RowSet(rows', e, "queued", rows[e].attempts, rows[e].writeStarted, rows[e].reply, "none")
    BY <1>6, <2>1, RetriedRow DEF Retry, Base, TypeOK
  <2>3. "queued" \notin Terminal /\ "none" # "gave_up"
    BY DEF Terminal
  <2>4. pc' = [pc EXCEPT ![e][c] = "done"] /\ UNCHANGED <<prepared, flight, posts>>
    BY <1>6 DEF Retry
  <2> QED BY <1>1, <2>1, <2>2, <2>3, <2>4
<1>7. ASSUME BeginWrite(e, c)
      PROVE  MovesOn(e, c, "writing", rows[e].status, TRUE, rows[e].outcome)
  <2>1. RowSet(rows', e, rows[e].status, rows[e].attempts, TRUE, rows[e].reply, rows[e].outcome)
    BY <1>7, WriteStartedRow DEF BeginWrite, Base, TypeOK
  <2>2. (rows[e].outcome # "none" <=> rows[e].status \in Terminal) /\ (rows[e].outcome = "gave_up" => GivesUp(e))
    BY DEF DeliveryInv, Settled, GivesUp
  <2>3. pc' = [pc EXCEPT ![e][c] = "writing"] /\ UNCHANGED <<prepared, flight, posts>> /\ pc[e][c] = "agent"
    BY <1>7 DEF BeginWrite
  <2> QED BY <1>1, <2>1, <2>2, <2>3
<1> QED BY <1>3, <1>4, <1>5, <1>6, <1>7

\* An expired lease goes back to the queue, the window closes, or nothing happens at all:
\* no execution moves.
LEMMA OutsideMovesOn ==
  ASSUME Base, Fences, DeliveryInv, NEW e \in Events,
         RecoverExpiredLease(e) \/ WindowCloses(e) \/ UNCHANGED vars
  PROVE  \E c \in Claims : \E step, status, ws, outcome :
           /\ MovesOn(e, c, step, status, ws, outcome)
           /\ outcome = rows[e].outcome
           /\ status = rows[e].status \/ {status, rows[e].status} = {"queued", "processing"}
<1>1. 1 \in Claims
  BY WorkerAssumption DEF Claims, WorkerAssumption
<1>2. UNCHANGED <<pc, prepared, flight, posts>>
  BY DEF RecoverExpiredLease, WindowCloses, vars, execution, feishu
<1>3. PICK status :
        /\ RowSet(rows', e, status, rows[e].attempts, rows[e].writeStarted, rows[e].reply, rows[e].outcome)
        /\ rows[e].outcome # "none" <=> status \in Terminal
        /\ status = rows[e].status \/ {status, rows[e].status} = {"queued", "processing"}
  <2>1. rows[e].outcome # "none" <=> rows[e].status \in Terminal
    BY DEF DeliveryInv, Settled
  <2>2. CASE RecoverExpiredLease(e)
    <3>1. RowSet(rows', e, "queued", rows[e].attempts, rows[e].writeStarted, rows[e].reply, rows[e].outcome)
      BY <2>2, LeaseRecoveredRow DEF RecoverExpiredLease, Base, TypeOK
    <3>2. rows[e].status = "processing" /\ rows[e].outcome = "none" /\ "queued" \notin Terminal
      BY <2>1, <2>2 DEF RecoverExpiredLease, Terminal
    <3> QED BY <3>1, <3>2
  <2>3. CASE WindowCloses(e) \/ UNCHANGED vars
    <3>1. rows' = rows
      BY <2>3 DEF WindowCloses, vars
    <3> QED BY <2>1, <3>1, RowsKept
  <2> QED BY <2>2, <2>3
<1>4. MovesOn(e, 1, pc[e][1], status, rows[e].writeStarted, rows[e].outcome)
  <2>1. rows[e].outcome = "gave_up" => GivesUp(e)
    BY DEF GivesUp
  <2>2. pc[e][1] = "uncertain" => rows[e].reply # NoReply
    BY <1>1 DEF DeliveryInv, Provenance
  <2> QED BY <1>2, <1>3, <2>1, <2>2 DEF MovesOn
<1> QED BY <1>1, <1>3, <1>4

\* An execution composes a reply.
ComposesReply(e, c) ==
  \/ (ConversationStored(e, c) /\ pc'[e][c] = "mark_reply")
  \/ LoadWriteAttempts(e, c) \/ AgentReturns(e, c) \/ AgentInterruptedAfterWrite(e, c)
  \/ (AgentThrows(e, c) /\ ~(c < AttemptLimit))

\* Nothing of a composed reply is on a row or in the chat yet.
LEMMA ComposesKeepsDelivery ==
  ASSUME Base, Fences, DeliveryInv, NEW e \in Events, NEW c \in Claims, ComposesReply(e, c)
  PROVE  DeliveryInv' /\ UNCHANGED <<rows, posts>>
<1> USE DEF Goto, feishu, Compose
<1>1. PICK kind \in ReplyKinds :
        /\ pc[e][c] \in {"agent", "writing", "load_writes", "conversation"}
        /\ pc' = [pc EXCEPT ![e][c] = "mark_reply"]
        /\ prepared' = [prepared EXCEPT ![e][c] = [kind |-> kind, claim |-> c]]
        /\ UNCHANGED <<rows, flight, posts>>
  <2>1. CASE ConversationStored(e, c) /\ pc'[e][c] = "mark_reply"
    <3>1. PrepareStep(e, c) = "mark_reply" /\ pc[e][c] = "conversation"
      BY <2>1 DEF ConversationStored, Base, TypeOK
    <3>2. prepared[e][c] = NoReply /\ e \in Unsupported
      BY <3>1 DEF PrepareStep
    <3>3. /\ prepared' = [prepared EXCEPT ![e][c] = [kind |-> "unsupported", claim |-> c]]
          /\ pc' = [pc EXCEPT ![e][c] = "mark_reply"] /\ UNCHANGED <<rows, flight, posts>>
      BY <2>1, <3>1, <3>2 DEF ConversationStored
    <3>4. "unsupported" \in ReplyKinds
      BY DEF ReplyKinds
    <3> QED BY <3>1, <3>3, <3>4
  <2>2. CASE LoadWriteAttempts(e, c)
    BY <2>2 DEF LoadWriteAttempts, ReplyKinds
  <2>3. CASE AgentReturns(e, c)
    BY <2>3 DEF AgentReturns, ReplyKinds
  <2>4. CASE AgentInterruptedAfterWrite(e, c)
    BY <2>4 DEF AgentInterruptedAfterWrite, ReplyKinds
  <2>5. CASE AgentThrows(e, c) /\ ~(c < AttemptLimit)
    BY <2>5 DEF AgentThrows, ReplyKinds
  <2> QED BY <2>1, <2>2, <2>3, <2>4, <2>5 DEF ComposesReply
<1> QED BY <1>1, ComposingKeepsDelivery

\* Every step keeps the invariant of the refinement.
LEMMA DeliveryStep ==
  ASSUME Base, Fences, DeliveryInv, [Next]_vars
  PROVE  DeliveryInv'
<1>1. ASSUME NEW e \in Events,
             Enqueue(e) \/ Claim(e) \/ RecoverExpiredLease(e) \/ WindowCloses(e)
      PROVE  DeliveryInv'
  BY <1>1, EnqueueKeepsDelivery, ClaimKeepsDelivery, OutsideMovesOn, MovingOnKeepsDelivery
<1>2. ASSUME NEW e \in Events, NEW c \in Claims,
             Runs(e, c) \/ BeginWrite(e, c) \/ ReplyLands(e, c) \/ Disturbed(e, c)
      PROVE  DeliveryInv'
  <2>1. \/ Onward(e, c) \/ ComposesReply(e, c) \/ MarkReplyStarted(e, c)
        \/ SendReply(e, c) \/ ReplyLands(e, c)
        \/ MarkReplyUncertain(e, c) \/ CompleteReplied(e, c) \/ CompleteGivenUp(e, c)
        \/ Retry(e, c) \/ BeginWrite(e, c)
    BY <1>2 DEF Runs, Disturbed, Onward, ComposesReply
  <2>2. CASE Onward(e, c)
    BY <2>2, OnwardMovesOn, MovingOnKeepsDelivery
  <2>3. CASE ComposesReply(e, c)
    BY <2>3, ComposesKeepsDelivery
  <2>4. CASE MarkReplyStarted(e, c)
    BY <2>4, MarkingKeepsDelivery
  <2>5. CASE SendReply(e, c) \/ ReplyLands(e, c)
    BY <2>5, SendingKeepsDelivery
  <2>6. CASE MarkReplyUncertain(e, c) \/ CompleteReplied(e, c) \/ CompleteGivenUp(e, c)
             \/ Retry(e, c) \/ BeginWrite(e, c)
    BY <2>6, StatementsMoveOn, MovingOnKeepsDelivery
  <2> QED BY <2>1, <2>2, <2>3, <2>4, <2>5, <2>6
<1>3. CASE UNCHANGED vars
  <2>1. UNCHANGED <<rows, pc, prepared, flight, posts>>
    BY <1>3 DEF vars
  <2> QED BY <2>1 DEF DeliveryInv, Provenance, Settled, GiveUpFence, GivesUp, Still
<1> QED BY <1>1, <1>2, <1>3 DEF Next, Idle

-------------------------------------------------------------------------------
(***************************************************************************)
(* The mapping: every step is a step of ReplyDelivery or changes nothing   *)
(* the members see.                                                        *)
(***************************************************************************)

\* What the members of the chat see of an event.
Seen(e, phase, reply) ==
  /\ Phase(e)' = phase /\ rows'[e].reply = reply
  /\ \A f \in Events : f # e => Phase(f)' = Phase(f) /\ rows'[f].reply = rows[f].reply

\* A row that keeps its phase and its reply, and the posts, is a stutter.
LEMMA Stutters ==
  ASSUME NEW e \in Events, Seen(e, Phase(e), rows[e].reply), posts' = posts
  PROVE  UNCHANGED Delivery!vars
<1>1. \A f \in Events : Phase(f)' = Phase(f) /\ rows'[f].reply = rows[f].reply
  BY DEF Seen
<1>2. [f \in Events |-> Phase(f)]' = [f \in Events |-> Phase(f)]
  BY <1>1
<1>3. [f \in Events |-> rows[f].reply]' = [f \in Events |-> rows[f].reply]
  BY <1>1
<1> QED BY <1>2, <1>3 DEF Delivery!vars

\* What a statement makes of the phase.
LEMMA SeenOfRow ==
  ASSUME NEW e \in Events, NEW status, NEW attempts, NEW ws, NEW reply, NEW outcome,
         RowSet(rows', e, status, attempts, ws, reply, outcome)
  PROVE  /\ \A f \in Events : f # e => Phase(f)' = Phase(f) /\ rows'[f].reply = rows[f].reply
         /\ rows'[e].reply = reply
         /\ status \in {"queued", "processing"} => Phase(e)' = "pending"
         /\ status \in Terminal => Phase(e)' = outcome
         /\ status = "absent" => Phase(e)' = "unknown"
<1>1. rows'[e].status = status /\ rows'[e].outcome = outcome /\ rows'[e].reply = reply
      /\ \A f \in Events : f # e => rows'[f] = rows[f]
  BY DEF RowSet
<1>2. \A f \in Events : f # e => Phase(f)' = Phase(f) /\ rows'[f].reply = rows[f].reply
  BY <1>1 DEF Phase
<1> QED BY <1>1, <1>2 DEF Phase, Terminal

\* The phases.
LEMMA Phases ==
  ASSUME Base, NEW e \in Events
  PROVE  /\ rows[e].status \in {"queued", "processing"} => Phase(e) = "pending"
         /\ rows[e].status \in Terminal => Phase(e) = rows[e].outcome
         /\ rows[e].status = "absent" => Phase(e) = "unknown"
         /\ rows[e].status \in {"absent", "queued", "processing"} \cup Terminal
<1>1. rows[e].status \in {"absent", "queued", "processing", "completed", "failed"}
  BY DEF Base, TypeOK, Row, Statuses
<1> QED BY <1>1 DEF Phase, Terminal

\* A statement that keeps phase and reply is a stutter.
LEMMA SamePhaseStutters ==
  ASSUME Base, NEW e \in Events, NEW status, NEW attempts, NEW ws,
         RowSet(rows', e, status, attempts, ws, rows[e].reply, rows[e].outcome), posts' = posts,
         \/ status = rows[e].status
         \/ status \in {"queued", "processing"} /\ rows[e].status \in {"queued", "processing"}
  PROVE  UNCHANGED Delivery!vars
<1>1. Phase(e)' = Phase(e)
  BY SeenOfRow, Phases
<1>2. Seen(e, Phase(e), rows[e].reply)
  BY <1>1, SeenOfRow DEF Seen
<1> QED BY <1>2, Stutters

\* A terminal statement of the owner settles the event.
LEMMA TerminalSettles ==
  ASSUME Base, NEW e \in Events, rows[e].status = "processing", NEW status \in Terminal, NEW attempts, NEW ws,
         NEW outcome \in {"replied", "gave_up", "uncertain"},
         RowSet(rows', e, status, attempts, ws, rows[e].reply, outcome), posts' = posts,
         outcome = "replied" => posts[e] = 1,
         outcome = "gave_up" => posts[e] = 0,
         outcome = "uncertain" => rows[e].reply # NoReply
  PROVE  Delivery!Next
<1> DEFINE phases == [f \in Events |-> Phase(f)]
           replies == [f \in Events |-> rows[f].reply]
<1>1. Phase(e) = "pending"
  BY Phases
<1>2. Seen(e, outcome, rows[e].reply)
  BY SeenOfRow DEF Seen
<1>3. phases' = [phases EXCEPT ![e] = outcome]
  BY <1>2 DEF Seen
<1>4. replies' = replies
  BY <1>2 DEF Seen
<1>5. Delivery!Settle(e, outcome)
  BY <1>1, <1>3, <1>4 DEF Delivery!Settle
<1> QED BY <1>5 DEF Delivery!Next
\* enqueue is Accept.
LEMMA EnqueueRefines ==
  ASSUME Base, NEW e \in Events, Enqueue(e)
  PROVE  Delivery!Next
<1> DEFINE phases == [f \in Events |-> Phase(f)]
           replies == [f \in Events |-> rows[f].reply]
<1>1. PICK stamp \in Stamps : rows[e].status = "absent" /\ rows' = Inserted(e, stamp)
  BY DEF Enqueue
<1>2. RowSet(rows', e, "queued", 0, FALSE, NoReply, "none")
  BY <1>1, InsertedRow DEF Base, TypeOK
<1>3. rows[e].reply = NoReply /\ Phase(e) = "unknown" /\ posts' = posts
  BY <1>1, Phases DEF Base, Unaccepted, Enqueue, feishu
<1>4. /\ Phase(e)' = "pending" /\ rows'[e].reply = rows[e].reply
      /\ \A f \in Events : f # e => Phase(f)' = Phase(f) /\ rows'[f].reply = rows[f].reply
  BY <1>2, <1>3, SeenOfRow
<1>5. phases' = [phases EXCEPT ![e] = "pending"] /\ replies' = replies
  BY <1>4
<1>6. Delivery!Accept(e)
  BY <1>3, <1>5 DEF Delivery!Accept
<1> QED BY <1>6 DEF Delivery!Next

\* markReplyStarted is Decide: the owner finds no reply on its row.
LEMMA MarkingRefines ==
  ASSUME Base, Fences, NEW e \in Events, NEW c \in Claims, MarkReplyStarted(e, c)
  PROVE  Delivery!Next
<1> DEFINE phases == [f \in Events |-> Phase(f)]
           replies == [f \in Events |-> rows[f].reply]
           reply == prepared[e][c]
<1>1. /\ rows[e].status = "processing" /\ c = rows[e].attempts /\ pc[e][c] = "mark_reply"
      /\ posts' = posts
  BY DEF MarkReplyStarted, Owns, feishu
<1>2. rows[e].reply = NoReply /\ reply \in Replies
  BY <1>1 DEF Fences, ReplyFence, Base, TypeOK
<1>3. RowSet(rows', e, rows[e].status, rows[e].attempts, rows[e].writeStarted, reply, rows[e].outcome)
  BY ReplyStartedRow DEF MarkReplyStarted, Base, TypeOK
<1>4. Phase(e) = "pending"
  BY <1>1, Phases
<1> HIDE DEF reply
<1>5. /\ Phase(e)' = Phase(e) /\ rows'[e].reply = reply
      /\ \A f \in Events : f # e => Phase(f)' = Phase(f) /\ rows'[f].reply = rows[f].reply
  BY <1>1, <1>3, <1>4, SeenOfRow
<1>6. phases' = phases /\ replies' = [replies EXCEPT ![e] = reply] /\ replies'[e] = reply
  BY <1>5
<1>7. Delivery!Decide(e)
  BY <1>1, <1>2, <1>4, <1>6 DEF Delivery!Decide
<1> QED BY <1>7 DEF Delivery!Next

\* An accepted request is Post, or shows the message that is already there: a request
\* on its way finds the window open.
LEMMA LandingRefines ==
  ASSUME Base, Fences, DeliveryInv, PromptSends, NEW e \in Events, NEW c \in Claims, ReplyLands(e, c)
  PROVE  Delivery!Next \/ UNCHANGED Delivery!vars
<1> DEFINE phases == [f \in Events |-> Phase(f)]
           replies == [f \in Events |-> rows[f].reply]
<1>1. rows' = rows /\ flight[e][c] = "in_flight"
  BY DEF ReplyLands
<1>2. windowOpen[e] /\ rows[e].reply # NoReply
  BY <1>1 DEF Fences, WindowFence, ReplyFence
<1>3. phases' = phases /\ replies' = replies
  BY <1>1 DEF Phase
<1>4. posts \in [Events -> Nat]
  BY DEF Base, TypeOK
<1>5. CASE posts[e] > 0
  <2>1. posts' = posts
    BY <1>2, <1>4, <1>5 DEF ReplyLands
  <2> QED BY <1>3, <2>1 DEF Delivery!vars
<1>6. CASE posts[e] = 0
  <2>1. posts' = [posts EXCEPT ![e] = 1]
    BY <1>4, <1>6 DEF ReplyLands
  <2>2. rows[e].outcome # "gave_up"
    BY SendingKeepsDelivery DEF GivesUp
  <2>3. Phase(e) # "gave_up"
    BY <2>2, Phases DEF Terminal
  <2>4. Delivery!Post(e)
    BY <1>2, <1>3, <1>6, <2>1, <2>3 DEF Delivery!Post
  <2> QED BY <2>4 DEF Delivery!Next
<1> QED BY <1>4, <1>5, <1>6

\* The owner's terminal statements are Settle.
LEMMA SettlingRefines ==
  ASSUME Base, Fences, DeliveryInv, PromptSends, NEW e \in Events, NEW c \in Claims,
         MarkReplyUncertain(e, c) \/ CompleteReplied(e, c) \/ CompleteGivenUp(e, c)
  PROVE  Delivery!Next
<1>1. rows[e].status = "processing" /\ posts' = posts /\ posts[e] \in Nat
  BY DEF MarkReplyUncertain, CompleteReplied, CompleteGivenUp, Owns, feishu, Base, TypeOK
<1>2. "completed" \in Terminal /\ "failed" \in Terminal
  BY DEF Terminal
<1>3. CASE MarkReplyUncertain(e, c)
  <2>1. rows[e].reply # NoReply
    BY <1>3 DEF MarkReplyUncertain, DeliveryInv, Provenance
  <2>2. RowSet(rows', e, "failed", rows[e].attempts, rows[e].writeStarted, rows[e].reply, "uncertain")
    BY <1>3, StatementsMoveOn DEF MovesOn
  <2> QED BY <1>1, <1>2, <2>1, <2>2, TerminalSettles
<1>4. CASE CompleteReplied(e, c)
  <2>1. posts[e] = 1
    BY <1>1, <1>4 DEF CompleteReplied, Fences, Visibility, WindowFence
  <2>2. RowSet(rows', e, "completed", rows[e].attempts, rows[e].writeStarted, rows[e].reply, "replied")
    BY <1>4, StatementsMoveOn DEF MovesOn
  <2> QED BY <1>1, <1>2, <2>1, <2>2, TerminalSettles
<1>5. CASE CompleteGivenUp(e, c)
  <2>1. GivesUp(e)
    BY <1>5 DEF GivesUp, CompleteGivenUp, Owns
  <2>2. \A d \in Claims : flight[e][d] = "none"
    BY <2>1 DEF DeliveryInv, GiveUpFence, Still
  <2>3. posts[e] = 0
    BY <1>1, <2>2 DEF DeliveryInv, Provenance
  <2>4. RowSet(rows', e, "completed", rows[e].attempts, rows[e].writeStarted, rows[e].reply, "gave_up")
    BY <1>5, StatementsMoveOn DEF MovesOn
  <2> QED BY <1>1, <1>2, <2>3, <2>4, TerminalSettles
<1> QED BY <1>3, <1>4, <1>5

\* Every step of the worker is a step of ReplyDelivery or one the members do not see.
LEMMA StepRefines ==
  ASSUME Base, Fences, DeliveryInv, PromptSends, [Next]_vars
  PROVE  [Delivery!Next]_(Delivery!vars)
<1>1. ASSUME NEW e \in Events, Enqueue(e) \/ Claim(e) \/ RecoverExpiredLease(e) \/ WindowCloses(e)
      PROVE  [Delivery!Next]_(Delivery!vars)
  <2>1. CASE Enqueue(e)
    BY <2>1, EnqueueRefines
  <2>2. CASE Claim(e)
    <3>1. RowSet(rows', e, "processing", rows[e].attempts + 1, rows[e].writeStarted, rows[e].reply, rows[e].outcome)
      BY <2>2, ClaimedRow DEF Claim, Base, TypeOK
    <3>2. rows[e].status = "queued" /\ posts' = posts
      BY <2>2 DEF Claim, Claimable, feishu
    <3> QED BY <3>1, <3>2, SamePhaseStutters
  <2>3. CASE RecoverExpiredLease(e) \/ WindowCloses(e)
    <3>1. PICK c, step, status, ws, outcome :
            /\ c \in Claims
            /\ MovesOn(e, c, step, status, ws, outcome)
            /\ outcome = rows[e].outcome
            /\ status = rows[e].status \/ {status, rows[e].status} = {"queued", "processing"}
      BY <2>3, OutsideMovesOn
    <3>2. RowSet(rows', e, status, rows[e].attempts, ws, rows[e].reply, rows[e].outcome) /\ posts' = posts
      BY <3>1 DEF MovesOn
    <3>3. status = rows[e].status \/ (status \in {"queued", "processing"} /\ rows[e].status \in {"queued", "processing"})
      BY <3>1
    <3> QED BY <3>2, <3>3, SamePhaseStutters
  <2> QED BY <1>1, <2>1, <2>2, <2>3
<1>2. ASSUME NEW e \in Events, NEW c \in Claims,
             Runs(e, c) \/ BeginWrite(e, c) \/ ReplyLands(e, c) \/ Disturbed(e, c)
      PROVE  [Delivery!Next]_(Delivery!vars)
  <2>1. \/ Onward(e, c) \/ ComposesReply(e, c) \/ MarkReplyStarted(e, c)
        \/ SendReply(e, c) \/ ReplyLands(e, c)
        \/ MarkReplyUncertain(e, c) \/ CompleteReplied(e, c) \/ CompleteGivenUp(e, c)
        \/ Retry(e, c) \/ BeginWrite(e, c)
    BY <1>2 DEF Runs, Disturbed, Onward, ComposesReply
  <2>2. CASE Onward(e, c) \/ BeginWrite(e, c) \/ Retry(e, c)
    <3>1. PICK step, status, ws :
            /\ MovesOn(e, c, step, status, ws, rows[e].outcome)
            /\ \/ status = rows[e].status
               \/ status = "queued" /\ rows[e].status = "processing"
      BY <2>2, OnwardMovesOn, StatementsMoveOn DEF Retry, Owns
    <3> QED BY <3>1, SamePhaseStutters DEF MovesOn
  <2>3. CASE ComposesReply(e, c) \/ SendReply(e, c)
    <3>1. rows' = rows /\ posts' = posts
      BY <2>3, ComposesKeepsDelivery DEF SendReply, feishu
    <3> QED BY <3>1, RowsKept, SamePhaseStutters
  <2>4. CASE MarkReplyStarted(e, c)
    BY <2>4, MarkingRefines
  <2>5. CASE ReplyLands(e, c)
    BY <2>5, LandingRefines
  <2>6. CASE MarkReplyUncertain(e, c) \/ CompleteReplied(e, c) \/ CompleteGivenUp(e, c)
    BY <2>6, SettlingRefines
  <2> QED BY <2>1, <2>2, <2>3, <2>4, <2>5, <2>6
<1>3. CASE UNCHANGED vars
  <2>1. rows' = rows /\ posts' = posts
    BY <1>3 DEF vars
  <2> QED BY <2>1 DEF Delivery!vars, Phase
<1> QED BY <1>1, <1>2, <1>3 DEF Next, Idle

\* The invariant of the refinement holds: what a reply's claim, an outcome and a given-up
\* event say about the executions of the event is true in every state.
THEOREM DeliveryHolds == Spec => []DeliveryInv
<1>1. (Base /\ Fences) /\ DeliveryInv /\ [Next]_vars => DeliveryInv'
  BY DeliveryStep
<1> QED BY <1>1, Invariance, DeliveryInit, PTL DEF Spec

\* With sends that reach Feishu inside the window that was checked for them, everything
\* process, the store's statements, leases, retries and crashes do is one reply per event
\* to the members of the chat (DeliversOnce, the refinement the run message_worker checks).
THEOREM QueueDelivers ==
  ASSUME PromptSends
  PROVE  Spec => DeliversOnce
<1>1. Init => Delivery!Init
  <2> SUFFICES ASSUME Init PROVE Delivery!Init
    OBVIOUS
  <2>1. \A e \in Events : rows[e].status = "absent" /\ rows[e].reply = NoReply
    BY DEF Init, InitStore, AbsentRow
  <2>2. posts = [e \in Events |-> 0]
    BY DEF Init
  <2>3. \A e \in Events : Phase(e) = "unknown"
    BY <2>1, BaseInit, Phases
  <2> QED BY <2>1, <2>2, <2>3 DEF Delivery!Init
<1>2. (Base /\ Fences) /\ DeliveryInv /\ [Next]_vars => [Delivery!Next]_(Delivery!vars)
  BY StepRefines
<1> QED BY <1>1, <1>2, Invariance, DeliveryHolds, PTL DEF Spec, DeliversOnce, Delivery!Spec
===============================================================================
