----------------------- MODULE ScheduledDeliveryProofs ------------------------
(***************************************************************************)
(* Proofs about ScheduledDelivery for every set of runs.                   *)
(***************************************************************************)
EXTENDS ScheduledDelivery, TLAPS

-------------------------------------------------------------------------------
(***************************************************************************)
(* The inductive invariant of one run.                                     *)
(***************************************************************************)

\* Nothing is claimed, sent or noticed before its step.
InOrder(r) ==
  /\ row[r].status = "queued" => pc[r] = "none"
  /\ pc[r] \in {"none", "task", "agent", "revalidate", "prepare", "send", "sending", "mark",
                "finish"} => notice[r] = "none"
  /\ pc[r] \in {"fallback", "notify", "notifying", "finish_failed"} => outcome[r] # "completed"

\* The record comes before the request, and there is one request.
Recorded(r) ==
  /\ sends[r] \in {0, 1}
  /\ sends[r] = 1 => row[r].attempted
  /\ pc[r] = "send" => sends[r] = 0 /\ row[r].attempted
  /\ result[r] # "none" => sends[r] = 1

\* What the row and the execution claim of the result is true in the chat.
Confirmed(r) ==
  /\ pc[r] \in {"mark", "finish"} => result[r] = "posted"
  /\ row[r].message => result[r] = "posted"
  /\ row[r].status = "completed" => result[r] = "posted" /\ notice[r] = "none"
  /\ pc[r] = "notify" => row[r].status # "completed"

Inv == TypeOK /\ \A r \in Runs : InOrder(r) /\ Recorded(r) /\ Confirmed(r)

-------------------------------------------------------------------------------

\* The start.
LEMMA InvInit == Init => Inv
  BY DEF Init, Inv, TypeOK, Row, Statuses, Ends, Requests, Steps, InOrder, Recorded, Confirmed

\* A step of run r leaves the other runs alone.
Only(r) ==
  \A s \in Runs \ {r} :
    /\ row'[s] = row[s] /\ leased'[s] = leased[s] /\ pc'[s] = pc[s]
    /\ outcome'[s] = outcome[s] /\ sends'[s] = sends[s]
    /\ result'[s] = result[s] /\ notice'[s] = notice[s]

\* A step of one run disturbs no other, so what holds of that run holds of all.
LEMMA OneRun ==
  ASSUME Inv, NEW r \in Runs, TypeOK', Only(r), InOrder(r)', Recorded(r)', Confirmed(r)'
  PROVE  Inv'
<1> SUFFICES ASSUME NEW s \in Runs PROVE InOrder(s)' /\ Recorded(s)' /\ Confirmed(s)'
  BY DEF Inv
<1>1. CASE s = r
  BY <1>1
<1>2. CASE s # r
  BY <1>2 DEF Only, Inv, InOrder, Recorded, Confirmed
<1> QED BY <1>1, <1>2

Acts(r) ==
  \/ Claim(r) \/ TaskLoaded(r) \/ AgentEnds(r) \/ HeartbeatLost(r) \/ Revalidate(r)
  \/ Delivers(r) \/ Falls(r)
  \/ LeaseExpires(r) \/ RecoverExpired(r) \/ Dies(r)

\* What finish does to a row it owns.
LEMMA EndedRow ==
  ASSUME TypeOK, NEW r \in Runs, End(r)
  PROVE  /\ row' \in [Runs -> Row] /\ leased' \in [Runs -> BOOLEAN]
         /\ \A s \in Runs \ {r} : row'[s] = row[s] /\ leased'[s] = leased[s]
BY DEF End, TypeOK, Row, Ends, Statuses

\* Every step of a run keeps the invariant.
LEMMA ActStep == ASSUME Inv, NEW r \in Runs, Acts(r) PROVE Inv'
<1> USE DEF Goto, FallBack, Owned
<1>0. TypeOK /\ InOrder(r) /\ Recorded(r) /\ Confirmed(r)
  BY DEF Inv
<1> SUFFICES TypeOK' /\ Only(r) /\ InOrder(r)' /\ Recorded(r)' /\ Confirmed(r)'
  BY OneRun
<1>1. CASE TaskLoaded(r) \/ HeartbeatLost(r) \/ Revalidate(r) \/ Dies(r)
  <2>1. TypeOK' /\ Only(r)
    BY <1>0, <1>1 DEF TaskLoaded, HeartbeatLost, Revalidate, Dies, TypeOK, Row, Ends, Requests, Steps, Statuses, Only
  <2>2. InOrder(r)' /\ Recorded(r)' /\ Confirmed(r)'
    BY <1>0, <1>1 DEF TaskLoaded, HeartbeatLost, Revalidate, Dies, TypeOK, Row, Ends, InOrder, Recorded, Confirmed
  <2> QED BY <2>1, <2>2
<1>2. CASE AgentEnds(r)
  <2>1. TypeOK' /\ Only(r)
    BY <1>0, <1>2 DEF AgentEnds, TypeOK, Row, Ends, Requests, Steps, Statuses, Only
  <2>2. InOrder(r)' /\ Recorded(r)' /\ Confirmed(r)'
    BY <1>0, <1>2 DEF AgentEnds, TypeOK, Row, Ends, InOrder, Recorded, Confirmed
  <2> QED BY <2>1, <2>2
<1>3. CASE Claim(r)
  <2>1. TypeOK' /\ Only(r)
    BY <1>0, <1>3 DEF Claim, TypeOK, Row, Ends, Requests, Steps, Statuses, Only
  <2>2. InOrder(r)' /\ Recorded(r)' /\ Confirmed(r)'
    BY <1>0, <1>3 DEF Claim, TypeOK, Row, Ends, InOrder, Recorded, Confirmed
  <2> QED BY <2>1, <2>2
<1>4. CASE PrepareDelivery(r)
  <2>1. TypeOK' /\ Only(r)
    BY <1>0, <1>4 DEF PrepareDelivery, TypeOK, Row, Ends, Requests, Steps, Statuses, Only
  <2>2. InOrder(r)' /\ Recorded(r)' /\ Confirmed(r)'
    BY <1>0, <1>4 DEF PrepareDelivery, TypeOK, Row, Ends, InOrder, Recorded, Confirmed
  <2> QED BY <2>1, <2>2
<1>5. CASE SendResult(r)
  <2>1. TypeOK' /\ Only(r)
    BY <1>0, <1>5 DEF SendResult, TypeOK, Row, Ends, Requests, Steps, Statuses, Only
  <2>2. InOrder(r)' /\ Recorded(r)' /\ Confirmed(r)'
    BY <1>0, <1>5 DEF SendResult, TypeOK, Row, Ends, InOrder, Recorded, Confirmed
  <2> QED BY <2>1, <2>2
<1>6. CASE ResultArrives(r)
  <2>1. TypeOK' /\ Only(r)
    BY <1>0, <1>6 DEF ResultArrives, TypeOK, Row, Ends, Requests, Steps, Statuses, Only
  <2>2. InOrder(r)' /\ Recorded(r)' /\ Confirmed(r)'
    BY <1>0, <1>6 DEF ResultArrives, TypeOK, Row, Ends, InOrder, Recorded, Confirmed
  <2> QED BY <2>1, <2>2
<1>7. CASE ResultAnswered(r)
  <2>1. TypeOK' /\ Only(r)
    BY <1>0, <1>7 DEF ResultAnswered, TypeOK, Row, Ends, Requests, Steps, Statuses, Only
  <2>2. InOrder(r)' /\ Recorded(r)' /\ Confirmed(r)'
    BY <1>0, <1>7 DEF ResultAnswered, TypeOK, Row, Ends, InOrder, Recorded, Confirmed
  <2> QED BY <2>1, <2>2
<1>8. CASE ResultUncertain(r)
  <2>1. TypeOK' /\ Only(r)
    BY <1>0, <1>8 DEF ResultUncertain, TypeOK, Row, Ends, Requests, Steps, Statuses, Only
  <2>2. InOrder(r)' /\ Recorded(r)' /\ Confirmed(r)'
    BY <1>0, <1>8 DEF ResultUncertain, TypeOK, Row, Ends, InOrder, Recorded, Confirmed
  <2> QED BY <2>1, <2>2
<1>9. CASE MarkDelivered(r)
  <2>1. TypeOK' /\ Only(r)
    BY <1>0, <1>9 DEF MarkDelivered, TypeOK, Row, Ends, Requests, Steps, Statuses, Only
  <2>2. InOrder(r)' /\ Recorded(r)' /\ Confirmed(r)'
    BY <1>0, <1>9 DEF MarkDelivered, TypeOK, Row, Ends, InOrder, Recorded, Confirmed
  <2> QED BY <2>1, <2>2
<1>10. CASE Finish(r)
  <2>1. TypeOK' /\ Only(r)
    BY <1>0, <1>10 DEF Finish, End, TypeOK, Row, Ends, Requests, Steps, Statuses, Only
  <2>2. InOrder(r)' /\ Recorded(r)' /\ Confirmed(r)'
    BY <1>0, <1>10 DEF Finish, End, TypeOK, Row, Ends, InOrder, Recorded, Confirmed
  <2> QED BY <2>1, <2>2
<1>11. CASE StatementThrows(r)
  <2>1. TypeOK' /\ Only(r)
    <3>1. /\ row' \in [Runs -> Row] /\ leased' \in [Runs -> BOOLEAN]
          /\ \A s \in Runs \ {r} : row'[s] = row[s] /\ leased'[s] = leased[s]
      <4>1. CASE UNCHANGED <<row, leased>>
        BY <1>0, <4>1 DEF TypeOK
      <4>2. CASE row' = [row EXCEPT ![r].attempted = TRUE] /\ UNCHANGED leased
        BY <1>0, <4>2 DEF TypeOK, Row
      <4>3. CASE row' = [row EXCEPT ![r].message = TRUE] /\ UNCHANGED leased
        BY <1>0, <4>3 DEF TypeOK, Row
      <4>4. CASE End(r)
        BY <1>0, <4>4, EndedRow
      <4> QED BY <1>11, <4>1, <4>2, <4>3, <4>4 DEF StatementThrows
    <3>2. /\ pc' \in [Runs -> Steps] /\ outcome' \in [Runs -> Ends]
          /\ \A s \in Runs \ {r} : pc'[s] = pc[s] /\ outcome'[s] = outcome[s]
      BY <1>0, <1>11 DEF StatementThrows, TypeOK, Steps, Ends
    <3> QED BY <1>0, <1>11, <3>1, <3>2 DEF StatementThrows, TypeOK, Only
  <2>2. InOrder(r)' /\ Recorded(r)' /\ Confirmed(r)'
    BY <1>0, <1>11 DEF StatementThrows, End, TypeOK, Row, Ends, InOrder, Recorded, Confirmed
  <2> QED BY <2>1, <2>2
<1>12. CASE BeginFallback(r)
  <2>1. TypeOK' /\ Only(r)
    BY <1>0, <1>12 DEF BeginFallback, TypeOK, Row, Ends, Requests, Steps, Statuses, Only
  <2>2. InOrder(r)' /\ Recorded(r)' /\ Confirmed(r)'
    BY <1>0, <1>12 DEF BeginFallback, TypeOK, Row, Ends, InOrder, Recorded, Confirmed
  <2> QED BY <2>1, <2>2
<1>13. CASE SendNotice(r)
  <2>1. TypeOK' /\ Only(r)
    BY <1>0, <1>13 DEF SendNotice, TypeOK, Row, Ends, Requests, Steps, Statuses, Only
  <2>2. InOrder(r)' /\ Recorded(r)' /\ Confirmed(r)'
    BY <1>0, <1>13 DEF SendNotice, TypeOK, Row, Ends, InOrder, Recorded, Confirmed
  <2> QED BY <2>1, <2>2
<1>14. CASE NoticeArrives(r)
  <2>1. TypeOK' /\ Only(r)
    BY <1>0, <1>14 DEF NoticeArrives, TypeOK, Row, Ends, Requests, Steps, Statuses, Only
  <2>2. InOrder(r)' /\ Recorded(r)' /\ Confirmed(r)'
    BY <1>0, <1>14 DEF NoticeArrives, TypeOK, Row, Ends, InOrder, Recorded, Confirmed
  <2> QED BY <2>1, <2>2
<1>15. CASE NoticeAnswered(r)
  <2>1. TypeOK' /\ Only(r)
    BY <1>0, <1>15 DEF NoticeAnswered, TypeOK, Row, Ends, Requests, Steps, Statuses, Only
  <2>2. InOrder(r)' /\ Recorded(r)' /\ Confirmed(r)'
    BY <1>0, <1>15 DEF NoticeAnswered, TypeOK, Row, Ends, InOrder, Recorded, Confirmed
  <2> QED BY <2>1, <2>2
<1>16. CASE NoticeFails(r)
  <2>1. TypeOK' /\ Only(r)
    BY <1>0, <1>16 DEF NoticeFails, TypeOK, Row, Ends, Requests, Steps, Statuses, Only
  <2>2. InOrder(r)' /\ Recorded(r)' /\ Confirmed(r)'
    BY <1>0, <1>16 DEF NoticeFails, TypeOK, Row, Ends, InOrder, Recorded, Confirmed
  <2> QED BY <2>1, <2>2
<1>17. CASE FinishFailed(r)
  <2>1. TypeOK' /\ Only(r)
    <3>1. UNCHANGED <<row, leased>> \/ End(r)
      BY <1>17 DEF FinishFailed
    <3>2. /\ row' \in [Runs -> Row] /\ leased' \in [Runs -> BOOLEAN]
          /\ \A s \in Runs \ {r} : row'[s] = row[s] /\ leased'[s] = leased[s]
      BY <1>0, <3>1, EndedRow DEF TypeOK
    <3> QED BY <1>0, <1>17, <3>2 DEF FinishFailed, TypeOK, Steps, Only
  <2>2. InOrder(r)' /\ Recorded(r)' /\ Confirmed(r)'
    BY <1>0, <1>17 DEF FinishFailed, End, TypeOK, Row, Ends, InOrder, Recorded, Confirmed
  <2> QED BY <2>1, <2>2
<1>18. CASE LeaseExpires(r)
  <2>1. TypeOK' /\ Only(r)
    BY <1>0, <1>18 DEF LeaseExpires, TypeOK, Row, Ends, Requests, Steps, Statuses, Only
  <2>2. InOrder(r)' /\ Recorded(r)' /\ Confirmed(r)'
    BY <1>0, <1>18 DEF LeaseExpires, TypeOK, Row, Ends, InOrder, Recorded, Confirmed
  <2> QED BY <2>1, <2>2
<1>19. CASE RecoverExpired(r)
  <2>1. TypeOK' /\ Only(r)
    BY <1>0, <1>19 DEF RecoverExpired, TypeOK, Row, Ends, Requests, Steps, Statuses, Only
  <2>2. InOrder(r)' /\ Recorded(r)' /\ Confirmed(r)'
    BY <1>0, <1>19 DEF RecoverExpired, TypeOK, Row, Ends, InOrder, Recorded, Confirmed
  <2> QED BY <2>1, <2>2
<1> QED BY <1>1, <1>2, <1>3, <1>4, <1>5, <1>6, <1>7, <1>8, <1>9, <1>10, <1>11, <1>12,
           <1>13, <1>14, <1>15, <1>16, <1>17, <1>18, <1>19 DEF Acts, Delivers, Falls

\* And so does every step of the specification.
LEMMA InvStep == Inv /\ [Next]_vars => Inv'
<1> SUFFICES ASSUME Inv, [Next]_vars PROVE Inv'
  OBVIOUS
<1>1. CASE UNCHANGED vars
  BY <1>1 DEF vars, Inv, TypeOK, Row, InOrder, Recorded, Confirmed
<1>2. ASSUME NEW r \in Runs, Acts(r) PROVE Inv'
  BY <1>2, ActStep
<1> QED BY <1>1, <1>2 DEF Next, Idle, Acts

(***************************************************************************)
(* The theorems.                                                           *)
(***************************************************************************)

\* Requests, records and steps agree in every run: the invariant behind the theorems.
THEOREM Invariance == Spec => []Inv
  BY InvInit, InvStep, PTL DEF Spec

\* The result of a run is sent at most once, and only after prepareDelivery recorded it.
THEOREM SentOnce == Spec => []SentOnceOnRecord
<1>1. ASSUME Inv, NEW r \in Runs
      PROVE  sends[r] <= 1 /\ (sends[r] > 0 => row[r].attempted) /\ (result[r] = "posted" => sends[r] = 1)
  BY <1>1 DEF Inv, Recorded
<1>2. Inv => SentOnceOnRecord
  BY <1>1 DEF SentOnceOnRecord
<1> QED BY Invariance, <1>2, PTL

\* A completed run has its result in the target chat and no failure notice.
THEOREM CompletedIsPosted == Spec => []CompletedMeansPosted
<1>1. Inv => CompletedMeansPosted
  BY DEF Inv, Confirmed, CompletedMeansPosted
<1> QED BY Invariance, <1>1, PTL

\* Neither recovery nor a late execution changes how a run ended.
THEOREM EndsForGood == Spec => EndIsFinal
<1>1. ASSUME Inv, [Next]_vars PROVE [\A r \in Runs : row[r].status \in Ends => row'[r].status = row[r].status]_vars
  <2>1. ASSUME NEW r \in Runs, Acts(r), NEW s \in Runs, row[s].status \in Ends
        PROVE  row'[s].status = row[s].status
    <3>1. row[s].status \notin {"queued", "processing"}
      BY <2>1 DEF Ends
    <3> USE DEF Inv, TypeOK, Row, Goto, End, FallBack, Owned
    <3>2. CASE Claim(r) \/ TaskLoaded(r) \/ AgentEnds(r) \/ HeartbeatLost(r) \/ Revalidate(r)
      BY <1>1, <3>1, <3>2 DEF Claim, TaskLoaded, AgentEnds, HeartbeatLost, Revalidate
    <3>3. CASE Delivers(r)
      BY <1>1, <3>1, <3>3
      DEF Delivers, PrepareDelivery, SendResult, ResultArrives, ResultAnswered, ResultUncertain,
          MarkDelivered, Finish, StatementThrows
    <3>4. CASE Falls(r)
      BY <1>1, <3>1, <3>4
      DEF Falls, BeginFallback, SendNotice, NoticeArrives, NoticeAnswered, NoticeFails, FinishFailed
    <3>5. CASE LeaseExpires(r) \/ RecoverExpired(r) \/ Dies(r)
      BY <1>1, <3>1, <3>5 DEF LeaseExpires, RecoverExpired, Dies
    <3> QED BY <2>1, <3>2, <3>3, <3>4, <3>5 DEF Acts
  <2>2. CASE UNCHANGED vars
    BY <2>2
  <2> QED BY <1>1, <2>1, <2>2 DEF Next, Idle, Acts
<1> QED BY Invariance, <1>1, PTL DEF Spec, EndIsFinal
===============================================================================
