--------------------------- MODULE TeamContextProofs ---------------------------
(***************************************************************************)
(* What holds of the Team Context for any number of loads and updates, any *)
(* grace period and any number of revisions.                               *)
(*                                                                         *)
(* The argument: the revisions answered never pass the revision of the     *)
(* row, because the row only grows until it is invalidated (Ordered); the  *)
(* row and the loads carry the time at which Feishu was read (Dated); and  *)
(* a patch is sent only on the revision its checks had read (Checked).     *)
(***************************************************************************)
EXTENDS TeamContext, TLAPS

Ordered ==
  /\ known <= snapshot.revision
  /\ \A l \in Loads : load[l].floor <= known

Dated ==
  /\ snapshot.fetchedAt = snapshot.seenAt
  /\ snapshot.seenAt <= now
  /\ \A l \in Loads : load[l].seenAt <= now

Checked ==
  \A u \in Updates : update[u].at \in {"patching", "lost"} => update[u].base = update[u].revision

IInv ==
  /\ TypeOK
  /\ Ordered
  /\ Dated
  /\ Checked
  /\ AnswersDoNotRegress
  /\ StaleWithinGrace
  /\ WritesApplyToWhatWasRead

\* Init establishes the invariant.
LEMMA Initially == Init => IInv
  BY TeamContextAssumption
     DEF Init, IInv, TypeOK, Ordered, Dated, Checked, AnswersDoNotRegress, StaleWithinGrace,
         WritesApplyToWhatWasRead, Document, Snapshot, NoSnapshot, NoLoad, NoUpdate,
         Unanswered, LoadSteps, UpdateSteps, Statuses, Revisions

\* What Feishu and the clock do: time passes, members edit, access changes.
LEMMA FeishuSteps ==
  ASSUME IInv, Tick \/ MemberEdits \/ AccessChanges
  PROVE  IInv'
<1>1. CASE Tick
  BY <1>1, TeamContextAssumption
     DEF Tick, IInv, TypeOK, Ordered, Dated, Checked, AnswersDoNotRegress, StaleWithinGrace,
         WritesApplyToWhatWasRead, Snapshot
<1>2. CASE MemberEdits
  BY <1>2, TeamContextAssumption
     DEF MemberEdits, IInv, TypeOK, Ordered, Dated, Checked, AnswersDoNotRegress,
         StaleWithinGrace, WritesApplyToWhatWasRead, Document, Revisions
<1>3. CASE AccessChanges
  BY <1>3
     DEF AccessChanges, IInv, TypeOK, Ordered, Dated, Checked, AnswersDoNotRegress,
         StaleWithinGrace, WritesApplyToWhatWasRead
<1>4. QED  BY <1>1, <1>2, <1>3

\* A load ends with an answer that is none, or that shows a snapshot as new as what was
\* known when the load began.
LEMMA Answering ==
  ASSUME IInv, NEW l \in Loads, NEW status \in Statuses, NEW revision \in Revisions,
         NEW age \in Nat,
         Answers(l, status, revision, age),
         revision # 0 => revision >= load[l].floor,
         status = "stale" => age <= StaleMax
  PROVE  /\ load' \in [Loads -> [at: LoadSteps, revision: Revisions, seenAt: Nat,
                                 floor: Revisions]]
         /\ answer' \in [Loads -> [status: Statuses, revision: Revisions, age: Nat]]
         /\ \A k \in Loads : load'[k].floor = load[k].floor
         /\ \A k \in Loads : load'[k].seenAt <= now
         /\ AnswersDoNotRegress'
         /\ StaleWithinGrace'
<1>1. /\ load' = [load EXCEPT ![l] = [NoLoad EXCEPT !.floor = load[l].floor]]
      /\ answer' = [answer EXCEPT ![l] = [status |-> status, revision |-> revision,
                                          age |-> age]]
  BY DEF Answers
<1>2. TypeOK /\ AnswersDoNotRegress /\ StaleWithinGrace /\ Dated
  BY DEF IInv
<1>3. now \in Nat /\ StaleMax \in Nat
  BY <1>2, TeamContextAssumption DEF TypeOK
<1>4. load' \in [Loads -> [at: LoadSteps, revision: Revisions, seenAt: Nat,
                           floor: Revisions]]
  BY <1>1, <1>2, TeamContextAssumption DEF TypeOK, NoLoad, LoadSteps, Revisions
<1>5. answer' \in [Loads -> [status: Statuses, revision: Revisions, age: Nat]]
  BY <1>1, <1>2 DEF TypeOK
<1>6. \A k \in Loads : load'[k].floor = load[k].floor
  BY <1>1, <1>2 DEF TypeOK, NoLoad
<1>7. \A k \in Loads : load'[k].seenAt <= now
  BY <1>1, <1>2, <1>3 DEF TypeOK, NoLoad, Dated
<1>8. AnswersDoNotRegress'
  BY <1>1, <1>2, <1>6 DEF TypeOK, AnswersDoNotRegress
<1>9. StaleWithinGrace'
  BY <1>1, <1>2 DEF TypeOK, StaleWithinGrace
<1>10. QED  BY <1>4, <1>5, <1>6, <1>7, <1>8, <1>9

\* Every step of a load preserves the invariant.
LEMMA ALoadPreserves ==
  ASSUME IInv, NEW l \in Loads, LoadStep(l)
  PROVE  IInv'
<1> USE TeamContextAssumption
<1>0. /\ now \in Nat /\ known \in Revisions /\ snapshot \in Snapshot
      /\ load[l].revision \in Revisions /\ load[l].seenAt \in Nat
      /\ load[l].floor \in Revisions
      /\ Revisions \subseteq Nat
  BY DEF IInv, TypeOK, Revisions
<1>t. 0 \in Revisions /\ {"none", "loaded", "stale", "over_budget", "unavailable"} = Statuses
  BY DEF Revisions, Statuses
\* Steps that end in an answer and leave the row alone.
<1>a. ASSUME NEW status \in Statuses, NEW revision \in Revisions, NEW age \in Nat,
             Answers(l, status, revision, age),
             revision # 0 => revision >= load[l].floor,
             status = "stale" => age <= StaleMax,
             snapshot' \in Snapshot, snapshot'.fetchedAt = snapshot'.seenAt,
             snapshot'.seenAt <= now, known' \in Revisions,
             known <= known', known' <= snapshot'.revision,
             UNCHANGED <<now, document, readable, update>>
      PROVE  IInv'
  <2>1. /\ load' \in [Loads -> [at: LoadSteps, revision: Revisions, seenAt: Nat,
                                floor: Revisions]]
        /\ answer' \in [Loads -> [status: Statuses, revision: Revisions, age: Nat]]
        /\ \A k \in Loads : load'[k].floor = load[k].floor
        /\ \A k \in Loads : load'[k].seenAt <= now
        /\ AnswersDoNotRegress'
        /\ StaleWithinGrace'
    BY <1>a, Answering
  <2>2. TypeOK'
    BY <1>a, <2>1 DEF IInv, TypeOK
  <2>3. Ordered'
    <3>1. ASSUME NEW k \in Loads PROVE load'[k].floor <= known'
      <4>1. load'[k].floor = load[k].floor /\ load[k].floor <= known
        BY <2>1 DEF IInv, Ordered
      <4>2. load[k].floor \in Nat
        BY <1>0 DEF IInv, TypeOK
      <4>3. known \in Nat /\ known' \in Nat /\ known <= known'
        BY <1>0, <1>a
      <4>4. QED  BY <4>1, <4>2, <4>3
    <3>2. QED  BY <3>1, <1>a DEF Ordered
  <2>4. Dated'
    BY <1>a, <2>1 DEF Dated
  <2>5. Checked' /\ WritesApplyToWhatWasRead'
    BY <1>a DEF IInv, Checked, WritesApplyToWhatWasRead
  <2>6. QED  BY <2>1, <2>2, <2>3, <2>4, <2>5 DEF IInv
\* Steps that only move the load.
<1>b. ASSUME NEW step \in LoadSteps \ {"idle"}, Goto(l, step),
             UNCHANGED <<now, document, readable, snapshot, answer, update, known>>
      PROVE  IInv'
  <2>1. TypeOK'
    BY <1>b DEF Goto, IInv, TypeOK
  <2>2. Ordered' /\ Dated' /\ Checked' /\ WritesApplyToWhatWasRead'
    BY <1>b DEF Goto, IInv, TypeOK, Ordered, Dated, Checked, WritesApplyToWhatWasRead
  <2>3. AnswersDoNotRegress' /\ StaleWithinGrace'
    BY <1>b DEF Goto, IInv, TypeOK, AnswersDoNotRegress, StaleWithinGrace
  <2>4. QED  BY <2>1, <2>2, <2>3 DEF IInv
<1>1. CASE BeginLoad(l)
  <2>1. TypeOK'
    BY <1>1, <1>t DEF BeginLoad, NoLoad, Unanswered, LoadSteps, Statuses, IInv, TypeOK
  <2>2. Ordered' /\ Dated' /\ Checked' /\ WritesApplyToWhatWasRead'
    BY <1>1, <1>0 DEF BeginLoad, NoLoad, IInv, TypeOK, Ordered, Dated, Checked,
                      WritesApplyToWhatWasRead
  <2>3. AnswersDoNotRegress' /\ StaleWithinGrace'
    BY <1>1 DEF BeginLoad, NoLoad, Unanswered, IInv, TypeOK, AnswersDoNotRegress,
                StaleWithinGrace
  <2>4. QED  BY <2>1, <2>2, <2>3 DEF IInv
<1>2. CASE Fetch(l)
  <2> DEFINE step == CASE ~readable -> "denied"
                       [] readable /\ ~document.fits -> "over_budget"
                       [] readable /\ document.fits -> "accepting"
  <2>1. step \in LoadSteps \ {"idle"}
    BY DEF IInv, TypeOK, LoadSteps, Document
  <2>2. load' = [load EXCEPT ![l].at = step, ![l].revision = document.revision,
                             ![l].seenAt = now]
    BY <1>2 DEF Fetch
  <2> HIDE DEF step
  <2>a. load' \in [Loads -> [at: LoadSteps, revision: Revisions, seenAt: Nat,
                             floor: Revisions]]
    <3>1. document.revision \in Revisions
      BY DEF IInv, TypeOK, Document
    <3>2. load \in [Loads -> [at: LoadSteps, revision: Revisions, seenAt: Nat,
                              floor: Revisions]]
      BY DEF IInv, TypeOK
    <3>3. step \in LoadSteps /\ now \in Nat
      BY <2>1, <1>0
    <3> HIDE DEF step
    <3>4. [load EXCEPT ![l].at = step]
            \in [Loads -> [at: LoadSteps, revision: Revisions, seenAt: Nat,
                           floor: Revisions]]
      BY <3>2, <3>3
    <3>5. [load EXCEPT ![l].at = step, ![l].revision = document.revision]
            \in [Loads -> [at: LoadSteps, revision: Revisions, seenAt: Nat,
                           floor: Revisions]]
      BY <3>1, <3>4
    <3>6. QED  BY <2>2, <3>3, <3>5
  <2>3. TypeOK'
    BY <1>2, <2>a DEF Fetch, IInv, TypeOK
  <2>4. Ordered' /\ Dated' /\ Checked' /\ WritesApplyToWhatWasRead'
    BY <1>2, <2>2, <1>0 DEF Fetch, IInv, TypeOK, Ordered, Dated, Checked,
                            WritesApplyToWhatWasRead
  <2>5. AnswersDoNotRegress' /\ StaleWithinGrace'
    BY <1>2, <2>1, <2>2 DEF Fetch, IInv, TypeOK, AnswersDoNotRegress, StaleWithinGrace
  <2>6. QED  BY <2>3, <2>4, <2>5 DEF IInv
<1>n. /\ now \in Nat /\ known \in Nat /\ load[l].floor \in Nat /\ load[l].revision \in Nat
      /\ load[l].seenAt \in Nat
      /\ snapshot.revision \in Nat /\ snapshot.seenAt \in Nat
  BY <1>0 DEF Snapshot
<1>r. /\ snapshot.fetchedAt = snapshot.seenAt /\ snapshot.seenAt <= now
      /\ load[l].seenAt <= now
      /\ known <= snapshot.revision /\ load[l].floor <= known
      /\ snapshot.seenAt \in Nat /\ snapshot.revision \in Revisions
  BY <1>0 DEF IInv, Dated, Ordered, Snapshot
<1>f. now - snapshot.seenAt \in Nat /\ snapshot.revision >= load[l].floor
  <2>1. /\ snapshot.seenAt <= now /\ known <= snapshot.revision /\ load[l].floor <= known
    BY <1>r
  <2>2. QED  BY <2>1, <1>n
<1>3. CASE FetchFails(l)
  <2>1. CASE Goto(l, "temporary") /\ UNCHANGED answer
    BY <1>3, <2>1, <1>b DEF FetchFails, LoadSteps
  <2>2. CASE Answers(l, "unavailable", 0, 0)
    BY <1>3, <2>2, <1>a, <1>r, <1>0, <1>t DEF FetchFails
  <2>3. QED  BY <1>3, <2>1, <2>2 DEF FetchFails
<1>4. CASE LoadFails(l)
  BY <1>4, <1>a, <1>r, <1>0, <1>t DEF LoadFails
<1>5. CASE Accept(l)
  <2>1. CASE load[l].revision >= snapshot.revision
    <3>1. /\ snapshot' = [revision |-> load[l].revision, fetchedAt |-> load[l].seenAt,
                          seenAt |-> load[l].seenAt]
          /\ Answers(l, "loaded", load[l].revision, now - load[l].seenAt)
          /\ known' = Newer(load[l].revision)
          /\ UNCHANGED <<now, document, readable, update>>
      BY <1>5, <2>1 DEF Accept
    <3>2. /\ known' \in Revisions /\ known <= known'
          /\ known' <= load[l].revision
      BY <3>1, <2>1, <1>r, <1>0 DEF Newer
    <3>3. snapshot' \in Snapshot /\ now - load[l].seenAt \in Nat
      BY <3>1, <1>r, <1>0 DEF Snapshot
    <3>4. load[l].revision >= load[l].floor
      BY <2>1, <1>r, <1>0
    <3>5. snapshot'.revision = load[l].revision /\ snapshot'.fetchedAt = snapshot'.seenAt
          /\ snapshot'.seenAt = load[l].seenAt
      BY <3>1
    <3>6. QED  BY <3>1, <3>2, <3>3, <3>4, <3>5, <1>a, <1>r, <1>0, <1>t
  <2>2. CASE ~(load[l].revision >= snapshot.revision)
    BY <1>5, <2>2, <1>b DEF Accept, LoadSteps
  <2>3. QED  BY <2>1, <2>2
<1>6. CASE Reload(l)
  <2>1. CASE HasSnapshot
    <3>1. /\ Answers(l, "loaded", snapshot.revision, now - snapshot.seenAt)
          /\ known' = Newer(snapshot.revision)
          /\ UNCHANGED <<now, document, readable, snapshot, update>>
      BY <1>6, <2>1 DEF Reload
    <3>2. known' \in Revisions /\ known <= known' /\ known' <= snapshot.revision
      BY <3>1, <1>r, <1>n, <1>0 DEF Newer
    <3>3. QED  BY <3>1, <3>2, <1>a, <1>f, <1>r, <1>0, <1>t
  <2>2. CASE ~HasSnapshot
    BY <1>6, <2>2, <1>a, <1>r, <1>0, <1>t DEF Reload
  <2>3. QED  BY <2>1, <2>2
<1>7. CASE FallBackStale(l)
  <2>1. CASE HasSnapshot /\ WithinGrace
    <3>1. now - snapshot.seenAt <= StaleMax
      BY <2>1, <1>r, <1>0 DEF WithinGrace
    <3>2. /\ Answers(l, "stale", snapshot.revision, now - snapshot.seenAt)
          /\ UNCHANGED <<now, document, readable, snapshot, update, known>>
      BY <1>7, <2>1 DEF FallBackStale, FromSnapshot
    <3>3. "stale" \in Statuses
      BY DEF Statuses
    <3>4. snapshot' = snapshot /\ known' = known /\ known <= known
      BY <3>2, <1>n
    <3>5. QED  BY <3>1, <3>2, <3>3, <3>4, <1>a, <1>f, <1>r, <1>0
  <2>2. CASE ~(HasSnapshot /\ WithinGrace)
    BY <1>7, <2>2, <1>a, <1>r, <1>0, <1>t DEF FallBackStale
  <2>3. QED  BY <2>1, <2>2
<1>8. CASE FallBackOverBudget(l)
  <2>1. /\ Answers(l, "over_budget", snapshot.revision, now - snapshot.seenAt)
        /\ UNCHANGED <<now, document, readable, snapshot, update, known>>
    BY <1>8 DEF FallBackOverBudget, FromSnapshot
  <2>2. "over_budget" \in Statuses /\ "over_budget" # "stale"
    BY DEF Statuses
  <2>3. snapshot' = snapshot /\ known' = known /\ known <= known
    BY <2>1, <1>n
  <2>4. QED  BY <2>1, <2>2, <2>3, <1>a, <1>f, <1>r, <1>0
<1>9. CASE LoadInvalidates(l)
  <2>1. \A k \in Loads : /\ load'[k].floor = 0
                         /\ load'[k].seenAt <= now
    BY <1>9, <1>0 DEF LoadInvalidates, Late, NoLoad, IInv, TypeOK, Dated
  <2>a. /\ load' = Late([load EXCEPT ![l] = NoLoad])
        /\ answer' = [answer EXCEPT ![l] = [Unanswered EXCEPT !.status = "unavailable"]]
        /\ snapshot' = NoSnapshot /\ known' = 0
        /\ UNCHANGED <<now, document, readable, update>>
    BY <1>9 DEF LoadInvalidates, Invalidates
  <2>b. NoLoad \in [at: LoadSteps, revision: Revisions, seenAt: Nat, floor: Revisions]
    BY <1>t DEF NoLoad, LoadSteps
  <2>c. [load EXCEPT ![l] = NoLoad]
          \in [Loads -> [at: LoadSteps, revision: Revisions, seenAt: Nat, floor: Revisions]]
    BY <2>b DEF IInv, TypeOK
  <2>d. load' \in [Loads -> [at: LoadSteps, revision: Revisions, seenAt: Nat,
                             floor: Revisions]]
    BY <2>a, <2>c, <1>t DEF Late
  <2>e. [Unanswered EXCEPT !.status = "unavailable"]
          = [status |-> "unavailable", revision |-> 0, age |-> 0]
    BY DEF Unanswered
  <2>f. answer' \in [Loads -> [status: Statuses, revision: Revisions, age: Nat]]
    BY <2>a, <2>e, <1>t DEF IInv, TypeOK
  <2>g. snapshot' \in Snapshot
    BY <2>a, <1>t DEF NoSnapshot, Snapshot
  <2>2. TypeOK'
    BY <2>a, <2>d, <2>f, <2>g, <1>t DEF IInv, TypeOK
  <2>3. Ordered' /\ Dated'
    <3>1. /\ snapshot'.revision = 0 /\ snapshot'.fetchedAt = 0 /\ snapshot'.seenAt = 0
          /\ known' = 0 /\ now' = now
      BY <2>a DEF NoSnapshot
    <3>2. QED  BY <3>1, <2>1, <1>0 DEF Ordered, Dated
  <2>4. Checked' /\ WritesApplyToWhatWasRead'
    BY <1>9 DEF LoadInvalidates, IInv, Checked, WritesApplyToWhatWasRead
  <2>5. AnswersDoNotRegress'
    <3>1. \A k \in Loads : answer'[k].revision \in Nat
      BY <2>2, <1>0 DEF TypeOK
    <3>2. QED  BY <3>1, <2>1 DEF AnswersDoNotRegress
  <2>6. StaleWithinGrace'
    BY <1>9 DEF LoadInvalidates, Unanswered, IInv, TypeOK, StaleWithinGrace
  <2>7. QED  BY <2>2, <2>3, <2>4, <2>5, <2>6 DEF IInv
<1>10. QED
  BY <1>1, <1>2, <1>3, <1>4, <1>5, <1>6, <1>7, <1>8, <1>9 DEF LoadStep

\* Every step of an update preserves the invariant.
LEMMA AnUpdatePreserves ==
  ASSUME IInv, NEW u \in Updates, UpdateStep(u)
  PROVE  IInv'
<1> USE TeamContextAssumption
<1>0. /\ document \in Document /\ readable \in BOOLEAN
      /\ update \in [Updates -> [at: UpdateSteps, revision: Revisions, base: Revisions]]
      /\ 0 \in Revisions /\ document.revision \in Revisions /\ Revisions \subseteq Nat
  BY DEF IInv, TypeOK, Document, Revisions
\* Only the update moves: whatever it may send was checked on that revision.
<1>a. ASSUME update' \in [Updates -> [at: UpdateSteps, revision: Revisions,
                                      base: Revisions]],
             Checked', UNCHANGED <<now, document, readable, snapshot, load, answer, known>>
      PROVE  IInv'
  BY <1>a DEF IInv, TypeOK, Ordered, Dated, AnswersDoNotRegress, StaleWithinGrace,
              WritesApplyToWhatWasRead
<1>b. ASSUME EndsUpdate(u)
      PROVE  /\ update' \in [Updates -> [at: UpdateSteps, revision: Revisions,
                                         base: Revisions]]
             /\ Checked'
  BY <1>b, <1>0 DEF EndsUpdate, NoUpdate, UpdateSteps, IInv, Checked
<1>c. ASSUME NEW step \in UpdateSteps, GotoUpdate(u, step),
             step \in {"patching", "lost"} => update[u].at \in {"patching", "lost"}
      PROVE  /\ update' \in [Updates -> [at: UpdateSteps, revision: Revisions,
                                         base: Revisions]]
             /\ Checked'
  BY <1>c, <1>0 DEF GotoUpdate, IInv, Checked
<1>1. CASE UpdateReads(u)
  <2>1. update' \in [Updates -> [at: UpdateSteps, revision: Revisions, base: Revisions]]
    BY <1>1, <1>0 DEF UpdateReads, UpdateSteps
  <2>2. Checked'
    BY <1>1, <1>0 DEF UpdateReads, IInv, Checked
  <2>3. QED  BY <1>1, <1>a, <2>1, <2>2 DEF UpdateReads
<1>2. CASE PatchReads(u)
  <2>0. UNCHANGED <<now, document, readable, snapshot, load, answer, known>>
    BY <1>2 DEF PatchReads, FindsBase
  <2>1. CASE ~readable
    <3>1. GotoUpdate(u, "denied")
      BY <1>2, <2>1 DEF PatchReads, FindsBase
    <3>2. QED  BY <3>1, <2>0, <1>a, <1>c DEF UpdateSteps
  <2>2. CASE readable /\ document.revision = update[u].revision
    <3>1. update' = [update EXCEPT ![u].at = "patching", ![u].base = document.revision]
      BY <1>2, <2>2 DEF PatchReads, FindsBase
    <3>2. update' \in [Updates -> [at: UpdateSteps, revision: Revisions, base: Revisions]]
      BY <3>1, <1>0 DEF UpdateSteps
    <3>3. Checked'
      BY <3>1, <2>2, <1>0 DEF IInv, Checked
    <3>4. QED  BY <3>2, <3>3, <2>0, <1>a
  <2>3. CASE readable /\ document.revision # update[u].revision
    <3>1. EndsUpdate(u)
      BY <1>2, <2>3 DEF PatchReads, FindsBase
    <3>2. QED  BY <3>1, <2>0, <1>a, <1>b
  <2>4. QED  BY <2>1, <2>2, <2>3
<1>3. CASE PatchLands(u)
  <2>1. /\ update' \in [Updates -> [at: UpdateSteps, revision: Revisions, base: Revisions]]
        /\ Checked'
    <3>1. GotoUpdate(u, "confirming") \/ EndsUpdate(u)
      BY <1>3 DEF PatchLands
    <3>2. QED  BY <3>1, <1>b, <1>c DEF UpdateSteps
  <2>2. document.revision = update[u].revision
    BY <1>3 DEF PatchLands, IInv, Checked
  <2>3. PICK fits \in BOOLEAN :
          /\ update[u].revision = document.revision => fits
          /\ document' = [revision |-> document.revision + 1, fits |-> fits,
                          by |-> "minori", basis |-> update[u].revision]
    BY <1>3 DEF PatchLands
  <2>4. document.revision + 1 \in Revisions
    BY <1>3, <1>0 DEF PatchLands, Revisions
  <2>5. document' \in Document
    BY <2>2, <2>3, <2>4, <1>0 DEF Document
  <2>6. WritesApplyToWhatWasRead'
    <3>1. /\ document'.basis = document.revision
          /\ document'.revision = document.revision + 1 /\ document'.fits
      BY <2>2, <2>3
    <3>2. document.revision \in Nat
      BY <1>0
    <3>3. QED  BY <3>1, <3>2 DEF WritesApplyToWhatWasRead
  <2>7. QED
    BY <1>3, <2>1, <2>5, <2>6
       DEF PatchLands, IInv, TypeOK, Ordered, Dated, AnswersDoNotRegress, StaleWithinGrace
<1>4. CASE PatchConflicts(u)
  BY <1>4, <1>a, <1>b DEF PatchConflicts
<1>9. CASE PatchRefused(u)
  <2>1. GotoUpdate(u, "denied") \/ EndsUpdate(u)
    BY <1>9 DEF PatchRefused
  <2>2. QED  BY <1>9, <2>1, <1>a, <1>b, <1>c DEF PatchRefused, UpdateSteps
<1>5. CASE Confirm(u)
  <2>1. EndsUpdate(u) \/ GotoUpdate(u, "denied")
    BY <1>5 DEF Confirm
  <2>2. QED  BY <1>5, <2>1, <1>a, <1>b, <1>c DEF Confirm, UpdateSteps
<1>6. CASE UpdateInvalidates(u)
  <2>1. \A k \in Loads : load'[k].floor = 0 /\ load'[k].seenAt = load[k].seenAt
    BY <1>6 DEF UpdateInvalidates, Late, IInv, TypeOK
  <2>2. Checked' /\ TypeOK'
    BY <1>6, <1>b, <1>0
       DEF UpdateInvalidates, Invalidates, NoSnapshot, Snapshot, Late, IInv, TypeOK
  <2>3. Ordered' /\ Dated'
    BY <1>6, <2>1 DEF UpdateInvalidates, Invalidates, NoSnapshot, IInv, TypeOK, Ordered, Dated
  <2>4. AnswersDoNotRegress'
    <3>1. \A k \in Loads : answer'[k].revision \in Nat
      BY <2>2, <1>0 DEF TypeOK
    <3>2. QED  BY <3>1, <2>1 DEF AnswersDoNotRegress
  <2>5. StaleWithinGrace' /\ WritesApplyToWhatWasRead'
    BY <1>6 DEF UpdateInvalidates, IInv, StaleWithinGrace, WritesApplyToWhatWasRead
  <2>6. QED  BY <2>2, <2>3, <2>4, <2>5 DEF IInv
<1>7. CASE UpdateFails(u)
  <2>1. EndsUpdate(u) \/ (update[u].at = "patching" /\ GotoUpdate(u, "lost"))
    BY <1>7 DEF UpdateFails
  <2>2. QED  BY <1>7, <2>1, <1>a, <1>b, <1>c DEF UpdateFails, UpdateSteps
<1>8. QED
  BY <1>1, <1>2, <1>3, <1>4, <1>5, <1>6, <1>7, <1>9 DEF UpdateStep

\* The invariant holds of every state a load, an update or Feishu leads to.
THEOREM Invariance == Spec => []IInv
<1>1. Init => IInv
  BY Initially
<1>2. IInv /\ [Next]_vars => IInv'
  <2> SUFFICES ASSUME IInv, [Next]_vars PROVE IInv'
    OBVIOUS
  <2>1. CASE UNCHANGED vars
    BY <2>1 DEF vars, IInv, TypeOK, Ordered, Dated, Checked, AnswersDoNotRegress,
                StaleWithinGrace, WritesApplyToWhatWasRead
  <2>2. CASE Next
    BY <2>2, FeishuSteps, ALoadPreserves, AnUpdatePreserves DEF Next
  <2>3. QED  BY <2>1, <2>2
<1>3. QED  BY <1>1, <1>2, PTL DEF Spec

\* However loads overlap (team-context-store.ts accept), none answers with a revision
\* older than one that was known when it began.
THEOREM NoRegress == Spec => []AnswersDoNotRegress
<1>1. IInv => AnswersDoNotRegress
  BY DEF IInv
<1>2. QED  BY <1>1, Invariance, PTL

\* Stale content (source.ts fallback) is never older than the grace period.
THEOREM Grace == Spec => []StaleWithinGrace
<1>1. IInv => StaleWithinGrace
  BY DEF IInv
<1>2. QED  BY <1>1, Invariance, PTL

\* Minori writes only on the revision its checks read (source.ts update and patchDocument).
THEOREM WritesAreChecked == Spec => []WritesApplyToWhatWasRead
<1>1. IInv => WritesApplyToWhatWasRead
  BY DEF IInv
<1>2. QED  BY <1>1, Invariance, PTL

================================================================================
