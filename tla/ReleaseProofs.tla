----------------------------- MODULE ReleaseProofs -----------------------------
(***************************************************************************)
(* What holds of the host however many releases are tried and whatever     *)
(* fails in them.                                                          *)
(*                                                                         *)
(* The argument: the journal on the disk always describes a way back       *)
(* (JournalInv); it is the run's own from the moment the run has written   *)
(* it until the run has removed it (OwnJournal), and until then state and  *)
(* service are where the step at which the run stands has put them         *)
(* (Progress, Recovery).  So wherever a run stops, service and state       *)
(* agree or a journal is left (Quiet).  No attempt is on record as a       *)
(* success before the state names its image (Successes).                   *)
(***************************************************************************)
EXTENDS Release, SequenceTheorems, TLAPS

\* A rollback set of images in p that were seen healthy, v.
Sound(s, p, v) ==
  /\ Len(s) <= 3
  /\ \A i, j \in DOMAIN s : i # j => s[i] # s[j]
  /\ Elements(s) \subseteq p \intersect v
  /\ Active(s) \in p \intersect v

\* The state after a release of image over one whose image was original.
Follows(t, image, original) == t # <<>> /\ t[1] = image /\ original \in Elements(t)

Names(t, image) == t # <<>> /\ t[1] = image

StateInv == Sound(state, present, verified)

JournalInv ==
  journal # NoJournal =>
    /\ Sound(journal.saved, present, verified)
    /\ journal.original = Active(journal.saved)
    /\ journal.alternate \in present
    /\ service \in {journal.original, journal.alternate, NoImage}
    /\ state = journal.saved \/ Follows(state, journal.alternate, journal.original)

Quiet ==
  pc \in {"idle", "load", "admit"} /\ journal = NoJournal => LateSignals \/ service = Active(state)

Recovery ==
  /\ pc \in Recovering => journal # NoJournal
  /\ pc \in Recovering \ {"recover"} =>
       /\ run.goal \in {journal.original, journal.alternate}
       /\ run.goal = journal.alternate <=> Names(state, journal.alternate)
       /\ run.goal # journal.alternate => state = journal.saved
  /\ pc \in {"recover_state", "recover_record", "recover_clear"} =>
       service = run.goal /\ run.goal \in verified
  /\ pc = "recover_state" => run.goal # journal.alternate

Mine ==
  /\ journal # NoJournal
  /\ journal.attempt = run.attempt
  /\ journal.original = run.original
  /\ journal.alternate = run.image
  /\ journal.saved = run.saved

OwnJournal ==
  /\ pc \in {"admit", "prepare", "journal", "cleared", "rb_cleared", "prune"} => journal = NoJournal
  /\ pc \in {"reload"} \union (Forward \ {"cleared"}) => Mine
  /\ pc \in Backward \ {"rb_cleared"} => Mine \/ (LateSignals /\ journal = NoJournal)

Admitted == {"prepare", "journal", "reload"} \union Forward \union Backward

Progress ==
  /\ pc # "idle" => run.image \in Digests
  /\ pc \in Admitted =>
       run.original = Active(run.saved) /\ Sound(run.saved, present, verified)
  /\ pc \in {"journal", "reload"} \union Forward \union Backward => run.image \in present
  /\ pc \in {"prepare", "journal", "reload", "switch"} => service = run.original
  /\ pc \in {"prepare", "journal", "reload", "switch", "replaced", "ready", "mark_healthy", "state"} =>
       state = run.saved
  /\ pc \in (Forward \ {"switch"}) \union {"prune"} => service = run.image
  /\ pc \in {"mark_healthy", "state"} => run.image \in verified
  /\ pc \in {"mark_state", "record", "clear", "cleared"} => Follows(state, run.image, run.original)
  /\ pc = "prune" => Names(state, run.image)
  /\ pc \in Backward =>
       /\ state = run.saved \/ Follows(state, run.image, run.original)
       /\ service \in {run.original, run.image, NoImage}
  /\ pc \in {"rb_state", "rb_record", "rb_clear", "rb_cleared"} => service = run.original
  /\ pc \in {"rb_record", "rb_clear", "rb_cleared"} => state = run.saved

Succeeded(R, attempt) == \E r \in R : r.attempt = attempt /\ r.result = "success"

Numbers ==
  /\ \A r \in records : r.attempt <= attempts
  /\ pc # "idle" => run.attempt = attempts /\ attempts > 0
  /\ journal # NoJournal => journal.attempt <= attempts
  /\ pc \in {"load"} \union Recovering /\ journal # NoJournal => journal.attempt < attempts

Successes ==
  /\ pc \notin {"idle", "clear", "cleared", "prune"} =>
       LateSignals \/ ~ Succeeded(records, run.attempt)
  /\ journal # NoJournal /\ Succeeded(records, journal.attempt) =>
       LateSignals \/ Names(state, journal.alternate)

IInv == TypeOK /\ StateInv /\ JournalInv /\ Quiet /\ Recovery /\ OwnJournal /\ Progress
        /\ Numbers /\ Successes

--------------------------------------------------------------------------------
(* Rollback sets *)

\* What is held and was seen healthy stays so while neither set shrinks.
LEMMA SoundGrows ==
  ASSUME NEW s \in Seq(Images), NEW p, NEW v, NEW q, NEW w,
         Sound(s, p, v), p \subseteq q, v \subseteq w
  PROVE  Sound(s, q, w)
BY DEF Sound

\* Images that s does not name may be removed.
LEMMA SoundPruned ==
  ASSUME NEW s \in Seq(Images), NEW p, NEW v, NEW gone, s # <<>>,
         Sound(s, p, v), gone \intersect Elements(s) = {}
  PROVE  Sound(s, p \ gone, v)
<1>1. 1 \in DOMAIN s
  OBVIOUS
<1>2. Active(s) \in Elements(s)
  BY <1>1 DEF Active, Elements
<1>3. QED  BY <1>2 DEF Sound

\* A state that names an image makes it the active one.
LEMMA NamesActive ==
  ASSUME NEW t, NEW i, Names(t, i)
  PROVE  Active(t) = i
BY DEF Names, Active

\* The state after a release names its image.
LEMMA FollowsNames ==
  ASSUME NEW t, NEW i, NEW o, Follows(t, i, o)
  PROVE  Names(t, i)
BY DEF Follows, Names

\* Position finds an image that s has.
LEMMA PositionFinds ==
  ASSUME NEW s \in Seq(Images), NEW image
  PROVE  /\ image \in Elements(s) => Position(image, s) \in DOMAIN s /\ s[Position(image, s)] = image
         /\ image \notin Elements(s) => Position(image, s) = Len(s) + 1
BY DEF Position, Elements

\* Promoting an image yields a rollback set that begins with it and still has the
\* release that was active.
LEMMA PromotedIsSound ==
  ASSUME NEW s \in Seq(Images), NEW p, NEW v, NEW image \in Images, s # <<>>,
         Sound(s, p, v), image \in p \intersect v
  PROVE  /\ Promoted(image, s) \in Seq(Images)
         /\ Sound(Promoted(image, s), p, v)
         /\ Follows(Promoted(image, s), image, s[1])
<1> DEFINE here == image \in Elements(s)
           kept == IF here THEN Len(s) ELSE Len(s) + 1
           n == IF kept < 3 THEN kept ELSE 3
           k == Position(image, s)
           t == Promoted(image, s)
<1>1. /\ Len(s) \in 1 .. 3
      /\ DOMAIN s = 1 .. Len(s)
      /\ \A i \in 1 .. Len(s) : s[i] \in Images
  <2>1. Len(s) \in Nat /\ DOMAIN s = 1 .. Len(s) /\ \A i \in 1 .. Len(s) : s[i] \in Images
    OBVIOUS
  <2>2. Len(s) # 0
    BY EmptySeq
  <2>3. Len(s) <= 3
    BY DEF Sound
  <2>4. QED  BY <2>1, <2>2, <2>3
<1>2. here => k \in 1 .. Len(s) /\ s[k] = image
  BY PositionFinds, <1>1
<1>3. ~ here => k = Len(s) + 1
  BY PositionFinds
<1>4. n \in 1 .. 3 /\ (n = 1 => Len(s) = 1 /\ here)
  BY <1>1
<1>5. t = [i \in 1 .. n |-> IF i = 1 THEN image ELSE IF i <= k THEN s[i - 1] ELSE s[i]]
  BY DEF Promoted
<1>6. \A i \in 2 .. n : /\ i <= k => i - 1 \in 1 .. Len(s) /\ t[i] = s[i - 1]
                        /\ i > k => i \in 1 .. Len(s) /\ t[i] = s[i]
  BY <1>1, <1>2, <1>3, <1>4, <1>5
<1>7. t[1] = image
  BY <1>4, <1>5
<1>8. \A i \in 1 .. n : t[i] \in Images
  BY <1>1, <1>2, <1>3, <1>4, <1>6, <1>7
<1>9. t \in Seq(Images) /\ Len(t) = n /\ DOMAIN t = 1 .. n
  BY <1>4, <1>5, <1>8
<1>10. \A i \in 1 .. Len(s) : s[i] = image => here
  BY <1>1 DEF Elements
<1>11. \A i \in 2 .. n : t[i] # image
  <2> SUFFICES ASSUME NEW i \in 2 .. n, t[i] = image  PROVE FALSE
    OBVIOUS
  <2>1. CASE i <= k
    <3>1. i - 1 \in 1 .. Len(s) /\ s[i - 1] = image /\ i - 1 # k
      BY <1>6, <2>1
    <3>2. here /\ s[k] = image /\ k \in 1 .. Len(s)
      BY <3>1, <1>10, <1>2
    <3>3. QED  BY <3>1, <3>2, <1>1 DEF Sound
  <2>2. CASE i > k
    <3>0. k \in Int
      BY <1>1, <1>2, <1>3
    <3>1. i \in 1 .. Len(s) /\ s[i] = image /\ i # k
      BY <1>6, <2>2, <3>0
    <3>2. here /\ s[k] = image /\ k \in 1 .. Len(s)
      BY <3>1, <1>10, <1>2
    <3>3. QED  BY <3>1, <3>2, <1>1 DEF Sound
  <2>3. QED  BY <2>1, <2>2, <1>1, <1>2, <1>3
<1>12. \A i, j \in 2 .. n : i # j => t[i] # t[j]
  <2> SUFFICES ASSUME NEW i \in 2 .. n, NEW j \in 2 .. n, i < j  PROVE t[i] # t[j]
    OBVIOUS
  <2>1. \A a, b \in 1 .. Len(s) : a # b => s[a] # s[b]
    BY <1>1 DEF Sound
  <2>2. k \in Int
    BY <1>1, <1>2, <1>3
  <2>3. CASE j <= k
    <3>1. t[i] = s[i - 1] /\ t[j] = s[j - 1] /\ i - 1 \in 1 .. Len(s) /\ j - 1 \in 1 .. Len(s)
      BY <1>6, <2>2, <2>3
    <3>2. QED  BY <3>1, <2>1
  <2>4. CASE i <= k /\ k < j
    <3>1. t[i] = s[i - 1] /\ t[j] = s[j] /\ i - 1 \in 1 .. Len(s) /\ j \in 1 .. Len(s)
      BY <1>6, <2>2, <2>4
    <3>2. QED  BY <3>1, <2>1
  <2>5. CASE k < i
    <3>1. t[i] = s[i] /\ t[j] = s[j] /\ i \in 1 .. Len(s) /\ j \in 1 .. Len(s)
      BY <1>6, <2>2, <2>5
    <3>2. QED  BY <3>1, <2>1
  <2>6. QED  BY <2>2, <2>3, <2>4, <2>5
<1>13. \A i, j \in DOMAIN t : i # j => t[i] # t[j]
  BY <1>4, <1>7, <1>9, <1>11, <1>12
<1>14. \A i \in 1 .. Len(s) : s[i] \in p \intersect v
  BY <1>1 DEF Sound, Elements
<1>15. \A i \in 1 .. n : t[i] \in p \intersect v
  BY <1>4, <1>6, <1>7, <1>14, <1>1, <1>2, <1>3
<1>16. Elements(t) \subseteq p \intersect v
  BY <1>9, <1>15 DEF Elements
<1>17. t # <<>> /\ Active(t) = image
  BY <1>4, <1>7, <1>9 DEF Active
<1>18. Sound(t, p, v)
  BY <1>4, <1>9, <1>13, <1>16, <1>17 DEF Sound
<1>19. s[1] \in Elements(t)
  <2>1. CASE k = 1
    <3>1. here
      BY <2>1, <1>1, <1>3
    <3>2. t[1] = s[1] /\ 1 \in DOMAIN t
      BY <3>1, <2>1, <1>2, <1>4, <1>7, <1>9
    <3>3. QED  BY <3>2 DEF Elements
  <2>2. CASE k # 1
    <3>1. 2 <= k /\ n >= 2
      BY <2>2, <1>1, <1>2, <1>3, <1>4
    <3>2. t[2] = s[1] /\ 2 \in DOMAIN t
      BY <3>1, <1>4, <1>6, <1>9
    <3>3. QED  BY <3>2 DEF Elements
  <2>3. QED  BY <2>1, <2>2
<1>20. QED  BY <1>7, <1>9, <1>17, <1>18, <1>19 DEF Follows

\* What a run writes as its state.
LEMMA NextStateIsSound ==
  ASSUME NEW p, NEW v, run.saved \in Seq(Images), run.original = Active(run.saved),
         Legacy \in Images, run.image \in Images,
         Sound(run.saved, p, v), run.image \in p \intersect v
  PROVE  /\ NextState \in Seq(Images)
         /\ Sound(NextState, p, v)
         /\ Follows(NextState, run.image, run.original)
<1>1. CASE run.saved = <<>>
  <2>1. run.original = Legacy /\ Legacy \in p \intersect v
    BY <1>1 DEF Active, Sound
  <2> DEFINE s == <<run.original>>
  <2>2. s \in Seq(Images) /\ s # <<>> /\ Len(s) = 1 /\ DOMAIN s = {1} /\ s[1] = run.original
    BY <2>1
  <2>3. Sound(s, p, v)
    BY <2>1, <2>2 DEF Sound, Elements, Active
  <2>4. NextState = Promoted(run.image, s)
    BY <1>1 DEF NextState
  <2> HIDE DEF s
  <2>5. QED  BY <2>2, <2>3, <2>4, PromotedIsSound
<1>2. CASE run.saved # <<>>
  <2>1. NextState = Promoted(run.image, run.saved) /\ run.original = run.saved[1]
    BY <1>2 DEF NextState, Active
  <2>2. QED  BY <1>2, <2>1, PromotedIsSound
<1>3. QED  BY <1>1, <1>2

--------------------------------------------------------------------------------
(* Types *)

\* The steps of the script.
LEMMA StepNames ==
  {"idle", "load", "admit", "prepare", "journal", "reload", "prune", "recover",
   "recover_switch", "recover_ready", "recover_state", "recover_record", "recover_clear",
   "switch", "replaced", "ready", "mark_healthy", "state", "mark_state", "record", "clear",
   "cleared", "rb_switch", "rb_ready", "rb_state", "rb_record", "rb_clear", "rb_cleared",
   "rb_failed"} \subseteq Steps
BY DEF Steps, Recovering, Forward, Backward

\* What a run's variables hold.
LEMMA RunTypes ==
  /\ Idle \in Runs
  /\ \A n \in 1 .. MaxAttempts, i \in Digests :
       [Idle EXCEPT !.attempt = n, !.image = i] \in Runs
  /\ \A r \in Runs : /\ [r EXCEPT !.exiting = TRUE] \in Runs
                     /\ \A i \in Images : [r EXCEPT !.goal = i] \in Runs
                     /\ \A i \in Images, s \in Seq(Images) :
                          [r EXCEPT !.original = i, !.saved = s] \in Runs
<1>1. <<>> \in Seq(Images)
  OBVIOUS
<1>2. Idle \in Runs
  BY <1>1, ReleaseAssumption DEF Runs, Idle
<1>3. ASSUME NEW r \in Runs
      PROVE  [r EXCEPT !.exiting = TRUE] \in Runs
  BY DEF Runs
<1>4. ASSUME NEW r \in Runs, NEW i \in Images
      PROVE  [r EXCEPT !.goal = i] \in Runs
  BY DEF Runs
<1>5. ASSUME NEW r \in Runs, NEW i \in Images, NEW s \in Seq(Images)
      PROVE  [r EXCEPT !.original = i, !.saved = s] \in Runs
  BY DEF Runs
<1>6. ASSUME NEW r \in Runs, NEW n \in 1 .. MaxAttempts, NEW i \in Digests
      PROVE  [r EXCEPT !.attempt = n, !.image = i] \in Runs
  <2>1. n \in 0 .. MaxAttempts
    BY ReleaseAssumption
  <2>2. QED  BY <2>1 DEF Runs
<1>7. QED  BY <1>2, <1>3, <1>4, <1>5, <1>6

\* The fields of a run and of a journal that are in use.
LEMMA Fields ==
  ASSUME IInv
  PROVE  /\ journal # NoJournal => /\ journal.attempt \in 1 .. MaxAttempts
                                  /\ journal.original \in Images
                                  /\ journal.alternate \in Digests
                                  /\ journal.saved \in Seq(Images)
         /\ pc # "idle" => /\ run.attempt \in 1 .. MaxAttempts
                           /\ run.image \in Digests
                           /\ run.saved \in Seq(Images)
         /\ pc \in Admitted => run.original \in Images
         /\ pc \in Recovering \ {"recover"} => run.goal \in Images
<1>1. journal # NoJournal => /\ journal.attempt \in 1 .. MaxAttempts
                             /\ journal.original \in Images
                             /\ journal.alternate \in Digests
                             /\ journal.saved \in Seq(Images)
  BY DEF IInv, TypeOK, Journals
<1>2. pc # "idle" => run.attempt \in 1 .. MaxAttempts
  BY ReleaseAssumption DEF IInv, TypeOK, Numbers
<1>3. pc # "idle" => run.image \in Digests
  BY DEF IInv, Progress
<1>4. run.saved \in Seq(Images)
  BY DEF IInv, TypeOK, Runs
<1>5. pc \in Admitted => run.original \in Images
  BY DEF IInv, TypeOK, Progress, Sound
<1>6. pc \in Recovering \ {"recover"} => run.goal \in Images
  BY <1>1 DEF IInv, Recovery, Images
<1>7. QED  BY <1>1, <1>2, <1>3, <1>4, <1>5, <1>6

\* A record of a known attempt is a record.
LEMMA RecordTypes ==
  ASSUME NEW n \in 1 .. MaxAttempts, NEW i \in Digests,
         NEW x \in {"success", "failed_before_replace", "rolled_back", "rollback_failed"},
         TypeOK
  PROVE  Record(n, i, x) => records' \subseteq Records
BY DEF Record, Records, TypeOK

\* The journal a run writes is a journal.
LEMMA JournalTypes ==
  ASSUME IInv, pc \in Admitted, NEW phase \in Phases
  PROVE  JournalOf(phase) \in Journals
BY Fields DEF JournalOf, Journals, Admitted, Forward, Backward

\* Every step keeps the types.
LEMMA TypeOKStep ==
  ASSUME IInv, [Next]_vars
  PROVE  TypeOK'
<1> USE DEF At, Goto, GotoAnd, Fault, FailTo, End, Fail, disk
<1>0. TypeOK /\ MaxAttempts \in Nat /\ MaxFaults \in Nat /\ Idle \in Runs
  BY ReleaseAssumption, RunTypes DEF IInv
<1>1. CASE \E image \in Digests : Begin(image)
  <2>1. PICK image \in Digests : Begin(image)
    BY <1>1
  <2>2. attempts + 1 \in 1 .. MaxAttempts
    BY <1>0, <2>1 DEF Begin, TypeOK
  <2>3. run' \in Runs
    BY <2>1, <2>2, RunTypes DEF Begin
  <2>4. QED  BY <1>0, <2>1, <2>2, <2>3, StepNames DEF Begin, TypeOK
<1>2. CASE LoadState
  BY <1>0, <1>2, StepNames DEF LoadState, StopUnless, TypeOK
<1>3. CASE Recover
  <2>1. CASE End
    BY <1>0, <1>3, <2>1, StepNames DEF Recover, StopUnless, TypeOK
  <2>2. CASE ~ End
    <3>1. journal # NoJournal
      BY <1>3 DEF Recover, Recovering, IInv, Recovery
    <3>2. run' \in Runs
      <4> DEFINE goal == IF state # <<>> /\ state[1] = journal.alternate
                         THEN journal.alternate ELSE journal.original
      <4>1. goal \in Images /\ run \in Runs
        BY <3>1, Fields DEF IInv, TypeOK, Images
      <4>2. run' = [run EXCEPT !.goal = goal]
        BY <1>3, <2>2 DEF Recover, StopUnless
      <4> HIDE DEF goal
      <4>3. QED  BY <4>1, <4>2, RunTypes
    <3>3. QED  BY <1>0, <1>3, <2>2, <3>2, StepNames DEF Recover, StopUnless, TypeOK
  <2>3. QED  BY <2>1, <2>2
<1>4. CASE RecoverSwitch
  <2>1. service' \in Images \union {NoImage}
    BY <1>0, <1>4, Fields DEF RecoverSwitch, SwitchService, SwitchFails, Recovering, TypeOK
  <2>2. QED  BY <1>0, <1>4, <2>1, StepNames DEF RecoverSwitch, TypeOK
<1>5. CASE RecoverReady
  <2>1. verified' \subseteq Images
    BY <1>0, <1>5, Fields DEF RecoverReady, Recovering, TypeOK
  <2>2. QED  BY <1>0, <1>5, <2>1, StepNames DEF RecoverReady, TypeOK
<1>6. CASE RecoverState
  <2>1. journal # NoJournal
    BY <1>6 DEF RecoverState, Recovering, IInv, Recovery
  <2>2. QED  BY <1>0, <1>6, <2>1, Fields, StepNames DEF RecoverState, TypeOK
<1>7. CASE RecoverRecord
  <2>1. journal # NoJournal
    BY <1>7 DEF RecoverRecord, Recovering, IInv, Recovery
  <2>2. records' \subseteq Records
    BY <1>0, <1>7, <2>1, Fields, RecordTypes DEF RecoverRecord, TypeOK
  <2>3. QED  BY <1>0, <1>7, <2>2, StepNames DEF RecoverRecord, TypeOK
<1>8. CASE RecoverClear
  BY <1>0, <1>8, StepNames DEF RecoverClear, TypeOK
<1>9. CASE Admit
  <2>1. CASE End
    BY <1>0, <1>9, <2>1, StepNames DEF Admit, StopUnless, TypeOK
  <2>2. CASE ~ End
    <3>1. service \in Images /\ state \in Seq(Images) /\ run \in Runs
      BY <1>9, <2>2 DEF Admit, StopUnless, RunsWhatIsSaved, IInv, TypeOK
    <3>2. run' \in Runs
      BY <1>9, <2>2, <3>1, RunTypes DEF Admit, StopUnless
    <3>3. QED  BY <1>0, <1>9, <2>2, <3>2, StepNames DEF Admit, StopUnless, TypeOK
  <2>3. QED  BY <2>1, <2>2
<1>10. CASE Prepare
  <2>1. records' \subseteq Records
    BY <1>0, <1>10, Fields, RecordTypes DEF Prepare, FailBeforeReplace, TypeOK
  <2>2. present' \subseteq Images
    BY <1>0, <1>10, Fields DEF Prepare, TypeOK, Images
  <2>3. QED  BY <1>0, <1>10, <2>1, <2>2, StepNames DEF Prepare, FailBeforeReplace, TypeOK
<1>11. CASE WriteJournal
  <2>1. JournalOf("prepared") \in Journals
    BY <1>11, JournalTypes DEF WriteJournal, Admitted, Phases
  <2>2. records' \subseteq Records
    BY <1>0, <1>11, Fields, RecordTypes DEF WriteJournal, FailBeforeReplace, TypeOK
  <2>3. QED  BY <1>0, <1>11, <2>1, <2>2, StepNames DEF WriteJournal, FailBeforeReplace, TypeOK
<1>12. CASE ReloadJournal
  <2>1. records' \subseteq Records
    BY <1>0, <1>12, Fields, RecordTypes DEF ReloadJournal, FailBeforeReplace, TypeOK
  <2>2. QED  BY <1>0, <1>12, <2>1, StepNames DEF ReloadJournal, FailBeforeReplace, TypeOK
<1>13. CASE Switch
  <2>1. service' \in Images \union {NoImage}
    BY <1>0, <1>13, Fields DEF Switch, SwitchService, SwitchFails, Admitted, Forward, Backward, Images, TypeOK
  <2>2. QED  BY <1>0, <1>13, <2>1, StepNames DEF Switch, TypeOK
<1>14. CASE MarkReplaced
  <2>1. JournalOf("replaced") \in Journals
    BY <1>14, JournalTypes DEF MarkReplaced, Mark, Admitted, Forward, Phases
  <2>2. QED  BY <1>0, <1>14, <2>1, StepNames DEF MarkReplaced, Mark, TypeOK
<1>15. CASE Ready
  <2>1. verified' \subseteq Images
    BY <1>0, <1>15, Fields DEF Ready, Admitted, Forward, Backward, Images, TypeOK
  <2>2. QED  BY <1>0, <1>15, <2>1, StepNames DEF Ready, TypeOK
<1>16. CASE MarkHealthy
  <2>1. JournalOf("healthy") \in Journals
    BY <1>16, JournalTypes DEF MarkHealthy, Mark, Admitted, Forward, Phases
  <2>2. QED  BY <1>0, <1>16, <2>1, StepNames DEF MarkHealthy, Mark, TypeOK
<1>17. CASE WriteState
  <2>1. CASE state' = NextState
    <3>1. NextState \in Seq(Images)
      <4>1. pc = "state"
        BY <1>17 DEF WriteState
      <4>2. /\ run.original = Active(run.saved)
            /\ Sound(run.saved, present, verified)
            /\ run.image \in present \intersect verified
        BY <4>1 DEF IInv, Progress, Admitted, Forward
      <4>3. run.saved \in Seq(Images) /\ Legacy \in Images /\ run.image \in Images
        BY <4>1, Fields DEF Images
      <4>4. QED  BY <4>2, <4>3, NextStateIsSound
    <3>2. QED  BY <1>0, <1>17, <2>1, <3>1, StepNames DEF WriteState, TypeOK
  <2>2. CASE state' # NextState
    BY <1>0, <1>17, <2>2, StepNames DEF WriteState, TypeOK
  <2>3. QED  BY <2>1, <2>2
<1>18. CASE MarkStateWritten
  <2>1. JournalOf("state_written") \in Journals
    BY <1>18, JournalTypes DEF MarkStateWritten, Mark, Admitted, Forward, Phases
  <2>2. QED  BY <1>0, <1>18, <2>1, StepNames DEF MarkStateWritten, Mark, TypeOK
<1>19. CASE RecordSuccess
  <2>1. records' \subseteq Records
    BY <1>0, <1>19, Fields, RecordTypes DEF RecordSuccess, TypeOK
  <2>2. QED  BY <1>0, <1>19, <2>1, StepNames DEF RecordSuccess, TypeOK
<1>20. CASE ClearJournal
  BY <1>0, <1>20, StepNames DEF ClearJournal, TypeOK
<1>21. CASE Commit
  BY <1>0, <1>21, StepNames DEF Commit, TypeOK
<1>22. CASE Prune
  BY <1>0, <1>22, StepNames DEF Prune, TypeOK
<1>23. CASE RollbackSwitch
  <2>1. service' \in Images \union {NoImage}
    BY <1>0, <1>23, Fields DEF RollbackSwitch, SwitchService, SwitchFails, Admitted, Forward, Backward, Images, TypeOK
  <2>2. QED  BY <1>0, <1>23, <2>1, StepNames DEF RollbackSwitch, TypeOK
<1>24. CASE RollbackReady
  <2>1. verified' \subseteq Images
    BY <1>0, <1>24, Fields DEF RollbackReady, Admitted, Forward, Backward, Images, TypeOK
  <2>2. QED  BY <1>0, <1>24, <2>1, StepNames DEF RollbackReady, TypeOK
<1>25. CASE RollbackState
  <2>1. run.saved \in Seq(Images)
    BY <1>25, Fields DEF RollbackState
  <2>2. QED  BY <1>0, <1>25, <2>1, StepNames DEF RollbackState, TypeOK
<1>26. CASE RollbackRecord
  <2>1. records' \subseteq Records
    BY <1>0, <1>26, Fields, RecordTypes DEF RollbackRecord, TypeOK
  <2>2. QED  BY <1>0, <1>26, <2>1, StepNames DEF RollbackRecord, TypeOK
<1>27. CASE RollbackClear
  BY <1>0, <1>27, StepNames DEF RollbackClear, TypeOK
<1>28. CASE RollbackDone
  BY <1>0, <1>28, StepNames DEF RollbackDone, TypeOK
<1>29. CASE RollbackFailed
  <2>1. records' \subseteq Records
    BY <1>0, <1>29, Fields, RecordTypes DEF RollbackFailed, TypeOK
  <2>2. QED  BY <1>0, <1>29, <2>1, StepNames DEF RollbackFailed, TypeOK
<1>30. CASE Signal
  <2>1. run' \in Runs
    BY <1>30, RunTypes DEF Signal, IInv, TypeOK
  <2>2. QED  BY <1>0, <1>30, <2>1, StepNames DEF Signal, TypeOK
<1>31. CASE Kill
  BY <1>0, <1>31, StepNames DEF Kill, TypeOK
<1>32. CASE Rest \/ UNCHANGED vars
  BY <1>0, <1>32 DEF Rest, vars, TypeOK
<1>33. QED
  BY <1>1, <1>2, <1>3, <1>4, <1>5, <1>6, <1>7, <1>8, <1>9, <1>10, <1>11, <1>12, <1>13,
     <1>14, <1>15, <1>16, <1>17, <1>18, <1>19, <1>20, <1>21, <1>22, <1>23, <1>24, <1>25,
     <1>26, <1>27, <1>28, <1>29, <1>30, <1>31, <1>32
  DEF Next, RunStep

--------------------------------------------------------------------------------
(* Steps *)

\* Nothing seen healthy is forgotten, and only Prune removes images.
LEMMA Grows ==
  ASSUME [Next]_vars
  PROVE  verified \subseteq verified' /\ (present \subseteq present' \/ Prune)
<1> USE DEF At, Goto, GotoAnd, Fault, FailTo, End, Fail, disk
<1>1. CASE \E image \in Digests : Begin(image)
  BY <1>1 DEF Begin, Idle
<1>2. CASE LoadState
  BY <1>2 DEF LoadState, StopUnless
<1>3. CASE Recover
  BY <1>3 DEF Recover, StopUnless
<1>4. CASE RecoverSwitch
  BY <1>4 DEF RecoverSwitch, SwitchService, SwitchFails
<1>5. CASE RecoverReady
  BY <1>5 DEF RecoverReady
<1>6. CASE RecoverState
  BY <1>6 DEF RecoverState
<1>7. CASE RecoverRecord
  BY <1>7 DEF RecoverRecord, Record
<1>8. CASE RecoverClear
  BY <1>8 DEF RecoverClear
<1>9. CASE Admit
  BY <1>9 DEF Admit, StopUnless, RunsWhatIsSaved
<1>10. CASE Prepare
  BY <1>10 DEF Prepare, FailBeforeReplace, Record
<1>11. CASE WriteJournal
  BY <1>11 DEF WriteJournal, JournalOf, FailBeforeReplace, Record
<1>12. CASE ReloadJournal
  BY <1>12 DEF ReloadJournal, FailBeforeReplace, Record
<1>13. CASE Switch
  BY <1>13 DEF Switch, SwitchService, SwitchFails
<1>14. CASE MarkReplaced
  BY <1>14 DEF MarkReplaced, Mark, JournalOf
<1>15. CASE Ready
  BY <1>15 DEF Ready
<1>16. CASE MarkHealthy
  BY <1>16 DEF MarkHealthy, Mark, JournalOf
<1>17. CASE WriteState
  BY <1>17 DEF WriteState
<1>18. CASE MarkStateWritten
  BY <1>18 DEF MarkStateWritten, Mark, JournalOf
<1>19. CASE RecordSuccess
  BY <1>19 DEF RecordSuccess, Record
<1>20. CASE ClearJournal
  BY <1>20 DEF ClearJournal
<1>21. CASE Commit
  BY <1>21 DEF Commit
<1>22. CASE Prune
  BY <1>22 DEF Prune
<1>23. CASE RollbackSwitch
  BY <1>23 DEF RollbackSwitch, SwitchService, SwitchFails
<1>24. CASE RollbackReady
  BY <1>24 DEF RollbackReady
<1>25. CASE RollbackState
  BY <1>25 DEF RollbackState
<1>26. CASE RollbackRecord
  BY <1>26 DEF RollbackRecord, Record
<1>27. CASE RollbackClear
  BY <1>27 DEF RollbackClear
<1>28. CASE RollbackDone
  BY <1>28 DEF RollbackDone
<1>29. CASE RollbackFailed
  BY <1>29 DEF RollbackFailed, Record
<1>30. CASE Signal
  BY <1>30 DEF Signal, TransactionActive
<1>31. CASE Kill
  BY <1>31 DEF Kill
<1>32. CASE Rest \/ UNCHANGED vars
  BY <1>32 DEF Rest, vars
<1>33. QED
  BY <1>1, <1>2, <1>3, <1>4, <1>5, <1>6, <1>7, <1>8, <1>9, <1>10, <1>11, <1>12, <1>13,
     <1>14, <1>15, <1>16, <1>17, <1>18, <1>19, <1>20, <1>21, <1>22, <1>23, <1>24, <1>25,
     <1>26, <1>27, <1>28, <1>29, <1>30, <1>31, <1>32
  DEF Next, RunStep

\* Three steps write the state.
LEMMA StateWriters ==
  ASSUME [Next]_vars
  PROVE  state' = state \/ WriteState \/ RecoverState \/ RollbackState
<1> USE DEF At, Goto, GotoAnd, Fault, FailTo, End, Fail, disk
<1>1. CASE \E image \in Digests : Begin(image)
  BY <1>1 DEF Begin, Idle
<1>2. CASE LoadState
  BY <1>2 DEF LoadState, StopUnless
<1>3. CASE Recover
  BY <1>3 DEF Recover, StopUnless
<1>4. CASE RecoverSwitch
  BY <1>4 DEF RecoverSwitch, SwitchService, SwitchFails
<1>5. CASE RecoverReady
  BY <1>5 DEF RecoverReady
<1>6. CASE RecoverState
  BY <1>6 DEF RecoverState
<1>7. CASE RecoverRecord
  BY <1>7 DEF RecoverRecord, Record
<1>8. CASE RecoverClear
  BY <1>8 DEF RecoverClear
<1>9. CASE Admit
  BY <1>9 DEF Admit, StopUnless, RunsWhatIsSaved
<1>10. CASE Prepare
  BY <1>10 DEF Prepare, FailBeforeReplace, Record
<1>11. CASE WriteJournal
  BY <1>11 DEF WriteJournal, JournalOf, FailBeforeReplace, Record
<1>12. CASE ReloadJournal
  BY <1>12 DEF ReloadJournal, FailBeforeReplace, Record
<1>13. CASE Switch
  BY <1>13 DEF Switch, SwitchService, SwitchFails
<1>14. CASE MarkReplaced
  BY <1>14 DEF MarkReplaced, Mark, JournalOf
<1>15. CASE Ready
  BY <1>15 DEF Ready
<1>16. CASE MarkHealthy
  BY <1>16 DEF MarkHealthy, Mark, JournalOf
<1>17. CASE WriteState
  BY <1>17 DEF WriteState
<1>18. CASE MarkStateWritten
  BY <1>18 DEF MarkStateWritten, Mark, JournalOf
<1>19. CASE RecordSuccess
  BY <1>19 DEF RecordSuccess, Record
<1>20. CASE ClearJournal
  BY <1>20 DEF ClearJournal
<1>21. CASE Commit
  BY <1>21 DEF Commit
<1>22. CASE Prune
  BY <1>22 DEF Prune
<1>23. CASE RollbackSwitch
  BY <1>23 DEF RollbackSwitch, SwitchService, SwitchFails
<1>24. CASE RollbackReady
  BY <1>24 DEF RollbackReady
<1>25. CASE RollbackState
  BY <1>25 DEF RollbackState
<1>26. CASE RollbackRecord
  BY <1>26 DEF RollbackRecord, Record
<1>27. CASE RollbackClear
  BY <1>27 DEF RollbackClear
<1>28. CASE RollbackDone
  BY <1>28 DEF RollbackDone
<1>29. CASE RollbackFailed
  BY <1>29 DEF RollbackFailed, Record
<1>30. CASE Signal
  BY <1>30 DEF Signal, TransactionActive
<1>31. CASE Kill
  BY <1>31 DEF Kill
<1>32. CASE Rest \/ UNCHANGED vars
  BY <1>32 DEF Rest, vars
<1>33. QED
  BY <1>1, <1>2, <1>3, <1>4, <1>5, <1>6, <1>7, <1>8, <1>9, <1>10, <1>11, <1>12, <1>13,
     <1>14, <1>15, <1>16, <1>17, <1>18, <1>19, <1>20, <1>21, <1>22, <1>23, <1>24, <1>25,
     <1>26, <1>27, <1>28, <1>29, <1>30, <1>31, <1>32
  DEF Next, RunStep

\* A rollback set stays one while nothing is pruned.
LEMMA SoundKept ==
  ASSUME [Next]_vars, ~ Prune, NEW s \in Seq(Images), Sound(s, present, verified)
  PROVE  Sound(s, present', verified')
BY Grows, SoundGrows

\* The state is always a rollback set.
LEMMA StateInvStep ==
  ASSUME IInv, [Next]_vars
  PROVE  StateInv'
<1> SUFFICES Sound(state', present', verified')
  BY DEF StateInv
<1>0. state \in Seq(Images) /\ Sound(state, present, verified)
  BY DEF IInv, TypeOK, StateInv
<1>1. CASE Prune
  <2>1. PICK gone \in SUBSET (Elements(run.saved) \ Elements(state)) : present' = present \ gone
    BY <1>1 DEF Prune
  <2>2. state # <<>>
    BY <1>1 DEF Prune, At, IInv, Progress, Names
  <2>3. state' = state /\ verified' = verified
    BY <1>1 DEF Prune
  <2>4. Sound(state, present \ gone, verified)
    BY <1>0, <2>1, <2>2, SoundPruned
  <2>5. QED  BY <2>1, <2>3, <2>4
<1>2. CASE ~ Prune /\ state' = state
  BY <1>0, <1>2, SoundKept
<1>3. CASE ~ Prune /\ WriteState /\ state' # state
  <2>1. pc = "state" /\ state' = NextState /\ present' = present /\ verified' = verified
    BY <1>3 DEF WriteState, At
  <2>2. /\ run.original = Active(run.saved)
        /\ Sound(run.saved, present, verified)
        /\ run.image \in present \intersect verified
    BY <2>1 DEF IInv, Progress, Admitted, Forward
  <2>3. run.saved \in Seq(Images) /\ Legacy \in Images /\ run.image \in Images
    BY <2>1, Fields DEF Images
  <2>4. QED  BY <2>1, <2>2, <2>3, NextStateIsSound
<1>4. CASE ~ Prune /\ RecoverState /\ state' # state
  <2>1. pc = "recover_state" /\ state' = journal.saved
    BY <1>4 DEF RecoverState, At
  <2>2. journal # NoJournal
    BY <2>1 DEF IInv, Recovery, Recovering
  <2>3. journal.saved \in Seq(Images) /\ Sound(journal.saved, present, verified)
    BY <2>2, Fields DEF IInv, JournalInv
  <2>4. QED  BY <1>4, <2>1, <2>3, SoundKept
<1>5. CASE ~ Prune /\ RollbackState /\ state' # state
  <2>1. pc = "rb_state" /\ state' = run.saved
    BY <1>5 DEF RollbackState, At
  <2>2. run.saved \in Seq(Images) /\ Sound(run.saved, present, verified)
    BY <2>1, Fields DEF IInv, Progress, Admitted, Backward
  <2>3. QED  BY <1>5, <2>1, <2>2, SoundKept
<1>6. QED  BY <1>1, <1>2, <1>3, <1>4, <1>5, StateWriters

\* A journal always describes a way back.
LEMMA JournalInvStep ==
  ASSUME IInv, [Next]_vars
  PROVE  JournalInv'
<1> USE DEF At, Goto, GotoAnd, Fault, FailTo, End, Fail, disk
<1>0. JournalInv /\ Recovery /\ OwnJournal /\ Progress
  BY DEF IInv
<1>00. /\ ~ Prune /\ journal # NoJournal => Sound(journal.saved, present', verified')
       /\ ~ Prune /\ pc \in Admitted => Sound(run.saved, present', verified')
  BY Fields, SoundKept DEF IInv, JournalInv, Progress, Admitted, Forward, Backward
<1>1. CASE \E image \in Digests : Begin(image)
  BY <1>0, <1>00, Grows, <1>1 DEF Begin, Idle, JournalInv
<1>2. CASE LoadState
  BY <1>0, <1>00, Grows, <1>2 DEF LoadState, StopUnless, JournalInv
<1>3. CASE Recover
  BY <1>0, <1>00, Grows, <1>3 DEF Recover, StopUnless, JournalInv
<1>4. CASE RecoverSwitch
  BY <1>0, <1>00, Grows, <1>4 DEF RecoverSwitch, SwitchService, SwitchFails, JournalInv,
      Recovery, Recovering
<1>5. CASE RecoverReady
  <2>1. ~ Prune
    BY <1>5 DEF RecoverReady, Prune
  <2>2. QED  BY <1>0, <1>00, Grows, <1>5, <2>1 DEF RecoverReady, JournalInv
<1>6. CASE RecoverState
  BY <1>0, <1>00, Grows, <1>6 DEF RecoverState, JournalInv, Recovery, Recovering
<1>7. CASE RecoverRecord
  BY <1>0, <1>00, Grows, <1>7 DEF RecoverRecord, Record, JournalInv
<1>8. CASE RecoverClear
  BY <1>0, <1>00, Grows, <1>8 DEF RecoverClear, JournalInv
<1>9. CASE Admit
  BY <1>0, <1>00, Grows, <1>9 DEF Admit, StopUnless, RunsWhatIsSaved, JournalInv
<1>10. CASE Prepare
  <2>1. ~ Prune
    BY <1>10 DEF Prepare, Prune
  <2>2. QED  BY <1>0, <1>00, Grows, <1>10, <2>1 DEF Prepare, FailBeforeReplace, Record, JournalInv
<1>11. CASE WriteJournal
  BY <1>0, <1>00, Grows, <1>11 DEF WriteJournal, JournalOf, FailBeforeReplace, Record,
      JournalInv, OwnJournal, Progress, Admitted
<1>12. CASE ReloadJournal
  BY <1>0, <1>00, Grows, <1>12 DEF ReloadJournal, FailBeforeReplace, Record, JournalInv
<1>13. CASE Switch
  BY <1>0, <1>00, Grows, <1>13 DEF Switch, SwitchService, SwitchFails, JournalInv, OwnJournal,
      Progress, Mine, Forward
<1>14. CASE MarkReplaced
  BY <1>0, <1>00, Grows, <1>14 DEF MarkReplaced, Mark, JournalOf, JournalInv, OwnJournal,
      Progress, Mine, Forward
<1>15. CASE Ready
  <2>1. ~ Prune
    BY <1>15 DEF Ready, Prune
  <2>2. QED  BY <1>0, <1>00, Grows, <1>15, <2>1 DEF Ready, JournalInv
<1>16. CASE MarkHealthy
  BY <1>0, <1>00, Grows, <1>16 DEF MarkHealthy, Mark, JournalOf, JournalInv, OwnJournal,
      Progress, Mine, Forward
<1>17. CASE WriteState
  <2>1. pc = "state"
    BY <1>17 DEF WriteState
  <2>2. CASE state' = NextState
    <3>1. /\ run.original = Active(run.saved)
          /\ Sound(run.saved, present, verified)
          /\ run.image \in present \intersect verified
      BY <2>1, <1>0 DEF Progress, Admitted, Forward
    <3>2. run.saved \in Seq(Images) /\ Legacy \in Images /\ run.image \in Images
      BY <2>1, Fields DEF Images
    <3>3. Follows(NextState, run.image, run.original)
      BY <3>1, <3>2, NextStateIsSound
    <3>4. QED  BY <1>0, <1>00, <1>17, <2>1, <2>2, <3>3 DEF WriteState, JournalInv, OwnJournal,
        Mine, Forward
  <2>3. CASE state' # NextState
    BY <1>0, <1>00, <1>17, <2>3 DEF WriteState, JournalInv
  <2>4. QED  BY <2>2, <2>3
<1>18. CASE MarkStateWritten
  BY <1>0, <1>00, Grows, <1>18 DEF MarkStateWritten, Mark, JournalOf, JournalInv, OwnJournal,
      Progress, Mine, Forward
<1>19. CASE RecordSuccess
  BY <1>0, <1>00, Grows, <1>19 DEF RecordSuccess, Record, JournalInv
<1>20. CASE ClearJournal
  BY <1>0, <1>00, Grows, <1>20 DEF ClearJournal, JournalInv
<1>21. CASE Commit
  BY <1>0, <1>00, Grows, <1>21 DEF Commit, JournalInv
<1>22. CASE Prune
  BY <1>0, <1>00, Grows, <1>22 DEF Prune, JournalInv, OwnJournal
<1>23. CASE RollbackSwitch
  BY <1>0, <1>00, Grows, <1>23 DEF RollbackSwitch, SwitchService, SwitchFails, JournalInv,
      OwnJournal, Progress, Mine, Backward
<1>24. CASE RollbackReady
  <2>1. ~ Prune
    BY <1>24 DEF RollbackReady, Prune
  <2>2. QED  BY <1>0, <1>00, Grows, <1>24, <2>1 DEF RollbackReady, JournalInv
<1>25. CASE RollbackState
  BY <1>0, <1>00, Grows, <1>25 DEF RollbackState, JournalInv, OwnJournal, Progress, Mine,
      Backward, Admitted
<1>26. CASE RollbackRecord
  BY <1>0, <1>00, Grows, <1>26 DEF RollbackRecord, Record, JournalInv
<1>27. CASE RollbackClear
  BY <1>0, <1>00, Grows, <1>27 DEF RollbackClear, JournalInv
<1>28. CASE RollbackDone
  BY <1>0, <1>00, Grows, <1>28 DEF RollbackDone, JournalInv
<1>29. CASE RollbackFailed
  BY <1>0, <1>00, Grows, <1>29 DEF RollbackFailed, Record, JournalInv
<1>30. CASE Signal
  BY <1>0, <1>00, Grows, <1>30 DEF Signal, TransactionActive, JournalInv
<1>31. CASE Kill
  BY <1>0, <1>00, Grows, <1>31 DEF Kill, JournalInv
<1>32. CASE Rest \/ UNCHANGED vars
  BY <1>0, <1>00, Grows, <1>32 DEF Rest, vars, JournalInv
<1>33. QED
  BY <1>1, <1>2, <1>3, <1>4, <1>5, <1>6, <1>7, <1>8, <1>9, <1>10, <1>11, <1>12, <1>13,
     <1>14, <1>15, <1>16, <1>17, <1>18, <1>19, <1>20, <1>21, <1>22, <1>23, <1>24, <1>25,
     <1>26, <1>27, <1>28, <1>29, <1>30, <1>31, <1>32
  DEF Next, RunStep

\* A run that leaves no journal leaves the service the state names.
LEMMA QuietStep ==
  ASSUME IInv, [Next]_vars
  PROVE  Quiet'
<1> USE DEF At, Goto, GotoAnd, Fault, FailTo, End, Fail, disk
<1>0. /\ Quiet /\ JournalInv /\ Recovery /\ OwnJournal /\ Progress
      /\ run.original = Active(run.saved) \/ pc \notin Admitted
  BY DEF IInv, Progress
<1>00. /\ Names(state, journal.alternate) => Active(state) = journal.alternate
       /\ Names(state, run.image) => Active(state) = run.image
       /\ Follows(state, run.image, run.original) => Active(state) = run.image
  BY NamesActive, FollowsNames
<1>1. CASE \E image \in Digests : Begin(image)
  BY <1>0, <1>00, <1>1 DEF Begin, Idle, Quiet
<1>2. CASE LoadState
  BY <1>0, <1>00, <1>2 DEF LoadState, StopUnless, Quiet
<1>3. CASE Recover
  BY <1>0, <1>00, <1>3 DEF Recover, StopUnless, Quiet, Recovery, Recovering
<1>4. CASE RecoverSwitch
  BY <1>0, <1>00, <1>4 DEF RecoverSwitch, SwitchService, SwitchFails, Quiet, Recovery, Recovering
<1>5. CASE RecoverReady
  BY <1>0, <1>00, <1>5 DEF RecoverReady, Quiet, Recovery, Recovering
<1>6. CASE RecoverState
  BY <1>0, <1>00, <1>6 DEF RecoverState, Quiet, Recovery, Recovering
<1>7. CASE RecoverRecord
  BY <1>0, <1>00, <1>7 DEF RecoverRecord, Record, Quiet, Recovery, Recovering
<1>8. CASE RecoverClear
  BY <1>0, <1>00, <1>8 DEF RecoverClear, Quiet, Recovery, Recovering, JournalInv
<1>9. CASE Admit
  BY <1>0, <1>00, <1>9 DEF Admit, StopUnless, RunsWhatIsSaved, Quiet
<1>10. CASE Prepare
  BY <1>0, <1>00, <1>10 DEF Prepare, FailBeforeReplace, Record, Quiet, Progress, Admitted
<1>11. CASE WriteJournal
  BY <1>0, <1>00, <1>11 DEF WriteJournal, JournalOf, FailBeforeReplace, Record, Quiet,
      Progress, Admitted
<1>12. CASE ReloadJournal
  BY <1>0, <1>00, <1>12 DEF ReloadJournal, FailBeforeReplace, Record, Quiet, OwnJournal, Mine
<1>13. CASE Switch
  BY <1>0, <1>00, <1>13 DEF Switch, SwitchService, SwitchFails, Quiet
<1>14. CASE MarkReplaced
  BY <1>0, <1>00, <1>14 DEF MarkReplaced, Mark, JournalOf, Quiet
<1>15. CASE Ready
  BY <1>0, <1>00, <1>15 DEF Ready, Quiet
<1>16. CASE MarkHealthy
  BY <1>0, <1>00, <1>16 DEF MarkHealthy, Mark, JournalOf, Quiet
<1>17. CASE WriteState
  BY <1>0, <1>00, <1>17 DEF WriteState, Quiet
<1>18. CASE MarkStateWritten
  BY <1>0, <1>00, <1>18 DEF MarkStateWritten, Mark, JournalOf, Quiet
<1>19. CASE RecordSuccess
  BY <1>0, <1>00, <1>19 DEF RecordSuccess, Record, Quiet
<1>20. CASE ClearJournal
  BY <1>0, <1>00, <1>20 DEF ClearJournal, Quiet, OwnJournal, Forward, Mine
<1>21. CASE Commit
  BY <1>0, <1>00, <1>21 DEF Commit, Quiet
<1>22. CASE Prune
  BY <1>0, <1>00, <1>22 DEF Prune, Quiet, Progress
<1>23. CASE RollbackSwitch
  BY <1>0, <1>00, <1>23 DEF RollbackSwitch, SwitchService, SwitchFails, Quiet
<1>24. CASE RollbackReady
  BY <1>0, <1>00, <1>24 DEF RollbackReady, Quiet
<1>25. CASE RollbackState
  BY <1>0, <1>00, <1>25 DEF RollbackState, Quiet
<1>26. CASE RollbackRecord
  BY <1>0, <1>00, <1>26 DEF RollbackRecord, Record, Quiet, OwnJournal, Backward, Mine
<1>27. CASE RollbackClear
  BY <1>0, <1>00, <1>27 DEF RollbackClear, Quiet, OwnJournal, Backward, Mine
<1>28. CASE RollbackDone
  BY <1>0, <1>00, <1>28 DEF RollbackDone, Quiet, Progress, Backward, Admitted
<1>29. CASE RollbackFailed
  BY <1>0, <1>00, <1>29 DEF RollbackFailed, Record, Quiet, OwnJournal, Backward, Mine
<1>30. CASE Signal
  BY <1>0, <1>00, <1>30 DEF Signal, TransactionActive, Quiet
<1>31. CASE Kill
  <2>1. pc \in Steps /\ pc # "idle" /\ UNCHANGED <<journal, service, state>>
    BY <1>31 DEF Kill, IInv, TypeOK
  <2>2. CASE pc \in {"load", "admit"}
    BY <1>0, <2>1, <2>2 DEF Quiet
  <2>3. CASE pc \in Recovering
    BY <1>0, <2>1, <2>3 DEF Recovery, Quiet
  <2>4. CASE pc \in {"prepare", "journal"}
    BY <1>0, <2>1, <2>4 DEF Progress, Admitted, Quiet
  <2>5. CASE pc \in {"reload"} \union (Forward \ {"cleared"})
    BY <1>0, <2>1, <2>5 DEF OwnJournal, Mine, Quiet
  <2>6. CASE pc \in {"cleared", "prune"}
    BY <1>0, <1>00, <2>1, <2>6 DEF Progress, Forward, Quiet
  <2>7. CASE pc \in Backward \ {"rb_cleared"}
    BY <1>0, <2>1, <2>7 DEF OwnJournal, Mine, Quiet
  <2>8. CASE pc = "rb_cleared"
    BY <1>0, <2>1, <2>8 DEF Progress, Admitted, Backward, Quiet
  <2>9. QED  BY <2>1, <2>2, <2>3, <2>4, <2>5, <2>6, <2>7, <2>8 DEF Steps
<1>32. CASE Rest \/ UNCHANGED vars
  BY <1>0, <1>00, <1>32 DEF Rest, vars, Quiet
<1>33. QED
  BY <1>1, <1>2, <1>3, <1>4, <1>5, <1>6, <1>7, <1>8, <1>9, <1>10, <1>11, <1>12, <1>13,
     <1>14, <1>15, <1>16, <1>17, <1>18, <1>19, <1>20, <1>21, <1>22, <1>23, <1>24, <1>25,
     <1>26, <1>27, <1>28, <1>29, <1>30, <1>31, <1>32
  DEF Next, RunStep

\* A signal changes nothing of a run but that it is in its trap.
LEMMA SignalKeeps ==
  ASSUME IInv, Signal
  PROVE  /\ run'.attempt = run.attempt /\ run'.image = run.image /\ run'.saved = run.saved
         /\ run'.original = run.original /\ run'.goal = run.goal
BY DEF Signal, IInv, TypeOK, Runs

\* A recovery goes on to the image it chose.
LEMMA RecoveryStep ==
  ASSUME IInv, [Next]_vars
  PROVE  Recovery'
<1> USE DEF At, Goto, GotoAnd, Fault, FailTo, End, Fail, disk
<1>0. Recovery /\ JournalInv /\ (pc \in Recovering => journal \in Journals)
  BY DEF IInv, TypeOK, Recovery
<1>00. Follows(state, journal.alternate, journal.original) => Names(state, journal.alternate)
  BY FollowsNames
<1>1. CASE \E image \in Digests : Begin(image)
  BY <1>0, <1>00, <1>1 DEF Begin, Idle, Recovery, Recovering
<1>2. CASE LoadState
  BY <1>0, <1>00, <1>2 DEF LoadState, StopUnless, Recovery, Recovering
<1>3. CASE Recover
  <2>1. CASE End
    BY <1>3, <2>1 DEF Recover, Recovery, Recovering
  <2>2. CASE ~ End
    <3> DEFINE goal == IF state # <<>> /\ state[1] = journal.alternate
                       THEN journal.alternate ELSE journal.original
    <3>1. /\ pc = "recover" /\ pc' = "recover_switch" /\ run' = [run EXCEPT !.goal = goal]
          /\ UNCHANGED disk
      BY <1>3, <2>2 DEF Recover, StopUnless
    <3>2. run'.goal = goal
      BY <3>1 DEF IInv, TypeOK, Runs
    <3>3. journal # NoJournal
      BY <1>0, <3>1 DEF Recovery, Recovering
    <3>4. /\ run'.goal \in {journal.original, journal.alternate}
          /\ Names(state, journal.alternate) => run'.goal = journal.alternate
          /\ ~ Names(state, journal.alternate) => run'.goal = journal.original
      BY <3>2 DEF Names
    <3>5. state = journal.saved \/ Names(state, journal.alternate)
      BY <1>0, <1>00, <3>3 DEF JournalInv
    <3>6. run'.goal = journal.alternate => Names(state, journal.alternate)
      <4>1. SUFFICES ASSUME run'.goal = journal.alternate, ~ Names(state, journal.alternate)
                     PROVE  FALSE
        OBVIOUS
      <4>2. state = journal.saved /\ journal.original = journal.alternate
        BY <3>4, <3>5, <4>1
      <4>3. journal.alternate # Legacy
        BY <3>3, Fields, ReleaseAssumption
      <4>4. state # <<>> /\ state[1] = journal.alternate
        BY <4>2, <4>3, <1>0, <3>3 DEF JournalInv, Active
      <4>5. QED  BY <4>1, <4>4 DEF Names
    <3>7. QED  BY <3>1, <3>3, <3>4, <3>5, <3>6 DEF Recovery, Recovering
  <2>3. QED  BY <2>1, <2>2
<1>4. CASE RecoverSwitch
  BY <1>0, <1>00, <1>4 DEF RecoverSwitch, SwitchService, SwitchFails, Recovery, Recovering
<1>5. CASE RecoverReady
  BY <1>0, <1>00, <1>5 DEF RecoverReady, Recovery, Recovering
<1>6. CASE RecoverState
  BY <1>0, <1>00, <1>6 DEF RecoverState, Recovery, Recovering
<1>7. CASE RecoverRecord
  BY <1>0, <1>00, <1>7 DEF RecoverRecord, Record, Recovery, Recovering
<1>8. CASE RecoverClear
  BY <1>0, <1>00, <1>8 DEF RecoverClear, Recovery, Recovering
<1>9. CASE Admit
  BY <1>0, <1>00, <1>9 DEF Admit, StopUnless, RunsWhatIsSaved, Recovery, Recovering
<1>10. CASE Prepare
  BY <1>0, <1>00, <1>10 DEF Prepare, FailBeforeReplace, Record, Recovery, Recovering
<1>11. CASE WriteJournal
  BY <1>0, <1>00, <1>11 DEF WriteJournal, JournalOf, FailBeforeReplace, Record, Recovery, Recovering
<1>12. CASE ReloadJournal
  BY <1>0, <1>00, <1>12 DEF ReloadJournal, FailBeforeReplace, Record, Recovery, Recovering
<1>13. CASE Switch
  BY <1>0, <1>00, <1>13 DEF Switch, SwitchService, SwitchFails, Recovery, Recovering
<1>14. CASE MarkReplaced
  BY <1>0, <1>00, <1>14 DEF MarkReplaced, Mark, JournalOf, Recovery, Recovering
<1>15. CASE Ready
  BY <1>0, <1>00, <1>15 DEF Ready, Recovery, Recovering
<1>16. CASE MarkHealthy
  BY <1>0, <1>00, <1>16 DEF MarkHealthy, Mark, JournalOf, Recovery, Recovering
<1>17. CASE WriteState
  BY <1>0, <1>00, <1>17 DEF WriteState, Recovery, Recovering
<1>18. CASE MarkStateWritten
  BY <1>0, <1>00, <1>18 DEF MarkStateWritten, Mark, JournalOf, Recovery, Recovering
<1>19. CASE RecordSuccess
  BY <1>0, <1>00, <1>19 DEF RecordSuccess, Record, Recovery, Recovering
<1>20. CASE ClearJournal
  BY <1>0, <1>00, <1>20 DEF ClearJournal, Recovery, Recovering
<1>21. CASE Commit
  BY <1>0, <1>00, <1>21 DEF Commit, Recovery, Recovering
<1>22. CASE Prune
  BY <1>0, <1>00, <1>22 DEF Prune, Recovery, Recovering
<1>23. CASE RollbackSwitch
  BY <1>0, <1>00, <1>23 DEF RollbackSwitch, SwitchService, SwitchFails, Recovery, Recovering
<1>24. CASE RollbackReady
  BY <1>0, <1>00, <1>24 DEF RollbackReady, Recovery, Recovering
<1>25. CASE RollbackState
  BY <1>0, <1>00, <1>25 DEF RollbackState, Recovery, Recovering
<1>26. CASE RollbackRecord
  BY <1>0, <1>00, <1>26 DEF RollbackRecord, Record, Recovery, Recovering
<1>27. CASE RollbackClear
  BY <1>0, <1>00, <1>27 DEF RollbackClear, Recovery, Recovering
<1>28. CASE RollbackDone
  BY <1>0, <1>00, <1>28 DEF RollbackDone, Recovery, Recovering
<1>29. CASE RollbackFailed
  BY <1>0, <1>00, <1>29 DEF RollbackFailed, Record, Recovery, Recovering
<1>30. CASE Signal
  BY <1>0, <1>00, <1>30 DEF Signal, TransactionActive, Recovery, Recovering
<1>31. CASE Kill
  BY <1>0, <1>00, <1>31 DEF Kill, Recovery, Recovering
<1>32. CASE Rest \/ UNCHANGED vars
  BY <1>0, <1>00, <1>32 DEF Rest, vars, Recovery, Recovering
<1>33. QED
  BY <1>1, <1>2, <1>3, <1>4, <1>5, <1>6, <1>7, <1>8, <1>9, <1>10, <1>11, <1>12, <1>13,
     <1>14, <1>15, <1>16, <1>17, <1>18, <1>19, <1>20, <1>21, <1>22, <1>23, <1>24, <1>25,
     <1>26, <1>27, <1>28, <1>29, <1>30, <1>31, <1>32
  DEF Next, RunStep

\* From its journal to its end a run has a journal of its own.
LEMMA OwnJournalStep ==
  ASSUME IInv, [Next]_vars
  PROVE  OwnJournal'
<1> USE DEF At, Goto, GotoAnd, Fault, FailTo, End, Fail, disk
<1>0. OwnJournal /\ Recovery
  BY DEF IInv
<1>1. CASE \E image \in Digests : Begin(image)
  BY <1>0, <1>1 DEF Begin, Idle, OwnJournal, Mine, Forward, Backward
<1>2. CASE LoadState
  BY <1>0, <1>2 DEF LoadState, StopUnless, OwnJournal, Mine, Forward, Backward
<1>3. CASE Recover
  BY <1>0, <1>3 DEF Recover, StopUnless, OwnJournal, Mine, Forward, Backward
<1>4. CASE RecoverSwitch
  BY <1>0, <1>4 DEF RecoverSwitch, SwitchService, SwitchFails, OwnJournal, Mine, Forward, Backward
<1>5. CASE RecoverReady
  BY <1>0, <1>5 DEF RecoverReady, OwnJournal, Mine, Forward, Backward
<1>6. CASE RecoverState
  BY <1>0, <1>6 DEF RecoverState, OwnJournal, Mine, Forward, Backward
<1>7. CASE RecoverRecord
  BY <1>0, <1>7 DEF RecoverRecord, Record, OwnJournal, Mine, Forward, Backward
<1>8. CASE RecoverClear
  BY <1>0, <1>8 DEF RecoverClear, OwnJournal, Mine, Forward, Backward
<1>9. CASE Admit
  BY <1>0, <1>9 DEF Admit, StopUnless, RunsWhatIsSaved, OwnJournal, Mine, Forward, Backward
<1>10. CASE Prepare
  BY <1>0, <1>10 DEF Prepare, FailBeforeReplace, Record, OwnJournal, Mine, Forward, Backward
<1>11. CASE WriteJournal
  <2>1. JournalOf("prepared") # NoJournal
    BY <1>11, JournalTypes, ReleaseAssumption DEF WriteJournal, Admitted, Forward, Phases
  <2>2. QED  BY <1>0, <1>11, <2>1 DEF WriteJournal, JournalOf, FailBeforeReplace, Record,
      OwnJournal, Mine, Forward, Backward
<1>12. CASE ReloadJournal
  BY <1>0, <1>12 DEF ReloadJournal, FailBeforeReplace, Record, OwnJournal, Mine, Forward, Backward
<1>13. CASE Switch
  BY <1>0, <1>13 DEF Switch, SwitchService, SwitchFails, OwnJournal, Mine, Forward, Backward
<1>14. CASE MarkReplaced
  <2>1. JournalOf("replaced") # NoJournal
    BY <1>14, JournalTypes, ReleaseAssumption DEF MarkReplaced, Mark, Admitted, Forward, Phases
  <2>2. QED  BY <1>0, <1>14, <2>1 DEF MarkReplaced, Mark, JournalOf, OwnJournal, Mine, Forward,
      Backward
<1>15. CASE Ready
  BY <1>0, <1>15 DEF Ready, OwnJournal, Mine, Forward, Backward
<1>16. CASE MarkHealthy
  <2>1. JournalOf("healthy") # NoJournal
    BY <1>16, JournalTypes, ReleaseAssumption DEF MarkHealthy, Mark, Admitted, Forward, Phases
  <2>2. QED  BY <1>0, <1>16, <2>1 DEF MarkHealthy, Mark, JournalOf, OwnJournal, Mine, Forward,
      Backward
<1>17. CASE WriteState
  BY <1>0, <1>17 DEF WriteState, OwnJournal, Mine, Forward, Backward
<1>18. CASE MarkStateWritten
  <2>1. JournalOf("state_written") # NoJournal
    BY <1>18, JournalTypes, ReleaseAssumption DEF MarkStateWritten, Mark, Admitted, Forward, Phases
  <2>2. QED  BY <1>0, <1>18, <2>1 DEF MarkStateWritten, Mark, JournalOf, OwnJournal, Mine,
      Forward, Backward
<1>19. CASE RecordSuccess
  BY <1>0, <1>19 DEF RecordSuccess, Record, OwnJournal, Mine, Forward, Backward
<1>20. CASE ClearJournal
  BY <1>0, <1>20 DEF ClearJournal, OwnJournal, Mine, Forward, Backward
<1>21. CASE Commit
  BY <1>0, <1>21 DEF Commit, OwnJournal, Mine, Forward, Backward
<1>22. CASE Prune
  BY <1>0, <1>22 DEF Prune, OwnJournal, Mine, Forward, Backward
<1>23. CASE RollbackSwitch
  BY <1>0, <1>23 DEF RollbackSwitch, SwitchService, SwitchFails, OwnJournal, Mine, Forward, Backward
<1>24. CASE RollbackReady
  BY <1>0, <1>24 DEF RollbackReady, OwnJournal, Mine, Forward, Backward
<1>25. CASE RollbackState
  BY <1>0, <1>25 DEF RollbackState, OwnJournal, Mine, Forward, Backward
<1>26. CASE RollbackRecord
  BY <1>0, <1>26 DEF RollbackRecord, Record, OwnJournal, Mine, Forward, Backward
<1>27. CASE RollbackClear
  BY <1>0, <1>27 DEF RollbackClear, OwnJournal, Mine, Forward, Backward
<1>28. CASE RollbackDone
  BY <1>0, <1>28 DEF RollbackDone, OwnJournal, Mine, Forward, Backward
<1>29. CASE RollbackFailed
  BY <1>0, <1>29 DEF RollbackFailed, Record, OwnJournal, Mine, Forward, Backward
<1>30. CASE Signal
  BY <1>0, <1>30, SignalKeeps DEF Signal, TransactionActive, Late, OwnJournal, Mine, Forward,
      Backward
<1>31. CASE Kill
  BY <1>0, <1>31 DEF Kill, OwnJournal, Mine, Forward, Backward
<1>32. CASE Rest \/ UNCHANGED vars
  BY <1>0, <1>32 DEF Rest, vars, OwnJournal, Mine, Forward, Backward
<1>33. QED
  BY <1>1, <1>2, <1>3, <1>4, <1>5, <1>6, <1>7, <1>8, <1>9, <1>10, <1>11, <1>12, <1>13,
     <1>14, <1>15, <1>16, <1>17, <1>18, <1>19, <1>20, <1>21, <1>22, <1>23, <1>24, <1>25,
     <1>26, <1>27, <1>28, <1>29, <1>30, <1>31, <1>32
  DEF Next, RunStep

\* State and service are where the step of the run has put them.
LEMMA ProgressStep ==
  ASSUME IInv, [Next]_vars
  PROVE  Progress'
<1> USE DEF At, Goto, GotoAnd, Fault, FailTo, End, Fail, disk
<1>0. Progress
  BY DEF IInv
<1>00. /\ ~ Prune /\ journal # NoJournal => Sound(journal.saved, present', verified')
       /\ ~ Prune /\ pc \in Admitted => Sound(run.saved, present', verified')
  BY Fields, SoundKept DEF IInv, JournalInv, Progress, Admitted, Forward, Backward
<1>1. CASE \E image \in Digests : Begin(image)
  BY <1>0, <1>1 DEF Begin, Idle, Progress, Admitted, Forward, Backward
<1>2. CASE LoadState
  BY <1>0, <1>00, <1>2 DEF LoadState, StopUnless, Progress, Admitted, Forward, Backward
<1>3. CASE Recover
  <2>1. run'.image = run.image \/ pc' = "idle"
    BY <1>3 DEF Recover, StopUnless, IInv, TypeOK, Runs
  <2>2. QED  BY <1>0, <1>3, <2>1 DEF Recover, StopUnless, Progress, Admitted, Forward, Backward
<1>4. CASE RecoverSwitch
  BY <1>0, <1>00, <1>4 DEF RecoverSwitch, SwitchService, SwitchFails, Progress, Admitted,
      Forward, Backward
<1>5. CASE RecoverReady
  BY <1>0, <1>00, <1>5 DEF RecoverReady, Progress, Admitted, Forward, Backward
<1>6. CASE RecoverState
  BY <1>0, <1>00, <1>6 DEF RecoverState, Progress, Admitted, Forward, Backward
<1>7. CASE RecoverRecord
  BY <1>0, <1>00, <1>7 DEF RecoverRecord, Record, Progress, Admitted, Forward, Backward
<1>8. CASE RecoverClear
  BY <1>0, <1>00, <1>8 DEF RecoverClear, Progress, Admitted, Forward, Backward
<1>9. CASE Admit
  <2>1. CASE End
    BY <1>0, <1>9, <2>1 DEF Admit, Progress, Admitted, Forward, Backward
  <2>2. CASE ~ End
    <3>1. /\ pc' = "prepare" /\ run' = [run EXCEPT !.original = service, !.saved = state]
          /\ service = Active(state) /\ pc = "admit" /\ UNCHANGED disk
      BY <1>9, <2>2 DEF Admit, StopUnless, RunsWhatIsSaved
    <3>2. run'.original = service /\ run'.saved = state /\ run'.image = run.image
      BY <3>1 DEF IInv, TypeOK, Runs
    <3>3. Sound(run'.saved, present', verified')
      BY <3>1, <3>2 DEF IInv, StateInv
    <3>4. QED  BY <1>0, <3>1, <3>2, <3>3 DEF Progress, Admitted, Forward, Backward
  <2>3. QED  BY <2>1, <2>2
<1>10. CASE Prepare
  <2>1. ~ Prune
    BY <1>10 DEF Prepare, Prune
  <2>2. QED  BY <1>0, <1>00, Grows, <1>10, <2>1 DEF Prepare, FailBeforeReplace, Record,
      Progress, Admitted, Forward, Backward
<1>11. CASE WriteJournal
  <2>1. ~ Prune
    BY <1>11 DEF WriteJournal, Prune
  <2>2. QED  BY <1>0, <1>00, Grows, <1>11, <2>1 DEF WriteJournal, JournalOf, FailBeforeReplace,
      Record, Progress, Admitted, Forward, Backward
<1>12. CASE ReloadJournal
  <2>1. ~ Prune
    BY <1>12 DEF ReloadJournal, Prune
  <2>2. QED  BY <1>0, <1>00, Grows, <1>12, <2>1 DEF ReloadJournal, FailBeforeReplace, Record,
      Progress, Admitted, Forward, Backward
<1>13. CASE Switch
  <2>1. ~ Prune
    BY <1>13 DEF Switch, Prune
  <2>2. QED  BY <1>0, <1>00, Grows, <1>13, <2>1 DEF Switch, SwitchService, SwitchFails,
      Progress, Admitted, Forward, Backward
<1>14. CASE MarkReplaced
  <2>1. ~ Prune
    BY <1>14 DEF MarkReplaced, Mark, Prune
  <2>2. QED  BY <1>0, <1>00, Grows, <1>14, <2>1 DEF MarkReplaced, Mark, JournalOf, Progress,
      Admitted, Forward, Backward
<1>15. CASE Ready
  <2>1. ~ Prune
    BY <1>15 DEF Ready, Prune
  <2>2. QED  BY <1>0, <1>00, Grows, <1>15, <2>1 DEF Ready, Progress, Admitted, Forward, Backward
<1>16. CASE MarkHealthy
  <2>1. ~ Prune
    BY <1>16 DEF MarkHealthy, Mark, Prune
  <2>2. QED  BY <1>0, <1>00, Grows, <1>16, <2>1 DEF MarkHealthy, Mark, JournalOf, Progress,
      Admitted, Forward, Backward
<1>17. CASE WriteState
  <2>1. pc = "state"
    BY <1>17 DEF WriteState
  <2>2. CASE state' = NextState
    <3>1. /\ run.original = Active(run.saved)
          /\ Sound(run.saved, present, verified)
          /\ run.image \in present \intersect verified
      BY <2>1, <1>0 DEF Progress, Admitted, Forward
    <3>2. run.saved \in Seq(Images) /\ Legacy \in Images /\ run.image \in Images
      BY <2>1, Fields DEF Images
    <3>3. Follows(NextState, run.image, run.original)
      BY <3>1, <3>2, NextStateIsSound
    <3>4. QED  BY <1>0, <1>00, <1>17, <2>1, <2>2, <3>3 DEF WriteState, Progress, Admitted,
        Forward, Backward
  <2>3. CASE state' # NextState
    BY <1>0, <1>00, <1>17, <2>1, <2>3 DEF WriteState, Progress, Admitted, Forward, Backward
  <2>4. QED  BY <2>2, <2>3
<1>18. CASE MarkStateWritten
  <2>1. ~ Prune
    BY <1>18 DEF MarkStateWritten, Mark, Prune
  <2>2. QED  BY <1>0, <1>00, Grows, <1>18, <2>1 DEF MarkStateWritten, Mark, JournalOf,
      Progress, Admitted, Forward, Backward
<1>19. CASE RecordSuccess
  <2>1. ~ Prune
    BY <1>19 DEF RecordSuccess, Prune
  <2>2. QED  BY <1>0, <1>00, Grows, <1>19, <2>1 DEF RecordSuccess, Record, Progress, Admitted,
      Forward, Backward
<1>20. CASE ClearJournal
  <2>1. ~ Prune
    BY <1>20 DEF ClearJournal, Prune
  <2>2. QED  BY <1>0, <1>00, Grows, <1>20, <2>1 DEF ClearJournal, Progress, Admitted, Forward,
      Backward
<1>21. CASE Commit
  <2>1. Names(state, run.image)
    BY <1>0, <1>21, FollowsNames DEF Commit, Progress, Forward
  <2>2. QED  BY <1>0, <1>21, <2>1 DEF Commit, Progress, Admitted, Forward, Backward
<1>22. CASE Prune
  BY <1>0, <1>00, <1>22 DEF Prune, Progress, Admitted, Forward, Backward
<1>23. CASE RollbackSwitch
  <2>1. ~ Prune
    BY <1>23 DEF RollbackSwitch, Prune
  <2>2. QED  BY <1>0, <1>00, Grows, <1>23, <2>1 DEF RollbackSwitch, SwitchService, SwitchFails,
      Progress, Admitted, Forward, Backward
<1>24. CASE RollbackReady
  <2>1. ~ Prune
    BY <1>24 DEF RollbackReady, Prune
  <2>2. QED  BY <1>0, <1>00, Grows, <1>24, <2>1 DEF RollbackReady, Progress, Admitted, Forward,
      Backward
<1>25. CASE RollbackState
  <2>1. ~ Prune
    BY <1>25 DEF RollbackState, Prune
  <2>2. QED  BY <1>0, <1>00, Grows, <1>25, <2>1 DEF RollbackState, Progress, Admitted, Forward,
      Backward
<1>26. CASE RollbackRecord
  <2>1. ~ Prune
    BY <1>26 DEF RollbackRecord, Prune
  <2>2. QED  BY <1>0, <1>00, Grows, <1>26, <2>1 DEF RollbackRecord, Record, Progress, Admitted,
      Forward, Backward
<1>27. CASE RollbackClear
  <2>1. ~ Prune
    BY <1>27 DEF RollbackClear, Prune
  <2>2. QED  BY <1>0, <1>00, Grows, <1>27, <2>1 DEF RollbackClear, Progress, Admitted, Forward,
      Backward
<1>28. CASE RollbackDone
  BY <1>0, <1>00, <1>28 DEF RollbackDone, Progress, Admitted, Forward, Backward
<1>29. CASE RollbackFailed
  BY <1>0, <1>00, <1>29 DEF RollbackFailed, Record, Progress, Admitted, Forward, Backward
<1>30. CASE Signal
  BY <1>0, <1>30, SignalKeeps DEF Signal, TransactionActive, Progress, Admitted, Forward, Backward
<1>31. CASE Kill
  BY <1>0, <1>00, <1>31 DEF Kill, Progress, Admitted, Forward, Backward
<1>32. CASE Rest \/ UNCHANGED vars
  BY <1>0, <1>00, <1>32 DEF Rest, vars, Progress, Admitted, Forward, Backward
<1>33. QED
  BY <1>1, <1>2, <1>3, <1>4, <1>5, <1>6, <1>7, <1>8, <1>9, <1>10, <1>11, <1>12, <1>13,
     <1>14, <1>15, <1>16, <1>17, <1>18, <1>19, <1>20, <1>21, <1>22, <1>23, <1>24, <1>25,
     <1>26, <1>27, <1>28, <1>29, <1>30, <1>31, <1>32
  DEF Next, RunStep

\* Attempts are numbered in their order.
LEMMA NumbersStep ==
  ASSUME IInv, [Next]_vars
  PROVE  Numbers'
<1> USE DEF At, Goto, GotoAnd, Fault, FailTo, End, Fail, disk
<1>0. Numbers /\ MaxAttempts \in Nat /\ attempts \in 0 .. MaxAttempts
      /\ (\A r \in records : r.attempt \in 1 .. MaxAttempts)
      /\ (journal # NoJournal => journal.attempt \in 1 .. MaxAttempts)
      /\ (pc # "idle" => run.attempt \in 1 .. MaxAttempts)
  BY Fields, ReleaseAssumption DEF IInv, TypeOK, Records
<1>1. CASE \E image \in Digests : Begin(image)
  BY <1>0, <1>1 DEF Begin, Idle, Numbers, Recovering
<1>2. CASE LoadState
  BY <1>0, <1>2 DEF LoadState, StopUnless, Numbers, Recovering
<1>3. CASE Recover
  <2>1. run'.attempt = run.attempt \/ pc' = "idle"
    BY <1>3 DEF Recover, StopUnless, IInv, TypeOK, Runs
  <2>2. QED  BY <1>0, <1>3, <2>1 DEF Recover, StopUnless, Numbers, Recovering
<1>4. CASE RecoverSwitch
  BY <1>0, <1>4 DEF RecoverSwitch, SwitchService, SwitchFails, Numbers, Recovering
<1>5. CASE RecoverReady
  BY <1>0, <1>5 DEF RecoverReady, Numbers, Recovering
<1>6. CASE RecoverState
  BY <1>0, <1>6 DEF RecoverState, Numbers, Recovering
<1>7. CASE RecoverRecord
  <2>1. journal # NoJournal
    BY <1>7 DEF RecoverRecord, IInv, Recovery, Recovering
  <2>2. \A r \in records' : r \in records \/ r.attempt = journal.attempt
    BY <1>7 DEF RecoverRecord, Record
  <2>3. QED  BY <1>0, <1>7, <2>1, <2>2 DEF RecoverRecord, Numbers, Recovering
<1>8. CASE RecoverClear
  BY <1>0, <1>8 DEF RecoverClear, Numbers, Recovering
<1>9. CASE Admit
  <2>1. run'.attempt = run.attempt \/ pc' = "idle"
    BY <1>9 DEF Admit, StopUnless, IInv, TypeOK, Runs
  <2>2. QED  BY <1>0, <1>9, <2>1 DEF Admit, StopUnless, RunsWhatIsSaved, Numbers, Recovering
<1>10. CASE Prepare
  BY <1>0, <1>10 DEF Prepare, FailBeforeReplace, Record, Numbers, Recovering
<1>11. CASE WriteJournal
  BY <1>0, <1>11 DEF WriteJournal, JournalOf, FailBeforeReplace, Record, Numbers, Recovering
<1>12. CASE ReloadJournal
  BY <1>0, <1>12 DEF ReloadJournal, FailBeforeReplace, Record, Numbers, Recovering
<1>13. CASE Switch
  BY <1>0, <1>13 DEF Switch, SwitchService, SwitchFails, Numbers, Recovering
<1>14. CASE MarkReplaced
  <2>1. Mine
    BY <1>14 DEF MarkReplaced, Mark, IInv, OwnJournal, Forward
  <2>2. journal'.attempt \in {journal.attempt, run.attempt}
    BY <1>14, <2>1 DEF MarkReplaced, Mark, JournalOf
  <2>3. QED  BY <1>0, <1>14, <2>1, <2>2 DEF MarkReplaced, Mark, Numbers, Recovering, Mine
<1>15. CASE Ready
  BY <1>0, <1>15 DEF Ready, Numbers, Recovering
<1>16. CASE MarkHealthy
  <2>1. Mine
    BY <1>16 DEF MarkHealthy, Mark, IInv, OwnJournal, Forward
  <2>2. journal'.attempt \in {journal.attempt, run.attempt}
    BY <1>16, <2>1 DEF MarkHealthy, Mark, JournalOf
  <2>3. QED  BY <1>0, <1>16, <2>1, <2>2 DEF MarkHealthy, Mark, Numbers, Recovering, Mine
<1>17. CASE WriteState
  BY <1>0, <1>17 DEF WriteState, Numbers, Recovering
<1>18. CASE MarkStateWritten
  <2>1. Mine
    BY <1>18 DEF MarkStateWritten, Mark, IInv, OwnJournal, Forward
  <2>2. journal'.attempt \in {journal.attempt, run.attempt}
    BY <1>18, <2>1 DEF MarkStateWritten, Mark, JournalOf
  <2>3. QED  BY <1>0, <1>18, <2>1, <2>2 DEF MarkStateWritten, Mark, Numbers, Recovering, Mine
<1>19. CASE RecordSuccess
  BY <1>0, <1>19 DEF RecordSuccess, Record, Numbers, Recovering
<1>20. CASE ClearJournal
  BY <1>0, <1>20 DEF ClearJournal, Numbers, Recovering
<1>21. CASE Commit
  BY <1>0, <1>21 DEF Commit, Numbers, Recovering
<1>22. CASE Prune
  BY <1>0, <1>22 DEF Prune, Numbers, Recovering
<1>23. CASE RollbackSwitch
  BY <1>0, <1>23 DEF RollbackSwitch, SwitchService, SwitchFails, Numbers, Recovering
<1>24. CASE RollbackReady
  BY <1>0, <1>24 DEF RollbackReady, Numbers, Recovering
<1>25. CASE RollbackState
  BY <1>0, <1>25 DEF RollbackState, Numbers, Recovering
<1>26. CASE RollbackRecord
  BY <1>0, <1>26 DEF RollbackRecord, Record, Numbers, Recovering
<1>27. CASE RollbackClear
  BY <1>0, <1>27 DEF RollbackClear, Numbers, Recovering
<1>28. CASE RollbackDone
  BY <1>0, <1>28 DEF RollbackDone, Numbers, Recovering
<1>29. CASE RollbackFailed
  BY <1>0, <1>29 DEF RollbackFailed, Record, Numbers, Recovering
<1>30. CASE Signal
  BY <1>0, <1>30, SignalKeeps DEF Signal, TransactionActive, Numbers, Recovering, Forward, Backward
<1>31. CASE Kill
  BY <1>0, <1>31 DEF Kill, Numbers, Recovering
<1>32. CASE Rest \/ UNCHANGED vars
  BY <1>0, <1>32 DEF Rest, vars, Numbers, Recovering
<1>33. QED
  BY <1>1, <1>2, <1>3, <1>4, <1>5, <1>6, <1>7, <1>8, <1>9, <1>10, <1>11, <1>12, <1>13,
     <1>14, <1>15, <1>16, <1>17, <1>18, <1>19, <1>20, <1>21, <1>22, <1>23, <1>24, <1>25,
     <1>26, <1>27, <1>28, <1>29, <1>30, <1>31, <1>32
  DEF Next, RunStep

\* What one more record says of an attempt.
LEMMA OneMore ==
  ASSUME NEW R, NEW n, NEW i, NEW x, NEW a
  PROVE  Succeeded(R \union {[attempt |-> n, image |-> i, result |-> x]}, a)
           <=> Succeeded(R, a) \/ (a = n /\ x = "success")
<1> DEFINE r == [attempt |-> n, image |-> i, result |-> x]
<1>1. r.attempt = n /\ r.result = x
  OBVIOUS
<1>2. SUFFICES Succeeded(R \union {r}, a) <=> Succeeded(R, a) \/ (a = n /\ x = "success")
  OBVIOUS
<1> HIDE DEF r
<1>3. Succeeded(R, a) \/ (a = n /\ x = "success") => Succeeded(R \union {r}, a)
  BY <1>1 DEF Succeeded
<1>4. Succeeded(R \union {r}, a) => Succeeded(R, a) \/ (a = n /\ x = "success")
  BY <1>1 DEF Succeeded
<1>5. QED  BY <1>3, <1>4

\* The same of the step that writes it.
LEMMA Recorded ==
  ASSUME NEW n, NEW i, NEW x, Record(n, i, x)
  PROVE  \A a : Succeeded(records', a) <=> Succeeded(records, a) \/ (a = n /\ x = "success")
<1> DEFINE R == records \union {[attempt |-> n, image |-> i, result |-> x]}
<1>1. records' = R
  BY DEF Record
<1>2. \A a : Succeeded(R, a) <=> Succeeded(records, a) \/ (a = n /\ x = "success")
  BY OneMore
<1> HIDE DEF R
<1>3. QED  BY <1>1, <1>2

\* Any other record says nothing of success.
LEMMA Unsuccessful ==
  ASSUME NEW n, NEW i, NEW x, x # "success", Record(n, i, x)
  PROVE  \A a : Succeeded(records', a) <=> Succeeded(records, a)
BY Recorded

\* An attempt that has not begun has not succeeded.
LEMMA NotYet ==
  ASSUME IInv, NEW n \in Nat, n > attempts
  PROVE  ~ Succeeded(records, n)
<1>1. \A r \in records : r.attempt \in 1 .. MaxAttempts /\ r.attempt <= attempts
  BY DEF IInv, TypeOK, Records, Numbers
<1>2. attempts \in Nat /\ MaxAttempts \in Nat
  BY ReleaseAssumption DEF IInv, TypeOK
<1>3. QED  BY <1>1, <1>2 DEF Succeeded

\* No attempt is a success on record before the state names its image.
LEMMA SuccessesStep ==
  ASSUME IInv, [Next]_vars
  PROVE  Successes'
<1> USE DEF At, Goto, GotoAnd, Fault, FailTo, End, Fail, disk
<1>0. Successes /\ Recovery /\ OwnJournal /\ (journal # NoJournal /\ pc \in {"load"} \union Recovering => journal.attempt # run.attempt)
  BY Fields, ReleaseAssumption DEF IInv, Numbers, TypeOK, Recovering
<1>1. CASE \E image \in Digests : Begin(image)
  <2>1. PICK image \in Digests : Begin(image)
    BY <1>1
  <2>2. run'.attempt = attempts + 1 /\ UNCHANGED disk /\ pc' = "load"
    BY <2>1 DEF Begin, Idle
  <2>3. attempts \in Nat
    BY ReleaseAssumption DEF IInv, TypeOK
  <2>4. ~ Succeeded(records, run'.attempt)
    BY <2>2, <2>3, NotYet
  <2>5. QED  BY <1>0, <2>2, <2>4 DEF Successes
<1>2. CASE LoadState
  BY <1>0, <1>2 DEF LoadState, StopUnless, Successes
<1>3. CASE Recover
  <2>1. run'.attempt = run.attempt \/ pc' = "idle"
    BY <1>3 DEF Recover, StopUnless, IInv, TypeOK, Runs
  <2>2. QED  BY <1>0, <1>3, <2>1 DEF Recover, StopUnless, Successes
<1>4. CASE RecoverSwitch
  BY <1>0, <1>4 DEF RecoverSwitch, SwitchService, SwitchFails, Successes
<1>5. CASE RecoverReady
  BY <1>0, <1>5 DEF RecoverReady, Successes
<1>6. CASE RecoverState
  <2>1. state' = state
    BY <1>0, <1>6 DEF RecoverState, Recovery, Recovering
  <2>2. QED  BY <1>0, <1>6, <2>1 DEF RecoverState, Successes
<1>7. CASE RecoverRecord
  <2>1. CASE records' = records
    BY <1>0, <1>7, <2>1 DEF RecoverRecord, Successes
  <2>2. CASE records' # records
    <3>1. /\ pc = "recover_record" /\ pc' = "recover_clear"
          /\ Record(journal.attempt, journal.alternate,
                    IF run.goal = journal.alternate THEN "success" ELSE "rolled_back")
          /\ UNCHANGED <<journal, state, run>>
      BY <1>7, <2>2 DEF RecoverRecord
    <3>2. journal # NoJournal /\ journal.attempt # run.attempt
      BY <1>0, <3>1 DEF Recovery, Recovering
    <3>3. run.goal = journal.alternate => Names(state, journal.alternate)
      BY <1>0, <3>1 DEF Recovery, Recovering
    <3>4. \A a : Succeeded(records', a) =>
                 Succeeded(records, a) \/ (a = journal.attempt /\ run.goal = journal.alternate)
      <4> DEFINE x == IF run.goal = journal.alternate THEN "success" ELSE "rolled_back"
      <4>1. Record(journal.attempt, journal.alternate, x)
        BY <3>1
      <4>2. x = "success" => run.goal = journal.alternate
        OBVIOUS
      <4> HIDE DEF x
      <4>3. \A a : Succeeded(records', a) <=>
                   Succeeded(records, a) \/ (a = journal.attempt /\ x = "success")
        BY <4>1, Recorded
      <4>4. QED  BY <4>2, <4>3
    <3>5. QED  BY <1>0, <3>1, <3>2, <3>3, <3>4 DEF Successes
  <2>3. QED  BY <2>1, <2>2
<1>8. CASE RecoverClear
  BY <1>0, <1>8 DEF RecoverClear, Successes
<1>9. CASE Admit
  <2>1. run'.attempt = run.attempt \/ pc' = "idle"
    BY <1>9 DEF Admit, StopUnless, IInv, TypeOK, Runs
  <2>2. QED  BY <1>0, <1>9, <2>1 DEF Admit, StopUnless, Successes
<1>10. CASE Prepare
  <2>1. \A a : Succeeded(records', a) <=> Succeeded(records, a)
    BY <1>10, Unsuccessful DEF Prepare, FailBeforeReplace
  <2>2. QED  BY <1>0, <1>10, <2>1 DEF Prepare, FailBeforeReplace, Successes
<1>11. CASE WriteJournal
  <2>1. CASE End
    <3>1. \A a : Succeeded(records', a) <=> Succeeded(records, a)
      BY <1>11, <2>1, Unsuccessful DEF WriteJournal, FailBeforeReplace
    <3>2. QED  BY <1>0, <1>11, <2>1, <3>1 DEF WriteJournal, FailBeforeReplace, Successes
  <2>2. CASE ~ End
    <3>1. journal'.attempt = run.attempt /\ UNCHANGED <<records, run>>
      BY <1>11, <2>2 DEF WriteJournal, FailBeforeReplace, JournalOf
    <3>2. LateSignals \/ ~ Succeeded(records, run.attempt)
      BY <1>0, <1>11 DEF WriteJournal, Successes
    <3>3. QED  BY <1>11, <3>1, <3>2 DEF Successes
  <2>3. QED  BY <2>1, <2>2
<1>12. CASE ReloadJournal
  <2>1. \A a : Succeeded(records', a) <=> Succeeded(records, a)
    BY <1>12, Unsuccessful DEF ReloadJournal, FailBeforeReplace
  <2>2. QED  BY <1>0, <1>12, <2>1 DEF ReloadJournal, FailBeforeReplace, Successes
<1>13. CASE Switch
  BY <1>0, <1>13 DEF Switch, SwitchService, SwitchFails, Successes
<1>14. CASE MarkReplaced
  <2>1. Mine
    BY <1>14 DEF MarkReplaced, Mark, IInv, OwnJournal, Forward
  <2>2. journal'.attempt \in {journal.attempt, run.attempt} /\ UNCHANGED <<records, state>>
    BY <1>14, <2>1 DEF MarkReplaced, Mark, JournalOf
  <2>3. LateSignals \/ ~ Succeeded(records, run.attempt)
    BY <1>0, <1>14 DEF MarkReplaced, Mark, Successes
  <2>4. QED  BY <1>0, <1>14, <2>1, <2>2, <2>3 DEF MarkReplaced, Mark, Successes, Mine
<1>15. CASE Ready
  BY <1>0, <1>15 DEF Ready, Successes
<1>16. CASE MarkHealthy
  <2>1. Mine
    BY <1>16 DEF MarkHealthy, Mark, IInv, OwnJournal, Forward
  <2>2. journal'.attempt \in {journal.attempt, run.attempt} /\ UNCHANGED <<records, state>>
    BY <1>16, <2>1 DEF MarkHealthy, Mark, JournalOf
  <2>3. LateSignals \/ ~ Succeeded(records, run.attempt)
    BY <1>0, <1>16 DEF MarkHealthy, Mark, Successes
  <2>4. QED  BY <1>0, <1>16, <2>1, <2>2, <2>3 DEF MarkHealthy, Mark, Successes, Mine
<1>17. CASE WriteState
  <2>1. Mine
    BY <1>17 DEF WriteState, IInv, OwnJournal, Forward
  <2>2. LateSignals \/ ~ Succeeded(records, journal.attempt)
    BY <1>0, <1>17, <2>1 DEF WriteState, Successes, Mine
  <2>3. QED  BY <1>0, <1>17, <2>2 DEF WriteState, Successes
<1>18. CASE MarkStateWritten
  <2>1. Mine
    BY <1>18 DEF MarkStateWritten, Mark, IInv, OwnJournal, Forward
  <2>2. journal'.attempt \in {journal.attempt, run.attempt} /\ UNCHANGED <<records, state>>
    BY <1>18, <2>1 DEF MarkStateWritten, Mark, JournalOf
  <2>3. LateSignals \/ ~ Succeeded(records, run.attempt)
    BY <1>0, <1>18 DEF MarkStateWritten, Mark, Successes
  <2>4. QED  BY <1>0, <1>18, <2>1, <2>2, <2>3 DEF MarkStateWritten, Mark, Successes, Mine
<1>19. CASE RecordSuccess
  <2>1. CASE records' = records
    BY <1>0, <1>19, <2>1 DEF RecordSuccess, Record, Successes
  <2>2. CASE records' # records
    <3>1. Mine /\ Names(state, run.image)
      BY <1>19, FollowsNames DEF RecordSuccess, IInv, OwnJournal, Progress, Forward
    <3>2. pc' = "clear" /\ UNCHANGED <<journal, state, run>>
      BY <1>19, <2>2 DEF RecordSuccess
    <3>3. QED  BY <3>1, <3>2 DEF Successes, Mine
  <2>3. QED  BY <2>1, <2>2
<1>20. CASE ClearJournal
  BY <1>0, <1>20 DEF ClearJournal, Successes
<1>21. CASE Commit
  BY <1>0, <1>21 DEF Commit, Successes
<1>22. CASE Prune
  BY <1>0, <1>22 DEF Prune, Successes
<1>23. CASE RollbackSwitch
  BY <1>0, <1>23 DEF RollbackSwitch, SwitchService, SwitchFails, Successes
<1>24. CASE RollbackReady
  BY <1>0, <1>24 DEF RollbackReady, Successes
<1>25. CASE RollbackState
  <2>1. LateSignals \/ (Mine /\ ~ Succeeded(records, run.attempt))
    BY <1>0, <1>25 DEF RollbackState, OwnJournal, Successes, Backward
  <2>2. QED  BY <1>0, <1>25, <2>1 DEF RollbackState, Successes, Mine
<1>26. CASE RollbackRecord
  <2>1. \A a : Succeeded(records', a) <=> Succeeded(records, a)
    BY <1>26, Unsuccessful DEF RollbackRecord
  <2>2. QED  BY <1>0, <1>26, <2>1 DEF RollbackRecord, Successes
<1>27. CASE RollbackClear
  BY <1>0, <1>27 DEF RollbackClear, Successes
<1>28. CASE RollbackDone
  BY <1>0, <1>28 DEF RollbackDone, Successes
<1>29. CASE RollbackFailed
  <2>1. \A a : Succeeded(records', a) <=> Succeeded(records, a)
    BY <1>29, Unsuccessful DEF RollbackFailed
  <2>2. QED  BY <1>0, <1>29, <2>1 DEF RollbackFailed, Successes
<1>30. CASE Signal
  BY <1>0, <1>30, SignalKeeps DEF Signal, TransactionActive, Late, Successes, Forward, Backward
<1>31. CASE Kill
  BY <1>0, <1>31 DEF Kill, Successes
<1>32. CASE Rest \/ UNCHANGED vars
  BY <1>0, <1>32 DEF Rest, vars, Successes
<1>33. QED
  BY <1>1, <1>2, <1>3, <1>4, <1>5, <1>6, <1>7, <1>8, <1>9, <1>10, <1>11, <1>12, <1>13,
     <1>14, <1>15, <1>16, <1>17, <1>18, <1>19, <1>20, <1>21, <1>22, <1>23, <1>24, <1>25,
     <1>26, <1>27, <1>28, <1>29, <1>30, <1>31, <1>32
  DEF Next, RunStep

\* Who writes which record.
LEMMA RecordWriters ==
  ASSUME [Next]_vars, NEW r \in records' \ records
  PROVE  /\ r.result = "success" => RecordSuccess \/ RecoverRecord
         /\ r.result = "rolled_back" => RecoverRecord \/ RollbackRecord
<1> USE DEF At, Goto, GotoAnd, Fault, FailTo, End, Fail, disk
<1>1. CASE \E image \in Digests : Begin(image)
  BY <1>1 DEF Begin, Idle
<1>2. CASE LoadState
  BY <1>2 DEF LoadState, StopUnless
<1>3. CASE Recover
  BY <1>3 DEF Recover, StopUnless
<1>4. CASE RecoverSwitch
  BY <1>4 DEF RecoverSwitch, SwitchService, SwitchFails
<1>5. CASE RecoverReady
  BY <1>5 DEF RecoverReady
<1>6. CASE RecoverState
  BY <1>6 DEF RecoverState
<1>7. CASE RecoverRecord
  BY <1>7 DEF RecoverRecord, Record
<1>8. CASE RecoverClear
  BY <1>8 DEF RecoverClear
<1>9. CASE Admit
  BY <1>9 DEF Admit, StopUnless, RunsWhatIsSaved
<1>10. CASE Prepare
  BY <1>10 DEF Prepare, FailBeforeReplace, Record
<1>11. CASE WriteJournal
  BY <1>11 DEF WriteJournal, FailBeforeReplace, Record
<1>12. CASE ReloadJournal
  BY <1>12 DEF ReloadJournal, FailBeforeReplace, Record
<1>13. CASE Switch
  BY <1>13 DEF Switch, SwitchService, SwitchFails
<1>14. CASE MarkReplaced
  BY <1>14 DEF MarkReplaced, Mark, JournalOf
<1>15. CASE Ready
  BY <1>15 DEF Ready
<1>16. CASE MarkHealthy
  BY <1>16 DEF MarkHealthy, Mark, JournalOf
<1>17. CASE WriteState
  BY <1>17 DEF WriteState
<1>18. CASE MarkStateWritten
  BY <1>18 DEF MarkStateWritten, Mark, JournalOf
<1>19. CASE RecordSuccess
  BY <1>19 DEF RecordSuccess, Record
<1>20. CASE ClearJournal
  BY <1>20 DEF ClearJournal
<1>21. CASE Commit
  BY <1>21 DEF Commit
<1>22. CASE Prune
  BY <1>22 DEF Prune
<1>23. CASE RollbackSwitch
  BY <1>23 DEF RollbackSwitch, SwitchService, SwitchFails
<1>24. CASE RollbackReady
  BY <1>24 DEF RollbackReady
<1>25. CASE RollbackState
  BY <1>25 DEF RollbackState
<1>26. CASE RollbackRecord
  BY <1>26 DEF RollbackRecord, Record
<1>27. CASE RollbackClear
  BY <1>27 DEF RollbackClear
<1>28. CASE RollbackDone
  BY <1>28 DEF RollbackDone
<1>29. CASE RollbackFailed
  BY <1>29 DEF RollbackFailed, Record
<1>30. CASE Signal
  BY <1>30 DEF Signal, TransactionActive
<1>31. CASE Kill
  BY <1>31 DEF Kill
<1>32. CASE Rest \/ UNCHANGED vars
  BY <1>32 DEF Rest, vars
<1>33. QED
  BY <1>1, <1>2, <1>3, <1>4, <1>5, <1>6, <1>7, <1>8, <1>9, <1>10, <1>11, <1>12, <1>13,
     <1>14, <1>15, <1>16, <1>17, <1>18, <1>19, <1>20, <1>21, <1>22, <1>23, <1>24, <1>25,
     <1>26, <1>27, <1>28, <1>29, <1>30, <1>31, <1>32
  DEF Next, RunStep

--------------------------------------------------------------------------------
(* Theorems *)

\* A host begins with a rollback set and no run.
LEMMA Initially == Init => IInv
<1> SUFFICES ASSUME Init PROVE IInv
  OBVIOUS
<1>1. state \in Seq(Images) /\ Len(state) <= 3 /\ \A i, j \in DOMAIN state : i # j => state[i] # state[j]
  BY ReleaseAssumption DEF Init
<1>2. Elements(state) \subseteq Images /\ Active(state) \in Images
  <2>1. Elements(state) \subseteq Images
    BY <1>1 DEF Elements
  <2>2. CASE state = <<>>
    BY <2>1, <2>2 DEF Active, Images
  <2>3. CASE state # <<>>
    <3>1. state[1] \in Images
      BY <1>1, <2>3, EmptySeq
    <3>2. QED  BY <2>1, <2>3, <3>1 DEF Active
  <2>4. QED  BY <2>2, <2>3
<1>3. TypeOK
  <2>1. Idle \in Runs /\ "idle" \in Steps
    BY ReleaseAssumption, EmptySeq DEF Idle, Runs, Steps
  <2>2. 0 \in 0 .. MaxAttempts /\ 0 \in 0 .. MaxFaults
    BY ReleaseAssumption
  <2>3. present \subseteq Images /\ verified \subseteq Images /\ service \in Images
    BY <1>2 DEF Init
  <2>4. QED  BY <1>1, <2>1, <2>2, <2>3 DEF Init, TypeOK
<1>4. StateInv
  BY <1>1 DEF Init, StateInv, Sound
<1>5. JournalInv /\ Quiet
  BY DEF Init, JournalInv, Quiet
<1>6. Recovery /\ OwnJournal /\ Progress
  BY DEF Init, Recovery, OwnJournal, Progress, Admitted, Recovering, Forward, Backward
<1>7. Numbers /\ Successes
  BY DEF Init, Numbers, Successes, Recovering
<1>8. QED  BY <1>3, <1>4, <1>5, <1>6, <1>7 DEF IInv

\* The inductive invariant holds throughout.
THEOREM ReleaseInvariant == Spec => []IInv
<1>1. IInv /\ [Next]_vars => IInv'
  <2> SUFFICES ASSUME IInv, [Next]_vars PROVE IInv'
    OBVIOUS
  <2>1. TypeOK' /\ StateInv' /\ JournalInv' /\ Quiet'
    BY TypeOKStep, StateInvStep, JournalInvStep, QuietStep
  <2>2. Recovery' /\ OwnJournal' /\ Progress' /\ Numbers' /\ Successes'
    BY RecoveryStep, OwnJournalStep, ProgressStep, NumbersStep, SuccessesStep
  <2>3. QED  BY <2>1, <2>2 DEF IInv
<1>2. QED  BY Initially, <1>1, PTL DEF Spec

\* Unless a signal comes between a run's record and its end, a host that no run and no
\* journal occupies runs the image its state names.
THEOREM HostCanRelease ==
  ASSUME LateSignals = FALSE
  PROVE  Spec => []StateNamesWhatRuns
<1>1. IInv => StateNamesWhatRuns
  BY DEF IInv, Quiet, StateNamesWhatRuns
<1>2. QED  BY <1>1, ReleaseInvariant, PTL

\* Whatever stops a run, its journal can be settled.
THEOREM JournalSettles == Spec => []JournalCanBeSettled
<1>1. IInv => JournalCanBeSettled
  <2> SUFFICES ASSUME IInv, journal # NoJournal
               PROVE  /\ JournalIsValid(journal)
                      /\ service \in {journal.original, journal.alternate, NoImage}
                      /\ \/ state = journal.saved
                         \/ /\ state # <<>> /\ state[1] = journal.alternate
                            /\ journal.original \in Elements(state)
    BY DEF JournalCanBeSettled
  <2>1. JournalIsValid(journal)
    BY DEF IInv, JournalInv, Sound, JournalIsValid, Saved
  <2>2. QED  BY <2>1 DEF IInv, JournalInv, Follows
<1>2. QED  BY <1>1, ReleaseInvariant, PTL

\* The state is at any time a Local Rollback Set whose images are there and were healthy.
THEOREM RollbackSetHolds == Spec => []RollbackSetIsUsable
<1>1. IInv => RollbackSetIsUsable
  BY DEF IInv, StateInv, Sound, RollbackSetIsUsable
<1>2. QED  BY <1>1, ReleaseInvariant, PTL

\* Unless a signal comes between a run's record and its end, a recorded success is
\* never recorded as rolled back.
THEOREM SuccessStays ==
  ASSUME LateSignals = FALSE
  PROVE  Spec => SuccessIsFinal
<1> DEFINE Final == \A r \in records' \ records :
                      r.result = "rolled_back" =>
                        ~ \E q \in records : q.attempt = r.attempt /\ q.result = "success"
<1>1. ASSUME IInv, [Next]_vars  PROVE [Final]_vars
  <2> SUFFICES ASSUME NEW r \in records' \ records, r.result = "rolled_back"
               PROVE  ~ Succeeded(records, r.attempt)
    BY DEF Succeeded
  <2>1. RecoverRecord \/ RollbackRecord
    BY <1>1, RecordWriters
  <2>2. CASE RecoverRecord
    <3>1. pc = "recover_record" /\ r.attempt = journal.attempt /\ run.goal # journal.alternate
      BY <2>2 DEF RecoverRecord, Record, At
    <3>2. journal # NoJournal /\ ~ Names(state, journal.alternate)
      BY <1>1, <3>1 DEF IInv, Recovery, Recovering
    <3>3. QED  BY <1>1, <3>1, <3>2 DEF IInv, Successes
  <2>3. CASE RollbackRecord
    <3>1. pc = "rb_record" /\ r.attempt = run.attempt
      BY <2>3 DEF RollbackRecord, Record, At
    <3>2. QED  BY <1>1, <3>1 DEF IInv, Successes
  <2>4. QED  BY <2>1, <2>2, <2>3
<1> HIDE DEF Final
<1>2. Spec => [][Final]_vars
  BY <1>1, ReleaseInvariant, PTL DEF Spec
<1>3. QED  BY <1>2 DEF SuccessIsFinal, Final

\* A record of success or of a rollback is written when it is true.
THEOREM RecordsAreTrue == Spec => RecordsTellTheTruth
<1> DEFINE True == \A r \in records' \ records :
        /\ r.result = "success" =>
             service = r.image /\ Active(state) = r.image /\ r.image \in verified
        /\ r.result = "rolled_back" =>
             \/ journal # NoJournal /\ service = journal.original /\ state = journal.saved
             \/ service = run.original /\ state = run.saved
<1>1. ASSUME IInv, [Next]_vars  PROVE [True]_vars
  <2> SUFFICES ASSUME NEW r \in records' \ records
               PROVE  /\ r.result = "success" =>
                           service = r.image /\ Active(state) = r.image /\ r.image \in verified
                      /\ r.result = "rolled_back" =>
                           \/ journal # NoJournal /\ service = journal.original /\ state = journal.saved
                           \/ service = run.original /\ state = run.saved
    OBVIOUS
  <2>1. CASE RecordSuccess
    <3>1. pc = "record" /\ r.image = run.image /\ r.result = "success"
      BY <2>1 DEF RecordSuccess, Record, At
    <3>2. service = run.image /\ Names(state, run.image)
      BY <1>1, <3>1, FollowsNames DEF IInv, Progress, Forward
    <3>3. Active(state) = run.image /\ Active(state) \in verified
      BY <1>1, <3>2, NamesActive DEF IInv, StateInv, Sound
    <3>4. QED  BY <3>1, <3>2, <3>3
  <2>2. CASE RecoverRecord
    <3>1. /\ pc = "recover_record" /\ r.image = journal.alternate
          /\ r.result = IF run.goal = journal.alternate THEN "success" ELSE "rolled_back"
      BY <2>2 DEF RecoverRecord, Record, At
    <3>2. /\ journal # NoJournal /\ service = run.goal /\ run.goal \in verified
          /\ run.goal \in {journal.original, journal.alternate}
          /\ run.goal = journal.alternate => Names(state, journal.alternate)
          /\ run.goal # journal.alternate => state = journal.saved
      BY <1>1, <3>1 DEF IInv, Recovery, Recovering
    <3>3. QED  BY <3>1, <3>2, NamesActive
  <2>3. CASE RollbackRecord
    <3>1. pc = "rb_record" /\ r.result = "rolled_back"
      BY <2>3 DEF RollbackRecord, Record, At
    <3>2. QED  BY <1>1, <3>1 DEF IInv, Progress
  <2>4. CASE r.result \notin {"success", "rolled_back"}
    BY <2>4
  <2>5. QED  BY <1>1, <2>1, <2>2, <2>3, <2>4, RecordWriters
<1> HIDE DEF True
<1>2. Spec => [][True]_vars
  BY <1>1, ReleaseInvariant, PTL DEF Spec
<1>3. QED  BY <1>2 DEF RecordsTellTheTruth, True

================================================================================
