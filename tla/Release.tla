-------------------------------- MODULE Release --------------------------------
(***************************************************************************)
(* A release on the production host: src/deploy/vultr/minori-release,      *)
(* called by ci-deploy, whose lock lets one run at a time.  A run first    *)
(* settles what an earlier one left in its journal, then moves the service *)
(* from the image it runs to the requested one: journal, switch, health,   *)
(* state, record, end of the journal.  Whatever fails after the journal is *)
(* answered by a rollback, in the script or, on a signal, in its exit      *)
(* trap.  Every command may fail, and the script may be killed between any *)
(* two of them.                                                            *)
(*                                                                         *)
(* An image stands for the image, its commit and its contract, which its   *)
(* digest names.  The files are replaced by a rename: one step each.       *)
(***************************************************************************)
EXTENDS Integers, Sequences, FiniteSets

CONSTANTS
  Digests,        \* the images that can be requested
  Legacy,         \* the image built on the host before there were releases
  NoJournal,      \* pending.tsv does not exist
  Starts,         \* the states a host may begin with
  MaxAttempts,    \* bound on the runs
  MaxFaults,      \* bound on failing commands, signals and kills
  LateSignals     \* a signal may come between a run's record and its end

Images == Digests \union {Legacy}
NoImage == "none"
Phases == {"prepared", "replaced", "healthy", "state_written"}
Journals == [attempt : 1 .. MaxAttempts, original : Images, alternate : Digests,
             saved : Seq(Images), phase : Phases]
Records == [attempt : 1 .. MaxAttempts, image : Digests,
            result : {"success", "failed_before_replace", "rolled_back", "rollback_failed"}]

ASSUME ReleaseAssumption ==
  /\ Legacy \notin Digests
  /\ NoImage \notin Images
  /\ NoJournal \notin Journals
  /\ Starts \subseteq Seq(Images)
  /\ \A s \in Starts : /\ Len(s) <= 3
                       /\ \A i, j \in DOMAIN s : i # j => s[i] # s[j]
  /\ MaxAttempts \in Nat
  /\ MaxFaults \in Nat
  /\ LateSignals \in BOOLEAN

VARIABLES
  state,      \* state.tsv: the active release, then those before it; <<>> for no file
  journal,    \* pending.tsv
  records,    \* the release records
  service,    \* the image of the container minori
  present,    \* the images the host holds
  verified,   \* the images that were seen healthy
  pc,         \* where the run stands
  run,        \* the variables of the run
  attempts,   \* the runs begun so far
  faults      \* the faults so far

disk == <<state, journal, records, service, present, verified>>
vars == <<disk, pc, run, attempts, faults>>

Elements(s) == {s[i] : i \in DOMAIN s}

\* What the service runs when nothing is under way.
Active(s) == IF s = <<>> THEN Legacy ELSE s[1]

Recovering == {"recover", "recover_switch", "recover_ready", "recover_state",
               "recover_record", "recover_clear"}
Forward == {"switch", "replaced", "ready", "mark_healthy", "state", "mark_state",
            "record", "clear", "cleared"}
Backward == {"rb_switch", "rb_ready", "rb_state", "rb_record", "rb_clear", "rb_cleared",
             "rb_failed"}

Steps == {"idle", "load", "admit", "prepare", "journal", "reload", "prune"}
         \union Recovering \union Forward \union Backward

\* transaction_active, while no result has been printed
TransactionActive == pc \in Forward \union Backward

Idle == [attempt |-> 0, image |-> NoImage, original |-> NoImage, saved |-> <<>>,
         goal |-> NoImage, exiting |-> FALSE]

Runs == [attempt : 0 .. MaxAttempts, image : Digests \union {NoImage},
         original : Images \union {NoImage}, saved : Seq(Images),
         goal : Images \union {NoImage}, exiting : BOOLEAN]

TypeOK ==
  /\ state \in Seq(Images)
  /\ journal \in Journals \union {NoJournal}
  /\ records \subseteq Records
  /\ service \in Images \union {NoImage}
  /\ present \subseteq Images
  /\ verified \subseteq Images
  /\ pc \in Steps
  /\ run \in Runs
  /\ attempts \in 0 .. MaxAttempts
  /\ faults \in 0 .. MaxFaults

Init ==
  /\ state \in Starts
  /\ journal = NoJournal
  /\ records = {}
  /\ service = Active(state)
  /\ present = Elements(state) \union {Active(state)}
  /\ verified = present
  /\ pc = "idle"
  /\ run = Idle
  /\ attempts = 0
  /\ faults = 0

--------------------------------------------------------------------------------
(* Steps: each succeeds, or fails and goes elsewhere. *)

At(p) == pc = p
Goto(p) == pc' = p /\ UNCHANGED <<run, faults>>
GotoAnd(p, r) == pc' = p /\ run' = r /\ UNCHANGED faults
Fault == faults < MaxFaults /\ faults' = faults + 1
FailTo(p) == Fault /\ pc' = p /\ UNCHANGED run
End == pc' = "idle" /\ run' = Idle
Fail == Fault /\ End
StopUnless(ok) == (Fault \/ (~ ok /\ UNCHANGED faults)) /\ End

Record(attempt, image, result) ==
  records' = records \union {[attempt |-> attempt, image |-> image, result |-> result]}

\* saved_release_is_valid: the host holds the image
Saved(s) == Elements(s) \subseteq present

\* What load_pending asks of a deployment's journal.
JournalIsValid(j) ==
  /\ {j.original, j.alternate} \subseteq present
  /\ Saved(j.saved)
  /\ j.original = Active(j.saved)

\* docker compose up: it may fail having done its work, half of it or nothing.
SwitchService(image) == service' = image
SwitchFails(image) == service' \in {service, image, NoImage}

--------------------------------------------------------------------------------
(* The beginning of a run, and what an earlier one left. *)

Begin(image) ==
  /\ At("idle")
  /\ attempts < MaxAttempts
  /\ attempts' = attempts + 1
  /\ GotoAnd("load", [Idle EXCEPT !.attempt = attempts + 1, !.image = image])
  /\ UNCHANGED disk

\* reset_state, load_state and the question whether there is a journal
LoadState ==
  /\ At("load")
  /\ \/ /\ Saved(state)
        /\ Goto(IF journal = NoJournal THEN "admit" ELSE "recover")
     \/ StopUnless(Saved(state))
  /\ UNCHANGED <<disk, attempts>>

\* Faulty: the journal is trusted only while the state is the one it saved.
RecoverUnmoved ==
  /\ At("recover")
  /\ \/ /\ JournalIsValid(journal)
        /\ state = journal.saved
        /\ GotoAnd("recover_switch", [run EXCEPT !.goal = journal.original])
     \/ StopUnless(JournalIsValid(journal) /\ state = journal.saved)
  /\ UNCHANGED <<disk, attempts>>

\* recover_pending: forward if the state already names the candidate, else back
Recover ==
  /\ At("recover")
  /\ \/ /\ JournalIsValid(journal)
        /\ GotoAnd("recover_switch",
                   [run EXCEPT !.goal = IF state # <<>> /\ state[1] = journal.alternate
                                        THEN journal.alternate ELSE journal.original])
     \/ StopUnless(JournalIsValid(journal))
  /\ UNCHANGED <<disk, attempts>>

\* Faulty: the release that was asked for is switched to, not the journal's.
RecoverSwitchToRequest ==
  /\ At("recover_switch")
  /\ \/ SwitchService(run.image) /\ Goto("recover_ready")
     \/ SwitchFails(run.image) /\ Fail
  /\ UNCHANGED <<state, journal, records, present, verified, attempts>>

RecoverSwitch ==
  /\ At("recover_switch")
  /\ \/ SwitchService(run.goal) /\ Goto("recover_ready")
     \/ SwitchFails(run.goal) /\ Fail
  /\ UNCHANGED <<state, journal, records, present, verified, attempts>>

RecoverReady ==
  /\ At("recover_ready")
  /\ \/ /\ service = run.goal
        /\ verified' = verified \union {service}
        /\ Goto(IF run.goal = journal.alternate THEN "recover_record" ELSE "recover_state")
     \/ Fail /\ UNCHANGED verified
  /\ UNCHANGED <<state, journal, records, service, present, attempts>>

RecoverState ==
  /\ At("recover_state")
  /\ \/ state' = journal.saved /\ Goto("recover_record")
     \/ Fail /\ UNCHANGED state
  /\ UNCHANGED <<journal, records, service, present, verified, attempts>>

RecoverRecord ==
  /\ At("recover_record")
  /\ \/ /\ Record(journal.attempt, journal.alternate,
                  IF run.goal = journal.alternate THEN "success" ELSE "rolled_back")
        /\ Goto("recover_clear")
     \/ Fail /\ UNCHANGED records
  /\ UNCHANGED <<state, journal, service, present, verified, attempts>>

\* clear_pending; the state is then loaded again.
RecoverClear ==
  /\ At("recover_clear")
  /\ \/ journal' = NoJournal /\ Goto("admit")
     \/ Fail /\ UNCHANGED journal
  /\ UNCHANGED <<state, records, service, present, verified, attempts>>

--------------------------------------------------------------------------------
(* Up to the journal a failure changes nothing that runs. *)

\* The running image must be the one the state names.
RunsWhatIsSaved == Saved(state) /\ service = Active(state) /\ service \in present

\* A run that is not admitted leaves no record.
Admit ==
  /\ At("admit")
  /\ \/ /\ RunsWhatIsSaved
        /\ GotoAnd("prepare", [run EXCEPT !.original = service, !.saved = state])
     \/ StopUnless(RunsWhatIsSaved)
  /\ UNCHANGED <<disk, attempts>>

\* fail_before_replace once the attempt has an identity; its record may fail too.
FailBeforeReplace ==
  /\ Fail
  /\ Record(run.attempt, run.image, "failed_before_replace") \/ UNCHANGED records

\* pull, verification, preflight, migration and the contract
Prepare ==
  /\ At("prepare")
  /\ \/ present' = present \union {run.image} /\ Goto("journal") /\ UNCHANGED records
     \/ present' \in {present, present \union {run.image}} /\ FailBeforeReplace
  /\ UNCHANGED <<state, journal, service, verified, attempts>>

JournalOf(phase) ==
  [attempt |-> run.attempt, original |-> run.original, alternate |-> run.image,
   saved |-> run.saved, phase |-> phase]

WriteJournal ==
  /\ At("journal")
  /\ \/ journal' = JournalOf("prepared") /\ Goto("reload") /\ UNCHANGED records
     \/ FailBeforeReplace /\ UNCHANGED journal
  /\ UNCHANGED <<state, service, present, verified, attempts>>

\* load_pending: a failure here leaves the journal behind.
ReloadJournal ==
  /\ At("reload")
  /\ \/ JournalIsValid(journal) /\ Goto("switch") /\ UNCHANGED records
     \/ FailBeforeReplace
  /\ UNCHANGED <<state, journal, service, present, verified, attempts>>

--------------------------------------------------------------------------------
(* The transaction. *)

Switch ==
  /\ At("switch")
  /\ \/ SwitchService(run.image) /\ Goto("replaced")
     \/ SwitchFails(run.image) /\ FailTo("rb_switch")
  /\ UNCHANGED <<state, journal, records, present, verified, attempts>>

\* update_pending_phase
Mark(at, phase, next) ==
  /\ At(at)
  /\ \/ journal' = JournalOf(phase) /\ Goto(next)
     \/ FailTo("rb_switch") /\ UNCHANGED journal
  /\ UNCHANGED <<state, records, service, present, verified, attempts>>

MarkReplaced == Mark("replaced", "replaced", "ready")
MarkHealthy == Mark("mark_healthy", "healthy", "state")
MarkStateWritten == Mark("mark_state", "state_written", "record")

\* Faulty: the loop of attempts ends like one that succeeded.
ReadyAfterAll ==
  /\ At("ready")
  /\ service = run.image
  /\ Goto("mark_healthy")
  /\ UNCHANGED <<disk, attempts>>

Ready ==
  /\ At("ready")
  /\ \/ /\ service = run.image
        /\ verified' = verified \union {service}
        /\ Goto("mark_healthy")
     \/ FailTo("rb_switch") /\ UNCHANGED verified
  /\ UNCHANGED <<state, journal, records, service, present, attempts>>

\* Where image stands in s, or one past its end.
Position(image, s) ==
  IF image \in Elements(s) THEN CHOOSE i \in DOMAIN s : s[i] = image ELSE Len(s) + 1

\* Faulty: a candidate that is saved already is kept twice.
PromotedTwice(image, s) ==
  [i \in 1 .. IF Len(s) < 3 THEN Len(s) + 1 ELSE 3 |-> IF i = 1 THEN image ELSE s[i - 1]]

\* The candidate before the releases of s without it, three at most.
Promoted(image, s) ==
  LET kept == IF image \in Elements(s) THEN Len(s) ELSE Len(s) + 1
  IN  [i \in 1 .. IF kept < 3 THEN kept ELSE 3 |->
        IF i = 1 THEN image ELSE IF i <= Position(image, s) THEN s[i - 1] ELSE s[i]]

\* next_images: the first release on a host takes the image it found as predecessor.
NextState == Promoted(run.image, IF run.saved = <<>> THEN <<run.original>> ELSE run.saved)

WriteState ==
  /\ At("state")
  /\ \/ state' = NextState /\ Goto("mark_state")
     \/ FailTo("rb_switch") /\ UNCHANGED state
  /\ UNCHANGED <<journal, records, service, present, verified, attempts>>

RecordSuccess ==
  /\ At("record")
  /\ \/ Record(run.attempt, run.image, "success") /\ Goto("clear")
     \/ FailTo("rb_switch") /\ UNCHANGED records
  /\ UNCHANGED <<state, journal, service, present, verified, attempts>>

\* Faulty: a journal that cannot be removed is answered by a rollback.
ClearJournalOrRollBack ==
  /\ At("clear")
  /\ \/ journal' = NoJournal /\ Goto("cleared")
     \/ FailTo("rb_switch") /\ UNCHANGED journal
  /\ UNCHANGED <<state, records, service, present, verified, attempts>>

\* A journal that cannot be removed ends the run, without a rollback.
ClearJournal ==
  /\ At("clear")
  /\ \/ journal' = NoJournal /\ Goto("cleared")
     \/ Fail /\ UNCHANGED journal
  /\ UNCHANGED <<state, records, service, present, verified, attempts>>

\* transaction_active=0
Commit == At("cleared") /\ Goto("prune") /\ UNCHANGED <<disk, attempts>>

\* docker image rm of what fell out of the state; a failure is ignored.
Prune ==
  /\ At("prune")
  /\ present' \in {present \ gone : gone \in SUBSET (Elements(run.saved) \ Elements(state))}
  /\ End
  /\ UNCHANGED <<state, journal, records, service, verified, attempts, faults>>

--------------------------------------------------------------------------------
(* The rollback: restore_active_transaction, the record, the journal. *)

RollbackSwitch ==
  /\ At("rb_switch")
  /\ \/ SwitchService(run.original) /\ Goto("rb_ready")
     \/ SwitchFails(run.original) /\ FailTo("rb_failed")
  /\ UNCHANGED <<state, journal, records, present, verified, attempts>>

RollbackReady ==
  /\ At("rb_ready")
  /\ \/ /\ service = run.original
        /\ verified' = verified \union {service}
        /\ Goto("rb_state")
     \/ FailTo("rb_failed") /\ UNCHANGED verified
  /\ UNCHANGED <<state, journal, records, service, present, attempts>>

\* Faulty: the service is restored and the state is not.
RollbackServiceOnly == At("rb_state") /\ Goto("rb_record") /\ UNCHANGED <<disk, attempts>>

RollbackState ==
  /\ At("rb_state")
  /\ \/ state' = run.saved /\ Goto("rb_record")
     \/ FailTo("rb_failed") /\ UNCHANGED state
  /\ UNCHANGED <<journal, records, service, present, verified, attempts>>

RollbackRecord ==
  /\ At("rb_record")
  /\ \/ Record(run.attempt, run.image, "rolled_back") /\ Goto("rb_clear")
     \/ Fail /\ UNCHANGED records
  /\ UNCHANGED <<state, journal, service, present, verified, attempts>>

RollbackClear ==
  /\ At("rb_clear")
  /\ \/ journal' = NoJournal /\ Goto("rb_cleared")
     \/ Fail /\ UNCHANGED journal
  /\ UNCHANGED <<state, records, service, present, verified, attempts>>

RollbackDone == At("rb_cleared") /\ End /\ UNCHANGED <<disk, attempts, faults>>

\* The record of a failed rollback may fail too; the journal stays.
RollbackFailed ==
  /\ At("rb_failed")
  /\ \/ Record(run.attempt, run.image, "rollback_failed") /\ UNCHANGED faults
     \/ Fault /\ UNCHANGED records
  /\ End
  /\ UNCHANGED <<state, journal, service, present, verified, attempts>>

--------------------------------------------------------------------------------
(* TERM, HUP or INT, and a kill or a crash of the host. *)

Late == {"clear", "cleared", "rb_cleared"}

\* on_exit rolls an active transaction back, with the traps removed.
Signal ==
  /\ TransactionActive
  /\ ~ run.exiting
  /\ LateSignals \/ pc \notin Late
  /\ Fault
  /\ pc' = "rb_switch"
  /\ run' = [run EXCEPT !.exiting = TRUE]
  /\ UNCHANGED <<disk, attempts>>

\* Nothing more is done: a kill, or a signal outside a transaction or in the trap.
Kill == pc # "idle" /\ Fail /\ UNCHANGED <<disk, attempts>>

RunStep ==
  \/ LoadState \/ Recover \/ RecoverSwitch \/ RecoverReady \/ RecoverState
  \/ RecoverRecord \/ RecoverClear
  \/ Admit \/ Prepare \/ WriteJournal \/ ReloadJournal
  \/ Switch \/ MarkReplaced \/ Ready \/ MarkHealthy \/ WriteState \/ MarkStateWritten
  \/ RecordSuccess \/ ClearJournal \/ Commit \/ Prune
  \/ RollbackSwitch \/ RollbackReady \/ RollbackState \/ RollbackRecord
  \/ RollbackClear \/ RollbackDone \/ RollbackFailed

\* The bound on the runs: nobody asks for another release.
Rest == At("idle") /\ attempts = MaxAttempts /\ UNCHANGED vars

Next ==
  \/ \E image \in Digests : Begin(image)
  \/ RunStep
  \/ Signal
  \/ Kill
  \/ Rest

Spec == Init /\ [][Next]_vars
FairSpec == Spec /\ WF_vars(RunStep)

--------------------------------------------------------------------------------
(* Properties *)

\* When no run and no journal is under way, the service runs the image the state
\* names, which the next release demands: a host is never left where every further
\* release is refused.
StateNamesWhatRuns == pc = "idle" /\ journal = NoJournal => service = Active(state)

\* Whenever the script stops, what it left is what the next run's recovery can settle:
\* a valid journal whose images are all there, with the state before the attempt or
\* the one after it, and the service on one of the two images or on none.
JournalCanBeSettled ==
  journal # NoJournal =>
    /\ JournalIsValid(journal)
    /\ service \in {journal.original, journal.alternate, NoImage}
    /\ \/ state = journal.saved
       \/ state # <<>> /\ state[1] = journal.alternate /\ journal.original \in Elements(state)

\* The Local Rollback Set: at most three different images, each of which was seen
\* healthy and is still on the host.
RollbackSetIsUsable ==
  /\ Len(state) <= 3
  /\ \A i, j \in DOMAIN state : i # j => state[i] # state[j]
  /\ Elements(state) \subseteq present \intersect verified

\* "Records success, or restores": no attempt has both records, whatever was
\* interrupted and whichever run recovers it.
SuccessOrRestored ==
  \A r, q \in records :
    r.attempt = q.attempt => ~ (r.result = "success" /\ q.result = "rolled_back")

\* Once an attempt is recorded as a success it is not recorded as rolled back: neither
\* a rollback nor a recovery undoes a release that was reported.
SuccessIsFinal ==
  [][ \A r \in records' \ records :
        r.result = "rolled_back" =>
          ~ \E q \in records : q.attempt = r.attempt /\ q.result = "success" ]_vars

\* A record of success is written when the candidate runs, was seen healthy and is
\* the active release; a record of a rollback when the image before it is again.
RecordsTellTheTruth ==
  [][ \A r \in records' \ records :
        /\ r.result = "success" =>
             service = r.image /\ Active(state) = r.image /\ r.image \in verified
        /\ r.result = "rolled_back" =>
             \/ journal # NoJournal /\ service = journal.original /\ state = journal.saved
             \/ service = run.original /\ state = run.saved ]_vars

\* With no more faults, a run that begins settles the journal it finds and ends with
\* a service the state names: no sequence of faults before leaves the host stuck.
Exhausted == faults = MaxFaults
RecoversWhenFaultsStop ==
  (pc = "load" /\ Exhausted) ~> (pc = "idle" /\ journal = NoJournal /\ service = Active(state))

================================================================================
