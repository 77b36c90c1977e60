------------------------------ MODULE Schedules -------------------------------
(***************************************************************************)
(* Scheduled tasks and their runs: the statements of the schedule store    *)
(* and of the run store (src/src/storage), the members who call them       *)
(* through the schedule tools, the dispatcher that turns due times into    *)
(* runs, and the worker that claims and ends a run.                        *)
(*                                                                         *)
(* Time is a counter and a cron schedule fires at every tick, so the next  *)
(* occurrence after now is now + 1 and the latest one until now is now     *)
(* itself.  0 stands for a null time.  A run is identified by its task and *)
(* its scheduled_for: scheduled_runs_schedule_occurrence_unique admits one *)
(* row for each.  The tools check expectedVersion against the locked task  *)
(* row, so a mutation based on an old version changes nothing and is left  *)
(* out; so is the content of a revision.                                   *)
(***************************************************************************)
EXTENDS Naturals, FiniteSets, Sequences

CONSTANTS
  Tasks,          \* ids of tasks
  Name,           \* the name of each task
  Pollers,        \* polls of the dispatcher that may be under way together
  Edits,          \* what members change: "details", "schedule"
  Horizon,        \* bound on the clock
  MaxVersion      \* bound on the mutations of a task

ASSUME ScheduleAssumption ==
  /\ Tasks \subseteq Nat /\ IsFiniteSet(Tasks)
  /\ Name \in [Tasks -> STRING]
  /\ IsFiniteSet(Pollers)
  /\ Edits \subseteq {"details", "schedule"}
  /\ Horizon \in Nat \ {0}
  /\ MaxVersion \in Nat \ {0}

VARIABLES
  now,
  task,       \* scheduled_tasks
  run,        \* scheduled_runs: run[t][o] is the run of task t for time o
  polls,      \* polls[p]: what poll p of the dispatcher still has to create
  invoked     \* invoked[t][o]: how often the agent was started for run[t][o]

vars == <<now, task, run, polls, invoked>>

Times == 1 .. Horizon
NoTime == 0

States == {"none", "active", "paused", "in_flight", "completed", "deleted"}
Live == {"active", "paused", "in_flight"}
RunStatuses == {"none", "queued", "processing", "completed", "failed", "cancelled"}
ActiveStatuses == {"queued", "processing"}

Task == [state: States, version: 0 .. MaxVersion, kind: {"once", "cron"},
         onceAt: 0 .. Horizon, nextDue: 0 .. (Horizon + 1), missed: 0 .. Horizon,
         nameReserved: BOOLEAN, scheduledIn: 0 .. MaxVersion]
Run == [status: RunStatuses, version: 0 .. MaxVersion, claim: {0, 1}]
Due == [task: Tasks, expected: 1 .. (Horizon + 1), for: Times, next: 0 .. (Horizon + 1)]

TypeOK ==
  /\ now \in Times
  /\ task \in [Tasks -> Task]
  /\ run \in [Tasks -> [Times -> Run]]
  /\ polls \in [Pollers -> Seq(Due)]
  /\ invoked \in [Tasks -> [Times -> Nat]]

\* scheduledIn is the version that set the schedule.
NoTask == [state |-> "none", version |-> 0, kind |-> "cron", onceAt |-> NoTime,
           nextDue |-> NoTime, missed |-> NoTime, nameReserved |-> FALSE, scheduledIn |-> 0]
NoRun == [status |-> "none", version |-> 0, claim |-> 0]

Init ==
  /\ now = 1
  /\ task = [t \in Tasks |-> NoTask]
  /\ run = [t \in Tasks |-> [o \in Times |-> NoRun]]
  /\ polls = [p \in Pollers |-> <<>>]
  /\ invoked = [t \in Tasks |-> [o \in Times |-> 0]]

Tick ==
  /\ now < Horizon
  /\ now' = now + 1
  /\ UNCHANGED <<task, run, polls, invoked>>

RunsIn(t, statuses) == {o \in Times : run[t][o].status \in statuses}

\* The calendar: the next cron occurrence after a time.
NextCron(after) == after + 1

-------------------------------------------------------------------------------
\* The schedule tools of the agent.

\* A once schedule for a future time, or cron.
Schedules == [kind: {"once"}, onceAt: (now + 1) .. Horizon] \cup [kind: {"cron"}, onceAt: {NoTime}]

FirstDue(s) == IF s.kind = "once" THEN s.onceAt ELSE NextCron(now)

\* scheduled_tasks_reserved_name_unique refuses a name somebody holds.
Create(t) ==
  /\ task[t].state = "none"
  /\ \A u \in Tasks : task[u].nameReserved => Name[u] # Name[t]
  /\ \E s \in Schedules :
       task' = [task EXCEPT ![t] =
                  [state |-> "active", version |-> 1, kind |-> s.kind, onceAt |-> s.onceAt,
                   nextDue |-> FirstDue(s), missed |-> NoTime, nameReserved |-> TRUE,
                   scheduledIn |-> 1]]
  /\ UNCHANGED <<now, run, polls, invoked>>

\* update without a new schedule: instruction, target, context or name.
UpdateDetails(t) ==
  /\ "details" \in Edits
  /\ task[t].state \in {"active", "paused"}
  /\ task[t].version < MaxVersion
  /\ task' = [task EXCEPT ![t].version = @ + 1]
  /\ UNCHANGED <<now, run, polls, invoked>>

\* update with a new schedule, whose first occurrence becomes next_due_at.
UpdateSchedule(t) ==
  /\ "schedule" \in Edits
  /\ task[t].state \in {"active", "paused"}
  /\ task[t].version < MaxVersion
  /\ \E s \in Schedules :
       task' = [task EXCEPT ![t] =
                  [@ EXCEPT !.version = task[t].version + 1, !.kind = s.kind, !.onceAt = s.onceAt,
                            !.nextDue = FirstDue(s), !.scheduledIn = task[t].version + 1]]
  /\ UNCHANGED <<now, run, polls, invoked>>

\* update ... set status = 'cancelled' where status = 'queued'
QueuedCancelled(t) ==
  [run EXCEPT ![t] = [o \in Times |->
     IF @[o].status = "queued" THEN [@[o] EXCEPT !.status = "cancelled"] ELSE @[o]]]

\* Faulty: pause leaves a queued run alone.
PauseKeepingQueue(t) ==
  /\ task[t].state \in Live
  /\ task[t].version < MaxVersion
  /\ task' = [task EXCEPT ![t] =
                [@ EXCEPT !.state = "paused", !.version = task[t].version + 1, !.nextDue = NoTime,
                          !.nameReserved = TRUE]]
  /\ UNCHANGED <<now, run, polls, invoked>>

Pause(t) ==
  /\ task[t].state \in Live
  /\ task[t].version < MaxVersion
  /\ task' = [task EXCEPT ![t] =
                [@ EXCEPT !.state = "paused", !.version = task[t].version + 1, !.nextDue = NoTime,
                          !.nameReserved = TRUE]]
  /\ run' = QueuedCancelled(t)
  /\ UNCHANGED <<now, polls, invoked>>

\* Faulty: delete frees the name at once.
DeleteFreeingName(t) ==
  /\ task[t].state \in Live
  /\ task[t].version < MaxVersion
  /\ task' = [task EXCEPT ![t] =
                [@ EXCEPT !.state = "deleted", !.version = task[t].version + 1, !.nextDue = NoTime,
                          !.nameReserved = FALSE]]
  /\ run' = QueuedCancelled(t)
  /\ UNCHANGED <<now, polls, invoked>>

\* A deleted task holds its name until its processing run has ended.
Delete(t) ==
  /\ task[t].state \in Live
  /\ task[t].version < MaxVersion
  /\ task' = [task EXCEPT ![t] =
                [@ EXCEPT !.state = "deleted", !.version = task[t].version + 1, !.nextDue = NoTime,
                          !.nameReserved = RunsIn(t, {"processing"}) # {}]]
  /\ run' = QueuedCancelled(t)
  /\ UNCHANGED <<now, polls, invoked>>

\* resume: the task becomes active from its next occurrence on.  A once task whose
\* time has come needs a run to rebind.
Resume(t) ==
  /\ task[t].state = "paused"
  /\ task[t].version < MaxVersion
  /\ task[t].kind = "once" => RunsIn(t, {"cancelled"}) = {} /\ task[t].onceAt > now
  /\ task' = [task EXCEPT ![t] =
                [@ EXCEPT !.state = "active", !.version = task[t].version + 1, !.nameReserved = TRUE,
                          !.nextDue = IF task[t].kind = "once" THEN task[t].onceAt
                                                               ELSE NextCron(now)]]
  /\ UNCHANGED <<now, run, polls, invoked>>

\* resume of a once task with a cancelled run: the latest of them is queued again
\* under the new version.  scheduled_runs_one_active_per_task stops a second one.
ResumeRebinding(t) ==
  LET cancelled == RunsIn(t, {"cancelled"}) IN
  /\ task[t].state = "paused"
  /\ task[t].version < MaxVersion
  /\ task[t].kind = "once"
  /\ RunsIn(t, ActiveStatuses) = {}
  /\ task' = [task EXCEPT ![t] =
                [@ EXCEPT !.state = "in_flight", !.version = task[t].version + 1, !.nameReserved = TRUE,
                          !.nextDue = NoTime]]
  /\ \E o \in cancelled :
       /\ \A p \in cancelled : p <= o
       /\ run' = [run EXCEPT ![t][o] =
                    [status |-> "queued", version |-> task[t].version + 1, claim |-> 0]]
  /\ UNCHANGED <<now, polls, invoked>>

-------------------------------------------------------------------------------
\* The dispatcher.

\* listDispatchable
Dispatchable ==
  {t \in Tasks : /\ task[t].state = "active"
                 /\ \/ task[t].nextDue # NoTime /\ task[t].nextDue <= now
                    \/ task[t].missed # NoTime}

\* order by coalesce(latest_missed_at, next_due_at), id
DueKey(t) == IF task[t].missed # NoTime THEN task[t].missed ELSE task[t].nextDue
DueBefore(t, u) == DueKey(t) < DueKey(u) \/ (DueKey(t) = DueKey(u) /\ t < u)
InDueOrder(S) ==
  {order \in [1 .. Cardinality(S) -> S] :
     \A i, j \in 1 .. Cardinality(S) : i < j => DueBefore(order[i], order[j])}

\* Faulty: a missed time alone is no occurrence.
HasDueTime(t) == task[t].nextDue # NoTime /\ task[t].nextDue <= now

\* dueOccurrence: a missed time when nothing is due, else the latest due time.
HasOccurrence(t) ==
  task[t].nextDue # NoTime /\ (task[t].nextDue <= now \/ task[t].missed # NoTime)
DueOccurrence(t) ==
  [task |-> t, expected |-> task[t].nextDue,
   for |-> CASE task[t].nextDue > now -> task[t].missed
             [] task[t].nextDue <= now /\ task[t].kind = "once" -> task[t].nextDue
             [] task[t].nextDue <= now /\ task[t].kind = "cron" -> now,
   next |-> CASE task[t].nextDue > now -> task[t].nextDue
              [] task[t].nextDue <= now /\ task[t].kind = "once" -> NoTime
              [] task[t].nextDue <= now /\ task[t].kind = "cron" -> NextCron(now)]

\* poll: databaseNow and listDispatchable; the dues are worked off one by one.
Poll(p) ==
  LET listed == {t \in Dispatchable : HasOccurrence(t)} IN
  /\ polls[p] = <<>>
  /\ listed # {}
  /\ \E order \in InDueOrder(listed) :
       polls' = [polls EXCEPT ![p] = [i \in DOMAIN order |-> DueOccurrence(order[i])]]
  /\ UNCHANGED <<now, task, run, invoked>>

\* A poll that has nothing to create.
IdlePoll(p) ==
  /\ polls[p] = <<>>
  /\ {t \in Dispatchable : HasOccurrence(t)} = {}
  /\ UNCHANGED vars

\* createDue answers not_found, inactive or not_due.
DueIsStale(d) == task[d.task].state # "active" \/ task[d.task].nextDue # d.expected

SkipDue(p) ==
  /\ polls[p] # <<>>
  /\ DueIsStale(Head(polls[p]))
  /\ polls' = [polls EXCEPT ![p] = Tail(@)]
  /\ UNCHANGED <<now, task, run, invoked>>

\* createDue answers active_run: the time is folded into latest_missed_at.
FoldDue(p) ==
  LET d == Head(polls[p]) t == d.task IN
  /\ polls[p] # <<>>
  /\ ~DueIsStale(d)
  /\ RunsIn(t, ActiveStatuses) # {}
  /\ task' = [task EXCEPT ![t] =
                [@ EXCEPT !.missed = IF task[t].missed > d.for THEN task[t].missed ELSE d.for,
                          !.nextDue = IF d.next # NoTime THEN d.next ELSE task[t].nextDue]]
  /\ polls' = [polls EXCEPT ![p] = Tail(@)]
  /\ UNCHANGED <<now, run, invoked>>

\* Faulty: createDue does not clear latest_missed_at.
CreateDueKeepingMissed(p) ==
  LET d == Head(polls[p]) t == d.task IN
  /\ polls[p] # <<>>
  /\ ~DueIsStale(d)
  /\ RunsIn(t, ActiveStatuses) = {}
  /\ IF run[t][d.for].status = "none"
       THEN /\ run' = [run EXCEPT ![t][d.for] =
                         [status |-> "queued", version |-> task[t].version, claim |-> 0]]
            /\ task' = [task EXCEPT ![t] =
                 [@ EXCEPT !.state = IF task[t].kind = "once" THEN "in_flight" ELSE "active",
                           !.nextDue = IF task[t].kind = "once" THEN NoTime ELSE d.next]]
            /\ polls' = [polls EXCEPT ![p] = Tail(@)]
       ELSE polls' = [polls EXCEPT ![p] = <<>>] /\ UNCHANGED <<run, task>>
  /\ UNCHANGED <<now, invoked>>

\* createDue creates the run with the task as it is now.  When the occurrence has a run
\* already, the insert fails on the unique index, and the poll with it.
CreateDue(p) ==
  LET d == Head(polls[p]) t == d.task IN
  /\ polls[p] # <<>>
  /\ ~DueIsStale(d)
  /\ RunsIn(t, ActiveStatuses) = {}
  /\ IF run[t][d.for].status = "none"
       THEN /\ run' = [run EXCEPT ![t][d.for] =
                         [status |-> "queued", version |-> task[t].version, claim |-> 0]]
            /\ task' = [task EXCEPT ![t] =
                 [@ EXCEPT !.state = IF task[t].kind = "once" THEN "in_flight" ELSE "active",
                           !.nextDue = IF task[t].kind = "once" THEN NoTime ELSE d.next,
                           !.missed = NoTime]]
            /\ polls' = [polls EXCEPT ![p] = Tail(@)]
       ELSE polls' = [polls EXCEPT ![p] = <<>>] /\ UNCHANGED <<run, task>>
  /\ UNCHANGED <<now, invoked>>

-------------------------------------------------------------------------------
\* The worker.

\* claimNext, its admission rules apart: only for a task that is active or in flight.
Claim(t, o) ==
  /\ run[t][o].status = "queued"
  /\ task[t].state \in {"active", "in_flight"}
  /\ run' = [run EXCEPT ![t][o] = [@ EXCEPT !.status = "processing", !.claim = run[t][o].claim + 1]]
  /\ invoked' = [invoked EXCEPT ![t][o] = @ + 1]
  /\ UNCHANGED <<now, task, polls>>

\* What finish and recoverExpired do to the task: the end of a run is the end of a
\* once task, and frees the name of a deleted one.
Ended(t) ==
  LET once == task[t].kind = "once" /\ task[t].state # "deleted" IN
  [task EXCEPT ![t] =
     [@ EXCEPT !.state = IF once THEN "completed" ELSE task[t].state,
               !.nameReserved = ~(once \/ task[t].state = "deleted")]]

Finish(t, o) ==
  /\ run[t][o].status = "processing"
  /\ \E outcome \in {"completed", "failed"} : run' = [run EXCEPT ![t][o].status = outcome]
  /\ task' = Ended(t)
  /\ UNCHANGED <<now, polls, invoked>>

\* Faulty: an expired run is queued for another attempt.
RecoverExpiredRequeues(t, o) ==
  /\ run[t][o].status = "processing"
  /\ run' = [run EXCEPT ![t][o] = [@ EXCEPT !.status = "queued", !.claim = 0]]
  /\ UNCHANGED <<now, task, polls, invoked>>

\* An expired run is failed, never run again.
RecoverExpired(t, o) ==
  /\ run[t][o].status = "processing"
  /\ run' = [run EXCEPT ![t][o].status = "failed"]
  /\ task' = Ended(t)
  /\ UNCHANGED <<now, polls, invoked>>

-------------------------------------------------------------------------------

Member(t) ==
  \/ Create(t) \/ UpdateDetails(t) \/ UpdateSchedule(t)
  \/ Pause(t) \/ Resume(t) \/ ResumeRebinding(t) \/ Delete(t)

Dispatch(p) == SkipDue(p) \/ FoldDue(p) \/ CreateDue(p)

Work(t, o) == Claim(t, o) \/ Finish(t, o) \/ RecoverExpired(t, o)

Next ==
  \/ Tick
  \/ \E t \in Tasks : Member(t)
  \/ \E p \in Pollers : Poll(p) \/ IdlePoll(p) \/ Dispatch(p)
  \/ \E t \in Tasks, o \in Times : Work(t, o)

Spec == Init /\ [][Next]_vars

\* The poll timer keeps firing, and queued runs are claimed and end.
Fairness ==
  /\ \A p \in Pollers : WF_vars(Poll(p)) /\ WF_vars(Dispatch(p))
  /\ \A t \in Tasks, o \in Times : WF_vars(Work(t, o))

FairSpec == Spec /\ Fairness

-------------------------------------------------------------------------------
(***************************************************************************)
(* Properties.                                                             *)
(***************************************************************************)

\* A planned time produces at most one agent run, across pause, rebinding,
\* expiry and recovery.
PlannedTimeRunsOnce == \A t \in Tasks, o \in Times : invoked[t][o] <= 1

\* No change of a task strands it or its run: claimNext takes the earliest queued run
\* and gives up when its task is not active or in flight, so a queued run of any other
\* task would block all runs behind it; and nothing but a run under way ends a task
\* that is in flight.
NothingStuck ==
  \A t \in Tasks :
    /\ RunsIn(t, {"queued"}) # {} => task[t].state \in {"active", "in_flight"}
    /\ task[t].state = "in_flight" => RunsIn(t, ActiveStatuses) # {}

\* Per-task non-overlap, and a task whose run is processing holds its name, so that
\* no task of the same name overlaps its output.
NoOverlapUnderOneName ==
  /\ \A t \in Tasks : Cardinality(RunsIn(t, ActiveStatuses)) <= 1
  /\ \A t, u \in Tasks :
       /\ RunsIn(t, {"processing"}) # {} /\ Name[t] = Name[u] /\ t # u
       => task[u].state \notin Live /\ RunsIn(u, ActiveStatuses) = {}

\* What the dispatcher will try to create next does not exist yet.  An occurrence
\* that had its run would make every poll fail, and the tasks behind it wait.
DispatchableIsUnrun ==
  \A t \in Tasks : task[t].state = "active" =>
    /\ task[t].missed # NoTime => run[t][task[t].missed].status = "none"
    /\ task[t].nextDue \in Times => run[t][task[t].nextDue].status = "none"

\* A once task is completed by a run of the schedule it has.
CompletedByItsOwnRun ==
  \A t \in Tasks : task[t].state = "completed" =>
    \E o \in RunsIn(t, {"completed", "failed"}) : run[t][o].version >= task[t].scheduledIn

\* A missed time of an active task is taken up or superseded.
MissedIsTakenUp ==
  \A t \in Tasks, o \in Times :
    task[t].state = "active" /\ task[t].missed = o
      ~> task[t].state # "active" \/ task[t].missed # o
===============================================================================
