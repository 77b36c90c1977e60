--------------------------- MODULE SchedulesProofs ----------------------------
(***************************************************************************)
(* Proofs about Schedules: a task's states, its runs and its name, the     *)
(* occurrences the dispatcher hands to createDue, and what the members'    *)
(* edits may not break, for every set of tasks and every horizon.          *)
(***************************************************************************)
EXTENDS Schedules, FiniteSetTheorems, TLAPS

-------------------------------------------------------------------------------
(***************************************************************************)
(* The inductive invariants.                                               *)
(***************************************************************************)

InRun(t, o) == run[t][o].status \in ActiveStatuses

\* A run that was not claimed yet, or was cancelled before, has not been invoked.
UnclaimedUninvoked(t) ==
  \A o \in Times :
    /\ run[t][o].status \in {"none", "queued", "cancelled"} =>
         invoked[t][o] = 0 /\ run[t][o].claim = 0
    /\ invoked[t][o] <= 1

\* One active run per task (scheduled_runs_one_active_per_task).
OneActive(t) == \A o, q \in Times : InRun(t, o) /\ InRun(t, q) => o = q

\* What the state of a task says about its runs: a queued run can be claimed, a task
\* with an active run is neither new nor completed, and a task in flight is a once task
\* with an active run.
StateMatchesRuns(t) ==
  /\ \A o \in Times :
       /\ run[t][o].status = "queued" => task[t].state \in {"active", "in_flight"}
       /\ InRun(t, o) => task[t].state \notin {"none", "completed"}
  /\ task[t].state = "in_flight" => task[t].kind = "once" /\ \E o \in Times : InRun(t, o)

\* A task that may run, or is running, holds its name.
HoldsName(t) ==
  /\ task[t].state \in Live => task[t].nameReserved
  /\ \A o \in Times : run[t][o].status = "processing" => task[t].nameReserved

TaskLife(t) == UnclaimedUninvoked(t) /\ OneActive(t) /\ StateMatchesRuns(t) /\ HoldsName(t)

\* scheduled_tasks_reserved_name_unique
NamesUnique ==
  \A t, u \in Tasks : task[t].nameReserved /\ task[u].nameReserved /\ Name[t] = Name[u] => t = u

LifeInv == TypeOK /\ (\A t \in Tasks : TaskLife(t)) /\ NamesUnique

\* Runs exist for past times only, and before the time that is due next.
RunsArePast(t) ==
  \A o \in Times : run[t][o].status # "none" =>
    /\ o <= now
    /\ task[t].state = "active" /\ task[t].nextDue # NoTime => o < task[t].nextDue

\* A missed time is past and has no run.
MissedUnrun(t) ==
  task[t].missed # NoTime =>
    task[t].missed <= now /\ run[t][task[t].missed].status = "none"

\* What a poll still has to create is either due or the missed time of its task, and
\* the time that would be due after it is later.
Sound(d) ==
  /\ task[d.task].state # "none"
  /\ d.for <= now
  /\ d.next # NoTime => d.for < d.next
  /\ \/ d.expected <= d.for
     \/ d.for = task[d.task].missed /\ d.next = d.expected
DuesAreSound ==
  \A p \in Pollers :
    /\ \A i \in DOMAIN polls[p] : Sound(polls[p][i])
    /\ \A i, j \in DOMAIN polls[p] : i # j => polls[p][i].task # polls[p][j].task

DueInv == (\A t \in Tasks : RunsArePast(t) /\ MissedUnrun(t)) /\ DuesAreSound

-------------------------------------------------------------------------------
(***************************************************************************)
(* A step changes at most one task.                                        *)
(***************************************************************************)

OnlyTask(t) ==
  \A u \in Tasks : u # t => task'[u] = task[u] /\ run'[u] = run[u] /\ invoked'[u] = invoked[u]

\* What the assumptions on the constants say of the times.
LEMMA Constants ==
  /\ Horizon \in Nat /\ MaxVersion \in Nat /\ Tasks \subseteq Nat
  /\ Times \subseteq Nat /\ 0 \notin Times /\ \A o \in Times : o <= Horizon
  BY ScheduleAssumption DEF ScheduleAssumption, Times

\* The types, taken apart.
LEMMA Types ==
  ASSUME TypeOK
  PROVE  /\ now \in Times /\ now \in Nat
         /\ \A t \in Tasks : /\ task[t] \in Task
                             /\ task[t].state \in States /\ task[t].version \in 0 .. MaxVersion
                             /\ task[t].kind \in {"once", "cron"} /\ task[t].onceAt \in 0 .. Horizon
                             /\ task[t].nextDue \in 0 .. (Horizon + 1) /\ task[t].missed \in 0 .. Horizon
                             /\ task[t].nameReserved \in BOOLEAN /\ task[t].scheduledIn \in 0 .. MaxVersion
         /\ \A t \in Tasks, o \in Times :
              /\ run[t][o] \in Run /\ run[t][o].status \in RunStatuses
              /\ run[t][o].version \in 0 .. MaxVersion /\ run[t][o].claim \in {0, 1}
              /\ invoked[t][o] \in Nat
  BY Constants DEF TypeOK, Task, Run

\* What is left to show of a step that changes one task.
LEMMA OneTaskChanges ==
  ASSUME LifeInv, TypeOK', NEW t \in Tasks, OnlyTask(t), TaskLife(t)',
         task'[t].nameReserved =>
           task[t].nameReserved \/ \A u \in Tasks : task[u].nameReserved => Name[u] # Name[t]
  PROVE  LifeInv'
<1>1. ASSUME NEW u \in Tasks PROVE TaskLife(u)'
  <2>1. CASE u = t
    BY <2>1
  <2>2. CASE u # t
    BY <2>2 DEF OnlyTask, LifeInv, TaskLife, UnclaimedUninvoked, OneActive, InRun, StateMatchesRuns, HoldsName
  <2> QED BY <2>1, <2>2
<1>2. NamesUnique'
  BY DEF OnlyTask, LifeInv, NamesUnique
<1> QED BY <1>1, <1>2 DEF LifeInv

\* What is left of the life of a task when a step keeps its runs.
LEMMA RunsKept ==
  ASSUME LifeInv, NEW t \in Tasks, run' = run, invoked' = invoked,
         \A o \in Times : run[t][o].status = "queued" => task'[t].state \in {"active", "in_flight"},
         \A o \in Times : InRun(t, o) => task'[t].state \notin {"none", "completed"},
         task'[t].state = "in_flight" => task'[t].kind = "once" /\ \E o \in Times : InRun(t, o),
         task'[t].state \in Live => task'[t].nameReserved,
         \A o \in Times : run[t][o].status = "processing" => task'[t].nameReserved
  PROVE  TaskLife(t)'
  BY DEF LifeInv, TaskLife, UnclaimedUninvoked, OneActive, InRun, StateMatchesRuns, HoldsName

-------------------------------------------------------------------------------
(***************************************************************************)
(* What each action makes of its task.  The fields are those the           *)
(* invariants speak of; the lemmas also say that the action's steps are    *)
(* well typed.                                                             *)
(***************************************************************************)

TaskSet(t, r, state, kind, nextDue, missed, reserved) ==
  /\ task' = [task EXCEPT ![t] = r]
  /\ r \in Task
  /\ r.state = state /\ r.kind = kind /\ r.nextDue = nextDue /\ r.missed = missed
  /\ r.nameReserved = reserved

TaskBecomes(t, state, kind, nextDue, missed, reserved) ==
  \E r : TaskSet(t, r, state, kind, nextDue, missed, reserved)

\* The same, as it is used.
LEMMA TaskBecame ==
  ASSUME TypeOK, NEW t \in Tasks, NEW state, NEW kind, NEW nextDue, NEW missed, NEW reserved,
         TaskBecomes(t, state, kind, nextDue, missed, reserved)
  PROVE  /\ task' \in [Tasks -> Task]
         /\ task'[t].state = state /\ task'[t].kind = kind /\ task'[t].nextDue = nextDue
         /\ task'[t].missed = missed /\ task'[t].nameReserved = reserved
         /\ \A u \in Tasks : u # t => task'[u] = task[u]
<1>1. PICK r : TaskSet(t, r, state, kind, nextDue, missed, reserved)
  BY DEF TaskBecomes
<1>2. task \in [Tasks -> Task]
  BY DEF TypeOK
<1> QED BY <1>1, <1>2 DEF TaskSet

\* A schedule a member may set: its first occurrence lies in the future.
LEMMA FirstDueIsLater ==
  ASSUME TypeOK, NEW s \in Schedules
  PROVE  /\ s.kind \in {"once", "cron"} /\ s.onceAt \in 0 .. Horizon
         /\ FirstDue(s) \in 0 .. (Horizon + 1) /\ FirstDue(s) > now /\ FirstDue(s) # NoTime
<1>1. now \in Nat /\ now <= Horizon /\ Horizon \in Nat
  BY Constants, Types
<1> QED BY <1>1 DEF Schedules, FirstDue, NextCron, NoTime

\* A new task is active, due at its first occurrence, and reserves its name.
LEMMA CreateSets ==
  ASSUME TypeOK, NEW t \in Tasks, Create(t)
  PROVE  \E s \in Schedules :
           TaskBecomes(t, "active", s.kind, FirstDue(s), NoTime, TRUE)
<1>1. PICK s \in Schedules :
        task' = [task EXCEPT ![t] =
                  [state |-> "active", version |-> 1, kind |-> s.kind, onceAt |-> s.onceAt,
                   nextDue |-> FirstDue(s), missed |-> NoTime, nameReserved |-> TRUE,
                   scheduledIn |-> 1]]
  BY DEF Create
<1> DEFINE r == [state |-> "active", version |-> 1, kind |-> s.kind, onceAt |-> s.onceAt,
                 nextDue |-> FirstDue(s), missed |-> NoTime, nameReserved |-> TRUE,
                 scheduledIn |-> 1]
<1>2. 1 \in 0 .. MaxVersion /\ NoTime \in 0 .. Horizon
  BY ScheduleAssumption DEF ScheduleAssumption, NoTime
<1>3. s.kind \in {"once", "cron"} /\ s.onceAt \in 0 .. Horizon /\ FirstDue(s) \in 0 .. (Horizon + 1)
  BY FirstDueIsLater
<1>4. r \in Task /\ r.state = "active" /\ r.kind = s.kind /\ r.nextDue = FirstDue(s)
      /\ r.missed = NoTime /\ r.nameReserved = TRUE
  BY <1>2, <1>3 DEF Task, States
<1>5. task' = [task EXCEPT ![t] = r]
  BY <1>1
<1> QED BY <1>4, <1>5 DEF TaskBecomes, TaskSet

\* An edit of the details keeps the schedule.
LEMMA UpdateDetailsSets ==
  ASSUME TypeOK, NEW t \in Tasks, UpdateDetails(t)
  PROVE  TaskBecomes(t, task[t].state, task[t].kind, task[t].nextDue, task[t].missed, task[t].nameReserved)
<1> DEFINE r == [task[t] EXCEPT !.version = task[t].version + 1]
<1>1. task[t] \in Task /\ task[t].version + 1 \in 0 .. MaxVersion
  BY Types, Constants DEF UpdateDetails
<1>2. TaskSet(t, r, task[t].state, task[t].kind, task[t].nextDue, task[t].missed, task[t].nameReserved)
  BY <1>1 DEF UpdateDetails, TaskSet, Task, TypeOK
<1> QED BY <1>2 DEF TaskBecomes

\* A new schedule keeps the state and the missed time, and is due at its first
\* occurrence.
LEMMA UpdateScheduleSets ==
  ASSUME TypeOK, NEW t \in Tasks, UpdateSchedule(t)
  PROVE  \E s \in Schedules :
           TaskBecomes(t, task[t].state, s.kind, FirstDue(s), task[t].missed, task[t].nameReserved)
<1>1. PICK s \in Schedules :
        task' = [task EXCEPT ![t] =
                  [@ EXCEPT !.version = task[t].version + 1, !.kind = s.kind, !.onceAt = s.onceAt,
                            !.nextDue = FirstDue(s), !.scheduledIn = task[t].version + 1]]
  BY DEF UpdateSchedule
<1> DEFINE r == [task[t] EXCEPT !.version = task[t].version + 1, !.kind = s.kind, !.onceAt = s.onceAt,
                                !.nextDue = FirstDue(s), !.scheduledIn = task[t].version + 1]
<1>2. task[t] \in Task /\ task[t].version + 1 \in 0 .. MaxVersion
  BY Types, Constants DEF UpdateSchedule
<1>3. r \in Task /\ r.state = task[t].state /\ r.kind = s.kind /\ r.nextDue = FirstDue(s)
      /\ r.missed = task[t].missed /\ r.nameReserved = task[t].nameReserved
  BY <1>2, FirstDueIsLater DEF Task
<1>4. task' = [task EXCEPT ![t] = r]
  BY <1>1
<1> QED BY <1>3, <1>4 DEF TaskBecomes, TaskSet

\* A paused task is due at no time, and keeps its missed one.
LEMMA PauseSets ==
  ASSUME TypeOK, NEW t \in Tasks, Pause(t)
  PROVE  TaskBecomes(t, "paused", task[t].kind, NoTime, task[t].missed, TRUE)
<1> DEFINE r == [task[t] EXCEPT !.state = "paused", !.version = task[t].version + 1, !.nextDue = NoTime,
                                !.nameReserved = TRUE]
<1>1. task[t] \in Task /\ task[t].version + 1 \in 0 .. MaxVersion /\ NoTime \in 0 .. (Horizon + 1)
  BY Types, Constants DEF Pause, NoTime
<1>2. TaskSet(t, r, "paused", task[t].kind, NoTime, task[t].missed, TRUE)
  BY <1>1 DEF Pause, TaskSet, Task, TypeOK, States
<1> QED BY <1>2 DEF TaskBecomes

\* A deleted task keeps its name as long as its run is processing.
LEMMA DeleteSets ==
  ASSUME TypeOK, NEW t \in Tasks, Delete(t)
  PROVE  TaskBecomes(t, "deleted", task[t].kind, NoTime, task[t].missed, RunsIn(t, {"processing"}) # {})
<1> DEFINE held == RunsIn(t, {"processing"}) # {}
           r == [task[t] EXCEPT !.state = "deleted", !.version = task[t].version + 1, !.nextDue = NoTime,
                                !.nameReserved = held]
<1>1. task[t] \in Task /\ task[t].version + 1 \in 0 .. MaxVersion /\ NoTime \in 0 .. (Horizon + 1)
  BY Types, Constants DEF Delete, NoTime
<1>2. task' = [task EXCEPT ![t] = r]
  BY DEF Delete
<1>3. held \in BOOLEAN
  OBVIOUS
<1> HIDE DEF held
<1>4. r \in Task /\ r.state = "deleted" /\ r.kind = task[t].kind /\ r.nextDue = NoTime
      /\ r.missed = task[t].missed /\ r.nameReserved = held
  BY <1>1, <1>3 DEF Task, States
<1>5. TaskBecomes(t, "deleted", task[t].kind, NoTime, task[t].missed, held)
  BY <1>2, <1>4 DEF TaskBecomes, TaskSet
<1> QED BY <1>5 DEF held

\* A resumed task is due at a future time.
LEMMA ResumeSets ==
  ASSUME TypeOK, NEW t \in Tasks, Resume(t)
  PROVE  \E due \in 0 .. (Horizon + 1) :
           due > now /\ TaskBecomes(t, "active", task[t].kind, due, task[t].missed, TRUE)
<1> DEFINE due == IF task[t].kind = "once" THEN task[t].onceAt ELSE NextCron(now)
           r == [task[t] EXCEPT !.state = "active", !.version = task[t].version + 1, !.nameReserved = TRUE,
                                !.nextDue = due]
<1>1. task[t] \in Task /\ task[t].version + 1 \in 0 .. MaxVersion
  BY Types, Constants DEF Resume
<1>2. now \in Nat /\ now <= Horizon /\ Horizon \in Nat /\ task[t].onceAt \in 0 .. Horizon
  BY Constants, Types
<1>3. due \in 0 .. (Horizon + 1) /\ due > now
  BY <1>2 DEF Resume, NextCron
<1>4. task' = [task EXCEPT ![t] = r]
  BY DEF Resume
<1> HIDE DEF due
<1>5. r \in Task /\ r.state = "active" /\ r.kind = task[t].kind /\ r.nextDue = due
      /\ r.missed = task[t].missed /\ r.nameReserved = TRUE
  BY <1>1, <1>3 DEF Task, States
<1> QED BY <1>3, <1>4, <1>5 DEF TaskBecomes, TaskSet

\* A resumed once task whose run is queued again is in flight.
LEMMA ResumeRebindingSets ==
  ASSUME TypeOK, NEW t \in Tasks, ResumeRebinding(t)
  PROVE  TaskBecomes(t, "in_flight", task[t].kind, NoTime, task[t].missed, TRUE)
<1> DEFINE r == [task[t] EXCEPT !.state = "in_flight", !.version = task[t].version + 1, !.nameReserved = TRUE,
                                !.nextDue = NoTime]
<1>1. task[t] \in Task /\ task[t].version + 1 \in 0 .. MaxVersion /\ NoTime \in 0 .. (Horizon + 1)
  BY Types, Constants DEF ResumeRebinding, NoTime
<1>2. task' = [task EXCEPT ![t] = r]
  BY DEF ResumeRebinding
<1>3. r \in Task /\ r.state = "in_flight" /\ r.kind = task[t].kind /\ r.nextDue = NoTime
      /\ r.missed = task[t].missed /\ r.nameReserved = TRUE
  BY <1>1 DEF Task, States
<1> QED BY <1>2, <1>3 DEF TaskBecomes, TaskSet

\* The end of a run completes a once task that was not deleted, and frees the name then
\* and when the task was deleted.
LEMMA EndedSets ==
  ASSUME TypeOK, NEW t \in Tasks, task' = Ended(t)
  PROVE  LET once == task[t].kind = "once" /\ task[t].state # "deleted" IN
         TaskBecomes(t, IF once THEN "completed" ELSE task[t].state, task[t].kind, task[t].nextDue,
                     task[t].missed, ~(once \/ task[t].state = "deleted"))
<1> DEFINE once == task[t].kind = "once" /\ task[t].state # "deleted"
           state == IF once THEN "completed" ELSE task[t].state
           reserved == ~(once \/ task[t].state = "deleted")
           r == [task[t] EXCEPT !.state = state, !.nameReserved = reserved]
<1>1. task[t] \in Task /\ state \in States /\ reserved \in BOOLEAN
  BY Types DEF States
<1>2. task' = [task EXCEPT ![t] = r]
  BY DEF Ended
<1> HIDE DEF state, reserved
<1>3. r \in Task /\ r.state = state /\ r.kind = task[t].kind /\ r.nextDue = task[t].nextDue
      /\ r.missed = task[t].missed /\ r.nameReserved = reserved
  BY <1>1 DEF Task
<1>4. TaskBecomes(t, state, task[t].kind, task[t].nextDue, task[t].missed, reserved)
  BY <1>2, <1>3 DEF TaskBecomes, TaskSet
<1> QED BY <1>4 DEF state, reserved

-------------------------------------------------------------------------------
(***************************************************************************)
(* What the actions make of the runs and of the polls.                     *)
(***************************************************************************)

\* pause and delete cancel the queued runs of the task and touch no other.
LEMMA QueuedCancelledSets ==
  ASSUME TypeOK, NEW t \in Tasks, run' = QueuedCancelled(t)
  PROVE  /\ run' \in [Tasks -> [Times -> Run]]
         /\ \A u \in Tasks : u # t => run'[u] = run[u]
         /\ \A o \in Times :
              /\ run[t][o].status = "queued" => run'[t][o].status = "cancelled"
              /\ run[t][o].status # "queued" => run'[t][o].status = run[t][o].status
              /\ run'[t][o].claim = run[t][o].claim
<1> DEFINE row == [o \in Times |->
                     IF run[t][o].status = "queued" THEN [run[t][o] EXCEPT !.status = "cancelled"]
                                                    ELSE run[t][o]]
<1>1. run \in [Tasks -> [Times -> Run]]
  BY DEF TypeOK
<1>2. run' = [run EXCEPT ![t] = row]
  BY DEF QueuedCancelled
<1>3. ASSUME NEW o \in Times
      PROVE  /\ row[o] \in Run /\ row[o].claim = run[t][o].claim
             /\ run[t][o].status = "queued" => row[o].status = "cancelled"
             /\ run[t][o].status # "queued" => row[o].status = run[t][o].status
  <2>1. run[t][o] \in Run
    BY <1>1
  <2>2. [run[t][o] EXCEPT !.status = "cancelled"] \in Run
    BY <2>1 DEF Run, RunStatuses
  <2> QED BY <2>1, <2>2 DEF Run
<1>4. row \in [Times -> Run]
  BY <1>3
<1> HIDE DEF row
<1>5. run'[t] = row /\ run' \in [Tasks -> [Times -> Run]] /\ \A u \in Tasks : u # t => run'[u] = run[u]
  BY <1>1, <1>2, <1>4
<1> QED BY <1>3, <1>5

\* A step that writes one run.
LEMMA RunSet ==
  ASSUME TypeOK, NEW t \in Tasks, NEW o \in Times, NEW r \in Run, run' = [run EXCEPT ![t][o] = r]
  PROVE  /\ run' \in [Tasks -> [Times -> Run]]
         /\ \A u \in Tasks : u # t => run'[u] = run[u]
         /\ run'[t][o] = r
         /\ \A q \in Times : q # o => run'[t][q] = run[t][q]
<1>1. run \in [Tasks -> [Times -> Run]]
  BY DEF TypeOK
<1> QED BY <1>1

\* The first due of a poll is one, and the others stay in their order without it.
LEMMA PollsTail ==
  ASSUME TypeOK, NEW p \in Pollers, polls[p] # <<>>, polls' = [polls EXCEPT ![p] = Tail(polls[p])]
  PROVE  /\ polls' \in [Pollers -> Seq(Due)] /\ Head(polls[p]) \in Due
         /\ Head(polls[p]) = polls[p][1] /\ 1 \in DOMAIN polls[p]
         /\ \A q \in Pollers : q # p => polls'[q] = polls[q]
         /\ \A i \in DOMAIN polls'[p] : i + 1 \in DOMAIN polls[p] /\ polls'[p][i] = polls[p][i + 1]
         /\ DOMAIN polls'[p] \subseteq Nat \ {0}
<1>1. polls[p] \in Seq(Due) /\ polls \in [Pollers -> Seq(Due)]
  BY DEF TypeOK
<1>2. Tail(polls[p]) \in Seq(Due) /\ Head(polls[p]) \in Due /\ Head(polls[p]) = polls[p][1]
      /\ 1 \in DOMAIN polls[p]
  BY <1>1
<1>3. \A i \in DOMAIN Tail(polls[p]) : i + 1 \in DOMAIN polls[p] /\ Tail(polls[p])[i] = polls[p][i + 1]
  BY <1>1
<1>4. DOMAIN Tail(polls[p]) \subseteq Nat \ {0}
  BY <1>1, <1>2
<1>5. polls'[p] = Tail(polls[p])
  BY <1>1
<1> QED BY <1>1, <1>2, <1>3, <1>4, <1>5

-------------------------------------------------------------------------------
(***************************************************************************)
(* The life of a task: every action keeps it.                              *)
(***************************************************************************)

\* A step that writes one task and keeps all runs.
LEMMA TaskStepKeepsLife ==
  ASSUME LifeInv, NEW t \in Tasks, NEW state, NEW kind, NEW nextDue, NEW missed, NEW reserved,
         TaskBecomes(t, state, kind, nextDue, missed, reserved),
         UNCHANGED <<now, run, invoked>>, polls' \in [Pollers -> Seq(Due)],
         \A o \in Times : run[t][o].status = "queued" => state \in {"active", "in_flight"},
         \A o \in Times : InRun(t, o) => state \notin {"none", "completed"},
         state = "in_flight" => kind = "once" /\ \E o \in Times : InRun(t, o),
         state \in Live => reserved,
         \A o \in Times : run[t][o].status = "processing" => reserved,
         reserved => task[t].nameReserved \/ \A u \in Tasks : task[u].nameReserved => Name[u] # Name[t]
  PROVE  LifeInv'
<1>1. TypeOK
  BY DEF LifeInv
<1>2. /\ task' \in [Tasks -> Task]
      /\ task'[t].state = state /\ task'[t].kind = kind /\ task'[t].nameReserved = reserved
      /\ \A u \in Tasks : u # t => task'[u] = task[u]
  BY <1>1, TaskBecame
<1>3. TypeOK'
  BY <1>1, <1>2 DEF TypeOK
<1>4. OnlyTask(t)
  BY <1>2 DEF OnlyTask
<1>5. TaskLife(t)'
  BY <1>2, RunsKept
<1> QED BY <1>2, <1>3, <1>4, <1>5, OneTaskChanges

\* create: the task was new, so it has no run, and its name was free.
LEMMA CreateKeepsLife ==
  ASSUME LifeInv, NEW t \in Tasks, Create(t)
  PROVE  LifeInv'
<1>1. TypeOK /\ TaskLife(t)
  BY DEF LifeInv
<1>2. PICK s \in Schedules : TaskBecomes(t, "active", s.kind, FirstDue(s), NoTime, TRUE)
  BY <1>1, CreateSets
<1>3. UNCHANGED <<now, run, invoked>> /\ polls' \in [Pollers -> Seq(Due)]
  BY <1>1 DEF Create, TypeOK
<1>4. \A o \in Times : ~InRun(t, o)
  BY <1>1 DEF Create, TaskLife, StateMatchesRuns
<1>5. \A u \in Tasks : task[u].nameReserved => Name[u] # Name[t]
  BY DEF Create
<1>6. \A o \in Times : run[t][o].status \notin {"queued", "processing"}
  BY <1>4 DEF InRun, ActiveStatuses
<1> QED BY <1>2, <1>3, <1>4, <1>5, <1>6, TaskStepKeepsLife

\* update: neither the state nor the name changes, and an active or paused task may get
\* another kind of schedule.
LEMMA UpdateKeepsLife ==
  ASSUME LifeInv, NEW t \in Tasks, UpdateDetails(t) \/ UpdateSchedule(t)
  PROVE  LifeInv'
<1>1. TypeOK /\ TaskLife(t)
  BY DEF LifeInv
<1>2. PICK kind, nextDue :
        TaskBecomes(t, task[t].state, kind, nextDue, task[t].missed, task[t].nameReserved)
  BY <1>1, UpdateDetailsSets, UpdateScheduleSets
<1>3. UNCHANGED <<now, run, invoked>> /\ polls' \in [Pollers -> Seq(Due)]
      /\ task[t].state \in {"active", "paused"}
  BY <1>1 DEF UpdateDetails, UpdateSchedule, TypeOK
<1> QED BY <1>1, <1>2, <1>3, TaskStepKeepsLife DEF TaskLife, StateMatchesRuns, HoldsName

\* resume: the paused task held its name, and becomes active.
LEMMA ResumeKeepsLife ==
  ASSUME LifeInv, NEW t \in Tasks, Resume(t)
  PROVE  LifeInv'
<1>1. TypeOK /\ TaskLife(t)
  BY DEF LifeInv
<1>2. PICK due : TaskBecomes(t, "active", task[t].kind, due, task[t].missed, TRUE)
  BY <1>1, ResumeSets
<1>3. UNCHANGED <<now, run, invoked>> /\ polls' \in [Pollers -> Seq(Due)]
      /\ task[t].state = "paused"
  BY <1>1 DEF Resume, TypeOK
<1>4. task[t].nameReserved
  BY <1>1, <1>3 DEF TaskLife, HoldsName, Live
<1>5. \A o \in Times : run[t][o].status = "queued" => "active" \in {"active", "in_flight"}
  OBVIOUS
<1>6. \A o \in Times : InRun(t, o) => "active" \notin {"none", "completed"}
  OBVIOUS
<1>7. "active" # "in_flight"
  OBVIOUS
<1> QED BY <1>2, <1>3, <1>4, <1>5, <1>6, <1>7, TaskStepKeepsLife
\* pause and delete cancel what is queued, so that no queued run is left behind with a
\* task it cannot be claimed for; a processing run keeps the name of the task.
LEMMA PauseAndDeleteKeepLife ==
  ASSUME LifeInv, NEW t \in Tasks, Pause(t) \/ Delete(t)
  PROVE  LifeInv'
<1>1. TypeOK /\ TaskLife(t) /\ run' = QueuedCancelled(t) /\ task[t].state \in Live
      /\ UNCHANGED <<now, polls, invoked>>
  BY DEF LifeInv, Pause, Delete
<1>2. task[t].nameReserved
  BY <1>1 DEF TaskLife, HoldsName
<1>3. PICK state, reserved :
        /\ TaskBecomes(t, state, task[t].kind, NoTime, task[t].missed, reserved)
        /\ \/ state = "paused" /\ reserved = TRUE
           \/ state = "deleted" /\ reserved = (RunsIn(t, {"processing"}) # {})
  BY <1>1, PauseSets, DeleteSets
<1>4. /\ task' \in [Tasks -> Task] /\ task'[t].state = state /\ task'[t].nameReserved = reserved
      /\ \A u \in Tasks : u # t => task'[u] = task[u]
  BY <1>1, <1>3, TaskBecame
<1>5. /\ run' \in [Tasks -> [Times -> Run]]
      /\ \A u \in Tasks : u # t => run'[u] = run[u]
      /\ \A o \in Times :
           /\ run[t][o].status = "queued" => run'[t][o].status = "cancelled"
           /\ run[t][o].status # "queued" => run'[t][o].status = run[t][o].status
           /\ run'[t][o].claim = run[t][o].claim
  BY <1>1, QueuedCancelledSets
<1>6. TypeOK' /\ OnlyTask(t)
  BY <1>1, <1>4, <1>5 DEF TypeOK, OnlyTask
<1>7. TaskLife(t)'
  <2>1. UnclaimedUninvoked(t)'
    BY <1>1, <1>5 DEF TaskLife, UnclaimedUninvoked
  <2>2. \A o \in Times : InRun(t, o)' => run[t][o].status = "processing" /\ InRun(t, o)
                                         /\ run'[t][o].status = "processing"
    BY <1>5 DEF InRun, ActiveStatuses
  <2>3. OneActive(t)'
    BY <1>1, <2>2 DEF TaskLife, OneActive
  <2>4. \A o \in Times : run'[t][o].status # "queued"
    BY <1>5
  <2>5. StateMatchesRuns(t)'
    BY <1>3, <1>4, <2>4 DEF StateMatchesRuns
  <2>6. ASSUME NEW o \in Times, run'[t][o].status = "processing" PROVE reserved
    <3>1. run[t][o].status = "processing"
      BY <1>5, <2>6
    <3>2. RunsIn(t, {"processing"}) # {}
      BY <3>1 DEF RunsIn
    <3> QED BY <1>3, <3>2
  <2>7. HoldsName(t)'
    BY <1>3, <1>4, <2>6 DEF HoldsName, Live
  <2> QED BY <2>1, <2>3, <2>5, <2>7 DEF TaskLife
<1> QED BY <1>2, <1>6, <1>7, OneTaskChanges

\* resume of a once task: the one run that is active afterwards is the one queued again,
\* which was cancelled before it was claimed.
LEMMA ResumeRebindingKeepsLife ==
  ASSUME LifeInv, NEW t \in Tasks, ResumeRebinding(t)
  PROVE  LifeInv'
<1>1. TaskLife(t) /\ task[t].state = "paused" /\ task[t].kind = "once"
      /\ RunsIn(t, ActiveStatuses) = {} /\ UNCHANGED <<now, polls, invoked>>
  BY DEF LifeInv, ResumeRebinding
<1> TypeOK
  BY DEF LifeInv
<1>2. task[t].nameReserved
  BY <1>1 DEF TaskLife, HoldsName, Live
<1>3. PICK o \in Times :
        /\ run[t][o].status = "cancelled"
        /\ run' = [run EXCEPT ![t][o] = [status |-> "queued", version |-> task[t].version + 1, claim |-> 0]]
  BY DEF ResumeRebinding, RunsIn
<1> DEFINE r == [status |-> "queued", version |-> task[t].version + 1, claim |-> 0]
<1>4. run[t][o].status = "cancelled" /\ r \in Run /\ r.status = "queued" /\ r.claim = 0
  <2>1. task[t].version + 1 \in 0 .. MaxVersion
    BY <1>1, Types, Constants DEF ResumeRebinding
  <2> QED BY <1>3, <2>1 DEF Run, RunStatuses
<1>5. run' = [run EXCEPT ![t][o] = r]
  BY <1>3
<1> HIDE DEF r
<1>6. /\ run' \in [Tasks -> [Times -> Run]] /\ \A u \in Tasks : u # t => run'[u] = run[u]
      /\ run'[t][o] = r /\ \A q \in Times : q # o => run'[t][q] = run[t][q]
  BY <1>4, <1>5, RunSet
<1>7. /\ task' \in [Tasks -> Task] /\ task'[t].state = "in_flight" /\ task'[t].kind = task[t].kind
      /\ task'[t].nameReserved = TRUE /\ \A u \in Tasks : u # t => task'[u] = task[u]
  <2>1. PICK state, kind, reserved :
          /\ TaskBecomes(t, state, kind, NoTime, task[t].missed, reserved)
          /\ state = "in_flight" /\ kind = task[t].kind /\ reserved = TRUE
    BY ResumeRebindingSets
  <2> QED BY <2>1, TaskBecame
<1>8. TypeOK' /\ OnlyTask(t)
  BY <1>1, <1>6, <1>7 DEF TypeOK, OnlyTask
<1>9. TaskLife(t)'
  <2>1. \A q \in Times : ~InRun(t, q)
    BY <1>1 DEF RunsIn, InRun
  <2>2. \A q \in Times : InRun(t, q)' <=> q = o
    BY <1>4, <1>6, <2>1 DEF InRun, ActiveStatuses
  <2>3. UnclaimedUninvoked(t)'
    BY <1>1, <1>4, <1>6 DEF TaskLife, UnclaimedUninvoked
  <2>4. OneActive(t)'
    BY <2>2 DEF OneActive
  <2>5. StateMatchesRuns(t)'
    BY <1>1, <1>4, <1>7, <2>2 DEF StateMatchesRuns
  <2>6. HoldsName(t)'
    BY <1>7 DEF HoldsName
  <2> QED BY <2>3, <2>4, <2>5, <2>6 DEF TaskLife
<1> QED BY <1>2, <1>8, <1>9, OneTaskChanges

\* claimNext takes a queued run that was never claimed.
LEMMA ClaimKeepsLife ==
  ASSUME LifeInv, NEW t \in Tasks, NEW o \in Times, Claim(t, o)
  PROVE  LifeInv'
<1>1. TypeOK /\ TaskLife(t) /\ run[t][o].status = "queued" /\ task[t].state \in {"active", "in_flight"}
      /\ UNCHANGED <<now, task, polls>>
  BY DEF LifeInv, Claim
<1> DEFINE r == [run[t][o] EXCEPT !.status = "processing", !.claim = run[t][o].claim + 1]
<1>2. invoked[t][o] = 0 /\ run[t][o].claim = 0 /\ run[t][o] \in Run
  BY <1>1, Types DEF TaskLife, UnclaimedUninvoked
<1>3. r \in Run /\ r.status = "processing"
  <2>1. run[t][o].claim + 1 \in {0, 1}
    BY <1>2
  <2> QED BY <1>2, <2>1 DEF Run, RunStatuses
<1>4. run' = [run EXCEPT ![t][o] = r] /\ invoked' = [invoked EXCEPT ![t][o] = @ + 1]
  BY DEF Claim
<1> HIDE DEF r
<1>5. /\ run' \in [Tasks -> [Times -> Run]] /\ \A u \in Tasks : u # t => run'[u] = run[u]
      /\ run'[t][o] = r /\ \A q \in Times : q # o => run'[t][q] = run[t][q]
  BY <1>1, <1>3, <1>4, RunSet
<1>6. invoked \in [Tasks -> [Times -> Nat]]
  BY <1>1 DEF TypeOK
<1>7. /\ invoked' \in [Tasks -> [Times -> Nat]] /\ \A u \in Tasks : u # t => invoked'[u] = invoked[u]
      /\ invoked'[t][o] = 1 /\ \A q \in Times : q # o => invoked'[t][q] = invoked[t][q]
  BY <1>2, <1>4, <1>6
<1>8. TypeOK' /\ OnlyTask(t)
  BY <1>1, <1>5, <1>7 DEF TypeOK, OnlyTask
<1>9. TaskLife(t)'
  <2>1. \A q \in Times : InRun(t, q)' <=> InRun(t, q)
    BY <1>1, <1>3, <1>5 DEF InRun, ActiveStatuses
  <2>2. UnclaimedUninvoked(t)'
    BY <1>1, <1>3, <1>5, <1>7 DEF TaskLife, UnclaimedUninvoked
  <2>3. OneActive(t)'
    BY <1>1, <2>1 DEF TaskLife, OneActive
  <2>4. StateMatchesRuns(t)'
    BY <1>1, <1>3, <1>5, <2>1 DEF TaskLife, StateMatchesRuns
  <2>5. task[t].nameReserved
    BY <1>1 DEF TaskLife, HoldsName, Live
  <2>6. HoldsName(t)'
    BY <1>1, <2>5 DEF HoldsName
  <2> QED BY <2>2, <2>3, <2>4, <2>6 DEF TaskLife
<1>10. task'[t].nameReserved => task[t].nameReserved
  BY <1>1
<1> QED BY <1>8, <1>9, <1>10, OneTaskChanges

\* finish and recoverExpired end the only active run of the task; a task that stays
\* reserved is a cron task that held its name before.
LEMMA EndKeepsLife ==
  ASSUME LifeInv, NEW t \in Tasks, NEW o \in Times, Finish(t, o) \/ RecoverExpired(t, o)
  PROVE  LifeInv'
<1> TypeOK
  BY DEF LifeInv
<1>1. TaskLife(t) /\ run[t][o].status = "processing" /\ UNCHANGED <<now, polls, invoked>>
  BY DEF LifeInv, Finish, RecoverExpired
<1>2. PICK outcome \in {"completed", "failed"} : run' = [run EXCEPT ![t][o].status = outcome]
  BY DEF Finish, RecoverExpired
<1> DEFINE r == [run[t][o] EXCEPT !.status = outcome]
<1>3. r \in Run /\ r.status = outcome
  BY Types DEF Run, RunStatuses
<1>4. run' = [run EXCEPT ![t][o] = r]
  BY <1>2
<1> HIDE DEF r
<1>5. /\ run' \in [Tasks -> [Times -> Run]] /\ \A u \in Tasks : u # t => run'[u] = run[u]
      /\ run'[t][o] = r /\ \A q \in Times : q # o => run'[t][q] = run[t][q]
  BY <1>3, <1>4, RunSet
<1>6. PICK state, kind, nextDue, missed, reserved :
        /\ TaskBecomes(t, state, kind, nextDue, missed, reserved)
        /\ kind = task[t].kind
        /\ reserved => kind # "once" /\ task[t].state # "deleted"
        /\ state = "in_flight" => task[t].state = "in_flight" /\ kind # "once"
        /\ state \in Live => reserved
  <2> DEFINE once == task[t].kind = "once" /\ task[t].state # "deleted"
             ended == IF once THEN "completed" ELSE task[t].state
             held == ~(once \/ task[t].state = "deleted")
  <2>1. task' = Ended(t)
    BY DEF Finish, RecoverExpired
  <2>2. TaskBecomes(t, ended, task[t].kind, task[t].nextDue, task[t].missed, held)
    BY <2>1, EndedSets
  <2>3. /\ held => task[t].kind # "once" /\ task[t].state # "deleted"
        /\ ended = "in_flight" => task[t].state = "in_flight" /\ task[t].kind # "once"
        /\ ended \in Live => held
    BY DEF Live
  <2> HIDE DEF ended, held
  <2> QED BY <2>2, <2>3
<1>7. /\ task' \in [Tasks -> Task] /\ task'[t].state = state /\ task'[t].kind = kind
      /\ task'[t].nameReserved = reserved /\ \A u \in Tasks : u # t => task'[u] = task[u]
  BY <1>6, TaskBecame
<1>8. TypeOK' /\ OnlyTask(t)
  BY <1>1, <1>5, <1>7 DEF TypeOK, OnlyTask
<1>9. \A q \in Times : ~InRun(t, q)'
  BY <1>1, <1>3, <1>5 DEF TaskLife, OneActive, InRun, ActiveStatuses
<1>10. TaskLife(t)'
  <2>1. UnclaimedUninvoked(t)'
    BY <1>1, <1>3, <1>5 DEF TaskLife, UnclaimedUninvoked
  <2>2. OneActive(t)'
    BY <1>9 DEF OneActive
  <2>3. \A q \in Times : run'[t][q].status \notin {"queued", "processing"}
    BY <1>9 DEF InRun, ActiveStatuses
  <2>4. task[t].state = "in_flight" => task[t].kind = "once"
    BY <1>1 DEF TaskLife, StateMatchesRuns
  <2>5. state # "in_flight"
    BY <1>6, <2>4
  <2>6. StateMatchesRuns(t)'
    BY <1>7, <1>9, <2>3, <2>5 DEF StateMatchesRuns
  <2>7. HoldsName(t)'
    BY <1>6, <1>7, <2>3 DEF HoldsName
  <2> QED BY <2>1, <2>2, <2>6, <2>7 DEF TaskLife
<1>11. task[t].nameReserved
  BY <1>1 DEF TaskLife, HoldsName
<1> QED BY <1>8, <1>10, <1>11, OneTaskChanges

-------------------------------------------------------------------------------
(***************************************************************************)
(* The dispatcher.                                                         *)
(***************************************************************************)

\* What a due carries.
LEMMA DueTypes ==
  ASSUME NEW d \in Due
  PROVE  /\ d.task \in Tasks /\ d.expected \in 1 .. (Horizon + 1) /\ d.for \in Times
         /\ d.next \in 0 .. (Horizon + 1)
  BY DEF Due

\* What a due that is listed carries, and that a member of Due comes of it.
LEMMA DueOccurrenceType ==
  ASSUME TypeOK, NEW t \in Tasks, HasOccurrence(t)
  PROVE  /\ DueOccurrence(t) \in Due
         /\ DueOccurrence(t).task = t /\ DueOccurrence(t).expected = task[t].nextDue
         /\ task[t].nextDue > now => /\ task[t].missed # NoTime
                                     /\ DueOccurrence(t).for = task[t].missed
                                     /\ DueOccurrence(t).next = task[t].nextDue
         /\ task[t].nextDue <= now => /\ task[t].nextDue <= DueOccurrence(t).for
                                      /\ DueOccurrence(t).for <= now
                                      /\ DueOccurrence(t).next # NoTime =>
                                           now < DueOccurrence(t).next
<1> DEFINE for == CASE task[t].nextDue > now -> task[t].missed
                    [] task[t].nextDue <= now /\ task[t].kind = "once" -> task[t].nextDue
                    [] task[t].nextDue <= now /\ task[t].kind = "cron" -> now
           next == CASE task[t].nextDue > now -> task[t].nextDue
                     [] task[t].nextDue <= now /\ task[t].kind = "once" -> NoTime
                     [] task[t].nextDue <= now /\ task[t].kind = "cron" -> NextCron(now)
<1>1. /\ now \in Nat /\ 1 <= now /\ now <= Horizon /\ Horizon \in Nat
      /\ task[t].nextDue \in 0 .. (Horizon + 1) /\ task[t].missed \in 0 .. Horizon
      /\ task[t].kind \in {"once", "cron"} /\ Times = 1 .. Horizon
  BY Types, Constants DEF Times
<1>2. task[t].nextDue # 0 /\ (task[t].nextDue <= now \/ task[t].missed # 0)
  BY DEF HasOccurrence, NoTime
<1>3. CASE task[t].nextDue > now
  <2>1. for = task[t].missed /\ next = task[t].nextDue
    BY <1>1, <1>3
  <2> HIDE DEF for, next
  <2>2. for \in Times /\ next \in 0 .. (Horizon + 1) /\ task[t].nextDue \in 1 .. (Horizon + 1)
    BY <1>1, <1>2, <1>3, <2>1
  <2>3. [task |-> t, expected |-> task[t].nextDue, for |-> for, next |-> next] \in Due
    BY <2>2 DEF Due
  <2>4. DueOccurrence(t) = [task |-> t, expected |-> task[t].nextDue, for |-> for, next |-> next]
    BY DEF DueOccurrence, for, next
  <2>5. ~ (task[t].nextDue <= now) /\ task[t].missed # NoTime
    BY <1>1, <1>2, <1>3 DEF NoTime
  <2> QED BY <2>1, <2>3, <2>4, <2>5
<1>4. CASE task[t].nextDue <= now
  <2>1. /\ for \in {task[t].nextDue, now}
        /\ next \in {NoTime, now + 1}
    BY <1>1, <1>4 DEF NextCron
  <2> HIDE DEF for, next
  <2>2. /\ for \in Times /\ next \in 0 .. (Horizon + 1) /\ task[t].nextDue \in 1 .. (Horizon + 1)
        /\ task[t].nextDue <= for /\ for <= now /\ (next # NoTime => now < next)
        /\ ~ (task[t].nextDue > now)
    BY <1>1, <1>2, <1>4, <2>1 DEF NoTime
  <2>3. [task |-> t, expected |-> task[t].nextDue, for |-> for, next |-> next] \in Due
    BY <2>2 DEF Due
  <2>4. DueOccurrence(t) = [task |-> t, expected |-> task[t].nextDue, for |-> for, next |-> next]
    BY DEF DueOccurrence, for, next
  <2> QED BY <2>2, <2>3, <2>4
<1> QED BY <1>1, <1>3, <1>4

\* poll: a poll lists every task at most once, and its dues are those of the tasks then.
LEMMA PollSets ==
  ASSUME TypeOK, NEW p \in Pollers, Poll(p)
  PROVE  /\ UNCHANGED <<now, task, run, invoked>> /\ polls' \in [Pollers -> Seq(Due)]
         /\ \A q \in Pollers : q # p => polls'[q] = polls[q]
         /\ \A i \in DOMAIN polls'[p] : \E t \in Tasks :
              /\ t \in Dispatchable /\ HasOccurrence(t) /\ polls'[p][i] = DueOccurrence(t)
         /\ \A i, j \in DOMAIN polls'[p] : i # j => polls'[p][i].task # polls'[p][j].task
<1> DEFINE listed == {t \in Dispatchable : HasOccurrence(t)}
<1>1. PICK order \in InDueOrder(listed) :
        polls' = [polls EXCEPT ![p] = [i \in DOMAIN order |-> DueOccurrence(order[i])]]
  BY DEF Poll
<1>2. \A t \in listed : t \in Tasks /\ t \in Dispatchable /\ HasOccurrence(t)
  BY DEF Dispatchable
<1>3. IsFiniteSet(listed)
  <2>1. listed \subseteq Tasks /\ IsFiniteSet(Tasks)
    BY <1>2, ScheduleAssumption DEF ScheduleAssumption
  <2> QED BY <2>1, FS_Subset
<1> HIDE DEF listed
<1> DEFINE n == Cardinality(listed)
<1>4. n \in Nat
  BY <1>3, FS_CardinalityType
<1> HIDE DEF n
<1>5. order \in [1 .. n -> listed] /\ \A i, j \in 1 .. n : i < j => DueBefore(order[i], order[j])
  BY DEF InDueOrder, n
<1>6. \A i, j \in 1 .. n : i # j => order[i] # order[j]
  <2>1. ASSUME NEW i \in 1 .. n, NEW j \in 1 .. n, i < j PROVE order[i] # order[j]
    <3>1. DueBefore(order[i], order[j]) /\ order[i] \in Tasks /\ order[j] \in Tasks
      BY <1>2, <1>5, <2>1
    <3>2. DueKey(order[i]) \in Nat /\ order[i] \in Nat
      BY <3>1, Types, Constants DEF DueKey
    <3> QED BY <3>1, <3>2 DEF DueBefore
  <2> QED BY <1>4, <2>1
<1> DEFINE dues == [i \in 1 .. n |-> DueOccurrence(order[i])]
<1>7. DOMAIN order = 1 .. n
  BY <1>5
<1>8. polls' = [polls EXCEPT ![p] = dues]
  BY <1>1, <1>7
<1>9. \A i \in 1 .. n : /\ order[i] \in Tasks /\ order[i] \in Dispatchable /\ HasOccurrence(order[i])
                        /\ dues[i] = DueOccurrence(order[i]) /\ dues[i] \in Due /\ dues[i].task = order[i]
  BY <1>2, <1>5, DueOccurrenceType
<1>10. dues \in [1 .. n -> Due]
  BY <1>9
<1>11. dues \in Seq(Due) /\ DOMAIN dues = 1 .. n
  BY <1>4, <1>10
<1> HIDE DEF dues
<1>12. polls \in [Pollers -> Seq(Due)]
  BY DEF TypeOK
<1>13. polls'[p] = dues /\ polls' \in [Pollers -> Seq(Due)] /\ \A q \in Pollers : q # p => polls'[q] = polls[q]
  BY <1>8, <1>11, <1>12
<1>14. UNCHANGED <<now, task, run, invoked>>
  BY DEF Poll
<1>15. ASSUME NEW i \in DOMAIN polls'[p]
       PROVE  \E t \in Tasks : t \in Dispatchable /\ HasOccurrence(t) /\ polls'[p][i] = DueOccurrence(t)
  BY <1>9, <1>11, <1>13
<1>16. \A i, j \in DOMAIN polls'[p] : i # j => polls'[p][i].task # polls'[p][j].task
  BY <1>6, <1>9, <1>11, <1>13
<1> QED BY <1>13, <1>14, <1>15, <1>16

\* createDue, active_run: the task stays active, its missed time is the later one.
LEMMA FoldDueSets ==
  ASSUME TypeOK, NEW p \in Pollers, FoldDue(p)
  PROVE  LET d == Head(polls[p])
             t == d.task IN
         /\ d \in Due /\ task[t].state = "active" /\ task[t].nextDue = d.expected
         /\ \E o \in Times : InRun(t, o)
         /\ TaskBecomes(t, "active", task[t].kind,
                        IF d.next # NoTime THEN d.next ELSE task[t].nextDue,
                        IF task[t].missed > d.for THEN task[t].missed ELSE d.for,
                        task[t].nameReserved)
<1> DEFINE d == Head(polls[p])
           t == d.task
           due == IF d.next # NoTime THEN d.next ELSE task[t].nextDue
           missed == IF task[t].missed > d.for THEN task[t].missed ELSE d.for
           r == [task[t] EXCEPT !.missed = missed, !.nextDue = due]
<1>1. polls[p] \in Seq(Due) /\ polls[p] # <<>>
  BY DEF TypeOK, FoldDue
<1>2. d \in Due
  BY <1>1
<1> task' = [task EXCEPT ![t] = r] /\ ~DueIsStale(d) /\ RunsIn(t, ActiveStatuses) # {}
  BY DEF FoldDue
<1> HIDE DEF d
<1>3. t \in Tasks /\ d.for \in Times /\ d.next \in 0 .. (Horizon + 1)
  BY <1>2, DueTypes
<1> HIDE DEF t
<1>4. task[t] \in Task /\ task[t].missed \in 0 .. Horizon /\ task[t].nextDue \in 0 .. (Horizon + 1)
  BY <1>3, Types
<1>5. due \in 0 .. (Horizon + 1) /\ missed \in 0 .. Horizon
  BY <1>3, <1>4 DEF Times
<1>6. task[t].state = "active" /\ task[t].nextDue = d.expected
  BY DEF DueIsStale, t
<1> HIDE DEF due, missed
<1>7. r \in Task /\ r.state = "active" /\ r.kind = task[t].kind /\ r.nextDue = due
      /\ r.missed = missed /\ r.nameReserved = task[t].nameReserved
  BY <1>4, <1>5, <1>6 DEF Task
<1>8. TaskBecomes(t, "active", task[t].kind, due, missed, task[t].nameReserved)
  BY <1>7 DEF TaskBecomes, TaskSet
<1>9. \E o \in Times : InRun(t, o)
  BY DEF RunsIn, InRun
<1> QED BY <1>2, <1>6, <1>8, <1>9 DEF d, t, due, missed

\* createDue, created: a once task is in flight then, a cron task is due again later, and
\* nothing is missed any more.
LEMMA CreateDueSets ==
  ASSUME TypeOK, NEW p \in Pollers, CreateDue(p)
  PROVE  LET d == Head(polls[p])
             t == d.task
             r == [status |-> "queued", version |-> task[t].version, claim |-> 0] IN
         /\ d \in Due /\ task[t].state = "active" /\ task[t].nextDue = d.expected
         /\ \A o \in Times : ~InRun(t, o)
         /\ \/ /\ run[t][d.for].status = "none" /\ r \in Run
               /\ run' = [run EXCEPT ![t][d.for] = r]
               /\ polls' = [polls EXCEPT ![p] = Tail(polls[p])]
               /\ TaskBecomes(t, IF task[t].kind = "once" THEN "in_flight" ELSE "active", task[t].kind,
                              IF task[t].kind = "once" THEN NoTime ELSE d.next, NoTime,
                              task[t].nameReserved)
            \/ UNCHANGED <<run, task>> /\ polls' = [polls EXCEPT ![p] = <<>>]
<1> DEFINE d == Head(polls[p])
           t == d.task
           state == IF task[t].kind = "once" THEN "in_flight" ELSE "active"
           due == IF task[t].kind = "once" THEN NoTime ELSE d.next
           q == [task[t] EXCEPT !.state = state, !.nextDue = due, !.missed = NoTime]
           r == [status |-> "queued", version |-> task[t].version, claim |-> 0]
<1>1. polls[p] \in Seq(Due) /\ polls[p] # <<>>
  BY DEF TypeOK, CreateDue
<1>2. d \in Due
  BY <1>1
<1>3. ~DueIsStale(d) /\ RunsIn(t, ActiveStatuses) = {}
  BY DEF CreateDue
<1>4. \/ /\ run[t][d.for].status = "none" /\ run' = [run EXCEPT ![t][d.for] = r]
         /\ task' = [task EXCEPT ![t] = q] /\ polls' = [polls EXCEPT ![p] = Tail(polls[p])]
      \/ UNCHANGED <<run, task>> /\ polls' = [polls EXCEPT ![p] = <<>>]
  BY DEF CreateDue
<1> HIDE DEF d
<1>5. t \in Tasks /\ d.for \in Times /\ d.next \in 0 .. (Horizon + 1)
  BY <1>2, DueTypes
<1>6. task[t].state = "active" /\ task[t].nextDue = d.expected
  BY <1>3 DEF DueIsStale
<1>7. \A o \in Times : ~InRun(t, o)
  BY <1>3 DEF RunsIn, InRun
<1> HIDE DEF t
<1>8. task[t] \in Task /\ task[t].version \in 0 .. MaxVersion /\ 0 \in 0 .. Horizon
  BY <1>5, Types, Constants
<1>9. state \in States /\ due \in 0 .. (Horizon + 1) /\ NoTime \in 0 .. Horizon
  BY <1>5, <1>8, Constants DEF States, NoTime
<1> HIDE DEF state, due
<1>10. q \in Task /\ q.state = state /\ q.kind = task[t].kind /\ q.nextDue = due
       /\ q.missed = NoTime /\ q.nameReserved = task[t].nameReserved
  BY <1>8, <1>9 DEF Task
<1>11. r \in Run
  BY <1>8 DEF Run, RunStatuses
<1>12. task' = [task EXCEPT ![t] = q] =>
         TaskBecomes(t, state, task[t].kind, due, NoTime, task[t].nameReserved)
  BY <1>10 DEF TaskBecomes, TaskSet
<1> HIDE DEF q, r
<1>13. \/ /\ run[t][d.for].status = "none" /\ r \in Run
          /\ run' = [run EXCEPT ![t][d.for] = r]
          /\ polls' = [polls EXCEPT ![p] = Tail(polls[p])]
          /\ TaskBecomes(t, state, task[t].kind, due, NoTime, task[t].nameReserved)
       \/ UNCHANGED <<run, task>> /\ polls' = [polls EXCEPT ![p] = <<>>]
  BY <1>4, <1>11, <1>12
<1> QED BY <1>2, <1>6, <1>7, <1>13 DEF d, t, r, state, due

\* poll, and a due that is stale: no task and no run changes.
LEMMA PollKeepsLife ==
  ASSUME LifeInv, NEW p \in Pollers, Poll(p) \/ IdlePoll(p) \/ SkipDue(p)
  PROVE  LifeInv'
<1> TypeOK
  BY DEF LifeInv
<1>1. UNCHANGED <<now, task, run, invoked>> /\ polls' \in [Pollers -> Seq(Due)]
  <2>1. CASE Poll(p)
    BY <2>1, PollSets
  <2>2. CASE IdlePoll(p)
    BY <2>2 DEF IdlePoll, vars, TypeOK
  <2>3. CASE SkipDue(p)
    BY <2>3, PollsTail DEF SkipDue
  <2> QED BY <2>1, <2>2, <2>3
<1>2. TypeOK'
  BY <1>1 DEF TypeOK
<1> QED BY <1>1, <1>2 DEF LifeInv, NamesUnique, TaskLife, UnclaimedUninvoked, OneActive, InRun,
                          StateMatchesRuns, HoldsName

\* createDue with an active run: the task stays active.
LEMMA FoldDueKeepsLife ==
  ASSUME LifeInv, NEW p \in Pollers, FoldDue(p)
  PROVE  LifeInv'
<1> TypeOK
  BY DEF LifeInv
<1>1. polls[p] # <<>> /\ polls' = [polls EXCEPT ![p] = Tail(polls[p])] /\ UNCHANGED <<now, run, invoked>>
  BY DEF FoldDue
<1>2. polls' \in [Pollers -> Seq(Due)]
  BY <1>1, PollsTail
<1>3. PICK t, nextDue, missed :
        /\ t \in Tasks
        /\ task[t].state = "active"
        /\ TaskBecomes(t, "active", task[t].kind, nextDue, missed, task[t].nameReserved)
  BY FoldDueSets, DueTypes
<1>4. TaskLife(t)
  BY <1>3 DEF LifeInv
<1>5. \A o \in Times : run[t][o].status = "processing" => task[t].nameReserved
  BY <1>4 DEF TaskLife, HoldsName
<1>6. "active" \in Live => task[t].nameReserved
  BY <1>3, <1>4 DEF TaskLife, HoldsName
<1>7. "active" \in {"active", "in_flight"} /\ "active" \notin {"none", "completed"} /\ "active" # "in_flight"
  OBVIOUS
<1> QED BY <1>1, <1>2, <1>3, <1>5, <1>6, <1>7, TaskStepKeepsLife

\* createDue: the run it creates is the only active one.
LEMMA CreateDueKeepsLife ==
  ASSUME LifeInv, NEW p \in Pollers, CreateDue(p)
  PROVE  LifeInv'
<1> TypeOK
  BY DEF LifeInv
<1> DEFINE d == Head(polls[p])
<1>1. UNCHANGED <<now, invoked>> /\ polls[p] # <<>> /\ polls \in [Pollers -> Seq(Due)]
  BY DEF CreateDue, TypeOK
<1>2. CASE ~UNCHANGED <<run, task>>
  <2>1. PICK t, o, r, state, kind, nextDue, reserved :
          /\ t \in Tasks /\ o \in Times /\ r \in Run
          /\ task[t].state = "active" /\ \A q \in Times : ~InRun(t, q)
          /\ run[t][o].status = "none" /\ run' = [run EXCEPT ![t][o] = r]
          /\ r.status = "queued" /\ r.claim = 0
          /\ TaskBecomes(t, state, kind, nextDue, NoTime, reserved)
          /\ state \in {"active", "in_flight"} /\ (state = "in_flight" => kind = "once")
          /\ reserved = task[t].nameReserved
    <3>1. PICK t \in Tasks, o \in Times : t = d.task /\ o = d.for
      BY CreateDueSets, DueTypes
    <3> DEFINE r == [status |-> "queued", version |-> task[t].version, claim |-> 0]
    <3>2. /\ task[t].state = "active" /\ \A q \in Times : ~InRun(t, q)
          /\ run[t][o].status = "none" /\ r \in Run
          /\ run' = [run EXCEPT ![t][o] = r]
          /\ TaskBecomes(t, IF task[t].kind = "once" THEN "in_flight" ELSE "active", task[t].kind,
                         IF task[t].kind = "once" THEN NoTime ELSE d.next, NoTime,
                         task[t].nameReserved)
      BY <1>2, <3>1, CreateDueSets
    <3>3. r.status = "queued" /\ r.claim = 0
      OBVIOUS
    <3> HIDE DEF r
    <3> DEFINE state == IF task[t].kind = "once" THEN "in_flight" ELSE "active"
               due == IF task[t].kind = "once" THEN NoTime ELSE d.next
    <3>4. state \in {"active", "in_flight"} /\ (state = "in_flight" => task[t].kind = "once")
      OBVIOUS
    <3>5. TaskBecomes(t, state, task[t].kind, due, NoTime, task[t].nameReserved)
      BY <3>2
    <3> HIDE DEF state, due
    <3> QED BY <3>2, <3>3, <3>4, <3>5
  <2>2. TaskLife(t) /\ polls' \in [Pollers -> Seq(Due)]
    <3>1. polls' = [polls EXCEPT ![p] = Tail(polls[p])]
      BY <1>2, CreateDueSets
    <3> QED BY <1>1, <2>1, <3>1, PollsTail DEF LifeInv
  <2>3. /\ run' \in [Tasks -> [Times -> Run]] /\ \A u \in Tasks : u # t => run'[u] = run[u]
        /\ run'[t][o] = r /\ \A q \in Times : q # o => run'[t][q] = run[t][q]
    BY <2>1, RunSet
  <2>4. /\ task' \in [Tasks -> Task] /\ task'[t].state = state /\ task'[t].kind = kind
        /\ task'[t].nameReserved = reserved /\ \A u \in Tasks : u # t => task'[u] = task[u]
    BY <2>1, TaskBecame
  <2>5. TypeOK' /\ OnlyTask(t)
    BY <1>1, <2>2, <2>3, <2>4 DEF TypeOK, OnlyTask
  <2>6. \A q \in Times : InRun(t, q)' <=> q = o
    BY <2>1, <2>3 DEF InRun, ActiveStatuses
  <2>7. UnclaimedUninvoked(t)'
    BY <1>1, <2>1, <2>2, <2>3 DEF TaskLife, UnclaimedUninvoked
  <2>8. OneActive(t)'
    BY <2>6 DEF OneActive
  <2>9. StateMatchesRuns(t)'
    BY <2>1, <2>4, <2>6 DEF StateMatchesRuns
  <2>10. reserved
    BY <2>1, <2>2 DEF TaskLife, HoldsName, Live
  <2>11. HoldsName(t)'
    BY <2>4, <2>10 DEF HoldsName
  <2>12. TaskLife(t)'
    BY <2>7, <2>8, <2>9, <2>11 DEF TaskLife
  <2>13. task[t].nameReserved
    BY <2>1, <2>10
  <2> QED BY <2>1, <2>5, <2>12, <2>13, OneTaskChanges
<1>3. polls' = [polls EXCEPT ![p] = <<>>] \/ polls' = [polls EXCEPT ![p] = Tail(polls[p])]
  BY CreateDueSets
<1>4. CASE UNCHANGED <<run, task>>
  <2>1. polls' \in [Pollers -> Seq(Due)]
    <3>1. CASE polls' = [polls EXCEPT ![p] = <<>>]
      BY <1>1, <3>1
    <3>2. CASE polls' = [polls EXCEPT ![p] = Tail(polls[p])]
      BY <1>1, <3>2, PollsTail
    <3> QED BY <1>3, <3>1, <3>2
  <2>2. TypeOK'
    BY <1>1, <1>4, <2>1 DEF TypeOK
  <2> QED BY <1>1, <1>4, <2>2 DEF LifeInv, NamesUnique, TaskLife, UnclaimedUninvoked, OneActive, InRun,
                                  StateMatchesRuns, HoldsName
<1> QED BY <1>2, <1>3, <1>4

-------------------------------------------------------------------------------
(***************************************************************************)
(* The invariant of a task's life, and what follows from it.               *)
(***************************************************************************)

\* Time touches no task and no run.
LEMMA IdleKeepsLife ==
  ASSUME LifeInv, Tick \/ UNCHANGED vars
  PROVE  LifeInv'
<1>1. UNCHANGED <<task, run, polls, invoked>> /\ now' \in Times
  BY Constants DEF Tick, vars, LifeInv, TypeOK, Times
<1>2. TypeOK'
  BY <1>1 DEF LifeInv, TypeOK
<1> QED BY <1>1, <1>2 DEF LifeInv, NamesUnique, TaskLife, UnclaimedUninvoked, OneActive, InRun,
                          StateMatchesRuns, HoldsName

\* Every step keeps the life of every task.
LEMMA StepKeepsLife ==
  ASSUME LifeInv, [Next]_vars
  PROVE  LifeInv'
<1>1. CASE Tick \/ UNCHANGED vars
  BY <1>1, IdleKeepsLife
<1>2. ASSUME NEW t \in Tasks, Member(t) PROVE LifeInv'
  BY <1>2, CreateKeepsLife, UpdateKeepsLife, PauseAndDeleteKeepLife, ResumeKeepsLife,
     ResumeRebindingKeepsLife DEF Member
<1>3. ASSUME NEW p \in Pollers, Poll(p) \/ IdlePoll(p) \/ Dispatch(p) PROVE LifeInv'
  BY <1>3, PollKeepsLife, FoldDueKeepsLife, CreateDueKeepsLife DEF Dispatch
<1>4. ASSUME NEW t \in Tasks, NEW o \in Times, Work(t, o) PROVE LifeInv'
  BY <1>4, ClaimKeepsLife, EndKeepsLife DEF Work
<1> QED BY <1>1, <1>2, <1>3, <1>4 DEF Next

\* At the start there is no task.
LEMMA InitLife ==
  ASSUME Init
  PROVE  LifeInv
<1>1. /\ task = [t \in Tasks |-> NoTask] /\ run = [t \in Tasks |-> [o \in Times |-> NoRun]]
      /\ polls = [p \in Pollers |-> <<>>] /\ invoked = [t \in Tasks |-> [o \in Times |-> 0]]
      /\ now \in Times
  BY ScheduleAssumption DEF Init, ScheduleAssumption, Times
<1>2. NoTask \in Task /\ NoTask.state = "none" /\ NoTask.nameReserved = FALSE
  BY Constants DEF NoTask, Task, NoTime, States
<1>3. NoRun \in Run /\ NoRun.status = "none" /\ NoRun.claim = 0
  BY Constants DEF NoRun, Run, RunStatuses
<1>4. TypeOK
  BY <1>1, <1>2, <1>3 DEF TypeOK
<1>5. ASSUME NEW t \in Tasks PROVE TaskLife(t) /\ ~task[t].nameReserved
  <2>1. task[t].state = "none" /\ task[t].nameReserved = FALSE
    BY <1>1, <1>2
  <2>2. \A o \in Times : run[t][o].status = "none" /\ run[t][o].claim = 0 /\ invoked[t][o] = 0
    BY <1>1, <1>3
  <2>3. \A o \in Times : ~InRun(t, o)
    BY <2>2 DEF InRun, ActiveStatuses
  <2>4. UnclaimedUninvoked(t) /\ OneActive(t)
    BY <2>2, <2>3 DEF UnclaimedUninvoked, OneActive
  <2>5. StateMatchesRuns(t) /\ HoldsName(t)
    BY <2>1, <2>2, <2>3 DEF StateMatchesRuns, HoldsName, Live
  <2> QED BY <2>1, <2>4, <2>5 DEF TaskLife
<1> QED BY <1>4, <1>5 DEF LifeInv, NamesUnique

\* The invariant: the types, the life of every task, and the unique names.
THEOREM LifeHolds == Spec => []LifeInv
<1> QED BY InitLife, StepKeepsLife, PTL DEF Spec

\* A planned time is run by the agent at most once: a run is claimed when it was never
\* claimed, and none that was claimed is queued again.
THEOREM PlannedTimesRunOnce == Spec => []PlannedTimeRunsOnce
<1>1. LifeInv => PlannedTimeRunsOnce
  BY DEF LifeInv, TaskLife, UnclaimedUninvoked, PlannedTimeRunsOnce
<1> QED BY <1>1, LifeHolds, PTL

\* No queued run is behind a task it cannot be claimed for, and a task in flight has an
\* active run: pause and delete cancel what is queued, resume queues the run again.
THEOREM NothingIsStuck == Spec => []NothingStuck
<1>1. ASSUME LifeInv, NEW t \in Tasks
      PROVE  /\ RunsIn(t, {"queued"}) # {} => task[t].state \in {"active", "in_flight"}
             /\ task[t].state = "in_flight" => RunsIn(t, ActiveStatuses) # {}
  <2>1. StateMatchesRuns(t)
    BY <1>1 DEF LifeInv, TaskLife
  <2>2. ASSUME RunsIn(t, {"queued"}) # {} PROVE task[t].state \in {"active", "in_flight"}
    <3>1. PICK o \in Times : run[t][o].status = "queued"
      BY <2>2 DEF RunsIn
    <3> QED BY <2>1, <3>1 DEF StateMatchesRuns
  <2>3. ASSUME task[t].state = "in_flight" PROVE RunsIn(t, ActiveStatuses) # {}
    <3>1. PICK o \in Times : InRun(t, o)
      BY <2>1, <2>3 DEF StateMatchesRuns
    <3>2. o \in RunsIn(t, ActiveStatuses)
      BY <3>1 DEF RunsIn, InRun
    <3> QED BY <3>2
  <2> QED BY <2>2, <2>3
<1>2. LifeInv => NothingStuck
  BY <1>1 DEF NothingStuck
<1> QED BY <1>2, LifeHolds, PTL

\* A set of times that holds no two of them has at most one member.
LEMMA AtMostOne ==
  ASSUME NEW S, \A x, y \in S : x = y
  PROVE  Cardinality(S) \in {0, 1}
<1>1. CASE S = {}
  BY <1>1, FS_EmptySet
<1>2. CASE S # {}
  <2>1. PICK x \in S : TRUE
    BY <1>2
  <2>2. S = {x}
    BY <2>1
  <2>3. Cardinality({x}) = 1
    BY FS_Singleton
  <2> QED BY <2>2, <2>3
<1> QED BY <1>1, <1>2

\* No two runs of a task, and no two of the same name, overlap: a task whose run is
\* processing holds its name, also after it was deleted.
THEOREM NamesDoNotOverlap == Spec => []NoOverlapUnderOneName
<1>1. ASSUME LifeInv, NEW t \in Tasks PROVE Cardinality(RunsIn(t, ActiveStatuses)) <= 1
  <2>1. OneActive(t)
    BY <1>1 DEF LifeInv, TaskLife
  <2>2. \A x, y \in RunsIn(t, ActiveStatuses) : x = y
    BY <2>1 DEF OneActive, RunsIn, InRun
  <2>3. Cardinality(RunsIn(t, ActiveStatuses)) \in {0, 1}
    BY <2>2, AtMostOne
  <2> QED BY <2>3
<1>2. ASSUME LifeInv, NEW t \in Tasks, NEW u \in Tasks,
             RunsIn(t, {"processing"}) # {}, Name[t] = Name[u], t # u
      PROVE  task[u].state \notin Live /\ RunsIn(u, ActiveStatuses) = {}
  <2>1. HoldsName(t) /\ HoldsName(u) /\ StateMatchesRuns(u) /\ NamesUnique
    BY <1>2 DEF LifeInv, TaskLife
  <2>2. PICK o \in Times : run[t][o].status = "processing"
    BY <1>2 DEF RunsIn
  <2>3. task[t].nameReserved /\ ~task[u].nameReserved
    BY <1>2, <2>1, <2>2 DEF HoldsName, NamesUnique
  <2>4. task[u].state \notin Live
    BY <2>1, <2>3 DEF HoldsName
  <2>5. ASSUME NEW q \in Times, run[u][q].status \in {"queued", "processing"} PROVE FALSE
    BY <2>1, <2>3, <2>4, <2>5 DEF HoldsName, StateMatchesRuns, Live
  <2> QED BY <2>4, <2>5 DEF RunsIn, ActiveStatuses
<1>3. LifeInv => NoOverlapUnderOneName
  BY <1>1, <1>2 DEF NoOverlapUnderOneName
<1> QED BY <1>3, LifeHolds, PTL

-------------------------------------------------------------------------------
(***************************************************************************)
(* What the dispatcher creates next does not exist.                        *)
(*                                                                         *)
(* This holds as long as polls do not overlap.  The dispatcher's timer     *)
(* starts a poll whether or not the one before has ended, so the code does *)
(* not promise that; of two polls that listed the same task, the second    *)
(* may fold a time the first has given a run.  The theorem says that       *)
(* overlapping is the only way to lose the property: with one poll under   *)
(* way no edit, pause, resume, expiry or missed time can.                  *)
(***************************************************************************)

OnePollAtATime == \A p, q \in Pollers : p = q

\* What a member or the worker does to a task, as the dispatcher sees it.
SeenByDispatcher(t) ==
  /\ OnlyTask(t) /\ UNCHANGED <<now, polls>> /\ task' \in [Tasks -> Task]
  /\ \A o \in Times : run'[t][o].status = "none" <=> run[t][o].status = "none"
  /\ task'[t].state # "none"
  /\ task'[t].missed = task[t].missed \/ (task[t].state = "none" /\ task'[t].missed = NoTime)
  /\ task'[t].state = "active" =>
       task'[t].nextDue > now \/ (task[t].state = "active" /\ task'[t].nextDue = task[t].nextDue)

\* An edit of an existing task, or a new one.
LEMMA EditsAreSeen ==
  ASSUME TypeOK, NEW t \in Tasks, Create(t) \/ UpdateDetails(t) \/ UpdateSchedule(t) \/ Resume(t)
  PROVE  SeenByDispatcher(t)
<1>1. UNCHANGED <<now, run, polls, invoked>>
  BY DEF Create, UpdateDetails, UpdateSchedule, Resume
<1>2. PICK state, kind, nextDue, missed, reserved :
        /\ TaskBecomes(t, state, kind, nextDue, missed, reserved)
        /\ state # "none"
        /\ missed = task[t].missed \/ (task[t].state = "none" /\ missed = NoTime)
        /\ nextDue > now \/ (state = task[t].state /\ nextDue = task[t].nextDue)
  <2>1. CASE Create(t)
    <3>1. PICK s \in Schedules : TaskBecomes(t, "active", s.kind, FirstDue(s), NoTime, TRUE)
      BY <2>1, CreateSets
    <3>2. FirstDue(s) > now /\ task[t].state = "none"
      BY <2>1, FirstDueIsLater DEF Create
    <3>3. "active" # "none"
      OBVIOUS
    <3> QED BY <3>1, <3>2, <3>3
  <2>2. CASE UpdateDetails(t)
    BY <2>2, UpdateDetailsSets DEF UpdateDetails
  <2>3. CASE UpdateSchedule(t)
    BY <2>3, UpdateScheduleSets, FirstDueIsLater DEF UpdateSchedule
  <2>4. CASE Resume(t)
    <3>1. PICK due : due > now /\ TaskBecomes(t, "active", task[t].kind, due, task[t].missed, TRUE)
      BY <2>4, ResumeSets
    <3>2. "active" # "none"
      OBVIOUS
    <3> QED BY <3>1, <3>2
  <2> QED BY <2>1, <2>2, <2>3, <2>4
<1>3. /\ task'[t].state = state /\ task'[t].nextDue = nextDue /\ task'[t].missed = missed
      /\ task' \in [Tasks -> Task] /\ \A u \in Tasks : u # t => task'[u] = task[u]
  BY <1>2, TaskBecame
<1> QED BY <1>1, <1>2, <1>3 DEF SeenByDispatcher, OnlyTask

\* pause, delete, and the resume that queues a run again.
LEMMA StopsAreSeen ==
  ASSUME TypeOK, NEW t \in Tasks, Pause(t) \/ Delete(t) \/ ResumeRebinding(t)
  PROVE  SeenByDispatcher(t)
<1>1. UNCHANGED <<now, polls, invoked>>
  BY DEF Pause, Delete, ResumeRebinding
<1>2. PICK state, kind, nextDue, reserved :
        /\ TaskBecomes(t, state, kind, nextDue, task[t].missed, reserved)
        /\ state # "none" /\ state # "active"
  <2>1. "paused" \notin {"none", "active"} /\ "deleted" \notin {"none", "active"}
        /\ "in_flight" \notin {"none", "active"}
    OBVIOUS
  <2> QED BY <2>1, PauseSets, DeleteSets, ResumeRebindingSets
<1>3. /\ task'[t].state = state /\ task'[t].missed = task[t].missed
      /\ task' \in [Tasks -> Task] /\ \A u \in Tasks : u # t => task'[u] = task[u]
  BY <1>2, TaskBecame
<1>4. /\ \A u \in Tasks : u # t => run'[u] = run[u]
      /\ \A o \in Times : run'[t][o].status = "none" <=> run[t][o].status = "none"
  <2>1. CASE run' = QueuedCancelled(t)
    BY <2>1, QueuedCancelledSets
  <2>2. CASE ResumeRebinding(t)
    <3>1. PICK o \in Times :
            /\ run[t][o].status = "cancelled"
            /\ run' = [run EXCEPT ![t][o] = [status |-> "queued", version |-> task[t].version + 1, claim |-> 0]]
      BY <2>2 DEF ResumeRebinding, RunsIn
    <3> DEFINE r == [status |-> "queued", version |-> task[t].version + 1, claim |-> 0]
    <3>2. task[t].version + 1 \in 0 .. MaxVersion
      BY <2>2, Types, Constants DEF ResumeRebinding
    <3>3. r \in Run /\ r.status = "queued" /\ run' = [run EXCEPT ![t][o] = r]
      BY <3>1, <3>2 DEF Run, RunStatuses
    <3> HIDE DEF r
    <3> QED BY <3>1, <3>3, RunSet
  <2> QED BY <2>1, <2>2 DEF Pause, Delete
<1> QED BY <1>1, <1>2, <1>3, <1>4 DEF SeenByDispatcher, OnlyTask

\* The worker: a claimed or ended run stays one, and the end of a run sets no time.
LEMMA WorkIsSeen ==
  ASSUME LifeInv, NEW t \in Tasks, NEW o \in Times, Work(t, o)
  PROVE  SeenByDispatcher(t)
<1> TypeOK
  BY DEF LifeInv
<1>1. UNCHANGED <<now, polls>> /\ run[t][o].status \in {"queued", "processing"}
  BY DEF Work, Claim, Finish, RecoverExpired
<1>2. task[t].state # "none"
  BY <1>1 DEF LifeInv, TaskLife, StateMatchesRuns, InRun, ActiveStatuses
<1>3. PICK r \in Run : run' = [run EXCEPT ![t][o] = r] /\ r.status # "none"
  <2>1. CASE Claim(t, o)
    <3> DEFINE r == [run[t][o] EXCEPT !.status = "processing", !.claim = run[t][o].claim + 1]
    <3>1. run[t][o].claim + 1 \in {0, 1} /\ run[t][o] \in Run
      BY <2>1, Types DEF Claim, LifeInv, TaskLife, UnclaimedUninvoked
    <3>2. r \in Run /\ r.status = "processing"
      BY <3>1 DEF Run, RunStatuses
    <3>3. run' = [run EXCEPT ![t][o] = r]
      BY <2>1 DEF Claim
    <3> QED BY <3>2, <3>3
  <2>2. CASE Finish(t, o) \/ RecoverExpired(t, o)
    <3>1. PICK outcome \in {"completed", "failed"} : run' = [run EXCEPT ![t][o].status = outcome]
      BY <2>2 DEF Finish, RecoverExpired
    <3> DEFINE r == [run[t][o] EXCEPT !.status = outcome]
    <3>2. r \in Run /\ r.status = outcome
      BY Types DEF Run, RunStatuses
    <3>3. run' = [run EXCEPT ![t][o] = r]
      BY <3>1
    <3> QED BY <3>2, <3>3
  <2> QED BY <2>1, <2>2 DEF Work
<1>4. /\ \A u \in Tasks : u # t => run'[u] = run[u]
      /\ \A q \in Times : run'[t][q].status = "none" <=> run[t][q].status = "none"
  BY <1>1, <1>3, RunSet
<1>5. invoked' = invoked \/ invoked' = [invoked EXCEPT ![t][o] = @ + 1]
  BY DEF Work, Claim, Finish, RecoverExpired
<1>6. \A u \in Tasks : u # t => invoked'[u] = invoked[u]
  BY <1>5 DEF TypeOK
<1>7. CASE task' = task
  BY <1>1, <1>2, <1>4, <1>6, <1>7 DEF SeenByDispatcher, OnlyTask, TypeOK
<1>8. CASE task' = Ended(t)
  <2>1. PICK state, kind, reserved :
          /\ TaskBecomes(t, state, kind, task[t].nextDue, task[t].missed, reserved)
          /\ state # "none" /\ (state = "active" => task[t].state = "active")
    <3> DEFINE once == task[t].kind = "once" /\ task[t].state # "deleted"
               ended == IF once THEN "completed" ELSE task[t].state
               held == ~(once \/ task[t].state = "deleted")
    <3>1. TaskBecomes(t, ended, task[t].kind, task[t].nextDue, task[t].missed, held)
      BY <1>8, EndedSets
    <3>2. ended # "none" /\ (ended = "active" => task[t].state = "active")
      BY <1>2
    <3> HIDE DEF ended, held
    <3> QED BY <3>1, <3>2
  <2>2. /\ task'[t].state = state /\ task'[t].nextDue = task[t].nextDue /\ task'[t].missed = task[t].missed
        /\ task' \in [Tasks -> Task] /\ \A u \in Tasks : u # t => task'[u] = task[u]
    BY <2>1, TaskBecame
  <2> QED BY <1>1, <1>4, <1>6, <2>1, <2>2 DEF SeenByDispatcher, OnlyTask
<1> QED BY <1>7, <1>8 DEF Work, Claim, Finish, RecoverExpired

\* A due is sound as long as its task keeps its missed time, or was new.
LEMMA SeenKeepsDues ==
  ASSUME TypeOK, DueInv, NEW t \in Tasks, SeenByDispatcher(t)
  PROVE  DueInv'
<1>1. RunsArePast(t) /\ MissedUnrun(t) /\ DuesAreSound
  BY DEF DueInv
<1>2. now' = now /\ polls' = polls /\ polls \in [Pollers -> Seq(Due)] /\ now \in Nat
  BY Types DEF SeenByDispatcher, TypeOK
<1>3. RunsArePast(t)'
  <2>1. SUFFICES ASSUME NEW o \in Times, run'[t][o].status # "none"
                 PROVE  /\ o <= now
                        /\ task'[t].state = "active" /\ task'[t].nextDue # NoTime => o < task'[t].nextDue
    BY <1>2 DEF RunsArePast
  <2>2. run[t][o].status # "none" /\ o \in Nat
    BY <2>1, Constants DEF SeenByDispatcher
  <2>3. o <= now /\ (task[t].state = "active" /\ task[t].nextDue # NoTime => o < task[t].nextDue)
    BY <1>1, <2>2 DEF RunsArePast
  <2>4. CASE task'[t].nextDue > now
    <3>1. task'[t].nextDue \in Nat
      BY Constants DEF SeenByDispatcher, Task
    <3> QED BY <1>2, <2>2, <2>3, <2>4, <3>1
  <2> QED BY <2>3, <2>4 DEF SeenByDispatcher
<1>4. MissedUnrun(t)'
  <2>1. task[t].missed \in 0 .. Horizon
    BY Types
  <2> QED BY <1>1, <1>2, <2>1, Constants DEF MissedUnrun, SeenByDispatcher, NoTime, Times
<1>5. \A u \in Tasks : u # t => RunsArePast(u)' /\ MissedUnrun(u)'
  BY <1>2 DEF DueInv, RunsArePast, MissedUnrun, SeenByDispatcher, OnlyTask
<1>6. ASSUME NEW p \in Pollers, NEW i \in DOMAIN polls[p] PROVE Sound(polls[p][i])'
  <2>1. polls[p][i] \in Due /\ Sound(polls[p][i])
    BY <1>1, <1>2, <1>6 DEF DuesAreSound
  <2>2. polls[p][i].task \in Tasks
    BY <2>1, DueTypes
  <2>3. CASE polls[p][i].task = t
    BY <1>2, <2>1, <2>3 DEF Sound, SeenByDispatcher
  <2>4. CASE polls[p][i].task # t
    BY <1>2, <2>1, <2>2, <2>4 DEF Sound, SeenByDispatcher, OnlyTask
  <2> QED BY <2>3, <2>4
<1>7. DuesAreSound'
  BY <1>1, <1>2, <1>6 DEF DuesAreSound
<1> QED BY <1>3, <1>4, <1>5, <1>7 DEF DueInv

\* Dues that are taken off a poll's list leave the others sound.
LEMMA TailKeepsDues ==
  ASSUME TypeOK, OnePollAtATime, DuesAreSound, NEW p \in Pollers, polls[p] # <<>>,
         polls' = [polls EXCEPT ![p] = Tail(polls[p])],
         now' = now,
         \A u \in Tasks : u # Head(polls[p]).task => task'[u] = task[u]
  PROVE  DuesAreSound'
<1>1. \A q \in Pollers : q = p
  BY DEF OnePollAtATime
<1>2. polls \in [Pollers -> Seq(Due)]
  BY DEF TypeOK
<1>3. /\ Head(polls[p]) = polls[p][1] /\ 1 \in DOMAIN polls[p]
      /\ \A i \in DOMAIN polls'[p] : i + 1 \in DOMAIN polls[p] /\ polls'[p][i] = polls[p][i + 1]
      /\ DOMAIN polls'[p] \subseteq Nat \ {0}
  BY PollsTail
<1>4. ASSUME NEW i \in DOMAIN polls'[p] PROVE Sound(polls[p][i])'
  <2>1. /\ i + 1 \in DOMAIN polls[p] /\ polls'[p][i] = polls[p][i + 1] /\ i + 1 # 1
        /\ polls[p][i + 1].task # polls[p][1].task /\ Sound(polls[p][i + 1])
        /\ polls[p][i + 1] \in Due
    BY <1>2, <1>3, <1>4 DEF DuesAreSound
  <2>2. polls[p][i + 1].task \in Tasks /\ polls[p][i + 1].task # Head(polls[p]).task
    BY <1>3, <2>1, DueTypes
  <2>3. task'[polls[p][i + 1].task] = task[polls[p][i + 1].task]
    BY <2>2
  <2> QED BY <2>1, <2>3 DEF Sound
<1>5. \A i, j \in DOMAIN polls'[p] : i # j => polls'[p][i].task # polls'[p][j].task
  <2>1. SUFFICES ASSUME NEW i \in DOMAIN polls'[p], NEW j \in DOMAIN polls'[p], i # j
                 PROVE  polls'[p][i].task # polls'[p][j].task
    OBVIOUS
  <2>2. i + 1 # j + 1 /\ i + 1 \in DOMAIN polls[p] /\ j + 1 \in DOMAIN polls[p]
    BY <1>3, <2>1
  <2> QED BY <1>3, <2>2 DEF DuesAreSound
<1> QED BY <1>1, <1>4, <1>5 DEF DuesAreSound

\* A poll lists sound dues: a due time is past, and so is a missed one.
LEMMA PollKeepsDues ==
  ASSUME LifeInv, DueInv, OnePollAtATime, NEW p \in Pollers, Poll(p)
  PROVE  DueInv'
<1> TypeOK
  BY DEF LifeInv
<1>1. /\ UNCHANGED <<now, task, run, invoked>> /\ \A q \in Pollers : q # p => polls'[q] = polls[q]
      /\ \A i \in DOMAIN polls'[p] : \E t \in Tasks :
           t \in Dispatchable /\ HasOccurrence(t) /\ polls'[p][i] = DueOccurrence(t)
      /\ \A i, j \in DOMAIN polls'[p] : i # j => polls'[p][i].task # polls'[p][j].task
  BY PollSets
<1>2. ASSUME NEW t \in Tasks, t \in Dispatchable, HasOccurrence(t) PROVE Sound(DueOccurrence(t))
  <2>1. task[t].state # "none" /\ MissedUnrun(t) /\ now \in Nat /\ Horizon \in Nat
        /\ task[t].nextDue \in 0 .. (Horizon + 1) /\ task[t].missed \in 0 .. Horizon
    BY <1>2, Types, Constants DEF Dispatchable, DueInv
  <2> DEFINE d == DueOccurrence(t)
  <2>2. d.task = t /\ d.expected = task[t].nextDue /\ d.for \in Times /\ d.next \in 0 .. (Horizon + 1)
    BY <1>2, DueOccurrenceType, DueTypes
  <2>3. task[t].nextDue > now => task[t].missed # NoTime /\ d.for = task[t].missed /\ d.next = task[t].nextDue
    BY <1>2, DueOccurrenceType
  <2>4. task[t].nextDue <= now => /\ task[t].nextDue <= d.for /\ d.for <= now
                                  /\ d.next # NoTime => now < d.next
    BY <1>2, DueOccurrenceType
  <2> SUFFICES Sound(d)
    OBVIOUS
  <2> HIDE DEF d
  <2>5. d.for \in Nat
    BY <2>2, Constants
  <2>6. CASE task[t].nextDue > now
    BY <2>1, <2>2, <2>3, <2>5, <2>6 DEF Sound, MissedUnrun
  <2>7. CASE task[t].nextDue <= now
    BY <2>1, <2>2, <2>4, <2>5, <2>7 DEF Sound
  <2> QED BY <2>1, <2>6, <2>7
<1>3. \A i \in DOMAIN polls'[p] : Sound(polls[p][i])'
  BY <1>1, <1>2 DEF Sound
<1>4. DuesAreSound'
  BY <1>1, <1>3 DEF DuesAreSound, OnePollAtATime
<1>5. \A t \in Tasks : RunsArePast(t)' /\ MissedUnrun(t)'
  BY <1>1 DEF DueInv, RunsArePast, MissedUnrun
<1> QED BY <1>4, <1>5 DEF DueInv

\* A stale due is left out; nothing else changes.
LEMMA SkipKeepsDues ==
  ASSUME LifeInv, DueInv, OnePollAtATime, NEW p \in Pollers, SkipDue(p)
  PROVE  DueInv'
<1> TypeOK
  BY DEF LifeInv
<1>1. polls[p] # <<>> /\ polls' = [polls EXCEPT ![p] = Tail(polls[p])] /\ UNCHANGED <<now, task, run, invoked>>
  BY DEF SkipDue
<1>2. DuesAreSound'
  BY <1>1, TailKeepsDues DEF DueInv
<1>3. \A t \in Tasks : RunsArePast(t)' /\ MissedUnrun(t)'
  BY <1>1 DEF DueInv, RunsArePast, MissedUnrun
<1> QED BY <1>2, <1>3 DEF DueInv

\* What a sound due says of its task when it is not stale: its time is past, not before
\* what was due, and has no run.
LEMMA FreshDueIsUnrun ==
  ASSUME TypeOK, DueInv, NEW d \in Due, Sound(d),
         task[d.task].state = "active", task[d.task].nextDue = d.expected
  PROVE  /\ run[d.task][d.for].status = "none" /\ d.for \in Nat /\ d.for <= now
         /\ d.next # NoTime => /\ d.next \in Nat /\ d.for < d.next
                               /\ \A o \in Times : run[d.task][o].status # "none" => o < d.next
<1> DEFINE t == d.task
<1>1. t \in Tasks /\ d.for \in Times /\ d.for \in Nat /\ d.next \in Nat /\ d.expected \in Nat
      /\ d.expected # NoTime
  <2>1. /\ t \in Tasks /\ d.for \in Times /\ d.expected \in 1 .. (Horizon + 1)
        /\ d.next \in 0 .. (Horizon + 1) /\ Horizon \in Nat
    BY DueTypes, Constants
  <2> HIDE DEF t
  <2>2. d.for \in Nat
    BY <2>1, Constants
  <2>3. d.expected \in Nat /\ d.expected # NoTime /\ d.next \in Nat
    BY <2>1 DEF NoTime
  <2> QED BY <2>1, <2>2, <2>3
<1>2. RunsArePast(t) /\ MissedUnrun(t)
  BY <1>1 DEF DueInv
<1> HIDE DEF t
<1>3. d.for <= now /\ (d.next # NoTime => d.for < d.next)
      /\ (d.expected <= d.for \/ (d.for = task[t].missed /\ d.next = d.expected))
  BY DEF Sound, t
<1>4. task[t].state = "active" /\ task[t].nextDue = d.expected
  BY DEF t
<1>5. \A o \in Times : o \in Nat /\ (run[t][o].status # "none" => o < d.expected)
  BY <1>1, <1>2, <1>4, Constants DEF RunsArePast
<1>6. run[t][d.for].status = "none"
  <2>1. CASE d.expected <= d.for
    BY <1>1, <1>5, <2>1
  <2>2. CASE d.for = task[t].missed
    BY <1>1, <1>2, <2>2, Constants DEF MissedUnrun, NoTime
  <2> QED BY <1>3, <2>1, <2>2
<1>7. ASSUME d.next # NoTime, NEW o \in Times, run[t][o].status # "none" PROVE o < d.next
  BY <1>1, <1>3, <1>5, <1>7
<1> QED BY <1>1, <1>3, <1>6, <1>7 DEF t

\* The head of a poll is a sound due.
LEMMA HeadIsSound ==
  ASSUME TypeOK, DueInv, NEW p \in Pollers, polls[p] # <<>>
  PROVE  Head(polls[p]) \in Due /\ Sound(Head(polls[p]))
<1>1. polls[p] \in Seq(Due)
  BY DEF TypeOK
<1>2. Head(polls[p]) = polls[p][1] /\ 1 \in DOMAIN polls[p] /\ Head(polls[p]) \in Due
  BY <1>1
<1> QED BY <1>2 DEF DueInv, DuesAreSound

\* createDue with an active run: the missed time is the later of two that have no run.
LEMMA FoldKeepsDues ==
  ASSUME LifeInv, DueInv, OnePollAtATime, NEW p \in Pollers, FoldDue(p)
  PROVE  DueInv'
<1> TypeOK
  BY DEF LifeInv
<1>1. polls[p] # <<>> /\ polls' = [polls EXCEPT ![p] = Tail(polls[p])] /\ UNCHANGED <<now, run, invoked>>
  BY DEF FoldDue
<1> DEFINE d == Head(polls[p])
<1>0. PICK t \in Tasks : t = d.task
  BY FoldDueSets, DueTypes
<1> DEFINE nextDue == IF d.next # NoTime THEN d.next ELSE task[t].nextDue
           missed == IF task[t].missed > d.for THEN task[t].missed ELSE d.for
<1>2. /\ d \in Due /\ task[t].state = "active" /\ task[t].nextDue = d.expected
      /\ TaskBecomes(t, "active", task[t].kind, nextDue, missed, task[t].nameReserved)
  BY <1>0, FoldDueSets
<1>3. Sound(d)
  BY <1>1, HeadIsSound
<1>4. DuesAreSound /\ ((\A u \in Tasks : u # t => task'[u] = task[u]) => DuesAreSound')
  BY <1>0, <1>1, TailKeepsDues DEF DueInv
<1> HIDE DEF d
<1>5. /\ run[t][d.for].status = "none" /\ d.for \in Nat /\ d.for <= now
      /\ d.next # NoTime => /\ d.next \in Nat
                            /\ \A o \in Times : run[t][o].status # "none" => o < d.next
  BY <1>0, <1>2, <1>3, FreshDueIsUnrun
<1>6. PICK st, k, nd, m, b :
        TaskBecomes(t, st, k, nd, m, b) /\ st = "active" /\ nd = nextDue /\ m = missed
  BY <1>2
<1>7. /\ task'[t].state = "active" /\ task'[t].nextDue = nextDue /\ task'[t].missed = missed
      /\ \A u \in Tasks : u # t => task'[u] = task[u]
  BY <1>6, TaskBecame
<1>8. RunsArePast(t) /\ MissedUnrun(t)
  BY DEF DueInv
<1>9. RunsArePast(t)'
  BY <1>1, <1>2, <1>5, <1>7, <1>8 DEF RunsArePast
<1>10. MissedUnrun(t)'
  <2>1. task[t].missed \in Nat
    BY Types, Constants
  <2>2. missed = d.for \/ (missed = task[t].missed /\ task[t].missed # NoTime)
    BY <1>5, <2>1 DEF NoTime
  <2> QED BY <1>1, <1>5, <1>7, <1>8, <2>2 DEF MissedUnrun
<1>11. \A u \in Tasks : u # t => RunsArePast(u)' /\ MissedUnrun(u)'
  BY <1>1, <1>7 DEF DueInv, RunsArePast, MissedUnrun
<1>12. DuesAreSound'
  BY <1>4, <1>7
<1> QED BY <1>9, <1>10, <1>11, <1>12 DEF DueInv

\* createDue with no active run: the run is new, so the insert never fails, and the time
\* due next lies behind it.
LEMMA CreateDueKeepsDues ==
  ASSUME LifeInv, DueInv, OnePollAtATime, NEW p \in Pollers, CreateDue(p)
  PROVE  DueInv'
<1> TypeOK
  BY DEF LifeInv
<1>1. polls[p] # <<>> /\ UNCHANGED <<now, invoked>>
  BY DEF CreateDue
<1> DEFINE d == Head(polls[p])
<1>0. PICK t \in Tasks : t = d.task
  BY CreateDueSets, DueTypes
<1> DEFINE r == [status |-> "queued", version |-> task[t].version, claim |-> 0]
           state == IF task[t].kind = "once" THEN "in_flight" ELSE "active"
           nextDue == IF task[t].kind = "once" THEN NoTime ELSE d.next
<1>2. /\ d \in Due /\ task[t].state = "active" /\ task[t].nextDue = d.expected
      /\ \/ /\ run[t][d.for].status = "none" /\ r \in Run
            /\ run' = [run EXCEPT ![t][d.for] = r]
            /\ polls' = [polls EXCEPT ![p] = Tail(polls[p])]
            /\ TaskBecomes(t, state, task[t].kind, nextDue, NoTime, task[t].nameReserved)
         \/ UNCHANGED <<run, task>> /\ polls' = [polls EXCEPT ![p] = <<>>]
  BY <1>0, CreateDueSets
<1>3. CASE UNCHANGED <<run, task>> /\ polls' = [polls EXCEPT ![p] = <<>>]
  <2>1. \A t_1 \in Tasks : RunsArePast(t_1)' /\ MissedUnrun(t_1)'
    BY <1>1, <1>3 DEF DueInv, RunsArePast, MissedUnrun
  <2>2. polls'[p] = <<>> /\ \A q \in Pollers : q = p
    BY <1>3 DEF TypeOK, OnePollAtATime
  <2>3. DOMAIN polls'[p] = {}
    BY <2>2
  <2> QED BY <2>1, <2>2, <2>3 DEF DueInv, DuesAreSound
<1>4. CASE ~(UNCHANGED <<run, task>> /\ polls' = [polls EXCEPT ![p] = <<>>])
  <2>1. /\ r \in Run /\ r.status = "queued" /\ run' = [run EXCEPT ![t][d.for] = r]
        /\ polls' = [polls EXCEPT ![p] = Tail(polls[p])]
        /\ TaskBecomes(t, state, task[t].kind, nextDue, NoTime, task[t].nameReserved)
    BY <1>2, <1>4
  <2>2. Sound(d)
    BY <1>1, HeadIsSound
  <2>3. DuesAreSound
    BY DEF DueInv
  <2> HIDE DEF r
  <2>4. (\A u \in Tasks : u # t => task'[u] = task[u]) => DuesAreSound'
    BY <1>0, <1>1, <2>1, <2>3, TailKeepsDues
  <2> HIDE DEF d
  <2>5. d.for \in Times
    BY <1>2, DueTypes
  <2>6. /\ d.for \in Nat /\ d.for <= now
        /\ d.next # NoTime => /\ d.next \in Nat /\ d.for < d.next
                              /\ \A o \in Times : run[t][o].status # "none" => o < d.next
    BY <1>0, <1>2, <2>2, FreshDueIsUnrun
  <2>7. /\ \A u \in Tasks : u # t => run'[u] = run[u]
        /\ run'[t][d.for] = r /\ \A q \in Times : q # d.for => run'[t][q] = run[t][q]
    <3>1. PICK o \in Times : o = d.for
      BY <2>5
    <3>2. run' = [run EXCEPT ![t][o] = r] /\ r \in Run
      BY <2>1, <3>1
    <3>3. /\ \A u \in Tasks : u # t => run'[u] = run[u]
          /\ run'[t][o] = r /\ \A q \in Times : q # o => run'[t][q] = run[t][q]
      BY <3>2, RunSet
    <3> QED BY <3>1, <3>3
  <2>8. PICK st, k, nd, m, b :
          TaskBecomes(t, st, k, nd, m, b) /\ nd = nextDue /\ m = NoTime
    BY <2>1
  <2>9. /\ task'[t].nextDue = nextDue /\ task'[t].missed = NoTime
        /\ \A u \in Tasks : u # t => task'[u] = task[u]
    BY <2>8, TaskBecame
  <2>10. RunsArePast(t)
    BY DEF DueInv
  <2>11. RunsArePast(t)'
    <3>1. SUFFICES ASSUME NEW o \in Times, run'[t][o].status # "none"
                   PROVE  o <= now /\ (task'[t].nextDue # NoTime => o < task'[t].nextDue)
      BY <1>1 DEF RunsArePast
    <3>2. CASE o = d.for
      BY <2>6, <2>9, <3>2
    <3>3. CASE o # d.for
      BY <2>6, <2>7, <2>9, <2>10, <3>1, <3>3 DEF RunsArePast
    <3> QED BY <3>2, <3>3
  <2>12. MissedUnrun(t)'
    BY <2>9 DEF MissedUnrun
  <2>13. \A u \in Tasks : u # t => RunsArePast(u)' /\ MissedUnrun(u)'
    BY <1>1, <2>7, <2>9 DEF DueInv, RunsArePast, MissedUnrun
  <2> QED BY <2>4, <2>9, <2>11, <2>12, <2>13 DEF DueInv
<1> QED BY <1>3, <1>4

\* Time passes: what is past stays so.
LEMMA IdleKeepsDues ==
  ASSUME LifeInv, DueInv, Tick \/ UNCHANGED vars
  PROVE  DueInv'
<1>1. UNCHANGED <<task, run, polls, invoked>> /\ now \in Nat /\ now' \in Nat /\ now <= now' /\ Horizon \in Nat
  BY Types, Constants DEF Tick, vars, LifeInv
<1>2. ASSUME NEW t \in Tasks PROVE RunsArePast(t)' /\ MissedUnrun(t)'
  <2>1. task[t].missed \in Nat /\ RunsArePast(t) /\ MissedUnrun(t)
    BY Types, Constants DEF LifeInv, DueInv
  <2>2. RunsArePast(t)'
    <3>1. SUFFICES ASSUME NEW o \in Times, run[t][o].status # "none"
                   PROVE  /\ o <= now'
                          /\ task[t].state = "active" /\ task[t].nextDue # NoTime => o < task[t].nextDue
      BY <1>1 DEF RunsArePast
    <3>2. o \in Nat /\ o <= now
      BY <2>1, <3>1, Constants DEF RunsArePast
    <3> QED BY <1>1, <2>1, <3>1, <3>2 DEF RunsArePast
  <2>3. MissedUnrun(t)'
    BY <1>1, <2>1 DEF MissedUnrun
  <2> QED BY <2>2, <2>3
<1>3. ASSUME NEW p \in Pollers, NEW i \in DOMAIN polls[p] PROVE Sound(polls[p][i])'
  <2>1. polls[p][i] \in Due /\ Sound(polls[p][i])
    BY <1>3 DEF DueInv, DuesAreSound, LifeInv, TypeOK
  <2>2. polls[p][i].for \in Nat
    BY <2>1, DueTypes, Constants
  <2> QED BY <1>1, <2>1, <2>2 DEF Sound
<1>4. DuesAreSound'
  BY <1>1, <1>3 DEF DuesAreSound, DueInv
<1> QED BY <1>2, <1>4 DEF DueInv

\* Every step keeps the dues sound.
LEMMA StepKeepsDues ==
  ASSUME LifeInv, DueInv, OnePollAtATime, [Next]_vars
  PROVE  DueInv'
<1> TypeOK
  BY DEF LifeInv
<1>1. CASE Tick \/ UNCHANGED vars
  BY <1>1, IdleKeepsDues
<1>2. ASSUME NEW t \in Tasks, Member(t) PROVE DueInv'
  BY <1>2, EditsAreSeen, StopsAreSeen, SeenKeepsDues DEF Member
<1>3. ASSUME NEW p \in Pollers, Poll(p) \/ IdlePoll(p) \/ Dispatch(p) PROVE DueInv'
  BY <1>3, IdleKeepsDues, PollKeepsDues, SkipKeepsDues, FoldKeepsDues, CreateDueKeepsDues
     DEF Dispatch, IdlePoll
<1>4. ASSUME NEW t \in Tasks, NEW o \in Times, Work(t, o) PROVE DueInv'
  BY <1>4, WorkIsSeen, SeenKeepsDues
<1> QED BY <1>1, <1>2, <1>3, <1>4 DEF Next

\* At the start nothing is due.
LEMMA InitDues ==
  ASSUME Init
  PROVE  DueInv
<1>1. /\ \A t \in Tasks : task[t].missed = NoTime /\ \A o \in Times : run[t][o].status = "none"
      /\ \A p \in Pollers : polls[p] = <<>>
  BY DEF Init, NoTask, NoRun
<1>2. \A p \in Pollers : DOMAIN polls[p] = {}
  BY <1>1
<1> QED BY <1>1, <1>2 DEF DueInv, RunsArePast, MissedUnrun, DuesAreSound

\* With one poll under way: the times of existing runs are past and before what is due,
\* and what a poll still has to create is sound.
THEOREM DuesHold ==
  ASSUME OnePollAtATime
  PROVE  Spec => []DueInv
<1>1. Init => DueInv
  BY InitDues
<1>2. LifeInv /\ DueInv /\ [Next]_vars => DueInv'
  BY StepKeepsDues
<1> QED BY <1>1, <1>2, LifeHolds, PTL DEF Spec

\* With one poll under way, what the dispatcher will try to create has no run, so no poll
\* ever fails on an occurrence that exists.
THEOREM DispatchablesAreUnrun ==
  ASSUME OnePollAtATime
  PROVE  Spec => []DispatchableIsUnrun
<1>1. ASSUME LifeInv, DueInv, NEW t \in Tasks, task[t].state = "active"
      PROVE  /\ task[t].missed # NoTime => run[t][task[t].missed].status = "none"
             /\ task[t].nextDue \in Times => run[t][task[t].nextDue].status = "none"
  <2>1. RunsArePast(t) /\ MissedUnrun(t)
    BY <1>1 DEF DueInv
  <2>2. task[t].nextDue \in Times => task[t].nextDue # NoTime /\ task[t].nextDue \in Nat
    BY Constants DEF NoTime
  <2> QED BY <1>1, <2>1, <2>2 DEF RunsArePast, MissedUnrun
<1>2. LifeInv /\ DueInv => DispatchableIsUnrun
  BY <1>1 DEF DispatchableIsUnrun
<1> QED BY <1>2, LifeHolds, DuesHold, PTL
===============================================================================
