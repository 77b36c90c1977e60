# Minori in TLA+

Minori is a Feishu bot: a Node process that takes the messages mentioning it in group chats (and
private messages), lets a language-model agent answer them with tools that read and write
knowledge documents, calendars and meetings through the `lark` command line, and runs tasks its
members scheduled. Its state of record is a PostgreSQL database; what it must get right is not
the text of an answer but *which* event is worked on, *how often* something is written or posted,
and *what is left behind* when a lease expires, a statement fails or the process dies.

This directory models that part: the durable queue, the executions on it, the scheduled tasks and
their delivery, the signals beside them, the tools of one agent run that keep state between calls,
and the script that releases a new version on the host. Line references are to `src/src/...` in the
repository, those of the release script to `src/deploy/vultr/minori-release`; `PROJECT.json` maps
every definition to its lines.

    tlc -config MessageWorker.cfg MCMessageWorker      # model-check a run
    tlapm MessageWorkerProofs.tla                      # check the proofs of a module


## 1. The system

### Components

| Part | Source | State it keeps | Operations | Module |
|---|---|---|---|---|
| Event store | `storage/event-store.ts` | `processed_events` | enqueue, claimReady, complete, retry, markReplyStarted, markReplyUncertain, progress marker, reaction, recoverExpiredLeases | `EventStore` |
| Message worker | `worker/message-worker.ts` | one execution per claim: prepared reply, deadline | processNext, process, prepareReply, persistPreparedReply, failBeforeReply, recovery timer | `MessageWorker` |
| Agent run and its audit | `agent/run.ts`, `agent/run-outcome.ts`, `storage/agent-run-store.ts` | `agent_runs`, `tool_runs`, `write_started_at` | beginWrite, the persistent tool, the run's end | `MessageWorker` |
| Admission | `worker/admission-coordinator.ts`, `worker/admission-policy.ts` | the loops, `scheduledProcessing`, the advisory lock | claim of a message, claim of a scheduled run, poll, wake | `Admission` |
| Gateway | `feishu/gateway.ts` | one handler per delivered event | enqueue, Typing reaction, duplicate delivery | `Admission`, `MemberSignals` |
| Progress reply | `worker/progress-reply.ts` | timer, `settled`, the call under way | marker, call, confirmation, settle | `MemberSignals` |
| Schedule store and tools | `storage/schedule-store.ts`, `agent/tools.ts` | `scheduled_tasks` | create, update, pause, resume, delete | `Schedules` |
| Dispatcher, calendar | `schedule/dispatcher.ts`, `schedule/calendar.ts` | the poll under way | poll, createDue | `Schedules` |
| Run store | `storage/scheduled-run-store.ts` | `scheduled_runs` | createDue, claimNext, delivery and fallback records, finish, recoverExpired | `Schedules`, `ScheduledDelivery`, `Admission` |
| Scheduled task worker | `schedule/worker.ts` | one execution per run, heartbeat | processOne, fallback, recovery timer | `ScheduledDelivery` |
| Feishu | external | messages by idempotency key, reactions | send, add and remove a reaction | steps of the modules above |
| Team Context | `team-context/source.ts`, `storage/team-context-store.ts` | the snapshot row, loads in flight | load, update, accept, invalidate | `TeamContext` |
| Knowledge service | `lark/knowledge-service.ts` | none: the revision read before a write | fetchDocument, patchDocument, appendDocument, createDocument | `TeamContext`, `DocumentReads` |
| Document tools and cache | `agent/tools.ts`, write audit in `agent/run.ts` | fetches, page sets and cursors of a run; row and receipt of a write | fetchDocument, appendDocument, patchDocument, invalidateDocument | `DocumentReads` |
| Lark runner | `lark/runner.ts` | one child process per command, its timers and buffers | run, abort, timeout, output limit, close | `LarkRunner` |
| Meeting tools and service | `agent/meeting-tools.ts`, `lark/meeting-service.ts`, `lark/meeting-artifacts.ts` | references found, continuations, content snapshots, byte budget, a directory per transcript | searchMeetings, searchMeetingMinutes, fetchMeetingContent | `MeetingReads` |
| Group context | `feishu/group-context.ts` | where the traversal of the history stands, pages asked for | loadInitial, readEarlier | `GroupHistory` |
| The run's tools together | `agent/run.ts` | the abort signal all calls share | issue of calls, abort | `ToolCalls`, `AgentTools` |
| Application | `app.ts` | runtime, retry timer, health server, pool | start, ensure and initialise the runtime, retry, stop | `AppLifecycle` |
| Conversation store, retention | `storage/conversation-store.ts`, `storage/retention.ts` | messages, purge cut-offs | append, purge | append only |
| Release script | `deploy/vultr/minori-release` (outside the application's `src/src`) | saved releases, journal, release records, the running container | recover, switch, health, record, roll back | `Release` |
| Prompts, configuration, health, logging, migrations | | | | not modelled |

### How they interact

*In.* The gateway enqueues a delivered event in one transaction under the admission lock, then
adds a Typing reaction and attaches its id to the row. Feishu may deliver an event again.

*Admission.* `AGENT_ADMISSION_CONCURRENCY` (4) loops ask `claimReady` for a message and, when there is none,
`claimNext` for a scheduled run. Both statements run under the advisory lock and count each
other's work.

*An execution* is named by its claim, the value of `attempts` that `claimReady` set. Every
statement that settles the event is fenced by `status = 'processing' and attempts = claim`. The
execution stores the member's message, runs the agent (or reports the writes of an earlier
attempt, or composes a fixed text), marks the reply as started, sends it under a key derived from
the event, and completes the event. A deadline of 15 minutes aborts it; a lease of 20 minutes is
recovered by a timer.

*The tools of a run* are called by the model, several at a time. Every call gets the run's one abort
signal, which fires at the run's timeout or when its claim is given up. Knowledge and meeting calls
run `lark` commands as child processes; meeting calls and history calls queue among themselves, those
of documents overlap. A write is given a row and a receipt before its command and both are closed
after it.

*Scheduled tasks.* Members change tasks through the tools; the dispatcher turns due times into
runs; the worker claims a run, runs the agent, delivers the result once, or tells the chat of
origin that it could not.

*A release* runs on the host, outside the application. It journals what runs and what shall run
before it touches the service, and removes the journal after its record; the next run first settles a
journal it finds.

### What is hard here

* A lease can expire under a live execution, so two executions of one event race through writes,
  the reply marker, the send and the settling statement.
* A persistent write cannot be repeated: after a crash between `beginWrite` and the result, the
  next attempt has to report what happened instead of running the agent again.
* A send whose answer is lost is repeated under the same key; Feishu recognises the key for an
  hour only.
* The abort of an awaited statement does not tell whether it committed.
* Two kinds of work share one capacity, one lock and one chat, through several loops.
* The dispatcher works off a list that members, the worker and another poll change meanwhile.
* Pause, resume, update and delete arrive while a run is queued or processing.
* A fetch, a cursor and a write of the same document overlap within one run, and a write has to
  drop what was kept of it.
* Timeout, output limit, abort and the child's own exit race to settle one command, and a caller
  removes directories the child may still write into.
* A search goes on in several provider windows at once, some of which fail; the content it leads to
  changes while its pages are read.
* The release script may fail, be signalled or be killed between any two commands, in a rollback and in
  a recovery too, and has to leave a host that the next run can take over.
* The progress reply and the reaction run beside the execution and must neither overtake the
  final reply nor hold it up.

`PROJECT.json` lists each of these hazards at its line, with the properties that cover it.

### What makes each part correct

* **Event store and worker.** An event's persistent writes are carried out by one claim; no agent
  runs after a write began in an earlier claim; one reply per key; one post per event; an event
  recorded as replied has its reply in the chat; a terminal event stays as it is; every accepted
  event becomes terminal.
* **Admission.** The slots are never exceeded; a chat has one invocation at a time; a conversation
  is worked off in the order of acceptance; nothing starves.
* **Schedules.** A planned time runs at most once; no run or task gets stuck; nothing overlaps under
  one name; what the dispatcher will create next does not exist yet; missed times are taken up.
* **Scheduled delivery.** A result is sent at most once and only on record; "completed" means posted;
  an end is final and always comes.
* **Member signals.** One progress call at most, none beside or after the final reply; no forgotten
  reaction; the signals never hold up the event.
* **Team Context.** No run gets an older Team Context than one known when its load began; stale
  content is within the grace period; a document write applies only to the revision its checks read.
* **Documents.** A read shows what the run had written before it; the pages a cursor leads through
  are of one revision; what row and receipt say of a write is true.
* **Meetings and history.** Following the cursors misses nothing and repeats nothing, the pages of
  one content are of one snapshot, a directory is there as long as its writer.
* **Lifecycle.** One runtime at most, however start and the retries overlap; the pool closes behind
  everything that uses it; stop leaves neither timer nor server.
* **Runner.** A command that was cut short is not taken for one that failed, so nothing else is tried
  after it; once the run is over every command settles and every process is gone.
* **Release.** Wherever a run stops, the journal it leaves can be settled, and without a journal the
  service runs what the state names; records are true and a success stays one; the saved releases
  are there and were healthy.


## 2. The modules

`EventStore` holds the table `rows` and one operator per statement, from the table before it to
the table after it. `MessageWorker`, `Admission` and `MemberSignals` extend it: they decide who
runs which statement when. Each looks at the same queue from another side, with the steps the
others need collapsed. `Schedules` and `ScheduledDelivery` do the same for the scheduled half.
`ReplyDelivery` is the abstract specification of the message half. `TeamContext` and `AppLifecycle`
stand alone: they share no state with the queue. The tools of a run are a family of their own:
`DocumentReads`, `LarkRunner` and `GroupHistory` extend `ToolCalls`, `MeetingReads` extends
`LarkRunner`, and `AgentTools` composes them all. What a run's write means for the retries of its
event is the subject of `MessageWorker`; here it is one run.

**EventStore.** A row keeps status, `received_at`, `attempts`, `write_started_at`, the prepared
reply with its marker, the progress marker, whether a reaction id is attached, and how a terminal
event ended. Lease and back-off times are wall-clock: "may pass at any later moment". Replies are
told apart by their kind and by the claim that composed them, since two executions compose
different texts.

**MessageWorker.** `pc[e][c]` is where the execution of claim `c` on event `e` stands; one step is
one await of `process`. `prepared` and `sawWrite` are what it copied from the row, `flight` its
request at Feishu, `writers` the claims whose write was carried out, `posts` the messages a member
sees. `DeadlineExceeded` can fire at every await; a `markReplyStarted` that committed but did not
return ("marked") counts as not started, as in `withAbort`. `RecoverExpiredLease` under a live
execution is a fault. `Dies` covers a crash and an error that escapes `process()`.

**ReplyDelivery.** What a member is promised: an event is settled once; its reply is decided once
and posted at most once; settled as replied only with a post, as given up only without one. The
refinement maps `phase` to the terminal outcome of the row and `reply` to the reply on the row.

**Admission.** Enqueue is two steps, because `received_at` is the start of a transaction that then
waits for the lock. `Candidates` and `RunCandidates` are the `where` clauses of the two claims.
A loop is ready, asking for a run, waiting for a poll, or at work; `scheduledProcessing` is set and
cleared where the code does.

**Schedules.** `task` and `run` are the two tables (a run is identified by task and planned time, as
in the unique index). Time is a counter; a cron schedule fires at every tick. A poll lists its dues
once and works them off one at a time, checked again by `createDue`. `invoked` counts agent starts.

**ScheduledDelivery.** One run from claim to end; every statement may fail before or after it took
effect, every request may be posted and its answer lost, the lease may expire at any moment.
Runs do not touch each other, so one run is enough for TLC, and the proofs hold for any set.

**MemberSignals.** The worker reduced to the steps the signals touch, with the progress handle
(`progress`, `settled`) and the gateway's handler beside it. A marker statement may stay blocked for
good. A retry waits at least 30 seconds, which is also the timeout of a call: so the execution
before has ended, unless it outlived its lease; those events are in `overrun` and exempt from
`FinalComesLast` only. Its names begin with `Signals` where `AppLifecycle` uses the plain ones,
because one module proves about both.

**TeamContext.** `document` is the live document, a revision that fits the token budget or not;
`snapshot` the one row all loads share. A load is fetching, accepting, falling back or invalidating;
an update goes through its own fetch and checks, the second fetch of `patchDocument`, the patch at
Feishu and the read that confirms it. A patch whose run was aborted is `lost` and may still land.
`known` is the latest revision answered as loaded since the last invalidation, `floor` what it was
when a load began. The clock counts in units of the grace period (hours), so that no time passes
within a call (30 seconds); it may pass between a fetch and its `accept`.

**AppLifecycle.** A runtime is the set of components one initialisation makes: connection, worker and,
with schedules, coordinator, scheduled worker and dispatcher. `init[n]` is where the n-th
initialisation stands, `up[n]` which of its components run, `current` the published runtime;
`start` and `stop` are the places of the two functions, and a signal may come at each of them. A
component that is told to stop runs until its stop has returned.

**ToolCalls.** The model's calls and the abort signal. `quota` bounds what the model may ask of each
family of tools; the initial states choose one of `Quotas`.

**DocumentReads.** One document, since all the structures are keyed by it. `document` is the revision
Feishu holds, `cached` the fetch the cache holds as a promise, `pageSets[k]` the revision whose pages
are kept for a mode and query, `cursors` those that still lead on. A read awaits its fetch or finds
it settled; a resolved fetch wakes every read that awaits it in one turn. A write is opened by
`beginWrite`, reads the revision, patches it, reads it back, and is closed by `finishWrite`; it
invalidates the document when it returns, however it ended. `lost` marks a write whose answer did not
arrive, which may still be applied. `floor` and `raced` are history: what a read was entitled to see,
and whether a fetch was under way when a write returned.

**LarkRunner.** `command[c]` runs, has exited, or is settled by its `close`. Timeout and output limit
are one action, `Terminate`, since both send SIGKILL; an abort sends SIGTERM and arms the timer that
kills. The first reason names the outcome.

**MeetingReads.** `meetings` is the queue of `sequential()`: a call begins when all before it have
ended. A search asks its windows at once and keeps, in its continuation, those that have more; a
content call goes through associations, note detail and body, one command each, down the list of
`attempts`. `directory` is the call whose temporary directory exists, `remaining` the run's byte
budget, `artifact` the revision of the content in Feishu, which may change at any time.

**GroupHistory.** `traversal` is the variable of that name: where the next call may go on. A call uses
up the token before it asks for the page, and the page is shown when the row counts it.

**AgentTools.** The disjoint union of the steps, with one `Abort` that fires the signal and runs the
listeners of all commands in the same step.

**Release.** `disk` is what survives the script: `state` (`state.tsv`, the saved releases with the active
one first), `journal` (`pending.tsv`), `records`, the image the `service` runs, the images `present`
and, for the properties, those seen healthy (`verified`). `pc` and `run` are the script: one step per
command that changes the disk or the service, each of which may fail; a failed `docker compose up` may
have done all, half or nothing. `Signal` takes the script to the rollback of its exit trap, `Kill`
ends it. An image stands for image, commit and contract.

Operators marked `Faulty` are not part of a specification. They state a plausible bug of the
definition after them and show which property would catch it (`PROJECT.json`, `mutants`).


## 3. What is model-checked

| Run | Instance | What it shows |
|---|---|---|
| `message_worker` | 1 event, 3 faults, so 4 claims | All interleavings of up to four overlapping executions: one writing claim, no replay after a write, one reply per key, one post; implements `ReplyDelivery`; every accepted event becomes terminal |
| `admission` | 3 events in 2 conversations, 2 runs, 2 slots, 2 loops, 3 deliveries, 1 disturbance | Capacity, one invocation per chat, order of acceptance, nothing starves |
| `schedules` | 2 tasks of one name, 3 ticks, 3 versions, one poll at a time | Once per planned time, nothing stuck, no overlap, missed times taken up |
| `scheduled_delivery` | 1 run | Sent once on record, completed means posted, the end comes |
| `member_signals` | 1 event, 2 faults, so 3 claims | One progress call, the final reply last, reactions not forgotten, never held up |
| `team_context` | 2 loads, 1 update, 3 revisions, grace period 1 of 2 ticks | No load answers with less than was known when it began, stale is within the grace period, a write applies to what was read |
| `app_lifecycle` | 3 initialisations, with and without schedules | One runtime at most, the pool closes last, stop leaves neither timer nor server |
| `agent_tools` | 8 mixes of calls: 3 reads and a write; searches of 2 windows with and without content; 3 history calls; pairs of different tools | A read shows the run's own writes, pages are of one snapshot, receipts are true, traversals miss nothing, a command cut short is not retried, directories outlive their writers, everything ends |
| `release` | 3 releases of 3 images, 3 faults; hosts with no, two and three saved releases | Service, state, journal, records and saved images agree wherever a run stops; success is final; a run without further faults settles what it finds |

Some statements of the repository's documents do not hold of the code; each row is a run in which TLC
finds the counterexample, and `PROJECT.json` (`findings`) quotes the statement:

| Run | Disagreement |
|---|---|
| `message_worker_report` | An event that began a write can end as given up, or with the temporary-error reply, when later attempts fail before their reply (`message-worker.ts:371`). ADR 0010 says confirmed and unknown outcomes are reported. |
| `admission_race` | Of two overlapping enqueues the one that began first can commit last, becomes head of the conversation while the other is processing, and is claimed beside it (`event-store.ts:92`). ADR 0013 says invocations in a group are serialized. |
| `schedules_rekind` | A task edited to `once` while an older run is processing is completed by that run; its own time never runs (`scheduled-run-store.ts:301`). |

More are known and have no run of their own:

* A fetch under way when a write returns stores its pages after `invalidateDocument`, so a later read
  shows the document from before the write (`agent/tools.ts:309`), where `CONTEXT.md` (line 76) has the
  write invalidate the snapshot immediately: with `WriteInvalidatesSnapshot` in place of
  `ReadsOwnWrites` the `agent_tools` run fails.
* A release of the image that is active, rolled back and killed before its journal is removed, leaves the
  candidate at the head of the state: the recovery records the same attempt as a success
  (`minori-release:562`). The design has a release record success *or* restore the previous one;
  `SuccessOrRestored` in the `release` run fails.
* A signal after the success record and before the end of the transaction (`minori-release:827` to 832)
  rolls the recorded success back: with `LateSignals = TRUE` the run loses `SuccessIsFinal`.
  If that rollback fails the journal may be gone already: the service does not run what the state
  names, and every later release is refused (`StateNamesWhatRuns` fails too).
* With `PromptSends = FALSE` TLC violates `AtMostOnePost`: the window is checked on the claimed row,
  the conversation is awaited, and the send may leave after the hour (section 5).
* With `MaxOpenEnqueues = 2` the `admission` run loses `InAcceptedOrder` for the same reason as
  `SerializedConversation`.
* In `TeamContext` a load that fetched before a denial may be accepted after it: the snapshot that
  `invalidate` emptied is filled again and can be offered as stale (`team-context-store.ts:56`),
  where `CONTEXT.md` has a denial invalidate it at once.
* `pause` keeps `latest_missed_at`, so a resumed task catches up for a time before the pause
  (`schedule-store.ts:355`); the design of the scheduled tasks has paused times not caught up.
* A signal while `start` awaits its storage, the model's preflight or `listen` does not stop `start`:
  it opens the health server and sets the retry timer after `stop` has returned (`app.ts:320`). That
  is why `NothingOutlivesStop` speaks of timer and server only for a start that had returned
  (`clean`).
* Two overlapping polls fold an occurrence that has its run into `latest_missed_at`; every later poll
  then fails on the unique index until the next due time (`dispatcher.ts:83`, against the design of
  the scheduled tasks, line 398). With two `Pollers` the `schedules` run loses
  `DispatchableIsUnrun`.
* An error after Feishu confirmed a scheduled result still tells the chat of origin that it was not
  delivered (`schedule/worker.ts:140`, against line 386 of the design): `NoticeOnlyUnconfirmed` of
  `ScheduledDelivery` does not hold.
* A write whose answer is lost while the run is not aborted is reported as a confirmed failure,
  although Feishu may have taken it (`run.ts:246`, `run-outcome.ts:72`; ADR 0010 has unknown outcomes
  reported as unknown). That is the exception in `ReceiptsTellTheTruth`.
* A rejected fetch stays in the cache: every later read of the document fails until a write
  (`agent/tools.ts:309`). A write through `updateTeamContext` does not invalidate the document.
* A search fails at its first failing window; the commands of the others run on beside the next call.
* A page of the history that cannot be recorded is never shown, and the traversal is then exhausted.
* A journal that was written and cannot be read back (`minori-release:780`) is left behind by an
  attempt recorded as failed before the replacement; the next run records its rollback as well.
* `dispatcher.stop` does not await the poll under way (`dispatcher.ts:91`), which may then use a
  closing pool. `AppLifecycle` counts the dispatcher as stopped when its timer is cleared.

### Bounds, and why they are enough

* `MaxFaults` bounds failures, deaths and early lease expiries, and with them the claims: every
  claim but the first follows a fault. Three faults give an execution that outlives its lease, one
  that took over, one that fails and one that reports: every pair of steps of two executions, and
  what a third one makes of it. The proofs hold for any bound.
* One event is enough for the properties of `MessageWorker`, which speak of one event at a time;
  other events only delay a claim, and that they do not delay it for good is `EverythingAdmitted` of
  the `admission` run. Unsupported events take a shorter path, which the proofs cover.
* Three events in two conversations, two slots and two loops are the least that let a queue form
  behind a head, a third one compete, and a run and a message ask for the same chat.
* Three ticks let a time fall due, be folded behind an active run and be caught up, and leave a
  later one; three versions let a task be created and changed twice.
* `MaxDeliveries` equals the number of events, so a duplicate takes the place of a first delivery:
  both cases occur, not at once.
* Two loads are the least that finish out of order, and an update beside them the least that meets
  an edit between its two fetches; three revisions give each of the three writers one. The third
  load or update differs from these in nothing, and the proofs hold for any number.
* Three initialisations (`MaxRuntimes`) are the first one and two retries: one that fails, one that
  follows it, and one that a faulty `ensureMessageRuntime` would begin beside them.
* Three reads and a write are the least in which a read follows a cursor across a write while another
  read shares its fetch. One revision is shorter than the others, so that a cursor can lead beyond
  the end. Two windows of one and two pages are the least in which one ends before the other; two
  revisions of a content and two of its pages the least in which it changes between them. One byte
  is both the size of a transcript and the budget. The families share nothing but the signal, so
  calls of different families are paired, not multiplied; what is proved holds for any mix.
* Three releases are one that is interrupted, one that recovers it and may be interrupted in that, and
  one that finds what both left; three faults stop a release, its rollback and the recovery. Three
  images and a full state let one fall out and be removed. The proofs hold for any number.
* `LateSignals` is FALSE in `release`: with it TRUE `SuccessIsFinal` and `StateNamesWhatRuns`
  fail as said above, and nothing could be said of the rest of the script.
* `AdmissionSlots` is 4 outside `Admission`, where it must not matter.

No symmetry and no state constraint is used; every bound is a guard.

### Fairness

Weak fairness only, and only of what the code drives by itself: `Claim` (poll timer and wake),
the steps of a live execution (`Runs`; an await returns or its deadline fires), `AgentReturns` (a
step limit and a time limit end every run), the landing of a request that was sent, the recovery
timer on leases nobody works under, the dispatcher's poll, the end of a claimed run. No fault, no
member action and no delivery is fair. `MemberSignals` deliberately assumes nothing of the marker
statement and of the gateway: that is what `SettledDespiteSignals` is about. In `ScheduledDelivery`
only time and the recovery timer are fair, and the execution may simply stop. In `AgentTools` one
weak fairness covers what goes on by itself (`Progress`): the run's timeout, the timers of commands,
the exit of a killed child and its `close`, answers and statements under way, and calls that are
ready. The model, the members and a child that was not killed are under no obligation. In `Release` the
script's own steps are fair: every command it awaits returns, health checks and downloads after a
bounded number of attempts. Nobody has to begin a release, and no fault is fair.

### Deadlock

It is checked in every run but those of `AgentTools`, where a run ends and nothing is left to do
(`EverythingEnds` says that this is how it stops). `MessageWorker`, `ScheduledDelivery` and `MemberSignals` have an `Idle`
step (`SignalsIdle` in the last) for states in which everything is settled, so a state without successor would be one in which
something is stuck; that of `AppLifecycle` is for the process that has stopped, and `Rest` of `Release` for the host after
the last release of the bound. In `TeamContext` a new
load can always begin, in `Admission` a waiting loop can always wake, in `Schedules` a poll can always
find nothing.


## 4. What is proved

### MessageWorkerProofs

For every set of events, conversations, attempt limit, slots and number of faults, from the
assumptions `StoreAssumption` and `WorkerAssumption` on the constants:

| Theorem | Says |
|---|---|
| `TypeCorrect` | `Spec => []TypeOK` |
| `WritesOnce` | `Spec => []OneWritingClaim` |
| `WritesAreNotReplayed` | `Spec => []NoReplayAfterWrite` |
| `KeyNamesOneReply` | `Spec => []OneReplyPerKey` |
| `RepliesAreVisible` | `Spec => []RepliedIsVisible` |
| `PostsAtMostOnce` | `Spec => []AtMostOnePost`, assuming `PromptSends` |
| `SettledForGood` | `Spec => TerminalIsFinal` |
| `Invariance` | `Spec => [](Base /\ Fences)` |
| `DeliveryHolds` | `Spec => []DeliveryInv` |
| `QueueDelivers` | `Spec => DeliversOnce`, assuming `PromptSends`: the worker implements `ReplyDelivery` |

None of the properties is inductive. `Base` (types, *Budget*, *Fresh*, *Unaccepted*) and `Fences` are:

* *Budget* and *Fresh*: `attempts` never exceeds faults + 1, and a claim not handed out has left no
  trace. So the claim of a new execution is new, and its step, reply and request are its own.
* *WriteFence*: a write that began is on the row; every later claim saw it there; an execution that
  saw a write never writes. With the fence of `beginWrite` this gives one writing claim: of two
  claims that began a write the later one would have seen the earlier one's.
* *ReplyFence*: an execution that may send holds the reply of the row; the owner of a row that still
  has to prepare one finds none there. So `markReplyStarted`, fenced by the claim, never replaces a
  reply, although executions that lost the row still run.
* *Visibility*: what an execution knows of its reply is true in the chat.
* *WindowFence*, for `PostsAtMostOnce` and `QueueDelivers`: once the window is over nobody stands between its
  check and the send.

Each statement of the table has a lemma (`ClaimedRow`, `RetriedRow`, ...) that says what it does to
the row and that it leaves the others alone; the step lemmas use these instead of the records.

The refinement needs more than the fences, `DeliveryInv`:

* *Provenance*: the reply on a row, and the one an execution holds, was composed by the claim it names,
  and that is this claim or an earlier one; nothing is under way or visible before its send. So the
  reply of an event is decided once: a later claim finds it or composes the first.
* *Settled*: a row has an outcome exactly when it is terminal.
* *GiveUpFence*: when an event is given up nobody has sent its reply and nobody will. It is the delicate
  one: an execution may give up with a reply on the row (its deadline struck between the commit of
  `markReplyStarted` and its return), and then no other execution may hold that reply.

`StepRefines` takes the steps one by one: enqueue accepts, the commit of `markReplyStarted` decides,
the first landing of a send posts, and the statement that makes the row terminal settles
(`EnqueueRefines`, `MarkingRefines`, `LandingRefines`, `SettlingRefines`); everything else stutters. A
second landing stutters because the window is still open then (*WindowFence*) and Feishu recognises the
key, which is where `PromptSends` comes in.

### AdmissionProofs

For any events, conversations, runs, loops, slots, deliveries and disturbances, from
`AdmissionAssumption` and `StoreAssumption`:

| Theorem | Says |
|---|---|
| `Invariance` | `Spec => []Base` |
| `CapacityHolds` | `Spec => []WithinCapacity` |
| `ChatsAreExclusive` | `Spec => []ChatHasOneInvocation` |
| `OrderIsKept` | `Spec => []OrderInv`, assuming `MaxOpenEnqueues = 1` |
| `ConversationInOrder` | `Spec => InAcceptedOrder`, assuming `MaxOpenEnqueues = 1` |
| `ConversationIsSerialized` | `Spec => []SerializedConversation`, assuming `MaxOpenEnqueues = 1` |

Lemma `WorkStarts` is the core: of all steps only the two claims add work, one piece each, and only
under their `where` clauses. With the types (`Base`) capacity and exclusion are inductive by it. The
order of a conversation needs `OrderInv`: the stamps grow in the order of acceptance, the stamp of the
enqueue under way is later than all (*StampsAhead*, *AcceptedByStamp*), and before an event in
processing nothing of its conversation is unsettled (*EarlierSettled*). `MaxOpenEnqueues = 1` is not
a fact about the code, and the theorems do not say it is: the run `admission_race` refutes
`SerializedConversation` with two enqueues open, and `ConversationIsSerialized` shows that this race
is the only way to it.

### SchedulesProofs

For any tasks, names, horizon, versions, edits and polls, from `ScheduleAssumption`:

| Theorem | Says |
|---|---|
| `LifeHolds` | `Spec => []LifeInv` |
| `PlannedTimesRunOnce` | `Spec => []PlannedTimeRunsOnce` |
| `NothingIsStuck` | `Spec => []NothingStuck` |
| `NamesDoNotOverlap` | `Spec => []NoOverlapUnderOneName` |
| `DuesHold` | `Spec => []DueInv`, assuming `OnePollAtATime` |
| `DispatchablesAreUnrun` | `Spec => []DispatchableIsUnrun`, assuming `OnePollAtATime` |

`LifeInv` says of each task that a run not claimed yet was never invoked, that one run is active at
most, that the states of task and runs agree (*StateMatchesRuns*: a queued run is behind a task it can
be claimed for) and that whoever runs holds the name, also after a pause or a delete (*HoldsName*); and
of all tasks that reserved names are unique. No step changes more than one task (`OneTaskChanges`).

`DueInv` is about the list a poll works off while members and the worker change the tasks: runs exist
only for times that are past and before the next due time (*RunsArePast*), a missed time has no run
(*MissedUnrun*), and what is still on the list is due, or the missed time of its task, with a later
next time (*DuesAreSound*). `createDue` checks the due time again, which is why a stale entry does no
harm. `OnePollAtATime` (at most one element in `Pollers`) is needed and not guaranteed: the timer
starts a poll while another is under way when that takes longer than the interval
(`dispatcher.ts:84`). The last two theorems are therefore about a dispatcher that keeps up; what two
polls do to each other is among the disagreements of section 3.

### ScheduledDeliveryProofs

For every set of runs: `Invariance`, `SentOnce` (`SentOnceOnRecord`), `CompletedIsPosted`
(`CompletedMeansPosted`) and `EndsForGood` (`EndIsFinal`). The invariant of one run says that
nothing precedes its step (*InOrder*), that the record precedes the only request (*Recorded*), and
that what row and execution say of the result is true in the chat (*Confirmed*). `OneRun` lifts it
from the run that steps to all runs.

### TeamContextProofs

For every number of loads, updates and revisions and every grace period: `NoRegress`
(`AnswersDoNotRegress`), `Grace` (`StaleWithinGrace`) and `WritesAreChecked`
(`WritesApplyToWhatWasRead`), from `Invariance`. The strengthening: what is known never passes the
revision of the row, and no floor passes what is known (*Ordered*); row and loads carry the time
Feishu was read (*Dated*); a patch is sent only on the revision its checks read (*Checked*).

### ProcessProofs

Two components that keep their state in the memory of one process. They share no state; the module
extends both.

`AppLifecycle`, for any number of initialisations: `RunsAtMostOne` (`OneRuntime`) and
`StopLeavesNothing` (`NothingOutlivesStop`), from `Invariance`. Whatever runs belongs to the one
initialisation under way or to the published runtime, and there are never both (*Exclusive*); once
`stop` has gone on there is neither, and none can begin (*Stopping*); before the health server listens
none has begun (*Starting*).

`MemberSignals`, for any events, `AttemptLimit` and `MaxFaults`, from `SignalsAssumption` and
`StoreAssumption`:

| Theorem | Says |
|---|---|
| `SignalsInvariance` | `SignalsSpec => []SignalsInv` |
| `ProgressAtMostOnce` | `SignalsSpec => []AtMostOneProgress` |
| `FinalReplyIsLast` | `SignalsSpec => []FinalComesLast` |
| `NoCallBeginsAfterFinal` | no step adds to the calls of an event in `finalSent \ overrun` |
| `ReactionsAreHeld` | `SignalsSpec => []ShownIsHeld` |

`FinalComesLast` by itself is not inductive: that no call is under way does not say that none
can begin. `SignalsInv` is therefore about who *may* call, `MayCall`: an execution that is calling, or
whose reply is armed, marking or admitted under a handle that is not settled in a process that lives.
It is a statement of each event, because no step but a crash touches two (`OneEvent` lifts it):

* *Silent*: an execution that marks or sends the final reply, or has ended, may not call. The drain of
  `settle` is what makes this true of a call under way, the flag of one that is still to come.
* *OneAlive*: unless one outlived its lease, an event has one live execution. So at the moment of the
  send nobody else may call either, and *Last* keeps this: the final reply is on the row by then, and
  `claimReady` hands a later execution a row that starts no progress reply.
* *Marked*: before the marker is set nobody is admitted, and it admits one execution, whose one call
  is counted; that is all `AtMostOneProgress` needs, overlap included.
* *Held*: `ShownIsHeld`, with *Numbered*, which says that an execution holds a reaction only when the
  event is over: the statement that ends an event passes the reaction on, and nobody has it already.
* *Numbered* and *Budget*: claims are handed out in order, and each but the first follows a fault. So
  `MaxFaults + 1` claims are enough, and the bound on `Claims` cuts no retry off.

One lemma for each statement on the row (`QueueStatements`, `WorkerStatements`, `SignalStatements`) says
which columns it sets, and `KeepsNumbered`, `KeepsSilent` and `KeepsMarked` say what a step keeps
by what it changes; the lemmas of the single steps rest on these.

### AgentToolsProofs

For any number of calls, revisions, pages and quotas, whatever the other tools do and whenever the
signal fires:

| Theorem | Says |
|---|---|
| `ReceiptsAreTrue` | `Spec => []ReceiptsTellTheTruth` |
| `ReadsSeeWrites` | `Spec => []ReadsOwnWrites` |
| `DocumentsAreOneSnapshot` | `Spec => []DocumentPagesOfOneSnapshot` |
| `HistoryMissesNothing` | `Spec => [](CursorNamesItsPage /\ ShownOnceOnRecord)` |
| `MeetingsInvariant` | `Spec => []MeetingsInv` |
| `DirectoriesOutliveWriters` | `Spec => []DirectoryOutlivesWriter` |
| `PagesAreOneSnapshot` | `Spec => []PagesOfOneSnapshot` |
| `TraversalsAreComplete` | `Spec => []TraversalsMissNothing` |
| `TerminationEndsTheCall` | `Spec => TerminationIsNotRetried` |

*Honest* says by its phase what a write has done and what row and receipt may say (`WritesInv`).
*Fresh* and *Continued* are the heart of the second and third: while no fetch was under way at an
invalidation, every waiting read waits for the fetch in the cache, and what is kept, the fetched
document and the page sets, is at least as new as every write reported so far; and every cursor
belongs to the pages that are kept. *Ahead* and *Counted* say that the traversal stands one page
after the last one asked for, so that a page asked for is always a new one.

`MeetingsInv` is the invariant of the meeting tools, in four parts. *CallsInv*: one call is active at
most, those before it have ended, and a cursor names an answered call that had more. *CommandsInv*:
a command of a call exists only while the active call awaits it, and only that one writes, into the
call's own directory. *SnapshotsInv*: a content call that is reading found no snapshot, and an
answered one shows the snapshot of its request, which is therefore taken once. *SearchInv*: a search
under way stands where its cursor left it, and an answered one has returned every window up to the
page it names and all pages of a window it no longer asks. `Alone` and `Steps` reduce each of the
handler's steps to what it does to the active call. `MeetingsAssumption` asks that every window has
at least one page and that bounds are natural numbers; the number of windows, pages, requests
and revisions is free.

### ReleaseProofs

For any images, number of releases and number of faults, from `ReleaseAssumption`:

| Theorem | Says |
|---|---|
| `ReleaseInvariant` | `Spec => []IInv` |
| `JournalSettles` | `Spec => []JournalCanBeSettled` |
| `RollbackSetHolds` | `Spec => []RollbackSetIsUsable` |
| `RecordsAreTrue` | `Spec => RecordsTellTheTruth` |
| `HostCanRelease` | `Spec => []StateNamesWhatRuns`, assuming `LateSignals = FALSE` |
| `SuccessStays` | `Spec => SuccessIsFinal`, assuming `LateSignals = FALSE` |

The properties speak of the host between runs, so the invariant has to say where each step of a run has
put it. *StateInv* and *JournalInv* hold of the disk alone: the state and the saved state are usable
rollback sets, and the service is at one of the journal's two ends. *OwnJournal* says from which step
to which the journal is the run's own, *Progress* and *Recovery* what service and state are at each
step of a release, a rollback and a recovery; *Quiet* is what remains when the run has ended. *Numbers*
makes an attempt new, and *Successes* says that a success on record implies a state that names its
image, which is what the recovery goes by. `NextStateIsSound` shows that the promoted state is a
rollback set again.

### Model-checked only

The liveness properties: `EventuallySettled`, `EverythingAdmitted`, `MissedIsTakenUp`, `ClaimedRunEnds`,
`SettledDespiteSignals`, `EverythingEnds` and `RecoversWhenFaultsStop`. Fairness and ENABLED are out of
the prover's reach. Every safety and action property of a passing run is a theorem. Of the properties `Admission` and `Schedules` have under assumptions the
code does not guarantee, the theorems name the assumption, and TLC checks them on instances
that satisfy it.

The type invariants of `MessageWorker`, `Admission`, `Schedules`, `ScheduledDelivery`, `TeamContext`,
`AppLifecycle`, `MemberSignals` and `Release` are part of the inductive invariants above and are not run
again, nor is `RepliedIsVisible`, which `DeliversOnce` contains; that of `AgentTools` is stated as
documentation of the state: it bounds the revisions by the domain of `PageCount`, which is a bound of the
instance, and the invariants proved of its parts use the natural numbers instead.


## 5. Assumptions and abstractions

* **Leases.** The execution's deadline (15 minutes) is shorter than its lease (20): an expiry under a
  live execution is possible but counts as a fault.
* **Deduplication.** Within the window Feishu answers a repeated key with the message it posted;
  after it, a repeated key posts again. `PromptSends` states that the window does not close between
  an execution's check and the landing of its send. The code bounds the time between them by its
  own deadline but does not check again, so this is an assumption about the hour, not a fact about
  the code; with `PromptSends = FALSE` the property fails.
* **Back-off.** At least 30 seconds, and the HTTP timeout is 30 seconds: `MemberSignals` lets a claim
  start only when earlier executions have ended, except for events in `overrun`.
* **Schedules** has one clock. `resume` uses the application's clock and the dispatcher the
  database's; a skew between the two is not modelled.
* **Optimistic versions** of the schedule tools are left out: a mutation based on an old version
  changes nothing.
* **Data.** Texts, prompts, message contents, token windows, names, formats and time zones are
  abstracted away; the calendar is "next and latest occurrence".
* **Team Context.** A missing document and a forbidden one are both "not readable". `docs.patch`
  applies to the revision named in the call and to no other: that is how the code uses
  `--revision-id`, and it is assumed of Feishu.
* **Tools of a run.** No descendant of `lark` keeps the pipes of a killed command open, so a killed
  child closes. The service's own deadlines on a query are within the run's timeout and not told
  apart from it. One document, one meeting reference and one search are modelled; Feishu takes a
  write only at the revision the command names. How complete an answer claims to be, the names of
  speakers and the citations are left out.
* **Application.** The connection's own start and stop belong to a library; they are assumed to
  return. The preflight of model and CLI is "ready or not".
* **Release.** `ci-deploy` holds a lock, so one run at a time. A file is replaced by a rename and removed
  at once; a crash of the host loses neither. A rehearsal's journal, which stops every release until
  the operator ends the rehearsal, is assumed absent, and nobody changes images, files or the service
  by hand. The migration only adds to the schema, so an older image can run after it.
* **Constants.** Each module states its assumptions on its constants (`...Assumption`); TLC evaluates
  them in every run of the module.


## 6. Not modelled, and the plan

| Next | Module | What it adds | Composes |
|---|---|---|---|
| 1 | `Calendar` | The next and latest occurrence over a small zone with a gap and an overlap, against a definition by quantifier | used by `Schedules` in place of "every tick" |
| 2 | `Retention` | What a purge may remove while an event refers to it | with `EventStore` |

Runs planned beside them: what may still be shown of the Team Context after a denial.

Of the modelled tools these parts are left out: `createDocument` (it has nothing to invalidate),
the paging of member names and the counts in the audits of a group history, a write to the standard
input of a command that throws at once, sources and citations, and all rendering.

Left out for good: prompts and the choice of tools (no state), HTTP and CLI clients (pure input and
output; their requests appear as external steps), configuration, health probes, logging, the
rehearsal and the installation of the host, and the
generated migrations, of which only the unique indexes matter and are cited where they are used.
