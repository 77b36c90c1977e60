------------------------------ MODULE AppLifecycle ------------------------------
(***************************************************************************)
(* The life of the process (src/src/app.ts, called by src/src/main.ts):    *)
(* start, the initialisation of the message runtime with its retries every *)
(* 30 seconds, and stop, which a signal may bring at any moment.  All of   *)
(* them await; one step of the model is what runs between two awaits.      *)
(*                                                                         *)
(* A runtime is the set of objects one initialisation makes: connection,   *)
(* worker, and, when schedules are enabled, scheduled worker, coordinator  *)
(* and dispatcher.  They are published in the variables of createApp       *)
(* together, so one variable (current) stands for them.  A component that  *)
(* is told to stop counts as running until its stop has returned: its      *)
(* loops finish the execution they are at.                                 *)
(***************************************************************************)
EXTENDS Naturals

CONSTANT MaxRuntimes   \* bound on the initialisations begun

ASSUME LifecycleAssumption == MaxRuntimes \in Nat

VARIABLES
  scheduled,      \* config.scheduleEnabled
  start,          \* where start() stands
  stop,           \* where stop() stands
  shuttingDown,
  clean,          \* stop() was called when start() had returned
  retryTimer,     \* runtimeRetryTimer is set
  maintaining,    \* a maintainRuntime awaits its probe
  health,         \* the health server listens (healthStarted)
  storage,
  begun,          \* the initialisations begun so far
  init,           \* init[n]: where the n-th initialisation stands
  up,             \* up[n]: the components of its runtime that run
  current         \* the published runtime, 0 for none

vars == <<scheduled, start, stop, shuttingDown, clean, retryTimer, maintaining, health,
          storage, begun, init, up, current>>

Runtimes == 1 .. MaxRuntimes
Components == {"connection", "worker", "scheduled", "coordinator", "dispatcher"}
Pending == {"checking", "starting", "connecting", "undoing"}

TypeOK ==
  /\ scheduled \in BOOLEAN
  /\ start \in {"none", "storage", "preflight", "listening", "initializing", "done", "failed"}
  /\ stop \in {"none", "awaiting", "draining", "closing", "done"}
  /\ shuttingDown \in BOOLEAN
  /\ clean \in BOOLEAN
  /\ retryTimer \in BOOLEAN
  /\ maintaining \in BOOLEAN
  /\ health \in BOOLEAN
  /\ storage \in {"new", "open", "closed"}
  /\ begun \in 0 .. MaxRuntimes
  /\ init \in [Runtimes -> {"none", "ended"} \union Pending]
  /\ up \in [Runtimes -> SUBSET Components]
  /\ current \in 0 .. MaxRuntimes

Init ==
  /\ scheduled \in BOOLEAN
  /\ start = "none"
  /\ stop = "none"
  /\ shuttingDown = FALSE
  /\ clean = FALSE
  /\ retryTimer = FALSE
  /\ maintaining = FALSE
  /\ health = FALSE
  /\ storage = "new"
  /\ begun = 0
  /\ init = [n \in Runtimes |-> "none"]
  /\ up = [n \in Runtimes |-> {}]
  /\ current = 0

-------------------------------------------------------------------------------
\* ensureMessageRuntime

runtimeInitialization == \E n \in Runtimes : init[n] \in Pending

Begins ==
  /\ begun' = begun + 1
  /\ init' = [init EXCEPT ![begun + 1] = "checking"]

\* Faulty: the initialisation under way is not remembered.
EnsureAnew ==
  IF current # 0 \/ shuttingDown
    THEN UNCHANGED <<begun, init>>
    ELSE begun < MaxRuntimes /\ Begins

\* An initialisation under way is joined; a published runtime and a shutdown need none.
Ensure ==
  IF runtimeInitialization \/ current # 0 \/ shuttingDown
    THEN UNCHANGED <<begun, init>>
    ELSE begun < MaxRuntimes /\ Begins

-------------------------------------------------------------------------------
\* initializeMessageRuntime

GotoInit(n, step) == init' = [init EXCEPT ![n] = step]

\* The model or the CLI is not ready, the configuration is incomplete, or the model
\* cannot be made.
CheckFails(n) ==
  /\ init[n] = "checking"
  /\ GotoInit(n, "ended")
  /\ UNCHANGED <<scheduled, start, stop, shuttingDown, clean, retryTimer, maintaining, health,
                 storage, begun, up, current>>

\* worker.start awaits a recovery of expired leases.
StartWorker(n) ==
  /\ init[n] = "checking"
  /\ GotoInit(n, "starting")
  /\ up' = [up EXCEPT ![n] = {"worker"}]
  /\ UNCHANGED <<scheduled, start, stop, shuttingDown, clean, retryTimer, maintaining, health,
                 storage, begun, current>>

StartScheduling(n) ==
  /\ init[n] = "starting"
  /\ GotoInit(n, "connecting")
  /\ up' = [up EXCEPT ![n] =
       @ \union IF scheduled THEN {"scheduled", "coordinator", "dispatcher"} ELSE {}]
  /\ UNCHANGED <<scheduled, start, stop, shuttingDown, clean, retryTimer, maintaining, health,
                 storage, begun, current>>

\* The connection is stopped, or never came up; the dispatcher stops at once.
Undoes(n) ==
  /\ GotoInit(n, "undoing")
  /\ up' = [up EXCEPT ![n] = @ \ {"connection", "dispatcher"}]
  /\ UNCHANGED current

ConnectFails(n) ==
  /\ init[n] = "connecting"
  /\ Undoes(n)
  /\ UNCHANGED <<scheduled, start, stop, shuttingDown, clean, retryTimer, maintaining, health,
                 storage, begun>>

\* The runtime is published, unless the shutdown has begun.
Connected(n) ==
  /\ init[n] = "connecting"
  /\ IF shuttingDown
       THEN Undoes(n)
       ELSE /\ GotoInit(n, "ended")
            /\ up' = [up EXCEPT ![n] = @ \union {"connection"}]
            /\ current' = n
  /\ UNCHANGED <<scheduled, start, stop, shuttingDown, clean, retryTimer, maintaining, health,
                 storage, begun>>

\* The component of a list whose stop is awaited next.
NextDown(order, running) ==
  {c \in running : \A d \in running : order[c] <= order[d]}

\* coordinator, scheduled worker, worker
UndoOrder == [c \in Components |->
  CASE c = "coordinator" -> 1 [] c = "scheduled" -> 2 [] OTHER -> 3]

Undo(n) ==
  /\ init[n] = "undoing"
  /\ IF up[n] = {}
       THEN GotoInit(n, "ended") /\ UNCHANGED up
       ELSE /\ \E c \in NextDown(UndoOrder, up[n]) : up' = [up EXCEPT ![n] = @ \ {c}]
            /\ UNCHANGED init
  /\ UNCHANGED <<scheduled, start, stop, shuttingDown, clean, retryTimer, maintaining, health,
                 storage, begun, current>>

-------------------------------------------------------------------------------
\* start

StartBegins ==
  /\ start = "none"
  /\ start' = "storage"
  /\ storage' = "open"
  /\ UNCHANGED <<scheduled, stop, shuttingDown, clean, retryTimer, maintaining, health, begun,
                 init, up, current>>

\* storage.start and modelPreflight.initialize never reject.
StartGoesOn ==
  /\ \/ start = "storage" /\ start' = "preflight"
     \/ start = "preflight" /\ start' = "listening"
  /\ UNCHANGED <<scheduled, stop, shuttingDown, clean, retryTimer, maintaining, health,
                 storage, begun, init, up, current>>

ListenFails ==
  /\ start = "listening"
  /\ start' = "failed"
  /\ storage' = "closed"
  /\ UNCHANGED <<scheduled, stop, shuttingDown, clean, retryTimer, maintaining, health, begun,
                 init, up, current>>

Listens ==
  /\ start = "listening"
  /\ start' = "initializing"
  /\ health' = TRUE
  /\ Ensure
  /\ UNCHANGED <<scheduled, stop, shuttingDown, clean, retryTimer, maintaining, storage, up,
                 current>>

\* The first initialisation is over, whatever it came to; the timer will try again.
StartEnds ==
  /\ start = "initializing"
  /\ ~runtimeInitialization
  /\ start' = "done"
  /\ retryTimer' = TRUE
  /\ UNCHANGED <<scheduled, stop, shuttingDown, clean, maintaining, health, storage, begun,
                 init, up, current>>

-------------------------------------------------------------------------------
\* maintainRuntime

TimerFires ==
  /\ retryTimer
  /\ maintaining' = TRUE
  /\ UNCHANGED <<scheduled, start, stop, shuttingDown, clean, retryTimer, health, storage,
                 begun, init, up, current>>

\* The probe of the CLI is over.
Maintain ==
  /\ maintaining
  /\ maintaining' = FALSE
  /\ Ensure
  /\ UNCHANGED <<scheduled, start, stop, shuttingDown, clean, retryTimer, health, storage, up,
                 current>>

-------------------------------------------------------------------------------
\* stop

\* A signal.  main calls start before it can handle one.
Stop ==
  /\ stop = "none"
  /\ start # "none"
  /\ stop' = "awaiting"
  /\ shuttingDown' = TRUE
  /\ clean' = (start = "done")
  /\ retryTimer' = FALSE
  /\ UNCHANGED <<scheduled, start, maintaining, health, storage, begun, init, up, current>>

\* What stop does when it goes on: connection and dispatcher stop at once.
Disconnects ==
  /\ stop' = "draining"
  /\ up' = IF current = 0 THEN up
           ELSE [up EXCEPT ![current] = @ \ {"connection", "dispatcher"}]
  /\ UNCHANGED <<scheduled, start, shuttingDown, clean, retryTimer, maintaining, health,
                 storage, begun, init, current>>

\* Faulty: the initialisation under way is not awaited.
StopAtOnce == stop = "awaiting" /\ Disconnects

StopGoesOn ==
  /\ stop = "awaiting"
  /\ ~runtimeInitialization
  /\ Disconnects

\* coordinator, worker, scheduled worker
StopOrder == [c \in Components |->
  CASE c = "coordinator" -> 1 [] c = "worker" -> 2 [] OTHER -> 3]

StopDrains ==
  /\ stop = "draining"
  /\ IF current # 0 /\ up[current] # {}
       THEN /\ \E c \in NextDown(StopOrder, up[current]) :
                 up' = [up EXCEPT ![current] = @ \ {c}]
            /\ UNCHANGED <<stop, current>>
       ELSE /\ stop' = "closing"
            /\ current' = 0
            /\ UNCHANGED up
  /\ UNCHANGED <<scheduled, start, shuttingDown, clean, retryTimer, maintaining, health,
                 storage, begun, init>>

\* The health server closes, then the pool.
StopCloses ==
  /\ stop = "closing"
  /\ \/ health /\ health' = FALSE /\ UNCHANGED <<stop, storage>>
     \/ ~health /\ storage' = "closed" /\ stop' = "done" /\ UNCHANGED health
  /\ UNCHANGED <<scheduled, start, shuttingDown, clean, retryTimer, maintaining, begun, init,
                 up, current>>

-------------------------------------------------------------------------------

InitStep(n) ==
  \/ CheckFails(n) \/ StartWorker(n) \/ StartScheduling(n)
  \/ ConnectFails(n) \/ Connected(n) \/ Undo(n)

Idle ==
  /\ stop = "done"
  /\ start \in {"done", "failed"}
  /\ ~retryTimer /\ ~maintaining
  /\ UNCHANGED vars

Next ==
  \/ StartBegins \/ StartGoesOn \/ ListenFails \/ Listens \/ StartEnds
  \/ TimerFires \/ Maintain
  \/ \E n \in Runtimes : InitStep(n)
  \/ Stop \/ StopGoesOn \/ StopDrains \/ StopCloses
  \/ Idle

Spec == Init /\ [][Next]_vars

-------------------------------------------------------------------------------
\* Properties

\* Never two runtimes at once: two of them would claim with twice the slots and answer
\* each event over two connections.  Neither start and the retry timer, nor a retry that
\* finds the last one still connecting or being undone, may begin a second.
OneRuntime ==
  \A m, n \in Runtimes : m # n => up[m] = {} \/ up[n] = {}

\* The pool is closed only when nothing of any runtime runs any more, wherever in an
\* initialisation the signal came; and when stop() has returned after a start() that had
\* returned, there is no timer that would try again and no health server.
NothingOutlivesStop ==
  /\ storage = "closed" => \A n \in Runtimes : up[n] = {}
  /\ stop = "done" /\ clean => ~retryTimer /\ ~health /\ current = 0

===============================================================================
