----------------------------- MODULE ProcessProofs -----------------------------
(***************************************************************************)
(* Proofs about what one process keeps in memory and loses when it dies:   *)
(* the components of its runtime (AppLifecycle) and, beside the rows of    *)
(* the events, their executions, progress replies and reactions            *)
(* (MemberSignals).  The two modules share no state and no argument.       *)
(*                                                                         *)
(* AppLifecycle first.  Whatever runs belongs to the one initialisation    *)
(* under way or to the published runtime, and there are never both         *)
(* (Exclusive); once stop has gone on there is neither, and none can begin *)
(* any more (Stopping); before the health server listens none has begun    *)
(* (Starting).                                                             *)
(***************************************************************************)
EXTENDS AppLifecycle, MemberSignals, TLAPS

Exclusive ==
  /\ \A n \in Runtimes : n > begun => init[n] = "none"
  /\ \A n \in Runtimes : up[n] # {} => init[n] \in Pending \/ n = current
  /\ \A n \in Runtimes : init[n] = "checking" => up[n] = {}
  /\ \A m, n \in Runtimes : init[m] \in Pending /\ init[n] \in Pending => m = n
  /\ current # 0 => ~runtimeInitialization /\ current <= begun

Stopping ==
  /\ stop # "none" => shuttingDown
  /\ stop \in {"draining", "closing", "done"} => ~runtimeInitialization
  /\ stop \in {"closing", "done"} => current = 0
  /\ clean => stop # "none" /\ start = "done" /\ ~retryTimer
  /\ stop = "done" /\ clean => ~health
  /\ storage = "closed" => stop = "done" \/ start = "failed"

Starting ==
  start \in {"none", "storage", "preflight", "listening", "failed"} =>
    begun = 0 /\ current = 0 /\ ~retryTimer /\ ~maintaining

IInv == TypeOK /\ Exclusive /\ Stopping /\ Starting

\* Init establishes the invariant.
LEMMA Initially == Init => IInv
<1> SUFFICES ASSUME Init PROVE IInv
  OBVIOUS
<1>1. \A n \in Runtimes : init[n] = "none" /\ up[n] = {}
  BY DEF Init
<1>2. TypeOK
  <2>1. 0 \in 0 .. MaxRuntimes
    BY LifecycleAssumption
  <2>2. init \in [Runtimes -> {"none", "ended"} \union Pending]
    BY DEF Init
  <2>3. up \in [Runtimes -> SUBSET Components]
    BY DEF Init
  <2>4. QED  BY <2>1, <2>2, <2>3 DEF Init, TypeOK
<1>3. Exclusive
  BY <1>1 DEF Init, Exclusive, Pending
<1>4. Stopping /\ Starting
  BY DEF Init, Stopping, Starting
<1>5. QED  BY <1>2, <1>3, <1>4 DEF IInv

\* An initialisation begins only where there is neither one under way nor a runtime.
LEMMA Ensuring ==
  ASSUME IInv, Ensure, current' = current, up' = up
  PROVE  /\ begun' \in 0 .. MaxRuntimes
         /\ init' \in [Runtimes -> {"none", "ended"} \union Pending]
         /\ Exclusive'
         /\ shuttingDown => UNCHANGED <<begun, init>>
<1> USE LifecycleAssumption
<1>1. CASE runtimeInitialization \/ current # 0 \/ shuttingDown
  BY <1>1 DEF Ensure, IInv, TypeOK, Exclusive, runtimeInitialization
<1>2. CASE ~(runtimeInitialization \/ current # 0 \/ shuttingDown)
  <2>1. /\ begun < MaxRuntimes /\ begun' = begun + 1
        /\ init' = [init EXCEPT ![begun + 1] = "checking"]
    BY <1>2 DEF Ensure, Begins
  <2>2. begun \in Nat /\ begun + 1 \in Runtimes /\ begun' \in 0 .. MaxRuntimes
    BY <2>1 DEF IInv, TypeOK, Runtimes
  <2>3. init' \in [Runtimes -> {"none", "ended"} \union Pending]
    BY <2>1, <2>2 DEF IInv, TypeOK, Pending
  <2>4. \A n \in Runtimes : n > begun' => init'[n] = "none"
    BY <2>1, <2>2 DEF IInv, TypeOK, Exclusive, Runtimes
  <2>5. up[begun + 1] = {}
    <3>1. init[begun + 1] = "none"
      BY <2>2 DEF IInv, Exclusive
    <3>2. QED  BY <3>1, <2>2, <1>2 DEF IInv, Exclusive, Pending
  <2>6. \A n \in Runtimes : up[n] = {}
    BY <1>2, <2>2 DEF IInv, Exclusive, runtimeInitialization, Runtimes
  <2>7. \A n \in Runtimes : init'[n] \in Pending => n = begun + 1
    BY <1>2, <2>1, <2>2 DEF IInv, TypeOK, runtimeInitialization
  <2>8. QED
    BY <1>2, <2>2, <2>3, <2>4, <2>6, <2>7 DEF Exclusive
<1>3. QED  BY <1>1, <1>2

\* A step of start, of the timer or of a retry preserves the invariant.
LEMMA StartPreserves ==
  ASSUME IInv, StartBegins \/ StartGoesOn \/ ListenFails \/ Listens \/ StartEnds
               \/ TimerFires \/ Maintain
  PROVE  IInv'
<1> USE LifecycleAssumption DEF IInv
<1>1. CASE StartBegins
  BY <1>1 DEF StartBegins, TypeOK, Exclusive, Stopping, Starting, runtimeInitialization
<1>2. CASE StartGoesOn
  BY <1>2 DEF StartGoesOn, TypeOK, Exclusive, Stopping, Starting, runtimeInitialization
<1>3. CASE ListenFails
  BY <1>3 DEF ListenFails, TypeOK, Exclusive, Stopping, Starting, runtimeInitialization
<1>4. CASE Listens
  <2>1. /\ begun' \in 0 .. MaxRuntimes
        /\ init' \in [Runtimes -> {"none", "ended"} \union Pending]
        /\ Exclusive'
        /\ shuttingDown => UNCHANGED <<begun, init>>
    BY <1>4, Ensuring DEF Listens
  <2>2. TypeOK' /\ Starting'
    BY <1>4, <2>1 DEF Listens, TypeOK, Starting
  <2>3. Stopping'
    BY <1>4, <2>1 DEF Listens, Stopping, TypeOK, runtimeInitialization
  <2>4. QED  BY <2>1, <2>2, <2>3
<1>5. CASE StartEnds
  BY <1>5 DEF StartEnds, TypeOK, Exclusive, Stopping, Starting, runtimeInitialization
<1>6. CASE TimerFires
  BY <1>6 DEF TimerFires, TypeOK, Exclusive, Stopping, Starting, runtimeInitialization
<1>7. CASE Maintain
  <2>1. /\ begun' \in 0 .. MaxRuntimes
        /\ init' \in [Runtimes -> {"none", "ended"} \union Pending]
        /\ Exclusive'
        /\ shuttingDown => UNCHANGED <<begun, init>>
    BY <1>7, Ensuring DEF Maintain
  <2>2. TypeOK' /\ Starting'
    BY <1>7, <2>1 DEF Maintain, TypeOK, Starting
  <2>3. Stopping'
    BY <1>7, <2>1 DEF Maintain, Stopping, TypeOK, runtimeInitialization
  <2>4. QED  BY <2>1, <2>2, <2>3
<1>8. QED  BY <1>1, <1>2, <1>3, <1>4, <1>5, <1>6, <1>7

\* A step of an initialisation preserves the invariant.
LEMMA InitPreserves ==
  ASSUME IInv, NEW n \in Runtimes, InitStep(n)
  PROVE  IInv'
<1> USE LifecycleAssumption DEF IInv
<1>0. /\ init[n] \in Pending /\ runtimeInitialization /\ current = 0
      /\ \A m \in Runtimes : m # n => init[m] \notin Pending /\ up[m] = {}
      /\ n <= begun /\ n \in Nat /\ begun \in Nat /\ n # 0
  <2>1. init[n] \in Pending
    BY DEF InitStep, CheckFails, StartWorker, StartScheduling, ConnectFails, Connected, Undo,
           Pending
  <2>2. n \in Nat /\ begun \in Nat /\ n # 0
    BY DEF TypeOK, Runtimes
  <2>3. "none" \notin Pending
    BY DEF Pending
  <2>4. n <= begun
    BY <2>1, <2>2, <2>3 DEF Exclusive
  <2>5. runtimeInitialization /\ current = 0
    BY <2>1 DEF Exclusive, runtimeInitialization
  <2>6. \A m \in Runtimes : m # n => init[m] \notin Pending /\ up[m] = {}
    BY <2>1, <2>5, <2>2 DEF Exclusive, Runtimes
  <2>7. QED  BY <2>1, <2>2, <2>4, <2>5, <2>6
\* In general: a runtime under way goes on, or ends with nothing up.
<1>a. ASSUME NEW step \in Pending \union {"ended"}, GotoInit(n, step),
             NEW running \in SUBSET Components,
             up' = [up EXCEPT ![n] = running],
             step = "ended" => running = {} \/ current' = n,
             step # "checking",
             current' = current \/ (current' = n /\ step = "ended" /\ ~shuttingDown),
             UNCHANGED <<scheduled, start, stop, shuttingDown, clean, retryTimer, maintaining,
                         health, storage, begun>>
      PROVE  IInv'
  <2>1. /\ init' = [init EXCEPT ![n] = step]
        /\ init' \in [Runtimes -> {"none", "ended"} \union Pending]
        /\ up' \in [Runtimes -> SUBSET Components]
    BY <1>a DEF GotoInit, TypeOK
  <2>2. current' \in 0 .. MaxRuntimes
    BY <1>a, <1>0 DEF TypeOK, Runtimes
  <2>3. TypeOK'
    BY <1>a, <2>1, <2>2 DEF TypeOK
  <2>4. /\ \A m \in Runtimes : m # n => init'[m] = init[m] /\ up'[m] = up[m]
        /\ init'[n] = step /\ up'[n] = running
    BY <1>a, <2>1 DEF TypeOK
  <2>5. Exclusive'
    <3>1. \A m \in Runtimes : m > begun' => init'[m] = "none"
      BY <1>a, <1>0, <2>4 DEF Exclusive, Runtimes
    <3>2. \A m \in Runtimes : up'[m] # {} => init'[m] \in Pending \/ m = current'
      BY <1>a, <1>0, <2>4
    <3>3. \A m \in Runtimes : init'[m] = "checking" => up'[m] = {}
      BY <1>a, <1>0, <2>4
    <3>4. \A k, m \in Runtimes : init'[k] \in Pending /\ init'[m] \in Pending => k = m
      BY <1>0, <2>4
    <3>5. current' # 0 => ~runtimeInitialization' /\ current' <= begun'
      <4>1. SUFFICES ASSUME current' # 0 PROVE ~runtimeInitialization' /\ current' <= begun'
        OBVIOUS
      <4>2. current' = n /\ step = "ended"
        BY <4>1, <1>a, <1>0
      <4>3. "ended" \notin Pending
        BY DEF Pending
      <4>4. QED  BY <4>2, <4>3, <2>4, <1>0, <1>a DEF runtimeInitialization
    <3>6. QED  BY <3>1, <3>2, <3>3, <3>4, <3>5 DEF Exclusive
  <2>6. stop \notin {"draining", "closing", "done"}
    BY <1>0 DEF Stopping
  <2>7. Stopping'
    BY <1>a, <2>6, <1>0 DEF Stopping
  <2>8. Starting'
    BY <1>a, <1>0 DEF Starting
  <2>9. QED  BY <2>3, <2>5, <2>7, <2>8
<1>c. up[n] \in SUBSET Components /\ up = [up EXCEPT ![n] = up[n]]
  BY DEF TypeOK
<1>d. /\ {} \in SUBSET Components /\ "ended" \in Pending \union {"ended"}
      /\ "starting" \in Pending /\ "connecting" \in Pending /\ "undoing" \in Pending
      /\ "starting" # "checking" /\ "connecting" # "checking" /\ "undoing" # "checking"
      /\ "ended" # "checking" /\ "starting" # "ended" /\ "connecting" # "ended"
      /\ "undoing" # "ended"
  BY DEF Pending
<1> HIDE DEF IInv
<1>1. CASE CheckFails(n)
  <2>1. up[n] = {}
    BY <1>1 DEF CheckFails, IInv, Exclusive
  <2>2. up' = [up EXCEPT ![n] = {}]
    BY <1>1, <1>c, <2>1 DEF CheckFails
  <2>3. QED  BY <1>1, <2>2, <1>a, <1>d DEF CheckFails
<1>2. CASE StartWorker(n)
  <2>1. "starting" \in Pending /\ {"worker"} \in SUBSET Components
    BY DEF Pending, Components
  <2>2. QED  BY <1>2, <2>1, <1>a, <1>d DEF StartWorker
<1>3. CASE StartScheduling(n)
  <2> DEFINE more == IF scheduled THEN {"scheduled", "coordinator", "dispatcher"} ELSE {}
  <2>1. "connecting" \in Pending /\ up[n] \union more \in SUBSET Components
    BY <1>c DEF Pending, Components
  <2>2. up' = [up EXCEPT ![n] = up[n] \union more]
    BY <1>3 DEF StartScheduling
  <2> HIDE DEF more
  <2>3. QED  BY <1>3, <2>1, <2>2, <1>a, <1>d DEF StartScheduling
<1>u. ASSUME Undoes(n), UNCHANGED <<scheduled, start, stop, shuttingDown, clean, retryTimer,
                                    maintaining, health, storage, begun>>
      PROVE  IInv'
  <2>1. "undoing" \in Pending /\ up[n] \ {"connection", "dispatcher"} \in SUBSET Components
    BY <1>c DEF Pending
  <2>2. QED  BY <1>u, <2>1, <1>a, <1>d DEF Undoes
<1>4. CASE ConnectFails(n)
  BY <1>4, <1>u DEF ConnectFails
<1>5. CASE Connected(n)
  <2>1. CASE shuttingDown
    BY <1>5, <2>1, <1>u DEF Connected
  <2>2. CASE ~shuttingDown
    <3>1. up[n] \union {"connection"} \in SUBSET Components
      BY <1>c DEF Components
    <3>2. /\ GotoInit(n, "ended") /\ current' = n
          /\ up' = [up EXCEPT ![n] = up[n] \union {"connection"}]
      BY <1>5, <2>2 DEF Connected
    <3>3. QED  BY <1>5, <2>2, <3>1, <3>2, <1>a, <1>d DEF Connected
  <2>3. QED  BY <2>1, <2>2
<1>6. CASE Undo(n)
  <2>1. CASE up[n] = {}
    <3>1. up' = [up EXCEPT ![n] = {}] /\ GotoInit(n, "ended")
      BY <1>6, <2>1, <1>c DEF Undo
    <3>2. QED  BY <1>6, <3>1, <1>a, <1>d DEF Undo
  <2>2. CASE up[n] # {}
    <3>1. PICK c \in NextDown(UndoOrder, up[n]) : up' = [up EXCEPT ![n] = up[n] \ {c}]
      BY <1>6, <2>2 DEF Undo
    <3>2. GotoInit(n, "undoing") /\ "undoing" \in Pending
      BY <1>6, <2>2 DEF Undo, GotoInit, IInv, TypeOK, Pending
    <3>3. up[n] \ {c} \in SUBSET Components
      BY <1>c
    <3>4. QED  BY <1>6, <3>1, <3>2, <3>3, <1>a, <1>d DEF Undo
  <2>3. QED  BY <2>1, <2>2
<1>7. QED  BY <1>1, <1>2, <1>3, <1>4, <1>5, <1>6 DEF InitStep

\* A step of stop preserves the invariant.
LEMMA StopPreserves ==
  ASSUME IInv, Stop \/ StopGoesOn \/ StopDrains \/ StopCloses
  PROVE  IInv'
<1> USE LifecycleAssumption DEF IInv
\* Components of the published runtime go down.
<1>a. ASSUME NEW k \in Runtimes, NEW running \in SUBSET up[k],
             up' = [up EXCEPT ![k] = running],
             UNCHANGED <<begun, init, current>>
      PROVE  up' \in [Runtimes -> SUBSET Components] /\ Exclusive'
  <2>1. up' \in [Runtimes -> SUBSET Components]
    BY <1>a DEF TypeOK
  <2>2. \A m \in Runtimes : up'[m] \subseteq up[m]
    BY <1>a DEF TypeOK
  <2>3. QED  BY <1>a, <2>1, <2>2 DEF Exclusive, runtimeInitialization
<1>1. CASE Stop
  BY <1>1 DEF Stop, TypeOK, Exclusive, Stopping, Starting, runtimeInitialization
<1>2. CASE StopGoesOn
  <2>0. /\ stop = "awaiting" /\ ~runtimeInitialization /\ stop' = "draining"
        /\ UNCHANGED <<scheduled, start, shuttingDown, clean, retryTimer, maintaining, health,
                       storage, begun, init, current>>
    BY <1>2 DEF StopGoesOn, Disconnects
  <2>1. up' \in [Runtimes -> SUBSET Components] /\ Exclusive'
    <3>1. CASE current = 0
      BY <1>2, <3>1 DEF StopGoesOn, Disconnects, TypeOK, Exclusive, runtimeInitialization
    <3>2. CASE current # 0
      <4>1. current \in Runtimes
        BY <3>2 DEF TypeOK, Runtimes
      <4>2. up' = [up EXCEPT ![current] = up[current] \ {"connection", "dispatcher"}]
        BY <1>2, <3>2 DEF StopGoesOn, Disconnects
      <4>3. QED  BY <2>0, <4>1, <4>2, <1>a
    <3>3. QED  BY <3>1, <3>2
  <2>2. TypeOK'
    BY <2>0, <2>1 DEF TypeOK
  <2>3. Stopping' /\ Starting'
    BY <2>0 DEF Stopping, Starting, runtimeInitialization
  <2>4. QED  BY <2>1, <2>2, <2>3
<1>3. CASE StopDrains
  <2>0. /\ stop = "draining"
        /\ UNCHANGED <<scheduled, start, shuttingDown, clean, retryTimer, maintaining, health,
                       storage, begun, init>>
    BY <1>3 DEF StopDrains
  <2>1. CASE current # 0 /\ up[current] # {}
    <3>1. current \in Runtimes
      BY <2>1 DEF TypeOK, Runtimes
    <3>2. PICK c \in NextDown(StopOrder, up[current]) :
            up' = [up EXCEPT ![current] = up[current] \ {c}]
      BY <1>3, <2>1 DEF StopDrains
    <3>3. UNCHANGED <<stop, current>>
      BY <1>3, <2>1 DEF StopDrains
    <3>4. up' \in [Runtimes -> SUBSET Components] /\ Exclusive'
      BY <2>0, <3>1, <3>2, <3>3, <1>a
    <3>5. QED
      BY <2>0, <3>3, <3>4 DEF TypeOK, Stopping, Starting, runtimeInitialization
  <2>2. CASE ~(current # 0 /\ up[current] # {})
    <3>1. stop' = "closing" /\ current' = 0 /\ up' = up
      BY <1>3, <2>2 DEF StopDrains
    <3>2. TypeOK' /\ Stopping' /\ Starting'
      BY <2>0, <3>1 DEF TypeOK, Stopping, Starting, runtimeInitialization
    <3>3. Exclusive'
      BY <2>0, <2>2, <3>1 DEF Exclusive, Stopping, runtimeInitialization
    <3>4. QED  BY <3>2, <3>3
  <2>3. QED  BY <2>1, <2>2
<1>4. CASE StopCloses
  <2>1. Exclusive' /\ Starting'
    BY <1>4 DEF StopCloses, Exclusive, Starting, runtimeInitialization
  <2>2. TypeOK'
    BY <1>4 DEF StopCloses, TypeOK
  <2>3. Stopping'
    BY <1>4 DEF StopCloses, TypeOK, Stopping, runtimeInitialization
  <2>4. QED  BY <2>1, <2>2, <2>3
<1>5. QED  BY <1>1, <1>2, <1>3, <1>4

\* The invariant of the whole life of the process.
THEOREM Invariance == Spec => []IInv
<1>1. Init => IInv
  BY Initially
<1>2. IInv /\ [Next]_vars => IInv'
  <2> SUFFICES ASSUME IInv, [Next]_vars PROVE IInv'
    OBVIOUS
  <2>1. CASE UNCHANGED vars
    BY <2>1 DEF vars, IInv, TypeOK, Exclusive, Stopping, Starting, runtimeInitialization
  <2>2. CASE Next
    BY <2>1, <2>2, StartPreserves, InitPreserves, StopPreserves DEF Next, Idle
  <2>3. QED  BY <2>1, <2>2
<1>3. QED  BY <1>1, <1>2, PTL DEF Spec

\* However start, the retries and a failed connection overlap, one runtime runs at most
\* (app.ts ensureMessageRuntime).
THEOREM RunsAtMostOne == Spec => []OneRuntime
<1>1. IInv => OneRuntime
  <2>1. SUFFICES ASSUME IInv, NEW m \in Runtimes, NEW n \in Runtimes, m # n,
                        up[m] # {}, up[n] # {}
                 PROVE  FALSE
    BY DEF OneRuntime
  <2>2. /\ init[m] \in Pending \/ m = current
        /\ init[n] \in Pending \/ n = current
        /\ init[m] \in Pending /\ init[n] \in Pending => m = n
        /\ current # 0 => ~runtimeInitialization
        /\ m # 0 /\ n # 0
    BY <2>1 DEF IInv, Exclusive, Runtimes
  <2>3. QED  BY <2>1, <2>2 DEF runtimeInitialization
<1>2. QED  BY <1>1, Invariance, PTL

\* The pool closes behind everything that uses it, and a stop of a started process leaves
\* neither timer nor server (app.ts stop).
THEOREM StopLeavesNothing == Spec => []NothingOutlivesStop
<1>1. IInv => NothingOutlivesStop
  <2>1. SUFFICES ASSUME IInv PROVE NothingOutlivesStop
    OBVIOUS
  <2>2. stop = "done" => ~runtimeInitialization /\ current = 0
    BY <2>1 DEF IInv, Stopping
  <2>3. start = "failed" => ~runtimeInitialization /\ current = 0
    <3>1. SUFFICES ASSUME start = "failed" PROVE ~runtimeInitialization /\ current = 0
      OBVIOUS
    <3>2. begun = 0 /\ current = 0
      BY <2>1, <3>1 DEF IInv, Starting
    <3>3. \A n \in Runtimes : n > begun
      BY <3>2 DEF Runtimes
    <3>4. QED  BY <2>1, <3>2, <3>3 DEF IInv, Exclusive, runtimeInitialization, Pending
  <2>4. storage = "closed" => \A n \in Runtimes : up[n] = {}
    <3>1. 0 \notin Runtimes
      BY DEF Runtimes
    <3>2. QED  BY <2>1, <2>2, <2>3, <3>1 DEF IInv, Exclusive, Stopping, runtimeInitialization
  <2>5. stop = "done" /\ clean => ~retryTimer /\ ~health /\ current = 0
    BY <2>1, <2>2 DEF IInv, Stopping
  <2>6. QED  BY <2>4, <2>5 DEF NothingOutlivesStop
<1>2. QED  BY <1>1, Invariance, PTL

-------------------------------------------------------------------------------
(***************************************************************************)
(* MemberSignals.  No step but a crash touches two events, and so the      *)
(* invariant is one of each event: how its claims are numbered, the marker *)
(* of its progress reply (Marked), who may still call for one (Silent,     *)
(* Last), and who holds its reaction (Held).                               *)
(***************************************************************************)

\* An event without a row has left no trace.
Unaccepted(e) ==
  rows[e].status = "absent" => rows[e] = AbsentRow /\ gateway[e] = "none" /\ e \notin shown

\* A claim is new until it is handed out; its execution removes a reaction only when
\* the event is over.
Numbered(e) ==
  \A c \in Claims :
    /\ c > rows[e].attempts <=> pc[e][c] = "none"
    /\ pc[e][c] = "none" => progress[e][c] = "none"
    /\ pc[e][c] = "unreact" => rows[e].status \in Terminal

\* Every claim but the first follows a fault, so that there is a claim for every retry.
Budget(e) ==
  /\ rows[e].attempts <= faults + 1
  /\ rows[e].status = "queued" => rows[e].attempts <= faults
  /\ rows[e].status = "processing" => rows[e].attempts > 0
  /\ \A c \in Claims :
       Owns(e, c) /\ pc[e][c] \in {"retry", "ending", "leaving", "done", "dead"} => c <= faults

\* Before the marker is set nobody is admitted to call, and it admits one execution, once.
Marked(e) ==
  /\ calls[e] <= 1
  /\ rows[e].progress = "none" => calls[e] = 0 /\ \A c \in Claims : progress[e][c] # "admitted"
  /\ \A c, d \in Claims :
       progress[e][c] = "admitted" => calls[e] = 0 /\ (progress[e][d] = "admitted" => c = d)

\* Execution c is calling, or still may.
MayCall(e, c) ==
  \/ progress[e][c] = "calling"
  \/ progress[e][c] \in {"armed", "marking", "admitted"} /\ ~settled[e][c] /\ pc[e][c] # "dead"

\* Unless one outlived its lease, an event has one live execution.
OneAlive(e) ==
  e \notin overrun =>
    \A c, d \in Claims : pc[e][c] \notin Stopped /\ pc[e][d] \notin Stopped => c = d

\* An execution that marks or sends the final reply, or has ended, calls no more.
Silent(e) ==
  \A c \in Claims :
    /\ pc[e][c] \in {"draining", "leaving"} => settled[e][c]
    /\ pc[e][c] \in {"mark", "send"} \cup Stopped => ~MayCall(e, c)
    /\ pc[e][c] = "send" => rows[e].reply # NoReply

\* Nor does any other once the final reply was sent: a later claim finds it on the row.
Last(e) ==
  e \in finalSent =>
    /\ rows[e].reply # NoReply
    /\ e \notin overrun => \A c \in Claims : ~MayCall(e, c)

\* While the reaction is shown, somebody holds its id.
Held(e) ==
  e \in shown \ orphaned =>
    \/ gateway[e] \in {"attaching", "removing"}
    \/ Active(e) /\ rows[e].reaction
    \/ \E c \in Claims : pc[e][c] = "unreact"

EventInv(e) ==
  /\ Unaccepted(e) /\ Numbered(e) /\ Budget(e)
  /\ Marked(e) /\ OneAlive(e) /\ Silent(e) /\ Last(e) /\ Held(e)

SignalsInv == SignalsTypeOK /\ \A e \in Events : EventInv(e)

-------------------------------------------------------------------------------
(***************************************************************************)
(* What each statement does to the columns of its own row, and that it     *)
(* leaves the other rows alone.                                            *)
(***************************************************************************)

RowSet(e, status, attempts, prepared, marker, reacted) ==
  /\ rows' \in [Events -> Row]
  /\ rows'[e].status = status /\ rows'[e].attempts = attempts /\ rows'[e].reply = prepared
  /\ rows'[e].progress = marker /\ rows'[e].reaction = reacted
  /\ \A f \in Events : f # e => rows'[f] = rows[f]

\* The admission, the claim and the lease.
LEMMA QueueStatements ==
  ASSUME rows \in [Events -> Row], NEW e \in Events
  PROVE  /\ \A stamp \in Stamps :
              rows[e].status = "absent" /\ rows' = Inserted(e, stamp) =>
                RowSet(e, "queued", 0, NoReply, "none", FALSE)
         /\ rows' = Claimed(e) =>
              RowSet(e, "processing", rows[e].attempts + 1, rows[e].reply, rows[e].progress,
                     rows[e].reaction)
         /\ rows' = LeaseRecovered(e) =>
              RowSet(e, "queued", rows[e].attempts, rows[e].reply, rows[e].progress,
                     rows[e].reaction)
<1>1. rows[e] \in Row /\ rows[e].attempts + 1 \in Nat
  BY DEF Row
<1>2. ASSUME NEW stamp \in Stamps, rows[e].status = "absent", rows' = Inserted(e, stamp)
      PROVE  RowSet(e, "queued", 0, NoReply, "none", FALSE)
  BY <1>2, StoreAssumption
  DEF Inserted, AbsentRow, RowSet, Row, Statuses, Outcomes, StoreAssumption
<1>3. ASSUME rows' = Claimed(e)
      PROVE  RowSet(e, "processing", rows[e].attempts + 1, rows[e].reply, rows[e].progress,
                    rows[e].reaction)
  <2> DEFINE r == [rows[e] EXCEPT !.status = "processing", !.attempts = rows[e].attempts + 1]
  <2>1. /\ r \in Row /\ r.status = "processing" /\ r.attempts = rows[e].attempts + 1
        /\ r.reply = rows[e].reply /\ r.progress = rows[e].progress /\ r.reaction = rows[e].reaction
    BY <1>1 DEF Row, Statuses
  <2>2. rows' = [rows EXCEPT ![e] = r]
    BY <1>3 DEF Claimed
  <2> HIDE DEF r
  <2> QED BY <2>1, <2>2 DEF RowSet
<1>4. ASSUME rows' = LeaseRecovered(e)
      PROVE  RowSet(e, "queued", rows[e].attempts, rows[e].reply, rows[e].progress,
                    rows[e].reaction)
  BY <1>1, <1>4 DEF LeaseRecovered, RowSet, Row, Statuses
<1> QED BY <1>2, <1>3, <1>4

\* The statements of an execution, fenced by its claim.
LEMMA WorkerStatements ==
  ASSUME rows \in [Events -> Row], NEW e \in Events
  PROVE  /\ \A prepared \in Replies : rows' = ReplyStarted(e, prepared) =>
              RowSet(e, rows[e].status, rows[e].attempts, prepared, rows[e].progress,
                     rows[e].reaction)
         /\ rows' = Retried(e) =>
              RowSet(e, "queued", rows[e].attempts, rows[e].reply, rows[e].progress,
                     rows[e].reaction)
         /\ \A how \in Outcomes : rows' = Completed(e, how) =>
              RowSet(e, "completed", rows[e].attempts, rows[e].reply, rows[e].progress, FALSE)
         /\ rows' = ReplyUncertain(e) =>
              RowSet(e, "failed", rows[e].attempts, rows[e].reply, rows[e].progress, FALSE)
<1>1. rows[e] \in Row
  OBVIOUS
<1>2. ASSUME NEW prepared \in Replies, rows' = ReplyStarted(e, prepared)
      PROVE  RowSet(e, rows[e].status, rows[e].attempts, prepared, rows[e].progress,
                    rows[e].reaction)
  BY <1>1, <1>2 DEF ReplyStarted, RowSet, Row
<1>3. ASSUME rows' = Retried(e)
      PROVE  RowSet(e, "queued", rows[e].attempts, rows[e].reply, rows[e].progress,
                    rows[e].reaction)
  BY <1>1, <1>3 DEF Retried, RowSet, Row, Statuses
<1>4. ASSUME NEW how \in Outcomes, rows' = Completed(e, how)
      PROVE  RowSet(e, "completed", rows[e].attempts, rows[e].reply, rows[e].progress, FALSE)
  BY <1>1, <1>4 DEF Completed, RowSet, Row, Statuses
<1>5. ASSUME rows' = ReplyUncertain(e)
      PROVE  RowSet(e, "failed", rows[e].attempts, rows[e].reply, rows[e].progress, FALSE)
  BY <1>1, <1>5 DEF ReplyUncertain, RowSet, Row, Statuses, Outcomes
<1> QED BY <1>2, <1>3, <1>4, <1>5

\* The statements of the signals.
LEMMA SignalStatements ==
  ASSUME rows \in [Events -> Row], NEW e \in Events
  PROVE  /\ rows' = ProgressAttempted(e) =>
              RowSet(e, rows[e].status, rows[e].attempts, rows[e].reply, "attempted",
                     rows[e].reaction)
         /\ rows' = ProgressConfirmed(e) =>
              RowSet(e, rows[e].status, rows[e].attempts, rows[e].reply, "confirmed",
                     rows[e].reaction)
         /\ rows' = ReactionAttached(e) =>
              RowSet(e, rows[e].status, rows[e].attempts, rows[e].reply, rows[e].progress, TRUE)
<1>1. rows[e] \in Row
  OBVIOUS
<1>2. ASSUME rows' = ProgressAttempted(e)
      PROVE  RowSet(e, rows[e].status, rows[e].attempts, rows[e].reply, "attempted",
                    rows[e].reaction)
  BY <1>1, <1>2 DEF ProgressAttempted, RowSet, Row
<1>3. ASSUME rows' = ProgressConfirmed(e)
      PROVE  RowSet(e, rows[e].status, rows[e].attempts, rows[e].reply, "confirmed",
                    rows[e].reaction)
  BY <1>1, <1>3 DEF ProgressConfirmed, RowSet, Row
<1>4. ASSUME rows' = ReactionAttached(e)
      PROVE  RowSet(e, rows[e].status, rows[e].attempts, rows[e].reply, rows[e].progress, TRUE)
  BY <1>1, <1>4 DEF ReactionAttached, RowSet, Row
<1> QED BY <1>2, <1>3, <1>4

-------------------------------------------------------------------------------
(***************************************************************************)
(* A step of one event.                                                    *)
(***************************************************************************)

OnlyEvent(e) ==
  \A f \in Events \ {e} :
    /\ rows'[f] = rows[f] /\ pc'[f] = pc[f] /\ progress'[f] = progress[f]
    /\ settled'[f] = settled[f] /\ calls'[f] = calls[f] /\ gateway'[f] = gateway[f]
    /\ f \in finalSent' <=> f \in finalSent
    /\ f \in shown' <=> f \in shown
    /\ f \in orphaned' <=> f \in orphaned
    /\ f \in overrun' <=> f \in overrun

Local(e) == SignalsTypeOK' /\ OnlyEvent(e) /\ faults <= faults'

\* What holds of the event that moved holds of all.
LEMMA OneEvent ==
  ASSUME SignalsInv, NEW e \in Events, Local(e), EventInv(e)'
  PROVE  SignalsInv'
<1> SUFFICES ASSUME NEW f \in Events, f # e PROVE EventInv(f)'
  BY DEF SignalsInv, Local
<1>1. /\ rows'[f] = rows[f] /\ pc'[f] = pc[f] /\ progress'[f] = progress[f]
      /\ settled'[f] = settled[f] /\ calls'[f] = calls[f] /\ gateway'[f] = gateway[f]
      /\ f \in finalSent' <=> f \in finalSent
      /\ f \in shown' <=> f \in shown
      /\ f \in orphaned' <=> f \in orphaned
      /\ f \in overrun' <=> f \in overrun
  BY DEF Local, OnlyEvent
<1>2. EventInv(f) /\ faults \in Nat /\ faults' \in Nat /\ faults <= faults' /\ Claims \subseteq Nat
      /\ rows[f].attempts \in Nat
  BY SignalsAssumption DEF SignalsInv, Local, SignalsTypeOK, SignalsAssumption, Claims, Row
<1>3. Unaccepted(f)' /\ Numbered(f)'
  BY <1>1, <1>2 DEF EventInv, Unaccepted, Numbered
<1>4. Budget(f)'
  BY <1>1, <1>2 DEF EventInv, Budget, Owns
<1>5. Marked(f)'
  BY <1>1, <1>2 DEF EventInv, Marked
<1>6. OneAlive(f)' /\ Silent(f)' /\ Last(f)'
  BY <1>1, <1>2 DEF EventInv, OneAlive, Silent, Last, MayCall
<1>7. Held(f)'
  BY <1>1, <1>2 DEF EventInv, Held, Active
<1> QED BY <1>3, <1>4, <1>5, <1>6, <1>7 DEF EventInv

\* What the assumptions say of the numbers, and the types of one event.
LEMMA SignalTypes ==
  ASSUME SignalsTypeOK
  PROVE  /\ Claims \subseteq Nat /\ (\A c \in Claims : 0 < c /\ c <= MaxFaults + 1)
         /\ MaxFaults \in Nat /\ faults \in Nat /\ faults <= MaxFaults
         /\ \A n \in Nat : 0 < n /\ n <= MaxFaults + 1 => n \in Claims
         /\ \A e \in Events :
              /\ rows[e] \in Row /\ rows[e].attempts \in Nat /\ rows[e].status \in Statuses
              /\ calls[e] \in Nat
              /\ DOMAIN pc[e] = Claims /\ DOMAIN progress[e] = Claims /\ DOMAIN settled[e] = Claims
  BY SignalsAssumption DEF SignalsTypeOK, SignalsAssumption, Claims, Row

-------------------------------------------------------------------------------
(***************************************************************************)
(* The steps of an execution and of its progress reply change one entry of *)
(* pc, progress and settled.                                               *)
(***************************************************************************)

Moves(e, c, step, prog, set) ==
  /\ pc' \in [Events -> [Claims -> Steps]]
  /\ pc'[e][c] = step /\ \A d \in Claims : d # c => pc'[e][d] = pc[e][d]
  /\ progress' \in [Events -> [Claims -> {"none", "armed", "marking", "admitted", "calling",
                                          "confirming", "over"}]]
  /\ progress'[e][c] = prog /\ \A d \in Claims : d # c => progress'[e][d] = progress[e][d]
  /\ settled' \in [Events -> [Claims -> BOOLEAN]]
  /\ settled'[e][c] = set /\ \A d \in Claims : d # c => settled'[e][d] = settled[e][d]
  /\ \A f \in Events \ {e} :
       pc'[f] = pc[f] /\ progress'[f] = progress[f] /\ settled'[f] = settled[f]

\* A step of the worker, without the signals.
LEMMA WorkerMoves ==
  ASSUME SignalsTypeOK, NEW e \in Events, NEW c \in Claims, NEW step \in Steps, Goto(e, c, step),
         UNCHANGED <<settled, progress>>
  PROVE  Moves(e, c, step, progress[e][c], settled[e][c])
  BY DEF Goto, Moves, SignalsTypeOK

\* A step that settles the progress reply.
LEMMA SettleMoves ==
  ASSUME SignalsTypeOK, NEW e \in Events, NEW c \in Claims, NEW step \in Steps, Settle(e, c, step)
  PROVE  Moves(e, c, step, IF progress[e][c] = "armed" THEN "over" ELSE progress[e][c], TRUE)
<1>1. /\ pc' = [pc EXCEPT ![e][c] = step] /\ settled' = [settled EXCEPT ![e][c] = TRUE]
      /\ progress' = IF progress[e][c] = "armed" THEN [progress EXCEPT ![e][c] = "over"]
                                               ELSE progress
  BY DEF Settle, Goto, Progress
<1>2. CASE progress[e][c] = "armed"
  BY <1>1, <1>2 DEF Moves, SignalsTypeOK
<1>3. CASE progress[e][c] # "armed"
  BY <1>1, <1>3 DEF Moves, SignalsTypeOK
<1> QED BY <1>2, <1>3

\* A step of the progress reply, without the worker.
LEMMA ProgressMoves ==
  ASSUME SignalsTypeOK, NEW e \in Events, NEW c \in Claims,
         NEW step \in {"marking", "admitted", "calling", "confirming", "over"},
         Progress(e, c, step), UNCHANGED <<pc, settled>>
  PROVE  Moves(e, c, pc[e][c], step, settled[e][c])
  BY DEF Progress, Moves, SignalsTypeOK


-------------------------------------------------------------------------------
(***************************************************************************)
(* What a step of an execution or of its progress reply keeps, by what it  *)
(* changes.                                                                *)
(***************************************************************************)

\* The claims stay numbered, and no execution comes to life.
LEMMA KeepsNumbered ==
  ASSUME SignalsInv, NEW e \in Events, NEW c \in Claims, NEW step, NEW prog, NEW set,
         Moves(e, c, step, prog, set),
         pc[e][c] # "none", step # "none", step \notin Stopped => pc[e][c] \notin Stopped,
         rows'[e].attempts = rows[e].attempts,
         rows[e].status \in Terminal => rows'[e].status \in Terminal,
         step = "unreact" => rows'[e].status \in Terminal,
         overrun \subseteq overrun'
  PROVE  Numbered(e)' /\ OneAlive(e)'
<1>1. EventInv(e)
  BY DEF SignalsInv
<1>2. /\ pc'[e][c] = step /\ (\A d \in Claims : d # c => pc'[e][d] = pc[e][d])
      /\ progress'[e][c] = prog /\ \A d \in Claims : d # c => progress'[e][d] = progress[e][d]
  BY DEF Moves
<1>3. Numbered(e)'
  BY <1>1, <1>2 DEF EventInv, Numbered
<1>4. OneAlive(e)'
  BY <1>1, <1>2 DEF EventInv, OneAlive
<1> QED BY <1>3, <1>4

\* Nobody who would not call before may call now.
LEMMA KeepsSilent ==
  ASSUME SignalsInv, NEW e \in Events, NEW c \in Claims, NEW step, NEW prog, NEW set \in BOOLEAN,
         Moves(e, c, step, prog, set),
         prog = "calling" \/ (prog \in {"armed", "marking", "admitted"} /\ ~set /\ step # "dead")
           => MayCall(e, c),
         step \in {"draining", "leaving"} => set,
         step \in {"mark", "send"} \cup Stopped =>
           prog # "calling" /\ (prog \in {"armed", "marking", "admitted"} => set \/ step = "dead"),
         step = "send" => rows'[e].reply # NoReply,
         rows[e].reply # NoReply => rows'[e].reply # NoReply
  PROVE  Silent(e)' /\ \A d \in Claims : MayCall(e, d)' => MayCall(e, d)
<1>1. EventInv(e)
  BY DEF SignalsInv
<1>2. /\ pc'[e][c] = step /\ (\A d \in Claims : d # c => pc'[e][d] = pc[e][d])
      /\ progress'[e][c] = prog /\ (\A d \in Claims : d # c => progress'[e][d] = progress[e][d])
      /\ settled'[e][c] = set /\ \A d \in Claims : d # c => settled'[e][d] = settled[e][d]
  BY DEF Moves
<1>3. MayCall(e, c)' <=>
        prog = "calling" \/ (prog \in {"armed", "marking", "admitted"} /\ ~set /\ step # "dead")
  BY <1>2 DEF MayCall
<1>4. \A d \in Claims : d # c => (MayCall(e, d)' <=> MayCall(e, d))
  BY <1>2 DEF MayCall
<1>5. \A d \in Claims : MayCall(e, d)' => MayCall(e, d)
  BY <1>3, <1>4
<1>6. Silent(e)'
  BY <1>1, <1>2, <1>3, <1>4 DEF EventInv, Silent
<1> QED BY <1>5, <1>6

\* Nobody is admitted to call, and nobody calls.
LEMMA KeepsMarked ==
  ASSUME SignalsInv, NEW e \in Events, NEW c \in Claims, NEW step, NEW prog, NEW set,
         Moves(e, c, step, prog, set),
         prog = "admitted" => progress[e][c] = "admitted", calls'[e] = calls[e],
         rows'[e].progress = "none" => rows[e].progress = "none"
  PROVE  Marked(e)'
<1>1. Marked(e)
  BY DEF SignalsInv, EventInv
<1>2. \A d \in Claims : progress'[e][d] = "admitted" => progress[e][d] = "admitted"
  BY DEF Moves
<1> QED BY <1>1, <1>2 DEF Marked

-------------------------------------------------------------------------------
(***************************************************************************)
(* The execution.                                                          *)
(***************************************************************************)

\* settle, with a reply composed or at the end of the execution.
LEMMA SettlingKeeps ==
  ASSUME SignalsInv, NEW e \in Events, NEW c \in Claims, Composes(e, c) \/ Ends(e, c)
  PROVE  SignalsInv'
<1> DEFINE step == IF pc[e][c] = "working" THEN "draining" ELSE "leaving"
           prog == IF progress[e][c] = "armed" THEN "over" ELSE progress[e][c]
<1>1. EventInv(e) /\ SignalsTypeOK
  BY DEF SignalsInv
<1>2. /\ pc[e][c] \in {"working", "ending"} /\ Settle(e, c, step) /\ step \in Steps
      /\ UNCHANGED <<rows, calls, finalSent, gateway, shown, orphaned, overrun, faults>>
  BY DEF Composes, Ends, Steps, reaction
<1>3. Moves(e, c, step, prog, TRUE)
  BY <1>1, <1>2, SettleMoves
<1>4. Local(e)
  BY <1>1, <1>2, <1>3, SignalTypes DEF Local, OnlyEvent, SignalsTypeOK, Moves
<1>5. Numbered(e)' /\ OneAlive(e)'
  BY <1>2, <1>3, KeepsNumbered DEF Stopped
<1>6. Silent(e)' /\ \A d \in Claims : MayCall(e, d)' => MayCall(e, d)
  BY <1>2, <1>3, KeepsSilent DEF Stopped, MayCall
<1>7. Unaccepted(e)' /\ Last(e)'
  BY <1>1, <1>2, <1>6 DEF EventInv, Unaccepted, Last
<1>8. Budget(e)'
  BY <1>1, <1>2, <1>3 DEF EventInv, Budget, Moves, Owns
<1>9. Marked(e)'
  BY <1>2, <1>3, KeepsMarked
<1>10. Held(e)'
  BY <1>1, <1>2, <1>3 DEF EventInv, Held, Moves, Active
<1> QED BY <1>4, <1>5, <1>6, <1>7, <1>8, <1>9, <1>10, OneEvent DEF EventInv

\* settle waits for a call under way.
LEMMA WaitingKeeps ==
  ASSUME SignalsInv, NEW e \in Events, NEW c \in Claims, Drains(e, c) \/ Leaves(e, c)
  PROVE  SignalsInv'
<1> DEFINE step == IF pc[e][c] = "draining" THEN "mark" ELSE "done"
<1>1. EventInv(e) /\ SignalsTypeOK
  BY DEF SignalsInv
<1>2. /\ pc[e][c] \in {"draining", "leaving"} /\ Goto(e, c, step) /\ step \in Steps
      /\ progress[e][c] # "calling" /\ settled[e][c] = TRUE
      /\ UNCHANGED <<rows, settled, calls, progress, finalSent, gateway, shown, orphaned, overrun,
                     faults>>
  BY <1>1 DEF Drains, Leaves, Steps, reaction, reply, EventInv, Silent, SignalsTypeOK
<1>3. Moves(e, c, step, progress[e][c], TRUE)
  BY <1>1, <1>2, WorkerMoves
<1>4. Local(e)
  BY <1>1, <1>2, <1>3, SignalTypes DEF Local, OnlyEvent, SignalsTypeOK, Moves
<1>5. Numbered(e)' /\ OneAlive(e)'
  BY <1>2, <1>3, KeepsNumbered DEF Stopped
<1>6. Silent(e)' /\ \A d \in Claims : MayCall(e, d)' => MayCall(e, d)
  BY <1>2, <1>3, KeepsSilent DEF Stopped, MayCall
<1>7. Unaccepted(e)' /\ Last(e)'
  BY <1>1, <1>2, <1>6 DEF EventInv, Unaccepted, Last
<1>8. Budget(e)'
  BY <1>1, <1>2, <1>3 DEF EventInv, Budget, Moves, Owns
<1>9. Marked(e)'
  BY <1>2, <1>3, KeepsMarked
<1>10. Held(e)'
  BY <1>1, <1>2, <1>3 DEF EventInv, Held, Moves, Active
<1> QED BY <1>4, <1>5, <1>6, <1>7, <1>8, <1>9, <1>10, OneEvent DEF EventInv

\* markReplyStarted, fenced by the claim.
LEMMA MarkReplyStartedKeeps ==
  ASSUME SignalsInv, NEW e \in Events, NEW c \in Claims, MarkReplyStarted(e, c)
  PROVE  SignalsInv'
<1> DEFINE prepared == [kind |-> "answer", claim |-> c]
<1>1. EventInv(e) /\ SignalsTypeOK
  BY DEF SignalsInv
<1>2. /\ pc[e][c] = "mark" /\ Owns(e, c) /\ Goto(e, c, "send") /\ "send" \in Steps
      /\ UNCHANGED <<settled, calls, progress, finalSent, gateway, shown, orphaned, overrun,
                     faults>>
  BY DEF MarkReplyStarted, Steps, reaction, reply
<1>3. Moves(e, c, "send", progress[e][c], settled[e][c])
  BY <1>1, <1>2, WorkerMoves
<1>4. RowSet(e, rows[e].status, rows[e].attempts, prepared, rows[e].progress, rows[e].reaction)
      /\ prepared # NoReply
  <2>1. prepared \in Replies /\ prepared # NoReply
    BY <1>1, SignalTypes DEF Replies, ReplyKinds, NoReply
  <2>2. rows' = ReplyStarted(e, prepared)
    BY DEF MarkReplyStarted
  <2> QED BY <1>1, <2>1, <2>2, WorkerStatements DEF SignalsTypeOK
<1> HIDE DEF prepared
<1>5. Local(e)
  BY <1>1, <1>2, <1>3, <1>4, SignalTypes DEF Local, OnlyEvent, SignalsTypeOK, Moves, RowSet
<1>6. Numbered(e)' /\ OneAlive(e)'
  BY <1>2, <1>3, <1>4, KeepsNumbered DEF Stopped, RowSet
<1>7. ~MayCall(e, c) /\ settled[e][c] \in BOOLEAN
  BY <1>1, <1>2 DEF EventInv, Silent, SignalsTypeOK
<1>8. Silent(e)' /\ \A d \in Claims : MayCall(e, d)' => MayCall(e, d)
  BY <1>2, <1>3, <1>4, <1>7, KeepsSilent DEF Stopped, MayCall, RowSet
<1>9. Unaccepted(e)' /\ Last(e)'
  BY <1>1, <1>2, <1>4, <1>8 DEF EventInv, Unaccepted, Last, RowSet, Owns
<1>10. Budget(e)'
  BY <1>1, <1>2, <1>3, <1>4 DEF EventInv, Budget, Moves, Owns, RowSet
<1>11. Marked(e)'
  BY <1>2, <1>3, <1>4, KeepsMarked DEF RowSet
<1>12. Held(e)'
  BY <1>1, <1>2, <1>3, <1>4 DEF EventInv, Held, Moves, Active, RowSet
<1> QED BY <1>5, <1>6, <1>8, <1>9, <1>10, <1>11, <1>12, OneEvent DEF EventInv

\* The reply is sent: nobody else is alive to call, and this execution has settled.
LEMMA SendReplyKeeps ==
  ASSUME SignalsInv, NEW e \in Events, NEW c \in Claims, SendReply(e, c)
  PROVE  SignalsInv'
<1>1. EventInv(e) /\ SignalsTypeOK
  BY DEF SignalsInv
<1>2. /\ pc[e][c] = "send" /\ Goto(e, c, "replied") /\ "replied" \in Steps
      /\ finalSent' = finalSent \cup {e}
      /\ UNCHANGED <<rows, settled, calls, progress, gateway, shown, orphaned, overrun, faults>>
  BY DEF SendReply, Steps, reaction, reply
<1>3. Moves(e, c, "replied", progress[e][c], settled[e][c])
  BY <1>1, <1>2, WorkerMoves
<1>4. Local(e)
  BY <1>1, <1>2, <1>3, SignalTypes DEF Local, OnlyEvent, SignalsTypeOK, Moves
<1>5. Numbered(e)' /\ OneAlive(e)'
  BY <1>2, <1>3, KeepsNumbered DEF Stopped
<1>6. ~MayCall(e, c) /\ settled[e][c] \in BOOLEAN /\ rows[e].reply # NoReply
  BY <1>1, <1>2 DEF EventInv, Silent, SignalsTypeOK
<1>7. Silent(e)' /\ \A d \in Claims : MayCall(e, d)' => MayCall(e, d)
  BY <1>2, <1>3, <1>6, KeepsSilent DEF Stopped, MayCall
<1>8. e \notin overrun => \A d \in Claims : ~MayCall(e, d)
  BY <1>1, <1>2, <1>6 DEF EventInv, OneAlive, Silent, Stopped
<1>9. Unaccepted(e)' /\ Last(e)'
  BY <1>1, <1>2, <1>6, <1>7, <1>8 DEF EventInv, Unaccepted, Last
<1>10. Budget(e)'
  BY <1>1, <1>2, <1>3 DEF EventInv, Budget, Moves, Owns
<1>11. Marked(e)'
  BY <1>2, <1>3, KeepsMarked
<1>12. Held(e)'
  BY <1>1, <1>2, <1>3 DEF EventInv, Held, Moves, Active
<1> QED BY <1>4, <1>5, <1>7, <1>9, <1>10, <1>11, <1>12, OneEvent DEF EventInv

\* A failure, before the reply or of the call that sends it; an error that escapes.
LEMMA FailureKeeps ==
  ASSUME SignalsInv, NEW e \in Events, NEW c \in Claims, Fails(e, c) \/ Throws(e, c)
  PROVE  SignalsInv'
<1>1. EventInv(e) /\ SignalsTypeOK
  BY DEF SignalsInv
<1>2. PICK step \in {"retry", "give_up", "ending"} :
        /\ Goto(e, c, step)
        /\ pc[e][c] \in {"working", "mark", "send", "replied", "give_up", "uncertain", "retry"}
        /\ faults' = faults + 1 /\ faults < MaxFaults
        /\ finalSent' = finalSent \/ (pc[e][c] = "send" /\ finalSent' = finalSent \cup {e})
        /\ UNCHANGED <<rows, settled, calls, progress, gateway, shown, orphaned, overrun>>
  BY DEF Fails, Throws, Fault, reaction, reply
<1>3. Moves(e, c, step, progress[e][c], settled[e][c])
  BY <1>1, <1>2, WorkerMoves DEF Steps
<1>4. Local(e)
  BY <1>1, <1>2, <1>3, SignalTypes DEF Local, OnlyEvent, SignalsTypeOK, Moves
<1>5. Numbered(e)' /\ OneAlive(e)'
  BY <1>2, <1>3, KeepsNumbered DEF Stopped
<1>6. settled[e][c] \in BOOLEAN /\ (pc[e][c] = "send" => ~MayCall(e, c) /\ rows[e].reply # NoReply)
  BY <1>1, <1>2 DEF EventInv, Silent, SignalsTypeOK
<1>7. Silent(e)' /\ \A d \in Claims : MayCall(e, d)' => MayCall(e, d)
  BY <1>1, <1>2, <1>3, <1>6, KeepsSilent DEF Stopped, MayCall
<1>8. pc[e][c] = "send" /\ e \notin overrun => \A d \in Claims : ~MayCall(e, d)
  BY <1>1, <1>6 DEF EventInv, OneAlive, Silent, Stopped
<1>9. Unaccepted(e)' /\ Last(e)'
  BY <1>1, <1>2, <1>6, <1>7, <1>8 DEF EventInv, Unaccepted, Last
<1>10. Budget(e)'
  BY <1>1, <1>2, SignalTypes DEF EventInv, Budget, Owns
<1>11. Marked(e)'
  BY <1>2, <1>3, KeepsMarked
<1>12. Held(e)'
  BY <1>1, <1>2, <1>3 DEF EventInv, Held, Moves, Active
<1> QED BY <1>4, <1>5, <1>7, <1>9, <1>10, <1>11, <1>12, OneEvent DEF EventInv

\* retry: the event is queued again, after a fault.
LEMMA RetryKeeps ==
  ASSUME SignalsInv, NEW e \in Events, NEW c \in Claims, Retry(e, c)
  PROVE  SignalsInv'
<1>1. EventInv(e) /\ SignalsTypeOK
  BY DEF SignalsInv
<1>2. /\ pc[e][c] = "retry" /\ Owns(e, c) /\ Goto(e, c, "ending") /\ "ending" \in Steps
      /\ UNCHANGED <<settled, calls, progress, finalSent, gateway, shown, orphaned, overrun,
                     faults>>
  BY DEF Retry, Steps, reaction, reply
<1>3. Moves(e, c, "ending", progress[e][c], settled[e][c])
  BY <1>1, <1>2, WorkerMoves
<1>4. RowSet(e, "queued", rows[e].attempts, rows[e].reply, rows[e].progress, rows[e].reaction)
  BY <1>1, WorkerStatements DEF SignalsTypeOK, Retry
<1>5. Local(e)
  BY <1>1, <1>2, <1>3, <1>4, SignalTypes DEF Local, OnlyEvent, SignalsTypeOK, Moves, RowSet
<1>6. Numbered(e)' /\ OneAlive(e)'
  BY <1>2, <1>3, <1>4, KeepsNumbered DEF Stopped, RowSet, Owns, Terminal
<1>7. settled[e][c] \in BOOLEAN
  BY <1>1 DEF SignalsTypeOK
<1>8. Silent(e)' /\ \A d \in Claims : MayCall(e, d)' => MayCall(e, d)
  BY <1>2, <1>3, <1>4, <1>7, KeepsSilent DEF Stopped, MayCall, RowSet
<1>9. Unaccepted(e)' /\ Last(e)'
  BY <1>1, <1>2, <1>4, <1>8 DEF EventInv, Unaccepted, Last, RowSet
<1>10. Budget(e)'
  BY <1>1, <1>2, <1>4 DEF EventInv, Budget, Owns, RowSet
<1>11. Marked(e)'
  BY <1>2, <1>3, <1>4, KeepsMarked DEF RowSet
<1>12. Held(e)'
  BY <1>1, <1>2, <1>3, <1>4 DEF EventInv, Held, Moves, Active, RowSet
<1> QED BY <1>5, <1>6, <1>8, <1>9, <1>10, <1>11, <1>12, OneEvent DEF EventInv

\* complete and markReplyUncertain: the execution takes over the reaction of the row.
LEMMA TerminatesKeeps ==
  ASSUME SignalsInv, NEW e \in Events, NEW c \in Claims, Terminates(e, c)
  PROVE  SignalsInv'
<1> DEFINE step == IF rows[e].reaction THEN "unreact" ELSE "ending"
<1>1. EventInv(e) /\ SignalsTypeOK
  BY DEF SignalsInv
<1>2. /\ pc[e][c] \in {"replied", "give_up", "uncertain"} /\ Owns(e, c)
      /\ Goto(e, c, step) /\ step \in Steps
      /\ UNCHANGED <<settled, calls, progress, finalSent, gateway, shown, orphaned, overrun,
                     faults>>
  BY DEF Terminates, Steps, reaction, reply
<1>3. Moves(e, c, step, progress[e][c], settled[e][c])
  BY <1>1, <1>2, WorkerMoves
<1>4. PICK status \in Terminal :
        RowSet(e, status, rows[e].attempts, rows[e].reply, rows[e].progress, FALSE)
  BY <1>1, WorkerStatements DEF SignalsTypeOK, Terminates, Terminal, Outcomes
<1>5. Local(e)
  BY <1>1, <1>2, <1>3, <1>4, SignalTypes DEF Local, OnlyEvent, SignalsTypeOK, Moves, RowSet
<1>6. Numbered(e)' /\ OneAlive(e)'
  BY <1>2, <1>3, <1>4, KeepsNumbered DEF Stopped, RowSet
<1>7. settled[e][c] \in BOOLEAN
  BY <1>1 DEF SignalsTypeOK
<1>8. Silent(e)' /\ \A d \in Claims : MayCall(e, d)' => MayCall(e, d)
  BY <1>2, <1>3, <1>4, <1>7, KeepsSilent DEF Stopped, MayCall, RowSet
<1>9. Unaccepted(e)' /\ Last(e)'
  BY <1>1, <1>2, <1>4, <1>8 DEF EventInv, Unaccepted, Last, RowSet, Terminal
<1>10. Budget(e)'
  BY <1>1, <1>2, <1>4 DEF EventInv, Budget, Owns, RowSet, Terminal
<1>11. Marked(e)'
  BY <1>2, <1>3, <1>4, KeepsMarked DEF RowSet
<1>12. Held(e)'
  <2>1. \A d \in Claims : pc[e][d] # "unreact"
    BY <1>1, <1>2 DEF EventInv, Numbered, Owns, Terminal
  <2>2. rows[e].reaction => pc'[e][c] = "unreact"
    BY <1>3 DEF Moves
  <2> QED BY <1>1, <1>2, <2>1, <2>2 DEF EventInv, Held
<1> QED BY <1>5, <1>6, <1>8, <1>9, <1>10, <1>11, <1>12, OneEvent DEF EventInv

\* removeTerminalReaction: the reaction is removed, or given up.
LEMMA RemoveReactionKeeps ==
  ASSUME SignalsInv, NEW e \in Events, NEW c \in Claims, RemoveReaction(e, c)
  PROVE  SignalsInv'
<1>1. EventInv(e) /\ SignalsTypeOK
  BY DEF SignalsInv
<1>2. /\ pc[e][c] = "unreact" /\ Goto(e, c, "ending") /\ "ending" \in Steps
      /\ \/ shown' = shown \ {e} /\ UNCHANGED <<orphaned, faults>>
         \/ faults < MaxFaults /\ faults' = faults + 1
            /\ orphaned' = orphaned \cup {e} /\ UNCHANGED shown
      /\ UNCHANGED <<rows, settled, calls, progress, finalSent, gateway, overrun>>
  BY DEF RemoveReaction, Steps, Fault, reply
<1>3. Moves(e, c, "ending", progress[e][c], settled[e][c])
  BY <1>1, <1>2, WorkerMoves
<1>4. faults' \in 0 .. MaxFaults /\ faults <= faults'
  BY <1>1, <1>2, SignalTypes DEF SignalsTypeOK
<1>5. Local(e)
  BY <1>1, <1>2, <1>3, <1>4 DEF Local, OnlyEvent, SignalsTypeOK, Moves
<1>6. Numbered(e)' /\ OneAlive(e)'
  BY <1>2, <1>3, KeepsNumbered DEF Stopped
<1>7. settled[e][c] \in BOOLEAN
  BY <1>1 DEF SignalsTypeOK
<1>8. Silent(e)' /\ \A d \in Claims : MayCall(e, d)' => MayCall(e, d)
  BY <1>2, <1>3, <1>7, KeepsSilent DEF Stopped, MayCall
<1>9. Unaccepted(e)' /\ Last(e)' /\ Held(e)'
  BY <1>1, <1>2, <1>8 DEF EventInv, Unaccepted, Last, Held
<1>10. Budget(e)'
  <2>1. ~Owns(e, c) /\ rows[e].status \notin {"queued", "processing"}
    BY <1>1, <1>2 DEF EventInv, Numbered, Owns, Terminal
  <2> QED BY <1>1, <1>2, <1>4, <2>1, SignalTypes DEF EventInv, Budget, Owns
<1>11. Marked(e)'
  BY <1>2, <1>3, KeepsMarked
<1> QED BY <1>5, <1>6, <1>8, <1>9, <1>10, <1>11, OneEvent DEF EventInv

\* A fenced statement finds that the claim is gone: it has nothing to say about the budget.
LEMMA StaleClaimKeeps ==
  ASSUME SignalsInv, NEW e \in Events, NEW c \in Claims, StaleClaim(e, c)
  PROVE  SignalsInv'
<1>1. EventInv(e) /\ SignalsTypeOK
  BY DEF SignalsInv
<1>2. /\ pc[e][c] \in {"mark", "replied", "give_up", "uncertain", "retry"} /\ ~Owns(e, c)
      /\ Goto(e, c, "ending") /\ "ending" \in Steps
      /\ UNCHANGED <<rows, settled, calls, progress, finalSent, gateway, shown, orphaned, overrun,
                     faults>>
  BY DEF StaleClaim, Steps, reaction, reply
<1>3. Moves(e, c, "ending", progress[e][c], settled[e][c])
  BY <1>1, <1>2, WorkerMoves
<1>4. Local(e)
  BY <1>1, <1>2, <1>3, SignalTypes DEF Local, OnlyEvent, SignalsTypeOK, Moves
<1>5. Numbered(e)' /\ OneAlive(e)'
  BY <1>2, <1>3, KeepsNumbered DEF Stopped
<1>6. settled[e][c] \in BOOLEAN
  BY <1>1 DEF SignalsTypeOK
<1>7. Silent(e)' /\ \A d \in Claims : MayCall(e, d)' => MayCall(e, d)
  BY <1>2, <1>3, <1>6, KeepsSilent DEF Stopped, MayCall
<1>8. Unaccepted(e)' /\ Last(e)'
  BY <1>1, <1>2, <1>7 DEF EventInv, Unaccepted, Last
<1>9. Budget(e)'
  BY <1>1, <1>2, <1>3 DEF EventInv, Budget, Moves, Owns
<1>10. Marked(e)'
  BY <1>2, <1>3, KeepsMarked
<1>11. Held(e)'
  BY <1>1, <1>2, <1>3 DEF EventInv, Held, Moves, Active
<1> QED BY <1>4, <1>5, <1>7, <1>8, <1>9, <1>10, <1>11, OneEvent DEF EventInv

-------------------------------------------------------------------------------
(***************************************************************************)
(* The progress reply, beside the execution.                               *)
(***************************************************************************)

\* A progress reply that exists belongs to a claim handed out.
LEMMA Claimant ==
  ASSUME SignalsInv, NEW e \in Events, NEW c \in Claims, progress[e][c] # "none"
  PROVE  pc[e][c] # "none" /\ pc[e][c] \in Steps /\ settled[e][c] \in BOOLEAN
  BY DEF SignalsInv, SignalsTypeOK, EventInv, Numbered

ProgressFrame(e) ==
  /\ UNCHANGED <<finalSent, gateway, shown, orphaned, overrun>>
  /\ faults' \in 0 .. MaxFaults /\ faults <= faults'
  /\ calls' \in [Events -> Nat] /\ \A f \in Events \ {e} : calls'[f] = calls[f]

\* A reply that calls was allowed to; one that is over does not begin again.
Advances(e, c, prog) ==
  /\ progress[e][c] # "none"
  /\ prog = "calling" => MayCall(e, c)
  /\ prog \in {"armed", "marking", "admitted"} =>
       progress[e][c] \in {"armed", "marking", "admitted"}

\* What its steps keep, whatever it does to the marker and the count of calls.
LEMMA ProgressStep ==
  ASSUME SignalsInv, NEW e \in Events, NEW c \in Claims, NEW prog, NEW marker,
         Advances(e, c, prog), Moves(e, c, pc[e][c], prog, settled[e][c]),
         RowSet(e, rows[e].status, rows[e].attempts, rows[e].reply, marker, rows[e].reaction),
         ProgressFrame(e), Marked(e)'
  PROVE  SignalsInv'
<1>1. EventInv(e) /\ SignalsTypeOK
  BY DEF SignalsInv
<1>2. pc[e][c] # "none" /\ pc[e][c] \in Steps /\ settled[e][c] \in BOOLEAN
  BY Claimant DEF Advances
<1>3. Local(e)
  BY <1>1 DEF Local, OnlyEvent, SignalsTypeOK, Moves, RowSet, ProgressFrame
<1>4. Numbered(e)' /\ OneAlive(e)'
  <2>1. pc[e][c] = "unreact" => rows'[e].status \in Terminal
    BY <1>1 DEF EventInv, Numbered, RowSet
  <2> QED BY <1>2, <2>1, KeepsNumbered DEF RowSet, ProgressFrame
<1>5. Silent(e)' /\ \A d \in Claims : MayCall(e, d)' => MayCall(e, d)
  <2>1. /\ pc[e][c] \in {"draining", "leaving"} => settled[e][c]
        /\ pc[e][c] \in {"mark", "send"} \cup Stopped => ~MayCall(e, c)
        /\ pc[e][c] = "send" => rows[e].reply # NoReply
    BY <1>1 DEF EventInv, Silent
  <2> QED BY <1>2, <2>1, KeepsSilent DEF MayCall, RowSet, Advances
<1>6. Unaccepted(e)' /\ Last(e)'
  <2>1. rows[e].attempts # 0
    BY <1>1, <1>2, SignalTypes DEF EventInv, Numbered
  <2>2. rows[e].status # "absent"
    BY <1>1, <2>1 DEF EventInv, Unaccepted, AbsentRow
  <2> QED BY <1>1, <1>5, <2>2 DEF EventInv, Unaccepted, Last, RowSet, ProgressFrame
<1>7. Budget(e)'
  BY <1>1, SignalTypes DEF EventInv, Budget, Moves, Owns, RowSet, ProgressFrame
<1>8. Held(e)'
  BY <1>1 DEF EventInv, Held, Moves, Active, RowSet, ProgressFrame
<1> QED BY <1>3, <1>4, <1>5, <1>6, <1>7, <1>8, OneEvent DEF EventInv

\* The delay elapses, the call is answered, its message id is confirmed, or the marker fails.
LEMMA ReplyProgressKeeps ==
  ASSUME SignalsInv, NEW e \in Events, NEW c \in Claims,
         \/ DelayElapses(e, c) \/ MarkProgressFails(e, c)
         \/ ProgressAnswered(e, c) \/ ConfirmProgress(e, c)
  PROVE  SignalsInv'
<1>1. EventInv(e) /\ SignalsTypeOK
  BY DEF SignalsInv
<1>2. PICK prog \in {"marking", "confirming", "over"} :
        /\ Progress(e, c, prog)
        /\ progress[e][c] \in {"armed", "marking", "calling", "confirming"}
        /\ prog = "marking" => progress[e][c] = "armed"
        /\ rows' = rows \/ rows' = ProgressAttempted(e) \/ rows' = ProgressConfirmed(e)
        /\ faults' = faults \/ (faults < MaxFaults /\ faults' = faults + 1)
        /\ UNCHANGED <<pc, settled, finalSent, calls, gateway, shown, orphaned, overrun>>
  BY DEF DelayElapses, MarkProgressFails, ProgressAnswered, ConfirmProgress, Fault, worker, reaction
<1>3. Moves(e, c, pc[e][c], prog, settled[e][c])
  BY <1>1, <1>2, ProgressMoves
<1>4. PICK marker \in {rows[e].progress, "attempted", "confirmed"} :
        RowSet(e, rows[e].status, rows[e].attempts, rows[e].reply, marker, rows[e].reaction)
  <2>1. CASE rows' = rows
    BY <1>1, <2>1 DEF RowSet, SignalsTypeOK
  <2>2. CASE rows' = ProgressAttempted(e)
    BY <1>1, <2>2, SignalStatements DEF SignalsTypeOK
  <2>3. CASE rows' = ProgressConfirmed(e)
    BY <1>1, <2>3, SignalStatements DEF SignalsTypeOK
  <2> QED BY <1>2, <2>1, <2>2, <2>3
<1>5. ProgressFrame(e)
  BY <1>1, <1>2, SignalTypes DEF SignalsTypeOK, ProgressFrame
<1>6. Marked(e)'
  BY <1>2, <1>3, <1>4, KeepsMarked DEF RowSet
<1>7. Advances(e, c, prog)
  BY <1>2 DEF Advances
<1> QED BY <1>3, <1>4, <1>5, <1>6, <1>7, ProgressStep

\* markProgressAttempted admits one execution to call, once.
LEMMA MarkProgressKeeps ==
  ASSUME SignalsInv, NEW e \in Events, NEW c \in Claims, MarkProgress(e, c)
  PROVE  SignalsInv'
<1>1. EventInv(e) /\ SignalsTypeOK
  BY DEF SignalsInv
<1>2. /\ progress[e][c] = "marking"
      /\ UNCHANGED <<pc, settled, finalSent, calls, gateway, shown, orphaned, overrun, faults>>
  BY DEF MarkProgress, worker, reaction
<1>3. ProgressFrame(e) /\ Advances(e, c, "admitted") /\ Advances(e, c, "over")
  BY <1>1, <1>2, SignalTypes DEF SignalsTypeOK, ProgressFrame, Advances
<1>4. CASE MayMarkProgress(e, c)
  <2>1. Moves(e, c, pc[e][c], "admitted", settled[e][c])
    BY <1>1, <1>2, <1>4, ProgressMoves DEF MarkProgress
  <2>2. RowSet(e, rows[e].status, rows[e].attempts, rows[e].reply, "attempted", rows[e].reaction)
    BY <1>1, <1>4, SignalStatements DEF SignalsTypeOK, MarkProgress
  <2>3. Marked(e)'
    BY <1>1, <1>2, <1>4, <2>1, <2>2 DEF EventInv, Marked, MayMarkProgress, Moves, RowSet
  <2> QED BY <1>3, <2>1, <2>2, <2>3, ProgressStep
<1>5. CASE ~MayMarkProgress(e, c)
  <2>1. Moves(e, c, pc[e][c], "over", settled[e][c])
    BY <1>1, <1>2, <1>5, ProgressMoves DEF MarkProgress
  <2>2. RowSet(e, rows[e].status, rows[e].attempts, rows[e].reply, rows[e].progress,
               rows[e].reaction)
    BY <1>1, <1>5 DEF SignalsTypeOK, MarkProgress, RowSet
  <2>3. Marked(e)'
    BY <1>2, <2>1, <2>2, KeepsMarked DEF RowSet
  <2> QED BY <1>3, <2>1, <2>2, <2>3, ProgressStep
<1> QED BY <1>4, <1>5

\* The call, unless the handle was settled while the marker was written.
LEMMA CallProgressKeeps ==
  ASSUME SignalsInv, NEW e \in Events, NEW c \in Claims, CallProgress(e, c)
  PROVE  SignalsInv'
<1>1. EventInv(e) /\ SignalsTypeOK
  BY DEF SignalsInv
<1>2. /\ progress[e][c] = "admitted" /\ pc[e][c] # "dead"
      /\ UNCHANGED <<rows, pc, settled, finalSent, gateway, shown, orphaned, overrun, faults>>
  BY DEF CallProgress, worker, reaction
<1>3. RowSet(e, rows[e].status, rows[e].attempts, rows[e].reply, rows[e].progress,
             rows[e].reaction)
      /\ Advances(e, c, "over")
  BY <1>1, <1>2 DEF SignalsTypeOK, RowSet, Advances
<1>4. CASE settled[e][c]
  <2>1. Moves(e, c, pc[e][c], "over", settled[e][c]) /\ calls' = calls
    BY <1>1, <1>2, <1>4, ProgressMoves DEF CallProgress
  <2>2. Marked(e)'
    BY <1>2, <2>1, KeepsMarked
  <2>3. ProgressFrame(e)
    BY <1>1, <1>2, <2>1, SignalTypes DEF SignalsTypeOK, ProgressFrame
  <2> QED BY <1>3, <2>1, <2>2, <2>3, ProgressStep
<1>5. CASE ~settled[e][c]
  <2>1. Moves(e, c, pc[e][c], "calling", settled[e][c])
        /\ calls' = [calls EXCEPT ![e] = @ + 1]
    BY <1>1, <1>2, <1>5, ProgressMoves DEF CallProgress
  <2>2. ProgressFrame(e) /\ calls'[e] = calls[e] + 1
    BY <1>1, <1>2, <2>1, SignalTypes DEF SignalsTypeOK, ProgressFrame
  <2>3. Marked(e)'
    <3>1. calls[e] = 0 /\ rows[e].progress # "none"
          /\ \A d \in Claims : progress[e][d] = "admitted" => d = c
      BY <1>1, <1>2 DEF EventInv, Marked
    <3>2. \A d \in Claims : progress'[e][d] # "admitted"
      BY <2>1, <3>1 DEF Moves
    <3> QED BY <1>2, <2>2, <3>1, <3>2 DEF Marked
  <2>4. Advances(e, c, "calling")
    BY <1>2, <1>5 DEF MayCall, Advances
  <2> QED BY <1>3, <2>1, <2>2, <2>3, <2>4, ProgressStep
<1> QED BY <1>4, <1>5

-------------------------------------------------------------------------------
(***************************************************************************)
(* The gateway, the claim and the lease.                                   *)
(***************************************************************************)

\* A step that leaves the executions and their progress replies where they are.
LEMMA HandlerStep ==
  ASSUME SignalsInv, NEW e \in Events, NEW status, NEW reacted,
         RowSet(e, status, rows[e].attempts, rows[e].reply, rows[e].progress, reacted),
         UNCHANGED <<pc, progress, settled, finalSent, calls>>,
         status \in {rows[e].status, "queued"}, status = "queued" => rows[e].status \notin Terminal,
         gateway' \in [Events -> {"none", "adding", "attaching", "removing", "gone"}],
         \A f \in Events \ {e} : gateway'[f] = gateway[f],
         shown' \in {shown, shown \cup {e}, shown \ {e}},
         orphaned' \in {orphaned, orphaned \cup {e}}, overrun' \in {overrun, overrun \cup {e}},
         faults' \in 0 .. MaxFaults, faults <= faults',
         Unaccepted(e)', Budget(e)', Held(e)'
  PROVE  SignalsInv'
<1>1. EventInv(e) /\ SignalsTypeOK
  BY DEF SignalsInv
<1>2. Local(e)
  BY <1>1 DEF Local, OnlyEvent, SignalsTypeOK, RowSet
<1>3. Numbered(e)' /\ Marked(e)'
  BY <1>1 DEF EventInv, Numbered, Marked, RowSet
<1>4. OneAlive(e)' /\ Silent(e)' /\ Last(e)'
  BY <1>1 DEF EventInv, OneAlive, Silent, Last, MayCall, RowSet
<1> QED BY <1>2, <1>3, <1>4, OneEvent DEF EventInv

\* enqueue: the row is new, and so is everything about it.
LEMMA EnqueueKeeps ==
  ASSUME SignalsInv, NEW e \in Events, Enqueue(e)
  PROVE  SignalsInv'
<1>1. EventInv(e) /\ SignalsTypeOK
  BY DEF SignalsInv
<1>2. /\ rows[e].status = "absent" /\ gateway' = [gateway EXCEPT ![e] = "adding"]
      /\ UNCHANGED <<pc, progress, settled, finalSent, calls, shown, orphaned, overrun, faults>>
  BY DEF Enqueue, worker, reply
<1>3. rows[e] = AbsentRow /\ e \notin shown
  BY <1>1, <1>2 DEF EventInv, Unaccepted
<1>4. RowSet(e, "queued", rows[e].attempts, rows[e].reply, rows[e].progress, FALSE)
  <2>1. RowSet(e, "queued", 0, NoReply, "none", FALSE)
    BY <1>1, <1>2, QueueStatements DEF SignalsTypeOK, Enqueue
  <2>2. rows[e].attempts = 0 /\ rows[e].reply = NoReply /\ rows[e].progress = "none"
    BY <1>3 DEF AbsentRow
  <2> QED BY <2>1, <2>2
<1>5. /\ gateway' \in [Events -> {"none", "adding", "attaching", "removing", "gone"}]
      /\ \A f \in Events \ {e} : gateway'[f] = gateway[f]
      /\ faults' \in 0 .. MaxFaults /\ faults <= faults'
  BY <1>1, <1>2, SignalTypes DEF SignalsTypeOK
<1>6. Unaccepted(e)' /\ Held(e)'
  BY <1>2, <1>3, <1>4 DEF Unaccepted, Held, RowSet
<1>7. Budget(e)'
  BY <1>1, <1>2, <1>3, <1>4, SignalTypes DEF Budget, Owns, RowSet, AbsentRow
<1>8. rows[e].status \notin Terminal
  BY <1>2 DEF Terminal
<1> QED BY <1>2, <1>4, <1>5, <1>6, <1>7, <1>8, HandlerStep

\* The handler adds the reaction, attaches it to the row, or removes it again.
LEMMA HandlerKeeps ==
  ASSUME SignalsInv, NEW e \in Events,
         \/ AddReaction(e) \/ AddFails(e) \/ AttachReaction(e) \/ AttachFails(e)
         \/ RemoveUnattached(e)
  PROVE  SignalsInv'
<1>1. EventInv(e) /\ SignalsTypeOK
  BY DEF SignalsInv
<1>2. PICK stage \in {"attaching", "removing", "gone"} :
        /\ gateway' = [gateway EXCEPT ![e] = stage]
        /\ gateway[e] \in {"adding", "attaching", "removing"}
        /\ rows' = rows \/ (MayAttachReaction(e) /\ rows' = ReactionAttached(e))
        /\ shown' \in {shown, shown \cup {e}, shown \ {e}}
        /\ orphaned' \in {orphaned, orphaned \cup {e}}
        /\ faults' = faults \/ (faults < MaxFaults /\ faults' = faults + 1)
        /\ stage = "gone" =>
             \/ gateway[e] = "adding" /\ rows' = rows /\ shown' = shown
             \/ e \notin shown' \ orphaned'
             \/ MayAttachReaction(e) /\ rows' = ReactionAttached(e)
        /\ UNCHANGED <<pc, progress, settled, finalSent, calls, overrun>>
  <2>1. CASE AddReaction(e)
    BY <2>1 DEF AddReaction, worker, reply
  <2>2. CASE AddFails(e)
    BY <2>2 DEF AddFails, worker, reply, Fault
  <2>3. CASE AttachReaction(e)
    BY <2>3 DEF AttachReaction, worker, reply
  <2>4. CASE AttachFails(e)
    BY <2>4 DEF AttachFails, worker, reply, Fault
  <2>5. CASE RemoveUnattached(e)
    BY <2>5 DEF RemoveUnattached, worker, reply, Fault
  <2> QED BY <2>1, <2>2, <2>3, <2>4, <2>5
<1>3. PICK reacted \in BOOLEAN :
        /\ RowSet(e, rows[e].status, rows[e].attempts, rows[e].reply, rows[e].progress, reacted)
        /\ reacted = rows[e].reaction \/ (MayAttachReaction(e) /\ reacted)
        /\ MayAttachReaction(e) /\ rows' = ReactionAttached(e) => reacted
  <2>1. rows[e].reaction \in BOOLEAN
    BY <1>1, SignalTypes DEF Row
  <2>2. CASE rows' = rows /\ ~(MayAttachReaction(e) /\ rows' = ReactionAttached(e))
    BY <1>1, <2>1, <2>2 DEF RowSet, SignalsTypeOK
  <2>3. CASE MayAttachReaction(e) /\ rows' = ReactionAttached(e)
    BY <1>1, <2>3, SignalStatements DEF SignalsTypeOK
  <2> QED BY <1>2, <2>2, <2>3
<1>4. /\ gateway' \in [Events -> {"none", "adding", "attaching", "removing", "gone"}]
      /\ (\A f \in Events \ {e} : gateway'[f] = gateway[f]) /\ gateway'[e] = stage
      /\ faults' \in 0 .. MaxFaults /\ faults <= faults'
  BY <1>1, <1>2, SignalTypes DEF SignalsTypeOK
<1>5. Unaccepted(e)' /\ rows[e].status # "absent"
  BY <1>1, <1>2, <1>3 DEF EventInv, Unaccepted, RowSet
<1>6. Budget(e)'
  BY <1>1, <1>2, <1>3, <1>4, SignalTypes DEF EventInv, Budget, Owns, RowSet
<1>7. Held(e)'
  <2>1. CASE stage # "gone"
    BY <1>2, <1>4, <2>1 DEF Held
  <2>2. CASE gateway[e] = "adding" /\ rows' = rows /\ shown' = shown
    BY <1>1, <1>2, <2>2 DEF EventInv, Held, Active
  <2>3. CASE e \notin shown' \ orphaned'
    BY <2>3 DEF Held
  <2>4. CASE MayAttachReaction(e) /\ rows' = ReactionAttached(e)
    BY <1>3, <2>4 DEF Held, Active, MayAttachReaction, RowSet
  <2> QED BY <1>2, <2>1, <2>2, <2>3, <2>4
<1>8. /\ rows[e].status \in {rows[e].status, "queued"}
      /\ rows[e].status = "queued" => rows[e].status \notin Terminal
      /\ overrun' \in {overrun, overrun \cup {e}}
  BY <1>2 DEF Terminal
<1> QED BY <1>2, <1>3, <1>4, <1>5, <1>6, <1>7, <1>8, HandlerStep

\* recoverExpiredLeases: the execution has ended after a fault, or outlived its lease.
LEMMA RecoverKeeps ==
  ASSUME SignalsInv, NEW e \in Events, RecoverExpiredLease(e)
  PROVE  SignalsInv'
<1> DEFINE c == rows[e].attempts
<1>1. EventInv(e) /\ SignalsTypeOK
  BY DEF SignalsInv
<1>2. /\ rows[e].status = "processing" /\ rows' = LeaseRecovered(e)
      /\ \/ pc[e][c] \in Stopped /\ UNCHANGED <<overrun, faults>>
         \/ faults < MaxFaults /\ faults' = faults + 1 /\ overrun' = overrun \cup {e}
      /\ UNCHANGED <<pc, progress, settled, finalSent, calls, gateway, shown, orphaned>>
  BY DEF RecoverExpiredLease, worker, reply, reaction, Fault
<1>3. RowSet(e, "queued", c, rows[e].reply, rows[e].progress, rows[e].reaction)
  BY <1>1, <1>2, QueueStatements DEF SignalsTypeOK
<1>4. c \in Claims /\ pc[e][c] # "none"
  BY <1>1, <1>2, SignalTypes DEF EventInv, Budget, Numbered
<1>5. /\ gateway' \in [Events -> {"none", "adding", "attaching", "removing", "gone"}]
      /\ \A f \in Events \ {e} : gateway'[f] = gateway[f]
      /\ faults' \in 0 .. MaxFaults /\ faults <= faults'
  BY <1>1, <1>2, SignalTypes DEF SignalsTypeOK
<1>6. c <= faults'
  <2>1. CASE pc[e][c] \in Stopped /\ faults' = faults
    BY <1>1, <1>2, <1>4, <2>1 DEF EventInv, Budget, Owns, Stopped
  <2>2. CASE faults' = faults + 1
    BY <1>1, <2>2 DEF EventInv, Budget
  <2> QED BY <1>2, <2>1, <2>2
<1>7. Budget(e)'
  BY <1>3, <1>5, <1>6, SignalTypes, <1>1 DEF Budget, Owns, RowSet
<1>8. Unaccepted(e)' /\ Held(e)'
  BY <1>1, <1>2, <1>3 DEF EventInv, Unaccepted, Held, Active, RowSet
<1>9. rows[e].status \notin Terminal
  BY <1>2 DEF Terminal
<1> QED BY <1>2, <1>3, <1>5, <1>7, <1>8, <1>9, HandlerStep

\* claimReady: there is a claim left, and it starts no progress reply behind a final one.
LEMMA ClaimKeeps ==
  ASSUME SignalsInv, NEW e \in Events, Claim(e)
  PROVE  SignalsInv'
<1>1. EventInv(e) /\ SignalsTypeOK
  BY DEF SignalsInv
<1>2. /\ rows[e].status = "queued" /\ rows' = Claimed(e)
      /\ e \notin overrun => \A d \in Claims : pc[e][d] \in Stopped
      /\ UNCHANGED <<settled, calls, finalSent, gateway, shown, orphaned, overrun, faults>>
  BY DEF Claim, Claimable, reaction
<1>3. PICK c \in Claims, step \in {"working", "send", "uncertain"}, prog \in {"over", "armed"} :
        /\ c = rows[e].attempts + 1 /\ Goto(e, c, step) /\ Progress(e, c, prog)
        /\ rows[e].reply # NoReply => prog = "over"
        /\ step = "send" => rows[e].reply # NoReply
  <2>1. rows[e].attempts + 1 \in Claims
    BY <1>1, <1>2, SignalTypes DEF EventInv, Budget
  <2> QED BY <2>1 DEF Claim
<1>4. c \in Nat /\ rows[e].attempts \in Nat /\ rows[e].attempts <= faults
  BY <1>1, <1>2, SignalTypes DEF EventInv, Budget
<1>5. pc[e][c] = "none" /\ progress[e][c] = "none"
  BY <1>1, <1>3, <1>4 DEF EventInv, Numbered
<1>6. RowSet(e, "processing", c, rows[e].reply, rows[e].progress, rows[e].reaction)
  BY <1>1, <1>2, <1>3, QueueStatements DEF SignalsTypeOK
<1>7. Moves(e, c, step, prog, settled[e][c])
  <2>1. /\ pc' = [pc EXCEPT ![e][c] = step] /\ progress' = [progress EXCEPT ![e][c] = prog]
        /\ settled' = settled
    BY <1>2, <1>3 DEF Goto, Progress
  <2> QED BY <1>1, <2>1 DEF Moves, SignalsTypeOK, Steps
<1>8. Local(e)
  BY <1>1, <1>2, <1>6, <1>7, SignalTypes DEF Local, OnlyEvent, SignalsTypeOK, Moves, RowSet
<1>9. Unaccepted(e)' /\ Held(e)'
  <2>1. \A d \in Claims : pc[e][d] # "unreact"
    BY <1>1, <1>2 DEF EventInv, Numbered, Terminal
  <2> QED BY <1>1, <1>2, <1>6, <2>1 DEF EventInv, Unaccepted, Held, Active, RowSet
<1>10. Numbered(e)'
  <2>1. \A d \in Claims : d \in Nat
    BY <1>1, SignalTypes
  <2>2. \A d \in Claims : pc[e][d] # "unreact"
    BY <1>1, <1>2 DEF EventInv, Numbered, Terminal
  <2>3. rows'[e].attempts = c /\ step \notin {"none", "unreact"}
    BY <1>6 DEF RowSet
  <2>4. pc'[e][c] = step
        /\ \A d \in Claims : d # c => pc'[e][d] = pc[e][d] /\ progress'[e][d] = progress[e][d]
    BY <1>7 DEF Moves
  <2>5. \A d \in Claims :
          /\ d > rows[e].attempts <=> pc[e][d] = "none"
          /\ pc[e][d] = "none" => progress[e][d] = "none"
    BY <1>1 DEF EventInv, Numbered
  <2>6. ASSUME NEW d \in Claims
        PROVE  /\ d > c <=> pc'[e][d] = "none"
               /\ pc'[e][d] = "none" => progress'[e][d] = "none"
               /\ pc'[e][d] # "unreact"
    <3>1. d > c <=> (d > rows[e].attempts /\ d # c)
      <4>1. d \in Nat
        BY <2>1
      <4>2. c = rows[e].attempts + 1
        BY <1>3
      <4> QED BY <1>4, <4>1, <4>2
    <3> QED BY <2>2, <2>3, <2>4, <2>5, <3>1
  <2> QED BY <2>3, <2>6 DEF Numbered
<1>11. Budget(e)'
  BY <1>1, <1>2, <1>3, <1>4, <1>6, <1>7, SignalTypes DEF Budget, Owns, Moves, RowSet
<1>12. Marked(e)'
  BY <1>2, <1>6, <1>7, KeepsMarked DEF RowSet
<1>13. OneAlive(e)'
  BY <1>1, <1>2, <1>7 DEF OneAlive, Moves
<1>14. ~MayCall(e, c)' \/ rows[e].reply = NoReply
  BY <1>3, <1>7 DEF MayCall, Moves
<1>15. \A d \in Claims : d # c => (MayCall(e, d)' <=> MayCall(e, d)) /\ pc'[e][d] = pc[e][d]
                                  /\ settled'[e][d] = settled[e][d]
  BY <1>7 DEF MayCall, Moves
<1>16. Silent(e)' /\ Last(e)'
  <2>1. pc'[e][c] = step /\ rows'[e].reply = rows[e].reply
    BY <1>6, <1>7 DEF Moves, RowSet
  <2>2. Silent(e)'
    BY <1>1, <1>3, <1>14, <1>15, <2>1 DEF EventInv, Silent, Stopped
  <2>3. Last(e)'
    BY <1>1, <1>2, <1>14, <1>15, <2>1 DEF EventInv, Last
  <2> QED BY <2>2, <2>3
<1> QED BY <1>8, <1>9, <1>10, <1>11, <1>12, <1>13, <1>16, OneEvent DEF EventInv

-------------------------------------------------------------------------------
(***************************************************************************)
(* The crash, and the invariant.                                           *)
(***************************************************************************)

\* The process dies: every execution is dead, and what only it knew is given up.
LEMMA CrashKeeps ==
  ASSUME SignalsInv, Crash
  PROVE  SignalsInv'
<1>1. SignalsTypeOK /\ \A e \in Events : EventInv(e)
  BY DEF SignalsInv
<1>2. /\ pc' = [e \in Events |-> [c \in Claims |->
                  IF pc[e][c] \in Stopped THEN pc[e][c] ELSE "dead"]]
      /\ progress' = [e \in Events |-> [c \in Claims |->
                  IF progress[e][c] \in {"none", "marking"} THEN progress[e][c] ELSE "over"]]
      /\ gateway' = [e \in Events |-> IF gateway[e] = "none" THEN "none" ELSE "gone"]
      /\ orphaned' = orphaned \cup {e \in shown :
           gateway[e] \in {"attaching", "removing"} \/ \E c \in Claims : pc[e][c] = "unreact"}
      /\ faults < MaxFaults /\ faults' = faults + 1
      /\ UNCHANGED <<rows, settled, calls, finalSent, shown, overrun>>
  BY DEF Crash, Fault
<1>3. SignalsTypeOK'
  <2>1. pc' \in [Events -> [Claims -> Steps]]
    BY <1>1, <1>2 DEF SignalsTypeOK, Steps
  <2>2. progress' \in [Events -> [Claims -> {"none", "armed", "marking", "admitted", "calling",
                                             "confirming", "over"}]]
    BY <1>1, <1>2 DEF SignalsTypeOK
  <2>3. gateway' \in [Events -> {"none", "adding", "attaching", "removing", "gone"}]
    BY <1>2
  <2>4. orphaned' \subseteq Events /\ faults' \in 0 .. MaxFaults
    BY <1>1, <1>2, SignalTypes DEF SignalsTypeOK
  <2> QED BY <1>1, <1>2, <2>1, <2>2, <2>3, <2>4 DEF SignalsTypeOK
<1>4. ASSUME NEW e \in Events PROVE EventInv(e)'
  <2>1. /\ \A c \in Claims : pc'[e][c] = IF pc[e][c] \in Stopped THEN pc[e][c] ELSE "dead"
        /\ \A c \in Claims : progress'[e][c] =
             IF progress[e][c] \in {"none", "marking"} THEN progress[e][c] ELSE "over"
        /\ gateway'[e] = IF gateway[e] = "none" THEN "none" ELSE "gone"
    BY <1>2
  <2>2. EventInv(e)
    BY <1>1
  <2>3. Unaccepted(e)' /\ Numbered(e)' /\ OneAlive(e)'
    BY <1>2, <2>1, <2>2 DEF EventInv, Unaccepted, Numbered, OneAlive, Stopped
  <2>4. Budget(e)'
    BY <1>1, <1>2, <2>2, SignalTypes DEF EventInv, Budget, Owns
  <2>5. Marked(e)'
    BY <1>2, <2>1, <2>2 DEF EventInv, Marked
  <2>6. \A c \in Claims : ~MayCall(e, c)' /\ pc'[e][c] \in Stopped
    <3> SUFFICES ASSUME NEW c \in Claims PROVE ~MayCall(e, c)' /\ pc'[e][c] \in Stopped
      OBVIOUS
    <3>1. pc'[e][c] \in Stopped
      BY <2>1 DEF Stopped
    <3>2. CASE pc[e][c] \in Stopped
      BY <1>2, <2>1, <2>2, <3>2 DEF EventInv, Silent, MayCall
    <3>3. CASE pc[e][c] \notin Stopped
      <4>1. pc'[e][c] = "dead" /\ progress'[e][c] # "calling"
        BY <2>1, <3>3
      <4> QED BY <4>1 DEF MayCall, Stopped
    <3> QED BY <3>1, <3>2, <3>3
  <2>7. Silent(e)' /\ Last(e)'
    BY <1>2, <2>2, <2>6 DEF EventInv, Silent, Last, Stopped
  <2>8. Held(e)'
    BY <1>2, <2>2 DEF EventInv, Held, Active
  <2> QED BY <2>3, <2>4, <2>5, <2>7, <2>8 DEF EventInv
<1> QED BY <1>3, <1>4 DEF SignalsInv

\* Nothing has happened yet.
LEMMA SignalsBegin ==
  ASSUME SignalsInit
  PROVE  SignalsInv
<1>1. SignalsTypeOK
  BY SignalsAssumption
  DEF SignalsInit, SignalsTypeOK, InitStore, AbsentRow, Row, Statuses, Outcomes, Steps,
      SignalsAssumption
<1>2. ASSUME NEW e \in Events PROVE EventInv(e)
  <2>1. /\ rows[e] = AbsentRow /\ gateway[e] = "none" /\ e \notin shown /\ e \notin finalSent
        /\ calls[e] = 0 /\ \A c \in Claims : pc[e][c] = "none" /\ progress[e][c] = "none"
    BY DEF SignalsInit, InitStore
  <2>2. rows[e].status = "absent" /\ rows[e].attempts = 0
    BY <2>1 DEF AbsentRow
  <2>3. Unaccepted(e) /\ Numbered(e) /\ Budget(e)
    BY <1>1, <2>1, <2>2, SignalTypes DEF Unaccepted, Numbered, Budget, Owns
  <2>4. Marked(e) /\ OneAlive(e) /\ Silent(e) /\ Last(e) /\ Held(e)
    BY <2>1 DEF Marked, OneAlive, Silent, Last, Held, MayCall, Stopped
  <2> QED BY <2>3, <2>4 DEF EventInv
<1> QED BY <1>1, <1>2 DEF SignalsInv

\* A step that changes nothing changes nothing of the invariant.
LEMMA SignalsStutter ==
  ASSUME SignalsInv, UNCHANGED signalVars
  PROVE  SignalsInv'
<1>1. UNCHANGED <<rows, pc, progress, settled, calls, finalSent, gateway, shown, orphaned, overrun,
                  faults>>
  BY DEF signalVars, worker, reply, reaction
<1> QED
  BY <1>1 DEF SignalsInv, SignalsTypeOK, EventInv, Unaccepted, Numbered, Budget, Marked, OneAlive,
      Silent, Last, Held, MayCall, Owns, Active

\* Every step keeps the invariant.
LEMMA SignalsStep ==
  ASSUME SignalsInv, [SignalsNext]_signalVars
  PROVE  SignalsInv'
<1>1. CASE SignalsIdle \/ UNCHANGED signalVars
  BY <1>1, SignalsStutter DEF SignalsIdle
<1>2. CASE Crash
  BY <1>2, CrashKeeps
<1>3. ASSUME NEW e \in Events,
             \/ Enqueue(e) \/ Claim(e) \/ RecoverExpiredLease(e)
             \/ Handles(e) \/ AddFails(e) \/ AttachFails(e)
      PROVE  SignalsInv'
  BY <1>3, EnqueueKeeps, ClaimKeeps, RecoverKeeps, HandlerKeeps DEF Handles
<1>4. ASSUME NEW e \in Events, NEW c \in Claims,
             \/ Works(e, c) \/ Fails(e, c) \/ Throws(e, c)
             \/ Signals(e, c) \/ MarkProgressFails(e, c)
      PROVE  SignalsInv'
  <2>1. CASE Works(e, c)
    BY <2>1, SettlingKeeps, WaitingKeeps, MarkReplyStartedKeeps, SendReplyKeeps, RetryKeeps,
       TerminatesKeeps, RemoveReactionKeeps, StaleClaimKeeps DEF Works
  <2>2. CASE Fails(e, c) \/ Throws(e, c)
    BY <2>2, FailureKeeps
  <2>3. CASE Signals(e, c) \/ MarkProgressFails(e, c)
    BY <2>3, ReplyProgressKeeps, MarkProgressKeeps, CallProgressKeeps DEF Signals
  <2> QED BY <1>4, <2>1, <2>2, <2>3
<1> QED BY <1>1, <1>2, <1>3, <1>4 DEF SignalsNext

-------------------------------------------------------------------------------
\* The invariant holds of every behaviour, whatever the number of events and of faults:
\* retries, crashes and executions that outlive their lease included.
THEOREM SignalsInvariance == SignalsSpec => []SignalsInv
<1>1. SignalsInit => SignalsInv
  BY SignalsBegin
<1>2. SignalsInv /\ [SignalsNext]_signalVars => SignalsInv'
  BY SignalsStep
<1> QED BY <1>1, <1>2, PTL DEF SignalsSpec

\* A progress reply is sent at most once for an event: markProgressAttempted admits one
\* execution, and its handle makes one call.
THEOREM ProgressAtMostOnce == SignalsSpec => []AtMostOneProgress
<1>1. SignalsInv => AtMostOneProgress
  BY DEF SignalsInv, EventInv, Marked, AtMostOneProgress
<1> QED BY <1>1, SignalsInvariance, PTL

\* Once the final reply of an event is sent no call for a progress reply is under way nor
\* will be: settle waits for the call, and a later claim finds the final reply on the row.
THEOREM FinalReplyIsLast == SignalsSpec => []FinalComesLast
<1>1. SignalsInv => FinalComesLast
  BY DEF SignalsInv, SignalsTypeOK, EventInv, Last, MayCall, FinalComesLast
<1> QED BY <1>1, SignalsInvariance, PTL

\* A Typing reaction that is shown is held by the handler that added it, by the row of an
\* unfinished event or by the execution that ended it, unless an answer or a process was lost.
THEOREM ReactionsAreHeld == SignalsSpec => []ShownIsHeld
<1>1. SignalsInv => ShownIsHeld
  BY DEF SignalsInv, SignalsTypeOK, EventInv, Held, ShownIsHeld
<1> QED BY <1>1, SignalsInvariance, PTL

\* And none begins: only a call changes the count of calls, and no execution may make one.
THEOREM NoCallBeginsAfterFinal ==
  SignalsSpec => [][\A e \in finalSent \ overrun : calls'[e] = calls[e]]_signalVars
<1> DEFINE Kept == \A e \in finalSent \ overrun : calls'[e] = calls[e]
<1>1. ASSUME SignalsInv, [SignalsNext]_signalVars PROVE [Kept]_signalVars
  <2>1. CASE UNCHANGED calls
    BY <2>1
  <2>2. ASSUME NEW f \in Events, NEW c \in Claims, CallProgress(f, c) PROVE Kept
    <3>1. CASE settled[f][c]
      BY <2>2, <3>1 DEF CallProgress
    <3>2. CASE ~settled[f][c]
      <4>1. MayCall(f, c) /\ calls' = [calls EXCEPT ![f] = @ + 1]
        BY <2>2, <3>2 DEF CallProgress, MayCall
      <4>2. f \notin finalSent \ overrun
        BY <1>1, <4>1 DEF SignalsInv, EventInv, Last
      <4>3. ASSUME NEW e \in finalSent \ overrun PROVE calls'[e] = calls[e]
        <5>1. e \in Events /\ e # f /\ calls \in [Events -> Nat]
          BY <1>1, <4>2, <4>3 DEF SignalsInv, SignalsTypeOK
        <5> QED BY <4>1, <5>1
      <4> QED BY <4>3
    <3> QED BY <3>1, <3>2
  <2>3. ASSUME NEW e \in Events,
               \/ Enqueue(e) \/ Claim(e) \/ RecoverExpiredLease(e)
               \/ Handles(e) \/ AddFails(e) \/ AttachFails(e)
        PROVE  UNCHANGED calls
    BY <2>3 DEF Enqueue, Claim, RecoverExpiredLease, Handles, AddReaction, AttachReaction,
       RemoveUnattached, AddFails, AttachFails, reply
  <2>4. ASSUME NEW e \in Events, NEW c \in Claims,
               Works(e, c) \/ Fails(e, c) \/ Throws(e, c)
        PROVE  UNCHANGED calls
    BY <2>4 DEF Works, Composes, Drains, MarkReplyStarted, SendReply, Retry, Terminates,
       RemoveReaction, StaleClaim, Ends, Leaves, Fails, Throws, reply
  <2>5. ASSUME NEW e \in Events, NEW c \in Claims, Signals(e, c) \/ MarkProgressFails(e, c)
        PROVE  UNCHANGED calls \/ CallProgress(e, c)
    BY <2>5 DEF Signals, DelayElapses, MarkProgress, ProgressAnswered, ConfirmProgress,
       MarkProgressFails
  <2>6. SignalsIdle \/ Crash \/ UNCHANGED signalVars => UNCHANGED calls
    BY DEF SignalsIdle, Crash, signalVars, reply
  <2> QED BY <1>1, <2>1, <2>2, <2>3, <2>4, <2>5, <2>6 DEF SignalsNext
<1> QED BY <1>1, SignalsInvariance, PTL DEF SignalsSpec
===============================================================================
