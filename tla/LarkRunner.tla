------------------------------ MODULE LarkRunner -------------------------------
(***************************************************************************)
(* The child processes of lark-cli (src/src/lark/runner.ts).  A command is *)
(* settled by the 'close' of its child; before that its own timeout, its   *)
(* output limit and the abort of the run may each cut it short, in any     *)
(* order, and the first of them names the result.  An aborted child is     *)
(* asked to end (SIGTERM) and killed one second later.                     *)
(*                                                                         *)
(* A killed child ends and its pipes close: no descendant of lark-cli      *)
(* keeps them open.                                                        *)
(***************************************************************************)
EXTENDS ToolCalls

CONSTANT Commands     \* the places a command can run in

VARIABLE command      \* command[c]: the command in place c

\* limit: its timeout is over or its output too long; both kill it at once.
Reasons == {"aborted", "limit"}
Answers == {"success", "cli_error", "malformed"}     \* malformed: neither data nor an error

Command ==
  [phase : {"idle", "running", "exited", "settled"},
   reason : {"none"} \cup Reasons,          \* terminationReason
   killed : BOOLEAN,                        \* SIGKILL has been sent
   killTimer : BOOLEAN,                     \* it will be, one second after SIGTERM
   writes : BOOLEAN,                        \* it writes into a directory of its caller
   outcome : {"none", "spawn_failed"} \cup Reasons \cup Answers]

RunnerTypeOK == command \in [Commands -> Command]

Idle == [phase |-> "idle", reason |-> "none", killed |-> FALSE, killTimer |-> FALSE,
         writes |-> FALSE, outcome |-> "none"]

RunnerInit == command = [c \in Commands |-> Idle]

Spawned(writes) == [Idle EXCEPT !.phase = "running", !.writes = writes]

\* Timers cleared, listeners removed: nothing of the command is left but its outcome.
Settled(outcome) == [Idle EXCEPT !.phase = "settled", !.outcome = outcome]

Live(x) == x.phase \in {"running", "exited"}
Uncut(x) == Live(x) /\ x.reason = "none"

\* Faulty: the child is only asked to end.
AbortAsks(x) == IF Uncut(x) THEN [x EXCEPT !.reason = "aborted"] ELSE x

\* The abort listener: SIGTERM now, SIGKILL when the grace period is over.
onAbort(x) == IF Uncut(x) THEN [x EXCEPT !.reason = "aborted", !.killTimer = TRUE] ELSE x

\* The commands of cs start, those of dirs with a directory to write into; spawn() may
\* throw or the child report an error.  A signal that has already fired is seen after the
\* spawn.  The results in taken have been used by the caller.
Start(cs, dirs, taken) ==
  \E failing \in SUBSET cs :
    command' = [c \in Commands |->
      IF c \in failing THEN Settled("spawn_failed")
      ELSE IF c \in cs
        THEN IF aborted THEN onAbort(Spawned(c \in dirs)) ELSE Spawned(c \in dirs)
        ELSE IF c \in taken THEN Idle ELSE command[c]]

Become(c, x) == command' = [command EXCEPT ![c] = x]

\* terminate(): the timer fires, or a chunk goes over the output limit, also when it is
\* read after the exit.  The first reason wins; a later one kills nothing.
Terminate(c) ==
  /\ Uncut(command[c])
  /\ Become(c, [command[c] EXCEPT !.reason = "limit", !.killed = TRUE])

KillTimerFires(c) ==
  /\ Live(command[c]) /\ command[c].killTimer
  /\ Become(c, [command[c] EXCEPT !.killed = TRUE, !.killTimer = FALSE])

\* The child ends, by itself or by a signal.
Exit(c) ==
  /\ command[c].phase = "running"
  /\ Become(c, [command[c] EXCEPT !.phase = "exited"])

\* 'close': a reason overrides what the output and the exit code say.
Close(c) ==
  LET x == command[c] IN
  /\ x.phase = "exited"
  /\ \E outcome \in IF x.reason # "none" THEN {x.reason} ELSE Answers :
       Become(c, Settled(outcome))

\* The run's signal calls the listener of every command.
CommandsAborted == command' = [c \in Commands |-> onAbort(command[c])]

RunnerStep(c) == Terminate(c) \/ KillTimerFires(c) \/ Exit(c) \/ Close(c)

\* What happens to a command without its own doing: timers fire, a killed child ends, and
\* its close is reported.
RunnerProgress(c) ==
  Terminate(c) \/ KillTimerFires(c) \/ (command[c].killed /\ Exit(c)) \/ Close(c)

RunnerNext ==
  \/ \E c \in Commands, d \in SUBSET Commands :
       command[c].phase \in {"idle", "settled"} /\ Start({c}, d, {}) /\ UNCHANGED runVars
  \/ \E c \in Commands : RunnerStep(c) /\ UNCHANGED runVars
  \/ SignalFires /\ CommandsAborted
RunnerSpec == CallsInit /\ RunnerInit /\ [][RunnerNext]_<<runVars, command>>
===============================================================================
