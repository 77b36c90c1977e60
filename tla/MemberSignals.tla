----------------------------- MODULE MemberSignals -----------------------------
(***************************************************************************)
(* What a member sees while an event is worked on, next to its final       *)
(* reply: the Typing reaction that the gateway adds when it has enqueued   *)
(* the event (src/src/feishu/gateway.ts), and the one progress reply an    *)
(* execution sends after 20 seconds (src/src/worker/progress-reply.ts).    *)
(*                                                                         *)
(* The worker is the one of MessageWorker reduced to the steps the signals *)
(* touch: it settles the progress handle before it marks the final reply   *)
(* and again when it ends, and removes the reaction a terminal statement   *)
(* hands back.  Its timer, marker statement, call and confirmation run     *)
(* beside it.  Gateway and workers are one process and crash together.     *)
(***************************************************************************)
EXTENDS EventStore

CONSTANTS
  Unsupported,     \* events whose content kind is unsupported
  AttemptLimit,    \* failures before the reply end the event at this attempt (3)
  MaxFaults        \* bound on failures, crashes and premature lease expiries

ASSUME SignalsAssumption ==
  /\ Unsupported \subseteq Events
  /\ AttemptLimit \in Nat \ {0}
  /\ MaxFaults \in Nat

VARIABLES
  pc,          \* pc[e][c]: where the execution of claim c stands
  progress,    \* progress[e][c]: its progress reply
  settled,     \* settled[e][c]: the flag of its progress handle
  calls,       \* calls[e]: calls made to send a progress reply
  finalSent,   \* events whose final reply has been sent
  gateway,     \* gateway[e]: the handler that enqueued the event
  shown,       \* events whose trigger message shows the reaction
  orphaned,    \* events whose reaction a lost answer, request or process left behind
  overrun,     \* events that lost a lease under a live execution
  faults

worker == <<pc, settled, finalSent>>
reply == <<progress, calls>>
reaction == <<gateway, shown, orphaned>>
signalVars == <<rows, worker, reply, reaction, overrun, faults>>

Claims == 1 .. (MaxFaults + 1)
Steps == {"none", "working", "draining", "mark", "send", "replied", "uncertain",
          "retry", "give_up", "unreact", "ending", "leaving", "done", "dead"}
Stopped == {"none", "done", "dead"}

SignalsTypeOK ==
  /\ rows \in [Events -> Row]
  /\ pc \in [Events -> [Claims -> Steps]]
  /\ progress \in [Events -> [Claims -> {"none", "armed", "marking", "admitted", "calling",
                                         "confirming", "over"}]]
  /\ settled \in [Events -> [Claims -> BOOLEAN]]
  /\ calls \in [Events -> Nat]
  /\ finalSent \subseteq Events
  /\ gateway \in [Events -> {"none", "adding", "attaching", "removing", "gone"}]
  /\ shown \subseteq Events
  /\ orphaned \subseteq Events
  /\ overrun \subseteq Events
  /\ faults \in 0 .. MaxFaults

SignalsInit ==
  /\ InitStore
  /\ pc = [e \in Events |-> [c \in Claims |-> "none"]]
  /\ progress = [e \in Events |-> [c \in Claims |-> "none"]]
  /\ settled = [e \in Events |-> [c \in Claims |-> FALSE]]
  /\ calls = [e \in Events |-> 0]
  /\ finalSent = {}
  /\ gateway = [e \in Events |-> "none"]
  /\ shown = {}
  /\ orphaned = {}
  /\ overrun = {}
  /\ faults = 0

Goto(e, c, step) == pc' = [pc EXCEPT ![e][c] = step]
Progress(e, c, step) == progress' = [progress EXCEPT ![e][c] = step]
Fault == faults < MaxFaults /\ faults' = faults + 1

-------------------------------------------------------------------------------
\* The gateway's handler.

Enqueue(e) ==
  /\ rows[e].status = "absent"
  /\ \E stamp \in Stamps : rows' = Inserted(e, stamp)
  /\ gateway' = [gateway EXCEPT ![e] = "adding"]
  /\ UNCHANGED <<worker, reply, shown, orphaned, overrun, faults>>

AddReaction(e) ==
  /\ gateway[e] = "adding"
  /\ shown' = shown \cup {e}
  /\ gateway' = [gateway EXCEPT ![e] = "attaching"]
  /\ UNCHANGED <<rows, worker, reply, orphaned, overrun, faults>>

\* The request fails: addReaction returns no id, and Feishu may have added the reaction.
AddFails(e) ==
  /\ gateway[e] = "adding"
  /\ Fault
  /\ \/ UNCHANGED <<shown, orphaned>>
     \/ shown' = shown \cup {e} /\ orphaned' = orphaned \cup {e}
  /\ gateway' = [gateway EXCEPT ![e] = "gone"]
  /\ UNCHANGED <<rows, worker, reply, overrun>>

\* Faulty: the reaction is attached whatever has become of the event.
AttachUnconditionally(e) ==
  /\ gateway[e] = "attaching"
  /\ rows' = ReactionAttached(e)
  /\ gateway' = [gateway EXCEPT ![e] = "gone"]
  /\ UNCHANGED <<worker, reply, shown, orphaned, overrun, faults>>

\* attachProcessingReaction refuses an event that is over: the handler removes the
\* reaction itself.
AttachReaction(e) ==
  /\ gateway[e] = "attaching"
  /\ IF MayAttachReaction(e)
       THEN rows' = ReactionAttached(e) /\ gateway' = [gateway EXCEPT ![e] = "gone"]
       ELSE UNCHANGED rows /\ gateway' = [gateway EXCEPT ![e] = "removing"]
  /\ UNCHANGED <<worker, reply, shown, orphaned, overrun, faults>>

\* It throws, committed or not.
AttachFails(e) ==
  /\ gateway[e] = "attaching"
  /\ Fault
  /\ \/ UNCHANGED rows
     \/ MayAttachReaction(e) /\ rows' = ReactionAttached(e)
  /\ gateway' = [gateway EXCEPT ![e] = "removing"]
  /\ UNCHANGED <<worker, reply, shown, orphaned, overrun>>

RemoveUnattached(e) ==
  /\ gateway[e] = "removing"
  /\ \/ shown' = shown \ {e} /\ UNCHANGED <<orphaned, faults>>
     \/ Fault /\ orphaned' = orphaned \cup {e} /\ UNCHANGED shown
  /\ gateway' = [gateway EXCEPT ![e] = "gone"]
  /\ UNCHANGED <<rows, worker, reply, overrun>>

-------------------------------------------------------------------------------
\* An execution.

\* claimReady, and startProgressReply on the row it returns.  A retry waits at least
\* 30 seconds, the timeout of a call, and a lease 20 minutes: the execution before has
\* ended, unless it outlived its lease.
Claim(e) ==
  LET c == rows[e].attempts + 1
      noProgress == e \in Unsupported \/ rows[e].reply # NoReply \/ rows[e].progress # "none"
  IN
  /\ Claimable(e, {}, 0)
  /\ e \notin overrun => \A d \in Claims : pc[e][d] \in Stopped
  /\ rows' = Claimed(e)
  /\ \E step \in IF rows[e].reply = NoReply THEN {"working"} ELSE {"send", "uncertain"} :
       Goto(e, c, step)
  /\ Progress(e, c, IF noProgress THEN "over" ELSE "armed")
  /\ UNCHANGED <<settled, calls, finalSent, reaction, overrun, faults>>

\* settle, up to its await: the timer is cleared and the flag set.
Settle(e, c, step) ==
  /\ settled' = [settled EXCEPT ![e][c] = TRUE]
  /\ IF progress[e][c] = "armed" THEN Progress(e, c, "over") ELSE UNCHANGED progress
  /\ Goto(e, c, step)

\* The reply is composed: persistPreparedReply settles the progress reply first.
Composes(e, c) ==
  /\ pc[e][c] = "working"
  /\ Settle(e, c, "draining")
  /\ UNCHANGED <<rows, calls, finalSent, reaction, overrun, faults>>

\* Faulty: settle does not wait for the call.
DrainsAtOnce(e, c) ==
  /\ pc[e][c] = "draining"
  /\ Goto(e, c, "mark")
  /\ UNCHANGED <<rows, settled, finalSent, reply, reaction, overrun, faults>>

\* Faulty: settle waits for the whole attempt, its marker included.
DrainsAttempt(e, c) ==
  /\ pc[e][c] = "draining"
  /\ progress[e][c] \notin {"marking", "admitted", "calling"}
  /\ Goto(e, c, "mark")
  /\ UNCHANGED <<rows, settled, finalSent, reply, reaction, overrun, faults>>

\* settle waits for a call that has begun, and for nothing else.
Drains(e, c) ==
  /\ pc[e][c] = "draining"
  /\ progress[e][c] # "calling"
  /\ Goto(e, c, "mark")
  /\ UNCHANGED <<rows, settled, finalSent, reply, reaction, overrun, faults>>

MarkReplyStarted(e, c) ==
  /\ pc[e][c] = "mark"
  /\ Owns(e, c)
  /\ rows' = ReplyStarted(e, [kind |-> "answer", claim |-> c])
  /\ Goto(e, c, "send")
  /\ UNCHANGED <<settled, finalSent, reply, reaction, overrun, faults>>

\* The final reply is sent and answered.
SendReply(e, c) ==
  /\ pc[e][c] = "send"
  /\ finalSent' = finalSent \cup {e}
  /\ Goto(e, c, "replied")
  /\ UNCHANGED <<rows, settled, reply, reaction, overrun, faults>>

\* An attempt fails before its reply, or the call for it does, sent or not.
Fails(e, c) ==
  /\ pc[e][c] \in {"working", "mark", "send"}
  /\ Fault
  /\ Goto(e, c, IF pc[e][c] = "send" \/ c < AttemptLimit THEN "retry" ELSE "give_up")
  /\ \/ UNCHANGED finalSent
     \/ pc[e][c] = "send" /\ finalSent' = finalSent \cup {e}
  /\ UNCHANGED <<rows, settled, reply, reaction, overrun>>

Retry(e, c) ==
  /\ pc[e][c] = "retry"
  /\ Owns(e, c)
  /\ rows' = Retried(e)
  /\ Goto(e, c, "ending")
  /\ UNCHANGED <<settled, finalSent, reply, reaction, overrun, faults>>

\* complete and markReplyUncertain hand back the reaction they clear.
Terminates(e, c) ==
  /\ Owns(e, c)
  /\ \/ pc[e][c] = "replied" /\ rows' = Completed(e, "replied")
     \/ pc[e][c] = "give_up" /\ rows' = Completed(e, "gave_up")
     \/ pc[e][c] = "uncertain" /\ rows' = ReplyUncertain(e)
  /\ Goto(e, c, IF rows[e].reaction THEN "unreact" ELSE "ending")
  /\ UNCHANGED <<settled, finalSent, reply, reaction, overrun, faults>>

\* removeTerminalReaction
RemoveReaction(e, c) ==
  /\ pc[e][c] = "unreact"
  /\ \/ shown' = shown \ {e} /\ UNCHANGED <<orphaned, faults>>
     \/ Fault /\ orphaned' = orphaned \cup {e} /\ UNCHANGED shown
  /\ Goto(e, c, "ending")
  /\ UNCHANGED <<rows, settled, finalSent, reply, gateway, overrun>>

\* A fenced statement finds that the claim is gone.
StaleClaim(e, c) ==
  /\ pc[e][c] \in {"mark", "replied", "give_up", "uncertain", "retry"}
  /\ ~Owns(e, c)
  /\ Goto(e, c, "ending")
  /\ UNCHANGED <<rows, settled, finalSent, reply, reaction, overrun, faults>>

\* An error escapes; the row waits for its lease to expire.
Throws(e, c) ==
  /\ pc[e][c] \in {"working", "mark", "replied", "give_up", "uncertain", "retry"}
  /\ Fault
  /\ Goto(e, c, "ending")
  /\ UNCHANGED <<rows, settled, finalSent, reply, reaction, overrun>>

\* finally: settle, and the wait for a call under way.
Ends(e, c) ==
  /\ pc[e][c] = "ending"
  /\ Settle(e, c, "leaving")
  /\ UNCHANGED <<rows, calls, finalSent, reaction, overrun, faults>>

Leaves(e, c) ==
  /\ pc[e][c] = "leaving"
  /\ progress[e][c] # "calling"
  /\ Goto(e, c, "done")
  /\ UNCHANGED <<rows, settled, finalSent, reply, reaction, overrun, faults>>

-------------------------------------------------------------------------------
\* Its progress reply.

\* The timer fires, or the delay was over at the claim.
DelayElapses(e, c) ==
  /\ progress[e][c] = "armed"
  /\ Progress(e, c, "marking")
  /\ UNCHANGED <<rows, worker, calls, reaction, overrun, faults>>

\* markProgressAttempted; the statement may outlive its process.
MarkProgress(e, c) ==
  /\ progress[e][c] = "marking"
  /\ IF MayMarkProgress(e, c)
       THEN rows' = ProgressAttempted(e) /\ Progress(e, c, "admitted")
       ELSE UNCHANGED rows /\ Progress(e, c, "over")
  /\ UNCHANGED <<worker, calls, reaction, overrun, faults>>

MarkProgressFails(e, c) ==
  /\ progress[e][c] = "marking"
  /\ Fault
  /\ \/ UNCHANGED rows
     \/ MayMarkProgress(e, c) /\ rows' = ProgressAttempted(e)
  /\ Progress(e, c, "over")
  /\ UNCHANGED <<worker, calls, reaction, overrun>>

\* The marker has returned: the call is made unless the handle was settled meanwhile.
CallProgress(e, c) ==
  /\ progress[e][c] = "admitted"
  /\ pc[e][c] # "dead"
  /\ IF settled[e][c]
       THEN Progress(e, c, "over") /\ UNCHANGED calls
       ELSE Progress(e, c, "calling") /\ calls' = [calls EXCEPT ![e] = @ + 1]
  /\ UNCHANGED <<rows, worker, reaction, overrun, faults>>

\* The call returns a message id, whose confirmation nobody awaits, or throws.
ProgressAnswered(e, c) ==
  /\ progress[e][c] = "calling"
  /\ \E step \in {"confirming", "over"} : Progress(e, c, step)
  /\ UNCHANGED <<rows, worker, calls, reaction, overrun, faults>>

ConfirmProgress(e, c) ==
  /\ progress[e][c] = "confirming"
  /\ rows' = IF MayConfirmProgress(e, c) THEN ProgressConfirmed(e) ELSE rows
  /\ Progress(e, c, "over")
  /\ UNCHANGED <<worker, calls, reaction, overrun, faults>>

-------------------------------------------------------------------------------
\* Leases and crashes.

RecoverExpiredLease(e) ==
  /\ rows[e].status = "processing"
  /\ IF pc[e][rows[e].attempts] \in Stopped
       THEN UNCHANGED <<overrun, faults>>
       ELSE Fault /\ overrun' = overrun \cup {e}
  /\ rows' = LeaseRecovered(e)
  /\ UNCHANGED <<worker, reply, reaction>>

\* The process dies: what only it knew of a reaction is lost.
Crash ==
  /\ Fault
  /\ pc' = [e \in Events |-> [c \in Claims |->
              IF pc[e][c] \in Stopped THEN pc[e][c] ELSE "dead"]]
  /\ progress' = [e \in Events |-> [c \in Claims |->
              IF progress[e][c] \in {"none", "marking"} THEN progress[e][c] ELSE "over"]]
  /\ gateway' = [e \in Events |-> IF gateway[e] = "none" THEN "none" ELSE "gone"]
  /\ orphaned' = orphaned \cup {e \in shown :
       gateway[e] \in {"attaching", "removing"} \/ \E c \in Claims : pc[e][c] = "unreact"}
  /\ UNCHANGED <<rows, settled, calls, finalSent, shown, overrun>>

-------------------------------------------------------------------------------

Handles(e) == AddReaction(e) \/ AttachReaction(e) \/ RemoveUnattached(e)

Works(e, c) ==
  \/ Composes(e, c) \/ Drains(e, c) \/ MarkReplyStarted(e, c) \/ SendReply(e, c)
  \/ Retry(e, c) \/ Terminates(e, c) \/ RemoveReaction(e, c) \/ StaleClaim(e, c)
  \/ Ends(e, c) \/ Leaves(e, c)

Signals(e, c) ==
  \/ DelayElapses(e, c) \/ MarkProgress(e, c) \/ CallProgress(e, c)
  \/ ProgressAnswered(e, c) \/ ConfirmProgress(e, c)

\* Every event is over and so is everything that was begun for it.
SignalsIdle ==
  /\ \A e \in Events :
       /\ rows[e].status \in Terminal /\ gateway[e] = "gone"
       /\ \A c \in Claims : pc[e][c] \in Stopped /\ progress[e][c] \in {"none", "over", "admitted"}
  /\ UNCHANGED signalVars

SignalsNext ==
  \/ SignalsIdle
  \/ Crash
  \/ \E e \in Events :
       \/ Enqueue(e) \/ Claim(e) \/ RecoverExpiredLease(e)
       \/ Handles(e) \/ AddFails(e) \/ AttachFails(e)
  \/ \E e \in Events, c \in Claims :
       \/ Works(e, c) \/ Fails(e, c) \/ Throws(e, c)
       \/ Signals(e, c) \/ MarkProgressFails(e, c)

SignalsSpec == SignalsInit /\ [][SignalsNext]_signalVars

\* Executions run, calls are answered within their timeout and leases are recovered.
\* Neither the marker statement nor the gateway is assumed to get anywhere.
Fairness ==
  \A e \in Events :
    /\ WF_signalVars(Claim(e))
    /\ WF_signalVars(rows[e].status = "processing" /\ pc[e][rows[e].attempts] \in Stopped
                 /\ RecoverExpiredLease(e))
    /\ \A c \in Claims : WF_signalVars(Works(e, c)) /\ WF_signalVars(ProgressAnswered(e, c))

FairSpec == SignalsSpec /\ Fairness

-------------------------------------------------------------------------------
(***************************************************************************)
(* Properties.                                                             *)
(***************************************************************************)

\* A progress reply is sent at most once for an event, across retries, crashes and
\* executions that overlap.
AtMostOneProgress == \A e \in Events : calls[e] <= 1

\* The answer comes last: once the final reply of an event is sent, no call for a
\* progress reply is under way nor will be, unless an execution outlived its lease.
FinalComesLast ==
  \A e \in finalSent \ overrun : \A c \in Claims : progress[e][c] # "calling"

\* No Typing reaction is forgotten: while one is shown, the handler, the row of an
\* unfinished event or the execution that ended it still holds its id.
ShownIsHeld ==
  \A e \in shown \ orphaned :
    \/ gateway[e] \in {"attaching", "removing"}
    \/ Active(e) /\ rows[e].reaction
    \/ \E c \in Claims : pc[e][c] = "unreact"

\* The signals never hold up an event: with the marker statement blocked for good it
\* is still settled.
SettledDespiteSignals ==
  \A e \in Events : rows[e].status = "queued" ~> rows[e].status \in Terminal
===============================================================================
