---------------------------- MODULE ReplyDelivery -----------------------------
(***************************************************************************)
(* What the durable queue promises the members of a chat, without its      *)
(* executions, leases and retries: an accepted event is settled once; its  *)
(* reply is decided once and posted at most once; it is settled as replied *)
(* only when the reply is in the chat, and as given up only when none is   *)
(* there nor will be.  A reply may still appear after the event was        *)
(* settled as uncertain.                                                   *)
(***************************************************************************)
EXTENDS Naturals

CONSTANTS Events, Replies, NoReply

VARIABLES phase, reply, posts

vars == <<phase, reply, posts>>

Init ==
  /\ phase = [e \in Events |-> "unknown"]
  /\ reply = [e \in Events |-> NoReply]
  /\ posts = [e \in Events |-> 0]

Accept(e) ==
  /\ phase[e] = "unknown"
  /\ phase' = [phase EXCEPT ![e] = "pending"]
  /\ UNCHANGED <<reply, posts>>

\* Replies may be infinite, so the reply is read off the next state, not enumerated.
Decide(e) ==
  /\ phase[e] = "pending"
  /\ reply[e] = NoReply
  /\ reply'[e] \in Replies
  /\ reply' = [reply EXCEPT ![e] = reply'[e]]
  /\ UNCHANGED <<phase, posts>>

Post(e) ==
  /\ phase[e] # "gave_up"
  /\ reply[e] # NoReply
  /\ posts[e] = 0
  /\ posts' = [posts EXCEPT ![e] = 1]
  /\ UNCHANGED <<phase, reply>>

Settle(e, outcome) ==
  /\ phase[e] = "pending"
  /\ outcome = "replied" => posts[e] = 1
  /\ outcome = "gave_up" => posts[e] = 0
  /\ outcome = "uncertain" => reply[e] # NoReply
  /\ phase' = [phase EXCEPT ![e] = outcome]
  /\ UNCHANGED <<reply, posts>>

Next ==
  \E e \in Events :
     \/ Accept(e) \/ Decide(e) \/ Post(e)
     \/ \E outcome \in {"replied", "gave_up", "uncertain"} : Settle(e, outcome)

Spec == Init /\ [][Next]_vars
===============================================================================
