------------------------------- MODULE ToolCalls -------------------------------
(***************************************************************************)
(* What the tool calls of one agent run have in common                     *)
(* (src/src/agent/run.ts).  The model may issue several calls in one step  *)
(* and they run concurrently; every call is handed the run's one abort     *)
(* signal, which fires when the run times out or its claim is given up,    *)
(* and once it has fired the model is asked for no further call.           *)
(***************************************************************************)
EXTENDS Naturals, Sequences

CONSTANTS
  Families,   \* the groups of tools that keep state of their own
  Quotas      \* how many calls of each family a run may make: the bound of the model

ASSUME QuotasAssumption == Quotas \subseteq [Families -> Nat]

VARIABLES
  quota,      \* quota[f]: calls of family f the model may still issue
  aborted     \* the run's signal has fired

runVars == <<quota, aborted>>

CallsTypeOK == quota \in [Families -> Nat] /\ aborted \in BOOLEAN

CallsInit == quota \in Quotas /\ aborted = FALSE

\* The model issues one more call of a tool.
Issue(f) ==
  /\ ~aborted
  /\ quota[f] > 0
  /\ quota' = [quota EXCEPT ![f] = @ - 1]
  /\ UNCHANGED aborted

\* The timeout or the claim's own signal fires; AbortSignal.any() fires once.
SignalFires ==
  /\ ~aborted
  /\ aborted' = TRUE
  /\ UNCHANGED quota
===============================================================================
