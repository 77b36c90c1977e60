----------------------------- MODULE GroupHistory ------------------------------
(***************************************************************************)
(* The live history of the triggering group, as one agent run reads it     *)
(* (src/src/feishu/group-context.ts): the latest page is loaded before the *)
(* model runs, and readEarlierGroupHistory (src/src/agent/tools.ts) walks  *)
(* to older pages by cursors, one call after the other, each counted in    *)
(* the row of the run.                                                     *)
(*                                                                         *)
(* A page stands for its messages; whether the names of their speakers     *)
(* were found changes nothing here.  A cursor is named by the call that    *)
(* returned it, a provider token by the page it leads to.                  *)
(***************************************************************************)
EXTENDS ToolCalls

CONSTANT GroupPages    \* pages of the group's history, the latest first

ASSUME GroupAssumption == GroupPages \in Nat \ {0}

VARIABLES
  earlier,       \* the calls, in the order they were issued
  traversal,     \* historyTraversal
  unavailable,   \* a page could not be loaded: historyUnavailable
  pageCalls,     \* pages asked of Feishu: pageCallCount
  recorded       \* the count in the run's row

historyVars == <<earlier, traversal, unavailable, pageCalls, recorded>>

HistoryEnded == {"answered", "rejected", "failed"}
HistoryCall ==
  [cursor : Nat, phase : {"queued", "loading", "auditing"} \cup HistoryEnded,
   page : 0 .. GroupPages, more : BOOLEAN]
Traversal == [kind : {"first", "opaque", "exhausted"}, cursor : Nat, token : 0 .. GroupPages]

HistoryTypeOK ==
  /\ \A c \in DOMAIN earlier : earlier[c] \in HistoryCall
  /\ traversal \in Traversal
  /\ unavailable \in BOOLEAN
  /\ pageCalls \in Nat
  /\ recorded \in Nat

Token(page) == IF page < GroupPages THEN page + 1 ELSE 0
Exhausted == [kind |-> "exhausted", cursor |-> 0, token |-> 0]

\* loadInitial() has run, and its audit is recorded, before the model is asked: the first
\* page is loaded or the history is unavailable.
HistoryInit ==
  /\ earlier = <<>>
  /\ unavailable \in BOOLEAN
  /\ traversal = [kind |-> "first", cursor |-> 0, token |-> IF unavailable THEN 0 ELSE Token(1)]
  /\ pageCalls = 1
  /\ recorded = 1

HistoryIssue ==
  /\ Issue("history")
  /\ \E cursor \in {0} \cup {c \in DOMAIN earlier : earlier[c].more /\ earlier[c].phase = "answered"} :
       earlier' = Append(earlier, [cursor |-> cursor, phase |-> "queued", page |-> 0, more |-> FALSE])
  /\ UNCHANGED <<traversal, unavailable, pageCalls, recorded>>

Turn(c) ==
  /\ earlier[c].phase = "queued"
  /\ \A d \in 1 .. c - 1 : earlier[d].phase \in HistoryEnded

\* Faulty: a call without a cursor goes on from wherever the traversal is.
WhereverItIs(cursor) ==
  /\ traversal.kind # "exhausted"
  /\ cursor = 0 \/ cursor = traversal.cursor

\* The first call has no cursor; every other has the one returned last.
Expected(cursor) ==
  \/ traversal.kind = "first" /\ cursor = 0
  \/ traversal.kind = "opaque" /\ cursor = traversal.cursor

Move(c, phase) == earlier' = [earlier EXCEPT ![c].phase = phase]

\* readEarlier() begins: a cursor that is not expected, or a run that has been aborted,
\* leaves the traversal alone; otherwise the token is used up before the page is asked for.
ReadRefused(c) ==
  /\ Turn(c)
  /\ aborted \/ ~Expected(earlier[c].cursor)
  /\ Move(c, IF aborted THEN "failed" ELSE "rejected")
  /\ UNCHANGED <<traversal, unavailable, pageCalls, recorded>>

ReadBegins(c) ==
  /\ Turn(c)
  /\ ~aborted
  /\ Expected(earlier[c].cursor)
  /\ traversal' = Exhausted
  /\ IF unavailable \/ traversal.token = 0
       THEN Move(c, "auditing") /\ UNCHANGED pageCalls
       ELSE /\ earlier' = [earlier EXCEPT ![c].phase = "loading", ![c].page = traversal.token]
            /\ pageCalls' = pageCalls + 1
  /\ UNCHANGED <<unavailable, recorded>>

\* Feishu answers with the page and the token of the next one.
PageLoaded(c) ==
  LET next == Token(earlier[c].page) IN
  /\ earlier[c].phase = "loading"
  /\ ~aborted
  /\ earlier' = [earlier EXCEPT ![c].phase = "auditing", ![c].more = next # 0]
  /\ traversal' = IF next # 0 THEN [kind |-> "opaque", cursor |-> c, token |-> next] ELSE traversal
  /\ UNCHANGED <<unavailable, pageCalls, recorded>>

\* It fails: the history is unavailable to the rest of the run.
PageUnavailable(c) ==
  /\ earlier[c].phase = "loading"
  /\ ~aborted
  /\ earlier' = [earlier EXCEPT ![c].phase = "auditing", ![c].page = 0]
  /\ unavailable' = TRUE
  /\ UNCHANGED <<traversal, pageCalls, recorded>>

\* An abort ends the wait for Feishu and for the audit; the statement may have been run.
ReadAborted(c) ==
  /\ aborted
  /\ earlier[c].phase \in {"loading", "auditing"}
  /\ Move(c, "failed")
  /\ recorded' \in {recorded} \cup (IF earlier[c].phase = "auditing" THEN {pageCalls} ELSE {})
  /\ UNCHANGED <<traversal, unavailable, pageCalls>>

\* Faulty: the page is shown although it could not be recorded.
AuditedAnyway(c) ==
  /\ earlier[c].phase = "auditing"
  /\ Move(c, "answered")
  /\ recorded' \in {recorded, pageCalls}
  /\ UNCHANGED <<traversal, unavailable, pageCalls>>

\* recordAudit(): only a page that is on record is shown.
Audited(c) ==
  /\ earlier[c].phase = "auditing"
  /\ \/ Move(c, "answered") /\ recorded' = pageCalls
     \/ Move(c, "failed") /\ UNCHANGED recorded
  /\ UNCHANGED <<traversal, unavailable, pageCalls>>

HistoryCallStep(c) ==
  \/ ReadRefused(c) \/ ReadBegins(c) \/ PageLoaded(c) \/ PageUnavailable(c)
  \/ ReadAborted(c) \/ Audited(c)
HistoryStep == \E c \in DOMAIN earlier : HistoryCallStep(c)

HistoryQuiet == \A c \in DOMAIN earlier : earlier[c].phase \in HistoryEnded

HistoryNext ==
  \/ HistoryIssue
  \/ HistoryStep /\ UNCHANGED runVars
  \/ SignalFires /\ UNCHANGED historyVars
HistorySpec == CallsInit /\ HistoryInit /\ [][HistoryNext]_<<runVars, historyVars>>

(***************************************************************************)
(* Properties.                                                             *)
(***************************************************************************)

\* The page a call returns is the one after the page its cursor came with, the second
\* without a cursor: nothing is skipped, and a retry or a parallel call never gets
\* another page than it asked for.
CursorNamesItsPage ==
  \A c \in DOMAIN earlier :
    earlier[c].phase = "answered" /\ earlier[c].page > 0
    => earlier[c].page = IF earlier[c].cursor = 0 THEN 2 ELSE earlier[earlier[c].cursor].page + 1

\* No page is shown twice, and the run's row counts every page that was shown.
ShownOnceOnRecord ==
  LET shown == {c \in DOMAIN earlier : earlier[c].phase = "answered" /\ earlier[c].page > 0} IN
  /\ \A c, d \in shown : c # d => earlier[c].page # earlier[d].page
  /\ \A c \in shown : earlier[c].page <= recorded
===============================================================================
