------------------------------ MODULE AgentTools -------------------------------
(***************************************************************************)
(* The tools of one agent run that keep state between calls (createTeam-   *)
(* Agent, src/src/agent/run.ts): documents and their writes, meetings, and *)
(* the history of the group.  Calls of different tools overlap freely;     *)
(* what they share is the run's abort signal, which ends them all.         *)
(***************************************************************************)
EXTENDS DocumentReads, MeetingReads, GroupHistory

vars == <<runVars, documentVars, meetingVars, historyVars>>

TypeOK == CallsTypeOK /\ DocumentsTypeOK /\ MeetingsTypeOK /\ HistoryTypeOK

Init == CallsInit /\ DocumentsInit /\ MeetingsInit /\ HistoryInit

Documents == DocumentIssue \/ (DocumentStep /\ UNCHANGED runVars)
Meetings == MeetingIssue \/ (MeetingStep /\ UNCHANGED runVars)
History == HistoryIssue \/ (HistoryStep /\ UNCHANGED runVars)

\* The signal fires: the listeners of the commands under way run at once, everything else
\* learns of it when it looks.
Abort ==
  /\ SignalFires
  /\ CommandsAborted
  /\ UNCHANGED <<documentVars, meetings, found, snapshots, remaining, artifact, directory,
                 leftBehind, historyVars>>

Next ==
  \/ Documents /\ UNCHANGED <<meetingVars, historyVars>>
  \/ Meetings /\ UNCHANGED <<documentVars, historyVars>>
  \/ History /\ UNCHANGED <<documentVars, meetingVars>>
  \/ Abort

Spec == Init /\ [][Next]_vars

\* What goes on without the model and the members of the group: the run's timeout, what
\* becomes of the commands, the answers and the statements under way, and the calls that
\* need no more than those.
Progress ==
  \/ Abort
  \/ \E x \in Commands :
       /\ RunnerProgress(x)
       /\ UNCHANGED <<runVars, documentVars, historyVars, meetings, found, snapshots,
                      remaining, artifact, directory, leftBehind>>
  \/ /\ \/ \E f \in DOMAIN reads : FetchServed(f) \/ FetchSettles(f)
        \/ \E w \in DOMAIN writes : WriteStep(w)
     /\ UNCHANGED <<runVars, meetingVars, historyVars>>
  \/ /\ \E c \in DOMAIN meetings : CallStep(c)
     /\ UNCHANGED <<runVars, documentVars, historyVars>>
  \/ HistoryStep /\ UNCHANGED <<runVars, documentVars, meetingVars>>

\* Timers fire, a killed child ends, and the event loop runs what has become ready.
Fairness == WF_vars(Progress)

FairSpec == Spec /\ Fairness

(***************************************************************************)
(* Properties.                                                             *)
(***************************************************************************)

\* Pages that belong together are of one snapshot, for documents and for meetings.
PagesOfOneSnapshot == DocumentPagesOfOneSnapshot /\ ContentPagesOfOneSnapshot

\* Following the cursors of a search or of the group's history misses nothing and shows
\* nothing twice.
TraversalsMissNothing == SearchReachesEverything /\ CursorNamesItsPage /\ ShownOnceOnRecord

\* No call outlives the run's signal for good, and no process does: nothing waits for a
\* child that ignores SIGTERM, for Feishu or for another call that does.
EverythingEnds ==
  <>[](/\ DocumentsQuiet /\ MeetingsQuiet /\ HistoryQuiet
       /\ \A c \in Commands : ~Live(command[c]))
===============================================================================
