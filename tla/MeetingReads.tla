----------------------------- MODULE MeetingReads ------------------------------
(***************************************************************************)
(* The meeting tools of one agent run (src/src/agent/meeting-tools.ts):    *)
(* searches over provider windows with their continuations, and the        *)
(* content of a found meeting with its snapshots and pages; the service    *)
(* that falls back from one artifact to the next                           *)
(* (src/src/lark/meeting-service.ts) and the directories transcripts are   *)
(* written to (src/src/lark/meeting-artifacts.ts).  The commands are those *)
(* of LarkRunner.                                                          *)
(*                                                                         *)
(* The calls of a run go one after the other; those not begun yet wait in  *)
(* the order they were issued.  A cursor is named by the call that         *)
(* returned it.  One search (source, query, names and range) and one       *)
(* artifact reference are modelled.                                        *)
(***************************************************************************)
EXTENDS LarkRunner, FiniteSets

CONSTANTS
  Windows,          \* the provider windows of the search
  ResultPages,      \* ResultPages[w]: pages the provider has for window w
  Requests,         \* what content may be asked for
  Input,            \* Input[q]: the reference, kind and preference of request q
  ContentPages,     \* pages of every content
  Sizes,            \* sizes of transcript files
  RunBytes,         \* the run's byte budget
  MaxMeetingCalls,  \* bound on the calls of these tools in a run
  MaxRevisions,     \* bound on the changes of the content in Feishu
  NoContent         \* of a request: no snapshot

Slots == Windows \cup {"one"}

ASSUME MeetingsAssumption ==
  /\ Commands = (1 .. MaxMeetingCalls) \X Slots
  /\ ContentPages \in Nat /\ MaxMeetingCalls \in Nat /\ MaxRevisions \in Nat \ {0}
  /\ "one" \notin Windows
  /\ ResultPages \in [Windows -> Nat \ {0}]
  /\ NoContent \notin Requests \cup Nat
  /\ Input \in [Requests -> [reference : {"meeting", "minute"},
                             kind : {"auto", "summary", "todos", "chapters", "transcript"},
                             preference : {"auto", "smart_note", "minute"}]]

VARIABLES
  meetings,         \* the calls, in the order they were issued
  found,            \* a search has returned the reference
  snapshots,        \* snapshots[q]: the revision whose pages are kept for q
  remaining,        \* bytes left of the budget
  artifact,         \* the revision of the content in Feishu
  directory,        \* the call whose temporary directory exists, or 0
  leftBehind        \* a directory could not be removed

meetingVars == <<command, meetings, found, snapshots, remaining, artifact, directory, leftBehind>>

Revision == 1 .. MaxRevisions
Ended == {"answered", "clarify", "failed"}
SmartSummary == "smart_note_ai_summary"
MinuteSummary == "minute_ai_summary"
SmartTodos == "smart_note_todos"
MinuteTodos == "minute_todos"
Chapters == "minute_chapters"
SmartTranscript == "smart_note_transcript"
MinuteTranscript == "minute_transcript"
Smart == {SmartSummary, SmartTodos, SmartTranscript}
Transcripts == {SmartTranscript, MinuteTranscript}
Kinds == Smart \cup {MinuteSummary, MinuteTodos, Chapters, MinuteTranscript}

Call ==
  [op : {"search", "content"}, cursor : Nat,
   phase : {"queued", "people", "searching", "associating", "choosing", "detail", "body"} \cup Ended,
   page : [Windows -> Nat],                \* the page of each window it fetches, or 0
   seen : SUBSET (Windows \X Nat),         \* pages it and those it continues have returned
   request : Requests \cup {NoContent},
   attempts : Seq(Kinds),                  \* the artifacts still to be tried
   index : Nat, of : {0} \cup Revision,    \* the page and the revision of its content
   more : BOOLEAN]                         \* a cursor came with its answer

MeetingsTypeOK ==
  /\ RunnerTypeOK
  /\ \A c \in DOMAIN meetings : meetings[c] \in Call
  /\ found \in BOOLEAN
  /\ snapshots \in [Requests -> Revision \cup {NoContent}]
  /\ remaining \in 0 .. RunBytes
  /\ artifact \in Revision
  /\ directory \in 0 .. Len(meetings)
  /\ leftBehind \in BOOLEAN

MeetingsInit ==
  /\ RunnerInit
  /\ meetings = <<>>
  /\ found = FALSE
  /\ snapshots = [q \in Requests |-> NoContent]
  /\ remaining = RunBytes
  /\ artifact = 1
  /\ directory = 0
  /\ leftBehind = FALSE

-------------------------------------------------------------------------------
\* Issuing a call.

NoPage == [w \in Windows |-> 0]
NewCall(op, cursor, request) ==
  [op |-> op, cursor |-> cursor, phase |-> "queued", page |-> NoPage, seen |-> {},
   request |-> request, attempts |-> <<>>, index |-> 0, of |-> 0, more |-> FALSE]

\* A cursor the model was given for this kind of call, or none; a cursor of another search,
\* content or kind is as good as none.
Cursors(op) == {0} \cup {c \in DOMAIN meetings : meetings[c].op = op /\ meetings[c].more}

MeetingIssue ==
  /\ Len(meetings) < MaxMeetingCalls
  /\ \/ /\ Issue("searches")
        /\ \E cursor \in Cursors("search") :
             meetings' = Append(meetings, NewCall("search", cursor, NoContent))
     \/ \E cursor \in Cursors("content"), q \in Requests :
        /\ Issue(q)
        /\ meetings' = Append(meetings, NewCall("content", cursor, q))
  /\ UNCHANGED <<command, found, snapshots, remaining, artifact, directory, leftBehind>>

\* Faulty: a call does not wait for those before it.
HeadOfAll(c) == meetings[c].phase = "queued"

\* sequential(): a call begins when all before it have ended.
AtHead(c) ==
  /\ meetings[c].phase = "queued"
  /\ \A d \in 1 .. c - 1 : meetings[d].phase \in Ended

Set(c, call) == meetings' = [meetings EXCEPT ![c] = call]
Quiet == UNCHANGED <<found, snapshots, remaining, artifact, directory, leftBehind>>

\* Call c goes on, with the commands of slots or with none; the results it was waiting for
\* are used.
Results(c) == {x \in Commands : x[1] = c /\ command[x].phase = "settled"}
StartFor(c, slots, dirs) == Start({<<c, s>> : s \in slots}, {<<c, s>> : s \in dirs}, Results(c))
Goes(c) == StartFor(c, {}, {})
End(c, phase) == Set(c, [meetings[c] EXCEPT !.phase = phase]) /\ Goes(c) /\ Quiet

One(c) == command[<<c, "one">>]

\* Faulty: the caller goes on as soon as its command is cut short.
DoneOnceCut(c) == One(c).phase = "settled" \/ One(c).reason # "none"

\* What run() is awaited for: the child has closed.
Done(c) == One(c).phase = "settled"

-------------------------------------------------------------------------------
\* searchMeetings and searchMeetingMinutes.

\* The windows of the continuation, or those of the range from their first page.
Pages(c) ==
  IF meetings[c].cursor = 0
    THEN [w \in Windows |-> 1]
    ELSE LET last == meetings[meetings[c].cursor].page
         IN [w \in Windows |-> IF last[w] # 0 /\ last[w] < ResultPages[w] THEN last[w] + 1 ELSE 0]

\* Every window is asked at once.
AskWindows(c) ==
  /\ Set(c, [meetings[c] EXCEPT !.phase = "searching", !.page = Pages(c)])
  /\ StartFor(c, {w \in Windows : Pages(c)[w] # 0}, {})
  /\ Quiet

SearchBegins(c) ==
  /\ meetings[c].op = "search"
  /\ AtHead(c)
  /\ \/ AskWindows(c)                                     \* no names
     \/ /\ Set(c, [meetings[c] EXCEPT !.phase = "people"])
        /\ StartFor(c, {"one"}, {})
        /\ Quiet

\* resolvePeople: a name is resolved, ambiguous or unknown, or the search of it failed.
PeopleResolved(c) ==
  /\ meetings[c].phase = "people"
  /\ Done(c)
  /\ \/ One(c).outcome = "success" /\ (AskWindows(c) \/ End(c, "clarify"))
     \/ End(c, "failed")

Asked(c) == {w \in Windows : meetings[c].page[w] # 0}
Window(c, w) == command[<<c, w>>]

\* Faulty: the search is continued only while every window has another page.
SearchEndsWithAWindow(c) ==
  /\ meetings[c].phase = "searching"
  /\ \A w \in Asked(c) : Window(c, w).phase = "settled" /\ Window(c, w).outcome = "success"
  /\ LET call == meetings[c]
         before == IF call.cursor = 0 THEN {} ELSE meetings[call.cursor].seen
     IN Set(c, [call EXCEPT !.phase = "answered",
                            !.seen = before \cup {<<w, call.page[w]>> : w \in Asked(c)},
                            !.more = \A w \in Asked(c) : call.page[w] < ResultPages[w]])
  /\ Goes(c)
  /\ found' \in {found, TRUE}
  /\ UNCHANGED <<snapshots, remaining, artifact, directory, leftBehind>>

\* All windows have answered with rows that can be read; the reference may be among them.
SearchEnds(c) ==
  /\ meetings[c].phase = "searching"
  /\ \A w \in Asked(c) : Window(c, w).phase = "settled" /\ Window(c, w).outcome = "success"
  /\ LET call == meetings[c]
         before == IF call.cursor = 0 THEN {} ELSE meetings[call.cursor].seen
     IN Set(c, [call EXCEPT !.phase = "answered",
                            !.seen = before \cup {<<w, call.page[w]>> : w \in Asked(c)},
                            !.more = \E w \in Asked(c) : call.page[w] < ResultPages[w]])
  /\ Goes(c)
  /\ found' \in {found, TRUE}
  /\ UNCHANGED <<snapshots, remaining, artifact, directory, leftBehind>>

\* Promise.all() gives up at the first window that failed or whose rows are all
\* unreadable; the commands of the others run on.
SearchFails(c) ==
  /\ meetings[c].phase = "searching"
  /\ \E w \in Asked(c) : Window(c, w).phase = "settled"
  /\ End(c, "failed")

-------------------------------------------------------------------------------
\* fetchMeetingContent.

\* The page of revision v a content call returns, and whether there is another.
Served(call, v) ==
  LET index == IF call.cursor # 0 /\ meetings[call.cursor].request = call.request
                 THEN meetings[call.cursor].index + 1 ELSE 0
  IN [call EXCEPT !.phase = "answered", !.index = index, !.of = v,
                  !.more = index + 1 < ContentPages]

\* The artifacts to try, in order, given what the meeting is associated with.
Attempts(input, note, minute) ==
  LET smart(kind) == IF note /\ input.preference # "minute" THEN <<kind>> ELSE <<>>
      own(kind) == IF minute /\ input.preference # "smart_note" THEN <<kind>> ELSE <<>>
      summaries == smart(SmartSummary) \o own(MinuteSummary)
      transcripts == smart(SmartTranscript) \o own(MinuteTranscript)
  IN CASE input.kind = "auto" -> summaries \o transcripts
       [] input.kind = "summary" -> summaries
       [] input.kind = "transcript" -> transcripts
       [] input.kind = "todos" -> smart(SmartTodos) \o own(MinuteTodos)
       [] input.kind = "chapters" -> own(Chapters)

\* Faulty: whatever a command ends with, the next artifact is tried.
AnyFailureIsLocal(outcome) == outcome # "success"

\* isArtifactLocalFailure: only an error lark-cli answered with lets the next artifact be
\* tried, never a command that was cut short or could not be understood.
ArtifactLocal(outcome) == outcome = "cli_error"

Choosing(c, attempts) == [meetings[c] EXCEPT !.phase = "choosing", !.attempts = attempts]

ContentBegins(c) ==
  LET call == meetings[c] IN
  /\ call.op = "content"
  /\ AtHead(c)
  /\ \/ ~found /\ End(c, "failed")                        \* invalid_meeting_reference
     \/ /\ found /\ snapshots[call.request] # NoContent
        /\ Set(c, Served(call, snapshots[call.request]))
        /\ Goes(c) /\ Quiet
     \/ /\ found /\ snapshots[call.request] = NoContent
        /\ IF Input[call.request].reference = "minute" /\ Input[call.request].preference = "minute"
             THEN Set(c, Choosing(c, Attempts(Input[call.request], FALSE, TRUE))) /\ Goes(c)
             ELSE Set(c, [call EXCEPT !.phase = "associating"]) /\ StartFor(c, {"one"}, {})
        /\ Quiet

\* associations(): a minute asked for in any form is read even without them.
Associated(c) ==
  LET input == Input[meetings[c].request]
      try(note, minute) ==
        Set(c, Choosing(c, Attempts(input, note, minute))) /\ Goes(c) /\ Quiet
      unread == IF input.reference = "minute" /\ input.preference = "auto"
                  THEN try(FALSE, TRUE) ELSE End(c, "failed")
  IN
  /\ meetings[c].phase = "associating"
  /\ Done(c)
  /\ CASE One(c).outcome = "success" ->
            unread \/ \E note, minute \in BOOLEAN :
                        (input.reference = "minute" => minute) /\ try(note, minute)
       [] ArtifactLocal(One(c).outcome) -> unread
       [] OTHER -> End(c, "failed")

Next1(c) == Choosing(c, Tail(meetings[c].attempts))

\* The command that reads the artifact itself; one that writes a transcript has a
\* directory made for it, if that can be done.
ReadBody(c, inDirectory) ==
  /\ UNCHANGED <<found, snapshots, remaining, artifact, leftBehind>>
  /\ \/ /\ Set(c, [meetings[c] EXCEPT !.phase = "body"])
        /\ StartFor(c, {"one"}, IF inDirectory THEN {"one"} ELSE {})
        /\ directory' = IF inDirectory THEN c ELSE directory
     \/ /\ inDirectory
        /\ Set(c, Next1(c)) /\ Goes(c)
        /\ UNCHANGED directory

\* The next attempt, or none is left.
AttemptBegins(c) ==
  /\ meetings[c].phase = "choosing"
  /\ IF meetings[c].attempts = <<>>
       THEN End(c, "failed")
       ELSE LET kind == Head(meetings[c].attempts) IN
            IF kind \in Smart
              THEN Set(c, [meetings[c] EXCEPT !.phase = "detail"]) /\ StartFor(c, {"one"}, {}) /\ Quiet
              ELSE ReadBody(c, kind = MinuteTranscript)

TryNext(c) == Set(c, Next1(c)) /\ Goes(c) /\ Quiet

\* note.detail: the note has the document asked for, or it has none; the transcript of a
\* unified note is exported into a directory.
DetailRead(c) ==
  /\ meetings[c].phase = "detail"
  /\ Done(c)
  /\ CASE One(c).outcome = "success" ->
            \/ TryNext(c)
            \/ ReadBody(c, FALSE)
            \/ Head(meetings[c].attempts) = SmartTranscript /\ ReadBody(c, TRUE)
       [] ArtifactLocal(One(c).outcome) -> TryNext(c)
       [] OTHER -> End(c, "failed")

\* withDirectory() removes the directory whatever became of the operation; that the
\* removal failed matters only to an operation that succeeded.
Removed(c, removal) ==
  /\ directory' = IF directory = c THEN 0 ELSE directory
  /\ leftBehind' = (leftBehind \/ (directory = c /\ ~removal))

\* readFile() takes a transcript that is a plain file within the limits.
BytesRead(c) == IF directory = c THEN {s \in Sizes : s <= remaining} ELSE {0}

BodyRead(c) ==
  /\ meetings[c].phase = "body"
  /\ Done(c)
  /\ One(c).outcome = "success"
  /\ Goes(c)
  /\ UNCHANGED <<found, artifact>>
  /\ \E removal \in BOOLEAN :
       /\ directory # c => removal
       /\ Removed(c, removal)
       /\ \/ \E s \in BytesRead(c) :                      \* there is a text
               /\ remaining' = remaining - s
               /\ \/ /\ removal
                     /\ snapshots' = [snapshots EXCEPT ![meetings[c].request] = artifact]
                     /\ Set(c, Served(meetings[c], artifact))
                  \/ Set(c, Next1(c)) /\ UNCHANGED snapshots     \* blank, or not removed
          \/ Set(c, Next1(c)) /\ UNCHANGED <<remaining, snapshots>>

BodyFails(c) ==
  /\ meetings[c].phase = "body"
  /\ Done(c)
  /\ One(c).outcome # "success"
  /\ \E removal \in BOOLEAN : (directory # c => removal) /\ Removed(c, removal)
  /\ IF ArtifactLocal(One(c).outcome)
       THEN Set(c, Next1(c))
       ELSE Set(c, [meetings[c] EXCEPT !.phase = "failed"])
  /\ Goes(c)
  /\ UNCHANGED <<found, snapshots, remaining, artifact>>

\* The content changes in Feishu.
ArtifactChanges ==
  /\ artifact < MaxRevisions
  /\ artifact' = artifact + 1
  /\ UNCHANGED <<command, meetings, found, snapshots, remaining, directory, leftBehind>>

-------------------------------------------------------------------------------
CallStep(c) ==
  \/ SearchBegins(c) \/ PeopleResolved(c) \/ SearchEnds(c) \/ SearchFails(c)
  \/ ContentBegins(c) \/ Associated(c) \/ AttemptBegins(c) \/ DetailRead(c)
  \/ BodyRead(c) \/ BodyFails(c)

CommandStep(c) ==
  /\ RunnerStep(c)
  /\ UNCHANGED <<meetings, found, snapshots, remaining, artifact, directory, leftBehind>>

MeetingStep ==
  \/ \E c \in DOMAIN meetings : CallStep(c)
  \/ \E x \in Commands : CommandStep(x)
  \/ ArtifactChanges

MeetingsQuiet == \A c \in DOMAIN meetings : meetings[c].phase \in Ended

(***************************************************************************)
(* Properties.                                                             *)
(***************************************************************************)

\* A search followed to its last cursor has returned every page of every window, whatever
\* failed and was repeated in between.
SearchReachesEverything ==
  \A c \in DOMAIN meetings :
    LET call == meetings[c] IN
    call.op = "search" /\ call.phase = "answered" /\ ~call.more
    => call.seen = UNION {{w} \X (1 .. ResultPages[w]) : w \in Windows}

\* The pages of one content are of one snapshot of it, although Feishu changes it.
ContentPagesOfOneSnapshot ==
  \A c \in DOMAIN meetings :
    LET call == meetings[c] IN
    call.op = "content" /\ call.phase = "answered" /\ call.index > 0
    => meetings[call.cursor].of = call.of

\* The directory of a transcript is there as long as the process that writes into it
\* runs, and not longer than the attempt, unless it could not be removed.
DirectoryOutlivesWriter ==
  /\ \A x \in Commands :
       command[x].phase = "running" /\ command[x].writes => directory = x[1]
  /\ directory # 0 => meetings[directory].phase = "body"

\* A call whose command was cut short, did not start or was not understood asks nothing
\* more: it waits or ends.
TerminationIsNotRetried ==
  [][\A c \in DOMAIN meetings :
       /\ Done(c)
       /\ One(c).outcome \notin {"success", "cli_error"}
       => meetings'[c].phase \in {meetings[c].phase} \cup Ended]_meetingVars
===============================================================================
