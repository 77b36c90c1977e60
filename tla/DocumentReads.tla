----------------------------- MODULE DocumentReads -----------------------------
(***************************************************************************)
(* The document tools of one agent run: fetchDocument with its cache of    *)
(* fetches, page sets and cursors, and the writes that invalidate them     *)
(* (src/src/agent/tools.ts), through the audit that gives each write a row *)
(* and a receipt (createWriteAudit, src/src/agent/run.ts) and the commands *)
(* of the knowledge service (src/src/lark/knowledge-service.ts).           *)
(*                                                                         *)
(* One document is modelled: every structure is keyed by the document.  A  *)
(* key is what a cursor belongs to, mode and query; the text of a revision *)
(* is its number of pages.  A cursor is named by the read that returned    *)
(* it, a fetch by the read that started it.                                *)
(***************************************************************************)
EXTENDS ToolCalls

CONSTANTS
  Keys,         \* the mode and query of a read
  PageCount,    \* PageCount[v]: pages of revision v
  NoPages,      \* of a key: no pages are kept
  MaxEdits      \* bound: members edit the document while its revision is below it

ASSUME DocumentsAssumption == NoPages \notin Nat

VARIABLES
  document,     \* the revision Feishu holds
  reads,        \* the fetchDocument calls, in the order they were issued
  writes,       \* the appendDocument and patchDocument calls
  cached,       \* the read whose fetch the cache holds, or 0
  pageSets,     \* pageSets[k]: the revision whose pages are kept for k
  cursors,      \* reads whose nextCursor still continues them
  raced         \* a write invalidated the cache while a fetch was under way

documentVars == <<document, reads, writes, cached, pageSets, cursors, raced>>

Revisions == DOMAIN PageCount
Outcomes == {"none", "unknown", "succeeded", "failed"}

ReadCall ==
  [key : Keys, follows : Nat, index : Nat,
   phase : {"waiting", "answered", "failed"},
   fetch : Nat,                            \* the read whose fetch it awaits
   promise : {"none", "pending", "served", "resolved", "rejected"},
   got : Revisions,                        \* what its own fetch read
   of : Revisions, more : BOOLEAN,         \* the page answered; a cursor came with it
   floor : Revisions]                      \* newest revision this run had reported written

WriteCall ==
  [phase : {"opening", "fetching", "writing", "applied", "confirming", "closing", "done"},
   base : Revisions, accepted : Revisions, applied : BOOLEAN, lost : BOOLEAN,
   verdict : Outcomes, row : Outcomes, receipt : Outcomes]

DocumentsTypeOK ==
  /\ document \in Revisions
  /\ \A r \in DOMAIN reads : reads[r] \in ReadCall
  /\ \A w \in DOMAIN writes : writes[w] \in WriteCall
  /\ cached \in 0 .. Len(reads)
  /\ pageSets \in [Keys -> Revisions \cup {NoPages}]
  /\ cursors \subseteq DOMAIN reads
  /\ raced \in BOOLEAN

DocumentsInit ==
  /\ document = 0
  /\ reads = <<>>
  /\ writes = <<>>
  /\ cached = 0
  /\ pageSets = [k \in Keys |-> NoPages]
  /\ cursors = {}
  /\ raced = FALSE

-------------------------------------------------------------------------------
\* Reading.

\* The page sets once the reads of keys ks have found a document of revision v: a key
\* that has its pages keeps them.
PageSets(ks, v) ==
  [k \in Keys |-> IF k \in ks /\ pageSets[k] = NoPages THEN v ELSE pageSets[k]]

\* A read given its page of revision v: beyond the last page it is refused.
WithPage(read, v) ==
  IF read.index < PageCount[v]
    THEN [read EXCEPT !.phase = "answered", !.of = v, !.more = (read.index + 1 # PageCount[v])]
    ELSE [read EXCEPT !.phase = "failed"]

\* The index is taken from the cursor before the fetch is awaited; a cursor that is
\* unknown or of another key starts over.
Index(k, cursor) ==
  IF cursor \in cursors /\ reads[cursor].key = k THEN reads[cursor].index + 1 ELSE 0

Written == {writes[w].accepted : w \in {v \in DOMAIN writes : writes[v].receipt = "succeeded"
                                                              /\ writes[v].phase = "done"}}

NewRead(k, cursor, fetch, promise) ==
  [key |-> k, follows |-> cursor, index |-> Index(k, cursor), phase |-> "waiting",
   fetch |-> fetch, promise |-> promise, got |-> 0, of |-> 0, more |-> FALSE,
   floor |-> CHOOSE v \in Written \cup {0} : \A u \in Written : u <= v]

Read(k, cursor) ==
  LET me == Len(reads) + 1 IN
  /\ Issue("reads")
  /\ cursor # 0 => reads[cursor].more
  /\ UNCHANGED <<document, writes, raced>>
  /\ \/ /\ cached = 0                             \* getDocument starts the fetch
        /\ reads' = Append(reads, NewRead(k, cursor, me, "pending"))
        /\ cached' = me
        /\ UNCHANGED <<pageSets, cursors>>
     \/ /\ cached # 0 /\ reads[cached].promise \in {"pending", "served"}
        /\ reads' = Append(reads, NewRead(k, cursor, cached, "none"))
        /\ UNCHANGED <<cached, pageSets, cursors>>
     \/ /\ cached # 0 /\ reads[cached].promise = "rejected"
        /\ reads' = Append(reads, [NewRead(k, cursor, cached, "none") EXCEPT !.phase = "failed"])
        /\ UNCHANGED <<cached, pageSets, cursors>>
     \/ /\ cached # 0 /\ reads[cached].promise = "resolved"
        /\ pageSets' = PageSets({k}, reads[cached].got)
        /\ LET read == WithPage(NewRead(k, cursor, cached, "none"), pageSets'[k])
           IN /\ reads' = Append(reads, read)
              /\ cursors' = IF read.more THEN cursors \cup {me} ELSE cursors
        /\ UNCHANGED cached

\* Feishu reads the document for a docs.fetch.
FetchServed(f) ==
  /\ reads[f].promise = "pending"
  /\ reads' = [reads EXCEPT ![f].promise = "served", ![f].got = document]
  /\ UNCHANGED <<document, writes, cached, pageSets, cursors, raced>>

Awaiting(f) == {r \in DOMAIN reads : reads[r].phase = "waiting" /\ reads[r].fetch = f}

\* The fetch settles and every read that awaited it goes on, in one turn.
FetchResolves(f) ==
  /\ reads[f].promise = "served"
  /\ pageSets' = PageSets({reads[r].key : r \in Awaiting(f)}, reads[f].got)
  /\ reads' = [r \in DOMAIN reads |->
       LET read == IF r = f THEN [reads[r] EXCEPT !.promise = "resolved"] ELSE reads[r]
       IN IF r \in Awaiting(f) THEN WithPage(read, pageSets'[read.key]) ELSE read]
  /\ cursors' = cursors \cup {r \in Awaiting(f) : reads'[r].more}
  /\ UNCHANGED <<document, writes, cached, raced>>

\* It fails, is aborted or times out: the rejected promise stays in the cache.
FetchRejects(f) ==
  /\ reads[f].promise \in {"pending", "served"}
  /\ reads' = [r \in DOMAIN reads |->
       LET read == IF r = f THEN [reads[r] EXCEPT !.promise = "rejected"] ELSE reads[r]
       IN IF r \in Awaiting(f) THEN [read EXCEPT !.phase = "failed"] ELSE read]
  /\ UNCHANGED <<document, writes, cached, pageSets, cursors, raced>>

-------------------------------------------------------------------------------
\* Writing.

Raced == raced \/ \E r \in DOMAIN reads : reads[r].phase = "waiting"

\* Faulty: the page sets are left behind.
InvalidateKeepsPages ==
  /\ cached' = 0
  /\ cursors' = {}
  /\ raced' = Raced
  /\ UNCHANGED pageSets

\* Faulty: the cursors are left behind.
InvalidateKeepsCursors ==
  /\ cached' = 0
  /\ pageSets' = [k \in Keys |-> NoPages]
  /\ raced' = Raced
  /\ UNCHANGED cursors

\* What is kept of the document is dropped; a fetch under way is not cancelled.
invalidateDocument ==
  /\ cached' = 0
  /\ pageSets' = [k \in Keys |-> NoPages]
  /\ cursors' = {}
  /\ raced' = Raced

Update(w, write) ==
  /\ writes' = [writes EXCEPT ![w] = write]
  /\ UNCHANGED reads

Advance(w, write) == Update(w, write) /\ UNCHANGED <<document, cached, pageSets, cursors, raced>>

Write ==
  /\ Issue("writes")
  /\ writes' = Append(writes,
       [phase |-> "opening", base |-> 0, accepted |-> 0, applied |-> FALSE, lost |-> FALSE,
        verdict |-> "none", row |-> "none", receipt |-> "none"])
  /\ UNCHANGED <<document, reads, cached, pageSets, cursors, raced>>

\* The call returns or throws: its finally invalidates the document.
Return(w, write) ==
  /\ Update(w, [write EXCEPT !.phase = "done"])
  /\ invalidateDocument
  /\ UNCHANGED document

\* operation() threw: an aborted run does not know how the write ended.
Threw(write) ==
  [write EXCEPT !.phase = "closing", !.verdict = IF aborted THEN "unknown" ELSE "failed"]

\* beginWrite succeeds: the row and the receipt exist, both unknown.
WriteOpened(w) ==
  LET opened == [writes[w] EXCEPT !.row = "unknown", !.receipt = "unknown"] IN
  /\ writes[w].phase = "opening"
  /\ Advance(w, IF aborted THEN Threw(opened) ELSE [opened EXCEPT !.phase = "fetching"])

\* It fails, or the run is aborted first; then a row that is still created is closed as
\* unknown and there is no receipt.
WriteNotOpened(w) ==
  /\ writes[w].phase = "opening"
  /\ \E row \in {"none"} \cup (IF aborted THEN {"unknown"} ELSE {}) :
       Return(w, [writes[w] EXCEPT !.row = row])

\* The current revision is read for the write.
CurrentRead(w) ==
  /\ writes[w].phase = "fetching"
  /\ Advance(w, [writes[w] EXCEPT !.phase = "writing", !.base = document])

\* Feishu takes the write if its revision is still the current one.
WriteApplied(w) ==
  /\ writes[w].phase = "writing"
  /\ writes[w].base = document
  /\ document' = document + 1
  /\ Update(w, [writes[w] EXCEPT !.phase = "applied", !.applied = TRUE,
                                 !.accepted = document + 1])
  /\ UNCHANGED <<cached, pageSets, cursors, raced>>

\* A fetch or the write is refused: a revision conflict, a pattern that does not match
\* once, an error of Feishu or of the command.
WriteRefused(w) ==
  /\ writes[w].phase \in {"fetching", "writing"}
  /\ Advance(w, Threw(writes[w]))

\* The accepted revision comes back and passes validateWriteResponse().
WriteAnswered(w) ==
  /\ writes[w].phase = "applied"
  /\ Advance(w, [writes[w] EXCEPT !.phase = "confirming"])

\* writeResult() reads the document at the accepted revision or a later one.
WriteConfirmed(w) ==
  /\ writes[w].phase = "confirming"
  /\ document >= writes[w].accepted
  /\ Advance(w, [writes[w] EXCEPT !.phase = "closing", !.verdict = "succeeded"])

\* The command is killed with the request under way, or the answer of an applied write,
\* or the read that confirms it, is lost or malformed.
AnswerLost(w) ==
  /\ writes[w].phase \in {"writing", "applied", "confirming"}
  /\ Advance(w, Threw([writes[w] EXCEPT !.lost = TRUE]))

\* The request of a killed command is still taken.
WriteAppliedLate(w) ==
  /\ writes[w].lost /\ ~writes[w].applied
  /\ writes[w].base = document
  /\ document' = document + 1
  /\ Update(w, [writes[w] EXCEPT !.applied = TRUE])
  /\ UNCHANGED <<cached, pageSets, cursors, raced>>

\* finishWrite: the row takes the verdict, then the receipt, which looks at the signal
\* again.
WriteClosed(w) ==
  /\ writes[w].phase = "closing"
  /\ Return(w, [writes[w] EXCEPT !.row = writes[w].verdict,
                                 !.receipt = IF writes[w].verdict = "failed" /\ aborted
                                               THEN "unknown" ELSE writes[w].verdict])

\* Faulty: a row that could not be closed does not stop the receipt.
NotClosedKeepsVerdict(w) ==
  /\ writes[w].phase = "closing"
  /\ \E row \in {"unknown", writes[w].verdict} :
       Return(w, [writes[w] EXCEPT !.row = row, !.receipt = writes[w].verdict])

\* finishWrite fails or takes more than 5 seconds, whether or not the row took the
\* verdict: the receipt stays unknown.
WriteNotClosed(w) ==
  /\ writes[w].phase = "closing"
  /\ \E row \in {"unknown", writes[w].verdict} :
       Return(w, [writes[w] EXCEPT !.row = row])

\* A member edits the document.
Edit ==
  /\ document < MaxEdits
  /\ document' = document + 1
  /\ UNCHANGED <<reads, writes, cached, pageSets, cursors, raced>>

-------------------------------------------------------------------------------
FetchSettles(f) == FetchResolves(f) \/ FetchRejects(f)
WriteStep(w) ==
  \/ WriteOpened(w) \/ WriteNotOpened(w) \/ CurrentRead(w) \/ WriteApplied(w)
  \/ WriteRefused(w) \/ WriteAnswered(w) \/ WriteConfirmed(w) \/ AnswerLost(w)
  \/ WriteAppliedLate(w) \/ WriteClosed(w) \/ WriteNotClosed(w)

DocumentIssue == Write \/ \E k \in Keys, cursor \in 0 .. Len(reads) : Read(k, cursor)
DocumentStep ==
  \/ \E f \in DOMAIN reads : FetchServed(f) \/ FetchSettles(f)
  \/ \E w \in DOMAIN writes : WriteStep(w)
  \/ Edit

DocumentsQuiet ==
  /\ \A r \in DOMAIN reads : reads[r].phase # "waiting"
  /\ \A w \in DOMAIN writes : writes[w].phase = "done"

DocumentsInitAlone == CallsInit /\ DocumentsInit
DocumentsNext ==
  \/ DocumentIssue
  \/ DocumentStep /\ UNCHANGED runVars
  \/ SignalFires /\ UNCHANGED documentVars
DocumentsSpec == DocumentsInitAlone /\ [][DocumentsNext]_<<runVars, documentVars>>

(***************************************************************************)
(* Properties.                                                             *)
(***************************************************************************)

\* A write of this run invalidates what was kept of the document: a read issued after
\* a write had been reported done shows that write or something newer.  (The
\* code keeps this only for fetches that were not under way when the write returned.)
WriteInvalidatesSnapshot ==
  \A r \in DOMAIN reads : reads[r].phase = "answered" => reads[r].of >= reads[r].floor

\* The same, as long as no fetch was under way when a write returned.
ReadsOwnWrites == ~raced => WriteInvalidatesSnapshot

\* A page reached through a cursor is of the revision of the page before it, unless a
\* fetch was under way when a write returned.
DocumentPagesOfOneSnapshot ==
  ~raced => \A r \in DOMAIN reads :
    reads[r].phase = "answered" /\ reads[r].index > 0
    => reads[reads[r].follows].of = reads[r].of

\* What the member is told of a write is true: a success is in Feishu and in the row, a
\* write that reached Feishu always has a receipt, and a failure that is none is one
\* whose answer was lost.
ReceiptsTellTheTruth ==
  \A w \in DOMAIN writes :
    LET write == writes[w] IN
    /\ write.receipt = "succeeded" => write.applied /\ write.row = "succeeded"
    /\ write.row = "succeeded" => write.applied
    /\ write.applied => write.receipt # "none" /\ write.row # "none"
    /\ write.receipt = "failed" /\ write.applied => write.lost
===============================================================================
