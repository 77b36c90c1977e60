--------------------------- MODULE AgentToolsProofs ---------------------------
(***************************************************************************)
(* Proofs about the tools of one agent run, for every number of calls,     *)
(* revisions and pages.  The signal and the calls of other tools may come  *)
(* at any moment: the invariants speak of what a family keeps for itself   *)
(* and hold whatever the others do.                                        *)
(***************************************************************************)
EXTENDS AgentTools, TLAPS

-------------------------------------------------------------------------------
(***************************************************************************)
(* Writes of documents.                                                    *)
(***************************************************************************)

WriteRecord ==
  [phase : {"opening", "fetching", "writing", "applied", "confirming", "closing", "done"},
   base : Nat, accepted : Nat, applied : BOOLEAN, lost : BOOLEAN,
   verdict : Outcomes, row : Outcomes, receipt : Outcomes]

\* What a write has done by its phase, and what row and receipt may say of it.
Honest(write) ==
  /\ write.phase = "opening" => write.row = "none" /\ write.receipt = "none"
  /\ write.phase \notin {"opening", "done"} => write.row = "unknown" /\ write.receipt = "unknown"
  /\ write.phase \in {"opening", "fetching", "writing"} => ~write.applied /\ ~write.lost
  /\ write.phase \in {"applied", "confirming"} => write.applied
  /\ write.phase = "closing" => write.verdict # "none"
  /\ write.phase \notin {"closing", "done"} => write.verdict = "none"
  /\ write.verdict = "succeeded" => write.applied
  /\ write.verdict = "failed" /\ write.applied => write.lost
  /\ write.lost => write.row # "none" /\ write.receipt # "none"
  /\ write.receipt = "succeeded" => write.applied /\ write.row = "succeeded"
  /\ write.row = "succeeded" => write.applied
  /\ write.applied => write.row # "none" /\ write.receipt # "none"
  /\ write.receipt = "failed" /\ write.applied => write.lost

\* No write has been accepted beyond the document.
Accepted(write) == write.accepted <= document

\* Among the writes reported as successes there is a newest one.
Newest == \E v \in Written \cup {0} : \A u \in Written : u <= v

WritesInv ==
  /\ Newest
  /\ document \in Nat
  /\ writes \in Seq(WriteRecord)
  /\ \A w \in DOMAIN writes : Honest(writes[w]) /\ Accepted(writes[w])

\* The start.
LEMMA WritesInit == Init => WritesInv
  BY DEF Init, DocumentsInit, WritesInv, Newest, Written

\* A step of write w that keeps its record honest keeps the invariant.
LEMMA OneWrite ==
  ASSUME WritesInv, NEW w \in DOMAIN writes, NEW write \in WriteRecord,
         Update(w, write), Honest(write),
         document' \in Nat, document <= document', write.accepted <= document',
         writes[w].phase = "done" => /\ write.phase = "done"
                                     /\ write.receipt = writes[w].receipt
                                     /\ write.accepted = writes[w].accepted
  PROVE  WritesInv'
<1>1. writes' \in Seq(WriteRecord) /\ DOMAIN writes' = DOMAIN writes
  BY DEF WritesInv, Update
<1>2. writes'[w] = write /\ \A v \in DOMAIN writes \ {w} : writes'[v] = writes[v]
  BY DEF WritesInv, Update
<1>3. \A v \in DOMAIN writes : writes[v].accepted \in Nat
  <2>1. \A v \in DOMAIN writes : writes[v] \in WriteRecord
    BY DEF WritesInv
  <2> QED BY <2>1 DEF WriteRecord
<1>4. Newest'
  <2>1. Written \subseteq Written' /\ Written' \subseteq Written \cup {write.accepted}
    BY <1>1, <1>2 DEF Written
  <2>2. PICK v \in Written \cup {0} : \A u \in Written : u <= v
    BY DEF WritesInv, Newest
  <2>3. v \in Nat /\ write.accepted \in Nat /\ Written \subseteq Nat
    BY <1>3 DEF Written, WriteRecord
  <2>4. CASE write.accepted \in Written' /\ v < write.accepted
    BY <2>1, <2>2, <2>3, <2>4 DEF Newest
  <2>5. CASE write.accepted \notin Written' \/ write.accepted <= v
    BY <2>1, <2>2, <2>3, <2>5 DEF Newest
  <2> QED BY <2>3, <2>4, <2>5
<1> QED BY <1>1, <1>2, <1>3, <1>4 DEF WritesInv, Accepted

\* Every step of a write keeps the invariant of the writes.
LEMMA WritesStep ==
  ASSUME WritesInv, NEW w \in DOMAIN writes, WriteStep(w)
  PROVE  WritesInv'
<1> DEFINE write == writes[w]
<1>a. write \in WriteRecord /\ Honest(write) /\ Accepted(write) /\ document \in Nat
  BY DEF WritesInv
<1>b. write.accepted \in Nat /\ write.accepted <= document /\ document <= document
  BY <1>a DEF WriteRecord, Accepted
<1> HIDE DEF write
<1> USE DEF WriteRecord, Outcomes
<1>1. CASE WriteOpened(w)
  <2> DEFINE opened == [write EXCEPT !.row = "unknown", !.receipt = "unknown"]
             next == IF aborted THEN Threw(opened) ELSE [opened EXCEPT !.phase = "fetching"]
  <2>1. next \in WriteRecord /\ Honest(next) /\ next.accepted = write.accepted
    BY <1>1, <1>a DEF WriteOpened, Threw, Honest, write
  <2>2. Update(w, next) /\ document' = document
    BY <1>1 DEF WriteOpened, Advance, write
  <2>9. writes[w].phase # "done"
    BY <1>1 DEF WriteOpened
  <2> HIDE DEF next
  <2> QED BY <2>1, <2>2, <2>9, <1>a, <1>b, OneWrite
<1>2. CASE WriteNotOpened(w)
  <2> PICK row \in {"none", "unknown"} :
        Return(w, [write EXCEPT !.row = row]) /\ write.phase = "opening"
    BY <1>2 DEF WriteNotOpened, write
  <2> DEFINE next == [write EXCEPT !.row = row, !.phase = "done"]
  <2>1. next \in WriteRecord /\ Honest(next) /\ next.accepted = write.accepted
    BY <1>a DEF Honest
  <2>2. Update(w, next) /\ document' = document
    BY <1>a DEF Return
  <2>9. writes[w].phase # "done"
    BY DEF write
  <2> HIDE DEF next
  <2> QED BY <2>1, <2>2, <2>9, <1>a, <1>b, OneWrite
<1>3. CASE CurrentRead(w)
  <2> DEFINE next == [write EXCEPT !.phase = "writing", !.base = document]
  <2>1. next \in WriteRecord /\ Honest(next) /\ next.accepted = write.accepted
    BY <1>3, <1>a DEF CurrentRead, Honest, write
  <2>2. Update(w, next) /\ document' = document
    BY <1>3 DEF CurrentRead, Advance, write
  <2>9. writes[w].phase # "done"
    BY <1>3 DEF CurrentRead
  <2> HIDE DEF next
  <2> QED BY <2>1, <2>2, <2>9, <1>a, <1>b, OneWrite
<1>4. CASE WriteApplied(w)
  <2> DEFINE next == [write EXCEPT !.phase = "applied", !.applied = TRUE,
                                   !.accepted = document + 1]
  <2>0. document + 1 \in Nat /\ write.phase = "writing"
    BY <1>4, <1>a DEF WriteApplied, write
  <2>1. next \in WriteRecord /\ next.accepted = document + 1
    BY <2>0, <1>a
  <2>4. /\ next.phase = "applied" /\ next.applied /\ next.lost = write.lost
        /\ next.verdict = write.verdict /\ next.row = write.row /\ next.receipt = write.receipt
    BY <2>0, <1>a
  <2>3. Honest(next)
    <3> HIDE DEF next
    <3> QED BY <2>0, <2>4, <1>a DEF Honest
  <2>2. Update(w, next) /\ document' = document + 1
    BY <1>4 DEF WriteApplied, write
  <2>9. writes[w].phase # "done"
    BY <1>4 DEF WriteApplied
  <2> HIDE DEF next
  <2> QED BY <2>1, <2>2, <2>3, <2>9, <1>a, <1>b, OneWrite
<1>5. CASE WriteRefused(w)
  <2> DEFINE next == Threw(write)
  <2>1. next \in WriteRecord /\ Honest(next) /\ next.accepted = write.accepted
    BY <1>5, <1>a DEF WriteRefused, Threw, Honest, write
  <2>2. Update(w, next) /\ document' = document
    BY <1>5 DEF WriteRefused, Advance, write
  <2>9. writes[w].phase # "done"
    BY <1>5 DEF WriteRefused
  <2> HIDE DEF next
  <2> QED BY <2>1, <2>2, <2>9, <1>a, <1>b, OneWrite
<1>6. CASE WriteAnswered(w)
  <2> DEFINE next == [write EXCEPT !.phase = "confirming"]
  <2>1. next \in WriteRecord /\ Honest(next) /\ next.accepted = write.accepted
    BY <1>6, <1>a DEF WriteAnswered, Honest, write
  <2>2. Update(w, next) /\ document' = document
    BY <1>6 DEF WriteAnswered, Advance, write
  <2>9. writes[w].phase # "done"
    BY <1>6 DEF WriteAnswered
  <2> HIDE DEF next
  <2> QED BY <2>1, <2>2, <2>9, <1>a, <1>b, OneWrite
<1>7. CASE WriteConfirmed(w)
  <2> DEFINE next == [write EXCEPT !.phase = "closing", !.verdict = "succeeded"]
  <2>1. next \in WriteRecord /\ Honest(next) /\ next.accepted = write.accepted
    BY <1>7, <1>a DEF WriteConfirmed, Honest, write
  <2>2. Update(w, next) /\ document' = document
    BY <1>7 DEF WriteConfirmed, Advance, write
  <2>9. writes[w].phase # "done"
    BY <1>7 DEF WriteConfirmed
  <2> HIDE DEF next
  <2> QED BY <2>1, <2>2, <2>9, <1>a, <1>b, OneWrite
<1>8. CASE AnswerLost(w)
  <2> DEFINE next == Threw([write EXCEPT !.lost = TRUE])
  <2>1. next \in WriteRecord /\ Honest(next) /\ next.accepted = write.accepted
    BY <1>8, <1>a DEF AnswerLost, Threw, Honest, write
  <2>2. Update(w, next) /\ document' = document
    BY <1>8 DEF AnswerLost, Advance, write
  <2>9. writes[w].phase # "done"
    BY <1>8 DEF AnswerLost
  <2> HIDE DEF next
  <2> QED BY <2>1, <2>2, <2>9, <1>a, <1>b, OneWrite
<1>9. CASE WriteAppliedLate(w)
  <2> DEFINE next == [write EXCEPT !.applied = TRUE]
  <2>1. next \in WriteRecord /\ Honest(next) /\ next.accepted = write.accepted
    BY <1>9, <1>a DEF WriteAppliedLate, Honest, write
  <2>2. Update(w, next) /\ document' = document + 1
    BY <1>9 DEF WriteAppliedLate, write
  <2>9. writes[w].phase = "done" => /\ next.phase = "done"
                                    /\ next.receipt = writes[w].receipt
                                    /\ next.accepted = writes[w].accepted
    BY <1>a DEF write
  <2> HIDE DEF next
  <2> QED BY <2>1, <2>2, <2>9, <1>a, <1>b, OneWrite
<1>10. CASE WriteClosed(w)
  <2> DEFINE receipt == IF write.verdict = "failed" /\ aborted THEN "unknown" ELSE write.verdict
             next == [write EXCEPT !.row = write.verdict, !.receipt = receipt, !.phase = "done"]
  <2>1. next \in WriteRecord /\ Honest(next) /\ next.accepted = write.accepted
    BY <1>10, <1>a DEF WriteClosed, Honest, write
  <2>2. Update(w, next) /\ document' = document
    BY <1>10, <1>a DEF WriteClosed, Return, write
  <2>9. writes[w].phase # "done"
    BY <1>10 DEF WriteClosed
  <2> HIDE DEF next
  <2> QED BY <2>1, <2>2, <2>9, <1>a, <1>b, OneWrite
<1>11. CASE WriteNotClosed(w)
  <2> PICK row \in {"unknown", write.verdict} :
        Return(w, [write EXCEPT !.row = row]) /\ write.phase = "closing"
    BY <1>11 DEF WriteNotClosed, write
  <2> DEFINE next == [write EXCEPT !.row = row, !.phase = "done"]
  <2>1. next \in WriteRecord /\ Honest(next) /\ next.accepted = write.accepted
    BY <1>a DEF Honest
  <2>2. Update(w, next) /\ document' = document
    BY <1>a DEF Return
  <2>9. writes[w].phase # "done"
    BY DEF write
  <2> HIDE DEF next
  <2> QED BY <2>1, <2>2, <2>9, <1>a, <1>b, OneWrite
<1> QED BY <1>1, <1>2, <1>3, <1>4, <1>5, <1>6, <1>7, <1>8, <1>9, <1>10, <1>11 DEF WriteStep

\* A write that is issued has done nothing yet.
LEMMA WriteIssuedIsUnreported ==
  ASSUME WritesInv, Write
  PROVE  Written' = Written
<1> DEFINE new == [phase |-> "opening", base |-> 0, accepted |-> 0, applied |-> FALSE,
                   lost |-> FALSE, verdict |-> "none", row |-> "none", receipt |-> "none"]
<1>1. new.phase # "done" /\ writes' = Append(writes, new)
  BY DEF Write
<1> HIDE DEF new
<1>2. /\ Len(writes') = Len(writes) + 1
      /\ \A v \in DOMAIN writes' : IF v = Len(writes) + 1 THEN writes'[v] = new
                                    ELSE v \in DOMAIN writes /\ writes'[v] = writes[v]
  BY <1>1 DEF WritesInv
<1> QED BY <1>1, <1>2 DEF Written, WritesInv

\* A new write has done nothing and has neither row nor receipt.
LEMMA WriteIssued ==
  ASSUME WritesInv, Write
  PROVE  WritesInv'
<1> DEFINE new == [phase |-> "opening", base |-> 0, accepted |-> 0, applied |-> FALSE,
                   lost |-> FALSE, verdict |-> "none", row |-> "none", receipt |-> "none"]
<1>1. new \in WriteRecord /\ Honest(new) /\ new.accepted = 0
  BY DEF WriteRecord, Outcomes, Honest
<1>2. writes' = Append(writes, new) /\ document' = document
  BY DEF Write
<1> HIDE DEF new
<1>3. writes' \in Seq(WriteRecord) /\ Len(writes') = Len(writes) + 1
  BY <1>1, <1>2 DEF WritesInv
<1>4. \A v \in DOMAIN writes' : IF v = Len(writes) + 1 THEN writes'[v] = new
                                ELSE v \in DOMAIN writes /\ writes'[v] = writes[v]
  BY <1>2 DEF WritesInv
<1>6. Newest'
  BY WriteIssuedIsUnreported DEF WritesInv, Newest
<1> QED BY <1>1, <1>2, <1>3, <1>4, <1>6 DEF WritesInv, Accepted

\* A step that leaves document and writes alone keeps it.
LEMMA WritesKept ==
  ASSUME WritesInv, UNCHANGED <<document, writes>>
  PROVE  WritesInv'
<1>1. Written' = Written
  BY DEF Written
<1>2. Newest'
  BY <1>1 DEF WritesInv, Newest
<1> QED BY <1>2 DEF WritesInv, Accepted

\* Every step is a write's, a read's, a member's edit, or leaves the documents alone.
LEMMA DocumentSteps ==
  ASSUME [Next]_vars
  PROVE  \/ Write
         \/ \E k \in Keys, cursor \in 0 .. Len(reads) : Read(k, cursor)
         \/ \E f \in DOMAIN reads : FetchServed(f) \/ FetchResolves(f) \/ FetchRejects(f)
         \/ \E w \in DOMAIN writes : WriteStep(w)
         \/ Edit
         \/ UNCHANGED documentVars
  BY DEF Next, Documents, Abort, DocumentIssue, DocumentStep, FetchSettles, vars

\* Of every write, row and receipt say what its phase allows (Honest), and what a write
\* applied is a revision Feishu has had.
THEOREM WritesInvariant == Spec => []WritesInv
<1>1. Init => WritesInv
  BY WritesInit
<1>2. WritesInv /\ [Next]_vars => WritesInv'
  <2> SUFFICES ASSUME WritesInv, [Next]_vars PROVE WritesInv'
    OBVIOUS
  <2>1. CASE Write
    BY <2>1, WriteIssued
  <2>2. CASE \E k \in Keys, cursor \in 0 .. Len(reads) : Read(k, cursor)
    BY <2>2, WritesKept DEF Read
  <2>3. CASE \E f \in DOMAIN reads : FetchServed(f) \/ FetchResolves(f) \/ FetchRejects(f)
    BY <2>3, WritesKept DEF FetchServed, FetchResolves, FetchRejects
  <2>4. CASE \E w \in DOMAIN writes : WriteStep(w)
    BY <2>4, WritesStep
  <2>5. CASE Edit
    <3>1. \A w \in DOMAIN writes : writes[w] \in WriteRecord
      BY DEF WritesInv
    <3>2. \A w \in DOMAIN writes : writes[w].accepted \in Nat
      BY <3>1 DEF WriteRecord
    <3>3. Written' = Written
      BY <2>5 DEF Edit, Written
    <3>4. Newest'
      BY <3>3 DEF WritesInv, Newest
    <3> QED BY <2>5, <3>2, <3>4 DEF Edit, WritesInv, Accepted
  <2>6. CASE UNCHANGED documentVars
    BY <2>6, WritesKept DEF documentVars
  <2> QED BY <2>1, <2>2, <2>3, <2>4, <2>5, <2>6, DocumentSteps
<1> QED BY <1>1, <1>2, PTL DEF Spec

\* What a member is told of a write is true, whatever fails and whenever the run is cut
\* short.
THEOREM ReceiptsAreTrue == Spec => []ReceiptsTellTheTruth
<1>1. WritesInv => ReceiptsTellTheTruth
  BY DEF WritesInv, Honest, ReceiptsTellTheTruth
<1> QED BY <1>1, WritesInvariant, PTL

-------------------------------------------------------------------------------
(***************************************************************************)
(* Reads of documents.                                                     *)
(***************************************************************************)

\* n is at least as new as every write of this run that was reported as a success.
Covers(n) == \A u \in Written : u <= n

ReadRecord ==
  [key : Keys, follows : Nat, index : Nat,
   phase : {"waiting", "answered", "failed"}, fetch : Nat,
   promise : {"none", "pending", "served", "resolved", "rejected"},
   got : Nat, of : Nat, more : BOOLEAN, floor : Nat]

Waiting(r) == reads[r].phase = "waiting"

\* While no fetch was under way at an invalidation: every read that waits does so for the
\* fetch the cache holds, and what is kept is as new as what this run has written.
Fresh ==
  /\ \A r \in DOMAIN reads : Waiting(r) => cached # 0 /\ reads[r].fetch = cached
  /\ \A r \in DOMAIN reads : Waiting(r) => reads[r].floor \in Written \cup {0}
  /\ cached # 0 /\ reads[cached].promise \in {"served", "resolved"} => Covers(reads[cached].got)
  /\ \A k \in Keys : pageSets[k] # NoPages => Covers(pageSets[k])

\* A cursor, and a read that follows one, belongs to the pages that are kept.
Continued ==
  /\ \A c \in cursors : /\ reads[c].phase = "answered"
                         /\ pageSets[reads[c].key] # NoPages
                         /\ reads[c].of = pageSets[reads[c].key]
  /\ \A r \in DOMAIN reads :
       Waiting(r) /\ reads[r].index > 0
       => reads[r].follows \in cursors /\ reads[reads[r].follows].key = reads[r].key
  /\ \A r \in DOMAIN reads : reads[r].index > 0 => reads[reads[r].follows].phase = "answered"

ReadsShape ==
  /\ reads \in Seq(ReadRecord)
  /\ \A r \in DOMAIN reads : reads[r].index > 0 => reads[r].follows \in DOMAIN reads
  /\ \A r \in DOMAIN reads : Waiting(r) => ~reads[r].more
  /\ cached \in {0} \cup DOMAIN reads
  /\ pageSets \in [Keys -> Nat \cup {NoPages}]
  /\ cursors \in SUBSET (DOMAIN reads)
  /\ raced \in BOOLEAN

ReadsInv ==
  /\ ReadsShape
  /\ ~raced => Fresh /\ Continued /\ WriteInvalidatesSnapshot /\ DocumentPagesOfOneSnapshot

\* The start.
LEMMA ReadsInit == Init => ReadsInv
<1> SUFFICES ASSUME Init PROVE ReadsInv
  OBVIOUS
<1> USE DEF Init, DocumentsInit
<1>1. DOMAIN reads = {} /\ cursors = {}
  OBVIOUS
<1>2. ReadsShape
  <2>1. pageSets \in [Keys -> Nat \cup {NoPages}]
    OBVIOUS
  <2>2. reads \in Seq(ReadRecord) /\ cached = 0 /\ raced = FALSE
    OBVIOUS
  <2> QED BY <1>1, <2>1, <2>2 DEF ReadsShape
<1>3. Fresh /\ Continued
  BY <1>1 DEF Fresh, Continued
<1>4. WriteInvalidatesSnapshot /\ DocumentPagesOfOneSnapshot
  BY <1>1 DEF WriteInvalidatesSnapshot, DocumentPagesOfOneSnapshot
<1> QED BY <1>2, <1>3, <1>4 DEF ReadsInv

\* The record of a read that is issued.
LEMMA NewReadShape ==
  ASSUME WritesInv, ReadsShape, NEW k \in Keys, NEW cursor \in 0 .. Len(reads),
         NEW fetch \in Nat, NEW promise \in {"none", "pending"}
  PROVE  LET new == NewRead(k, cursor, fetch, promise)
         IN /\ new \in ReadRecord
            /\ new.floor \in Written \cup {0}
            /\ new.phase = "waiting" /\ new.key = k /\ new.follows = cursor
            /\ new.fetch = fetch /\ new.promise = promise /\ ~new.more
            /\ new.index > 0 => cursor \in cursors /\ reads[cursor].key = k
<1> DEFINE floor == CHOOSE v \in Written \cup {0} : \A u \in Written : u <= v
<1>1. floor \in Written \cup {0}
  BY DEF WritesInv, Newest
<1>2. Written \subseteq Nat
  <2>1. \A w \in DOMAIN writes : writes[w] \in WriteRecord
    BY DEF WritesInv
  <2> QED BY <2>1 DEF Written, WriteRecord
<1>3. Index(k, cursor) \in Nat
      /\ (Index(k, cursor) > 0 => cursor \in cursors /\ reads[cursor].key = k)
  <2>1. \A c \in cursors : reads[c] \in ReadRecord
    BY DEF ReadsShape
  <2> QED BY <2>1 DEF Index, ReadRecord
<1>4. NewRead(k, cursor, fetch, promise) =
        [key |-> k, follows |-> cursor, index |-> Index(k, cursor), phase |-> "waiting",
         fetch |-> fetch, promise |-> promise, got |-> 0, of |-> 0, more |-> FALSE,
         floor |-> floor]
  BY DEF NewRead
<1>5. floor \in Nat
  <2> HIDE DEF floor
  <2> QED BY <1>1, <1>2
<1>6. cursor \in Nat
  BY DEF ReadsShape
<1> HIDE DEF floor
<1> QED BY <1>1, <1>3, <1>4, <1>5, <1>6 DEF ReadRecord

\* A read is given its page: it is answered with it or refused, and nothing else changes.
LEMMA WithPageShape ==
  ASSUME NEW read \in ReadRecord, NEW v \in Nat, ~read.more
  PROVE  LET next == WithPage(read, v)
         IN /\ next \in ReadRecord
            /\ \/ next.phase = "answered" /\ next.of = v
               \/ next.phase = "failed" /\ ~next.more
            /\ next.key = read.key /\ next.follows = read.follows /\ next.index = read.index
            /\ next.fetch = read.fetch /\ next.promise = read.promise
            /\ next.got = read.got /\ next.floor = read.floor
<1>1. CASE read.index < PageCount[v]
  BY <1>1 DEF WithPage, ReadRecord
<1>2. CASE ~(read.index < PageCount[v])
  BY <1>2 DEF WithPage, ReadRecord
<1> QED BY <1>1, <1>2

\* What Covers() says of a page's revision is what a read needs.
LEMMA CoversFloor ==
  ASSUME NEW floor \in Written \cup {0}, NEW v \in Nat, Covers(v)
  PROVE  v >= floor
<1>1. CASE floor = 0
  BY <1>1
<1>2. CASE floor \in Written
  BY <1>2 DEF Covers
<1> QED BY <1>1, <1>2

\* A step that neither reads nor invalidates.
LEMMA ReadsKept ==
  ASSUME ReadsInv, UNCHANGED <<reads, cached, pageSets, cursors, raced>>, Written' = Written
  PROVE  ReadsInv'
<1> USE DEF Waiting
<1>1. ReadsShape'
  BY DEF ReadsInv, ReadsShape
<1>2. ASSUME ~raced PROVE Fresh' /\ Continued'
  BY <1>2 DEF ReadsInv, Fresh, Covers, Continued
<1>3. ASSUME ~raced PROVE WriteInvalidatesSnapshot' /\ DocumentPagesOfOneSnapshot'
  BY <1>3 DEF ReadsInv, WriteInvalidatesSnapshot, DocumentPagesOfOneSnapshot
<1> QED BY <1>1, <1>2, <1>3 DEF ReadsInv

\* An invalidation while nothing waits drops all that Fresh and Continued speak of.
LEMMA ReadsInvalidated ==
  ASSUME ReadsInv, invalidateDocument, UNCHANGED reads
  PROVE  ReadsInv'
<1> USE DEF Waiting
<1>1. ReadsShape'
  BY DEF ReadsInv, ReadsShape, invalidateDocument, Raced
<1>2. ASSUME ~raced' PROVE ~raced /\ \A r \in DOMAIN reads : ~Waiting(r)
  BY <1>2 DEF invalidateDocument, Raced
<1>3. ASSUME ~raced' PROVE Fresh' /\ Continued'
  <2>1. Continued
    BY <1>2, <1>3 DEF ReadsInv
  <2> QED BY <2>1, <1>2, <1>3 DEF invalidateDocument, Fresh, Continued
<1>4. ASSUME ~raced' PROVE WriteInvalidatesSnapshot' /\ DocumentPagesOfOneSnapshot'
  <2>1. WriteInvalidatesSnapshot /\ DocumentPagesOfOneSnapshot /\ ~raced
    BY <1>2, <1>4 DEF ReadsInv
  <2> QED BY <2>1 DEF WriteInvalidatesSnapshot, DocumentPagesOfOneSnapshot
<1> QED BY <1>1, <1>3, <1>4 DEF ReadsInv

\* A step of a write either returns, which drops what is kept of the document, or leaves
\* the reads alone.
LEMMA ReadsWriteStep ==
  ASSUME WritesInv, ReadsInv, NEW w \in DOMAIN writes, WriteStep(w)
  PROVE  ReadsInv'
<1>1. CASE WriteNotOpened(w) \/ WriteClosed(w) \/ WriteNotClosed(w)
  <2>1. invalidateDocument /\ UNCHANGED reads
    BY <1>1 DEF WriteNotOpened, WriteClosed, WriteNotClosed, Return, Update
  <2> QED BY <2>1, ReadsInvalidated
<1>2. CASE \/ WriteOpened(w) \/ CurrentRead(w) \/ WriteApplied(w) \/ WriteRefused(w)
           \/ WriteAnswered(w) \/ WriteConfirmed(w) \/ AnswerLost(w)
  <2>1. UNCHANGED <<reads, cached, pageSets, cursors, raced>>
    BY <1>2 DEF WriteOpened, CurrentRead, WriteApplied, WriteRefused, WriteAnswered,
                WriteConfirmed, AnswerLost, Advance, Update
  <2>2. PICK next : writes' = [writes EXCEPT ![w] = next]
    BY <1>2 DEF WriteOpened, CurrentRead, WriteApplied, WriteRefused, WriteAnswered,
                WriteConfirmed, AnswerLost, Advance, Update
  <2>3. writes[w].phase # "done" /\ writes'[w].phase # "done"
    <3>1. writes[w] \in WriteRecord
      BY DEF WritesInv
    <3> QED BY <1>2, <3>1 DEF WriteOpened, CurrentRead, WriteApplied, WriteRefused,
                  WriteAnswered, WriteConfirmed, AnswerLost, Advance, Update, Threw, WriteRecord
  <2>4. Written' = Written
    BY <2>2, <2>3 DEF Written
  <2> QED BY <2>1, <2>4, ReadsKept
<1>3. CASE WriteAppliedLate(w)
  <2>1. UNCHANGED <<reads, cached, pageSets, cursors, raced>>
    BY <1>3 DEF WriteAppliedLate, Update
  <2>2. Written' = Written
    <3>1. writes[w] \in WriteRecord
      BY DEF WritesInv
    <3> QED BY <1>3, <3>1 DEF WriteAppliedLate, Update, Written, WriteRecord
  <2> QED BY <2>1, <2>2, ReadsKept
<1> QED BY <1>1, <1>2, <1>3 DEF WriteStep

\* A read is appended: those before it are as they were.
LEMMA ReadAppended ==
  ASSUME ReadsShape, NEW new \in ReadRecord, reads' = Append(reads, new)
  PROVE  /\ reads' \in Seq(ReadRecord)
         /\ DOMAIN reads' = DOMAIN reads \cup {Len(reads) + 1}
         /\ reads'[Len(reads) + 1] = new
         /\ \A r \in DOMAIN reads : reads'[r] = reads[r] /\ r # Len(reads) + 1
  BY DEF ReadsShape

\* A read that finds no fetch, joins the one under way, or finds a rejected one: no page
\* is given.
LEMMA ReadWaits ==
  ASSUME WritesInv, ReadsInv, NEW k \in Keys, NEW cursor \in 0 .. Len(reads),
         NEW fetch \in Nat, NEW promise \in {"none", "pending"},
         NEW new \in ReadRecord,
         \/ new = NewRead(k, cursor, fetch, promise)
         \/ new = [NewRead(k, cursor, fetch, promise) EXCEPT !.phase = "failed"],
         reads' = Append(reads, new), cached' = fetch,
         \/ cached = 0 /\ fetch = Len(reads) + 1 /\ promise = "pending"
         \/ cached # 0 /\ fetch = cached,
         UNCHANGED <<writes, pageSets, cursors, raced>>
  PROVE  ReadsInv'
<1> DEFINE me == Len(reads) + 1
<1>1. ReadsShape
  BY DEF ReadsInv
<1>2. /\ new.floor \in Written \cup {0} /\ new.phase \in {"waiting", "failed"} /\ new.key = k
      /\ new.follows = cursor /\ new.fetch = fetch /\ new.promise = promise /\ ~new.more
      /\ new.index > 0 => cursor \in cursors /\ reads[cursor].key = k
  <2> DEFINE read == NewRead(k, cursor, fetch, promise)
  <2>1. /\ read \in ReadRecord /\ read.floor \in Written \cup {0} /\ read.phase = "waiting"
        /\ read.key = k /\ read.follows = cursor /\ read.fetch = fetch /\ read.promise = promise
        /\ ~read.more /\ (read.index > 0 => cursor \in cursors /\ reads[cursor].key = k)
    BY <1>1, NewReadShape
  <2>2. new = read \/ new = [read EXCEPT !.phase = "failed"]
    OBVIOUS
  <2> HIDE DEF read
  <2> QED BY <2>1, <2>2 DEF ReadRecord
<1>3. /\ reads' \in Seq(ReadRecord) /\ DOMAIN reads' = DOMAIN reads \cup {me}
      /\ reads'[me] = new /\ \A r \in DOMAIN reads : reads'[r] = reads[r] /\ r # me
  BY <1>1, ReadAppended
<1>4. Written' = Written
  BY DEF Written
<1>5. cursors \subseteq DOMAIN reads /\ cached \in {0} \cup DOMAIN reads
  BY <1>1 DEF ReadsShape
<1> HIDE DEF me
<1>6. ReadsShape'
  <2>1. fetch \in DOMAIN reads'
    BY <1>3, <1>5 DEF me
  <2> QED BY <1>1, <1>2, <1>3, <1>5, <2>1 DEF ReadsShape, Waiting
<1>7. ASSUME ~raced PROVE Fresh'
  <2>1. Fresh
    BY <1>7 DEF ReadsInv
  <2>2. cached = 0 => \A r \in DOMAIN reads : ~Waiting(r)
    BY <2>1 DEF Fresh
  <2>3. \A r \in (DOMAIN reads)' : Waiting(r)' => cached' # 0 /\ reads'[r].fetch = cached'
    BY <1>2, <1>3, <1>5, <2>1, <2>2 DEF Fresh, Waiting, me
  <2>4. \A r \in (DOMAIN reads)' : Waiting(r)' => reads'[r].floor \in Written \cup {0}
    BY <1>2, <1>3, <2>1 DEF Fresh, Waiting
  <2>5. reads'[cached'].promise \in {"served", "resolved"} => Covers(reads'[cached'].got)
    BY <1>2, <1>3, <1>5, <2>1 DEF Fresh, me
  <2> QED BY <2>1, <2>3, <2>4, <2>5, <1>4 DEF Fresh, Covers
<1>8. ASSUME ~raced PROVE Continued'
  <2>1. Continued
    BY <1>8 DEF ReadsInv
  <2>2. ASSUME NEW c \in cursors
        PROVE  /\ reads'[c].phase = "answered" /\ pageSets'[reads'[c].key] # NoPages
               /\ reads'[c].of = pageSets'[reads'[c].key]
    BY <2>1, <1>3, <1>5 DEF Continued
  <2>3. ASSUME NEW r \in DOMAIN reads \cup {me}, reads'[r].index > 0
        PROVE  /\ Waiting(r)' => /\ reads'[r].follows \in cursors
                                 /\ reads'[reads'[r].follows].key = reads'[r].key
               /\ reads'[reads'[r].follows].phase = "answered"
    <3>1. CASE r \in DOMAIN reads
      <4>1. reads[r].follows \in DOMAIN reads /\ reads'[r] = reads[r]
        BY <2>3, <3>1, <1>1, <1>3 DEF ReadsShape
      <4> QED BY <4>1, <2>1, <2>3, <3>1, <1>3 DEF Continued, Waiting
    <3>2. CASE r = me
      BY <2>1, <2>3, <3>2, <1>2, <1>3, <1>5 DEF Continued
    <3> QED BY <3>1, <3>2
  <2> QED BY <2>2, <2>3, <1>3 DEF Continued
<1>9. ASSUME ~raced PROVE WriteInvalidatesSnapshot' /\ DocumentPagesOfOneSnapshot'
  <2>1. WriteInvalidatesSnapshot /\ DocumentPagesOfOneSnapshot
    BY <1>9 DEF ReadsInv
  <2>2. WriteInvalidatesSnapshot'
    BY <2>1, <1>2, <1>3 DEF WriteInvalidatesSnapshot
  <2>3. DocumentPagesOfOneSnapshot'
    BY <2>1, <1>1, <1>2, <1>3 DEF DocumentPagesOfOneSnapshot, ReadsShape
  <2> QED BY <2>2, <2>3
<1> QED BY <1>6, <1>7, <1>8, <1>9 DEF ReadsInv

\* A read that finds a fetch that has resolved gets its page at once.
LEMMA ReadServed ==
  ASSUME WritesInv, ReadsInv, NEW k \in Keys, NEW cursor \in 0 .. Len(reads), NEW new,
         cached # 0, reads[cached].promise = "resolved",
         pageSets' = PageSets({k}, reads[cached].got),
         new = WithPage(NewRead(k, cursor, cached, "none"), pageSets'[k]),
         reads' = Append(reads, new),
         cursors' = IF new.more THEN cursors \cup {Len(reads) + 1} ELSE cursors,
         UNCHANGED <<writes, cached, raced>>
  PROVE  ReadsInv'
<1> DEFINE me == Len(reads) + 1
           v == pageSets'[k]
           read == NewRead(k, cursor, cached, "none")
<1>1. ReadsShape /\ cached \in DOMAIN reads /\ cached \in Nat
  BY DEF ReadsInv, ReadsShape
<1>2. reads[cached].got \in Nat
  <2>1. reads[cached] \in ReadRecord
    BY <1>1 DEF ReadsShape
  <2> QED BY <2>1 DEF ReadRecord
<1>3. /\ pageSets' \in [Keys -> Nat \cup {NoPages}] /\ v \in Nat /\ v # NoPages
      /\ v = IF pageSets[k] = NoPages THEN reads[cached].got ELSE pageSets[k]
      /\ \A q \in Keys : pageSets[q] # NoPages => pageSets'[q] = pageSets[q]
      /\ \A q \in Keys \ {k} : pageSets'[q] = pageSets[q]
  BY <1>1, <1>2, DocumentsAssumption DEF PageSets, ReadsShape
<1>4. /\ read \in ReadRecord /\ read.floor \in Written \cup {0} /\ read.phase = "waiting"
      /\ read.key = k /\ read.follows = cursor /\ ~read.more
      /\ read.promise = "none"
      /\ (read.index > 0 => cursor \in cursors /\ reads[cursor].key = k)
  BY <1>1, NewReadShape
<1> HIDE DEF read, v
<1>5. new = WithPage(read, v)
  BY DEF read, v
<1>6. /\ new \in ReadRecord
      /\ \/ new.phase = "answered" /\ new.of = v
         \/ new.phase = "failed" /\ ~new.more
      /\ new.key = k /\ new.follows = cursor /\ new.floor \in Written \cup {0}
      /\ (new.index > 0 => cursor \in cursors /\ reads[cursor].key = k)
  BY <1>3, <1>4, <1>5, WithPageShape
<1>7. /\ reads' \in Seq(ReadRecord) /\ DOMAIN reads' = DOMAIN reads \cup {me}
      /\ reads'[me] = new /\ \A r \in DOMAIN reads : reads'[r] = reads[r] /\ r # me
  BY <1>1, <1>6, ReadAppended
<1>8. Written' = Written
  BY DEF Written
<1>9. cursors \subseteq DOMAIN reads /\ cursors \subseteq cursors'
  BY <1>1 DEF ReadsShape
<1>10. cursors' \subseteq cursors \cup {me} /\ (me \in cursors' => new.more)
  BY <1>7, <1>9
<1> HIDE DEF me
<1>11. ReadsShape'
  <2>1. cursors' \in SUBSET (DOMAIN reads')
    BY <1>7, <1>9, <1>10
  <2>2. cached' \in {0} \cup (DOMAIN reads)' /\ raced' \in BOOLEAN
    BY <1>1, <1>7 DEF ReadsShape
  <2>3. \A r \in (DOMAIN reads)' : reads'[r].index > 0 => reads'[r].follows \in (DOMAIN reads)'
    BY <1>1, <1>6, <1>7, <1>9 DEF ReadsShape
  <2>4. \A r \in (DOMAIN reads)' : Waiting(r)' => ~reads'[r].more
    BY <1>1, <1>6, <1>7 DEF ReadsShape, Waiting
  <2> QED BY <1>3, <1>7, <2>1, <2>2, <2>3, <2>4 DEF ReadsShape
<1>12. ASSUME ~raced PROVE Fresh' /\ Covers(v)
  <2>1. Fresh
    BY <1>12 DEF ReadsInv
  <2>2. Covers(reads[cached].got) /\ Covers(v)
    BY <2>1, <1>3 DEF Fresh
  <2>3. \A q \in Keys : pageSets'[q] # NoPages => Covers(pageSets'[q])
    BY <2>1, <2>2, <1>3 DEF Fresh, v
  <2>4. \A r \in (DOMAIN reads)' : Waiting(r)' => r \in DOMAIN reads /\ Waiting(r)
    BY <1>6, <1>7 DEF Waiting
  <2> QED BY <2>1, <2>2, <2>3, <2>4, <1>1, <1>7, <1>8 DEF Fresh, Covers
<1>13. ASSUME ~raced PROVE Continued'
  <2>1. Continued
    BY <1>13 DEF ReadsInv
  <2>2. \A r \in (DOMAIN reads)' : Waiting(r)' => r \in DOMAIN reads /\ Waiting(r)
    BY <1>6, <1>7 DEF Waiting
  <2>3. \A c \in cursors' : /\ reads'[c].phase = "answered"
                            /\ pageSets'[reads'[c].key] # NoPages
                            /\ reads'[c].of = pageSets'[reads'[c].key]
    <3>1. ASSUME NEW c \in cursors
          PROVE  /\ reads'[c] = reads[c] /\ reads[c].phase = "answered"
                 /\ pageSets'[reads[c].key] = pageSets[reads[c].key]
                 /\ pageSets[reads[c].key] # NoPages /\ reads[c].of = pageSets[reads[c].key]
      <4>1. reads[c] \in ReadRecord
        BY <1>1, <1>9 DEF ReadsShape
      <4> QED BY <4>1, <2>1, <1>3, <1>7, <1>9 DEF Continued, ReadRecord
    <3>2. v = pageSets'[k]
      BY DEF v
    <3>3. ASSUME me \in cursors'
          PROVE  /\ reads'[me] = new /\ new.phase = "answered" /\ new.key = k
                 /\ pageSets'[k] # NoPages /\ new.of = pageSets'[k]
      BY <3>2, <3>3, <1>3, <1>6, <1>7, <1>10
    <3>4. \A c \in cursors' : c \in cursors \/ c = me
      BY <1>10
    <3> TAKE c \in cursors'
    <3>5. CASE c \in cursors
      <4>1. /\ reads'[c] = reads[c] /\ reads[c].phase = "answered"
            /\ pageSets'[reads[c].key] = pageSets[reads[c].key]
            /\ pageSets[reads[c].key] # NoPages /\ reads[c].of = pageSets[reads[c].key]
        BY <3>1, <3>5
      <4> QED BY <4>1
    <3>6. CASE c = me
      BY <3>3, <3>6
    <3> QED BY <3>4, <3>5, <3>6
  <2>4. \A r \in (DOMAIN reads)' : Waiting(r)' /\ reads'[r].index > 0
          => reads'[r].follows \in cursors' /\ reads'[reads'[r].follows].key = reads'[r].key
    <3>1. ASSUME NEW r \in DOMAIN reads, Waiting(r), reads[r].index > 0
          PROVE  reads[r].follows \in cursors /\ reads[reads[r].follows].key = reads[r].key
      BY <2>1, <3>1 DEF Continued
    <3> QED BY <3>1, <2>2, <1>7, <1>9
  <2>5. ASSUME NEW r \in (DOMAIN reads)', reads'[r].index > 0
        PROVE  reads'[reads'[r].follows].phase = "answered"
    <3>1. CASE r \in DOMAIN reads
      BY <2>1, <2>5, <3>1, <1>1, <1>7 DEF Continued, ReadsShape
    <3>2. CASE r = me
      BY <2>1, <2>5, <3>2, <1>6, <1>7, <1>9 DEF Continued
    <3> QED BY <3>1, <3>2, <1>7
  <2> QED BY <2>3, <2>4, <2>5 DEF Continued
<1>14. ASSUME ~raced PROVE WriteInvalidatesSnapshot' /\ DocumentPagesOfOneSnapshot'
  <2>1. WriteInvalidatesSnapshot /\ DocumentPagesOfOneSnapshot /\ Continued
    BY <1>14 DEF ReadsInv
  <2>2. WriteInvalidatesSnapshot'
    <3>1. v >= new.floor
      BY <1>3, <1>6, <1>12, <1>14, CoversFloor
    <3>2. new.phase = "answered" => new.of >= new.floor
      BY <3>1, <1>6
    <3>3. ASSUME NEW r \in DOMAIN reads, reads[r].phase = "answered"
          PROVE  reads[r].of >= reads[r].floor
      BY <2>1, <3>3 DEF WriteInvalidatesSnapshot
    <3>4. ASSUME NEW r \in (DOMAIN reads)', reads'[r].phase = "answered"
          PROVE  reads'[r].of >= reads'[r].floor
      <4>1. CASE r \in DOMAIN reads
        BY <3>3, <3>4, <4>1, <1>7
      <4>2. CASE r = me
        BY <3>2, <3>4, <4>2, <1>7
      <4> QED BY <4>1, <4>2, <1>7
    <3> QED BY <3>4 DEF WriteInvalidatesSnapshot
  <2>3. new.phase = "answered" /\ new.index > 0 => reads'[cursor].of = new.of /\ cursor \in DOMAIN reads
    BY <2>1, <1>3, <1>6, <1>7, <1>9 DEF Continued, v
  <2>4. DocumentPagesOfOneSnapshot'
    BY <2>1, <2>3, <1>1, <1>6, <1>7 DEF DocumentPagesOfOneSnapshot, ReadsShape
  <2> QED BY <2>2, <2>4
<1> QED BY <1>11, <1>12, <1>13, <1>14 DEF ReadsInv

\* A function on the domain of a sequence is a sequence.
LEMMA SequenceOf ==
  ASSUME NEW S, NEW s \in Seq(S), NEW t \in [DOMAIN s -> S]
  PROVE  t \in Seq(S) /\ DOMAIN t = DOMAIN s
<1>1. Len(s) \in Nat /\ t \in [1 .. Len(s) -> S]
  OBVIOUS
<1> QED BY <1>1

\* A read that begins waits for the fetch in the cache, or fetches.
LEMMA ReadIssued ==
  ASSUME WritesInv, ReadsInv, NEW k \in Keys, NEW cursor \in 0 .. Len(reads), Read(k, cursor)
  PROVE  ReadsInv'
<1>1. ReadsShape /\ Len(reads) + 1 \in Nat /\ cached \in Nat
  BY DEF ReadsInv, ReadsShape
<1>2. CASE cached = 0
  <2> DEFINE me == Len(reads) + 1
             new == NewRead(k, cursor, me, "pending")
  <2>1. new \in ReadRecord
    BY <1>1, NewReadShape
  <2>2. /\ reads' = Append(reads, new) /\ cached' = me
        /\ UNCHANGED <<writes, pageSets, cursors, raced>>
    BY <1>2 DEF Read
  <2> QED BY <1>1, <1>2, <2>1, <2>2, ReadWaits
<1>3. CASE cached # 0 /\ reads[cached].promise # "resolved"
  <2> DEFINE read == NewRead(k, cursor, cached, "none")
             failed == [read EXCEPT !.phase = "failed"]
  <2>1. read \in ReadRecord
    BY <1>1, NewReadShape
  <2>2. failed \in ReadRecord
    <3> HIDE DEF read
    <3> QED BY <2>1 DEF ReadRecord
  <2>3. /\ reads' = Append(reads, read) \/ reads' = Append(reads, failed)
        /\ UNCHANGED <<cached, writes, pageSets, cursors, raced>>
    BY <1>3 DEF Read
  <2> QED BY <1>1, <1>3, <2>1, <2>2, <2>3, ReadWaits
<1>4. CASE cached # 0 /\ reads[cached].promise = "resolved"
  <2> DEFINE new == WithPage(NewRead(k, cursor, cached, "none"), pageSets'[k])
  <2>1. /\ pageSets' = PageSets({k}, reads[cached].got)
        /\ reads' = Append(reads, new)
        /\ cursors' = IF new.more THEN cursors \cup {Len(reads) + 1} ELSE cursors
        /\ UNCHANGED <<writes, cached, raced>>
    BY <1>4 DEF Read
  <2> QED BY <1>4, <2>1, ReadServed
<1> QED BY <1>2, <1>3, <1>4

\* What a step may do to the reads that do not get a page: a fetch moves on, a waiting
\* read fails.
LEMMA ReadsSettle ==
  ASSUME WritesInv, ReadsInv, NEW f \in DOMAIN reads,
         reads' \in Seq(ReadRecord), DOMAIN reads' = DOMAIN reads,
         \A r \in DOMAIN reads :
           /\ reads'[r].phase # reads[r].phase => Waiting(r) /\ reads'[r].phase = "failed"
           /\ reads'[r].key = reads[r].key /\ reads'[r].follows = reads[r].follows
           /\ reads'[r].index = reads[r].index /\ reads'[r].fetch = reads[r].fetch
           /\ reads'[r].of = reads[r].of /\ reads'[r].more = reads[r].more
           /\ reads'[r].floor = reads[r].floor
           /\ \/ reads'[r].promise = reads[r].promise /\ reads'[r].got = reads[r].got
              \/ reads'[r].promise = "rejected"
              \/ reads'[r].promise = "served" /\ reads'[r].got = document,
         UNCHANGED <<document, writes, cached, pageSets, cursors, raced>>
  PROVE  ReadsInv'
<1>1. Written' = Written
  BY DEF Written
<1>2. Covers(document)
  BY DEF WritesInv, Covers, Written, Accepted
<1>3. ReadsShape'
  BY DEF ReadsInv, ReadsShape, Waiting
<1>4. ASSUME ~raced PROVE Fresh'
  <2>1. Fresh
    BY <1>4 DEF ReadsInv
  <2>2. \A r \in DOMAIN reads : Waiting(r)' => Waiting(r)
    BY DEF Waiting
  <2>3. cached # 0 /\ reads'[cached].promise \in {"served", "resolved"}
        => Covers(reads'[cached].got)
    <3>1. cached # 0 => cached \in DOMAIN reads
      BY DEF ReadsInv, ReadsShape
    <3> QED BY <3>1, <2>1, <1>2 DEF Fresh
  <2> QED BY <2>1, <2>2, <2>3, <1>1 DEF Fresh, Covers
<1>5. ASSUME ~raced PROVE Continued'
  <2>1. Continued /\ cursors \subseteq DOMAIN reads
    BY <1>5 DEF ReadsInv, ReadsShape
  <2>2. \A c \in cursors : reads'[c].phase = "answered"
    BY <2>1 DEF Continued, Waiting
  <2>3. ASSUME NEW r \in DOMAIN reads, reads'[r].index > 0
        PROVE  /\ Waiting(r)' => /\ reads'[r].follows \in cursors
                                 /\ reads'[reads'[r].follows].key = reads'[r].key
               /\ reads'[reads'[r].follows].phase = "answered"
    <3>1. /\ reads[r].follows \in DOMAIN reads /\ reads[reads[r].follows].phase = "answered"
          /\ reads'[r].follows = reads[r].follows
      BY <2>1, <2>3 DEF Continued, ReadsInv, ReadsShape
    <3> QED BY <2>1, <2>3, <3>1 DEF Continued, Waiting
  <2> QED BY <2>1, <2>2, <2>3 DEF Continued
<1>6. ASSUME ~raced PROVE WriteInvalidatesSnapshot' /\ DocumentPagesOfOneSnapshot'
  <2>1. /\ WriteInvalidatesSnapshot /\ DocumentPagesOfOneSnapshot
        /\ \A r \in DOMAIN reads : reads[r].index > 0 => reads[r].follows \in DOMAIN reads
    BY <1>6 DEF ReadsInv, ReadsShape
  <2>2. \A r \in DOMAIN reads : reads'[r].phase = "answered" => reads[r].phase = "answered"
    OBVIOUS
  <2> QED BY <2>1, <2>2 DEF WriteInvalidatesSnapshot, DocumentPagesOfOneSnapshot
<1> QED BY <1>3, <1>4, <1>5, <1>6 DEF ReadsInv

\* Feishu serves a fetch at the revision of that moment.
LEMMA FetchServedKeeps ==
  ASSUME WritesInv, ReadsInv, NEW f \in DOMAIN reads, FetchServed(f)
  PROVE  ReadsInv'
<1>1. \A r \in DOMAIN reads : reads[r] \in ReadRecord
  BY DEF ReadsInv, ReadsShape
<1>2. reads' = [reads EXCEPT ![f] = [reads[f] EXCEPT !.promise = "served", !.got = document]]
  BY DEF FetchServed
<1>3. [reads[f] EXCEPT !.promise = "served", !.got = document] \in ReadRecord
  BY <1>1 DEF ReadRecord, WritesInv
<1>4. reads' \in Seq(ReadRecord) /\ DOMAIN reads' = DOMAIN reads
  BY <1>2, <1>3 DEF ReadsInv, ReadsShape
<1>5. ASSUME NEW r \in DOMAIN reads
      PROVE  /\ reads'[r].phase = reads[r].phase
             /\ reads'[r].key = reads[r].key /\ reads'[r].follows = reads[r].follows
             /\ reads'[r].index = reads[r].index /\ reads'[r].fetch = reads[r].fetch
             /\ reads'[r].of = reads[r].of /\ reads'[r].more = reads[r].more
             /\ reads'[r].floor = reads[r].floor
             /\ \/ reads'[r].promise = reads[r].promise /\ reads'[r].got = reads[r].got
                \/ reads'[r].promise = "served" /\ reads'[r].got = document
  <2>1. reads'[r] = IF r = f THEN [reads[f] EXCEPT !.promise = "served", !.got = document]
                             ELSE reads[r]
    BY <1>2
  <2>2. reads[r] \in ReadRecord
    BY <1>1
  <2> QED BY <2>1, <2>2 DEF ReadRecord
<1>6. UNCHANGED <<document, writes, cached, pageSets, cursors, raced>>
  BY DEF FetchServed
<1> QED BY <1>4, <1>5, <1>6, ReadsSettle

\* A rejected fetch fails the reads that await it and stays in the cache.
LEMMA FetchRejectsKeeps ==
  ASSUME WritesInv, ReadsInv, NEW f \in DOMAIN reads, FetchRejects(f)
  PROVE  ReadsInv'
<1> DEFINE read(r) == IF r = f THEN [reads[r] EXCEPT !.promise = "rejected"] ELSE reads[r]
           next(r) == IF r \in Awaiting(f) THEN [read(r) EXCEPT !.phase = "failed"] ELSE read(r)
<1>1. \A r \in DOMAIN reads : reads[r] \in ReadRecord
  BY DEF ReadsInv, ReadsShape
<1>2. \A r \in DOMAIN reads : read(r) \in ReadRecord /\ next(r) \in ReadRecord
  BY <1>1 DEF ReadRecord
<1>3. reads' = [r \in DOMAIN reads |-> next(r)]
  BY DEF FetchRejects
<1>4. reads' \in Seq(ReadRecord) /\ DOMAIN reads' = DOMAIN reads
  <2> HIDE DEF next
  <2>1. reads' \in [DOMAIN reads -> ReadRecord]
    BY <1>2, <1>3
  <2> QED BY <2>1, SequenceOf DEF ReadsInv, ReadsShape
<1>5. UNCHANGED <<document, writes, cached, pageSets, cursors, raced>>
  BY DEF FetchRejects
<1>6. ASSUME NEW r \in DOMAIN reads
      PROVE  /\ reads'[r].phase # reads[r].phase => Waiting(r) /\ reads'[r].phase = "failed"
             /\ reads'[r].key = reads[r].key /\ reads'[r].follows = reads[r].follows
             /\ reads'[r].index = reads[r].index /\ reads'[r].fetch = reads[r].fetch
             /\ reads'[r].of = reads[r].of /\ reads'[r].more = reads[r].more
             /\ reads'[r].floor = reads[r].floor
             /\ \/ reads'[r].promise = reads[r].promise /\ reads'[r].got = reads[r].got
                \/ reads'[r].promise = "rejected"
                \/ reads'[r].promise = "served" /\ reads'[r].got = document
  <2>1. reads'[r] = next(r) /\ reads[r] \in ReadRecord
    BY <1>1, <1>3
  <2> QED BY <2>1 DEF ReadRecord, Awaiting, Waiting
<1> QED BY <1>4, <1>5, <1>6, ReadsSettle

\* A fetch that resolves gives every read that awaited it its page.
LEMMA FetchResolvesKeeps ==
  ASSUME WritesInv, ReadsInv, NEW f \in DOMAIN reads, FetchResolves(f)
  PROVE  ReadsInv'
<1> DEFINE settled(r) == IF r = f THEN [reads[r] EXCEPT !.promise = "resolved"] ELSE reads[r]
           next(r) == IF r \in Awaiting(f) THEN WithPage(settled(r), pageSets'[settled(r).key])
                                           ELSE settled(r)
           ks == {reads[r].key : r \in Awaiting(f)}
           got == reads[f].got
<1>1. \A r \in DOMAIN reads : reads[r] \in ReadRecord
  BY DEF ReadsInv, ReadsShape
<1>2. /\ reads' = [r \in DOMAIN reads |-> next(r)]
      /\ pageSets' = PageSets(ks, got)
      /\ cursors' = cursors \cup {r \in Awaiting(f) : reads'[r].more}
      /\ reads[f].promise = "served"
      /\ UNCHANGED <<document, writes, cached, raced>>
  BY DEF FetchResolves
<1>3. got \in Nat
  BY <1>1 DEF ReadRecord
<1>4. /\ pageSets' \in [Keys -> Nat \cup {NoPages}]
      /\ \A k \in Keys : /\ pageSets[k] # NoPages => pageSets'[k] = pageSets[k]
                         /\ pageSets'[k] \in {got, pageSets[k]}
                         /\ k \in ks => pageSets'[k] \in Nat /\ pageSets'[k] # NoPages
                         /\ pageSets'[k] # pageSets[k] => Awaiting(f) # {}
  BY <1>2, <1>3, DocumentsAssumption DEF PageSets, ReadsInv, ReadsShape
<1> HIDE DEF ks
<1>5. ASSUME NEW r \in DOMAIN reads
      PROVE  /\ settled(r) \in ReadRecord
             /\ settled(r).phase = reads[r].phase /\ settled(r).key = reads[r].key
             /\ settled(r).follows = reads[r].follows /\ settled(r).index = reads[r].index
             /\ settled(r).fetch = reads[r].fetch /\ settled(r).got = reads[r].got
             /\ settled(r).of = reads[r].of /\ settled(r).more = reads[r].more
             /\ settled(r).floor = reads[r].floor
             /\ r # f => settled(r).promise = reads[r].promise
  BY <1>1 DEF ReadRecord
<1> HIDE DEF settled
<1>6. ASSUME NEW r \in Awaiting(f)
      PROVE  /\ r \in DOMAIN reads /\ Waiting(r) /\ reads[r].fetch = f
             /\ reads[r].key \in Keys /\ reads[r].key \in ks /\ ~reads[r].more
             /\ pageSets'[reads[r].key] \in Nat /\ pageSets'[reads[r].key] # NoPages
  <2>1. r \in DOMAIN reads /\ Waiting(r) /\ reads[r].fetch = f
    BY DEF Awaiting, Waiting
  <2>2. reads[r].key \in Keys /\ reads[r].key \in ks
    BY <1>1, <2>1 DEF ReadRecord, ks
  <2> QED BY <2>1, <2>2, <1>4 DEF ReadsInv, ReadsShape
<1>7. ASSUME NEW r \in DOMAIN reads
      PROVE  /\ reads'[r] \in ReadRecord
             /\ reads'[r].key = reads[r].key /\ reads'[r].follows = reads[r].follows
             /\ reads'[r].index = reads[r].index /\ reads'[r].fetch = reads[r].fetch
             /\ reads'[r].got = reads[r].got /\ reads'[r].floor = reads[r].floor
             /\ r # f => reads'[r].promise = reads[r].promise
             /\ r \notin Awaiting(f) => /\ reads'[r].phase = reads[r].phase
                                       /\ reads'[r].of = reads[r].of
                                       /\ reads'[r].more = reads[r].more
             /\ r \in Awaiting(f) =>
                  \/ /\ reads'[r].phase = "answered"
                     /\ reads'[r].of = pageSets'[reads[r].key]
                  \/ reads'[r].phase = "failed" /\ ~reads'[r].more
  <2>1. reads'[r] = next(r)
    BY <1>2
  <2>2. CASE r \in Awaiting(f)
    <3>1. reads'[r] = WithPage(settled(r), pageSets'[reads[r].key])
      BY <2>1, <2>2, <1>5
    <3>2. settled(r) \in ReadRecord /\ ~settled(r).more /\ pageSets'[reads[r].key] \in Nat
      BY <2>2, <1>5, <1>6
    <3> QED BY <2>2, <3>1, <3>2, <1>5, WithPageShape
  <2>3. CASE r \notin Awaiting(f)
    <3>1. reads'[r] = settled(r)
      BY <2>1, <2>3
    <3> QED BY <2>3, <3>1, <1>5
  <2> QED BY <2>2, <2>3
<1>8. reads' \in Seq(ReadRecord) /\ DOMAIN reads' = DOMAIN reads
  <2>1. reads' \in [DOMAIN reads -> ReadRecord]
    <3> HIDE DEF next
    <3> QED BY <1>2, <1>7
  <2> QED BY <2>1, SequenceOf DEF ReadsInv, ReadsShape
<1> HIDE DEF next, got
<1>9. Written' = Written
  BY <1>2 DEF Written
<1>10. ASSUME NEW r \in DOMAIN reads, Waiting(r)' PROVE Waiting(r) /\ r \notin Awaiting(f)
  BY <1>7, <1>10 DEF Waiting
<1>11. ReadsShape'
  <2>1. cursors' \in SUBSET (DOMAIN reads')
    BY <1>2, <1>6, <1>8 DEF ReadsInv, ReadsShape
  <2>2. \A r \in (DOMAIN reads)' : reads'[r].index > 0 => reads'[r].follows \in (DOMAIN reads)'
    BY <1>7, <1>8 DEF ReadsInv, ReadsShape
  <2>3. \A r \in (DOMAIN reads)' : Waiting(r)' => ~reads'[r].more
    BY <1>7, <1>8, <1>10 DEF ReadsInv, ReadsShape
  <2> QED BY <1>2, <1>4, <1>8, <2>1, <2>2, <2>3 DEF ReadsInv, ReadsShape
<1>12. ASSUME ~raced
       PROVE  /\ \A k \in Keys : pageSets'[k] # NoPages => Covers(pageSets'[k])
              /\ Fresh'
  <2>1. Fresh
    BY <1>12 DEF ReadsInv
  <2>2. Awaiting(f) # {} => Covers(got)
    BY <2>1, <1>2, <1>6 DEF Fresh, got
  <2>3. \A k \in Keys : pageSets'[k] # NoPages => Covers(pageSets'[k])
    BY <2>1, <2>2, <1>4 DEF Fresh
  <2>4. cached # 0 /\ reads'[cached].promise \in {"served", "resolved"}
        => Covers(reads'[cached].got)
    <3>1. cached # 0 => cached \in DOMAIN reads
      BY DEF ReadsInv, ReadsShape
    <3> QED BY <3>1, <2>1, <1>2, <1>7 DEF Fresh
  <2> QED BY <2>1, <2>3, <2>4, <1>2, <1>7, <1>8, <1>9, <1>10 DEF Fresh, Covers
<1>13. ASSUME ~raced, NEW r \in Awaiting(f), reads'[r].phase = "answered"
       PROVE  /\ reads'[r].of >= reads'[r].floor
              /\ reads[r].index > 0
                 => /\ reads[r].follows \in cursors /\ reads[r].follows \in DOMAIN reads
                    /\ reads[reads[r].follows].of = reads'[r].of
  <2>1. Fresh /\ Continued /\ cursors \subseteq DOMAIN reads
    BY <1>13 DEF ReadsInv, ReadsShape
  <2>2. reads'[r].of = pageSets'[reads[r].key] /\ reads'[r].floor = reads[r].floor
    BY <1>6, <1>7, <1>13
  <2>3. reads[r].floor \in Written \cup {0}
    BY <2>1, <1>6 DEF Fresh
  <2>4. reads'[r].of >= reads'[r].floor
    BY <2>2, <2>3, <1>6, <1>12, <1>13, CoversFloor
  <2>5. ASSUME reads[r].index > 0
        PROVE  /\ reads[r].follows \in cursors
               /\ reads[reads[r].follows].of = pageSets[reads[r].key]
               /\ pageSets[reads[r].key] # NoPages
    BY <2>1, <2>5, <1>6 DEF Continued
  <2> QED BY <2>1, <2>2, <2>4, <2>5, <1>4, <1>6
<1>14. ASSUME ~raced PROVE Continued'
  <2>1. Continued /\ cursors \subseteq DOMAIN reads
    BY <1>14 DEF ReadsInv, ReadsShape
  <2>2. ASSUME NEW c \in cursors'
        PROVE  /\ reads'[c].phase = "answered"
               /\ pageSets'[reads'[c].key] # NoPages
               /\ reads'[c].of = pageSets'[reads'[c].key]
    <3>1. CASE c \in cursors
      <4>1. /\ c \in DOMAIN reads /\ reads[c].phase = "answered" /\ c \notin Awaiting(f)
            /\ pageSets[reads[c].key] # NoPages /\ reads[c].of = pageSets[reads[c].key]
        BY <2>1, <3>1, <1>6 DEF Continued, Waiting
      <4>2. reads[c].key \in Keys
        BY <4>1, <1>1 DEF ReadRecord
      <4> QED BY <4>1, <4>2, <1>4, <1>7
    <3>2. CASE c \in Awaiting(f) /\ reads'[c].more
      BY <3>2, <1>6, <1>7
    <3> QED BY <3>1, <3>2, <1>2
  <2>3. ASSUME NEW r \in DOMAIN reads, Waiting(r)', reads'[r].index > 0
        PROVE  reads'[r].follows \in cursors' /\ reads'[reads'[r].follows].key = reads'[r].key
    <3>1. reads[r].follows \in cursors /\ reads[reads[r].follows].key = reads[r].key
      BY <2>1, <2>3, <1>7, <1>10 DEF Continued
    <3> QED BY <3>1, <2>1, <1>2, <1>7
  <2>4. ASSUME NEW r \in DOMAIN reads, reads'[r].index > 0
        PROVE  reads'[reads'[r].follows].phase = "answered"
    <3>1. /\ reads[r].follows \in DOMAIN reads /\ reads[reads[r].follows].phase = "answered"
          /\ reads'[r].follows = reads[r].follows
      BY <2>1, <2>4, <1>7 DEF Continued, ReadsInv, ReadsShape
    <3> QED BY <3>1, <1>6, <1>7 DEF Waiting
  <2> QED BY <2>2, <2>3, <2>4, <1>8 DEF Continued
<1>15. ASSUME ~raced PROVE WriteInvalidatesSnapshot' /\ DocumentPagesOfOneSnapshot'
  <2>1. /\ WriteInvalidatesSnapshot /\ DocumentPagesOfOneSnapshot /\ Continued
        /\ \A r \in DOMAIN reads : reads[r].index > 0 => reads[r].follows \in DOMAIN reads
    BY <1>15 DEF ReadsInv, ReadsShape
  <2>2. ASSUME NEW r \in DOMAIN reads, reads'[r].phase = "answered"
        PROVE  reads'[r].of >= reads'[r].floor
    BY <2>1, <2>2, <1>7, <1>13, <1>15 DEF WriteInvalidatesSnapshot
  <2>3. ASSUME NEW r \in DOMAIN reads, reads[r].phase = "answered"
        PROVE  r \notin Awaiting(f) /\ reads'[r].of = reads[r].of
    BY <2>3, <1>6, <1>7 DEF Waiting
  <2>4. \A c \in cursors : reads[c].phase = "answered"
    BY <2>1 DEF Continued
  <2>5. ASSUME NEW r \in DOMAIN reads, reads'[r].phase = "answered", reads'[r].index > 0
        PROVE  reads'[reads'[r].follows].of = reads'[r].of
    <3>1. CASE r \in Awaiting(f)
      BY <3>1, <2>3, <2>4, <2>5, <1>7, <1>13, <1>15
    <3>2. CASE r \notin Awaiting(f)
      <4>1. reads[r].phase = "answered" /\ reads[r].index > 0 /\ reads'[r].of = reads[r].of
        BY <3>2, <2>5, <1>7
      <4>2. /\ reads[r].follows \in DOMAIN reads
            /\ reads[reads[r].follows].of = reads[r].of
            /\ reads[reads[r].follows].phase = "answered"
        BY <4>1, <2>1, <1>15 DEF DocumentPagesOfOneSnapshot, Continued
      <4> QED BY <4>1, <4>2, <2>3, <1>7
    <3> QED BY <3>1, <3>2
  <2> QED BY <2>2, <2>5, <1>2, <1>8, <1>15 DEF WriteInvalidatesSnapshot, DocumentPagesOfOneSnapshot
<1> QED BY <1>2, <1>11, <1>12, <1>14, <1>15 DEF ReadsInv

\* The invariant of the reads: what is kept of the document, and what a waiting read will
\* get, is as new as the writes reported before, unless a write returned during a fetch.
THEOREM ReadsInvariant == Spec => []ReadsInv
<1>1. Init => ReadsInv
  BY ReadsInit
<1>2. WritesInv /\ ReadsInv /\ [Next]_vars => ReadsInv'
  <2> SUFFICES ASSUME WritesInv, ReadsInv, [Next]_vars PROVE ReadsInv'
    OBVIOUS
  <2>1. CASE Write
    <3>1. UNCHANGED <<reads, cached, pageSets, cursors, raced>>
      BY <2>1 DEF Write
    <3>2. Written' = Written
      BY <2>1, WriteIssuedIsUnreported
    <3> QED BY <3>1, <3>2, ReadsKept
  <2>2. CASE \E k \in Keys, cursor \in 0 .. Len(reads) : Read(k, cursor)
    BY <2>2, ReadIssued
  <2>3. CASE \E f \in DOMAIN reads : FetchServed(f) \/ FetchResolves(f) \/ FetchRejects(f)
    BY <2>3, FetchServedKeeps, FetchResolvesKeeps, FetchRejectsKeeps
  <2>4. CASE \E w \in DOMAIN writes : WriteStep(w)
    BY <2>4, ReadsWriteStep
  <2>5. CASE Edit
    BY <2>5, ReadsKept DEF Edit, Written
  <2>6. CASE UNCHANGED documentVars
    BY <2>6, ReadsKept DEF documentVars, Written
  <2> QED BY <2>1, <2>2, <2>3, <2>4, <2>5, <2>6, DocumentSteps
<1> QED BY <1>1, <1>2, WritesInvariant, PTL DEF Spec

\* As long as no fetch was under way when a write returned, a read shows what this run
\* had written before it.
THEOREM ReadsSeeWrites == Spec => []ReadsOwnWrites
<1>1. ReadsInv => ReadsOwnWrites
  BY DEF ReadsInv, ReadsOwnWrites
<1> QED BY <1>1, ReadsInvariant, PTL

\* And the pages a cursor leads through are of one revision.
THEOREM DocumentsAreOneSnapshot == Spec => []DocumentPagesOfOneSnapshot
<1>1. ReadsInv => DocumentPagesOfOneSnapshot
  BY DEF ReadsInv, DocumentPagesOfOneSnapshot
<1> QED BY <1>1, ReadsInvariant, PTL

-------------------------------------------------------------------------------
(***************************************************************************)
(* The history of the group.                                               *)
(***************************************************************************)

EarlierRecord ==
  [cursor : Nat, phase : {"queued", "loading", "auditing"} \cup HistoryEnded,
   page : Nat, more : BOOLEAN]

\* The page of a call is settled: it has been asked for and will not be withdrawn.
Kept(c) == earlier[c].phase \notin {"queued", "loading"}

\* A call has the page after that of the call its cursor came with.
InSequence(c) ==
  earlier[c].page > 0 =>
    IF earlier[c].cursor = 0 THEN earlier[c].page = 2
    ELSE /\ earlier[c].cursor \in DOMAIN earlier /\ Kept(earlier[c].cursor)
         /\ earlier[c].page = earlier[earlier[c].cursor].page + 1

\* Where the traversal may go on: at the page after the last one asked for.
Ahead ==
  /\ traversal.kind = "first" => traversal.token \in {0, 2} /\ pageCalls = 1
  /\ traversal.kind = "opaque" => /\ traversal.cursor \in DOMAIN earlier
                                 /\ traversal.cursor # 0
                                 /\ Kept(traversal.cursor)
                                 /\ earlier[traversal.cursor].page = pageCalls
                                 /\ traversal.token = pageCalls + 1

\* Pages are asked for one at a time, each once, and only what is on record is shown.
Counted(c) ==
  /\ earlier[c].page <= pageCalls
  /\ earlier[c].phase = "queued" => earlier[c].page = 0
  /\ earlier[c].phase = "loading" => /\ earlier[c].page = pageCalls
                                    /\ traversal.kind = "exhausted"
  /\ earlier[c].phase = "answered" => earlier[c].page <= recorded

HistoryInv ==
  /\ earlier \in Seq(EarlierRecord)
  /\ pageCalls \in Nat /\ recorded \in Nat /\ pageCalls > 0 /\ recorded <= pageCalls
  /\ Ahead
  /\ \A c \in DOMAIN earlier : InSequence(c) /\ Counted(c)
  /\ \A c, d \in DOMAIN earlier :
       c # d /\ earlier[c].page > 0 => earlier[c].page # earlier[d].page

\* The start.
LEMMA HistoryInitial == Init => HistoryInv
<1> SUFFICES ASSUME Init PROVE HistoryInv
  OBVIOUS
<1>1. /\ earlier = <<>> /\ DOMAIN earlier = {} /\ pageCalls = 1 /\ recorded = 1
      /\ traversal.kind = "first" /\ traversal.token \in {0, Token(1)}
  BY DEF Init, HistoryInit
<1>2. Token(1) \in {0, 2}
  BY DEF Token
<1> QED BY <1>1, <1>2 DEF HistoryInv, Ahead

\* A step of call c that keeps the others.
LEMMA OneEarlier ==
  ASSUME HistoryInv, NEW c \in DOMAIN earlier, NEW call \in EarlierRecord,
         earlier' = [earlier EXCEPT ![c] = call],
         call.cursor = earlier[c].cursor,
         Kept(c) => call.phase \notin {"queued", "loading"} /\ call.page = earlier[c].page,
         pageCalls' \in Nat, recorded' \in Nat, pageCalls <= pageCalls',
         recorded <= recorded', recorded' <= pageCalls',
         call.page > 0 => \/ call.page = earlier[c].page
                          \/ /\ call.page > pageCalls
                             /\ IF call.cursor = 0 THEN call.page = 2
                                ELSE /\ call.cursor \in DOMAIN earlier /\ Kept(call.cursor)
                                     /\ call.page = earlier[call.cursor].page + 1,
         \A d \in DOMAIN earlier \ {c} : earlier[d].phase = "loading"
           => pageCalls' = pageCalls /\ traversal'.kind = "exhausted",
         Ahead', Counted(c)'
  PROVE  HistoryInv'
<1>1. /\ earlier' \in Seq(EarlierRecord) /\ DOMAIN earlier' = DOMAIN earlier
      /\ earlier'[c] = call /\ \A d \in DOMAIN earlier \ {c} : earlier'[d] = earlier[d]
      /\ \A d \in DOMAIN earlier : earlier[d] \in EarlierRecord
  BY DEF HistoryInv
<1>2. \A d \in DOMAIN earlier : earlier[d].page \in Nat /\ earlier[d].page <= pageCalls
  BY <1>1 DEF HistoryInv, Counted, EarlierRecord
<1>3. call.page \in Nat
  BY DEF EarlierRecord
<1>4. ASSUME NEW d \in DOMAIN earlier, Kept(d)
      PROVE  Kept(d)' /\ earlier'[d].page = earlier[d].page
  BY <1>1, <1>4 DEF Kept
<1>5. ASSUME NEW d \in DOMAIN earlier PROVE InSequence(d)'
  <2>1. CASE d # c
    BY <2>1, <1>1, <1>4 DEF HistoryInv, InSequence
  <2>2. CASE d = c
    BY <2>2, <1>1, <1>2, <1>3, <1>4 DEF HistoryInv, InSequence
  <2> QED BY <2>1, <2>2
<1>6. ASSUME NEW d \in DOMAIN earlier PROVE Counted(d)'
  <2>1. CASE d # c
    BY <2>1, <1>1, <1>2 DEF HistoryInv, Counted
  <2> QED BY <2>1
<1>7. ASSUME NEW d \in DOMAIN earlier, NEW e \in DOMAIN earlier, d # e, earlier'[d].page > 0
      PROVE  earlier'[d].page # earlier'[e].page
  BY <1>1, <1>2, <1>3, <1>7 DEF HistoryInv
<1> QED BY <1>1, <1>5, <1>6, <1>7 DEF HistoryInv

\* A new call of the history has asked for nothing yet.
LEMMA HistoryIssued ==
  ASSUME HistoryInv, HistoryIssue
  PROVE  HistoryInv'
<1>1. PICK cursor \in {0} \cup {c \in DOMAIN earlier : earlier[c].more /\ earlier[c].phase = "answered"} :
        earlier' = Append(earlier, [cursor |-> cursor, phase |-> "queued", page |-> 0, more |-> FALSE])
  BY DEF HistoryIssue
<1> DEFINE new == [cursor |-> cursor, phase |-> "queued", page |-> 0, more |-> FALSE]
<1>0. PICK me : me = Len(earlier) + 1
  OBVIOUS
<1>2. UNCHANGED <<traversal, pageCalls, recorded>>
  BY DEF HistoryIssue
<1>3. new \in EarlierRecord /\ new.page = 0 /\ new.phase = "queued"
  BY DEF EarlierRecord, HistoryInv
<1> HIDE DEF new
<1>4. /\ earlier' \in Seq(EarlierRecord) /\ DOMAIN earlier' = DOMAIN earlier \cup {me}
      /\ earlier'[me] = new /\ \A c \in DOMAIN earlier : earlier'[c] = earlier[c] /\ c # me
  BY <1>0, <1>1, <1>3 DEF HistoryInv, new
<1>5. Ahead'
  BY <1>2, <1>4 DEF HistoryInv, Ahead, Kept
<1>6. ASSUME NEW c \in DOMAIN earlier PROVE InSequence(c)' /\ Counted(c)'
  BY <1>2, <1>4 DEF HistoryInv, InSequence, Counted, Kept
<1>7. InSequence(me)' /\ Counted(me)'
  <2>1. earlier'[me].page = 0 /\ earlier'[me].phase = "queued" /\ pageCalls' \in Nat
    BY <1>2, <1>3, <1>4 DEF HistoryInv
  <2> QED BY <2>1 DEF InSequence, Counted
<1>8. ASSUME NEW c \in DOMAIN earlier', NEW d \in DOMAIN earlier', c # d, earlier'[c].page > 0
      PROVE  earlier'[c].page # earlier'[d].page
  <2>1. c \in DOMAIN earlier
    BY <1>3, <1>4, <1>8
  <2>2. CASE d = me
    BY <2>2, <1>3, <1>4, <1>8
  <2>3. CASE d \in DOMAIN earlier
    BY <2>1, <2>3, <1>4, <1>8 DEF HistoryInv
  <2> QED BY <2>2, <2>3, <1>4
<1>9. \A c \in DOMAIN earlier' : InSequence(c)' /\ Counted(c)'
  BY <1>4, <1>6, <1>7
<1> QED BY <1>2, <1>4, <1>5, <1>8, <1>9 DEF HistoryInv

\* Every step of a call of the history keeps its invariant.
LEMMA HistoryCallKeeps ==
  ASSUME HistoryInv, NEW c \in DOMAIN earlier, HistoryCallStep(c)
  PROVE  HistoryInv'
<1> DEFINE call == earlier[c]
<1>1. /\ call \in EarlierRecord /\ Ahead /\ Counted(c)
      /\ pageCalls \in Nat /\ recorded \in Nat /\ recorded <= pageCalls /\ pageCalls > 0
      /\ \A d \in DOMAIN earlier : earlier[d].page \in Nat
  <2>1. \A d \in DOMAIN earlier : earlier[d] \in EarlierRecord
    BY DEF HistoryInv
  <2> QED BY <2>1 DEF HistoryInv, EarlierRecord
<1>2. \A d \in DOMAIN earlier \ {c} : earlier[d].phase = "loading"
        => call.phase # "loading" /\ traversal.kind = "exhausted"
  BY <1>1 DEF HistoryInv, Counted
<1> HIDE DEF call
<1>3. ASSUME NEW phase \in HistoryEnded, Move(c, phase), UNCHANGED <<traversal, pageCalls>>,
             recorded' \in {recorded, pageCalls},
             call.phase = "loading" => phase # "answered",
             phase = "answered" => recorded' = pageCalls
      PROVE  HistoryInv'
  <2> DEFINE next == [call EXCEPT !.phase = phase]
  <2>1. earlier' = [earlier EXCEPT ![c] = next]
    BY <1>3 DEF Move, call
  <2>2. /\ next \in EarlierRecord /\ next.cursor = call.cursor /\ next.page = call.page
        /\ next.phase = phase
    BY <1>1 DEF EarlierRecord
  <2> HIDE DEF next
  <2>3. earlier'[c] = next /\ \A d \in DOMAIN earlier : earlier'[d].page = earlier[d].page
    BY <2>1, <2>2 DEF HistoryInv, call
  <2>4. Counted(c)'
    BY <1>1, <1>3, <2>2, <2>3 DEF Counted, HistoryEnded, call
  <2>5. Ahead'
    BY <1>1, <1>3, <2>1, <2>2, <2>3 DEF Ahead, Kept, HistoryEnded, call
  <2>6. recorded <= recorded' /\ recorded' <= pageCalls /\ recorded' \in Nat /\ pageCalls <= pageCalls
    BY <1>1, <1>3
  <2> QED BY <1>1, <1>2, <1>3, <2>1, <2>2, <2>4, <2>5, <2>6, OneEarlier DEF HistoryEnded, call
<1>4. CASE ReadRefused(c)
  BY <1>3, <1>4 DEF ReadRefused, Turn, HistoryEnded, call
<1>5. CASE ReadAborted(c)
  BY <1>3, <1>5 DEF ReadAborted, HistoryEnded, call
<1>6. CASE Audited(c)
  BY <1>3, <1>6 DEF Audited, HistoryEnded, call
<1>7. CASE ReadBegins(c)
  <2>1. /\ call.phase = "queued" /\ call.page = 0 /\ traversal'.kind = "exhausted"
        /\ Expected(call.cursor) /\ recorded' = recorded
    BY <1>1, <1>7 DEF ReadBegins, Turn, Counted, Exhausted, call
  <2>2. \A d \in DOMAIN earlier \ {c} : earlier[d].phase # "loading"
    BY <1>2, <2>1 DEF Expected
  <2>5. ~Kept(c) /\ call.cursor = earlier[c].cursor
    BY <2>1 DEF Kept, call
  <2>3. CASE unavailable \/ traversal.token = 0
    <3> DEFINE next == [call EXCEPT !.phase = "auditing"]
    <3>1. earlier' = [earlier EXCEPT ![c] = next] /\ pageCalls' = pageCalls
      BY <1>7, <2>3 DEF ReadBegins, Move, call
    <3>2. /\ next \in EarlierRecord /\ next.cursor = call.cursor /\ next.page = 0
          /\ next.phase = "auditing"
      BY <1>1, <2>1 DEF EarlierRecord
    <3> HIDE DEF next
    <3>3. earlier'[c] = next
      BY <3>1
    <3>4. Counted(c)' /\ Ahead'
      BY <1>1, <2>1, <3>1, <3>2, <3>3 DEF Counted, Ahead
    <3>5. pageCalls <= pageCalls /\ recorded <= recorded /\ ~(next.page > 0)
      BY <1>1, <3>2
    <3> QED BY <1>1, <2>1, <2>2, <2>5, <3>1, <3>2, <3>4, <3>5, OneEarlier
  <2>4. CASE ~unavailable /\ traversal.token # 0
    <3> DEFINE next == [call EXCEPT !.phase = "loading", !.page = traversal.token]
    <3>1. earlier' = [earlier EXCEPT ![c] = next] /\ pageCalls' = pageCalls + 1
      BY <1>7, <2>4 DEF ReadBegins, call
    <3>2. traversal.token = pageCalls + 1 /\ pageCalls + 1 \in Nat
      BY <1>1, <2>1, <2>4 DEF Ahead, Expected
    <3>3. /\ next \in EarlierRecord /\ next.cursor = call.cursor /\ next.page = pageCalls + 1
          /\ next.phase = "loading"
      BY <1>1, <3>2 DEF EarlierRecord
    <3> HIDE DEF next
    <3>4. earlier'[c] = next
      BY <3>1
    <3>5. Counted(c)' /\ Ahead'
      BY <1>1, <2>1, <3>1, <3>3, <3>4 DEF Counted, Ahead
    <3>6. IF next.cursor = 0 THEN next.page = 2
          ELSE /\ next.cursor \in DOMAIN earlier /\ Kept(next.cursor)
               /\ next.page = earlier[next.cursor].page + 1
      BY <1>1, <2>1, <3>2, <3>3 DEF Ahead, Expected
    <3>7. /\ pageCalls + 1 \in Nat /\ pageCalls <= pageCalls + 1 /\ recorded <= recorded
          /\ recorded <= pageCalls + 1 /\ next.page > pageCalls
      BY <1>1, <3>3
    <3> QED BY <1>1, <2>1, <2>2, <2>5, <3>1, <3>3, <3>5, <3>6, <3>7, OneEarlier
  <2> QED BY <2>3, <2>4
<1>8. CASE PageLoaded(c)
  <2> DEFINE token == Token(call.page)
             next == [call EXCEPT !.phase = "auditing", !.more = (token # 0)]
  <2>1. /\ call.phase = "loading" /\ earlier' = [earlier EXCEPT ![c] = next]
        /\ UNCHANGED <<pageCalls, recorded>>
    BY <1>8 DEF PageLoaded, call
  <2>2. /\ traversal' = IF token # 0 THEN [kind |-> "opaque", cursor |-> c, token |-> token]
                        ELSE traversal
        /\ traversal.kind = "exhausted" /\ call.page = pageCalls
    BY <1>1, <1>8, <2>1 DEF PageLoaded, Counted, call
  <2>3. token # 0 => token = pageCalls + 1
    BY <2>2 DEF Token
  <2> HIDE DEF token
  <2>4. /\ next \in EarlierRecord /\ next.cursor = call.cursor /\ next.page = call.page
        /\ next.phase = "auditing"
    BY <1>1 DEF EarlierRecord
  <2> HIDE DEF next
  <2>5. earlier'[c] = next /\ DOMAIN earlier' = DOMAIN earlier
    BY <2>1
  <2>6. Counted(c)'
    BY <1>1, <2>1, <2>2, <2>4, <2>5 DEF Counted
  <2>7. Ahead'
    <3>1. c # 0
      BY DEF HistoryInv
    <3> QED BY <3>1, <2>1, <2>2, <2>3, <2>4, <2>5 DEF Ahead, Kept
  <2>8. \A d \in DOMAIN earlier \ {c} : earlier[d].phase # "loading"
    BY <1>2, <2>1
  <2>9. /\ ~Kept(c) /\ call.cursor = earlier[c].cursor /\ call.page = earlier[c].page
        /\ pageCalls <= pageCalls /\ recorded <= recorded
    BY <1>1, <2>1 DEF Kept, call
  <2> QED BY <1>1, <2>1, <2>4, <2>6, <2>7, <2>8, <2>9, OneEarlier
<1>9. CASE PageUnavailable(c)
  <2> DEFINE next == [call EXCEPT !.phase = "auditing", !.page = 0]
  <2>1. /\ call.phase = "loading" /\ earlier' = [earlier EXCEPT ![c] = next]
        /\ UNCHANGED <<traversal, pageCalls, recorded>>
    BY <1>9 DEF PageUnavailable, call
  <2>2. /\ next \in EarlierRecord /\ next.cursor = call.cursor /\ next.page = 0
        /\ next.phase = "auditing"
    BY <1>1 DEF EarlierRecord
  <2> HIDE DEF next
  <2>3. earlier'[c] = next
    BY <2>1
  <2>4. Counted(c)' /\ Ahead'
    BY <1>1, <2>1, <2>2, <2>3 DEF Counted, Ahead, call
  <2>5. \A d \in DOMAIN earlier \ {c} : earlier[d].phase # "loading"
    BY <1>2, <2>1
  <2>6. /\ ~Kept(c) /\ call.cursor = earlier[c].cursor
        /\ pageCalls <= pageCalls /\ recorded <= recorded /\ ~(next.page > 0)
    BY <1>1, <2>1, <2>2 DEF Kept, call
  <2> QED BY <1>1, <2>1, <2>2, <2>4, <2>5, <2>6, OneEarlier
<1> QED BY <1>4, <1>5, <1>6, <1>7, <1>8, <1>9 DEF HistoryCallStep

\* Nothing of the group's history is skipped or shown twice, and what is shown is on
\* record.
THEOREM HistoryMissesNothing == Spec => [](CursorNamesItsPage /\ ShownOnceOnRecord)
<1>1. Init => HistoryInv
  BY HistoryInitial
<1>2. HistoryInv /\ [Next]_vars => HistoryInv'
  <2> SUFFICES ASSUME HistoryInv, [Next]_vars PROVE HistoryInv'
    OBVIOUS
  <2>1. CASE HistoryIssue
    BY <2>1, HistoryIssued
  <2>2. CASE \E c \in DOMAIN earlier : HistoryCallStep(c)
    BY <2>2, HistoryCallKeeps
  <2>3. CASE UNCHANGED historyVars
    BY <2>3 DEF historyVars, HistoryInv, Ahead, InSequence, Counted, Kept
  <2> QED BY <2>1, <2>2, <2>3 DEF Next, History, HistoryStep, Abort, vars
<1>3. HistoryInv => CursorNamesItsPage /\ ShownOnceOnRecord
  BY DEF HistoryInv, CursorNamesItsPage, ShownOnceOnRecord, InSequence, Counted
<1> QED BY <1>1, <1>2, <1>3, PTL DEF Spec
-------------------------------------------------------------------------------
(***************************************************************************)
(* The meeting tools.  At most one of their calls is active, and a command *)
(* of its own exists only while it is awaited: whatever the active call    *)
(* does, the others rest.                                                  *)
(***************************************************************************)

Reading == {"associating", "choosing", "detail", "body"}
Active == {"people", "searching"} \cup Reading
AtCommand == {"people", "associating", "detail", "body"}

\* The calls go one after the other, and a cursor names an answered call of its kind.
CallsInv ==
  /\ meetings \in Seq(Call) /\ Len(meetings) <= MaxMeetingCalls
  /\ \A c, d \in DOMAIN meetings :
       d < c /\ meetings[c].phase # "queued" => meetings[d].phase \in Ended
  /\ \A c \in DOMAIN meetings :
       LET call == meetings[c] IN
       /\ call.phase \in {"people", "searching"} => call.op = "search"
       /\ call.phase \in Reading => call.op = "content"
       /\ call.phase \in {"detail", "body"} => call.attempts # <<>>
       /\ call.op = "content" => call.request \in Requests
       /\ call.more => call.phase = "answered"
       /\ call.cursor # 0 => /\ call.cursor \in DOMAIN meetings
                             /\ meetings[call.cursor].op = call.op
                             /\ meetings[call.cursor].more

\* Only the active call awaits a command of its own, and only the command it awaits
\* writes into a directory.
CommandsInv ==
  /\ command \in [Commands -> Command]
  /\ \A x \in Commands :
       /\ x[2] = "one" /\ command[x].phase # "idle" =>
            x[1] \in DOMAIN meetings /\ meetings[x[1]].phase \in AtCommand
       /\ command[x].writes => x[2] = "one" /\ directory = x[1]
  /\ directory # 0 => directory \in DOMAIN meetings /\ meetings[directory].phase = "body"

\* A snapshot is taken once, by a call that found none, and answers all calls after it.
SnapshotsInv ==
  /\ artifact \in Revision
  /\ snapshots \in [Requests -> Revision \cup {NoContent}]
  /\ \A c \in DOMAIN meetings :
       LET call == meetings[c] IN
       call.op = "content" =>
         /\ call.phase \in Reading => snapshots[call.request] = NoContent
         /\ call.phase = "answered" => call.of = snapshots[call.request] /\ call.of \in Revision
         /\ call.phase = "answered" /\ call.index > 0 =>
              call.cursor # 0 /\ meetings[call.cursor].request = call.request

\* An answered search has returned every window up to the page it fetched, and all pages
\* of a window it no longer asks.
Reached(call, w) == IF call.page[w] = 0 THEN ResultPages[w] ELSE call.page[w]
Complete(call) ==
  /\ \A w \in Windows : call.page[w] <= ResultPages[w]
  /\ \A w \in Windows, p \in Nat : <<w, p>> \in call.seen <=> p >= 1 /\ p <= Reached(call, w)
  /\ call.more <=> \E w \in Windows : call.page[w] # 0 /\ call.page[w] < ResultPages[w]

SearchInv ==
  \A c \in DOMAIN meetings : meetings[c].op = "search" =>
    /\ meetings[c].phase = "searching" => meetings[c].page = Pages(c)
    /\ meetings[c].phase = "answered" => Complete(meetings[c])

MeetingsInv == CallsInv /\ CommandsInv /\ SnapshotsInv /\ SearchInv

\* The start.
LEMMA MeetingsInitial == Init => MeetingsInv
<1> SUFFICES ASSUME Init PROVE MeetingsInv
  OBVIOUS
<1>1. /\ meetings = <<>> /\ DOMAIN meetings = {} /\ artifact = 1 /\ directory = 0
      /\ snapshots = [q \in Requests |-> NoContent] /\ command = [c \in Commands |-> Idle]
  BY DEF Init, MeetingsInit, RunnerInit
<1>2. CallsInv
  BY <1>1, MeetingsAssumption DEF CallsInv, MeetingsAssumption
<1>3. Idle \in Command /\ Idle.phase = "idle" /\ ~Idle.writes
  BY DEF Idle, Command, Reasons, Answers
<1>4. CommandsInv
  BY <1>1, <1>3 DEF CommandsInv
<1>5. SnapshotsInv
  BY <1>1, MeetingsAssumption DEF SnapshotsInv, Revision, MeetingsAssumption
<1>6. SearchInv
  BY <1>1 DEF SearchInv
<1> QED BY <1>2, <1>4, <1>5, <1>6 DEF MeetingsInv

\* What commands that start, and results that are used, leave of the commands.
LEMMA Started ==
  ASSUME command \in [Commands -> Command], NEW cs \in SUBSET Commands, NEW dirs \in SUBSET cs,
         NEW taken \in SUBSET Commands, Start(cs, dirs, taken)
  PROVE  /\ command' \in [Commands -> Command]
         /\ \A x \in Commands :
              /\ x \in cs /\ command'[x].writes => x \in dirs
              /\ x \notin cs => command'[x] = IF x \in taken THEN Idle ELSE command[x]
<1>1. PICK failing \in SUBSET cs :
        command' = [c \in Commands |->
          IF c \in failing THEN Settled("spawn_failed")
          ELSE IF c \in cs
            THEN IF aborted THEN onAbort(Spawned(c \in dirs)) ELSE Spawned(c \in dirs)
            ELSE IF c \in taken THEN Idle ELSE command[c]]
  BY DEF Start
<1>2. Idle \in Command
  BY DEF Idle, Command, Reasons, Answers
<1>3. Settled("spawn_failed") \in Command /\ ~Settled("spawn_failed").writes
  BY <1>2 DEF Settled, Idle, Command
<1>4. ASSUME NEW b \in BOOLEAN
      PROVE  /\ Spawned(b) \in Command /\ Spawned(b).writes = b
             /\ onAbort(Spawned(b)) \in Command /\ onAbort(Spawned(b)).writes = b
  BY DEF Spawned, Idle, Command, onAbort, Reasons, Uncut
<1>5. \A x \in Commands : (x \in dirs) \in BOOLEAN
  OBVIOUS
<1>6. command' \in [Commands -> Command]
  BY <1>1, <1>2, <1>3, <1>4, <1>5
<1> QED BY <1>1, <1>3, <1>4, <1>5, <1>6

\* While call c is the first that has not ended, or has begun, the others rest.
LEMMA Alone ==
  ASSUME CallsInv, NEW c \in DOMAIN meetings, AtHead(c) \/ meetings[c].phase \in Active,
         NEW d \in DOMAIN meetings, d # c
  PROVE  meetings[d].phase \notin Active /\ (d < c => meetings[d].phase \in Ended)
<1>1. c \in Nat /\ d \in Nat /\ c >= 1 /\ d >= 1
  BY DEF CallsInv
<1>2. meetings[c].phase \notin Ended
  BY DEF AtHead, Active, Reading, Ended
<1>3. CASE d < c
  <2>1. meetings[d].phase \in Ended
    BY <1>1, <1>3 DEF CallsInv, AtHead, Active, Reading
  <2> QED BY <2>1, <1>1, <1>3 DEF Active, Reading, Ended
<1>4. CASE c < d
  <2>1. meetings[d].phase = "queued"
    BY <1>2, <1>4 DEF CallsInv
  <2> QED BY <1>1, <1>4, <2>1 DEF Active, Reading
<1> QED BY <1>1, <1>3, <1>4

\* What every step of a call has in common: call c becomes call, its results are used, and
\* it has commands started in slots, one of them perhaps with a directory.
Moves(c, call, slots, dirs) ==
  /\ AtHead(c) \/ meetings[c].phase \in Active
  /\ meetings[c].phase \in AtCommand => Done(c)
  /\ Set(c, call) /\ StartFor(c, slots, dirs)
  /\ slots \subseteq Slots /\ dirs \subseteq slots \cap {"one"}
  /\ "one" \in slots => call.phase \in AtCommand
  /\ dirs # {} => call.phase = "body"
  /\ directory' = IF dirs = {} THEN 0 ELSE c
  /\ call \in Call
  /\ call.op = meetings[c].op /\ call.cursor = meetings[c].cursor
  /\ call.request = meetings[c].request
  /\ call.phase \in IF call.op = "search" THEN {"people", "searching"} \cup Ended
                    ELSE Reading \cup Ended
  /\ call.phase \in {"detail", "body"} => call.attempts # <<>>
  /\ call.more => call.phase = "answered"

\* Such a step keeps the order of the calls.
LEMMA MovesKeepCalls ==
  ASSUME CallsInv, NEW c \in DOMAIN meetings, NEW call, NEW slots, NEW dirs,
         Moves(c, call, slots, dirs)
  PROVE  CallsInv'
<1>1. /\ meetings' \in Seq(Call) /\ Len(meetings') = Len(meetings) /\ DOMAIN meetings' = DOMAIN meetings
      /\ meetings'[c] = call /\ \A d \in DOMAIN meetings : d # c => meetings'[d] = meetings[d]
  BY DEF CallsInv, Moves, Set
<1>2. meetings[c].phase \notin Ended /\ ~meetings[c].more
  BY DEF Moves, AtHead, Active, Reading, Ended, CallsInv
<1>3. ASSUME NEW d \in DOMAIN meetings, NEW e \in DOMAIN meetings, e < d, meetings'[d].phase # "queued"
      PROVE  meetings'[e].phase \in Ended
  <2>1. CASE d = c
    <3>1. e # c
      BY <1>3, <2>1 DEF CallsInv
    <3> QED BY <1>1, <1>3, <2>1, <3>1, Alone DEF Moves
  <2>2. CASE d # c
    BY <1>1, <1>2, <1>3, <2>2 DEF CallsInv
  <2> QED BY <2>1, <2>2
<1>4. ASSUME NEW d \in DOMAIN meetings
      PROVE  LET a == meetings'[d] IN
             /\ a.phase \in {"people", "searching"} => a.op = "search"
             /\ a.phase \in Reading => a.op = "content"
             /\ a.phase \in {"detail", "body"} => a.attempts # <<>>
             /\ a.op = "content" => a.request \in Requests
             /\ a.more => a.phase = "answered"
             /\ a.cursor # 0 => /\ a.cursor \in DOMAIN meetings
                                /\ meetings'[a.cursor].op = a.op
                                /\ meetings'[a.cursor].more
  <2>1. \A e \in DOMAIN meetings : meetings[e].more => meetings'[e] = meetings[e]
    BY <1>1, <1>2
  <2>2. CASE d = c
    <3>1. call.op \in {"search", "content"}
      BY DEF Moves, Call
    <3> QED BY <1>1, <2>1, <2>2, <3>1 DEF Moves, CallsInv, Reading, Ended
  <2>3. CASE d # c
    BY <1>1, <2>1, <2>3 DEF CallsInv
  <2> QED BY <2>2, <2>3
<1> QED BY <1>1, <1>3, <1>4 DEF CallsInv

\* It keeps the commands with the calls that await them.
LEMMA MovesKeepCommands ==
  ASSUME CallsInv, CommandsInv, NEW c \in DOMAIN meetings, NEW call, NEW slots, NEW dirs,
         Moves(c, call, slots, dirs)
  PROVE  CommandsInv'
<1>1. /\ DOMAIN meetings' = DOMAIN meetings
      /\ meetings'[c] = call /\ \A d \in DOMAIN meetings : d # c => meetings'[d] = meetings[d]
  BY DEF CallsInv, Moves, Set
<1>2. c \in 1 .. MaxMeetingCalls /\ c # 0
  BY MeetingsAssumption DEF CallsInv, MeetingsAssumption
<1>3. Commands = (1 .. MaxMeetingCalls) \X Slots /\ "one" \in Slots
  BY MeetingsAssumption DEF MeetingsAssumption, Slots
<1> DEFINE cs == {<<c, s>> : s \in slots}
           ds == {<<c, s>> : s \in dirs}
<1>4. cs \in SUBSET Commands /\ ds \in SUBSET cs /\ Results(c) \in SUBSET Commands /\ Start(cs, ds, Results(c))
  BY <1>2, <1>3 DEF Moves, StartFor, Results
<1>5. /\ command' \in [Commands -> Command]
      /\ \A x \in Commands :
           /\ x \in cs /\ command'[x].writes => x \in ds
           /\ x \notin cs => command'[x] = IF x \in Results(c) THEN Idle ELSE command[x]
  <2> HIDE DEF cs, ds
  <2> QED BY <1>4, Started DEF CommandsInv
<1>6. Idle.phase = "idle" /\ ~Idle.writes
  BY DEF Idle
<1>7. ASSUME NEW x \in Commands, x[2] = "one", command'[x].phase # "idle"
      PROVE  x[1] \in DOMAIN meetings /\ meetings'[x[1]].phase \in AtCommand
  <2>0. x = <<x[1], "one">>
    BY <1>3, <1>7
  <2>1. CASE x \in cs
    <3>1. x[1] = c /\ "one" \in slots
      BY <1>7, <2>1
    <3> QED BY <1>1, <3>1 DEF Moves
  <2>2. CASE x \notin cs
    <3>1. x \notin Results(c) /\ command[x].phase # "idle"
      BY <1>5, <1>6, <1>7, <2>2
    <3>2. x[1] \in DOMAIN meetings /\ meetings[x[1]].phase \in AtCommand
      BY <1>7, <3>1 DEF CommandsInv
    <3>3. x[1] # c
      BY <2>0, <3>1, <3>2 DEF Moves, Done, One, Results
    <3> QED BY <1>1, <3>2, <3>3
  <2> QED BY <2>1, <2>2
<1>8. directory # 0 => directory = c
  BY <1>2, Alone DEF Moves, CommandsInv, Active, Reading
<1>9. ASSUME NEW x \in Commands, command'[x].writes
      PROVE  x[2] = "one" /\ directory' = x[1]
  <2>1. CASE x \in cs
    <3>1. x \in ds
      BY <1>5, <1>9, <2>1
    <3> QED BY <3>1 DEF Moves
  <2>2. CASE x \notin cs
    <3>1. x \notin Results(c) /\ command[x].writes /\ command'[x] = command[x]
      BY <1>5, <1>6, <1>9, <2>2
    <3>2. x[2] = "one" /\ directory = x[1] /\ x = <<x[1], "one">>
      BY <1>3, <3>1 DEF CommandsInv
    <3>3. x[1] = c
      BY <1>2, <1>3, <1>8, <3>2
    <3>4. meetings[c].phase = "body"
      BY <1>2, <3>2, <3>3 DEF CommandsInv
    <3>5. command[x].phase = "settled"
      BY <3>2, <3>3, <3>4 DEF Moves, AtCommand, Done, One
    <3> QED BY <3>1, <3>3, <3>5 DEF Results
  <2> QED BY <2>1, <2>2
<1>10. directory' # 0 => directory' \in DOMAIN meetings /\ meetings'[directory'].phase = "body"
  BY <1>1 DEF Moves
<1> QED BY <1>1, <1>5, <1>7, <1>9, <1>10 DEF CommandsInv
\* What such a step says of the snapshots, and of a search.
KeepsSnapshots(call) ==
  /\ artifact' = artifact
  /\ \/ snapshots' = snapshots
     \/ /\ snapshots[call.request] = NoContent
        /\ snapshots' = [snapshots EXCEPT ![call.request] = artifact]
  /\ call.op = "content" =>
       /\ call.phase \in Reading => snapshots'[call.request] = NoContent
       /\ call.phase = "answered" => call.of = snapshots'[call.request] /\ call.of \in Revision
       /\ call.phase = "answered" /\ call.index > 0 =>
            call.cursor # 0 /\ meetings[call.cursor].request = call.request

Searches(c, call) ==
  call.op = "search" =>
    /\ call.phase = "searching" => call.page = Pages(c)
    /\ call.phase = "answered" => Complete(call)

\* Then it keeps the snapshots: a call that reads has found none, and no other reads.
LEMMA MovesKeepSnapshots ==
  ASSUME CallsInv, SnapshotsInv, NEW c \in DOMAIN meetings, NEW call, NEW slots, NEW dirs,
         Moves(c, call, slots, dirs), KeepsSnapshots(call)
  PROVE  SnapshotsInv'
<1>1. /\ DOMAIN meetings' = DOMAIN meetings
      /\ meetings'[c] = call /\ \A d \in DOMAIN meetings : d # c => meetings'[d] = meetings[d]
  BY DEF CallsInv, Moves, Set
<1>2. /\ snapshots' \in [Requests -> Revision \cup {NoContent}]
      /\ \A q \in Requests : snapshots[q] # NoContent => snapshots'[q] = snapshots[q]
  BY DEF KeepsSnapshots, SnapshotsInv
<1>3. NoContent \notin Revision
  BY MeetingsAssumption DEF MeetingsAssumption, Revision
<1>4. \A e \in DOMAIN meetings : meetings'[e].request = meetings[e].request
  BY <1>1 DEF Moves
<1>5. ASSUME NEW d \in DOMAIN meetings, meetings'[d].op = "content"
      PROVE  LET a == meetings'[d] IN
             /\ a.phase \in Reading => snapshots'[a.request] = NoContent
             /\ a.phase = "answered" => a.of = snapshots'[a.request] /\ a.of \in Revision
             /\ a.phase = "answered" /\ a.index > 0 =>
                  a.cursor # 0 /\ meetings'[a.cursor].request = a.request
  <2>1. meetings[d].op = "content" /\ meetings[d].request \in Requests
    BY <1>1, <1>5 DEF Moves, CallsInv
  <2>2. meetings'[d].cursor = meetings[d].cursor
    BY <1>1 DEF Moves
  <2>3. meetings[d].cursor # 0 =>
          meetings'[meetings[d].cursor].request = meetings[meetings[d].cursor].request
    BY <1>4 DEF CallsInv
  <2>4. CASE d = c
    BY <1>1, <1>5, <2>2, <2>3, <2>4 DEF KeepsSnapshots
  <2>5. CASE d # c
    <3>1. meetings[d].phase \notin Reading
      BY <2>5, Alone DEF Moves, Active
    <3> QED BY <1>1, <1>2, <1>3, <2>1, <2>2, <2>3, <2>5, <3>1 DEF SnapshotsInv
  <2> QED BY <2>4, <2>5
<1>6. artifact' \in Revision
  BY DEF KeepsSnapshots, SnapshotsInv
<1> QED BY <1>1, <1>2, <1>5, <1>6 DEF SnapshotsInv

\* And the searches: the call a cursor names is answered and stays as it is.
LEMMA MovesKeepSearches ==
  ASSUME CallsInv, SearchInv, NEW c \in DOMAIN meetings, NEW call, NEW slots, NEW dirs,
         Moves(c, call, slots, dirs), Searches(c, call)
  PROVE  SearchInv'
<1>1. /\ DOMAIN meetings' = DOMAIN meetings
      /\ meetings'[c] = call /\ \A d \in DOMAIN meetings : d # c => meetings'[d] = meetings[d]
  BY DEF CallsInv, Moves, Set
<1>2. ~meetings[c].more
  BY DEF Moves, AtHead, Active, Reading, CallsInv
<1>3. ASSUME NEW d \in DOMAIN meetings PROVE Pages(d)' = Pages(d)
  <2>1. meetings'[d].cursor = meetings[d].cursor
    BY <1>1 DEF Moves
  <2>2. meetings[d].cursor # 0 => meetings'[meetings[d].cursor] = meetings[meetings[d].cursor]
    BY <1>1, <1>2 DEF CallsInv
  <2> QED BY <2>1, <2>2 DEF Pages
<1>4. ASSUME NEW d \in DOMAIN meetings, meetings'[d].op = "search"
      PROVE  /\ meetings'[d].phase = "searching" => meetings'[d].page = Pages(d)
             /\ meetings'[d].phase = "answered" => Complete(meetings'[d])
  BY <1>1, <1>4 DEF SearchInv, Searches
<1> QED BY <1>1, <1>3, <1>4 DEF SearchInv, Complete, Reached

\* The directory, if there is one, belongs to the active call.
LEMMA OwnDirectory ==
  ASSUME CallsInv, CommandsInv, NEW c \in DOMAIN meetings, AtHead(c) \/ meetings[c].phase \in Active
  PROVE  directory \in {0, c} /\ (meetings[c].phase # "body" => directory = 0)
  BY Alone DEF CommandsInv, Active, Reading

\* A call's record with another phase, and with other attempts.
LEMMA OtherPhase ==
  ASSUME CallsInv, NEW c \in DOMAIN meetings,
         NEW phase \in {"queued"} \cup Active \cup Ended
  PROVE  LET call == [meetings[c] EXCEPT !.phase = phase] IN
         /\ call \in Call /\ call.phase = phase
         /\ call.op = meetings[c].op /\ call.cursor = meetings[c].cursor
         /\ call.request = meetings[c].request /\ call.attempts = meetings[c].attempts
         /\ call.more = meetings[c].more
<1>1. meetings[c] \in Call
  BY DEF CallsInv
<1> QED BY <1>1 DEF Call, Active, Reading

\* Choosing other attempts changes nothing else of the call.
LEMMA OtherAttempts ==
  ASSUME CallsInv, NEW c \in DOMAIN meetings, NEW attempts \in Seq(Kinds)
  PROVE  LET call == Choosing(c, attempts) IN
         /\ call \in Call /\ call.phase = "choosing"
         /\ call.op = meetings[c].op /\ call.cursor = meetings[c].cursor
         /\ call.request = meetings[c].request /\ call.more = meetings[c].more
<1>1. meetings[c] \in Call
  BY DEF CallsInv
<1> QED BY <1>1 DEF Choosing, Call

\* The attempts of a request are artifacts, whatever the meeting is associated with.
LEMMA AttemptsAreKinds ==
  ASSUME NEW q \in Requests, NEW note \in BOOLEAN, NEW minute \in BOOLEAN
  PROVE  Attempts(Input[q], note, minute) \in Seq(Kinds)
<1>1. Input[q].kind \in {"auto", "summary", "todos", "chapters", "transcript"}
  BY MeetingsAssumption DEF MeetingsAssumption
<1>2. ASSUME NEW kind \in Kinds, NEW p \in BOOLEAN
      PROVE  (IF p THEN <<kind>> ELSE <<>>) \in Seq(Kinds)
  BY <1>2
<1>3. /\ SmartSummary \in Kinds /\ MinuteSummary \in Kinds /\ SmartTodos \in Kinds /\ MinuteTodos \in Kinds
      /\ Chapters \in Kinds /\ SmartTranscript \in Kinds /\ MinuteTranscript \in Kinds
  BY DEF Kinds, Smart
<1>4. \A s, t \in Seq(Kinds) : s \o t \in Seq(Kinds)
  OBVIOUS
<1> DEFINE smart(kind) == IF note /\ Input[q].preference # "minute" THEN <<kind>> ELSE <<>>
           own(kind) == IF minute /\ Input[q].preference # "smart_note" THEN <<kind>> ELSE <<>>
<1>5. \A kind \in Kinds : smart(kind) \in Seq(Kinds) /\ own(kind) \in Seq(Kinds)
  BY <1>2
<1> HIDE DEF smart, own
<1>6. Attempts(Input[q], note, minute) =
        CASE Input[q].kind = "auto" -> (smart(SmartSummary) \o own(MinuteSummary)) \o (smart(SmartTranscript) \o own(MinuteTranscript))
          [] Input[q].kind = "summary" -> smart(SmartSummary) \o own(MinuteSummary)
          [] Input[q].kind = "transcript" -> smart(SmartTranscript) \o own(MinuteTranscript)
          [] Input[q].kind = "todos" -> smart(SmartTodos) \o own(MinuteTodos)
          [] Input[q].kind = "chapters" -> own(Chapters)
  BY DEF Attempts, smart, own
<1> QED BY <1>1, <1>3, <1>4, <1>5, <1>6

\* The step of a call, as the invariant sees it.
Steps(c) ==
  \E call, slots, dirs : Moves(c, call, slots, dirs) /\ KeepsSnapshots(call) /\ Searches(c, call)

Steppable(c) ==
  /\ AtHead(c) \/ meetings[c].phase \in Active
  /\ meetings[c].phase \in AtCommand => Done(c)

\* A call that goes on without an answer, with the command it will await or with none.
LEMMA GoesOn ==
  ASSUME CallsInv, CommandsInv, SnapshotsInv, NEW c \in DOMAIN meetings, Steppable(c),
         NEW call \in Call, NEW slots \in {{}, {"one"}}, NEW dirs \in SUBSET slots,
         Set(c, call), StartFor(c, slots, dirs),
         call.op = meetings[c].op, call.cursor = meetings[c].cursor,
         call.request = meetings[c].request, call.more = meetings[c].more,
         call.phase \in IF call.op = "search" THEN {"people", "clarify", "failed"}
                        ELSE Reading \cup {"failed"},
         call.phase \in {"detail", "body"} => call.attempts # <<>>,
         slots # {} => call.phase \in AtCommand,
         dirs # {} => call.phase = "body",
         directory' = IF dirs = {} THEN 0 ELSE c,
         UNCHANGED <<snapshots, artifact>>,
         call.phase \in Reading => meetings[c].phase \in Reading \/ snapshots[call.request] = NoContent
  PROVE  Steps(c)
<1>1. ~call.more
  BY DEF Steppable, AtHead, Active, Reading, CallsInv
<1>2. slots \subseteq Slots /\ dirs \subseteq slots \cap {"one"}
  BY DEF Slots
<1>3. Moves(c, call, slots, dirs)
  BY <1>1, <1>2 DEF Moves, Steppable, Ended
<1>4. call.op = "content" => meetings[c].op = "content"
  OBVIOUS
<1>5. KeepsSnapshots(call)
  BY <1>4 DEF KeepsSnapshots, SnapshotsInv, Reading
<1>6. Searches(c, call)
  BY DEF Searches
<1> QED BY <1>3, <1>5, <1>6 DEF Steps

\* It ends without an answer.
LEMMA EndsUnanswered ==
  ASSUME CallsInv, CommandsInv, SnapshotsInv, NEW c \in DOMAIN meetings, Steppable(c),
         NEW phase \in {"clarify", "failed"}, phase = "clarify" => meetings[c].op = "search",
         Set(c, [meetings[c] EXCEPT !.phase = phase]), Goes(c),
         directory' = 0, UNCHANGED <<snapshots, artifact>>
  PROVE  Steps(c)
<1> DEFINE call == [meetings[c] EXCEPT !.phase = phase]
<1>1. /\ call \in Call /\ call.phase = phase
      /\ call.op = meetings[c].op /\ call.cursor = meetings[c].cursor
      /\ call.request = meetings[c].request /\ call.attempts = meetings[c].attempts
      /\ call.more = meetings[c].more
  BY OtherPhase DEF Ended
<1>2. StartFor(c, {}, {}) /\ Set(c, call)
  BY DEF Goes
<1> HIDE DEF call
<1>3. phase \notin Reading /\ phase \notin {"detail", "body"}
  BY DEF Reading
<1> QED BY <1>1, <1>2, <1>3, GoesOn

\* End() from any phase but the one with the directory.
LEMMA EndSteps ==
  ASSUME CallsInv, CommandsInv, SnapshotsInv, NEW c \in DOMAIN meetings, Steppable(c),
         NEW phase \in {"clarify", "failed"}, phase = "clarify" => meetings[c].op = "search",
         End(c, phase), meetings[c].phase # "body"
  PROVE  Steps(c)
<1>1. directory' = 0
  BY OwnDirectory DEF End, Quiet, Steppable
<1> QED BY <1>1, EndsUnanswered DEF End, Quiet

\* It chooses among attempts.
LEMMA ChoosingSteps ==
  ASSUME CallsInv, CommandsInv, SnapshotsInv, NEW c \in DOMAIN meetings, Steppable(c),
         meetings[c].op = "content", NEW attempts \in Seq(Kinds),
         Set(c, Choosing(c, attempts)), Goes(c), directory' = 0, UNCHANGED <<snapshots, artifact>>,
         meetings[c].phase \in Reading \/ snapshots[meetings[c].request] = NoContent
  PROVE  Steps(c)
<1> DEFINE call == Choosing(c, attempts)
<1>1. /\ call \in Call /\ call.phase = "choosing"
      /\ call.op = meetings[c].op /\ call.cursor = meetings[c].cursor
      /\ call.request = meetings[c].request /\ call.more = meetings[c].more
  BY OtherAttempts
<1>2. StartFor(c, {}, {}) /\ Set(c, call)
  BY DEF Goes
<1> HIDE DEF call
<1>3. "choosing" \in Reading
  BY DEF Reading
<1> QED BY <1>1, <1>2, <1>3, GoesOn

\* It asks for the next artifact, or reads the body of the one at hand.
LEMMA NextSteps ==
  ASSUME CallsInv, CommandsInv, SnapshotsInv, NEW c \in DOMAIN meetings, Steppable(c),
         meetings[c].phase \in {"choosing", "detail", "body"}, meetings[c].attempts # <<>>,
         Set(c, Next1(c)), Goes(c), directory' = 0, UNCHANGED <<snapshots, artifact>>
  PROVE  Steps(c)
<1>1. meetings[c] \in Call /\ meetings[c].op = "content" /\ meetings[c].phase \in Reading
  BY DEF CallsInv, Reading
<1>2. Tail(meetings[c].attempts) \in Seq(Kinds)
  BY <1>1 DEF Call
<1> QED BY <1>1, <1>2, ChoosingSteps DEF Next1

\* Reading a body, or going on to the next attempt, is a step of the active call alone.
LEMMA BodySteps ==
  ASSUME CallsInv, CommandsInv, SnapshotsInv, NEW c \in DOMAIN meetings, Steppable(c),
         meetings[c].phase \in {"choosing", "detail"}, meetings[c].attempts # <<>>,
         NEW inDirectory \in BOOLEAN, ReadBody(c, inDirectory)
  PROVE  Steps(c)
<1>1. directory = 0
  BY OwnDirectory DEF Steppable
<1>2. CASE Set(c, Next1(c)) /\ Goes(c) /\ UNCHANGED directory
  BY <1>1, <1>2, NextSteps DEF ReadBody
<1>3. CASE /\ Set(c, [meetings[c] EXCEPT !.phase = "body"])
           /\ StartFor(c, {"one"}, IF inDirectory THEN {"one"} ELSE {})
           /\ directory' = IF inDirectory THEN c ELSE directory
  <2> DEFINE call == [meetings[c] EXCEPT !.phase = "body"]
  <2>1. /\ call \in Call /\ call.phase = "body"
        /\ call.op = meetings[c].op /\ call.cursor = meetings[c].cursor
        /\ call.request = meetings[c].request /\ call.attempts = meetings[c].attempts
        /\ call.more = meetings[c].more
    BY OtherPhase DEF Active, Reading
  <2> HIDE DEF call
  <2>2. meetings[c].op = "content" /\ meetings[c].phase \in Reading /\ "body" \in Reading /\ "body" \in AtCommand
    BY DEF CallsInv, Reading, AtCommand
  <2>3. UNCHANGED <<snapshots, artifact>> /\ Set(c, call)
    BY <1>3 DEF ReadBody, call
  <2> DEFINE dirs == IF inDirectory THEN {"one"} ELSE {}
  <2>4. dirs \in SUBSET {"one"} /\ directory' = IF dirs = {} THEN 0 ELSE c
    BY <1>1, <1>3
  <2>5. StartFor(c, {"one"}, dirs)
    BY <1>3
  <2> HIDE DEF dirs
  <2> QED BY <2>1, <2>2, <2>3, <2>4, <2>5, GoesOn
<1> QED BY <1>2, <1>3 DEF ReadBody

\* A search asks its windows.
LEMMA AskSteps ==
  ASSUME CallsInv, CommandsInv, SnapshotsInv, NEW c \in DOMAIN meetings, Steppable(c),
         meetings[c].op = "search", meetings[c].phase # "body", AskWindows(c)
  PROVE  Steps(c)
<1> DEFINE call == [meetings[c] EXCEPT !.phase = "searching", !.page = Pages(c)]
           slots == {w \in Windows : Pages(c)[w] # 0}
<1>1. \A d \in DOMAIN meetings : meetings[d] \in Call /\ meetings[d].page \in [Windows -> Nat]
  <2>1. \A d \in DOMAIN meetings : meetings[d] \in Call
    BY DEF CallsInv
  <2> QED BY <2>1 DEF Call
<1>2. Pages(c) \in [Windows -> Nat]
  <2>1. CASE meetings[c].cursor = 0
    BY <2>1 DEF Pages
  <2>2. CASE meetings[c].cursor # 0
    <3>1. meetings[meetings[c].cursor].page \in [Windows -> Nat]
      BY <1>1, <2>2 DEF CallsInv
    <3> QED BY <2>2, <3>1 DEF Pages
  <2> QED BY <2>1, <2>2
<1>3. /\ call \in Call /\ call.phase = "searching" /\ call.page = Pages(c)
      /\ call.op = meetings[c].op /\ call.cursor = meetings[c].cursor
      /\ call.request = meetings[c].request /\ call.more = meetings[c].more
  BY <1>1, <1>2 DEF Call
<1>4. Set(c, call) /\ StartFor(c, slots, {}) /\ UNCHANGED <<snapshots, artifact, directory>>
  BY DEF AskWindows, Quiet
<1>5. slots \subseteq Slots /\ "one" \notin slots
  BY MeetingsAssumption DEF Slots, MeetingsAssumption
<1> HIDE DEF call, slots
<1>6. ~call.more /\ directory = 0
  BY <1>3, OwnDirectory DEF Steppable, AtHead, Active, Reading, CallsInv
<1>7. Moves(c, call, slots, {})
  BY <1>3, <1>4, <1>5, <1>6 DEF Moves, Steppable
<1>8. KeepsSnapshots(call) /\ Searches(c, call)
  BY <1>3, <1>4 DEF KeepsSnapshots, Searches
<1> QED BY <1>7, <1>8 DEF Steps

\* It is answered once every window it asked is: it continues the search its cursor names.
LEMMA SearchEndsSteps ==
  ASSUME CallsInv, CommandsInv, SnapshotsInv, SearchInv, NEW c \in DOMAIN meetings, SearchEnds(c)
  PROVE  Steps(c)
<1> DEFINE before == IF meetings[c].cursor = 0 THEN {} ELSE meetings[meetings[c].cursor].seen
           seen == before \cup {<<w, meetings[c].page[w]>> : w \in Asked(c)}
           more == \E w \in Asked(c) : meetings[c].page[w] < ResultPages[w]
           call == [meetings[c] EXCEPT !.phase = "answered", !.seen = seen, !.more = more]
<1>1. \A d \in DOMAIN meetings :
        meetings[d] \in Call /\ meetings[d].page \in [Windows -> Nat] /\ meetings[d].seen \subseteq Windows \X Nat
  <2>1. \A d \in DOMAIN meetings : meetings[d] \in Call
    BY DEF CallsInv
  <2> QED BY <2>1 DEF Call
<1>2. meetings[c].phase = "searching" /\ meetings[c].op = "search" /\ meetings[c].page = Pages(c)
  BY DEF SearchEnds, CallsInv, SearchInv
<1>3. seen \subseteq Windows \X Nat /\ more \in BOOLEAN
  <2>1. before \subseteq Windows \X Nat
    BY <1>1 DEF CallsInv
  <2> QED BY <1>1, <2>1 DEF Asked
<1>4. Set(c, call) /\ Goes(c) /\ UNCHANGED <<snapshots, artifact, directory>>
  BY DEF SearchEnds
<1>5. /\ call \in Call /\ call.phase = "answered" /\ call.page = meetings[c].page
      /\ call.seen = seen /\ call.more = more
      /\ call.op = meetings[c].op /\ call.cursor = meetings[c].cursor
      /\ call.request = meetings[c].request
  <2> HIDE DEF seen, more
  <2> QED BY <1>1, <1>3 DEF Call, Ended
<1>6. ResultPages \in [Windows -> Nat \ {0}]
  BY MeetingsAssumption DEF MeetingsAssumption
<1>7. Complete(call)
  <2>1. call.more <=> \E w \in Windows : call.page[w] # 0 /\ call.page[w] < ResultPages[w]
    BY <1>5 DEF Asked
  <2>2. CASE meetings[c].cursor = 0
    <3>1. \A w \in Windows : call.page[w] = 1
      BY <1>2, <1>5, <2>2 DEF Pages
    <3>2. \A w \in Windows, p \in Nat : <<w, p>> \in call.seen <=> p = 1
      BY <1>5, <2>2, <3>1 DEF Asked
    <3> HIDE DEF call
    <3> QED BY <1>6, <2>1, <3>1, <3>2 DEF Complete, Reached
  <2>3. CASE meetings[c].cursor # 0
    <3> DEFINE last == meetings[meetings[c].cursor]
    <3>1. last \in Call /\ Complete(last) /\ last.page \in [Windows -> Nat]
      BY <1>1, <1>2, <2>3 DEF CallsInv, SearchInv
    <3>2. \A w \in Windows :
            call.page[w] = IF last.page[w] # 0 /\ last.page[w] < ResultPages[w] THEN last.page[w] + 1 ELSE 0
      BY <1>2, <1>5, <2>3 DEF Pages
    <3>3. \A w \in Windows, p \in Nat :
            <<w, p>> \in call.seen <=> <<w, p>> \in last.seen \/ (p = call.page[w] /\ p # 0)
      BY <1>5, <2>3 DEF Asked
    <3> HIDE DEF call, last
    <3>4. ASSUME NEW w \in Windows
          PROVE  /\ call.page[w] <= ResultPages[w]
                 /\ \A p \in Nat : <<w, p>> \in call.seen <=> p >= 1 /\ p <= Reached(call, w)
      <4>1. last.page[w] \in Nat /\ ResultPages[w] \in Nat /\ last.page[w] <= ResultPages[w]
        BY <1>6, <3>1 DEF Complete
      <4>2. \A p \in Nat : <<w, p>> \in last.seen <=> p >= 1 /\ p <= Reached(last, w)
        BY <3>1 DEF Complete
      <4> QED BY <3>2, <3>3, <4>1, <4>2 DEF Reached
    <3> QED BY <2>1, <3>4 DEF Complete
  <2> QED BY <2>2, <2>3
<1> HIDE DEF call
<1>8. Moves(c, call, {}, {})
  <2>1. directory = 0
    BY <1>2, OwnDirectory DEF Active
  <2> QED BY <1>2, <1>4, <1>5, <2>1 DEF Moves, Goes, Active, AtCommand, Ended
<1>9. KeepsSnapshots(call) /\ Searches(c, call)
  BY <1>2, <1>4, <1>5, <1>7 DEF KeepsSnapshots, Searches
<1> QED BY <1>8, <1>9 DEF Steps
\* A page of revision v answers it.
LEMMA ServedSteps ==
  ASSUME CallsInv, CommandsInv, SnapshotsInv, NEW c \in DOMAIN meetings, Steppable(c),
         meetings[c].op = "content", NEW v \in Revision,
         Set(c, Served(meetings[c], v)), Goes(c), directory' = 0, UNCHANGED artifact,
         \/ snapshots' = snapshots /\ snapshots[meetings[c].request] = v
         \/ /\ snapshots[meetings[c].request] = NoContent /\ v = artifact
            /\ snapshots' = [snapshots EXCEPT ![meetings[c].request] = artifact]
  PROVE  Steps(c)
<1> DEFINE index == IF meetings[c].cursor # 0 /\ meetings[meetings[c].cursor].request = meetings[c].request
                      THEN meetings[meetings[c].cursor].index + 1 ELSE 0
           more == index + 1 < ContentPages
           call == [meetings[c] EXCEPT !.phase = "answered", !.index = index, !.of = v, !.more = more]
<1>1. \A d \in DOMAIN meetings : meetings[d] \in Call /\ meetings[d].index \in Nat
  <2>1. \A d \in DOMAIN meetings : meetings[d] \in Call
    BY DEF CallsInv
  <2> QED BY <2>1 DEF Call
<1>2. index \in Nat /\ more \in BOOLEAN
  BY <1>1, MeetingsAssumption DEF CallsInv, MeetingsAssumption
<1>3. /\ call \in Call /\ call.phase = "answered" /\ call.index = index /\ call.of = v
      /\ call.op = "content" /\ call.cursor = meetings[c].cursor
      /\ call.request = meetings[c].request
  <2> HIDE DEF index, more
  <2> QED BY <1>1, <1>2 DEF Call, Ended
<1>4. Set(c, call)
  BY DEF Served
<1>5. index > 0 => meetings[c].cursor # 0 /\ meetings[meetings[c].cursor].request = meetings[c].request
  OBVIOUS
<1> HIDE DEF call, index, more
<1>6. Moves(c, call, {}, {})
  BY <1>1, <1>3, <1>4 DEF Moves, Goes, Steppable, Ended
<1>7. snapshots'[call.request] = v
  BY <1>3 DEF CallsInv, SnapshotsInv
<1>8. KeepsSnapshots(call) /\ Searches(c, call)
  BY <1>3, <1>5, <1>7 DEF KeepsSnapshots, Searches, Reading
<1> QED BY <1>6, <1>8 DEF Steps

\* A command of its own is asked.
LEMMA AwaitSteps ==
  ASSUME CallsInv, CommandsInv, SnapshotsInv, NEW c \in DOMAIN meetings, Steppable(c),
         meetings[c].phase # "body", NEW phase \in {"people", "associating", "detail"},
         meetings[c].op = IF phase = "people" THEN "search" ELSE "content",
         phase = "detail" => meetings[c].attempts # <<>>,
         phase # "people" => meetings[c].phase \in Reading \/ snapshots[meetings[c].request] = NoContent,
         Set(c, [meetings[c] EXCEPT !.phase = phase]), StartFor(c, {"one"}, {}), Quiet
  PROVE  Steps(c)
<1> DEFINE call == [meetings[c] EXCEPT !.phase = phase]
<1>1. /\ call \in Call /\ call.phase = phase
      /\ call.op = meetings[c].op /\ call.cursor = meetings[c].cursor
      /\ call.request = meetings[c].request /\ call.attempts = meetings[c].attempts
      /\ call.more = meetings[c].more
  BY OtherPhase DEF Active, Reading
<1>2. directory' = 0 /\ UNCHANGED <<snapshots, artifact>> /\ Set(c, call)
  BY OwnDirectory DEF Quiet, Steppable
<1> HIDE DEF call
<1>3. call.phase \in AtCommand /\ call.phase # "body"
      /\ call.phase \in IF call.op = "search" THEN {"people", "clarify", "failed"} ELSE Reading \cup {"failed"}
  BY <1>1 DEF AtCommand, Reading
<1>4. call.phase \in Reading => phase # "people"
  BY <1>1 DEF Reading
<1> QED BY <1>1, <1>2, <1>3, <1>4, GoesOn

\* Every step of a call is such a step.
LEMMA SearchSteps ==
  ASSUME CallsInv, CommandsInv, SnapshotsInv, SearchInv, NEW c \in DOMAIN meetings,
         SearchBegins(c) \/ PeopleResolved(c) \/ SearchEnds(c) \/ SearchFails(c)
  PROVE  Steps(c)
<1>1. CASE SearchBegins(c)
  <2>1. Steppable(c) /\ meetings[c].op = "search" /\ meetings[c].phase = "queued"
    BY <1>1 DEF SearchBegins, Steppable, AtHead, AtCommand
  <2> QED BY <1>1, <2>1, AskSteps, AwaitSteps DEF SearchBegins
<1>2. CASE PeopleResolved(c)
  <2>1. Steppable(c) /\ meetings[c].op = "search" /\ meetings[c].phase = "people"
    BY <1>2 DEF PeopleResolved, Steppable, Active, CallsInv
  <2> QED BY <1>2, <2>1, AskSteps, EndSteps DEF PeopleResolved
<1>3. CASE SearchFails(c)
  <2>1. Steppable(c) /\ meetings[c].phase = "searching"
    BY <1>3 DEF SearchFails, Steppable, Active, AtCommand
  <2> QED BY <1>3, <2>1, EndSteps DEF SearchFails
<1> QED BY <1>1, <1>2, <1>3, SearchEndsSteps

\* And so is every step of a content call.
LEMMA ContentSteps ==
  ASSUME CallsInv, CommandsInv, SnapshotsInv, NEW c \in DOMAIN meetings,
         \/ ContentBegins(c) \/ Associated(c) \/ AttemptBegins(c) \/ DetailRead(c)
         \/ BodyRead(c) \/ BodyFails(c)
  PROVE  Steps(c)
<1> DEFINE q == meetings[c].request
<1>0. meetings[c] \in Call /\ meetings[c].attempts \in Seq(Kinds)
  <2>1. meetings[c] \in Call
    BY DEF CallsInv
  <2> QED BY <2>1 DEF Call
<1>1. CASE ContentBegins(c)
  <2>1. /\ Steppable(c) /\ meetings[c].op = "content" /\ meetings[c].phase = "queued" /\ q \in Requests
    BY <1>1 DEF ContentBegins, Steppable, AtHead, AtCommand, CallsInv
  <2>2. CASE End(c, "failed")
    BY <2>1, <2>2, EndSteps
  <2>3. CASE snapshots[q] # NoContent /\ Set(c, Served(meetings[c], snapshots[q])) /\ Goes(c) /\ Quiet
    <3>1. snapshots[q] \in Revision
      BY <2>1, <2>3 DEF SnapshotsInv
    <3>2. directory' = 0 /\ UNCHANGED <<artifact, snapshots>>
      BY <2>1, <2>3, OwnDirectory DEF Quiet, Steppable
    <3> QED BY <2>1, <2>3, <3>1, <3>2, ServedSteps
  <2>4. CASE /\ snapshots[q] = NoContent /\ Quiet
             /\ IF Input[q].reference = "minute" /\ Input[q].preference = "minute"
                  THEN Set(c, Choosing(c, Attempts(Input[q], FALSE, TRUE))) /\ Goes(c)
                  ELSE Set(c, [meetings[c] EXCEPT !.phase = "associating"]) /\ StartFor(c, {"one"}, {})
    <3>1. directory' = 0 /\ UNCHANGED <<artifact, snapshots>>
      BY <2>1, <2>4, OwnDirectory DEF Quiet, Steppable
    <3>2. Attempts(Input[q], FALSE, TRUE) \in Seq(Kinds)
      BY <2>1, AttemptsAreKinds
    <3> QED BY <2>1, <2>4, <3>1, <3>2, ChoosingSteps, AwaitSteps
  <2> QED BY <1>1, <2>2, <2>3, <2>4 DEF ContentBegins
<1>2. CASE Associated(c)
  <2>1. /\ Steppable(c) /\ meetings[c].op = "content" /\ meetings[c].phase = "associating" /\ q \in Requests
    BY <1>2 DEF Associated, Steppable, Active, Reading, CallsInv
  <2>2. CASE End(c, "failed")
    BY <2>1, <2>2, EndSteps
  <2>3. CASE \E note, minute \in BOOLEAN :
               Set(c, Choosing(c, Attempts(Input[q], note, minute))) /\ Goes(c) /\ Quiet
    <3>1. PICK note \in BOOLEAN, minute \in BOOLEAN :
            Set(c, Choosing(c, Attempts(Input[q], note, minute))) /\ Goes(c) /\ Quiet
      BY <2>3
    <3>2. directory' = 0 /\ UNCHANGED <<artifact, snapshots>>
      BY <2>1, <3>1, OwnDirectory DEF Quiet, Steppable
    <3>3. Attempts(Input[q], note, minute) \in Seq(Kinds)
      BY <2>1, AttemptsAreKinds
    <3> QED BY <2>1, <3>1, <3>2, <3>3, ChoosingSteps DEF Reading
  <2> QED BY <1>2, <2>2, <2>3 DEF Associated
<1>3. CASE AttemptBegins(c)
  <2>1. /\ Steppable(c) /\ meetings[c].op = "content" /\ meetings[c].phase = "choosing"
    BY <1>3 DEF AttemptBegins, Steppable, Active, Reading, AtCommand, CallsInv
  <2>2. CASE meetings[c].attempts = <<>>
    BY <1>3, <2>1, <2>2, EndSteps DEF AttemptBegins
  <2>3. CASE meetings[c].attempts # <<>>
    <3>1. \/ ReadBody(c, Head(meetings[c].attempts) = MinuteTranscript)
          \/ Set(c, [meetings[c] EXCEPT !.phase = "detail"]) /\ StartFor(c, {"one"}, {}) /\ Quiet
      BY <1>3, <2>3 DEF AttemptBegins
    <3>2. (Head(meetings[c].attempts) = MinuteTranscript) \in BOOLEAN
      OBVIOUS
    <3> QED BY <2>1, <2>3, <3>1, <3>2, BodySteps, AwaitSteps DEF Reading
  <2> QED BY <2>2, <2>3
<1>4. CASE DetailRead(c)
  <2>1. /\ Steppable(c) /\ meetings[c].phase = "detail" /\ meetings[c].attempts # <<>>
    BY <1>4 DEF DetailRead, Steppable, Active, Reading, CallsInv
  <2>2. TryNext(c) \/ ReadBody(c, FALSE) \/ ReadBody(c, TRUE) \/ End(c, "failed")
    BY <1>4 DEF DetailRead
  <2>3. CASE TryNext(c)
    <3>1. directory' = 0 /\ UNCHANGED <<artifact, snapshots>>
      BY <2>1, <2>3, OwnDirectory DEF TryNext, Quiet, Steppable
    <3> QED BY <2>1, <2>3, <3>1, NextSteps DEF TryNext
  <2> QED BY <2>1, <2>2, <2>3, BodySteps, EndSteps
<1>5. CASE BodyRead(c)
  <2>1. /\ Steppable(c) /\ meetings[c].op = "content" /\ meetings[c].phase = "body"
        /\ meetings[c].attempts # <<>> /\ q \in Requests
    BY <1>5 DEF BodyRead, Steppable, Active, Reading, CallsInv
  <2>2. directory' = 0 /\ UNCHANGED artifact /\ Goes(c)
    BY <1>5, <2>1, OwnDirectory DEF BodyRead, Removed, Steppable
  <2>3. CASE Set(c, Next1(c)) /\ UNCHANGED snapshots
    BY <2>1, <2>2, <2>3, NextSteps
  <2>4. CASE /\ snapshots' = [snapshots EXCEPT ![q] = artifact]
             /\ Set(c, Served(meetings[c], artifact))
    <3>1. snapshots[q] = NoContent /\ artifact \in Revision
      BY <2>1 DEF SnapshotsInv, Reading
    <3> QED BY <2>1, <2>2, <2>4, <3>1, ServedSteps
  <2> QED BY <1>5, <2>3, <2>4 DEF BodyRead
<1>6. CASE BodyFails(c)
  <2>1. /\ Steppable(c) /\ meetings[c].op = "content" /\ meetings[c].phase = "body"
        /\ meetings[c].attempts # <<>>
    BY <1>6 DEF BodyFails, Steppable, Active, Reading, CallsInv
  <2>2. directory' = 0 /\ UNCHANGED <<snapshots, artifact>> /\ Goes(c)
    BY <1>6, <2>1, OwnDirectory DEF BodyFails, Removed, Steppable
  <2>3. Set(c, Next1(c)) \/ Set(c, [meetings[c] EXCEPT !.phase = "failed"])
    BY <1>6 DEF BodyFails
  <2> QED BY <2>1, <2>2, <2>3, NextSteps, EndsUnanswered
<1> QED BY <1>1, <1>2, <1>3, <1>4, <1>5, <1>6

\* The model issues a call.
LEMMA MeetingIssued ==
  ASSUME MeetingsInv, MeetingIssue
  PROVE  MeetingsInv'
<1> USE DEF MeetingsInv
<1>0. PICK op \in {"search", "content"}, request \in Requests \cup {NoContent} :
        /\ \E cursor \in Cursors(op) : meetings' = Append(meetings, NewCall(op, cursor, request))
        /\ op = "content" => request \in Requests
  BY DEF MeetingIssue
<1>1. PICK cursor \in Cursors(op) : meetings' = Append(meetings, NewCall(op, cursor, request))
  BY <1>0
<1>2. Len(meetings) < MaxMeetingCalls /\ UNCHANGED <<command, snapshots, artifact, directory>>
  BY DEF MeetingIssue
<1> DEFINE new == NewCall(op, cursor, request)
<1>3. PICK me : me = Len(meetings) + 1
  OBVIOUS
<1>4. cursor # 0 => cursor \in DOMAIN meetings /\ meetings[cursor].op = op /\ meetings[cursor].more
  BY DEF Cursors
<1>5. cursor \in Nat
  BY <1>4 DEF CallsInv
<1>6. /\ new \in Call /\ new.phase = "queued" /\ ~new.more /\ new.op = op
      /\ new.cursor = cursor /\ new.request = request
  <2>1. NoPage \in [Windows -> Nat] /\ <<>> \in Seq(Kinds)
    BY DEF NoPage
  <2> QED BY <1>5, <2>1 DEF NewCall, Call
<1> HIDE DEF new
<1>7. /\ meetings' \in Seq(Call) /\ Len(meetings') = me /\ DOMAIN meetings' = DOMAIN meetings \cup {me}
      /\ meetings'[me] = new /\ \A c \in DOMAIN meetings : meetings'[c] = meetings[c] /\ c # me /\ c < me
  BY <1>1, <1>3, <1>6 DEF CallsInv, new
<1>8. \A c \in DOMAIN meetings : meetings[c].cursor # 0 => meetings[c].cursor \in DOMAIN meetings
  BY DEF CallsInv
<1>9. CallsInv'
  <2>1. Len(meetings') <= MaxMeetingCalls
    BY <1>2, <1>3, <1>7, MeetingsAssumption DEF CallsInv, MeetingsAssumption
  <2>2. ASSUME NEW c \in DOMAIN meetings', NEW d \in DOMAIN meetings', d < c, meetings'[c].phase # "queued"
        PROVE  meetings'[d].phase \in Ended
    <3>1. c # me
      BY <1>6, <1>7, <2>2
    <3>2. c \in DOMAIN meetings /\ d # me
      BY <1>7, <2>2, <3>1 DEF CallsInv
    <3> QED BY <1>7, <2>2, <3>2 DEF CallsInv
  <2>3. ASSUME NEW c \in DOMAIN meetings'
        PROVE  LET call == meetings'[c] IN
               /\ call.phase \in {"people", "searching"} => call.op = "search"
               /\ call.phase \in Reading => call.op = "content"
               /\ call.phase \in {"detail", "body"} => call.attempts # <<>>
               /\ call.op = "content" => call.request \in Requests
               /\ call.more => call.phase = "answered"
               /\ call.cursor # 0 => /\ call.cursor \in DOMAIN meetings'
                                     /\ meetings'[call.cursor].op = call.op
                                     /\ meetings'[call.cursor].more
    <3>1. CASE c = me
      BY <1>0, <1>4, <1>6, <1>7, <3>1 DEF Reading
    <3>2. CASE c \in DOMAIN meetings
      BY <1>7, <3>2 DEF CallsInv
    <3> QED BY <1>7, <3>1, <3>2
  <2> QED BY <1>7, <2>1, <2>2, <2>3 DEF CallsInv
<1>10. CommandsInv'
  BY <1>2, <1>7 DEF CommandsInv
<1>11. SnapshotsInv'
  <2>1. ASSUME NEW c \in DOMAIN meetings', meetings'[c].op = "content"
        PROVE  LET call == meetings'[c] IN
               /\ call.phase \in Reading => snapshots[call.request] = NoContent
               /\ call.phase = "answered" => call.of = snapshots[call.request] /\ call.of \in Revision
               /\ call.phase = "answered" /\ call.index > 0 =>
                    call.cursor # 0 /\ meetings'[call.cursor].request = call.request
    <3>1. CASE c = me
      BY <1>6, <1>7, <3>1 DEF Reading
    <3>2. CASE c \in DOMAIN meetings
      BY <1>7, <1>8, <2>1, <3>2 DEF SnapshotsInv
    <3> QED BY <1>7, <3>1, <3>2
  <2> QED BY <1>2, <2>1 DEF SnapshotsInv
<1>12. SearchInv'
  <2>1. ASSUME NEW c \in DOMAIN meetings PROVE Pages(c)' = Pages(c)
    BY <1>7, <1>8 DEF Pages
  <2>2. ASSUME NEW c \in DOMAIN meetings', meetings'[c].op = "search"
        PROVE  /\ meetings'[c].phase = "searching" => meetings'[c].page = Pages(c)'
               /\ meetings'[c].phase = "answered" => Complete(meetings'[c])
    <3>1. CASE c = me
      BY <1>6, <1>7, <3>1
    <3>2. CASE c \in DOMAIN meetings
      BY <1>7, <2>1, <2>2, <3>2 DEF SearchInv
    <3> QED BY <1>7, <3>1, <3>2
  <2> QED BY <2>2 DEF SearchInv, Complete, Reached
<1> QED BY <1>9, <1>10, <1>11, <1>12

\* What the commands do by themselves: none becomes a command of another call.
LEMMA CommandsMove ==
  ASSUME MeetingsInv, UNCHANGED <<meetings, snapshots, artifact, directory>>,
         (\E x \in Commands : RunnerStep(x)) \/ CommandsAborted
  PROVE  MeetingsInv'
<1> USE DEF MeetingsInv
<1>1. \A x \in Commands : command[x] \in Command
  BY DEF CommandsInv
<1> DEFINE Fewer == /\ command' \in [Commands -> Command]
                    /\ \A x \in Commands : /\ command'[x].phase # "idle" => command[x].phase # "idle"
                                           /\ command'[x].writes => command[x].writes
<1>2. Fewer
  <2>1. ASSUME NEW x \in Commands, NEW y \in Command, Become(x, y), command[x].phase # "idle",
               y.writes => command[x].writes
        PROVE  Fewer
    BY <1>1, <2>1 DEF Become, CommandsInv
  <2>2. ASSUME NEW x \in Commands, RunnerStep(x)
        PROVE  \E y \in Command : Become(x, y) /\ command[x].phase # "idle" /\ (y.writes => command[x].writes)
    <3>1. CASE Terminate(x)
      <4> DEFINE y == [command[x] EXCEPT !.reason = "limit", !.killed = TRUE]
      <4>1. y \in Command /\ y.writes = command[x].writes
        BY <1>1 DEF Command, Reasons
      <4>2. Become(x, y) /\ command[x].phase # "idle"
        BY <3>1 DEF Terminate, Uncut, Live
      <4> QED BY <4>1, <4>2
    <3>2. CASE KillTimerFires(x)
      <4> DEFINE y == [command[x] EXCEPT !.killed = TRUE, !.killTimer = FALSE]
      <4>1. y \in Command /\ y.writes = command[x].writes
        BY <1>1 DEF Command
      <4>2. Become(x, y) /\ command[x].phase # "idle"
        BY <3>2 DEF KillTimerFires, Live
      <4> QED BY <4>1, <4>2
    <3>3. CASE Exit(x)
      <4> DEFINE y == [command[x] EXCEPT !.phase = "exited"]
      <4>1. y \in Command /\ y.writes = command[x].writes
        BY <1>1 DEF Command
      <4>2. Become(x, y) /\ command[x].phase # "idle"
        BY <3>3 DEF Exit
      <4> QED BY <4>1, <4>2
    <3>4. CASE Close(x)
      <4>1. PICK outcome \in Reasons \cup Answers : Become(x, Settled(outcome)) /\ command[x].phase = "exited"
        BY <1>1, <3>4 DEF Close, Command
      <4>2. Settled(outcome) \in Command /\ ~Settled(outcome).writes
        BY DEF Settled, Idle, Command
      <4> QED BY <4>1, <4>2
    <3> QED BY <2>2, <3>1, <3>2, <3>3, <3>4 DEF RunnerStep
  <2>3. ASSUME CommandsAborted
        PROVE  Fewer
    <3>1. ASSUME NEW x \in Command
          PROVE  onAbort(x) \in Command /\ onAbort(x).phase = x.phase /\ onAbort(x).writes = x.writes
      BY DEF onAbort, Uncut, Command, Reasons
    <3> QED BY <1>1, <2>3, <3>1 DEF CommandsAborted
  <2> QED BY <2>1, <2>2, <2>3
<1>3. CallsInv' /\ SnapshotsInv'
  BY DEF CallsInv, SnapshotsInv
<1>4. SearchInv'
  BY DEF SearchInv, Pages, Complete, Reached
<1>5. CommandsInv'
  BY <1>2 DEF CommandsInv
<1> QED BY <1>3, <1>4, <1>5
\* Every step of the run keeps the invariant of the meeting tools.
LEMMA MeetingsStep ==
  ASSUME MeetingsInv, [Next]_vars
  PROVE  MeetingsInv'
<1>1. CASE MeetingIssue
  BY <1>1, MeetingIssued
<1>2. ASSUME NEW c \in DOMAIN meetings, CallStep(c) PROVE MeetingsInv'
  <2>1. Steps(c)
    BY <1>2, SearchSteps, ContentSteps DEF CallStep, MeetingsInv
  <2>2. PICK call, slots, dirs :
          Moves(c, call, slots, dirs) /\ KeepsSnapshots(call) /\ Searches(c, call)
    BY <2>1 DEF Steps
  <2> QED BY <2>2, MovesKeepCalls, MovesKeepCommands, MovesKeepSnapshots, MovesKeepSearches
          DEF MeetingsInv
<1>3. ASSUME NEW x \in Commands, CommandStep(x) PROVE MeetingsInv'
  BY <1>3, CommandsMove DEF CommandStep
<1>4. CASE ArtifactChanges
  <2>1. UNCHANGED <<command, meetings, snapshots, directory>> /\ artifact' \in Revision
    BY <1>4, MeetingsAssumption
       DEF ArtifactChanges, MeetingsInv, SnapshotsInv, Revision, MeetingsAssumption
  <2> QED BY <2>1 DEF MeetingsInv, CallsInv, CommandsInv, SnapshotsInv, SearchInv, Pages, Complete, Reached
<1>5. CASE Abort
  BY <1>5, CommandsMove DEF Abort
<1>6. CASE UNCHANGED meetingVars
  <2>1. UNCHANGED <<command, meetings, snapshots, artifact, directory>>
    BY <1>6 DEF meetingVars
  <2> QED BY <2>1 DEF MeetingsInv, CallsInv, CommandsInv, SnapshotsInv, SearchInv, Pages, Complete, Reached
<1> QED BY <1>1, <1>2, <1>3, <1>4, <1>5, <1>6 DEF Next, Meetings, MeetingStep, vars

\* The invariant of the meeting tools holds in every state of a run.
THEOREM MeetingsInvariant == Spec => []MeetingsInv
<1>1. MeetingsInv /\ [Next]_vars => MeetingsInv'
  BY MeetingsStep
<1> QED BY <1>1, MeetingsInitial, PTL DEF Spec

\* The directory a transcript is written to outlives the process that writes it, and no
\* attempt (withDirectory in meeting-artifacts.ts, settled by the close of the child).
THEOREM DirectoriesOutliveWriters == Spec => []DirectoryOutlivesWriter
<1>1. MeetingsInv => DirectoryOutlivesWriter
  BY DEF MeetingsInv, CommandsInv, DirectoryOutlivesWriter
<1> QED BY <1>1, MeetingsInvariant, PTL

\* The pages of a document, and those of a meeting's content, that belong together are of
\* one snapshot, whatever changes in Feishu and in whatever order the calls go.
THEOREM PagesAreOneSnapshot == Spec => []PagesOfOneSnapshot
<1>1. MeetingsInv => ContentPagesOfOneSnapshot
  <2> SUFFICES ASSUME MeetingsInv, NEW c \in DOMAIN meetings,
                      meetings[c].op = "content", meetings[c].phase = "answered", meetings[c].index > 0
               PROVE  meetings[meetings[c].cursor].of = meetings[c].of
    BY DEF ContentPagesOfOneSnapshot
  <2> DEFINE d == meetings[c].cursor
  <2>1. /\ d # 0 /\ meetings[d].request = meetings[c].request
        /\ meetings[c].of = snapshots[meetings[c].request]
    BY DEF MeetingsInv, SnapshotsInv
  <2>2. d \in DOMAIN meetings /\ meetings[d].op = "content" /\ meetings[d].phase = "answered"
    BY <2>1 DEF MeetingsInv, CallsInv
  <2>3. meetings[d].of = snapshots[meetings[d].request]
    BY <2>2 DEF MeetingsInv, SnapshotsInv
  <2> QED BY <2>1, <2>3
<1> QED BY <1>1, MeetingsInvariant, DocumentsAreOneSnapshot, PTL DEF PagesOfOneSnapshot

\* Following the cursors of a meeting search to the end, and those of the group's history,
\* misses nothing and shows nothing twice, for any number of windows and pages.
THEOREM TraversalsAreComplete == Spec => []TraversalsMissNothing
<1>1. MeetingsInv => SearchReachesEverything
  <2> SUFFICES ASSUME MeetingsInv, NEW c \in DOMAIN meetings, meetings[c].op = "search",
                      meetings[c].phase = "answered", ~meetings[c].more
               PROVE  meetings[c].seen = UNION {{w} \X (1 .. ResultPages[w]) : w \in Windows}
    BY DEF SearchReachesEverything
  <2> DEFINE call == meetings[c]
  <2>1. Complete(call) /\ call \in Call
    BY DEF MeetingsInv, SearchInv, CallsInv
  <2>2. call.seen \subseteq Windows \X Nat /\ call.page \in [Windows -> Nat] /\ ~call.more
    BY <2>1 DEF Call
  <2> HIDE DEF call
  <2>3. ResultPages \in [Windows -> Nat \ {0}]
    BY MeetingsAssumption DEF MeetingsAssumption
  <2>4. ASSUME NEW w \in Windows PROVE Reached(call, w) = ResultPages[w]
    BY <2>1, <2>2, <2>3 DEF Complete, Reached
  <2>5. \A w \in Windows, p \in Nat : <<w, p>> \in call.seen <=> p \in 1 .. ResultPages[w]
    <3>1. SUFFICES ASSUME NEW w \in Windows, NEW p \in Nat
                   PROVE  <<w, p>> \in call.seen <=> p \in 1 .. ResultPages[w]
      OBVIOUS
    <3>2. ResultPages[w] \in Nat /\ Reached(call, w) = ResultPages[w]
      BY <2>3, <2>4
    <3>3. <<w, p>> \in call.seen <=> p >= 1 /\ p <= Reached(call, w)
      BY <2>1 DEF Complete
    <3> QED BY <3>2, <3>3
  <2>6. ASSUME NEW x \in call.seen PROVE x \in UNION {{w} \X (1 .. ResultPages[w]) : w \in Windows}
    <3>1. PICK w \in Windows, p \in Nat : x = <<w, p>>
      BY <2>2
    <3>2. p \in 1 .. ResultPages[w]
      BY <2>5, <3>1
    <3> QED BY <3>1, <3>2
  <2>7. ASSUME NEW x \in UNION {{w} \X (1 .. ResultPages[w]) : w \in Windows} PROVE x \in call.seen
    <3>1. PICK w \in Windows : x \in {w} \X (1 .. ResultPages[w])
      OBVIOUS
    <3>2. PICK p \in 1 .. ResultPages[w] : x = <<w, p>>
      BY <3>1
    <3>3. p \in Nat
      BY <2>3, <3>2
    <3> QED BY <2>5, <3>2, <3>3
  <2> QED BY <2>6, <2>7 DEF call
<1> QED BY <1>1, MeetingsInvariant, HistoryMissesNothing, PTL DEF TraversalsMissNothing

\* A call whose command was cut short, did not start or was not understood asks nothing
\* more: isArtifactLocalFailure lets only an error lark-cli answered with be passed over.
THEOREM TerminationEndsTheCall == Spec => TerminationIsNotRetried
<1>1. ASSUME MeetingsInv, [Next]_vars, NEW c \in DOMAIN meetings, Done(c),
             One(c).outcome \notin {"success", "cli_error"}
      PROVE  meetings'[c].phase \in {meetings[c].phase} \cup Ended
  <2>1. <<c, "one">> \in Commands
    <3>1. c \in 1 .. MaxMeetingCalls
      BY <1>1, MeetingsAssumption DEF MeetingsInv, CallsInv, MeetingsAssumption
    <3> QED BY <3>1, MeetingsAssumption DEF MeetingsAssumption, Slots
  <2>2. meetings[c].phase \in AtCommand
    BY <1>1, <2>1 DEF MeetingsInv, CommandsInv, Done, One
  <2>3. CASE meetings'[c] = meetings[c]
    BY <2>3
  <2>4. CASE MeetingIssue
    <3>1. PICK new : meetings' = Append(meetings, new)
      BY <2>4 DEF MeetingIssue
    <3>2. meetings'[c] = meetings[c]
      BY <3>1, <1>1 DEF MeetingsInv, CallsInv
    <3> QED BY <3>2
  <2>5. ASSUME NEW d \in DOMAIN meetings, CallStep(d), d # c
        PROVE  meetings'[c] = meetings[c]
    <3>1. Steps(d)
      BY <1>1, <2>5, SearchSteps, ContentSteps DEF CallStep, MeetingsInv
    <3> QED BY <2>5, <3>1 DEF Steps, Moves, Set
  <2>6. ASSUME NEW phase \in Ended, Set(c, [meetings[c] EXCEPT !.phase = phase])
        PROVE  meetings'[c].phase \in Ended
    <3>1. meetings'[c].phase = phase
      BY <1>1, <2>6, OtherPhase DEF Set, MeetingsInv
    <3> QED BY <3>1
  <2>7. CASE CallStep(c)
    <3>1. \/ PeopleResolved(c) \/ Associated(c) \/ DetailRead(c) \/ BodyRead(c) \/ BodyFails(c)
      BY <2>2, <2>7 DEF CallStep, AtCommand, SearchBegins, SearchEnds, SearchFails, ContentBegins,
                        AttemptBegins, AtHead
    <3>2. \E phase \in Ended : Set(c, [meetings[c] EXCEPT !.phase = phase])
      BY <1>1, <3>1 DEF PeopleResolved, Associated, DetailRead, BodyRead, BodyFails, ArtifactLocal,
                        End, Ended
    <3> QED BY <2>6, <3>2
  <2>8. CASE UNCHANGED meetings
    BY <2>8
  <2>9. \/ MeetingIssue \/ UNCHANGED meetings \/ \E d \in DOMAIN meetings : CallStep(d)
    BY <1>1 DEF Next, Meetings, MeetingStep, CommandStep, ArtifactChanges, Abort, vars, meetingVars
  <2> QED BY <2>3, <2>4, <2>5, <2>7, <2>8, <2>9
<1>2. MeetingsInv /\ [Next]_vars =>
        [\A c \in DOMAIN meetings :
           /\ Done(c)
           /\ One(c).outcome \notin {"success", "cli_error"}
           => meetings'[c].phase \in {meetings[c].phase} \cup Ended]_meetingVars
  BY <1>1
<1> QED BY <1>2, MeetingsInvariant, PTL DEF Spec, TerminationIsNotRetried
===============================================================================
