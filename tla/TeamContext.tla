------------------------------ MODULE TeamContext ------------------------------
(***************************************************************************)
(* The Team Context document: agent runs that load it at their start       *)
(* (src/src/team-context/source.ts), the one snapshot row they share       *)
(* (src/src/storage/team-context-store.ts), and the updates members        *)
(* approve, which go through patchDocument of the knowledge service        *)
(* (src/src/lark/knowledge-service.ts).  Members edit the document and     *)
(* change its permissions in Feishu meanwhile.                             *)
(*                                                                         *)
(* The content of a revision is told apart by its number and by whether it *)
(* fits the token budget.  The clock counts in units of the grace period,  *)
(* which is hours; a call of the CLI ends within 30 seconds, so no time    *)
(* passes during a fetch.  A missing document and a forbidden one take the *)
(* same path: both are "not readable".                                     *)
(***************************************************************************)
EXTENDS Naturals

CONSTANTS
  Loads,         \* loads that may be under way together
  Updates,       \* updates that may be under way together
  StaleMax,      \* staleMaxMs
  Horizon,       \* bound on the clock
  MaxRevision    \* bound on the revisions of the document

ASSUME TeamContextAssumption ==
  /\ StaleMax \in Nat
  /\ Horizon \in Nat
  /\ MaxRevision \in Nat \ {0}

VARIABLES
  now,
  document,    \* the live document in Feishu
  readable,    \* it exists and Minori may read and write it
  snapshot,    \* the row of team_context_snapshots
  load,        \* load[l]: where a load stands and what it fetched
  answer,      \* answer[l]: what its last load gave to the agent run
  update,      \* update[u]: where an update stands and the revision it read
  known        \* the latest revision answered as loaded since the last invalidation

vars == <<now, document, readable, snapshot, load, answer, update, known>>

Revisions == 0 .. MaxRevision

\* basis is the revision the author of a write had checked.
Document == [revision: Revisions, fits: BOOLEAN, by: {"member", "minori"}, basis: Revisions]

\* fetchedAt is the column fetched_at, seenAt the time the content was read in Feishu.
Snapshot == [revision: Revisions, fetchedAt: Nat, seenAt: Nat]
NoSnapshot == [revision |-> 0, fetchedAt |-> 0, seenAt |-> 0]
HasSnapshot == snapshot.revision # 0

LoadSteps == {"idle", "fetching", "accepting", "reload", "over_budget", "temporary", "denied"}
UpdateSteps == {"idle", "checked", "patching", "lost", "confirming", "denied"}
Statuses == {"none", "loaded", "stale", "over_budget", "unavailable"}

TypeOK ==
  /\ now \in 0 .. Horizon
  /\ document \in Document
  /\ readable \in BOOLEAN
  /\ snapshot \in Snapshot
  /\ load \in [Loads -> [at: LoadSteps, revision: Revisions, seenAt: Nat, floor: Revisions]]
  /\ answer \in [Loads -> [status: Statuses, revision: Revisions, age: Nat]]
  /\ update \in [Updates -> [at: UpdateSteps, revision: Revisions, base: Revisions]]
  /\ known \in Revisions

Unanswered == [status |-> "none", revision |-> 0, age |-> 0]
NoLoad == [at |-> "idle", revision |-> 0, seenAt |-> 0, floor |-> 0]
NoUpdate == [at |-> "idle", revision |-> 0, base |-> 0]

Init ==
  /\ now = 0
  /\ document = [revision |-> 1, fits |-> TRUE, by |-> "member", basis |-> 0]
  /\ readable \in BOOLEAN
  /\ snapshot = NoSnapshot
  /\ load = [l \in Loads |-> NoLoad]
  /\ answer = [l \in Loads |-> Unanswered]
  /\ update = [u \in Updates |-> NoUpdate]
  /\ known = 0

-------------------------------------------------------------------------------
\* Feishu.

Tick ==
  /\ now < Horizon
  /\ \A l \in Loads : load[l].at # "fetching"
  /\ now' = now + 1
  /\ UNCHANGED <<document, readable, snapshot, load, answer, update, known>>

MemberEdits ==
  /\ document.revision < MaxRevision
  /\ \E fits \in BOOLEAN :
       document' = [revision |-> document.revision + 1, fits |-> fits, by |-> "member",
                    basis |-> document.revision]
  /\ UNCHANGED <<now, readable, snapshot, load, answer, update, known>>

AccessChanges ==
  /\ readable' = ~readable
  /\ UNCHANGED <<now, document, snapshot, load, answer, update, known>>

-------------------------------------------------------------------------------
\* load

Goto(l, step) == load' = [load EXCEPT ![l].at = step]

\* The load is over; revision 0 stands for no content.
Answers(l, status, revision, age) ==
  /\ load' = [load EXCEPT ![l] = [NoLoad EXCEPT !.floor = load[l].floor]]
  /\ answer' = [answer EXCEPT ![l] = [status |-> status, revision |-> revision, age |-> age]]

BeginLoad(l) ==
  /\ load[l].at = "idle"
  /\ load' = [load EXCEPT ![l] = [NoLoad EXCEPT !.at = "fetching", !.floor = known]]
  /\ answer' = [answer EXCEPT ![l] = Unanswered]
  /\ UNCHANGED <<now, document, readable, snapshot, update, known>>

\* knowledge.fetchDocument returns or is refused.
Fetch(l) ==
  /\ load[l].at = "fetching"
  /\ load' = [load EXCEPT ![l].at = CASE ~readable -> "denied"
                                      [] readable /\ ~document.fits -> "over_budget"
                                      [] readable /\ document.fits -> "accepting",
                          ![l].revision = document.revision,
                          ![l].seenAt = now]
  /\ UNCHANGED <<now, document, readable, snapshot, answer, update, known>>

\* It fails: for a while, or in a way that is neither temporary nor a refusal.
FetchFails(l) ==
  /\ load[l].at = "fetching"
  /\ \/ Goto(l, "temporary") /\ UNCHANGED answer
     \/ Answers(l, "unavailable", 0, 0)
  /\ UNCHANGED <<now, document, readable, snapshot, update, known>>

\* The run is aborted, or a statement of the store fails: the load throws, or has
\* nothing to offer.  An accept under way may take effect (see Accept).
LoadFails(l) ==
  /\ load[l].at # "idle"
  /\ Answers(l, "none", 0, 0)
  /\ UNCHANGED <<now, document, readable, snapshot, update, known>>

Newer(revision) == IF known < revision THEN revision ELSE known

\* Faulty: the row takes whatever comes last.
AcceptLast(l) ==
  /\ load[l].at = "accepting"
  /\ snapshot' = [revision |-> load[l].revision, fetchedAt |-> load[l].seenAt,
                  seenAt |-> load[l].seenAt]
  /\ Answers(l, "loaded", load[l].revision, now - load[l].seenAt)
  /\ known' = Newer(load[l].revision)
  /\ UNCHANGED <<now, document, readable, update>>

\* Faulty: fetched_at is the time of the statement.
AcceptAsOfNow(l) ==
  /\ load[l].at = "accepting"
  /\ IF load[l].revision >= snapshot.revision
       THEN /\ snapshot' = [revision |-> load[l].revision, fetchedAt |-> now,
                            seenAt |-> load[l].seenAt]
            /\ Answers(l, "loaded", load[l].revision, now - load[l].seenAt)
            /\ known' = Newer(load[l].revision)
       ELSE Goto(l, "reload") /\ UNCHANGED <<snapshot, answer, known>>
  /\ UNCHANGED <<now, document, readable, update>>

\* store.accept: an older revision does not replace a newer one.
Accept(l) ==
  /\ load[l].at = "accepting"
  /\ IF load[l].revision >= snapshot.revision
       THEN /\ snapshot' = [revision |-> load[l].revision, fetchedAt |-> load[l].seenAt,
                            seenAt |-> load[l].seenAt]
            /\ Answers(l, "loaded", load[l].revision, now - load[l].seenAt)
            /\ known' = Newer(load[l].revision)
       ELSE Goto(l, "reload") /\ UNCHANGED <<snapshot, answer, known>>
  /\ UNCHANGED <<now, document, readable, update>>

\* team_context_snapshot_stale: the newer snapshot is loaded, unless it was
\* invalidated meanwhile.
Reload(l) ==
  /\ load[l].at = "reload"
  /\ IF HasSnapshot
       THEN /\ Answers(l, "loaded", snapshot.revision, now - snapshot.seenAt)
            /\ known' = Newer(snapshot.revision)
       ELSE Answers(l, "unavailable", 0, 0) /\ UNCHANGED known
  /\ UNCHANGED <<now, document, readable, snapshot, update>>

FromSnapshot(l, status) ==
  Answers(l, status, snapshot.revision, now - snapshot.seenAt)

WithinGrace == now - snapshot.fetchedAt <= StaleMax

\* fallback('stale')
FallBackStale(l) ==
  /\ load[l].at = "temporary"
  /\ IF HasSnapshot /\ WithinGrace
       THEN FromSnapshot(l, "stale")
       ELSE Answers(l, "unavailable", 0, 0)
  /\ UNCHANGED <<now, document, readable, snapshot, update, known>>

\* fallback('over_budget') takes a snapshot of any age, or none.
FallBackOverBudget(l) ==
  /\ load[l].at = "over_budget"
  /\ FromSnapshot(l, "over_budget")
  /\ UNCHANGED <<now, document, readable, snapshot, update, known>>

-------------------------------------------------------------------------------
\* invalidate: the row keeps no content, and nothing that was known counts any more: the
\* document that becomes readable again may be another.

Invalidates ==
  /\ snapshot' = NoSnapshot
  /\ known' = 0

Late(loads) == [l \in Loads |-> [loads[l] EXCEPT !.floor = 0]]

LoadInvalidates(l) ==
  /\ load[l].at = "denied"
  /\ Invalidates
  /\ load' = Late([load EXCEPT ![l] = NoLoad])
  /\ answer' = [answer EXCEPT ![l] = [Unanswered EXCEPT !.status = "unavailable"]]
  /\ UNCHANGED <<now, document, readable, update>>

-------------------------------------------------------------------------------
\* update

GotoUpdate(u, step) == update' = [update EXCEPT ![u].at = step]

EndsUpdate(u) == update' = [update EXCEPT ![u] = NoUpdate]

UpdateInvalidates(u) ==
  /\ update[u].at = "denied"
  /\ Invalidates
  /\ load' = Late(load)
  /\ EndsUpdate(u)
  /\ UNCHANGED <<now, document, readable, answer>>

\* The first fetch, and the checks of the pattern, the approval and the budget on what
\* it returned.  An update they refuse ends without a trace (UpdateFails).
UpdateReads(u) ==
  /\ update[u].at = "idle"
  /\ update' = [update EXCEPT ![u] =
       [at |-> IF readable THEN "checked" ELSE "denied", revision |-> document.revision,
        base |-> 0]]
  /\ UNCHANGED <<now, document, readable, snapshot, load, answer, known>>

\* patchDocument fetches again and finds the revision it may write on.
FindsBase(u, allowed) ==
  /\ update[u].at = "checked"
  /\ CASE ~readable -> GotoUpdate(u, "denied")
       [] readable /\ allowed -> update' = [update EXCEPT ![u].at = "patching",
                                                         ![u].base = document.revision]
       [] readable /\ ~allowed -> EndsUpdate(u)
  /\ UNCHANGED <<now, document, readable, snapshot, load, answer, known>>

\* Faulty: the caller's expectedRevision is not compared.
PatchReadsAgain(u) == FindsBase(u, TRUE)

PatchReads(u) == FindsBase(u, document.revision = update[u].revision)

\* docs.patch in Feishu applies to the revision named in the call and to no other; a
\* call whose caller has gone may still arrive.  The checks spoke of the revision they
\* had read, so only on that one is the outcome known to fit the budget.
PatchLands(u) ==
  /\ update[u].at \in {"patching", "lost"} /\ readable
  /\ document.revision = update[u].base
  /\ document.revision < MaxRevision
  /\ \E fits \in BOOLEAN :
       /\ update[u].revision = document.revision => fits
       /\ document' = [revision |-> document.revision + 1, fits |-> fits, by |-> "minori",
                       basis |-> update[u].revision]
  /\ IF update[u].at = "patching" THEN GotoUpdate(u, "confirming") ELSE EndsUpdate(u)
  /\ UNCHANGED <<now, readable, snapshot, load, answer, known>>

\* The revision is gone: KnowledgeWriteConflict.
PatchConflicts(u) ==
  /\ update[u].at \in {"patching", "lost"} /\ readable
  /\ document.revision # update[u].base
  /\ EndsUpdate(u)
  /\ UNCHANGED <<now, document, readable, snapshot, load, answer, known>>

\* The document is gone, or Minori may not write it any more.
PatchRefused(u) ==
  /\ update[u].at \in {"patching", "lost"} /\ ~readable
  /\ IF update[u].at = "patching" THEN GotoUpdate(u, "denied") ELSE EndsUpdate(u)
  /\ UNCHANGED <<now, document, readable, snapshot, load, answer, known>>

\* writeResult reads the document back.
Confirm(u) ==
  /\ update[u].at = "confirming"
  /\ IF readable THEN EndsUpdate(u) ELSE GotoUpdate(u, "denied")
  /\ UNCHANGED <<now, document, readable, snapshot, load, answer, known>>

\* A check refuses the update, a call fails, or the run is aborted.  A patch that has
\* been sent may still be on its way.
UpdateFails(u) ==
  /\ update[u].at \notin {"idle", "lost"}
  /\ IF update[u].at = "patching" THEN GotoUpdate(u, "lost") ELSE EndsUpdate(u)
  /\ UNCHANGED <<now, document, readable, snapshot, load, answer, known>>

-------------------------------------------------------------------------------

LoadStep(l) ==
  \/ BeginLoad(l) \/ Fetch(l) \/ FetchFails(l) \/ LoadFails(l)
  \/ Accept(l) \/ Reload(l)
  \/ FallBackStale(l) \/ FallBackOverBudget(l) \/ LoadInvalidates(l)

UpdateStep(u) ==
  \/ UpdateReads(u) \/ PatchReads(u) \/ PatchLands(u) \/ PatchConflicts(u)
  \/ PatchRefused(u) \/ Confirm(u) \/ UpdateInvalidates(u) \/ UpdateFails(u)

Next ==
  \/ Tick \/ MemberEdits \/ AccessChanges
  \/ \E l \in Loads : LoadStep(l)
  \/ \E u \in Updates : UpdateStep(u)

Spec == Init /\ [][Next]_vars

-------------------------------------------------------------------------------
\* Properties

\* An agent run never gets an older Team Context than one that some run had got before
\* this one began to load, whatever the order in which the loads that overlap finish:
\* accept() does not let an older revision replace a newer one, and the load that loses
\* takes the newer one.  An observed denial starts afresh.
AnswersDoNotRegress ==
  \A l \in Loads :
    load[l].at = "idle" /\ answer[l].revision # 0 => answer[l].revision >= load[l].floor

\* Content offered as stale was read in Feishu no longer than the grace period ago,
\* however long the load that stored it took between its fetch and its accept().
StaleWithinGrace ==
  \A l \in Loads : answer[l].status = "stale" => answer[l].age <= StaleMax

\* The document as Minori wrote it is the revision that was checked, changed by nothing
\* but that write, and it fits the budget: neither an edit of a member between the two
\* fetches of an update or behind them, nor another update, nor a patch that arrives
\* after its run has ended slips under the checks of the pattern, the approval and the
\* budget.
WritesApplyToWhatWasRead ==
  document.by = "minori" => document.basis = document.revision - 1 /\ document.fits

===============================================================================
