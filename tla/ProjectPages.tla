---------------------------- MODULE ProjectPages ----------------------------
(***************************************************************************)
(* The pages of one project at the service engine: create_page_snapshot,   *)
(* update_page_snapshot and delete_page of modules/projects/service.py,    *)
(* with delete_project and restore_project.                                *)
(*                                                                         *)
(* Each request is a READ COMMITTED transaction.  Everyone locks the       *)
(* project row before writing, with SELECT ... FOR UPDATE; the requests    *)
(* that name a page lock the row of the page first, because the query that *)
(* loads it joins pages and projects in this order.  Deleting a page also  *)
(* writes the rows of the pages behind it, and purging a project those of  *)
(* all its pages, so they wait for whoever holds one of them.  Whoever     *)
(* waits in a circle is refused by the database.                           *)
(*                                                                         *)
(* What a transaction does from its last wait to its commit is one step.   *)
(***************************************************************************)
EXTENDS Integers, FiniteSets

CONSTANTS
  Pages,      \* page ids (ULIDs made by the clients)
  Contents,   \* contents of a snapshot
  Drafts,     \* those a page is created with
  Requests,   \* requests that may be in progress at the same time
  NoPage      \* not a page

ASSUME PagesAssumption ==
  /\ IsFiniteSet(Pages) /\ NoPage \notin Pages
  /\ Drafts # {} /\ Drafts \subseteq Contents

VARIABLES
  project,    \* the project row: "live", "trashed" (deleted_at is set) or "purged"
  rows,       \* committed rows of the pages
  pc,         \* where a request is, see Steps
  op,         \* what a request asks for
  answer      \* how the last step answered its request, if it did

vars == <<project, rows, pc, op, answer>>

Indexes == 1..Cardinality(Pages)
Steps == {"idle", "begun", "page", "project"}

NoRow == [index |-> 0]
PageRow == {NoRow} \union [index : Indexes, content : Contents]

\* PageSnapshotWrite: what a client sends of the page it means.
Write == [page : Pages, index : Indexes, content : Contents]
Operation ==
  [kind : {"create"}, write : {w \in Write : w.content \in Drafts}] \union
  [kind : {"save"}, write : Write] \union
  [kind : {"delete"}, write : [page : Pages]] \union
  [kind : {"trash", "restore", "purge"}, write : {NoPage}]
NoOperation == [kind |-> "none", write |-> NoPage]

Stored == {p \in Pages : rows[p] # NoRow}
Behind(p) == {q \in Stored : rows[q].index > rows[p].index}

Init ==
  /\ project = "live"
  /\ rows = [p \in Pages |-> NoRow]
  /\ pc = [r \in Requests |-> "idle"]
  /\ op = [r \in Requests |-> NoOperation]
  /\ answer = "none"

-----------------------------------------------------------------------------
NamesPage(r) == op[r].kind \in {"save", "delete"}

\* Row locks: who holds the row of p, and who holds the row of the project.
PageHolders(p) == {r \in Requests : pc[r] \in {"page", "project"} /\ NamesPage(r) /\ op[r].write.page = p}
ProjectHolders == {r \in Requests : pc[r] = "project"}

\* The rows a request that holds the project has yet to lock.
Needs(r) ==
  CASE op[r].kind = "delete" -> Behind(op[r].write.page)
    [] op[r].kind = "purge" -> Stored
    [] OTHER -> {}
BlockedBy(r) == (UNION {PageHolders(p) : p \in Needs(r)}) \ {r}

\* The end of a transaction releases its locks.
Return(r, a) ==
  /\ pc' = [pc EXCEPT ![r] = "idle"]
  /\ op' = [op EXCEPT ![r] = NoOperation]
  /\ answer' = a

Refuse(r, a) == Return(r, a) /\ UNCHANGED <<project, rows>>

Begin(r, o) ==
  /\ pc[r] = "idle"
  /\ pc' = [pc EXCEPT ![r] = "begun"]
  /\ op' = [op EXCEPT ![r] = o]
  /\ answer' = "none"
  /\ UNCHANGED <<project, rows>>

\* _load_page(for_update=True) reads and locks the page row ...
LockPage(r) ==
  LET p == op[r].write.page IN
  /\ pc[r] = "begun"
  /\ NamesPage(r)
  /\ PageHolders(p) = {}
  /\ \/ /\ p \in Stored /\ project = "live"
        /\ pc' = [pc EXCEPT ![r] = "page"]
        /\ UNCHANGED <<project, rows, op>> /\ answer' = "none"
     \/ /\ ~(p \in Stored /\ project = "live")
        /\ Refuse(r, "not found")

\* ... and then waits for the row of the project; a project trashed meanwhile no
\* longer satisfies the query.
JoinsProject(r) == pc[r] = "page" /\ ProjectHolders = {}

(* Mutation: the lock on the page row outlives the refusal. *)
HoldAfterRefusal(r) ==
  /\ JoinsProject(r) /\ project # "live"
  /\ answer' = "not found"
  /\ UNCHANGED <<project, rows, pc, op>>

PageGone(r) == JoinsProject(r) /\ project # "live" /\ Refuse(r, "not found")

\* _load_project(for_update=True), for the requests that name no page.
LoadsProject(r) == pc[r] = "begun" /\ ProjectHolders = {}

-----------------------------------------------------------------------------
(***************************************************************************)
(* create_page_snapshot, append-only.                                      *)
(***************************************************************************)
\* The client must name the index behind the last page: max(index) + 1, or 1.
IsNextIndex(w) ==
  /\ \A p \in Stored : rows[p].index < w.index
  /\ w.index = 1 \/ \E p \in Stored : rows[p].index = w.index - 1

CreatePage(r) ==
  LET w == op[r].write IN
  /\ LoadsProject(r)
  /\ op[r].kind = "create"
  /\ \/ /\ project = "live" /\ w.page \notin Stored /\ IsNextIndex(w)
        /\ rows' = [rows EXCEPT ![w.page] = [index |-> w.index, content |-> w.content]]
        /\ Return(r, "done")
        /\ UNCHANGED project
     \/ project # "live" /\ Refuse(r, "not found")
     \/ project = "live" /\ w.page \in Stored /\ Refuse(r, "duplicate")
     \/ project = "live" /\ w.page \notin Stored /\ ~IsNextIndex(w) /\ Refuse(r, "mismatch")

(***************************************************************************)
(* update_page_snapshot: the last write wins, if it names the index the    *)
(* page has now.                                                           *)
(***************************************************************************)
(* Mutation: the index of the metadata is not compared. *)
AnyIndex(w) == w.page \in Stored
CurrentIndex(w) == w.index = rows[w.page].index

SavePage(r) ==
  LET w == op[r].write IN
  /\ JoinsProject(r)
  /\ op[r].kind = "save"
  /\ project = "live"
  /\ \/ /\ CurrentIndex(w)
        /\ rows' = [rows EXCEPT ![w.page].content = w.content]
        /\ Return(r, "done")
        /\ UNCHANGED project
     \/ ~CurrentIndex(w) /\ Refuse(r, "mismatch")

(***************************************************************************)
(* delete_page: a hard delete that moves the pages behind one index down,  *)
(* in one UPDATE.  The unique constraint on (project_id, index) is not     *)
(* deferrable: it is tested row by row, in the order in which the database *)
(* visits the rows, and a row that moves before the one ahead of it has    *)
(* moved collides.  That order is the one of the index or the one of the   *)
(* heap, where a saved page has moved.                                     *)
(***************************************************************************)
LockProject(r) ==
  /\ \/ JoinsProject(r) /\ op[r].kind = "delete" /\ project = "live"
     \/ LoadsProject(r) /\ op[r].kind = "purge" /\ project = "trashed"
  /\ pc' = [pc EXCEPT ![r] = "project"]
  /\ UNCHANGED <<project, rows, op>> /\ answer' = "none"

(* Mutation: the gap stays. *)
LeaveGap(p) == [rows EXCEPT ![p] = NoRow]
(* Mutation: the last page moves into the gap. *)
FillWithLast(p) ==
  [q \in Pages |-> IF q = p THEN NoRow
                   ELSE IF rows[q].index = Cardinality(Stored) THEN [rows[q] EXCEPT !.index = rows[p].index]
                   ELSE rows[q]]
ShiftDown(p) ==
  [q \in Pages |-> IF q = p THEN NoRow
                   ELSE IF q \in Behind(p) THEN [rows[q] EXCEPT !.index = @ - 1]
                   ELSE rows[q]]

DeletePage(r) ==
  LET p == op[r].write.page IN
  /\ pc[r] = "project"
  /\ op[r].kind = "delete"
  /\ BlockedBy(r) = {}
  /\ \/ /\ rows' = ShiftDown(p)
        /\ Return(r, "done")
        /\ UNCHANGED project
     \/ Cardinality(Behind(p)) > 1 /\ Refuse(r, "collision")

(***************************************************************************)
(* delete_project, restore_project.                                        *)
(***************************************************************************)
TrashProject(r) ==
  /\ LoadsProject(r)
  /\ op[r].kind = "trash"
  /\ \/ project = "live" /\ project' = "trashed" /\ Return(r, "done") /\ UNCHANGED rows
     \/ project # "live" /\ Refuse(r, "not found")

RestoreProject(r) ==
  /\ LoadsProject(r)
  /\ op[r].kind = "restore"
  /\ \/ project = "trashed" /\ project' = "live" /\ Return(r, "done") /\ UNCHANGED rows
     \/ project # "trashed" /\ Refuse(r, "bad request")

PurgeRefused(r) ==
  LoadsProject(r) /\ op[r].kind = "purge" /\ project # "trashed" /\ Refuse(r, "bad request")

\* The pages are deleted with the project.
PurgeProject(r) ==
  /\ pc[r] = "project"
  /\ op[r].kind = "purge"
  /\ BlockedBy(r) = {}
  /\ project' = "purged"
  /\ rows' = [p \in Pages |-> NoRow]
  /\ Return(r, "done")

-----------------------------------------------------------------------------
(***************************************************************************)
(* The database finds r and s waiting for each other, r holding the        *)
(* project and s a page r needs, and aborts one of them.                   *)
(***************************************************************************)
Circle(r, s) == pc[r] = "project" /\ s \in BlockedBy(r) /\ pc[s] = "page"

AbortDeadlock(r) ==
  /\ \E s \in Requests : Circle(r, s) \/ Circle(s, r)
  /\ Refuse(r, "deadlock")

Step(r) ==
  \/ LockPage(r) \/ PageGone(r) \/ LockProject(r)
  \/ CreatePage(r) \/ SavePage(r) \/ DeletePage(r)
  \/ TrashProject(r) \/ RestoreProject(r) \/ PurgeRefused(r) \/ PurgeProject(r)
  \/ AbortDeadlock(r)

Next == \E r \in Requests : Step(r) \/ \E o \in Operation : Begin(r, o)

Spec == Init /\ [][Next]_vars

\* The database serves every transaction, and grants a lock that is released again
\* and again to everyone who waits for it.
FairSpec == Spec /\ \A r \in Requests : SF_vars(Step(r))

-----------------------------------------------------------------------------
\* Types of the variables.
TypeOK ==
  /\ project \in {"live", "trashed", "purged"}
  /\ rows \in [Pages -> PageRow]
  /\ pc \in [Requests -> Steps]
  /\ op \in [Requests -> Operation \union {NoOperation}]
  /\ answer \in {"none", "done", "not found", "duplicate", "mismatch",
                "bad request", "collision", "deadlock"}

\* The pages of a project are numbered 1..N without gap or repetition, whatever
\* pages are created, moved and deleted at the same time.
IndexesAreDense ==
  /\ \A p \in Stored : rows[p].index \in 1..Cardinality(Stored)
  /\ \A p, q \in Stored : rows[p].index = rows[q].index => p = q

\* A save that is answered "done" has put its content at the index its client meant.
SaveHitsItsIndex ==
  [][\A r \in Requests :
       op[r].kind = "save" /\ pc'[r] = "idle" /\ answer' = "done" =>
         rows'[op[r].write.page] = [index |-> op[r].write.index, content |-> op[r].write.content]]_vars

(***************************************************************************)
(* The inductive invariant: the numbering, and who holds which lock on     *)
(* what.                                                                   *)
(***************************************************************************)
NoGap == \A i \in 1..Cardinality(Stored) : \E p \in Stored : rows[p].index = i

HoldsPage(r) == pc[r] \in {"page", "project"} /\ NamesPage(r)

\* A page whose row is locked stays, and a project that is locked keeps its state.
LockInv ==
  \A r \in Requests :
    /\ pc[r] = "idle" => op[r] = NoOperation
    /\ pc[r] = "page" => NamesPage(r)
    /\ HoldsPage(r) => op[r].write.page \in Stored
    /\ pc[r] = "project" =>
         (op[r].kind = "delete" /\ project = "live") \/ (op[r].kind = "purge" /\ project = "trashed")
    /\ \A s \in Requests \ {r} :
         /\ pc[r] = "project" => pc[s] # "project"
         /\ HoldsPage(r) /\ HoldsPage(s) => op[r].write.page # op[s].write.page

IInv == TypeOK /\ IndexesAreDense /\ NoGap /\ LockInv

\* The storage behaves as a list of pages: PageList.
PageAt(i) == CHOOSE p \in Stored : rows[p].index = i
entries == [i \in 1..Cardinality(Stored) |-> [page |-> PageAt(i), content |-> rows[PageAt(i)].content]]
List == INSTANCE PageList WITH size <- Cardinality(Stored), list <- entries
ImplementsPageList == List!Spec

\* Every request is answered, also those that wait for each other.
RequestsAreAnswered == \A r \in Requests : pc[r] # "idle" ~> pc[r] = "idle"

\* http-contract.md and project-page-storage-boundary.md: a page delete moves the
\* pages behind it and keeps 1..N.  With no other request in progress it is refused.
\* The code refutes it: DeleteAlone.cfg.
DeleteAloneSucceeds == Cardinality(Requests) = 1 => answer # "collision"
=============================================================================
