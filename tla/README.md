# A TLA+ model of TOWA

TOWA is an editor for translating comic pages.  A Vue application (`ui_engine`) edits pages, a
*service engine* stores folders, projects and pages and sells AI operations for credits, and a
*model engine* runs the AI pipeline (detect, translate, inpaint).  This project models the parts
whose correctness depends on the order in which concurrent things happen, checks them with TLC on
small instances, and proves the central results with TLAPS for every instance.

    tlc -config UsageBilling.cfg MCUsageBilling      # one run; PROJECT.json lists them all
    tlapm UsageBillingProofs.tla                     # the proofs

Lines in `PROJECT.json` under `map` tie every definition to the code it stands for.

## 1. The system

| Component | Its state | Operations | What is hard about it | What makes it correct |
|---|---|---|---|---|
| **Usage billing** `service_engine/app/modules/billing`, `devtools` | account row (balance, reserved, version), usage jobs, credit holds, ledger | create, capture, release and get a usage job, lazy expiry; grant and reset credits | the account is read before it is locked and the lock does not refresh it; holds expire only inside other requests; an exception undoes the expiry before it | counters equal the rows they summarise; nothing is promised or charged twice; settled jobs are final |
| **Job manager** `model_engine/api/jobs.py`, `service_bridge.py` | jobs, idempotency map and threads, all in memory | create a job, run, settle, poll | a lookup repeated around an HTTP call; lost answers; a restart | one job per key; what is stored agrees with what was charged; jobs whose thread is not lost end |
| **Projects and pages** `service_engine/app/modules/projects/service.py` | project rows, page rows with an index, snapshots | create, save, delete a page; trash, restore, purge a project | two orders of row locks; renumbering under a unique index; indexes that clients remember | indexes are dense; a save hits the page that was meant; everyone is answered |
| **Folders and trash** `projects/folders.py` | folder rows, the place of projects | create, move, rename, trash (with or without content), restore, purge | the walk over the ancestors and the check of the parent lock nothing | a forest without cycles; live things in live places; purge takes only trash; what an index or a key would refuse is found before |
| **Editing pages** `useAutoSave.ts`, `usePageLoader.ts`, the editor tabs, `usePageBinaryPrefetch.ts` | active document, selected page, dirty flag, timers, page cache | stroke, drag, panel edit, undo, timed and manual save, switch, leave, prefetch | chains of awaits over shared mutable state; one timer per mounted component; three ways in which an edit becomes a flag | a document stays with its page; unsaved edits are flagged and get saved |
| **Page binary cache** `file-adapter/blob-cache.ts`, `cache-db.ts`, `setQueryUser` | memory map, access order, versions, an IndexedDB per user, its connection and who waits for it | get, set, delete, evict, log in and out, open, upgrade, block, lose the connection | a slow read against a newer write; two tiers; an older tab that holds the database | never returns what was replaced; every call ends |
| **Applying AI results** `useAiActions.ts`, `result-applier.ts` | the run (module-wide `loading`), pages shown as processing | submit, poll, apply to the document or to the stored snapshot | page and document change while a job runs and while its bitmaps are fetched | a result reaches the page it was made for, and nothing else is lost |
| **Image editor** `ui_engine/bitmappery` | layers, bitmaps, the history queue, the undo stack, registered blobs | layer actions, painting, merging, undo, redo | entries merged, dropped and replaced; closures over indexes and objects; blobs revoked by a counter | the document is what the entry at the index left; undo and redo find their layers; what can be undone can be loaded; memory is bounded |
| Pipeline orchestrator `model_engine/orchestrator.py` | document, stage results | run stages | a stage that fails midway | stages see a consistent document |
| Authentication and cloud access `service_engine/app/modules/auth` | users, sessions, cloud policy | signup, login, unlock | two signups of one email | one user per email |
| Adapters, builtin and custom models, credentials, worker processes | none, or a connection | inference | numeric code, I/O | |
| File adapters, backend clients, views, build, deployment, smoke tests | view state | | | |

How they interact.  The editor loads and saves page snapshots over HTTP at *projects and pages*;
*folders* and *projects* share the project rows.  A click on an AI action posts a job to the *job
manager*, which reserves credits at *usage billing* before it runs the job and captures or releases
them after; the editor polls the job and applies the result to its document or to the stored
snapshot.  `PROJECT.json` lists every component with its status, and under `hazards` what in the
code is hard to test, at its line, with the property that covers it or the reason none does.  Properties
claimed for one client, a patient user or calm states do not cover the interleavings they leave out:
such a hazard names no property, or its note says which part of it is left, and where the
counterexample is.

## 2. The modules

| Module | Models | Composed with |
|---|---|---|
| `CreditUnits` | rows of jobs and holds, sums of units | base of the three below |
| `CreditContract` | abstract: what the credit service promises, each call atomic | |
| `UsageBilling` | billing as optimistic transactions | implements `CreditContract` |
| `ModelJobs` | the job manager | uses `CreditContract` as the service it calls |
| `PageList` | abstract: a list of pages, each call atomic | |
| `ProjectPages` | page storage with row locks and deadlocks | implements `PageList` |
| `FolderTree` | folders and the places of projects | |
| `PageEditor` | editing in the browser, with the service reduced to the last snapshot it received | |
| `AiResults` | an AI job from the click to its result in the document or the stored snapshot | extends `PageEditor` |
| `BlobCache` | the two tiers of the page cache and its database | `PageEditor` uses it as a map |
| `EditHistory` | the actions, the queue and the undo stack of the image editor | |
| `MC...` | constants for TLC | |
| `UsageBillingProofs`, `ModelJobsProofs`, `ProjectPagesProofs`, `FolderTreeProofs`, `PageEditorProofs`, `AiResultsProofs`, `BlobCacheProofs`, `EditHistoryProofs` | theorems | each extends its module |

### UsageBilling

One account (every statement filters on the user) and any number of request slots, each a READ
COMMITTED transaction.  `Begin` is the authentication, which reads the account row into the session
(`snap`); `SweepStaleHolds`, `CountHeldHolds` and `ReadJob` are the later unlocked reads (`stale`,
`seen`); every other action is the end of a transaction, from the row lock to the commit or
rollback, during which nobody else can write.  SQLAlchemy does not refresh loaded attributes under
`FOR UPDATE`, so the new counters are computed from `snap`, and the UPDATE is refused when the
version has moved (`Fresh`, `StaleConflict`).  `HoldTtlPasses` is the clock; nothing runs then.
Job and hold of a key are one row here: they are read by one query and written in one commit, so
that they agree says nothing and is not claimed.  What is claimed of two creates of one key, two
settlements of one hold or a reset beside a create is who refuses the second: its own version check
(`LoserIsStale`), before the unique keys of the tables have to.
Bounds: `MaxVersion` (no request starts later), two slots, two keys, units 1 and 2, one grant and
one reset amount.  Two slots suffice for every pair of races; more slots add no new pair, and the
theorems hold for any number.

### ModelJobs

`Submit`, `Authorize`, `Register` are `create_job`: lookup under the lock, the call to the service
without it, lookup and insertion under the lock again.  The job is registered before its thread is
started (`StartThread`), so a system that has no thread to give leaves it queued.  `RunJob` is the
thread: the job is running before the document is copied and the workspace made (`StartJob`),
outside of any handler, and the handler of the executor's exceptions copies the document again
(`Execute`); an exception there ends the thread.  The service is `CreditContract`: a call is one of
its steps, its answer may be lost, and holds expire when another request sweeps them.  `Lost` names
the three places where a job is left without a thread: `unstarted`, `stopped`, and `unanswered` for
a settlement whose answer did not come. `Restart` forgets everything but the service.  The route of
`create_job` is `async` around synchronous code, so one process creates jobs one at a time; two
callers also cover a `JobManager` that is called from threads, for which its two critical sections
are written.  Bounds: `MaxJobs`, `MaxRestarts`.

### ProjectPages and PageList

Three waits of a request are steps: the row of the page (`LockPage`), the row of the project
(`JoinsProject` and its users), and the rows behind it that a deletion renumbers (`BlockedBy`).
From its last wait to its commit a request is one step.  PostgreSQL's deadlock detection is
external (`AbortDeadlock`), and so is the order in which an UPDATE visits rows, which is left open:
under the non-deferrable unique index the renumbering succeeds or collides depending on it.  The
mapping to `PageList` sorts the rows by index.  Locks that a blocked bulk UPDATE has taken so far
are abstracted, and `Drafts` bounds what a page is created with.

### FolderTree

Requests check, then write: `Check` locks the row of the request's own item and reads the others
without locks, `Write` flushes what was decided after waiting for whoever holds a row it touches,
foreign keys included.  `clients`, chosen in `Init`, says who makes requests: properties named
`...IfOneAfterTheOther` speak of one client at a time; what two clients break is `FoldersFormATree`
and `PurgeTakesOnlyTrash` (section 5).  Once there is a cycle,
requests that walk over it are left out, since they do not end (`_assert_not_descendant`) or exceed
the recursion limit (`_folder_subtree`).  `MaxShared` bounds the folders while requests meet.

### PageEditor

A document is the page it was made for and the edits in it.  `flow` is what the tab waits for
(saving the page it leaves, loading, leaving), `savers` the save in progress of each component that
calls `useAutoSave`, `cache` the page cache, `fetched` what the prefetch has received and not yet
stored.  Saves serialise the document first and reach the service later.  An edit is a stroke,
whose history entry is made when a timeout and a conversion are over, a drag, whose entry waits a
second in the queue of the history, or a change in a panel, which has no entry and flags the
document itself; `paint` says which entries are still to come.  `Undo` takes back the entry on top
and flags nothing.  Opening a document drops what is queued (`ResetHistory`).

`Init` chooses what may go wrong, and at most one of the four does (`Moods`): a hasty user
(`~patient`: acts while something is under way), a service that fails (`~reliable`), a timer that
runs out while the tab switches (`~steady`), a page left before a queued entry is made
(`~unhurried`).  All hosts of autosave are mounted.  The properties about documents are claimed for
`Calm` states only, where nothing goes wrong, because the code breaks them otherwise (section 5);
`SwitchingEnds` is claimed for all.  Bounds: one save per host and one conversion at a time, no
selection while leaving, no leaving while switching, undo only of entries that are made.
Thumbnails, the original image and the list of pages are left out.

### AiResults

Extends `PageEditor`: `run` is the one run of `runAction` that the module-wide `loading` admits.
`JobSucceeds` decides whether the page of the job is the selected one, and then the result goes
into the document at once (`ApplyOnActive`), or after its bitmaps have come (`BitmapsFetched`, with
the decision of before), or the stored snapshot is read, merged and put back (`ReadSnapshot`,
`PutSnapshot`, `SeedCaches`), while the editor goes on in between.  A result is one edit that
replaces the text layers if its kind does (`Replaced`).  `Settled` says that jobs end, and bitmaps
arrive, only while nothing is saved or switched: without it the result may go into the wrong
document (run `result_elsewhere`).  Bounds: edits by panel only, and of the moods of `PageEditor`
only `reliable` varies, since the others' effects are that module's subject.  `AiToolbar.vue`,
which holds a copy of `runAction`, is mounted nowhere and left out.

### BlobCache

A call runs up to its first `await`, then waits for the database to open (`waiters`, one list for
each opening, since a promise is shared by those who asked for it), for its transaction to run
(`queue`, in order, as IndexedDB promises for readwrite transactions of one store) and for its turn
to go on (`FinishGet`, `FinishPut`); memory, versions and the user may change at each. `disk` is
what a store has of a page, `accessed` its keys by `accessedAt`. The database of a user may be of an
earlier version and held by an older tab, fail to open, be closed for a newer tab or lose its
connection (`trouble`: one of these per behaviour). IndexedDB is external. `last` and `missed`
record what was last written and whether it will reach the disk, `seen` what a key stood for while a
read ran, so that `AnswersAreCurrent` can say that an answer was true at some moment of its call.
Bounds: three calls, two pages, memory and disk of one entry each, so that every write evicts.

### EditHistory

The document is a heap of layer objects, the list of references to them, the strokes in the bitmap
of each layer and the size; `updateLayer` puts a new object in the place of the old, as the code
does, and a closure of the history is a sequence of commands that name a layer by index or by
reference (`Perform`).  An action runs its `redo` commands and enqueues both (`Commit`,
`EnqueueState`); the queue merges states of one key, `SaveState` gives numbers to states and
disposes of the blobs of old ones, `Added` is undo-manager's `add` with its limit (external).
Bitmaps are restored when a blob has loaded (`BlobLoads`), merging waits for a picture (`Merge`).  A
stroke is first pending (`stroke`), then being converted (`StorePaintState` up to its awaits,
`converting`), then an entry (`ConversionEnds`).  While it is converted a second call returns at
once.  An undo asks the renderer of the active layer alone: it waits if there is a stroke to store
(`StorePaintState(TRUE)`), and otherwise takes back at once what is then on top (`Undo`), even while
a stroke of that layer is converted or one of another layer is pending; a patient user lets strokes
become entries.  `TypeOK` is proved (`TypesKept`) and not repeated in a run.  `session` says what
the user does, how often and whether patiently; `base`, `branched` and the `after` of a state record
what the document showed. Bounds: one stroked layer at a time, one document (opened once more at the
end), orders and offsets of layers that have gone are not run (`Possible`; that a patient session
never meets one is `UndoFindsLayers`, so there the bound excludes nothing).

## 3. The runs

| Run | Instance | Shows |
|---|---|---|
| `usage_billing` | 2 requests, 2 keys, 2 payloads | the invariant of the proofs (`IInv`, with the counters and the ledger among its parts), nothing is promised twice (`ReservedWithinBalance`), of two requests that decided on one row the second is refused by the version (`LoserIsStale`), a held hold can be captured (`HoldGuaranteesCapture`), answers stay true (`AnswersAreDurable`), settled is final, and the whole is the atomic contract (`ImplementsContract`) |
| `model_jobs` | 2 callers, 2 sessions, 1 key, 3 requests, 1 restart | the invariant of the proofs (`IInv`), one job per key, answers name it, credits are charged for delivered work only, stored results are settled, jobs end unless their thread is lost |
| `project_pages` | 3 pages, 2 contents, 2 requests | dense indexes, saves hit the page that was meant, refinement of `PageList`, everyone is answered |
| `folder_tree` | 2 folders and a project for two clients, 3 folders for one | for one client at a time: a forest, live places, purging, and only two kinds of request that an index refuses (`ConflictsIfOneAfterTheOther`) |
| `page_editor` | 2 pages, 1 edit of each way, 2 hosts | the invariant of the proofs (`IInv`), documents keep their page, unsaved edits are flagged, edits reach the service unless undone, switching ends |
| `ai_results` | 2 pages, 1 text, 1 result, 2 kinds, 2 hosts | a result is only on its page, merging takes nothing else away, results reach the service, runs end |
| `blob_cache` | 1 user, 2 pages, 3 calls, 2 logins | eviction is sound, memory, answers and disk are current, calls end |
| `edit_history` | sessions of 3 or 4 edits in 12 combinations of actions, history of 2 | undo and redo find the layers they name, the document is what the entry at the index left, undoable strokes have their bitmaps, few bitmaps are kept |

The other four runs end in a counterexample (section 5).

Each passing run has a state space in the hundred thousands, `edit_history` of two million.  The
instances are the smallest in which every race of the hazard list happens: two requests for races
over a row, three pages so that a deletion renumbers more than one, three folders for a cycle
through a moved ancestor, two payloads so that a key can be reused wrongly, one of them not
affordable; three calls for a read that is overtaken by a write and an eviction at once; a history
of two entries and four strokes so that entries are dropped and blobs disposed of while others can
still be undone.  One edit in `page_editor` meets every save, switch and undo; two edits are beyond
five minutes with the liveness properties.  A run that needs no liveness for a variant is given in
section 5.  The inductive invariants of the proofs (`IInv`, `AiIInv`), of which the types are a
part, are invariants of the runs `usage_billing`, `model_jobs` and `page_editor`; those of
`ProjectPages`, `FolderTree`, `AiResults` and `BlobCache` hold in their runs too, and are proved, so
the runs do not repeat them.

`CHECK_DEADLOCK FALSE` is set where a bound stops the system (`MaxVersion`, `MaxJobs`, `Calls`, the
edits of a session).

Fairness.  `ModelJobs`: weak fairness of each job's thread; callers owe nothing, and a thread that
was not started or has ended stays so (`Lost`).  `ProjectPages`: strong fairness of each request's
steps, since a row lock that is released again and again is granted in the end (PostgreSQL queues
waiters). `PageEditor`: timers, conversions and saves are weakly fair, the chain of the tab strongly
fair, since an await whose promise is settled continues before another user event can undo it; the
user may stop at any time.  `AiResults`: the steps of a run are weakly fair (requests end, polling
is limited to 600 times), and strongly fair where it continues after a save or in the moment
`Settled` asks for.  `BlobCache`: transactions run, settled promises continue, the timer of a
blocked upgrade fires, a database nobody holds opens or fails; nobody has to close an older tab.
Every fairness condition is on the program, the browser or the database, none on a user.

## 4. What is proved

Every safety property and action property of the runs is proved, `DocumentIsAtIndex` for the
sessions named below, for any sets of actors and data and any bounds, under the `ASSUME` of the
module, which TLC evaluates in its run. The assumptions say that limits and costs are naturals, that
special values are apart from the others, and that a few sets are finite: keys of requests, pages,
folders and requests over folders, edits, actions, and what an earlier session left in the cache.
The refinements `ImplementsContract` and `ImplementsPageList` are proved as well. Each argument
rests on an inductive invariant, `IInv` of the module, and on one lemma per action that the action
keeps it. Why each is stronger than the properties:

**`UsageBilling`.** The counters alone are not inductive: a commit writes what it computed from
`snap`, read long before. What makes it sound is the version: `RequestInv` says that a request whose
`snap` has the version of the row (`Fresh`) has read the current rows, in all its reads
(`ReadsAreCurrent`), because every commit that changes a job or hold also writes the account and so
moves the version. A commit of a fresh request is then one atomic change of current rows, and lemmas
on sums give the counters (`AccountInvariant`, from which `ReservedCorrect`, `NeverOvercommitted`,
`BalanceCorrect`, `LedgerCorrect`, `TypeCorrect`). A capture that finds its hold held is covered
(`HoldsGuaranteeCapture`) because the balance it read, however old, was read when the hold was
there: `HoldCovers` carries that from the first read to the commit, over resets and grants.
`AnswersDurable` needs what outlasts an old read (`ReadLasts`): the payload of a job, and its
outcome once it had one. `SecondIsRefused` reads the same invariant the other way: who found a key
free, or a hold held, that is not so any more has an old version. `Implementation`: every step is a
step of `CreditContract` or changes nothing it sees. `Settled` is proved of the contract and carried
down.

**`ModelJobs`.** `IndexInv` ties the idempotency map to the jobs in both directions and keeps ids
unused above `nextId`; `CallerInv` says what a caller between its two lookups may rely on, and
`JobInv` what the thread of a job still owes the service. Since the second lookup is in the same
critical section as the insertion, `NoDuplicateJobs` and `AnswersAreRight` follow;
`OnlyWorkIsCharged` and `ResultsAreSettled` from what a lost answer leaves open (`worker` is
"unanswered"): a job stored as succeeded is charged, whatever became of the calls before.

**`ProjectPages`.** `IndexesAreDense` is inductive only with the lock discipline: `LockInv` says
that two requests never hold the same page row, that one at most has the project row, and that the
page a request has locked is still stored, so that what was compared under the lock holds at the
write (`SavesHit`). The renumbering of a deletion is then a shift of a dense numbering.
`Implementation` maps the rows, sorted, to the list of `PageList`; which row is at a place is unique
by density.

**`FolderTree`.** That names are unique and foreign keys exist is what the database checks at each
flush; `ShapeInv` keeps it for any clients, as a part of `IInv` and not as a result. The rest
needs `OneAfterTheOther`: `SoloInv` says that what a request decided is what it would decide
now (`StillRight`). A move keeps the tree because the new parent is not below the folder that is
moved; the proof takes a subtree as the least set of folders that is closed under children, and a
cycle as a set without a root, so that no induction over paths is needed. `OnlySelfConflicts`: a
client that is alone is told of a concurrent update only where the code's own checks are missing
(`SelfConflict`). It needs `StillFree`, that the rows to be written are there and the names they will
have are free, and one lemma per request that its flush then passes (`UpdatePasses`,
`RestorePasses`, ...).

**`PageEditor`.** In calm states `FlowInv` says what the tab relies on across its awaits, `SaverInv`
that a save in progress carries the document shown, and `CopyInv` that the copies of a page are
ordered: what was fetched is within what is cached, that within what the service has, and the
document has all of it. `UnsavedEditsAreFlagged` compares the document with the service by inclusion
(`Within`): an edit that was undone may still be stored, and the code does not flag that (section
5).

**`AiResults`.** The editor goes on during a run, so `PlaceInv` repeats what is needed of the editor
for any service; `HomeInv` says that a result is in copies of its own page only, and `RunInv` that
while a result is merged in the background its page is neither shown nor being saved, which is why
the read and the write of `MergesKeepEdits` have nothing between them.

**`BlobCache`.** That memory is current cannot be kept by itself: a read puts into memory what it
found some time ago. `VersionInv` says that versions number the writes of a page in the order of the
calls, `LineInv` and `OrderInv` that calls wait in that order, those that wait for a connection
behind those whose transactions are made, `DoorInv` that an opening ends only after those before it
of the same user. So a read whose version is unchanged has no write before it that is still to run,
and what it found is the last write (`ReadInv`). `CopyInv` says of each page that either its last
write is still to run, or nothing is and the disk has it, unless that write missed the database
(`missed`). `EvictionSound` is separate: the order and the map agree, so at most one entry is
shifted. `MemoryCurrent`, `AnswersTrue` and `DiskCurrent` follow.

**`EditHistory`.** `MemoryBounded`: the numbers of the kept blobs lie in a window of `STATES_TO_SAVE
+ 1` below the number of registered states (`InWindow`); saving moves the window by one and disposes
of what falls out (`WindowMoves`). `StrokesCanBeUndone`: the code disposes by a counter of
registered states, and keeps the stack by length, so the two must be tied together: `Numbered` says
that the states of the stack carry the last consecutive numbers up to the counter, and `Orderly`
that the blobs of the states among the last `STATES_TO_SAVE` are there. An undo followed by a new
state breaks `Numbered`, and then the property is false (run `revoked_undo`): `branched` is the
exact limit of what the code guarantees.

`TypesKept` is a lemma on the way: a closure is repeated on a document it was not made for, so
`TypeInv` speaks of all closures that may still run, on the stack, in the queue and in a merge that
waits: each is one command, or three, naming objects that exist, and objects are never taken away.
One lemma per mutation says what it makes of the fields of a document (`InsertIs`, `RemoveIs`,
`UpdateIs`, ...), so the document after any closure is well formed (`RunFollows`). No limit on the
session is needed.

`DocumentFollowsIndex`: `DocumentIsAtIndex` for every `Plain` session, that is, with any of the
actions but painting, drags and removal in the panel, as long as it does not both change layers in
place (`rotate`, `resize`) and put layers back or in (`add`, `duplicate`, `remove`, `merge`), or add
text and reorder or resize. Undo and redo give the document other objects than it had, and a text layer
another id, so what is inductive cannot speak of documents: it speaks of a `View`, what is seen of
one, and each command has an `Effect` on views (`PerformSeen`). The history is a story (`Story`):
there is a view for every index, each entry leads from one to the next and back (`Linked`), whatever
objects are made later (`StoryStays`), and the view at the index is the document's, or, while
something is queued, the one that the queued entry starts from (`Told`). That a step keeps this rests
on one lemma per action that its undo takes back what its redo does (`SetTwice`, `TakeOutPutIn`,
`PutInTakeOut`, `OrderTwice`, `MovedTwice`, `MergedSeen`); on `StorySaved`, that adding an entry keeps
the story when entries are dropped at either end; and on `LaterCounts` and `LinkedMerged`: two
closures of one key do the same as the later alone, so an entry merged in the queue leads on.
`LayersAreFound` follows for the same sessions: the document at either end of an entry has the
layers, by id, that the entry was made for (`EntriesFind`).
A restriction of the kind is needed: "History" in section 5 says what other sessions do. This one is not
the weakest, since some of the others keep the index as well and stay with TLC.

The proofs changed the models in four places. `UnsavedIsFlagged` claimed equality with the service
where undone edits allow only inclusion. The subtree of a folder was a recursion over the depth and
is now the least fixed point it computes. The cache selected from sequences with an operator, which
the provers cannot reason about; lists of waiters are now kept per opening, and records per key.
The bound on layer objects has to admit the layers a document opens with (`Start <= MaxObjects`), and
the sessions of `MCEditHistory` were too narrow: the proof showed which actions may be put together,
and the instance now has sessions with all of them.

Only model-checked: `DocumentIsAtIndex` for sessions with strokes or drags (`{"paint", "rename"}` and
those of `Apart` in `MCEditHistory` with a drag), where views would also depend on blobs that load and
on objects a closure moves; and all liveness (`JobsEnd`, `RequestsAreAnswered`, `EditsAreSaved`,
`SwitchingEnds`, `ResultReachesService`, `RunsEnd`, `CallsEnd`), which the prover does not do. The
closures of `EditHistory` are of one command or of three, so `Run`, a fold, is unfolded for these two
lengths (`RunOne`, `RunThree`) and no induction over data is needed.

## 5. Where the code and what is said of it differ

Four have a run that ends in the counterexample, and an entry under `findings`:

* `expired_capture`: the release of an expired hold is rolled back with the error that reports it.
* `folder_cycle`: two concurrent moves make a cycle.
* `result_elsewhere`: an AI job that succeeds while the tab switches pages puts its result into the
  document of the other page: the selected page changes first, the active document later.
* `revoked_undo`: undo a stroke and paint another, and blobs of a stroke that can still be undone are
  revoked, because the counter of registered states runs ahead of the stack.

Others are stated by a definition that TLC refutes with the configuration named; the properties the
runs do check exclude them by name:

| Definition | Configuration | What happens |
|---|---|---|
| `ModelJobs!BilledRunHasHold` | `UnheldRun.cfg` | a job runs on a usage job that was settled before |
| `ProjectPages!DeleteAloneSucceeds` | `DeleteAlone.cfg` | a page deletion, with nobody else there, collides with its own renumbering, depending on the order in which rows are updated |
| `ModelJobs!AcceptedJobsEnd` | `LostThread.cfg` | a job whose thread was not started, or ended before the executor, in its handler or in settling, stays queued or running with its hold |
| `FolderTree!PurgeTakesOnlyTrash` | `PurgedLive.cfg` | a live project is purged with a folder that was trashed while it was created |
| `PageEditor!LaterEditsAreFlagged` | `EditLost.cfg` | an edit made during a save loses its flag when the save ends |
| `PageEditor!SavedIsKept` | `StaleCache.cfg` | a prefetched snapshot replaces a newer cached document, and the next save sends it to the service |
| `PageEditor!UndoneIsFlagged` | `UndoUnsaved.cfg` | what is undone after a save is not saved as undone, since undo makes no history entry and flags nothing |
| `PageEditor!LeftPagesAreStored` | `QuickSwitch.cfg` | a page left within a second of a drag is cached with the drag, and its queued entry is dropped: the service does not get it until the page is edited again |
| `EditHistory!StrokeIsStoredFirst` | `UndoEarly.cfg` | an undo while a stroke is converted takes back the entry before it; the stroke is put on the stack after that and drops what could be redone |

Seen while modelling, each a variation of a run above, and not in a run of its own.  Editing:

* Two hosts of autosave (drop `steady` from `Calm`): the timer of a toolbar fires
  while the tab saves the page it leaves; it takes the selected page, which is already the next, and
  stores the old document there.
* A hasty user (drop `patient`): a page selected while the tab is switching is ignored; the document
  shown is then not the selected page, and the next save stores it there.
* A service that fails (drop `reliable`): the same, when the page to load cannot be fetched.
* A stroke being converted is neither pending nor recorded; a switch at that moment saves nothing and
  flags the stroke under the page switched to (drop the conversion from `Quiet`).
* A save of another host that is in flight when an AI result is applied can land after the save of
  the result and overwrite it, with the flag reset (drop `Settled`).
* If the snapshot of the page has gone, a background result leaves the page shown as "ai-processing"
  (`result-applier.ts:178`, `SnapshotMissing`).

Cache:

* A read that is under way at logout puts its page back into the cleared memory (`FinishGet` after
  `LogOut`); keys are page ids, so another user does not ask for it.
* A deletion while the database cannot be reached leaves the old record on disk (`missed`).
* A call that waits for a held database when its user leaves waits for ever, since `setCacheUser`
  drops the list of waiters (`cache-db.ts:130`, `Stranded`).

History (the first three are why sessions in `MCEditHistory` keep some actions apart, and why a
patient user does not repeat structural edits within a second):

* Two edits of one structural key within a second, such as removing two layers at one index, are
  merged, and only the first is undone.
* A closure that holds a layer object works on an object no longer shown once `updateLayer` has
  replaced it (drag, then rename, then undo both and redo); the redo of adding text makes a layer
  with a new id, which a later reordering does not find.
* Turning a layer changes its object in place. Rename, rotate and remove a layer, undo all, redo all,
  and undo once: the layer that comes back is the object of before the first undo, which was turned
  back then; the redone turn was of the object that the redone renaming put in its place.
* Redo stores neither the stroke nor the queue first, so an entry still queued is added after it and
  drops the entries that could still be redone (excluded by `Waits` in `Redo`).
* Undo and redo in quick succession start loading two blobs for one bitmap, and both are drawn
  (`layer-source-replace.ts:45`; excluded by `AtRest`).
* `LayerPanel.vue` and AI results change the layers without an entry, so later undos hit other indexes
  (the impatient sessions with `RemoveInPanel`); `mergeLayerDown` commits indexes from before its
  await.
* Not modelled, read only: `canvas-resize.ts:47` computes `top: deltaY` where `left` adds to the old
  value; `removeLayer` and `replaceLayers` can leave the active index out of range.

Elsewhere:

* Restoring or reparenting folders, with no other request in progress, can be refused as a
  concurrent update when a name is taken (`folders.py:405`, `:456`, `SelfConflict`); trying again does
  not help. These are the only cases (`OnlySelfConflicts`).

## 6. Not modelled, and the plan

Not modelled because it keeps no state or is numeric: request parsing, schemas, adapters, builtin
models, rendering, views, build and deployment, which is most of the repository's lines.
`LocalFileAdapter` is a skeleton the application refuses to construct.  Metadata of projects, users
and sessions are single-row writes.  Of the image editor: crop, slicing into layers, committing
effects, resizing the document, selections, zoom, the index of the active layer and the tools; each
is another pair of commands in the sense of `EditHistory` or keeps no history.

1. *Done*: usage billing with its contract and proofs; job manager; pages; folders; editing; AI
   results; page cache; history of the image editor; proofs of all of these.
2. *Next*: the remaining actions of the image editor, with the index of the active layer; the
   orchestrator's stages; deleting the selected page and the save at `beforeunload` in `PageEditor`.
3. *Proofs*: done for every safety and action property of the runs, `DocumentIsAtIndex` for plain
   sessions.  *Next*: sessions with strokes, with a view that has the bitmaps and the blobs to come.
