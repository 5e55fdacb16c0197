----------------------------- MODULE PageEditor -----------------------------
(***************************************************************************)
(* Editing the pages of a project in the browser: useAutoSave.ts,          *)
(* usePageLoader.ts, the page watchers of EditorTab.vue and                *)
(* DetailEditorTab.vue, ProjectView.vue and the prefetch of page binaries. *)
(*                                                                         *)
(* One document is active.  It is stored at the service, which keeps the   *)
(* last snapshot it receives, and kept in a cache that outlives the        *)
(* session and is read before the service is asked.  Everything the editor *)
(* does is a chain of awaits over these, and between two of them the user  *)
(* and the other chains go on.                                             *)
(*                                                                         *)
(* A document is the page it was made for and the edits in it.             *)
(***************************************************************************)
EXTENDS Integers, FiniteSets

CONSTANTS
  Pages,    \* pages of the project
  Edits,    \* edits the user makes (bound)
  Ways,     \* of editing: "stroke", "drag" (its history entry is queued), "panel" (it has none)
  Hosts,    \* components that call useAutoSave, each with its own timer
  Tab,      \* the host that is EditorTab or DetailEditorTab
  Prefetched, \* pages that are prefetched (bound)
  NoPage

ASSUME EditorAssumption == NoPage \notin Pages /\ Tab \in Hosts /\ IsFiniteSet(Edits)
                            /\ Ways \subseteq {"stroke", "drag", "panel"}

VARIABLES
  route,      \* "home" or "editor"
  selected,   \* store.state.editor.selectedPageId
  doc,        \* bmp/activeDocument
  loaded,     \* currentLoadedPageId
  server,     \* layerBlob of the snapshot the service keeps of a page
  cache,      \* pageBinaryCache
  fetched,    \* what the prefetch has received of a page and not yet cached
  dirty, dirtyPage,
  paint,      \* edits without a history entry: strokes "pending" or "storing", drags "queued"
  latest,     \* edits of the history entry on top, made or to come
  timers,     \* hosts whose saveTimer runs
  savers,     \* the save in progress of a host
  flow,       \* what the tab waits for, see Idle
  spent,      \* edits made so far
  undone,     \* edits undone so far
  patient,    \* the user lets what is under way end before going on; never changes
  reliable,   \* requests to the service succeed; never changes
  steady,     \* no timer runs out while the tab saves or loads a page; never changes
  unhurried   \* the user stays on a page until its edits have their entries; never changes

content == <<doc, server, cache, fetched>>
flags == <<dirty, dirtyPage, paint, timers>>
edited == <<latest, spent, undone>>
mood == <<patient, reliable, steady, unhurried>>
vars == <<route, selected, loaded, content, flags, savers, flow, edited, mood>>

Document == [of : Pages, has : SUBSET Edits]
NoDoc == [of |-> NoPage, has |-> {}]

\* savePage(page): the blob it serialised, and whether the service has it.
Save == [page : Pages, blob : Document, landed : BOOLEAN]
NoSave == [page |-> NoPage]

Idle == [step |-> "idle"]
Saving(from, to) == [step |-> "saving", from |-> from, to |-> to]    \* saveImmediately(from)
Loading(to) == [step |-> "loading", to |-> to]                       \* loadPage(to)
Leaving(at, todo) == [step |-> "leaving", at |-> at, todo |-> todo]  \* onBeforeRouteLeave

\* At most one thing goes wrong at a time (bound): a hasty user, a service that fails, a
\* timer that runs out at the wrong moment, or a page left within a second of a drag.
Moods ==
  {m \in [{"patient", "reliable", "steady", "unhurried"} -> BOOLEAN] :
     Cardinality({f \in DOMAIN m : ~m[f]}) <= 1}

Init ==
  /\ route = "home" /\ selected = NoPage /\ loaded = NoPage
  /\ doc = NoDoc
  /\ server = [p \in Pages |-> [of |-> p, has |-> {}]]
  /\ cache = [p \in Pages |-> NoDoc] /\ fetched = [p \in Pages |-> NoDoc]
  /\ dirty = FALSE /\ dirtyPage = NoPage /\ paint = {} /\ timers = {}
  /\ savers = [h \in Hosts |-> NoSave]
  /\ flow = Idle
  /\ latest = {} /\ spent = {} /\ undone = {}
  /\ \E m \in Moods :
       patient = m.patient /\ reliable = m.reliable /\ steady = m.steady /\ unhurried = m.unhurried

-----------------------------------------------------------------------------
\* When the user acts.
Quiet == flow = Idle /\ savers = [h \in Hosts |-> NoSave] /\ "storing" \notin paint
UserActs == patient => Quiet
UserLeaves == UserActs /\ (unhurried => "queued" \notin paint)

(***************************************************************************)
(* useAutoSave.ts                                                          *)
(***************************************************************************)
OrElse(p, q) == IF p # NoPage THEN p ELSE q

(* Mutation: an edit does not start the timers. *)
TimersAsTheyAre == timers
TimersAgain == Hosts

\* flagDirty in the hosts H, with the page selected at this moment; their timers start again.
FlagDirty(page, H) ==
  /\ dirty' = TRUE
  /\ dirtyPage' = OrElse(page, dirtyPage)
  /\ timers' = timers \union H

\* What one undo would take back: entries that wait are merged with their like (of those that
\* wait for different things, undo is not modelled: bound).
OnTop(e, waits) ==
  IF paint = {} THEN {e} ELSE IF paint = {waits} THEN latest \union {e} ELSE {}

\* An edit.  The history entry of a stroke waits for a timeout, and is then made of bitmaps
\* that take a while to convert; that of a drag waits in the queue of the history.  The panels
\* change layers without an entry and flag the document themselves.
Edit(e, way) ==
  /\ UserActs /\ route = "editor" /\ doc # NoDoc /\ e \notin spent
  /\ doc' = [doc EXCEPT !.has = @ \union {e}]
  /\ spent' = spent \union {e}
  /\ LET waits == IF way = "stroke" THEN "pending" ELSE "queued" IN
       IF way = "panel" THEN FlagDirty(selected, {Tab}) /\ latest' = {} /\ UNCHANGED paint
       ELSE /\ paint' = paint \union {waits} /\ latest' = OnTop(e, waits)
            /\ UNCHANGED <<dirty, dirtyPage, timers>>
  /\ UNCHANGED <<route, selected, loaded, server, cache, fetched, savers, flow, undone, mood>>

\* One conversion at a time (bound).
StorePaint ==
  /\ "pending" \in paint /\ "storing" \notin paint
  /\ paint' = (paint \ {"pending"}) \union {"storing"}
  /\ UNCHANGED <<route, selected, loaded, content, dirty, dirtyPage, timers, savers, flow, edited, mood>>

\* saveState: entries are made, and the hosts there are flag the document.
SaveState(waiting) ==
  /\ paint' = paint \ waiting
  /\ IF route = "editor" THEN FlagDirty(selected, TimersAgain) ELSE UNCHANGED <<dirty, dirtyPage, timers>>
  /\ UNCHANGED <<route, selected, loaded, content, savers, flow, edited, mood>>

\* The entry of a stroke takes what is queued along.
PaintStored == "storing" \in paint /\ SaveState({"storing", "queued"})

ProcessQueue == "queued" \in paint /\ SaveState({"queued"})

\* Ctrl+Z, when every entry is made (bound).  No saveState: nobody flags the document.
Undo ==
  /\ UserActs /\ route = "editor" /\ doc # NoDoc /\ paint = {} /\ latest # {}
  /\ doc' = [doc EXCEPT !.has = @ \ latest]
  /\ undone' = undone \union latest /\ latest' = {}
  /\ UNCHANGED <<route, selected, loaded, server, cache, fetched, flags, savers, flow, spent, mood>>

(* Mutation: doSave does not flush the stroke. *)
NoFlush == FALSE
FlushPendingPaint == "pending" \in paint

(* Mutation: the selected page is taken for the one that is saved. *)
SelectedPage(explicit, current, marked) == OrElse(current, marked)
PageToSave(explicit, current, marked) == OrElse(explicit, OrElse(current, marked))

(* Mutation: savePage does not ask for the document. *)
PageKnown(page) == page # NoPage
Savable(page) == page # NoPage /\ doc # NoDoc

\* doSave(explicit) of document d in the hosts H, while current is selected, after the flags
\* were set to flag = <<dirty, dirtyPageId>>; the hosts in cleared have stopped their timers
\* before.  What savePage sends it serialises first.  The stroke it flushes is stored and
\* flagged in one step; one that is being stored it does not await.
SaveDocument(d, flag, H, explicit, current, cleared) ==
  LET flushes == FlushPendingPaint
      marked == IF flushes THEN OrElse(current, flag[2]) ELSE flag[2]
      page == PageToSave(explicit, current, marked)
      saves == (flag[1] \/ flushes) /\ Savable(page)
  IN
  /\ paint' = IF flushes THEN paint \ {"pending", "queued"} ELSE paint
  /\ dirty' = (flag[1] \/ flushes)
  /\ dirtyPage' = marked
  /\ timers' = IF flushes THEN TimersAgain ELSE timers \ cleared
  /\ savers' = [h \in Hosts |-> IF h \in H /\ saves THEN [page |-> page, blob |-> d, landed |-> FALSE]
                                ELSE savers[h]]

DoSave(H, explicit, current, cleared) ==
  SaveDocument(doc, <<dirty, dirtyPage>>, H, explicit, current, cleared)

\* A host saves one thing at a time (bound).
TimerFires(h) ==
  /\ route = "editor" /\ h \in timers /\ savers[h] = NoSave
  /\ steady => flow = Idle
  /\ DoSave({h}, NoPage, selected, {h})
  /\ UNCHANGED <<route, selected, loaded, content, flow, edited, mood>>

\* Ctrl+S reaches the handler of every host.
SaveKeys ==
  /\ UserActs /\ route = "editor" /\ \A h \in Hosts : savers[h] = NoSave
  /\ DoSave(Hosts, NoPage, selected, Hosts)
  /\ UNCHANGED <<route, selected, loaded, content, flow, edited, mood>>

SaveLands(h) ==
  /\ savers[h] # NoSave /\ ~savers[h].landed
  /\ server' = [server EXCEPT ![savers[h].page] = savers[h].blob]
  /\ savers' = [savers EXCEPT ![h].landed = TRUE]
  /\ UNCHANGED <<route, selected, loaded, doc, cache, fetched, flags, flow, edited, mood>>

SaveSucceeds(h) ==
  /\ savers[h] # NoSave /\ savers[h].landed
  /\ savers' = [savers EXCEPT ![h] = NoSave]
  /\ dirty' = FALSE /\ dirtyPage' = NoPage
  /\ UNCHANGED <<route, selected, loaded, content, paint, timers, flow, edited, mood>>

\* After the retries of withPushRetry; the snapshot may have arrived all the same.
SaveFails(h) ==
  /\ ~reliable
  /\ savers[h] # NoSave
  /\ savers' = [savers EXCEPT ![h] = NoSave]
  /\ UNCHANGED <<route, selected, loaded, content, flags, flow, edited, mood>>

-----------------------------------------------------------------------------
(***************************************************************************)
(* The watcher of selectedPageId in the tab, and switchPage.  While the    *)
(* tab is switching the watcher ignores what is selected.                  *)
(***************************************************************************)
SelectPage(p) ==
  /\ UserLeaves /\ route = "editor" /\ p # selected /\ flow.step # "leaving"
  /\ selected' = p
  /\ IF flow # Idle THEN UNCHANGED <<flow, savers, flags>>
     ELSE /\ savers[Tab] = NoSave
          /\ flow' = Saving(selected, p)
          /\ DoSave({Tab}, selected, p, {Tab})
  /\ UNCHANGED <<route, loaded, content, edited, mood>>

\* The tab is mounted: its watcher runs at once, with no page to leave.
OpenEditor(p) ==
  /\ UserActs /\ route = "home" /\ savers[Tab] = NoSave
  /\ route' = "editor" /\ selected' = p
  /\ flow' = Saving(NoPage, p)
  /\ UNCHANGED <<loaded, content, flags, savers, edited, mood>>

\* switchPage after the save: nothing to do, or the page it leaves goes to the cache.
CachePage ==
  /\ flow.step = "saving" /\ savers[Tab] = NoSave
  /\ IF flow.to = loaded /\ doc # NoDoc
     THEN flow' = Idle /\ UNCHANGED cache
     ELSE /\ flow' = Loading(flow.to)
          /\ cache' = IF flow.from # NoPage /\ doc # NoDoc THEN [cache EXCEPT ![flow.from] = doc] ELSE cache
  /\ UNCHANGED <<route, selected, loaded, doc, server, fetched, flags, savers, edited, mood>>

\* Another document is active: what is queued is dropped.
ResetHistory == paint' = paint \ {"queued"} /\ latest' = {}

\* loadPage: from the cache, or else from the service.
LoadPage ==
  /\ flow.step = "loading"
  /\ doc' = IF cache[flow.to] # NoDoc THEN cache[flow.to] ELSE server[flow.to]
  /\ loaded' = flow.to
  /\ flow' = Idle
  /\ ResetHistory
  /\ UNCHANGED <<route, selected, server, cache, fetched, dirty, dirtyPage, timers, savers, spent, undone, mood>>

(* Mutation: a load that failed is tried again, for ever. *)
TryAgain == Saving(NoPage, flow.to)
AfterSwitch == Idle
LoadFails ==
  /\ ~reliable
  /\ flow.step = "loading" /\ cache[flow.to] = NoDoc
  /\ flow' = AfterSwitch
  /\ UNCHANGED <<route, selected, loaded, content, flags, savers, edited, mood>>

(***************************************************************************)
(* Leaving the editor: the route guards of the hosts save one after the    *)
(* other, the tab's first, then the timers end with their hosts.  The      *)
(* document stays active until the project is left too.                    *)
(***************************************************************************)
RouteGuard(h, todo) ==
  /\ savers[h] = NoSave
  /\ flow' = Leaving(h, todo)
  /\ DoSave({h}, NoPage, selected, {})
  /\ UNCHANGED <<route, selected, loaded, content, edited, mood>>

LeaveEditor == UserLeaves /\ route = "editor" /\ flow = Idle /\ RouteGuard(Tab, Hosts \ {Tab})

NextGuard(h) ==
  /\ flow.step = "leaving" /\ h \in flow.todo /\ savers[flow.at] = NoSave
  /\ RouteGuard(h, flow.todo \ {h})

EditorLeft ==
  /\ flow.step = "leaving" /\ flow.todo = {} /\ savers[flow.at] = NoSave
  /\ flow' = Idle /\ route' = "home" /\ timers' = {}
  /\ UNCHANGED <<selected, loaded, content, dirty, dirtyPage, paint, savers, edited, mood>>

CloseProject ==
  /\ UserActs /\ route = "home" /\ doc # NoDoc
  /\ doc' = NoDoc /\ loaded' = NoPage /\ selected' = NoPage
  /\ ResetHistory
  /\ UNCHANGED <<route, server, cache, fetched, dirty, dirtyPage, timers, savers, flow, spent, undone, mood>>

-----------------------------------------------------------------------------
(***************************************************************************)
(* usePageBinaryPrefetch: pages that are not cached, the active one too.   *)
(***************************************************************************)
Prefetch(p) ==
  /\ p \in Prefetched /\ route = "editor" /\ cache[p] = NoDoc /\ fetched[p] = NoDoc
  /\ fetched' = [fetched EXCEPT ![p] = server[p]]
  /\ UNCHANGED <<route, selected, loaded, doc, server, cache, flags, savers, flow, edited, mood>>

StorePrefetched(p) ==
  /\ fetched[p] # NoDoc
  /\ cache' = [cache EXCEPT ![p] = fetched[p]]
  /\ fetched' = [fetched EXCEPT ![p] = NoDoc]
  /\ UNCHANGED <<route, selected, loaded, doc, server, flags, savers, flow, edited, mood>>

-----------------------------------------------------------------------------
User ==
  \/ \E e \in Edits, way \in Ways : Edit(e, way)
  \/ \E p \in Pages : SelectPage(p) \/ OpenEditor(p)
  \/ Undo \/ SaveKeys \/ LeaveEditor \/ CloseProject

SaveSteps(h) == SaveLands(h) \/ SaveSucceeds(h) \/ SaveFails(h)
FlowSteps == CachePage \/ LoadPage \/ LoadFails \/ EditorLeft \/ \E h \in Hosts : NextGuard(h)

Next ==
  \/ User \/ FlowSteps \/ StorePaint \/ PaintStored \/ ProcessQueue
  \/ \E h \in Hosts : TimerFires(h) \/ SaveSteps(h)
  \/ \E p \in Pages : Prefetch(p) \/ StorePrefetched(p)

Spec == Init /\ [][Next]_vars

\* The browser runs timers and continuations, and requests end.  The user may stop.
FairSpec ==
  /\ Spec
  /\ SF_vars(FlowSteps) /\ WF_vars(StorePaint \/ PaintStored) /\ WF_vars(ProcessQueue)
  /\ \A h \in Hosts : WF_vars(TimerFires(h)) /\ WF_vars(SaveSteps(h))

-----------------------------------------------------------------------------
\* Types of the variables.
TypeOK ==
  /\ route \in {"home", "editor"} /\ {selected, loaded, dirtyPage} \subseteq Pages \union {NoPage}
  /\ doc \in Document \union {NoDoc}
  /\ server \in [Pages -> Document]
  /\ cache \in [Pages -> Document \union {NoDoc}] /\ fetched \in [Pages -> Document \union {NoDoc}]
  /\ dirty \in BOOLEAN /\ paint \subseteq {"pending", "storing", "queued"} /\ timers \subseteq Hosts
  /\ savers \in [Hosts -> Save \union {NoSave}]
  /\ flow.step \in {"idle", "saving", "loading", "leaving"}
  /\ spent \subseteq Edits /\ latest \union undone \subseteq spent

Calm == patient /\ reliable /\ steady /\ unhurried

\* As long as the user waits and requests succeed, no page is stored, cached or shown
\* under the id of another.
OwnPages ==
  Calm =>
    /\ \A p \in Pages : server[p].of = p /\ cache[p].of \in {p, NoPage}
    /\ flow = Idle /\ route = "editor" => doc.of = selected /\ loaded = selected

\* d has no edit that e does not have, but for edits that were undone: a snapshot in the
\* cache may be older than the undo.
Within(d, e) == d.has \subseteq e.has \union undone

\* As long as the user waits and requests succeed, a document with edits the service
\* does not have is flagged, and once the tab is idle it is the page flagged.
UnsavedIsFlagged ==
  Calm =>
    /\ doc # NoDoc /\ ~Within(doc, server[doc.of]) => dirty \/ paint # {}
    /\ dirty /\ paint = {} /\ flow = Idle => dirtyPage = doc.of

(***************************************************************************)
(* The inductive invariant: what each wait of the tab may rely on, and     *)
(* which of a page's copies may be behind which.                           *)
(***************************************************************************)
Flows ==
  {Idle} \union {Saving(from, to) : from \in Pages \union {NoPage}, to \in Pages}
    \union {Loading(to) : to \in Pages}
    \union {Leaving(at, todo) : at \in Hosts, todo \in SUBSET Hosts}

Saved == ~dirty /\ savers = [h \in Hosts |-> NoSave]

\* A flagged document is being saved by the host h, and no other host saves.
SavedBy(h) ==
  /\ \A g \in Hosts \ {h} : savers[g] = NoSave
  /\ dirty => savers[h] # NoSave

\* Only the page that is shown changes, and it is saved before the tab goes on.
FlowInv ==
  /\ loaded = doc.of
  /\ flow # Idle => route = "editor" /\ paint = {}
  /\ route = "home" => Saved /\ paint = {}
  /\ route = "editor" => selected # NoPage
  /\ route = "editor" /\ flow.step \in {"idle", "leaving"} => doc.of = selected
  /\ flow.step \in {"saving", "loading"} => flow.to = selected
  /\ flow.step = "saving" => flow.from \in {NoPage, doc.of} /\ SavedBy(Tab)
  /\ flow.step = "loading" => Saved
  /\ flow.step = "leaving" => SavedBy(flow.at)
  /\ dirty /\ flow.step # "saving" => dirtyPage = doc.of

\* A save in progress carries the document that is shown.
SaverInv ==
  \A h \in Hosts : savers[h] # NoSave =>
    /\ doc # NoDoc /\ savers[h].page = doc.of /\ savers[h].blob = doc
    /\ savers[h].landed => Within(doc, server[doc.of])

\* The copies of a page: what is cached the service has, and what was fetched all have.
CopyInv ==
  \A p \in Pages :
    /\ server[p].of = p /\ cache[p].of \in {p, NoPage} /\ fetched[p].of \in {p, NoPage}
    /\ cache[p] # NoDoc => Within(cache[p], server[p]) /\ (doc.of = p => Within(cache[p], doc))
    /\ cache[p] = NoDoc /\ doc.of = p => Within(server[p], doc)
    /\ fetched[p] # NoDoc =>
         /\ Within(fetched[p], server[p])
         /\ cache[p] # NoDoc => Within(fetched[p], cache[p])
         /\ doc.of = p => Within(fetched[p], doc)

CalmInv == FlowInv /\ SaverInv /\ CopyInv /\ UnsavedIsFlagged

IInv == TypeOK /\ flow \in Flows /\ (Calm => CalmInv)

\* As long as the user waits and requests succeed, every edit reaches the service,
\* unless it is undone before.
EditsAreSaved ==
  \A e \in Edits : Calm /\ e \in doc.has ~> e \in undone \/ \E p \in Pages : e \in server[p].has

\* The tab does not remain "switching", which would make it ignore every selection.
SwitchingEnds == flow # Idle ~> flow = Idle

\* design-file-system.md: what is edited during a save is saved after it.  So edits of
\* the selected page that the service does not have are flagged, however fast the user is
\* (unless they were stored as another page before).
\* The code refutes it: EditLost.cfg.
LaterEditsAreFlagged ==
  /\ reliable /\ route = "editor" /\ flow = Idle /\ doc # NoDoc /\ doc.of = selected
  /\ \A p \in Pages : server[p].of = p
  => doc.has \subseteq server[selected].has \/ dirty \/ paint # {}

\* useAutoSave.ts:23: "bitmappery history 변화를 감지하여 자동 저장" (changes of the history are
\* detected and saved), and undo is one: what was undone the service has not, or the document
\* is flagged.
\* The code refutes it: UndoUnsaved.cfg.
UndoneIsFlagged ==
  Calm /\ doc # NoDoc /\ flow = Idle => undone \cap server[doc.of].has = {} \/ dirty \/ paint # {}

\* useAutoSave.ts:8-11: the save at every switch limits a loss to 30 seconds.  So a page that
\* was left for another is stored, if nothing fails and no switch is interrupted.
\* The code refutes it: QuickSwitch.cfg.
LeftPagesAreStored ==
  patient /\ reliable /\ steady /\ flow = Idle =>
    \A p \in Pages \ {selected} : cache[p].has \subseteq server[p].has \union undone

\* useAutoSave.ts: saving at every switch limits a loss to the last 30 seconds.  So what
\* the service has received it keeps, at least while the user waits and no request fails.
\* The code refutes it: StaleCache.cfg.
SavedIsKept == [][Calm => \A p \in Pages : server[p].has \subseteq server'[p].has \union undone]_vars
=============================================================================
