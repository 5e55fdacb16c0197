---------------------------- MODULE PageEditorProofs ----------------------------
(***************************************************************************)
(* PageEditor for any number of pages, edits and hosts.  While the user    *)
(* waits for what is under way and requests succeed, every page keeps its  *)
(* own document, and edits that are not stored are flagged.                *)
(***************************************************************************)
EXTENDS PageEditor, TLAPS

MaybePage == Pages \union {NoPage}
Waits == {"pending", "storing", "queued"}

\* What the tab may wait for, by kind.
LEMMA FlowKinds ==
  ASSUME NEW f \in Flows
  PROVE  /\ f.step \in {"idle", "saving", "loading", "leaving"}
         /\ f.step = "idle" <=> f = Idle
         /\ f.step = "saving" => f.from \in MaybePage /\ f.to \in Pages
         /\ f.step = "loading" => f.to \in Pages
         /\ f.step = "leaving" => f.at \in Hosts /\ f.todo \in SUBSET Hosts
<1>1. CASE f = Idle
  BY <1>1 DEF Idle
<1>2. CASE \E from \in Pages \union {NoPage}, to \in Pages : f = Saving(from, to)
  BY <1>2 DEF Idle, Saving, MaybePage
<1>3. CASE \E to \in Pages : f = Loading(to)
  BY <1>3 DEF Idle, Loading
<1>4. CASE \E at \in Hosts, todo \in SUBSET Hosts : f = Leaving(at, todo)
  BY <1>4 DEF Idle, Leaving
<1> QED
  BY <1>1, <1>2, <1>3, <1>4 DEF Flows

\* The kinds by how they are built.
LEMMA FlowMade ==
  /\ Idle \in Flows /\ Idle.step = "idle"
  /\ \A from \in MaybePage, to \in Pages :
       /\ Saving(from, to) \in Flows /\ Saving(from, to).step = "saving"
       /\ Saving(from, to).from = from /\ Saving(from, to).to = to
  /\ \A to \in Pages : /\ Loading(to) \in Flows /\ Loading(to).step = "loading"
                       /\ Loading(to).to = to
  /\ \A at \in Hosts, todo \in SUBSET Hosts :
       /\ Leaving(at, todo) \in Flows /\ Leaving(at, todo).step = "leaving"
       /\ Leaving(at, todo).at = at /\ Leaving(at, todo).todo = todo
<1>1. Idle \in Flows /\ Idle.step = "idle"
  BY DEF Flows, Idle
<1>2. ASSUME NEW from \in MaybePage, NEW to \in Pages
      PROVE  /\ Saving(from, to) \in Flows /\ Saving(from, to).step = "saving"
             /\ Saving(from, to).from = from /\ Saving(from, to).to = to
  BY DEF Flows, Saving, MaybePage
<1>3. ASSUME NEW to \in Pages
      PROVE  Loading(to) \in Flows /\ Loading(to).step = "loading" /\ Loading(to).to = to
  BY DEF Flows, Loading
<1>4. ASSUME NEW at \in Hosts, NEW todo \in SUBSET Hosts
      PROVE  /\ Leaving(at, todo) \in Flows /\ Leaving(at, todo).step = "leaving"
             /\ Leaving(at, todo).at = at /\ Leaving(at, todo).todo = todo
  BY DEF Flows, Leaving
<1> QED
  BY <1>1, <1>2, <1>3, <1>4

\* A document is not the missing one.
LEMMA DocumentIsSome ==
  ASSUME NEW d \in Document \union {NoDoc}
  PROVE  /\ d # NoDoc <=> d \in Document
         /\ d # NoDoc <=> d.of \in Pages
         /\ d # NoDoc <=> d.of # NoPage
         /\ d.of \in MaybePage /\ d.has \subseteq Edits
BY EditorAssumption DEF Document, NoDoc, MaybePage

\* A save is not the missing one.
LEMMA SaveIsSome ==
  /\ NoSave \notin Save
  /\ \A p \in Pages, d \in Document, b \in BOOLEAN :
       [page |-> p, blob |-> d, landed |-> b] \in Save
<1>1. ASSUME NEW s \in Save
      PROVE  s # NoSave
  BY EditorAssumption DEF Save, NoSave
<1> QED
  BY <1>1 DEF Save

-----------------------------------------------------------------------------
(***************************************************************************)
(* Types.                                                                  *)
(***************************************************************************)
TypeInv == TypeOK /\ flow \in Flows

\* The page that is saved is a page, when there is one.
LEMMA SavedPage ==
  ASSUME NEW explicit \in MaybePage, NEW current \in MaybePage, NEW marked \in MaybePage
  PROVE  PageToSave(explicit, current, marked) \in MaybePage
BY DEF PageToSave, OrElse

\* doSave keeps the types.
LEMMA SaveTypes ==
  ASSUME TypeOK, NEW H, NEW explicit \in MaybePage, NEW current \in MaybePage, NEW cleared,
         DoSave(H, explicit, current, cleared)
  PROVE  /\ dirty' \in BOOLEAN /\ dirtyPage' \in MaybePage
         /\ paint' \subseteq Waits /\ timers' \subseteq Hosts
         /\ savers' \in [Hosts -> Save \union {NoSave}]
<1> DEFINE marked == IF FlushPendingPaint THEN OrElse(current, dirtyPage) ELSE dirtyPage
           page == PageToSave(explicit, current, marked)
           saves == (dirty \/ FlushPendingPaint) /\ Savable(page)
           new == [page |-> page, blob |-> doc, landed |-> FALSE]
<1>1. /\ paint' = IF FlushPendingPaint THEN paint \ {"pending", "queued"} ELSE paint
      /\ dirty' = (dirty \/ FlushPendingPaint)
      /\ dirtyPage' = marked
      /\ timers' = IF FlushPendingPaint THEN TimersAgain ELSE timers \ cleared
      /\ savers' = [h \in Hosts |-> IF h \in H /\ saves THEN new ELSE savers[h]]
  BY DEF DoSave, SaveDocument
<1>2. marked \in MaybePage /\ page \in MaybePage
  <2>1. dirtyPage \in MaybePage
    BY DEF TypeOK, MaybePage
  <2>2. marked \in MaybePage
    BY <2>1 DEF OrElse
  <2> HIDE DEF marked
  <2> QED
    BY <2>2, SavedPage
<1>3. saves => new \in Save
  <2>1. Savable(page) => page \in Pages /\ doc \in Document
    <3> HIDE DEF page
    <3> QED
      BY <1>2, DocumentIsSome DEF TypeOK, Savable, MaybePage
  <2> HIDE DEF page
  <2> QED
    BY <2>1, SaveIsSome
<1> HIDE DEF marked, page, saves, new
<1>4. savers' \in [Hosts -> Save \union {NoSave}]
  BY <1>1, <1>3 DEF TypeOK
<1>5. dirty' \in BOOLEAN
  BY <1>1
<1>6. paint' \subseteq Waits /\ timers' \subseteq Hosts
  BY <1>1 DEF TypeOK, Waits, TimersAgain
<1> QED
  BY <1>1, <1>2, <1>4, <1>5, <1>6

\* An edit of the document, and its undo.
LEMMA EditTypes ==
  ASSUME TypeInv, (\E e \in Edits, way \in Ways : Edit(e, way)) \/ Undo
  PROVE  TypeInv'
<1> USE DEF TypeInv
<1>1. ASSUME NEW e \in Edits, NEW way \in Ways, Edit(e, way)
      PROVE  TypeInv'
  <2> DEFINE waits == IF way = "stroke" THEN "pending" ELSE "queued"
  <2>1. doc' = [doc EXCEPT !.has = @ \union {e}] /\ doc \in Document /\ selected \in MaybePage
    BY <1>1 DEF Edit, TypeOK, MaybePage
  <2>2. doc' \in Document
    BY <2>1 DEF Document
  <2>3. /\ spent' = spent \union {e} /\ spent' \subseteq Edits
        /\ undone' = undone /\ undone' \subseteq spent'
        /\ UNCHANGED <<route, selected, loaded, server, cache, fetched, savers, flow>>
    BY <1>1 DEF Edit, TypeOK
  <2>4. CASE way = "panel"
    <3>1. FlagDirty(selected, {Tab}) /\ latest' = {} /\ paint' = paint
      BY <1>1, <2>4 DEF Edit
    <3>2. dirty' \in BOOLEAN /\ dirtyPage' \in MaybePage /\ timers' \subseteq Hosts
      BY <2>1, <3>1, EditorAssumption DEF FlagDirty, OrElse, TypeOK, MaybePage
    <3> QED
      BY <2>2, <2>3, <3>1, <3>2 DEF TypeOK, MaybePage
  <2>5. CASE way # "panel"
    <3>1. /\ paint' = paint \union {waits} /\ latest' = OnTop(e, waits)
          /\ UNCHANGED <<dirty, dirtyPage, timers>>
      BY <1>1, <2>5 DEF Edit
    <3>2. paint' \subseteq {"pending", "storing", "queued"}
      BY <3>1 DEF TypeOK
    <3>3. latest' \subseteq spent'
      BY <2>3, <3>1 DEF OnTop, TypeOK
    <3> QED
      BY <2>2, <2>3, <3>1, <3>2, <3>3 DEF TypeOK
  <2> QED
    BY <2>4, <2>5
<1>2. CASE Undo
  <2>1. doc' = [doc EXCEPT !.has = @ \ latest] /\ doc \in Document
    BY <1>2 DEF Undo, TypeOK
  <2>2. doc' \in Document
    BY <2>1 DEF Document
  <2>3. /\ undone' = undone \union latest /\ latest' = {} /\ spent' = spent
        /\ UNCHANGED <<route, selected, loaded, server, cache, fetched, savers, flow>>
        /\ UNCHANGED <<dirty, dirtyPage, paint, timers>>
    BY <1>2 DEF Undo, flags
  <2> QED
    BY <2>2, <2>3 DEF TypeOK
<1> QED
  BY <1>1, <1>2

\* The steps that only move flags and saves: entries, timers, Ctrl+S and route guards.
LEMMA FlagTypes ==
  ASSUME TypeInv,
         \/ StorePaint \/ PaintStored \/ ProcessQueue \/ SaveKeys \/ LeaveEditor
         \/ \E h \in Hosts : TimerFires(h) \/ NextGuard(h)
  PROVE  TypeInv'
<1> USE DEF TypeInv
<1>0. /\ selected \in MaybePage /\ dirtyPage \in MaybePage /\ NoPage \in MaybePage
      /\ Tab \in Hosts
  BY EditorAssumption DEF TypeOK, MaybePage
<1>1. CASE StorePaint \/ PaintStored \/ ProcessQueue
  <2>1. /\ UNCHANGED <<route, selected, loaded, content, savers, flow, edited, mood>>
        /\ paint' \subseteq Waits /\ dirty' \in BOOLEAN /\ dirtyPage' \in MaybePage
        /\ timers' \subseteq Hosts
    BY <1>0, <1>1
       DEF StorePaint, PaintStored, ProcessQueue, SaveState, FlagDirty, OrElse, TimersAgain,
           TypeOK, Waits
  <2> QED
    BY <2>1 DEF TypeOK, MaybePage, Waits, content, edited
<1>2. ASSUME NEW H, NEW cleared, DoSave(H, NoPage, selected, cleared), flow' \in Flows,
             UNCHANGED <<route, selected, loaded, content, edited, mood>>
      PROVE  TypeInv'
  <2>1. /\ dirty' \in BOOLEAN /\ dirtyPage' \in MaybePage
        /\ paint' \subseteq Waits /\ timers' \subseteq Hosts
        /\ savers' \in [Hosts -> Save \union {NoSave}]
    BY <1>0, <1>2, SaveTypes
  <2>2. flow'.step \in {"idle", "saving", "loading", "leaving"}
    BY <1>2, FlowKinds
  <2> QED
    BY <1>2, <2>1, <2>2 DEF TypeOK, MaybePage, Waits, content, edited
<1>3. CASE SaveKeys
  BY <1>2, <1>3 DEF SaveKeys
<1>4. CASE LeaveEditor
  <2>1. Leaving(Tab, Hosts \ {Tab}) \in Flows
    BY <1>0, FlowMade
  <2> QED
    BY <1>2, <1>4, <2>1 DEF LeaveEditor, RouteGuard
<1>5. ASSUME NEW h \in Hosts, TimerFires(h)
      PROVE  TypeInv'
  BY <1>2, <1>5 DEF TimerFires
<1>6. ASSUME NEW h \in Hosts, NextGuard(h)
      PROVE  TypeInv'
  <2>1. flow.todo \in SUBSET Hosts
    BY <1>6, FlowKinds DEF NextGuard
  <2>2. Leaving(h, flow.todo \ {h}) \in Flows
    BY <2>1, FlowMade
  <2> QED
    BY <1>2, <1>6, <2>2 DEF NextGuard, RouteGuard
<1> QED
  BY <1>1, <1>3, <1>4, <1>5, <1>6

\* The requests, their ends, and the prefetch.
LEMMA RequestTypes ==
  ASSUME TypeInv,
         \/ \E h \in Hosts : SaveSteps(h)
         \/ \E p \in Pages : Prefetch(p) \/ StorePrefetched(p)
  PROVE  TypeInv'
<1> USE DEF TypeInv
<1>1. ASSUME NEW h \in Hosts, SaveLands(h)
      PROVE  TypeInv'
  <2>1. savers[h] \in Save /\ [savers[h] EXCEPT !.landed = TRUE] \in Save
    BY <1>1 DEF SaveLands, TypeOK, Save
  <2>2. /\ server' = [server EXCEPT ![savers[h].page] = savers[h].blob]
        /\ savers' = [savers EXCEPT ![h] = [savers[h] EXCEPT !.landed = TRUE]]
        /\ UNCHANGED <<route, selected, loaded, doc, cache, fetched, flags, flow, edited>>
    BY <1>1 DEF SaveLands, TypeOK
  <2>3. server' \in [Pages -> Document] /\ savers' \in [Hosts -> Save \union {NoSave}]
    BY <2>1, <2>2 DEF TypeOK, Save
  <2> QED
    BY <2>2, <2>3 DEF TypeOK, flags, edited
<1>2. ASSUME NEW h \in Hosts, SaveSucceeds(h) \/ SaveFails(h)
      PROVE  TypeInv'
  <2>1. /\ savers' \in [Hosts -> Save \union {NoSave}]
        /\ dirty' \in BOOLEAN /\ dirtyPage' \in MaybePage
        /\ UNCHANGED <<route, selected, loaded, content, paint, timers, flow, edited>>
    BY <1>2 DEF SaveSucceeds, SaveFails, TypeOK, flags, MaybePage
  <2> QED
    BY <2>1 DEF TypeOK, MaybePage, content, edited
<1>3. ASSUME NEW p \in Pages, Prefetch(p) \/ StorePrefetched(p)
      PROVE  TypeInv'
  <2>1. /\ cache' \in [Pages -> Document \union {NoDoc}]
        /\ fetched' \in [Pages -> Document \union {NoDoc}]
        /\ UNCHANGED <<route, selected, loaded, doc, server, flags, savers, flow, edited>>
    BY <1>3 DEF Prefetch, StorePrefetched, TypeOK
  <2> QED
    BY <2>1 DEF TypeOK, flags, edited
<1> QED
  BY <1>1, <1>2, <1>3 DEF SaveSteps

\* The steps of a switch, of leaving and of closing.
LEMMA SwitchTypes ==
  ASSUME TypeInv,
         \/ \E p \in Pages : SelectPage(p) \/ OpenEditor(p)
         \/ CachePage \/ LoadPage \/ LoadFails \/ EditorLeft \/ CloseProject
  PROVE  TypeInv'
<1> USE DEF TypeInv
<1>0. /\ selected \in MaybePage /\ NoPage \in MaybePage /\ Pages \subseteq MaybePage
      /\ Idle \in Flows /\ Idle.step = "idle"
  BY FlowMade DEF TypeOK, MaybePage
<1>1. ASSUME NEW p \in Pages, SelectPage(p)
      PROVE  TypeInv'
  <2>1. /\ UNCHANGED <<route, loaded, content, edited>> /\ selected' = p
    BY <1>1 DEF SelectPage
  <2>2. CASE flow # Idle
    <3>1. UNCHANGED <<flow, savers, flags>>
      BY <1>1, <2>2 DEF SelectPage
    <3> QED
      BY <2>1, <3>1 DEF TypeOK, content, edited, flags
  <2>3. CASE flow = Idle
    <3>1. flow' = Saving(selected, p) /\ DoSave({Tab}, selected, p, {Tab})
      BY <1>1, <2>3 DEF SelectPage
    <3>2. flow' \in Flows /\ flow'.step = "saving"
      BY <1>0, <3>1, FlowMade
    <3>3. /\ dirty' \in BOOLEAN /\ dirtyPage' \in MaybePage
          /\ paint' \subseteq Waits /\ timers' \subseteq Hosts
          /\ savers' \in [Hosts -> Save \union {NoSave}]
      BY <1>0, <3>1, SaveTypes
    <3> QED
      BY <2>1, <3>2, <3>3 DEF TypeOK, MaybePage, Waits, content, edited
  <2> QED
    BY <2>2, <2>3
<1>2. ASSUME NEW p \in Pages, OpenEditor(p)
      PROVE  TypeInv'
  <2>1. /\ route' = "editor" /\ selected' = p /\ flow' = Saving(NoPage, p)
        /\ UNCHANGED <<loaded, content, flags, savers, edited>>
    BY <1>2 DEF OpenEditor
  <2>2. flow' \in Flows /\ flow'.step = "saving"
    BY <1>0, <2>1, FlowMade
  <2> QED
    BY <2>1, <2>2 DEF TypeOK, content, flags, edited
<1>3. CASE CachePage
  <2>1. flow.to \in Pages /\ flow.from \in MaybePage
    BY <1>3, FlowKinds DEF CachePage
  <2>2. /\ flow' \in Flows /\ flow'.step \in {"idle", "saving", "loading", "leaving"}
        /\ cache' \in [Pages -> Document \union {NoDoc}]
        /\ UNCHANGED <<route, selected, loaded, doc, server, fetched, flags, savers, edited>>
    BY <1>0, <1>3, <2>1, FlowMade DEF CachePage, TypeOK, MaybePage
  <2> QED
    BY <2>2 DEF TypeOK, flags, edited
<1>4. CASE LoadPage
  <2>1. flow.to \in Pages
    BY <1>4, FlowKinds DEF LoadPage
  <2>2. /\ doc' \in Document \union {NoDoc} /\ loaded' \in Pages /\ flow' = Idle
        /\ paint' \subseteq paint /\ latest' = {}
        /\ UNCHANGED <<route, selected, server, cache, fetched, dirty, dirtyPage, timers,
                       savers, spent, undone>>
    BY <1>4, <2>1 DEF LoadPage, ResetHistory, TypeOK
  <2> QED
    BY <1>0, <2>2 DEF TypeOK
<1>5. CASE LoadFails
  <2>1. /\ flow' = Idle
        /\ UNCHANGED <<route, selected, loaded, content, flags, savers, edited>>
    BY <1>5 DEF LoadFails, AfterSwitch
  <2> QED
    BY <1>0, <2>1 DEF TypeOK, content, flags, edited
<1>6. CASE EditorLeft
  <2>1. /\ flow' = Idle /\ route' = "home" /\ timers' = {}
        /\ UNCHANGED <<selected, loaded, content, dirty, dirtyPage, paint, savers, edited>>
    BY <1>6 DEF EditorLeft
  <2> QED
    BY <1>0, <2>1 DEF TypeOK, content, edited
<1>7. CASE CloseProject
  <2>1. /\ doc' = NoDoc /\ loaded' = NoPage /\ selected' = NoPage
        /\ paint' \subseteq paint /\ latest' = {}
        /\ UNCHANGED <<route, server, cache, fetched, dirty, dirtyPage, timers, savers, flow,
                       spent, undone>>
    BY <1>7 DEF CloseProject, ResetHistory
  <2> QED
    BY <2>1 DEF TypeOK
<1> QED
  BY <1>1, <1>2, <1>3, <1>4, <1>5, <1>6, <1>7

\* Every step keeps the types.
LEMMA NextTypes ==
  ASSUME TypeInv, [Next]_vars
  PROVE  TypeInv'
<1>1. CASE UNCHANGED vars
  BY <1>1 DEF TypeInv, TypeOK, vars, content, flags, edited
<1>2. CASE Next
  BY <1>2, EditTypes, FlagTypes, RequestTypes, SwitchTypes DEF Next, User, FlowSteps
<1> QED
  BY <1>1, <1>2

\* The types are right at first.
LEMMA InitTypes == Init => TypeInv
<1> SUFFICES ASSUME Init
             PROVE  TypeInv
  OBVIOUS
<1>1. flow \in Flows /\ flow.step = "idle"
  BY FlowMade DEF Init
<1>2. server \in [Pages -> Document]
  BY DEF Init, Document
<1> QED
  BY <1>1, <1>2 DEF Init, TypeInv, TypeOK

-----------------------------------------------------------------------------
(***************************************************************************)
(* The calm user: what holds between two steps.                            *)
(***************************************************************************)
CalmState == TypeInv /\ Calm /\ CalmInv

\* No host saves, told host by host.
LEMMA NobodySaves ==
  ASSUME TypeInv
  PROVE  savers = [h \in Hosts |-> NoSave] <=> \A h \in Hosts : savers[h] = NoSave
BY DEF TypeInv, TypeOK

\* Where there is a document, and when the copies of a page are read.
LEMMA CalmFacts ==
  ASSUME CalmState
  PROVE  /\ doc = NoDoc <=> doc.of \notin Pages
         /\ doc # NoDoc <=> doc \in Document
         /\ route = "editor" /\ flow.step \in {"idle", "leaving"}
              => doc # NoDoc /\ doc.of = selected /\ selected \in Pages
         /\ paint # {} => route = "editor" /\ flow = Idle
         /\ flow.step = "idle" <=> flow = Idle
         /\ flow # Idle \/ route = "home" => paint = {}
         /\ selected \in MaybePage /\ dirty \in BOOLEAN
<1>1. doc \in Document \union {NoDoc} /\ route \in {"home", "editor"}
  BY DEF CalmState, TypeInv, TypeOK
<1>2. /\ doc # NoDoc <=> doc \in Document
      /\ doc # NoDoc <=> doc.of \in Pages
      /\ doc # NoDoc <=> doc.of # NoPage
  BY <1>1, DocumentIsSome
<1>3. flow.step = "idle" <=> flow = Idle
  BY FlowKinds DEF CalmState, TypeInv
<1>4. selected \in MaybePage /\ dirty \in BOOLEAN
  BY DEF CalmState, TypeInv, TypeOK, MaybePage
<1>5. FlowInv
  BY DEF CalmState, CalmInv
<1> QED
  BY <1>1, <1>2, <1>3, <1>4, <1>5 DEF FlowInv, MaybePage

\* The copies stay in step while none of them changes.
LEMMA CopiesKeep ==
  ASSUME CalmState, UNCHANGED <<content, undone>>
  PROVE  CopyInv'
BY DEF CalmState, CalmInv, CopyInv, Within, content

\* doSave of the page that is shown: it sends the document exactly if it is flagged or
\* paint is pending.
LEMMA SaveSends ==
  ASSUME CalmState, NEW H \in SUBSET Hosts, NEW explicit \in MaybePage,
         NEW current \in Pages, NEW cleared,
         doc # NoDoc, OrElse(explicit, current) = doc.of, DoSave(H, explicit, current, cleared)
  PROVE  /\ dirty' = (dirty \/ "pending" \in paint)
         /\ paint' = IF "pending" \in paint THEN paint \ {"pending", "queued"} ELSE paint
         /\ dirtyPage' = IF "pending" \in paint THEN current ELSE dirtyPage
         /\ \A h \in Hosts :
              savers'[h] = IF h \in H /\ dirty'
                           THEN [page |-> doc.of, blob |-> doc, landed |-> FALSE]
                           ELSE savers[h]
         /\ [page |-> doc.of, blob |-> doc, landed |-> FALSE] # NoSave
<1>0. current # NoPage /\ doc.of \in Pages /\ doc \in Document
  BY CalmFacts, EditorAssumption
<1>1. ASSUME NEW marked
      PROVE  PageToSave(explicit, current, marked) = doc.of
  BY <1>0 DEF PageToSave, OrElse
<1>2. doc.of # NoPage /\ Savable(doc.of)
  BY <1>0, EditorAssumption DEF Savable
<1>3. [page |-> doc.of, blob |-> doc, landed |-> FALSE] # NoSave
  BY <1>0, SaveIsSome
<1>4. OrElse(current, dirtyPage) = current
  BY <1>0 DEF OrElse
<1>5. /\ paint' = IF FlushPendingPaint THEN paint \ {"pending", "queued"} ELSE paint
      /\ dirty' = (dirty \/ FlushPendingPaint)
      /\ dirtyPage' = IF FlushPendingPaint THEN OrElse(current, dirtyPage) ELSE dirtyPage
      /\ savers' = [h \in Hosts |-> IF h \in H /\ (dirty \/ FlushPendingPaint)
                                    THEN [page |-> doc.of, blob |-> doc, landed |-> FALSE]
                                    ELSE savers[h]]
  BY <1>1, <1>2 DEF DoSave, SaveDocument
<1> QED
  BY <1>3, <1>4, <1>5 DEF FlushPendingPaint

\* After a doSave the saves carry the document, and what the service lacks is flagged.
LEMMA SaveKeeps ==
  ASSUME CalmState, NEW H \in SUBSET Hosts, NEW explicit \in MaybePage,
         NEW current \in Pages, NEW cleared,
         doc # NoDoc, OrElse(explicit, current) = doc.of, DoSave(H, explicit, current, cleared),
         UNCHANGED <<content, undone, loaded>>
  PROVE  /\ SaverInv' /\ CopyInv'
         /\ doc # NoDoc /\ ~Within(doc, server[doc.of])' => dirty' \/ paint' # {}
<1>1. /\ dirty' = (dirty \/ "pending" \in paint)
      /\ paint' = IF "pending" \in paint THEN paint \ {"pending", "queued"} ELSE paint
      /\ \A h \in Hosts :
           savers'[h] = IF h \in H /\ dirty'
                        THEN [page |-> doc.of, blob |-> doc, landed |-> FALSE]
                        ELSE savers[h]
  BY SaveSends
<1>2. doc' = doc /\ server' = server /\ undone' = undone
  BY DEF content
<1>3. SaverInv'
  BY <1>1, <1>2 DEF CalmState, CalmInv, SaverInv, Within
<1>4. doc # NoDoc /\ ~Within(doc, server[doc.of])' => dirty' \/ paint' # {}
  BY <1>1, <1>2 DEF CalmState, CalmInv, UnsavedIsFlagged, Within
<1> QED
  BY <1>3, <1>4, CopiesKeep

-----------------------------------------------------------------------------
\* An edit makes the document more than any copy, and is flagged or waits for its entry.
LEMMA EditCalm ==
  ASSUME CalmState, TypeInv', NEW e \in Edits, NEW way \in Ways, Edit(e, way)
  PROVE  CalmInv'
<1> USE DEF CalmState, CalmInv
<1>1. /\ Quiet /\ route = "editor" /\ doc # NoDoc
      /\ doc' = [doc EXCEPT !.has = @ \union {e}]
      /\ UNCHANGED <<route, selected, loaded, server, cache, fetched, savers, flow, undone>>
  BY DEF Edit, UserActs, Calm
<1>2. flow = Idle /\ flow.step = "idle" /\ \A h \in Hosts : savers[h] = NoSave
  BY <1>1, FlowMade, NobodySaves DEF Quiet
<1>3. doc \in Document /\ doc.of \in Pages /\ doc.of = selected /\ selected # NoPage
  BY <1>1, <1>2, CalmFacts, EditorAssumption
<1>4. doc'.of = doc.of /\ doc'.has = doc.has \union {e} /\ doc' # NoDoc
  BY <1>1, <1>3, EditorAssumption DEF Document, NoDoc
<1>5. \/ dirty' = TRUE /\ dirtyPage' = selected
      \/ paint' # {} /\ dirty' = dirty /\ dirtyPage' = dirtyPage
  BY <1>1, <1>3 DEF Edit, FlagDirty, OrElse
<1>6. FlowInv'
  BY <1>1, <1>2, <1>3, <1>4, <1>5 DEF FlowInv, Saved, SavedBy
<1>7. SaverInv'
  BY <1>1, <1>2 DEF SaverInv
<1>8. CopyInv'
  BY <1>1, <1>4 DEF CopyInv, Within
<1>9. UnsavedIsFlagged'
  BY <1>1, <1>3, <1>4, <1>5 DEF UnsavedIsFlagged, FlowInv, Idle
<1> QED
  BY <1>6, <1>7, <1>8, <1>9

\* An undo takes edits from the document that no copy is asked for any more.
LEMMA UndoCalm ==
  ASSUME CalmState, TypeInv', Undo
  PROVE  CalmInv'
<1> USE DEF CalmState, CalmInv
<1>1. /\ Quiet /\ route = "editor" /\ doc # NoDoc
      /\ doc' = [doc EXCEPT !.has = @ \ latest] /\ undone' = undone \union latest
      /\ UNCHANGED <<route, selected, loaded, server, cache, fetched, savers, flow>>
      /\ UNCHANGED <<dirty, dirtyPage, paint, timers>>
  BY DEF Undo, UserActs, Calm, flags
<1>2. flow = Idle /\ flow.step = "idle" /\ \A h \in Hosts : savers[h] = NoSave
  BY <1>1, FlowMade, NobodySaves DEF Quiet
<1>3. doc \in Document /\ doc.of \in Pages
  BY <1>1, CalmFacts
<1>4. doc'.of = doc.of /\ doc'.has = doc.has \ latest /\ doc' # NoDoc
  BY <1>1, <1>3, EditorAssumption DEF Document, NoDoc
<1>5. FlowInv'
  BY <1>1, <1>2, <1>4 DEF FlowInv, Saved, SavedBy
<1>6. SaverInv'
  BY <1>1, <1>2 DEF SaverInv
<1>7. CopyInv'
  BY <1>1, <1>4 DEF CopyInv, Within
<1>8. UnsavedIsFlagged'
  BY <1>1, <1>4 DEF UnsavedIsFlagged, Within
<1> QED
  BY <1>5, <1>6, <1>7, <1>8

\* Entries are made only while the tab is idle, so they flag the page that is shown.
LEMMA EntryCalm ==
  ASSUME CalmState, TypeInv', StorePaint \/ PaintStored \/ ProcessQueue
  PROVE  CalmInv'
<1> USE DEF CalmState, CalmInv
<1>1. /\ paint # {}
      /\ UNCHANGED <<route, selected, loaded, content, savers, flow, undone>>
  BY DEF StorePaint, PaintStored, ProcessQueue, SaveState, edited
<1>2. /\ route = "editor" /\ flow = Idle /\ flow.step = "idle"
      /\ doc # NoDoc /\ doc.of = selected /\ selected # NoPage
  BY <1>1, CalmFacts, EditorAssumption
<1>3. \/ dirty' = TRUE /\ dirtyPage' = selected
      \/ paint' # {} /\ dirty' = dirty /\ dirtyPage' = dirtyPage
  <2>1. CASE StorePaint
    BY <2>1 DEF StorePaint
  <2>2. CASE PaintStored \/ ProcessQueue
    BY <1>2, <2>2 DEF PaintStored, ProcessQueue, SaveState, FlagDirty, OrElse
  <2> QED
    BY <2>1, <2>2
<1>4. doc' = doc /\ server' = server /\ undone' = undone
  BY <1>1 DEF content
<1>5. FlowInv'
  BY <1>1, <1>2, <1>3, <1>4 DEF FlowInv, Saved, SavedBy
<1>6. SaverInv'
  BY <1>1, <1>4 DEF SaverInv, Within
<1>7. CopyInv'
  BY <1>1, CopiesKeep
<1>8. UnsavedIsFlagged'
  BY <1>2, <1>3, <1>4 DEF UnsavedIsFlagged, FlowInv, Within
<1> QED
  BY <1>5, <1>6, <1>7, <1>8

\* Timers and Ctrl+S save the page that is shown and leave the tab idle.
LEMMA TimerCalm ==
  ASSUME CalmState, TypeInv', SaveKeys \/ \E h \in Hosts : TimerFires(h)
  PROVE  CalmInv'
<1> USE DEF CalmState, CalmInv
<1>1. PICK H \in SUBSET Hosts, cleared \in {Hosts} \union {{h} : h \in Hosts} :
        /\ DoSave(H, NoPage, selected, cleared)
        /\ UNCHANGED <<route, selected, loaded, content, flow, undone>>
        /\ route = "editor" /\ flow = Idle
  BY DEF SaveKeys, TimerFires, Calm, UserActs, Quiet, edited
<1>2. /\ flow.step = "idle" /\ doc # NoDoc /\ doc.of = selected /\ selected \in Pages
      /\ NoPage \in MaybePage /\ OrElse(NoPage, selected) = doc.of
  BY <1>1, CalmFacts DEF OrElse, MaybePage
<1>3. /\ SaverInv' /\ CopyInv'
      /\ doc # NoDoc /\ ~Within(doc, server[doc.of])' => dirty' \/ paint' # {}
  BY <1>1, <1>2, SaveKeeps
<1>4. /\ dirty' = (dirty \/ "pending" \in paint)
      /\ dirtyPage' = IF "pending" \in paint THEN selected ELSE dirtyPage
  BY <1>1, <1>2, SaveSends
<1>5. doc' = doc
  BY <1>1 DEF content
<1>6. FlowInv'
  BY <1>1, <1>2, <1>4, <1>5 DEF FlowInv, Saved, SavedBy
<1>7. UnsavedIsFlagged'
  BY <1>1, <1>2, <1>3, <1>4, <1>5 DEF UnsavedIsFlagged, FlowInv, Within
<1> QED
  BY <1>3, <1>6, <1>7

\* The route guards: the tab's saves what is flagged, the others find nothing to save.
LEMMA GuardCalm ==
  ASSUME CalmState, TypeInv', LeaveEditor \/ \E h \in Hosts : NextGuard(h)
  PROVE  CalmInv'
<1> USE DEF CalmState, CalmInv
<1>0. Tab \in Hosts /\ NoPage \in MaybePage
  BY EditorAssumption DEF MaybePage
<1>1. PICK h \in Hosts, todo \in SUBSET Hosts :
        /\ DoSave({h}, NoPage, selected, {})
        /\ flow' = Leaving(h, todo)
        /\ UNCHANGED <<route, selected, loaded, content, undone>>
        /\ route = "editor" /\ flow.step \in {"idle", "leaving"}
        /\ \A g \in Hosts : savers[g] = NoSave
        /\ paint \subseteq {"pending"}
  <2>1. CASE LeaveEditor
    <3>1. Quiet /\ "queued" \notin paint /\ route = "editor" /\ RouteGuard(Tab, Hosts \ {Tab})
      BY <2>1 DEF LeaveEditor, UserLeaves, UserActs, Calm
    <3>2. \A g \in Hosts : savers[g] = NoSave
      BY <3>1, NobodySaves DEF Quiet
    <3>3. paint \subseteq {"pending"}
      BY <3>1 DEF Quiet, TypeInv, TypeOK
    <3>4. Hosts \ {Tab} \in SUBSET Hosts
      OBVIOUS
    <3> QED
      BY <1>0, <3>1, <3>2, <3>3, <3>4, FlowMade DEF RouteGuard, Quiet, edited
  <2>2. ASSUME NEW h \in Hosts, NextGuard(h)
        PROVE  \E todo \in SUBSET Hosts :
                 /\ DoSave({h}, NoPage, selected, {})
                 /\ flow' = Leaving(h, todo)
                 /\ UNCHANGED <<route, selected, loaded, content, undone>>
                 /\ route = "editor" /\ flow.step \in {"idle", "leaving"}
                 /\ \A g \in Hosts : savers[g] = NoSave
                 /\ paint \subseteq {"pending"}
    <3>1. /\ flow.step = "leaving" /\ flow # Idle /\ savers[flow.at] = NoSave
          /\ RouteGuard(h, flow.todo \ {h}) /\ flow.todo \ {h} \in SUBSET Hosts
      BY <2>2, FlowKinds, FlowMade DEF NextGuard, TypeInv
    <3>2. /\ route = "editor" /\ paint = {} /\ SavedBy(flow.at)
      BY <3>1 DEF FlowInv
    <3> QED
      BY <3>1, <3>2 DEF RouteGuard, SavedBy, edited
  <2> QED
    BY <2>1, <2>2
<1>2. /\ doc # NoDoc /\ doc.of = selected /\ selected \in Pages
      /\ OrElse(NoPage, selected) = doc.of
  BY <1>1, CalmFacts DEF OrElse
<1>3. /\ SaverInv' /\ CopyInv'
      /\ doc # NoDoc /\ ~Within(doc, server[doc.of])' => dirty' \/ paint' # {}
  BY <1>0, <1>1, <1>2, SaveKeeps
<1>4. /\ dirty' = (dirty \/ "pending" \in paint)
      /\ paint' = IF "pending" \in paint THEN paint \ {"pending", "queued"} ELSE paint
      /\ dirtyPage' = IF "pending" \in paint THEN selected ELSE dirtyPage
      /\ \A g \in Hosts :
           savers'[g] = IF g \in {h} /\ dirty'
                        THEN [page |-> doc.of, blob |-> doc, landed |-> FALSE] ELSE savers[g]
      /\ [page |-> doc.of, blob |-> doc, landed |-> FALSE] # NoSave
  BY <1>0, <1>1, <1>2, SaveSends
<1>5. paint' = {} /\ doc' = doc
  BY <1>1, <1>4 DEF content
<1>6. flow'.step = "leaving" /\ flow'.at = h /\ flow' # Idle
  BY <1>1, FlowMade
<1>7. SavedBy(h)'
  BY <1>1, <1>4 DEF SavedBy
<1>8. dirty' => dirtyPage' = doc.of
  BY <1>1, <1>2, <1>4 DEF FlowInv
<1>9. FlowInv'
  BY <1>1, <1>2, <1>5, <1>6, <1>7, <1>8 DEF FlowInv, SavedBy
<1>10. UnsavedIsFlagged'
  BY <1>3, <1>5, <1>6 DEF UnsavedIsFlagged, Within
<1> QED
  BY <1>3, <1>9, <1>10

\* A switch begins with a save of the page that is left, under its own id.
LEMMA SelectCalm ==
  ASSUME CalmState, TypeInv', NEW p \in Pages, SelectPage(p)
  PROVE  CalmInv'
<1> USE DEF CalmState, CalmInv
<1>1. /\ Quiet /\ "queued" \notin paint /\ route = "editor" /\ flow = Idle /\ flow.step = "idle"
      /\ selected' = p /\ flow' = Saving(selected, p) /\ DoSave({Tab}, selected, p, {Tab})
      /\ UNCHANGED <<route, loaded, content, undone>>
  BY FlowMade DEF SelectPage, UserLeaves, UserActs, Calm, Quiet, edited
<1>2. /\ \A g \in Hosts : savers[g] = NoSave
      /\ paint \subseteq {"pending"}
  BY <1>1, NobodySaves DEF Quiet, TypeInv, TypeOK
<1>3. /\ doc # NoDoc /\ doc.of = selected /\ selected \in Pages /\ selected \in MaybePage
      /\ OrElse(selected, p) = doc.of /\ {Tab} \in SUBSET Hosts
  BY <1>1, CalmFacts, EditorAssumption DEF OrElse
<1>4. /\ SaverInv' /\ CopyInv'
      /\ doc # NoDoc /\ ~Within(doc, server[doc.of])' => dirty' \/ paint' # {}
  BY <1>1, <1>3, SaveKeeps
<1>5. /\ dirty' = (dirty \/ "pending" \in paint)
      /\ paint' = IF "pending" \in paint THEN paint \ {"pending", "queued"} ELSE paint
      /\ \A g \in Hosts :
           savers'[g] = IF g \in {Tab} /\ dirty'
                        THEN [page |-> doc.of, blob |-> doc, landed |-> FALSE] ELSE savers[g]
      /\ [page |-> doc.of, blob |-> doc, landed |-> FALSE] # NoSave
  BY <1>1, <1>3, SaveSends
<1>6. paint' = {} /\ doc' = doc
  BY <1>1, <1>2, <1>5 DEF content
<1>7. /\ flow'.step = "saving" /\ flow'.from = selected /\ flow'.to = p /\ flow' # Idle
  BY <1>1, <1>3, FlowMade
<1>8. SavedBy(Tab)'
  BY <1>2, <1>5, EditorAssumption DEF SavedBy
<1>9. FlowInv'
  BY <1>1, <1>3, <1>6, <1>7, <1>8, EditorAssumption DEF FlowInv, SavedBy
<1>10. UnsavedIsFlagged'
  BY <1>4, <1>6, <1>7 DEF UnsavedIsFlagged, Within
<1> QED
  BY <1>4, <1>9, <1>10

\* The editor opens on a project that has nothing unsaved.
LEMMA OpenCalm ==
  ASSUME CalmState, TypeInv', NEW p \in Pages, OpenEditor(p)
  PROVE  CalmInv'
<1> USE DEF CalmState, CalmInv
<1>1. /\ Quiet /\ route = "home" /\ route' = "editor" /\ selected' = p
      /\ flow' = Saving(NoPage, p)
      /\ UNCHANGED <<loaded, content, dirty, dirtyPage, paint, savers, undone>>
  BY DEF OpenEditor, UserActs, Calm, flags, edited
<1>2. /\ \A g \in Hosts : savers[g] = NoSave
      /\ paint = {} /\ ~dirty
      /\ doc' = doc /\ server' = server
  BY <1>1, NobodySaves DEF Quiet, FlowInv, Saved, content
<1>3. /\ flow'.step = "saving" /\ flow'.from = NoPage /\ flow'.to = p /\ flow' # Idle
  BY <1>1, FlowMade DEF MaybePage
<1>4. FlowInv'
  BY <1>1, <1>2, <1>3, EditorAssumption DEF FlowInv, SavedBy
<1>5. SaverInv' /\ UnsavedIsFlagged'
  BY <1>1, <1>2, <1>3 DEF SaverInv, UnsavedIsFlagged, Within
<1> QED
  BY <1>1, <1>4, <1>5, CopiesKeep

\* What lands is the document that is shown, on its own page: every copy is within it.
LEMMA LandCalm ==
  ASSUME CalmState, TypeInv', NEW h \in Hosts, SaveLands(h)
  PROVE  CalmInv'
<1> USE DEF CalmState, CalmInv
<1> DEFINE d == doc.of
<1>1. /\ savers[h] # NoSave /\ savers[h] \in Save
      /\ savers' = [savers EXCEPT ![h].landed = TRUE]
      /\ server' = [server EXCEPT ![savers[h].page] = savers[h].blob]
      /\ UNCHANGED <<route, selected, loaded, doc, cache, fetched, flow, undone>>
      /\ UNCHANGED <<dirty, dirtyPage, paint, timers>>
  BY DEF SaveLands, flags, edited, TypeInv, TypeOK
<1>2. doc # NoDoc /\ savers[h].page = d /\ savers[h].blob = doc /\ d \in Pages
  BY <1>1, CalmFacts DEF SaverInv
<1>3. server'[d] = doc /\ \A p \in Pages \ {d} : server'[p] = server[p]
  BY <1>1, <1>2 DEF TypeInv, TypeOK
<1>4. \A g \in Hosts \ {h} : savers'[g] = savers[g]
  BY <1>1 DEF TypeInv, TypeOK
<1>5. /\ savers'[h] # NoSave /\ savers'[h].page = d /\ savers'[h].blob = doc
  <2>1. savers'[h] = [savers[h] EXCEPT !.landed = TRUE]
    BY <1>1 DEF TypeInv, TypeOK
  <2>2. savers'[h] \in Save /\ savers'[h].page = savers[h].page /\ savers'[h].blob = savers[h].blob
    BY <1>1, <2>1 DEF Save
  <2> QED
    BY <1>2, <2>2, SaveIsSome
<1>6. FlowInv'
  <2>1. \A g \in Hosts : savers'[g] = NoSave <=> savers[g] = NoSave
    BY <1>1, <1>4, <1>5
  <2>2. Saved' <=> Saved
    BY <1>1, <2>1, NobodySaves DEF Saved, TypeInv, TypeOK
  <2>3. Tab \in Hosts /\ (flow.step = "leaving" => flow.at \in Hosts)
    BY FlowKinds, EditorAssumption DEF TypeInv
  <2> QED
    BY <1>1, <2>1, <2>2, <2>3 DEF FlowInv, SavedBy
<1>7. SaverInv'
  BY <1>1, <1>2, <1>3, <1>4, <1>5 DEF SaverInv, Within
<1>8. CopyInv'
  BY <1>1, <1>2, <1>3 DEF CopyInv, Within
<1>9. UnsavedIsFlagged'
  BY <1>1, <1>2, <1>3 DEF UnsavedIsFlagged, Within
<1> QED
  BY <1>6, <1>7, <1>8, <1>9

\* A save ends: the service has what is shown, so the flag may go.
LEMMA SucceedCalm ==
  ASSUME CalmState, TypeInv', NEW h \in Hosts, SaveSucceeds(h)
  PROVE  CalmInv'
<1> USE DEF CalmState, CalmInv
<1>1. /\ savers[h] # NoSave /\ savers[h].landed
      /\ savers' = [savers EXCEPT ![h] = NoSave] /\ dirty' = FALSE
      /\ UNCHANGED <<route, selected, loaded, content, paint, flow, undone>>
  BY DEF SaveSucceeds, edited
<1>2. Within(doc, server[doc.of])
  BY <1>1 DEF SaverInv
<1>3. \A g \in Hosts : savers'[g] = IF g = h THEN NoSave ELSE savers[g]
  BY <1>1 DEF TypeInv, TypeOK
<1>4. doc' = doc /\ server' = server
  BY <1>1 DEF content
<1>5. Saved => Saved'
  BY <1>1, <1>3, NobodySaves DEF Saved
<1>6. FlowInv'
  BY <1>1, <1>3, <1>4, <1>5 DEF FlowInv, SavedBy
<1>7. SaverInv' /\ UnsavedIsFlagged'
  BY <1>1, <1>2, <1>3, <1>4 DEF SaverInv, UnsavedIsFlagged, Within
<1> QED
  BY <1>1, <1>6, <1>7, CopiesKeep

\* The page that is left goes to the cache when it is saved.
LEMMA CacheCalm ==
  ASSUME CalmState, TypeInv', CachePage
  PROVE  CalmInv'
<1> USE DEF CalmState, CalmInv
<1>1. /\ flow.step = "saving" /\ flow # Idle /\ savers[Tab] = NoSave
      /\ UNCHANGED <<route, selected, loaded, doc, server, fetched, savers, undone>>
      /\ UNCHANGED <<dirty, dirtyPage, paint, timers>>
  BY FlowMade DEF CachePage, flags, edited
<1>2. /\ route = "editor" /\ paint = {} /\ ~dirty /\ \A g \in Hosts : savers[g] = NoSave
      /\ flow.to = selected /\ flow.from \in {NoPage, doc.of} /\ loaded = doc.of
      /\ flow.to \in Pages
  BY <1>1, FlowKinds DEF FlowInv, SavedBy, TypeInv
<1>3. doc # NoDoc => Within(doc, server[doc.of])
  BY <1>2 DEF UnsavedIsFlagged
<1>4. SaverInv' /\ Saved'
  BY <1>1, <1>2, NobodySaves DEF SaverInv, Saved
<1>5. \/ flow' = Idle /\ flow.to = loaded
      \/ flow' = Loading(flow.to)
  BY DEF CachePage
<1>6. FlowInv'
  BY <1>1, <1>2, <1>4, <1>5, FlowMade DEF FlowInv, Saved
<1>7. UnsavedIsFlagged'
  BY <1>1, <1>2, <1>3 DEF UnsavedIsFlagged, Within
<1>8. CopyInv'
  <2>1. \/ cache' = cache
        \/ doc # NoDoc /\ doc.of \in Pages /\ cache' = [cache EXCEPT ![doc.of] = doc]
    BY <1>2, CalmFacts DEF CachePage
  <2>2. CASE cache' = cache
    BY <1>1, <2>2, CopiesKeep DEF content
  <2>3. CASE doc # NoDoc /\ doc.of \in Pages /\ cache' = [cache EXCEPT ![doc.of] = doc]
    <3>1. /\ cache'[doc.of] = doc /\ \A p \in Pages \ {doc.of} : cache'[p] = cache[p]
      BY <2>3 DEF TypeInv, TypeOK
    <3> QED
      BY <1>1, <1>3, <2>3, <3>1 DEF CopyInv, Within
  <2> QED
    BY <2>1, <2>2, <2>3
<1> QED
  BY <1>4, <1>6, <1>7, <1>8

\* The page that was selected is loaded, from a copy the service has.
LEMMA LoadCalm ==
  ASSUME CalmState, TypeInv', LoadPage
  PROVE  CalmInv'
<1> USE DEF CalmState, CalmInv
<1>0. PICK p \in Pages : flow.step = "loading" /\ p = flow.to
  BY FlowKinds DEF LoadPage, TypeInv
<1>1. /\ flow.step = "loading" /\ flow # Idle /\ flow' = Idle /\ flow'.step = "idle" /\ loaded' = p
      /\ doc' = IF cache[p] # NoDoc THEN cache[p] ELSE server[p]
      /\ UNCHANGED <<route, selected, server, cache, fetched, savers, undone>>
      /\ UNCHANGED <<dirty, dirtyPage, timers>>
  BY <1>0, FlowMade DEF LoadPage
<1>2. /\ route = "editor" /\ paint = {} /\ p = selected /\ Saved
      /\ \A g \in Hosts : savers[g] = NoSave
  BY <1>0, <1>1, NobodySaves DEF FlowInv, Saved, TypeInv
<1>3. paint' = {}
  BY <1>2 DEF LoadPage, ResetHistory
<1>4. doc' # NoDoc /\ doc'.of = p
  <2>1. cache[p] \in Document \union {NoDoc} /\ server[p] \in Document /\ server[p].of = p
    BY <1>2 DEF TypeInv, TypeOK, CopyInv
  <2>2. cache[p] # NoDoc => cache[p].of = p
    BY <1>2, <2>1, DocumentIsSome, EditorAssumption DEF CopyInv
  <2>3. server[p] # NoDoc
    BY <2>1, DocumentIsSome
  <2> QED
    BY <1>1, <2>1, <2>2, <2>3
<1>5. Within(doc, server[p])'
  BY <1>1, <1>2 DEF CopyInv, Within
<1>6. FlowInv'
  BY <1>1, <1>2, <1>3, <1>4 DEF FlowInv, Saved
<1>7. SaverInv'
  BY <1>1, <1>2 DEF SaverInv
<1>8. UnsavedIsFlagged'
  BY <1>1, <1>2, <1>4, <1>5 DEF UnsavedIsFlagged, Saved, Within
<1>9. CopyInv'
  BY <1>1, <1>4 DEF CopyInv, Within
<1> QED
  BY <1>6, <1>7, <1>8, <1>9

\* The editor is left, and the project closed, with nothing unsaved.
LEMMA CloseCalm ==
  ASSUME CalmState, TypeInv', EditorLeft \/ CloseProject
  PROVE  CalmInv'
<1> USE DEF CalmState, CalmInv
<1>1. CASE EditorLeft
  <2>1. /\ flow.step = "leaving" /\ flow # Idle /\ savers[flow.at] = NoSave
        /\ flow' = Idle /\ route' = "home"
        /\ UNCHANGED <<selected, loaded, content, dirty, dirtyPage, paint, savers, undone>>
    BY <1>1, FlowMade DEF EditorLeft, edited
  <2>2. /\ paint = {} /\ ~dirty /\ \A g \in Hosts : savers[g] = NoSave
        /\ doc' = doc /\ server' = server
    BY <2>1 DEF FlowInv, SavedBy, content
  <2>3. Saved'
    BY <2>1, <2>2, NobodySaves DEF Saved
  <2>4. FlowInv'
    BY <2>1, <2>2, <2>3, FlowMade DEF FlowInv, Saved
  <2>5. SaverInv' /\ UnsavedIsFlagged'
    BY <2>1, <2>2 DEF SaverInv, UnsavedIsFlagged, Within
  <2> QED
    BY <2>1, <2>4, <2>5, CopiesKeep
<1>2. CASE CloseProject
  <2>1. /\ route = "home" /\ doc' = NoDoc /\ loaded' = NoPage
        /\ paint' = paint \ {"queued"}
        /\ UNCHANGED <<route, server, cache, fetched, dirty, dirtyPage, savers, flow, undone>>
    BY <1>2 DEF CloseProject, ResetHistory
  <2>2. /\ paint = {} /\ Saved /\ flow = Idle /\ flow.step = "idle"
        /\ \A g \in Hosts : savers[g] = NoSave
    BY <2>1, NobodySaves, FlowMade DEF FlowInv, Saved
  <2>3. NoDoc.of = NoPage /\ \A p \in Pages : p # NoPage
    BY EditorAssumption DEF NoDoc
  <2>4. FlowInv'
    BY <2>1, <2>2, <2>3 DEF FlowInv, Saved
  <2>5. SaverInv' /\ UnsavedIsFlagged' /\ CopyInv'
    BY <2>1, <2>2, <2>3 DEF SaverInv, UnsavedIsFlagged, CopyInv, Within, Saved
  <2> QED
    BY <2>4, <2>5
<1> QED
  BY <1>1, <1>2

\* What is prefetched the service has, and whoever replaces it later has it too.
LEMMA PrefetchCalm ==
  ASSUME CalmState, TypeInv', NEW p \in Pages, Prefetch(p) \/ StorePrefetched(p)
  PROVE  CalmInv'
<1> USE DEF CalmState, CalmInv
<1>1. /\ UNCHANGED <<route, selected, loaded, doc, server, savers, flow, undone>>
      /\ UNCHANGED <<dirty, dirtyPage, paint, timers>>
  BY DEF Prefetch, StorePrefetched, flags, edited
<1>2. FlowInv' /\ SaverInv' /\ UnsavedIsFlagged'
  BY <1>1 DEF FlowInv, Saved, SavedBy, SaverInv, UnsavedIsFlagged, Within
<1>3. CopyInv'
  <2>1. CASE Prefetch(p)
    <3>1. /\ cache[p] = NoDoc /\ cache' = cache
          /\ fetched'[p] = server[p] /\ \A q \in Pages \ {p} : fetched'[q] = fetched[q]
      BY <2>1 DEF Prefetch, TypeInv, TypeOK
    <3> QED
      BY <1>1, <3>1 DEF CopyInv, Within
  <2>2. CASE StorePrefetched(p)
    <3>1. /\ fetched[p] # NoDoc /\ fetched'[p] = NoDoc /\ cache'[p] = fetched[p]
          /\ \A q \in Pages \ {p} : fetched'[q] = fetched[q] /\ cache'[q] = cache[q]
      BY <2>2 DEF StorePrefetched, TypeInv, TypeOK
    <3>2. NoDoc.of = NoPage
      BY DEF NoDoc
    <3> QED
      BY <1>1, <3>1, <3>2 DEF CopyInv, Within
  <2> QED
    BY <2>1, <2>2
<1> QED
  BY <1>2, <1>3

-----------------------------------------------------------------------------
\* Every step of a calm user keeps what the waits and the copies rely on.
LEMMA NextCalm ==
  ASSUME CalmState, [Next]_vars
  PROVE  CalmInv'
<1>0. TypeInv'
  BY NextTypes DEF CalmState
<1>1. CASE UNCHANGED vars
  <2>1. /\ UNCHANGED <<content, undone>>
        /\ UNCHANGED <<route, selected, loaded, savers, flow, dirty, dirtyPage, paint>>
        /\ doc' = doc /\ server' = server
    BY <1>1 DEF vars, content, edited, flags
  <2>2. FlowInv' /\ SaverInv' /\ UnsavedIsFlagged'
    BY <2>1 DEF CalmState, CalmInv, FlowInv, Saved, SavedBy, SaverInv, UnsavedIsFlagged, Within
  <2> QED
    BY <2>1, <2>2, CopiesKeep DEF CalmInv
<1>2. CASE User
  BY <1>0, <1>2, EditCalm, UndoCalm, SelectCalm, OpenCalm, TimerCalm, GuardCalm, CloseCalm
     DEF User
<1>3. CASE FlowSteps
  <2>1. ~LoadFails
    BY DEF CalmState, Calm, LoadFails
  <2> QED
    BY <1>0, <1>3, <2>1, CacheCalm, LoadCalm, CloseCalm, GuardCalm DEF FlowSteps
<1>4. ASSUME NEW h \in Hosts, SaveSteps(h)
      PROVE  CalmInv'
  <2>1. ~SaveFails(h)
    BY DEF CalmState, Calm, SaveFails
  <2> QED
    BY <1>0, <1>4, <2>1, LandCalm, SucceedCalm DEF SaveSteps
<1> QED
  BY <1>0, <1>1, <1>2, <1>3, <1>4, EntryCalm, TimerCalm, PrefetchCalm DEF Next

\* What may go wrong is chosen once.
LEMMA MoodStays ==
  ASSUME [Next]_vars
  PROVE  Calm' <=> Calm
<1>1. UNCHANGED mood
  BY DEF Next, User, FlowSteps, SaveSteps, Edit, SelectPage, OpenEditor, Undo, SaveKeys,
         LeaveEditor, CloseProject, CachePage, LoadPage, LoadFails, EditorLeft, NextGuard,
         RouteGuard, StorePaint, PaintStored, ProcessQueue, SaveState, TimerFires, SaveLands,
         SaveSucceeds, SaveFails, Prefetch, StorePrefetched, vars
<1> QED
  BY <1>1 DEF mood, Calm

\* The rest of the invariant holds at first.
LEMMA InitCalm == Init => CalmInv
<1> SUFFICES ASSUME Init
             PROVE  CalmInv
  OBVIOUS
<1>1. /\ flow = Idle /\ flow.step = "idle" /\ NoDoc.of = NoPage /\ NoDoc.has = {}
      /\ \A h \in Hosts : savers[h] = NoSave
      /\ \A p \in Pages : p # NoPage
  BY FlowMade, EditorAssumption DEF Init, NoDoc
<1>2. FlowInv /\ SaverInv
  BY <1>1 DEF Init, FlowInv, Saved, SaverInv
<1>3. CopyInv /\ UnsavedIsFlagged
  BY <1>1 DEF Init, CopyInv, UnsavedIsFlagged, Within
<1> QED
  BY <1>2, <1>3 DEF CalmInv

\* Types in every state; for a calm user also what the waits and the copies rely on.
THEOREM InductiveInvariant == Spec => []IInv
<1>1. Init => IInv
  BY InitTypes, InitCalm DEF IInv, TypeInv
<1>2. IInv /\ [Next]_vars => IInv'
  <2> SUFFICES ASSUME IInv, [Next]_vars
               PROVE  IInv'
    OBVIOUS
  <2>1. TypeInv'
    BY NextTypes DEF IInv, TypeInv
  <2>2. Calm' => CalmInv'
    BY MoodStays, NextCalm DEF IInv, TypeInv, CalmState
  <2> QED
    BY <2>1, <2>2 DEF IInv, TypeInv
<1> QED
  BY <1>1, <1>2, PTL DEF Spec

\* No page is ever stored, cached or shown under the id of another.
THEOREM PagesKeepTheirOwn == Spec => []OwnPages
<1>1. IInv => OwnPages
  <2> SUFFICES ASSUME IInv, Calm
               PROVE  /\ \A p \in Pages : server[p].of = p /\ cache[p].of \in {p, NoPage}
                      /\ flow = Idle /\ route = "editor" => doc.of = selected /\ loaded = selected
    BY DEF OwnPages
  <2> QED
    BY FlowMade DEF IInv, CalmInv, CopyInv, FlowInv
<1> QED
  BY <1>1, InductiveInvariant, PTL

\* What the service does not have is flagged, under the page it belongs to.
THEOREM UnsavedEditsAreFlagged == Spec => []UnsavedIsFlagged
<1>1. IInv => UnsavedIsFlagged
  BY DEF IInv, CalmInv, UnsavedIsFlagged
<1> QED
  BY <1>1, InductiveInvariant, PTL
=============================================================================
