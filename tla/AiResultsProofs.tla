---------------------------- MODULE AiResultsProofs ----------------------------
(***************************************************************************)
(* AiResults for any number of pages, edits, hosts and results: jobs that  *)
(* end while nothing is saved or switched put their results where they     *)
(* belong, and merging one behind the editor's back loses nothing.         *)
(***************************************************************************)
EXTENDS AiResults, PageEditorProofs

\* The invariant in two parts: types, and who goes first.
AiTypeInv == AiTypeOK /\ run \in Runs /\ flow \in Flows
OrderInv == PlaceInv /\ HomeInv /\ RunInv

\* What a run has at each of its steps.
LEMMA RunKinds ==
  ASSUME NEW x \in Runs
  PROVE  /\ x.step \in {"none", "running", "fetching", "saving", "reading", "merging", "put"}
         /\ x = NoRun <=> x.step = "none"
         /\ x # NoRun => x.page \in Pages /\ x.result \in Results /\ x.kind \in Kinds
         /\ x.step \in {"merging", "put"} => x.blob \in Document
BY DEF Runs, NoRun

\* A result is an edit, and adding it leaves a document on its page.
LEMMA ResultAdded ==
  ASSUME run \in Runs, run # NoRun, NEW d \in Document
  PROVE  /\ WithResult(d) \in Document /\ WithResult(d).of = d.of
         /\ WithResult(d).has = (d.has \ Replaced) \union {run.result}
<1>1. run.result \in Edits
  BY RunKinds, ResultAssumption
<1> QED
  BY <1>1 DEF WithResult, Document

\* What applying a result to the active document does.
LEMMA AppliedTo ==
  ASSUME AiTypeInv, run.step \in {"running", "fetching"}, ApplyOnActive, doc # NoDoc
  PROVE  /\ doc' = WithResult(doc) /\ doc' \in Document /\ doc'.of = doc.of
         /\ savers' = [savers EXCEPT ![Toolbox] = [page |-> run.page, blob |-> doc', landed |-> FALSE]]
         /\ run' = [run EXCEPT !.step = "saving"] /\ processing' = processing \ {run.page}
         /\ dirty' \in BOOLEAN /\ dirtyPage' \in MaybePage /\ paint' \subseteq Waits /\ timers' \subseteq Hosts
         /\ UNCHANGED <<route, selected, loaded, server, cache, fetched, flow, edited, mood, home>>
<1>1. /\ run \in Runs /\ run # NoRun /\ run.page \in Pages /\ run.page # NoPage /\ doc \in Document
      /\ selected \in MaybePage /\ dirtyPage \in MaybePage
  BY RunKinds, DocumentIsSome, EditorAssumption DEF AiTypeInv, AiTypeOK, TypeOK, MaybePage
<1>2. doc' = WithResult(doc) /\ doc' \in Document /\ doc'.of = doc.of
  BY <1>1, ResultAdded DEF ApplyOnActive
<1>3. /\ SaveDocument(doc', MarkedDirty, {Toolbox}, run.page, selected, {Toolbox})
      /\ run' = [run EXCEPT !.step = "saving"] /\ processing' = processing \ {run.page}
      /\ UNCHANGED <<route, selected, loaded, server, cache, fetched, flow, edited, mood, home>>
  BY DEF ApplyOnActive
<1> DEFINE marked == IF FlushPendingPaint THEN OrElse(selected, MarkedDirty[2]) ELSE MarkedDirty[2]
<1>4. MarkedDirty[1] = TRUE /\ MarkedDirty[2] \in MaybePage
  BY <1>1 DEF MarkedDirty, OrElse
<1>5. marked \in MaybePage
  BY <1>1, <1>4 DEF OrElse
<1>6. /\ paint' = IF FlushPendingPaint THEN paint \ {"pending", "queued"} ELSE paint
      /\ dirty' = (MarkedDirty[1] \/ FlushPendingPaint)
      /\ dirtyPage' = marked
      /\ timers' = IF FlushPendingPaint THEN TimersAgain ELSE timers \ {Toolbox}
      /\ savers' = [h \in Hosts |->
                      IF h \in {Toolbox} /\ (MarkedDirty[1] \/ FlushPendingPaint)
                           /\ Savable(PageToSave(run.page, selected, marked))
                      THEN [page |-> PageToSave(run.page, selected, marked), blob |-> doc', landed |-> FALSE]
                      ELSE savers[h]]
  BY <1>3 DEF SaveDocument
<1> HIDE DEF marked
<1>7. PageToSave(run.page, selected, marked) = run.page /\ Savable(run.page)
  BY <1>1 DEF PageToSave, OrElse, Savable
<1>8. savers' = [savers EXCEPT ![Toolbox] = [page |-> run.page, blob |-> doc', landed |-> FALSE]]
  <2>1. savers' = [h \in Hosts |-> IF h = Toolbox THEN [page |-> run.page, blob |-> doc', landed |-> FALSE]
                                   ELSE savers[h]]
    BY <1>4, <1>6, <1>7
  <2> QED
    BY <2>1 DEF AiTypeInv, AiTypeOK, TypeOK
<1>9. dirty' \in BOOLEAN /\ paint' \subseteq Waits /\ timers' \subseteq Hosts
  BY <1>4, <1>6 DEF AiTypeInv, AiTypeOK, TypeOK, Waits, TimersAgain
<1> QED
  BY <1>2, <1>3, <1>5, <1>6, <1>8, <1>9

-----------------------------------------------------------------------------
(***************************************************************************)
(* Types                                                                   *)
(***************************************************************************)
\* The types of the editor, when nothing of it changes or its own steps run.
LEMMA EditorTypes ==
  ASSUME AiTypeInv, UNCHANGED editor \/ EditorSteps
  PROVE  TypeOK' /\ flow' \in Flows
<1>1. TypeInv /\ [Next]_vars
  BY DEF AiTypeInv, AiTypeOK, TypeInv, EditorSteps, editor, vars
<1> QED
  BY <1>1, NextTypes DEF TypeInv

\* A run that is where it can be.
LEMMA AiTypeMade ==
  ASSUME TypeOK', flow' \in Flows, run' \in Runs, processing' \subseteq Pages,
         home' \in [Results -> Pages \union {NoPage}]
  PROVE  AiTypeInv'
<1>1. run' = NoRun \/ run'.step \in {"running", "fetching", "saving", "reading", "merging", "put"}
  BY RunKinds
<1>2. run' = NoRun \/ Applying' \/ run'.step = "running"
  BY <1>1 DEF Applying, InActive, InBackground
<1> QED
  BY <1>2 DEF AiTypeInv, AiTypeOK

\* Applying a result to the document keeps the types.
LEMMA ApplyTypes ==
  ASSUME AiTypeInv, run.step \in {"running", "fetching"}, ApplyOnActive
  PROVE  AiTypeInv'
<1>0. run \in Runs /\ processing \subseteq Pages /\ home \in [Results -> Pages \union {NoPage}]
  BY DEF AiTypeInv, AiTypeOK
<1>1. CASE doc = NoDoc
  <2>1. UNCHANGED <<editor, home>> /\ run' = NoRun /\ processing' = processing \ {run.page}
    BY <1>1 DEF ApplyOnActive, Ends, AfterRun
  <2>2. TypeOK' /\ flow' \in Flows
    BY <2>1, EditorTypes
  <2>3. run' \in Runs
    BY <2>1 DEF Runs
  <2> QED
    BY <1>0, <2>1, <2>2, <2>3, AiTypeMade
<1>2. CASE doc # NoDoc
  <2>1. /\ doc' \in Document /\ run' = [run EXCEPT !.step = "saving"] /\ processing' = processing \ {run.page}
        /\ savers' = [savers EXCEPT ![Toolbox] = [page |-> run.page, blob |-> doc', landed |-> FALSE]]
        /\ dirty' \in BOOLEAN /\ dirtyPage' \in MaybePage /\ paint' \subseteq Waits /\ timers' \subseteq Hosts
        /\ UNCHANGED <<route, selected, loaded, server, cache, fetched, flow, edited, mood, home>>
    BY <1>2, AppliedTo
  <2>2. run.page \in Pages /\ run' \in Runs
    BY <1>0, <2>1, RunKinds DEF Runs, NoRun
  <2>3. savers' \in [Hosts -> Save \union {NoSave}]
    <3>1. [page |-> run.page, blob |-> doc', landed |-> FALSE] \in Save
      BY <2>1, <2>2, SaveIsSome
    <3> QED
      BY <2>1, <3>1 DEF AiTypeInv, AiTypeOK, TypeOK
  <2>4. TypeOK' /\ flow' \in Flows
    BY <2>1, <2>3 DEF AiTypeInv, AiTypeOK, TypeOK, MaybePage, Waits, edited
  <2> QED
    BY <1>0, <2>1, <2>2, <2>4, AiTypeMade
<1> QED
  BY <1>1, <1>2

\* Every step keeps the types.
LEMMA AiNextTypes ==
  ASSUME AiTypeInv, [AiNext]_aiVars
  PROVE  AiTypeInv'
<1>0. run \in Runs /\ processing \subseteq Pages /\ home \in [Results -> Pages \union {NoPage}]
      /\ TypeOK /\ flow \in Flows
  BY DEF AiTypeInv, AiTypeOK
<1>1. ASSUME NEW r \in Results, NEW kind \in Kinds, RunAction(r, kind)
      PROVE  AiTypeInv'
  <2>1. /\ run' = Running(selected, r, kind) /\ processing' = processing \union {selected}
        /\ home' = [home EXCEPT ![r] = selected] /\ spent' = spent \union {r} /\ selected \in Pages
        /\ UNCHANGED <<route, selected, loaded, content, flags, savers, flow, latest, undone, mood>>
    BY <1>0, <1>1 DEF RunAction, TypeOK
  <2>2. run' \in Runs /\ home' \in [Results -> Pages \union {NoPage}]
    BY <1>0, <2>1 DEF Runs, Running
  <2>3. TypeOK' /\ flow' \in Flows
    BY <1>0, <2>1, ResultAssumption DEF TypeOK, content, flags
  <2> QED
    BY <1>0, <2>1, <2>2, <2>3, AiTypeMade
<1>2. ASSUME UNCHANGED home, processing' \subseteq processing, run' \in Runs, UNCHANGED editor \/ EditorSteps
      PROVE  AiTypeInv'
  BY <1>0, <1>2, EditorTypes, AiTypeMade
<1>3. CASE JobFails \/ RequestFails \/ SnapshotMissing \/ ActiveSaved
  <2>1. run' = NoRun /\ processing' \subseteq processing /\ UNCHANGED <<editor, home>>
    BY <1>3 DEF JobFails, RequestFails, SnapshotMissing, ActiveSaved, Ends, AfterRun
  <2>2. run' \in Runs
    BY <2>1 DEF Runs
  <2> QED
    BY <1>2, <2>1, <2>2
<1>4. CASE JobSucceeds
  <2>1. run.step = "running"
    BY <1>4 DEF JobSucceeds
  <2>2. CASE ApplyOnActive
    BY <2>1, <2>2, ApplyTypes
  <2>3. CASE ~ApplyOnActive
    <3>1. /\ run' = [run EXCEPT !.step = IF OnActivePage THEN "fetching" ELSE "reading"]
          /\ UNCHANGED <<editor, processing, home>>
      BY <1>4, <2>3 DEF JobSucceeds
    <3>2. run' \in Runs
      BY <1>0, <2>1, <3>1 DEF Runs, NoRun
    <3> QED
      BY <1>2, <3>1, <3>2
  <2> QED
    BY <2>2, <2>3
<1>5. CASE BitmapsFetched
  BY <1>5, ApplyTypes DEF BitmapsFetched
<1>6. CASE ReadSnapshot
  <2>1. /\ run.step = "reading" /\ UNCHANGED <<editor, processing, home>>
        /\ run' = [run EXCEPT !.step = "merging", !.blob = WithResult(server[run.page])]
    BY <1>6 DEF ReadSnapshot, Snapshot
  <2>2. server[run.page] \in Document /\ run # NoRun
    BY <1>0, <2>1, RunKinds DEF TypeOK
  <2>3. WithResult(server[run.page]) \in Document
    BY <1>0, <2>2, ResultAdded
  <2>4. PICK d \in Document : d = WithResult(server[run.page])
    BY <2>3
  <2>5. run' = [run EXCEPT !.step = "merging", !.blob = d]
    BY <2>1, <2>4
  <2>6. run' \in Runs
    <3>1. run' = [step |-> "merging", page |-> run.page, result |-> run.result, kind |-> run.kind, blob |-> d]
      <4>1. run \in [step : {"running", "fetching", "saving", "reading"}, page : Pages, result : Results,
                      kind : Kinds, blob : {NoDoc}]
        BY <1>0, <2>1 DEF Runs, NoRun
      <4> QED
        BY <2>5, <4>1
    <3> QED
      BY <1>0, <2>2, <3>1, RunKinds DEF Runs
  <2> QED
    BY <1>2, <2>1, <2>6
<1>7. CASE PutSnapshot
  <2>1. /\ run.step = "merging" /\ server' = [server EXCEPT ![run.page] = run.blob]
        /\ run' = [run EXCEPT !.step = "put"]
        /\ UNCHANGED <<route, selected, loaded, doc, cache, fetched, flags, savers, flow, edited, mood, processing, home>>
    BY <1>7 DEF PutSnapshot
  <2>2. run' \in Runs /\ run.blob \in Document
    BY <1>0, <2>1, RunKinds DEF Runs, NoRun
  <2>3. TypeOK' /\ flow' \in Flows
    BY <1>0, <2>1, <2>2 DEF TypeOK, flags, edited
  <2> QED
    BY <1>0, <2>1, <2>2, <2>3, AiTypeMade
<1>8. CASE SeedCaches
  <2>1. /\ run.step = "put" /\ cache' = [cache EXCEPT ![run.page] = run.blob] /\ run' = NoRun
        /\ processing' = processing \ {run.page}
        /\ UNCHANGED <<route, selected, loaded, doc, server, fetched, flags, savers, flow, edited, mood, home>>
    BY <1>8 DEF SeedCaches, Ends, AfterRun
  <2>2. run' \in Runs /\ run.blob \in Document
    BY <1>0, <2>1, RunKinds DEF Runs
  <2>3. TypeOK' /\ flow' \in Flows
    BY <1>0, <2>1, <2>2 DEF TypeOK, flags, edited
  <2> QED
    BY <1>0, <2>1, <2>2, <2>3, AiTypeMade
<1>9. CASE EditorSteps \/ UNCHANGED aiVars
  BY <1>0, <1>2, <1>9 DEF EditorSteps, aiVars
<1> QED
  BY <1>1, <1>3, <1>4, <1>5, <1>6, <1>7, <1>8, <1>9 DEF AiNext, AiSteps

-----------------------------------------------------------------------------
(***************************************************************************)
(* What the editor does meanwhile                                          *)
(***************************************************************************)
\* The state in which a run and the editor rely on each other.
CalmRun == AiTypeInv /\ Calm /\ Settled /\ OrderInv

\* What a step of the editor makes of saves, of the copies of a page and of the document:
\* it copies documents, and edits the one that is shown.
SaverMoves ==
  \A h \in Hosts : savers'[h] # NoSave =>
    \/ savers[h] # NoSave /\ savers'[h].page = savers[h].page /\ savers'[h].blob = savers[h].blob
    \/ doc # NoDoc /\ savers'[h].page = doc.of /\ savers'[h].blob = doc
ServerMoves ==
  \A p \in Pages : \/ server'[p] = server[p]
                   \/ \E h \in Hosts : savers[h] # NoSave /\ savers[h].page = p /\ server'[p] = savers[h].blob
CacheMoves == \A p \in Pages : cache'[p] \in {cache[p], fetched[p]} \/ (p = doc.of /\ cache'[p] = doc)
FetchMoves == \A p \in Pages : fetched'[p] \in {fetched[p], NoDoc, server[p]}
DocMoves ==
  \/ doc'.of = doc.of /\ Results \intersect doc'.has \subseteq doc.has
  \/ doc # NoDoc /\ doc' = NoDoc
  \/ selected \in Pages /\ selected' = selected /\ doc' \in {cache[selected], server[selected]} /\ doc'.of = selected
WaitMoves ==
  /\ loaded' = doc'.of
  /\ flow'.step \in {"idle", "leaving"} => doc'.of = selected'
  /\ flow'.step \in {"saving", "loading"} => flow'.to = selected'
  /\ flow'.step = "saving" => flow'.from \in {NoPage, doc'.of}
  /\ selected' = selected \/ flow' # Idle \/ (doc # NoDoc /\ doc' = NoDoc)
Moves == SaverMoves /\ ServerMoves /\ CacheMoves /\ FetchMoves /\ DocMoves /\ WaitMoves

\* A document that stays at home.
LEMMA AtHomeStays ==
  ASSUME NEW d, AtHome(d), Results \intersect spent \subseteq spent', UNCHANGED home
  PROVE  AtHome(d)'
BY DEF AtHome

\* Such a step keeps every result on its page and every run in order.
LEMMA MovesKeepOrder ==
  ASSUME CalmRun, AiTypeInv', Moves, LetsItEnd, Results \intersect spent' = Results \intersect spent,
         UNCHANGED <<run, home>>
  PROVE  OrderInv'
<1> USE DEF CalmRun, OrderInv
<1>0. /\ run \in Runs /\ doc \in Document \union {NoDoc} /\ doc' \in Document \union {NoDoc}
      /\ NoDoc.of = NoPage /\ NoDoc.has = {} /\ NoPage \notin Pages
      /\ selected \in MaybePage
  BY EditorAssumption DEF AiTypeInv, AiTypeOK, TypeOK, NoDoc, MaybePage
<1>1. \A d : AtHome(d) => AtHome(d)'
  BY AtHomeStays
<1>2. PlaceInv'
  <2>1. \A h \in Hosts : savers'[h] # NoSave => savers'[h].page = savers'[h].blob.of
    BY DEF Moves, SaverMoves, PlaceInv
  <2>2. \A p \in Pages : server'[p].of = p
    BY DEF Moves, ServerMoves, PlaceInv
  <2>3. \A p \in Pages : cache'[p].of \in {p, NoPage}
    BY DEF Moves, CacheMoves, PlaceInv
  <2>4. \A p \in Pages : fetched'[p].of \in {p, NoPage}
    BY <1>0 DEF Moves, FetchMoves, PlaceInv
  <2> QED
    BY <2>1, <2>2, <2>3, <2>4 DEF Moves, WaitMoves, PlaceInv
<1>3. HomeInv'
  <2>0. AtHome(NoDoc)
    BY <1>0 DEF AtHome
  <2>1. AtHome(doc)'
    <3>1. PICK d : d = doc'
      OBVIOUS
    <3>2. AtHome(d)
      BY <1>0, <2>0, <3>1 DEF Moves, DocMoves, HomeInv, AtHome
    <3>3. AtHome(d)'
      BY <1>1, <3>2
    <3> QED
      BY <3>1, <3>3 DEF AtHome
  <2>2. ASSUME NEW p \in Pages
        PROVE  AtHome(server[p])' /\ AtHome(cache[p])' /\ AtHome(fetched[p])'
    <3>1. PICK d : d = server'[p]
      OBVIOUS
    <3>2. PICK c : c = cache'[p]
      OBVIOUS
    <3>3. PICK f : f = fetched'[p]
      OBVIOUS
    <3>4. AtHome(d)
      BY <3>1 DEF Moves, ServerMoves, HomeInv
    <3>5. AtHome(c)
      BY <3>2 DEF Moves, CacheMoves, HomeInv
    <3>6. AtHome(f)
      BY <2>0, <3>3 DEF Moves, FetchMoves, HomeInv
    <3>7. AtHome(d)' /\ AtHome(c)' /\ AtHome(f)'
      BY <1>1, <3>4, <3>5, <3>6
    <3> QED
      BY <3>1, <3>2, <3>3, <3>7 DEF AtHome
  <2>3. ASSUME NEW h \in Hosts, savers'[h] # NoSave
        PROVE  AtHome(savers[h].blob)'
    <3>1. PICK d : d = savers'[h].blob
      OBVIOUS
    <3>2. AtHome(d)
      BY <2>3, <3>1 DEF Moves, SaverMoves, HomeInv
    <3>3. AtHome(d)'
      BY <1>1, <3>2
    <3> QED
      BY <3>1, <3>3 DEF AtHome
  <2> QED
    BY <2>1, <2>2, <2>3 DEF HomeInv
<1>4. RunInv'
  <2>1. run # NoRun => run.page \in Pages /\ run.result \in Results
    BY <1>0, RunKinds
  <2>2. run # NoRun => run.result \in spent' /\ home'[run.result] = run.page
    BY <2>1 DEF RunInv
  <2>3. AtHome(run.blob) => AtHome(run.blob)'
    <3>1. PICK d : d = run.blob /\ d = run'.blob
      OBVIOUS
    <3>2. AtHome(d) => AtHome(d)'
      BY <1>1
    <3> QED
      BY <3>1, <3>2 DEF AtHome
  <2>4. InBackground => server'[run.page] = server[run.page]
    <3>1. InBackground => run # NoRun
      BY DEF InBackground, NoRun
    <3> QED
      BY <2>1, <3>1 DEF Moves, ServerMoves, RunInv
  <2>5. run.step = "merging" => run.blob = WithResult(server[run.page])'
    <3>1. run.step = "merging" => run.blob = WithResult(server[run.page]) /\ InBackground
      BY DEF RunInv, InBackground
    <3> QED
      BY <2>4, <3>1 DEF WithResult, Replaced
  <2>6. InActive => flow' = Idle /\ selected' = run.page
    <3>1. InActive => flow = Idle /\ selected = run.page /\ flow' = Idle /\ (doc # NoDoc => doc' # NoDoc)
      BY DEF RunInv, LetsItEnd
    <3> QED
      BY <3>1 DEF Moves, WaitMoves
  <2>7. ASSUME InBackground
        PROVE  /\ selected' # run.page /\ doc'.of # run.page
               /\ \A h \in Hosts : savers'[h] # NoSave => savers'[h].page # run.page
    <3>1. /\ selected # run.page /\ doc.of # run.page /\ run.page \in Pages
          /\ \A h \in Hosts : savers[h] # NoSave => savers[h].page # run.page
      BY <2>1, <2>7 DEF RunInv, InBackground, NoRun
    <3>2. selected' # run.page
      BY <2>7, <3>1 DEF LetsItEnd
    <3>3. doc'.of # run.page
      BY <1>0, <3>1 DEF Moves, DocMoves
    <3>4. \A h \in Hosts : savers'[h] # NoSave => savers'[h].page # run.page
      BY <3>1 DEF Moves, SaverMoves
    <3> QED
      BY <3>2, <3>3, <3>4
  <2>8. (InActive' <=> InActive) /\ (InBackground' <=> InBackground)
    BY DEF InActive, InBackground
  <2> QED
    BY <2>2, <2>3, <2>5, <2>6, <2>7, <2>8 DEF RunInv
<1> QED
  BY <1>2, <1>3, <1>4

\* What stays is copied from where it is.
LEMMA ContentStays ==
  /\ UNCHANGED server => ServerMoves
  /\ UNCHANGED cache => CacheMoves
  /\ UNCHANGED fetched => FetchMoves
  /\ UNCHANGED doc => DocMoves
  /\ UNCHANGED savers => SaverMoves
BY DEF ServerMoves, CacheMoves, FetchMoves, DocMoves, SaverMoves

\* Waiting for the same, with the same document.
LEMMA WaitStays ==
  ASSUME PlaceInv, UNCHANGED <<selected, loaded, flow>>, doc'.of = doc.of
  PROVE  WaitMoves
BY DEF PlaceInv, WaitMoves

\* doSave takes the document that is shown, under its page.
LEMMA SaveMoves ==
  ASSUME CalmRun, NEW H, NEW explicit \in MaybePage, NEW current, NEW cleared,
         DoSave(H, explicit, current, cleared), doc # NoDoc => OrElse(explicit, current) = doc.of
  PROVE  SaverMoves
<1> DEFINE marked == IF FlushPendingPaint THEN OrElse(current, dirtyPage) ELSE dirtyPage
           page == PageToSave(explicit, current, marked)
           saves == (dirty \/ FlushPendingPaint) /\ Savable(page)
<1>1. savers' = [h \in Hosts |-> IF h \in H /\ saves THEN [page |-> page, blob |-> doc, landed |-> FALSE]
                                 ELSE savers[h]]
  BY DEF DoSave, SaveDocument
<1>2. saves => doc # NoDoc
  BY DEF Savable
<1>3. doc # NoDoc => page = doc.of
  <2>1. doc # NoDoc => doc.of # NoPage
    BY DocumentIsSome DEF CalmRun, AiTypeInv, AiTypeOK, TypeOK
  <2> QED
    BY <2>1 DEF PageToSave, OrElse
<1> HIDE DEF page, saves
<1> QED
  BY <1>1, <1>2, <1>3 DEF SaverMoves

\* The edits of the user, and the entries they get.
LEMMA EditMoves ==
  ASSUME CalmRun, Results \intersect spent' = Results \intersect spent,
         \/ \E e \in Edits, way \in Ways : Edit(e, way)
         \/ Undo \/ StorePaint \/ PaintStored \/ ProcessQueue
  PROVE  Moves
<1>0. PlaceInv /\ doc \in Document \union {NoDoc}
  BY DEF CalmRun, OrderInv, AiTypeInv, AiTypeOK, TypeOK
<1>1. /\ UNCHANGED <<selected, loaded, server, cache, fetched, savers, flow>>
      /\ doc'.of = doc.of /\ Results \intersect doc'.has \subseteq doc.has
  <2>1. ASSUME NEW e \in Edits, NEW way \in Ways, Edit(e, way)
        PROVE  /\ UNCHANGED <<selected, loaded, server, cache, fetched, savers, flow>>
               /\ doc'.of = doc.of /\ Results \intersect doc'.has \subseteq doc.has
    <3>1. /\ doc' = [doc EXCEPT !.has = @ \union {e}] /\ doc \in Document
          /\ e \notin spent /\ spent' = spent \union {e}
          /\ UNCHANGED <<selected, loaded, server, cache, fetched, savers, flow>>
      BY <1>0, <2>1 DEF Edit
    <3>2. e \notin Results
      BY <3>1
    <3> QED
      BY <3>1, <3>2 DEF Document
  <2>2. CASE Undo
    BY <1>0, <2>2 DEF Undo, Document
  <2>3. CASE StorePaint \/ PaintStored \/ ProcessQueue
    BY <2>3 DEF StorePaint, PaintStored, ProcessQueue, SaveState, content
  <2> QED
    BY <2>1, <2>2, <2>3
<1> QED
  BY <1>0, <1>1, ContentStays, WaitStays DEF Moves, DocMoves

\* The saves that leave the tab where it is, and their requests.
LEMMA TimerMoves ==
  ASSUME CalmRun, SaveKeys \/ \E h \in Hosts : TimerFires(h) \/ SaveSteps(h)
  PROVE  Moves
<1>0. PlaceInv /\ savers \in [Hosts -> Save \union {NoSave}] /\ server \in [Pages -> Document] /\ NoPage \in MaybePage
  BY DEF CalmRun, OrderInv, AiTypeInv, AiTypeOK, TypeOK, MaybePage
<1>1. UNCHANGED <<selected, loaded, doc, cache, fetched, flow>>
  BY DEF SaveKeys, TimerFires, SaveSteps, SaveLands, SaveSucceeds, SaveFails, content
<1>2. CASE SaveKeys \/ \E h \in Hosts : TimerFires(h)
  <2>1. flow = Idle /\ UNCHANGED server
    BY <1>2 DEF SaveKeys, TimerFires, UserActs, Quiet, CalmRun, Calm, content
  <2>2. OrElse(NoPage, selected) = doc.of
    BY <1>0, <2>1, FlowMade DEF PlaceInv, OrElse
  <2>3. SaverMoves
    BY <1>0, <1>2, <2>2, SaveMoves DEF SaveKeys, TimerFires
  <2> QED
    BY <1>0, <1>1, <2>1, <2>3, ContentStays, WaitStays DEF Moves
<1>3. ASSUME NEW h \in Hosts, SaveSteps(h)
      PROVE  Moves
  <2>1. SaverMoves
    <3>1. savers[h] # NoSave /\ savers[h] \in Save
      BY <1>0, <1>3 DEF SaveSteps, SaveLands, SaveSucceeds, SaveFails
    <3>2. CASE SaveLands(h)
      <4>1. /\ \A g \in Hosts \ {h} : savers'[g] = savers[g]
            /\ savers'[h] = [savers[h] EXCEPT !.landed = TRUE]
        BY <1>0, <3>2 DEF SaveLands
      <4>2. savers'[h].page = savers[h].page /\ savers'[h].blob = savers[h].blob
        BY <3>1, <4>1 DEF Save
      <4> QED
        BY <3>1, <4>1, <4>2 DEF SaverMoves
    <3>3. CASE SaveSucceeds(h) \/ SaveFails(h)
      BY <1>0, <3>3 DEF SaveSucceeds, SaveFails, SaverMoves
    <3> QED
      BY <1>3, <3>2, <3>3 DEF SaveSteps
  <2>2. ServerMoves
    BY <1>0, <1>3 DEF SaveSteps, SaveLands, SaveSucceeds, SaveFails, ServerMoves, content
  <2> QED
    BY <1>0, <1>1, <2>1, <2>2, ContentStays, WaitStays DEF Moves
<1> QED
  BY <1>2, <1>3

\* Selecting a page, opening the editor and the route guards.
LEMMA SwitchMoves ==
  ASSUME CalmRun, \/ \E p \in Pages : SelectPage(p) \/ OpenEditor(p)
                  \/ LeaveEditor \/ \E h \in Hosts : NextGuard(h)
  PROVE  Moves
<1>0. PlaceInv /\ flow \in Flows /\ NoPage \in MaybePage /\ selected \in MaybePage /\ Tab \in Hosts
  BY EditorAssumption DEF CalmRun, OrderInv, AiTypeInv, AiTypeOK, TypeOK, MaybePage
<1>1. ASSUME NEW p \in Pages, SelectPage(p)
      PROVE  Moves
  <2>1. flow = Idle
    BY <1>1 DEF SelectPage, UserLeaves, UserActs, Quiet, CalmRun, Calm
  <2>2. /\ UNCHANGED <<loaded, content>> /\ selected' = p /\ flow' = Saving(selected, p)
        /\ DoSave({Tab}, selected, p, {Tab})
    BY <1>1, <2>1 DEF SelectPage
  <2>3. doc.of = selected
    BY <1>0, <2>1, FlowMade DEF PlaceInv
  <2>4. SaverMoves
    <3>1. doc # NoDoc => OrElse(selected, p) = doc.of
      BY <2>3, DocumentIsSome DEF OrElse, CalmRun, AiTypeInv, AiTypeOK, TypeOK
    <3> QED
      BY <1>0, <2>2, <3>1, SaveMoves
  <2>5. flow' # Idle /\ flow'.step = "saving" /\ flow'.from = selected /\ flow'.to = p
    BY <1>0, <2>2, FlowMade
  <2>6. WaitMoves
    BY <1>0, <2>2, <2>3, <2>5 DEF WaitMoves, PlaceInv, content
  <2> QED
    BY <2>2, <2>4, <2>6, ContentStays DEF Moves, content
<1>2. ASSUME NEW p \in Pages, OpenEditor(p)
      PROVE  Moves
  <2>1. UNCHANGED <<loaded, content, savers>> /\ selected' = p /\ flow' = Saving(NoPage, p)
    BY <1>2 DEF OpenEditor
  <2>2. flow' # Idle /\ flow'.step = "saving" /\ flow'.from = NoPage /\ flow'.to = p
    BY <1>0, <2>1, FlowMade
  <2>3. WaitMoves
    BY <1>0, <2>1, <2>2 DEF WaitMoves, PlaceInv, content
  <2> QED
    BY <2>1, <2>3, ContentStays DEF Moves, content
<1>3. ASSUME NEW h \in Hosts, NEW todo \in SUBSET Hosts, RouteGuard(h, todo), flow.step \in {"idle", "leaving"}
      PROVE  Moves
  <2>1. UNCHANGED <<selected, loaded, content>> /\ flow' = Leaving(h, todo) /\ DoSave({h}, NoPage, selected, {})
    BY <1>3 DEF RouteGuard
  <2>2. doc.of = selected
    BY <1>0, <1>3 DEF PlaceInv
  <2>3. SaverMoves
    <3>1. OrElse(NoPage, selected) = doc.of
      BY <2>2 DEF OrElse
    <3> QED
      BY <1>0, <2>1, <3>1, SaveMoves
  <2>4. flow'.step = "leaving"
    BY <2>1, FlowMade
  <2>5. WaitMoves
    BY <1>0, <2>1, <2>2, <2>4 DEF WaitMoves, PlaceInv, content
  <2> QED
    BY <2>1, <2>3, <2>5, ContentStays DEF Moves, content
<1>4. CASE LeaveEditor
  BY <1>0, <1>3, <1>4, FlowMade DEF LeaveEditor
<1>5. ASSUME NEW h \in Hosts, NextGuard(h)
      PROVE  Moves
  <2>1. flow.step = "leaving" /\ flow.todo \ {h} \in SUBSET Hosts
    BY <1>0, <1>5, FlowKinds DEF NextGuard
  <2> QED
    BY <1>3, <1>5, <2>1 DEF NextGuard
<1> QED
  BY <1>1, <1>2, <1>4, <1>5

\* The page that is left goes into the cache, and the other is loaded.
LEMMA LoadMoves ==
  ASSUME CalmRun, CachePage \/ LoadPage \/ LoadFails \/ EditorLeft \/ CloseProject
  PROVE  Moves
<1>0. PlaceInv /\ flow \in Flows /\ doc \in Document \union {NoDoc} /\ server \in [Pages -> Document]
      /\ cache \in [Pages -> Document \union {NoDoc}] /\ reliable
  BY DEF CalmRun, OrderInv, AiTypeInv, AiTypeOK, TypeOK, Calm
<1>1. CASE CachePage
  <2>1. /\ flow.step = "saving" /\ flow.to = selected /\ flow.from \in {NoPage, doc.of} /\ flow.to \in Pages
        /\ UNCHANGED <<selected, loaded, doc, server, fetched, savers>>
    BY <1>0, <1>1, FlowKinds DEF CachePage, PlaceInv
  <2>2. CASE flow.to = loaded /\ doc # NoDoc
    <3>1. flow' = Idle /\ UNCHANGED cache
      BY <1>1, <2>2 DEF CachePage
    <3>2. WaitMoves
      BY <1>0, <2>1, <2>2, <3>1, FlowMade DEF WaitMoves, PlaceInv
    <3> QED
      BY <2>1, <3>1, <3>2, ContentStays DEF Moves
  <2>3. CASE ~(flow.to = loaded /\ doc # NoDoc)
    <3>1. /\ flow' = Loading(selected)
          /\ cache' = IF flow.from # NoPage /\ doc # NoDoc THEN [cache EXCEPT ![flow.from] = doc] ELSE cache
      BY <1>1, <2>1, <2>3 DEF CachePage
    <3>2. CacheMoves
      BY <1>0, <2>1, <3>1 DEF CacheMoves
    <3>3. flow'.step = "loading" /\ flow'.to = selected
      BY <2>1, <3>1, FlowMade
    <3>4. WaitMoves
      BY <1>0, <2>1, <3>3 DEF WaitMoves, PlaceInv
    <3> QED
      BY <2>1, <3>2, <3>4, ContentStays DEF Moves
  <2> QED
    BY <2>2, <2>3
<1>2. CASE LoadPage
  <2>1. /\ flow.step = "loading" /\ flow.to = selected /\ selected \in Pages /\ flow' = Idle /\ loaded' = selected
        /\ doc' = IF cache[selected] # NoDoc THEN cache[selected] ELSE server[selected]
        /\ UNCHANGED <<selected, server, cache, fetched, savers>>
    BY <1>0, <1>2, FlowKinds DEF LoadPage, PlaceInv
  <2>2. doc'.of = selected
    <3>1. cache[selected] # NoDoc => cache[selected].of # NoPage
      BY <1>0, <2>1, DocumentIsSome
    <3> QED
      BY <1>0, <2>1, <3>1 DEF PlaceInv
  <2>3. DocMoves
    BY <2>1, <2>2 DEF DocMoves
  <2>4. WaitMoves
    BY <2>1, <2>2, FlowMade DEF WaitMoves
  <2> QED
    BY <2>1, <2>3, <2>4, ContentStays DEF Moves
<1>3. CASE LoadFails
  BY <1>0, <1>3 DEF LoadFails
<1>4. CASE EditorLeft
  <2>1. flow.step = "leaving" /\ flow' = Idle /\ UNCHANGED <<selected, loaded, content, savers>>
    BY <1>4 DEF EditorLeft
  <2>2. WaitMoves
    BY <1>0, <2>1, FlowMade DEF WaitMoves, PlaceInv, content
  <2> QED
    BY <2>1, <2>2, ContentStays DEF Moves, content
<1>5. CASE CloseProject
  <2>1. /\ doc # NoDoc /\ doc' = NoDoc /\ loaded' = NoPage /\ selected' = NoPage /\ flow = Idle
        /\ UNCHANGED <<server, cache, fetched, savers, flow>>
    BY <1>5 DEF CloseProject, UserActs, Quiet, CalmRun, Calm
  <2>2. NoDoc.of = NoPage
    BY DEF NoDoc
  <2>3. WaitMoves
    BY <2>1, <2>2, FlowMade DEF WaitMoves
  <2>4. DocMoves
    BY <2>1 DEF DocMoves
  <2> QED
    BY <2>1, <2>3, <2>4, ContentStays DEF Moves
<1> QED
  BY <1>1, <1>2, <1>3, <1>4, <1>5

\* The prefetch copies from the service to the cache.
LEMMA PrefetchMoves ==
  ASSUME CalmRun, \E p \in Pages : Prefetch(p) \/ StorePrefetched(p)
  PROVE  Moves
<1>0. PlaceInv /\ cache \in [Pages -> Document \union {NoDoc}] /\ fetched \in [Pages -> Document \union {NoDoc}]
  BY DEF CalmRun, OrderInv, AiTypeInv, AiTypeOK, TypeOK
<1>1. UNCHANGED <<selected, loaded, doc, server, savers, flow>>
  BY DEF Prefetch, StorePrefetched
<1>2. CacheMoves /\ FetchMoves
  BY <1>0 DEF Prefetch, StorePrefetched, CacheMoves, FetchMoves
<1> QED
  BY <1>0, <1>1, <1>2, ContentStays, WaitStays DEF Moves

\* No step of the editor takes a result from its page or disturbs a run.
LEMMA EditorKeepsOrder ==
  ASSUME CalmRun, AiTypeInv', EditorSteps
  PROVE  OrderInv'
<1>1. /\ Next /\ Results \intersect spent' = Results \intersect spent /\ LetsItEnd /\ UNCHANGED <<run, home>>
  BY DEF EditorSteps, CalmRun, Calm
<1>2. Moves
  BY <1>1, EditMoves, TimerMoves, SwitchMoves, LoadMoves, PrefetchMoves DEF Next, User, FlowSteps
<1> QED
  BY <1>1, <1>2, MovesKeepOrder

-----------------------------------------------------------------------------
(***************************************************************************)
(* What a run does                                                         *)
(***************************************************************************)
\* Where documents are depends on the editor and on where results belong alone.
LEMMA PlacesStay ==
  ASSUME PlaceInv, HomeInv, UNCHANGED <<editor, home>>
  PROVE  PlaceInv' /\ HomeInv'
<1>1. /\ UNCHANGED <<selected, loaded, doc, server, cache, fetched, savers, flow, home>>
      /\ spent' = spent
  BY DEF editor, content, edited
<1>2. PlaceInv'
  BY <1>1 DEF PlaceInv
<1>3. \A d : AtHome(d) => AtHome(d)'
  BY <1>1, AtHomeStays
<1>4. AtHome(doc)'
  BY <1>1 DEF HomeInv, AtHome
<1>5. \A p \in Pages : AtHome(server[p])' /\ AtHome(cache[p])' /\ AtHome(fetched[p])'
  BY <1>1 DEF HomeInv, AtHome
<1>6. \A h \in Hosts : savers'[h] # NoSave => AtHome(savers[h].blob)'
  BY <1>1 DEF HomeInv, AtHome
<1> QED
  BY <1>2, <1>4, <1>5, <1>6 DEF HomeInv

\* A run that is over relies on nothing.
LEMMA OverInOrder ==
  ASSUME run' = NoRun
  PROVE  RunInv'
BY DEF RunInv, NoRun, InActive, InBackground

\* When nothing is saved or switched the document that is shown is the selected page's.
LEMMA QuietPlace ==
  ASSUME CalmRun, Quiet
  PROVE  /\ flow = Idle /\ doc.of = selected
         /\ \A h \in Hosts : savers[h] = NoSave
BY FlowMade DEF CalmRun, OrderInv, PlaceInv, Quiet

\* A result belongs to the page it is asked for, and is nowhere yet.
LEMMA ActionKeepsOrder ==
  ASSUME CalmRun, NEW r \in Results, NEW kind \in Kinds, RunAction(r, kind)
  PROVE  OrderInv'
<1>1. /\ run' = Running(selected, r, kind) /\ home' = [home EXCEPT ![r] = selected]
      /\ r \notin spent /\ spent' = spent \union {r}
      /\ UNCHANGED <<selected, loaded, doc, server, cache, fetched, savers, flow>>
      /\ home \in [Results -> Pages \union {NoPage}]
  BY DEF RunAction, content, CalmRun, AiTypeInv, AiTypeOK
<1>2. PlaceInv'
  BY <1>1 DEF CalmRun, OrderInv, PlaceInv
<1>3. \A d : AtHome(d) => \A s \in Results \intersect d.has : s \in spent' /\ home'[s] = d.of
  BY <1>1 DEF AtHome
<1>4. HomeInv'
  <2>1. AtHome(doc)'
    BY <1>1, <1>3 DEF CalmRun, OrderInv, HomeInv, AtHome
  <2>2. \A p \in Pages : AtHome(server[p])' /\ AtHome(cache[p])' /\ AtHome(fetched[p])'
    BY <1>1, <1>3 DEF CalmRun, OrderInv, HomeInv, AtHome
  <2>3. \A h \in Hosts : savers'[h] # NoSave => AtHome(savers[h].blob)'
    BY <1>1, <1>3 DEF CalmRun, OrderInv, HomeInv, AtHome
  <2> QED
    BY <2>1, <2>2, <2>3 DEF HomeInv
<1>5. RunInv'
  <2>1. run'.step = "running" /\ run'.page = selected /\ run'.result = r
    BY <1>1 DEF Running
  <2>2. run'.result \in spent' /\ home'[run'.result] = run'.page
    BY <1>1, <2>1
  <2> QED
    BY <2>1, <2>2 DEF RunInv, InActive, InBackground
<1> QED
  BY <1>2, <1>4, <1>5 DEF OrderInv

\* The result goes into the document of its page, and into the save of it.
LEMMA ApplyKeepsOrder ==
  ASSUME CalmRun, run.step \in {"running", "fetching"}, OnActivePage, Quiet, ApplyOnActive
  PROVE  OrderInv'
<1>0. PlaceInv /\ HomeInv /\ RunInv /\ AiTypeInv /\ run \in Runs /\ run # NoRun
      /\ doc \in Document \union {NoDoc} /\ home \in [Results -> Pages \union {NoPage}]
      /\ savers \in [Hosts -> Save \union {NoSave}] /\ Toolbox \in Hosts
  BY ResultAssumption DEF CalmRun, OrderInv, AiTypeInv, AiTypeOK, TypeOK, NoRun
<1>1. CASE doc = NoDoc
  <2>1. UNCHANGED <<editor, home>> /\ run' = NoRun
    BY <1>1 DEF ApplyOnActive, Ends, AfterRun
  <2> QED
    BY <1>0, <2>1, PlacesStay, OverInOrder DEF OrderInv
<1>2. CASE doc # NoDoc
  <2>1. /\ doc' = WithResult(doc) /\ doc' \in Document /\ doc'.of = doc.of
        /\ savers' = [savers EXCEPT ![Toolbox] = [page |-> run.page, blob |-> doc', landed |-> FALSE]]
        /\ run' = [run EXCEPT !.step = "saving"]
        /\ UNCHANGED <<selected, loaded, server, cache, fetched, flow, edited, home>>
    BY <1>0, <1>2, AppliedTo
  <2>2. doc.of = run.page /\ selected = run.page /\ flow = Idle /\ doc \in Document
    BY <1>0, <1>2, QuietPlace DEF OnActivePage
  <2>3. run.page \in Pages /\ run.result \in Results /\ run.result \in spent /\ home[run.result] = run.page
    BY <1>0, RunKinds DEF RunInv
  <2>4. /\ \A h \in Hosts \ {Toolbox} : savers'[h] = savers[h]
        /\ savers'[Toolbox].page = run.page /\ savers'[Toolbox].blob = doc'
    BY <1>0, <2>1
  <2>5. PlaceInv'
    BY <1>0, <2>1, <2>2, <2>4 DEF PlaceInv
  <2>6. \A d : AtHome(d) => AtHome(d)'
    <3>1. spent' = spent
      BY <2>1 DEF edited
    <3> QED
      BY <2>1, <3>1, AtHomeStays
  <2>7. AtHome(doc)'
    <3>1. PICK d : d = doc'
      OBVIOUS
    <3>2. d.of = run.page /\ d.has \subseteq doc.has \union {run.result}
      BY <1>0, <2>1, <2>2, <3>1, ResultAdded
    <3>3. AtHome(d)
      BY <1>0, <2>2, <2>3, <3>2 DEF HomeInv, AtHome
    <3>4. AtHome(d)'
      BY <2>6, <3>3
    <3> QED
      BY <3>1, <3>4 DEF AtHome
  <2>8. HomeInv'
    <3>1. ASSUME NEW p \in Pages
          PROVE  AtHome(server[p])' /\ AtHome(cache[p])' /\ AtHome(fetched[p])'
      <4>1. UNCHANGED <<server, cache, fetched, home, spent>>
        BY <2>1 DEF edited
      <4> QED
        BY <1>0, <4>1 DEF HomeInv, AtHome
    <3>2. ASSUME NEW h \in Hosts, savers'[h] # NoSave
          PROVE  AtHome(savers[h].blob)'
      <4>1. CASE h = Toolbox
        BY <2>4, <2>7, <4>1 DEF AtHome
      <4>2. CASE h # Toolbox
        <5>1. savers'[h] = savers[h] /\ home' = home /\ spent' = spent
          BY <2>1, <2>4, <4>2 DEF edited
        <5> QED
          BY <1>0, <3>2, <5>1 DEF HomeInv, AtHome
      <4> QED
        BY <4>1, <4>2
    <3> QED
      BY <2>7, <3>1, <3>2 DEF HomeInv
  <2>9. RunInv'
    <3>1. run'.step = "saving" /\ run'.page = run.page /\ run'.result = run.result
      BY <1>0, <2>1, RunKinds DEF Runs, NoRun
    <3>2. run'.result \in spent' /\ home'[run'.result] = run'.page
      BY <2>1, <2>3, <3>1 DEF edited
    <3>3. flow' = Idle /\ selected' = run'.page
      BY <2>1, <2>2, <3>1
    <3> QED
      BY <3>1, <3>2, <3>3 DEF RunInv, InActive, InBackground
  <2> QED
    BY <2>5, <2>8, <2>9 DEF OrderInv
<1> QED
  BY <1>1, <1>2

\* The other steps that bring a result to its page.
LEMMA RunKeepsOrder ==
  ASSUME CalmRun, AiSteps
  PROVE  OrderInv'
<1>0. PlaceInv /\ HomeInv /\ RunInv /\ AiTypeInv /\ run \in Runs /\ reliable
      /\ server \in [Pages -> Document] /\ cache \in [Pages -> Document \union {NoDoc}]
  BY DEF CalmRun, OrderInv, AiTypeInv, AiTypeOK, TypeOK, Calm
<1>1. ASSUME run' = NoRun, UNCHANGED <<editor, home>>
      PROVE  OrderInv'
  BY <1>0, <1>1, PlacesStay, OverInOrder DEF OrderInv
<1>2. CASE JobFails \/ ActiveSaved \/ RequestFails \/ SnapshotMissing
  BY <1>0, <1>1, <1>2 DEF JobFails, ActiveSaved, RequestFails, SnapshotMissing, Ends, AfterRun
<1>3. CASE JobSucceeds
  <2>1. Quiet /\ run.step = "running" /\ run # NoRun
    BY <1>3 DEF JobSucceeds, CalmRun, NoRun
  <2>2. CASE OnActivePage /\ ~HasBitmaps(run.kind)
    BY <1>3, <2>1, <2>2, ApplyKeepsOrder DEF JobSucceeds
  <2>3. CASE ~(OnActivePage /\ ~HasBitmaps(run.kind))
    <3>1. /\ run' = [run EXCEPT !.step = IF OnActivePage THEN "fetching" ELSE "reading"]
          /\ UNCHANGED <<editor, home>>
      BY <1>3, <2>3 DEF JobSucceeds
    <3>2. /\ run'.step = IF OnActivePage THEN "fetching" ELSE "reading"
          /\ run'.page = run.page /\ run'.result = run.result
      BY <1>0, <2>1, <3>1 DEF Runs, NoRun
    <3>3. UNCHANGED <<selected, doc, savers, flow, spent, home>>
      BY <3>1 DEF editor, content, edited
    <3>4. flow = Idle /\ doc.of = selected /\ \A h \in Hosts : savers[h] = NoSave
      BY <2>1, QuietPlace
    <3>5. run'.result \in spent' /\ home'[run'.result] = run'.page
      BY <1>0, <2>1, <3>2, <3>3 DEF RunInv
    <3>6. RunInv'
      <4>1. CASE OnActivePage
        BY <3>2, <3>3, <3>4, <3>5, <4>1 DEF RunInv, InActive, InBackground, OnActivePage
      <4>2. CASE ~OnActivePage
        BY <3>2, <3>3, <3>4, <3>5, <4>2 DEF RunInv, InActive, InBackground, OnActivePage
      <4> QED
        BY <4>1, <4>2
    <3> QED
      BY <1>0, <3>1, <3>6, PlacesStay DEF OrderInv
  <2> QED
    BY <2>2, <2>3
<1>4. CASE BitmapsFetched
  <2>1. run.step = "fetching" /\ Quiet /\ ApplyOnActive
    BY <1>4 DEF BitmapsFetched, CalmRun
  <2>2. OnActivePage
    BY <1>0, <2>1 DEF RunInv, InActive, OnActivePage
  <2> QED
    BY <2>1, <2>2, ApplyKeepsOrder
<1>5. CASE ReadSnapshot
  <2>1. /\ run.step = "reading" /\ UNCHANGED <<editor, home>> /\ run # NoRun
        /\ run' = [run EXCEPT !.step = "merging", !.blob = WithResult(server[run.page])]
    BY <1>5 DEF ReadSnapshot, Snapshot, NoRun
  <2>2. run.page \in Pages /\ run.result \in Results /\ server[run.page] \in Document
    BY <1>0, <2>1, RunKinds
  <2>3. PICK d : d = WithResult(server[run.page])
    OBVIOUS
  <2>4. /\ run'.step = "merging" /\ run'.page = run.page /\ run'.result = run.result /\ run'.kind = run.kind
        /\ run'.blob = d
    <3>1. run \in [step : {"running", "fetching", "saving", "reading"}, page : Pages, result : Results,
                   kind : Kinds, blob : {NoDoc}]
      BY <1>0, <2>1 DEF Runs, NoRun
    <3>2. run' = [run EXCEPT !.step = "merging", !.blob = d]
      BY <2>1, <2>3
    <3> QED
      BY <3>1, <3>2
  <2>5. d.of = run.page /\ d.has \subseteq server[run.page].has \union {run.result}
    BY <1>0, <2>1, <2>2, <2>3, ResultAdded DEF PlaceInv
  <2>6. /\ UNCHANGED <<selected, doc, server, savers, spent, home>>
    BY <2>1 DEF editor, content, edited
  <2>7. run.result \in spent /\ home[run.result] = run.page
    BY <1>0, <2>1 DEF RunInv
  <2>8. AtHome(run.blob)'
    <3>1. AtHome(d)
      BY <1>0, <2>2, <2>5, <2>7 DEF HomeInv, PlaceInv, AtHome
    <3> QED
      BY <2>4, <2>6, <3>1 DEF AtHome
  <2>9. run'.blob = WithResult(server[run.page])'
    BY <2>3, <2>4, <2>6 DEF WithResult, Replaced
  <2>10. /\ selected # run.page /\ doc.of # run.page
         /\ \A h \in Hosts : savers[h] # NoSave => savers[h].page # run.page
    BY <1>0, <2>1 DEF RunInv, InBackground
  <2>11. RunInv'
    <3>1. run'.result \in spent' /\ home'[run'.result] = run'.page
      BY <2>4, <2>6, <2>7
    <3>2. run'.blob.of = run'.page
      BY <2>4, <2>5
    <3>3. /\ selected' # run'.page /\ doc'.of # run'.page
          /\ \A h \in Hosts : savers'[h] # NoSave => savers'[h].page # run'.page
      BY <2>4, <2>6, <2>10
    <3>4. ~InActive'
      BY <2>4 DEF InActive
    <3> QED
      BY <2>8, <2>9, <3>1, <3>2, <3>3, <3>4 DEF RunInv
  <2> QED
    BY <1>0, <2>1, <2>11, PlacesStay DEF OrderInv
<1>6. CASE PutSnapshot
  <2>1. /\ run.step = "merging" /\ server' = [server EXCEPT ![run.page] = run.blob] /\ run # NoRun
        /\ run' = [run EXCEPT !.step = "put"]
        /\ UNCHANGED <<selected, loaded, doc, cache, fetched, savers, flow, home>> /\ spent' = spent
    BY <1>6 DEF PutSnapshot, NoRun, edited
  <2>2. run.page \in Pages
    BY <1>0, <2>1, RunKinds
  <2>3. run'.step = "put" /\ run'.page = run.page /\ run'.result = run.result /\ run'.blob = run.blob
    BY <1>0, <2>1 DEF Runs, NoRun
  <2>4. /\ run.blob.of = run.page /\ AtHome(run.blob) /\ run.result \in spent /\ home[run.result] = run.page
        /\ selected # run.page /\ doc.of # run.page
        /\ \A h \in Hosts : savers[h] # NoSave => savers[h].page # run.page
    BY <1>0, <2>1 DEF RunInv, InBackground
  <2>5. \A p \in Pages : server'[p] \in {server[p], run.blob} /\ server'[p].of = p
    BY <1>0, <2>1, <2>2, <2>4 DEF PlaceInv
  <2>6. PlaceInv'
    BY <1>0, <2>1, <2>5 DEF PlaceInv
  <2>7. \A p \in Pages : AtHome(server[p])' /\ AtHome(cache[p])' /\ AtHome(fetched[p])'
    <3>1. ASSUME NEW p \in Pages
          PROVE  AtHome(server[p])'
      <4>1. PICK d : d = server'[p]
        OBVIOUS
      <4>2. AtHome(d)
        BY <1>0, <2>4, <2>5, <4>1 DEF HomeInv
      <4> QED
        BY <2>1, <4>1, <4>2 DEF AtHome
    <3>2. \A p \in Pages : AtHome(cache[p])' /\ AtHome(fetched[p])'
      BY <1>0, <2>1 DEF HomeInv, AtHome
    <3> QED
      BY <3>1, <3>2
  <2>8. AtHome(doc)' /\ \A h \in Hosts : savers'[h] # NoSave => AtHome(savers[h].blob)'
    BY <1>0, <2>1 DEF HomeInv, AtHome
  <2>9. RunInv'
    <3>1. AtHome(run.blob)'
      BY <2>1, <2>3, <2>4 DEF AtHome
    <3> QED
      BY <2>1, <2>3, <2>4, <3>1 DEF RunInv, InActive, InBackground
  <2> QED
    BY <2>6, <2>7, <2>8, <2>9 DEF OrderInv, HomeInv
<1>7. CASE SeedCaches
  <2>1. /\ run.step = "put" /\ cache' = [cache EXCEPT ![run.page] = run.blob] /\ run' = NoRun
        /\ UNCHANGED <<selected, loaded, doc, server, fetched, savers, flow, home>> /\ spent' = spent
    BY <1>7 DEF SeedCaches, Ends, AfterRun, edited
  <2>2. run.blob.of = run.page /\ AtHome(run.blob)
    BY <1>0, <2>1 DEF RunInv
  <2>3. \A p \in Pages : cache'[p] = cache[p] \/ (cache'[p] = run.blob /\ run.blob.of = p)
    BY <1>0, <2>1, <2>2
  <2>4. PlaceInv'
    BY <1>0, <2>1, <2>3 DEF PlaceInv
  <2>5. \A p \in Pages : AtHome(server[p])' /\ AtHome(cache[p])' /\ AtHome(fetched[p])'
    <3>1. ASSUME NEW p \in Pages
          PROVE  AtHome(cache[p])'
      <4>1. PICK d : d = cache'[p]
        OBVIOUS
      <4>2. AtHome(d)
        BY <1>0, <2>2, <2>3, <4>1 DEF HomeInv
      <4> QED
        BY <2>1, <4>1, <4>2 DEF AtHome
    <3>2. \A p \in Pages : AtHome(server[p])' /\ AtHome(fetched[p])'
      BY <1>0, <2>1 DEF HomeInv, AtHome
    <3> QED
      BY <3>1, <3>2
  <2>6. AtHome(doc)' /\ \A h \in Hosts : savers'[h] # NoSave => AtHome(savers[h].blob)'
    BY <1>0, <2>1 DEF HomeInv, AtHome
  <2> QED
    BY <2>1, <2>4, <2>5, <2>6, OverInOrder DEF OrderInv, HomeInv
<1> QED
  BY <1>2, <1>3, <1>4, <1>5, <1>6, <1>7 DEF AiSteps

\* The moods never change.
LEMMA AiMoodStays ==
  ASSUME [AiNext]_aiVars, AiTypeInv
  PROVE  Calm' <=> Calm
<1>0. mood' = mood => (Calm' <=> Calm)
  BY DEF mood, Calm
<1>1. ASSUME NEW r \in Results, NEW kind \in Kinds, RunAction(r, kind)
      PROVE  mood' = mood
  BY <1>1 DEF RunAction
<1>2. ASSUME AiSteps
      PROVE  mood' = mood
  BY <1>2 DEF AiSteps, JobFails, RequestFails, JobSucceeds, BitmapsFetched, ActiveSaved, ReadSnapshot,
              SnapshotMissing, PutSnapshot, SeedCaches, ApplyOnActive, editor
<1>3. CASE EditorSteps
  BY <1>3, MoodStays DEF EditorSteps
<1>4. CASE UNCHANGED aiVars
  BY <1>0, <1>4 DEF aiVars, editor
<1> QED
  BY <1>0, <1>1, <1>2, <1>3, <1>4 DEF AiNext

\* Every step keeps the inductive invariant.
LEMMA AiNextInvariant ==
  ASSUME AiIInv, [AiNext]_aiVars
  PROVE  AiIInv'
<1>1. AiTypeInv /\ AiTypeInv' /\ (Calm' <=> Calm)
  BY AiNextTypes, AiMoodStays DEF AiIInv, AiTypeInv
<1>2. ASSUME Calm, Settled
      PROVE  OrderInv'
  <2>1. CalmRun
    BY <1>1, <1>2 DEF AiIInv, CalmRun, OrderInv
  <2>2. CASE \E r \in Results, kind \in Kinds : RunAction(r, kind)
    BY <2>1, <2>2, ActionKeepsOrder
  <2>3. CASE AiSteps
    BY <2>1, <2>3, RunKeepsOrder
  <2>4. CASE EditorSteps
    BY <1>1, <2>1, <2>4, EditorKeepsOrder
  <2>5. CASE UNCHANGED aiVars
    <3>1. UNCHANGED <<editor, home, run, server, selected, doc, savers, flow, spent>>
      BY <2>5 DEF aiVars, editor, content, edited
    <3>2. RunInv'
      <4>1. RunInv
        BY <2>1 DEF CalmRun, OrderInv
      <4>2. WithResult(server[run.page])' = WithResult(server[run.page])
        BY <3>1 DEF WithResult, Replaced
      <4> QED
        BY <3>1, <4>1, <4>2 DEF RunInv, AtHome, InActive, InBackground
    <3> QED
      BY <2>1, <3>1, <3>2, PlacesStay DEF CalmRun, OrderInv
  <2> QED
    BY <2>2, <2>3, <2>4, <2>5 DEF AiNext
<1> QED
  BY <1>1, <1>2 DEF AiIInv, AiTypeInv, OrderInv

\* At the start there are no results and no run.
LEMMA AiInitInvariant ==
  ASSUME AiInit
  PROVE  AiIInv
<1>1. /\ Init /\ run = NoRun /\ processing = {} /\ home = [r \in Results |-> NoPage]
  BY DEF AiInit
<1>2. TypeOK /\ flow \in Flows
  BY <1>1, InitTypes DEF TypeInv
<1>3. AiTypeOK /\ run \in Runs
  BY <1>1, <1>2 DEF AiTypeOK, Runs
<1>4. /\ doc = NoDoc /\ selected = NoPage /\ loaded = NoPage /\ flow = Idle
      /\ server = [p \in Pages |-> [of |-> p, has |-> {}]]
      /\ cache = [p \in Pages |-> NoDoc] /\ fetched = [p \in Pages |-> NoDoc]
      /\ savers = [h \in Hosts |-> NoSave] /\ NoDoc.of = NoPage /\ NoDoc.has = {}
  BY <1>1 DEF Init, NoDoc
<1>5. PlaceInv
  BY <1>4, FlowMade DEF PlaceInv
<1>6. HomeInv
  BY <1>4 DEF HomeInv, AtHome
<1>7. RunInv
  BY <1>1 DEF RunInv, NoRun, InActive, InBackground
<1> QED
  BY <1>2, <1>3, <1>5, <1>6, <1>7 DEF AiIInv

\* The invariant of the runs of AI jobs, in every state.
THEOREM AiInductiveInvariant == AiSpec => []AiIInv
<1>1. AiInit => AiIInv
  BY AiInitInvariant
<1>2. AiIInv /\ [AiNext]_aiVars => AiIInv'
  BY AiNextInvariant
<1> QED
  BY <1>1, <1>2, PTL DEF AiSpec

\* A job that ends while nothing is saved or switched leaves its result in no document but
\* that of the page it was asked for (result-applier.ts:80-86).
THEOREM ResultsStayHome == AiSpec => []ResultOnItsPage
<1>1. AiIInv => ResultOnItsPage
  <2>1. ASSUME AiIInv, Calm, Settled, NEW r \in Results
        PROVE  OnItsPage(r)
    <3>1. PlaceInv /\ HomeInv /\ doc \in Document \union {NoDoc}
          /\ cache \in [Pages -> Document \union {NoDoc}]
      BY <2>1 DEF AiIInv, AiTypeOK, TypeOK
    <3>2. r \in doc.has => doc.of = home[r]
      BY <3>1 DEF HomeInv, AtHome
    <3>3. ASSUME NEW p \in Pages, r \in server[p].has \union cache[p].has
          PROVE  p = home[r] /\ server[p].of = p
      <4>1. server[p].of = p /\ cache[p].of \in {p, NoPage} /\ AtHome(server[p]) /\ AtHome(cache[p])
        BY <3>1 DEF PlaceInv, HomeInv
      <4>2. r \in cache[p].has => cache[p].of = p
        <5>1. cache[p] = NoDoc \/ cache[p].of # NoPage
          BY <3>1, DocumentIsSome
        <5>2. NoDoc.has = {}
          BY DEF NoDoc
        <5> QED
          BY <4>1, <5>1, <5>2
      <4> QED
        BY <3>3, <4>1, <4>2 DEF AtHome
    <3> QED
      BY <3>2, <3>3 DEF OnItsPage
  <2> QED
    BY <2>1 DEF ResultOnItsPage
<1> QED
  BY <1>1, AiInductiveInvariant, PTL

\* The only step from a merged snapshot to a stored one is the request that puts it.
LEMMA OnlyPutStores ==
  ASSUME AiTypeInv, AiNext, run.step = "merging", run'.step = "put"
  PROVE  PutSnapshot
<1>1. run \in Runs /\ run' # NoRun /\ run # NoRun
  BY DEF AiTypeInv, NoRun
<1>2. ~\E r \in Results, kind \in Kinds : RunAction(r, kind)
  BY <1>1 DEF RunAction
<1>3. ~EditorSteps
  BY DEF EditorSteps
<1>4. ~(JobFails \/ RequestFails \/ JobSucceeds \/ BitmapsFetched \/ ActiveSaved \/ ReadSnapshot
        \/ SnapshotMissing \/ SeedCaches)
  BY <1>1 DEF JobFails, RequestFails, JobSucceeds, BitmapsFetched, ActiveSaved, ReadSnapshot,
              SnapshotMissing, SeedCaches, Ends, AfterRun
<1> QED
  BY <1>2, <1>3, <1>4 DEF AiNext, AiSteps

\* Merging a result takes nothing from the page but the texts it replaces, although the
\* read and the write are two requests (result-applier.ts:169-234): the page is not shown,
\* and what is saved meanwhile are other pages.
THEOREM MergesKeepEdits == AiSpec => MergeKeepsEdits
<1>1. ASSUME AiIInv, AiNext, Calm, Settled, run.step = "merging", run'.step = "put", NEW p \in Pages
      PROVE  (server[p].has \ Replaced) \subseteq server'[p].has
  <2>1. AiTypeInv /\ RunInv /\ run \in Runs /\ run # NoRun /\ server \in [Pages -> Document]
    BY <1>1 DEF AiIInv, AiTypeInv, AiTypeOK, TypeOK, NoRun
  <2>2. PutSnapshot
    BY <1>1, <2>1, OnlyPutStores
  <2>3. server' = [server EXCEPT ![run.page] = run.blob]
    BY <2>2 DEF PutSnapshot
  <2>4. run.page \in Pages /\ run.blob = WithResult(server[run.page])
    BY <1>1, <2>1, RunKinds DEF RunInv
  <2>5. run.blob.has = (server[run.page].has \ Replaced) \union {run.result}
    BY <2>1, <2>4, ResultAdded
  <2> QED
    BY <2>1, <2>3, <2>4, <2>5
<1>2. AiIInv /\ [AiNext]_aiVars =>
        [Calm /\ Settled /\ run.step = "merging" /\ run'.step = "put" =>
           \A p \in Pages : (server[p].has \ Replaced) \subseteq server'[p].has]_aiVars
  BY <1>1
<1> QED
  BY <1>2, AiInductiveInvariant, PTL DEF AiSpec, MergeKeepsEdits
=============================================================================
