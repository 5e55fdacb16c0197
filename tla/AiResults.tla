------------------------------ MODULE AiResults ------------------------------
(***************************************************************************)
(* What becomes of an AI job in the browser: runAction of useAiActions.ts  *)
(* and result-applier.ts, beside the editor of PageEditor.                 *)
(*                                                                         *)
(* A job is started for the page that is selected and runs while the user  *)
(* goes on.  When it has succeeded its result goes into the active         *)
(* document, if the page is selected again or still, and is saved from     *)
(* there; else it is merged into the snapshot the service has, which is    *)
(* put back, and into the cache.  A result is an edit nobody makes by hand.*)
(***************************************************************************)
EXTENDS PageEditor

CONSTANTS
  Results,    \* what jobs bring about (bound: one job each)
  Kinds,      \* operation kinds
  Texts,      \* edits that are text layers
  Toolbox,    \* the host of autosave that useAiActions brings along
  Settled     \* jobs end, and bitmaps arrive, only while no page is being switched or saved

ASSUME ResultAssumption ==
  /\ Results \subseteq Edits /\ Texts \subseteq Edits /\ Toolbox \in Hosts \ {Tab}
  /\ Settled \in BOOLEAN
  /\ Kinds \subseteq {"detect", "inpaint", "translate", "pipeline"}

VARIABLES
  run,          \* runAction: the module-wide `loading`, and how far it is
  processing,   \* pages the list of pages shows as "ai-processing"
  home          \* history: the page a result was asked for

editor == <<route, selected, loaded, content, flags, savers, flow, edited, mood>>
aiVars == <<editor, run, processing, home>>

NoRun == [step |-> "none"]
Running(page, result, kind) ==
  [step |-> "running", page |-> page, result |-> result, kind |-> kind, blob |-> NoDoc]

InActive == run.step \in {"fetching", "saving"}
InBackground == run.step \in {"reading", "merging", "put"}
Applying == InActive \/ InBackground

AiInit ==
  /\ Init
  /\ run = NoRun /\ processing = {}
  /\ home = [r \in Results |-> NoPage]
  /\ patient /\ steady /\ unhurried     \* bound: what goes wrong without, PageEditor says

-----------------------------------------------------------------------------
\* Which results replace the text layers, and which have bitmaps to fetch.
ReplaceTextLayers(kind) == kind \in {"detect", "pipeline"}
HasBitmaps(kind) == kind \in {"inpaint", "pipeline"}

Replaced == IF ReplaceTextLayers(run.kind) THEN Texts ELSE {}
WithResult(d) == [d EXCEPT !.has = (@ \ Replaced) \union {run.result}]

\* runAction up to createJob.  The button does nothing while a job runs.
RunAction(r, kind) ==
  /\ UserActs /\ route = "editor" /\ r \notin spent
  /\ run = NoRun /\ selected # NoPage /\ doc # NoDoc
  /\ run' = Running(selected, r, kind)
  /\ processing' = processing \union {selected}
  /\ home' = [home EXCEPT ![r] = selected]
  /\ spent' = spent \union {r}
  /\ UNCHANGED <<route, selected, loaded, content, flags, savers, flow, latest, undone, mood>>

(* Mutation: finally does not free the button. *)
StuckRun == [run EXCEPT !.step = "stuck"]
AfterRun == NoRun

\* The job fails, the client gives up on it after 600 polls, or a request fails: the page
\* is shown as before.
Ends ==
  /\ run' = AfterRun
  /\ processing' = processing \ {run.page}

JobFails ==
  /\ run.step = "running" /\ Ends
  /\ UNCHANGED <<editor, home>>

RequestFails ==
  /\ ~reliable /\ run.step \in {"running", "fetching", "reading", "merging", "put"} /\ Ends
  /\ UNCHANGED <<editor, home>>

(* Mutation: the result goes to whatever page is selected. *)
Wherever == TRUE

OnActivePage == selected = run.page

(* Mutation: the commits of the result are thought to flag the document. *)
NotMarked == <<dirty, dirtyPage>>

\* markDirty(): no commit of a result makes a history entry.
MarkedDirty == <<TRUE, OrElse(selected, dirtyPage)>>

\* applyOnActive and applyTranslateOnActive once they have what they need: the layers, the
\* flag and the save, in one go.  Without a document the first commit throws.
ApplyOnActive ==
  \/ /\ doc = NoDoc /\ Ends
     /\ UNCHANGED <<editor, home>>
  \/ /\ doc # NoDoc /\ savers[Toolbox] = NoSave   \* a host saves one thing at a time (bound)
     /\ doc' = WithResult(doc)
     /\ SaveDocument(doc', MarkedDirty, {Toolbox}, run.page, selected, {Toolbox})
     /\ run' = [run EXCEPT !.step = "saving"]
     /\ processing' = processing \ {run.page}
     /\ UNCHANGED <<route, selected, loaded, server, cache, fetched, flow, edited, mood, home>>

\* The job has succeeded; whether its page is active is decided here, before any bitmap is
\* fetched.
JobSucceeds ==
  /\ run.step = "running" /\ (Settled => Quiet)
  /\ IF OnActivePage /\ ~HasBitmaps(run.kind) THEN ApplyOnActive
     ELSE /\ run' = [run EXCEPT !.step = IF OnActivePage THEN "fetching" ELSE "reading"]
          /\ UNCHANGED <<editor, processing, home>>

BitmapsFetched == run.step = "fetching" /\ (Settled => Quiet) /\ ApplyOnActive

ActiveSaved ==
  /\ run.step = "saving" /\ savers[Toolbox] = NoSave
  /\ run' = AfterRun
  /\ UNCHANGED <<editor, processing, home>>

(* Mutation: the snapshot is taken from the cache of the browser. *)
CachedSnapshot(p) == IF cache[p] # NoDoc THEN cache[p] ELSE server[p]
Snapshot(p) == server[p]

\* applyInBackground and applyTranslateInBackground.
ReadSnapshot ==
  /\ run.step = "reading"
  /\ run' = [run EXCEPT !.step = "merging", !.blob = WithResult(Snapshot(run.page))]
  /\ UNCHANGED <<editor, processing, home>>

\* The page was deleted elsewhere: the run is over, and the page is left as it is shown.
SnapshotMissing ==
  /\ ~reliable /\ run.step = "reading"
  /\ run' = AfterRun
  /\ UNCHANGED <<editor, processing, home>>

PutSnapshot ==
  /\ run.step = "merging"
  /\ server' = [server EXCEPT ![run.page] = run.blob]
  /\ run' = [run EXCEPT !.step = "put"]
  /\ UNCHANGED <<route, selected, loaded, doc, cache, fetched, flags, savers, flow, edited, mood>>
  /\ UNCHANGED <<processing, home>>

SeedCaches ==
  /\ run.step = "put"
  /\ cache' = [cache EXCEPT ![run.page] = run.blob]
  /\ Ends
  /\ UNCHANGED <<route, selected, loaded, doc, server, fetched, flags, savers, flow, edited, mood>>
  /\ UNCHANGED home

-----------------------------------------------------------------------------
AiSteps ==
  \/ JobFails \/ RequestFails \/ JobSucceeds \/ BitmapsFetched \/ ActiveSaved
  \/ ReadSnapshot \/ SnapshotMissing \/ PutSnapshot \/ SeedCaches

\* A patient user stays on the page while a result is put into it, and does not open the page
\* while one is merged behind it.
LetsItEnd ==
  /\ InActive => (flow = Idle => flow' = Idle) /\ (doc # NoDoc => doc' # NoDoc)
  /\ InBackground => (selected' = run.page => selected = run.page)

EditorSteps ==
  /\ Next
  /\ spent' \cap Results = spent \cap Results
  /\ patient => LetsItEnd
  /\ UNCHANGED <<run, processing, home>>

AiNext ==
  \/ \E r \in Results, kind \in Kinds : RunAction(r, kind)
  \/ AiSteps \/ EditorSteps

AiSpec == AiInit /\ [][AiNext]_aiVars

\* Jobs end, or the client stops asking; requests end; the run goes on when its save ends,
\* before the user can save again; and the editor as in PageEditor.
AiFairSpec ==
  /\ AiSpec
  /\ WF_aiVars(AiSteps) /\ SF_aiVars(BitmapsFetched \/ ActiveSaved)
  /\ SF_aiVars(EditorSteps /\ FlowSteps) /\ WF_aiVars(EditorSteps /\ (StorePaint \/ PaintStored))
  /\ WF_aiVars(EditorSteps /\ ProcessQueue)
  /\ \A h \in Hosts : WF_aiVars(EditorSteps /\ TimerFires(h)) /\ WF_aiVars(EditorSteps /\ SaveSteps(h))

-----------------------------------------------------------------------------
\* Types of the variables.
AiTypeOK ==
  /\ TypeOK
  /\ run = NoRun \/ Applying \/ run.step = "running"
  /\ processing \subseteq Pages /\ home \in [Results -> Pages \union {NoPage}]

OnItsPage(r) ==
  /\ r \in doc.has => doc.of = home[r]
  /\ \A p \in Pages : r \in server[p].has \union cache[p].has => p = home[r] /\ server[p].of = p

\* Jobs that end while nothing is being saved or switched: their result is in no document
\* but that of the page it was asked for, in the editor, the service and the cache, although
\* the user has moved on (result-applier.ts:80-86).
ResultOnItsPage == Calm /\ Settled => \A r \in Results : OnItsPage(r)

(***************************************************************************)
(* The inductive invariant: which page each document is of while the tab   *)
(* waits, where a result may be, and what a run may rely on until it ends. *)
(***************************************************************************)
Runs ==
  {NoRun} \union [step : {"running", "fetching", "saving", "reading"}, page : Pages, result : Results,
                  kind : Kinds, blob : {NoDoc}]
          \union [step : {"merging", "put"}, page : Pages, result : Results, kind : Kinds, blob : Document]

PlaceInv ==
  /\ loaded = doc.of
  /\ flow.step \in {"idle", "leaving"} => doc.of = selected
  /\ flow.step \in {"saving", "loading"} => flow.to = selected
  /\ flow.step = "saving" => flow.from \in {NoPage, doc.of}
  /\ \A p \in Pages : server[p].of = p /\ cache[p].of \in {p, NoPage} /\ fetched[p].of \in {p, NoPage}
  /\ \A h \in Hosts : savers[h] # NoSave => savers[h].page = savers[h].blob.of

\* A document has no results but those of its page.
AtHome(d) == \A r \in Results \intersect d.has : r \in spent /\ home[r] = d.of

HomeInv ==
  /\ AtHome(doc)
  /\ \A p \in Pages : AtHome(server[p]) /\ AtHome(cache[p]) /\ AtHome(fetched[p])
  /\ \A h \in Hosts : savers[h] # NoSave => AtHome(savers[h].blob)

\* The page of a run stays shown while the result goes into it, and away while it is merged.
RunInv ==
  /\ run # NoRun => run.result \in spent /\ home[run.result] = run.page
  /\ run.step \in {"merging", "put"} => run.blob.of = run.page /\ AtHome(run.blob)
  /\ run.step = "merging" => run.blob = WithResult(server[run.page])
  /\ InActive => flow = Idle /\ selected = run.page
  /\ InBackground =>
       /\ selected # run.page /\ doc.of # run.page
       /\ \A h \in Hosts : savers[h] # NoSave => savers[h].page # run.page

AiIInv ==
  /\ AiTypeOK /\ run \in Runs /\ flow \in Flows
  /\ Calm /\ Settled => PlaceInv /\ HomeInv /\ RunInv

\* result-applier.ts:80-84 says so of any job: "applying mutations to store would corrupt
\* whatever document is now active".  The user waits and requests succeed.
ResultNeverElsewhere == Calm => \A r \in Results : OnItsPage(r)

\* Merging a result behind the editor's back takes nothing from the page but the texts it
\* replaces (result-applier.ts:169-234), although the read and the write are two requests.
MergeKeepsEdits ==
  [][Calm /\ Settled /\ run.step = "merging" /\ run'.step = "put" =>
       \A p \in Pages : (server[p].has \ Replaced) \subseteq server'[p].has]_aiVars

\* A result that is being applied reaches the service, on either path.
ResultReachesService ==
  \A r \in Results :
    Calm /\ Settled /\ Applying /\ run.result = r ~> \E p \in Pages : p = home[r] /\ r \in server[p].has

\* A run ends, so that another can start, and then no page is shown as being processed,
\* whatever fails on the way (useAiActions.ts:233-252), unless a page has gone.
RunsEnd == run # NoRun ~> run = NoRun /\ (reliable => processing = {})
=============================================================================
