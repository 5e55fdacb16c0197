----------------------------- MODULE EditHistory -----------------------------
(***************************************************************************)
(* Undo and redo of the image editor: the queue of                         *)
(* history-state-factory.ts, history-module.ts over the package            *)
(* undo-manager, the mutations of document-module.ts, and the actions of   *)
(* store/actions, each of which commits a mutation and enqueues a pair of  *)
(* closures, one that takes it back and one that repeats it.               *)
(*                                                                         *)
(* A closure is a sequence of commands.  A command names a layer by its    *)
(* index, or holds a reference to the layer object it met; updateLayer     *)
(* puts a new object in the place of the old.  The bitmap of a layer is    *)
(* shared by its objects, and is restored from a blob that has to load.    *)
(***************************************************************************)
EXTENDS Integers, Sequences, SequencesExt, FiniteSets

CONSTANTS
  Start,        \* layers the document opens with (bound)
  STATES_TO_SAVE,
  MaxObjects,   \* layer objects made (bound)
  Sessions      \* what a session is used for, its number of edits, and whether the user waits (bound)

ASSUME HistoryAssumption ==
  /\ Start \in Nat \ {0} /\ STATES_TO_SAVE \in Nat \ {0} /\ MaxObjects \in Nat /\ Start <= MaxObjects
  /\ \A s \in Sessions :
       IsFiniteSet(s.does) /\ s.edits \in Nat /\ s.patient \in BOOLEAN

VARIABLES
  heap,       \* layer objects, by reference
  layers,     \* references of the active document's layers, from the bottom
  bitmap,     \* the strokes in the bitmap of a layer, by its id
  size,       \* of the document
  loading,    \* blobs that will be drawn on bitmaps when they have loaded
  stroke,     \* a stroke that waits to be stored: the layer and what its bitmap was before
  converting, \* strokes of which the bitmaps are made blobs, and whether an undo waits for it
  merging,    \* mergeLayerDown waits for the picture of the layers
  queue,      \* stateQueue, which never holds more than one state
  stack, at,  \* the commands of undoManager and its index, 0 before the first
  stored, blobUrls,
  ids,        \* ids of layers given out
  edits,      \* edits made
  base,       \* history: what the document shows before the first entry
  branched,   \* history: an entry replaced others that had been undone
  session     \* what the user does and how; never changes

document == <<heap, layers, bitmap, size, loading, ids>>
manager == <<stack, at, stored, blobUrls, base, branched>>
vars == <<document, stroke, converting, merging, queue, manager, edits, session>>

None == [key |-> <<"none">>]
NoStroke == [layer |-> 0]
NoMerge == [index |-> 0]

NewLayer(id) ==
  [id |-> id, name |-> 0, visible |-> TRUE, filters |-> 0, mask |-> FALSE, maskX |-> 0, rotation |-> 0, left |-> 0]

Document ==
  [heap |-> heap, layers |-> layers, bitmap |-> bitmap, size |-> size, loading |-> loading,
   ids |-> ids, urls |-> blobUrls]

\* What the user sees of document d.
Shown(d) ==
  <<d.size, [i \in DOMAIN d.layers |->
     LET o == d.heap[d.layers[i]] IN <<[o EXCEPT !.id = 0], d.bitmap[o.id]>>]>>
Now == Shown(Document)

Opened ==
  [heap |-> [i \in 1..Start |-> [NewLayer(i) EXCEPT !.mask = (i = 1)]], layers |-> [i \in 1..Start |-> i],
   bitmap |-> [i \in 1..(MaxObjects + 1) |-> {}], size |-> 0, loading |-> {}, ids |-> Start]

Init ==
  /\ heap = Opened.heap /\ layers = Opened.layers /\ bitmap = Opened.bitmap /\ size = 0
  /\ loading = {} /\ ids = Start
  /\ stack = <<>> /\ at = 0 /\ stored = 0 /\ blobUrls = {} /\ base = Shown(Opened) /\ branched = FALSE
  /\ stroke = NoStroke /\ converting = {} /\ merging = NoMerge /\ queue = None /\ edits = 0
  /\ session \in Sessions

-----------------------------------------------------------------------------
(***************************************************************************)
(* The mutations, on a state of the document                               *)
(***************************************************************************)
(* Mutation: what comes back is made anew, whether it has an id or not. *)
InsertedAnew(d, i, o) ==
  LET n == Len(d.layers)
      k == IF i > n THEN n + 1 ELSE i
  IN  [d EXCEPT !.heap = Append(@, [@[o] EXCEPT !.id = d.ids + 1]), !.ids = @ + 1,
                !.layers = SubSeq(@, 1, k - 1) \o <<Len(d.heap) + 1>> \o SubSeq(@, k, n)]

InsertLayerAtIndex(d, i, o) ==
  LET n == Len(d.layers)
      k == IF i > n THEN n + 1 ELSE i
  IN  [d EXCEPT !.layers = SubSeq(@, 1, k - 1) \o <<o>> \o SubSeq(@, k, n)]

RemoveLayer(d, i) == [d EXCEPT !.layers = IF i \in DOMAIN @ THEN RemoveAt(@, i) ELSE @]

\* addLayer of a text layer: whenever it runs it makes another.
AddLayer(d) ==
  [d EXCEPT !.heap = Append(@, NewLayer(d.ids + 1)), !.ids = @ + 1,
            !.layers = Append(@, Len(d.heap) + 1)]

UpdateLayer(d, i, f, v) ==
  IF i \in DOMAIN d.layers
  THEN [d EXCEPT !.heap = Append(@, [@[d.layers[i]] EXCEPT ![f] = v]), !.layers[i] = Len(d.heap) + 1]
  ELSE d

UpdateLayerTransform(d, i, f, v) ==
  IF i \in DOMAIN d.layers THEN [d EXCEPT !.heap[d.layers[i]][f] = v] ELSE d

ReorderLayers(d, order) ==
  [d EXCEPT !.layers = [n \in DOMAIN order |->
     CHOOSE o \in Range(d.layers) : d.heap[o].id = order[n]]]

MoveObject(d, o, f, x) == [d EXCEPT !.heap[o][f] = x]

\* updateOffsets and setActiveDocumentSize.
UpdateOffsets(d, left, size_) ==
  [d EXCEPT !.size = size_,
            !.heap = [o \in DOMAIN @ |->
              IF o \in Range(d.layers) THEN [d.heap[o] EXCEPT !.left = left[d.heap[o].id]] ELSE d.heap[o]]]

\* restoreSource: the bitmap is cleared at once, and drawn on when the blob has loaded; the URL
\* of a blob that was disposed of never does.
RestoreSource(d, id, strokes, no) ==
  [d EXCEPT !.bitmap[id] = {},
            !.loading = IF no \in d.urls THEN @ \union {[id |-> id, strokes |-> strokes]} ELSE @]

Perform(d, c) ==
  CASE c.do = "insert" -> InsertLayerAtIndex(d, c.index, c.object)
    [] c.do = "remove" -> RemoveLayer(d, c.index)
    [] c.do = "add" -> AddLayer(d)
    [] c.do = "update" -> UpdateLayer(d, c.index, c.field, c.value)
    [] c.do = "transform" -> UpdateLayerTransform(d, c.index, "rotation", c.value)
    [] c.do = "reorder" -> ReorderLayers(d, c.order)
    [] c.do = "move" -> MoveObject(d, c.object, c.field, c.value)
    [] c.do = "offsets" -> UpdateOffsets(d, c.left, c.size)
    [] c.do = "restore" -> RestoreSource(d, c.id, c.strokes, c.no)

Run(commands, d) == FoldLeft(Perform, d, commands)

Become(d) ==
  /\ heap' = d.heap /\ layers' = d.layers /\ bitmap' = d.bitmap /\ size' = d.size
  /\ loading' = d.loading /\ ids' = d.ids

-----------------------------------------------------------------------------
(***************************************************************************)
(* history-module.ts and undo-manager                                      *)
(***************************************************************************)
Manager == [stack |-> stack, at |-> at, stored |-> stored, blobUrls |-> blobUrls, base |-> base, branched |-> branched]

\* undoManager.add, which drops what was undone, and the oldest when there are too many.
Added(m, s) ==
  LET kept == Append(SubSeq(m.stack, 1, m.at), s)
      over == Len(kept) > STATES_TO_SAVE
  IN  [m EXCEPT !.stack = IF over THEN Tail(kept) ELSE kept,
                !.at = IF over THEN STATES_TO_SAVE ELSE Len(kept),
                !.base = IF over THEN Head(kept).after ELSE @,
                !.branched = @ \/ m.at < Len(m.stack)]

(* Mutation: nothing is disposed of. *)
KeepAll(urls, n) == urls

(* Mutation: the oldest entry that can be undone is counted out. *)
DisposeEarly(urls, n) == {u \in urls : u > n - STATES_TO_SAVE + 1}

\* The blobs of states that were registered long enough ago are disposed of.
StillAvailable(urls, n) == IF n > STATES_TO_SAVE THEN {u \in urls : u >= n - STATES_TO_SAVE} ELSE urls

SaveState(m, s) ==
  LET n == m.stored + 1
      urls == StillAvailable(m.blobUrls, n)
  IN  [Added(m, [s EXCEPT !.no = n]) EXCEPT !.stored = n, !.blobUrls = IF s.resources THEN urls \union {n} ELSE urls]

\* processQueue.
ProcessedQueue(m) == IF queue = None THEN m ELSE SaveState(m, queue)

BecomeManager(m) ==
  /\ stack' = m.stack /\ at' = m.at /\ stored' = m.stored /\ blobUrls' = m.blobUrls
  /\ base' = m.base /\ branched' = m.branched

State(key, undo, redo, after) ==
  [key |-> key, undo |-> undo, redo |-> redo, resources |-> FALSE, no |-> 0, after |-> after]

(* Mutation: the undo of the later state is taken. *)
Replaced(old, new) == new

Merged(old, new) == [old EXCEPT !.redo = new.redo, !.after = new.after]

EnqueueState(s) ==
  IF queue # None /\ queue.key = s.key THEN queue' = Merged(queue, s) /\ UNCHANGED manager
  ELSE queue' = s /\ BecomeManager(ProcessedQueue(Manager))

QueueTimeout ==
  /\ queue # None /\ queue' = None
  /\ BecomeManager(ProcessedQueue(Manager))
  /\ UNCHANGED <<document, stroke, converting, merging, edits, session>>

-----------------------------------------------------------------------------
(***************************************************************************)
(* The actions                                                             *)
(***************************************************************************)
AtRest == loading = {} /\ merging = NoMerge /\ converting = {}

\* A patient user lets blobs load, a merge end and a stroke be stored before going on, and does
\* not repeat within a second what changes the order of the layers.
Waits(condition) == session.patient => condition
Repeats(key) == key = queue.key /\ key[1] \in {"layerAdd", "duplicate", "layerRemove", "merge"}

MayEdit(action, key) ==
  /\ action \in session.does /\ edits < session.edits /\ Len(heap) < MaxObjects
  /\ Waits(AtRest /\ stroke = NoStroke /\ ~Repeats(key))

\* The document is changed by the commands redo, and a state enqueued.
Commit(action, key, undo, redo) ==
  LET d == Run(redo, Document) IN
    /\ MayEdit(action, key)
    /\ Become(d)
    /\ EnqueueState(State(key, undo, redo, Shown(d)))
    /\ edits' = edits + 1
    /\ UNCHANGED <<stroke, converting, merging, session>>

Field(i, f) == heap[layers[i]][f]
Change(action, key, i, f, v) ==
  Commit(action, <<key, i>>, <<[do |-> "update", index |-> i, field |-> f, value |-> Field(i, f)]>>,
                             <<[do |-> "update", index |-> i, field |-> f, value |-> v]>>)

RenameLayer(i) == Change("rename", "layerName", i, "name", 1 - Field(i, "name"))
ToggleLayerVisibility(i) == Change("visibility", "layerVisibility", i, "visible", ~Field(i, "visible"))
ToggleLayerFilters(i) == Change("filters", "layerFiltersEnabled", i, "filters", 1 - Field(i, "filters"))
UpdateLayerFilters(i) == Change("filters", "filters", i, "filters", 2)
PasteLayerFilters(i) == Change("filters", "pasteFilters", i, "filters", 3)
AddMask(i) == ~Field(i, "mask") /\ Change("mask", "maskAdd", i, "mask", TRUE)
RemoveMask(i) == Field(i, "mask") /\ Change("mask", "maskRemove", i, "mask", FALSE)

RotateLayer(i) ==
  Commit("rotate", <<"rotation", i>>,
    <<[do |-> "transform", index |-> i, value |-> Field(i, "rotation")]>>,
    <<[do |-> "transform", index |-> i, value |-> 1 - Field(i, "rotation")]>>)

\* A layer is made and inserted, and its closures hold the object.
Insert(action, key, i, layer, strokes) ==
  LET o == Len(heap) + 1
      d == InsertLayerAtIndex([Document EXCEPT !.heap = Append(@, layer), !.ids = layer.id, !.bitmap[layer.id] = strokes], i, o)
  IN
  /\ MayEdit(action, <<key, i>>)
  /\ Become(d)
  /\ EnqueueState(State(<<key, i>>, <<[do |-> "remove", index |-> i]>>, <<[do |-> "insert", index |-> i, object |-> o]>>,
                        Shown(d)))
  /\ edits' = edits + 1
  /\ UNCHANGED <<stroke, converting, merging, session>>

AddNewLayer(i) == Insert("add", "layerAdd", i, NewLayer(ids + 1), {})
DuplicateLayer(i) ==
  Insert("duplicate", "duplicate", i + 1, [heap[layers[i]] EXCEPT !.id = ids + 1, !.name = 4], bitmap[Field(i, "id")])

AddTextLayer ==
  Commit("text", <<"layerAdd", Len(layers) + 1>>, <<[do |-> "remove", index |-> Len(layers) + 1]>>, <<[do |-> "add"]>>)

RemoveLayerAt(i) ==
  Commit("remove", <<"layerRemove", i>>, <<[do |-> "insert", index |-> i, object |-> layers[i]]>>,
                                         <<[do |-> "remove", index |-> i]>>)

Order == [i \in DOMAIN layers |-> Field(i, "id")]
Swapped(i) == [n \in DOMAIN layers |-> Order[CASE n = i -> i + 1 [] n = i + 1 -> i [] OTHER -> n]]
ReorderTwo(i) ==
  /\ i < Len(layers)
  /\ Commit("reorder", <<"reorderLayers", Swapped(i)>>, <<[do |-> "reorder", order |-> Order]>>,
                                                        <<[do |-> "reorder", order |-> Swapped(i)]>>)

Move(key, i, f) ==
  Commit("drag", <<key, Field(i, "id")>>,
    <<[do |-> "move", object |-> layers[i], field |-> f, value |-> Field(i, f)]>>,
    <<[do |-> "move", object |-> layers[i], field |-> f, value |-> Field(i, f) + 1]>>)
PositionLayer(i) == Move("layerPos", i, "left")
PositionMask(i) == Field(i, "mask") /\ Move("maskPos", i, "maskX")

\* What resizeCanvas moves are the layers the document has, found by their ids.
Offsets(delta) ==
  [id \in {Field(i, "id") : i \in DOMAIN layers} |->
     delta + Field(CHOOSE i \in DOMAIN layers : Field(i, "id") = id, "left")]
ResizeCanvas ==
  Commit("resize", <<"resizeCanvas">>, <<[do |-> "offsets", left |-> Offsets(0), size |-> size]>>,
                                       <<[do |-> "offsets", left |-> Offsets(1), size |-> size + 1]>>)

\* mergeLayerDown up to the picture of the two layers, and after it.
MergeLayerDown(i) ==
  /\ i > 1 /\ MayEdit("merge", <<"merge", i - 1>>) /\ merging = NoMerge
  /\ merging' = [index |-> i - 1, below |-> layers[i - 1], above |-> layers[i],
                 strokes |-> bitmap[Field(i - 1, "id")] \union bitmap[Field(i, "id")]]
  /\ UNCHANGED <<document, stroke, converting, queue, manager, edits, session>>

MergeCommands(m, o) ==
  <<[do |-> "remove", index |-> m.index + 1], [do |-> "remove", index |-> m.index],
    [do |-> "insert", index |-> m.index, object |-> o]>>

Merge ==
  /\ merging # NoMerge
  /\ LET m == merging
         o == Len(heap) + 1
         d == [Document EXCEPT !.heap = Append(@, [NewLayer(ids + 1) EXCEPT !.name = 5]), !.ids = @ + 1, !.bitmap[ids + 1] = m.strokes]
         merged == Run(MergeCommands(m, o), d)
     IN  /\ Become(merged)
         /\ EnqueueState(State(<<"merge", m.index>>,
              <<[do |-> "remove", index |-> m.index], [do |-> "insert", index |-> m.index, object |-> m.below],
                [do |-> "insert", index |-> m.index + 1, object |-> m.above]>>,
              MergeCommands(m, o), Shown(merged)))
  /\ merging' = NoMerge /\ edits' = edits + 1
  /\ UNCHANGED <<stroke, converting, session>>

\* A stroke is painted; what the bitmap was before its first is kept.  One layer at a time (bound).
Paint(i) ==
  /\ MayEdit("paint", <<>>) /\ stroke.layer \in {0, Field(i, "id")}
  /\ bitmap' = [bitmap EXCEPT ![Field(i, "id")] = @ \union {edits + 1}]
  /\ stroke' = IF stroke # NoStroke THEN stroke
               ELSE [layer |-> Field(i, "id"), strokes |-> bitmap[Field(i, "id")]]
  /\ edits' = edits + 1
  /\ UNCHANGED <<heap, layers, size, loading, ids, converting, merging, queue, manager, session>>

\* storePaintState up to the conversions: from now on the stroke waits no more, and a second call
\* returns at once.  It is called by the timer, the release and another tool, and by an undo while
\* the layer is the active one (undo): that goes on when the conversions have ended.
StorePaintState(undo) ==
  /\ stroke # NoStroke /\ stroke' = NoStroke
  /\ undo => Waits(AtRest) /\ \E i \in DOMAIN layers : Field(i, "id") = stroke.layer
  /\ converting' = converting \union
       {[layer |-> stroke.layer, before |-> stroke.strokes, after |-> bitmap[stroke.layer], undo |-> undo]}
  /\ UNCHANGED <<document, merging, queue, manager, edits, session>>

\* The entry of conversion c.
PaintStored(m, c) ==
  LET restore(strokes) == [do |-> "restore", id |-> c.layer, strokes |-> strokes, no |-> m.stored + 1] IN
  SaveState(m, [State(<<"layerSource", c.layer>>, <<restore(c.before)>>, <<restore(c.after)>>, Now)
                  EXCEPT !.resources = TRUE])

TakeBack(m) ==
  /\ BecomeManager([m EXCEPT !.at = @ - 1])
  /\ Become(Run(m.stack[m.at].undo, [Document EXCEPT !.urls = m.blobUrls]))

\* After the conversions: the entry is stored at once, behind what is queued, and the undo that
\* waited takes back what is then the last.
ConversionEnds(c) ==
  LET m == PaintStored(ProcessedQueue(Manager), c) IN
  /\ c \in converting /\ converting' = converting \ {c} /\ queue' = None
  /\ IF c.undo THEN TakeBack(m) ELSE BecomeManager(m) /\ UNCHANGED document
  /\ UNCHANGED <<stroke, merging, edits, session>>

\* LayerPanel.vue: the mutation alone.
RemoveInPanel(i) ==
  /\ ~session.patient /\ MayEdit("panel", <<>>)
  /\ Become(RemoveLayer(Document, i)) /\ edits' = edits + 1
  /\ UNCHANGED <<stroke, converting, merging, queue, manager, session>>

-----------------------------------------------------------------------------
\* An order with a layer that has gone would put a hole in the document, and offsets without
\* one that is there would throw half way (bound: not undone and not redone).
Possible(commands) ==
  LET there == {heap[o].id : o \in Range(layers)} IN
  \A n \in DOMAIN commands :
    /\ commands[n].do = "reorder" => Range(commands[n].order) \subseteq there
    /\ commands[n].do = "offsets" => there \subseteq DOMAIN commands[n].left

\* Undo while there is nothing to store for the active layer: no stroke, one of another layer, or
\* one whose conversion runs already, so that the entry before it is taken back.
Undo ==
  LET m == ProcessedQueue(Manager) IN
  /\ layers = <<>> \/ \E i \in DOMAIN layers : Field(i, "id") # stroke.layer
  /\ m.at > 0 /\ Possible(m.stack[m.at].undo) /\ Len(heap) < MaxObjects /\ Waits(AtRest /\ stroke = NoStroke)
  /\ queue' = None /\ TakeBack(m)
  /\ UNCHANGED <<stroke, converting, merging, edits, session>>

\* Redo stores neither a stroke nor the queue.
Redo ==
  /\ at < Len(stack) /\ Possible(stack[at + 1].redo) /\ Len(heap) < MaxObjects /\ Waits(AtRest /\ queue = None /\ stroke = NoStroke)
  /\ at' = at + 1
  /\ Become(Run(stack[at + 1].redo, Document))
  /\ UNCHANGED <<stack, stored, blobUrls, base, branched, stroke, converting, merging, queue, edits, session>>

BlobLoads(b) ==
  /\ b \in loading
  /\ loading' = loading \ {b} /\ bitmap' = [bitmap EXCEPT ![b.id] = @ \union b.strokes]
  /\ UNCHANGED <<heap, layers, size, ids, stroke, converting, merging, queue, manager, edits, session>>

\* resetHistory, as another document is opened.
OpenDocument ==
  /\ edits = session.edits /\ AtRest /\ stroke = NoStroke   \* bound
  /\ Become(Opened) /\ queue' = None
  /\ stack' = <<>> /\ at' = 0 /\ stored' = 0 /\ blobUrls' = {} /\ base' = Shown(Opened) /\ branched' = FALSE
  /\ UNCHANGED <<stroke, converting, merging, edits, session>>

ActionAt(i) ==
  \/ RenameLayer(i) \/ ToggleLayerVisibility(i) \/ ToggleLayerFilters(i) \/ UpdateLayerFilters(i)
  \/ PasteLayerFilters(i) \/ AddMask(i) \/ RemoveMask(i) \/ RotateLayer(i) \/ AddNewLayer(i)
  \/ DuplicateLayer(i) \/ RemoveLayerAt(i) \/ ReorderTwo(i) \/ PositionLayer(i) \/ PositionMask(i)
  \/ MergeLayerDown(i)
  \/ Paint(i) \/ RemoveInPanel(i)

Next ==
  \/ \E i \in DOMAIN layers : ActionAt(i)
  \/ AddTextLayer \/ ResizeCanvas \/ Merge \/ QueueTimeout
  \/ (\E undo \in BOOLEAN : StorePaintState(undo)) \/ (\E c \in converting : ConversionEnds(c))
  \/ Undo \/ Redo \/ (\E b \in loading : BlobLoads(b)) \/ OpenDocument

Spec == Init /\ [][Next]_vars

-----------------------------------------------------------------------------
TypeOK ==
  /\ \A i \in DOMAIN layers : layers[i] \in DOMAIN heap
  /\ \A o \in DOMAIN heap : heap[o].id \in 1..ids
  /\ at \in 0..Len(stack) /\ Len(stack) <= STATES_TO_SAVE

Lost(s) == s.resources /\ s.no \notin blobUrls

Settled == AtRest /\ queue = None /\ stroke = NoStroke /\ \A i \in DOMAIN stack : ~Lost(stack[i])
ShownAtIndex == IF at = 0 THEN base ELSE stack[at].after

\* While the user is patient, the document shows what the entry at the index left, and what was there
\* before the first entry when all are undone: after any sequence of edits, undo and redo, of
\* entries that were merged in the queue, dropped at the limit or replaced after an undo.
DocumentIsAtIndex ==
  session.patient /\ Settled => Now = ShownAtIndex

\* Undo and redo find what their closures name: no order has a layer that has gone, so reorderLayers
\* puts no hole into the document (document-module.ts:150-152), and no layer that is there lacks an offset.
UndoFindsLayers ==
  session.patient /\ AtRest /\ stroke = NoStroke =>
    LET m == ProcessedQueue(Manager) IN
    /\ m.at > 0 => Possible(m.stack[m.at].undo)
    /\ at < Len(stack) /\ queue = None => Possible(stack[at + 1].redo)

\* The bitmaps of a stroke that can be undone or redone can be loaded, as long as no entry took
\* the place of others that had been undone (history-module.ts:83-92).
UndoableHasBlobs == ~branched => \A i \in DOMAIN stack : ~Lost(stack[i])

\* history-module.ts:36-39 says so of any session: blobs are revoked when their state is popped
\* from the stack, because states were added beyond the limit.
BlobsOutliveEntries == \A i \in DOMAIN stack : ~Lost(stack[i])

\* history-module.ts:119 says so of any undo: the state of a renderer that painted is stored first.
StrokeIsStoredFirst == [][Undo => converting = {}]_vars

\* However long one document is edited and whatever is undone, the memory held by bitmaps is
\* bounded: besides those of the last STATES_TO_SAVE states one pair at most is kept.
BlobsAreBounded == Cardinality(blobUrls) <= STATES_TO_SAVE + 1
=============================================================================
