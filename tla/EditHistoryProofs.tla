-------------------------- MODULE EditHistoryProofs --------------------------
(***************************************************************************)
(* Four facts of the history, for every limit, document and session: the   *)
(* memory it holds is bounded (MemoryBounded), strokes on the stack keep   *)
(* their bitmaps unless states were replaced after an undo                 *)
(* (StrokesCanBeUndone), and, for the sessions named there, every entry    *)
(* finds the layer it is about (LayersAreFound) and the document shows     *)
(* what the entry at the index left (DocumentFollowsIndex).                *)
(*                                                                         *)
(* The bound is on a number of pairs, and counters say nothing of it: what *)
(* is inductive is where the numbers of the pairs lie.  A state gets the   *)
(* number stored + 1, and what is disposed of then are the numbers below a *)
(* window that ends at it; so the numbers are in that window always.  For  *)
(* the second fact the stack has to carry the last of these numbers.       *)
(***************************************************************************)
EXTENDS EditHistory, FiniteSetTheorems, SequenceTheorems, TLAPS

\* The numbers urls of a manager that has registered n states lie in the window.
InWindow(urls, n) == n \in Nat /\ urls \subseteq {u \in 1..n : u >= n - STATES_TO_SAVE}

IInv == InWindow(blobUrls, stored)

IsManager(m) ==
  m = [stack |-> m.stack, at |-> m.at, stored |-> m.stored, blobUrls |-> m.blobUrls,
       base |-> m.base, branched |-> m.branched]

Bounded(m) == IsManager(m) /\ InWindow(m.blobUrls, m.stored)

\* Disposing of the old numbers before the next is taken keeps them in its window.
LEMMA WindowMoves ==
  ASSUME NEW urls, NEW n, InWindow(urls, n)
  PROVE  /\ InWindow(StillAvailable(urls, n + 1), n + 1)
         /\ InWindow(StillAvailable(urls, n + 1) \union {n + 1}, n + 1)
<1> STATES_TO_SAVE \in Nat \ {0}  BY HistoryAssumption
<1>1. ASSUME NEW u \in StillAvailable(urls, n + 1)
      PROVE  u \in {v \in 1..(n + 1) : v >= n + 1 - STATES_TO_SAVE}
  <2>1. n \in Nat /\ u \in urls /\ u \in 1..n /\ (n + 1 > STATES_TO_SAVE => u >= n + 1 - STATES_TO_SAVE)
    BY DEF InWindow, StillAvailable
  <2> QED BY <2>1
<1>2. n + 1 \in Nat /\ n + 1 >= n + 1 - STATES_TO_SAVE
  BY DEF InWindow
<1> QED BY <1>1, <1>2 DEF InWindow

\* saveState keeps the numbers in their window, whatever is saved.
LEMMA SaveStateBounded ==
  ASSUME NEW m, NEW s, Bounded(m)
  PROVE  Bounded(SaveState(m, s))
<1> DEFINE n == m.stored + 1
           t == [s EXCEPT !.no = n]
           urls == StillAvailable(m.blobUrls, n)
           now == IF s.resources THEN urls \union {n} ELSE urls
<1>1. InWindow(now, n)
  BY WindowMoves DEF Bounded
<1> HIDE DEF n, t, urls, now
<1>2. \E a, b, c, d : Added(m, t) = [stack |-> a, at |-> b, stored |-> m.stored, blobUrls |-> m.blobUrls,
                                   base |-> c, branched |-> d]
  <2>1. \E a, b, c, d : Added(m, t) = [m EXCEPT !.stack = a, !.at = b, !.base = c, !.branched = d]
    BY Zenon DEF Added
  <2> QED BY <2>1 DEF Bounded, IsManager
<1>3. SaveState(m, s) = [Added(m, t) EXCEPT !.stored = n, !.blobUrls = now]
  BY DEF SaveState, n, t, urls, now
<1>4. IsManager(SaveState(m, s)) /\ SaveState(m, s).stored = n /\ SaveState(m, s).blobUrls = now
  BY <1>2, <1>3 DEF IsManager
<1> QED BY <1>1, <1>4 DEF Bounded

\* So do processQueue and the storing of a stroke.
LEMMA QueueBounded ==
  ASSUME NEW m, Bounded(m)
  PROVE  Bounded(ProcessedQueue(m)) /\ \A c : Bounded(PaintStored(m, c))
BY SaveStateBounded DEF ProcessedQueue, PaintStored

\* The invariant, said of the manager as a record.
LEMMA ManagerBounded == IInv => Bounded(Manager)
BY DEF IInv, Bounded, IsManager, Manager

\* Enqueueing a state keeps the bound.
LEMMA EnqueueKeeps == ASSUME NEW s, IInv, EnqueueState(s) PROVE IInv'
<1>1. CASE UNCHANGED manager
  BY <1>1 DEF manager, IInv
<1>2. CASE BecomeManager(ProcessedQueue(Manager))
  <2>1. Bounded(ProcessedQueue(Manager))
    BY ManagerBounded, QueueBounded
  <2> QED BY <1>2, <2>1 DEF BecomeManager, IInv, Bounded
<1> QED BY <1>1, <1>2 DEF EnqueueState

\* Every edit enqueues a state, or leaves the history as it is.
LEMMA EditKeeps == ASSUME IInv, NEW i, ActionAt(i) PROVE IInv'
<1>1. ASSUME NEW a, NEW k, NEW u, NEW r, Commit(a, k, u, r) PROVE IInv'
  BY <1>1, EnqueueKeeps DEF Commit
<1>2. ASSUME NEW a, NEW k, NEW l, NEW b, NEW j, Insert(a, k, j, l, b) PROVE IInv'
  BY <1>2, EnqueueKeeps DEF Insert
<1>3. CASE RenameLayer(i) \/ ToggleLayerVisibility(i) \/ ToggleLayerFilters(i) \/ UpdateLayerFilters(i)
  BY <1>3, <1>1 DEF RenameLayer, ToggleLayerVisibility, ToggleLayerFilters, UpdateLayerFilters, Change
<1>4. CASE PasteLayerFilters(i) \/ AddMask(i) \/ RemoveMask(i) \/ RotateLayer(i)
  BY <1>4, <1>1 DEF PasteLayerFilters, AddMask, RemoveMask, RotateLayer, Change
<1>5. CASE AddNewLayer(i) \/ DuplicateLayer(i)
  BY <1>5, <1>2 DEF AddNewLayer, DuplicateLayer
<1>6. CASE RemoveLayerAt(i) \/ ReorderTwo(i) \/ PositionLayer(i) \/ PositionMask(i)
  BY <1>6, <1>1 DEF RemoveLayerAt, ReorderTwo, PositionLayer, PositionMask, Move
<1>7. CASE MergeLayerDown(i) \/ Paint(i) \/ RemoveInPanel(i)
  BY <1>7 DEF MergeLayerDown, Paint, RemoveInPanel, manager, IInv
<1> QED BY <1>3, <1>4, <1>5, <1>6, <1>7 DEF ActionAt

\* Every step keeps the bound.
LEMMA NextKeeps == IInv /\ [Next]_vars => IInv'
<1> SUFFICES ASSUME IInv, [Next]_vars PROVE IInv'
  OBVIOUS
<1>1. /\ Bounded(Manager) /\ Bounded(ProcessedQueue(Manager))
      /\ \A c : Bounded(PaintStored(ProcessedQueue(Manager), c))
  BY ManagerBounded, QueueBounded
<1>0. ASSUME NEW m, Bounded(m), TakeBack(m) PROVE IInv'
  <2>1. stored' = [m EXCEPT !.at = @ - 1].stored /\ blobUrls' = [m EXCEPT !.at = @ - 1].blobUrls
    BY <1>0 DEF TakeBack, BecomeManager
  <2>2. stored' = m.stored /\ blobUrls' = m.blobUrls
    BY <1>0, <2>1 DEF Bounded, IsManager
  <2> QED BY <1>0, <2>2 DEF IInv, Bounded
<1>2. CASE \E i \in DOMAIN layers : ActionAt(i)
  BY <1>2, EditKeeps
<1>3. CASE AddTextLayer \/ ResizeCanvas
  BY <1>3, EnqueueKeeps DEF AddTextLayer, ResizeCanvas, Commit
<1>4. CASE Merge
  BY <1>4, EnqueueKeeps DEF Merge
<1>5. CASE \E undo \in BOOLEAN : StorePaintState(undo)
  BY <1>5 DEF StorePaintState, manager, IInv
<1>11. ASSUME NEW c, ConversionEnds(c) PROVE IInv'
  <2> DEFINE m == PaintStored(ProcessedQueue(Manager), c)
  <2>1. TakeBack(m) \/ BecomeManager(m)
    BY <1>11 DEF ConversionEnds
  <2>2. Bounded(m)
    BY <1>1
  <2> HIDE DEF m
  <2>3. CASE TakeBack(m)
    BY <1>0, <2>2, <2>3
  <2>4. CASE BecomeManager(m)
    BY <2>2, <2>4 DEF BecomeManager, IInv, Bounded
  <2> QED BY <2>1, <2>3, <2>4
<1>6. CASE QueueTimeout
  BY <1>6, <1>1 DEF QueueTimeout, BecomeManager, IInv, Bounded
<1>7. CASE Undo
  BY <1>7, <1>1, <1>0 DEF Undo
<1>8. CASE Redo \/ \E b \in loading : BlobLoads(b)
  BY <1>8 DEF Redo, BlobLoads, manager, IInv
<1>9. CASE OpenDocument
  BY <1>9 DEF OpenDocument, IInv, InWindow
<1>10. CASE UNCHANGED vars
  BY <1>10 DEF vars, manager, IInv
<1> QED BY <1>2, <1>3, <1>4, <1>5, <1>6, <1>7, <1>8, <1>9, <1>10, <1>11 DEF Next

\* Numbers in the window are at most STATES_TO_SAVE + 1.
LEMMA WindowIsSmall == IInv => BlobsAreBounded
<1> SUFFICES ASSUME IInv PROVE BlobsAreBounded
  OBVIOUS
<1> STATES_TO_SAVE \in Nat \ {0}  BY HistoryAssumption
<1> DEFINE first == stored - STATES_TO_SAVE
<1>1. stored \in Nat /\ first \in Int /\ blobUrls \subseteq first..stored
  BY DEF IInv, InWindow
<1>2. IsFiniteSet(first..stored) /\ Cardinality(first..stored) = STATES_TO_SAVE + 1
  BY <1>1, FS_Interval
<1>3. Cardinality(blobUrls) <= Cardinality(first..stored)
  BY <1>1, <1>2, FS_Subset
<1> QED BY <1>2, <1>3 DEF BlobsAreBounded

\* However a document is edited, at most STATES_TO_SAVE + 1 pairs of bitmaps are kept for undo
\* and redo (saveState and resetHistory of history-module.ts).
THEOREM MemoryBounded == Spec => []BlobsAreBounded
<1>1. Init => IInv
  BY DEF Init, IInv, InWindow
<1>2. IInv /\ [Next]_vars => IInv'
  BY NextKeeps
<1>3. IInv => BlobsAreBounded
  BY WindowIsSmall
<1> QED BY <1>1, <1>2, <1>3, PTL DEF Spec

-----------------------------------------------------------------------------
(***************************************************************************)
(* As long as nothing was replaced, every stroke can be undone and redone: *)
(* Spec => []UndoableHasBlobs.  The entries on the stack then bear the     *)
(* last numbers in order, and there are no more of them than fit the       *)
(* window, so nothing that is disposed of is one of theirs.                *)
(***************************************************************************)
IsState(s) ==
  s = [key |-> s.key, undo |-> s.undo, redo |-> s.redo, resources |-> s.resources, no |-> s.no, after |-> s.after]

\* The entries q are the last of n that were registered, and their blobs are there.
Numbered(q, n, urls) == \A i \in 1..Len(q) : q[i].no = n - Len(q) + i /\ (q[i].resources => q[i].no \in urls)

IsStack(q) == q \in Seq(Range(q)) /\ Len(q) <= STATES_TO_SAVE

Orderly(m) ==
  /\ Bounded(m)
  /\ IsStack(m.stack) /\ m.at \in 0..Len(m.stack) /\ m.branched \in BOOLEAN
  /\ ~m.branched => Numbered(m.stack, m.stored, m.blobUrls)

HistoryInv == Orderly(Manager) /\ (queue = None \/ IsState(queue))

\* A sequence is one over its own elements.
LEMMA SequenceOfItsRange == ASSUME NEW S, NEW q \in Seq(S) PROVE q \in Seq(Range(q))
<1>1. q = [i \in 1..Len(q) |-> q[i]] /\ Len(q) \in Nat /\ DOMAIN q = 1..Len(q)
  OBVIOUS
<1>2. \A i \in 1..Len(q) : q[i] \in Range(q)
  BY <1>1 DEF Range
<1>3. q \in [1..Len(q) -> Range(q)]
  BY <1>1, <1>2
<1> QED BY <1>1, <1>3

\* What the manager is after saveState.
LEMMA SavedManager ==
  ASSUME NEW m, NEW s, Bounded(m), m.branched \in BOOLEAN
  PROVE  LET n == m.stored + 1
             kept == Append(SubSeq(m.stack, 1, m.at), [s EXCEPT !.no = n])
             over == Len(kept) > STATES_TO_SAVE
             r == SaveState(m, s)
         IN  /\ r.stack = IF over THEN Tail(kept) ELSE kept
             /\ r.at = IF over THEN STATES_TO_SAVE ELSE Len(kept)
             /\ r.stored = n
             /\ r.blobUrls = IF s.resources THEN StillAvailable(m.blobUrls, n) \union {n}
                             ELSE StillAvailable(m.blobUrls, n)
             /\ r.branched = (m.branched \/ m.at < Len(m.stack))
             /\ r.base = IF over THEN Head(kept).after ELSE m.base
<1> DEFINE n == m.stored + 1
           t == [s EXCEPT !.no = n]
           kept == Append(SubSeq(m.stack, 1, m.at), t)
           over == Len(kept) > STATES_TO_SAVE
           stack_ == IF over THEN Tail(kept) ELSE kept
           at_ == IF over THEN STATES_TO_SAVE ELSE Len(kept)
           base_ == IF over THEN Head(kept).after ELSE m.base
           branched_ == m.branched \/ m.at < Len(m.stack)
           urls_ == IF s.resources THEN StillAvailable(m.blobUrls, n) \union {n} ELSE StillAvailable(m.blobUrls, n)
<1>1. Added(m, t) = [m EXCEPT !.stack = stack_, !.at = at_, !.base = base_, !.branched = branched_]
  BY Zenon DEF Added
<1>2. SaveState(m, s) = [Added(m, t) EXCEPT !.stored = n, !.blobUrls = urls_]
  BY Zenon DEF SaveState
<1> HIDE DEF n, t, kept, over, stack_, at_, base_, branched_, urls_
<1>3. SaveState(m, s) = [stack |-> stack_, at |-> at_, stored |-> n, blobUrls |-> urls_, base |-> base_, branched |-> branched_]
  BY <1>1, <1>2 DEF Bounded, IsManager
<1>4. /\ SaveState(m, s).stack = stack_ /\ SaveState(m, s).at = at_ /\ SaveState(m, s).stored = n
      /\ SaveState(m, s).blobUrls = urls_ /\ SaveState(m, s).branched = branched_
      /\ SaveState(m, s).base = base_
  BY <1>3
<1> QED BY <1>4, Zenon DEF n, t, kept, over, stack_, at_, base_, branched_, urls_

\* saveState keeps the history orderly: it appends an entry with the next number, and what it
\* drops or disposes of is older than what remains.
LEMMA SaveStateOrderly ==
  ASSUME NEW m, NEW s, Orderly(m), IsState(s)
  PROVE  Orderly(SaveState(m, s))
<1> STATES_TO_SAVE \in Nat \ {0}  BY HistoryAssumption
<1> DEFINE n == m.stored + 1
           t == [s EXCEPT !.no = n]
           q == m.stack
           kept == Append(SubSeq(q, 1, m.at), t)
           over == Len(kept) > STATES_TO_SAVE
           S == Range(q) \union {t}
           r == SaveState(m, s)
<1>1. Bounded(r)
  BY SaveStateBounded DEF Orderly
<1>2. /\ r.stack = IF over THEN Tail(kept) ELSE kept
      /\ r.at = IF over THEN STATES_TO_SAVE ELSE Len(kept)
      /\ r.stored = n
      /\ r.blobUrls = IF s.resources THEN StillAvailable(m.blobUrls, n) \union {n} ELSE StillAvailable(m.blobUrls, n)
      /\ r.branched = (m.branched \/ m.at < Len(q))
  BY SavedManager DEF Orderly
<1>3. t.no = n /\ t.resources = s.resources
  BY DEF IsState
<1>4. /\ q \in Seq(Range(q)) /\ Len(q) \in Nat /\ Len(q) <= STATES_TO_SAVE /\ m.at \in 0..Len(q)
      /\ m.stored \in Nat /\ m.branched \in BOOLEAN
  BY DEF Orderly, IsStack, Bounded, InWindow
<1> HIDE DEF n, t, q, r, S
<1>5. /\ kept \in Seq(S) /\ Len(kept) = m.at + 1
      /\ \A i \in 1..m.at : kept[i] = q[i]
      /\ kept[m.at + 1] = t
  <2>1. SubSeq(q, 1, m.at) \in Seq(Range(q)) /\ Len(SubSeq(q, 1, m.at)) = m.at
        /\ \A i \in 1..m.at : SubSeq(q, 1, m.at)[i] = q[i]
    BY <1>4
  <2>2. SubSeq(q, 1, m.at) \in Seq(S) /\ t \in S
    BY <2>1 DEF S
  <2> QED BY <1>4, <2>1, <2>2
<1>6. over <=> m.at = STATES_TO_SAVE
  BY <1>4, <1>5
<1> HIDE DEF kept
<1>7. /\ r.stack \in Seq(S)
      /\ Len(r.stack) = IF over THEN m.at ELSE m.at + 1
      /\ \A i \in 1..Len(r.stack) : r.stack[i] = IF over THEN kept[i + 1] ELSE kept[i]
  BY <1>2, <1>4, <1>5, <1>6
<1>8. IsStack(r.stack)
  BY <1>4, <1>6, <1>7, SequenceOfItsRange DEF IsStack
<1>9. r.at \in 0..Len(r.stack) /\ r.branched \in BOOLEAN
  BY <1>2, <1>4, <1>5, <1>6, <1>7
<1>10. ASSUME ~r.branched, NEW i \in 1..Len(r.stack)
       PROVE  r.stack[i].no = n - Len(r.stack) + i /\ (r.stack[i].resources => r.stack[i].no \in r.blobUrls)
  <2>1. ~m.branched /\ m.at = Len(q)
    <3>1. ~(m.branched \/ m.at < Len(q))
      BY <1>2, <1>10, Zenon
    <3>2. ~m.branched
      BY <3>1, Zenon
    <3>3. m.at = Len(q)
      <4>1. ~(m.at < Len(q))
        BY <3>1, Zenon
      <4> QED BY <1>4, <4>1
    <3> QED BY <3>2, <3>3
  <2>2. Numbered(q, m.stored, m.blobUrls)
    BY <2>1 DEF Orderly, q
  <2> DEFINE k == IF over THEN i + 1 ELSE i
  <2>3. k \in 1..(m.at + 1) /\ r.stack[i] = kept[k] /\ n - Len(r.stack) + i = m.stored - Len(q) + k
    <3>1. Len(q) \in Nat /\ m.stored \in Nat /\ m.at = Len(q)
      BY <1>4, <2>1
    <3>2. \/ over /\ k = i + 1 /\ Len(r.stack) = m.at /\ r.stack[i] = kept[i + 1]
          \/ ~over /\ k = i /\ Len(r.stack) = m.at + 1 /\ r.stack[i] = kept[i]
      BY <1>7, <1>10
    <3> HIDE DEF k, over
    <3>3. i \in Nat /\ k \in 1..(m.at + 1) /\ r.stack[i] = kept[k]
      BY <1>10, <3>1, <3>2
    <3>4. n = m.stored + 1
      BY DEF n
    <3>5. (Len(r.stack) = Len(q) /\ k = i + 1) \/ (Len(r.stack) = Len(q) + 1 /\ k = i)
      BY <3>1, <3>2
    <3>6. n - Len(r.stack) + i = m.stored - Len(q) + k
      <4> DEFINE a == Len(q)
                 b == Len(r.stack)
                 c == m.stored
      <4>1. a \in Nat /\ c \in Nat /\ i \in Nat /\ n = c + 1 /\ ((b = a /\ k = i + 1) \/ (b = a + 1 /\ k = i))
        BY <3>1, <3>3, <3>4, <3>5
      <4> HIDE DEF a, b, c
      <4>2. n - b + i = c - a + k
        BY <4>1
      <4> QED BY <4>2 DEF a, b, c
    <3> QED BY <3>3, <3>6
  <2> HIDE DEF k
  <2>4. CASE k = m.at + 1
    <3>1. r.stack[i] = t /\ n = m.stored - Len(q) + k
      BY <1>4, <1>5, <2>1, <2>3, <2>4 DEF n
    <3>2. s.resources => n \in r.blobUrls
      BY <1>2
    <3> QED BY <1>3, <2>3, <3>1, <3>2
  <2>5. CASE k \in 1..m.at
    <3>1. r.stack[i] = q[k] /\ k \in 1..Len(q)
      BY <1>5, <2>1, <2>3, <2>5
    <3>2. q[k].no = m.stored - Len(q) + k /\ (q[k].resources => q[k].no \in m.blobUrls)
      BY <2>2, <3>1 DEF Numbered
    <3>3. q[k].no >= n - STATES_TO_SAVE
      BY <1>4, <3>1, <3>2 DEF n
    <3>4. q[k].resources => q[k].no \in StillAvailable(m.blobUrls, n)
      BY <3>2, <3>3 DEF StillAvailable
    <3>5. q[k].resources => q[k].no \in r.blobUrls
      BY <1>2, <3>4
    <3> QED BY <2>3, <3>1, <3>2, <3>5
  <2> QED BY <1>4, <2>3, <2>4, <2>5
<1>11. ~r.branched => Numbered(r.stack, r.stored, r.blobUrls)
  BY <1>2, <1>10 DEF Numbered
<1> QED BY <1>1, <1>8, <1>9, <1>11 DEF Orderly, r

\* What the actions enqueue are states.
LEMMA StateIsState == \A k, u, r, a : IsState(State(k, u, r, a)) /\ IsState([State(k, u, r, a) EXCEPT !.resources = TRUE])
<1> TAKE k, u, r, a
<1> DEFINE st == State(k, u, r, a)
           without == FALSE
           with == TRUE
<1>1. st = [key |-> k, undo |-> u, redo |-> r, resources |-> without, no |-> 0, after |-> a]
  BY DEF State
<1> HIDE DEF st, without, with
<1>2. [st EXCEPT !.resources = with] = [key |-> k, undo |-> u, redo |-> r, resources |-> with, no |-> 0, after |-> a]
  BY <1>1
<1>3. IsState(st)
  BY <1>1 DEF IsState
<1>4. IsState([st EXCEPT !.resources = with])
  BY <1>2 DEF IsState
<1> QED BY <1>3, <1>4 DEF st, with

\* States merged in the queue are a state.
LEMMA MergedIsState == ASSUME NEW old, NEW new, IsState(old) PROVE IsState(Merged(old, new))
<1>1. Merged(old, new) = [key |-> old.key, undo |-> old.undo, redo |-> new.redo, resources |-> old.resources,
                          no |-> old.no, after |-> new.after]
  <2> DEFINE x == new.redo
             y == new.after
  <2>1. Merged(old, new) = [old EXCEPT !.redo = x, !.after = y]
    BY DEF Merged
  <2> HIDE DEF x, y
  <2>2. Merged(old, new) = [key |-> old.key, undo |-> old.undo, redo |-> x, resources |-> old.resources,
                            no |-> old.no, after |-> y]
    BY <2>1 DEF IsState
  <2> QED BY <2>2 DEF x, y
<1> QED BY <1>1 DEF IsState

\* processQueue and the storing of a stroke leave an orderly history.
LEMMA QueueOrderly ==
  ASSUME HistoryInv
  PROVE  Orderly(ProcessedQueue(Manager)) /\ \A c : Orderly(PaintStored(ProcessedQueue(Manager), c))
<1>1. Orderly(ProcessedQueue(Manager))
  BY SaveStateOrderly DEF HistoryInv, ProcessedQueue
<1>2. ASSUME NEW m, Orderly(m), NEW c PROVE Orderly(PaintStored(m, c))
  BY <1>2, SaveStateOrderly, StateIsState DEF PaintStored
<1> QED BY <1>1, <1>2

\* An orderly manager, taken over, makes an orderly history.
LEMMA TakenOver ==
  ASSUME NEW m, Orderly(m), BecomeManager(m)
  PROVE  Orderly(Manager)'
<1>1. Manager' = [stack |-> m.stack, at |-> m.at, stored |-> m.stored, blobUrls |-> m.blobUrls,
                  base |-> m.base, branched |-> m.branched]
  BY DEF Manager, BecomeManager
<1>2. Manager' = m
  BY <1>1 DEF Orderly, Bounded, IsManager
<1> QED BY <1>2

\* A history that was reset is orderly.
LEMMA EmptyOrderly ==
  \A b : Orderly([stack |-> <<>>, at |-> 0, stored |-> 0, blobUrls |-> {}, base |-> b, branched |-> FALSE])
<1> TAKE b
<1> DEFINE m == [stack |-> <<>>, at |-> 0, stored |-> 0, blobUrls |-> {}, base |-> b, branched |-> FALSE]
<1>1. /\ m.stack = <<>> /\ m.at = 0 /\ m.stored = 0 /\ m.blobUrls = {} /\ m.base = b /\ m.branched = FALSE
      /\ IsManager(m)
  BY DEF IsManager
<1> HIDE DEF m
<1>2. <<>> \in Seq(Range(<<>>)) /\ Len(<<>>) = 0
  OBVIOUS
<1>3. IsStack(m.stack) /\ m.at \in 0..Len(m.stack)
  BY <1>1, <1>2, HistoryAssumption DEF IsStack
<1>4. Bounded(m)
  BY <1>1 DEF Bounded, InWindow
<1>5. Numbered(m.stack, m.stored, m.blobUrls)
  BY <1>1, <1>2 DEF Numbered
<1>6. Orderly(m)
  BY <1>1, <1>3, <1>4, <1>5 DEF Orderly
<1> QED BY <1>6 DEF m

\* A manager that nobody touches stays orderly.
LEMMA SameManager == ASSUME HistoryInv, UNCHANGED manager PROVE Orderly(Manager)'
<1>1. Manager' = Manager
  BY DEF manager, Manager
<1> QED BY <1>1 DEF HistoryInv

\* Enqueueing a state keeps the stack orderly.
LEMMA EnqueueOrderly ==
  ASSUME HistoryInv, NEW s, IsState(s), EnqueueState(s)
  PROVE  HistoryInv'
<1>1. CASE queue # None /\ queue.key = s.key
  <2>1. queue' = Merged(queue, s) /\ UNCHANGED manager
    BY <1>1 DEF EnqueueState
  <2>2. IsState(queue')
    BY <1>1, <2>1, MergedIsState DEF HistoryInv
  <2> QED BY <2>1, <2>2, SameManager DEF HistoryInv
<1>2. CASE ~(queue # None /\ queue.key = s.key)
  <2>1. queue' = s /\ BecomeManager(ProcessedQueue(Manager))
    BY <1>2 DEF EnqueueState
  <2> QED BY <2>1, QueueOrderly, TakenOver DEF HistoryInv
<1> QED BY <1>1, <1>2

\* Every edit keeps the history orderly.
LEMMA EditOrderly == ASSUME HistoryInv, NEW i, ActionAt(i) PROVE HistoryInv'
<1>1. ASSUME NEW a, NEW k, NEW u, NEW r, Commit(a, k, u, r) PROVE HistoryInv'
  BY <1>1, EnqueueOrderly, StateIsState DEF Commit
<1>2. ASSUME NEW a, NEW k, NEW l, NEW b, NEW j, Insert(a, k, j, l, b) PROVE HistoryInv'
  BY <1>2, EnqueueOrderly, StateIsState DEF Insert
<1>3. CASE RenameLayer(i) \/ ToggleLayerVisibility(i) \/ ToggleLayerFilters(i) \/ UpdateLayerFilters(i)
  BY <1>3, <1>1 DEF RenameLayer, ToggleLayerVisibility, ToggleLayerFilters, UpdateLayerFilters, Change
<1>4. CASE PasteLayerFilters(i) \/ AddMask(i) \/ RemoveMask(i) \/ RotateLayer(i)
  BY <1>4, <1>1 DEF PasteLayerFilters, AddMask, RemoveMask, RotateLayer, Change
<1>5. CASE AddNewLayer(i) \/ DuplicateLayer(i)
  BY <1>5, <1>2 DEF AddNewLayer, DuplicateLayer
<1>6. CASE RemoveLayerAt(i) \/ ReorderTwo(i) \/ PositionLayer(i) \/ PositionMask(i)
  BY <1>6, <1>1 DEF RemoveLayerAt, ReorderTwo, PositionLayer, PositionMask, Move
<1>7. CASE MergeLayerDown(i) \/ Paint(i) \/ RemoveInPanel(i)
  <2>1. UNCHANGED <<manager, queue>>
    BY <1>7 DEF MergeLayerDown, Paint, RemoveInPanel
  <2> QED BY <2>1, SameManager DEF HistoryInv
<1> QED BY <1>3, <1>4, <1>5, <1>6, <1>7 DEF ActionAt

\* The manager without its last entry is as orderly as it was.
LEMMA OneLess ==
  ASSUME NEW m, Orderly(m), m.at > 0
  PROVE  LET u == [m EXCEPT !.at = @ - 1] IN
         Orderly(u) /\ u.stack = m.stack /\ u.at = m.at - 1 /\ u.base = m.base
<1> DEFINE u == [m EXCEPT !.at = @ - 1]
<1>1. u = [stack |-> m.stack, at |-> m.at - 1, stored |-> m.stored, blobUrls |-> m.blobUrls,
           base |-> m.base, branched |-> m.branched]
  BY DEF Orderly, Bounded, IsManager
<1> HIDE DEF u
<1>2. m.at - 1 \in 0..Len(m.stack)
  BY DEF Orderly, IsStack
<1>3. Orderly(u)
  BY <1>1, <1>2 DEF Orderly, Bounded, IsManager
<1> QED BY <1>1, <1>3 DEF u

\* An orderly manager of which the last entry was taken back is orderly.
LEMMA TakenBack ==
  ASSUME NEW m, Orderly(m), m.at > 0, TakeBack(m)
  PROVE  Orderly(Manager)'
<1> DEFINE u == [m EXCEPT !.at = @ - 1]
<1>1. BecomeManager(u)
  BY DEF TakeBack
<1>2. Orderly(u)
  BY OneLess
<1> HIDE DEF u
<1> QED BY <1>1, <1>2, TakenOver

\* The entry that saveState added is at the index.
LEMMA SavedIsLast ==
  ASSUME NEW m, NEW s, Orderly(m), IsState(s)
  PROVE  LET r == SaveState(m, s) IN
         /\ r.at \in 1..Len(r.stack)
         /\ r.stack[r.at].undo = s.undo /\ r.stack[r.at].redo = s.redo
<1> STATES_TO_SAVE \in Nat \ {0}  BY HistoryAssumption
<1> DEFINE t == [s EXCEPT !.no = m.stored + 1]
           q == m.stack
           kept == Append(SubSeq(q, 1, m.at), t)
           over == Len(kept) > STATES_TO_SAVE
           S == Range(q) \union {t}
           r == SaveState(m, s)
<1>1. /\ r.stack = IF over THEN Tail(kept) ELSE kept
      /\ r.at = IF over THEN STATES_TO_SAVE ELSE Len(kept)
  BY SavedManager DEF Orderly
<1>2. t.undo = s.undo /\ t.redo = s.redo
  BY DEF IsState
<1>3. q \in Seq(Range(q)) /\ Len(q) \in Nat /\ Len(q) <= STATES_TO_SAVE /\ m.at \in 0..Len(q)
  BY DEF Orderly, IsStack
<1> HIDE DEF t, q, r, S
<1>4. kept \in Seq(S) /\ Len(kept) = m.at + 1 /\ kept[m.at + 1] = t
  <2>1. SubSeq(q, 1, m.at) \in Seq(Range(q)) /\ Len(SubSeq(q, 1, m.at)) = m.at
    BY <1>3
  <2>2. SubSeq(q, 1, m.at) \in Seq(S) /\ t \in S
    BY <2>1 DEF S
  <2> QED BY <1>3, <2>1, <2>2
<1>5. over => m.at = STATES_TO_SAVE
  BY <1>3, <1>4
<1> HIDE DEF kept
<1>6. r.at \in 1..Len(r.stack) /\ r.stack[r.at] = t
  <2>1. CASE over
    <3>1. kept # <<>>
      BY <1>3, <1>4
    <3>2. Len(Tail(kept)) = Len(kept) - 1 /\ \A i \in 1..Len(Tail(kept)) : Tail(kept)[i] = kept[i + 1]
      BY <1>4, <3>1, HeadTailProperties
    <3> QED BY <1>1, <1>3, <1>4, <1>5, <2>1, <3>2
  <2>2. CASE ~over
    BY <1>1, <1>3, <1>4, <2>2
  <2> QED BY <2>1, <2>2
<1> QED BY <1>2, <1>6 DEF r

\* So the entry of a stroke is, and to take it back restores a bitmap.
LEMMA PaintIsLast ==
  ASSUME NEW m, Orderly(m), NEW c
  PROVE  LET r == PaintStored(m, c) IN
         /\ r.at > 0 /\ r.at \in 1..Len(r.stack)
         /\ Possible(r.stack[r.at].undo)
<1> DEFINE b(x) == [do |-> "restore", id |-> c.layer, strokes |-> x, no |-> m.stored + 1]
           u == <<b(c.before)>>
           v == <<b(c.after)>>
           k == <<"layerSource", c.layer>>
           s == [State(k, u, v, Now) EXCEPT !.resources = TRUE]
           r == PaintStored(m, c)
<1>1. r = SaveState(m, s)
  BY DEF PaintStored
<1>2. IsState(s)
  BY StateIsState
<1>3. s.undo = u
  BY DEF State
<1>4. Len(u) = 1 /\ DOMAIN u = {1} /\ u[1].do = "restore"
  OBVIOUS
<1> HIDE DEF s, u, v, r
<1>5. r.at \in 1..Len(r.stack) /\ r.stack[r.at].undo = u
  BY <1>1, <1>2, <1>3, SavedIsLast
<1>6. Possible(u)
  BY <1>4 DEF Possible
<1> QED BY <1>5, <1>6 DEF r

\* Every step keeps the stack orderly.
LEMMA NextOrderly == HistoryInv /\ [Next]_vars => HistoryInv'
<1> SUFFICES ASSUME HistoryInv, [Next]_vars PROVE HistoryInv'
  OBVIOUS
<1>1. Orderly(ProcessedQueue(Manager)) /\ \A c : Orderly(PaintStored(ProcessedQueue(Manager), c))
  BY QueueOrderly
<1>2. CASE \E i \in DOMAIN layers : ActionAt(i)
  BY <1>2, EditOrderly
<1>3. CASE AddTextLayer \/ ResizeCanvas
  BY <1>3, EnqueueOrderly, StateIsState DEF AddTextLayer, ResizeCanvas, Commit
<1>4. CASE Merge
  BY <1>4, EnqueueOrderly, StateIsState DEF Merge
<1>5. CASE \E undo \in BOOLEAN : StorePaintState(undo)
  <2>1. UNCHANGED <<manager, queue>>
    BY <1>5 DEF StorePaintState
  <2> QED BY <2>1, SameManager DEF HistoryInv
<1>11. ASSUME NEW c \in converting, ConversionEnds(c) PROVE HistoryInv'
  <2> DEFINE m == PaintStored(ProcessedQueue(Manager), c)
  <2>1. queue' = None /\ (TakeBack(m) \/ BecomeManager(m))
    BY <1>11 DEF ConversionEnds
  <2>2. Orderly(m)
    BY <1>1
  <2>3. m.at > 0
    BY <1>1, PaintIsLast
  <2> HIDE DEF m
  <2>4. Orderly(Manager)'
    BY <2>1, <2>2, <2>3, TakenOver, TakenBack
  <2> QED BY <2>1, <2>4 DEF HistoryInv
<1>6. CASE QueueTimeout
  <2>1. queue' = None /\ BecomeManager(ProcessedQueue(Manager))
    BY <1>6 DEF QueueTimeout
  <2> QED BY <1>1, <2>1, TakenOver DEF HistoryInv
<1>7. CASE Undo
  <2> DEFINE m == ProcessedQueue(Manager)
  <2>1. m.at > 0 /\ queue' = None /\ TakeBack(m)
    BY <1>7 DEF Undo
  <2> HIDE DEF m
  <2>2. Orderly(Manager)'
    BY <1>1, <2>1, TakenBack DEF m
  <2> QED BY <2>1, <2>2 DEF HistoryInv
<1>8. CASE Redo
  <2>1. /\ at < Len(stack) /\ at' = at + 1
        /\ UNCHANGED <<stack, stored, blobUrls, base, branched, queue>>
    BY <1>8 DEF Redo
  <2>2. Manager' = [stack |-> stack, at |-> at + 1, stored |-> stored, blobUrls |-> blobUrls,
                    base |-> base, branched |-> branched]
    BY <2>1 DEF Manager
  <2>3. Orderly(Manager)
    BY DEF HistoryInv
  <2>4. at \in 0..Len(stack) /\ IsStack(stack)
    BY <2>3 DEF Orderly, Manager
  <2>5. at + 1 \in 0..Len(stack)
    BY <2>1, <2>4 DEF IsStack
  <2>6. Orderly(Manager)'
    BY <2>2, <2>3, <2>5 DEF Orderly, Bounded, IsManager, Manager
  <2> QED BY <2>1, <2>6 DEF HistoryInv
<1>9. CASE (\E b \in loading : BlobLoads(b)) \/ UNCHANGED vars
  <2>1. UNCHANGED <<manager, queue>>
    BY <1>9 DEF BlobLoads, vars
  <2> QED BY <2>1, SameManager DEF HistoryInv
<1>10. CASE OpenDocument
  <2>1. /\ stack' = <<>> /\ at' = 0 /\ stored' = 0 /\ blobUrls' = {} /\ branched' = FALSE /\ queue' = None
    BY <1>10 DEF OpenDocument
  <2>2. Manager' = [stack |-> <<>>, at |-> 0, stored |-> 0, blobUrls |-> {}, base |-> base', branched |-> FALSE]
    BY <2>1 DEF Manager
  <2>3. Orderly(Manager)'
    BY <2>2, EmptyOrderly
  <2> QED BY <2>1, <2>3 DEF HistoryInv
<1> QED BY <1>2, <1>3, <1>4, <1>5, <1>6, <1>7, <1>8, <1>9, <1>10, <1>11 DEF Next

\* As long as no state was replaced after an undo, the bitmaps of every stroke on the stack can
\* be loaded (saveState of history-module.ts).
THEOREM StrokesCanBeUndone == Spec => []UndoableHasBlobs
<1>1. Init => HistoryInv
  BY EmptyOrderly DEF Init, HistoryInv, Manager
<1>2. HistoryInv /\ [Next]_vars => HistoryInv'
  BY NextOrderly
<1>3. HistoryInv => UndoableHasBlobs
  <2> SUFFICES ASSUME HistoryInv, ~branched, NEW i \in DOMAIN stack
               PROVE  ~Lost(stack[i])
    BY DEF UndoableHasBlobs
  <2>1. IsStack(stack) /\ Numbered(stack, stored, blobUrls)
    BY DEF HistoryInv, Orderly, Manager
  <2>2. i \in 1..Len(stack)
    BY <2>1 DEF IsStack
  <2> QED BY <2>1, <2>2 DEF Numbered, Lost
<1> QED BY <1>1, <1>2, <1>3, PTL DEF Spec

-----------------------------------------------------------------------------
(***************************************************************************)
(* Every reference names an object: Spec => []TypeOK.  A closure runs on a *)
(* document that is not the one it was made for, so what is inductive      *)
(* speaks of the closures on the stack, in the queue and of a merge that   *)
(* waits: each is one command, or three, that name objects which are there *)
(* (objects are never taken from the heap), and an order only ids that the *)
(* guard Possible finds in the document.  Each mutation is described by    *)
(* what it makes of the fields of a document, in a lemma of its own; then  *)
(* the document after any closure is well formed (RunFollows).             *)
(***************************************************************************)

\* A closure of one command performs it.
LEMMA RunOne == ASSUME NEW c, NEW d PROVE Run(<<c>>, d) = Perform(d, c)
<1> DEFINE Good(f) == f = [s \in SUBSET {1} |-> IF s = {} THEN d ELSE Perform(f[s \ {Max(s)}], <<c>>[Max(s)])]
           g == [s \in SUBSET {1} |-> IF s = {} THEN d ELSE Perform(d, c)]
<1>1. DOMAIN <<c>> = {1} /\ <<c>>[1] = c
  OBVIOUS
<1>2. Run(<<c>>, d) = (CHOOSE f : Good(f))[{1}]
  BY <1>1, Zenon DEF Run, FoldLeft, MapThenFoldSet
<1>3. Max({1}) = 1
  BY DEF Max
<1>4. Good(g)
  BY <1>1, <1>3
<1>5. PICK f : f = (CHOOSE h : Good(h)) /\ Good(f)
  BY <1>4, Zenon
<1>6. f[{1}] = Perform(f[{1} \ {1}], c) /\ {1} \ {1} = {} /\ f[{}] = d
  <2> HIDE DEF g
  <2> QED BY <1>1, <1>3, <1>5
<1> QED BY <1>2, <1>5, <1>6

\* A closure of three performs them in their order.
LEMMA RunThree ==
  ASSUME NEW c1, NEW c2, NEW c3, NEW d
  PROVE  Run(<<c1, c2, c3>>, d) = Perform(Perform(Perform(d, c1), c2), c3)
<1> DEFINE c == <<c1, c2, c3>>
           S == {1, 2, 3}
           Good(f) == f = [s \in SUBSET S |-> IF s = {} THEN d ELSE Perform(f[s \ {Max(s)}], c[Max(s)])]
           First(s) == IF 1 \in s THEN Perform(d, c1) ELSE d
           Second(s) == IF 2 \in s THEN Perform(First(s), c2) ELSE First(s)
           Third(s) == IF 3 \in s THEN Perform(Second(s), c3) ELSE Second(s)
           g == [s \in SUBSET S |-> Third(s)]
<1>1. DOMAIN c = S /\ c[1] = c1 /\ c[2] = c2 /\ c[3] = c3
  OBVIOUS
<1>2. Run(c, d) = (CHOOSE f : Good(f))[S]
  BY <1>1, Zenon DEF Run, FoldLeft, MapThenFoldSet
<1>3. ASSUME NEW s \in SUBSET S, s # {} 
      PROVE  \/ Max(s) = 3 /\ 3 \in s
             \/ Max(s) = 2 /\ 3 \notin s /\ 2 \in s
             \/ Max(s) = 1 /\ 3 \notin s /\ 2 \notin s /\ 1 \in s
  <2>1. PICK m \in s : \A y \in s : m >= y
    <3>1. 3 \in s => \A y \in s : 3 >= y
      OBVIOUS
    <3>2. 3 \notin s /\ 2 \in s => \A y \in s : 2 >= y
      OBVIOUS
    <3>3. 3 \notin s /\ 2 \notin s => 1 \in s /\ \A y \in s : 1 >= y
      <4>1. PICK e \in s : e \in S
        BY <1>3
      <4> QED BY <4>1
    <3> QED BY <3>1, <3>2, <3>3
  <2>2. Max(s) \in s /\ \A y \in s : Max(s) >= y
    BY <2>1, Zenon DEF Max
  <2>3. Max(s) \in {1, 2, 3}
    BY <2>2
  <2> QED BY <2>1, <2>2, <2>3
<1> HIDE DEF c
<1>4. ASSUME NEW s \in SUBSET S
      PROVE  g[s] = IF s = {} THEN d ELSE Perform(g[s \ {Max(s)}], c[Max(s)])
  <2>1. CASE s = {}
    BY <2>1
  <2>2. CASE s # {}
    <3> DEFINE t == s \ {Max(s)}
    <3>1. t \in SUBSET S /\ g[s] = Third(s) /\ g[t] = Third(t)
      OBVIOUS
    <3>2. Third(s) = Perform(Third(t), c[Max(s)])
      <4>1. CASE Max(s) = 3 /\ 3 \in s
        <5>1. First(t) = First(s) /\ 3 \notin t /\ (2 \in t <=> 2 \in s)
          BY <4>1
        <5> QED BY <1>1, <4>1, <5>1
      <4>2. CASE Max(s) = 2 /\ 3 \notin s /\ 2 \in s
        <5>1. First(t) = First(s) /\ 3 \notin t /\ 2 \notin t
          BY <4>2
        <5> QED BY <1>1, <4>2, <5>1
      <4>3. CASE Max(s) = 1 /\ 3 \notin s /\ 2 \notin s /\ 1 \in s
        BY <1>1, <4>3
      <4> QED BY <1>3, <2>2, <4>1, <4>2, <4>3
    <3> QED BY <2>2, <3>1, <3>2
  <2> QED BY <2>1, <2>2
<1>5. Good(g)
  <2> DEFINE h == [s \in SUBSET S |-> IF s = {} THEN d ELSE Perform(g[s \ {Max(s)}], c[Max(s)])]
  <2>1. \A s \in SUBSET S : g[s] = h[s]
    BY <1>4
  <2> QED BY <2>1
<1>6. PICK f : f = (CHOOSE h : Good(h)) /\ Good(f)
  <2> HIDE DEF g, Good
  <2> QED BY <1>5, Zenon
<1>7. /\ S \in SUBSET S /\ {1, 2} \in SUBSET S /\ {1} \in SUBSET S /\ {} \in SUBSET S
      /\ S \ {3} = {1, 2} /\ {1, 2} \ {2} = {1} /\ {1} \ {1} = {}
  OBVIOUS
<1>8. Max(S) = 3 /\ Max({1, 2}) = 2 /\ Max({1}) = 1
  BY <1>3, <1>7
<1>9. ASSUME NEW s \in SUBSET S, s # {} PROVE f[s] = Perform(f[s \ {Max(s)}], c[Max(s)])
  BY <1>6, <1>9
<1>10. f[{}] = d
  BY <1>6
<1>11. f[{1}] = Perform(d, c1)
  BY <1>1, <1>7, <1>8, <1>9, <1>10
<1>12. f[{1, 2}] = Perform(f[{1}], c2)
  BY <1>1, <1>7, <1>8, <1>9
<1>13. f[S] = Perform(f[{1, 2}], c3)
  BY <1>1, <1>7, <1>8, <1>9
<1> QED BY <1>2, <1>6, <1>11, <1>12, <1>13, Zenon DEF c

Fields == {"id", "name", "visible", "filters", "mask", "maskX", "rotation", "left"}

IsLayer(o) == o = [f \in Fields |-> o[f]]

IsSequence(q) == q \in Seq(Range(q))

IsDocument(d) ==
  d = [heap |-> d.heap, layers |-> d.layers, bitmap |-> d.bitmap, size |-> d.size, loading |-> d.loading,
       ids |-> d.ids, urls |-> d.urls]

IsHeap(h, n) == IsSequence(h) /\ \A o \in 1..Len(h) : IsLayer(h[o]) /\ h[o].id \in 1..n

WellFormed(d) ==
  /\ IsDocument(d)
  /\ d.ids \in Nat /\ IsHeap(d.heap, d.ids) /\ d.layers \in Seq(1..Len(d.heap))

\* The ids of the layers of a document.
IdsIn(d) == {d.heap[o].id : o \in Range(d.layers)}

Indexed == {"insert", "remove", "update", "transform"}
Verbs == Indexed \union {"add", "reorder", "move", "offsets", "restore"}

\* A command that names objects among the first n only, and changes no id.
IsCommand(c, n) ==
  /\ c.do \in Verbs
  /\ c.do \in Indexed => c.index \in Nat \ {0}
  /\ c.do \in {"insert", "move"} => c.object \in 1..n
  /\ c.do \in {"update", "move"} => c.field \in Fields \ {"id"}
  /\ c.do = "reorder" => IsSequence(c.order)

\* A sequence stays one when an element is appended, put in the place of another or taken from it.
LEMMA AppendIsSequence ==
  ASSUME NEW q, NEW x, IsSequence(q)
  PROVE  /\ IsSequence(Append(q, x)) /\ Len(Append(q, x)) = Len(q) + 1
         /\ Append(q, x)[Len(q) + 1] = x /\ \A i \in 1..Len(q) : Append(q, x)[i] = q[i]
<1> DEFINE S == Range(q) \union {x}
<1>1. q \in Seq(S) /\ x \in S
  BY SeqMonotonic DEF IsSequence
<1>2. Append(q, x) \in Seq(S)
  BY <1>1
<1>3. IsSequence(Append(q, x))
  BY <1>2, SequenceOfItsRange DEF IsSequence
<1> HIDE DEF S
<1> QED BY <1>1, <1>3

\* So it does when an element takes the place of another.
LEMMA ExceptIsSequence ==
  ASSUME NEW q, NEW i, NEW x, IsSequence(q)
  PROVE  /\ IsSequence([q EXCEPT ![i] = x]) /\ Len([q EXCEPT ![i] = x]) = Len(q)
         /\ \A j \in 1..Len(q) : [q EXCEPT ![i] = x][j] = IF j = i THEN x ELSE q[j]
<1> DEFINE S == Range(q) \union {x}
<1>1. q \in Seq(S) /\ x \in S /\ Len(q) \in Nat /\ DOMAIN q = 1..Len(q)
  BY SeqMonotonic DEF IsSequence
<1>2. \A j \in 1..Len(q) : q[j] \in S
  BY <1>1
<1> DEFINE r == [q EXCEPT ![i] = x]
<1>3. DOMAIN r = 1..Len(q) /\ r = [j \in 1..Len(q) |-> IF j = i THEN x ELSE q[j]]
  BY <1>1
<1>4. r \in [1..Len(q) -> S]
  BY <1>1, <1>2, <1>3
<1>5. r \in Seq(S) /\ Len(r) = Len(q)
  BY <1>1, <1>4
<1>6. IsSequence(r)
  BY <1>5, SequenceOfItsRange DEF IsSequence
<1> QED BY <1>3, <1>5, <1>6

\* What a document is after one part of it is replaced: the layers,
LEMMA WithLayers ==
  ASSUME NEW d, IsDocument(d), NEW x
  PROVE  LET e == [d EXCEPT !.layers = x]
         IN  IsDocument(e) /\ e.heap = d.heap /\ e.layers = x /\ e.bitmap = d.bitmap /\ e.size = d.size
             /\ e.loading = d.loading /\ e.ids = d.ids /\ e.urls = d.urls
BY DEF IsDocument

\* the objects,
LEMMA WithHeap ==
  ASSUME NEW d, IsDocument(d), NEW x
  PROVE  LET e == [d EXCEPT !.heap = x]
         IN  IsDocument(e) /\ e.heap = x /\ e.layers = d.layers /\ e.bitmap = d.bitmap /\ e.size = d.size
             /\ e.loading = d.loading /\ e.ids = d.ids /\ e.urls = d.urls
BY DEF IsDocument

\* the bitmaps,
LEMMA WithBitmap ==
  ASSUME NEW d, IsDocument(d), NEW x
  PROVE  LET e == [d EXCEPT !.bitmap = x]
         IN  IsDocument(e) /\ e.heap = d.heap /\ e.layers = d.layers /\ e.bitmap = x /\ e.size = d.size
             /\ e.loading = d.loading /\ e.ids = d.ids /\ e.urls = d.urls
BY DEF IsDocument

\* the size,
LEMMA WithSize ==
  ASSUME NEW d, IsDocument(d), NEW x
  PROVE  LET e == [d EXCEPT !.size = x]
         IN  IsDocument(e) /\ e.heap = d.heap /\ e.layers = d.layers /\ e.bitmap = d.bitmap /\ e.size = x
             /\ e.loading = d.loading /\ e.ids = d.ids /\ e.urls = d.urls
BY DEF IsDocument

\* the blobs that load,
LEMMA WithLoading ==
  ASSUME NEW d, IsDocument(d), NEW x
  PROVE  LET e == [d EXCEPT !.loading = x]
         IN  IsDocument(e) /\ e.heap = d.heap /\ e.layers = d.layers /\ e.bitmap = d.bitmap /\ e.size = d.size
             /\ e.loading = x /\ e.ids = d.ids /\ e.urls = d.urls
BY DEF IsDocument

\* the number of ids,
LEMMA WithIds ==
  ASSUME NEW d, IsDocument(d), NEW x
  PROVE  LET e == [d EXCEPT !.ids = x]
         IN  IsDocument(e) /\ e.heap = d.heap /\ e.layers = d.layers /\ e.bitmap = d.bitmap /\ e.size = d.size
             /\ e.loading = d.loading /\ e.ids = x /\ e.urls = d.urls
BY DEF IsDocument

\* or the blobs that can be loaded.
LEMMA WithUrls ==
  ASSUME NEW d, IsDocument(d), NEW x
  PROVE  LET e == [d EXCEPT !.urls = x]
         IN  IsDocument(e) /\ e.heap = d.heap /\ e.layers = d.layers /\ e.bitmap = d.bitmap /\ e.size = d.size
             /\ e.loading = d.loading /\ e.ids = d.ids /\ e.urls = x
BY DEF IsDocument

\* A layer with another value in a field that is not its id is a layer with the same id.
LEMMA FieldSet ==
  ASSUME NEW o, IsLayer(o), NEW f \in Fields, NEW v
  PROVE  LET p == [o EXCEPT ![f] = v]
         IN  IsLayer(p) /\ p[f] = v /\ \A g \in Fields \ {f} : p[g] = o[g]
BY DEF IsLayer

\* A new layer is a layer.
LEMMA NewLayerIsLayer == \A n : IsLayer(NewLayer(n)) /\ NewLayer(n).id = n
BY DEF IsLayer, NewLayer, Fields

\* What may be said of a document after command c: it is well formed, and no object is forgotten.
Follows(e, d) == WellFormed(e) /\ Len(e.heap) >= Len(d.heap)

\* Sequence r is q with o put before its k-th element, or without its k-th element.
InsertedAt(r, q, k, o) ==
  /\ Len(q) \in Nat /\ Len(r) = Len(q) + 1
  /\ \A j \in 1..(Len(q) + 1) : r[j] = IF j < k THEN q[j] ELSE IF j = k THEN o ELSE q[j - 1]
RemovedAt(r, q, k) ==
  /\ Len(q) \in Nat /\ Len(r) = Len(q) - 1
  /\ \A j \in 1..(Len(q) - 1) : r[j] = IF j < k THEN q[j] ELSE q[j + 1]

\* Sequence r is q with o after it, or with o in the place of its k-th element.
Appended(r, q, o) ==
  /\ Len(q) \in Nat /\ Len(r) = Len(q) + 1
  /\ r[Len(q) + 1] = o /\ \A j \in 1..Len(q) : r[j] = q[j]
ReplacedAt(r, q, k, o) ==
  /\ Len(q) \in Nat /\ Len(r) = Len(q)
  /\ \A j \in 1..Len(q) : r[j] = IF j = k THEN o ELSE q[j]

\* The objects and ids of a document are numbers that only grow.
LEMMA HeapGrows ==
  ASSUME NEW h, NEW n \in Nat, NEW o, IsHeap(h, n), NEW m \in Nat, m >= n, IsLayer(o), o.id \in 1..m
  PROVE  IsHeap(Append(h, o), m) /\ Appended(Append(h, o), h, o)
<1>1. IsSequence(h) /\ Len(h) \in Nat
  BY LenProperties DEF IsHeap, IsSequence
<1> DEFINE k == Append(h, o)
<1>2. IsSequence(k) /\ Len(k) = Len(h) + 1 /\ k[Len(h) + 1] = o /\ \A i \in 1..Len(h) : k[i] = h[i]
  BY <1>1, AppendIsSequence
<1> HIDE DEF k
<1>3. \A i \in 1..Len(k) : IsLayer(k[i]) /\ k[i].id \in 1..m
  BY <1>1, <1>2 DEF IsHeap
<1> QED BY <1>1, <1>2, <1>3 DEF k, IsHeap, Appended

\* An object changed in place, in a field that is not its id.
LEMMA HeapChanges ==
  ASSUME NEW h, NEW n, NEW o, IsHeap(h, n), NEW f \in Fields \ {"id"}, NEW v
  PROVE  LET p == [h[o] EXCEPT ![f] = v]
             k == [h EXCEPT ![o] = p]
         IN  IsHeap(k, n) /\ ReplacedAt(k, h, o, p)
<1> DEFINE p == [h[o] EXCEPT ![f] = v]
           k == [h EXCEPT ![o] = p]
<1>1. IsSequence(h) /\ Len(h) \in Nat
  BY LenProperties DEF IsHeap, IsSequence
<1>2. IsSequence(k) /\ Len(k) = Len(h) /\ \A i \in 1..Len(h) : k[i] = IF i = o THEN p ELSE h[i]
  BY <1>1, ExceptIsSequence
<1>3. ASSUME NEW i \in 1..Len(h) PROVE IsLayer(k[i]) /\ k[i].id \in 1..n
  <2>1. IsLayer(h[i]) /\ h[i].id \in 1..n
    BY DEF IsHeap
  <2>2. CASE i = o
    <3>1. p = [h[i] EXCEPT ![f] = v] /\ "id" \in Fields \ {f} /\ f \in Fields
      BY <2>2 DEF Fields
    <3> HIDE DEF p
    <3>2. IsLayer(p) /\ p["id"] = h[i]["id"]
      BY <2>1, <3>1, FieldSet
    <3> QED BY <1>2, <2>1, <2>2, <3>2
  <2> QED BY <1>2, <2>1, <2>2
<1>4. IsHeap(k, n)
  BY <1>2, <1>3 DEF IsHeap
<1> QED BY <1>1, <1>2, <1>4 DEF ReplacedAt

\* The layers after one is inserted.
LEMMA Inserted ==
  ASSUME NEW S, NEW q \in Seq(S), NEW k \in 1..(Len(q) + 1), NEW o \in S
  PROVE  LET r == SubSeq(q, 1, k - 1) \o <<o>> \o SubSeq(q, k, Len(q))
         IN  r \in Seq(S) /\ InsertedAt(r, q, k, o)
<1> DEFINE n == Len(q)
           a == SubSeq(q, 1, k - 1)
           b == SubSeq(q, k, n)
           c == a \o <<o>>
           r == c \o b
<1>1. n \in Nat /\ k \in 1..(n + 1) /\ \A j \in 1..n : q[j] \in S
  OBVIOUS
<1> HIDE DEF n
<1>2. a \in Seq(S) /\ Len(a) = k - 1 /\ \A j \in 1..(k - 1) : a[j] = q[j]
  <2>1. \A j \in 1..(k - 1) : q[j] \in S
    BY <1>1
  <2> QED BY <1>1, <2>1, SubSeqProperties
<1>3. b \in Seq(S) /\ Len(b) = n - k + 1 /\ \A j \in 1..(n - k + 1) : b[j] = q[k + j - 1]
  <2>1. \A j \in k..n : q[j] \in S
    BY <1>1
  <2> QED BY <1>1, <2>1, SubSeqProperties
<1> HIDE DEF a, b
<1>4. <<o>> \in Seq(S) /\ Len(<<o>>) = 1 /\ <<o>>[1] = o
  OBVIOUS
<1>5. c \in Seq(S) /\ Len(c) = k /\ \A j \in 1..k : c[j] = IF j < k THEN q[j] ELSE o
  <2>1. c \in Seq(S) /\ Len(c) = Len(a) + 1
        /\ \A j \in 1..(Len(a) + 1) : c[j] = IF j <= Len(a) THEN a[j] ELSE <<o>>[j - Len(a)]
    BY <1>2, <1>4, ConcatProperties
  <2> HIDE DEF c
  <2>2. Len(c) = k
    BY <1>1, <1>2, <2>1
  <2>3. ASSUME NEW j \in 1..k PROVE c[j] = IF j < k THEN q[j] ELSE o
    <3>1. CASE j < k
      BY <1>1, <1>2, <2>1, <3>1
    <3>2. CASE j = k
      <4>1. c[j] = <<o>>[k - Len(a)] /\ k - Len(a) = 1
        BY <1>1, <1>2, <2>1, <3>2
      <4> QED BY <1>1, <1>4, <3>2, <4>1
    <3> QED BY <1>1, <3>1, <3>2
  <2> QED BY <2>1, <2>2, <2>3
<1> HIDE DEF c
<1>6. /\ r \in Seq(S) /\ Len(r) = n + 1
      /\ \A j \in 1..(n + 1) : r[j] = IF j <= k THEN c[j] ELSE b[j - k]
  <2>1. r \in Seq(S) /\ Len(r) = Len(c) + Len(b)
        /\ \A j \in 1..(Len(c) + Len(b)) : r[j] = IF j <= Len(c) THEN c[j] ELSE b[j - Len(c)]
    BY <1>3, <1>5, ConcatProperties
  <2>2. Len(c) + Len(b) = n + 1
    BY <1>1, <1>3, <1>5
  <2> HIDE DEF r
  <2> QED BY <1>5, <2>1, <2>2
<1> HIDE DEF r
<1>7. ASSUME NEW j \in 1..(n + 1) PROVE r[j] = IF j < k THEN q[j] ELSE IF j = k THEN o ELSE q[j - 1]
  <2>1. j <= k => r[j] = IF j < k THEN q[j] ELSE o
    BY <1>1, <1>5, <1>6
  <2>2. ASSUME j > k PROVE r[j] = q[j - 1]
    <3>1. j - k \in 1..(n - k + 1) /\ k + (j - k) - 1 = j - 1
      BY <1>1, <2>2
    <3>2. b[j - k] = q[k + (j - k) - 1]
      BY <1>3, <3>1
    <3> QED BY <1>1, <1>6, <2>2, <3>1, <3>2
  <2> QED BY <1>1, <2>1, <2>2
<1>8. r \in Seq(S) /\ InsertedAt(r, q, k, o)
  BY <1>1, <1>6, <1>7 DEF InsertedAt, n
<1> QED BY <1>8 DEF r, c, a, b, n

\* The layers after one is removed.
LEMMA Removed ==
  ASSUME NEW S, NEW q \in Seq(S), NEW i \in 1..Len(q)
  PROVE  LET r == RemoveAt(q, i)
         IN  r \in Seq(S) /\ RemovedAt(r, q, i)
<1> DEFINE n == Len(q)
           a == SubSeq(q, 1, i - 1)
           b == SubSeq(q, i + 1, n)
<1>1. n \in Nat /\ i \in 1..n /\ \A j \in 1..n : q[j] \in S
  OBVIOUS
<1> HIDE DEF n
<1>2. a \in Seq(S) /\ Len(a) = i - 1 /\ \A j \in 1..(i - 1) : a[j] = q[j]
  <2>1. \A j \in 1..(i - 1) : q[j] \in S
    BY <1>1
  <2> QED BY <1>1, <2>1, SubSeqProperties
<1>3. b \in Seq(S) /\ Len(b) = n - i /\ \A j \in 1..(n - i) : b[j] = q[i + j]
  <2>1. \A j \in (i + 1)..n : q[j] \in S
    BY <1>1
  <2> QED BY <1>1, <2>1, SubSeqProperties
<1> HIDE DEF a, b
<1>4. a \o b \in Seq(S) /\ Len(a \o b) = Len(a) + Len(b)
      /\ \A j \in 1..(Len(a) + Len(b)) : (a \o b)[j] = IF j <= Len(a) THEN a[j] ELSE b[j - Len(a)]
  BY <1>2, <1>3, ConcatProperties
<1>5. RemoveAt(q, i) = a \o b
  BY DEF RemoveAt, a, b, n
<1>6. \A j \in 1..(n - 1) : (a \o b)[j] = IF j < i THEN q[j] ELSE q[j + 1]
  BY <1>1, <1>2, <1>3, <1>4
<1>7. Len(a \o b) = n - 1
  BY <1>1, <1>2, <1>3, <1>4
<1> QED BY <1>1, <1>4, <1>5, <1>6, <1>7 DEF n, RemovedAt

\* A command performs the mutation it names.
LEMMA PerformDo ==
  ASSUME NEW d, NEW c
  PROVE  /\ c.do = "insert" => Perform(d, c) = InsertLayerAtIndex(d, c.index, c.object)
         /\ c.do = "remove" => Perform(d, c) = RemoveLayer(d, c.index)
         /\ c.do = "add" => Perform(d, c) = AddLayer(d)
         /\ c.do = "update" => Perform(d, c) = UpdateLayer(d, c.index, c.field, c.value)
         /\ c.do = "transform" => Perform(d, c) = UpdateLayerTransform(d, c.index, "rotation", c.value)
         /\ c.do = "reorder" => Perform(d, c) = ReorderLayers(d, c.order)
         /\ c.do = "move" => Perform(d, c) = MoveObject(d, c.object, c.field, c.value)
         /\ c.do = "offsets" => Perform(d, c) = UpdateOffsets(d, c.left, c.size)
         /\ c.do = "restore" => Perform(d, c) = RestoreSource(d, c.id, c.strokes, c.no)
BY DEF Perform

\* Inserting a layer, at the end when the index is beyond it.
LEMMA InsertIs ==
  ASSUME NEW d, WellFormed(d), NEW i \in Nat \ {0}, NEW o \in 1..Len(d.heap)
  PROVE  LET e == InsertLayerAtIndex(d, i, o)
             k == IF i > Len(d.layers) THEN Len(d.layers) + 1 ELSE i
         IN  /\ IsDocument(e) /\ e.heap = d.heap /\ e.ids = d.ids /\ e.bitmap = d.bitmap /\ e.size = d.size
             /\ e.loading = d.loading /\ e.urls = d.urls
             /\ k \in 1..(Len(d.layers) + 1)
             /\ e.layers \in Seq(1..Len(d.heap)) /\ InsertedAt(e.layers, d.layers, k, o)
<1> DEFINE k == IF i > Len(d.layers) THEN Len(d.layers) + 1 ELSE i
           r == SubSeq(d.layers, 1, k - 1) \o <<o>> \o SubSeq(d.layers, k, Len(d.layers))
           e == InsertLayerAtIndex(d, i, o)
           S == 1..Len(d.heap)
<1>1. IsDocument(d)
  BY DEF WellFormed
<1>2. d.layers \in Seq(S) /\ o \in S
  BY DEF WellFormed
<1>3. k \in 1..(Len(d.layers) + 1)
  BY <1>2
<1>4. e = [d EXCEPT !.layers = r]
  BY DEF InsertLayerAtIndex
<1> HIDE DEF k, e, S
<1>5. r \in Seq(S) /\ InsertedAt(r, d.layers, k, o)
  BY <1>2, <1>3, Inserted
<1> HIDE DEF r
<1>6. IsDocument(e) /\ e.layers = r /\ e.heap = d.heap /\ e.ids = d.ids /\ e.bitmap = d.bitmap /\ e.size = d.size
      /\ e.loading = d.loading /\ e.urls = d.urls
  BY <1>1, <1>4, WithLayers
<1> QED BY <1>3, <1>5, <1>6 DEF e, k, S

\* Removing a layer.
LEMMA RemoveIs ==
  ASSUME NEW d, WellFormed(d), NEW i \in 1..Len(d.layers)
  PROVE  LET e == RemoveLayer(d, i)
         IN  /\ IsDocument(e) /\ e.heap = d.heap /\ e.ids = d.ids /\ e.bitmap = d.bitmap /\ e.size = d.size
             /\ e.loading = d.loading /\ e.urls = d.urls
             /\ e.layers \in Seq(1..Len(d.heap)) /\ RemovedAt(e.layers, d.layers, i)
<1> DEFINE S == 1..Len(d.heap)
           r == RemoveAt(d.layers, i)
           e == RemoveLayer(d, i)
<1>1. IsDocument(d)
  BY DEF WellFormed
<1>2. d.layers \in Seq(S)
  BY DEF WellFormed
<1>3. DOMAIN d.layers = 1..Len(d.layers)
  BY <1>2
<1>4. e = [d EXCEPT !.layers = r]
  BY <1>3 DEF RemoveLayer
<1> HIDE DEF e, S
<1>5. r \in Seq(S) /\ RemovedAt(r, d.layers, i)
  BY <1>2, Removed
<1> HIDE DEF r
<1>6. IsDocument(e) /\ e.layers = r /\ e.heap = d.heap /\ e.ids = d.ids /\ e.bitmap = d.bitmap /\ e.size = d.size
      /\ e.loading = d.loading /\ e.urls = d.urls
  BY <1>1, <1>4, WithLayers
<1> QED BY <1>5, <1>6 DEF e, S

\* Removing a layer that is not there.
LEMMA RemoveNothing ==
  ASSUME NEW d, WellFormed(d), NEW i, i \notin 1..Len(d.layers)
  PROVE  RemoveLayer(d, i) = d
<1>1. DOMAIN d.layers = 1..Len(d.layers)
  BY DEF WellFormed
<1> QED BY <1>1, WithLayers DEF RemoveLayer, WellFormed, IsDocument

\* Appending a layer that is new.
LEMMA AddIs ==
  ASSUME NEW d, WellFormed(d)
  PROVE  LET e == AddLayer(d)
         IN  /\ IsDocument(e) /\ e.ids = d.ids + 1 /\ e.bitmap = d.bitmap /\ e.size = d.size
             /\ e.loading = d.loading /\ e.urls = d.urls
             /\ IsHeap(e.heap, e.ids) /\ Appended(e.heap, d.heap, NewLayer(d.ids + 1))
             /\ e.layers = Append(d.layers, Len(d.heap) + 1)
<1> DEFINE n == d.ids + 1
           o == NewLayer(n)
           h == Append(d.heap, o)
           x == Append(d.layers, Len(d.heap) + 1)
           a == [d EXCEPT !.heap = h]
           b == [a EXCEPT !.ids = n]
           c == [b EXCEPT !.layers = x]
           e == AddLayer(d)
<1>1. IsDocument(d)
  BY DEF WellFormed
<1>2. IsHeap(d.heap, d.ids) /\ d.ids \in Nat
  BY DEF WellFormed
<1>3. IsLayer(o) /\ o.id \in 1..n /\ n \in Nat /\ n >= d.ids
  BY <1>2, NewLayerIsLayer
<1>4. e = c
  BY DEF AddLayer
<1> HIDE DEF n, o, x, e
<1>5. IsHeap(h, n) /\ Appended(h, d.heap, o)
  BY <1>2, <1>3, HeapGrows
<1> HIDE DEF h
<1>6. IsDocument(a) /\ a.heap = h /\ a.ids = d.ids /\ a.layers = d.layers /\ a.bitmap = d.bitmap /\ a.size = d.size
      /\ a.loading = d.loading /\ a.urls = d.urls
  BY <1>1, WithHeap
<1> HIDE DEF a
<1>7. IsDocument(b) /\ b.heap = h /\ b.ids = n /\ b.layers = d.layers /\ b.bitmap = d.bitmap /\ b.size = d.size
      /\ b.loading = d.loading /\ b.urls = d.urls
  BY <1>6, WithIds
<1> HIDE DEF b
<1>8. IsDocument(e) /\ e.heap = h /\ e.ids = n /\ e.layers = x /\ e.bitmap = d.bitmap /\ e.size = d.size
      /\ e.loading = d.loading /\ e.urls = d.urls
  BY <1>4, <1>7, WithLayers
<1> QED BY <1>5, <1>8 DEF e, x, n, o

\* Putting a new object in the place of another.
LEMMA UpdateIs ==
  ASSUME NEW d, WellFormed(d), NEW i \in 1..Len(d.layers), NEW f \in Fields \ {"id"}, NEW v
  PROVE  LET e == UpdateLayer(d, i, f, v)
             old == d.heap[d.layers[i]]
         IN  /\ IsDocument(e) /\ e.ids = d.ids /\ e.bitmap = d.bitmap /\ e.size = d.size
             /\ e.loading = d.loading /\ e.urls = d.urls
             /\ IsHeap(e.heap, d.ids) /\ Appended(e.heap, d.heap, [old EXCEPT ![f] = v])
             /\ e.layers = [d.layers EXCEPT ![i] = Len(d.heap) + 1]
<1> DEFINE old == d.heap[d.layers[i]]
           new == [old EXCEPT ![f] = v]
           h == Append(d.heap, new)
           x == [d.layers EXCEPT ![i] = Len(d.heap) + 1]
           a == [d EXCEPT !.heap = h]
           b == [a EXCEPT !.layers = x]
           e == UpdateLayer(d, i, f, v)
<1>1. IsDocument(d)
  BY DEF WellFormed
<1>2. IsHeap(d.heap, d.ids) /\ d.ids \in Nat /\ d.ids >= d.ids
  BY DEF WellFormed
<1>3. d.layers[i] \in 1..Len(d.heap) /\ i \in DOMAIN d.layers
  BY DEF WellFormed
<1>4. IsLayer(old) /\ old.id \in 1..d.ids
  BY <1>2, <1>3 DEF IsHeap
<1>5. e = b
  BY <1>3 DEF UpdateLayer
<1> HIDE DEF old, e, x
<1>6. IsLayer(new) /\ new.id \in 1..d.ids
  <2>1. "id" \in Fields \ {f} /\ f \in Fields
    BY DEF Fields
  <2>2. IsLayer(new) /\ \A g \in Fields \ {f} : new[g] = old[g]
    BY <1>4, <2>1, FieldSet
  <2> QED BY <1>4, <2>1, <2>2
<1> HIDE DEF new
<1>7. IsHeap(h, d.ids) /\ Appended(h, d.heap, new)
  BY <1>2, <1>6, HeapGrows
<1> HIDE DEF h
<1>8. IsDocument(a) /\ a.heap = h /\ a.ids = d.ids /\ a.layers = d.layers /\ a.bitmap = d.bitmap /\ a.size = d.size
      /\ a.loading = d.loading /\ a.urls = d.urls
  BY <1>1, WithHeap
<1> HIDE DEF a
<1>9. IsDocument(e) /\ e.heap = h /\ e.ids = d.ids /\ e.layers = x /\ e.bitmap = d.bitmap /\ e.size = d.size
      /\ e.loading = d.loading /\ e.urls = d.urls
  BY <1>5, <1>8, WithLayers
<1> QED BY <1>7, <1>9 DEF e, x, new, old

\* Changing an object in place.
LEMMA MoveIs ==
  ASSUME NEW d, WellFormed(d), NEW o, NEW f \in Fields \ {"id"}, NEW v
  PROVE  LET e == MoveObject(d, o, f, v)
         IN  /\ IsDocument(e) /\ e.ids = d.ids /\ e.bitmap = d.bitmap /\ e.size = d.size
             /\ e.loading = d.loading /\ e.urls = d.urls
             /\ IsHeap(e.heap, d.ids) /\ ReplacedAt(e.heap, d.heap, o, [d.heap[o] EXCEPT ![f] = v])
             /\ e.layers = d.layers
<1> DEFINE p == [d.heap[o] EXCEPT ![f] = v]
           h == [d.heap EXCEPT ![o] = p]
           e == MoveObject(d, o, f, v)
<1>1. IsDocument(d)
  BY DEF WellFormed
<1>2. IsHeap(d.heap, d.ids)
  BY DEF WellFormed
<1>3. e = [d EXCEPT !.heap = h]
  BY DEF MoveObject
<1> HIDE DEF e
<1>4. IsHeap(h, d.ids) /\ ReplacedAt(h, d.heap, o, p)
  BY <1>2, HeapChanges
<1> HIDE DEF h, p
<1>5. IsDocument(e) /\ e.heap = h /\ e.ids = d.ids /\ e.layers = d.layers /\ e.bitmap = d.bitmap /\ e.size = d.size
      /\ e.loading = d.loading /\ e.urls = d.urls
  BY <1>1, <1>3, WithHeap
<1> QED BY <1>4, <1>5 DEF e, p

\* Layers in the order of ids that they have.
LEMMA ReorderIs ==
  ASSUME NEW d, WellFormed(d), NEW order, IsSequence(order), Range(order) \subseteq IdsIn(d)
  PROVE  LET e == ReorderLayers(d, order)
         IN  /\ IsDocument(e) /\ e.heap = d.heap /\ e.ids = d.ids /\ e.bitmap = d.bitmap /\ e.size = d.size
             /\ e.loading = d.loading /\ e.urls = d.urls
             /\ e.layers \in Seq(1..Len(d.heap)) /\ Len(e.layers) = Len(order)
             /\ \A n \in 1..Len(order) : e.layers[n] \in Range(d.layers) /\ d.heap[e.layers[n]].id = order[n]
<1> DEFINE x == [n \in DOMAIN order |-> CHOOSE o \in Range(d.layers) : d.heap[o].id = order[n]]
           e == ReorderLayers(d, order)
           S == 1..Len(d.heap)
<1>1. IsDocument(d)
  BY DEF WellFormed
<1>2. Range(d.layers) \subseteq S
  BY DEF WellFormed, Range
<1>3. DOMAIN order = 1..Len(order) /\ Len(order) \in Nat
  BY DEF IsSequence
<1>4. e = [d EXCEPT !.layers = x]
  BY DEF ReorderLayers
<1>5. ASSUME NEW n \in 1..Len(order) PROVE x[n] \in Range(d.layers) /\ d.heap[x[n]].id = order[n]
  <2>1. order[n] \in IdsIn(d)
    BY <1>3 DEF Range
  <2>2. \E o \in Range(d.layers) : d.heap[o].id = order[n]
    BY <2>1 DEF IdsIn
  <2>3. x[n] = CHOOSE o \in Range(d.layers) : d.heap[o].id = order[n]
    BY <1>3
  <2> HIDE DEF x
  <2> QED BY <2>2, <2>3
<1>6. x \in [1..Len(order) -> S]
  <2>1. x = [n \in 1..Len(order) |-> x[n]]
    BY <1>3
  <2> HIDE DEF x
  <2>2. \A n \in 1..Len(order) : x[n] \in S
    BY <1>2, <1>5
  <2> QED BY <2>1, <2>2
<1> HIDE DEF x, e, S
<1>7. x \in Seq(S) /\ Len(x) = Len(order)
  BY <1>3, <1>6
<1>8. IsDocument(e) /\ e.layers = x /\ e.heap = d.heap /\ e.ids = d.ids /\ e.bitmap = d.bitmap /\ e.size = d.size
      /\ e.loading = d.loading /\ e.urls = d.urls
  BY <1>1, <1>4, WithLayers
<1> QED BY <1>5, <1>7, <1>8 DEF e, S

\* The objects k are those of h, but for the left of the layers of a document.
Offset(k, h, shown, left) ==
  /\ Len(h) \in Nat /\ Len(k) = Len(h)
  /\ \A o \in 1..Len(h) : k[o] = IF o \in Range(shown) THEN [h[o] EXCEPT !.left = left[h[o].id]] ELSE h[o]

\* Moving the layers of the document and setting its size.
LEMMA OffsetsIs ==
  ASSUME NEW d, WellFormed(d), NEW left, NEW s
  PROVE  LET e == UpdateOffsets(d, left, s)
         IN  /\ IsDocument(e) /\ e.ids = d.ids /\ e.bitmap = d.bitmap /\ e.size = s
             /\ e.loading = d.loading /\ e.urls = d.urls
             /\ IsHeap(e.heap, d.ids) /\ Offset(e.heap, d.heap, d.layers, left)
             /\ e.layers = d.layers
<1> DEFINE New(o) == IF o \in Range(d.layers) THEN [d.heap[o] EXCEPT !.left = left[d.heap[o].id]] ELSE d.heap[o]
           h == [o \in DOMAIN d.heap |-> New(o)]
           a == [d EXCEPT !.size = s]
           b == [a EXCEPT !.heap = h]
           e == UpdateOffsets(d, left, s)
<1>1. IsDocument(d)
  BY DEF WellFormed
<1>2. IsHeap(d.heap, d.ids)
  BY DEF WellFormed
<1>3. DOMAIN d.heap = 1..Len(d.heap) /\ Len(d.heap) \in Nat
  BY <1>2 DEF IsHeap, IsSequence
<1>4. e = b
  BY DEF UpdateOffsets
<1> HIDE DEF e
<1>5. ASSUME NEW o \in 1..Len(d.heap) PROVE h[o] = New(o) /\ IsLayer(New(o)) /\ New(o).id \in 1..d.ids
  <2>1. h[o] = New(o)
    BY <1>3
  <2>2. IsLayer(d.heap[o]) /\ d.heap[o].id \in 1..d.ids
    BY <1>2 DEF IsHeap
  <2>3. ASSUME NEW v PROVE IsLayer([d.heap[o] EXCEPT !.left = v]) /\ [d.heap[o] EXCEPT !.left = v].id = d.heap[o].id
    <3> DEFINE p == d.heap[o]
    <3>1. "id" \in Fields \ {"left"} /\ "left" \in Fields
      BY DEF Fields
    <3>2. IsLayer(p)
      BY <2>2
    <3> HIDE DEF p
    <3>3. IsLayer([p EXCEPT !["left"] = v]) /\ [p EXCEPT !["left"] = v]["id"] = p["id"]
      BY <3>1, <3>2, FieldSet
    <3> QED BY <3>3 DEF p
  <2>4. CASE o \in Range(d.layers)
    <3>1. New(o) = [d.heap[o] EXCEPT !.left = left[d.heap[o].id]]
      BY <2>4
    <3> QED BY <2>1, <2>2, <2>3, <3>1
  <2>5. CASE o \notin Range(d.layers)
    <3>1. New(o) = d.heap[o]
      BY <2>5
    <3> QED BY <2>1, <2>2, <3>1
  <2> QED BY <2>4, <2>5
<1>6. h \in Seq(Range(h)) /\ Len(h) = Len(d.heap)
  <2>1. h = [o \in 1..Len(d.heap) |-> h[o]] /\ DOMAIN h = 1..Len(d.heap)
    BY <1>3
  <2> HIDE DEF h
  <2>2. \A o \in 1..Len(d.heap) : h[o] \in Range(h)
    BY <2>1 DEF Range
  <2>3. h \in [1..Len(d.heap) -> Range(h)]
    BY <2>1, <2>2
  <2> QED BY <1>3, <2>3
<1>7. IsHeap(h, d.ids) /\ Offset(h, d.heap, d.layers, left)
  <2>1. Len(h) = Len(d.heap) /\ IsSequence(h)
    BY <1>6 DEF IsSequence
  <2>2. \A o \in 1..Len(d.heap) : h[o] = New(o)
    BY <1>5
  <2>3. \A o \in 1..Len(d.heap) : IsLayer(h[o]) /\ h[o].id \in 1..d.ids
    BY <1>5
  <2> HIDE DEF h
  <2>4. IsHeap(h, d.ids)
    BY <2>1, <2>3 DEF IsHeap
  <2>5. Offset(h, d.heap, d.layers, left)
    BY <1>3, <2>1, <2>2, Zenon DEF Offset
  <2> QED BY <2>4, <2>5
<1> HIDE DEF h
<1>8. IsDocument(a) /\ a.heap = d.heap /\ a.ids = d.ids /\ a.layers = d.layers /\ a.bitmap = d.bitmap /\ a.size = s
      /\ a.loading = d.loading /\ a.urls = d.urls
  BY <1>1, WithSize
<1> HIDE DEF a
<1>9. IsDocument(e) /\ e.heap = h /\ e.ids = d.ids /\ e.layers = d.layers /\ e.bitmap = d.bitmap /\ e.size = s
      /\ e.loading = d.loading /\ e.urls = d.urls
  BY <1>4, <1>8, WithHeap
<1> QED BY <1>7, <1>9 DEF e

\* Document e is d with an empty bitmap, on which strokes will be drawn if their blob is there.
Restored(e, d, id, strokes, no) ==
  /\ e.bitmap = [d.bitmap EXCEPT ![id] = {}]
  /\ e.loading = IF no \in d.urls THEN d.loading \union {[id |-> id, strokes |-> strokes]} ELSE d.loading

\* Clearing a bitmap until its blob has loaded.
LEMMA RestoreIs ==
  ASSUME NEW d, WellFormed(d), NEW id, NEW strokes, NEW no
  PROVE  LET e == RestoreSource(d, id, strokes, no)
         IN  /\ IsDocument(e) /\ e.ids = d.ids /\ e.heap = d.heap /\ e.layers = d.layers /\ e.size = d.size
             /\ e.urls = d.urls /\ Restored(e, d, id, strokes, no)
<1> DEFINE m == [d.bitmap EXCEPT ![id] = {}]
           l == IF no \in d.urls THEN d.loading \union {[id |-> id, strokes |-> strokes]} ELSE d.loading
           a == [d EXCEPT !.bitmap = m]
           b == [a EXCEPT !.loading = l]
           e == RestoreSource(d, id, strokes, no)
<1>1. IsDocument(d)
  BY DEF WellFormed
<1>2. e = b
  BY DEF RestoreSource
<1> HIDE DEF e, m, l
<1>3. IsDocument(a) /\ a.heap = d.heap /\ a.ids = d.ids /\ a.layers = d.layers /\ a.bitmap = m /\ a.size = d.size
      /\ a.loading = d.loading /\ a.urls = d.urls
  BY <1>1, WithBitmap
<1> HIDE DEF a
<1>4. IsDocument(e) /\ e.heap = d.heap /\ e.ids = d.ids /\ e.layers = d.layers /\ e.bitmap = m /\ e.size = d.size
      /\ e.loading = l /\ e.urls = d.urls
  BY <1>2, <1>3, WithLoading
<1> QED BY <1>4 DEF e, m, l, Restored

\* A command leaves the document well formed and forgets no object.
LEMMA PerformFollows ==
  ASSUME NEW d, WellFormed(d), NEW c, IsCommand(c, Len(d.heap)),
         c.do = "reorder" => Range(c.order) \subseteq IdsIn(d)
  PROVE  Follows(Perform(d, c), d)
<1> DEFINE e == Perform(d, c)
           S == 1..Len(d.heap)
<1>0. WellFormed(d)
  OBVIOUS
<1>1. IsHeap(d.heap, d.ids) /\ d.ids \in Nat
  BY DEF WellFormed
<1>2. Len(d.heap) \in Nat
  BY <1>1 DEF IsHeap, IsSequence
<1>3. d.layers \in Seq(S)
  BY DEF WellFormed
<1>4. ASSUME IsDocument(e), e.ids = d.ids, e.heap = d.heap, e.layers \in Seq(S)
      PROVE  Follows(e, d)
  BY <1>1, <1>2, <1>4 DEF Follows, WellFormed
<1>5. ASSUME NEW n \in Nat, S \subseteq 1..n PROVE d.layers \in Seq(1..n)
  <2> DEFINE T == 1..n
  <2>1. S \subseteq T
    BY <1>5
  <2> HIDE DEF S, T
  <2>2. d.layers \in Seq(T)
    BY <1>3, <2>1, SeqMonotonic
  <2> QED BY <2>2 DEF T
<1>6. ASSUME NEW o, Appended(e.heap, d.heap, o)
      PROVE  Len(e.heap) = Len(d.heap) + 1 /\ Len(e.heap) \in Nat /\ d.layers \in Seq(1..Len(e.heap))
  <2>1. Len(e.heap) = Len(d.heap) + 1 /\ Len(e.heap) \in Nat
    BY <1>2, <1>6 DEF Appended
  <2>2. S \subseteq 1..Len(e.heap)
    BY <1>2, <2>1
  <2> QED BY <1>5, <2>1, <2>2
<1>7. CASE c.do = "insert"
  <2>1. e = InsertLayerAtIndex(d, c.index, c.object)
    BY <1>7, PerformDo
  <2>2. c.index \in Nat \ {0} /\ c.object \in 1..Len(d.heap)
    BY <1>7 DEF IsCommand, Indexed
  <2> QED BY <1>0, <1>4, <2>1, <2>2, InsertIs
<1>8. CASE c.do = "remove"
  <2>1. e = RemoveLayer(d, c.index)
    BY <1>8, PerformDo
  <2>2. CASE c.index \in 1..Len(d.layers)
    BY <1>0, <1>4, <2>1, <2>2, RemoveIs
  <2>3. CASE c.index \notin 1..Len(d.layers)
    <3>1. e = d
      BY <1>0, <2>1, <2>3, RemoveNothing
    <3> QED BY <1>0, <1>2, <3>1 DEF Follows
  <2> QED BY <2>2, <2>3
<1>9. CASE c.do = "add"
  <2>1. e = AddLayer(d)
    BY <1>9, PerformDo
  <2>2. /\ IsDocument(e) /\ e.ids = d.ids + 1 /\ IsHeap(e.heap, e.ids)
        /\ Appended(e.heap, d.heap, NewLayer(d.ids + 1)) /\ e.layers = Append(d.layers, Len(d.heap) + 1)
    BY <1>0, <2>1, AddIs
  <2>3. Len(e.heap) = Len(d.heap) + 1 /\ Len(e.heap) \in Nat /\ d.layers \in Seq(1..Len(e.heap))
    BY <1>6, <2>2
  <2>4. e.layers \in Seq(1..Len(e.heap))
    <3> DEFINE T == 1..Len(e.heap)
    <3>1. d.layers \in Seq(T) /\ Len(d.heap) + 1 \in T
      BY <1>2, <2>3
    <3> HIDE DEF T
    <3>2. Append(d.layers, Len(d.heap) + 1) \in Seq(T)
      BY <3>1
    <3> QED BY <2>2, <3>2 DEF T
  <2>5. e.ids \in Nat
    BY <1>1, <2>2
  <2> QED BY <1>2, <2>2, <2>3, <2>4, <2>5 DEF Follows, WellFormed
<1>10. CASE c.do = "update"
  <2>1. e = UpdateLayer(d, c.index, c.field, c.value)
    BY <1>10, PerformDo
  <2>2. c.field \in Fields \ {"id"}
    BY <1>10 DEF IsCommand
  <2>3. CASE c.index \in 1..Len(d.layers)
    <3>1. /\ IsDocument(e) /\ e.ids = d.ids /\ IsHeap(e.heap, d.ids)
          /\ Appended(e.heap, d.heap, [d.heap[d.layers[c.index]] EXCEPT ![c.field] = c.value])
          /\ e.layers = [d.layers EXCEPT ![c.index] = Len(d.heap) + 1]
      BY <1>0, <2>1, <2>2, <2>3, UpdateIs
    <3>2. Len(e.heap) = Len(d.heap) + 1 /\ Len(e.heap) \in Nat /\ d.layers \in Seq(1..Len(e.heap))
      BY <1>6, <3>1
    <3>3. e.layers \in Seq(1..Len(e.heap))
      <4> DEFINE T == 1..Len(e.heap)
      <4>1. d.layers \in Seq(T) /\ Len(d.heap) + 1 \in T
        BY <1>2, <3>2
      <4> HIDE DEF T
      <4>2. [d.layers EXCEPT ![c.index] = Len(d.heap) + 1] \in Seq(T)
        BY <2>3, <4>1, ExceptSeq
      <4> QED BY <3>1, <4>2 DEF T
    <3> QED BY <1>1, <1>2, <3>1, <3>2, <3>3 DEF Follows, WellFormed
  <2>4. CASE c.index \notin 1..Len(d.layers)
    <3>1. DOMAIN d.layers = 1..Len(d.layers)
      BY <1>3
    <3>2. e = d
      BY <2>1, <2>4, <3>1 DEF UpdateLayer
    <3> QED BY <1>0, <1>2, <3>2 DEF Follows
  <2> QED BY <2>3, <2>4
<1>11. ASSUME NEW o, NEW f \in Fields \ {"id"}, NEW v, e = MoveObject(d, o, f, v) PROVE Follows(e, d)
  <2>1. /\ IsDocument(e) /\ e.ids = d.ids /\ IsHeap(e.heap, d.ids) /\ e.layers = d.layers
        /\ ReplacedAt(e.heap, d.heap, o, [d.heap[o] EXCEPT ![f] = v])
    BY <1>0, <1>11, MoveIs
  <2>2. Len(e.heap) = Len(d.heap)
    BY <2>1 DEF ReplacedAt
  <2> QED BY <1>1, <1>2, <1>3, <2>1, <2>2 DEF Follows, WellFormed
<1>12. CASE c.do = "transform"
  <2>1. e = UpdateLayerTransform(d, c.index, "rotation", c.value)
    BY <1>12, PerformDo
  <2>2. CASE c.index \in DOMAIN d.layers
    <3>1. e = MoveObject(d, d.layers[c.index], "rotation", c.value)
      BY <2>1, <2>2 DEF UpdateLayerTransform, MoveObject
    <3>2. "rotation" \in Fields \ {"id"}
      BY DEF Fields
    <3> QED BY <1>11, <3>1, <3>2
  <2>3. CASE c.index \notin DOMAIN d.layers
    <3>1. e = d
      BY <2>1, <2>3 DEF UpdateLayerTransform
    <3> QED BY <1>0, <1>2, <3>1 DEF Follows
  <2> QED BY <2>2, <2>3
<1>13. CASE c.do = "reorder"
  <2>1. e = ReorderLayers(d, c.order)
    BY <1>13, PerformDo
  <2>2. IsSequence(c.order) /\ Range(c.order) \subseteq IdsIn(d)
    BY <1>13 DEF IsCommand
  <2> QED BY <1>0, <1>4, <2>1, <2>2, ReorderIs
<1>14. CASE c.do = "move"
  <2>1. e = MoveObject(d, c.object, c.field, c.value)
    BY <1>14, PerformDo
  <2>2. c.field \in Fields \ {"id"}
    BY <1>14 DEF IsCommand
  <2> QED BY <1>11, <2>1, <2>2
<1>15. CASE c.do = "offsets"
  <2>1. e = UpdateOffsets(d, c.left, c.size)
    BY <1>15, PerformDo
  <2>2. /\ IsDocument(e) /\ e.ids = d.ids /\ IsHeap(e.heap, d.ids) /\ e.layers = d.layers
        /\ Offset(e.heap, d.heap, d.layers, c.left)
    BY <1>0, <2>1, OffsetsIs
  <2>3. Len(e.heap) = Len(d.heap)
    BY <2>2 DEF Offset
  <2> QED BY <1>1, <1>2, <1>3, <2>2, <2>3 DEF Follows, WellFormed
<1>16. CASE c.do = "restore"
  <2>1. e = RestoreSource(d, c.id, c.strokes, c.no)
    BY <1>16, PerformDo
  <2>2. IsDocument(e) /\ e.ids = d.ids /\ e.heap = d.heap /\ e.layers = d.layers
    BY <1>0, <2>1, RestoreIs
  <2> QED BY <1>3, <1>4, <2>2
<1> QED BY <1>7, <1>8, <1>9, <1>10, <1>12, <1>13, <1>14, <1>15, <1>16 DEF IsCommand, Verbs, Indexed

\* A closure over the first n objects: a command, or three that do not reorder.
IsClosure(q, n) ==
  \/ \E c : q = <<c>> /\ IsCommand(c, n)
  \/ \E c1, c2, c3 :
       /\ q = <<c1, c2, c3>> /\ IsCommand(c1, n) /\ IsCommand(c2, n) /\ IsCommand(c3, n)
       /\ c1.do # "reorder" /\ c2.do # "reorder" /\ c3.do # "reorder"

\* What the orders of a closure name is there.
OrdersIn(q, there) == \A n \in DOMAIN q : q[n].do = "reorder" => Range(q[n].order) \subseteq there

\* What is said of the first objects can be said of more.
LEMMA CommandStays ==
  ASSUME NEW c, NEW n \in Nat, NEW m \in Nat, m >= n, IsCommand(c, n)
  PROVE  IsCommand(c, m)
BY DEF IsCommand

\* So can what is said of the objects that a closure names,
LEMMA ClosureStays ==
  ASSUME NEW q, NEW n \in Nat, NEW m \in Nat, m >= n, IsClosure(q, n)
  PROVE  IsClosure(q, m)
<1>1. CASE \E c : q = <<c>> /\ IsCommand(c, n)
  <2>1. PICK c : q = <<c>> /\ IsCommand(c, n)
    BY <1>1
  <2>2. IsCommand(c, m)
    BY <2>1, CommandStays
  <2> QED BY <2>1, <2>2 DEF IsClosure
<1>2. CASE \E c1, c2, c3 :
             /\ q = <<c1, c2, c3>> /\ IsCommand(c1, n) /\ IsCommand(c2, n) /\ IsCommand(c3, n)
             /\ c1.do # "reorder" /\ c2.do # "reorder" /\ c3.do # "reorder"
  <2>1. PICK c1, c2, c3 :
             /\ q = <<c1, c2, c3>> /\ IsCommand(c1, n) /\ IsCommand(c2, n) /\ IsCommand(c3, n)
             /\ c1.do # "reorder" /\ c2.do # "reorder" /\ c3.do # "reorder"
    BY <1>2
  <2>2. IsCommand(c1, m) /\ IsCommand(c2, m) /\ IsCommand(c3, m)
    BY <2>1, CommandStays
  <2> QED BY <2>1, <2>2, Zenon DEF IsClosure
<1> QED BY <1>1, <1>2 DEF IsClosure

\* A closure leaves the document well formed and forgets no object.
LEMMA RunFollows ==
  ASSUME NEW d, WellFormed(d), NEW q, IsClosure(q, Len(d.heap)), OrdersIn(q, IdsIn(d))
  PROVE  Follows(Run(q, d), d)
<1> DEFINE n == Len(d.heap)
<1>1. ASSUME NEW e, WellFormed(e), NEW c, IsCommand(c, n), c.do # "reorder", Len(e.heap) >= n, Len(e.heap) \in Nat, n \in Nat
      PROVE  WellFormed(Perform(e, c)) /\ Len(Perform(e, c).heap) >= n /\ Len(Perform(e, c).heap) \in Nat
  <2>1. IsCommand(c, Len(e.heap))
    BY <1>1, CommandStays
  <2>2. Follows(Perform(e, c), e)
    BY <1>1, <2>1, PerformFollows
  <2>3. Len(Perform(e, c).heap) \in Nat
    BY <2>2 DEF Follows, WellFormed, IsHeap, IsSequence
  <2> QED BY <1>1, <2>2, <2>3 DEF Follows
<1>2. n \in Nat
  BY DEF WellFormed, IsHeap, IsSequence
<1>3. CASE \E c : q = <<c>> /\ IsCommand(c, n)
  <2>1. PICK c : q = <<c>> /\ IsCommand(c, n)
    BY <1>3
  <2>2. c.do = "reorder" => Range(c.order) \subseteq IdsIn(d)
    BY <2>1 DEF OrdersIn
  <2>3. Run(q, d) = Perform(d, c)
    BY <2>1, RunOne
  <2> QED BY <2>1, <2>2, <2>3, PerformFollows
<1>4. CASE \E c1, c2, c3 :
             /\ q = <<c1, c2, c3>> /\ IsCommand(c1, n) /\ IsCommand(c2, n) /\ IsCommand(c3, n)
             /\ c1.do # "reorder" /\ c2.do # "reorder" /\ c3.do # "reorder"
  <2>1. PICK c1, c2, c3 :
             /\ q = <<c1, c2, c3>> /\ IsCommand(c1, n) /\ IsCommand(c2, n) /\ IsCommand(c3, n)
             /\ c1.do # "reorder" /\ c2.do # "reorder" /\ c3.do # "reorder"
    BY <1>4
  <2> DEFINE a == Perform(d, c1)
             b == Perform(a, c2)
             e == Perform(b, c3)
  <2>2. Run(q, d) = e
    BY <2>1, RunThree
  <2>3. n >= n
    BY <1>2
  <2>4. WellFormed(a) /\ Len(a.heap) >= n /\ Len(a.heap) \in Nat
    BY <1>1, <1>2, <2>1, <2>3
  <2> HIDE DEF a
  <2>5. WellFormed(b) /\ Len(b.heap) >= n /\ Len(b.heap) \in Nat
    BY <1>1, <1>2, <2>1, <2>4
  <2> HIDE DEF b
  <2>6. WellFormed(e) /\ Len(e.heap) >= n
    BY <1>1, <1>2, <2>1, <2>5
  <2> QED BY <2>2, <2>6 DEF Follows
<1> QED BY <1>3, <1>4 DEF IsClosure

-----------------------------------------------------------------------------
IsEntry(s, n) == IsClosure(s.undo, n) /\ IsClosure(s.redo, n)

Entries(m, n) == \A i \in 1..Len(m.stack) : IsEntry(m.stack[i], n)

IsMerge(m, n) == m.index \in Nat \ {0} /\ m.below \in 1..n /\ m.above \in 1..n

TypeInv ==
  /\ HistoryInv
  /\ WellFormed(Document)
  /\ Entries(Manager, Len(heap))
  /\ queue # None => IsEntry(queue, Len(heap))
  /\ merging # NoMerge => IsMerge(merging, Len(heap))

\* saveState keeps the entries, and numbers the one it adds.
LEMMA SaveStateEntries ==
  ASSUME NEW m, NEW s, NEW n, Orderly(m), IsState(s), Entries(m, n), IsEntry(s, n)
  PROVE  Entries(SaveState(m, s), n)
<1> STATES_TO_SAVE \in Nat \ {0}  BY HistoryAssumption
<1> DEFINE t == [s EXCEPT !.no = m.stored + 1]
           q == m.stack
           kept == Append(SubSeq(q, 1, m.at), t)
           over == Len(kept) > STATES_TO_SAVE
           S == Range(q) \union {t}
           r == SaveState(m, s).stack
<1>1. r = IF over THEN Tail(kept) ELSE kept
  BY SavedManager DEF Orderly
<1>2. IsEntry(t, n)
  <2>1. t.undo = s.undo /\ t.redo = s.redo
    BY DEF IsState
  <2> QED BY <2>1 DEF IsEntry
<1>3. q \in Seq(Range(q)) /\ Len(q) \in Nat /\ m.at \in 0..Len(q)
  BY DEF Orderly, IsStack
<1>4. \A i \in 1..Len(q) : IsEntry(q[i], n)
  BY DEF Entries
<1> HIDE DEF t, q, S, r
<1>5. /\ kept \in Seq(S) /\ Len(kept) = m.at + 1
      /\ \A i \in 1..m.at : kept[i] = q[i]
      /\ kept[m.at + 1] = t
  <2>1. SubSeq(q, 1, m.at) \in Seq(Range(q)) /\ Len(SubSeq(q, 1, m.at)) = m.at
        /\ \A i \in 1..m.at : SubSeq(q, 1, m.at)[i] = q[i]
    BY <1>3
  <2>2. SubSeq(q, 1, m.at) \in Seq(S) /\ t \in S
    BY <2>1 DEF S
  <2> QED BY <1>3, <2>1, <2>2
<1> HIDE DEF kept
<1>6. \A i \in 1..Len(kept) : IsEntry(kept[i], n)
  <2> TAKE i \in 1..Len(kept)
  <2>1. CASE i = m.at + 1
    BY <1>2, <1>5, <2>1
  <2>2. CASE i \in 1..m.at
    BY <1>3, <1>4, <1>5, <2>2
  <2> QED BY <1>3, <1>5, <2>1, <2>2
<1>7. ASSUME over PROVE Len(Tail(kept)) = Len(kept) - 1 /\ \A i \in 1..Len(Tail(kept)) : Tail(kept)[i] = kept[i + 1]
  <2>1. kept # <<>>
    BY <1>3, <1>5
  <2> QED BY <1>5, <2>1, HeadTailProperties
<1>8. \A i \in 1..Len(r) : IsEntry(r[i], n)
  <2>1. CASE over
    <3>1. r = Tail(kept) /\ Len(kept) \in Nat
      BY <1>1, <1>3, <1>5, <2>1
    <3> QED BY <1>6, <1>7, <2>1, <3>1
  <2>2. CASE ~over
    BY <1>1, <1>6, <2>2
  <2> QED BY <2>1, <2>2
<1> QED BY <1>8 DEF r, Entries

\* More objects can only help.
LEMMA EntryStays ==
  ASSUME NEW s, NEW n \in Nat, NEW m \in Nat, m >= n, IsEntry(s, n)
  PROVE  IsEntry(s, m)
BY ClosureStays DEF IsEntry

\* and that all entries of the manager do.
LEMMA EntriesStay ==
  ASSUME NEW h, NEW n \in Nat, NEW m \in Nat, m >= n, Entries(h, n)
  PROVE  Entries(h, m)
BY EntryStays DEF Entries

\* The entry of a stroke restores bitmaps only.
LEMMA PaintEntries ==
  ASSUME NEW m, NEW n, Orderly(m), Entries(m, n), NEW b
  PROVE  Entries(PaintStored(m, b), n) /\ Orderly(PaintStored(m, b))
<1> DEFINE c(s) == [do |-> "restore", id |-> b.layer, strokes |-> s, no |-> m.stored + 1]
           k == <<"layerSource", b.layer>>
           u == <<c(b.before)>>
           v == <<c(b.after)>>
           st == State(k, u, v, Now)
           yes == TRUE
           s == [st EXCEPT !.resources = yes]
<1>1. PaintStored(m, b) = SaveState(m, s)
  BY DEF PaintStored
<1>2. IsState(s)
  BY StateIsState
<1>3. \A w : IsCommand(c(w), n)
  BY DEF IsCommand, Verbs, Indexed
<1> HIDE DEF c
<1>4. IsClosure(u, n) /\ IsClosure(v, n)
  BY <1>3 DEF IsClosure
<1> HIDE DEF u, v, yes
<1>5. st.undo = u /\ st.redo = v /\ IsState(st)
  <2>1. st.undo = u /\ st.redo = v
    BY DEF State
  <2> QED BY <2>1, StateIsState
<1> HIDE DEF st
<1>6. s.undo = u /\ s.redo = v
  BY <1>5 DEF IsState
<1>7. IsEntry(s, n)
  BY <1>4, <1>6 DEF IsEntry
<1> HIDE DEF s
<1> QED BY <1>1, <1>2, <1>7, SaveStateEntries, SaveStateOrderly

\* processQueue adds what was queued.
LEMMA QueueEntries ==
  ASSUME TypeInv
  PROVE  LET a == ProcessedQueue(Manager) IN Orderly(a) /\ Entries(a, Len(heap))
<1> DEFINE a == ProcessedQueue(Manager)
<1>1. HistoryInv /\ Entries(Manager, Len(heap)) /\ (queue # None => IsEntry(queue, Len(heap)))
  BY DEF TypeInv
<1>2. Orderly(a)
  BY <1>1, QueueOrderly
<1>3. Entries(a, Len(heap))
  BY <1>1, SaveStateEntries DEF HistoryInv, ProcessedQueue
<1> QED BY <1>2, <1>3

\* A well-formed document, taken over, is well formed whatever became of the blobs.
LEMMA BecomesWellFormed ==
  ASSUME NEW d, WellFormed(d), Become(d)
  PROVE  WellFormed(Document)' /\ heap' = d.heap
<1>1. heap' = d.heap /\ layers' = d.layers /\ ids' = d.ids
  BY DEF Become
<1>2. /\ Document.heap' = heap' /\ Document.layers' = layers' /\ Document.ids' = ids'
      /\ IsDocument(Document)'
  BY DEF Document, IsDocument
<1> QED BY <1>1, <1>2 DEF WellFormed

\* The document as a record.
LEMMA DocumentParts ==
  /\ Document.heap = heap /\ Document.layers = layers /\ Document.ids = ids /\ Document.bitmap = bitmap
  /\ Document.size = size /\ Document.loading = loading /\ Document.urls = blobUrls
BY DEF Document

\* A document of which nothing changes stays well formed.
LEMMA SameDocument ==
  ASSUME WellFormed(Document), heap' = heap, layers' = layers, ids' = ids
  PROVE  WellFormed(Document)'
<1>1. /\ Document.heap' = heap' /\ Document.layers' = layers' /\ Document.ids' = ids'
      /\ IsDocument(Document)'
  BY DEF Document, IsDocument
<1> QED BY <1>1, DocumentParts DEF WellFormed

\* What the invariant says of the counts.
LEMMA HeapCount == ASSUME TypeInv PROVE Len(heap) \in Nat /\ IsHeap(heap, ids) /\ ids \in Nat
                                        /\ layers \in Seq(1..Len(heap)) /\ DOMAIN layers = 1..Len(layers)
                                        /\ Len(layers) \in Nat
<1>1. IsHeap(heap, ids) /\ ids \in Nat
  BY DocumentParts DEF TypeInv, WellFormed
<1>2. layers \in Seq(1..Len(heap))
  BY DocumentParts DEF TypeInv, WellFormed
<1>3. Len(heap) \in Nat
  BY <1>1 DEF IsHeap, IsSequence
<1> QED BY <1>1, <1>2, <1>3

\* The entries of a manager that was taken over.
LEMMA EntriesTakenOver ==
  ASSUME NEW m, Orderly(m), NEW n, Entries(m, n), BecomeManager(m)
  PROVE  Orderly(Manager)' /\ Entries(Manager', n)
<1>1. Manager'.stack = m.stack
  BY DEF Manager, BecomeManager
<1> QED BY <1>1, TakenOver DEF Entries

\* Enqueueing an entry over the objects there are, or will be.
LEMMA EnqueueEntries ==
  ASSUME TypeInv, NEW s, IsState(s), NEW n \in Nat, n >= Len(heap), IsEntry(s, n), EnqueueState(s)
  PROVE  HistoryInv' /\ Entries(Manager', n) /\ IsEntry(queue', n)
<1>1. HistoryInv'
  BY EnqueueOrderly DEF TypeInv
<1>2. Len(heap) \in Nat
  BY HeapCount
<1>3. CASE queue # None /\ queue.key = s.key
  <2>1. queue' = Merged(queue, s) /\ UNCHANGED manager
    BY <1>3 DEF EnqueueState
  <2>2. Manager' = Manager
    BY <2>1 DEF Manager, manager
  <2>3. Entries(Manager', n)
    BY <1>2, <2>2, EntriesStay DEF TypeInv
  <2>4. IsEntry(queue, n) /\ IsState(queue)
    BY <1>2, <1>3, EntryStays DEF TypeInv, HistoryInv
  <2>5. queue'.undo = queue.undo /\ queue'.redo = s.redo
    <3> DEFINE r == s.redo
               f == s.after
    <3>1. queue' = [queue EXCEPT !.redo = r, !.after = f]
      BY <2>1 DEF Merged
    <3> HIDE DEF r, f
    <3>2. queue' = [key |-> queue.key, undo |-> queue.undo, redo |-> r, resources |-> queue.resources,
                    no |-> queue.no, after |-> f]
      BY <2>4, <3>1 DEF IsState
    <3> QED BY <3>2 DEF r
  <2> QED BY <1>1, <2>3, <2>4, <2>5 DEF IsEntry
<1>4. CASE ~(queue # None /\ queue.key = s.key)
  <2> DEFINE m == ProcessedQueue(Manager)
  <2>1. queue' = s /\ BecomeManager(m)
    BY <1>4 DEF EnqueueState
  <2>2. Orderly(m) /\ Entries(m, Len(heap))
    BY QueueEntries
  <2> HIDE DEF m
  <2>3. Entries(m, n)
    BY <1>2, <2>2, EntriesStay
  <2>4. Entries(Manager', n)
    BY <2>1, <2>2, <2>3, EntriesTakenOver
  <2> QED BY <1>1, <2>1, <2>4
<1> QED BY <1>3, <1>4

\* Putting the parts together: the heap grew, and what is not of the document was typed for it.
LEMMA Together ==
  ASSUME TypeInv, HistoryInv', WellFormed(Document)', Len(heap') \in Nat, Len(heap') >= Len(heap),
         Entries(Manager', Len(heap')), queue' # None => IsEntry(queue', Len(heap')),
         merging' = merging \/ merging' = NoMerge \/ IsMerge(merging', Len(heap'))
  PROVE  TypeInv'
<1>1. Len(heap) \in Nat
  BY HeapCount
<1>2. merging' # NoMerge => IsMerge(merging', Len(heap'))
  BY <1>1 DEF TypeInv, IsMerge
<1> QED BY <1>2 DEF TypeInv

\* Committing an edit keeps the types.
LEMMA CommitTyped ==
  ASSUME TypeInv, NEW a, NEW k, NEW u, NEW r, Commit(a, k, u, r),
         IsClosure(u, Len(heap)), IsClosure(r, Len(heap)), OrdersIn(r, IdsIn(Document))
  PROVE  TypeInv'
<1> DEFINE d == Run(r, Document)
           s == State(k, u, r, Shown(d))
<1>1. Become(d) /\ EnqueueState(s) /\ merging' = merging
  BY DEF Commit
<1>2. Follows(d, Document)
  BY RunFollows, DocumentParts DEF TypeInv
<1>3. IsState(s) /\ s.undo = u /\ s.redo = r
  BY StateIsState DEF State
<1> HIDE DEF d, s
<1>4. WellFormed(Document)' /\ heap' = d.heap
  BY <1>1, <1>2, BecomesWellFormed DEF Follows
<1>5. Len(heap) \in Nat /\ Len(heap') \in Nat /\ Len(heap') >= Len(heap)
  <2>1. Len(d.heap) \in Nat
    BY <1>2 DEF Follows, WellFormed, IsHeap, IsSequence
  <2> QED BY <1>2, <1>4, <2>1, HeapCount, DocumentParts DEF Follows
<1>6. IsEntry(s, Len(heap'))
  BY <1>3, <1>5, ClosureStays DEF IsEntry
<1>7. HistoryInv' /\ Entries(Manager', Len(heap')) /\ IsEntry(queue', Len(heap'))
  BY <1>1, <1>3, <1>5, <1>6, EnqueueEntries
<1> QED BY <1>1, <1>4, <1>5, <1>7, Together

\* A closure of one command.
LEMMA OneCommand ==
  ASSUME NEW c, NEW n, IsCommand(c, n)
  PROVE  IsClosure(<<c>>, n) /\ \A there : (c.do = "reorder" => Range(c.order) \subseteq there) => OrdersIn(<<c>>, there)
<1>1. IsClosure(<<c>>, n)
  BY DEF IsClosure
<1>2. DOMAIN <<c>> = {1} /\ <<c>>[1] = c
  OBVIOUS
<1> QED BY <1>1, <1>2 DEF OrdersIn

\* A function on the first numbers is a sequence.
LEMMA FunctionIsSequence ==
  ASSUME NEW n \in Nat, NEW q, q = [i \in 1..n |-> q[i]]
  PROVE  IsSequence(q) /\ Len(q) = n /\ DOMAIN q = 1..n
<1>1. DOMAIN q = 1..n
  OBVIOUS
<1>2. \A i \in 1..n : q[i] \in Range(q)
  BY <1>1 DEF Range
<1>3. q \in [1..n -> Range(q)]
  BY <1>2
<1> QED BY <1>1, <1>3 DEF IsSequence

\* Setting a field keeps the types.
LEMMA ChangeTyped ==
  ASSUME TypeInv, NEW a, NEW k, NEW i \in DOMAIN layers, NEW f \in Fields \ {"id"}, NEW v, Change(a, k, i, f, v)
  PROVE  TypeInv'
<1> DEFINE c(w) == [do |-> "update", index |-> i, field |-> f, value |-> w]
<1>1. i \in Nat \ {0}
  BY HeapCount
<1>2. \A w : IsCommand(c(w), Len(heap)) /\ c(w).do # "reorder"
  BY <1>1 DEF IsCommand, Verbs, Indexed
<1>3. Commit(a, <<k, i>>, <<c(Field(i, f))>>, <<c(v)>>)
  BY DEF Change
<1> HIDE DEF c
<1>4. IsClosure(<<c(Field(i, f))>>, Len(heap)) /\ IsClosure(<<c(v)>>, Len(heap)) /\ OrdersIn(<<c(v)>>, IdsIn(Document))
  BY <1>2, OneCommand
<1> QED BY <1>3, <1>4, CommitTyped

\* Dragging a layer keeps the types.
LEMMA MoveTyped ==
  ASSUME TypeInv, NEW k, NEW i \in DOMAIN layers, NEW f \in Fields \ {"id"}, Move(k, i, f)
  PROVE  TypeInv'
<1> DEFINE c(w) == [do |-> "move", object |-> layers[i], field |-> f, value |-> w]
           x == Field(i, f)
           y == Field(i, f) + 1
<1>1. layers[i] \in 1..Len(heap)
  BY HeapCount
<1>2. \A w : IsCommand(c(w), Len(heap)) /\ c(w).do # "reorder"
  BY <1>1 DEF IsCommand, Verbs, Indexed
<1>3. Commit("drag", <<k, Field(i, "id")>>, <<c(x)>>, <<c(y)>>)
  BY DEF Move
<1> HIDE DEF c, x, y
<1>4. IsClosure(<<c(x)>>, Len(heap)) /\ IsClosure(<<c(y)>>, Len(heap)) /\ OrdersIn(<<c(y)>>, IdsIn(Document))
  BY <1>2, OneCommand
<1> QED BY <1>3, <1>4, CommitTyped

\* So does rotating one,
LEMMA RotateTyped == ASSUME TypeInv, NEW i \in DOMAIN layers, RotateLayer(i) PROVE TypeInv'
<1> DEFINE c(w) == [do |-> "transform", index |-> i, value |-> w]
           x == Field(i, "rotation")
           y == 1 - Field(i, "rotation")
<1>1. i \in Nat \ {0}
  BY HeapCount
<1>2. \A w : IsCommand(c(w), Len(heap)) /\ c(w).do # "reorder"
  BY <1>1 DEF IsCommand, Verbs, Indexed
<1>3. Commit("rotate", <<"rotation", i>>, <<c(x)>>, <<c(y)>>)
  BY DEF RotateLayer
<1> HIDE DEF c, x, y
<1>4. IsClosure(<<c(x)>>, Len(heap)) /\ IsClosure(<<c(y)>>, Len(heap)) /\ OrdersIn(<<c(y)>>, IdsIn(Document))
  BY <1>2, OneCommand
<1> QED BY <1>3, <1>4, CommitTyped

\* removing one,
LEMMA RemoveTyped == ASSUME TypeInv, NEW i \in DOMAIN layers, RemoveLayerAt(i) PROVE TypeInv'
<1> DEFINE c == [do |-> "remove", index |-> i]
           b == [do |-> "insert", index |-> i, object |-> layers[i]]
<1>1. i \in Nat \ {0} /\ layers[i] \in 1..Len(heap)
  BY HeapCount
<1>2. IsCommand(c, Len(heap)) /\ c.do # "reorder" /\ IsCommand(b, Len(heap))
  BY <1>1 DEF IsCommand, Verbs, Indexed
<1>3. Commit("remove", <<"layerRemove", i>>, <<b>>, <<c>>)
  BY DEF RemoveLayerAt
<1> HIDE DEF c, b
<1>4. IsClosure(<<b>>, Len(heap)) /\ IsClosure(<<c>>, Len(heap)) /\ OrdersIn(<<c>>, IdsIn(Document))
  BY <1>2, OneCommand
<1> QED BY <1>3, <1>4, CommitTyped

\* adding a text layer,
LEMMA TextTyped == ASSUME TypeInv, AddTextLayer PROVE TypeInv'
<1> DEFINE c == [do |-> "add"]
           b == [do |-> "remove", index |-> Len(layers) + 1]
<1>1. Len(layers) + 1 \in Nat \ {0}
  BY HeapCount
<1>2. IsCommand(c, Len(heap)) /\ c.do # "reorder" /\ IsCommand(b, Len(heap))
  BY <1>1 DEF IsCommand, Verbs, Indexed
<1>3. Commit("text", <<"layerAdd", Len(layers) + 1>>, <<b>>, <<c>>)
  BY DEF AddTextLayer
<1> HIDE DEF c, b
<1>4. IsClosure(<<b>>, Len(heap)) /\ IsClosure(<<c>>, Len(heap)) /\ OrdersIn(<<c>>, IdsIn(Document))
  BY <1>2, OneCommand
<1> QED BY <1>3, <1>4, CommitTyped

\* resizing the canvas,
LEMMA ResizeTyped == ASSUME TypeInv, ResizeCanvas PROVE TypeInv'
<1> DEFINE c(l, s) == [do |-> "offsets", left |-> l, size |-> s]
<1>1. \A l, s : IsCommand(c(l, s), Len(heap)) /\ c(l, s).do # "reorder"
  BY DEF IsCommand, Verbs, Indexed
<1>2. Commit("resize", <<"resizeCanvas">>, <<c(Offsets(0), size)>>, <<c(Offsets(1), size + 1)>>)
  BY DEF ResizeCanvas
<1> HIDE DEF c
<1>3. IsClosure(<<c(Offsets(0), size)>>, Len(heap)) /\ IsClosure(<<c(Offsets(1), size + 1)>>, Len(heap))
      /\ OrdersIn(<<c(Offsets(1), size + 1)>>, IdsIn(Document))
  BY <1>1, OneCommand
<1> QED BY <1>2, <1>3, CommitTyped

\* The orders of ReorderTwo are of the layers there are.
LEMMA OrdersAreThere ==
  ASSUME TypeInv, NEW i \in DOMAIN layers, i < Len(layers)
  PROVE  /\ IsSequence(Order) /\ Len(Order) = Len(layers) /\ \A n \in 1..Len(layers) : Order[n] = heap[layers[n]].id
         /\ IsSequence(Swapped(i)) /\ Len(Swapped(i)) = Len(layers)
         /\ \A n \in 1..Len(layers) : Swapped(i)[n] = Order[IF n = i THEN i + 1 ELSE IF n = i + 1 THEN i ELSE n]
         /\ Range(Swapped(i)) \subseteq IdsIn(Document)
<1> DEFINE L == Len(layers)
<1>1. L \in Nat /\ DOMAIN layers = 1..L /\ i \in 1..L /\ i + 1 \in 1..L
  BY HeapCount
<1> HIDE DEF L
<1>2. Order = [n \in 1..L |-> Order[n]] /\ \A n \in 1..L : Order[n] = heap[layers[n]].id
  BY <1>1 DEF Order, Field
<1>3. /\ Swapped(i) = [n \in 1..L |-> Swapped(i)[n]]
      /\ \A n \in 1..L : Swapped(i)[n] = Order[IF n = i THEN i + 1 ELSE IF n = i + 1 THEN i ELSE n]
  BY <1>1 DEF Swapped
<1>4. \A n \in 1..L : Order[n] \in IdsIn(Document)
  BY <1>1, <1>2, DocumentParts DEF IdsIn, Range
<1>5. IsSequence(Order) /\ Len(Order) = L /\ IsSequence(Swapped(i)) /\ Len(Swapped(i)) = L /\ DOMAIN Swapped(i) = 1..L
  BY <1>1, <1>2, <1>3, FunctionIsSequence
<1>6. \A n \in 1..L : Swapped(i)[n] \in IdsIn(Document)
  <2> TAKE n \in 1..L
  <2> DEFINE j == IF n = i THEN i + 1 ELSE IF n = i + 1 THEN i ELSE n
  <2>1. j \in 1..L
    BY <1>1
  <2> QED BY <1>3, <1>4, <2>1
<1>7. Range(Swapped(i)) \subseteq IdsIn(Document)
  BY <1>5, <1>6 DEF Range
<1> QED BY <1>2, <1>3, <1>5, <1>7 DEF L

\* and putting two in another order.
LEMMA ReorderTyped == ASSUME TypeInv, NEW i \in DOMAIN layers, ReorderTwo(i) PROVE TypeInv'
<1> DEFINE c(o) == [do |-> "reorder", order |-> o]
           x == Order
           y == Swapped(i)
<1>1. Commit("reorder", <<"reorderLayers", y>>, <<c(x)>>, <<c(y)>>) /\ i < Len(layers)
  BY DEF ReorderTwo
<1>2. IsSequence(x) /\ IsSequence(y) /\ Range(y) \subseteq IdsIn(Document)
  BY <1>1, OrdersAreThere
<1> HIDE DEF x, y
<1>3. IsCommand(c(x), Len(heap)) /\ IsCommand(c(y), Len(heap)) /\ c(y).order = y
  BY <1>2 DEF IsCommand, Verbs, Indexed
<1> HIDE DEF c
<1>4. IsClosure(<<c(x)>>, Len(heap)) /\ IsClosure(<<c(y)>>, Len(heap)) /\ OrdersIn(<<c(y)>>, IdsIn(Document))
  BY <1>2, <1>3, OneCommand
<1> QED BY <1>1, <1>4, CommitTyped

\* A document with a layer made for it, that is not yet among its layers.
Made(d, layer, n, strokes) == [d EXCEPT !.heap = Append(@, layer), !.ids = n, !.bitmap[n] = strokes]

\* It has one object more, that no layer shows.
LEMMA MakeIs ==
  ASSUME NEW d, WellFormed(d), NEW layer, IsLayer(layer), NEW n, n = d.ids + 1, layer.id = n, NEW strokes
  PROVE  LET e == Made(d, layer, n, strokes)
         IN  /\ WellFormed(e) /\ Appended(e.heap, d.heap, layer)
             /\ e.layers = d.layers /\ e.ids = n /\ e.size = d.size /\ e.loading = d.loading /\ e.urls = d.urls
             /\ e.bitmap = [d.bitmap EXCEPT ![n] = strokes]
<1> DEFINE h == Append(d.heap, layer)
           m == [d.bitmap EXCEPT ![n] = strokes]
           a == [d EXCEPT !.heap = h]
           b == [a EXCEPT !.ids = n]
           c == [b EXCEPT !.bitmap = m]
           e == Made(d, layer, n, strokes)
           S == 1..Len(d.heap)
           T == 1..Len(h)
<1>1. IsDocument(d) /\ IsHeap(d.heap, d.ids) /\ d.ids \in Nat
  BY DEF WellFormed
<1>2. d.layers \in Seq(S)
  BY DEF WellFormed
<1>3. e = c
  BY DEF Made
<1>4. layer.id \in 1..n /\ n \in Nat /\ n >= d.ids
  BY <1>1
<1> HIDE DEF e, m
<1>5. IsHeap(h, n) /\ Appended(h, d.heap, layer)
  BY <1>1, <1>4, HeapGrows
<1>6. Len(h) = Len(d.heap) + 1 /\ Len(d.heap) \in Nat
  BY <1>5 DEF Appended
<1> HIDE DEF h
<1>7. S \subseteq T
  BY <1>6
<1> HIDE DEF S, T
<1>8. d.layers \in Seq(T)
  BY <1>2, <1>7, SeqMonotonic
<1>9. IsDocument(a) /\ a.heap = h /\ a.ids = d.ids /\ a.layers = d.layers /\ a.bitmap = d.bitmap /\ a.size = d.size
      /\ a.loading = d.loading /\ a.urls = d.urls
  BY <1>1, WithHeap
<1> HIDE DEF a
<1>10. IsDocument(b) /\ b.heap = h /\ b.ids = n /\ b.layers = d.layers /\ b.bitmap = d.bitmap /\ b.size = d.size
      /\ b.loading = d.loading /\ b.urls = d.urls
  BY <1>9, WithIds
<1> HIDE DEF b
<1>11. IsDocument(e) /\ e.heap = h /\ e.ids = n /\ e.layers = d.layers /\ e.bitmap = m /\ e.size = d.size
      /\ e.loading = d.loading /\ e.urls = d.urls
  BY <1>3, <1>10, WithBitmap
<1>12. WellFormed(e)
  <2>1. e.layers \in Seq(1..Len(e.heap))
    BY <1>8, <1>11 DEF T
  <2> QED BY <1>4, <1>5, <1>11, <2>1 DEF WellFormed
<1> QED BY <1>5, <1>6, <1>11, <1>12 DEF e, m

\* Making a layer and inserting it keeps the types,
LEMMA InsertTyped ==
  ASSUME TypeInv, NEW a, NEW k, NEW i \in Nat \ {0}, NEW layer, IsLayer(layer), layer.id = ids + 1, NEW strokes,
         Insert(a, k, i, layer, strokes)
  PROVE  TypeInv'
<1> DEFINE o == Len(heap) + 1
           n == layer.id
           e == Made(Document, layer, n, strokes)
           d == InsertLayerAtIndex(e, i, o)
           b == [do |-> "remove", index |-> i]
           c == [do |-> "insert", index |-> i, object |-> o]
           s == State(<<k, i>>, <<b>>, <<c>>, Shown(d))
<1>1. Become(d) /\ EnqueueState(s) /\ merging' = merging
  BY DEF Insert, Made
<1>2. WellFormed(Document) /\ Document.ids = ids /\ Document.heap = heap /\ n = Document.ids + 1
  BY DocumentParts DEF TypeInv
<1>3. o \in Nat \ {0}
  BY HeapCount
<1>4. IsCommand(b, o) /\ IsCommand(c, o)
  BY <1>3 DEF IsCommand, Verbs, Indexed
<1>5. IsState(s) /\ s.undo = <<b>> /\ s.redo = <<c>>
  BY StateIsState DEF State
<1> HIDE DEF s, b, c
<1>6. IsEntry(s, o)
  BY <1>4, <1>5, OneCommand DEF IsEntry
<1>n. layer.id = n
  OBVIOUS
<1> HIDE DEF n
<1>7. WellFormed(e) /\ Len(e.heap) = o
  <2>1. WellFormed(e) /\ Appended(e.heap, Document.heap, layer)
    BY <1>2, <1>n, MakeIs
  <2> QED BY <1>2, <2>1 DEF Appended
<1> HIDE DEF e
<1>8. WellFormed(d) /\ Len(d.heap) = o
  <2>1. o \in 1..Len(e.heap)
    BY <1>3, <1>7
  <2>2. /\ IsDocument(d) /\ d.heap = e.heap /\ d.ids = e.ids /\ d.layers \in Seq(1..Len(e.heap))
    BY <1>7, <2>1, InsertIs
  <2> QED BY <1>7, <2>2 DEF WellFormed
<1> HIDE DEF d
<1>9. WellFormed(Document)' /\ heap' = d.heap
  BY <1>1, <1>8, BecomesWellFormed
<1>10. o >= Len(heap) /\ o \in Nat
  BY HeapCount
<1>11. HistoryInv' /\ Entries(Manager', o) /\ IsEntry(queue', o)
  BY <1>1, <1>5, <1>6, <1>10, EnqueueEntries
<1>12. Len(heap') = o
  BY <1>8, <1>9
<1> HIDE DEF o
<1> QED BY <1>1, <1>9, <1>10, <1>11, <1>12, Together

\* be it empty, or a copy of another.
LEMMA AddTyped == ASSUME TypeInv, NEW i \in DOMAIN layers, AddNewLayer(i) \/ DuplicateLayer(i) PROVE TypeInv'
<1>1. i \in Nat \ {0} /\ i + 1 \in Nat \ {0}
  BY HeapCount
<1>2. CASE AddNewLayer(i)
  <2>1. IsLayer(NewLayer(ids + 1)) /\ NewLayer(ids + 1).id = ids + 1
    BY NewLayerIsLayer
  <2> QED BY <1>1, <1>2, <2>1, InsertTyped DEF AddNewLayer
<1>3. CASE DuplicateLayer(i)
  <2> DEFINE old == heap[layers[i]]
             a == [old EXCEPT !.id = ids + 1]
             b == [a EXCEPT !.name = 4]
             layer == [old EXCEPT !.id = ids + 1, !.name = 4]
  <2>1. layer = b
    OBVIOUS
  <2>2. layers[i] \in 1..Len(heap) /\ IsLayer(old)
    BY HeapCount DEF IsHeap
  <2>3. "id" \in Fields /\ "name" \in Fields /\ "id" \in Fields \ {"name"}
    BY DEF Fields
  <2>4. Insert("duplicate", "duplicate", i + 1, layer, bitmap[Field(i, "id")])
    BY <1>3 DEF DuplicateLayer
  <2> HIDE DEF old, layer
  <2>5. IsLayer(a) /\ a["id"] = ids + 1
    <3> DEFINE v == ids + 1
               f == "id"
    <3>1. a = [old EXCEPT ![f] = v]
      OBVIOUS
    <3>2. f \in Fields
      BY <2>3
    <3> HIDE DEF v, f, a
    <3>3. IsLayer(a) /\ a[f] = v
      BY <2>2, <3>1, <3>2, FieldSet
    <3> QED BY <3>3 DEF v, f
  <2> HIDE DEF a
  <2>6. IsLayer(b) /\ b["id"] = a["id"]
    BY <2>3, <2>5, FieldSet
  <2>7. IsLayer(layer) /\ layer.id = ids + 1
    BY <2>1, <2>5, <2>6
  <2> QED BY <1>1, <2>4, <2>7, InsertTyped
<1> QED BY <1>2, <1>3

\* Merging remembers objects that are there,
LEMMA MergeLayerDownTyped == ASSUME TypeInv, NEW i \in DOMAIN layers, MergeLayerDown(i) PROVE TypeInv'
<1>1. UNCHANGED <<document, queue, manager>> /\ i > 1
  BY DEF MergeLayerDown
<1>2. heap' = heap /\ layers' = layers /\ ids' = ids /\ queue' = queue /\ Manager' = Manager
  BY <1>1 DEF document, manager, Manager
<1>3. Len(heap) \in Nat /\ i \in 1..Len(layers) /\ layers[i] \in 1..Len(heap) /\ layers[i - 1] \in 1..Len(heap)
  <2>1. i - 1 \in 1..Len(layers)
    BY <1>1, HeapCount
  <2> QED BY <2>1, HeapCount
<1>4. IsMerge(merging', Len(heap))
  <2>1. merging'.index = i - 1 /\ merging'.below = layers[i - 1] /\ merging'.above = layers[i]
    BY DEF MergeLayerDown
  <2>2. i - 1 \in Nat \ {0}
    BY <1>1, <1>3, HeapCount
  <2> QED BY <1>3, <2>1, <2>2 DEF IsMerge
<1>5. WellFormed(Document)'
  BY <1>2, SameDocument DEF TypeInv
<1>6. HistoryInv' /\ Entries(Manager', Len(heap')) /\ (queue' # None => IsEntry(queue', Len(heap')))
  <2>1. HistoryInv'
    BY <1>1, <1>2, SameManager DEF TypeInv, HistoryInv
  <2> QED BY <1>2, <2>1 DEF TypeInv
<1>7. Len(heap') >= Len(heap) /\ Len(heap') \in Nat
  BY <1>2, <1>3
<1> QED BY <1>2, <1>4, <1>5, <1>6, <1>7, Together

\* and puts a new layer in their place.
LEMMA MergeTyped == ASSUME TypeInv, Merge PROVE TypeInv'
<1> DEFINE o == Len(heap) + 1
           n == ids + 1
           layer == [NewLayer(n) EXCEPT !.name = 5]
           m == merging
           d == Made(Document, layer, n, m.strokes)
           r == MergeCommands(m, o)
           e == Run(r, d)
           u1 == [do |-> "remove", index |-> m.index]
           u2 == [do |-> "insert", index |-> m.index, object |-> m.below]
           u3 == [do |-> "insert", index |-> m.index + 1, object |-> m.above]
           s == State(<<"merge", m.index>>, <<u1, u2, u3>>, r, Shown(e))
<1>1. Become(e) /\ EnqueueState(s) /\ merging' = NoMerge /\ merging # NoMerge
  <2>1. Document.ids = ids
    BY DocumentParts
  <2>2. d = [Document EXCEPT !.heap = Append(@, layer), !.ids = @ + 1, !.bitmap[ids + 1] = m.strokes]
    BY <2>1 DEF Made
  <2> QED BY <2>2 DEF Merge
<1>2. WellFormed(Document) /\ Document.ids = ids /\ Document.heap = heap /\ n = Document.ids + 1
  BY DocumentParts DEF TypeInv
<1>3. o \in Nat \ {0} /\ Len(heap) \in Nat /\ o >= Len(heap) /\ o \in 1..o
  BY HeapCount
<1>4. m.index \in Nat \ {0} /\ m.below \in 1..o /\ m.above \in 1..o
  BY <1>1, <1>3 DEF TypeInv, IsMerge
<1>5. IsLayer(layer) /\ layer.id = n
  <2>1. IsLayer(NewLayer(n)) /\ NewLayer(n)["id"] = n
    BY NewLayerIsLayer
  <2>2. "name" \in Fields /\ "id" \in Fields \ {"name"}
    BY DEF Fields
  <2> DEFINE p == NewLayer(n)
             v == 5
  <2> HIDE DEF p, v
  <2>3. IsLayer([p EXCEPT !["name"] = v]) /\ [p EXCEPT !["name"] = v]["id"] = p["id"]
    BY <2>1, <2>2, FieldSet DEF p
  <2> QED BY <2>1, <2>3 DEF p, v
<1>6. IsState(s) /\ s.undo = <<u1, u2, u3>> /\ s.redo = r
  BY StateIsState DEF State
<1> HIDE DEF s, e, layer, n
<1>7. WellFormed(d) /\ Len(d.heap) = o
  <2>1. WellFormed(d) /\ Appended(d.heap, Document.heap, layer)
    BY <1>2, <1>5, MakeIs
  <2> QED BY <1>2, <2>1 DEF Appended
<1> HIDE DEF d
<1>8. IsClosure(r, o) /\ OrdersIn(r, IdsIn(d))
  <2> DEFINE c1 == [do |-> "remove", index |-> m.index + 1]
             c2 == [do |-> "remove", index |-> m.index]
             c3 == [do |-> "insert", index |-> m.index, object |-> o]
  <2>1. r = <<c1, c2, c3>>
    BY DEF MergeCommands
  <2>2. IsCommand(c1, o) /\ IsCommand(c2, o) /\ IsCommand(c3, o)
    BY <1>3, <1>4 DEF IsCommand, Verbs, Indexed
  <2>3. c1.do # "reorder" /\ c2.do # "reorder" /\ c3.do # "reorder"
    OBVIOUS
  <2> HIDE DEF c1, c2, c3, r
  <2>4. DOMAIN r = 1..3 /\ r[1] = c1 /\ r[2] = c2 /\ r[3] = c3
    BY <2>1
  <2>5. OrdersIn(r, IdsIn(d))
    BY <2>3, <2>4 DEF OrdersIn
  <2> QED BY <2>1, <2>2, <2>3, <2>5, Zenon DEF IsClosure
<1>9. IsClosure(<<u1, u2, u3>>, o)
  <2>1. IsCommand(u1, o) /\ IsCommand(u2, o) /\ IsCommand(u3, o)
    BY <1>3, <1>4 DEF IsCommand, Verbs, Indexed
  <2>2. u1.do # "reorder" /\ u2.do # "reorder" /\ u3.do # "reorder"
    OBVIOUS
  <2> HIDE DEF u1, u2, u3
  <2> QED BY <2>1, <2>2, Zenon DEF IsClosure
<1> HIDE DEF r, u1, u2, u3
<1>10. IsEntry(s, o)
  BY <1>6, <1>8, <1>9 DEF IsEntry
<1>11. Follows(e, d)
  BY <1>7, <1>8, RunFollows DEF e
<1>12. WellFormed(Document)' /\ heap' = e.heap
  BY <1>1, <1>11, BecomesWellFormed DEF Follows
<1>13. Len(heap') \in Nat /\ Len(heap') >= o
  <2>1. Len(e.heap) \in Nat
    BY <1>11 DEF Follows, WellFormed, IsHeap, IsSequence
  <2> QED BY <1>7, <1>11, <1>12, <2>1 DEF Follows
<1>14. HistoryInv' /\ Entries(Manager', o) /\ IsEntry(queue', o)
  BY <1>1, <1>3, <1>6, <1>10, EnqueueEntries
<1>15. Entries(Manager', Len(heap')) /\ IsEntry(queue', Len(heap'))
  BY <1>3, <1>13, <1>14, EntriesStay, EntryStays
<1>16. Len(heap') >= Len(heap)
  BY <1>3, <1>13
<1> HIDE DEF o
<1> QED BY <1>1, <1>12, <1>13, <1>14, <1>15, <1>16, Together

\* When the document keeps its objects and the manager is one with the same entries, or more.
LEMMA ManagerTyped ==
  ASSUME TypeInv, NEW m, Orderly(m), Entries(m, Len(heap)), BecomeManager(m), queue' = None,
         merging' = merging, heap' = heap, layers' = layers, ids' = ids
  PROVE  TypeInv'
<1>1. Orderly(Manager)' /\ Entries(Manager', Len(heap'))
  BY EntriesTakenOver
<1>2. HistoryInv'
  BY <1>1 DEF HistoryInv
<1>3. WellFormed(Document)'
  BY SameDocument DEF TypeInv
<1>4. Len(heap') \in Nat /\ Len(heap') >= Len(heap)
  BY HeapCount
<1> QED BY <1>1, <1>2, <1>3, <1>4, Together

\* When nothing of the history changes, and no object is forgotten.
LEMMA DocumentTyped ==
  ASSUME TypeInv, UNCHANGED <<manager, queue, merging>>, WellFormed(Document)', Len(heap') >= Len(heap), Len(heap') \in Nat
  PROVE  TypeInv'
<1>1. Manager' = Manager /\ queue' = queue
  BY DEF manager, Manager
<1>2. HistoryInv'
  BY <1>1, SameManager DEF TypeInv, HistoryInv
<1>3. Len(heap) \in Nat
  BY HeapCount
<1>4. Entries(Manager', Len(heap')) /\ (queue' # None => IsEntry(queue', Len(heap')))
  BY <1>1, <1>3, EntriesStay, EntryStays DEF TypeInv
<1> QED BY <1>2, <1>4, Together

\* What is taken back is an entry of the manager.
LEMMA TakenBackTyped ==
  ASSUME TypeInv, NEW m, Orderly(m), Entries(m, Len(heap)), m.at > 0, Possible(m.stack[m.at].undo),
         TakeBack(m), queue' = None, merging' = merging
  PROVE  TypeInv'
<1> DEFINE d == [Document EXCEPT !.urls = m.blobUrls]
           u == [m EXCEPT !.at = @ - 1]
           q == m.stack[m.at].undo
           e == Run(q, d)
<1>1. m.at > 0 /\ Possible(q) /\ queue' = None /\ merging' = merging /\ BecomeManager(u) /\ Become(e)
  BY DEF TakeBack
<1>2. Orderly(m) /\ Entries(m, Len(heap))
  OBVIOUS
<1>3. IsClosure(q, Len(heap))
  <2>1. m.at \in 1..Len(m.stack)
    BY <1>1, <1>2 DEF Orderly, IsStack
  <2> QED BY <1>2, <2>1 DEF Entries, IsEntry
<1> HIDE DEF q
<1>4. WellFormed(Document) /\ Document.heap = heap /\ Document.layers = layers
  BY DocumentParts DEF TypeInv
<1>5. /\ IsDocument(d) /\ d.heap = Document.heap /\ d.layers = Document.layers /\ d.ids = Document.ids
  BY <1>4, WithUrls DEF WellFormed
<1> HIDE DEF d
<1>6. WellFormed(d) /\ IdsIn(d) = {heap[o].id : o \in Range(layers)} /\ d.heap = heap
  BY <1>4, <1>5 DEF WellFormed, IdsIn
<1>7. OrdersIn(q, IdsIn(d))
  BY <1>1, <1>6 DEF Possible, OrdersIn
<1>8. Follows(e, d)
  BY <1>3, <1>6, <1>7, RunFollows
<1> HIDE DEF e
<1>9. WellFormed(Document)' /\ heap' = e.heap
  BY <1>1, <1>8, BecomesWellFormed DEF Follows
<1>10. Len(heap') \in Nat /\ Len(heap') >= Len(heap) /\ Len(heap) \in Nat
  <2>1. Len(e.heap) \in Nat
    BY <1>8 DEF Follows, WellFormed, IsHeap, IsSequence
  <2> QED BY <1>6, <1>8, <1>9, <2>1, HeapCount DEF Follows
<1>11. Orderly(u) /\ u.stack = m.stack
  BY <1>1, <1>2, OneLess
<1>12. Entries(u, Len(heap'))
  <2>1. Entries(m, Len(heap'))
    BY <1>2, <1>10, EntriesStay
  <2> QED BY <1>11, <2>1 DEF Entries
<1> HIDE DEF u
<1>13. Orderly(Manager)' /\ Entries(Manager', Len(heap'))
  BY <1>1, <1>11, <1>12, EntriesTakenOver
<1>14. HistoryInv'
  BY <1>1, <1>13 DEF HistoryInv
<1> QED BY <1>1, <1>9, <1>10, <1>13, <1>14, Together

\* Undo takes back the last entry once the queue was processed,
LEMMA UndoTyped == ASSUME TypeInv, Undo PROVE TypeInv'
<1> DEFINE m == ProcessedQueue(Manager)
<1>1. m.at > 0 /\ Possible(m.stack[m.at].undo) /\ TakeBack(m) /\ queue' = None /\ merging' = merging
  BY DEF Undo
<1>2. Orderly(m) /\ Entries(m, Len(heap))
  BY QueueEntries
<1> HIDE DEF m
<1> QED BY <1>1, <1>2, TakenBackTyped

\* and one that waited for a conversion the entry of the stroke.
LEMMA ConversionTyped == ASSUME TypeInv, NEW c, ConversionEnds(c) PROVE TypeInv'
<1> DEFINE a == ProcessedQueue(Manager)
           m == PaintStored(a, c)
<1>1. queue' = None /\ merging' = merging
  BY DEF ConversionEnds
<1>2. TakeBack(m) \/ (BecomeManager(m) /\ UNCHANGED document)
  BY DEF ConversionEnds
<1>3. Orderly(a) /\ Entries(a, Len(heap))
  BY QueueEntries
<1> HIDE DEF a
<1>4. Orderly(m) /\ Entries(m, Len(heap)) /\ m.at > 0 /\ Possible(m.stack[m.at].undo)
  BY <1>3, PaintEntries, PaintIsLast
<1> HIDE DEF m
<1>5. CASE TakeBack(m)
  BY <1>1, <1>4, <1>5, TakenBackTyped
<1>6. CASE BecomeManager(m) /\ UNCHANGED document
  <2>1. heap' = heap /\ layers' = layers /\ ids' = ids
    BY <1>6 DEF document
  <2> QED BY <1>1, <1>4, <1>6, <2>1, ManagerTyped
<1> QED BY <1>2, <1>5, <1>6

\* Redo runs the next.
LEMMA RedoTyped == ASSUME TypeInv, Redo PROVE TypeInv'
<1> DEFINE q == stack[at + 1].redo
           e == Run(q, Document)
<1>1. at < Len(stack) /\ Possible(q) /\ queue' = queue /\ stack' = stack /\ merging' = merging /\ Become(e)
  BY DEF Redo
<1>2. Orderly(Manager) /\ Entries(Manager, Len(heap)) /\ Manager.stack = stack /\ Manager.at = at
  BY DEF TypeInv, HistoryInv, Manager
<1>3. IsClosure(q, Len(heap))
  <2>1. at + 1 \in 1..Len(stack)
    BY <1>1, <1>2 DEF Orderly, IsStack
  <2> QED BY <1>2, <2>1 DEF Entries, IsEntry
<1>4. WellFormed(Document) /\ Document.heap = heap /\ Document.layers = layers
  BY DocumentParts DEF TypeInv
<1> HIDE DEF q
<1>5. OrdersIn(q, IdsIn(Document))
  BY <1>1, <1>4 DEF Possible, OrdersIn, IdsIn
<1>6. Follows(e, Document)
  BY <1>3, <1>4, <1>5, RunFollows
<1> HIDE DEF e
<1>7. WellFormed(Document)' /\ heap' = e.heap
  BY <1>1, <1>6, BecomesWellFormed DEF Follows
<1>8. Len(heap') \in Nat /\ Len(heap') >= Len(heap) /\ Len(heap) \in Nat
  <2>1. Len(e.heap) \in Nat
    BY <1>6 DEF Follows, WellFormed, IsHeap, IsSequence
  <2> QED BY <1>4, <1>6, <1>7, <2>1, HeapCount DEF Follows
<1>9. HistoryInv'
  BY NextOrderly DEF TypeInv, Next
<1>10. Entries(Manager', Len(heap')) /\ (queue' # None => IsEntry(queue', Len(heap')))
  <2>1. Entries(Manager, Len(heap')) /\ Manager'.stack = Manager.stack
    BY <1>1, <1>2, <1>8, EntriesStay DEF Manager
  <2> QED BY <1>1, <1>8, <2>1, EntryStays DEF Entries, TypeInv
<1> QED BY <1>1, <1>7, <1>8, <1>9, <1>10, Together

\* A document that has just been opened, without a history,
OpenedNow ==
  /\ heap = Opened.heap /\ layers = Opened.layers /\ ids = Start
  /\ stack = <<>> /\ queue = None /\ merging = NoMerge

\* is typed.
LEMMA OpenedTyped == OpenedNow /\ HistoryInv => TypeInv
<1> SUFFICES ASSUME OpenedNow, HistoryInv PROVE TypeInv
  OBVIOUS
<1> DEFINE New(i) == [NewLayer(i) EXCEPT !.mask = (i = 1)]
           h == [i \in 1..Start |-> New(i)]
           l == [i \in 1..Start |-> i]
<1>1. Start \in Nat
  BY HistoryAssumption
<1>2. heap = h /\ layers = l /\ ids = Start
  BY DEF OpenedNow, Opened
<1>3. \A i \in 1..Start : IsLayer(New(i)) /\ New(i).id = i
  <2> TAKE i \in 1..Start
  <2> DEFINE p == NewLayer(i)
             v == i = 1
  <2>1. IsLayer(p) /\ p["id"] = i
    BY NewLayerIsLayer
  <2>2. "mask" \in Fields /\ "id" \in Fields \ {"mask"}
    BY DEF Fields
  <2> HIDE DEF p, v
  <2>3. IsLayer([p EXCEPT !["mask"] = v]) /\ [p EXCEPT !["mask"] = v]["id"] = p["id"]
    BY <2>1, <2>2, FieldSet
  <2> QED BY <2>1, <2>3 DEF p, v
<1> HIDE DEF New
<1>4. h = [i \in 1..Start |-> h[i]] /\ \A i \in 1..Start : h[i] = New(i)
  OBVIOUS
<1> HIDE DEF h
<1>5. IsSequence(h) /\ Len(h) = Start
  BY <1>1, <1>4, FunctionIsSequence
<1>6. IsHeap(h, Start)
  <2>1. \A i \in 1..Start : h[i].id \in 1..Start
    BY <1>3, <1>4
  <2> QED BY <1>3, <1>4, <1>5, <2>1 DEF IsHeap
<1>7. l \in Seq(1..Start)
  <2> DEFINE S == 1..Start
  <2>1. l \in [1..Start -> S]
    OBVIOUS
  <2> HIDE DEF S, l
  <2> QED BY <1>1, <2>1 DEF S
<1> HIDE DEF l
<1>8. WellFormed(Document)
  <2>1. IsDocument(Document)
    BY DEF IsDocument, Document
  <2>2. Document.layers \in Seq(1..Len(Document.heap))
    BY <1>2, <1>5, <1>7, DocumentParts
  <2> QED BY <1>1, <1>2, <1>6, <2>1, <2>2, DocumentParts DEF WellFormed
<1>9. Entries(Manager, Len(heap))
  <2>1. Len(<<>>) = 0 /\ 1..0 = {}
    OBVIOUS
  <2> QED BY <2>1 DEF Entries, Manager, OpenedNow
<1> QED BY <1>8, <1>9 DEF TypeInv, OpenedNow

\* Every edit keeps the types.
LEMMA EditTyped == ASSUME TypeInv, NEW i \in DOMAIN layers, ActionAt(i) PROVE TypeInv'
<1>0. {"name", "visible", "filters", "mask", "left", "maskX"} \subseteq Fields \ {"id"}
  BY DEF Fields
<1>1. CASE RenameLayer(i) \/ ToggleLayerVisibility(i) \/ ToggleLayerFilters(i) \/ UpdateLayerFilters(i)
  BY <1>0, <1>1, ChangeTyped DEF RenameLayer, ToggleLayerVisibility, ToggleLayerFilters, UpdateLayerFilters
<1>2. CASE PasteLayerFilters(i) \/ AddMask(i) \/ RemoveMask(i)
  BY <1>0, <1>2, ChangeTyped DEF PasteLayerFilters, AddMask, RemoveMask
<1>3. CASE RotateLayer(i) \/ RemoveLayerAt(i) \/ ReorderTwo(i)
  BY <1>3, RotateTyped, RemoveTyped, ReorderTyped
<1>4. CASE AddNewLayer(i) \/ DuplicateLayer(i)
  BY <1>4, AddTyped
<1>5. CASE PositionLayer(i) \/ PositionMask(i)
  BY <1>0, <1>5, MoveTyped DEF PositionLayer, PositionMask
<1>6. CASE MergeLayerDown(i)
  BY <1>6, MergeLayerDownTyped
<1>7. CASE Paint(i)
  <2>1. heap' = heap /\ layers' = layers /\ ids' = ids /\ UNCHANGED <<manager, queue, merging>>
    BY <1>7 DEF Paint
  <2>2. WellFormed(Document)'
    BY <2>1, SameDocument DEF TypeInv
  <2> QED BY <2>1, <2>2, HeapCount, DocumentTyped
<1>8. CASE RemoveInPanel(i)
  <2> DEFINE d == RemoveLayer(Document, i)
  <2>1. Become(d) /\ UNCHANGED <<manager, queue, merging>>
    BY <1>8 DEF RemoveInPanel
  <2>2. WellFormed(Document) /\ Document.heap = heap /\ i \in 1..Len(Document.layers)
    BY HeapCount, DocumentParts DEF TypeInv
  <2>3. WellFormed(d) /\ d.heap = heap
    <3>1. IsDocument(d) /\ d.heap = Document.heap /\ d.ids = Document.ids /\ d.layers \in Seq(1..Len(Document.heap))
      BY <2>2, RemoveIs
    <3> QED BY <2>2, <3>1 DEF WellFormed
  <2> HIDE DEF d
  <2>4. WellFormed(Document)' /\ heap' = heap
    BY <2>1, <2>3, BecomesWellFormed
  <2> QED BY <2>1, <2>4, HeapCount, DocumentTyped
<1> QED BY <1>1, <1>2, <1>3, <1>4, <1>5, <1>6, <1>7, <1>8 DEF ActionAt

\* Every step keeps the types.
LEMMA NextTyped == TypeInv /\ [Next]_vars => TypeInv'
<1> SUFFICES ASSUME TypeInv, [Next]_vars PROVE TypeInv'
  OBVIOUS
<1>1. CASE \E i \in DOMAIN layers : ActionAt(i)
  BY <1>1, EditTyped
<1>2. CASE AddTextLayer \/ ResizeCanvas \/ Merge \/ Undo \/ Redo
  BY <1>2, TextTyped, ResizeTyped, MergeTyped, UndoTyped, RedoTyped
<1>3. CASE \E c \in converting : ConversionEnds(c)
  BY <1>3, ConversionTyped
<1>4. CASE QueueTimeout
  <2> DEFINE m == ProcessedQueue(Manager)
  <2>1. BecomeManager(m) /\ queue' = None /\ merging' = merging /\ heap' = heap /\ layers' = layers /\ ids' = ids
    BY <1>4 DEF QueueTimeout, document
  <2>2. Orderly(m) /\ Entries(m, Len(heap))
    BY QueueEntries
  <2> HIDE DEF m
  <2> QED BY <2>1, <2>2, ManagerTyped
<1>5. CASE (\E b \in loading : BlobLoads(b)) \/ (\E undo \in BOOLEAN : StorePaintState(undo)) \/ UNCHANGED vars
  <2>1. heap' = heap /\ layers' = layers /\ ids' = ids /\ UNCHANGED <<manager, queue, merging>>
    BY <1>5 DEF BlobLoads, StorePaintState, vars, document
  <2>2. WellFormed(Document)'
    BY <2>1, SameDocument DEF TypeInv
  <2> QED BY <2>1, <2>2, HeapCount, DocumentTyped
<1>6. CASE OpenDocument
  <2>1. HistoryInv'
    BY <1>6, NextOrderly DEF TypeInv, Next
  <2>2. heap' = Opened.heap /\ layers' = Opened.layers /\ ids' = Start
    BY <1>6 DEF OpenDocument, Become, Opened
  <2>3. OpenedNow'
    <3>1. Opened' = Opened
      BY DEF Opened, NewLayer
    <3>2. stack' = <<>> /\ queue' = None /\ merging' = NoMerge
      BY <1>6 DEF OpenDocument, AtRest
    <3> QED BY <2>2, <3>1, <3>2 DEF OpenedNow
  <2> QED BY <2>1, <2>3, OpenedTyped, PTL
<1> QED BY <1>1, <1>2, <1>3, <1>4, <1>5, <1>6 DEF Next

\* What the types say.
LEMMA TypesSay == TypeInv => TypeOK
<1> SUFFICES ASSUME TypeInv PROVE TypeOK
  OBVIOUS
<1>1. \A i \in DOMAIN layers : layers[i] \in DOMAIN heap
  <2>1. DOMAIN heap = 1..Len(heap)
    BY HeapCount DEF IsHeap, IsSequence
  <2> QED BY <2>1, HeapCount
<1>2. \A o \in DOMAIN heap : heap[o].id \in 1..ids
  <2>1. DOMAIN heap = 1..Len(heap)
    BY HeapCount DEF IsHeap, IsSequence
  <2> QED BY <2>1, HeapCount DEF IsHeap
<1>3. at \in 0..Len(stack) /\ Len(stack) <= STATES_TO_SAVE
  BY DEF TypeInv, HistoryInv, Orderly, IsStack, Manager
<1> QED BY <1>1, <1>2, <1>3 DEF TypeOK

\* The types are kept: the objects that layers refer to exist, ids are in range, and the index
\* is on the stack.
LEMMA TypesKept == Spec => []TypeOK
<1>1. Init => TypeInv
  <2> SUFFICES ASSUME Init PROVE TypeInv
    OBVIOUS
  <2>1. HistoryInv
    BY EmptyOrderly DEF Init, HistoryInv, Manager
  <2>2. OpenedNow
    BY DEF Init, OpenedNow
  <2> QED BY <2>1, <2>2, OpenedTyped
<1>2. TypeInv /\ [Next]_vars => TypeInv'
  BY NextTyped
<1>3. TypeInv => TypeOK
  BY TypesSay
<1> QED BY <1>1, <1>2, <1>3, PTL DEF Spec

-----------------------------------------------------------------------------
(***************************************************************************)
(* The document shows what the entry at the index left: Spec implies       *)
(* [](Plain(session.does) => DocumentIsAtIndex).                           *)
(*                                                                         *)
(* A closure is repeated on a document with other objects than the one it  *)
(* was made for, so nothing can be said of the documents on the way but    *)
(* what is seen of them: a View, on which every command has an Effect.     *)
(* What is inductive is a story (Story, Told): there is a view for every   *)
(* index, the entry between two leads from the one to the other and back,  *)
(* whatever objects were made since, and the view at the index is that of  *)
(* the document, or the one before what waits in the queue.  An entry that *)
(* is merged in the queue keeps its undo and takes the later redo; it      *)
(* leads on because, of closures with one key, the later one decides.      *)
(*                                                                         *)
(* The sessions are the plain ones.  Where bitmaps are restored the views  *)
(* would depend on blobs; where objects are moved or turned in place and   *)
(* others put back that a closure holds, the property is false: rename,    *)
(* rotate and remove a layer, undo and redo all, and undo once: the object *)
(* that comes back is the one of before the undo, which is turned no more. *)
(***************************************************************************)

\* What is seen of a layer when ids count, and when they do not: an added text layer gets
\* another id whenever its closure is repeated.
Face(does, o) == IF "text" \in does THEN [o EXCEPT !.id = 0] ELSE o

\* What is seen of a document.
View(does, d) ==
  [size |-> d.size, count |-> Len(d.layers), face |-> [j \in 1..Len(d.layers) |-> Face(does, d.heap[d.layers[j]])]]

IsView(v) ==
  /\ v = [size |-> v.size, count |-> v.count, face |-> v.face]
  /\ v.count \in Nat /\ v.face = [j \in 1..v.count |-> v.face[j]]

\* The mutations, on what is seen.
PutIn(v, i, x) ==
  LET k == IF i > v.count THEN v.count + 1 ELSE i
  IN  [size |-> v.size, count |-> v.count + 1,
       face |-> [j \in 1..(v.count + 1) |-> IF j < k THEN v.face[j] ELSE IF j = k THEN x ELSE v.face[j - 1]]]
TakeOut(v, i) ==
  IF i \in 1..v.count
  THEN [size |-> v.size, count |-> v.count - 1,
        face |-> [j \in 1..(v.count - 1) |-> IF j < i THEN v.face[j] ELSE v.face[j + 1]]]
  ELSE v
SetField(v, i, f, x) ==
  [size |-> v.size, count |-> v.count,
   face |-> [j \in 1..v.count |-> IF j = i THEN [v.face[j] EXCEPT ![f] = x] ELSE v.face[j]]]
InOrder(v, order) ==
  [size |-> v.size, count |-> Len(order),
   face |-> [n \in 1..Len(order) |-> CHOOSE x \in {v.face[j] : j \in 1..v.count} : x.id = order[n]]]
Moved(v, left, s) ==
  [size |-> s, count |-> v.count,
   face |-> [j \in 1..v.count |-> [v.face[j] EXCEPT !.left = left[v.face[j].id]]]]

Effect(c, v, does, h) ==
  CASE c.do = "insert" -> PutIn(v, c.index, Face(does, h[c.object]))
    [] c.do = "remove" -> TakeOut(v, c.index)
    [] c.do = "add" -> PutIn(v, v.count + 1, Face(does, NewLayer(0)))
    [] c.do = "update" -> SetField(v, c.index, c.field, c.value)
    [] c.do = "transform" -> SetField(v, c.index, "rotation", c.value)
    [] c.do = "reorder" -> InOrder(v, c.order)
    [] c.do = "offsets" -> Moved(v, c.left, c.size)

\* Views are equal when what is seen at every index is.
LEMMA SameView ==
  ASSUME NEW v, NEW w, IsView(v), IsView(w), v.size = w.size, v.count = w.count,
         \A j \in 1..v.count : v.face[j] = w.face[j]
  PROVE  v = w
BY DEF IsView

\* What is seen of a document is a view.
LEMMA ViewIsView ==
  ASSUME NEW does, NEW d, WellFormed(d)
  PROVE  /\ IsView(View(does, d)) /\ View(does, d).size = d.size /\ View(does, d).count = Len(d.layers)
         /\ \A j \in 1..Len(d.layers) : View(does, d).face[j] = Face(does, d.heap[d.layers[j]])
<1>1. Len(d.layers) \in Nat
  BY DEF WellFormed
<1> QED BY <1>1 DEF IsView, View

\* The mutations make views of views.
LEMMA MutationsOfViews ==
  ASSUME NEW v, IsView(v)
  PROVE  /\ \A i \in Nat \ {0} : \A x : IsView(PutIn(v, i, x))
         /\ \A i : IsView(TakeOut(v, i))
         /\ \A i, f, x : IsView(SetField(v, i, f, x))
         /\ \A order : Len(order) \in Nat => IsView(InOrder(v, order))
         /\ \A left, s : IsView(Moved(v, left, s))
<1>1. v.count \in Nat
  BY DEF IsView
<1>2. \A i \in Nat \ {0} : \A x : IsView(PutIn(v, i, x))
  BY <1>1 DEF PutIn, IsView
<1>3. \A i : IsView(TakeOut(v, i))
  <2> TAKE i
  <2>1. CASE i \in 1..v.count
    <3>1. v.count - 1 \in Nat
      BY <1>1, <2>1
    <3> QED BY <2>1, <3>1 DEF TakeOut, IsView
  <2>2. CASE i \notin 1..v.count
    BY <2>2 DEF TakeOut
  <2> QED BY <2>1, <2>2
<1>4. \A i, f, x : IsView(SetField(v, i, f, x))
  BY <1>1 DEF SetField, IsView
<1>5. \A order : Len(order) \in Nat => IsView(InOrder(v, order))
  <2> TAKE order
  <2> HAVE Len(order) \in Nat
  <2> DEFINE G(n) == CHOOSE x \in {v.face[j] : j \in 1..v.count} : x.id = order[n]
             w == InOrder(v, order)
  <2>1. w = [size |-> v.size, count |-> Len(order), face |-> [n \in 1..Len(order) |-> G(n)]]
    BY DEF InOrder
  <2> HIDE DEF G, w
  <2>2. IsView(w)
    BY <2>1 DEF IsView
  <2> QED BY <2>2 DEF w
<1>6. \A left, s : IsView(Moved(v, left, s))
  BY <1>1 DEF Moved, IsView
<1> QED BY <1>2, <1>3, <1>4, <1>5, <1>6

\* What is seen after a layer was inserted,
LEMMA InsertSeen ==
  ASSUME NEW does, NEW d, WellFormed(d), NEW i \in Nat \ {0}, NEW o \in 1..Len(d.heap)
  PROVE  View(does, InsertLayerAtIndex(d, i, o)) = PutIn(View(does, d), i, Face(does, d.heap[o]))
<1> DEFINE e == InsertLayerAtIndex(d, i, o)
           n == Len(d.layers)
           k == IF i > n THEN n + 1 ELSE i
           v == View(does, d)
           w == PutIn(v, i, Face(does, d.heap[o]))
           F(r) == Face(does, d.heap[r])
<1>1. e.heap = d.heap /\ e.size = d.size /\ k \in 1..(n + 1) /\ InsertedAt(e.layers, d.layers, k, o)
  BY InsertIs
<1> HIDE DEF e
<1>2. n \in Nat /\ Len(e.layers) = n + 1
  BY <1>1 DEF InsertedAt
<1>3. \A j \in 1..(n + 1) : e.layers[j] = IF j < k THEN d.layers[j] ELSE IF j = k THEN o ELSE d.layers[j - 1]
  BY <1>1 DEF InsertedAt
<1>4. v.count = n /\ v.size = d.size /\ \A j \in 1..n : v.face[j] = F(d.layers[j])
  BY ViewIsView
<1>5. /\ w.size = v.size /\ w.count = n + 1
      /\ \A j \in 1..(n + 1) : w.face[j] = IF j < k THEN v.face[j] ELSE IF j = k THEN F(o) ELSE v.face[j - 1]
  BY <1>4 DEF PutIn
<1>6. IsView(w)
  BY ViewIsView, MutationsOfViews
<1> HIDE DEF v, w
<1> DEFINE u == View(does, e)
<1>7. u.size = d.size /\ u.count = n + 1 /\ \A j \in 1..(n + 1) : u.face[j] = F(e.layers[j])
  BY <1>1, <1>2 DEF View
<1>8. IsView(u)
  BY <1>2 DEF View, IsView
<1> HIDE DEF u, F
<1>9. \A j \in 1..(n + 1) : u.face[j] = w.face[j]
  <2> TAKE j \in 1..(n + 1)
  <2>1. u.face[j] = F(e.layers[j])
    BY <1>7
  <2>2. CASE j < k
    <3>1. j \in 1..n
      BY <1>1, <1>2, <2>2
    <3> QED BY <1>3, <1>4, <1>5, <2>1, <2>2, <3>1
  <2>3. CASE j = k
    BY <1>3, <1>5, <2>1, <2>3
  <2>4. CASE j > k
    <3>1. j - 1 \in 1..n /\ ~(j < k) /\ j # k
      BY <1>1, <1>2, <2>4
    <3>2. e.layers[j] = d.layers[j - 1] /\ w.face[j] = v.face[j - 1]
      BY <1>3, <1>5, <3>1
    <3> QED BY <1>4, <2>1, <3>1, <3>2
  <2> QED BY <1>1, <1>2, <2>2, <2>3, <2>4
<1> QED BY <1>4, <1>5, <1>6, <1>7, <1>8, <1>9, SameView DEF u, e, w, v

\* and after one was removed.
LEMMA RemoveSeen ==
  ASSUME NEW does, NEW d, WellFormed(d), NEW i
  PROVE  View(does, RemoveLayer(d, i)) = TakeOut(View(does, d), i)
<1> DEFINE e == RemoveLayer(d, i)
           n == Len(d.layers)
           v == View(does, d)
           w == TakeOut(v, i)
           F(r) == Face(does, d.heap[r])
<1>1. n \in Nat
  BY DEF WellFormed
<1>2. v.count = n /\ v.size = d.size /\ \A j \in 1..n : v.face[j] = F(d.layers[j])
  BY ViewIsView
<1>3. CASE i \in 1..n
  <2>1. e.heap = d.heap /\ e.size = d.size /\ RemovedAt(e.layers, d.layers, i)
    BY <1>3, RemoveIs
  <2> HIDE DEF e
  <2>2. Len(e.layers) = n - 1 /\ n - 1 \in Nat
    BY <1>1, <1>3, <2>1 DEF RemovedAt
  <2>3. \A j \in 1..(n - 1) : e.layers[j] = IF j < i THEN d.layers[j] ELSE d.layers[j + 1]
    BY <2>1 DEF RemovedAt
  <2>4. /\ w.size = v.size /\ w.count = n - 1
        /\ \A j \in 1..(n - 1) : w.face[j] = IF j < i THEN v.face[j] ELSE v.face[j + 1]
    BY <1>2, <1>3 DEF TakeOut
  <2>5. IsView(w)
    BY ViewIsView, MutationsOfViews
  <2> HIDE DEF v, w
  <2> DEFINE u == View(does, e)
  <2>6. u.size = d.size /\ u.count = n - 1 /\ \A j \in 1..(n - 1) : u.face[j] = F(e.layers[j])
    BY <2>1, <2>2 DEF View
  <2>7. IsView(u)
    BY <2>2 DEF View, IsView
  <2> HIDE DEF u, F
  <2>8. \A j \in 1..(n - 1) : u.face[j] = w.face[j]
    <3> TAKE j \in 1..(n - 1)
    <3>1. j \in 1..n /\ j + 1 \in 1..n
      BY <1>1
    <3> QED BY <1>2, <2>3, <2>4, <2>6, <3>1
  <2> QED BY <1>2, <2>4, <2>5, <2>6, <2>7, <2>8, SameView DEF u, e, w, v
<1>4. CASE i \notin 1..n
  <2>1. e = d
    BY <1>4, RemoveNothing
  <2> QED BY <1>2, <1>4, <2>1 DEF TakeOut
<1> QED BY <1>3, <1>4

\* Setting a field is seen as such.
LEMMA FaceSet ==
  ASSUME NEW does, NEW o, IsLayer(o)
  PROVE  /\ IsLayer(Face(does, o)) /\ \A g \in Fields \ {"id"} : Face(does, o)[g] = o[g]
         /\ \A f \in Fields \ {"id"} : \A x : Face(does, [o EXCEPT ![f] = x]) = [Face(does, o) EXCEPT ![f] = x]
<1>1. CASE "text" \notin does
  BY <1>1 DEF Face
<1>2. CASE "text" \in does
  <2> DEFINE p == [o EXCEPT !.id = 0]
             z == 0
             idf == "id"
             G(y) == [y EXCEPT !.id = 0]
  <2>1. Face(does, o) = p /\ \A y : Face(does, y) = G(y)
    BY <1>2 DEF Face
  <2>2. p = [o EXCEPT ![idf] = z] /\ idf \in Fields
    BY DEF Fields
  <2> HIDE DEF p, z, idf
  <2> DEFINE q == [o EXCEPT ![idf] = z]
  <2>q. IsLayer(q) /\ q[idf] = z /\ \A g \in Fields \ {idf} : q[g] = o[g]
    <3>1. idf \in Fields /\ IsLayer(o) /\ DOMAIN o = Fields
      BY <2>2 DEF IsLayer
    <3>2. IsLayer(q)
      BY <3>1, FieldSet
    <3>3. q[idf] = z
      BY <3>1
    <3>4. \A g \in Fields \ {idf} : q[g] = o[g]
      BY <3>1, FieldSet
    <3> QED BY <3>2, <3>3, <3>4
  <2> HIDE DEF q
  <2>3. IsLayer(p) /\ p[idf] = z /\ \A g \in Fields \ {idf} : p[g] = o[g]
    BY <2>2, <2>q DEF q
  <2>4. ASSUME NEW f \in Fields \ {"id"}, NEW x
        PROVE  G([o EXCEPT ![f] = x]) = [p EXCEPT ![f] = x]
    <3> DEFINE a == [o EXCEPT ![f] = x]
               b == [a EXCEPT ![idf] = z]
               c == [p EXCEPT ![f] = x]
    <3>1. IsLayer(a) /\ a[f] = x /\ \A g \in Fields \ {f} : a[g] = o[g]
      BY FieldSet
    <3>2. IsLayer(c) /\ c[f] = x /\ \A g \in Fields \ {f} : c[g] = p[g]
      BY <2>3, FieldSet
    <3> HIDE DEF a, c
    <3>3. IsLayer(b) /\ b[idf] = z /\ \A g \in Fields \ {idf} : b[g] = a[g]
      BY <2>2, <3>1, FieldSet
    <3> HIDE DEF b
    <3>5. f # idf
      BY DEF idf
    <3>6. \A g \in Fields : b[g] = c[g]
      BY <2>3, <3>1, <3>2, <3>3, <3>5
    <3>7. b = c
      BY <3>2, <3>3, <3>6 DEF IsLayer
    <3> QED BY <3>7 DEF a, b, c, z, idf
  <2> HIDE DEF G
  <2>5. \A f \in Fields \ {"id"} : \A x : Face(does, [o EXCEPT ![f] = x]) = [p EXCEPT ![f] = x]
    BY <2>1, <2>4, Zenon
  <2>6. IsLayer(Face(does, o)) /\ \A g \in Fields \ {"id"} : Face(does, o)[g] = o[g]
    BY <2>1, <2>3 DEF idf
  <2> QED BY <2>1, <2>5, <2>6, Zenon
<1> QED BY <1>1, <1>2

\* A layer made for a closure looks the same every time, when ids do not count.
LEMMA NewFace == ASSUME NEW does, "text" \in does PROVE \A n : Face(does, NewLayer(n)) = Face(does, NewLayer(0))
<1> TAKE n
<1> DEFINE idf == "id"
           z == 0
           a == NewLayer(n)
           b == NewLayer(0)
           c == [a EXCEPT ![idf] = z]
           d == [b EXCEPT ![idf] = z]
<1>1. IsLayer(a) /\ IsLayer(b) /\ idf \in Fields
  BY NewLayerIsLayer DEF Fields
<1>2. \A g \in Fields \ {idf} : a[g] = b[g]
  <2>1. /\ a.name = b.name /\ a.visible = b.visible /\ a.filters = b.filters /\ a.mask = b.mask
        /\ a.maskX = b.maskX /\ a.rotation = b.rotation /\ a.left = b.left
    BY DEF NewLayer
  <2> HIDE DEF a, b
  <2> QED BY <2>1 DEF Fields
<1>3. Face(does, a) = c /\ Face(does, b) = d
  BY DEF Face
<1> HIDE DEF a, b, idf, z
<1>4. IsLayer(c) /\ c[idf] = z /\ \A g \in Fields \ {idf} : c[g] = a[g]
  BY <1>1, FieldSet
<1>5. IsLayer(d) /\ d[idf] = z /\ \A g \in Fields \ {idf} : d[g] = b[g]
  BY <1>1, FieldSet
<1> HIDE DEF c, d
<1>6. \A g \in Fields : c[g] = d[g]
  BY <1>2, <1>4, <1>5
<1>7. c = d
  BY <1>4, <1>5, <1>6 DEF IsLayer
<1> QED BY <1>3, <1>7 DEF a, b

\* No object is in the document twice.
RefsDistinct(d) == \A j, k \in 1..Len(d.layers) : d.layers[j] = d.layers[k] => j = k

\* What is seen after a text layer was appended.
LEMMA AddSeen ==
  ASSUME NEW does, "text" \in does, NEW d, WellFormed(d)
  PROVE  View(does, AddLayer(d)) = PutIn(View(does, d), View(does, d).count + 1, Face(does, NewLayer(0)))
<1> DEFINE e == AddLayer(d)
           n == Len(d.layers)
           v == View(does, d)
           x == Face(does, NewLayer(0))
           w == PutIn(v, v.count + 1, x)
           F(o) == Face(does, o)
<1>1. /\ e.size = d.size /\ Appended(e.heap, d.heap, NewLayer(d.ids + 1))
      /\ e.layers = Append(d.layers, Len(d.heap) + 1)
  BY AddIs
<1> HIDE DEF e
<1>2. n \in Nat /\ Len(e.layers) = n + 1 /\ e.layers[n + 1] = Len(d.heap) + 1 /\ \A j \in 1..n : e.layers[j] = d.layers[j]
  <2> DEFINE S == 1..(Len(d.heap) + 1)
             T == 1..Len(d.heap)
  <2>1. Len(d.heap) \in Nat
    BY <1>1 DEF Appended
  <2>2. d.layers \in Seq(T) /\ T \subseteq S /\ Len(d.heap) + 1 \in S
    BY <2>1 DEF WellFormed
  <2> HIDE DEF S, T
  <2>3. d.layers \in Seq(S)
    BY <2>2, SeqMonotonic
  <2> QED BY <1>1, <2>2, <2>3
<1>3. v.count = n /\ v.size = d.size /\ \A j \in 1..n : v.face[j] = F(d.heap[d.layers[j]])
  BY ViewIsView
<1>x. x = Face(does, NewLayer(0))
  OBVIOUS
<1> HIDE DEF x
<1>5. IsView(w)
  <2>1. IsView(v) /\ v.count + 1 \in Nat \ {0}
    BY <1>2, <1>3, ViewIsView
  <2> QED BY <2>1, MutationsOfViews
<1> HIDE DEF v
<1>4. w.size = v.size /\ w.count = n + 1 /\ w.face[n + 1] = x /\ \A j \in 1..n : w.face[j] = v.face[j]
  BY <1>2, <1>3 DEF PutIn
<1> HIDE DEF w
<1> DEFINE u == View(does, e)
<1>6. u.size = d.size /\ u.count = n + 1 /\ \A j \in 1..(n + 1) : u.face[j] = F(e.heap[e.layers[j]])
  BY <1>1, <1>2 DEF View
<1>7. IsView(u)
  <2>1. Len(e.layers) \in Nat
    BY <1>2
  <2> QED BY <2>1 DEF View, IsView
<1> HIDE DEF u
<1>8. u.face[n + 1] = x
  <2>1. n + 1 \in 1..(n + 1)
    BY <1>2
  <2>2. u.face[n + 1] = F(NewLayer(d.ids + 1))
    BY <1>1, <1>2, <1>6, <2>1 DEF Appended
  <2> QED BY <2>2, NewFace DEF x
<1>9. \A j \in 1..n : u.face[j] = v.face[j]
  <2> TAKE j \in 1..n
  <2>1. d.layers[j] \in 1..Len(d.heap) /\ j \in 1..(n + 1)
    BY <1>2 DEF WellFormed
  <2>2. e.heap[d.layers[j]] = d.heap[d.layers[j]]
    BY <1>1, <2>1 DEF Appended
  <2> QED BY <1>2, <1>3, <1>6, <2>1, <2>2
<1>10. \A j \in 1..(n + 1) : u.face[j] = w.face[j]
  <2> TAKE j \in 1..(n + 1)
  <2>1. j = n + 1 \/ j \in 1..n
    BY <1>2
  <2> QED BY <1>4, <1>8, <1>9, <2>1
<1> QED BY <1>3, <1>4, <1>5, <1>6, <1>7, <1>10, SameView DEF u, e, w, v, x

\* What is seen after a field of a layer was set in a new object,
LEMMA UpdateSeen ==
  ASSUME NEW does, NEW d, WellFormed(d), NEW i, NEW f \in Fields \ {"id"}, NEW x
  PROVE  View(does, UpdateLayer(d, i, f, x)) = SetField(View(does, d), i, f, x)
<1> DEFINE e == UpdateLayer(d, i, f, x)
           n == Len(d.layers)
           v == View(does, d)
           w == SetField(v, i, f, x)
           F(o) == Face(does, o)
<1>1. n \in Nat /\ DOMAIN d.layers = 1..n /\ Len(d.heap) \in Nat
  BY DEF WellFormed, IsHeap, IsSequence
<1>2. v.count = n /\ v.size = d.size /\ \A j \in 1..n : v.face[j] = F(d.heap[d.layers[j]])
  BY ViewIsView
<1>3. w.size = v.size /\ w.count = n /\ \A j \in 1..n : w.face[j] = IF j = i THEN [v.face[j] EXCEPT ![f] = x] ELSE v.face[j]
  BY <1>2 DEF SetField
<1>4. IsView(v) /\ IsView(w)
  BY ViewIsView, MutationsOfViews
<1> HIDE DEF v, w
<1>5. CASE i \in 1..n
  <2> DEFINE old == d.heap[d.layers[i]]
             new == [old EXCEPT ![f] = x]
             r == [d.layers EXCEPT ![i] = Len(d.heap) + 1]
  <2>1. e.size = d.size /\ Appended(e.heap, d.heap, new) /\ e.layers = r
    BY <1>5, UpdateIs
  <2> HIDE DEF e
  <2>2. IsLayer(old)
    <3>1. d.layers[i] \in 1..Len(d.heap)
      BY <1>5 DEF WellFormed
    <3> QED BY <3>1 DEF WellFormed, IsHeap
  <2>3. Len(r) = n /\ \A j \in 1..n : r[j] = IF j = i THEN Len(d.heap) + 1 ELSE d.layers[j]
    <3>1. IsSequence(d.layers)
      BY SequenceOfItsRange DEF WellFormed, IsSequence
    <3> QED BY <3>1, ExceptIsSequence
  <2> HIDE DEF r, new, old
  <2> DEFINE u == View(does, e)
  <2>4. u.size = d.size /\ u.count = n /\ \A j \in 1..n : u.face[j] = F(e.heap[r[j]])
    BY <2>1, <2>3 DEF View
  <2>5. IsView(u)
    BY <1>1, <2>1, <2>3 DEF View, IsView
  <2> HIDE DEF u
  <2>6. \A j \in 1..n : u.face[j] = w.face[j]
    <3> TAKE j \in 1..n
    <3>1. CASE j = i
      <4>1. e.heap[r[j]] = new
        BY <2>1, <2>3, <3>1 DEF Appended
      <4>2. F(new) = [F(old) EXCEPT ![f] = x]
        BY <2>2, FaceSet DEF new
      <4>3. v.face[j] = F(old)
        BY <1>2, <3>1 DEF old
      <4> HIDE DEF F
      <4> QED BY <1>3, <2>4, <3>1, <4>1, <4>2, <4>3
    <3>2. CASE j # i
      <4>1. d.layers[j] \in 1..Len(d.heap)
        BY <1>1 DEF WellFormed
      <4>2. e.heap[r[j]] = d.heap[d.layers[j]]
        BY <2>1, <2>3, <3>2, <4>1 DEF Appended
      <4> QED BY <1>2, <1>3, <2>4, <3>2, <4>2
    <3> QED BY <3>1, <3>2
  <2> QED BY <1>2, <1>3, <1>4, <2>4, <2>5, <2>6, SameView DEF u, e, w, v
<1>6. CASE i \notin 1..n
  <2>1. e = d
    BY <1>1, <1>6 DEF UpdateLayer
  <2>2. \A j \in 1..n : v.face[j] = w.face[j]
    BY <1>3, <1>6
  <2>3. v = w
    BY <1>2, <1>3, <1>4, <2>2, SameView
  <2> QED BY <2>1, <2>3 DEF v, w
<1> QED BY <1>5, <1>6

\* No two layers of a view have the same id.
Distinct(v) == \A j, k \in 1..v.count : v.face[j].id = v.face[k].id => j = k

\* What is seen after a field was set in the object itself: it is in the document once.
LEMMA TransformSeen ==
  ASSUME NEW does, NEW d, WellFormed(d), RefsDistinct(d), NEW i, NEW f \in Fields \ {"id"}, NEW x
  PROVE  View(does, UpdateLayerTransform(d, i, f, x)) = SetField(View(does, d), i, f, x)
<1> DEFINE e == UpdateLayerTransform(d, i, f, x)
           n == Len(d.layers)
           v == View(does, d)
           w == SetField(v, i, f, x)
           F(o) == Face(does, o)
<1>1. n \in Nat /\ DOMAIN d.layers = 1..n
  BY DEF WellFormed
<1>2. v.count = n /\ v.size = d.size /\ \A j \in 1..n : v.face[j] = F(d.heap[d.layers[j]])
  BY ViewIsView
<1>3. w.size = v.size /\ w.count = n /\ \A j \in 1..n : w.face[j] = IF j = i THEN [v.face[j] EXCEPT ![f] = x] ELSE v.face[j]
  BY <1>2 DEF SetField
<1>4. IsView(v) /\ IsView(w)
  BY ViewIsView, MutationsOfViews
<1> HIDE DEF v, w
<1>5. CASE i \in 1..n
  <2> DEFINE o == d.layers[i]
             old == d.heap[o]
             new == [old EXCEPT ![f] = x]
  <2>1. e = MoveObject(d, o, f, x)
    BY <1>1, <1>5 DEF UpdateLayerTransform, MoveObject
  <2>2. e.size = d.size /\ e.layers = d.layers /\ ReplacedAt(e.heap, d.heap, o, new)
    BY <2>1, MoveIs
  <2> HIDE DEF e
  <2>3. o \in 1..Len(d.heap)
    BY <1>5 DEF WellFormed
  <2>4. IsLayer(old)
    BY <2>3 DEF WellFormed, IsHeap
  <2> DEFINE u == View(does, e)
  <2>5. u.size = d.size /\ u.count = n /\ \A j \in 1..n : u.face[j] = F(e.heap[d.layers[j]])
    BY <2>2 DEF View
  <2>6. IsView(u)
    BY <1>1, <2>2 DEF View, IsView
  <2> HIDE DEF u, new, old, o
  <2>7. \A j \in 1..n : u.face[j] = w.face[j]
    <3> TAKE j \in 1..n
    <3>1. d.layers[j] \in 1..Len(d.heap)
      BY <1>1 DEF WellFormed
    <3>2. e.heap[d.layers[j]] = IF d.layers[j] = o THEN new ELSE d.heap[d.layers[j]]
      BY <2>2, <3>1 DEF ReplacedAt
    <3>3. CASE j = i
      <4>1. e.heap[d.layers[j]] = new
        BY <3>2, <3>3 DEF o
      <4>2. F(new) = [F(old) EXCEPT ![f] = x]
        BY <2>4, FaceSet DEF new
      <4>3. v.face[j] = F(old)
        BY <1>2, <3>3 DEF old, o
      <4> HIDE DEF F
      <4> QED BY <1>3, <2>5, <3>3, <4>1, <4>2, <4>3
    <3>4. CASE j # i
      <4>1. d.layers[j] # o
        BY <1>5, <3>4 DEF RefsDistinct, o
      <4> QED BY <1>2, <1>3, <2>5, <3>2, <3>4, <4>1
    <3> QED BY <3>3, <3>4
  <2> QED BY <1>2, <1>3, <1>4, <2>5, <2>6, <2>7, SameView DEF u, e, w, v
<1>6. CASE i \notin 1..n
  <2>1. e = d
    BY <1>1, <1>6 DEF UpdateLayerTransform
  <2>2. \A j \in 1..n : v.face[j] = w.face[j]
    BY <1>3, <1>6
  <2>3. v = w
    BY <1>2, <1>3, <1>4, <2>2, SameView
  <2> QED BY <2>1, <2>3 DEF v, w
<1> QED BY <1>5, <1>6

\* An order puts at an index the layer with that id.
LEMMA InOrderAt ==
  ASSUME NEW v, IsView(v), Distinct(v), NEW order, NEW n \in 1..Len(order),
         NEW j \in 1..v.count, v.face[j].id = order[n]
  PROVE  InOrder(v, order).face[n] = v.face[j]
<1> DEFINE S == {v.face[k] : k \in 1..v.count}
           y == CHOOSE x \in S : x.id = order[n]
<1>1. InOrder(v, order).face[n] = y
  BY DEF InOrder
<1>2. v.face[j] \in S
  OBVIOUS
<1>3. y \in S /\ y.id = order[n]
  <2> HIDE DEF S
  <2> QED BY <1>2
<1> HIDE DEF y
<1>4. PICK k \in 1..v.count : y = v.face[k]
  BY <1>3
<1>5. k = j
  BY <1>3, <1>4 DEF Distinct
<1> QED BY <1>1, <1>4, <1>5

\* What is seen after the layers were put in an order.
LEMMA ReorderSeen ==
  ASSUME NEW does, "text" \notin does, NEW d, WellFormed(d), Distinct(View(does, d)),
         NEW order, IsSequence(order), Range(order) \subseteq IdsIn(d)
  PROVE  View(does, ReorderLayers(d, order)) = InOrder(View(does, d), order)
<1> DEFINE e == ReorderLayers(d, order)
           n == Len(d.layers)
           v == View(does, d)
           w == InOrder(v, order)
<1>1. n \in Nat /\ DOMAIN d.layers = 1..n /\ Len(order) \in Nat
  BY DEF WellFormed, IsSequence
<1>2. \A o : Face(does, o) = o
  BY DEF Face
<1>3. v.count = n /\ v.size = d.size /\ \A j \in 1..n : v.face[j] = d.heap[d.layers[j]]
  BY <1>2, ViewIsView
<1>4. /\ e.heap = d.heap /\ e.size = d.size /\ Len(e.layers) = Len(order)
      /\ \A m \in 1..Len(order) : e.layers[m] \in Range(d.layers) /\ d.heap[e.layers[m]].id = order[m]
  BY ReorderIs
<1>5. IsView(v) /\ Distinct(v)
  BY ViewIsView
<1>6. IsView(w)
  BY <1>1, <1>5, MutationsOfViews
<1>7. w.size = v.size /\ w.count = Len(order)
  BY DEF InOrder
<1> HIDE DEF v, e
<1> DEFINE u == View(does, e)
<1>8. u.size = d.size /\ u.count = Len(order) /\ \A m \in 1..Len(order) : u.face[m] = d.heap[e.layers[m]]
  BY <1>2, <1>4 DEF View
<1>9. IsView(u)
  BY <1>1, <1>4 DEF View, IsView
<1> HIDE DEF u
<1>10. \A m \in 1..Len(order) : u.face[m] = w.face[m]
  <2> TAKE m \in 1..Len(order)
  <2>1. PICK j \in 1..n : e.layers[m] = d.layers[j]
    BY <1>1, <1>4 DEF Range
  <2>2. v.face[j] = d.heap[e.layers[m]] /\ v.face[j].id = order[m]
    BY <1>3, <1>4, <2>1
  <2>3. w.face[m] = v.face[j]
    BY <1>3, <1>5, <2>2, InOrderAt
  <2> QED BY <1>8, <2>2, <2>3
<1> HIDE DEF w
<1> QED BY <1>3, <1>6, <1>7, <1>8, <1>9, <1>10, SameView DEF u, e, w, v

\* What is seen after the layers were moved and the size was set.
LEMMA OffsetsSeen ==
  ASSUME NEW does, "text" \notin does, NEW d, WellFormed(d), NEW left, NEW s
  PROVE  View(does, UpdateOffsets(d, left, s)) = Moved(View(does, d), left, s)
<1> DEFINE e == UpdateOffsets(d, left, s)
           n == Len(d.layers)
           v == View(does, d)
           w == Moved(v, left, s)
<1>1. n \in Nat /\ DOMAIN d.layers = 1..n
  BY DEF WellFormed
<1>2. \A o : Face(does, o) = o
  BY DEF Face
<1>3. v.count = n /\ v.size = d.size /\ \A j \in 1..n : v.face[j] = d.heap[d.layers[j]]
  BY <1>2, ViewIsView
<1>4. e.size = s /\ e.layers = d.layers /\ Offset(e.heap, d.heap, d.layers, left)
  BY OffsetsIs
<1>5. IsView(w)
  BY ViewIsView, MutationsOfViews
<1> HIDE DEF v, e
<1>6. w.size = s /\ w.count = n /\ \A j \in 1..n : w.face[j] = [v.face[j] EXCEPT !.left = left[v.face[j].id]]
  BY <1>3 DEF Moved
<1> HIDE DEF w
<1> DEFINE u == View(does, e)
<1>7. u.size = s /\ u.count = n /\ \A j \in 1..n : u.face[j] = e.heap[d.layers[j]]
  BY <1>2, <1>4 DEF View
<1>8. IsView(u)
  BY <1>1, <1>4 DEF View, IsView
<1> HIDE DEF u
<1>9. \A j \in 1..n : u.face[j] = w.face[j]
  <2> TAKE j \in 1..n
  <2>1. d.layers[j] \in 1..Len(d.heap) /\ d.layers[j] \in Range(d.layers)
    BY <1>1 DEF WellFormed, Range
  <2>2. e.heap[d.layers[j]] = [d.heap[d.layers[j]] EXCEPT !.left = left[d.heap[d.layers[j]].id]]
    BY <1>4, <2>1 DEF Offset
  <2> QED BY <1>3, <1>6, <1>7, <2>2
<1> QED BY <1>5, <1>6, <1>7, <1>8, <1>9, SameView DEF u, e, w, v

\* Objects never change in place: closures may hold them.
Fixed(does) == does \cap {"rotate", "resize"} = {}

\* The commands of a session that does these.
CommandOf(c, does) ==
  /\ Fixed(does) => c.do \in {"insert", "remove", "add", "update", "reorder"}
  /\ ~Fixed(does) => c.do \in {"remove", "add", "update", "transform", "reorder", "offsets"}
  /\ c.do = "add" => "text" \in does
  /\ c.do \in {"reorder", "offsets"} => "text" \notin does

Unpainted == [i \in 1..(MaxObjects + 1) |-> {}]

\* A document on which nobody painted, every id with an object of its own.
Sound(d, does) ==
  /\ WellFormed(d)
  /\ d.bitmap = Unpainted /\ d.loading = {} /\ d.ids <= Len(d.heap)
  /\ ~Fixed(does) /\ "text" \in does => RefsDistinct(d)

\* The objects h are there unchanged in k.
Keeps(k, h, does) == Fixed(does) => \A o \in 1..Len(h) : k[o] = h[o]

\* A command keeps the document sound, and adds one object at most.
LEMMA PerformSound ==
  ASSUME NEW does, NEW d, Sound(d, does), NEW c, IsCommand(c, Len(d.heap)), CommandOf(c, does),
         c.do = "reorder" => Range(c.order) \subseteq IdsIn(d)
  PROVE  LET e == Perform(d, c)
         IN  /\ Sound(e, does) /\ Keeps(e.heap, d.heap, does)
             /\ Len(d.heap) \in Nat /\ Len(e.heap) \in Len(d.heap)..(Len(d.heap) + 1)
             /\ c.do \in {"insert", "remove"} => Len(e.heap) = Len(d.heap)
<1> DEFINE e == Perform(d, c)
           n == Len(d.heap)
<1>1. WellFormed(d) /\ WellFormed(e)
  BY PerformFollows DEF Sound, Follows
<1>2. n \in Nat /\ d.ids \in Nat
  BY DEF Sound, WellFormed, IsHeap, IsSequence
<1>3. d.bitmap = Unpainted /\ d.loading = {} /\ d.ids <= n
  BY DEF Sound
<1>4. ASSUME e.bitmap = d.bitmap, e.loading = d.loading, e.ids = d.ids, e.heap = d.heap,
             ~Fixed(does) /\ "text" \in does => RefsDistinct(e)
      PROVE  Sound(e, does) /\ Keeps(e.heap, d.heap, does) /\ Len(e.heap) \in n..(n + 1) /\ Len(e.heap) = n
  BY <1>1, <1>2, <1>3, <1>4 DEF Sound, Keeps
<1>5. ASSUME NEW o, Appended(e.heap, d.heap, o)
      PROVE  Keeps(e.heap, d.heap, does) /\ Len(e.heap) = n + 1
  BY <1>5 DEF Appended, Keeps
<1>6. d.layers \in Seq(1..n) /\ Len(d.layers) \in Nat /\ \A j \in 1..Len(d.layers) : d.layers[j] \in 1..n
  BY <1>1 DEF WellFormed
<1>7. CASE c.do = "insert"
  <2>1. e = InsertLayerAtIndex(d, c.index, c.object) /\ Fixed(does)
    BY <1>7, PerformDo DEF CommandOf
  <2>2. c.index \in Nat \ {0} /\ c.object \in 1..n
    BY <1>7 DEF IsCommand, Indexed
  <2>3. e.bitmap = d.bitmap /\ e.loading = d.loading /\ e.ids = d.ids /\ e.heap = d.heap
    BY <1>1, <2>1, <2>2, InsertIs
  <2> QED BY <1>2, <1>4, <2>1, <2>3
<1>8. CASE c.do = "remove"
  <2>1. e = RemoveLayer(d, c.index)
    BY <1>8, PerformDo
  <2>2. CASE c.index \in 1..Len(d.layers)
    <3>1. /\ e.bitmap = d.bitmap /\ e.loading = d.loading /\ e.ids = d.ids /\ e.heap = d.heap
          /\ RemovedAt(e.layers, d.layers, c.index)
      BY <1>1, <2>1, <2>2, RemoveIs
    <3>2. ASSUME RefsDistinct(d) PROVE RefsDistinct(e)
      <4>1. Len(e.layers) = Len(d.layers) - 1
            /\ \A j \in 1..(Len(d.layers) - 1) : e.layers[j] = IF j < c.index THEN d.layers[j] ELSE d.layers[j + 1]
        BY <3>1 DEF RemovedAt
      <4> SUFFICES ASSUME NEW j \in 1..Len(e.layers), NEW k \in 1..Len(e.layers), e.layers[j] = e.layers[k]
                   PROVE  j = k
        BY DEF RefsDistinct
      <4> DEFINE p == IF j < c.index THEN j ELSE j + 1
                 q == IF k < c.index THEN k ELSE k + 1
      <4>2. p \in 1..Len(d.layers) /\ q \in 1..Len(d.layers)
        BY <1>6, <2>2, <4>1
      <4>3. e.layers[j] = d.layers[p] /\ e.layers[k] = d.layers[q]
        BY <1>6, <4>1
      <4>4. p = q
        <5> HIDE DEF p, q
        <5> QED BY <3>2, <4>2, <4>3 DEF RefsDistinct
      <4> QED BY <1>6, <2>2, <4>1, <4>4
    <3>3. ~Fixed(does) /\ "text" \in does => RefsDistinct(e)
      BY <3>2 DEF Sound
    <3> QED BY <1>2, <1>4, <3>1, <3>3
  <2>3. CASE c.index \notin 1..Len(d.layers)
    <3>1. e = d
      BY <1>1, <2>1, <2>3, RemoveNothing
    <3>2. ~Fixed(does) /\ "text" \in does => RefsDistinct(e)
      BY <3>1 DEF Sound
    <3> QED BY <1>2, <1>4, <3>1, <3>2
  <2> QED BY <2>2, <2>3
<1>9. CASE c.do = "add"
  <2>1. e = AddLayer(d)
    BY <1>9, PerformDo
  <2>2. /\ e.bitmap = d.bitmap /\ e.loading = d.loading /\ e.ids = d.ids + 1
        /\ Appended(e.heap, d.heap, NewLayer(d.ids + 1)) /\ e.layers = Append(d.layers, n + 1)
    BY <1>1, <2>1, AddIs
  <2>3. Keeps(e.heap, d.heap, does) /\ Len(e.heap) = n + 1
    BY <1>5, <2>2
  <2>4. ASSUME RefsDistinct(d) PROVE RefsDistinct(e)
    <3> DEFINE L == Len(d.layers)
               l == d.layers
    <3>1. Len(e.layers) = L + 1 /\ e.layers[L + 1] = n + 1 /\ \A j \in 1..L : e.layers[j] = l[j]
      <4>1. IsSequence(d.layers)
        BY <1>6, SequenceOfItsRange DEF IsSequence
      <4> QED BY <2>2, <4>1, AppendIsSequence
    <3> SUFFICES ASSUME NEW j \in 1..(L + 1), NEW k \in 1..(L + 1), e.layers[j] = e.layers[k]
                 PROVE  j = k
      BY <3>1 DEF RefsDistinct
    <3>2. CASE j \in 1..L /\ k \in 1..L
      BY <2>4, <3>1, <3>2 DEF RefsDistinct
    <3>3. CASE j = L + 1 /\ k \in 1..L
      <4>1. e.layers[j] = n + 1 /\ e.layers[k] = l[k] /\ l[k] \in 1..n
        BY <1>6, <3>1, <3>3
      <4>2. l[k] # n + 1
        BY <1>2, <4>1
      <4> QED BY <4>1, <4>2
    <3>4. CASE j \in 1..L /\ k = L + 1
      BY <1>2, <1>6, <3>1, <3>4
    <3> QED BY <1>6, <3>2, <3>3, <3>4
  <2>5. ~Fixed(does) /\ "text" \in does => RefsDistinct(e)
    BY <2>4 DEF Sound
  <2>6. e.ids <= Len(e.heap)
    BY <1>2, <1>3, <2>2, <2>3
  <2>7. Sound(e, does)
    BY <1>1, <1>3, <2>2, <2>5, <2>6 DEF Sound
  <2> QED BY <1>2, <1>9, <2>3, <2>7
<1>10. CASE c.do = "update"
  <2>1. e = UpdateLayer(d, c.index, c.field, c.value) /\ c.field \in Fields \ {"id"}
    BY <1>10, PerformDo DEF IsCommand
  <2>2. CASE c.index \in 1..Len(d.layers)
    <3> DEFINE i == c.index
               o == [d.heap[d.layers[i]] EXCEPT ![c.field] = c.value]
    <3>1. /\ e.bitmap = d.bitmap /\ e.loading = d.loading /\ e.ids = d.ids
          /\ Appended(e.heap, d.heap, o) /\ e.layers = [d.layers EXCEPT ![i] = n + 1]
      BY <1>1, <2>1, <2>2, UpdateIs
    <3>2. Keeps(e.heap, d.heap, does) /\ Len(e.heap) = n + 1
      BY <1>5, <3>1
    <3>3. ASSUME RefsDistinct(d) PROVE RefsDistinct(e)
      <4>1. Len(e.layers) = Len(d.layers) /\ \A j \in 1..Len(d.layers) : e.layers[j] = IF j = i THEN n + 1 ELSE d.layers[j]
        <5>1. IsSequence(d.layers)
          BY <1>6, SequenceOfItsRange DEF IsSequence
        <5> QED BY <3>1, <5>1, ExceptIsSequence
      <4> SUFFICES ASSUME NEW j \in 1..Len(d.layers), NEW k \in 1..Len(d.layers), e.layers[j] = e.layers[k]
                   PROVE  j = k
        BY <4>1 DEF RefsDistinct
      <4>2. d.layers[j] # n + 1 /\ d.layers[k] # n + 1
        BY <1>2, <1>6
      <4> QED BY <3>3, <4>1, <4>2 DEF RefsDistinct
    <3>4. ~Fixed(does) /\ "text" \in does => RefsDistinct(e)
      BY <3>3 DEF Sound
    <3>5. e.ids <= Len(e.heap)
      BY <1>2, <1>3, <3>1, <3>2
    <3>6. Sound(e, does)
      BY <1>1, <1>3, <3>1, <3>4, <3>5 DEF Sound
    <3> QED BY <1>2, <1>10, <3>2, <3>6
  <2>3. CASE c.index \notin 1..Len(d.layers)
    <3>1. DOMAIN d.layers = 1..Len(d.layers)
      BY <1>6
    <3>2. e = d
      BY <2>1, <2>3, <3>1 DEF UpdateLayer
    <3>3. ~Fixed(does) /\ "text" \in does => RefsDistinct(e)
      BY <3>2 DEF Sound
    <3> QED BY <1>2, <1>4, <3>2, <3>3
  <2> QED BY <2>2, <2>3
<1>11. CASE c.do = "transform"
  <2>1. e = UpdateLayerTransform(d, c.index, "rotation", c.value) /\ ~Fixed(does)
    BY <1>11, PerformDo DEF CommandOf
  <2>2. CASE c.index \in DOMAIN d.layers
    <3> DEFINE o == d.layers[c.index]
    <3>1. e = MoveObject(d, o, "rotation", c.value) /\ "rotation" \in Fields \ {"id"}
      BY <2>1, <2>2 DEF UpdateLayerTransform, MoveObject, Fields
    <3>2. /\ e.bitmap = d.bitmap /\ e.loading = d.loading /\ e.ids = d.ids /\ e.layers = d.layers
          /\ ReplacedAt(e.heap, d.heap, o, [d.heap[o] EXCEPT !["rotation"] = c.value])
      BY <1>1, <3>1, MoveIs
    <3>3. Len(e.heap) = n /\ Keeps(e.heap, d.heap, does)
      BY <2>1, <3>2 DEF ReplacedAt, Keeps
    <3>4. Sound(e, does)
      BY <1>1, <1>3, <3>2, <3>3 DEF Sound, RefsDistinct
    <3> QED BY <1>2, <1>11, <3>3, <3>4
  <2>3. CASE c.index \notin DOMAIN d.layers
    <3>1. e = d
      BY <2>1, <2>3 DEF UpdateLayerTransform
    <3>2. ~Fixed(does) /\ "text" \in does => RefsDistinct(e)
      BY <3>1 DEF Sound
    <3> QED BY <1>2, <1>4, <3>1, <3>2
  <2> QED BY <2>2, <2>3
<1>12. CASE c.do = "reorder"
  <2>1. e = ReorderLayers(d, c.order) /\ "text" \notin does
    BY <1>12, PerformDo DEF CommandOf
  <2>2. IsSequence(c.order) /\ Range(c.order) \subseteq IdsIn(d)
    BY <1>12 DEF IsCommand
  <2>3. e.bitmap = d.bitmap /\ e.loading = d.loading /\ e.ids = d.ids /\ e.heap = d.heap
    BY <1>1, <2>1, <2>2, ReorderIs
  <2> QED BY <1>2, <1>4, <2>1, <2>3
<1>13. CASE c.do = "offsets"
  <2>1. e = UpdateOffsets(d, c.left, c.size) /\ "text" \notin does /\ ~Fixed(does)
    BY <1>13, PerformDo DEF CommandOf
  <2>2. /\ e.bitmap = d.bitmap /\ e.loading = d.loading /\ e.ids = d.ids
        /\ Offset(e.heap, d.heap, d.layers, c.left)
    BY <1>1, <2>1, OffsetsIs
  <2>3. Len(e.heap) = n /\ Keeps(e.heap, d.heap, does)
    BY <2>1, <2>2 DEF Offset, Keeps
  <2>4. Sound(e, does)
    BY <1>1, <1>3, <2>1, <2>2, <2>3 DEF Sound
  <2> QED BY <1>2, <1>13, <2>3, <2>4
<1> QED BY <1>7, <1>8, <1>9, <1>10, <1>11, <1>12, <1>13 DEF CommandOf

\* What is seen after a command is its effect on what was seen before.
LEMMA PerformSeen ==
  ASSUME NEW does, NEW d, Sound(d, does), NEW c, IsCommand(c, Len(d.heap)), CommandOf(c, does),
         c.do = "reorder" => Range(c.order) \subseteq IdsIn(d),
         c.do \in {"reorder", "transform"} /\ "text" \notin does => Distinct(View(does, d))
  PROVE  View(does, Perform(d, c)) = Effect(c, View(does, d), does, d.heap)
<1> DEFINE v == View(does, d)
<1>0. WellFormed(d)
  BY DEF Sound
<1>1. /\ c.do = "insert" => Effect(c, v, does, d.heap) = PutIn(v, c.index, Face(does, d.heap[c.object]))
      /\ c.do = "remove" => Effect(c, v, does, d.heap) = TakeOut(v, c.index)
      /\ c.do = "add" => Effect(c, v, does, d.heap) = PutIn(v, v.count + 1, Face(does, NewLayer(0)))
      /\ c.do = "update" => Effect(c, v, does, d.heap) = SetField(v, c.index, c.field, c.value)
      /\ c.do = "transform" => Effect(c, v, does, d.heap) = SetField(v, c.index, "rotation", c.value)
      /\ c.do = "reorder" => Effect(c, v, does, d.heap) = InOrder(v, c.order)
      /\ c.do = "offsets" => Effect(c, v, does, d.heap) = Moved(v, c.left, c.size)
  BY DEF Effect
<1>2. CASE c.do = "insert"
  <2>1. c.index \in Nat \ {0} /\ c.object \in 1..Len(d.heap)
    BY <1>2 DEF IsCommand, Indexed
  <2> QED BY <1>0, <1>1, <1>2, <2>1, PerformDo, InsertSeen
<1>3. CASE c.do = "remove"
  BY <1>0, <1>1, <1>3, PerformDo, RemoveSeen
<1>4. CASE c.do = "add"
  <2>1. "text" \in does
    BY <1>4 DEF CommandOf
  <2> QED BY <1>0, <1>1, <1>4, <2>1, PerformDo, AddSeen
<1>5. CASE c.do = "update"
  <2>1. c.field \in Fields \ {"id"}
    BY <1>5 DEF IsCommand
  <2> QED BY <1>0, <1>1, <1>5, <2>1, PerformDo, UpdateSeen
<1>6. CASE c.do = "transform"
  <2>1. "rotation" \in Fields \ {"id"}
    BY DEF Fields
  <2>2. RefsDistinct(d)
    <3>1. CASE "text" \in does
      BY <1>6, <3>1 DEF Sound, CommandOf
    <3>2. CASE "text" \notin does
      <4>1. Distinct(v) /\ v.count = Len(d.layers) /\ \A j \in 1..Len(d.layers) : v.face[j] = Face(does, d.heap[d.layers[j]])
        BY <1>0, <1>6, <3>2, ViewIsView
      <4> HIDE DEF v
      <4> QED BY <4>1 DEF Distinct, RefsDistinct
    <3> QED BY <3>1, <3>2
  <2>3. Perform(d, c) = UpdateLayerTransform(d, c.index, "rotation", c.value)
    BY <1>6, PerformDo
  <2> DEFINE f == "rotation"
  <2>4. View(does, UpdateLayerTransform(d, c.index, f, c.value)) = SetField(v, c.index, f, c.value)
    <3>1. f \in Fields \ {"id"}
      BY <2>1
    <3> HIDE DEF f
    <3> QED BY <1>0, <2>2, <3>1, TransformSeen
  <2> QED BY <1>1, <1>6, <2>3, <2>4
<1>7. CASE c.do = "reorder"
  <2>1. "text" \notin does /\ IsSequence(c.order) /\ Range(c.order) \subseteq IdsIn(d) /\ Distinct(v)
    BY <1>7 DEF CommandOf, IsCommand
  <2> QED BY <1>0, <1>1, <1>7, <2>1, PerformDo, ReorderSeen
<1>8. CASE c.do = "offsets"
  <2>1. "text" \notin does
    BY <1>8 DEF CommandOf
  <2> QED BY <1>0, <1>1, <1>8, <2>1, PerformDo, OffsetsSeen
<1> QED BY <1>2, <1>3, <1>4, <1>5, <1>6, <1>7, <1>8 DEF CommandOf

\* A closure of such a session: a command, or three that insert and remove.
Simple(c) == c.do \in {"insert", "remove"}
ClosureOf(q, n, does) ==
  \/ \E c : q = <<c>> /\ IsCommand(c, n) /\ CommandOf(c, does)
  \/ /\ Fixed(does)
     /\ \E c1, c2, c3 :
          /\ q = <<c1, c2, c3>> /\ IsCommand(c1, n) /\ IsCommand(c2, n) /\ IsCommand(c3, n)
          /\ Simple(c1) /\ Simple(c2) /\ Simple(c3)

\* They are commands of a session whose objects never change.
LEMMA SimpleAllowed == ASSUME NEW does, Fixed(does), NEW c, Simple(c) PROVE CommandOf(c, does)
BY DEF CommandOf, Simple

\* What a closure makes of a view.
Effects(q, v, does, h) ==
  IF Len(q) = 1 THEN Effect(q[1], v, does, h)
  ELSE Effect(q[3], Effect(q[2], Effect(q[1], v, does, h), does, h), does, h)

\* That of one command,
LEMMA EffectsOne ==
  ASSUME NEW c, NEW v, NEW does, NEW h PROVE Effects(<<c>>, v, does, h) = Effect(c, v, does, h)
BY DEF Effects

\* and of three.
LEMMA EffectsThree ==
  ASSUME NEW c1, NEW c2, NEW c3, NEW v, NEW does, NEW h
  PROVE  Effects(<<c1, c2, c3>>, v, does, h) = Effect(c3, Effect(c2, Effect(c1, v, does, h), does, h), does, h)
BY DEF Effects

\* The objects that a command holds are all it needs of the heap.
LEMMA EffectKept ==
  ASSUME NEW does, NEW c, NEW h, NEW k, Len(h) \in Nat, CommandOf(c, does),
         IsCommand(c, Len(h)), Keeps(k, h, does)
  PROVE  \A v : Effect(c, v, does, k) = Effect(c, v, does, h)
<1> TAKE v
<1>1. CASE c.do = "insert"
  <2>1. c.object \in 1..Len(h) /\ Fixed(does)
    BY <1>1 DEF IsCommand, CommandOf
  <2>2. k[c.object] = h[c.object]
    BY <2>1 DEF Keeps
  <2>3. \A g : Effect(c, v, does, g) = PutIn(v, c.index, Face(does, g[c.object]))
    BY <1>1 DEF Effect
  <2> QED BY <2>2, <2>3
<1>2. CASE c.do = "remove"
  BY <1>2 DEF Effect
<1>3. CASE c.do = "add"
  BY <1>3 DEF Effect
<1>4. CASE c.do = "update"
  BY <1>4 DEF Effect
<1>5. CASE c.do = "transform"
  BY <1>5 DEF Effect
<1>6. CASE c.do = "reorder"
  BY <1>6 DEF Effect
<1>7. CASE c.do = "offsets"
  BY <1>7 DEF Effect
<1> QED BY <1>1, <1>2, <1>3, <1>4, <1>5, <1>6, <1>7 DEF CommandOf

\* So it is of the objects that a closure holds.
LEMMA EffectsKept ==
  ASSUME NEW does, NEW q, NEW h, NEW k, Len(h) \in Nat, ClosureOf(q, Len(h), does), Keeps(k, h, does)
  PROVE  \A v : Effects(q, v, does, k) = Effects(q, v, does, h)
<1>1. CASE \E c : q = <<c>> /\ IsCommand(c, Len(h)) /\ CommandOf(c, does)
  <2>1. PICK c : q = <<c>> /\ IsCommand(c, Len(h)) /\ CommandOf(c, does)
    BY <1>1
  <2> QED BY <2>1, EffectsOne, EffectKept
<1>2. CASE Fixed(does) /\ \E c1, c2, c3 :
          /\ q = <<c1, c2, c3>> /\ IsCommand(c1, Len(h)) /\ IsCommand(c2, Len(h)) /\ IsCommand(c3, Len(h))
          /\ Simple(c1) /\ Simple(c2) /\ Simple(c3)
  <2>1. PICK c1, c2, c3 :
          /\ q = <<c1, c2, c3>> /\ IsCommand(c1, Len(h)) /\ IsCommand(c2, Len(h)) /\ IsCommand(c3, Len(h))
          /\ Simple(c1) /\ Simple(c2) /\ Simple(c3)
    BY <1>2
  <2>2. ASSUME NEW c, IsCommand(c, Len(h)), Simple(c) PROVE \A v : Effect(c, v, does, k) = Effect(c, v, does, h)
    <3>1. CommandOf(c, does)
      BY <1>2, <2>2, SimpleAllowed
    <3> QED BY <2>2, <3>1, EffectKept
  <2>3. /\ \A v : Effect(c1, v, does, k) = Effect(c1, v, does, h)
        /\ \A v : Effect(c2, v, does, k) = Effect(c2, v, does, h)
        /\ \A v : Effect(c3, v, does, k) = Effect(c3, v, does, h)
    BY <2>1, <2>2
  <2> TAKE v
  <2> QED BY <2>1, <2>3, EffectsThree
<1> QED BY <1>1, <1>2 DEF ClosureOf

\* What was kept twice was kept.
LEMMA KeptTwice ==
  ASSUME NEW does, NEW h, NEW k, NEW l, Keeps(k, h, does), Keeps(l, k, does), Len(h) \in Nat, Len(k) \in Nat, Len(k) >= Len(h)
  PROVE  Keeps(l, h, does)
BY DEF Keeps

\* More objects can only help.
LEMMA ClosureOfStays ==
  ASSUME NEW q, NEW does, NEW n \in Nat, NEW m \in Nat, m >= n, ClosureOf(q, n, does)
  PROVE  ClosureOf(q, m, does)
<1>1. CASE \E c : q = <<c>> /\ IsCommand(c, n) /\ CommandOf(c, does)
  <2>1. PICK c : q = <<c>> /\ IsCommand(c, n) /\ CommandOf(c, does)
    BY <1>1
  <2>2. IsCommand(c, m)
    BY <2>1, CommandStays
  <2> QED BY <2>1, <2>2 DEF ClosureOf
<1>2. CASE /\ Fixed(does)
           /\ \E c1, c2, c3 :
                /\ q = <<c1, c2, c3>> /\ IsCommand(c1, n) /\ IsCommand(c2, n) /\ IsCommand(c3, n)
                /\ Simple(c1) /\ Simple(c2) /\ Simple(c3)
  <2>1. PICK c1, c2, c3 :
                /\ q = <<c1, c2, c3>> /\ IsCommand(c1, n) /\ IsCommand(c2, n) /\ IsCommand(c3, n)
                /\ Simple(c1) /\ Simple(c2) /\ Simple(c3)
    BY <1>2
  <2>2. IsCommand(c1, m) /\ IsCommand(c2, m) /\ IsCommand(c3, m)
    BY <2>1, CommandStays
  <2> QED BY <1>2, <2>1, <2>2, Zenon DEF ClosureOf
<1> QED BY <1>1, <1>2 DEF ClosureOf

\* The document after a closure: sound, and seen as the effects of the commands say.
RunIs(e, q, d, does) ==
  /\ Sound(e, does) /\ Keeps(e.heap, d.heap, does)
  /\ Len(d.heap) \in Nat /\ Len(e.heap) \in Len(d.heap)..(Len(d.heap) + 1)
  /\ View(does, e) = Effects(q, View(does, d), does, d.heap)
  /\ Len(q) = 3 \/ Simple(q[1]) => Len(e.heap) = Len(d.heap)

\* It is that, if what its orders name is there.
LEMMA RunSeen ==
  ASSUME NEW does, NEW d, Sound(d, does), "text" \notin does => Distinct(View(does, d)),
         NEW q, ClosureOf(q, Len(d.heap), does), OrdersIn(q, IdsIn(d))
  PROVE  RunIs(Run(q, d), q, d, does)
<1> DEFINE n == Len(d.heap)
           h == d.heap
<1>1. CASE \E c : q = <<c>> /\ IsCommand(c, n) /\ CommandOf(c, does)
  <2>1. PICK c : q = <<c>> /\ IsCommand(c, n) /\ CommandOf(c, does)
    BY <1>1
  <2> DEFINE e == Perform(d, c)
  <2>2. c.do = "reorder" => Range(c.order) \subseteq IdsIn(d)
    <3>1. DOMAIN <<c>> = {1} /\ <<c>>[1] = c
      OBVIOUS
    <3> QED BY <2>1, <3>1 DEF OrdersIn
  <2>3. /\ Sound(e, does) /\ Keeps(e.heap, h, does)
        /\ Len(h) \in Nat /\ Len(e.heap) \in Len(h)..(Len(h) + 1)
        /\ c.do \in {"insert", "remove"} => Len(e.heap) = Len(h)
    BY <2>1, <2>2, PerformSound
  <2>4. View(does, e) = Effect(c, View(does, d), does, h)
    BY <2>1, <2>2, PerformSeen
  <2>5. Run(q, d) = e /\ Effects(q, View(does, d), does, h) = Effect(c, View(does, d), does, h)
    BY <2>1, RunOne, EffectsOne
  <2> HIDE DEF e
  <2>6. Len(q) = 3 \/ Simple(q[1]) => Len(e.heap) = Len(h)
    BY <2>1, <2>3 DEF Simple
  <2> QED BY <2>3, <2>4, <2>5, <2>6 DEF RunIs
<1>2. CASE /\ Fixed(does)
           /\ \E c1, c2, c3 :
                /\ q = <<c1, c2, c3>> /\ IsCommand(c1, n) /\ IsCommand(c2, n) /\ IsCommand(c3, n)
                /\ Simple(c1) /\ Simple(c2) /\ Simple(c3)
  <2>1. PICK c1, c2, c3 :
                /\ q = <<c1, c2, c3>> /\ IsCommand(c1, n) /\ IsCommand(c2, n) /\ IsCommand(c3, n)
                /\ Simple(c1) /\ Simple(c2) /\ Simple(c3)
    BY <1>2
  <2> DEFINE a == Perform(d, c1)
             b == Perform(a, c2)
             e == Perform(b, c3)
             v == View(does, d)
  <2>2. ASSUME NEW f, Sound(f, does), Len(f.heap) = n, Keeps(f.heap, h, does), Len(h) \in Nat, NEW c, IsCommand(c, n), Simple(c)
        PROVE  LET g == Perform(f, c)
               IN  /\ Sound(g, does) /\ Len(g.heap) = n /\ Keeps(g.heap, h, does)
                   /\ View(does, g) = Effect(c, View(does, f), does, h)
    <3> DEFINE g == Perform(f, c)
    <3>1. CommandOf(c, does) /\ c.do \in {"insert", "remove"} /\ ~(c.do = "reorder") /\ c.do \notin {"reorder", "transform"}
      BY <1>2, <2>2, SimpleAllowed DEF Simple
    <3>2. Sound(g, does) /\ Keeps(g.heap, f.heap, does) /\ Len(g.heap) = Len(f.heap)
      BY <2>2, <3>1, PerformSound
    <3>3. View(does, g) = Effect(c, View(does, f), does, f.heap)
      BY <2>2, <3>1, PerformSeen
    <3> HIDE DEF g
    <3>4. Effect(c, View(does, f), does, f.heap) = Effect(c, View(does, f), does, h)
      BY <2>2, <3>1, EffectKept
    <3>5. Keeps(g.heap, h, does)
      BY <2>2, <3>2, KeptTwice
    <3> QED BY <2>2, <3>2, <3>3, <3>4, <3>5 DEF g
  <2>3. Len(h) \in Nat /\ Keeps(h, h, does)
    BY DEF Sound, WellFormed, IsHeap, IsSequence, Keeps
  <2>4. Sound(a, does) /\ Len(a.heap) = n /\ Keeps(a.heap, h, does) /\ View(does, a) = Effect(c1, v, does, h)
    BY <2>1, <2>2, <2>3
  <2> HIDE DEF a, v
  <2>5. Sound(b, does) /\ Len(b.heap) = n /\ Keeps(b.heap, h, does) /\ View(does, b) = Effect(c2, View(does, a), does, h)
    BY <2>1, <2>2, <2>3, <2>4
  <2> HIDE DEF b
  <2>6. Sound(e, does) /\ Len(e.heap) = n /\ Keeps(e.heap, h, does) /\ View(does, e) = Effect(c3, View(does, b), does, h)
    BY <2>1, <2>2, <2>3, <2>5
  <2>7. Run(q, d) = e
    BY <2>1, RunThree DEF a, b
  <2> HIDE DEF e
  <2>8. Effects(q, v, does, h) = Effect(c3, Effect(c2, Effect(c1, v, does, h), does, h), does, h)
    BY <2>1, EffectsThree
  <2>9. View(does, e) = Effects(q, v, does, h)
    BY <2>4, <2>5, <2>6, <2>8
  <2>10. Len(e.heap) \in n..(n + 1)
    BY <2>3, <2>6
  <2> QED BY <2>3, <2>6, <2>7, <2>9, <2>10 DEF RunIs, v
<1> QED BY <1>1, <1>2 DEF ClosureOf

\* What the user sees of a sound document is what is seen of it, without ids.
Look(v) == <<v.size, [j \in 1..v.count |-> <<[v.face[j] EXCEPT !.id = 0], {}>>]>>

\* It is what the model calls Shown.
LEMMA ShownIsLook ==
  ASSUME NEW does, NEW d, Sound(d, does), d.ids <= MaxObjects + 1
  PROVE  Shown(d) = Look(View(does, d))
<1> DEFINE n == Len(d.layers)
           v == View(does, d)
           Hide(o) == [o EXCEPT !.id = 0]
<1>1. WellFormed(d) /\ d.bitmap = Unpainted
  BY DEF Sound
<1>2. n \in Nat /\ DOMAIN d.layers = 1..n /\ \A j \in 1..n : d.layers[j] \in 1..Len(d.heap)
  BY <1>1 DEF WellFormed
<1>3. v.count = n /\ v.size = d.size /\ \A j \in 1..n : v.face[j] = Face(does, d.heap[d.layers[j]])
  BY <1>1, ViewIsView
<1>4. ASSUME NEW j \in 1..n
      PROVE  /\ d.bitmap[d.heap[d.layers[j]].id] = {}
             /\ Hide(v.face[j]) = Hide(d.heap[d.layers[j]])
  <2> DEFINE o == d.heap[d.layers[j]]
  <2>1. IsLayer(o) /\ o.id \in 1..d.ids /\ d.ids \in Nat
    BY <1>1, <1>2 DEF WellFormed, IsHeap
  <2>2. o.id \in 1..(MaxObjects + 1)
    BY <2>1, HistoryAssumption
  <2>3. d.bitmap[o.id] = {}
    BY <1>1, <2>2 DEF Unpainted
  <2>4. Hide(Hide(o)) = Hide(o)
    <3> HIDE DEF o
    <3> DEFINE idf == "id"
               z == 0
               a == [o EXCEPT ![idf] = z]
               b == [a EXCEPT ![idf] = z]
    <3>1. idf \in Fields /\ IsLayer(o)
      BY <2>1 DEF Fields
    <3>2. Hide(Hide(o)) = b /\ Hide(o) = a
      OBVIOUS
    <3> HIDE DEF idf, z
    <3>3. a = b
      BY <3>1 DEF IsLayer
    <3> QED BY <3>2, <3>3
  <2>5. v.face[j] = o \/ v.face[j] = Hide(o)
    BY <1>3 DEF Face
  <2> HIDE DEF o
  <2>6. Hide(v.face[j]) = Hide(o)
    <3> HIDE DEF Hide
    <3> QED BY <2>4, <2>5
  <2> QED BY <2>3, <2>6 DEF o
<1>5. Shown(d) = <<d.size, [j \in 1..n |-> <<Hide(d.heap[d.layers[j]]), d.bitmap[d.heap[d.layers[j]].id]>>]>>
  BY <1>2 DEF Shown
<1>6. Look(v) = <<d.size, [j \in 1..n |-> <<Hide(v.face[j]), {}>>]>>
  BY <1>3 DEF Look
<1> HIDE DEF Hide, v
<1> QED BY <1>4, <1>5, <1>6 DEF v

\* What is seen of a document that the proofs go through: layers with numbers for offsets, and
\* with ids of their own unless these are masked.
Seen(v, does) ==
  /\ IsView(v) /\ \A j \in 1..v.count : IsLayer(v.face[j]) /\ v.face[j].left \in Int
  /\ "text" \notin does => Distinct(v)

\* The later value of a field is the one that counts,
LEMMA FieldTwice ==
  ASSUME NEW o, IsLayer(o), NEW f \in Fields
  PROVE  /\ \A x, y : [[o EXCEPT ![f] = x] EXCEPT ![f] = y] = [o EXCEPT ![f] = y]
         /\ [o EXCEPT ![f] = o[f]] = o
<1>1. ASSUME NEW x, NEW y PROVE [[o EXCEPT ![f] = x] EXCEPT ![f] = y] = [o EXCEPT ![f] = y]
  <2> DEFINE a == [o EXCEPT ![f] = x]
             b == [a EXCEPT ![f] = y]
             c == [o EXCEPT ![f] = y]
  <2>1. IsLayer(a) /\ \A g \in Fields \ {f} : a[g] = o[g]
    BY FieldSet
  <2> HIDE DEF a
  <2>2. IsLayer(b) /\ b[f] = y /\ \A g \in Fields \ {f} : b[g] = a[g]
    BY <2>1, FieldSet
  <2>3. IsLayer(c) /\ c[f] = y /\ \A g \in Fields \ {f} : c[g] = o[g]
    BY FieldSet
  <2> HIDE DEF b, c
  <2>4. \A g \in Fields : b[g] = c[g]
    BY <2>1, <2>2, <2>3
  <2>5. b = c
    BY <2>2, <2>3, <2>4, Zenon DEF IsLayer
  <2> QED BY <2>5 DEF b, c, a
<1>2. [o EXCEPT ![f] = o[f]] = o
  <2> DEFINE x == o[f]
             a == [o EXCEPT ![f] = x]
  <2>1. IsLayer(a) /\ a[f] = x /\ \A g \in Fields \ {f} : a[g] = o[g]
    BY FieldSet
  <2>2. \A g \in Fields : a[g] = o[g]
    BY <2>1
  <2> HIDE DEF a
  <2>3. a = o
    BY <2>1, <2>2, Zenon DEF IsLayer
  <2> QED BY <2>3 DEF a
<1> QED BY <1>1, <1>2

\* also in a view.
LEMMA SetTwice ==
  ASSUME NEW does, NEW v, Seen(v, does), NEW i, NEW f \in Fields
  PROVE  /\ \A x, y : SetField(SetField(v, i, f, x), i, f, y) = SetField(v, i, f, y)
         /\ i \in 1..v.count => SetField(v, i, f, v.face[i][f]) = v
<1> DEFINE n == v.count
           S(w, x) == SetField(w, i, f, x)
<1>1. IsView(v) /\ n \in Nat /\ \A j \in 1..n : IsLayer(v.face[j])
  BY DEF Seen, IsView
<1>2. ASSUME NEW w, NEW x
      PROVE  /\ S(w, x).size = w.size /\ S(w, x).count = w.count
             /\ \A j \in 1..w.count : S(w, x).face[j] = IF j = i THEN [w.face[j] EXCEPT ![f] = x] ELSE w.face[j]
  BY DEF SetField
<1>3. ASSUME NEW w, IsView(w), NEW x PROVE IsView(S(w, x))
  BY <1>3, MutationsOfViews
<1> HIDE DEF S
<1>4. ASSUME NEW x, NEW y PROVE S(S(v, x), y) = S(v, y)
  <2> DEFINE a == S(v, x)
             b == S(a, y)
             c == S(v, y)
  <2>1. IsView(a) /\ IsView(b) /\ IsView(c)
    BY <1>1, <1>3
  <2>2. a.size = v.size /\ a.count = n /\ b.size = a.size /\ b.count = a.count /\ c.size = v.size /\ c.count = n
    BY <1>2
  <2>3. \A j \in 1..n : a.face[j] = IF j = i THEN [v.face[j] EXCEPT ![f] = x] ELSE v.face[j]
    BY <1>2
  <2>4. \A j \in 1..a.count : b.face[j] = IF j = i THEN [a.face[j] EXCEPT ![f] = y] ELSE a.face[j]
    BY <1>2
  <2>5. \A j \in 1..n : c.face[j] = IF j = i THEN [v.face[j] EXCEPT ![f] = y] ELSE v.face[j]
    BY <1>2
  <2> HIDE DEF a, b, c
  <2>6. ASSUME NEW j \in 1..n PROVE b.face[j] = c.face[j]
    <3>1. CASE j = i
      <4>1. [[v.face[j] EXCEPT ![f] = x] EXCEPT ![f] = y] = [v.face[j] EXCEPT ![f] = y]
        BY <1>1, FieldTwice
      <4> QED BY <2>2, <2>3, <2>4, <2>5, <3>1, <4>1
    <3>2. CASE j # i
      BY <2>2, <2>3, <2>4, <2>5, <3>2
    <3> QED BY <3>1, <3>2
  <2>7. b = c
    BY <2>1, <2>2, <2>6, SameView
  <2> QED BY <2>7 DEF a, b, c
<1>5. ASSUME i \in 1..n PROVE S(v, v.face[i][f]) = v
  <2> DEFINE x == v.face[i][f]
             a == S(v, x)
  <2>1. IsView(a) /\ a.size = v.size /\ a.count = n
        /\ \A j \in 1..n : a.face[j] = IF j = i THEN [v.face[j] EXCEPT ![f] = x] ELSE v.face[j]
    BY <1>1, <1>2, <1>3
  <2>2. [v.face[i] EXCEPT ![f] = x] = v.face[i]
    BY <1>1, <1>5, FieldTwice
  <2> HIDE DEF a, x
  <2>3. \A j \in 1..n : a.face[j] = v.face[j]
    BY <2>1, <2>2
  <2>4. a = v
    BY <1>1, <2>1, <2>3, SameView
  <2> QED BY <2>4 DEF a, x
<1> QED BY <1>4, <1>5 DEF S

\* A view in which a field was set is one that is seen.
LEMMA SetIsSeen ==
  ASSUME NEW does, NEW v, Seen(v, does), NEW i, NEW f \in Fields \ {"id", "left"}, NEW x
  PROVE  Seen(SetField(v, i, f, x), does)
<1> DEFINE n == v.count
           w == SetField(v, i, f, x)
<1>1. IsView(v) /\ n \in Nat /\ \A j \in 1..n : IsLayer(v.face[j]) /\ v.face[j].left \in Int
  BY DEF Seen, IsView
<1>2. IsView(w)
  BY <1>1, MutationsOfViews
<1>3. /\ w.count = n
      /\ \A j \in 1..n : w.face[j] = IF j = i THEN [v.face[j] EXCEPT ![f] = x] ELSE v.face[j]
  BY DEF SetField
<1> HIDE DEF w
<1>4. ASSUME NEW j \in 1..n
      PROVE  IsLayer(w.face[j]) /\ w.face[j].left = v.face[j].left /\ w.face[j].id = v.face[j].id
  <2> DEFINE o == v.face[j]
             p == [o EXCEPT ![f] = x]
  <2>1. IsLayer(p) /\ \A g \in Fields \ {f} : p[g] = o[g]
    BY <1>1, FieldSet
  <2> HIDE DEF o, p
  <2>2. p.left = o.left /\ p.id = o.id
    BY <2>1 DEF Fields
  <2> QED BY <1>1, <1>3, <2>1, <2>2 DEF o, p
<1>5. "text" \notin does => Distinct(w)
  BY <1>3, <1>4 DEF Seen, Distinct
<1> QED BY <1>1, <1>2, <1>3, <1>4, <1>5 DEF Seen, w

\* What was put in can be taken out: the view is the one before.
LEMMA TakeOutPutIn ==
  ASSUME NEW v, IsView(v), NEW i \in 1..(v.count + 1), NEW x
  PROVE  TakeOut(PutIn(v, i, x), i) = v
<1> DEFINE n == v.count
           a == PutIn(v, i, x)
           b == TakeOut(a, i)
<1>1. n \in Nat /\ i \in 1..(n + 1)
  BY DEF IsView
<1>2. IsView(a) /\ IsView(b)
  BY MutationsOfViews
<1>3. /\ a.size = v.size /\ a.count = n + 1
      /\ \A j \in 1..(n + 1) : a.face[j] = IF j < i THEN v.face[j] ELSE IF j = i THEN x ELSE v.face[j - 1]
  BY <1>1 DEF PutIn
<1> HIDE DEF a
<1>4. /\ b.size = a.size /\ b.count = n
      /\ \A j \in 1..n : b.face[j] = IF j < i THEN a.face[j] ELSE a.face[j + 1]
  BY <1>1, <1>3 DEF TakeOut
<1> HIDE DEF b
<1>5. ASSUME NEW j \in 1..n PROVE b.face[j] = v.face[j]
  <2>1. CASE j < i
    BY <1>1, <1>3, <1>4, <2>1
  <2>2. CASE ~(j < i)
    <3>1. b.face[j] = a.face[j + 1] /\ j + 1 \in 1..(n + 1) /\ ~(j + 1 < i) /\ j + 1 # i /\ (j + 1) - 1 = j
      BY <1>1, <1>4, <2>2
    <3>2. a.face[j + 1] = v.face[(j + 1) - 1]
      BY <1>3, <3>1, Zenon
    <3> QED BY <3>1, <3>2
  <2> QED BY <2>1, <2>2
<1>6. b = v
  BY <1>2, <1>3, <1>4, <1>5, SameView
<1> QED BY <1>6 DEF b, a

\* What was taken out can be put back.
LEMMA PutInTakeOut ==
  ASSUME NEW v, IsView(v), NEW i \in 1..v.count
  PROVE  PutIn(TakeOut(v, i), i, v.face[i]) = v
<1> DEFINE n == v.count
           a == TakeOut(v, i)
           x == v.face[i]
           b == PutIn(a, i, x)
<1>1. n \in Nat /\ i \in 1..n
  BY DEF IsView
<1>2. IsView(a) /\ IsView(b)
  BY <1>1, MutationsOfViews
<1>3. /\ a.size = v.size /\ a.count = n - 1
      /\ \A j \in 1..(n - 1) : a.face[j] = IF j < i THEN v.face[j] ELSE v.face[j + 1]
  BY <1>1 DEF TakeOut
<1> HIDE DEF a
<1>4. /\ b.size = a.size /\ b.count = n
      /\ \A j \in 1..n : b.face[j] = IF j < i THEN a.face[j] ELSE IF j = i THEN x ELSE a.face[j - 1]
  BY <1>1, <1>3 DEF PutIn
<1> HIDE DEF b
<1>5. ASSUME NEW j \in 1..n PROVE b.face[j] = v.face[j]
  <2>1. CASE j < i
    BY <1>1, <1>3, <1>4, <2>1
  <2>2. CASE j = i
    BY <1>1, <1>4, <2>2
  <2>3. CASE j > i
    <3>1. b.face[j] = a.face[j - 1] /\ j - 1 \in 1..(n - 1) /\ ~(j - 1 < i) /\ (j - 1) + 1 = j
      BY <1>1, <1>4, <2>3
    <3>2. a.face[j - 1] = v.face[(j - 1) + 1]
      BY <1>3, <3>1, Zenon
    <3> QED BY <3>1, <3>2
  <2> QED BY <1>1, <2>1, <2>2, <2>3
<1>6. b = v
  BY <1>2, <1>3, <1>4, <1>5, SameView
<1> QED BY <1>6 DEF b, a

\* Views with a layer put in or taken out are seen.
LEMMA PutInIsSeen ==
  ASSUME NEW does, NEW v, Seen(v, does), NEW i \in 1..(v.count + 1), NEW x, IsLayer(x), x.left \in Int,
         "text" \notin does => \A j \in 1..v.count : v.face[j].id # x.id
  PROVE  Seen(PutIn(v, i, x), does)
<1> DEFINE n == v.count
           a == PutIn(v, i, x)
<1>1. IsView(v) /\ n \in Nat /\ i \in 1..(n + 1) /\ \A j \in 1..n : IsLayer(v.face[j]) /\ v.face[j].left \in Int
  BY DEF Seen, IsView
<1>2. IsView(a)
  BY <1>1, MutationsOfViews
<1>3. /\ a.count = n + 1
      /\ \A j \in 1..(n + 1) : a.face[j] = IF j < i THEN v.face[j] ELSE IF j = i THEN x ELSE v.face[j - 1]
  BY <1>1 DEF PutIn
<1> HIDE DEF a
<1>4. \A j \in 1..(n + 1) : IsLayer(a.face[j]) /\ a.face[j].left \in Int
  BY <1>1, <1>3
<1>5. ASSUME "text" \notin does PROVE Distinct(a)
  <2>1. Distinct(v) /\ \A j \in 1..n : v.face[j].id # x.id
    BY <1>5 DEF Seen
  <2> SUFFICES ASSUME NEW j \in 1..(n + 1), NEW k \in 1..(n + 1), a.face[j].id = a.face[k].id PROVE j = k
    BY <1>3 DEF Distinct
  <2> DEFINE p(l) == IF l < i THEN l ELSE l - 1
  <2>2. ASSUME NEW l \in 1..(n + 1), l # i PROVE p(l) \in 1..n /\ a.face[l] = v.face[p(l)]
    BY <1>1, <1>3, <2>2
  <2>3. a.face[i] = x
    BY <1>1, <1>3
  <2>4. CASE j = i /\ k # i
    BY <2>1, <2>2, <2>3, <2>4
  <2>5. CASE k = i /\ j # i
    BY <2>1, <2>2, <2>3, <2>5
  <2>6. CASE j # i /\ k # i
    <3>1. p(j) \in 1..n /\ p(k) \in 1..n /\ v.face[p(j)].id = v.face[p(k)].id
      BY <2>2, <2>6
    <3>2. p(j) = p(k)
      <4> HIDE DEF p
      <4> QED BY <2>1, <3>1 DEF Distinct
    <3> QED BY <1>1, <2>6, <3>2
  <2> QED BY <2>4, <2>5, <2>6
<1> QED BY <1>2, <1>3, <1>4, <1>5 DEF Seen, a

\* and taking one out.
LEMMA TakeOutIsSeen ==
  ASSUME NEW does, NEW v, Seen(v, does), NEW i \in 1..v.count
  PROVE  Seen(TakeOut(v, i), does)
<1> DEFINE n == v.count
           a == TakeOut(v, i)
           p(l) == IF l < i THEN l ELSE l + 1
<1>1. IsView(v) /\ n \in Nat /\ i \in 1..n /\ \A j \in 1..n : IsLayer(v.face[j]) /\ v.face[j].left \in Int
  BY DEF Seen, IsView
<1>2. IsView(a)
  BY <1>1, MutationsOfViews
<1>3. /\ a.count = n - 1
      /\ \A j \in 1..(n - 1) : a.face[j] = IF j < i THEN v.face[j] ELSE v.face[j + 1]
  BY <1>1 DEF TakeOut
<1> HIDE DEF a
<1>4. \A j \in 1..(n - 1) : p(j) \in 1..n /\ a.face[j] = v.face[p(j)]
  BY <1>1, <1>3
<1>5. \A j, k \in 1..(n - 1) : p(j) = p(k) => j = k
  BY <1>1
<1> HIDE DEF p
<1>6. \A j \in 1..(n - 1) : IsLayer(a.face[j]) /\ a.face[j].left \in Int
  BY <1>1, <1>4
<1>7. "text" \notin does => Distinct(a)
  BY <1>3, <1>4, <1>5 DEF Seen, Distinct
<1> QED BY <1>2, <1>3, <1>6, <1>7 DEF Seen, a

\* Order is that of the view, and p says where an index of the other comes from, and goes to.
Exchanges(p, v, order, other) ==
  /\ Len(order) = v.count /\ Len(other) = v.count
  /\ \A j \in 1..v.count : /\ p[j] \in 1..v.count /\ p[p[j]] = j
                            /\ order[j] = v.face[j].id /\ other[j] = order[p[j]]

\* Layers put in an order and back.
LEMMA OrderTwice ==
  ASSUME NEW does, "text" \notin does, NEW v, Seen(v, does), NEW order, NEW other, NEW p,
         Exchanges(p, v, order, other)
  PROVE  /\ InOrder(InOrder(v, other), order) = v
         /\ Seen(InOrder(v, other), does)
         /\ \A j \in 1..v.count : InOrder(v, other).face[j].id = other[j]
<1> DEFINE n == v.count
           a == InOrder(v, other)
           b == InOrder(a, order)
<1>0. Len(order) = n /\ Len(other) = n
      /\ \A j \in 1..n : /\ p[j] \in 1..n /\ p[p[j]] = j /\ order[j] = v.face[j].id /\ other[j] = order[p[j]]
  BY DEF Exchanges
<1>1. IsView(v) /\ n \in Nat /\ Distinct(v) /\ \A j \in 1..n : IsLayer(v.face[j]) /\ v.face[j].left \in Int
  BY DEF Seen, IsView
<1>2. IsView(a) /\ IsView(b)
  BY <1>0, <1>1, MutationsOfViews
<1>3. a.size = v.size /\ a.count = n /\ b.size = v.size /\ b.count = n
  BY <1>0 DEF InOrder
<1>4. \A j \in 1..n : a.face[j] = v.face[p[j]]
  <2> TAKE j \in 1..n
  <2>1. p[j] \in 1..v.count /\ v.face[p[j]].id = other[j] /\ j \in 1..Len(other)
    BY <1>0
  <2> QED BY <1>1, <2>1, InOrderAt
<1> HIDE DEF a
<1>5. Distinct(a)
  <2> SUFFICES ASSUME NEW j \in 1..n, NEW k \in 1..n, a.face[j].id = a.face[k].id PROVE j = k
    BY <1>3 DEF Distinct
  <2>1. p[j] \in 1..n /\ p[k] \in 1..n /\ v.face[p[j]].id = v.face[p[k]].id
    BY <1>0, <1>4
  <2>2. p[j] = p[k]
    BY <1>1, <2>1 DEF Distinct
  <2>3. p[p[j]] = j /\ p[p[k]] = k
    BY <1>0
  <2> QED BY <2>2, <2>3
<1>6. \A j \in 1..n : b.face[j] = a.face[p[j]]
  <2> TAKE j \in 1..n
  <2>1. p[j] \in 1..a.count /\ j \in 1..Len(order)
    BY <1>0, <1>3
  <2>2. a.face[p[j]].id = order[j]
    <3>1. p[j] \in 1..n /\ p[p[j]] = j /\ order[j] = v.face[j].id
      BY <1>0
    <3>2. a.face[p[j]] = v.face[p[p[j]]]
      BY <1>4, <3>1
    <3> QED BY <3>1, <3>2
  <2> QED BY <1>2, <1>5, <2>1, <2>2, InOrderAt
<1> HIDE DEF b
<1>7. ASSUME NEW j \in 1..n PROVE b.face[j] = v.face[j]
  <2>1. p[j] \in 1..n /\ p[p[j]] = j
    BY <1>0
  <2> QED BY <1>4, <1>6, <2>1
<1>8. b = v
  BY <1>1, <1>2, <1>3, <1>7, SameView
<1>9. Seen(a, does)
  <2>1. \A j \in 1..n : IsLayer(a.face[j]) /\ a.face[j].left \in Int
    BY <1>0, <1>1, <1>4
  <2> QED BY <1>2, <1>3, <1>5, <2>1 DEF Seen
<1>10. \A j \in 1..n : a.face[j].id = other[j]
  BY <1>0, <1>4
<1> QED BY <1>8, <1>9, <1>10 DEF a, b

\* The later move of the layers is the one that counts, and a move to where they are is none.
LEMMA MovedTwice ==
  ASSUME NEW does, NEW v, Seen(v, does)
  PROVE  /\ \A k, l, s, t : Moved(Moved(v, k, s), l, t) = Moved(v, l, t)
         /\ \A l : (\A j \in 1..v.count : l[v.face[j].id] = v.face[j].left) => Moved(v, l, v.size) = v
<1> DEFINE n == v.count
<1>1. IsView(v) /\ n \in Nat /\ \A j \in 1..n : IsLayer(v.face[j])
  BY DEF Seen, IsView
<1>2. ASSUME NEW w, NEW l, NEW s
      PROVE  /\ Moved(w, l, s).size = s /\ Moved(w, l, s).count = w.count
             /\ \A j \in 1..w.count : Moved(w, l, s).face[j] = [w.face[j] EXCEPT !["left"] = l[w.face[j].id]]
  BY DEF Moved
<1>3. ASSUME NEW w, IsView(w), NEW l, NEW s PROVE IsView(Moved(w, l, s))
  BY <1>3, MutationsOfViews
<1>4. "left" \in Fields /\ "id" \in Fields \ {"left"}
  BY DEF Fields
<1>5. ASSUME NEW k, NEW l, NEW s, NEW t PROVE Moved(Moved(v, k, s), l, t) = Moved(v, l, t)
  <2> DEFINE a == Moved(v, k, s)
             b == Moved(a, l, t)
             c == Moved(v, l, t)
  <2>1. IsView(a) /\ IsView(b) /\ IsView(c)
    BY <1>1, <1>3
  <2>2. a.count = n /\ b.size = t /\ b.count = a.count /\ c.size = t /\ c.count = n
    BY <1>2
  <2>3. \A j \in 1..n : a.face[j] = [v.face[j] EXCEPT !["left"] = k[v.face[j].id]]
    BY <1>2
  <2>4. \A j \in 1..a.count : b.face[j] = [a.face[j] EXCEPT !["left"] = l[a.face[j].id]]
    BY <1>2
  <2>5. \A j \in 1..n : c.face[j] = [v.face[j] EXCEPT !["left"] = l[v.face[j].id]]
    BY <1>2
  <2> HIDE DEF a, b, c
  <2>6. ASSUME NEW j \in 1..n PROVE b.face[j] = c.face[j]
    <3> DEFINE o == v.face[j]
               x == k[o.id]
               p == a.face[j]
               f == "left"
               g == "id"
               y == l[o.id]
    <3>1. IsLayer(o) /\ p = [o EXCEPT ![f] = x]
      BY <1>1, <2>3
    <3>2. f \in Fields /\ g \in Fields \ {f}
      BY <1>4
    <3>3. p[g] = o[g]
      <4> HIDE DEF o, p, x, f, g
      <4> QED BY <3>1, <3>2, FieldSet
    <3>4. b.face[j] = [p EXCEPT ![f] = y]
      BY <2>2, <2>4, <3>3
    <3>5. c.face[j] = [o EXCEPT ![f] = y]
      BY <2>5
    <3>6. [[o EXCEPT ![f] = x] EXCEPT ![f] = y] = [o EXCEPT ![f] = y]
      <4> HIDE DEF o, x, f, y
      <4> QED BY <3>1, <3>2, FieldTwice
    <3> HIDE DEF o, p, x, f, y
    <3> QED BY <3>1, <3>4, <3>5, <3>6
  <2>7. b = c
    BY <2>1, <2>2, <2>6, SameView
  <2> QED BY <2>7 DEF a, b, c
<1>6. ASSUME NEW l, \A j \in 1..n : l[v.face[j].id] = v.face[j].left PROVE Moved(v, l, v.size) = v
  <2> DEFINE a == Moved(v, l, v.size)
  <2>1. IsView(a) /\ a.size = v.size /\ a.count = n
        /\ \A j \in 1..n : a.face[j] = [v.face[j] EXCEPT !["left"] = l[v.face[j].id]]
    BY <1>1, <1>2, <1>3
  <2> HIDE DEF a
  <2>2. ASSUME NEW j \in 1..n PROVE a.face[j] = v.face[j]
    <3> DEFINE o == v.face[j]
               f == "left"
    <3>1. IsLayer(o) /\ a.face[j] = [o EXCEPT ![f] = o[f]]
      BY <1>1, <1>6, <2>1
    <3>2. f \in Fields
      BY <1>4
    <3> HIDE DEF o, f
    <3>3. a.face[j] = o
      BY <3>1, <3>2, FieldTwice
    <3> QED BY <3>3 DEF o
  <2>3. a = v
    BY <1>1, <2>1, <2>2, SameView
  <2> QED BY <2>3 DEF a
<1> QED BY <1>5, <1>6

\* Views of which the layers were moved are seen.
LEMMA MovedIsSeen ==
  ASSUME NEW does, NEW v, Seen(v, does), NEW l, NEW s, \A j \in 1..v.count : l[v.face[j].id] \in Int
  PROVE  Seen(Moved(v, l, s), does)
<1> DEFINE n == v.count
           a == Moved(v, l, s)
<1>1. IsView(v) /\ n \in Nat /\ \A j \in 1..n : IsLayer(v.face[j])
  BY DEF Seen, IsView
<1>2. IsView(a)
  BY <1>1, MutationsOfViews
<1>3. /\ a.count = n
      /\ \A j \in 1..n : a.face[j] = [v.face[j] EXCEPT !["left"] = l[v.face[j].id]]
  BY DEF Moved
<1> HIDE DEF a
<1>4. ASSUME NEW j \in 1..n PROVE IsLayer(a.face[j]) /\ a.face[j].left \in Int /\ a.face[j].id = v.face[j].id
  <2> DEFINE o == v.face[j]
             f == "left"
             g == "id"
             x == l[o.id]
             p == a.face[j]
  <2>1. IsLayer(o) /\ f \in Fields /\ g \in Fields \ {f} /\ x \in Int
    BY <1>1 DEF Fields
  <2>2. p = [o EXCEPT ![f] = x]
    BY <1>3
  <2>3. IsLayer(p) /\ p[f] = x /\ p[g] = o[g]
    <3> HIDE DEF o, f, g, x, p
    <3>1. IsLayer([o EXCEPT ![f] = x])
      BY <2>1, FieldSet
    <3>2. p[g] = o[g]
      BY <2>1, <2>2, FieldSet
    <3>3. p[f] = x
      BY <2>1, <2>2 DEF IsLayer
    <3> QED BY <2>2, <3>1, <3>2, <3>3
  <2> QED BY <2>1, <2>3
<1>5. "text" \notin does => Distinct(a)
  BY <1>3, <1>4 DEF Seen, Distinct
<1> QED BY <1>2, <1>3, <1>4, <1>5 DEF Seen, a

\* What the orders and offsets of a closure name is there, and nothing else is.
IdsSeen(v) == {v.face[j].id : j \in 1..v.count}
FindsOne(c, v) ==
  /\ c.do = "reorder" => Range(c.order) \subseteq IdsSeen(v)
  /\ c.do = "offsets" => IdsSeen(v) \subseteq DOMAIN c.left
Finds(q, v) == \A n \in DOMAIN q : FindsOne(q[n], v)

\* Moving the layers leaves them what they are.
LEMMA MovedIds == ASSUME NEW does, NEW v, Seen(v, does), NEW l, NEW s PROVE IdsSeen(Moved(v, l, s)) = IdsSeen(v)
<1> DEFINE w == Moved(v, l, s)
           f == "left"
           g == "id"
<1>1. \A j \in 1..v.count : IsLayer(v.face[j])
  BY DEF Seen
<1>2. w.count = v.count /\ \A j \in 1..v.count : w.face[j] = [v.face[j] EXCEPT ![f] = l[v.face[j].id]]
  BY DEF Moved
<1>3. f \in Fields /\ g \in Fields \ {f}
  BY DEF Fields
<1>4. \A j \in 1..v.count : w.face[j][g] = v.face[j][g]
  <2> TAKE j \in 1..v.count
  <2> DEFINE o == v.face[j]
             x == l[v.face[j].id]
  <2>1. w.face[j] = [o EXCEPT ![f] = x] /\ IsLayer(o)
    BY <1>1, <1>2
  <2> HIDE DEF o, x, w, f, g
  <2>2. [o EXCEPT ![f] = x][g] = o[g]
    BY <1>3, <2>1, FieldSet
  <2> QED BY <2>1, <2>2 DEF o
<1> HIDE DEF w
<1> QED BY <1>2, <1>4 DEF IdsSeen, w

LEMMA FindsSaid == ASSUME NEW c, NEW v PROVE Finds(<<c>>, v) <=> FindsOne(c, v)
<1>1. DOMAIN <<c>> = {1} /\ <<c>>[1] = c
  OBVIOUS
<1> QED BY <1>1 DEF Finds

\* An entry leads from view v to view w and back.
Linked(s, v, w, does, h) ==
  /\ ClosureOf(s.undo, Len(h), does) /\ ClosureOf(s.redo, Len(h), does)
  /\ Effects(s.undo, w, does, h) = v /\ Effects(s.redo, v, does, h) = w
  /\ Finds(s.undo, w) /\ Finds(s.redo, v)
  /\ s.after = Look(w)

\* The entries of a manager lead from one of the views to the next.
Chain(m, views, does, h) ==
  /\ m.base = Look(views[0])
  /\ \A k \in 0..Len(m.stack) : Seen(views[k], does)
  /\ \A k \in 1..Len(m.stack) : Linked(m.stack[k], views[k - 1], views[k], does, h)

\* They do, and the one at the index is v.
Story(m, v, does, h) == \E views : Chain(m, views, does, h) /\ views[m.at] = v

\* More objects can only help.
LEMMA LinkedStays ==
  ASSUME NEW s, NEW v, NEW w, NEW does, NEW h, NEW k, Linked(s, v, w, does, h),
         Len(h) \in Nat, Len(k) \in Nat, Len(k) >= Len(h), Keeps(k, h, does)
  PROVE  Linked(s, v, w, does, k)
<1>1. ClosureOf(s.undo, Len(h), does) /\ ClosureOf(s.redo, Len(h), does)
  BY DEF Linked
<1>2. ClosureOf(s.undo, Len(k), does) /\ ClosureOf(s.redo, Len(k), does)
  BY <1>1, ClosureOfStays
<1>3. /\ \A x : Effects(s.undo, x, does, k) = Effects(s.undo, x, does, h)
      /\ \A x : Effects(s.redo, x, does, k) = Effects(s.redo, x, does, h)
  BY <1>1, EffectsKept
<1> QED BY <1>2, <1>3 DEF Linked

\* The story is told of more objects as it was of fewer.
LEMMA StoryStays ==
  ASSUME NEW m, NEW v, NEW does, NEW h, NEW k, Story(m, v, does, h),
         Len(h) \in Nat, Len(k) \in Nat, Len(k) >= Len(h), Keeps(k, h, does)
  PROVE  Story(m, v, does, k)
<1>1. PICK views : Chain(m, views, does, h) /\ views[m.at] = v
  BY DEF Story
<1>2. \A j \in 1..Len(m.stack) : Linked(m.stack[j], views[j - 1], views[j], does, k)
  <2> TAKE j \in 1..Len(m.stack)
  <2>1. Linked(m.stack[j], views[j - 1], views[j], does, h)
    BY <1>1 DEF Chain
  <2> QED BY <2>1, LinkedStays
<1>3. Chain(m, views, does, k)
  BY <1>1, <1>2 DEF Chain
<1> QED BY <1>1, <1>3 DEF Story

\* A manager without entries.
LEMMA EmptyStory ==
  ASSUME NEW m, m.stack = <<>>, m.at = 0, NEW v, NEW does, Seen(v, does), m.base = Look(v), NEW h
  PROVE  Story(m, v, does, h)
<1> DEFINE views == [k \in {0} |-> v]
<1>1. views[0] = v
  OBVIOUS
<1> HIDE DEF views
<1>2. Len(m.stack) = 0
  OBVIOUS
<1>3. Chain(m, views, does, h)
  BY <1>1, <1>2 DEF Chain
<1> QED BY <1>1, <1>3 DEF Story

\* The view at the index looks as the entry at the index says.
LEMMA StorySays ==
  ASSUME NEW m, NEW v, NEW does, NEW h, Story(m, v, does, h), Len(m.stack) \in Nat, m.at \in 0..Len(m.stack)
  PROVE  /\ Seen(v, does)
         /\ m.at = 0 => m.base = Look(v)
         /\ m.at # 0 => m.stack[m.at].after = Look(v)
<1>1. PICK views : Chain(m, views, does, h) /\ views[m.at] = v
  BY DEF Story
<1>2. m.at # 0 => m.at \in 1..Len(m.stack)
  OBVIOUS
<1>3. m.at # 0 => Linked(m.stack[m.at], views[m.at - 1], views[m.at], does, h)
  BY <1>1, <1>2 DEF Chain
<1> QED BY <1>1, <1>3 DEF Chain, Linked

\* The story goes on as an entry is undone,
LEMMA StoryUndone ==
  ASSUME NEW m, NEW v, NEW does, NEW h, Story(m, v, does, h), Len(m.stack) \in Nat, m.at \in 1..Len(m.stack),
         NEW u, u.stack = m.stack, u.at = m.at - 1, u.base = m.base
  PROVE  /\ ClosureOf(m.stack[m.at].undo, Len(h), does) /\ Finds(m.stack[m.at].undo, v)
         /\ Story(u, Effects(m.stack[m.at].undo, v, does, h), does, h)
<1>1. PICK views : Chain(m, views, does, h) /\ views[m.at] = v
  BY DEF Story
<1>2. Linked(m.stack[m.at], views[m.at - 1], views[m.at], does, h)
  BY <1>1 DEF Chain
<1>3. Chain(u, views, does, h)
  BY <1>1 DEF Chain
<1> QED BY <1>1, <1>2, <1>3 DEF Story, Linked

\* or redone.
LEMMA StoryRedone ==
  ASSUME NEW m, NEW v, NEW does, NEW h, Story(m, v, does, h), Len(m.stack) \in Nat, m.at \in 0..Len(m.stack),
         m.at < Len(m.stack), NEW u, u.stack = m.stack, u.at = m.at + 1, u.base = m.base
  PROVE  /\ ClosureOf(m.stack[m.at + 1].redo, Len(h), does) /\ Finds(m.stack[m.at + 1].redo, v)
         /\ Story(u, Effects(m.stack[m.at + 1].redo, v, does, h), does, h)
<1>1. PICK views : Chain(m, views, does, h) /\ views[m.at] = v
  BY DEF Story
<1>0. m.at + 1 \in 1..Len(m.stack) /\ (m.at + 1) - 1 = m.at
  OBVIOUS
<1>2. Linked(m.stack[m.at + 1], views[(m.at + 1) - 1], views[m.at + 1], does, h)
  BY <1>0, <1>1 DEF Chain
<1>3. Chain(u, views, does, h)
  BY <1>1 DEF Chain
<1> QED BY <1>0, <1>1, <1>2, <1>3 DEF Story, Linked

\* saveState adds an entry to the story; when it drops the oldest, the view that one led to
\* is what there was before the first.
LEMMA StorySaved ==
  ASSUME NEW m, NEW s, Orderly(m), IsState(s), NEW v, NEW w, NEW does, NEW h,
         Story(m, v, does, h), Seen(w, does), Linked(s, v, w, does, h)
  PROVE  Story(SaveState(m, s), w, does, h)
<1> STATES_TO_SAVE \in Nat \ {0}  BY HistoryAssumption
<1> DEFINE t == [s EXCEPT !.no = m.stored + 1]
           q == m.stack
           kept == Append(SubSeq(q, 1, m.at), t)
           over == Len(kept) > STATES_TO_SAVE
           S == Range(q) \union {t}
           u == SaveState(m, s)
           r == u.stack
<1>1. /\ r = IF over THEN Tail(kept) ELSE kept
      /\ u.at = IF over THEN STATES_TO_SAVE ELSE Len(kept)
      /\ u.base = IF over THEN Head(kept).after ELSE m.base
  BY SavedManager DEF Orderly
<1>2. Linked(t, v, w, does, h)
  <2>1. t.undo = s.undo /\ t.redo = s.redo /\ t.after = s.after
    BY DEF IsState
  <2> QED BY <2>1 DEF Linked
<1>3. q \in Seq(Range(q)) /\ Len(q) \in Nat /\ m.at \in 0..Len(q) /\ Len(q) <= STATES_TO_SAVE
  BY DEF Orderly, IsStack
<1>p. PICK views : Chain(m, views, does, h) /\ views[m.at] = v
  BY DEF Story
<1>4. /\ m.base = Look(views[0])
      /\ \A k \in 0..Len(q) : Seen(views[k], does)
      /\ \A k \in 1..Len(q) : Linked(q[k], views[k - 1], views[k], does, h)
  BY <1>p DEF Chain
<1> HIDE DEF t, q, S, r, u
<1>5. /\ kept \in Seq(S) /\ Len(kept) = m.at + 1
      /\ \A i \in 1..m.at : kept[i] = q[i]
      /\ kept[m.at + 1] = t
  <2>1. SubSeq(q, 1, m.at) \in Seq(Range(q)) /\ Len(SubSeq(q, 1, m.at)) = m.at
        /\ \A i \in 1..m.at : SubSeq(q, 1, m.at)[i] = q[i]
    BY <1>3
  <2>2. SubSeq(q, 1, m.at) \in Seq(S) /\ t \in S
    BY <2>1 DEF S
  <2> QED BY <1>3, <2>1, <2>2
<1> HIDE DEF kept
<1> DEFINE a == m.at
           new == [k \in 0..(a + 1) |-> IF k = a + 1 THEN w ELSE views[k]]
<1>6. a \in Nat /\ a <= STATES_TO_SAVE /\ a <= Len(q)
  BY <1>3
<1>7. /\ new[a + 1] = w /\ \A k \in 0..a : new[k] = views[k]
  BY <1>6
<1> HIDE DEF new
<1>8. \A k \in 0..(a + 1) : Seen(new[k], does)
  <2> TAKE k \in 0..(a + 1)
  <2>1. CASE k = a + 1
    BY <1>7, <2>1
  <2>2. CASE k # a + 1
    BY <1>3, <1>4, <1>6, <1>7, <2>2
  <2> QED BY <2>1, <2>2
<1>9. \A k \in 1..(a + 1) : Linked(kept[k], new[k - 1], new[k], does, h)
  <2> TAKE k \in 1..(a + 1)
  <2>1. CASE k = a + 1
    <3>1. new[k - 1] = v /\ new[k] = w /\ kept[k] = t
      BY <1>p, <1>5, <1>6, <1>7, <2>1
    <3> QED BY <1>2, <3>1
  <2>2. CASE k # a + 1
    <3>1. k \in 1..a /\ k \in 1..Len(q) /\ k - 1 \in 0..a
      BY <1>3, <1>6, <2>2
    <3>2. new[k - 1] = views[k - 1] /\ new[k] = views[k] /\ kept[k] = q[k]
      BY <1>5, <1>7, <3>1
    <3> QED BY <1>4, <3>1, <3>2
  <2> QED BY <2>1, <2>2
<1>10. CASE ~over
  <2>1. r = kept /\ u.at = a + 1 /\ u.base = m.base /\ Len(r) = a + 1
    BY <1>1, <1>5, <1>10
  <2>2. u.base = Look(new[0])
    BY <1>4, <1>6, <1>7, <2>1
  <2>3. Chain(u, new, does, h)
    BY <1>8, <1>9, <2>1, <2>2 DEF Chain, r
  <2>4. new[u.at] = w
    BY <1>7, <2>1
  <2> QED BY <2>3, <2>4 DEF Story, u
<1>11. CASE over
  <2>1. a = STATES_TO_SAVE /\ a >= 1
    BY <1>5, <1>6, <1>11
  <2>2. kept # <<>> /\ kept[1] = q[1]
    BY <1>5, <1>6, <2>1
  <2>3. /\ Head(kept) = q[1]
        /\ Len(Tail(kept)) = a /\ \A i \in 1..a : Tail(kept)[i] = kept[i + 1]
    BY <1>5, <1>6, <2>2, HeadTailProperties
  <2>4. r = Tail(kept) /\ u.at = a /\ u.base = q[1].after
    BY <1>1, <1>11, <2>1, <2>3
  <2> DEFINE next == [k \in 0..a |-> new[k + 1]]
  <2>5. \A k \in 0..a : next[k] = new[k + 1]
    OBVIOUS
  <2> HIDE DEF next
  <2>6. u.base = Look(next[0])
    <3>1. Linked(q[1], views[1 - 1], views[1], does, h)
      BY <1>3, <1>4, <1>6, <2>1
    <3>2. next[0] = views[1]
      BY <1>6, <1>7, <2>1, <2>5
    <3> QED BY <2>4, <3>1, <3>2 DEF Linked
  <2>7. Len(r) = a
    BY <2>3, <2>4
  <2>8. \A k \in 0..a : Seen(next[k], does)
    BY <1>6, <1>8, <2>5
  <2>9. \A k \in 1..a : Linked(r[k], next[k - 1], next[k], does, h)
    <3> TAKE k \in 1..a
    <3>1. r[k] = kept[k + 1] /\ k + 1 \in 1..(a + 1) /\ next[k - 1] = new[(k - 1) + 1] /\ next[k] = new[k + 1]
          /\ (k - 1) + 1 = (k + 1) - 1
      BY <1>6, <2>3, <2>4, <2>5
    <3>2. Linked(kept[k + 1], new[(k + 1) - 1], new[k + 1], does, h)
      BY <1>9, <3>1
    <3> QED BY <3>1, <3>2
  <2>10. Chain(u, next, does, h)
    BY <2>6, <2>7, <2>8, <2>9 DEF Chain, r
  <2>11. next[u.at] = w
    BY <1>6, <1>7, <2>4, <2>5
  <2> QED BY <2>10, <2>11 DEF Story, u
<1> QED BY <1>10, <1>11

\* The field that edits with such a key set.
FieldOf(name, f) ==
  \/ name = "layerName" /\ f = "name"
  \/ name = "layerVisibility" /\ f = "visible"
  \/ name \in {"layerFiltersEnabled", "filters", "pasteFilters"} /\ f = "filters"
  \/ name \in {"maskAdd", "maskRemove"} /\ f = "mask"

\* Command c sets what every edit with this key sets: of those with the same key the later counts.
Aims(c, key) ==
  \/ c.do = "update" /\ c.index = key[2] /\ FieldOf(key[1], c.field)
  \/ c.do = "transform" /\ c.index = key[2] /\ key[1] = "rotation"
  \/ c.do = "offsets" /\ key[1] = "resizeCanvas"
Aimed(s) == \E a, b : s.undo = <<a>> /\ s.redo = <<b>> /\ Aims(a, s.key) /\ Aims(b, s.key)

Once == {"layerAdd", "duplicate", "layerRemove", "merge"}

\* What is in the queue: an edit that may be repeated, one that is not, or an order that is
\* the one of the view.
KeyTells(s, v, does) ==
  \/ Aimed(s)
  \/ s.key[1] \in Once
  \/ /\ s.key[1] = "reorderLayers" /\ "text" \notin does
     /\ \A j \in 1..v.count : s.key[2][j] = v.face[j].id

\* Of two commands with the same aim the later counts.
LEMMA LaterCounts ==
  ASSUME NEW key, NEW does, NEW a, NEW b, Aims(a, key), Aims(b, key), NEW h, NEW v, Seen(v, does)
  PROVE  Effect(b, Effect(a, v, does, h), does, h) = Effect(b, v, does, h)
<1>1. CASE a.do = "update"
  <2>1. b.do = "update" /\ b.index = a.index /\ b.field = a.field /\ a.field \in Fields
    BY <1>1 DEF Aims, FieldOf, Fields
  <2>2. \A w : Effect(a, w, does, h) = SetField(w, a.index, a.field, a.value)
    BY <1>1 DEF Effect
  <2>3. \A w : Effect(b, w, does, h) = SetField(w, a.index, a.field, b.value)
    BY <2>1 DEF Effect
  <2>4. SetField(SetField(v, a.index, a.field, a.value), a.index, a.field, b.value) = SetField(v, a.index, a.field, b.value)
    BY <2>1, SetTwice
  <2> QED BY <2>2, <2>3, <2>4
<1>2. CASE a.do = "transform"
  <2>1. b.do = "transform" /\ b.index = a.index /\ "rotation" \in Fields
    BY <1>2 DEF Aims, FieldOf, Fields
  <2>2. \A w : Effect(a, w, does, h) = SetField(w, a.index, "rotation", a.value)
    BY <1>2 DEF Effect
  <2>3. \A w : Effect(b, w, does, h) = SetField(w, a.index, "rotation", b.value)
    BY <2>1 DEF Effect
  <2>4. SetField(SetField(v, a.index, "rotation", a.value), a.index, "rotation", b.value) = SetField(v, a.index, "rotation", b.value)
    BY <2>1, SetTwice
  <2> QED BY <2>2, <2>3, <2>4
<1>3. CASE a.do = "offsets"
  <2>1. b.do = "offsets"
    BY <1>3 DEF Aims, FieldOf
  <2>2. \A w : Effect(a, w, does, h) = Moved(w, a.left, a.size)
    BY <1>3 DEF Effect
  <2>3. \A w : Effect(b, w, does, h) = Moved(w, b.left, b.size)
    BY <2>1 DEF Effect
  <2>4. Moved(Moved(v, a.left, a.size), b.left, b.size) = Moved(v, b.left, b.size)
    BY MovedTwice
  <2> QED BY <2>2, <2>3, <2>4
<1> QED BY <1>1, <1>2, <1>3 DEF Aims

\* The layers that are seen stay the same when a command with the aim of another runs.
LEMMA AimedFinds ==
  ASSUME NEW key, NEW does, NEW a, NEW b, Aims(a, key), Aims(b, key), NEW h, NEW v, Seen(v, does)
  PROVE  FindsOne(a, Effect(b, v, does, h)) <=> FindsOne(a, v)
<1>1. CASE a.do # "offsets"
  BY <1>1 DEF Aims, FindsOne
<1>2. CASE a.do = "offsets"
  <2>1. b.do = "offsets"
    BY <1>2 DEF Aims, FieldOf
  <2>2. Effect(b, v, does, h) = Moved(v, b.left, b.size)
    BY <2>1 DEF Effect
  <2>3. IdsSeen(Moved(v, b.left, b.size)) = IdsSeen(v)
    BY MovedIds
  <2> QED BY <1>2, <2>2, <2>3 DEF FindsOne
<1> QED BY <1>1, <1>2

\* Merged in the queue, two edits lead from the view before the first to the one after the second.
LEMMA LinkedMerged ==
  ASSUME NEW q, NEW s, IsState(q), NEW does, NEW u, NEW v, NEW w, NEW h, Seen(u, does), Seen(v, does),
         Linked(q, u, v, does, h), Linked(s, v, w, does, h), q.key = s.key, Aimed(q), Aimed(s)
  PROVE  Linked(Merged(q, s), u, w, does, h) /\ Aimed(Merged(q, s))
<1> DEFINE m == Merged(q, s)
<1>1. m.key = q.key /\ m.undo = q.undo /\ m.redo = s.redo /\ m.after = s.after
  <2> DEFINE r == s.redo
             f == s.after
  <2>1. m = [q EXCEPT !.redo = r, !.after = f]
    BY DEF Merged
  <2> HIDE DEF r, f, m
  <2>2. m = [key |-> q.key, undo |-> q.undo, redo |-> r, resources |-> q.resources, no |-> q.no, after |-> f]
    BY <2>1 DEF IsState
  <2> QED BY <2>2 DEF r, f
<1> HIDE DEF m
<1>2. PICK a, b : q.undo = <<a>> /\ q.redo = <<b>> /\ Aims(a, q.key) /\ Aims(b, q.key)
  BY DEF Aimed
<1>3. PICK c, d : s.undo = <<c>> /\ s.redo = <<d>> /\ Aims(c, q.key) /\ Aims(d, q.key)
  BY DEF Aimed
<1>4. Effect(a, v, does, h) = u /\ Effect(b, u, does, h) = v
  BY <1>2, EffectsOne DEF Linked
<1>5. Effect(c, w, does, h) = v /\ Effect(d, v, does, h) = w
  BY <1>3, EffectsOne DEF Linked
<1>6. Effect(d, Effect(b, u, does, h), does, h) = Effect(d, u, does, h)
  BY <1>2, <1>3, LaterCounts
<1>7. Effect(a, Effect(d, v, does, h), does, h) = Effect(a, v, does, h)
  BY <1>2, <1>3, LaterCounts
<1>8. Effects(q.undo, w, does, h) = u
  BY <1>2, <1>4, <1>5, <1>7, EffectsOne
<1>9. Effects(s.redo, u, does, h) = w
  BY <1>3, <1>4, <1>5, <1>6, EffectsOne
<1>f. Finds(q.undo, w) /\ Finds(s.redo, u)
  <2>1. FindsOne(a, v) /\ FindsOne(d, v)
    BY <1>2, <1>3, FindsSaid DEF Linked
  <2>2. FindsOne(a, w) /\ FindsOne(d, u)
    BY <1>2, <1>3, <1>4, <1>5, <2>1, AimedFinds
  <2> QED BY <1>2, <1>3, <2>2, FindsSaid
<1>10. Linked(m, u, w, does, h)
  BY <1>1, <1>8, <1>9, <1>f DEF Linked
<1>11. Aimed(m)
  BY <1>1, <1>2, <1>3 DEF Aimed
<1> QED BY <1>10, <1>11 DEF m

\* The manager and what is in the queue tell how the document came to be seen as w.
Told(m, q, w, does, h) ==
  /\ q = None => Story(m, w, does, h)
  /\ q # None => /\ KeyTells(q, w, does)
                 /\ \E v : Story(m, v, does, h) /\ Linked(q, v, w, does, h)

\* Closures refer to layers by index, and are repeated on documents with other objects.  A session
\* in which layers are turned or moved in place does not put objects back that were taken out.
Plain(does) ==
  /\ does \cap {"paint", "panel", "drag"} = {}
  /\ does \cap {"rotate", "resize"} = {} \/ does \cap {"add", "duplicate", "remove", "merge"} = {}
  /\ "text" \in does => does \cap {"reorder", "resize"} = {}

Picture == View(session.does, Document)

\* While mergeLayerDown waits nothing happens to its layers.
MergeWaits ==
  /\ Fixed(session.does) /\ merging.index \in Nat \ {0} /\ merging.index + 1 <= Len(layers)
  /\ layers[merging.index] = merging.below /\ layers[merging.index + 1] = merging.above
  /\ merging.strokes = {} /\ Len(heap) < MaxObjects /\ queue.key # <<"merge", merging.index>>

IndexInv ==
  /\ TypeInv
  /\ Sound(Document, session.does) /\ Seen(Picture, session.does) /\ Len(heap) <= MaxObjects
  /\ stroke = NoStroke /\ converting = {}
  /\ Told(Manager, queue, Picture, session.does, heap)
  /\ merging # NoMerge => MergeWaits

\* A state is not what the queue holds when it is empty.
LEMMA StateIsThere == ASSUME NEW s, IsState(s) PROVE s # None
<1> DEFINE t == [key |-> s.key, undo |-> s.undo, redo |-> s.redo, resources |-> s.resources, no |-> s.no, after |-> s.after]
<1>1. "undo" \in DOMAIN t
  OBVIOUS
<1>2. "undo" \notin DOMAIN None
  BY DEF None
<1>3. s = t
  BY DEF IsState
<1> HIDE DEF t
<1> QED BY <1>1, <1>2, <1>3

\* When the queue has been processed the manager tells it.
LEMMA ToldProcessed ==
  ASSUME HistoryInv, NEW w, NEW does, Seen(w, does), NEW h, Told(Manager, queue, w, does, h)
  PROVE  Story(ProcessedQueue(Manager), w, does, h)
<1>1. CASE queue = None
  BY <1>1 DEF Told, ProcessedQueue
<1>2. CASE queue # None
  <2>1. PICK v : Story(Manager, v, does, h) /\ Linked(queue, v, w, does, h)
    BY <1>2 DEF Told
  <2>2. IsState(queue) /\ Orderly(Manager)
    BY <1>2 DEF HistoryInv
  <2>3. Story(SaveState(Manager, queue), w, does, h)
    BY <2>1, <2>2, StorySaved
  <2> QED BY <1>2, <2>3 DEF ProcessedQueue
<1> QED BY <1>1, <1>2

\* A manager that was taken over tells what it told.
LEMMA ToldTakenOver ==
  ASSUME NEW m, Orderly(m), NEW w, NEW does, NEW h, Story(m, w, does, h), BecomeManager(m)
  PROVE  Story(Manager', w, does, h)
<1>1. Manager' = [stack |-> m.stack, at |-> m.at, stored |-> m.stored, blobUrls |-> m.blobUrls,
                  base |-> m.base, branched |-> m.branched]
  BY DEF Manager, BecomeManager
<1>2. Manager' = m
  BY <1>1 DEF Orderly, Bounded, IsManager
<1> QED BY <1>2

\* Enqueueing an entry that leads from what is seen to w.
LEMMA EnqueueTold ==
  ASSUME IndexInv, NEW s, IsState(s), EnqueueState(s),
         NEW k, Len(k) \in Nat, Len(k) >= Len(heap), Keeps(k, heap, session.does),
         NEW w, Seen(w, session.does), Linked(s, Picture, w, session.does, k), KeyTells(s, w, session.does),
         queue # None /\ queue.key = s.key => Aimed(queue) /\ Aimed(s)
  PROVE  Told(Manager', queue', w, session.does, k)
<1> DEFINE does == session.does
<1>1. /\ HistoryInv /\ Len(heap) \in Nat /\ Seen(Picture, does)
      /\ Told(Manager, queue, Picture, does, heap)
  BY HeapCount DEF IndexInv, TypeInv
<1>2. CASE queue # None /\ queue.key = s.key
  <2>1. queue' = Merged(queue, s) /\ UNCHANGED manager
    BY <1>2 DEF EnqueueState
  <2>2. Manager' = Manager
    BY <2>1 DEF Manager, manager
  <2>3. PICK v : Story(Manager, v, does, heap) /\ Linked(queue, v, Picture, does, heap)
    BY <1>1, <1>2 DEF Told
  <2>4. Story(Manager, v, does, k) /\ Linked(queue, v, Picture, does, k)
    BY <1>1, <2>3, StoryStays, LinkedStays
  <2>5. Seen(v, does)
    <3>1. Len(Manager.stack) \in Nat /\ Manager.at \in 0..Len(Manager.stack)
      BY <1>1 DEF HistoryInv, Orderly, IsStack
    <3> QED BY <2>3, <3>1, StorySays
  <2>6. IsState(queue) /\ Aimed(queue) /\ Aimed(s)
    BY <1>1, <1>2 DEF HistoryInv
  <2>7. Linked(queue', v, w, does, k) /\ Aimed(queue')
    BY <1>1, <1>2, <2>1, <2>4, <2>5, <2>6, LinkedMerged
  <2>8. queue' # None
    BY <2>1, <2>6, MergedIsState, StateIsThere
  <2> HIDE DEF does
  <2> QED BY <2>2, <2>4, <2>7, <2>8 DEF Told, KeyTells, does
<1>3. CASE ~(queue # None /\ queue.key = s.key)
  <2> DEFINE m == ProcessedQueue(Manager)
  <2>1. queue' = s /\ BecomeManager(m)
    BY <1>3 DEF EnqueueState
  <2>2. Story(m, Picture, does, heap) /\ Orderly(m)
    BY <1>1, ToldProcessed, QueueOrderly
  <2> HIDE DEF m
  <2>3. Story(Manager', Picture, does, heap)
    BY <2>1, <2>2, ToldTakenOver
  <2>4. Story(Manager', Picture, does, k)
    BY <1>1, <2>3, StoryStays
  <2>5. queue' # None
    BY <2>1, StateIsThere
  <2> QED BY <2>1, <2>4, <2>5 DEF Told
<1> QED BY <1>2, <1>3

\* A document taken over is as sound as it was, and is seen the same.
LEMMA BecomesSound ==
  ASSUME NEW d, NEW does, Become(d), Sound(d, does), WellFormed(Document)'
  PROVE  Sound(Document', does) /\ View(does, Document') = View(does, d)
<1>1. /\ Document'.heap = d.heap /\ Document'.layers = d.layers /\ Document'.bitmap = d.bitmap
      /\ Document'.size = d.size /\ Document'.loading = d.loading /\ Document'.ids = d.ids
  BY DEF Become, Document
<1> DEFINE e == Document'
<1>2. WellFormed(e)
  OBVIOUS
<1> HIDE DEF e
<1>3. e.heap = d.heap /\ e.layers = d.layers /\ e.bitmap = d.bitmap /\ e.size = d.size /\ e.loading = d.loading /\ e.ids = d.ids
  BY <1>1 DEF e
<1>4. Sound(e, does)
  BY <1>2, <1>3 DEF Sound, RefsDistinct
<1>5. View(does, e) = View(does, d)
  BY <1>3 DEF View
<1> QED BY <1>4, <1>5 DEF e

\* An edit that leads to document d, and enqueues an entry that leads there and back, keeps the invariant.
LEMMA Edited ==
  ASSUME IndexInv, TypeInv', NEW d, Become(d), Sound(d, session.does), Len(d.heap) \in Nat, Len(d.heap) >= Len(heap),
         Len(d.heap) <= MaxObjects, Keeps(d.heap, heap, session.does), Seen(View(session.does, d), session.does),
         NEW s, IsState(s), EnqueueState(s), Linked(s, Picture, View(session.does, d), session.does, d.heap),
         KeyTells(s, View(session.does, d), session.does),
         queue # None /\ queue.key = s.key => Aimed(queue) /\ Aimed(s),
         merging' = NoMerge, stroke' = stroke /\ converting' = converting, session' = session
  PROVE  IndexInv'
<1> DEFINE does == session.does
           w == View(does, d)
<1>1. WellFormed(Document)'
  BY DEF TypeInv
<1>2. Sound(Document', does) /\ View(does, Document') = w
  BY <1>1, BecomesSound
<1>3. heap' = d.heap
  BY DEF Become
<1>4. Told(Manager', queue', w, does, d.heap)
  BY EnqueueTold
<1>5. Picture' = w
  BY <1>2 DEF Picture
<1>6. stroke' = NoStroke /\ converting' = {}
  BY DEF IndexInv
<1> HIDE DEF w
<1>7. Seen(w, does)
  BY DEF w
<1> QED BY <1>2, <1>3, <1>4, <1>5, <1>6, <1>7 DEF IndexInv

\* What the invariant says of the document.
LEMMA PictureIs ==
  ASSUME IndexInv
  PROVE  /\ WellFormed(Document) /\ Sound(Document, session.does) /\ Len(heap) \in Nat /\ Len(layers) \in Nat
         /\ DOMAIN layers = 1..Len(layers) /\ Picture.count = Len(layers) /\ Picture.size = size
         /\ \A j \in 1..Len(layers) : /\ layers[j] \in 1..Len(heap) /\ IsLayer(heap[layers[j]])
                                      /\ Picture.face[j] = Face(session.does, heap[layers[j]])
                                      /\ \A g \in Fields \ {"id"} : Picture.face[j][g] = heap[layers[j]][g]
                                      /\ heap[layers[j]].id \in 1..ids
         /\ "text" \notin session.does => \A j \in 1..Len(layers) : Picture.face[j].id = heap[layers[j]].id
<1>1. TypeInv /\ WellFormed(Document) /\ Sound(Document, session.does)
  BY DEF IndexInv, TypeInv
<1>2. /\ Len(heap) \in Nat /\ IsHeap(heap, ids) /\ layers \in Seq(1..Len(heap))
      /\ DOMAIN layers = 1..Len(layers) /\ Len(layers) \in Nat
  BY <1>1, HeapCount
<1>3. \A j \in 1..Len(layers) : layers[j] \in 1..Len(heap)
  <2> DEFINE S == 1..Len(heap)
  <2>1. layers \in Seq(S)
    BY <1>2
  <2> HIDE DEF S
  <2>2. \A j \in 1..Len(layers) : layers[j] \in S
    BY <2>1
  <2> QED BY <2>2 DEF S
<1>4. /\ Picture.size = size /\ Picture.count = Len(layers)
      /\ \A j \in 1..Len(layers) : Picture.face[j] = Face(session.does, heap[layers[j]])
  BY <1>1, ViewIsView, DocumentParts DEF Picture
<1>5. \A j \in 1..Len(layers) : IsLayer(heap[layers[j]]) /\ heap[layers[j]].id \in 1..ids
  BY <1>2, <1>3 DEF IsHeap
<1>6. \A j \in 1..Len(layers) : \A g \in Fields \ {"id"} : Picture.face[j][g] = heap[layers[j]][g]
  <2> TAKE j \in 1..Len(layers)
  <2>1. IsLayer(heap[layers[j]])
    BY <1>5
  <2>2. \A g \in Fields \ {"id"} : Face(session.does, heap[layers[j]])[g] = heap[layers[j]][g]
    BY <2>1, FaceSet
  <2> QED BY <1>4, <2>2
<1>7. "text" \notin session.does => \A j \in 1..Len(layers) : Picture.face[j].id = heap[layers[j]].id
  BY <1>4 DEF Face
<1> QED BY <1>1, <1>2, <1>3, <1>4, <1>5, <1>6, <1>7

\* Committing one command that another takes back.
LEMMA CommitFollows ==
  ASSUME IndexInv, TypeInv', NEW action, NEW key, NEW a, NEW b, Commit(action, key, <<a>>, <<b>>), session.patient,
         IsCommand(a, Len(heap)), IsCommand(b, Len(heap)), CommandOf(a, session.does), CommandOf(b, session.does),
         b.do = "reorder" => Range(b.order) \subseteq IdsIn(Document),
         FindsOne(b, Picture), FindsOne(a, Effect(b, Picture, session.does, heap)),
         Effect(a, Effect(b, Picture, session.does, heap), session.does, heap) = Picture,
         Seen(Effect(b, Picture, session.does, heap), session.does),
         \A s : s.key = key /\ s.undo = <<a>> /\ s.redo = <<b>> =>
                  KeyTells(s, Effect(b, Picture, session.does, heap), session.does),
         queue # None /\ queue.key = key => Aimed(queue) /\ Aims(a, key) /\ Aims(b, key)
  PROVE  IndexInv'
<1> DEFINE does == session.does
           d == Run(<<b>>, Document)
           s == State(key, <<a>>, <<b>>, Shown(d))
           w == Effect(b, Picture, does, heap)
<1>1. Become(d) /\ EnqueueState(s) /\ merging' = merging /\ stroke' = stroke /\ converting' = converting /\ session' = session /\ MayEdit(action, key)
  BY DEF Commit
<1>2. merging' = NoMerge /\ Len(heap) < MaxObjects
  BY <1>1 DEF MayEdit, Waits, AtRest
<1>3. ClosureOf(<<a>>, Len(heap), does) /\ ClosureOf(<<b>>, Len(heap), does)
  BY DEF ClosureOf
<1>4. OrdersIn(<<b>>, IdsIn(Document))
  BY OneCommand
<1>5. RunIs(d, <<b>>, Document, does)
  <2>1. Sound(Document, does) /\ ("text" \notin does => Distinct(View(does, Document)))
    BY DEF IndexInv, Seen, Picture
  <2>2. ClosureOf(<<b>>, Len(Document.heap), does)
    BY <1>3, DocumentParts
  <2> HIDE DEF d, does
  <2> QED BY <1>4, <2>1, <2>2, RunSeen DEF d
<1>6. IsState(s) /\ s.key = key /\ s.undo = <<a>> /\ s.redo = <<b>> /\ s.after = Shown(d)
  BY StateIsState DEF State
<1> HIDE DEF d, s
<1>7. /\ Sound(d, does) /\ Keeps(d.heap, heap, does) /\ Len(heap) \in Nat
      /\ Len(d.heap) \in Len(heap)..(Len(heap) + 1) /\ View(does, d) = Effects(<<b>>, Picture, does, heap)
  BY <1>5, DocumentParts DEF RunIs, Picture
<1>8. View(does, d) = w
  BY <1>7, EffectsOne
<1>9. Len(d.heap) \in Nat /\ Len(d.heap) >= Len(heap) /\ Len(d.heap) <= MaxObjects
  BY <1>2, <1>7, HistoryAssumption
<1>10. s.after = Look(w)
  <2>1. d.ids <= MaxObjects + 1
    <3>1. d.ids <= Len(d.heap) /\ d.ids \in Nat
      BY <1>7 DEF Sound, WellFormed
    <3> QED BY <1>9, <3>1, HistoryAssumption
  <2> HIDE DEF does, w
  <2> QED BY <1>6, <1>7, <1>8, <2>1, ShownIsLook
<1>11. Linked(s, Picture, w, does, d.heap)
  <2>1. Effects(<<a>>, w, does, heap) = Picture /\ Effects(<<b>>, Picture, does, heap) = w
    BY EffectsOne
  <2>3. Finds(<<a>>, w) /\ Finds(<<b>>, Picture)
    BY FindsSaid
  <2>2. Linked(s, Picture, w, does, heap)
    BY <1>3, <1>6, <1>10, <2>1, <2>3 DEF Linked
  <2> HIDE DEF w, does
  <2> QED BY <1>7, <1>9, <2>2, LinkedStays
<1>12. KeyTells(s, w, does)
  BY <1>6
<1>13. queue # None /\ queue.key = s.key => Aimed(queue) /\ Aimed(s)
  BY <1>6 DEF Aimed
<1>14. Seen(w, does)
  OBVIOUS
<1> HIDE DEF w
<1> QED BY <1>1, <1>2, <1>6, <1>7, <1>8, <1>9, <1>11, <1>12, <1>13, <1>14, Edited

Following == IndexInv /\ session.patient /\ Plain(session.does)

\* What is in the queue with such a key may be repeated.
LEMMA QueueKnows ==
  ASSUME IndexInv, queue # None, queue.key[1] \notin Once, queue.key[1] # "reorderLayers"
  PROVE  Aimed(queue)
BY DEF IndexInv, Told, KeyTells

\* Setting a field.
LEMMA ChangeFollows ==
  ASSUME Following, TypeInv', NEW action, NEW k, NEW i \in DOMAIN layers, NEW f, FieldOf(k, f), NEW x,
         Change(action, k, i, f, x)
  PROVE  IndexInv'
<1> DEFINE y == Field(i, f)
           a == [do |-> "update", index |-> i, field |-> f, value |-> y]
           b == [do |-> "update", index |-> i, field |-> f, value |-> x]
           key == <<k, i>>
           does == session.does
           w == Effect(b, Picture, does, heap)
<1>1. Commit(action, key, <<a>>, <<b>>) /\ session.patient /\ IndexInv
  BY DEF Change, Following
<1>2. i \in 1..Len(layers) /\ Len(layers) \in Nat /\ f \in Fields \ {"id", "left"} /\ k \notin Once /\ k # "reorderLayers"
  BY <1>1, PictureIs DEF FieldOf, Fields, Once
<1>3. /\ a.do = "update" /\ a.index = i /\ a.field = f /\ a.value = y
      /\ b.do = "update" /\ b.index = i /\ b.field = f /\ b.value = x
      /\ key[1] = k /\ key[2] = i
  OBVIOUS
<1> HIDE DEF a, b, key
<1>4. /\ IsCommand(a, Len(heap)) /\ IsCommand(b, Len(heap)) /\ CommandOf(a, does) /\ CommandOf(b, does)
      /\ Aims(a, key) /\ Aims(b, key) /\ b.do # "reorder" /\ FindsOne(b, Picture) /\ FindsOne(a, w)
  BY <1>2, <1>3 DEF IsCommand, Verbs, Indexed, CommandOf, Aims, FindsOne
<1>5. w = SetField(Picture, i, f, x) /\ Effect(a, w, does, heap) = SetField(w, i, f, y)
  BY <1>3 DEF Effect
<1>6. Seen(Picture, does) /\ Picture.face[i][f] = y /\ i \in 1..Picture.count
  BY <1>1, <1>2, PictureIs DEF IndexInv, Field
<1> HIDE DEF y, w, does
<1>7. Seen(w, does)
  BY <1>2, <1>5, <1>6, SetIsSeen
<1>8. Effect(a, w, does, heap) = Picture
  <2>1. SetField(SetField(Picture, i, f, x), i, f, y) = SetField(Picture, i, f, y)
    BY <1>2, <1>6, SetTwice
  <2>2. SetField(Picture, i, f, Picture.face[i][f]) = Picture
    BY <1>2, <1>6, SetTwice
  <2> QED BY <1>5, <1>6, <2>1, <2>2
<1>9. queue # None /\ queue.key = key => Aimed(queue)
  BY <1>1, <1>2, <1>3, QueueKnows
<1>10. \A s : s.key = key /\ s.undo = <<a>> /\ s.redo = <<b>> => KeyTells(s, w, does)
  BY <1>4 DEF KeyTells, Aimed
<1> QED BY <1>1, <1>4, <1>7, <1>8, <1>9, <1>10, CommitFollows DEF w, does

\* Turning a layer.
LEMMA RotateFollows == ASSUME Following, TypeInv', NEW i \in DOMAIN layers, RotateLayer(i) PROVE IndexInv'
<1> DEFINE f == "rotation"
           k == "rotation"
           y == Field(i, f)
           x == 1 - Field(i, f)
           a == [do |-> "transform", index |-> i, value |-> y]
           b == [do |-> "transform", index |-> i, value |-> x]
           key == <<k, i>>
           does == session.does
           w == Effect(b, Picture, does, heap)
<1>1. Commit("rotate", key, <<a>>, <<b>>) /\ session.patient /\ IndexInv /\ ~Fixed(does) /\ "rotate" \in does
  <2>1. Commit("rotate", key, <<a>>, <<b>>)
    BY DEF RotateLayer
  <2>2. "rotate" \in does
    BY <2>1 DEF Commit, MayEdit
  <2> QED BY <2>1, <2>2 DEF Following, Fixed
<1>2. i \in 1..Len(layers) /\ Len(layers) \in Nat /\ f \in Fields \ {"id", "left"} /\ k \notin Once /\ k # "reorderLayers"
  BY <1>1, PictureIs DEF Fields, Once
<1>3. /\ a.do = "transform" /\ a.index = i /\ a.value = y
      /\ b.do = "transform" /\ b.index = i /\ b.value = x
      /\ key[1] = k /\ key[2] = i
  OBVIOUS
<1> HIDE DEF a, b, key
<1>4. /\ IsCommand(a, Len(heap)) /\ IsCommand(b, Len(heap)) /\ CommandOf(a, does) /\ CommandOf(b, does)
      /\ Aims(a, key) /\ Aims(b, key) /\ b.do # "reorder" /\ FindsOne(b, Picture) /\ FindsOne(a, w)
  BY <1>1, <1>2, <1>3 DEF IsCommand, Verbs, Indexed, CommandOf, Aims, FindsOne
<1>5. w = SetField(Picture, i, f, x) /\ Effect(a, w, does, heap) = SetField(w, i, f, y)
  BY <1>3 DEF Effect
<1>6. Seen(Picture, does) /\ Picture.face[i][f] = y /\ i \in 1..Picture.count
  BY <1>1, <1>2, PictureIs DEF IndexInv, Field
<1> HIDE DEF y, x, w, does, f, k
<1>7. Seen(w, does)
  BY <1>2, <1>5, <1>6, SetIsSeen
<1>8. Effect(a, w, does, heap) = Picture
  <2>1. SetField(SetField(Picture, i, f, x), i, f, y) = SetField(Picture, i, f, y)
    BY <1>2, <1>6, SetTwice
  <2>2. SetField(Picture, i, f, Picture.face[i][f]) = Picture
    BY <1>2, <1>6, SetTwice
  <2> QED BY <1>5, <1>6, <2>1, <2>2
<1>9. queue # None /\ queue.key = key => Aimed(queue)
  BY <1>1, <1>2, <1>3, QueueKnows
<1>10. \A s : s.key = key /\ s.undo = <<a>> /\ s.redo = <<b>> => KeyTells(s, w, does)
  BY <1>4 DEF KeyTells, Aimed
<1> QED BY <1>1, <1>4, <1>7, <1>8, <1>9, <1>10, CommitFollows DEF w, does

\* A patient user does not repeat at once what changes the number of layers.
LEMMA NotRepeated ==
  ASSUME session.patient, NEW action, NEW key, MayEdit(action, key), key[1] \in Once
  PROVE  queue.key # key
BY DEF MayEdit, Waits, Repeats, Once

\* Taking a layer out.
LEMMA RemoveFollows == ASSUME Following, TypeInv', NEW i \in DOMAIN layers, RemoveLayerAt(i) PROVE IndexInv'
<1> DEFINE o == layers[i]
           a == [do |-> "insert", index |-> i, object |-> o]
           b == [do |-> "remove", index |-> i]
           k == "layerRemove"
           key == <<k, i>>
           does == session.does
           w == Effect(b, Picture, does, heap)
<1>1. Commit("remove", key, <<a>>, <<b>>) /\ session.patient /\ IndexInv /\ Fixed(does) /\ queue.key # key
  <2>1. Commit("remove", key, <<a>>, <<b>>)
    BY DEF RemoveLayerAt
  <2>2. "remove" \in does /\ MayEdit("remove", key)
    BY <2>1 DEF Commit, MayEdit
  <2>3. key[1] \in Once
    BY DEF Once
  <2>4. queue.key # key
    BY <2>2, <2>3, NotRepeated DEF Following
  <2> QED BY <2>1, <2>2, <2>4 DEF Following, Fixed, Plain
<1>2. i \in 1..Len(layers) /\ Len(layers) \in Nat /\ o \in 1..Len(heap) /\ Len(heap) \in Nat
  BY <1>1, PictureIs
<1>3. /\ a.do = "insert" /\ a.index = i /\ a.object = o
      /\ b.do = "remove" /\ b.index = i
      /\ key[1] \in Once
  BY DEF Once
<1> HIDE DEF a, b, key
<1>4. /\ IsCommand(a, Len(heap)) /\ IsCommand(b, Len(heap)) /\ CommandOf(a, does) /\ CommandOf(b, does)
      /\ b.do # "reorder" /\ FindsOne(b, Picture) /\ FindsOne(a, w)
  BY <1>1, <1>2, <1>3 DEF IsCommand, Verbs, Indexed, CommandOf, FindsOne
<1>5. w = TakeOut(Picture, i) /\ Effect(a, w, does, heap) = PutIn(w, i, Face(does, heap[o]))
  BY <1>3 DEF Effect
<1>6. Seen(Picture, does) /\ IsView(Picture) /\ Picture.face[i] = Face(does, heap[o]) /\ i \in 1..Picture.count
  BY <1>1, <1>2, PictureIs DEF IndexInv, Seen
<1> HIDE DEF o, w, does
<1>7. Seen(w, does)
  BY <1>5, <1>6, TakeOutIsSeen
<1>8. Effect(a, w, does, heap) = Picture
  <2>1. PutIn(TakeOut(Picture, i), i, Picture.face[i]) = Picture
    BY <1>6, PutInTakeOut
  <2> QED BY <1>5, <1>6, <2>1
<1>10. \A s : s.key = key /\ s.undo = <<a>> /\ s.redo = <<b>> => KeyTells(s, w, does)
  BY <1>3 DEF KeyTells
<1> QED BY <1>1, <1>4, <1>7, <1>8, <1>10, CommitFollows DEF w, does

\* Adding a text layer.
LEMMA TextFollows == ASSUME Following, TypeInv', AddTextLayer PROVE IndexInv'
<1> DEFINE i == Len(layers) + 1
           a == [do |-> "remove", index |-> i]
           b == [do |-> "add"]
           k == "layerAdd"
           key == <<k, i>>
           does == session.does
           w == Effect(b, Picture, does, heap)
           x == Face(does, NewLayer(0))
<1>1. Commit("text", key, <<a>>, <<b>>) /\ session.patient /\ IndexInv /\ "text" \in does /\ queue.key # key
  <2>1. Commit("text", key, <<a>>, <<b>>)
    BY DEF AddTextLayer
  <2>2. "text" \in does /\ MayEdit("text", key)
    BY <2>1 DEF Commit, MayEdit
  <2>3. key[1] \in Once
    BY DEF Once
  <2>4. queue.key # key
    BY <2>2, <2>3, NotRepeated DEF Following
  <2> QED BY <2>1, <2>2, <2>4 DEF Following
<1>2. i \in Nat \ {0} /\ Len(layers) \in Nat /\ Len(heap) \in Nat /\ Picture.count = Len(layers)
  BY <1>1, PictureIs
<1>3. a.do = "remove" /\ a.index = i /\ b.do = "add" /\ key[1] \in Once
  BY DEF Once
<1> HIDE DEF a, b, key
<1>4. /\ IsCommand(a, Len(heap)) /\ IsCommand(b, Len(heap)) /\ CommandOf(a, does) /\ CommandOf(b, does)
      /\ b.do # "reorder" /\ FindsOne(b, Picture) /\ FindsOne(a, w)
  BY <1>1, <1>2, <1>3 DEF IsCommand, Verbs, Indexed, CommandOf, FindsOne
<1>5. w = PutIn(Picture, i, x) /\ Effect(a, w, does, heap) = TakeOut(w, i)
  BY <1>2, <1>3 DEF Effect
<1>6. Seen(Picture, does) /\ IsView(Picture) /\ i \in 1..(Picture.count + 1)
  BY <1>1, <1>2 DEF IndexInv, Seen
<1>7. IsLayer(x) /\ x.left \in Int
  <2> DEFINE o == NewLayer(0)
             f == "left"
  <2>1. IsLayer(o) /\ f \in Fields \ {"id"} /\ o[f] = 0
    BY NewLayerIsLayer DEF Fields, NewLayer
  <2> HIDE DEF o, f
  <2>2. IsLayer(Face(does, o)) /\ Face(does, o)[f] = o[f]
    BY <2>1, FaceSet
  <2> QED BY <2>1, <2>2 DEF o, f
<1> HIDE DEF i, w, does, x
<1>8. Seen(w, does)
  BY <1>1, <1>5, <1>6, <1>7, PutInIsSeen
<1>9. Effect(a, w, does, heap) = Picture
  <2>1. TakeOut(PutIn(Picture, i, x), i) = Picture
    BY <1>6, TakeOutPutIn
  <2> QED BY <1>5, <2>1
<1>10. \A s : s.key = key /\ s.undo = <<a>> /\ s.redo = <<b>> => KeyTells(s, w, does)
  BY <1>3 DEF KeyTells
<1> QED BY <1>1, <1>4, <1>8, <1>9, <1>10, CommitFollows DEF w, does

\* What a sequence ranges over.
LEMMA RangeOfSequence == ASSUME NEW q, IsSequence(q) PROVE Range(q) = {q[n] : n \in 1..Len(q)}
<1>1. DOMAIN q = 1..Len(q)
  BY DEF IsSequence
<1> QED BY <1>1 DEF Range

\* Putting two layers in the other order.  The queue cannot hold the same order: it is the one of now.
LEMMA ReorderFollows == ASSUME Following, TypeInv', NEW i \in DOMAIN layers, ReorderTwo(i) PROVE IndexInv'
<1> DEFINE x == Order
           y == Swapped(i)
           a == [do |-> "reorder", order |-> x]
           b == [do |-> "reorder", order |-> y]
           k == "reorderLayers"
           key == <<k, y>>
           does == session.does
           w == Effect(b, Picture, does, heap)
           p == [n \in 1..Len(layers) |-> IF n = i THEN i + 1 ELSE IF n = i + 1 THEN i ELSE n]
<1>1. Commit("reorder", key, <<a>>, <<b>>) /\ session.patient /\ IndexInv /\ "text" \notin does /\ i < Len(layers)
  <2>1. Commit("reorder", key, <<a>>, <<b>>) /\ i < Len(layers)
    BY DEF ReorderTwo
  <2>2. "reorder" \in does
    BY <2>1 DEF Commit, MayEdit
  <2> QED BY <2>1, <2>2 DEF Following, Plain
<1>2. /\ i \in 1..Len(layers) /\ Len(layers) \in Nat /\ Len(heap) \in Nat /\ Picture.count = Len(layers)
      /\ \A j \in 1..Len(layers) : Picture.face[j].id = heap[layers[j]].id
  BY <1>1, PictureIs
<1>3. /\ IsSequence(x) /\ Len(x) = Len(layers) /\ \A n \in 1..Len(layers) : x[n] = heap[layers[n]].id
      /\ IsSequence(y) /\ Len(y) = Len(layers) /\ \A n \in 1..Len(layers) : y[n] = x[IF n = i THEN i + 1 ELSE IF n = i + 1 THEN i ELSE n]
      /\ Range(y) \subseteq IdsIn(Document)
  BY <1>1, OrdersAreThere DEF IndexInv
<1>4. \A j \in 1..Len(layers) : p[j] \in 1..Len(layers) /\ p[p[j]] = j /\ y[j] = x[p[j]]
  <2>1. \A j \in 1..Len(layers) : p[j] = IF j = i THEN i + 1 ELSE IF j = i + 1 THEN i ELSE j
    OBVIOUS
  <2>2. \A j \in 1..Len(layers) : y[j] = x[p[j]]
    BY <1>3, <2>1, Zenon
  <2> HIDE DEF p
  <2> QED BY <1>1, <1>2, <2>1, <2>2
<1>5. a.do = "reorder" /\ a.order = x /\ b.do = "reorder" /\ b.order = y /\ key[1] = k /\ key[2] = y
  OBVIOUS
<1> HIDE DEF a, b, key, x, y, p
<1>6. IsCommand(a, Len(heap)) /\ IsCommand(b, Len(heap)) /\ CommandOf(a, does) /\ CommandOf(b, does)
  BY <1>1, <1>3, <1>5 DEF IsCommand, Verbs, Indexed, CommandOf
<1>7. w = InOrder(Picture, y) /\ Effect(a, w, does, heap) = InOrder(w, x)
  BY <1>5 DEF Effect
<1>8. Seen(Picture, does)
  BY <1>1 DEF IndexInv
<1> HIDE DEF w, does
<1>9. InOrder(InOrder(Picture, y), x) = Picture /\ Seen(InOrder(Picture, y), does)
      /\ \A j \in 1..Picture.count : InOrder(Picture, y).face[j].id = y[j]
  <2>1. \A j \in 1..Picture.count : /\ p[j] \in 1..Picture.count /\ p[p[j]] = j
                                    /\ x[j] = Picture.face[j].id /\ y[j] = x[p[j]]
    BY <1>2, <1>3, <1>4
  <2>2. Len(x) = Picture.count /\ Len(y) = Picture.count
    BY <1>2, <1>3
  <2>3. Exchanges(p, Picture, x, y)
    BY <2>1, <2>2 DEF Exchanges
  <2> QED BY <1>1, <1>8, <2>3, OrderTwice
<1>10. ASSUME queue # None, queue.key = key PROVE FALSE
  <2>1. KeyTells(queue, Picture, does)
    BY <1>1, <1>10 DEF IndexInv, Told, does
  <2>2. queue.key[1] = k /\ queue.key[2] = y
    BY <1>5, <1>10
  <2>3. ~Aimed(queue) /\ queue.key[1] \notin Once
    BY <2>2 DEF Aimed, Aims, FieldOf, Once
  <2>4. \A j \in 1..Picture.count : y[j] = Picture.face[j].id
    BY <2>1, <2>2, <2>3 DEF KeyTells
  <2>5. y[i] = x[i + 1] /\ i + 1 \in 1..Len(layers)
    BY <1>1, <1>2, <1>3
  <2>6. Picture.face[i].id = Picture.face[i + 1].id
    BY <1>2, <1>3, <2>4, <2>5
  <2>7. Distinct(Picture)
    BY <1>1, <1>8 DEF Seen
  <2> QED BY <1>2, <2>5, <2>6, <2>7 DEF Distinct
<1>11. w.count = Picture.count
  BY <1>2, <1>3, <1>7 DEF InOrder
<1>12. \A s : s.key = key /\ s.undo = <<a>> /\ s.redo = <<b>> => KeyTells(s, w, does)
  <2> HIDE DEF k
  <2>1. k = "reorderLayers"
    BY DEF k
  <2> QED BY <1>1, <1>5, <1>7, <1>9, <1>11, <2>1 DEF KeyTells
<1>13. Range(b.order) \subseteq IdsIn(Document)
  BY <1>3, <1>5
<1>14. FindsOne(b, Picture) /\ FindsOne(a, w)
  <2>1. Range(x) = {x[n] : n \in 1..Len(layers)} /\ Range(y) = {y[n] : n \in 1..Len(layers)}
    BY <1>3, RangeOfSequence
  <2>2. Range(y) \subseteq IdsSeen(Picture)
    <3>1. \A n \in 1..Len(layers) : y[n] = Picture.face[p[n]].id /\ p[n] \in 1..Picture.count
      BY <1>2, <1>3, <1>4
    <3> QED BY <2>1, <3>1 DEF IdsSeen
  <2>3. \A n \in 1..Len(layers) : x[n] = y[p[n]]
    BY <1>4
  <2>4. \A n \in 1..Len(layers) : y[n] = w.face[n].id
    BY <1>2, <1>7, <1>9
  <2>5. Range(x) \subseteq IdsSeen(w)
    BY <1>2, <1>4, <1>11, <2>1, <2>3, <2>4 DEF IdsSeen
  <2> QED BY <1>5, <2>2, <2>5 DEF FindsOne
<1> QED BY <1>1, <1>6, <1>7, <1>9, <1>10, <1>12, <1>13, <1>14, CommitFollows DEF w, does

\* Resizing the canvas.
LEMMA ResizeFollows == ASSUME Following, TypeInv', ResizeCanvas PROVE IndexInv'
<1> DEFINE x == Offsets(0)
           y == Offsets(1)
           s0 == size
           s1 == size + 1
           a == [do |-> "offsets", left |-> x, size |-> s0]
           b == [do |-> "offsets", left |-> y, size |-> s1]
           k == "resizeCanvas"
           key == <<k>>
           does == session.does
           w == Effect(b, Picture, does, heap)
<1>1. Commit("resize", key, <<a>>, <<b>>) /\ session.patient /\ IndexInv /\ "text" \notin does /\ ~Fixed(does)
  <2>1. Commit("resize", key, <<a>>, <<b>>)
    BY DEF ResizeCanvas
  <2>2. "resize" \in does
    BY <2>1 DEF Commit, MayEdit
  <2> QED BY <2>1, <2>2 DEF Following, Plain, Fixed
<1>2. /\ Len(layers) \in Nat /\ Len(heap) \in Nat /\ Picture.count = Len(layers) /\ Picture.size = size
      /\ DOMAIN layers = 1..Len(layers)
      /\ \A j \in 1..Len(layers) : Picture.face[j].id = Field(j, "id")
  BY <1>1, PictureIs DEF Field
<1>3. Seen(Picture, does)
  BY <1>1 DEF IndexInv
<1>4. \A j \in 1..Len(layers) : Picture.face[j].left = Field(j, "left") /\ Field(j, "left") \in Int
  <2> DEFINE f == "left"
  <2>1. f \in Fields \ {"id"}
    BY DEF Fields
  <2>2. \A j \in 1..Len(layers) : Picture.face[j][f] = heap[layers[j]][f]
    BY <1>1, <2>1, PictureIs
  <2> QED BY <1>2, <1>3, <2>2 DEF Seen, Field
<1>5. ASSUME NEW j \in 1..Len(layers), NEW delta
      PROVE  Offsets(delta)[Field(j, "id")] = delta + Field(j, "left")
  <2> DEFINE id == Field(j, "id")
             c == CHOOSE n \in DOMAIN layers : Field(n, "id") = id
  <2>1. id \in {Field(n, "id") : n \in DOMAIN layers}
    BY <1>2
  <2>2. Offsets(delta)[id] = delta + Field(c, "left")
    BY <2>1 DEF Offsets
  <2>3. c \in DOMAIN layers /\ Field(c, "id") = id
    BY <1>2
  <2>4. c = j
    <3> HIDE DEF c
    <3>1. Distinct(Picture)
      BY <1>1, <1>3 DEF Seen
    <3> QED BY <1>2, <2>3, <3>1 DEF Distinct
  <2> QED BY <2>2, <2>4
<1>6. \A j \in 1..Picture.count : x[Picture.face[j].id] = Picture.face[j].left /\ y[Picture.face[j].id] \in Int
  <2> TAKE j \in 1..Picture.count
  <2>1. x[Field(j, "id")] = 0 + Field(j, "left") /\ y[Field(j, "id")] = 1 + Field(j, "left")
    BY <1>2, <1>5
  <2> HIDE DEF x, y
  <2> QED BY <1>2, <1>4, <2>1
<1>d. DOMAIN x = IdsSeen(Picture) /\ DOMAIN y = IdsSeen(Picture)
  BY <1>2 DEF Offsets, IdsSeen
<1>7. /\ a.do = "offsets" /\ a.left = x /\ a.size = s0 /\ b.do = "offsets" /\ b.left = y /\ b.size = s1 /\ key[1] = k
  OBVIOUS
<1> HIDE DEF a, b, key, x, y, s0, s1
<1>8. /\ IsCommand(a, Len(heap)) /\ IsCommand(b, Len(heap)) /\ CommandOf(a, does) /\ CommandOf(b, does)
      /\ Aims(a, key) /\ Aims(b, key) /\ b.do # "reorder"
  BY <1>1, <1>7 DEF IsCommand, Verbs, Indexed, CommandOf, Aims
<1>9. w = Moved(Picture, y, s1) /\ Effect(a, w, does, heap) = Moved(w, x, s0)
  BY <1>7 DEF Effect
<1> HIDE DEF w, does
<1>10. Seen(w, does)
  BY <1>3, <1>6, <1>9, MovedIsSeen
<1>11. Effect(a, w, does, heap) = Picture
  <2>1. Moved(Moved(Picture, y, s1), x, s0) = Moved(Picture, x, s0)
    BY <1>3, MovedTwice
  <2>2. Moved(Picture, x, Picture.size) = Picture
    BY <1>3, <1>6, MovedTwice
  <2> QED BY <1>2, <1>9, <2>1, <2>2 DEF s0
<1>12. queue # None /\ queue.key = key => Aimed(queue)
  BY <1>1, <1>7, QueueKnows DEF Once
<1>14. FindsOne(b, Picture) /\ FindsOne(a, w)
  <2>1. IdsSeen(w) = IdsSeen(Picture)
    BY <1>3, <1>9, MovedIds
  <2> QED BY <1>7, <1>d, <2>1 DEF FindsOne
<1>13. \A s : s.key = key /\ s.undo = <<a>> /\ s.redo = <<b>> => KeyTells(s, w, does)
  BY <1>8 DEF KeyTells, Aimed
<1> QED BY <1>1, <1>8, <1>10, <1>11, <1>12, <1>13, <1>14, CommitFollows DEF w, does

\* A document for which a layer was made is seen as before.
LEMMA MadeSeen ==
  ASSUME NEW does, NEW d, Sound(d, does), Fixed(does), NEW layer, IsLayer(layer), NEW n, n = d.ids + 1, layer.id = n
  PROVE  LET e == Made(d, layer, n, {})
         IN  /\ Sound(e, does) /\ Keeps(e.heap, d.heap, does) /\ Len(d.heap) \in Nat
             /\ Appended(e.heap, d.heap, layer) /\ e.layers = d.layers /\ View(does, e) = View(does, d)
<1> DEFINE e == Made(d, layer, n, {})
           l == Len(d.layers)
<1>1. WellFormed(d) /\ d.bitmap = Unpainted /\ d.loading = {} /\ d.ids <= Len(d.heap)
  BY DEF Sound
<1>2. /\ WellFormed(e) /\ Appended(e.heap, d.heap, layer)
      /\ e.layers = d.layers /\ e.ids = n /\ e.size = d.size /\ e.loading = d.loading
      /\ e.bitmap = [d.bitmap EXCEPT ![n] = {}]
  <2> DEFINE none == {}
  <2>1. LET f == Made(d, layer, n, none)
        IN  /\ WellFormed(f) /\ Appended(f.heap, d.heap, layer)
            /\ f.layers = d.layers /\ f.ids = n /\ f.size = d.size /\ f.loading = d.loading
            /\ f.bitmap = [d.bitmap EXCEPT ![n] = none]
    <3> HIDE DEF none
    <3> QED BY <1>1, MakeIs
  <2> QED BY <2>1
<1> HIDE DEF e
<1>3. e.bitmap = Unpainted
  BY <1>1, <1>2 DEF Unpainted
<1>4. d.ids \in Nat /\ Len(d.heap) \in Nat /\ Len(e.heap) = Len(d.heap) + 1
  BY <1>1, <1>2 DEF WellFormed, Appended
<1>5. Sound(e, does)
  BY <1>1, <1>2, <1>3, <1>4 DEF Sound
<1>6. Keeps(e.heap, d.heap, does)
  BY <1>2 DEF Keeps, Appended
<1>7. l \in Nat /\ \A j \in 1..l : d.layers[j] \in 1..Len(d.heap)
  <2> DEFINE S == 1..Len(d.heap)
  <2>1. d.layers \in Seq(S)
    BY <1>1 DEF WellFormed
  <2> HIDE DEF S
  <2>2. l \in Nat /\ \A j \in 1..l : d.layers[j] \in S
    BY <2>1
  <2> QED BY <2>2 DEF S
<1>8. \A j \in 1..l : e.heap[d.layers[j]] = d.heap[d.layers[j]]
  BY <1>2, <1>7 DEF Appended
<1> DEFINE v == View(does, d)
           w == View(does, e)
<1>9. IsView(v) /\ v.size = d.size /\ v.count = l /\ \A j \in 1..l : v.face[j] = Face(does, d.heap[d.layers[j]])
  BY <1>1, ViewIsView
<1>10. IsView(w) /\ w.size = d.size /\ w.count = l /\ \A j \in 1..l : w.face[j] = Face(does, e.heap[d.layers[j]])
  BY <1>2, ViewIsView
<1> HIDE DEF v, w
<1>11. \A j \in 1..l : w.face[j] = v.face[j]
  BY <1>8, <1>9, <1>10
<1>12. w = v
  BY <1>9, <1>10, <1>11, SameView
<1> QED BY <1>2, <1>4, <1>5, <1>6, <1>12 DEF v, w, e

\* Making a layer and inserting it.
LEMMA InsertFollows ==
  ASSUME Following, TypeInv', NEW action, NEW k, NEW i \in 1..(Len(layers) + 1), NEW layer, IsLayer(layer),
         layer.id = ids + 1, layer.left \in Int, Insert(action, k, i, layer, {}), k \in Once, Fixed(session.does)
  PROVE  IndexInv'
<1> DEFINE does == session.does
           o == Len(heap) + 1
           n == layer.id
           e == Made(Document, layer, n, {})
           d == InsertLayerAtIndex(e, i, o)
           b == [do |-> "remove", index |-> i]
           c == [do |-> "insert", index |-> i, object |-> o]
           key == <<k, i>>
           s == State(key, <<b>>, <<c>>, Shown(d))
           x == Face(does, layer)
           w == PutIn(Picture, i, x)
<1>1. /\ Become(d) /\ EnqueueState(s) /\ merging' = merging /\ stroke' = stroke /\ converting' = converting /\ session' = session
      /\ MayEdit(action, key)
  BY DEF Insert, Made
<1>2. IndexInv /\ session.patient
  BY DEF Following
<1>3. merging' = NoMerge /\ Len(heap) < MaxObjects /\ queue.key # key
  <2>1. key[1] \in Once
    OBVIOUS
  <2> QED BY <1>1, <1>2, <2>1, NotRepeated DEF MayEdit, Waits, AtRest
<1>4. /\ Sound(Document, does) /\ Len(heap) \in Nat /\ Len(layers) \in Nat /\ Picture.count = Len(layers)
      /\ Seen(Picture, does) /\ IsView(Picture) /\ Document.ids = ids /\ Document.heap = heap
      /\ Document.layers = layers
  BY <1>2, PictureIs, DocumentParts DEF IndexInv, Seen
<1>5. /\ b.do = "remove" /\ b.index = i /\ c.do = "insert" /\ c.index = i /\ c.object = o
      /\ key[1] = k
  OBVIOUS
<1>6. IsState(s) /\ s.key = key /\ s.undo = <<b>> /\ s.redo = <<c>> /\ s.after = Shown(d)
  BY StateIsState DEF State
<1>n. layer.id = n /\ n = Document.ids + 1
  BY <1>4
<1> HIDE DEF s, b, c, key, n
<1>7. /\ Sound(e, does) /\ Keeps(e.heap, heap, does) /\ Appended(e.heap, heap, layer) /\ e.layers = layers
      /\ View(does, e) = Picture
  BY <1>4, <1>n, MadeSeen DEF Picture
<1> HIDE DEF e
<1>8. Len(e.heap) = o /\ e.heap[o] = layer /\ o \in Nat /\ o \in 1..o
  BY <1>4, <1>7 DEF Appended
<1>9. /\ IsCommand(b, o) /\ IsCommand(c, o) /\ CommandOf(b, does) /\ CommandOf(c, does) /\ c.do # "reorder"
      /\ Simple(c)
  BY <1>4, <1>5, <1>8 DEF IsCommand, Verbs, Indexed, CommandOf, Simple
<1>10. ClosureOf(<<b>>, o, does) /\ ClosureOf(<<c>>, o, does)
  BY <1>9 DEF ClosureOf
<1>11. Run(<<c>>, e) = d
  <2>1. Perform(e, c) = InsertLayerAtIndex(e, i, o)
    BY <1>5 DEF Perform
  <2> QED BY <2>1, RunOne
<1> HIDE DEF d
<1>12. RunIs(d, <<c>>, e, does)
  <2>1. OrdersIn(<<c>>, IdsIn(e))
    BY <1>9, OneCommand
  <2>2. "text" \notin does => Distinct(View(does, e))
    BY <1>4, <1>7 DEF Seen
  <2> HIDE DEF does
  <2> QED BY <1>7, <1>8, <1>10, <1>11, <2>1, <2>2, RunSeen
<1>14. /\ Sound(d, does) /\ Keeps(d.heap, e.heap, does) /\ Len(d.heap) = o
       /\ View(does, d) = Effects(<<c>>, Picture, does, e.heap)
  <2>1. Simple(<<c>>[1])
    BY <1>9
  <2> QED BY <1>7, <1>8, <1>12, <2>1 DEF RunIs
<1>15. View(does, d) = w
  <2>1. Effect(c, Picture, does, e.heap) = PutIn(Picture, i, x)
    BY <1>5, <1>8 DEF Effect
  <2> QED BY <1>14, <2>1, EffectsOne
<1>16. IsLayer(x) /\ x.left \in Int /\ ("text" \notin does => x.id = ids + 1)
  <2> DEFINE f == "left"
  <2>1. f \in Fields \ {"id"}
    BY DEF Fields
  <2>2. IsLayer(x) /\ x[f] = layer[f]
    <3> HIDE DEF f
    <3> QED BY <2>1, FaceSet
  <2> QED BY <2>2 DEF Face
<1>17. Seen(w, does)
  <2>1. "text" \notin does => \A j \in 1..Picture.count : Picture.face[j].id # x.id
    <3> SUFFICES ASSUME "text" \notin does, NEW j \in 1..Picture.count PROVE Picture.face[j].id # x.id
      OBVIOUS
    <3>1. Picture.face[j].id \in 1..ids /\ ids \in Nat
      <4>1. ids \in Nat
        BY <1>2, HeapCount DEF IndexInv
      <4> QED BY <1>2, <1>4, <4>1, PictureIs
    <3> QED BY <1>16, <3>1
  <2> HIDE DEF x, does
  <2> QED BY <1>4, <1>16, <2>1, PutInIsSeen
<1>18. Keeps(d.heap, heap, does) /\ Len(d.heap) >= Len(heap) /\ Len(d.heap) \in Nat /\ Len(d.heap) <= MaxObjects
  <2>1. Keeps(d.heap, heap, does)
    <3> HIDE DEF does
    <3> QED BY <1>4, <1>7, <1>8, <1>14, KeptTwice
  <2> QED BY <1>3, <1>4, <1>8, <1>14, <2>1, HistoryAssumption
<1>19. s.after = Look(w)
  <2>1. d.ids <= MaxObjects + 1
    <3>1. d.ids <= Len(d.heap) /\ d.ids \in Nat
      BY <1>14 DEF Sound, WellFormed
    <3> QED BY <1>18, <3>1, HistoryAssumption
  <2> HIDE DEF does, w
  <2> QED BY <1>6, <1>14, <1>15, <2>1, ShownIsLook
<1>20. Linked(s, Picture, w, does, d.heap)
  <2>1. Effect(b, w, does, e.heap) = TakeOut(w, i)
    BY <1>5 DEF Effect
  <2>2. TakeOut(w, i) = Picture
    BY <1>4, TakeOutPutIn
  <2>3. Effects(<<b>>, w, does, e.heap) = Picture /\ Effects(<<c>>, Picture, does, e.heap) = w
    BY <1>14, <1>15, <2>1, <2>2, EffectsOne
  <2>5. Finds(<<b>>, w) /\ Finds(<<c>>, Picture)
    BY <1>5, FindsSaid DEF FindsOne
  <2> HIDE DEF w, does
  <2>4. Linked(s, Picture, w, does, e.heap)
    BY <1>6, <1>8, <1>10, <1>19, <2>3, <2>5 DEF Linked
  <2> QED BY <1>8, <1>14, <2>4, LinkedStays
<1>21. KeyTells(s, w, does)
  BY <1>5, <1>6 DEF KeyTells
<1>22. ~(queue # None /\ queue.key = s.key)
  BY <1>3, <1>6
<1> HIDE DEF w
<1> QED BY <1>1, <1>2, <1>3, <1>6, <1>14, <1>15, <1>17, <1>18, <1>20, <1>21, <1>22, Edited

\* A sound document has no strokes in its bitmaps.
LEMMA NoStrokes ==
  ASSUME IndexInv, NEW i \in 1..Len(layers)
  PROVE  bitmap[heap[layers[i]].id] = {}
<1>1. bitmap = Unpainted /\ ids <= Len(heap) /\ Len(heap) <= MaxObjects
  BY DocumentParts DEF IndexInv, Sound
<1>2. heap[layers[i]].id \in 1..ids /\ ids \in Nat /\ Len(heap) \in Nat
  BY PictureIs, HeapCount DEF IndexInv
<1>3. heap[layers[i]].id \in 1..(MaxObjects + 1)
  BY <1>1, <1>2, HistoryAssumption
<1> QED BY <1>1, <1>3 DEF Unpainted

\* Adding a layer, and copying one.
LEMMA AddFollows ==
  ASSUME Following, TypeInv', NEW i \in DOMAIN layers, AddNewLayer(i) \/ DuplicateLayer(i)
  PROVE  IndexInv'
<1>1. IndexInv /\ Plain(session.does) /\ Seen(Picture, session.does)
  BY DEF Following, IndexInv
<1>2. i \in 1..Len(layers) /\ Len(layers) \in Nat /\ Picture.count = Len(layers)
  BY <1>1, PictureIs
<1>3. CASE AddNewLayer(i)
  <2> DEFINE x == NewLayer(ids + 1)
  <2>1. IsLayer(x) /\ x.id = ids + 1
    BY NewLayerIsLayer
  <2>2. x.left = 0
    BY DEF NewLayer
  <2>3. Insert("add", "layerAdd", i, x, {})
    BY <1>3 DEF AddNewLayer
  <2>4. Fixed(session.does)
    BY <1>1, <2>3 DEF Insert, MayEdit, Plain, Fixed
  <2>5. "layerAdd" \in Once /\ i \in 1..(Len(layers) + 1)
    BY <1>2 DEF Once
  <2> HIDE DEF x
  <2> QED BY <2>1, <2>2, <2>3, <2>4, <2>5, InsertFollows
<1>4. CASE DuplicateLayer(i)
  <2> DEFINE old == heap[layers[i]]
             a == [old EXCEPT !.id = ids + 1]
             b == [a EXCEPT !.name = 4]
             layer == [old EXCEPT !.id = ids + 1, !.name = 4]
  <2>1. layer = b
    OBVIOUS
  <2>2. IsLayer(old) /\ old.left \in Int
    <3> DEFINE f == "left"
    <3>1. f \in Fields \ {"id"}
      BY DEF Fields
    <3>2. IsLayer(old) /\ Picture.face[i][f] = old[f]
      BY <1>1, <1>2, <3>1, PictureIs
    <3>3. Picture.face[i][f] \in Int
      BY <1>1, <1>2 DEF Seen
    <3> QED BY <3>2, <3>3
  <2>3. "id" \in Fields /\ "name" \in Fields /\ "left" \in Fields \ {"id"} /\ {"id", "left"} \subseteq Fields \ {"name"}
    BY DEF Fields
  <2>4. Insert("duplicate", "duplicate", i + 1, layer, bitmap[Field(i, "id")])
    BY <1>4 DEF DuplicateLayer
  <2>5. bitmap[Field(i, "id")] = {}
    BY <1>1, <1>2, NoStrokes DEF Field
  <2> HIDE DEF old, layer
  <2>6. IsLayer(a) /\ a["id"] = ids + 1 /\ a["left"] = old["left"]
    <3> DEFINE v == ids + 1
               f == "id"
               g == "left"
    <3>1. a = [old EXCEPT ![f] = v]
      OBVIOUS
    <3>2. f \in Fields /\ g \in Fields \ {f}
      BY <2>3
    <3> HIDE DEF v, f, g, a
    <3>3. IsLayer(a) /\ a[f] = v
      BY <2>2, <3>1, <3>2, FieldSet
    <3>4. a[g] = old[g]
      BY <2>2, <3>1, <3>2, FieldSet
    <3> QED BY <3>3, <3>4 DEF v, f, g
  <2> HIDE DEF a
  <2>7. IsLayer(b) /\ b["id"] = a["id"] /\ b["left"] = a["left"]
    BY <2>3, <2>6, FieldSet
  <2>8. IsLayer(layer) /\ layer.id = ids + 1 /\ layer.left \in Int
    BY <2>1, <2>2, <2>6, <2>7
  <2>9. Fixed(session.does)
    BY <1>1, <2>4 DEF Insert, MayEdit, Plain, Fixed
  <2>10. "duplicate" \in Once /\ i + 1 \in 1..(Len(layers) + 1)
    BY <1>2 DEF Once
  <2>11. Insert("duplicate", "duplicate", i + 1, layer, {})
    BY <2>4, <2>5
  <2> QED BY <2>8, <2>9, <2>10, <2>11, InsertFollows
<1> QED BY <1>3, <1>4

\* A merge that starts waits for its picture.
LEMMA MergeLayerDownFollows ==
  ASSUME Following, TypeInv', NEW i \in DOMAIN layers, MergeLayerDown(i)
  PROVE  IndexInv'
<1>1. IndexInv /\ Plain(session.does) /\ session.patient
  BY DEF Following
<1>2. /\ UNCHANGED <<document, stroke, converting, queue, manager, session>> /\ i > 1
      /\ MayEdit("merge", <<"merge", i - 1>>) /\ merging = NoMerge
      /\ merging' = [index |-> i - 1, below |-> layers[i - 1], above |-> layers[i],
                     strokes |-> bitmap[Field(i - 1, "id")] \union bitmap[Field(i, "id")]]
  BY DEF MergeLayerDown
<1>3. i \in 1..Len(layers) /\ Len(layers) \in Nat /\ i - 1 \in 1..Len(layers)
  BY <1>1, <1>2, PictureIs
<1>4. heap' = heap /\ layers' = layers /\ Document' = Document /\ Manager' = Manager /\ queue' = queue /\ session' = session
  BY <1>2 DEF document, manager, Manager, Document
<1>5. Picture' = Picture
  BY <1>4 DEF Picture
<1>6. bitmap[Field(i - 1, "id")] = {} /\ bitmap[Field(i, "id")] = {}
  BY <1>1, <1>3, NoStrokes DEF Field
<1>7. Fixed(session.does) /\ Len(heap) < MaxObjects
  BY <1>1, <1>2 DEF MayEdit, Plain, Fixed
<1>8. queue.key # <<"merge", i - 1>>
  <2> DEFINE k == "merge"
             key == <<k, i - 1>>
  <2>1. key[1] \in Once
    BY DEF Once
  <2> QED BY <1>1, <1>2, <2>1, NotRepeated
<1>9. /\ merging'.index = i - 1 /\ merging'.below = layers[i - 1] /\ merging'.above = layers[i]
      /\ merging'.strokes = {}
  BY <1>2, <1>6
<1>10. MergeWaits'
  <2>1. i - 1 \in Nat \ {0} /\ (i - 1) + 1 = i
    BY <1>2, <1>3
  <2> QED BY <1>3, <1>4, <1>7, <1>8, <1>9, <2>1 DEF MergeWaits
<1> QED BY <1>1, <1>2, <1>4, <1>5, <1>10 DEF IndexInv

\* Taking two layers out and putting one in, and back.
LEMMA MergedSeen ==
  ASSUME NEW does, NEW v, Seen(v, does), NEW i \in Nat \ {0}, i + 1 <= v.count, NEW x, IsLayer(x), x.left \in Int,
         "text" \notin does => \A j \in 1..v.count : v.face[j].id # x.id
  PROVE  LET w == PutIn(TakeOut(TakeOut(v, i + 1), i), i, x)
         IN  /\ Seen(w, does)
             /\ PutIn(PutIn(TakeOut(w, i), i, v.face[i]), i + 1, v.face[i + 1]) = v
<1> DEFINE a == TakeOut(v, i + 1)
           b == TakeOut(a, i)
           w == PutIn(b, i, x)
           n == v.count
<1>1. n \in Nat /\ i \in 1..n /\ i + 1 \in 1..n
  BY DEF Seen, IsView
<1>2. /\ a.count = n - 1
      /\ \A j \in 1..(n - 1) : a.face[j] = IF j < i + 1 THEN v.face[j] ELSE v.face[j + 1]
  BY <1>1 DEF TakeOut
<1>3. Seen(a, does) /\ i \in 1..a.count
  BY <1>1, <1>2, TakeOutIsSeen
<1>4. PutIn(a, i + 1, v.face[i + 1]) = v
  BY <1>1, PutInTakeOut DEF Seen
<1> HIDE DEF a
<1>5. a.face[i] = v.face[i]
  BY <1>1, <1>2
<1>6. /\ b.count = n - 2
      /\ \A j \in 1..(n - 2) : b.face[j] = IF j < i THEN a.face[j] ELSE a.face[j + 1]
  BY <1>1, <1>2, <1>3 DEF TakeOut
<1>7. Seen(b, does) /\ PutIn(b, i, a.face[i]) = a /\ i \in 1..(b.count + 1)
  BY <1>1, <1>3, <1>6, TakeOutIsSeen, PutInTakeOut DEF Seen
<1> HIDE DEF b
<1>8. "text" \notin does => \A j \in 1..b.count : b.face[j].id # x.id
  <2> SUFFICES ASSUME "text" \notin does, NEW j \in 1..b.count PROVE b.face[j].id # x.id
    OBVIOUS
  <2>1. PICK k \in 1..n : b.face[j] = v.face[k]
    <3>1. PICK l \in 1..(n - 1) : b.face[j] = a.face[l]
      <4>1. CASE j < i
        <5>1. j \in 1..(n - 1) /\ b.face[j] = a.face[j]
          BY <1>1, <1>6, <4>1
        <5> QED BY <5>1
      <4>2. CASE ~(j < i)
        <5>1. j + 1 \in 1..(n - 1) /\ b.face[j] = a.face[j + 1]
          BY <1>1, <1>6, <4>2
        <5> QED BY <5>1
      <4> QED BY <4>1, <4>2
    <3>2. CASE l < i + 1
      <4>1. l \in 1..n /\ a.face[l] = v.face[l]
        BY <1>1, <1>2, <3>2
      <4> QED BY <3>1, <4>1
    <3>3. CASE ~(l < i + 1)
      <4>1. l + 1 \in 1..n /\ a.face[l] = v.face[l + 1]
        BY <1>1, <1>2, <3>3
      <4> QED BY <3>1, <4>1
    <3> QED BY <3>2, <3>3
  <2> QED BY <2>1
<1>9. Seen(w, does)
  BY <1>7, <1>8, PutInIsSeen
<1>10. TakeOut(w, i) = b
  BY <1>7, TakeOutPutIn DEF Seen
<1>11. PutIn(PutIn(b, i, v.face[i]), i + 1, v.face[i + 1]) = v
  BY <1>4, <1>5, <1>7
<1> HIDE DEF w
<1>12. PutIn(PutIn(TakeOut(w, i), i, v.face[i]), i + 1, v.face[i + 1]) = v
  BY <1>10, <1>11
<1> QED BY <1>9, <1>12 DEF w, b, a

\* The layer that a merge makes.
LEMMA MergedLayer ==
  \A n : LET x == [NewLayer(n) EXCEPT !.name = 5] IN IsLayer(x) /\ x.id = n /\ x.left = 0
<1> TAKE n
<1> DEFINE p == NewLayer(n)
           v == 5
           f == "name"
           g == "id"
           h == "left"
<1>1. IsLayer(p) /\ p[g] = n /\ p[h] = 0 /\ f \in Fields /\ g \in Fields \ {f} /\ h \in Fields \ {f}
  BY NewLayerIsLayer DEF Fields, NewLayer
<1> HIDE DEF p, v, f, g, h
<1>2. IsLayer([p EXCEPT ![f] = v]) /\ [p EXCEPT ![f] = v][g] = p[g]
  BY <1>1, FieldSet
<1>3. [p EXCEPT ![f] = v][h] = p[h]
  BY <1>1, FieldSet
<1> QED BY <1>1, <1>2, <1>3 DEF p, v, f, g, h

\* What is seen of the layer that a merge puts there.
LEMMA FaceIs ==
  ASSUME NEW does, NEW x, IsLayer(x), x.left \in Int
  PROVE  IsLayer(Face(does, x)) /\ Face(does, x).left \in Int /\ ("text" \notin does => Face(does, x).id = x.id)
<1> DEFINE f == "left"
<1>1. f \in Fields \ {"id"}
  BY DEF Fields
<1>2. IsLayer(Face(does, x)) /\ Face(does, x)[f] = x[f]
  <2> HIDE DEF f
  <2> QED BY <1>1, FaceSet
<1> QED BY <1>2 DEF Face

\* A closure of three commands that insert and remove.
LEMMA ThreeSimple ==
  ASSUME NEW does, Fixed(does), NEW n, NEW c1, NEW c2, NEW c3, IsCommand(c1, n), IsCommand(c2, n), IsCommand(c3, n),
         Simple(c1), Simple(c2), Simple(c3)
  PROVE  /\ ClosureOf(<<c1, c2, c3>>, n, does) /\ Len(<<c1, c2, c3>>) = 3
         /\ \A there : OrdersIn(<<c1, c2, c3>>, there)
<1>1. ClosureOf(<<c1, c2, c3>>, n, does)
  BY Zenon DEF ClosureOf
<1> DEFINE q == <<c1, c2, c3>>
<1>2. DOMAIN q = 1..3 /\ q[1] = c1 /\ q[2] = c2 /\ q[3] = c3 /\ Len(q) = 3
  OBVIOUS
<1> HIDE DEF q
<1>3. \A there : OrdersIn(q, there)
  BY <1>2 DEF OrdersIn, Simple
<1> QED BY <1>1, <1>2, <1>3 DEF q

\* They name nothing that has to be found.
LEMMA ThreeFind ==
  ASSUME NEW c1, NEW c2, NEW c3, Simple(c1), Simple(c2), Simple(c3), NEW v
  PROVE  Finds(<<c1, c2, c3>>, v)
<1> DEFINE q == <<c1, c2, c3>>
<1>1. DOMAIN q = 1..3 /\ q[1] = c1 /\ q[2] = c2 /\ q[3] = c3
  OBVIOUS
<1> HIDE DEF q
<1> QED BY <1>1 DEF Finds, FindsOne, Simple, q

\* A merge puts a new layer in the place of two, and back.
LEMMA MergeFollows == ASSUME Following, TypeInv', Merge PROVE IndexInv'
<1> DEFINE does == session.does
           o == Len(heap) + 1
           n == ids + 1
           layer == [NewLayer(n) EXCEPT !.name = 5]
           i == merging.index
           e == Made(Document, layer, n, {})
           r == MergeCommands(merging, o)
           d == Run(r, e)
           c1 == [do |-> "remove", index |-> i + 1]
           c2 == [do |-> "remove", index |-> i]
           c3 == [do |-> "insert", index |-> i, object |-> o]
           u2 == [do |-> "insert", index |-> i, object |-> merging.below]
           u3 == [do |-> "insert", index |-> i + 1, object |-> merging.above]
           k == "merge"
           key == <<k, i>>
           s == State(key, <<c2, u2, u3>>, r, Shown(d))
           x == Face(does, layer)
           w == PutIn(TakeOut(TakeOut(Picture, i + 1), i), i, x)
<1>0. IndexInv /\ session.patient /\ merging # NoMerge /\ MergeWaits
  BY DEF Following, Merge, IndexInv
<1>1. Become(d) /\ EnqueueState(s) /\ merging' = NoMerge /\ stroke' = stroke /\ converting' = converting /\ session' = session
  <2>1. Document.ids = ids
    BY DocumentParts
  <2>2. e = [Document EXCEPT !.heap = Append(@, layer), !.ids = @ + 1, !.bitmap[ids + 1] = {}]
    BY <2>1 DEF Made
  <2>3. merging.strokes = {}
    BY <1>0 DEF MergeWaits
  <2> QED BY <2>2, <2>3 DEF Merge
<1>2. /\ Fixed(does) /\ i \in Nat \ {0} /\ i + 1 <= Len(layers)
      /\ layers[i] = merging.below /\ layers[i + 1] = merging.above
      /\ Len(heap) < MaxObjects /\ queue.key # key
  BY <1>0 DEF MergeWaits
<1>3. /\ Sound(Document, does) /\ Len(heap) \in Nat /\ Len(layers) \in Nat /\ Picture.count = Len(layers)
      /\ Seen(Picture, does) /\ IsView(Picture) /\ Document.ids = ids /\ Document.heap = heap
      /\ Document.layers = layers /\ ids \in Nat
  BY <1>0, PictureIs, DocumentParts, HeapCount DEF IndexInv, Seen
<1>4. /\ i \in 1..Len(layers) /\ i + 1 \in 1..Len(layers)
      /\ merging.below \in 1..Len(heap) /\ merging.above \in 1..Len(heap)
      /\ Picture.face[i] = Face(does, heap[merging.below]) /\ Picture.face[i + 1] = Face(does, heap[merging.above])
  <2>1. i \in 1..Len(layers) /\ i + 1 \in 1..Len(layers)
    BY <1>2, <1>3
  <2> QED BY <1>0, <1>2, <2>1, PictureIs
<1>5. IsLayer(layer) /\ layer.id = n /\ layer.left = 0
  BY MergedLayer
<1>6. /\ c1.do = "remove" /\ c1.index = i + 1 /\ c2.do = "remove" /\ c2.index = i
      /\ c3.do = "insert" /\ c3.index = i /\ c3.object = o
      /\ u2.do = "insert" /\ u2.index = i /\ u2.object = merging.below
      /\ u3.do = "insert" /\ u3.index = i + 1 /\ u3.object = merging.above
      /\ key[1] = k /\ r = <<c1, c2, c3>>
  BY DEF MergeCommands
<1>7. IsState(s) /\ s.key = key /\ s.undo = <<c2, u2, u3>> /\ s.redo = r /\ s.after = Shown(d)
  BY StateIsState DEF State
<1> HIDE DEF s, c1, c2, c3, u2, u3, key, layer, r
<1>8. /\ Sound(e, does) /\ Keeps(e.heap, heap, does) /\ Appended(e.heap, heap, layer) /\ e.layers = layers
      /\ View(does, e) = Picture
  <2>1. layer.id = n /\ n = Document.ids + 1
    BY <1>3, <1>5
  <2> HIDE DEF n
  <2> QED BY <1>2, <1>3, <1>5, <2>1, MadeSeen DEF Picture
<1> HIDE DEF e
<1>9. Len(e.heap) = o /\ e.heap[o] = layer /\ o \in Nat /\ o \in 1..o
      /\ \A j \in 1..Len(heap) : e.heap[j] = heap[j]
  BY <1>3, <1>8 DEF Appended
<1>10. /\ IsCommand(c1, o) /\ IsCommand(c2, o) /\ IsCommand(c3, o) /\ IsCommand(u2, o) /\ IsCommand(u3, o)
       /\ Simple(c1) /\ Simple(c2) /\ Simple(c3) /\ Simple(u2) /\ Simple(u3)
  BY <1>2, <1>3, <1>4, <1>6, <1>9 DEF IsCommand, Verbs, Indexed, Simple
<1>11. /\ ClosureOf(r, o, does) /\ Len(r) = 3 /\ OrdersIn(r, IdsIn(e)) /\ ClosureOf(<<c2, u2, u3>>, o, does)
  BY <1>2, <1>6, <1>10, ThreeSimple
<1>12. RunIs(d, r, e, does)
  <2>1. "text" \notin does => Distinct(View(does, e))
    BY <1>3, <1>8 DEF Seen
  <2> HIDE DEF does
  <2> QED BY <1>8, <1>9, <1>11, <2>1, RunSeen
<1> HIDE DEF d
<1>13. /\ Sound(d, does) /\ Keeps(d.heap, e.heap, does) /\ Len(d.heap) = o
       /\ View(does, d) = Effects(r, Picture, does, e.heap)
  BY <1>8, <1>9, <1>11, <1>12 DEF RunIs
<1>14. View(does, d) = w
  <2>1. /\ \A v : Effect(c1, v, does, e.heap) = TakeOut(v, i + 1)
        /\ \A v : Effect(c2, v, does, e.heap) = TakeOut(v, i)
        /\ \A v : Effect(c3, v, does, e.heap) = PutIn(v, i, x)
    BY <1>6, <1>9 DEF Effect
  <2>2. Effects(r, Picture, does, e.heap)
          = Effect(c3, Effect(c2, Effect(c1, Picture, does, e.heap), does, e.heap), does, e.heap)
    BY <1>6, EffectsThree
  <2> QED BY <1>13, <2>1, <2>2
<1>15. IsLayer(x) /\ x.left \in Int /\ ("text" \notin does => x.id = n)
  BY <1>5, FaceIs
<1>16. "text" \notin does => \A j \in 1..Picture.count : Picture.face[j].id # x.id
  <2> SUFFICES ASSUME "text" \notin does, NEW j \in 1..Picture.count PROVE Picture.face[j].id # x.id
    OBVIOUS
  <2>1. Picture.face[j].id \in 1..ids
    BY <1>0, <1>3, PictureIs
  <2> QED BY <1>3, <1>15, <2>1
<1>17. /\ Seen(w, does)
       /\ PutIn(PutIn(TakeOut(w, i), i, Picture.face[i]), i + 1, Picture.face[i + 1]) = Picture
  <2>1. i + 1 <= Picture.count
    BY <1>2, <1>3
  <2> HIDE DEF x, does
  <2> QED BY <1>2, <1>3, <1>15, <1>16, <2>1, MergedSeen
<1> HIDE DEF x, w
<1>18. Keeps(d.heap, heap, does) /\ Len(d.heap) >= Len(heap) /\ Len(d.heap) \in Nat /\ Len(d.heap) <= MaxObjects
  <2>1. Keeps(d.heap, heap, does)
    <3> HIDE DEF does
    <3> QED BY <1>3, <1>8, <1>9, <1>13, KeptTwice
  <2> QED BY <1>2, <1>3, <1>9, <1>13, <2>1, HistoryAssumption
<1>19. s.after = Look(w)
  <2>1. d.ids <= MaxObjects + 1
    <3>1. d.ids <= Len(d.heap) /\ d.ids \in Nat
      BY <1>13 DEF Sound, WellFormed
    <3> QED BY <1>18, <3>1, HistoryAssumption
  <2> HIDE DEF does
  <2> QED BY <1>7, <1>13, <1>14, <2>1, ShownIsLook
<1>20. Linked(s, Picture, w, does, d.heap)
  <2>1. /\ \A v : Effect(c2, v, does, e.heap) = TakeOut(v, i)
        /\ \A v : Effect(u2, v, does, e.heap) = PutIn(v, i, Picture.face[i])
        /\ \A v : Effect(u3, v, does, e.heap) = PutIn(v, i + 1, Picture.face[i + 1])
    BY <1>4, <1>6, <1>9 DEF Effect
  <2>2. Effects(<<c2, u2, u3>>, w, does, e.heap)
          = Effect(u3, Effect(u2, Effect(c2, w, does, e.heap), does, e.heap), does, e.heap)
    BY EffectsThree
  <2>3. Effects(<<c2, u2, u3>>, w, does, e.heap) = Picture
    BY <1>17, <2>1, <2>2
  <2>5. Finds(<<c2, u2, u3>>, w) /\ Finds(r, Picture)
    BY <1>6, <1>10, ThreeFind
  <2> HIDE DEF does
  <2>4. Linked(s, Picture, w, does, e.heap)
    BY <1>7, <1>9, <1>11, <1>13, <1>14, <1>19, <2>3, <2>5 DEF Linked
  <2> QED BY <1>9, <1>13, <2>4, LinkedStays
<1>21. KeyTells(s, w, does)
  BY <1>6, <1>7 DEF KeyTells, Once
<1>22. ~(queue # None /\ queue.key = s.key)
  BY <1>2, <1>7
<1> QED BY <1>0, <1>1, <1>7, <1>13, <1>14, <1>17, <1>18, <1>20, <1>21, <1>22, Edited

\* A closure that leads from what is seen to what the manager tells keeps the invariant.
LEMMA RanFollows ==
  ASSUME IndexInv, TypeInv', Len(heap) < MaxObjects,
         NEW d, Sound(d, session.does), View(session.does, d) = Picture, d.heap = heap,
         NEW q, ClosureOf(q, Len(heap), session.does), OrdersIn(q, IdsIn(d)), Become(Run(q, d)),
         Story(Manager', Effects(q, Picture, session.does, heap), session.does, heap),
         queue' = None, merging' = NoMerge, stroke' = NoStroke /\ converting' = {}, session' = session
  PROVE  IndexInv'
<1> DEFINE does == session.does
           e == Run(q, d)
           w == Effects(q, Picture, does, heap)
           m == Manager'
<1>1. "text" \notin does => Distinct(View(does, d))
  BY DEF IndexInv, Seen
<1>2. RunIs(e, q, d, does)
  <2> HIDE DEF does, e
  <2> QED BY <1>1, RunSeen DEF does, e
<1> HIDE DEF e
<1>3. /\ Sound(e, does) /\ Keeps(e.heap, heap, does) /\ View(does, e) = w
      /\ Len(heap) \in Nat /\ Len(e.heap) \in Len(heap)..(Len(heap) + 1)
  BY <1>2 DEF RunIs
<1>4. WellFormed(Document)' /\ Become(e)
  BY DEF TypeInv, e
<1>5. Sound(Document', does) /\ View(does, Document') = w
  BY <1>3, <1>4, BecomesSound
<1>6. heap' = e.heap /\ Len(heap') \in Nat /\ Len(heap') >= Len(heap) /\ Len(heap') <= MaxObjects
  BY <1>3, <1>4, HistoryAssumption DEF Become
<1> HIDE DEF w
<1>7. Story(m, w, does, heap)
  BY DEF w
<1>8. Len(m.stack) \in Nat /\ m.at \in 0..Len(m.stack)
  BY DEF TypeInv, HistoryInv, Orderly, IsStack
<1> HIDE DEF m
<1>9. Seen(w, does)
  BY <1>7, <1>8, StorySays
<1>10. Story(m, w, does, heap')
  BY <1>3, <1>6, <1>7, StoryStays
<1>11. Picture' = w
  BY <1>5 DEF Picture
<1>12. Told(m, None, w, does, heap')
  BY <1>10 DEF Told
<1> QED BY <1>5, <1>6, <1>9, <1>11, <1>12 DEF IndexInv, m

\* The queue is processed after a second.
LEMMA QueueFollows == ASSUME Following, TypeInv', QueueTimeout PROVE IndexInv'
<1> DEFINE does == session.does
           m == ProcessedQueue(Manager)
<1>1. /\ queue' = None /\ BecomeManager(m) /\ UNCHANGED <<heap, layers, bitmap, size, loading, ids>>
      /\ stroke' = stroke /\ converting' = converting /\ merging' = merging /\ session' = session
  BY DEF QueueTimeout, document
<1>2. /\ IndexInv /\ HistoryInv /\ Sound(Document, does) /\ Seen(Picture, does)
      /\ Told(Manager, queue, Picture, does, heap)
  BY DEF Following, IndexInv, TypeInv
<1>3. Story(m, Picture, does, heap) /\ Orderly(m)
  BY <1>2, ToldProcessed, QueueOrderly
<1> HIDE DEF m
<1>4. Story(Manager', Picture, does, heap)
  BY <1>1, <1>3, ToldTakenOver
<1>5. Become(Document)
  BY <1>1, DocumentParts DEF Become
<1>6. WellFormed(Document)'
  BY DEF TypeInv
<1>7. Sound(Document', does) /\ View(does, Document') = View(does, Document)
  BY <1>2, <1>5, <1>6, BecomesSound
<1>8. Picture' = Picture
  BY <1>1, <1>7 DEF Picture
<1>9. Told(Manager', queue', Picture, does, heap)
  BY <1>1, <1>4 DEF Told
<1>10. ASSUME merging # NoMerge PROVE MergeWaits'
  <2>1. MergeWaits
    BY <1>2, <1>10 DEF IndexInv
  <2>2. queue'.key # <<"merge", merging.index>>
    <3>1. queue'.key = <<"none">>
      BY <1>1 DEF None
    <3> DEFINE k == "merge"
               i == merging.index
    <3>2. Len(<<"none">>) = 1 /\ Len(<<k, i>>) = 2
      OBVIOUS
    <3> QED BY <3>1, <3>2
  <2> QED BY <1>1, <2>1, <2>2 DEF MergeWaits
<1> QED BY <1>1, <1>2, <1>7, <1>8, <1>9, <1>10 DEF IndexInv

\* Undoing leads to what was seen before the entry.
LEMMA UndoFollows == ASSUME Following, TypeInv', Undo PROVE IndexInv'
<1> DEFINE does == session.does
           m == ProcessedQueue(Manager)
           d == [Document EXCEPT !.urls = m.blobUrls]
           u == [m EXCEPT !.at = @ - 1]
           q == m.stack[m.at].undo
<1>1. /\ IndexInv /\ HistoryInv /\ session.patient /\ stroke = NoStroke /\ converting = {} /\ Sound(Document, does) /\ Seen(Picture, does)
      /\ Told(Manager, queue, Picture, does, heap)
  BY DEF Following, IndexInv, TypeInv
<1>3. /\ m.at > 0 /\ Possible(q) /\ Len(heap) < MaxObjects /\ Waits(AtRest /\ stroke = NoStroke)
      /\ stroke' = NoStroke /\ converting' = {} /\ queue' = None /\ BecomeManager(u) /\ Become(Run(q, d))
      /\ merging' = merging /\ session' = session
  BY <1>1 DEF Undo, TakeBack
<1>4. merging' = NoMerge
  BY <1>1, <1>3 DEF Waits, AtRest
<1>5. Story(m, Picture, does, heap) /\ Orderly(m)
  BY <1>1, ToldProcessed, QueueOrderly
<1> HIDE DEF m
<1>6. m.at \in 1..Len(m.stack) /\ Len(m.stack) \in Nat
  BY <1>3, <1>5 DEF Orderly, IsStack
<1>7. u.stack = m.stack /\ u.at = m.at - 1 /\ u.base = m.base /\ Orderly(u)
  BY <1>3, <1>5, OneLess
<1> HIDE DEF u
<1>8. ClosureOf(q, Len(heap), does) /\ Story(u, Effects(q, Picture, does, heap), does, heap)
  BY <1>5, <1>6, <1>7, StoryUndone
<1>9. Story(Manager', Effects(q, Picture, does, heap), does, heap)
  BY <1>3, <1>7, <1>8, ToldTakenOver
<1> HIDE DEF q
<1>10. /\ IsDocument(d) /\ d.heap = heap /\ d.layers = layers /\ d.ids = ids /\ d.bitmap = bitmap
       /\ d.size = size /\ d.loading = loading
  BY <1>1, WithUrls, DocumentParts DEF Sound, WellFormed
<1> HIDE DEF d
<1>11. Sound(d, does) /\ View(does, d) = Picture
  <2>1. Sound(d, does)
    BY <1>1, <1>10, DocumentParts DEF Sound, WellFormed, RefsDistinct
  <2>2. View(does, d) = View(does, Document)
    BY <1>10, DocumentParts DEF View
  <2> QED BY <2>1, <2>2 DEF Picture
<1>12. OrdersIn(q, IdsIn(d))
  BY <1>3, <1>10 DEF Possible, OrdersIn, IdsIn
<1> QED BY <1>1, <1>3, <1>4, <1>8, <1>9, <1>10, <1>11, <1>12, RanFollows

\* Redoing leads to what was seen after the entry.
LEMMA RedoFollows == ASSUME Following, TypeInv', Redo PROVE IndexInv'
<1> DEFINE does == session.does
           m == Manager
           q == stack[at + 1].redo
<1>1. /\ IndexInv /\ HistoryInv /\ session.patient /\ stroke = NoStroke /\ converting = {} /\ Sound(Document, does) /\ Seen(Picture, does)
      /\ Told(m, queue, Picture, does, heap)
  BY DEF Following, IndexInv, TypeInv
<1>2. /\ at < Len(stack) /\ Possible(q) /\ Len(heap) < MaxObjects /\ AtRest /\ queue = None
      /\ at' = at + 1 /\ Become(Run(q, Document)) /\ stack' = stack /\ base' = base
      /\ stroke' = stroke /\ converting' = converting /\ merging' = merging /\ queue' = queue /\ session' = session
  BY <1>1 DEF Redo, Waits
<1>3. Story(m, Picture, does, heap)
  BY <1>1, <1>2 DEF Told
<1>4. m.stack = stack /\ m.at = at /\ Len(m.stack) \in Nat /\ m.at \in 0..Len(m.stack)
  <2>1. Orderly(m) /\ m.stack = stack /\ m.at = at
    BY <1>1 DEF HistoryInv, Manager
  <2> QED BY <2>1 DEF Orderly, IsStack
<1>5. Manager'.stack = m.stack /\ Manager'.at = m.at + 1 /\ Manager'.base = m.base
  BY <1>2 DEF Manager
<1> HIDE DEF m
<1>6. ClosureOf(q, Len(heap), does) /\ Story(Manager', Effects(q, Picture, does, heap), does, heap)
  BY <1>2, <1>3, <1>4, <1>5, StoryRedone
<1> HIDE DEF q
<1>7. OrdersIn(q, IdsIn(Document))
  BY <1>2, DocumentParts DEF Possible, OrdersIn, IdsIn
<1>8. merging' = NoMerge /\ stroke' = NoStroke /\ converting' = {} /\ queue' = None /\ View(does, Document) = Picture /\ Document.heap = heap
  BY <1>1, <1>2, DocumentParts DEF AtRest, Picture
<1> QED BY <1>1, <1>2, <1>6, <1>7, <1>8, RanFollows

\* A document that has just been opened is the one its history starts with.
OpenedWhole ==
  /\ OpenedNow /\ bitmap = Opened.bitmap /\ size = Opened.size /\ loading = {} /\ at = 0 /\ base = Shown(Opened)
  /\ stroke = NoStroke /\ converting = {}

\* It is at the index then.
LEMMA OpenedFollows == OpenedWhole /\ TypeInv => IndexInv
<1> SUFFICES ASSUME OpenedWhole, TypeInv PROVE IndexInv
  OBVIOUS
<1> DEFINE does == session.does
           New(i) == [NewLayer(i) EXCEPT !.mask = (i = 1)]
           h == [i \in 1..Start |-> New(i)]
           l == [i \in 1..Start |-> i]
<1>1. Start \in Nat /\ MaxObjects \in Nat /\ Start <= MaxObjects
  BY HistoryAssumption
<1>2. /\ heap = h /\ layers = l /\ bitmap = Unpainted /\ size = 0 /\ loading = {} /\ ids = Start
      /\ stack = <<>> /\ at = 0 /\ queue = None /\ merging = NoMerge /\ stroke = NoStroke /\ converting = {} /\ base = Shown(Opened)
  BY DEF OpenedWhole, OpenedNow, Opened, Unpainted
<1>3. \A i \in 1..Start : IsLayer(New(i)) /\ New(i).id = i /\ New(i).left = 0
  <2> TAKE i \in 1..Start
  <2> DEFINE p == NewLayer(i)
             v == i = 1
             f == "mask"
             g == "id"
             k == "left"
  <2>1. IsLayer(p) /\ p[g] = i /\ p[k] = 0 /\ f \in Fields /\ g \in Fields \ {f} /\ k \in Fields \ {f}
    BY NewLayerIsLayer DEF Fields, NewLayer
  <2> HIDE DEF p, v, f, g, k
  <2>2. IsLayer([p EXCEPT ![f] = v]) /\ [p EXCEPT ![f] = v][g] = p[g]
    BY <2>1, FieldSet
  <2>3. [p EXCEPT ![f] = v][k] = p[k]
    BY <2>1, FieldSet
  <2> QED BY <2>1, <2>2, <2>3 DEF p, v, f, g, k
<1> HIDE DEF New
<1>4. Len(heap) = Start /\ Len(layers) = Start /\ \A i \in 1..Start : heap[i] = New(i) /\ layers[i] = i
  BY <1>1, <1>2
<1> HIDE DEF h, l
<1>5. WellFormed(Document)
  BY DEF TypeInv
<1>6. Sound(Document, does)
  BY <1>1, <1>2, <1>4, <1>5, DocumentParts DEF Sound, RefsDistinct
<1>7. /\ IsView(Picture) /\ Picture.count = Start
      /\ \A j \in 1..Start : Picture.face[j] = Face(does, New(j))
  BY <1>4, <1>5, DocumentParts, ViewIsView DEF Picture
<1>8. Seen(Picture, does)
  <2>1. \A j \in 1..Start : /\ IsLayer(Picture.face[j]) /\ Picture.face[j].left \in Int
                            /\ ("text" \notin does => Picture.face[j].id = j)
    BY <1>3, <1>7, FaceIs
  <2> QED BY <1>7, <2>1 DEF Seen, Distinct
<1>9. base = Look(Picture)
  <2>1. Shown(Document) = Shown(Opened)
    <3>1. /\ Document.size = Opened.size /\ Document.layers = Opened.layers
          /\ Document.heap = Opened.heap /\ Document.bitmap = Opened.bitmap
      BY DocumentParts DEF OpenedWhole, OpenedNow
    <3> QED BY <3>1 DEF Shown
  <2>2. Document.ids <= MaxObjects + 1
    BY <1>1, <1>2, DocumentParts
  <2> QED BY <1>2, <1>6, <2>1, <2>2, ShownIsLook DEF Picture
<1>10. Story(Manager, Picture, does, heap)
  <2>1. Manager.stack = <<>> /\ Manager.at = 0 /\ Manager.base = base
    BY <1>2 DEF Manager
  <2> QED BY <1>8, <1>9, <2>1, EmptyStory
<1> QED BY <1>1, <1>2, <1>4, <1>6, <1>8, <1>10 DEF IndexInv, Told

\* Every edit of a plain session of a patient user keeps the document at the index.
LEMMA EditFollows ==
  ASSUME Following, TypeInv', NEW i \in DOMAIN layers, ActionAt(i)
  PROVE  IndexInv'
<1>0. session.does \cap {"paint", "panel", "drag"} = {}
  BY DEF Following, Plain
<1>1. CASE RenameLayer(i) \/ ToggleLayerVisibility(i) \/ ToggleLayerFilters(i)
  <2>1. FieldOf("layerName", "name") /\ FieldOf("layerVisibility", "visible") /\ FieldOf("layerFiltersEnabled", "filters")
    BY DEF FieldOf
  <2> QED BY <1>1, <2>1, ChangeFollows DEF RenameLayer, ToggleLayerVisibility, ToggleLayerFilters
<1>2. CASE UpdateLayerFilters(i) \/ PasteLayerFilters(i) \/ AddMask(i) \/ RemoveMask(i)
  <2>1. /\ FieldOf("filters", "filters") /\ FieldOf("pasteFilters", "filters")
        /\ FieldOf("maskAdd", "mask") /\ FieldOf("maskRemove", "mask")
    BY DEF FieldOf
  <2> QED BY <1>2, <2>1, ChangeFollows DEF UpdateLayerFilters, PasteLayerFilters, AddMask, RemoveMask
<1>3. CASE RotateLayer(i) \/ RemoveLayerAt(i) \/ ReorderTwo(i)
  BY <1>3, RotateFollows, RemoveFollows, ReorderFollows
<1>4. CASE AddNewLayer(i) \/ DuplicateLayer(i)
  BY <1>4, AddFollows
<1>5. CASE MergeLayerDown(i)
  BY <1>5, MergeLayerDownFollows
<1>6. CASE PositionLayer(i) \/ PositionMask(i)
  <2>1. "drag" \in session.does
    BY <1>6 DEF PositionLayer, PositionMask, Move, Commit, MayEdit
  <2> QED BY <1>0, <2>1
<1>7. CASE Paint(i)
  <2>1. "paint" \in session.does
    BY <1>7 DEF Paint, MayEdit
  <2> QED BY <1>0, <2>1
<1>8. CASE RemoveInPanel(i)
  <2>1. "panel" \in session.does
    BY <1>8 DEF RemoveInPanel, MayEdit
  <2> QED BY <1>0, <2>1
<1> QED BY <1>1, <1>2, <1>3, <1>4, <1>5, <1>6, <1>7, <1>8 DEF ActionAt

\* Opening a document starts another story.
LEMMA OpenFollows == ASSUME TypeInv', OpenDocument PROVE IndexInv'
<1>1. OpenedWhole'
  <2>1. Opened' = Opened /\ Shown(Opened)' = Shown(Opened)
    BY DEF Opened, NewLayer
  <2>2. /\ heap' = Opened.heap /\ layers' = Opened.layers /\ ids' = Start /\ bitmap' = Opened.bitmap
        /\ size' = Opened.size /\ loading' = {}
    BY DEF OpenDocument, Become, Opened
  <2>3. /\ stack' = <<>> /\ queue' = None /\ merging' = NoMerge /\ stroke' = NoStroke /\ converting' = {} /\ at' = 0
        /\ base' = Shown(Opened)
    BY DEF OpenDocument, AtRest
  <2> QED BY <2>1, <2>2, <2>3 DEF OpenedWhole, OpenedNow
<1> QED BY <1>1, OpenedFollows, PTL

\* What the plain sessions of patient users keep.
FollowInv == TypeInv /\ (session.patient /\ Plain(session.does) => IndexInv)

\* Every step keeps it.
LEMMA NextFollows == FollowInv /\ [Next]_vars => FollowInv'
<1> SUFFICES ASSUME FollowInv, [Next]_vars PROVE FollowInv'
  OBVIOUS
<1>1. TypeInv' /\ session' = session
  <2>1. TypeInv'
    BY NextTyped DEF FollowInv
  <2>2. session' = session
    BY DEF Next, vars, ActionAt, RenameLayer, ToggleLayerVisibility, ToggleLayerFilters, UpdateLayerFilters,
           PasteLayerFilters, AddMask, RemoveMask, RotateLayer, AddNewLayer, DuplicateLayer, RemoveLayerAt,
           ReorderTwo, PositionLayer, PositionMask, MergeLayerDown, Paint, RemoveInPanel, Change, Move, Insert,
           Commit, AddTextLayer, ResizeCanvas, Merge, StorePaintState, ConversionEnds, QueueTimeout, Undo, Redo, BlobLoads,
           OpenDocument
  <2> QED BY <2>1, <2>2
<1> SUFFICES ASSUME session.patient, Plain(session.does) PROVE IndexInv'
  BY <1>1 DEF FollowInv, Plain
<1>2. Following /\ TypeInv'
  BY <1>1 DEF Following, FollowInv
<1>3. CASE \E i \in DOMAIN layers : ActionAt(i)
  BY <1>2, <1>3, EditFollows
<1>4. CASE AddTextLayer \/ ResizeCanvas \/ Merge
  BY <1>2, <1>4, TextFollows, ResizeFollows, MergeFollows
<1>5. CASE QueueTimeout \/ Undo \/ Redo
  BY <1>2, <1>5, QueueFollows, UndoFollows, RedoFollows
<1>6. CASE OpenDocument
  BY <1>2, <1>6, OpenFollows
<1>7. CASE (\E undo \in BOOLEAN : StorePaintState(undo)) \/ \E c \in converting : ConversionEnds(c)
  BY <1>2, <1>7 DEF Following, IndexInv, StorePaintState
<1>8. CASE \E b \in loading : BlobLoads(b)
  <2>1. loading = {}
    BY <1>2, DocumentParts DEF Following, IndexInv, Sound
  <2> QED BY <1>8, <2>1
<1>9. CASE UNCHANGED vars
  <2>1. /\ Document' = Document /\ Manager' = Manager /\ queue' = queue /\ stroke' = stroke /\ converting' = converting /\ merging' = merging
        /\ heap' = heap /\ layers' = layers /\ session' = session
    BY <1>9 DEF vars, document, manager, Document, Manager
  <2>2. Picture' = Picture
    BY <2>1 DEF Picture
  <2>3. IndexInv
    BY <1>2 DEF Following
  <2> QED BY <1>1, <2>1, <2>2, <2>3 DEF IndexInv, MergeWaits
<1> QED BY <1>3, <1>4, <1>5, <1>6, <1>7, <1>8, <1>9 DEF Next

\* What the invariant says when nothing is under way.
LEMMA FollowSays == FollowInv /\ Plain(session.does) => DocumentIsAtIndex
<1> SUFFICES ASSUME FollowInv, Plain(session.does), session.patient, Settled PROVE Now = ShownAtIndex
  BY DEF DocumentIsAtIndex
<1> DEFINE does == session.does
<1>1. /\ IndexInv /\ Orderly(Manager) /\ Story(Manager, Picture, does, heap)
  BY DEF FollowInv, IndexInv, Told, Settled, TypeInv, HistoryInv
<1>2. Manager.stack = stack /\ Manager.at = at /\ Manager.base = base
  BY DEF Manager
<1>3. Len(stack) \in Nat /\ at \in 0..Len(stack)
  BY <1>1, <1>2 DEF Orderly, IsStack
<1>4. (at = 0 => base = Look(Picture)) /\ (at # 0 => stack[at].after = Look(Picture))
  BY <1>1, <1>2, <1>3, StorySays
<1>5. Sound(Document, does) /\ Len(heap) <= MaxObjects /\ Len(heap) \in Nat /\ ids \in Nat
  BY <1>1, HeapCount DEF IndexInv
<1>6. ids <= MaxObjects + 1
  <2>1. ids <= Len(heap)
    BY <1>5, DocumentParts DEF Sound
  <2> QED BY <1>5, <2>1, HistoryAssumption
<1>7. Now = Look(Picture)
  BY <1>5, <1>6, DocumentParts, ShownIsLook DEF Now, Picture
<1> QED BY <1>4, <1>7 DEF ShownAtIndex

\* What a closure names is found by the document that is seen so.
LEMMA PossibleSeen ==
  ASSUME IndexInv, NEW q, ClosureOf(q, Len(heap), session.does), Finds(q, Picture)
  PROVE  Possible(q)
<1> DEFINE there == {heap[o].id : o \in Range(layers)}
           verbs == {"reorder", "offsets"}
<1>1. \A n \in DOMAIN q : q[n].do \in verbs => "text" \notin session.does
  <2>1. CASE \E c : q = <<c>> /\ IsCommand(c, Len(heap)) /\ CommandOf(c, session.does)
    <3>1. PICK c : q = <<c>> /\ CommandOf(c, session.does)
      BY <2>1
    <3>2. DOMAIN <<c>> = {1} /\ <<c>>[1] = c
      OBVIOUS
    <3> QED BY <3>1, <3>2 DEF CommandOf
  <2>2. CASE \E c1, c2, c3 : q = <<c1, c2, c3>> /\ Simple(c1) /\ Simple(c2) /\ Simple(c3)
    <3>1. PICK c1, c2, c3 : q = <<c1, c2, c3>> /\ Simple(c1) /\ Simple(c2) /\ Simple(c3)
      BY <2>2
    <3>2. DOMAIN q = 1..3 /\ q[1] = c1 /\ q[2] = c2 /\ q[3] = c3
      BY <3>1
    <3> QED BY <3>1, <3>2 DEF Simple
  <2>3. \/ \E c : q = <<c>> /\ IsCommand(c, Len(heap)) /\ CommandOf(c, session.does)
        \/ \E c1, c2, c3 : q = <<c1, c2, c3>> /\ Simple(c1) /\ Simple(c2) /\ Simple(c3)
    BY Zenon DEF ClosureOf
  <2> QED BY <2>1, <2>2, <2>3
<1>2. "text" \notin session.does => there = IdsSeen(Picture)
  <2>1. /\ DOMAIN layers = 1..Len(layers) /\ Picture.count = Len(layers)
        /\ "text" \notin session.does => \A j \in 1..Len(layers) : Picture.face[j].id = heap[layers[j]].id
    BY PictureIs
  <2>2. there = {heap[layers[j]].id : j \in 1..Len(layers)}
    BY <2>1 DEF Range
  <2> HIDE DEF there
  <2>3. ASSUME "text" \notin session.does
        PROVE  {heap[layers[j]].id : j \in 1..Len(layers)} = {Picture.face[j].id : j \in 1..Len(layers)}
    BY <2>1, <2>3
  <2> QED BY <2>1, <2>2, <2>3 DEF IdsSeen
<1>3. \A n \in DOMAIN q : FindsOne(q[n], Picture)
  BY DEF Finds
<1> HIDE DEF there
<1>4. \A n \in DOMAIN q : /\ q[n].do = "reorder" => Range(q[n].order) \subseteq there
                          /\ q[n].do = "offsets" => there \subseteq DOMAIN q[n].left
  BY <1>1, <1>2, <1>3 DEF FindsOne
<1> QED BY <1>4 DEF Possible, there

\* So the entries next to the index can be undone and redone.
LEMMA EntriesFind == FollowInv /\ Plain(session.does) => UndoFindsLayers
<1> DEFINE does == session.does
           m == ProcessedQueue(Manager)
<1> SUFFICES ASSUME FollowInv, Plain(does), session.patient, AtRest, stroke = NoStroke
             PROVE  /\ m.at > 0 => Possible(m.stack[m.at].undo)
                    /\ at < Len(stack) /\ queue = None => Possible(stack[at + 1].redo)
  BY DEF UndoFindsLayers
<1>1. /\ IndexInv /\ HistoryInv /\ Seen(Picture, does) /\ Told(Manager, queue, Picture, does, heap)
  BY DEF FollowInv, IndexInv, TypeInv
<1>2. Story(m, Picture, does, heap) /\ Orderly(m)
  BY <1>1, ToldProcessed, QueueOrderly
<1> HIDE DEF m
<1>3. ASSUME m.at > 0 PROVE Possible(m.stack[m.at].undo)
  <2> DEFINE u == [m EXCEPT !.at = @ - 1]
             q == m.stack[m.at].undo
  <2>1. m.at \in 1..Len(m.stack) /\ Len(m.stack) \in Nat
    BY <1>2, <1>3 DEF Orderly, IsStack
  <2>2. u.stack = m.stack /\ u.at = m.at - 1 /\ u.base = m.base
    BY <1>2, <1>3, OneLess
  <2> HIDE DEF u
  <2>3. ClosureOf(q, Len(heap), does) /\ Finds(q, Picture)
    BY <1>2, <2>1, <2>2, StoryUndone
  <2> QED BY <1>1, <2>3, PossibleSeen
<1>4. ASSUME at < Len(stack), queue = None PROVE Possible(stack[at + 1].redo)
  <2> DEFINE n == Manager
             q == stack[at + 1].redo
             u == [stack |-> stack, at |-> at + 1, base |-> base]
  <2>1. Orderly(n) /\ n.stack = stack /\ n.at = at /\ n.base = base /\ Story(n, Picture, does, heap)
    BY <1>1, <1>4 DEF Told, HistoryInv, Manager
  <2>2. u.stack = stack /\ u.at = at + 1 /\ u.base = base
    OBVIOUS
  <2> HIDE DEF n, u
  <2>3. Len(n.stack) \in Nat /\ n.at \in 0..Len(n.stack)
    BY <2>1 DEF Orderly, IsStack
  <2>4. ClosureOf(q, Len(heap), does) /\ Finds(q, Picture)
    BY <1>4, <2>1, <2>2, <2>3, StoryRedone
  <2> QED BY <1>1, <2>4, PossibleSeen
<1> QED BY <1>3, <1>4

\* The sessions a patient user makes keep the invariant.
LEMMA FollowKept == Spec => []FollowInv
<1>1. Init => FollowInv
  <2> SUFFICES ASSUME Init PROVE FollowInv
    OBVIOUS
  <2>1. HistoryInv
    BY EmptyOrderly DEF Init, HistoryInv, Manager
  <2>2. OpenedWhole
    BY DEF Init, OpenedWhole, OpenedNow, Opened
  <2>3. TypeInv
    BY <2>1, <2>2, OpenedTyped DEF OpenedWhole
  <2> QED BY <2>2, <2>3, OpenedFollows DEF FollowInv
<1>2. FollowInv /\ [Next]_vars => FollowInv'
  BY NextFollows
<1> QED BY <1>1, <1>2, PTL DEF Spec

\* While a user lets blobs load and merges end, and however many entries are undone, redone, merged
\* in the queue, dropped at the limit or replaced, the document shows what the entry at the index
\* left, in every session that neither paints nor drags, and does not both change layers in place
\* and put layers back that were taken out (history-state-factory.ts and the actions of
\* store/actions).
THEOREM DocumentFollowsIndex == Spec => [](Plain(session.does) => DocumentIsAtIndex)
<1>1. FollowInv => (Plain(session.does) => DocumentIsAtIndex)
  BY FollowSays
<1> QED BY <1>1, FollowKept, PTL

\* In those sessions undo and redo find every layer that their closures name: what was taken out
\* comes back under its own id, so that no order puts a hole into the document (reorderLayers of
\* document-module.ts) and no layer lacks an offset (updateOffsets of canvas-resize.ts).
THEOREM LayersAreFound == Spec => [](Plain(session.does) => UndoFindsLayers)
<1>1. FollowInv => (Plain(session.does) => UndoFindsLayers)
  BY EntriesFind
<1> QED BY <1>1, FollowKept, PTL
=============================================================================
