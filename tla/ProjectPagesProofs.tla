------------------------- MODULE ProjectPagesProofs -------------------------
(***************************************************************************)
(* ProjectPages for every number of pages, contents and requests: the      *)
(* pages stay numbered 1..N, a save hits the index its client meant, and   *)
(* the storage implements PageList.                                        *)
(***************************************************************************)
EXTENDS ProjectPages, FiniteSetTheorems, TLAPS

\* A row that is there has a number from 1 on.
LEMMA RowKinds ==
  ASSUME NEW row \in PageRow
  PROVE  /\ row = NoRow <=> row.index = 0
         /\ row # NoRow => /\ row \in [index : Indexes, content : Contents]
                           /\ row.index \in Nat /\ row.index >= 1
<1>1. Indexes \subseteq Nat \ {0}
  <2>1. Cardinality(Pages) \in Nat
    BY PagesAssumption, FS_CardinalityType
  <2> QED
    BY <2>1 DEF Indexes
<1>2. CASE row = NoRow
  BY <1>2 DEF NoRow
<1>3. CASE row \in [index : Indexes, content : Contents]
  <2>1. row.index \in Nat \ {0}
    BY <1>1, <1>3
  <2>2. row # NoRow
    BY <2>1 DEF NoRow
  <2> QED
    BY <1>3, <2>1, <2>2
<1> QED
  BY <1>2, <1>3 DEF PageRow

\* There are finitely many pages.
LEMMA StoredIsFinite ==
  IsFiniteSet(Stored) /\ Cardinality(Stored) \in Nat /\ Stored \subseteq Pages
<1>1. Stored \in SUBSET Pages
  BY DEF Stored
<1> QED
  BY <1>1, PagesAssumption, FS_Subset, FS_CardinalityType

\* What requests ask for.
LEMMA OperationKinds ==
  ASSUME NEW o \in Operation
  PROVE  /\ o.kind \in {"create", "save", "delete", "trash", "restore", "purge"}
         /\ o.kind \in {"create", "save"} => o.write \in Write /\ o.write.page \in Pages
         /\ o.kind = "delete" => o.write.page \in Pages
BY DEF Operation, Write

\* A page is appended: only max(index) + 1 is accepted, and that is N + 1.
LEMMA AppendKeepsNumbers ==
  ASSUME TypeOK, IndexesAreDense, NoGap,
         NEW w \in Write, w.page \notin Stored, IsNextIndex(w),
         rows' = [rows EXCEPT ![w.page] = [index |-> w.index, content |-> w.content]]
  PROVE  /\ rows' \in [Pages -> PageRow]
         /\ Stored' = Stored \union {w.page}
         /\ w.index = Cardinality(Stored) + 1 /\ Cardinality(Stored') = w.index
         /\ IndexesAreDense' /\ NoGap'
<1> DEFINE n == Cardinality(Stored)
<1>0. n \in Nat /\ IsFiniteSet(Stored) /\ w.page \in Pages /\ w.index \in Indexes /\ w.content \in Contents
  BY StoredIsFinite DEF Write
<1>1. w.index \in Nat /\ w.index >= 1
  <2>1. Cardinality(Pages) \in Nat
    BY PagesAssumption, FS_CardinalityType
  <2> QED
    BY <1>0, <2>1 DEF Indexes
<1>2. rows' \in [Pages -> PageRow]
  BY <1>0 DEF TypeOK, PageRow
<1>3. /\ rows'[w.page].index = w.index /\ rows'[w.page] # NoRow
      /\ \A p \in Pages \ {w.page} : rows'[p] = rows[p]
  BY <1>0, <1>1 DEF TypeOK, NoRow
<1>4. Stored' = Stored \union {w.page}
  BY <1>0, <1>3 DEF Stored
<1>5. Cardinality(Stored') = n + 1
  BY <1>0, <1>4, FS_AddElement
<1>6. \A p \in Stored : rows[p].index \in 1..n
  BY DEF IndexesAreDense
<1>7. w.index = n + 1
  <2>1. CASE w.index = 1
    <3>1. n = 0
      <4>1. SUFFICES ASSUME n > 0
                     PROVE  FALSE
        BY <1>0
      <4>2. PICK p \in Stored : rows[p].index = 1
        BY <1>0, <4>1 DEF NoGap
      <4> QED
        BY <2>1, <4>2 DEF IsNextIndex
    <3> QED
      BY <2>1, <3>1
  <2>2. CASE w.index # 1
    <3>1. PICK p \in Stored : rows[p].index = w.index - 1
      BY <2>2 DEF IsNextIndex
    <3>2. w.index <= n + 1 /\ n > 0
      BY <1>0, <1>1, <1>6, <3>1
    <3>3. PICK q \in Stored : rows[q].index = n
      BY <1>0, <3>2 DEF NoGap
    <3>4. n < w.index
      BY <3>3 DEF IsNextIndex
    <3> QED
      BY <1>0, <1>1, <3>2, <3>4
  <2> QED
    BY <2>1, <2>2
<1>8. IndexesAreDense'
  <2>1. \A p \in Stored' : rows'[p].index \in 1..(n + 1)
    BY <1>0, <1>3, <1>4, <1>6, <1>7, StoredIsFinite
  <2>2. \A p, q \in Stored' : rows'[p].index = rows'[q].index => p = q
    <3>1. \A p \in Stored : rows'[p] = rows[p] /\ rows[p].index < w.index
      BY <1>0, <1>3, StoredIsFinite DEF IsNextIndex
    <3>2. \A p \in Stored : rows[p].index # w.index
      BY <1>0, <1>6, <1>7
    <3> QED
      BY <1>3, <1>4, <3>1, <3>2 DEF IndexesAreDense
  <2> QED
    BY <1>5, <2>1, <2>2 DEF IndexesAreDense
<1>9. NoGap'
  <2>1. SUFFICES ASSUME NEW i \in 1..(n + 1)
                 PROVE  \E p \in Stored' : rows'[p].index = i
    BY <1>5 DEF NoGap
  <2>2. CASE i = n + 1
    BY <1>3, <1>4, <1>7, <2>2
  <2>3. CASE i # n + 1
    <3>1. PICK p \in Stored : rows[p].index = i
      BY <1>0, <2>3 DEF NoGap
    <3>2. p # w.page /\ p \in Pages
      BY StoredIsFinite
    <3> QED
      BY <1>3, <1>4, <3>1, <3>2
  <2> QED
    BY <2>2, <2>3
<1> QED
  BY <1>2, <1>4, <1>5, <1>7, <1>8, <1>9

\* A save changes no number.
LEMMA SaveKeepsNumbers ==
  ASSUME TypeOK, IndexesAreDense, NoGap,
         NEW p \in Stored, NEW c \in Contents,
         rows' = [rows EXCEPT ![p].content = c]
  PROVE  /\ rows' \in [Pages -> PageRow]
         /\ rows'[p] = [index |-> rows[p].index, content |-> c]
         /\ \A q \in Pages : rows'[q].index = rows[q].index /\ (q # p => rows'[q] = rows[q])
         /\ Stored' = Stored /\ IndexesAreDense' /\ NoGap'
<1>1. p \in Pages /\ rows[p] \in [index : Indexes, content : Contents] /\ rows[p].index >= 1
      /\ rows[p].index \in Nat
  BY RowKinds DEF Stored, TypeOK
<1>2. /\ rows'[p] = [index |-> rows[p].index, content |-> c]
      /\ \A q \in Pages \ {p} : rows'[q] = rows[q]
  BY <1>1 DEF TypeOK
<1>3. rows' \in [Pages -> PageRow]
  BY <1>1, <1>2 DEF TypeOK, PageRow
<1>4. rows'[p] # NoRow
  BY <1>1, <1>2 DEF NoRow
<1>5. Stored' = Stored
  BY <1>1, <1>2, <1>4 DEF Stored
<1>6. \A q \in Pages : rows'[q].index = rows[q].index
  BY <1>1, <1>2
<1> QED
  BY <1>2, <1>3, <1>5, <1>6, StoredIsFinite DEF IndexesAreDense, NoGap

\* A page is deleted: whoever is behind it moves one down.
LEMMA DeleteKeepsNumbers ==
  ASSUME TypeOK, IndexesAreDense, NoGap, NEW p \in Stored, rows' = ShiftDown(p)
  PROVE  /\ rows' \in [Pages -> PageRow]
         /\ rows'[p] = NoRow
         /\ \A q \in Stored \ {p} :
              rows'[q] = IF rows[q].index > rows[p].index THEN [rows[q] EXCEPT !.index = @ - 1] ELSE rows[q]
         /\ Stored' = Stored \ {p}
         /\ Cardinality(Stored') = Cardinality(Stored) - 1
         /\ IndexesAreDense' /\ NoGap'
<1> DEFINE n == Cardinality(Stored)
           k == rows[p].index
<1>0. /\ n \in Nat /\ IsFiniteSet(Stored) /\ p \in Pages /\ k \in 1..n
      /\ Cardinality(Pages) \in Nat /\ rows \in [Pages -> PageRow]
  BY StoredIsFinite, PagesAssumption, FS_CardinalityType DEF IndexesAreDense, TypeOK
<1>1. \A q \in Stored : /\ q \in Pages /\ rows[q] \in [index : Indexes, content : Contents]
                        /\ rows[q].index \in 1..n
  BY RowKinds, StoredIsFinite DEF TypeOK, Stored, IndexesAreDense
<1>2. /\ rows'[p] = NoRow
      /\ \A q \in Pages \ Stored : rows'[q] = NoRow
      /\ \A q \in Stored \ {p} : rows'[q] = IF rows[q].index > k THEN [rows[q] EXCEPT !.index = @ - 1] ELSE rows[q]
  BY <1>0, <1>1 DEF ShiftDown, Behind, Stored
<1>3. \A q \in Stored \ {p} :
        /\ rows'[q] \in [index : Indexes, content : Contents]
        /\ rows'[q].index = IF rows[q].index > k THEN rows[q].index - 1 ELSE rows[q].index
        /\ rows'[q].index \in 1..(n - 1)
        /\ rows[q].index # k
  <2>1. SUFFICES ASSUME NEW q \in Stored \ {p}
                 PROVE  /\ rows'[q] \in [index : Indexes, content : Contents]
                        /\ rows'[q].index = IF rows[q].index > k THEN rows[q].index - 1 ELSE rows[q].index
                        /\ rows'[q].index \in 1..(n - 1)
                        /\ rows[q].index # k
    OBVIOUS
  <2>2. rows[q].index # k /\ rows[q].index \in Nat /\ k \in Nat /\ k >= 1
    BY <1>0, <1>1 DEF IndexesAreDense
  <2>3. CASE rows[q].index > k
    <3>1. rows'[q] = [rows[q] EXCEPT !.index = @ - 1]
      BY <1>2, <2>3
    <3>2. rows[q] \in [index : Indexes, content : Contents] /\ rows[q].index - 1 \in Indexes
      BY <1>0, <1>1, <2>2, <2>3 DEF Indexes
    <3> QED
      BY <1>0, <1>1, <2>2, <2>3, <3>1, <3>2
  <2>4. CASE ~(rows[q].index > k)
    <3>1. rows'[q] = rows[q]
      BY <1>2, <2>4
    <3>2. rows[q].index \in 1..(n - 1)
      BY <1>0, <1>1, <2>2, <2>4
    <3> QED
      BY <1>1, <2>2, <2>4, <3>1, <3>2
  <2> QED
    BY <2>2, <2>3, <2>4
<1>4. rows' \in [Pages -> PageRow]
  <2>1. rows' = [q \in Pages |-> rows'[q]]
    BY DEF ShiftDown
  <2>2. \A q \in Pages : rows'[q] \in PageRow
    BY <1>0, <1>2, <1>3 DEF PageRow
  <2> QED
    BY <2>1, <2>2
<1>5. Stored' = Stored \ {p}
  <2>1. \A q \in Stored \ {p} : rows'[q] # NoRow
    BY <1>0, <1>3 DEF NoRow
  <2> QED
    BY <1>0, <1>1, <1>2, <2>1 DEF Stored
<1>6. Cardinality(Stored') = n - 1
  BY <1>0, <1>5, FS_RemoveElement
<1>7. IndexesAreDense'
  <2>1. \A q, s \in Stored \ {p} : rows'[q].index = rows'[s].index => q = s
    <3>1. SUFFICES ASSUME NEW q \in Stored \ {p}, NEW s \in Stored \ {p}, rows'[q].index = rows'[s].index
                   PROVE  rows[q].index = rows[s].index
      BY DEF IndexesAreDense
    <3>2. rows[q].index \in Nat /\ rows[s].index \in Nat /\ k \in Nat
      BY <1>0, <1>1
    <3> QED
      BY <1>3, <3>1, <3>2
  <2> QED
    BY <1>3, <1>5, <1>6, <2>1 DEF IndexesAreDense
<1>8. NoGap'
  <2>1. SUFFICES ASSUME NEW i \in 1..(n - 1)
                 PROVE  \E q \in Stored \ {p} : rows'[q].index = i
    BY <1>5, <1>6 DEF NoGap
  <2>2. CASE i < k
    <3>1. PICK q \in Stored : rows[q].index = i
      BY <1>0, <2>1 DEF NoGap
    <3> QED
      BY <1>0, <1>3, <2>2, <3>1
  <2>3. CASE ~(i < k)
    <3>1. PICK q \in Stored : rows[q].index = i + 1
      BY <1>0, <2>1 DEF NoGap
    <3>2. q # p /\ i + 1 > k
      BY <1>0, <2>1, <2>3, <3>1
    <3> QED
      BY <1>0, <1>3, <3>1, <3>2
  <2> QED
    BY <2>2, <2>3
<1> QED
  BY <1>2, <1>4, <1>5, <1>6, <1>7, <1>8

-----------------------------------------------------------------------------
(***************************************************************************)
(* What a step does to the project and its pages, whoever takes it.        *)
(***************************************************************************)
Appends(w) ==
  /\ project = "live" /\ UNCHANGED project
  /\ w.page \notin Stored /\ IsNextIndex(w)
  /\ rows' = [rows EXCEPT ![w.page] = [index |-> w.index, content |-> w.content]]
Saves(p, c) ==
  /\ project = "live" /\ UNCHANGED project
  /\ rows' = [rows EXCEPT ![p].content = c]
Deletes(p) ==
  /\ project = "live" /\ UNCHANGED project
  /\ rows' = ShiftDown(p)
MovesProject ==
  /\ \/ project = "live" /\ project' = "trashed"
     \/ project = "trashed" /\ project' = "live"
  /\ UNCHANGED rows
Purges ==
  /\ project = "trashed" /\ project' = "purged"
  /\ rows' = [p \in Pages |-> NoRow]

Effect ==
  \/ UNCHANGED <<project, rows>>
  \/ \E w \in Write : Appends(w)
  \/ \E p \in Stored : Deletes(p) \/ \E c \in Contents : Saves(p, c)
  \/ MovesProject \/ Purges

\* A purge leaves nothing to number.
LEMMA PurgeKeepsNumbers ==
  ASSUME rows' = [p \in Pages |-> NoRow]
  PROVE  /\ rows' \in [Pages -> PageRow] /\ Stored' = {} /\ Cardinality(Stored') = 0
         /\ IndexesAreDense' /\ NoGap'
<1>1. Stored' = {} /\ rows' \in [Pages -> PageRow]
  BY DEF Stored, PageRow
<1>2. Cardinality(Stored') = 0
  BY <1>1, FS_EmptySet
<1> QED
  BY <1>1, <1>2 DEF IndexesAreDense, NoGap

\* The numbering survives every step.
LEMMA EffectKeepsNumbers ==
  ASSUME TypeOK, IndexesAreDense, NoGap, Effect
  PROVE  rows' \in [Pages -> PageRow] /\ IndexesAreDense' /\ NoGap'
<1>1. CASE UNCHANGED rows
  BY <1>1 DEF TypeOK, IndexesAreDense, NoGap, Stored
<1>2. CASE \E w \in Write : Appends(w)
  BY <1>2, AppendKeepsNumbers DEF Appends
<1>3. CASE \E p \in Stored, c \in Contents : Saves(p, c)
  BY <1>3, SaveKeepsNumbers DEF Saves
<1>4. CASE \E p \in Stored : Deletes(p)
  BY <1>4, DeleteKeepsNumbers DEF Deletes
<1>5. CASE Purges
  BY <1>5, PurgeKeepsNumbers DEF Purges
<1> QED
  BY <1>1, <1>2, <1>3, <1>4, <1>5 DEF Effect, MovesProject

-----------------------------------------------------------------------------
(***************************************************************************)
(* The locks                                                               *)
(***************************************************************************)
\* Whoever ends its transaction disturbs nobody whose page and project it leaves alone.
LEMMA ReturnKeepsLocks ==
  ASSUME TypeOK, LockInv, NEW r \in Requests, NEW a, Return(r, a),
         \A s \in Requests \ {r} :
           /\ HoldsPage(s) => op[s].write.page \in Stored'
           /\ pc[s] = "project" => UNCHANGED project
  PROVE  pc' \in [Requests -> Steps] /\ op' \in [Requests -> Operation \union {NoOperation}] /\ LockInv'
<1>1. /\ pc'[r] = "idle" /\ op'[r] = NoOperation
      /\ \A s \in Requests \ {r} : pc'[s] = pc[s] /\ op'[s] = op[s]
  BY DEF Return, TypeOK
<1>2. pc' \in [Requests -> Steps] /\ op' \in [Requests -> Operation \union {NoOperation}]
  BY DEF Return, TypeOK, Steps
<1>3. ~HoldsPage(r)' /\ \A s \in Requests \ {r} : HoldsPage(s)' <=> HoldsPage(s)
  BY <1>1 DEF HoldsPage, NamesPage
<1>4. LockInv'
  BY <1>1, <1>3 DEF LockInv, NamesPage
<1> QED
  BY <1>2, <1>4

\* A refusal leaves project and pages alone.
LEMMA RefusalKeepsLocks ==
  ASSUME TypeOK, LockInv, NEW r \in Requests, NEW a, Refuse(r, a)
  PROVE  /\ pc' \in [Requests -> Steps] /\ op' \in [Requests -> Operation \union {NoOperation}]
         /\ LockInv' /\ UNCHANGED <<project, rows>>
<1>1. UNCHANGED <<project, rows>> /\ Return(r, a)
  BY DEF Refuse
<1>2. Stored' = Stored
  BY <1>1 DEF Stored
<1>3. \A s \in Requests \ {r} : HoldsPage(s) => op[s].write.page \in Stored'
  BY <1>2 DEF LockInv
<1> QED
  BY <1>1, <1>3, ReturnKeepsLocks

\* Whoever goes on without ending takes locks nobody holds.
LEMMA LockingKeepsLocks ==
  ASSUME TypeOK, LockInv, NEW r \in Requests, LockPage(r) \/ LockProject(r)
  PROVE  /\ pc' \in [Requests -> Steps] /\ op' \in [Requests -> Operation \union {NoOperation}]
         /\ LockInv' /\ UNCHANGED <<project, rows>>
<1>1. CASE LockPage(r)
  <2>1. CASE Refuse(r, "not found")
    BY <2>1, RefusalKeepsLocks
  <2>2. CASE ~Refuse(r, "not found")
    <3>1. /\ NamesPage(r) /\ PageHolders(op[r].write.page) = {} /\ op[r].write.page \in Stored
          /\ pc' = [pc EXCEPT ![r] = "page"] /\ UNCHANGED <<project, rows, op>>
      BY <1>1, <2>2 DEF LockPage
    <3>2. /\ pc'[r] = "page" /\ \A s \in Requests \ {r} : pc'[s] = pc[s]
          /\ pc' \in [Requests -> Steps]
      BY <3>1 DEF TypeOK, Steps
    <3>3. \A s \in Requests : HoldsPage(s) => op[s].write.page # op[r].write.page
      BY <3>1 DEF PageHolders, HoldsPage
    <3>4. Stored' = Stored /\ \A s \in Requests \ {r} : HoldsPage(s)' <=> HoldsPage(s)
      BY <3>1, <3>2 DEF Stored, HoldsPage, NamesPage
    <3>5. LockInv'
      BY <3>1, <3>2, <3>3, <3>4 DEF LockInv, NamesPage
    <3> QED
      BY <3>1, <3>2, <3>5 DEF TypeOK
  <2> QED
    BY <2>1, <2>2
<1>2. CASE LockProject(r)
  <2>1. /\ ProjectHolders = {} /\ pc' = [pc EXCEPT ![r] = "project"] /\ UNCHANGED <<project, rows, op>>
        /\ \/ op[r].kind = "delete" /\ project = "live" /\ HoldsPage(r)
           \/ op[r].kind = "purge" /\ project = "trashed" /\ ~NamesPage(r)
    BY <1>2 DEF LockProject, JoinsProject, LoadsProject, LockInv, HoldsPage, NamesPage
  <2>2. /\ pc'[r] = "project" /\ \A s \in Requests \ {r} : pc'[s] = pc[s] /\ pc[s] # "project"
        /\ pc' \in [Requests -> Steps]
    BY <2>1 DEF TypeOK, Steps, ProjectHolders
  <2>3. Stored' = Stored /\ \A s \in Requests : HoldsPage(s)' <=> HoldsPage(s)
    BY <2>1, <2>2 DEF Stored, HoldsPage, NamesPage
  <2>4. LockInv'
    BY <2>1, <2>2, <2>3 DEF LockInv, NamesPage
  <2> QED
    BY <2>1, <2>2, <2>4 DEF TypeOK
<1> QED
  BY <1>1, <1>2

\* Every step keeps the locks, and does to project and pages one of the things above.
LEMMA StepKeepsLocks ==
  ASSUME IInv, NEW r \in Requests, Step(r)
  PROVE  /\ pc' \in [Requests -> Steps] /\ op' \in [Requests -> Operation \union {NoOperation}]
         /\ LockInv' /\ Effect
<1> DEFINE Locks == /\ pc' \in [Requests -> Steps]
                    /\ op' \in [Requests -> Operation \union {NoOperation}]
                    /\ LockInv'
<1>0. op[r] \in Operation \union {NoOperation} /\ TypeOK /\ LockInv /\ IndexesAreDense /\ NoGap
  BY DEF IInv, TypeOK
<1>1. CASE \E a \in {"not found", "duplicate", "mismatch", "bad request", "collision", "deadlock"} : Refuse(r, a)
  BY <1>0, <1>1, RefusalKeepsLocks DEF Effect
<1>2. CASE LockPage(r) \/ LockProject(r)
  BY <1>0, <1>2, LockingKeepsLocks DEF Effect
<1>3. CASE CreatePage(r) /\ ~\E a \in {"not found", "duplicate", "mismatch"} : Refuse(r, a)
  <2>0. op[r].kind = "create" /\ op[r] \in Operation
    <3>1. op[r].kind = "create"
      BY <1>3 DEF CreatePage
    <3>2. NoOperation.kind = "none"
      BY DEF NoOperation
    <3> QED
      BY <1>0, <3>1, <3>2
  <2>1. /\ Return(r, "done") /\ Appends(op[r].write) /\ op[r].write \in Write
    <3>1. Return(r, "done") /\ Appends(op[r].write)
      BY <1>3 DEF CreatePage, Appends
    <3> QED
      BY <2>0, <3>1, OperationKinds
  <2>2. Stored \subseteq Stored'
    BY <1>0, <2>1, AppendKeepsNumbers DEF Appends
  <2>3. Locks
    BY <1>0, <2>1, <2>2, ReturnKeepsLocks DEF Appends, LockInv
  <2> QED
    BY <2>1, <2>3 DEF Effect
<1>4. CASE SavePage(r) /\ ~Refuse(r, "mismatch")
  <2> DEFINE w == op[r].write
  <2>1. /\ Return(r, "done") /\ Saves(w.page, w.content) /\ w \in Write /\ HoldsPage(r)
    BY <1>0, <1>4, OperationKinds DEF SavePage, Saves, JoinsProject, HoldsPage, NamesPage, NoOperation
  <2>2. w.page \in Stored /\ w.content \in Contents
    BY <1>0, <2>1 DEF LockInv, Write
  <2>3. Stored' = Stored
    BY <1>0, <2>1, <2>2, SaveKeepsNumbers DEF Saves
  <2>4. Locks
    BY <1>0, <2>1, <2>3, ReturnKeepsLocks DEF Saves, LockInv
  <2> QED
    BY <2>1, <2>2, <2>4 DEF Effect
<1>5. CASE DeletePage(r) /\ ~Refuse(r, "collision")
  <2> DEFINE p == op[r].write.page
  <2>1. /\ Return(r, "done") /\ Deletes(p) /\ HoldsPage(r)
    BY <1>0, <1>5 DEF DeletePage, Deletes, HoldsPage, NamesPage, LockInv
  <2>2. p \in Stored
    BY <1>0, <2>1 DEF LockInv
  <2>3. Stored' = Stored \ {p}
    BY <1>0, <2>1, <2>2, DeleteKeepsNumbers DEF Deletes
  <2>4. \A s \in Requests \ {r} : HoldsPage(s) => op[s].write.page \in Stored'
    BY <1>0, <2>1, <2>3 DEF LockInv
  <2>5. Locks
    BY <1>0, <2>1, <2>4, ReturnKeepsLocks DEF Deletes
  <2> QED
    BY <2>1, <2>2, <2>5 DEF Effect
<1>6. CASE (TrashProject(r) \/ RestoreProject(r)) /\ ~\E a \in {"not found", "bad request"} : Refuse(r, a)
  <2>1. Return(r, "done") /\ MovesProject /\ ProjectHolders = {}
    BY <1>6 DEF TrashProject, RestoreProject, MovesProject, LoadsProject
  <2>2. Stored' = Stored /\ \A s \in Requests : pc[s] # "project"
    BY <2>1 DEF MovesProject, Stored, ProjectHolders
  <2>3. Locks
    BY <1>0, <2>1, <2>2, ReturnKeepsLocks DEF LockInv
  <2> QED
    BY <2>1, <2>3 DEF Effect
<1>7. CASE PurgeProject(r)
  <2>1. /\ Return(r, "done") /\ Purges /\ pc[r] = "project" /\ op[r].kind = "purge" /\ BlockedBy(r) = {}
    <3>1. /\ Return(r, "done") /\ pc[r] = "project" /\ op[r].kind = "purge" /\ BlockedBy(r) = {}
          /\ project' = "purged" /\ rows' = [p \in Pages |-> NoRow]
      BY <1>7 DEF PurgeProject
    <3>2. project = "trashed"
      BY <1>0, <3>1 DEF LockInv
    <3> QED
      BY <3>1, <3>2 DEF Purges
  <2>2. \A p \in Stored : PageHolders(p) \subseteq {r}
    BY <2>1 DEF BlockedBy, Needs
  <2>3. \A s \in Requests \ {r} : ~HoldsPage(s) /\ pc[s] # "project"
    BY <1>0, <2>1, <2>2 DEF PageHolders, HoldsPage, LockInv
  <2>4. Locks
    BY <1>0, <2>1, <2>3, ReturnKeepsLocks
  <2> QED
    BY <2>1, <2>4 DEF Effect
<1> QED
  BY <1>1, <1>2, <1>3, <1>4, <1>5, <1>6, <1>7
     DEF Step, PageGone, CreatePage, SavePage, DeletePage, TrashProject, RestoreProject, PurgeRefused,
         AbortDeadlock

-----------------------------------------------------------------------------
(***************************************************************************)
(* The invariant                                                           *)
(***************************************************************************)
\* A request that begins holds nothing.
LEMMA BeginKeepsLocks ==
  ASSUME TypeOK, LockInv, NEW r \in Requests, NEW o \in Operation, Begin(r, o)
  PROVE  /\ pc' \in [Requests -> Steps] /\ op' \in [Requests -> Operation \union {NoOperation}]
         /\ LockInv' /\ UNCHANGED <<project, rows>>
<1>1. /\ pc[r] = "idle" /\ pc'[r] = "begun" /\ op'[r] = o
      /\ \A s \in Requests \ {r} : pc'[s] = pc[s] /\ op'[s] = op[s]
      /\ UNCHANGED <<project, rows>>
  BY DEF Begin, TypeOK
<1>2. pc' \in [Requests -> Steps] /\ op' \in [Requests -> Operation \union {NoOperation}]
  BY DEF Begin, TypeOK, Steps
<1>3. Stored' = Stored /\ ~HoldsPage(r)' /\ \A s \in Requests \ {r} : HoldsPage(s)' <=> HoldsPage(s)
  BY <1>1 DEF Stored, HoldsPage, NamesPage
<1>4. LockInv'
  BY <1>1, <1>3 DEF LockInv, NamesPage
<1> QED
  BY <1>1, <1>2, <1>4

\* Whatever happens, the project and its pages change by one of the effects.
LEMMA NextEffect ==
  ASSUME IInv, [Next]_vars
  PROVE  IInv' /\ Effect
<1>0. TypeOK /\ LockInv /\ IndexesAreDense /\ NoGap
  BY DEF IInv
<1>1. CASE UNCHANGED vars
  <2>1. IInv'
    BY <1>0, <1>1 DEF vars, IInv, TypeOK, LockInv, IndexesAreDense, NoGap, Stored, HoldsPage, NamesPage
  <2> QED
    BY <1>1, <2>1 DEF vars, Effect
<1>2. ASSUME NEW r \in Requests, Step(r) \/ \E o \in Operation : Begin(r, o)
      PROVE  IInv' /\ Effect
  <2>1. /\ pc' \in [Requests -> Steps] /\ op' \in [Requests -> Operation \union {NoOperation}]
        /\ LockInv' /\ Effect
    BY <1>0, <1>2, StepKeepsLocks, BeginKeepsLocks DEF Effect
  <2>2. project' \in {"live", "trashed", "purged"}
    BY <1>0, <2>1 DEF TypeOK, Effect, Appends, Saves, Deletes, MovesProject, Purges
  <2>3. answer' \in {"none", "done", "not found", "duplicate", "mismatch", "bad request", "collision", "deadlock"}
    BY <1>2 DEF Step, Begin, LockPage, PageGone, LockProject, CreatePage, SavePage, DeletePage, TrashProject,
                RestoreProject, PurgeRefused, PurgeProject, AbortDeadlock, Refuse, Return
  <2>4. rows' \in [Pages -> PageRow] /\ IndexesAreDense' /\ NoGap'
    BY <1>0, <2>1, EffectKeepsNumbers
  <2> QED
    BY <2>1, <2>2, <2>3, <2>4 DEF IInv, TypeOK
<1> QED
  BY <1>1, <1>2 DEF Next

\* A new project has no page, and nobody holds a lock.
LEMMA InitInvariant == Init => IInv
<1> SUFFICES ASSUME Init
             PROVE  IInv
  OBVIOUS
<1>1. Stored = {} /\ Cardinality(Stored) = 0
  BY FS_EmptySet DEF Init, Stored
<1>2. TypeOK
  BY DEF Init, TypeOK, PageRow, Steps
<1>3. LockInv
  BY DEF Init, LockInv, HoldsPage
<1> QED
  BY <1>1, <1>2, <1>3 DEF IInv, IndexesAreDense, NoGap

\* Types, numbers and locks in every reachable state.
THEOREM InductiveInvariant == Spec => []IInv
<1>1. Init => IInv
  BY InitInvariant
<1>2. IInv /\ [Next]_vars => IInv'
  BY NextEffect
<1> QED
  BY <1>1, <1>2, PTL DEF Spec

\* The pages are numbered 1..N, whoever creates, moves and deletes them.
THEOREM PagesStayNumbered == Spec => []IndexesAreDense
<1>1. IInv => IndexesAreDense
  BY DEF IInv
<1> QED
  BY <1>1, InductiveInvariant, PTL

\* A save is "done" only at the index its client meant: the number of the page was compared
\* under its lock.
THEOREM SavesHit == Spec => SaveHitsItsIndex
<1>1. IInv /\ [Next]_vars
        => [\A r \in Requests :
              op[r].kind = "save" /\ pc'[r] = "idle" /\ answer' = "done" =>
                rows'[op[r].write.page] = [index |-> op[r].write.index, content |-> op[r].write.content]]_vars
  <2> SUFFICES ASSUME IInv, Next, NEW s \in Requests,
                      op[s].kind = "save", pc'[s] = "idle", answer' = "done"
               PROVE  rows'[op[s].write.page] = [index |-> op[s].write.index, content |-> op[s].write.content]
    BY DEF vars
  <2>0. TypeOK /\ LockInv /\ IndexesAreDense /\ NoGap
    BY DEF IInv
  <2>1. pc[s] # "idle"
    <3>1. NoOperation.kind = "none"
      BY DEF NoOperation
    <3> QED
      BY <2>0, <3>1 DEF LockInv
  <2>2. PICK r \in Requests : Step(r) \/ \E o \in Operation : Begin(r, o)
    BY DEF Next
  <2>3. r = s
    <3>1. \E f \in Steps : pc' = [pc EXCEPT ![r] = f]
      BY <2>2 DEF Step, Begin, LockPage, PageGone, LockProject, CreatePage, SavePage, DeletePage, TrashProject,
                  RestoreProject, PurgeRefused, PurgeProject, AbortDeadlock, Refuse, Return, Steps
    <3> QED
      BY <2>0, <2>1, <3>1 DEF TypeOK
  <2>4. SavePage(s) /\ ~Refuse(s, "mismatch")
    <3>1. Step(s)
      BY <2>2, <2>3 DEF Begin
    <3>2. ~Refuse(s, "mismatch") /\ ~Refuse(s, "deadlock") /\ ~Refuse(s, "not found")
      BY DEF Refuse, Return
    <3> QED
      BY <3>1, <3>2 DEF Step, LockPage, PageGone, LockProject, CreatePage, DeletePage, TrashProject,
                        RestoreProject, PurgeRefused, PurgeProject, AbortDeadlock
  <2> DEFINE w == op[s].write
  <2>5. /\ CurrentIndex(w) /\ Saves(w.page, w.content) /\ HoldsPage(s)
    BY <2>4 DEF SavePage, Saves, JoinsProject, HoldsPage, NamesPage
  <2>6. w.page \in Stored /\ w.content \in Contents
    <3>1. op[s] \in Operation
      <4>1. NoOperation.kind = "none"
        BY DEF NoOperation
      <4> QED
        BY <2>0, <4>1 DEF TypeOK
    <3> QED
      BY <2>0, <2>5, <3>1, OperationKinds DEF LockInv, Write
  <2>7. rows'[w.page] = [index |-> rows[w.page].index, content |-> w.content]
    BY <2>0, <2>5, <2>6, SaveKeepsNumbers DEF Saves
  <2> QED
    BY <2>5, <2>7 DEF CurrentIndex
<1> QED
  BY <1>1, InductiveInvariant, PTL DEF Spec, SaveHitsItsIndex

-----------------------------------------------------------------------------
(***************************************************************************)
(* The storage is a list of pages                                          *)
(***************************************************************************)
\* The page at an index is the one that has this number.
LEMMA PageAtNumber ==
  ASSUME IndexesAreDense, NoGap
  PROVE  /\ \A i \in 1..Cardinality(Stored) : PageAt(i) \in Stored /\ rows[PageAt(i)].index = i
         /\ \A p \in Stored : rows[p].index \in 1..Cardinality(Stored) /\ PageAt(rows[p].index) = p
<1>1. \A i \in 1..Cardinality(Stored) : PageAt(i) \in Stored /\ rows[PageAt(i)].index = i
  BY DEF NoGap, PageAt
<1> QED
  BY <1>1 DEF IndexesAreDense

\* The same of the next state.
LEMMA PageAtNumberNext ==
  ASSUME IndexesAreDense', NoGap'
  PROVE  /\ \A i \in 1..Cardinality(Stored') : PageAt(i)' \in Stored' /\ rows'[PageAt(i)'].index = i
         /\ \A i \in 1..Cardinality(Stored') : \A p \in Stored' : rows'[p].index = i => PageAt(i)' = p
<1>1. \A i \in 1..Cardinality(Stored') : PageAt(i)' \in Stored' /\ rows'[PageAt(i)'].index = i
  BY DEF NoGap, PageAt
<1> QED
  BY <1>1 DEF IndexesAreDense

\* Pages and contents of the next list, by what is at each index.
LEMMA EntriesNext ==
  entries' = [i \in 1..Cardinality(Stored') |-> [page |-> PageAt(i)', content |-> rows'[PageAt(i)'].content]]
BY DEF entries

\* A page that is created is appended to the list.
LEMMA AppendRefines ==
  ASSUME IInv, IInv', NEW w \in Write, Appends(w)
  PROVE  List!Next
<1> DEFINE n == Cardinality(Stored)
           e == [page |-> w.page, content |-> w.content]
<1>0. TypeOK /\ IndexesAreDense /\ NoGap /\ IndexesAreDense' /\ NoGap' /\ n \in Nat
  BY StoredIsFinite DEF IInv
<1>1. /\ Stored' = Stored \union {w.page} /\ Cardinality(Stored') = n + 1 /\ w.index = n + 1
      /\ project = "live" /\ project' = project /\ w.page \notin Stored
  <2>1. /\ project = "live" /\ project' = project /\ w.page \notin Stored /\ IsNextIndex(w)
        /\ rows' = [rows EXCEPT ![w.page] = [index |-> w.index, content |-> w.content]]
    BY DEF Appends
  <2>2. Stored' = Stored \union {w.page} /\ w.index = Cardinality(Stored) + 1 /\ Cardinality(Stored') = w.index
    BY <1>0, <2>1, AppendKeepsNumbers
  <2> QED
    BY <2>1, <2>2
<1>2. w.page \in Pages /\ w.content \in Contents /\ e \in List!Entry
  BY DEF Write, List!Entry
<1>3. /\ rows'[w.page] = [index |-> w.index, content |-> w.content]
      /\ \A p \in Stored : rows'[p] = rows[p]
  BY <1>0, <1>1, <1>2, StoredIsFinite DEF Appends, TypeOK
<1>4. ASSUME NEW i, i = n + 1
      PROVE  PageAt(i)' = w.page
  <2>1. i \in 1..Cardinality(Stored') /\ w.page \in Stored' /\ rows'[w.page].index = i
    BY <1>0, <1>1, <1>3, <1>4
  <2> QED
    BY <1>0, <2>1, PageAtNumberNext
<1>5. \A i \in 1..n : PageAt(i)' = PageAt(i) /\ PageAt(i) \in Stored
  <2>1. SUFFICES ASSUME NEW i \in 1..n
                 PROVE  PageAt(i)' = PageAt(i) /\ PageAt(i) \in Stored
    OBVIOUS
  <2>2. PageAt(i) \in Stored /\ rows[PageAt(i)].index = i
    BY <1>0, PageAtNumber
  <2>3. PageAt(i) \in Stored' /\ rows'[PageAt(i)].index = i /\ i \in 1..Cardinality(Stored')
    BY <1>0, <1>1, <1>3, <2>2
  <2> QED
    BY <1>0, <2>2, <2>3, PageAtNumberNext
<1>6. entries' = [i \in 1..(n + 1) |-> IF i <= n THEN entries[i] ELSE e]
  <2>1. \A i \in 1..(n + 1) :
          [page |-> PageAt(i)', content |-> rows'[PageAt(i)'].content] = IF i <= n THEN entries[i] ELSE e
    <3>1. SUFFICES ASSUME NEW i \in 1..(n + 1)
                   PROVE  [page |-> PageAt(i)', content |-> rows'[PageAt(i)'].content]
                            = IF i <= n THEN entries[i] ELSE e
      OBVIOUS
    <3>2. CASE i <= n
      <4>1. i \in 1..n
        BY <1>0, <3>2
      <4>2. entries[i] = [page |-> PageAt(i), content |-> rows[PageAt(i)].content]
        BY <4>1 DEF entries
      <4> QED
        BY <1>3, <1>5, <3>2, <4>1, <4>2
    <3>3. CASE ~(i <= n)
      <4>1. i = n + 1
        BY <1>0, <3>3
      <4> QED
        BY <1>3, <1>4, <3>3, <4>1
    <3> QED
      BY <3>2, <3>3
  <2> QED
    BY <1>1, <2>1, EntriesNext
<1>7. \A i \in 1..n : entries[i].page # w.page
  <2>1. \A i \in 1..n : entries[i].page = PageAt(i)
    BY DEF entries
  <2> QED
    BY <1>1, <1>5, <2>1
<1>8. List!Append(e)
  BY <1>1, <1>6, <1>7 DEF List!Append
<1> QED
  BY <1>2, <1>8 DEF List!Next

\* A save replaces the content at one index.
LEMMA SaveRefines ==
  ASSUME IInv, IInv', NEW p \in Stored, NEW c \in Contents, Saves(p, c)
  PROVE  List!Next
<1> DEFINE n == Cardinality(Stored)
           k == rows[p].index
<1>0. TypeOK /\ IndexesAreDense /\ NoGap /\ IndexesAreDense' /\ NoGap' /\ n \in Nat
  BY StoredIsFinite DEF IInv
<1>1. /\ Stored' = Stored /\ project = "live" /\ project' = project
      /\ rows'[p].content = c
      /\ \A q \in Stored : rows'[q].index = rows[q].index /\ (q # p => rows'[q] = rows[q])
  <2>1. /\ Stored' = Stored /\ rows'[p] = [index |-> rows[p].index, content |-> c]
        /\ \A q \in Pages : rows'[q].index = rows[q].index /\ (q # p => rows'[q] = rows[q])
    BY <1>0, SaveKeepsNumbers DEF Saves
  <2>2. Stored \subseteq Pages
    BY StoredIsFinite
  <2> QED
    BY <2>1, <2>2 DEF Saves
<1>2. k \in 1..n /\ PageAt(k) = p
  BY <1>0, PageAtNumber
<1>3. \A i \in 1..n : PageAt(i)' = PageAt(i) /\ PageAt(i) \in Stored /\ (PageAt(i) = p <=> i = k)
  BY <1>0, <1>1, PageAtNumber, PageAtNumberNext
<1>4. entries' = [entries EXCEPT ![k].content = c]
  <2>1. entries = [i \in 1..n |-> [page |-> PageAt(i), content |-> rows[PageAt(i)].content]]
    BY DEF entries
  <2>2. entries' = [i \in 1..n |-> [page |-> PageAt(i), content |-> rows'[PageAt(i)].content]]
    BY <1>1, <1>3, EntriesNext
  <2>3. \A i \in 1..n : entries'[i] = IF i = k THEN [page |-> p, content |-> c] ELSE entries[i]
    BY <1>1, <1>2, <1>3, <2>1, <2>2
  <2>4. [entries[k] EXCEPT !.content = c] = [page |-> p, content |-> c]
    BY <1>2, <2>1
  <2> QED
    BY <1>2, <2>1, <2>2, <2>3, <2>4
<1>5. List!Replace(k, c)
  BY <1>1, <1>4 DEF List!Replace
<1> QED
  BY <1>2, <1>5 DEF List!Next

\* A deletion takes one entry out and closes the gap.
LEMMA DeleteRefines ==
  ASSUME IInv, IInv', NEW p \in Stored, Deletes(p)
  PROVE  List!Next
<1> DEFINE n == Cardinality(Stored)
           k == rows[p].index
<1>0. TypeOK /\ IndexesAreDense /\ NoGap /\ IndexesAreDense' /\ NoGap' /\ n \in Nat
  BY StoredIsFinite DEF IInv
<1>1. /\ Stored' = Stored \ {p} /\ Cardinality(Stored') = n - 1 /\ project = "live" /\ project' = project
      /\ \A q \in Stored \ {p} :
           rows'[q] = IF rows[q].index > k THEN [rows[q] EXCEPT !.index = @ - 1] ELSE rows[q]
  BY <1>0, DeleteKeepsNumbers DEF Deletes
<1>2. k \in 1..n /\ PageAt(k) = p
  BY <1>0, PageAtNumber
<1>3. ASSUME NEW j \in 1..n, j # k
      PROVE  /\ PageAt(j) \in Stored \ {p} /\ rows[PageAt(j)].index = j
             /\ rows'[PageAt(j)].content = rows[PageAt(j)].content
             /\ rows'[PageAt(j)].index = IF j > k THEN j - 1 ELSE j
  <2>1. PageAt(j) \in Stored \ {p} /\ rows[PageAt(j)].index = j
    BY <1>0, <1>3, PageAtNumber
  <2>2. rows[PageAt(j)] \in [index : Indexes, content : Contents]
    BY <1>0, <2>1, RowKinds DEF Stored, TypeOK
  <2>3. rows'[PageAt(j)] = IF j > k THEN [rows[PageAt(j)] EXCEPT !.index = @ - 1] ELSE rows[PageAt(j)]
    BY <1>1, <2>1
  <2> QED
    BY <2>1, <2>2, <2>3
<1>4. ASSUME NEW i \in 1..(n - 1)
      PROVE  entries'[i] = IF i < k THEN entries[i] ELSE entries[i + 1]
  <2> DEFINE j == IF i < k THEN i ELSE i + 1
  <2>1. j \in 1..n /\ j # k /\ (IF j > k THEN j - 1 ELSE j) = i
    BY <1>0, <1>2
  <2> HIDE DEF j
  <2>2. /\ PageAt(j) \in Stored \ {p} /\ rows'[PageAt(j)].index = i
        /\ rows'[PageAt(j)].content = rows[PageAt(j)].content
    BY <1>3, <2>1
  <2>3. PageAt(i)' = PageAt(j)
    BY <1>0, <1>1, <2>2, PageAtNumberNext
  <2>4. entries'[i] = [page |-> PageAt(j), content |-> rows[PageAt(j)].content]
    BY <1>1, <2>2, <2>3, EntriesNext
  <2>5. entries[j] = [page |-> PageAt(j), content |-> rows[PageAt(j)].content]
    BY <2>1 DEF entries
  <2> QED
    BY <2>4, <2>5 DEF j
<1>5. entries' = [i \in 1..(n - 1) |-> IF i < k THEN entries[i] ELSE entries[i + 1]]
  BY <1>1, <1>4, EntriesNext
<1>6. List!Remove(k)
  BY <1>1, <1>5 DEF List!Remove
<1> QED
  BY <1>2, <1>6 DEF List!Next

\* The requests, with their locks and waits, implement a list of pages.
THEOREM Implementation == Spec => ImplementsPageList
<1>1. Init => List!Init
  <2>1. SUFFICES ASSUME Init
                 PROVE  List!Init
    OBVIOUS
  <2>2. Cardinality(Stored) = 0
    BY <2>1, FS_EmptySet DEF Init, Stored
  <2>3. entries = [i \in 1..0 |-> 0]
    BY <2>2 DEF entries
  <2> QED
    BY <2>1, <2>2, <2>3 DEF Init, List!Init
<1>2. IInv /\ [Next]_vars => [List!Next]_(List!vars)
  <2> SUFFICES ASSUME IInv, [Next]_vars
               PROVE  [List!Next]_(List!vars)
    OBVIOUS
  <2>1. IInv' /\ Effect
    BY NextEffect
  <2>2. CASE UNCHANGED <<project, rows>> \/ MovesProject
    <3>0. UNCHANGED rows
      BY <2>2 DEF MovesProject
    <3>1. Stored' = Stored /\ Cardinality(Stored') = Cardinality(Stored)
      BY <3>0 DEF Stored
    <3>2. entries' = entries
      BY <3>0, <3>1 DEF entries, PageAt
    <3>3. CASE UNCHANGED project
      BY <3>1, <3>2, <3>3 DEF List!vars
    <3>4. CASE MovesProject
      BY <3>1, <3>2, <3>4 DEF MovesProject, List!Next, List!Trash, List!Restore
    <3> QED
      BY <2>2, <3>3, <3>4
  <2>3. CASE Purges
    <3>1. Cardinality(Stored') = 0
      BY <2>3, PurgeKeepsNumbers DEF Purges
    <3>2. entries' = [i \in 1..0 |-> 0]
      BY <3>1 DEF entries
    <3> QED
      BY <2>3, <3>1, <3>2 DEF Purges, List!Next, List!Purge
  <2> QED
    BY <2>1, <2>2, <2>3, AppendRefines, SaveRefines, DeleteRefines DEF Effect
<1> QED
  BY <1>1, <1>2, InductiveInvariant, PTL DEF Spec, ImplementsPageList, List!Spec
=============================================================================
