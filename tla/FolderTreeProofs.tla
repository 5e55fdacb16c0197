-------------------------- MODULE FolderTreeProofs --------------------------
(***************************************************************************)
(* FolderTree for every number of folders, projects, names and requests:   *)
(* what the database sees to whoever writes, and what holds as long as     *)
(* requests come one after the other: the folders are a tree, what is not  *)
(* in the trash has a place that is not, only trash is purged, and what an *)
(* index or a key would refuse has been found before.                      *)
(***************************************************************************)
EXTENDS FolderTree, FiniteSetTheorems, TLAPS

(***************************************************************************)
(* Subtrees                                                                *)
(***************************************************************************)
\* A subtree has its top and all below it.
LEMMA SubtreeIsClosed ==
  ASSUME NEW f, NEW S
  PROVE  /\ f \in Subtree(f, S) /\ Subtree(f, S) \subseteq S \union {f}
         /\ WithChildren(Subtree(f, S), S)
BY DEF Subtree, WithChildren

\* And it has nothing else.
LEMMA SubtreeIsLeast ==
  ASSUME NEW f, NEW S, NEW X, f \in X, WithChildren(X, S)
  PROVE  Subtree(f, S) \subseteq X
<1> DEFINE Y == X \intersect (S \union {f})
<1>1. Y \in SUBSET (S \union {f}) /\ f \in Y /\ WithChildren(Y, S)
  BY DEF WithChildren
<1>2. \A g \in Subtree(f, S) : g \in Y
  BY <1>1 DEF Subtree
<1> QED
  BY <1>2

\* Whatever is in a subtree but not its top has its parent there.
LEMMA SubtreeHasParents ==
  ASSUME NEW f, NEW S, NEW g \in Subtree(f, S), g # f
  PROVE  g \in S /\ folders[g].parent \in Subtree(f, S)
<1> DEFINE T == Subtree(f, S)
<1>1. f \in T /\ T \subseteq S \union {f} /\ WithChildren(T, S)
  BY SubtreeIsClosed
<1>2. ASSUME folders[g].parent \notin T
      PROVE  FALSE
  <2>1. f \in T \ {g} /\ WithChildren(T \ {g}, S)
    BY <1>1, <1>2 DEF WithChildren
  <2>2. T \subseteq T \ {g}
    BY <2>1, SubtreeIsLeast
  <2> QED
    BY <2>2
<1> QED
  BY <1>1, <1>2

\* The folders form a tree when nothing but all of them has the root and the children of
\* whatever it has.
AllBelowRoot ==
  \A X \in SUBSET (Stored \union {Root}) : Root \in X /\ WithChildren(X, Stored) => Stored \subseteq X

\* A forest is one in which every folder is below the root.
LEMMA TreeForm == FoldersFormATree <=> AllBelowRoot
BY DEF FoldersFormATree, AllBelowRoot, Subtree

\* The same of the state after a step.
LEMMA TreeFormNext == FoldersFormATree' <=> AllBelowRoot'
BY TreeForm, PTL

\* In a tree no folder is its own parent.
LEMMA NoLoop ==
  ASSUME FoldersFormATree, NEW f \in Stored, Root \notin Folders
  PROVE  folders[f].parent # f
<1> SUFFICES ASSUME folders[f].parent = f
             PROVE  FALSE
  OBVIOUS
<1> DEFINE X == (Stored \union {Root}) \ {f}
<1>1. f # Root
  BY DEF Stored
<1>2. Root \in X /\ WithChildren(X, Stored) /\ X \in SUBSET (Stored \union {Root})
  BY <1>1 DEF WithChildren
<1> QED
  BY <1>2, TreeForm DEF AllBelowRoot

-----------------------------------------------------------------------------
(***************************************************************************)
(* What may be done to a tree.                                             *)
(***************************************************************************)
ParentsStay(S) == \A g \in S : folders'[g].parent = folders[g].parent

\* A step that moves no folder keeps the forest.
LEMMA NothingMoves ==
  ASSUME FoldersFormATree, Stored' = Stored, ParentsStay(Stored)
  PROVE  FoldersFormATree'
<1>1. \A X : WithChildren(X, Stored)' <=> WithChildren(X, Stored)
  BY DEF WithChildren, ParentsStay
<1>2. AllBelowRoot'
  BY <1>1, TreeForm DEF AllBelowRoot, WithChildren, ParentsStay
<1> QED
  BY <1>2, TreeFormNext

\* A folder is added in a place there is.
LEMMA AddedLeaf ==
  ASSUME FoldersFormATree, NEW f, f \notin Stored, Stored' = Stored \union {f},
         ParentsStay(Stored), folders'[f].parent \in Stored \union {Root}
  PROVE  FoldersFormATree'
<1> SUFFICES ASSUME NEW X \in SUBSET (Stored' \union {Root}), Root \in X,
                    \A g \in Stored' : folders'[g].parent \in X => g \in X
             PROVE  Stored' \subseteq X
  BY TreeFormNext DEF AllBelowRoot, WithChildren
<1> DEFINE Y == X \intersect (Stored \union {Root})
<1>1. Root \in Y /\ WithChildren(Y, Stored)
  BY DEF WithChildren, ParentsStay
<1>2. Stored \subseteq X
  BY <1>1, TreeForm DEF AllBelowRoot
<1> QED
  BY <1>2

\* A folder is moved to a place that is not below it.
LEMMA MovedElsewhere ==
  ASSUME FoldersFormATree, NEW f \in Stored, Stored' = Stored, ParentsStay(Stored \ {f}),
         folders'[f].parent \in (Stored \union {Root}) \ Subtree(f, Stored)
  PROVE  FoldersFormATree'
<1> SUFFICES ASSUME NEW X \in SUBSET (Stored \union {Root}), Root \in X,
                    \A g \in Stored : folders'[g].parent \in X => g \in X
             PROVE  Stored \subseteq X
  BY TreeFormNext DEF AllBelowRoot, WithChildren
<1> DEFINE T == Subtree(f, Stored)
           Y == X \union (T \intersect Stored)
<1>0. f \in T /\ T \subseteq Stored \union {f} /\ WithChildren(T, Stored)
  BY SubtreeIsClosed
<1>1. Root \in Y /\ WithChildren(Y, Stored) /\ Y \in SUBSET (Stored \union {Root})
  BY <1>0 DEF WithChildren, ParentsStay
<1>2. Stored \subseteq Y
  BY <1>1, TreeForm DEF AllBelowRoot
<1>3. folders'[f].parent \in X
  BY <1>2
<1>4. WithChildren(X, Stored)
  BY <1>3 DEF WithChildren, ParentsStay
<1> QED
  BY <1>4, TreeForm DEF AllBelowRoot

\* Children of a folder are moved to where the folder is.
LEMMA MovedUp ==
  ASSUME FoldersFormATree, NEW f \in Stored, NEW C \in SUBSET Stored, Stored' = Stored,
         \A g \in C : folders[g].parent = f /\ folders'[g].parent = folders[f].parent,
         ParentsStay(Stored \ C), Root # f
  PROVE  FoldersFormATree'
<1> SUFFICES ASSUME NEW X \in SUBSET (Stored \union {Root}), Root \in X,
                    \A g \in Stored : folders'[g].parent \in X => g \in X
             PROVE  Stored \subseteq X
  BY TreeFormNext DEF AllBelowRoot, WithChildren
<1> DEFINE Y == {g \in X : g = f => folders[f].parent \in X}
<1>1. WithChildren(Y, Stored)
  <2> SUFFICES ASSUME NEW g \in Stored, folders[g].parent \in Y
               PROVE  g \in Y
    BY DEF WithChildren
  <2>1. folders'[g].parent \in X
    BY DEF ParentsStay
  <2> QED
    BY <2>1
<1>2. Root \in Y /\ Y \in SUBSET (Stored \union {Root})
  OBVIOUS
<1> QED
  BY <1>1, <1>2, TreeForm DEF AllBelowRoot

\* A whole subtree is taken away.
LEMMA TakenAway ==
  ASSUME FoldersFormATree, NEW f \in Stored, Root \notin Folders,
         Stored' = Stored \ Subtree(f, Stored), ParentsStay(Stored')
  PROVE  FoldersFormATree'
<1> SUFFICES ASSUME NEW X \in SUBSET (Stored' \union {Root}), Root \in X,
                    \A g \in Stored' : folders'[g].parent \in X => g \in X
             PROVE  Stored' \subseteq X
  BY TreeFormNext DEF AllBelowRoot, WithChildren
<1> DEFINE T == Subtree(f, Stored)
           Y == X \union T
<1>0. f \in T /\ T \subseteq Stored /\ WithChildren(T, Stored)
  BY SubtreeIsClosed
<1>1. Root \in Y /\ WithChildren(Y, Stored) /\ Y \in SUBSET (Stored \union {Root})
  BY <1>0 DEF WithChildren, ParentsStay
<1>2. Stored \subseteq Y
  BY <1>1, TreeForm DEF AllBelowRoot
<1> QED
  BY <1>2

-----------------------------------------------------------------------------
(***************************************************************************)
(* Rows and requests                                                       *)
(***************************************************************************)
FolderRow == [parent : Places, name : Names, deleted : BOOLEAN]
ProjectRow == [parent : Places, deleted : BOOLEAN]
Decision == [folders : SUBSET Folders, projects : SUBSET Projects, parent : Places]
Answers ==
  {"none", "done", "not found", "bad request", "folder conflict", "project conflict",
   "concurrent update conflict", "deadlock"}

RowsTyped ==
  folders \in [Folders -> {NoRow} \union FolderRow] /\ projects \in [Projects -> {NoRow} \union ProjectRow]

\* A row that is there has a place; NoRow is not one.
LEMMA RowKinds ==
  ASSUME TypeOK
  PROVE  /\ RowsTyped /\ NoRow \notin FolderRow /\ NoRow \notin ProjectRow
         /\ \A f \in Stored : f \in Folders /\ folders[f] \in FolderRow
         /\ \A p \in StoredProjects : p \in Projects /\ projects[p] \in ProjectRow
         /\ Live \subseteq Stored /\ LiveProjects \subseteq StoredProjects
         /\ Root \notin Folders
<1>1. Keep \notin Places /\ Root \notin Folders
  BY FoldersAssumption DEF Places
<1>2. NoRow \notin FolderRow /\ NoRow \notin ProjectRow
  BY <1>1 DEF NoRow, FolderRow, ProjectRow
<1> QED
  BY <1>1, <1>2 DEF TypeOK, RowsTyped, Stored, StoredProjects, Live, LiveProjects, FolderRow, ProjectRow

\* What the operations name.
LEMMA OperationKinds ==
  ASSUME NEW o \in Operation
  PROVE  /\ o.kind \in {"create folder", "update folder", "trash folder", "reparent folder", "delete folder",
                       "restore folder", "purge folder"} => o.item \in Folders
         /\ o.kind \in {"create project", "move project", "trash project", "restore project", "purge project"}
              => o.item \in Projects
         /\ o.kind \in {"create folder", "update folder"} => o.name \in Names
         /\ o.kind \in {"create folder", "create project", "move project"} => o.to \in Places
         /\ o.kind = "update folder" => o.to \in Places \union {Keep}
BY DEF Operation

\* When one client is there, nobody but it has a request.
LEMMA Alone ==
  ASSUME TypeOK, ShapeInv, OneAfterTheOther, NEW r \in Requests, pc[r] # "idle"
  PROVE  \A s \in Requests \ {r} : pc[s] = "idle"
<1>1. IsFiniteSet(clients)
  BY FoldersAssumption, FS_Subset DEF TypeOK
<1>2. PICK c : clients = {c}
  BY <1>1, FS_Singleton DEF OneAfterTheOther
<1> QED
  BY <1>2 DEF ShapeInv

\* The end of a request.
LEMMA ReturnKeepsShape ==
  ASSUME TypeOK, ShapeInv, NEW r \in Requests, NEW a \in Answers, Return(r, a), RowsTyped',
         \A f \in Stored' \ Stored : Creating(r) /\ f = op[r].item
  PROVE  TypeOK' /\ ShapeInv'
<1>1. /\ pc'[r] = "idle" /\ op'[r] = NoOperation /\ clients' = clients
      /\ \A s \in Requests \ {r} : pc'[s] = pc[s] /\ op'[s] = op[s] /\ seen'[s] = seen[s]
  BY DEF Return, TypeOK
<1>2. /\ pc' \in [Requests -> {"idle", "begun", "checked"}]
      /\ op' \in [Requests -> Operation \union {NoOperation}]
  BY DEF Return, TypeOK
<1>3. seen' \in [Requests -> Decision]
  <2>1. Nothing \in Decision
    BY DEF Nothing, Decision, Places
  <2> QED
    BY <2>1 DEF Return, TypeOK, Decision
<1>4. TypeOK'
  BY <1>1, <1>2, <1>3 DEF TypeOK, Return, RowsTyped, FolderRow, ProjectRow, Decision, Answers
<1>5. ~Creating(r)' /\ \A s \in Requests \ {r} : Creating(s)' <=> Creating(s)
  BY <1>1 DEF Creating
<1>6. ASSUME NEW s \in Requests \ {r}, Creating(s)
      PROVE  op[s].item \notin Stored'
  <2>1. op[s].item \notin Stored
    BY <1>6 DEF ShapeInv
  <2>2. Creating(r) => op[r].item # op[s].item
    BY <1>6 DEF ShapeInv
  <2> QED
    BY <2>1, <2>2
<1>7. ShapeInv'
  BY <1>1, <1>5, <1>6 DEF ShapeInv
<1> QED
  BY <1>4, <1>7

\* A decision to write.
LEMMA DecideKeepsShape ==
  ASSUME TypeOK, ShapeInv, NEW r \in Requests, pc[r] = "begun", NEW d \in Decision, Decide(r, d),
         op[r].kind = "update folder" => d.folders = {op[r].item},
         op[r].kind = "reparent folder" => op[r].item \in d.folders
  PROVE  TypeOK' /\ ShapeInv'
<1>1. /\ pc'[r] = "checked" /\ seen'[r] = d /\ UNCHANGED <<folders, projects, op, clients>> /\ answer' = "none"
      /\ \A s \in Requests \ {r} : pc'[s] = pc[s] /\ seen'[s] = seen[s]
  BY DEF Decide, TypeOK
<1>2. pc' \in [Requests -> {"idle", "begun", "checked"}] /\ seen' \in [Requests -> Decision]
  BY DEF Decide, TypeOK, Decision
<1>3. TypeOK'
  BY <1>1, <1>2 DEF TypeOK, Decision
<1>4. Stored' = Stored /\ \A s \in Requests : Creating(s)' <=> Creating(s)
  BY <1>1 DEF Stored, Creating
<1>5. ShapeInv'
  BY <1>1, <1>4 DEF ShapeInv
<1> QED
  BY <1>3, <1>5

\* A request begins.
LEMMA BeginKeepsShape ==
  ASSUME TypeOK, ShapeInv, NEW r \in Requests, NEW o \in Operation, Begin(r, o)
  PROVE  TypeOK' /\ ShapeInv'
<1>1. /\ pc[r] = "idle" /\ pc'[r] = "begun" /\ op'[r] = o /\ r \in clients /\ answer' = "none"
      /\ UNCHANGED <<folders, projects, seen, clients>>
      /\ \A s \in Requests \ {r} : pc'[s] = pc[s] /\ op'[s] = op[s]
  BY DEF Begin, TypeOK
<1>2. /\ pc' \in [Requests -> {"idle", "begun", "checked"}]
      /\ op' \in [Requests -> Operation \union {NoOperation}]
  BY DEF Begin, TypeOK
<1>3. TypeOK'
  BY <1>1, <1>2 DEF TypeOK
<1>4. Stored' = Stored /\ \A s \in Requests \ {r} : Creating(s)' <=> Creating(s)
  BY <1>1 DEF Stored, Creating
<1>5. Creating(r)' => o.item \notin Stored /\ \A s \in Requests : op[s].item # o.item
  BY <1>1 DEF Creating, Begin, IsNewId
<1>6. \A s, t \in Requests : s # t /\ Creating(s)' /\ Creating(t)' => op'[s].item # op'[t].item
  <2>1. \A s, t \in Requests : s # t /\ Creating(s) /\ Creating(t) => op[s].item # op[t].item
    BY DEF ShapeInv
  <2>2. \A s \in Requests \ {r} : Creating(r)' => op'[r].item # op'[s].item
    BY <1>1, <1>5
  <2> QED
    BY <1>1, <1>4, <2>1, <2>2
<1>7. \A s \in Requests : Creating(s)' => op'[s].item \notin Stored'
  BY <1>1, <1>4, <1>5 DEF ShapeInv
<1>8. ShapeInv'
  BY <1>1, <1>6, <1>7 DEF ShapeInv
<1> QED
  BY <1>3, <1>8

-----------------------------------------------------------------------------
(***************************************************************************)
(* What requests decide                                                    *)
(***************************************************************************)
\* A decision stays right as long as nothing is written.
LEMMA DecisionsStay ==
  ASSUME UNCHANGED <<folders, projects>>
  PROVE  /\ Stored' = Stored /\ Live' = Live /\ StoredProjects' = StoredProjects
         /\ LiveProjects' = LiveProjects
         /\ \A o, d : StillRight(o, d) => StillRight(o, d)'
<1>1. /\ Stored' = Stored /\ Live' = Live /\ StoredProjects' = StoredProjects
      /\ LiveProjects' = LiveProjects
  BY DEF Stored, Live, StoredProjects, LiveProjects
<1>2. ASSUME NEW o, NEW d, StillRight(o, d)
      PROVE  StillRight(o, d)'
  <2>1. StillFree(o, d)'
    BY <1>1, <1>2 DEF StillRight, StillFree, Taken, LiveChildren, Subtree, WithChildren
  <2> QED
    BY <1>1, <1>2, <2>1
    DEF StillRight, IsLivePlace, NotBelow, LiveSubtree, Subtree, WithChildren, ProjectsIn, LiveChildren
<1> QED
  BY <1>1, <1>2

Decides(r) ==
  \E d \in Decision :
    /\ pc[r] = "begun" /\ Decide(r, d) /\ StillRight(op[r], d)
    /\ op[r].kind = "update folder" => d.folders = {op[r].item}
    /\ op[r].kind = "reparent folder" => op[r].item \in d.folders

Refuses(r) == \E a \in Answers : Refuse(r, a)

\* create_folder decides on a place that is live, and a project on a folder that is.
LEMMA CheckedPlaces ==
  ASSUME TypeOK, NEW r \in Requests, op[r] \in Operation, CheckCreate(r) \/ CheckProject(r), ~Refuses(r)
  PROVE  Decides(r)
<1> DEFINE d == [Nothing EXCEPT !.parent = op[r].to]
<1>1. /\ pc[r] = "begun" /\ op[r].kind \in {"create folder", "create project", "move project"}
      /\ IsLivePlace(op[r].to) /\ Decide(r, d)
      /\ op[r].kind = "create folder" => ~Taken(op[r].to, op[r].name, {})
      /\ op[r].kind = "create project" => op[r].item \notin StoredProjects
  BY DEF CheckCreate, CheckProject, Checks, Creates, Refuses, Answers
<1>2. d \in Decision /\ d.folders = {} /\ d.projects = {}
  BY <1>1, OperationKinds DEF Nothing, Decision
<1>3. StillRight(op[r], d)
  BY <1>1, <1>2 DEF StillRight, StillFree
<1> QED
  BY <1>1, <1>2, <1>3 DEF Decides

\* update_folder decides on the place the folder has, or on a live one that is not below it.
LEMMA CheckedUpdate ==
  ASSUME TypeOK, NEW r \in Requests, op[r] \in Operation, CheckUpdate(r), ~Refuses(r)
  PROVE  Decides(r)
<1> DEFINE o == op[r]
           to == IF o.to = Keep THEN folders[o.item].parent ELSE o.to
           d == [Nothing EXCEPT !.folders = {o.item}, !.parent = to]
<1>1. /\ pc[r] = "begun" /\ o.kind = "update folder" /\ o.item \in Live
      /\ o.to = Keep \/ (IsLivePlace(o.to) /\ NotBelow(o.item, o.to))
      /\ ~Taken(to, o.name, {o.item}) /\ Decide(r, d)
  BY DEF CheckUpdate, Checks, Refuses, Answers
<1>2. to \in Places /\ o.item \in Folders
  BY <1>1, RowKinds, OperationKinds DEF FolderRow
<1>3. d \in Decision /\ d.folders = {o.item} /\ d.projects = {} /\ d.parent = to
  BY <1>2 DEF Nothing, Decision
<1>4. StillRight(o, d)
  <2>1. StillFree(o, d)
    BY <1>1, <1>3, RowKinds DEF StillFree
  <2> QED
    BY <1>1, <1>3, <2>1 DEF StillRight
<1> QED
  BY <1>1, <1>3, <1>4 DEF Decides

\* Deleting with its content, or with its children moved up: what is live there.
LEMMA CheckedTrash ==
  ASSUME TypeOK, NEW r \in Requests, op[r] \in Operation, CheckTrash(r) \/ CheckReparent(r), ~Refuses(r)
  PROVE  Decides(r)
<1> DEFINE f == op[r].item
<1>0. Live \subseteq Folders /\ ProjectsIn({f}) \subseteq Projects
  BY RowKinds DEF ProjectsIn
<1>1. CASE CheckTrash(r)
  <2> DEFINE d == [Nothing EXCEPT !.folders = LiveSubtree(f),
                                  !.projects = ProjectsIn(LiveSubtree(f)) \intersect LiveProjects]
  <2>1. pc[r] = "begun" /\ op[r].kind = "trash folder" /\ f \in Live /\ Decide(r, d)
    BY <1>1 DEF CheckTrash, Checks, Refuses, Answers, MissingFolder
  <2>2. LiveSubtree(f) \subseteq Folders
    <3>1. LiveSubtree(f) \subseteq Live \union {f}
      BY SubtreeIsClosed DEF LiveSubtree
    <3> QED
      BY <1>0, <2>1, <3>1
  <2>3. d \in Decision /\ d.folders = LiveSubtree(f) /\ d.projects = ProjectsIn(LiveSubtree(f)) \intersect LiveProjects
    BY <2>2, RowKinds DEF Nothing, Decision, Places
  <2>4. LiveSubtree(f) \subseteq Stored
    <3>1. LiveSubtree(f) \subseteq Live \union {f}
      BY SubtreeIsClosed DEF LiveSubtree
    <3> QED
      BY <2>1, <3>1, RowKinds
  <2>5. StillFree(op[r], d)
    BY <2>1, <2>3, <2>4, RowKinds DEF StillFree
  <2>6. StillRight(op[r], d)
    BY <2>1, <2>3, <2>5 DEF StillRight
  <2> QED
    BY <2>1, <2>3, <2>6 DEF Decides
<1>2. CASE CheckReparent(r)
  <2> DEFINE d == [folders |-> LiveChildren(f) \union {f},
                   projects |-> ProjectsIn({f}) \intersect LiveProjects,
                   parent |-> folders[f].parent]
  <2>1. /\ pc[r] = "begun" /\ op[r].kind = "reparent folder" /\ f \in Live /\ Decide(r, d)
        /\ \A g \in LiveChildren(f) : ~Taken(folders[f].parent, folders[g].name, {g, f})
    BY <1>2 DEF CheckReparent, Checks, Refuses, Answers, MissingFolder
  <2>2. d \in Decision
    BY <1>0, <2>1, RowKinds DEF Decision, LiveChildren, FolderRow
  <2>3. StillFree(op[r], d)
    BY <2>1, RowKinds DEF StillFree, LiveChildren
  <2>4. StillRight(op[r], d)
    BY <2>1, <2>3 DEF StillRight
  <2> QED
    BY <2>1, <2>2, <2>4 DEF Decides
<1> QED
  BY <1>1, <1>2

\* restore_folder and the permanent deletion: everything below, live or not.
LEMMA CheckedRestore ==
  ASSUME TypeOK, NEW r \in Requests, op[r] \in Operation, CheckRestore(r) \/ CheckPurge(r), ~Refuses(r)
  PROVE  Decides(r)
<1> DEFINE f == op[r].item
           T == Subtree(f, Stored)
<1>0. Stored \subseteq Folders /\ StoredProjects \subseteq Projects /\ (f \in Stored => T \subseteq Folders)
  BY RowKinds, SubtreeIsClosed
<1>a. f \in Stored => T \subseteq Stored
  BY SubtreeIsClosed
<1>b. ProjectsIn(T) \subseteq StoredProjects
  BY DEF ProjectsIn
<1>1. CASE CheckRestore(r)
  <2> DEFINE d == [folders |-> T \ Live, projects |-> ProjectsIn(T) \ LiveProjects,
                   parent |-> RestoredPlace(folders[f].parent)]
  <2> DEFINE place(g) == IF g = f THEN d.parent ELSE folders[g].parent
  <2>1. /\ pc[r] = "begun" /\ op[r].kind = "restore folder" /\ f \in Stored \ Live /\ Decide(r, d)
        /\ \A g \in d.folders : ~Taken(place(g), folders[g].name, T)
    BY <1>1 DEF CheckRestore, Checks, Refuses, Answers, MissingFolder
  <2>2. d.parent \in {folders[f].parent, Root} /\ IsLivePlace(d.parent)
    BY DEF RestoredPlace, IsLivePlace
  <2>3. d \in Decision
    BY <1>0, <2>1, <2>2, RowKinds DEF Decision, ProjectsIn, FolderRow, Places
  <2>4. StillFree(op[r], d)
    <3>1. d.folders \subseteq Stored /\ d.projects \subseteq StoredProjects
      BY <1>a, <1>b, <2>1
    <3> QED
      BY <2>1, <3>1 DEF StillFree
  <2>5. StillRight(op[r], d)
    BY <2>1, <2>2, <2>4 DEF StillRight
  <2> QED
    BY <2>1, <2>3, <2>5 DEF Decides
<1>2. CASE CheckPurge(r)
  <2> DEFINE d == [Nothing EXCEPT !.folders = T, !.projects = ProjectsIn(T)]
  <2>1. pc[r] = "begun" /\ op[r].kind = "purge folder" /\ f \in Stored \ Live /\ Decide(r, d)
    BY <1>2 DEF CheckPurge, Checks, Refuses, Answers, MissingFolder
  <2>2. d \in Decision /\ d.folders = T /\ d.projects = ProjectsIn(T)
    BY <1>0, <2>1 DEF Nothing, Decision, ProjectsIn, Places
  <2>3. StillFree(op[r], d)
    <3>1. d.folders \subseteq Stored /\ d.projects \subseteq StoredProjects
      BY <1>a, <1>b, <2>1, <2>2
    <3> QED
      BY <2>1, <3>1 DEF StillFree
  <2>4. StillRight(op[r], d)
    BY <2>1, <2>2, <2>3 DEF StillRight
  <2> QED
    BY <2>1, <2>2, <2>4 DEF Decides
<1> QED
  BY <1>1, <1>2

-----------------------------------------------------------------------------
(***************************************************************************)
(* What requests write                                                     *)
(***************************************************************************)
\* What every request leaves behind that changes rows.
Commits(r) ==
  /\ Return(r, "done") /\ RowsTyped'
  /\ UniqueNames(folders') /\ KeysExist(folders', projects')
  /\ \A f \in Stored' \ Stored : Creating(r) /\ f = op[r].item

\* What it needs to be alone for, and to have decided right.
Alright(r) == FoldersFormATree /\ LivePlaces /\ StillRight(op[r], seen[r])
InOrder == FoldersFormATree' /\ LivePlaces' /\ TakesOnlyTrash

\* A flush that does not fail leaves unique names and keys that exist.
LEMMA Flushed ==
  ASSUME NEW r, NEW F, NEW P, FlushOrFail(r, F, P), ~Refuses(r)
  PROVE  /\ folders' = F /\ projects' = P /\ Return(r, "done")
         /\ UniqueNames(folders') /\ KeysExist(folders', projects')
         /\ seen[r].folders \subseteq Stored /\ seen[r].projects \subseteq StoredProjects
BY DEF FlushOrFail, Flush, FlushFails, Refuses, Answers

\* create_folder adds a row.
LEMMA WrittenCreate ==
  ASSUME TypeOK, ShapeInv, NEW r \in Requests, op[r] \in Operation, WriteCreate(r), ~Refuses(r)
  PROVE  Commits(r) /\ (Alright(r) => InOrder)
<1> DEFINE row == [parent |-> op[r].to, name |-> op[r].name, deleted |-> FALSE]
<1>0. op[r].kind = "create folder" /\ pc[r] = "checked"
  BY DEF WriteCreate, Writes
<1>1. PICK f \in Folders : f = op[r].item
  BY <1>0, OperationKinds
<1>2. f \notin Stored /\ row \in FolderRow /\ Creating(r)
  BY <1>0, <1>1, OperationKinds DEF ShapeInv, Creating, FolderRow
<1>3. /\ folders' = [folders EXCEPT ![f] = row] /\ projects' = projects /\ Return(r, "done")
      /\ UniqueNames(folders') /\ KeysExist(folders', projects')
  BY <1>1, Flushed DEF WriteCreate
<1>4. RowsTyped'
  BY <1>2, <1>3, RowKinds DEF RowsTyped
<1>5. folders'[f] = row /\ row # NoRow /\ \A g \in Folders \ {f} : folders'[g] = folders[g]
  BY <1>2, <1>3, RowKinds DEF RowsTyped
<1>6. Stored' = Stored \union {f}
  BY <1>5 DEF Stored
<1>7. Live' = Live \union {f} /\ LiveProjects' = LiveProjects
  BY <1>2, <1>3, <1>5, <1>6 DEF Live, Stored, LiveProjects, StoredProjects
<1>8. ASSUME Alright(r)
      PROVE  InOrder
  <2>1. IsLivePlace(op[r].to) /\ FoldersFormATree /\ LivePlaces
    BY <1>0, <1>8 DEF Alright, StillRight
  <2>2. ParentsStay(Stored) /\ folders'[f].parent \in Stored \union {Root}
    BY <1>2, <1>5, <2>1, RowKinds DEF ParentsStay, IsLivePlace
  <2>3. FoldersFormATree'
    BY <1>2, <1>6, <2>1, <2>2, AddedLeaf
  <2>4. LivePlaces'
    <3>1. folders'[f].parent = Root \/ folders'[f].parent \in Live
      BY <1>5, <2>1 DEF IsLivePlace
    <3>2. \A g \in Live : folders'[g].parent = Root \/ folders'[g].parent \in Live
      BY <1>2, <1>5, <2>1, RowKinds DEF LivePlaces, IsLivePlace
    <3> QED
      BY <1>3, <1>7, <2>1, <3>1, <3>2 DEF LivePlaces, IsLivePlace
  <2>5. TakesOnlyTrash
    BY <1>2, <1>3, <1>5, RowKinds DEF TakesOnlyTrash, Live, LiveProjects, Stored, StoredProjects
  <2> QED
    BY <2>3, <2>4, <2>5 DEF InOrder
<1> QED
  BY <1>1, <1>2, <1>3, <1>4, <1>6, <1>8 DEF Commits

\* update_folder changes the row it has locked.
LEMMA WrittenUpdate ==
  ASSUME TypeOK, ShapeInv, NEW r \in Requests, op[r] \in Operation,
         WriteUpdate(r), ~Refuses(r)
  PROVE  Commits(r) /\ (Alright(r) => InOrder)
<1>0. op[r].kind = "update folder" /\ pc[r] = "checked"
  BY DEF WriteUpdate, Writes
<1>1. PICK f \in Folders : f = op[r].item
  BY <1>0, OperationKinds
<1>2. PICK to \in Places : to = seen[r].parent
  BY DEF TypeOK
<1>3. /\ folders' = [folders EXCEPT ![f].name = op[r].name, ![f].parent = to]
      /\ projects' = projects /\ Return(r, "done") /\ f \in Stored
      /\ UniqueNames(folders') /\ KeysExist(folders', projects')
  <2>1. seen[r].folders = {f}
    BY <1>0, <1>1 DEF ShapeInv
  <2> QED
    BY <1>1, <1>2, <2>1, Flushed DEF WriteUpdate
<1>4. folders[f] \in FolderRow /\ op[r].name \in Names
  BY <1>0, <1>3, RowKinds, OperationKinds
<1>5. folders'[f] = [parent |-> to, name |-> op[r].name, deleted |-> folders[f].deleted]
  BY <1>3, <1>4 DEF TypeOK, FolderRow
<1>6. \A g \in Folders \ {f} : folders'[g] = folders[g]
  BY <1>3 DEF TypeOK
<1>7. folders'[f] \in FolderRow
  BY <1>4, <1>5 DEF FolderRow
<1>8. RowsTyped'
  <2>1. folders' \in [Folders -> {NoRow} \union FolderRow]
    BY <1>3, <1>6, <1>7, RowKinds DEF RowsTyped
  <2> QED
    BY <1>3, <2>1, RowKinds DEF RowsTyped
<1>9. Stored' = Stored /\ Live' = Live /\ LiveProjects' = LiveProjects
  <2>1. Stored' = Stored
    BY <1>3, <1>6, <1>7, RowKinds DEF Stored
  <2>2. \A g \in Stored : folders'[g].deleted = folders[g].deleted
    BY <1>5, <1>6 DEF Stored
  <2>3. Live' = Live
    BY <2>1, <2>2 DEF Live
  <2> QED
    BY <1>3, <2>1, <2>3 DEF LiveProjects, StoredProjects
<1>10. ASSUME Alright(r)
       PROVE  InOrder
  <2>1. /\ to = folders[f].parent \/ (IsLivePlace(to) /\ to \notin Subtree(f, Stored))
        /\ FoldersFormATree /\ LivePlaces
    BY <1>0, <1>1, <1>2, <1>10 DEF Alright, StillRight, NotBelow
  <2>2. ParentsStay(Stored \ {f}) /\ folders'[f].parent = to
    BY <1>5, <1>6 DEF ParentsStay, Stored
  <2>3. FoldersFormATree'
    <3>1. CASE to = folders[f].parent
      BY <1>9, <2>1, <2>2, <3>1, NothingMoves DEF ParentsStay
    <3>2. CASE IsLivePlace(to) /\ to \notin Subtree(f, Stored)
      <4>1. folders'[f].parent \in (Stored \union {Root}) \ Subtree(f, Stored)
        BY <2>2, <3>2, RowKinds DEF IsLivePlace
      <4> QED
        BY <1>3, <1>9, <2>1, <2>2, <4>1, MovedElsewhere
    <3> QED
      BY <2>1, <3>1, <3>2
  <2>4. LivePlaces'
    <3>1. \A g \in Live : folders'[g].parent = Root \/ folders'[g].parent \in Live
      BY <2>1, <2>2, RowKinds DEF LivePlaces, IsLivePlace, ParentsStay
    <3> QED
      BY <1>3, <1>9, <2>1, <3>1 DEF LivePlaces, IsLivePlace
  <2>5. TakesOnlyTrash
    BY <1>3, <1>9 DEF TakesOnlyTrash, Live, LiveProjects, Stored, StoredProjects
  <2> QED
    BY <2>3, <2>4, <2>5 DEF InOrder
<1> QED
  BY <1>3, <1>8, <1>9, <1>10 DEF Commits

\* Rows are put into the trash: whatever is in them, if it is to leave nothing behind.
LEMMA TrashedRows ==
  ASSUME TypeOK, UniqueNames(folders), KeysExist(folders, projects), NEW S \in SUBSET Folders, NEW Q \in SUBSET Projects,
         folders' = Trashed(S), projects' = TrashedProjects(Q)
  PROVE  /\ RowsTyped' /\ UniqueNames(folders') /\ KeysExist(folders', projects')
         /\ Stored' = Stored /\ Live' = Live \ S /\ TakesOnlyTrash
         /\ FoldersFormATree => FoldersFormATree'
         /\ LivePlaces /\ WithChildren(S, Live) /\ ProjectsIn(S) \intersect LiveProjects \subseteq Q
              => LivePlaces'
<1>1. \A g \in Folders \ Stored : folders'[g] = folders[g]
  BY DEF Trashed
<1>2. \A p \in Projects \ StoredProjects : projects'[p] = projects[p]
  BY DEF TrashedProjects
<1>3. ASSUME NEW g \in Stored
      PROVE  /\ folders'[g] \in FolderRow
             /\ folders'[g].parent = folders[g].parent /\ folders'[g].name = folders[g].name
             /\ g \in S => folders'[g].deleted = TRUE
             /\ g \notin S => folders'[g].deleted = folders[g].deleted
  <2>1. g \in Folders /\ folders[g] \in FolderRow
    BY RowKinds
  <2>2. folders'[g] = IF g \in S THEN [folders[g] EXCEPT !.deleted = TRUE] ELSE folders[g]
    BY <2>1 DEF Trashed
  <2> QED
    BY <2>1, <2>2 DEF FolderRow
<1>4. ASSUME NEW p \in StoredProjects
      PROVE  /\ projects'[p] \in ProjectRow /\ projects'[p].parent = projects[p].parent
             /\ p \in Q => projects'[p].deleted = TRUE
             /\ p \notin Q => projects'[p].deleted = projects[p].deleted
  <2>1. p \in Projects /\ projects[p] \in ProjectRow
    BY RowKinds
  <2>2. projects'[p] = IF p \in Q THEN [projects[p] EXCEPT !.deleted = TRUE] ELSE projects[p]
    BY <2>1 DEF TrashedProjects
  <2> QED
    BY <2>1, <2>2 DEF ProjectRow
<1>5. RowsTyped'
  <2>1. folders' \in [Folders -> {NoRow} \union FolderRow]
    BY <1>1, <1>3, RowKinds DEF Trashed, RowsTyped
  <2>2. projects' \in [Projects -> {NoRow} \union ProjectRow]
    BY <1>2, <1>4, RowKinds DEF TrashedProjects, RowsTyped
  <2> QED
    BY <2>1, <2>2 DEF RowsTyped, FolderRow, ProjectRow
<1>6. Stored' = Stored /\ StoredProjects' = StoredProjects
  BY <1>1, <1>2, <1>3, <1>4, RowKinds DEF Stored, StoredProjects
<1>7. Live' = Live \ S
  BY <1>3, <1>6 DEF Live
<1>8. LiveProjects' = LiveProjects \ Q
  BY <1>4, <1>6 DEF LiveProjects
<1>9. UniqueNames(folders')
  <2>1. \A g \in Stored : ~folders'[g].deleted => ~folders[g].deleted
    BY <1>3
  <2> QED
    BY <1>3, <1>6, <2>1 DEF UniqueNames, Stored
<1>10. KeysExist(folders', projects')
  <2>1. \A g \in Stored : folders'[g].parent \in Stored \union {Root}
    BY <1>3, RowKinds DEF KeysExist, Stored
  <2>2. \A p \in StoredProjects : projects'[p].parent \in Stored \union {Root}
    BY <1>4 DEF KeysExist, Stored, StoredProjects
  <2> QED
    BY <1>6, <2>1, <2>2 DEF KeysExist, Stored, StoredProjects
<1>11. ParentsStay(Stored)
  BY <1>3 DEF ParentsStay
<1>12. TakesOnlyTrash
  BY <1>3, <1>4, RowKinds DEF TakesOnlyTrash
<1>13. ASSUME LivePlaces, WithChildren(S, Live), ProjectsIn(S) \intersect LiveProjects \subseteq Q
       PROVE  LivePlaces'
  <2>1. \A g \in Live' : folders'[g].parent = Root \/ folders'[g].parent \in Live'
    BY <1>7, <1>11, <1>13, RowKinds DEF LivePlaces, IsLivePlace, WithChildren, ParentsStay
  <2>2. \A p \in LiveProjects' : projects'[p].parent = Root \/ projects'[p].parent \in Live'
    BY <1>4, <1>7, <1>8, <1>13, RowKinds DEF LivePlaces, IsLivePlace, ProjectsIn
  <2> QED
    BY <2>1, <2>2 DEF LivePlaces, IsLivePlace
<1> QED
  BY <1>5, <1>6, <1>7, <1>9, <1>10, <1>11, <1>12, <1>13, NothingMoves

\* Deleting a folder with its content.
LEMMA WrittenTrash ==
  ASSUME TypeOK, UniqueNames(folders), KeysExist(folders, projects), NEW r \in Requests,
         op[r] \in Operation, WriteTrash(r), ~Refuses(r)
  PROVE  Commits(r) /\ (Alright(r) => InOrder)
<1>0. op[r].kind = "trash folder"
  BY DEF WriteTrash, Writes
<1>1. PICK f \in Folders : f = op[r].item
  BY <1>0, OperationKinds
<1>2. PICK S \in SUBSET Folders : S = seen[r].folders
  BY DEF TypeOK
<1>3. PICK Q \in SUBSET Projects : Q = seen[r].projects
  BY DEF TypeOK
<1>4. folders' = Trashed(S) /\ projects' = TrashedProjects(Q) /\ Return(r, "done")
  BY <1>2, <1>3, Flushed DEF WriteTrash
<1>5. Commits(r)
  BY <1>4, TrashedRows DEF Commits
<1>6. ASSUME Alright(r)
      PROVE  InOrder
  <2>1. S = Subtree(f, Live) /\ Q = ProjectsIn(S) \intersect LiveProjects /\ FoldersFormATree /\ LivePlaces
    BY <1>0, <1>1, <1>2, <1>3, <1>6 DEF Alright, StillRight, LiveSubtree
  <2>2. WithChildren(S, Live)
    BY <2>1, SubtreeIsClosed
  <2> QED
    BY <1>4, <2>1, <2>2, TrashedRows DEF InOrder
<1> QED
  BY <1>5, <1>6

\* Deleting an empty folder, and putting a project into the trash.
LEMMA WrittenAtOnce ==
  ASSUME TypeOK, UniqueNames(folders), KeysExist(folders, projects), NEW r \in Requests,
         op[r] \in Operation, DeleteEmpty(r) \/ TrashProject(r), ~Refuses(r)
  PROVE  Commits(r) /\ (FoldersFormATree /\ LivePlaces => InOrder)
<1>1. folders = Trashed({}) /\ projects = TrashedProjects({})
  BY DEF TypeOK, Trashed, TrashedProjects
<1>2. CASE DeleteEmpty(r)
  <2>1. /\ op[r].kind = "delete folder" /\ LiveChildren(op[r].item) = {}
        /\ ProjectsIn({op[r].item}) \intersect LiveProjects = {}
        /\ folders' = Trashed({op[r].item}) /\ projects' = projects /\ Return(r, "done")
    BY <1>2 DEF DeleteEmpty, MissingFolder, Checks, Refuses, Answers
  <2>2. PICK f \in Folders : f = op[r].item
    BY <2>1, OperationKinds
  <2>3. folders' = Trashed({f}) /\ projects' = TrashedProjects({}) /\ WithChildren({f}, Live)
    BY <1>1, <2>1, <2>2 DEF WithChildren, LiveChildren
  <2>4. ProjectsIn({f}) \intersect LiveProjects \subseteq {}
    BY <2>1, <2>2
  <2> QED
    BY <2>1, <2>3, <2>4, TrashedRows DEF Commits, InOrder
<1>3. CASE TrashProject(r)
  <2>1. /\ op[r].kind = "trash project" /\ folders' = folders
        /\ projects' = TrashedProjects({op[r].item}) /\ Return(r, "done")
    BY <1>3 DEF TrashProject, Checks, Refuses, Answers
  <2>2. PICK p \in Projects : p = op[r].item
    BY <2>1, OperationKinds
  <2>3. folders' = Trashed({}) /\ projects' = TrashedProjects({p}) /\ WithChildren({}, Live)
    BY <1>1, <2>1, <2>2 DEF WithChildren
  <2>4. ProjectsIn({}) = {}
    BY DEF ProjectsIn
  <2> QED
    BY <2>1, <2>3, <2>4, TrashedRows DEF Commits, InOrder
<1> QED
  BY <1>2, <1>3

\* Deleting a folder whose live children move up to where it was.
LEMMA WrittenReparent ==
  ASSUME TypeOK, ShapeInv, NEW r \in Requests, op[r] \in Operation, WriteReparent(r), ~Refuses(r)
  PROVE  Commits(r) /\ (Alright(r) => InOrder)
<1>0. op[r].kind = "reparent folder" /\ pc[r] = "checked"
  BY DEF WriteReparent, Writes
<1>1. PICK f \in Folders : f = op[r].item
  BY <1>0, OperationKinds
<1>2. PICK S \in SUBSET Folders : S = seen[r].folders
  BY DEF TypeOK
<1>3. PICK Q \in SUBSET Projects : Q = seen[r].projects
  BY DEF TypeOK
<1>4. PICK to \in Places : to = seen[r].parent
  BY DEF TypeOK
<1> DEFINE F == [g \in Folders |->
                   IF g = f THEN [folders[f] EXCEPT !.deleted = TRUE]
                   ELSE IF g \in S /\ g \in Stored THEN [folders[g] EXCEPT !.parent = to] ELSE folders[g]]
           P == [p \in Projects |->
                   IF p \in Q /\ p \in StoredProjects THEN [projects[p] EXCEPT !.parent = to] ELSE projects[p]]
<1>5. FlushOrFail(r, F, P)
  BY <1>1, <1>2, <1>3, <1>4 DEF WriteReparent, Refuses, Answers
<1>6. /\ folders' = F /\ projects' = P /\ Return(r, "done")
      /\ UniqueNames(folders') /\ KeysExist(folders', projects')
      /\ S \subseteq Stored /\ Q \subseteq StoredProjects /\ f \in S
  <2>1. f \in S
    BY <1>0, <1>1, <1>2 DEF ShapeInv
  <2> HIDE DEF F, P
  <2> QED
    BY <1>2, <1>3, <1>5, <2>1, Flushed
<1>7. \A g \in Folders \ S : folders'[g] = folders[g]
  BY <1>6
<1>8. \A p \in Projects \ Q : projects'[p] = projects[p]
  BY <1>6
<1>9. ASSUME NEW g \in S
      PROVE  /\ folders'[g] \in FolderRow
             /\ folders'[g].parent = IF g = f THEN folders[f].parent ELSE to
             /\ g = f => folders'[g].deleted = TRUE
             /\ g # f => folders'[g].deleted = folders[g].deleted
  <2>1. g \in Stored /\ g \in Folders /\ folders[g] \in FolderRow
    BY <1>6, RowKinds
  <2>2. folders'[g] = IF g = f THEN [folders[g] EXCEPT !.deleted = TRUE] ELSE [folders[g] EXCEPT !.parent = to]
    BY <1>6, <2>1
  <2> QED
    BY <2>1, <2>2 DEF FolderRow
<1>10. ASSUME NEW p \in Q
       PROVE  /\ projects'[p] \in ProjectRow
              /\ projects'[p].parent = to /\ projects'[p].deleted = projects[p].deleted
  <2>1. p \in StoredProjects /\ p \in Projects /\ projects[p] \in ProjectRow
    BY <1>6, RowKinds
  <2>2. projects'[p] = [projects[p] EXCEPT !.parent = to]
    BY <1>6, <2>1
  <2> QED
    BY <2>1, <2>2 DEF ProjectRow
<1>11. RowsTyped'
  <2>1. folders' \in [Folders -> {NoRow} \union FolderRow]
    BY <1>6, <1>7, <1>9, RowKinds DEF RowsTyped
  <2>2. projects' \in [Projects -> {NoRow} \union ProjectRow]
    BY <1>6, <1>8, <1>10, RowKinds DEF RowsTyped
  <2> QED
    BY <2>1, <2>2 DEF RowsTyped, FolderRow, ProjectRow
<1> HIDE DEF F, P
<1>12. Stored' = Stored /\ StoredProjects' = StoredProjects
  <2>1. Stored' = Stored
    BY <1>6, <1>7, <1>9, RowKinds DEF Stored
  <2>2. StoredProjects' = StoredProjects
    BY <1>6, <1>8, <1>10, RowKinds DEF StoredProjects
  <2> QED
    BY <2>1, <2>2
<1>13. Live' = Live \ {f} /\ LiveProjects' = LiveProjects
  <2>1. Live' = Live \ {f}
    BY <1>6, <1>7, <1>9, <1>12, RowKinds DEF Live
  <2>2. LiveProjects' = LiveProjects
    BY <1>6, <1>8, <1>10, <1>12, RowKinds DEF LiveProjects
  <2> QED
    BY <2>1, <2>2
<1>14. ASSUME Alright(r)
       PROVE  InOrder
  <2>1. /\ f \in Live /\ S = LiveChildren(f) \union {f} /\ Q = ProjectsIn({f}) \intersect LiveProjects
        /\ to = folders[f].parent /\ FoldersFormATree /\ LivePlaces
    BY <1>0, <1>1, <1>2, <1>3, <1>4, <1>14 DEF Alright, StillRight
  <2>2. folders[f].parent # f /\ f \in Stored /\ Root # f
    BY <2>1, RowKinds, NoLoop
  <2>3. /\ LiveChildren(f) \in SUBSET Stored
        /\ \A g \in LiveChildren(f) : folders[g].parent = f /\ folders'[g].parent = folders[f].parent
    BY <1>9, <2>1, <2>2, RowKinds DEF LiveChildren
  <2>4. ParentsStay(Stored \ LiveChildren(f))
    BY <1>7, <1>9, <2>1, RowKinds DEF ParentsStay
  <2>5. FoldersFormATree'
    BY <1>12, <2>1, <2>2, <2>3, <2>4, MovedUp
  <2>6. folders[f].parent = Root \/ folders[f].parent \in Live \ {f}
    BY <2>1, <2>2 DEF LivePlaces, IsLivePlace
  <2>7. \A g \in Live \ {f} : folders'[g].parent = Root \/ folders'[g].parent \in Live \ {f}
    <3>1. \A g \in Live \ S : folders[g].parent # f
      BY <2>1 DEF LiveChildren
    <3>2. \A g \in Live \ S : folders'[g].parent = Root \/ folders'[g].parent \in Live \ {f}
      BY <1>7, <2>1, <3>1, RowKinds DEF LivePlaces, IsLivePlace
    <3> QED
      BY <2>1, <2>3, <2>6, <3>2
  <2>8. \A p \in LiveProjects : projects'[p].parent = Root \/ projects'[p].parent \in Live \ {f}
    <3>1. \A p \in LiveProjects \ Q : projects[p].parent # f
      BY <2>1, RowKinds DEF ProjectsIn
    <3>2. \A p \in LiveProjects \ Q : projects'[p].parent = Root \/ projects'[p].parent \in Live \ {f}
      BY <1>8, <2>1, <3>1, RowKinds DEF LivePlaces, IsLivePlace
    <3>3. \A p \in Q : projects'[p].parent = Root \/ projects'[p].parent \in Live \ {f}
      BY <1>10, <2>1, <2>6
    <3> QED
      BY <3>2, <3>3
  <2>9. LivePlaces'
    BY <1>13, <2>7, <2>8 DEF LivePlaces, IsLivePlace
  <2>10. TakesOnlyTrash
    BY <1>12, RowKinds DEF TakesOnlyTrash, Stored, StoredProjects
  <2> QED
    BY <2>5, <2>9, <2>10 DEF InOrder
<1> QED
  BY <1>6, <1>11, <1>12, <1>14 DEF Commits

\* Taking a folder with all below it out of the trash.
LEMMA WrittenRestore ==
  ASSUME TypeOK, NEW r \in Requests, op[r] \in Operation, WriteRestore(r), ~Refuses(r)
  PROVE  Commits(r) /\ (Alright(r) => InOrder)
<1>0. op[r].kind = "restore folder"
  BY DEF WriteRestore, Writes
<1>1. PICK f \in Folders : f = op[r].item
  BY <1>0, OperationKinds
<1>2. PICK S \in SUBSET Folders : S = seen[r].folders
  BY DEF TypeOK
<1>3. PICK Q \in SUBSET Projects : Q = seen[r].projects
  BY DEF TypeOK
<1>4. PICK to \in Places : to = seen[r].parent
  BY DEF TypeOK
<1> DEFINE F == [g \in Folders |->
                   IF g \in S /\ g \in Stored
                   THEN [folders[g] EXCEPT !.deleted = FALSE, !.parent = IF g = f THEN to ELSE @]
                   ELSE folders[g]]
           P == [p \in Projects |->
                   IF p \in Q /\ p \in StoredProjects THEN [projects[p] EXCEPT !.deleted = FALSE] ELSE projects[p]]
<1>5. FlushOrFail(r, F, P)
  BY <1>1, <1>2, <1>3, <1>4 DEF WriteRestore
<1>6. /\ folders' = F /\ projects' = P /\ Return(r, "done")
      /\ UniqueNames(folders') /\ KeysExist(folders', projects')
      /\ S \subseteq Stored /\ Q \subseteq StoredProjects
  <2> HIDE DEF F, P
  <2> QED
    BY <1>2, <1>3, <1>5, Flushed
<1>7. \A g \in Folders \ S : folders'[g] = folders[g]
  BY <1>6
<1>8. \A p \in Projects \ Q : projects'[p] = projects[p]
  BY <1>6
<1>9. ASSUME NEW g \in S
      PROVE  /\ folders'[g] \in FolderRow /\ folders'[g].deleted = FALSE
             /\ folders'[g].parent = IF g = f THEN to ELSE folders[g].parent
  <2>1. g \in Stored /\ g \in Folders /\ folders[g] \in FolderRow
    BY <1>6, RowKinds
  <2>2. folders'[g] = [folders[g] EXCEPT !.deleted = FALSE, !.parent = IF g = f THEN to ELSE folders[g].parent]
    BY <1>6, <2>1
  <2> QED
    BY <2>1, <2>2 DEF FolderRow
<1>10. ASSUME NEW p \in Q
       PROVE  /\ projects'[p] \in ProjectRow
              /\ projects'[p].parent = projects[p].parent /\ projects'[p].deleted = FALSE
  <2>1. p \in StoredProjects /\ p \in Projects /\ projects[p] \in ProjectRow
    BY <1>6, RowKinds
  <2>2. projects'[p] = [projects[p] EXCEPT !.deleted = FALSE]
    BY <1>6, <2>1
  <2> QED
    BY <2>1, <2>2 DEF ProjectRow
<1>11. RowsTyped'
  <2>1. folders' \in [Folders -> {NoRow} \union FolderRow]
    BY <1>6, <1>7, <1>9, RowKinds DEF RowsTyped
  <2>2. projects' \in [Projects -> {NoRow} \union ProjectRow]
    BY <1>6, <1>8, <1>10, RowKinds DEF RowsTyped
  <2> QED
    BY <2>1, <2>2 DEF RowsTyped, FolderRow, ProjectRow
<1> HIDE DEF F, P
<1>12. Stored' = Stored /\ StoredProjects' = StoredProjects
  <2>1. Stored' = Stored
    BY <1>6, <1>7, <1>9, RowKinds DEF Stored
  <2>2. StoredProjects' = StoredProjects
    BY <1>6, <1>8, <1>10, RowKinds DEF StoredProjects
  <2> QED
    BY <2>1, <2>2
<1>13. Live' = Live \union S /\ LiveProjects' = LiveProjects \union Q
  <2>1. Live' = Live \union S
    BY <1>6, <1>7, <1>9, <1>12, RowKinds DEF Live
  <2>2. LiveProjects' = LiveProjects \union Q
    BY <1>6, <1>8, <1>10, <1>12, RowKinds DEF LiveProjects
  <2> QED
    BY <2>1, <2>2
<1>14. ASSUME Alright(r)
       PROVE  InOrder
  <2> DEFINE T == Subtree(f, Stored)
  <2>1. /\ f \in Stored \ Live /\ S = T \ Live /\ Q = ProjectsIn(T) \ LiveProjects
        /\ to = Root \/ to \in Live
        /\ to \in {folders[f].parent, Root} /\ FoldersFormATree /\ LivePlaces
    BY <1>0, <1>1, <1>2, <1>3, <1>4, <1>14 DEF Alright, StillRight, IsLivePlace
  <2>2. f \in T /\ T \subseteq Stored /\ \A g \in T \ {f} : folders[g].parent \in T
    BY <2>1, SubtreeIsClosed, SubtreeHasParents
  <2>3. folders'[f].parent = to /\ ParentsStay(Stored \ {f})
    BY <1>7, <1>9, <2>1, <2>2, RowKinds DEF ParentsStay
  <2> HIDE DEF T
  <2>4. FoldersFormATree'
    <3>1. CASE to = folders[f].parent
      BY <1>12, <2>1, <2>3, <3>1, NothingMoves DEF ParentsStay
    <3>2. CASE to = Root
      <4>1. folders'[f].parent \in (Stored \union {Root}) \ Subtree(f, Stored)
        BY <2>2, <2>3, <3>2, RowKinds DEF T
      <4> QED
        BY <1>12, <2>1, <2>3, <4>1, MovedElsewhere
    <3> QED
      BY <2>1, <3>1, <3>2
  <2>5. \A g \in Live \union S : folders'[g].parent = Root \/ folders'[g].parent \in Live \union S
    <3>1. \A g \in Live : folders'[g].parent = Root \/ folders'[g].parent \in Live
      BY <1>7, <2>1, RowKinds DEF LivePlaces, IsLivePlace
    <3>2. \A g \in S \ {f} : folders'[g].parent \in T
      BY <1>9, <2>1, <2>2
    <3> QED
      BY <2>1, <2>3, <3>1, <3>2
  <2>6. \A p \in LiveProjects \union Q : projects'[p].parent = Root \/ projects'[p].parent \in Live \union S
    <3>1. \A p \in LiveProjects : projects'[p].parent = Root \/ projects'[p].parent \in Live
      BY <1>8, <2>1, RowKinds DEF LivePlaces, IsLivePlace
    <3>2. \A p \in Q : projects'[p].parent \in T
      BY <1>10, <2>1 DEF ProjectsIn
    <3> QED
      BY <2>1, <3>1, <3>2
  <2>7. LivePlaces'
    BY <1>13, <2>5, <2>6 DEF LivePlaces, IsLivePlace
  <2>8. TakesOnlyTrash
    BY <1>12, RowKinds DEF TakesOnlyTrash, Stored, StoredProjects
  <2> QED
    BY <2>4, <2>7, <2>8 DEF InOrder
<1> QED
  BY <1>6, <1>11, <1>12, <1>14 DEF Commits

\* Deleting a folder for ever, with all that was below it when this was decided.
LEMMA WrittenPurge ==
  ASSUME TypeOK, KeysExist(folders, projects), NEW r \in Requests, op[r] \in Operation,
         WritePurge(r), ~Refuses(r)
  PROVE  Commits(r) /\ (Alright(r) => InOrder)
<1>0. op[r].kind = "purge folder"
  BY DEF WritePurge, Writes
<1>1. PICK f \in Folders : f = op[r].item
  BY <1>0, OperationKinds
<1>2. PICK S \in SUBSET Folders : S = seen[r].folders
  BY DEF TypeOK
<1>3. PICK Q \in SUBSET Projects : Q = seen[r].projects
  BY DEF TypeOK
<1>4. /\ folders' = [g \in Folders |-> IF g \in S THEN NoRow ELSE Detached(folders[g], S)]
      /\ projects' = [p \in Projects |-> IF p \in Q THEN NoRow ELSE Detached(projects[p], S)]
      /\ Return(r, "done") /\ UniqueNames(folders')
  BY <1>2, <1>3 DEF WritePurge, Refuses, Answers
<1>5. /\ \A g \in S : folders'[g] = NoRow
      /\ \A g \in Folders \ S : folders[g] = NoRow => folders'[g] = NoRow
  BY <1>4 DEF Detached
<1>6. /\ \A p \in Q : projects'[p] = NoRow
      /\ \A p \in Projects \ Q : projects[p] = NoRow => projects'[p] = NoRow
  BY <1>4 DEF Detached
<1>7. ASSUME NEW g \in Stored \ S
      PROVE  /\ folders'[g] \in FolderRow /\ folders'[g].deleted = folders[g].deleted
             /\ folders'[g].parent = IF folders[g].parent \in S THEN Root ELSE folders[g].parent
  <2>1. g \in Folders /\ folders[g] \in FolderRow /\ folders[g] # NoRow
    BY RowKinds DEF Stored
  <2>2. folders'[g] = IF folders[g].parent \in S THEN [folders[g] EXCEPT !.parent = Root] ELSE folders[g]
    BY <1>4, <2>1 DEF Detached
  <2> QED
    BY <2>1, <2>2 DEF FolderRow, Places
<1>8. ASSUME NEW p \in StoredProjects \ Q
      PROVE  /\ projects'[p] \in ProjectRow /\ projects'[p].deleted = projects[p].deleted
             /\ projects'[p].parent = IF projects[p].parent \in S THEN Root ELSE projects[p].parent
  <2>1. p \in Projects /\ projects[p] \in ProjectRow /\ projects[p] # NoRow
    BY RowKinds DEF StoredProjects
  <2>2. projects'[p] = IF projects[p].parent \in S THEN [projects[p] EXCEPT !.parent = Root] ELSE projects[p]
    BY <1>4, <2>1 DEF Detached
  <2> QED
    BY <2>1, <2>2 DEF ProjectRow, Places
<1>9. RowsTyped'
  <2>1. folders' \in [Folders -> {NoRow} \union FolderRow]
    BY <1>4, <1>5, <1>7 DEF Stored
  <2>2. projects' \in [Projects -> {NoRow} \union ProjectRow]
    BY <1>4, <1>6, <1>8 DEF StoredProjects
  <2> QED
    BY <2>1, <2>2 DEF RowsTyped, FolderRow, ProjectRow
<1>10. Stored' = Stored \ S /\ StoredProjects' = StoredProjects \ Q
  BY <1>5, <1>6, <1>7, <1>8, RowKinds DEF Stored, StoredProjects
<1>11. Live' = Live \ S /\ LiveProjects' = LiveProjects \ Q
  <2>1. Live' = Live \ S
    BY <1>7, <1>10, RowKinds DEF Live
  <2>2. LiveProjects' = LiveProjects \ Q
    BY <1>8, <1>10, RowKinds DEF LiveProjects
  <2> QED
    BY <2>1, <2>2
<1>12. KeysExist(folders', projects')
  <2>1. \A g \in Stored : folders[g].parent \in Stored \union {Root}
    BY RowKinds DEF KeysExist, Stored
  <2>2. \A p \in StoredProjects : projects[p].parent \in Stored \union {Root}
    BY DEF KeysExist, Stored, StoredProjects
  <2>3. \A g \in Stored' : folders'[g].parent \in Stored' \union {Root}
    BY <1>7, <1>10, <2>1
  <2>4. \A p \in StoredProjects' : projects'[p].parent \in Stored' \union {Root}
    BY <1>8, <1>10, <2>2
  <2> QED
    BY <2>3, <2>4 DEF KeysExist, Stored, StoredProjects
<1>13. ASSUME Alright(r)
       PROVE  InOrder
  <2>1. /\ f \in Stored \ Live /\ S = Subtree(f, Stored) /\ Q = ProjectsIn(S)
        /\ FoldersFormATree /\ LivePlaces
    BY <1>0, <1>1, <1>2, <1>3, <1>13 DEF Alright, StillRight
  <2>2. f \in S /\ S \subseteq Stored /\ WithChildren(S, Stored)
    BY <2>1, SubtreeIsClosed
  <2>3. S \intersect Live = {}
    <3>1. \A g \in Live : folders[g].parent = Root \/ folders[g].parent \in Live
      BY <2>1 DEF LivePlaces, IsLivePlace
    <3>2. WithChildren(S \ Live, Stored)
      BY <2>2, <3>1, RowKinds DEF WithChildren
    <3>3. Subtree(f, Stored) \subseteq S \ Live
      BY <2>1, <2>2, <3>2, SubtreeIsLeast
    <3> QED
      BY <2>1, <3>3
  <2>4. ParentsStay(Stored')
    BY <1>7, <1>10, <2>2 DEF ParentsStay, WithChildren
  <2>5. FoldersFormATree'
    BY <1>10, <2>1, <2>4, RowKinds, TakenAway
  <2>6. Q \intersect LiveProjects = {}
    BY <2>1, <2>3, RowKinds DEF LivePlaces, IsLivePlace, ProjectsIn
  <2>7. \A g \in Live : folders'[g].parent = Root \/ folders'[g].parent \in Live
    BY <1>10, <2>1, <2>3, <2>4, RowKinds DEF LivePlaces, IsLivePlace, ParentsStay
  <2>8. \A p \in LiveProjects : projects'[p].parent = Root \/ projects'[p].parent \in Live
    BY <1>8, <2>1, <2>3, <2>6, RowKinds DEF LivePlaces, IsLivePlace
  <2>9. LivePlaces'
    BY <1>11, <2>3, <2>6, <2>7, <2>8 DEF LivePlaces, IsLivePlace
  <2>10. TakesOnlyTrash
    BY <1>10, <2>3, <2>6, RowKinds DEF TakesOnlyTrash, Stored, StoredProjects
  <2> QED
    BY <2>5, <2>9, <2>10 DEF InOrder
<1> QED
  BY <1>4, <1>9, <1>10, <1>12, <1>13 DEF Commits

\* One project is written, or deleted for ever.
LEMMA ProjectRowWritten ==
  ASSUME TypeOK, UniqueNames(folders), KeysExist(folders, projects), NEW p \in Projects, NEW row \in ProjectRow \union {NoRow},
         folders' = folders, projects' = [projects EXCEPT ![p] = row],
         row # NoRow => row.parent \in Stored \union {Root}
  PROVE  /\ RowsTyped' /\ UniqueNames(folders') /\ KeysExist(folders', projects') /\ Stored' = Stored
         /\ (/\ FoldersFormATree /\ LivePlaces
             /\ row # NoRow => IsLivePlace(row.parent)
             /\ row = NoRow => p \notin LiveProjects) => InOrder
<1>1. projects'[p] = row /\ \A q \in Projects \ {p} : projects'[q] = projects[q]
  BY DEF TypeOK
<1>2. RowsTyped'
  BY <1>1, RowKinds DEF RowsTyped
<1>3. Stored' = Stored /\ Live' = Live /\ ParentsStay(Stored)
  BY DEF Stored, Live, ParentsStay
<1>4. UniqueNames(folders') /\ KeysExist(folders', projects')
  BY <1>1 DEF KeysExist, Stored
<1>5. ASSUME FoldersFormATree, LivePlaces, row # NoRow => IsLivePlace(row.parent), row = NoRow => p \notin LiveProjects
      PROVE  InOrder
  <2>1. FoldersFormATree'
    BY <1>3, <1>5, NothingMoves
  <2>2. \A q \in LiveProjects' : projects'[q].parent = Root \/ projects'[q].parent \in Live
    BY <1>1, <1>5 DEF LivePlaces, IsLivePlace, LiveProjects, StoredProjects
  <2>3. LivePlaces'
    BY <1>3, <1>5, <2>2 DEF LivePlaces, IsLivePlace
  <2>4. TakesOnlyTrash
    BY <1>1, <1>5, RowKinds DEF TakesOnlyTrash, Stored, StoredProjects
  <2> QED
    BY <2>1, <2>3, <2>4 DEF InOrder
<1> QED
  BY <1>2, <1>3, <1>4, <1>5

\* A project is created, or moved to another folder.
LEMMA WrittenProject ==
  ASSUME TypeOK, UniqueNames(folders), KeysExist(folders, projects), NEW r \in Requests,
         op[r] \in Operation, WriteProject(r), ~Refuses(r)
  PROVE  Commits(r) /\ (Alright(r) => InOrder)
<1>0. op[r].kind \in {"create project", "move project"}
  BY DEF WriteProject, Writes
<1>1. PICK p \in Projects : p = op[r].item
  BY <1>0, OperationKinds
<1>2. PICK row \in ProjectRow : row = [parent |-> op[r].to, deleted |-> FALSE]
  BY <1>0, OperationKinds DEF ProjectRow
<1>3. /\ folders' = folders /\ projects' = [projects EXCEPT ![p] = row] /\ Return(r, "done")
      /\ KeysExist(folders', projects')
  BY <1>1, <1>2, Flushed DEF WriteProject
<1>4. row # NoRow /\ projects'[p] = row
  BY <1>3, RowKinds DEF TypeOK
<1>5. row.parent \in Stored \union {Root}
  BY <1>3, <1>4 DEF KeysExist, Stored
<1>6. ASSUME Alright(r)
      PROVE  FoldersFormATree /\ LivePlaces /\ IsLivePlace(row.parent)
  BY <1>0, <1>2, <1>6 DEF Alright, StillRight
<1> QED
  BY <1>3, <1>4, <1>5, <1>6, ProjectRowWritten DEF Commits

\* A project leaves the trash, or the database.
LEMMA WrittenFromTrash ==
  ASSUME TypeOK, UniqueNames(folders), KeysExist(folders, projects), NEW r \in Requests,
         op[r] \in Operation, RestoreProject(r) \/ PurgeProject(r), ~Refuses(r)
  PROVE  Commits(r) /\ (FoldersFormATree /\ LivePlaces => InOrder)
<1>0. op[r].kind \in {"restore project", "purge project"}
  BY DEF RestoreProject, PurgeProject, Checks
<1>1. PICK p \in Projects : p = op[r].item
  BY <1>0, OperationKinds
<1>2. CASE RestoreProject(r)
  <2>1. /\ p \in StoredProjects \ LiveProjects /\ folders' = folders /\ Return(r, "done")
        /\ projects' = [projects EXCEPT ![p] = [parent |-> RestoredPlace(projects[p].parent), deleted |-> FALSE]]
    BY <1>1, <1>2 DEF RestoreProject, Refuses, Answers, TypeOK
  <2>2. IsLivePlace(RestoredPlace(projects[p].parent))
    BY DEF RestoredPlace, IsLivePlace
  <2>3. RestoredPlace(projects[p].parent) \in Places
    BY <2>1, RowKinds DEF RestoredPlace, ProjectRow, Places
  <2>4. PICK row \in ProjectRow : row = [parent |-> RestoredPlace(projects[p].parent), deleted |-> FALSE]
    BY <2>3 DEF ProjectRow
  <2>5. IsLivePlace(row.parent) /\ row.parent \in Stored \union {Root} /\ row # NoRow
    BY <2>2, <2>4, RowKinds DEF IsLivePlace
  <2> QED
    BY <2>1, <2>4, <2>5, ProjectRowWritten DEF Commits
<1>3. CASE PurgeProject(r)
  <2>1. /\ p \in StoredProjects \ LiveProjects /\ folders' = folders /\ Return(r, "done")
        /\ projects' = [projects EXCEPT ![p] = NoRow]
    BY <1>1, <1>3 DEF PurgeProject, Refuses, Answers
  <2> QED
    BY <2>1, ProjectRowWritten DEF Commits
<1> QED
  BY <1>2, <1>3

-----------------------------------------------------------------------------
(***************************************************************************)
(* The invariant                                                           *)
(***************************************************************************)
\* Every step but the begin of a request refuses it, decides what to write or commits.
LEMMA StepKinds ==
  ASSUME IInv, NEW r \in Requests,
         \/ CheckCreate(r) \/ WriteCreate(r) \/ CheckUpdate(r) \/ WriteUpdate(r)
         \/ CheckTrash(r) \/ WriteTrash(r) \/ CheckReparent(r) \/ WriteReparent(r) \/ DeleteEmpty(r)
         \/ CheckRestore(r) \/ WriteRestore(r) \/ CheckPurge(r) \/ WritePurge(r)
         \/ CheckProject(r) \/ WriteProject(r) \/ DuplicateProject(r)
         \/ TrashProject(r) \/ RestoreProject(r) \/ PurgeProject(r)
         \/ AbortDeadlock(r)
  PROVE  /\ pc[r] # "idle" /\ op[r] \in Operation
         /\ Refuses(r) \/ Decides(r) \/ (Commits(r) /\ (OneAfterTheOther => InOrder))
<1>1. TypeOK /\ ShapeInv /\ UniqueNames(folders) /\ KeysExist(folders, projects)
  BY DEF IInv
<1>2. pc[r] # "idle"
  BY DEF CheckCreate, WriteCreate, CheckUpdate, WriteUpdate, CheckTrash, WriteTrash, CheckReparent, WriteReparent,
         DeleteEmpty, CheckRestore, WriteRestore, CheckPurge, WritePurge, CheckProject, WriteProject,
         DuplicateProject, TrashProject, RestoreProject, PurgeProject, AbortDeadlock, Checks, Writes
<1>3. op[r] \in Operation
  BY <1>1, <1>2 DEF ShapeInv
<1>4. OneAfterTheOther => FoldersFormATree /\ LivePlaces
  BY DEF IInv, SoloInv
<1>5. OneAfterTheOther /\ pc[r] = "checked" => Alright(r)
  BY <1>4 DEF IInv, SoloInv, Alright
<1>6. CASE CheckCreate(r) \/ CheckProject(r)
  BY <1>1, <1>2, <1>3, <1>6, CheckedPlaces
<1>7. CASE CheckUpdate(r)
  BY <1>1, <1>2, <1>3, <1>7, CheckedUpdate
<1>8. CASE CheckTrash(r) \/ CheckReparent(r)
  BY <1>1, <1>2, <1>3, <1>8, CheckedTrash
<1>9. CASE CheckRestore(r) \/ CheckPurge(r)
  BY <1>1, <1>2, <1>3, <1>9, CheckedRestore
<1>10. CASE WriteCreate(r)
  BY <1>1, <1>2, <1>3, <1>5, <1>10, WrittenCreate DEF WriteCreate, Writes
<1>11. CASE WriteUpdate(r)
  BY <1>1, <1>2, <1>3, <1>5, <1>11, WrittenUpdate DEF WriteUpdate, Writes
<1>12. CASE WriteTrash(r)
  BY <1>1, <1>2, <1>3, <1>5, <1>12, WrittenTrash DEF WriteTrash, Writes
<1>13. CASE WriteReparent(r)
  BY <1>1, <1>2, <1>3, <1>5, <1>13, WrittenReparent DEF WriteReparent, Writes
<1>14. CASE WriteRestore(r)
  BY <1>1, <1>2, <1>3, <1>5, <1>14, WrittenRestore DEF WriteRestore, Writes
<1>15. CASE WritePurge(r)
  BY <1>1, <1>2, <1>3, <1>5, <1>15, WrittenPurge DEF WritePurge, Writes
<1>16. CASE WriteProject(r)
  BY <1>1, <1>2, <1>3, <1>5, <1>16, WrittenProject DEF WriteProject, Writes
<1>17. CASE DeleteEmpty(r) \/ TrashProject(r)
  BY <1>1, <1>2, <1>3, <1>4, <1>17, WrittenAtOnce
<1>18. CASE RestoreProject(r) \/ PurgeProject(r)
  BY <1>1, <1>2, <1>3, <1>4, <1>18, WrittenFromTrash
<1>19. CASE DuplicateProject(r) \/ AbortDeadlock(r)
  BY <1>2, <1>3, <1>19 DEF DuplicateProject, AbortDeadlock, Refuses, Answers
<1> QED
  BY <1>6, <1>7, <1>8, <1>9, <1>10, <1>11, <1>12, <1>13, <1>14, <1>15, <1>16, <1>17, <1>18, <1>19

\* The end of a request leaves the invariant, if it leaves the rows in order.
LEMMA EndKeepsInvariant ==
  ASSUME IInv, NEW r \in Requests, pc[r] # "idle", NEW a \in Answers, Return(r, a), RowsTyped',
         UniqueNames(folders'), KeysExist(folders', projects'),
         \A f \in Stored' \ Stored : Creating(r) /\ f = op[r].item,
         OneAfterTheOther => FoldersFormATree' /\ LivePlaces'
  PROVE  IInv'
<1>1. TypeOK' /\ ShapeInv'
  BY ReturnKeepsShape DEF IInv
<1>2. OneAfterTheOther' <=> OneAfterTheOther
  BY DEF OneAfterTheOther, Return
<1>3. ASSUME OneAfterTheOther
      PROVE  \A s \in Requests : pc'[s] = "idle"
  <2>1. \A s \in Requests \ {r} : pc[s] = "idle"
    BY <1>3, Alone DEF IInv
  <2> QED
    BY <2>1 DEF Return, IInv, TypeOK
<1>4. OneAfterTheOther' => SoloInv'
  BY <1>2, <1>3 DEF SoloInv
<1> QED
  BY <1>1, <1>4 DEF IInv

\* A step that writes nothing leaves it, if what was decided is right.
LEMMA SilenceKeepsInvariant ==
  ASSUME IInv, TypeOK', ShapeInv', UNCHANGED <<folders, projects, clients>>,
         \A s \in Requests : pc'[s] = "checked" => StillRight(op'[s], seen'[s])
                                                     \/ (pc[s] = "checked" /\ op'[s] = op[s] /\ seen'[s] = seen[s])
  PROVE  IInv'
<1>1. Stored' = Stored /\ Live' = Live /\ LiveProjects' = LiveProjects /\ ParentsStay(Stored)
  BY DecisionsStay DEF ParentsStay
<1>2. UniqueNames(folders)' /\ KeysExist(folders, projects)'
  BY DEF IInv, UniqueNames, KeysExist
<1>3. OneAfterTheOther' <=> OneAfterTheOther
  BY DEF OneAfterTheOther
<1>4. ASSUME OneAfterTheOther
      PROVE  SoloInv'
  <2>1. FoldersFormATree' /\ LivePlaces'
    BY <1>1, <1>4, NothingMoves DEF IInv, SoloInv, LivePlaces, IsLivePlace
  <2>2. ASSUME NEW s \in Requests, pc'[s] = "checked"
        PROVE  StillRight(op[s], seen[s])'
    <3>1. PICK o : o = op'[s]
      OBVIOUS
    <3>2. PICK d : d = seen'[s]
      OBVIOUS
    <3>3. StillRight(o, d)
      BY <1>4, <2>2, <3>1, <3>2 DEF IInv, SoloInv
    <3>4. StillRight(o, d)'
      BY <3>3, DecisionsStay
    <3> QED
      BY <3>1, <3>2, <3>4 DEF StillRight
  <2> QED
    BY <2>1, <2>2 DEF SoloInv
<1> QED
  BY <1>2, <1>3, <1>4 DEF IInv

\* The invariant holds at first.
LEMMA InitInvariant == Init => IInv
<1> SUFFICES ASSUME Init
             PROVE  IInv
  OBVIOUS
<1>1. Stored = {} /\ Live = {} /\ StoredProjects = {} /\ LiveProjects = {}
  BY DEF Init, Stored, Live, StoredProjects, LiveProjects
<1>2. TypeOK
  BY DEF Init, TypeOK, Nothing, Places
<1>3. ShapeInv
  BY DEF Init, ShapeInv, Creating
<1>4. UniqueNames(folders) /\ KeysExist(folders, projects)
  BY <1>1 DEF UniqueNames, KeysExist, Stored, StoredProjects
<1>5. SoloInv
  <2>1. FoldersFormATree
    BY <1>1, TreeForm DEF AllBelowRoot
  <2> QED
    BY <1>1, <2>1 DEF SoloInv, LivePlaces, Init
<1> QED
  BY <1>2, <1>3, <1>4, <1>5 DEF IInv

\* No step leaves the invariant, and a request that is alone takes only trash away.
LEMMA NextInvariant == IInv /\ [Next]_vars => IInv' /\ (OneAfterTheOther => TakesOnlyTrash)
<1> SUFFICES ASSUME IInv, [Next]_vars
             PROVE  IInv' /\ (OneAfterTheOther => TakesOnlyTrash)
  OBVIOUS
<1>1. TypeOK /\ ShapeInv /\ UniqueNames(folders) /\ KeysExist(folders, projects)
  BY DEF IInv
<1>2. UNCHANGED <<folders, projects>> => TakesOnlyTrash
  BY DEF TakesOnlyTrash, Live, Stored, LiveProjects, StoredProjects
<1>3. CASE UNCHANGED vars
  <2>1. TypeOK' /\ ShapeInv'
    <3>1. TypeOK'
      BY <1>1, <1>3 DEF vars, TypeOK
    <3>2. ShapeInv'
      BY <1>1, <1>3 DEF vars, ShapeInv, Creating, Stored
    <3> QED
      BY <3>1, <3>2
  <2> QED
    BY <1>2, <1>3, <2>1, SilenceKeepsInvariant DEF vars
<1>4. ASSUME NEW r \in Requests, NEW o \in Operation, Begin(r, o)
      PROVE  IInv' /\ TakesOnlyTrash
  <2>1. TypeOK' /\ ShapeInv'
    BY <1>1, <1>4, BeginKeepsShape
  <2>2. /\ UNCHANGED <<folders, projects, clients>>
        /\ \A s \in Requests : pc'[s] = "checked" => pc[s] = "checked" /\ op'[s] = op[s] /\ seen'[s] = seen[s]
    BY <1>1, <1>4 DEF Begin, TypeOK
  <2> QED
    BY <1>2, <2>1, <2>2, SilenceKeepsInvariant
<1>5. ASSUME NEW r \in Requests, pc[r] # "idle", Refuses(r)
      PROVE  IInv' /\ TakesOnlyTrash
  <2>1. PICK a \in Answers : Return(r, a) /\ UNCHANGED <<folders, projects, clients>>
    BY <1>5 DEF Refuses, Refuse, Return
  <2>2. TypeOK' /\ ShapeInv'
    <3>1. RowsTyped' /\ Stored' = Stored
      BY <1>1, <2>1, RowKinds, DecisionsStay DEF RowsTyped
    <3> QED
      BY <1>1, <2>1, <3>1, ReturnKeepsShape
  <2>3. \A s \in Requests : pc'[s] = "checked" => pc[s] = "checked" /\ op'[s] = op[s] /\ seen'[s] = seen[s]
    BY <1>1, <2>1 DEF Return, TypeOK
  <2> QED
    BY <1>2, <2>1, <2>2, <2>3, SilenceKeepsInvariant
<1>6. ASSUME NEW r \in Requests, Decides(r)
      PROVE  IInv' /\ TakesOnlyTrash
  <2>1. PICK d \in Decision :
          /\ pc[r] = "begun" /\ Decide(r, d) /\ StillRight(op[r], d)
          /\ op[r].kind = "update folder" => d.folders = {op[r].item}
          /\ op[r].kind = "reparent folder" => op[r].item \in d.folders
    BY <1>6 DEF Decides
  <2>2. TypeOK' /\ ShapeInv'
    BY <1>1, <2>1, DecideKeepsShape
  <2>3. /\ UNCHANGED <<folders, projects, clients, op>> /\ seen'[r] = d
        /\ \A s \in Requests \ {r} : pc'[s] = pc[s] /\ seen'[s] = seen[s]
    BY <1>1, <2>1 DEF Decide, TypeOK
  <2>4. StillRight(op'[r], seen'[r])
    BY <2>1, <2>3
  <2> QED
    BY <1>2, <2>2, <2>3, <2>4, SilenceKeepsInvariant
<1>7. ASSUME NEW r \in Requests, pc[r] # "idle", Commits(r), OneAfterTheOther => InOrder
      PROVE  IInv' /\ (OneAfterTheOther => TakesOnlyTrash)
  <2>1. "done" \in Answers
    BY DEF Answers
  <2> QED
    BY <1>7, <2>1, EndKeepsInvariant DEF Commits, InOrder
<1> QED
  BY <1>3, <1>4, <1>5, <1>6, <1>7, StepKinds DEF Next

-----------------------------------------------------------------------------
(***************************************************************************)
(* What a request that is alone is refused                                 *)
(***************************************************************************)
\* Names stay unique when those of the rows that are written are not taken.
LEMMA UniqueAround ==
  ASSUME UniqueNames(folders), NEW F, NEW N \in SUBSET Folders,
         \A g \in Folders \ N : F[g] = folders[g],
         \A g \in N, h \in Folders :
           F[g] # NoRow /\ F[h] # NoRow /\ ~F[g].deleted /\ ~F[h].deleted
             /\ F[g].parent = F[h].parent /\ F[g].name = F[h].name => g = h
  PROVE  UniqueNames(F)
BY DEF UniqueNames

\* Keys exist when no row is taken away and each is put in a place there is.
LEMMA KeysAround ==
  ASSUME NEW F, NEW P, \A g \in Stored : F[g] # NoRow,
         \A g \in Folders : F[g] # NoRow => F[g].parent \in Stored \union {Root},
         \A p \in Projects : P[p] # NoRow => P[p].parent \in Stored \union {Root}
  PROVE  KeysExist(F, P)
BY DEF KeysExist, Stored

\* Then the flush does not fail.
LEMMA FlushedAlone ==
  ASSUME NEW r, NEW F, NEW P, FlushOrFail(r, F, P), UniqueNames(F), KeysExist(F, P),
         seen[r].folders \subseteq Stored, seen[r].projects \subseteq StoredProjects
  PROVE  answer' = "done"
BY DEF FlushOrFail, Flush, FlushFails, Return

\* Where rows are.
LEMMA PlacesExist ==
  ASSUME TypeOK, KeysExist(folders, projects)
  PROVE  /\ \A g \in Stored : folders[g].parent \in Stored \union {Root}
         /\ \A p \in StoredProjects : projects[p].parent \in Stored \union {Root}
BY RowKinds DEF KeysExist, Stored, StoredProjects

\* In a request that is right the rows it writes are there.
LEMMA RowsAreThere ==
  ASSUME NEW r, Alright(r)
  PROVE  seen[r].folders \subseteq Stored /\ seen[r].projects \subseteq StoredProjects
BY DEF Alright, StillRight, StillFree

\* What a request needs not to be refused by an index or a key.
Ready(r) ==
  /\ TypeOK /\ ShapeInv /\ UniqueNames(folders) /\ KeysExist(folders, projects)
  /\ pc[r] = "checked" /\ op[r] \in Operation /\ Alright(r)

\* create_folder has found the name free.
LEMMA CreatePasses ==
  ASSUME NEW r \in Requests, Ready(r), WriteCreate(r)
  PROVE  answer' = "done"
<1> DEFINE row == [parent |-> op[r].to, name |-> op[r].name, deleted |-> FALSE]
<1>0. op[r].kind = "create folder" /\ pc[r] = "checked"
  BY DEF WriteCreate, Writes
<1>1. PICK f \in Folders : f = op[r].item
  BY <1>0, OperationKinds DEF Ready
<1>2. f \notin Stored /\ row \in FolderRow
  BY <1>0, <1>1, OperationKinds DEF Ready, ShapeInv, Creating, FolderRow
<1>3. IsLivePlace(op[r].to) /\ ~Taken(op[r].to, op[r].name, {})
  BY <1>0 DEF Ready, Alright, StillRight, StillFree
<1> DEFINE F == [folders EXCEPT ![f] = row]
<1>4. FlushOrFail(r, F, projects)
  BY <1>1 DEF WriteCreate
<1>5. F[f] = row /\ \A g \in Folders \ {f} : F[g] = folders[g]
  BY DEF Ready, TypeOK
<1> HIDE DEF F
<1>6. UniqueNames(F)
  <2>1. ASSUME NEW h \in Folders \ {f}, F[h] # NoRow, ~F[h].deleted, F[h].parent = op[r].to, F[h].name = op[r].name
        PROVE  FALSE
    BY <1>3, <1>5, <2>1 DEF Taken, Live, Stored
  <2>2. \A h \in Folders :
          F[h] # NoRow /\ ~F[h].deleted /\ F[f].parent = F[h].parent /\ F[f].name = F[h].name => f = h
    BY <1>5, <2>1
  <2>3. /\ {f} \in SUBSET Folders /\ \A g \in Folders \ {f} : F[g] = folders[g]
        /\ \A g \in {f}, h \in Folders :
             F[g] # NoRow /\ F[h] # NoRow /\ ~F[g].deleted /\ ~F[h].deleted
               /\ F[g].parent = F[h].parent /\ F[g].name = F[h].name => g = h
    BY <1>5, <2>2
  <2>4. UniqueNames(folders)
    BY DEF Ready
  <2> QED
    BY <2>3, <2>4, UniqueAround
<1>7. KeysExist(F, projects)
  <2>1. op[r].to \in Stored \union {Root}
    BY <1>3, RowKinds DEF IsLivePlace, Ready
  <2>2. \A g \in Folders : F[g] # NoRow => F[g].parent \in Stored \union {Root}
    BY <1>5, <2>1, PlacesExist DEF Ready, Stored
  <2>3. \A g \in Stored : F[g] # NoRow
    BY <1>2, <1>5, RowKinds DEF Ready, Stored
  <2>4. \A p \in Projects : projects[p] # NoRow => projects[p].parent \in Stored \union {Root}
    BY PlacesExist DEF Ready, StoredProjects
  <2> QED
    BY <2>2, <2>3, <2>4, KeysAround
<1> QED
  BY <1>4, <1>6, <1>7, FlushedAlone, RowsAreThere DEF Ready

\* update_folder too, in the place where the folder comes.
LEMMA UpdatePasses ==
  ASSUME NEW r \in Requests, Ready(r), WriteUpdate(r)
  PROVE  answer' = "done"
<1>0. op[r].kind = "update folder" /\ pc[r] = "checked"
  BY DEF WriteUpdate, Writes
<1>1. PICK f \in Folders : f = op[r].item
  BY <1>0, OperationKinds DEF Ready
<1>2. PICK to \in Places : to = seen[r].parent
  BY DEF Ready, TypeOK
<1>3. PICK name \in Names : name = op[r].name
  BY <1>0, OperationKinds DEF Ready
<1>4. f \in Stored /\ folders[f] \in FolderRow /\ folders[f] # NoRow
  <2>1. seen[r].folders = {f}
    BY <1>0, <1>1 DEF Ready, ShapeInv
  <2>2. f \in Stored
    BY <2>1, RowsAreThere DEF Ready
  <2> QED
    BY <2>2, RowKinds DEF Ready, Stored
<1>5. /\ to = folders[f].parent \/ IsLivePlace(to)
      /\ ~Taken(to, name, {f})
  BY <1>0, <1>1, <1>2, <1>3 DEF Ready, Alright, StillRight, StillFree
<1> DEFINE F == [folders EXCEPT ![f].name = name, ![f].parent = to]
<1>6. FlushOrFail(r, F, projects)
  BY <1>1, <1>2, <1>3 DEF WriteUpdate
<1>7. /\ F[f].parent = to /\ F[f].name = name /\ F[f] # NoRow
      /\ \A g \in Folders \ {f} : F[g] = folders[g]
  <2>1. F[f] = [parent |-> to, name |-> name, deleted |-> folders[f].deleted]
    BY <1>4 DEF Ready, TypeOK, FolderRow
  <2>2. F[f] \in FolderRow
    BY <1>4, <2>1 DEF FolderRow
  <2>3. F[f] # NoRow
    BY <2>2, RowKinds DEF Ready
  <2> QED
    BY <2>1, <2>3 DEF Ready, TypeOK
<1> HIDE DEF F
<1>8. UniqueNames(F)
  <2>1. ASSUME NEW h \in Folders \ {f}, F[h] # NoRow, ~F[h].deleted, F[h].parent = to, F[h].name = name
        PROVE  FALSE
    BY <1>5, <1>7, <2>1 DEF Taken, Live, Stored
  <2>2. \A h \in Folders :
          F[h] # NoRow /\ ~F[h].deleted /\ F[f].parent = F[h].parent /\ F[f].name = F[h].name => f = h
    BY <1>7, <2>1
  <2>3. /\ {f} \in SUBSET Folders /\ \A g \in Folders \ {f} : F[g] = folders[g]
        /\ \A g \in {f}, h \in Folders :
             F[g] # NoRow /\ F[h] # NoRow /\ ~F[g].deleted /\ ~F[h].deleted
               /\ F[g].parent = F[h].parent /\ F[g].name = F[h].name => g = h
    BY <1>7, <2>2
  <2>4. UniqueNames(folders)
    BY DEF Ready
  <2> QED
    BY <2>3, <2>4, UniqueAround
<1>9. KeysExist(F, projects)
  <2>1. to \in Stored \union {Root}
    BY <1>4, <1>5, RowKinds, PlacesExist DEF IsLivePlace, Ready
  <2>2. \A g \in Folders : F[g] # NoRow => F[g].parent \in Stored \union {Root}
    BY <1>7, <2>1, PlacesExist DEF Ready, Stored
  <2>3. \A g \in Stored : F[g] # NoRow
    BY <1>7 DEF Stored
  <2>4. \A p \in Projects : projects[p] # NoRow => projects[p].parent \in Stored \union {Root}
    BY PlacesExist DEF Ready, StoredProjects
  <2> QED
    BY <2>2, <2>3, <2>4, KeysAround
<1> QED
  BY <1>6, <1>8, <1>9, FlushedAlone, RowsAreThere DEF Ready

\* A folder may be put into the trash with its content whatever it is called.
LEMMA TrashPasses ==
  ASSUME NEW r \in Requests, Ready(r), WriteTrash(r)
  PROVE  answer' = "done"
<1>1. PICK S \in SUBSET Folders : S = seen[r].folders
  BY DEF Ready, TypeOK
<1>2. PICK Q \in SUBSET Projects : Q = seen[r].projects
  BY DEF Ready, TypeOK
<1> DEFINE F == Trashed(S)
           P == TrashedProjects(Q)
<1>3. FlushOrFail(r, F, P)
  BY <1>1, <1>2 DEF WriteTrash
<1>4. ASSUME NEW g \in Folders
      PROVE  /\ g \notin Stored => F[g] = NoRow
             /\ g \in Stored => /\ F[g] # NoRow
                                /\ F[g].parent = folders[g].parent /\ F[g].name = folders[g].name
                                /\ ~F[g].deleted => ~folders[g].deleted
  <2>1. CASE g \notin Stored
    BY <2>1 DEF Trashed, Stored
  <2>2. CASE g \in Stored
    <3>1. folders[g] \in FolderRow
      BY <2>2, RowKinds DEF Ready
    <3>2. F[g] = IF g \in S THEN [folders[g] EXCEPT !.deleted = TRUE] ELSE folders[g]
      BY <2>2 DEF Trashed
    <3>3. F[g] \in FolderRow
      BY <3>1, <3>2 DEF FolderRow
    <3>4. F[g] # NoRow
      BY <3>3, RowKinds DEF Ready
    <3> QED
      BY <2>2, <3>1, <3>2, <3>4 DEF FolderRow
  <2> QED
    BY <2>1, <2>2
<1>5. ASSUME NEW p \in Projects
      PROVE  /\ p \notin StoredProjects => P[p] = NoRow
             /\ p \in StoredProjects => P[p].parent = projects[p].parent
  <2>1. CASE p \notin StoredProjects
    BY <2>1 DEF TrashedProjects, StoredProjects
  <2>2. CASE p \in StoredProjects
    <3>1. projects[p] \in ProjectRow
      BY <2>2, RowKinds DEF Ready
    <3>2. P[p] = IF p \in Q THEN [projects[p] EXCEPT !.deleted = TRUE] ELSE projects[p]
      BY <2>2 DEF TrashedProjects
    <3> QED
      BY <2>2, <3>1, <3>2 DEF ProjectRow
  <2> QED
    BY <2>1, <2>2
<1> HIDE DEF F, P
<1>6. UniqueNames(F)
  BY <1>4 DEF Ready, UniqueNames, Stored
<1>7. KeysExist(F, P)
  <2>1. \A g \in Folders : F[g] # NoRow => F[g].parent \in Stored \union {Root}
    BY <1>4, PlacesExist DEF Ready
  <2>2. \A g \in Stored : F[g] # NoRow
    BY <1>4, RowKinds DEF Ready
  <2>3. \A p \in Projects : P[p] # NoRow => P[p].parent \in Stored \union {Root}
    BY <1>5, PlacesExist DEF Ready
  <2> QED
    BY <2>1, <2>2, <2>3, KeysAround
<1> QED
  BY <1>3, <1>6, <1>7, FlushedAlone, RowsAreThere DEF Ready

\* Children that move up are refused only what has the name of the folder that goes.
LEMMA ReparentPasses ==
  ASSUME NEW r \in Requests, Ready(r), WriteReparent(r)
  PROVE  answer' = "done" \/ SelfConflict(op[r])
<1>0. op[r].kind = "reparent folder" /\ pc[r] = "checked"
  BY DEF WriteReparent, Writes
<1>1. PICK f \in Folders : f = op[r].item
  BY <1>0, OperationKinds DEF Ready
<1>2. PICK S \in SUBSET Folders : S = seen[r].folders
  BY DEF Ready, TypeOK
<1>3. PICK Q \in SUBSET Projects : Q = seen[r].projects
  BY DEF Ready, TypeOK
<1>4. PICK to \in Places : to = seen[r].parent
  BY DEF Ready, TypeOK
<1>5. /\ f \in Live /\ S = LiveChildren(f) \union {f} /\ to = folders[f].parent
      /\ \A g \in LiveChildren(f) : ~Taken(to, folders[g].name, {g, f})
      /\ FoldersFormATree /\ S \subseteq Stored /\ Q \subseteq StoredProjects
  BY <1>0, <1>1, <1>2, <1>3, <1>4 DEF Ready, Alright, StillRight, StillFree
<1> DEFINE F == [g \in Folders |->
                   IF g = f THEN [folders[f] EXCEPT !.deleted = TRUE]
                   ELSE IF g \in S /\ g \in Stored THEN [folders[g] EXCEPT !.parent = to] ELSE folders[g]]
           P == [p \in Projects |->
                   IF p \in Q /\ p \in StoredProjects THEN [projects[p] EXCEPT !.parent = to] ELSE projects[p]]
<1>6. CASE \E g \in (S \intersect Stored) \ {f} : folders[g].name = folders[f].name
  BY <1>0, <1>1, <1>5, <1>6 DEF SelfConflict
<1>7. CASE ~\E g \in (S \intersect Stored) \ {f} : folders[g].name = folders[f].name
  <2>1. FlushOrFail(r, F, P)
    BY <1>1, <1>2, <1>3, <1>4, <1>7 DEF WriteReparent
  <2>2. f \in Stored /\ to \in Stored \union {Root}
    BY <1>5, RowKinds, PlacesExist DEF Ready
  <2>3. \A g \in Folders \ Stored : F[g] = NoRow /\ g \notin S
    BY <1>5, <2>2 DEF Stored
  <2>4. ASSUME NEW g \in Stored
        PROVE  /\ F[g] # NoRow /\ F[g].name = folders[g].name
               /\ F[g].parent = IF g \in LiveChildren(f) /\ g # f THEN to ELSE folders[g].parent
               /\ F[g].deleted = IF g = f THEN TRUE ELSE folders[g].deleted
    <3>1. g \in Folders /\ folders[g] \in FolderRow
      BY RowKinds DEF Ready
    <3>2. F[g] = IF g = f THEN [folders[g] EXCEPT !.deleted = TRUE]
                 ELSE IF g \in LiveChildren(f) THEN [folders[g] EXCEPT !.parent = to] ELSE folders[g]
      BY <1>5, <3>1
    <3>3. F[g] \in FolderRow
      BY <3>1, <3>2 DEF FolderRow
    <3>4. F[g] # NoRow
      BY <3>3, RowKinds DEF Ready
    <3> QED
      BY <3>1, <3>2, <3>4 DEF FolderRow
  <2>5. ASSUME NEW p \in Projects, P[p] # NoRow
        PROVE  P[p].parent \in Stored \union {Root}
    <3>1. p \in StoredProjects
      BY <2>5 DEF StoredProjects
    <3>2. projects[p] \in ProjectRow
      BY <3>1, RowKinds DEF Ready
    <3>3. P[p].parent = IF p \in Q THEN to ELSE projects[p].parent
      BY <3>1, <3>2 DEF ProjectRow
    <3> QED
      BY <2>2, <3>1, <3>3, PlacesExist DEF Ready
  <2> HIDE DEF F, P
  <2>6. ASSUME NEW g \in LiveChildren(f), g # f, NEW h \in Folders,
               F[h] # NoRow, ~F[h].deleted, F[g].parent = F[h].parent, F[g].name = F[h].name
        PROVE  g = h
    <3>1. /\ g \in Live /\ g \in Stored /\ folders[g].parent = f /\ F[g].parent = to
          /\ h \in Stored /\ h # f /\ ~folders[h].deleted /\ folders[h].name = folders[g].name
      BY <2>3, <2>4, <2>6, RowKinds DEF LiveChildren, Ready
    <3>2. h \in Live
      BY <3>1 DEF Live
    <3>3. CASE h \in LiveChildren(f)
      BY <3>1, <3>2, <3>3 DEF Ready, UniqueNames, LiveChildren, Live, Stored
    <3>4. CASE h \notin LiveChildren(f)
      <4>1. folders[h].parent = to
        BY <2>4, <2>6, <3>1, <3>4
      <4> QED
        BY <1>5, <2>6, <3>1, <3>2, <4>1 DEF Taken
    <3> QED
      BY <3>3, <3>4
  <2>7. ASSUME NEW g \in Folders, NEW h \in Folders, F[g] # NoRow, F[h] # NoRow, ~F[g].deleted, ~F[h].deleted,
               F[g].parent = F[h].parent, F[g].name = F[h].name
        PROVE  g = h
    <3>1. /\ g \in Stored /\ h \in Stored /\ g # f /\ h # f
          /\ ~folders[g].deleted /\ ~folders[h].deleted /\ folders[g].name = folders[h].name
      BY <2>3, <2>4, <2>7
    <3>2. CASE g \in LiveChildren(f)
      BY <2>6, <2>7, <3>1, <3>2
    <3>3. CASE h \in LiveChildren(f)
      BY <2>6, <2>7, <3>1, <3>3
    <3>4. CASE g \notin LiveChildren(f) /\ h \notin LiveChildren(f)
      BY <2>4, <2>7, <3>1, <3>4 DEF Ready, UniqueNames, Stored
    <3> QED
      BY <3>2, <3>3, <3>4
  <2>8. UniqueNames(F)
    BY <2>7 DEF UniqueNames
  <2>9. KeysExist(F, P)
    <3>1. \A g \in Folders : F[g] # NoRow => F[g].parent \in Stored \union {Root}
      BY <2>2, <2>3, <2>4, PlacesExist DEF Ready
    <3> QED
      BY <2>4, <2>5, <3>1, KeysAround
  <2> QED
    BY <2>1, <2>8, <2>9, FlushedAlone, RowsAreThere DEF Ready
<1> QED
  BY <1>6, <1>7

\* What comes out of the trash is refused only what two of its folders have in common.
LEMMA RestorePasses ==
  ASSUME NEW r \in Requests, Ready(r), WriteRestore(r)
  PROVE  answer' = "done" \/ SelfConflict(op[r])
<1>0. op[r].kind = "restore folder"
  BY DEF WriteRestore, Writes
<1>1. PICK f \in Folders : f = op[r].item
  BY <1>0, OperationKinds DEF Ready
<1>2. PICK S \in SUBSET Folders : S = seen[r].folders
  BY DEF Ready, TypeOK
<1>3. PICK Q \in SUBSET Projects : Q = seen[r].projects
  BY DEF Ready, TypeOK
<1>4. PICK to \in Places : to = seen[r].parent
  BY DEF Ready, TypeOK
<1> DEFINE F == [g \in Folders |->
                   IF g \in S /\ g \in Stored
                   THEN [folders[g] EXCEPT !.deleted = FALSE, !.parent = IF g = f THEN to ELSE @]
                   ELSE folders[g]]
           P == [p \in Projects |->
                   IF p \in Q /\ p \in StoredProjects THEN [projects[p] EXCEPT !.deleted = FALSE] ELSE projects[p]]
           T == Subtree(f, Stored)
           place(g) == IF g = f THEN to ELSE folders[g].parent
<1>5. /\ f \in Stored \ Live /\ S = T \ Live /\ (to = Root \/ to \in Live)
      /\ \A g \in S : ~Taken(place(g), folders[g].name, T)
      /\ LivePlaces /\ S \subseteq Stored /\ Q \subseteq StoredProjects
  BY <1>0, <1>1, <1>2, <1>3, <1>4 DEF Ready, Alright, StillRight, StillFree, IsLivePlace
<1>6. f \in T /\ T \subseteq Stored /\ \A g \in T \ {f} : folders[g].parent \in T
  BY <1>5, SubtreeIsClosed, SubtreeHasParents
<1>7. T \intersect Live = {}
  <2>1. \A g \in Live : folders[g].parent = Root \/ folders[g].parent \in Live
    BY <1>5 DEF LivePlaces, IsLivePlace
  <2>2. WithChildren(Stored \ Live, Stored)
    BY <2>1, RowKinds DEF WithChildren, Ready
  <2>3. T \subseteq Stored \ Live
    BY <1>5, <2>2, SubtreeIsLeast
  <2> QED
    BY <2>3
<1>8. to \notin T /\ S = T
  BY <1>5, <1>6, <1>7, RowKinds DEF Ready
<1>9. FlushOrFail(r, F, P)
  BY <1>1, <1>2, <1>3, <1>4 DEF WriteRestore
<1>10. \A g \in Folders \ Stored : F[g] = NoRow
  BY DEF Stored
<1>11. ASSUME NEW g \in Stored
       PROVE  /\ F[g] # NoRow /\ F[g].name = folders[g].name
              /\ F[g].parent = place(g)
              /\ F[g].deleted = IF g \in S THEN FALSE ELSE folders[g].deleted
  <2>1. g \in Folders /\ folders[g] \in FolderRow
    BY RowKinds DEF Ready
  <2>2. F[g] = IF g \in S THEN [folders[g] EXCEPT !.deleted = FALSE, !.parent = place(g)] ELSE folders[g]
    BY <2>1
  <2>3. g = f => g \in S
    BY <1>6, <1>8
  <2>4. folders[g].parent \in Places /\ place(g) \in Places
    BY <2>1 DEF FolderRow
  <2>5. F[g] \in FolderRow
    BY <2>1, <2>2, <2>4 DEF FolderRow
  <2>6. F[g] # NoRow
    BY <2>5, RowKinds DEF Ready
  <2> QED
    BY <2>1, <2>2, <2>3, <2>6 DEF FolderRow
<1>12. ASSUME NEW p \in Projects, P[p] # NoRow
       PROVE  P[p].parent \in Stored \union {Root}
  <2>1. p \in StoredProjects
    BY <1>12 DEF StoredProjects
  <2>2. projects[p] \in ProjectRow
    BY <2>1, RowKinds DEF Ready
  <2>3. P[p].parent = projects[p].parent
    BY <2>1, <2>2 DEF ProjectRow
  <2> QED
    BY <2>1, <2>3, PlacesExist DEF Ready
<1> HIDE DEF F, P, T
<1>13. KeysExist(F, P)
  <2>1. to \in Stored \union {Root}
    BY <1>5, RowKinds DEF Ready
  <2>2. \A g \in Folders : F[g] # NoRow => F[g].parent \in Stored \union {Root}
    BY <1>10, <1>11, <2>1, PlacesExist DEF Ready
  <2> QED
    BY <1>11, <1>12, <2>2, KeysAround
<1>14. CASE UniqueNames(F)
  BY <1>9, <1>13, <1>14, FlushedAlone, RowsAreThere DEF Ready
<1>15. CASE ~UniqueNames(F)
  <2>1. PICK g \in Folders, h \in Folders :
          /\ F[g] # NoRow /\ F[h] # NoRow /\ ~F[g].deleted /\ ~F[h].deleted
          /\ F[g].parent = F[h].parent /\ F[g].name = F[h].name /\ g # h
    BY <1>15 DEF UniqueNames
  <2>2. g \in Stored /\ h \in Stored /\ folders[g].name = folders[h].name /\ place(g) = place(h)
    BY <1>10, <1>11, <2>1
  <2>3. ASSUME NEW x \in T, NEW y \in Stored \ T, ~F[y].deleted, place(x) = place(y),
               folders[x].name = folders[y].name
        PROVE  FALSE
    <3>1. y \in Live /\ y \notin T /\ folders[y].parent = place(x)
      BY <1>6, <1>8, <1>11, <2>3 DEF Live
    <3>2. Taken(place(x), folders[x].name, T)
      BY <2>3, <3>1 DEF Taken
    <3> QED
      BY <1>5, <1>8, <2>3, <3>2
  <2>4. g \in T /\ h \in T
    <3>1. CASE g \notin T /\ h \notin T
      <4>1. ~folders[g].deleted /\ ~folders[h].deleted /\ folders[g].parent = folders[h].parent
        BY <1>6, <1>8, <1>11, <2>1, <2>2, <3>1
      <4> QED
        BY <2>1, <2>2, <4>1 DEF Ready, UniqueNames, Stored
    <3> QED
      BY <2>1, <2>2, <2>3, <3>1
  <2>5. g # f /\ h # f
    BY <1>6, <1>8, <2>1, <2>2, <2>4
  <2> QED
    BY <1>0, <1>1, <2>1, <2>2, <2>4, <2>5 DEF SelfConflict, T
<1> QED
  BY <1>14, <1>15

\* Nothing that stays was below what is deleted for ever.
LEMMA PurgePasses ==
  ASSUME NEW r \in Requests, Ready(r), WritePurge(r)
  PROVE  answer' = "done"
<1>0. op[r].kind = "purge folder"
  BY DEF WritePurge, Writes
<1>1. PICK f \in Folders : f = op[r].item
  BY <1>0, OperationKinds DEF Ready
<1>2. PICK S \in SUBSET Folders : S = seen[r].folders
  BY DEF Ready, TypeOK
<1>3. S = Subtree(f, Stored)
  BY <1>0, <1>1, <1>2 DEF Ready, Alright, StillRight
<1> DEFINE F == [g \in Folders |-> IF g \in S THEN NoRow ELSE Detached(folders[g], S)]
<1>4. \A g \in Folders : folders[g] # NoRow /\ g \notin S => F[g] = folders[g]
  <2>1. WithChildren(S, Stored)
    BY <1>3, SubtreeIsClosed
  <2> QED
    BY <2>1 DEF WithChildren, Detached, Stored
<1>5. \A g \in Folders : folders[g] = NoRow \/ g \in S => F[g] = NoRow
  BY DEF Detached
<1> HIDE DEF F
<1>6. UniqueNames(F)
  BY <1>4, <1>5 DEF Ready, UniqueNames
<1>7. UniqueNames(F) => answer' = "done"
  BY <1>2 DEF WritePurge, Return, F
<1> QED
  BY <1>6, <1>7

\* A project comes into a live folder, and a new one has an id that is free.
LEMMA ProjectPasses ==
  ASSUME NEW r \in Requests, Ready(r), WriteProject(r) \/ DuplicateProject(r)
  PROVE  answer' = "done"
<1>0. op[r].kind \in {"create project", "move project"}
  BY DEF WriteProject, DuplicateProject, Writes
<1>1. PICK p \in Projects : p = op[r].item
  BY <1>0, OperationKinds DEF Ready
<1>2. /\ IsLivePlace(op[r].to) /\ WriteProject(r)
  BY <1>0 DEF Ready, Alright, StillRight, StillFree, DuplicateProject, Writes
<1> DEFINE row == [parent |-> op[r].to, deleted |-> FALSE]
           P == [projects EXCEPT ![p] = row]
<1>3. FlushOrFail(r, folders, P)
  BY <1>1, <1>2 DEF WriteProject
<1>4. P[p] = row /\ \A q \in Projects \ {p} : P[q] = projects[q]
  BY DEF Ready, TypeOK
<1> HIDE DEF P
<1>5. KeysExist(folders, P)
  <2>1. op[r].to \in Stored \union {Root}
    BY <1>2, RowKinds DEF IsLivePlace, Ready
  <2>2. \A q \in Projects : P[q] # NoRow => P[q].parent \in Stored \union {Root}
    BY <1>4, <2>1, PlacesExist DEF Ready, StoredProjects
  <2>3. \A g \in Folders : folders[g] # NoRow => folders[g].parent \in Stored \union {Root}
    BY PlacesExist DEF Ready, Stored
  <2>4. \A g \in Stored : folders[g] # NoRow
    BY DEF Stored
  <2> QED
    BY <2>2, <2>3, <2>4, KeysAround
<1> QED
  BY <1>3, <1>5, FlushedAlone, RowsAreThere DEF Ready

\* All that is told concurrent_update_conflict is about the request itself.
LEMMA AloneInTheWay ==
  IInv /\ [Next]_vars =>
    [OneAfterTheOther /\ answer' = "concurrent update conflict" =>
       \E r \in Requests : pc[r] = "checked" /\ pc'[r] = "idle" /\ SelfConflict(op[r])]_vars
<1> SUFFICES ASSUME IInv, Next, OneAfterTheOther, answer' = "concurrent update conflict"
             PROVE  \E r \in Requests : pc[r] = "checked" /\ pc'[r] = "idle" /\ SelfConflict(op[r])
  OBVIOUS
<1>1. PICK r \in Requests :
        /\ \/ WriteCreate(r) \/ WriteUpdate(r) \/ WriteTrash(r) \/ WriteReparent(r)
           \/ WriteRestore(r) \/ WritePurge(r) \/ WriteProject(r) \/ DuplicateProject(r)
        /\ pc[r] = "checked"
        /\ \E a : Return(r, a)
  <2>1. PICK r \in Requests :
          \/ \E o \in Operation : Begin(r, o)
          \/ CheckCreate(r) \/ WriteCreate(r) \/ CheckUpdate(r) \/ WriteUpdate(r)
          \/ CheckTrash(r) \/ WriteTrash(r) \/ CheckReparent(r) \/ WriteReparent(r) \/ DeleteEmpty(r)
          \/ CheckRestore(r) \/ WriteRestore(r) \/ CheckPurge(r) \/ WritePurge(r)
          \/ CheckProject(r) \/ WriteProject(r) \/ DuplicateProject(r)
          \/ TrashProject(r) \/ RestoreProject(r) \/ PurgeProject(r)
          \/ AbortDeadlock(r)
    BY DEF Next
  <2>2. answer' \notin {"none", "done", "not found", "bad request", "folder conflict", "project conflict", "deadlock"}
    OBVIOUS
  <2>3. ~\E o \in Operation : Begin(r, o)
    BY <2>2 DEF Begin
  <2>4. ~(CheckCreate(r) \/ CheckUpdate(r) \/ CheckTrash(r) \/ CheckReparent(r) \/ DeleteEmpty(r) \/ CheckRestore(r)
          \/ CheckPurge(r) \/ CheckProject(r) \/ TrashProject(r) \/ RestoreProject(r) \/ PurgeProject(r))
    BY <2>2 DEF CheckCreate, CheckUpdate, CheckTrash, CheckReparent, DeleteEmpty, CheckRestore, CheckPurge, CheckProject,
                TrashProject, RestoreProject, PurgeProject, MissingFolder, Decide, Refuse, Return
  <2>5. ~AbortDeadlock(r)
    BY <2>2 DEF AbortDeadlock, Refuse, Return
  <2>6. PICK w \in {"create folder", "update folder", "trash folder", "reparent folder", "restore folder",
                    "purge folder", "create project", "move project"} : Writes(r, w)
    BY <2>1, <2>3, <2>4, <2>5
    DEF WriteCreate, WriteUpdate, WriteTrash, WriteReparent, WriteRestore, WritePurge, WriteProject, DuplicateProject
  <2>7. \E a : Return(r, a)
    BY <2>1, <2>3, <2>4, <2>5
    DEF WriteCreate, WriteUpdate, WriteTrash, WriteReparent, WriteRestore, WritePurge, WriteProject, DuplicateProject,
        FlushOrFail, Flush, FlushFails, Refuse
  <2> QED
    BY <2>1, <2>3, <2>4, <2>5, <2>6, <2>7 DEF Writes
<1>2. Ready(r)
  BY <1>1 DEF IInv, ShapeInv, SoloInv, Ready, Alright
<1>3. pc'[r] = "idle"
  BY <1>1 DEF Return, IInv, TypeOK
<1>4. answer' # "done"
  OBVIOUS
<1>5. SelfConflict(op[r])
  BY <1>1, <1>2, <1>4, CreatePasses, UpdatePasses, TrashPasses, ReparentPasses, RestorePasses, PurgePasses, ProjectPasses
<1> QED
  BY <1>1, <1>3, <1>5

-----------------------------------------------------------------------------
(***************************************************************************)
(* Theorems                                                                *)
(***************************************************************************)
\* Rows and requests have their types, names are unique and keys exist whoever writes, and
\* what a request decided alone is what it would decide when it writes.
THEOREM InductiveInvariant == Spec => []IInv
BY InitInvariant, NextInvariant, PTL DEF Spec

\* Requests that come one after the other never make a folder its own ancestor.
THEOREM FoldersStayATree == Spec => []TreeIfOneAfterTheOther
<1>1. IInv => TreeIfOneAfterTheOther
  BY DEF IInv, SoloInv, TreeIfOneAfterTheOther
<1> QED
  BY <1>1, InductiveInvariant, PTL

\* Nor do they leave a live folder or project in the trash.
THEOREM LivePlacesStay == Spec => []LivePlacesIfOneAfterTheOther
<1>1. IInv => LivePlacesIfOneAfterTheOther
  BY DEF IInv, SoloInv, LivePlacesIfOneAfterTheOther
<1> QED
  BY <1>1, InductiveInvariant, PTL

\* And what a permanent deletion takes was in the trash when it is taken.
THEOREM OnlyTrashIsPurged == Spec => PurgeIfOneAfterTheOther
<1>1. IInv /\ [Next]_vars => [OneAfterTheOther => TakesOnlyTrash]_vars
  BY NextInvariant
<1> QED
  BY <1>1, InductiveInvariant, PTL DEF Spec, PurgeIfOneAfterTheOther

\* And an index or a key refuses it only what it does to itself: whatever else they would
\* refuse, create_folder, update_folder, delete_folder, restore_folder, create_project and
\* update_project have found before they flush.
THEOREM OnlySelfConflicts == Spec => ConflictsIfOneAfterTheOther
BY AloneInTheWay, InductiveInvariant, PTL DEF Spec, ConflictsIfOneAfterTheOther
=============================================================================
