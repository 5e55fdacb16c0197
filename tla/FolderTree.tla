----------------------------- MODULE FolderTree -----------------------------
(***************************************************************************)
(* The folders of one user and the projects in them: modules/projects/     *)
(* folders.py, and the operations of service.py that put a project into a  *)
(* folder, the trash or nowhere.                                           *)
(*                                                                         *)
(* Each request is a READ COMMITTED transaction in at most two steps.      *)
(* Check locks the row of the request's own folder or project, if it has   *)
(* one, and reads whatever the request reads of the others, which it does  *)
(* not lock.  Write flushes what was decided then.  The rows it writes or  *)
(* refers to may be locked by others, who are waited for, and what was     *)
(* read of them may no longer hold.                                        *)
(*                                                                         *)
(* Once the folders contain a cycle, requests that walk over them are left *)
(* out: the walk of _assert_not_descendant does not end then, and the      *)
(* recursion of _folder_subtree fails.                                     *)
(***************************************************************************)
EXTENDS Integers, FiniteSets

CONSTANTS
  Folders, Projects,   \* ids of folders and projects
  Names,               \* names of folders
  Root,                \* no folder: the parent of the outermost ones
  Keep,                \* the update names no parent
  Requests,            \* requests that may be in progress at the same time
  Kinds,               \* the requests that are made
  MaxShared            \* bound on the folders while requests meet

ASSUME FoldersAssumption ==
  IsFiniteSet(Folders) /\ IsFiniteSet(Requests) /\ {Root, Keep} \intersect (Folders \union Projects) = {} /\ Root # Keep

VARIABLES
  folders,    \* committed rows of the folders
  projects,   \* committed rows of the projects
  pc,         \* "idle", "begun" or "checked"
  op,         \* what a request asks for
  seen,       \* what its Check decided to write
  clients,    \* requests that are made at the same time; never changes
  answer      \* how the last step answered its request, if it did

vars == <<folders, projects, pc, op, seen, clients, answer>>

Places == Folders \union {Root}
NoRow == [parent |-> Keep]

Operation ==
  [kind : {"create folder"}, item : Folders, name : Names, to : Places] \union
  [kind : {"update folder"}, item : Folders, name : Names, to : Places \union {Keep}] \union
  [kind : {"trash folder", "reparent folder", "delete folder", "restore folder", "purge folder"},
   item : Folders] \union
  [kind : {"create project", "move project"}, item : Projects, to : Places] \union
  [kind : {"trash project", "restore project", "purge project"}, item : Projects]
NoOperation == [kind |-> "none", item |-> Root]

\* The rows to write, and the place written into the one that moves.
Nothing == [folders |-> {}, projects |-> {}, parent |-> Root]

Stored == {f \in Folders : folders[f] # NoRow}
Live == {f \in Stored : ~folders[f].deleted}
StoredProjects == {p \in Projects : projects[p] # NoRow}
LiveProjects == {p \in StoredProjects : ~projects[p].deleted}
ProjectsIn(S) == {p \in StoredProjects : projects[p].parent \in S}

\* _folder_subtree: f and the folders of S that are reached from it downwards within S, which
\* is the least set that has f and the children in S of whatever it has.
WithChildren(X, S) == \A g \in S : folders[g].parent \in X => g \in X
Subtree(f, S) ==
  {g \in S \union {f} : \A X \in SUBSET (S \union {f}) : f \in X /\ WithChildren(X, S) => g \in X}

FoldersFormATree == Subtree(Root, Stored) = Stored \union {Root}

Init ==
  /\ folders = [f \in Folders |-> NoRow]
  /\ projects = [p \in Projects |-> NoRow]
  /\ pc = [r \in Requests |-> "idle"]
  /\ op = [r \in Requests |-> NoOperation]
  /\ seen = [r \in Requests |-> Nothing]
  /\ clients \in SUBSET Requests \ {{}}
  /\ answer = "none"

-----------------------------------------------------------------------------
\* The id of a new folder is a new UUID.
IsNewId(f) == f \notin Stored /\ \A r \in Requests : op[r].item # f

OneAfterTheOther == Cardinality(clients) = 1
Announced == {op[r].item : r \in {s \in Requests : op[s].kind = "create folder"}}
RoomForAFolder == OneAfterTheOther \/ Cardinality(Stored \union Announced) < MaxShared

Walks(o) == o.kind \in {"update folder", "trash folder", "restore folder", "purge folder"}

Begin(r, o) ==
  /\ pc[r] = "idle"
  /\ r \in clients
  /\ o.kind \in Kinds
  /\ Walks(o) => FoldersFormATree
  /\ o.kind = "create folder" => IsNewId(o.item) /\ RoomForAFolder
  /\ pc' = [pc EXCEPT ![r] = "begun"]
  /\ op' = [op EXCEPT ![r] = o]
  /\ answer' = "none"
  /\ UNCHANGED <<folders, projects, seen, clients>>

Return(r, a) ==
  /\ pc' = [pc EXCEPT ![r] = "idle"]
  /\ op' = [op EXCEPT ![r] = NoOperation]
  /\ seen' = [seen EXCEPT ![r] = Nothing]
  /\ answer' = a
  /\ UNCHANGED clients

Refuse(r, a) == Return(r, a) /\ UNCHANGED <<folders, projects>>

\* SELECT ... FOR UPDATE of the request's own row.
Creates(r) == op[r].kind \in {"create folder", "create project"}
Locked(r) == IF pc[r] = "checked" /\ ~Creates(r) THEN {op[r].item} ELSE {}
CanLock(r) == \A s \in Requests \ {r} : op[r].item \notin Locked(s)

Checks(r, kind) ==
  /\ pc[r] = "begun" /\ op[r].kind = kind
  /\ Creates(r) \/ CanLock(r)
  /\ Walks(op[r]) => FoldersFormATree

Decide(r, found) ==
  /\ pc' = [pc EXCEPT ![r] = "checked"]
  /\ seen' = [seen EXCEPT ![r] = found]
  /\ answer' = "none"
  /\ UNCHANGED <<folders, projects, op, clients>>

\* The flush waits for the rows it writes, and for those its foreign keys name.
Orphans(S) == {f \in Stored : folders[f].parent \in S} \union ProjectsIn(S)
Touches(r) ==
  seen[r].folders \union seen[r].projects \union {seen[r].parent}
    \union (IF op[r].kind = "purge folder" THEN Orphans(seen[r].folders) ELSE {})
BlockedBy(r) == {s \in Requests \ {r} : Locked(s) \intersect Touches(r) # {}}
Writes(r, kind) == pc[r] = "checked" /\ op[r].kind = kind /\ BlockedBy(r) = {}

\* The unique indexes on the names of live folders, and the foreign keys.
UniqueNames(F) ==
  \A f, g \in {h \in Folders : F[h] # NoRow} :
    ~F[f].deleted /\ ~F[g].deleted /\ F[f].parent = F[g].parent /\ F[f].name = F[g].name => f = g
KeysExist(F, P) ==
  LET places == {Root} \union {f \in Folders : F[f] # NoRow} IN
  /\ \A f \in places \ {Root} : F[f].parent \in places
  /\ \A p \in {q \in Projects : P[q] # NoRow} : P[p].parent \in places

\* A row to be updated that is gone, a key or an index make the flush fail.
Flush(r, F, P) ==
  /\ seen[r].folders \subseteq Stored /\ seen[r].projects \subseteq StoredProjects
  /\ UniqueNames(F) /\ KeysExist(F, P)
  /\ folders' = F /\ projects' = P
  /\ Return(r, "done")
FlushFails(r, F, P) ==
  /\ ~(/\ seen[r].folders \subseteq Stored /\ seen[r].projects \subseteq StoredProjects
       /\ UniqueNames(F) /\ KeysExist(F, P))
  /\ Refuse(r, "concurrent update conflict")
FlushOrFail(r, F, P) == Flush(r, F, P) \/ FlushFails(r, F, P)

\* load_optional_parent and load_folder: live, not locked.
IsLivePlace(x) == x = Root \/ x \in Live
(* Mutation: the parent is compared with =, which a NULL parent never is. *)
TakenBelowRoot(place, name, except) ==
  \E f \in Live \ except : place # Root /\ folders[f].parent = place /\ folders[f].name = name
\* _assert_unique_live_sibling.
Taken(place, name, except) ==
  \E f \in Live \ except : folders[f].parent = place /\ folders[f].name = name

-----------------------------------------------------------------------------
(***************************************************************************)
(* create_folder.                                                          *)
(***************************************************************************)
CheckCreate(r) ==
  LET o == op[r] IN
  /\ Checks(r, "create folder")
  /\ \/ IsLivePlace(o.to) /\ ~Taken(o.to, o.name, {}) /\ Decide(r, [Nothing EXCEPT !.parent = o.to])
     \/ ~IsLivePlace(o.to) /\ Refuse(r, "not found")
     \/ IsLivePlace(o.to) /\ Taken(o.to, o.name, {}) /\ Refuse(r, "folder conflict")

WriteCreate(r) ==
  LET o == op[r]
      F == [folders EXCEPT ![o.item] = [parent |-> o.to, name |-> o.name, deleted |-> FALSE]]
  IN Writes(r, "create folder") /\ FlushOrFail(r, F, projects)

(***************************************************************************)
(* update_folder: a new name, a new parent or both.                        *)
(***************************************************************************)
(* Mutation: only the new parent itself is compared. *)
NotItself(f, place) == place # f
\* _assert_not_descendant.
NotBelow(f, place) == place \notin Subtree(f, Stored)

CheckUpdate(r) ==
  LET o == op[r]
      to == IF o.to = Keep THEN folders[o.item].parent ELSE o.to
  IN
  /\ Checks(r, "update folder")
  /\ \/ o.item \notin Live /\ Refuse(r, "not found")
     \/ o.item \in Live /\ o.to # Keep /\ ~IsLivePlace(o.to) /\ Refuse(r, "not found")
     \/ /\ o.item \in Live /\ o.to # Keep /\ IsLivePlace(o.to) /\ ~NotBelow(o.item, o.to)
        /\ Refuse(r, "bad request")
     \/ /\ o.item \in Live /\ (o.to = Keep \/ (IsLivePlace(o.to) /\ NotBelow(o.item, o.to)))
        /\ \/ Taken(to, o.name, {o.item}) /\ Refuse(r, "folder conflict")
           \/ ~Taken(to, o.name, {o.item}) /\ Decide(r, [Nothing EXCEPT !.folders = {o.item}, !.parent = to])

WriteUpdate(r) ==
  LET o == op[r]
      F == [folders EXCEPT ![o.item].name = o.name, ![o.item].parent = seen[r].parent]
  IN Writes(r, "update folder") /\ FlushOrFail(r, F, projects)

(***************************************************************************)
(* delete_folder: with ?cascade=trash, with ?reparent=true, and without    *)
(* either of an empty folder.                                              *)
(***************************************************************************)
MissingFolder(r, S) == op[r].item \notin S /\ Refuse(r, "not found")

Trashed(S) == [f \in Folders |-> IF f \in S /\ f \in Stored THEN [folders[f] EXCEPT !.deleted = TRUE] ELSE folders[f]]
TrashedProjects(S) ==
  [p \in Projects |-> IF p \in S /\ p \in StoredProjects THEN [projects[p] EXCEPT !.deleted = TRUE] ELSE projects[p]]

(* Mutation: only the projects of the folder itself. *)
NoDescent(f) == {f}
LiveSubtree(f) == Subtree(f, Live)

CheckTrash(r) ==
  LET f == op[r].item IN
  /\ Checks(r, "trash folder")
  /\ \/ MissingFolder(r, Live)
     \/ /\ f \in Live
        /\ Decide(r, [Nothing EXCEPT !.folders = LiveSubtree(f),
                                     !.projects = ProjectsIn(LiveSubtree(f)) \intersect LiveProjects])

WriteTrash(r) ==
  /\ Writes(r, "trash folder")
  /\ FlushOrFail(r, Trashed(seen[r].folders), TrashedProjects(seen[r].projects))

LiveChildren(f) == {g \in Live : folders[g].parent = f}

CheckReparent(r) ==
  LET f == op[r].item
      clash == \E g \in LiveChildren(f) : Taken(folders[f].parent, folders[g].name, {g, f})
  IN
  /\ Checks(r, "reparent folder")
  /\ \/ MissingFolder(r, Live)
     \/ f \in Live /\ clash /\ Refuse(r, "folder conflict")
     \/ /\ f \in Live /\ ~clash
        /\ Decide(r, [folders |-> LiveChildren(f) \union {f},
                      projects |-> ProjectsIn({f}) \intersect LiveProjects,
                      parent |-> folders[f].parent])

\* The rows are updated one by one: a child named like the folder may arrive beside
\* the folder before the folder is trashed.
WriteReparent(r) ==
  LET f == op[r].item
      F == [g \in Folders |->
              IF g = f THEN [folders[f] EXCEPT !.deleted = TRUE]
              ELSE IF g \in seen[r].folders /\ g \in Stored THEN [folders[g] EXCEPT !.parent = seen[r].parent]
              ELSE folders[g]]
      P == [p \in Projects |->
              IF p \in seen[r].projects /\ p \in StoredProjects
              THEN [projects[p] EXCEPT !.parent = seen[r].parent] ELSE projects[p]]
  IN
  /\ Writes(r, "reparent folder")
  /\ \/ FlushOrFail(r, F, P)
     \/ /\ \E g \in (seen[r].folders \intersect Stored) \ {f} : folders[g].name = folders[f].name
        /\ Refuse(r, "concurrent update conflict")

DeleteEmpty(r) ==
  LET f == op[r].item
      empty == LiveChildren(f) = {} /\ ProjectsIn({f}) \intersect LiveProjects = {}
  IN
  /\ Checks(r, "delete folder")
  /\ \/ MissingFolder(r, Live)
     \/ f \in Live /\ ~empty /\ Refuse(r, "folder conflict")
     \/ f \in Live /\ empty /\ folders' = Trashed({f}) /\ UNCHANGED projects /\ Return(r, "done")

(***************************************************************************)
(* restore_folder: the folder with everything below it; at the root if its *)
(* parent is in the trash itself.                                          *)
(***************************************************************************)
(* Mutation: back to where it was, whatever became of that. *)
OldPlace(place) == place
RestoredPlace(place) == IF IsLivePlace(place) THEN place ELSE Root

CheckRestore(r) ==
  LET f == op[r].item
      tree == Subtree(f, Stored)
      revived == tree \ Live
      place(g) == IF g = f THEN RestoredPlace(folders[f].parent) ELSE folders[g].parent
      clash == \E g \in revived : Taken(place(g), folders[g].name, tree)
  IN
  /\ Checks(r, "restore folder")
  /\ \/ MissingFolder(r, Stored)
     \/ f \in Live /\ Refuse(r, "bad request")
     \/ f \in Stored \ Live /\ clash /\ Refuse(r, "folder conflict")
     \/ /\ f \in Stored \ Live /\ ~clash
        /\ Decide(r, [folders |-> revived,
                      projects |-> ProjectsIn(tree) \ LiveProjects,
                      parent |-> RestoredPlace(folders[f].parent)])

WriteRestore(r) ==
  LET f == op[r].item
      F == [g \in Folders |->
              IF g \in seen[r].folders /\ g \in Stored
              THEN [folders[g] EXCEPT !.deleted = FALSE, !.parent = IF g = f THEN seen[r].parent ELSE @]
              ELSE folders[g]]
      P == [p \in Projects |->
              IF p \in seen[r].projects /\ p \in StoredProjects
              THEN [projects[p] EXCEPT !.deleted = FALSE] ELSE projects[p]]
  IN Writes(r, "restore folder") /\ FlushOrFail(r, F, P)

(***************************************************************************)
(* delete_folder with ?permanent=true.  Rows that came below the folder    *)
(* meanwhile lose their parent.                                            *)
(***************************************************************************)
CheckPurge(r) ==
  LET f == op[r].item
      tree == Subtree(f, Stored)
  IN
  /\ Checks(r, "purge folder")
  /\ \/ MissingFolder(r, Stored)
     \/ f \in Live /\ Refuse(r, "bad request")
     \/ /\ f \in Stored \ Live
        /\ Decide(r, [Nothing EXCEPT !.folders = tree, !.projects = ProjectsIn(tree)])

Detached(row, S) == IF row # NoRow /\ row.parent \in S THEN [row EXCEPT !.parent = Root] ELSE row

WritePurge(r) ==
  LET F == [g \in Folders |-> IF g \in seen[r].folders THEN NoRow ELSE Detached(folders[g], seen[r].folders)]
      P == [p \in Projects |-> IF p \in seen[r].projects THEN NoRow ELSE Detached(projects[p], seen[r].folders)]
  IN
  /\ Writes(r, "purge folder")
  /\ \/ UniqueNames(F) /\ folders' = F /\ projects' = P /\ Return(r, "done")
     \/ ~UniqueNames(F) /\ Refuse(r, "concurrent update conflict")

-----------------------------------------------------------------------------
(***************************************************************************)
(* create_project and the folder_id of update_project.                     *)
(***************************************************************************)
CheckProject(r) ==
  LET o == op[r] IN
  /\ (Checks(r, "create project") \/ Checks(r, "move project"))
  /\ \/ Creates(r) /\ o.item \in StoredProjects /\ Refuse(r, "project conflict")
     \/ ~Creates(r) /\ o.item \notin LiveProjects /\ Refuse(r, "not found")
     \/ /\ IF Creates(r) THEN o.item \notin StoredProjects ELSE o.item \in LiveProjects
        /\ \/ ~IsLivePlace(o.to) /\ Refuse(r, "not found")
           \/ IsLivePlace(o.to) /\ Decide(r, [Nothing EXCEPT !.parent = o.to])

WriteProject(r) ==
  LET o == op[r]
      P == [projects EXCEPT ![o.item] = [parent |-> o.to, deleted |-> FALSE]]
  IN
  /\ \/ Writes(r, "move project")
     \/ Writes(r, "create project") /\ o.item \notin StoredProjects
  /\ FlushOrFail(r, folders, P)

\* Another request has created the project meanwhile: its primary key is taken.
DuplicateProject(r) ==
  /\ Writes(r, "create project") /\ op[r].item \in StoredProjects
  /\ Refuse(r, "concurrent update conflict")

(***************************************************************************)
(* delete_project and restore_project write the row they have locked.      *)
(***************************************************************************)
TrashProject(r) ==
  LET p == op[r].item IN
  /\ Checks(r, "trash project")
  /\ \/ p \notin LiveProjects /\ Refuse(r, "not found")
     \/ p \in LiveProjects /\ projects' = TrashedProjects({p}) /\ UNCHANGED folders /\ Return(r, "done")

RestoreProject(r) ==
  LET p == op[r].item IN
  /\ Checks(r, "restore project")
  /\ \/ p \notin StoredProjects /\ Refuse(r, "not found")
     \/ p \in LiveProjects /\ Refuse(r, "bad request")
     \/ /\ p \in StoredProjects \ LiveProjects
        /\ projects' = [projects EXCEPT ![p] = [parent |-> RestoredPlace(@.parent), deleted |-> FALSE]]
        /\ UNCHANGED folders
        /\ Return(r, "done")

PurgeProject(r) ==
  LET p == op[r].item IN
  /\ Checks(r, "purge project")
  /\ \/ p \notin StoredProjects /\ Refuse(r, "not found")
     \/ p \in LiveProjects /\ Refuse(r, "bad request")
     \/ /\ p \in StoredProjects \ LiveProjects
        /\ projects' = [projects EXCEPT ![p] = NoRow]
        /\ UNCHANGED folders
        /\ Return(r, "done")

-----------------------------------------------------------------------------
\* The database aborts one of two requests that wait for each other.
AbortDeadlock(r) ==
  /\ pc[r] = "checked"
  /\ \E s \in BlockedBy(r) : r \in BlockedBy(s)
  /\ Refuse(r, "deadlock")

Next ==
  \E r \in Requests :
    \/ \E o \in Operation : Begin(r, o)
    \/ CheckCreate(r) \/ WriteCreate(r) \/ CheckUpdate(r) \/ WriteUpdate(r)
    \/ CheckTrash(r) \/ WriteTrash(r) \/ CheckReparent(r) \/ WriteReparent(r) \/ DeleteEmpty(r)
    \/ CheckRestore(r) \/ WriteRestore(r) \/ CheckPurge(r) \/ WritePurge(r)
    \/ CheckProject(r) \/ WriteProject(r) \/ DuplicateProject(r)
    \/ TrashProject(r) \/ RestoreProject(r) \/ PurgeProject(r)
    \/ AbortDeadlock(r)

Spec == Init /\ [][Next]_vars

-----------------------------------------------------------------------------
\* Types of the variables.
TypeOK ==
  /\ folders \in [Folders -> {NoRow} \union [parent : Places, name : Names, deleted : BOOLEAN]]
  /\ projects \in [Projects -> {NoRow} \union [parent : Places, deleted : BOOLEAN]]
  /\ pc \in [Requests -> {"idle", "begun", "checked"}]
  /\ op \in [Requests -> Operation \union {NoOperation}]
  /\ seen \in [Requests -> [folders : SUBSET Folders, projects : SUBSET Projects, parent : Places]]
  /\ clients \subseteq Requests
  /\ answer \in {"none", "done", "not found", "bad request", "folder conflict",
                "project conflict", "concurrent update conflict", "deadlock"}

(***************************************************************************)
(* What the reads without locks guarantee only as long as the requests of  *)
(* the user come one after the other.                                      *)
(***************************************************************************)
\* No move, restore or reparenting makes a folder its own ancestor.
TreeIfOneAfterTheOther == OneAfterTheOther => FoldersFormATree

\* What is not in the trash is in a place that is not: the folder list and the trash
\* show everything.
LivePlaces ==
  /\ \A f \in Live : IsLivePlace(folders[f].parent)
  /\ \A p \in LiveProjects : IsLivePlace(projects[p].parent)
LivePlacesIfOneAfterTheOther == OneAfterTheOther => LivePlaces

\* What disappears for ever was in the trash.
TakesOnlyTrash ==
  /\ \A f \in Live : folders'[f] # NoRow
  /\ \A p \in LiveProjects : projects'[p] # NoRow
PurgeIfOneAfterTheOther == [][OneAfterTheOther => TakesOnlyTrash]_vars

\* errors.py:266 answers whatever an index or a key refuses with concurrent_update_conflict, and
\* the client tries again.  To a client who is alone that is told in two cases only, which no
\* repetition gets over: children of a folder that goes arrive beside it one by one, and one of
\* them has its name; or two folders of one name come back beside each other.  In all other cases
\* the checks before the flush find what it would be refused for.
SelfConflict(o) ==
  \/ o.kind = "reparent folder" /\ \E g \in LiveChildren(o.item) : folders[g].name = folders[o.item].name
  \/ /\ o.kind = "restore folder"
     /\ \E g, h \in Subtree(o.item, Stored) :
          g # h /\ folders[g].parent = folders[h].parent /\ folders[g].name = folders[h].name
ConflictsIfOneAfterTheOther ==
  [][OneAfterTheOther /\ answer' = "concurrent update conflict" =>
       \E r \in Requests : pc[r] = "checked" /\ pc'[r] = "idle" /\ SelfConflict(op[r])]_vars

(***************************************************************************)
(* The inductive invariant: what the database sees to whoever writes, and  *)
(* that a decision is still right when a request alone writes it.          *)
(***************************************************************************)
Creating(r) == pc[r] # "idle" /\ op[r].kind = "create folder"

ShapeInv ==
  \A r \in Requests :
    /\ pc[r] # "idle" => r \in clients /\ op[r] \in Operation
    /\ Creating(r) =>
         op[r].item \notin Stored /\ \A s \in Requests \ {r} : Creating(s) => op[s].item # op[r].item
    /\ pc[r] = "checked" /\ op[r].kind = "update folder" => seen[r].folders = {op[r].item}
    /\ pc[r] = "checked" /\ op[r].kind = "reparent folder" => op[r].item \in seen[r].folders

\* Nothing has come into the way of what was decided of o: the rows are there, the names free.
StillFree(o, d) ==
  LET f == o.item
      place(g) == IF g = f THEN d.parent ELSE folders[g].parent
  IN
  /\ d.folders \subseteq Stored /\ d.projects \subseteq StoredProjects
  /\ o.kind = "create folder" => ~Taken(o.to, o.name, {})
  /\ o.kind = "update folder" => ~Taken(d.parent, o.name, {f})
  /\ o.kind = "reparent folder" => \A g \in LiveChildren(f) : ~Taken(d.parent, folders[g].name, {g, f})
  /\ o.kind = "restore folder" =>
       \A g \in d.folders : ~Taken(place(g), folders[g].name, Subtree(f, Stored))
  /\ o.kind = "create project" => f \notin StoredProjects

\* What was decided of o is what would be decided now.
StillRight(o, d) ==
  LET f == o.item IN
  /\ StillFree(o, d)
  /\ o.kind \in {"create folder", "create project", "move project"} => IsLivePlace(o.to)
  /\ o.kind = "update folder" =>
       \/ d.parent = folders[f].parent
       \/ IsLivePlace(d.parent) /\ NotBelow(f, d.parent)
  /\ o.kind = "trash folder" =>
       d.folders = LiveSubtree(f) /\ d.projects = ProjectsIn(d.folders) \intersect LiveProjects
  /\ o.kind = "reparent folder" =>
       /\ f \in Live /\ d.folders = LiveChildren(f) \union {f}
       /\ d.projects = ProjectsIn({f}) \intersect LiveProjects /\ d.parent = folders[f].parent
  /\ o.kind = "restore folder" =>
       /\ f \in Stored \ Live /\ d.folders = Subtree(f, Stored) \ Live
       /\ d.projects = ProjectsIn(Subtree(f, Stored)) \ LiveProjects
       /\ IsLivePlace(d.parent) /\ d.parent \in {folders[f].parent, Root}
  /\ o.kind = "purge folder" =>
       f \in Stored \ Live /\ d.folders = Subtree(f, Stored) /\ d.projects = ProjectsIn(d.folders)

SoloInv ==
  /\ FoldersFormATree /\ LivePlaces
  /\ \A r \in Requests : pc[r] = "checked" => StillRight(op[r], seen[r])

IInv ==
  /\ TypeOK /\ ShapeInv
  /\ UniqueNames(folders) /\ KeysExist(folders, projects)
  /\ OneAfterTheOther => SoloInv

\* folders.py: "Only trashed folders can be permanently deleted", whatever other
\* requests there are.
\* The code refutes it: PurgedLive.cfg.
PurgeTakesOnlyTrash == [][TakesOnlyTrash]_vars
=============================================================================
