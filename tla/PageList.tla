------------------------------ MODULE PageList ------------------------------
(***************************************************************************)
(* What the page storage of the service engine promises its clients: the   *)
(* pages of a project are a list.  A new page is appended, a save replaces *)
(* the content of one page, a deletion closes the gap, and none of them is *)
(* possible while the project is in the trash.                             *)
(***************************************************************************)
EXTENDS Integers

CONSTANTS
  Pages,     \* page ids
  Contents   \* contents of a snapshot

VARIABLES
  project,   \* "live", "trashed" or "purged"
  size,      \* number of pages
  list       \* the pages in order: [1..size -> [page, content]]

vars == <<project, size, list>>

Entry == [page : Pages, content : Contents]

Init == project = "live" /\ size = 0 /\ list = [i \in 1..0 |-> 0]

Append(e) ==
  /\ project = "live"
  /\ \A i \in 1..size : list[i].page # e.page
  /\ size' = size + 1
  /\ list' = [i \in 1..size + 1 |-> IF i <= size THEN list[i] ELSE e]
  /\ UNCHANGED project

Replace(i, c) ==
  /\ project = "live"
  /\ list' = [list EXCEPT ![i].content = c]
  /\ UNCHANGED <<project, size>>

Remove(i) ==
  /\ project = "live"
  /\ size' = size - 1
  /\ list' = [j \in 1..size - 1 |-> IF j < i THEN list[j] ELSE list[j + 1]]
  /\ UNCHANGED project

Trash == project = "live" /\ project' = "trashed" /\ UNCHANGED <<size, list>>
Restore == project = "trashed" /\ project' = "live" /\ UNCHANGED <<size, list>>
Purge == project = "trashed" /\ project' = "purged" /\ size' = 0 /\ list' = [i \in 1..0 |-> 0]

Next ==
  \/ \E e \in Entry : Append(e)
  \/ \E i \in 1..size : Remove(i) \/ \E c \in Contents : Replace(i, c)
  \/ Trash \/ Restore \/ Purge

Spec == Init /\ [][Next]_vars
=============================================================================
