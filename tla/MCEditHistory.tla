---------------------------- MODULE MCEditHistory ----------------------------
(* Small instance of EditHistory. *)
EXTENDS EditHistory, TLC

Session(patient, n, actions) == [patient |-> patient, edits |-> n, does |-> actions]

\* No layer object is changed in place by one action, replaced by a second and held by a third
\* (a drag does the first and the last): such sessions do lose the index.
Apart ==
  { {"add", "duplicate", "remove", "reorder"}, {"add", "remove", "rename", "mask"},
    {"drag", "reorder", "remove"}, {"drag", "resize", "add"}, {"text", "rename", "remove"},
    {"rotate", "filters", "visibility"}, {"merge", "add"} }

\* Whatever may be put together, but for drags and strokes.
Together ==
  { {"rename", "visibility", "filters", "mask", "add", "duplicate", "remove", "merge", "reorder"},
    {"rename", "mask", "add", "remove", "merge", "text"},
    {"rename", "filters", "rotate", "resize", "reorder"} }

MCSessions ==
  { Session(patient, 3, a) : patient \in BOOLEAN, a \in Apart }
    \union { Session(TRUE, 3, a) : a \in Together }
    \union { Session(TRUE, 4, {"paint", "rename"}), Session(FALSE, 3, {"paint", "panel", "add"}) }

Painting == { Session(TRUE, 4, {"paint"}) }

\* Somebody who undoes while a stroke is being stored.
Hasty == { Session(FALSE, 2, {"paint"}) }
=============================================================================
