---------------------------- MODULE MCFolderTree ----------------------------
(* Small instances of FolderTree. *)
EXTENDS FolderTree, TLC

CONSTANTS f1, f2, f3, pr1, a, b, r1, r2

TwoFolders == {f1, f2}
ThreeFolders == {f1, f2, f3}
OneProject == {pr1}
OneName == {a}
TwoNames == {a, b}
OneRequest == {r1}
TwoRequests == {r1, r2}

FolderKinds ==
  {"create folder", "update folder", "trash folder", "reparent folder", "delete folder",
   "restore folder", "purge folder"}
AllKinds ==
  FolderKinds \union {"create project", "move project", "trash project", "restore project", "purge project"}
CreateAndMove == {"create folder", "update folder"}
MoveIntoTrash == {"create folder", "trash folder", "purge folder", "create project", "move project"}

MCSymmetry == Permutations(ThreeFolders) \union Permutations(TwoNames) \union Permutations(TwoRequests)
=============================================================================
