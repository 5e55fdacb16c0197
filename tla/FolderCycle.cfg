SPECIFICATION Spec
CONSTANTS
  f1 = f1  f2 = f2  f3 = f3
  pr1 = pr1
  a = a  b = b
  r1 = r1  r2 = r2
  Root = Root
  Keep = Keep
  Folders <- ThreeFolders
  Projects <- OneProject
  Names <- TwoNames
  Requests <- TwoRequests
  Kinds <- CreateAndMove
  MaxShared = 3
SYMMETRY MCSymmetry
INVARIANT FoldersFormATree
