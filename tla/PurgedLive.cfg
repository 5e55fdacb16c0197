SPECIFICATION Spec
CONSTANTS
  f1 = f1  f2 = f2  f3 = f3
  pr1 = pr1
  a = a  b = b
  r1 = r1  r2 = r2
  Root = Root
  Keep = Keep
  Folders <- TwoFolders
  Projects <- OneProject
  Names <- OneName
  Requests <- TwoRequests
  Kinds <- MoveIntoTrash
  MaxShared = 2
SYMMETRY MCSymmetry
PROPERTY PurgeTakesOnlyTrash
