SPECIFICATION Spec
CONSTANTS
  p1 = p1  p2 = p2
  e1 = e1  e2 = e2
  tab = tab  toolbar = toolbar
  NoPage = NoPage
  Pages <- TwoPages
  Prefetched <- TwoPages
  Edits <- OneEdit
  Ways <- AllWays
  Hosts <- TwoHosts
  Tab = tab
INVARIANTS
  UndoneIsFlagged
