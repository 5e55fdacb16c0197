SPECIFICATION AiFairSpec
CONSTANTS
  p1 = p1  p2 = p2
  t1 = t1  r1 = r1
  tab = tab  toolbox = toolbox
  NoPage = NoPage
  Pages <- TwoPages
  Prefetched <- NoPages
  Edits <- TextAndResult
  Ways <- InPanels
  Results <- OneResult
  Texts <- OneText
  Kinds <- TwoKinds
  Hosts <- TwoHosts
  Tab = tab
  Toolbox = toolbox
  Settled = TRUE
INVARIANTS
  ResultOnItsPage
PROPERTIES
  MergeKeepsEdits
  ResultReachesService
  RunsEnd
