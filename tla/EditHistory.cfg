SPECIFICATION Spec
CONSTANTS
  Start = 2
  STATES_TO_SAVE = 2
  MaxObjects = 7
  Sessions <- MCSessions
CHECK_DEADLOCK FALSE
INVARIANTS
  UndoFindsLayers
  DocumentIsAtIndex
  UndoableHasBlobs
  BlobsAreBounded
