SPECIFICATION Spec
CONSTANTS
  Start = 2
  STATES_TO_SAVE = 2
  MaxObjects = 7
  Sessions <- Painting
CHECK_DEADLOCK FALSE
INVARIANT BlobsOutliveEntries
