SPECIFICATION FairSpec
CONSTANTS
  alice = alice
  k1 = k1  k2 = k2
  Before = Before
  Kept <- OneKey
  None = None
  Users <- OneUser
  Keys <- TwoKeys
  Owner <- OwnerOf
  Calls <- ThreeCalls
  MaxMemory = 1
  MaxIDB = 1
  MaxLogins = 2
CHECK_DEADLOCK FALSE
INVARIANTS
  LruIsSound
  MemoryIsCurrent
  AnswersAreCurrent
  DiskIsCurrent
PROPERTIES
  CallsEnd
