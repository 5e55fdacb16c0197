SPECIFICATION Spec
CONSTANTS
  r1 = r1
  r2 = r2
  k1 = k1
  k2 = k2
  detect = detect
  translate = translate
  NoPayload = NoPayload
  Requests <- MCRequests
  Keys <- MCKeys
  Payloads <- MCPayloads
  Units <- MCUnits
  MaxUnits = 2
  InitialCredit = 2
  Grants <- MCGrants
  ResetBalances <- MCResetBalances
  MaxVersion = 4
SYMMETRY MCSymmetry
INVARIANTS
  IInv
  ReservedWithinBalance
  LoserIsStale
  HoldGuaranteesCapture
  AnswersAreDurable
PROPERTIES
  SettledIsFinal
  ImplementsContract
CHECK_DEADLOCK FALSE
