SPECIFICATION FairSpec
CONSTANTS
  c1 = c1
  c2 = c2
  s1 = s1
  s2 = s2
  k1 = k1
  k2 = k2
  detect = detect
  inpaint = inpaint
  doc1 = doc1
  doc2 = doc2
  personal = personal
  NoPayload = NoPayload
  NoId = NoId
  Keys <- OneKey
  Payloads <- MCPayloads
  Units <- MCUnits
  MaxUnits = 1
  InitialCredit = 1
  Scopes <- MCScopes
  Prints <- MCPrints
  PayloadOf <- MCPayloadOf
  Callers <- OneCaller
  MaxJobs = 2
  MaxRestarts = 0
PROPERTY AcceptedJobsEnd
CHECK_DEADLOCK FALSE
