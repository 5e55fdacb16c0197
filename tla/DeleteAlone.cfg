SPECIFICATION Spec
CONSTANTS
  p1 = p1
  p2 = p2
  p3 = p3
  a = a
  b = b
  r1 = r1
  r2 = r2
  r3 = r3
  NoPage = NoPage
  Pages <- MCPages
  Contents <- OneContent
  Drafts <- OneContent
  Requests <- OneRequest
INVARIANT DeleteAloneSucceeds
