SPECIFICATION FairSpec
CONSTANTS
  u1 = u1
  q1 = q1
  q2 = q2
  Users = {u1}
  Admins = {}
  Requests = {q1, q2}
  MaxTokens = 4
INVARIANTS
  TypeOK
  OneLiveTokenPerSession
  EndedFamiliesStayEnded
PROPERTIES
  RequestsEnd
