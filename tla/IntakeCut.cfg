SPECIFICATION MCSpec
CONSTANTS
  c1 = c1
  MaxJobs = 3
  MaxTime = 2
  Clients = {c1}
  PageSizes = {1, 2}
  MaxResults = 4
  s1 = s1
  s2 = s2
  e1 = e1
  e2 = e2
  j1 = j1
  q1 = q1
  q2 = q2
  Subjects = {s1, s2}
  Emails = {e1, e2}
  Postings = {j1}
  Requests = {q1, q2}
  r1 = r1
  ref1 = ref1
  ref2 = ref2
  Runs = {r1}
  References = {ref1, ref2}
  MaxAmount = 2
  MaxAttempts = 2
  MaxDownload = 4
  MaxExtracted = 3
  Linkable = {k1, k2}
  Owners = {1, 2}
  OwnerOf <- OneOwner
  Hashes = {h1, h2}
  Admins = {a1}
  Script = Script
  LinkBatch = 2
  LinkSlice = 1
  MaxHashAttempts = 2
  k1 = k1
  k2 = k2
  h1 = h1
  h2 = h2
  a1 = a1
  Named = {b1, b2}
  Settings = {v1, v2, bad}
  Refused = {bad}
  MaxActions = 3
  v1 = v1
  v2 = v2
  bad = bad
  b1 = b1
  b2 = b2
  MaxListed = 3
  MaxLimit = 2
  NoFilter = NoFilter
  Addresses = {m1}
  Passwords = {x1, x2}
  SignIns = {n1}
  Commands = {d1, d2, d3}
  x1 = x1
  x2 = x2
  m1 = m1
  n1 = n1
  d1 = d1
  d2 = d2
  d3 = d3
INVARIANT
  CutOffIsTransient
CHECK_DEADLOCK FALSE
