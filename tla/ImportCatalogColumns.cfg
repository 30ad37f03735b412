SPECIFICATION Spec
CONSTANTS
  j1 = j1
  j2 = j2
  Jobs = {j1}
  Columns <- MCColumns
  Values <- MCValues
  Contents <- MCContents
  NumRuns = 4
  Snapshots <- MCSnapshots
  PoolSize = 2
  BatchSize = 1
  CleanupBatch = 1
  LinkLimit = 2
  DropPct = 100
  RejectionPct = 15
  MaxRejected = 0
  Retention = 1
  MaxTime = 0
  Absent = Absent
  NoRow = NoRow
  Unread = Unread
CONSTRAINT LaterRunsOfOneJob
INVARIANT
  FeedColumnsShown
