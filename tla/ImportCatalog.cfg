SPECIFICATION Spec
CONSTANTS
  j1 = j1
  j2 = j2
  Jobs = {j1, j2}
  Columns <- MCColumns
  Values <- MCValues
  Contents <- MCContents
  NumRuns = 4
  Snapshots <- MCSnapshots
  PoolSize = 2
  BatchSize = 1
  CleanupBatch = 1
  LinkLimit = 2
  DropPct = 50
  RejectionPct = 15
  MaxRejected = 1
  Retention = 1
  MaxTime = 2
  Absent = Absent
  NoRow = NoRow
  Unread = Unread
SYMMETRY JobSymmetry
CONSTRAINT LaterRunsOfOneJob
INVARIANTS
  TypeOK
  RowShowsLastSeenSnapshot
  CatalogueMirrorsFeed
  PromotedJobsHaveLinks
  SweepSparesOwnFeed
PROPERTIES
  TimestampsAdvance
  OnlyExpiredRowsVanish
