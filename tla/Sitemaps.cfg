SPECIFICATION FairSpec
CONSTANTS
  g1 = g1
  g2 = g2
  MaxJobs = 3
  ChunkSize = 1
  Generators = {g1, g2}
  OverlapJobs = 2
  MaxFaults = 1
INVARIANTS
  TypeOK
  BuildsComplete
  IndexNamesFiles
  ActiveJobsStayListed
PROPERTIES
  SitemapCatchesUp
