SPECIFICATION FairSpec
CONSTANTS
  p1 = p1
  p2 = p2
  r1 = r1
  r2 = r2
  Promoters = {p1, p2}
  Readers = {r1, r2}
  NumFacets = 1
  MaxCommits = 2
  MaxVersion = 2
  NoEntry = NoEntry
INVARIANTS
  TypeOK
  EntriesFresh
  AnswersFresh
PROPERTIES
  ImplementsFiltersService EventuallyCurrent
