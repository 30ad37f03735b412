SPECIFICATION FairSpec
CONSTANTS
  a = a
  w1 = w1
  w2 = w2
  Providers = {a}
  Workers = {w1, w2}
  Interval <- MCInterval
  Unconfigured = Unconfigured
  MaxRetries = 1
  MaxQueue = 1
  MaxLost = 1
PROPERTIES
  ActiveProvidersImported
