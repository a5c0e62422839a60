\* main exits while Dump is still writing: the next start panics in RestoreFromFile.
CONSTANTS
  m1 = m1
  m2 = m2
  w1 = w1
  Metrics <- MCMetrics
  Shards <- MCShards
  ShardOf <- MCShardOf
  Writers <- MCWriters
  InitItems <- MCWarmItems
  Duration = 1
  ChanCap = 1
  Strategy = "sort"
  MaxStarts = 1
  MaxTime = 1
  MaxAdds = 1
  DumpBeforeExit = FALSE
SPECIFICATION Spec
INVARIANT StartupSucceeds
