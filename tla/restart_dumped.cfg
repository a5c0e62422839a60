\* main may exit before App.Stop ends: every point in a closed dump file is stored after the restart.
CONSTANTS
  m1 = m1
  m2 = m2
  w1 = w1
  Metrics <- MCMetrics
  Shards <- MCShards
  ShardOf <- MCShardOf
  Writers <- MCWriters
  InitItems <- MCWarmItems
  Duration = 1
  ChanCap = 1
  Strategy = "sort"
  MaxStarts = 1
  MaxTime = 1
  MaxAdds = 2
  DumpBeforeExit = FALSE
SPECIFICATION Spec
INVARIANT DRTypeOK
PROPERTY DumpedEventuallyStored
