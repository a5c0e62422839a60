\* Shutdown with ingestion still running: a point added before the exit is lost.
CONSTANTS
  m1 = m1
  m2 = m2
  w1 = w1
  Metrics <- MCMetrics
  Shards <- MCShards
  ShardOf <- MCShardOf
  Writers <- MCWriters
  InitItems <- MCWarmItems
  Duration = 1
  ChanCap = 1
  Strategy = "sort"
  MaxStarts = 1
  MaxTime = 2
  MaxAdds = 2
  DumpBeforeExit = TRUE
SPECIFICATION Spec
INVARIANT ShutdownDurable
