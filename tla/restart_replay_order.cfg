\* Two values for one timestamp, dumped and replayed: restore stores the older one last.
CONSTANTS
  m1 = m1
  m2 = m2
  w1 = w1
  Metrics <- MCMetrics
  Shards <- MCShards
  ShardOf <- MCShardOf
  Writers <- MCWriters
  InitItems <- MCWarmItems
  Duration = 1
  ChanCap = 1
  Strategy = "sort"
  MaxStarts = 1
  MaxTime = 1
  MaxAdds = 2
  DumpBeforeExit = TRUE
SPECIFICATION Spec
INVARIANT ReplayLatestWins
