\* A fresh process (no metric yet): the first flush cycles race with the first Adds.
CONSTANTS
  m1 = m1
  m2 = m2
  w1 = w1
  w2 = w2
  Metrics <- MCMetrics
  Shards <- MCShards
  ShardOf <- MCShardOf
  Writers <- MCOneWriter
  InitItems <- MCColdItems
  Duration = 1
  MaxTime = 2
  MaxAdds = 2
  ChanCap = 1
  Strategy = "sort"
SPECIFICATION Spec
INVARIANT PointAccounted
