\* Out-of-order arrivals for one metric against the window kept by CachePointBag.Add.
CONSTANTS
  m1 = m1
  m2 = m2
  w1 = w1
  w2 = w2
  Metrics <- MCMetrics
  Shards <- MCShards
  ShardOf <- MCShardOf
  Writers <- MCOneWriter
  InitItems <- MCColdItems
  Duration = 1
  MaxTime = 2
  MaxAdds = 2
  ChanCap = 1
  Strategy = "sort"
SPECIFICATION Spec
INVARIANT DataSorted
