\* A running cache (one metric present), two writer goroutines: no point is
\* lost or duplicated, Get is complete, and every added point is eventually
\* stored.  No symmetry: liveness is checked too.
CONSTANTS
  m1 = m1
  m2 = m2
  w1 = w1
  w2 = w2
  Metrics <- MCMetrics
  Shards <- MCShards
  ShardOf <- MCShardOf
  Writers <- MCTwoWriters
  InitItems <- MCWarmItems
  Duration = 1
  MaxTime = 2
  MaxAdds = 3
  ChanCap = 1
  Strategy = "sort"
SPECIFICATION Spec
INVARIANT TypeOK
INVARIANT PointAccounted
INVARIANT GetComplete
PROPERTY PipelineRefined
