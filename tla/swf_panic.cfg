\* Two writers; m1 has a storage schema, m2 has none.  Both writers may
\* receive a bag of m1, which is not yet in w.wfs: one inserts it under w.mu
\* while the other reads the map without the lock.
CONSTANTS
  m1 = m1  m2 = m2  m3 = m3  w1 = w1  w2 = w2  NoOne = NoOne
  Metrics <- MCPair
  Matched <- MCOneMetric
  Listed <- MCNoneListed
  Writers <- MCWriters
  MaxBags = 2
SPECIFICATION Spec
CHECK_DEADLOCK FALSE
INVARIANT NoMapRace
