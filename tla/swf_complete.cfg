\* Two writer goroutines, a cached file (m1), a cached nil (m2), a metric to
\* create (m3); every received bag is stored or the process has died.
CONSTANTS
  m1 = m1  m2 = m2  m3 = m3  w1 = w1  w2 = w2  NoOne = NoOne
  Metrics <- MCMetrics
  Matched <- MCMatched
  Listed <- MCListed
  Writers <- MCWriters
  MaxBags = 4
SPECIFICATION Spec
\* The run ends when the bags are used up or a panic ended the process.
CHECK_DEADLOCK FALSE
PROPERTY BagCompletes
INVARIANT MetricListComplete
PROPERTY StopCompletes
