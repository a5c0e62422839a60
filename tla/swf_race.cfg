\* Two writers both miss m1 in w.wfs and each create a SynsWhisperFile.
CONSTANTS
  m1 = m1  m2 = m2  m3 = m3  w1 = w1  w2 = w2  NoOne = NoOne
  Metrics <- MCOneMetric
  Matched <- MCOneMetric
  Listed <- MCNoneListed
  Writers <- MCWriters
  MaxBags = 2
SPECIFICATION Spec
CHECK_DEADLOCK FALSE
INVARIANT FileExclusive
