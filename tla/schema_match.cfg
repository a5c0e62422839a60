\* Every schema and aggregation file of up to 3 and 2 sections, with declared priorities in the int32 range.
CONSTANTS
  m1 = m1
  m2 = m2
  Metrics <- MCMetrics
  Priorities <- MCSmallPriorities
  MaxSections = 3
  MaxAggrSections = 2
  W = 6
  S = 3
SPECIFICATION Spec
CHECK_DEADLOCK FALSE
INVARIANT SchemaTypeOK
INVARIANT PolicyAsDocumented
