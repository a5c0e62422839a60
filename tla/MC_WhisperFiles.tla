--------------------------- MODULE MC_WhisperFiles ---------------------------
(* Model values and sets for checking WhisperFiles with TLC. *)
EXTENDS WhisperFiles

CONSTANTS m1, m2, m3, w1, w2

\* m1 and m3 have a storage schema, m2 has none; m1 and m2 are in the
\* metric list of the previous run, so m2 is cached as nil.
MCMetrics == {m1, m2, m3}
MCMatched == {m1, m3}
MCListed == {m1, m2}
MCWriters == {w1, w2}

\* A single metric with a schema, not yet in the metric list.
MCOneMetric == {m1}
MCNoneListed == {}

\* One unlisted metric with a schema, one without.
MCPair == {m1, m2}
=============================================================================
