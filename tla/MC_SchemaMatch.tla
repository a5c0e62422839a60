--------------------------- MODULE MC_SchemaMatch ---------------------------
(* Instantiates SchemaMatch with two metrics.                              *)
EXTENDS SchemaMatch

CONSTANTS m1, m2

MCMetrics == {m1, m2}

\* Declared priorities within int32: no wrap-around at W = 6, S = 3.
MCSmallPriorities == {-1, 1}

\* The scaled 2^31: the shifted priority wraps.
MCLargePriorities == {4}
=============================================================================
