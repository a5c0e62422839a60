--------------------------- MODULE MC_CarbonCache ---------------------------
(* Instances of CarbonCache for TLC: two metrics on two shards.            *)
EXTENDS CarbonCache

CONSTANTS m1, m2, w1, w2

MCMetrics == {m1, m2}
MCShards  == 1..2
MCShardOf == (m1 :> 1) @@ (m2 :> 2)

\* A fresh process: no metric in any shard.
MCColdItems == [m \in {} |-> <<>>]

\* A running process: m1 was added once at time 0 and that point has been
\* flushed and stored (PointsToDb empty, window still holding it).
MCWarmItems == m1 :> <<[ts |-> 0, id |-> 0]>>

MCOneWriter  == {w1}
MCTwoWriters == {w1, w2}

\* Writer goroutines are interchangeable (safety runs only).
MCWriterSymmetry == Permutations(MCTwoWriters)
=============================================================================
