--------------------------- MODULE MC_DumpRestore ---------------------------
(* Instantiates DumpRestore: two metrics on two shards, one writer.        *)
EXTENDS DumpRestore

CONSTANTS m1, m2, w1

MCMetrics == {m1, m2}
MCShards  == 1..2
MCShardOf == (m1 :> 1) @@ (m2 :> 2)
MCWriters == {w1}

\* m1 is present with its point at ts 0 already flushed.
MCWarmItems == m1 :> <<[ts |-> 0, id |-> 0]>>
=============================================================================
