---------------------------- MODULE CarbonCache ----------------------------
(***************************************************************************)
(* The ingestion cache and flush pipeline of v-carbon (src/cache).         *)
(*                                                                         *)
(*  - Cache.Add / CachePointBag.Add (cache.go): get-or-create the metric's *)
(*    CachePointBag under its shard lock, drop the expired prefix of the   *)
(*    window, insert the point by one insertion-sort pass, append it to    *)
(*    PointsToDb (here: pending).                                          *)
(*  - Cache.Get (cache.go): read the window under the shard lock.          *)
(*  - Cache.MakeChanForDB (flush.go), run every second by                  *)
(*    PersistManager.Run: Len() snapshot, drain shard after shard with     *)
(*    GetPointBagForDb, sort by the write strategy, push every bag onto    *)
(*    the bounded ChanForDB.                                               *)
(*  - Whisper.Run (persists/whisper/whisper.go): NumCPU writer goroutines  *)
(*    receive bags from ChanForDB and Store them.                          *)
(*                                                                         *)
(* A point is [ts, id]: its timestamp and a unique id given in Add order;  *)
(* the id stands for the value, so that "which value is stored" is         *)
(* observable.  The 1024 shards are the set Shards, the FNV hash the       *)
(* constant function ShardOf.                                              *)
(***************************************************************************)
EXTENDS Integers, Sequences, FiniteSets, TLC, SequencesExt, FiniteSetsExt

CONSTANTS
  Metrics,    \* metric names (model values)
  Shards,     \* shard indices 1..N, scanned in this order
  ShardOf,    \* [Metrics -> Shards]: Hash_fnv32(key) % shardCount
  Duration,   \* CachePointBag.duration (3600 in the code)
  MaxTime,    \* bound on the clock time.Now().Unix()
  MaxAdds,    \* bound on the number of Add calls
  ChanCap,    \* capacity of ChanForDB (1024*1024 in the code)
  Writers,    \* whisper writer goroutines (runtime.NumCPU())
  Strategy,   \* "max" (MaxStrategy) or "sort" (TimeSortedStrategy)
  InitItems   \* metrics present at start: [M -> Seq(Point)], already flushed

ASSUME Shards = 1..Cardinality(Shards) /\ ShardOf \in [Metrics -> Shards]
ASSUME Duration \in Nat /\ MaxTime \in Nat /\ MaxAdds \in Nat
ASSUME ChanCap \in Nat \ {0} /\ Writers # {}
ASSUME Strategy \in {"max", "sort"}

Times == 0..MaxTime
Ids   == 0..MaxAdds
Point == [ts : Times, id : Ids]
Bag   == [metric : Metrics, data : Seq(Point)]

VARIABLES
  now,      \* time.Now().Unix()
  items,    \* union of the shards' items maps: metric -> [data, pending]
  nextId,   \* ids handed out so far (history)
  added,    \* every point ever passed to Add, as [metric, ts, id] (history)
  fpc,      \* MakeChanForDB: "idle", "scan", "sort" or "push"
  fl,       \* l == c.Len() * 2
  fshard,   \* next shard to drain
  fqueue,   \* queuePB, in collection order
  fsize,    \* size: points collected in this cycle
  fout,     \* queuePB after sorting, still to be pushed
  chan,     \* ChanForDB
  wbag,     \* per writer: <<bag>> received and not yet stored, or <<>>
  store,    \* whisper files: metric -> ts -> id of the stored value (0: none)
  written   \* ids of every point ever stored (history)

cacheVars  == <<items, nextId, added>>
flushVars  == <<fpc, fl, fshard, fqueue, fsize, fout>>
writerVars == <<wbag, store, written>>
vars == <<now, cacheVars, flushVars, chan, writerVars>>

-----------------------------------------------------------------------------
(* CachePointBag.Add *)

\* Mutant: the scan without its break, cutting at the last expired point.
CutIndexNoBreak(data, cutoff) ==
  LET expired == {j \in 1..Len(data) : data[j].ts < cutoff}
  IN  IF expired = {} THEN 0 ELSE Max(expired) - 1

\* The loop of lines 40-45: index ends at the 0-based position of the last
\* point visited before the first non-expired one, i.e. (number of expired
\* leading points) - 1, or 0.
CutIndex(data, cutoff) ==
  LET expired == {j \in 0..Len(data) : \A i \in 1..j : data[i].ts < cutoff}
  IN  IF Max(expired) = 0 THEN 0 ELSE Max(expired) - 1

\* Lines 48-50: data = data[index:] when index > 0.
Truncate(data, index) ==
  IF index > 0 THEN SubSeq(data, index + 1, Len(data)) ELSE data

\* Lines 56-62: the loop `for i := last; i > 0; i--`, 1-based j = i + 1.
RECURSIVE Bubble(_, _, _)
Bubble(s, j, p) ==
  IF j > 1 /\ s[j].ts >= p.ts
    THEN Bubble([s EXCEPT ![j + 1] = s[j], ![j] = p], j - 1, p)
    ELSE s

InsertPoint(data, p) == Bubble(Append(data, p), Len(data), p)

\* The whole of CachePointBag.Add on one bag.
BagAdd(cpb, p) ==
  LET kept == Truncate(cpb.data, CutIndex(cpb.data, now - Duration))
  IN  [data |-> InsertPoint(kept, p), pending |-> Append(cpb.pending, p)]

\* Cache.Add on the shard maps its: get-or-create the bag of m (duration
\* 3600, empty PointsToDb), then CachePointBag.Add, all under the lock.
CacheAdd(its, m, p) ==
  LET cpb == IF m \in DOMAIN its THEN its[m]
             ELSE [data |-> <<>>, pending |-> <<>>]
  IN  (m :> BagAdd(cpb, p)) @@ its

\* Cache.Add(MetricPoint{m, v, t}) from a receiver or the stats goroutine,
\* v being the fresh id.
Add(m, t) ==
  /\ nextId < MaxAdds
  /\ items' = CacheAdd(items, m, [ts |-> t, id |-> nextId + 1])
  /\ nextId' = nextId + 1
  /\ added' = added \cup {[metric |-> m, ts |-> t, id |-> nextId + 1]}
  /\ UNCHANGED <<now, flushVars, chan, writerVars>>

\* Cache.Get(key, from, util): the result of the read-only query.
Get(m, from, until) ==
  IF m \notin DOMAIN items
    THEN [found |-> TRUE, points |-> <<>>]
  ELSE IF from >= now - Duration
    THEN [found |-> TRUE,
          points |-> SelectSeq(items[m].data,
                               LAMBDA p : p.ts >= from /\ p.ts <= until)]
  ELSE [found |-> FALSE, points |-> <<>>]

\* The clock.
Tick ==
  /\ now < MaxTime
  /\ now' = now + 1
  /\ UNCHANGED <<cacheVars, flushVars, chan, writerVars>>

-----------------------------------------------------------------------------
(* Cache.MakeChanForDB, one shard lock at a time *)

OrderKey(b) == IF Strategy = "max" THEN Len(b.data) ELSE b.data[1].ts

\* sort.Sort is not stable: any order of the bags whose keys are sorted,
\* descending for MaxStrategy (sort.Reverse), ascending for TimeSorted.
SortedOrders(q) ==
  { o \in { [i \in 1..Len(q) |-> q[pi[i]]] : pi \in Permutations(1..Len(q)) } :
      IF Strategy = "max"
        THEN IsSorted(o, LAMBDA a, b : OrderKey(a) >= OrderKey(b))
        ELSE IsSorted(o, LAMBDA a, b : OrderKey(a) <= OrderKey(b)) }

\* Mutant: the shard loop starting at index 1 instead of 0.
FlushStartSkipFirstShard ==
  /\ fpc = "idle"
  /\ fpc' = "scan"
  /\ fl' = 2 * Cardinality(DOMAIN items)
  /\ fshard' = 2
  /\ fqueue' = <<>>
  /\ fsize' = 0
  /\ UNCHANGED <<fout, now, cacheVars, chan, writerVars>>

\* flush.go:63-67: l := c.Len() * 2 before any shard is scanned.  Len locks
\* the shards one by one; as metrics are never removed its result equals
\* the metric count at some instant of the scan, so one atomic step.
FlushStart ==
  /\ fpc = "idle"
  /\ fpc' = "scan"
  /\ fl' = 2 * Cardinality(DOMAIN items)
  /\ fshard' = 1
  /\ fqueue' = <<>>
  /\ fsize' = 0
  /\ UNCHANGED <<fout, now, cacheVars, chan, writerVars>>

\* flush.go:68-92: under the lock of shard fshard, GetPointBagForDb every
\* bag (snapshot pending, reset it), keep those with points.
ShardBags(s) == { m \in DOMAIN items : ShardOf[m] = s }

GetPointBagForDb(m) == [metric |-> m, data |-> items[m].pending]

\* Mutant: `if len_data <= 1 { continue }`, skipping one-point bags.
FlushScanShardSkipSingles ==
  /\ fpc = "scan"
  /\ LET ms   == ShardBags(fshard)
         full == SetToSeq({ GetPointBagForDb(m) : m \in ms })
         kept == SelectSeq(full, LAMBDA b : Len(b.data) > 1)
     IN  /\ items' = [m \in DOMAIN items |->
                        IF m \in ms THEN [items[m] EXCEPT !.pending = <<>>]
                        ELSE items[m]]
         /\ fqueue' = fqueue \o kept
         /\ fsize' = fsize + MapThenSumSet(LAMBDA m : Len(items[m].pending), ms)
  /\ fshard' = fshard + 1
  /\ fpc' = IF fshard = Cardinality(Shards) THEN "sort" ELSE "scan"
  /\ UNCHANGED <<fl, fout, now, nextId, added, chan, writerVars>>

FlushScanShard ==
  /\ fpc = "scan"
  /\ LET ms   == ShardBags(fshard)
         full == SetToSeq({ GetPointBagForDb(m) : m \in ms })
         kept == SelectSeq(full, LAMBDA b : Len(b.data) > 0)
     IN  /\ items' = [m \in DOMAIN items |->
                        IF m \in ms THEN [items[m] EXCEPT !.pending = <<>>]
                        ELSE items[m]]
         /\ fqueue' = fqueue \o kept
         /\ fsize' = fsize + MapThenSumSet(LAMBDA m : Len(items[m].pending), ms)
  /\ fshard' = fshard + 1
  /\ fpc' = IF fshard = Cardinality(Shards) THEN "sort" ELSE "scan"
  /\ UNCHANGED <<fl, fout, now, nextId, added, chan, writerVars>>

\* Lines 323-335: sort, then return without pushing when l == 0 || size == 0.
FlushSort ==
  /\ fpc = "sort"
  /\ IF fl = 0 \/ fsize = 0
       THEN fpc' = "idle" /\ fout' = <<>>
       ELSE fpc' = "push" /\ \E o \in SortedOrders(fqueue) : fout' = o
  /\ fqueue' = <<>>
  /\ UNCHANGED <<fl, fshard, fsize, now, cacheVars, chan, writerVars>>

\* Mutant: the push without waiting for room in the channel.
FlushPushUnbounded ==
  /\ fpc = "push"
  /\ chan' = Append(chan, Head(fout))
  /\ fout' = Tail(fout)
  /\ fpc' = IF Len(fout) = 1 THEN "idle" ELSE "push"
  /\ UNCHANGED <<fl, fshard, fqueue, fsize, now, cacheVars, writerVars>>

\* flush.go:108-116: c.ChanForDB <- bag, blocking while the channel is full.
FlushPush ==
  /\ fpc = "push"
  /\ Len(chan) < ChanCap
  /\ chan' = Append(chan, Head(fout))
  /\ fout' = Tail(fout)
  /\ fpc' = IF Len(fout) = 1 THEN "idle" ELSE "push"
  /\ UNCHANGED <<fl, fshard, fqueue, fsize, now, cacheVars, writerVars>>

-----------------------------------------------------------------------------
(* Whisper.Run: receive a bag, then SynsWhisperFile.Store it *)

WriterTake(w) ==
  /\ wbag[w] = <<>>
  /\ chan # <<>>
  /\ wbag' = [wbag EXCEPT ![w] = <<Head(chan)>>]
  /\ chan' = Tail(chan)
  /\ UNCHANGED <<store, written, now, cacheVars, flushVars>>

\* UpdateMany(points) in bag order: a later point of a timestamp overwrites.
RECURSIVE UpdateMany(_, _)
UpdateMany(file, data) ==
  IF data = <<>> THEN file
  ELSE UpdateMany([file EXCEPT ![Head(data).ts] = Head(data).id], Tail(data))

\* Mutant: the bag's points written newest first.
WriterStoreReversed(w) ==
  /\ wbag[w] # <<>>
  /\ LET b == wbag[w][1]
     IN  /\ store' = [store EXCEPT ![b.metric] = UpdateMany(@, Reverse(b.data))]
         /\ written' = written \cup { b.data[i].id : i \in 1..Len(b.data) }
  /\ wbag' = [wbag EXCEPT ![w] = <<>>]
  /\ UNCHANGED <<now, cacheVars, flushVars, chan>>

WriterStore(w) ==
  /\ wbag[w] # <<>>
  /\ LET b == wbag[w][1]
     IN  /\ store' = [store EXCEPT ![b.metric] = UpdateMany(@, b.data)]
         /\ written' = written \cup { b.data[i].id : i \in 1..Len(b.data) }
  /\ wbag' = [wbag EXCEPT ![w] = <<>>]
  /\ UNCHANGED <<now, cacheVars, flushVars, chan>>

-----------------------------------------------------------------------------

Init ==
  /\ now = 0
  /\ items = [m \in DOMAIN InitItems |-> [data |-> InitItems[m], pending |-> <<>>]]
  /\ nextId = 0
  /\ added = {}
  /\ fpc = "idle" /\ fl = 0 /\ fshard = 1
  /\ fqueue = <<>> /\ fsize = 0 /\ fout = <<>>
  /\ chan = <<>>
  /\ wbag = [w \in Writers |-> <<>>]
  /\ store = [m \in Metrics |-> [t \in Times |-> 0]]
  /\ written = {}

FlushStep == FlushStart \/ FlushScanShard \/ FlushSort \/ FlushPush

WriterStep(w) == WriterTake(w) \/ WriterStore(w)

Next ==
  \/ Tick
  \/ \E m \in Metrics, t \in Times : Add(m, t)
  \/ FlushStep
  \/ \E w \in Writers : WriterStep(w)

\* The flush ticker fires every second and the writer goroutines loop on
\* the channel: each is weakly fair.  Add (client traffic) is not.
Fairness == WF_vars(FlushStep) /\ \A w \in Writers : WF_vars(WriterStep(w))

Spec == Init /\ [][Next]_vars /\ Fairness

-----------------------------------------------------------------------------
(* Properties *)

TypeOK ==
  /\ now \in Times
  /\ DOMAIN items \subseteq Metrics
  /\ \A m \in DOMAIN items : items[m] \in [data : Seq(Point), pending : Seq(Point)]
  /\ nextId \in Ids
  /\ added \subseteq [metric : Metrics, ts : Times, id : 1..MaxAdds]
  /\ fpc \in {"idle", "scan", "sort", "push"}
  /\ fl \in 0..2 * Cardinality(Metrics)
  /\ fshard \in 1..Cardinality(Shards) + 1
  /\ fqueue \in Seq(Bag) /\ fout \in Seq(Bag) /\ fsize \in Nat
  /\ chan \in Seq(Bag) /\ Len(chan) <= ChanCap
  /\ wbag \in [Writers -> Seq(Bag)]
  /\ store \in [Metrics -> [Times -> Ids]]
  /\ written \subseteq Ids

\* Occurrences of point id n in a sequence of points / of bags.
Occ(s, n) == Cardinality({ i \in 1..Len(s) : s[i].id = n })
BagsOcc(bs, n) == MapThenSumSet(LAMBDA i : Occ(bs[i].data, n), 1..Len(bs))

\* The copies of point n on its way to whisper: in a bag's PointsToDb, in
\* the flush cycle's queue, in ChanForDB, or held by a writer.
InFlight(n) ==
    MapThenSumSet(LAMBDA m : Occ(items[m].pending, n), DOMAIN items)
  + BagsOcc(fqueue, n) + BagsOcc(fout, n) + BagsOcc(chan, n)
  + MapThenSumSet(LAMBDA w : BagsOcc(wbag[w], n), Writers)

\* Every point passed to Cache.Add is, at every moment, either stored by a
\* writer or on its way there exactly once: MakeChanForDB's drain of
\* PointsToDb, its skip of empty bags, its early return and its pushes,
\* racing with Add on other shards, neither lose nor duplicate a point.
PointAccounted ==
  \A p \in added : InFlight(p.id) + (IF p.id \in written THEN 1 ELSE 0) = 1

\* Cache.Get answers found=true only with every point ever added for the
\* metric in [from, until]: expiry in CachePointBag.Add never drops a point
\* that a later in-window query can ask for.
GetComplete ==
  \A m \in Metrics, from, until \in Times :
    LET r == Get(m, from, until)
    IN  r.found =>
          \A p \in added :
            p.metric = m /\ from <= p.ts /\ p.ts <= until =>
              \E i \in 1..Len(r.points) : r.points[i].id = p.id

\* Points observed by Get are timestamp-ascending (spec 5 and 8): the
\* window kept by CachePointBag.Add is always sorted.
DataSorted ==
  \A m \in DOMAIN items :
    IsSorted(items[m].data, LAMBDA a, b : a.ts <= b.ts)

\* Whisper keeps, for every timestamp, the value of the most recent Add
\* among the points stored for it (last write wins), whichever writer
\* goroutine stored which bag.
LatestWins ==
  \A p \in added :
    p.id \in written =>
      \E q \in added : q.metric = p.metric /\ q.ts = p.ts /\ q.id >= p.id
                       /\ store[p.metric][p.ts] = q.id

\* The abstract pipeline, seen through the cache: the points accepted are
\* those passed to Add, the buffer is those not yet stored, whatever copy
\* of them (PointsToDb, queuePB, ChanForDB, a writer) holds them.
Pipeline == INSTANCE PointPipeline
              WITH pts <- added,
                   buffer <- { p \in added : p.id \notin written },
                   store <- store

\* MakeChanForDB, ChanForDB and the writer goroutines implement the
\* pipeline: each Store writes points that were waiting, never one twice,
\* all of one metric, applying them in Add order (so within one bag the
\* last value of a timestamp wins), and under the ticker's and writers'
\* fairness every waiting point is eventually written.
PipelineRefined == Pipeline!Spec

=============================================================================
