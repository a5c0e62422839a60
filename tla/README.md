# TLA+ models of v-carbon (c-graphite)

This directory holds TLA+ models of the metrics cache daemon in `src/src`.
They are checked with TLC. Every definition is translated from the Go source.
`PROJECT.json` maps each definition to the lines it models, and lists the
runs, the mutants, the findings and the hazards.

## 1. Inventory

| Component | Source | State it keeps | Operations that change state |
|---|---|---|---|
| Point / PointBag types | `common/point.go` | none (values) | `ParseFromStr` (line to MetricPoint), `PointBag.Append` |
| Sharded cache | `cache/cache.go` | 1024 shards, each with a lock and a map metric → `CachePointBag`; atomic `size` counter | `Cache.Add`, reads `Get`, `GetMetricInfo`, `Len`, `Size` |
| Per-metric buffer `CachePointBag` | `cache/cache.go` | `Data` (the window of recent points), `PointsToDb` (pending, not yet flushed), `duration` = 3600 | `Add` (expire prefix, insertion-sort one point, append to pending), `GetPointBagForDb` (snapshot and reset pending) |
| Flush orchestrator | `cache/flush.go`, `persists/persist.go` | write strategy; per cycle `l`, `queuePB`, `size` | `MakeChanForDB`, run every second by `PersistManager.Run` |
| Hand-off channel | `cache/cache.go:117` | `ChanForDB`, capacity 1M | send in `MakeChanForDB`, receive in `Whisper.Run` |
| Whisper writer pool | `persists/whisper/whisper.go` | `wfs` map metric → `SynsWhisperFile` (schema, aggregation, file lock) | `Run` (NumCPU goroutines), `getSWF`, `Store`, `Start`, `Stop`, `loadMetricList`, `dumpMetricList` |
| Dump / restore | `cache/grace.go`, `cache/wr.go` | the dump files in `DumpPath` | `Dump`, `DumpInStr`, `RestoreAll`, `RestoreFromFile`, `ReadLines`, `WriteTo` |
| Retention / aggregation matcher | `persists/whisper/load_schema_conf.go`, `load_aggregation_conf.go` | rule lists, immutable after load | `ReadSchemasConfig` (priority, sort), `WhisperSchemas.Match`, `WhisperAggregation.Match` |
| Application life cycle | `app/app.go`, `v-carbon.go` | the components above | `App.Start` (restore, start persist, receivers, API, stats), `App.Stop` (dump, stop receivers, stop persist), `main` (signal, sleep 2 s, exit) |
| Receivers | `receivers/recerver.go`, `receivers/tcp.go` | `ChanPointBagsReceived` (1M), listener | TCP handlers parse lines and send; one `ReceiverManager.Run` goroutine calls `Cache.Add` |
| Self statistics | `common/stat.go`, `app/app.go` `Stat` | metrics registry | every 5 s `common.Flush` calls `Cache.Add` for each stat |
| HTTP API | `app/server.go` | none | `renderHandler` uses `Cache.Get` and falls back to whisper when `found=false`; `cacheHandler` uses `GetMetricInfo` then `Get` |
| Configuration | `app/config.go`, `vendor/...` | config struct | load once |

How they interact: receivers and the stats goroutine call `Cache.Add`. Each
call locks one shard. The persist goroutine runs `MakeChanForDB` every second.
It locks the shards one at a time, drains every bag's `PointsToDb`, sorts the
bags and sends them into `ChanForDB`. NumCPU whisper goroutines receive from
the channel and store the bags. API handlers call `Get` under the shard lock.
`App.Stop` dumps every bag's window to a file. `App.Start` replays such
files through `Cache.Add` before anything else starts.

What makes it hard:
- The flush cycle is not atomic. It takes `Len()` first, then locks the
  shards one by one, while `Add` runs on other shards.
- Four kinds of goroutine touch the same state: ingestion, flush, writers and
  API readers.
- The hand-off channel is bounded, so the flush can block.
- Several writer goroutines store bags of one metric, in no fixed order.
- Shutdown is ordered: dump, stop receivers, stop persist. `main` does not
  wait for it to finish.
- A crash can happen between replaying a dump file and deleting it.
- Expiry depends on the wall clock.

Properties that make each component correct:
- Cache: the window is timestamp-ascending. Expiry drops only points that
  an in-window `Get` can no longer ask for. `Get` keeps its found/absent
  asymmetry.
- Flush: every added point reaches whisper exactly once, eventually. Bags
  go out in strategy order.
- Writers: the last value added for a timestamp is the one stored.
- Dump/restore: every point not yet stored at shutdown is in the dump. A
  restart replays it once. A damaged dump does not stop the process.
- Matcher: it returns the first matching rule in (priority, file order), as
  documented.

## 2. Plan

Modules, in the order they are built (most important behaviour first):

1. **`CarbonCache`** (built). Holds the cache, `CachePointBag.Add`, `Get`, the
   flush cycle step by step, the hand-off channel and the writer pool.
   `MC_CarbonCache` instantiates it.
2. **`DumpRestore`** (built). Models the shutdown sequence of `App.Stop` and
   `main`, `Dump`/`DumpInStr`, the 2 s exit racing the dump, restart, and
   `RestoreAll`/`RestoreFromFile`/`ReadLines` with its panic and remove
   steps. The cache part is taken from `CarbonCache` with INSTANCE. Property:
   every point not stored before exit is restored or stored after the
   restart. Also no restart loop on a truncated file.
3. **`SchemaMatch`** (built). The priority arithmetic `p<<32 - i` at a reduced word
   width, the sort with its non-strict `Less`, and `Match` and
   `WhisperAggregation.Match`. These are pure operators checked against a
   reference definition ("first match by declared priority, then file
   order") over all small rule lists.
4. **`WhisperFiles`** (built, partly). Models `getSWF` (an unlocked map
   read, then check-then-create under `w.mu`), a nil SWF when no schema
   matches, `Store` under the per-file lock, and `loadMetricList` as the
   initial state, the API's unlocked iteration of `w.wfs`, and `Whisper.Stop`
   with `dumpMetricList`. Still open: a dump cut part-way by the exit.
5. **`PointPipeline`** (built). An abstract specification: points are
   added, wait in a buffer, and are each stored exactly once. `CarbonCache`
   is shown to refine it (section 3, "Refinement").
6. An abstract window spec for `Get` (dropped). The window is not "the
   added points with `ts >= now - duration`". The expiry scan keeps the last
   expired point, and a future-stamped first point pins every later one. No
   simple refinement mapping exists. `GetComplete` states what `Get`
   promises as an invariant instead. The clock that steps back is in
   section 9.

## 3. The `CarbonCache` model

State (`CarbonCache.tla`):
- `now` is `time.Now().Unix()`.
- `items` is the union of the shard maps. Its domain is the set of metrics
  present. Each entry is `[data, pending]` (`Data`, `PointsToDb`).
- `fpc`, `fl`, `fshard`, `fqueue`, `fsize`, `fout` are the locals and
  position of `MakeChanForDB`.
- `chan` is `ChanForDB`.
- `wbag` is the bag each writer goroutine has received and not yet stored.
- `store` is the content of the whisper files, as metric → timestamp → value.
- `nextId`, `added` and `written` are history variables.

A point is `[ts, id]`. The id is unique and grows with each `Add`. It stands
for the value, so "which value is stored for a timestamp" can be observed.
The shard of a metric is the constant function `ShardOf`, which stands for
`Hash_fnv32(key) % 1024`.

Actions:
- `Add(m, t)` is all of `Cache.Add`: get-or-create the bag, then
  `CachePointBag.Add`. The parts of `CachePointBag.Add` are `CutIndex` (the
  scan loop with its boundary), `Truncate`, `Bubble` (the insertion loop,
  `i > 0` included) and the append to pending. It is one step, because the
  shard lock is held throughout.
- `Tick` advances the clock.
- `FlushStart` is `l := c.Len() * 2`. `Len` locks shards one by one, but
  metrics are never removed, so its result equals the count at some instant
  of the scan. One atomic step gives the same results.
- `FlushScanShard` is one iteration of the shard loop, under that shard's
  lock. It calls `GetPointBagForDb` on every bag, resets pending, skips
  empty bags and counts `size`. Go's map order is random. The sort that
  follows is not stable, so the collection order does not matter.
- `FlushSort` lets the unstable `sort.Sort` pick any key-sorted order. Then
  comes the early return `if l == 0 || size == 0`.
- `FlushPush` sends one bag. It blocks while the channel is full.
- `WriterTake(w)` and `WriterStore(w)` are one loop of `Whisper.Run`:
  receive, then `Store`. `UpdateMany` writes the bag's points in order, so
  a later point of the same timestamp overwrites an earlier one.

Fairness: `WF` on the flush cycle, because the ticker in
`PersistManager.Run` fires every second and the cycle never waits on
anything except channel room. `WF` on each writer goroutine, because each
loops forever on the channel. `Add` and `Tick` are not fair: clients may
stop sending.

Not in this model:
- The atomic `size` counter. It is for monitoring only, and no decision
  reads it except a log line in `Dump`.
- `GetMetricInfo` and `Len` as queries.
- Value formatting.
- The whisper file format. Retention and rollup are left out: a file is
  modelled as one slot per timestamp.

### Runs

The constants are two metrics on two shards, `Duration = 1`, `ChanCap = 1`
(so the flush blocks on a full channel), and the `sort` strategy. A cycle
collects bags of both metrics, and both shards are scanned while `Add`
interleaves. Timestamps run over `0..MaxTime`, so points do expire.

| Run | Init | Bounds | Expect | What it shows |
|---|---|---|---|---|
| `cache_safety` | m1 already present, its point stored; 2 writers | `MaxTime = 2`, 3 Adds | pass | `PointAccounted`: every added point is, at all times, stored or in flight exactly once. `GetComplete`: `Get` with `found=true` returns every added point in the range. `PipelineRefined`: the cache, flush cycle, channel and writers together implement `PointPipeline`, so every added point is eventually stored, once, and one write applies a metric's points oldest first. |
| `cache_cold_start` | empty cache; 1 writer | `MaxTime = 2`, 2 Adds | violation of `PointAccounted` | The first flush cycle runs with `Len()==0`. A concurrent first `Add` creates a metric in a not-yet-scanned shard. The cycle drains it and then returns at `l == 0` without pushing: the point is lost. |
| `cache_order` | empty cache; 1 writer | `MaxTime = 2`, 2 Adds | violation of `DataSorted` | `Add(x, T)` then `Add(x, T-1)` leaves `[T, T-1]`: the insertion loop never compares position 0. |

The two pass runs start from a cache that already holds a metric. The only
way to lose points (the `l == 0` return) needs `Len() = 0`, and
`cache_cold_start` checks that case separately. Once a metric exists,
`Len()` is never 0 again. So the pass runs show that the rest of the cycle
is correct: the drain and reset, the skip of empty bags, the sort and the
blocking push, all racing with `Add` on both shards. Three Adds at four
timestamps let a point expire while an older one is still pending, and
let two cycles be in the channel and at the writers at once. The writers
are interchangeable goroutines, but the run checks a liveness property, and
TLC's liveness checking is not sound under symmetry, so no symmetry is
used. With timestamps `0..2` and `Duration = 1`, a point of time 0 expires
once the clock reaches 2 while a later one is still pending.

### Refinement

`PointPipeline.tla` states what the pipeline promises, with no cache,
shards, channel or writers. Its state is `pts` (accepted points), `buffer`
(accepted, not yet written) and `store`. `Accept(m, t)` adds a point.
`Write(m, S)` takes any non-empty set of waiting points of one metric and
applies them in `Add` order. Writes of different sets may happen in any
order, which is all that several writers can give: with the constants of
`cache_safety` and `INVARIANT LatestWins`, TLC finds two bags of m1 from
consecutive cycles taken by the two writers and stored in reverse order, so
the older value for a timestamp wins. A `Write` that had to follow `Add`
order per metric would not be refined.
`WriteSome` is weakly fair: nothing waits for ever.

`CarbonCache` instantiates it with `pts <- added`, `buffer <- the added
points not yet written`, and the same `store`. Every `CarbonCache` step other
than `Add` and `WriterStore` leaves all three unchanged (a stuttering step).
`Add` is `Accept`, and `WriterStore` is `Write` of the bag's points. The
property `PipelineRefined == Pipeline!Spec` is checked in `cache_safety`.
It holds only because the bag's data is stored in order, and the pass run
starts from a non-empty cache (see below). The mutant that stores a bag
newest first breaks it.

## 4. The `DumpRestore` model

`DumpRestore.tla` composes the cache with the life cycle. `C == INSTANCE
CarbonCache` supplies the cache, flush and writer actions unchanged. The
module adds:
- `phase` for the process state: up, stopping, down, restoring or failed.
- `spc` for the position in `App.Stop`.
- `dshard` and `dlines` for `DumpInStr`'s shard loop and the lines written.
- `files` for the dump files on disk, in creation order.
- `flushOn` and `wOn` for the flush and writer goroutines that are still running.
- `starts` for the signals received so far.
- `dumped` as a history variable.

A dump line is `[metric, ts, id]`. `WriteTo` prints the three fields, and
`ParseFromStr` reads the same three back.

Actions:
- `Signal` is the handler goroutine in `v-carbon.go`.
- `DumpShard` is one shard of `DumpInStr`. It writes the bags in any map
  order. After the last shard the file is closed.
- `StopReceivers`, `StopPersist` and `StopWriter(w)` are the rest of
  `App.Stop`. Each exit send waits for its receiving `select`.
- `Exit` is `main` returning after its 2 s sleep. If `Dump` has not
  finished, the file holds a prefix of the lines, and the last line may be
  torn.
- `Restart`, `RestoreFromFile` and `StartServices` are `App.Start`.
  `RestoreFromFile` is `ReadLines` folded over the file with
  `CarbonCache`'s `CacheAdd`. An unfinished line panics (`failed`). On
  success the file is removed.
- `Ingest` stays enabled while the process is stopping, because the stats
  goroutine is never stopped.

Fairness:
- The cache actions are weakly fair, as in `CarbonCache`.
- `DumpShard`, `StopReceivers`, `Exit`, `Restart` and the restore steps are
  weakly fair, because each runs as soon as its goroutine is scheduled.
- `StopPersist` and `StopWriter` are strongly fair. Their sends on
  unbuffered exit channels succeed only when the receiving `select` is
  reached. Go picks at random among the ready cases, so each is enabled
  again and again, not continuously.

Constants: two metrics on two shards, one writer, `Duration = 1`,
`ChanCap = 1`, and one shutdown (`MaxStarts = 1`). `DumpBeforeExit = TRUE`
restricts `Exit` to after `App.Stop` has finished. The runs with FALSE let
the exit cut the dump anywhere.

| Run | Bounds | Expect | What it shows |
|---|---|---|---|
| `restart_dumped` | `MaxTime = 1`, 2 Adds, exit anywhere | pass | `DRTypeOK`. `DumpedEventuallyStored`: every point in a closed dump file is eventually stored in whisper, across exit, restart, replay, flush and writers. |
| `restart_durable` | `MaxTime = 2`, 2 Adds, `App.Stop` completes | violation of `ShutdownDurable` | `Dump` runs first, while ingestion and flushing go on. A point added or drained after its shard was dumped, and not stored before the writers stop, is gone after the restart. |
| `restart_torn` | `MaxTime = 1`, 1 Add, exit anywhere | violation of `StartupSucceeds` | The 2 s exit cuts the dump mid-line. Every later start panics in `RestoreFromFile`, and the file is never removed. |
| `restart_replay_order` | `MaxTime = 1`, 2 Adds, `App.Stop` completes | violation of `ReplayLatestWins` | Two values for one timestamp sit newest-first in `Data`. Replay re-adds them in that order, and the older value is stored last. |

## 5. The `SchemaMatch` model

`SchemaMatch.tla` models `Whisper.loadConfig`:
- `ReadAggregationSection` and `ReadSchemaSection` each model one iteration
  of a reader's section loop.
- An error in the aggregation file makes `loadConfig` keep the default.
- An error in the schemas file is `Fatalln`.
- `SchemaPriority` is `p<<32 - i`.
- `SortSchemas` is the insertion sort `sort.Sort` uses for up to 12
  elements, with the non-strict `Less`.
- `Match` and `AggrMatch` are the two first-match loops, and `Policy` is
  what `getSWF` builds from them.

A section is a record whose pattern is the set of metrics its regexp
matches. The scaled integer keeps what matters: `int64` is W = 6 bits, the
shift 32 is S = 3, and file positions stay below `2^S`.

`Init` enumerates every configuration file pair up to 3 schema and 2
aggregation sections, with priorities in {-1, 0, 1}. `PolicyAsDocumented`
compares the loaded result, for every metric, with `RefSchema`/`RefAggr`:
the highest declared priority wins, then file order. It also checks that
nil is returned exactly when no rule matches. The run `schema_match` covers
about 880k states and passes. The priority overflow (`p >= 2^31`) is listed
as a hazard. Setting `Priorities <- {4}` with `MaxSections = 2` reproduces
it: TLC finds `PolicyAsDocumented` violated.

## 6. The `WhisperFiles` model

`WhisperFiles.tla` splits each writer goroutine's loop into:
- `Take`, which receives a bag.
- `ReadCached`, the unlocked `w.wfs` read.
- `LockMu`.
- `MatchSchema`, which returns nil and unlocks when no schema matches.
- `Insert`, which creates a new `SynsWhisperFile`, inserts it and unlocks.
- `LockSwf`, which takes the file mutex and panics on nil.
- `StoreDone`.

and adds two more actors:
- `IterateUnlocked` is `FindNodes` or `Match` from the HTTP API, which
  range over `w.wfs` without `w.mu`. While a writer is inside its insert,
  Go's runtime may abort with a fatal error. Since only the crash changes
  state, only the crash is an action.
- `Whisper.Stop` is `StopBegin`, then one `ExitWriter(w)` per exit sent on
  the unbuffered `w.exit`, then `DumpMetricList`. A send completes only when
  an idle writer is at its `select`. `DumpMetricList` writes `DOMAIN w.wfs`
  to the list file, and is possible only after the last exit was taken.

A `SynsWhisperFile` is an id, and 0 is nil. `Init` is `loadMetricList`: every
listed name is cached, and an unmatched one as nil. A map read while another
writer is inside its insert is a data race. It is modelled as a choice: the
runtime's fatal error, or a completed read. `crash` records which fault
ended the process: `"nilstore"` (`Store` on the nil handle), `"mapread"`
(`getSWF`'s unlocked read during an insert) or `"mapiter"` (the API's range
during an insert). Each fault has its own property, so a trace shows the
fault it is about.

Fairness: each writer's steps, and each exit it takes, are strongly fair. `sync.Mutex` switches to
starvation mode after 1 ms, so a waiter on a lock that is released again
and again eventually gets it. An exit send waits for a writer that keeps coming back to
its `select`, so it is strongly fair too. `DumpMetricList` runs in the
stopping goroutine once the sends are done, so it is weakly fair. `Take` is
not fair, because the channel may stay empty. `StopBegin` is not fair:
the process need not be stopped. The model stops when the bag bound is used up or after a
crash, so deadlock is not checked.

| Run | Constants | Expect | What it shows |
|---|---|---|---|
| `swf_complete` | 2 writers; m1 cached, m2 cached nil, m3 new; 4 bags (each writer can take two) | pass | `BagCompletes`: a writer that received a bag gets back to its `select`, unless the process died. `w.mu` and the file mutexes never wait on each other. `StopCompletes`: once `Stop` starts, every exit is taken and the list dumped (or the process died). `MetricListComplete`: the dumped list names every metric in `w.wfs`, because no writer is left to insert one. |
| `swf_race` | 2 writers, one new metric, 2 bags | violation of `FileExclusive` | Both writers miss m1. `getSWF` does not re-check under `w.mu`, so both create a `SynsWhisperFile`, and two `UpdateMany` run on one `.wsp` file. |
| `swf_panic` | 2 writers; m1 configured, m2 not | violation of `NoMapRace` | Both writers receive a bag of m1. One is inside its insert under `w.mu` while the other reads `w.wfs` without the lock, and the runtime aborts the process. |

The other two faults are reproduced with the same cfg:
- With `INVARIANT NoNilStore`, TLC finds a 6-state trace. A bag of m2 gets
  the nil handle from `getSWF`, and `Store` on it panics (`whisper.go:249`).
- With `INVARIANT NoIterationRace`, TLC finds a 6-state trace. An API
  `Match` ranges over `w.wfs` while a writer inserts m1 (`whisper.go:180`).

Neither has a run of its own; the hazards in `PROJECT.json` record them.

## 7. The `Receivers` model

`Receivers.tla` models the ingestion front end, `receivers/recerver.go` and
`receivers/tcp.go`:
- `RunStart` is `ReceiverManager.Start`: `go rm.Run()`, and Run starts
  the TCP receiver (`go rcv.Listen()`).
- `Receive` is Run's select taking a point and calling `CachePB`
  (`Cache.Add`); `cached` records the ids in order. `RunExit` is the select
  taking `rm.exit`: Run returns, and its deferred
  `close(ChanPointBagsReceived)` runs. Points left in the channel are
  dropped.
- `Listen` is `net.ListenTCP` (or its error). The Accept loop is split in
  two. `AcceptCall` reads `rcv.listener`. `AcceptConn(c)`, `AcceptClosed`
  and `AcceptNil` are the three outcomes of `Accept`: a new connection and
  its handler goroutine; "use of closed network connection", which ends
  the loop; EINVAL on a nil listener, which the loop ignores for ever
  (`lpc = "spin"`).
- `HandleRead(c)` is one `ReadBytes`: a line that `ParseFromStr` accepts or
  rejects, or the end of the connection. `PipeOut(c)` is the send on the
  channel. It blocks while the channel is full and panics once it is closed.
- `StopSend`, `StopClose` and `StopNil` are `ReceiverManager.Stop`:
  `rm.exit <- true` (buffered, so it does not block), then `TCPServer.Stop`,
  which closes the socket and then sets `rcv.listener = nil`. Accepted
  connections stay open.

`Stop` is enabled from the start: the signal goroutine of `main` runs while
`App.Start` is still restoring, so `Stop` may come before `Start`. A
connection is a model value; a point is an id. The model checks safety
only, so no fairness is assumed, and it stops after a panic.

| Run | Constants | Expect | What it shows |
|---|---|---|---|
| `rcv_shutdown` | 2 connections, 2 lines each, channel capacity 1 | violation of `NoSendOnClosed` | TLC reports one of two 8-step traces, and both panic with "send on closed channel". (a) A connection is accepted and a line parsed. Stop puts `true` in `rm.exit`, Run takes it and closes the channel, and the handler's `pipeOut` panics. Stop never closes accepted connections. (b) Stop comes before Start: Run takes the queued exit at once and closes the channel. `Listen` then opens a socket that nothing closes, and its handler's first point panics. Either way the process dies inside `App.Stop`, before `PersistManager.Stop` and `dumpMetricList`. |

In the same state space `AcceptNil` is reachable: Stop closes the socket and
clears the field just after `Listen` stored it, before the first `Accept`.
The loop then spins until `main` exits.

## 8. Findings

See `PROJECT.json` "findings". Each names the run that shows it:
- The lost first points (`flush.go:104`).
- The unsorted window (`cache.go:56`).
- The dump taken before ingestion stops (`app.go:105`).
- The panic loop on a torn dump (`grace.go:128`).
- The older value winning after replay (`cache.go:57`).
- The duplicate file handle (`whisper.go:217`).
- The concurrent map access (`whisper.go:215`).
- The send on the closed receiver channel at shutdown (`recerver.go:33`).

The nil handle (`whisper.go:249`) and the API's concurrent map iteration
(`whisper.go:180`) are reproduced in section 6, but have no run of their
own.

The reordering of stores across writer goroutines (`whisper.go:247`) is no
longer a run of its own. The abstract `PointPipeline` states it, and the
hazard in `PROJECT.json` says how to reproduce it.

## 9. Not modelled

spec.md (line 6) treats these as external collaborators: the network
listeners, the time-series file format, the HTTP query API, configuration
loading, and self-reporting. Only the listeners are modelled (section 7),
because their shutdown interacts with the cache. Each item below has a
reason. The hazards in `PROJECT.json` say what each
one would show.

- **The text of a received line.** `ParseFromStr` is a choice between
  accept and reject. By reading the code (`point.go:70-86`), the
  timestamp's parse error overwrites the value's. An unparsable value is
  therefore accepted as 0. A unit test of `ParseFromStr` reaches this, so it
  is not a model-checking question.
- **`CreateNewReceiver` and `RegisterReceiver`.** They run once, in
  `App.Init`.
- **Receivers composed with `DumpRestore`.** The receivers are a model of
  their own. In `DumpRestore`, ingestion is any `Cache.Add`.
  `restart_dumped` already takes about two minutes.
- **The HTTP API.** Its handlers only read state. `Get` is in
  `CarbonCache`. The unlocked iteration of `Match` and `FindNodes` is in
  `WhisperFiles`.
- **The fallback to the whisper file when `Get` answers `found=false`**
  (`server.go:194`). Modelling it would need the `.wsp` contents, and the
  models keep only the set of stored ids.
- **Self statistics.** They reach the system only through `Cache.Add`,
  which `DumpRestore` covers. The counters live in a metrics library that is
  not in this repository. That library's Count-then-Clear race
  (`stat.go:38`) cannot be translated.
- **Configuration loading other than the schema files.** Its values are the
  models' constants.
- **A `dumpMetricList` cut part-way by the 2 s exit, and the list file's
  bytes.**
- **Whisper's file format.** `SynsWhisperFile.Store` (`whisper.go:29-77`)
  is one step that always writes (`WriterStore` in `CarbonCache`,
  `StoreDone` in `WhisperFiles`). Its early returns are not modelled: an
  Open error other than "not exist", or a failed MkdirAll or Create
  (lines 37-55). Such a return drops the bag silently. So `PointAccounted`
  and `PipelineRefined` hold only when these I/O calls succeed. The
  deferred unlock still runs on those paths, so the lock properties are not
  affected.
- **Dump file creation errors and failing `os.Remove`** (`grace.go:55`,
  `grace.go:137`). The model assumes both succeed. A failing `Remove` is a
  restart loop of the same shape as `restart_torn`.
- **A signal during restore, and a wall clock that steps back.** Both break
  a property that holds today: `DumpedEventuallyStored` and `GetComplete`.
  Each would need a fault action that the passing runs never take, so
  both are listed as hazards with what they would show.

What is left here can only be checked as a further violation of a property
that already holds in the passing runs: the render fallback, the clock
stepping back, a signal during restore, and failing create or remove. Each
would need a fault action that the passing runs must not take. The hazards
in `PROJECT.json` describe each one. The passing runs' bounds were reviewed
as well:
- `swf_complete` now allows four bags, so each writer can take two.
- Three writers take more than nine minutes.
- For `schema_match`, adding priority 0 changes nothing, because 0 is
  always a possible priority.

