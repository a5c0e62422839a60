---------------------------- MODULE WhisperFiles ----------------------------
(***************************************************************************)
(* The whisper writer goroutines and their file handles                    *)
(* (src/persists/whisper/whisper.go).                                      *)
(*                                                                         *)
(*  - Whisper.Run: receive a bag, swf := getSWF(bag.Metric), swf.Store.    *)
(*  - getSWF: an unlocked read of w.wfs; on a miss, w.mu.Lock, Match the   *)
(*    schema (nil when none matches), create a SynsWhisperFile and insert  *)
(*    it into w.wfs, unlock.  The map is not read again under the lock.    *)
(*  - SynsWhisperFile.Store: the file's own mutex around Open/Create and   *)
(*    UpdateMany.  On a nil receiver, swf.Lock() panics.                   *)
(*  - loadMetricList at Start: w.wfs[s] = w.getSWF(s) for every name in    *)
(*    the metric list file, so an unmatched name is cached as nil.         *)
(*                                                                         *)
(* A SynsWhisperFile is an id 1..swfs, 0 standing for nil.  Which metrics  *)
(* a schema matches is the constant Matched (see SchemaMatch).  A Go map   *)
(* read concurrent with a map write is a data race: the runtime may throw  *)
(* "concurrent map read and map write", or the read completes.             *)
(***************************************************************************)
EXTENDS Integers, FiniteSets, TLC

CONSTANTS
  Metrics,    \* metric names (model values)
  Matched,    \* metrics some storage schema matches
  Listed,     \* metrics in the metirc-directory file read by loadMetricList
  Writers,    \* Whisper.Run goroutines (runtime.NumCPU())
  MaxBags,    \* bound on the bags taken from ChanForDB
  NoOne       \* model value: a free mutex

ASSUME Matched \subseteq Metrics /\ Listed \subseteq Metrics /\ NoOne \notin Writers

VARIABLES
  wfs,      \* w.wfs: metric -> SynsWhisperFile id, 0 for a cached nil
  swfs,     \* SynsWhisperFile objects created so far
  mu,       \* holder of w.mu
  owner,    \* holder of each SynsWhisperFile's mutex
  pc,       \* per writer: position in Run / getSWF / Store
  bag,      \* per writer: metric of the bag being handled
  cur,      \* per writer: the SynsWhisperFile getSWF returned
  inFile,   \* per metric: writers inside UpdateMany on its .wsp file
  taken,    \* bags received so far
  crash,    \* what ended the process: "none", "nilstore" (Store on a nil
            \* swf), "mapread" (getSWF's read racing an insert) or
            \* "mapiter" (the API's range racing an insert)
  stage,    \* Whisper.Stop: "run", "stopping", "stopped"
  sent,     \* Whisper.Stop: exit messages taken by writer goroutines
  listed    \* names dumpMetricList wrote to metirc-directory

vars == <<wfs, swfs, mu, owner, pc, bag, cur, inFile, taken, crash,
          stage, sent, listed>>
stopVars == <<stage, sent, listed>>

\* A panic or a fatal runtime error has ended the process.
crashed == crash # "none"

\* Ids SynsWhisperFile objects can have in a run.
SwfIds == 1..(Cardinality(Listed) + MaxBags)

-----------------------------------------------------------------------------

\* Whisper.Run: pb = <-w.ChanForDB, a bag of any metric.
Take(w) ==
  /\ ~crashed /\ pc[w] = "idle" /\ taken < MaxBags /\ stage # "stopped"
  /\ \E m \in Metrics : bag' = [bag EXCEPT ![w] = m]
  /\ taken' = taken + 1
  /\ pc' = [pc EXCEPT ![w] = "read"]
  /\ UNCHANGED <<wfs, swfs, mu, owner, cur, inFile, crash, stopVars>>

\* getSWF: if swf, ok := w.wfs[metric]; ok && swf != nil, without w.mu.
\* While another writer is inside its map insert, the read races with it.
ReadCached(w) ==
  /\ ~crashed /\ pc[w] = "read"
  /\ \/ /\ \E v \in Writers \ {w} : pc[v] = "insert"
        /\ crash' = "mapread"
        /\ UNCHANGED <<pc, cur, stopVars>>
     \/ /\ IF bag[w] \in DOMAIN wfs /\ wfs[bag[w]] # 0
             THEN /\ cur' = [cur EXCEPT ![w] = wfs[bag[w]]]
                  /\ pc' = [pc EXCEPT ![w] = "lockswf"]
             ELSE /\ pc' = [pc EXCEPT ![w] = "lockmu"]
                  /\ UNCHANGED cur
        /\ UNCHANGED crash
  /\ UNCHANGED <<wfs, swfs, mu, owner, bag, inFile, taken, stopVars>>

\* getSWF, miss: w.mu.Lock().
LockMu(w) ==
  /\ ~crashed /\ pc[w] = "lockmu" /\ mu = NoOne
  /\ mu' = w
  /\ pc' = [pc EXCEPT ![w] = "match"]
  /\ UNCHANGED <<wfs, swfs, owner, bag, cur, inFile, taken, crash, stopVars>>

\* getSWF under w.mu: w.schemas.Match(metric); no schema returns nil (and
\* the deferred Unlock runs).  The aggregation Match never fails: it falls
\* back to the Default item.
MatchSchema(w) ==
  /\ ~crashed /\ pc[w] = "match"
  /\ IF bag[w] \in Matched
       THEN /\ pc' = [pc EXCEPT ![w] = "insert"]
            /\ UNCHANGED <<mu, cur, stopVars>>
       ELSE /\ mu' = NoOne
            /\ cur' = [cur EXCEPT ![w] = 0]
            /\ pc' = [pc EXCEPT ![w] = "lockswf"]
  /\ UNCHANGED <<wfs, swfs, owner, bag, inFile, taken, crash, stopVars>>

\* Mutant: the deferred w.mu.Unlock() is missing on the success path.
InsertKeepsMu(w) ==
  /\ ~crashed /\ pc[w] = "insert"
  /\ swfs' = swfs + 1
  /\ wfs' = (bag[w] :> swfs + 1) @@ wfs
  /\ cur' = [cur EXCEPT ![w] = swfs + 1]
  /\ pc' = [pc EXCEPT ![w] = "lockswf"]
  /\ UNCHANGED <<mu, owner, bag, inFile, taken, crash, stopVars>>

\* getSWF: w.wfs[metric] = &SynsWhisperFile{schema, aggr}; return it; the
\* deferred w.mu.Unlock().
Insert(w) ==
  /\ ~crashed /\ pc[w] = "insert"
  /\ swfs' = swfs + 1
  /\ wfs' = (bag[w] :> swfs + 1) @@ wfs
  /\ cur' = [cur EXCEPT ![w] = swfs + 1]
  /\ mu' = NoOne
  /\ pc' = [pc EXCEPT ![w] = "lockswf"]
  /\ UNCHANGED <<owner, bag, inFile, taken, crash, stopVars>>

\* SynsWhisperFile.Store: swf.Lock().  On a nil swf this is a nil pointer
\* dereference; the panic is not recovered in Run and ends the process.
LockSwf(w) ==
  /\ ~crashed /\ pc[w] = "lockswf"
  /\ IF cur[w] = 0
       THEN /\ crash' = "nilstore"
            /\ UNCHANGED <<owner, pc, inFile, stopVars>>
       ELSE /\ owner[cur[w]] = NoOne
            /\ owner' = [owner EXCEPT ![cur[w]] = w]
            /\ inFile' = [inFile EXCEPT ![bag[w]] = @ \cup {w}]
            /\ pc' = [pc EXCEPT ![w] = "store"]
            /\ UNCHANGED crash
  /\ UNCHANGED <<wfs, swfs, mu, bag, cur, taken, stopVars>>

\* Store: Open or Create the file, UpdateMany, Close, then the deferred
\* swf.Unlock(); back to the select of Run.
StoreDone(w) ==
  /\ ~crashed /\ pc[w] = "store"
  /\ owner' = [owner EXCEPT ![cur[w]] = NoOne]
  /\ inFile' = [inFile EXCEPT ![bag[w]] = @ \ {w}]
  /\ pc' = [pc EXCEPT ![w] = "idle"]
  /\ UNCHANGED <<wfs, swfs, mu, bag, cur, taken, crash, stopVars>>

\* Whisper.Match and FindNodes (HTTP API): `for k := range w.wfs` without
\* w.mu.  Iterating while a writer inserts is a concurrent map iteration
\* and write, which the runtime may abort on; otherwise the read leaves no
\* trace in the state.
IterateUnlocked ==
  /\ ~crashed
  /\ \E w \in Writers : pc[w] = "insert"
  /\ crash' = "mapiter"
  /\ UNCHANGED <<wfs, swfs, mu, owner, pc, bag, cur, inFile, taken, stopVars>>

-----------------------------------------------------------------------------
(* Whisper.Stop *)

\* PersistManager.Stop calls Whisper.Stop once its own loop has exited.
StopBegin ==
  /\ ~crashed /\ stage = "run"
  /\ stage' = "stopping"
  /\ UNCHANGED <<wfs, swfs, mu, owner, pc, bag, cur, inFile, taken, crash,
                 sent, listed>>

\* One `w.exit <- true` of the loop over NumCPU: unbuffered, it completes
\* when a goroutine is back in its select, between two Stores.
ExitWriter(w) ==
  /\ ~crashed /\ stage = "stopping" /\ sent < Cardinality(Writers)
  /\ pc[w] = "idle"
  /\ pc' = [pc EXCEPT ![w] = "exited"]
  /\ sent' = sent + 1
  /\ UNCHANGED <<wfs, swfs, mu, owner, bag, cur, inFile, taken, crash,
                 stage, listed>>

\* Mutant: the loop sends one exit message more than there are goroutines.
DumpMetricListOneMore ==
  /\ ~crashed /\ stage = "stopping" /\ sent = Cardinality(Writers) + 1
  /\ listed' = DOMAIN wfs
  /\ stage' = "stopped"
  /\ UNCHANGED <<wfs, swfs, mu, owner, pc, bag, cur, inFile, taken, crash,
                 sent>>

\* Mutant: the loop stops one goroutine short.
DumpMetricListEarly ==
  /\ ~crashed /\ stage = "stopping" /\ sent = Cardinality(Writers) - 1
  /\ listed' = DOMAIN wfs
  /\ stage' = "stopped"
  /\ UNCHANGED <<wfs, swfs, mu, owner, pc, bag, cur, inFile, taken, crash,
                 sent>>

\* After the loop: dumpMetricList writes every key of w.wfs, nil entries
\* included, one per line.
DumpMetricList ==
  /\ ~crashed /\ stage = "stopping" /\ sent = Cardinality(Writers)
  /\ listed' = DOMAIN wfs
  /\ stage' = "stopped"
  /\ UNCHANGED <<wfs, swfs, mu, owner, pc, bag, cur, inFile, taken, crash,
                 sent>>

-----------------------------------------------------------------------------

\* Start: loadMetricList caches getSWF(s) for every listed name, nil for a
\* name no schema matches; then the writer goroutines start idle.
Init ==
  /\ \E ids \in [Listed -> SwfIds] :
       /\ \A m, n \in Listed : m # n => ids[m] # ids[n]
       /\ \A m \in Listed : ids[m] <= Cardinality(Listed)
       /\ wfs = [m \in Listed |-> IF m \in Matched THEN ids[m] ELSE 0]
  /\ swfs = Cardinality(Listed)
  /\ mu = NoOne
  /\ owner = [i \in SwfIds |-> NoOne]
  /\ pc = [w \in Writers |-> "idle"]
  /\ bag = [w \in Writers |-> CHOOSE m \in Metrics : TRUE]
  /\ cur = [w \in Writers |-> 0]
  /\ inFile = [m \in Metrics |-> {}]
  /\ taken = 0
  /\ crash = "none"
  /\ stage = "run" /\ sent = 0 /\ listed = {}

Step(w) ==
  \/ ReadCached(w) \/ LockMu(w) \/ MatchSchema(w) \/ Insert(w)
  \/ LockSwf(w) \/ StoreDone(w)

Next ==
  \/ \E w \in Writers : Take(w) \/ Step(w) \/ ExitWriter(w)
  \/ IterateUnlocked \/ StopBegin \/ DumpMetricList

\* Each writer goroutine keeps running; sync.Mutex hands a mutex to a
\* waiter that has waited over 1 ms (starvation mode), so a lock that is
\* free again and again is eventually taken: strong fairness.  Take is not
\* fair: the channel may stay empty.
\* The exit send is taken only when the goroutine's select is reached, and
\* Go picks among ready cases at random: strong fairness as well.  Once
\* the loop is done, dumpMetricList runs: weak fairness.
Fairness ==
  /\ \A w \in Writers : SF_vars(Step(w)) /\ SF_vars(ExitWriter(w))
  /\ WF_vars(DumpMetricList)

\* The run ends when Stop is done, the bags are used up or the process has
\* died.
Spec == Init /\ [][Next]_vars /\ Fairness

-----------------------------------------------------------------------------
(* Properties *)

\* The per-file mutex makes Stores of one metric's .wsp file mutually
\* exclusive: at most one writer is inside UpdateMany on a file at a time.
FileExclusive == \A m \in Metrics : Cardinality(inFile[m]) <= 1

\* getSWF's unlocked read of w.wfs never meets another writer's insert
\* under w.mu: the runtime would abort the whole process with "concurrent
\* map read and map write", even when every metric is configured.
NoMapRace == crash # "mapread"

\* No metric, configured or not, takes the process down by Store on the
\* nil swf getSWF returns: spec 6 says an unmatched retention is a
\* configuration error, not a crash.
NoNilStore == crash # "nilstore"

\* An API Match or FindNodes never ranges over w.wfs while a writer
\* inserts into it ("concurrent map iteration and map write").
NoIterationRace == crash # "mapiter"

\* Every bag a writer has received is stored (or the process is gone):
\* getSWF's two locks, taken one after the other, never leave a writer
\* waiting for ever.
BagCompletes ==
  \A w \in Writers :
    pc[w] \notin {"idle", "exited"} ~> (pc[w] \in {"idle", "exited"} \/ crashed)

\* The metric list written at Stop names every metric that has a
\* SynsWhisperFile (or a cached nil): Whisper.Stop stops every writer
\* goroutine before dumpMetricList reads w.wfs, so no getSWF inserts a
\* name after it has been listed.
MetricListComplete == stage = "stopped" => DOMAIN wfs \subseteq listed

\* Whisper.Stop returns: each unbuffered exit send finds its goroutine,
\* and then the list is dumped (unless the process died first).
StopCompletes == stage = "stopping" ~> (stage = "stopped" \/ crashed)

=============================================================================
