---------------------------- MODULE DumpRestore ----------------------------
(***************************************************************************)
(* Shutdown, dump and restore of v-carbon, composed with the cache model.  *)
(*                                                                         *)
(*  - main (v-carbon.go): on a signal the handler goroutine unblocks main  *)
(*    and calls App.Stop; main sleeps 2 s and returns, ending the process  *)
(*    whether or not Stop has finished.                                    *)
(*  - App.Stop (app/app.go): Cache.Dump, then ReceiverManager.Stop, then   *)
(*    PersistManager.Stop (exit of the flush loop, then one exit message   *)
(*    per whisper writer goroutine).  The stats goroutine is never         *)
(*    stopped and keeps calling Cache.Add until the process ends.          *)
(*  - Cache.Dump / DumpInStr (cache/grace.go): create cache.<pid>.<ns>.bin,*)
(*    write every bag's window (Data) shard by shard, each under its       *)
(*    lock, through a 1 MB bufio.Writer; Flush and Close at the end.       *)
(*  - App.Start (app/app.go): RestoreAll before the flush loop, writers    *)
(*    and receivers start; RestoreFromFile replays a file through          *)
(*    Cache.Add, panics on a read error, removes the file on success.      *)
(*                                                                         *)
(* The cache, flush and writer actions are those of CarbonCache.  A dump   *)
(* line is [metric, ts, id]: WriteTo prints "metric value ts" and          *)
(* ParseFromStr reads the same three fields back, so a complete line       *)
(* restores the point it was written from.                                 *)
(***************************************************************************)
EXTENDS Integers, Sequences, FiniteSets, TLC, SequencesExt, FiniteSetsExt

CONSTANTS Metrics, Shards, ShardOf, Duration, MaxTime, MaxAdds, ChanCap,
          Writers, Strategy, InitItems,
          MaxStarts,      \* bound on the number of shutdowns (signals)
          DumpBeforeExit  \* TRUE: App.Stop always ends within main's 2 s

VARIABLES now, items, nextId, added, fpc, fl, fshard, fqueue, fsize, fout,
          chan, wbag, store, written,
          phase,    \* "up", "stopping", "down", "restoring" or "failed"
          spc,      \* App.Stop: "none", "dump", "recv", "persist", "writers", "done"
          dshard,   \* DumpInStr: next shard to write
          dlines,   \* lines handed to the dump writer so far
          files,    \* dump files on disk, in name (creation time) order
          dumped,   \* ids in dump files that were closed (history)
          flushOn,  \* PersistManager.Run goroutine is running
          wOn,      \* per writer: Whisper.Run goroutine is running
          starts    \* signals received so far

C == INSTANCE CarbonCache

cacheVars  == <<nextId, added>>
flushVars  == <<fpc, fl, fshard, fqueue, fsize, fout>>
writerVars == <<wbag, store, written>>
lifeVars   == <<phase, spc, dshard, dlines, files, dumped, flushOn, wOn, starts>>
vars == <<now, items, cacheVars, flushVars, chan, writerVars, lifeVars>>

Line == [metric : Metrics, ts : C!Times, id : C!Ids]
File == [lines : Seq(Line), torn : BOOLEAN]

Ids(lines) == { lines[i].id : i \in 1..Len(lines) }

-----------------------------------------------------------------------------
(* The running process: ingestion, flush loop, writers *)

\* Cache.Add from a receiver or from the stats goroutine, which runs until
\* the process ends.
Ingest ==
  /\ phase \in {"up", "stopping"}
  /\ \E m \in Metrics, t \in C!Times : C!Add(m, t)
  /\ UNCHANGED lifeVars

Flush ==
  /\ phase \in {"up", "stopping"} /\ flushOn
  /\ C!FlushStep
  /\ UNCHANGED lifeVars

Writer(w) ==
  /\ phase \in {"up", "stopping"} /\ wOn[w]
  /\ C!WriterStep(w)
  /\ UNCHANGED lifeVars

Clock == C!Tick /\ UNCHANGED lifeVars

-----------------------------------------------------------------------------
(* Signal, App.Stop, and the end of main *)

\* The handler goroutine: exitCh <- true, then carbon.Stop(), which begins
\* with Cache.Dump: os.Create of the dump file.  starts < MaxStarts only
\* bounds the shutdowns the model explores.
Signal ==
  /\ phase = "up" /\ starts < MaxStarts
  /\ phase' = "stopping" /\ spc' = "dump"
  /\ dshard' = 1 /\ dlines' = <<>>
  /\ starts' = starts + 1
  /\ UNCHANGED <<now, items, cacheVars, flushVars, chan, writerVars,
                 files, dumped, flushOn, wOn>>

\* WriteTo: one line per point of a bag's window, "metric value ts".
WriteTo(m) == [i \in 1..Len(items[m].data) |->
                 [metric |-> m, ts |-> items[m].data[i].ts,
                  id |-> items[m].data[i].id]]

\* Mutant: DumpInStr's loop runs to i <= shardCount, one shard past the
\* end of c.data.
DumpShardOneMore ==
  /\ phase = "stopping" /\ spc = "dump" /\ dshard <= Cardinality(Shards) + 1
  /\ \E order \in SetToSeqs(C!ShardBags(dshard)) :
       dlines' = dlines \o FlattenSeq([i \in 1..Len(order) |-> WriteTo(order[i])])
  /\ dshard' = dshard + 1
  /\ IF dshard = Cardinality(Shards) + 1
       THEN /\ files' = Append(files, [lines |-> dlines', torn |-> FALSE])
            /\ dumped' = dumped \cup Ids(dlines')
            /\ spc' = "recv"
       ELSE UNCHANGED <<files, dumped, spc>>
  /\ UNCHANGED <<now, items, cacheVars, flushVars, chan, writerVars,
                 phase, flushOn, wOn, starts>>

\* One iteration of DumpInStr: the windows of every bag of the shard, in
\* map order, under the shard lock (notConfirmed is always empty).  After
\* the last shard, Dump flushes the bufio.Writer and closes the file.
DumpShard ==
  /\ phase = "stopping" /\ spc = "dump" /\ dshard <= Cardinality(Shards)
  /\ \E order \in SetToSeqs(C!ShardBags(dshard)) :
       dlines' = dlines \o FlattenSeq([i \in 1..Len(order) |-> WriteTo(order[i])])
  /\ dshard' = dshard + 1
  /\ IF dshard = Cardinality(Shards)
       THEN /\ files' = Append(files, [lines |-> dlines', torn |-> FALSE])
            /\ dumped' = dumped \cup Ids(dlines')
            /\ spc' = "recv"
       ELSE UNCHANGED <<files, dumped, spc>>
  /\ UNCHANGED <<now, items, cacheVars, flushVars, chan, writerVars,
                 phase, flushOn, wOn, starts>>

\* ReceiverManager.Stop: the exit channel has room for 2, so this never
\* blocks.  Receivers stop; the stats goroutine goes on adding.
StopReceivers ==
  /\ phase = "stopping" /\ spc = "recv" /\ spc' = "persist"
  /\ UNCHANGED <<now, items, cacheVars, flushVars, chan, writerVars,
                 phase, dshard, dlines, files, dumped, flushOn, wOn, starts>>

\* PersistManager.Stop: pm.exit is unbuffered, so the send completes when
\* Run is back in its select, between two MakeChanForDB cycles.
StopPersist ==
  /\ phase = "stopping" /\ spc = "persist" /\ fpc = "idle"
  /\ flushOn' = FALSE /\ spc' = "writers"
  /\ UNCHANGED <<now, items, cacheVars, flushVars, chan, writerVars,
                 phase, dshard, dlines, files, dumped, wOn, starts>>

\* Whisper.Stop: one unbuffered send of w.exit per goroutine; a goroutine
\* takes it in its select, so only between two Stores.  Bags left in
\* ChanForDB stay there.
StopWriter(w) ==
  /\ phase = "stopping" /\ spc = "writers" /\ wOn[w] /\ wbag[w] = <<>>
  /\ wOn' = [wOn EXCEPT ![w] = FALSE]
  /\ spc' = IF \E v \in Writers \ {w} : wOn[v] THEN "writers" ELSE "done"
  /\ UNCHANGED <<now, items, cacheVars, flushVars, chan, writerVars,
                 phase, dshard, dlines, files, dumped, flushOn, starts>>

\* main returns 2 s after the signal.  If Dump is still running, the file
\* holds what the bufio.Writer has already written out: a prefix of the
\* lines, possibly cut in the middle of the next one.
Exit ==
  /\ phase = "stopping"
  /\ DumpBeforeExit => spc = "done"
  /\ phase' = "down"
  /\ IF spc = "dump"
       THEN \E k \in 0..Len(dlines), torn \in BOOLEAN :
              /\ torn => k < Len(dlines)
              /\ files' = Append(files, [lines |-> SubSeq(dlines, 1, k),
                                         torn  |-> torn])
       ELSE UNCHANGED files
  /\ UNCHANGED <<now, items, cacheVars, flushVars, chan, writerVars,
                 spc, dshard, dlines, dumped, flushOn, wOn, starts>>

-----------------------------------------------------------------------------
(* Restart: App.Start and RestoreAll *)

\* A new process: empty cache, idle flush state, empty channel.  The
\* whisper files, the dump files and the clock carry over.
Restart ==
  /\ phase \in {"down", "failed"}
  /\ phase' = "restoring" /\ spc' = "none"
  /\ items' = [m \in {} |-> <<>>]
  /\ fpc' = "idle" /\ fl' = 0 /\ fshard' = 1
  /\ fqueue' = <<>> /\ fsize' = 0 /\ fout' = <<>>
  /\ chan' = <<>>
  /\ wbag' = [w \in Writers |-> <<>>]
  /\ UNCHANGED <<now, cacheVars, store, written,
                 dshard, dlines, files, dumped, flushOn, wOn, starts>>

\* ParseFromStr of one line, then the restore callback: Cache.Add.
Replay(its, l) == C!CacheAdd(its, l.metric, [ts |-> l.ts, id |-> l.id])

\* Mutant: ReadLines stops at io.EOF before handling the data returned
\* with it, dropping the last line of every file.
ReadLinesDropLast(its, f) ==
  [items |-> FoldLeft(Replay, its, SubSeq(f.lines, 1, Len(f.lines) - 1)),
   err |-> f.torn]

\* ReadLines: every complete line is parsed and added in file order; a
\* last line without its newline is the error "unfinished line in file",
\* returned after those Adds.
ReadLines(its, f) == [items |-> FoldLeft(Replay, its, f.lines), err |-> f.torn]

\* RestoreFromFile on the first file in sorted order.  ReadLines adds every
\* complete line; an unfinished last line is an error after those Adds,
\* and the error panics: the process dies and the file stays.  Otherwise
\* the file is removed.
RestoreFromFile ==
  /\ phase = "restoring" /\ files # <<>>
  /\ LET r == ReadLines(items, Head(files))
     IN  /\ items' = r.items
         /\ IF r.err
              THEN phase' = "failed" /\ UNCHANGED files
              ELSE files' = Tail(files) /\ UNCHANGED phase
  /\ UNCHANGED <<now, cacheVars, flushVars, chan, writerVars,
                 spc, dshard, dlines, dumped, flushOn, wOn, starts>>

\* RestoreAll has returned: Start goes on with PersistManager.Start (the
\* writers, then the flush loop) and ReceiverManager.Start.
StartServices ==
  /\ phase = "restoring" /\ files = <<>>
  /\ phase' = "up"
  /\ flushOn' = TRUE /\ wOn' = [w \in Writers |-> TRUE]
  /\ UNCHANGED <<now, items, cacheVars, flushVars, chan, writerVars,
                 spc, dshard, dlines, files, dumped, starts>>

-----------------------------------------------------------------------------

Init ==
  /\ C!Init
  /\ phase = "up" /\ spc = "none"
  /\ dshard = 1 /\ dlines = <<>>
  /\ files = <<>> /\ dumped = {}
  /\ flushOn = TRUE /\ wOn = [w \in Writers |-> TRUE]
  /\ starts = 0

StopStep == DumpShard \/ StopReceivers \/ StopPersist \/ \E w \in Writers : StopWriter(w)

RestoreStep == RestoreFromFile \/ StartServices

Next ==
  \/ Clock \/ Ingest \/ Flush \/ \E w \in Writers : Writer(w)
  \/ Signal \/ StopStep \/ Exit \/ Restart \/ RestoreStep

\* The flush ticker and the writer loops as in CarbonCache; App.Stop runs
\* to its end unless the process ends first; main's 2 s sleep ends; the
\* process is restarted (by its supervisor) and App.Start runs.  The exit
\* sends of PersistManager.Stop and Whisper.Stop are taken only when the
\* receiving select is reached and Go picks that case among the ready ones
\* at random, so they are strongly fair: they are enabled again and again
\* (between two flush cycles, between two Stores), not continuously.
Fairness ==
  /\ WF_vars(Flush) /\ \A w \in Writers : WF_vars(Writer(w))
  /\ WF_vars(DumpShard) /\ WF_vars(StopReceivers)
  /\ SF_vars(StopPersist) /\ \A w \in Writers : SF_vars(StopWriter(w))
  /\ WF_vars(Exit) /\ WF_vars(Restart) /\ WF_vars(RestoreStep)

Spec == Init /\ [][Next]_vars /\ Fairness

-----------------------------------------------------------------------------
(* Properties *)

DRTypeOK ==
  /\ C!TypeOK
  /\ phase \in {"up", "stopping", "down", "restoring", "failed"}
  /\ spc \in {"none", "dump", "recv", "persist", "writers", "done"}
  /\ dshard \in 1..Cardinality(Shards) + 1
  /\ dlines \in Seq(Line) /\ files \in Seq(File)
  /\ dumped \subseteq C!Ids
  /\ flushOn \in BOOLEAN /\ wOn \in [Writers -> BOOLEAN]
  /\ starts \in 0..MaxStarts

\* Planned shutdown loses nothing (the purpose of Dump): once the restarted
\* process is up, every point ever added is stored in whisper or waiting
\* in the cache pipeline.  Dump runs while ingestion and the flush loop go
\* on, and writes each bag's window, not its PointsToDb or the bags in
\* flight.
ShutdownDurable ==
  phase = "up" /\ starts > 0 =>
    \A p \in added : p.id \in written \/ C!InFlight(p.id) > 0

\* A restart gets past RestoreAll: RestoreFromFile never panics on a dump
\* file that Dump itself produced.
StartupSucceeds == phase # "failed"

\* Restore does not roll whisper back: whatever the restart replays, the
\* value stored for a timestamp is the last one added for it (LatestWins
\* of CarbonCache; with one writer goroutine it holds without restarts).
\* RestoreFromFile re-adds the dumped window in window order, and the
\* insertion loop of CachePointBag.Add puts a point before the points of
\* equal timestamp already there.
ReplayLatestWins == C!LatestWins

\* Every point written to a dump file that was closed is eventually stored
\* in whisper: across the exit, the restart, RestoreFromFile, the first
\* flush cycles and the writers.
DumpedEventuallyStored ==
  \A n \in 1..MaxAdds : n \in dumped ~> n \in written

=============================================================================
