------------------------------ MODULE Receivers ------------------------------
(***************************************************************************)
(* The ingestion front end: ReceiverManager (receivers/recerver.go) and    *)
(* its TCPServer (receivers/tcp.go).                                       *)
(*                                                                         *)
(*  - ReceiverManager.Start runs Run in a goroutine; Run starts every      *)
(*    receiver (TCPServer.Start: go Listen) and then selects between       *)
(*    rm.exit and ChanPointBagsReceived, handing each point to CachePB     *)
(*    (Cache.Add).  On exit it returns, and its defers close the channel.  *)
(*  - Listen opens the socket, stores it in rcv.listener and loops on      *)
(*    Accept, starting one handleByteArray goroutine per connection.       *)
(*  - A handler reads lines until EOF, an error or the read deadline,      *)
(*    parses each with ParseFromStr and sends the point on the channel     *)
(*    (pipeOut).                                                           *)
(*  - ReceiverManager.Stop (from App.Stop, on the signal goroutine) puts   *)
(*    true in rm.exit, then calls TCPServer.Stop: listener.Close(), then   *)
(*    rcv.listener = nil.  Accepted connections are not closed.            *)
(*                                                                         *)
(* The signal goroutine runs concurrently with App.Start, so Stop may come *)
(* before Start.  A point is its id; its metric and value do not matter    *)
(* here.                                                                   *)
(***************************************************************************)
EXTENDS Naturals, Sequences, FiniteSets

CONSTANTS Conns,     \* client connections that may be accepted
          MaxLines,  \* lines a client sends on one connection
          ChanCap    \* capacity of ChanPointBagsReceived (1024*1024)

VARIABLES
  mpc,       \* ReceiverManager.Run: "off", "run" or "exited"
  chan,      \* ChanPointBagsReceived: the ids of the points in it
  closed,    \* ChanPointBagsReceived has been closed
  exitQ,     \* values waiting in rm.exit (capacity 2)
  lpc,       \* TCPServer.Listen: "off", "listen", "loop" (about to read
             \* rcv.listener), "accept" (blocked in Accept), "done" or "spin"
  lfield,    \* rcv.listener: "nil" or "set"
  lopen,     \* the listening socket is open
  hpc,       \* per connection: "none" (not accepted), "read", "send", "done"
  hpt,       \* per connection: the point parsed and not yet sent
  lines,     \* per connection: lines read so far
  nextId,    \* points parsed so far (ids are 1, 2, ...)
  cached,    \* ids handed to CachePB, in order
  spc,       \* ReceiverManager.Stop: "none", "close", "nil" or "done"
  panicked   \* a send on the closed channel ended the process

vars == <<mpc, chan, closed, exitQ, lpc, lfield, lopen, hpc, hpt, lines,
          nextId, cached, spc, panicked>>

Ids == 0..Cardinality(Conns) * MaxLines

Init ==
  /\ mpc = "off" /\ chan = <<>> /\ closed = FALSE /\ exitQ = 0
  /\ lpc = "off" /\ lfield = "nil" /\ lopen = FALSE
  /\ hpc = [c \in Conns |-> "none"] /\ hpt = [c \in Conns |-> 0]
  /\ lines = [c \in Conns |-> 0]
  /\ nextId = 0 /\ cached = <<>> /\ spc = "none" /\ panicked = FALSE

-----------------------------------------------------------------------------
(* ReceiverManager.Run *)

\* ReceiverManager.Start: go rm.Run(); Run checks CachePB (set by App.Init)
\* and starts each receiver: TCPServer.Start, go rcv.Listen().
RunStart ==
  /\ mpc = "off"
  /\ mpc' = "run" /\ lpc' = "listen"
  /\ UNCHANGED <<chan, closed, exitQ, lfield, lopen, hpc, hpt, lines,
                 nextId, cached, spc, panicked>>

\* The select finds a point: rm.CachePB(pb), i.e. Cache.Add.
Receive ==
  /\ mpc = "run" /\ chan # <<>>
  /\ cached' = Append(cached, Head(chan))
  /\ chan' = Tail(chan)
  /\ UNCHANGED <<mpc, closed, exitQ, lpc, lfield, lopen, hpc, hpt, lines,
                 nextId, spc, panicked>>

\* The select finds rm.exit (Go picks at random among ready cases): Run
\* returns, and its deferred close(ChanPointBagsReceived) runs.  Points
\* still in the channel are never handed to the cache.
RunExit ==
  /\ mpc = "run" /\ exitQ > 0
  /\ exitQ' = exitQ - 1
  /\ mpc' = "exited" /\ closed' = TRUE
  /\ UNCHANGED <<chan, lpc, lfield, lopen, hpc, hpt, lines, nextId, cached,
                 spc, panicked>>

-----------------------------------------------------------------------------
(* TCPServer.Listen and handleByteArray *)

\* net.ListenTCP: on success rcv.listener is the socket; on an error
\* (address in use) it is nil and Listen returns.
Listen ==
  /\ lpc = "listen"
  /\ \/ lfield' = "set" /\ lopen' = TRUE /\ lpc' = "loop"
     \/ lfield' = "nil" /\ lpc' = "done" /\ UNCHANGED lopen
  /\ UNCHANGED <<mpc, chan, closed, exitQ, hpc, hpt, lines, nextId, cached,
                 spc, panicked>>

\* The loop calls rcv.listener.Accept(), reading the field.  Stop writes
\* it without synchronisation; the read sees the old or the new value.
AcceptCall ==
  /\ lpc = "loop" /\ lfield = "set"
  /\ lpc' = "accept"
  /\ UNCHANGED <<mpc, chan, closed, exitQ, lfield, lopen, hpc, hpt, lines,
                 nextId, cached, spc, panicked>>

\* Accept on the open socket returns a new connection: go handler(conn).
AcceptConn(c) ==
  /\ lpc = "accept" /\ lopen /\ hpc[c] = "none"
  /\ hpc' = [hpc EXCEPT ![c] = "read"] /\ lpc' = "loop"
  /\ UNCHANGED <<mpc, chan, closed, exitQ, lfield, lopen, hpt, lines,
                 nextId, cached, spc, panicked>>

\* Accept on the closed socket (closed while blocked in it, or before)
\* fails with "use of closed network connection": the loop breaks and
\* Listen returns.
AcceptClosed ==
  /\ lpc = "accept" /\ ~lopen
  /\ lpc' = "done"
  /\ UNCHANGED <<mpc, chan, closed, exitQ, lfield, lopen, hpc, hpt, lines,
                 nextId, cached, spc, panicked>>

\* The loop reads rcv.listener after Stop set it to nil (the close came
\* while Listen was between two Accepts): Accept on a nil *TCPListener
\* returns EINVAL, which is not "use of closed ...", so the loop continues
\* for ever without blocking.
AcceptNil ==
  /\ lpc = "loop" /\ lfield = "nil"
  /\ lpc' = "spin"
  /\ UNCHANGED <<mpc, chan, closed, exitQ, lfield, lopen, hpc, hpt, lines,
                 nextId, cached, spc, panicked>>

\* One ReadBytes('\n'): a line, parsed by ParseFromStr (which may reject
\* it: the error is counted and the line skipped), or EOF, a read error or
\* the 2-minute deadline, which end the handler and close the connection.
HandleRead(c) ==
  /\ hpc[c] = "read"
  /\ \/ /\ lines[c] < MaxLines
        /\ lines' = [lines EXCEPT ![c] = @ + 1]
        /\ \/ /\ nextId' = nextId + 1
              /\ hpt' = [hpt EXCEPT ![c] = nextId + 1]
              /\ hpc' = [hpc EXCEPT ![c] = "send"]
           \/ UNCHANGED <<nextId, hpt, hpc>>
     \/ hpc' = [hpc EXCEPT ![c] = "done"] /\ UNCHANGED <<lines, nextId, hpt>>
  /\ UNCHANGED <<mpc, chan, closed, exitQ, lpc, lfield, lopen, cached, spc,
                 panicked>>

\* pipeOut: ChanPointBagsReceived <- mp.  It blocks while the channel is
\* full; on a closed channel, blocked or not, the send panics.
PipeOut(c) ==
  /\ hpc[c] = "send"
  /\ \/ closed /\ panicked' = TRUE
                /\ UNCHANGED <<chan, hpc>>
     \/ ~closed /\ Len(chan) < ChanCap
                /\ chan' = Append(chan, hpt[c])
                /\ hpc' = [hpc EXCEPT ![c] = "read"]
                /\ UNCHANGED panicked
  /\ UNCHANGED <<mpc, closed, exitQ, lpc, lfield, lopen, hpt, lines, nextId,
                 cached, spc>>

-----------------------------------------------------------------------------
(* ReceiverManager.Stop *)

\* rm.exit <- true: the channel has room for two, so this does not block.
StopSend ==
  /\ spc = "none"
  /\ exitQ' = exitQ + 1 /\ spc' = "close"
  /\ UNCHANGED <<mpc, chan, closed, lpc, lfield, lopen, hpc, hpt, lines,
                 nextId, cached, panicked>>

\* TCPServer.Stop: rcv.listener.Close().  On a nil listener (Listen has
\* not run yet, or failed) Close returns EINVAL and changes nothing.
StopClose ==
  /\ spc = "close"
  /\ lopen' = (lopen /\ lfield = "nil")
  /\ spc' = "nil"
  /\ UNCHANGED <<mpc, chan, closed, exitQ, lpc, lfield, hpc, hpt, lines,
                 nextId, cached, panicked>>

\* TCPServer.Stop: rcv.listener = nil.
StopNil ==
  /\ spc = "nil"
  /\ lfield' = "nil" /\ spc' = "done"
  /\ UNCHANGED <<mpc, chan, closed, exitQ, lpc, lopen, hpc, hpt, lines,
                 nextId, cached, panicked>>

-----------------------------------------------------------------------------

\* Nothing runs once a panic has ended the process.
Next ==
  /\ ~panicked
  /\ \/ RunStart \/ Receive \/ RunExit \/ Listen
     \/ AcceptCall \/ AcceptClosed \/ AcceptNil
     \/ \E c \in Conns : AcceptConn(c) \/ HandleRead(c) \/ PipeOut(c)
     \/ StopSend \/ StopClose \/ StopNil

Spec == Init /\ [][Next]_vars

-----------------------------------------------------------------------------
(* Properties *)

RcvTypeOK ==
  /\ mpc \in {"off", "run", "exited"}
  /\ chan \in Seq(Ids) /\ Len(chan) <= ChanCap
  /\ closed \in BOOLEAN /\ exitQ \in 0..2
  /\ lpc \in {"off", "listen", "loop", "accept", "done", "spin"}
  /\ lfield \in {"nil", "set"} /\ lopen \in BOOLEAN
  /\ hpc \in [Conns -> {"none", "read", "send", "done"}]
  /\ hpt \in [Conns -> Ids] /\ lines \in [Conns -> 0..MaxLines]
  /\ nextId \in Ids /\ cached \in Seq(Ids)
  /\ spc \in {"none", "close", "nil", "done"} /\ panicked \in BOOLEAN

\* Stopping the receivers does not take the process down: no handler
\* sends on ChanPointBagsReceived after Run's deferred close.  Stop closes
\* only the listening socket, so a handler of a connection accepted
\* earlier may still be reading and sending when Run returns.
NoSendOnClosed == ~panicked

=============================================================================
