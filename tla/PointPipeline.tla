--------------------------- MODULE PointPipeline ---------------------------
(***************************************************************************)
(* What the ingestion pipeline promises (spec.md, "THE CORE"): every point *)
(* passed to Cache.Add waits in a buffer and is eventually written to      *)
(* whisper exactly once; a write takes some waiting points of one metric   *)
(* and applies them in the order they were added, so that within a write   *)
(* a later value for a timestamp overwrites an earlier one.  Writes of     *)
(* different batches may happen in any order: the abstract pipeline does   *)
(* not promise more than the hand-off with several writers can give.       *)
(*                                                                         *)
(* A point is [metric, ts, id]; ids are handed out 1, 2, ... in Add order.  *)
(* The whisper content is metric -> ts -> id of the value (0: none).       *)
(***************************************************************************)
EXTENDS Integers, FiniteSets, SequencesExt

CONSTANTS Metrics, Times

VARIABLES
  pts,     \* every point accepted so far
  buffer,  \* accepted points not yet written
  store    \* whisper content

vars == <<pts, buffer, store>>

\* Write the points of one metric into its file, oldest first.
Apply(file, S) ==
  FoldLeft(LAMBDA f, p : [f EXCEPT ![p.ts] = p.id], file,
           SetToSortSeq(S, LAMBDA a, b : a.id < b.id))

Init ==
  /\ pts = {}
  /\ buffer = {}
  /\ store = [m \in Metrics |-> [t \in Times |-> 0]]

Accept(m, t) ==
  LET p == [metric |-> m, ts |-> t, id |-> Cardinality(pts) + 1]
  IN  /\ pts' = pts \cup {p}
      /\ buffer' = buffer \cup {p}
      /\ UNCHANGED store

Write(m, S) ==
  /\ S # {}
  /\ \A p \in S : p.metric = m
  /\ buffer' = buffer \ S
  /\ store' = [store EXCEPT ![m] = Apply(@, S)]
  /\ UNCHANGED pts

WriteSome == \E m \in Metrics : \E S \in SUBSET buffer : Write(m, S)

Next == (\E m \in Metrics, t \in Times : Accept(m, t)) \/ WriteSome

\* Writing is not optional: while points wait, some write happens.
Spec == Init /\ [][Next]_vars /\ WF_vars(WriteSome)

=============================================================================
