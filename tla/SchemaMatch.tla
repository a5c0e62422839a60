---------------------------- MODULE SchemaMatch ----------------------------
(***************************************************************************)
(* Loading and matching of the retention and aggregation rules of the      *)
(* whisper writer (src/persists/whisper).                                  *)
(*                                                                         *)
(*  - Whisper.loadConfig: ReadAggregationConfig, falling back to the       *)
(*    built-in default on any error; then ReadSchemasConfig, where an      *)
(*    error is logger.Fatalln (the process exits).                         *)
(*  - ReadSchemasConfig: one loop iteration per section; the priority is   *)
(*    int64(p)<<32 - int64(i); then sort.Sort with the non-strict Less     *)
(*    s[i].Priority >= s[j].Priority.                                      *)
(*  - WhisperSchemas.Match and WhisperAggregation.Match: the first rule of *)
(*    the list whose pattern matches; getSWF pairs their results.          *)
(*                                                                         *)
(* A pattern is the set of metrics its regexp matches.  A section with    *)
(* valid = FALSE (in a loaded Schema: a nil Pattern) stands for every way  *)
(* a section makes the reader return an error (empty or bad pattern, bad   *)
(* retentions, priority or xFilesFactor, unknown aggregation method).  A   *)
(* section named "" or "#..." is "comment".  A rule is named by its        *)
(* position in the file, 0 standing for none (false, Default, nil).  int64 is scaled to W bits and the shift 32 to S, *)
(* keeping what matters: the shifted priority wraps once |p| reaches       *)
(* 2^(W-S-1), and file positions stay below 2^S.                           *)
(***************************************************************************)
EXTENDS Integers, Sequences, FiniteSets, TLC, SequencesExt

CONSTANTS
  Metrics,          \* metric names (model values)
  Priorities,       \* declared priority values that appear in the file
  MaxSections,      \* sections in storage-schemas.conf
  MaxAggrSections,  \* sections in storage-aggregation.conf
  W,                \* bits of int64
  S                 \* the shift 32

ASSUME W > S /\ S > 0 /\ MaxSections < 2^S /\ Priorities \subseteq Int
\* sort.Sort runs insertionSort on slices of up to 12 elements.
ASSUME MaxSections <= 12

Comment == [name |-> "comment", valid |-> TRUE, pattern |-> {}, priority |-> 0]

Invalid == [name |-> "rule", valid |-> FALSE, pattern |-> {}, priority |-> 0]

SchemaSection ==
  {Comment, Invalid} \cup [name : {"rule"}, valid : {TRUE}, pattern : SUBSET Metrics,
                           priority : Priorities \cup {0}]

AggrSection ==
  {Comment, Invalid} \cup [name : {"rule"}, valid : {TRUE}, pattern : SUBSET Metrics,
                           priority : {0}]

Int64 == -(2^(W-1))..(2^(W-1) - 1)

VARIABLES
  aconf,        \* storage-aggregation.conf: its sections in file order
  sconf,        \* storage-schemas.conf: its sections in file order
  phase,        \* "aggr", "schemas", "loaded" or "fatal"
  ai,           \* ReadAggregationConfig: next section
  adata,        \* ReadAggregationConfig: result.Data so far
  aggregation,  \* w.aggregation.Data (the Default is always there)
  si,           \* ReadSchemasConfig: next section
  schemas       \* ReadSchemasConfig: schemas so far, then w.schemas

vars == <<aconf, sconf, phase, ai, adata, aggregation, si, schemas>>

-----------------------------------------------------------------------------
(* Priority arithmetic and sort.Sort *)

\* An int64 result wrapped to W bits, two's complement.
Wrap(x) == ((x + 2^(W-1)) % 2^W) - 2^(W-1)

\* strconv.ParseInt of the "priority" key; p := 0 when it is absent, so an
\* absent key is the priority 0.
Declared(sec) == sec.priority

\* Mutant: the file position is not subtracted.
SchemaPriorityNoTieBreak(p, i) == Wrap(p * 2^S)

\* int64(p)<<32 - int64(i), i the 0-based section index.
SchemaPriority(p, i) == Wrap(Wrap(p * 2^S) - i)

\* WhisperSchemas.Less
Less(a, b) == a.priority >= b.priority

\* One pass of insertionSort's inner loop:
\*   for j := i; j > a && data.Less(j, j-1); j-- { data.Swap(j, j-1) }
RECURSIVE Sink(_, _)
Sink(s, j) ==
  IF j > 1 /\ Less(s[j], s[j - 1])
    THEN Sink([s EXCEPT ![j] = s[j - 1], ![j - 1] = s[j]], j - 1)
    ELSE s

RECURSIVE InsertionSortFrom(_, _)
InsertionSortFrom(s, i) ==
  IF i > Len(s) THEN s ELSE InsertionSortFrom(Sink(s, i), i + 1)

\* sort.Sort(schemas), for slices short enough to go to insertionSort.
SortSchemas(s) == InsertionSortFrom(s, 2)

-----------------------------------------------------------------------------
(* Matching *)

\* WhisperSchemas.Match: the first schema whose pattern matches, or false.
Match(list, m) ==
  LET k == SelectInSeq(list, LAMBDA r : m \in r.pattern)
  IN  IF k = 0 THEN 0 ELSE list[k].name

\* WhisperAggregation.Match: the first item whose pattern matches, or the
\* Default item.
AggrMatch(list, m) ==
  LET k == SelectInSeq(list, LAMBDA r : m \in r.pattern)
  IN  IF k = 0 THEN 0 ELSE list[k].name

\* getSWF: nil when no schema matches, else the schema and aggregation the
\* new SynsWhisperFile gets.
Nil == [schema |-> 0, aggr |-> 0]

Policy(m) ==
  IF Match(schemas, m) = 0 THEN Nil
  ELSE [schema |-> Match(schemas, m), aggr |-> AggrMatch(aggregation, m)]

-----------------------------------------------------------------------------
(* Whisper.loadConfig *)

\* One iteration of the section loop of ReadAggregationConfig.  An error
\* returns (nil, err); loadConfig logs it and keeps NewWhisperAggregation.
ReadAggregationSection ==
  /\ phase = "aggr" /\ ai <= Len(aconf)
  /\ LET sec == aconf[ai]
     IN  \/ /\ sec.name = "comment"
            /\ ai' = ai + 1
            /\ UNCHANGED <<adata, phase>>
         \/ /\ sec.name = "rule" /\ ~sec.valid
            /\ phase' = "schemas"
            /\ UNCHANGED <<ai, adata>>
         \/ /\ sec.name = "rule" /\ sec.valid
            /\ adata' = Append(adata, [name |-> ai, pattern |-> sec.pattern])
            /\ ai' = ai + 1
            /\ UNCHANGED phase
  /\ UNCHANGED <<aconf, sconf, aggregation, si, schemas>>

\* ReadAggregationConfig returns result; loadConfig stores it.
AggregationLoaded ==
  /\ phase = "aggr" /\ ai > Len(aconf)
  /\ aggregation' = adata
  /\ phase' = "schemas"
  /\ UNCHANGED <<aconf, sconf, ai, adata, si, schemas>>

\* Mutant: the error of a section is not checked; the section is kept.
ReadSchemaSectionNoErrorCheck ==
  /\ phase = "schemas" /\ si <= Len(sconf)
  /\ LET sec == sconf[si]
     IN  \/ /\ sec.name = "comment"
            /\ UNCHANGED schemas
         \/ /\ sec.name = "rule"
            /\ schemas' = Append(schemas,
                 [name |-> si, valid |-> sec.valid, pattern |-> sec.pattern,
                  priority |-> SchemaPriority(Declared(sec), si - 1)])
  /\ si' = si + 1
  /\ UNCHANGED <<aconf, sconf, phase, ai, adata, aggregation>>

\* One iteration of the section loop of ReadSchemasConfig.  An error makes
\* loadConfig call logger.Fatalln.
ReadSchemaSection ==
  /\ phase = "schemas" /\ si <= Len(sconf)
  /\ LET sec == sconf[si]
     IN  \/ /\ sec.name = "comment"
            /\ si' = si + 1
            /\ UNCHANGED <<schemas, phase>>
         \/ /\ sec.name = "rule" /\ ~sec.valid
            /\ phase' = "fatal"
            /\ UNCHANGED <<si, schemas>>
         \/ /\ sec.name = "rule" /\ sec.valid
            /\ schemas' = Append(schemas,
                 [name |-> si, valid |-> sec.valid, pattern |-> sec.pattern,
                  priority |-> SchemaPriority(Declared(sec), si - 1)])
            /\ si' = si + 1
            /\ UNCHANGED phase
  /\ UNCHANGED <<aconf, sconf, ai, adata, aggregation>>

\* After the loop: sort.Sort(schemas); loadConfig sets w.schemas.
SchemasLoaded ==
  /\ phase = "schemas" /\ si > Len(sconf)
  /\ schemas' = SortSchemas(schemas)
  /\ phase' = "loaded"
  /\ UNCHANGED <<aconf, sconf, ai, adata, aggregation, si>>

\* Any pair of configuration files, and NewWhisperAggregation.
Init ==
  /\ aconf \in BoundedSeq(AggrSection, MaxAggrSections)
  /\ sconf \in BoundedSeq(SchemaSection, MaxSections)
  /\ phase = "aggr"
  /\ ai = 1 /\ adata = <<>> /\ aggregation = <<>>
  /\ si = 1 /\ schemas = <<>>

Next ==
  \/ ReadAggregationSection \/ AggregationLoaded
  \/ ReadSchemaSection \/ SchemasLoaded

\* loadConfig ends in "loaded" or "fatal"; nothing follows it here.
Spec == Init /\ [][Next]_vars

-----------------------------------------------------------------------------
(* Properties *)

SchemaTypeOK ==
  /\ phase \in {"aggr", "schemas", "loaded", "fatal"}
  /\ ai \in 1..MaxAggrSections + 1 /\ si \in 1..MaxSections + 1
  /\ adata \in Seq([name : 1..MaxAggrSections, pattern : SUBSET Metrics])
  /\ aggregation \in Seq([name : 1..MaxAggrSections, pattern : SUBSET Metrics])
  /\ schemas \in Seq([name : 1..MaxSections, valid : {TRUE},
                      pattern : SUBSET Metrics, priority : Int64])

\* The documented rule (storage-schemas.conf and spec 4.5): among the rules
\* whose pattern matches, the one with the highest declared priority wins,
\* and the earlier in the file among equal priorities.
RefSchema(m) ==
  LET C == { i \in 1..Len(sconf) : sconf[i].name = "rule"
                                   /\ m \in sconf[i].pattern }
  IN  IF C = {} THEN 0
      ELSE CHOOSE i \in C :
             \A j \in C : \/ Declared(sconf[i]) > Declared(sconf[j])
                          \/ Declared(sconf[i]) = Declared(sconf[j]) /\ i <= j

\* Aggregation: the first matching rule in file order, else the default
\* (xFilesFactor 0.5, average); the default for all metrics when the file
\* does not load.
RefAggr(m) ==
  LET bad == \E i \in 1..Len(aconf) : aconf[i].name = "rule"
                                      /\ ~aconf[i].valid
      C   == { i \in 1..Len(aconf) : aconf[i].name = "rule"
                                     /\ m \in aconf[i].pattern }
  IN  IF bad \/ C = {} THEN 0 ELSE Min(C)

\* Once loadConfig is done, the file getSWF creates for a metric gets the
\* retention schema and the aggregation the documented rules select, and
\* no file (nil) exactly when no schema matches.  This is the outcome of
\* the section loops, the priority arithmetic, the non-strict sort and
\* both Match loops together.
PolicyAsDocumented ==
  phase = "loaded" =>
    \A m \in Metrics :
      Policy(m) = IF RefSchema(m) = 0 THEN Nil
                  ELSE [schema |-> RefSchema(m), aggr |-> RefAggr(m)]

=============================================================================
