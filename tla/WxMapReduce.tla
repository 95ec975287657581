---------------------------- MODULE WxMapReduce -----------------------------
(***************************************************************************)
(* The batch weather analytics, section2/q1_mapreduce, on Hadoop: each     *)
(* mapper folds its split of the file and emits its tables as lines by     *)
(* key, the reducer merges the lines of a key, one final reducer merges    *)
(* what there is into a report.  With one stage the reducer is left out.   *)
(*                                                                         *)
(* A line's value is a partial that has only what belongs to its key, so   *)
(* that merging lines is Merge of WxTables; of a header line it is its K.  *)
(* The header of the file is line 0.  A combiner would have one line for   *)
(* each key and re-emit it: it is left out, and so is the partition of the *)
(* keys over reducers.                                                     *)
(***************************************************************************)
EXTENDS WxFile

CONSTANT MaxCut   \* bound: places at which the file is cut into splits

VARIABLES
  job,       \* "none", "map", "reduce" (stage 1), "final" or "done"
  stages, cuts,  \* --stages, and the lines after which the file is cut
  unmapped,  \* first lines of the splits that no mapper has read
  flow,      \* lines that the job's reducers are still to read
  table,     \* the partials that the reducers of stage 1 have merged, by key
  total, topk,   \* wx_final: all partials merged, and K, or <<>>
  printed    \* the report, or <<>>

batch == <<job, stages, cuts, unmapped, flow, table, total, topk, printed>>

NoTable == [k \in {} |-> 0]

BatchInit ==
  /\ job = "none" /\ stages = 0 /\ cuts = {} /\ unmapped = {}
  /\ flow = {} /\ table = NoTable
  /\ total = Empty /\ topk = <<>> /\ printed = <<>>

\* The job is submitted: Hadoop may cut the file anywhere.
Submit ==
  /\ job = "none" /\ job' = "map"
  /\ stages' \in {1, 2}
  /\ cuts' \in {c \in SUBSET (0..(Len(lines) - 1)) : Cardinality(c) <= MaxCut}
  /\ unmapped' = {0} \union {c + 1 : c \in cuts'}
  /\ UNCHANGED <<input, flow, table, total, topk, printed>>

-----------------------------------------------------------------------------
(***************************************************************************)
(* wx_mapper.                                                              *)
(***************************************************************************)
HeaderKey == <<"H", 0>>

\* What Accum has, as the lines of its keys.
Pieces(p) ==
  LET none == [p EXCEPT !.stations = NoTable, !.intervals = NoTable] IN
  {<<<<"G", 0>>, none>>}
  \union {<<<<"S", s>>, [Empty EXCEPT !.stations = Restrict(p.stations, {s})]>> :
            s \in DOMAIN p.stations}
  \union {<<<<"I", b>>, [Empty EXCEPT !.intervals = Restrict(p.intervals, {b})]>> :
            b \in DOMAIN p.intervals}

\* A line that begins with seven numbers is a record.  Any other with three is
\* taken for the header, by a mapper that has none yet.
Parsed(i)   == lines[i].fields >= 7
IsHeader(i) == i = 0 \/ lines[i].fields \in 3..6
KOf(i)      == IF i = 0 THEN input.k ELSE lines[i].rec.station

\* What the mapper of lines a to b emits.  (The program keeps no row of a negative
\* station id, and rounds the minute of a negative time towards zero, where the
\* oracle rounds it down: here both are as in the oracle, and the runs have neither.)
Emitted(a, b) ==
  LET records == {i \in (a..b) \ {0} : Parsed(i)}
      acc     == Folded([i \in records |-> lines[i].rec])
      headers == {i \in a..b : IsHeader(i)}
  IN (IF headers = {} THEN {} ELSE {<<HeaderKey, KOf(Min(headers))>>})
     \union (IF records = {} THEN {} ELSE Pieces(acc))

Map(s) ==
  /\ job = "map" /\ s \in unmapped
  /\ LET e == Min({c \in cuts : c >= s} \union {Len(lines)}) IN
     flow' = flow \union {[from |-> s, key |-> x[1], value |-> x[2]] : x \in Emitted(s, e)}
  /\ unmapped' = unmapped \ {s}
  /\ job' = IF unmapped' # {} THEN "map" ELSE IF stages = 2 THEN "reduce" ELSE "final"
  /\ UNCHANGED <<input, stages, cuts, table, total, topk, printed>>

-----------------------------------------------------------------------------
(***************************************************************************)
(* wx_reducer and wx_final.  Lines come key by key, those of a key in any  *)
(* order.                                                                  *)
(***************************************************************************)
Group == CHOOSE k \in {x.key : x \in flow} : TRUE

Taken(x) == x.key = Group /\ flow' = flow \ {x}

\* Mutant: of a station's lines the last one is kept.
MergedLast(k, a, b) ==
  IF k = HeaderKey THEN a ELSE IF k[1] = "S" THEN b ELSE Merge(a, b)

\* The first header is kept.
Merged(k, a, b) == IF k = HeaderKey THEN a ELSE Merge(a, b)

Reduce(x) ==
  /\ job = "reduce" /\ Taken(x)
  /\ table' = AddRow(table, x.key, x.value, LAMBDA a, b : Merged(x.key, a, b))
  /\ UNCHANGED <<input, job, stages, cuts, unmapped, total, topk, printed>>

\* The second job reads what the first has written.
Stage2 ==
  /\ job = "reduce" /\ flow = {} /\ job' = "final"
  /\ flow' = {[from |-> 0, key |-> k, value |-> table[k]] : k \in DOMAIN table}
  /\ UNCHANGED <<input, stages, cuts, unmapped, table, total, topk, printed>>

Final(x) ==
  /\ job = "final" /\ Taken(x)
  /\ IF x.key = HeaderKey
     THEN topk' = (IF topk = <<>> THEN <<x.value>> ELSE topk) /\ UNCHANGED total
     ELSE total' = Merge(total, x.value) /\ UNCHANGED topk
  /\ UNCHANGED <<input, job, stages, cuts, unmapped, table, printed>>

\* An unordered_map lists the intervals in any order.
WriteReport ==
  /\ job = "final" /\ flow = {} /\ job' = "done"
  /\ \E order \in SetToSeqs(DOMAIN total.intervals) :
       printed' = <<Fill(total, IF topk = <<>> THEN 0 ELSE topk[1], order)>>
  /\ UNCHANGED <<input, stages, cuts, unmapped, flow, table, total, topk>>

BatchNext ==
  \/ Submit \/ (\E s \in unmapped : Map(s))
  \/ (\E x \in flow : Reduce(x) \/ Final(x)) \/ Stage2 \/ WriteReport
=============================================================================
