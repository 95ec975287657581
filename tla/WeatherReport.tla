--------------------------- MODULE WeatherReport ----------------------------
(***************************************************************************)
(* From the dataset's lines to the printed report, section2/q2_grpc: the   *)
(* streamer cuts the file into batches, the coordinator deals them out,    *)
(* each worker folds its records one by one under its lock, and a query    *)
(* merges what the workers hold and fills the report.                      *)
(*                                                                         *)
(* This module is about the data; WeatherIngest is about the sessions,     *)
(* queues, acknowledgements and failures that are left out here.           *)
(***************************************************************************)
EXTENDS WxFile

CONSTANT W  \* number of workers

ASSUME WorkerAssumption == W \in Nat \ {0}

Worker  == 0..(W - 1)
Good(l) == l.fields = 7

VARIABLES
  pos, seq, sent,  \* iter_batches: lines read, batches and records yielded
  over,       \* the stream has ended
  link,       \* batches that wait for each worker, each the lines of its records
  todo,       \* what is left of the batch that it is folding, under its lock
  state,      \* Worker.state
  folded,     \* history: the lines whose records are in it
  asking,     \* the query: "no", "asked" or "answered"
  held,       \* per worker, its answer, or <<>>
  merged,     \* merge_all's total, and the workers it has
  seen,       \* history: the lines whose records are in the answers
  settled,    \* history: all was folded when the query was asked
  report

stream == <<input, pos, seq, sent, over>>
work   == <<link, todo, state, folded>>
query  == <<asking, held, merged, seen, settled, report>>
vars   == <<stream, work, query>>

NoQuery ==
  /\ held = [w \in Worker |-> <<>>]
  /\ merged = [total |-> Empty, next |-> 0]
  /\ seen = [w \in Worker |-> {}]
  /\ settled = FALSE

Init ==
  /\ input \in Inputs
  /\ pos = 0 /\ seq = 0 /\ sent = 0 /\ over = FALSE
  /\ link = [w \in Worker |-> <<>>] /\ todo = [w \in Worker |-> {}]
  /\ state = [w \in Worker |-> Empty] /\ folded = [w \in Worker |-> {}]
  /\ asking = "no" /\ NoQuery /\ report = <<>>

-----------------------------------------------------------------------------
(***************************************************************************)
(* The streamer.                                                           *)
(***************************************************************************)
GoodIn(a, b) == {i \in a..b : Good(lines[i])}

\* Mutant: the limit is only looked at between batches.
UntilLate(a) == Least(a + input.batch - 1, Len(lines))

\* Mutant: a malformed line breaks out of the batch's loop.
UntilBad(a) ==
  LET e == Least(a + input.batch - 1, Len(lines))
  IN Min({e} \union {i \in a..e : ~Good(lines[i])})

\* The last line that a batch beginning with line a reads: it ends with the
\* batch's number of lines, with the file, or with the limit.
Until(a) ==
  LET e == Least(a + input.batch - 1, Len(lines))
      cut == {i \in GoodIn(a, e) : Cardinality(GoodIn(a, i)) + sent >= input.limit}
  IN IF input.limit > 0 /\ cut # {} THEN Min(cut) ELSE e

\* A batch holds the records of its lines that have seven fields.
Batch(a) == GoodIn(a, Until(a))

\* What of batch b is for worker w, by turns or by station.
Part(b, w) ==
  IF input.dist = "rr" \/ W = 1 THEN IF seq % W = w THEN b ELSE {}
  ELSE {i \in b : lines[i].rec.station % W = w}

\* One turn of iter_batches, and the batch dealt out: an empty batch ends the
\* stream, and so does the limit.
Stream ==
  /\ ~over
  /\ LET b == Batch(pos + 1) IN
     /\ pos' = Until(pos + 1)
     /\ sent' = sent + Cardinality(b)
     /\ over' = (b = {} \/ (input.limit > 0 /\ sent' >= input.limit))
     /\ seq' = IF b = {} THEN seq ELSE seq + 1
     /\ link' = [w \in Worker |-> IF Part(b, w) = {} THEN link[w]
                                  ELSE Append(link[w], Part(b, w))]
  /\ UNCHANGED <<input, todo, state, folded, query>>

-----------------------------------------------------------------------------
(***************************************************************************)
(* The workers.                                                            *)
(***************************************************************************)

\* The worker takes its lock and begins with a batch.
Take(w) ==
  /\ todo[w] = {} /\ link[w] # <<>>
  /\ todo' = [todo EXCEPT ![w] = Head(link[w])]
  /\ link' = [link EXCEPT ![w] = Tail(@)]
  /\ UNCHANGED <<stream, state, folded, query>>

\* One record, in the order of the lines; after the last one the lock is
\* released.
Fold(w) ==
  /\ todo[w] # {}
  /\ LET i == Min(todo[w]) IN
     /\ state' = [state EXCEPT ![w] = Add(@, lines[i].rec)]
     /\ folded' = [folded EXCEPT ![w] = @ \union {i}]
     /\ todo' = [todo EXCEPT ![w] = @ \ {i}]
  /\ UNCHANGED <<stream, link, query>>

Settled == over /\ \A w \in Worker : link[w] = <<>> /\ todo[w] = {}

-----------------------------------------------------------------------------
(***************************************************************************)
(* A query, asked at any time, and again once all is folded.               *)
(***************************************************************************)
Ask ==
  /\ asking = "no" \/ (asking = "answered" /\ ~settled /\ Settled)
  /\ asking' = "asked"
  /\ held' = [w \in Worker |-> <<>>] /\ merged' = [total |-> Empty, next |-> 0]
  /\ seen' = [w \in Worker |-> {}]
  /\ settled' = Settled
  /\ UNCHANGED <<stream, work, report>>

\* The worker's lock is free.
LockFree(w) == todo[w] = {}

\* GetPartial of worker w.
GetPartial(w) ==
  /\ asking = "asked" /\ held[w] = <<>> /\ LockFree(w)
  /\ held' = [held EXCEPT ![w] = <<Wire(state[w])>>]
  /\ seen' = [seen EXCEPT ![w] = folded[w]]
  /\ UNCHANGED <<stream, work, asking, merged, settled, report>>

\* merge_all goes through the answers in the order of the workers.
MergeNext ==
  /\ asking = "asked" /\ \A w \in Worker : held[w] # <<>>
  /\ merged.next < W
  /\ merged' = [total |-> Merge(merged.total, held[merged.next][1]), next |-> merged.next + 1]
  /\ UNCHANGED <<stream, work, asking, held, seen, settled, report>>

\* The report is filled; a dict may list the intervals in any order.
Answer ==
  /\ asking = "asked" /\ merged.next = W
  /\ \E order \in SetToSeqs(DOMAIN merged.total.intervals) :
       report' = Fill(merged.total, input.k, order)
  /\ asking' = "answered"
  /\ UNCHANGED <<stream, work, held, merged, seen, settled>>

Done == asking = "answered" /\ settled /\ UNCHANGED vars

Next ==
  \/ Stream \/ (\E w \in Worker : Take(w) \/ Fold(w) \/ GetPartial(w))
  \/ Ask \/ MergeNext \/ Answer \/ Done

Spec == Init /\ [][Next]_vars

-----------------------------------------------------------------------------
(***************************************************************************)
(* Properties.                                                             *)
(***************************************************************************)

\* Whatever the query met, batches that others are still folding, workers that
\* have nothing, ties between workers, a report is what the reference makes of
\* the records that the answers held, each once.
ReportExact ==
  asking = "answered" => report = Oracle(RecordsOf(UNION {seen[w] : w \in Worker}), input.k)

\* Lines are left that neither the limit nor the file's end explains.
SkipsRest == over /\ pos < Len(lines) /\ (input.limit = 0 \/ sent < input.limit)

\* The only way to lose records of a file is a batch made of nothing but
\* malformed lines, which is taken for the end of the file.
OnlyBadBatchStops ==
  SkipsRest =>
    pos >= input.batch /\ \A i \in (pos - input.batch + 1)..pos : ~Good(lines[i])

\* What oracle.py reads of the file, under --limit only the first records.
OracleReads ==
  {i \in OracleLines :
     input.limit = 0 \/ Cardinality({j \in OracleLines : j <= i}) <= input.limit}

\* A query that is asked when all is folded prints what oracle.py prints of the
\* file (of its first records under --limit): however the records were cut,
\* dealt and merged.  (Lines with more than seven fields, which oracle.py
\* reads and the streamer drops, are no part of such a file.)
FinalExact ==
  asking = "answered" /\ settled /\ ~SkipsRest /\ (\A i \in DOMAIN lines : lines[i].fields <= 7)
    => report = Oracle(RecordsOf(OracleReads), input.k)
=============================================================================
