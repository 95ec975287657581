----------------------------- MODULE WeatherMpi -----------------------------
(***************************************************************************)
(* The MPI program, q8_from hw2/src/weather_mpi.cpp: every rank opens the  *)
(* file, rank 0 broadcasts the header, each rank folds the records of its  *)
(* byte range (MpiSplit), and a sequence of collective calls reduces what  *)
(* they have to a report that rank 0 writes.                               *)
(*                                                                         *)
(* Collectives match by the order in which each rank calls them.  Whether  *)
(* those that MPI does not oblige to synchronise do so is left to the      *)
(* library.  Of the scalars the model keeps the count and the hottest      *)
(* record: the others are reduced with them, in the same way.              *)
(***************************************************************************)
EXTENDS MpiSplit, FiniteSetsExt, SequencesExt, Functions

CONSTANTS
  Record,     \* by the offset of a line: [ok, station, ts, temp]
  S,          \* stations that the header declares
  DenseLimit, \* kDenseIntervalLimit
  LLong,      \* a number beyond every interval
  Absent      \* which ranks may be without the file: a set of sets

\* What a line may be read as.
Reading == [ok : BOOLEAN, station : Nat, ts : 0..(60 * LLong - 1), temp : Int]

ASSUME MpiAssumption ==
  /\ S \in Nat /\ DenseLimit \in Nat /\ LLong \in Nat \ {0} /\ Absent \subseteq SUBSET Rank
  /\ \A o \in DOMAIN Record : Record[o] \in Reading
  /\ \A f \in Inputs : f.header..(f.size - 1) \subseteq DOMAIN Record

VARIABLES
  missing,    \* ranks that cannot open the file
  header_ok,  \* the header can be parsed
  eager,      \* the library does not synchronise where it need not
  stage,      \* where the rank is in main
  calls,      \* its collective calls, [op, data], the last one perhaps not over
  inside,     \* it is inside the last one
  report      \* the report that is written, or <<>>

mpi  == <<missing, header_ok, eager, stage, calls, inside, report>>
vars == <<split, mpi>>

Init ==
  /\ SplitInit
  /\ missing \in Absent /\ header_ok \in BOOLEAN /\ eager \in BOOLEAN
  /\ stage = [r \in Rank |-> "open"]
  /\ calls = [r \in Rank |-> <<>>] /\ inside = [r \in Rank |-> FALSE]
  /\ report = <<>>

\* fopen: a rank that has no file is off to MPI_Finalize.
Open(r) ==
  /\ stage[r] = "open"
  /\ stage' = [stage EXCEPT ![r] = IF r \in missing THEN "finalize" ELSE "bcast"]
  /\ UNCHANGED <<split, missing, header_ok, eager, calls, inside, report>>

-----------------------------------------------------------------------------
(***************************************************************************)
(* What a rank contributes.                                                *)
(***************************************************************************)
Ops == {"bcast", "scalars", "span", "stations", "bounds", "dense", "sparse", "finalize"}

\* What the lines are read as; the good ones hold seven fields, the others
\* nothing that is folded.
Folded(lines) == [k \in DOMAIN lines |-> Record[Head(lines[k])]]
Good(rs)      == {k \in DOMAIN rs : rs[k].ok}

\* Mutant: what holds no record competes with the zeros in it.
HotterUnset(a, b) ==
  \/ a.temp > b.temp
  \/ a.temp = b.temp /\ a.ts < b.ts
  \/ a.temp = b.temp /\ a.ts = b.ts /\ a.station < b.station

\* hotter(a, b), for candidates that may hold no record.
Hotter(a, b) ==
  a.ok /\ (b.ok => \/ a.temp > b.temp
                   \/ a.temp = b.temp /\ a.ts < b.ts
                   \/ a.temp = b.temp /\ a.ts = b.ts /\ a.station < b.station)

None == [ok |-> FALSE, station |-> 0, ts |-> 0, temp |-> 0]
Hottest(rs) == FoldLeft(LAMBDA b, a : IF Hotter(a, b) THEN a ELSE b, None, rs)

Interval(a)   == a.ts \div 60
Stations(rs)  == [k \in Good(rs) |-> rs[k].station]
Buckets(rs)   == [k \in Good(rs) |-> Interval(rs[k])]
Tally(vs, x)  == Cardinality({k \in DOMAIN vs : vs[k] = x})

\* What the collective op of all ranks brought.
Index(op)  == CHOOSE k \in DOMAIN calls[0] : calls[0][k].op = op
Given(op)  == [s \in Rank |-> calls[s][Index(op)].data]
Sum(f, x)  == SumFunction([s \in Rank |-> f[s][x]])
Span       == Max({Given("span")[s] : s \in Rank})
Glo        == Min({Given("bounds")[s][1] : s \in Rank})
Ghi        == Max({Given("bounds")[s][2] : s \in Rank})

\* What it is of the records rs, if lo..hi are the intervals of all ranks and
\* span is beyond their stations.
Share(rs, op, span, lo, hi) ==
  LET ids == Range(Buckets(rs)) IN
  CASE op = "bcast"    -> header_ok
    [] op = "scalars"  -> [count |-> Cardinality(Good(rs)), hottest |-> Hottest(rs)]
    [] op = "span"     -> Max({S} \union {x + 1 : x \in Range(Stations(rs))})
    [] op = "stations" -> [x \in 0..(span - 1) |-> Tally(Stations(rs), x)]
    [] op = "bounds"   -> IF ids = {} THEN <<LLong, -LLong>> ELSE <<Min(ids), Max(ids)>>
    [] op = "dense"    -> [x \in lo..hi |-> Tally(Buckets(rs), x)]
    [] op = "sparse"   -> [x \in ids |-> Tally(Buckets(rs), x)]
    [] op = "finalize" -> <<>>

Contribution(r, op) == Share(Folded(acc[r]), op, Span, Glo, Ghi)

-----------------------------------------------------------------------------
(***************************************************************************)
(* The collective calls.                                                   *)
(***************************************************************************)
Call(r) ==
  /\ stage[r] \in Ops /\ ~inside[r]
  /\ calls' = [calls EXCEPT ![r] = Append(@, [op |-> stage[r],
                                              data |-> Contribution(r, stage[r])])]
  /\ inside' = [inside EXCEPT ![r] = TRUE]
  /\ UNCHANGED <<split, missing, header_ok, eager, stage, report>>

\* The ranks whose call it takes for r's to return: all of them where every
\* rank gets the result, the root for a broadcast; the root needs all.
Needed(r, op) ==
  IF ~eager \/ op \in {"span", "bounds"} THEN Rank
  ELSE CASE op = "bcast" -> {0}
         [] op = "finalize" -> {}
         [] OTHER -> IF r = 0 THEN Rank ELSE {}

Returns(r) ==
  LET n == Len(calls[r]) IN
  \A s \in Needed(r, stage[r]) : Len(calls[s]) >= n /\ calls[s][n].op = stage[r]

\* Mutant: a rank that knows of no station skips the tables.
AfterSpanOwn(r) ==
  IF calls[r][Len(calls[r])].data > 0 THEN "stations" ELSE "bounds"

AfterSpan(r) == IF Span > 0 THEN "stations" ELSE "bounds"

Finish(r) == IF r = 0 THEN "write" ELSE "finalize"

\* Where main goes on: the branches are taken on what all ranks know.
After(r) ==
  CASE stage[r] = "bcast"    -> IF Given("bcast")[0] THEN "split" ELSE "finalize"
    [] stage[r] = "scalars"  -> "span"
    [] stage[r] = "span"     -> AfterSpan(r)
    [] stage[r] = "stations" -> "bounds"
    [] stage[r] = "bounds"   -> IF Ghi < Glo THEN Finish(r)
                                ELSE IF Ghi - Glo + 1 <= DenseLimit THEN "dense" ELSE "sparse"
    [] stage[r] = "finalize" -> "gone"
    [] OTHER                 -> Finish(r)

Return(r) ==
  /\ inside[r] /\ Returns(r)
  /\ inside' = [inside EXCEPT ![r] = FALSE]
  /\ stage' = [stage EXCEPT ![r] = After(r)]
  /\ UNCHANGED <<split, missing, header_ok, eager, calls, report>>

\* The range of this rank is read.
ReadRange(r) ==
  /\ stage[r] = "split"
  /\ \/ (Enter(r) \/ Splitting(r)) /\ UNCHANGED stage
     \/ at[r] = "split" /\ stage' = [stage EXCEPT ![r] = "scalars"] /\ UNCHANGED split
  /\ UNCHANGED <<missing, header_ok, eager, calls, inside, report>>

-----------------------------------------------------------------------------
(***************************************************************************)
(* The report.                                                             *)
(***************************************************************************)

\* The interval with the highest count, the smallest of them; <<0, 0>> if none.
Busiest(counts) ==
  LET top  == Max({counts[x] : x \in DOMAIN counts} \union {0})
      best == {x \in DOMAIN counts : counts[x] = top}
  IN IF top = 0 THEN <<0, 0>> ELSE <<Min(best), top>>

Intervals ==
  IF Ghi < Glo THEN <<>>
  ELSE IF Ghi - Glo + 1 <= DenseLimit
       THEN [x \in Glo..Ghi |-> Sum(Given("dense"), x)]
       ELSE LET f == Given("sparse") IN
            [x \in UNION {DOMAIN f[s] : s \in Rank} |->
               SumFunction([s \in {q \in Rank : x \in DOMAIN f[q]} |-> f[s][x]])]

Rows(counts) == {<<x, counts[x]>> : x \in {y \in DOMAIN counts : counts[y] > 0}}

Report ==
  [count   |-> SumFunction([s \in Rank |-> Given("scalars")[s].count]),
   hottest |-> Hottest([k \in 1..P |-> Given("scalars")[k - 1].hottest]),
   rows    |-> IF Span > 0 THEN Rows([x \in 0..(Span - 1) |-> Sum(Given("stations"), x)]) ELSE {},
   busiest |-> Busiest(Intervals)]

Write ==
  /\ stage[0] = "write"
  /\ report' = <<Report>> /\ stage' = [stage EXCEPT ![0] = "finalize"]
  /\ UNCHANGED <<split, missing, header_ok, eager, calls, inside>>

\* The output cannot be opened: MPI_Abort.
Abort ==
  /\ stage[0] = "write"
  /\ stage' = [r \in Rank |-> "gone"] /\ inside' = [r \in Rank |-> FALSE]
  /\ UNCHANGED <<split, missing, header_ok, eager, calls, report>>

Main(r) == Open(r) \/ Call(r) \/ Return(r) \/ ReadRange(r)

Next == Write \/ Abort \/ \E r \in Rank : Main(r)

Spec == Init /\ [][Next]_vars

\* Every process runs.
FairSpec == Spec /\ WF_vars(Write \/ Abort) /\ \A r \in Rank : WF_vars(Main(r))

-----------------------------------------------------------------------------
(***************************************************************************)
(* Properties.                                                             *)
(***************************************************************************)

\* However the ranges and the chunks cut the file, the ranks together have its
\* records, each one once, whole and in order; and whatever read fails, a rank
\* has only what begins in its own range.
SplitExact ==
  /\ (\A r \in Rank : at[r] = "split") /\ ~torn =>
       FlattenSeq([k \in 1..P |-> acc[k - 1]]) = Lines
  /\ \A r \in Rank : \A k \in DOMAIN acc[r] :
       Head(acc[r][k]) \in RawStart(r)..(RawEnd(r) - 1)

\* The report of a file: what the sequential program is to write as well.
First(a, b) == \/ a.temp > b.temp
               \/ a.temp = b.temp /\ a.ts < b.ts
               \/ a.temp = b.temp /\ a.ts = b.ts /\ a.station <= b.station
Expected ==
  LET rs   == Folded(Lines)
      good == {rs[k] : k \in Good(rs)}
  IN
  [count   |-> Cardinality(Good(rs)),
   hottest |-> IF good = {} THEN None
               ELSE CHOOSE a \in good : \A b \in good : First(a, b),
   rows    |-> Rows([x \in Range(Stations(rs)) |-> Tally(Stations(rs), x)]),
   busiest |-> Busiest([x \in Range(Buckets(rs)) |-> Tally(Buckets(rs), x)])]

\* A report is that of the whole file, unless a read has failed; a rank that
\* could not open the file never leads to a report without its records.
MpiReportExact ==
  report # <<>> => missing = {} /\ header_ok /\ (~torn => report[1] = Expected)

\* All ranks make the same calls, even those that have no record: if all have
\* the file, or none, the program ends.
MpiEnds ==
  missing \in {{}, Rank} ~> \A r \in Rank : stage[r] = "gone"

-----------------------------------------------------------------------------
(***************************************************************************)
(* The inductive invariant behind MpiReportExact, beside SplitInv.         *)
(***************************************************************************)

\* What the calls are to agree on, by what the ranks have folded.
Mine(r, op) == Share(Folded(acc[r]), op, 0, 0, 0)
Wide    == Max({Mine(s, "span") : s \in Rank})
Lowest  == Min({Mine(s, "bounds")[1] : s \in Rank})
Highest == Max({Mine(s, "bounds")[2] : s \in Rank})
Full(r, op) == Share(Folded(acc[r]), op, Wide, Lowest, Highest)

\* The calls in their order.
Tables(lo, hi) == IF hi < lo THEN <<>>
                  ELSE IF hi - lo + 1 <= DenseLimit THEN <<"dense">> ELSE <<"sparse">>
RouteOf(wide, lo, hi) ==
  <<"bcast", "scalars", "span">> \o (IF wide > 0 THEN <<"stations">> ELSE <<>>)
    \o <<"bounds">> \o Tables(lo, hi) \o <<"finalize">>
Route == RouteOf(Wide, Lowest, Highest)

Stages == Ops \union {"open", "split", "write", "gone"}

MpiOK ==
  /\ missing \in SUBSET Rank /\ header_ok \in BOOLEAN /\ eager \in BOOLEAN
  /\ stage \in [Rank -> Stages] /\ inside \in [Rank -> BOOLEAN]
  /\ DOMAIN calls = Rank
  /\ \A r \in Rank : /\ calls[r] \in Seq(Range(calls[r]))
                     /\ inside[r] => calls[r] # <<>> /\ stage[r] \in Ops

\* Nobody gets to the tables if a rank has no file, or past the header if it
\* cannot be parsed.
Stopped ==
  /\ \A r \in Rank : \A k \in DOMAIN calls[r] :
       /\ calls[r][k].op = "bcast" => calls[r][k].data = header_ok
       /\ r \in missing => calls[r][k].op = "finalize"
  /\ \A r \in Rank :
       /\ r \in missing => stage[r] \in {"open", "finalize", "gone"}
       /\ missing # {} => stage[r] \in {"open", "bcast", "split", "scalars", "span",
                                       "finalize", "gone"}
       /\ ~header_ok => stage[r] \in {"open", "bcast", "finalize", "gone"}
  /\ report # <<>> => missing = {} /\ header_ok

\* How many calls the rank has returned from.
Over(r) == IF inside[r] THEN Len(calls[r]) - 1 ELSE Len(calls[r])

\* Where a rank is follows from the calls it has made.
Placed(r) ==
  LET n == Len(calls[r]) IN
  IF inside[r] THEN n >= 1 /\ stage[r] = Route[n]
  ELSE \/ stage[r] = "gone"
       \/ n < Len(Route) /\ stage[r] = Route[n + 1]
       \/ n = 0 /\ stage[r] = "open"
       \/ n = 1 /\ stage[r] = "split"
       \/ r = 0 /\ n = Len(Route) - 1 /\ stage[r] = "write"

\* Its calls are the first of the route, with what it has of its range.
Called(r) ==
  /\ Len(calls[r]) <= Len(Route)
  /\ \A k \in DOMAIN calls[r] :
       calls[r][k] = [op |-> Route[k], data |-> Full(r, Route[k])]
  /\ (Len(calls[r]) >= 2 \/ stage[r] \in {"scalars", "gone"}) => at[r] = "split"

\* Nobody is past a call that gives all ranks its result, nor the root past
\* any of the reductions, before all have come to it.
Waited(r) ==
  \A k \in 2..Over(r) :
    (Route[k] \in {"span", "bounds"} \/ (r = 0 /\ k < Len(Route)))
      => \A s \in Rank : Len(calls[s]) >= k

MpiInv ==
  /\ SplitInv /\ MpiOK /\ Stopped
  /\ missing = {} /\ header_ok => \A r \in Rank : Placed(r) /\ Called(r) /\ Waited(r)
  /\ MpiReportExact
=============================================================================
