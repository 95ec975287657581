------------------------------ MODULE WxTables ------------------------------
(***************************************************************************)
(* The tables of the streaming weather analytics, section2/q2_grpc/        *)
(* common.py: what a worker folds records into, how the workers' tables    *)
(* are merged, and the report that is printed; and the reference for all   *)
(* that, scripts/oracle.py of q8, which works on the whole file.           *)
(*                                                                         *)
(* A collection of records is a function from the lines they are on.       *)
(* Values are integers and sums are exact: Neumaier's compensation, which  *)
(* makes the float sums agree to two decimals, is left out, and so is the  *)
(* rounding; an average is the pair of sum and count.                      *)
(***************************************************************************)
EXTENDS Integers, SequencesExt

CONSTANT Infinity   \* greater than every value

ASSUME InfinityAssumption == Infinity \in Nat

Measure == {"t", "h", "p", "rain", "wind"}
Low     == {"t", "h", "p"}     \* those with a minimum
Value   == (1 - Infinity)..(Infinity - 1)
Record  == [ts : Int, station : Int, t : Value, h : Value, p : Value, rain : Value, wind : Value]
HOT  == 40
COLD == 0
INTERVAL == 60

-----------------------------------------------------------------------------
None == [valid |-> FALSE, temp |-> 0, station |-> 0, ts |-> 0]
Here(r) == [valid |-> TRUE, temp |-> r.t, station |-> r.station, ts |-> r.ts]

\* The earlier one, or the smaller station id.
Earlier(a, b) == a.ts < b.ts \/ (a.ts = b.ts /\ a.station < b.station)

Hotter(a, b) ==
  a.valid /\ (b.valid => a.temp > b.temp \/ (a.temp = b.temp /\ Earlier(a, b)))

Colder(a, b) ==
  a.valid /\ (b.valid => a.temp < b.temp \/ (a.temp = b.temp /\ Earlier(a, b)))

\* Partial().  A station's row is [count, t, rain]; a table is a function.
Empty ==
  [count |-> 0, extreme |-> 0,
   sum |-> [m \in Measure |-> 0],
   min |-> [m \in Low |-> Infinity], max |-> [m \in Measure |-> -Infinity],
   hottest |-> None, coldest |-> None,
   stations |-> [s \in {} |-> 0], intervals |-> [i \in {} |-> 0]]

Least(a, b)    == IF b < a THEN b ELSE a
Greatest(a, b) == IF b > a THEN b ELSE a

\* Row k of table f becomes x, or what Plus makes of the row and x.
AddRow(f, k, x, Plus(_, _)) ==
  [j \in DOMAIN f \union {k} |->
     IF j # k THEN f[j] ELSE IF k \in DOMAIN f THEN Plus(f[k], x) ELSE x]

PlusNumber(a, b)  == a + b

PlusStation(a, b) == [count |-> a.count + b.count, t |-> a.t + b.t, rain |-> a.rain + b.rain]

\* The test that saves most comparisons: an unset extremum has temperature 0.
HotEnough(e, r) == r.t >= e.temp \/ ~e.valid

\* One record of add_batch's loop.
Add(p, r) ==
  [count     |-> p.count + 1,
   extreme   |-> p.extreme + (IF r.t >= HOT \/ r.t <= COLD THEN 1 ELSE 0),
   sum       |-> [m \in Measure |-> p.sum[m] + r[m]],
   min       |-> [m \in Low |-> Least(p.min[m], r[m])],
   max       |-> [m \in Measure |-> Greatest(p.max[m], r[m])],
   hottest   |-> IF HotEnough(p.hottest, r) /\ Hotter(Here(r), p.hottest)
                   THEN Here(r) ELSE p.hottest,
   coldest   |-> IF (r.t <= p.coldest.temp \/ ~p.coldest.valid) /\ Colder(Here(r), p.coldest)
                   THEN Here(r) ELSE p.coldest,
   stations  |-> AddRow(p.stations, r.station, [count |-> 1, t |-> r.t, rain |-> r.rain],
                        PlusStation),
   intervals |-> AddRow(p.intervals, r.ts \div INTERVAL, 1, PlusNumber)]

\* All rows of g are added to f.
AddRows(f, g, Plus(_, _)) ==
  [k \in DOMAIN f \union DOMAIN g |->
     IF k \notin DOMAIN g THEN f[k] ELSE IF k \notin DOMAIN f THEN g[k] ELSE Plus(f[k], g[k])]

\* Partial.merge
Merge(p, o) ==
  [count     |-> p.count + o.count,
   extreme   |-> p.extreme + o.extreme,
   sum       |-> [m \in Measure |-> p.sum[m] + o.sum[m]],
   min       |-> [m \in Low |-> Least(p.min[m], o.min[m])],
   max       |-> [m \in Measure |-> Greatest(p.max[m], o.max[m])],
   hottest   |-> IF Hotter(o.hottest, p.hottest) THEN o.hottest ELSE p.hottest,
   coldest   |-> IF Colder(o.coldest, p.coldest) THEN o.coldest ELSE p.coldest,
   stations  |-> AddRows(p.stations, o.stations, PlusStation),
   intervals |-> AddRows(p.intervals, o.intervals, PlusNumber)]

\* Mutant: what an unset number is on the wire is taken for a measurement.
WireZero(p) ==
  IF p.count = 0
  THEN [p EXCEPT !.min = [m \in Low |-> 0], !.max = [m \in Measure |-> 0]]
  ELSE p

\* to_pb and from_pb: the extrema of a worker without records are set anew.
Wire(p) ==
  IF p.count = 0
  THEN [p EXCEPT !.min = [m \in Low |-> Infinity], !.max = [m \in Measure |-> -Infinity]]
  ELSE p

\* Rows <<station, count, ...>> by decreasing count, then increasing id (both
\* programs sort by that key: common.py:228, oracle.py:106); the first k.
Before(a, b) == a[2] > b[2] \/ (a[2] = b[2] /\ a[1] < b[1])
Ranked(rows) == SetToSortSeq(rows, Before)
Top(rows, k) == SubSeq(Ranked(rows), 1, Least(k, Cardinality(rows)))

TopStations(p, k) ==
  Top({<<s, p.stations[s].count, p.stations[s].t, p.stations[s].rain>> : s \in DOMAIN p.stations},
      k)

\* Interval i with c records replaces the best so far.
Busier(best, i, c) == c > best[2] \/ (c = best[2] /\ best[2] > 0 /\ i < best[1])

\* busiest, over the table in the given order.
Busiest(p, order) ==
  FoldLeft(LAMBDA best, i : IF Busier(best, i, p.intervals[i]) THEN <<i, p.intervals[i]>>
                            ELSE best,
           <<0, 0>>, order)

Place(e) == <<e.temp, e.station, e.ts>>

\* fill_report, with zeros where there is no record; what report_lines prints.
Fill(p, k, order) ==
  LET some(f) == IF p.count > 0 THEN f ELSE [m \in DOMAIN f |-> 0] IN
  [count |-> p.count, extreme |-> p.extreme, rain |-> p.sum["rain"],
   avg |-> some([m \in Measure \ {"rain"} |-> <<p.sum[m], p.count>>]),
   min |-> some(p.min), max |-> some(p.max),
   hottest |-> Place(p.hottest), coldest |-> Place(p.coldest),
   busiest |-> Busiest(p, order), top |-> TopStations(p, k)]

\* Records folded into empty tables, in the order of their lines.
Folded(rs) ==
  MapThenFoldSet(LAMBDA r, p : Add(p, r), Empty, LAMBDA i : rs[i], LAMBDA S : Max(S), DOMAIN rs)

-----------------------------------------------------------------------------
(***************************************************************************)
(* The reference: oracle.py on the records of a file, each by its line.    *)
(***************************************************************************)
Total(rs, m, D) == SumFunctionOnSet([i \in D |-> rs[i][m]], D)
Values(rs, m)   == {rs[i][m] : i \in DOMAIN rs}

\* The record that is first by temperature, down or up, then by time, then by
\* station.
NotAfter(a, b, sign) ==
  \/ sign * a.t < sign * b.t
  \/ a.t = b.t /\ (a.ts < b.ts \/ (a.ts = b.ts /\ a.station <= b.station))
Leading(rs, sign) == CHOOSE r \in Range(rs) : \A x \in Range(rs) : NotAfter(r, x, sign)
First(rs, sign) ==
  LET r == Leading(rs, sign)
  IN IF DOMAIN rs = {} THEN <<0, 0, 0>> ELSE <<r.t, r.station, r.ts>>

\* Lines of a station, and of an interval.
OfStation(rs, s)  == {i \in DOMAIN rs : rs[i].station = s}
OfInterval(rs, b) == {i \in DOMAIN rs : rs[i].ts \div 60 = b}

Stations(rs)  == {rs[i].station : i \in DOMAIN rs}
Intervals(rs) == {rs[i].ts \div 60 : i \in DOMAIN rs}

\* The interval with the most records, the least of those that have as many.
Most(rs) ==
  LET in(b) == Cardinality(OfInterval(rs, b))
      most  == Max({in(b) : b \in Intervals(rs)})
  IN IF Intervals(rs) = {} THEN <<0, 0>>
     ELSE <<Min({b \in Intervals(rs) : in(b) = most}), most>>

Oracle(rs, k) ==
  LET D == DOMAIN rs
      n == Cardinality(D)
  IN [count |-> n,
      extreme |-> Cardinality({i \in D : rs[i].t >= 40 \/ rs[i].t <= 0}),
      rain |-> Total(rs, "rain", D),
      avg |-> [m \in Measure \ {"rain"} |-> IF n = 0 THEN 0 ELSE <<Total(rs, m, D), n>>],
      min |-> [m \in Low |-> IF n = 0 THEN 0 ELSE Min(Values(rs, m))],
      max |-> [m \in Measure |-> IF n = 0 THEN 0 ELSE Max(Values(rs, m))],
      hottest |-> First(rs, -1), coldest |-> First(rs, 1),
      busiest |-> Most(rs),
      top |-> Top({<<s, Cardinality(OfStation(rs, s)), Total(rs, "t", OfStation(rs, s)),
                     Total(rs, "rain", OfStation(rs, s))>> : s \in Stations(rs)}, k)]
=============================================================================
