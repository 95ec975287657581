------------------------ MODULE WeatherReportProofs -------------------------
(***************************************************************************)
(* Proofs about WxVerify.  First the tables: those of a collection of      *)
(* records are given by what they say of it (TableOf), a record folded in  *)
(* and a merge are the tables of more records, and the report that is      *)
(* filled from them is the reference's.  Then the steps of the streaming   *)
(* programs: which lines each worker has, waits for and has answered with. *)
(* Last the batch pipeline, which cuts the tables in pieces and puts them  *)
(* together again.                                                         *)
(***************************************************************************)
EXTENDS WxVerify, FiniteSums, SequenceTheorems

\* The records of R on the lines D.
On(R, D) == [i \in D |-> R[i]]

Lowest(V)  == IF V = {} THEN Infinity ELSE Min(V)
Highest(V) == IF V = {} THEN -Infinity ELSE Max(V)
Leader(rs, sign) == IF DOMAIN rs = {} THEN None ELSE Here(Leading(rs, sign))
HotOrCold(rs) == {i \in DOMAIN rs : rs[i].t >= HOT \/ rs[i].t <= COLD}
Row(rs, s) ==
  [count |-> Cardinality(OfStation(rs, s)), t |-> Total(rs, "t", OfStation(rs, s)),
   rain |-> Total(rs, "rain", OfStation(rs, s))]

\* The tables that hold the records of rs, each once.
TableOf(rs) ==
  [count     |-> Cardinality(DOMAIN rs),
   extreme   |-> Cardinality(HotOrCold(rs)),
   sum       |-> [m \in Measure |-> Total(rs, m, DOMAIN rs)],
   min       |-> [m \in Low |-> Lowest(Values(rs, m))],
   max       |-> [m \in Measure |-> Highest(Values(rs, m))],
   hottest   |-> Leader(rs, -1),
   coldest   |-> Leader(rs, 1),
   stations  |-> [s \in Stations(rs) |-> Row(rs, s)],
   intervals |-> [b \in Intervals(rs) |-> Cardinality(OfInterval(rs, b))]]

-----------------------------------------------------------------------------
(***************************************************************************)
(* What is counted and summed.                                             *)
(***************************************************************************)

\* Each measurement of a record is a value.
LEMMA MeasureValue ==
  ASSUME NEW r \in Record, NEW m \in Measure
  PROVE  r[m] \in Value
<1>1. r.t \in Value /\ r.h \in Value /\ r.p \in Value /\ r.rain \in Value /\ r.wind \in Value
  BY DEF Record
<1>2. m = "t" \/ m = "h" \/ m = "p" \/ m = "rain" \/ m = "wind"
  BY DEF Measure
<1> QED
  BY <1>1, <1>2

LEMMA ValueInt == Value \in SUBSET Int /\ \A v \in Value : -Infinity < v /\ v < Infinity
BY InfinityAssumption DEF Value

\* The size of two finite sets that do not meet.
LEMMA SizeUnion ==
  ASSUME NEW A, IsFiniteSet(A), NEW B, IsFiniteSet(B), A \intersect B = {}
  PROVE  /\ IsFiniteSet(A \union B)
         /\ Cardinality(A \union B) = Cardinality(A) + Cardinality(B)
         /\ Cardinality(A) \in Nat /\ Cardinality(B) \in Nat
<1>1. /\ IsFiniteSet(A \union B)
      /\ Cardinality(A \union B) = Cardinality(A) + Cardinality(B) - Cardinality(A \intersect B)
  BY FS_Union
<1>2. Cardinality(A \intersect B) = 0 /\ Cardinality(A) \in Nat /\ Cardinality(B) \in Nat
  BY FS_EmptySet, FS_CardinalityType
<1> QED
  BY <1>1, <1>2

\* A sum over some of the lines is that of the measurement over them.
LEMMA TotalIs ==
  ASSUME NEW L, NEW R \in [L -> Record], NEW m \in Measure, NEW A \in SUBSET L,
         NEW X \in SUBSET A, IsFiniteSet(X)
  PROVE  /\ [i \in L |-> R[i][m]] \in [L -> Int]
         /\ Total(On(R, A), m, X) = SumFunctionOnSet([i \in L |-> R[i][m]], X)
         /\ Total(On(R, A), m, X) \in Int
<1> DEFINE f == [i \in L |-> R[i][m]]
           g == [i \in X |-> On(R, A)[i][m]]
<1>1. f \in [L -> Int]
  BY MeasureValue, ValueInt
<1>2. g \in [X -> Int] /\ \A i \in X : g[i] = f[i]
  BY MeasureValue, ValueInt DEF On
<1>3. X \in SUBSET X /\ X \in SUBSET L /\ X \subseteq L
  OBVIOUS
<1> HIDE DEF f, g
<1>4. SumFunctionOnSet(g, X) = SumFunctionOnSet(f, X)
  BY <1>1, <1>2, <1>3, IntSumSame
<1>5. SumFunctionOnSet(f, X) \in Int
  BY <1>1, <1>3, SumInt
<1>6. Total(On(R, A), m, X) = SumFunctionOnSet(g, X)
  BY DEF Total, g
<1> QED
  BY <1>1, <1>4, <1>5, <1>6 DEF f

\* It does not matter of which records these are some.
LEMMA TotalSame ==
  ASSUME NEW L, NEW R \in [L -> Record], NEW m \in Measure, NEW A \in SUBSET L, NEW B \in SUBSET L,
         NEW X \in SUBSET A, X \subseteq B, IsFiniteSet(X)
  PROVE  Total(On(R, A), m, X) = Total(On(R, B), m, X)
<1> DEFINE f == [i \in L |-> R[i][m]]
<1>1. Total(On(R, A), m, X) = SumFunctionOnSet(f, X)
  BY TotalIs
<1>2. Total(On(R, B), m, X) = SumFunctionOnSet(f, X)
  BY TotalIs
<1> QED
  BY <1>1, <1>2

\* Sums over lines of A and lines of B.
LEMMA TotalUnion ==
  ASSUME NEW L, NEW R \in [L -> Record], NEW m \in Measure,
         NEW A \in SUBSET L, NEW X \in SUBSET A, IsFiniteSet(X),
         NEW B \in SUBSET L, NEW Y \in SUBSET B, IsFiniteSet(Y), X \intersect Y = {}
  PROVE  Total(On(R, A \union B), m, X \union Y) = Total(On(R, A), m, X) + Total(On(R, B), m, Y)
<1> DEFINE f == [i \in L |-> R[i][m]]
<1>1. A \union B \in SUBSET L /\ X \union Y \in SUBSET (A \union B) /\ IsFiniteSet(X \union Y)
      /\ X \in SUBSET L /\ Y \in SUBSET L
  BY FS_Union
<1>2. f \in [L -> Int] /\ Total(On(R, A), m, X) = SumFunctionOnSet(f, X)
  BY TotalIs
<1>3. Total(On(R, B), m, Y) = SumFunctionOnSet(f, Y)
  BY TotalIs
<1>4. Total(On(R, A \union B), m, X \union Y) = SumFunctionOnSet(f, X \union Y)
  BY <1>1, TotalIs
<1> HIDE DEF f
<1>5. SumFunctionOnSet(f, X \union Y) = SumFunctionOnSet(f, X) + SumFunctionOnSet(f, Y)
  BY <1>1, <1>2, IntSumUnion
<1> QED
  BY <1>2, <1>3, <1>4, <1>5

-----------------------------------------------------------------------------
(***************************************************************************)
(* Extremes.                                                               *)
(***************************************************************************)

\* A number that is one of V and not above the others is its least, and one
\* that is not below them its greatest.
LEMMA ExtremeIs ==
  ASSUME NEW V \in SUBSET Int, IsFiniteSet(V), NEW x \in V
  PROVE  /\ (\A y \in V : x <= y) => Min(V) = x
         /\ (\A y \in V : y <= x) => Max(V) = x
<1>1. V # {}
  OBVIOUS
<1>2. /\ Max(V) \in V /\ \A y \in V : y <= Max(V)
      /\ Min(V) \in V /\ \A y \in V : Min(V) <= y
  BY <1>1, Extremes
<1>3. Max(V) \in Int /\ Min(V) \in Int /\ x \in Int
  BY <1>2
<1> DEFINE a == Max(V)
           b == Min(V)
<1>4. /\ a \in V /\ a \in Int /\ \A y \in V : y <= a
      /\ b \in V /\ b \in Int /\ \A y \in V : b <= y
  BY <1>2, <1>3
<1> HIDE DEF a, b
<1>5. ASSUME \A y \in V : x <= y PROVE b = x
  BY <1>3, <1>4, <1>5
<1>6. ASSUME \A y \in V : y <= x PROVE a = x
  BY <1>3, <1>4, <1>6
<1> QED
  BY <1>5, <1>6 DEF a, b

\* The extremes of two sets of values.
LEMMA ExtremeUnion ==
  ASSUME NEW V \in SUBSET Value, IsFiniteSet(V), NEW U \in SUBSET Value, IsFiniteSet(U)
  PROVE  /\ Least(Lowest(V), Lowest(U)) = Lowest(V \union U)
         /\ Greatest(Highest(V), Highest(U)) = Highest(V \union U)
<1>1. Infinity \in Int /\ -Infinity \in Int
  BY InfinityAssumption
<1>2. ASSUME NEW X \in SUBSET Value, IsFiniteSet(X), X # {}
      PROVE  /\ Lowest(X) \in X /\ Lowest(X) \in Int /\ Lowest(X) < Infinity
             /\ Highest(X) \in X /\ Highest(X) \in Int /\ -Infinity < Highest(X)
             /\ \A y \in X : Lowest(X) <= y /\ y <= Highest(X)
  <2>1. X \in SUBSET Int
    BY ValueInt
  <2>2. /\ Max(X) \in X /\ \A y \in X : y <= Max(X)
        /\ Min(X) \in X /\ \A y \in X : Min(X) <= y
    BY <1>2, <2>1, Extremes
  <2> QED
    BY <1>2, <2>1, <2>2, ValueInt DEF Lowest, Highest
<1>3. CASE V = {} /\ U = {}
  <2>1. V \union U = {}
    BY <1>3
  <2> QED
    BY <1>1, <1>3, <2>1 DEF Lowest, Highest, Least, Greatest
<1>4. CASE V = {} /\ U # {}
  <2>1. V \union U = U
    BY <1>4
  <2>2. Lowest(V) = Infinity /\ Highest(V) = -Infinity
    BY <1>4 DEF Lowest, Highest
  <2>3. Lowest(U) \in Int /\ Lowest(U) < Infinity /\ Highest(U) \in Int /\ -Infinity < Highest(U)
    BY <1>2, <1>4
  <2> QED
    BY <1>1, <2>1, <2>2, <2>3 DEF Least, Greatest
<1>5. CASE V # {} /\ U = {}
  <2>1. V \union U = V
    BY <1>5
  <2>2. Lowest(U) = Infinity /\ Highest(U) = -Infinity
    BY <1>5 DEF Lowest, Highest
  <2>3. Lowest(V) \in Int /\ Lowest(V) < Infinity /\ Highest(V) \in Int /\ -Infinity < Highest(V)
    BY <1>2, <1>5
  <2> QED
    BY <1>1, <2>1, <2>2, <2>3 DEF Least, Greatest
<1>6. CASE V # {} /\ U # {}
  <2> DEFINE X == V \union U
             a == Least(Lowest(V), Lowest(U))
             b == Greatest(Highest(V), Highest(U))
  <2>1. X \in SUBSET Int /\ IsFiniteSet(X) /\ X # {}
    BY <1>6, ValueInt, FS_Union
  <2>2. /\ Lowest(V) \in V /\ Lowest(V) \in Int /\ Highest(V) \in V /\ Highest(V) \in Int
        /\ Lowest(U) \in U /\ Lowest(U) \in Int /\ Highest(U) \in U /\ Highest(U) \in Int
    BY <1>2, <1>6
  <2>3. /\ \A y \in V : Lowest(V) <= y /\ y <= Highest(V)
        /\ \A y \in U : Lowest(U) <= y /\ y <= Highest(U)
    BY <1>2, <1>6
  <2>4. a \in X /\ a \in Int /\ a <= Lowest(V) /\ a <= Lowest(U)
    BY <2>2 DEF Least
  <2>5. b \in X /\ b \in Int /\ Highest(V) <= b /\ Highest(U) <= b
    BY <2>2 DEF Greatest
  <2> HIDE DEF a, b
  <2>6. \A y \in X : a <= y
    BY <2>1, <2>2, <2>3, <2>4
  <2>7. \A y \in X : y <= b
    BY <2>1, <2>2, <2>3, <2>5
  <2> HIDE DEF X
  <2>8. Min(X) = a /\ Max(X) = b
    BY <2>1, <2>4, <2>5, <2>6, <2>7, ExtremeIs
  <2> QED
    BY <2>1, <2>8 DEF Lowest, Highest, a, b, X
<1> QED
  BY <1>3, <1>4, <1>5, <1>6

\* Measurements of some lines are finitely many values.
LEMMA ValuesOf ==
  ASSUME NEW L, NEW R \in [L -> Record], NEW m \in Measure, NEW A \in SUBSET L, IsFiniteSet(A)
  PROVE  Values(On(R, A), m) \in SUBSET Value /\ IsFiniteSet(Values(On(R, A), m))
         /\ (Values(On(R, A), m) = {} <=> A = {})
<1> DEFINE f == [i \in A |-> R[i][m]]
<1>1. Values(On(R, A), m) = {f[i] : i \in A}
  BY DEF Values, On
<1>2. \A i \in A : f[i] \in Value
  BY MeasureValue
<1> HIDE DEF f
<1>3. IsFiniteSet({f[i] : i \in A})
  BY ImageFinite
<1> QED
  BY <1>1, <1>2, <1>3

-----------------------------------------------------------------------------
(***************************************************************************)
(* The hottest and the coldest record.                                     *)
(***************************************************************************)
Sign == {-1, 1}

\* The order is total, up to what an extremum shows of a record.
LEMMA OrderTotal ==
  ASSUME NEW sign \in Sign, NEW a \in Record, NEW b \in Record
  PROVE  /\ NotAfter(a, a, sign)
         /\ NotAfter(a, b, sign) \/ NotAfter(b, a, sign)
         /\ NotAfter(a, b, sign) /\ NotAfter(b, a, sign) => Here(a) = Here(b)
         /\ \A c \in Record : NotAfter(a, b, sign) /\ NotAfter(b, c, sign) => NotAfter(a, c, sign)
<1>1. /\ a.t \in Int /\ a.ts \in Int /\ a.station \in Int
      /\ b.t \in Int /\ b.ts \in Int /\ b.station \in Int
      /\ \A c \in Record : c.t \in Int /\ c.ts \in Int /\ c.station \in Int
  BY ValueInt DEF Record
<1> DEFINE Tie(x, y) == x.t = y.t /\ (x.ts < y.ts \/ (x.ts = y.ts /\ x.station <= y.station))
           Up(x, y) == x.t < y.t \/ Tie(x, y)
           Down(x, y) == y.t < x.t \/ Tie(x, y)
<1>2. \A x \in Record : x.t \in Int /\ x.ts \in Int /\ x.station \in Int
  BY ValueInt DEF Record
<1>3. CASE sign = 1
  <2>1. \A x, y \in Record : NotAfter(x, y, sign) <=> Up(x, y)
    BY <1>2, <1>3 DEF NotAfter
  <2>2. /\ Up(a, a) /\ (Up(a, b) \/ Up(b, a))
        /\ Up(a, b) /\ Up(b, a) => a.t = b.t /\ a.ts = b.ts /\ a.station = b.station
    BY <1>1
  <2>3. \A c \in Record : Up(a, b) /\ Up(b, c) => Up(a, c)
    BY <1>1, <1>2
  <2> HIDE DEF Up
  <2> QED
    BY <2>1, <2>2, <2>3 DEF Here
<1>4. CASE sign = -1
  <2>1. \A x, y \in Record : NotAfter(x, y, sign) <=> Down(x, y)
    BY <1>2, <1>4 DEF NotAfter
  <2>2. /\ Down(a, a) /\ (Down(a, b) \/ Down(b, a))
        /\ Down(a, b) /\ Down(b, a) => a.t = b.t /\ a.ts = b.ts /\ a.station = b.station
    BY <1>1
  <2>3. \A c \in Record : Down(a, b) /\ Down(b, c) => Down(a, c)
    BY <1>1, <1>2
  <2> HIDE DEF Down
  <2> QED
    BY <2>1, <2>2, <2>3 DEF Here
<1> QED
  BY <1>3, <1>4 DEF Sign

\* Some records have a first one, and Leading is such a one.
LEMMA LeadingIs ==
  ASSUME NEW sign \in Sign, NEW A, IsFiniteSet(A), A # {}, NEW rs \in [A -> Record]
  PROVE  /\ Leading(rs, sign) \in Record
         /\ \E i \in A : Leading(rs, sign) = rs[i]
         /\ \A i \in A : NotAfter(Leading(rs, sign), rs[i], sign)
<1> DEFINE Led(s) == \E i \in s : \A j \in s : NotAfter(rs[i], rs[j], sign)
           Bad == {s \in SUBSET A : s # {} /\ ~Led(s)}
<1>1. ASSUME Bad # {} PROVE FALSE
  <2>1. PICK s \in Bad : \A x \in s : s \ {x} \notin Bad
    <3>1. Bad \in SUBSET SUBSET A
      OBVIOUS
    <3> QED
      BY <1>1, <3>1, LeastSet
  <2>2. s \in SUBSET A /\ s # {} /\ ~Led(s)
    BY <2>1
  <2>3. PICK x \in s : TRUE
    BY <2>2
  <2>4. rs[x] \in Record /\ x \in A
    BY <2>2, <2>3
  <2>5. CASE s \ {x} = {}
    <3>1. s = {x} /\ NotAfter(rs[x], rs[x], sign)
      BY <2>3, <2>4, <2>5, OrderTotal
    <3> QED
      BY <2>2, <3>1
  <2>6. CASE s \ {x} # {}
    <3>1. PICK i \in s \ {x} : \A j \in s \ {x} : NotAfter(rs[i], rs[j], sign)
      BY <2>1, <2>2, <2>3, <2>6
    <3>2. rs[i] \in Record /\ i \in s
      BY <2>2, <3>1
    <3>3. CASE NotAfter(rs[i], rs[x], sign)
      <4>1. \A j \in s : NotAfter(rs[i], rs[j], sign)
        BY <3>1, <3>3
      <4> QED
        BY <2>2, <3>2, <4>1
    <3>4. CASE NotAfter(rs[x], rs[i], sign)
      <4>1. \A j \in s : NotAfter(rs[x], rs[j], sign)
        <5> SUFFICES ASSUME NEW j \in s PROVE NotAfter(rs[x], rs[j], sign)
          OBVIOUS
        <5>1. CASE j = x
          BY <2>4, <5>1, OrderTotal
        <5>2. CASE j # x
          <6>1. NotAfter(rs[i], rs[j], sign) /\ rs[j] \in Record
            BY <2>2, <3>1, <5>2
          <6> QED
            BY <2>4, <3>2, <3>4, <6>1, OrderTotal
        <5> QED
          BY <5>1, <5>2
      <4> QED
        BY <2>2, <2>3, <4>1
    <3> QED
      BY <2>4, <3>2, <3>3, <3>4, OrderTotal
  <2> QED
    BY <2>5, <2>6
<1>2. PICK i \in A : \A j \in A : NotAfter(rs[i], rs[j], sign)
  BY <1>1
<1>3. Range(rs) = {rs[j] : j \in A}
  BY DEF Range
<1>4. \E r \in Range(rs) : \A x \in Range(rs) : NotAfter(r, x, sign)
  BY <1>2, <1>3
<1>5. Leading(rs, sign) \in Range(rs)
      /\ \A x \in Range(rs) : NotAfter(Leading(rs, sign), x, sign)
  BY <1>4 DEF Leading
<1> QED
  BY <1>3, <1>5

\* The leader is what any record that is not after the others shows.
LEMMA LeaderIs ==
  ASSUME NEW sign \in Sign, NEW A, IsFiniteSet(A), NEW rs \in [A -> Record],
         NEW i \in A, \A j \in A : NotAfter(rs[i], rs[j], sign)
  PROVE  Leader(rs, sign) = Here(rs[i])
<1> DEFINE r == Leading(rs, sign)
<1>1. r \in Record /\ (\E j \in A : r = rs[j]) /\ NotAfter(r, rs[i], sign)
  BY LeadingIs
<1>2. Leader(rs, sign) = Here(r)
  BY DEF Leader
<1> HIDE DEF r
<1>3. NotAfter(rs[i], r, sign) /\ rs[i] \in Record
  BY <1>1
<1>4. Here(r) = Here(rs[i])
  BY <1>1, <1>3, OrderTotal
<1> QED
  BY <1>2, <1>4

\* hotter and colder compare in that order.
LEMMA ComparesBy ==
  ASSUME NEW a \in Record, NEW b \in Record
  PROVE  /\ Hotter(Here(a), Here(b)) => NotAfter(a, b, -1)
         /\ ~Hotter(Here(a), Here(b)) => NotAfter(b, a, -1)
         /\ Colder(Here(a), Here(b)) => NotAfter(a, b, 1)
         /\ ~Colder(Here(a), Here(b)) => NotAfter(b, a, 1)
<1>1. /\ a.t \in Int /\ a.ts \in Int /\ a.station \in Int
      /\ b.t \in Int /\ b.ts \in Int /\ b.station \in Int
  BY ValueInt DEF Record
<1>2. /\ Hotter(Here(a), Here(b)) <=>
           (a.t > b.t \/ (a.t = b.t /\ (a.ts < b.ts \/ (a.ts = b.ts /\ a.station < b.station))))
      /\ Colder(Here(a), Here(b)) <=>
           (a.t < b.t \/ (a.t = b.t /\ (a.ts < b.ts \/ (a.ts = b.ts /\ a.station < b.station))))
  BY DEF Hotter, Colder, Earlier, Here
<1>3. /\ NotAfter(a, b, -1) <=> 
           (a.t > b.t \/ (a.t = b.t /\ (a.ts < b.ts \/ (a.ts = b.ts /\ a.station <= b.station))))
      /\ NotAfter(b, a, -1) <=> 
           (b.t > a.t \/ (b.t = a.t /\ (b.ts < a.ts \/ (b.ts = a.ts /\ b.station <= a.station))))
  BY <1>1 DEF NotAfter
<1>4. /\ NotAfter(a, b, 1) <=> 
           (a.t < b.t \/ (a.t = b.t /\ (a.ts < b.ts \/ (a.ts = b.ts /\ a.station <= b.station))))
      /\ NotAfter(b, a, 1) <=> 
           (b.t < a.t \/ (b.t = a.t /\ (b.ts < a.ts \/ (b.ts = a.ts /\ b.station <= a.station))))
  BY <1>1 DEF NotAfter
<1> QED
  BY <1>1, <1>2, <1>3, <1>4

\* The leader of some records is one of them.
LEMMA LeaderShows ==
  ASSUME NEW L, NEW R \in [L -> Record], NEW X \in SUBSET L, IsFiniteSet(X), X # {},
         NEW sign \in Sign
  PROVE  \E i \in X : /\ Leader(On(R, X), sign) = Here(R[i])
                      /\ \A j \in X : NotAfter(R[i], R[j], sign)
<1>1. On(R, X) \in [X -> Record] /\ DOMAIN On(R, X) = X
  BY DEF On
<1>2. PICK i \in X : /\ Leading(On(R, X), sign) = On(R, X)[i]
                     /\ \A j \in X : NotAfter(On(R, X)[i], On(R, X)[j], sign)
  BY <1>1, LeadingIs
<1>3. \A j \in X : On(R, X)[j] = R[j]
  BY DEF On
<1> QED
  BY <1>1, <1>2, <1>3 DEF Leader

\* Of two leaders the one that is ahead leads all.
LEMMA LeaderUnion ==
  ASSUME NEW L, NEW R \in [L -> Record],
         NEW A \in SUBSET L, IsFiniteSet(A), NEW B \in SUBSET L, IsFiniteSet(B)
  PROVE  LET p(sign) == Leader(On(R, A), sign)
             o(sign) == Leader(On(R, B), sign)
         IN  /\ Leader(On(R, A \union B), -1) = IF Hotter(o(-1), p(-1)) THEN o(-1) ELSE p(-1)
             /\ Leader(On(R, A \union B), 1) = IF Colder(o(1), p(1)) THEN o(1) ELSE p(1)
<1>1. IsFiniteSet(A \union B) /\ A \union B \in SUBSET L
  BY FS_Union
<1>2. \A X \in SUBSET L : On(R, X) \in [X -> Record] /\ DOMAIN On(R, X) = X
                          /\ (X = {} => \A sign : Leader(On(R, X), sign) = None)
  BY DEF On, Leader
<1>3. \A r : ~Hotter(None, r) /\ ~Colder(None, r)
             /\ Hotter(Here(r), None) /\ Colder(Here(r), None)
  BY DEF Hotter, Colder, None, Here
<1>4. ASSUME NEW X \in SUBSET L, IsFiniteSet(X), X # {}, NEW sign \in Sign
      PROVE  \E i \in X : /\ Leader(On(R, X), sign) = Here(R[i])
                          /\ \A j \in X : NotAfter(R[i], R[j], sign)
  BY <1>4, LeaderShows
<1>5. CASE B = {}
  <2>1. A \union B = A
    BY <1>5
  <2> QED
    BY <1>2, <1>3, <1>5, <2>1
<1>6. CASE A = {} /\ B # {}
  <2>1. A \union B = B
    BY <1>6
  <2>2. \A sign \in Sign : \E r : Leader(On(R, B), sign) = Here(r)
    BY <1>4, <1>6
  <2>3. -1 \in Sign /\ 1 \in Sign
    BY DEF Sign
  <2> QED
    BY <1>2, <1>3, <1>6, <2>1, <2>2, <2>3
<1>7. CASE A # {} /\ B # {}
  <2>1. ASSUME NEW sign \in Sign, NEW i \in A, NEW j \in B,
               \A x \in A : NotAfter(R[i], R[x], sign), \A x \in B : NotAfter(R[j], R[x], sign)
        PROVE  /\ NotAfter(R[i], R[j], sign) => Leader(On(R, A \union B), sign) = Here(R[i])
               /\ NotAfter(R[j], R[i], sign) => Leader(On(R, A \union B), sign) = Here(R[j])
    <3> DEFINE X == A \union B
               rs == On(R, X)
    <3>1. rs \in [X -> Record] /\ IsFiniteSet(X) /\ i \in X /\ j \in X
          /\ \A x \in X : rs[x] = R[x] /\ R[x] \in Record
      BY <1>1 DEF On
    <3>2. ASSUME NotAfter(R[i], R[j], sign) PROVE \A x \in X : NotAfter(rs[i], rs[x], sign)
      BY <2>1, <3>1, <3>2, OrderTotal
    <3>3. ASSUME NotAfter(R[j], R[i], sign) PROVE \A x \in X : NotAfter(rs[j], rs[x], sign)
      BY <2>1, <3>1, <3>3, OrderTotal
    <3> HIDE DEF X, rs
    <3>4. ASSUME NotAfter(R[i], R[j], sign) PROVE Leader(rs, sign) = Here(R[i])
      BY <3>1, <3>2, <3>4, LeaderIs
    <3>5. ASSUME NotAfter(R[j], R[i], sign) PROVE Leader(rs, sign) = Here(R[j])
      BY <3>1, <3>3, <3>5, LeaderIs
    <3> QED
      BY <3>4, <3>5 DEF rs, X
  <2>2. -1 \in Sign /\ 1 \in Sign
    BY DEF Sign
  <2>3. Leader(On(R, A \union B), -1)
          = IF Hotter(Leader(On(R, B), -1), Leader(On(R, A), -1))
            THEN Leader(On(R, B), -1) ELSE Leader(On(R, A), -1)
    <3>1. PICK i \in A : /\ Leader(On(R, A), -1) = Here(R[i])
                         /\ \A x \in A : NotAfter(R[i], R[x], -1)
      BY <1>4, <1>7, <2>2
    <3>2. PICK j \in B : /\ Leader(On(R, B), -1) = Here(R[j])
                         /\ \A x \in B : NotAfter(R[j], R[x], -1)
      BY <1>4, <1>7, <2>2
    <3>3. R[i] \in Record /\ R[j] \in Record
      OBVIOUS
    <3>4. /\ Hotter(Here(R[j]), Here(R[i])) => NotAfter(R[j], R[i], -1)
          /\ ~Hotter(Here(R[j]), Here(R[i])) => NotAfter(R[i], R[j], -1)
      BY <3>3, ComparesBy
    <3> QED
      BY <2>1, <2>2, <3>1, <3>2, <3>4
  <2>4. Leader(On(R, A \union B), 1)
          = IF Colder(Leader(On(R, B), 1), Leader(On(R, A), 1))
            THEN Leader(On(R, B), 1) ELSE Leader(On(R, A), 1)
    <3>1. PICK i \in A : /\ Leader(On(R, A), 1) = Here(R[i])
                         /\ \A x \in A : NotAfter(R[i], R[x], 1)
      BY <1>4, <1>7, <2>2
    <3>2. PICK j \in B : /\ Leader(On(R, B), 1) = Here(R[j])
                         /\ \A x \in B : NotAfter(R[j], R[x], 1)
      BY <1>4, <1>7, <2>2
    <3>3. R[i] \in Record /\ R[j] \in Record
      OBVIOUS
    <3>4. /\ Colder(Here(R[j]), Here(R[i])) => NotAfter(R[j], R[i], 1)
          /\ ~Colder(Here(R[j]), Here(R[i])) => NotAfter(R[i], R[j], 1)
      BY <3>3, ComparesBy
    <3> QED
      BY <2>1, <2>2, <3>1, <3>2, <3>4
  <2> QED
    BY <2>3, <2>4
<1> QED
  BY <1>5, <1>6, <1>7

-----------------------------------------------------------------------------
(***************************************************************************)
(* Merging tables, and folding in a record.                                *)
(***************************************************************************)

\* What the records on some lines have in common.
LEMMA OnIs ==
  ASSUME NEW L, NEW R \in [L -> Record], NEW X \in SUBSET L
  PROVE  /\ DOMAIN On(R, X) = X /\ On(R, X) \in [X -> Record]
         /\ HotOrCold(On(R, X)) = {i \in X : R[i].t >= HOT \/ R[i].t <= COLD}
         /\ \A m : Values(On(R, X), m) = {R[i][m] : i \in X}
         /\ \A s : OfStation(On(R, X), s) = {i \in X : R[i].station = s}
         /\ \A b : OfInterval(On(R, X), b) = {i \in X : R[i].ts \div 60 = b}
         /\ Stations(On(R, X)) = {R[i].station : i \in X}
         /\ Intervals(On(R, X)) = {R[i].ts \div 60 : i \in X}
BY DEF On, HotOrCold, Values, OfStation, OfInterval, Stations, Intervals

\* The row of a station in two collections.
LEMMA RowUnion ==
  ASSUME NEW L, NEW R \in [L -> Record],
         NEW A \in SUBSET L, IsFiniteSet(A), NEW B \in SUBSET L, IsFiniteSet(B), A \intersect B = {},
         NEW s
  PROVE  /\ Row(On(R, A \union B), s) = PlusStation(Row(On(R, A), s), Row(On(R, B), s))
         /\ OfStation(On(R, A), s) = {} => Row(On(R, A \union B), s) = Row(On(R, B), s)
         /\ OfStation(On(R, B), s) = {} => Row(On(R, A \union B), s) = Row(On(R, A), s)
<1> DEFINE U == A \union B
           X == {i \in A : R[i].station = s}
           Y == {i \in B : R[i].station = s}
           a == Row(On(R, A), s)
           b == Row(On(R, B), s)
           u == Row(On(R, U), s)
<1>1. /\ OfStation(On(R, A), s) = X /\ OfStation(On(R, B), s) = Y
      /\ OfStation(On(R, U), s) = X \union Y
  BY OnIs
<1>2. X \in SUBSET A /\ Y \in SUBSET B /\ IsFiniteSet(X) /\ IsFiniteSet(Y) /\ X \intersect Y = {}
      /\ U \in SUBSET L /\ X \subseteq U /\ Y \subseteq U
  BY FS_Subset
<1>3. "t" \in Measure /\ "rain" \in Measure
  BY DEF Measure
<1>4. /\ a = [count |-> Cardinality(X), t |-> Total(On(R, A), "t", X),
              rain |-> Total(On(R, A), "rain", X)]
      /\ b = [count |-> Cardinality(Y), t |-> Total(On(R, B), "t", Y),
              rain |-> Total(On(R, B), "rain", Y)]
      /\ u = [count |-> Cardinality(X \union Y), t |-> Total(On(R, U), "t", X \union Y),
              rain |-> Total(On(R, U), "rain", X \union Y)]
  BY <1>1, <1>2 DEF Row
<1>5. Cardinality(X \union Y) = Cardinality(X) + Cardinality(Y)
  <2> HIDE DEF X, Y
  <2> QED
    BY <1>2, SizeUnion
<1>6. \A m \in {"t", "rain"} :
        Total(On(R, U), m, X \union Y) = Total(On(R, A), m, X) + Total(On(R, B), m, Y)
  <2> HIDE DEF X, Y
  <2> QED
    BY <1>2, <1>3, TotalUnion
<1>7. /\ \A m \in {"t", "rain"} : Total(On(R, A), m, X) = Total(On(R, U), m, X)
      /\ \A m \in {"t", "rain"} : Total(On(R, B), m, Y) = Total(On(R, U), m, Y)
  <2> HIDE DEF X, Y, U
  <2> QED
    BY <1>2, <1>3, TotalSame
<1> HIDE DEF X, Y, a, b, u, U
<1>8. u = PlusStation(a, b)
  BY <1>4, <1>5, <1>6 DEF PlusStation
<1>9. ASSUME X = {} PROVE u = b
  <2>1. X \union Y = Y
    BY <1>9
  <2> QED
    BY <1>4, <1>7, <2>1
<1>10. ASSUME Y = {} PROVE u = a
  <2>1. X \union Y = X
    BY <1>10
  <2> QED
    BY <1>4, <1>7, <2>1
<1> QED
  BY <1>1, <1>8, <1>9, <1>10 DEF a, b, u, U

\* Rows of stations add up.
LEMMA StationsUnion ==
  ASSUME NEW L, NEW R \in [L -> Record],
         NEW A \in SUBSET L, IsFiniteSet(A), NEW B \in SUBSET L, IsFiniteSet(B), A \intersect B = {}
  PROVE  AddRows([s \in Stations(On(R, A)) |-> Row(On(R, A), s)],
                 [s \in Stations(On(R, B)) |-> Row(On(R, B), s)], PlusStation)
         = [s \in Stations(On(R, A \union B)) |-> Row(On(R, A \union B), s)]
<1> DEFINE U == A \union B
           rowA(s) == Row(On(R, A), s)
           rowB(s) == Row(On(R, B), s)
           rowU(s) == Row(On(R, U), s)
           SA == Stations(On(R, A))
           SB == Stations(On(R, B))
<1>1. Stations(On(R, U)) = SA \union SB
  BY OnIs
<1>2. \A s : /\ s \notin SA => OfStation(On(R, A), s) = {}
             /\ s \notin SB => OfStation(On(R, B), s) = {}
  BY OnIs
<1>3. ASSUME NEW s
      PROVE  /\ rowU(s) = PlusStation(rowA(s), rowB(s))
             /\ s \notin SA => rowU(s) = rowB(s)
             /\ s \notin SB => rowU(s) = rowA(s)
  <2>1. /\ rowU(s) = PlusStation(rowA(s), rowB(s))
        /\ OfStation(On(R, A), s) = {} => rowU(s) = rowB(s)
        /\ OfStation(On(R, B), s) = {} => rowU(s) = rowA(s)
    BY RowUnion
  <2> QED
    BY <1>2, <2>1
<1> DEFINE f == [s \in SA |-> rowA(s)]
           g == [s \in SB |-> rowB(s)]
<1> HIDE DEF rowA, rowB, rowU, SA, SB
<1>4. AddRows(f, g, PlusStation)
        = [s \in SA \union SB |->
             IF s \notin SB THEN f[s] ELSE IF s \notin SA THEN g[s] ELSE PlusStation(f[s], g[s])]
  BY DEF AddRows
<1>5. ASSUME NEW s \in SA \union SB
      PROVE  (IF s \notin SB THEN f[s] ELSE IF s \notin SA THEN g[s] ELSE PlusStation(f[s], g[s]))
               = rowU(s)
  BY <1>3
<1> HIDE DEF f, g, U
<1>6. AddRows(f, g, PlusStation) = [s \in SA \union SB |-> rowU(s)]
  BY <1>4, <1>5
<1> QED
  BY <1>1, <1>6 DEF f, g, rowA, rowB, rowU, SA, SB, U

\* So do the numbers of the intervals.
LEMMA IntervalsUnion ==
  ASSUME NEW L, NEW R \in [L -> Record],
         NEW A \in SUBSET L, IsFiniteSet(A), NEW B \in SUBSET L, IsFiniteSet(B), A \intersect B = {}
  PROVE  AddRows([b \in Intervals(On(R, A)) |-> Cardinality(OfInterval(On(R, A), b))],
                 [b \in Intervals(On(R, B)) |-> Cardinality(OfInterval(On(R, B), b))], PlusNumber)
         = [b \in Intervals(On(R, A \union B)) |-> Cardinality(OfInterval(On(R, A \union B), b))]
<1> DEFINE U == A \union B
           In(X, b) == {i \in X : R[i].ts \div 60 = b}
           f == [b \in Intervals(On(R, A)) |-> Cardinality(OfInterval(On(R, A), b))]
           g == [b \in Intervals(On(R, B)) |-> Cardinality(OfInterval(On(R, B), b))]
           IA == Intervals(On(R, A))
           IB == Intervals(On(R, B))
<1>1. Intervals(On(R, U)) = IA \union IB
  BY OnIs
<1>2. \A b : /\ OfInterval(On(R, A), b) = In(A, b) /\ OfInterval(On(R, B), b) = In(B, b)
             /\ OfInterval(On(R, U), b) = In(U, b)
  BY OnIs
<1>3. \A b : (b \notin IA => In(A, b) = {}) /\ (b \notin IB => In(B, b) = {})
  BY OnIs
<1>4. ASSUME NEW b \in IA \union IB
      PROVE  (IF b \notin IB THEN f[b] ELSE IF b \notin IA THEN g[b] ELSE PlusNumber(f[b], g[b]))
               = Cardinality(OfInterval(On(R, U), b))
  <2> DEFINE X == In(A, b)
             Y == In(B, b)
  <2>1. IsFiniteSet(X) /\ IsFiniteSet(Y) /\ X \intersect Y = {} /\ In(U, b) = X \union Y
    BY FS_Subset
  <2>2. Cardinality(X \union Y) = Cardinality(X) + Cardinality(Y)
    <3> HIDE DEF X, Y
    <3> QED
      BY <2>1, SizeUnion
  <2>3. (b \in IA => f[b] = Cardinality(X)) /\ (b \in IB => g[b] = Cardinality(Y))
    BY <1>2
  <2>4. (b \notin IA => X \union Y = Y) /\ (b \notin IB => X \union Y = X)
    BY <1>3
  <2>5. OfInterval(On(R, U), b) = X \union Y
    BY <1>2, <2>1
  <2> HIDE DEF X, Y, f, g, U, IA, IB
  <2> QED
    BY <2>2, <2>3, <2>4, <2>5 DEF PlusNumber
<1>5. AddRows(f, g, PlusNumber)
        = [b \in IA \union IB |->
             IF b \notin IB THEN f[b] ELSE IF b \notin IA THEN g[b] ELSE PlusNumber(f[b], g[b])]
  <2>1. DOMAIN f = IA /\ DOMAIN g = IB
    OBVIOUS
  <2> HIDE DEF f, g, IA, IB
  <2> QED
    BY <2>1 DEF AddRows
<1> HIDE DEF f, g, U, IA, IB
<1>6. AddRows(f, g, PlusNumber) = [b \in IA \union IB |-> Cardinality(OfInterval(On(R, U), b))]
  BY <1>4, <1>5
<1> QED
  BY <1>1, <1>6 DEF f, g, IA, IB, U

\* The merge of the tables of two collections has the records of both.
LEMMA MergeTables ==
  ASSUME NEW L, NEW R \in [L -> Record],
         NEW A \in SUBSET L, IsFiniteSet(A), NEW B \in SUBSET L, IsFiniteSet(B), A \intersect B = {}
  PROVE  Merge(TableOf(On(R, A)), TableOf(On(R, B))) = TableOf(On(R, A \union B))
<1> DEFINE U == A \union B
           a == On(R, A)
           b == On(R, B)
           u == On(R, U)
<1>1. U \in SUBSET L /\ IsFiniteSet(U)
  BY FS_Union
<1>2. Cardinality(DOMAIN u) = Cardinality(DOMAIN a) + Cardinality(DOMAIN b)
  BY OnIs, SizeUnion
<1>3. Cardinality(HotOrCold(u)) = Cardinality(HotOrCold(a)) + Cardinality(HotOrCold(b))
  <2> DEFINE X == HotOrCold(a)
             Y == HotOrCold(b)
  <2>1. X \subseteq A /\ Y \subseteq B /\ HotOrCold(u) = X \union Y
    BY OnIs
  <2>2. IsFiniteSet(X) /\ IsFiniteSet(Y) /\ X \intersect Y = {}
    BY <2>1, FS_Subset
  <2> HIDE DEF X, Y
  <2>3. Cardinality(X \union Y) = Cardinality(X) + Cardinality(Y)
    BY <2>2, SizeUnion
  <2> QED
    BY <2>1, <2>3 DEF X, Y
<1>4. ASSUME NEW m \in Measure
      PROVE  Total(u, m, DOMAIN u) = Total(a, m, DOMAIN a) + Total(b, m, DOMAIN b)
  <2>1. A \in SUBSET A /\ B \in SUBSET B
    OBVIOUS
  <2>2. Total(On(R, A \union B), m, A \union B) = Total(On(R, A), m, A) + Total(On(R, B), m, B)
    BY <2>1, TotalUnion
  <2>3. DOMAIN u = A \union B /\ DOMAIN a = A /\ DOMAIN b = B
    BY <1>1, OnIs
  <2> QED
    BY <2>2, <2>3
<1>5. ASSUME NEW m \in Measure
      PROVE  /\ Least(Lowest(Values(a, m)), Lowest(Values(b, m))) = Lowest(Values(u, m))
             /\ Greatest(Highest(Values(a, m)), Highest(Values(b, m))) = Highest(Values(u, m))
  <2>1. Values(u, m) = Values(a, m) \union Values(b, m)
    BY <1>1, OnIs
  <2>2. /\ Values(a, m) \in SUBSET Value /\ IsFiniteSet(Values(a, m))
        /\ Values(b, m) \in SUBSET Value /\ IsFiniteSet(Values(b, m))
    BY ValuesOf
  <2> HIDE DEF a, b, u
  <2> QED
    BY <2>1, <2>2, ExtremeUnion
<1>6. /\ Leader(u, -1) = IF Hotter(Leader(b, -1), Leader(a, -1)) THEN Leader(b, -1)
                         ELSE Leader(a, -1)
      /\ Leader(u, 1) = IF Colder(Leader(b, 1), Leader(a, 1)) THEN Leader(b, 1) ELSE Leader(a, 1)
  BY LeaderUnion
<1>7. AddRows([s \in Stations(a) |-> Row(a, s)], [s \in Stations(b) |-> Row(b, s)], PlusStation)
        = [s \in Stations(u) |-> Row(u, s)]
  BY StationsUnion
<1>8. AddRows([s \in Intervals(a) |-> Cardinality(OfInterval(a, s))],
              [s \in Intervals(b) |-> Cardinality(OfInterval(b, s))], PlusNumber)
        = [s \in Intervals(u) |-> Cardinality(OfInterval(u, s))]
  BY IntervalsUnion
<1> DEFINE p == TableOf(a)
           o == TableOf(b)
           t == TableOf(u)
<1> HIDE DEF a, b, u, U
<1>9. Low \subseteq Measure
  BY DEF Low, Measure
<1>10. [m \in Measure |-> p.sum[m] + o.sum[m]] = t.sum
  BY <1>4 DEF TableOf
<1>11. [m \in Low |-> Least(p.min[m], o.min[m])] = t.min
  BY <1>5, <1>9 DEF TableOf
<1>12. [m \in Measure |-> Greatest(p.max[m], o.max[m])] = t.max
  BY <1>5 DEF TableOf
<1>13. p.count + o.count = t.count /\ p.extreme + o.extreme = t.extreme
  BY <1>2, <1>3 DEF TableOf
<1>14. /\ t.hottest = IF Hotter(o.hottest, p.hottest) THEN o.hottest ELSE p.hottest
       /\ t.coldest = IF Colder(o.coldest, p.coldest) THEN o.coldest ELSE p.coldest
  BY <1>6 DEF TableOf
<1>15. AddRows(p.stations, o.stations, PlusStation) = t.stations
  BY <1>7 DEF TableOf
<1>16. AddRows(p.intervals, o.intervals, PlusNumber) = t.intervals
  BY <1>8 DEF TableOf
<1>17. t = [count |-> t.count, extreme |-> t.extreme, sum |-> t.sum, min |-> t.min, max |-> t.max,
            hottest |-> t.hottest, coldest |-> t.coldest, stations |-> t.stations,
            intervals |-> t.intervals]
  BY DEF TableOf
<1> HIDE DEF p, o, t
<1>18. Merge(p, o) = t
  BY <1>10, <1>11, <1>12, <1>13, <1>14, <1>15, <1>16, <1>17 DEF Merge
<1> QED
  BY <1>18 DEF p, o, t, a, b, u, U

\* The tables of no record are the empty ones.
LEMMA EmptyTable ==
  ASSUME NEW L, NEW R \in [L -> Record]
  PROVE  TableOf(On(R, {})) = Empty
<1> DEFINE u == On(R, {})
<1>1. DOMAIN u = {} /\ HotOrCold(u) = {} /\ Stations(u) = {} /\ Intervals(u) = {}
      /\ \A m : Values(u, m) = {}
  BY DEF On, HotOrCold, Stations, Intervals, Values
<1>2. Cardinality({}) = 0
  BY FS_EmptySet
<1>3. ASSUME NEW m \in Measure PROVE Total(u, m, {}) = 0
  <2> DEFINE f == [i \in {} |-> u[i][m]]
  <2>1. f \in [{} -> Int] /\ {} \in SUBSET {} /\ IsFiniteSet({})
    BY FS_EmptySet
  <2> HIDE DEF f
  <2>2. SumFunctionOnSet(f, {}) = 0
    BY <2>1, SumInt
  <2> QED
    BY <2>2 DEF Total, f
<1> HIDE DEF u
<1>4. TableOf(u) =
        [count |-> 0, extreme |-> 0,
         sum |-> [m \in Measure |-> 0],
         min |-> [m \in Low |-> Infinity], max |-> [m \in Measure |-> -Infinity],
         hottest |-> None, coldest |-> None,
         stations |-> [s \in {} |-> Row(u, s)],
         intervals |-> [b \in {} |-> Cardinality(OfInterval(u, b))]]
  BY <1>1, <1>2, <1>3 DEF TableOf, Lowest, Highest, Leader
<1>5. [s \in {} |-> Row(u, s)] = [s \in {} |-> 0]
      /\ [b \in {} |-> Cardinality(OfInterval(u, b))] = [b \in {} |-> 0]
  OBVIOUS
<1> QED
  BY <1>4, <1>5 DEF Empty, u

\* The tables of one record.
LEMMA OneTable ==
  ASSUME NEW L, NEW R \in [L -> Record], NEW x \in L
  PROVE  TableOf(On(R, {x})) =
           [count     |-> 1,
            extreme   |-> IF R[x].t >= HOT \/ R[x].t <= COLD THEN 1 ELSE 0,
            sum       |-> [m \in Measure |-> R[x][m]],
            min       |-> [m \in Low |-> R[x][m]],
            max       |-> [m \in Measure |-> R[x][m]],
            hottest   |-> Here(R[x]), coldest |-> Here(R[x]),
            stations  |-> [s \in {R[x].station} |->
                             [count |-> 1, t |-> R[x].t, rain |-> R[x].rain]],
            intervals |-> [b \in {R[x].ts \div 60} |-> 1]]
<1> DEFINE X == {x}
           u == On(R, X)
           r == R[x]
<1>1. X \in SUBSET L /\ IsFiniteSet(X) /\ Cardinality(X) = 1 /\ Cardinality({}) = 0
  BY FS_Singleton, FS_EmptySet
<1>2. DOMAIN u = X /\ HotOrCold(u) = {i \in X : R[i].t >= HOT \/ R[i].t <= COLD}
      /\ (\A m : Values(u, m) = {R[i][m] : i \in X})
      /\ (\A s : OfStation(u, s) = {i \in X : R[i].station = s})
      /\ (\A b : OfInterval(u, b) = {i \in X : R[i].ts \div 60 = b})
      /\ Stations(u) = {R[i].station : i \in X}
      /\ Intervals(u) = {R[i].ts \div 60 : i \in X}
  BY <1>1, OnIs
<1>3. /\ HotOrCold(u) = IF r.t >= HOT \/ r.t <= COLD THEN X ELSE {}
      /\ \A m : Values(u, m) = {r[m]}
      /\ OfStation(u, r.station) = X /\ OfInterval(u, r.ts \div 60) = X
      /\ Stations(u) = {r.station} /\ Intervals(u) = {r.ts \div 60}
  <2>1. \A i \in X : R[i] = r
    OBVIOUS
  <2>2. HotOrCold(u) = IF r.t >= HOT \/ r.t <= COLD THEN X ELSE {}
    BY <1>2, <2>1
  <2>3. ASSUME NEW m PROVE Values(u, m) = {r[m]}
    <3>1. {R[i][m] : i \in X} = {r[m]}
      OBVIOUS
    <3>2. Values(u, m) = {R[i][m] : i \in X}
      BY <1>2
    <3> HIDE DEF u, r, X
    <3> QED
      BY <3>1, <3>2
  <2>4. OfStation(u, r.station) = X /\ OfInterval(u, r.ts \div 60) = X
    BY <1>2, <2>1
  <2>5. Stations(u) = {r.station} /\ Intervals(u) = {r.ts \div 60}
    <3>1. {R[i].station : i \in X} = {r.station} /\ {R[i].ts \div 60 : i \in X} = {r.ts \div 60}
      OBVIOUS
    <3>2. Stations(u) = {R[i].station : i \in X} /\ Intervals(u) = {R[i].ts \div 60 : i \in X}
      BY <1>2
    <3> HIDE DEF u, r, X
    <3> QED
      BY <3>1, <3>2
  <2> QED
    BY <2>2, <2>3, <2>4, <2>5
<1>4. ASSUME NEW m \in Measure PROVE Total(u, m, X) = r[m]
  <2> DEFINE f == [i \in L |-> R[i][m]]
             v == r[m]
  <2>1. X \in SUBSET X /\ x \in X /\ X \ {x} = {} /\ {} \in SUBSET L /\ IsFiniteSet({})
    BY FS_EmptySet
  <2>2. /\ [i \in L |-> R[i][m]] \in [L -> Int]
        /\ Total(On(R, X), m, X) = SumFunctionOnSet([i \in L |-> R[i][m]], X)
    <3>1. X \in SUBSET L
      OBVIOUS
    <3>2. X \in SUBSET X
      OBVIOUS
    <3>3. IsFiniteSet(X)
      BY <1>1
    <3> HIDE DEF X
    <3>4. [i \in L |-> R[i][m]] \in [L -> Int]
      <4>1. \A i \in L : R[i] \in Record
        OBVIOUS
      <4>2. \A i \in L : R[i][m] \in Int
        BY <4>1, MeasureValue, ValueInt
      <4> QED
        BY <4>2
    <3>5. Total(On(R, X), m, X) = SumFunctionOnSet([i \in L |-> R[i][m]], X)
      BY <3>1, <3>2, <3>3, TotalIs
    <3> QED
      BY <3>4, <3>5
  <2>3. f[x] = v /\ v \in Int
    BY MeasureValue, ValueInt
  <2>4. f \in [L -> Int] /\ Total(u, m, X) = SumFunctionOnSet(f, X)
    BY <2>2
  <2> HIDE DEF f, X, v, u
  <2>5. SumFunctionOnSet(f, X) = f[x] + SumFunctionOnSet(f, X \ {x})
    BY <1>1, <2>1, <2>4, IntSumRemove
  <2>6. SumFunctionOnSet(f, {}) = 0
    BY <2>1, <2>4, SumInt
  <2>7. SumFunctionOnSet(f, X) = v + 0
    BY <2>1, <2>3, <2>5, <2>6
  <2>8. Total(u, m, X) = v
    BY <2>3, <2>4, <2>7
  <2> QED
    BY <2>8 DEF v
<1>5. ASSUME NEW m \in Measure PROVE Lowest({r[m]}) = r[m] /\ Highest({r[m]}) = r[m]
  <2>1. {r[m]} \in SUBSET Int /\ IsFiniteSet({r[m]}) /\ r[m] \in Int
    BY MeasureValue, ValueInt, FS_Singleton
  <2>2. \A y \in {r[m]} : r[m] <= y /\ y <= r[m]
    BY <2>1
  <2>3. Min({r[m]}) = r[m] /\ Max({r[m]}) = r[m]
    BY <2>1, <2>2, ExtremeIs
  <2> QED
    BY <2>3 DEF Lowest, Highest
<1>6. Leader(u, -1) = Here(r) /\ Leader(u, 1) = Here(r)
  <2>1. -1 \in Sign /\ 1 \in Sign
    BY DEF Sign
  <2>2. ASSUME NEW sign \in Sign PROVE Leader(u, sign) = Here(r)
    <3>1. X # {} /\ \A i \in X : R[i] = r
      OBVIOUS
    <3> HIDE DEF X, r
    <3> QED
      BY <1>1, <3>1, LeaderShows
  <2> QED
    BY <2>1, <2>2
<1>7. Low \subseteq Measure /\ "t" \in Measure /\ "rain" \in Measure
  BY DEF Low, Measure
<1>8. Row(u, r.station) = [count |-> 1, t |-> r.t, rain |-> r.rain]
  <2>1. Total(u, "t", X) = r.t /\ Total(u, "rain", X) = r.rain
    BY <1>4, <1>7
  <2> HIDE DEF u, r, X
  <2> QED
    BY <1>1, <1>3, <2>1 DEF Row
<1>9. Cardinality(HotOrCold(u)) = IF r.t >= HOT \/ r.t <= COLD THEN 1 ELSE 0
  BY <1>1, <1>3
<1> HIDE DEF u, r, X
<1>10. /\ [m \in Measure |-> Total(u, m, DOMAIN u)] = [m \in Measure |-> r[m]]
       /\ [m \in Low |-> Lowest(Values(u, m))] = [m \in Low |-> r[m]]
       /\ [m \in Measure |-> Highest(Values(u, m))] = [m \in Measure |-> r[m]]
  BY <1>2, <1>3, <1>4, <1>5, <1>7
<1>11. [s \in Stations(u) |-> Row(u, s)]
         = [s \in {r.station} |-> [count |-> 1, t |-> r.t, rain |-> r.rain]]
  BY <1>3, <1>8
<1>12. [b \in Intervals(u) |-> Cardinality(OfInterval(u, b))] = [b \in {r.ts \div 60} |-> 1]
  BY <1>1, <1>3
<1>13. Cardinality(DOMAIN u) = 1
  BY <1>1, <1>2
<1>14. TableOf(u) = 
         [count     |-> 1,
          extreme   |-> IF r.t >= HOT \/ r.t <= COLD THEN 1 ELSE 0,
          sum       |-> [m \in Measure |-> r[m]],
          min       |-> [m \in Low |-> r[m]],
          max       |-> [m \in Measure |-> r[m]],
          hottest   |-> Here(r), coldest |-> Here(r),
          stations  |-> [s \in {r.station} |-> [count |-> 1, t |-> r.t, rain |-> r.rain]],
          intervals |-> [b \in {r.ts \div 60} |-> 1]]
  BY <1>6, <1>9, <1>10, <1>11, <1>12, <1>13 DEF TableOf
<1> QED
  BY <1>14 DEF u, r, X

\* Folding in a record is merging its tables: the test that saves comparisons
\* only skips those that would fail.
LEMMA AddMerges ==
  ASSUME NEW L, NEW R \in [L -> Record], NEW A \in SUBSET L, IsFiniteSet(A), NEW x \in L
  PROVE  Add(TableOf(On(R, A)), R[x]) = Merge(TableOf(On(R, A)), TableOf(On(R, {x})))
<1> DEFINE p == TableOf(On(R, A))
           o == TableOf(On(R, {x}))
           r == R[x]
           row == [count |-> 1, t |-> r.t, rain |-> r.rain]
           b == r.ts \div INTERVAL
<1>1. /\ o.count = 1 /\ o.extreme = (IF r.t >= HOT \/ r.t <= COLD THEN 1 ELSE 0)
      /\ o.sum = [m \in Measure |-> r[m]] /\ o.min = [m \in Low |-> r[m]]
      /\ o.max = [m \in Measure |-> r[m]]
      /\ o.hottest = Here(r) /\ o.coldest = Here(r)
      /\ o.stations = [s \in {r.station} |-> row]
      /\ o.intervals = [i \in {r.ts \div 60} |-> 1]
  <2>1. o = [count     |-> 1,
             extreme   |-> IF r.t >= HOT \/ r.t <= COLD THEN 1 ELSE 0,
             sum       |-> [m \in Measure |-> r[m]],
             min       |-> [m \in Low |-> r[m]],
             max       |-> [m \in Measure |-> r[m]],
             hottest   |-> Here(r), coldest |-> Here(r),
             stations  |-> [s \in {r.station} |-> row],
             intervals |-> [i \in {r.ts \div 60} |-> 1]]
    BY OneTable
  <2> HIDE DEF o, r, row
  <2> QED
    BY <2>1
<1>2. /\ p.hottest = Leader(On(R, A), -1) /\ p.coldest = Leader(On(R, A), 1)
  BY DEF TableOf
<1>3. /\ Hotter(Here(r), p.hottest) => HotEnough(p.hottest, r)
      /\ Colder(Here(r), p.coldest) => (r.t <= p.coldest.temp \/ ~p.coldest.valid)
  <2>1. CASE A = {}
    <3>1. p.hottest = None /\ p.coldest = None
      BY <1>2, <2>1 DEF Leader, On
    <3> QED
      BY <3>1 DEF None, HotEnough
  <2>2. CASE A # {}
    <3>1. -1 \in Sign /\ 1 \in Sign
      BY DEF Sign
    <3>2. PICK i \in A : Leader(On(R, A), -1) = Here(R[i])
      BY <2>2, <3>1, LeaderShows
    <3>3. PICK j \in A : Leader(On(R, A), 1) = Here(R[j])
      BY <2>2, <3>1, LeaderShows
    <3>4. r.t \in Int /\ R[i].t \in Int /\ R[j].t \in Int
      BY ValueInt DEF Record
    <3>5. Hotter(Here(r), Here(R[i])) => r.t >= R[i].t
      BY <3>4 DEF Hotter, Here
    <3>6. Colder(Here(r), Here(R[j])) => r.t <= R[j].t
      BY <3>4 DEF Colder, Here
    <3>7. Here(R[i]).temp = R[i].t /\ Here(R[j]).temp = R[j].t
      BY DEF Here
    <3> HIDE DEF p, r
    <3> QED
      BY <1>2, <3>2, <3>3, <3>5, <3>6, <3>7 DEF HotEnough
  <2> QED
    BY <2>1, <2>2
<1> HIDE DEF p, o, r, row
<1>4. AddRow(p.stations, r.station, row, PlusStation) = AddRows(p.stations, o.stations, PlusStation)
  <2> DEFINE f == p.stations
             s == r.station
             g == [i \in {s} |-> row]
  <2>1. DOMAIN g = {s} /\ g[s] = row
    OBVIOUS
  <2>2. AddRow(f, s, row, PlusStation)
          = [k \in DOMAIN f \union {s} |->
               IF k # s THEN f[k] ELSE IF s \in DOMAIN f THEN PlusStation(f[s], row) ELSE row]
    BY DEF AddRow
  <2>3. AddRows(f, g, PlusStation)
          = [k \in DOMAIN f \union {s} |->
               IF k # s THEN f[k] ELSE IF s \in DOMAIN f THEN PlusStation(f[s], row) ELSE row]
    <3>1. DOMAIN f \union DOMAIN g = DOMAIN f \union {s}
      BY <2>1
    <3> HIDE DEF f, g, s
    <3> QED
      BY <2>1, <3>1 DEF AddRows
  <2> QED
    BY <1>1, <2>2, <2>3
<1>5. AddRow(p.intervals, b, 1, PlusNumber) = AddRows(p.intervals, o.intervals, PlusNumber)
  <2> DEFINE f == p.intervals
             g == [i \in {b} |-> 1]
  <2>1. DOMAIN g = {b} /\ g[b] = 1 /\ o.intervals = g
    BY <1>1 DEF INTERVAL
  <2>2. AddRow(f, b, 1, PlusNumber)
          = [k \in DOMAIN f \union {b} |->
               IF k # b THEN f[k] ELSE IF b \in DOMAIN f THEN PlusNumber(f[b], 1) ELSE 1]
    BY DEF AddRow
  <2>3. AddRows(f, g, PlusNumber)
          = [k \in DOMAIN f \union {b} |->
               IF k # b THEN f[k] ELSE IF b \in DOMAIN f THEN PlusNumber(f[b], 1) ELSE 1]
    <3>1. DOMAIN f \union DOMAIN g = DOMAIN f \union {b}
      BY <2>1
    <3> HIDE DEF f, g, b
    <3> QED
      BY <2>1, <3>1 DEF AddRows
  <2> QED
    BY <2>1, <2>2, <2>3
<1>6. Low \subseteq Measure
  BY DEF Low, Measure
<1>7. /\ [m \in Measure |-> p.sum[m] + r[m]] = [m \in Measure |-> p.sum[m] + o.sum[m]]
      /\ [m \in Low |-> Least(p.min[m], r[m])] = [m \in Low |-> Least(p.min[m], o.min[m])]
      /\ [m \in Measure |-> Greatest(p.max[m], r[m])]
           = [m \in Measure |-> Greatest(p.max[m], o.max[m])]
  BY <1>1
<1>8. /\ (IF HotEnough(p.hottest, r) /\ Hotter(Here(r), p.hottest) THEN Here(r) ELSE p.hottest)
           = (IF Hotter(o.hottest, p.hottest) THEN o.hottest ELSE p.hottest)
      /\ (IF (r.t <= p.coldest.temp \/ ~p.coldest.valid) /\ Colder(Here(r), p.coldest)
          THEN Here(r) ELSE p.coldest)
           = (IF Colder(o.coldest, p.coldest) THEN o.coldest ELSE p.coldest)
  BY <1>1, <1>3
<1>9. Add(p, r) = Merge(p, o)
  <2>1. p.count + 1 = p.count + o.count
        /\ p.extreme + (IF r.t >= HOT \/ r.t <= COLD THEN 1 ELSE 0) = p.extreme + o.extreme
    BY <1>1
  <2> QED
    BY <1>4, <1>5, <1>7, <1>8, <2>1 DEF Add, Merge, row, b
<1> QED
  BY <1>9 DEF p, o, r

\* So the tables with one more record are those of the records with it.
LEMMA AddTables ==
  ASSUME NEW L, NEW R \in [L -> Record], NEW A \in SUBSET L, IsFiniteSet(A), NEW x \in L, x \notin A
  PROVE  Add(TableOf(On(R, A)), R[x]) = TableOf(On(R, A \union {x}))
<1>1. IsFiniteSet({x}) /\ {x} \in SUBSET L /\ A \intersect {x} = {}
  BY FS_Singleton
<1>2. Merge(TableOf(On(R, A)), TableOf(On(R, {x}))) = TableOf(On(R, A \union {x}))
  <2> DEFINE B == {x}
  <2> HIDE DEF B
  <2>1. IsFiniteSet(B) /\ B \in SUBSET L /\ A \intersect B = {}
    BY <1>1 DEF B
  <2>2. Merge(TableOf(On(R, A)), TableOf(On(R, B))) = TableOf(On(R, A \union B))
    BY <2>1, MergeTables
  <2> QED
    BY <2>2 DEF B
<1> QED
  BY <1>2, AddMerges

\* What comes off the wire is what was put on it.
LEMMA WireTables ==
  ASSUME NEW L, NEW R \in [L -> Record], NEW A \in SUBSET L, IsFiniteSet(A)
  PROVE  Wire(TableOf(On(R, A))) = TableOf(On(R, A))
<1> DEFINE p == TableOf(On(R, A))
<1>1. p.count = Cardinality(A)
  BY DEF TableOf, On
<1>2. CASE p.count # 0
  BY <1>2 DEF Wire
<1>3. CASE p.count = 0
  <2>1. A = {}
    BY <1>1, <1>3, FS_EmptySet
  <2>2. p = Empty
    BY <2>1, EmptyTable
  <2>3. Wire(Empty) = Empty
    BY DEF Wire, Empty
  <2> QED
    BY <2>2, <2>3
<1> QED
  BY <1>2, <1>3

-----------------------------------------------------------------------------
(***************************************************************************)
(* The report.                                                             *)
(***************************************************************************)

\* The busiest of two: the fold's step.
Busy(best, i, c) == IF Busier(best, i, c) THEN <<i, c>> ELSE best

\* it is the fold of busiest over each set of places of a family F.
BusyOver(f, order, F, it) ==
  it = [s \in F |-> IF s = {} THEN <<0, 0>>
                    ELSE Busy(it[s \ {Max(s)}], order[Max(s)], f[order[Max(s)]])]

LEMMA BusiestIs ==
  ASSUME NEW p, NEW order
  PROVE  Busiest(p, order)
           = (CHOOSE it : BusyOver(p.intervals, order, SUBSET DOMAIN order, it))[DOMAIN order]
BY DEF Busiest, FoldLeft, MapThenFoldSet, BusyOver, Busy

\* There is such a fold, by induction on the size of the sets.
LEMMA BusyExists ==
  ASSUME NEW f, NEW order, NEW n \in Nat
  PROVE  \E it : BusyOver(f, order, SUBSET (1..n), it)
<1> DEFINE D == 1..n
           One(s, a) == IF s = {} THEN <<0, 0>> ELSE Busy(a, order[Max(s)], f[order[Max(s)]])
           G == {m \in Nat : \E it : BusyOver(f, order, UpTo(D, m), it)}
<1>0. IsFiniteSet(D)
  BY FS_Interval
<1>1. \A s \in SUBSET D : IsFiniteSet(s) /\ Cardinality(s) \in Nat
                         /\ Cardinality(s) <= Cardinality(D) /\ (Cardinality(s) = 0 <=> s = {})
  BY <1>0, FS_Subset, FS_CardinalityType, FS_EmptySet
<1>2. 0 \in G
  <2> DEFINE it == [s \in UpTo(D, 0) |-> <<0, 0>>]
  <2>1. \A s \in UpTo(D, 0) : s = {}
    BY <1>1 DEF UpTo
  <2>2. it = [s \in UpTo(D, 0) |-> One(s, it[s \ {Max(s)}])]
    BY <2>1
  <2> HIDE DEF it
  <2> QED
    BY <2>2 DEF BusyOver
<1>3. ASSUME NEW m \in Nat, m \in G PROVE m + 1 \in G
  <2>1. PICK it : BusyOver(f, order, UpTo(D, m), it)
    BY <1>3
  <2> DEFINE up == [s \in UpTo(D, m + 1) |-> One(s, it[s \ {Max(s)}])]
  <2>2. ASSUME NEW s \in UpTo(D, m + 1), s # {}
        PROVE  s \ {Max(s)} \in UpTo(D, m)
    <3>1. Max(s) \in s /\ s \in SUBSET D
      <4>1. s \in SUBSET Int /\ IsFiniteSet(s) /\ s \in SUBSET D
        BY <1>1, <2>2 DEF UpTo
      <4> QED
        BY <2>2, <4>1, Extremes
    <3>2. Cardinality(s \ {Max(s)}) = Cardinality(s) - 1
      BY <1>1, <3>1, FS_RemoveElement
    <3>3. Cardinality(s) \in Nat /\ Cardinality(s) <= m + 1 /\ s \ {Max(s)} \in SUBSET D
      BY <1>1, <3>1 DEF UpTo
    <3>4. Cardinality(s \ {Max(s)}) <= m
      BY <3>2, <3>3
    <3> QED
      BY <3>3, <3>4 DEF UpTo
  <2>4. \A s \in UpTo(D, m) : s \in UpTo(D, m + 1) /\ it[s] = up[s]
    <3>1. \A s \in UpTo(D, m) : it[s] = One(s, it[s \ {Max(s)}])
      BY <2>1 DEF BusyOver
    <3>2. \A s \in UpTo(D, m) : s \in UpTo(D, m + 1)
      BY <1>1 DEF UpTo
    <3> HIDE DEF One
    <3> QED
      BY <3>1, <3>2
  <2>5. \A s \in UpTo(D, m + 1) : s # {} => it[s \ {Max(s)}] = up[s \ {Max(s)}]
    BY <2>2, <2>4
  <2>6. up = [s \in UpTo(D, m + 1) |-> One(s, up[s \ {Max(s)}])]
    <3>1. \A s \in UpTo(D, m + 1) : One(s, it[s \ {Max(s)}]) = One(s, up[s \ {Max(s)}])
      BY <2>5
    <3> HIDE DEF One
    <3> QED
      BY <3>1
  <2>7. BusyOver(f, order, UpTo(D, m + 1), up)
    BY <2>6 DEF BusyOver
  <2> HIDE DEF up
  <2> QED
    BY <2>7
<1>4. Cardinality(D) \in G
  <2>1. \A m \in Nat : m \in G => m + 1 \in G
    BY <1>3
  <2> HIDE DEF G
  <2>2. Nat \subseteq G
    BY <1>2, <2>1, NatSet
  <2> QED
    BY <1>1, <2>2
<1>5. UpTo(D, Cardinality(D)) = SUBSET D
  BY <1>1 DEF UpTo
<1> QED
  BY <1>4, <1>5

\* b is the interval of X that has most records by f, the first of those that
\* have as many, and their number.
BusiestOf(b, f, X) ==
  IF X = {} THEN b = <<0, 0>>
  ELSE \E i \in X : /\ b = <<i, f[i]>>
                    /\ \A j \in X : f[j] < f[i] \/ (f[j] = f[i] /\ i <= j)

\* Whatever order the table is gone through, its busiest is that.
LEMMA BusiestLeads ==
  ASSUME NEW p, NEW I \in SUBSET Int, IsFiniteSet(I), p.intervals \in [I -> Nat \ {0}],
         NEW order \in SetToSeqs(I)
  PROVE  BusiestOf(Busiest(p, order), p.intervals, I)
<1> DEFINE n == Cardinality(I)
           D == 1..n
           f == p.intervals
           it == CHOOSE j : BusyOver(f, order, SUBSET D, j)
           X(s) == {order[k] : k \in s}
<1>1. n \in Nat /\ IsFiniteSet(D) /\ D \in SUBSET Int
  BY FS_CardinalityType, FS_Interval
<1>2. order \in [D -> I] /\ \A i, j \in D : i # j => order[i] # order[j]
  BY DEF SetToSeqs
<1>3. X(D) = I
  <2>1. order \in Injection(D, I)
    BY <1>2 DEF Injection, IsInjective
  <2>2. Cardinality(D) = Cardinality(I)
    BY <1>1, FS_Interval
  <2>3. order \in Surjection(D, I)
    BY <1>1, <2>1, <2>2, FS_Injection
  <2> QED
    BY <2>3 DEF Surjection
<1>4. BusyOver(f, order, SUBSET D, it)
  BY <1>1, BusyExists
<1>5. Busiest(p, order) = it[D]
  <2>1. DOMAIN order = D
    BY <1>2
  <2> QED
    BY <2>1, BusiestIs
<1> HIDE DEF it, n, D
<1>6. \A s \in SUBSET D :
        it[s] = IF s = {} THEN <<0, 0>>
                ELSE Busy(it[s \ {Max(s)}], order[Max(s)], f[order[Max(s)]])
  BY <1>4 DEF BusyOver
<1> DEFINE Sound(s) == BusiestOf(it[s], f, X(s))
           Bad == {s \in SUBSET D : ~Sound(s)}
<1>7. ASSUME Bad # {} PROVE FALSE
  <2>1. PICK s \in Bad : \A x \in s : s \ {x} \notin Bad
    <3>1. Bad \in SUBSET SUBSET D
      OBVIOUS
    <3> HIDE DEF Bad
    <3> QED
      BY <1>1, <1>7, <3>1, LeastSet
  <2>2. s \in SUBSET D /\ ~Sound(s)
    BY <2>1
  <2>3. CASE s = {}
    <3>1. it[s] = <<0, 0>> /\ X(s) = {}
      BY <1>6, <2>2, <2>3
    <3> QED
      BY <2>2, <3>1 DEF BusiestOf
  <2>4. CASE s # {}
    <3> DEFINE k == Max(s)
               t == s \ {k}
               i == order[k]
    <3>1. k \in s
      <4>1. s \in SUBSET Int /\ IsFiniteSet(s)
        BY <1>1, <2>2, FS_Subset
      <4> QED
        BY <2>4, <4>1, Extremes
    <3>2. BusiestOf(it[t], f, X(t))
      BY <2>1, <2>2, <3>1
    <3>3. it[s] = Busy(it[t], i, f[i])
      BY <1>6, <2>2, <2>4
    <3>4. X(s) = X(t) \union {i} /\ i \in I /\ f[i] \in Nat \ {0} /\ i \in Int
      BY <1>2, <2>2, <3>1
    <3>5. X(t) \in SUBSET I
      BY <1>2, <2>2
    <3> DEFINE Y == X(t)
               b == it[t]
    <3>6. BusiestOf(Busy(b, i, f[i]), f, Y \union {i})
      <4> HIDE DEF X, b, i, f, t, k
      <4>1. Y \in SUBSET I /\ f \in [I -> Nat \ {0}] /\ BusiestOf(b, f, Y)
        BY <3>2, <3>5 DEF f, b
      <4> HIDE DEF Y
      <4>2. CASE Y = {}
        <5>1. b = <<0, 0>>
          BY <4>1, <4>2 DEF BusiestOf
        <5>2. Busy(b, i, f[i]) = <<i, f[i]>>
          BY <3>4, <5>1 DEF Busy, Busier
        <5> QED
          BY <3>4, <4>2, <5>2 DEF BusiestOf
      <4>3. CASE Y # {}
        <5>1. PICK j \in Y : /\ b = <<j, f[j]>>
                             /\ \A l \in Y : f[l] < f[j] \/ (f[l] = f[j] /\ j <= l)
          BY <4>1, <4>3 DEF BusiestOf
        <5>2. j \in Int /\ f[j] \in Nat \ {0} /\ \A l \in Y : l \in Int /\ f[l] \in Nat
          BY <4>1, <5>1
        <5>3. CASE Busier(b, i, f[i])
          <6>1. Busy(b, i, f[i]) = <<i, f[i]>> /\ (f[i] > f[j] \/ (f[i] = f[j] /\ i < j))
            BY <5>1, <5>3 DEF Busy, Busier
          <6>2. \A l \in Y \union {i} : f[l] < f[i] \/ (f[l] = f[i] /\ i <= l)
            BY <3>4, <5>1, <5>2, <6>1
          <6> QED
            BY <6>1, <6>2 DEF BusiestOf
        <5>4. CASE ~Busier(b, i, f[i])
          <6>1. Busy(b, i, f[i]) = <<j, f[j]>>
            BY <5>1, <5>4 DEF Busy
          <6>2. f[i] < f[j] \/ (f[i] = f[j] /\ j <= i)
            BY <3>4, <5>1, <5>2, <5>4 DEF Busier
          <6>3. \A l \in Y \union {i} : f[l] < f[j] \/ (f[l] = f[j] /\ j <= l)
            BY <5>1, <6>2
          <6> QED
            BY <5>1, <6>1, <6>3 DEF BusiestOf
        <5> QED
          BY <5>3, <5>4
      <4> QED
        BY <4>2, <4>3
    <3>7. it[s] = Busy(b, i, f[i]) /\ X(s) = Y \union {i}
      BY <3>3, <3>4
    <3> HIDE DEF X, b, i, f, Y
    <3>8. BusiestOf(it[s], f, X(s))
      BY <3>6, <3>7
    <3> QED
      BY <2>2, <3>8
  <2> QED
    BY <2>3, <2>4
<1>8. Sound(D)
  BY <1>7
<1> QED
  BY <1>3, <1>5, <1>8

\* The intervals of some records are finitely many, and each has records.
LEMMA IntervalsAre ==
  ASSUME NEW L, NEW R \in [L -> Record], NEW A \in SUBSET L, IsFiniteSet(A)
  PROVE  /\ Intervals(On(R, A)) \in SUBSET Int /\ IsFiniteSet(Intervals(On(R, A)))
         /\ [b \in Intervals(On(R, A)) |-> Cardinality(OfInterval(On(R, A), b))]
              \in [Intervals(On(R, A)) -> Nat \ {0}]
<1> DEFINE rs == On(R, A)
           I == Intervals(rs)
           in(i) == Cardinality(OfInterval(rs, i))
<1>1. I = {R[i].ts \div 60 : i \in A} /\ \A i : OfInterval(rs, i) = {j \in A : R[j].ts \div 60 = i}
  BY OnIs
<1>2. I \in SUBSET Int
  <2>1. \A i \in A : R[i].ts \in Int
    BY DEF Record
  <2> HIDE DEF rs, I
  <2> QED
    BY <1>1, <2>1
<1>3. IsFiniteSet(I)
  <2> DEFINE g == [i \in A |-> R[i].ts \div 60]
  <2>1. I = {g[i] : i \in A}
    BY <1>1
  <2> HIDE DEF g, I, rs
  <2> QED
    BY <2>1, ImageFinite
<1>4. \A i \in I : in(i) \in Nat \ {0}
  <2> SUFFICES ASSUME NEW i \in I PROVE in(i) \in Nat \ {0}
    OBVIOUS
  <2> DEFINE X == OfInterval(rs, i)
  <2>1. X \in SUBSET A /\ X # {}
    BY <1>1
  <2> HIDE DEF X
  <2>2. IsFiniteSet(X)
    BY <2>1, FS_Subset
  <2>3. Cardinality(X) \in Nat /\ Cardinality(X) # 0
    BY <2>1, <2>2, FS_CardinalityType, FS_EmptySet
  <2> QED
    BY <2>3 DEF X
<1> QED
  BY <1>2, <1>3, <1>4

\* The busiest of them is the reference's.
LEMMA MostIs ==
  ASSUME NEW L, NEW R \in [L -> Record], NEW A \in SUBSET L, IsFiniteSet(A),
         NEW f, f = [b \in Intervals(On(R, A)) |-> Cardinality(OfInterval(On(R, A), b))],
         NEW b, BusiestOf(b, f, Intervals(On(R, A)))
  PROVE  Most(On(R, A)) = b
<1> DEFINE rs == On(R, A)
           I == Intervals(rs)
           V == {f[i] : i \in I}
           in(i) == Cardinality(OfInterval(rs, i))
<1>2. I \in SUBSET Int
  BY IntervalsAre
<1>3. IsFiniteSet(I)
  BY IntervalsAre
<1>4. \A i \in I : f[i] = in(i)
  OBVIOUS
<1>6. f \in [I -> Nat \ {0}]
  BY IntervalsAre
<1>7. Most(rs) = b
  <2>1. CASE I = {}
    <3>1. b = <<0, 0>>
      BY <2>1 DEF BusiestOf
    <3> QED
      BY <2>1, <3>1 DEF Most
  <2>2. CASE I # {}
    <3>1. PICK i \in I : /\ b = <<i, f[i]>>
                         /\ \A j \in I : f[j] < f[i] \/ (f[j] = f[i] /\ i <= j)
      BY <2>2 DEF BusiestOf
    <3>2. {in(j) : j \in I} = V
      BY <1>4
    <3>3. Max(V) = f[i]
      <4>1. V \in SUBSET Int /\ f[i] \in V
        BY <1>6
      <4>2. IsFiniteSet(V)
        BY <1>3, ImageFinite
      <4>3. \A y \in V : y <= f[i]
        <5> SUFFICES ASSUME NEW j \in I PROVE f[j] <= f[i]
          OBVIOUS
        <5> HIDE DEF I
        <5> QED
          BY <1>6, <3>1
      <4> HIDE DEF V
      <4> QED
        BY <4>1, <4>2, <4>3, ExtremeIs
    <3> DEFINE S == {j \in I : in(j) = f[i]}
    <3>4. Min(S) = i
      <4>1. S \in SUBSET Int /\ S \in SUBSET I
        BY <1>2
      <4>2. IsFiniteSet(S)
        BY <1>3, <4>1, FS_Subset
      <4>3. i \in S
        BY <1>4, <3>1
      <4>4. \A y \in S : i <= y
        <5> SUFFICES ASSUME NEW j \in I, f[j] = f[i] PROVE i <= j
          BY <1>4
        <5> HIDE DEF I
        <5> QED
          BY <1>2, <1>6, <3>1
      <4> HIDE DEF S
      <4> QED
        BY <4>1, <4>2, <4>3, <4>4, ExtremeIs
    <3>5. Most(rs) = <<Min({j \in I : in(j) = Max({in(l) : l \in I})}), Max({in(l) : l \in I})>>
      BY <2>2 DEF Most
    <3> HIDE DEF I, in, rs, V
    <3>6. Most(rs) = <<Min(S), f[i]>>
      BY <3>2, <3>3, <3>5
    <3> QED
      BY <3>1, <3>4, <3>6
  <2> QED
    BY <2>1, <2>2
<1> QED
  BY <1>7

\* The report that is filled from the tables of some records is the reference's.
LEMMA FillIs ==
  ASSUME NEW L, NEW R \in [L -> Record], NEW A \in SUBSET L, IsFiniteSet(A), NEW k,
         NEW order \in SetToSeqs(DOMAIN TableOf(On(R, A)).intervals)
  PROVE  Fill(TableOf(On(R, A)), k, order) = Oracle(On(R, A), k)
<1> DEFINE rs == On(R, A)
           p == TableOf(rs)
           n == Cardinality(A)
           f == [b \in Intervals(rs) |-> Cardinality(OfInterval(rs, b))]
<1>1. DOMAIN rs = A /\ n \in Nat /\ (n = 0 <=> A = {}) /\ Low \subseteq Measure
      /\ \A m \in Measure : Values(rs, m) = {} <=> A = {}
  BY FS_CardinalityType, FS_EmptySet, ValuesOf DEF On, Low, Measure
<1>2. /\ p.count = n /\ p.extreme = Cardinality(HotOrCold(rs))
      /\ p.sum = [m \in Measure |-> Total(rs, m, A)]
      /\ p.min = [m \in Low |-> Lowest(Values(rs, m))]
      /\ p.max = [m \in Measure |-> Highest(Values(rs, m))]
      /\ p.hottest = Leader(rs, -1) /\ p.coldest = Leader(rs, 1)
      /\ p.stations = [s \in Stations(rs) |-> Row(rs, s)]
      /\ p.intervals = f
  <2> HIDE DEF rs
  <2> QED
    BY <1>1 DEF TableOf
<1>3. order \in SetToSeqs(Intervals(rs))
  <2>1. DOMAIN p.intervals = Intervals(rs)
    BY DEF TableOf
  <2> QED
    BY <2>1
<1>4. Busiest(p, order) = Most(rs)
  <2> DEFINE I == Intervals(rs)
  <2>1. I \in SUBSET Int /\ IsFiniteSet(I) /\ f \in [I -> Nat \ {0}]
    BY IntervalsAre
  <2>2. p.intervals = f
    BY <1>2
  <2>3. BusiestOf(Busiest(p, order), f, I)
    <3> HIDE DEF p, f, I
    <3>1. p.intervals \in [I -> Nat \ {0}] /\ order \in SetToSeqs(I)
      BY <1>3, <2>1, <2>2 DEF I
    <3>2. BusiestOf(Busiest(p, order), p.intervals, I)
      BY <2>1, <3>1, BusiestLeads
    <3> QED
      BY <2>2, <3>2
  <2> HIDE DEF p
  <2> QED
    BY <2>3, MostIs
<1> HIDE DEF rs, p, n, f
<1>5. TopStations(p, k)
        = Top({<<s, Cardinality(OfStation(rs, s)), Total(rs, "t", OfStation(rs, s)),
                 Total(rs, "rain", OfStation(rs, s))>> : s \in Stations(rs)}, k)
  <2>1. DOMAIN p.stations = Stations(rs)
    BY <1>2
  <2>2. \A s \in Stations(rs) :
          <<s, p.stations[s].count, p.stations[s].t, p.stations[s].rain>>
            = <<s, Cardinality(OfStation(rs, s)), Total(rs, "t", OfStation(rs, s)),
                Total(rs, "rain", OfStation(rs, s))>>
    BY <1>2 DEF Row
  <2>3. {<<s, p.stations[s].count, p.stations[s].t, p.stations[s].rain>> : s \in DOMAIN p.stations}
          = {<<s, Cardinality(OfStation(rs, s)), Total(rs, "t", OfStation(rs, s)),
               Total(rs, "rain", OfStation(rs, s))>> : s \in Stations(rs)}
    BY <2>1, <2>2
  <2> QED
    BY <2>3 DEF TopStations
<1>6. \A sign \in Sign : Place(Leader(rs, sign)) = First(rs, sign)
  BY DEF Place, Leader, First, None, Here
<1>7. Place(p.hottest) = First(rs, -1) /\ Place(p.coldest) = First(rs, 1)
  BY <1>2, <1>6 DEF Sign
<1>8. HotOrCold(rs) = {i \in A : rs[i].t >= 40 \/ rs[i].t <= 0}
  BY <1>1 DEF HotOrCold, HOT, COLD
<1>9. p.sum["rain"] = Total(rs, "rain", A)
  BY <1>2 DEF Measure
<1>10. ASSUME n = 0 PROVE Fill(p, k, order) = Oracle(rs, k)
  <2>1. ~(p.count > 0)
    BY <1>2, <1>10
  <2>2. DOMAIN p.min = Low /\ DOMAIN p.max = Measure
    BY <1>2
  <2>3. Fill(p, k, order) =
          [count |-> n, extreme |-> Cardinality(HotOrCold(rs)), rain |-> Total(rs, "rain", A),
           avg |-> [m \in Measure \ {"rain"} |-> 0],
           min |-> [m \in Low |-> 0], max |-> [m \in Measure |-> 0],
           hottest |-> First(rs, -1), coldest |-> First(rs, 1),
           busiest |-> Most(rs), top |-> TopStations(p, k)]
    BY <1>2, <1>4, <1>7, <1>9, <2>1, <2>2 DEF Fill
  <2>4. Oracle(rs, k) =
          [count |-> n, extreme |-> Cardinality(HotOrCold(rs)), rain |-> Total(rs, "rain", A),
           avg |-> [m \in Measure \ {"rain"} |-> 0],
           min |-> [m \in Low |-> 0], max |-> [m \in Measure |-> 0],
           hottest |-> First(rs, -1), coldest |-> First(rs, 1),
           busiest |-> Most(rs), top |-> TopStations(p, k)]
    BY <1>1, <1>5, <1>8, <1>10 DEF Oracle, n
  <2> QED
    BY <2>3, <2>4
<1>11. ASSUME n # 0 PROVE Fill(p, k, order) = Oracle(rs, k)
  <2>1. p.count > 0
    BY <1>1, <1>2, <1>11
  <2>2. /\ p.min = [m \in Low |-> Min(Values(rs, m))]
        /\ p.max = [m \in Measure |-> Max(Values(rs, m))]
    BY <1>1, <1>2, <1>11 DEF Lowest, Highest
  <2>3. [m \in Measure \ {"rain"} |-> <<p.sum[m], p.count>>]
          = [m \in Measure \ {"rain"} |-> <<Total(rs, m, A), n>>]
    BY <1>2
  <2>4. Fill(p, k, order) =
          [count |-> n, extreme |-> Cardinality(HotOrCold(rs)), rain |-> Total(rs, "rain", A),
           avg |-> [m \in Measure \ {"rain"} |-> <<Total(rs, m, A), n>>],
           min |-> [m \in Low |-> Min(Values(rs, m))],
           max |-> [m \in Measure |-> Max(Values(rs, m))],
           hottest |-> First(rs, -1), coldest |-> First(rs, 1),
           busiest |-> Most(rs), top |-> TopStations(p, k)]
    BY <1>2, <1>4, <1>7, <1>9, <2>1, <2>2, <2>3 DEF Fill
  <2>5. Oracle(rs, k) =
          [count |-> n, extreme |-> Cardinality(HotOrCold(rs)), rain |-> Total(rs, "rain", A),
           avg |-> [m \in Measure \ {"rain"} |-> <<Total(rs, m, A), n>>],
           min |-> [m \in Low |-> Min(Values(rs, m))],
           max |-> [m \in Measure |-> Max(Values(rs, m))],
           hottest |-> First(rs, -1), coldest |-> First(rs, 1),
           busiest |-> Most(rs), top |-> TopStations(p, k)]
    BY <1>1, <1>5, <1>8, <1>11 DEF Oracle, n
  <2> QED
    BY <2>4, <2>5
<1> QED
  BY <1>10, <1>11 DEF p, rs

-----------------------------------------------------------------------------
(***************************************************************************)
(* The invariant.                                                          *)
(***************************************************************************)
TypeOK ==
  /\ input \in Inputs
  /\ pos \in 0..Len(lines) /\ seq \in Nat /\ sent \in Nat /\ over \in BOOLEAN
  /\ link \in [Worker -> Seq(SUBSET DOMAIN lines)]
  /\ todo \in [Worker -> SUBSET DOMAIN lines]
  /\ folded \in [Worker -> SUBSET DOMAIN lines]
  /\ asking \in {"no", "asked", "answered"}
  /\ DOMAIN held = Worker
  /\ merged.next \in 0..W
  /\ seen \in [Worker -> SUBSET DOMAIN lines]
  /\ settled \in BOOLEAN

\* The lines of some batches, and that no two of them share one.
Lines(s) == UNION {s[k] : k \in DOMAIN s}
Apart(s) == \A j, k \in DOMAIN s : j # k => s[j] \intersect s[k] = {}

\* All that a worker has.
Has(w) == folded[w] \union todo[w] \union Lines(link[w])

\* Every good line that was read has gone to one worker, in one place.
Dealt ==
  /\ \A w \in Worker : /\ folded[w] \intersect todo[w] = {}
                       /\ (folded[w] \union todo[w]) \intersect Lines(link[w]) = {}
                       /\ Apart(link[w])
  /\ \A v, w \in Worker : v # w => Has(v) \intersect Has(w) = {}
  /\ GoodIn(1, pos) = UNION {Has(w) : w \in Worker}

\* The limit is met, and never passed.
Counted ==
  /\ sent = Cardinality(GoodIn(1, pos))
  /\ input.limit > 0 => sent <= input.limit /\ (~over => sent < input.limit)

\* A worker's tables are those of the records that it has folded in.
Tabled == state = [w \in Worker |-> TableOf(RecordsOf(folded[w]))]

\* The lines of the answers of the first n workers.
SeenBy(n) == UNION {seen[w] : w \in 0..(n - 1)}

\* An answer is the tables of what was then folded; the total is that of the
\* answers merged.
Answered ==
  /\ \A w \in Worker : /\ \/ held[w] = <<>> /\ seen[w] = {}
                          \/ held[w] = <<TableOf(RecordsOf(seen[w]))>>
                       /\ seen[w] \subseteq folded[w]
  /\ merged.total = TableOf(RecordsOf(SeenBy(merged.next)))
  /\ merged.next > 0 => \A w \in Worker : held[w] # <<>>
  /\ asking = "answered" => merged.next = W
  /\ settled => Settled /\ \A w \in Worker : held[w] # <<>> => seen[w] = folded[w]

ReportInv ==
  TypeOK /\ Dealt /\ Counted /\ Tabled /\ Answered /\ OnlyBadBatchStops /\ ReportExact

-----------------------------------------------------------------------------
(***************************************************************************)
(* The input, and the batches cut from it.                                 *)
(***************************************************************************)

\* The lines of the file, and the records on some of them.
LEMMA InputIs ==
  ASSUME input \in Inputs
  PROVE  /\ Len(lines) \in Nat /\ DOMAIN lines = 1..Len(lines) /\ IsFiniteSet(DOMAIN lines)
         /\ input.limit \in Nat /\ input.batch \in Nat \ {0}
         /\ \A i \in DOMAIN lines : lines[i].fields \in Nat
         /\ RecordsOf(DOMAIN lines) \in [DOMAIN lines -> Record]
         /\ \A D \in SUBSET DOMAIN lines :
              IsFiniteSet(D) /\ RecordsOf(D) = On(RecordsOf(DOMAIN lines), D)
<1>1. input \in [lines : Seq(FileLine), k : Nat, batch : Nat \ {0}, limit : Nat,
                   dist : {"rr", "station"}]
  BY InputAssumption
<1>2. lines \in Seq(FileLine) /\ input.limit \in Nat /\ input.batch \in Nat \ {0}
  BY <1>1 DEF lines
<1> HIDE DEF lines
<1>3. Len(lines) \in Nat /\ DOMAIN lines = 1..Len(lines) /\ \A i \in DOMAIN lines : lines[i] \in FileLine
  BY <1>2
<1>4. IsFiniteSet(DOMAIN lines)
  BY <1>3, FS_Interval
<1>5. \A i \in DOMAIN lines : lines[i].fields \in Nat /\ lines[i].rec \in Record
  BY <1>3 DEF FileLine
<1>6. RecordsOf(DOMAIN lines) \in [DOMAIN lines -> Record]
  BY <1>5 DEF RecordsOf
<1>7. ASSUME NEW D \in SUBSET DOMAIN lines
      PROVE  IsFiniteSet(D) /\ RecordsOf(D) = On(RecordsOf(DOMAIN lines), D)
  <2>1. IsFiniteSet(D)
    BY <1>4, FS_Subset
  <2> QED
    BY <2>1 DEF RecordsOf, On
<1> QED
  BY <1>2, <1>3, <1>4, <1>5, <1>6, <1>7

\* The good lines of a part of the file.
LEMMA GoodLines ==
  ASSUME input \in Inputs, NEW x \in Nat, NEW y \in 0..Len(lines)
  PROVE  /\ GoodIn(x + 1, y) \in SUBSET DOMAIN lines /\ IsFiniteSet(GoodIn(x + 1, y))
         /\ GoodIn(x + 1, y) \in SUBSET Int /\ Cardinality(GoodIn(x + 1, y)) \in Nat
         /\ \A i \in GoodIn(x + 1, y) : x < i /\ i <= y /\ Good(lines[i])
         /\ \A i \in DOMAIN lines : x < i /\ i <= y /\ Good(lines[i]) => i \in GoodIn(x + 1, y)
<1>1. DOMAIN lines = 1..Len(lines) /\ Len(lines) \in Nat /\ IsFiniteSet(DOMAIN lines)
  BY InputIs
<1> DEFINE X == GoodIn(x + 1, y)
<1>2. X \in SUBSET DOMAIN lines /\ X \in SUBSET Int
  BY <1>1 DEF GoodIn
<1>3. IsFiniteSet(X)
  BY <1>1, <1>2, FS_Subset
<1>4. Cardinality(X) \in Nat
  BY <1>3, FS_CardinalityType
<1>5. \A i \in X : x < i /\ i <= y /\ Good(lines[i])
  BY <1>1 DEF GoodIn
<1>6. \A i \in DOMAIN lines : x < i /\ i <= y /\ Good(lines[i]) => i \in X
  BY <1>1 DEF GoodIn
<1> QED
  BY <1>2, <1>3, <1>4, <1>5, <1>6

\* Where a batch ends: a batch without records reads on to its full length or
\* to the file's end, and a limit is not passed.
LEMMA UntilIs ==
  ASSUME input \in Inputs, pos \in 0..Len(lines), sent \in Nat
  PROVE  /\ Until(pos + 1) \in pos..Len(lines)
         /\ Batch(pos + 1) = {} => Until(pos + 1) = Least(pos + input.batch, Len(lines))
         /\ input.limit > 0 /\ sent < input.limit
              => sent + Cardinality(Batch(pos + 1)) <= input.limit
<1>1. /\ DOMAIN lines = 1..Len(lines) /\ Len(lines) \in Nat
      /\ input.limit \in Nat /\ input.batch \in Nat \ {0} /\ pos \in Nat /\ pos <= Len(lines)
  BY InputIs
<1> DEFINE a == pos + 1
           e == Least(a + input.batch - 1, Len(lines))
           cut == {i \in GoodIn(a, e) : Cardinality(GoodIn(a, i)) + sent >= input.limit}
           u == Until(a)
<1>2. e \in pos..Len(lines) /\ e \in Nat /\ e <= Len(lines) /\ e = Least(pos + input.batch, Len(lines))
  BY <1>1 DEF Least
<1>3. u = IF input.limit > 0 /\ cut # {} THEN Min(cut) ELSE e
  BY DEF Until
<1>4. \A y \in 0..Len(lines) :
        /\ GoodIn(a, y) \in SUBSET Int /\ IsFiniteSet(GoodIn(a, y))
        /\ Cardinality(GoodIn(a, y)) \in Nat
        /\ \A i \in GoodIn(a, y) : i \in 1..Len(lines) /\ pos < i /\ i <= y /\ Good(lines[i])
        /\ \A i \in 1..Len(lines) : pos < i /\ i <= y /\ Good(lines[i]) => i \in GoodIn(a, y)
  BY <1>1, GoodLines
<1>5. e \in 0..Len(lines)
  BY <1>1, <1>2
<1> HIDE DEF a, e, u
<1>6. cut \in SUBSET Int /\ IsFiniteSet(cut) /\ cut \subseteq GoodIn(a, e)
  <2>1. IsFiniteSet(GoodIn(a, e)) /\ cut \in SUBSET GoodIn(a, e) /\ GoodIn(a, e) \in SUBSET Int
    BY <1>4, <1>5
  <2>2. IsFiniteSet(cut)
    BY <2>1, FS_Subset
  <2> QED
    BY <2>1, <2>2
<1>7. ASSUME cut # {}
      PROVE  Min(cut) \in cut /\ \A i \in cut : Min(cut) <= i
  <2> HIDE DEF cut
  <2> QED
    BY <1>6, <1>7, Extremes
<1>8. CASE input.limit > 0 /\ cut # {}
  <2> DEFINE m == Min(cut)
  <2>1. u = m /\ m \in cut /\ m \in GoodIn(a, e) /\ \A i \in cut : m <= i
    BY <1>3, <1>6, <1>7, <1>8
  <2> HIDE DEF m
  <2>2. m \in 1..Len(lines) /\ pos < m /\ m <= e /\ Good(lines[m])
    BY <1>4, <1>5, <2>1
  <2>3. m \in 0..Len(lines) /\ m - 1 \in 0..Len(lines)
    BY <1>1, <2>2
  <2>4. m \in GoodIn(a, m) /\ GoodIn(a, m) # {}
    BY <1>4, <2>2, <2>3
  <2>5. Batch(a) = GoodIn(a, m)
    BY <2>1 DEF Batch, u
  <2>6. ASSUME sent < input.limit PROVE sent + Cardinality(GoodIn(a, m)) <= input.limit
    <3> DEFINE B == GoodIn(a, m - 1)
    <3>1. IsFiniteSet(B) /\ B \in SUBSET Int /\ Cardinality(B) \in Nat /\ m \notin B
      BY <1>4, <2>2, <2>3
    <3>2. GoodIn(a, m) = B \union {m}
      <4>1. \A i \in GoodIn(a, m) : i \in B \union {m}
        BY <1>1, <1>4, <2>2, <2>3
      <4>2. \A i \in B : i \in GoodIn(a, m)
        BY <1>1, <1>4, <2>2, <2>3
      <4> QED
        BY <2>4, <4>1, <4>2
    <3>3. Cardinality(B \union {m}) = Cardinality(B) + 1
      <4> HIDE DEF B
      <4> QED
        BY <3>1, FS_AddElement
    <3>4. Cardinality(B) + sent < input.limit
      <4> SUFFICES ASSUME Cardinality(B) + sent >= input.limit PROVE FALSE
        BY <1>1, <3>1
      <4>1. B # {}
        <5>1. Cardinality(B) # 0
          BY <1>1, <2>6, <3>1
        <5> HIDE DEF B
        <5> QED
          BY <5>1, FS_EmptySet
      <4>2. PICK k \in B : \A i \in B : i <= k
        <5> HIDE DEF B
        <5> QED
          BY <3>1, <4>1, Extremes
      <4>3. k \in 1..Len(lines) /\ k \in 0..Len(lines) /\ pos < k /\ k <= m - 1 /\ Good(lines[k])
        BY <1>1, <1>4, <2>3, <4>2
      <4>4. GoodIn(a, k) = B
        <5>1. \A i \in GoodIn(a, k) : i \in B
          BY <1>1, <1>4, <2>2, <2>3, <4>3
        <5>2. \A i \in B : i \in GoodIn(a, k)
          BY <1>1, <1>4, <2>2, <2>3, <4>2, <4>3
        <5> QED
          BY <5>1, <5>2
      <4>5. k \in GoodIn(a, e)
        BY <1>1, <1>4, <1>5, <2>2, <4>3
      <4>6. k \in cut
        BY <4>4, <4>5
      <4> QED
        BY <2>1, <2>2, <4>3, <4>6
    <3> QED
      BY <1>1, <3>1, <3>2, <3>3, <3>4
  <2>7. u \in pos..Len(lines)
    BY <1>1, <2>1, <2>2
  <2> QED
    BY <2>4, <2>5, <2>6, <2>7 DEF a, u
<1>9. CASE ~(input.limit > 0 /\ cut # {})
  <2>1. u = e /\ Batch(a) = GoodIn(a, e)
    BY <1>3, <1>9 DEF Batch, u
  <2>2. ASSUME input.limit > 0, sent < input.limit
        PROVE  sent + Cardinality(GoodIn(a, e)) <= input.limit
    <3> DEFINE B == GoodIn(a, e)
    <3>1. IsFiniteSet(B) /\ B \in SUBSET Int /\ Cardinality(B) \in Nat /\ cut = {}
      BY <1>4, <1>5, <1>9, <2>2
    <3>2. CASE B = {}
      <4>1. Cardinality(B) = 0
        BY <3>2, FS_EmptySet
      <4> HIDE DEF B
      <4> QED
        BY <1>1, <2>2, <4>1 DEF B
    <3>3. CASE B # {}
      <4>1. PICK k \in B : \A i \in B : i <= k
        <5> HIDE DEF B, cut
        <5> QED
          BY <3>1, <3>3, Extremes
      <4>2. k \in 1..Len(lines) /\ k \in 0..Len(lines) /\ pos < k /\ k <= e
        BY <1>1, <1>4, <1>5, <4>1
      <4>3. GoodIn(a, k) = B
        <5>1. \A i \in GoodIn(a, k) : i \in B
          BY <1>1, <1>2, <1>4, <1>5, <4>2
        <5>2. \A i \in B : i \in GoodIn(a, k)
          BY <1>1, <1>4, <1>5, <4>1, <4>2
        <5> QED
          BY <5>1, <5>2
      <4>4. ~(Cardinality(B) + sent >= input.limit)
        BY <3>1, <4>1, <4>3
      <4> HIDE DEF B
      <4> QED
        BY <1>1, <3>1, <4>4 DEF B
    <3> QED
      BY <3>2, <3>3
  <2>3. u \in pos..Len(lines) /\ u = Least(pos + input.batch, Len(lines))
    BY <1>2, <2>1
  <2> QED
    BY <2>1, <2>2, <2>3 DEF a, u
<1> QED
  BY <1>8, <1>9

\* A batch that is put behind others, and the first of some that is taken.
LEMMA AppendLines ==
  ASSUME NEW D, NEW s \in Seq(SUBSET D), NEW x \in SUBSET D
  PROVE  /\ Append(s, x) \in Seq(SUBSET D) /\ Lines(Append(s, x)) = Lines(s) \union x
         /\ Lines(s) \in SUBSET D
         /\ Apart(s) /\ x \intersect Lines(s) = {} => Apart(Append(s, x))
<1> DEFINE n == Len(s)
           t == Append(s, x)
<1>1. n \in Nat /\ DOMAIN s = 1..n /\ \A k \in 1..n : s[k] \in SUBSET D
  OBVIOUS
<1>2. t \in Seq(SUBSET D) /\ DOMAIN t = 1..(n + 1) /\ t[n + 1] = x /\ \A k \in 1..n : t[k] = s[k]
  OBVIOUS
<1>3. DOMAIN t = DOMAIN s \union {n + 1} /\ n + 1 \notin DOMAIN s
  BY <1>1, <1>2
<1> HIDE DEF n, t
<1>4. Lines(t) = Lines(s) \union x
  BY <1>1, <1>2, <1>3 DEF Lines
<1>5. Lines(s) \in SUBSET D
  BY <1>1 DEF Lines
<1>6. ASSUME Apart(s), x \intersect Lines(s) = {} PROVE Apart(t)
  <2> SUFFICES ASSUME NEW j \in DOMAIN t, NEW k \in DOMAIN t, j # k
               PROVE  t[j] \intersect t[k] = {}
    BY DEF Apart
  <2>1. \A i \in DOMAIN s : t[i] = s[i] /\ s[i] \subseteq Lines(s)
    BY <1>1, <1>2 DEF Lines
  <2>2. CASE j \in DOMAIN s /\ k \in DOMAIN s
    BY <1>6, <2>1, <2>2 DEF Apart
  <2>3. CASE j \notin DOMAIN s \/ k \notin DOMAIN s
    BY <1>2, <1>3, <1>6, <2>1, <2>3
  <2> QED
    BY <2>2, <2>3
<1> QED
  BY <1>2, <1>4, <1>5, <1>6 DEF t

LEMMA TailLines ==
  ASSUME NEW D, NEW s \in Seq(SUBSET D), s # <<>>, Apart(s)
  PROVE  /\ Head(s) \in SUBSET D /\ Tail(s) \in Seq(SUBSET D)
         /\ Lines(s) = Head(s) \union Lines(Tail(s))
         /\ Apart(Tail(s)) /\ Head(s) \intersect Lines(Tail(s)) = {}
<1> DEFINE n == Len(s)
           t == Tail(s)
<1>1. n \in Nat \ {0} /\ DOMAIN s = 1..n /\ \A k \in 1..n : s[k] \in SUBSET D
  OBVIOUS
<1>2. t \in Seq(SUBSET D) /\ DOMAIN t = 1..(n - 1) /\ (\A k \in 1..(n - 1) : t[k] = s[k + 1])
      /\ Head(s) = s[1]
  OBVIOUS
<1> DEFINE h == Head(s)
<1> HIDE DEF n, t, h
<1>3. /\ 1 \in DOMAIN s /\ \A k \in DOMAIN t : k + 1 \in DOMAIN s /\ k + 1 # 1 /\ t[k] = s[k + 1]
      /\ \A k \in DOMAIN s : k = 1 \/ (k - 1 \in DOMAIN t /\ t[k - 1] = s[k])
      /\ h = s[1] /\ h \in SUBSET D
  BY <1>1, <1>2 DEF h
<1>4. Lines(s) = h \union Lines(t)
  <2>1. \A k \in DOMAIN s : s[k] \subseteq h \union Lines(t)
    BY <1>3 DEF Lines
  <2>2. h \subseteq Lines(s) /\ \A k \in DOMAIN t : t[k] \subseteq Lines(s)
    BY <1>3 DEF Lines
  <2> QED
    BY <2>1, <2>2 DEF Lines
<1>5. Apart(t)
  <2> SUFFICES ASSUME NEW j \in DOMAIN t, NEW k \in DOMAIN t, j # k
               PROVE  t[j] \intersect t[k] = {}
    BY DEF Apart
  <2>1. j + 1 \in DOMAIN s /\ k + 1 \in DOMAIN s /\ j + 1 # k + 1
    BY <1>1, <1>2, <1>3
  <2> QED
    BY <1>3, <2>1 DEF Apart
<1>6. h \intersect Lines(t) = {}
  <2>1. \A k \in DOMAIN t : h \intersect t[k] = {}
    BY <1>3 DEF Apart
  <2> QED
    BY <2>1 DEF Lines
<1> QED
  BY <1>2, <1>3, <1>4, <1>5, <1>6 DEF t, h

\* A batch is shared out among the workers.
LEMMA PartsAre ==
  ASSUME input \in Inputs, seq \in Nat, NEW b \in SUBSET DOMAIN lines
  PROVE  /\ \A w \in Worker : Part(b, w) \in SUBSET b
         /\ \A v, w \in Worker : v # w => Part(b, v) \intersect Part(b, w) = {}
         /\ \A i \in b : \E w \in Worker : i \in Part(b, w)
<1>1. W \in Nat \ {0}
  BY WorkerAssumption
<1>2. seq % W \in Worker
  BY <1>1 DEF Worker
<1>3. ASSUME NEW i \in b PROVE lines[i].rec.station % W \in Worker
  <2>1. RecordsOf(DOMAIN lines)[i] \in Record /\ RecordsOf(DOMAIN lines)[i] = lines[i].rec
    BY InputIs DEF RecordsOf
  <2>2. lines[i].rec.station \in Int
    BY <2>1 DEF Record
  <2> HIDE DEF lines
  <2> QED
    BY <1>1, <2>2 DEF Worker
<1> HIDE DEF lines
<1> QED
  BY <1>2, <1>3 DEF Part

-----------------------------------------------------------------------------
(***************************************************************************)
(* The steps.                                                              *)
(***************************************************************************)

\* Nothing is dealt at first.
LEMMA ReportInit ==
  ASSUME Init
  PROVE  ReportInv
<1>1. input \in Inputs /\ pos = 0 /\ seq = 0 /\ sent = 0 /\ over = FALSE
      /\ link = [w \in Worker |-> <<>>] /\ todo = [w \in Worker |-> {}]
      /\ state = [w \in Worker |-> Empty] /\ folded = [w \in Worker |-> {}]
      /\ asking = "no" /\ held = [w \in Worker |-> <<>>]
      /\ merged = [total |-> Empty, next |-> 0] /\ seen = [w \in Worker |-> {}]
      /\ settled = FALSE
  BY DEF Init, NoQuery
<1>2. Len(lines) \in Nat /\ input.limit \in Nat /\ W \in Nat \ {0}
  BY <1>1, InputIs, WorkerAssumption
<1> HIDE DEF lines
<1>3. TypeOK
  <2>1. <<>> \in Seq(SUBSET DOMAIN lines)
    OBVIOUS
  <2>2. over \in BOOLEAN /\ settled \in BOOLEAN /\ asking \in {"no", "asked", "answered"}
    BY <1>1
  <2>3. /\ link \in [Worker -> Seq(SUBSET DOMAIN lines)]
        /\ todo \in [Worker -> SUBSET DOMAIN lines] /\ folded \in [Worker -> SUBSET DOMAIN lines]
        /\ seen \in [Worker -> SUBSET DOMAIN lines] /\ DOMAIN held = Worker
    BY <1>1, <2>1
  <2>4. pos \in 0..Len(lines) /\ seq \in Nat /\ sent \in Nat /\ merged.next \in 0..W
    BY <1>1, <1>2
  <2> QED
    BY <1>1, <2>2, <2>3, <2>4 DEF TypeOK
<1>4. GoodIn(1, 0) = {}
  BY DEF GoodIn
<1>5. Dealt
  <2>1. \A w \in Worker : folded[w] = {} /\ todo[w] = {} /\ link[w] = <<>> /\ DOMAIN link[w] = {}
    BY <1>1
  <2>2. \A w \in Worker : Lines(link[w]) = {} /\ Apart(link[w])
    BY <2>1 DEF Lines, Apart
  <2> QED
    BY <1>1, <1>4, <2>1, <2>2 DEF Dealt, Has
<1>6. Counted
  <2>1. sent = Cardinality(GoodIn(1, pos))
    BY <1>1, <1>4, FS_EmptySet
  <2>2. input.limit > 0 => sent <= input.limit /\ sent < input.limit
    BY <1>1, <1>2
  <2> QED
    BY <2>1, <2>2 DEF Counted
<1>7. TableOf(RecordsOf({})) = Empty
  <2>1. {} \in SUBSET DOMAIN lines
    OBVIOUS
  <2>2. RecordsOf({}) = On(RecordsOf(DOMAIN lines), {}) /\ RecordsOf(DOMAIN lines) \in [DOMAIN lines -> Record]
    BY <1>1, <2>1, InputIs
  <2> QED
    BY <2>2, EmptyTable
<1>8. Tabled
  BY <1>1, <1>7 DEF Tabled
<1>9. Answered
  <2>1. SeenBy(0) = {}
    BY <1>1, <1>2 DEF SeenBy, Worker
  <2>2. merged.total = TableOf(RecordsOf(SeenBy(merged.next)))
    BY <1>1, <1>7, <2>1
  <2> QED
    BY <1>1, <2>2 DEF Answered
<1>10. OnlyBadBatchStops
  BY <1>1 DEF OnlyBadBatchStops, SkipsRest
<1>11. ReportExact
  BY <1>1 DEF ReportExact
<1> QED
  BY <1>3, <1>5, <1>6, <1>8, <1>9, <1>10, <1>11 DEF ReportInv

\* What a step that leaves the input, the answers and the query alone leaves of
\* them.
LEMMA QueryKept ==
  ASSUME ReportInv, UNCHANGED <<input, query>>,
         \A w \in Worker : folded[w] \subseteq folded'[w],
         settled => Settled' /\ UNCHANGED folded
  PROVE  Answered' /\ ReportExact'
<1>1. /\ input' = input /\ asking' = asking /\ held' = held /\ merged' = merged /\ seen' = seen
      /\ settled' = settled /\ report' = report
  BY DEF query
<1>3. Answered'
  <2>1. Answered
    BY DEF ReportInv
  <2>2. \A w \in Worker : RecordsOf(seen[w])' = RecordsOf(seen[w])
    BY <1>1 DEF RecordsOf, lines
  <2>3. RecordsOf(SeenBy(merged.next))' = RecordsOf(SeenBy(merged.next))
    BY <1>1 DEF RecordsOf, lines, SeenBy
  <2> QED
    BY <1>1, <2>1, <2>2, <2>3 DEF Answered
<1>4. ReportExact'
  <2>1. ReportExact
    BY DEF ReportInv
  <2>2. RecordsOf(UNION {seen[w] : w \in Worker})' = RecordsOf(UNION {seen[w] : w \in Worker})
    BY <1>1 DEF RecordsOf, lines
  <2> QED
    BY <1>1, <2>1, <2>2 DEF ReportExact
<1> QED
  BY <1>3, <1>4

\* The streamer reads on: what it cuts off goes to the workers.
LEMMA StreamStep ==
  ASSUME ReportInv, Stream
  PROVE  ReportInv'
<1> DEFINE a == pos + 1
           u == Until(a)
           b == Batch(a)
<1>1. /\ TypeOK /\ Dealt /\ Counted /\ Tabled
  BY DEF ReportInv
<1>2. /\ ~over /\ input' = input /\ todo' = todo /\ state' = state /\ folded' = folded
      /\ pos' = u /\ sent' = sent + Cardinality(b)
      /\ over' = (b = {} \/ (input.limit > 0 /\ sent' >= input.limit))
      /\ seq' = (IF b = {} THEN seq ELSE seq + 1)
      /\ link' = [w \in Worker |-> IF Part(b, w) = {} THEN link[w] ELSE Append(link[w], Part(b, w))]
      /\ query' = query
  BY DEF Stream
<1>3. lines' = lines
  BY <1>2 DEF lines
<1>4. /\ input \in Inputs /\ pos \in 0..Len(lines) /\ seq \in Nat /\ sent \in Nat
      /\ link \in [Worker -> Seq(SUBSET DOMAIN lines)]
      /\ todo \in [Worker -> SUBSET DOMAIN lines] /\ folded \in [Worker -> SUBSET DOMAIN lines]
  BY <1>1 DEF TypeOK
<1>5. /\ DOMAIN lines = 1..Len(lines) /\ Len(lines) \in Nat /\ input.limit \in Nat
      /\ input.batch \in Nat \ {0}
  BY <1>4, InputIs
<1>6. /\ u \in pos..Len(lines)
      /\ b = {} => u = Least(pos + input.batch, Len(lines))
      /\ input.limit > 0 /\ sent < input.limit => sent + Cardinality(b) <= input.limit
  BY <1>4, UntilIs
<1>7. b = GoodIn(a, u)
  BY DEF Batch
<1>8. /\ pos \in Nat /\ u \in 0..Len(lines) /\ u \in Nat
  BY <1>4, <1>5, <1>6
<1>9. /\ b \in SUBSET DOMAIN lines /\ IsFiniteSet(b) /\ Cardinality(b) \in Nat
      /\ \A i \in b : pos < i /\ i <= u /\ Good(lines[i])
      /\ \A i \in DOMAIN lines : pos < i /\ i <= u /\ Good(lines[i]) => i \in b
  <2>1. \A y \in 0..Len(lines) :
          /\ GoodIn(a, y) \in SUBSET DOMAIN lines /\ IsFiniteSet(GoodIn(a, y))
          /\ Cardinality(GoodIn(a, y)) \in Nat
          /\ \A i \in GoodIn(a, y) : pos < i /\ i <= y /\ Good(lines[i])
          /\ \A i \in DOMAIN lines : pos < i /\ i <= y /\ Good(lines[i]) => i \in GoodIn(a, y)
    BY <1>4, <1>8, GoodLines
  <2> HIDE DEF u, b, a, lines
  <2> QED
    BY <1>7, <1>8, <2>1
<1> HIDE DEF u, b
<1>10. /\ \A y \in 0..Len(lines) : GoodIn(1, y) \in SUBSET DOMAIN lines /\ IsFiniteSet(GoodIn(1, y))
       /\ \A y \in 0..Len(lines) : \A i \in DOMAIN lines : i \in GoodIn(1, y) <=> i <= y /\ Good(lines[i])
  <2>1. 0 \in Nat /\ 0 + 1 = 1
    OBVIOUS
  <2>2. \A y \in 0..Len(lines) :
          /\ GoodIn(0 + 1, y) \in SUBSET DOMAIN lines /\ IsFiniteSet(GoodIn(0 + 1, y))
          /\ \A i \in GoodIn(0 + 1, y) : 0 < i /\ i <= y /\ Good(lines[i])
          /\ \A i \in DOMAIN lines : 0 < i /\ i <= y /\ Good(lines[i]) => i \in GoodIn(0 + 1, y)
    BY <1>4, <2>1, GoodLines
  <2> HIDE DEF lines
  <2> QED
    BY <1>5, <2>1, <2>2
<1> HIDE DEF a
<1>11. GoodIn(1, u) = GoodIn(1, pos) \union b /\ GoodIn(1, pos) \intersect b = {}
  <2> DEFINE x == GoodIn(1, u)
             y == GoodIn(1, pos)
  <2>1. /\ x \in SUBSET DOMAIN lines /\ \A i \in DOMAIN lines : i \in x <=> i <= u /\ Good(lines[i])
        /\ y \in SUBSET DOMAIN lines /\ \A i \in DOMAIN lines : i \in y <=> i <= pos /\ Good(lines[i])
    BY <1>4, <1>8, <1>10
  <2> HIDE DEF x, y, lines
  <2>2. \A i \in x : i \in y \union b
    BY <1>5, <1>8, <1>9, <2>1
  <2>3. \A i \in y \union b : i \in x
    BY <1>5, <1>6, <1>8, <1>9, <2>1
  <2>4. \A i \in y : i \notin b
    BY <1>5, <1>8, <1>9, <2>1
  <2> QED
    BY <2>2, <2>3, <2>4 DEF x, y
<1>12. GoodIn(1, pos)' = GoodIn(1, u)
  BY <1>2, <1>3 DEF GoodIn, Good
<1>13. /\ \A w \in Worker : Part(b, w) \in SUBSET b
       /\ \A v, w \in Worker : v # w => Part(b, v) \intersect Part(b, w) = {}
       /\ \A i \in b : \E w \in Worker : i \in Part(b, w)
  BY <1>4, <1>9, PartsAre
<1>14. ASSUME NEW w \in Worker
       PROVE  /\ link'[w] \in Seq(SUBSET DOMAIN lines)
              /\ Lines(link'[w]) = Lines(link[w]) \union Part(b, w)
              /\ Lines(link[w]) \subseteq GoodIn(1, pos)
              /\ Apart(link'[w])
  <2>1. link[w] \in Seq(SUBSET DOMAIN lines) /\ Part(b, w) \in SUBSET DOMAIN lines
    BY <1>4, <1>9, <1>13
  <2>2. Lines(link[w]) \subseteq GoodIn(1, pos) /\ Apart(link[w])
    BY <1>1 DEF Dealt, Has
  <2>3. Part(b, w) \intersect Lines(link[w]) = {}
    BY <1>11, <1>13, <2>2
  <2>4. link'[w] = IF Part(b, w) = {} THEN link[w] ELSE Append(link[w], Part(b, w))
    BY <1>2
  <2>5. /\ Append(link[w], Part(b, w)) \in Seq(SUBSET DOMAIN lines)
        /\ Lines(Append(link[w], Part(b, w))) = Lines(link[w]) \union Part(b, w)
        /\ Apart(Append(link[w], Part(b, w)))
    <3> DEFINE s == link[w]
               x == Part(b, w)
               D == DOMAIN lines
    <3>1. s \in Seq(SUBSET D) /\ x \in SUBSET D /\ Apart(s) /\ x \intersect Lines(s) = {}
      BY <2>1, <2>2, <2>3
    <3> HIDE DEF s, x, D
    <3>2. /\ Append(s, x) \in Seq(SUBSET D) /\ Lines(Append(s, x)) = Lines(s) \union x
          /\ Apart(Append(s, x))
      BY <3>1, AppendLines
    <3> QED
      BY <3>2 DEF s, x, D
  <2> QED
    BY <2>1, <2>2, <2>4, <2>5
<1>15. TypeOK'
  <2>1. link' \in [Worker -> Seq(SUBSET DOMAIN lines)]
    <3>1. link' = [w \in Worker |-> link'[w]]
      BY <1>2
    <3> QED
      BY <1>14, <3>1
  <2>2. seq' \in Nat /\ sent' \in Nat /\ over' \in BOOLEAN
    BY <1>2, <1>4, <1>9
  <2>3. pos' \in 0..Len(lines)
    BY <1>2, <1>8
  <2> HIDE DEF lines
  <2> QED
    BY <1>1, <1>2, <1>3, <2>1, <2>2, <2>3 DEF TypeOK, query
<1>16. Dealt'
  <2>1. ASSUME NEW w \in Worker
        PROVE  Has(w)' = Has(w) \union Part(b, w) /\ Has(w) \subseteq GoodIn(1, pos)
    BY <1>1, <1>2, <1>14 DEF Has, Dealt
  <2>2. ASSUME NEW w \in Worker
        PROVE  /\ folded'[w] \intersect todo'[w] = {}
               /\ (folded'[w] \union todo'[w]) \intersect Lines(link'[w]) = {}
               /\ Apart(link'[w])
    <3>1. /\ folded[w] \intersect todo[w] = {}
          /\ (folded[w] \union todo[w]) \intersect Lines(link[w]) = {}
      BY <1>1 DEF Dealt
    <3>2. folded[w] \union todo[w] \subseteq GoodIn(1, pos)
      BY <2>1 DEF Has
    <3>3. Part(b, w) \subseteq b
      BY <1>13
    <3> QED
      BY <1>2, <1>11, <1>14, <3>1, <3>2, <3>3
  <2>3. ASSUME NEW v \in Worker, NEW w \in Worker, v # w
        PROVE  Has(v)' \intersect Has(w)' = {}
    <3>1. Has(v) \intersect Has(w) = {} /\ Part(b, v) \intersect Part(b, w) = {}
      BY <1>1, <1>13, <2>3 DEF Dealt
    <3>2. Has(v) \subseteq GoodIn(1, pos) /\ Has(w) \subseteq GoodIn(1, pos)
          /\ Part(b, v) \subseteq b /\ Part(b, w) \subseteq b
      BY <1>13, <2>1
    <3> QED
      BY <1>11, <2>1, <3>1, <3>2
  <2>4. GoodIn(1, pos)' = UNION {Has(w)' : w \in Worker}
    <3>1. GoodIn(1, pos) = UNION {Has(w) : w \in Worker}
      BY <1>1 DEF Dealt
    <3>2. \A i \in GoodIn(1, pos) \union b : \E w \in Worker : i \in Has(w)'
      BY <1>13, <2>1, <3>1
    <3>3. \A w \in Worker : Has(w)' \subseteq GoodIn(1, pos) \union b
      BY <1>13, <2>1
    <3>4. GoodIn(1, pos) \union b = UNION {Has(w)' : w \in Worker}
      BY <3>2, <3>3
    <3> QED
      BY <1>11, <1>12, <3>4
  <2> QED
    BY <2>2, <2>3, <2>4 DEF Dealt
<1>17. Counted'
  <2>1. sent' = Cardinality(GoodIn(1, pos)')
    <3> DEFINE y == GoodIn(1, pos)
    <3>1. IsFiniteSet(y) /\ y \intersect b = {}
      BY <1>4, <1>10, <1>11
    <3> HIDE DEF y
    <3>2. Cardinality(y \union b) = Cardinality(y) + Cardinality(b)
      BY <1>9, <3>1, SizeUnion
    <3>3. sent = Cardinality(y)
      BY <1>1 DEF Counted, y
    <3> QED
      BY <1>2, <1>11, <1>12, <3>2, <3>3 DEF y
  <2>2. ASSUME input.limit > 0
        PROVE  sent' <= input.limit /\ (~over' => sent' < input.limit)
    <3>1. sent < input.limit
      BY <1>1, <1>2, <2>2 DEF Counted
    <3>2. sent' <= input.limit
      BY <1>2, <1>6, <2>2, <3>1
    <3>3. ~over' => ~(sent' >= input.limit)
      BY <1>2, <2>2
    <3>4. sent' \in Nat
      BY <1>2, <1>4, <1>9
    <3>5. ~(sent' >= input.limit) => sent' < input.limit
      BY <1>5, <3>4
    <3> QED
      BY <3>2, <3>3, <3>5
  <2> QED
    BY <1>2, <2>1, <2>2 DEF Counted
<1>18. Tabled'
  BY <1>1, <1>2, <1>3 DEF Tabled, RecordsOf
<1>19. Answered' /\ ReportExact'
  <2>1. settled => Settled' /\ UNCHANGED folded
    BY <1>2 DEF ReportInv, Answered, Settled
  <2>2. \A w \in Worker : folded[w] \subseteq folded'[w]
    BY <1>2
  <2> QED
    BY <1>2, <2>1, <2>2, QueryKept
<1>20. OnlyBadBatchStops'
  <2> SUFFICES ASSUME SkipsRest'
               PROVE  /\ pos' >= input.batch
                      /\ \A i \in (pos' - input.batch + 1)..pos' : ~Good(lines[i])
    BY <1>2, <1>3 DEF OnlyBadBatchStops, Good
  <2>1. over' /\ u < Len(lines) /\ (input.limit = 0 \/ sent' < input.limit)
    BY <1>2, <1>3 DEF SkipsRest
  <2>2. ~(input.limit > 0 /\ sent' >= input.limit)
    <3>1. sent' \in Nat
      BY <1>2, <1>4, <1>9
    <3> QED
      BY <1>5, <2>1, <3>1
  <2>3. b = {}
    BY <1>2, <2>1, <2>2
  <2>4. u = pos + input.batch /\ u < Len(lines)
    <3> DEFINE n == Len(lines)
               q == input.batch
    <3>1. u = Least(pos + q, n) /\ u < n
      BY <1>6, <2>1, <2>3
    <3>2. n \in Nat /\ q \in Nat
      BY <1>5
    <3> HIDE DEF n, q
    <3>3. u = pos + q /\ u < n
      BY <1>8, <3>1, <3>2 DEF Least
    <3> QED
      BY <3>3 DEF n, q
  <2>5. \A i \in (u - input.batch + 1)..u : ~Good(lines[i])
    <3> SUFFICES ASSUME NEW i \in (u - input.batch + 1)..u PROVE ~Good(lines[i])
      OBVIOUS
    <3> DEFINE n == Len(lines)
               q == input.batch
    <3>1. pos < i /\ i <= u /\ i \in DOMAIN lines
      <4>1. n \in Nat /\ q \in Nat /\ u = pos + q /\ u < n /\ i \in (u - q + 1)..u /\ DOMAIN lines = 1..n
        BY <1>5, <2>4
      <4> HIDE DEF n, q, lines
      <4>2. pos < i /\ i <= u /\ i \in 1..n
        BY <1>8, <4>1
      <4> QED
        BY <4>1, <4>2
    <3> QED
      BY <1>9, <2>3, <3>1
  <2> QED
    BY <1>2, <1>5, <1>8, <2>4, <2>5
<1> QED
  BY <1>15, <1>16, <1>17, <1>18, <1>19, <1>20 DEF ReportInv

\* A worker begins with a batch.
LEMMA TakeStep ==
  ASSUME ReportInv, NEW v \in Worker, Take(v)
  PROVE  ReportInv'
<1>1. /\ TypeOK /\ Dealt /\ Counted /\ Tabled
  BY DEF ReportInv
<1>2. /\ todo[v] = {} /\ link[v] # <<>>
      /\ todo' = [todo EXCEPT ![v] = Head(link[v])]
      /\ link' = [link EXCEPT ![v] = Tail(link[v])]
      /\ stream' = stream /\ state' = state /\ folded' = folded /\ query' = query
  BY DEF Take
<1>3. /\ input' = input /\ pos' = pos /\ seq' = seq /\ sent' = sent /\ over' = over
      /\ lines' = lines
  BY <1>2 DEF stream, lines
<1>4. /\ link \in [Worker -> Seq(SUBSET DOMAIN lines)]
      /\ todo \in [Worker -> SUBSET DOMAIN lines] /\ folded \in [Worker -> SUBSET DOMAIN lines]
  BY <1>1 DEF TypeOK
<1>5. /\ Head(link[v]) \in SUBSET DOMAIN lines /\ Tail(link[v]) \in Seq(SUBSET DOMAIN lines)
      /\ Lines(link[v]) = Head(link[v]) \union Lines(Tail(link[v]))
      /\ Apart(Tail(link[v])) /\ Head(link[v]) \intersect Lines(Tail(link[v])) = {}
  <2> DEFINE s == link[v]
             D == DOMAIN lines
  <2>1. s \in Seq(SUBSET D) /\ s # <<>> /\ Apart(s)
    BY <1>1, <1>2, <1>4 DEF Dealt
  <2> HIDE DEF s, D
  <2>2. /\ Head(s) \in SUBSET D /\ Tail(s) \in Seq(SUBSET D)
        /\ Lines(s) = Head(s) \union Lines(Tail(s))
        /\ Apart(Tail(s)) /\ Head(s) \intersect Lines(Tail(s)) = {}
    BY <2>1, TailLines
  <2> QED
    BY <2>2 DEF s, D
<1> DEFINE h == Head(link[v])
           t == Tail(link[v])
<1> HIDE DEF h, t, lines
<1>6. /\ todo'[v] = h /\ link'[v] = t
      /\ \A w \in Worker : w # v => todo'[w] = todo[w] /\ link'[w] = link[w]
  BY <1>2, <1>4 DEF h, t
<1>7. TypeOK'
  <2>1. todo' \in [Worker -> SUBSET DOMAIN lines]
    BY <1>2, <1>4, <1>5
  <2>2. link' \in [Worker -> Seq(SUBSET DOMAIN lines)]
    BY <1>2, <1>4, <1>5
  <2> QED
    BY <1>1, <1>2, <1>3, <2>1, <2>2 DEF TypeOK, query
<1>8. Lines(link[v]) = h \union Lines(t) /\ Apart(t) /\ h \intersect Lines(t) = {}
  BY <1>5 DEF h, t
<1>9. \A w \in Worker : Has(w)' = Has(w)
  <2> SUFFICES ASSUME NEW w \in Worker PROVE Has(w)' = Has(w)
    OBVIOUS
  <2>1. CASE w = v
    BY <1>2, <1>6, <1>8, <2>1 DEF Has
  <2>2. CASE w # v
    BY <1>2, <1>6, <2>2 DEF Has
  <2> QED
    BY <2>1, <2>2
<1>10. GoodIn(1, pos)' = GoodIn(1, pos)
  BY <1>3 DEF GoodIn, Good
<1>11. Dealt'
  <2>1. ASSUME NEW w \in Worker
        PROVE  /\ folded'[w] \intersect todo'[w] = {}
               /\ (folded'[w] \union todo'[w]) \intersect Lines(link'[w]) = {}
               /\ Apart(link'[w])
    <3>1. /\ folded[w] \intersect todo[w] = {}
          /\ (folded[w] \union todo[w]) \intersect Lines(link[w]) = {}
          /\ Apart(link[w])
      BY <1>1 DEF Dealt
    <3>2. CASE w = v
      BY <1>2, <1>6, <1>8, <3>1, <3>2
    <3>3. CASE w # v
      BY <1>2, <1>6, <3>1, <3>3
    <3> QED
      BY <3>2, <3>3
  <2>2. /\ \A x, w \in Worker : x # w => Has(x)' \intersect Has(w)' = {}
        /\ GoodIn(1, pos)' = UNION {Has(w)' : w \in Worker}
    BY <1>1, <1>9, <1>10 DEF Dealt
  <2> QED
    BY <2>1, <2>2 DEF Dealt
<1>12. Counted'
  BY <1>1, <1>3, <1>10 DEF Counted
<1>13. Tabled'
  BY <1>1, <1>2, <1>3 DEF Tabled, RecordsOf
<1>14. Answered' /\ ReportExact'
  <2>1. settled => Settled' /\ UNCHANGED folded
    <3>1. ~Settled
      BY <1>2 DEF Settled
    <3> QED
      BY <3>1 DEF ReportInv, Answered
  <2>2. \A w \in Worker : folded[w] \subseteq folded'[w]
    BY <1>2
  <2> QED
    BY <1>2, <1>3, <2>1, <2>2, QueryKept
<1>15. OnlyBadBatchStops'
  BY <1>3 DEF ReportInv, OnlyBadBatchStops, SkipsRest, Good
<1> QED
  BY <1>7, <1>11, <1>12, <1>13, <1>14, <1>15 DEF ReportInv

\* A record is folded in.
LEMMA FoldStep ==
  ASSUME ReportInv, NEW v \in Worker, Fold(v)
  PROVE  ReportInv'
<1> DEFINE i == Min(todo[v])
<1>1. /\ TypeOK /\ Dealt /\ Counted /\ Tabled
  BY DEF ReportInv
<1>2. /\ todo[v] # {}
      /\ state' = [state EXCEPT ![v] = Add(state[v], lines[i].rec)]
      /\ folded' = [folded EXCEPT ![v] = folded[v] \union {i}]
      /\ todo' = [todo EXCEPT ![v] = todo[v] \ {i}]
      /\ stream' = stream /\ link' = link /\ query' = query
  BY DEF Fold
<1>3. /\ input' = input /\ pos' = pos /\ seq' = seq /\ sent' = sent /\ over' = over
      /\ lines' = lines
  BY <1>2 DEF stream, lines
<1>4. /\ link \in [Worker -> Seq(SUBSET DOMAIN lines)] /\ input \in Inputs
      /\ todo \in [Worker -> SUBSET DOMAIN lines] /\ folded \in [Worker -> SUBSET DOMAIN lines]
  BY <1>1 DEF TypeOK
<1>5. /\ IsFiniteSet(DOMAIN lines) /\ DOMAIN lines \subseteq Int
      /\ RecordsOf(DOMAIN lines) \in [DOMAIN lines -> Record]
      /\ \A D \in SUBSET DOMAIN lines :
           IsFiniteSet(D) /\ RecordsOf(D) = On(RecordsOf(DOMAIN lines), D)
  BY <1>4, InputIs
<1>6. i \in todo[v]
  <2>1. todo[v] \in SUBSET Int /\ IsFiniteSet(todo[v])
    BY <1>4, <1>5
  <2> QED
    BY <1>2, <2>1, Extremes
<1>7. /\ i \in DOMAIN lines /\ i \notin folded[v] /\ lines[i].rec = RecordsOf(DOMAIN lines)[i]
  BY <1>1, <1>4, <1>6 DEF Dealt, RecordsOf
<1> HIDE DEF i, lines
<1>8. /\ todo'[v] = todo[v] \ {i} /\ folded'[v] = folded[v] \union {i}
      /\ \A w \in Worker : w # v => todo'[w] = todo[w] /\ folded'[w] = folded[w]
  BY <1>2, <1>4
<1>9. TypeOK'
  <2>1. todo' \in [Worker -> SUBSET DOMAIN lines]
    BY <1>2, <1>4
  <2>2. folded' \in [Worker -> SUBSET DOMAIN lines]
    BY <1>2, <1>4, <1>7
  <2> QED
    BY <1>1, <1>2, <1>3, <2>1, <2>2 DEF TypeOK, query
<1>10. \A w \in Worker : Has(w)' = Has(w)
  <2> SUFFICES ASSUME NEW w \in Worker PROVE Has(w)' = Has(w)
    OBVIOUS
  <2>1. CASE w = v
    BY <1>2, <1>6, <1>8, <2>1 DEF Has
  <2>2. CASE w # v
    BY <1>2, <1>8, <2>2 DEF Has
  <2> QED
    BY <2>1, <2>2
<1>11. GoodIn(1, pos)' = GoodIn(1, pos)
  BY <1>3 DEF GoodIn, Good
<1>12. Dealt'
  <2>1. ASSUME NEW w \in Worker
        PROVE  /\ folded'[w] \intersect todo'[w] = {}
               /\ (folded'[w] \union todo'[w]) \intersect Lines(link'[w]) = {}
               /\ Apart(link'[w])
    <3>1. /\ folded[w] \intersect todo[w] = {}
          /\ (folded[w] \union todo[w]) \intersect Lines(link[w]) = {}
          /\ Apart(link[w])
      BY <1>1 DEF Dealt
    <3>2. CASE w = v
      BY <1>2, <1>6, <1>8, <3>1, <3>2
    <3>3. CASE w # v
      BY <1>2, <1>8, <3>1, <3>3
    <3> QED
      BY <3>2, <3>3
  <2>2. /\ \A x, w \in Worker : x # w => Has(x)' \intersect Has(w)' = {}
        /\ GoodIn(1, pos)' = UNION {Has(w)' : w \in Worker}
    BY <1>1, <1>10, <1>11 DEF Dealt
  <2> QED
    BY <2>1, <2>2 DEF Dealt
<1>13. Counted'
  BY <1>1, <1>3, <1>11 DEF Counted
<1>14. Tabled'
  <2> DEFINE R == RecordsOf(DOMAIN lines)
             A == folded[v]
             T(w) == TableOf(RecordsOf(folded[w]))
  <2>1. state = [w \in Worker |-> T(w)]
    BY <1>1 DEF Tabled
  <2>2. RecordsOf(A) = On(R, A) /\ RecordsOf(A \union {i}) = On(R, A \union {i})
        /\ IsFiniteSet(A) /\ A \in SUBSET DOMAIN lines
    BY <1>4, <1>5, <1>7
  <2>3. Add(TableOf(On(R, A)), R[i]) = TableOf(On(R, A \union {i}))
    <3>1. R \in [DOMAIN lines -> Record] /\ i \in DOMAIN lines /\ i \notin A
      BY <1>5, <1>7
    <3> HIDE DEF R, A
    <3> QED
      BY <2>2, <3>1, AddTables
  <2>4. Add(state[v], lines[i].rec) = TableOf(RecordsOf(folded'[v]))
    <3>1. state[v] = T(v)
      BY <2>1
    <3> HIDE DEF R
    <3> QED
      BY <1>7, <1>8, <2>2, <2>3, <3>1 DEF R
  <2>5. \A D : RecordsOf(D)' = RecordsOf(D)
    BY <1>3 DEF RecordsOf, lines
  <2>6. ASSUME NEW w \in Worker PROVE state'[w] = TableOf(RecordsOf(folded'[w]))
    <3>1. CASE w = v
      BY <1>2, <2>1, <2>4, <3>1
    <3>2. CASE w # v
      BY <1>2, <1>8, <2>1, <3>2
    <3> QED
      BY <3>1, <3>2
  <2>7. state' = [w \in Worker |-> TableOf(RecordsOf(folded'[w]))]
    <3>1. DOMAIN state' = Worker /\ state' = [w \in DOMAIN state' |-> state'[w]]
      BY <1>2, <2>1
    <3> QED
      BY <2>6, <3>1
  <2>8. \A w \in Worker : RecordsOf(folded[w])' = RecordsOf(folded'[w])
    BY <1>3 DEF RecordsOf, lines
  <2> QED
    BY <2>7, <2>8 DEF Tabled
<1>15. Answered' /\ ReportExact'
  <2>1. settled => Settled' /\ UNCHANGED folded
    <3>1. ~Settled
      BY <1>2 DEF Settled
    <3> QED
      BY <3>1 DEF ReportInv, Answered
  <2>2. \A w \in Worker : folded[w] \subseteq folded'[w]
    BY <1>8
  <2> QED
    BY <1>2, <1>3, <2>1, <2>2, QueryKept
<1>16. OnlyBadBatchStops'
  BY <1>3 DEF ReportInv, OnlyBadBatchStops, SkipsRest, Good
<1> QED
  BY <1>9, <1>12, <1>13, <1>14, <1>15, <1>16 DEF ReportInv

\* The lines, the workers and what they have when a step of the query leaves
\* them alone.
LEMMA WorkKept ==
  ASSUME ReportInv, UNCHANGED <<stream, work>>
  PROVE  /\ Dealt' /\ Counted' /\ Tabled' /\ OnlyBadBatchStops'
         /\ Settled' = Settled /\ lines' = lines
         /\ input' = input /\ folded' = folded /\ state' = state
<1>1. /\ input' = input /\ pos' = pos /\ seq' = seq /\ sent' = sent /\ over' = over
      /\ link' = link /\ todo' = todo /\ state' = state /\ folded' = folded /\ lines' = lines
  BY DEF stream, work, lines
<1>2. Dealt /\ Counted /\ Tabled /\ OnlyBadBatchStops
  BY DEF ReportInv
<1>3. Dealt'
  BY <1>1, <1>2 DEF Dealt, Has, GoodIn, Good
<1>4. Counted'
  BY <1>1, <1>2 DEF Counted, GoodIn, Good
<1>5. Tabled'
  BY <1>1, <1>2 DEF Tabled, RecordsOf
<1>6. OnlyBadBatchStops'
  BY <1>1, <1>2 DEF OnlyBadBatchStops, SkipsRest, Good
<1>7. Settled' = Settled
  BY <1>1 DEF Settled
<1> QED
  BY <1>1, <1>3, <1>4, <1>5, <1>6, <1>7

\* And their types.
LEMMA TypesKept ==
  ASSUME TypeOK, UNCHANGED <<stream, work>>,
         asking' \in {"no", "asked", "answered"}, DOMAIN held' = Worker, merged'.next \in 0..W,
         seen' \in [Worker -> SUBSET DOMAIN lines], settled' \in BOOLEAN
  PROVE  TypeOK'
<1>1. /\ input' = input /\ pos' = pos /\ seq' = seq /\ sent' = sent /\ over' = over
      /\ link' = link /\ todo' = todo /\ folded' = folded /\ lines' = lines
  BY DEF stream, work, lines
<1> QED
  BY <1>1 DEF TypeOK

\* The tables of no line.
LEMMA NoLines ==
  ASSUME input \in Inputs
  PROVE  TableOf(RecordsOf({})) = Empty
<1>1. {} \in SUBSET DOMAIN lines
  OBVIOUS
<1>2. RecordsOf({}) = On(RecordsOf(DOMAIN lines), {}) /\ RecordsOf(DOMAIN lines) \in [DOMAIN lines -> Record]
  BY <1>1, InputIs
<1> QED
  BY <1>2, EmptyTable

LEMMA AskStep ==
  ASSUME ReportInv, Ask
  PROVE  ReportInv'
<1>1. /\ asking' = "asked" /\ held' = [w \in Worker |-> <<>>]
      /\ merged' = [total |-> Empty, next |-> 0] /\ seen' = [w \in Worker |-> {}]
      /\ settled' = Settled /\ stream' = stream /\ work' = work
  BY DEF Ask
<1>2. TypeOK /\ W \in Nat \ {0}
  BY WorkerAssumption DEF ReportInv
<1>3. /\ Dealt' /\ Counted' /\ Tabled' /\ OnlyBadBatchStops'
      /\ Settled' = Settled /\ lines' = lines /\ input' = input
  BY <1>1, WorkKept
<1>4. TypeOK'
  <2>1. settled' \in BOOLEAN
    BY <1>1 DEF Settled
  <2>2. DOMAIN held' = Worker /\ merged'.next \in 0..W /\ asking' \in {"no", "asked", "answered"}
    BY <1>1, <1>2
  <2>3. seen' \in [Worker -> SUBSET DOMAIN lines]
    BY <1>1
  <2> QED
    BY <1>1, <1>2, <2>1, <2>2, <2>3, TypesKept
<1>5. Answered'
  <2>1. SeenBy(merged.next)' = {}
    BY <1>1, <1>2 DEF SeenBy, Worker
  <2>2. TableOf(RecordsOf({})) = Empty
    BY <1>2, NoLines DEF TypeOK
  <2>3. RecordsOf(SeenBy(merged.next))' = RecordsOf({})
    BY <1>3, <2>1 DEF RecordsOf
  <2>4. (merged.total = TableOf(RecordsOf(SeenBy(merged.next))))'
    BY <1>1, <2>2, <2>3
  <2>5. \A w \in Worker : held'[w] = <<>> /\ seen'[w] = {}
    BY <1>1
  <2>6. merged'.next = 0 /\ ~(merged'.next > 0) /\ asking' # "answered"
    BY <1>1
  <2>7. settled' => Settled'
    BY <1>1, <1>3
  <2> QED
    BY <2>4, <2>5, <2>6, <2>7 DEF Answered
<1>6. ReportExact'
  BY <1>1 DEF ReportExact
<1> QED
  BY <1>3, <1>4, <1>5, <1>6 DEF ReportInv

\* A worker answers: what comes over is what it has folded in.
LEMMA GetPartialStep ==
  ASSUME ReportInv, NEW v \in Worker, GetPartial(v)
  PROVE  ReportInv'
<1>1. /\ asking = "asked" /\ held[v] = <<>>
      /\ held' = [held EXCEPT ![v] = <<Wire(state[v])>>]
      /\ seen' = [seen EXCEPT ![v] = folded[v]]
      /\ stream' = stream /\ work' = work /\ asking' = asking /\ merged' = merged
      /\ settled' = settled /\ report' = report
  BY DEF GetPartial
<1>2. TypeOK /\ Tabled /\ Answered /\ W \in Nat \ {0}
  BY WorkerAssumption DEF ReportInv
<1>3. /\ Dealt' /\ Counted' /\ Tabled' /\ OnlyBadBatchStops'
      /\ Settled' = Settled /\ lines' = lines /\ input' = input /\ folded' = folded
  BY <1>1, WorkKept
<1>4. /\ input \in Inputs /\ DOMAIN held = Worker /\ seen \in [Worker -> SUBSET DOMAIN lines]
      /\ folded \in [Worker -> SUBSET DOMAIN lines] /\ merged.next \in 0..W
  BY <1>2 DEF TypeOK
<1>5. /\ held'[v] = <<Wire(state[v])>> /\ seen'[v] = folded[v]
      /\ \A w \in Worker : w # v => held'[w] = held[w] /\ seen'[w] = seen[w]
  BY <1>1, <1>4
<1>6. TypeOK'
  <2>1. seen' \in [Worker -> SUBSET DOMAIN lines] /\ DOMAIN held' = Worker
    BY <1>1, <1>4
  <2>2. asking' \in {"no", "asked", "answered"} /\ merged'.next \in 0..W /\ settled' \in BOOLEAN
    BY <1>1, <1>2 DEF TypeOK
  <2> QED
    BY <1>1, <1>2, <2>1, <2>2, TypesKept
<1>7. Wire(state[v]) = TableOf(RecordsOf(folded[v]))
  <2> DEFINE R == RecordsOf(DOMAIN lines)
             A == folded[v]
             L == DOMAIN lines
  <2>1. R \in [L -> Record] /\ A \in SUBSET L /\ IsFiniteSet(A) /\ RecordsOf(A) = On(R, A)
    BY <1>4, InputIs
  <2>2. state[v] = TableOf(RecordsOf(A))
    BY <1>2 DEF Tabled
  <2> HIDE DEF R, A, L
  <2> QED
    BY <2>1, <2>2, WireTables DEF A
<1>8. merged.next = 0
  <2>1. ~(merged.next > 0)
    BY <1>1, <1>2 DEF Answered
  <2> QED
    BY <1>2, <1>4, <2>1
<1>9. Answered'
  <2>1. ASSUME NEW w \in Worker
        PROVE  /\ \/ held'[w] = <<>> /\ seen'[w] = {}
                  \/ held'[w] = <<TableOf(RecordsOf(seen'[w]))>>
               /\ seen'[w] \subseteq folded'[w]
               /\ settled => (held'[w] # <<>> => seen'[w] = folded'[w])
    <3>1. CASE w = v
      BY <1>3, <1>5, <1>7, <3>1
    <3>2. CASE w # v
      BY <1>2, <1>3, <1>5, <3>2 DEF Answered
    <3> QED
      BY <3>1, <3>2
  <2>2. \A w \in Worker : RecordsOf(seen[w])' = RecordsOf(seen'[w])
    BY <1>3 DEF RecordsOf
  <2>3. SeenBy(merged.next)' = {} /\ SeenBy(merged.next) = {}
    BY <1>1, <1>8 DEF SeenBy
  <2>4. RecordsOf(SeenBy(merged.next))' = RecordsOf(SeenBy(merged.next))
    BY <1>3, <2>3 DEF RecordsOf
  <2>5. (merged.total = TableOf(RecordsOf(SeenBy(merged.next))))'
    BY <1>1, <1>2, <2>4 DEF Answered
  <2>6. ~(merged'.next > 0) /\ asking' # "answered"
    BY <1>1, <1>8
  <2>7. settled' => Settled'
    BY <1>1, <1>2, <1>3 DEF Answered
  <2> QED
    BY <1>1, <2>1, <2>2, <2>5, <2>6, <2>7 DEF Answered
<1>10. ReportExact'
  BY <1>1 DEF ReportExact
<1> QED
  BY <1>3, <1>6, <1>9, <1>10 DEF ReportInv

\* The next answer is merged: no line is in two of them.
LEMMA MergeStep ==
  ASSUME ReportInv, MergeNext
  PROVE  ReportInv'
<1> DEFINE n == merged.next
<1>1. /\ asking = "asked" /\ (\A w \in Worker : held[w] # <<>>) /\ n < W
      /\ merged' = [total |-> Merge(merged.total, held[n][1]), next |-> n + 1]
      /\ stream' = stream /\ work' = work /\ asking' = asking /\ held' = held /\ seen' = seen
      /\ settled' = settled /\ report' = report
  BY DEF MergeNext
<1>2. TypeOK /\ Dealt /\ Answered /\ W \in Nat \ {0}
  BY WorkerAssumption DEF ReportInv
<1>3. /\ Dealt' /\ Counted' /\ Tabled' /\ OnlyBadBatchStops'
      /\ Settled' = Settled /\ lines' = lines /\ input' = input /\ folded' = folded
  BY <1>1, WorkKept
<1>4. /\ input \in Inputs /\ DOMAIN held = Worker /\ seen \in [Worker -> SUBSET DOMAIN lines]
      /\ n \in 0..W
  BY <1>2 DEF TypeOK
<1>5. n \in Worker /\ n + 1 \in 0..W /\ n \in Nat
  BY <1>1, <1>2, <1>4 DEF Worker
<1>6. TypeOK'
  <2>1. /\ asking' \in {"no", "asked", "answered"} /\ settled' \in BOOLEAN
        /\ seen' \in [Worker -> SUBSET DOMAIN lines] /\ DOMAIN held' = Worker
    BY <1>1, <1>2 DEF TypeOK
  <2>2. merged'.next \in 0..W
    BY <1>1, <1>5
  <2> QED
    BY <1>1, <1>2, <2>1, <2>2, TypesKept
<1>7. held[n] = <<TableOf(RecordsOf(seen[n]))>>
  BY <1>1, <1>2, <1>5 DEF Answered
<1>8. SeenBy(n + 1) = SeenBy(n) \union seen[n]
  <2>1. 0..((n + 1) - 1) = (0..(n - 1)) \union {n}
    BY <1>5
  <2> HIDE DEF n
  <2> QED
    BY <2>1 DEF SeenBy
<1>9. 0..(n - 1) \subseteq Worker /\ n \notin 0..(n - 1)
  BY <1>1, <1>2, <1>5 DEF Worker
<1>10. SeenBy(n) \intersect seen[n] = {}
  <2> SUFFICES ASSUME NEW w \in 0..(n - 1) PROVE seen[w] \intersect seen[n] = {}
    BY DEF SeenBy
  <2>1. w \in Worker /\ w # n
    BY <1>9
  <2>2. seen[w] \subseteq Has(w) /\ seen[n] \subseteq Has(n)
    BY <1>2, <1>5, <2>1 DEF Answered, Has
  <2>3. Has(w) \intersect Has(n) = {}
    BY <1>2, <1>5, <2>1 DEF Dealt
  <2> QED
    BY <2>2, <2>3
<1>11. Merge(merged.total, held[n][1]) = TableOf(RecordsOf(SeenBy(n + 1)))
  <2> DEFINE R == RecordsOf(DOMAIN lines)
             L == DOMAIN lines
             A == SeenBy(n)
             B == seen[n]
  <2>1. A \in SUBSET L /\ B \in SUBSET L
    BY <1>4, <1>5, <1>9 DEF SeenBy
  <2>2. A \union B \in SUBSET L
    BY <2>1
  <2>3. /\ R \in [L -> Record] /\ IsFiniteSet(A) /\ IsFiniteSet(B)
        /\ RecordsOf(A) = On(R, A) /\ RecordsOf(B) = On(R, B)
        /\ RecordsOf(A \union B) = On(R, A \union B)
    <3> HIDE DEF A, B
    <3> QED
      BY <1>4, <2>1, <2>2, InputIs
  <2>4. merged.total = TableOf(RecordsOf(A)) /\ held[n][1] = TableOf(RecordsOf(B))
    BY <1>2, <1>7 DEF Answered
  <2>5. SeenBy(n + 1) = A \union B /\ A \intersect B = {}
    BY <1>8, <1>10
  <2> HIDE DEF R, L, A, B
  <2>6. Merge(TableOf(On(R, A)), TableOf(On(R, B))) = TableOf(On(R, A \union B))
    BY <2>1, <2>3, <2>5, MergeTables
  <2> QED
    BY <2>3, <2>4, <2>5, <2>6
<1>12. Answered'
  <2>1. \A w \in Worker : RecordsOf(seen[w])' = RecordsOf(seen[w])
    BY <1>1, <1>3 DEF RecordsOf
  <2>2. RecordsOf(SeenBy(merged.next))' = RecordsOf(SeenBy(n + 1))
    BY <1>1, <1>3 DEF RecordsOf, SeenBy
  <2>3. (merged.total = TableOf(RecordsOf(SeenBy(merged.next))))'
    BY <1>1, <1>11, <2>2
  <2>4. asking' # "answered" /\ \A w \in Worker : held'[w] # <<>>
    BY <1>1
  <2> QED
    BY <1>1, <1>2, <1>3, <2>1, <2>3, <2>4 DEF Answered
<1>13. ReportExact'
  BY <1>1 DEF ReportExact
<1> QED
  BY <1>3, <1>6, <1>12, <1>13 DEF ReportInv

\* The report is filled from all that the answers held.
LEMMA AnswerStep ==
  ASSUME ReportInv, Answer
  PROVE  ReportInv'
<1>1. /\ asking = "asked" /\ merged.next = W
      /\ \E order \in SetToSeqs(DOMAIN merged.total.intervals) :
            report' = Fill(merged.total, input.k, order)
      /\ asking' = "answered" /\ stream' = stream /\ work' = work /\ held' = held
      /\ merged' = merged /\ seen' = seen /\ settled' = settled
  BY DEF Answer
<1>2. TypeOK /\ Answered /\ W \in Nat \ {0}
  BY WorkerAssumption DEF ReportInv
<1>3. /\ Dealt' /\ Counted' /\ Tabled' /\ OnlyBadBatchStops'
      /\ Settled' = Settled /\ lines' = lines /\ input' = input /\ folded' = folded
  BY <1>1, WorkKept
<1>4. /\ input \in Inputs /\ seen \in [Worker -> SUBSET DOMAIN lines]
  BY <1>2 DEF TypeOK
<1>5. TypeOK'
  <2>1. /\ asking' \in {"no", "asked", "answered"} /\ settled' \in BOOLEAN /\ merged'.next \in 0..W
        /\ seen' \in [Worker -> SUBSET DOMAIN lines] /\ DOMAIN held' = Worker
    BY <1>1, <1>2 DEF TypeOK
  <2> QED
    BY <1>1, <1>2, <2>1, TypesKept
<1>6. Answered'
  <2>1. \A w \in Worker : RecordsOf(seen[w])' = RecordsOf(seen[w])
    BY <1>1, <1>3 DEF RecordsOf
  <2>2. RecordsOf(SeenBy(merged.next))' = RecordsOf(SeenBy(merged.next))
    BY <1>1, <1>3 DEF RecordsOf, SeenBy
  <2> QED
    BY <1>1, <1>2, <1>3, <2>1, <2>2 DEF Answered
<1> DEFINE A == UNION {seen[w] : w \in Worker}
<1>7. merged.total = TableOf(RecordsOf(A))
  BY <1>1, <1>2 DEF Answered, SeenBy, Worker
<1>8. report' = Oracle(RecordsOf(A), input.k)
  <2> DEFINE R == RecordsOf(DOMAIN lines)
             L == DOMAIN lines
  <2>1. A \in SUBSET L
    BY <1>4
  <2> HIDE DEF A
  <2>2. R \in [L -> Record] /\ IsFiniteSet(A) /\ RecordsOf(A) = On(R, A)
    BY <1>4, <2>1, InputIs
  <2>3. PICK order \in SetToSeqs(DOMAIN merged.total.intervals) :
          report' = Fill(merged.total, input.k, order)
    BY <1>1
  <2> HIDE DEF R, L
  <2>4. order \in SetToSeqs(DOMAIN TableOf(On(R, A)).intervals)
    BY <1>7, <2>2, <2>3
  <2>5. Fill(TableOf(On(R, A)), input.k, order) = Oracle(On(R, A), input.k)
    BY <2>1, <2>2, <2>4, FillIs
  <2> QED
    BY <1>7, <2>2, <2>3, <2>5
<1>9. ReportExact'
  <2>1. RecordsOf(UNION {seen[w] : w \in Worker})' = RecordsOf(A)
    BY <1>1, <1>3 DEF RecordsOf
  <2> QED
    BY <1>3, <1>8, <2>1 DEF ReportExact
<1> QED
  BY <1>3, <1>5, <1>6, <1>9 DEF ReportInv

\* When all is folded and the file was read as far as the limit lets it be, the
\* answers are of the lines that the reference reads.
LEMMA FinalLines ==
  ASSUME ReportInv, asking = "answered", settled, ~SkipsRest,
         \A i \in DOMAIN lines : lines[i].fields <= 7
  PROVE  UNION {seen[w] : w \in Worker} = OracleReads
<1>1. TypeOK /\ Dealt /\ Counted /\ Answered /\ W \in Nat \ {0}
  BY WorkerAssumption DEF ReportInv
<1>2. /\ input \in Inputs /\ pos \in 0..Len(lines) /\ sent \in Nat
  BY <1>1 DEF TypeOK
<1>3. /\ DOMAIN lines = 1..Len(lines) /\ Len(lines) \in Nat /\ IsFiniteSet(DOMAIN lines)
      /\ input.limit \in Nat /\ \A i \in DOMAIN lines : lines[i].fields \in Nat
  BY <1>2, InputIs
<1> DEFINE n == Len(lines)
           L == DOMAIN lines
           G(y) == GoodIn(1, y)
           P == G(pos)
           limit == input.limit
<1>4. UNION {seen[w] : w \in Worker} = P
  <2>1. /\ over /\ \A w \in Worker : link[w] = <<>> /\ todo[w] = {}
        /\ \A w \in Worker : held[w] # <<>> => seen[w] = folded[w]
    BY <1>1 DEF Answered, Settled
  <2>2. merged.next > 0
    BY <1>1 DEF Answered
  <2>3. \A w \in Worker : seen[w] = folded[w]
    BY <1>1, <2>1, <2>2 DEF Answered
  <2>4. Lines(<<>>) = {}
    BY DEF Lines
  <2>5. \A w \in Worker : Has(w) = seen[w]
    BY <2>1, <2>3, <2>4 DEF Has
  <2> QED
    BY <1>1, <2>5 DEF Dealt
<1>5. over /\ (pos < n => limit # 0 /\ ~(sent < limit))
  <2>1. over
    BY <1>1 DEF Answered, Settled
  <2> QED
    BY <2>1 DEF SkipsRest
<1>6. /\ sent = Cardinality(P)
      /\ limit > 0 => sent <= limit
  BY <1>1 DEF Counted
<1>7. \A y \in 0..n : G(y) \in SUBSET L /\ IsFiniteSet(G(y)) /\ \A i \in L : i \in G(y) <=> i <= y /\ Good(lines[i])
  <2>1. 0 \in Nat /\ 0 + 1 = 1
    OBVIOUS
  <2>2. \A y \in 0..Len(lines) :
          /\ GoodIn(0 + 1, y) \in SUBSET DOMAIN lines /\ IsFiniteSet(GoodIn(0 + 1, y))
          /\ \A i \in GoodIn(0 + 1, y) : 0 < i /\ i <= y /\ Good(lines[i])
          /\ \A i \in DOMAIN lines : 0 < i /\ i <= y /\ Good(lines[i]) => i \in GoodIn(0 + 1, y)
    BY <1>2, <2>1, GoodLines
  <2> HIDE DEF lines
  <2> QED
    BY <1>3, <2>1, <2>2
<1>8. OracleLines = {i \in L : Good(lines[i])}
  BY <1>3 DEF OracleLines, Good
<1>9. \A i \in L : {j \in OracleLines : j <= i} = G(i)
  <2> SUFFICES ASSUME NEW i \in L PROVE {j \in OracleLines : j <= i} = G(i)
    OBVIOUS
  <2>1. i \in 0..n
    BY <1>3
  <2>2. G(i) \in SUBSET L /\ \A j \in L : j \in G(i) <=> j <= i /\ Good(lines[j])
    BY <1>7, <2>1
  <2> HIDE DEF G, L
  <2> QED
    BY <1>8, <2>2
<1>10. OracleReads = {i \in L : Good(lines[i]) /\ (limit = 0 \/ Cardinality(G(i)) <= limit)}
  <2>1. OracleReads = {i \in OracleLines :
                         limit = 0 \/ Cardinality({j \in OracleLines : j <= i}) <= limit}
    BY DEF OracleReads
  <2> HIDE DEF L, G, limit
  <2> QED
    BY <1>8, <1>9, <2>1
<1>11. \A i \in L : i \in 0..n /\ i \in Nat /\ i <= n
  BY <1>3
<1>12. P \in SUBSET L /\ IsFiniteSet(P) /\ \A i \in L : i \in P <=> i <= pos /\ Good(lines[i])
  BY <1>2, <1>7
<1>13. limit \in Nat /\ n \in Nat /\ pos \in Nat /\ pos <= n
  BY <1>2, <1>3
<1> HIDE DEF n, L, G, P, limit, lines
<1>14. ASSUME NEW i \in L, Good(lines[i]), limit # 0
       PROVE  i <= pos <=> Cardinality(G(i)) <= limit
  <2>1. G(i) \in SUBSET L /\ IsFiniteSet(G(i)) /\ \A j \in L : j \in G(i) <=> j <= i /\ Good(lines[j])
    BY <1>7, <1>11
  <2>2. Cardinality(G(i)) \in Nat /\ Cardinality(P) \in Nat
    BY <1>12, <2>1, FS_CardinalityType
  <2>3. CASE i <= pos
    <3>1. G(i) \in SUBSET P
      BY <1>11, <1>12, <1>13, <2>1, <2>3
    <3>2. Cardinality(G(i)) <= Cardinality(P)
      BY <1>12, <3>1, FS_Subset
    <3> QED
      BY <1>6, <1>13, <1>14, <2>2, <2>3, <3>2
  <2>4. CASE ~(i <= pos)
    <3> DEFINE Q == P \union {i}
    <3>1. Q \in SUBSET G(i) /\ i \notin P
      BY <1>11, <1>12, <1>13, <1>14, <2>1, <2>4
    <3>2. Cardinality(Q) = Cardinality(P) + 1
      BY <1>12, <3>1, FS_AddElement
    <3> HIDE DEF Q
    <3>3. Cardinality(Q) <= Cardinality(G(i))
      BY <2>1, <3>1, FS_Subset
    <3>4. pos < n
      BY <1>11, <1>13, <2>4
    <3>5. ~(Cardinality(P) < limit)
      BY <1>5, <1>6, <3>4
    <3> QED
      BY <1>13, <2>2, <2>4, <3>2, <3>3, <3>5
  <2> QED
    BY <2>3, <2>4
<1>15. ASSUME NEW i \in L, limit = 0 PROVE i <= pos
  BY <1>5, <1>11, <1>13, <1>15
<1>16. \A i \in L : i \in P <=> Good(lines[i]) /\ (limit = 0 \/ Cardinality(G(i)) <= limit)
  BY <1>12, <1>14, <1>15
<1>17. OracleReads = P
  BY <1>10, <1>12, <1>16
<1> QED
  BY <1>4, <1>17

-----------------------------------------------------------------------------
(***************************************************************************)
(* The theorems.                                                           *)
(***************************************************************************)

\* The invariant: each good line that was read is in one place, a worker's
\* tables are those of the records it has folded in, an answer is a worker's
\* tables at one moment, and the total is that of the answers.
THEOREM ReportInvariance == Spec => []ReportInv
<1>1. Init => ReportInv
  BY ReportInit
<1>2. ReportInv /\ [Next]_vars => ReportInv'
  <2> SUFFICES ASSUME ReportInv, [Next]_vars PROVE ReportInv'
    OBVIOUS
  <2>1. CASE Stream
    BY <2>1, StreamStep
  <2>2. CASE \E w \in Worker : Take(w) \/ Fold(w) \/ GetPartial(w)
    BY <2>2, TakeStep, FoldStep, GetPartialStep
  <2>3. CASE Ask
    BY <2>3, AskStep
  <2>4. CASE MergeNext
    BY <2>4, MergeStep
  <2>5. CASE Answer
    BY <2>5, AnswerStep
  <2>6. CASE UNCHANGED vars
    <3>1. UNCHANGED <<stream, work>> /\ UNCHANGED <<input, query>>
      BY <2>6 DEF vars, stream
    <3>2. /\ Dealt' /\ Counted' /\ Tabled' /\ OnlyBadBatchStops'
          /\ Settled' = Settled /\ lines' = lines /\ folded' = folded
      BY <3>1, WorkKept
    <3>3. (settled => Settled') /\ \A w \in Worker : folded[w] \subseteq folded'[w]
      BY <3>2 DEF ReportInv, Answered
    <3>4. Answered' /\ ReportExact'
      BY <3>1, <3>2, <3>3, QueryKept
    <3>5. TypeOK'
      <4>1. TypeOK /\ asking' = asking /\ held' = held /\ merged' = merged /\ seen' = seen
            /\ settled' = settled
        BY <3>1 DEF ReportInv, query
      <4>2. /\ asking' \in {"no", "asked", "answered"} /\ DOMAIN held' = Worker
            /\ merged'.next \in 0..W /\ seen' \in [Worker -> SUBSET DOMAIN lines]
            /\ settled' \in BOOLEAN
        BY <4>1 DEF TypeOK
      <4> QED
        BY <3>1, <4>1, <4>2, TypesKept
    <3> QED
      BY <3>2, <3>4, <3>5 DEF ReportInv
  <2>7. CASE Done
    BY <2>6, <2>7 DEF Done
  <2> QED
    BY <2>1, <2>2, <2>3, <2>4, <2>5, <2>6, <2>7 DEF Next
<1> QED
  BY <1>1, <1>2, PTL DEF Spec

\* Whatever the query met, the report is what the reference makes of the
\* records that the workers' answers held: fold, wire, merge and fill lose
\* nothing, count nothing twice and break every tie as the reference does.
THEOREM ReportIsExact == Spec => []ReportExact
<1>1. ReportInv => ReportExact
  BY DEF ReportInv
<1> QED
  BY <1>1, ReportInvariance, PTL

\* Only a batch made of nothing but malformed lines ends the stream before the
\* file or the limit does.
THEOREM BadBatchStops == Spec => []OnlyBadBatchStops
<1>1. ReportInv => OnlyBadBatchStops
  BY DEF ReportInv
<1> QED
  BY <1>1, ReportInvariance, PTL

\* When all is folded, and no such batch was met, the report is the reference's
\* on the whole file, or on its first records under a limit.
THEOREM FinalIsExact == Spec => []FinalExact
<1>1. ReportInv => FinalExact
  <2> SUFFICES ASSUME ReportInv, asking = "answered", settled, ~SkipsRest,
                      \A i \in DOMAIN lines : lines[i].fields <= 7
               PROVE  report = Oracle(RecordsOf(OracleReads), input.k)
    BY DEF FinalExact
  <2>1. report = Oracle(RecordsOf(UNION {seen[w] : w \in Worker}), input.k)
    BY DEF ReportInv, ReportExact
  <2>2. UNION {seen[w] : w \in Worker} = OracleReads
    BY FinalLines
  <2> QED
    BY <2>1, <2>2
<1> QED
  BY <1>1, ReportInvariance, PTL

-----------------------------------------------------------------------------
(***************************************************************************)
(* The tables in pieces, as the batch pipeline passes them on.  A line is  *)
(* counted under three keys; a pair <<key, line>> says that it has been    *)
(* counted under one of them.                                              *)
(***************************************************************************)
AllKey == <<"G", 0>>
KeysOf(r) == {AllKey, <<"S", r.station>>, <<"I", r.ts \div 60>>}
Key == ({"G"} \X {0}) \union ({"S", "I"} \X Int)

Pairs(R, D)  == {q \in Key \X D : q[1] \in KeysOf(R[q[2]])}
KeysIn(X)    == {q[1] : q \in X}
Only(X, k)   == {q \in X : q[1] = k}
Under(X, k)  == {q[2] : q \in Only(X, k)}
StationsIn(X)  == {k[2] : k \in {k \in KeysIn(X) : k[1] = "S"}}
IntervalsIn(X) == {k[2] : k \in {k \in KeysIn(X) : k[1] = "I"}}

\* The tables in which each line is counted under its keys in X, and no other.
Assembled(R, X) ==
  [TableOf(On(R, Under(X, AllKey))) EXCEPT
     !.stations  = [s \in StationsIn(X) |-> Row(On(R, Under(X, <<"S", s>>)), s)],
     !.intervals = [b \in IntervalsIn(X) |-> Cardinality(Under(X, <<"I", b>>))]]

\* The pairs of a collection, and those under a key.
LEMMA PairsAre ==
  ASSUME NEW L, NEW R \in [L -> Record], NEW D \in SUBSET L
  PROVE  /\ \A k, i : <<k, i>> \in Pairs(R, D) <=> i \in D /\ k \in KeysOf(R[i])
         /\ \A q \in Pairs(R, D) : q = <<q[1], q[2]>> /\ q[2] \in D /\ q[1] \in KeysOf(R[q[2]])
         /\ Pairs(R, D) \in SUBSET Pairs(R, L)
<1>1. ASSUME NEW i \in D PROVE KeysOf(R[i]) \subseteq Key
  <2>1. R[i].station \in Int /\ R[i].ts \div 60 \in Int
    BY DEF Record
  <2> QED
    BY <2>1 DEF KeysOf, Key, AllKey
<1>2. \A k, i : <<k, i>> \in Pairs(R, D) <=> i \in D /\ k \in KeysOf(R[i])
  BY <1>1 DEF Pairs
<1>3. \A q \in Pairs(R, D) : q = <<q[1], q[2]>> /\ q[2] \in D /\ q[1] \in KeysOf(R[q[2]])
  BY DEF Pairs
<1>4. Pairs(R, D) \subseteq Pairs(R, L)
  BY DEF Pairs
<1> QED
  BY <1>2, <1>3, <1>4

\* Lines under a key, and the keys that have some.
LEMMA UnderIs ==
  ASSUME NEW L, NEW R \in [L -> Record], NEW X \in SUBSET Pairs(R, L)
  PROVE  /\ \A k, i : i \in Under(X, k) <=> <<k, i>> \in X
         /\ \A k : Under(X, k) \in SUBSET L
         /\ \A k : k \in KeysIn(X) <=> Under(X, k) # {}
         /\ \A s : s \in StationsIn(X) <=> Under(X, <<"S", s>>) # {}
         /\ \A b : b \in IntervalsIn(X) <=> Under(X, <<"I", b>>) # {}
         /\ \A s : \A i \in Under(X, <<"S", s>>) : R[i].station = s
         /\ \A b : \A i \in Under(X, <<"I", b>>) : R[i].ts \div 60 = b
<1>1. \A q \in X : q = <<q[1], q[2]>> /\ q[2] \in L /\ q[1] \in KeysOf(R[q[2]])
  BY PairsAre
<1>2. \A k, i : i \in Under(X, k) <=> <<k, i>> \in X
  BY <1>1 DEF Under, Only
<1>3. (\A k : Under(X, k) \in SUBSET L) /\ \A k, i : <<k, i>> \in X => k \in KeysOf(R[i])
  <2>1. \A k, i : <<k, i>> \in Pairs(R, L) => i \in L /\ k \in KeysOf(R[i])
    BY DEF Pairs
  <2> QED
    BY <1>2, <2>1
<1>4. \A k : k \in KeysIn(X) <=> Under(X, k) # {}
  BY <1>1 DEF Under, Only, KeysIn
<1>5. \A k \in KeysIn(X) : \E i \in L : k \in KeysOf(R[i])
  BY <1>1 DEF KeysIn
<1>6. \A k \in KeysIn(X) : (k[1] = "S" => k = <<"S", k[2]>>) /\ (k[1] = "I" => k = <<"I", k[2]>>)
  BY <1>5 DEF KeysOf, AllKey
<1>7. \A s : s \in StationsIn(X) <=> <<"S", s>> \in KeysIn(X)
  BY <1>6 DEF StationsIn
<1>8. \A b : b \in IntervalsIn(X) <=> <<"I", b>> \in KeysIn(X)
  BY <1>6 DEF IntervalsIn
<1>9. ASSUME NEW s, NEW i \in Under(X, <<"S", s>>) PROVE R[i].station = s
  <2>1. <<"S", s>> \in KeysOf(R[i])
    BY <1>2, <1>3, <1>9
  <2> QED
    BY <2>1 DEF KeysOf, AllKey
<1>10. ASSUME NEW b, NEW i \in Under(X, <<"I", b>>) PROVE R[i].ts \div 60 = b
  <2>1. <<"I", b>> \in KeysOf(R[i])
    BY <1>2, <1>3, <1>10
  <2> QED
    BY <2>1 DEF KeysOf, AllKey
<1> QED
  BY <1>2, <1>3, <1>4, <1>7, <1>8, <1>9, <1>10

\* Merging adds up under each key.
LEMMA AssembleUnion ==
  ASSUME NEW L, IsFiniteSet(L), NEW R \in [L -> Record],
         NEW X \in SUBSET Pairs(R, L), NEW Y \in SUBSET Pairs(R, L), X \intersect Y = {}
  PROVE  Merge(Assembled(R, X), Assembled(R, Y)) = Assembled(R, X \union Y)
<1> DEFINE Z == X \union Y
<1>1. Z \in SUBSET Pairs(R, L)
  OBVIOUS
<1> HIDE DEF Z
<1>2. ASSUME NEW k
      PROVE  /\ Under(X, k) \in SUBSET L /\ IsFiniteSet(Under(X, k))
             /\ Under(Y, k) \in SUBSET L /\ IsFiniteSet(Under(Y, k))
             /\ Under(X, k) \intersect Under(Y, k) = {}
             /\ Under(Z, k) = Under(X, k) \union Under(Y, k)
  <2>1. Under(X, k) \in SUBSET L /\ Under(Y, k) \in SUBSET L
    BY UnderIs
  <2>2. IsFiniteSet(Under(X, k)) /\ IsFiniteSet(Under(Y, k))
    BY <2>1, FS_Subset
  <2>3. \A i : /\ i \in Under(X, k) <=> <<k, i>> \in X
               /\ i \in Under(Y, k) <=> <<k, i>> \in Y
               /\ i \in Under(Z, k) <=> <<k, i>> \in Z
    <3>1. \A i : i \in Under(Z, k) <=> <<k, i>> \in Z
      BY <1>1, UnderIs
    <3>2. \A i : i \in Under(X, k) <=> <<k, i>> \in X
      BY UnderIs
    <3>3. \A i : i \in Under(Y, k) <=> <<k, i>> \in Y
      BY UnderIs
    <3> QED
      BY <3>1, <3>2, <3>3
  <2> QED
    BY <2>1, <2>2, <2>3 DEF Z
<1> DEFINE A == Under(X, AllKey)
           B == Under(Y, AllKey)
           ta == TableOf(On(R, A))
           tb == TableOf(On(R, B))
           tc == TableOf(On(R, A \union B))
           p == Assembled(R, X)
           o == Assembled(R, Y)
           t == Assembled(R, Z)
<1>3. Merge(ta, tb) = tc
  <2> HIDE DEF A, B
  <2>1. A \in SUBSET L /\ IsFiniteSet(A) /\ B \in SUBSET L /\ IsFiniteSet(B) /\ A \intersect B = {}
    BY <1>2 DEF A, B
  <2> QED
    BY <2>1, MergeTables
<1>4. AddRows(p.stations, o.stations, PlusStation) = t.stations
  <2> DEFINE f(s) == Row(On(R, Under(X, <<"S", s>>)), s)
             g(s) == Row(On(R, Under(Y, <<"S", s>>)), s)
             h(s) == Row(On(R, Under(Z, <<"S", s>>)), s)
             F == StationsIn(X)
             G == StationsIn(Y)
  <2>1. StationsIn(Z) = F \union G
    <3>1. \A s : /\ s \in F <=> Under(X, <<"S", s>>) # {}
                 /\ s \in G <=> Under(Y, <<"S", s>>) # {}
                 /\ s \in StationsIn(Z) <=> Under(Z, <<"S", s>>) # {}
      BY <1>1, UnderIs
    <3> QED
      BY <1>2, <3>1
  <2>2. ASSUME NEW s
        PROVE  /\ h(s) = PlusStation(f(s), g(s))
               /\ s \notin F => h(s) = g(s)
               /\ s \notin G => h(s) = f(s)
    <3> DEFINE C == Under(X, <<"S", s>>)
               D == Under(Y, <<"S", s>>)
    <3>1. C \in SUBSET L /\ IsFiniteSet(C) /\ D \in SUBSET L /\ IsFiniteSet(D)
          /\ C \intersect D = {} /\ Under(Z, <<"S", s>>) = C \union D
      BY <1>2
    <3>2. (s \notin F => C = {}) /\ (s \notin G => D = {})
      BY UnderIs
    <3> HIDE DEF C, D, F, G
    <3>3. /\ Row(On(R, C \union D), s) = PlusStation(Row(On(R, C), s), Row(On(R, D), s))
          /\ OfStation(On(R, C), s) = {} => Row(On(R, C \union D), s) = Row(On(R, D), s)
          /\ OfStation(On(R, D), s) = {} => Row(On(R, C \union D), s) = Row(On(R, C), s)
      BY <3>1, RowUnion
    <3>4. (C = {} => OfStation(On(R, C), s) = {}) /\ (D = {} => OfStation(On(R, D), s) = {})
      BY DEF OfStation, On
    <3> QED
      BY <3>1, <3>2, <3>3, <3>4 DEF C, D
  <2>3. p.stations = [s \in F |-> f(s)] /\ o.stations = [s \in G |-> g(s)]
        /\ t.stations = [s \in StationsIn(Z) |-> h(s)]
    BY DEF Assembled, TableOf
  <2> HIDE DEF f, g, h, F, G, p, o, t
  <2>4. AddRows(p.stations, o.stations, PlusStation)
          = [s \in F \union G |-> IF s \notin G THEN f(s) ELSE IF s \notin F THEN g(s)
                                  ELSE PlusStation(f(s), g(s))]
    BY <2>3 DEF AddRows
  <2> QED
    BY <2>1, <2>2, <2>3, <2>4
<1>5. AddRows(p.intervals, o.intervals, PlusNumber) = t.intervals
  <2> DEFINE f(s) == Cardinality(Under(X, <<"I", s>>))
             g(s) == Cardinality(Under(Y, <<"I", s>>))
             h(s) == Cardinality(Under(Z, <<"I", s>>))
             F == IntervalsIn(X)
             G == IntervalsIn(Y)
  <2>1. IntervalsIn(Z) = F \union G
    <3>1. \A s : /\ s \in F <=> Under(X, <<"I", s>>) # {}
                 /\ s \in G <=> Under(Y, <<"I", s>>) # {}
                 /\ s \in IntervalsIn(Z) <=> Under(Z, <<"I", s>>) # {}
      BY <1>1, UnderIs
    <3> QED
      BY <1>2, <3>1
  <2>2. ASSUME NEW s
        PROVE  /\ h(s) = f(s) + g(s)
               /\ s \notin F => h(s) = g(s)
               /\ s \notin G => h(s) = f(s)
    <3> DEFINE C == Under(X, <<"I", s>>)
               D == Under(Y, <<"I", s>>)
    <3>1. C \in SUBSET L /\ IsFiniteSet(C) /\ D \in SUBSET L /\ IsFiniteSet(D)
          /\ C \intersect D = {} /\ Under(Z, <<"I", s>>) = C \union D
      BY <1>2
    <3>2. (s \notin F => C = {}) /\ (s \notin G => D = {})
      BY UnderIs
    <3> HIDE DEF C, D, F, G
    <3>3. Cardinality(C \union D) = Cardinality(C) + Cardinality(D)
      BY <3>1, SizeUnion
    <3>4. (C = {} => C \union D = D) /\ (D = {} => C \union D = C)
      OBVIOUS
    <3> QED
      BY <3>1, <3>2, <3>3, <3>4 DEF C, D
  <2>3. p.intervals = [s \in F |-> f(s)] /\ o.intervals = [s \in G |-> g(s)]
        /\ t.intervals = [s \in IntervalsIn(Z) |-> h(s)]
    BY DEF Assembled, TableOf
  <2> HIDE DEF f, g, h, F, G, p, o, t
  <2>4. AddRows(p.intervals, o.intervals, PlusNumber)
          = [s \in F \union G |-> IF s \notin G THEN f(s) ELSE IF s \notin F THEN g(s)
                                  ELSE f(s) + g(s)]
    BY <2>3 DEF AddRows, PlusNumber
  <2> QED
    BY <2>1, <2>2, <2>3, <2>4
<1>6. Under(Z, AllKey) = A \union B
  BY <1>2
<1> HIDE DEF A, B
<1>7. /\ p.count = ta.count /\ p.extreme = ta.extreme /\ p.sum = ta.sum /\ p.min = ta.min
      /\ p.max = ta.max /\ p.hottest = ta.hottest /\ p.coldest = ta.coldest
  BY DEF Assembled, TableOf, A
<1>8. /\ o.count = tb.count /\ o.extreme = tb.extreme /\ o.sum = tb.sum /\ o.min = tb.min
      /\ o.max = tb.max /\ o.hottest = tb.hottest /\ o.coldest = tb.coldest
  BY DEF Assembled, TableOf, B
<1>9. t = [count |-> tc.count, extreme |-> tc.extreme, sum |-> tc.sum, min |-> tc.min, max |-> tc.max,
           hottest |-> tc.hottest, coldest |-> tc.coldest, stations |-> t.stations,
           intervals |-> t.intervals]
  <2>1. tc = [count |-> tc.count, extreme |-> tc.extreme, sum |-> tc.sum, min |-> tc.min, max |-> tc.max,
             hottest |-> tc.hottest, coldest |-> tc.coldest, stations |-> tc.stations,
             intervals |-> tc.intervals]
    BY DEF TableOf
  <2>2. t = [tc EXCEPT !.stations = t.stations, !.intervals = t.intervals]
    <3> DEFINE f == [s \in StationsIn(Z) |-> Row(On(R, Under(Z, <<"S", s>>)), s)]
               g == [b \in IntervalsIn(Z) |-> Cardinality(Under(Z, <<"I", b>>))]
    <3>1. t = [tc EXCEPT !.stations = f, !.intervals = g]
      BY <1>6 DEF Assembled
    <3> HIDE DEF tc, f, g, t
    <3> QED
      BY <2>1, <3>1
  <2> HIDE DEF tc, t
  <2> QED
    BY <2>1, <2>2
<1> HIDE DEF ta, tb, tc, p, o, t
<1>10. /\ tc.count = ta.count + tb.count /\ tc.extreme = ta.extreme + tb.extreme
       /\ tc.sum = [m \in Measure |-> ta.sum[m] + tb.sum[m]]
       /\ tc.min = [m \in Low |-> Least(ta.min[m], tb.min[m])]
       /\ tc.max = [m \in Measure |-> Greatest(ta.max[m], tb.max[m])]
       /\ tc.hottest = IF Hotter(tb.hottest, ta.hottest) THEN tb.hottest ELSE ta.hottest
       /\ tc.coldest = IF Colder(tb.coldest, ta.coldest) THEN tb.coldest ELSE ta.coldest
  BY <1>3 DEF Merge
<1>11. Merge(p, o) = t
  BY <1>4, <1>5, <1>7, <1>8, <1>9, <1>10 DEF Merge
<1> QED
  BY <1>11 DEF p, o, t, Z

\* The row of a station is that of its own lines.
LEMMA RowOf ==
  ASSUME NEW L, NEW R \in [L -> Record], NEW D \in SUBSET L, IsFiniteSet(D), NEW s,
         NEW E, E = {i \in D : R[i].station = s}
  PROVE  Row(On(R, E), s) = Row(On(R, D), s)
<1>1. OfStation(On(R, D), s) = E
  BY OnIs
<1>2. E \in SUBSET L /\ E \in SUBSET E /\ E \in SUBSET D /\ IsFiniteSet(E)
  BY FS_Subset
<1>3. OfStation(On(R, E), s) = E
  BY <1>2, OnIs
<1>4. \A m \in Measure : Total(On(R, D), m, E) = Total(On(R, E), m, E)
  BY <1>2, TotalSame
<1>5. "t" \in Measure /\ "rain" \in Measure
  BY DEF Measure
<1> QED
  BY <1>1, <1>3, <1>4, <1>5 DEF Row

\* What is under the keys of all pairs of a collection.
LEMMA UnderAll ==
  ASSUME NEW L, NEW R \in [L -> Record], NEW D \in SUBSET L
  PROVE  /\ Under(Pairs(R, D), AllKey) = D
         /\ \A s : Under(Pairs(R, D), <<"S", s>>) = {i \in D : R[i].station = s}
         /\ \A b : Under(Pairs(R, D), <<"I", b>>) = {i \in D : R[i].ts \div 60 = b}
         /\ StationsIn(Pairs(R, D)) = Stations(On(R, D))
         /\ IntervalsIn(Pairs(R, D)) = Intervals(On(R, D))
<1> DEFINE X == Pairs(R, D)
<1>1. X \in SUBSET Pairs(R, L) /\ \A k, i : <<k, i>> \in X <=> i \in D /\ k \in KeysOf(R[i])
  BY PairsAre
<1> HIDE DEF X
<1>2. /\ \A k, i : i \in Under(X, k) <=> <<k, i>> \in X
      /\ \A s : s \in StationsIn(X) <=> Under(X, <<"S", s>>) # {}
      /\ \A b : b \in IntervalsIn(X) <=> Under(X, <<"I", b>>) # {}
  BY <1>1, UnderIs
<1>3. \A k : Under(X, k) = {i \in D : k \in KeysOf(R[i])}
  BY <1>1, <1>2
<1>4. \A i \in D : /\ AllKey \in KeysOf(R[i])
                   /\ \A s : <<"S", s>> \in KeysOf(R[i]) <=> R[i].station = s
                   /\ \A b : <<"I", b>> \in KeysOf(R[i]) <=> R[i].ts \div 60 = b
  BY DEF KeysOf, AllKey
<1>5. /\ Under(X, AllKey) = D
      /\ \A s : Under(X, <<"S", s>>) = {i \in D : R[i].station = s}
      /\ \A b : Under(X, <<"I", b>>) = {i \in D : R[i].ts \div 60 = b}
  <2>1. Under(X, AllKey) = D
    <3>1. Under(X, AllKey) = {i \in D : AllKey \in KeysOf(R[i])}
      BY <1>3
    <3>2. \A i \in D : AllKey \in KeysOf(R[i])
      BY <1>4
    <3> QED
      BY <3>1, <3>2
  <2>2. ASSUME NEW s PROVE Under(X, <<"S", s>>) = {i \in D : R[i].station = s}
    <3>1. Under(X, <<"S", s>>) = {i \in D : <<"S", s>> \in KeysOf(R[i])}
      BY <1>3
    <3>2. \A i \in D : <<"S", s>> \in KeysOf(R[i]) <=> R[i].station = s
      BY <1>4
    <3> QED
      BY <3>1, <3>2
  <2>3. ASSUME NEW b PROVE Under(X, <<"I", b>>) = {i \in D : R[i].ts \div 60 = b}
    <3>1. Under(X, <<"I", b>>) = {i \in D : <<"I", b>> \in KeysOf(R[i])}
      BY <1>3
    <3>2. \A i \in D : <<"I", b>> \in KeysOf(R[i]) <=> R[i].ts \div 60 = b
      BY <1>4
    <3> QED
      BY <3>1, <3>2
  <2> QED
    BY <2>1, <2>2, <2>3
<1>6. StationsIn(X) = Stations(On(R, D)) /\ IntervalsIn(X) = Intervals(On(R, D))
  <2>1. /\ Stations(On(R, D)) = {R[i].station : i \in D}
        /\ Intervals(On(R, D)) = {R[i].ts \div 60 : i \in D}
    BY OnIs
  <2>2. ASSUME NEW s PROVE s \in StationsIn(X) <=> s \in Stations(On(R, D))
    <3> DEFINE E == {i \in D : R[i].station = s}
    <3>1. Under(X, <<"S", s>>) = E
      BY <1>5
    <3>2. s \in Stations(On(R, D)) <=> E # {}
      BY <2>1
    <3> HIDE DEF E
    <3> QED
      BY <1>2, <3>1, <3>2
  <2>3. ASSUME NEW b PROVE b \in IntervalsIn(X) <=> b \in Intervals(On(R, D))
    <3> DEFINE E == {i \in D : R[i].ts \div 60 = b}
    <3>1. Under(X, <<"I", b>>) = E
      BY <1>5
    <3>2. b \in Intervals(On(R, D)) <=> E # {}
      BY <2>1
    <3> HIDE DEF E
    <3> QED
      BY <1>2, <3>1, <3>2
  <2> QED
    BY <2>2, <2>3
<1> QED
  BY <1>5, <1>6 DEF X

\* All pieces together are the tables.
LEMMA AssembleAll ==
  ASSUME NEW L, NEW R \in [L -> Record], NEW D \in SUBSET L, IsFiniteSet(D)
  PROVE  Assembled(R, Pairs(R, D)) = TableOf(On(R, D))
<1> DEFINE X == Pairs(R, D)
           t == TableOf(On(R, D))
           f == [s \in StationsIn(X) |-> Row(On(R, Under(X, <<"S", s>>)), s)]
           g == [b \in IntervalsIn(X) |-> Cardinality(Under(X, <<"I", b>>))]
<1>1. f = [s \in Stations(On(R, D)) |-> Row(On(R, D), s)]
  <2>1. \A s : Row(On(R, Under(X, <<"S", s>>)), s) = Row(On(R, D), s)
    BY UnderAll, RowOf
  <2>2. StationsIn(X) = Stations(On(R, D))
    BY UnderAll
  <2> QED
    BY <2>1, <2>2
<1>2. g = [b \in Intervals(On(R, D)) |-> Cardinality(OfInterval(On(R, D), b))]
  <2>1. \A b : Under(X, <<"I", b>>) = OfInterval(On(R, D), b)
    <3>1. \A b : Under(X, <<"I", b>>) = {i \in D : R[i].ts \div 60 = b}
      BY UnderAll
    <3>2. \A b : OfInterval(On(R, D), b) = {i \in D : R[i].ts \div 60 = b}
      BY OnIs
    <3> HIDE DEF X
    <3> QED
      BY <3>1, <3>2
  <2>2. IntervalsIn(X) = Intervals(On(R, D))
    BY UnderAll
  <2> QED
    BY <2>1, <2>2
<1>3. Assembled(R, X) = [t EXCEPT !.stations = f, !.intervals = g]
  <2>1. Under(X, AllKey) = D
    BY UnderAll
  <2> QED
    BY <2>1 DEF Assembled
<1>4. t.stations = f /\ t.intervals = g
  BY <1>1, <1>2 DEF TableOf
<1>5. t = [count |-> t.count, extreme |-> t.extreme, sum |-> t.sum, min |-> t.min, max |-> t.max,
           hottest |-> t.hottest, coldest |-> t.coldest, stations |-> t.stations,
           intervals |-> t.intervals]
  BY DEF TableOf
<1> HIDE DEF f, g, t
<1> QED
  BY <1>3, <1>4, <1>5 DEF t

\* Nothing under any key.
LEMMA AssembleNone ==
  ASSUME NEW L, NEW R \in [L -> Record]
  PROVE  Assembled(R, {}) = Empty
<1>1. Pairs(R, {}) = {} /\ {} \in SUBSET L /\ IsFiniteSet({})
  BY FS_EmptySet DEF Pairs
<1>2. Assembled(R, Pairs(R, {})) = TableOf(On(R, {}))
  BY <1>1, AssembleAll
<1> QED
  BY <1>1, <1>2, EmptyTable

\* The empty partial as a function of its fields.
LEMMA EmptyFields ==
  /\ Empty.stations = NoTable /\ Empty.intervals = NoTable
  /\ Empty = [x \in DOMAIN Empty |-> Empty[x]]
<1>1. NoTable = [s \in {} |-> 0]
  BY DEF NoTable
<1>2. Empty.stations = [s \in {} |-> 0] /\ Empty.intervals = [s \in {} |-> 0]
  BY DEF Empty
<1>3. Empty = [x \in DOMAIN Empty |-> Empty[x]]
  BY DEF Empty
<1> QED
  BY <1>1, <1>2, <1>3

\* What a mapper emits of its tables: a line for each key that it has met.
LEMMA PiecesAre ==
  ASSUME NEW L, NEW R \in [L -> Record], NEW D \in SUBSET L, IsFiniteSet(D), D # {}
  PROVE  Pieces(TableOf(On(R, D)))
           = {<<k, Assembled(R, Only(Pairs(R, D), k))>> : k \in KeysIn(Pairs(R, D))}
<1> DEFINE X == Pairs(R, D)
           t == TableOf(On(R, D))
           P(k) == Assembled(R, Only(X, k))
           S == Stations(On(R, D))
           I == Intervals(On(R, D))
<1>1. X \in SUBSET Pairs(R, L) /\ \A k, i : <<k, i>> \in X <=> i \in D /\ k \in KeysOf(R[i])
  BY PairsAre
<1>2. /\ Under(X, AllKey) = D
      /\ \A s : Under(X, <<"S", s>>) = {i \in D : R[i].station = s}
      /\ \A b : Under(X, <<"I", b>>) = {i \in D : R[i].ts \div 60 = b}
      /\ StationsIn(X) = S /\ IntervalsIn(X) = I
  BY UnderAll
<1> HIDE DEF X
<1>3. KeysIn(X) = {AllKey} \union {<<"S", s>> : s \in S} \union {<<"I", b>> : b \in I}
  <2>1. KeysIn(X) = UNION {KeysOf(R[i]) : i \in D}
    <3>1. \A q \in X : q = <<q[1], q[2]>> /\ q[2] \in D /\ q[1] \in KeysOf(R[q[2]])
      BY PairsAre DEF X
    <3>2. \A k \in KeysIn(X) : \E i \in D : k \in KeysOf(R[i])
      BY <3>1 DEF KeysIn
    <3>3. ASSUME NEW i \in D, NEW k \in KeysOf(R[i]) PROVE k \in KeysIn(X)
      <4>1. <<k, i>> \in X /\ <<k, i>>[1] = k
        BY <1>1, <3>3
      <4> QED
        BY <4>1 DEF KeysIn
    <3> QED
      BY <3>2, <3>3
  <2>2. S = {R[i].station : i \in D} /\ I = {R[i].ts \div 60 : i \in D}
    BY OnIs
  <2> HIDE DEF S, I
  <2> QED
    BY <2>1, <2>2 DEF KeysOf
<1>4. ASSUME NEW k
      PROVE  /\ Only(X, k) \in SUBSET Pairs(R, L)
             /\ Under(Only(X, k), k) = Under(X, k)
             /\ \A j : j # k => Under(Only(X, k), j) = {}
  BY <1>1 DEF Only, Under
<1>5. t = [count |-> t.count, extreme |-> t.extreme, sum |-> t.sum, min |-> t.min, max |-> t.max,
           hottest |-> t.hottest, coldest |-> t.coldest, stations |-> t.stations,
           intervals |-> t.intervals]
      /\ t.stations = [s \in S |-> Row(On(R, D), s)]
      /\ t.intervals = [b \in I |-> Cardinality(OfInterval(On(R, D), b))]
  BY DEF TableOf
<1>6. \A e \in {"S", "I"} : \A x : <<e, x>> # AllKey
      /\ \A y : <<"S", x>> # <<"I", y>>
      /\ \A z : <<e, x>> = <<e, z>> => x = z
  BY DEF AllKey
<1>8. P(AllKey) = [t EXCEPT !.stations = NoTable, !.intervals = NoTable]
  <2> DEFINE Y == Only(X, AllKey)
  <2>1. Under(Y, AllKey) = D /\ \A j : j # AllKey => Under(Y, j) = {}
    BY <1>2, <1>4
  <2>2. Y \in SUBSET Pairs(R, L)
    BY <1>4
  <2> HIDE DEF Y
  <2>3. /\ \A s : s \in StationsIn(Y) <=> Under(Y, <<"S", s>>) # {}
        /\ \A b : b \in IntervalsIn(Y) <=> Under(Y, <<"I", b>>) # {}
    BY <2>2, UnderIs
  <2>4. StationsIn(Y) = {} /\ IntervalsIn(Y) = {}
    BY <1>6, <2>1, <2>3
  <2>5. /\ [s \in StationsIn(Y) |-> Row(On(R, Under(Y, <<"S", s>>)), s)] = NoTable
        /\ [b \in IntervalsIn(Y) |-> Cardinality(Under(Y, <<"I", b>>))] = NoTable
    BY <2>4 DEF NoTable
  <2> HIDE DEF t
  <2> QED
    BY <2>1, <2>5 DEF Assembled, Y, t
<1>9. ASSUME NEW s \in S
      PROVE  P(<<"S", s>>) = [Empty EXCEPT !.stations = Restrict(t.stations, {s})]
  <2> DEFINE k == <<"S", s>>
             Y == Only(X, k)
             f == [z \in StationsIn(Y) |-> Row(On(R, Under(Y, <<"S", z>>)), z)]
             g == [b \in IntervalsIn(Y) |-> Cardinality(Under(Y, <<"I", b>>))]
  <2>1. Under(Y, k) = {i \in D : R[i].station = s} /\ \A j : j # k => Under(Y, j) = {}
    BY <1>2, <1>4
  <2>2. Y \in SUBSET Pairs(R, L)
    BY <1>4
  <2>3. Under(Y, k) # {}
    <3>1. S = {R[i].station : i \in D}
      BY OnIs
    <3> HIDE DEF S
    <3> QED
      BY <1>9, <2>1, <3>1
  <2> HIDE DEF Y
  <2>4. /\ \A z : z \in StationsIn(Y) <=> Under(Y, <<"S", z>>) # {}
        /\ \A b : b \in IntervalsIn(Y) <=> Under(Y, <<"I", b>>) # {}
    BY <2>2, UnderIs
  <2>5. StationsIn(Y) = {s} /\ IntervalsIn(Y) = {} /\ Under(Y, AllKey) = {}
    <3>1. \A z : z # s => <<"S", z>> # k
      BY <1>6
    <3>2. AllKey # k /\ \A b : <<"I", b>> # k
      BY <1>6
    <3> HIDE DEF k
    <3>3. \A z : z # s => z \notin StationsIn(Y)
      BY <2>1, <2>4, <3>1
    <3>4. s \in StationsIn(Y)
      BY <2>3, <2>4 DEF k
    <3>5. \A b : b \notin IntervalsIn(Y)
      BY <2>1, <2>4, <3>2
    <3> QED
      BY <2>1, <3>2, <3>3, <3>4, <3>5
  <2>6. Row(On(R, Under(Y, <<"S", s>>)), s) = Row(On(R, D), s)
    BY <2>1, RowOf
  <2>7. f = Restrict(t.stations, {s})
    BY <1>5, <1>9, <2>5, <2>6 DEF Restrict
  <2>8. g = NoTable
    BY <2>5 DEF NoTable
  <2>9. TableOf(On(R, Under(Y, AllKey))) = Empty
    BY <2>5, EmptyTable
  <2>10. Assembled(R, Y) = [Empty EXCEPT !.stations = f, !.intervals = g]
    BY <2>9 DEF Assembled
  <2> HIDE DEF f, g
  <2>11. Assembled(R, Y) = [Empty EXCEPT !.stations = f]
    BY <2>8, <2>10, EmptyFields
  <2> QED
    BY <2>7, <2>11 DEF Y
<1>10. ASSUME NEW b \in I
       PROVE  P(<<"I", b>>) = [Empty EXCEPT !.intervals = Restrict(t.intervals, {b})]
  <2> DEFINE k == <<"I", b>>
             Y == Only(X, k)
             f == [z \in StationsIn(Y) |-> Row(On(R, Under(Y, <<"S", z>>)), z)]
             g == [z \in IntervalsIn(Y) |-> Cardinality(Under(Y, <<"I", z>>))]
  <2>1. Under(Y, k) = {i \in D : R[i].ts \div 60 = b} /\ \A j : j # k => Under(Y, j) = {}
    BY <1>2, <1>4
  <2>2. Y \in SUBSET Pairs(R, L)
    BY <1>4
  <2>3. Under(Y, k) # {} /\ OfInterval(On(R, D), b) = Under(Y, k)
    <3>1. I = {R[i].ts \div 60 : i \in D} /\ OfInterval(On(R, D), b) = {i \in D : R[i].ts \div 60 = b}
      BY OnIs
    <3> HIDE DEF I
    <3> QED
      BY <1>10, <2>1, <3>1
  <2> HIDE DEF Y
  <2>4. /\ \A z : z \in StationsIn(Y) <=> Under(Y, <<"S", z>>) # {}
        /\ \A z : z \in IntervalsIn(Y) <=> Under(Y, <<"I", z>>) # {}
    BY <2>2, UnderIs
  <2>5. StationsIn(Y) = {} /\ IntervalsIn(Y) = {b} /\ Under(Y, AllKey) = {}
    <3>1. \A z : z # b => <<"I", z>> # k
      BY <1>6
    <3>2. AllKey # k /\ \A z : <<"S", z>> # k
      BY <1>6
    <3> HIDE DEF k
    <3>3. \A z : z # b => z \notin IntervalsIn(Y)
      BY <2>1, <2>4, <3>1
    <3>4. b \in IntervalsIn(Y)
      BY <2>3, <2>4 DEF k
    <3>5. \A z : z \notin StationsIn(Y)
      BY <2>1, <2>4, <3>2
    <3> QED
      BY <2>1, <3>2, <3>3, <3>4, <3>5
  <2>6. g = Restrict(t.intervals, {b})
    BY <1>5, <1>10, <2>3, <2>5 DEF Restrict
  <2>7. f = NoTable
    BY <2>5 DEF NoTable
  <2>8. TableOf(On(R, Under(Y, AllKey))) = Empty
    BY <2>5, EmptyTable
  <2>9. Assembled(R, Y) = [Empty EXCEPT !.stations = f, !.intervals = g]
    BY <2>8 DEF Assembled
  <2> HIDE DEF f, g
  <2>10. Assembled(R, Y) = [Empty EXCEPT !.intervals = g]
    BY <2>7, <2>9, EmptyFields
  <2> QED
    BY <2>6, <2>10 DEF Y
<1>11. DOMAIN t.stations = S /\ DOMAIN t.intervals = I
  BY <1>5
<1> DEFINE Q == {<<AllKey, P(AllKey)>>} \union {<<<<"S", s>>, P(<<"S", s>>)>> : s \in S}
                \union {<<<<"I", b>>, P(<<"I", b>>)>> : b \in I}
<1>12. {<<k, P(k)>> : k \in KeysIn(X)} = Q
  <2> HIDE DEF P, S, I
  <2> QED
    BY <1>3
<1>13. Pieces(t) = Q
  <2> HIDE DEF P, S, I, t
  <2>1. {<<<<"S", s>>, [Empty EXCEPT !.stations = Restrict(t.stations, {s})]>> :
           s \in DOMAIN t.stations} = {<<<<"S", s>>, P(<<"S", s>>)>> : s \in S}
    <3> DEFINE a(s) == <<<<"S", s>>, [Empty EXCEPT !.stations = Restrict(t.stations, {s})]>>
               b(s) == <<<<"S", s>>, P(<<"S", s>>)>>
    <3>1. ASSUME NEW s \in S PROVE a(s) = b(s)
      <4> DEFINE e == [Empty EXCEPT !.stations = Restrict(t.stations, {s})]
      <4>1. P(<<"S", s>>) = e
        BY <1>9
      <4> HIDE DEF e
      <4>2. <<<<"S", s>>, e>> = b(s)
        BY <4>1
      <4> QED
        BY <4>2 DEF e
    <3> HIDE DEF a, b
    <3>2. {a(s) : s \in DOMAIN t.stations} = {b(s) : s \in S}
      BY <1>11, <3>1
    <3> QED
      BY <3>2 DEF a, b
  <2>2. {<<<<"I", b>>, [Empty EXCEPT !.intervals = Restrict(t.intervals, {b})]>> :
           b \in DOMAIN t.intervals} = {<<<<"I", b>>, P(<<"I", b>>)>> : b \in I}
    <3> DEFINE a(z) == <<<<"I", z>>, [Empty EXCEPT !.intervals = Restrict(t.intervals, {z})]>>
               b(z) == <<<<"I", z>>, P(<<"I", z>>)>>
    <3>1. ASSUME NEW z \in I PROVE a(z) = b(z)
      <4> DEFINE e == [Empty EXCEPT !.intervals = Restrict(t.intervals, {z})]
      <4>1. P(<<"I", z>>) = e
        BY <1>10
      <4> HIDE DEF e
      <4>2. <<<<"I", z>>, e>> = b(z)
        BY <4>1
      <4> QED
        BY <4>2 DEF e
    <3> HIDE DEF a, b
    <3>2. {a(z) : z \in DOMAIN t.intervals} = {b(z) : z \in I}
      BY <1>11, <3>1
    <3> QED
      BY <3>2 DEF a, b
  <2>3. {<<<<"G", 0>>, [t EXCEPT !.stations = NoTable, !.intervals = NoTable]>>}
          = {<<AllKey, P(AllKey)>>}
    BY <1>8 DEF AllKey
  <2> QED
    BY <2>1, <2>2, <2>3 DEF Pieces
<1> QED
  BY <1>12, <1>13 DEF X

\* The mapper's tables, folded line by line.
LEMMA FoldedIs ==
  ASSUME NEW L, NEW R \in [L -> Record], NEW D \in SUBSET L, IsFiniteSet(D),
         \A s \in SUBSET D : s # {} => Max(s) \in s
  PROVE  Folded(On(R, D)) = TableOf(On(R, D))
<1> DEFINE One(it, s) == IF s = {} THEN Empty ELSE Add(it[s \ {Max(s)}], On(R, D)[Max(s)])
           Is(it) == it = [s \in SUBSET D |-> One(it, s)]
           it == CHOOSE it : Is(it)
<1>0. ASSUME NEW A \in SUBSET D, NEW x \in D, x \notin A
      PROVE  Add(TableOf(On(R, A)), R[x]) = TableOf(On(R, A \union {x}))
  <2>1. A \in SUBSET L /\ IsFiniteSet(A) /\ x \in L
    BY FS_Subset
  <2> QED
    BY <1>0, <2>1, AddTables
<1>1. Folded(On(R, D)) = it[D]
  <2>1. DOMAIN On(R, D) = D
    BY OnIs
  <2> QED
    BY <2>1 DEF Folded, MapThenFoldSet
<1>2. \A s \in SUBSET D : s # {} => Max(s) \in s
  OBVIOUS
<1>3. Is(it)
  <2> DEFINE f == [s \in SUBSET D |-> TableOf(On(R, s))]
  <2>1. ASSUME NEW s \in SUBSET D PROVE f[s] = One(f, s)
    <3>1. CASE s = {}
      BY <3>1, EmptyTable
    <3>2. CASE s # {}
      <4> DEFINE x == Max(s)
                 r == s \ {x}
      <4>1. x \in s /\ x \in L /\ r \in SUBSET L /\ IsFiniteSet(r) /\ x \notin r
            /\ r \union {x} = s /\ r \in SUBSET D
        BY <1>2, <3>2, FS_Subset
      <4>2. On(R, D)[x] = R[x]
        BY <4>1 DEF On
      <4> HIDE DEF x, r
      <4>3. Add(TableOf(On(R, r)), R[x]) = TableOf(On(R, r \union {x}))
        BY <1>0, <4>1
      <4>4. f[r] = TableOf(On(R, r)) /\ f[s] = TableOf(On(R, s))
        BY <4>1
      <4> HIDE DEF f
      <4>5. f[s] = Add(f[r], On(R, D)[x])
        BY <4>1, <4>2, <4>3, <4>4
      <4> QED
        BY <3>2, <4>5 DEF r, x
    <3> QED
      BY <3>1, <3>2
  <2>2. f = [s \in SUBSET D |-> f[s]]
    OBVIOUS
  <2> HIDE DEF f, One
  <2>3. f = [s \in SUBSET D |-> One(f, s)]
    BY <2>1, <2>2
  <2>4. \E g : Is(g)
    BY <2>3
  <2> HIDE DEF Is
  <2> QED
    BY <2>4
<1> HIDE DEF it
<1>4. \A s \in SUBSET D : it[s] = TableOf(On(R, s))
  <2> DEFINE Bad == {s \in SUBSET D : it[s] # TableOf(On(R, s))}
  <2> SUFFICES ASSUME Bad # {} PROVE FALSE
    OBVIOUS
  <2>1. Bad \in SUBSET SUBSET D
    OBVIOUS
  <2>2. PICK s \in Bad : \A x \in s : s \ {x} \notin Bad
    <3> HIDE DEF Bad
    <3> QED
      BY <2>1, LeastSet
  <2>3. it[s] = One(it, s)
    BY <1>3, <2>2
  <2>4. s # {}
    BY <2>2, <2>3, EmptyTable
  <2> DEFINE x == Max(s)
             r == s \ {x}
  <2>5. x \in s /\ x \in L /\ r \in SUBSET L /\ IsFiniteSet(r) /\ x \notin r
        /\ r \union {x} = s /\ r \in SUBSET D
    BY <1>2, <2>2, <2>4, FS_Subset
  <2>6. it[s] = Add(it[r], On(R, D)[x])
    BY <2>3, <2>4
  <2>7. On(R, D)[x] = R[x]
    BY <2>2, <2>5 DEF On
  <2> HIDE DEF x
  <2>8. it[r] = TableOf(On(R, r))
    BY <2>2, <2>5
  <2> HIDE DEF r
  <2>9. Add(TableOf(On(R, r)), R[x]) = TableOf(On(R, r \union {x}))
    BY <1>0, <2>5
  <2>10. it[s] = TableOf(On(R, s))
    BY <2>5, <2>6, <2>7, <2>8, <2>9
  <2> QED
    BY <2>2, <2>10
<1>5. D \in SUBSET D
  OBVIOUS
<1> QED
  BY <1>1, <1>4, <1>5

-----------------------------------------------------------------------------
(***************************************************************************)
(* The invariant of the batch pipeline.                                    *)
(***************************************************************************)
FileRecords == RecordsOf(DOMAIN lines)
AllPairs    == Pairs(FileRecords, OracleLines)

\* The splits, by their first lines, and the records in each.
Firsts   == {0} \union {c + 1 : c \in cuts}
End(s)   == Min({c \in cuts : c >= s} \union {Len(lines)})
Reads(s) == {i \in OracleLines : s <= i /\ i <= End(s)}

\* What a line that waits for a reducer stands for: in the second of two stages
\* what the whole file has under its key.
Second   == stages = 2 /\ job \in {"final", "done"}
Bears(x) == Only(IF Second THEN AllPairs ELSE Pairs(FileRecords, Reads(x.from)), x.key)
Waiting  == UNION {Bears(x) : x \in flow}
Gone     == AllPairs \ Waiting

BatchTypeOK ==
  /\ input \in Inputs
  /\ job \in {"none", "map", "reduce", "final", "done"} /\ stages \in {0, 1, 2}
  /\ job # "none" => stages \in {1, 2}
  /\ job = "reduce" => stages = 2
  /\ cuts \in SUBSET (0..(Len(lines) - 1))
  /\ unmapped \in SUBSET Firsts /\ (job # "map" => unmapped = {})

\* What waits for a reducer is right, and is of a split that has been mapped.
Carried ==
  \A x \in flow :
    /\ x = [from |-> x.from, key |-> x.key, value |-> x.value]
    /\ IF x.key = HeaderKey THEN x.value \in HeaderKs
       ELSE x.value = Assembled(FileRecords, Bears(x)) /\ Bears(x) # {}
    /\ IF Second THEN x.from = 0 ELSE x.from \in Firsts \ unmapped

\* Each pair is where it should be: not mapped yet, waiting, or merged.
Merging ==
  /\ job = "none" => flow = {}
  /\ job \in {"none", "map"} => table = NoTable
  /\ job \in {"none", "map", "reduce"} => total = Empty /\ topk = <<>>
  /\ job = "map" => Waiting = UNION {Pairs(FileRecords, Reads(s)) : s \in Firsts \ unmapped}
  /\ job = "reduce" =>
       /\ DOMAIN table \ {HeaderKey} = KeysIn(Gone)
       /\ \A k \in KeysIn(Gone) : table[k] = Assembled(FileRecords, Only(Gone, k))
       /\ HeaderKey \in DOMAIN table => table[HeaderKey] \in HeaderKs
  /\ job = "final" => total = Assembled(FileRecords, Gone)

\* K comes through.
HeaderKept ==
  /\ topk = <<>> \/ \E k \in HeaderKs : topk = <<k>>
  /\ job \in {"map", "reduce", "final"} =>
       \/ 0 \in unmapped \/ topk # <<>>
       \/ \E x \in flow : x.key = HeaderKey
       \/ job = "reduce" /\ HeaderKey \in DOMAIN table
  /\ printed # <<>> => job = "done"

BatchInv == BatchTypeOK /\ Carried /\ Merging /\ HeaderKept /\ BatchExact

\* The file and its splits.
LEMMA SplitsAre ==
  ASSUME input \in Inputs, cuts \in SUBSET (0..(Len(lines) - 1))
  PROVE  /\ OracleLines \in SUBSET DOMAIN lines /\ IsFiniteSet(DOMAIN lines)
         /\ FileRecords \in [DOMAIN lines -> Record]
         /\ \A D \in SUBSET DOMAIN lines : RecordsOf(D) = On(FileRecords, D) /\ IsFiniteSet(D)
         /\ \A s \in Firsts : s \in Nat /\ End(s) \in 0..Len(lines)
         /\ \A s, t \in Firsts : s # t => Reads(s) \intersect Reads(t) = {}
         /\ UNION {Reads(s) : s \in Firsts} = OracleLines
<1> DEFINE n == Len(lines)
<1>1. /\ n \in Nat /\ DOMAIN lines = 1..n /\ IsFiniteSet(DOMAIN lines)
      /\ FileRecords \in [DOMAIN lines -> Record]
      /\ \A D \in SUBSET DOMAIN lines : RecordsOf(D) = On(FileRecords, D) /\ IsFiniteSet(D)
  BY InputIs DEF FileRecords
<1>2. OracleLines \in SUBSET (1..n) /\ OracleLines \in SUBSET DOMAIN lines
  BY <1>1 DEF OracleLines
<1> HIDE DEF n
<1>3. \A c \in cuts : c \in Int /\ 0 <= c /\ c < n
  <2>1. cuts \in SUBSET (0..(n - 1))
    BY DEF n
  <2>2. \A c \in 0..(n - 1) : c \in Int /\ 0 <= c /\ c < n
    BY <1>1
  <2> QED
    BY <2>1, <2>2
<1>4. \A s \in Firsts : s \in 0..n
  BY <1>1, <1>3 DEF Firsts
<1>5. ASSUME NEW s \in Firsts
      PROVE  /\ End(s) \in {c \in cuts : c >= s} \union {n}
             /\ \A c \in {c \in cuts : c >= s} \union {n} : End(s) <= c
  <2> DEFINE S == {c \in cuts : c >= s} \union {n}
  <2>1. \A c \in S : c \in Int /\ c \in 0..n
    <3>1. \A c \in S : c \in cuts \/ c = n
      OBVIOUS
    <3>2. \A c \in cuts : c \in Int /\ c \in 0..n
      BY <1>1, <1>3
    <3>3. n \in Int /\ n \in 0..n
      BY <1>1
    <3> HIDE DEF S
    <3> QED
      BY <3>1, <3>2, <3>3, Zenon
  <2>2. n \in S
    OBVIOUS
  <2> HIDE DEF S
  <2>5. IsFiniteSet(S) /\ S \in SUBSET Int /\ S # {}
    <3>1. IsFiniteSet(0..n)
      BY <1>1, FS_Interval
    <3> QED
      BY <2>1, <2>2, <3>1, FS_Subset
  <2>3. End(s) = Min(S)
    BY DEF End, S, n
  <2>4. Min(S) \in S /\ \A c \in S : Min(S) <= c
    BY <2>5, Extremes
  <2> QED
    BY <2>3, <2>4 DEF S
<1>6. \A s \in Firsts : s \in Nat /\ End(s) \in 0..n
  <2> SUFFICES ASSUME NEW s \in Firsts PROVE s \in Nat /\ End(s) \in 0..n
    OBVIOUS
  <2>1. End(s) \in cuts \/ End(s) = n
    BY <1>5
  <2>2. n \in Nat
    BY <1>1
  <2>3. s \in Nat
    BY <1>4, <2>2
  <2>4. \A c \in cuts : c \in 0..n
    BY <1>3, <2>2
  <2>5. n \in 0..n
    BY <2>2
  <2>6. End(s) \in 0..n
    BY <2>1, <2>4, <2>5, Zenon
  <2> QED
    BY <2>3, <2>6
<1>7. ASSUME NEW s \in Firsts, NEW t \in Firsts, s < t PROVE End(s) < t
  <2>1. s \in 0..n /\ t \in 0..n
    BY <1>4
  <2>2. PICK c \in cuts : t = c + 1
    BY <1>7, <2>1 DEF Firsts
  <2>3. c >= s /\ c \in Int
    BY <1>1, <1>3, <1>7, <2>1, <2>2
  <2>4. End(s) <= c
    BY <1>5, <2>3
  <2> QED
    BY <1>6, <2>2, <2>3, <2>4
<1>8. ASSUME NEW s \in Firsts, NEW t \in Firsts, s # t PROVE Reads(s) \intersect Reads(t) = {}
  <2>1. s \in Nat /\ t \in Nat /\ End(s) \in Nat /\ End(t) \in Nat
    BY <1>6
  <2>2. s < t \/ t < s
    BY <1>8, <2>1
  <2>3. End(s) < t \/ End(t) < s
    BY <1>7, <2>2
  <2>4. \A i \in OracleLines : i \in Int
    BY <1>2
  <2> QED
    BY <2>1, <2>3, <2>4 DEF Reads
<1>9. ASSUME NEW i \in OracleLines PROVE \E s \in Firsts : i \in Reads(s)
  <2> DEFINE F == {s \in Firsts : s <= i}
  <2>1. F \in SUBSET Int /\ F # {} /\ i \in 1..n
    <3>1. 0 \in F
      BY <1>2 DEF Firsts
    <3> QED
      BY <1>2, <1>4, <3>1
  <2>2. IsFiniteSet(F)
    <3>1. IsFiniteSet(0..n) /\ F \in SUBSET (0..n)
      BY <1>1, <1>4, FS_Interval
    <3> QED
      BY <3>1, FS_Subset
  <2> DEFINE s == Max(F)
  <2>3. s \in F /\ \A t \in F : t <= s
    <3> HIDE DEF F
    <3> QED
      BY <2>1, <2>2, Extremes
  <2> HIDE DEF s
  <2>4. End(s) >= i
    <3> SUFFICES ASSUME End(s) < i PROVE FALSE
      BY <1>6, <2>1, <2>3
    <3>1. End(s) \in cuts /\ End(s) >= s
      BY <1>1, <1>5, <2>1, <2>3
    <3>2. End(s) + 1 \in Firsts
      BY <3>1 DEF Firsts
    <3>3. End(s) + 1 <= i
      BY <1>6, <2>1, <2>3
    <3>4. End(s) + 1 <= s
      BY <2>3, <3>2, <3>3
    <3> QED
      BY <1>6, <2>3, <3>1, <3>4
  <2> QED
    BY <2>3, <2>4 DEF Reads
<1>10. UNION {Reads(s) : s \in Firsts} = OracleLines
  BY <1>9 DEF Reads
<1> QED
  BY <1>1, <1>2, <1>6, <1>8, <1>10 DEF n

\* What a mapper emits of its split.
LEMMA EmittedIs ==
  ASSUME input \in Inputs, cuts \in SUBSET (0..(Len(lines) - 1)), NEW s \in Firsts
  PROVE  \E H \in SUBSET {<<HeaderKey, k>> : k \in HeaderKs} :
           /\ s = 0 => H # {}
           /\ Emitted(s, End(s))
                = H \union {<<k, Assembled(FileRecords, Only(Pairs(FileRecords, Reads(s)), k))>> :
                              k \in KeysIn(Pairs(FileRecords, Reads(s)))}
<1> DEFINE D == Reads(s)
           L == DOMAIN lines
           n == Len(lines)
           e == End(s)
           heads == {i \in s..e : IsHeader(i)}
           H == IF heads = {} THEN {} ELSE {<<HeaderKey, KOf(Min(heads))>>}
           Q == {<<k, Assembled(FileRecords, Only(Pairs(FileRecords, D), k))>> :
                   k \in KeysIn(Pairs(FileRecords, D))}
           records == {i \in (s..e) \ {0} : Parsed(i)}
           acc == Folded([i \in records |-> lines[i].rec])
<1>1. n \in Nat /\ L = 1..n /\ s \in Nat /\ e \in 0..n /\ FileRecords \in [L -> Record]
      /\ OracleLines \in SUBSET L
  BY SplitsAre, InputIs
<1>2. records = D /\ D \in SUBSET L
  <2>1. records \in SUBSET (1..n)
    BY <1>1
  <2>2. D = {i \in OracleLines : s <= i /\ i <= e}
    BY DEF Reads
  <2>3. OracleLines = {i \in 1..n : Parsed(i)}
    BY <1>1 DEF OracleLines, Parsed
  <2> HIDE DEF D, e, n
  <2> QED
    BY <1>1, <2>1, <2>2, <2>3
<1>3. IsFiniteSet(D) /\ RecordsOf(D) = On(FileRecords, D)
  BY <1>2, SplitsAre
<1>4. acc = TableOf(On(FileRecords, D))
  <2>1. [i \in records |-> lines[i].rec] = On(FileRecords, D)
    BY <1>2, <1>3 DEF RecordsOf
  <2>2. \A S \in SUBSET D : S # {} => Max(S) \in S
    <3> SUFFICES ASSUME NEW S \in SUBSET D, S # {} PROVE Max(S) \in S
      OBVIOUS
    <3>1. IsFiniteSet(S) /\ S \in SUBSET Int
      <4>1. IsFiniteSet(S)
        BY <1>3, FS_Subset
      <4>2. D \in SUBSET (1..n)
        BY <1>1, <1>2
      <4> QED
        BY <4>1, <4>2
    <3> QED
      BY <3>1, Extremes
  <2> HIDE DEF D, L
  <2>3. Folded(On(FileRecords, D)) = TableOf(On(FileRecords, D))
    BY <1>1, <1>2, <1>3, <2>2, FoldedIs
  <2> QED
    BY <2>1, <2>3
<1>5. (IF records = {} THEN {} ELSE Pieces(acc)) = Q
  <2> HIDE DEF D, L, records, acc
  <2>1. CASE D = {}
    <3>1. KeysIn(Pairs(FileRecords, D)) = {}
      BY <2>1 DEF KeysIn, Pairs
    <3> QED
      BY <1>2, <2>1, <3>1
  <2>2. CASE D # {}
    <3>1. Pieces(TableOf(On(FileRecords, D))) = Q
      <4>1. FileRecords \in [L -> Record] /\ D \in SUBSET L /\ IsFiniteSet(D)
        BY <1>1, <1>2, <1>3
      <4> HIDE DEF Q
      <4>2. Pieces(TableOf(On(FileRecords, D)))
              = {<<k, Assembled(FileRecords, Only(Pairs(FileRecords, D), k))>> :
                   k \in KeysIn(Pairs(FileRecords, D))}
        BY <2>2, <4>1, PiecesAre
      <4> QED
        BY <4>2 DEF Q
    <3> QED
      BY <1>2, <1>4, <2>2, <3>1
  <2> QED
    BY <2>1, <2>2
<1>6. Emitted(s, e) = H \union Q
  <2> HIDE DEF Q
  <2> QED
    BY <1>5 DEF Emitted
<1>7. heads # {} => KOf(Min(heads)) \in HeaderKs
  <2> SUFFICES ASSUME heads # {} PROVE KOf(Min(heads)) \in HeaderKs
    OBVIOUS
  <2> DEFINE h == Min(heads)
  <2>1. h \in heads
    <3>1. heads \in SUBSET Int /\ IsFiniteSet(heads)
      <4>1. IsFiniteSet(s..e) /\ heads \in SUBSET (s..e)
        BY <1>1, FS_Interval
      <4> QED
        BY <1>1, <4>1, FS_Subset
    <3> HIDE DEF heads
    <3> QED
      BY <3>1, Extremes
  <2> HIDE DEF h
  <2>2. h = 0 \/ (h \in L /\ lines[h].fields \in 3..6)
    BY <1>1, <2>1 DEF IsHeader
  <2>3. KOf(h) \in HeaderKs
    BY <2>2 DEF KOf, HeaderKs
  <2> QED
    BY <2>3 DEF h
<1>8. s = 0 => heads # {}
  <2> SUFFICES ASSUME s = 0 PROVE 0 \in heads
    OBVIOUS
  <2> QED
    BY <1>1 DEF IsHeader
<1>9. H \in SUBSET {<<HeaderKey, k>> : k \in HeaderKs} /\ (s = 0 => H # {})
  <2> HIDE DEF heads
  <2> QED
    BY <1>7, <1>8
<1> HIDE DEF H
<1> QED
  BY <1>6, <1>9

\* A header's line stands for no record.
LEMMA NoHeaderPairs ==
  /\ \A D : Only(Pairs(FileRecords, D), HeaderKey) = {} /\ HeaderKey \notin KeysIn(Pairs(FileRecords, D))
  /\ \A x : x.key = HeaderKey => Bears(x) = {}
<1>1. HeaderKey \notin Key
  BY DEF HeaderKey, Key
<1>2. \A D : \A q \in Pairs(FileRecords, D) : q[1] \in Key
  BY DEF Pairs
<1>3. \A D : Only(Pairs(FileRecords, D), HeaderKey) = {} /\ HeaderKey \notin KeysIn(Pairs(FileRecords, D))
  BY <1>1, <1>2 DEF Only, KeysIn
<1>4. \A x : x.key = HeaderKey => Bears(x) = {}
  BY <1>3 DEF Bears, AllPairs
<1> QED
  BY <1>3, <1>4

\* The pairs of the file are those of its splits, which share none.
LEMMA FilePairs ==
  ASSUME BatchTypeOK
  PROVE  /\ FileRecords \in [DOMAIN lines -> Record] /\ IsFiniteSet(DOMAIN lines)
         /\ AllPairs \in SUBSET Pairs(FileRecords, DOMAIN lines)
         /\ \A x : Bears(x) \in SUBSET AllPairs
         /\ Waiting \in SUBSET AllPairs
         /\ AllPairs = UNION {Pairs(FileRecords, Reads(s)) : s \in Firsts}
         /\ \A s, t \in Firsts :
              s # t => Pairs(FileRecords, Reads(s)) \intersect Pairs(FileRecords, Reads(t)) = {}
<1>1. /\ OracleLines \in SUBSET DOMAIN lines /\ IsFiniteSet(DOMAIN lines)
      /\ FileRecords \in [DOMAIN lines -> Record]
      /\ \A s, t \in Firsts : s # t => Reads(s) \intersect Reads(t) = {}
      /\ UNION {Reads(s) : s \in Firsts} = OracleLines
  BY SplitsAre DEF BatchTypeOK
<1>2. \A s : Reads(s) \in SUBSET OracleLines
  BY DEF Reads
<1>3. AllPairs \in SUBSET Pairs(FileRecords, DOMAIN lines)
  BY <1>1 DEF AllPairs, Pairs
<1>4. \A s : Pairs(FileRecords, Reads(s)) \in SUBSET AllPairs
  BY <1>2 DEF AllPairs, Pairs
<1>5. \A x : Bears(x) \in SUBSET AllPairs
  BY <1>4 DEF Bears, Only
<1>6. Waiting \in SUBSET AllPairs
  BY <1>5 DEF Waiting
<1>7. AllPairs = UNION {Pairs(FileRecords, Reads(s)) : s \in Firsts}
  <2>1. ASSUME NEW q \in AllPairs PROVE \E s \in Firsts : q \in Pairs(FileRecords, Reads(s))
    <3>1. q[2] \in OracleLines /\ q = <<q[1], q[2]>> /\ q[1] \in Key /\ q[1] \in KeysOf(FileRecords[q[2]])
      BY <2>1 DEF AllPairs, Pairs
    <3>2. PICK s \in Firsts : q[2] \in Reads(s)
      BY <1>1, <3>1
    <3> QED
      BY <3>1, <3>2 DEF Pairs
  <2> QED
    BY <1>4, <2>1
<1>8. ASSUME NEW s \in Firsts, NEW t \in Firsts, s # t
      PROVE  Pairs(FileRecords, Reads(s)) \intersect Pairs(FileRecords, Reads(t)) = {}
  <2>1. Reads(s) \intersect Reads(t) = {}
    BY <1>1, <1>8
  <2> QED
    BY <2>1 DEF Pairs
<1> QED
  BY <1>1, <1>3, <1>5, <1>6, <1>7, <1>8

\* No pair waits twice.
LEMMA BearApart ==
  ASSUME BatchTypeOK, Carried, NEW x \in flow, NEW y \in flow, x # y
  PROVE  Bears(x) \intersect Bears(y) = {}
<1>1. CASE x.key = HeaderKey \/ y.key = HeaderKey
  BY <1>1, NoHeaderPairs
<1>2. CASE x.key # y.key
  BY <1>2 DEF Bears, Only
<1>3. CASE x.key = y.key /\ x.key # HeaderKey
  <2>1. /\ x = [from |-> x.from, key |-> x.key, value |-> x.value]
        /\ y = [from |-> y.from, key |-> y.key, value |-> y.value]
        /\ x.value = Assembled(FileRecords, Bears(x)) /\ y.value = Assembled(FileRecords, Bears(y))
        /\ Second => x.from = 0 /\ y.from = 0
        /\ ~Second => x.from \in Firsts /\ y.from \in Firsts
    BY <1>3 DEF Carried
  <2>2. x.from # y.from
    <3> SUFFICES ASSUME x.from = y.from PROVE FALSE
      OBVIOUS
    <3>1. Bears(x) = Bears(y)
      BY <1>3 DEF Bears
    <3> QED
      BY <1>3, <2>1, <3>1
  <2>3. ~Second
    BY <2>1, <2>2
  <2>4. Pairs(FileRecords, Reads(x.from)) \intersect Pairs(FileRecords, Reads(y.from)) = {}
    BY <2>1, <2>2, <2>3, FilePairs
  <2> QED
    BY <2>3, <2>4 DEF Bears, Only
<1> QED
  BY <1>1, <1>2, <1>3

\* When a line is taken, what it stands for goes from what waits.
LEMMA TakenFrom ==
  ASSUME BatchTypeOK, Carried, NEW x \in flow
  PROVE  /\ UNION {Bears(y) : y \in flow \ {x}} = Waiting \ Bears(x)
         /\ Bears(x) \in SUBSET Waiting
<1>1. \A y \in flow \ {x} : Bears(x) \intersect Bears(y) = {}
  BY BearApart
<1> QED
  BY <1>1 DEF Waiting

\* What depends on the file and its cuts only.
LEMMA FileKept ==
  ASSUME input' = input
  PROVE  /\ lines' = lines /\ FileRecords' = FileRecords /\ OracleLines' = OracleLines
         /\ AllPairs' = AllPairs /\ HeaderKs' = HeaderKs /\ AllRecords' = AllRecords
<1>1. lines' = lines
  BY DEF lines
<1>2. FileRecords' = FileRecords
  BY <1>1 DEF FileRecords, RecordsOf
<1>3. OracleLines' = OracleLines
  BY <1>1 DEF OracleLines
<1>4. AllPairs' = AllPairs
  BY <1>2, <1>3 DEF AllPairs
<1>5. HeaderKs' = HeaderKs
  BY <1>1 DEF HeaderKs
<1>6. AllRecords' = AllRecords
  BY <1>1, <1>3 DEF AllRecords, RecordsOf
<1> QED
  BY <1>1, <1>2, <1>3, <1>4, <1>5, <1>6

\* So do the splits, and what waits but for the stage.
LEMMA CutsKept ==
  ASSUME input' = input, cuts' = cuts
  PROVE  /\ Firsts' = Firsts /\ \A s : Reads(s)' = Reads(s)
         /\ (Second' <=> Second) => \A x : Bears(x)' = Bears(x)
<1>1. lines' = lines /\ FileRecords' = FileRecords /\ OracleLines' = OracleLines
      /\ AllPairs' = AllPairs
  BY FileKept
<1>2. \A s : Reads(s)' = Reads(s)
  BY <1>1 DEF Reads, End
<1>3. (Second' <=> Second) => \A x : Bears(x)' = Bears(x)
  BY <1>1, <1>2 DEF Bears
<1>4. Firsts' = Firsts
  BY DEF Firsts
<1> QED
  BY <1>2, <1>3, <1>4

-----------------------------------------------------------------------------
(***************************************************************************)
(* The steps of the batch pipeline.                                        *)
(***************************************************************************)
LEMMA BatchStart ==
  ASSUME input \in Inputs, BatchInit
  PROVE  BatchInv
<1>1. BatchTypeOK
  BY DEF BatchInit, BatchTypeOK, Firsts
<1>2. Carried /\ Merging /\ HeaderKept /\ BatchExact
  BY DEF BatchInit, Carried, Merging, HeaderKept, BatchExact
<1> QED
  BY <1>1, <1>2 DEF BatchInv

\* All splits are still to be mapped.
LEMMA SubmitStep ==
  ASSUME BatchInv, Submit
  PROVE  BatchInv'
<1>1. /\ input' = input /\ flow = {} /\ flow' = {} /\ table' = NoTable /\ total' = Empty /\ topk' = <<>>
      /\ job' = "map" /\ printed' = <<>> /\ lines' = lines /\ unmapped' = Firsts'
  BY DEF BatchInv, Merging, HeaderKept, Submit, lines, Firsts
<1>2. BatchTypeOK'
  BY <1>1 DEF BatchInv, BatchTypeOK, Submit
<1>3. Carried'
  BY <1>1 DEF Carried
<1>4. Merging'
  <2>1. Waiting' = {} /\ UNION {Pairs(FileRecords', Reads(s)') : s \in Firsts' \ unmapped'} = {}
    BY <1>1 DEF Waiting
  <2> QED
    BY <1>1, <2>1 DEF Merging
<1>5. HeaderKept'
  BY <1>1 DEF HeaderKept, Firsts
<1>6. BatchExact'
  BY <1>1 DEF BatchExact
<1> QED
  BY <1>2, <1>3, <1>4, <1>5, <1>6 DEF BatchInv

\* A split is mapped: its pairs wait.
LEMMA MapStep ==
  ASSUME BatchInv, NEW s \in unmapped, Map(s)
  PROVE  BatchInv'
<1> DEFINE P == Pairs(FileRecords, Reads(s))
           N == {[from |-> s, key |-> x[1], value |-> x[2]] : x \in Emitted(s, End(s))}
<1>1. /\ input' = input /\ cuts' = cuts /\ stages' = stages /\ table' = table /\ total' = total
      /\ topk' = topk /\ printed' = printed /\ job = "map" /\ unmapped' = unmapped \ {s}
      /\ job' = IF unmapped' # {} THEN "map" ELSE IF stages = 2 THEN "reduce" ELSE "final"
      /\ flow' = flow \union N
  BY DEF Map, End
<1> HIDE DEF N, P
<1>2. /\ s \in Firsts /\ stages \in {1, 2} /\ ~Second /\ ~Second' /\ table = NoTable /\ total = Empty
      /\ topk = <<>> /\ printed = <<>>
      /\ Waiting = UNION {Pairs(FileRecords, Reads(t)) : t \in Firsts \ unmapped}
  BY <1>1 DEF BatchInv, BatchTypeOK, Merging, HeaderKept, Second
<1>3. /\ lines' = lines /\ FileRecords' = FileRecords /\ AllPairs' = AllPairs /\ HeaderKs' = HeaderKs
      /\ Firsts' = Firsts /\ (\A t : Reads(t)' = Reads(t)) /\ \A x : Bears(x)' = Bears(x)
  BY <1>1, <1>2, FileKept, CutsKept
<1>4. PICK H \in SUBSET {<<HeaderKey, k>> : k \in HeaderKs} :
        /\ s = 0 => H # {}
        /\ Emitted(s, End(s))
             = H \union {<<k, Assembled(FileRecords, Only(P, k))>> : k \in KeysIn(P)}
  BY <1>2, EmittedIs DEF BatchInv, BatchTypeOK, P
<1>5. \A x \in N :
        /\ x = [from |-> x.from, key |-> x.key, value |-> x.value] /\ x.from = s
        /\ \/ x.key = HeaderKey /\ x.value \in HeaderKs
           \/ x.key \in KeysIn(P) /\ x.value = Assembled(FileRecords, Only(P, x.key))
  BY <1>4 DEF N
<1>6. /\ \A k \in KeysIn(P) : \E x \in N : x.key = k
      /\ s = 0 => \E x \in N : x.key = HeaderKey
  <2>1. \A k \in KeysIn(P) : \E x \in N : x.key = k
    <3> SUFFICES ASSUME NEW k \in KeysIn(P) PROVE \E x \in N : x.key = k
      OBVIOUS
    <3> DEFINE v == Assembled(FileRecords, Only(P, k))
    <3>1. <<k, v>> \in Emitted(s, End(s))
      BY <1>4
    <3> HIDE DEF v
    <3>2. [from |-> s, key |-> k, value |-> v] \in N
      BY <3>1 DEF N
    <3> QED
      BY <3>2
  <2>2. ASSUME s = 0 PROVE \E x \in N : x.key = HeaderKey
    <3>1. PICK k \in HeaderKs : <<HeaderKey, k>> \in Emitted(s, End(s))
      BY <1>4, <2>2
    <3>2. [from |-> s, key |-> HeaderKey, value |-> k] \in N
      BY <3>1 DEF N
    <3> QED
      BY <3>2
  <2> QED
    BY <2>1, <2>2
<1>7. /\ \A k \in KeysIn(P) : Only(P, k) # {} /\ k # HeaderKey
      /\ \A q \in P : q[1] \in KeysIn(P) /\ q \in Only(P, q[1])
      /\ \A k : Only(P, k) \in SUBSET P
  BY NoHeaderPairs DEF KeysIn, Only, P
<1>8. \A x \in N : Bears(x) = Only(P, x.key)
  BY <1>2, <1>5 DEF Bears, P
<1>9. BatchTypeOK'
  BY <1>1, <1>2, <1>3 DEF BatchInv, BatchTypeOK
<1>10. Carried'
  <2> SUFFICES ASSUME NEW x \in flow'
               PROVE  /\ x = [from |-> x.from, key |-> x.key, value |-> x.value]
                      /\ IF x.key = HeaderKey THEN x.value \in HeaderKs
                         ELSE x.value = Assembled(FileRecords, Bears(x)) /\ Bears(x) # {}
                      /\ x.from \in Firsts \ unmapped'
    BY <1>2, <1>3 DEF Carried
  <2>1. CASE x \in flow
    BY <1>1, <1>2, <2>1 DEF BatchInv, Carried
  <2>2. CASE x \in N
    BY <1>1, <1>2, <1>5, <1>7, <1>8, <2>2
  <2> QED
    BY <1>1, <2>1, <2>2
<1>11. Waiting' = UNION {Pairs(FileRecords, Reads(t)) : t \in Firsts \ unmapped'}
  <2>1. Waiting' = UNION {Bears(x) : x \in flow'}
    BY <1>3 DEF Waiting
  <2>2. UNION {Bears(x) : x \in N} = P
    <3>1. \A x \in N : Bears(x) \in SUBSET P
      BY <1>7, <1>8
    <3>2. ASSUME NEW q \in P PROVE \E x \in N : q \in Bears(x)
      BY <1>6, <1>7, <1>8
    <3> QED
      BY <3>1, <3>2
  <2>3. UNION {Bears(x) : x \in flow'} = Waiting \union P
    BY <1>1, <2>2 DEF Waiting
  <2>4. Firsts \ unmapped' = (Firsts \ unmapped) \union {s}
    BY <1>1, <1>2
  <2> QED
    BY <1>2, <2>1, <2>3, <2>4 DEF P
<1>12. unmapped' = {} => Gone' = {}
  <2>1. AllPairs = UNION {Pairs(FileRecords, Reads(t)) : t \in Firsts}
    BY FilePairs DEF BatchInv
  <2> QED
    BY <1>3, <1>11, <2>1 DEF Gone
<1>13. Assembled(FileRecords, {}) = Empty
  BY AssembleNone, FilePairs DEF BatchInv
<1>14. Merging'
  <2>1. job' = "map" => Waiting' = UNION {Pairs(FileRecords', Reads(t)') : t \in Firsts' \ unmapped'}
    BY <1>3, <1>11
  <2>2. /\ job' \in {"map", "reduce", "final"} /\ (job' # "map" => unmapped' = {})
        /\ table' = NoTable /\ total' = Empty /\ topk' = <<>>
    BY <1>1, <1>2
  <2>3. job' = "reduce" =>
          /\ DOMAIN table' \ {HeaderKey} = KeysIn(Gone')
          /\ \A k \in KeysIn(Gone') : table'[k] = Assembled(FileRecords', Only(Gone', k))
          /\ HeaderKey \in DOMAIN table' => table'[HeaderKey] \in HeaderKs'
    BY <1>12, <2>2 DEF KeysIn, NoTable
  <2>4. job' = "final" => total' = Assembled(FileRecords', Gone')
    BY <1>3, <1>12, <1>13, <2>2
  <2> QED
    BY <2>1, <2>2, <2>3, <2>4 DEF Merging
<1>15. HeaderKept'
  <2>1. 0 \in unmapped' \/ \E x \in flow' : x.key = HeaderKey
    BY <1>1, <1>2, <1>6 DEF BatchInv, HeaderKept
  <2> QED
    BY <1>1, <1>2, <2>1 DEF HeaderKept
<1>16. BatchExact'
  BY <1>1, <1>2 DEF BatchExact
<1> QED
  BY <1>9, <1>10, <1>14, <1>15, <1>16 DEF BatchInv

\* A line has gone to a reducer: the rest is as it was.
LEMMA LineTaken ==
  ASSUME BatchInv, NEW x \in flow, flow' = flow \ {x}, input' = input, cuts' = cuts,
         stages' = stages, unmapped' = unmapped, job' = job
  PROVE  /\ BatchTypeOK' /\ Carried'
         /\ FileRecords' = FileRecords /\ HeaderKs' = HeaderKs
         /\ Gone' = Gone \union Bears(x) /\ Gone \intersect Bears(x) = {}
         /\ Gone \in SUBSET Pairs(FileRecords, DOMAIN lines)
         /\ Bears(x) \in SUBSET Pairs(FileRecords, DOMAIN lines)
         /\ FileRecords \in [DOMAIN lines -> Record] /\ IsFiniteSet(DOMAIN lines)
         /\ x.key = HeaderKey => x.value \in HeaderKs /\ Bears(x) = {}
         /\ x.key # HeaderKey => x.value = Assembled(FileRecords, Bears(x)) /\ Bears(x) # {}
<1>1. /\ lines' = lines /\ FileRecords' = FileRecords /\ AllPairs' = AllPairs /\ HeaderKs' = HeaderKs
      /\ Firsts' = Firsts
  BY FileKept, CutsKept
<1>2. (Second' <=> Second) /\ \A y : Bears(y)' = Bears(y)
  <2>1. Second' <=> Second
    BY DEF Second
  <2> QED
    BY <2>1, CutsKept
<1>3. BatchTypeOK'
  BY <1>1 DEF BatchInv, BatchTypeOK
<1>4. Carried'
  <2> SUFFICES ASSUME NEW y \in flow'
               PROVE  /\ y = [from |-> y.from, key |-> y.key, value |-> y.value]
                      /\ IF y.key = HeaderKey THEN y.value \in HeaderKs
                         ELSE y.value = Assembled(FileRecords, Bears(y)) /\ Bears(y) # {}
                      /\ IF Second THEN y.from = 0 ELSE y.from \in Firsts \ unmapped
    BY <1>1, <1>2 DEF Carried
  <2>1. y \in flow
    OBVIOUS
  <2> QED
    BY <2>1 DEF BatchInv, Carried
<1>5. Waiting' = Waiting \ Bears(x) /\ Bears(x) \in SUBSET Waiting
  <2>1. Waiting' = UNION {Bears(y) : y \in flow \ {x}}
    BY <1>2 DEF Waiting
  <2> QED
    BY <2>1, TakenFrom DEF BatchInv
<1>6. /\ FileRecords \in [DOMAIN lines -> Record] /\ IsFiniteSet(DOMAIN lines)
      /\ AllPairs \in SUBSET Pairs(FileRecords, DOMAIN lines) /\ Waiting \in SUBSET AllPairs
  BY FilePairs DEF BatchInv
<1>7. Gone' = Gone \union Bears(x) /\ Gone \intersect Bears(x) = {}
  BY <1>1, <1>5, <1>6 DEF Gone
<1>8. /\ x.key = HeaderKey => x.value \in HeaderKs /\ Bears(x) = {}
      /\ x.key # HeaderKey => x.value = Assembled(FileRecords, Bears(x)) /\ Bears(x) # {}
  BY NoHeaderPairs DEF BatchInv, Carried
<1> QED
  BY <1>1, <1>3, <1>4, <1>5, <1>6, <1>7, <1>8 DEF Gone

\* The row of a key in the reducers' table.
LEMMA RowAdded ==
  ASSUME BatchInv, NEW x \in flow, Reduce(x)
  PROVE  /\ DOMAIN table' = DOMAIN table \union {x.key}
         /\ \A k \in DOMAIN table \ {x.key} : table'[k] = table[k]
         /\ table'[x.key] = IF x.key \in DOMAIN table THEN Merged(x.key, table[x.key], x.value)
                            ELSE x.value
BY DEF Reduce, AddRow

\* A line is merged into the row of its key.
LEMMA ReduceStep ==
  ASSUME BatchInv, NEW x \in flow, Reduce(x)
  PROVE  BatchInv'
<1> DEFINE k == x.key
           B == Bears(x)
<1>1. /\ flow' = flow \ {x} /\ input' = input /\ cuts' = cuts /\ stages' = stages
      /\ unmapped' = unmapped /\ job' = job /\ job = "reduce"
      /\ total' = total /\ topk' = topk /\ printed' = printed
  BY DEF Reduce, Taken, AddRow
<1>2. /\ BatchTypeOK' /\ Carried'
      /\ FileRecords' = FileRecords /\ HeaderKs' = HeaderKs
      /\ Gone' = Gone \union B /\ Gone \intersect B = {}
      /\ Gone \in SUBSET Pairs(FileRecords, DOMAIN lines)
      /\ B \in SUBSET Pairs(FileRecords, DOMAIN lines)
      /\ FileRecords \in [DOMAIN lines -> Record] /\ IsFiniteSet(DOMAIN lines)
      /\ k = HeaderKey => x.value \in HeaderKs /\ B = {}
      /\ k # HeaderKey => x.value = Assembled(FileRecords, B) /\ B # {}
  BY <1>1, LineTaken
<1>3. /\ DOMAIN table' = DOMAIN table \union {k}
      /\ \A j \in DOMAIN table \ {k} : table'[j] = table[j]
      /\ table'[k] = IF k \in DOMAIN table THEN Merged(k, table[k], x.value) ELSE x.value
  BY RowAdded
<1>4. /\ total = Empty /\ topk = <<>> /\ printed = <<>>
      /\ DOMAIN table \ {HeaderKey} = KeysIn(Gone)
      /\ \A j \in KeysIn(Gone) : table[j] = Assembled(FileRecords, Only(Gone, j))
      /\ HeaderKey \in DOMAIN table => table[HeaderKey] \in HeaderKs
  BY <1>1 DEF BatchInv, Merging, HeaderKept
<1>5. \A q \in B : q[1] = k
  BY DEF Bears, Only
<1> HIDE DEF k, B
<1>6. /\ DOMAIN table' \ {HeaderKey} = KeysIn(Gone')
      /\ \A j \in KeysIn(Gone') : table'[j] = Assembled(FileRecords, Only(Gone', j))
      /\ HeaderKey \in DOMAIN table' => table'[HeaderKey] \in HeaderKs
  <2>1. CASE k = HeaderKey
    <3>1. Gone' = Gone
      BY <1>2, <2>1
    <3>2. table'[k] \in HeaderKs
      BY <1>2, <1>3, <1>4, <2>1 DEF Merged
    <3> QED
      BY <1>3, <1>4, <2>1, <3>1, <3>2
  <2>2. CASE k # HeaderKey
    <3>1. KeysIn(Gone') = KeysIn(Gone) \union {k}
      BY <1>2, <1>5, <2>2 DEF KeysIn
    <3>2. ASSUME NEW j \in KeysIn(Gone), j # k PROVE table'[j] = Assembled(FileRecords, Only(Gone', j))
      <4>1. Only(Gone', j) = Only(Gone, j)
        BY <1>2, <1>5, <3>2 DEF Only
      <4> QED
        BY <1>3, <1>4, <3>2, <4>1
    <3>3. table'[k] = Assembled(FileRecords, Only(Gone', k))
      <4>1. Only(Gone', k) = Only(Gone, k) \union B
        BY <1>2, <1>5 DEF Only
      <4>2. CASE k \in DOMAIN table
        <5>1. table'[k] = Merge(Assembled(FileRecords, Only(Gone, k)), Assembled(FileRecords, B))
          BY <1>2, <1>3, <1>4, <2>2, <4>2 DEF Merged
        <5>2. Only(Gone, k) \in SUBSET Pairs(FileRecords, DOMAIN lines) /\ Only(Gone, k) \intersect B = {}
          BY <1>2 DEF Only
        <5>3. Merge(Assembled(FileRecords, Only(Gone, k)), Assembled(FileRecords, B))
                = Assembled(FileRecords, Only(Gone, k) \union B)
          BY <1>2, <5>2, AssembleUnion
        <5> QED
          BY <4>1, <5>1, <5>3
      <4>3. CASE k \notin DOMAIN table
        <5>1. Only(Gone, k) = {}
          BY <1>4, <2>2, <4>3 DEF KeysIn, Only
        <5> QED
          BY <1>2, <1>3, <2>2, <4>1, <4>3, <5>1
      <4> QED
        BY <4>2, <4>3
    <3>4. DOMAIN table' \ {HeaderKey} = KeysIn(Gone')
      BY <1>3, <1>4, <2>2, <3>1
    <3>5. HeaderKey \in DOMAIN table' => table'[HeaderKey] \in HeaderKs
      BY <1>3, <1>4, <2>2
    <3> QED
      BY <3>1, <3>2, <3>3, <3>4, <3>5
  <2> QED
    BY <2>1, <2>2
<1>7. Merging'
  BY <1>1, <1>2, <1>4, <1>6 DEF Merging
<1>8. HeaderKept'
  <2>1. \/ 0 \in unmapped \/ \E y \in flow : y.key = HeaderKey
        \/ HeaderKey \in DOMAIN table
    BY <1>1, <1>4 DEF BatchInv, HeaderKept
  <2>2. 0 \in unmapped' \/ (\E y \in flow' : y.key = HeaderKey) \/ HeaderKey \in DOMAIN table'
    BY <1>1, <1>3, <2>1 DEF k
  <2> QED
    BY <1>1, <1>4, <2>2 DEF HeaderKept
<1>9. BatchExact'
  BY <1>1, <1>4 DEF BatchExact
<1> QED
  BY <1>2, <1>7, <1>8, <1>9 DEF BatchInv

\* The second job begins with all there is, once.
LEMMA Stage2Step ==
  ASSUME BatchInv, Stage2
  PROVE  BatchInv'
<1>1. /\ input' = input /\ cuts' = cuts /\ stages' = stages /\ unmapped' = unmapped
      /\ job = "reduce" /\ job' = "final" /\ flow = {}
      /\ flow' = {[from |-> 0, key |-> k, value |-> table[k]] : k \in DOMAIN table}
      /\ total' = total /\ topk' = topk /\ printed' = printed
  BY DEF Stage2
<1>2. lines' = lines /\ FileRecords' = FileRecords /\ AllPairs' = AllPairs /\ HeaderKs' = HeaderKs
      /\ Firsts' = Firsts
  BY <1>1, FileKept, CutsKept
<1>3. Gone = AllPairs
  BY <1>1 DEF Gone, Waiting
<1>4. /\ total = Empty /\ topk = <<>> /\ printed = <<>> /\ stages = 2
      /\ DOMAIN table \ {HeaderKey} = KeysIn(AllPairs)
      /\ \A k \in KeysIn(AllPairs) : table[k] = Assembled(FileRecords, Only(AllPairs, k))
      /\ HeaderKey \in DOMAIN table => table[HeaderKey] \in HeaderKs
  BY <1>1, <1>3 DEF BatchInv, BatchTypeOK, Merging, HeaderKept
<1>5. Second' /\ \A x : Bears(x)' = Only(AllPairs, x.key)
  <2>1. Second'
    BY <1>1, <1>4 DEF Second
  <2> QED
    BY <1>2, <2>1 DEF Bears
<1>6. BatchTypeOK'
  BY <1>1, <1>2, <1>4 DEF BatchInv, BatchTypeOK
<1>7. Carried'
  <2> SUFFICES ASSUME NEW x \in flow'
               PROVE  /\ x = [from |-> x.from, key |-> x.key, value |-> x.value]
                      /\ IF x.key = HeaderKey THEN x.value \in HeaderKs
                         ELSE /\ x.value = Assembled(FileRecords, Only(AllPairs, x.key))
                              /\ Only(AllPairs, x.key) # {}
                      /\ x.from = 0
    BY <1>2, <1>5 DEF Carried
  <2>1. PICK k \in DOMAIN table : x = [from |-> 0, key |-> k, value |-> table[k]]
    BY <1>1
  <2>2. x.key = k /\ x.from = 0 /\ x.value = table[k]
        /\ x = [from |-> x.from, key |-> x.key, value |-> x.value]
    BY <2>1
  <2>3. CASE k = HeaderKey
    BY <1>4, <2>2, <2>3
  <2>4. CASE k # HeaderKey
    <3>1. k \in KeysIn(AllPairs)
      BY <1>4, <2>4
    <3>2. Only(AllPairs, k) # {}
      BY <3>1 DEF KeysIn, Only
    <3> QED
      BY <1>4, <2>2, <2>4, <3>1, <3>2
  <2> QED
    BY <2>3, <2>4
<1>8. Gone' = {}
  <2>1. ASSUME NEW q \in AllPairs PROVE \E x \in flow' : q \in Only(AllPairs, x.key)
    <3>1. q[1] \in DOMAIN table /\ q \in Only(AllPairs, q[1])
      BY <1>4 DEF KeysIn, Only
    <3> DEFINE v == table[q[1]]
               x == [from |-> 0, key |-> q[1], value |-> v]
    <3>2. x \in flow'
      BY <1>1, <3>1
    <3>3. x.key = q[1]
      OBVIOUS
    <3> HIDE DEF x
    <3> QED
      BY <3>1, <3>2, <3>3
  <2>2. AllPairs \subseteq Waiting'
    BY <1>5, <2>1 DEF Waiting
  <2> QED
    BY <1>2, <2>2 DEF Gone
<1>9. Merging'
  <2>1. total' = Assembled(FileRecords', Gone')
    BY <1>1, <1>2, <1>4, <1>8, AssembleNone, FilePairs DEF BatchInv
  <2> QED
    BY <1>1, <2>1 DEF Merging
<1>10. HeaderKept'
  <2>1. HeaderKey \in DOMAIN table => \E x \in flow' : x.key = HeaderKey
    <3> SUFFICES ASSUME HeaderKey \in DOMAIN table PROVE \E x \in flow' : x.key = HeaderKey
      OBVIOUS
    <3> DEFINE v == table[HeaderKey]
               x == [from |-> 0, key |-> HeaderKey, value |-> v]
    <3>1. x \in flow' /\ x.key = HeaderKey
      BY <1>1
    <3> QED
      BY <3>1
  <2>2. unmapped = {} /\ HeaderKey \in DOMAIN table
    BY <1>1, <1>4 DEF BatchInv, BatchTypeOK, HeaderKept
  <2> QED
    BY <1>1, <1>4, <2>1, <2>2 DEF HeaderKept
<1>11. BatchExact'
  BY <1>1, <1>4 DEF BatchExact
<1> QED
  BY <1>6, <1>7, <1>9, <1>10, <1>11 DEF BatchInv

\* A partial is merged into the whole.
LEMMA FinalStep ==
  ASSUME BatchInv, NEW x \in flow, Final(x)
  PROVE  BatchInv'
<1> DEFINE B == Bears(x)
<1>1. /\ flow' = flow \ {x} /\ input' = input /\ cuts' = cuts /\ stages' = stages
      /\ unmapped' = unmapped /\ job' = job /\ job = "final"
      /\ printed' = printed
      /\ IF x.key = HeaderKey
         THEN topk' = (IF topk = <<>> THEN <<x.value>> ELSE topk) /\ total' = total
         ELSE total' = Merge(total, x.value) /\ topk' = topk
  BY DEF Final, Taken
<1>2. /\ BatchTypeOK' /\ Carried'
      /\ FileRecords' = FileRecords /\ HeaderKs' = HeaderKs
      /\ Gone' = Gone \union B /\ Gone \intersect B = {}
      /\ Gone \in SUBSET Pairs(FileRecords, DOMAIN lines)
      /\ B \in SUBSET Pairs(FileRecords, DOMAIN lines)
      /\ FileRecords \in [DOMAIN lines -> Record] /\ IsFiniteSet(DOMAIN lines)
      /\ x.key = HeaderKey => x.value \in HeaderKs /\ B = {}
      /\ x.key # HeaderKey => x.value = Assembled(FileRecords, B)
  BY <1>1, LineTaken
<1>3. /\ printed = <<>> /\ total = Assembled(FileRecords, Gone)
      /\ topk = <<>> \/ \E k \in HeaderKs : topk = <<k>>
      /\ 0 \in unmapped \/ topk # <<>> \/ \E y \in flow : y.key = HeaderKey
  BY <1>1 DEF BatchInv, Merging, HeaderKept
<1> HIDE DEF B
<1>4. total' = Assembled(FileRecords, Gone')
  <2>1. CASE x.key = HeaderKey
    <3>1. Gone' = Gone
      BY <1>2, <2>1
    <3> QED
      BY <1>1, <1>3, <2>1, <3>1
  <2>2. CASE x.key # HeaderKey
    <3>1. Merge(Assembled(FileRecords, Gone), Assembled(FileRecords, B))
            = Assembled(FileRecords, Gone \union B)
      BY <1>2, AssembleUnion
    <3> QED
      BY <1>1, <1>2, <1>3, <2>2, <3>1
  <2> QED
    BY <2>1, <2>2
<1>5. Merging'
  BY <1>1, <1>2, <1>4 DEF Merging
<1>6. /\ topk' = <<>> \/ \E k \in HeaderKs : topk' = <<k>>
      /\ 0 \in unmapped \/ topk' # <<>> \/ \E y \in flow' : y.key = HeaderKey
  <2>1. CASE x.key = HeaderKey
    BY <1>1, <1>2, <1>3, <2>1
  <2>2. CASE x.key # HeaderKey
    BY <1>1, <1>3, <2>2
  <2> QED
    BY <2>1, <2>2
<1>7. HeaderKept'
  BY <1>1, <1>2, <1>3, <1>6 DEF HeaderKept
<1>8. BatchExact'
  BY <1>1, <1>3 DEF BatchExact
<1> QED
  BY <1>2, <1>5, <1>7, <1>8 DEF BatchInv

\* All pairs are merged: the report is that of the file.
LEMMA WriteStep ==
  ASSUME BatchInv, WriteReport
  PROVE  BatchInv'
<1>1. /\ input' = input /\ cuts' = cuts /\ stages' = stages /\ unmapped' = unmapped
      /\ job = "final" /\ job' = "done" /\ flow = {} /\ flow' = {} /\ topk' = topk
  BY DEF WriteReport
<1>2. PICK order \in SetToSeqs(DOMAIN total.intervals) :
        printed' = <<Fill(total, IF topk = <<>> THEN 0 ELSE topk[1], order)>>
  BY DEF WriteReport
<1>3. /\ AllPairs = Gone /\ total = Assembled(FileRecords, Gone)
      /\ \E k \in HeaderKs : topk = <<k>>
  <2>1. unmapped = {}
    BY <1>1 DEF BatchInv, BatchTypeOK
  <2>2. \E k \in HeaderKs : topk = <<k>>
    BY <1>1, <2>1 DEF BatchInv, HeaderKept
  <2>3. AllPairs = Gone
    BY <1>1 DEF Gone, Waiting
  <2> QED
    BY <1>1, <2>2, <2>3 DEF BatchInv, Merging
<1>4. PICK k \in HeaderKs : topk = <<k>>
  BY <1>3
<1>5. /\ OracleLines \in SUBSET DOMAIN lines /\ FileRecords \in [DOMAIN lines -> Record]
      /\ IsFiniteSet(OracleLines) /\ AllRecords = On(FileRecords, OracleLines)
  BY SplitsAre DEF BatchInv, BatchTypeOK, AllRecords
<1>6. total = TableOf(On(FileRecords, OracleLines))
  <2>1. Assembled(FileRecords, Pairs(FileRecords, OracleLines)) = TableOf(On(FileRecords, OracleLines))
    BY <1>5, AssembleAll
  <2> QED
    BY <1>3, <2>1 DEF AllPairs
<1>7. Fill(total, k, order) = Oracle(AllRecords, k)
  <2>1. order \in SetToSeqs(DOMAIN TableOf(On(FileRecords, OracleLines)).intervals)
    BY <1>2, <1>6
  <2>2. Fill(TableOf(On(FileRecords, OracleLines)), k, order) = Oracle(On(FileRecords, OracleLines), k)
    BY <1>5, <2>1, FillIs
  <2> QED
    BY <1>5, <1>6, <2>2
<1>8. printed' = <<Oracle(AllRecords, k)>>
  <2>1. topk # <<>> /\ topk[1] = k
    BY <1>4
  <2> QED
    BY <1>2, <1>7, <2>1
<1>9. lines' = lines /\ HeaderKs' = HeaderKs /\ AllRecords' = AllRecords /\ Firsts' = Firsts
  BY <1>1, FileKept, CutsKept
<1>10. BatchTypeOK'
  BY <1>1, <1>9 DEF BatchInv, BatchTypeOK
<1>11. Carried' /\ Merging'
  BY <1>1 DEF Carried, Merging
<1>12. HeaderKept'
  BY <1>1, <1>4, <1>9 DEF HeaderKept
<1>13. BatchExact'
  <2>1. printed'[1] = Oracle(AllRecords, k)
    BY <1>8
  <2>2. \E z \in HeaderKs' : printed'[1] = Oracle(AllRecords', z)
    BY <1>9, <2>1
  <2> QED
    BY <2>2 DEF BatchExact
<1> QED
  BY <1>10, <1>11, <1>12, <1>13 DEF BatchInv

\* The streaming programs do not touch it.
LEMMA BatchKept ==
  ASSUME BatchInv, input' = input, UNCHANGED batch
  PROVE  BatchInv'
<1>1. /\ cuts' = cuts /\ stages' = stages /\ job' = job /\ unmapped' = unmapped /\ flow' = flow
      /\ table' = table /\ total' = total /\ topk' = topk /\ printed' = printed
  BY DEF batch
<1>2. /\ lines' = lines /\ FileRecords' = FileRecords /\ AllPairs' = AllPairs /\ HeaderKs' = HeaderKs
      /\ Firsts' = Firsts /\ AllRecords' = AllRecords /\ \A s : Reads(s)' = Reads(s)
  BY <1>1, FileKept, CutsKept
<1>3. (Second' <=> Second) /\ \A x : Bears(x)' = Bears(x)
  <2>1. Second' <=> Second
    BY <1>1 DEF Second
  <2> QED
    BY <1>1, <2>1, CutsKept
<1>4. Waiting' = Waiting /\ Gone' = Gone
  <2>1. Waiting' = Waiting
    BY <1>1, <1>3 DEF Waiting
  <2> QED
    BY <1>2, <2>1 DEF Gone
<1>5. BatchTypeOK'
  BY <1>1, <1>2 DEF BatchInv, BatchTypeOK
<1>6. Carried'
  BY <1>1, <1>2, <1>3 DEF BatchInv, Carried
<1>7. Merging'
  BY <1>1, <1>2, <1>4 DEF BatchInv, Merging
<1>8. HeaderKept' /\ BatchExact'
  BY <1>1, <1>2 DEF BatchInv, HeaderKept, BatchExact
<1> QED
  BY <1>5, <1>6, <1>7, <1>8 DEF BatchInv

\* Whatever the splits, the stages and the order in which lines are merged,
\* each line of the file is counted once under each of its keys.
THEOREM BatchInvariance == VSpec => []BatchInv
<1>1. VInit => BatchInv
  BY BatchStart DEF VInit, Init
<1>2. BatchInv /\ [VNext]_<<vars, batch>> => BatchInv'
  <2> SUFFICES ASSUME BatchInv, [VNext]_<<vars, batch>> PROVE BatchInv'
    OBVIOUS
  <2>1. CASE Next /\ UNCHANGED batch
    <3>1. input' = input
      BY <2>1 DEF Next, Stream, Take, Fold, Ask, GetPartial, MergeNext, Answer, Done, vars, stream
    <3> QED
      BY <2>1, <3>1, BatchKept
  <2>2. CASE BatchStep
    <3>1. CASE Submit
      BY <3>1, SubmitStep
    <3>2. CASE \E s \in unmapped : Map(s)
      BY <3>2, MapStep
    <3>3. CASE \E x \in flow : Reduce(x) \/ Final(x)
      BY <3>3, ReduceStep, FinalStep
    <3>4. CASE Stage2
      BY <3>4, Stage2Step
    <3>5. CASE WriteReport
      BY <3>5, WriteStep
    <3> QED
      BY <2>2, <3>1, <3>2, <3>3, <3>4, <3>5 DEF BatchStep, BatchNext
  <2>3. CASE UNCHANGED <<vars, batch>>
    BY <2>3, BatchKept DEF vars, stream
  <2> QED
    BY <2>1, <2>2, <2>3 DEF VNext
<1> QED
  BY <1>1, <1>2, PTL DEF VSpec

\* The batch pipeline prints what the reference prints of the file.
THEOREM BatchIsExact == VSpec => []BatchExact
<1>1. BatchInv => BatchExact
  BY DEF BatchInv
<1> QED
  BY <1>1, BatchInvariance, PTL

\* What is proved of the streaming programs holds when the batch pipeline runs
\* after them.
THEOREM StreamingKept == VSpec => Spec
<1>1. VInit => Init
  BY DEF VInit
<1>2. [VNext]_<<vars, batch>> => [Next]_vars
  BY DEF VNext, BatchStep
<1> QED
  BY <1>1, <1>2, PTL DEF VSpec, Spec
=============================================================================
