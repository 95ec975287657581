-------------------------- MODULE WeatherMpiProofs --------------------------
(***************************************************************************)
(* For any file, any number of ranks, any chunk size and any short reads:  *)
(* the ranks of weather_mpi together have every record of the file once,   *)
(* whole and in order, and each only those that begin in its own range.    *)
(***************************************************************************)
EXTENDS WeatherMpi, FiniteSums, SequenceTheorems

-----------------------------------------------------------------------------
(***************************************************************************)
(* Numbers.                                                                *)
(***************************************************************************)

\* A set of naturals that is not empty has a least element, and Min is it.
LEMMA MinNat ==
  ASSUME NEW D \in SUBSET Nat, D # {}
  PROVE  Min(D) \in D /\ \A y \in D : Min(D) <= y
<1>1. \E x \in D : \A y \in D : ~ (<<y, x>> \in OpToRel(<, Nat))
  BY NatLessThanWellFounded, WFMin
<1>2. \E x \in D : \A y \in D : x <= y
  <2>1. PICK x \in D : \A y \in D : ~ (<<y, x>> \in OpToRel(<, Nat))
    BY <1>1
  <2>2. ASSUME NEW y \in D, y < x PROVE FALSE
    <3>1. <<y, x>> \in OpToRel(<, Nat)
      BY <2>2 DEF OpToRel
    <3> QED
      BY <2>1, <3>1
  <2> QED
    BY <2>2
<1> QED
  BY <1>2 DEF Min

LEMMA Quotient ==
  ASSUME NEW a \in Nat, NEW p \in Nat \ {0}
  PROVE  a \div p \in Nat /\ p * (a \div p) <= a /\ a < p * (a \div p) + p
  OBVIOUS

LEMMA Cancel ==
  ASSUME NEW p \in Nat \ {0}, NEW x \in Int, NEW y \in Int, p * x < p * y + p
  PROVE  x <= y
<1> SUFFICES ASSUME x >= y + 1 PROVE FALSE
  OBVIOUS
<1>1. p * x >= p * (y + 1)
  OBVIOUS
<1>2. p * (y + 1) = p * y + p
  OBVIOUS
<1>3. p * x \in Int /\ p * y \in Int
  OBVIOUS
<1> QED
  BY <1>1, <1>2, <1>3

\* Cutting n bytes at n * k \div p: the cuts rise from 0 to n.
LEMMA Cuts ==
  ASSUME NEW n \in Nat, NEW p \in Nat \ {0}, NEW k \in 0..(p - 1)
  PROVE  /\ (n * 0) \div p = 0
         /\ (n * p) \div p = n
         /\ (n * k) \div p \in Nat
         /\ (n * k) \div p <= (n * (k + 1)) \div p
         /\ (n * (k + 1)) \div p <= n
<1>0. n * k \in Nat /\ n * (k + 1) \in Nat /\ n * p \in Nat /\ k + 1 \in Nat
  OBVIOUS
<1> DEFINE u == (n * k) \div p
           v == (n * (k + 1)) \div p
           w == (n * p) \div p
<1>1. /\ u \in Nat /\ p * u <= n * k
      /\ v \in Nat /\ p * v <= n * (k + 1) /\ n * (k + 1) < p * v + p
      /\ w \in Nat /\ p * w <= n * p /\ n * p < p * w + p
  BY <1>0, Quotient
<1>2. n * k <= n * (k + 1) /\ n * (k + 1) <= n * p /\ n * p = p * n
  <2>1. n * (k + 1) = n * k + n
    OBVIOUS
  <2>2. n * (k + 1) <= n * p
    <3>1. k + 1 <= p
      OBVIOUS
    <3> QED
      BY <3>1
  <2> QED
    BY <1>0, <2>1, <2>2
<1>3. (n * 0) \div p = 0
  <2>1. n * 0 = 0 /\ 0 \div p \in Nat /\ p * (0 \div p) <= 0
    BY Quotient
  <2> HIDE DEF u, v, w
  <2>2. 0 \div p <= 0
    BY <2>1, Cancel
  <2> QED
    BY <2>1, <2>2
<1> HIDE DEF u, v, w
<1>4. p * u \in Nat /\ p * v \in Nat /\ p * w \in Nat /\ p * n \in Nat
  BY <1>1
<1>5. u <= v
  BY <1>0, <1>1, <1>2, <1>4, Cancel
<1>6. v <= n
  BY <1>0, <1>1, <1>2, <1>4, Cancel
<1>7. w <= n /\ n <= w
  BY <1>0, <1>1, <1>2, <1>4, Cancel
<1> QED
  BY <1>1, <1>3, <1>5, <1>6, <1>7 DEF u, v, w

-----------------------------------------------------------------------------
(***************************************************************************)
(* The file: its ranges, its bytes and its records.                        *)
(***************************************************************************)

LEMMA FileFacts ==
  ASSUME file \in Inputs
  PROVE  /\ P \in Nat \ {0} /\ Chunk \in Nat \ {0}
         /\ file.size \in Nat /\ file.header \in 0..file.size
         /\ file.newlines \subseteq 0..(file.size - 1)
         /\ file.header < file.size => file.header - 1 \in file.newlines
  BY SplitAssumption

\* The ranges are adjacent and cover the data.
LEMMA Ranges ==
  ASSUME file \in Inputs
  PROVE  /\ RawStart(0) = file.header /\ RawStart(P) = file.size
         /\ \A r \in Rank :
              /\ RawStart(r) \in file.header..file.size /\ RawStart(r) \in Nat
              /\ RawEnd(r) \in RawStart(r)..file.size
<1> DEFINE n == file.size - file.header
<1>1. n \in Nat /\ P \in Nat \ {0} /\ file.header \in Nat /\ file.size \in Nat
      /\ file.header + n = file.size
  BY FileFacts
<1>2. \A k : RawStart(k) = file.header + (n * k) \div P
  BY DEF RawStart
<1> HIDE DEF n
<1>3. ASSUME NEW r \in Rank
      PROVE  /\ RawStart(r) \in file.header..file.size /\ RawStart(r) \in Nat
             /\ RawEnd(r) \in RawStart(r)..file.size
  <2>1. /\ (n * r) \div P \in Nat
        /\ (n * r) \div P <= (n * (r + 1)) \div P
        /\ (n * (r + 1)) \div P <= n
    BY <1>1, Cuts DEF Rank
  <2>2. (n * (r + 1)) \div P \in Int
    <3>1. n * (r + 1) \in Nat
      BY <1>1 DEF Rank
    <3> QED
      BY <1>1, <3>1, Quotient
  <2> QED
    BY <1>1, <1>2, <2>1, <2>2 DEF RawEnd
<1>4. RawStart(0) = file.header /\ RawStart(P) = file.size
  <2>1. 0 \in 0..(P - 1)
    BY <1>1
  <2>2. (n * 0) \div P = 0 /\ (n * P) \div P = n
    BY <1>1, <2>1, Cuts
  <2> QED
    BY <1>1, <1>2, <2>2
<1> QED
  BY <1>3, <1>4

LEMMA FileBytes ==
  ASSUME file \in Inputs
  PROVE  /\ Bytes(file) \in Seq(Int) /\ Len(Bytes(file)) = file.size
         /\ \A o \in 0..(file.size - 1) :
              Bytes(file)[o + 1] = IF o \in file.newlines THEN NL ELSE o
<1>1. file.size \in Nat
  BY FileFacts
<1>2. \A o \in 1..file.size : (IF o - 1 \in file.newlines THEN NL ELSE o - 1) \in Int
  BY <1>1 DEF NL
<1>3. Bytes(file) \in [1..file.size -> Int]
  BY <1>2 DEF Bytes
<1>4. Bytes(file) \in Seq(Int) /\ Len(Bytes(file)) = file.size
  BY <1>1, <1>3
<1>5. ASSUME NEW o \in 0..(file.size - 1)
      PROVE  Bytes(file)[o + 1] = IF o \in file.newlines THEN NL ELSE o
  <2>1. o + 1 \in 1..file.size /\ (o + 1) - 1 = o
    BY <1>1
  <2> QED
    BY <2>1 DEF Bytes
<1> QED
  BY <1>4, <1>5

\* A part of the file, byte by byte.
LEMMA Part ==
  ASSUME file \in Inputs, NEW a \in Nat, NEW b \in Nat, a <= b, b <= file.size
  PROVE  LET t == SubSeq(Bytes(file), a + 1, b) IN
         /\ t \in Seq(Int) /\ Len(t) = b - a /\ DOMAIN t = 1..(b - a)
         /\ \A k \in 1..(b - a) : t[k] = IF a + k - 1 \in file.newlines THEN NL ELSE a + k - 1
<1> DEFINE t == SubSeq(Bytes(file), a + 1, b)
<1>1. \A k \in (a + 1)..b : Bytes(file)[k] \in Int
  BY FileBytes, FileFacts
<1>2. /\ t \in Seq(Int) /\ Len(t) = (IF a + 1 <= b THEN b - (a + 1) + 1 ELSE 0)
      /\ \A k \in 1..(b - (a + 1) + 1) : t[k] = Bytes(file)[(a + 1) + k - 1]
  BY <1>1, SubSeqProperties
<1> HIDE DEF t
<1>3. Len(t) = b - a /\ b - (a + 1) + 1 = b - a
  BY <1>2
<1>4. ASSUME NEW k \in 1..(b - a)
      PROVE  t[k] = IF a + k - 1 \in file.newlines THEN NL ELSE a + k - 1
  <2>1. a + k - 1 \in 0..(file.size - 1) /\ (a + 1) + k - 1 = (a + k - 1) + 1
    BY FileFacts
  <2> QED
    BY <1>2, <1>3, <2>1, FileBytes
<1>5. DOMAIN t = 1..(b - a)
  BY <1>2, <1>3, LenProperties
<1> QED
  BY <1>2, <1>3, <1>4, <1>5 DEF t

\* Of one range after another.
LEMMA PartsMeet ==
  ASSUME file \in Inputs, NEW a \in Nat, NEW b \in Nat, NEW c \in Nat,
         a <= b, b <= c, c <= file.size
  PROVE  SubSeq(Bytes(file), a + 1, b) \o SubSeq(Bytes(file), b + 1, c)
           = SubSeq(Bytes(file), a + 1, c)
<1>1. /\ a + 1 \in 1..(Len(Bytes(file)) + 1) /\ b \in ((a + 1) - 1)..Len(Bytes(file))
      /\ c \in b..Len(Bytes(file))
  BY FileBytes, FileFacts
<1> QED
  BY <1>1, FileBytes, ConcatAdjacentSubSeq

\* A part of a part.
LEMMA PartOfPart ==
  ASSUME file \in Inputs, NEW a \in Nat, NEW b \in Nat, a <= b, b <= file.size,
         NEW m \in Nat, NEW n \in Nat, m <= n, n <= b - a
  PROVE  SubSeq(SubSeq(Bytes(file), a + 1, b), m + 1, n) = SubSeq(Bytes(file), a + m + 1, a + n)
<1> DEFINE t == SubSeq(Bytes(file), a + 1, b)
           u == SubSeq(t, m + 1, n)
           v == SubSeq(Bytes(file), a + m + 1, a + n)
<1>1. /\ t \in Seq(Int) /\ Len(t) = b - a
      /\ \A k \in 1..(b - a) : t[k] = IF a + k - 1 \in file.newlines THEN NL ELSE a + k - 1
  BY Part
<1>2. /\ v \in Seq(Int) /\ Len(v) = n - m
      /\ \A k \in 1..(n - m) :
           v[k] = IF a + m + k - 1 \in file.newlines THEN NL ELSE a + m + k - 1
  <2>1. a + m \in Nat /\ a + n \in Nat /\ a + m <= a + n /\ a + n <= file.size
        /\ (a + n) - (a + m) = n - m
    BY FileFacts
  <2>2. LET s == SubSeq(Bytes(file), (a + m) + 1, a + n) IN
        /\ s \in Seq(Int) /\ Len(s) = (a + n) - (a + m) /\ DOMAIN s = 1..((a + n) - (a + m))
        /\ \A k \in 1..((a + n) - (a + m)) :
             s[k] = IF (a + m) + k - 1 \in file.newlines THEN NL ELSE (a + m) + k - 1
    BY <2>1, Part
  <2> QED
    BY <2>1, <2>2
<1> HIDE DEF t, v
<1>3. \A k \in (m + 1)..n : t[k] \in Int
  BY <1>1, ElementOfSeq
<1>4. /\ u \in Seq(Int) /\ Len(u) = (IF m + 1 <= n THEN n - (m + 1) + 1 ELSE 0)
      /\ \A k \in 1..(n - (m + 1) + 1) : u[k] = t[(m + 1) + k - 1]
  BY <1>3, SubSeqProperties
<1> HIDE DEF u
<1>5. Len(u) = n - m /\ n - (m + 1) + 1 = n - m
  BY <1>4
<1>6. ASSUME NEW k \in 1..Len(u) PROVE u[k] = v[k]
  <2>1. (m + 1) + k - 1 \in 1..(b - a) /\ a + ((m + 1) + k - 1) - 1 = a + m + k - 1
        /\ k \in 1..(n - m)
    BY <1>5
  <2> QED
    BY <1>1, <1>2, <1>4, <1>5, <2>1
<1>7. u = v
  BY <1>2, <1>4, <1>5, <1>6, SeqEqual
<1> QED
  BY <1>7 DEF t, u, v

\* The end of a record.
LEMMA EndFacts ==
  ASSUME file \in Inputs, NEW o \in Nat, o < file.size
  PROVE  /\ EndOf(o) \in (o + 1)..file.size
         /\ \A x \in Nat : /\ o < x /\ x <= file.size /\ (x = file.size \/ x \in file.newlines)
                           /\ \A y \in o..(x - 1) : y \notin file.newlines
                           => EndOf(o) = x
<1> DEFINE D == {y \in file.newlines : y > o} \union {file.size}
<1>1. D \in SUBSET Nat /\ D # {}
  BY FileFacts
<1>2. \A y \in D : y > o /\ y <= file.size /\ (y = file.size \/ y \in file.newlines)
  BY FileFacts
<1>3. \A y \in file.newlines : y > o => y \in D
  OBVIOUS
<1>4. file.size \in D /\ EndOf(o) = Min(D)
  BY DEF EndOf
<1> HIDE DEF D
<1>5. EndOf(o) \in D /\ \A y \in D : EndOf(o) <= y
  BY <1>1, <1>4, MinNat
<1>6. EndOf(o) \in (o + 1)..file.size
  BY <1>1, <1>2, <1>5, FileFacts
<1>7. ASSUME NEW x \in Nat, o < x, x <= file.size, x = file.size \/ x \in file.newlines,
             \A y \in o..(x - 1) : y \notin file.newlines
      PROVE  EndOf(o) = x
  <2>1. EndOf(o) <= x
    BY <1>3, <1>4, <1>5, <1>7
  <2>2. CASE EndOf(o) < x
    <3>1. EndOf(o) \in file.newlines /\ EndOf(o) \in o..(x - 1)
      BY <1>2, <1>5, <1>6, <1>7, <2>2, FileFacts
    <3> QED
      BY <1>7, <3>1
  <2> QED
    BY <1>6, <1>7, <2>1, <2>2, FileFacts
<1> QED
  BY <1>6, <1>7

LEMMA StartFacts ==
  ASSUME file \in Inputs, NEW o \in Starts
  PROVE  /\ o \in Nat /\ file.header <= o /\ o < file.size
         /\ LineFrom(o) \in Seq(Int) /\ LineFrom(o) # <<>> /\ Head(LineFrom(o)) = o
<1>1. o \in Nat /\ file.header <= o /\ o < file.size
  BY FileFacts DEF Starts
<1>2. EndOf(o) \in (o + 1)..file.size
  BY <1>1, EndFacts
<1>3. EndOf(o) - o \in Nat \ {0}
  BY <1>1, <1>2, FileFacts
<1>4. \A b \in 1..(EndOf(o) - o) : o + b - 1 \in Int
  BY <1>1, <1>3
<1>5. LineFrom(o) \in [1..(EndOf(o) - o) -> Int]
  BY <1>4 DEF LineFrom
<1>6. LineFrom(o) \in Seq(Int) /\ Len(LineFrom(o)) = EndOf(o) - o
  BY <1>3, <1>5
<1>7. LineFrom(o)[1] = o
  <2>1. 1 \in 1..(EndOf(o) - o) /\ o + 1 - 1 = o
    BY <1>1, <1>3
  <2> QED
    BY <2>1 DEF LineFrom
<1>8. LineFrom(o) # <<>>
  BY <1>3, <1>6
<1> QED
  BY <1>1, <1>6, <1>7, <1>8

\* The bytes from where a record begins up to its end are the record.
LEMMA WholeLine ==
  ASSUME file \in Inputs, NEW o \in Nat, NEW x \in Nat, o < x, x <= file.size,
         x = file.size \/ x \in file.newlines,
         \A y \in o..(x - 1) : y \notin file.newlines
  PROVE  SubSeq(Bytes(file), o + 1, x) = LineFrom(o)
<1> DEFINE t == SubSeq(Bytes(file), o + 1, x)
<1>1. EndOf(o) = x
  <2>1. o < file.size
    BY FileFacts
  <2> QED
    BY <2>1, EndFacts
<1>2. /\ t \in Seq(Int) /\ Len(t) = x - o
      /\ \A k \in 1..(x - o) : t[k] = IF o + k - 1 \in file.newlines THEN NL ELSE o + k - 1
  <2>1. o <= x
    OBVIOUS
  <2> QED
    BY <2>1, Part
<1> HIDE DEF t
<1>3. \A k \in 1..(x - o) : o + k - 1 \in o..(x - 1)
  OBVIOUS
<1>4. \A k \in 1..(x - o) : t[k] = o + k - 1
  BY <1>2, <1>3
<1>5. DOMAIN t = 1..(x - o) /\ t = [k \in DOMAIN t |-> t[k]]
  <2>1. DOMAIN t = 1..Len(t) /\ t \in [1..Len(t) -> Int]
    BY <1>2, LenProperties
  <2> QED
    BY <1>2, <2>1
<1>6. LineFrom(o) = [k \in 1..(x - o) |-> o + k - 1]
  BY <1>1 DEF LineFrom
<1>7. t = LineFrom(o)
  BY <1>4, <1>5, <1>6
<1> QED
  BY <1>7 DEF t

-----------------------------------------------------------------------------
(***************************************************************************)
(* Sequences of records.                                                   *)
(***************************************************************************)

\* Another record after those before it.
LEMMA OneMore ==
  ASSUME file \in Inputs, NEW ls \in Seq(Seq(Int)), NEW D \in SUBSET Starts, AreLines(ls, D),
         NEW o \in Starts, \A x \in D : x < o
  PROVE  AreLines(Append(ls, LineFrom(o)), D \union {o})
<1> DEFINE l == LineFrom(o)
           ms == Append(ls, l)
<1>1. l \in Seq(Int) /\ Head(l) = o /\ l = LineFrom(o)
  BY StartFacts
<1> HIDE DEF l
<1>2. /\ ms \in Seq(Seq(Int)) /\ Len(ms) = Len(ls) + 1 /\ Len(ls) \in Nat
      /\ \A k \in 1..Len(ls) : ms[k] = ls[k]
      /\ ms[Len(ls) + 1] = l
  BY <1>1, AppendProperties, LenProperties
<1>3. DOMAIN ls = 1..Len(ls) /\ DOMAIN ms = 1..Len(ms)
  BY <1>2, LenProperties
<1> HIDE DEF ms
<1>4. \A k \in DOMAIN ms : k \in DOMAIN ls \/ k = Len(ls) + 1
  BY <1>2, <1>3
<1>5. \A k \in DOMAIN ls : k \in DOMAIN ms /\ ms[k] = ls[k] /\ k < Len(ls) + 1
  BY <1>2, <1>3
<1>6. Len(ls) + 1 \in DOMAIN ms
  BY <1>2, <1>3
<1>7. ASSUME NEW k \in DOMAIN ms
      PROVE  Head(ms[k]) \in D \union {o} /\ ms[k] = LineFrom(Head(ms[k]))
  BY <1>1, <1>2, <1>4, <1>5 DEF AreLines
<1>8. ASSUME NEW x \in D \union {o} PROVE \E k \in DOMAIN ms : Head(ms[k]) = x
  BY <1>1, <1>2, <1>5, <1>6 DEF AreLines
<1>9. ASSUME NEW j \in DOMAIN ms, NEW k \in DOMAIN ms, j < k
      PROVE  Head(ms[j]) < Head(ms[k])
  <2>1. j \in DOMAIN ls
    BY <1>2, <1>3, <1>4, <1>9
  <2>2. CASE k \in DOMAIN ls
    BY <1>5, <1>9, <2>1, <2>2 DEF AreLines
  <2>3. CASE k = Len(ls) + 1
    BY <1>1, <1>2, <1>5, <2>1, <2>3 DEF AreLines
  <2> QED
    BY <1>4, <2>2, <2>3
<1>10. AreLines(ms, D \union {o})
  BY <1>7, <1>8, <1>9 DEF AreLines
<1> QED
  BY <1>10 DEF ms, l

\* Records of one range after another.
LEMMA Joined ==
  ASSUME file \in Inputs, NEW ls \in Seq(Seq(Int)), NEW ms \in Seq(Seq(Int)),
         NEW D \in SUBSET Starts, NEW T \in SUBSET Starts,
         AreLines(ls, D), AreLines(ms, T), \A x \in D, y \in T : x < y
  PROVE  AreLines(ls \o ms, D \union T)
<1> DEFINE ns == ls \o ms
<1>1. /\ ns \in Seq(Seq(Int)) /\ Len(ns) = Len(ls) + Len(ms)
      /\ Len(ls) \in Nat /\ Len(ms) \in Nat
      /\ \A k \in 1..(Len(ls) + Len(ms)) :
           ns[k] = IF k <= Len(ls) THEN ls[k] ELSE ms[k - Len(ls)]
  BY ConcatProperties, LenProperties
<1>2. DOMAIN ls = 1..Len(ls) /\ DOMAIN ms = 1..Len(ms) /\ DOMAIN ns = 1..Len(ns)
  BY <1>1, LenProperties
<1> HIDE DEF ns
<1>3. \A k \in DOMAIN ns :
        \/ k <= Len(ls) /\ k \in DOMAIN ls /\ ns[k] = ls[k]
        \/ k > Len(ls) /\ k - Len(ls) \in DOMAIN ms /\ ns[k] = ms[k - Len(ls)]
  BY <1>1, <1>2
<1>4. ASSUME NEW k \in DOMAIN ls PROVE k \in DOMAIN ns /\ ns[k] = ls[k]
  BY <1>1, <1>2
<1>5. ASSUME NEW k \in DOMAIN ms PROVE k + Len(ls) \in DOMAIN ns /\ ns[k + Len(ls)] = ms[k]
  <2>1. k + Len(ls) \in 1..(Len(ls) + Len(ms)) /\ ~(k + Len(ls) <= Len(ls))
        /\ (k + Len(ls)) - Len(ls) = k
    BY <1>1, <1>2
  <2> QED
    BY <1>1, <1>2, <2>1
<1>6. ASSUME NEW k \in DOMAIN ns
      PROVE  Head(ns[k]) \in D \union T /\ ns[k] = LineFrom(Head(ns[k]))
  BY <1>3 DEF AreLines
<1>7. ASSUME NEW x \in D \union T PROVE \E k \in DOMAIN ns : Head(ns[k]) = x
  <2>1. CASE x \in D
    BY <1>4, <2>1 DEF AreLines
  <2>2. CASE x \in T
    <3>1. PICK k \in DOMAIN ms : Head(ms[k]) = x
      BY <2>2 DEF AreLines
    <3> QED
      BY <1>5, <3>1
  <2> QED
    BY <2>1, <2>2
<1>8. ASSUME NEW j \in DOMAIN ns, NEW k \in DOMAIN ns, j < k
      PROVE  Head(ns[j]) < Head(ns[k])
  <2>0. j \in Nat /\ k \in Nat
    BY <1>1, <1>2
  <2>1. CASE k <= Len(ls)
    <3>1. Len(ls) \in Nat
      BY <1>1
    <3>2. j <= Len(ls)
      BY <1>8, <2>0, <2>1, <3>1
    <3>3. j \in DOMAIN ls /\ ns[j] = ls[j]
      BY <1>3, <2>0, <3>1, <3>2
    <3>4. k \in DOMAIN ls /\ ns[k] = ls[k]
      BY <1>3, <2>0, <2>1, <3>1
    <3> QED
      BY <1>8, <3>3, <3>4 DEF AreLines
  <2>2. CASE j > Len(ls)
    <3>1. /\ j - Len(ls) \in DOMAIN ms /\ ns[j] = ms[j - Len(ls)]
          /\ k - Len(ls) \in DOMAIN ms /\ ns[k] = ms[k - Len(ls)]
      BY <1>1, <1>3, <1>8, <2>0, <2>2
    <3>2. j - Len(ls) < k - Len(ls)
      BY <1>1, <1>8, <2>0
    <3> QED
      BY <3>1, <3>2 DEF AreLines
  <2>3. CASE j <= Len(ls) /\ k > Len(ls)
    <3>1. j \in DOMAIN ls /\ ns[j] = ls[j]
      BY <1>1, <1>2, <1>4, <2>0, <2>3
    <3>2. k - Len(ls) \in DOMAIN ms /\ ns[k] = ms[k - Len(ls)]
      BY <1>1, <1>3, <2>0, <2>3
    <3>3. Head(ns[j]) \in D /\ Head(ns[k]) \in T
      BY <3>1, <3>2 DEF AreLines
    <3> QED
      BY <3>3
  <2> QED
    BY <1>1, <2>0, <2>1, <2>2, <2>3
<1>9. AreLines(ns, D \union T)
  BY <1>6, <1>7, <1>8 DEF AreLines
<1> QED
  BY <1>9 DEF ns

\* Of two sequences with the records of one set, one is a prefix of the other.
LEMMA SamePrefix ==
  ASSUME NEW ls \in Seq(Seq(Int)), NEW ms \in Seq(Seq(Int)), NEW D \in SUBSET Int,
         AreLines(ls, D), AreLines(ms, D)
  PROVE  Len(ls) <= Len(ms) /\ \A k \in 1..Len(ls) : ls[k] = ms[k]
<1> DEFINE h(k) == Head(ls[k])
           g(k) == Head(ms[k])
<1>1. Len(ls) \in Nat /\ Len(ms) \in Nat /\ DOMAIN ls = 1..Len(ls) /\ DOMAIN ms = 1..Len(ms)
  BY LenProperties
<1>2. \A k \in 1..Len(ls) : h(k) \in D /\ h(k) \in Int /\ ls[k] = LineFrom(h(k))
  BY <1>1 DEF AreLines
<1>3. \A k \in 1..Len(ms) : g(k) \in D /\ g(k) \in Int /\ ms[k] = LineFrom(g(k))
  BY <1>1 DEF AreLines
<1>4. \A x \in D : (\E k \in 1..Len(ls) : h(k) = x) /\ (\E k \in 1..Len(ms) : g(k) = x)
  BY <1>1 DEF AreLines
<1>5. /\ \A j, k \in 1..Len(ls) : j < k => h(j) < h(k)
      /\ \A j, k \in 1..Len(ms) : j < k => g(j) < g(k)
  BY <1>1 DEF AreLines
<1> HIDE DEF h, g
<1> DEFINE G == {n \in Nat : \A k \in 1..Len(ls) : k <= n => k <= Len(ms) /\ h(k) = g(k)}
<1>6. 0 \in G
  BY <1>1
<1>7. ASSUME NEW n \in Nat, n \in G PROVE n + 1 \in G
  <2> DEFINE k == n + 1
  <2> SUFFICES ASSUME k \in 1..Len(ls) PROVE k <= Len(ms) /\ h(k) = g(k)
    BY <1>7, <1>1
  <2>1. \A j \in 1..Len(ls) : j < k => j \in 1..Len(ms) /\ h(j) = g(j)
    BY <1>1, <1>7
  <2>2. PICK m \in 1..Len(ms) : g(m) = h(k)
    BY <1>2, <1>4
  <2>3. m >= k
    <3> SUFFICES ASSUME m < k PROVE FALSE
      BY <1>1
    <3>1. m \in 1..Len(ls) /\ h(m) = g(m)
      BY <1>1, <2>1
    <3>2. h(m) < h(k)
      BY <1>5, <3>1
    <3> QED
      BY <1>2, <2>2, <3>1, <3>2
  <2>4. k \in 1..Len(ms) /\ g(k) <= h(k)
    <3>1. k \in 1..Len(ms)
      BY <1>1, <2>3
    <3>2. CASE m = k
      BY <1>2, <2>2, <3>2
    <3>3. CASE m > k
      BY <1>3, <1>5, <2>2, <3>1, <3>3
    <3> QED
      BY <1>1, <2>3, <3>1, <3>2, <3>3
  <2>5. PICK n2 \in 1..Len(ls) : h(n2) = g(k)
    BY <1>3, <1>4, <2>4
  <2>6. n2 >= k
    <3> SUFFICES ASSUME n2 < k PROVE FALSE
      BY <1>1
    <3>1. n2 \in 1..Len(ms) /\ h(n2) = g(n2)
      BY <2>1
    <3>2. g(n2) < g(k)
      BY <1>5, <2>4, <3>1
    <3> QED
      BY <1>3, <2>4, <2>5, <3>1, <3>2
  <2>7. h(k) <= g(k)
    <3>1. CASE n2 = k
      BY <1>2, <2>5, <3>1
    <3>2. CASE n2 > k
      BY <1>2, <1>5, <2>5, <3>2
    <3> QED
      BY <1>1, <2>6, <3>1, <3>2
  <2> QED
    BY <1>2, <1>3, <2>4, <2>7
<1> HIDE DEF G
<1>8. Nat \subseteq G
  BY <1>6, <1>7, NatSet
<1>9. \A k \in 1..Len(ls) : k <= Len(ms) /\ h(k) = g(k)
  <2>1. Len(ls) \in G
    BY <1>1, <1>8
  <2> QED
    BY <2>1, <1>1 DEF G
<1>10. Len(ls) <= Len(ms)
  BY <1>1, <1>9
<1>11. \A k \in 1..Len(ls) : ls[k] = ms[k]
  BY <1>1, <1>2, <1>3, <1>9, <1>10
<1> QED
  BY <1>10, <1>11

LEMMA OneSequence ==
  ASSUME NEW ls \in Seq(Seq(Int)), NEW ms \in Seq(Seq(Int)), NEW D \in SUBSET Int,
         AreLines(ls, D), AreLines(ms, D)
  PROVE  ls = ms
<1>1. Len(ls) <= Len(ms) /\ \A k \in 1..Len(ls) : ls[k] = ms[k]
  BY SamePrefix
<1>2. Len(ms) <= Len(ls)
  BY SamePrefix
<1>3. Len(ls) = Len(ms)
  BY <1>1, <1>2, LenProperties
<1> QED
  BY <1>1, <1>3, SeqEqual

\* The records before any offset are a sequence.
LEMMA LinesUpTo ==
  ASSUME file \in Inputs
  PROVE  \A n \in Nat : \E ls \in Seq(Seq(Int)) : AreLines(ls, StartsIn(file.header, n))
<1> DEFINE G == {n \in Nat : \E ls \in Seq(Seq(Int)) : AreLines(ls, StartsIn(file.header, n))}
<1>1. 0 \in G
  <2>1. StartsIn(file.header, 0) = {}
    BY StartFacts DEF StartsIn
  <2>2. <<>> \in Seq(Seq(Int)) /\ DOMAIN <<>> = {}
    OBVIOUS
  <2>3. AreLines(<<>>, {})
    BY <2>2 DEF AreLines
  <2> QED
    BY <2>1, <2>2, <2>3
<1>2. ASSUME NEW n \in Nat, n \in G PROVE n + 1 \in G
  <2>1. PICK ls \in Seq(Seq(Int)) : AreLines(ls, StartsIn(file.header, n))
    BY <1>2
  <2> DEFINE D == StartsIn(file.header, n)
             T == StartsIn(file.header, n + 1)
  <2>2. D \subseteq Starts /\ \A x \in D : x < n
    BY DEF StartsIn
  <2>3. CASE n \in Starts
    <3>0. \A x \in Starts : x \in Nat /\ file.header <= x
      BY StartFacts
    <3>1. ASSUME NEW x \in Starts
          PROVE  file.header <= x /\ x < n + 1 <=> (file.header <= x /\ x < n) \/ x = n
      BY <2>3, <3>0, FileFacts
    <3>a. T = D \union {n}
      BY <2>3, <3>1 DEF StartsIn
    <3> HIDE DEF D, T
    <3>2. AreLines(Append(ls, LineFrom(n)), T)
      BY <2>1, <2>2, <2>3, <3>a, OneMore DEF D
    <3>3. Append(ls, LineFrom(n)) \in Seq(Seq(Int))
      BY <2>3, StartFacts, AppendProperties
    <3>4. AreLines(Append(ls, LineFrom(n)), StartsIn(file.header, n + 1))
      BY <3>2 DEF T
    <3>5. \E ms \in Seq(Seq(Int)) : AreLines(ms, StartsIn(file.header, n + 1))
      BY <3>3, <3>4, Zenon
    <3> QED
      BY <3>5 DEF G
  <2>4. CASE n \notin Starts
    <3>0. \A x \in Starts : x \in Nat /\ x # n
      BY <2>4, StartFacts
    <3>1. T = D
      BY <3>0 DEF StartsIn
    <3> QED
      BY <2>1, <3>1
  <2> QED
    BY <2>3, <2>4
<1> HIDE DEF G
<1>3. Nat \subseteq G
  BY <1>1, <1>2, NatSet
<1> QED
  BY <1>3 DEF G

-----------------------------------------------------------------------------
(***************************************************************************)
(* The steps.                                                              *)
(***************************************************************************)

Own(r) == Buffered(r) /\ OnLine(r) /\ Kept(r)

\* What is said of the file does not change with it.
LEMMA FileFrame ==
  ASSUME file' = file
  PROVE  /\ Starts' = Starts
         /\ \A o : LineFrom(o)' = LineFrom(o)
         /\ \A a, b : StartsIn(a, b)' = StartsIn(a, b)
         /\ \A ls, D : AreLines(ls, D)' <=> AreLines(ls, D)
         /\ \A k : RawStart(k)' = RawStart(k)
         /\ \A k : RawEnd(k)' = RawEnd(k)
         /\ \A k : Behind(k)' <=> Behind(k)
<1>1. \A o : EndOf(o)' = EndOf(o)
  BY DEF EndOf
<1>2. \A o : LineFrom(o)' = LineFrom(o)
  BY <1>1 DEF LineFrom
<1>3. Starts' = Starts
  BY DEF Starts
<1>4. \A a, b : StartsIn(a, b)' = StartsIn(a, b)
  BY <1>3 DEF StartsIn
<1>5. \A ls, D : AreLines(ls, D)' <=> AreLines(ls, D)
  BY <1>2 DEF AreLines
<1>6. \A k : RawStart(k)' = RawStart(k)
  BY DEF RawStart
<1>7. \A k : RawEnd(k)' = RawEnd(k)
  BY <1>6 DEF RawEnd
<1>8. \A k : Behind(k)' <=> Behind(k)
  BY <1>6 DEF Behind
<1> QED
  BY <1>2, <1>3, <1>4, <1>5, <1>6, <1>7, <1>8

\* A rank of which nothing changes.
LEMMA Aside ==
  ASSUME SplitInv, NEW q \in Rank, file' = file, torn => torn',
         at'[q] = at[q], pos'[q] = pos[q], i'[q] = i[q], carry'[q] = carry[q],
         carry_at'[q] = carry_at[q], work'[q] = work[q], work_at'[q] = work_at[q],
         drop_first'[q] = drop_first[q], acc'[q] = acc[q]
  PROVE  Own(q)'
<1>1. Buffered(q) /\ OnLine(q) /\ Kept(q)
  BY DEF SplitInv
<1>2. Cursor(q)' = Cursor(q)
  BY DEF Cursor, LineAt
<1>3. Buffered(q)'
  BY <1>1, <1>2, FileFrame DEF Buffered
<1>4. OnLine(q)'
  BY <1>1, <1>2, FileFrame DEF OnLine
<1>5. Kept(q)'
  BY <1>1, <1>2, FileFrame DEF Kept
<1> QED
  BY <1>3, <1>4, <1>5 DEF Own

\* A step of one rank changes no other's part of any variable.
LEMMA OthersSame ==
  ASSUME SplitInv, NEW r \in Rank, Enter(r) \/ Splitting(r), NEW q \in Rank, q # r
  PROVE  /\ file' = file /\ (torn => torn')
         /\ at'[q] = at[q] /\ pos'[q] = pos[q] /\ i'[q] = i[q] /\ carry'[q] = carry[q]
         /\ carry_at'[q] = carry_at[q] /\ work'[q] = work[q] /\ work_at'[q] = work_at[q]
         /\ drop_first'[q] = drop_first[q] /\ acc'[q] = acc[q]
<1>0. SplitOK
  BY DEF SplitInv
<1>1. CASE Enter(r)
  BY <1>0, <1>1 DEF SplitOK, Enter, Step
<1>2. CASE Read(r)
  BY <1>0, <1>2 DEF SplitOK, Read, Step
<1>3. CASE ReadFails(r) \/ ReadAll(r)
  BY <1>0, <1>3 DEF SplitOK, ReadFails, ReadAll, Step, buffers
<1>4. CASE Line(r)
  BY <1>0, <1>4 DEF SplitOK, Line
<1>5. CASE Beyond(r)
  BY <1>0, <1>5 DEF SplitOK, Beyond, Step, buffers
<1>6. CASE CarryOver(r)
  BY <1>0, <1>6 DEF SplitOK, CarryOver, Step
<1>7. CASE Rest(r)
  BY <1>0, <1>7 DEF SplitOK, Rest, Step, buffers
<1> QED
  BY <1>1, <1>2, <1>3, <1>4, <1>5, <1>6, <1>7 DEF Splitting

LEMMA OthersAside ==
  ASSUME SplitInv, NEW r \in Rank, Enter(r) \/ Splitting(r), NEW q \in Rank, q # r
  PROVE  Own(q)'
BY OthersSame, Aside

\* What a rank relies on.
LEMMA OwnFacts ==
  ASSUME SplitInv, NEW r \in Rank
  PROVE  /\ file \in Inputs /\ file.size \in Nat /\ file.header \in 0..file.size
         /\ RawStart(r) \in Nat /\ file.header <= RawStart(r)
         /\ RawEnd(r) \in RawStart(r)..file.size /\ RawEnd(r) \in Nat
         /\ pos[r] \in Nat /\ i[r] \in Nat /\ carry_at[r] \in Nat /\ work_at[r] \in Nat
         /\ Cursor(r) \in Nat /\ carry[r] \in Seq(Int) /\ work[r] \in Seq(Int)
         /\ acc[r] \in Seq(Seq(Int)) /\ drop_first[r] \in BOOLEAN
<1>1. file \in Inputs
  BY DEF SplitInv, SplitOK
<1>2. /\ RawStart(r) \in file.header..file.size /\ RawStart(r) \in Nat
      /\ RawEnd(r) \in RawStart(r)..file.size
  BY <1>1, Ranges
<1>3. file.size \in Nat /\ file.header \in 0..file.size
  BY <1>1, FileFacts
<1>4. pos[r] \in Nat /\ i[r] \in Nat /\ carry_at[r] \in Nat /\ work_at[r] \in Nat
  BY DEF SplitInv, SplitOK
<1>5. /\ carry[r] \in Seq(Int) /\ work[r] \in Seq(Int)
      /\ acc[r] \in Seq(Seq(Int)) /\ drop_first[r] \in BOOLEAN
  BY DEF SplitInv, SplitOK
<1>6. Cursor(r) \in Nat
  BY <1>4 DEF Cursor, LineAt
<1> QED
  BY <1>1, <1>2, <1>3, <1>4, <1>5, <1>6

\* Where there is no newline no record begins.
LEMMA NoStart ==
  ASSUME file \in Inputs, NEW o \in Nat, NEW x \in Nat, file.header <= o,
         \A y \in o..(x - 1) : y \notin file.newlines, NEW y \in Starts, o < y
  PROVE  x < y
<1>1. y \in Nat /\ y # file.header
  BY StartFacts, FileFacts
<1>2. y - 1 \in file.newlines
  BY <1>1 DEF Starts
<1>3. CASE y <= x
  <2>1. y - 1 \in o..(x - 1)
    BY <1>1, <1>3
  <2> QED
    BY <1>2, <2>1
<1> QED
  BY <1>1, <1>3

\* A line that begins in the range of another rank is not begun here.
LEMMA Dropped ==
  ASSUME file \in Inputs, NEW r \in Rank, Behind(r), NEW x \in Nat,
         \A y \in RawStart(r)..(x - 1) : y \notin file.newlines
  PROVE  \A y \in Starts : RawStart(r) <= y => x < y
<1>1. RawStart(r) \in Nat /\ file.header <= RawStart(r)
  BY Ranges, FileFacts
<1> SUFFICES ASSUME NEW y \in Starts, RawStart(r) <= y PROVE x < y
  OBVIOUS
<1>2. y \in Nat /\ y < file.size
  BY StartFacts
<1>3. y # RawStart(r)
  BY <1>2, FileFacts DEF Behind, Starts
<1> QED
  BY <1>1, <1>2, <1>3, NoStart

LEMMA EnterOwn ==
  ASSUME SplitInv, NEW r \in Rank, Enter(r)
  PROVE  SplitOK' /\ Own(r)'
<1> DEFINE a == RawStart(r)
<1>1. /\ file \in Inputs /\ file.size \in Nat /\ file.header \in 0..file.size
      /\ a \in Nat /\ file.header <= a /\ a <= file.size
  BY OwnFacts, Ranges
<1>2. SplitOK /\ Buffered(r) /\ Kept(r)
  BY DEF SplitInv
<1>3. file' = file /\ torn' = torn /\ at[r] = "out"
  BY DEF Enter, Step
<1>4. Behind(r) \in BOOLEAN
  BY DEF Behind
<1>5. SplitOK'
  BY <1>1, <1>2, <1>4 DEF Enter, Step, SplitOK
<1>6. /\ at'[r] = "read" /\ pos'[r] = a /\ carry_at'[r] = a /\ drop_first'[r] = Behind(r)
      /\ carry'[r] = <<>> /\ acc'[r] = <<>>
  BY <1>2 DEF Enter, Step, SplitOK, Buffered, Kept
<1>7. Cursor(r)' = a
  BY <1>6 DEF Cursor
<1>8. Buffered(r)'
  <2>1. SubSeq(Bytes(file), a + 1, a) = <<>>
    BY <1>1, SubSeqEmpty
  <2>2. a..(a - 1) = {}
    BY <1>1
  <2> HIDE DEF a
  <2>3. a <= a
    BY <1>1
  <2> QED
    BY <1>1, <1>3, <1>6, <1>7, <2>1, <2>2, <2>3, FileFrame DEF Buffered, a
<1>9. OnLine(r)'
  <2>1. ~Behind(r) => a = file.header \/ a - 1 \in file.newlines
    BY <1>1, Ranges DEF Behind
  <2> QED
    BY <1>3, <1>6, <1>7, <2>1, FileFrame DEF OnLine
<1>10. Kept(r)'
  <2>1. StartsIn(a, a) = {}
    <3>1. \A o \in Starts : o \in Nat
      BY <1>1, StartFacts
    <3> QED
      BY <1>1, <3>1 DEF StartsIn
  <2>2. DOMAIN <<>> = {}
    OBVIOUS
  <2>3. AreLines(<<>>, {})
    BY <2>2 DEF AreLines
  <2> QED
    BY <1>3, <1>6, <1>7, <2>1, <2>2, <2>3, FileFrame DEF Kept
<1> QED
  BY <1>5, <1>8, <1>9, <1>10 DEF Own

LEMMA ReadOwn ==
  ASSUME SplitInv, NEW r \in Rank, Read(r)
  PROVE  SplitOK' /\ Own(r)'
<1> DEFINE c == carry_at[r]
<1>1. SplitOK /\ Buffered(r) /\ OnLine(r) /\ Kept(r)
  BY DEF SplitInv
<1>2. file' = file /\ torn' = torn /\ at[r] = "read" /\ at' = [at EXCEPT ![r] = "scan"]
  BY DEF Read, Step
<1>3. PICK got \in 1..Wanted(r) :
        /\ work' = [work EXCEPT ![r] =
                      carry[r] \o SubSeq(Bytes(file), pos[r] + 1, pos[r] + got)]
        /\ pos' = [pos EXCEPT ![r] = @ + got]
  BY DEF Read
<1>4. /\ work_at' = [work_at EXCEPT ![r] = carry_at[r]]
      /\ i' = [i EXCEPT ![r] = 0] /\ carry' = [carry EXCEPT ![r] = <<>>]
      /\ UNCHANGED <<file, carry_at, drop_first, acc, torn>>
  BY DEF Read
<1> DEFINE n == pos[r] + got
<1>5. /\ file \in Inputs /\ file.size \in Nat /\ pos[r] \in Nat /\ c \in Nat
      /\ RawStart(r) \in Nat /\ RawStart(r) <= c /\ c <= pos[r] /\ pos[r] < file.size
  BY <1>1, <1>2, OwnFacts DEF Read, Buffered, Cursor
<1>6. n \in Nat /\ pos[r] <= n /\ n <= file.size
  <2>1. Wanted(r) \in Nat /\ Wanted(r) <= file.size - pos[r]
    BY <1>5, FileFacts DEF Wanted
  <2> QED
    BY <1>5, <2>1
<1>7. carry[r] = SubSeq(Bytes(file), c + 1, pos[r])
  BY <1>1, <1>2 DEF Buffered
<1> HIDE DEF n
<1>8. work' = [work EXCEPT ![r] = SubSeq(Bytes(file), c + 1, n)]
  <2>1. carry[r] \o SubSeq(Bytes(file), pos[r] + 1, n) = SubSeq(Bytes(file), c + 1, n)
    <3> DEFINE m == pos[r]
    <3>1. /\ file \in Inputs /\ c \in Nat /\ m \in Nat /\ n \in Nat
          /\ c <= m /\ m <= n /\ n <= file.size
      BY <1>5, <1>6
    <3> HIDE DEF c, m
    <3>2. SubSeq(Bytes(file), c + 1, m) \o SubSeq(Bytes(file), m + 1, n)
            = SubSeq(Bytes(file), c + 1, n)
      BY <3>1, PartsMeet
    <3> QED
      BY <1>7, <3>2 DEF m
  <2> QED
    BY <1>3, <2>1 DEF n
<1>9. SubSeq(Bytes(file), c + 1, n) \in Seq(Int) /\ Len(SubSeq(Bytes(file), c + 1, n)) = n - c
  <2>1. c <= n
    BY <1>5, <1>6
  <2> QED
    BY <1>5, <1>6, <2>1, Part
<1>10. /\ at'[r] = "scan" /\ pos'[r] = n /\ work_at'[r] = c /\ i'[r] = 0
       /\ work'[r] = SubSeq(Bytes(file), c + 1, n)
       /\ drop_first'[r] = drop_first[r] /\ acc'[r] = acc[r]
  BY <1>1, <1>2, <1>3, <1>4, <1>8 DEF SplitOK, n
<1>11. SplitOK'
  <2>1. pos' \in [Rank -> Nat] /\ work' \in [Rank -> Seq(Int)]
    BY <1>1, <1>3, <1>6, <1>8, <1>9 DEF SplitOK, n
  <2>2. carry' \in [Rank -> Seq(Int)]
    BY <1>1, <1>4 DEF SplitOK
  <2> QED
    BY <1>1, <1>2, <1>4, <1>5, <2>1, <2>2 DEF SplitOK
<1>12. Cursor(r)' = c /\ Cursor(r) = c
  BY <1>2, <1>5, <1>10 DEF Cursor, LineAt
<1>13. Buffered(r)'
  <2>1. c + (n - c) = n /\ c <= n
    BY <1>5, <1>6
  <2> QED
    BY <1>2, <1>5, <1>6, <1>9, <1>10, <1>12, <2>1, FileFrame DEF Buffered
<1>14. OnLine(r)'
  BY <1>1, <1>2, <1>10, <1>12, FileFrame DEF OnLine
<1>15. Kept(r)'
  BY <1>1, <1>2, <1>10, <1>12, FileFrame DEF Kept
<1> QED
  BY <1>11, <1>13, <1>14, <1>15 DEF Own

LEMMA ReadEndsOwn ==
  ASSUME SplitInv, NEW r \in Rank, ReadFails(r) \/ ReadAll(r)
  PROVE  SplitOK' /\ Own(r)'
<1>1. SplitOK /\ Buffered(r) /\ OnLine(r) /\ Kept(r)
  BY DEF SplitInv
<1>2. /\ at[r] = "read" /\ at' = [at EXCEPT ![r] = "tail"]
      /\ UNCHANGED <<file, pos, buffers, drop_first, acc>>
      /\ torn' = TRUE \/ (torn' = torn /\ pos[r] >= file.size)
  BY DEF ReadFails, ReadAll, Step
<1>3. UNCHANGED <<file, pos, carry, carry_at, work, work_at, i, drop_first, acc>>
  BY <1>2 DEF buffers
<1>4. at'[r] = "tail"
  BY <1>1, <1>2 DEF SplitOK
<1>5. SplitOK'
  BY <1>1, <1>2, <1>3 DEF SplitOK
<1>6. Cursor(r)' = carry_at[r] /\ Cursor(r) = carry_at[r]
  BY <1>2, <1>3, <1>4 DEF Cursor
<1>7. Buffered(r)'
  BY <1>1, <1>2, <1>3, <1>4, <1>6, FileFrame DEF Buffered
<1>8. OnLine(r)'
  BY <1>1, <1>2, <1>3, <1>4, <1>6, FileFrame DEF OnLine
<1>9. Kept(r)'
  <2>1. torn' \/ pos'[r] = file'.size
    <3>1. pos[r] <= file.size /\ pos[r] \in Nat /\ file.size \in Nat
      BY <1>1, <1>2, OwnFacts DEF Buffered
    <3> QED
      BY <1>2, <1>3, <3>1
  <2> QED
    BY <1>1, <1>2, <1>3, <1>4, <1>6, <2>1, FileFrame DEF Kept
<1> QED
  BY <1>5, <1>7, <1>8, <1>9 DEF Own

\* What is being scanned: newlines are where the file has them.
LEMMA Scanned ==
  ASSUME SplitInv, NEW r \in Rank, at[r] = "scan"
  PROVE  /\ work_at[r] \in Nat /\ i[r] \in Nat /\ Len(work[r]) \in Nat
         /\ LineAt(r) = work_at[r] + i[r] /\ Cursor(r) = LineAt(r)
         /\ work_at[r] + Len(work[r]) = pos[r] /\ pos[r] <= file.size
         /\ i[r] <= Len(work[r])
         /\ work[r] = SubSeq(Bytes(file), work_at[r] + 1, pos[r])
         /\ \A e \in 0..(Len(work[r]) - 1) :
              work[r][e + 1] = NL <=> work_at[r] + e \in file.newlines
<1> DEFINE w == work_at[r]
           n == Len(work[r])
<1>1. Buffered(r) /\ SplitOK /\ file \in Inputs
  BY DEF SplitInv, SplitOK
<1>2. w \in Nat /\ i[r] \in Nat /\ pos[r] \in Nat /\ n \in Nat
  BY <1>1, LenProperties DEF SplitOK
<1>3. LineAt(r) = w + i[r] /\ Cursor(r) = LineAt(r)
  BY DEF LineAt, Cursor
<1>4. /\ Cursor(r) <= pos[r] /\ pos[r] <= file.size /\ w + n = pos[r]
      /\ work[r] = SubSeq(Bytes(file), w + 1, pos[r])
  BY <1>1 DEF Buffered
<1> HIDE DEF w, n
<1>5. i[r] <= n /\ w <= pos[r] /\ pos[r] - w = n
  <2>1. w + i[r] <= pos[r] /\ w + n = pos[r]
    BY <1>3, <1>4
  <2> QED
    BY <1>2, <2>1
<1>6. \A k \in 1..(pos[r] - w) :
        work[r][k] = IF w + k - 1 \in file.newlines THEN NL ELSE w + k - 1
  <2> DEFINE p == pos[r]
  <2>1. p \in Nat /\ p <= file.size /\ w <= p /\ work[r] = SubSeq(Bytes(file), w + 1, p)
    BY <1>2, <1>4, <1>5
  <2> HIDE DEF p
  <2>2. LET t == SubSeq(Bytes(file), w + 1, p) IN
        /\ t \in Seq(Int) /\ Len(t) = p - w /\ DOMAIN t = 1..(p - w)
        /\ \A k \in 1..(p - w) : t[k] = IF w + k - 1 \in file.newlines THEN NL ELSE w + k - 1
    BY <1>1, <1>2, <2>1, Part
  <2> QED
    BY <2>1, <2>2 DEF p
<1>7. ASSUME NEW e \in 0..(n - 1)
      PROVE  work[r][e + 1] = NL <=> w + e \in file.newlines
  <2>1. e + 1 \in 1..(pos[r] - w) /\ w + (e + 1) - 1 = w + e /\ w + e # NL
    BY <1>2, <1>5 DEF NL
  <2> QED
    BY <1>6, <2>1
<1> QED
  BY <1>2, <1>3, <1>4, <1>5, <1>7 DEF w, n

\* The line at the cursor ends at the first newline from there.
LEMMA NextNewline ==
  ASSUME SplitInv, NEW r \in Rank, at[r] = "scan", Ends(r) # {}
  PROVE  LET x == work_at[r] + FirstEnd(r) IN
         /\ FirstEnd(r) \in i[r]..(Len(work[r]) - 1)
         /\ x \in file.newlines /\ LineAt(r) <= x /\ x < pos[r]
         /\ \A y \in LineAt(r)..(x - 1) : y \notin file.newlines
<1> DEFINE w == work_at[r]
           n == Len(work[r])
           f == FirstEnd(r)
<1>1. /\ w \in Nat /\ i[r] \in Nat /\ n \in Nat /\ LineAt(r) = w + i[r] /\ w + n = pos[r]
      /\ \A e \in 0..(n - 1) : work[r][e + 1] = NL <=> w + e \in file.newlines
  BY Scanned
<1>2. Ends(r) = {e \in i[r]..(n - 1) : work[r][e + 1] = NL}
  BY DEF Ends
<1>3. Ends(r) \subseteq Nat
  BY <1>1, <1>2
<1>4. Min(Ends(r)) \in Ends(r) /\ \A y \in Ends(r) : Min(Ends(r)) <= y
  BY <1>3, MinNat
<1>5. f \in Ends(r) /\ \A y \in Ends(r) : f <= y
  BY <1>4 DEF FirstEnd
<1> HIDE DEF w, n, f
<1>6. f \in i[r]..(n - 1) /\ f \in 0..(n - 1) /\ w + f \in file.newlines
  BY <1>1, <1>2, <1>5
<1>7. ASSUME NEW y \in (w + i[r])..(w + f - 1) PROVE y \notin file.newlines
  <2>1. y - w \in i[r]..(n - 1) /\ y - w \in 0..(n - 1) /\ y - w < f /\ w + (y - w) = y
    BY <1>1, <1>6
  <2>2. y - w \notin Ends(r)
    BY <1>1, <1>5, <1>6, <2>1
  <2> QED
    BY <1>1, <1>2, <2>1, <2>2
<1>8. w + i[r] <= w + f /\ w + f < pos[r]
  BY <1>1, <1>6
<1> QED
  BY <1>1, <1>6, <1>7, <1>8 DEF w, n, f

\* A part that ends at a newline, or at the end of the file.
LEMMA ScannedPart ==
  ASSUME SplitInv, NEW r \in Rank, at[r] = "scan", NEW e \in i[r]..Len(work[r])
  PROVE  SubSeq(work[r], i[r] + 1, e) = SubSeq(Bytes(file), LineAt(r) + 1, work_at[r] + e)
<1> DEFINE w == work_at[r]
           n == Len(work[r])
           m == i[r]
           p == pos[r]
<1>1. /\ w \in Nat /\ m \in Nat /\ n \in Nat /\ LineAt(r) = w + m /\ w + n = p
      /\ p <= file.size /\ work[r] = SubSeq(Bytes(file), w + 1, p)
  BY Scanned
<1>2. file \in Inputs /\ e \in Nat /\ m <= e /\ e <= n
  BY <1>1 DEF SplitInv, SplitOK
<1> HIDE DEF w, n, m, p
<1>3. p \in Nat /\ w <= p /\ e <= p - w
  BY <1>1, <1>2
<1>4. SubSeq(SubSeq(Bytes(file), w + 1, p), m + 1, e) = SubSeq(Bytes(file), w + m + 1, w + e)
  BY <1>1, <1>2, <1>3, PartOfPart
<1> QED
  BY <1>1, <1>4 DEF w, m

\* Folding one more record: what begins before the new cursor is kept.
LEMMA KeepLine ==
  ASSUME SplitInv, NEW r \in Rank, NEW o \in Nat, NEW x \in Nat,
         AreLines(acc[r], StartsIn(RawStart(r), o)), RawStart(r) <= o, o <= x, o < file.size,
         o = file.header \/ o - 1 \in file.newlines,
         \A y \in o..(x - 1) : y \notin file.newlines,
         x \in file.newlines \/ x = file.size
  PROVE  /\ o = x => StartsIn(RawStart(r), x + 1) = StartsIn(RawStart(r), o)
         /\ o < x => /\ o \in Starts
                     /\ StartsIn(RawStart(r), x + 1) = StartsIn(RawStart(r), o) \union {o}
                     /\ AreLines(Append(acc[r], LineFrom(o)), StartsIn(RawStart(r), x + 1))
<1> DEFINE a == RawStart(r)
<1>1. /\ file \in Inputs /\ file.size \in Nat /\ file.header \in Nat
      /\ a \in Nat /\ file.header <= a /\ acc[r] \in Seq(Seq(Int))
  BY OwnFacts
<1>2. \A y \in Starts : y \in Nat /\ y < file.size /\ y \notin file.newlines
  BY <1>1, StartFacts DEF Starts
<1>3. ASSUME NEW y \in Starts, o < y PROVE x < y
  BY <1>1, <1>3, NoStart
<1> HIDE DEF a
<1>4. ASSUME o = x PROVE StartsIn(a, x + 1) = StartsIn(a, o)
  <2>1. x \notin Starts
    BY <1>2, <1>4
  <2>2. ASSUME NEW y \in Starts PROVE y < x + 1 <=> y < o
    BY <1>2, <1>4, <2>1
  <2> QED
    BY <2>2 DEF StartsIn
<1>5. ASSUME o < x
      PROVE  /\ o \in Starts
             /\ StartsIn(a, x + 1) = StartsIn(a, o) \union {o}
             /\ AreLines(Append(acc[r], LineFrom(o)), StartsIn(a, x + 1))
  <2>1. o \in Starts
    <3>1. o \in o..(x - 1)
      BY <1>5
    <3>2. o \in file.header..(file.size - 1)
      BY <1>1 DEF a
    <3> QED
      BY <3>1, <3>2 DEF Starts
  <2>2. ASSUME NEW y \in Starts PROVE (a <= y /\ y < x + 1) <=> ((a <= y /\ y < o) \/ y = o)
    <3>1. CASE y <= o
      BY <1>1, <1>2, <1>5, <3>1 DEF a
    <3>2. CASE o < y
      BY <1>2, <1>3, <3>2
    <3> QED
      BY <1>2, <3>1, <3>2
  <2>3. StartsIn(a, x + 1) = StartsIn(a, o) \union {o}
    BY <2>1, <2>2 DEF StartsIn
  <2>4. StartsIn(a, o) \in SUBSET Starts /\ \A y \in StartsIn(a, o) : y < o
    BY DEF StartsIn
  <2>5. AreLines(Append(acc[r], LineFrom(o)), StartsIn(a, o) \union {o})
    BY <1>1, <2>1, <2>4, OneMore DEF a
  <2> QED
    BY <2>1, <2>3, <2>5
<1> QED
  BY <1>4, <1>5 DEF a

\* The heads of what is folded are in the range, and so is one more there.
LEMMA KeepHeads ==
  ASSUME SplitInv, NEW r \in Rank, NEW l \in Seq(Int),
         Head(l) \in RawStart(r)..(RawEnd(r) - 1)
  PROVE  /\ Append(acc[r], l) \in Seq(Seq(Int))
         /\ \A k \in DOMAIN Append(acc[r], l) :
              Head(Append(acc[r], l)[k]) \in RawStart(r)..(RawEnd(r) - 1)
<1>1. acc[r] \in Seq(Seq(Int)) /\ Kept(r)
  BY OwnFacts DEF SplitInv
<1> DEFINE ms == Append(acc[r], l)
<1>2. /\ ms \in Seq(Seq(Int)) /\ Len(ms) = Len(acc[r]) + 1 /\ Len(acc[r]) \in Nat
      /\ \A k \in 1..Len(acc[r]) : ms[k] = acc[r][k]
      /\ ms[Len(acc[r]) + 1] = l
  BY <1>1, AppendProperties, LenProperties
<1>3. DOMAIN acc[r] = 1..Len(acc[r]) /\ DOMAIN ms = 1..Len(ms)
  BY <1>1, <1>2, LenProperties
<1> HIDE DEF ms
<1>4. ASSUME NEW k \in DOMAIN ms PROVE Head(ms[k]) \in RawStart(r)..(RawEnd(r) - 1)
  <2>1. k \in 1..Len(acc[r]) \/ k = Len(acc[r]) + 1
    BY <1>2, <1>3
  <2>2. CASE k \in 1..Len(acc[r])
    BY <1>1, <1>2, <1>3, <2>2 DEF Kept
  <2> QED
    BY <1>2, <2>1, <2>2
<1> QED
  BY <1>2, <1>4 DEF ms

LEMMA LineOwn ==
  ASSUME SplitInv, NEW r \in Rank, Line(r)
  PROVE  SplitOK' /\ Own(r)'
<1> DEFINE a == RawStart(r)
           o == LineAt(r)
           e == FirstEnd(r)
           x == work_at[r] + e
           l == SubSeq(work[r], i[r] + 1, e)
<1>1. SplitOK /\ Buffered(r) /\ OnLine(r) /\ Kept(r)
  BY DEF SplitInv
<1>2. /\ at[r] = "scan" /\ Ends(r) # {} /\ (drop_first[r] \/ o < RawEnd(r))
      /\ drop_first' = [drop_first EXCEPT ![r] = FALSE]
      /\ acc' = (IF drop_first[r] THEN acc ELSE [acc EXCEPT ![r] = Parsed(@, l)])
      /\ i' = [i EXCEPT ![r] = e + 1]
      /\ UNCHANGED <<file, at, pos, carry, carry_at, work, work_at, torn>>
  BY DEF Line
<1>3. /\ file \in Inputs /\ file.size \in Nat /\ file.header \in Nat
      /\ a \in Nat /\ file.header <= a /\ acc[r] \in Seq(Seq(Int)) /\ RawEnd(r) \in Nat
      /\ drop_first[r] \in BOOLEAN
  BY OwnFacts
<1>4. /\ work_at[r] \in Nat /\ i[r] \in Nat /\ Len(work[r]) \in Nat
      /\ o = work_at[r] + i[r] /\ Cursor(r) = o
      /\ work_at[r] + Len(work[r]) = pos[r] /\ pos[r] <= file.size
  BY <1>2, Scanned
<1>5. /\ e \in i[r]..(Len(work[r]) - 1)
      /\ x \in file.newlines /\ o <= x /\ x < pos[r]
      /\ \A y \in o..(x - 1) : y \notin file.newlines
  BY <1>2, NextNewline
<1>6. l = SubSeq(Bytes(file), o + 1, x)
  <2>1. e \in i[r]..Len(work[r])
    BY <1>4, <1>5
  <2> QED
    BY <1>2, <2>1, ScannedPart
<1>7. a <= o
  BY <1>1, <1>2, <1>4 DEF Buffered
<1> HIDE DEF a, o, e, l
<1>8. e \in Nat /\ o \in Nat /\ x \in Nat /\ o < file.size /\ pos[r] \in Nat
  <2>1. e \in Nat
    BY <1>4, <1>5
  <2>2. x \in Nat /\ o \in Nat /\ pos[r] \in Nat
    BY <1>4, <2>1
  <2>3. o <= x /\ x < pos[r] /\ pos[r] <= file.size
    BY <1>4, <1>5
  <2> HIDE DEF x
  <2> QED
    BY <1>3, <2>1, <2>2, <2>3
<1>9. /\ at'[r] = "scan" /\ i'[r] = e + 1 /\ work'[r] = work[r] /\ work_at'[r] = work_at[r]
      /\ pos'[r] = pos[r] /\ drop_first'[r] = FALSE
      /\ acc'[r] = (IF drop_first[r] THEN acc[r] ELSE Parsed(acc[r], l))
  BY <1>1, <1>2 DEF SplitOK
<1>10. Cursor(r)' = x + 1
  <2>1. Cursor(r)' = work_at[r] + (e + 1)
    BY <1>9 DEF Cursor, LineAt
  <2> QED
    BY <1>4, <1>8, <2>1
<1> HIDE DEF x
<1>11. /\ acc'[r] \in Seq(Seq(Int))
       /\ AreLines(acc'[r], StartsIn(a, x + 1))
       /\ \A k \in DOMAIN acc'[r] : Head(acc'[r][k]) \in a..(RawEnd(r) - 1)
  <2>0. /\ AreLines(acc[r], StartsIn(a, o))
        /\ \A k \in DOMAIN acc[r] : Head(acc[r][k]) \in a..(RawEnd(r) - 1)
    BY <1>1, <1>2, <1>4 DEF Kept, a
  <2>1. CASE drop_first[r]
    <3>1. o = a /\ Behind(r)
      BY <1>1, <1>2, <1>4, <2>1 DEF OnLine, a
    <3>2. \A y \in Starts : a <= y => x < y
      BY <1>3, <1>5, <1>8, <3>1, Dropped DEF a
    <3>3. \A y \in Starts : y \in Nat
      BY <1>3, StartFacts
    <3>4. StartsIn(a, x + 1) = {} /\ StartsIn(a, o) = {}
      BY <1>3, <1>8, <3>1, <3>2, <3>3 DEF StartsIn
    <3> QED
      BY <1>3, <1>9, <2>0, <2>1, <3>4
  <2>2. CASE ~drop_first[r]
    <3>1. o = file.header \/ o - 1 \in file.newlines
      BY <1>1, <1>2, <1>4, <2>2 DEF OnLine
    <3>2. /\ o = x => StartsIn(a, x + 1) = StartsIn(a, o)
          /\ o < x => /\ o \in Starts
                      /\ AreLines(Append(acc[r], LineFrom(o)), StartsIn(a, x + 1))
      BY <1>5, <1>7, <1>8, <2>0, <3>1, KeepLine DEF a
    <3>3. CASE o = x
      <4>1. l = <<>>
        BY <1>6, <1>8, <3>3, SubSeqEmpty
      <4> QED
        BY <1>3, <1>9, <2>0, <2>2, <3>2, <3>3, <4>1 DEF Parsed
    <3>4. CASE o < x
      <4>1. l = LineFrom(o)
        <5>1. x <= file.size
          BY <1>3, <1>4, <1>5, <1>8
        <5> QED
          BY <1>3, <1>5, <1>6, <1>8, <3>4, <5>1, WholeLine
      <4>2. l \in Seq(Int) /\ l # <<>> /\ Head(l) = o
        BY <1>3, <3>2, <3>4, <4>1, StartFacts
      <4>3. o \in a..(RawEnd(r) - 1)
        BY <1>2, <1>3, <1>7, <1>8, <2>2
      <4>4. /\ Append(acc[r], l) \in Seq(Seq(Int))
            /\ \A k \in DOMAIN Append(acc[r], l) : Head(Append(acc[r], l)[k]) \in a..(RawEnd(r) - 1)
        BY <4>2, <4>3, KeepHeads DEF a
      <4>5. acc'[r] = Append(acc[r], l)
        BY <1>9, <2>2, <4>2 DEF Parsed
      <4> QED
        BY <3>2, <3>4, <4>1, <4>4, <4>5
    <3> QED
      BY <1>5, <1>8, <3>3, <3>4
  <2> QED
    BY <2>1, <2>2, <1>3
<1>12. SplitOK'
  <2>1. acc' \in [Rank -> Seq(Seq(Int))]
    BY <1>1, <1>2, <1>9, <1>11 DEF SplitOK
  <2> QED
    BY <1>1, <1>2, <1>8, <2>1 DEF SplitOK
<1>13. Buffered(r)'
  <2>1. a <= x + 1 /\ x + 1 <= pos[r]
    BY <1>3, <1>5, <1>7, <1>8
  <2> QED
    BY <1>1, <1>2, <1>9, <1>10, <2>1, FileFrame DEF Buffered, a
<1>14. OnLine(r)'
  <2>1. (x + 1) - 1 \in file.newlines
    BY <1>5, <1>8
  <2> QED
    BY <1>2, <1>9, <1>10, <2>1 DEF OnLine
<1>15. Kept(r)'
  BY <1>2, <1>9, <1>10, <1>11, FileFrame DEF Kept, a
<1> QED
  BY <1>12, <1>13, <1>14, <1>15 DEF Own

\* Once the cursor is beyond the range, all that begins in the range is folded.
LEMMA RangeKept ==
  ASSUME SplitInv, NEW r \in Rank, at[r] \in {"read", "scan", "tail"},
         RawEnd(r) <= Cursor(r)
  PROVE  AreLines(acc[r], StartsIn(RawStart(r), RawEnd(r)))
<1> DEFINE a == RawStart(r)
           b == RawEnd(r)
           c == Cursor(r)
<1>1. Kept(r) /\ file \in Inputs /\ b \in Nat /\ c \in Nat
  BY OwnFacts DEF SplitInv
<1>2. AreLines(acc[r], StartsIn(a, c)) /\ \A k \in DOMAIN acc[r] : Head(acc[r][k]) \in a..(b - 1)
  BY <1>1 DEF Kept
<1>3. \A y \in Starts : y \in Nat
  BY <1>1, StartFacts
<1>4. b <= c
  OBVIOUS
<1> HIDE DEF a, b, c
<1>5. ASSUME NEW y \in StartsIn(a, c) PROVE y < b
  <2>1. PICK k \in DOMAIN acc[r] : Head(acc[r][k]) = y
    BY <1>2 DEF AreLines
  <2>2. y \in a..(b - 1) /\ y \in Nat
    BY <1>2, <1>3, <2>1 DEF StartsIn
  <2> QED
    BY <1>1, <2>2
<1>6. ASSUME NEW y \in Starts PROVE (a <= y /\ y < c) <=> (a <= y /\ y < b)
  <2>1. a <= y /\ y < c => y < b
    BY <1>5 DEF StartsIn
  <2>2. y < b => y < c
    BY <1>1, <1>3, <1>4
  <2> QED
    BY <2>1, <2>2
<1>7. StartsIn(a, c) = StartsIn(a, b)
  BY <1>6 DEF StartsIn
<1> QED
  BY <1>2, <1>7 DEF a, b

LEMMA BeyondOwn ==
  ASSUME SplitInv, NEW r \in Rank, Beyond(r)
  PROVE  SplitOK' /\ Own(r)'
<1>1. SplitOK /\ Kept(r) /\ LineAt(r) \in Nat /\ Cursor(r) = LineAt(r) /\ RawEnd(r) \in Nat
  BY OwnFacts DEF SplitInv, Beyond, Step, Cursor
<1>2. /\ at[r] = "scan" /\ at' = [at EXCEPT ![r] = "split"] /\ LineAt(r) >= RawEnd(r)
      /\ UNCHANGED <<file, pos, buffers, drop_first, acc, torn>>
  BY DEF Beyond, Step
<1>3. SplitOK' /\ at'[r] = "split"
  BY <1>1, <1>2 DEF SplitOK, buffers
<1>4. AreLines(acc[r], StartsIn(RawStart(r), RawEnd(r)))
  <2>1. RawEnd(r) <= Cursor(r)
    BY <1>1, <1>2
  <2> QED
    BY <1>2, <2>1, RangeKept
<1>5. Kept(r)'
  BY <1>1, <1>2, <1>3, <1>4, FileFrame DEF Kept
<1>6. Buffered(r)' /\ OnLine(r)'
  BY <1>3 DEF Buffered, OnLine
<1> QED
  BY <1>3, <1>5, <1>6 DEF Own

LEMMA CarryOverOwn ==
  ASSUME SplitInv, NEW r \in Rank, CarryOver(r)
  PROVE  SplitOK' /\ Own(r)'
<1> DEFINE o == LineAt(r)
           n == Len(work[r])
           l == SubSeq(work[r], i[r] + 1, n)
<1>1. SplitOK /\ Buffered(r) /\ OnLine(r) /\ Kept(r)
  BY DEF SplitInv
<1>2. /\ at[r] = "scan" /\ at' = [at EXCEPT ![r] = "read"] /\ Ends(r) = {}
      /\ carry' = [carry EXCEPT ![r] = l] /\ carry_at' = [carry_at EXCEPT ![r] = o]
      /\ work' = [work EXCEPT ![r] = <<>>]
      /\ work_at' = [work_at EXCEPT ![r] = 0] /\ i' = [i EXCEPT ![r] = 0]
      /\ UNCHANGED <<file, pos, drop_first, acc, torn>>
  BY DEF CarryOver, Step, CarriedAt
<1>3. file \in Inputs /\ file.size \in Nat /\ RawStart(r) \in Nat /\ pos[r] \in Nat
  BY OwnFacts
<1>4. /\ work_at[r] \in Nat /\ i[r] \in Nat /\ n \in Nat
      /\ o = work_at[r] + i[r] /\ Cursor(r) = o
      /\ work_at[r] + n = pos[r] /\ pos[r] <= file.size /\ i[r] <= n
      /\ \A e \in 0..(n - 1) : work[r][e + 1] = NL <=> work_at[r] + e \in file.newlines
  BY <1>2, Scanned
<1>5. l = SubSeq(Bytes(file), o + 1, pos[r])
  <2>1. n \in i[r]..n
    BY <1>4
  <2>2. l = SubSeq(Bytes(file), o + 1, work_at[r] + n)
    BY <1>2, <2>1, ScannedPart
  <2> QED
    BY <1>4, <2>2
<1>6. RawStart(r) <= o
  BY <1>1, <1>2, <1>4 DEF Buffered
<1>7. Ends(r) = {e \in i[r]..(n - 1) : work[r][e + 1] = NL}
  BY DEF Ends
<1> HIDE DEF o, n, l
<1>8. o \in Nat /\ o <= pos[r]
  BY <1>3, <1>4
<1>9. ASSUME NEW y \in o..(pos[r] - 1) PROVE y \notin file.newlines
  <2> DEFINE e == y - work_at[r]
  <2>1. e \in i[r]..(n - 1) /\ e \in 0..(n - 1) /\ work_at[r] + e = y
    BY <1>3, <1>4, <1>8
  <2>2. e \notin Ends(r)
    BY <1>2
  <2> HIDE DEF e
  <2> QED
    BY <1>4, <1>7, <2>1, <2>2
<1>10. l \in Seq(Int)
  <2> DEFINE p == pos[r]
  <2>1. p \in Nat /\ p <= file.size /\ o <= p /\ l = SubSeq(Bytes(file), o + 1, p)
    BY <1>3, <1>4, <1>5, <1>8
  <2> HIDE DEF p
  <2> QED
    BY <1>3, <1>8, <2>1, Part
<1>11. /\ at'[r] = "read" /\ carry'[r] = l /\ carry_at'[r] = o /\ pos'[r] = pos[r]
       /\ drop_first'[r] = drop_first[r] /\ acc'[r] = acc[r]
  BY <1>1, <1>2 DEF SplitOK
<1>12. SplitOK'
  <2>1. <<>> \in Seq(Int)
    OBVIOUS
  <2> QED
    BY <1>1, <1>2, <1>8, <1>10, <2>1 DEF SplitOK
<1>13. Cursor(r)' = o
  BY <1>11 DEF Cursor
<1>14. Buffered(r)'
  BY <1>2, <1>4, <1>5, <1>6, <1>8, <1>9, <1>11, <1>13, FileFrame DEF Buffered
<1>15. OnLine(r)'
  BY <1>1, <1>2, <1>4, <1>11, <1>13, FileFrame DEF OnLine
<1>16. Kept(r)'
  BY <1>1, <1>2, <1>4, <1>11, <1>13, FileFrame DEF Kept
<1> QED
  BY <1>12, <1>14, <1>15, <1>16 DEF Own

LEMMA RestOwn ==
  ASSUME SplitInv, NEW r \in Rank, Rest(r)
  PROVE  SplitOK' /\ Own(r)'
<1> DEFINE a == RawStart(r)
           b == RawEnd(r)
           c == carry_at[r]
           p == pos[r]
           l == carry[r]
<1>1. SplitOK /\ Buffered(r) /\ OnLine(r) /\ Kept(r)
  BY DEF SplitInv
<1>2. /\ at[r] = "tail" /\ at' = [at EXCEPT ![r] = "split"]
      /\ acc' = IF ~drop_first[r] /\ c < b THEN [acc EXCEPT ![r] = Parsed(@, l)] ELSE acc
      /\ UNCHANGED <<file, pos, buffers, drop_first, torn>>
  BY DEF Rest, Step
<1>3. /\ file \in Inputs /\ file.size \in Nat /\ file.header \in Nat
      /\ a \in Nat /\ file.header <= a /\ acc[r] \in Seq(Seq(Int))
      /\ b \in Nat /\ a <= b /\ b <= file.size
      /\ drop_first[r] \in BOOLEAN /\ c \in Nat /\ p \in Nat /\ l \in Seq(Int)
  BY OwnFacts
<1>4. /\ Cursor(r) = c /\ a <= c /\ c <= p /\ p <= file.size
      /\ l = SubSeq(Bytes(file), c + 1, p)
      /\ \A y \in c..(p - 1) : y \notin file.newlines
  BY <1>1, <1>2 DEF Buffered, Cursor
<1>5. /\ IF drop_first[r] THEN c = a /\ Behind(r)
         ELSE c = file.header \/ c - 1 \in file.newlines
      /\ AreLines(acc[r], StartsIn(a, c))
      /\ torn \/ p = file.size
      /\ \A k \in DOMAIN acc[r] : Head(acc[r][k]) \in a..(b - 1)
  BY <1>1, <1>2, <1>4 DEF OnLine, Kept
<1>6. b <= c => AreLines(acc[r], StartsIn(a, b))
  BY <1>2, <1>4, RangeKept
<1>7. /\ at'[r] = "split" /\ torn' = torn /\ file' = file
      /\ acc'[r] = IF ~drop_first[r] /\ c < b THEN Parsed(acc[r], l) ELSE acc[r]
  BY <1>1, <1>2 DEF SplitOK
<1> HIDE DEF a, b, c, p, l
<1>8. /\ acc'[r] \in Seq(Seq(Int))
      /\ ~torn => AreLines(acc'[r], StartsIn(a, b))
      /\ \A k \in DOMAIN acc'[r] : Head(acc'[r][k]) \in a..(b - 1)
  <2>1. CASE drop_first[r]
    <3>1. acc'[r] = acc[r]
      BY <1>7, <2>1
    <3>2. ASSUME ~torn PROVE AreLines(acc'[r], StartsIn(a, b))
      <4>1. p = file.size /\ c = a /\ Behind(r)
        BY <1>5, <2>1, <3>2
      <4>2. \A y \in Starts : a <= y => p < y
        BY <1>3, <1>4, <4>1, Dropped DEF a
      <4>3. \A y \in Starts : y \in Nat /\ y < file.size
        BY <1>3, StartFacts
      <4>4. StartsIn(a, b) = {} /\ StartsIn(a, c) = {}
        BY <1>3, <4>1, <4>2, <4>3 DEF StartsIn
      <4> QED
        BY <1>5, <3>1, <4>4
    <3> QED
      BY <1>3, <1>5, <3>1, <3>2
  <2>2. CASE ~drop_first[r] /\ b <= c
    <3>1. acc'[r] = acc[r]
      BY <1>3, <1>7, <2>2
    <3> QED
      BY <1>3, <1>5, <1>6, <2>2, <3>1
  <2>3. CASE ~drop_first[r] /\ c < b
    <3>1. acc'[r] = Parsed(acc[r], l)
      BY <1>7, <2>3
    <3>2. CASE c = p
      <4>1. l = <<>>
        BY <1>3, <1>4, <3>2, SubSeqEmpty
      <4>2. torn
        BY <1>3, <1>5, <2>3, <3>2
      <4> QED
        BY <1>3, <1>5, <3>1, <4>1, <4>2 DEF Parsed
    <3>3. CASE c < p
      <4>1. LET t == SubSeq(Bytes(file), c + 1, p) IN
            /\ t \in Seq(Int) /\ Len(t) = p - c /\ DOMAIN t = 1..(p - c)
            /\ \A k \in 1..(p - c) : t[k] = IF c + k - 1 \in file.newlines THEN NL ELSE c + k - 1
        BY <1>3, <1>4, Part
      <4>2. Len(l) = p - c /\ l[1] = IF c + 1 - 1 \in file.newlines THEN NL ELSE c + 1 - 1
        <5>1. 1 \in 1..(p - c)
          BY <1>3, <3>3
        <5> QED
          BY <1>4, <4>1, <5>1
      <4>3. l # <<>> /\ Head(l) = c
        <5>1. c \in c..(p - 1) /\ c + 1 - 1 = c
          BY <1>3, <3>3
        <5>2. Head(l) = c
          BY <1>3, <1>4, <4>2, <5>1
        <5>3. l # <<>>
          BY <1>3, <3>3, <4>2
        <5> QED
          BY <5>2, <5>3
      <4>4. acc'[r] = Append(acc[r], l)
        BY <3>1, <4>3 DEF Parsed
      <4>5. Head(l) \in a..(b - 1)
        BY <1>3, <1>4, <2>3, <4>3
      <4>6. /\ Append(acc[r], l) \in Seq(Seq(Int))
            /\ \A k \in DOMAIN Append(acc[r], l) : Head(Append(acc[r], l)[k]) \in a..(b - 1)
        BY <1>3, <4>5, KeepHeads DEF a, b
      <4>7. ASSUME ~torn PROVE AreLines(acc'[r], StartsIn(a, b))
        <5>1. p = file.size /\ c < file.size
          BY <1>5, <3>3, <4>7
        <5>2. l = LineFrom(c)
          BY <1>3, <1>4, <3>3, <5>1, WholeLine
        <5>3. AreLines(Append(acc[r], LineFrom(c)), StartsIn(a, p + 1))
          <6>1. c <= p
            BY <1>3, <3>3
          <6> QED
            BY <1>3, <1>4, <1>5, <2>3, <3>3, <5>1, <6>1, KeepLine DEF a
        <5>4. StartsIn(a, p + 1) = StartsIn(a, b)
          <6>1. ASSUME NEW y \in Starts PROVE y < p + 1 <=> y < b
            <7>1. y \in Nat /\ y < file.size
              BY <1>3, StartFacts
            <7>2. c < y => p < y
              BY <1>3, <1>4, NoStart
            <7> QED
              BY <1>3, <2>3, <5>1, <7>1, <7>2
          <6> QED
            BY <6>1 DEF StartsIn
        <5> QED
          BY <4>4, <5>2, <5>3, <5>4
      <4> QED
        BY <4>4, <4>6, <4>7
    <3> QED
      BY <1>3, <1>4, <3>2, <3>3
  <2> QED
    BY <1>3, <2>1, <2>2, <2>3
<1>9. SplitOK'
  <2>1. acc' \in [Rank -> Seq(Seq(Int))]
    BY <1>1, <1>2, <1>7, <1>8 DEF SplitOK
  <2> QED
    BY <1>1, <1>2, <2>1 DEF SplitOK, buffers
<1>10. Kept(r)'
  BY <1>7, <1>8, FileFrame DEF Kept, a, b
<1>11. Buffered(r)' /\ OnLine(r)'
  BY <1>7 DEF Buffered, OnLine
<1> QED
  BY <1>9, <1>10, <1>11 DEF Own

LEMMA SplitStep ==
  ASSUME SplitInv, NEW r \in Rank, Enter(r) \/ Splitting(r)
  PROVE  SplitInv'
<1>1. SplitOK' /\ Own(r)'
  BY EnterOwn, ReadOwn, ReadEndsOwn, LineOwn, BeyondOwn, CarryOverOwn, RestOwn DEF Splitting
<1>2. \A q \in Rank : q # r => Own(q)'
  BY OthersAside
<1> QED
  BY <1>1, <1>2 DEF SplitInv, Own

LEMMA SplitStutter == SplitInv /\ UNCHANGED split => SplitInv'
<1> SUFFICES ASSUME SplitInv, UNCHANGED split PROVE SplitInv'
  OBVIOUS
<1>1. UNCHANGED <<file, at, pos, carry, carry_at, work, work_at, i, drop_first, acc, torn>>
  BY DEF split, buffers
<1>2. SplitOK'
  BY <1>1 DEF SplitInv, SplitOK
<1>3. \A q \in Rank : Own(q)'
  BY <1>1, Aside
<1> QED
  BY <1>2, <1>3 DEF SplitInv, Own

LEMMA InitSplitInv == Init => SplitInv
<1> SUFFICES ASSUME Init PROVE SplitInv
  OBVIOUS
<1>1. SplitOK
  <2>1. <<>> \in Seq(Int) /\ <<>> \in Seq(Seq(Int))
    OBVIOUS
  <2> QED
    BY <2>1 DEF Init, SplitInit, SplitOK
<1>2. ASSUME NEW r \in Rank PROVE Buffered(r) /\ OnLine(r) /\ Kept(r)
  <2>1. at[r] = "out" /\ carry[r] = <<>> /\ acc[r] = <<>>
    BY DEF Init, SplitInit
  <2>2. DOMAIN <<>> = {}
    OBVIOUS
  <2> QED
    BY <2>1, <2>2 DEF Buffered, OnLine, Kept
<1> QED
  BY <1>1, <1>2 DEF SplitInv

\* In every reachable state a rank has folded what begins before its cursor.
THEOREM SplitInvariance == Spec => []SplitInv
<1>1. SplitInv /\ [Next]_vars => SplitInv'
  <2> SUFFICES ASSUME SplitInv, [Next]_vars PROVE SplitInv'
    OBVIOUS
  <2>1. \/ UNCHANGED split
        \/ \E r \in Rank : Enter(r) \/ Splitting(r)
    BY DEF Next, Main, Write, Abort, Open, Call, Return, ReadRange, vars
  <2> QED
    BY <2>1, SplitStep, SplitStutter
<1> QED
  BY <1>1, InitSplitInv, PTL DEF Spec

-----------------------------------------------------------------------------
(***************************************************************************)
(* What the ranks have together.                                           *)
(***************************************************************************)

\* Every record begins after the header and before the end.
LEMMA AllStarts ==
  ASSUME file \in Inputs
  PROVE  StartsIn(file.header, file.size) = Starts /\ IsFiniteSet(Starts)
<1>1. StartsIn(file.header, file.size) = Starts
  <2>1. \A o \in Starts : file.header <= o /\ o < file.size
    BY StartFacts
  <2> QED
    BY <2>1 DEF StartsIn
<1>2. IsFiniteSet(file.header..(file.size - 1))
  <2>1. file.header \in Int /\ file.size - 1 \in Int
    BY FileFacts
  <2> QED
    BY <2>1, FS_Interval
<1>3. Starts \in SUBSET (file.header..(file.size - 1))
  BY DEF Starts
<1> QED
  BY <1>1, <1>2, <1>3, FS_Subset

\* There is one order of the records, and Lines has it.
LEMMA LinesAreLines ==
  ASSUME file \in Inputs
  PROVE  Lines \in Seq(Seq(Int)) /\ AreLines(Lines, Starts)
<1>1. PICK ls \in Seq(Seq(Int)) : AreLines(ls, Starts)
  BY AllStarts, LinesUpTo, FileFacts
<1>2. Len(ls) \in Nat /\ DOMAIN ls = 1..Len(ls)
  BY <1>1, LenProperties
<1> DEFINE n == Len(ls)
           h == [k \in 1..n |-> Head(ls[k])]
<1>3. /\ h \in [1..n -> Starts]
      /\ \A o \in Starts : \E k \in 1..n : h[k] = o
      /\ \A j, k \in 1..n : j < k => h[j] < h[k]
  BY <1>1, <1>2 DEF AreLines
<1>4. Starts \subseteq Nat
  BY StartFacts
<1> HIDE DEF h
<1>5. h \in Bijection(1..n, Starts)
  <2>1. \A j, k \in 1..n : h[j] = h[k] => j = k
    <3> SUFFICES ASSUME NEW j \in 1..n, NEW k \in 1..n, h[j] = h[k] PROVE j = k
      OBVIOUS
    <3>1. j \in Nat /\ k \in Nat
      BY <1>2
    <3>2. h[j] \in Starts /\ h[k] \in Starts
      BY <1>3
    <3>3. h[j] \in Nat /\ h[k] \in Nat
      BY <1>4, <3>2
    <3>4. ~(h[j] < h[k]) /\ ~(h[k] < h[j])
      BY <3>3
    <3>5. ~(j < k) /\ ~(k < j)
      BY <3>4, <1>3
    <3> QED
      BY <3>1, <3>5
  <2> QED
    BY <1>3, <2>1 DEF Bijection, Injection, Surjection, IsInjective
<1>a. n \in Nat
  BY <1>2
<1> HIDE DEF n
<1>6. IsFiniteSet(1..n) /\ Cardinality(1..n) = n
  <2>1. 1 \in Int /\ n \in Int
    BY <1>a
  <2>2. IsFiniteSet(1..n) /\ Cardinality(1..n) = IF 1 > n THEN 0 ELSE n - 1 + 1
    BY <2>1, FS_Interval
  <2> QED
    BY <1>a, <2>2
<1>7. Cardinality(Starts) = n
  BY <1>5, <1>6, FS_Bijection DEF ExistsBijection
<1>8. /\ Order \in [1..n -> Starts]
      /\ \A j, k \in 1..n : j < k => Order[j] < Order[k]
  <2>1. \E s \in [1..Cardinality(Starts) -> Starts] :
          \A j, k \in DOMAIN s : j < k => s[j] < s[k]
    BY <1>3, <1>7
  <2>2. /\ Order \in [1..Cardinality(Starts) -> Starts]
        /\ \A j, k \in DOMAIN Order : j < k => Order[j] < Order[k]
    BY <2>1 DEF Order
  <2> QED
    BY <1>7, <2>2
<1>9. \A o \in Starts : \E k \in 1..n : Order[k] = o
  <2>1. \A j, k \in 1..n : Order[j] = Order[k] => j = k
    <3> SUFFICES ASSUME NEW j \in 1..n, NEW k \in 1..n, Order[j] = Order[k] PROVE j = k
      OBVIOUS
    <3>1. j \in Nat /\ k \in Nat
      BY <1>a
    <3>2. Order[j] \in Starts /\ Order[k] \in Starts
      BY <1>8
    <3>3. Order[j] \in Nat /\ Order[k] \in Nat
      BY <1>4, <3>2
    <3>4. ~(Order[j] < Order[k]) /\ ~(Order[k] < Order[j])
      BY <3>3
    <3>5. ~(j < k) /\ ~(k < j)
      BY <3>4, <1>8
    <3> QED
      BY <3>1, <3>5
  <2>2. Order \in Injection(1..n, Starts)
    BY <1>8, <2>1 DEF Injection, IsInjective
  <2>3. Order \in Surjection(1..n, Starts)
    BY <1>6, <1>7, <2>2, AllStarts, FS_Injection
  <2> QED
    BY <2>3 DEF Surjection
<1>10. DOMAIN Order = 1..n /\ DOMAIN Lines = 1..n /\ \A k \in 1..n : Lines[k] = LineFrom(Order[k])
  BY <1>8 DEF Lines
<1>11. \A k \in 1..n : Order[k] \in Starts /\ Lines[k] \in Seq(Int) /\ Head(Lines[k]) = Order[k]
  BY <1>8, <1>10, StartFacts
<1>12. Lines \in Seq(Seq(Int))
  <2>1. Lines = [k \in 1..n |-> LineFrom(Order[k])]
    BY <1>10 DEF Lines
  <2>2. \A k \in 1..n : LineFrom(Order[k]) \in Seq(Int)
    BY <1>10, <1>11
  <2>3. Lines \in [1..n -> Seq(Int)]
    BY <2>1, <2>2
  <2> QED
    BY <1>a, <2>3, SeqDef
<1>13. AreLines(Lines, Starts)
  <2>1. \A k \in DOMAIN Lines : Head(Lines[k]) \in Starts /\ Lines[k] = LineFrom(Head(Lines[k]))
    BY <1>10, <1>11
  <2>2. \A o \in Starts : \E k \in DOMAIN Lines : Head(Lines[k]) = o
    BY <1>9, <1>10, <1>11
  <2>3. \A j, k \in DOMAIN Lines : j < k => Head(Lines[j]) < Head(Lines[k])
    BY <1>8, <1>10, <1>11
  <2> QED
    BY <2>1, <2>2, <2>3 DEF AreLines
<1> QED
  BY <1>12, <1>13

\* A sequence of joined sequences that begins with the first of them and goes on
\* with the next one at each step ends with all of them.
LEMMA Flattened ==
  ASSUME NEW p \in Nat \ {0}, NEW s \in [1..p -> Seq(Seq(Int))],
         NEW w \in [1..p -> Seq(Seq(Int))], w[1] = s[1],
         \A k \in 2..p : w[k] = w[k - 1] \o s[k]
  PROVE  FlattenSeq(s) = w[p]
<1> DEFINE Joins(g) == g = [k \in 1..p |-> IF k = 1 THEN s[k] ELSE g[k - 1] \o s[k]]
           all == CHOOSE g : Joins(g)
<1>1. Len(s) = p /\ p # 0
  OBVIOUS
<1>2. FlattenSeq(s) = all[p]
  BY <1>1 DEF FlattenSeq
<1>3. Joins(w)
  <2>1. w = [k \in 1..p |-> w[k]]
    OBVIOUS
  <2>2. \A k \in 1..p : w[k] = IF k = 1 THEN s[k] ELSE w[k - 1] \o s[k]
    <3>1. \A k \in 1..p : k # 1 => k \in 2..p
      OBVIOUS
    <3> QED
      BY <3>1
  <2> QED
    BY <2>1, <2>2
<1>4. Joins(all)
  <2> HIDE DEF Joins
  <2> QED
    BY <1>3
<1>5. DOMAIN all = 1..p /\ \A k \in 1..p : all[k] = IF k = 1 THEN s[k] ELSE all[k - 1] \o s[k]
  <2>1. \A g : Joins(g) =>
               DOMAIN g = 1..p /\ \A k \in 1..p : g[k] = IF k = 1 THEN s[k] ELSE g[k - 1] \o s[k]
    OBVIOUS
  <2> HIDE DEF Joins, all
  <2> QED
    BY <1>4, <2>1
<1> HIDE DEF all, Joins
<1> DEFINE G == {n \in Nat : n + 1 <= p => all[n + 1] = w[n + 1]}
<1>6. 0 \in G
  <2>1. 1 \in 1..p
    OBVIOUS
  <2>2. all[1] = w[1]
    BY <1>5, <2>1
  <2> QED
    BY <2>2
<1>7. ASSUME NEW n \in Nat, n \in G PROVE n + 1 \in G
  <2> SUFFICES ASSUME (n + 1) + 1 <= p PROVE all[(n + 1) + 1] = w[(n + 1) + 1]
    OBVIOUS
  <2>1. all[n + 1] = w[n + 1]
    BY <1>7
  <2> DEFINE k == (n + 1) + 1
  <2>2. k \in 1..p /\ k # 1 /\ k \in 2..p /\ k - 1 = n + 1
    OBVIOUS
  <2> HIDE DEF k
  <2>3. all[k] = all[k - 1] \o s[k] /\ w[k] = w[k - 1] \o s[k]
    BY <1>5, <2>2
  <2>4. all[k] = w[k]
    BY <2>1, <2>2, <2>3
  <2> QED
    BY <2>4 DEF k
<1> HIDE DEF G
<1>8. p - 1 \in G
  <2>1. Nat \subseteq G
    BY <1>6, <1>7, NatSet
  <2> QED
    BY <2>1
<1>9. all[p] = w[p]
  <2>1. (p - 1) + 1 = p
    OBVIOUS
  <2> QED
    BY <1>8, <2>1 DEF G
<1> QED
  BY <1>2, <1>9

\* Ranks that have each the records of its own range have together those of the
\* file, in its order.
LEMMA RangesJoin ==
  ASSUME SplitOK, \A r \in Rank : AreLines(acc[r], StartsIn(RawStart(r), RawEnd(r)))
  PROVE  FlattenSeq([k \in 1..P |-> acc[k - 1]]) = Lines
<1> DEFINE seqs == [k \in 1..P |-> acc[k - 1]]
           Upto(k) == StartsIn(file.header, RawStart(k))
           w == [k \in 1..P |-> CHOOSE ls \in Seq(Seq(Int)) : AreLines(ls, Upto(k))]
<1>1. file \in Inputs /\ P \in Nat \ {0}
  BY FileFacts DEF SplitOK
<1>2. \A k \in 1..P : k - 1 \in Rank /\ RawEnd(k - 1) = RawStart(k)
  <2>1. \A k \in 1..P : k - 1 \in Rank /\ (k - 1) + 1 = k
    BY <1>1 DEF Rank
  <2> QED
    BY <2>1 DEF RawEnd
<1>3. seqs \in [1..P -> Seq(Seq(Int))]
  BY <1>2 DEF SplitOK
<1>4. \A k \in 1..P : AreLines(seqs[k], StartsIn(RawStart(k - 1), RawStart(k)))
  BY <1>2
<1>5. \A k \in 1..P : RawStart(k) \in Nat
  <2>1. \A k \in 1..P : RawEnd(k - 1) \in Nat
    BY <1>1, <1>2, Ranges
  <2> QED
    BY <1>2, <2>1
<1>6. \A k \in 1..P : w[k] \in Seq(Seq(Int)) /\ AreLines(w[k], Upto(k))
  <2>1. ASSUME NEW k \in 1..P
        PROVE  \E ls \in Seq(Seq(Int)) : AreLines(ls, Upto(k))
    BY <1>1, <1>5, LinesUpTo
  <2> HIDE DEF Upto
  <2> QED
    BY <2>1
<1>7. w \in [1..P -> Seq(Seq(Int))]
  <2>1. w = [k \in 1..P |-> w[k]]
    OBVIOUS
  <2> HIDE DEF w
  <2> QED
    BY <1>6, <2>1
<1> HIDE DEF seqs, w
<1>8. 1 \in 1..P /\ P \in 1..P /\ 1 - 1 = 0
  BY <1>1
<1>9. w[1] = seqs[1]
  <2>1. AreLines(seqs[1], Upto(1))
    BY <1>1, <1>4, <1>8, Ranges
  <2>2. Upto(1) \in SUBSET Int
    BY <1>1, StartFacts DEF StartsIn
  <2>3. w[1] \in Seq(Seq(Int)) /\ seqs[1] \in Seq(Seq(Int)) /\ AreLines(w[1], Upto(1))
    BY <1>3, <1>6, <1>8
  <2> HIDE DEF Upto
  <2> QED
    BY <2>1, <2>2, <2>3, OneSequence
<1>10. ASSUME NEW k \in 2..P PROVE w[k] = w[k - 1] \o seqs[k]
  <2>1. k \in 1..P /\ k - 1 \in 1..P /\ k - 1 \in Rank
    BY <1>1, <1>2
  <2> DEFINE D == Upto(k - 1)
             T == StartsIn(RawStart(k - 1), RawStart(k))
  <2>2. /\ RawStart(k - 1) \in Nat /\ RawStart(k) \in Nat
        /\ file.header <= RawStart(k - 1) /\ RawStart(k - 1) <= RawStart(k)
    <3>1. /\ RawStart(k - 1) \in file.header..file.size
          /\ RawEnd(k - 1) \in RawStart(k - 1)..file.size
      BY <1>1, <2>1, Ranges
    <3> QED
      BY <1>1, <1>2, <1>5, <2>1, <3>1, FileFacts
  <2>3. D \in SUBSET Starts /\ T \in SUBSET Starts /\ \A x \in D, y \in T : x < y
    <3>1. Starts \subseteq Nat
      BY <1>1, StartFacts
    <3>2. D \in SUBSET Starts /\ \A x \in D : x \in Nat /\ x < RawStart(k - 1)
      BY <3>1 DEF StartsIn
    <3>3. T \in SUBSET Starts /\ \A y \in T : y \in Nat /\ RawStart(k - 1) <= y
      BY <3>1 DEF StartsIn
    <3> HIDE DEF D, T
    <3> QED
      BY <2>2, <3>2, <3>3
  <2>4. D \union T = Upto(k)
    <3>1. \A x \in Starts : x \in Nat /\ file.header <= x
      BY <1>1, StartFacts
    <3>2. \A x \in Starts :
            (file.header <= x /\ x < RawStart(k))
              <=> (file.header <= x /\ x < RawStart(k - 1))
                  \/ (RawStart(k - 1) <= x /\ x < RawStart(k))
      BY <2>2, <3>1
    <3> QED
      BY <3>2 DEF StartsIn
  <2>5. /\ w[k - 1] \in Seq(Seq(Int)) /\ AreLines(w[k - 1], D)
        /\ w[k] \in Seq(Seq(Int)) /\ AreLines(w[k], Upto(k))
        /\ seqs[k] \in Seq(Seq(Int)) /\ AreLines(seqs[k], T)
    BY <1>3, <1>4, <1>6, <2>1
  <2> HIDE DEF D, T
  <2>6. AreLines(w[k - 1] \o seqs[k], D \union T)
    BY <1>1, <2>3, <2>5, Joined
  <2>7. w[k - 1] \o seqs[k] \in Seq(Seq(Int))
    BY <2>5, ConcatProperties
  <2>8. Upto(k) \in SUBSET Int
    BY <1>1, StartFacts DEF StartsIn
  <2> HIDE DEF Upto
  <2> QED
    BY <2>4, <2>5, <2>6, <2>7, <2>8, OneSequence
<1>11. FlattenSeq(seqs) = w[P]
  BY <1>1, <1>3, <1>7, <1>9, <1>10, Flattened
<1>12. w[P] = Lines
  <2>1. Upto(P) = Starts
    BY <1>1, Ranges, AllStarts
  <2>2. w[P] \in Seq(Seq(Int)) /\ AreLines(w[P], Starts)
    BY <1>6, <1>8, <2>1
  <2>3. Lines \in Seq(Seq(Int)) /\ AreLines(Lines, Starts)
    BY <1>1, LinesAreLines
  <2>4. Starts \in SUBSET Int
    BY <1>1, StartFacts
  <2> QED
    BY <2>2, <2>3, <2>4, OneSequence
<1> QED
  BY <1>11, <1>12 DEF seqs

\* Once all ranks are done and no read has failed, what they folded, rank after
\* rank, is every record of the file, once, whole and in its order; and a rank
\* never folds a record that begins outside of its own range.
THEOREM SplitIsExact == Spec => []SplitExact
<1>1. SplitInv => SplitExact
  <2> SUFFICES ASSUME SplitInv PROVE SplitExact
    OBVIOUS
  <2>1. ASSUME \A r \in Rank : at[r] = "split", ~torn
        PROVE  FlattenSeq([k \in 1..P |-> acc[k - 1]]) = Lines
    <3>1. \A r \in Rank : AreLines(acc[r], StartsIn(RawStart(r), RawEnd(r)))
      BY <2>1 DEF SplitInv, Kept
    <3> QED
      BY <3>1, RangesJoin DEF SplitInv
  <2>2. ASSUME NEW r \in Rank, NEW k \in DOMAIN acc[r]
        PROVE  Head(acc[r][k]) \in RawStart(r)..(RawEnd(r) - 1)
    BY <2>2 DEF SplitInv, Kept
  <2> QED
    BY <2>1, <2>2 DEF SplitExact
<1> QED
  BY <1>1, SplitInvariance, PTL

-----------------------------------------------------------------------------
(***************************************************************************)
(* The hottest of some records.                                            *)
(***************************************************************************)

\* a comes before all of X, or is None if there are none.
Leads(a, X) == IF X = {} THEN a = None ELSE a \in X /\ \A b \in X : First(a, b)

\* The records among those of rs that the places in s hold.
GoodIn(rs, s) == {rs[k] : k \in {j \in s : rs[j].ok}}

\* it is the fold over each set of a family F.
LeadOver(rs, F, it) ==
  it = [s \in F |-> IF s = {} THEN None
                    ELSE IF Hotter(rs[Max(s)], it[s \ {Max(s)}]) THEN rs[Max(s)]
                         ELSE it[s \ {Max(s)}]]

LEMMA HottestIs ==
  ASSUME NEW rs
  PROVE  Hottest(rs) = (CHOOSE it : LeadOver(rs, SUBSET DOMAIN rs, it))[DOMAIN rs]
BY DEF Hottest, FoldLeft, MapThenFoldSet, LeadOver

\* The order of the records is total, and the fold's comparison is it.
LEMMA Orders ==
  ASSUME NEW a \in Reading, NEW b \in Reading
  PROVE  /\ First(a, a) /\ (First(a, b) \/ First(b, a))
         /\ a.ok /\ b.ok /\ First(a, b) /\ First(b, a) => a = b
         /\ \A c \in Reading : First(a, b) /\ First(b, c) => First(a, c)
         /\ a.ok /\ b.ok /\ Hotter(a, b) => First(a, b)
         /\ a.ok /\ b.ok /\ ~Hotter(a, b) => First(b, a)
         /\ a.ok /\ ~b.ok => Hotter(a, b)
         /\ ~a.ok => ~Hotter(a, b)
<1>1. /\ a.temp \in Int /\ a.ts \in Int /\ a.station \in Int /\ a.ok \in BOOLEAN
      /\ b.temp \in Int /\ b.ts \in Int /\ b.station \in Int /\ b.ok \in BOOLEAN
  BY MpiAssumption DEF Reading
<1>2. \A c \in Reading : c.temp \in Int /\ c.ts \in Int /\ c.station \in Int
  BY MpiAssumption DEF Reading
<1>3. First(a, a) /\ (First(a, b) \/ First(b, a))
  BY <1>1 DEF First
<1>4. ASSUME a.ok, b.ok, First(a, b), First(b, a) PROVE a = b
  <2>1. a.temp = b.temp /\ a.ts = b.ts /\ a.station = b.station /\ a.ok = b.ok
    BY <1>1, <1>4 DEF First
  <2> QED
    BY <2>1 DEF Reading
<1>5. \A c \in Reading : First(a, b) /\ First(b, c) => First(a, c)
  BY <1>1, <1>2 DEF First
<1>6. a.ok /\ b.ok /\ Hotter(a, b) => First(a, b)
  BY <1>1 DEF First, Hotter
<1>7. a.ok /\ b.ok /\ ~Hotter(a, b) => First(b, a)
  BY <1>1 DEF First, Hotter
<1>8. (a.ok /\ ~b.ok => Hotter(a, b)) /\ (~a.ok => ~Hotter(a, b))
  BY <1>1 DEF Hotter
<1> QED
  BY <1>3, <1>4, <1>5, <1>6, <1>7, <1>8

LEMMA NoneReading == None \in Reading /\ ~None.ok
BY MpiAssumption DEF None, Reading

\* The next place that the fold takes.
LEMMA LastIn ==
  ASSUME NEW n \in Nat, NEW s \in SUBSET (1..n), s # {}
  PROVE  Max(s) \in s
<1>1. IsFiniteSet(1..n) /\ s \in SUBSET Int
  BY FS_Interval
<1>2. IsFiniteSet(s)
  BY <1>1, FS_Subset
<1> QED
  BY <1>1, <1>2, Extremes

\* There is such a fold, by induction on the size of the sets.
LEMMA LeadExists ==
  ASSUME NEW n \in Nat, NEW rs \in [1..n -> Reading]
  PROVE  \E it \in [SUBSET (1..n) -> Reading] : LeadOver(rs, SUBSET (1..n), it)
<1> DEFINE D == 1..n
           One(s, a) == IF s = {} THEN None ELSE IF Hotter(rs[Max(s)], a) THEN rs[Max(s)] ELSE a
           G == {m \in Nat : \E it \in [UpTo(D, m) -> Reading] : LeadOver(rs, UpTo(D, m), it)}
<1>0. IsFiniteSet(D)
  BY FS_Interval
<1>1. \A s \in SUBSET D : IsFiniteSet(s) /\ Cardinality(s) \in Nat
                         /\ Cardinality(s) <= Cardinality(D) /\ (Cardinality(s) = 0 <=> s = {})
  BY <1>0, FS_Subset, FS_CardinalityType, FS_EmptySet
<1>2. 0 \in G
  <2> DEFINE it == [s \in UpTo(D, 0) |-> None]
  <2>1. \A s \in UpTo(D, 0) : s = {}
    BY <1>1 DEF UpTo
  <2>2. it = [s \in UpTo(D, 0) |-> One(s, it[s \ {Max(s)}])]
    BY <2>1
  <2>3. it \in [UpTo(D, 0) -> Reading]
    BY NoneReading
  <2> HIDE DEF it
  <2> QED
    BY <2>2, <2>3 DEF LeadOver
<1>3. ASSUME NEW m \in Nat, m \in G PROVE m + 1 \in G
  <2>1. PICK it \in [UpTo(D, m) -> Reading] : LeadOver(rs, UpTo(D, m), it)
    BY <1>3
  <2> DEFINE up == [s \in UpTo(D, m + 1) |-> One(s, it[s \ {Max(s)}])]
  <2>2. ASSUME NEW s \in UpTo(D, m + 1), s # {}
        PROVE  Max(s) \in D /\ s \ {Max(s)} \in UpTo(D, m)
    <3>1. Max(s) \in s /\ s \in SUBSET D
      BY <2>2, LastIn DEF UpTo
    <3>2. Cardinality(s \ {Max(s)}) = Cardinality(s) - 1
      BY <1>1, <3>1, FS_RemoveElement
    <3>3. Cardinality(s) \in Nat /\ Cardinality(s) <= m + 1 /\ s \ {Max(s)} \in SUBSET D
      BY <1>1, <3>1 DEF UpTo
    <3>4. Cardinality(s \ {Max(s)}) <= m
      BY <3>2, <3>3
    <3> QED
      BY <3>1, <3>3, <3>4 DEF UpTo
  <2>3. up \in [UpTo(D, m + 1) -> Reading]
    BY <2>2, NoneReading
  <2>4. \A s \in UpTo(D, m) : s \in UpTo(D, m + 1) /\ it[s] = up[s]
    <3>1. \A s \in UpTo(D, m) : it[s] = One(s, it[s \ {Max(s)}])
      BY <2>1 DEF LeadOver
    <3>2. \A s \in UpTo(D, m) : s \in UpTo(D, m + 1)
      BY <1>1 DEF UpTo
    <3> HIDE DEF One
    <3> QED
      BY <3>1, <3>2
  <2>5. \A s \in UpTo(D, m + 1) : s # {} => it[s \ {Max(s)}] = up[s \ {Max(s)}]
    BY <2>2, <2>4
  <2>6. up = [s \in UpTo(D, m + 1) |-> One(s, up[s \ {Max(s)}])]
    <3>1. \A s \in UpTo(D, m + 1) : One(s, it[s \ {Max(s)}]) = One(s, up[s \ {Max(s)}])
      BY <2>5
    <3> HIDE DEF One
    <3> QED
      BY <3>1
  <2>7. LeadOver(rs, UpTo(D, m + 1), up)
    BY <2>6 DEF LeadOver
  <2> HIDE DEF up
  <2> QED
    BY <2>3, <2>7
<1>4. Cardinality(D) \in G
  <2>1. \A m \in Nat : m \in G => m + 1 \in G
    BY <1>3
  <2> HIDE DEF G
  <2>2. Nat \subseteq G
    BY <1>2, <2>1, NatSet
  <2> QED
    BY <1>1, <2>2
<1>5. UpTo(D, Cardinality(D)) = SUBSET D
  BY <1>1 DEF UpTo
<1> QED
  BY <1>4, <1>5

\* The hottest of some readings is the first of those that hold a record.
LEMMA HottestLeads ==
  ASSUME NEW n \in Nat, NEW rs \in [1..n -> Reading]
  PROVE  Hottest(rs) \in Reading /\ Leads(Hottest(rs), GoodIn(rs, 1..n))
<1> DEFINE D == 1..n
           it == CHOOSE j : LeadOver(rs, SUBSET D, j)
<1>1. LeadOver(rs, SUBSET D, it)
  BY LeadExists
<1>2. Hottest(rs) = it[D]
  BY HottestIs
<1> HIDE DEF it
<1>3. \A s \in SUBSET D :
        it[s] = IF s = {} THEN None
                ELSE IF Hotter(rs[Max(s)], it[s \ {Max(s)}]) THEN rs[Max(s)]
                     ELSE it[s \ {Max(s)}]
  BY <1>1 DEF LeadOver
<1> DEFINE Sound(s) == it[s] \in Reading /\ Leads(it[s], GoodIn(rs, s))
           Bad == {s \in SUBSET D : ~Sound(s)}
<1>4. ASSUME Bad # {} PROVE FALSE
  <2>1. PICK s \in Bad : \A x \in s : s \ {x} \notin Bad
    <3>1. Bad \in SUBSET SUBSET D /\ IsFiniteSet(D)
      BY FS_Interval
    <3> QED
      BY <1>4, <3>1, LeastSet
  <2>2. s \in SUBSET D /\ ~Sound(s)
    BY <2>1
  <2>3. CASE s = {}
    <3>1. it[s] = None /\ GoodIn(rs, s) = {}
      BY <1>3, <2>2, <2>3 DEF GoodIn
    <3> QED
      BY <2>2, <3>1, NoneReading DEF Leads
  <2>4. CASE s # {}
    <3> DEFINE k == Max(s)
               a == rs[k]
               b == it[s \ {k}]
               X == GoodIn(rs, s \ {k})
    <3>1. k \in s /\ k \in D /\ a \in Reading
      BY <2>2, <2>4, LastIn
    <3>2. b \in Reading /\ Leads(b, X)
      BY <2>1, <2>2, <3>1
    <3>3. it[s] = IF Hotter(a, b) THEN a ELSE b
      BY <1>3, <2>2, <2>4
    <3>4. GoodIn(rs, s) = IF a.ok THEN X \union {a} ELSE X
      BY <3>1 DEF GoodIn
    <3>5. \A c \in X : c \in Reading /\ c.ok
      BY <2>2 DEF GoodIn
    <3> HIDE DEF k, a, b, X
    <3>6. it[s] \in Reading
      BY <3>1, <3>2, <3>3
    <3>7. CASE ~a.ok
      <4>1. it[s] = b
        BY <3>1, <3>2, <3>3, <3>7, Orders
      <4> QED
        BY <2>2, <3>2, <3>4, <3>7, <4>1
    <3>8. CASE a.ok /\ X = {}
      <4>1. b = None /\ ~b.ok
        BY <3>2, <3>8, NoneReading DEF Leads
      <4>2. it[s] = a
        BY <3>1, <3>2, <3>3, <3>8, <4>1, Orders
      <4>3. Leads(a, {a})
        BY <3>1, Orders DEF Leads
      <4> QED
        BY <2>2, <3>4, <3>6, <3>8, <4>2, <4>3
    <3>9. CASE a.ok /\ X # {}
      <4>1. b \in X /\ b.ok /\ \A c \in X : First(b, c)
        BY <3>2, <3>5, <3>9 DEF Leads
      <4>2. CASE Hotter(a, b)
        <5>1. it[s] = a /\ First(a, b) /\ First(a, a)
          BY <3>1, <3>2, <3>3, <3>9, <4>1, <4>2, Orders
        <5>2. \A c \in X : First(a, c)
          BY <3>1, <3>2, <3>5, <4>1, <5>1, Orders
        <5>3. Leads(a, X \union {a})
          BY <5>1, <5>2 DEF Leads
        <5> QED
          BY <2>2, <3>4, <3>6, <3>9, <5>1, <5>3
      <4>3. CASE ~Hotter(a, b)
        <5>1. it[s] = b /\ First(b, a)
          BY <3>1, <3>2, <3>3, <3>9, <4>1, <4>3, Orders
        <5>2. Leads(b, X \union {a})
          BY <4>1, <5>1 DEF Leads
        <5> QED
          BY <2>2, <3>4, <3>6, <3>9, <5>1, <5>2
      <4> QED
        BY <4>2, <4>3
    <3> QED
      BY <3>7, <3>8, <3>9
  <2> QED
    BY <2>3, <2>4
<1>5. Sound(D)
  BY <1>4
<1> QED
  BY <1>2, <1>5

\* There is one first.
LEMMA OneLeads ==
  ASSUME NEW X, \A a \in X : a \in Reading /\ a.ok, NEW x, Leads(x, X)
  PROVE  x = IF X = {} THEN None ELSE CHOOSE a \in X : \A b \in X : First(a, b)
<1>1. CASE X # {}
  <2>1. x \in X /\ \A b \in X : First(x, b)
    BY <1>1 DEF Leads
  <2> DEFINE y == CHOOSE a \in X : \A b \in X : First(a, b)
  <2>2. y \in X /\ \A b \in X : First(y, b)
    BY <2>1
  <2> HIDE DEF y
  <2>3. x = y
    BY <2>1, <2>2, Orders
  <2> QED
    BY <1>1, <2>3 DEF y
<1> QED
  BY <1>1 DEF Leads

-----------------------------------------------------------------------------
(***************************************************************************)
(* What is read of lines, by where the lines begin.                        *)
(***************************************************************************)

GoodAt(D) == {o \in D : Record[o].ok}

LEMMA StartsRead ==
  ASSUME file \in Inputs, NEW o \in Starts
  PROVE  Record[o] \in Reading
BY StartFacts, FileFacts, MpiAssumption

\* As many of the lines begin in a set as it has elements.
LEMMA LinesCount ==
  ASSUME NEW ls \in Seq(Seq(Int)), NEW D \in SUBSET Int, AreLines(ls, D), NEW A \in SUBSET D
  PROVE  LET J == {k \in 1..Len(ls) : Head(ls[k]) \in A}
         IN  IsFiniteSet(J) /\ IsFiniteSet(A) /\ Cardinality(J) = Cardinality(A)
<1> DEFINE n == Len(ls)
           J == {k \in 1..n : Head(ls[k]) \in A}
           f == [k \in J |-> Head(ls[k])]
<1>1. n \in Nat /\ DOMAIN ls = 1..n
  BY LenProperties
<1>2. IsFiniteSet(1..n)
  BY <1>1, FS_Interval
<1>3. IsFiniteSet(J)
  <2>1. J \subseteq 1..n
    OBVIOUS
  <2> QED
    BY <1>2, <2>1, FS_Subset
<1>4. f \in Bijection(J, A)
  <2>1. f \in [J -> A]
    OBVIOUS
  <2>2. ASSUME NEW j \in J, NEW k \in J, f[j] = f[k] PROVE j = k
    <3>1. /\ j \in 1..n /\ k \in 1..n /\ Head(ls[j]) = Head(ls[k])
          /\ Head(ls[j]) \in Int /\ Head(ls[k]) \in Int
      BY <2>2
    <3>2. (j < k => Head(ls[j]) < Head(ls[k])) /\ (k < j => Head(ls[k]) < Head(ls[j]))
      BY <1>1, <3>1 DEF AreLines
    <3>3. j \in Nat /\ k \in Nat
      BY <1>1, <3>1
    <3> QED
      BY <3>1, <3>2, <3>3
  <2>3. ASSUME NEW o \in A PROVE \E k \in J : f[k] = o
    <3>1. PICK k \in 1..n : Head(ls[k]) = o
      BY <1>1 DEF AreLines
    <3> QED
      BY <3>1
  <2> HIDE DEF f, J
  <2> QED
    BY <2>1, <2>2, <2>3 DEF Bijection, Injection, Surjection, IsInjective
<1>5. ExistsBijection(J, A)
  BY <1>4 DEF ExistsBijection
<1> HIDE DEF J
<1>6. IsFiniteSet(A) /\ Cardinality(A) = Cardinality(J)
  BY <1>3, <1>5, FS_Bijection
<1> QED
  BY <1>3, <1>6 DEF J

\* What the tallies of the lines are.
LEMMA Tallies ==
  ASSUME file \in Inputs, NEW ls \in Seq(Seq(Int)), NEW D \in SUBSET Starts, AreLines(ls, D)
  PROVE  LET rs == Folded(ls)
             n  == Len(ls)
             G  == GoodAt(D)
         IN  /\ n \in Nat /\ rs \in [1..n -> Reading]
             /\ IsFiniteSet(G) /\ \A o \in G : Record[o] \in Reading /\ Record[o].ok
             /\ Cardinality(Good(rs)) = Cardinality(G)
             /\ GoodIn(rs, 1..n) = {Record[o] : o \in G}
             /\ \A x : Tally(Stations(rs), x) = Cardinality({o \in G : Record[o].station = x})
             /\ \A x : Tally(Buckets(rs), x) = Cardinality({o \in G : Interval(Record[o]) = x})
             /\ Range(Stations(rs)) = {Record[o].station : o \in G}
             /\ Range(Buckets(rs)) = {Interval(Record[o]) : o \in G}
<1> DEFINE rs == Folded(ls)
           n  == Len(ls)
           G  == GoodAt(D)
           h(k) == Head(ls[k])
<1>1. n \in Nat /\ DOMAIN ls = 1..n
  BY LenProperties
<1>2. D \in SUBSET Int /\ \A o \in D : Record[o] \in Reading
  BY StartFacts, StartsRead
<1>3. \A k \in 1..n : h(k) \in D /\ rs[k] = Record[h(k)]
  BY <1>1 DEF AreLines, Folded
<1>4. \A o \in D : \E k \in 1..n : h(k) = o
  BY <1>1 DEF AreLines
<1>5. DOMAIN rs = 1..n /\ rs \in [1..n -> Reading]
  <2>1. rs = [k \in 1..n |-> Record[h(k)]]
    BY <1>1 DEF Folded
  <2> QED
    BY <1>2, <1>3, <2>1
<1>6. Good(rs) = {k \in 1..n : h(k) \in G}
  BY <1>3, <1>5 DEF Good, GoodAt
<1>7. G \subseteq D /\ \A o \in G : Record[o] \in Reading /\ Record[o].ok
  BY <1>2 DEF GoodAt
<1>8. \A A \in SUBSET D : /\ IsFiniteSet(A)
                          /\ Cardinality({k \in 1..n : h(k) \in A}) = Cardinality(A)
  BY <1>2, LinesCount
<1> HIDE DEF rs, n, G
<1>9. IsFiniteSet(G) /\ Cardinality(Good(rs)) = Cardinality(G)
  BY <1>6, <1>7, <1>8
<1>a. \A k \in Good(rs) : h(k) \in G /\ rs[k] = Record[h(k)]
  BY <1>3, <1>6
<1>b. \A o \in G : \E k \in Good(rs) : rs[k] = Record[o]
  <2> SUFFICES ASSUME NEW o \in G PROVE \E k \in Good(rs) : rs[k] = Record[o]
    OBVIOUS
  <2>1. PICK k \in 1..n : h(k) = o
    BY <1>4, <1>7
  <2> QED
    BY <1>3, <1>6, <2>1
<1> HIDE DEF h
<1>10. GoodIn(rs, 1..n) = {Record[o] : o \in G}
  <2>1. GoodIn(rs, 1..n) = {rs[k] : k \in Good(rs)}
    BY <1>5 DEF GoodIn, Good
  <2> QED
    BY <1>a, <1>b, <2>1
<1>11. Range(Stations(rs)) = {Record[o].station : o \in G}
  <2>1. Range(Stations(rs)) = {rs[k].station : k \in Good(rs)}
    BY DEF Range, Stations
  <2> QED
    BY <1>a, <1>b, <2>1
<1>12. Range(Buckets(rs)) = {Interval(Record[o]) : o \in G}
  <2>1. Range(Buckets(rs)) = {Interval(rs[k]) : k \in Good(rs)}
    BY DEF Range, Buckets
  <2> QED
    BY <1>a, <1>b, <2>1
<1>13. ASSUME NEW x
       PROVE  Tally(Stations(rs), x) = Cardinality({o \in G : Record[o].station = x})
  <2> DEFINE A == {o \in G : Record[o].station = x}
  <2>1. A \in SUBSET D
    BY <1>7
  <2>2. {k \in DOMAIN Stations(rs) : Stations(rs)[k] = x} = {k \in 1..n : h(k) \in A}
    BY <1>3, <1>6 DEF Stations, h
  <2> HIDE DEF A
  <2> QED
    BY <1>8, <2>1, <2>2 DEF Tally, A, h
<1>14. ASSUME NEW x
       PROVE  Tally(Buckets(rs), x) = Cardinality({o \in G : Interval(Record[o]) = x})
  <2> DEFINE A == {o \in G : Interval(Record[o]) = x}
  <2>1. A \in SUBSET D
    BY <1>7
  <2>2. {k \in DOMAIN Buckets(rs) : Buckets(rs)[k] = x} = {k \in 1..n : h(k) \in A}
    BY <1>3, <1>6 DEF Buckets, h
  <2> HIDE DEF A
  <2> QED
    BY <1>8, <2>1, <2>2 DEF Tally, A, h
<1> QED
  BY <1>1, <1>5, <1>7, <1>9, <1>10, <1>11, <1>12, <1>13, <1>14, Zenon DEF rs, n, G

-----------------------------------------------------------------------------
(***************************************************************************)
(* The ranges share out the records.                                       *)
(***************************************************************************)

Owned(r) == StartsIn(RawStart(r), RawEnd(r))

LEMMA RangesRise ==
  ASSUME file \in Inputs
  PROVE  \A k \in 0..P : RawStart(k) \in Nat /\ \A j \in 0..k : RawStart(j) <= RawStart(k)
<1>1. /\ P \in Nat \ {0} /\ RawStart(P) = file.size /\ file.size \in Nat /\ Rank = 0..(P - 1)
  BY Ranges, FileFacts DEF Rank
<1>2. \A r \in Rank : RawStart(r) \in Nat /\ RawEnd(r) = RawStart(r + 1)
                      /\ RawEnd(r) \in Int /\ RawStart(r) <= RawEnd(r)
  <2>1. \A r \in Rank : RawEnd(r) = RawStart(r + 1)
    BY DEF RawEnd
  <2> QED
    BY <1>1, <2>1, Ranges
<1>3. \A k \in 0..P : RawStart(k) \in Nat
  <2>1. \A k \in 0..P : k \in Rank \/ k = P
    BY <1>1
  <2> QED
    BY <1>1, <1>2, <2>1
<1> DEFINE G == {k \in Nat : k <= P => \A j \in 0..k : RawStart(j) <= RawStart(k)}
<1>4. 0 \in G
  <2>1. \A j \in 0..0 : j = 0
    OBVIOUS
  <2>2. RawStart(0) \in Nat
    BY <1>1, <1>3
  <2> QED
    BY <2>1, <2>2
<1>5. ASSUME NEW k \in Nat, k \in G PROVE k + 1 \in G
  <2> SUFFICES ASSUME k + 1 <= P, NEW j \in 0..(k + 1) PROVE RawStart(j) <= RawStart(k + 1)
    BY <1>1
  <2>1. k \in Rank /\ k <= P /\ k + 1 \in 0..P /\ k \in 0..P /\ j \in 0..P
    BY <1>1
  <2>2. RawStart(k) <= RawStart(k + 1)
    BY <1>2, <2>1
  <2>3. CASE j = k + 1
    BY <1>3, <2>1, <2>3
  <2>4. CASE j # k + 1
    <3>1. j \in 0..k
      BY <2>4
    <3>2. RawStart(j) <= RawStart(k)
      BY <1>5, <2>1, <3>1
    <3>3. RawStart(j) \in Nat /\ RawStart(k) \in Nat /\ RawStart(k + 1) \in Nat
      BY <1>3, <2>1
    <3> QED
      BY <2>2, <3>2, <3>3
  <2> QED
    BY <2>3, <2>4
<1>6. Nat \subseteq G
  <2>1. \A k \in Nat : k \in G => k + 1 \in G
    BY <1>5
  <2> HIDE DEF G
  <2> QED
    BY <1>4, <2>1, NatSet
<1> QED
  BY <1>1, <1>3, <1>6

LEMMA Owners ==
  ASSUME file \in Inputs
  PROVE  /\ IsFiniteSet(Rank)
         /\ \A r \in Rank : Owned(r) \in SUBSET Starts
         /\ \A r, q \in Rank : r # q => Owned(r) \intersect Owned(q) = {}
         /\ UNION {Owned(r) : r \in Rank} = Starts
<1>1. /\ P \in Nat \ {0} /\ Rank = 0..(P - 1) /\ RawStart(P) = file.size
      /\ RawStart(0) = file.header /\ file.header \in Nat /\ file.size \in Nat
  BY Ranges, FileFacts DEF Rank
<1>2. IsFiniteSet(Rank)
  <2>1. 0 \in Int /\ P - 1 \in Int
    BY <1>1
  <2> QED
    BY <1>1, <2>1, FS_Interval
<1>3. \A r \in Rank : Owned(r) \in SUBSET Starts
  BY DEF Owned, StartsIn
<1>4. \A o \in Starts : o \in Nat /\ file.header <= o /\ o < file.size
  BY StartFacts
<1>5. \A r \in Rank : \A o \in Owned(r) : RawStart(r) <= o /\ o < RawStart(r + 1) /\ o \in Nat
  BY <1>4 DEF Owned, StartsIn, RawEnd
<1>6. \A k \in 0..P : RawStart(k) \in Nat /\ \A j \in 0..k : RawStart(j) <= RawStart(k)
  BY RangesRise
<1>7. ASSUME NEW r \in Rank, NEW q \in Rank, r < q PROVE Owned(r) \intersect Owned(q) = {}
  <2>1. q \in 0..P /\ r + 1 \in 0..q /\ r + 1 \in 0..P
    BY <1>1, <1>7
  <2>2. RawStart(r + 1) <= RawStart(q) /\ RawStart(r + 1) \in Nat /\ RawStart(q) \in Nat
    BY <1>6, <2>1
  <2>3. ASSUME NEW o \in Owned(r), o \in Owned(q) PROVE FALSE
    <3>1. o < RawStart(r + 1) /\ RawStart(q) <= o /\ o \in Nat
      BY <1>5, <2>3
    <3> QED
      BY <2>2, <3>1
  <2> QED
    BY <2>3
<1>8. \A r, q \in Rank : r # q => Owned(r) \intersect Owned(q) = {}
  <2> SUFFICES ASSUME NEW r \in Rank, NEW q \in Rank, r # q
               PROVE  Owned(r) \intersect Owned(q) = {}
    OBVIOUS
  <2>1. r < q \/ q < r
    BY <1>1
  <2> QED
    BY <1>7, <2>1
<1>9. ASSUME NEW o \in Starts PROVE \E r \in Rank : o \in Owned(r)
  <2> DEFINE G == {k \in Nat : k <= P => RawStart(k) <= o}
  <2>1. o \in Nat /\ file.header <= o /\ o < file.size
    BY <1>4
  <2>2. P \notin G
    BY <1>1, <2>1
  <2>3. 0 \in G
    BY <1>1, <2>1
  <2>4. \E k \in Nat : k \in G /\ k + 1 \notin G
    <3>1. (\A k \in Nat : k \in G => k + 1 \in G) => Nat \subseteq G
      <4> HIDE DEF G
      <4> QED
        BY <2>3, NatSet
    <3> QED
      BY <1>1, <2>2, <3>1
  <2>5. PICK k \in Nat : k \in G /\ k + 1 \notin G
    BY <2>4
  <2>6. k + 1 <= P /\ ~(RawStart(k + 1) <= o)
    BY <2>5
  <2>7. k \in Rank /\ k <= P /\ k + 1 \in 0..P
    BY <1>1, <2>6
  <2>8. RawStart(k) <= o /\ o < RawStart(k + 1)
    <3>1. RawStart(k + 1) \in Nat
      BY <1>6, <2>7
    <3> QED
      BY <2>1, <2>5, <2>6, <2>7, <3>1
  <2> QED
    BY <2>7, <2>8 DEF Owned, StartsIn, RawEnd
<1> QED
  BY <1>2, <1>3, <1>8, <1>9

\* What the ranks have of some records, or those ranks that have any, adds up
\* to their number.
LEMMA RangesAdd ==
  ASSUME file \in Inputs, NEW T \in SUBSET Starts, NEW R \in SUBSET Rank,
         \A r \in Rank : T \intersect Owned(r) # {} => r \in R,
         NEW f, f = [r \in R |-> Cardinality(T \intersect Owned(r))]
  PROVE  SumFunction(f) = Cardinality(T) /\ Cardinality(T) \in Nat
<1> DEFINE F == [r \in R |-> T \intersect Owned(r)]
<1>1. IsFiniteSet(Rank) /\ IsFiniteSet(Starts)
  BY Owners, AllStarts
<1>2. \A r \in R : F[r] = T \intersect Owned(r) /\ F[r] \in SUBSET Starts
  OBVIOUS
<1>3. IsFiniteSet(R) /\ \A r \in R : IsFiniteSet(F[r])
  BY <1>1, <1>2, FS_Subset
<1>4. \A r, q \in R : r # q => F[r] \intersect F[q] = {}
  BY <1>2, Owners
<1>5. UNION {F[r] : r \in R} = T
  <2>1. UNION {Owned(r) : r \in Rank} = Starts
    BY Owners
  <2> QED
    BY <1>2, <2>1
<1>6. f \in [R -> Nat] /\ \A r \in R : f[r] = Cardinality(F[r])
  BY <1>2, <1>3, FS_CardinalityType
<1>7. Cardinality(T) \in Nat
  BY <1>1, FS_Subset, FS_CardinalityType
<1> HIDE DEF F
<1>8. SumFunctionOnSet(f, R) = Cardinality(UNION {F[r] : r \in R})
  BY ONLY <1>3, <1>4, <1>6, SumDisjoint
<1>9. SumFunction(f) = SumFunctionOnSet(f, R)
  BY <1>6 DEF SumFunction
<1> QED
  BY <1>5, <1>7, <1>8, <1>9

-----------------------------------------------------------------------------
(***************************************************************************)
(* What is reported of counts: only those above zero tell.                 *)
(***************************************************************************)

LEMMA BusiestSame ==
  ASSUME NEW D, NEW f \in [D -> Nat], NEW E, NEW g \in [E -> Nat],
         \A x \in D : f[x] > 0 => x \in E /\ g[x] = f[x],
         \A x \in E : g[x] > 0 => x \in D /\ f[x] = g[x]
  PROVE  Busiest(f) = Busiest(g)
<1> DEFINE X == {f[x] : x \in DOMAIN f} \union {0}
           Y == {g[x] : x \in DOMAIN g} \union {0}
<1>1. \A x \in D : f[x] \in Nat /\ (f[x] = 0 \/ f[x] > 0)
  OBVIOUS
<1>2. \A x \in E : g[x] \in Nat /\ (g[x] = 0 \/ g[x] > 0)
  OBVIOUS
<1>3. X = Y
  <2>1. \A y \in X : y \in Y
    BY <1>1
  <2>2. \A y \in Y : y \in X
    BY <1>2
  <2> QED
    BY <2>1, <2>2
<1>4. ASSUME NEW t, t # 0 PROVE {x \in DOMAIN f : f[x] = t} = {x \in DOMAIN g : g[x] = t}
  BY <1>1, <1>2, <1>4
<1> HIDE DEF X, Y
<1>5. Max(X) = Max(Y)
  BY <1>3
<1>6. Busiest(f) = IF Max(X) = 0 THEN <<0, 0>>
                   ELSE <<Min({x \in DOMAIN f : f[x] = Max(X)}), Max(X)>>
  BY DEF Busiest, X
<1>7. Busiest(g) = IF Max(Y) = 0 THEN <<0, 0>>
                   ELSE <<Min({x \in DOMAIN g : g[x] = Max(Y)}), Max(Y)>>
  BY DEF Busiest, Y
<1> QED
  BY <1>4, <1>5, <1>6, <1>7

LEMMA RowsSame ==
  ASSUME NEW D, NEW f \in [D -> Nat], NEW E, NEW g \in [E -> Nat],
         \A x \in D : f[x] > 0 => x \in E /\ g[x] = f[x],
         \A x \in E : g[x] > 0 => x \in D /\ f[x] = g[x]
  PROVE  Rows(f) = Rows(g)
<1>1. {y \in DOMAIN f : f[y] > 0} = {y \in DOMAIN g : g[y] > 0}
  OBVIOUS
<1>2. \A x \in {y \in DOMAIN f : f[y] > 0} : f[x] = g[x]
  OBVIOUS
<1> QED
  BY <1>1, <1>2 DEF Rows

-----------------------------------------------------------------------------
(***************************************************************************)
(* What the ranks bring, and what it comes to.                             *)
(***************************************************************************)

\* The records of the file: all, those of a station, those of an interval.
All           == GoodAt(Starts)
OfStation(x)  == {o \in All : Record[o].station = x}
InInterval(x) == {o \in All : Interval(Record[o]) = x}

LEMMA AllFacts ==
  ASSUME file \in Inputs
  PROVE  /\ All \in SUBSET Starts /\ IsFiniteSet(All)
         /\ \A o \in All : /\ Record[o] \in Reading /\ Record[o].ok
                           /\ Record[o].station \in Nat /\ Interval(Record[o]) \in 0..(LLong - 1)
                           /\ \E r \in Rank : o \in Owned(r)
         /\ \A x : OfStation(x) \in SUBSET Starts /\ InInterval(x) \in SUBSET Starts
<1>1. All \in SUBSET Starts
  BY DEF All, GoodAt
<1>2. IsFiniteSet(All)
  BY <1>1, AllStarts, FS_Subset
<1>3. \A o \in All : Record[o] \in Reading /\ Record[o].ok
  BY StartsRead DEF All, GoodAt
<1>4. \A o \in All : \E r \in Rank : o \in Owned(r)
  BY <1>1, Owners
<1>5. \A o \in All : Record[o].station \in Nat /\ Record[o].ts \in 0..(60 * LLong - 1)
  BY <1>3 DEF Reading
<1>6. \A t \in Nat : t < 60 * LLong => t \div 60 \in 0..(LLong - 1)
  BY MpiAssumption
<1>7. \A o \in All : Interval(Record[o]) \in 0..(LLong - 1)
  <2> SUFFICES ASSUME NEW o \in All PROVE Interval(Record[o]) \in 0..(LLong - 1)
    OBVIOUS
  <2>1. Record[o].ts \in Nat /\ Record[o].ts < 60 * LLong
    BY <1>5, MpiAssumption
  <2> QED
    BY <1>6, <2>1 DEF Interval
<1>8. \A x : OfStation(x) \in SUBSET Starts /\ InInterval(x) \in SUBSET Starts
  BY <1>1 DEF OfStation, InInterval
<1> QED
  BY <1>1, <1>2, <1>3, <1>4, <1>5, <1>7, <1>8

\* All ranges are read, and no read has failed.
AllRead == SplitInv /\ (\A r \in Rank : at[r] = "split") /\ ~torn

\* What a rank has folded is what is good in its range.
LEMMA Brought ==
  ASSUME AllRead, NEW r \in Rank
  PROVE  LET rs == Folded(acc[r])
             G  == All \intersect Owned(r)
         IN  /\ Cardinality(Good(rs)) = Cardinality(G)
             /\ Hottest(rs) \in Reading /\ Leads(Hottest(rs), {Record[o] : o \in G})
             /\ \A x : Tally(Stations(rs), x) = Cardinality(OfStation(x) \intersect Owned(r))
             /\ \A x : Tally(Buckets(rs), x) = Cardinality(InInterval(x) \intersect Owned(r))
             /\ Range(Stations(rs)) = {Record[o].station : o \in G}
             /\ Range(Buckets(rs)) = {Interval(Record[o]) : o \in G}
<1> DEFINE rs == Folded(acc[r])
           G  == All \intersect Owned(r)
           D  == Owned(r)
<1>1. file \in Inputs /\ acc[r] \in Seq(Seq(Int))
  BY OwnFacts DEF AllRead
<1>2. D \in SUBSET Starts /\ AreLines(acc[r], D)
  BY DEF AllRead, SplitInv, Kept, Owned, StartsIn
<1>3. GoodAt(D) = G
  BY <1>2 DEF GoodAt, All
<1>4. \A x : {o \in G : Record[o].station = x} = OfStation(x) \intersect D
  BY DEF OfStation
<1>5. \A x : {o \in G : Interval(Record[o]) = x} = InInterval(x) \intersect D
  BY DEF InInterval
<1> HIDE DEF D
<1>6. /\ Len(acc[r]) \in Nat /\ rs \in [1..Len(acc[r]) -> Reading]
      /\ Cardinality(Good(rs)) = Cardinality(GoodAt(D))
      /\ GoodIn(rs, 1..Len(acc[r])) = {Record[o] : o \in GoodAt(D)}
      /\ \A x : Tally(Stations(rs), x) = Cardinality({o \in GoodAt(D) : Record[o].station = x})
      /\ \A x : Tally(Buckets(rs), x) = Cardinality({o \in GoodAt(D) : Interval(Record[o]) = x})
      /\ Range(Stations(rs)) = {Record[o].station : o \in GoodAt(D)}
      /\ Range(Buckets(rs)) = {Interval(Record[o]) : o \in GoodAt(D)}
  BY <1>1, <1>2, Tallies
<1> HIDE DEF rs
<1>7. Hottest(rs) \in Reading /\ Leads(Hottest(rs), GoodIn(rs, 1..Len(acc[r])))
  BY <1>6, HottestLeads
<1>8. \A x : Tally(Stations(rs), x) = Cardinality(OfStation(x) \intersect D)
  <2> SUFFICES ASSUME NEW x PROVE Tally(Stations(rs), x) = Cardinality(OfStation(x) \intersect D)
    OBVIOUS
  <2>1. {o \in GoodAt(D) : Record[o].station = x} = OfStation(x) \intersect D
    BY <1>3, <1>4
  <2> QED
    BY <1>6, <2>1
<1>9. \A x : Tally(Buckets(rs), x) = Cardinality(InInterval(x) \intersect D)
  <2> SUFFICES ASSUME NEW x PROVE Tally(Buckets(rs), x) = Cardinality(InInterval(x) \intersect D)
    OBVIOUS
  <2>1. {o \in GoodAt(D) : Interval(Record[o]) = x} = InInterval(x) \intersect D
    BY <1>3, <1>5
  <2> QED
    BY <1>6, <2>1
<1> HIDE DEF G
<1>10. /\ Cardinality(Good(rs)) = Cardinality(G)
       /\ Leads(Hottest(rs), {Record[o] : o \in G})
       /\ Range(Stations(rs)) = {Record[o].station : o \in G}
       /\ Range(Buckets(rs)) = {Interval(Record[o]) : o \in G}
  BY <1>3, <1>6, <1>7
<1> QED
  BY <1>7, <1>8, <1>9, <1>10, Zenon DEF rs, G, D

\* All stations are below Wide.
LEMMA WideCovers ==
  ASSUME AllRead
  PROVE  \A o \in All : Wide \in Nat /\ Record[o].station \in 0..(Wide - 1)
<1>1. file \in Inputs
  BY DEF AllRead, SplitInv, SplitOK
<1> DEFINE St(r) == {Record[o].station : o \in All \intersect Owned(r)}
           sp == [r \in Rank |-> Mine(r, "span")]
<1>2. \A r \in Rank : St(r) \in SUBSET Nat /\ IsFiniteSet(St(r))
  <2> SUFFICES ASSUME NEW r \in Rank PROVE St(r) \in SUBSET Nat /\ IsFiniteSet(St(r))
    OBVIOUS
  <2> DEFINE E == All \intersect Owned(r)
             f == [o \in E |-> Record[o].station]
  <2>1. IsFiniteSet(E)
    BY <1>1, AllFacts, FS_Subset
  <2>2. St(r) = {f[x] : x \in E}
    OBVIOUS
  <2>3. St(r) \in SUBSET Nat
    BY <1>1, AllFacts
  <2> HIDE DEF f, E, St
  <2> QED
    BY <2>1, <2>2, <2>3, ImageFinite
<1>3. ASSUME NEW r \in Rank
      PROVE  Mine(r, "span") \in Int /\ \A x \in St(r) : x + 1 <= Mine(r, "span")
  <2> DEFINE X == St(r)
             f == [x \in X |-> x + 1]
             Y == {S} \union {x + 1 : x \in X}
  <2>1. Mine(r, "span") = Max(Y)
    <3>1. Range(Stations(Folded(acc[r]))) = X
      BY Brought
    <3>2. Mine(r, "span") = Max({S} \union {x + 1 : x \in Range(Stations(Folded(acc[r])))})
      BY DEF Mine, Share
    <3> HIDE DEF X
    <3> QED
      BY <3>1, <3>2
  <2>2. X \in SUBSET Nat /\ IsFiniteSet(X)
    BY <1>2
  <2> HIDE DEF X
  <2>3. {x + 1 : x \in X} = {f[x] : x \in X}
    OBVIOUS
  <2>4. IsFiniteSet({f[x] : x \in X})
    <3> HIDE DEF f
    <3> QED
      BY <2>2, ImageFinite
  <2>5. IsFiniteSet(Y)
    <3>1. IsFiniteSet({S})
      BY FS_Singleton
    <3> QED
      BY <2>3, <2>4, <3>1, FS_Union
  <2>6. Y \in SUBSET Int /\ Y # {} /\ \A x \in X : x + 1 \in Y
    BY <2>2, MpiAssumption
  <2> HIDE DEF Y
  <2>7. Max(Y) \in Y /\ \A y \in Y : y <= Max(Y)
    BY <2>5, <2>6, Extremes
  <2> QED
    BY <2>1, <2>6, <2>7 DEF X
<1> DEFINE Z == {sp[r] : r \in Rank}
<1>4. Wide = Max(Z)
  <2>1. {Mine(r, "span") : r \in Rank} = Z
    OBVIOUS
  <2> QED
    BY <2>1 DEF Wide
<1>5. Z \in SUBSET Int /\ \A r \in Rank : Mine(r, "span") \in Z
  BY <1>3
<1>6. IsFiniteSet(Z)
  <2> HIDE DEF sp
  <2> QED
    BY <1>1, Owners, ImageFinite
<1> SUFFICES ASSUME NEW o \in All
             PROVE  Wide \in Nat /\ Record[o].station \in 0..(Wide - 1)
  OBVIOUS
<1>7. PICK r \in Rank : o \in Owned(r)
  BY <1>1, AllFacts
<1>8. Record[o].station \in St(r) /\ Record[o].station \in Nat
  BY <1>1, <1>7, AllFacts
<1>9. Record[o].station + 1 <= Mine(r, "span") /\ Mine(r, "span") \in Int
  BY <1>3, <1>8
<1> HIDE DEF Z
<1>10. Max(Z) \in Z /\ \A y \in Z : y <= Max(Z)
  BY <1>5, <1>6, <1>7, Extremes
<1>11. Mine(r, "span") <= Wide /\ Wide \in Int
  BY <1>4, <1>5, <1>10
<1> QED
  BY <1>8, <1>9, <1>11

\* All intervals are between Lowest and Highest.
LEMMA BoundsCover ==
  ASSUME AllRead
  PROVE  \A o \in All : /\ Lowest \in Int /\ Highest \in Int /\ Lowest <= Highest
                        /\ Interval(Record[o]) \in Lowest..Highest
<1>1. file \in Inputs
  BY DEF AllRead, SplitInv, SplitOK
<1> DEFINE Ids(r) == {Interval(Record[o]) : o \in All \intersect Owned(r)}
           lo == [r \in Rank |-> Mine(r, "bounds")[1]]
           hi == [r \in Rank |-> Mine(r, "bounds")[2]]
<1>2. ASSUME NEW r \in Rank
      PROVE  /\ lo[r] \in Int /\ hi[r] \in Int
             /\ \A x \in Ids(r) : x \in Int /\ lo[r] <= x /\ x <= hi[r]
  <2> DEFINE X == Ids(r)
             E == All \intersect Owned(r)
             f == [o \in E |-> Interval(Record[o])]
  <2>1. IsFiniteSet(E)
    BY <1>1, AllFacts, FS_Subset
  <2>2. X = {f[x] : x \in E} /\ X \in SUBSET Int
    BY <1>1, AllFacts
  <2>3. IsFiniteSet(X)
    <3> HIDE DEF f, E, X
    <3> QED
      BY <2>1, <2>2, ImageFinite
  <2>4. Range(Buckets(Folded(acc[r]))) = X
    BY Brought
  <2> HIDE DEF X
  <2>5. Mine(r, "bounds") = IF X = {} THEN <<LLong, -LLong>> ELSE <<Min(X), Max(X)>>
    BY <2>4 DEF Mine, Share
  <2>6. CASE X = {}
    <3>1. lo[r] = LLong /\ hi[r] = -LLong
      BY <2>5, <2>6
    <3> QED
      BY <2>6, <3>1, MpiAssumption DEF X
  <2>7. CASE X # {}
    <3>1. lo[r] = Min(X) /\ hi[r] = Max(X)
      BY <2>5, <2>7
    <3>2. Max(X) \in X /\ Min(X) \in X /\ \A y \in X : y <= Max(X) /\ Min(X) <= y
      BY <2>2, <2>3, <2>7, Extremes
    <3>3. \A x \in X : x \in Int /\ lo[r] <= x /\ x <= hi[r]
      BY <2>2, <3>1, <3>2
    <3> QED
      BY <2>2, <3>1, <3>2, <3>3 DEF X
  <2> QED
    BY <2>6, <2>7
<1> DEFINE Y == {lo[r] : r \in Rank}
           Z == {hi[r] : r \in Rank}
<1>3. Lowest = Min(Y) /\ Highest = Max(Z)
  <2>1. {Mine(r, "bounds")[1] : r \in Rank} = Y /\ {Mine(r, "bounds")[2] : r \in Rank} = Z
    OBVIOUS
  <2> QED
    BY <2>1 DEF Lowest, Highest
<1>4. IsFiniteSet(Y) /\ IsFiniteSet(Z)
  <2> HIDE DEF lo, hi
  <2> QED
    BY <1>1, Owners, ImageFinite
<1>5. Y \in SUBSET Int /\ Z \in SUBSET Int /\ \A r \in Rank : lo[r] \in Y /\ hi[r] \in Z
  BY <1>2
<1> SUFFICES ASSUME NEW o \in All
             PROVE  /\ Lowest \in Int /\ Highest \in Int /\ Lowest <= Highest
                    /\ Interval(Record[o]) \in Lowest..Highest
  OBVIOUS
<1>6. PICK r \in Rank : o \in Owned(r)
  BY <1>1, AllFacts
<1> DEFINE v == Interval(Record[o])
<1>7. v \in Int /\ lo[r] <= v /\ v <= hi[r] /\ lo[r] \in Int /\ hi[r] \in Int
  BY <1>2, <1>6
<1> HIDE DEF Y, Z, lo, hi, v
<1>8. /\ Min(Y) \in Y /\ \A y \in Y : Min(Y) <= y
      /\ Max(Z) \in Z /\ \A z \in Z : z <= Max(Z)
  <2>1. Y # {} /\ Z # {}
    BY <1>5, <1>6
  <2> QED
    BY <1>4, <1>5, <2>1, Extremes
<1>9. Lowest \in Int /\ Highest \in Int /\ Lowest <= lo[r] /\ hi[r] <= Highest
  BY <1>3, <1>5, <1>6, <1>8
<1> QED
  BY <1>7, <1>9 DEF v

\* The report, made of what the ranks have.
AllIntervals ==
  IF Highest < Lowest THEN <<>>
  ELSE IF Highest - Lowest + 1 <= DenseLimit
       THEN [x \in Lowest..Highest |-> SumFunction([s \in Rank |-> Full(s, "dense")[x]])]
       ELSE [x \in UNION {DOMAIN Full(s, "sparse") : s \in Rank} |->
               SumFunction([s \in {q \in Rank : x \in DOMAIN Full(q, "sparse")} |->
                              Full(s, "sparse")[x]])]

LEMMA CountAdds ==
  ASSUME AllRead
  PROVE  SumFunction([s \in Rank |-> Full(s, "scalars").count])
           = Cardinality(Good(Folded(Lines)))
<1>1. file \in Inputs
  BY DEF AllRead, SplitInv, SplitOK
<1>2. All \in SUBSET Starts
  BY <1>1, AllFacts
<1> DEFINE f == [s \in Rank |-> Full(s, "scalars").count]
<1>3. f = [r \in Rank |-> Cardinality(All \intersect Owned(r))]
  <2>1. \A s \in Rank : Full(s, "scalars").count = Cardinality(Good(Folded(acc[s])))
    BY DEF Full, Share
  <2>2. \A s \in Rank : Full(s, "scalars").count = Cardinality(All \intersect Owned(s))
    BY <2>1, Brought
  <2> QED
    BY <2>2
<1> HIDE DEF f
<1>4. SumFunction(f) = Cardinality(All)
  BY <1>1, <1>2, <1>3, RangesAdd
<1>5. Cardinality(Good(Folded(Lines))) = Cardinality(All)
  BY <1>1, LinesAreLines, Tallies DEF All
<1> QED
  BY <1>4, <1>5 DEF f

\* What the tallies of the whole file are.
LEMMA FileTallies ==
  ASSUME file \in Inputs
  PROVE  LET rs == Folded(Lines) IN
         /\ {rs[k] : k \in Good(rs)} = {Record[o] : o \in All}
         /\ \A x : Tally(Stations(rs), x) = Cardinality(OfStation(x))
         /\ \A x : Tally(Buckets(rs), x) = Cardinality(InInterval(x))
         /\ Range(Stations(rs)) = {Record[o].station : o \in All}
         /\ Range(Buckets(rs)) = {Interval(Record[o]) : o \in All}
         /\ \A x : Cardinality(OfStation(x)) \in Nat /\ Cardinality(InInterval(x)) \in Nat
         /\ \A x : Cardinality(OfStation(x)) > 0 => x \in {Record[o].station : o \in All}
         /\ \A x : Cardinality(InInterval(x)) > 0 => x \in {Interval(Record[o]) : o \in All}
<1> DEFINE rs == Folded(Lines)
           n == Len(Lines)
<1>1. Lines \in Seq(Seq(Int)) /\ AreLines(Lines, Starts) /\ Starts \in SUBSET Starts
  BY LinesAreLines
<1>2. /\ n \in Nat /\ rs \in [1..n -> Reading]
      /\ GoodIn(rs, 1..n) = {Record[o] : o \in GoodAt(Starts)}
      /\ \A x : Tally(Stations(rs), x) = Cardinality({o \in GoodAt(Starts) : Record[o].station = x})
      /\ \A x : Tally(Buckets(rs), x) = Cardinality({o \in GoodAt(Starts) : Interval(Record[o]) = x})
      /\ Range(Stations(rs)) = {Record[o].station : o \in GoodAt(Starts)}
      /\ Range(Buckets(rs)) = {Interval(Record[o]) : o \in GoodAt(Starts)}
  BY <1>1, Tallies
<1> HIDE DEF rs, n
<1>3. {rs[k] : k \in Good(rs)} = {Record[o] : o \in All}
  <2>1. GoodIn(rs, 1..n) = {rs[k] : k \in Good(rs)}
    BY <1>2 DEF GoodIn, Good
  <2> QED
    BY <1>2, <2>1 DEF All
<1>4. \A x : IsFiniteSet(OfStation(x)) /\ IsFiniteSet(InInterval(x))
  BY AllFacts, AllStarts, FS_Subset
<1>5. ASSUME NEW x
      PROVE  /\ Cardinality(OfStation(x)) \in Nat /\ Cardinality(InInterval(x)) \in Nat
             /\ Cardinality(OfStation(x)) > 0 => x \in {Record[o].station : o \in All}
             /\ Cardinality(InInterval(x)) > 0 => x \in {Interval(Record[o]) : o \in All}
  <2>1. Cardinality(OfStation(x)) \in Nat /\ Cardinality(InInterval(x)) \in Nat
    BY <1>4, FS_CardinalityType
  <2>2. Cardinality(OfStation(x)) > 0 => OfStation(x) # {}
    BY <1>4, FS_EmptySet
  <2>3. Cardinality(InInterval(x)) > 0 => InInterval(x) # {}
    BY <1>4, FS_EmptySet
  <2>4. OfStation(x) # {} => x \in {Record[o].station : o \in All}
    BY DEF OfStation
  <2>5. InInterval(x) # {} => x \in {Interval(Record[o]) : o \in All}
    BY DEF InInterval
  <2> QED
    BY <2>1, <2>2, <2>3, <2>4, <2>5
<1>6. \A x : Tally(Stations(rs), x) = Cardinality(OfStation(x))
  BY <1>2 DEF All, OfStation
<1>7. \A x : Tally(Buckets(rs), x) = Cardinality(InInterval(x))
  BY <1>2 DEF All, InInterval
<1>8. /\ Range(Stations(rs)) = {Record[o].station : o \in All}
      /\ Range(Buckets(rs)) = {Interval(Record[o]) : o \in All}
  BY <1>2 DEF All
<1> QED
  BY <1>3, <1>5, <1>6, <1>7, <1>8, Zenon DEF rs

LEMMA RowsAdd ==
  ASSUME AllRead
  PROVE  LET rs == Folded(Lines) IN
         (IF Wide > 0
          THEN Rows([x \in 0..(Wide - 1) |-> SumFunction([s \in Rank |-> Full(s, "stations")[x]])])
          ELSE {})
           = Rows([x \in Range(Stations(rs)) |-> Tally(Stations(rs), x)])
<1>1. file \in Inputs
  BY DEF AllRead, SplitInv, SplitOK
<1> DEFINE D == 0..(Wide - 1)
           E == {Record[o].station : o \in All}
           f == [x \in D |-> SumFunction([s \in Rank |-> Full(s, "stations")[x]])]
           g == [x \in E |-> Cardinality(OfStation(x))]
<1>2. ASSUME NEW x \in D
      PROVE  SumFunction([s \in Rank |-> Full(s, "stations")[x]]) = Cardinality(OfStation(x))
  <2> DEFINE h == [s \in Rank |-> Full(s, "stations")[x]]
             T == OfStation(x)
  <2>1. \A s \in Rank : Full(s, "stations")[x] = Tally(Stations(Folded(acc[s])), x)
    BY DEF Full, Share
  <2>2. \A s \in Rank : Full(s, "stations")[x] = Cardinality(T \intersect Owned(s))
    BY <2>1, Brought
  <2>3. h = [s \in Rank |-> Cardinality(T \intersect Owned(s))]
    BY <2>2
  <2>4. T \in SUBSET Starts
    BY <1>1, AllFacts
  <2> HIDE DEF h, T
  <2>5. SumFunction(h) = Cardinality(T)
    BY <1>1, <2>3, <2>4, RangesAdd
  <2> QED
    BY <2>5 DEF h, T
<1>3. /\ \A x : Cardinality(OfStation(x)) \in Nat
      /\ \A x : Cardinality(OfStation(x)) > 0 => x \in E
  BY <1>1, FileTallies
<1>4. E \subseteq D
  BY <1>1, WideCovers
<1>5. f = [x \in D |-> Cardinality(OfStation(x))]
  BY <1>2
<1>6. [x \in Range(Stations(Folded(Lines))) |-> Tally(Stations(Folded(Lines)), x)] = g
  <2> DEFINE v == Stations(Folded(Lines))
  <2>1. Range(v) = E /\ \A x : Tally(v, x) = Cardinality(OfStation(x))
    BY <1>1, FileTallies
  <2> HIDE DEF v, E
  <2>2. [x \in Range(v) |-> Tally(v, x)] = g
    BY <2>1
  <2> QED
    BY <2>2 DEF v
<1>7. f \in [D -> Nat] /\ g \in [E -> Nat]
  BY <1>3, <1>5
<1> HIDE DEF E
<1>8. CASE Wide > 0
  <2>1. \A x \in D : f[x] > 0 => x \in E /\ g[x] = f[x]
    BY <1>3, <1>5
  <2>2. \A x \in E : g[x] > 0 => x \in D /\ f[x] = g[x]
    BY <1>4, <1>5
  <2> HIDE DEF f, g, D
  <2>3. Rows(f) = Rows(g)
    BY <1>7, <2>1, <2>2, RowsSame
  <2> QED
    BY <1>6, <1>8, <2>3 DEF f, D
<1>9. CASE ~(Wide > 0)
  <2>1. All = {}
    <3> SUFFICES ASSUME NEW o \in All PROVE FALSE
      OBVIOUS
    <3>1. Record[o].station \in Nat
      BY <1>1, AllFacts
    <3>2. Wide \in Nat /\ Record[o].station \in 0..(Wide - 1)
      BY WideCovers
    <3> HIDE DEF D
    <3> QED
      BY <1>9, <3>1, <3>2
  <2>2. E = {}
    BY <2>1 DEF E
  <2>3. Rows(g) = {}
    BY <2>2 DEF Rows
  <2> QED
    BY <1>6, <1>9, <2>3
<1> QED
  BY <1>8, <1>9

\* The merged counts of a sparse gather, those of a dense reduction, or none.
LEMMA BusiestAdds ==
  ASSUME AllRead
  PROVE  LET rs == Folded(Lines) IN
         Busiest(AllIntervals) = Busiest([x \in Range(Buckets(rs)) |-> Tally(Buckets(rs), x)])
<1>1. file \in Inputs
  BY DEF AllRead, SplitInv, SplitOK
<1> DEFINE E == {Interval(Record[o]) : o \in All}
           g == [x \in E |-> Cardinality(InInterval(x))]
<1>2. /\ \A x : Cardinality(InInterval(x)) \in Nat
      /\ \A x : Cardinality(InInterval(x)) > 0 => x \in E
  BY <1>1, FileTallies
<1>3. [x \in Range(Buckets(Folded(Lines))) |-> Tally(Buckets(Folded(Lines)), x)] = g
  <2> DEFINE v == Buckets(Folded(Lines))
  <2>1. Range(v) = E /\ \A x : Tally(v, x) = Cardinality(InInterval(x))
    BY <1>1, FileTallies
  <2> HIDE DEF v, E
  <2>2. [x \in Range(v) |-> Tally(v, x)] = g
    BY <2>1
  <2> QED
    BY <2>2 DEF v
<1>4. g \in [E -> Nat]
  BY <1>2
<1>5. CASE Highest < Lowest
  <2>1. All = {}
    <3> SUFFICES ASSUME NEW o \in All PROVE FALSE
      OBVIOUS
    <3>1. Lowest \in Int /\ Highest \in Int /\ Lowest <= Highest
      BY BoundsCover
    <3> QED
      BY <1>5, <3>1
  <2>2. E = {}
    BY <2>1
  <2>3. AllIntervals = <<>>
    BY <1>5 DEF AllIntervals
  <2>4. <<>> \in [{} -> Nat] /\ g \in [{} -> Nat]
    BY <1>4, <2>2
  <2> HIDE DEF E, g
  <2>5. Busiest(<<>>) = Busiest(g)
    BY <2>4, BusiestSame
  <2> QED
    BY <1>3, <2>3, <2>5
<1>6. ASSUME NEW x, NEW h, NEW R \in SUBSET Rank,
             h = [s \in R |-> Cardinality(InInterval(x) \intersect Owned(s))],
             \A s \in Rank : InInterval(x) \intersect Owned(s) # {} => s \in R
      PROVE  SumFunction(h) = Cardinality(InInterval(x))
  BY <1>1, <1>6, AllFacts, RangesAdd
<1>7. CASE ~(Highest < Lowest) /\ Highest - Lowest + 1 <= DenseLimit
  <2> DEFINE D == Lowest..Highest
             f == [x \in D |-> SumFunction([s \in Rank |-> Full(s, "dense")[x]])]
  <2>1. AllIntervals = f
    BY <1>7 DEF AllIntervals
  <2>2. ASSUME NEW x \in D
        PROVE  SumFunction([s \in Rank |-> Full(s, "dense")[x]]) = Cardinality(InInterval(x))
    <3> DEFINE h == [s \in Rank |-> Full(s, "dense")[x]]
    <3>1. \A s \in Rank : Full(s, "dense")[x] = Tally(Buckets(Folded(acc[s])), x)
      BY DEF Full, Share
    <3>2. \A s \in Rank : Full(s, "dense")[x] = Cardinality(InInterval(x) \intersect Owned(s))
      BY <3>1, Brought
    <3>3. h = [s \in Rank |-> Cardinality(InInterval(x) \intersect Owned(s))]
      BY <3>2
    <3> HIDE DEF h
    <3>4. SumFunction(h) = Cardinality(InInterval(x))
      BY <1>6, <3>3
    <3> QED
      BY <3>4 DEF h
  <2>3. f = [x \in D |-> Cardinality(InInterval(x))]
    BY <2>2
  <2>4. E \subseteq D
    BY BoundsCover
  <2>5. f \in [D -> Nat]
    BY <1>2, <2>3
  <2> HIDE DEF D, E
  <2>6. \A x \in D : f[x] > 0 => x \in E /\ g[x] = f[x]
    BY <1>2, <2>3
  <2>7. \A x \in E : g[x] > 0 => x \in D /\ f[x] = g[x]
    BY <2>3, <2>4
  <2> HIDE DEF f, g
  <2>8. Busiest(f) = Busiest(g)
    BY <1>4, <2>5, <2>6, <2>7, BusiestSame
  <2> QED
    BY <1>3, <2>1, <2>8
<1>8. CASE ~(Highest < Lowest) /\ ~(Highest - Lowest + 1 <= DenseLimit)
  <2> DEFINE Ids(s) == {Interval(Record[o]) : o \in All \intersect Owned(s)}
             Where(x) == {q \in Rank : x \in Ids(q)}
  <2>1. ASSUME NEW s \in Rank
        PROVE  Full(s, "sparse") = [x \in Ids(s) |-> Cardinality(InInterval(x) \intersect Owned(s))]
    <3> DEFINE v == Buckets(Folded(acc[s]))
    <3>1. Full(s, "sparse") = [x \in Range(v) |-> Tally(v, x)]
      BY DEF Full, Share
    <3>2. /\ Range(v) = Ids(s)
          /\ \A x : Tally(v, x) = Cardinality(InInterval(x) \intersect Owned(s))
      BY Brought
    <3> HIDE DEF v, Ids
    <3> QED
      BY <3>1, <3>2
  <2>2. \A s \in Rank : DOMAIN Full(s, "sparse") = Ids(s)
    BY <2>1
  <2>3. UNION {DOMAIN Full(s, "sparse") : s \in Rank} = E
    <3>1. UNION {DOMAIN Full(s, "sparse") : s \in Rank} = UNION {Ids(s) : s \in Rank}
      BY <2>2
    <3>2. UNION {Ids(s) : s \in Rank} = E
      BY <1>1, AllFacts
    <3> QED
      BY <3>1, <3>2
  <2>4. \A x : {q \in Rank : x \in DOMAIN Full(q, "sparse")} = Where(x)
    BY <2>2
  <2>5. AllIntervals = [x \in E |-> SumFunction([s \in Where(x) |-> Full(s, "sparse")[x]])]
    <3>1. AllIntervals =
            [x \in UNION {DOMAIN Full(s, "sparse") : s \in Rank} |->
               SumFunction([s \in {q \in Rank : x \in DOMAIN Full(q, "sparse")} |->
                              Full(s, "sparse")[x]])]
      BY <1>8 DEF AllIntervals
    <3> HIDE DEF E, Where
    <3> QED
      BY <2>3, <2>4, <3>1
  <2>6. ASSUME NEW x \in E
        PROVE  SumFunction([s \in Where(x) |-> Full(s, "sparse")[x]]) = Cardinality(InInterval(x))
    <3> DEFINE h == [s \in Where(x) |-> Full(s, "sparse")[x]]
               R == Where(x)
    <3>1. h = [s \in R |-> Cardinality(InInterval(x) \intersect Owned(s))]
      BY <2>1
    <3>2. \A s \in Rank : InInterval(x) \intersect Owned(s) # {} => s \in R
      BY DEF InInterval
    <3>3. R \in SUBSET Rank
      OBVIOUS
    <3> HIDE DEF h, R, Where
    <3>4. SumFunction(h) = Cardinality(InInterval(x))
      BY <1>6, <3>1, <3>2, <3>3
    <3> QED
      BY <3>4 DEF h, R
  <2>7. AllIntervals = g
    <3> HIDE DEF E, Where
    <3> QED
      BY <2>5, <2>6
  <2> QED
    BY <1>3, <2>7
<1> QED
  BY <1>5, <1>7, <1>8

\* The first of the ranks' candidates is the first of all.
LEMMA HottestAgrees ==
  ASSUME AllRead
  PROVE  LET rs   == Folded(Lines)
             good == {rs[k] : k \in Good(rs)}
         IN  Hottest([k \in 1..P |-> Full(k - 1, "scalars").hottest])
               = IF good = {} THEN None
                 ELSE CHOOSE a \in good : \A b \in good : First(a, b)
<1>1. file \in Inputs /\ P \in Nat /\ Rank = 0..(P - 1)
  BY FileFacts DEF AllRead, SplitInv, SplitOK, Rank
<1> DEFINE h(r) == Hottest(Folded(acc[r]))
           X(r) == {Record[o] : o \in All \intersect Owned(r)}
           Y == {Record[o] : o \in All}
           c == [k \in 1..P |-> h(k - 1)]
<1>2. [k \in 1..P |-> Full(k - 1, "scalars").hottest] = c
  <2>1. \A k \in 1..P : Full(k - 1, "scalars").hottest = h(k - 1)
    BY DEF Full, Share
  <2> QED
    BY <2>1
<1>3. \A k \in 1..P : k - 1 \in Rank
  BY <1>1
<1>4. \A r \in Rank : r + 1 \in 1..P /\ (r + 1) - 1 = r
  BY <1>1
<1>5. \A r \in Rank : h(r) \in Reading /\ Leads(h(r), X(r))
  BY Brought
<1>6. \A a \in Y : a \in Reading /\ a.ok /\ \E r \in Rank : a \in X(r)
  BY <1>1, AllFacts
<1>7. \A r \in Rank : X(r) \subseteq Y
  OBVIOUS
<1> HIDE DEF h, X, Y
<1>8. c \in [1..P -> Reading]
  BY <1>3, <1>5
<1>9. \A r \in Rank : IF X(r) = {} THEN ~h(r).ok
                      ELSE h(r).ok /\ h(r) \in X(r) /\ \A b \in X(r) : First(h(r), b)
  BY <1>5, <1>6, <1>7, NoneReading DEF Leads
<1> DEFINE Z == GoodIn(c, 1..P)
<1>10. \A a \in Z : a \in Y /\ a.ok
  <2> SUFFICES ASSUME NEW a \in Z PROVE a \in Y /\ a.ok
    OBVIOUS
  <2>1. PICK k \in 1..P : a = c[k] /\ c[k].ok
    BY DEF GoodIn
  <2>2. a = h(k - 1) /\ k - 1 \in Rank
    BY <1>3, <2>1
  <2> QED
    BY <1>7, <1>9, <2>1, <2>2
<1>11. \A b \in Y : \E a \in Z : First(a, b)
  <2> SUFFICES ASSUME NEW b \in Y PROVE \E a \in Z : First(a, b)
    OBVIOUS
  <2>1. PICK r \in Rank : b \in X(r)
    BY <1>6
  <2>2. h(r).ok /\ First(h(r), b)
    BY <1>9, <2>1
  <2>3. r + 1 \in 1..P /\ c[r + 1] = h(r)
    BY <1>4
  <2>4. h(r) \in Z
    BY <2>2, <2>3 DEF GoodIn
  <2> QED
    BY <2>2, <2>4
<1>12. Leads(Hottest(c), Z)
  BY <1>1, <1>8, HottestLeads
<1> HIDE DEF Z, c
<1>13. Leads(Hottest(c), Y)
  <2>1. CASE Y = {}
    <3>1. Z = {}
      BY <1>10, <2>1
    <3> QED
      BY <1>12, <2>1, <3>1 DEF Leads
  <2>2. CASE Y # {}
    <3>1. Z # {}
      BY <1>11, <2>2
    <3>2. Hottest(c) \in Z /\ \A a \in Z : First(Hottest(c), a)
      BY <1>12, <3>1 DEF Leads
    <3>3. \A b \in Y : First(Hottest(c), b)
      <4> SUFFICES ASSUME NEW b \in Y PROVE First(Hottest(c), b)
        OBVIOUS
      <4>1. PICK a \in Z : First(a, b)
        BY <1>11
      <4>2. Hottest(c) \in Reading /\ a \in Reading /\ b \in Reading /\ First(Hottest(c), a)
        BY <1>6, <1>10, <3>2, <4>1
      <4> QED
        BY <4>1, <4>2, Orders
    <3> QED
      BY <1>10, <2>2, <3>2, <3>3 DEF Leads
  <2> QED
    BY <2>1, <2>2
<1>14. {Folded(Lines)[k] : k \in Good(Folded(Lines))} = Y
  BY <1>1, FileTallies DEF Y
<1>15. Hottest(c) = IF Y = {} THEN None ELSE CHOOSE a \in Y : \A b \in Y : First(a, b)
  BY <1>6, <1>13, OneLeads
<1> QED
  BY <1>2, <1>14, <1>15

\* What the reductions come to is the report of the file.
LEMMA Assembled ==
  ASSUME AllRead
  PROVE  [count   |-> SumFunction([s \in Rank |-> Full(s, "scalars").count]),
          hottest |-> Hottest([k \in 1..P |-> Full(k - 1, "scalars").hottest]),
          rows    |-> IF Wide > 0
                      THEN Rows([x \in 0..(Wide - 1) |->
                                   SumFunction([s \in Rank |-> Full(s, "stations")[x]])])
                      ELSE {},
          busiest |-> Busiest(AllIntervals)] = Expected
BY CountAdds, HottestAgrees, RowsAdd, BusiestAdds, Zenon DEF Expected

-----------------------------------------------------------------------------
(***************************************************************************)
(* The order of the calls.                                                 *)
(***************************************************************************)

\* What there is to know of a route.
MetAt(R, n, k, w, lo, hi) ==
  /\ R[k] = "stations" => k = 4 /\ w > 0 /\ R[5] = "bounds"
  /\ R[k] = "bounds" =>
       /\ k >= 4 /\ k < n
       /\ R[k + 1] = IF hi < lo THEN "finalize"
                     ELSE IF hi - lo + 1 <= DenseLimit THEN "dense" ELSE "sparse"
  /\ R[k] \in {"dense", "sparse"} => k >= 5 /\ k = n - 1 /\ R[k - 1] = "bounds"
  /\ R[k] = "dense" => ~(hi < lo) /\ hi - lo + 1 <= DenseLimit
  /\ R[k] = "sparse" => ~(hi < lo) /\ ~(hi - lo + 1 <= DenseLimit)

RouteOfSize(R, n, w, lo, hi) ==
  /\ n \in 5..7 /\ R[1] = "bcast" /\ R[2] = "scalars" /\ R[3] = "span"
  /\ R[4] = IF w > 0 THEN "stations" ELSE "bounds"
  /\ R[n] = "finalize"
  /\ \A k \in 1..n : R[k] \in Ops
  /\ \A j, k \in 1..n : R[j] = R[k] => j = k
  /\ \E k \in 1..n : R[k] = "bounds"
  /\ \A k \in 1..n : MetAt(R, n, k, w, lo, hi)

RouteFacts(R, w, lo, hi) == RouteOfSize(R, Len(R), w, lo, hi)

LEMMA RouteIs ==
  ASSUME NEW w, NEW lo, NEW hi
  PROVE  RouteFacts(RouteOf(w, lo, hi), w, lo, hi)
<1> DEFINE R == RouteOf(w, lo, hi)
           Fixed == R[1] = "bcast" /\ R[2] = "scalars" /\ R[3] = "span"
<1>1. CASE w > 0 /\ hi < lo
  <2>1. /\ Len(R) = 6 /\ Fixed
        /\ R[4] = "stations" /\ R[5] = "bounds" /\ R[6] = "finalize"
    BY <1>1 DEF RouteOf, Tables
  <2> HIDE DEF R
  <2>2. \A k \in 1..6 : k \in {1, 2, 3, 4, 5, 6}
    OBVIOUS
  <2>3. \A k \in 1..6 : R[k] \in Ops
    BY <2>1, <2>2 DEF Ops
  <2>4. \A j, k \in 1..6 : R[j] = R[k] => j = k
    BY <2>1, <2>2
  <2>5. \A k \in 1..6 : MetAt(R, 6, k, w, lo, hi)
    BY <1>1, <2>1, <2>2 DEF MetAt
  <2>6. R[4] = (IF w > 0 THEN "stations" ELSE "bounds") /\ \E k \in 1..6 : R[k] = "bounds"
    BY <1>1, <2>1
  <2>7. RouteOfSize(R, 6, w, lo, hi)
    BY <2>1, <2>3, <2>4, <2>5, <2>6 DEF RouteOfSize
  <2> QED
    BY <2>1, <2>7 DEF RouteFacts, R
<1>2. CASE w > 0 /\ ~(hi < lo) /\ hi - lo + 1 <= DenseLimit
  <2>1. /\ Len(R) = 7 /\ Fixed
        /\ R[4] = "stations" /\ R[5] = "bounds" /\ R[6] = "dense" /\ R[7] = "finalize"
    BY <1>2 DEF RouteOf, Tables
  <2> HIDE DEF R
  <2>2. \A k \in 1..7 : k \in {1, 2, 3, 4, 5, 6, 7}
    OBVIOUS
  <2>3. \A k \in 1..7 : R[k] \in Ops
    BY <2>1, <2>2 DEF Ops
  <2>4. \A j, k \in 1..7 : R[j] = R[k] => j = k
    BY <2>1, <2>2
  <2>5. \A k \in 1..7 : MetAt(R, 7, k, w, lo, hi)
    BY <1>2, <2>1, <2>2 DEF MetAt
  <2>6. R[4] = (IF w > 0 THEN "stations" ELSE "bounds") /\ \E k \in 1..7 : R[k] = "bounds"
    BY <1>2, <2>1
  <2>7. RouteOfSize(R, 7, w, lo, hi)
    BY <2>1, <2>3, <2>4, <2>5, <2>6 DEF RouteOfSize
  <2> QED
    BY <2>1, <2>7 DEF RouteFacts, R
<1>3. CASE w > 0 /\ ~(hi < lo) /\ ~(hi - lo + 1 <= DenseLimit)
  <2>1. /\ Len(R) = 7 /\ Fixed
        /\ R[4] = "stations" /\ R[5] = "bounds" /\ R[6] = "sparse" /\ R[7] = "finalize"
    BY <1>3 DEF RouteOf, Tables
  <2> HIDE DEF R
  <2>2. \A k \in 1..7 : k \in {1, 2, 3, 4, 5, 6, 7}
    OBVIOUS
  <2>3. \A k \in 1..7 : R[k] \in Ops
    BY <2>1, <2>2 DEF Ops
  <2>4. \A j, k \in 1..7 : R[j] = R[k] => j = k
    BY <2>1, <2>2
  <2>5. \A k \in 1..7 : MetAt(R, 7, k, w, lo, hi)
    BY <1>3, <2>1, <2>2 DEF MetAt
  <2>6. R[4] = (IF w > 0 THEN "stations" ELSE "bounds") /\ \E k \in 1..7 : R[k] = "bounds"
    BY <1>3, <2>1
  <2>7. RouteOfSize(R, 7, w, lo, hi)
    BY <2>1, <2>3, <2>4, <2>5, <2>6 DEF RouteOfSize
  <2> QED
    BY <2>1, <2>7 DEF RouteFacts, R
<1>4. CASE ~(w > 0) /\ hi < lo
  <2>1. /\ Len(R) = 5 /\ Fixed
        /\ R[4] = "bounds" /\ R[5] = "finalize"
    BY <1>4 DEF RouteOf, Tables
  <2> HIDE DEF R
  <2>2. \A k \in 1..5 : k \in {1, 2, 3, 4, 5}
    OBVIOUS
  <2>3. \A k \in 1..5 : R[k] \in Ops
    BY <2>1, <2>2 DEF Ops
  <2>4. \A j, k \in 1..5 : R[j] = R[k] => j = k
    BY <2>1, <2>2
  <2>5. \A k \in 1..5 : MetAt(R, 5, k, w, lo, hi)
    BY <1>4, <2>1, <2>2 DEF MetAt
  <2>6. R[4] = (IF w > 0 THEN "stations" ELSE "bounds") /\ \E k \in 1..5 : R[k] = "bounds"
    BY <1>4, <2>1
  <2>7. RouteOfSize(R, 5, w, lo, hi)
    BY <2>1, <2>3, <2>4, <2>5, <2>6 DEF RouteOfSize
  <2> QED
    BY <2>1, <2>7 DEF RouteFacts, R
<1>5. CASE ~(w > 0) /\ ~(hi < lo) /\ hi - lo + 1 <= DenseLimit
  <2>1. /\ Len(R) = 6 /\ Fixed
        /\ R[4] = "bounds" /\ R[5] = "dense" /\ R[6] = "finalize"
    BY <1>5 DEF RouteOf, Tables
  <2> HIDE DEF R
  <2>2. \A k \in 1..6 : k \in {1, 2, 3, 4, 5, 6}
    OBVIOUS
  <2>3. \A k \in 1..6 : R[k] \in Ops
    BY <2>1, <2>2 DEF Ops
  <2>4. \A j, k \in 1..6 : R[j] = R[k] => j = k
    BY <2>1, <2>2
  <2>5. \A k \in 1..6 : MetAt(R, 6, k, w, lo, hi)
    BY <1>5, <2>1, <2>2 DEF MetAt
  <2>6. R[4] = (IF w > 0 THEN "stations" ELSE "bounds") /\ \E k \in 1..6 : R[k] = "bounds"
    BY <1>5, <2>1
  <2>7. RouteOfSize(R, 6, w, lo, hi)
    BY <2>1, <2>3, <2>4, <2>5, <2>6 DEF RouteOfSize
  <2> QED
    BY <2>1, <2>7 DEF RouteFacts, R
<1>6. CASE ~(w > 0) /\ ~(hi < lo) /\ ~(hi - lo + 1 <= DenseLimit)
  <2>1. /\ Len(R) = 6 /\ Fixed
        /\ R[4] = "bounds" /\ R[5] = "sparse" /\ R[6] = "finalize"
    BY <1>6 DEF RouteOf, Tables
  <2> HIDE DEF R
  <2>2. \A k \in 1..6 : k \in {1, 2, 3, 4, 5, 6}
    OBVIOUS
  <2>3. \A k \in 1..6 : R[k] \in Ops
    BY <2>1, <2>2 DEF Ops
  <2>4. \A j, k \in 1..6 : R[j] = R[k] => j = k
    BY <2>1, <2>2
  <2>5. \A k \in 1..6 : MetAt(R, 6, k, w, lo, hi)
    BY <1>6, <2>1, <2>2 DEF MetAt
  <2>6. R[4] = (IF w > 0 THEN "stations" ELSE "bounds") /\ \E k \in 1..6 : R[k] = "bounds"
    BY <1>6, <2>1
  <2>7. RouteOfSize(R, 6, w, lo, hi)
    BY <2>1, <2>3, <2>4, <2>5, <2>6 DEF RouteOfSize
  <2> QED
    BY <2>1, <2>7 DEF RouteFacts, R
<1> QED
  BY <1>1, <1>2, <1>3, <1>4, <1>5, <1>6

\* One more call.
LEMMA OneCall ==
  ASSUME NEW s, s \in Seq(Range(s)), NEW e
  PROVE  LET t == Append(s, e) IN
         /\ Len(s) \in Nat /\ DOMAIN s = 1..Len(s) /\ (s # <<>> => Len(s) >= 1)
         /\ t \in Seq(Range(t)) /\ Len(t) = Len(s) + 1 /\ DOMAIN t = 1..(Len(s) + 1)
         /\ \A k \in 1..Len(s) : t[k] = s[k]
         /\ t[Len(s) + 1] = e /\ t # <<>>
<1> DEFINE D == Range(s) \union {e}
           t == Append(s, e)
<1>1. s \in Seq(D) /\ e \in D
  OBVIOUS
<1>2. Len(s) \in Nat /\ DOMAIN s = 1..Len(s) /\ (s # <<>> => Len(s) >= 1)
  BY LenProperties, EmptySeq
<1> HIDE DEF D
<1>3. /\ t \in Seq(D) /\ Len(t) = Len(s) + 1
      /\ \A k \in 1..Len(s) : t[k] = s[k]
      /\ t[Len(s) + 1] = e
  BY <1>1, <1>2, AppendProperties
<1> HIDE DEF t
<1>4. DOMAIN t = 1..(Len(s) + 1) /\ t \in [1..(Len(s) + 1) -> D]
  BY <1>3, LenProperties
<1>5. \A k \in 1..(Len(s) + 1) : t[k] \in Range(t)
  BY <1>4 DEF Range
<1>6. t \in [1..(Len(s) + 1) -> Range(t)] /\ Len(s) + 1 \in Nat
  BY <1>2, <1>4, <1>5
<1>7. t \in Seq(Range(t))
  BY <1>6, SeqDef
<1>8. t # <<>>
  <2>1. Len(<<>>) = 0
    OBVIOUS
  <2> QED
    BY <1>2, <1>3, <2>1
<1> QED
  BY <1>2, <1>3, <1>4, <1>7, <1>8 DEF t

-----------------------------------------------------------------------------
(***************************************************************************)
(* What the steps leave alone.                                             *)
(***************************************************************************)

LEMMA RootIsRank == 0 \in Rank
BY SplitAssumption DEF Rank

\* What the calls are to agree on follows from what is folded.
LEMMA FoldFrame ==
  ASSUME acc' = acc, header_ok' = header_ok
  PROVE  /\ \A r, op : Full(r, op)' = Full(r, op)
         /\ Wide' = Wide /\ Lowest' = Lowest /\ Highest' = Highest /\ Route' = Route
<1>1. \A r : Folded(acc[r])' = Folded(acc[r])
  BY DEF Folded
<1>2. \A rs, op, w, lo, hi : Share(rs, op, w, lo, hi)' = Share(rs, op, w, lo, hi)
  BY DEF Share
<1>3. \A r, op : Mine(r, op)' = Mine(r, op)
  BY DEF Mine, Share, Folded
<1>4. Wide' = Wide /\ Lowest' = Lowest /\ Highest' = Highest
  BY <1>3 DEF Wide, Lowest, Highest
<1>5. \A r, op : Full(r, op)' = Full(r, op)
  BY <1>4 DEF Full, Share, Folded
<1>6. Route' = Route
  BY <1>4 DEF Route
<1> QED
  BY <1>4, <1>5, <1>6

\* Only the tables are about what all ranks know.
LEMMA FullEarly ==
  ASSUME NEW r, NEW op \in {"bcast", "scalars", "span", "bounds", "sparse", "finalize"},
         NEW w, NEW lo, NEW hi
  PROVE  Full(r, op) = Share(Folded(acc[r]), op, w, lo, hi)
<1>1. CASE op = "bcast"
  BY <1>1 DEF Full, Share
<1>2. CASE op = "scalars"
  BY <1>2 DEF Full, Share
<1>3. CASE op = "span"
  BY <1>3 DEF Full, Share
<1>4. CASE op = "bounds"
  BY <1>4 DEF Full, Share
<1>5. CASE op = "sparse"
  BY <1>5 DEF Full, Share
<1>6. CASE op = "finalize"
  BY <1>6 DEF Full, Share
<1> QED
  BY <1>1, <1>2, <1>3, <1>4, <1>5, <1>6

-----------------------------------------------------------------------------
(***************************************************************************)
(* A rank that has no file, or a header that cannot be parsed, stops all.  *)
(***************************************************************************)

\* A call of rank r, and the others'.
LEMMA CallAppends ==
  ASSUME MpiOK, NEW r \in Rank, Call(r)
  PROVE  LET e == [op |-> stage[r], data |-> Contribution(r, stage[r])]
             n == Len(calls[r]) IN
         /\ n \in Nat /\ DOMAIN calls[r] = 1..n /\ calls'[r] = Append(calls[r], e)
         /\ Len(calls'[r]) = n + 1 /\ DOMAIN calls'[r] = 1..(n + 1)
         /\ \A k \in 1..n : calls'[r][k] = calls[r][k]
         /\ calls'[r][n + 1] = e /\ calls'[r] # <<>>
         /\ calls'[r] \in Seq(Range(calls'[r]))
         /\ \A q \in Rank : q # r => calls'[q] = calls[q]
         /\ DOMAIN calls' = Rank
<1> DEFINE e == [op |-> stage[r], data |-> Contribution(r, stage[r])]
<1>1. calls' = [calls EXCEPT ![r] = Append(calls[r], e)]
  BY DEF Call
<1> HIDE DEF e
<1>2. /\ DOMAIN calls' = Rank /\ calls'[r] = Append(calls[r], e)
      /\ \A q \in Rank : q # r => calls'[q] = calls[q]
  BY <1>1 DEF MpiOK
<1>3. calls[r] \in Seq(Range(calls[r]))
  BY DEF MpiOK
<1> QED
  BY <1>2, <1>3, OneCall DEF e

LEMMA CallsFacts ==
  ASSUME MpiOK, NEW r \in Rank
  PROVE  /\ Len(calls[r]) \in Nat /\ DOMAIN calls[r] = 1..Len(calls[r])
         /\ inside[r] => Len(calls[r]) >= 1
<1>1. calls[r] \in Seq(Range(calls[r])) /\ (inside[r] => calls[r] # <<>>)
  BY DEF MpiOK
<1> QED
  BY <1>1, OneCall

LEMMA MpiOKStep ==
  ASSUME MpiOK, [Next]_vars
  PROVE  MpiOK'
<1> DEFINE Typed == /\ missing \in SUBSET Rank /\ header_ok \in BOOLEAN /\ eager \in BOOLEAN
                    /\ stage \in [Rank -> Stages] /\ inside \in [Rank -> BOOLEAN]
                    /\ DOMAIN calls = Rank
           Calling(q) == /\ calls[q] \in Seq(Range(calls[q]))
                         /\ inside[q] => calls[q] # <<>> /\ stage[q] \in Ops
<1>1. Typed /\ \A q \in Rank : Calling(q)
  BY DEF MpiOK
<1> SUFFICES Typed' /\ \A q \in Rank : Calling(q)'
  BY DEF MpiOK
<1>2. CASE UNCHANGED vars
  BY <1>1, <1>2 DEF vars, mpi
<1>3. CASE Write
  <2>1. stage' \in [Rank -> Stages]
    BY <1>1, <1>3 DEF Write, Stages, Ops
  <2>2. ~inside[0] /\ \A q \in Rank : q # 0 => stage'[q] = stage[q]
    BY <1>1, <1>3, RootIsRank DEF Write, Ops
  <2>3. UNCHANGED <<missing, header_ok, eager, calls, inside>>
    BY <1>3 DEF Write
  <2> QED
    BY <1>1, <2>1, <2>2, <2>3
<1>4. CASE Abort
  <2>1. stage' \in [Rank -> Stages] /\ inside' \in [Rank -> BOOLEAN] /\ \A q \in Rank : ~inside'[q]
    BY <1>1, <1>4 DEF Abort, Stages
  <2>2. UNCHANGED <<missing, header_ok, eager, calls>>
    BY <1>4 DEF Abort
  <2> QED
    BY <1>1, <2>1, <2>2
<1>5. ASSUME NEW r \in Rank, Open(r) PROVE Typed' /\ \A q \in Rank : Calling(q)'
  <2>1. stage' \in [Rank -> Stages]
    BY <1>1, <1>5 DEF Open, Stages, Ops
  <2>2. ~inside[r] /\ \A q \in Rank : q # r => stage'[q] = stage[q]
    BY <1>1, <1>5 DEF Open, Ops
  <2>3. UNCHANGED <<missing, header_ok, eager, calls, inside>>
    BY <1>5 DEF Open
  <2> QED
    BY <1>1, <2>1, <2>2, <2>3
<1>6. ASSUME NEW r \in Rank, Call(r) PROVE Typed' /\ \A q \in Rank : Calling(q)'
  <2>1. /\ DOMAIN calls' = Rank
        /\ \A q \in Rank : q # r => calls'[q] = calls[q]
        /\ calls'[r] \in Seq(Range(calls'[r])) /\ calls'[r] # <<>>
    BY <1>6, CallAppends
  <2>2. inside' \in [Rank -> BOOLEAN] /\ \A q \in Rank : q # r => inside'[q] = inside[q]
    BY <1>1, <1>6 DEF Call
  <2>3. UNCHANGED <<missing, header_ok, eager, stage>> /\ stage[r] \in Ops
    BY <1>6 DEF Call
  <2> QED
    BY <1>1, <2>1, <2>2, <2>3
<1>7. ASSUME NEW r \in Rank, Return(r) PROVE Typed' /\ \A q \in Rank : Calling(q)'
  <2>1. After(r) \in Stages
    BY DEF After, AfterSpan, Finish, Stages, Ops
  <2>2. stage' = [stage EXCEPT ![r] = After(r)] /\ inside' = [inside EXCEPT ![r] = FALSE]
    BY <1>7 DEF Return
  <2>3. UNCHANGED <<missing, header_ok, eager, calls>>
    BY <1>7 DEF Return
  <2> HIDE DEF Calling
  <2>4. stage' \in [Rank -> Stages] /\ inside' \in [Rank -> BOOLEAN] /\ ~inside'[r]
        /\ \A q \in Rank : q # r => inside'[q] = inside[q] /\ stage'[q] = stage[q]
    BY <1>1, <2>1, <2>2
  <2> QED
    BY <1>1, <2>3, <2>4 DEF Calling
<1>8. ASSUME NEW r \in Rank, ReadRange(r) PROVE Typed' /\ \A q \in Rank : Calling(q)'
  <2>1. stage' \in [Rank -> Stages]
    BY <1>1, <1>8 DEF ReadRange, Stages, Ops
  <2>2. UNCHANGED <<missing, header_ok, eager, calls, inside>>
    BY <1>8 DEF ReadRange
  <2>3. ~inside[r] /\ \A q \in Rank : q # r => stage'[q] = stage[q]
    BY <1>1, <1>8 DEF ReadRange, Ops
  <2> QED
    BY <1>1, <2>1, <2>2, <2>3
<1> QED
  BY <1>2, <1>3, <1>4, <1>5, <1>6, <1>7, <1>8 DEF Next, Main

\* The header that a broadcast gives is rank 0's.
LEMMA BcastGiven ==
  ASSUME MpiOK, Stopped, NEW r \in Rank, stage[r] = "bcast", inside[r], Returns(r)
  PROVE  Given("bcast")[0] = header_ok
<1> DEFINE n == Len(calls[r])
           j == Index("bcast")
<1>1. 0 \in Needed(r, "bcast")
  BY RootIsRank DEF Needed
<1>2. Len(calls[0]) >= n /\ calls[0][n].op = "bcast"
  BY <1>1 DEF Returns
<1>3. n \in Nat /\ n >= 1 /\ Len(calls[0]) \in Nat /\ DOMAIN calls[0] = 1..Len(calls[0])
  BY CallsFacts, RootIsRank
<1>4. n \in DOMAIN calls[0]
  BY <1>2, <1>3
<1>5. j \in DOMAIN calls[0] /\ calls[0][j].op = "bcast"
  BY <1>2, <1>4 DEF Index
<1>6. Given("bcast")[0] = calls[0][j].data
  BY RootIsRank DEF Given
<1> HIDE DEF j
<1> QED
  BY <1>5, <1>6, RootIsRank DEF Stopped

LEMMA StoppedStep ==
  ASSUME MpiOK, Stopped, [Next]_vars
  PROVE  Stopped'
<1> DEFINE Says(q) == \A k \in DOMAIN calls[q] :
                        /\ calls[q][k].op = "bcast" => calls[q][k].data = header_ok
                        /\ q \in missing => calls[q][k].op = "finalize"
           Stands(q) == /\ q \in missing => stage[q] \in {"open", "finalize", "gone"}
                        /\ missing # {} => stage[q] \in {"open", "bcast", "split", "scalars",
                                                         "span", "finalize", "gone"}
                        /\ ~header_ok => stage[q] \in {"open", "bcast", "finalize", "gone"}
           Written == report # <<>> => missing = {} /\ header_ok
<1>1. (\A q \in Rank : Says(q) /\ Stands(q)) /\ Written
  BY DEF Stopped
<1>2. stage \in [Rank -> Stages] /\ DOMAIN calls = Rank /\ header_ok \in BOOLEAN
      /\ missing \in SUBSET Rank
  BY DEF MpiOK
<1> SUFFICES (\A q \in Rank : Says(q)' /\ Stands(q)') /\ Written'
  BY DEF Stopped
<1>3. CASE UNCHANGED vars
  BY <1>1, <1>3 DEF vars, mpi
<1>4. CASE Write
  <2>1. missing = {} /\ header_ok
    BY <1>1, <1>4, RootIsRank DEF Write
  <2>2. UNCHANGED <<missing, header_ok, calls>>
    BY <1>4 DEF Write
  <2> QED
    BY <1>1, <2>1, <2>2
<1>5. CASE Abort
  <2>1. UNCHANGED <<missing, header_ok, calls, report>> /\ \A q \in Rank : stage'[q] = "gone"
    BY <1>5 DEF Abort
  <2> QED
    BY <1>1, <2>1
<1>6. ASSUME NEW r \in Rank, Open(r) PROVE (\A q \in Rank : Says(q)' /\ Stands(q)') /\ Written'
  <2>1. UNCHANGED <<missing, header_ok, calls, report>>
    BY <1>6 DEF Open
  <2>2. /\ stage'[r] = IF r \in missing THEN "finalize" ELSE "bcast"
        /\ \A q \in Rank : q # r => stage'[q] = stage[q]
    BY <1>2, <1>6 DEF Open
  <2> QED
    BY <1>1, <2>1, <2>2
<1>7. ASSUME NEW r \in Rank, Call(r) PROVE (\A q \in Rank : Says(q)' /\ Stands(q)') /\ Written'
  <2>1. UNCHANGED <<missing, header_ok, stage, report>> /\ stage[r] \in Ops
    BY <1>7 DEF Call
  <2> DEFINE n == Len(calls[r])
             op == stage[r]
             d == Contribution(r, op)
  <2>2. /\ n \in Nat /\ DOMAIN calls[r] = 1..n /\ DOMAIN calls'[r] = 1..(n + 1)
        /\ \A k \in 1..n : calls'[r][k] = calls[r][k]
        /\ calls'[r][n + 1] = [op |-> op, data |-> d]
        /\ \A q \in Rank : q # r => calls'[q] = calls[q]
    BY <1>7, CallAppends
  <2>3. op = "bcast" => d = header_ok
    BY DEF Contribution, Share
  <2>4. r \in missing => op = "finalize"
    BY <1>1, <2>1 DEF Ops
  <2> HIDE DEF op, d, n
  <2>5. Says(r)'
    <3> SUFFICES ASSUME NEW k \in 1..(n + 1)
                 PROVE  /\ calls'[r][k].op = "bcast" => calls'[r][k].data = header_ok
                        /\ r \in missing => calls'[r][k].op = "finalize"
      BY <2>1, <2>2
    <3>1. CASE k = n + 1
      BY <2>2, <2>3, <2>4, <3>1
    <3>2. CASE k \in 1..n
      BY <1>1, <2>2, <3>2
    <3> QED
      BY <2>2, <3>1, <3>2
  <2> QED
    BY <1>1, <2>1, <2>2, <2>5
<1>8. ASSUME NEW r \in Rank, Return(r) PROVE (\A q \in Rank : Says(q)' /\ Stands(q)') /\ Written'
  <2>1. UNCHANGED <<missing, header_ok, calls, report>> /\ inside[r] /\ Returns(r)
    BY <1>8 DEF Return
  <2>2. stage'[r] = After(r) /\ \A q \in Rank : q # r => stage'[q] = stage[q]
    BY <1>2, <1>8 DEF Return
  <2>3. CASE stage[r] = "bcast"
    <3>1. After(r) = IF header_ok THEN "split" ELSE "finalize"
      BY <2>1, <2>3, BcastGiven DEF After
    <3>2. r \notin missing
      BY <1>1, <2>3
    <3> QED
      BY <1>1, <2>1, <2>2, <3>1, <3>2
  <2>4. CASE stage[r] = "scalars"
    BY <1>1, <2>1, <2>2, <2>4 DEF After
  <2>5. CASE stage[r] = "span"
    <3>1. ASSUME NEW q \in missing PROVE FALSE
      <4>1. q \in Needed(r, "span")
        BY <1>2 DEF Needed
      <4>2. Len(calls[q]) >= Len(calls[r]) /\ calls[q][Len(calls[r])].op = "span"
        BY <2>1, <2>5, <4>1 DEF Returns
      <4>3. Len(calls[r]) \in DOMAIN calls[q]
        BY <1>2, <2>1, <4>2, CallsFacts
      <4> QED
        BY <1>1, <1>2, <4>2, <4>3
    <3> QED
      BY <1>1, <2>1, <2>2, <2>5, <3>1
  <2>6. CASE stage[r] = "finalize"
    BY <1>1, <2>1, <2>2, <2>6 DEF After
  <2>7. CASE stage[r] \notin {"bcast", "scalars", "span", "finalize"}
    <3>1. stage[r] \in Ops
      BY <2>1 DEF MpiOK
    <3>2. missing = {} /\ header_ok
      BY <1>1, <2>7, <3>1 DEF Ops
    <3> QED
      BY <1>1, <2>1, <2>2, <3>2
  <2> QED
    BY <2>3, <2>4, <2>5, <2>6, <2>7
<1>9. ASSUME NEW r \in Rank, ReadRange(r) PROVE (\A q \in Rank : Says(q)' /\ Stands(q)') /\ Written'
  <2>1. UNCHANGED <<missing, header_ok, calls, report>>
    BY <1>9 DEF ReadRange
  <2>2. /\ stage[r] = "split" /\ stage'[r] \in {"split", "scalars"}
        /\ \A q \in Rank : q # r => stage'[q] = stage[q]
    BY <1>2, <1>9 DEF ReadRange
  <2> QED
    BY <1>1, <2>1, <2>2
<1> QED
  BY <1>3, <1>4, <1>5, <1>6, <1>7, <1>8, <1>9 DEF Next, Main

-----------------------------------------------------------------------------
(***************************************************************************)
(* All have the file and its header: the calls are the same for all.       *)
(***************************************************************************)

Paths == \A r \in Rank : Placed(r) /\ Called(r) /\ Waited(r)

\* All have made k calls.
AllAt(k) == \A s \in Rank : Len(calls[s]) >= k

LEMMA PathFacts ==
  ASSUME MpiOK, Paths, NEW r \in Rank
  PROVE  LET n == Len(calls[r]) IN
         /\ n \in Nat /\ DOMAIN calls[r] = 1..n /\ n <= Len(Route)
         /\ inside[r] => n >= 1 /\ stage[r] = Route[n] /\ stage[r] \in Ops
         /\ Over(r) \in Nat /\ Over(r) = IF inside[r] THEN n - 1 ELSE n
         /\ \A k \in 1..n : calls[r][k] = [op |-> Route[k], data |-> Full(r, Route[k])]
         /\ n >= 2 \/ stage[r] \in {"scalars", "gone"} => at[r] = "split"
         /\ \A k \in 2..Over(r) :
              Route[k] \in {"span", "bounds"} \/ (r = 0 /\ k < Len(Route)) => AllAt(k)
<1>1. /\ Len(calls[r]) \in Nat /\ DOMAIN calls[r] = 1..Len(calls[r])
      /\ inside[r] => Len(calls[r]) >= 1 /\ stage[r] \in Ops
  BY CallsFacts DEF MpiOK
<1>2. Placed(r) /\ Called(r) /\ Waited(r)
  BY DEF Paths
<1>3. inside[r] => stage[r] = Route[Len(calls[r])]
  BY <1>2 DEF Placed
<1>4. Over(r) \in Nat /\ Over(r) = IF inside[r] THEN Len(calls[r]) - 1 ELSE Len(calls[r])
  BY <1>1 DEF Over
<1>5. /\ Len(calls[r]) <= Len(Route)
      /\ \A k \in 1..Len(calls[r]) : calls[r][k] = [op |-> Route[k], data |-> Full(r, Route[k])]
      /\ Len(calls[r]) >= 2 \/ stage[r] \in {"scalars", "gone"} => at[r] = "split"
  BY <1>1, <1>2 DEF Called
<1>6. \A k \in 2..Over(r) :
        Route[k] \in {"span", "bounds"} \/ (r = 0 /\ k < Len(Route)) => AllAt(k)
  BY <1>2 DEF Waited, AllAt
<1> QED
  BY <1>1, <1>3, <1>4, <1>5, <1>6

LEMMA TheRoute == RouteFacts(Route, Wide, Lowest, Highest)
BY RouteIs DEF Route

\* What all have brought to a call.
LEMMA GivenIs ==
  ASSUME MpiOK, Paths, NEW k \in 1..Len(Route), AllAt(k)
  PROVE  \A s \in Rank : Given(Route[k])[s] = Full(s, Route[k])
<1> DEFINE op == Route[k]
           j == Index(op)
<1>1. Len(Route) \in Nat /\ \A a, b \in 1..Len(Route) : Route[a] = Route[b] => a = b
  BY TheRoute DEF RouteFacts, RouteOfSize, MetAt
<1>2. ASSUME NEW s \in Rank
      PROVE  k \in DOMAIN calls[s] /\ calls[s][k] = [op |-> op, data |-> Full(s, op)]
  BY <1>1, PathFacts DEF AllAt
<1> HIDE DEF op
<1>3. 0 \in Rank /\ k \in DOMAIN calls[0] /\ calls[0][k].op = op
  <2>1. 0 \in Rank
    BY RootIsRank
  <2>2. k \in DOMAIN calls[0] /\ calls[0][k] = [op |-> op, data |-> Full(0, op)]
    BY <1>2, <2>1
  <2> QED
    BY <2>1, <2>2
<1>4. j \in DOMAIN calls[0] /\ calls[0][j].op = op
  BY <1>3 DEF Index
<1>5. j \in 1..Len(Route) /\ Route[j] = op
  <2>1. /\ Len(calls[0]) \in Nat /\ DOMAIN calls[0] = 1..Len(calls[0])
        /\ Len(calls[0]) <= Len(Route)
        /\ \A m \in 1..Len(calls[0]) : calls[0][m] = [op |-> Route[m], data |-> Full(0, Route[m])]
    BY PathFacts, RootIsRank
  <2> HIDE DEF j
  <2>2. j \in 1..Len(calls[0]) /\ calls[0][j] = [op |-> Route[j], data |-> Full(0, Route[j])]
    BY <1>4, <2>1
  <2>3. calls[0][j].op = Route[j]
    BY <2>2
  <2> QED
    BY <1>1, <1>4, <2>1, <2>2, <2>3
<1>6. j = k
  BY <1>1, <1>5 DEF op
<1>7. \A s \in Rank : Given(op)[s] = calls[s][j].data
  BY DEF Given
<1> HIDE DEF j
<1>8. ASSUME NEW s \in Rank PROVE calls[s][k].data = Full(s, op)
  <2>1. calls[s][k] = [op |-> op, data |-> Full(s, op)]
    BY <1>2
  <2> QED
    BY <2>1
<1>9. \A s \in Rank : Given(op)[s] = Full(s, op)
  BY <1>6, <1>7, <1>8
<1> QED
  BY <1>9 DEF op

LEMMA SpanIs ==
  ASSUME MpiOK, Paths, AllAt(3)
  PROVE  Span = Wide
<1>1. 3 \in 1..Len(Route) /\ Route[3] = "span"
  BY TheRoute DEF RouteFacts, RouteOfSize, MetAt
<1>2. \A s \in Rank : Given("span")[s] = Full(s, "span")
  BY <1>1, GivenIs
<1>3. \A s \in Rank : Full(s, "span") = Mine(s, "span")
  BY FullEarly DEF Mine
<1>4. {Given("span")[s] : s \in Rank} = {Mine(s, "span") : s \in Rank}
  BY <1>2, <1>3
<1> QED
  BY <1>4 DEF Span, Wide

LEMMA BoundsAre ==
  ASSUME MpiOK, Paths, NEW k \in 1..Len(Route), Route[k] = "bounds", AllAt(k)
  PROVE  Glo = Lowest /\ Ghi = Highest
<1>1. \A s \in Rank : Given("bounds")[s] = Full(s, "bounds")
  BY GivenIs
<1>2. \A s \in Rank : Full(s, "bounds") = Mine(s, "bounds")
  BY FullEarly DEF Mine
<1>3. /\ {Given("bounds")[s][1] : s \in Rank} = {Mine(s, "bounds")[1] : s \in Rank}
      /\ {Given("bounds")[s][2] : s \in Rank} = {Mine(s, "bounds")[2] : s \in Rank}
  BY <1>1, <1>2
<1> QED
  BY <1>3 DEF Glo, Ghi, Lowest, Highest

\* Where all have made k calls, they have made those before it.
LEMMA AllBefore ==
  ASSUME MpiOK, NEW k \in Nat, AllAt(k), NEW j \in Nat, j <= k
  PROVE  AllAt(j)
BY CallsFacts DEF AllAt

\* Nobody is past the third call before all have come to it with their ranges read.
LEMMA Past ==
  ASSUME MpiOK, Paths, NEW r \in Rank, Over(r) >= 3
  PROVE  AllAt(3) /\ \A s \in Rank : at[s] = "split"
<1>1. Route[3] = "span"
  BY TheRoute DEF RouteFacts, RouteOfSize, MetAt
<1>2. Over(r) \in Nat
  BY PathFacts
<1>3. 3 \in 2..Over(r)
  BY <1>2
<1>4. AllAt(3)
  BY <1>1, <1>3, PathFacts
<1>5. \A s \in Rank : at[s] = "split"
  BY <1>4, PathFacts DEF AllAt
<1> QED
  BY <1>4, <1>5

\* The root writes when all have made every call but the last.
LEMMA WriteIsLast ==
  ASSUME MpiOK, Paths, stage[0] = "write"
  PROVE  /\ ~inside[0] /\ Len(calls[0]) = Len(Route) - 1
         /\ AllAt(Len(Route) - 1) /\ \A s \in Rank : at[s] = "split"
<1>1. 0 \in Rank
  BY RootIsRank
<1>2. Len(Route) \in 5..7 /\ \A k \in 1..Len(Route) : Route[k] \in Ops
  BY TheRoute DEF RouteFacts, RouteOfSize, MetAt
<1>3. ~inside[0]
  BY <1>1, PathFacts DEF Ops
<1>4. Len(calls[0]) \in Nat /\ Over(0) = Len(calls[0])
  BY <1>1, <1>3, PathFacts
<1>5. Len(calls[0]) = Len(Route) - 1
  <2>1. Placed(0)
    BY <1>1 DEF Paths
  <2>2. Len(calls[0]) < Len(Route) => Route[Len(calls[0]) + 1] # "write"
    BY <1>2, <1>4 DEF Ops
  <2> QED
    BY <1>3, <2>1, <2>2 DEF Placed
<1>6. Len(Route) - 1 \in 2..Over(0) /\ Len(Route) - 1 < Len(Route) /\ Over(0) >= 3
  <2> DEFINE n == Len(Route)
  <2>1. n \in 5..7 /\ Over(0) = n - 1
    BY <1>2, <1>4, <1>5
  <2> HIDE DEF n
  <2>2. n - 1 \in 2..Over(0) /\ n - 1 < n /\ Over(0) >= 3
    BY <2>1
  <2> QED
    BY <2>2 DEF n
<1>7. AllAt(Len(Route) - 1)
  BY <1>1, <1>6, PathFacts
<1>8. \A s \in Rank : at[s] = "split"
  BY <1>1, <1>6, Past
<1> QED
  BY <1>3, <1>5, <1>7, <1>8

\* The report that is written is the one of the file.
LEMMA ReportIs ==
  ASSUME SplitInv, MpiOK, Paths, stage[0] = "write", ~torn
  PROVE  Report = Expected
<1> DEFINE n == Len(Route)
<1>1. n \in 5..7 /\ AllAt(n - 1) /\ \A s \in Rank : at[s] = "split"
  BY TheRoute, WriteIsLast DEF RouteFacts, RouteOfSize, MetAt
<1>2. AllRead
  BY <1>1 DEF AllRead
<1>3. \A k \in 1..(n - 1) : AllAt(k)
  BY <1>1, AllBefore
<1>4. ASSUME NEW k \in 1..(n - 1)
      PROVE  \A s \in Rank : Given(Route[k])[s] = Full(s, Route[k])
  <2>1. k \in 1..Len(Route) /\ AllAt(k)
    BY <1>1, <1>3
  <2> QED
    BY <2>1, GivenIs
<1>5. Span = Wide
  <2>1. \A m \in 5..7 : 3 \in 1..(m - 1)
    OBVIOUS
  <2>2. AllAt(3)
    BY <1>1, <1>3, <2>1
  <2> QED
    BY <2>2, SpanIs
<1>6. PICK b \in 1..n : Route[b] = "bounds"
  BY TheRoute DEF RouteFacts, RouteOfSize, MetAt
<1>7. b < n /\ Route[b + 1] = IF Highest < Lowest THEN "finalize"
                              ELSE IF Highest - Lowest + 1 <= DenseLimit THEN "dense" ELSE "sparse"
  BY <1>6, TheRoute DEF RouteFacts, RouteOfSize, MetAt
<1>8. Glo = Lowest /\ Ghi = Highest
  BY <1>1, <1>3, <1>6, <1>7, BoundsAre
<1>9. Route[n] = "finalize" /\ Route[2] = "scalars" /\ (Wide > 0 => Route[4] = "stations")
  BY TheRoute DEF RouteFacts, RouteOfSize, MetAt
<1>10. \A s \in Rank : Given("scalars")[s] = Full(s, "scalars")
  BY <1>1, <1>4, <1>9
<1>11. Wide > 0 => \A s \in Rank : Given("stations")[s] = Full(s, "stations")
  BY <1>1, <1>4, <1>9
<1>12. ~(Highest < Lowest) /\ Highest - Lowest + 1 <= DenseLimit =>
         \A s \in Rank : Given("dense")[s] = Full(s, "dense")
  BY <1>1, <1>4, <1>6, <1>7, <1>9
<1>13. ~(Highest < Lowest) /\ ~(Highest - Lowest + 1 <= DenseLimit) =>
         \A s \in Rank : Given("sparse")[s] = Full(s, "sparse")
  BY <1>1, <1>4, <1>6, <1>7, <1>9
<1>14. SumFunction([s \in Rank |-> Given("scalars")[s].count])
         = SumFunction([s \in Rank |-> Full(s, "scalars").count])
  BY <1>10
<1>15. Hottest([k \in 1..P |-> Given("scalars")[k - 1].hottest])
         = Hottest([k \in 1..P |-> Full(k - 1, "scalars").hottest])
  <2>1. \A k \in 1..P : k - 1 \in Rank
    BY SplitAssumption DEF Rank
  <2> QED
    BY <1>10, <2>1
<1>16. (IF Span > 0 THEN Rows([x \in 0..(Span - 1) |-> Sum(Given("stations"), x)]) ELSE {})
         = IF Wide > 0
           THEN Rows([x \in 0..(Wide - 1) |-> SumFunction([s \in Rank |-> Full(s, "stations")[x]])])
           ELSE {}
  <2>1. CASE Wide > 0
    <3>1. \A x : Sum(Given("stations"), x) = SumFunction([s \in Rank |-> Full(s, "stations")[x]])
      BY <1>11, <2>1 DEF Sum
    <3> QED
      BY <1>5, <3>1
  <2> QED
    BY <1>5, <2>1
<1>17. Intervals = AllIntervals
  <2>1. CASE Highest < Lowest
    BY <1>8, <2>1 DEF Intervals, AllIntervals
  <2>2. CASE ~(Highest < Lowest) /\ Highest - Lowest + 1 <= DenseLimit
    <3>1. \A x : Sum(Given("dense"), x) = SumFunction([s \in Rank |-> Full(s, "dense")[x]])
      BY <1>12, <2>2 DEF Sum
    <3> QED
      BY <1>8, <2>2, <3>1 DEF Intervals, AllIntervals
  <2>3. CASE ~(Highest < Lowest) /\ ~(Highest - Lowest + 1 <= DenseLimit)
    <3> DEFINE f == Given("sparse")
    <3>1. \A s \in Rank : f[s] = Full(s, "sparse")
      BY <1>13, <2>3
    <3>2. Intervals = [x \in UNION {DOMAIN f[s] : s \in Rank} |->
                         SumFunction([s \in {q \in Rank : x \in DOMAIN f[q]} |-> f[s][x]])]
      BY <1>8, <2>3 DEF Intervals
    <3> HIDE DEF f
    <3>3. UNION {DOMAIN f[s] : s \in Rank} = UNION {DOMAIN Full(s, "sparse") : s \in Rank}
      BY <3>1
    <3>4. \A x : [s \in {q \in Rank : x \in DOMAIN f[q]} |-> f[s][x]]
                   = [s \in {q \in Rank : x \in DOMAIN Full(q, "sparse")} |-> Full(s, "sparse")[x]]
      <4> SUFFICES ASSUME NEW x
                   PROVE  [s \in {q \in Rank : x \in DOMAIN f[q]} |-> f[s][x]]
                            = [s \in {q \in Rank : x \in DOMAIN Full(q, "sparse")} |->
                                 Full(s, "sparse")[x]]
        OBVIOUS
      <4>1. {q \in Rank : x \in DOMAIN f[q]} = {q \in Rank : x \in DOMAIN Full(q, "sparse")}
        BY <3>1
      <4> QED
        BY <3>1, <4>1
    <3>5. AllIntervals = [x \in UNION {DOMAIN Full(s, "sparse") : s \in Rank} |->
                            SumFunction([s \in {q \in Rank : x \in DOMAIN Full(q, "sparse")} |->
                                           Full(s, "sparse")[x]])]
      BY <2>3 DEF AllIntervals
    <3> QED
      BY <3>2, <3>3, <3>4, <3>5
  <2> QED
    BY <2>1, <2>2, <2>3
<1> QED
  BY <1>2, <1>14, <1>15, <1>16, <1>17, Assembled DEF Report

-----------------------------------------------------------------------------
(***************************************************************************)
(* The steps keep the ranks on the route.                                  *)
(***************************************************************************)

\* A rank that does nothing stays where it is, whatever the others call.
LEMMA AsideOnPath ==
  ASSUME MpiOK, Paths, acc' = acc, at' = at, header_ok' = header_ok, NEW q \in Rank,
         calls'[q] = calls[q], inside'[q] = inside[q], stage'[q] = stage[q],
         \A s \in Rank : Len(calls'[s]) \in Nat /\ Len(calls'[s]) >= Len(calls[s])
  PROVE  Placed(q)' /\ Called(q)' /\ Waited(q)'
<1>1. Placed(q) /\ Called(q) /\ Waited(q)
  BY DEF Paths
<1>2. Route' = Route /\ \A r, op : Full(r, op)' = Full(r, op)
  BY FoldFrame
<1>3. Placed(q)'
  BY <1>1, <1>2 DEF Placed
<1>4. Called(q)'
  BY <1>1, <1>2 DEF Called
<1>5. Waited(q)'
  <2>1. Over(q)' = Over(q)
    BY DEF Over
  <2>2. Over(q) \in Nat /\ \A s \in Rank : Len(calls[s]) \in Nat
    BY PathFacts
  <2> SUFFICES ASSUME NEW k \in 2..Over(q),
                      Route[k] \in {"span", "bounds"} \/ (q = 0 /\ k < Len(Route)),
                      NEW s \in Rank
               PROVE  Len(calls'[s]) >= k
    BY <1>2, <2>1 DEF Waited
  <2>3. Len(calls[s]) >= k
    BY <1>1 DEF Waited
  <2>4. k \in Int /\ Len(calls[s]) \in Nat /\ Len(calls'[s]) \in Nat
        /\ Len(calls'[s]) >= Len(calls[s])
    BY <2>2
  <2> QED
    BY <2>3, <2>4
<1> QED
  BY <1>3, <1>4, <1>5

\* A rank that changes its stage, and no call.
LEMMA NewStage ==
  ASSUME MpiOK, Paths, acc' = acc, at' = at, header_ok' = header_ok, calls' = calls,
         NEW r \in Rank, ~inside[r], inside'[r] = inside[r], Placed(r)',
         stage'[r] \in {"scalars", "gone"} => at[r] = "split"
  PROVE  Called(r)' /\ Waited(r)'
<1>1. Called(r) /\ Waited(r)
  BY DEF Paths
<1>2. Route' = Route /\ \A q, op : Full(q, op)' = Full(q, op)
  BY FoldFrame
<1>3. Called(r)'
  BY <1>1, <1>2 DEF Called
<1>4. Over(r)' = Over(r)
  BY DEF Over
<1>5. Waited(r)'
  BY <1>1, <1>2, <1>4 DEF Waited
<1> QED
  BY <1>3, <1>5

LEMMA OpenOnPath ==
  ASSUME MpiOK, Paths, missing = {}, NEW r \in Rank, Open(r)
  PROVE  Paths'
<1>1. /\ acc' = acc /\ at' = at /\ header_ok' = header_ok /\ calls' = calls /\ inside' = inside
      /\ stage[r] = "open" /\ stage' = [stage EXCEPT ![r] = "bcast"]
  BY DEF Open, split
<1>2. stage'[r] = "bcast" /\ \A q \in Rank : q # r => stage'[q] = stage[q]
  BY <1>1 DEF MpiOK
<1>3. \A s \in Rank : Len(calls[s]) \in Nat /\ Len(calls[s]) >= Len(calls[s])
  BY PathFacts
<1>4. ASSUME NEW q \in Rank, q # r PROVE Placed(q)' /\ Called(q)' /\ Waited(q)'
  BY <1>1, <1>2, <1>3, <1>4, AsideOnPath
<1>5. Len(Route) \in 5..7 /\ (\A k \in 1..Len(Route) : Route[k] \in Ops) /\ Route[1] = "bcast"
  BY TheRoute DEF RouteFacts, RouteOfSize, MetAt
<1>6. ~inside[r] /\ Len(calls[r]) = 0
  <2>1. ~inside[r]
    BY <1>1, PathFacts DEF Ops
  <2>2. Len(calls[r]) < Len(Route) => Route[Len(calls[r]) + 1] # "open"
    BY <1>3, <1>5 DEF Ops
  <2>3. Placed(r)
    BY DEF Paths
  <2> QED
    BY <1>1, <2>1, <2>2, <2>3 DEF Placed
<1>7. Placed(r)'
  <2>1. Route' = Route /\ 0 < Len(Route) /\ Route[0 + 1] = "bcast"
    BY <1>1, <1>5, FoldFrame
  <2> QED
    BY <1>1, <1>2, <1>6, <2>1 DEF Placed
<1>8. Called(r)' /\ Waited(r)'
  BY <1>1, <1>2, <1>6, <1>7, NewStage
<1> QED
  BY <1>4, <1>7, <1>8 DEF Paths

\* What a rank brings to its next call is what the calls are to agree on.
LEMMA CallBrings ==
  ASSUME MpiOK, Paths, NEW r \in Rank, Call(r)
  PROVE  LET n == Len(calls[r]) IN
         /\ n \in Nat /\ n < Len(Route) /\ stage[r] = Route[n + 1]
         /\ Contribution(r, stage[r]) = Full(r, stage[r])
         /\ n >= 1 => at[r] = "split"
<1> DEFINE n == Len(calls[r])
           op == stage[r]
<1>1. op \in Ops /\ ~inside[r]
  BY DEF Call
<1>2. n \in Nat /\ Over(r) = n
  BY <1>1, PathFacts
<1>3. n < Len(Route) /\ op = Route[n + 1]
  <2>1. Placed(r)
    BY DEF Paths
  <2> QED
    BY <1>1, <2>1 DEF Placed, Ops
<1>4. RouteFacts(Route, Wide, Lowest, Highest)
  BY TheRoute
<1>5. n >= 1 => at[r] = "split"
  <2>1. n = 1 => stage[r] = "scalars"
    BY <1>3, <1>4 DEF RouteFacts, RouteOfSize, MetAt
  <2>2. (n >= 2 => at[r] = "split") /\ (stage[r] = "scalars" => at[r] = "split")
    BY PathFacts
  <2>3. n \in Nat
    BY <1>2
  <2> HIDE DEF n
  <2> QED
    BY <2>1, <2>2, <2>3
<1>6. n + 1 \in 1..Len(Route) /\ Len(Route) \in Nat
  BY <1>2, <1>3, <1>4 DEF RouteFacts, RouteOfSize, MetAt
<1>7. Contribution(r, op) = Full(r, op)
  <2>1. CASE op \in {"bcast", "scalars", "span", "bounds", "sparse", "finalize"}
    BY <2>1, FullEarly DEF Contribution
  <2>2. CASE op = "stations"
    <3>1. n + 1 = 4
      BY <1>3, <1>4, <1>6, <2>2 DEF RouteFacts, RouteOfSize, MetAt
    <3>2. Over(r) >= 3
      BY <1>2, <3>1
    <3>3. Span = Wide
      BY <3>2, Past, SpanIs
    <3> QED
      BY <2>2, <3>3 DEF Contribution, Full, Share
  <2>3. CASE op = "dense"
    <3>1. n + 1 >= 5 /\ Route[(n + 1) - 1] = "bounds"
      BY <1>3, <1>4, <1>6, <2>3 DEF RouteFacts, RouteOfSize, MetAt
    <3>2. n \in 2..Over(r) /\ Route[n] = "bounds" /\ n \in 1..Len(Route)
      BY <1>2, <1>3, <1>6, <3>1
    <3>3. AllAt(n)
      BY <3>2, PathFacts
    <3>4. Glo = Lowest /\ Ghi = Highest
      BY <3>2, <3>3, BoundsAre
    <3> QED
      BY <2>3, <3>4 DEF Contribution, Full, Share
  <2> QED
    BY <1>1, <2>1, <2>2, <2>3 DEF Ops
<1> QED
  BY <1>2, <1>3, <1>5, <1>7

LEMMA CallOnPath ==
  ASSUME MpiOK, Paths, NEW r \in Rank, Call(r)
  PROVE  Paths'
<1> DEFINE n == Len(calls[r])
           op == stage[r]
<1>1. /\ acc' = acc /\ at' = at /\ header_ok' = header_ok /\ stage' = stage
      /\ inside' = [inside EXCEPT ![r] = TRUE] /\ ~inside[r] /\ op \in Ops
  BY DEF Call, split
<1>2. inside'[r] /\ \A q \in Rank : q # r => inside'[q] = inside[q]
  BY <1>1 DEF MpiOK
<1>3. /\ n \in Nat /\ Len(calls'[r]) = n + 1 /\ DOMAIN calls'[r] = 1..(n + 1)
      /\ \A k \in 1..n : calls'[r][k] = calls[r][k]
      /\ calls'[r][n + 1] = [op |-> op, data |-> Contribution(r, op)]
      /\ \A q \in Rank : q # r => calls'[q] = calls[q]
  BY CallAppends
<1>4. n < Len(Route) /\ op = Route[n + 1] /\ Contribution(r, op) = Full(r, op)
      /\ (n >= 1 => at[r] = "split")
  BY CallBrings
<1>5. Route' = Route /\ \A q, o : Full(q, o)' = Full(q, o)
  BY <1>1, FoldFrame
<1>6. \A s \in Rank : Len(calls[s]) \in Nat
  BY PathFacts
<1>7. \A s \in Rank : Len(calls'[s]) \in Nat /\ Len(calls'[s]) >= Len(calls[s])
  <2> HIDE DEF n
  <2> SUFFICES ASSUME NEW s \in Rank
               PROVE  Len(calls'[s]) \in Nat /\ Len(calls'[s]) >= Len(calls[s])
    OBVIOUS
  <2>1. CASE s = r
    BY <1>3, <2>1 DEF n
  <2>2. CASE s # r
    BY <1>3, <1>6, <2>2
  <2> QED
    BY <2>1, <2>2
<1>8. ASSUME NEW q \in Rank, q # r PROVE Placed(q)' /\ Called(q)' /\ Waited(q)'
  BY <1>1, <1>2, <1>3, <1>7, <1>8, AsideOnPath
<1>9. Len(Route) \in Nat
  BY TheRoute DEF RouteFacts, RouteOfSize, MetAt
<1>10. Placed(r)'
  <2>1. n + 1 >= 1
    BY <1>3
  <2> QED
    BY <1>1, <1>2, <1>3, <1>4, <1>5, <2>1 DEF Placed
<1>11. Called(r)'
  <2> HIDE DEF n, op
  <2>1. n + 1 <= Len(Route)
    BY <1>3, <1>4, <1>9
  <2>2. ASSUME NEW k \in 1..(n + 1)
        PROVE  calls'[r][k] = [op |-> Route[k], data |-> Full(r, Route[k])]
    <3>1. CASE k \in 1..n
      <4>1. calls[r][k] = [op |-> Route[k], data |-> Full(r, Route[k])]
        BY <3>1, PathFacts DEF n
      <4> QED
        BY <1>3, <3>1, <4>1
    <3>2. CASE k = n + 1
      BY <1>3, <1>4, <3>2
    <3> QED
      BY <1>3, <3>1, <3>2
  <2>3. n + 1 >= 2 \/ stage'[r] \in {"scalars", "gone"} => at'[r] = "split"
    <3>1. stage[r] \in {"scalars", "gone"} => at[r] = "split"
      BY PathFacts
    <3> QED
      BY <1>1, <1>3, <1>4, <3>1
  <2> QED
    BY <1>3, <1>5, <2>1, <2>2, <2>3 DEF Called
<1>12. Waited(r)'
  <2>1. Over(r)' = Over(r) /\ Over(r) = n
    BY <1>1, <1>2, <1>3 DEF Over
  <2> SUFFICES ASSUME NEW k \in 2..n,
                      Route[k] \in {"span", "bounds"} \/ (r = 0 /\ k < Len(Route)),
                      NEW s \in Rank
               PROVE  Len(calls'[s]) >= k
    BY <1>5, <2>1 DEF Waited
  <2>2. Len(calls[s]) >= k
    BY <2>1, PathFacts DEF AllAt
  <2>3. k \in Int /\ Len(calls[s]) \in Nat /\ Len(calls'[s]) \in Nat
        /\ Len(calls'[s]) >= Len(calls[s])
    BY <1>6, <1>7
  <2> QED
    BY <2>2, <2>3
<1> QED
  BY <1>8, <1>10, <1>11, <1>12 DEF Paths

\* Where a rank goes on is the next call of the route, or what is done before it.
LEMMA ReturnLeads ==
  ASSUME MpiOK, Stopped, Paths, header_ok, NEW r \in Rank, inside[r], Returns(r)
  PROVE  LET n == Len(calls[r]) IN
         \/ n = 1 /\ After(r) = "split"
         \/ n = Len(Route) /\ After(r) = "gone"
         \/ n >= 2 /\ n < Len(Route) /\ After(r) = Route[n + 1]
         \/ r = 0 /\ n = Len(Route) - 1 /\ After(r) = "write"
<1> DEFINE n == Len(calls[r])
           m == Len(Route)
<1>1. n \in Nat /\ n >= 1 /\ n <= m /\ stage[r] = Route[n] /\ stage[r] \in Ops
  BY PathFacts
<1>2. RouteFacts(Route, Wide, Lowest, Highest) /\ m \in 5..7
  BY TheRoute DEF RouteFacts, RouteOfSize, MetAt
<1>3. n \in 1..m
  BY <1>1, <1>2
<1>4. \A a, b \in 1..m : Route[a] = Route[b] => a = b
  BY <1>2 DEF RouteFacts, RouteOfSize, MetAt
<1>5. /\ 1 \in 1..m /\ 2 \in 1..m /\ 3 \in 1..m /\ 4 \in 1..m /\ m \in 1..m
      /\ Route[1] = "bcast" /\ Route[2] = "scalars" /\ Route[3] = "span" /\ Route[m] = "finalize"
      /\ Route[4] = IF Wide > 0 THEN "stations" ELSE "bounds"
  BY <1>2 DEF RouteFacts, RouteOfSize, MetAt
<1>6. stage[r] \in {"span", "bounds"} => AllAt(n)
  BY DEF Returns, Needed, AllAt
<1>7. ASSUME n = m - 1, Route[m] = "finalize", After(r) = Finish(r)
      PROVE  \/ n >= 2 /\ n < m /\ After(r) = Route[n + 1]
             \/ r = 0 /\ n = m - 1 /\ After(r) = "write"
  <2>1. n + 1 = m /\ n >= 2 /\ n < m
    <3>1. \A x \in 5..7 : (x - 1) + 1 = x /\ x - 1 >= 2 /\ x - 1 < x
      OBVIOUS
    <3> QED
      BY <1>2, <1>7, <3>1
  <2>2. After(r) = IF r = 0 THEN "write" ELSE Route[m]
    BY <1>7 DEF Finish
  <2> HIDE DEF n, m
  <2> QED
    BY <1>7, <2>1, <2>2
<1>8. CASE stage[r] = "bcast"
  <2>1. n = 1
    BY <1>1, <1>3, <1>4, <1>5, <1>8
  <2>2. After(r) = "split"
    BY <1>8, BcastGiven DEF After
  <2> QED
    BY <2>1, <2>2
<1>9. CASE stage[r] = "scalars"
  <2>1. n = 2
    BY <1>1, <1>3, <1>4, <1>5, <1>9
  <2> QED
    BY <1>2, <1>5, <1>9, <2>1 DEF After
<1>10. CASE stage[r] = "span"
  <2>1. n = 3
    BY <1>1, <1>3, <1>4, <1>5, <1>10
  <2>2. Span = Wide
    BY <1>6, <1>10, <2>1, SpanIs
  <2>3. After(r) = Route[4]
    BY <1>5, <1>10, <2>2 DEF After, AfterSpan
  <2> QED
    BY <1>2, <2>1, <2>3
<1>11. CASE stage[r] = "stations"
  <2>1. n = 4 /\ Route[5] = "bounds"
    BY <1>1, <1>2, <1>3, <1>11 DEF RouteFacts, RouteOfSize, MetAt
  <2> QED
    BY <1>2, <1>11, <2>1 DEF After
<1>12. CASE stage[r] = "bounds"
  <2>1. /\ n >= 4 /\ n < m
        /\ Route[n + 1] = IF Highest < Lowest THEN "finalize"
                          ELSE IF Highest - Lowest + 1 <= DenseLimit THEN "dense" ELSE "sparse"
    BY <1>1, <1>2, <1>3, <1>12 DEF RouteFacts, RouteOfSize, MetAt
  <2>2. Glo = Lowest /\ Ghi = Highest
    BY <1>1, <1>3, <1>6, <1>12, BoundsAre
  <2>3. CASE Highest < Lowest
    <3>1. n + 1 \in 1..m /\ Route[n + 1] = "finalize"
      BY <1>1, <1>2, <2>1, <2>3
    <3>2. n + 1 = m
      BY <1>4, <1>5, <3>1
    <3>3. n = m - 1
      BY <1>1, <1>2, <3>2
    <3>4. After(r) = Finish(r)
      BY <1>12, <2>2, <2>3 DEF After
    <3> QED
      BY <1>5, <1>7, <3>3, <3>4
  <2>4. CASE ~(Highest < Lowest)
    <3>1. After(r) = Route[n + 1]
      BY <1>12, <2>1, <2>2, <2>4 DEF After
    <3> QED
      BY <1>1, <2>1, <3>1
  <2> QED
    BY <2>3, <2>4
<1>13. CASE stage[r] \in {"dense", "sparse"}
  <2>1. n = m - 1
    BY <1>1, <1>2, <1>3, <1>13 DEF RouteFacts, RouteOfSize, MetAt
  <2>2. After(r) = Finish(r)
    BY <1>13 DEF After
  <2> QED
    BY <1>5, <1>7, <2>1, <2>2
<1>14. CASE stage[r] = "finalize"
  <2>1. n = m
    BY <1>1, <1>3, <1>4, <1>5, <1>14
  <2> QED
    BY <1>14, <2>1 DEF After
<1> QED
  BY <1>1, <1>8, <1>9, <1>10, <1>11, <1>12, <1>13, <1>14 DEF Ops

LEMMA ReturnOnPath ==
  ASSUME MpiOK, Stopped, Paths, header_ok, NEW r \in Rank, Return(r)
  PROVE  Paths'
<1> DEFINE n == Len(calls[r])
           m == Len(Route)
<1>1. /\ acc' = acc /\ at' = at /\ header_ok' = header_ok /\ calls' = calls
      /\ inside' = [inside EXCEPT ![r] = FALSE] /\ stage' = [stage EXCEPT ![r] = After(r)]
      /\ inside[r] /\ Returns(r)
  BY DEF Return, split
<1>2. /\ ~inside'[r] /\ stage'[r] = After(r)
      /\ \A q \in Rank : q # r => inside'[q] = inside[q] /\ stage'[q] = stage[q]
  BY <1>1 DEF MpiOK
<1>3. Route' = Route /\ \A q, o : Full(q, o)' = Full(q, o)
  BY <1>1, FoldFrame
<1>4. \A s \in Rank : Len(calls[s]) \in Nat /\ Len(calls[s]) >= Len(calls[s])
  BY PathFacts
<1>5. ASSUME NEW q \in Rank, q # r PROVE Placed(q)' /\ Called(q)' /\ Waited(q)'
  BY <1>1, <1>2, <1>4, <1>5, AsideOnPath
<1>6. /\ n \in Nat /\ n >= 1 /\ n <= m /\ stage[r] = Route[n] /\ stage[r] \in Ops
      /\ Over(r) = n - 1
  BY <1>1, PathFacts
<1>7. \/ n = 1 /\ After(r) = "split"
      \/ n = m /\ After(r) = "gone"
      \/ n >= 2 /\ n < m /\ After(r) = Route[n + 1]
      \/ r = 0 /\ n = m - 1 /\ After(r) = "write"
  BY <1>1, ReturnLeads
<1>8. RouteFacts(Route, Wide, Lowest, Highest) /\ m \in 5..7
  BY TheRoute DEF RouteFacts, RouteOfSize, MetAt
<1>9. Placed(r)'
  <2>1. Len(calls'[r]) = n /\ Len(Route') = m /\ Route' = Route
    BY <1>1, <1>3
  <2> HIDE DEF n, m
  <2> QED
    BY <1>2, <1>7, <2>1 DEF Placed
<1>10. Called(r)'
  <2>1. stage'[r] \in {"scalars", "gone"} => n >= 2
    <3>1. m \in 5..7
      BY <1>8
    <3> HIDE DEF n, m
    <3>2. n = m => n >= 2
      BY <3>1
    <3> QED
      BY <1>2, <1>7, <3>2
  <2>2. Called(r)
    BY DEF Paths
  <2>3. n >= 2 => at[r] = "split"
    BY PathFacts
  <2> QED
    BY <1>1, <1>3, <2>1, <2>2, <2>3 DEF Called
<1>11. Waited(r)'
  <2>1. Over(r)' = n
    BY <1>1, <1>2 DEF Over
  <2> HIDE DEF n, m
  <2> SUFFICES ASSUME NEW k \in 2..n,
                      Route[k] \in {"span", "bounds"} \/ (r = 0 /\ k < m)
               PROVE  AllAt(k)
    BY <1>1, <1>3, <2>1 DEF Waited, AllAt, m
  <2>2. CASE k = n
    <3>1. Needed(r, stage[r]) = Rank
      <4>1. CASE Route[k] \in {"span", "bounds"}
        BY <1>6, <2>2, <4>1 DEF Needed
      <4>2. CASE r = 0 /\ k < m
        <5>1. stage[r] # "bcast" /\ stage[r] # "finalize"
          <6>1. k \in 1..m /\ 1 \in 1..m /\ m \in 1..m /\ k # 1 /\ k # m
            BY <1>8, <4>2
          <6>2. /\ \A a, b \in 1..m : Route[a] = Route[b] => a = b
                /\ Route[1] = "bcast" /\ Route[m] = "finalize"
            BY <1>8 DEF RouteFacts, RouteOfSize, MetAt, m
          <6> QED
            BY <1>6, <2>2, <6>1, <6>2
        <5> QED
          BY <1>6, <4>2, <5>1 DEF Needed, Ops
      <4> QED
        BY <4>1, <4>2
    <3> QED
      BY <1>1, <2>2, <3>1 DEF Returns, AllAt, n
  <2>3. CASE k # n
    <3>1. k \in 2..Over(r)
      BY <1>6, <2>3
    <3> QED
      BY <3>1, PathFacts DEF m
  <2> QED
    BY <2>2, <2>3
<1> QED
  BY <1>5, <1>9, <1>10, <1>11 DEF Paths

\* The first calls are only about what the rank itself has folded.
LEMMA EarlySame ==
  ASSUME header_ok' = header_ok, NEW q, acc'[q] = acc[q],
         NEW op \in {"bcast", "scalars", "span"}
  PROVE  Full(q, op)' = Full(q, op)
<1>1. CASE op = "bcast"
  BY <1>1 DEF Full, Share
<1>2. CASE op = "scalars"
  BY <1>2 DEF Full, Share, Folded
<1>3. CASE op = "span"
  BY <1>3 DEF Full, Share, Folded
<1> QED
  BY <1>1, <1>2, <1>3

\* While a rank reads its range nobody is past the third call, and its own are
\* not about the range yet: whatever it folds, the calls made stay what they were.
LEMMA ReadingOnPath ==
  ASSUME SplitInv, MpiOK, Paths, NEW r \in Rank, Enter(r) \/ Splitting(r), stage[r] = "split",
         header_ok' = header_ok, calls' = calls, inside' = inside, stage' = stage
  PROVE  Paths'
<1>1. at[r] # "split"
  BY DEF Enter, Splitting, Step, Read, ReadFails, ReadAll, Line, Beyond, CarryOver, Rest
<1>2. \A q \in Rank : q # r => acc'[q] = acc[q] /\ at'[q] = at[q]
  BY OthersSame
<1>3. RouteFacts(Route, Wide, Lowest, Highest) /\ RouteFacts(Route', Wide', Lowest', Highest')
  <2>1. \A w, lo, hi : RouteFacts(RouteOf(w, lo, hi), w, lo, hi)
    BY RouteIs
  <2>2. Route' = RouteOf(Wide', Lowest', Highest')
    BY DEF Route
  <2> HIDE DEF Route
  <2> QED
    BY <2>1, <2>2 DEF Route
<1>4. /\ Len(Route) \in 5..7 /\ Len(Route') \in 5..7
      /\ Route[1] = "bcast" /\ Route[2] = "scalars" /\ Route[3] = "span"
      /\ \A k \in 1..3 : Route'[k] = Route[k] /\ Route[k] \in {"bcast", "scalars", "span"}
      /\ \A k \in 1..Len(Route) : Route[k] \in Ops
  BY <1>3 DEF RouteFacts, RouteOfSize, MetAt
<1>5. Len(calls[r]) = 1
  <2>1. Len(calls[r]) \in Nat /\ (inside[r] => stage[r] \in Ops)
    BY PathFacts
  <2>2. ~inside[r]
    BY <2>1 DEF Ops
  <2>3. ASSUME Len(calls[r]) < Len(Route) PROVE Route[Len(calls[r]) + 1] # "split"
    <3>1. Len(calls[r]) + 1 \in 1..Len(Route)
      BY <1>4, <2>1, <2>3
    <3>2. Route[Len(calls[r]) + 1] \in Ops
      BY <1>4, <3>1
    <3> QED
      BY <3>2 DEF Ops
  <2>4. Placed(r)
    BY DEF Paths
  <2> QED
    BY <2>2, <2>3, <2>4 DEF Placed
<1> SUFFICES ASSUME NEW q \in Rank PROVE Placed(q)' /\ Called(q)' /\ Waited(q)'
  BY DEF Paths
<1> DEFINE n == Len(calls[q])
<1>6. /\ n \in Nat /\ DOMAIN calls[q] = 1..n /\ (inside[q] => n >= 1 /\ stage[q] = Route[n])
      /\ Over(q) \in Nat /\ Over(q) = IF inside[q] THEN n - 1 ELSE n
      /\ \A k \in 1..n : calls[q][k] = [op |-> Route[k], data |-> Full(q, Route[k])]
      /\ (n >= 2 \/ stage[q] \in {"scalars", "gone"} => at[q] = "split")
  BY PathFacts
<1>7. Over(q) < 3
  BY <1>1, <1>6, Past
<1>8. n \in 0..3 /\ (inside[q] => n \in 1..3) /\ (~inside[q] => n \in 0..2)
  <2> HIDE DEF n
  <2>1. CASE inside[q]
    BY <1>6, <1>7, <2>1
  <2>2. CASE ~inside[q]
    BY <1>6, <1>7, <2>2
  <2> QED
    BY <2>1, <2>2
<1> HIDE DEF n
<1>9. Placed(q)'
  <2>1. Placed(q)
    BY DEF Paths
  <2>2. CASE inside[q]
    <3>1. n \in 1..3 /\ n >= 1
      BY <1>8, <2>2
    <3>2. stage[q] = Route'[n]
      BY <1>4, <1>6, <2>2, <3>1
    <3> QED
      BY <2>2, <3>1, <3>2 DEF Placed, n
  <2>3. CASE ~inside[q]
    <3>1. n + 1 \in 1..3 /\ n < Len(Route) /\ n < Len(Route') /\ n # Len(Route) - 1
      <4>1. n \in 0..2 /\ Len(Route) \in 5..7 /\ Len(Route') \in 5..7
        BY <1>4, <1>8, <2>3
      <4>2. \A a \in 0..2, b \in 5..7 : a + 1 \in 1..3 /\ a < b /\ a # b - 1
        OBVIOUS
      <4> QED
        BY <4>1, <4>2
    <3>2. Route'[n + 1] = Route[n + 1]
      BY <1>4, <3>1
    <3>3. \/ stage[q] = "gone"
          \/ stage[q] = Route'[n + 1]
          \/ n = 0 /\ stage[q] = "open"
          \/ n = 1 /\ stage[q] = "split"
      BY <2>1, <2>3, <3>1, <3>2 DEF Placed, n
    <3> QED
      BY <2>3, <3>1, <3>3 DEF Placed, n
  <2> QED
    BY <2>2, <2>3
<1>10. Called(q)'
  <2>1. n <= Len(Route')
    <3>1. Len(Route') \in 5..7
      BY <1>4
    <3>2. \A a \in 0..3, b \in 5..7 : a <= b
      OBVIOUS
    <3> QED
      BY <1>8, <3>1, <3>2
  <2>2. ASSUME NEW k \in 1..n
        PROVE  calls[q][k] = [op |-> Route'[k], data |-> Full(q, Route[k])']
    <3>1. k \in 1..3
      BY <1>6, <1>8
    <3>2. Route'[k] = Route[k] /\ Route[k] \in {"bcast", "scalars", "span"}
      BY <1>4, <3>1
    <3>3. Full(q, Route[k])' = Full(q, Route[k])
      <4>1. CASE q # r
        <5>1. acc'[q] = acc[q]
          BY <1>2, <4>1
        <5>2. \A op \in {"bcast", "scalars", "span"} : Full(q, op)' = Full(q, op)
          BY <5>1, EarlySame
        <5>3. PICK op \in {"bcast", "scalars", "span"} : op = Route[k]
          BY <3>2
        <5>4. Full(q, op)' = Full(q, op) /\ op = Route'[k]
          BY <3>2, <5>2, <5>3
        <5> QED
          BY <5>3, <5>4
      <4>2. CASE q = r
        <5>1. k = 1
          <6>1. n = 1
            BY <1>5, <4>2 DEF n
          <6> QED
            BY <6>1
        <5>2. Route[k] = "bcast" /\ Route'[k] = "bcast"
          BY <1>4, <3>2, <5>1
        <5> QED
          BY <5>2 DEF Full, Share
      <4> QED
        BY <4>1, <4>2
    <3> QED
      BY <1>6, <3>2, <3>3
  <2>3. n >= 2 \/ stage[q] \in {"scalars", "gone"} => at'[q] = "split"
    <3>1. q # r => at'[q] = at[q]
      BY <1>2
    <3>2. q = r => n = 1 /\ stage[q] = "split"
      BY <1>5 DEF n
    <3>3. n >= 2 \/ stage[q] \in {"scalars", "gone"} => at[q] = "split"
      BY <1>6
    <3> QED
      BY <3>1, <3>2, <3>3
  <2> QED
    BY <1>6, <2>1, <2>2, <2>3 DEF Called, n
<1>11. Waited(q)'
  <2>1. Over(q)' = Over(q)
    BY DEF Over
  <2> SUFFICES ASSUME NEW k \in 2..Over(q),
                      Route'[k] \in {"span", "bounds"} \/ (q = 0 /\ k < Len(Route'))
               PROVE  AllAt(k)
    BY <2>1 DEF Waited, AllAt
  <2>2. k = 2 /\ 2 \in 1..3 /\ 2 < Len(Route)
    BY <1>4, <1>6, <1>7
  <2>3. Route'[2] = "scalars"
    BY <1>4, <2>2
  <2>4. q = 0
    BY <2>2, <2>3
  <2> QED
    BY <2>2, <2>4, PathFacts
<1> QED
  BY <1>9, <1>10, <1>11

LEMMA RangeReadOnPath ==
  ASSUME MpiOK, Paths, UNCHANGED split, header_ok' = header_ok, calls' = calls, inside' = inside,
         NEW r \in Rank, stage[r] = "split", at[r] = "split",
         stage' = [stage EXCEPT ![r] = "scalars"]
  PROVE  Paths'
<1>1. acc' = acc /\ at' = at
  BY DEF split
<1>2. stage'[r] = "scalars" /\ \A q \in Rank : q # r => stage'[q] = stage[q]
  BY DEF MpiOK
<1>3. \A s \in Rank : Len(calls[s]) \in Nat /\ Len(calls[s]) >= Len(calls[s])
  BY PathFacts
<1>4. ASSUME NEW q \in Rank, q # r PROVE Placed(q)' /\ Called(q)' /\ Waited(q)'
  BY <1>1, <1>2, <1>3, <1>4, AsideOnPath
<1>5. Len(Route) \in 5..7 /\ Route[2] = "scalars" /\ \A k \in 1..Len(Route) : Route[k] \in Ops
  BY TheRoute DEF RouteFacts, RouteOfSize, MetAt
<1>6. ~inside[r] /\ Len(calls[r]) = 1
  <2>1. ~inside[r]
    BY PathFacts DEF Ops
  <2>2. Len(calls[r]) < Len(Route) => Route[Len(calls[r]) + 1] # "split"
    BY <1>3, <1>5 DEF Ops
  <2>3. Placed(r)
    BY DEF Paths
  <2> QED
    BY <2>1, <2>2, <2>3 DEF Placed
<1>7. Placed(r)'
  <2>1. Route' = Route /\ 1 < Len(Route) /\ Route[1 + 1] = "scalars"
    BY <1>1, <1>5, FoldFrame
  <2> QED
    BY <1>2, <1>6, <2>1 DEF Placed
<1>8. Called(r)' /\ Waited(r)'
  BY <1>1, <1>2, <1>6, <1>7, NewStage
<1> QED
  BY <1>4, <1>7, <1>8 DEF Paths

LEMMA WriteOnPath ==
  ASSUME MpiOK, Paths, Write
  PROVE  Paths'
<1>1. /\ acc' = acc /\ at' = at /\ header_ok' = header_ok /\ calls' = calls /\ inside' = inside
      /\ stage[0] = "write" /\ stage' = [stage EXCEPT ![0] = "finalize"] /\ 0 \in Rank
  BY RootIsRank DEF Write, split
<1>2. stage'[0] = "finalize" /\ \A q \in Rank : q # 0 => stage'[q] = stage[q]
  BY <1>1 DEF MpiOK
<1>3. \A s \in Rank : Len(calls[s]) \in Nat /\ Len(calls[s]) >= Len(calls[s])
  BY PathFacts
<1>4. ASSUME NEW q \in Rank, q # 0 PROVE Placed(q)' /\ Called(q)' /\ Waited(q)'
  BY <1>1, <1>2, <1>3, <1>4, AsideOnPath
<1>5. Len(Route) \in 5..7 /\ Route[Len(Route)] = "finalize"
  BY TheRoute DEF RouteFacts, RouteOfSize, MetAt
<1>6. ~inside[0] /\ Len(calls[0]) = Len(Route) - 1
  BY <1>1, WriteIsLast
<1>7. Placed(0)'
  <2>1. Route' = Route
    BY <1>1, FoldFrame
  <2>2. Len(calls[0]) < Len(Route) /\ Len(calls[0]) + 1 = Len(Route)
    BY <1>5, <1>6
  <2> QED
    BY <1>1, <1>2, <1>5, <1>6, <2>1, <2>2 DEF Placed
<1>8. Called(0)' /\ Waited(0)'
  BY <1>1, <1>2, <1>6, <1>7, NewStage
<1> QED
  BY <1>4, <1>7, <1>8 DEF Paths

LEMMA AbortOnPath ==
  ASSUME MpiOK, Paths, Abort
  PROVE  Paths'
<1>1. /\ acc' = acc /\ at' = at /\ header_ok' = header_ok /\ calls' = calls /\ stage[0] = "write"
      /\ \A q \in Rank : stage'[q] = "gone" /\ ~inside'[q]
  BY DEF Abort, split
<1>2. ~inside[0] /\ AllAt(Len(Route) - 1) /\ \A s \in Rank : at[s] = "split"
  BY <1>1, WriteIsLast
<1>3. Route' = Route /\ \A q, op : Full(q, op)' = Full(q, op)
  BY <1>1, FoldFrame
<1>4. Len(Route) \in 5..7 /\ Route[Len(Route)] = "finalize"
  BY TheRoute DEF RouteFacts, RouteOfSize, MetAt
<1> SUFFICES ASSUME NEW q \in Rank PROVE Placed(q)' /\ Called(q)' /\ Waited(q)'
  BY DEF Paths
<1>5. Placed(q) /\ Called(q) /\ Waited(q)
  BY DEF Paths
<1>6. Placed(q)'
  BY <1>1 DEF Placed
<1>7. Called(q)'
  BY <1>1, <1>2, <1>3, <1>5 DEF Called
<1>8. Waited(q)'
  <2> DEFINE n == Len(calls[q])
  <2>1. Over(q)' = n /\ n \in Nat /\ n <= Len(Route)
    BY <1>1, PathFacts DEF Over
  <2> SUFFICES ASSUME NEW k \in 2..n,
                      Route[k] \in {"span", "bounds"} \/ (q = 0 /\ k < Len(Route))
               PROVE  AllAt(k)
    BY <1>1, <1>3, <2>1 DEF Waited, AllAt
  <2>2. k # Len(Route)
    BY <1>4
  <2>3. k \in Nat /\ k <= Len(Route) - 1 /\ Len(Route) - 1 \in Nat
    <3> HIDE DEF n
    <3> QED
      BY <1>4, <2>1, <2>2
  <2> QED
    BY <1>2, <2>3, AllBefore
<1> QED
  BY <1>6, <1>7, <1>8

-----------------------------------------------------------------------------
(***************************************************************************)
(* The report.                                                             *)
(***************************************************************************)

LEMMA PathStep ==
  ASSUME SplitInv, MpiOK, Stopped, missing = {}, header_ok, Paths, [Next]_vars
  PROVE  Paths'
<1>1. CASE UNCHANGED vars
  <2>1. /\ acc' = acc /\ at' = at /\ header_ok' = header_ok /\ calls' = calls
        /\ inside' = inside /\ stage' = stage
    BY <1>1 DEF vars, mpi, split
  <2>2. \A s \in Rank : Len(calls[s]) \in Nat /\ Len(calls[s]) >= Len(calls[s])
    BY PathFacts
  <2> QED
    BY <2>1, <2>2, AsideOnPath DEF Paths
<1>2. ASSUME NEW r \in Rank, ReadRange(r) PROVE Paths'
  <2>1. /\ stage[r] = "split" /\ header_ok' = header_ok /\ calls' = calls /\ inside' = inside
    BY <1>2 DEF ReadRange
  <2>2. CASE (Enter(r) \/ Splitting(r)) /\ UNCHANGED stage
    BY <2>1, <2>2, ReadingOnPath
  <2>3. CASE at[r] = "split" /\ stage' = [stage EXCEPT ![r] = "scalars"] /\ UNCHANGED split
    BY <2>1, <2>3, RangeReadOnPath
  <2> QED
    BY <1>2, <2>2, <2>3 DEF ReadRange
<1> QED
  BY <1>1, <1>2, OpenOnPath, CallOnPath, ReturnOnPath, WriteOnPath, AbortOnPath DEF Next, Main

\* The file does not change, nor does what its report is to be.
LEMMA ExpectedStays ==
  ASSUME SplitInv, [Next]_vars
  PROVE  file' = file /\ (torn => torn') /\ Expected' = Expected
<1>1. file' = file /\ (torn => torn')
  <2>1. \/ UNCHANGED split
        \/ \E r \in Rank : Enter(r) \/ Splitting(r)
    BY DEF Next, Main, Write, Abort, Open, Call, Return, ReadRange, vars
  <2>2. CASE UNCHANGED split
    BY <2>2 DEF split
  <2>3. ASSUME NEW r \in Rank, Enter(r) \/ Splitting(r) PROVE file' = file /\ (torn => torn')
    BY <2>3 DEF Enter, Splitting, Read, ReadFails, ReadAll, Line, Beyond, CarryOver, Rest
  <2> QED
    BY <2>1, <2>2, <2>3
<1>2. Lines' = Lines
  <2>1. Starts' = Starts /\ \A o : LineFrom(o)' = LineFrom(o)
    BY <1>1, FileFrame
  <2>2. Order' = Order
    BY <2>1 DEF Order
  <2> QED
    BY <2>1, <2>2 DEF Lines
<1>3. Folded(Lines)' = Folded(Lines)
  BY <1>2 DEF Folded
<1>4. Expected' = Expected
  BY <1>3 DEF Expected
<1> QED
  BY <1>1, <1>4

LEMMA InitMpiInv == Init => MpiInv
<1> SUFFICES ASSUME Init PROVE MpiInv
  OBVIOUS
<1>1. SplitInv
  BY InitSplitInv
<1>2. /\ missing \in Absent /\ header_ok \in BOOLEAN /\ eager \in BOOLEAN
      /\ stage = [r \in Rank |-> "open"] /\ calls = [r \in Rank |-> <<>>]
      /\ inside = [r \in Rank |-> FALSE] /\ report = <<>>
  BY DEF Init
<1>3. \A r \in Rank : calls[r] = <<>> /\ ~inside[r] /\ stage[r] = "open"
  BY <1>2
<1>4. <<>> \in Seq(Range(<<>>)) /\ Len(<<>>) = 0 /\ DOMAIN <<>> = {}
  OBVIOUS
<1>5. MpiOK
  <2>1. missing \in SUBSET Rank
    BY <1>2, MpiAssumption
  <2>2. stage \in [Rank -> Stages] /\ inside \in [Rank -> BOOLEAN] /\ DOMAIN calls = Rank
    BY <1>2 DEF Stages
  <2> QED
    BY <1>2, <1>3, <1>4, <2>1, <2>2 DEF MpiOK
<1>6. Stopped
  BY <1>2, <1>3, <1>4 DEF Stopped
<1>7. \A r \in Rank : Placed(r) /\ Called(r) /\ Waited(r)
  <2> SUFFICES ASSUME NEW r \in Rank PROVE Placed(r) /\ Called(r) /\ Waited(r)
    OBVIOUS
  <2>1. Placed(r)
    BY <1>3, <1>4 DEF Placed
  <2>2. Called(r)
    <3>1. Len(Route) \in 5..7
      BY TheRoute DEF RouteFacts, RouteOfSize, MetAt
    <3>2. DOMAIN calls[r] = {} /\ Len(calls[r]) = 0 /\ stage[r] = "open"
      BY <1>3, <1>4
    <3> QED
      BY <3>1, <3>2 DEF Called
  <2>3. Waited(r)
    <3>1. Over(r) = 0
      BY <1>3, <1>4 DEF Over
    <3> QED
      BY <3>1 DEF Waited
  <2> QED
    BY <2>1, <2>2, <2>3
<1>8. MpiReportExact
  BY <1>2 DEF MpiReportExact
<1> QED
  BY <1>1, <1>5, <1>6, <1>7, <1>8 DEF MpiInv

\* In every reachable state the ranks that have the file and its header are at
\* known places of the same sequence of calls, with what they have folded.
THEOREM MpiInvariance == Spec => []MpiInv
<1>1. MpiInv /\ [Next]_vars => MpiInv'
  <2> SUFFICES ASSUME MpiInv, [Next]_vars PROVE MpiInv'
    OBVIOUS
  <2>1. /\ SplitInv /\ MpiOK /\ Stopped /\ MpiReportExact
        /\ missing = {} /\ header_ok => Paths
    BY DEF MpiInv, Paths
  <2>2. SplitInv'
    <3>1. \/ UNCHANGED split
          \/ \E r \in Rank : Enter(r) \/ Splitting(r)
      BY DEF Next, Main, Write, Abort, Open, Call, Return, ReadRange, vars
    <3> QED
      BY <2>1, <3>1, SplitStep, SplitStutter
  <2>3. MpiOK' /\ Stopped'
    BY <2>1, MpiOKStep, StoppedStep
  <2>4. missing' = missing /\ header_ok' = header_ok
    BY DEF Next, Main, Write, Abort, Open, Call, Return, ReadRange, vars, mpi
  <2>5. missing' = {} /\ header_ok' => Paths'
    BY <2>1, <2>4, PathStep
  <2>6. MpiReportExact'
    <3>1. file' = file /\ (torn => torn') /\ Expected' = Expected
      BY <2>1, ExpectedStays
    <3>2. CASE Write
      <4>1. report' = <<Report>> /\ stage[0] = "write"
        BY <3>2 DEF Write
      <4>2. missing = {} /\ header_ok
        BY <2>1, <4>1, RootIsRank DEF Stopped
      <4>3. ~torn => Report = Expected
        BY <2>1, <4>1, <4>2, ReportIs
      <4>4. report'[1] = Report
        BY <4>1
      <4> QED
        BY <2>4, <3>1, <4>2, <4>3, <4>4 DEF MpiReportExact
    <3>3. CASE ~Write
      <4>1. report' = report
        BY <3>3 DEF Next, Main, Abort, Open, Call, Return, ReadRange, vars, mpi
      <4> QED
        BY <2>1, <2>4, <3>1, <4>1 DEF MpiReportExact
    <3> QED
      BY <3>2, <3>3
  <2> QED
    BY <2>2, <2>3, <2>5, <2>6 DEF MpiInv, Paths
<1> QED
  BY <1>1, InitMpiInv, PTL DEF Spec

\* A report is the one of the whole file, unless a read has failed, and none is
\* written if a rank could not open the file or the header is not one.
THEOREM MpiReportHolds == Spec => []MpiReportExact
<1>1. MpiInv => MpiReportExact
  BY DEF MpiInv
<1> QED
  BY <1>1, MpiInvariance, PTL
=============================================================================
