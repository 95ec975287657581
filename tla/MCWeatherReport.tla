-------------------------- MODULE MCWeatherReport --------------------------
(***************************************************************************)
(* Instances of WxVerify for TLC: small files with ties in every      *)
(* order, frost and heat, malformed lines, and limits.                     *)
(***************************************************************************)
EXTENDS WxVerify

\* a and b tie but for the station, c ties with them and is later, f freezes;
\* c and f share a minute, and a and f a station.
R(ts, s, t) ==
  [ts |-> ts, station |-> s, t |-> t, h |-> 50 - t, p |-> 10 * s, rain |-> s, wind |-> 7]
a == R(10, 2, 40)
b == R(10, 1, 40)
c == R(70, 1, 40)
f == R(65, 2, -3)
g == R(130, 3, -3)

Line(r)   == [fields |-> 7, rec |-> r]
Short     == [fields |-> 3, rec |-> a]
Long      == [fields |-> 8, rec |-> f]
File(rs)  == [i \in DOMAIN rs |-> Line(rs[i])]

\* All files of at most three of four records, repeated or not, and all orders of
\* four different ones.
Clean == {File(rs) : rs \in UNION {[1..n -> {a, b, c, f}] : n \in 0..3}
                          \union SetToSeqs({b, c, f, g})}

\* Malformed lines first, between and last, alone in a batch or not.
Dirty == {<<Short, Line(a)>>, <<Line(a), Short, Line(b)>>, <<Line(b), Line(f), Short>>,
          <<Short, Short, Line(a)>>, <<Line(c), Short, Short, Line(b)>>, <<Line(a), Long>>}

MCInputs ==
  [lines : Clean, k : {2}, batch : {2}, limit : {0}, dist : {"rr", "station"}]
  \union [lines : Clean, k : {1}, batch : {1}, limit : {2}, dist : {"rr"}]
  \union [lines : Dirty, k : {0}, batch : {1, 2}, limit : {0, 1}, dist : {"station"}]
=============================================================================
