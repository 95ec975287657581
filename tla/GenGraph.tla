------------------------------ MODULE GenGraph ------------------------------
(***************************************************************************)
(* The graphs that section1/q2_sssp/gen_graph.py can write: a shape's base *)
(* edges, then random ones until there are E edges (or too many draws were *)
(* wasted), each with a random weight.  R vertices may have edges into     *)
(* them.  A graph is given by all choices its random generator could make. *)
(***************************************************************************)
EXTENDS Integers, FiniteSets, FiniteSetsExt

\* int(FRAC * V) vertices get no edges in, but never all of them.
Reachable(V, cut) == Max({V - cut, 1})

\* add(u, v): no self-loop, no edge twice, none into a cut-off vertex.
Addable(V, R) == {p \in (0..(V - 1)) \X (0..(R - 1)) : p[1] # p[2]}

Chain(R) == {<<i, i + 1>> : i \in 0..(R - 2)}
Star(R)  == {<<0, i>> : i \in 1..(R - 1)}

\* max(2, isqrt(R)) layers of consecutive vertices.
Layers(R)   == Max({2} \union {n \in 1..R : n * n <= R})
Layer(x, R) == Min({(x * Layers(R)) \div R, Layers(R) - 1})

Forward(V, R) ==
  {p \in Addable(V, R) : p[1] < R /\ Layer(p[2], R) = Layer(p[1], R) + 1}

\* The edges a shape starts with.  Layered: one forward edge of every vertex
\* that is not in the last layer; with R = 1 there is no second layer, and the
\* program fails.
Bases(shape, V, R) ==
  CASE shape = "random"  -> {{}}
    [] shape = "chain"   -> {Chain(R)}
    [] shape = "star"    -> {Star(R)}
    [] shape = "layered" ->
         LET inner == {x \in 0..(R - 1) : Layer(x, R) < Layers(R) - 1}
             next(x) == {p[2] : p \in {q \in Forward(V, R) : q[1] = x}}
         IN {{<<x, f[x]>> : x \in inner} :
               f \in {g \in [inner -> 0..(R - 1)] : \A x \in inner : g[x] \in next(x)}}

\* The edges that may be drawn after that.
Draws(shape, V, R) == IF shape = "layered" THEN Forward(V, R) ELSE Addable(V, R)

\* The edge sets, without weights, and the graphs.
Shapes(shape, V, R, E) ==
  UNION {{base \union more :
            more \in {m \in SUBSET (Draws(shape, V, R) \ base) :
                        m = {} \/ Cardinality(m) + Cardinality(base) <= E}} :
           base \in Bases(shape, V, R)}

Generated(shape, V, R, E, weights) ==
  UNION {{{[from |-> p[1], to |-> p[2], weight |-> w[p]] : p \in g} : w \in [g -> weights]} :
           g \in Shapes(shape, V, R, E)}
=============================================================================
