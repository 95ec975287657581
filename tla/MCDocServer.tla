---------------------------- MODULE MCDocServer ----------------------------
(***************************************************************************)
(* Instances of DocServer for TLC: the calls and what each may ask.        *)
(***************************************************************************)
EXTENDS DocRefines

CONSTANTS c1, e1, e2, s1, s2

MCName  == {"", " ", "a", " a"}
MCStrip == [n \in MCName |-> CASE n \in {"", " "} -> ""
                                [] OTHER -> "a"]

Req(k, n, p, t) == [kind |-> k, name |-> n, position |-> p, text |-> t]
Creates(N) == {Req("create", n, 0, <<"x">>) : n \in N}
Gets(N)    == {Req("get", n, 0, <<>>) : n \in N}
Subs(N)    == {Req("subscribe", n, 0, <<>>) : n \in N}
Edits(P, t) == {Req("edit", "a", p, t) : p \in P}

\* A creator; an editor at any position, one past the end included; a second
\* editor or a second creator of the same stripped name; a subscriber or a
\* reader, which may not strip the name.  Blank names are refused.
ServiceCalls == {c1, e1, e2, s1}
ServiceMenu == [c \in ServiceCalls |->
  CASE c = c1 -> Creates({"a", " "})
    [] c = e1 -> Edits(0..2, <<"u", "v">>)
    [] c = e2 -> Edits({1}, <<"w">>) \union Edits({2}, <<>>) \union Creates({" a"})
    [] c = s1 -> Subs({"a"}) \union Gets({"a", " a"})]

\* Two subscribers and one edit, for a pool of two threads.
FanoutCalls == {c1, e1, s1, s2}
FanoutMenu == [c \in FanoutCalls |->
  CASE c = c1 -> Creates({"a"})
    [] c = e1 -> Edits({1}, <<"u">>)
    [] OTHER  -> Subs({"a"})]
=============================================================================
