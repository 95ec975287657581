----------------------------- MODULE MCDocDemo ------------------------------
(***************************************************************************)
(* An instance of DocDemo for TLC: two editors, and another client that    *)
(* subscribes to the same document and may never read its stream.          *)
(***************************************************************************)
EXTENDS DocDemo

CONSTANTS create, observe, e1, e2, get, other

MCCall   == {create, observe, e1, e2, get, other}
MCEditor == {e1, e2}
MCStrip  == [n \in {"", "a"} |-> n]

Req(k, p, t) == [kind |-> k, name |-> "a", position |-> p, text |-> t]
MCMenu == [c \in MCCall |->
  CASE c = create -> {Req("create", 0, <<"x", "x">>)}
    [] c = e1     -> {Req("edit", 1, <<"u", "v">>)}
    [] c = e2     -> {Req("edit", 1, <<"w">>)}
    [] c = get    -> {Req("get", 0, <<>>)}
    [] OTHER      -> {Req("subscribe", 0, <<>>)}]
=============================================================================
