---------------------------- MODULE MCDocClient -----------------------------
(***************************************************************************)
(* An instance of DocClient for TLC: one document, and the name that an    *)
(* ended input makes the client ask for, which nobody else writes to.      *)
(***************************************************************************)
EXTENDS DocClient

CONSTANTS f1, f2

MCFeed == {f1, f2}
=============================================================================
