------------------------------- MODULE WxFile -------------------------------
(***************************************************************************)
(* The file that the weather programs of section 2 read, and what          *)
(* scripts/oracle.py of q8 reads of it.                                    *)
(***************************************************************************)
EXTENDS WxTables

CONSTANT Inputs  \* what a run may be given: [lines, k, batch, limit, dist]

\* A line has its number of fields and, with seven or more, a record.
FileLine == [fields : Nat, rec : Record]

ASSUME InputAssumption ==
  Inputs \subseteq [lines : Seq(FileLine), k : Nat, batch : Nat \ {0}, limit : Nat,
                      dist : {"rr", "station"}]

VARIABLE input      \* the file, behind a header with K, and the options

lines == input.lines

\* The records on some lines.
RecordsOf(D) == [i \in D |-> lines[i].rec]

\* oracle.py reads the lines with seven fields or more.
OracleLines == {i \in DOMAIN lines : lines[i].fields >= 7}
=============================================================================
