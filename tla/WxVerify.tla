------------------------------ MODULE WxVerify ------------------------------
(***************************************************************************)
(* The weather programs of section 2 on one file: the streaming ones, then *)
(* the batch pipeline, each compared with the reference.                   *)
(***************************************************************************)
EXTENDS WeatherReport, WxMapReduce

VInit == Init /\ BatchInit

\* The batch pipeline begins when the streaming programs have ended.
BatchStep == asking = "answered" /\ settled /\ BatchNext /\ UNCHANGED vars

VNext == (Next /\ UNCHANGED batch) \/ BatchStep

VSpec == VInit /\ [][VNext]_<<vars, batch>>

\* Lines from which a mapper may learn K: the header, and those that have lost
\* some of a record's fields.
HeaderKs ==
  {input.k} \union {lines[i].rec.station : i \in {j \in DOMAIN lines : lines[j].fields \in 3..6}}

\* The records of the whole file.
AllRecords == RecordsOf(OracleLines)

\* However the file is cut into splits, in one stage or two, and in whatever
\* order the partials of a key are merged: the batch pipeline prints what
\* oracle.py prints of the file.  Where the file has a line that has lost some
\* of its fields, that may be but for the number of stations printed.
BatchExact == printed # <<>> => \E k \in HeaderKs : printed[1] = Oracle(AllRecords, k)
=============================================================================
