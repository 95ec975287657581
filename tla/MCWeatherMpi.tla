---------------------------- MODULE MCWeatherMpi ----------------------------
(***************************************************************************)
(* An instance of WeatherMpi for TLC: every file with a header and few     *)
(* bytes of data, so that ranges are empty, or begin in the middle of a    *)
(* record, at its first byte or at a newline.                              *)
(***************************************************************************)
EXTENDS WeatherMpi

CONSTANT Data   \* most bytes after the header

MCInputs ==
  UNION {[size : {1 + d}, header : {1}, newlines : {{0} \union n : n \in SUBSET (1..d)}] :
           d \in 0..Data}

\* The line at offset 3 is malformed; all of it is frost, and there are ties.
MCRecord == [o \in 0..Data |->
  [ok |-> o # 3, station |-> (o + 1) % 3, ts |-> 60 * (o % 3), temp |-> IF o = 1 THEN -2 ELSE -1]]

\* No rank without the file, the root, another one, all.
MCAbsent == {{}, {0}, {P - 1}, Rank}
=============================================================================
