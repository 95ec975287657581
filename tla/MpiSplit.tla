------------------------------ MODULE MpiSplit ------------------------------
(***************************************************************************)
(* How the ranks of q8_from hw2/src/weather_mpi.cpp read the input: the    *)
(* data after the header is cut into P byte ranges, each rank streams its  *)
(* own in chunks, and a record belongs to the rank whose range has its     *)
(* first byte.                                                             *)
(*                                                                         *)
(* A byte of the file is NL or its own offset, so that what is parsed      *)
(* tells where it came from.                                               *)
(***************************************************************************)
EXTENDS Integers, Sequences, FiniteSets, FiniteSetsExt

CONSTANTS
  P,      \* number of ranks
  Chunk,  \* bytes asked for at a time
  Inputs  \* files, [size, header, newlines]

Rank == 0..(P - 1)
NL   == -1

ASSUME SplitAssumption ==
  /\ P \in Nat \ {0} /\ Chunk \in Nat \ {0}
  /\ \A f \in Inputs :
       /\ f.size \in Nat /\ f.header \in 0..f.size
       /\ f.newlines \subseteq 0..(f.size - 1)
       /\ f.header < f.size => f.header - 1 \in f.newlines

VARIABLES
  file,        \* the input
  at,          \* where the rank is: "out", "read", "scan", "tail" or "split"
  pos,         \* offset of the next byte to read
  carry, carry_at,  \* partial record from the last chunk, and its offset
  work, work_at, i, \* the bytes being scanned, their offset, the bytes done
  drop_first,  \* the range begins inside another rank's record
  acc,         \* Accum: the lines folded, in order
  torn         \* history: a read has failed

buffers == <<carry, carry_at, work, work_at, i>>
split   == <<file, at, pos, buffers, drop_first, acc, torn>>

Bytes(f) == [o \in 1..f.size |-> IF o - 1 \in f.newlines THEN NL ELSE o - 1]

RawStart(r) == file.header + ((file.size - file.header) * r) \div P
RawEnd(r)   == RawStart(r + 1)

SplitInit ==
  /\ file \in Inputs
  /\ at = [r \in Rank |-> "out"]
  /\ pos = [r \in Rank |-> 0] /\ i = [r \in Rank |-> 0]
  /\ carry = [r \in Rank |-> <<>>] /\ carry_at = [r \in Rank |-> 0]
  /\ work = [r \in Rank |-> <<>>] /\ work_at = [r \in Rank |-> 0]
  /\ drop_first = [r \in Rank |-> FALSE]
  /\ acc = [r \in Rank |-> <<>>] /\ torn = FALSE

Step(r, from, to) == at[r] = from /\ at' = [at EXCEPT ![r] = to]

\* Mutant: the byte before the range is not looked at.
BehindNever(r) == FALSE

\* The byte before the range is not a newline.  (That reading it can fail by itself,
\* which leaves drop_first as it was, is left out.)
Behind(r) == r # 0 /\ RawStart(r) > 0 /\ RawStart(r) - 1 \notin file.newlines

\* The rank goes to the beginning of its range.
Enter(r) ==
  /\ Step(r, "out", "read")
  /\ pos' = [pos EXCEPT ![r] = RawStart(r)]
  /\ carry_at' = [carry_at EXCEPT ![r] = RawStart(r)]
  /\ drop_first' = [drop_first EXCEPT ![r] = Behind(r)]
  /\ UNCHANGED <<file, carry, work, work_at, i, acc, torn>>

Wanted(r) == IF Chunk < file.size - pos[r] THEN Chunk ELSE file.size - pos[r]

\* A chunk, or less of it, is read after what was carried over.
Read(r) ==
  /\ Step(r, "read", "scan") /\ pos[r] < file.size
  /\ \E got \in 1..Wanted(r) :
       /\ work' = [work EXCEPT ![r] =
                     carry[r] \o SubSeq(Bytes(file), pos[r] + 1, pos[r] + got)]
       /\ pos' = [pos EXCEPT ![r] = @ + got]
  /\ work_at' = [work_at EXCEPT ![r] = carry_at[r]]
  /\ i' = [i EXCEPT ![r] = 0]
  /\ carry' = [carry EXCEPT ![r] = <<>>]
  /\ UNCHANGED <<file, carry_at, drop_first, acc, torn>>

\* fread delivers nothing: the loop is left, be it at the end or by an error.
ReadFails(r) ==
  /\ Step(r, "read", "tail") /\ pos[r] < file.size
  /\ torn' = TRUE
  /\ UNCHANGED <<file, pos, buffers, drop_first, acc>>

ReadAll(r) ==
  /\ Step(r, "read", "tail") /\ pos[r] >= file.size
  /\ UNCHANGED <<file, pos, buffers, drop_first, acc, torn>>

\* The newlines in the bytes still to be scanned, and the first of them.
Ends(r) == {e \in i[r]..(Len(work[r]) - 1) : work[r][e + 1] = NL}
FirstEnd(r) == CHOOSE e \in Ends(r) : \A x \in Ends(r) : e <= x

LineAt(r) == work_at[r] + i[r]

\* parse_buffer on one line: a blank one is skipped.
Parsed(a, line) == IF line = <<>> THEN a ELSE Append(a, line)

\* A line that ends here is dropped, or folded.
Line(r) ==
  /\ at[r] = "scan" /\ Ends(r) # {} /\ (drop_first[r] \/ LineAt(r) < RawEnd(r))
  /\ drop_first' = [drop_first EXCEPT ![r] = FALSE]
  /\ acc' = IF drop_first[r] THEN acc
            ELSE [acc EXCEPT ![r] = Parsed(@, SubSeq(work[r], i[r] + 1, FirstEnd(r)))]
  /\ i' = [i EXCEPT ![r] = FirstEnd(r) + 1]
  /\ UNCHANGED <<file, at, pos, carry, carry_at, work, work_at, torn>>

\* done: the line belongs to the next rank.
Beyond(r) ==
  /\ Step(r, "scan", "split") /\ Ends(r) # {} /\ ~drop_first[r] /\ LineAt(r) >= RawEnd(r)
  /\ UNCHANGED <<file, pos, buffers, drop_first, acc, torn>>

CarriedAt(r) == LineAt(r)

\* No line ends in the rest, which is carried over.
CarryOver(r) ==
  /\ Step(r, "scan", "read") /\ Ends(r) = {}
  /\ carry' = [carry EXCEPT ![r] = SubSeq(work[r], i[r] + 1, Len(work[r]))]
  /\ carry_at' = [carry_at EXCEPT ![r] = CarriedAt(r)]
  /\ work' = [work EXCEPT ![r] = <<>>]
  /\ work_at' = [work_at EXCEPT ![r] = 0] /\ i' = [i EXCEPT ![r] = 0]
  /\ UNCHANGED <<file, pos, drop_first, acc, torn>>

\* A final record without a newline.
Rest(r) ==
  /\ Step(r, "tail", "split")
  /\ acc' = IF ~drop_first[r] /\ carry_at[r] < RawEnd(r)
            THEN [acc EXCEPT ![r] = Parsed(@, carry[r])] ELSE acc
  /\ UNCHANGED <<file, pos, buffers, drop_first, torn>>

Splitting(r) ==
  Read(r) \/ ReadFails(r) \/ ReadAll(r) \/ Line(r) \/ Beyond(r) \/ CarryOver(r) \/ Rest(r)

-----------------------------------------------------------------------------
(***************************************************************************)
(* The records of the file, and what the ranks have of them.               *)
(***************************************************************************)

\* Where a record begins, where it ends, and its bytes.
Starts ==
  {o \in file.header..(file.size - 1) :
     o \notin file.newlines /\ (o = file.header \/ o - 1 \in file.newlines)}
EndOf(o)    == Min({x \in file.newlines : x > o} \union {file.size})
LineFrom(o) == [b \in 1..(EndOf(o) - o) |-> o + b - 1]

\* In the order of the file, as weather_seq reads them.
Order ==
  CHOOSE s \in [1..Cardinality(Starts) -> Starts] :
    \A j, k \in DOMAIN s : j < k => s[j] < s[k]
Lines == [k \in DOMAIN Order |-> LineFrom(Order[k])]

\* ls has the records that begin in S, each one once, whole and in order.
AreLines(ls, S) ==
  /\ \A k \in DOMAIN ls : Head(ls[k]) \in S /\ ls[k] = LineFrom(Head(ls[k]))
  /\ \A o \in S : \E k \in DOMAIN ls : Head(ls[k]) = o
  /\ \A j, k \in DOMAIN ls : j < k => Head(ls[j]) < Head(ls[k])

StartsIn(a, b) == {o \in Starts : a <= o /\ o < b}

SplitOK ==
  /\ file \in Inputs /\ torn \in BOOLEAN
  /\ at \in [Rank -> {"out", "read", "scan", "tail", "split"}]
  /\ pos \in [Rank -> Nat] /\ i \in [Rank -> Nat]
  /\ carry_at \in [Rank -> Nat] /\ work_at \in [Rank -> Nat]
  /\ carry \in [Rank -> Seq(Int)] /\ work \in [Rank -> Seq(Int)]
  /\ drop_first \in [Rank -> BOOLEAN]
  /\ acc \in [Rank -> Seq(Seq(Int))]

\* The first byte that the rank has not folded or dropped.
Cursor(r) == IF at[r] = "scan" THEN LineAt(r) ELSE carry_at[r]

\* The buffers hold the file's bytes up to the next one to be read; what is
\* carried over has no newline.
Buffered(r) ==
  /\ at[r] = "out" => carry[r] = <<>>
  /\ at[r] \in {"read", "scan", "tail"} =>
       RawStart(r) <= Cursor(r) /\ Cursor(r) <= pos[r] /\ pos[r] <= file.size
  /\ at[r] \in {"read", "tail"} =>
       /\ carry[r] = SubSeq(Bytes(file), carry_at[r] + 1, pos[r])
       /\ \A o \in carry_at[r]..(pos[r] - 1) : o \notin file.newlines
  /\ at[r] = "scan" =>
       /\ work[r] = SubSeq(Bytes(file), work_at[r] + 1, pos[r])
       /\ work_at[r] + Len(work[r]) = pos[r]

\* A line begins at the cursor, or it is in the line to be dropped.
OnLine(r) ==
  at[r] \in {"read", "scan", "tail"} =>
    IF drop_first[r] THEN Cursor(r) = RawStart(r) /\ Behind(r)
    ELSE Cursor(r) = file.header \/ Cursor(r) - 1 \in file.newlines

\* What is folded is what begins before the cursor, in the end all that begins
\* in the range, unless a read has failed.
Kept(r) ==
  /\ at[r] = "out" => acc[r] = <<>>
  /\ at[r] \in {"read", "scan", "tail"} => AreLines(acc[r], StartsIn(RawStart(r), Cursor(r)))
  /\ at[r] = "split" /\ ~torn => AreLines(acc[r], StartsIn(RawStart(r), RawEnd(r)))
  /\ at[r] = "tail" => torn \/ pos[r] = file.size
  /\ \A k \in DOMAIN acc[r] : Head(acc[r][k]) \in RawStart(r)..(RawEnd(r) - 1)

SplitInv == SplitOK /\ \A r \in Rank : Buffered(r) /\ OnLine(r) /\ Kept(r)

=============================================================================
