----------------------------- MODULE CSVLoader ------------------------------
(***************************************************************************)
(* One load of a list of CSV files into a new map: Execute of CSVLoader    *)
(* (src/src/segment_bindings.cpp, way_bindings.cpp) and the loadCSV of the *)
(* two maps.  Each action is a file opened, a row added, a file ended.     *)
(***************************************************************************)
EXTENDS Naturals, Sequences

CONSTANTS
  UintMax,   (* largest uint32_t                                           *)
  Inputs     (* the loads considered                                       *)

VARIABLES
  input,        (* the kind of map, and the files with what is in them     *)
  pc,           (* where the load is                                       *)
  file, line,   (* the file, and the line at which the next row starts     *)
  annotations   (* the map                                                 *)

vars == <<input, pc, file, line, annotations>>

INSTANCE SpeedMap WITH Format <- input.format

(* A file that cannot be mapped, as an empty one cannot, is not readable.  *)
CSVFile == [readable : BOOLEAN, lines : Seq(Line)]

ASSUME WidthAssumption == UintMax \in Nat /\ UintMax > INVALID_SPEED
ASSUME InputsAssumption ==
  Inputs \subseteq [format : {"segment", "way"}, files : Seq(CSVFile)]

Lines == input.files[file].lines
NextRow == RowFrom(Lines, line)
RowIsNext == pc = "row" /\ line <= Len(Lines) /\ Fits(NextRow)

Init ==
  /\ input \in Inputs
  /\ pc = "file"
  /\ file = 1 /\ line = 1
  /\ annotations = EmptySpeeds

OpenFile ==
  /\ pc = "file" /\ file <= Len(input.files)
  /\ pc' = IF input.files[file].readable THEN "row" ELSE "failed"
  /\ line' = 1
  /\ UNCHANGED <<input, file, annotations>>

AddRow_Stays ==
  /\ RowIsNext
  /\ annotations' \in Add(annotations, NextRow)
  /\ UNCHANGED <<input, pc, file, line>>

(* The row is added as soon as it has been recognized, even if the parser  *)
(* then stops in the middle of the line and the load fails.                *)
AddRow ==
  /\ RowIsNext
  /\ annotations' \in Add(annotations, NextRow)
  /\ IF Complete(NextRow)
       THEN line' = RowEnd(Lines, line) + 1 /\ UNCHANGED pc
       ELSE pc' = "failed" /\ UNCHANGED line
  /\ UNCHANGED <<input, file>>

(* The parser stops: it has read the whole file, or loadCSV throws.        *)
EndFile ==
  /\ pc = "row" /\ ~RowIsNext
  /\ IF Ends(Lines, line)
       THEN pc' = "file" /\ file' = file + 1
       ELSE pc' = "failed" /\ UNCHANGED file
  /\ UNCHANGED <<input, line, annotations>>

EndLoad ==
  /\ pc = "file" /\ file > Len(input.files)
  /\ pc' = "done"
  /\ UNCHANGED <<input, file, line, annotations>>

Terminated == pc \in {"done", "failed"} /\ UNCHANGED vars

Next == OpenFile \/ AddRow \/ EndFile \/ EndLoad \/ Terminated

Spec == Init /\ [][Next]_vars

(* The load runs on one thread of the pool, which never stops half-way.    *)
FairSpec == Spec /\ WF_vars(Next)
-----------------------------------------------------------------------------
(* What the files say, from the input alone.                               *)

(* Lines of file f in which a row starts: the first, and after each row.   *)
RowStarts(f) ==
  LET lines == input.files[f].lines
      Closed(S) ==
        1 \in S /\ \A i \in S : RowEnd(lines, i) < Len(lines) => RowEnd(lines, i) + 1 \in S
  IN  {i \in 1 .. Len(lines) : \A S \in SUBSET (1 .. Len(lines)) : Closed(S) => i \in S}

RowAt(r) == RowFrom(input.files[r[1]].lines, r[2])

(* The speed of a row in km/h, however large.                              *)
Written(row) == IF IsMph(row) THEN RoundKph(SpeedOf(row)) ELSE SpeedOf(row)

(* The places, file and line, of the rows with a speed that can be kept.   *)
RowsWithSpeed ==
  {r \in UNION {{f} \X RowStarts(f) : f \in DOMAIN input.files} :
     Fits(RowAt(r)) /\ IsSpeed(Written(RowAt(r)))}

RowsOf(key) == {r \in RowsWithSpeed : KeyOf(RowAt(r)) = key}
Before(r, q) == r[1] < q[1] \/ (r[1] = q[1] /\ r[2] <= q[2])
LastRow(key) == CHOOSE r \in RowsOf(key) : \A q \in RowsOf(key) : Before(q, r)
-----------------------------------------------------------------------------
(* Only valid speeds are kept, whatever the undefined conversion of a speed*)
(* out of range gives, so that INVALID_SPEED means that there is none      *)
(* (segment_speed_map.cpp:65-67, way_speed_map.cpp:58-61).                 *)
TypeOK ==
  /\ pc \in {"file", "row", "done", "failed"}
  /\ file \in Nat \ {0} /\ line \in Nat \ {0}
  /\ IsSpeedMap(annotations)

(* The lines in which a row starts that has a speed out of range.          *)
WideRows ==
  {r \in UNION {{f} \X RowStarts(f) : f \in DOMAIN input.files} :
     Fits(RowAt(r)) /\ Written(RowAt(r)) > UintMax}

(* A finished load has, for each key, the speed of the last row of the last*)
(* file that gives it one, in whatever unit; rows with a speed too large   *)
(* take none away (segment_speed_map.cpp:58-104, way_speed_map.cpp:54-81). *)
(* Of files with speeds beyond uint32_t only TypeOK holds.                 *)
LastRowWins ==
  pc = "done" /\ WideRows = {} =>
    /\ DOMAIN annotations = {KeyOf(RowAt(r)) : r \in RowsWithSpeed}
    /\ \A key \in DOMAIN annotations : annotations[key] = Written(RowAt(LastRow(key)))

(* A load succeeds only if every file could be read and every line of them *)
(* that is not blank is a row of its own, with no column missing or left.  *)
EveryLineRead ==
  pc = "done" =>
    \A f \in DOMAIN input.files :
      /\ input.files[f].readable
      /\ \A i \in DOMAIN input.files[f].lines :
           LET text == input.files[f].lines[i]
           IN  text = Blank \/ (Fits(text) /\ Complete(text))

(* Files of segments are read line by line: congestion.cpp:122-166 expects *)
(* an exception of any file that has another line in it.                   *)
EverySegmentRead == input.format = "segment" => EveryLineRead

(* The lexicographic order of lists of numbers, which has no infinite chain*)
(* downwards among lists of one length.                                    *)
Below(p, q) ==
  \E i \in DOMAIN q : /\ p[i] \in Nat /\ p[i] < q[i]
                     /\ \A k \in 1 .. (i - 1) : p[k] = q[k]

(* What is left to do: whether the load goes on, the files, and the lines  *)
(* of the file that is open.                                               *)
WorkLeft ==
  <<IF pc \in {"done", "failed"} THEN 0 ELSE 1,
    Len(input.files) - file + 1,
    IF pc = "file" THEN 1 ELSE 0,
    IF pc = "row" THEN Len(Lines) - line + 1 ELSE 0>>

(* Each row leaves less to read, whatever lines it goes over, and never    *)
(* more than the file has: what of Terminates is about the code and not    *)
(* about its thread (way_speed_map.cpp:33-52).                             *)
WorkShrinks == [][Below(WorkLeft', WorkLeft)]_vars

(* Every load ends, with a map or with an error.                           *)
Terminates == <>(pc \in {"done", "failed"})
-----------------------------------------------------------------------------
(* wayspeeds.cpp:108-112, way_speeds_test_fewer_columns, expects the same  *)
(* of files of ways: BOOST_CHECK_THROW for one that lacks columns.         *)
EveryWayRead == input.format = "way" => EveryLineRead
=============================================================================
