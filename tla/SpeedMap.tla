------------------------------ MODULE SpeedMap ------------------------------
(***************************************************************************)
(* SegmentSpeedMap and WaySpeedMap (src/src/segment_speed_map.cpp,         *)
(* src/src/way_speed_map.cpp): what a row of a CSV file adds to a map from *)
(* node pairs, or from way ids, to speeds, and what is read from the map.  *)
(*                                                                         *)
(* A line is the sequence of its fields, what the commas separate; a field *)
(* is a Text.  A blank line has one empty field.                           *)
(*                                                                         *)
(* A definition X_Bug is X with a plausible mistake in it, which some      *)
(* property must catch; no specification uses it.                          *)
(***************************************************************************)
EXTENDS Units, Sequences, FiniteSets

CONSTANTS
  Format,   (* which of the two maps: "segment" or "way"                   *)
  UintMax   (* largest uint32_t                                            *)

ASSUME FormatAssumption == Format \in {"segment", "way"}
ASSUME UintMaxAssumption ==
  UintMax \in Nat /\ UintMax > INVALID_SPEED /\ UintMax % 2 = 1

Field == [number : Nat \cup {NoDigits}, rest : STRING]
Line == Seq(Field)
Blank == <<Plain("")>>

MapKey == IF Format = "segment" THEN Nat \X Nat ELSE 0 .. UintMax
IsSpeedMap(map) ==
  /\ map = [key \in DOMAIN map |-> map[key]]
  /\ DOMAIN map \subseteq MapKey
  /\ \A key \in DOMAIN map : map[key] \in 0 .. (INVALID_SPEED - 1)

EmptySpeeds == [k \in {} |-> INVALID_SPEED]
-----------------------------------------------------------------------------
(* The grammars.                                                           *)

(* qi::uint_ reads the digits a field starts with, if they are in range.   *)
IsUint(field) == field.number \in 0 .. UintMax
WholeNumber(field) == HasDigits(field) /\ field.rest = ""

Unit == {Plain("mph"), Plain("kph"), Plain("")}

(* from,to,speed or from,to,unit,speed                                     *)
SegmentSpeedAt(row) == IF HasDigits(row[3]) THEN 3 ELSE 4

FitsSegment(row) ==
  /\ Len(row) >= 3 /\ Len(row) >= SegmentSpeedAt(row)
  /\ WholeNumber(row[1]) /\ WholeNumber(row[2])
  /\ SegmentSpeedAt(row) = 4 => row[3] \in Unit
  /\ IsUint(row[SegmentSpeedAt(row)])

(* way,name,unit,speed, whatever the name                                  *)
FitsWay(row) ==
  /\ Len(row) >= 4
  /\ WholeNumber(row[1]) /\ IsUint(row[1])
  /\ row[3] \in Unit
  /\ IsUint(row[4])

Fits(row) == IF Format = "segment" THEN FitsSegment(row) ELSE FitsWay(row)
SpeedAt(row) == IF Format = "segment" THEN SegmentSpeedAt(row) ELSE 4

(* Nothing of the line is left when the row has been read.                 *)
Complete(row) == Len(row) = SpeedAt(row) /\ row[SpeedAt(row)].rest = ""

(* The name of a way is all up to the next comma, line ends included: the  *)
(* row that starts in a line of two fields ends in a later line.           *)
RowEnd(lines, i) ==
  LET later == {k \in (i + 1) .. Len(lines) : Len(lines[k]) >= 2}
  IN  IF Format = "way" /\ Len(lines[i]) = 2 /\ later # {}
        THEN CHOOSE k \in later : \A l \in later : k <= l
        ELSE i

RowFrom(lines, i) ==
  IF RowEnd(lines, i) = i THEN lines[i] ELSE lines[i] \o Tail(lines[RowEnd(lines, i)])

Ends_Unchecked(lines, i) == TRUE

(* A file may end with blank lines; one of segments has a row before them. *)
Ends(lines, i) ==
  /\ \A k \in i .. Len(lines) : lines[k] = Blank
  /\ Format = "segment" => i > 1
-----------------------------------------------------------------------------
(* add and add_with_unit.                                                  *)

KeyOf_Undirected(row) ==
  IF Format = "way" THEN row[1].number
  ELSE IF row[1].number < row[2].number THEN <<row[1].number, row[2].number>>
                                        ELSE <<row[2].number, row[1].number>>

KeyOf(row) ==
  IF Format = "segment" THEN <<row[1].number, row[2].number>> ELSE row[1].number

(* Of a float out of range the conversion is undefined: x86-64 keeps its   *)
(* low bits, AArch64 the largest uint32_t.                                 *)
ToUint32(x) == IF x <= UintMax THEN {x} ELSE {x % (UintMax + 1), UintMax}

(* A row of a segment without a unit has a node id before the speed.       *)
IsMph(row) == row[SpeedAt(row) - 1] = Plain("mph")

SpeedOf(row) == row[SpeedAt(row)].number
Converted(row) == IF IsMph(row) THEN ToUint32(RoundKph(SpeedOf(row))) ELSE {SpeedOf(row)}

IsSpeed_WithInvalid(s) == s <= INVALID_SPEED
IsSpeed(s) == s <= INVALID_SPEED - 1

Put_KeepsFirst(map, key, s) ==
  [k \in DOMAIN map \cup {key} |-> IF k \in DOMAIN map THEN map[k] ELSE s]

(* annotations[key] = s                                                    *)
Put(map, key, s) == [k \in DOMAIN map \cup {key} |-> IF k = key THEN s ELSE map[k]]

(* The maps a row may make of a map.                                       *)
Add(map, row) == {IF IsSpeed(s) THEN Put(map, KeyOf(row), s) ELSE map : s \in Converted(row)}
-----------------------------------------------------------------------------
(* Lookups.                                                                *)

SpeedFor(map, key) == IF key \in DOMAIN map THEN map[key] ELSE INVALID_SPEED

(* Each node with the next one, or each way.                               *)
KeysOf(ids) ==
  IF Format = "segment" THEN [i \in 1 .. (Len(ids) - 1) |-> <<ids[i], ids[i + 1]>>] ELSE ids

getValues(map, ids) ==
  [i \in DOMAIN KeysOf(ids) |-> SpeedFor(map, KeysOf(ids)[i])]
=============================================================================
