-------------------------- MODULE CSVLoaderProofs ---------------------------
(***************************************************************************)
(* For any lists of files of either format: the type invariant of          *)
(* CSVLoader, that a load of segments reads every line, that the last row  *)
(* of a key wins, and that a load cannot run for ever.                     *)
(***************************************************************************)
EXTENDS CSVLoader, SequenceTheorems, WellFoundedInduction, TLAPS

Format == input.format
LinesOf(f) == input.files[f].lines

(* The parts of TypeOK, and how far the load can be where.                 *)
Types ==
  /\ input \in Inputs
  /\ pc \in {"file", "row", "done", "failed"}
  /\ file \in Nat \ {0} /\ line \in Nat \ {0}
  /\ IsSpeedMap(annotations)
  /\ pc = "row" => file <= Len(input.files) /\ input.files[file].readable
  /\ pc = "done" => file > Len(input.files)

(* Every set of numbers has a least one.                                   *)
LEMMA LeastNumber ==
  ASSUME NEW T \in SUBSET Nat, T # {}
  PROVE  \E x \in T : \A y \in T : x <= y
<1> DEFINE R == {ss \in Nat \X Nat : ss[1] < ss[2]}
<1>1. IsWellFoundedOn(R, Nat)
  BY NatLessThanWellFounded DEF OpToRel
<1>2. PICK x \in T : \A y \in T : ~ (<<y, x>> \in R)
  BY <1>1, WFMin
<1>3. \A y \in T : x \in Nat /\ y \in Nat /\ ~(y < x)
  BY <1>2
<1> QED
  BY <1>3

(* What the assumption on the inputs gives for one input.                  *)
LEMMA InputType ==
  ASSUME Types
  PROVE  /\ Format \in {"segment", "way"}
         /\ input.files \in Seq(CSVFile)
         /\ Len(input.files) \in Nat /\ DOMAIN input.files = 1 .. Len(input.files)
         /\ \A f \in DOMAIN input.files :
              /\ input.files[f].readable \in BOOLEAN
              /\ LinesOf(f) \in Seq(Line) /\ Len(LinesOf(f)) \in Nat
              /\ DOMAIN LinesOf(f) = 1 .. Len(LinesOf(f))
<1>1. input \in [format : {"segment", "way"}, files : Seq(CSVFile)]
  BY InputsAssumption DEF Types
<1>2. Len(input.files) \in Nat /\ DOMAIN input.files = 1 .. Len(input.files)
  BY <1>1, LenProperties
<1>3. \A f \in DOMAIN input.files : input.files[f] \in CSVFile
  BY <1>1, <1>2, ElementOfSeq
<1>4. \A f \in DOMAIN input.files :
        /\ LinesOf(f) \in Seq(Line) /\ Len(LinesOf(f)) \in Nat
        /\ DOMAIN LinesOf(f) = 1 .. Len(LinesOf(f))
  BY <1>3, LenProperties DEF CSVFile, LinesOf
<1> QED
  BY <1>1, <1>2, <1>3, <1>4 DEF CSVFile, Format

(* A row ends in the line it starts in or in a later one.                  *)
LEMMA RowEndType ==
  ASSUME NEW lines \in Seq(Line), NEW i \in 1 .. Len(lines)
  PROVE  /\ RowEnd(lines, i) \in i .. Len(lines)
         /\ RowEnd(lines, i) # i => Format = "way" /\ Len(lines[RowEnd(lines, i)]) >= 2
<1> DEFINE later == {k \in (i + 1) .. Len(lines) : Len(lines[k]) >= 2}
<1>0. Len(lines) \in Nat
  BY LenProperties
<1>1. CASE Format = "way" /\ Len(lines[i]) = 2 /\ later # {}
  <2>1. \E k \in later : \A l \in later : k <= l
    <3>1. later \in SUBSET Nat /\ later # {}
      BY <1>0, <1>1
    <3> HIDE DEF later
    <3> QED
      BY <3>1, LeastNumber
  <2>2. RowEnd(lines, i) = CHOOSE k \in later : \A l \in later : k <= l
    BY <1>1 DEF RowEnd, Format
  <2>3. RowEnd(lines, i) \in later
    BY <2>1, <2>2
  <2> QED
    BY <1>0, <1>1, <2>3
<1>2. CASE ~(Format = "way" /\ Len(lines[i]) = 2 /\ later # {})
  <2>1. RowEnd(lines, i) = i
    BY <1>2 DEF RowEnd, Format
  <2> QED
    BY <1>0, <2>1
<1> QED
  BY <1>1, <1>2

(* What has been recognized is a line.                                     *)
LEMMA RowType ==
  ASSUME NEW lines \in Seq(Line), NEW i \in 1 .. Len(lines)
  PROVE  RowFrom(lines, i) \in Line
<1>1. lines[i] \in Line /\ lines[RowEnd(lines, i)] \in Line
  <2>1. RowEnd(lines, i) \in 1 .. Len(lines)
    BY RowEndType, LenProperties
  <2> QED
    BY <2>1, ElementOfSeq
<1>2. CASE RowEnd(lines, i) = i
  BY <1>1, <1>2 DEF RowFrom
<1>3. CASE RowEnd(lines, i) # i
  <2> DEFINE last == lines[RowEnd(lines, i)]
  <2>1. last \in Seq(Field) /\ Len(last) >= 2 /\ lines[i] \in Seq(Field)
    BY <1>1, <1>3, RowEndType DEF Line
  <2>2. last # <<>>
    BY <2>1, EmptySeq
  <2>3. Tail(last) \in Seq(Field)
    BY <2>1, <2>2, HeadTailProperties
  <2>4. lines[i] \o Tail(last) \in Seq(Field)
    BY <2>1, <2>3, ConcatProperties
  <2> QED
    BY <1>3, <2>4 DEF RowFrom, Line
<1> QED
  BY <1>2, <1>3

(* A speed in kilometres per hour is a natural number.                     *)
LEMMA RoundKphType ==
  ASSUME NEW speed \in Nat
  PROVE  RoundKph(speed) \in Nat
<1>1. 50292 * speed + 15625 \in Nat
  OBVIOUS
<1> QED
  BY <1>1 DEF RoundKph

(* The key and the speed of a row that fits are in their ranges.           *)
LEMMA FittingRow ==
  ASSUME Types, NEW row \in Line, Fits(row)
  PROVE  /\ KeyOf(row) \in MapKey
         /\ SpeedOf(row) \in 0 .. UintMax
         /\ Written(row) \in Nat
         /\ Converted(row) \in SUBSET Nat
         /\ Written(row) <= UintMax => Converted(row) = {Written(row)}
<1>0. Len(row) \in Nat /\ \A i \in 1 .. Len(row) : row[i] \in Field
  BY LenProperties, ElementOfSeq DEF Line
<1>1. SpeedAt(row) \in 3 .. 4 /\ SpeedAt(row) <= Len(row) /\ IsUint(row[SpeedAt(row)])
  BY <1>0, InputType
  DEF Fits, FitsSegment, FitsWay, SpeedAt, SegmentSpeedAt, Format
<1>2. SpeedOf(row) \in 0 .. UintMax
  BY <1>1 DEF SpeedOf, IsUint
<1>3. KeyOf(row) \in MapKey
  <2>1. CASE Format = "segment"
    <3>1. WholeNumber(row[1]) /\ WholeNumber(row[2]) /\ row[1] \in Field /\ row[2] \in Field
      BY <1>0, <2>1 DEF Fits, FitsSegment, Format
    <3> QED
      BY <2>1, <3>1 DEF WholeNumber, HasDigits, Field, KeyOf, MapKey, Format
  <2>2. CASE Format = "way"
    BY <2>2 DEF Fits, FitsWay, IsUint, KeyOf, MapKey, Format
  <2> QED
    BY <2>1, <2>2, InputType
<1>4. RoundKph(SpeedOf(row)) \in Nat /\ SpeedOf(row) \in Nat /\ UintMax \in Nat
  BY <1>2, RoundKphType, WidthAssumption
<1>5. Written(row) \in Nat
  BY <1>4 DEF Written
<1>6. ASSUME NEW x \in Nat
      PROVE  /\ ToUint32(x) \in SUBSET Nat
             /\ x <= UintMax => ToUint32(x) = {x}
  <2>1. x % (UintMax + 1) \in Nat
    BY <1>4
  <2> QED
    BY <1>4, <2>1 DEF ToUint32
<1>7. Converted(row) \in SUBSET Nat
  BY <1>4, <1>6 DEF Converted
<1>8. Written(row) <= UintMax => Converted(row) = {Written(row)}
  BY <1>4, <1>6 DEF Converted, Written
<1> QED
  BY <1>2, <1>3, <1>5, <1>7, <1>8

(* What a row makes of a map of speeds is a map of speeds.                 *)
LEMMA AddType ==
  ASSUME Types, NEW row \in Line, Fits(row), NEW map \in Add(annotations, row)
  PROVE  IsSpeedMap(map)
<1>1. PICK s \in Converted(row) :
        map = IF IsSpeed(s) THEN Put(annotations, KeyOf(row), s) ELSE annotations
  BY DEF Add
<1>2. IsSpeedMap(annotations)
  BY DEF Types
<1>3. CASE IsSpeed(s)
  <2>1. s \in 0 .. (INVALID_SPEED - 1) /\ KeyOf(row) \in MapKey
    BY <1>3, FittingRow DEF IsSpeed, INVALID_SPEED
  <2>2. map = Put(annotations, KeyOf(row), s)
    BY <1>1, <1>3
  <2> QED
    BY <1>2, <2>1, <2>2 DEF Put, IsSpeedMap
<1> QED
  BY <1>1, <1>2, <1>3

(* The row that is read next lies in the lines of a readable file.         *)
LEMMA NextRowFacts ==
  ASSUME Types, RowIsNext
  PROVE  /\ file \in DOMAIN input.files /\ Lines = LinesOf(file)
         /\ line \in 1 .. Len(Lines) /\ NextRow \in Line /\ Fits(NextRow)
         /\ RowEnd(Lines, line) \in line .. Len(Lines)
<1>1. file \in DOMAIN input.files /\ Lines = LinesOf(file) /\ Fits(NextRow)
  BY InputType DEF Types, RowIsNext, Lines, LinesOf
<1>2. line \in 1 .. Len(Lines) /\ Lines \in Seq(Line)
  BY <1>1, InputType DEF Types, RowIsNext
<1> QED
  BY <1>1, <1>2, RowType, RowEndType DEF NextRow

(* Every step keeps the types.                                             *)
LEMMA TypesStep == Types /\ [Next]_vars => Types'
<1> SUFFICES ASSUME Types, [Next]_vars PROVE Types'
  OBVIOUS
<1>0. Len(input.files) \in Nat /\ file \in Nat \ {0} /\ line \in Nat \ {0}
  BY InputType DEF Types
<1>1. CASE OpenFile
  BY <1>0, <1>1 DEF OpenFile, Types, IsSpeedMap, MapKey
<1>2. CASE AddRow
  <2>1. IsSpeedMap(annotations')
    BY <1>2, AddType, NextRowFacts DEF AddRow
  <2>2. IsSpeedMap(annotations)'
    BY <1>2, <2>1 DEF AddRow, IsSpeedMap, MapKey
  <2>3. line' \in Nat \ {0}
    BY <1>0, <1>2, NextRowFacts DEF AddRow
  <2>4. pc = "row"
    BY <1>2 DEF AddRow, RowIsNext
  <2> QED
    BY <1>2, <2>2, <2>3, <2>4 DEF AddRow, Types
<1>3. CASE EndFile
  BY <1>0, <1>3 DEF EndFile, Types, IsSpeedMap, MapKey
<1>4. CASE EndLoad
  BY <1>0, <1>4 DEF EndLoad, Types, IsSpeedMap, MapKey
<1>5. CASE UNCHANGED vars
  BY <1>5 DEF vars, Types, IsSpeedMap, MapKey
<1> QED
  BY <1>1, <1>2, <1>3, <1>4, <1>5 DEF Next, Terminated

LEMMA TypesInit == Init => Types
<1> SUFFICES ASSUME Init PROVE Types
  OBVIOUS
<1> QED
  BY DEF Init, Types, IsSpeedMap, EmptySpeeds

(* The kept speeds are valid ones: INVALID_SPEED always means that there   *)
(* is none, whatever the files hold and whatever the undefined conversion  *)
(* of a speed out of range gives (segment_speed_map.cpp:65-67).            *)
THEOREM TypeCorrect == Spec => []TypeOK
<1>1. Types => TypeOK
  BY DEF Types, TypeOK
<1> QED
  BY <1>1, TypesInit, TypesStep, PTL DEF Spec
-----------------------------------------------------------------------------
(* Line i of the lines is blank, or a row of its own.                      *)
IsRead(lines, i) == lines[i] = Blank \/ (Fits(lines[i]) /\ Complete(lines[i]))

(* What a load of segments that goes on has read: all lines of the files   *)
(* before, and those of the file up to the line it is at.                  *)
LinesRead ==
  Format = "segment" /\ pc # "failed" =>
    \A f \in DOMAIN input.files :
      /\ f < file => input.files[f].readable /\ \A i \in DOMAIN LinesOf(f) : IsRead(LinesOf(f), i)
      /\ f = file /\ pc = "row" => \A i \in DOMAIN LinesOf(f) : i < line => IsRead(LinesOf(f), i)

(* Each row of a segment is a line.                                        *)
LEMMA SegmentRow ==
  ASSUME Format = "segment", NEW lines, NEW i
  PROVE  RowEnd(lines, i) = i /\ RowFrom(lines, i) = lines[i]
BY DEF RowEnd, RowFrom, Format

LEMMA LinesReadStep == Types /\ LinesRead /\ [Next]_vars => LinesRead'
<1> SUFFICES ASSUME Types, LinesRead, [Next]_vars PROVE LinesRead'
  OBVIOUS
<1>0. input' = input
  BY DEF Next, OpenFile, AddRow, EndFile, EndLoad, Terminated, vars
<1> SUFFICES ASSUME (Format = "segment" /\ pc # "failed")', NEW f \in DOMAIN input.files
             PROVE  (/\ f < file => /\ input.files[f].readable
                                    /\ \A i \in DOMAIN LinesOf(f) : IsRead(LinesOf(f), i)
                     /\ f = file /\ pc = "row" =>
                          \A i \in DOMAIN LinesOf(f) : i < line => IsRead(LinesOf(f), i))'
  BY <1>0 DEF LinesRead
<1>1. input' = input /\ Format = "segment" /\ pc # "failed"
  BY DEF Next, OpenFile, AddRow, EndFile, EndLoad, Terminated, vars, Format
<1>2. /\ f < file => /\ input.files[f].readable
                     /\ \A i \in DOMAIN LinesOf(f) : IsRead(LinesOf(f), i)
      /\ f = file /\ pc = "row" =>
           \A i \in DOMAIN LinesOf(f) : i < line => IsRead(LinesOf(f), i)
  BY <1>1 DEF LinesRead
<1>3. \A i : IsRead(LinesOf(f), i)' <=> IsRead(LinesOf(f), i)
  BY <1>1 DEF IsRead, LinesOf, Fits, FitsSegment, FitsWay, Complete, SpeedAt, Format
<1>4. /\ Len(input.files) \in Nat /\ f \in Nat /\ file \in Nat \ {0} /\ line \in Nat \ {0}
      /\ LinesOf(f)' = LinesOf(f) /\ DOMAIN LinesOf(f) \in SUBSET Nat
  BY <1>1, InputType DEF Types, LinesOf
<1>5. CASE OpenFile
  BY <1>1, <1>2, <1>3, <1>4, <1>5 DEF OpenFile
<1>6. CASE AddRow
  <2>1. Complete(NextRow) /\ file' = file /\ pc = "row"
    BY <1>6 DEF AddRow, RowIsNext
  <2>2. line' = line + 1 /\ NextRow = Lines[line]
    BY <1>1, <1>6, <2>1, SegmentRow DEF AddRow, NextRow
  <2>3. f = file => IsRead(LinesOf(f), line)
    BY <1>6, <2>1, <2>2, NextRowFacts DEF AddRow, IsRead
  <2>4. \A i \in DOMAIN LinesOf(f) : i < line' => i < line \/ i = line
    BY <1>4, <2>2
  <2> QED
    BY <1>1, <1>2, <1>3, <1>4, <2>1, <2>3, <2>4
<1>7. CASE EndFile
  <2>1. Ends(Lines, line) /\ file' = file + 1 /\ pc = "row" /\ pc' = "file"
    BY <1>7 DEF EndFile
  <2>2. f < file' => f < file \/ f = file
    BY <1>4, <2>1
  <2>3. f = file => input.files[f].readable
    BY <2>1 DEF Types
  <2>4. f = file => \A i \in DOMAIN LinesOf(f) : IsRead(LinesOf(f), i)
    <3> SUFFICES ASSUME f = file, NEW i \in DOMAIN LinesOf(f) PROVE IsRead(LinesOf(f), i)
      OBVIOUS
    <3>1. i < line \/ i \in line .. Len(LinesOf(f))
      BY <1>4, InputType
    <3>2. i \in line .. Len(LinesOf(f)) => LinesOf(f)[i] = Blank
      BY <2>1 DEF Ends, Lines, LinesOf
    <3> QED
      BY <1>2, <2>1, <3>1, <3>2 DEF IsRead
  <2> QED
    BY <1>1, <1>2, <1>3, <1>4, <2>1, <2>2, <2>3, <2>4
<1>8. CASE EndLoad
  BY <1>1, <1>2, <1>3, <1>4, <1>8 DEF EndLoad
<1>9. CASE UNCHANGED vars
  BY <1>1, <1>2, <1>3, <1>4, <1>9 DEF vars
<1> QED
  BY <1>5, <1>6, <1>7, <1>8, <1>9 DEF Next, Terminated

LEMMA LinesReadInit == Init => LinesRead
<1> SUFFICES ASSUME Init PROVE LinesRead
  OBVIOUS
<1>1. Types
  BY TypesInit
<1>2. DOMAIN input.files \in SUBSET (Nat \ {0})
  BY <1>1, InputType
<1> QED
  BY <1>2 DEF Init, LinesRead

(* A load of segments succeeds only if it could read every file and every  *)
(* line in it that is not blank is a whole row (congestion.cpp:122-166).   *)
THEOREM SegmentsComplete == Spec => []EverySegmentRead
<1>1. Types /\ LinesRead => EverySegmentRead
  <2> SUFFICES ASSUME Types, LinesRead, Format = "segment", pc = "done",
                      NEW f \in DOMAIN input.files
               PROVE  /\ input.files[f].readable
                      /\ \A i \in DOMAIN LinesOf(f) : IsRead(LinesOf(f), i)
    BY DEF EverySegmentRead, EveryLineRead, IsRead, LinesOf, Format
  <2>1. f < file
    BY InputType DEF Types
  <2> QED
    BY <2>1 DEF LinesRead
<1> QED
  BY <1>1, TypesInit, TypesStep, LinesReadInit, LinesReadStep, PTL DEF Spec
-----------------------------------------------------------------------------
Closed(lines, S) ==
  1 \in S /\ \A i \in S : RowEnd(lines, i) < Len(lines) => RowEnd(lines, i) + 1 \in S

(* Rows start where the definition says, and after a row that starts at i  *)
(* nowhere before its end.                                                 *)
LEMMA StartsOfRows ==
  ASSUME Types, NEW f \in DOMAIN input.files
  PROVE  /\ RowStarts(f) \subseteq 1 .. Len(LinesOf(f))
         /\ 1 <= Len(LinesOf(f)) => 1 \in RowStarts(f)
         /\ \A i \in RowStarts(f) :
              RowEnd(LinesOf(f), i) < Len(LinesOf(f)) => RowEnd(LinesOf(f), i) + 1 \in RowStarts(f)
         /\ \A S \in SUBSET (1 .. Len(LinesOf(f))) : Closed(LinesOf(f), S) => RowStarts(f) \subseteq S
<1> DEFINE n == Len(LinesOf(f))
<1>0. LinesOf(f) \in Seq(Line) /\ n \in Nat
  BY InputType
<1>1. RowStarts(f) = {i \in 1 .. n : \A S \in SUBSET (1 .. n) : Closed(LinesOf(f), S) => i \in S}
  BY DEF RowStarts, Closed, LinesOf
<1>2. \A i \in 1 .. n : RowEnd(LinesOf(f), i) \in i .. n
  BY <1>0, RowEndType
<1>3. ASSUME NEW i \in RowStarts(f), RowEnd(LinesOf(f), i) < n
      PROVE  RowEnd(LinesOf(f), i) + 1 \in RowStarts(f)
  <2>1. i \in 1 .. n /\ RowEnd(LinesOf(f), i) + 1 \in 1 .. n
    BY <1>0, <1>1, <1>2, <1>3
  <2>2. ASSUME NEW S \in SUBSET (1 .. n), Closed(LinesOf(f), S)
        PROVE  RowEnd(LinesOf(f), i) + 1 \in S
    BY <1>1, <1>3, <2>2 DEF Closed
  <2> QED
    BY <1>1, <2>1, <2>2
<1>4. 1 <= n => 1 \in RowStarts(f)
  BY <1>0, <1>1 DEF Closed
<1>5. ASSUME NEW S \in SUBSET (1 .. n), Closed(LinesOf(f), S)
      PROVE  RowStarts(f) \subseteq S
  BY <1>1, <1>5
<1>6. RowStarts(f) \subseteq 1 .. n
  BY <1>1
<1> QED
  BY <1>3, <1>4, <1>5, <1>6

LEMMA NoStartInside ==
  ASSUME Types, NEW f \in DOMAIN input.files, NEW i \in RowStarts(f),
         \A k \in RowStarts(f) : k < i => RowEnd(LinesOf(f), k) < i
  PROVE  \A k \in RowStarts(f) : k <= i \/ k > RowEnd(LinesOf(f), i)
<1> DEFINE n == Len(LinesOf(f))
           End(k) == RowEnd(LinesOf(f), k)
           S == {k \in RowStarts(f) : k <= i \/ k > End(i)}
<1>1. /\ n \in Nat /\ RowStarts(f) \subseteq 1 .. n /\ 1 \in RowStarts(f)
      /\ \A k \in RowStarts(f) : End(k) < n => End(k) + 1 \in RowStarts(f)
  BY InputType, StartsOfRows
<1>2. \A k \in 1 .. n : End(k) \in k .. n
  BY RowEndType, InputType
<1>3. ASSUME NEW k \in S, End(k) < n
      PROVE  End(k) + 1 \in S
  <2>1. End(k) + 1 \in RowStarts(f) /\ k \in 1 .. n /\ i \in 1 .. n
    BY <1>1, <1>3
  <2>2. End(k) + 1 <= i \/ End(k) + 1 > End(i)
    <3>1. k < i \/ k = i \/ k > End(i)
      BY <2>1, <1>2
    <3>2. End(k) \in k .. n /\ End(i) \in i .. n
      BY <2>1, <1>2
    <3>3. k < i => End(k) < i
      OBVIOUS
    <3> HIDE DEF End
    <3> QED
      BY <1>1, <2>1, <3>1, <3>2, <3>3
  <2> QED
    BY <2>1, <2>2
<1>4. 1 \in S
  BY <1>1
<1>5. Closed(LinesOf(f), S)
  BY <1>3, <1>4 DEF Closed
<1>6. S \in SUBSET (1 .. n)
  BY <1>1
<1>7. RowStarts(f) \subseteq S
  BY <1>5, <1>6, StartsOfRows
<1> QED
  BY <1>7

(* The load is at the start of a row or past the last line, and all rows   *)
(* that start before end before.                                           *)
AtRow ==
  pc = "row" =>
    /\ line <= Len(LinesOf(file)) => line \in RowStarts(file)
    /\ \A k \in RowStarts(file) : k < line => RowEnd(LinesOf(file), k) < line

LEMMA AtRowStep == Types /\ AtRow /\ [Next]_vars => AtRow'
<1> SUFFICES ASSUME Types, AtRow, [Next]_vars, (pc = "row")'
             PROVE  AtRow'
  BY DEF AtRow
<1>1. input' = input
  BY DEF Next, OpenFile, AddRow, EndFile, EndLoad, Terminated, vars
<1>2. \A f, k : /\ LinesOf(f)' = LinesOf(f) /\ RowStarts(f)' = RowStarts(f)
               /\ RowEnd(LinesOf(f), k)' = RowEnd(LinesOf(f), k)
  BY <1>1 DEF LinesOf, RowStarts, RowEnd
<1>3. CASE OpenFile
  <2>1. file \in DOMAIN input.files /\ file' = file /\ line' = 1
    BY <1>3, InputType DEF OpenFile, Types
  <2>2. Len(LinesOf(file)) \in Nat /\ RowStarts(file) \subseteq 1 .. Len(LinesOf(file))
    BY <2>1, InputType, StartsOfRows
  <2>3. 1 <= Len(LinesOf(file)) => 1 \in RowStarts(file)
    BY <2>1, StartsOfRows
  <2>4. \A k \in RowStarts(file) : ~(k < 1)
    BY <2>2
  <2> QED
    BY <1>2, <2>1, <2>3, <2>4 DEF AtRow
<1>4. CASE AddRow
  <2>1. /\ pc = "row" /\ file' = file /\ line' = RowEnd(LinesOf(file), line) + 1
        /\ file \in DOMAIN input.files /\ line \in 1 .. Len(LinesOf(file))
        /\ RowEnd(LinesOf(file), line) \in line .. Len(LinesOf(file))
    BY <1>4, NextRowFacts DEF AddRow, RowIsNext
  <2> DEFINE R == RowStarts(file)
             End(k) == RowEnd(LinesOf(file), k)
             n == Len(LinesOf(file))
  <2>2. n \in Nat /\ R \subseteq 1 .. n /\ line \in R
    BY <2>1, InputType, StartsOfRows DEF AtRow
  <2>3. \A k \in R : k < line => End(k) < line
    BY <2>1 DEF AtRow
  <2>4. End(line) + 1 <= n => End(line) + 1 \in R
    BY <2>1, <2>2, StartsOfRows
  <2>5. \A k \in R : k <= line \/ k > End(line)
    BY <2>1, <2>2, <2>3, NoStartInside
  <2>6. \A k \in R : End(k) \in k .. n
    BY <2>1, <2>2, RowEndType, InputType
  <2>7. ASSUME NEW k \in R, k < End(line) + 1 PROVE End(k) < End(line) + 1
    <3>1. k < line \/ k = line
      BY <2>1, <2>2, <2>5, <2>7
    <3>2. CASE k = line
      BY <2>1, <3>2
    <3>3. CASE k < line
      <4>1. End(k) < line /\ End(k) \in Nat
        BY <2>2, <2>3, <2>6, <3>3
      <4> QED
        BY <2>1, <4>1
    <3> QED
      BY <3>1, <3>2, <3>3
  <2> QED
    BY <1>2, <2>1, <2>4, <2>7 DEF AtRow
<1>5. CASE EndFile \/ EndLoad
  BY <1>5 DEF EndFile, EndLoad
<1>6. CASE UNCHANGED vars
  BY <1>2, <1>6 DEF vars, AtRow
<1> QED
  BY <1>3, <1>4, <1>5, <1>6 DEF Next, Terminated
-----------------------------------------------------------------------------
(* The rows with a speed that have been added.                             *)
Read ==
  {r \in RowsWithSpeed : r[1] < file \/ (r[1] = file /\ pc = "row" /\ r[2] < line)}

(* r is the last row of the key among those that have been added.          *)
LastRead(r, key) ==
  /\ r \in Read /\ KeyOf(RowAt(r)) = key
  /\ \A q \in Read : KeyOf(RowAt(q)) = key => Before(q, r)

(* The map holds what the rows added so far say.                           *)
MapRead ==
  pc # "failed" /\ WideRows = {} =>
    /\ DOMAIN annotations = {KeyOf(RowAt(r)) : r \in Read}
    /\ \A key \in DOMAIN annotations :
         \E r \in Read : LastRead(r, key) /\ annotations[key] = Written(RowAt(r))

(* A place of a row is a file and a line.                                  *)
LEMMA PlaceType ==
  ASSUME Types, NEW r \in RowsWithSpeed
  PROVE  /\ r = <<r[1], r[2]>> /\ r[1] \in DOMAIN input.files /\ r[2] \in RowStarts(r[1])
         /\ r[1] \in Nat /\ r[2] \in Nat /\ r[2] <= Len(LinesOf(r[1]))
         /\ Fits(RowAt(r)) /\ IsSpeed(Written(RowAt(r)))
<1>1. /\ r \in UNION {{f} \X RowStarts(f) : f \in DOMAIN input.files}
      /\ Fits(RowAt(r)) /\ IsSpeed(Written(RowAt(r)))
  BY DEF RowsWithSpeed
<1>2. PICK f \in DOMAIN input.files : r \in {f} \X RowStarts(f)
  BY <1>1
<1>3. r = <<r[1], r[2]>> /\ r[1] = f /\ r[2] \in RowStarts(f)
  BY <1>2
<1>4. /\ f \in Nat /\ RowStarts(f) \subseteq 1 .. Len(LinesOf(f))
      /\ Len(LinesOf(f)) \in Nat
  BY InputType, StartsOfRows
<1> QED
  BY <1>1, <1>2, <1>3, <1>4

(* A row in place f, i with a speed that can be kept is one of them.       *)
LEMMA IsPlace ==
  ASSUME NEW f \in DOMAIN input.files, NEW i \in RowStarts(f), Fits(RowAt(<<f, i>>))
  PROVE  /\ IsSpeed(Written(RowAt(<<f, i>>))) => <<f, i>> \in RowsWithSpeed
         /\ WideRows = {} => ~(Written(RowAt(<<f, i>>)) > UintMax)
<1>1. <<f, i>> \in UNION {{g} \X RowStarts(g) : g \in DOMAIN input.files}
  OBVIOUS
<1> QED
  BY <1>1 DEF RowsWithSpeed, WideRows

(* What is computed from the input alone does not change.                  *)
LEMMA FilesStay ==
  ASSUME input' = input
  PROVE  /\ \A f : LinesOf(f)' = LinesOf(f) /\ RowStarts(f)' = RowStarts(f)
         /\ \A r : /\ RowAt(r)' = RowAt(r) /\ KeyOf(RowAt(r))' = KeyOf(RowAt(r))
                   /\ Written(RowAt(r))' = Written(RowAt(r))
         /\ RowsWithSpeed' = RowsWithSpeed /\ WideRows' = WideRows
<1>1. \A f : LinesOf(f)' = LinesOf(f) /\ RowStarts(f)' = RowStarts(f)
  BY DEF LinesOf, RowStarts, RowEnd
<1>2. \A r : RowAt(r)' = RowAt(r)
  BY DEF RowAt, RowFrom, RowEnd
<1>3. \A row : KeyOf(row)' = KeyOf(row) /\ Written(row)' = Written(row) /\ Fits(row)' = Fits(row)
  BY DEF KeyOf, Written, IsMph, SpeedOf, SpeedAt, Fits, FitsSegment, FitsWay
<1>4. \A r : /\ KeyOf(RowAt(r))' = KeyOf(RowAt(r)) /\ Written(RowAt(r))' = Written(RowAt(r))
             /\ Fits(RowAt(r))' = Fits(RowAt(r))
  BY <1>2, <1>3
<1> QED
  BY <1>1, <1>2, <1>4 DEF RowsWithSpeed, WideRows

(* Steps that add no row.                                                  *)
LEMMA NothingRead ==
  ASSUME MapRead, input' = input, annotations' = annotations, Read' = Read,
         pc # "failed"
  PROVE  MapRead'
<1>1. \A r, key : LastRead(r, key)' <=> LastRead(r, key)
  BY FilesStay DEF LastRead, Before
<1> QED
  BY <1>1, FilesStay DEF MapRead

(* Whether a row is among those that have been added after a step.         *)
LEMMA ReadAfter ==
  ASSUME input' = input
  PROVE  Read' = {r \in RowsWithSpeed :
                    r[1] < file' \/ (r[1] = file' /\ pc' = "row" /\ r[2] < line')}
BY FilesStay DEF Read

(* A row that is added gives its key its speed, if that can be kept.       *)
LEMMA AddRowRead ==
  ASSUME Types, AtRow, MapRead, AddRow, Complete(NextRow)
  PROVE  MapRead'
<1> DEFINE place == <<file, line>>
           key == KeyOf(NextRow)
           speed == Written(NextRow)
<1>1. /\ input' = input /\ file' = file /\ pc = "row" /\ pc' = "row"
      /\ line' = RowEnd(LinesOf(file), line) + 1
      /\ file \in DOMAIN input.files /\ line \in 1 .. Len(LinesOf(file))
      /\ RowEnd(LinesOf(file), line) \in line .. Len(LinesOf(file))
      /\ NextRow \in Line /\ Fits(NextRow)
  BY NextRowFacts DEF AddRow, RowIsNext
<1>2. line \in RowStarts(file) /\ RowAt(place) = NextRow /\ file \in Nat /\ line \in Nat
  BY <1>1, InputType DEF AtRow, RowAt, NextRow, Lines, Types
<1>3. /\ IsSpeed(speed) => place \in RowsWithSpeed
      /\ ~IsSpeed(speed) => place \notin RowsWithSpeed
      /\ WideRows = {} => ~(speed > UintMax)
  BY <1>1, <1>2, IsPlace DEF RowsWithSpeed
<1>4. ASSUME NEW r \in RowsWithSpeed, r[1] = file
      PROVE  r[2] < line' <=> r[2] < line \/ r = place
  <2>1. r = <<file, r[2]>> /\ r[2] \in RowStarts(file) /\ r[2] \in Nat
    BY <1>4, PlaceType
  <2>2. r[2] <= line \/ r[2] > RowEnd(LinesOf(file), line)
    BY <1>1, <1>2, <2>1, NoStartInside DEF AtRow
  <2>3. r = place <=> r[2] = line
    BY <2>1
  <2> QED
    BY <1>1, <1>2, <2>1, <2>2, <2>3
<1>5. ASSUME NEW r \in RowsWithSpeed
      PROVE  r \in Read' <=> r \in Read \/ r = place
  BY <1>1, <1>4, ReadAfter DEF Read
<1>6. Read \subseteq RowsWithSpeed /\ Read' \subseteq RowsWithSpeed
  BY <1>1, ReadAfter DEF Read
<1>7. CASE ~(IsSpeed(speed) /\ WideRows = {})
  <2>1. CASE WideRows # {}
    BY <1>1, <2>1, FilesStay DEF MapRead
  <2>2. CASE WideRows = {} /\ ~IsSpeed(speed)
    <3>1. Read' = Read
      BY <1>3, <1>5, <1>6, <2>2
    <3>2. Converted(NextRow) = {speed}
      BY <1>1, <1>3, <2>2, FittingRow, WidthAssumption
    <3>3. annotations' = annotations
      BY <2>2, <3>2 DEF AddRow, Add
    <3> QED
      BY <1>1, <3>1, <3>3, NothingRead
  <2> QED
    BY <1>7, <2>1, <2>2
<1>8. CASE IsSpeed(speed) /\ WideRows = {}
  <2>1. Read' = Read \cup {place}
    BY <1>3, <1>5, <1>6, <1>8
  <2>2. Converted(NextRow) = {speed}
    BY <1>1, <1>3, <1>8, FittingRow, WidthAssumption
  <2>3. annotations' = Put(annotations, key, speed)
    BY <1>8, <2>2 DEF AddRow, Add
  <2>4. /\ DOMAIN annotations' = DOMAIN annotations \cup {key}
        /\ annotations'[key] = speed
        /\ \A k \in DOMAIN annotations \ {key} : annotations'[k] = annotations[k]
    BY <2>3 DEF Put
  <2>5. /\ DOMAIN annotations = {KeyOf(RowAt(r)) : r \in Read}
        /\ \A k \in DOMAIN annotations :
             \E r \in Read : LastRead(r, k) /\ annotations[k] = Written(RowAt(r))
    BY <1>1, <1>8 DEF MapRead
  <2>6. DOMAIN annotations' = {KeyOf(RowAt(r)) : r \in Read'}
    BY <1>2, <2>1, <2>4, <2>5
  <2>7. ASSUME NEW k \in DOMAIN annotations'
        PROVE  \E r \in Read' : /\ KeyOf(RowAt(r)) = k
                                /\ \A q \in Read' : KeyOf(RowAt(q)) = k => Before(q, r)
                                /\ annotations'[k] = Written(RowAt(r))
    <3>1. CASE k = key
      <4>1. \A q \in Read' : Before(q, place)
        <5>1. ASSUME NEW q \in Read PROVE Before(q, place)
          <6>1. q[1] < file \/ (q[1] = file /\ q[2] < line)
            BY DEF Read
          <6>2. q[1] \in Nat /\ q[2] \in Nat
            BY <1>6, PlaceType
          <6> QED
            BY <1>2, <6>1, <6>2 DEF Before
        <5>2. Before(place, place)
          BY <1>2 DEF Before
        <5> QED
          BY <2>1, <5>1, <5>2
      <4> QED
        BY <1>2, <2>1, <2>4, <3>1, <4>1
    <3>2. CASE k # key
      <4>1. PICK r \in Read : LastRead(r, k) /\ annotations[k] = Written(RowAt(r))
        BY <2>4, <2>5, <3>2
      <4> QED
        BY <1>2, <2>1, <2>4, <3>2, <4>1 DEF LastRead
    <3> QED
      BY <3>1, <3>2
  <2>8. \A r, k : LastRead(r, k)' <=>
           r \in Read' /\ KeyOf(RowAt(r)) = k /\ \A q \in Read' : KeyOf(RowAt(q)) = k => Before(q, r)
    BY <1>1, FilesStay DEF LastRead, Before
  <2> QED
    BY <1>1, <2>6, <2>7, <2>8, FilesStay DEF MapRead
<1> QED
  BY <1>7, <1>8

(* No row starts among the blank lines that end a file.                    *)
LEMMA EndFileRead ==
  ASSUME Types, AtRow, MapRead, EndFile, Ends(Lines, line)
  PROVE  MapRead'
<1>1. /\ input' = input /\ annotations' = annotations /\ file' = file + 1
      /\ pc = "row" /\ pc' = "file" /\ Lines = LinesOf(file) /\ file \in DOMAIN input.files
  BY InputType DEF EndFile, Types, Lines, LinesOf
<1>2. ASSUME NEW r \in RowsWithSpeed, r[1] = file, ~(r[2] < line)
      PROVE  FALSE
  <2>1. /\ r[2] \in 1 .. Len(Lines) /\ line \in Nat /\ Lines \in Seq(Line)
        /\ Fits(RowAt(r)) /\ RowAt(r) = RowFrom(Lines, r[2])
    <3>1. r[2] \in RowStarts(file) /\ Fits(RowAt(r)) /\ RowAt(r) = RowFrom(Lines, r[2])
      BY <1>1, <1>2, PlaceType DEF RowAt, LinesOf
    <3> QED
      BY <1>1, <3>1, StartsOfRows, InputType DEF Types
  <2>2. Lines[r[2]] = Blank
    BY <1>2, <2>1 DEF Ends
  <2>0. Len(Blank) = 1
    BY DEF Blank
  <2>3. RowEnd(Lines, r[2]) = r[2]
    <3>1. Len(Lines[r[2]]) # 2
      BY <2>0, <2>2
    <3> QED
      BY <3>1, Zenon DEF RowEnd
  <2>4. RowAt(r) = Blank /\ Len(Blank) = 1
    BY <2>0, <2>1, <2>2, <2>3 DEF RowFrom
  <2> QED
    BY <2>1, <2>4 DEF Fits, FitsSegment, FitsWay
<1>3. ASSUME NEW r \in RowsWithSpeed
      PROVE  r[1] < file + 1 <=> r[1] < file \/ (r[1] = file /\ r[2] < line)
  BY <1>1, <1>2, PlaceType, InputType
<1>4. Read' = Read
  BY <1>1, <1>3, ReadAfter DEF Read
<1> QED
  BY <1>1, <1>4, NothingRead

LEMMA MapReadStep == Types /\ AtRow /\ MapRead /\ [Next]_vars => MapRead'
<1> SUFFICES ASSUME Types, AtRow, MapRead, [Next]_vars, (pc # "failed")' PROVE MapRead'
  BY DEF MapRead
<1>1. CASE OpenFile
  <2>1. input' = input /\ annotations' = annotations /\ file' = file /\ pc = "file" /\ line' = 1
    BY <1>1 DEF OpenFile
  <2>2. \A r \in RowsWithSpeed : r[1] = file => ~(r[2] < 1)
    <3> SUFFICES ASSUME NEW r \in RowsWithSpeed PROVE ~(r[2] < 1)
      OBVIOUS
    <3>1. r[1] \in DOMAIN input.files /\ r[2] \in RowStarts(r[1])
      BY PlaceType
    <3>2. r[2] \in 1 .. Len(LinesOf(r[1]))
      BY <3>1, StartsOfRows
    <3> QED
      BY <3>2
  <2>3. Read' = Read
    BY <2>1, <2>2, ReadAfter DEF Read
  <2> QED
    BY <2>1, <2>3, NothingRead
<1>2. CASE AddRow
  BY <1>2, AddRowRead DEF AddRow
<1>3. CASE EndFile
  BY <1>3, EndFileRead DEF EndFile
<1>4. CASE EndLoad
  <2>1. /\ input' = input /\ annotations' = annotations /\ file' = file
        /\ pc = "file" /\ pc' = "done"
    BY <1>4 DEF EndLoad
  <2>2. Read' = Read
    BY <2>1, ReadAfter DEF Read
  <2> QED
    BY <2>1, <2>2, NothingRead
<1>5. CASE UNCHANGED vars
  <2>1. /\ input' = input /\ annotations' = annotations /\ file' = file /\ pc' = pc
        /\ line' = line
    BY <1>5 DEF vars
  <2>2. Read' = Read
    BY <2>1, ReadAfter DEF Read
  <2> QED
    BY <2>1, <2>2, NothingRead
<1> QED
  BY <1>1, <1>2, <1>3, <1>4, <1>5 DEF Next, Terminated

(* Nothing has been read at first.                                         *)
LEMMA ReadInit == Init => AtRow /\ MapRead
<1> SUFFICES ASSUME Init PROVE AtRow /\ MapRead
  OBVIOUS
<1>1. Types
  BY TypesInit
<1>2. Read = {}
  BY <1>1, PlaceType, InputType DEF Init, Read
<1> QED
  BY <1>2 DEF Init, AtRow, MapRead, EmptySpeeds

(* In a finished load all rows have been added, and of each key the last   *)
(* one is the one LastRow chooses.                                         *)
LEMMA AllRead == Types /\ MapRead => LastRowWins
<1> SUFFICES ASSUME Types, MapRead, pc = "done", WideRows = {}
             PROVE  /\ DOMAIN annotations = {KeyOf(RowAt(r)) : r \in RowsWithSpeed}
                    /\ \A key \in DOMAIN annotations : annotations[key] = Written(RowAt(LastRow(key)))
  BY DEF LastRowWins
<1>1. Read = RowsWithSpeed
  <2>1. \A r \in RowsWithSpeed : r[1] < file
    BY PlaceType, InputType DEF Types
  <2> QED
    BY <2>1 DEF Read
<1>2. /\ DOMAIN annotations = {KeyOf(RowAt(r)) : r \in Read}
      /\ \A key \in DOMAIN annotations :
           \E r \in Read : LastRead(r, key) /\ annotations[key] = Written(RowAt(r))
  BY DEF MapRead
<1>3. ASSUME NEW key \in DOMAIN annotations
      PROVE  annotations[key] = Written(RowAt(LastRow(key)))
  <2>1. PICK r \in Read : LastRead(r, key) /\ annotations[key] = Written(RowAt(r))
    BY <1>2
  <2>2. r \in RowsOf(key) /\ \A q \in RowsOf(key) : Before(q, r)
    BY <1>1, <2>1 DEF LastRead, RowsOf
  <2>3. ASSUME NEW p \in RowsOf(key), \A q \in RowsOf(key) : Before(q, p)
        PROVE  p = r
    <3>1. Before(p, r) /\ Before(r, p)
      BY <2>2, <2>3
    <3>2. /\ p = <<p[1], p[2]>> /\ p[1] \in Nat /\ p[2] \in Nat
          /\ r = <<r[1], r[2]>> /\ r[1] \in Nat /\ r[2] \in Nat
      BY <1>1, PlaceType DEF RowsOf
    <3>3. p[1] = r[1] /\ p[2] = r[2]
      BY <3>1, <3>2 DEF Before
    <3> QED
      BY <3>2, <3>3
  <2>4. LastRow(key) = r
    BY <2>2, <2>3 DEF LastRow
  <2> QED
    BY <2>1, <2>4
<1> QED
  BY <1>1, <1>2, <1>3

(* Whatever rows are repeated in a file or in several, in whatever units,  *)
(* a finished load has of each key the speed of the last row that gives it *)
(* one (segment_speed_map.cpp:58-104, way_speed_map.cpp:54-81).            *)
THEOREM LastRowKept == Spec => []LastRowWins
BY TypesInit, TypesStep, ReadInit, AtRowStep, MapReadStep, AllRead, PTL DEF Spec

(* A load cannot run for ever, whatever the files hold: a row ends in the  *)
(* line it starts in or in a later one of its file, so that each row that  *)
(* is read leaves fewer lines, and each file that is read fewer files.     *)
THEOREM EveryLoadAdvances == Spec => WorkShrinks
<1>1. ASSUME Types, Next PROVE UNCHANGED vars \/ Below(WorkLeft', WorkLeft)
  <2>1. Len(input.files) \in Nat /\ file \in Nat \ {0} /\ line \in Nat \ {0}
    BY <1>1, InputType DEF Types
  <2>2. /\ DOMAIN WorkLeft = 1 .. 4
        /\ \A i \in 1 .. 4 : WorkLeft'[i] \in Nat /\ WorkLeft'[i] < WorkLeft[i]
             /\ (\A k \in 1 .. (i - 1) : WorkLeft'[k] = WorkLeft[k])
             => Below(WorkLeft', WorkLeft)
    <3>1. DOMAIN WorkLeft = 1 .. 4
      BY DEF WorkLeft
    <3> QED
      BY <3>1 DEF Below
  <2>3. CASE OpenFile
    BY <2>2, <2>3 DEF OpenFile, WorkLeft
  <2>4. CASE AddRow
    <3>1. pc = "row" /\ line <= RowEnd(Lines, line) /\ RowEnd(Lines, line) <= Len(Lines)
          /\ RowEnd(Lines, line) \in Nat /\ Len(Lines) \in Nat
      BY <1>1, <2>1, <2>4, InputType, RowEndType DEF AddRow, RowIsNext, Types, Lines, LinesOf
    <3>2. CASE pc' = "failed"
      BY <2>2, <2>4, <3>1, <3>2 DEF AddRow, WorkLeft
    <3>3. CASE pc' = pc /\ line' = RowEnd(Lines, line) + 1
      <4>1. Lines' = Lines
        BY <2>4 DEF AddRow, Lines
      <4> QED
        BY <2>1, <2>2, <2>4, <3>1, <3>3, <4>1 DEF AddRow, WorkLeft
    <3> QED
      BY <2>4, <3>2, <3>3 DEF AddRow
  <2>5. CASE EndFile
    <3>1. pc = "row" /\ file <= Len(input.files)
      BY <1>1, <2>5 DEF EndFile, Types
    <3>2. CASE pc' = "failed"
      BY <2>2, <2>5, <3>1, <3>2 DEF EndFile, WorkLeft
    <3>3. CASE pc' = "file" /\ file' = file + 1
      BY <2>1, <2>2, <2>5, <3>1, <3>3 DEF EndFile, WorkLeft
    <3> QED
      BY <2>5, <3>2, <3>3 DEF EndFile
  <2>6. CASE EndLoad
    BY <2>2, <2>6 DEF EndLoad, WorkLeft
  <2> QED
    BY <1>1, <2>3, <2>4, <2>5, <2>6 DEF Next, Terminated
<1>2. Types /\ [Next]_vars => [Below(WorkLeft', WorkLeft)]_vars
  BY <1>1
<1> QED
  BY <1>2, TypesInit, TypesStep, PTL DEF Spec, WorkShrinks
=============================================================================
