---------------------------- MODULE MCCSVLoader -----------------------------
(***************************************************************************)
(* Small loads for TLC, of either format: every file of up to three lines  *)
(* out of a pool, a file of one line followed by one of up to two or by one*)
(* that cannot be read, and the sample files.                              *)
(***************************************************************************)
EXTENDS CSVLoader, SpeedSamples

SegmentUnitRow(from, to, unit, speed) ==
  <<Number(from), Number(to), Word(unit), Number(speed)>>

(* 318 miles are 512 kilometres, here the first number above the largest   *)
(* uint32_t; in the code 2668768897 miles are such a number.               *)
SegmentLines ==
  {Blank,
   SegmentRow(1, 2, 254),
   SegmentUnitRow(1, 2, "mph", 30),
   SegmentUnitRow(2, 1, "kph", 255),
   SegmentUnitRow(1, 2, "mph", 159),
   SegmentUnitRow(1, 2, "mph", 318),
   <<Number(1), Number(2), Word("mph")>>,
   Append(SegmentRow(2, 1, 30), Number(5)),
   <<Number(2), Word("x"), Number(81)>>}

(* No name, a row without and one with its unit, too few columns of two    *)
(* kinds, one too many, a way id out of range.                             *)
WayLines ==
  {Blank,
   <<Number(1), Word(""), Word("mph"), Number(70)>>,
   WayRow(300, "", 254),
   WayRow(1, "mph", 159),
   WayRow(1, "mph", 318),
   WayRow(UintMax + 1, "kph", 50),
   <<Number(1), Word("name")>>,
   <<Number(300), Word("kph"), Number(30)>>,
   Append(WayRow(1, "kph", 30), Number(5))}

Pool(format) == IF format = "segment" THEN SegmentLines ELSE WayLines

LinesUpTo(format, n) == UNION {[1 .. k -> Pool(format)] : k \in 1 .. n} \ {<<Blank>>}

FilesOf(format) ==
  {<<Readable(lines)>> : lines \in LinesUpTo(format, 3)}
    \cup {<<Readable(first), Readable(second)>> :
            first \in LinesUpTo(format, 1), second \in LinesUpTo(format, 2)}
    \cup {<<Readable(lines), Unreadable>> : lines \in LinesUpTo(format, 1)}
    \cup {SampleFiles(format)[s] : s \in {Slow, Fast, Bad}}

MCInputs ==
  UNION {[format : {format}, files : FilesOf(format)] : format \in {"segment", "way"}}

(* The maps that MCSpeedLookup serves queries from are those that loads of *)
(* the sample files make; the bad files make none.                         *)
BuildsMaps ==
  /\ \A s \in {Slow, Fast} :
       pc = "done" /\ input.files = SampleFiles(input.format)[s] =>
         annotations = SampleMaps(input.format)[s]
  /\ input.files = SampleFiles(input.format)[Bad] => pc # "done"
=============================================================================
