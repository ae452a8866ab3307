---------------------------- MODULE SpeedSamples ----------------------------
(***************************************************************************)
(* Two small lists of CSV files of each format, one that cannot be loaded, *)
(* and the maps they are loaded as.  MCCSVLoader checks that CSVLoader     *)
(* makes these maps of these files; MCSpeedLookup serves queries from them.*)
(***************************************************************************)
EXTENDS Naturals, Integers, Sequences, TLC

CONSTANTS Slow, Fast, Bad

Word(word) == [number |-> -1, rest |-> word]
Number(number) == [number |-> number, rest |-> ""]

Readable(lines) == [readable |-> TRUE, lines |-> lines]
Unreadable == [readable |-> FALSE, lines |-> <<>>]

SegmentRow(from, to, speed) == <<Number(from), Number(to), Number(speed)>>
WayRow(way, unit, speed) == <<Number(way), Word("name"), Word(unit), Number(speed)>>

SampleRow(format, key, speed) ==
  IF format = "segment" THEN SegmentRow(key[1], key[2], speed) ELSE WayRow(key, "", speed)

SampleKeys(format) ==
  IF format = "segment" THEN <<<<1, 2>>, <<2, 1>>>> ELSE <<1, 300>>

(* Slow knows both keys; Fast, two files, knows the first, given twice.    *)
SampleFiles(format) ==
  LET Row(k, speed) == SampleRow(format, SampleKeys(format)[k], speed)
  IN  (Slow :> <<Readable(<<Row(1, 20), Row(2, 254)>>)>>) @@
      (Fast :> <<Readable(<<Row(1, 90)>>), Readable(<<Row(1, 100), Row(2, 255)>>)>>) @@
      (Bad :> <<Readable(<<Row(1, 5)>>), Unreadable>>)

SampleMaps(format) ==
  LET key == SampleKeys(format)
  IN  (Slow :> ((key[1] :> 20) @@ (key[2] :> 254))) @@ (Fast :> (key[1] :> 100))
=============================================================================
