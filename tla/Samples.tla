------------------------------- MODULE Samples -------------------------------
(***************************************************************************)
(* Two small extracts, and the databases they are loaded as.  MCExtractor  *)
(* checks that Extractor makes these databases of these inputs; MCAnnotator*)
(* serves queries from them.                                               *)
(***************************************************************************)
EXTENDS Naturals, Integers, Sequences, TLC

CONSTANTS n1, n2, n3, n4, East, West

Word(word) == [number |-> -1, rest |-> word]
Number(number) == [number |-> number, rest |-> ""]
Tag(key, value) == [key |-> key, value |-> value]
Speed(number, rest) == Tag("maxspeed", [number |-> number, rest |-> rest])
Residential == Tag("highway", Word("residential"))

File(at, ways) == [readable |-> TRUE, intact |-> TRUE, at |-> at, ways |-> ways]

(* The file gives n4 no location.                                          *)
SampleAt(nowhere) == (n1 :> 0) @@ (n2 :> 8) @@ (n3 :> 16) @@ (n4 :> nowhere)

SampleWays ==
  (East :> <<[id |-> 10, nodes |-> <<n2, n3>>, tags |-> <<Speed(31, " mph"), Residential>>],
             [id |-> 11, nodes |-> <<n1, n2>>, tags |-> <<Residential>>]>>) @@
  (West :> <<[id |-> 20, nodes |-> <<n4, n1, n2>>, tags |-> <<Residential>>],
             [id |-> 22, nodes |-> <<n4, n1>>, tags |-> <<Residential>>],
             [id |-> 21, nodes |-> <<n2, n3>>,
              tags |-> <<Speed(50, ""), Residential, Tag("name", Word("West"))>>]>>)

SampleInput(s, coordinates, nowhere) ==
  [createRTree |-> coordinates, nodesCache |-> TRUE,
   tagfile |-> [kind |-> "present", keys |-> {"maxspeed", "name"}],
   files |-> <<File(SampleAt(nowhere), SampleWays[s])>>]

(* West has one way more than East, so that its last way is no way of East.*)
(* In West n4 comes first; a load with coordinates skips it, which moves   *)
(* the ids of the others and drops the pair it is in.                      *)
SampleNodes(s, coordinates) ==
  IF s = East THEN (n2 :> 0) @@ (n3 :> 1) @@ (n1 :> 2)
  ELSE IF coordinates THEN (n1 :> 0) @@ (n2 :> 1) @@ (n3 :> 2)
  ELSE (n4 :> 0) @@ (n1 :> 1) @@ (n2 :> 2) @@ (n3 :> 3)

StoredAs(id, forward) == [id |-> id, forward |-> forward]

SamplePairs(s, coordinates) ==
  IF s = East
    THEN (<<0, 1>> :> StoredAs(0, TRUE)) @@ (<<0, 2>> :> StoredAs(1, FALSE))
  ELSE IF coordinates
    THEN (<<0, 1>> :> StoredAs(0, TRUE)) @@ (<<1, 2>> :> StoredAs(2, TRUE))
  ELSE (<<0, 1>> :> StoredAs(0, TRUE)) @@ (<<1, 2>> :> StoredAs(0, TRUE))
         @@ (<<2, 3>> :> StoredAs(2, TRUE))

SampleTree(s, coordinates) ==
  [null |-> ~coordinates,
   values |-> IF ~coordinates THEN {}
              ELSE IF s = East THEN {<<0, 2>>, <<8, 0>>, <<16, 1>>}
              ELSE {<<0, 0>>, <<8, 1>>, <<16, 2>>}]

Both(first, second) == [first |-> first, second |-> second]

SampleDatabase(s, coordinates) ==
  [external_internal_map |-> SampleNodes(s, coordinates),
   pair_way_map |-> SamplePairs(s, coordinates),
   way_tag_ranges |-> IF s = East THEN <<Both(0, 1), Both(1, 1)>>
                                  ELSE <<Both(0, 0), Both(0, 0), Both(0, 2)>>,
   key_value_pairs |-> IF s = East THEN <<Both(0, 1)>>
                                   ELSE <<Both(0, 1), Both(2, 3)>>,
   strings |-> IF s = East THEN <<Word("maxspeed"), Number(50)>>
               ELSE <<Word("maxspeed"), Number(50), Word("name"), Word("West")>>,
   internal_to_external_way_id_map |-> IF s = East THEN <<10, 11>> ELSE <<20, 22, 21>>,
   rtree |-> SampleTree(s, coordinates)]
=============================================================================
