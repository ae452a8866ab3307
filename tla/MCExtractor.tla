----------------------------- MODULE MCExtractor -----------------------------
(***************************************************************************)
(* Small loads for TLC: every choice of three ways out of a pool, the      *)
(* first two in one file and the third in another one, with and without    *)
(* coordinates, for several tag files; and loads that fail on the way.     *)
(***************************************************************************)
EXTENDS Extractor, Samples

MCMph == {" mph", "mph"}
MCClipped == ("long name A" :> "long name") @@ ("long name B" :> "long name")

(* A way of three nodes, one against its direction with a maxspeed without *)
(* digits, one that only a tag rule makes usable, one with a repeated node *)
(* and an id wider than the id types, and one whose maxspeed is out of     *)
(* range.                                                                  *)
Primary == [id |-> 7, nodes |-> <<n1, n2, n3>>,
  tags |-> <<Tag("highway", Plain("primary")), Speed(30, " mph"),
             Tag("name", Plain("long name A"))>>]
Backward == [id |-> 8, nodes |-> <<n3, n2>>,
  tags |-> <<Speed(NoDigits, "walk"), Tag("name", Plain("long name B")),
             Tag("highway", Plain("service"))>>]
House == [id |-> 9, nodes |-> <<n2, n4, n1>>,
  tags |-> <<Tag("building", Plain("yes")), Tag("name", Plain("long name A"))>>]
Loop == [id |-> 1 + 3 * (IdLimit + 1), nodes |-> <<n4, n4, n3>>,
  tags |-> <<Speed(48, ""), Tag("highway", Plain("default"))>>]
Stub == [id |-> 11, nodes |-> <<n4>>, tags |-> <<Tag("highway", Plain("trunk"))>>]
TooFast == [id |-> 12, nodes |-> <<n1, n4>>,
  tags |-> <<Tag("name", Plain("x")), Speed(IntMax + 1, "mph")>>]

MCPool == {Primary, Backward, House, Loop, Stub, TooFast}

(* The second file moves n2.                                               *)
At1 == (n1 :> 0) @@ (n2 :> 3) @@ (n3 :> 20) @@ (n4 :> NoLocation)
At2 == (n1 :> NoLocation) @@ (n2 :> 6) @@ (n3 :> NoLocation) @@ (n4 :> 40)

NoTags == [kind |-> "none", keys |-> {}]
EmptyTags == [kind |-> "present", keys |-> {}]
Tags(keys) == [kind |-> "present", keys |-> keys]

Load(coordinates, tags, files) ==
  [createRTree |-> coordinates, nodesCache |-> TRUE, tagfile |-> tags, files |-> files]

GoodInputs ==
  {Load(c, t, <<File(At1, <<x, y>>), File(At2, <<z>>)>>) :
     c \in BOOLEAN, t \in {NoTags, Tags({"maxspeed", "name"}), Tags({"building", "maxspeed"})},
     x \in MCPool, y \in MCPool, z \in MCPool}

Files2 == <<File(At1, <<Primary, Stub>>), File(At2, <<House, TooFast, Loop>>)>>

BadInputs ==
  {Load(TRUE, [kind |-> "missing", keys |-> {}], Files2),
   Load(FALSE, EmptyTags, Files2),
   Load(TRUE, Tags({"maxspeed"}), Files2),
   [Load(TRUE, NoTags, Files2) EXCEPT !.nodesCache = FALSE],
   [Load(FALSE, NoTags, Files2) EXCEPT !.nodesCache = FALSE],
   [Load(TRUE, NoTags, Files2) EXCEPT !.files[2].readable = FALSE],
   [Load(TRUE, Tags({"name", "building"}), Files2) EXCEPT !.files[1].intact = FALSE]}

SampleInputs == {SampleInput(s, c, NoLocation) : s \in {East, West}, c \in BOOLEAN}

(* Half-way between two nodes, at the limit of a match and next to it, and *)
(* far from all nodes.                                                     *)
MCPoints == {-5, -4, 3, 4, 12, 24, 25, 60}

MCInputs == GoodInputs \cup BadInputs \cup SampleInputs

(* The databases that MCAnnotator serves queries from are those that loads *)
(* of the sample files make.                                               *)
BuildsSamples ==
  \A s \in {East, West}, c \in BOOLEAN :
    pc = "done" /\ input = SampleInput(s, c, NoLocation) => Database = SampleDatabase(s, c)
=============================================================================
