----------------------- MODULE ExtractorAnswersProofs -----------------------
(***************************************************************************)
(* For any list of files, tag file and limits: a load keeps for each way   *)
(* the tags and the id of that way, and a finished load answers every      *)
(* question about two nodes as the files do; with coordinates its tree     *)
(* holds each node where it was first put, and it answers questions about  *)
(* two coordinates as the files do.                                        *)
(***************************************************************************)
EXTENDS ExtractorProofs

(* How far a load is: the ways whose pairs have all been read, the ways    *)
(* whose tags have been stored, and the pairs that have been read.         *)

Reading == pc \in {"way", "tags", "pairs"}
Here == <<file, way>>

Past(p) == p[1] < file \/ (Reading /\ p[1] = file /\ p[2] < way)

Numbered == {p \in UsableWays(input) : Past(p) \/ (pc = "pairs" /\ p = Here)}

Passed(p, k) == Past(p) \/ (pc = "pairs" /\ p = Here /\ k < step)

Seen(p, n, m) ==
  \E k \in 1 .. (Len(WayAt(input, p).nodes) - 1) :
    Passed(p, k) /\ LinkedAt(input, p, k, n, m)

FirstSeen(p, n, m) ==
  /\ p \in UsableWays(input) /\ Seen(p, n, m)
  /\ \A q \in UsableWays(input) : Seen(q, n, m) => q = p \/ Before(p, q)

(* Bounds on the position that hold until the load fails.                  *)
Bounds ==
  pc # "failed" =>
    /\ file <= Len(Files) + 1
    /\ pc = "tags" => step <= Len(CurrentWay.tags) + 1
    /\ pc = "pairs" => step <= Len(CurrentWay.nodes)

(* The ways are numbered in the order they are read.                       *)
CountInv ==
  pc # "failed" =>
    IsFiniteSet(Numbered) /\ Cardinality(Numbered) = Len(way_tag_ranges)

(* Where the tags of the way being read begin, and those stored already.   *)
LastTag ==
  IF Len(way_tag_ranges) = 0 THEN 0 ELSE way_tag_ranges[Len(way_tag_ranges)].second

TagsInv ==
  /\ pc \notin {"tags", "failed"} => Len(key_value_pairs) = LastTag
  /\ pc = "tags" =>
       /\ tagstart = LastTag
       /\ Len(key_value_pairs) = tagstart + TagNo(input, CurrentWay.tags, step - 1)
       /\ HoldsTags(input, Database, tagstart, CurrentWay.tags, step - 1)

(* The nodes that have an id, while a file is read and between two files.  *)
MetBefore == NodesMet(input)[file - 1]

MetInWays(node) ==
  \E w \in DOMAIN CurrentFile.ways :
    LET nodes == CurrentFile.ways[w].nodes
    IN  /\ w < way /\ Accepted(input, CurrentFile.ways[w])
        /\ node \in MetOn(input, file, MetBefore, nodes, Len(nodes))

MetHere(node) ==
  \/ MetInWays(node)
  \/ pc = "pairs" /\ node \in MetOn(input, file, MetBefore, CurrentWay.nodes, step)

MetInv ==
  /\ pc \in {"start", "file", "done"} => DOMAIN external_internal_map = MetBefore
  /\ Reading =>
       /\ MetBefore \subseteq Node
       /\ \A node \in Node :
            node \in DOMAIN external_internal_map <=> node \in MetBefore \/ MetHere(node)

(* The map shows, for each pair that was linked, the first way that did.   *)
Key(n, m) == PairKey(external_internal_map[n], external_internal_map[m])

Shown(n, m) ==
  /\ n \in DOMAIN external_internal_map /\ m \in DOMAIN external_internal_map
  /\ Key(n, m) \in DOMAIN pair_way_map

FirstInv ==
  pc # "failed" =>
    \A n, m \in Node :
      /\ Shown(n, m) => \E p : FirstSeen(p, n, m) /\ pair_way_map[Key(n, m)].id = IdOf(input, p)
      /\ \A p \in UsableWays(input) : Seen(p, n, m) => Shown(n, m)

-----------------------------------------------------------------------------
(* Places.                                                                 *)

LEMMA UsableFacts ==
  ASSUME input \in Inputs, NEW p \in UsableWays(input)
  PROVE  /\ p = <<p[1], p[2]>>
         /\ p[1] \in DOMAIN Files /\ p[1] \in Nat \ {0}
         /\ p[2] \in DOMAIN Files[p[1]].ways /\ p[2] \in Nat \ {0}
         /\ WayAt(input, p) = Files[p[1]].ways[p[2]] /\ WayAt(input, p) \in OSMWay
         /\ Accepted(input, WayAt(input, p)) /\ Len(WayAt(input, p).nodes) > 1
<1>1. PICK f \in DOMAIN Files :
        p \in {<<f, w>> : w \in {k \in DOMAIN Files[f].ways : Accepted(input, WayAt(input, <<f, k>>))}}
  BY DEF UsableWays, Files
<1>2. PICK w \in DOMAIN Files[f].ways : p = <<f, w>> /\ Accepted(input, WayAt(input, <<f, w>>))
  BY <1>1
<1>3. p[1] = f /\ p[2] = w
  BY <1>2
<1>4. f \in Nat \ {0} /\ Files[f] \in OSMFile
  BY InputFacts
<1>5. w \in Nat \ {0} /\ Files[f].ways[w] \in OSMWay
  BY <1>2, <1>4, FileFacts
<1>6. WayAt(input, p) = Files[f].ways[w]
  BY <1>3 DEF WayAt, Files
<1> QED
  BY <1>2, <1>3, <1>4, <1>5, <1>6 DEF Accepted, Usable

LEMMA PlaceOfUsable ==
  ASSUME NEW f \in DOMAIN Files, NEW w \in DOMAIN Files[f].ways,
         Accepted(input, Files[f].ways[w])
  PROVE  <<f, w>> \in UsableWays(input)
<1>1. Accepted(input, WayAt(input, <<f, w>>))
  BY DEF WayAt, Files
<1>2. <<f, w>> \in {<<f, k>> : k \in {l \in DOMAIN Files[f].ways :
                                        Accepted(input, WayAt(input, <<f, l>>))}}
  BY <1>1
<1> QED
  BY <1>2 DEF UsableWays, Files

(* The way being read is usable, and the one that is skipped is not.       *)
LEMMA HereFacts ==
  ASSUME Position
  PROVE  /\ InWay => Here \in UsableWays(input) /\ WayAt(input, Here) = CurrentWay
         /\ pc = "way" => (Here \in UsableWays(input)
                             => way <= Len(CurrentFile.ways) /\ Usable(tags_filter, CurrentWay))
<1>1. ASSUME InWay PROVE Here \in UsableWays(input) /\ WayAt(input, Here) = CurrentWay
  <2>1. file \in DOMAIN Files /\ CurrentFile = Files[file] /\ way \in DOMAIN CurrentFile.ways
    BY <1>1, CurrentWayFacts
  <2>2. Accepted(input, CurrentWay)
    BY <1>1 DEF Position, InWay, Accepted
  <2> QED
    BY <2>1, <2>2, PlaceOfUsable DEF Here, WayAt, CurrentWay, CurrentFile, Files
<1>2. ASSUME pc = "way", Here \in UsableWays(input)
      PROVE  way <= Len(CurrentFile.ways) /\ Usable(tags_filter, CurrentWay)
  <2>1. Here[1] = file /\ Here[2] = way
    BY DEF Here
  <2>2. /\ file \in DOMAIN Files /\ way \in DOMAIN Files[file].ways
        /\ Accepted(input, Files[file].ways[way])
    BY <1>2, <2>1, UsableFacts DEF Position
  <2>3. Files[file] = CurrentFile /\ Files[file].ways[way] = CurrentWay
    BY DEF Files, CurrentFile, CurrentWay
  <2>4. way <= Len(CurrentFile.ways)
    BY <2>2, <2>3, InputFacts, FileFacts DEF Position
  <2> QED
    BY <1>2, <2>2, <2>3, <2>4 DEF Accepted, Position
<1> QED
  BY <1>1, <1>2

LEMMA InitBounds == Init => Bounds
BY InputFacts DEF Init, Bounds

LEMMA NextBounds == Position /\ Bounds /\ [Next]_vars => Bounds'
<1> SUFFICES ASSUME Position, Bounds, [Next]_vars PROVE Bounds'
  OBVIOUS
<1>0. /\ Len(Files) \in Nat /\ input' = input
      /\ InWay => /\ Len(CurrentWay.nodes) \in Nat /\ Len(CurrentWay.tags) \in Nat
                  /\ Len(CurrentWay.nodes) > 1
  BY InputFacts, CurrentWayFacts, WayFacts, Touches DEF Position, Usable
<1> USE DEF Bounds, Position, InWay, Files, CurrentFile, CurrentWay, Fail
<1>1. CASE ReadTagFile
  BY <1>1 DEF ReadTagFile
<1>2. CASE OpenFile
  BY <1>2 DEF OpenFile
<1>3. CASE StartWay
  <2>1. Len(CurrentWay.tags) \in Nat
    BY <1>3, CurrentWayFacts, WayFacts DEF StartWay
  <2> QED
    BY <1>3, <2>1 DEF StartWay, SkipWay
<1>4. CASE EndFile
  BY <1>0, <1>4 DEF EndFile
<1>5. CASE StoreTag
  BY <1>0, <1>5 DEF StoreTag
<1>6. CASE FailTag
  BY <1>6 DEF FailTag
<1>7. CASE EndTags
  BY <1>0, <1>7 DEF EndTags
<1>8. CASE StorePair
  BY <1>0, <1>8 DEF StorePair
<1>9. CASE EndWay
  BY <1>9 DEF EndWay
<1>10. CASE SetupDatabase
  BY <1>10 DEF SetupDatabase
<1>11. CASE UNCHANGED vars
  BY <1>11 DEF vars, position
<1> QED
  BY <1>1, <1>2, <1>3, <1>4, <1>5, <1>6, <1>7, <1>8, <1>9, <1>10, <1>11 DEF Next, Terminated

(* A way is past when its last pair has been read.                         *)
LEMMA PastSteps ==
  ASSUME Position, Bounds, [Next]_vars, pc' # "failed", NEW p \in UsableWays(input)
  PROVE  Past(p)' <=> Past(p) \/ (EndWay /\ p = Here)
<1>1. /\ p = <<p[1], p[2]>> /\ p[1] \in Nat \ {0} /\ p[2] \in Nat \ {0}
      /\ p[1] <= Len(Files) /\ Len(Files) \in Nat
      /\ (p[1] = file => p[2] <= Len(CurrentFile.ways) /\ Len(CurrentFile.ways) \in Nat)
  BY UsableFacts, InputFacts, FileFacts DEF Position, CurrentFile, Files
<1>2. EndWay => pc = "pairs" /\ pc' = "way"
  BY DEF EndWay
<1> USE DEF Past, Reading, Fail
<1>3. CASE ReadTagFile
  BY <1>2, <1>3 DEF ReadTagFile
<1>4. CASE OpenFile
  BY <1>1, <1>2, <1>4 DEF OpenFile
<1>5. CASE StartWay
  <2>1. CASE pc' = "tags"
    BY <1>2, <1>5, <2>1 DEF StartWay, SkipWay
  <2>2. CASE pc' # "tags"
    <3>1. pc = "way" /\ pc' = "way" /\ file' = file /\ way' = way + 1 /\ p # Here
      BY <1>5, <2>2, HereFacts DEF StartWay, SkipWay
    <3>2. p[1] = file => p[2] # way
      BY <1>1, <3>1 DEF Here
    <3> QED
      BY <1>1, <1>2, <3>1, <3>2 DEF Position
  <2> QED
    BY <2>1, <2>2
<1>6. CASE EndFile
  BY <1>1, <1>2, <1>6 DEF EndFile, Position
<1>7. CASE StoreTag
  BY <1>2, <1>7 DEF StoreTag
<1>8. CASE FailTag
  BY <1>2, <1>8 DEF FailTag
<1>9. CASE EndTags
  BY <1>2, <1>9 DEF EndTags
<1>10. CASE StorePair
  BY <1>2, <1>10 DEF StorePair
<1>11. CASE EndWay
  <2>1. pc = "pairs" /\ pc' = "way" /\ file' = file /\ way' = way + 1
    BY <1>11 DEF EndWay
  <2>2. p = Here <=> p[1] = file /\ p[2] = way
    BY <1>1 DEF Here
  <2> QED
    BY <1>1, <1>11, <2>1, <2>2 DEF Position
<1>12. CASE SetupDatabase
  BY <1>2, <1>12 DEF SetupDatabase
<1>13. CASE UNCHANGED vars
  BY <1>2, <1>13 DEF vars, position
<1> QED
  BY <1>3, <1>4, <1>5, <1>6, <1>7, <1>8, <1>9, <1>10, <1>11, <1>12, <1>13 DEF Next, Terminated

LEMMA FailedStays == [Next]_vars /\ pc = "failed" => pc' = "failed"
BY DEF vars, position, Next, ReadTagFile, OpenFile, StartWay, EndFile, StoreTag, FailTag,
       EndTags, StorePair, EndWay, SetupDatabase, Terminated

LEMMA PairsSteps ==
  ASSUME [Next]_vars, pc = "pairs"
  PROVE  \/ EndWay
         \/ StorePair /\ pc' = "pairs" /\ Here' = Here /\ step' = step + 1
         \/ UNCHANGED vars
<1>1. StorePair => pc' = "pairs" /\ Here' = Here /\ step' = step + 1
  BY DEF StorePair, Here
<1> QED
  BY <1>1 DEF Next, ReadTagFile, OpenFile, StartWay, EndFile, StoreTag, FailTag,
              EndTags, SetupDatabase, Terminated

(* Of the pairs only the one of StorePair is read in a step.               *)
LEMMA PassedSteps ==
  ASSUME Position, Bounds, [Next]_vars, pc' # "failed",
         NEW p \in UsableWays(input), NEW k \in 1 .. (Len(WayAt(input, p).nodes) - 1)
  PROVE  Passed(p, k)' <=> Passed(p, k) \/ (StorePair /\ p = Here /\ k = step)
<1>1. Past(p)' <=> Past(p) \/ (EndWay /\ p = Here)
  BY PastSteps
<1>2. k \in Nat \ {0} /\ Len(WayAt(input, p).nodes) \in Nat /\ step \in Nat \ {0}
  BY UsableFacts, WayFacts DEF Position
<1>3. CASE pc = "pairs" /\ EndWay
  <2>1. p = Here => k < step
    <3>1. p = Here => WayAt(input, p) = CurrentWay
      BY <1>3, HereFacts DEF InWay
    <3> QED
      BY <1>2, <1>3, <3>1 DEF EndWay
  <2>2. pc' # "pairs" /\ ~StorePair
    BY <1>3 DEF EndWay, StorePair
  <2> QED
    BY <1>1, <1>3, <2>1, <2>2 DEF Passed
<1>4. CASE StorePair
  <2>1. pc = "pairs" /\ pc' = "pairs" /\ Here' = Here /\ step' = step + 1 /\ ~EndWay
    BY <1>4 DEF StorePair, EndWay, Here
  <2> QED
    BY <1>1, <1>2, <1>4, <2>1 DEF Passed
<1>5. CASE pc = "pairs" /\ UNCHANGED vars
  <2>1. ~StorePair /\ ~EndWay /\ pc' = pc /\ Here' = Here /\ step' = step
    BY <1>2, <1>5 DEF vars, position, StorePair, EndWay, Here
  <2> QED
    BY <1>1, <2>1 DEF Passed
<1>6. CASE pc # "pairs"
  <2>1. ~EndWay /\ ~StorePair
    BY <1>6 DEF EndWay, StorePair
  <2>2. pc' = "pairs" => step' = 1
    BY <1>6, Touches DEF EndTags
  <2> QED
    BY <1>1, <1>2, <1>6, <2>1, <2>2 DEF Passed
<1> QED
  BY <1>3, <1>4, <1>5, <1>6, PairsSteps

-----------------------------------------------------------------------------
(* The numbers of the ways.                                                *)

LEMMA NumberedSteps ==
  ASSUME Position, Bounds, [Next]_vars, pc' # "failed"
  PROVE  /\ ~EndTags => Numbered' = Numbered
         /\ EndTags => Numbered' = Numbered \cup {Here} /\ Here \notin Numbered
<1>1. input' = input
  BY Touches
<1>2. \A p \in UsableWays(input) : Past(p)' <=> Past(p) \/ (EndWay /\ p = Here)
  BY PastSteps
<1>3. CASE EndTags
  <2>1. pc = "tags" /\ pc' = "pairs" /\ Here' = Here /\ ~EndWay
    BY <1>3 DEF EndTags, EndWay, Here
  <2>2. Here \in UsableWays(input)
    BY <2>1, HereFacts DEF InWay
  <2>3. ~Past(Here)
    BY DEF Past, Here, Position
  <2> QED
    BY <1>1, <1>2, <1>3, <2>1, <2>2, <2>3 DEF Numbered
<1>4. CASE ~EndTags
  <2>1. \A p \in UsableWays(input) :
          Past(p)' \/ (pc' = "pairs" /\ p = Here') <=> Past(p) \/ (pc = "pairs" /\ p = Here)
    <3>1. CASE pc = "pairs" /\ EndWay
      <4>1. pc' # "pairs"
        BY <3>1 DEF EndWay
      <4> QED
        BY <1>2, <3>1, <4>1
    <3>2. CASE pc = "pairs" /\ ~EndWay
      <4>1. pc' = "pairs" /\ Here' = Here
        BY <3>2, PairsSteps DEF vars, position, Here
      <4> QED
        BY <1>2, <3>2, <4>1
    <3>3. CASE pc # "pairs"
      <4>1. pc' # "pairs" /\ ~EndWay
        BY <1>4, <3>3, Touches DEF EndWay
      <4> QED
        BY <1>2, <3>3, <4>1
    <3> QED
      BY <3>1, <3>2, <3>3
  <2> QED
    BY <1>1, <1>4, <2>1 DEF Numbered
<1> QED
  BY <1>3, <1>4

LEMMA InitCount == Init => CountInv
<1> SUFFICES ASSUME Init PROVE IsFiniteSet(Numbered) /\ Cardinality(Numbered) = Len(way_tag_ranges)
  BY DEF CountInv
<1>1. input \in Inputs /\ pc = "start" /\ file = 1 /\ way_tag_ranges = <<>>
  BY DEF Init
<1>2. \A p \in UsableWays(input) : ~Past(p)
  BY <1>1, UsableFacts DEF Past, Reading
<1>3. Numbered = {}
  BY <1>1, <1>2 DEF Numbered
<1> QED
  BY <1>1, <1>3, FS_EmptySet

LEMMA NextCount ==
  Position /\ Bounds /\ TextsInv /\ WaysInv /\ CountInv /\ [Next]_vars => CountInv'
<1> SUFFICES ASSUME Position, Bounds, TextsInv, WaysInv, CountInv, [Next]_vars, pc' # "failed"
             PROVE  IsFiniteSet(Numbered') /\ Cardinality(Numbered') = Len(way_tag_ranges')
  BY DEF CountInv
<1>1. IsFiniteSet(Numbered) /\ Cardinality(Numbered) = Len(way_tag_ranges)
  BY FailedStays DEF CountInv
<1>2. CASE EndTags
  <2>1. Numbered' = Numbered \cup {Here} /\ Here \notin Numbered
    BY <1>2, NumberedSteps
  <2>2. Len(way_tag_ranges') = Len(way_tag_ranges) + 1
    BY <1>2, EndTagsStep
  <2>3. IsFiniteSet(Numbered') /\ Cardinality(Numbered') = Cardinality(Numbered) + 1
    BY <1>1, <2>1, FS_AddElement
  <2> QED
    BY <1>1, <2>2, <2>3
<1>3. CASE ~EndTags
  BY <1>1, <1>3, NumberedSteps, Touches DEF wayTables
<1> QED
  BY <1>2, <1>3

(* While the pairs of a way are read its id is that of the last range.     *)
LEMMA IdOfHere ==
  ASSUME Position, CountInv, pc = "tags" \/ pc = "pairs"
  PROVE  /\ IdOf(input, Here) \in Nat
         /\ pc = "tags" => IdOf(input, Here) = Len(way_tag_ranges)
         /\ pc = "pairs" => IdOf(input, Here) = WayId
<1> DEFINE earlier == {q \in UsableWays(input) : Before(q, Here)}
<1>1. IsFiniteSet(Numbered) /\ Cardinality(Numbered) = Len(way_tag_ranges)
  BY DEF CountInv
<1>2. \A q \in UsableWays(input) : Before(q, Here) <=> Past(q)
  BY DEF Before, Past, Reading, Here
<1>3. Here \in UsableWays(input) /\ ~Past(Here)
  BY HereFacts DEF InWay, Past, Here, Position
<1>4. earlier = Numbered \ {Here}
  BY <1>2, <1>3 DEF Numbered
<1>5. pc = "tags" => Here \notin Numbered
  BY <1>3 DEF Numbered
<1>6. pc = "pairs" => Here \in Numbered
  BY <1>3 DEF Numbered
<1>7. IsFiniteSet(earlier) /\ Cardinality(earlier) \in Nat
      /\ Cardinality(earlier) = IF Here \in Numbered THEN Cardinality(Numbered) - 1
                                ELSE Cardinality(Numbered)
  <2>1. /\ IsFiniteSet(Numbered \ {Here})
        /\ Cardinality(Numbered \ {Here}) = IF Here \in Numbered THEN Cardinality(Numbered) - 1
                                            ELSE Cardinality(Numbered)
    BY <1>1, FS_RemoveElement
  <2> HIDE DEF earlier
  <2> QED
    BY <1>4, <2>1, FS_CardinalityType
<1> QED
  BY <1>1, <1>5, <1>6, <1>7 DEF IdOf, WayId

-----------------------------------------------------------------------------
(* The tags of the ways.                                                   *)

WayHeld(i, p) ==
  LET w == WayAt(input, p)
      range == way_tag_ranges[i]
  IN  /\ IdOf(input, p) = i - 1
      /\ range.second - range.first = TagNo(input, w.tags, Len(w.tags))
      /\ HoldsTags(input, Database, range.first, w.tags, Len(w.tags))
      /\ internal_to_external_way_id_map[i] = w.id % (IdLimit + 1)

SlicesInv ==
  \A i \in 1 .. Len(way_tag_ranges) :
    /\ \E p \in UsableWays(input) : WayHeld(i, p)
    /\ way_tag_ranges[i].first = IF i = 1 THEN 0 ELSE way_tag_ranges[i - 1].second

LEMMA TagNoType ==
  ASSUME NEW load, NEW tags, NEW i \in Nat
  PROVE  /\ TagNo(load, tags, i) \in Nat
         /\ IsFiniteSet({j \in 1 .. i : Reported(load, tags[j])})
<1>1. IsFiniteSet(1 .. i)
  BY FS_Interval
<1>2. IsFiniteSet({j \in 1 .. i : Reported(load, tags[j])})
  BY <1>1, FS_Subset
<1> QED
  BY <1>2, FS_CardinalityType DEF TagNo

LEMMA TagNoZero ==
  ASSUME NEW load, NEW tags
  PROVE  TagNo(load, tags, 0) = 0
<1>1. {j \in 1 .. 0 : Reported(load, tags[j])} = {}
  OBVIOUS
<1> QED
  BY <1>1, FS_EmptySet DEF TagNo

LEMMA TagNoNext ==
  ASSUME NEW load, NEW tags, NEW i \in Nat
  PROVE  TagNo(load, tags, i + 1)
           = IF Reported(load, tags[i + 1]) THEN TagNo(load, tags, i) + 1 ELSE TagNo(load, tags, i)
<1> DEFINE S == {j \in 1 .. i : Reported(load, tags[j])}
           T == {j \in 1 .. (i + 1) : Reported(load, tags[j])}
<1>1. IsFiniteSet(S) /\ i + 1 \notin S
  <2>1. i + 1 \notin S
    OBVIOUS
  <2> QED
    BY <2>1, TagNoType
<1>2. CASE Reported(load, tags[i + 1])
  <2>1. T = S \cup {i + 1}
    BY <1>2
  <2>2. Cardinality(S \cup {i + 1}) = Cardinality(S) + 1
    <3> HIDE DEF S
    <3> QED
      BY <1>1, FS_AddElement
  <2> QED
    BY <1>2, <2>1, <2>2 DEF TagNo
<1>3. CASE ~Reported(load, tags[i + 1])
  <2>1. T = S
    BY <1>3
  <2> QED
    BY <1>3, <2>1 DEF TagNo
<1> QED
  BY <1>2, <1>3

LEMMA TagNoOrder ==
  ASSUME NEW load, NEW tags, NEW n \in Nat, NEW i \in 1 .. n, Reported(load, tags[i])
  PROVE  TagNo(load, tags, i) \in 1 .. TagNo(load, tags, n)
<1> DEFINE S == {j \in 1 .. i : Reported(load, tags[j])}
           T == {j \in 1 .. n : Reported(load, tags[j])}
<1>1. IsFiniteSet(S) /\ IsFiniteSet(T) /\ S \subseteq T /\ i \in S
  BY TagNoType
<1> HIDE DEF S, T
<1>2. Cardinality(S) <= Cardinality(T) /\ Cardinality(S) # 0
  BY <1>1, FS_Subset, FS_EmptySet
<1>3. TagNo(load, tags, i) = Cardinality(S) /\ TagNo(load, tags, n) = Cardinality(T)
  BY DEF TagNo, S, T
<1> QED
  BY <1>1, <1>2, <1>3, FS_CardinalityType

(* The text behind one field of an entry does not change.                  *)
LEMMA TextKept ==
  ASSUME Position, TextsInv, [Next]_vars, NEW index \in 0 .. (Len(key_value_pairs) - 1)
  PROVE  /\ get_tag_key(Database', index) = get_tag_key(Database, index)
         /\ get_tag_value(Database', index) = get_tag_value(Database, index)
<1> DEFINE entry == key_value_pairs[index + 1]
<1>1. /\ Len(key_value_pairs) \in Nat /\ DOMAIN key_value_pairs = 1 .. Len(key_value_pairs)
      /\ Len(strings) \in Nat /\ DOMAIN strings = 1 .. Len(strings)
  BY LenProperties DEF TextsInv
<1>2. index + 1 \in 1 .. Len(key_value_pairs)
  BY <1>1
<1>3. entry \in Entry /\ entry.first < Len(strings) /\ entry.second < Len(strings)
  BY <1>2, ElementOfSeq DEF TextsInv
<1>4. entry.first + 1 \in DOMAIN strings /\ entry.second + 1 \in DOMAIN strings
  BY <1>1, <1>3 DEF Entry
<1>5. key_value_pairs'[index + 1] = entry
  BY <1>1, <1>2, TagsGrow DEF Keeps
<1>6. /\ strings'[entry.first + 1] = strings[entry.first + 1]
      /\ strings'[entry.second + 1] = strings[entry.second + 1]
  BY <1>4, TagsGrow DEF Keeps
<1> QED
  BY <1>5, <1>6 DEF get_tag_key, get_tag_value, getstring, Database

LEMMA HoldsTagsKept ==
  ASSUME Position, TextsInv, [Next]_vars, NEW first \in Nat, NEW tags, NEW n \in Nat,
         first + TagNo(input, tags, n) <= Len(key_value_pairs),
         HoldsTags(input, Database, first, tags, n)
  PROVE  HoldsTags(input, Database', first, tags, n)
<1> SUFFICES ASSUME NEW i \in 1 .. n, Reported(input, tags[i]),
                    NEW index, index = first + TagNo(input, tags, i) - 1
             PROVE  /\ get_tag_key(Database', index) = Clip(Plain(tags[i].key))
                    /\ get_tag_value(Database', index) = Clip(StoredValue(tags[i]))
  BY DEF HoldsTags
<1>1. index \in 0 .. (Len(key_value_pairs) - 1)
  <2>1. TagNo(input, tags, i) \in 1 .. TagNo(input, tags, n) /\ TagNo(input, tags, n) \in Nat
    BY TagNoOrder, TagNoType
  <2>2. Len(key_value_pairs) \in Nat
    BY TagsGrow
  <2> QED
    BY <2>1, <2>2
<1>2. /\ get_tag_key(Database, index) = Clip(Plain(tags[i].key))
      /\ get_tag_value(Database, index) = Clip(StoredValue(tags[i]))
  BY DEF HoldsTags
<1> QED
  BY <1>1, <1>2, TextKept

LEMMA LastTagType ==
  ASSUME WaysInv
  PROVE  Len(way_tag_ranges) \in Nat /\ LastTag \in Nat
<1>1. Len(way_tag_ranges) \in Nat
  BY LenProperties DEF WaysInv
<1>2. CASE Len(way_tag_ranges) # 0
  <2>1. way_tag_ranges[Len(way_tag_ranges)] \in Entry
    BY <1>1, <1>2, ElementOfSeq DEF WaysInv
  <2> QED
    BY <1>1, <1>2, <2>1 DEF LastTag, Entry
<1> QED
  BY <1>1, <1>2 DEF LastTag

(* The tag that is looked at becomes the next entry, or is left out.       *)
LEMMA NextTag ==
  ASSUME Position, TextsInv, StoreTag, [Next]_vars, NEW n, n = Len(key_value_pairs)
  PROVE  IF Reported(input, CurrentTag)
           THEN /\ Len(key_value_pairs') = n + 1
                /\ get_tag_key(Database', n) = Clip(Plain(CurrentTag.key))
                /\ get_tag_value(Database', n) = Clip(StoredValue(CurrentTag))
           ELSE Len(key_value_pairs') = n
<1>1. pc = "tags" /\ (Reported(input, CurrentTag) <=> Stored(tags_filter, CurrentTag))
  BY DEF StoreTag, Position, Reported
<1>2. CASE Reported(input, CurrentTag)
  <2>1. StoreEntry(Plain(CurrentTag.key), StoredValue(CurrentTag))
    BY <1>1, <1>2 DEF StoreTag
  <2>2. Plain(CurrentTag.key) \in Text /\ StoredValue(CurrentTag) \in Text
    BY CurrentTagType, StoredValueType DEF StoreTag
  <2>3. /\ Len(key_value_pairs') = n + 1
        /\ strings'[key_value_pairs'[n + 1].first + 1] = Clip(Plain(CurrentTag.key))
        /\ strings'[key_value_pairs'[n + 1].second + 1] = Clip(StoredValue(CurrentTag))
    BY <1>1, <2>1, <2>2, EntryStep
  <2> QED
    BY <1>2, <2>3 DEF get_tag_key, get_tag_value, getstring, Database
<1>3. CASE ~Reported(input, CurrentTag)
  BY <1>1, <1>3 DEF StoreTag, tagTables
<1> QED
  BY <1>2, <1>3

LEMMA StoreTagStep ==
  ASSUME Position, TextsInv, WaysInv, TagsInv, StoreTag, [Next]_vars
  PROVE  /\ Len(key_value_pairs') = tagstart + TagNo(input, CurrentWay.tags, step)
         /\ HoldsTags(input, Database', tagstart, CurrentWay.tags, step)
<1> DEFINE tags == CurrentWay.tags
           n == Len(key_value_pairs)
           before == TagNo(input, tags, step - 1)
<1>1. /\ tagstart \in Nat /\ step \in Nat /\ step - 1 \in Nat /\ step = step - 1 + 1
      /\ n \in Nat /\ n = tagstart + before
      /\ HoldsTags(input, Database, tagstart, tags, step - 1)
  <2>1. pc = "tags" /\ step \in Nat \ {0}
    BY DEF StoreTag, Position
  <2>2. tagstart = LastTag /\ tagstart \in Nat
    BY <2>1, LastTagType DEF TagsInv
  <2> QED
    BY <2>1, <2>2, TagsGrow DEF TagsInv
<1>2. tags[step] = CurrentTag
  BY DEF CurrentTag
<1>3. TagNo(input, tags, step) = IF Reported(input, CurrentTag) THEN before + 1 ELSE before
  BY <1>1, <1>2, TagNoNext
<1>4. before \in Nat
  BY <1>1, TagNoType
<1>5. HoldsTags(input, Database', tagstart, tags, step - 1)
  BY <1>1, <1>4, HoldsTagsKept
<1> HIDE DEF tags, n, before
<1>6. Len(key_value_pairs') = tagstart + TagNo(input, tags, step)
  BY <1>1, <1>3, <1>4, NextTag DEF n
<1>7. ASSUME Reported(input, tags[step])
      PROVE  LET index == tagstart + TagNo(input, tags, step) - 1
             IN  /\ get_tag_key(Database', index) = Clip(Plain(tags[step].key))
                 /\ get_tag_value(Database', index) = Clip(StoredValue(tags[step]))
  <2>1. tagstart + TagNo(input, tags, step) - 1 = n
    BY <1>1, <1>2, <1>3, <1>4, <1>7
  <2> QED
    BY <1>2, <1>7, <2>1, NextTag DEF n
<1>8. HoldsTags(input, Database', tagstart, tags, step)
  <2>1. \A i \in 1 .. step : i = step \/ i \in 1 .. (step - 1)
    BY <1>1
  <2> QED
    BY <1>5, <1>7, <2>1 DEF HoldsTags
<1> QED
  BY <1>6, <1>8 DEF tags

LEMMA InitTags == Init => TagsInv /\ SlicesInv
<1> SUFFICES ASSUME Init PROVE TagsInv /\ SlicesInv
  OBVIOUS
<1>1. key_value_pairs = <<>> /\ way_tag_ranges = <<>> /\ pc = "start"
  BY DEF Init
<1> QED
  BY <1>1 DEF TagsInv, SlicesInv, LastTag

LEMMA NextTags ==
  Position /\ TextsInv /\ WaysInv /\ TagsInv /\ [Next]_vars => TagsInv'
<1> SUFFICES ASSUME Position, TextsInv, WaysInv, TagsInv, [Next]_vars PROVE TagsInv'
  OBVIOUS
<1>1. CASE StoreTag
  <2>1. /\ pc' = "tags" /\ CurrentWay' = CurrentWay /\ tagstart' = tagstart /\ LastTag' = LastTag
        /\ step \in Nat /\ step' - 1 = step /\ input' = input
    BY <1>1 DEF StoreTag, CurrentWay, CurrentFile, LastTag, wayTables, Position
  <2>2. tagstart = LastTag
    BY <1>1 DEF StoreTag, TagsInv
  <2> QED
    BY <1>1, <2>1, <2>2, StoreTagStep DEF TagsInv
<1>2. CASE StartWay
  <2>1. key_value_pairs' = key_value_pairs /\ LastTag' = LastTag /\ Len(key_value_pairs) = LastTag
    BY <1>2 DEF StartWay, tagTables, wayTables, LastTag, TagsInv
  <2>2. CASE pc' = "tags"
    <3>1. tagstart' = LastTag /\ step' = 1
      BY <1>2, <2>1, <2>2 DEF StartWay, MarkTags, SkipWay
    <3>2. step' - 1 = 0
      BY <3>1
    <3>3. HoldsTags(input', Database', tagstart', CurrentWay'.tags, step' - 1)
      BY <3>2 DEF HoldsTags
    <3>4. TagNo(input', CurrentWay'.tags, step' - 1) = 0
      BY <3>2, TagNoZero
    <3> QED
      BY <2>1, <2>2, <3>1, <3>3, <3>4, LastTagType DEF TagsInv
  <2>3. CASE pc' # "tags"
    BY <2>1, <2>3 DEF TagsInv
  <2> QED
    BY <2>2, <2>3
<1>3. CASE EndTags
  <2>1. pc' = "pairs" /\ key_value_pairs' = key_value_pairs
    BY <1>3 DEF EndTags, tagTables
  <2>2. LastTag' = Len(key_value_pairs)
    <3> DEFINE entry == [first |-> tagstart, second |-> Len(key_value_pairs)]
    <3>1. /\ way_tag_ranges \in Seq(Entry) /\ Len(way_tag_ranges) \in Nat
          /\ Len(way_tag_ranges') = Len(way_tag_ranges) + 1
          /\ entry \in Entry
      BY <1>3, EndTagsStep, TagsGrow DEF WaysInv, Entry
    <3>2. entry.second = Len(key_value_pairs)
      OBVIOUS
    <3>3. way_tag_ranges' = Append(way_tag_ranges, entry)
      BY <1>3 DEF EndTags
    <3> HIDE DEF entry
    <3>4. way_tag_ranges'[Len(way_tag_ranges) + 1] = entry
      BY <3>1, <3>3, AppendProperties
    <3> QED
      BY <3>1, <3>2, <3>4 DEF LastTag
  <2> QED
    BY <2>1, <2>2 DEF TagsInv
<1>4. CASE ~StoreTag /\ ~StartWay /\ ~EndTags
  <2>1. /\ Len(key_value_pairs') = Len(key_value_pairs) /\ LastTag' = LastTag
        /\ pc' \notin {"tags", "failed"} => pc \notin {"tags", "failed"}
        /\ pc' = "tags" => UNCHANGED vars
    <3>1. key_value_pairs' = key_value_pairs /\ LastTag' = LastTag
      BY <1>4, Touches DEF tagTables, wayTables, LastTag, SetupDatabase
    <3>2. pc' = "tags" => UNCHANGED vars
      BY <1>4 DEF Next, ReadTagFile, OpenFile, EndFile, FailTag, Fail, StorePair, EndWay,
                  SetupDatabase, Terminated
    <3>3. pc = "tags" => pc' = "failed" \/ UNCHANGED vars
      BY <1>4 DEF Next, ReadTagFile, OpenFile, EndFile, FailTag, Fail, StorePair, EndWay,
                  SetupDatabase, Terminated
    <3>4. UNCHANGED vars => pc' = pc
      BY DEF vars, position
    <3> QED
      BY <3>1, <3>2, <3>3, <3>4, FailedStays
  <2>2. CASE pc' = "tags"
    BY <2>1, <2>2 DEF vars, position, tagTables, wayTables, TagsInv, LastTag, CurrentWay,
                      CurrentFile, Database, nodeTables
  <2>3. CASE pc' # "tags"
    BY <2>1, <2>3 DEF TagsInv
  <2> QED
    BY <2>2, <2>3
<1> QED
  BY <1>1, <1>2, <1>3, <1>4

(* What is held of a way is never changed.                                 *)
LEMMA WayHeldKept ==
  ASSUME Position, TextsInv, WaysInv, [Next]_vars,
         NEW i \in 1 .. Len(way_tag_ranges), NEW p \in UsableWays(input), WayHeld(i, p)
  PROVE  WayHeld(i, p)' /\ way_tag_ranges'[i] = way_tag_ranges[i]
<1> DEFINE w == WayAt(input, p)
           range == way_tag_ranges[i]
<1>1. /\ input' = input
      /\ way_tag_ranges'[i] = range
      /\ internal_to_external_way_id_map'[i] = internal_to_external_way_id_map[i]
  <2>1. /\ DOMAIN way_tag_ranges = 1 .. Len(way_tag_ranges)
        /\ DOMAIN internal_to_external_way_id_map = 1 .. Len(way_tag_ranges)
    BY LenProperties DEF WaysInv
  <2>2. CASE EndTags
    BY <2>1, <2>2, EndTagsStep, Touches DEF Keeps
  <2>3. CASE UNCHANGED wayTables
    BY <2>3, Touches DEF wayTables
  <2> QED
    BY <2>2, <2>3, Touches
<1>2. range.first \in Nat /\ range.second \in Nat /\ range.second <= Len(key_value_pairs)
  <2>1. range \in Entry
    BY ElementOfSeq DEF WaysInv
  <2> QED
    BY <2>1 DEF Entry, WaysInv
<1>3. Len(w.tags) \in Nat /\ TagNo(input, w.tags, Len(w.tags)) \in Nat
  BY UsableFacts, WayFacts, TagNoType DEF Position
<1>4. /\ range.second - range.first = TagNo(input, w.tags, Len(w.tags))
      /\ HoldsTags(input, Database, range.first, w.tags, Len(w.tags))
      /\ IdOf(input, p) = i - 1
      /\ internal_to_external_way_id_map[i] = w.id % (IdLimit + 1)
  BY DEF WayHeld
<1> HIDE DEF w, range
<1>5. HoldsTags(input, Database', range.first, w.tags, Len(w.tags))
  <2>1. range.first + TagNo(input, w.tags, Len(w.tags)) <= Len(key_value_pairs)
    BY <1>2, <1>3, <1>4
  <2> QED
    BY <1>2, <1>3, <1>4, <2>1, HoldsTagsKept
<1> QED
  BY <1>1, <1>4, <1>5 DEF WayHeld, w, range

LEMMA NextSlices ==
  Position /\ Bounds /\ TextsInv /\ WaysInv /\ CountInv /\ TagsInv /\ SlicesInv /\ [Next]_vars
    => SlicesInv'
<1> SUFFICES ASSUME Position, Bounds, TextsInv, WaysInv, CountInv, TagsInv, SlicesInv,
                    [Next]_vars, NEW i \in 1 .. Len(way_tag_ranges')
             PROVE  /\ \E p \in UsableWays(input') : WayHeld(i, p)'
                    /\ way_tag_ranges'[i].first
                         = IF i = 1 THEN 0 ELSE way_tag_ranges'[i - 1].second
  BY DEF SlicesInv
<1>1. input' = input /\ Len(way_tag_ranges) \in Nat
  BY Touches, LastTagType
<1>2. CASE i \in 1 .. Len(way_tag_ranges)
  <2>1. \A j \in 1 .. Len(way_tag_ranges) :
          (\E p \in UsableWays(input) : WayHeld(j, p)') /\ way_tag_ranges'[j] = way_tag_ranges[j]
    BY WayHeldKept DEF SlicesInv
  <2>2. i # 1 => i - 1 \in 1 .. Len(way_tag_ranges)
    BY <1>1, <1>2
  <2>3. way_tag_ranges[i].first = IF i = 1 THEN 0 ELSE way_tag_ranges[i - 1].second
    BY <1>2 DEF SlicesInv
  <2> QED
    BY <1>1, <1>2, <2>1, <2>2, <2>3
<1>3. CASE i \notin 1 .. Len(way_tag_ranges)
  <2>1. EndTags
    BY <1>3, Touches DEF wayTables
  <2> DEFINE entry == [first |-> tagstart, second |-> Len(key_value_pairs)]
             tags == CurrentWay.tags
             id == CurrentWay.id % (IdLimit + 1)
             n == Len(way_tag_ranges)
  <2>2. i = n + 1
    BY <1>1, <1>3, <2>1, EndTagsStep
  <2>3. /\ pc = "tags" /\ key_value_pairs' = key_value_pairs /\ Database'.strings = Database.strings
        /\ Database'.key_value_pairs = Database.key_value_pairs
        /\ step > Len(tags)
        /\ way_tag_ranges' = Append(way_tag_ranges, entry)
        /\ internal_to_external_way_id_map' = Append(internal_to_external_way_id_map, id)
    BY <2>1 DEF EndTags, tagTables, Database
  <2>4. /\ tagstart = LastTag /\ LastTag \in Nat
        /\ Len(key_value_pairs) = tagstart + TagNo(input, tags, step - 1)
        /\ HoldsTags(input, Database, tagstart, tags, step - 1)
        /\ step - 1 = Len(tags) /\ Len(tags) \in Nat
    <3>1. Len(tags) \in Nat
      BY <2>3, CurrentWayFacts, WayFacts DEF InWay
    <3>2. step - 1 = Len(tags)
      BY <2>3, <3>1 DEF Bounds, Position
    <3> QED
      BY <2>3, <3>1, <3>2, LastTagType DEF TagsInv
  <2>5. way_tag_ranges'[i] = entry /\ internal_to_external_way_id_map'[i] = id
        /\ (n # 0 => way_tag_ranges'[n] = way_tag_ranges[n])
    <3>1. /\ way_tag_ranges \in Seq(Entry) /\ entry \in Entry
          /\ internal_to_external_way_id_map \in Seq(0 .. IdLimit) /\ id \in 0 .. IdLimit
          /\ Len(internal_to_external_way_id_map) = n
      <4>1. CurrentWay.id \in Nat
        BY <2>3, CurrentWayFacts, WayFacts DEF InWay
      <4>2. id \in 0 .. IdLimit
        BY <4>1, IdLimitAssumption
      <4> QED
        BY <4>2, TagsGrow DEF WaysInv, Entry
    <3> DEFINE Id == 0 .. IdLimit
    <3>2. internal_to_external_way_id_map \in Seq(Id) /\ id \in Id
      BY <3>1
    <3> HIDE DEF entry, id, Id
    <3>3. /\ Append(way_tag_ranges, entry)[n + 1] = entry
          /\ \A j \in 1 .. n : Append(way_tag_ranges, entry)[j] = way_tag_ranges[j]
      BY <3>1, AppendProperties
    <3>4. Append(internal_to_external_way_id_map, id)[n + 1] = id
      BY <3>1, <3>2, AppendProperties
    <3> QED
      BY <1>1, <2>2, <2>3, <3>3, <3>4
  <2>6. /\ Here \in UsableWays(input) /\ WayAt(input, Here) = CurrentWay
        /\ IdOf(input, Here) = i - 1
    BY <1>1, <2>2, <2>3, HereFacts, IdOfHere DEF InWay
  <2>7. TagNo(input, tags, Len(tags)) \in Nat
    BY <2>4, TagNoType
  <2>8. entry.first = tagstart /\ entry.second = Len(key_value_pairs)
    OBVIOUS
  <2>9. HoldsTags(input, Database', tagstart, tags, Len(tags))
    BY <2>3, <2>4 DEF HoldsTags, get_tag_key, get_tag_value, getstring
  <2>10. entry.second - entry.first = TagNo(input, tags, Len(tags))
    BY <2>4, <2>7, <2>8
  <2>11. PICK p \in UsableWays(input) : p = Here
    BY <2>6
  <2>12. WayHeld(i, p)'
    <3>1. /\ way_tag_ranges'[i].first = tagstart /\ IdOf(input, p) = i - 1
          /\ way_tag_ranges'[i].second - way_tag_ranges'[i].first = TagNo(input, tags, Len(tags))
          /\ HoldsTags(input, Database', tagstart, tags, Len(tags))
          /\ WayAt(input, p).tags = tags
          /\ internal_to_external_way_id_map'[i] = WayAt(input, p).id % (IdLimit + 1)
      BY <2>5, <2>6, <2>8, <2>9, <2>10, <2>11
    <3> HIDE DEF tags
    <3> QED
      BY <1>1, <3>1 DEF WayHeld
  <2>13. way_tag_ranges'[i].first = IF i = 1 THEN 0 ELSE way_tag_ranges'[i - 1].second
    <3>1. i - 1 = n /\ (i = 1 <=> n = 0)
      BY <1>1, <2>2
    <3>2. way_tag_ranges'[i].first = LastTag
      BY <2>4, <2>5, <2>8
    <3> QED
      BY <2>5, <3>1, <3>2 DEF LastTag
  <2> QED
    BY <1>1, <2>12, <2>13
<1> QED
  BY <1>2, <1>3

TagsIInv == IInv /\ Bounds /\ CountInv /\ TagsInv /\ SlicesInv

LEMMA TagsInvariant == Spec => []TagsIInv
<1>1. Init => TagsIInv
  BY InitIInv, InitBounds, InitCount, InitTags DEF TagsIInv
<1>2. TagsIInv /\ [Next]_vars => TagsIInv'
  BY NextIInv, NextBounds, NextCount, NextTags, NextSlices DEF TagsIInv, IInv
<1> QED
  BY <1>1, <1>2, PTL DEF Spec

(* The tags and the OSM id kept for a way are those of that way and of no  *)
(* other, in order, after any number of skipped ways, dropped tags and     *)
(* files (extractor.cpp:191-232).                                          *)
THEOREM TagsAreOfTheirWay == Spec => []TagSlices
<1>1. TagsIInv => TagSlices
  <2> SUFFICES ASSUME TagsIInv, NEW way_id \in Way
               PROVE  LET range == get_tag_range(Database, way_id)
                      IN  /\ \E p \in UsableWays(input) :
                               LET w == WayAt(input, p)
                               IN  /\ IdOf(input, p) = way_id
                                   /\ range.second - range.first = TagNo(input, w.tags, Len(w.tags))
                                   /\ HoldsTags(input, Database, range.first, w.tags, Len(w.tags))
                                   /\ get_external_way_id(Database, way_id) = w.id % (IdLimit + 1)
                          /\ range.first = IF way_id = 0 THEN 0
                                           ELSE get_tag_range(Database, way_id - 1).second
    BY DEF TagSlices
  <2>1. Len(way_tag_ranges) \in Nat
    BY LastTagType DEF TagsIInv, IInv
  <2>2. /\ way_id \in Nat /\ way_id + 1 \in 1 .. Len(way_tag_ranges)
        /\ way_id + 1 - 1 = way_id /\ (way_id + 1 = 1 <=> way_id = 0) /\ way_id - 1 + 1 = way_id
    BY <2>1 DEF Way
  <2>3. /\ get_tag_range(Database, way_id) = way_tag_ranges[way_id + 1]
        /\ get_tag_range(Database, way_id - 1) = way_tag_ranges[way_id]
        /\ get_external_way_id(Database, way_id) = internal_to_external_way_id_map[way_id + 1]
    BY <2>2 DEF get_tag_range, get_external_way_id, Database
  <2>4. PICK p \in UsableWays(input) : WayHeld(way_id + 1, p)
    BY <2>2 DEF TagsIInv, SlicesInv
  <2>5. way_tag_ranges[way_id + 1].first
          = IF way_id + 1 = 1 THEN 0 ELSE way_tag_ranges[way_id + 1 - 1].second
    BY <2>2 DEF TagsIInv, SlicesInv
  <2> QED
    BY <2>2, <2>3, <2>4, <2>5 DEF WayHeld
<1> QED
  BY <1>1, TagsInvariant, PTL

-----------------------------------------------------------------------------
(* The nodes that have an id.                                              *)

LEMMA LeastNumber ==
  ASSUME NEW S \in SUBSET Nat, S # {}
  PROVE  \E x \in S : \A y \in S : x <= y
<1> DEFINE R == {ss \in Nat \X Nat : ss[1] < ss[2]}
<1>1. IsWellFoundedOn(R, Nat)
  BY NatLessThanWellFounded DEF OpToRel
<1>2. PICK x \in S : \A y \in S : ~(<<y, x>> \in R)
  BY <1>1, WFMin
<1>3. ASSUME NEW y \in S PROVE x <= y
  <2>1. x \in Nat /\ y \in Nat /\ ~(<<y, x>> \in R)
    BY <1>2
  <2>2. y < x => <<y, x>> \in R
    BY <2>1
  <2> QED
    BY <2>1, <2>2
<1> QED
  BY <1>3

(* The nodes that file f adds to those of the files before it.             *)
MetIn(load, f, met) ==
  UNION {MetOn(load, f, met, w.nodes, Len(w.nodes)) :
           w \in {u \in ToSet(load.files[f].ways) : Accepted(load, u)}}

(* The recursive function that computes NodesMet exists: the least number  *)
(* of files for which it would not could be given one.                     *)
LEMMA NodesMetUnfolds ==
  ASSUME NEW load, Len(load.files) \in Nat
  PROVE  /\ NodesMet(load)[0] = {}
         /\ \A f \in 1 .. Len(load.files) :
              NodesMet(load)[f] = NodesMet(load)[f - 1] \cup MetIn(load, f, NodesMet(load)[f - 1])
<1> DEFINE n == Len(load.files)
           Is(met, m) == met = [f \in 0 .. m |-> IF f = 0 THEN {}
                                                 ELSE met[f - 1] \cup MetIn(load, f, met[f - 1])]
           Bad == {m \in Nat : ~\E met : Is(met, m)}
<1>1. ASSUME Bad # {} PROVE FALSE
  <2>1. PICK m \in Bad : \A k \in Bad : m <= k
    BY <1>1, LeastNumber
  <2>2. m # 0
    <3>1. Is([f \in 0 .. 0 |-> {}], 0)
      OBVIOUS
    <3> QED
      BY <3>1
  <2>3. m - 1 \in Nat /\ m - 1 \notin Bad
    <3>1. m \in Nat
      OBVIOUS
    <3>2. m - 1 \in Nat
      BY <2>2, <3>1
    <3> HIDE DEF Bad
    <3> QED
      BY <2>1, <3>1, <3>2
  <2>4. PICK met : Is(met, m - 1)
    BY <2>3
  <2> DEFINE new == [f \in 0 .. m |-> IF f = m THEN met[m - 1] \cup MetIn(load, m, met[m - 1])
                                               ELSE met[f]]
  <2>5. \A f \in 0 .. m : new[f] = IF f = 0 THEN {} ELSE new[f - 1] \cup MetIn(load, f, new[f - 1])
    <3> SUFFICES ASSUME NEW f \in 0 .. m
                 PROVE  new[f] = IF f = 0 THEN {} ELSE new[f - 1] \cup MetIn(load, f, new[f - 1])
      OBVIOUS
    <3>1. CASE f = m
      <4>1. m \in Nat /\ m - 1 \in 0 .. m /\ m - 1 # m
        BY <2>2
      <4>2. new[m] = met[m - 1] \cup MetIn(load, m, met[m - 1]) /\ new[m - 1] = met[m - 1]
        BY <4>1
      <4> QED
        BY <2>2, <3>1, <4>2
    <3>2. CASE f # m /\ f # 0
      <4>1. f \in 0 .. (m - 1) /\ f - 1 \in 0 .. m /\ f - 1 # m
        BY <3>2
      <4> QED
        BY <2>4, <3>2, <4>1
    <3>3. CASE f = 0
      BY <2>2, <2>4, <3>3
    <3> QED
      BY <3>1, <3>2, <3>3
  <2>6. Is(new, m)
    BY <2>5
  <2> QED
    BY <2>6
<1>2. \E met : Is(met, n)
  BY <1>1
<1>3. NodesMet(load) = CHOOSE met : Is(met, n)
  BY DEF NodesMet, MetIn
<1>4. Is(NodesMet(load), n)
  BY <1>2, <1>3
<1>5. ASSUME NEW met, Is(met, n), NEW f \in 0 .. n
      PROVE  met[f] = IF f = 0 THEN {} ELSE met[f - 1] \cup MetIn(load, f, met[f - 1])
  BY <1>5
<1>6. 0 \in 0 .. n /\ \A f \in 1 .. n : f \in 0 .. n /\ f # 0
  OBVIOUS
<1>7. PICK met : met = NodesMet(load) /\ Is(met, n)
  BY <1>4
<1> HIDE DEF Is
<1>8. \A f \in 0 .. n : met[f] = IF f = 0 THEN {} ELSE met[f - 1] \cup MetIn(load, f, met[f - 1])
  BY <1>5, <1>7
<1>9. met[0] = {} /\ \A f \in 1 .. n : met[f] = met[f - 1] \cup MetIn(load, f, met[f - 1])
  BY <1>6, <1>8
<1> QED
  BY <1>7, <1>9

LEMMA MetOnGrows ==
  ASSUME NEW load, NEW f, NEW met, NEW nodes, NEW s \in Nat \ {0}, NEW node
  PROVE  /\ node \in MetOn(load, f, met, nodes, s) => LocatedIn(load, f, node)
         /\ node \notin MetOn(load, f, met, nodes, 1)
         /\ node \in MetOn(load, f, met, nodes, s + 1)
              <=> \/ node \in MetOn(load, f, met, nodes, s)
                  \/ node = nodes[s] /\ LocatedIn(load, f, nodes[s])
                  \/ /\ node = nodes[s + 1] /\ LocatedIn(load, f, nodes[s + 1])
                     /\ Ready(load, f, met, nodes[s])
<1> DEFINE L(i) == LocatedIn(load, f, nodes[i])
           R(i) == Ready(load, f, met, nodes[i])
<1>1. \A n \in Nat : node \in MetOn(load, f, met, nodes, n)
                       <=> \E i \in 1 .. n : node = nodes[i] /\ L(i) /\ (i = n => i > 1 /\ R(i - 1))
  BY DEF MetOn
<1>2. node \in MetOn(load, f, met, nodes, s) => LocatedIn(load, f, node)
  BY <1>1
<1> HIDE DEF L, R
<1>3. node \notin MetOn(load, f, met, nodes, 1)
  BY <1>1
<1>4. node \in MetOn(load, f, met, nodes, s + 1)
        <=> \E i \in 1 .. (s + 1) : node = nodes[i] /\ L(i) /\ (i = s + 1 => i > 1 /\ R(i - 1))
  BY <1>1
<1>5. ASSUME NEW i \in 1 .. (s + 1), node = nodes[i], L(i), i = s + 1 => i > 1 /\ R(i - 1)
      PROVE  \/ node \in MetOn(load, f, met, nodes, s)
             \/ node = nodes[s] /\ L(s)
             \/ node = nodes[s + 1] /\ L(s + 1) /\ R(s)
  <2>1. CASE i = s + 1
    <3>1. i - 1 = s
      BY <2>1
    <3> QED
      BY <1>5, <2>1, <3>1
  <2>2. CASE i = s
    BY <1>5, <2>2
  <2>3. CASE i # s + 1 /\ i # s
    <3>1. i \in 1 .. s
      BY <2>3
    <3> QED
      BY <1>1, <1>5, <2>3, <3>1
  <2> QED
    BY <2>1, <2>2, <2>3
<1>6. ASSUME node = nodes[s + 1] /\ L(s + 1) /\ R(s)
      PROVE  node \in MetOn(load, f, met, nodes, s + 1)
  <2>1. s + 1 \in 1 .. (s + 1) /\ s + 1 > 1 /\ s + 1 - 1 = s
    OBVIOUS
  <2> QED
    BY <1>4, <1>6, <2>1
<1>7. ASSUME node = nodes[s] /\ L(s)
      PROVE  node \in MetOn(load, f, met, nodes, s + 1)
  <2>1. s \in 1 .. (s + 1) /\ s # s + 1
    OBVIOUS
  <2> QED
    BY <1>4, <1>7, <2>1
<1>8. ASSUME node \in MetOn(load, f, met, nodes, s)
      PROVE  node \in MetOn(load, f, met, nodes, s + 1)
  <2>1. PICK i \in 1 .. s : node = nodes[i] /\ L(i)
    BY <1>1, <1>8
  <2>2. i \in 1 .. (s + 1) /\ i # s + 1
    OBVIOUS
  <2> QED
    BY <1>4, <2>1, <2>2
<1>9. /\ L(s) <=> LocatedIn(load, f, nodes[s])
      /\ L(s + 1) <=> LocatedIn(load, f, nodes[s + 1])
      /\ R(s) <=> Ready(load, f, met, nodes[s])
  BY DEF L, R
<1> QED
  BY <1>2, <1>3, <1>4, <1>5, <1>6, <1>7, <1>8, <1>9

(* The nodes of a pair can be registered just when the files say so.       *)
LEMMA RegisteredIsReady ==
  ASSUME Position, MetInv, pc = "pairs", NEW node \in Node
  PROVE  CanRegister(node) <=> Ready(input, file, MetBefore, node)
<1>1. LocationKnown(node) <=> LocatedIn(input, file, node)
  BY DEF LocationKnown, LocatedIn, createRTree, CurrentFile
<1>2. node \in DOMAIN external_internal_map <=> node \in MetBefore \/ MetHere(node)
  BY DEF MetInv, Reading
<1>3. MetHere(node) => LocatedIn(input, file, node)
  <2>1. MetInWays(node) => LocatedIn(input, file, node)
    BY DEF MetInWays, MetOn
  <2>2. node \in MetOn(input, file, MetBefore, CurrentWay.nodes, step) => LocatedIn(input, file, node)
    BY DEF MetOn
  <2> QED
    BY <2>1, <2>2 DEF MetHere
<1> QED
  BY <1>1, <1>2, <1>3 DEF CanRegister, Ready

(* The nodes of the pair being read, and when they get an id.              *)
LEMMA PairFacts ==
  ASSUME Position, pc = "pairs", step < Len(CurrentWay.nodes)
  PROVE  /\ CurrentWay.nodes[step] \in Node /\ CurrentWay.nodes[step + 1] \in Node
         /\ step \in 1 .. (Len(CurrentWay.nodes) - 1)
<1>1. CurrentWay \in OSMWay /\ step \in Nat \ {0}
  BY CurrentWayFacts DEF InWay, Position
<1>2. /\ Len(CurrentWay.nodes) \in Nat
      /\ step \in DOMAIN CurrentWay.nodes /\ step + 1 \in DOMAIN CurrentWay.nodes
  BY <1>1, WayFacts
<1> QED
  BY <1>1, <1>2, WayFacts

LEMMA IdsStep ==
  ASSUME StorePair
  PROVE  LET a == CurrentWay.nodes[step]
             b == CurrentWay.nodes[step + 1]
         IN  \A node : node \in DOMAIN external_internal_map'
               <=> \/ node \in DOMAIN external_internal_map
                   \/ node = a /\ CanRegister(a)
                   \/ node = b /\ CanRegister(a) /\ CanRegister(b)
<1> DEFINE a == CurrentWay.nodes[step]
           b == CurrentWay.nodes[step + 1]
           ids == external_internal_map
<1>1. \/ CanRegister(a) /\ CanRegister(b) /\ ids' = Register(b, Register(a, ids))
      \/ CanRegister(a) /\ ~CanRegister(b) /\ ids' = Register(a, ids)
      \/ ~CanRegister(a) /\ ids' = ids
  BY DEF StorePair, nodeTables
<1>2. \A node, map : DOMAIN Register(node, map) = DOMAIN map \cup {node}
  BY DEF Register, Emplace
<1> HIDE DEF a, b, ids
<1>3. /\ DOMAIN Register(a, ids) = DOMAIN ids \cup {a}
      /\ DOMAIN Register(b, Register(a, ids)) = DOMAIN ids \cup {a} \cup {b}
  BY <1>2
<1> QED
  BY <1>1, <1>3 DEF a, b, ids

LEMMA InWaysSteps ==
  ASSUME input' = input, file' = file, NEW node
  PROVE  /\ way' = way => MetInWays(node)' = MetInWays(node)
         /\ /\ way' = way + 1 /\ way \in DOMAIN CurrentFile.ways
            /\ DOMAIN CurrentFile.ways \subseteq Nat
            => (MetInWays(node)'
                  <=> \/ MetInWays(node)
                      \/ /\ Accepted(input, CurrentWay)
                         /\ node \in MetOn(input, file, MetBefore, CurrentWay.nodes,
                                           Len(CurrentWay.nodes)))
<1>1. CurrentFile' = CurrentFile /\ MetBefore' = MetBefore
  BY DEF CurrentFile, MetBefore
<1>2. way' = way => MetInWays(node)' = MetInWays(node)
  BY <1>1 DEF MetInWays
<1>3. ASSUME way' = way + 1, way \in DOMAIN CurrentFile.ways, DOMAIN CurrentFile.ways \subseteq Nat
      PROVE  MetInWays(node)'
               <=> \/ MetInWays(node)
                   \/ /\ Accepted(input, CurrentWay)
                      /\ node \in MetOn(input, file, MetBefore, CurrentWay.nodes,
                                        Len(CurrentWay.nodes))
  <2> DEFINE Adds(w) == /\ Accepted(input, CurrentFile.ways[w])
                        /\ node \in MetOn(input, file, MetBefore, CurrentFile.ways[w].nodes,
                                          Len(CurrentFile.ways[w].nodes))
  <2>1. /\ MetInWays(node) <=> \E w \in DOMAIN CurrentFile.ways : w < way /\ Adds(w)
        /\ MetInWays(node)' <=> \E w \in DOMAIN CurrentFile.ways : w < way + 1 /\ Adds(w)
    BY <1>1, <1>3 DEF MetInWays
  <2>2. Adds(way) <=> /\ Accepted(input, CurrentWay)
                      /\ node \in MetOn(input, file, MetBefore, CurrentWay.nodes,
                                        Len(CurrentWay.nodes))
    BY DEF CurrentWay
  <2>3. \A w \in DOMAIN CurrentFile.ways : w < way + 1 <=> w < way \/ w = way
    BY <1>3
  <2> HIDE DEF Adds
  <2> QED
    BY <1>3, <2>1, <2>2, <2>3
<1> QED
  BY <1>2, <1>3

LEMMA InitMet == Init => MetInv
<1> SUFFICES ASSUME Init PROVE DOMAIN external_internal_map = MetBefore /\ ~Reading
  BY DEF MetInv
<1>1. Len(input.files) \in Nat /\ file - 1 = 0 /\ ~Reading
  BY InputFacts DEF Init, Files, Reading
<1>2. NodesMet(input)[0] = {}
  BY <1>1, NodesMetUnfolds
<1> QED
  BY <1>1, <1>2, EmptyIsDense DEF Init, MetBefore

LEMMA FileOfMet ==
  ASSUME Position, MetInv, EndFile, pc' # "failed", Dense(external_internal_map),
         DOMAIN external_internal_map \subseteq Node
  PROVE  DOMAIN external_internal_map = NodesMet(input)[file]
<1>1. /\ pc = "way" /\ file \in DOMAIN Files /\ CurrentFile = Files[file]
      /\ way > Len(CurrentFile.ways) /\ Len(CurrentFile.ways) \in Nat
      /\ DOMAIN CurrentFile.ways = 1 .. Len(CurrentFile.ways) /\ way \in Nat
      /\ \A w \in DOMAIN CurrentFile.ways : CurrentFile.ways[w] \in OSMWay
  BY InputFacts, FileFacts DEF EndFile, Position, CurrentFile, Files
<1>2. NodesMet(input)[file] = MetBefore \cup MetIn(input, file, MetBefore)
  <2>1. file \in 1 .. Len(input.files) /\ Len(input.files) \in Nat
    BY <1>1, InputFacts DEF Position, Files
  <2> QED
    BY <2>1, NodesMetUnfolds DEF MetBefore
<1>3. MetBefore \subseteq Node
      /\ \A node \in Node :
           node \in DOMAIN external_internal_map <=> node \in MetBefore \/ MetInWays(node)
  BY <1>1 DEF MetInv, Reading, MetHere
<1> DEFINE Adds(w) == MetOn(input, file, MetBefore, w.nodes, Len(w.nodes))
<1>4. \A node : node \in MetIn(input, file, MetBefore)
                  <=> \E w \in DOMAIN CurrentFile.ways :
                        Accepted(input, CurrentFile.ways[w]) /\ node \in Adds(CurrentFile.ways[w])
  <2>1. ToSet(input.files[file].ways) = {CurrentFile.ways[w] : w \in DOMAIN CurrentFile.ways}
    BY <1>1 DEF ToSet, Files
  <2> QED
    BY <2>1 DEF MetIn
<1>5. \A node : MetInWays(node)
                  <=> \E w \in DOMAIN CurrentFile.ways :
                        Accepted(input, CurrentFile.ways[w]) /\ node \in Adds(CurrentFile.ways[w])
  <2>1. \A w \in DOMAIN CurrentFile.ways : w < way
    BY <1>1
  <2> QED
    BY <2>1 DEF MetInWays
<1>6. \A node : MetInWays(node) => node \in Node
  <2>1. ASSUME NEW w \in DOMAIN CurrentFile.ways, NEW node \in Adds(CurrentFile.ways[w])
        PROVE  node \in Node
    <3>1. PICK i \in 1 .. Len(CurrentFile.ways[w].nodes) : node = CurrentFile.ways[w].nodes[i]
      BY <2>1 DEF MetOn
    <3> QED
      BY <1>1, <3>1, WayFacts
  <2> HIDE DEF Adds
  <2> QED
    BY <1>5, <2>1
<1> HIDE DEF Adds
<1> QED
  BY <1>2, <1>3, <1>4, <1>5, <1>6

LEMMA NextMet ==
  Position /\ Bounds /\ NodesInv /\ MetInv /\ [Next]_vars => MetInv'
<1> SUFFICES ASSUME Position, Bounds, NodesInv, MetInv, [Next]_vars PROVE MetInv'
  OBVIOUS
<1>1. input' = input
  BY Touches
<1>2. ASSUME Reading, pc' = "way" \/ pc' = "tags" \/ pc' = "pairs", file' = file,
             external_internal_map' = external_internal_map,
             \A node \in Node : MetHere(node)' <=> MetHere(node)
      PROVE  MetInv'
  BY <1>1, <1>2 DEF MetInv, Reading, MetBefore
<1>3. ASSUME ~Reading, pc # "failed", file' = file,
             external_internal_map' = external_internal_map,
             pc' \in {"start", "file", "done", "failed"}
      PROVE  MetInv'
  BY <1>1, <1>3 DEF MetInv, Reading, MetBefore, Position
<1>4. CASE ReadTagFile
  BY <1>3, <1>4 DEF ReadTagFile, Fail, Reading, nodeTables
<1>5. CASE OpenFile
  <2>1. CASE pc' = "failed"
    BY <2>1 DEF MetInv, Reading
  <2>2. CASE pc' # "failed"
    <3>1. /\ pc = "file" /\ pc' = "way" /\ way' = 1 /\ file' = file
          /\ external_internal_map' = external_internal_map
      BY <1>5, <2>2 DEF OpenFile, Fail, nodeTables
    <3>2. MetBefore' = MetBefore /\ MetBefore = DOMAIN external_internal_map /\ MetBefore \subseteq Node
      BY <1>1, <3>1 DEF MetBefore, MetInv, NodesInv
    <3>3. \A node : ~MetHere(node)'
      <4>1. \A w \in DOMAIN CurrentFile.ways : ~(w < 1)
        <5>1. CurrentFile \in OSMFile
          <6>1. file \in 1 .. Len(Files)
            BY <1>5, InputFacts DEF Position, OpenFile, Files
          <6> QED
            BY <6>1, InputFacts DEF Position, CurrentFile, Files
        <5> QED
          BY <5>1, FileFacts
      <4>2. CurrentFile' = CurrentFile
        BY <1>1, <3>1 DEF CurrentFile
      <4>3. \A w \in DOMAIN CurrentFile'.ways : ~(w < way')
        BY <3>1, <4>1, <4>2
      <4> QED
        BY <3>1, <4>3 DEF MetHere, MetInWays
    <3> QED
      BY <3>1, <3>2, <3>3 DEF MetInv
  <2> QED
    BY <2>1, <2>2
<1>6. CASE StartWay
  <2>1. /\ pc = "way" /\ file' = file /\ external_internal_map' = external_internal_map
        /\ pc' = "way" \/ pc' = "tags"
        /\ way' = way \/ (~Usable(tags_filter, CurrentWay) /\ way' = way + 1)
    BY <1>6 DEF StartWay, SkipWay, nodeTables
  <2>2. way \in DOMAIN CurrentFile.ways /\ DOMAIN CurrentFile.ways \subseteq Nat
    BY <1>6, CurrentWayFacts, FileFacts DEF StartWay
  <2>3. ~Usable(tags_filter, CurrentWay) => ~Accepted(input, CurrentWay)
    BY <2>1 DEF Position, Accepted
  <2>4. ASSUME NEW node \in Node PROVE MetHere(node)' <=> MetHere(node)
    <3>1. MetInWays(node)' <=> MetInWays(node)
      BY <1>1, <2>1, <2>2, <2>3, InWaysSteps
    <3> QED
      BY <2>1, <3>1 DEF MetHere
  <2> QED
    BY <1>2, <2>1, <2>4 DEF Reading
<1>7. CASE EndFile
  <2>1. CASE pc' = "failed"
    BY <2>1 DEF MetInv, Reading
  <2>2. CASE pc' # "failed"
    <3>1. pc' = "file" /\ file' = file + 1 /\ external_internal_map' = external_internal_map
      BY <1>7, <2>2 DEF EndFile, Fail, nodeTables
    <3>2. file' - 1 = file
      BY <3>1 DEF Position
    <3>3. DOMAIN external_internal_map = NodesMet(input)[file]
      BY <1>7, <2>2, FileOfMet DEF NodesInv
    <3> QED
      BY <1>1, <3>1, <3>2, <3>3 DEF MetInv, MetBefore, Reading
  <2> QED
    BY <2>1, <2>2
<1>8. CASE StoreTag
  <2>1. /\ pc = "tags" /\ pc' = "tags" /\ file' = file /\ way' = way
        /\ external_internal_map' = external_internal_map
    BY <1>8 DEF StoreTag, nodeTables
  <2>2. \A node : MetHere(node)' <=> MetHere(node)
    BY <1>1, <2>1, InWaysSteps DEF MetHere
  <2> QED
    BY <1>2, <2>1, <2>2 DEF Reading
<1>9. CASE FailTag
  BY <1>9 DEF FailTag, Fail, MetInv, Reading
<1>10. CASE EndTags
  <2>1. /\ pc = "tags" /\ pc' = "pairs" /\ step' = 1 /\ file' = file /\ way' = way
        /\ external_internal_map' = external_internal_map
    BY <1>10 DEF EndTags, nodeTables
  <2>2. \A node : MetHere(node)' <=> MetHere(node)
    BY <1>1, <2>1, InWaysSteps, MetOnGrows DEF MetHere
  <2> QED
    BY <1>2, <2>1, <2>2 DEF Reading
<1>11. CASE StorePair
  <2> DEFINE a == CurrentWay.nodes[step]
             b == CurrentWay.nodes[step + 1]
  <2>1. /\ pc = "pairs" /\ pc' = "pairs" /\ step' = step + 1 /\ file' = file /\ way' = way
        /\ step < Len(CurrentWay.nodes) /\ step \in Nat \ {0}
    BY <1>11 DEF StorePair, Position
  <2>2. CurrentWay' = CurrentWay /\ MetBefore' = MetBefore
    BY <1>1, <2>1 DEF CurrentWay, CurrentFile, MetBefore
  <2>3. /\ a \in Node /\ b \in Node
        /\ CanRegister(a) <=> Ready(input, file, MetBefore, a)
        /\ CanRegister(b) <=> Ready(input, file, MetBefore, b)
    BY <2>1, PairFacts, RegisteredIsReady
  <2>4. ASSUME NEW node \in Node
        PROVE  node \in DOMAIN external_internal_map' <=> node \in MetBefore' \/ MetHere(node)'
    <3>1. node \in DOMAIN external_internal_map' <=> \/ node \in DOMAIN external_internal_map
                                                     \/ node = a /\ CanRegister(a)
                                                     \/ node = b /\ CanRegister(a) /\ CanRegister(b)
      BY <1>11, IdsStep
    <3>2. node \in DOMAIN external_internal_map <=> node \in MetBefore \/ MetHere(node)
      BY <2>1 DEF MetInv, Reading
    <3>3. MetHere(node)' <=> \/ MetHere(node)
                             \/ node = a /\ LocatedIn(input, file, a)
                             \/ /\ node = b /\ LocatedIn(input, file, b)
                                /\ Ready(input, file, MetBefore, a)
      <4>1. MetInWays(node)' <=> MetInWays(node)
        BY <1>1, <2>1, InWaysSteps
      <4>2. MetHere(node)' <=> \/ MetInWays(node)
                               \/ node \in MetOn(input, file, MetBefore, CurrentWay.nodes, step + 1)
        BY <1>1, <2>1, <2>2, <4>1 DEF MetHere
      <4>3. MetHere(node) <=> \/ MetInWays(node)
                              \/ node \in MetOn(input, file, MetBefore, CurrentWay.nodes, step)
        BY <2>1 DEF MetHere
      <4> QED
        BY <2>1, <4>2, <4>3, MetOnGrows
    <3> HIDE DEF a, b
    <3> QED
      BY <2>2, <2>3, <3>1, <3>2, <3>3 DEF Ready
  <2>5. MetBefore' \subseteq Node
    BY <2>1, <2>2 DEF MetInv, Reading
  <2> QED
    BY <2>1, <2>4, <2>5 DEF MetInv
<1>12. CASE EndWay
  <2>1. /\ pc = "pairs" /\ pc' = "way" /\ file' = file /\ way' = way + 1
        /\ external_internal_map' = external_internal_map
        /\ step >= Len(CurrentWay.nodes)
    BY <1>12 DEF EndWay, nodeTables
  <2>2. way \in DOMAIN CurrentFile.ways /\ DOMAIN CurrentFile.ways \subseteq Nat
    BY <2>1, CurrentWayFacts, FileFacts DEF InWay
  <2>3. step = Len(CurrentWay.nodes)
    <3>1. step \in Nat /\ Len(CurrentWay.nodes) \in Nat /\ step <= Len(CurrentWay.nodes)
      BY <2>1, CurrentWayFacts, WayFacts DEF InWay, Bounds, Position
    <3> QED
      BY <2>1, <3>1
  <2>4. Accepted(input, CurrentWay)
    BY <2>1 DEF Position, InWay, Accepted
  <2>5. \A node \in Node : MetHere(node)' <=> MetHere(node)
    BY <1>1, <2>1, <2>2, <2>3, <2>4, InWaysSteps DEF MetHere
  <2> QED
    BY <1>2, <2>1, <2>5 DEF Reading
<1>13. CASE SetupDatabase
  BY <1>3, <1>13 DEF SetupDatabase, Reading
<1>14. CASE UNCHANGED vars
  BY <1>14 DEF vars, position, nodeTables, MetInv, Reading, MetBefore, MetHere, MetInWays,
               CurrentFile, CurrentWay
<1> QED
  BY <1>4, <1>5, <1>6, <1>7, <1>8, <1>9, <1>10, <1>11, <1>12, <1>13, <1>14 DEF Next, Terminated

-----------------------------------------------------------------------------
(* The places of the nodes, and the tree that is built of them.            *)

FirstIn(f, node) == node \in NodesMet(input)[f] \ NodesMet(input)[f - 1]

GivenBefore(node, at) ==
  \E f \in 1 .. (file - 1) : FirstIn(f, node) /\ at = Files[f].at[node]

(* A node that had its id before this file was opened is listed where an   *)
(* earlier file first put it, and every other where this one puts it.      *)
PlacedRight(node, at) ==
  /\ node \in MetBefore => GivenBefore(node, at)
  /\ node \notin MetBefore => at = CurrentFile.at[node]

IndexedPlaces == {<<p[1], external_internal_map[p[2]]>> : p \in Places(input)}

PlacesInv ==
  createRTree =>
    /\ pc \notin {"done", "failed"} =>
         \A n \in DOMAIN external_internal_map :
           PlacedRight(n, PlaceOf(n, external_internal_map, used_nodes_list))
    /\ pc = "done" => rtree.values = IndexedPlaces

LEMMA InitPlaces == Init => PlacesInv
BY EmptyIsDense DEF Init, PlacesInv

LEMMA NodesMetGrows ==
  ASSUME Len(Files) \in Nat, NEW i \in 0 .. Len(Files), NEW j \in i .. Len(Files)
  PROVE  NodesMet(input)[i] \subseteq NodesMet(input)[j]
<1> DEFINE Bad == {k \in Nat : k \in i .. Len(Files)
                                 /\ ~(NodesMet(input)[i] \subseteq NodesMet(input)[k])}
<1>1. ASSUME Bad # {} PROVE FALSE
  <2>1. PICK k \in Bad : \A l \in Bad : k <= l
    BY <1>1, LeastNumber
  <2>2. k # i /\ k \in i .. Len(Files)
    BY <2>1
  <2>3. k - 1 \in Nat /\ k - 1 \in i .. Len(Files) /\ k \in 1 .. Len(Files)
    BY <2>2
  <2>4. k - 1 \notin Bad
    <3>1. ~(k <= k - 1)
      BY <2>3
    <3> HIDE DEF Bad
    <3> QED
      BY <2>1, <3>1
  <2>5. NodesMet(input)[i] \subseteq NodesMet(input)[k - 1]
    BY <2>3, <2>4
  <2>6. NodesMet(input)[k - 1] \subseteq NodesMet(input)[k]
    BY <2>3, NodesMetUnfolds DEF Files
  <2> QED
    BY <2>1, <2>5, <2>6
<1> QED
  BY <1>1

(* A node is first met in one file only.                                   *)
LEMMA FirstInOne ==
  ASSUME Len(Files) \in Nat, NEW f \in 1 .. Len(Files), NEW g \in 1 .. Len(Files), NEW node,
         FirstIn(f, node), FirstIn(g, node)
  PROVE  f = g
<1>1. ASSUME NEW h \in 1 .. Len(Files), NEW k \in 1 .. Len(Files), FirstIn(h, node),
             FirstIn(k, node), h < k
      PROVE  FALSE
  <2>1. k - 1 \in h .. Len(Files) /\ h \in 0 .. Len(Files)
    BY <1>1
  <2>2. NodesMet(input)[h] \subseteq NodesMet(input)[k - 1]
    BY <2>1, NodesMetGrows
  <2> QED
    BY <1>1, <2>2 DEF FirstIn
<1> QED
  BY <1>1

LEMMA PlaceFacts ==
  ASSUME NEW p
  PROVE  p \in Places(input)
           <=> \E f \in DOMAIN Files : \E n : FirstIn(f, n) /\ p = <<Files[f].at[n], n>>
BY DEF Places, FirstIn, Files

(* When the tree is built every node is in it where it was first put.      *)
LEMMA SetupPlaces ==
  ASSUME Position, Bounds, NodesInv, MetInv, PlacesInv, SetupDatabase, createRTree
  PROVE  rtree'.values = IndexedPlaces
<1> DEFINE ids == external_internal_map
           list == used_nodes_list
<1>1. rtree'.values = ToSet(list)
  BY TreeBuilt
<1>2. NodeTables(ids, list)
  BY DEF SetupDatabase, NodesInv
<1>3. /\ DOMAIN list = 1 .. Len(list) /\ Len(list) = Cardinality(DOMAIN ids)
      /\ Len(list) \in Nat
      /\ \A i \in 1 .. Len(list) : list[i] \in Int \X (0 .. IdLimit)
  BY <1>2, LenProperties, ElementOfSeq DEF NodeTables
<1>4. Len(Files) \in Nat /\ DOMAIN Files = 1 .. Len(Files) /\ file - 1 = Len(Files)
  <2>1. /\ Len(Files) \in Nat /\ DOMAIN Files = 1 .. Len(Files)
        /\ file \in Nat
    BY InputFacts DEF Position
  <2>2. file > Len(Files) /\ file <= Len(Files) + 1
    BY DEF SetupDatabase, Bounds, Files
  <2> QED
    BY <2>1, <2>2
<1>5. DOMAIN ids = NodesMet(input)[Len(Files)]
  BY <1>4 DEF SetupDatabase, MetInv, MetBefore
<1>6. \A n \in DOMAIN ids : \E f \in DOMAIN Files : FirstIn(f, n) /\ PlaceOf(n, ids, list) = Files[f].at[n]
  BY <1>4, <1>5 DEF SetupDatabase, PlacesInv, PlacedRight, MetBefore, GivenBefore
<1>7. ASSUME NEW n \in DOMAIN ids
      PROVE  <<PlaceOf(n, ids, list), ids[n]>> \in ToSet(list)
  <2>1. ids[n] + 1 \in DOMAIN list /\ list[ids[n] + 1][2] = ids[n]
    BY <1>2, <1>3 DEF NodeTables, Dense
  <2>2. list[ids[n] + 1] = <<PlaceOf(n, ids, list), ids[n]>>
    BY <1>3, <2>1 DEF PlaceOf
  <2> QED
    BY <2>1, <2>2 DEF ToSet
<1>8. ASSUME NEW v \in ToSet(list)
      PROVE  \E n \in DOMAIN ids : v = <<PlaceOf(n, ids, list), ids[n]>>
  <2>1. PICK i \in DOMAIN list : v = list[i]
    BY DEF ToSet
  <2>2. i - 1 \in 0 .. (Cardinality(DOMAIN ids) - 1)
    BY <1>3, <2>1
  <2>3. PICK n \in DOMAIN ids : ids[n] = i - 1
    BY <1>2, <2>2 DEF NodeTables, Dense
  <2>4. ids[n] + 1 = i /\ list[i][2] = ids[n]
    BY <1>2, <1>3, <2>1, <2>3 DEF NodeTables
  <2> QED
    BY <1>3, <2>1, <2>4 DEF PlaceOf
<1> HIDE DEF ids, list
<1>9. ASSUME NEW v \in ToSet(list) PROVE v \in {<<p[1], ids[p[2]]>> : p \in Places(input)}
  <2>1. PICK n \in DOMAIN ids : v = <<PlaceOf(n, ids, list), ids[n]>>
    BY <1>8
  <2>2. <<PlaceOf(n, ids, list), n>> \in Places(input)
    BY <1>6, PlaceFacts
  <2> QED
    BY <2>1, <2>2
<1>10. ASSUME NEW p \in Places(input) PROVE <<p[1], ids[p[2]]>> \in ToSet(list)
  <2> PICK f \in DOMAIN Files : \E n : FirstIn(f, n) /\ p = <<Files[f].at[n], n>>
    BY PlaceFacts
  <2>1. PICK n : FirstIn(f, n) /\ p = <<Files[f].at[n], n>>
    OBVIOUS
  <2>2. n \in DOMAIN ids
    <3>1. f \in 0 .. Len(Files) /\ Len(Files) \in f .. Len(Files)
      BY <1>4
    <3> QED
      BY <1>4, <1>5, <2>1, <3>1, NodesMetGrows DEF FirstIn
  <2>3. PICK g \in DOMAIN Files : FirstIn(g, n) /\ PlaceOf(n, ids, list) = Files[g].at[n]
    BY <1>6, <2>2
  <2>4. f = g
    BY <1>4, <2>1, <2>3, FirstInOne
  <2> QED
    BY <1>7, <2>1, <2>2, <2>3, <2>4
<1> QED
  BY <1>1, <1>9, <1>10 DEF IndexedPlaces, ids

LEMMA NextPlaces ==
  Position /\ Bounds /\ NodesInv /\ MetInv /\ PlacesInv /\ [Next]_vars => PlacesInv'
<1> SUFFICES ASSUME Position, Bounds, NodesInv, MetInv, PlacesInv, [Next]_vars, createRTree
             PROVE  PlacesInv'
  BY Touches DEF PlacesInv, createRTree
<1>1. input' = input /\ createRTree'
  BY Touches DEF createRTree
<1>2. ASSUME pc \notin {"done", "failed"}, pc' \notin {"done", "failed"}, file' = file,
             UNCHANGED nodeTables
      PROVE  PlacesInv'
  <2>1. CurrentFile' = CurrentFile /\ MetBefore' = MetBefore /\ Files' = Files
    BY <1>1, <1>2 DEF CurrentFile, MetBefore, Files
  <2>2. \A n, at : PlacedRight(n, at)' <=> PlacedRight(n, at)
    BY <1>1, <1>2, <2>1 DEF PlacedRight, GivenBefore, FirstIn
  <2> QED
    BY <1>2, <2>2 DEF PlacesInv, PlaceOf, nodeTables
<1>3. ASSUME pc' = "failed" PROVE PlacesInv'
  BY <1>3 DEF PlacesInv
<1>4. CASE ReadTagFile
  BY <1>2, <1>3, <1>4 DEF ReadTagFile, Fail
<1>5. CASE OpenFile
  BY <1>2, <1>3, <1>5 DEF OpenFile, Fail
<1>6. CASE StartWay
  BY <1>2, <1>6 DEF StartWay, SkipWay
<1>7. CASE EndFile
  <2>1. CASE pc' = "failed"
    BY <1>3, <2>1
  <2>2. CASE pc' # "failed"
    <3>1. /\ pc = "way" /\ pc' = "file" /\ file' = file + 1
          /\ external_internal_map' = external_internal_map /\ used_nodes_list' = used_nodes_list
      BY <1>7, <2>2 DEF EndFile, Fail, nodeTables
    <3>2. /\ file \in Nat \ {0} /\ file' - 1 = file
          /\ CurrentFile = Files[file] /\ Files' = Files
      BY <1>1, <3>1 DEF Position, CurrentFile, Files
    <3>3. DOMAIN external_internal_map = NodesMet(input)[file]
      BY <1>7, <2>2, FileOfMet DEF NodesInv
    <3>4. MetBefore' = DOMAIN external_internal_map
      BY <1>1, <3>2, <3>3 DEF MetBefore
    <3>5. ASSUME NEW n \in DOMAIN external_internal_map, NEW at, PlacedRight(n, at)
          PROVE  PlacedRight(n, at)'
      <4>1. CASE n \in MetBefore
        <5>1. PICK f \in 1 .. (file - 1) : FirstIn(f, n) /\ at = Files[f].at[n]
          BY <3>5, <4>1 DEF PlacedRight, GivenBefore
        <5>2. f \in 1 .. (file' - 1)
          BY <3>2
        <5> QED
          BY <1>1, <3>2, <3>4, <5>1, <5>2 DEF PlacedRight, GivenBefore, FirstIn
      <4>2. CASE n \notin MetBefore
        <5>1. FirstIn(file, n) /\ at = Files[file].at[n]
          BY <3>2, <3>3, <3>5, <4>2 DEF PlacedRight, FirstIn, MetBefore
        <5>2. file \in 1 .. (file' - 1)
          BY <3>2
        <5> QED
          BY <1>1, <3>2, <3>4, <5>1, <5>2 DEF PlacedRight, GivenBefore, FirstIn
      <4> QED
        BY <4>1, <4>2
    <3> QED
      BY <3>1, <3>5 DEF PlacesInv, PlaceOf
  <2> QED
    BY <2>1, <2>2
<1>8. CASE StoreTag
  BY <1>2, <1>8 DEF StoreTag
<1>9. CASE FailTag
  BY <1>3, <1>9 DEF FailTag, Fail
<1>10. CASE EndTags
  BY <1>2, <1>10 DEF EndTags
<1>11. CASE StorePair
  <2>1. pc = "pairs" /\ pc' = "pairs" /\ file' = file
    BY <1>11 DEF StorePair
  <2>2. CurrentFile' = CurrentFile /\ MetBefore' = MetBefore /\ Files' = Files
    BY <1>1, <2>1 DEF CurrentFile, MetBefore, Files
  <2>3. \A n, at : PlacedRight(n, at)' <=> PlacedRight(n, at)
    BY <1>1, <2>1, <2>2 DEF PlacedRight, GivenBefore, FirstIn
  <2>4. MetBefore \subseteq DOMAIN external_internal_map
    BY <2>1 DEF MetInv, Reading
  <2>5. ASSUME NEW n \in DOMAIN external_internal_map'
        PROVE  PlacedRight(n, PlaceOf(n, external_internal_map', used_nodes_list'))
    <3>1. /\ n \in DOMAIN external_internal_map
               => PlaceOf(n, external_internal_map', used_nodes_list')
                    = PlaceOf(n, external_internal_map, used_nodes_list)
          /\ n \notin DOMAIN external_internal_map
               => PlaceOf(n, external_internal_map', used_nodes_list') = CurrentFile.at[n]
      BY <1>11, PairNodes DEF PlacesAdded
    <3>2. n \in DOMAIN external_internal_map
            => PlacedRight(n, PlaceOf(n, external_internal_map, used_nodes_list))
      BY <2>1 DEF PlacesInv
    <3> QED
      BY <2>4, <3>1, <3>2 DEF PlacedRight
  <2> QED
    BY <2>1, <2>3, <2>5 DEF PlacesInv, PlaceOf
<1>12. CASE EndWay
  BY <1>2, <1>12 DEF EndWay
<1>13. CASE SetupDatabase
  <2>1. external_internal_map' = external_internal_map /\ pc' = "done"
    BY <1>13 DEF SetupDatabase
  <2>2. rtree'.values = IndexedPlaces
    BY <1>13, SetupPlaces
  <2> QED
    BY <1>1, <2>1, <2>2 DEF PlacesInv, IndexedPlaces
<1>14. CASE UNCHANGED vars
  <2>1. UNCHANGED <<pc, file, rtree, external_internal_map, used_nodes_list>>
    BY <1>14 DEF vars, position, nodeTables
  <2>2. CASE pc \in {"done", "failed"}
    BY <1>1, <2>1, <2>2 DEF PlacesInv, IndexedPlaces
  <2>3. CASE pc \notin {"done", "failed"}
    BY <1>2, <2>1, <2>3 DEF nodeTables
  <2> QED
    BY <2>2, <2>3
<1> QED
  BY <1>4, <1>5, <1>6, <1>7, <1>8, <1>9, <1>10, <1>11, <1>12, <1>13, <1>14 DEF Next, Terminated

-----------------------------------------------------------------------------
(* The ways shown between two nodes.                                       *)

LEMMA SeenSteps ==
  ASSUME Position, Bounds, [Next]_vars, pc' # "failed",
         NEW p \in UsableWays(input), NEW n, NEW m
  PROVE  Seen(p, n, m)' <=> \/ Seen(p, n, m)
                            \/ /\ StorePair /\ p = Here /\ step < Len(CurrentWay.nodes)
                               /\ LinkedAt(input, p, step, n, m)
<1> DEFINE K == 1 .. (Len(WayAt(input, p).nodes) - 1)
           Linked(k) == LinkedAt(input, p, k, n, m)
<1>1. \A k \in K : Passed(p, k)' <=> Passed(p, k) \/ (StorePair /\ p = Here /\ k = step)
  BY PassedSteps
<1>2. /\ Seen(p, n, m) <=> \E k \in K : Passed(p, k) /\ Linked(k)
      /\ Seen(p, n, m)' <=> \E k \in K : Passed(p, k)' /\ Linked(k)
  BY Touches DEF Seen
<1>3. StorePair /\ p = Here => step < Len(CurrentWay.nodes) /\ step \in K
  <2>1. StorePair => pc = "pairs" /\ step < Len(CurrentWay.nodes)
    BY DEF StorePair
  <2>2. pc = "pairs" /\ p = Here => WayAt(input, p) = CurrentWay
    BY HereFacts DEF InWay
  <2> QED
    BY <2>1, <2>2, PairFacts
<1> HIDE DEF K, Linked
<1>4. Seen(p, n, m)' <=> Seen(p, n, m) \/ (StorePair /\ p = Here /\ Linked(step))
  BY <1>1, <1>2, <1>3
<1> QED
  BY <1>3, <1>4 DEF Linked

LEMMA LinkedHere ==
  ASSUME Position, MetInv, StorePair, NEW n \in Node, NEW m \in Node
  PROVE  LET a == CurrentWay.nodes[step]
             b == CurrentWay.nodes[step + 1]
         IN  LinkedAt(input, Here, step, n, m)
               <=> {a, b} = {n, m} /\ CanRegister(a) /\ CanRegister(b)
<1> DEFINE a == CurrentWay.nodes[step]
           b == CurrentWay.nodes[step + 1]
           R(node) == Ready(input, file, MetBefore, node)
<1>1. pc = "pairs" /\ step < Len(CurrentWay.nodes)
  BY DEF StorePair
<1>2. WayAt(input, Here) = CurrentWay /\ Here[1] = file
  BY <1>1, HereFacts DEF InWay, Here
<1>3. LinkedAt(input, Here, step, n, m) <=> {a, b} = {n, m} /\ R(n) /\ R(m)
  BY <1>2 DEF LinkedAt, MetBefore
<1>4. a \in Node /\ b \in Node /\ (CanRegister(a) <=> R(a)) /\ (CanRegister(b) <=> R(b))
  BY <1>1, PairFacts, RegisteredIsReady
<1> HIDE DEF a, b, R
<1>5. {a, b} = {n, m} => (a = n /\ b = m) \/ (a = m /\ b = n)
  OBVIOUS
<1>6. {a, b} = {n, m} => (R(n) /\ R(m) <=> R(a) /\ R(b))
  BY <1>5
<1> QED
  BY <1>3, <1>4, <1>6 DEF a, b

(* Two nodes have the same key in either order, and no other two have it.  *)
LEMMA KeyOfTwo ==
  ASSUME NEW ids, Dense(ids), NEW n \in DOMAIN ids, NEW m \in DOMAIN ids,
         NEW a \in DOMAIN ids, NEW b \in DOMAIN ids
  PROVE  PairKey(ids[n], ids[m]) = PairKey(ids[a], ids[b]) <=> {a, b} = {n, m}
<1>1. ids[n] \in Int /\ ids[m] \in Int /\ ids[a] \in Int /\ ids[b] \in Int
  <2>1. Cardinality(DOMAIN ids) \in Nat
    BY FS_CardinalityType DEF Dense
  <2> QED
    BY <2>1 DEF Dense
<1>2. /\ ids[n] = ids[a] => n = a
      /\ ids[n] = ids[b] => n = b
      /\ ids[m] = ids[a] => m = a
      /\ ids[m] = ids[b] => m = b
  BY DEF Dense
<1>3. {a, b} = {n, m} <=> (a = n /\ b = m) \/ (a = m /\ b = n)
  OBVIOUS
<1>4. ASSUME PairKey(ids[n], ids[m]) = PairKey(ids[a], ids[b])
      PROVE  (ids[n] = ids[a] /\ ids[m] = ids[b]) \/ (ids[n] = ids[b] /\ ids[m] = ids[a])
  BY <1>4 DEF PairKey
<1>5. PairKey(ids[n], ids[m]) = PairKey(ids[m], ids[n])
  BY <1>1 DEF PairKey
<1> QED
  BY <1>2, <1>3, <1>4, <1>5

(* Nodes that get their ids in a step have had no pair yet.                *)
LEMMA KeysKept ==
  ASSUME NEW old, NEW new, Dense(new), Keeps(old, new),
         NEW pairs, \A pair \in pairs : \E i, j \in Range(old) : pair = <<i, j>>,
         NEW n, NEW m
  PROVE  n \in DOMAIN new /\ m \in DOMAIN new /\ PairKey(new[n], new[m]) \in pairs
           <=> n \in DOMAIN old /\ m \in DOMAIN old /\ PairKey(old[n], old[m]) \in pairs
<1>1. ASSUME n \in DOMAIN new, m \in DOMAIN new, PairKey(new[n], new[m]) \in pairs
      PROVE  n \in DOMAIN old /\ m \in DOMAIN old
  <2>1. PICK i \in Range(old), j \in Range(old) : PairKey(new[n], new[m]) = <<i, j>>
    BY <1>1
  <2>2. new[n] \in Range(old) /\ new[m] \in Range(old)
    BY <2>1 DEF PairKey
  <2>3. PICK x \in DOMAIN old, y \in DOMAIN old : new[n] = old[x] /\ new[m] = old[y]
    BY <2>2 DEF Range
  <2>4. x \in DOMAIN new /\ new[x] = new[n] /\ y \in DOMAIN new /\ new[y] = new[m]
    BY <2>3 DEF Keeps
  <2>5. x = n /\ y = m
    BY <1>1, <2>4 DEF Dense
  <2> QED
    BY <2>5
<1>2. ASSUME n \in DOMAIN old, m \in DOMAIN old
      PROVE  n \in DOMAIN new /\ m \in DOMAIN new /\ new[n] = old[n] /\ new[m] = old[m]
  BY <1>2 DEF Keeps
<1> QED
  BY <1>1, <1>2

LEMMA ShownSteps ==
  ASSUME Position, NodesInv, WaysInv, PairsInv, StorePair, NEW n \in Node, NEW m \in Node
  PROVE  LET a == CurrentWay.nodes[step]
             b == CurrentWay.nodes[step + 1]
         IN  /\ Shown(n, m)' <=> \/ Shown(n, m)
                                 \/ {a, b} = {n, m} /\ CanRegister(a) /\ CanRegister(b)
             /\ Shown(n, m) => pair_way_map'[Key(n, m)'] = pair_way_map[Key(n, m)]
             /\ Shown(n, m)' /\ ~Shown(n, m) => pair_way_map'[Key(n, m)'].id = WayId
<1> DEFINE a == CurrentWay.nodes[step]
           b == CurrentWay.nodes[step + 1]
           ids == external_internal_map
           both == CanRegister(a) /\ CanRegister(b)
<1>1. PICK new : new = external_internal_map'
  OBVIOUS
<1>2. PICK map : map = pair_way_map'
  OBVIOUS
<1>3. Dense(new) /\ Keeps(ids, new)
  BY <1>1, PairNodes DEF NodeTables
<1> DEFINE key == PairKey(new[n], new[m])
<1>4. /\ Shown(n, m)' <=> n \in DOMAIN new /\ m \in DOMAIN new /\ key \in DOMAIN map
      /\ Key(n, m)' = key
  BY <1>1, <1>2 DEF Shown, Key
<1>5. n \in DOMAIN new /\ m \in DOMAIN new /\ key \in DOMAIN pair_way_map <=> Shown(n, m)
  <2> DEFINE pairs == DOMAIN pair_way_map
  <2>1. \A pair \in pairs : \E i, j \in Range(ids) : pair = <<i, j>>
    BY DEF PairsInv
  <2>2. Shown(n, m) <=> n \in DOMAIN ids /\ m \in DOMAIN ids /\ PairKey(ids[n], ids[m]) \in pairs
    BY DEF Shown, Key
  <2> HIDE DEF pairs, ids
  <2>3. n \in DOMAIN new /\ m \in DOMAIN new /\ key \in pairs
          <=> n \in DOMAIN ids /\ m \in DOMAIN ids /\ PairKey(ids[n], ids[m]) \in pairs
    BY <1>3, <2>1, KeysKept
  <2> QED
    BY <2>2, <2>3 DEF pairs
<1>6. Shown(n, m) => key = Key(n, m)
  BY <1>3 DEF Shown, Key, Keeps
<1>7. /\ Keeps(pair_way_map, map)
      /\ \A pair \in DOMAIN map \ DOMAIN pair_way_map : map[pair].id = WayId
  BY <1>2, PairsStep
<1>8. \/ /\ both /\ DOMAIN map = DOMAIN pair_way_map \cup {PairKey(new[a], new[b])}
         /\ a \in DOMAIN new /\ b \in DOMAIN new
      \/ ~both /\ map = pair_way_map
  <2>1. CASE both
    <3>1. /\ new = Register(b, Register(a, ids))
          /\ \E value : map = Emplace(pair_way_map, PairKey(new[a], new[b]), value)
      BY <1>1, <1>2, <2>1 DEF StorePair
    <3>2. a \in DOMAIN new /\ b \in DOMAIN new
      BY <3>1 DEF Register, Emplace
    <3> HIDE DEF a, b
    <3> QED
      BY <2>1, <3>1, <3>2 DEF Emplace
  <2>2. CASE ~both
    BY <1>2, <2>2 DEF StorePair
  <2> QED
    BY <2>1, <2>2
<1>9. {a, b} = {n, m} <=> (a = n /\ b = m) \/ (a = m /\ b = n)
  OBVIOUS
<1> HIDE DEF a, b, ids, both
<1>10. ASSUME both PROVE Shown(n, m)' <=> Shown(n, m) \/ {a, b} = {n, m}
  <2>1. n \in DOMAIN new /\ m \in DOMAIN new
          => (key = PairKey(new[a], new[b]) <=> {a, b} = {n, m})
    BY <1>3, <1>8, <1>10, KeyOfTwo
  <2>2. {a, b} = {n, m} => n \in DOMAIN new /\ m \in DOMAIN new
    BY <1>8, <1>9, <1>10
  <2> HIDE DEF key
  <2> QED
    BY <1>4, <1>5, <1>8, <1>10, <2>1, <2>2
<1>11. ASSUME ~both PROVE Shown(n, m)' <=> Shown(n, m)
  BY <1>4, <1>5, <1>8, <1>11
<1>12. Shown(n, m) => map[key] = pair_way_map[Key(n, m)]
  BY <1>5, <1>6, <1>7 DEF Keeps, Shown
<1>13. Shown(n, m)' /\ ~Shown(n, m) => map[key].id = WayId
  BY <1>4, <1>5, <1>7
<1> HIDE DEF key
<1> QED
  BY <1>2, <1>4, <1>10, <1>11, <1>12, <1>13 DEF a, b, both

LEMMA InitFirst == Init => FirstInv
<1> SUFFICES ASSUME Init, NEW n \in Node, NEW m \in Node
             PROVE  ~Shown(n, m) /\ \A p \in UsableWays(input) : ~Seen(p, n, m)
  BY DEF FirstInv
<1>1. pc = "start" /\ file = 1 /\ input \in Inputs /\ external_internal_map = EmptyMap
  BY DEF Init
<1>2. \A p \in UsableWays(input) : ~Past(p)
  BY <1>1, UsableFacts DEF Past, Reading
<1>3. \A p \in UsableWays(input) : ~Seen(p, n, m)
  BY <1>1, <1>2 DEF Seen, Passed
<1> QED
  BY <1>1, <1>3, EmptyIsDense DEF Shown

(* Whatever was seen was seen here or before.                              *)
LEMMA SeenBefore ==
  ASSUME NEW p \in UsableWays(input), NEW n, NEW m, Seen(p, n, m)
  PROVE  p = Here \/ Before(p, Here)
BY DEF Seen, Passed, Past, Reading, Before, Here

LEMMA NextFirst ==
  Position /\ Bounds /\ NodesInv /\ WaysInv /\ PairsInv /\ CountInv /\ MetInv /\ FirstInv
    /\ [Next]_vars => FirstInv'
<1> SUFFICES ASSUME Position, Bounds, NodesInv, WaysInv, PairsInv, CountInv, MetInv, FirstInv,
                    [Next]_vars, pc' # "failed", NEW n \in Node, NEW m \in Node
             PROVE  /\ Shown(n, m)' =>
                         \E p : /\ FirstSeen(p, n, m)'
                                /\ pair_way_map'[Key(n, m)'].id = IdOf(input', p)
                    /\ \A p \in UsableWays(input') : Seen(p, n, m)' => Shown(n, m)'
  BY DEF FirstInv
<1>1. input' = input
  BY Touches
<1>2. /\ Shown(n, m) => \E p : FirstSeen(p, n, m) /\ pair_way_map[Key(n, m)].id = IdOf(input, p)
      /\ \A p \in UsableWays(input) : Seen(p, n, m) => Shown(n, m)
  BY FailedStays DEF FirstInv
<1>3. \A p \in UsableWays(input) :
        Seen(p, n, m)' <=> \/ Seen(p, n, m)
                           \/ StorePair /\ p = Here /\ LinkedAt(input, p, step, n, m)
  BY SeenSteps DEF StorePair
<1>4. \A p : FirstSeen(p, n, m)'
               <=> /\ p \in UsableWays(input) /\ Seen(p, n, m)'
                   /\ \A q \in UsableWays(input) : Seen(q, n, m)' => q = p \/ Before(p, q)
  BY <1>1 DEF FirstSeen
<1>5. CASE ~StorePair
  <2>1. external_internal_map' = external_internal_map /\ pair_way_map' = pair_way_map
    BY <1>5, Touches DEF nodeTables, SetupDatabase
  <2>2. (Shown(n, m)' <=> Shown(n, m)) /\ Key(n, m)' = Key(n, m)
    BY <2>1 DEF Shown, Key
  <2>3. \A p : FirstSeen(p, n, m) => FirstSeen(p, n, m)'
    BY <1>3, <1>4, <1>5 DEF FirstSeen
  <2> QED
    BY <1>1, <1>2, <1>3, <1>5, <2>1, <2>2, <2>3
<1>6. CASE StorePair
  <2> DEFINE Linked == LinkedAt(input, Here, step, n, m)
  <2>1. /\ Shown(n, m)' <=> Shown(n, m) \/ Linked
        /\ Shown(n, m) => pair_way_map'[Key(n, m)'] = pair_way_map[Key(n, m)]
        /\ Shown(n, m)' /\ ~Shown(n, m) => pair_way_map'[Key(n, m)'].id = WayId
    BY <1>6, LinkedHere, ShownSteps
  <2> HIDE DEF Linked
  <2>2. \A p \in UsableWays(input) : Seen(p, n, m)' <=> Seen(p, n, m) \/ (p = Here /\ Linked)
    BY <1>3, <1>6 DEF Linked
  <2>3. pc = "pairs" /\ Here \in UsableWays(input) /\ IdOf(input, Here) = WayId
    BY <1>6, HereFacts, IdOfHere DEF StorePair, InWay
  <2>4. \A p \in UsableWays(input) : Seen(p, n, m)' => Shown(n, m)'
    BY <1>2, <2>1, <2>2
  <2>5. CASE Shown(n, m)
    <3>1. PICK p : FirstSeen(p, n, m) /\ pair_way_map[Key(n, m)].id = IdOf(input, p)
      BY <1>2, <2>5
    <3>2. p \in UsableWays(input) /\ Seen(p, n, m) /\ (Here = p \/ Before(p, Here))
      BY <3>1, SeenBefore DEF FirstSeen
    <3>3. \A q \in UsableWays(input) : Seen(q, n, m) => q = p \/ Before(p, q)
      BY <3>1 DEF FirstSeen
    <3>4. FirstSeen(p, n, m)'
      BY <1>4, <2>2, <3>2, <3>3
    <3> QED
      BY <1>1, <2>1, <2>4, <2>5, <3>1, <3>4
  <2>6. CASE ~Shown(n, m)
    <3>1. \A q \in UsableWays(input) : Seen(q, n, m)' <=> q = Here /\ Linked
      BY <1>2, <2>2, <2>6
    <3>2. PICK p : p = Here
      OBVIOUS
    <3>3. Linked => FirstSeen(p, n, m)'
      BY <1>4, <2>3, <3>1, <3>2
    <3>4. Shown(n, m)' => Linked
      BY <2>1, <2>6
    <3>5. Shown(n, m)' => pair_way_map'[Key(n, m)'].id = IdOf(input', p)
      BY <1>1, <2>1, <2>3, <2>6, <3>2
    <3> QED
      BY <1>1, <2>4, <3>3, <3>4, <3>5
  <2> QED
    BY <2>5, <2>6
<1> QED
  BY <1>5, <1>6

-----------------------------------------------------------------------------
(* The answers of a finished load.                                         *)

LEMMA DoneSeesAll ==
  ASSUME Position, Bounds, pc = "done", NEW p \in UsableWays(input), NEW n, NEW m
  PROVE  Seen(p, n, m) <=> Links(input, p, n, m)
<1>1. p[1] < file
  BY UsableFacts, InputFacts DEF Position
<1> QED
  BY <1>1 DEF Seen, Links, Passed, Past

LEMMA FirstIsOne ==
  ASSUME Position, NEW S \in SUBSET UsableWays(input), NEW p \in S,
         \A q \in S : q = p \/ Before(p, q)
  PROVE  (CHOOSE r \in S : \A q \in S : q = r \/ Before(r, q)) = p
<1>1. ASSUME NEW r \in S, \A q \in S : q = r \/ Before(r, q) PROVE r = p
  <2>1. /\ p[1] \in Nat /\ p[2] \in Nat /\ r[1] \in Nat /\ r[2] \in Nat
    BY UsableFacts DEF Position
  <2>2. ~(Before(p, r) /\ Before(r, p))
    BY <2>1 DEF Before
  <2> QED
    BY <1>1, <2>2
<1> QED
  BY <1>1

LEMMA DoneFirstWay ==
  ASSUME Position, Bounds, FirstInv, pc = "done", NEW n \in Node, NEW m \in Node
  PROVE  FirstWay(input, n, m)
           = IF Shown(n, m) THEN pair_way_map[Key(n, m)].id ELSE INVALID_WAYID
<1> DEFINE Linking == {p \in UsableWays(input) : Links(input, p, n, m)}
           first == CHOOSE p \in Linking : \A q \in Linking : q = p \/ Before(p, q)
<1>1. /\ Shown(n, m) => \E p : FirstSeen(p, n, m) /\ pair_way_map[Key(n, m)].id = IdOf(input, p)
      /\ \A p \in UsableWays(input) : Seen(p, n, m) => Shown(n, m)
  BY DEF FirstInv
<1>2. \A p : p \in Linking <=> p \in UsableWays(input) /\ Seen(p, n, m)
  BY DoneSeesAll
<1>3. FirstWay(input, n, m) = IF Linking = {} THEN INVALID_WAYID ELSE IdOf(input, first)
  BY DEF FirstWay
<1>4. Linking \in SUBSET UsableWays(input)
  OBVIOUS
<1>5. CASE Shown(n, m)
  <2>1. PICK p : FirstSeen(p, n, m) /\ pair_way_map[Key(n, m)].id = IdOf(input, p)
    BY <1>1, <1>5
  <2>2. p \in Linking /\ \A q \in Linking : q = p \/ Before(p, q)
    BY <1>2, <2>1 DEF FirstSeen
  <2> HIDE DEF Linking
  <2>3. first = p
    BY <1>4, <2>2, FirstIsOne
  <2> QED
    BY <1>3, <1>5, <2>1, <2>2, <2>3
<1>6. CASE ~Shown(n, m)
  <2>1. Linking = {}
    BY <1>1, <1>2, <1>6
  <2> QED
    BY <1>3, <1>6, <2>1
<1> QED
  BY <1>5, <1>6

LEMMA AnswerForTwo ==
  ASSUME IInv, NEW n \in Node, NEW m \in Node
  PROVE  annotateRoute(Database, external_to_internal(Database, <<n, m>>))
           = <<IF Shown(n, m) THEN pair_way_map[Key(n, m)].id ELSE INVALID_WAYID>>
<1> DEFINE ids == external_internal_map
           IdIs(node) == IF node \in DOMAIN ids THEN ids[node] ELSE INVALID_INTERNAL_NODEID
           x == IdIs(n)
           y == IdIs(m)
<1>1. external_to_internal(Database, <<n, m>>) = <<x, y>>
  BY DEF external_to_internal, Database
<1>2. WayOfPair(Database, x, y) = IF PairKey(x, y) \in DOMAIN pair_way_map
                                    THEN pair_way_map[PairKey(x, y)].id ELSE INVALID_WAYID
  BY DEF WayOfPair, Database
<1> HIDE DEF x, y
<1>3. annotateRoute(Database, <<x, y>>) = <<WayOfPair(Database, x, y)>>
  BY DEF annotateRoute
<1>4. Shown(n, m) => PairKey(x, y) = Key(n, m) /\ PairKey(x, y) \in DOMAIN pair_way_map
  BY DEF Shown, Key, x, y
<1>5. ASSUME PairKey(x, y) \in DOMAIN pair_way_map PROVE Shown(n, m)
  <2>1. PICK i \in Range(ids), j \in Range(ids) : PairKey(x, y) = <<i, j>>
    BY <1>5 DEF IInv, PairsInv
  <2>2. x \in Range(ids) /\ y \in Range(ids)
    BY <2>1 DEF PairKey
  <2>3. INVALID_INTERNAL_NODEID \notin Range(ids)
    BY NodesDense DEF IInv, NodeIdsDense, Range
  <2>4. n \in DOMAIN ids /\ m \in DOMAIN ids
    BY <2>2, <2>3 DEF x, y
  <2> QED
    BY <1>5, <2>4 DEF Shown, Key, x, y
<1> QED
  BY <1>1, <1>2, <1>3, <1>4, <1>5

AnswersIInv == IInv /\ Bounds /\ CountInv /\ MetInv /\ FirstInv

LEMMA AnswersInvariant == Spec => []AnswersIInv
<1>1. Init => AnswersIInv
  BY InitIInv, InitBounds, InitCount, InitMet, InitFirst DEF AnswersIInv
<1>2. AnswersIInv /\ [Next]_vars => AnswersIInv'
  BY NextIInv, NextBounds, NextCount, NextMet, NextFirst DEF AnswersIInv, IInv
<1> QED
  BY <1>1, <1>2, PTL DEF Spec

(* A finished load answers every question about two nodes as the files do: *)
(* with the first usable way, in reading order, on which they are          *)
(* neighbours, in either direction, and with "no way" if there is none,    *)
(* whatever files, ways, repeated nodes and missing locations were read    *)
(* (extractor.cpp:234-285, annotator.cpp:79-113).                          *)
THEOREM AnswersAreTheFiles == Spec => []AnswersMatchFiles
<1>1. AnswersIInv /\ (pc = "done" => WellFormed(Database)) => AnswersMatchFiles
  <2> SUFFICES ASSUME AnswersIInv, pc = "done", NEW n \in Node, NEW m \in Node
               PROVE  annotateRoute(Database, external_to_internal(Database, <<n, m>>))
                        = <<FirstWay(input, n, m)>>
    BY DEF AnswersMatchFiles
  <2>1. FirstWay(input, n, m) = IF Shown(n, m) THEN pair_way_map[Key(n, m)].id ELSE INVALID_WAYID
    BY DoneFirstWay DEF AnswersIInv, IInv
  <2> QED
    BY <2>1, AnswerForTwo DEF AnswersIInv
<1> QED
  BY <1>1, AnswersInvariant, DatabaseIsWellFormed, PTL

-----------------------------------------------------------------------------
(* The tree, and the nodes it finds for a point.                           *)

AllIInv == AnswersIInv /\ PlacesInv

LEMMA AllInvariant == Spec => []AllIInv
<1>1. Init => PlacesInv
  BY InitPlaces
<1>2. AnswersIInv /\ PlacesInv /\ [Next]_vars => PlacesInv'
  BY NextPlaces DEF AnswersIInv, IInv
<1> QED
  BY <1>1, <1>2, AnswersInvariant, PTL DEF Spec, AllIInv

(* With coordinates the tree holds exactly the nodes that have ids, each   *)
(* where the file puts it in which it got its id, whatever later files say *)
(* of it; without, there is no tree (database.cpp:8-15, 17-31).            *)
THEOREM TreeHoldsNodes == Spec => []TreeMatchesNodes
<1>1. AllIInv => TreeMatchesNodes
  <2> SUFFICES ASSUME AllIInv, pc = "done"
               PROVE  rtree.null = ~createRTree /\ (createRTree => rtree.values = IndexedPlaces)
    BY DEF TreeMatchesNodes, IndexedPlaces
  <2>1. createRTree \in BOOLEAN /\ rtree.null = ~(pc = "done" /\ createRTree)
    BY InputFacts, TreeNull DEF AllIInv, AnswersIInv, IInv, Position
  <2>2. createRTree => rtree.values = IndexedPlaces
    BY DEF AllIInv, PlacesInv
  <2> QED
    BY <2>1, <2>2
<1> QED
  BY <1>1, AllInvariant, PTL

LEMMA PlacesHaveIds ==
  ASSUME AllIInv, pc = "done", createRTree, NEW p \in Places(input)
  PROVE  /\ p = <<p[1], p[2]>> /\ p[1] \in Int /\ p[2] \in DOMAIN external_internal_map
         /\ p[2] \in Node
<1>1. Position /\ NodesInv /\ MetInv /\ TreeInv /\ PlacesInv
  BY DEF AllIInv, AnswersIInv, IInv
<1>2. /\ Len(Files) \in Nat /\ DOMAIN Files = 1 .. Len(Files) /\ file \in Nat
      /\ Len(Files) <= file - 1
  BY <1>1, InputFacts DEF Position
<1> PICK f \in DOMAIN Files : \E n : FirstIn(f, n) /\ p = <<Files[f].at[n], n>>
  BY PlaceFacts
<1>3. PICK n : FirstIn(f, n) /\ p = <<Files[f].at[n], n>>
  OBVIOUS
<1>4. file - 1 = Len(Files)
  <2>1. file <= Len(Files) + 1
    BY DEF AllIInv, AnswersIInv, Bounds
  <2> QED
    BY <1>2, <2>1
<1>5. n \in DOMAIN external_internal_map
  <2>1. f \in 0 .. Len(Files) /\ Len(Files) \in f .. Len(Files)
    BY <1>2
  <2>2. NodesMet(input)[f] \subseteq NodesMet(input)[Len(Files)]
    BY <1>2, <2>1, NodesMetGrows
  <2> QED
    BY <1>1, <1>3, <1>4, <2>2 DEF FirstIn, MetInv, MetBefore
<1>6. <<p[1], external_internal_map[p[2]]>> \in Int \X (0 .. IdLimit)
  BY <1>1 DEF PlacesInv, IndexedPlaces, TreeInv
<1> QED
  BY <1>1, <1>3, <1>5, <1>6 DEF NodesInv

LEMMA DistanceType ==
  ASSUME NEW p \in Int, NEW q \in Int
  PROVE  Distance(p, q) \in Nat
BY DEF Distance

(* Of places that are there, one is nearest.                               *)
LEMMA OneIsNearest ==
  ASSUME NEW S, S # {}, \A p \in S : p[1] \in Int, NEW point \in Int
  PROVE  \E p \in S : \A q \in S : Distance(point, p[1]) <= Distance(point, q[1])
<1> DEFINE D == {Distance(point, p[1]) : p \in S}
<1>1. D # {} /\ D \subseteq Nat
  BY DistanceType
<1>2. PICK d \in D : \A e \in D : d <= e
  BY <1>1, LeastNumber
<1> QED
  BY <1>2

(* A point is matched to the nodes that are nearest to it, or to no node.  *)
LEMMA MatchedIsNear ==
  ASSUME AllIInv, pc = "done", createRTree, NEW point \in Int
  PROVE  LET near == NodesNear(input, point)
             ids == MatchedIds(rtree.values, point)
         IN  /\ near # {} => ids = {external_internal_map[n] : n \in near}
             /\ near = {} => ids = {INVALID_INTERNAL_NODEID}
<1> DEFINE P == Places(input)
           At(p) == <<p[1], external_internal_map[p[2]]>>
           d(p) == Distance(point, p[1])
           Best == {p \in P : \A q \in P : d(p) <= d(q)}
           IdAt(p) == IF d(p) < MaxDistance THEN external_internal_map[p[2]]
                                            ELSE INVALID_INTERNAL_NODEID
           near == NodesNear(input, point)
           values == rtree.values
<1>1. values = {At(p) : p \in P}
  BY DEF AllIInv, PlacesInv, IndexedPlaces
<1>2. \A p \in P : d(p) \in Nat
  BY PlacesHaveIds, DistanceType
<1>3. \A p \in P : At(p)[1] = p[1] /\ At(p)[2] = external_internal_map[p[2]]
  OBVIOUS
<1>4. Nearest(values, point) = {At(p) : p \in Best}
  <2>1. \A p, q \in P : d(p) <= d(q) <=> Distance(point, At(p)[1]) <= Distance(point, At(q)[1])
    BY <1>3
  <2> HIDE DEF At, d, P
  <2>2. \A v : v \in Nearest(values, point)
               <=> \E p \in P : /\ v = At(p)
                                /\ \A q \in P : Distance(point, At(p)[1]) <= Distance(point, At(q)[1])
    BY <1>1 DEF Nearest
  <2> QED
    BY <2>1, <2>2
<1>5. MatchedIds(values, point)
        = IF values = {} THEN {INVALID_INTERNAL_NODEID} ELSE {IdAt(p) : p \in Best}
  <2> DEFINE Id(v) == IF Distance(point, v[1]) < MaxDistance
                        THEN v[2] ELSE INVALID_INTERNAL_NODEID
  <2>1. MatchedIds(values, point) = IF values = {} THEN {INVALID_INTERNAL_NODEID}
                                    ELSE {Id(v) : v \in Nearest(values, point)}
    BY DEF MatchedIds
  <2>2. \A p \in Best : Id(At(p)) = IdAt(p)
    BY <1>3
  <2> HIDE DEF At, Id, IdAt, Best, values
  <2> QED
    BY <1>4, <2>1, <2>2
<1>6. near = {p[2] : p \in {q \in Best : d(q) < MaxDistance}}
  BY DEF NodesNear
<1>7. P # {} => Best # {}
  BY PlacesHaveIds, OneIsNearest
<1>8. values = {} <=> P = {}
  BY <1>1
<1>9. \A p, q \in Best : d(p) = d(q)
  BY <1>2
<1> HIDE DEF P, At, d, near, values
<1>10. ASSUME near # {}
       PROVE  MatchedIds(values, point) = {external_internal_map[n] : n \in near}
  <2>1. PICK q \in Best : d(q) < MaxDistance
    BY <1>6, <1>10
  <2>2. \A p \in Best : d(p) < MaxDistance
    BY <1>9, <2>1
  <2>3. near = {p[2] : p \in Best} /\ P # {}
    BY <1>6, <2>1, <2>2
  <2> QED
    BY <1>5, <1>8, <2>2, <2>3
<1>11. ASSUME near = {} PROVE MatchedIds(values, point) = {INVALID_INTERNAL_NODEID}
  <2>1. \A p \in Best : ~(d(p) < MaxDistance)
    BY <1>6, <1>11
  <2> QED
    BY <1>5, <1>7, <1>8, <2>1
<1> QED
  BY <1>10, <1>11 DEF near, values

(* What is answered for a pair of ids that were matched.                   *)
LEMMA WayOfIds ==
  ASSUME AllIInv, pc = "done"
  PROVE  /\ \A n, m \in Node :
              n \in DOMAIN external_internal_map /\ m \in DOMAIN external_internal_map
              => WayOfPair(Database, external_internal_map[n], external_internal_map[m])
                   = FirstWay(input, n, m)
         /\ \A id : /\ WayOfPair(Database, INVALID_INTERNAL_NODEID, id) = INVALID_WAYID
                    /\ WayOfPair(Database, id, INVALID_INTERNAL_NODEID) = INVALID_WAYID
<1> DEFINE ids == external_internal_map
<1>1. \A x, y : WayOfPair(Database, x, y) = IF PairKey(x, y) \in DOMAIN pair_way_map
                                              THEN pair_way_map[PairKey(x, y)].id
                                              ELSE INVALID_WAYID
  BY DEF WayOfPair, Database
<1>2. ASSUME NEW n \in Node, NEW m \in Node, n \in DOMAIN ids, m \in DOMAIN ids
      PROVE  WayOfPair(Database, ids[n], ids[m]) = FirstWay(input, n, m)
  <2>1. FirstWay(input, n, m) = IF Shown(n, m) THEN pair_way_map[Key(n, m)].id ELSE INVALID_WAYID
    BY DoneFirstWay DEF AllIInv, AnswersIInv, IInv
  <2>2. Shown(n, m) <=> PairKey(ids[n], ids[m]) \in DOMAIN pair_way_map
    BY <1>2 DEF Shown, Key
  <2> QED
    BY <1>1, <2>1, <2>2 DEF Key
<1>3. INVALID_INTERNAL_NODEID \notin Range(ids)
  BY NodesDense DEF AllIInv, AnswersIInv, IInv, NodeIdsDense, Range
<1>4. ASSUME NEW x, NEW y, PairKey(x, y) \in DOMAIN pair_way_map
      PROVE  x \in Range(ids) /\ y \in Range(ids)
  <2>1. PICK i \in Range(ids), j \in Range(ids) : PairKey(x, y) = <<i, j>>
    BY <1>4 DEF AllIInv, AnswersIInv, IInv, PairsInv
  <2> QED
    BY <2>1 DEF PairKey
<1> QED
  BY <1>1, <1>2, <1>3, <1>4

(* A finished load answers a question about two coordinates with the first *)
(* usable way between nodes that are nearest to them, and with no way when *)
(* one of them is not nearer than MaxDistance to any: the answer found by  *)
(* way of the tree is that of the files (annotator.cpp:17-57, 79-113).     *)
THEOREM CoordinatesFindNearest == Spec => []CoordinatesMatchFiles
<1>1. AllIInv => CoordinatesMatchFiles
  <2> SUFFICES ASSUME AllIInv, pc = "done", createRTree, NEW p \in Points, NEW q \in Points
               PROVE  LET routes == NodesNear(input, p) \X NodesNear(input, q)
                      IN  {annotateRoute(Database, ids) :
                             ids \in coordinates_to_internal(Database, <<p, q>>)}
                            = IF routes = {} THEN {<<INVALID_WAYID>>}
                              ELSE {<<FirstWay(input, r[1], r[2])>> : r \in routes}
    BY DEF CoordinatesMatchFiles
  <2> DEFINE M(x) == MatchedIds(rtree.values, x)
             near(x) == NodesNear(input, x)
             ids == external_internal_map
             Answers == {annotateRoute(Database, l) :
                           l \in coordinates_to_internal(Database, <<p, q>>)}
  <2>1. p \in Int /\ q \in Int
    BY PointAssumption
  <2>2. /\ near(p) # {} => M(p) = {ids[n] : n \in near(p)}
        /\ near(p) = {} => M(p) = {INVALID_INTERNAL_NODEID}
        /\ near(q) # {} => M(q) = {ids[n] : n \in near(q)}
        /\ near(q) = {} => M(q) = {INVALID_INTERNAL_NODEID}
    BY <2>1, MatchedIsNear
  <2>3. \A x \in {p, q} : \A n \in near(x) : n \in Node /\ n \in DOMAIN ids
    BY PlacesHaveIds DEF NodesNear
  <2>4. coordinates_to_internal(Database, <<p, q>>) = {<<x, y>> : x \in M(p), y \in M(q)}
    <3>1. /\ DOMAIN <<p, q>> = 1 .. 2 /\ <<p, q>>[1] = p /\ <<p, q>>[2] = q
          /\ Database.rtree.values = rtree.values
      BY DEF Database
    <3> DEFINE U == UNION {MatchedIds(Database.rtree.values, <<p, q>>[i]) : i \in DOMAIN <<p, q>>}
    <3>2. M(p) \subseteq U /\ M(q) \subseteq U
      BY <3>1
    <3>3. coordinates_to_internal(Database, <<p, q>>)
            = {l \in [1 .. 2 -> U] : \A i \in 1 .. 2 : l[i] \in M(<<p, q>>[i])}
      BY <3>1 DEF coordinates_to_internal
    <3> HIDE DEF M, U
    <3>4. \A l \in [1 .. 2 -> U] : l = <<l[1], l[2]>>
      OBVIOUS
    <3>5. \A x \in M(p), y \in M(q) :
            /\ <<x, y>> \in [1 .. 2 -> U]
            /\ \A i \in 1 .. 2 : <<x, y>>[i] \in M(<<p, q>>[i])
      BY <3>1, <3>2
    <3>6. \A l \in [1 .. 2 -> U] :
            (\A i \in 1 .. 2 : l[i] \in M(<<p, q>>[i])) => l[1] \in M(p) /\ l[2] \in M(q)
      BY <3>1
    <3> QED
      BY <3>3, <3>4, <3>5, <3>6
  <2>5. \A x, y : annotateRoute(Database, <<x, y>>) = <<WayOfPair(Database, x, y)>>
    BY DEF annotateRoute
  <2>6. Answers = {<<WayOfPair(Database, x, y)>> : x \in M(p), y \in M(q)}
    <3> HIDE DEF M
    <3> DEFINE C == coordinates_to_internal(Database, <<p, q>>)
    <3>1. \A x \in M(p), y \in M(q) : <<x, y>> \in C
      BY <2>4
    <3>2. \A l \in C : \E x \in M(p), y \in M(q) : l = <<x, y>>
      BY <2>4
    <3> HIDE DEF C
    <3>3. \A x \in M(p), y \in M(q) : <<WayOfPair(Database, x, y)>> \in Answers
      BY <2>5, <3>1 DEF C
    <3>4. \A v \in Answers : \E l \in C : v = annotateRoute(Database, l)
      BY DEF C
    <3>5. \A v \in Answers : \E x \in M(p), y \in M(q) : v = <<WayOfPair(Database, x, y)>>
      BY <2>5, <3>2, <3>4
    <3> HIDE DEF Answers
    <3> QED
      BY <3>3, <3>5
  <2> HIDE DEF M, near, Answers
  <2>7. CASE near(p) # {} /\ near(q) # {}
    <3>1. Answers = {<<WayOfPair(Database, ids[n], ids[m])>> : n \in near(p), m \in near(q)}
      BY <2>2, <2>6, <2>7
    <3>2. \A n \in near(p), m \in near(q) :
            WayOfPair(Database, ids[n], ids[m]) = FirstWay(input, n, m)
      BY <2>3, WayOfIds
    <3>3. Answers = {<<FirstWay(input, r[1], r[2])>> : r \in near(p) \X near(q)}
      <4> DEFINE Ways == {<<FirstWay(input, r[1], r[2])>> : r \in near(p) \X near(q)}
      <4>1. \A n \in near(p), m \in near(q) : <<FirstWay(input, n, m)>> \in Ways
        <5> TAKE n \in near(p), m \in near(q)
        <5>1. <<n, m>> \in near(p) \X near(q) /\ <<n, m>>[1] = n /\ <<n, m>>[2] = m
          OBVIOUS
        <5> HIDE DEF near
        <5> QED
          BY <5>1
      <4>2. \A v \in Ways : \E r \in near(p) \X near(q) : v = <<FirstWay(input, r[1], r[2])>>
        OBVIOUS
      <4>3. \A v \in Ways : \E n \in near(p), m \in near(q) : v = <<FirstWay(input, n, m)>>
        BY <4>2
      <4> HIDE DEF Ways
      <4> QED
        BY <3>1, <3>2, <4>1, <4>3 DEF Ways
    <3>4. near(p) \X near(q) # {}
      <4>1. PICK n \in near(p), m \in near(q) : TRUE
        BY <2>7
      <4>2. <<n, m>> \in near(p) \X near(q)
        BY <4>1
      <4> QED
        BY <4>2
    <3> QED
      BY <3>3, <3>4 DEF near, Answers
  <2>8. CASE near(p) = {} \/ near(q) = {}
    <3>1. M(p) # {} /\ M(q) # {}
      BY <2>2
    <3>2. M(p) = {INVALID_INTERNAL_NODEID} \/ M(q) = {INVALID_INTERNAL_NODEID}
      BY <2>2, <2>8
    <3>3. \A x \in M(p), y \in M(q) : WayOfPair(Database, x, y) = INVALID_WAYID
      BY <3>2, WayOfIds
    <3>4. Answers = {<<INVALID_WAYID>>}
      BY <2>6, <3>1, <3>3
    <3>5. near(p) \X near(q) = {}
      BY <2>8
    <3> QED
      BY <3>4, <3>5 DEF near, Answers
  <2> QED
    BY <2>7, <2>8
<1> QED
  BY <1>1, AllInvariant, PTL
=============================================================================
