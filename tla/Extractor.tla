------------------------------ MODULE Extractor ------------------------------
(***************************************************************************)
(* Extractor and Database (src/src/extractor.cpp, src/src/database.cpp):   *)
(* one load of a list of OSM files into an empty Database.                 *)
(*                                                                         *)
(* Each action is one turn of a loop of the code: a file opened, a way     *)
(* looked at, a tag stored, a node pair stored, the final SetupDatabase.   *)
(* What is read (the files, the tag file, whether nodes.cache can be       *)
(* opened) is chosen once, in Init, from the constant Inputs.              *)
(*                                                                         *)
(* A definition X_Bug is X with a plausible mistake in it, which some      *)
(* property must catch; the specification uses none of them.               *)
(***************************************************************************)
EXTENDS RouteAnnotator, Units, SequencesExt

CONSTANTS
  Node,      (* external (OSM) node ids                                    *)
  Inputs,    (* the loads considered                                       *)
  Mph,       (* the rests of texts in which "mph" is found                 *)
  Clipped,   (* over-long rests |-> what the first 255 characters keep     *)
  NoLocation, (* a node that the file gives no valid location              *)
  Points,    (* the coordinates asked about                                 *)
  IntMax     (* largest int: std::stoi throws std::out_of_range above it   *)

OSMWay == [id : Nat, tags : Seq([key : STRING, value : Text]), nodes : Seq(Node)]

(* "at": the locations known when the ways of the file are read.  A file   *)
(* that is not "intact" makes the reader throw after the ways it holds.    *)
OSMFile == [readable : BOOLEAN, intact : BOOLEAN,
            at : [Node -> Int \cup {NoLocation}], ways : Seq(OSMWay)]

TagFile == [kind : {"none", "missing", "present"}, keys : SUBSET STRING]

Input == [createRTree : BOOLEAN, nodesCache : BOOLEAN, tagfile : TagFile,
          files : Seq(OSMFile)]

ASSUME NodeAssumption == IsFiniteSet(Node) /\ Cardinality(Node) <= IdLimit
ASSUME LocationAssumption == NoLocation \notin Int
ASSUME PointAssumption == Points \subseteq Int
ASSUME InputAssumption == Inputs \subseteq Input
(* That a literal is a string is true of TLA+ but unknown to the provers.  *)
ASSUME TextAssumption ==
  /\ IntMax \in Nat /\ "" \in STRING
  /\ \A rest \in DOMAIN Clipped : rest \in STRING /\ Clipped[rest] \in STRING

VARIABLES
  input,           (* the arguments of the load                            *)
  pc,              (* where the load is                                    *)
  file, way, step, (* positions in the files, its ways, their tags / nodes *)
  tags_filter,     (* keys of the rules read from the tag file             *)
  tagstart,        (* local of Extractor::way                              *)
  external_internal_map, used_nodes_list, pair_way_map,
  way_tag_ranges, key_value_pairs, internal_to_external_way_id_map,
  string_index, strings, rtree

position == <<pc, file, way, step>>
nodeTables == <<external_internal_map, used_nodes_list>>
wayTables == <<way_tag_ranges, internal_to_external_way_id_map>>
tagTables == <<key_value_pairs, string_index, strings>>
vars == <<input, position, tags_filter, tagstart, nodeTables, wayTables,
          tagTables, pair_way_map, rtree>>

(* The Database as the queries of RouteAnnotator see it.                   *)
Database ==
  [external_internal_map |-> external_internal_map,
   pair_way_map |-> pair_way_map,
   way_tag_ranges |-> way_tag_ranges,
   key_value_pairs |-> key_value_pairs,
   strings |-> strings,
   internal_to_external_way_id_map |-> internal_to_external_way_id_map,
   rtree |-> rtree]

createRTree == input.createRTree
CurrentFile == input.files[file]
CurrentWay == CurrentFile.ways[way]
CurrentTag == CurrentWay.tags[step]
-----------------------------------------------------------------------------
(* The functions of the code that only compute.                            *)

HighwayTypes ==
  {"motorway", "motorway_link", "trunk", "trunk_link", "primary",
   "primary_link", "secondary", "secondary_link", "tertiary",
   "tertiary_link", "residential", "living_street", "unclassified",
   "service", "ferry", "movable", "shuttle_train", "default"}

(* get_value_by_key("highway") returns the first such tag.                 *)
IsHighway(tags) ==
  \E i \in DOMAIN tags :
    /\ tags[i].key = "highway"
    /\ \A j \in 1 .. (i - 1) : tags[j].key # "highway"
    /\ \E type \in HighwayTypes : tags[i].value = Plain(type)

(* A rule is a line of the tag file: it matches the tags of that key.      *)
FilterWay(rules, tags) ==
  \/ \E i \in DOMAIN tags : tags[i].key \in rules
  \/ IsHighway(tags)

Usable(rules, w) == FilterWay(rules, w.tags) /\ Len(w.nodes) > 1

(* A maxspeed in miles per hour whose digits do not fit an int.            *)
StoiThrows(tag) ==
  /\ tag.key = "maxspeed" /\ HasDigits(tag.value)
  /\ tag.value.rest \in Mph /\ tag.value.number > IntMax

(* A maxspeed without leading digits is dropped.                           *)
Stored(rules, tag) ==
  tag.key \in rules /\ (tag.key = "maxspeed" => HasDigits(tag.value))

StoredValue(tag) ==
  IF tag.key # "maxspeed" THEN tag.value
  ELSE [number |-> IF tag.value.rest \in Mph THEN RoundKph(tag.value.number)
                                             ELSE tag.value.number,
        rest |-> ""]

(* The string table keeps at most 255 characters of a text ...             *)
Clip(text) ==
  IF text.rest \in DOMAIN Clipped
    THEN [text EXCEPT !.rest = Clipped[text.rest]] ELSE text

(* ... but finds the texts it holds by all of their characters.            *)
Interned(index, text) == Emplace(index, text, Cardinality(DOMAIN index))

Added_ByKeptText(index, text) ==
  IF \E t \in DOMAIN index : Clip(t) = Clip(text) THEN <<>> ELSE <<Clip(text)>>

Added(index, text) == IF text \in DOMAIN index THEN <<>> ELSE <<Clip(text)>>
-----------------------------------------------------------------------------
NextId_FromOne(ids) == Cardinality(DOMAIN ids) + 1

(* A node gets the next internal id when it is first met.                  *)
NextId(ids) == Cardinality(DOMAIN ids) % (IdLimit + 1)

Register(node, ids) == Emplace(ids, node, NextId(ids))

Listed_Always(node, ids, list) ==
  IF ~createRTree THEN list
  ELSE Append(list, <<CurrentFile.at[node], NextId(ids)>>)

Listed_Moves(node, ids, list) ==
  LET entry == <<CurrentFile.at[node], (Register(node, ids))[node]>>
  IN  IF ~createRTree THEN list
      ELSE IF node \notin DOMAIN ids THEN Append(list, entry)
      ELSE IF entry[1] = NoLocation THEN list
      ELSE [list EXCEPT ![ids[node] + 1] = entry]

(* Its location is kept, for the RTree, only if there will be one.         *)
Listed(node, ids, list) ==
  IF node \in DOMAIN ids \/ ~createRTree THEN list
  ELSE Append(list, <<CurrentFile.at[node], NextId(ids)>>)

(* location().lon() throws osmium::invalid_location for a node that is new *)
(* and whose location the file did not give.                               *)
LocationKnown(node) == createRTree => CurrentFile.at[node] # NoLocation
CanRegister_Always(node) == TRUE
CanRegister(node) == node \in DOMAIN external_internal_map \/ LocationKnown(node)

Init ==
  /\ input \in Inputs
  /\ pc = "start"
  /\ file = 1 /\ way = 1 /\ step = 1
  /\ tags_filter = {}
  /\ tagstart = 0
  /\ external_internal_map = EmptyMap /\ used_nodes_list = <<>>
  /\ pair_way_map = EmptyMap
  /\ way_tag_ranges = <<>> /\ key_value_pairs = <<>>
  /\ internal_to_external_way_id_map = <<>>
  /\ string_index = EmptyMap /\ strings = <<>>
  /\ rtree = [null |-> TRUE, values |-> {}]

Fail == pc' = "failed" /\ UNCHANGED <<file, way, step>>

ReadTagFile ==
  /\ pc = "start"
  /\ IF input.tagfile.kind = "missing"
       THEN Fail /\ UNCHANGED tags_filter
       ELSE /\ pc' = "file"
            /\ tags_filter' = input.tagfile.keys
            /\ UNCHANGED <<file, way, step>>
  /\ UNCHANGED <<input, tagstart, nodeTables, wayTables, tagTables, pair_way_map, rtree>>

OpenFile_Retries ==
  /\ pc = "file" /\ file <= Len(input.files)
  /\ IF CurrentFile.readable /\ (createRTree => input.nodesCache)
       THEN pc' = "way" /\ way' = 1 /\ UNCHANGED <<file, step>>
       ELSE UNCHANGED position
  /\ UNCHANGED <<input, tags_filter, tagstart, nodeTables, wayTables, tagTables,
                 pair_way_map, rtree>>

OpenFile ==
  /\ pc = "file" /\ file <= Len(input.files)
  /\ IF CurrentFile.readable /\ (createRTree => input.nodesCache)
       THEN pc' = "way" /\ way' = 1 /\ UNCHANGED <<file, step>>
       ELSE Fail
  /\ UNCHANGED <<input, tags_filter, tagstart, nodeTables, wayTables, tagTables,
                 pair_way_map, rtree>>

SkipWay == way' = way + 1 /\ UNCHANGED <<pc, step, tagstart>>

MarkTags_Missing == UNCHANGED tagstart
MarkTags == tagstart' = Len(key_value_pairs)

(* The handler is called for the next way: Extractor::way returns at once  *)
(* unless the way is usable.                                               *)
StartWay ==
  /\ pc = "way" /\ way <= Len(CurrentFile.ways)
  /\ IF Usable(tags_filter, CurrentWay)
       THEN /\ pc' = "tags" /\ step' = 1 /\ UNCHANGED way
            /\ MarkTags
       ELSE SkipWay
  /\ UNCHANGED <<input, file, tags_filter, nodeTables, wayTables, tagTables,
                 pair_way_map, rtree>>

(* No way is left: the reader is at the end of the file, or throws there.  *)
EndFile ==
  /\ pc = "way" /\ way > Len(CurrentFile.ways)
  /\ IF CurrentFile.intact
       THEN pc' = "file" /\ file' = file + 1 /\ UNCHANGED <<way, step>>
       ELSE Fail
  /\ UNCHANGED <<input, tags_filter, tagstart, nodeTables, wayTables, tagTables,
                 pair_way_map, rtree>>

StoreEntry(key, value) ==
  LET index1 == Interned(string_index, key)
      index2 == Interned(index1, value)
  IN  /\ string_index' = index2
      /\ strings' = strings \o Added(string_index, key) \o Added(index1, value)
      /\ key_value_pairs' =
           Append(key_value_pairs, [first |-> index1[key], second |-> index2[value]])

StoreTag ==
  /\ pc = "tags" /\ step <= Len(CurrentWay.tags)
  /\ IF Stored(tags_filter, CurrentTag)
       THEN /\ ~StoiThrows(CurrentTag)
            /\ StoreEntry(Plain(CurrentTag.key), StoredValue(CurrentTag))
       ELSE UNCHANGED tagTables
  /\ step' = step + 1
  /\ UNCHANGED <<input, pc, file, way, tags_filter, tagstart, nodeTables, wayTables,
                 pair_way_map, rtree>>

FailTag ==
  /\ pc = "tags" /\ step <= Len(CurrentWay.tags)
  /\ Stored(tags_filter, CurrentTag) /\ StoiThrows(CurrentTag)
  /\ Fail
  /\ UNCHANGED <<input, tags_filter, tagstart, nodeTables, wayTables, tagTables,
                 pair_way_map, rtree>>

EndTags ==
  /\ pc = "tags" /\ step > Len(CurrentWay.tags)
  /\ way_tag_ranges' =
       Append(way_tag_ranges, [first |-> tagstart, second |-> Len(key_value_pairs)])
  /\ internal_to_external_way_id_map' =
       Append(internal_to_external_way_id_map, CurrentWay.id % (IdLimit + 1))
  /\ pc' = "pairs" /\ step' = 1
  /\ UNCHANGED <<input, file, way, tags_filter, tagstart, nodeTables, tagTables,
                 pair_way_map, rtree>>

WayId == Len(way_tag_ranges) - 1

(* One turn of the loop over the node pairs of a way.  Of a pair whose     *)
(* second node cannot be registered the first one stays registered.        *)
StorePair ==
  LET a == CurrentWay.nodes[step]
      b == CurrentWay.nodes[step + 1]
      ids == Register(a, external_internal_map)
      list == Listed(a, external_internal_map, used_nodes_list)
  IN
  /\ pc = "pairs" /\ step < Len(CurrentWay.nodes)
  /\ \/ /\ CanRegister(a) /\ CanRegister(b)
        /\ external_internal_map' = Register(b, ids)
        /\ used_nodes_list' = Listed(b, ids, list)
        /\ pair_way_map' =
             LET ia == external_internal_map'[a]
                 ib == external_internal_map'[b]
             IN  Emplace(pair_way_map, PairKey(ia, ib),
                         [id |-> WayId, forward |-> ia < ib])
     \/ /\ CanRegister(a) /\ ~CanRegister(b)
        /\ external_internal_map' = ids
        /\ used_nodes_list' = list
        /\ UNCHANGED pair_way_map
     \/ /\ ~CanRegister(a)
        /\ UNCHANGED <<nodeTables, pair_way_map>>
  /\ step' = step + 1
  /\ UNCHANGED <<input, pc, file, way, tags_filter, tagstart, wayTables, tagTables, rtree>>

EndWay ==
  /\ pc = "pairs" /\ step >= Len(CurrentWay.nodes)
  /\ pc' = "way" /\ way' = way + 1
  /\ UNCHANGED <<input, file, step, tags_filter, tagstart, nodeTables, wayTables,
                 tagTables, pair_way_map, rtree>>

build_rtree(list) == [null |-> FALSE, values |-> ToSet(list)]

(* build_rtree, if there is to be one, then compact.                       *)
SetupDatabase ==
  /\ pc = "file" /\ file > Len(input.files)
  /\ rtree' = IF createRTree THEN build_rtree(used_nodes_list) ELSE rtree
  /\ used_nodes_list' = <<>>
  /\ string_index' = EmptyMap
  /\ pc' = "done"
  /\ UNCHANGED <<input, file, way, step, tags_filter, tagstart, external_internal_map,
                 pair_way_map, wayTables, key_value_pairs, strings>>

Terminated == pc \in {"done", "failed"} /\ UNCHANGED vars

Next ==
  \/ ReadTagFile \/ OpenFile \/ StartWay \/ EndFile \/ StoreTag \/ FailTag
  \/ EndTags \/ StorePair \/ EndWay \/ SetupDatabase
  \/ Terminated

Spec == Init /\ [][Next]_vars

(* The load runs on one thread of the pool, which never stops half-way.    *)
FairSpec == Spec /\ WF_vars(Next)
-----------------------------------------------------------------------------
(* What the files say, computed from the load's arguments alone.  A place  *)
(* <<f, w>> is that of way w in file f.                                    *)

Files == input.files

WayAt(load, p) == load.files[p[1]].ways[p[2]]
Accepted(load, w) == Usable(load.tagfile.keys, w)

UsableWays(load) ==
  UNION {{<<f, w>> : w \in {k \in DOMAIN load.files[f].ways :
                              Accepted(load, WayAt(load, <<f, k>>))}} :
         f \in DOMAIN load.files}

Before(p, q) == p[1] < q[1] \/ (p[1] = q[1] /\ p[2] < q[2])

(* A usable way's id is the number of those that are read before it, and a *)
(* reported tag's number in its way that of the ones before it.            *)
IdOf(load, p) == Cardinality({q \in UsableWays(load) : Before(q, p)})

Reported(load, tag) == Stored(load.tagfile.keys, tag)
TagNo(load, tags, i) == Cardinality({j \in 1 .. i : Reported(load, tags[j])})

LocatedIn(load, f, node) == load.createRTree => load.files[f].at[node] # NoLocation
Ready(load, f, met, node) == LocatedIn(load, f, node) \/ node \in met

(* The nodes of a way in file f that are given an id by the pairs before   *)
(* position s, if the nodes in "met" had one before that file.             *)
MetOn(load, f, met, nodes, s) ==
  {nodes[k] : k \in {i \in 1 .. s :
                       /\ LocatedIn(load, f, nodes[i])
                       /\ i = s => i > 1 /\ Ready(load, f, met, nodes[i - 1])}}

(* The nodes that must have an internal id once files 1 .. f are read.     *)
NodesMet(load) ==
  LET Met[f \in 0 .. Len(load.files)] ==
        IF f = 0 THEN {}
        ELSE Met[f - 1] \cup
               UNION {MetOn(load, f, Met[f - 1], w.nodes, Len(w.nodes)) :
                        w \in {u \in ToSet(load.files[f].ways) : Accepted(load, u)}}
  IN  Met

(* The nodes that must have an id, each at its location in the file that   *)
(* gives it the id.                                                        *)
Places(load) ==
  UNION {{<<load.files[f].at[n], n>> : n \in NodesMet(load)[f] \ NodesMet(load)[f - 1]} :
         f \in DOMAIN load.files}

NodesNear(load, point) ==
  {p[2] : p \in {q \in Places(load) :
                   /\ Distance(point, q[1]) < MaxDistance
                   /\ \A r \in Places(load) :
                        Distance(point, q[1]) <= Distance(point, r[1])}}

(* Nodes n and m follow each other at step k of the way at p and have ids  *)
(* by then.                                                                *)
LinkedAt(load, p, k, n, m) ==
  LET nodes == WayAt(load, p).nodes
      met == NodesMet(load)[p[1] - 1]
  IN  /\ {nodes[k], nodes[k + 1]} = {n, m}
      /\ Ready(load, p[1], met, n) /\ Ready(load, p[1], met, m)

Links(load, p, n, m) ==
  \E k \in 1 .. (Len(WayAt(load, p).nodes) - 1) : LinkedAt(load, p, k, n, m)

(* The way the map shows between n and m: the first one read.              *)
FirstWay(load, n, m) ==
  LET Linking == {p \in UsableWays(load) : Links(load, p, n, m)}
  IN  IF Linking = {} THEN INVALID_WAYID
      ELSE IdOf(load, CHOOSE p \in Linking : \A q \in Linking : q = p \/ Before(p, q))

(* From index "first" on, a database holds what is to be reported of the   *)
(* first n tags of a way, the ones that are not stored left out.           *)
HoldsTags(load, db, first, tags, n) ==
  \A i \in 1 .. n :
    Reported(load, tags[i]) =>
      LET index == first + TagNo(load, tags, i) - 1
      IN  /\ get_tag_key(db, index) = Clip(Plain(tags[i].key))
          /\ get_tag_value(db, index) = Clip(StoredValue(tags[i]))

Way == 0 .. (Len(way_tag_ranges) - 1)
-----------------------------------------------------------------------------
(* Safety.                                                                 *)

TypeOK ==
  /\ input \in Inputs
  /\ pc \in {"start", "file", "way", "tags", "pairs", "done", "failed"}
  /\ file \in Nat \ {0} /\ way \in Nat \ {0} /\ step \in Nat \ {0}
  /\ tags_filter \subseteq STRING
  /\ tagstart \in Nat
  /\ DOMAIN external_internal_map \subseteq Node
  /\ used_nodes_list \in Seq(Int \X (0 .. IdLimit))
  /\ \A pair \in DOMAIN pair_way_map :
       pair \in (0 .. IdLimit) \X (0 .. IdLimit) /\ pair_way_map[pair].forward \in BOOLEAN
  /\ way_tag_ranges \in Seq([first : Nat, second : Nat])
  /\ key_value_pairs \in Seq([first : Nat, second : Nat])
  /\ internal_to_external_way_id_map \in Seq(0 .. IdLimit)
  /\ strings \in Seq(Text)
  /\ DOMAIN string_index \subseteq Text
  /\ rtree.null \in BOOLEAN

(* The internal node ids are 0 .. n - 1, each given to one OSM node, and   *)
(* never the id that stands for "no node" (extractor.cpp:253, 270), whatever*)
(* nodes are skipped or met again in other ways and files.                 *)
NodeIdsDense ==
  LET ids == external_internal_map
  IN  /\ \A n, m \in DOMAIN ids : ids[n] = ids[m] => n = m
      /\ {ids[n] : n \in DOMAIN ids} = 0 .. (Cardinality(DOMAIN ids) - 1)
      /\ INVALID_INTERNAL_NODEID \notin {ids[n] : n \in DOMAIN ids}

(* The BOOST_ASSERTs of extractor.cpp:257 and 274 hold: the location list  *)
(* and the id map grow together, also when a pair is given up half-way.    *)
NodeListAligned ==
  createRTree /\ pc # "done" =>
    /\ Len(used_nodes_list) = Cardinality(DOMAIN external_internal_map)
    /\ \A n \in DOMAIN external_internal_map :
         LET id == external_internal_map[n]
         IN  /\ used_nodes_list[id + 1][2] = id
             /\ \E f \in 1 .. Min({file, Len(Files)}) :
                  used_nodes_list[id + 1][1] = Files[f].at[n]

(* The tags kept for a way are those of that way and of no other, in order,*)
(* and so is its OSM id, after any number of skipped ways, dropped tags    *)
(* and files (extractor.cpp:191-232).                                      *)
TagSlices ==
  \A way_id \in Way :
    LET range == get_tag_range(Database, way_id)
    IN  /\ \E p \in UsableWays(input) :
             LET w == WayAt(input, p)
             IN  /\ IdOf(input, p) = way_id
                 /\ range.second - range.first = TagNo(input, w.tags, Len(w.tags))
                 /\ HoldsTags(input, Database, range.first, w.tags, Len(w.tags))
                 /\ get_external_way_id(Database, way_id) = w.id % (IdLimit + 1)
        /\ range.first = IF way_id = 0 THEN 0
                         ELSE get_tag_range(Database, way_id - 1).second

(* Every text is held once: equal texts have equal ids, different texts    *)
(* different ones, also where the 255 kept characters are the same         *)
(* (database.cpp:42-61).                                                   *)
StringsInterned ==
  pc # "done" =>
    /\ \A s, t \in DOMAIN string_index : string_index[s] = string_index[t] => s = t
    /\ {string_index[s] : s \in DOMAIN string_index} = 0 .. (Len(strings) - 1)
    /\ \A s \in DOMAIN string_index : strings[string_index[s] + 1] = Clip(s)

(* A finished load answers every question about two nodes as the files do: *)
(* with the first usable way, in reading order, on which they are          *)
(* neighbours, in either direction; and every index it holds is in range.  *)
AnswersMatchFiles ==
  pc = "done" =>
    /\ WellFormed(Database)
    /\ \A n, m \in Node :
         annotateRoute(Database, external_to_internal(Database, <<n, m>>))
           = <<FirstWay(input, n, m)>>

(* With coordinates the tree holds every node that must have an id, with   *)
(* its id, at the location given by the file in which it got that id, also *)
(* when a later file moves it and when it is the first node of a pair that *)
(* is given up; without, there is no tree (extractor.cpp:253-274,          *)
(* database.cpp:8-15, 17-31).                                              *)
TreeMatchesNodes ==
  pc = "done" =>
    /\ rtree.null = ~createRTree
    /\ createRTree =>
         rtree.values = {<<p[1], external_internal_map[p[2]]>> : p \in Places(input)}

(* Asked about two coordinates a finished load answers as the files do:    *)
(* with the first way between a node nearest to the one and a node nearest *)
(* to the other, nearer than MaxDistance, any of them where several are    *)
(* equally near (annotator.cpp:17-57), and with no way if one has no node. *)
CoordinatesMatchFiles ==
  pc = "done" /\ createRTree =>
    \A p, q \in Points :
      LET routes == NodesNear(input, p) \X NodesNear(input, q)
      IN  {annotateRoute(Database, ids) : ids \in coordinates_to_internal(Database, <<p, q>>)}
            = IF routes = {} THEN {<<INVALID_WAYID>>}
              ELSE {<<FirstWay(input, r[1], r[2])>> : r \in routes}

(* A step never changes what was stored: a node keeps its id, a pair its   *)
(* way, a way its tags, a text its id until the index is dropped.          *)
Keeps(old, new) == \A k \in DOMAIN old : k \in DOMAIN new /\ new[k] = old[k]

OnlyAdds ==
  [][/\ Keeps(external_internal_map, external_internal_map')
     /\ Keeps(pair_way_map, pair_way_map')
     /\ Keeps(way_tag_ranges, way_tag_ranges')
     /\ Keeps(key_value_pairs, key_value_pairs')
     /\ Keeps(strings, strings')
     /\ pc' # "done" => Keeps(string_index, string_index')]_vars

(* Every load ends, with a database or an error, however the files fail.   *)
Terminates == <>(pc \in {"done", "failed"})
=============================================================================
