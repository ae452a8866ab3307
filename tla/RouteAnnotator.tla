--------------------------- MODULE RouteAnnotator ---------------------------
(***************************************************************************)
(* RouteAnnotator (src/src/annotator.cpp): the questions asked of a        *)
(* Database that is complete and no longer changes.  Every operator takes  *)
(* the database as a record with the fields of src/src/database.hpp.       *)
(*                                                                         *)
(* Internal node, way, tag and string ids count from 0, as in the code; a  *)
(* sequence holds the element of id i at position i + 1.  A point is an    *)
(* integer number of metres along a line: only distances matter here.      *)
(*                                                                         *)
(* A definition X_Bug is X with a plausible mistake in it, which some      *)
(* property must catch; no specification uses it.                          *)
(***************************************************************************)
EXTENDS Naturals, Integers, Sequences, FiniteSets

CONSTANTS
  IdLimit,      (* largest value of the 32 bit id types, kept invalid      *)
  MaxDistance   (* metres within which a coordinate matches a node         *)

ASSUME IdLimitAssumption == IdLimit \in Nat \ {0}
ASSUME MaxDistanceAssumption == MaxDistance \in Nat \ {0}

INVALID_INTERNAL_NODEID == IdLimit
INVALID_WAYID == IdLimit

EmptyMap == [k \in {} |-> k]

Emplace_Overwrites(map, key, value) ==
  [k \in DOMAIN map \cup {key} |-> IF k = key THEN value ELSE map[k]]

(* std::unordered_map::emplace: an entry that exists is left alone.        *)
Emplace(map, key, value) ==
  [k \in DOMAIN map \cup {key} |-> IF k \in DOMAIN map THEN map[k] ELSE value]

PairKey_Directed(a, b) == <<a, b>>

(* The order in which the two ends of a pair are stored and looked up.     *)
PairKey(a, b) == IF a < b THEN <<a, b>> ELSE <<b, a>>

external_to_internal(db, externals) ==
  [i \in DOMAIN externals |->
     IF externals[i] \in DOMAIN db.external_internal_map
       THEN db.external_internal_map[externals[i]]
       ELSE INVALID_INTERNAL_NODEID]

Distance(p, q) == IF p < q THEN q - p ELSE p - q

(* The entries of the RTree the nearest(point, 1) query may return: it     *)
(* returns one, and does not say which when several are equally near.      *)
Nearest(values, point) ==
  {v \in values : \A w \in values : Distance(point, v[1]) <= Distance(point, w[1])}

MatchedIds_AtLimit(values, point) ==
  LET Id(v) == IF Distance(point, v[1]) <= MaxDistance
                 THEN v[2] ELSE INVALID_INTERNAL_NODEID
  IN  IF values = {} THEN {INVALID_INTERNAL_NODEID}
                     ELSE {Id(v) : v \in Nearest(values, point)}

MatchedIds(values, point) ==
  LET Id(v) == IF Distance(point, v[1]) < MaxDistance
                 THEN v[2] ELSE INVALID_INTERNAL_NODEID
  IN  IF values = {} THEN {INVALID_INTERNAL_NODEID}
                     ELSE {Id(v) : v \in Nearest(values, point)}

(* The set of lists coordinates_to_internal may return; it throws an       *)
(* RtreeError instead when db.rtree is null.                               *)
coordinates_to_internal(db, points) ==
  LET Ids == UNION {MatchedIds(db.rtree.values, points[i]) : i \in DOMAIN points}
  IN  {ids \in [DOMAIN points -> Ids] :
         \A i \in DOMAIN points : ids[i] \in MatchedIds(db.rtree.values, points[i])}

WayOfPair(db, a, b) ==
  IF PairKey(a, b) \in DOMAIN db.pair_way_map
    THEN db.pair_way_map[PairKey(a, b)].id
    ELSE INVALID_WAYID

(* Both callers reject routes of fewer than two nodes, for which the       *)
(* code's route.size() - 1 would wrap around or leave nothing to do.       *)
annotateRoute(db, route) ==
  [i \in 1 .. (Len(route) - 1) |-> WayOfPair(db, route[i], route[i + 1])]

(* The vectors are indexed without a check: an id they do not hold is read *)
(* past their end.                                                         *)
HasWay(db, way_id) == way_id < Len(db.way_tag_ranges)

get_tag_range(db, way_id) == db.way_tag_ranges[way_id + 1]

HasTag(db, index) ==
  /\ index < Len(db.key_value_pairs)
  /\ db.key_value_pairs[index + 1].first < Len(db.strings)
  /\ db.key_value_pairs[index + 1].second < Len(db.strings)

getstring(db, stringid) == db.strings[stringid + 1]

get_tag_key(db, index) == getstring(db, db.key_value_pairs[index + 1].first)
get_tag_value(db, index) == getstring(db, db.key_value_pairs[index + 1].second)

get_external_way_id(db, way_id) == db.internal_to_external_way_id_map[way_id + 1]

(* What every unchecked index of this file takes for granted: a way id     *)
(* that annotateRoute can return leads to tags that exist.                 *)
WellFormed(db) ==
  /\ db.way_tag_ranges \in Seq([first : Nat, second : Nat])
  /\ \A pair \in DOMAIN db.pair_way_map :
       db.pair_way_map[pair].id \in Nat /\ HasWay(db, db.pair_way_map[pair].id)
  /\ Len(db.internal_to_external_way_id_map) = Len(db.way_tag_ranges)
  /\ \A way_id \in 0 .. (Len(db.way_tag_ranges) - 1) :
       LET range == get_tag_range(db, way_id)
       IN  \A index \in range.first .. (range.second - 1) : HasTag(db, index)
=============================================================================
