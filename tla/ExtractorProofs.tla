--------------------------- MODULE ExtractorProofs ---------------------------
(***************************************************************************)
(* For any list of files, tag file and limits: the type invariant of       *)
(* Extractor, that node and string ids are dense, that the location list   *)
(* fits the id map, that no index of the finished Database leads out of it,*)
(* and that a load only adds.                                              *)
(***************************************************************************)
EXTENDS Extractor, FiniteSetTheorems, SequenceTheorems, TLAPS

-----------------------------------------------------------------------------
(* Maps that give each key, when it is first met, the number of the keys   *)
(* that came before: the node ids and the string ids are both made so.     *)

Dense(map) ==
  /\ IsFiniteSet(DOMAIN map)
  /\ \A k \in DOMAIN map : map[k] \in 0 .. (Cardinality(DOMAIN map) - 1)
  /\ \A k, l \in DOMAIN map : map[k] = map[l] => k = l
  /\ \A i \in 0 .. (Cardinality(DOMAIN map) - 1) : \E k \in DOMAIN map : map[k] = i

LEMMA EmptyIsDense == Dense(EmptyMap) /\ DOMAIN EmptyMap = {} /\ Cardinality({}) = 0
BY FS_EmptySet DEF Dense, EmptyMap

(* Emplace leaves the entries there are.                                   *)
LEMMA EmplaceKeeps ==
  ASSUME NEW map, NEW key, NEW value
  PROVE  /\ DOMAIN Emplace(map, key, value) = DOMAIN map \cup {key}
         /\ \A k \in DOMAIN map : Emplace(map, key, value)[k] = map[k]
         /\ key \notin DOMAIN map => Emplace(map, key, value)[key] = value
         /\ Keeps(map, Emplace(map, key, value))
BY DEF Emplace, Keeps

(* The key is given the number of the keys there were, if it is new.       *)
LEMMA DenseGrows ==
  ASSUME NEW map, Dense(map), NEW key, NEW value,
         key \notin DOMAIN map => value = Cardinality(DOMAIN map)
  PROVE  LET new == Emplace(map, key, value)
             size == Cardinality(DOMAIN map)
         IN  /\ Dense(new)
             /\ Cardinality(DOMAIN new) = IF key \in DOMAIN map THEN size ELSE size + 1
             /\ new[key] \in 0 .. (Cardinality(DOMAIN new) - 1)
<1> DEFINE new == Emplace(map, key, value)
           size == Cardinality(DOMAIN map)
<1>1. /\ DOMAIN new = DOMAIN map \cup {key}
      /\ \A k \in DOMAIN map : new[k] = map[k]
      /\ key \notin DOMAIN map => new[key] = size
  BY DEF Emplace
<1>2. /\ IsFiniteSet(DOMAIN new) /\ size \in Nat
      /\ Cardinality(DOMAIN new) = IF key \in DOMAIN map THEN size ELSE size + 1
  BY <1>1, FS_AddElement, FS_CardinalityType DEF Dense
<1> DEFINE bigger == Cardinality(DOMAIN new)
<1> HIDE DEF new, size, bigger
<1>3. /\ \A k \in DOMAIN map : map[k] \in 0 .. (size - 1)
      /\ \A k, l \in DOMAIN map : map[k] = map[l] => k = l
      /\ \A i \in 0 .. (size - 1) : \E k \in DOMAIN map : map[k] = i
  BY DEF Dense, size
<1>4. CASE key \in DOMAIN map
  <2>1. DOMAIN new = DOMAIN map /\ bigger = size
    BY <1>1, <1>2, <1>4 DEF bigger
  <2>2. Dense(new)
    BY <1>1, <1>2, <1>3, <2>1 DEF Dense, bigger
  <2> QED
    BY <1>1, <1>2, <1>3, <1>4, <2>1, <2>2 DEF new, size, bigger
<1>5. CASE key \notin DOMAIN map
  <2>1. bigger = size + 1 /\ new[key] = size
    BY <1>1, <1>2, <1>5 DEF bigger
  <2>2. \A k \in DOMAIN new : new[k] \in 0 .. (bigger - 1)
    BY <1>1, <1>2, <1>3, <2>1
  <2>3. \A k, l \in DOMAIN new : new[k] = new[l] => k = l
    <3>1. \A k \in DOMAIN map : new[k] # new[key]
      BY <1>1, <1>2, <1>3, <2>1
    <3> QED
      BY <1>1, <1>3, <3>1
  <2>4. \A i \in 0 .. (bigger - 1) : \E k \in DOMAIN new : new[k] = i
    <3> TAKE i \in 0 .. (bigger - 1)
    <3>1. i = size \/ i \in 0 .. (size - 1)
      BY <1>2, <2>1
    <3> QED
      BY <1>1, <1>3, <2>1, <3>1
  <2>5. Dense(new)
    BY <1>2, <2>2, <2>3, <2>4 DEF Dense, bigger
  <2> QED
    BY <1>1, <1>2, <2>1, <2>2, <2>5 DEF new, size, bigger
<1> QED
  BY <1>4, <1>5
-----------------------------------------------------------------------------
(* What the assumption on the inputs gives for the one that is loaded.     *)
LEMMA InputFacts ==
  ASSUME input \in Inputs
  PROVE  /\ createRTree \in BOOLEAN
         /\ input.tagfile.keys \subseteq STRING
         /\ Files \in Seq(OSMFile) /\ Len(Files) \in Nat /\ DOMAIN Files = 1 .. Len(Files)
         /\ \A f \in DOMAIN Files : Files[f] \in OSMFile
<1>1. input \in Input
  BY InputAssumption
<1>2. Files \in Seq(OSMFile) /\ input.tagfile \in TagFile /\ createRTree \in BOOLEAN
  BY <1>1 DEF Input, Files, createRTree
<1>3. Len(Files) \in Nat /\ DOMAIN Files = 1 .. Len(Files)
  BY <1>2, LenProperties
<1>4. \A f \in DOMAIN Files : Files[f] \in OSMFile
  BY <1>2, <1>3, ElementOfSeq
<1> QED
  BY <1>2, <1>3, <1>4 DEF TagFile

LEMMA FileFacts ==
  ASSUME NEW f \in OSMFile
  PROVE  /\ f.at \in [Node -> Int \cup {NoLocation}]
         /\ f.ways \in Seq(OSMWay) /\ Len(f.ways) \in Nat
         /\ DOMAIN f.ways = 1 .. Len(f.ways)
         /\ \A w \in DOMAIN f.ways : f.ways[w] \in OSMWay
<1>1. f.ways \in Seq(OSMWay) /\ f.at \in [Node -> Int \cup {NoLocation}]
  BY DEF OSMFile
<1>2. Len(f.ways) \in Nat /\ DOMAIN f.ways = 1 .. Len(f.ways)
  BY <1>1, LenProperties
<1>3. \A w \in DOMAIN f.ways : f.ways[w] \in OSMWay
  BY <1>1, <1>2, ElementOfSeq
<1> QED
  BY <1>1, <1>2, <1>3

LEMMA WayFacts ==
  ASSUME NEW w \in OSMWay
  PROVE  /\ w.id \in Nat
         /\ Len(w.tags) \in Nat /\ DOMAIN w.tags = 1 .. Len(w.tags)
         /\ \A i \in DOMAIN w.tags : w.tags[i] \in [key : STRING, value : Text]
         /\ Len(w.nodes) \in Nat /\ DOMAIN w.nodes = 1 .. Len(w.nodes)
         /\ \A i \in DOMAIN w.nodes : w.nodes[i] \in Node
<1>1. w.id \in Nat /\ w.tags \in Seq([key : STRING, value : Text]) /\ w.nodes \in Seq(Node)
  BY DEF OSMWay
<1>2. /\ Len(w.tags) \in Nat /\ DOMAIN w.tags = 1 .. Len(w.tags)
      /\ \A i \in 1 .. Len(w.tags) : w.tags[i] \in [key : STRING, value : Text]
  BY <1>1, LenProperties, ElementOfSeq
<1>3. /\ Len(w.nodes) \in Nat /\ DOMAIN w.nodes = 1 .. Len(w.nodes)
      /\ \A i \in 1 .. Len(w.nodes) : w.nodes[i] \in Node
  BY <1>1, LenProperties, ElementOfSeq
<1> QED
  BY <1>1, <1>2, <1>3

-----------------------------------------------------------------------------
(* Where the load is, and what it then knows of the files.                 *)

InWay == pc \in {"tags", "pairs"}

Position ==
  /\ input \in Inputs
  /\ pc \in {"start", "file", "way", "tags", "pairs", "done", "failed"}
  /\ file \in Nat \ {0} /\ way \in Nat \ {0} /\ step \in Nat \ {0}
  /\ tags_filter \subseteq STRING
  /\ pc \notin {"start", "failed"} => tags_filter = input.tagfile.keys
  /\ pc = "way" \/ InWay => file <= Len(Files)
  /\ InWay => way <= Len(CurrentFile.ways) /\ Usable(tags_filter, CurrentWay)
  /\ pc = "done" => file > Len(Files)

LEMMA InitPosition == Init => Position
BY DEF Init, Position, InWay

LEMMA NextPosition == Position /\ [Next]_vars => Position'
<1> SUFFICES ASSUME Position, [Next]_vars PROVE Position'
  OBVIOUS
<1> USE DEF Position, InWay, Files, CurrentFile, CurrentWay
<1>1. CASE ReadTagFile
  BY <1>1, InputFacts DEF ReadTagFile, Fail
<1>2. CASE OpenFile
  BY <1>2 DEF OpenFile, Fail
<1>3. CASE StartWay
  BY <1>3 DEF StartWay, SkipWay
<1>4. CASE EndFile
  BY <1>4 DEF EndFile, Fail
<1>5. CASE StoreTag
  BY <1>5 DEF StoreTag
<1>6. CASE FailTag
  BY <1>6 DEF FailTag, Fail
<1>7. CASE EndTags
  BY <1>7 DEF EndTags
<1>8. CASE StorePair
  BY <1>8 DEF StorePair
<1>9. CASE EndWay
  BY <1>9 DEF EndWay
<1>10. CASE SetupDatabase
  BY <1>10, InputFacts DEF SetupDatabase
<1>11. CASE UNCHANGED vars
  BY <1>11 DEF vars, position
<1> QED
  BY <1>1, <1>2, <1>3, <1>4, <1>5, <1>6, <1>7, <1>8, <1>9, <1>10, <1>11 DEF Next, Terminated

(* The action that may change each group of tables.                        *)
LEMMA Touches ==
  ASSUME [Next]_vars
  PROVE  /\ input' = input /\ (file' = file \/ file' = file + 1)
         /\ UNCHANGED nodeTables \/ StorePair \/ SetupDatabase
         /\ UNCHANGED pair_way_map \/ StorePair
         /\ UNCHANGED wayTables \/ EndTags
         /\ UNCHANGED tagTables \/ StoreTag \/ SetupDatabase
         /\ UNCHANGED tagstart \/ StartWay
         /\ (UNCHANGED rtree /\ (pc' = "done" => pc = "done")) \/ SetupDatabase
         /\ pc' = "pairs" => pc = "pairs" \/ EndTags
         /\ pc = "done" => UNCHANGED vars /\ pc' = "done"
<1> USE DEF nodeTables, wayTables, tagTables, Fail
<1>1. CASE ReadTagFile
  BY <1>1 DEF ReadTagFile
<1>2. CASE OpenFile
  BY <1>2 DEF OpenFile
<1>3. CASE StartWay
  BY <1>3 DEF StartWay, SkipWay
<1>4. CASE EndFile
  BY <1>4 DEF EndFile
<1>5. CASE StoreTag
  BY <1>5 DEF StoreTag
<1>6. CASE FailTag
  BY <1>6 DEF FailTag
<1>7. CASE EndTags
  BY <1>7 DEF EndTags
<1>8. CASE StorePair
  BY <1>8 DEF StorePair
<1>9. CASE EndWay
  BY <1>9 DEF EndWay
<1>10. CASE SetupDatabase
  BY <1>10 DEF SetupDatabase
<1>11. CASE UNCHANGED vars
  BY <1>11 DEF vars, position
<1> QED
  BY <1>1, <1>2, <1>3, <1>4, <1>5, <1>6, <1>7, <1>8, <1>9, <1>10, <1>11 DEF Next, Terminated
-----------------------------------------------------------------------------
(* Node ids and locations.                                                 *)

LocationOf(node, location) ==
  \E f \in DOMAIN Files : f <= file /\ location = Files[f].at[node]

NodeTables(ids, list) ==
  /\ Dense(ids) /\ DOMAIN ids \subseteq Node
  /\ list \in Seq(Int \X (0 .. IdLimit))
  /\ IF createRTree
       THEN /\ Len(list) = Cardinality(DOMAIN ids)
            /\ \A n \in DOMAIN ids :
                 list[ids[n] + 1][2] = ids[n] /\ LocationOf(n, list[ids[n] + 1][1])
       ELSE list = <<>>

NodesInv ==
  /\ Dense(external_internal_map) /\ DOMAIN external_internal_map \subseteq Node
  /\ IF pc = "done" THEN used_nodes_list = <<>>
                    ELSE NodeTables(external_internal_map, used_nodes_list)

(* A step of the loop over the pairs leaves the places of the nodes that   *)
(* have an id, and gives a new node the place it has in this file.         *)
PlaceOf(node, ids, list) == list[ids[node] + 1][1]

PlacesAdded(ids, list, ids2, list2) ==
  createRTree =>
    \A n \in DOMAIN ids2 :
      /\ n \in DOMAIN ids => PlaceOf(n, ids2, list2) = PlaceOf(n, ids, list)
      /\ n \notin DOMAIN ids => PlaceOf(n, ids2, list2) = CurrentFile.at[n]

(* There are fewer ids than values of the id type: none is cut short, and  *)
(* the one that means "no node" is never given out.                        *)
LEMMA NextIdIsCount ==
  ASSUME NEW ids, Dense(ids), DOMAIN ids \subseteq Node
  PROVE  /\ Cardinality(DOMAIN ids) \in 0 .. IdLimit
         /\ NextId(ids) = Cardinality(DOMAIN ids)
         /\ \A node \in Node \ DOMAIN ids : Cardinality(DOMAIN ids) < IdLimit
<1> DEFINE size == Cardinality(DOMAIN ids)
<1>1. /\ size \in Nat /\ size <= Cardinality(Node) /\ Cardinality(Node) \in Nat
      /\ (size = Cardinality(Node) => DOMAIN ids = Node)
  BY NodeAssumption, FS_Subset, FS_CardinalityType
<1>2. size \in 0 .. IdLimit
  BY <1>1, NodeAssumption, IdLimitAssumption
<1>3. ASSUME NEW node \in Node \ DOMAIN ids PROVE size < IdLimit
  <2>1. size # Cardinality(Node)
    BY <1>1, <1>3
  <2> QED
    BY <1>1, <2>1, NodeAssumption, IdLimitAssumption
<1>4. NextId(ids) = size
  BY <1>2, IdLimitAssumption DEF NextId
<1> QED
  BY <1>2, <1>3, <1>4

(* One node is registered: its id, if it is new, is the number of nodes    *)
(* met before, and so is its place in the list of locations.               *)
LEMMA RegisterStep ==
  ASSUME Position, pc = "pairs", NEW ids, NEW list, NodeTables(ids, list),
         NEW node \in Node, node \in DOMAIN ids \/ LocationKnown(node)
  PROVE  /\ NodeTables(Register(node, ids), Listed(node, ids, list))
         /\ DOMAIN Register(node, ids) = DOMAIN ids \cup {node}
         /\ Keeps(ids, Register(node, ids))
         /\ PlacesAdded(ids, list, Register(node, ids), Listed(node, ids, list))
<1> DEFINE size == Cardinality(DOMAIN ids)
           new == Register(node, ids)
           entry == <<CurrentFile.at[node], size>>
           longer == Listed(node, ids, list)
<1>1. size \in 0 .. IdLimit /\ NextId(ids) = size
  BY NextIdIsCount DEF NodeTables
<1>2. /\ DOMAIN new = DOMAIN ids \cup {node}
      /\ \A n \in DOMAIN ids : new[n] = ids[n]
      /\ node \notin DOMAIN ids => new[node] = size
      /\ Keeps(ids, new)
  <2>1. new = Emplace(ids, node, size)
    BY <1>1 DEF Register
  <2>2. new = [k \in DOMAIN ids \cup {node} |-> IF k \in DOMAIN ids THEN ids[k] ELSE size]
    BY <2>1 DEF Emplace
  <2> HIDE DEF new, size
  <2> QED
    BY <2>2 DEF Keeps
<1>3. Dense(new) /\ Cardinality(DOMAIN new) = IF node \in DOMAIN ids THEN size ELSE size + 1
  BY <1>1, DenseGrows DEF Register, NodeTables
<1>4. DOMAIN new \subseteq Node
  BY <1>2 DEF NodeTables
<1>5. \A n \in DOMAIN ids : ids[n] \in 0 .. (size - 1)
  BY DEF NodeTables, Dense
<1>6. longer = IF node \in DOMAIN ids \/ ~createRTree THEN list ELSE Append(list, entry)
  BY <1>1 DEF Listed
<1> SUFFICES NodeTables(new, longer) /\ PlacesAdded(ids, list, new, longer)
  BY <1>2
<1> HIDE DEF new, longer, size
<1>7. CASE ~createRTree
  BY <1>3, <1>4, <1>6, <1>7 DEF NodeTables, PlacesAdded
<1>8. CASE node \in DOMAIN ids /\ createRTree
  <2>1. DOMAIN new = DOMAIN ids /\ Cardinality(DOMAIN new) = size
    BY <1>2, <1>3, <1>8
  <2> QED
    BY <1>2, <1>3, <1>6, <1>8, <2>1 DEF NodeTables, PlacesAdded, PlaceOf, size
<1>9. CASE node \notin DOMAIN ids /\ createRTree
  <2>1. file \in DOMAIN Files /\ Files[file] = CurrentFile /\ CurrentFile \in OSMFile
    BY InputFacts DEF Position, InWay, CurrentFile, Files
  <2>2. CurrentFile.at[node] \in Int
    BY <1>9, <2>1, FileFacts DEF LocationKnown
  <2>3. entry \in Int \X (0 .. IdLimit)
    BY <1>1, <2>2
  <2> DEFINE S == Int \X (0 .. IdLimit)
  <2>4. list \in Seq(S) /\ Len(list) = size /\ size \in Nat
    BY <1>1, <1>9 DEF NodeTables, size
  <2>5. /\ longer \in Seq(S) /\ Len(longer) = size + 1
        /\ \A i \in 1 .. size : longer[i] = list[i]
        /\ longer[size + 1] = entry
    <3>1. longer = Append(list, entry)
      BY <1>6, <1>9
    <3> HIDE DEF S, entry
    <3> QED
      BY <2>3, <2>4, <3>1, AppendProperties DEF S
  <2>6. ASSUME NEW n \in DOMAIN new
        PROVE  /\ longer[new[n] + 1][2] = new[n] /\ LocationOf(n, longer[new[n] + 1][1])
               /\ n \in DOMAIN ids => PlaceOf(n, new, longer) = PlaceOf(n, ids, list)
               /\ n \notin DOMAIN ids => PlaceOf(n, new, longer) = CurrentFile.at[n]
    <3>1. CASE n \in DOMAIN ids
      <4>1. new[n] = ids[n] /\ longer[ids[n] + 1] = list[ids[n] + 1]
        <5>1. ids[n] \in 0 .. (size - 1)
        BY <1>5, <3>1
      <5> HIDE DEF S
      <5> QED
        BY <1>2, <2>4, <2>5, <3>1, <5>1
      <4> QED
        BY <1>9, <3>1, <4>1 DEF NodeTables, PlaceOf
    <3>2. CASE n = node
      <4>1. longer[new[n] + 1] = <<CurrentFile.at[node], size>> /\ new[n] = size
        BY <1>2, <1>9, <2>5, <3>2
      <4>2. LocationOf(n, CurrentFile.at[node])
        BY <2>1, <3>2 DEF LocationOf, Position
      <4> QED
        BY <1>9, <3>2, <4>1, <4>2 DEF PlaceOf
    <3> QED
      BY <1>2, <3>1, <3>2
  <2> QED
    BY <1>3, <1>4, <1>9, <2>5, <2>6 DEF NodeTables, PlacesAdded
<1> QED
  BY <1>7, <1>8, <1>9

(* One turn of the loop over the node pairs: none, one or both nodes.      *)
LEMMA PairNodes ==
  ASSUME Position, NodesInv, StorePair
  PROVE  /\ NodeTables(external_internal_map', used_nodes_list')
         /\ Keeps(external_internal_map, external_internal_map')
         /\ PlacesAdded(external_internal_map, used_nodes_list,
                        external_internal_map', used_nodes_list')
<1> DEFINE a == CurrentWay.nodes[step]
           b == CurrentWay.nodes[step + 1]
           ids == Register(a, external_internal_map)
           list == Listed(a, external_internal_map, used_nodes_list)
<1>1. pc = "pairs" /\ NodeTables(external_internal_map, used_nodes_list)
  BY DEF StorePair, NodesInv
<1>2. a \in Node /\ b \in Node
  <2>1. CurrentFile \in OSMFile /\ way \in DOMAIN CurrentFile.ways
    BY <1>1, InputFacts, FileFacts DEF Position, InWay, CurrentFile, Files
  <2>2. CurrentWay \in OSMWay
    BY <2>1, FileFacts DEF CurrentWay
  <2>3. step \in 1 .. Len(CurrentWay.nodes) /\ step + 1 \in 1 .. Len(CurrentWay.nodes)
    BY <2>2, WayFacts DEF StorePair, Position
  <2> QED
    BY <2>2, <2>3, WayFacts
<1>3. ASSUME CanRegister(a)
      PROVE  /\ NodeTables(ids, list)
             /\ Keeps(external_internal_map, ids)
             /\ DOMAIN external_internal_map \subseteq DOMAIN ids
             /\ PlacesAdded(external_internal_map, used_nodes_list, ids, list)
  BY <1>1, <1>2, <1>3, RegisterStep DEF CanRegister
<1> HIDE DEF a, b, ids, list
<1>4. CASE /\ CanRegister(a) /\ CanRegister(b)
           /\ external_internal_map' = Register(b, ids)
           /\ used_nodes_list' = Listed(b, ids, list)
  <2>1. b \in DOMAIN ids \/ LocationKnown(b)
    BY <1>3, <1>4 DEF CanRegister
  <2>2. /\ NodeTables(Register(b, ids), Listed(b, ids, list)) /\ Keeps(ids, Register(b, ids))
        /\ PlacesAdded(ids, list, Register(b, ids), Listed(b, ids, list))
    BY <1>1, <1>2, <1>3, <1>4, <2>1, RegisterStep
  <2> QED
    BY <1>3, <1>4, <2>2 DEF Keeps, PlacesAdded
<1>5. CASE CanRegister(a) /\ external_internal_map' = ids /\ used_nodes_list' = list
  BY <1>3, <1>5
<1>6. CASE UNCHANGED nodeTables
  BY <1>1, <1>6 DEF nodeTables, Keeps, PlacesAdded
<1> QED
  BY <1>4, <1>5, <1>6 DEF StorePair, a, b, ids, list

LEMMA InitNodes == Init => NodesInv
<1> SUFFICES ASSUME Init PROVE NodesInv
  OBVIOUS
<1>1. external_internal_map = EmptyMap /\ used_nodes_list = <<>> /\ pc = "start"
  BY DEF Init
<1>2. used_nodes_list \in Seq(Int \X (0 .. IdLimit)) /\ Len(used_nodes_list) = 0
  BY <1>1, EmptySeq
<1> QED
  BY <1>1, <1>2, EmptyIsDense DEF NodesInv, NodeTables

LEMMA NextNodes == Position /\ NodesInv /\ [Next]_vars => NodesInv'
<1> SUFFICES ASSUME Position, NodesInv, [Next]_vars PROVE NodesInv'
  OBVIOUS
<1>1. CASE StorePair
  <2>1. NodeTables(external_internal_map', used_nodes_list')
    BY <1>1, PairNodes
  <2>2. pc' = "pairs" /\ file' = file /\ input' = input
    BY <1>1 DEF StorePair
  <2>3. NodeTables(external_internal_map, used_nodes_list)'
    BY <2>1, <2>2 DEF NodeTables, LocationOf, Files, createRTree
  <2> QED
    BY <2>2, <2>3 DEF NodesInv, NodeTables
<1>2. CASE SetupDatabase
  BY <1>2 DEF SetupDatabase, NodesInv
<1>3. CASE UNCHANGED nodeTables /\ ~SetupDatabase
  <2>1. pc = "done" \/ pc' = "done" => pc = "done" /\ pc' = "done"
    BY <1>3, Touches
  <2>2. CASE pc = "done"
    BY <1>3, <2>1, <2>2 DEF NodesInv, nodeTables
  <2>3. CASE pc # "done"
    <3>1. NodeTables(external_internal_map, used_nodes_list)
      BY <2>3 DEF NodesInv
    <3>2. /\ external_internal_map' = external_internal_map
          /\ used_nodes_list' = used_nodes_list
      BY <1>3 DEF nodeTables
    <3>3. input' = input /\ file \in Nat /\ file' \in Nat /\ file <= file'
      BY Touches DEF Position
    (* A later file may only add to what is known of a location.           *)
    <3>4. \A n \in DOMAIN external_internal_map :
            LocationOf(n, used_nodes_list[external_internal_map[n] + 1][1])
              => LocationOf(n, used_nodes_list[external_internal_map[n] + 1][1])'
      BY <3>2, <3>3, InputFacts DEF LocationOf, Files, Position
    <3>5. NodeTables(external_internal_map, used_nodes_list)'
      BY <3>1, <3>2, <3>3, <3>4 DEF NodeTables, createRTree
    <3> QED
      BY <2>1, <2>3, <3>5 DEF NodesInv, NodeTables
  <2> QED
    BY <2>2, <2>3
<1> QED
  BY <1>1, <1>2, <1>3, Touches

LEMMA NodesDense == NodesInv => NodeIdsDense
<1> SUFFICES ASSUME NodesInv PROVE NodeIdsDense
  OBVIOUS
<1> DEFINE ids == external_internal_map
           size == Cardinality(DOMAIN ids)
<1>1. Dense(ids) /\ size \in 0 .. IdLimit
  BY NextIdIsCount DEF NodesInv
<1>2. {ids[n] : n \in DOMAIN ids} = 0 .. (size - 1)
  BY <1>1 DEF Dense
<1>3. INVALID_INTERNAL_NODEID \notin 0 .. (size - 1)
  BY <1>1, IdLimitAssumption DEF INVALID_INTERNAL_NODEID
<1> QED
  BY <1>1, <1>2, <1>3 DEF NodeIdsDense, Dense

LEMMA MinOfTwo ==
  ASSUME NEW a \in Nat, NEW b \in Nat
  PROVE  Min({a, b}) = IF a <= b THEN a ELSE b
<1>1. CASE a <= b
  <2>1. \A x \in {a, b} : (\A y \in {a, b} : x =< y) <=> x = a
    BY <1>1
  <2> QED
    BY <1>1, <2>1 DEF Min
<1>2. CASE ~(a <= b)
  <2>1. \A x \in {a, b} : (\A y \in {a, b} : x =< y) <=> x = b
    BY <1>2
  <2> QED
    BY <1>2, <2>1 DEF Min
<1> QED
  BY <1>1, <1>2

LEMMA NodesListed == Position /\ NodesInv => NodeListAligned
<1> SUFFICES ASSUME Position, NodesInv, createRTree, pc # "done"
             PROVE  /\ Len(used_nodes_list) = Cardinality(DOMAIN external_internal_map)
                    /\ \A n \in DOMAIN external_internal_map :
                         LET id == external_internal_map[n]
                         IN  /\ used_nodes_list[id + 1][2] = id
                             /\ \E f \in 1 .. Min({file, Len(Files)}) :
                                  used_nodes_list[id + 1][1] = Files[f].at[n]
  BY DEF NodeListAligned
<1>1. NodeTables(external_internal_map, used_nodes_list)
  BY DEF NodesInv
<1>2. /\ file \in Nat /\ Len(Files) \in Nat /\ DOMAIN Files = 1 .. Len(Files)
      /\ Min({file, Len(Files)}) = IF file <= Len(Files) THEN file ELSE Len(Files)
  BY InputFacts, MinOfTwo DEF Position
<1>3. \A f \in DOMAIN Files : f <= file => f \in 1 .. Min({file, Len(Files)})
  BY <1>2
<1> QED
  BY <1>1, <1>3 DEF NodeTables, LocationOf
-----------------------------------------------------------------------------
(* The string table and the tags.                                          *)

Entry == [first : Nat, second : Nat]

Interns(index, texts) ==
  /\ Dense(index) /\ DOMAIN index \subseteq Text
  /\ texts \in Seq(Text) /\ Len(texts) = Cardinality(DOMAIN index)
  /\ \A s \in DOMAIN index : texts[index[s] + 1] = Clip(s)

(* Every tag names texts that are held, every range tags that are.         *)
TextsInv ==
  /\ strings \in Seq(Text) /\ DOMAIN string_index \subseteq Text
  /\ pc # "done" => Interns(string_index, strings)
  /\ key_value_pairs \in Seq(Entry)
  /\ \A i \in 1 .. Len(key_value_pairs) :
       /\ key_value_pairs[i].first < Len(strings)
       /\ key_value_pairs[i].second < Len(strings)

LEMMA ClipType ==
  ASSUME NEW text \in Text
  PROVE  Clip(text) \in Text
BY TextAssumption DEF Clip, Text

(* Interning a text adds it, if it is new, with the next id.               *)
LEMMA InternStep ==
  ASSUME NEW index, NEW texts, Interns(index, texts), NEW text \in Text
  PROVE  LET index1 == Interned(index, text)
             texts1 == texts \o Added(index, text)
         IN  /\ Interns(index1, texts1)
             /\ Keeps(index, index1) /\ Keeps(texts, texts1)
             /\ Len(texts1) >= Len(texts)
             /\ text \in DOMAIN index1 /\ index1[text] \in 0 .. (Len(texts1) - 1)
<1> DEFINE size == Cardinality(DOMAIN index)
           index1 == Interned(index, text)
           texts1 == texts \o Added(index, text)
<1>1. /\ Dense(index) /\ size \in Nat
      /\ texts \in Seq(Text) /\ Len(texts) = size /\ DOMAIN texts = 1 .. size
      /\ \A s \in DOMAIN index : index[s] \in 0 .. (size - 1)
  BY FS_CardinalityType, LenProperties DEF Interns, Dense
<1>2. /\ Dense(index1)
      /\ Cardinality(DOMAIN index1) = IF text \in DOMAIN index THEN size ELSE size + 1
      /\ index1[text] \in 0 .. (Cardinality(DOMAIN index1) - 1)
  BY <1>1, DenseGrows DEF Interned
<1>3. index1 = [k \in DOMAIN index \cup {text} |-> IF k \in DOMAIN index THEN index[k] ELSE size]
  BY DEF Interned, Emplace
<1>4. Added(index, text) \in Seq(Text)
      /\ Len(Added(index, text)) = IF text \in DOMAIN index THEN 0 ELSE 1
  BY ClipType DEF Added
<1>5. /\ texts1 \in Seq(Text)
      /\ Len(texts1) = IF text \in DOMAIN index THEN size ELSE size + 1
      /\ \A i \in 1 .. size : texts1[i] = texts[i]
      /\ text \notin DOMAIN index => texts1[size + 1] = Added(index, text)[1]
  <2> DEFINE more == Added(index, text)
  <2>1. more \in Seq(Text) /\ Len(more) = IF text \in DOMAIN index THEN 0 ELSE 1
    BY <1>4
  <2> HIDE DEF more, size
  <2>2. /\ texts \o more \in Seq(Text) /\ Len(texts \o more) = Len(texts) + Len(more)
        /\ \A i \in 1 .. (Len(texts) + Len(more)) :
             (texts \o more)[i] = IF i <= Len(texts) THEN texts[i] ELSE more[i - Len(texts)]
    BY <1>1, <2>1, ConcatProperties
  <2>3. \A i \in 1 .. size : (texts \o more)[i] = texts[i]
    BY <1>1, <2>1, <2>2
  <2>4. text \notin DOMAIN index => (texts \o more)[size + 1] = more[1]
    <3>1. size + 1 - size = 1 /\ ~(size + 1 <= size)
      BY <1>1
    <3> QED
      BY <1>1, <2>1, <2>2, <3>1
  <2>5. Len(texts \o more) = IF text \in DOMAIN index THEN size ELSE size + 1
    BY <1>1, <2>1, <2>2
  <2>6. texts1 = texts \o more
    BY DEF more
  <2> HIDE DEF texts1
  <2> QED
    BY <2>2, <2>3, <2>4, <2>5, <2>6 DEF more
<1>6. text \notin DOMAIN index => Added(index, text)[1] = Clip(text)
  BY DEF Added
<1>7. DOMAIN texts1 = 1 .. Len(texts1)
  BY <1>5, LenProperties
<1>8. DOMAIN index \subseteq Text /\ \A s \in DOMAIN index : texts[index[s] + 1] = Clip(s)
  BY DEF Interns
<1> HIDE DEF index1, texts1, size
<1>9. \A s \in DOMAIN index1 : texts1[index1[s] + 1] = Clip(s)
  <2> TAKE s \in DOMAIN index1
  <2>1. CASE s \in DOMAIN index
    <3>1. index1[s] = index[s] /\ index[s] \in 0 .. (size - 1) /\ index[s] + 1 \in 1 .. size
      BY <1>1, <1>3, <2>1
    <3> QED
      BY <1>5, <1>8, <2>1, <3>1
  <2>2. CASE s \notin DOMAIN index
    <3>1. s = text /\ index1[s] = size
      BY <1>3, <2>2
    <3> QED
      BY <1>5, <1>6, <2>2, <3>1
  <2> QED
    BY <2>1, <2>2
<1>10. Interns(index1, texts1)
  <2>1. DOMAIN index1 \subseteq Text
    BY <1>3, <1>8
  <2> QED
    BY <1>2, <1>5, <1>9, <2>1 DEF Interns
<1>11. Keeps(index, index1)
  BY <1>3 DEF Keeps
<1>12. Keeps(texts, texts1) /\ Len(texts1) >= Len(texts)
  BY <1>1, <1>5, <1>7 DEF Keeps
<1>13. text \in DOMAIN index1 /\ index1[text] \in 0 .. (Len(texts1) - 1)
  BY <1>1, <1>2, <1>3, <1>5
<1> QED
  BY <1>10, <1>11, <1>12, <1>13 DEF index1, texts1

LEMMA AppendKeeps ==
  ASSUME NEW S, NEW seq \in Seq(S), NEW elt \in S
  PROVE  Keeps(seq, Append(seq, elt))
<1>1. Len(seq) \in Nat /\ DOMAIN seq = 1 .. Len(seq)
  BY LenProperties
<1>2. /\ Append(seq, elt) \in Seq(S) /\ Len(Append(seq, elt)) = Len(seq) + 1
      /\ \A i \in 1 .. Len(seq) : Append(seq, elt)[i] = seq[i]
  BY AppendProperties
<1>3. DOMAIN Append(seq, elt) = 1 .. (Len(seq) + 1)
  BY <1>2, LenProperties
<1> QED
  BY <1>1, <1>2, <1>3 DEF Keeps

(* A tag that is stored: its key and then its value are interned.          *)
LEMMA EntryStep ==
  ASSUME TextsInv, pc # "done", NEW key \in Text, NEW value \in Text, StoreEntry(key, value)
  PROVE  /\ Interns(string_index', strings')
         /\ key_value_pairs' \in Seq(Entry)
         /\ Len(key_value_pairs') = Len(key_value_pairs) + 1
         /\ \A i \in 1 .. Len(key_value_pairs') :
              /\ key_value_pairs'[i].first < Len(strings')
              /\ key_value_pairs'[i].second < Len(strings')
         /\ LET entry == key_value_pairs'[Len(key_value_pairs) + 1]
            IN  /\ strings'[entry.first + 1] = Clip(key)
                /\ strings'[entry.second + 1] = Clip(value)
         /\ Keeps(string_index, string_index') /\ Keeps(strings, strings')
         /\ Keeps(key_value_pairs, key_value_pairs')
<1> DEFINE index1 == Interned(string_index, key)
           index2 == Interned(index1, value)
           texts1 == strings \o Added(string_index, key)
           texts2 == texts1 \o Added(index1, value)
           entry == [first |-> index1[key], second |-> index2[value]]
<1>1. /\ string_index' = index2 /\ strings' = texts2
      /\ key_value_pairs' = Append(key_value_pairs, entry)
  BY DEF StoreEntry
<1>2. /\ Interns(index1, texts1) /\ Keeps(string_index, index1) /\ Keeps(strings, texts1)
      /\ Len(texts1) >= Len(strings)
      /\ key \in DOMAIN index1 /\ index1[key] \in 0 .. (Len(texts1) - 1)
  BY InternStep DEF TextsInv
<1> HIDE DEF index1, texts1
<1>3. /\ Interns(index2, texts2) /\ Keeps(index1, index2) /\ Keeps(texts1, texts2)
      /\ Len(texts2) >= Len(texts1)
      /\ value \in DOMAIN index2 /\ index2[value] \in 0 .. (Len(texts2) - 1)
  BY <1>2, InternStep
<1> HIDE DEF index2, texts2
<1>4. Len(strings) \in Nat /\ Len(texts1) \in Nat /\ Len(texts2) \in Nat
  BY <1>2, <1>3, LenProperties DEF Interns, TextsInv
<1>5. entry \in Entry /\ entry.first < Len(texts2) /\ entry.second < Len(texts2)
  BY <1>2, <1>3, <1>4 DEF Entry
<1>6. key_value_pairs \in Seq(Entry) /\ Len(key_value_pairs) \in Nat
  BY LenProperties DEF TextsInv
<1> HIDE DEF entry
<1>7. /\ key_value_pairs' \in Seq(Entry)
      /\ Len(key_value_pairs') = Len(key_value_pairs) + 1
      /\ \A i \in 1 .. Len(key_value_pairs) : key_value_pairs'[i] = key_value_pairs[i]
      /\ key_value_pairs'[Len(key_value_pairs) + 1] = entry
      /\ Keeps(key_value_pairs, key_value_pairs')
  BY <1>1, <1>5, <1>6, AppendProperties, AppendKeeps
<1>8. ASSUME NEW i \in 1 .. Len(key_value_pairs')
      PROVE  /\ key_value_pairs'[i].first < Len(strings')
             /\ key_value_pairs'[i].second < Len(strings')
  <2>1. CASE i = Len(key_value_pairs) + 1
    BY <1>1, <1>5, <1>7, <2>1
  <2>2. CASE i \in 1 .. Len(key_value_pairs)
    <3>1. /\ key_value_pairs[i] \in Entry
          /\ key_value_pairs[i].first < Len(strings) /\ key_value_pairs[i].second < Len(strings)
      BY <1>6, <2>2, ElementOfSeq DEF TextsInv
    <3> QED
      BY <1>1, <1>2, <1>3, <1>4, <1>7, <2>2, <3>1 DEF Entry
  <2> QED
    BY <1>6, <1>7, <2>1, <2>2
<1>9. Keeps(string_index, index2) /\ Keeps(strings, texts2)
  BY <1>2, <1>3 DEF Keeps
<1>10. texts2[entry.first + 1] = Clip(key) /\ texts2[entry.second + 1] = Clip(value)
  <2>1. texts1[index1[key] + 1] = Clip(key) /\ texts2[index2[value] + 1] = Clip(value)
    BY <1>2, <1>3 DEF Interns
  <2>2. index1[key] + 1 \in DOMAIN texts1
    <3>1. DOMAIN texts1 = 1 .. Len(texts1)
      BY <1>2, LenProperties DEF Interns
    <3> QED
      BY <1>2, <1>4, <3>1
  <2>3. texts2[index1[key] + 1] = texts1[index1[key] + 1]
    BY <1>3, <2>2 DEF Keeps
  <2> QED
    BY <2>1, <2>3 DEF entry
<1> QED
  BY <1>1, <1>3, <1>7, <1>8, <1>9, <1>10

LEMMA CurrentWayFacts ==
  ASSUME Position, InWay \/ (pc = "way" /\ way <= Len(CurrentFile.ways))
  PROVE  /\ file \in DOMAIN Files /\ CurrentFile = Files[file] /\ CurrentFile \in OSMFile
         /\ way \in DOMAIN CurrentFile.ways /\ CurrentWay \in OSMWay
<1>1. file \in DOMAIN Files /\ CurrentFile = Files[file] /\ CurrentFile \in OSMFile
  BY InputFacts DEF Position, CurrentFile, Files
<1>2. way \in DOMAIN CurrentFile.ways
  BY <1>1, FileFacts DEF Position
<1> QED
  BY <1>1, <1>2, FileFacts DEF CurrentWay

LEMMA CurrentTagType ==
  ASSUME Position, pc = "tags", step <= Len(CurrentWay.tags)
  PROVE  CurrentTag \in [key : STRING, value : Text]
<1>1. CurrentWay \in OSMWay
  BY CurrentWayFacts DEF InWay
<1>2. step \in DOMAIN CurrentWay.tags
  BY <1>1, WayFacts DEF Position
<1> QED
  BY <1>1, <1>2, WayFacts DEF CurrentTag

LEMMA StoredValueType ==
  ASSUME NEW tag \in [key : STRING, value : Text]
  PROVE  Plain(tag.key) \in Text /\ StoredValue(tag) \in Text
<1>1. tag.value.number \in Int /\ tag.key \in STRING
  BY DEF Text
<1>2. RoundKph(tag.value.number) \in Int
  <2>1. 50292 * tag.value.number + 15625 \in Int
    BY <1>1
  <2> QED
    BY <2>1 DEF RoundKph
<1>3. Plain(tag.key) \in Text
  BY <1>1 DEF Plain, NoDigits, Text
<1>4. CASE tag.key # "maxspeed"
  BY <1>3, <1>4 DEF StoredValue
<1>5. CASE tag.key = "maxspeed"
  <2> DEFINE n == IF tag.value.rest \in Mph THEN RoundKph(tag.value.number) ELSE tag.value.number
  <2>1. n \in Int /\ StoredValue(tag) = [number |-> n, rest |-> ""]
    BY <1>1, <1>2, <1>5 DEF StoredValue
  <2> HIDE DEF n
  <2>2. [number |-> n, rest |-> ""] \in Text
    <3>1. "" \in STRING
      BY TextAssumption
    <3> QED
      BY <2>1, <3>1 DEF Text
  <2> QED
    BY <1>3, <2>1, <2>2
<1> QED
  BY <1>4, <1>5

LEMMA InitTexts == Init => TextsInv
<1> SUFFICES ASSUME Init PROVE TextsInv
  OBVIOUS
<1>1. string_index = EmptyMap /\ strings = <<>> /\ key_value_pairs = <<>>
  BY DEF Init
<1>2. strings \in Seq(Text) /\ Len(strings) = 0
  BY <1>1, EmptySeq
<1>3. key_value_pairs \in Seq(Entry) /\ Len(key_value_pairs) = 0
  BY <1>1, EmptySeq
<1> QED
  BY <1>1, <1>2, <1>3, EmptyIsDense DEF TextsInv, Interns

LEMMA NextTexts == Position /\ TextsInv /\ [Next]_vars => TextsInv'
<1> SUFFICES ASSUME Position, TextsInv, [Next]_vars PROVE TextsInv'
  OBVIOUS
<1>1. CASE StoreTag /\ ~UNCHANGED tagTables
  <2>1. pc = "tags" /\ pc' = "tags" /\ StoreEntry(Plain(CurrentTag.key), StoredValue(CurrentTag))
    BY <1>1 DEF StoreTag
  <2>2. CurrentTag \in [key : STRING, value : Text]
    BY <1>1, CurrentTagType DEF StoreTag
  <2>3. /\ Interns(string_index', strings') /\ key_value_pairs' \in Seq(Entry)
        /\ \A i \in 1 .. Len(key_value_pairs') :
             /\ key_value_pairs'[i].first < Len(strings')
             /\ key_value_pairs'[i].second < Len(strings')
    BY <2>1, <2>2, StoredValueType, EntryStep
  <2> QED
    BY <2>3 DEF TextsInv, Interns
<1>2. CASE SetupDatabase
  BY <1>2, EmptyIsDense DEF SetupDatabase, TextsInv
<1>3. CASE UNCHANGED tagTables /\ ~SetupDatabase
  <2>1. pc' # "done" => pc # "done"
    BY Touches
  <2> QED
    BY <1>3, <2>1 DEF TextsInv, Interns, tagTables
<1> QED
  BY <1>1, <1>2, <1>3, Touches

-----------------------------------------------------------------------------
(* The ways: their ids and the range of their tags.                        *)

WaysInv ==
  /\ way_tag_ranges \in Seq(Entry)
  /\ internal_to_external_way_id_map \in Seq(0 .. IdLimit)
  /\ Len(internal_to_external_way_id_map) = Len(way_tag_ranges)
  /\ tagstart \in 0 .. Len(key_value_pairs)
  /\ \A i \in 1 .. Len(way_tag_ranges) : way_tag_ranges[i].second <= Len(key_value_pairs)
  /\ pc = "pairs" => Len(way_tag_ranges) > 0

LEMMA InitWays == Init => WaysInv
<1> SUFFICES ASSUME Init PROVE WaysInv
  OBVIOUS
<1>1. /\ way_tag_ranges = <<>> /\ internal_to_external_way_id_map = <<>>
      /\ key_value_pairs = <<>> /\ tagstart = 0 /\ pc = "start"
  BY DEF Init
<1>2. way_tag_ranges \in Seq(Entry) /\ Len(way_tag_ranges) = 0
  BY <1>1, EmptySeq
<1>3. internal_to_external_way_id_map \in Seq(0 .. IdLimit)
  BY <1>1, EmptySeq
<1> QED
  BY <1>1, <1>2, <1>3 DEF WaysInv

(* A step only lengthens the list of tags.                                 *)
LEMMA TagsGrow ==
  ASSUME Position, TextsInv, [Next]_vars
  PROVE  /\ Len(key_value_pairs) \in Nat /\ Len(key_value_pairs') \in Nat
         /\ Len(key_value_pairs) <= Len(key_value_pairs')
         /\ Keeps(key_value_pairs, key_value_pairs')
         /\ Keeps(strings, strings')
         /\ pc' # "done" => Keeps(string_index, string_index')
<1>1. Len(key_value_pairs) \in Nat /\ Len(key_value_pairs') \in Nat
  BY NextTexts, LenProperties DEF TextsInv
<1>2. CASE StoreTag /\ ~UNCHANGED tagTables
  <2>1. pc = "tags" /\ StoreEntry(Plain(CurrentTag.key), StoredValue(CurrentTag))
    BY <1>2 DEF StoreTag
  <2>2. CurrentTag \in [key : STRING, value : Text]
    BY <1>2, CurrentTagType DEF StoreTag
  <2> QED
    BY <1>1, <2>1, <2>2, StoredValueType, EntryStep
<1>3. CASE SetupDatabase
  BY <1>1, <1>3 DEF SetupDatabase, Keeps
<1>4. CASE UNCHANGED tagTables
  BY <1>1, <1>4 DEF tagTables, Keeps
<1> QED
  BY <1>2, <1>3, <1>4, Touches

(* The end of the tags of a way: one entry more in both lists.             *)
LEMMA EndTagsStep ==
  ASSUME Position, TextsInv, WaysInv, EndTags
  PROVE  /\ way_tag_ranges' \in Seq(Entry)
         /\ internal_to_external_way_id_map' \in Seq(0 .. IdLimit)
         /\ Len(way_tag_ranges) \in Nat
         /\ Len(way_tag_ranges') = Len(way_tag_ranges) + 1
         /\ Len(internal_to_external_way_id_map') = Len(way_tag_ranges) + 1
         /\ Keeps(way_tag_ranges, way_tag_ranges')
         /\ Keeps(internal_to_external_way_id_map, internal_to_external_way_id_map')
         /\ \A i \in 1 .. Len(way_tag_ranges') :
              way_tag_ranges'[i].second <= Len(key_value_pairs)
<1> DEFINE entry == [first |-> tagstart, second |-> Len(key_value_pairs)]
           id == CurrentWay.id % (IdLimit + 1)
<1>1. /\ way_tag_ranges' = Append(way_tag_ranges, entry)
      /\ internal_to_external_way_id_map' = Append(internal_to_external_way_id_map, id)
  BY DEF EndTags
<1>2. Len(key_value_pairs) \in Nat
  BY LenProperties DEF TextsInv
<1>3. entry \in Entry /\ entry.second = Len(key_value_pairs)
  BY <1>2 DEF WaysInv, Entry
<1>4. id \in 0 .. IdLimit
  <2>1. CurrentWay.id \in Nat
    BY CurrentWayFacts, WayFacts DEF EndTags, InWay
  <2> QED
    BY <2>1, IdLimitAssumption
<1>5. /\ way_tag_ranges \in Seq(Entry) /\ Len(way_tag_ranges) \in Nat
      /\ internal_to_external_way_id_map \in Seq(0 .. IdLimit)
      /\ Len(internal_to_external_way_id_map) = Len(way_tag_ranges)
  BY LenProperties DEF WaysInv
<1> HIDE DEF entry, id
<1>6. /\ way_tag_ranges' \in Seq(Entry)
      /\ Len(way_tag_ranges') = Len(way_tag_ranges) + 1
      /\ \A i \in 1 .. Len(way_tag_ranges) : way_tag_ranges'[i] = way_tag_ranges[i]
      /\ way_tag_ranges'[Len(way_tag_ranges) + 1] = entry
      /\ Keeps(way_tag_ranges, way_tag_ranges')
  BY <1>1, <1>3, <1>5, AppendProperties, AppendKeeps
<1>7. /\ internal_to_external_way_id_map' \in Seq(0 .. IdLimit)
      /\ Len(internal_to_external_way_id_map') = Len(way_tag_ranges) + 1
      /\ Keeps(internal_to_external_way_id_map, internal_to_external_way_id_map')
  <2> DEFINE Id == 0 .. IdLimit
  <2>1. id \in Id /\ internal_to_external_way_id_map \in Seq(Id)
    BY <1>4, <1>5
  <2> HIDE DEF Id
  <2>2. /\ internal_to_external_way_id_map' \in Seq(Id)
        /\ Len(internal_to_external_way_id_map') = Len(way_tag_ranges) + 1
        /\ Keeps(internal_to_external_way_id_map, internal_to_external_way_id_map')
    BY <1>1, <1>5, <2>1, AppendProperties, AppendKeeps
  <2> QED
    BY <2>2 DEF Id
<1>8. ASSUME NEW i \in 1 .. Len(way_tag_ranges')
      PROVE  way_tag_ranges'[i].second <= Len(key_value_pairs)
  <2>1. CASE i = Len(way_tag_ranges) + 1
    BY <1>2, <1>3, <1>6, <2>1
  <2>2. CASE i \in 1 .. Len(way_tag_ranges)
    BY <1>6, <2>2 DEF WaysInv
  <2> QED
    BY <1>5, <1>6, <2>1, <2>2
<1> QED
  BY <1>5, <1>6, <1>7, <1>8

LEMMA NextWays == Position /\ TextsInv /\ WaysInv /\ [Next]_vars => WaysInv'
<1> SUFFICES ASSUME Position, TextsInv, WaysInv, [Next]_vars PROVE WaysInv'
  OBVIOUS
<1>1. /\ Len(key_value_pairs) \in Nat /\ Len(key_value_pairs') \in Nat
      /\ Len(key_value_pairs) <= Len(key_value_pairs')
  BY TagsGrow
<1>2. tagstart' \in 0 .. Len(key_value_pairs')
  <2>1. CASE UNCHANGED tagstart
    BY <1>1, <2>1 DEF WaysInv
  <2>2. CASE StartWay
    BY <1>1, <2>2 DEF StartWay, MarkTags, SkipWay, WaysInv
  <2> QED
    BY <2>1, <2>2, Touches
<1>3. CASE EndTags
  <2>1. key_value_pairs' = key_value_pairs
    BY <1>3 DEF EndTags, tagTables
  <2> QED
    BY <1>2, <1>3, <2>1, EndTagsStep DEF WaysInv
<1>4. CASE UNCHANGED wayTables /\ ~EndTags
  <2>1. pc' = "pairs" => pc = "pairs"
    BY <1>4, Touches
  <2>2. \A i \in 1 .. Len(way_tag_ranges) : way_tag_ranges[i].second \in Nat
    <3>1. \A i \in 1 .. Len(way_tag_ranges) : way_tag_ranges[i] \in Entry
      BY ElementOfSeq DEF WaysInv
    <3> QED
      BY <3>1 DEF Entry
  <2>3. \A i \in 1 .. Len(way_tag_ranges) : way_tag_ranges[i].second <= Len(key_value_pairs')
    BY <1>1, <2>2 DEF WaysInv
  <2> QED
    BY <1>2, <1>4, <2>1, <2>3 DEF WaysInv, wayTables
<1> QED
  BY <1>3, <1>4, Touches

-----------------------------------------------------------------------------
(* The pairs: between nodes that have ids, on ways that have tags.         *)

PairsInv ==
  \A pair \in DOMAIN pair_way_map :
    /\ \E i, j \in Range(external_internal_map) : pair = <<i, j>>
    /\ pair_way_map[pair].forward \in BOOLEAN
    /\ pair_way_map[pair].id \in 0 .. (Len(way_tag_ranges) - 1)

LEMMA KeepsRange ==
  ASSUME NEW old, NEW new, Keeps(old, new)
  PROVE  Range(old) \subseteq Range(new)
BY DEF Keeps, Range

(* A stored pair keeps its way; a new one is of the way being read.        *)
LEMMA PairsStep ==
  ASSUME Position, NodesInv, WaysInv, StorePair
  PROVE  /\ Keeps(pair_way_map, pair_way_map')
         /\ \A pair \in DOMAIN pair_way_map' \ DOMAIN pair_way_map :
              /\ \E i, j \in Range(external_internal_map') : pair = <<i, j>>
              /\ pair_way_map'[pair].forward \in BOOLEAN
              /\ pair_way_map'[pair].id = WayId
<1> DEFINE a == CurrentWay.nodes[step]
           b == CurrentWay.nodes[step + 1]
           ia == external_internal_map'[a]
           ib == external_internal_map'[b]
           entry == [id |-> WayId, forward |-> ia < ib]
           ids == Register(a, external_internal_map)
<1>1. CASE /\ external_internal_map' = Register(b, ids)
           /\ pair_way_map' = Emplace(pair_way_map, PairKey(ia, ib), entry)
  <2>1. a \in DOMAIN external_internal_map' /\ b \in DOMAIN external_internal_map'
    BY <1>1 DEF Register, Emplace
  <2>2. ia \in Range(external_internal_map') /\ ib \in Range(external_internal_map')
    BY <2>1 DEF Range
  <2>3. entry.id = WayId /\ entry.forward \in BOOLEAN
    OBVIOUS
  <2>4. \E i, j \in Range(external_internal_map') : PairKey(ia, ib) = <<i, j>>
    <3> HIDE DEF ia, ib
    <3> QED
      BY <2>2 DEF PairKey
  <2> DEFINE key == PairKey(ia, ib)
  <2> HIDE DEF entry, key
  <2>5. /\ DOMAIN pair_way_map' = DOMAIN pair_way_map \cup {key}
        /\ key \notin DOMAIN pair_way_map => pair_way_map'[key] = entry
        /\ Keeps(pair_way_map, pair_way_map')
    <3>1. pair_way_map' = [k \in DOMAIN pair_way_map \cup {key} |->
                            IF k \in DOMAIN pair_way_map THEN pair_way_map[k] ELSE entry]
      BY <1>1 DEF Emplace, key
    <3> QED
      BY <3>1 DEF Keeps
  <2> QED
    BY <2>3, <2>4, <2>5 DEF key
<1>2. CASE UNCHANGED pair_way_map
  BY <1>2 DEF Keeps
<1> QED
  BY <1>1, <1>2 DEF StorePair

LEMMA NextPairs ==
  Position /\ NodesInv /\ TextsInv /\ WaysInv /\ PairsInv /\ [Next]_vars => PairsInv'
<1> SUFFICES ASSUME Position, NodesInv, TextsInv, WaysInv, PairsInv, [Next]_vars,
                    NEW pair \in DOMAIN pair_way_map'
             PROVE  /\ \E i, j \in Range(external_internal_map') : pair = <<i, j>>
                    /\ pair_way_map'[pair].forward \in BOOLEAN
                    /\ pair_way_map'[pair].id \in 0 .. (Len(way_tag_ranges') - 1)
  BY DEF PairsInv
<1>1. Range(external_internal_map) \subseteq Range(external_internal_map')
  <2>1. CASE StorePair
    BY <2>1, PairNodes, KeepsRange
  <2>2. CASE UNCHANGED external_internal_map
    BY <2>2
  <2> QED
    BY <2>1, <2>2, Touches DEF nodeTables, SetupDatabase
<1>2. /\ Len(way_tag_ranges) \in Nat /\ Len(way_tag_ranges') \in Nat
      /\ Len(way_tag_ranges) <= Len(way_tag_ranges')
  <2>1. Len(way_tag_ranges) \in Nat
    BY LenProperties DEF WaysInv
  <2>2. Len(way_tag_ranges') = Len(way_tag_ranges) \/ Len(way_tag_ranges') = Len(way_tag_ranges) + 1
    BY Touches, EndTagsStep DEF wayTables
  <2> QED
    BY <2>1, <2>2
<1>3. CASE pair \in DOMAIN pair_way_map
  <2>1. Keeps(pair_way_map, pair_way_map')
    BY Touches, PairsStep DEF Keeps
  <2>2. pair_way_map'[pair] = pair_way_map[pair]
    BY <1>3, <2>1 DEF Keeps
  <2>3. pair_way_map[pair].id \in 0 .. (Len(way_tag_ranges) - 1)
    BY <1>3 DEF PairsInv
  <2> QED
    BY <1>1, <1>2, <1>3, <2>2, <2>3 DEF PairsInv
<1>4. CASE pair \notin DOMAIN pair_way_map
  <2>1. StorePair
    BY <1>4, Touches
  <2>2. WayId \in 0 .. (Len(way_tag_ranges) - 1)
    BY <1>2, <2>1 DEF WaysInv, WayId, StorePair
  <2> QED
    BY <1>2, <1>4, <2>1, <2>2, PairsStep
<1> QED
  BY <1>3, <1>4

-----------------------------------------------------------------------------
(* The tree.                                                               *)

TreeInv ==
  IF pc = "done" /\ createRTree
    THEN /\ rtree.null = FALSE
         /\ rtree.values \subseteq Int \X (0 .. IdLimit)
    ELSE rtree = [null |-> TRUE, values |-> {}]

LEMMA TreeBuilt ==
  ASSUME Position, NodesInv, SetupDatabase, createRTree
  PROVE  /\ rtree' = [null |-> FALSE, values |-> ToSet(used_nodes_list)]
         /\ rtree'.values \subseteq Int \X (0 .. IdLimit)
<1>1. rtree' = [null |-> FALSE, values |-> ToSet(used_nodes_list)]
  BY DEF SetupDatabase, build_rtree
<1>2. used_nodes_list \in Seq(Int \X (0 .. IdLimit))
  BY DEF SetupDatabase, NodesInv, NodeTables
<1>3. /\ DOMAIN used_nodes_list = 1 .. Len(used_nodes_list)
      /\ \A i \in 1 .. Len(used_nodes_list) : used_nodes_list[i] \in Int \X (0 .. IdLimit)
  BY <1>2, LenProperties, ElementOfSeq
<1>4. ToSet(used_nodes_list) \subseteq Int \X (0 .. IdLimit)
  BY <1>3 DEF ToSet
<1> QED
  BY <1>1, <1>4

LEMMA TreeNull ==
  ASSUME TreeInv
  PROVE  rtree.null = ~(pc = "done" /\ createRTree)
<1>1. CASE pc = "done" /\ createRTree
  BY <1>1 DEF TreeInv
<1>2. CASE ~(pc = "done" /\ createRTree)
  <2>1. rtree = [null |-> TRUE, values |-> {}]
    BY <1>2 DEF TreeInv
  <2>2. rtree.null = TRUE
    BY <2>1
  <2> QED
    BY <1>2, <2>2
<1> QED
  BY <1>1, <1>2

LEMMA NextTree == Position /\ NodesInv /\ TreeInv /\ [Next]_vars => TreeInv'
<1> SUFFICES ASSUME Position, NodesInv, TreeInv, [Next]_vars PROVE TreeInv'
  OBVIOUS
<1>1. createRTree' = createRTree
  BY Touches DEF createRTree
<1>2. CASE SetupDatabase
  <2>1. /\ pc' = "done" /\ pc # "done" /\ external_internal_map' = external_internal_map
        /\ ~createRTree => rtree' = rtree
    BY <1>2 DEF SetupDatabase
  <2>2. CASE createRTree
    BY <1>1, <1>2, <2>1, <2>2, TreeBuilt DEF TreeInv
  <2>3. CASE ~createRTree
    BY <1>1, <2>1, <2>3 DEF TreeInv
  <2> QED
    BY <2>2, <2>3
<1>3. CASE ~SetupDatabase
  <2>1. rtree' = rtree /\ (pc' = "done" => pc = "done")
        /\ (pc = "done" => pc' = "done" /\ UNCHANGED vars)
    BY <1>3, Touches
  <2>2. pc = "done" => external_internal_map' = external_internal_map
    BY <2>1 DEF vars, nodeTables
  <2> QED
    BY <1>1, <2>1, <2>2 DEF TreeInv
<1> QED
  BY <1>2, <1>3

-----------------------------------------------------------------------------
(* The invariant.                                                          *)

IInv == Position /\ NodesInv /\ TextsInv /\ WaysInv /\ PairsInv /\ TreeInv

LEMMA InitIInv == Init => IInv
<1> SUFFICES ASSUME Init PROVE PairsInv /\ TreeInv
  BY InitPosition, InitNodes, InitTexts, InitWays DEF IInv
<1> QED
  BY EmptyIsDense DEF Init, PairsInv, TreeInv

LEMMA NextIInv == IInv /\ [Next]_vars => IInv'
BY NextPosition, NextNodes, NextTexts, NextWays, NextPairs, NextTree DEF IInv

LEMMA IInvariant == Spec => []IInv
BY InitIInv, NextIInv, PTL DEF Spec

LEMMA IInvTypes == IInv => TypeOK
<1> SUFFICES ASSUME IInv PROVE TypeOK
  OBVIOUS
<1>1. Len(key_value_pairs) \in Nat /\ Len(way_tag_ranges) \in Nat
  BY LenProperties DEF IInv, TextsInv, WaysInv
<1>2. used_nodes_list \in Seq(Int \X (0 .. IdLimit))
  BY EmptySeq DEF IInv, NodesInv, NodeTables
<1>3. \A i \in Range(external_internal_map) : i \in 0 .. IdLimit
  <2>1. Cardinality(DOMAIN external_internal_map) \in 0 .. IdLimit
    BY NextIdIsCount DEF IInv, NodesInv
  <2>2. \A n \in DOMAIN external_internal_map :
          external_internal_map[n] \in 0 .. (Cardinality(DOMAIN external_internal_map) - 1)
    BY DEF IInv, NodesInv, Dense
  <2> QED
    BY <2>1, <2>2, IdLimitAssumption DEF Range
<1>4. \A pair \in DOMAIN pair_way_map :
        pair \in (0 .. IdLimit) \X (0 .. IdLimit) /\ pair_way_map[pair].forward \in BOOLEAN
  BY <1>3 DEF IInv, PairsInv
<1>5. tagstart \in Nat
  BY <1>1 DEF IInv, WaysInv
<1>6. rtree.null \in BOOLEAN
  BY TreeNull DEF IInv
<1> QED
  BY <1>2, <1>4, <1>5, <1>6 DEF IInv, Position, NodesInv, TextsInv, WaysInv, Entry, TypeOK

(* Every variable has the type its field has in the code.                  *)
THEOREM TypeCorrect == Spec => []TypeOK
BY IInvariant, IInvTypes, PTL

(* Node ids are 0 .. n - 1, one for each node that is met, and none of     *)
(* them is the one that means "no node", however many nodes are skipped or *)
(* met again (extractor.cpp:253, 270).                                     *)
THEOREM NodeIdsAreDense == Spec => []NodeIdsDense
<1>1. IInv => NodeIdsDense
  BY NodesDense DEF IInv
<1> QED
  BY <1>1, IInvariant, PTL

(* The location list and the id map grow together: the BOOST_ASSERTs of    *)
(* extractor.cpp:257 and 274 hold in every load.                           *)
THEOREM LocationsFitIds == Spec => []NodeListAligned
<1>1. IInv => NodeListAligned
  BY NodesListed DEF IInv
<1> QED
  BY <1>1, IInvariant, PTL

(* Every text is held once, and equal ids mean equal texts                 *)
(* (database.cpp:42-61).                                                   *)
THEOREM TextsHeldOnce == Spec => []StringsInterned
<1>1. IInv => StringsInterned
  <2> SUFFICES ASSUME IInv, pc # "done"
               PROVE  /\ \A s, t \in DOMAIN string_index :
                           string_index[s] = string_index[t] => s = t
                      /\ {string_index[s] : s \in DOMAIN string_index}
                           = 0 .. (Len(strings) - 1)
                      /\ \A s \in DOMAIN string_index :
                           strings[string_index[s] + 1] = Clip(s)
    BY DEF StringsInterned
  <2>1. Interns(string_index, strings)
    BY DEF IInv, TextsInv
  <2>2. {string_index[s] : s \in DOMAIN string_index} = 0 .. (Len(strings) - 1)
    BY <2>1 DEF Interns, Dense
  <2> QED
    BY <2>1, <2>2 DEF Interns, Dense
<1> QED
  BY <1>1, IInvariant, PTL

-----------------------------------------------------------------------------
(* No index of annotator.cpp leads out of a finished Database: the way ids *)
(* of its pairs have tag ranges, those ranges tags, those tags texts.  This*)
(* is what Annotator assumes of every database that is loaded.             *)
THEOREM DatabaseIsWellFormed == Spec => [](pc = "done" => WellFormed(Database))
<1>1. IInv => WellFormed(Database)
  <2> SUFFICES ASSUME IInv PROVE WellFormed(Database)
    OBVIOUS
  <2>1. /\ Database.way_tag_ranges = way_tag_ranges
        /\ Database.pair_way_map = pair_way_map
        /\ Database.key_value_pairs = key_value_pairs
        /\ Database.strings = strings
        /\ Database.internal_to_external_way_id_map = internal_to_external_way_id_map
    BY DEF Database
  <2>2. /\ way_tag_ranges \in Seq(Entry) /\ Len(way_tag_ranges) \in Nat
        /\ Len(internal_to_external_way_id_map) = Len(way_tag_ranges)
        /\ Len(key_value_pairs) \in Nat
        /\ \A i \in 1 .. Len(way_tag_ranges) :
             way_tag_ranges[i] \in Entry /\ way_tag_ranges[i].second <= Len(key_value_pairs)
    BY LenProperties, ElementOfSeq DEF IInv, WaysInv, TextsInv
  <2>3. \A pair \in DOMAIN pair_way_map :
          pair_way_map[pair].id \in Nat /\ pair_way_map[pair].id < Len(way_tag_ranges)
    BY <2>2 DEF IInv, PairsInv
  <2>4. ASSUME NEW way_id \in 0 .. (Len(way_tag_ranges) - 1),
               NEW index \in way_tag_ranges[way_id + 1].first
                               .. (way_tag_ranges[way_id + 1].second - 1)
        PROVE  HasTag(Database, index)
    <3>1. /\ way_tag_ranges[way_id + 1].first \in Nat /\ way_tag_ranges[way_id + 1].second \in Nat
          /\ way_tag_ranges[way_id + 1].second <= Len(key_value_pairs)
      BY <2>2 DEF Entry
    <3>2. index \in Nat /\ index < Len(key_value_pairs) /\ index + 1 \in 1 .. Len(key_value_pairs)
      BY <2>2, <3>1
    <3> QED
      BY <2>1, <3>2 DEF HasTag, IInv, TextsInv
  <2>5. way_tag_ranges \in Seq([first : Nat, second : Nat])
    BY <2>2 DEF Entry
  <2> HIDE DEF Database
  <2> QED
    BY <2>1, <2>2, <2>3, <2>4, <2>5 DEF WellFormed, HasWay, get_tag_range
<1> QED
  BY <1>1, IInvariant, PTL

(* What is stored is never changed: a node keeps its id, a pair its way, a *)
(* way its tags, a text its id until the index is dropped.                 *)
THEOREM NothingIsChanged == Spec => OnlyAdds
<1> DEFINE Kept ==
             /\ Keeps(external_internal_map, external_internal_map')
             /\ Keeps(pair_way_map, pair_way_map')
             /\ Keeps(way_tag_ranges, way_tag_ranges')
             /\ Keeps(key_value_pairs, key_value_pairs')
             /\ Keeps(strings, strings')
             /\ pc' # "done" => Keeps(string_index, string_index')
<1>1. IInv /\ [Next]_vars => Kept
  <2> SUFFICES ASSUME IInv, [Next]_vars PROVE Kept
    OBVIOUS
  <2>1. Position /\ NodesInv /\ TextsInv /\ WaysInv /\ PairsInv
    BY DEF IInv
  <2>2. Keeps(external_internal_map, external_internal_map')
    <3>1. CASE StorePair
      BY <2>1, <3>1, PairNodes
    <3>2. CASE UNCHANGED external_internal_map
      BY <3>2 DEF Keeps
    <3> QED
      BY <3>1, <3>2, Touches DEF nodeTables, SetupDatabase
  <2>3. Keeps(pair_way_map, pair_way_map')
    BY <2>1, Touches, PairsStep DEF Keeps
  <2>4. Keeps(way_tag_ranges, way_tag_ranges')
    BY <2>1, Touches, EndTagsStep DEF Keeps, wayTables
  <2> QED
    BY <2>1, <2>2, <2>3, <2>4, TagsGrow
<1> QED
  BY <1>1, IInvariant, PTL DEF Spec, OnlyAdds
=============================================================================
