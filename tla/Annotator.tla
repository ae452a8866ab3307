------------------------------ MODULE Annotator ------------------------------
(***************************************************************************)
(* One Annotator object of the node addon (src/src/nodejs_bindings.cpp):   *)
(* the loads and the queries that JavaScript asks of it, run by the pool   *)
(* and the main thread as AsyncWorker says, over the two unique_ptr fields *)
(* self.database and self.annotator that all of them share without a lock. *)
(*                                                                         *)
(* A pointer is the load that made the object it points to, or Null.  The  *)
(* RouteAnnotator made by a load holds a reference to the Database of that *)
(* load.  Every read or write of a field is a step of its own, so that the *)
(* steps of other threads come in between.                                 *)
(*                                                                         *)
(* The first access to an object that is gone, or past the end of a        *)
(* vector, is recorded in "fault" and ends the behaviour: nothing is known *)
(* of the program after it.                                                *)
(*                                                                         *)
(* A definition X_Bug is X with a plausible mistake in it, which some      *)
(* property must catch; the specification uses none of them.               *)
(***************************************************************************)
EXTENDS AsyncWorker, RouteAnnotator, SequencesExt

CONSTANTS
  Extract,    (* the arguments loadOSMExtract is called with               *)
  Broken,     (* those whose load fails                                    *)
  Built,      (* [Extract -> the database it makes], see Extractor         *)
  NodeRoutes, (* lists of external node ids asked for                      *)
  PointRoutes,(* lists of coordinates asked for                            *)
  Habits,     (* what the JavaScript program does not refrain from         *)
  Unread      (* no pointer has been read yet                              *)

(* "load": starts a load while another one is under way.                   *)
(* "query": has a load and a query under way together.                     *)
(* "keepWayIds": uses way ids of the data that a load has replaced.        *)
ASSUME HabitsAssumption == Habits \subseteq {"load", "query", "keepWayIds"}
ASSUME UnreadAssumption == Unread \notin Job \cup {NoJob}
ASSUME BuiltAssumption ==
  /\ Broken \subseteq Extract
  /\ \A e \in Extract : WellFormed(Built[e])

Null == NoJob
Pointer == Job \cup {Null}

VARIABLES
  database, annotator,           (* self.database, self.annotator          *)
  liveDatabase, liveAnnotator,   (* loads whose objects are not destroyed  *)
  method, args,    (* what each call calls, and with what                  *)
  pc,              (* what its worker does next                            *)
  ptr,             (* the pointer the thread has read and not used yet     *)
  localDatabase, localAnnotator, (* locals of OSMLoader::Execute           *)
  ids, range,      (* internalIds of a route; tags still to be read        *)
  wayIds, tags, error,     (* what the callback gets: a route's ways, the  *)
                           (* keys and values of a way's tags, an error    *)
  fault,           (* the first undefined behaviour                        *)
  known,           (* way ids the program got and may ask about            *)
  loaded, against  (* the load last reported as done; ... when j was called*)

fields == <<database, annotator>>
heap == <<liveDatabase, liveAnnotator>>
locals == <<localDatabase, localAnnotator>>
results == <<ids, range, wayIds, tags, error>>
calls == <<method, args>>
client == <<known, loaded, against>>
vars == <<asyncVars, fields, heap, calls, pc, ptr, locals, results, fault, client>>

RouteOps == {"annotateRouteFromNodeIds", "annotateRouteFromLonLats"}
QueryOps == RouteOps \cup {"getAllTagsForWayId"}

IsLoad(j) == method[j] = "loadOSMExtract"
IsQuery(j) == method[j] \in QueryOps

(* The database that load l made.                                          *)
DatabaseOf(l) == Built[args[l][1]]

Init ==
  /\ AsyncInit
  /\ database = Null /\ annotator = Null
  /\ liveDatabase = {} /\ liveAnnotator = {}
  /\ method = [j \in Job |-> "none"]
  /\ args = [j \in Job |-> <<>>]
  /\ pc = [j \in Job |-> "none"]
  /\ ptr = [j \in Job |-> Unread]
  /\ localDatabase = [j \in Job |-> Null]
  /\ localAnnotator = [j \in Job |-> Null]
  /\ ids = [j \in Job |-> <<>>]
  /\ range = [j \in Job |-> [first |-> 0, second |-> 0]]
  /\ wayIds = [j \in Job |-> <<>>]
  /\ tags = [j \in Job |-> <<>>]
  /\ error = [j \in Job |-> FALSE]
  /\ fault = "none"
  /\ known = {}
  /\ loaded = Null
  /\ against = [j \in Job |-> Null]
-----------------------------------------------------------------------------
(* The methods, called on the main thread.                                 *)

LoadUnderWay == \E i \in Job : Outstanding(i) /\ IsLoad(i)
QueryUnderWay == \E i \in Job : Outstanding(i) /\ IsQuery(i)

(* A call whose arguments are of the wrong kind, too few or out of range.  *)
RejectArguments(j) ==
  /\ CanCall(j)
  /\ Throw(j)
  /\ UNCHANGED <<fields, heap, calls, pc, ptr, locals, results, fault, client>>

loadOSMExtract(j, e) ==
  /\ CanCall(j)
  /\ LoadUnderWay => "load" \in Habits
  /\ QueryUnderWay => "query" \in Habits
  /\ Enqueue(j)
  /\ method' = [method EXCEPT ![j] = "loadOSMExtract"]
  /\ args' = [args EXCEPT ![j] = <<e>>]
  /\ UNCHANGED <<fields, heap, pc, ptr, locals, results, fault, client>>

HasData_DatabaseOnly == database # Null
HasData == database # Null /\ annotator # Null

Query_Continues(j, m, a) ==
  /\ CanCall(j)
  /\ LoadUnderWay => "query" \in Habits
  /\ IF HasData
       THEN /\ Enqueue(j)
            /\ method' = [method EXCEPT ![j] = m]
            /\ args' = [args EXCEPT ![j] = a]
            /\ against' = [against EXCEPT ![j] = loaded]
       ELSE /\ phase' = [phase EXCEPT ![j] = "threw"]
            /\ queue' = Append(queue, j)
            /\ UNCHANGED <<finished, main, calls, against>>
  /\ UNCHANGED <<fields, heap, pc, ptr, locals, results, fault, known, loaded>>

(* annotateRouteFromNodeIds, annotateRouteFromLonLats, getAllTagsForWayId: *)
(* each throws if no data is loaded.                                       *)
Query(j, m, a) ==
  /\ CanCall(j)
  /\ LoadUnderWay => "query" \in Habits
  /\ IF HasData
       THEN /\ Enqueue(j)
            /\ method' = [method EXCEPT ![j] = m]
            /\ args' = [args EXCEPT ![j] = a]
            /\ against' = [against EXCEPT ![j] = loaded]
       ELSE Throw(j) /\ UNCHANGED <<calls, against>>
  /\ UNCHANGED <<fields, heap, pc, ptr, locals, results, fault, known, loaded>>

(* An unmatched pair has the way id null in JavaScript: not a number, so   *)
(* asking for its tags is a call that RejectArguments stands for.          *)
Call(j) ==
  \/ RejectArguments(j)
  \/ \E e \in Extract : loadOSMExtract(j, e)
  \/ \E route \in NodeRoutes : Query(j, "annotateRouteFromNodeIds", route)
  \/ \E points \in PointRoutes : Query(j, "annotateRouteFromLonLats", points)
  \/ \E way_id \in known : Query(j, "getAllTagsForWayId", <<way_id>>)

FirstStep_InCallback(m) ==
  CASE m = "loadOSMExtract"           -> "build"
    [] m = "annotateRouteFromNodeIds" -> "convert"
    [] m = "annotateRouteFromLonLats" -> "match"
    [] m = "getAllTagsForWayId"       -> "way id"

FirstStep(m) ==
  CASE m = "loadOSMExtract"           -> "build"
    [] m = "annotateRouteFromNodeIds" -> "convert"
    [] m = "annotateRouteFromLonLats" -> "match"
    [] m = "getAllTagsForWayId"       -> "range"

Execute(j) ==
  /\ Begin(j)
  /\ pc' = [pc EXCEPT ![j] = FirstStep(method[j])]
  /\ UNCHANGED <<fields, heap, calls, ptr, locals, results, fault, client>>

Goto(j, next) == pc' = [pc EXCEPT ![j] = next]
Read(j, pointer) == ptr' = [ptr EXCEPT ![j] = pointer]
-----------------------------------------------------------------------------
(* OSMLoader::Execute.                                                     *)

FailBuild_Clears(j) ==
  /\ pc[j] = "build" /\ args[j][1] \in Broken
  /\ error' = [error EXCEPT ![j] = TRUE]
  /\ database' = Null
  /\ Goto(j, "return")
  /\ UNCHANGED <<asyncVars, annotator, heap, calls, ptr, locals, ids, range, wayIds, tags,
                 fault, client>>

FailBuild_NeverReturns(j) ==
  /\ pc[j] = "build" /\ args[j][1] \in Broken
  /\ UNCHANGED vars

FreeDatabase_Leaks(j) ==
  /\ pc[j] = "freeDatabase"
  /\ localDatabase' = [localDatabase EXCEPT ![j] = Null]
  /\ Goto(j, "return")
  /\ UNCHANGED <<asyncVars, fields, heap, calls, ptr, localAnnotator, results, fault, client>>

WriteDatabase_Copies(j) ==
  /\ pc[j] = "writeDatabase"
  /\ database' = localDatabase[j]
  /\ Read(j, Unread)
  /\ Goto(j, "readAnnotator")
  /\ UNCHANGED <<asyncVars, annotator, heap, calls, locals, results, fault, client>>

(* The new Database, filled by an Extractor, and its RouteAnnotator.       *)
BuildDatabase(j) ==
  /\ pc[j] = "build" /\ args[j][1] \notin Broken
  /\ liveDatabase' = liveDatabase \cup {j}
  /\ liveAnnotator' = liveAnnotator \cup {j}
  /\ localDatabase' = [localDatabase EXCEPT ![j] = j]
  /\ localAnnotator' = [localAnnotator EXCEPT ![j] = j]
  /\ Goto(j, "readDatabase")
  /\ UNCHANGED <<asyncVars, fields, calls, ptr, results, fault, client>>

(* The Extractor throws: the new Database goes, the fields stay.           *)
FailBuild(j) ==
  /\ pc[j] = "build" /\ args[j][1] \in Broken
  /\ error' = [error EXCEPT ![j] = TRUE]
  /\ Goto(j, "return")
  /\ UNCHANGED <<asyncVars, fields, heap, calls, ptr, locals, ids, range, wayIds, tags,
                 fault, client>>

(* swap(self.database, database): the field is read, then the two are      *)
(* written.                                                                *)
ReadDatabase(j) ==
  /\ pc[j] = "readDatabase"
  /\ Read(j, database)
  /\ Goto(j, "writeDatabase")
  /\ UNCHANGED <<asyncVars, fields, heap, calls, locals, results, fault, client>>

WriteDatabase(j) ==
  /\ pc[j] = "writeDatabase"
  /\ database' = localDatabase[j]
  /\ localDatabase' = [localDatabase EXCEPT ![j] = ptr[j]]
  /\ Read(j, Unread)
  /\ Goto(j, "readAnnotator")
  /\ UNCHANGED <<asyncVars, annotator, heap, calls, localAnnotator, results, fault, client>>

ReadAnnotator(j) ==
  /\ pc[j] = "readAnnotator"
  /\ Read(j, annotator)
  /\ Goto(j, "writeAnnotator")
  /\ UNCHANGED <<asyncVars, fields, heap, calls, locals, results, fault, client>>

(* swap(self.annotator, annotator)                                         *)
WriteAnnotator(j) ==
  /\ pc[j] = "writeAnnotator"
  /\ annotator' = localAnnotator[j]
  /\ localAnnotator' = [localAnnotator EXCEPT ![j] = ptr[j]]
  /\ Read(j, Unread)
  /\ Goto(j, "freeAnnotator")
  /\ UNCHANGED <<asyncVars, database, heap, calls, localDatabase, results, fault, client>>

(* The locals now hold what the fields held before; they are destroyed in  *)
(* the reverse order of their declaration.                                 *)
FreeAnnotator(j) ==
  LET p == localAnnotator[j]
  IN
  /\ pc[j] = "freeAnnotator"
  /\ fault' = IF p = Null \/ p \in liveAnnotator THEN fault ELSE "double free"
  /\ liveAnnotator' = liveAnnotator \ {p}
  /\ localAnnotator' = [localAnnotator EXCEPT ![j] = Null]
  /\ Goto(j, "freeDatabase")
  /\ UNCHANGED <<asyncVars, fields, liveDatabase, calls, ptr, localDatabase, results, client>>

FreeDatabase(j) ==
  LET p == localDatabase[j]
  IN
  /\ pc[j] = "freeDatabase"
  /\ fault' = IF p = Null \/ p \in liveDatabase THEN fault ELSE "double free"
  /\ liveDatabase' = liveDatabase \ {p}
  /\ localDatabase' = [localDatabase EXCEPT ![j] = Null]
  /\ Goto(j, "return")
  /\ UNCHANGED <<asyncVars, fields, liveAnnotator, calls, ptr, localAnnotator, results, client>>
-----------------------------------------------------------------------------
(* self.annotator->...: the field is read, then what it points to is used. *)
(* The code does this anew for every method it calls.                      *)

Uses == {"convert", "match", "annotate", "range", "key", "value", "way id"}

Fetch(j) ==
  /\ pc[j] \in Uses /\ ptr[j] = Unread
  /\ Read(j, annotator)
  /\ UNCHANGED <<asyncVars, fields, heap, calls, pc, locals, results, fault, client>>

Usable(p) == p \in liveAnnotator /\ p \in liveDatabase

Use(j, what) == pc[j] = what /\ ptr[j] # Unread /\ Usable(ptr[j])
Target(j) == DatabaseOf(ptr[j])

UseFails(j) ==
  /\ pc[j] \in Uses /\ ptr[j] # Unread /\ ~Usable(ptr[j])
  /\ fault' = IF ptr[j] = Null THEN "null" ELSE "dangling"
  /\ UNCHANGED <<asyncVars, fields, heap, calls, pc, ptr, locals, results, client>>

(* Execute of annotateRouteFromNodeIds                                     *)
ConvertNodeIds(j) ==
  /\ Use(j, "convert")
  /\ ids' = [ids EXCEPT ![j] = external_to_internal(Target(j), args[j])]
  /\ Read(j, Unread)
  /\ Goto(j, "annotate")
  /\ UNCHANGED <<asyncVars, fields, heap, calls, locals, range, wayIds, tags, error, fault, client>>

(* Execute of annotateRouteFromLonLats: the RtreeError is caught.          *)
MatchPoints(j) ==
  /\ Use(j, "match")
  /\ IF Target(j).rtree.null
       THEN /\ error' = [error EXCEPT ![j] = TRUE]
            /\ Goto(j, "return")
            /\ UNCHANGED ids
       ELSE /\ \E list \in coordinates_to_internal(Target(j), args[j]) :
                 ids' = [ids EXCEPT ![j] = list]
            /\ Goto(j, "annotate")
            /\ UNCHANGED error
  /\ Read(j, Unread)
  /\ UNCHANGED <<asyncVars, fields, heap, calls, locals, range, wayIds, tags, fault, client>>

AnnotateRoute(j) ==
  /\ Use(j, "annotate")
  /\ wayIds' = [wayIds EXCEPT ![j] = annotateRoute(Target(j), ids[j])]
  /\ Read(j, Unread)
  /\ Goto(j, "return")
  /\ UNCHANGED <<asyncVars, fields, heap, calls, locals, ids, range, tags, error, fault, client>>

(* Execute of getAllTagsForWayId                                           *)
GetTagRange(j) ==
  LET way_id == args[j][1]
  IN
  /\ Use(j, "range")
  /\ IF HasWay(Target(j), way_id)
       THEN /\ range' = [range EXCEPT ![j] = get_tag_range(Target(j), way_id)]
            /\ UNCHANGED fault
       ELSE fault' = "past the end" /\ UNCHANGED range
  /\ Read(j, Unread)
  /\ Goto(j, "return")
  /\ UNCHANGED <<asyncVars, fields, heap, calls, locals, ids, wayIds, tags, error, client>>

Return(j) ==
  /\ pc[j] = "return"
  /\ Finish(j)
  /\ Goto(j, "callback")
  /\ UNCHANGED <<fields, heap, calls, ptr, locals, results, fault, client>>
-----------------------------------------------------------------------------
(* HandleOKCallback and HandleErrorCallback, on the main thread.  Only the *)
(* one of getAllTagsForWayId uses self.annotator again, twice for each tag *)
(* and once for the OSM id of the way.                                     *)

to_string(id) == [number |-> id, rest |-> ""]

NextTag_Inclusive(r) == IF r.first <= r.second THEN "key" ELSE "way id"
NextTag(r) == IF r.first < r.second THEN "key" ELSE "way id"

EnterCallback(j) ==
  /\ StartCallback(j)
  /\ Goto(j, IF method[j] = "getAllTagsForWayId" THEN NextTag(range[j]) ELSE "deliver")
  /\ UNCHANGED <<fields, heap, calls, ptr, locals, results, fault, client>>

GetTagKey(j) ==
  /\ Use(j, "key")
  /\ IF HasTag(Target(j), range[j].first)
       THEN /\ tags' = [tags EXCEPT ![j] =
                          Append(@, get_tag_key(Target(j), range[j].first))]
            /\ UNCHANGED fault
       ELSE fault' = "past the end" /\ UNCHANGED tags
  /\ Read(j, Unread)
  /\ Goto(j, "value")
  /\ UNCHANGED <<asyncVars, fields, heap, calls, locals, ids, range, wayIds, error, client>>

GetTagValue(j) ==
  /\ Use(j, "value")
  /\ IF HasTag(Target(j), range[j].first)
       THEN /\ tags' = [tags EXCEPT ![j] =
                          Append(@, get_tag_value(Target(j), range[j].first))]
            /\ UNCHANGED fault
       ELSE fault' = "past the end" /\ UNCHANGED tags
  /\ range' = [range EXCEPT ![j].first = @ + 1]
  /\ Read(j, Unread)
  /\ Goto(j, NextTag(range'[j]))
  /\ UNCHANGED <<asyncVars, fields, heap, calls, locals, ids, wayIds, error, client>>

GetExternalWayId(j) ==
  LET way_id == args[j][1]
  IN
  /\ Use(j, "way id")
  /\ IF HasWay(Target(j), way_id)
       THEN /\ tags' = [tags EXCEPT ![j] =
                          Append(@, to_string(get_external_way_id(Target(j), way_id)))]
            /\ UNCHANGED fault
       ELSE fault' = "past the end" /\ UNCHANGED tags
  /\ Read(j, Unread)
  /\ Goto(j, "deliver")
  /\ UNCHANGED <<asyncVars, fields, heap, calls, locals, ids, range, wayIds, error, client>>

(* The program learns way ids from the answers, and forgets them with the  *)
(* data they come from, unless it has the habit of keeping them.           *)
Deliver(j) ==
  /\ pc[j] = "deliver"
  /\ EndCallback(j)
  /\ Goto(j, "none")
  /\ IF IsLoad(j) /\ ~error[j]
       THEN /\ loaded' = j
            /\ known' = IF "keepWayIds" \in Habits THEN known ELSE {}
       ELSE /\ known' = IF method[j] \in RouteOps
                          THEN known \cup (ToSet(wayIds[j]) \ {INVALID_WAYID})
                          ELSE known
            /\ UNCHANGED loaded
  /\ UNCHANGED <<fields, heap, calls, ptr, locals, results, fault, against>>
-----------------------------------------------------------------------------
Load(j) ==
  \/ BuildDatabase(j) \/ FailBuild(j)
  \/ ReadDatabase(j) \/ WriteDatabase(j) \/ ReadAnnotator(j) \/ WriteAnnotator(j)
  \/ FreeAnnotator(j) \/ FreeDatabase(j)

Lookup(j) ==
  \/ Fetch(j) \/ UseFails(j)
  \/ ConvertNodeIds(j) \/ MatchPoints(j) \/ AnnotateRoute(j) \/ GetTagRange(j)
  \/ GetTagKey(j) \/ GetTagValue(j) \/ GetExternalWayId(j)

(* Everything but the calls, which no one is bound to make.                *)
Work(j) ==
  /\ fault = "none"
  /\ \/ Execute(j) \/ Load(j) \/ Lookup(j) \/ Return(j)
     \/ EnterCallback(j) \/ Deliver(j)

Terminated ==
  /\ fault # "none" \/ \A j \in Job : phase[j] \in {"threw", "delivered"}
  /\ UNCHANGED vars

Next ==
  \/ \E j \in Job : fault = "none" /\ Call(j)
  \/ \E j \in Job : Work(j)
  \/ Terminated

Spec == Init /\ [][Next]_vars

(* The pool's threads and the event loop keep running.                     *)
FairSpec == Spec /\ \A j \in Job : WF_vars(Work(j))
-----------------------------------------------------------------------------
(* What a database answers to a query, computed at one go.                 *)

(* The keys and values, one after the other, of n tags from "first" on.    *)
TagTexts(db, first, n) ==
  [i \in 1 .. 2 * n |-> IF i % 2 = 1 THEN get_tag_key(db, first + i \div 2)
                                     ELSE get_tag_value(db, first + i \div 2 - 1)]

TagList(db, way_id) ==
  LET r == get_tag_range(db, way_id)
  IN  TagTexts(db, r.first, r.second - r.first)

Answers(db, m, a) ==
  CASE m = "annotateRouteFromNodeIds" ->
         {annotateRoute(db, external_to_internal(db, a))}
    [] m = "annotateRouteFromLonLats" ->
         {annotateRoute(db, list) : list \in coordinates_to_internal(db, a)}
    [] m = "getAllTagsForWayId" ->
         IF HasWay(db, a[1])
           THEN {Append(TagList(db, a[1]), to_string(get_external_way_id(db, a[1])))}
           ELSE {}

Answered(j) == IsQuery(j) /\ phase[j] = "delivered"

(* The callback of j got what the database of load l answers.              *)
AnsweredFrom(j, l) ==
  IF error[j]
    THEN method[j] = "annotateRouteFromLonLats" /\ DatabaseOf(l).rtree.null
    ELSE (IF method[j] \in RouteOps THEN wayIds[j] ELSE tags[j])
           \in Answers(DatabaseOf(l), method[j], args[j])
-----------------------------------------------------------------------------
(* Safety.                                                                 *)

ExecuteSteps ==
  {"build", "readDatabase", "writeDatabase", "readAnnotator", "writeAnnotator",
   "freeAnnotator", "freeDatabase", "convert", "match", "annotate", "range", "return"}
CallbackSteps == {"key", "value", "way id", "deliver"}

TypeOK ==
  /\ AsyncTypeOK
  /\ database \in Pointer /\ annotator \in Pointer
  /\ liveDatabase \subseteq Job /\ liveAnnotator \subseteq Job
  /\ method \in [Job -> QueryOps \cup {"none", "loadOSMExtract"}]
  /\ pc \in [Job -> ExecuteSteps \cup CallbackSteps \cup {"none", "callback"}]
  /\ ptr \in [Job -> Pointer \cup {Unread}]
  /\ localDatabase \in [Job -> Pointer] /\ localAnnotator \in [Job -> Pointer]
  /\ error \in [Job -> BOOLEAN]
  /\ \A j \in Job :
       /\ pc[j] \in ExecuteSteps <=> phase[j] = "running"
       /\ pc[j] \in CallbackSteps <=> phase[j] = "callback"
  /\ fault \in {"none", "null", "dangling", "double free", "past the end"}
  /\ loaded \in Pointer

(* A program that lets no call overlap a load, as the tests and the example*)
(* server do, can make the addon do one thing only that it must not: look  *)
(* up a way id of data that a load has replaced, with data that has no such*)
(* way.  It is read past the end of a vector (annotator.cpp:117, called at *)
(* nodejs_bindings.cpp:404).  Without such an id nothing is used after it  *)
(* is freed, freed twice or read past its end, although no lock guards the *)
(* fields (nodejs_bindings.cpp:164-175, 249-250, 412-423), and with one    *)
(* nothing but that.                                                       *)
StaleId(j) ==
  /\ Outstanding(j) /\ method[j] = "getAllTagsForWayId"
  /\ ~HasWay(DatabaseOf(loaded), args[j][1])

OnlyStaleIdsFault ==
  fault # "none" =>
    /\ fault = "past the end"
    /\ "keepWayIds" \in Habits /\ \E j \in Job : StaleId(j)

(* The guard of the queries (nodejs_bindings.cpp:201, 288, 388) is enough  *)
(* against null pointers, whatever overlaps: the two fields are set one    *)
(* after the other by another thread while it reads them.                  *)
NeverNull == fault # "null"

(* An answer comes, whole, from the data of the last load that had called  *)
(* back without an error when the query was made: never from a load that   *)
(* failed, that came before, or from two of them.                          *)
AnswersCurrent == \A j \in Job : Answered(j) => AnsweredFrom(j, against[j])

(* When no call is under way one database and one annotator exist, they    *)
(* belong together, and are those of the last load that called back without*)
(* an error: failed loads roll back and nothing is leaked                  *)
(* (nodejs_bindings.cpp:163-175).                                          *)
OwnershipAtRest ==
  Settled =>
    /\ database = loaded /\ annotator = loaded
    /\ liveDatabase = {loaded} \ {Null} /\ liveAnnotator = {loaded} \ {Null}

(* Once data is there some data stays there, also while loads fail or race.*)
StaysLoaded ==
  [][/\ database # Null => database' # Null
     /\ annotator # Null => annotator' # Null]_vars

(* Every call that does not throw calls back, once, whatever loads fail.   *)
EveryCallAnswered ==
  \A j \in Job : Outstanding(j) ~> phase[j] = "delivered"
-----------------------------------------------------------------------------
(* What the README and comments of nodejs_bindings.cpp say of the program. *)

(* README.md:74-80: coordinates are looked up in what an Annotator made     *)
(* without options has loaded.                                             *)
CoordinatesAnswered ==
  \A j \in Job : Answered(j) /\ method[j] = "annotateRouteFromLonLats" => ~error[j]

(* Line 168, "Transactionally swap": both fields are swapped as one, so    *)
(* that they point to the objects of the same load.                        *)
SwapIsTransactional == Settled => database = annotator

(* Line 79, "this function will transactionally swap in a new one": a query*)
(* sees the data of before or of after the load.                           *)
AnswersFromOneDatabase ==
  \A j \in Job :
    Answered(j) =>
      \E l \in Job : IsLoad(l) /\ args[l][1] \notin Broken /\ AnsweredFrom(j, l)
=============================================================================
