----------------------------- MODULE SpeedLookup ----------------------------
(***************************************************************************)
(* One SegmentSpeedLookup or WaySpeedLookup object of the node addon       *)
(* (src/src/segment_bindings.cpp, src/src/way_bindings.cpp; the two differ *)
(* in the ids only): loads and queries run as AsyncWorker says.  A load    *)
(* puts its map in place in its callback; a query shares the map that the  *)
(* object has when it is called.                                           *)
(*                                                                         *)
(* A shared_ptr to a map is the list of files it was made of: maps are not *)
(* changed once they are loaded.  CSVLoader models the load itself.        *)
(*                                                                         *)
(* A definition X_Bug is X with a plausible mistake in it, which some      *)
(* property must catch; no specification uses it.                          *)
(***************************************************************************)
EXTENDS AsyncWorker, SpeedMap

CONSTANTS
  Source,   (* the lists of files that loadCSV is called with              *)
  Broken,   (* those that cannot be loaded                                 *)
  Built,    (* [Source \ Broken -> the map it makes]                       *)
  Ids,      (* the lists of ids asked for, as JavaScript gives them        *)
  NoMap     (* a null shared_ptr                                           *)

ASSUME NoMapAssumption == NoMap \notin Source
ASSUME BuiltAssumption ==
  /\ Broken \subseteq Source
  /\ DOMAIN Built = Source \ Broken
  /\ \A paths \in Source \ Broken : IsSpeedMap(Built[paths])
ASSUME IdsAssumption == Ids \subseteq Seq(Int)

VARIABLES
  datamap,        (* the field of the object                               *)
  object,         (* whether the program can reach it, the collector took it *)
  method, args,   (* what each call calls, and with what                   *)
  held,           (* the map each worker shares                            *)
  result, error   (* what its callback gets                                *)

calls == <<method, args>>
vars == <<asyncVars, datamap, object, calls, held, result, error>>

IsLoad(j) == method[j] = "loadCSV"
IsQuery(j) == method[j] = "getRouteSpeeds"

Init ==
  /\ AsyncInit
  /\ datamap = NoMap
  /\ object = "reachable"
  /\ method = [j \in Job |-> "none"]
  /\ args = [j \in Job |-> <<>>]
  /\ held = [j \in Job |-> NoMap]
  /\ result = [j \in Job |-> <<>>]
  /\ error = [j \in Job |-> FALSE]
-----------------------------------------------------------------------------
(* The methods, called on the main thread.                                 *)

CanCallMethod(j) == CanCall(j) /\ object = "reachable"

(* A call with arguments of the wrong number or kind.                      *)
RejectArguments(j) ==
  /\ CanCallMethod(j)
  /\ Throw(j)
  /\ UNCHANGED <<datamap, object, calls, held, result, error>>

loadCSV(j, paths) ==
  /\ CanCallMethod(j)
  /\ Enqueue(j)
  /\ method' = [method EXCEPT ![j] = "loadCSV"]
  /\ args' = [args EXCEPT ![j] = paths]
  /\ UNCHANGED <<datamap, object, held, result, error>>

(* To<int32_t> of a number keeps its low 32 bits; a node id is 64 bits wide. *)
ToSigned(x) ==
  LET Half == (UintMax + 1) \div 2
  IN  IF Format = "way" THEN ((x + Half) % (UintMax + 1)) - Half ELSE x

Queried(ids) == [i \in DOMAIN ids |-> ToSigned(ids[i])]

MinLength == IF Format = "segment" THEN 2 ELSE 1
Accepted(ids) == Len(ids) >= MinLength /\ \A i \in DOMAIN ids : ToSigned(ids[i]) >= 0

getRouteSpeeds(j, ids) ==
  /\ CanCallMethod(j)
  /\ method' = [method EXCEPT ![j] = "getRouteSpeeds"]
  /\ args' = [args EXCEPT ![j] = ids]
  /\ IF Accepted(ids)
       THEN Enqueue(j) /\ held' = [held EXCEPT ![j] = datamap]
       ELSE Throw(j) /\ UNCHANGED held
  /\ UNCHANGED <<datamap, object, result, error>>

Call(j) ==
  \/ RejectArguments(j)
  \/ \E paths \in Source : loadCSV(j, paths)
  \/ \E ids \in Ids : getRouteSpeeds(j, ids)
-----------------------------------------------------------------------------
(* The workers.                                                            *)

Execute(j) == Begin(j) /\ UNCHANGED <<datamap, object, calls, held, result, error>>

LoadFiles_IgnoresErrors(j) ==
  /\ Finish(j)
  /\ IsLoad(j)
  /\ held' = [held EXCEPT ![j] = args[j]]
  /\ UNCHANGED <<datamap, object, calls, result, error>>

(* Execute of CSVLoader, all files read: see the module CSVLoader.         *)
LoadFiles(j) ==
  /\ Finish(j)
  /\ IsLoad(j) /\ args[j] \notin Broken
  /\ held' = [held EXCEPT ![j] = args[j]]
  /\ UNCHANGED <<datamap, object, calls, result, error>>

FailLoad_NeverReturns(j) ==
  /\ IsLoad(j) /\ args[j] \in Broken /\ phase[j] = "running"
  /\ UNCHANGED vars

(* An exception leaves the half-filled map in the worker.                  *)
FailLoad(j) ==
  /\ Finish(j)
  /\ IsLoad(j) /\ args[j] \in Broken
  /\ error' = [error EXCEPT ![j] = TRUE]
  /\ UNCHANGED <<datamap, object, calls, held, result>>

Speeds(map, ids) ==
  IF map = NoMap THEN [i \in DOMAIN KeysOf(ids) |-> INVALID_SPEED]
                 ELSE getValues(Built[map], ids)

LookUp_InObject(j) ==
  /\ Finish(j)
  /\ IsQuery(j)
  /\ result' = [result EXCEPT ![j] = Speeds(datamap, Queried(args[j]))]
  /\ UNCHANGED <<datamap, object, calls, held, error>>

LookUp(j) ==
  /\ Finish(j)
  /\ IsQuery(j)
  /\ result' = [result EXCEPT ![j] = Speeds(held[j], Queried(args[j]))]
  /\ UNCHANGED <<datamap, object, calls, held, error>>

(* HandleOKCallback of a load swaps its map with the one of the object.    *)
EnterCallback(j) ==
  /\ StartCallback(j)
  /\ IF IsLoad(j) /\ ~error[j]
       THEN datamap' = held[j] /\ held' = [held EXCEPT ![j] = datamap]
       ELSE UNCHANGED <<datamap, held>>
  /\ UNCHANGED <<object, calls, result, error>>

(* callback->Call; the worker goes, and with it its share of a map.        *)
Deliver(j) ==
  /\ EndCallback(j)
  /\ held' = [held EXCEPT ![j] = NoMap]
  /\ UNCHANGED <<datamap, object, calls, result, error>>
-----------------------------------------------------------------------------
(* The collector may take the object once the program cannot reach it, but *)
(* not while a load has it in its persistent handle "self".                *)

Pinned_Never == FALSE
Pinned == \E j \in Job : IsLoad(j) /\ Outstanding(j)

DropObject ==
  /\ object = "reachable"
  /\ object' = "unreachable"
  /\ UNCHANGED <<asyncVars, datamap, calls, held, result, error>>

CollectObject ==
  /\ object = "unreachable" /\ ~Pinned
  /\ object' = "collected"
  /\ UNCHANGED <<asyncVars, datamap, calls, held, result, error>>
-----------------------------------------------------------------------------
Work(j) ==
  \/ Execute(j) \/ LoadFiles(j) \/ FailLoad(j) \/ LookUp(j)
  \/ EnterCallback(j) \/ Deliver(j)

Terminated == object = "collected" /\ Settled /\ UNCHANGED vars

Next ==
  \/ \E j \in Job : Call(j) \/ Work(j)
  \/ DropObject \/ CollectObject
  \/ Terminated

Spec == Init /\ [][Next]_vars

(* The pool's threads and the event loop keep running.                     *)
FairSpec == Spec /\ \A j \in Job : WF_vars(Work(j))
-----------------------------------------------------------------------------
TypeOK ==
  /\ AsyncTypeOK
  /\ datamap \in (Source \ Broken) \cup {NoMap}
  /\ object \in {"reachable", "unreachable", "collected"}
  /\ method \in [Job -> {"none", "loadCSV", "getRouteSpeeds"}]
  /\ \A j \in Job :
       /\ IsLoad(j) => args[j] \in Source
       /\ IsQuery(j) => args[j] \in Ids
       /\ method[j] = "none" => phase[j] \in {"idle", "threw"}
  /\ held \in [Job -> (Source \ Broken) \cup {NoMap}]
  /\ result \in [Job -> Seq(0 .. INVALID_SPEED)]
  /\ error \in [Job -> BOOLEAN]

(* The callback of a load finds the object alive, also when the program has*)
(* forgotten it meanwhile: it unwraps and writes it (segment_bindings.cpp: *)
(* 94, 116-120).                                                           *)
SelfAlive ==
  \A j \in Job : IsLoad(j) /\ phase[j] = "callback" => object # "collected"

Nothing == NoJob

MapOf(map) == IF map = NoMap THEN EmptySpeeds ELSE Built[map]

LoadState(j) ==
  IF phase[j] = "delivered" THEN IF error[j] THEN "failed" ELSE "done"
  ELSE IF phase[j] = "callback" /\ ~error[j] THEN "installed"
  ELSE "loading"

StateOf(j) ==
  IF phase[j] = "idle" THEN "idle"
  ELSE IF phase[j] = "threw" THEN "refused"
  ELSE IF IsLoad(j) THEN LoadState(j)
  ELSE IF phase[j] = "delivered" THEN "done" ELSE "asking"

RequestOf(j) ==
  IF phase[j] \in {"idle", "threw"} THEN Nothing
  ELSE [method |-> method[j], args |-> args[j]]

ViewOf(j) == IF IsQuery(j) /\ Outstanding(j) THEN MapOf(held[j]) ELSE EmptySpeeds

ReplyOf(j) == IF IsQuery(j) /\ phase[j] = "delivered" THEN result[j] ELSE Nothing

MapLoadedBy(r) == Built[r.args]
SpeedsFrom(r, map) == {getValues(map, Queried(r.args))}

S == INSTANCE Store WITH
  Loads <- [method : {"loadCSV"}, args : Source],
  Queries <- [method : {"getRouteSpeeds"}, args : Ids],
  Initial <- EmptySpeeds,
  DataOf <- MapLoadedBy,
  Answers <- SpeedsFrom,
  current <- MapOf(datamap),
  state <- [j \in Job |-> StateOf(j)],
  request <- [j \in Job |-> RequestOf(j)],
  view <- [j \in Job |-> ViewOf(j)],
  reply <- [j \in Job |-> ReplyOf(j)]

(* Loads take effect whole, at one moment, in the order they call back, or *)
(* not at all; a query gets the speeds of the map that was in place when it*)
(* was called, whatever loads end before it runs (segment_bindings.cpp:120,*)
(* 222-223), and INVALID_SPEEDs before the first load.                     *)
ImplementsStore == S!Spec

(* Every call that does not throw calls back, whatever loads fail.         *)
EveryCallAnswered == S!EveryCallEnds
-----------------------------------------------------------------------------
(* way_bindings.cpp:167-168, "getRouteSpeeds expects 'wayId' within        *)
(* (Array(Number))to be non-negative": a list that is long enough and has  *)
(* no negative id is not rejected.                                         *)
NonNegativeIdsAccepted ==
  \A j \in Job :
    IsQuery(j) /\ phase[j] = "threw" =>
      Len(args[j]) < MinLength \/ \E i \in DOMAIN args[j] : args[j][i] < 0
=============================================================================
