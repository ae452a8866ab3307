-------------------------- MODULE SpeedLookupProofs -------------------------
(***************************************************************************)
(* For either format, any lists of files and ids and any number of calls   *)
(* and threads: the type invariant of SpeedLookup, that no callback writes *)
(* an object that was collected, and that the object is a Store.           *)
(***************************************************************************)
EXTENDS SpeedLookup, AsyncWorkerProofs

(* The parts of TypeOK about one variable each.                            *)
Types ==
  /\ datamap \in (Source \ Broken) \cup {NoMap}
  /\ object \in {"reachable", "unreachable", "collected"}
  /\ method \in [Job -> {"none", "loadCSV", "getRouteSpeeds"}]
  /\ args \in [Job -> {<<>>} \cup Source \cup Ids]
  /\ held \in [Job -> (Source \ Broken) \cup {NoMap}]
  /\ result \in [Job -> Seq(0 .. INVALID_SPEED)]
  /\ error \in [Job -> BOOLEAN]

(* What a worker has in hand: a load that succeeded the map of its files   *)
(* until it swaps it, a query that has run the speeds of the map it shares.*)
InHand(j) ==
  /\ method[j] = "none" <=> phase[j] = "idle" \/ (phase[j] = "threw" /\ ~IsQuery(j))
  /\ IsLoad(j) => args[j] \in Source /\ phase[j] # "threw"
  /\ IsQuery(j) => args[j] \in Ids
  /\ error[j] => IsLoad(j) /\ phase[j] \in {"completed", "callback", "delivered"}
  /\ IsLoad(j) /\ phase[j] = "completed" /\ ~error[j] =>
       args[j] \notin Broken /\ held[j] = args[j]
  /\ IsQuery(j) /\ phase[j] \in {"completed", "callback"} =>
       result[j] = Speeds(held[j], Queried(args[j]))

(* The inductive invariant.                                                *)
LookupInv ==
  /\ AsyncInv /\ Types
  /\ \A j \in Job : InHand(j)
  /\ object = "collected" => ~Pinned

(* A lookup in a map, or without one, gives one speed for each key.        *)
LEMMA SpeedsType ==
  ASSUME NEW map \in (Source \ Broken) \cup {NoMap}, NEW ids \in Ids
  PROVE  Speeds(map, Queried(ids)) \in Seq(0 .. INVALID_SPEED)
<1>1. ids \in Seq(Int) /\ Len(ids) \in Nat /\ DOMAIN ids = 1 .. Len(ids)
  BY IdsAssumption, LenProperties
<1>2. DOMAIN Queried(ids) = 1 .. Len(ids)
  BY <1>1 DEF Queried
<1>3. PICK n \in Nat : DOMAIN KeysOf(Queried(ids)) = 1 .. n
  <2>1. CASE Format = "segment"
    <3>1. Queried(ids) \in Seq({ToSigned(ids[i]) : i \in 1 .. Len(ids)})
      BY <1>1 DEF Queried
    <3>2. Len(Queried(ids)) \in Nat
      BY <3>1, LenProperties
    <3>3. DOMAIN KeysOf(Queried(ids)) = 1 .. (Len(Queried(ids)) - 1)
      BY <2>1 DEF KeysOf
    <3>4. CASE Len(Queried(ids)) = 0
      BY <3>3, <3>4
    <3>5. CASE Len(Queried(ids)) # 0
      BY <3>2, <3>3, <3>5
    <3> QED
      BY <3>4, <3>5
  <2>2. CASE Format = "way"
    BY <1>1, <1>2, <2>2 DEF KeysOf
  <2> QED
    BY <2>1, <2>2, FormatAssumption
<1> DEFINE keys == KeysOf(Queried(ids))
<1>4. CASE map = NoMap
  <2>1. Speeds(map, Queried(ids)) = [i \in 1 .. n |-> INVALID_SPEED]
    BY <1>3, <1>4 DEF Speeds
  <2> QED
    BY <2>1 DEF INVALID_SPEED
<1>5. CASE map # NoMap
  <2> DEFINE speed(i) == SpeedFor(Built[map], keys[i])
  <2>1. Speeds(map, Queried(ids)) = [i \in 1 .. n |-> speed(i)]
    BY <1>3, <1>5 DEF Speeds, getValues
  <2>2. ASSUME NEW key PROVE SpeedFor(Built[map], key) \in 0 .. INVALID_SPEED
    BY <1>5, BuiltAssumption DEF SpeedFor, IsSpeedMap, INVALID_SPEED
  <2>3. \A i \in 1 .. n : speed(i) \in 0 .. INVALID_SPEED
    BY <2>2
  <2> HIDE DEF speed
  <2> QED
    BY <2>1, <2>3
<1> QED
  BY <1>4, <1>5

(* A query that found no map is answered as if from an empty one.          *)
LEMMA SpeedsAreAnswers ==
  ASSUME NEW map, NEW ids
  PROVE  Speeds(map, ids) = getValues(MapOf(map), ids)
BY DEF Speeds, MapOf, getValues, SpeedFor, EmptySpeeds

(* No map, no call and a reachable object at first.                        *)
LEMMA InitLookupInv == Init => LookupInv
<1> SUFFICES ASSUME Init PROVE LookupInv
  OBVIOUS
<1>1. AsyncInv
  BY AsyncInitInv DEF Init
<1>2. Types
  BY EmptySeq DEF Init, Types
<1>3. \A j \in Job : InHand(j)
  BY DEF Init, AsyncInit, InHand, IsLoad, IsQuery
<1>4. object # "collected"
  BY DEF Init
<1> QED
  BY <1>1, <1>2, <1>3, <1>4 DEF LookupInv

(* A step of job j that leaves the other jobs and the object alone.        *)
Frame(j) ==
  /\ object' = object
  /\ \A k \in Job \ {j} :
       /\ phase'[k] = phase[k] /\ method'[k] = method[k] /\ args'[k] = args[k]
       /\ held'[k] = held[k] /\ result'[k] = result[k] /\ error'[k] = error[k]

(* Such a step keeps the invariant if it keeps what concerns j, and makes  *)
(* no load of a collected object.                                          *)
LEMMA StepOfOne ==
  ASSUME LookupInv, NEW j \in Job, AsyncInv', Types', Frame(j), InHand(j)',
         (IsLoad(j) /\ Outstanding(j))' =>
           (IsLoad(j) /\ Outstanding(j)) \/ object = "reachable"
  PROVE  LookupInv'
<1>1. \A k \in Job : InHand(k)'
  BY DEF LookupInv, Frame, InHand, IsLoad, IsQuery
<1>2. object' = "collected" => ~Pinned'
  BY DEF LookupInv, Frame, Pinned, IsLoad, Outstanding
<1> QED
  BY <1>1, <1>2 DEF LookupInv

(* The calls.                                                              *)
LEMMA CallInv ==
  ASSUME LookupInv, NEW j \in Job, Call(j)
  PROVE  LookupInv'
<1> USE DEF CanCallMethod, calls
<1>0. AsyncInv /\ Types /\ phase \in [Job -> Phases] /\ phase[j] = "idle" /\ InHand(j)
  BY DEF LookupInv, AsyncInv, AsyncTypeOK, Call, RejectArguments, loadCSV, getRouteSpeeds,
         CanCall
<1>1. CASE RejectArguments(j)
  <2>1. AsyncInv'
    BY <1>0, <1>1, ThrowInv DEF RejectArguments
  <2>2. Types' /\ Frame(j)
    BY <1>0, <1>1 DEF RejectArguments, Throw, Types, Frame
  <2>3. InHand(j)' /\ ~IsLoad(j)'
    BY <1>0, <1>1 DEF RejectArguments, Throw, InHand, IsLoad, IsQuery
  <2> QED
    BY <2>1, <2>2, <2>3, StepOfOne
<1>2. ASSUME NEW paths \in Source, loadCSV(j, paths) PROVE LookupInv'
  <2>1. AsyncInv'
    BY <1>0, <1>2, EnqueueInv DEF loadCSV
  <2>2. Types' /\ Frame(j)
    BY <1>0, <1>2 DEF loadCSV, Enqueue, Types, Frame
  <2>3. InHand(j)'
    BY <1>0, <1>2 DEF loadCSV, Enqueue, InHand, IsLoad, IsQuery, Types
  <2>4. object = "reachable"
    BY <1>2 DEF loadCSV
  <2> QED
    BY <2>1, <2>2, <2>3, <2>4, StepOfOne
<1>3. ASSUME NEW ids \in Ids, getRouteSpeeds(j, ids) PROVE LookupInv'
  <2>1. AsyncInv'
    BY <1>0, <1>3, EnqueueInv, ThrowInv DEF getRouteSpeeds
  <2>2. Types' /\ Frame(j)
    BY <1>0, <1>3 DEF getRouteSpeeds, Enqueue, Throw, Types, Frame
  <2>3. InHand(j)' /\ ~IsLoad(j)'
    BY <1>0, <1>3 DEF getRouteSpeeds, Enqueue, Throw, InHand, IsLoad, IsQuery, Types
  <2> QED
    BY <2>1, <2>2, <2>3, StepOfOne
<1> QED
  BY <1>1, <1>2, <1>3 DEF Call

(* The steps of the workers.                                               *)
LEMMA WorkInv ==
  ASSUME LookupInv, NEW j \in Job, Work(j)
  PROVE  LookupInv'
<1> USE DEF calls
<1>0. AsyncInv /\ Types /\ phase \in [Job -> Phases] /\ InHand(j)
  BY DEF LookupInv, AsyncInv, AsyncTypeOK
<1>1. CASE Execute(j)
  <2>1. AsyncInv' /\ phase[j] = "queued"
    BY <1>0, <1>1, BeginInv DEF Execute
  <2>2. Types' /\ Frame(j)
    BY <1>0, <1>1 DEF Execute, Begin, Types, Frame
  <2>3. (IsLoad(j) /\ Outstanding(j))' => IsLoad(j) /\ Outstanding(j)
    BY <1>1, <2>1 DEF Execute, IsLoad, Outstanding
  <2>4. InHand(j)'
    BY <1>0, <1>1, <2>1 DEF Execute, Begin, InHand, IsLoad, IsQuery
  <2> QED
    BY <2>1, <2>2, <2>3, <2>4, StepOfOne
<1>2. CASE LoadFiles(j)
  <2>1. AsyncInv' /\ phase[j] = "running"
    BY <1>0, <1>2, FinishInv DEF LoadFiles, Finish
  <2>2. Types' /\ Frame(j)
    BY <1>0, <1>2 DEF LoadFiles, Finish, Types, Frame, InHand
  <2>3. IsLoad(j) /\ Outstanding(j)
    BY <1>2, <2>1 DEF LoadFiles, Outstanding
  <2>4. InHand(j)'
    BY <1>0, <1>2, <2>1 DEF LoadFiles, Finish, InHand, IsLoad, IsQuery, Types
  <2> QED
    BY <2>1, <2>2, <2>3, <2>4, StepOfOne
<1>3. CASE FailLoad(j)
  <2>1. AsyncInv' /\ phase[j] = "running"
    BY <1>0, <1>3, FinishInv DEF FailLoad, Finish
  <2>2. Types' /\ Frame(j)
    BY <1>0, <1>3 DEF FailLoad, Finish, Types, Frame
  <2>3. IsLoad(j) /\ Outstanding(j)
    BY <1>3, <2>1 DEF FailLoad, Outstanding
  <2>4. InHand(j)'
    BY <1>0, <1>3, <2>1 DEF FailLoad, Finish, InHand, IsLoad, IsQuery, Types
  <2> QED
    BY <2>1, <2>2, <2>3, <2>4, StepOfOne
<1>4. CASE LookUp(j)
  <2>1. AsyncInv' /\ phase[j] = "running"
    BY <1>0, <1>4, FinishInv DEF LookUp, Finish
  <2>2. Speeds(held[j], Queried(args[j])) \in Seq(0 .. INVALID_SPEED)
    BY <1>0, <1>4, SpeedsType DEF LookUp, Types, InHand
  <2>3. Types' /\ Frame(j)
    BY <1>0, <1>4, <2>2 DEF LookUp, Finish, Types, Frame
  <2>4. InHand(j)' /\ ~IsLoad(j)'
    BY <1>0, <1>4, <2>1 DEF LookUp, Finish, InHand, IsLoad, IsQuery, Types,
                            Speeds, Queried, ToSigned
  <2> QED
    BY <2>1, <2>3, <2>4, StepOfOne
<1>5. CASE EnterCallback(j)
  <2>1. AsyncInv' /\ phase[j] = "completed"
    BY <1>0, <1>5, StartCallbackInv DEF EnterCallback
  <2>2. Types' /\ Frame(j)
    BY <1>0, <1>5, <2>1 DEF EnterCallback, StartCallback, Types, Frame, InHand
  <2>3. (IsLoad(j) /\ Outstanding(j))' => IsLoad(j) /\ Outstanding(j)
    BY <1>5, <2>1 DEF EnterCallback, IsLoad, Outstanding
  <2>4. InHand(j)'
    BY <1>0, <1>5, <2>1 DEF EnterCallback, StartCallback, InHand, IsLoad, IsQuery, Types
  <2> QED
    BY <2>1, <2>2, <2>3, <2>4, StepOfOne
<1>6. CASE Deliver(j)
  <2>1. AsyncInv' /\ phase[j] = "callback"
    BY <1>0, <1>6, EndCallbackInv DEF Deliver
  <2>2. Types' /\ Frame(j)
    BY <1>0, <1>6 DEF Deliver, EndCallback, Types, Frame
  <2>3. InHand(j)' /\ ~Outstanding(j)'
    BY <1>0, <1>6, <2>1 DEF Deliver, EndCallback, InHand, IsLoad, IsQuery, Types, Outstanding
  <2> QED
    BY <2>1, <2>2, <2>3, StepOfOne
<1> QED
  BY <1>1, <1>2, <1>3, <1>4, <1>5, <1>6 DEF Work

(* Forgetting the object, and its collection: of an object no load holds.  *)
LEMMA ObjectInv ==
  ASSUME LookupInv, DropObject \/ CollectObject \/ UNCHANGED vars
  PROVE  LookupInv'
<1>1. UNCHANGED <<asyncVars, datamap, calls, held, result, error>>
  BY DEF DropObject, CollectObject, vars
<1>2. AsyncInv'
  BY <1>1, AsyncUnchangedInv DEF LookupInv
<1>3. Types' /\ \A j \in Job : InHand(j)'
  BY <1>1 DEF LookupInv, DropObject, CollectObject, vars, Types, InHand, asyncVars, calls,
              IsLoad, IsQuery
<1>4. object' = "collected" => ~Pinned'
  BY <1>1 DEF LookupInv, DropObject, CollectObject, vars, Pinned, IsLoad, Outstanding,
              asyncVars, calls
<1> QED
  BY <1>2, <1>3, <1>4 DEF LookupInv

(* The invariant of every behaviour.                                       *)
LEMMA LookupInvariant == Spec => []LookupInv
<1>1. LookupInv /\ [Next]_vars => LookupInv'
  BY CallInv, WorkInv, ObjectInv DEF Next, Terminated
<1> QED
  BY InitLookupInv, <1>1, PTL DEF Spec

(* SpeedLookup's type invariant: whatever is loaded is a map that was built*)
(* of readable files, and whatever is answered a list of speeds.           *)
THEOREM TypeCorrect == Spec => []TypeOK
<1>1. LookupInv => TypeOK
  BY DEF LookupInv, AsyncInv, Types, InHand, TypeOK
<1> QED
  BY LookupInvariant, <1>1, PTL

(* No callback of a load writes an object the collector has taken          *)
(* (segment_bindings.cpp:94, 116-120).                                     *)
THEOREM ObjectAlive == Spec => []SelfAlive
<1>1. LookupInv => SelfAlive
  BY DEF LookupInv, SelfAlive, Pinned, Outstanding
<1> QED
  BY LookupInvariant, <1>1, PTL
-----------------------------------------------------------------------------
(* The refinement.                                                         *)

(* What the abstract object sees of a job that a step leaves alone is the  *)
(* same before and after.                                                  *)
LEMMA SameForOthers ==
  ASSUME NEW j \in Job, Frame(j), NEW k \in Job \ {j}
  PROVE  /\ StateOf(k)' = StateOf(k) /\ RequestOf(k)' = RequestOf(k)
         /\ ViewOf(k)' = ViewOf(k) /\ ReplyOf(k)' = ReplyOf(k)
<1> USE DEF Frame, IsLoad, IsQuery
<1>1. StateOf(k)' = StateOf(k)
  BY DEF StateOf, LoadState
<1>2. RequestOf(k)' = RequestOf(k)
  BY DEF RequestOf
<1>3. ViewOf(k)' = ViewOf(k)
  BY DEF ViewOf, MapOf, Outstanding
<1>4. ReplyOf(k)' = ReplyOf(k)
  BY DEF ReplyOf
<1> QED
  BY <1>1, <1>2, <1>3, <1>4

(* A step that shows nothing of job j shows nothing at all.                *)
LEMMA Stutter ==
  ASSUME NEW j \in Job, Frame(j), MapOf(datamap)' = MapOf(datamap),
         StateOf(j)' = StateOf(j), RequestOf(j)' = RequestOf(j),
         ViewOf(j)' = ViewOf(j), ReplyOf(j)' = ReplyOf(j)
  PROVE  UNCHANGED S!vars
BY SameForOthers DEF S!vars

(* One step of the abstract object, from what it changes of job j.  In the *)
(* order of Store: the steps that move job j and nothing else, ...         *)
LEMMA AbstractMove ==
  ASSUME NEW j \in Job, Frame(j), NEW from, NEW to,
         StateOf(j) = from, StateOf(j)' = to
  PROVE  S!Moves(j, from, to)
BY SameForOthers DEF S!Moves

(* ... and those that change a function only at j.                         *)
LEMMA AbstractUpdates ==
  ASSUME NEW j \in Job, Frame(j)
  PROVE  /\ [k \in Job |-> RequestOf(k)]'
              = [[k \in Job |-> RequestOf(k)] EXCEPT ![j] = RequestOf(j)']
         /\ [k \in Job |-> ViewOf(k)]'
              = [[k \in Job |-> ViewOf(k)] EXCEPT ![j] = ViewOf(j)']
         /\ [k \in Job |-> ReplyOf(k)]'
              = [[k \in Job |-> ReplyOf(k)] EXCEPT ![j] = ReplyOf(j)']
BY SameForOthers
-----------------------------------------------------------------------------
(* A new object is a new store.                                            *)
LEMMA InitRefines == Init => S!Init
BY DEF Init, AsyncInit, S!Init, MapOf, StateOf, RequestOf, ViewOf, ReplyOf, IsQuery

(* The calls: a refusal, a load begun or a question asked of the map of the*)
(* moment.                                                                 *)
LEMMA CallRefines ==
  ASSUME LookupInv, NEW j \in Job, Call(j)
  PROVE  S!Refuse(j) \/ S!Load(j) \/ S!Ask(j)
<1> USE DEF CanCallMethod, calls
<1>0. phase \in [Job -> Phases] /\ Types /\ phase[j] = "idle" /\ InHand(j)
  BY DEF LookupInv, AsyncInv, AsyncTypeOK, Call, RejectArguments, loadCSV, getRouteSpeeds,
         CanCall
<1>1. StateOf(j) = "idle"
  BY <1>0 DEF StateOf
<1>2. CASE RejectArguments(j) \/ \E ids \in Ids : getRouteSpeeds(j, ids) /\ ~Accepted(ids)
  <2>1. Frame(j) /\ phase' = [phase EXCEPT ![j] = "threw"] /\ datamap' = datamap
    BY <1>0, <1>2 DEF RejectArguments, getRouteSpeeds, Throw, Frame, Types
  <2>2. StateOf(j)' = "refused" /\ MapOf(datamap)' = MapOf(datamap)
    BY <1>0, <2>1 DEF StateOf, MapOf
  <2>3. RequestOf(j)' = RequestOf(j) /\ ViewOf(j)' = ViewOf(j) /\ ReplyOf(j)' = ReplyOf(j)
    BY <1>0, <2>1 DEF RequestOf, ViewOf, ReplyOf, Outstanding
  <2>4. S!Moves(j, "idle", "refused")
    BY <1>1, <2>1, <2>2, AbstractMove
  <2>5. S!Refuse(j)
    BY <2>1, <2>2, <2>3, <2>4, SameForOthers DEF S!Refuse
  <2> QED
    BY <2>5
<1>3. ASSUME NEW paths \in Source, loadCSV(j, paths) PROVE S!Load(j)
  <2>1. /\ Frame(j) /\ datamap' = datamap
        /\ phase'[j] = "queued" /\ method'[j] = "loadCSV" /\ args'[j] = paths
    BY <1>0, <1>3 DEF loadCSV, Enqueue, Frame, Types
  <2>2. StateOf(j)' = "loading" /\ MapOf(datamap)' = MapOf(datamap)
    BY <2>1 DEF StateOf, LoadState, IsLoad, MapOf
  <2>3. RequestOf(j)' = [method |-> "loadCSV", args |-> paths]
    BY <2>1 DEF RequestOf
  <2>4. ViewOf(j)' = ViewOf(j) /\ ReplyOf(j)' = ReplyOf(j)
    BY <1>0, <2>1 DEF ViewOf, ReplyOf, IsQuery, Outstanding
  <2>5. S!Moves(j, "idle", "loading")
    BY <1>1, <2>1, <2>2, AbstractMove
  <2> QED
    BY <2>1, <2>2, <2>3, <2>4, <2>5, AbstractUpdates, SameForOthers DEF S!Load
<1>4. ASSUME NEW ids \in Ids, getRouteSpeeds(j, ids), Accepted(ids) PROVE S!Ask(j)
  <2>1. /\ Frame(j) /\ datamap' = datamap /\ held'[j] = datamap
        /\ phase'[j] = "queued" /\ method'[j] = "getRouteSpeeds" /\ args'[j] = ids
    BY <1>0, <1>4 DEF getRouteSpeeds, Enqueue, Frame, Types
  <2>2. StateOf(j)' = "asking" /\ MapOf(datamap)' = MapOf(datamap)
    BY <2>1 DEF StateOf, IsLoad, MapOf
  <2>3. RequestOf(j)' = [method |-> "getRouteSpeeds", args |-> ids]
    BY <2>1 DEF RequestOf
  <2>4. ViewOf(j)' = MapOf(datamap) /\ ReplyOf(j)' = ReplyOf(j)
    BY <1>0, <2>1 DEF ViewOf, ReplyOf, IsQuery, Outstanding, MapOf
  <2>5. S!Moves(j, "idle", "asking")
    BY <1>1, <2>1, <2>2, AbstractMove
  <2> QED
    BY <2>1, <2>2, <2>3, <2>4, <2>5, AbstractUpdates, SameForOthers DEF S!Ask
<1> QED
  BY <1>2, <1>3, <1>4 DEF Call

(* Until it calls back a worker shows nothing: neither that it runs, nor   *)
(* what it has read, nor that it has failed.                               *)
LEMMA RunRefines ==
  ASSUME LookupInv, NEW j \in Job, Execute(j) \/ LoadFiles(j) \/ FailLoad(j) \/ LookUp(j)
  PROVE  UNCHANGED S!vars
<1> USE DEF calls
<1>0. phase \in [Job -> Phases] /\ Types /\ InHand(j)
  BY DEF LookupInv, AsyncInv, AsyncTypeOK
<1>1. /\ Frame(j) /\ datamap' = datamap
      /\ method'[j] = method[j] /\ args'[j] = args[j] /\ (IsQuery(j) => held'[j] = held[j])
      /\ phase[j] \in {"queued", "running"} /\ phase'[j] \in {"running", "completed"}
  <2>1. CASE Execute(j)
    <3>1. phase[j] = "queued"
      BY <2>1, BeginInv DEF LookupInv, Execute
    <3> QED
      BY <1>0, <2>1, <3>1 DEF Execute, Begin, Frame, Types
  <2>2. CASE LoadFiles(j) \/ FailLoad(j) \/ LookUp(j)
    BY <1>0, <2>2 DEF LoadFiles, FailLoad, LookUp, Finish, Frame, Types, IsLoad, IsQuery
  <2> QED
    BY <2>1, <2>2
<1>2. StateOf(j)' = StateOf(j) /\ RequestOf(j)' = RequestOf(j)
  BY <1>1 DEF StateOf, LoadState, RequestOf, IsLoad
<1>3. ViewOf(j)' = ViewOf(j) /\ ReplyOf(j)' = ReplyOf(j)
  BY <1>1 DEF ViewOf, ReplyOf, MapOf, IsQuery, Outstanding
<1> QED
  BY <1>1, <1>2, <1>3, Stutter DEF MapOf

(* The swap in the callback of a load that succeeded is its one moment.    *)
LEMMA EnterCallbackRefines ==
  ASSUME LookupInv, NEW j \in Job, EnterCallback(j)
  PROVE  S!Install(j) \/ UNCHANGED S!vars
<1> USE DEF calls
<1>0. phase \in [Job -> Phases] /\ Types /\ InHand(j)
  BY DEF LookupInv, AsyncInv, AsyncTypeOK
<1>1. phase[j] = "completed"
  BY StartCallbackInv DEF LookupInv, EnterCallback
<1>2. /\ Frame(j) /\ phase'[j] = "callback" /\ error'[j] = error[j]
      /\ method'[j] = method[j] /\ args'[j] = args[j] /\ (IsQuery(j) => held'[j] = held[j])
  BY <1>0 DEF EnterCallback, StartCallback, Frame, Types, IsLoad, IsQuery
<1>3. RequestOf(j)' = RequestOf(j) /\ ViewOf(j)' = ViewOf(j) /\ ReplyOf(j)' = ReplyOf(j)
  BY <1>1, <1>2 DEF RequestOf, ViewOf, ReplyOf, MapOf, IsQuery, Outstanding
<1>4. CASE IsLoad(j) /\ ~error[j]
  <2>1. held[j] = args[j] /\ args[j] \in Source \ Broken /\ datamap' = held[j]
    BY <1>0, <1>1, <1>4 DEF InHand, EnterCallback
  <2>2. RequestOf(j) = [method |-> method[j], args |-> args[j]]
    BY <1>1 DEF RequestOf
  <2>3. MapOf(datamap)' = MapLoadedBy(RequestOf(j))
    BY <2>1, <2>2, NoMapAssumption DEF MapOf, MapLoadedBy
  <2>4. StateOf(j) = "loading" /\ StateOf(j)' = "installed"
    BY <1>1, <1>2, <1>4 DEF StateOf, LoadState, IsLoad
  <2>5. S!Moves(j, "loading", "installed")
    BY <1>2, <2>4, AbstractMove
  <2>6. S!Install(j)
    BY <1>2, <1>3, <2>3, <2>5, SameForOthers DEF S!Install
  <2> QED
    BY <2>6
<1>5. CASE ~(IsLoad(j) /\ ~error[j])
  <2>1. datamap' = datamap
    BY <1>5 DEF EnterCallback
  <2>2. StateOf(j)' = StateOf(j)
    BY <1>1, <1>2, <1>5 DEF StateOf, LoadState, IsLoad
  <2> QED
    BY <1>2, <1>3, <2>1, <2>2, Stutter DEF MapOf
<1> QED
  BY <1>4, <1>5

(* The callback of the program ends a load or answers a question, with the *)
(* speeds in the map that the question was asked of.                       *)
LEMMA DeliverRefines ==
  ASSUME LookupInv, NEW j \in Job, Deliver(j)
  PROVE  S!EndLoad(j) \/ S!Answer(j)
<1> USE DEF calls
<1>0. phase \in [Job -> Phases] /\ Types /\ InHand(j)
  BY DEF LookupInv, AsyncInv, AsyncTypeOK
<1>1. phase[j] = "callback"
  BY EndCallbackInv DEF LookupInv, Deliver
<1>2. /\ Frame(j) /\ phase'[j] = "delivered" /\ datamap' = datamap
      /\ method'[j] = method[j] /\ args'[j] = args[j]
      /\ result'[j] = result[j] /\ error'[j] = error[j]
  BY <1>0 DEF Deliver, EndCallback, Frame, Types
<1>3. RequestOf(j)' = RequestOf(j) /\ RequestOf(j) = [method |-> method[j], args |-> args[j]]
  BY <1>1, <1>2 DEF RequestOf
<1>4. MapOf(datamap)' = MapOf(datamap) /\ ViewOf(j)' = EmptySpeeds
  BY <1>2 DEF MapOf, ViewOf, Outstanding
<1>5. CASE IsLoad(j)
  <2>1. ~IsQuery(j) /\ ~IsQuery(j)'
    BY <1>2, <1>5 DEF IsLoad, IsQuery
  <2>2. ViewOf(j)' = ViewOf(j) /\ ReplyOf(j)' = ReplyOf(j)
    BY <1>4, <2>1 DEF ViewOf, ReplyOf
  <2>3. \/ StateOf(j) = "installed" /\ StateOf(j)' = "done"
        \/ StateOf(j) = "loading" /\ StateOf(j)' = "failed"
    BY <1>0, <1>1, <1>2, <1>5 DEF StateOf, LoadState, IsLoad, Types
  <2>4. S!Moves(j, "installed", "done") \/ S!Moves(j, "loading", "failed")
    BY <1>2, <2>3, AbstractMove
  <2>5. S!EndLoad(j)
    BY <1>2, <1>3, <1>4, <2>2, <2>4, SameForOthers DEF S!EndLoad
  <2> QED
    BY <2>5
<1>6. CASE ~IsLoad(j)
  <2>1. IsQuery(j) /\ IsQuery(j)'
    BY <1>0, <1>1, <1>2, <1>6 DEF InHand, Types, IsLoad, IsQuery
  <2>2. ViewOf(j) = MapOf(held[j])
    BY <1>1, <2>1 DEF ViewOf, Outstanding
  <2>3. ReplyOf(j)' = getValues(ViewOf(j), Queried(args[j]))
    BY <1>0, <1>1, <1>2, <2>1, <2>2, SpeedsAreAnswers DEF ReplyOf, InHand
  <2>4. ReplyOf(j)' \in SpeedsFrom(RequestOf(j), ViewOf(j))
    BY <1>3, <2>3 DEF SpeedsFrom
  <2>5. StateOf(j) = "asking" /\ StateOf(j)' = "done"
    BY <1>1, <1>2, <1>6 DEF StateOf, IsLoad
  <2>6. S!Moves(j, "asking", "done")
    BY <1>2, <2>5, AbstractMove
  <2>7. S!Answer(j)
    BY <1>2, <1>3, <1>4, <2>4, <2>6, AbstractUpdates, SameForOthers DEF S!Answer
  <2> QED
    BY <2>7
<1> QED
  BY <1>5, <1>6

(* The life of the object shows nothing.                                   *)
LEMMA ObjectRefines ==
  ASSUME DropObject \/ CollectObject \/ UNCHANGED vars
  PROVE  UNCHANGED S!vars
<1>1. UNCHANGED <<asyncVars, datamap, calls, held, result, error>>
  BY DEF DropObject, CollectObject, vars
<1> QED
  BY <1>1 DEF asyncVars, calls, S!vars, MapOf, StateOf, LoadState, RequestOf, ViewOf, ReplyOf,
              IsLoad, IsQuery, Outstanding

(* The object is a Store: for any number of calls and threads, each load   *)
(* takes effect whole and at one moment, or not at all, and each question  *)
(* is answered from the map that was in place when it was asked            *)
(* (segment_bindings.cpp:113-124, 184-199, 222-223).                       *)
THEOREM Refinement == Spec => ImplementsStore
<1>1. LookupInv /\ [Next]_vars => [S!Next]_(S!vars)
  <2> SUFFICES ASSUME LookupInv, [Next]_vars PROVE S!Next \/ UNCHANGED S!vars
    OBVIOUS
  <2>1. ASSUME NEW j \in Job, Call(j) PROVE S!Next
    BY <2>1, CallRefines DEF S!Next
  <2>2. ASSUME NEW j \in Job, Work(j) PROVE S!Next \/ UNCHANGED S!vars
    BY <2>2, RunRefines, EnterCallbackRefines, DeliverRefines DEF Work, S!Next
  <2>3. CASE DropObject \/ CollectObject \/ UNCHANGED vars
    BY <2>3, ObjectRefines
  <2> QED
    BY <2>1, <2>2, <2>3 DEF Next, Terminated
<1> QED
  BY InitRefines, LookupInvariant, <1>1, PTL DEF Spec, ImplementsStore, S!Spec
=============================================================================
