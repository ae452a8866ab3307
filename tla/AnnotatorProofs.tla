--------------------------- MODULE AnnotatorProofs ---------------------------
(***************************************************************************)
(* For any number of calls and threads and any databases, what holds of the*)
(* object, under the least that must be asked of the program for it.  Of any*)
(* program: the types, that each worker runs once, that no null pointer is *)
(* used, that data, once loaded, stays, and that coordinates are found if  *)
(* there is a tree.  Of one that starts no load while another is under way:*)
(* that nothing is leaked or lost, and that loads take effect whole.  Of one*)
(* that, besides, has no load and query under way together: that nothing is*)
(* used after it was freed.  Of one that also forgets the way ids of data it*)
(* has replaced: no undefined behaviour at all.                            *)
(***************************************************************************)
EXTENDS Annotator, AsyncWorkerProofs

(* Why no pointer is null when it is used.  A query is only accepted when  *)
(* both fields are set; the only pointers written to the fields are those  *)
(* a load has just made; and a pointer read for a use is read from a field.*)
PointerSet(j) ==
  /\ method[j] = "none" => phase[j] \in {"idle", "threw"}
  /\ IsQuery(j) => HasData
  /\ pc[j] \in Uses => IsQuery(j) /\ ptr[j] # Null
  /\ pc[j] \notin Uses \cup {"writeDatabase", "writeAnnotator"} => ptr[j] = Unread
  /\ pc[j] \in {"writeDatabase", "writeAnnotator"} => ptr[j] # Unread
  /\ pc[j] \in {"readDatabase", "writeDatabase"} => localDatabase[j] # Null
  /\ pc[j] \in {"readDatabase", "writeDatabase", "readAnnotator", "writeAnnotator"}
       => localAnnotator[j] # Null

(* Where a call is on its way agrees with what its worker does next.      *)
InStep(j) ==
  /\ pc[j] \in ExecuteSteps <=> phase[j] = "running"
  /\ pc[j] \in CallbackSteps <=> phase[j] = "callback"

(* The parts of TypeOK about one variable each.                            *)
Types ==
  /\ database \in Pointer /\ annotator \in Pointer
  /\ liveDatabase \subseteq Job /\ liveAnnotator \subseteq Job
  /\ method \in [Job -> QueryOps \cup {"none", "loadOSMExtract"}]
  /\ pc \in [Job -> ExecuteSteps \cup CallbackSteps \cup {"none", "callback"}]
  /\ ptr \in [Job -> Pointer \cup {Unread}]
  /\ localDatabase \in [Job -> Pointer] /\ localAnnotator \in [Job -> Pointer]
  /\ error \in [Job -> BOOLEAN]
  /\ fault \in {"none", "null", "dangling", "double free", "past the end"}
  /\ loaded \in Pointer

(* The inductive invariant.                                                *)
NullInv ==
  /\ AsyncTypeOK /\ EachOnce /\ Types /\ NeverNull
  /\ \A j \in Job : InStep(j) /\ PointerSet(j)

(* TypeOK, cut into what a step of another job keeps by itself and what   *)
(* is said job by job.                                                    *)
LEMMA TypeParts == TypeOK <=> AsyncTypeOK /\ Types /\ \A j \in Job : InStep(j)
  BY DEF TypeOK, Types, InStep

(* The object starts without data and no call has been made.              *)
LEMMA InitNullInv == Init => NullInv
<1> SUFFICES ASSUME Init PROVE NullInv
  OBVIOUS
<1>1. AsyncTypeOK /\ EachOnce
  BY AsyncInitInv DEF Init, AsyncInv
<1>2. Types /\ NeverNull
  BY DEF Init, Types, Pointer, NeverNull
<1>3. \A j \in Job : InStep(j) /\ PointerSet(j)
  BY DEF Init, AsyncInit, InStep, PointerSet, IsQuery, QueryOps, RouteOps, Uses,
         ExecuteSteps, CallbackSteps
<1> QED
  BY <1>1, <1>2, <1>3 DEF NullInv

(* What a step of job j has to keep: nothing about another job changes but *)
(* perhaps the two fields, and these are not cleared.                      *)
Frame(j) ==
  /\ HasData => HasData'
  /\ \A k \in Job \ {j} :
       /\ phase'[k] = phase[k] /\ method'[k] = method[k]
       /\ pc'[k] = pc[k] /\ ptr'[k] = ptr[k]
       /\ localDatabase'[k] = localDatabase[k]
       /\ localAnnotator'[k] = localAnnotator[k]

(* A step of job j that keeps what concerns j, and satisfies Frame(j),    *)
(* keeps the invariant: every action is proved to by this lemma.          *)
LEMMA StepOfOne ==
  ASSUME NullInv, NEW j \in Job, AsyncTypeOK', EachOnce', Types', NeverNull',
         Frame(j), InStep(j)', PointerSet(j)'
  PROVE  NullInv'
<1>1. ASSUME NEW k \in Job, k # j PROVE InStep(k)' /\ PointerSet(k)'
  BY <1>1 DEF NullInv, Frame, InStep, PointerSet, IsQuery
<1> QED
  BY <1>1 DEF NullInv

(* The steps of OSMLoader::Execute.                                        *)
LEMMA LoadNullInv ==
  ASSUME NullInv, NEW j \in Job, Load(j)
  PROVE  NullInv'
<1> USE JobAssumption DEF NullInv, asyncVars, fields, heap, calls, locals, results, client
<1>1. AsyncTypeOK' /\ EachOnce'
  <2>1. UNCHANGED asyncVars
    BY DEF Load, BuildDatabase, FailBuild, ReadDatabase, WriteDatabase, ReadAnnotator,
           WriteAnnotator, FreeAnnotator, FreeDatabase
  <2> QED
    BY <2>1, AsyncUnchangedInv DEF AsyncInv
<1>2. CASE BuildDatabase(j)
  <2> USE <1>2 DEF BuildDatabase, Goto, Read
  <2>1. Types' /\ NeverNull'
    BY DEF Types, NeverNull, Pointer, Null, ExecuteSteps, CallbackSteps
  <2>2. Frame(j)
    BY DEF Types, Frame, HasData
  <2>3. InStep(j)'
    BY DEF Types, InStep, ExecuteSteps, CallbackSteps
  <2>4. PointerSet(j)'
    BY UnreadAssumption, <2>2 DEF Types, Frame, PointerSet, IsQuery, Uses, Pointer, Null
  <2> QED
    BY <1>1, <2>1, <2>2, <2>3, <2>4, StepOfOne
<1>3. CASE FailBuild(j)
  <2> USE <1>3 DEF FailBuild, Goto, Read
  <2>1. Types' /\ NeverNull'
    BY DEF Types, NeverNull, Pointer, Null, ExecuteSteps, CallbackSteps
  <2>2. Frame(j)
    BY DEF Types, Frame, HasData
  <2>3. InStep(j)'
    BY DEF Types, InStep, ExecuteSteps, CallbackSteps
  <2>4. PointerSet(j)'
    BY UnreadAssumption, <2>2 DEF Types, Frame, PointerSet, IsQuery, Uses, Pointer, Null
  <2> QED
    BY <1>1, <2>1, <2>2, <2>3, <2>4, StepOfOne
<1>4. CASE ReadDatabase(j)
  <2> USE <1>4 DEF ReadDatabase, Goto, Read
  <2>1. Types' /\ NeverNull'
    BY DEF Types, NeverNull, Pointer, Null, ExecuteSteps, CallbackSteps
  <2>2. Frame(j)
    BY DEF Types, Frame, HasData
  <2>3. InStep(j)'
    BY DEF Types, InStep, ExecuteSteps, CallbackSteps
  <2>4. PointerSet(j)'
    BY UnreadAssumption, <2>2 DEF Types, Frame, PointerSet, IsQuery, Uses, Pointer, Null
  <2> QED
    BY <1>1, <2>1, <2>2, <2>3, <2>4, StepOfOne
<1>5. CASE WriteDatabase(j)
  <2> USE <1>5 DEF WriteDatabase, Goto, Read
  <2>0. ptr[j] \in Pointer
    BY DEF Types, PointerSet
  <2>1. Types' /\ NeverNull'
    BY <2>0 DEF Types, NeverNull, Pointer, Null, ExecuteSteps, CallbackSteps
  <2>2. Frame(j)
    BY DEF Types, Frame, HasData, PointerSet
  <2>3. InStep(j)'
    BY DEF Types, InStep, ExecuteSteps, CallbackSteps
  <2>4. PointerSet(j)'
    BY UnreadAssumption, <2>2 DEF Types, Frame, PointerSet, IsQuery, Uses, Pointer, Null
  <2> QED
    BY <1>1, <2>1, <2>2, <2>3, <2>4, StepOfOne
<1>6. CASE ReadAnnotator(j)
  <2> USE <1>6 DEF ReadAnnotator, Goto, Read
  <2>1. Types' /\ NeverNull'
    BY DEF Types, NeverNull, Pointer, Null, ExecuteSteps, CallbackSteps
  <2>2. Frame(j)
    BY DEF Types, Frame, HasData
  <2>3. InStep(j)'
    BY DEF Types, InStep, ExecuteSteps, CallbackSteps
  <2>4. PointerSet(j)'
    BY UnreadAssumption, <2>2 DEF Types, Frame, PointerSet, IsQuery, Uses, Pointer, Null
  <2> QED
    BY <1>1, <2>1, <2>2, <2>3, <2>4, StepOfOne
<1>7. CASE WriteAnnotator(j)
  <2> USE <1>7 DEF WriteAnnotator, Goto, Read
  <2>0. ptr[j] \in Pointer
    BY DEF Types, PointerSet
  <2>1. Types' /\ NeverNull'
    BY <2>0 DEF Types, NeverNull, Pointer, Null, ExecuteSteps, CallbackSteps
  <2>2. Frame(j)
    BY DEF Types, Frame, HasData, PointerSet
  <2>3. InStep(j)'
    BY DEF Types, InStep, ExecuteSteps, CallbackSteps
  <2>4. PointerSet(j)'
    BY UnreadAssumption, <2>2 DEF Types, Frame, PointerSet, IsQuery, Uses, Pointer, Null
  <2> QED
    BY <1>1, <2>1, <2>2, <2>3, <2>4, StepOfOne
<1>8. CASE FreeAnnotator(j)
  <2> USE <1>8 DEF FreeAnnotator, Goto, Read
  <2>1. Types' /\ NeverNull'
    BY DEF Types, NeverNull, Pointer, Null, ExecuteSteps, CallbackSteps
  <2>2. Frame(j)
    BY DEF Types, Frame, HasData
  <2>3. InStep(j)'
    BY DEF Types, InStep, ExecuteSteps, CallbackSteps
  <2>4. PointerSet(j)'
    BY UnreadAssumption, <2>2 DEF Types, Frame, PointerSet, IsQuery, Uses, Pointer, Null
  <2> QED
    BY <1>1, <2>1, <2>2, <2>3, <2>4, StepOfOne
<1>9. CASE FreeDatabase(j)
  <2> USE <1>9 DEF FreeDatabase, Goto, Read
  <2>1. Types' /\ NeverNull'
    BY DEF Types, NeverNull, Pointer, Null, ExecuteSteps, CallbackSteps
  <2>2. Frame(j)
    BY DEF Types, Frame, HasData
  <2>3. InStep(j)'
    BY DEF Types, InStep, ExecuteSteps, CallbackSteps
  <2>4. PointerSet(j)'
    BY UnreadAssumption, <2>2 DEF Types, Frame, PointerSet, IsQuery, Uses, Pointer, Null
  <2> QED
    BY <1>1, <2>1, <2>2, <2>3, <2>4, StepOfOne
<1> QED
  BY <1>2, <1>3, <1>4, <1>5, <1>6, <1>7, <1>8, <1>9 DEF Load

(* The steps that use the annotator, in Execute and in the callbacks.      *)
LEMMA LookupNullInv ==
  ASSUME NullInv, NEW j \in Job, Lookup(j)
  PROVE  NullInv'
<1> USE JobAssumption DEF NullInv, asyncVars, fields, heap, calls, locals, results, client, Use
<1>1. AsyncTypeOK' /\ EachOnce'
  <2>1. UNCHANGED asyncVars
    BY DEF Lookup, Fetch, UseFails, ConvertNodeIds, MatchPoints, AnnotateRoute, GetTagRange,
           GetTagKey, GetTagValue, GetExternalWayId
  <2> QED
    BY <2>1, AsyncUnchangedInv DEF AsyncInv
<1>2. CASE Fetch(j)
  <2> USE <1>2 DEF Fetch, Goto, Read
  <2>1. Types' /\ NeverNull'
    BY DEF Types, NeverNull, Pointer, Null, ExecuteSteps, CallbackSteps
  <2>2. Frame(j)
    BY DEF Types, Frame, HasData
  <2>3. InStep(j)'
    BY DEF Types, InStep, ExecuteSteps, CallbackSteps, Uses
  <2>4. PointerSet(j)'
    BY UnreadAssumption, <2>2 DEF Types, Frame, PointerSet, IsQuery, Uses, Pointer, Null, HasData
  <2> QED
    BY <1>1, <2>1, <2>2, <2>3, <2>4, StepOfOne
<1>3. CASE UseFails(j)
  <2> USE <1>3 DEF UseFails, Goto, Read
  <2>1. Types' /\ NeverNull'
    BY DEF Types, NeverNull, Pointer, Null, PointerSet, Uses, ExecuteSteps, CallbackSteps
  <2>2. Frame(j)
    BY DEF Types, Frame, HasData
  <2>3. InStep(j)'
    BY DEF Types, InStep, ExecuteSteps, CallbackSteps
  <2>4. PointerSet(j)'
    BY UnreadAssumption, <2>2 DEF Types, Frame, PointerSet, IsQuery, Uses, Pointer, Null
  <2> QED
    BY <1>1, <2>1, <2>2, <2>3, <2>4, StepOfOne
<1>4. CASE ConvertNodeIds(j)
  <2> USE <1>4 DEF ConvertNodeIds, Goto, Read
  <2>1. Types' /\ NeverNull'
    BY DEF Types, NeverNull, Pointer, Null, ExecuteSteps, CallbackSteps
  <2>2. Frame(j)
    BY DEF Types, Frame, HasData
  <2>3. InStep(j)'
    BY DEF Types, InStep, ExecuteSteps, CallbackSteps
  <2>4. PointerSet(j)'
    BY UnreadAssumption, <2>2 DEF Types, Frame, PointerSet, IsQuery, Uses, Pointer, Null
  <2> QED
    BY <1>1, <2>1, <2>2, <2>3, <2>4, StepOfOne
<1>5. CASE MatchPoints(j)
  <2> USE <1>5 DEF MatchPoints, Goto, Read
  <2>1. Types' /\ NeverNull'
    BY DEF Types, NeverNull, Pointer, Null, ExecuteSteps, CallbackSteps
  <2>2. Frame(j)
    BY DEF Types, Frame, HasData
  <2>3. InStep(j)'
    BY DEF Types, InStep, ExecuteSteps, CallbackSteps
  <2>4. PointerSet(j)'
    <3>1. /\ ptr'[j] = Unread /\ method'[j] = method[j] /\ phase'[j] = phase[j]
          /\ pc'[j] \in {"annotate", "return"}
      BY DEF Types
    <3>2. method[j] # "none" /\ IsQuery(j)
      BY DEF Types, PointerSet, IsQuery, Uses, QueryOps, RouteOps
    <3> HIDE <1>5
    <3> QED
      BY UnreadAssumption, <2>2, <3>1, <3>2 DEF Frame, PointerSet, IsQuery, Uses, Null
  <2> QED
    BY <1>1, <2>1, <2>2, <2>3, <2>4, StepOfOne
<1>6. CASE AnnotateRoute(j)
  <2> USE <1>6 DEF AnnotateRoute, Goto, Read
  <2>1. Types' /\ NeverNull'
    BY DEF Types, NeverNull, Pointer, Null, ExecuteSteps, CallbackSteps
  <2>2. Frame(j)
    BY DEF Types, Frame, HasData
  <2>3. InStep(j)'
    BY DEF Types, InStep, ExecuteSteps, CallbackSteps
  <2>4. PointerSet(j)'
    BY UnreadAssumption, <2>2 DEF Types, Frame, PointerSet, IsQuery, Uses, Pointer, Null
  <2> QED
    BY <1>1, <2>1, <2>2, <2>3, <2>4, StepOfOne
<1>7. CASE GetTagRange(j)
  <2> USE <1>7 DEF GetTagRange, Goto, Read
  <2>1. Types' /\ NeverNull'
    BY DEF Types, NeverNull, Pointer, Null, ExecuteSteps, CallbackSteps
  <2>2. Frame(j)
    BY DEF Types, Frame, HasData
  <2>3. InStep(j)'
    BY DEF Types, InStep, ExecuteSteps, CallbackSteps
  <2>4. PointerSet(j)'
    BY UnreadAssumption, <2>2 DEF Types, Frame, PointerSet, IsQuery, Uses, Pointer, Null
  <2> QED
    BY <1>1, <2>1, <2>2, <2>3, <2>4, StepOfOne
<1>8. CASE GetTagKey(j)
  <2> USE <1>8 DEF GetTagKey, Goto, Read
  <2>1. Types' /\ NeverNull'
    BY DEF Types, NeverNull, Pointer, Null, ExecuteSteps, CallbackSteps
  <2>2. Frame(j)
    BY DEF Types, Frame, HasData
  <2>3. InStep(j)'
    BY DEF Types, InStep, ExecuteSteps, CallbackSteps
  <2>4. PointerSet(j)'
    BY UnreadAssumption, <2>2 DEF Types, Frame, PointerSet, IsQuery, Uses, Pointer, Null
  <2> QED
    BY <1>1, <2>1, <2>2, <2>3, <2>4, StepOfOne
<1>9. CASE GetTagValue(j)
  <2> USE <1>9 DEF GetTagValue, Goto, Read
  <2>1. Types' /\ NeverNull'
    BY DEF Types, NeverNull, Pointer, Null, NextTag, ExecuteSteps, CallbackSteps
  <2>2. Frame(j)
    BY DEF Types, Frame, HasData
  <2>3. InStep(j)'
    BY DEF Types, InStep, ExecuteSteps, CallbackSteps, NextTag
  <2>4. PointerSet(j)'
    BY UnreadAssumption, <2>2 DEF Types, Frame, PointerSet, IsQuery, Uses, Pointer, Null, NextTag
  <2> QED
    BY <1>1, <2>1, <2>2, <2>3, <2>4, StepOfOne
<1>10. CASE GetExternalWayId(j)
  <2> USE <1>10 DEF GetExternalWayId, Goto, Read
  <2>1. Types' /\ NeverNull'
    BY DEF Types, NeverNull, Pointer, Null, ExecuteSteps, CallbackSteps
  <2>2. Frame(j)
    BY DEF Types, Frame, HasData
  <2>3. InStep(j)'
    BY DEF Types, InStep, ExecuteSteps, CallbackSteps
  <2>4. PointerSet(j)'
    BY UnreadAssumption, <2>2 DEF Types, Frame, PointerSet, IsQuery, Uses, Pointer, Null
  <2> QED
    BY <1>1, <2>1, <2>2, <2>3, <2>4, StepOfOne
<1> QED
  BY <1>2, <1>3, <1>4, <1>5, <1>6, <1>7, <1>8, <1>9, <1>10 DEF Lookup

(* The calls from JavaScript.                                              *)
LEMMA CallNullInv ==
  ASSUME NullInv, NEW j \in Job, Call(j)
  PROVE  NullInv'
<1> USE JobAssumption DEF NullInv, fields, heap, calls, locals, results, client, CanCall
<1>1. CASE RejectArguments(j)
  <2> USE <1>1 DEF RejectArguments
  <2>1. AsyncTypeOK' /\ EachOnce'
    BY ThrowInv DEF AsyncInv
  <2>2. Types' /\ NeverNull' /\ Frame(j)
    BY DEF Types, NeverNull, Frame, HasData, Throw, AsyncTypeOK
  <2>3. InStep(j)' /\ PointerSet(j)'
    BY DEF AsyncTypeOK, InStep, PointerSet, IsQuery, HasData, Throw
  <2> QED
    BY <2>1, <2>2, <2>3, StepOfOne
<1>2. ASSUME NEW e \in Extract, loadOSMExtract(j, e)
      PROVE  NullInv'
  <2> USE <1>2 DEF loadOSMExtract
  <2>1. AsyncTypeOK' /\ EachOnce'
    BY EnqueueInv DEF AsyncInv
  <2>2. Types' /\ NeverNull' /\ Frame(j)
    BY DEF Types, NeverNull, Frame, HasData, Enqueue, AsyncTypeOK
  <2>3. InStep(j)'
    BY DEF AsyncTypeOK, InStep, Enqueue
  <2>4. PointerSet(j)'
    BY <2>3 DEF Types, PointerSet, IsQuery, QueryOps, RouteOps, Enqueue, AsyncTypeOK, InStep,
                Uses, ExecuteSteps, CallbackSteps
  <2> QED
    BY <2>1, <2>2, <2>3, <2>4, StepOfOne
<1>3. ASSUME NEW m \in QueryOps, NEW a, Query(j, m, a)
      PROVE  NullInv'
  <2> USE <1>3 DEF Query
  <2>1. AsyncTypeOK' /\ EachOnce'
    BY EnqueueInv, ThrowInv DEF AsyncInv
  <2>2. Types' /\ NeverNull' /\ Frame(j)
    BY DEF Types, NeverNull, Frame, HasData, Enqueue, Throw, AsyncTypeOK
  <2>3. InStep(j)'
    BY DEF AsyncTypeOK, InStep, Enqueue, Throw
  <2>4. CASE ~HasData
    BY <2>1, <2>2, <2>3, <2>4, StepOfOne DEF PointerSet, IsQuery, Throw, AsyncTypeOK, HasData
  <2>5. CASE HasData
    <3>1. PointerSet(j)'
      BY <2>3, <2>5 DEF Types, PointerSet, IsQuery, QueryOps, RouteOps, Enqueue, AsyncTypeOK,
                        InStep, Uses, ExecuteSteps, CallbackSteps, HasData
    <3> QED
      BY <2>1, <2>2, <2>3, <3>1, StepOfOne
  <2> QED
    BY <2>4, <2>5
<1> QED
  BY <1>1, <1>2, <1>3 DEF Call, QueryOps, RouteOps

(* The steps of the pool and of the event loop.                            *)
LEMMA WorkerNullInv ==
  ASSUME NullInv, NEW j \in Job, Execute(j) \/ Return(j) \/ EnterCallback(j) \/ Deliver(j)
  PROVE  NullInv'
<1> USE JobAssumption DEF NullInv, fields, heap, calls, locals, results, client, Goto
<1>1. CASE Execute(j)
  <2> USE <1>1 DEF Execute
  <2>1. AsyncTypeOK' /\ EachOnce' /\ phase[j] = "queued"
    BY BeginInv DEF AsyncInv
  <2>2. method[j] \in QueryOps \cup {"loadOSMExtract"}
    BY <2>1 DEF Types, PointerSet
  <2>3. /\ FirstStep(method[j]) \in {"build", "convert", "match", "range"}
        /\ FirstStep(method[j]) # "build" => IsQuery(j)
    BY <2>2 DEF FirstStep, QueryOps, RouteOps, IsQuery
  <2>4. Types' /\ NeverNull' /\ Frame(j)
    BY <2>3 DEF Types, NeverNull, Frame, HasData, Begin, AsyncTypeOK, ExecuteSteps
  <2>5. InStep(j)'
    BY <2>1, <2>3 DEF Types, AsyncTypeOK, InStep, Begin, ExecuteSteps, CallbackSteps
  <2>6. ptr[j] = Unread
    BY <2>1 DEF Types, InStep, PointerSet, ExecuteSteps, CallbackSteps, Uses
  <2>7. PointerSet(j)'
    BY <2>2, <2>3, <2>6, UnreadAssumption
    DEF Types, AsyncTypeOK, PointerSet, Begin, IsQuery, HasData, Uses, Null, QueryOps, RouteOps
  <2> QED
    BY <2>1, <2>4, <2>5, <2>7, StepOfOne
<1>2. CASE Return(j)
  <2> USE <1>2 DEF Return
  <2>1. AsyncTypeOK' /\ EachOnce'
    BY FinishInv DEF AsyncInv
  <2>2. Types' /\ NeverNull' /\ Frame(j)
    BY DEF Types, NeverNull, Frame, HasData, Finish, AsyncTypeOK
  <2>3. InStep(j)'
    BY DEF Types, AsyncTypeOK, InStep, Finish, ExecuteSteps, CallbackSteps
  <2>4. PointerSet(j)'
    BY DEF Types, AsyncTypeOK, PointerSet, Finish, IsQuery, HasData, Uses
  <2> QED
    BY <2>1, <2>2, <2>3, <2>4, StepOfOne
<1>3. CASE EnterCallback(j)
  <2> USE <1>3 DEF EnterCallback
  <2>1. AsyncTypeOK' /\ EachOnce' /\ phase[j] = "completed"
    BY StartCallbackInv DEF AsyncInv
  <2>2. /\ pc'[j] \in {"key", "way id", "deliver"}
        /\ pc'[j] # "deliver" => IsQuery(j)
    BY DEF Types, NextTag, IsQuery, QueryOps
  <2>3. Types' /\ NeverNull' /\ Frame(j)
    BY <2>2 DEF Types, NeverNull, Frame, HasData, StartCallback, AsyncTypeOK, CallbackSteps
  <2>4. InStep(j)'
    BY <2>1, <2>2 DEF Types, AsyncTypeOK, InStep, StartCallback, ExecuteSteps, CallbackSteps
  <2>5. ptr[j] = Unread
    BY <2>1 DEF Types, InStep, PointerSet, ExecuteSteps, CallbackSteps, Uses
  <2>6. PointerSet(j)'
    BY <2>1, <2>2, <2>5, UnreadAssumption
    DEF Types, AsyncTypeOK, PointerSet, StartCallback, IsQuery, HasData, Uses, Null
  <2> QED
    BY <2>1, <2>3, <2>4, <2>6, StepOfOne
<1>4. CASE Deliver(j)
  <2> USE <1>4 DEF Deliver
  <2>1. AsyncTypeOK' /\ EachOnce' /\ phase[j] = "callback"
    BY EndCallbackInv DEF AsyncInv
  <2>2. loaded' \in Pointer
    BY DEF Types, Pointer
  <2>3. Types' /\ NeverNull' /\ Frame(j)
    BY <2>2 DEF Types, NeverNull, Frame, HasData, EndCallback, AsyncTypeOK
  <2>4. InStep(j)'
    BY DEF Types, AsyncTypeOK, InStep, EndCallback, ExecuteSteps, CallbackSteps
  <2>5. PointerSet(j)'
    BY <2>1 DEF Types, AsyncTypeOK, PointerSet, EndCallback, IsQuery, HasData, Uses
  <2> QED
    BY <2>1, <2>3, <2>4, <2>5, StepOfOne
<1> QED
  BY <1>1, <1>2, <1>3, <1>4

(* A step that changes nothing keeps the invariant.                       *)
LEMMA StutterNullInv == NullInv /\ UNCHANGED vars => NullInv'
  BY AsyncUnchangedInv
  DEF NullInv, AsyncInv, vars, fields, heap, calls, locals, results, client, Types, InStep,
      PointerSet, IsQuery, HasData, NeverNull, asyncVars

(* Every step keeps the invariant.                                        *)
LEMMA NextNullInv == NullInv /\ [Next]_vars => NullInv'
<1> SUFFICES ASSUME NullInv, [Next]_vars PROVE NullInv'
  OBVIOUS
<1>1. CASE UNCHANGED vars
  BY <1>1, StutterNullInv
<1>2. ASSUME NEW j \in Job, Call(j) PROVE NullInv'
  BY <1>2, CallNullInv
<1>3. ASSUME NEW j \in Job, Work(j) PROVE NullInv'
  BY <1>3, LoadNullInv, LookupNullInv, WorkerNullInv DEF Work
<1> QED
  BY <1>1, <1>2, <1>3 DEF Next, Terminated

(* The invariant the theorems below follow from holds in every reachable  *)
(* state.                                                                 *)
THEOREM NullInvHolds == Spec => []NullInv
  BY InitNullInv, NextNullInv, PTL DEF Spec

(* The state of Annotator keeps its types, and a call is in a step of      *)
(* Execute exactly when a thread runs it, and in a step of a callback      *)
(* exactly when the main thread does.                                      *)
THEOREM TypeCorrect == Spec => []TypeOK
<1>1. NullInv => TypeOK
  BY TypeParts DEF NullInv
<1> QED
  BY <1>1, NullInvHolds, PTL

(* No worker is lost, queued twice or run twice, and callbacks come one at *)
(* a time.                                                                 *)
THEOREM WorkersRunOnce == Spec => []EachOnce
<1>1. NullInv => EachOnce
  BY DEF NullInv
<1> QED
  BY <1>1, NullInvHolds, PTL

(* However calls overlap, the guard of the queries is enough against the   *)
(* use of a null pointer.                                                  *)
THEOREM NullSafe == Spec => []NeverNull
<1>1. NullInv => NeverNull
  BY DEF NullInv
<1> QED
  BY <1>1, NullInvHolds, PTL

(* A field that points to data never again points to none: the only writes *)
(* to the fields are the swaps, which write what the load has made.        *)
LEMMA FieldsStaySet ==
  ASSUME NullInv, [Next]_vars
  PROVE  /\ database # Null => database' # Null
         /\ annotator # Null => annotator' # Null
<1> USE DEF fields
<1>1. CASE UNCHANGED fields
  BY <1>1
<1>2. ASSUME NEW j \in Job, WriteDatabase(j) \/ WriteAnnotator(j)
      PROVE  /\ database # Null => database' # Null
             /\ annotator # Null => annotator' # Null
  BY <1>2 DEF NullInv, PointerSet, WriteDatabase, WriteAnnotator
<1>3. ASSUME NEW j \in Job, Call(j) PROVE UNCHANGED fields
  BY <1>3 DEF Call, RejectArguments, loadOSMExtract, Query
<1>4. ASSUME NEW j \in Job, Load(j), ~WriteDatabase(j), ~WriteAnnotator(j)
      PROVE  UNCHANGED fields
  BY <1>4 DEF Load, BuildDatabase, FailBuild, ReadDatabase, ReadAnnotator, FreeAnnotator,
              FreeDatabase
<1>5. ASSUME NEW j \in Job, Lookup(j) PROVE UNCHANGED fields
  BY <1>5 DEF Lookup, Fetch, UseFails, ConvertNodeIds, MatchPoints, AnnotateRoute, GetTagRange,
              GetTagKey, GetTagValue, GetExternalWayId
<1>6. ASSUME NEW j \in Job, Execute(j) \/ Return(j) \/ EnterCallback(j) \/ Deliver(j)
      PROVE  UNCHANGED fields
  BY <1>6 DEF Execute, Return, EnterCallback, Deliver
<1> QED
  BY <1>1, <1>2, <1>3, <1>4, <1>5, <1>6 DEF Next, Work, Terminated, vars

(* Once data is loaded, data stays loaded, whatever loads fail or race.    *)
THEOREM DataStays == Spec => StaysLoaded
<1>1. NullInv /\ [Next]_vars =>
        [/\ database # Null => database' # Null
         /\ annotator # Null => annotator' # Null]_vars
  BY FieldsStaySet
<1> QED
  BY <1>1, NullInvHolds, PTL DEF Spec, StaysLoaded

-----------------------------------------------------------------------------
(* What is known of each call and of each object, whatever the habits.     *)

(* A load that has made data, or can make it: it is not one that fails.    *)
Made(l) == l \in Job /\ IsLoad(l) /\ args[l][1] \in Extract \ Broken

(* A way id that some data has, not necessarily the data of the moment.    *)
SomeWay(way_id) == way_id \in Nat /\ \E e \in Extract : HasWay(Built[e], way_id)

LoadSteps ==
  {"build", "readDatabase", "writeDatabase", "readAnnotator", "writeAnnotator",
   "freeAnnotator", "freeDatabase"}

BeforeSwap == {"readDatabase", "writeDatabase", "readAnnotator", "writeAnnotator"}

(* The call and its arguments agree with what its worker does next.        *)
Shape(j) ==
  /\ phase[j] \in {"idle", "threw", "queued", "delivered"} <=> pc[j] = "none"
  /\ phase[j] = "completed" <=> pc[j] = "callback"
  /\ phase[j] = "idle" => method[j] = "none" /\ wayIds[j] = <<>> /\ tags[j] = <<>>
  /\ pc[j] \in LoadSteps => IsLoad(j)
  /\ pc[j] \in {"range", "key", "value", "way id"} => method[j] = "getAllTagsForWayId"
  /\ pc[j] \in {"convert", "match", "annotate"} => method[j] \in RouteOps
  /\ phase[j] \in {"idle", "queued"} \/ pc[j] \in LoadSteps => ~error[j]
  /\ IsLoad(j) => args[j][1] \in Extract
  /\ pc[j] \in BeforeSwap => localAnnotator[j] = j /\ Made(j)
  /\ method[j] = "getAllTagsForWayId" => SomeWay(args[j][1])

(* What call j was answered so far is from data that a load has made.      *)
Source(j) ==
  /\ \A way_id \in ToSet(wayIds[j]) \ {INVALID_WAYID} : SomeWay(way_id)
  /\ error[j] /\ IsQuery(j) => \E l \in Job : Made(l) /\ DatabaseOf(l).rtree.null

Domains ==
  /\ DOMAIN args = Job /\ DOMAIN ids = Job /\ DOMAIN range = Job
  /\ DOMAIN wayIds = Job /\ DOMAIN tags = Job /\ DOMAIN against = Job

(* Every pointer to an annotator that can be used is to what a load made.  *)
Objects ==
  /\ annotator # Null => Made(annotator)
  /\ \A l \in liveDatabase \cup liveAnnotator : Made(l)
  /\ \A way_id \in known : SomeWay(way_id)

(* The inductive invariant.                                                *)
ShapeInv == NullInv /\ Domains /\ Objects /\ \A j \in Job : Shape(j) /\ Source(j)

(* A step of call j changes nothing that another call has or has got.      *)
Apart(j) ==
  /\ DOMAIN args' = DOMAIN args /\ DOMAIN ids' = DOMAIN ids /\ DOMAIN range' = DOMAIN range
  /\ DOMAIN wayIds' = DOMAIN wayIds /\ DOMAIN tags' = DOMAIN tags
  /\ DOMAIN against' = DOMAIN against
  /\ \A k \in Job \ {j} :
       /\ phase'[k] = phase[k] /\ method'[k] = method[k] /\ args'[k] = args[k]
       /\ pc'[k] = pc[k] /\ ptr'[k] = ptr[k]
       /\ localDatabase'[k] = localDatabase[k] /\ localAnnotator'[k] = localAnnotator[k]
       /\ ids'[k] = ids[k] /\ range'[k] = range[k] /\ wayIds'[k] = wayIds[k]
       /\ tags'[k] = tags[k] /\ error'[k] = error[k] /\ against'[k] = against[k]

(* What a call that has been made asks for does not change.                *)
SameCalls == \A l \in Job : phase[l] # "idle" => method'[l] = method[l] /\ args'[l] = args[l]

(* Which calls can be in which step.                                       *)
LEMMA StepPhases ==
  ASSUME ShapeInv, NEW j \in Job
  PROVE  /\ Call(j) => phase[j] = "idle"
         /\ Load(j) => /\ pc[j] \in LoadSteps /\ phase[j] = "running" /\ IsLoad(j) /\ ~error[j]
                       /\ UNCHANGED <<asyncVars, calls, client, ids, range, wayIds, tags>>
         /\ Lookup(j) => /\ pc[j] \in Uses /\ IsQuery(j) /\ phase[j] \in {"running", "callback"}
                         /\ UNCHANGED <<asyncVars, fields, heap, calls, locals, client>>
         /\ Execute(j) => phase[j] = "queued" /\ pc[j] = "none"
         /\ Return(j) => phase[j] = "running" /\ pc[j] = "return"
         /\ EnterCallback(j) => phase[j] = "completed" /\ pc[j] = "callback"
         /\ Deliver(j) => phase[j] = "callback" /\ pc[j] = "deliver"
         /\ Execute(j) \/ Return(j) \/ EnterCallback(j) \/ Deliver(j) =>
              UNCHANGED <<fields, heap, calls, ptr, locals, results, fault, against>>
<1> USE DEF asyncVars, fields, heap, calls, locals, results, client
<1>1. /\ AsyncTypeOK /\ EachOnce /\ Types /\ InStep(j) /\ PointerSet(j) /\ Shape(j)
  BY DEF ShapeInv, NullInv
<1>2. Call(j) => phase[j] = "idle"
  BY DEF Call, RejectArguments, loadOSMExtract, Query, CanCall
<1>3. Load(j) => /\ pc[j] \in LoadSteps
                 /\ UNCHANGED <<asyncVars, calls, client, ids, range, wayIds, tags>>
  BY DEF Load, BuildDatabase, FailBuild, ReadDatabase, WriteDatabase, ReadAnnotator,
         WriteAnnotator, FreeAnnotator, FreeDatabase, LoadSteps
<1>4. pc[j] \in LoadSteps => phase[j] = "running" /\ IsLoad(j) /\ ~error[j]
  BY <1>1 DEF InStep, Shape, LoadSteps, ExecuteSteps
<1>5. Lookup(j) => /\ pc[j] \in Uses
                   /\ UNCHANGED <<asyncVars, fields, heap, calls, locals, client>>
  BY DEF Lookup, Fetch, UseFails, ConvertNodeIds, MatchPoints, AnnotateRoute, GetTagRange,
         GetTagKey, GetTagValue, GetExternalWayId, Use, Uses
<1>6. pc[j] \in Uses => IsQuery(j) /\ phase[j] \in {"running", "callback"}
  BY <1>1 DEF InStep, PointerSet, Uses, ExecuteSteps, CallbackSteps
<1>7. Execute(j) => phase[j] = "queued" /\ pc[j] = "none"
  BY <1>1, BeginInv DEF AsyncInv, Execute, Shape
<1>8. Return(j) => phase[j] = "running" /\ pc[j] = "return"
  BY <1>1 DEF Return, InStep, ExecuteSteps
<1>9. EnterCallback(j) => phase[j] = "completed" /\ pc[j] = "callback"
  BY <1>1, StartCallbackInv DEF AsyncInv, EnterCallback, Shape
<1>10. Deliver(j) => phase[j] = "callback" /\ pc[j] = "deliver"
  BY <1>1 DEF Deliver, InStep, CallbackSteps
<1>11. Execute(j) \/ Return(j) \/ EnterCallback(j) \/ Deliver(j) =>
         UNCHANGED <<fields, heap, calls, ptr, locals, results, fault, against>>
  BY DEF Execute, Return, EnterCallback, Deliver
<1> QED
  BY <1>2, <1>3, <1>4, <1>5, <1>6, <1>7, <1>8, <1>9, <1>10, <1>11

(* A step is of one call, and of one that has not been answered.           *)
LEMMA StepApart ==
  ASSUME ShapeInv, NEW j \in Job, Call(j) \/ Work(j)
  PROVE  Apart(j) /\ phase[j] # "delivered" /\ SameCalls
<1> USE DEF asyncVars, fields, heap, calls, locals, results, client, Goto, Read
<1>1. AsyncTypeOK /\ Types /\ Domains
  BY DEF ShapeInv, NullInv
<1>2. CASE Call(j)
  <2>1. phase[j] = "idle"
    BY <1>2, StepPhases
  <2>2. CASE RejectArguments(j)
    BY <1>1, <2>1, <2>2 DEF RejectArguments, Throw, AsyncTypeOK, Domains, Apart, SameCalls
  <2>3. ASSUME NEW e \in Extract, loadOSMExtract(j, e) PROVE Apart(j) /\ SameCalls
    BY <1>1, <2>1, <2>3 DEF loadOSMExtract, Enqueue, AsyncTypeOK, Types, Domains, Apart, SameCalls
  <2>4. ASSUME NEW m, NEW a, Query(j, m, a) PROVE Apart(j) /\ SameCalls
    <3>1. CASE HasData
      <4>1. /\ phase' = [phase EXCEPT ![j] = "queued"] /\ method' = [method EXCEPT ![j] = m]
            /\ args' = [args EXCEPT ![j] = a] /\ against' = [against EXCEPT ![j] = loaded]
            /\ UNCHANGED <<pc, ptr, locals, results>>
        BY <2>4, <3>1 DEF Query, Enqueue
      <4> QED
        BY <1>1, <2>1, <4>1 DEF AsyncTypeOK, Types, Domains, Apart, SameCalls
    <3>2. CASE ~HasData
      BY <1>1, <2>1, <2>4, <3>2 DEF Query, Throw, AsyncTypeOK, Domains, Apart, SameCalls
    <3> QED
      BY <3>1, <3>2
  <2> QED
    BY <1>2, <2>1, <2>2, <2>3, <2>4 DEF Call
<1>3. CASE Load(j)
  <2>1. /\ phase[j] # "delivered" /\ SameCalls
        /\ UNCHANGED <<asyncVars, calls, client, ids, range, wayIds, tags>>
    BY <1>3, StepPhases DEF SameCalls
  <2> QED
    BY <1>1, <1>3, <2>1
    DEF Types, Domains, Apart, Load, BuildDatabase, FailBuild, ReadDatabase,
        WriteDatabase, ReadAnnotator, WriteAnnotator, FreeAnnotator, FreeDatabase
<1>4. CASE Lookup(j)
  <2>1. phase[j] # "delivered" /\ SameCalls
    BY <1>4, StepPhases DEF SameCalls
  <2>2. CASE Fetch(j) \/ UseFails(j) \/ ConvertNodeIds(j) \/ AnnotateRoute(j)
    BY <1>1, <2>1, <2>2 DEF Types, Domains, Apart, Fetch, UseFails, ConvertNodeIds, AnnotateRoute
  <2>7. CASE MatchPoints(j)
    BY <1>1, <2>1, <2>7 DEF Types, Domains, Apart, MatchPoints
  <2>3. CASE GetTagRange(j)
    BY <1>1, <2>1, <2>3 DEF Types, Domains, Apart, GetTagRange
  <2>4. CASE GetTagKey(j)
    BY <1>1, <2>1, <2>4 DEF Types, Domains, Apart, GetTagKey
  <2>5. CASE GetTagValue(j)
    BY <1>1, <2>1, <2>5 DEF Types, Domains, Apart, GetTagValue
  <2>6. CASE GetExternalWayId(j)
    BY <1>1, <2>1, <2>6 DEF Types, Domains, Apart, GetExternalWayId
  <2> QED
    BY <1>4, <2>2, <2>3, <2>4, <2>5, <2>6, <2>7 DEF Lookup
<1>5. CASE Execute(j) \/ Return(j) \/ EnterCallback(j) \/ Deliver(j)
  <2>1. phase[j] # "delivered" /\ SameCalls
    BY <1>5, StepPhases DEF SameCalls
  <2> QED
    BY <1>1, <1>5, <2>1
    DEF AsyncTypeOK, Types, Domains, Apart, Execute, Return, EnterCallback, Deliver,
        Begin, Finish, StartCallback, EndCallback
<1> QED
  BY <1>2, <1>3, <1>4, <1>5 DEF Work

(* What a load has made stays what it has made.                            *)
LEMMA MadeKept ==
  ASSUME ShapeInv, SameCalls, NEW l, Made(l)
  PROVE  Made(l)' /\ DatabaseOf(l)' = DatabaseOf(l) /\ WellFormed(DatabaseOf(l)) /\ l # Null
<1>1. l \in Job /\ method[l] = "loadOSMExtract" /\ phase[l] # "idle"
  BY DEF ShapeInv, Shape, Made, IsLoad
<1>2. method'[l] = method[l] /\ args'[l] = args[l]
  BY <1>1 DEF SameCalls
<1>3. WellFormed(DatabaseOf(l))
  BY BuiltAssumption DEF Made, DatabaseOf
<1> QED
  BY <1>1, <1>2, <1>3, JobAssumption DEF Made, IsLoad, DatabaseOf, Null

(* Nor does what is said of the other calls.                               *)
LEMMA ShapeStep ==
  ASSUME ShapeInv, NullInv', NEW j \in Job, Apart(j), SameCalls, Objects', Shape(j)', Source(j)'
  PROVE  ShapeInv'
<1>1. ASSUME NEW k \in Job \ {j} PROVE Shape(k)' /\ Source(k)'
  <2>1. /\ phase'[k] = phase[k] /\ method'[k] = method[k] /\ args'[k] = args[k]
        /\ pc'[k] = pc[k] /\ localAnnotator'[k] = localAnnotator[k]
        /\ wayIds'[k] = wayIds[k] /\ tags'[k] = tags[k] /\ error'[k] = error[k]
    BY DEF Apart
  <2>2. Shape(k) /\ Source(k)
    BY DEF ShapeInv
  <2>3. Shape(k)'
    BY <2>1, <2>2 DEF Shape, IsLoad, Made
  <2>4. ASSUME error[k], IsQuery(k) PROVE \E l \in Job : Made(l)' /\ DatabaseOf(l)'.rtree.null
    <3>1. PICK l \in Job : Made(l) /\ DatabaseOf(l).rtree.null
      BY <2>2, <2>4 DEF Source
    <3> QED
      BY <3>1, MadeKept
  <2>5. Source(k)'
    BY <2>1, <2>2, <2>4 DEF Source, IsQuery
  <2> QED
    BY <2>3, <2>5
<1> QED
  BY <1>1 DEF ShapeInv, Domains, Apart

LEMMA ObjectsKept ==
  ASSUME ShapeInv, SameCalls, UNCHANGED <<annotator, heap>>,
         \A way_id \in known' : way_id \in known \/ SomeWay(way_id)
  PROVE  Objects'
<1>1. \A l \in liveDatabase' \cup liveAnnotator' : Made(l)'
  BY MadeKept DEF ShapeInv, Objects, heap
<1>2. ASSUME annotator # Null PROVE Made(annotator)'
  <2>1. Made(annotator)
    BY <1>2 DEF ShapeInv, Objects
  <2>2. method'[annotator] = method[annotator] /\ args'[annotator] = args[annotator]
    BY <2>1 DEF ShapeInv, Shape, Made, IsLoad, SameCalls
  <2> QED
    BY <2>1, <2>2 DEF Made, IsLoad
<1> QED
  BY <1>1, <1>2 DEF ShapeInv, Objects, SomeWay

(* A load makes the objects it swaps in.                                   *)
LEMMA LoadShapeInv ==
  ASSUME ShapeInv, NEW j \in Job, Load(j), Apart(j), SameCalls
  PROVE  ShapeInv'
<1> USE DEF asyncVars, fields, heap, calls, locals, results, client
<1>1. NullInv' /\ Types /\ Types'
  BY LoadNullInv DEF ShapeInv, NullInv
<1>2. /\ pc[j] \in LoadSteps /\ phase[j] = "running" /\ IsLoad(j) /\ ~error[j]
      /\ UNCHANGED <<asyncVars, calls, client, ids, range, wayIds, tags>>
  BY StepPhases
<1>3. Shape(j) /\ Source(j) /\ j # Null /\ ~IsQuery(j)
  BY <1>2, JobAssumption DEF ShapeInv, Null, IsLoad, IsQuery, QueryOps, RouteOps
<1>4. pc[j] \in BeforeSwap => localAnnotator[j] = j /\ Made(j) /\ Made(j)'
  BY <1>2, <1>3 DEF Shape, Made, IsLoad
<1>5. Source(j)'
  BY <1>2, <1>3 DEF Source, IsQuery
<1>6. /\ pc'[j] \in LoadSteps \cup {"return"} /\ (pc'[j] \in LoadSteps => error' = error)
      /\ pc'[j] \in BeforeSwap => localAnnotator'[j] = j /\ Made(j)'
  <2>1. CASE BuildDatabase(j)
    BY <1>1, <1>2, <1>3, <2>1
    DEF BuildDatabase, Goto, Types, LoadSteps, BeforeSwap, Made, IsLoad, Shape
  <2>2. CASE FailBuild(j)
    BY <1>1, <2>2 DEF FailBuild, Goto, Types, LoadSteps, BeforeSwap
  <2>3. CASE ReadDatabase(j) \/ WriteDatabase(j) \/ ReadAnnotator(j)
    BY <1>1, <1>4, <2>3
    DEF ReadDatabase, WriteDatabase, ReadAnnotator, Goto, Types, LoadSteps, BeforeSwap
  <2>4. CASE WriteAnnotator(j) \/ FreeAnnotator(j) \/ FreeDatabase(j)
    BY <1>1, <2>4
    DEF WriteAnnotator, FreeAnnotator, FreeDatabase, Goto, Types, LoadSteps, BeforeSwap
  <2> QED
    BY <2>1, <2>2, <2>3, <2>4 DEF Load
<1>7. Shape(j)'
  BY <1>2, <1>3, <1>6 DEF Shape, IsLoad, LoadSteps, BeforeSwap
<1>8. /\ annotator' # Null => Made(annotator)'
      /\ \A l \in liveDatabase' \cup liveAnnotator' : l \in liveDatabase \cup liveAnnotator \/ Made(l)'
  <2>1. annotator # Null => Made(annotator)
    BY DEF ShapeInv, Objects
  <2>2. annotator' = annotator => (annotator' # Null => Made(annotator)')
    BY <1>2, <2>1 DEF Made, IsLoad
  <2>3. CASE BuildDatabase(j)
    BY <1>2, <1>3, <2>2, <2>3 DEF BuildDatabase, Made, IsLoad, Shape
  <2>4. CASE WriteAnnotator(j)
    BY <1>4, <2>4 DEF WriteAnnotator, BeforeSwap, Made, IsLoad
  <2>5. CASE ~BuildDatabase(j) /\ ~WriteAnnotator(j)
    BY <2>2, <2>5 DEF Load, FailBuild, ReadDatabase, WriteDatabase, ReadAnnotator,
                      FreeAnnotator, FreeDatabase
  <2> QED
    BY <2>3, <2>4, <2>5
<1>9. Objects'
  BY <1>2, <1>8, MadeKept DEF ShapeInv, Objects, SomeWay
<1> QED
  BY <1>1, <1>5, <1>7, <1>9, ShapeStep

(* The tag range of a way of well-formed data, which get_tag_range reads    *)
(* unchecked, only has tags that get_tag_key and get_tag_value can read.   *)
LEMMA TagsInRange ==
  ASSUME NEW db, WellFormed(db), NEW way_id \in Nat, HasWay(db, way_id)
  PROVE  /\ get_tag_range(db, way_id) \in [first : Nat, second : Nat]
         /\ \A index \in Nat :
              get_tag_range(db, way_id).first <= index /\ index < get_tag_range(db, way_id).second
                => HasTag(db, index)
<1>1. Len(db.way_tag_ranges) \in Nat /\ way_id \in 0 .. (Len(db.way_tag_ranges) - 1)
  BY LenProperties DEF WellFormed, HasWay
<1>2. get_tag_range(db, way_id) \in [first : Nat, second : Nat]
  <2>1. way_id + 1 \in 1 .. Len(db.way_tag_ranges)
    BY <1>1
  <2> QED
    BY <2>1, ElementOfSeq DEF WellFormed, get_tag_range
<1>3. ASSUME NEW index \in Nat, get_tag_range(db, way_id).first <= index,
             index < get_tag_range(db, way_id).second
      PROVE  HasTag(db, index)
  <2>1. index \in get_tag_range(db, way_id).first .. (get_tag_range(db, way_id).second - 1)
    BY <1>2, <1>3
  <2> QED
    BY <1>1, <2>1 DEF WellFormed
<1> QED
  BY <1>2, <1>3

(* The way ids that a route can have are ways of the data.                 *)
LEMMA RouteWays ==
  ASSUME NEW db, WellFormed(db), NEW route,
         NEW way_id \in ToSet(annotateRoute(db, route)) \ {INVALID_WAYID}
  PROVE  way_id \in Nat /\ HasWay(db, way_id)
<1>1. PICK i \in 1 .. (Len(route) - 1) : way_id = WayOfPair(db, route[i], route[i + 1])
  BY DEF ToSet, annotateRoute
<1> QED
  BY <1>1 DEF WayOfPair, WellFormed

(* So every way id that is answered is a way of some data.                 *)
LEMMA LookupShapeInv ==
  ASSUME ShapeInv, NEW j \in Job, Lookup(j), Apart(j), SameCalls
  PROVE  ShapeInv'
<1> USE DEF asyncVars, fields, heap, calls, locals, results, client
<1>1. NullInv' /\ Types /\ Types' /\ Domains /\ InStep(j)
  BY LookupNullInv DEF ShapeInv, NullInv
<1>2. /\ pc[j] \in Uses /\ IsQuery(j) /\ phase[j] \in {"running", "callback"} /\ ~IsLoad(j)
      /\ UNCHANGED <<asyncVars, fields, heap, calls, locals, client>>
  BY StepPhases DEF IsQuery, IsLoad, QueryOps, RouteOps
<1>3. Shape(j) /\ Source(j) /\ Objects'
  BY <1>2, ObjectsKept DEF ShapeInv
<1>4. ASSUME Shape(j)', Source(j)' PROVE ShapeInv'
  BY <1>1, <1>3, <1>4, ShapeStep
<1>5. ASSUME pc'[j] \in {"annotate", "return", "value", "key", "way id", "deliver"} \cup {pc[j]},
             phase[j] = "running" <=> pc'[j] \in ExecuteSteps,
             pc'[j] = "annotate" => method[j] \in RouteOps \/ pc[j] = "annotate",
             pc'[j] \in {"key", "value", "way id"} => method[j] = "getAllTagsForWayId" \/ pc'[j] = pc[j]
      PROVE  Shape(j)'
  BY <1>2, <1>3, <1>5 DEF Shape, IsLoad, IsQuery, LoadSteps, BeforeSwap, Uses, ExecuteSteps
<1>6. ASSUME UNCHANGED <<wayIds, error>> PROVE Source(j)'
  <2>1. ASSUME error[j] PROVE \E l \in Job : Made(l)' /\ DatabaseOf(l)'.rtree.null
    BY <1>2, <1>3, <2>1, MadeKept DEF Source
  <2> QED
    BY <1>2, <1>3, <1>6, <2>1 DEF Source, IsQuery
<1>7. ASSUME ptr[j] # Unread, Usable(ptr[j])
      PROVE  \E l \in Job : /\ Made(l) /\ Made(l)' /\ DatabaseOf(l)' = DatabaseOf(l)
                            /\ Target(j) = DatabaseOf(l) /\ WellFormed(DatabaseOf(l))
  <2>1. PICK l \in Job : l = ptr[j] /\ Made(l)
    <3>1. Made(ptr[j])
      BY <1>7 DEF ShapeInv, Objects, Usable
    <3> QED
      BY <3>1 DEF Made
  <2>2. Made(l)' /\ DatabaseOf(l)' = DatabaseOf(l) /\ WellFormed(DatabaseOf(l))
    BY <2>1, MadeKept
  <2> QED
    BY <2>1, <2>2 DEF Target
<1>8. CASE Fetch(j) \/ UseFails(j)
  <2>1. UNCHANGED <<pc, wayIds, error>>
    BY <1>8 DEF Fetch, UseFails
  <2> QED
    BY <1>1, <1>2, <1>4, <1>5, <1>6, <2>1 DEF InStep
<1>9. CASE ConvertNodeIds(j)
  <2>1. pc[j] = "convert" /\ pc'[j] = "annotate" /\ UNCHANGED <<wayIds, error>>
    BY <1>1, <1>9 DEF ConvertNodeIds, Use, Goto, Types
  <2> QED
    BY <1>1, <1>3, <1>4, <1>5, <1>6, <2>1 DEF InStep, ExecuteSteps, Shape
<1>10. CASE MatchPoints(j)
  <2> USE <1>10 DEF MatchPoints, Use, Goto
  <2>1. pc[j] = "match" /\ pc'[j] \in {"annotate", "return"} /\ UNCHANGED wayIds
    BY <1>1 DEF Types
  <2>2. Shape(j)'
    BY <1>1, <1>3, <1>5, <2>1 DEF InStep, ExecuteSteps, Shape
  <2>3. CASE Target(j).rtree.null
    <3>1. \E l \in Job : Made(l)' /\ DatabaseOf(l)'.rtree.null
      BY <1>7, <2>3
    <3> QED
      BY <1>3, <1>4, <2>1, <2>2, <3>1 DEF Source
  <2>4. CASE ~Target(j).rtree.null
    BY <1>4, <1>6, <2>1, <2>2, <2>4
  <2> QED
    BY <2>3, <2>4
<1>11. CASE AnnotateRoute(j)
  <2> USE <1>11 DEF AnnotateRoute, Use, Goto
  <2>1. /\ pc[j] = "annotate" /\ pc'[j] = "return" /\ UNCHANGED error
        /\ wayIds'[j] = annotateRoute(Target(j), ids[j])
    BY <1>1 DEF Types, Domains
  <2>2. Shape(j)'
    BY <1>1, <1>5, <2>1 DEF InStep, ExecuteSteps
  <2>3. \A way_id \in ToSet(wayIds'[j]) \ {INVALID_WAYID} : SomeWay(way_id)
    <3>1. PICK l \in Job : Made(l) /\ Target(j) = DatabaseOf(l) /\ WellFormed(DatabaseOf(l))
      BY <1>7
    <3>2. args[l][1] \in Extract /\ Target(j) = Built[args[l][1]]
      BY <3>1 DEF Made, DatabaseOf
    <3> QED
      BY <2>1, <3>1, <3>2, RouteWays DEF SomeWay
  <2>4. ASSUME error[j] PROVE \E l \in Job : Made(l)' /\ DatabaseOf(l)'.rtree.null
    BY <1>2, <1>3, <2>4, MadeKept DEF Source
  <2>5. Source(j)'
    BY <1>2, <2>1, <2>3, <2>4 DEF Source, SomeWay
  <2> QED
    BY <1>4, <2>2, <2>5
<1>12. CASE GetTagRange(j)
  <2>1. pc[j] = "range" /\ pc'[j] = "return" /\ UNCHANGED <<wayIds, error>>
    BY <1>1, <1>12 DEF GetTagRange, Use, Goto, Types
  <2> QED
    BY <1>1, <1>4, <1>5, <1>6, <2>1 DEF InStep, ExecuteSteps
<1>13. CASE GetTagKey(j)
  <2>1. pc[j] = "key" /\ pc'[j] = "value" /\ UNCHANGED <<wayIds, error>>
    BY <1>1, <1>13 DEF GetTagKey, Use, Goto, Types
  <2> QED
    BY <1>1, <1>3, <1>4, <1>5, <1>6, <2>1 DEF InStep, ExecuteSteps, Shape
<1>14. CASE GetTagValue(j)
  <2>1. pc[j] = "value" /\ pc'[j] \in {"key", "way id"} /\ UNCHANGED <<wayIds, error>>
    BY <1>1, <1>14 DEF GetTagValue, Use, Goto, Types, NextTag
  <2> QED
    BY <1>1, <1>3, <1>4, <1>5, <1>6, <2>1 DEF InStep, ExecuteSteps, Shape
<1>15. CASE GetExternalWayId(j)
  <2>1. pc[j] = "way id" /\ pc'[j] = "deliver" /\ UNCHANGED <<wayIds, error>>
    BY <1>1, <1>15 DEF GetExternalWayId, Use, Goto, Types
  <2> QED
    BY <1>1, <1>4, <1>5, <1>6, <2>1 DEF InStep, ExecuteSteps
<1> QED
  BY <1>8, <1>9, <1>10, <1>11, <1>12, <1>13, <1>14, <1>15 DEF Lookup

(* The calls: an answered way id, which is all the program can ask about,  *)
(* is a way of some data.                                                  *)
LEMMA CallShapeInv ==
  ASSUME ShapeInv, NEW j \in Job, Call(j), Apart(j), SameCalls
  PROVE  ShapeInv'
<1> USE DEF fields, heap, calls, locals, results, client
<1>1. NullInv' /\ AsyncTypeOK /\ Types /\ Domains
  BY CallNullInv DEF ShapeInv, NullInv
<1>2. /\ phase[j] = "idle" /\ pc[j] = "none" /\ ~error[j] /\ method[j] = "none"
      /\ wayIds[j] = <<>> /\ Shape(j)
      /\ UNCHANGED <<fields, heap, known, pc, locals, results>>
  <2>1. phase[j] = "idle" /\ Shape(j)
    BY StepPhases DEF ShapeInv
  <2>2. UNCHANGED <<fields, heap, known, pc, locals, results>>
    BY DEF Call, RejectArguments, loadOSMExtract, Query
  <2> QED
    BY <2>1, <2>2 DEF Shape
<1>3. Objects' /\ Source(j)'
  BY <1>2, ObjectsKept DEF Source, ToSet
<1>4. ASSUME phase'[j] \in {"threw", "queued"},
             \/ method'[j] = "none"
             \/ method'[j] = "loadOSMExtract" /\ args'[j][1] \in Extract
             \/ method'[j] \in RouteOps
             \/ method'[j] = "getAllTagsForWayId" /\ SomeWay(args'[j][1])
      PROVE  ShapeInv'
  <2>1. Shape(j)'
    BY <1>2, <1>4 DEF Shape, IsLoad, LoadSteps, BeforeSwap, RouteOps, SomeWay
  <2> QED
    BY <1>1, <1>3, <2>1, ShapeStep
<1>5. CASE RejectArguments(j)
  BY <1>1, <1>2, <1>4, <1>5 DEF RejectArguments, Throw, AsyncTypeOK
<1>6. ASSUME NEW e \in Extract, loadOSMExtract(j, e)
      PROVE  ShapeInv'
  <2>1. phase'[j] = "queued" /\ method'[j] = "loadOSMExtract" /\ args'[j] = <<e>>
    BY <1>1, <1>6 DEF loadOSMExtract, Enqueue, AsyncTypeOK, Types, Domains
  <2> QED
    BY <1>4, <2>1
<1>7. ASSUME NEW m \in QueryOps, NEW a, Query(j, m, a), m = "getAllTagsForWayId" => a[1] \in known
      PROVE  ShapeInv'
  <2>1. CASE HasData
    <3>1. phase'[j] = "queued" /\ method'[j] = m /\ args'[j] = a
      BY <1>1, <1>7, <2>1 DEF Query, Enqueue, AsyncTypeOK, Types, Domains
    <3>2. \A way_id \in known : SomeWay(way_id)
      BY DEF ShapeInv, Objects
    <3>3. m \in RouteOps \/ (m = "getAllTagsForWayId" /\ SomeWay(a[1]))
      BY <1>7, <3>2 DEF QueryOps
    <3> QED
      BY <1>4, <3>1, <3>3
  <2>2. CASE ~HasData
    BY <1>1, <1>2, <1>4, <1>7, <2>2 DEF Query, Throw, AsyncTypeOK
  <2> QED
    BY <2>1, <2>2
<1> QED
  BY <1>5, <1>6, <1>7 DEF Call, QueryOps, RouteOps

(* The steps of the pool and of the event loop.                            *)
LEMMA WorkerShapeInv ==
  ASSUME ShapeInv, NEW j \in Job, Apart(j), SameCalls,
         Execute(j) \/ Return(j) \/ EnterCallback(j) \/ Deliver(j)
  PROVE  ShapeInv'
<1> USE DEF fields, heap, calls, locals, results, client, Goto
<1>1. NullInv' /\ AsyncTypeOK /\ Types /\ Domains /\ PointerSet(j)
  BY WorkerNullInv DEF ShapeInv, NullInv
<1>2. /\ Shape(j) /\ Source(j)
      /\ UNCHANGED <<fields, heap, calls, ptr, locals, results, fault, against>>
  BY StepPhases DEF ShapeInv
<1>3. Source(j)'
  <2>1. ASSUME error[j], IsQuery(j) PROVE \E l \in Job : Made(l)' /\ DatabaseOf(l)'.rtree.null
    BY <1>2, <2>1, MadeKept DEF Source
  <2> QED
    BY <1>2, <2>1 DEF Source, IsQuery
<1>4. ASSUME UNCHANGED known, Shape(j)' PROVE ShapeInv'
  BY <1>1, <1>2, <1>3, <1>4, ObjectsKept, ShapeStep
<1>5. CASE Execute(j)
  <2>1. phase[j] = "queued" /\ pc[j] = "none" /\ method[j] # "none"
    BY <1>1, <1>5, StepPhases DEF PointerSet
  <2>2. /\ pc'[j] \in {"build", "convert", "match", "range"}
        /\ pc'[j] = "build" => IsLoad(j)
        /\ pc'[j] = "range" => method[j] = "getAllTagsForWayId"
        /\ pc'[j] \in {"convert", "match"} => method[j] \in RouteOps
        /\ phase'[j] = "running" /\ UNCHANGED known
    BY <1>1, <1>5, <2>1 DEF Execute, Begin, AsyncTypeOK, Types, FirstStep, IsLoad, QueryOps, RouteOps
  <2>3. Shape(j)'
    BY <1>2, <2>1, <2>2 DEF Shape, LoadSteps, BeforeSwap, IsLoad
  <2> QED
    BY <1>4, <2>2, <2>3
<1>6. CASE Return(j)
  <2>1. pc[j] = "return" /\ pc'[j] = "callback" /\ phase'[j] = "completed" /\ UNCHANGED known
    BY <1>1, <1>6 DEF Return, Finish, AsyncTypeOK, Types
  <2>2. Shape(j)'
    BY <1>2, <2>1 DEF Shape, LoadSteps, BeforeSwap, IsLoad
  <2> QED
    BY <1>4, <2>1, <2>2
<1>7. CASE EnterCallback(j)
  <2>1. phase[j] = "completed" /\ pc[j] = "callback"
    BY <1>7, StepPhases
  <2>2. /\ pc'[j] \in {"key", "way id", "deliver"} /\ phase'[j] = "callback" /\ UNCHANGED known
        /\ pc'[j] # "deliver" => method[j] = "getAllTagsForWayId"
    BY <1>1, <1>7 DEF EnterCallback, StartCallback, AsyncTypeOK, Types, NextTag
  <2>3. Shape(j)'
    BY <1>2, <2>1, <2>2 DEF Shape, LoadSteps, BeforeSwap, IsLoad
  <2> QED
    BY <1>4, <2>2, <2>3
<1>8. CASE Deliver(j)
  <2>1. pc[j] = "deliver" /\ pc'[j] = "none" /\ phase'[j] = "delivered"
    BY <1>1, <1>8 DEF Deliver, EndCallback, AsyncTypeOK, Types
  <2>2. Shape(j)'
    BY <1>2, <2>1 DEF Shape, LoadSteps, BeforeSwap, IsLoad
  <2>3. \A way_id \in known' : way_id \in known \/ SomeWay(way_id)
    BY <1>2, <1>8 DEF Deliver, Source
  <2>4. Objects'
    BY <1>2, <2>3, ObjectsKept
  <2> QED
    BY <1>1, <1>3, <2>2, <2>4, ShapeStep
<1> QED
  BY <1>5, <1>6, <1>7, <1>8

LEMMA InitShapeInv == Init => ShapeInv
<1> SUFFICES ASSUME Init PROVE ShapeInv
  OBVIOUS
<1>1. \A j \in Job : Shape(j) /\ Source(j)
  BY DEF Init, AsyncInit, Shape, Source, IsLoad, LoadSteps, BeforeSwap, ToSet
<1>2. Domains /\ Objects
  BY DEF Init, Domains, Objects
<1> QED
  BY <1>1, <1>2, InitNullInv DEF ShapeInv

LEMMA StutterShapeInv == ShapeInv /\ UNCHANGED vars => ShapeInv'
<1> SUFFICES ASSUME ShapeInv, UNCHANGED vars PROVE ShapeInv'
  OBVIOUS
<1> USE DEF vars, asyncVars, fields, heap, calls, locals, results, client
<1>1. NullInv'
  BY StutterNullInv DEF ShapeInv
<1> QED
  BY <1>1 DEF ShapeInv, Domains, Objects, Shape, Source, Made, DatabaseOf, IsLoad, IsQuery

LEMMA NextShapeInv == ShapeInv /\ [Next]_vars => ShapeInv'
<1> SUFFICES ASSUME ShapeInv, [Next]_vars PROVE ShapeInv'
  OBVIOUS
<1>1. CASE UNCHANGED vars
  BY <1>1, StutterShapeInv
<1>2. ASSUME NEW j \in Job, Call(j) PROVE ShapeInv'
  BY <1>2, StepApart, CallShapeInv
<1>3. ASSUME NEW j \in Job, Work(j) PROVE ShapeInv'
  BY <1>3, StepApart, LoadShapeInv, LookupShapeInv, WorkerShapeInv DEF Work
<1> QED
  BY <1>1, <1>2, <1>3 DEF Next, Terminated

LEMMA ShapeInvHolds == Spec => []ShapeInv
  BY InitShapeInv, NextShapeInv, PTL DEF Spec

(* README.md:74-80.  If every extract that can be loaded was loaded with   *)
(* coordinates, no query by coordinates is answered with an error, however *)
(* loads and queries overlap: the only error such a query calls back with  *)
(* is that of a database without an RTree.                                 *)
THEOREM CoordinatesFound ==
  ASSUME \A e \in Extract \ Broken : ~Built[e].rtree.null
  PROVE  Spec => []CoordinatesAnswered
<1>1. ShapeInv => CoordinatesAnswered
  <2> SUFFICES ASSUME ShapeInv, NEW j \in Job, Answered(j), error[j] PROVE FALSE
    BY DEF CoordinatesAnswered
  <2>1. PICK l \in Job : Made(l) /\ DatabaseOf(l).rtree.null
    BY DEF ShapeInv, Source, Answered
  <2> QED
    BY <2>1 DEF Made, DatabaseOf
<1> QED
  BY <1>1, ShapeInvHolds, PTL

-----------------------------------------------------------------------------
(* Programs that start no load while another one is under way.  Queries may*)
(* overlap loads, and way ids be kept: a load does not depend on them.     *)

(* The fields and the heap when no load is under way, or when load j has   *)
(* done its swaps and freed what it replaced.                              *)
Owns(l) ==
  /\ database = l /\ annotator = l
  /\ liveDatabase = {l} \ {Null} /\ liveAnnotator = {l} \ {Null}

BothLive(j) == liveDatabase = {loaded, j} \ {Null} /\ liveAnnotator = {loaded, j} \ {Null}

(* What load j, the only load under way, has done so far.                  *)
LoadState(j) ==
  /\ phase[j] = "queued" \/ pc[j] = "build" => Owns(loaded)
  /\ pc[j] \in {"readDatabase", "writeDatabase"} =>
       /\ database = loaded /\ annotator = loaded /\ BothLive(j)
       /\ localDatabase[j] = j /\ localAnnotator[j] = j
  /\ pc[j] \in {"readAnnotator", "writeAnnotator"} =>
       /\ database = j /\ annotator = loaded /\ BothLive(j)
       /\ localDatabase[j] = loaded /\ localAnnotator[j] = j
  /\ pc[j] \in {"writeDatabase", "writeAnnotator"} => ptr[j] = loaded
  /\ pc[j] = "freeAnnotator" =>
       /\ database = j /\ annotator = j /\ BothLive(j)
       /\ localDatabase[j] = loaded /\ localAnnotator[j] = loaded
  /\ pc[j] = "freeDatabase" =>
       /\ database = j /\ annotator = j
       /\ liveDatabase = {loaded, j} \ {Null} /\ liveAnnotator = {j}
       /\ localDatabase[j] = loaded
  /\ pc[j] \in {"return", "callback", "deliver"} =>
       Owns(IF error[j] THEN loaded ELSE j)

Loading(j) == Outstanding(j) /\ IsLoad(j)

(* The inductive invariant.                                                *)
LoadsInv ==
  /\ fault # "double free"
  /\ loaded # Null => Made(loaded) /\ phase[loaded] = "delivered"
  /\ ~LoadUnderWay => Owns(loaded)
  /\ \A i, j \in Job : Loading(i) /\ Loading(j) => i = j
  /\ \A j \in Job : Loading(j) => LoadState(j)

(* A load that has called back keeps its database.                         *)
LEMMA LoadedKept ==
  ASSUME ShapeInv, LoadsInv, NEW j \in Job, Apart(j), SameCalls, phase[j] # "delivered",
         loaded # Null
  PROVE  /\ loaded \in Job \ {j} /\ Made(loaded)
         /\ phase'[loaded] = "delivered" /\ method'[loaded] = method[loaded]
         /\ args'[loaded] = args[loaded]
  BY DEF LoadsInv, Made, Apart, SameCalls

(* Loads go on as they were while a call that is no load takes a step.     *)
LEMMA LoadsAside ==
  ASSUME ShapeInv, LoadsInv, NEW j \in Job, Apart(j), SameCalls, phase[j] # "delivered",
         ~Loading(j), ~Loading(j)', UNCHANGED <<fields, heap, loaded>>, fault' # "double free"
  PROVE  LoadsInv'
<1> USE DEF fields, heap
<1>1. \A k \in Job : Loading(k)' = Loading(k)
  BY DEF Loading, Outstanding, IsLoad, Apart
<1>2. LoadUnderWay' = LoadUnderWay
  BY <1>1 DEF LoadUnderWay, Loading
<1>3. ASSUME NEW k \in Job, Loading(k)' PROVE LoadState(k)'
  <2>1. k # j /\ Loading(k)
    BY <1>1, <1>3
  <2>2. LoadState(k)
    BY <2>1 DEF LoadsInv
  <2> QED
    BY <2>1, <2>2 DEF LoadState, Owns, BothLive, Apart
<1>4. loaded' # Null => Made(loaded)' /\ phase'[loaded'] = "delivered"
  BY LoadedKept DEF Made, IsLoad
<1> QED
  BY <1>1, <1>2, <1>3, <1>4 DEF LoadsInv, Owns

(* The one load under way takes a step.                                    *)
LEMMA LoadGoesOn ==
  ASSUME ShapeInv, LoadsInv, NEW j \in Job, Apart(j), SameCalls, phase[j] # "delivered",
         \A k \in Job \ {j} : ~Loading(k), Loading(j)', LoadState(j)',
         UNCHANGED loaded, fault' # "double free"
  PROVE  LoadsInv'
<1>1. \A k \in Job \ {j} : ~Loading(k)'
  BY DEF Loading, Outstanding, IsLoad, Apart
<1>2. LoadUnderWay'
  BY DEF LoadUnderWay, Loading
<1>3. loaded' # Null => Made(loaded)' /\ phase'[loaded'] = "delivered"
  BY LoadedKept DEF Made, IsLoad
<1> QED
  BY <1>1, <1>2, <1>3 DEF LoadsInv

(* The steps of a load: what it builds, swaps in and frees is its own.     *)
LEMMA LoadLoadsInv ==
  ASSUME ShapeInv, LoadsInv, NEW j \in Job, Load(j), Apart(j), SameCalls
  PROVE  LoadsInv' /\ fault' = fault
<1> USE DEF asyncVars, fields, heap, calls, locals, results, client
<1>1. /\ pc[j] \in LoadSteps /\ phase[j] = "running" /\ IsLoad(j) /\ ~error[j]
      /\ UNCHANGED <<asyncVars, calls, client, ids, range, wayIds, tags>>
  BY StepPhases
<1>2. /\ Loading(j) /\ Loading(j)' /\ LoadState(j) /\ \A k \in Job \ {j} : ~Loading(k)
  BY <1>1 DEF Loading, Outstanding, IsLoad, LoadsInv
<1>3. Types /\ j # Null /\ j # loaded
  BY <1>1, JobAssumption DEF ShapeInv, NullInv, LoadsInv, Null
<1>4. ASSUME LoadState(j)', fault' = fault PROVE LoadsInv'
  BY <1>1, <1>2, <1>4, LoadGoesOn DEF LoadsInv
<1> USE <1>1, <1>3 DEF Types, Goto, Read
<1>5. ({loaded, j} \ {Null}) \ {loaded} = {j} /\ {j} \ {Null} = {j}
  OBVIOUS
<1>6. CASE BuildDatabase(j)
  <2>1. LoadState(j)'
    BY <1>2, <1>6 DEF BuildDatabase, LoadState, Owns, BothLive
  <2>2. fault' = fault
    BY <1>6 DEF BuildDatabase
  <2> QED
    BY <1>4, <2>1, <2>2
<1>7. CASE FailBuild(j)
  <2>1. LoadState(j)'
    BY <1>2, <1>7 DEF FailBuild, LoadState, Owns, BothLive
  <2>2. fault' = fault
    BY <1>7 DEF FailBuild
  <2> QED
    BY <1>4, <2>1, <2>2
<1>8. CASE ReadDatabase(j)
  <2>1. LoadState(j)'
    BY <1>2, <1>8 DEF ReadDatabase, LoadState, Owns, BothLive
  <2>2. fault' = fault
    BY <1>8 DEF ReadDatabase
  <2> QED
    BY <1>4, <2>1, <2>2
<1>9. CASE WriteDatabase(j)
  <2>1. LoadState(j)'
    BY <1>2, <1>9 DEF WriteDatabase, LoadState, Owns, BothLive
  <2>2. fault' = fault
    BY <1>9 DEF WriteDatabase
  <2> QED
    BY <1>4, <2>1, <2>2
<1>10. CASE ReadAnnotator(j)
  <2>1. LoadState(j)'
    BY <1>2, <1>10 DEF ReadAnnotator, LoadState, Owns, BothLive
  <2>2. fault' = fault
    BY <1>10 DEF ReadAnnotator
  <2> QED
    BY <1>4, <2>1, <2>2
<1>11. CASE WriteAnnotator(j)
  <2>1. LoadState(j)'
    BY <1>2, <1>11 DEF WriteAnnotator, LoadState, Owns, BothLive
  <2>2. fault' = fault
    BY <1>11 DEF WriteAnnotator
  <2> QED
    BY <1>4, <2>1, <2>2
<1>12. CASE FreeAnnotator(j)
  <2> USE <1>12 DEF FreeAnnotator
  <2>1. localAnnotator[j] = loaded /\ BothLive(j) /\ database = j /\ annotator = j
        /\ localDatabase[j] = loaded
    BY <1>2 DEF LoadState
  <2>2. LoadState(j)'
    BY <1>5, <2>1 DEF LoadState, BothLive
  <2>3. fault' = fault
    BY <2>1 DEF BothLive
  <2> QED
    BY <1>4, <2>2, <2>3
<1>13. CASE FreeDatabase(j)
  <2> USE <1>13 DEF FreeDatabase
  <2>1. /\ database = j /\ annotator = j /\ localDatabase[j] = loaded
        /\ liveDatabase = {loaded, j} \ {Null} /\ liveAnnotator = {j}
    BY <1>2 DEF LoadState
  <2>2. Owns(j)'
    BY <1>5, <2>1 DEF Owns
  <2>3. pc'[j] = "return" /\ error' = error
    OBVIOUS
  <2>4. LoadState(j)'
    BY <2>2, <2>3 DEF LoadState, Owns
  <2>5. fault' = fault
    BY <2>1
  <2> QED
    BY <1>4, <2>4, <2>5
<1> QED
  BY <1>6, <1>7, <1>8, <1>9, <1>10, <1>11, <1>12, <1>13 DEF Load

(* A lookup frees nothing.                                                 *)
LEMMA LookupLoadsInv ==
  ASSUME ShapeInv, LoadsInv, NEW j \in Job, Lookup(j), Apart(j), SameCalls
  PROVE  LoadsInv'
<1>1. /\ IsQuery(j) /\ phase[j] # "delivered"
      /\ UNCHANGED <<asyncVars, fields, heap, calls, locals, client>>
  BY StepPhases
<1>2. ~Loading(j) /\ ~Loading(j)' /\ UNCHANGED loaded
  BY <1>1 DEF Loading, IsLoad, IsQuery, QueryOps, RouteOps, calls, client
<1>3. fault' # "double free"
  BY DEF LoadsInv, Lookup, Fetch, UseFails, ConvertNodeIds, MatchPoints, AnnotateRoute,
         GetTagRange, GetTagKey, GetTagValue, GetExternalWayId
<1> QED
  BY <1>1, <1>2, <1>3, LoadsAside

(* The calls: a load is only started when no other is under way.           *)
LEMMA CallLoadsInv ==
  ASSUME ShapeInv, LoadsInv, "load" \notin Habits, NEW j \in Job, Call(j), Apart(j), SameCalls
  PROVE  LoadsInv'
<1> USE DEF fields, heap, calls, locals, results, client
<1>1. /\ AsyncTypeOK /\ Types /\ Domains /\ phase[j] = "idle" /\ method[j] = "none" /\ pc[j] = "none"
      /\ ~Loading(j) /\ UNCHANGED <<fields, heap, loaded, fault, pc>>
  <2>1. phase[j] = "idle"
    BY StepPhases
  <2>2. UNCHANGED <<fields, heap, loaded, fault, pc>>
    BY DEF Call, RejectArguments, loadOSMExtract, Query
  <2> QED
    BY <2>1, <2>2 DEF ShapeInv, NullInv, Shape, Loading, Outstanding
<1>2. CASE ~Loading(j)'
  BY <1>1, <1>2, LoadsAside DEF LoadsInv
<1>3. CASE Loading(j)'
  <2>1. PICK e \in Extract : loadOSMExtract(j, e)
    <3>1. CASE RejectArguments(j)
      BY <1>1, <1>3, <3>1 DEF RejectArguments, Throw, AsyncTypeOK, Loading, Outstanding
    <3>2. ASSUME NEW m \in QueryOps, NEW a, Query(j, m, a) PROVE ~IsLoad(j)'
      BY <1>1, <3>2 DEF Query, Types, IsLoad, QueryOps, RouteOps
    <3> QED
      BY <1>3, <3>1, <3>2 DEF Call, Loading, QueryOps, RouteOps
  <2>2. ~LoadUnderWay
    BY <2>1 DEF loadOSMExtract
  <2>3. \A k \in Job \ {j} : ~Loading(k)
    BY <2>2 DEF LoadUnderWay, Loading
  <2>4. Owns(loaded) /\ phase'[j] = "queued"
    BY <1>1, <2>1, <2>2 DEF LoadsInv, loadOSMExtract, Enqueue, AsyncTypeOK
  <2>5. LoadState(j)'
    BY <1>1, <2>4 DEF LoadState, Owns
  <2> QED
    BY <1>1, <1>3, <2>3, <2>5, LoadGoesOn DEF LoadsInv
<1> QED
  BY <1>2, <1>3

(* The steps of the pool and of the event loop: a load that calls back has *)
(* put its data in place, or has failed and changed nothing.               *)
LEMMA WorkerLoadsInv ==
  ASSUME ShapeInv, LoadsInv, NEW j \in Job, Apart(j), SameCalls,
         Execute(j) \/ Return(j) \/ EnterCallback(j) \/ Deliver(j)
  PROVE  LoadsInv'
<1> USE DEF fields, heap, calls, locals, results, client, Goto
<1>1. /\ AsyncTypeOK /\ Types /\ Shape(j) /\ Outstanding(j)
      /\ UNCHANGED <<fields, heap, calls, ptr, locals, results, fault, against>>
  BY StepPhases DEF ShapeInv, NullInv, Outstanding
<1>2. IsLoad(j)' = IsLoad(j) /\ phase[j] # "delivered" /\ fault' # "double free"
  BY <1>1 DEF IsLoad, Outstanding, LoadsInv
<1>3. CASE ~IsLoad(j)
  <2>1. UNCHANGED loaded
    BY <1>3 DEF Execute, Return, EnterCallback, Deliver
  <2> QED
    BY <1>1, <1>2, <1>3, <2>1, LoadsAside DEF Loading
<1>4. CASE IsLoad(j)
  <2>1. Loading(j) /\ LoadState(j) /\ \A k \in Job \ {j} : ~Loading(k)
    BY <1>1, <1>4 DEF Loading, LoadsInv
  <2>2. ASSUME UNCHANGED loaded, Outstanding(j)', LoadState(j)' PROVE LoadsInv'
    BY <1>1, <1>2, <1>4, <2>1, <2>2, LoadGoesOn DEF Loading
  <2>3. CASE Execute(j)
    <3>1. phase[j] = "queued" /\ phase'[j] = "running" /\ pc'[j] = "build" /\ UNCHANGED loaded
      BY <1>1, <1>4, <2>3, StepPhases DEF Execute, Begin, AsyncTypeOK, Types, FirstStep, IsLoad
    <3>2. LoadState(j)' /\ Outstanding(j)'
      BY <1>1, <2>1, <3>1 DEF LoadState, Owns, Outstanding
    <3> QED
      BY <2>2, <3>1, <3>2
  <2>4. CASE Return(j)
    <3>1. pc[j] = "return" /\ phase'[j] = "completed" /\ pc'[j] = "callback" /\ UNCHANGED loaded
      BY <1>1, <2>4 DEF Return, Finish, AsyncTypeOK, Types
    <3>2. LoadState(j)' /\ Outstanding(j)'
      BY <1>1, <2>1, <3>1 DEF LoadState, Owns, Outstanding
    <3> QED
      BY <2>2, <3>1, <3>2
  <2>5. CASE EnterCallback(j)
    <3>1. pc[j] = "callback" /\ phase'[j] = "callback" /\ pc'[j] = "deliver" /\ UNCHANGED loaded
      BY <1>1, <1>4, <2>5, StepPhases
      DEF EnterCallback, StartCallback, AsyncTypeOK, Types, IsLoad
    <3>2. LoadState(j)' /\ Outstanding(j)'
      BY <1>1, <2>1, <3>1 DEF LoadState, Owns, Outstanding
    <3> QED
      BY <2>2, <3>1, <3>2
  <2>6. CASE Deliver(j)
    <3>1. pc[j] = "deliver" /\ phase'[j] = "delivered" /\ loaded' = IF error[j] THEN loaded ELSE j
      BY <1>1, <1>4, <2>6 DEF Deliver, EndCallback, AsyncTypeOK, Types, IsLoad, RouteOps
    <3>2. Owns(loaded')
      BY <2>1, <3>1 DEF LoadState
    <3>3. \A k \in Job : ~Loading(k)'
      BY <2>1, <3>1 DEF Loading, Outstanding, IsLoad, Apart
    <3>4. loaded' # Null => Made(loaded') /\ phase'[loaded'] = "delivered"
      <4>1. CASE error[j]
        BY <1>2, <3>1, <4>1, LoadedKept
      <4>2. CASE ~error[j]
        BY <3>1, <3>2, <4>2 DEF Owns, ShapeInv, Objects
      <4> QED
        BY <4>1, <4>2
    <3>5. loaded' # Null => Made(loaded)'
      BY <1>1, <3>4 DEF Made, IsLoad
    <3>6. Owns(loaded)'
      BY <1>1, <3>2 DEF Owns
    <3> QED
      BY <1>2, <3>3, <3>4, <3>5, <3>6 DEF LoadsInv
  <2> QED
    BY <2>3, <2>4, <2>5, <2>6
<1> QED
  BY <1>3, <1>4

(* An object without data owns nothing.                                    *)
LEMMA InitLoadsInv == Init => LoadsInv
BY DEF Init, AsyncInit, LoadsInv, LoadUnderWay, Loading, Outstanding, Owns, Null

LEMMA StutterLoadsInv == LoadsInv /\ UNCHANGED vars => LoadsInv'
<1> SUFFICES ASSUME LoadsInv, UNCHANGED vars PROVE LoadsInv'
  OBVIOUS
<1> USE DEF vars, asyncVars, fields, heap, calls, locals, results, client
<1>1. LoadUnderWay' = LoadUnderWay /\ Owns(loaded)' = Owns(loaded)
  BY DEF LoadUnderWay, Outstanding, IsLoad, Owns
<1>2. \A k \in Job : Loading(k)' = Loading(k)
  BY DEF Loading, Outstanding, IsLoad
<1>3. \A k \in Job : LoadState(k)' = LoadState(k)
  BY DEF LoadState, Owns, BothLive
<1>4. Made(loaded)' = Made(loaded) /\ phase'[loaded'] = phase[loaded] /\ UNCHANGED <<fault, loaded>>
  BY DEF Made, IsLoad
<1> QED
  BY <1>1, <1>2, <1>3, <1>4 DEF LoadsInv

LEMMA NextLoadsInv ==
  ASSUME "load" \notin Habits
  PROVE  ShapeInv /\ LoadsInv /\ [Next]_vars => LoadsInv'
<1> SUFFICES ASSUME ShapeInv, LoadsInv, [Next]_vars PROVE LoadsInv'
  OBVIOUS
<1>1. CASE UNCHANGED vars
  BY <1>1, StutterLoadsInv
<1>2. ASSUME NEW j \in Job, Call(j) PROVE LoadsInv'
  BY <1>2, StepApart, CallLoadsInv
<1>3. ASSUME NEW j \in Job, Work(j) PROVE LoadsInv'
  BY <1>3, StepApart, LoadLoadsInv, LookupLoadsInv, WorkerLoadsInv DEF Work
<1> QED
  BY <1>1, <1>2, <1>3 DEF Next, Terminated

LEMMA LoadsInvHolds ==
  ASSUME "load" \notin Habits
  PROVE  Spec => []LoadsInv
<1>1. ShapeInv /\ LoadsInv /\ [Next]_vars => LoadsInv'
  BY NextLoadsInv
<1> QED
  BY <1>1, InitLoadsInv, ShapeInvHolds, PTL DEF Spec

(* Whenever no call is under way one database and its annotator exist, and *)
(* they are those of the last load that called back without an error:      *)
(* nothing leaks, and a failed load changes nothing, also when queries     *)
(* overlapped the loads (nodejs_bindings.cpp:163-175).                     *)
THEOREM NothingLeaks ==
  ASSUME "load" \notin Habits
  PROVE  Spec => []OwnershipAtRest
<1>1. ASSUME LoadsInv, Settled PROVE ~LoadUnderWay
  BY <1>1 DEF Settled, LoadUnderWay, Outstanding
<1>2. LoadsInv => OwnershipAtRest
  BY <1>1 DEF LoadsInv, Owns, OwnershipAtRest
<1> QED
  BY <1>2, LoadsInvHolds, PTL

(* Line 168, "Transactionally swap": what the comment says holds as long as*)
(* no load starts while another one is under way.                          *)
THEOREM SwapsAreTransactional ==
  ASSUME "load" \notin Habits
  PROVE  Spec => []SwapIsTransactional
<1>1. ASSUME LoadsInv, Settled PROVE ~LoadUnderWay
  BY <1>1 DEF Settled, LoadUnderWay, Outstanding
<1>2. LoadsInv => SwapIsTransactional
  BY <1>1 DEF LoadsInv, Owns, SwapIsTransactional
<1> QED
  BY <1>2, LoadsInvHolds, PTL

-----------------------------------------------------------------------------
(* Programs that have no query under way together with a load.  Loads may  *)
(* overlap one another, and way ids be kept.                               *)

Separate == \A i, k \in Job : Loading(i) /\ Outstanding(k) => IsLoad(k)

(* The range that the tags of a way are read from has been found.          *)
HasRange(j) ==
  /\ fault = "none" /\ method[j] = "getAllTagsForWayId"
  /\ pc[j] \in {"return", "callback", "key", "value"}

(* Query j finds the annotator as it was when the query was made, and reads*)
(* tags within the range of its way.                                       *)
QueryState(j) ==
  LET db == DatabaseOf(annotator)
      tagsOf == get_tag_range(db, args[j][1])
  IN
  /\ ptr[j] \in {Unread, annotator}
  /\ HasRange(j) =>
       /\ HasWay(db, args[j][1])
       /\ range[j] \in [first : Nat, second : Nat]
       /\ range[j].second = tagsOf.second /\ tagsOf.first <= range[j].first
       /\ pc[j] \in {"key", "value"} => range[j].first < range[j].second

(* The inductive invariant.                                                *)
QueryInv == Separate /\ \A j \in Job : Outstanding(j) /\ IsQuery(j) => QueryState(j)

(* The data that a query which has been accepted is answered from.         *)
LEMMA QueriedData ==
  ASSUME ShapeInv, NEW j \in Job, IsQuery(j)
  PROVE  annotator \in Job /\ Made(annotator) /\ WellFormed(DatabaseOf(annotator))
<1>1. Made(annotator)
  BY DEF ShapeInv, NullInv, PointerSet, HasData, Objects
<1> QED
  BY <1>1, BuiltAssumption DEF Made, DatabaseOf

(* It stays what it is while the field is not written.                     *)
LEMMA QueriedDataKept ==
  ASSUME ShapeInv, SameCalls, UNCHANGED annotator, NEW j \in Job, IsQuery(j)
  PROVE  Made(annotator)' /\ DatabaseOf(annotator)' = DatabaseOf(annotator)
<1>1. Made(annotator) /\ method[annotator] = "loadOSMExtract" /\ phase[annotator] # "idle"
  BY QueriedData DEF Made, IsLoad, ShapeInv, Shape
<1> QED
  BY <1>1, QueriedData DEF SameCalls, Made, IsLoad, DatabaseOf

(* Queries go on as they were while another call takes a step.             *)
LEMMA QueriesAside ==
  ASSUME ShapeInv, QueryInv, NEW j \in Job, Apart(j), SameCalls, UNCHANGED annotator,
         fault = "none", Separate', Outstanding(j)' /\ IsQuery(j)' => QueryState(j)'
  PROVE  QueryInv'
<1>1. ASSUME NEW k \in Job \ {j}, Outstanding(k)', IsQuery(k)' PROVE QueryState(k)'
  <2>1. /\ method'[k] = method[k] /\ args'[k] = args[k] /\ pc'[k] = pc[k] /\ ptr'[k] = ptr[k]
        /\ range'[k] = range[k] /\ phase'[k] = phase[k]
    BY DEF Apart
  <2>2. IsQuery(k) /\ QueryState(k)
    BY <1>1, <2>1 DEF QueryInv, Outstanding, IsQuery
  <2>3. DatabaseOf(annotator)' = DatabaseOf(annotator)
    BY <2>2, QueriedDataKept
  <2> QED
    BY <2>1, <2>2, <2>3 DEF QueryState, HasRange
<1> QED
  BY <1>1 DEF QueryInv

(* A call that goes on as what it was keeps loads and queries separate.    *)
LEMMA SeparateKept ==
  ASSUME Separate, NEW j \in Job, Apart(j), Outstanding(j)' => Outstanding(j),
         IsLoad(j)' <=> IsLoad(j)
  PROVE  Separate'
<1>1. \A k \in Job : Outstanding(k)' => Outstanding(k) /\ (IsLoad(k)' <=> IsLoad(k))
  BY DEF Apart, Outstanding, IsLoad
<1> QED
  BY <1>1 DEF Separate, Loading

(* While a load works no query is under way.                               *)
LEMMA LoadQueryInv ==
  ASSUME ShapeInv, QueryInv, NEW j \in Job, Load(j), Apart(j), SameCalls
  PROVE  QueryInv'
<1>1. /\ Loading(j) /\ phase[j] = "running" /\ UNCHANGED <<asyncVars, calls>>
  BY StepPhases DEF Loading, Outstanding
<1>2. \A k \in Job : Outstanding(k) => IsLoad(k)
  BY <1>1 DEF QueryInv, Separate
<1>3. \A k \in Job : /\ Outstanding(k)' = Outstanding(k) /\ IsLoad(k)' = IsLoad(k)
                     /\ IsQuery(k)' = IsQuery(k)
  BY <1>1 DEF Outstanding, IsLoad, IsQuery, asyncVars, calls
<1>4. \A k \in Job : IsLoad(k) => ~IsQuery(k)
  BY DEF IsLoad, IsQuery, QueryOps, RouteOps
<1> QED
  BY <1>1, <1>2, <1>3, <1>4 DEF QueryInv, Separate, Loading

(* A query reads the field, uses what it points to and keeps within the    *)
(* tags of its way, or has its first undefined behaviour.                  *)
LEMMA LookupQueryInv ==
  ASSUME ShapeInv, QueryInv, NEW j \in Job, Lookup(j), fault = "none", Apart(j), SameCalls
  PROVE  QueryInv'
<1> USE DEF asyncVars, fields, heap, calls, locals, results, client
<1>1. /\ pc[j] \in Uses /\ IsQuery(j) /\ phase[j] \in {"running", "callback"} /\ Outstanding(j)
      /\ UNCHANGED <<asyncVars, fields, heap, calls, locals, client>>
  BY StepPhases DEF Outstanding
<1>2. /\ Types /\ Domains /\ Shape(j) /\ QueryState(j) /\ ptr[j] \in {Unread, annotator}
  BY <1>1 DEF ShapeInv, NullInv, QueryInv, QueryState
<1> DEFINE db == DatabaseOf(annotator)
<1>3. WellFormed(db) /\ DatabaseOf(annotator)' = db
  BY <1>1, QueriedData, QueriedDataKept
<1>4. Separate'
  BY <1>1, SeparateKept DEF QueryInv, Outstanding, IsLoad
<1>5. ASSUME QueryState(j)' PROVE QueryInv'
  BY <1>1, <1>4, <1>5, QueriesAside
<1>6. ASSUME ptr'[j] \in {Unread, annotator},
             fault' # "none" \/ method[j] # "getAllTagsForWayId"
               \/ pc'[j] \notin {"return", "callback", "key", "value"}
      PROVE  QueryInv'
  BY <1>1, <1>5, <1>6 DEF QueryState, HasRange
<1>7. ASSUME ptr[j] # Unread PROVE Target(j) = db
  BY <1>2, <1>7 DEF Target
<1>8. CASE Fetch(j)
  <2>1. ptr'[j] = annotator /\ UNCHANGED <<pc, range, fault>>
    BY <1>2, <1>8 DEF Fetch, Read, Types
  <2>2. QueryState(j)'
    BY <1>1, <1>2, <1>3, <2>1 DEF QueryState, HasRange
  <2> QED
    BY <1>5, <2>2
<1>9. CASE UseFails(j)
  BY <1>2, <1>6, <1>9 DEF UseFails
<1>10. CASE ConvertNodeIds(j) \/ MatchPoints(j) \/ AnnotateRoute(j)
  <2>1. method[j] # "getAllTagsForWayId"
    BY <1>2, <1>10 DEF Shape, ConvertNodeIds, MatchPoints, AnnotateRoute, Use, RouteOps
  <2>2. ptr'[j] = Unread
    BY <1>2, <1>10 DEF ConvertNodeIds, MatchPoints, AnnotateRoute, Read, Types
  <2> QED
    BY <1>6, <2>1, <2>2
<1>11. ASSUME pc[j] \in {"range", "key", "value"}
       PROVE  method[j] = "getAllTagsForWayId" /\ args[j][1] \in Nat
  BY <1>2, <1>11 DEF Shape, SomeWay
<1>12. CASE GetTagRange(j)
  <2>1. /\ pc[j] = "range" /\ Target(j) = db
        /\ ptr'[j] = Unread /\ pc'[j] = "return"
    BY <1>2, <1>7, <1>12 DEF GetTagRange, Use, Read, Goto, Types
  <2>2. CASE ~HasWay(db, args[j][1])
    BY <1>6, <1>12, <2>1, <2>2 DEF GetTagRange
  <2>3. CASE HasWay(db, args[j][1])
    <3>1. range'[j] = get_tag_range(db, args[j][1]) /\ args'[j] = args[j]
      BY <1>1, <1>2, <1>12, <2>1, <2>3 DEF GetTagRange, Domains
    <3>2. get_tag_range(db, args[j][1]) \in [first : Nat, second : Nat]
      BY <1>3, <1>11, <2>1, <2>3, TagsInRange
    <3>3. get_tag_range(db, args[j][1]).first <= get_tag_range(db, args[j][1]).first
      <4>1. get_tag_range(db, args[j][1]).first \in Nat
        BY <3>2
      <4> QED
        BY <4>1
    <3>4. QueryState(j)'
      BY <1>3, <2>1, <2>3, <3>1, <3>2, <3>3 DEF QueryState, HasRange
    <3> QED
      BY <1>5, <3>4
  <2> QED
    BY <2>2, <2>3
<1>13. ASSUME pc[j] \in {"key", "value"}
       PROVE  /\ HasWay(db, args[j][1]) /\ range[j] \in [first : Nat, second : Nat]
              /\ range[j].second = get_tag_range(db, args[j][1]).second
              /\ get_tag_range(db, args[j][1]).first <= range[j].first
              /\ range[j].first < range[j].second
  BY <1>2, <1>11, <1>13 DEF QueryState, HasRange
<1>14. CASE GetTagKey(j)
  <2>1. pc[j] = "key" /\ pc'[j] = "value" /\ ptr'[j] = Unread /\ range' = range
    BY <1>2, <1>14 DEF GetTagKey, Use, Read, Goto, Types
  <2>2. QueryState(j)'
    BY <1>1, <1>3, <1>13, <2>1 DEF QueryState, HasRange
  <2> QED
    BY <1>5, <2>2
<1>15. CASE GetTagValue(j)
  <2>1. /\ pc[j] = "value" /\ pc' = [pc EXCEPT ![j] = NextTag(range'[j])] /\ ptr'[j] = Unread
        /\ range' = [range EXCEPT ![j].first = @ + 1]
    BY <1>2, <1>15 DEF GetTagValue, Use, Read, Goto, Types
  <2>2. /\ range'[j] \in [first : Nat, second : Nat]
        /\ range'[j].first = range[j].first + 1 /\ range'[j].second = range[j].second
    BY <1>2, <1>13, <2>1 DEF Domains
  <2>3. pc'[j] = NextTag(range'[j])
    BY <1>2, <2>1 DEF Types
  <2>4. /\ pc'[j] \notin {"return", "callback", "value"}
        /\ pc'[j] = "key" => range'[j].first < range'[j].second
    BY <2>3 DEF NextTag
  <2>5. get_tag_range(db, args[j][1]).first <= range'[j].first
    <3>1. get_tag_range(db, args[j][1]).first \in Nat
      BY <1>3, <1>11, <1>13, <2>1, TagsInRange
    <3> QED
      BY <1>13, <2>1, <2>2, <3>1
  <2>6. args'[j] = args[j]
    BY <1>1
  <2>7. QueryState(j)'
    BY <1>3, <1>13, <2>1, <2>2, <2>4, <2>5, <2>6 DEF QueryState, HasRange
  <2> QED
    BY <1>5, <2>7
<1>16. CASE GetExternalWayId(j)
  BY <1>2, <1>6, <1>16 DEF GetExternalWayId, Read, Goto, Types
<1> QED
  BY <1>8, <1>9, <1>10, <1>12, <1>14, <1>15, <1>16 DEF Lookup

(* A query is only made when no load is under way, and a load when no query*)
(* is.                                                                     *)
LEMMA CallQueryInv ==
  ASSUME ShapeInv, QueryInv, "query" \notin Habits, NEW j \in Job, Call(j), fault = "none",
         Apart(j), SameCalls
  PROVE  QueryInv'
<1> USE DEF fields, heap, calls, locals, results, client
<1>1. /\ AsyncTypeOK /\ Types /\ Domains /\ pc[j] = "none" /\ ~Outstanding(j)
      /\ ptr[j] = Unread /\ UNCHANGED <<annotator, pc, ptr, fault>>
  <2>1. phase[j] = "idle"
    BY StepPhases
  <2>2. UNCHANGED <<annotator, pc, ptr, fault>>
    BY DEF Call, RejectArguments, loadOSMExtract, Query
  <2> QED
    BY <2>1, <2>2 DEF ShapeInv, NullInv, Shape, PointerSet, Uses, Outstanding
<1>2. Outstanding(j)' /\ IsQuery(j)' => QueryState(j)'
  BY <1>1 DEF QueryState, HasRange
<1>3. \A k \in Job \ {j} : /\ Outstanding(k)' = Outstanding(k) /\ IsLoad(k)' = IsLoad(k)
  BY DEF Apart, Outstanding, IsLoad
<1>4. Separate'
  <2>1. CASE ~Outstanding(j)'
    BY <1>3, <2>1 DEF QueryInv, Separate, Loading
  <2>2. ASSUME NEW e \in Extract, loadOSMExtract(j, e) PROVE Separate'
    <3>1. IsLoad(j)'
      BY <1>1, <2>2 DEF loadOSMExtract, Types, IsLoad
    <3>2. ASSUME NEW k \in Job, Outstanding(k) PROVE IsLoad(k)
      <4>1. ~IsQuery(k)
        BY <2>2, <3>2 DEF loadOSMExtract, QueryUnderWay
      <4>2. method[k] # "none"
        BY <3>2 DEF ShapeInv, NullInv, PointerSet, Outstanding
      <4> QED
        BY <1>1, <4>1, <4>2 DEF Types, IsLoad, IsQuery
    <3> QED
      BY <1>3, <3>1, <3>2 DEF Separate
  <2>3. ASSUME NEW m \in QueryOps, NEW a, Query(j, m, a), Outstanding(j)' PROVE Separate'
    <3>1. HasData
      BY <1>1, <2>3 DEF Query, Throw, AsyncTypeOK, Outstanding
    <3>2. method' = [method EXCEPT ![j] = m] /\ ~LoadUnderWay
      BY <2>3, <3>1 DEF Query
    <3>3. ~IsLoad(j)'
      BY <1>1, <3>2 DEF Types, IsLoad, QueryOps, RouteOps
    <3>4. \A k \in Job : ~Loading(k)'
      BY <1>3, <3>2, <3>3 DEF LoadUnderWay, Loading
    <3> QED
      BY <3>4 DEF Separate
  <2>4. RejectArguments(j) => ~Outstanding(j)'
    BY <1>1 DEF RejectArguments, Throw, AsyncTypeOK, Outstanding
  <2> QED
    BY <2>1, <2>2, <2>3, <2>4 DEF Call, QueryOps, RouteOps
<1> QED
  BY <1>1, <1>2, <1>4, QueriesAside

(* The steps of the pool and of the event loop.                            *)
LEMMA WorkerQueryInv ==
  ASSUME ShapeInv, QueryInv, NEW j \in Job, fault = "none", Apart(j), SameCalls,
         Execute(j) \/ Return(j) \/ EnterCallback(j) \/ Deliver(j)
  PROVE  QueryInv'
<1> USE DEF fields, heap, calls, locals, results, client, Goto
<1>1. /\ AsyncTypeOK /\ Types /\ Shape(j) /\ Outstanding(j)
      /\ UNCHANGED <<fields, heap, calls, ptr, locals, results, fault, against>>
  BY StepPhases DEF ShapeInv, NullInv, Outstanding
<1>2. /\ IsLoad(j)' = IsLoad(j) /\ IsQuery(j)' = IsQuery(j)
  BY <1>1 DEF IsLoad, IsQuery
<1>3. Separate'
  BY <1>1, <1>2, SeparateKept DEF QueryInv
<1>4. ASSUME IsQuery(j), Outstanding(j)' PROVE QueryState(j)'
  <2>1. QueryState(j) /\ DatabaseOf(annotator)' = DatabaseOf(annotator)
    BY <1>1, <1>4, QueriedDataKept DEF QueryInv
  <2>2. HasRange(j)' => HasRange(j) /\ (pc'[j] \in {"key", "value"} => range[j].first < range[j].second)
    <3>1. CASE Execute(j)
      BY <1>1, <1>4, <3>1
      DEF Execute, Types, FirstStep, HasRange, IsQuery, QueryOps, RouteOps
    <3>2. CASE Return(j)
      BY <1>1, <3>2 DEF Return, Types, HasRange
    <3>3. CASE EnterCallback(j)
      <4>1. pc[j] = "callback"
        BY <3>3, StepPhases
      <4> QED
        BY <1>1, <3>3, <4>1 DEF EnterCallback, Types, HasRange, NextTag
    <3>4. CASE Deliver(j)
      BY <1>1, <3>4 DEF Deliver, Types, HasRange
    <3> QED
      BY <3>1, <3>2, <3>3, <3>4
  <2> QED
    BY <1>1, <2>1, <2>2 DEF QueryState
<1> QED
  BY <1>1, <1>2, <1>3, <1>4, QueriesAside

LEMMA InitQueryInv == Init => QueryInv
BY DEF Init, AsyncInit, QueryInv, Separate, Loading, Outstanding

LEMMA StutterQueryInv == QueryInv /\ UNCHANGED vars => QueryInv'
<1> SUFFICES ASSUME QueryInv, UNCHANGED vars PROVE QueryInv'
  OBVIOUS
<1> USE DEF vars, asyncVars, fields, heap, calls, locals, results, client
<1>1. \A k \in Job : /\ Outstanding(k)' = Outstanding(k) /\ IsLoad(k)' = IsLoad(k)
                     /\ IsQuery(k)' = IsQuery(k)
  BY DEF Outstanding, IsLoad, IsQuery
<1>2. \A k \in Job : QueryState(k)' = QueryState(k)
  BY DEF QueryState, HasRange, DatabaseOf
<1> QED
  BY <1>1, <1>2 DEF QueryInv, Separate, Loading

LEMMA NextQueryInv ==
  ASSUME "query" \notin Habits
  PROVE  ShapeInv /\ QueryInv /\ [Next]_vars => QueryInv'
<1> SUFFICES ASSUME ShapeInv, QueryInv, [Next]_vars PROVE QueryInv'
  OBVIOUS
<1>1. CASE UNCHANGED vars
  BY <1>1, StutterQueryInv
<1>2. ASSUME NEW j \in Job, fault = "none", Call(j) PROVE QueryInv'
  BY <1>2, StepApart, CallQueryInv
<1>3. ASSUME NEW j \in Job, Work(j) PROVE QueryInv'
  BY <1>3, StepApart, LoadQueryInv, LookupQueryInv, WorkerQueryInv DEF Work
<1> QED
  BY <1>1, <1>2, <1>3 DEF Next, Terminated

LEMMA QueryInvHolds ==
  ASSUME "query" \notin Habits
  PROVE  Spec => []QueryInv
<1>1. ShapeInv /\ QueryInv /\ [Next]_vars => QueryInv'
  BY NextQueryInv
<1> QED
  BY <1>1, InitQueryInv, ShapeInvHolds, PTL DEF Spec

-----------------------------------------------------------------------------
(* Programs that let no call overlap a load.  They may keep way ids.       *)

(* What a query reads is in place and belongs to the object.               *)
LEMMA UsesLive ==
  ASSUME ShapeInv, LoadsInv, QueryInv, NEW j \in Job, Outstanding(j), IsQuery(j)
  PROVE  /\ ~LoadUnderWay /\ Owns(loaded) /\ annotator = loaded /\ loaded \in Job
         /\ Usable(annotator) /\ ptr[j] \in {Unread, annotator}
<1>1. ~LoadUnderWay /\ ptr[j] \in {Unread, annotator}
  BY DEF QueryInv, Separate, QueryState, LoadUnderWay, Loading, IsLoad, IsQuery, QueryOps, RouteOps
<1>2. Owns(loaded) /\ annotator \in Job
  BY <1>1, QueriedData DEF LoadsInv
<1> QED
  BY <1>1, <1>2, JobAssumption DEF Owns, Usable, Null

(* A query that looks up what is not there asks about a way that its data  *)
(* does not have.                                                          *)
LEMMA LookupFault ==
  ASSUME ShapeInv, LoadsInv, QueryInv, NEW j \in Job, Lookup(j), fault = "none",
         fault' # "none"
  PROVE  fault' = "past the end" /\ StaleId(j)'
<1> USE DEF asyncVars, fields, heap, calls, locals, results, client
<1>1. /\ pc[j] \in Uses /\ IsQuery(j) /\ Outstanding(j)
      /\ UNCHANGED <<asyncVars, fields, heap, calls, locals, client>>
  BY StepPhases DEF Outstanding
<1>2. /\ Shape(j) /\ QueryState(j) /\ Usable(annotator) /\ annotator = loaded
      /\ ptr[j] \in {Unread, annotator}
  BY <1>1, UsesLive DEF ShapeInv, QueryInv
<1> DEFINE db == DatabaseOf(annotator)
<1>3. WellFormed(db) /\ DatabaseOf(loaded)' = db
  BY <1>1, <1>2, QueriedData DEF DatabaseOf
<1>4. ASSUME ptr[j] # Unread PROVE Target(j) = db
  BY <1>2, <1>4 DEF Target
<1>5. ASSUME pc[j] \in {"range", "key", "value", "way id"}
      PROVE  method[j] = "getAllTagsForWayId" /\ args[j][1] \in Nat
  BY <1>2, <1>5 DEF Shape, SomeWay
<1>6. ~UseFails(j)
  BY <1>2 DEF UseFails
<1>7. CASE GetTagRange(j) \/ GetExternalWayId(j)
  <2>1. ~HasWay(db, args[j][1]) /\ fault' = "past the end"
    BY <1>4, <1>7 DEF GetTagRange, GetExternalWayId, Use
  <2>2. method'[j] = "getAllTagsForWayId" /\ args'[j] = args[j] /\ Outstanding(j)'
    BY <1>1, <1>5, <1>7 DEF GetTagRange, GetExternalWayId, Use, Outstanding
  <2> QED
    BY <1>3, <2>1, <2>2 DEF StaleId
<1>8. ASSUME pc[j] \in {"key", "value"} PROVE HasTag(db, range[j].first)
  <2>1. /\ HasWay(db, args[j][1])
        /\ range[j] \in [first : Nat, second : Nat] /\ range[j].first < range[j].second
        /\ range[j].second = get_tag_range(db, args[j][1]).second
        /\ get_tag_range(db, args[j][1]).first <= range[j].first
    BY <1>2, <1>5, <1>8 DEF QueryState, HasRange
  <2>2. \A index \in Nat :
          get_tag_range(db, args[j][1]).first <= index
            /\ index < get_tag_range(db, args[j][1]).second => HasTag(db, index)
    BY <1>3, <1>5, <1>8, <2>1, TagsInRange
  <2> QED
    BY <2>1, <2>2
<1>9. ~GetTagKey(j) /\ ~GetTagValue(j)
  BY <1>4, <1>8 DEF GetTagKey, GetTagValue, Use
<1> QED
  BY <1>6, <1>7, <1>9 DEF Lookup, Fetch, ConvertNodeIds, MatchPoints, AnnotateRoute

(* Without a lock around the fields no object is used after it is freed,   *)
(* and none is freed twice, as long as no call overlaps a load: the only   *)
(* undefined behaviour left is that of a way id used with other data, that *)
(* has no such way (nodejs_bindings.cpp:169-170, 249-250, 404, 412-423).   *)
LEMMA FaultsAreStale ==
  ASSUME "load" \notin Habits, "query" \notin Habits
  PROVE  Spec => [](fault # "none" => fault = "past the end" /\ \E j \in Job : StaleId(j))
<1> DEFINE Stale == fault # "none" => fault = "past the end" /\ \E j \in Job : StaleId(j)
<1>1. Init => Stale
  BY DEF Init
<1>2. ShapeInv /\ LoadsInv /\ LoadsInv' /\ QueryInv /\ Stale /\ [Next]_vars => Stale'
  <2> SUFFICES ASSUME ShapeInv, LoadsInv, QueryInv, Stale, [Next]_vars PROVE Stale'
    OBVIOUS
  <2>1. CASE UNCHANGED vars
    <3>1. \A j \in Job : StaleId(j)' <=> StaleId(j)
      BY <2>1 DEF vars, asyncVars, calls, client, StaleId, Outstanding, DatabaseOf
    <3> QED
      BY <2>1, <3>1 DEF vars
  <2>2. ASSUME NEW j \in Job, fault = "none", Call(j) PROVE Stale'
    BY <2>2 DEF Call, RejectArguments, loadOSMExtract, Query
  <2>3. ASSUME NEW j \in Job, Work(j), Load(j) PROVE Stale'
    <3>1. Apart(j) /\ SameCalls
      BY <2>3, StepApart
    <3>2. fault' = fault
      BY <2>3, <3>1, LoadLoadsInv
    <3>3. fault = "none"
      BY <2>3 DEF Work
    <3> QED
      BY <3>2, <3>3
  <2>4. ASSUME NEW j \in Job, fault = "none", Lookup(j) PROVE Stale'
    BY <2>4, LookupFault
  <2>5. ASSUME NEW j \in Job, fault = "none",
               Execute(j) \/ Return(j) \/ EnterCallback(j) \/ Deliver(j)
        PROVE  Stale'
    BY <2>5, StepPhases
  <2> QED
    BY <2>1, <2>2, <2>3, <2>4, <2>5 DEF Next, Terminated, Work
<1>3. (Spec => []LoadsInv) /\ (Spec => []QueryInv)
  BY LoadsInvHolds, QueryInvHolds
<1> QED
  BY <1>1, <1>2, <1>3, ShapeInvHolds, PTL DEF Spec

-----------------------------------------------------------------------------
(* Programs that, besides, forget the way ids of data they have replaced.  *)

(* The way ids of query j are ways of the data it is answered from.        *)
WaysOf(j) ==
  /\ \A way_id \in ToSet(wayIds[j]) \ {INVALID_WAYID} : HasWay(DatabaseOf(annotator), way_id)
  /\ method[j] = "getAllTagsForWayId" => HasWay(DatabaseOf(annotator), args[j][1])

(* The inductive invariant.                                                *)
WaysInv ==
  /\ fault = "none"
  /\ \A way_id \in known : loaded # Null /\ HasWay(DatabaseOf(loaded), way_id)
  /\ \A j \in Job : Outstanding(j) /\ IsQuery(j) => WaysOf(j)

(* The ways of other queries, and those the program knows, stay ways of    *)
(* their data while neither it nor what was reported of it changes.        *)
LEMMA WaysKept ==
  ASSUME ShapeInv, LoadsInv, WaysInv, NEW j \in Job, Apart(j), SameCalls, phase[j] # "delivered",
         UNCHANGED <<annotator, loaded>>, fault' = "none",
         \A way_id \in known' :
           way_id \in known \/ (loaded # Null /\ HasWay(DatabaseOf(loaded), way_id)),
         Outstanding(j)' /\ IsQuery(j)' => WaysOf(j)'
  PROVE  WaysInv'
<1>1. ASSUME loaded # Null PROVE DatabaseOf(loaded)' = DatabaseOf(loaded)
  BY <1>1, LoadedKept DEF DatabaseOf
<1>2. \A way_id \in known' : loaded # Null /\ HasWay(DatabaseOf(loaded), way_id)
  BY DEF WaysInv
<1>3. ASSUME NEW k \in Job \ {j}, Outstanding(k)', IsQuery(k)' PROVE WaysOf(k)'
  <2>1. method'[k] = method[k] /\ args'[k] = args[k] /\ wayIds'[k] = wayIds[k] /\ phase'[k] = phase[k]
    BY DEF Apart
  <2>2. IsQuery(k) /\ WaysOf(k)
    BY <1>3, <2>1 DEF WaysInv, Outstanding, IsQuery
  <2>3. DatabaseOf(annotator)' = DatabaseOf(annotator)
    BY <2>2, QueriedDataKept
  <2> QED
    BY <2>1, <2>2, <2>3 DEF WaysOf
<1> QED
  BY <1>1, <1>2, <1>3 DEF WaysInv

(* While a load works no query is under way, and what was reported stays.  *)
LEMMA LoadWaysInv ==
  ASSUME ShapeInv, LoadsInv, QueryInv, WaysInv, NEW j \in Job, Load(j), Apart(j), SameCalls
  PROVE  WaysInv'
<1>1. /\ Loading(j) /\ phase[j] = "running" /\ UNCHANGED <<asyncVars, calls, client>>
  BY StepPhases DEF Loading, Outstanding
<1>2. \A k \in Job : ~(Outstanding(k)' /\ IsQuery(k)')
  BY <1>1 DEF QueryInv, Separate, Outstanding, IsLoad, IsQuery, QueryOps, RouteOps, asyncVars, calls
<1>3. fault' = fault
  BY LoadLoadsInv
<1>4. ASSUME loaded # Null PROVE DatabaseOf(loaded)' = DatabaseOf(loaded) /\ loaded' = loaded
  BY <1>1, <1>4 DEF calls, client, DatabaseOf
<1> QED
  BY <1>1, <1>2, <1>3, <1>4 DEF WaysInv, client

(* No lookup reads past an end.                                            *)
LEMMA LookupWaysInv ==
  ASSUME ShapeInv, LoadsInv, QueryInv, WaysInv, NEW j \in Job, Lookup(j), Apart(j), SameCalls
  PROVE  WaysInv'
<1> USE DEF asyncVars, fields, heap, calls, locals, results, client
<1>1. /\ pc[j] \in Uses /\ IsQuery(j) /\ phase[j] \in {"running", "callback"} /\ Outstanding(j)
      /\ UNCHANGED <<asyncVars, fields, heap, calls, locals, client>>
  BY StepPhases DEF Outstanding
<1>2. /\ Types /\ Domains /\ Shape(j) /\ QueryState(j) /\ WaysOf(j) /\ Usable(annotator)
      /\ ptr[j] \in {Unread, annotator} /\ fault = "none"
  BY <1>1, UsesLive DEF ShapeInv, NullInv, QueryInv, WaysInv
<1> DEFINE db == DatabaseOf(annotator)
<1>3. WellFormed(db) /\ DatabaseOf(annotator)' = db
  BY <1>1, QueriedData, QueriedDataKept
<1>4. ASSUME ptr[j] # Unread PROVE Target(j) = db
  BY <1>2, <1>4 DEF Target
<1>5. ASSUME fault' = "none",
             \A way_id \in ToSet(wayIds'[j]) \ {INVALID_WAYID} : HasWay(db, way_id)
      PROVE  WaysInv'
  <2>1. WaysOf(j)'
    BY <1>1, <1>2, <1>3, <1>5 DEF WaysOf
  <2> QED
    BY <1>1, <1>5, <2>1, WaysKept
<1>6. ASSUME fault' = "none", UNCHANGED wayIds PROVE WaysInv'
  BY <1>2, <1>5, <1>6 DEF WaysOf
<1>7. CASE Fetch(j) \/ ConvertNodeIds(j) \/ MatchPoints(j)
  BY <1>2, <1>6, <1>7 DEF Fetch, ConvertNodeIds, MatchPoints
<1>8. CASE UseFails(j)
  BY <1>2, <1>8 DEF UseFails
<1>9. CASE AnnotateRoute(j)
  <2>1. wayIds'[j] = annotateRoute(db, ids[j]) /\ fault' = "none"
    BY <1>2, <1>4, <1>9 DEF AnnotateRoute, Use, Domains
  <2> QED
    BY <1>3, <1>5, <2>1, RouteWays
<1>10. ASSUME pc[j] \in {"range", "key", "value", "way id"}
       PROVE  /\ method[j] = "getAllTagsForWayId" /\ args[j][1] \in Nat /\ HasWay(db, args[j][1])
  BY <1>2, <1>10 DEF Shape, SomeWay, WaysOf
<1>11. CASE GetTagRange(j) \/ GetExternalWayId(j)
  BY <1>2, <1>4, <1>6, <1>10, <1>11 DEF GetTagRange, GetExternalWayId, Use
<1>12. ASSUME pc[j] \in {"key", "value"} PROVE HasTag(db, range[j].first)
  <2>1. /\ range[j] \in [first : Nat, second : Nat] /\ range[j].first < range[j].second
        /\ range[j].second = get_tag_range(db, args[j][1]).second
        /\ get_tag_range(db, args[j][1]).first <= range[j].first
    BY <1>2, <1>10, <1>12 DEF QueryState, HasRange
  <2>2. \A index \in Nat :
          get_tag_range(db, args[j][1]).first <= index
            /\ index < get_tag_range(db, args[j][1]).second => HasTag(db, index)
    BY <1>3, <1>10, <1>12, TagsInRange
  <2> QED
    BY <2>1, <2>2
<1>13. CASE GetTagKey(j) \/ GetTagValue(j)
  BY <1>2, <1>4, <1>6, <1>12, <1>13 DEF GetTagKey, GetTagValue, Use
<1> QED
  BY <1>7, <1>8, <1>9, <1>11, <1>13 DEF Lookup

(* The program only asks about ways of the data that is in place.          *)
LEMMA CallWaysInv ==
  ASSUME ShapeInv, LoadsInv, WaysInv, Habits = {}, NEW j \in Job, Call(j), Apart(j), SameCalls
  PROVE  WaysInv'
<1> USE DEF fields, heap, calls, locals, results, client
<1>1. /\ AsyncTypeOK /\ Types /\ Domains /\ method[j] = "none" /\ ~Outstanding(j) /\ phase[j] = "idle"
      /\ wayIds[j] = <<>> /\ UNCHANGED <<annotator, loaded, known, wayIds, fault>>
  <2>1. phase[j] = "idle"
    BY StepPhases
  <2>2. UNCHANGED <<annotator, loaded, known, wayIds, fault>>
    BY DEF Call, RejectArguments, loadOSMExtract, Query
  <2> QED
    BY <2>1, <2>2 DEF ShapeInv, NullInv, Shape, Outstanding
<1>2. ASSUME Outstanding(j)', IsQuery(j)' PROVE WaysOf(j)'
  <2>1. PICK m \in QueryOps : \E a : Query(j, m, a) /\ (m = "getAllTagsForWayId" => a[1] \in known)
    <3>1. ~RejectArguments(j)
      BY <1>1, <1>2 DEF RejectArguments, Throw, AsyncTypeOK, Outstanding
    <3>2. \A e \in Extract : ~loadOSMExtract(j, e)
      BY <1>1, <1>2 DEF loadOSMExtract, Types, IsQuery, QueryOps, RouteOps
    <3>3. CASE \E a : \E m \in RouteOps : Query(j, m, a)
      BY <3>3 DEF QueryOps, RouteOps
    <3>4. CASE \E way_id \in known : Query(j, "getAllTagsForWayId", <<way_id>>)
      <4>1. PICK way_id \in known : Query(j, "getAllTagsForWayId", <<way_id>>)
        BY <3>4
      <4> QED
        BY <4>1 DEF QueryOps
    <3> QED
      BY <3>1, <3>2, <3>3, <3>4 DEF Call, RouteOps
  <2>2. PICK a : Query(j, m, a) /\ (m = "getAllTagsForWayId" => a[1] \in known)
    BY <2>1
  <2>3. HasData
    BY <1>1, <1>2, <2>2 DEF Query, Throw, AsyncTypeOK, Outstanding
  <2>4. ~LoadUnderWay /\ method'[j] = m /\ args'[j] = a
    BY <1>1, <2>2, <2>3 DEF Query, Types, Domains
  <2>5. annotator = loaded /\ loaded # Null
    BY <2>3, <2>4 DEF LoadsInv, Owns, HasData
  <2>6. DatabaseOf(annotator)' = DatabaseOf(loaded)
    BY <1>1, <2>5, LoadedKept DEF DatabaseOf
  <2>7. m = "getAllTagsForWayId" => HasWay(DatabaseOf(loaded), a[1])
    BY <2>2 DEF WaysInv
  <2> QED
    BY <1>1, <2>4, <2>6, <2>7 DEF WaysOf, ToSet
<1> QED
  BY <1>1, <1>2, WaysKept DEF WaysInv

(* It learns ways of that data, and forgets them when it is replaced.      *)
LEMMA WorkerWaysInv ==
  ASSUME ShapeInv, LoadsInv, QueryInv, WaysInv, Habits = {}, NEW j \in Job, Apart(j), SameCalls,
         Execute(j) \/ Return(j) \/ EnterCallback(j) \/ Deliver(j)
  PROVE  WaysInv'
<1> USE DEF fields, heap, calls, locals, results, client, Goto
<1>1. /\ AsyncTypeOK /\ Types /\ Outstanding(j) /\ phase[j] # "delivered"
      /\ UNCHANGED <<fields, heap, calls, ptr, locals, results, fault, against>>
  BY StepPhases DEF ShapeInv, NullInv, Outstanding
<1>2. ASSUME IsQuery(j)' PROVE WaysOf(j) /\ WaysOf(j)'
  <2>1. IsQuery(j) /\ WaysOf(j)
    BY <1>1, <1>2 DEF WaysInv, IsQuery
  <2>2. DatabaseOf(annotator)' = DatabaseOf(annotator)
    BY <1>1, <2>1, QueriedDataKept
  <2> QED
    BY <1>1, <2>1, <2>2 DEF WaysOf
<1>3. ASSUME UNCHANGED loaded,
             \A way_id \in known' :
               way_id \in known \/ (loaded # Null /\ HasWay(DatabaseOf(loaded), way_id))
      PROVE  WaysInv'
  BY <1>1, <1>2, <1>3, WaysKept DEF WaysInv
<1>4. CASE Execute(j) \/ Return(j) \/ EnterCallback(j)
  BY <1>3, <1>4 DEF Execute, Return, EnterCallback
<1>5. CASE Deliver(j) /\ IsLoad(j) /\ ~error[j]
  <2>1. known' = {} /\ phase'[j] = "delivered"
    BY <1>1, <1>5 DEF Deliver, EndCallback, AsyncTypeOK
  <2>2. \A k \in Job : ~(Outstanding(k)' /\ IsQuery(k)')
    BY <1>1, <1>5, <2>1
    DEF QueryInv, Separate, Loading, Outstanding, IsLoad, IsQuery, QueryOps, RouteOps, Apart
  <2> QED
    BY <1>1, <2>1, <2>2 DEF WaysInv
<1>6. CASE Deliver(j) /\ ~(IsLoad(j) /\ ~error[j])
  <2>1. UNCHANGED loaded /\ (~IsQuery(j) => UNCHANGED known)
        /\ known' \subseteq known \cup (ToSet(wayIds[j]) \ {INVALID_WAYID})
    BY <1>6 DEF Deliver, IsQuery, QueryOps
  <2>2. ASSUME IsQuery(j), NEW way_id \in ToSet(wayIds[j]) \ {INVALID_WAYID}
        PROVE  loaded # Null /\ HasWay(DatabaseOf(loaded), way_id)
    <3>1. annotator = loaded /\ loaded \in Job /\ WaysOf(j)
      BY <1>1, <1>2, <2>2, UsesLive DEF IsQuery
    <3> QED
      BY <2>2, <3>1, JobAssumption DEF WaysOf, Null
  <2> QED
    BY <1>3, <2>1, <2>2
<1> QED
  BY <1>4, <1>5, <1>6

LEMMA InitWaysInv == Init => WaysInv
BY DEF Init, AsyncInit, WaysInv, Outstanding

LEMMA NextWaysInv ==
  ASSUME Habits = {}
  PROVE  ShapeInv /\ LoadsInv /\ QueryInv /\ WaysInv /\ [Next]_vars => WaysInv'
<1> SUFFICES ASSUME ShapeInv, LoadsInv, QueryInv, WaysInv, [Next]_vars PROVE WaysInv'
  OBVIOUS
<1>1. CASE UNCHANGED vars
  <2> USE <1>1 DEF vars, asyncVars, fields, calls, results, client
  <2>1. \A j \in Job : Outstanding(j)' /\ IsQuery(j)' => WaysOf(j)'
    BY DEF WaysInv, Outstanding, IsQuery, WaysOf, DatabaseOf
  <2> QED
    BY <2>1 DEF WaysInv, DatabaseOf
<1>2. ASSUME NEW j \in Job, Call(j) PROVE WaysInv'
  BY <1>2, StepApart, CallWaysInv
<1>3. ASSUME NEW j \in Job, Work(j) PROVE WaysInv'
  BY <1>3, StepApart, LoadWaysInv, LookupWaysInv, WorkerWaysInv DEF Work
<1> QED
  BY <1>1, <1>2, <1>3 DEF Next, Terminated

(* No undefined behaviour is left.                                         *)
THEOREM FaultFree ==
  ASSUME Habits = {}
  PROVE  Spec => [](fault = "none")
<1>1. WaysInv => fault = "none"
  BY DEF WaysInv
<1>2. ShapeInv /\ LoadsInv /\ QueryInv /\ WaysInv /\ [Next]_vars => WaysInv'
  BY NextWaysInv
<1>3. (Spec => []LoadsInv) /\ (Spec => []QueryInv)
  BY LoadsInvHolds, QueryInvHolds
<1> QED
  BY <1>1, <1>2, <1>3, InitWaysInv, ShapeInvHolds, PTL DEF Spec

(* All that a program which lets no call overlap a load can make the addon *)
(* do wrong is to look up a way id of data that was replaced with data that*)
(* has no such way: nothing dangles, nothing is freed twice, and a program *)
(* that forgets such ids meets no undefined behaviour at all.              *)
THEOREM NothingDangles ==
  ASSUME "load" \notin Habits, "query" \notin Habits
  PROVE  Spec => []OnlyStaleIdsFault
<1>1. CASE "keepWayIds" \in Habits
  <2>1. (fault # "none" => fault = "past the end" /\ \E j \in Job : StaleId(j))
          => OnlyStaleIdsFault
    BY <1>1 DEF OnlyStaleIdsFault
  <2>2. Spec => [](fault # "none" => fault = "past the end" /\ \E j \in Job : StaleId(j))
    BY FaultsAreStale
  <2> QED
    BY <2>1, <2>2, PTL
<1>2. CASE "keepWayIds" \notin Habits
  <2>1. Habits = {}
    BY <1>2, HabitsAssumption
  <2>2. Spec => [](fault = "none")
    BY <2>1, FaultFree
  <2>3. fault = "none" => OnlyStaleIdsFault
    BY DEF OnlyStaleIdsFault
  <2> QED
    BY <2>2, <2>3, PTL
<1> QED
  BY <1>1, <1>2
=============================================================================
