---------------------------- MODULE ExampleServer ---------------------------
(***************************************************************************)
(* The HTTP server of src/example-server.js: how requests share one loaded *)
(* Annotator.  It listens once the extract is loaded, so that the data does*)
(* not change any more: what the Annotator answers is given by constants.  *)
(* Each request makes a call for the ways of its route, and in the callback*)
(* one for the tags of every way at once; the calls run as AsyncWorker     *)
(* says, those of all requests in one pool.                                *)
(*                                                                         *)
(* A definition X_Bug is X with a plausible mistake in it, which some      *)
(* property must catch; no specification uses it.                          *)
(***************************************************************************)
EXTENDS AsyncWorker, SequencesExt

CONSTANTS
  Request,
  Routes,      (* the lists of ways that lists of nodes have: internal ids *)
  NoWay,       (* null, for a pair of nodes on no way                      *)
  ExternalId   (* [way -> the "_way_id" among its tags]                    *)

(* The calls a request makes: <<r, 0>>, then <<r, i>> for the i-th way.    *)
ASSUME CallsAssumption ==
  \A r \in Request :
    <<r, 0>> \in Job /\ \A route \in Routes : {r} \X (1 .. Len(route)) \subseteq Job
ASSUME RoutesAssumption ==
  /\ <<>> \notin Routes /\ NoWay \notin DOMAIN ExternalId
  /\ Routes \subseteq Seq(DOMAIN ExternalId \cup {NoWay})

VARIABLES
  handler,     (* which of the two handlers a request gets                 *)
  status,      (* what was sent: nothing yet, or an HTTP status            *)
  wayIds,      (* the answer to its first call                             *)
  index,       (* how far async.each has come in it                        *)
  completed,   (* how many times it was called back                        *)
  response     (* the body under construction                              *)

vars == <<asyncVars, handler, status, wayIds, index, completed, response>>

Statuses == {"200", "400", "500"}

Init ==
  /\ AsyncInit
  /\ handler = [r \in Request |-> "none"]
  /\ status = [r \in Request |-> "none"]
  /\ wayIds = [r \in Request |-> <<>>]
  /\ index = [r \in Request |-> 1]
  /\ completed = [r \in Request |-> 0]
  /\ response = [r \in Request |-> [way_indexes |-> <<>>, ways_seen |-> <<>>]]
-----------------------------------------------------------------------------
Send(r, code) == status' = [status EXCEPT ![r] = code]
Arrives(r) == handler[r] = "none" /\ main = NoJob

(* Something in the list is not a number.                                  *)
BadRequest(r, which) ==
  /\ Arrives(r)
  /\ handler' = [handler EXCEPT ![r] = which]
  /\ Send(r, "400")
  /\ UNCHANGED <<asyncVars, wayIds, index, completed, response>>

(* The Annotator throws, as for a single node: Express answers.            *)
Refused(r, which) ==
  /\ Arrives(r)
  /\ Throw(<<r, 0>>)
  /\ handler' = [handler EXCEPT ![r] = which]
  /\ Send(r, "500")
  /\ UNCHANGED <<wayIds, index, completed, response>>

nodeListHandler(r, route) ==
  /\ Arrives(r)
  /\ Enqueue(<<r, 0>>)
  /\ handler' = [handler EXCEPT ![r] = "nodelist"]
  /\ wayIds' = [wayIds EXCEPT ![r] = route]
  /\ UNCHANGED <<status, index, completed, response>>

coordListHandler(r) ==
  /\ Arrives(r)
  /\ Enqueue(<<r, 0>>)
  /\ handler' = [handler EXCEPT ![r] = "coordlist"]
  /\ UNCHANGED <<status, wayIds, index, completed, response>>

(* The Annotator was made without coordinates: it has an error for them.   *)
CoordinatesFailed(r) ==
  /\ handler[r] = "coordlist"
  /\ EndCallback(<<r, 0>>)
  /\ Send(r, "400")
  /\ UNCHANGED <<handler, wayIds, index, completed, response>>

LastOne(r) == completed[r] + 1 = Len(wayIds[r])

(* next(): the last one sends the response.                                *)
next(r) ==
  /\ completed' = [completed EXCEPT ![r] = @ + 1]
  /\ IF LastOne(r) THEN Send(r, "200") ELSE UNCHANGED status

SkipPair_Forgotten(r) == UNCHANGED <<asyncVars, completed, status>>
SkipPair(r) == next(r) /\ UNCHANGED asyncVars

(* One turn of async.each.                                                 *)
EachWay(r) ==
  /\ main = <<r, 0>> /\ handler[r] = "nodelist" /\ index[r] <= Len(wayIds[r])
  /\ IF wayIds[r][index[r]] = NoWay
       THEN SkipPair(r)
       ELSE Enqueue(<<r, index[r]>>) /\ UNCHANGED <<completed, status>>
  /\ index' = [index EXCEPT ![r] = @ + 1]
  /\ UNCHANGED <<handler, wayIds, response>>

(* res.json(response) after async.each, not in its callback.               *)
EndEach_Sends(r) ==
  /\ handler[r] = "nodelist" /\ index[r] > Len(wayIds[r])
  /\ EndCallback(<<r, 0>>)
  /\ Send(r, "200")
  /\ UNCHANGED <<handler, wayIds, index, completed, response>>

EndEach(r) ==
  /\ handler[r] = "nodelist" /\ index[r] > Len(wayIds[r])
  /\ EndCallback(<<r, 0>>)
  /\ UNCHANGED <<handler, status, wayIds, index, completed, response>>

IndexOf(seq, e) == IF Contains(seq, e) THEN CHOOSE i \in DOMAIN seq : seq[i] = e ELSE 0

Seen_Again(body, wid) == Append(body.ways_seen, wid)

Seen(body, wid) ==
  IF Contains(body.ways_seen, wid) THEN body.ways_seen ELSE Append(body.ways_seen, wid)

Listed_BeforePush(body, wid) ==
  [way_indexes |-> Append(body.way_indexes, IndexOf(body.ways_seen, wid) - 1),
   ways_seen |-> Seen(body, wid)]

(* A way not seen before gets the next index, counted from 0.              *)
Listed(body, wid) ==
  [way_indexes |-> Append(body.way_indexes, IndexOf(Seen(body, wid), wid) - 1),
   ways_seen |-> Seen(body, wid)]

(* The callback with the tags of the i-th way.                             *)
AddTags(r, i) ==
  /\ EndCallback(<<r, i>>)
  /\ response' = [response EXCEPT ![r] = Listed(@, ExternalId[wayIds[r][i]])]
  /\ next(r)
  /\ UNCHANGED <<handler, wayIds, index>>
-----------------------------------------------------------------------------
local == <<handler, status, wayIds, index, completed, response>>

Serve(r) ==
  \/ \E which \in {"nodelist", "coordlist"} : BadRequest(r, which) \/ Refused(r, which)
  \/ \E route \in Routes : nodeListHandler(r, route)
  \/ coordListHandler(r)

Callbacks(r) ==
  \/ CoordinatesFailed(r) \/ EachWay(r) \/ EndEach(r)
  \/ \E i \in DOMAIN wayIds[r] : AddTags(r, i)

Pool(j) == (Begin(j) \/ Finish(j) \/ StartCallback(j)) /\ UNCHANGED local

Terminated == Settled /\ (\A r \in Request : handler[r] # "none") /\ UNCHANGED vars

Next ==
  \/ \E r \in Request : Serve(r) \/ Callbacks(r)
  \/ \E j \in Job : Pool(j)
  \/ Terminated

Spec == Init /\ [][Next]_vars

(* The pool's threads and the event loop keep running.                     *)
FairSpec ==
  /\ Spec
  /\ \A r \in Request : WF_vars(Callbacks(r))
  /\ \A j \in Job : WF_vars(Pool(j))
-----------------------------------------------------------------------------
TypeOK ==
  /\ AsyncTypeOK
  /\ handler \in [Request -> {"none", "nodelist", "coordlist"}]
  /\ status \in [Request -> {"none"} \cup Statuses]
  /\ wayIds \in [Request -> Routes \cup {<<>>}]
  /\ \A r \in Request :
       /\ index[r] \in 1 .. (Len(wayIds[r]) + 1)
       /\ completed[r] \in 0 .. Len(wayIds[r])
       /\ response[r].way_indexes \in Seq(Nat)
       /\ response[r].ways_seen \in Seq(Range(ExternalId))

(* A response lists each way once, and has as many indexes of it as the    *)
(* route has pairs of nodes on it, in whatever order the tags arrived and  *)
(* whichever other requests were served meanwhile (example-server.js:56-73)*)
ResponseWhole ==
  \A r \in Request :
    status[r] = "200" =>
      LET body == response[r]
          OnRoute(wid) ==
            {i \in DOMAIN wayIds[r] : wayIds[r][i] # NoWay /\ ExternalId[wayIds[r][i]] = wid}
          InResponse(wid) ==
            {n \in DOMAIN body.way_indexes : body.ways_seen[body.way_indexes[n] + 1] = wid}
      IN  /\ \A k \in Range(body.way_indexes) : k + 1 \in DOMAIN body.ways_seen
          /\ IsInjective(body.ways_seen)
          /\ \A wid \in Range(ExternalId) :
               Cardinality(OnRoute(wid)) = Cardinality(InResponse(wid))
          /\ Range(body.ways_seen)
               = {ExternalId[way] : way \in Range(wayIds[r]) \ {NoWay}}

(* A request is answered once: no callback that comes after the response   *)
(* was sent sends another or changes its body (example-server.js:54, 72).  *)
AnsweredOnce ==
  [][\A r \in Request :
       status[r] # "none" =>
         UNCHANGED <<status[r], response[r], completed[r]>>]_vars

(* A request that got no answer yet is still to be called back, whatever   *)
(* order its callbacks come in: the server keeps no other trace of it, so  *)
(* that one it miscounts would wait for ever (example-server.js:55-75).    *)
NeverForgotten ==
  \A r \in Request :
    handler[r] # "none" /\ status[r] = "none" =>
      \E i \in 0 .. Len(wayIds[r]) : Outstanding(<<r, i>>)

(* Every request is answered, pairs of nodes on no way included            *)
(* (example-server.js:60).                                                 *)
EveryRequestAnswered ==
  \A r \in Request : handler[r] # "none" ~> status[r] \in Statuses
=============================================================================
