------------------------- MODULE ExampleServerProofs ------------------------
(***************************************************************************)
(* For any number of requests, any routes and ways and any size of the     *)
(* pool: the type invariant of ExampleServer, that a request is answered   *)
(* once and never forgotten, and that what it is answered is all of its    *)
(* ways.                                                                   *)
(***************************************************************************)
EXTENDS ExampleServer, AsyncWorkerProofs, FiniteSetTheorems

(* The places in a route, which number the calls after the first.          *)
Places == UNION {1 .. Len(route) : route \in Routes}

(* The places of r's route whose tags have come, and those done with: these*)
(* and the pairs on no way that async.each has passed over.                *)
TagsCame(r) == {i \in 1 .. Len(wayIds[r]) : phase[<<r, i>>] = "delivered"}
PassedOver(r) == {i \in 1 .. Len(wayIds[r]) : i < index[r] /\ wayIds[r][i] = NoWay}
Done(r) == TagsCame(r) \cup PassedOver(r)

(* The first call of r is the only one until its callback, which makes a   *)
(* call for each place that has a way.                                     *)
CallState(r) ==
  /\ handler[r] = "none" => status[r] = "none" /\ wayIds[r] = <<>> /\ phase[<<r, 0>>] = "idle"
  /\ wayIds[r] = <<>> =>
       /\ index[r] = 1
       /\ status[r] = "none" <=> handler[r] = "none" \/ Outstanding(<<r, 0>>)
       /\ status[r] # "200"
       /\ handler[r] = "nodelist" => ~Outstanding(<<r, 0>>)
  /\ wayIds[r] # <<>> =>
       /\ handler[r] = "nodelist"
       /\ phase[<<r, 0>>] \notin {"idle", "threw"}
       /\ phase[<<r, 0>>] \in {"queued", "running", "completed"} => index[r] = 1
       /\ phase[<<r, 0>>] = "delivered" => index[r] = Len(wayIds[r]) + 1
       /\ status[r] = IF completed[r] = Len(wayIds[r]) THEN "200" ELSE "none"
  /\ index[r] \in 1 .. (Len(wayIds[r]) + 1)
  /\ \A i \in Places :
       /\ phase[<<r, i>>] # "threw"
       /\ phase[<<r, i>>] # "idle" <=>
            i \in 1 .. Len(wayIds[r]) /\ i < index[r] /\ wayIds[r][i] # NoWay
  /\ completed[r] = Cardinality(Done(r))

Ids == Range(ExternalId)
Bodies == [way_indexes : Seq(Nat), ways_seen : Seq(Ids)]

(* The places of the route, and those of the response, that have OSM way w.*)
OnWay(r, w) == {i \in TagsCame(r) : ExternalId[wayIds[r][i]] = w}
Listings(body, w) ==
  {n \in DOMAIN body.way_indexes : body.ways_seen[body.way_indexes[n] + 1] = w}

(* A body that can be sent: no way is listed twice and every index is one  *)
(* of a way listed.                                                        *)
Sound(body) ==
  /\ body \in Bodies
  /\ IsInjective(body.ways_seen)
  /\ \A n \in DOMAIN body.way_indexes : body.way_indexes[n] + 1 \in DOMAIN body.ways_seen

(* The body has what came, in whatever order.                              *)
ResponseState(r) ==
  /\ Sound(response[r])
  /\ \A w \in Ids : Cardinality(Listings(response[r], w)) = Cardinality(OnWay(r, w))
  /\ Range(response[r].ways_seen) = {ExternalId[wayIds[r][i]] : i \in TagsCame(r)}

Types ==
  /\ handler \in [Request -> {"none", "nodelist", "coordlist"}]
  /\ status \in [Request -> {"none"} \cup Statuses]
  /\ wayIds \in [Request -> Routes \cup {<<>>}]
  /\ index \in [Request -> Nat]
  /\ completed \in [Request -> Nat]
  /\ response \in [Request -> Bodies]

(* The inductive invariant.                                                *)
ServerInv ==
  /\ AsyncInv /\ Types
  /\ \A r \in Request : CallState(r) /\ ResponseState(r)
-----------------------------------------------------------------------------
(* The calls of different requests, or for different places, are different.*)
LEMMA CallsApart ==
  ASSUME NEW r \in Request
  PROVE  /\ <<r, 0>> \in Job
         /\ \A i \in Places : <<r, i>> \in Job /\ i \in Nat \ {0}
         /\ \A route \in Routes : 1 .. Len(route) \subseteq Places
<1>1. <<r, 0>> \in Job
  BY CallsAssumption
<1>2. ASSUME NEW i \in Places
      PROVE  <<r, i>> \in Job /\ i \in Nat \ {0}
  <2>1. PICK route \in Routes : i \in 1 .. Len(route)
    BY DEF Places
  <2>2. <<r, i>> \in {r} \X (1 .. Len(route))
    BY <2>1
  <2>3. {r} \X (1 .. Len(route)) \subseteq Job
    BY CallsAssumption
  <2>4. Len(route) \in Nat
    BY RoutesAssumption, LenProperties
  <2>5. i \in Nat \ {0}
    BY <2>1, <2>4
  <2> QED
    BY <2>2, <2>3, <2>5
<1> QED
  BY <1>1, <1>2 DEF Places

(* The places of a request's route are those that calls are made for.      *)
LEMMA PlacesOfRoute ==
  ASSUME Types, NEW r \in Request
  PROVE  /\ Len(wayIds[r]) \in Nat
         /\ 1 .. Len(wayIds[r]) \subseteq Places
         /\ wayIds[r] = <<>> <=> Len(wayIds[r]) = 0
         /\ \A i \in 1 .. Len(wayIds[r]) : wayIds[r][i] \in DOMAIN ExternalId \cup {NoWay}
<1>1. wayIds[r] \in Routes \cup {<<>>}
  BY DEF Types
<1>2. wayIds[r] \in Seq(DOMAIN ExternalId \cup {NoWay})
  BY <1>1, RoutesAssumption, EmptySeq
<1>3. 1 .. Len(wayIds[r]) \subseteq Places
  <2>1. CASE wayIds[r] \in Routes
    BY <2>1 DEF Places
  <2>2. CASE wayIds[r] = <<>>
    BY <2>2, EmptySeq
  <2> QED
    BY <1>1, <2>1, <2>2
<1> QED
  BY <1>2, <1>3, LenProperties, EmptySeq, ElementOfSeq

(* Counting in a part of 1 .. n.                                           *)
LEMMA PartOfInterval ==
  ASSUME NEW n \in Nat, NEW S \in SUBSET (1 .. n)
  PROVE  /\ IsFiniteSet(S)
         /\ Cardinality(S) \in 0 .. n
         /\ Cardinality(S) = n => S = 1 .. n
<1>1. IsFiniteSet(1 .. n) /\ Cardinality(1 .. n) = n
  BY FS_Interval
<1>2. IsFiniteSet(S) /\ Cardinality(S) <= n /\ (Cardinality(S) = n => S = 1 .. n)
  BY <1>1, FS_Subset
<1>3. Cardinality(S) \in Nat
  BY <1>2, FS_CardinalityType
<1> QED
  BY <1>2, <1>3

LEMMA OneMore ==
  ASSUME NEW n \in Nat, NEW S \in SUBSET (1 .. n), NEW e \in (1 .. n) \ S
  PROVE  Cardinality(S \cup {e}) = Cardinality(S) + 1 /\ Cardinality(S) < n
<1>1. IsFiniteSet(S) /\ Cardinality(S) \in 0 .. n /\ Cardinality(S) # n
  BY PartOfInterval
<1> QED
  BY <1>1, FS_AddElement

LEMMA DoneBounds ==
  ASSUME Types, NEW r \in Request
  PROVE  Done(r) \in SUBSET (1 .. Len(wayIds[r]))
BY DEF Done, TagsCame, PassedOver
-----------------------------------------------------------------------------
(* The body that a way makes of another.                                   *)

(* A way seen before has one place among those listed.                     *)
LEMMA PlaceOfSeen ==
  ASSUME NEW seen \in Seq(Ids), IsInjective(seen), NEW wid \in Ids
  PROVE  LET seen2 == IF Contains(seen, wid) THEN seen ELSE Append(seen, wid)
         IN  /\ seen2 \in Seq(Ids)
             /\ IsInjective(seen2)
             /\ Range(seen2) = Range(seen) \cup {wid}
             /\ Len(seen) \in Nat /\ Len(seen) <= Len(seen2)
             /\ \A k \in 1 .. Len(seen) : seen2[k] = seen[k]
             /\ \E k \in 1 .. Len(seen2) : seen2[k] = wid
<1> DEFINE seen2 == IF Contains(seen, wid) THEN seen ELSE Append(seen, wid)
<1>1. Len(seen) \in Nat /\ DOMAIN seen = 1 .. Len(seen)
  BY LenProperties
<1>2. CASE Contains(seen, wid)
  <2>1. PICK k \in 1 .. Len(seen) : seen[k] = wid
    BY <1>2 DEF Contains
  <2>2. Range(seen) = Range(seen) \cup {wid}
    BY <1>1, <2>1 DEF Range
  <2> QED
    BY <1>1, <1>2, <2>1, <2>2
<1>3. CASE ~ Contains(seen, wid)
  <2>1. seen2 = Append(seen, wid)
    BY <1>3
  <2>2. /\ seen2 \in Seq(Ids) /\ Len(seen2) = Len(seen) + 1
        /\ \A k \in 1 .. Len(seen) : seen2[k] = seen[k]
        /\ seen2[Len(seen) + 1] = wid
    BY <2>1, AppendElements
  <2>3. DOMAIN seen2 = 1 .. (Len(seen) + 1)
    BY <2>2, LenProperties
  <2>4. \A k \in 1 .. (Len(seen) + 1) : k \in 1 .. Len(seen) \/ k = Len(seen) + 1
    BY <1>1
  <2>5. \A k \in 1 .. Len(seen) : seen[k] # wid
    BY <1>3 DEF Contains
  <2> HIDE DEF seen2
  <2>6. IsInjective(seen2)
    <3>1. \A a, b \in 1 .. Len(seen) : seen2[a] = seen2[b] => a = b
      BY <1>1, <2>2 DEF IsInjective
    <3> QED
      BY <2>2, <2>3, <2>4, <2>5, <3>1 DEF IsInjective
  <2>7. Range(seen2) = Range(seen) \cup {wid}
    <3>1. \A x \in Range(seen2) : x \in Range(seen) \cup {wid}
      BY <1>1, <2>2, <2>3, <2>4 DEF Range
    <3>2. \A x \in Range(seen) \cup {wid} : x \in Range(seen2)
      <4>1. \A k \in 1 .. Len(seen) : k \in 1 .. (Len(seen) + 1)
        BY <1>1
      <4>2. Len(seen) + 1 \in 1 .. (Len(seen) + 1)
        BY <1>1
      <4> QED
        BY <1>1, <2>2, <2>3, <4>1, <4>2 DEF Range
    <3> QED
      BY <3>1, <3>2
  <2>8. Len(seen) + 1 \in 1 .. Len(seen2) /\ Len(seen) <= Len(seen2)
    BY <1>1, <2>2
  <2> QED
    BY <1>1, <2>2, <2>6, <2>7, <2>8 DEF seen2
<1> QED
  BY <1>2, <1>3

(* One more index, that of the way, and nothing listed twice.              *)
LEMMA ListedIsSound ==
  ASSUME NEW body, Sound(body), NEW wid \in Ids
  PROVE  /\ Sound(Listed(body, wid))
         /\ Range(Listed(body, wid).ways_seen) = Range(body.ways_seen) \cup {wid}
         /\ \A w \in Ids :
              Cardinality(Listings(Listed(body, wid), w))
                = IF w = wid THEN Cardinality(Listings(body, w)) + 1
                  ELSE Cardinality(Listings(body, w))
<1> DEFINE ways == body.way_indexes
           seen == body.ways_seen
           seen2 == Seen(body, wid)
           place == IndexOf(seen2, wid)
           new == Listed(body, wid)
<1>1. /\ ways \in Seq(Nat) /\ seen \in Seq(Ids) /\ IsInjective(seen)
      /\ \A n \in DOMAIN ways : ways[n] + 1 \in DOMAIN seen
  BY DEF Sound, Bodies
<1>2. /\ seen2 \in Seq(Ids)
      /\ IsInjective(seen2)
      /\ Range(seen2) = Range(seen) \cup {wid}
      /\ Len(seen) \in Nat /\ Len(seen) <= Len(seen2)
      /\ \A k \in 1 .. Len(seen) : seen2[k] = seen[k]
      /\ \E k \in 1 .. Len(seen2) : seen2[k] = wid
  <2> HIDE DEF seen
  <2>1. seen2 = IF Contains(seen, wid) THEN seen ELSE Append(seen, wid)
    BY DEF Seen, seen
  <2> HIDE DEF seen2
  <2> QED
    BY <1>1, <2>1, PlaceOfSeen
<1>3. new = [way_indexes |-> Append(ways, place - 1), ways_seen |-> seen2]
  BY DEF Listed
<1> HIDE DEF ways, seen, seen2, new
<1>4. /\ Len(seen2) \in Nat /\ DOMAIN seen2 = 1 .. Len(seen2)
      /\ DOMAIN seen = 1 .. Len(seen)
      /\ Len(ways) \in Nat /\ DOMAIN ways = 1 .. Len(ways)
      /\ \A n \in 1 .. Len(ways) : ways[n] \in Nat
  BY <1>1, <1>2, LenProperties, ElementOfSeq
<1>5. place \in 1 .. Len(seen2) /\ seen2[place] = wid
  <2>1. Contains(seen2, wid)
    BY <1>2 DEF Contains
  <2>2. \E i \in DOMAIN seen2 : seen2[i] = wid
    BY <1>2, <1>4
  <2> QED
    BY <1>4, <2>1, <2>2 DEF IndexOf
<1> HIDE DEF place
<1>6. place - 1 \in Nat /\ (place - 1) + 1 = place
  BY <1>4, <1>5
<1> DEFINE ways2 == Append(ways, place - 1)
<1>7. /\ ways2 \in Seq(Nat) /\ Len(ways2) = Len(ways) + 1
      /\ \A n \in 1 .. Len(ways) : ways2[n] = ways[n]
      /\ ways2[Len(ways) + 1] = place - 1
  BY <1>1, <1>6, AppendElements
<1> HIDE DEF ways2
<1>8. DOMAIN ways2 = 1 .. (Len(ways) + 1)
  BY <1>7, LenProperties
<1>9. \A n \in 1 .. (Len(ways) + 1) : n \in 1 .. Len(ways) \/ n = Len(ways) + 1
  BY <1>4
<1>10. new.way_indexes = ways2 /\ new.ways_seen = seen2 /\ new \in Bodies
  BY <1>2, <1>3, <1>7 DEF Bodies, ways2
<1>11. \A n \in 1 .. Len(ways) : ways[n] + 1 \in 1 .. Len(seen) /\ ways[n] + 1 \in 1 .. Len(seen2)
  <2>1. 1 .. Len(seen) \subseteq 1 .. Len(seen2)
    BY <1>2, <1>4
  <2>2. \A n \in 1 .. Len(ways) : ways[n] + 1 \in 1 .. Len(seen)
    BY <1>1, <1>4, Zenon
  <2> QED
    BY <2>1, <2>2
<1>12. Sound(new)
  <2>1. \A n \in DOMAIN ways2 : ways2[n] + 1 \in DOMAIN seen2
    BY <1>4, <1>5, <1>6, <1>7, <1>8, <1>9, <1>11
  <2> QED
    BY <1>2, <1>10, <2>1 DEF Sound
<1>13. ASSUME NEW w \in Ids
       PROVE  Cardinality(Listings(new, w))
                = IF w = wid THEN Cardinality(Listings(body, w)) + 1
                  ELSE Cardinality(Listings(body, w))
  <2>1. Listings(body, w) = {n \in 1 .. Len(ways) : seen[ways[n] + 1] = w}
    BY <1>4 DEF Listings, ways, seen
  <2>2. Listings(new, w) = {n \in 1 .. (Len(ways) + 1) : seen2[ways2[n] + 1] = w}
    BY <1>8, <1>10 DEF Listings
  <2>3. \A n \in 1 .. Len(ways) : seen2[ways2[n] + 1] = seen[ways[n] + 1]
    BY <1>2, <1>7, <1>11
  <2>4. seen2[ways2[Len(ways) + 1] + 1] = wid
    BY <1>5, <1>6, <1>7
  <2>5. /\ Len(ways) + 1 \in 1 .. (Len(ways) + 1) /\ Len(ways) + 1 \notin 1 .. Len(ways)
        /\ 1 .. Len(ways) \subseteq 1 .. (Len(ways) + 1)
    BY <1>4
  <2>6. CASE w = wid
    <3>1. Listings(new, w) = Listings(body, w) \cup {Len(ways) + 1}
      BY <1>9, <2>1, <2>2, <2>3, <2>4, <2>5, <2>6
    <3>2. Listings(body, w) \in SUBSET (1 .. (Len(ways) + 1))
      BY <2>1, <2>5
    <3>3. Len(ways) + 1 \notin Listings(body, w)
      BY <2>1, <2>5
    <3> QED
      BY <1>4, <2>5, <2>6, <3>1, <3>2, <3>3, OneMore
  <2>7. CASE w # wid
    <3>1. Listings(new, w) = Listings(body, w)
      BY <1>9, <2>1, <2>2, <2>3, <2>4, <2>5, <2>7
    <3> QED
      BY <2>7, <3>1
  <2> QED
    BY <2>6, <2>7
<1> QED
  BY <1>2, <1>10, <1>12, <1>13 DEF new, seen
-----------------------------------------------------------------------------
(* What a step of the pool or of another request leaves of a request.      *)
SameRequest(q) ==
  /\ handler'[q] = handler[q]
  /\ status'[q] = status[q]
  /\ wayIds'[q] = wayIds[q]
  /\ index'[q] = index[q]
  /\ completed'[q] = completed[q]
  /\ response'[q] = response[q]

(* A call stays where it is or goes on in the pool, up to its callback.    *)
Onward(j) ==
  \/ phase'[j] = phase[j]
  \/ phase[j] = "queued" /\ phase'[j] = "running"
  \/ phase[j] = "running" /\ phase'[j] = "completed"
  \/ phase[j] = "completed" /\ phase'[j] = "callback"

(* The body is as good as before when no tags came.                        *)
LEMMA NoTagsCame ==
  ASSUME NEW r \in Request, ResponseState(r),
         TagsCame(r)' = TagsCame(r), response'[r] = response[r],
         \A i \in TagsCame(r) : wayIds'[r][i] = wayIds[r][i]
  PROVE  ResponseState(r)'
<1>1. \A w \in Ids : OnWay(r, w)' = OnWay(r, w)
  BY DEF OnWay
<1>2. {ExternalId[wayIds[r][i]] : i \in TagsCame(r)}'
        = {ExternalId[wayIds[r][i]] : i \in TagsCame(r)}
  OBVIOUS
<1>3. /\ Sound(response'[r])
      /\ Range(response'[r].ways_seen) = {ExternalId[wayIds[r][i]] : i \in TagsCame(r)}
      /\ \A w \in Ids : Cardinality(Listings(response'[r], w)) = Cardinality(OnWay(r, w))
  BY DEF ResponseState
<1>4. \A w \in Ids : Cardinality(Listings(response'[r], w)) = Cardinality(OnWay(r, w)')
  BY <1>1, <1>3
<1> QED
  BY <1>2, <1>3, <1>4 DEF ResponseState

(* The state of a request outlives steps that are not its own.             *)
LEMMA RequestKept ==
  ASSUME Types, NEW q \in Request, CallState(q), ResponseState(q), SameRequest(q),
         Onward(<<q, 0>>), \A i \in Places : Onward(<<q, i>>)
  PROVE  CallState(q)' /\ ResponseState(q)'
<1>1. \A i \in {0} \cup Places :
        /\ phase'[<<q, i>>] = "idle" <=> phase[<<q, i>>] = "idle"
        /\ phase'[<<q, i>>] = "threw" <=> phase[<<q, i>>] = "threw"
        /\ phase'[<<q, i>>] = "delivered" <=> phase[<<q, i>>] = "delivered"
        /\ Outstanding(<<q, i>>)' <=> Outstanding(<<q, i>>)
        /\ phase'[<<q, i>>] \in {"queued", "running", "completed"}
             => phase[<<q, i>>] \in {"queued", "running", "completed"}
  BY DEF Onward, Outstanding
<1>2. TagsCame(q)' = TagsCame(q)
  BY <1>1, PlacesOfRoute DEF TagsCame, SameRequest
<1>3. Done(q)' = Done(q)
  BY <1>2 DEF Done, PassedOver, SameRequest
<1>4. ResponseState(q)'
  BY <1>2, NoTagsCame DEF SameRequest
<1>5. CallState(q)'
  BY <1>1, <1>3 DEF CallState, SameRequest
<1> QED
  BY <1>4, <1>5

(* So that a step of r needs to be looked at for r alone.                  *)
LEMMA StepOfOne ==
  ASSUME ServerInv, NEW r \in Request, AsyncInv', Types',
         CallState(r)', ResponseState(r)',
         \A q \in Request \ {r} :
           /\ SameRequest(q)
           /\ Onward(<<q, 0>>)
           /\ \A i \in Places : Onward(<<q, i>>)
  PROVE  ServerInv'
<1>1. \A q \in Request : CallState(q)' /\ ResponseState(q)'
  <2> TAKE q \in Request
  <2>1. CASE q = r
    BY <2>1
  <2>2. CASE q # r
    BY <2>2, RequestKept DEF ServerInv
  <2> QED
    BY <2>1, <2>2
<1> QED
  BY <1>1 DEF ServerInv
-----------------------------------------------------------------------------
(* A call of r that changes phase is the only one that does.               *)
LEMMA OneCall ==
  ASSUME AsyncInv, NEW r \in Request, NEW k \in {0} \cup Places, NEW p,
         phase' = [phase EXCEPT ![<<r, k>>] = p]
  PROVE  /\ phase'[<<r, k>>] = p
         /\ \A i \in ({0} \cup Places) \ {k} : phase'[<<r, i>>] = phase[<<r, i>>]
         /\ \A q \in Request \ {r} : \A i \in {0} \cup Places :
              phase'[<<q, i>>] = phase[<<q, i>>]
<1>1. phase \in [Job -> Phases]
  BY DEF AsyncInv, AsyncTypeOK
<1>2. \A q \in Request : \A i \in {0} \cup Places : <<q, i>> \in Job
  BY CallsApart
<1> QED
  BY <1>1, <1>2

LEMMA FirstCall ==
  ASSUME AsyncInv, NEW r \in Request, NEW p, phase' = [phase EXCEPT ![<<r, 0>>] = p]
  PROVE  /\ phase'[<<r, 0>>] = p
         /\ \A i \in Places : phase'[<<r, i>>] = phase[<<r, i>>]
         /\ \A q \in Request \ {r} : \A i \in {0} \cup Places :
              phase'[<<q, i>>] = phase[<<q, i>>]
<1>1. phase \in [Job -> Phases]
  BY DEF AsyncInv, AsyncTypeOK
<1>2. /\ \A q \in Request : \A i \in {0} \cup Places : <<q, i>> \in Job
      /\ 0 \notin Places
  BY CallsApart
<1> QED
  BY <1>1, <1>2

(* An answer sent at once, without a call.                                 *)
LEMMA BadRequestInv ==
  ASSUME ServerInv, NEW r \in Request, NEW which \in {"nodelist", "coordlist"},
         BadRequest(r, which)
  PROVE  ServerInv' /\ status[r] = "none"
<1> USE DEF BadRequest, Arrives, Send, Statuses
<1>1. AsyncInv /\ Types /\ CallState(r) /\ ResponseState(r)
  BY DEF ServerInv
<1>2. AsyncInv' /\ phase' = phase
  BY <1>1, AsyncUnchangedInv DEF asyncVars
<1>3. Types'
  BY <1>1 DEF Types
<1>4. TagsCame(r)' = TagsCame(r) /\ Done(r)' = Done(r)
  BY <1>2 DEF TagsCame, Done, PassedOver
<1>5. ResponseState(r)'
  BY <1>1, <1>4, NoTagsCame
<1>6. /\ handler'[r] = which /\ status'[r] = "400"
      /\ wayIds' = wayIds /\ index' = index /\ completed' = completed
  BY <1>1 DEF Types
<1>7. /\ status[r] = "none" /\ wayIds[r] = <<>> /\ phase[<<r, 0>>] = "idle"
  BY <1>1 DEF CallState
<1>8. CallState(r)'
  BY <1>1, <1>2, <1>4, <1>6, <1>7 DEF CallState, Outstanding
<1>9. \A q \in Request \ {r} : SameRequest(q)
  BY <1>1 DEF Types, SameRequest
<1> QED
  BY <1>1, <1>2, <1>3, <1>5, <1>7, <1>8, <1>9, StepOfOne DEF Onward

LEMMA RefusedInv ==
  ASSUME ServerInv, NEW r \in Request, NEW which \in {"nodelist", "coordlist"},
         Refused(r, which)
  PROVE  ServerInv' /\ status[r] = "none"
<1> USE DEF Refused, Arrives, Send, Statuses
<1>1. AsyncInv /\ Types /\ CallState(r) /\ ResponseState(r)
  BY DEF ServerInv
<1>2. status[r] = "none" /\ wayIds[r] = <<>> /\ phase[<<r, 0>>] = "idle"
  BY <1>1 DEF CallState
<1>3. AsyncInv'
  BY <1>1, <1>2, ThrowInv, CallsApart DEF CanCall
<1>4. /\ phase'[<<r, 0>>] = "threw"
      /\ \A i \in Places : phase'[<<r, i>>] = phase[<<r, i>>]
      /\ \A q \in Request \ {r} : \A i \in {0} \cup Places : phase'[<<q, i>>] = phase[<<q, i>>]
  BY <1>1, FirstCall DEF Throw
<1>5. Types'
  BY <1>1 DEF Types
<1>6. TagsCame(r)' = TagsCame(r)
  BY <1>1, <1>4, PlacesOfRoute DEF TagsCame
<1>7. Done(r)' = Done(r)
  BY <1>6 DEF Done, PassedOver
<1>8. ResponseState(r)'
  BY <1>1, <1>6, NoTagsCame
<1>9. /\ handler'[r] = which /\ status'[r] = "500"
      /\ wayIds' = wayIds /\ index' = index /\ completed' = completed
  BY <1>1 DEF Types
<1>10. CallState(r)'
  BY <1>1, <1>2, <1>4, <1>7, <1>9 DEF CallState, Outstanding
<1>11. \A q \in Request \ {r} : SameRequest(q)
  BY <1>1 DEF Types, SameRequest
<1> QED
  BY <1>1, <1>2, <1>3, <1>4, <1>5, <1>8, <1>10, <1>11, StepOfOne DEF Onward

(* The call for the ways of a route, which is not empty: no place of it    *)
(* has a call yet.                                                         *)
LEMMA NodeListInv ==
  ASSUME ServerInv, NEW r \in Request, NEW route \in Routes, nodeListHandler(r, route)
  PROVE  ServerInv' /\ status[r] = "none"
<1> USE DEF nodeListHandler, Arrives
<1>1. AsyncInv /\ Types /\ CallState(r) /\ ResponseState(r)
  BY DEF ServerInv
<1>2. status[r] = "none" /\ wayIds[r] = <<>> /\ phase[<<r, 0>>] = "idle"
  BY <1>1 DEF CallState
<1>3. AsyncInv'
  BY <1>1, <1>2, EnqueueIdleInv, CallsApart
<1>4. /\ phase'[<<r, 0>>] = "queued"
      /\ \A i \in Places : phase'[<<r, i>>] = phase[<<r, i>>]
      /\ \A q \in Request \ {r} : \A i \in {0} \cup Places : phase'[<<q, i>>] = phase[<<q, i>>]
  BY <1>1, FirstCall DEF Enqueue
<1>5. Types'
  BY <1>1 DEF Types
<1>6. /\ handler'[r] = "nodelist" /\ wayIds'[r] = route /\ route # <<>>
      /\ status' = status /\ index' = index /\ completed' = completed /\ response' = response
  BY <1>1, RoutesAssumption DEF Types
<1>7. Len(route) \in Nat \ {0} /\ 1 .. Len(route) \subseteq Places
  BY <1>5, <1>6, PlacesOfRoute, RoutesAssumption, LenProperties, EmptySeq, CallsApart
<1>8. \A i \in Places : phase[<<r, i>>] = "idle"
  BY <1>1, <1>2, EmptySeq DEF CallState
<1>9. TagsCame(r) = {} /\ TagsCame(r)' = {}
  BY <1>1, <1>4, <1>6, <1>7, <1>8, PlacesOfRoute DEF TagsCame
<1>10. index[r] = 1
  BY <1>1, <1>2 DEF CallState
<1>11. PassedOver(r) = {} /\ PassedOver(r)' = {}
  BY <1>2, <1>6, <1>7, <1>10, EmptySeq DEF PassedOver
<1>12. Done(r) = {} /\ Done(r)' = {}
  BY <1>9, <1>11 DEF Done
<1>13. completed[r] = 0
  BY <1>1, <1>12, FS_EmptySet DEF CallState
<1>14. ResponseState(r)'
  BY <1>1, <1>6, <1>9, NoTagsCame
<1>15. CallState(r)'
  <2>1. \A i \in Places : phase'[<<r, i>>] = "idle" /\ ~(i \in 1 .. Len(route) /\ i < 1)
    BY <1>4, <1>7, <1>8
  <2> QED
    BY <1>2, <1>4, <1>6, <1>7, <1>10, <1>12, <1>13, <2>1, FS_EmptySet DEF CallState
<1>16. \A q \in Request \ {r} : SameRequest(q)
  BY <1>1 DEF Types, SameRequest
<1> QED
  BY <1>1, <1>2, <1>3, <1>4, <1>5, <1>14, <1>15, <1>16, StepOfOne DEF Onward

LEMMA CoordListInv ==
  ASSUME ServerInv, NEW r \in Request, coordListHandler(r)
  PROVE  ServerInv' /\ status[r] = "none"
<1> USE DEF coordListHandler, Arrives
<1>1. AsyncInv /\ Types /\ CallState(r) /\ ResponseState(r)
  BY DEF ServerInv
<1>2. status[r] = "none" /\ wayIds[r] = <<>> /\ phase[<<r, 0>>] = "idle"
  BY <1>1 DEF CallState
<1>3. AsyncInv'
  BY <1>1, <1>2, EnqueueIdleInv, CallsApart
<1>4. /\ phase'[<<r, 0>>] = "queued"
      /\ \A i \in Places : phase'[<<r, i>>] = phase[<<r, i>>]
      /\ \A q \in Request \ {r} : \A i \in {0} \cup Places : phase'[<<q, i>>] = phase[<<q, i>>]
  BY <1>1, FirstCall DEF Enqueue
<1>5. Types'
  BY <1>1 DEF Types
<1>6. TagsCame(r)' = TagsCame(r)
  BY <1>1, <1>4, PlacesOfRoute DEF TagsCame
<1>7. Done(r)' = Done(r)
  BY <1>6 DEF Done, PassedOver
<1>8. ResponseState(r)'
  BY <1>1, <1>6, NoTagsCame
<1>9. /\ handler'[r] = "coordlist" /\ status' = status
      /\ wayIds' = wayIds /\ index' = index /\ completed' = completed
  BY <1>1 DEF Types
<1>10. CallState(r)'
  BY <1>1, <1>2, <1>4, <1>7, <1>9 DEF CallState, Outstanding
<1>11. \A q \in Request \ {r} : SameRequest(q)
  BY <1>1 DEF Types, SameRequest
<1> QED
  BY <1>1, <1>2, <1>3, <1>4, <1>5, <1>8, <1>10, <1>11, StepOfOne DEF Onward
-----------------------------------------------------------------------------
(* The Annotator has no coordinates: nothing but the error is sent.        *)
LEMMA CoordinatesFailedInv ==
  ASSUME ServerInv, NEW r \in Request, CoordinatesFailed(r)
  PROVE  ServerInv' /\ status[r] = "none"
<1> USE DEF CoordinatesFailed, Send, Statuses
<1>1. AsyncInv /\ Types /\ CallState(r) /\ ResponseState(r)
  BY DEF ServerInv
<1>2. AsyncInv' /\ phase[<<r, 0>>] = "callback"
  BY <1>1, EndCallbackInv, CallsApart
<1>3. status[r] = "none" /\ wayIds[r] = <<>>
  BY <1>1, <1>2 DEF CallState, Outstanding
<1>4. /\ phase'[<<r, 0>>] = "delivered"
      /\ \A i \in Places : phase'[<<r, i>>] = phase[<<r, i>>]
      /\ \A q \in Request \ {r} : \A i \in {0} \cup Places : phase'[<<q, i>>] = phase[<<q, i>>]
  BY <1>1, FirstCall DEF EndCallback
<1>5. Types'
  BY <1>1 DEF Types
<1>6. TagsCame(r)' = TagsCame(r)
  BY <1>1, <1>4, PlacesOfRoute DEF TagsCame
<1>7. Done(r)' = Done(r)
  BY <1>6 DEF Done, PassedOver
<1>8. ResponseState(r)'
  BY <1>1, <1>6, NoTagsCame
<1>9. /\ handler' = handler /\ status'[r] = "400"
      /\ wayIds' = wayIds /\ index' = index /\ completed' = completed
  BY <1>1 DEF Types
<1>10. CallState(r)'
  BY <1>1, <1>3, <1>4, <1>7, <1>9 DEF CallState, Outstanding
<1>11. \A q \in Request \ {r} : SameRequest(q)
  BY <1>1 DEF Types, SameRequest
<1> QED
  BY <1>1, <1>3, <1>4, <1>2, <1>5, <1>8, <1>10, <1>11, StepOfOne DEF Onward

(* async.each is through: the callback of the first call ends.             *)
LEMMA EndEachInv ==
  ASSUME ServerInv, NEW r \in Request, EndEach(r)
  PROVE  ServerInv'
<1> USE DEF EndEach
<1>1. AsyncInv /\ Types /\ CallState(r) /\ ResponseState(r)
  BY DEF ServerInv
<1>2. AsyncInv' /\ phase[<<r, 0>>] = "callback"
  BY <1>1, EndCallbackInv, CallsApart
<1>3. wayIds[r] # <<>>
  BY <1>1, <1>2 DEF CallState, Outstanding
<1>4. /\ phase'[<<r, 0>>] = "delivered"
      /\ \A i \in Places : phase'[<<r, i>>] = phase[<<r, i>>]
      /\ \A q \in Request \ {r} : \A i \in {0} \cup Places : phase'[<<q, i>>] = phase[<<q, i>>]
  BY <1>1, FirstCall DEF EndCallback
<1>5. Types'
  BY <1>1 DEF Types
<1>6. TagsCame(r)' = TagsCame(r)
  BY <1>1, <1>4, PlacesOfRoute DEF TagsCame
<1>7. Done(r)' = Done(r)
  BY <1>6 DEF Done, PassedOver
<1>8. ResponseState(r)'
  BY <1>1, <1>6, NoTagsCame
<1>9. index[r] = Len(wayIds[r]) + 1
  BY <1>1, PlacesOfRoute DEF CallState
<1>10. CallState(r)'
  BY <1>1, <1>3, <1>4, <1>7, <1>9 DEF CallState
<1>11. \A q \in Request \ {r} : SameRequest(q)
  BY DEF SameRequest
<1> QED
  BY <1>1, <1>2, <1>4, <1>5, <1>8, <1>10, <1>11, StepOfOne DEF Onward

(* One more place done with: the counter follows, and the response is sent *)
(* with the last one, not before.                                          *)
LEMMA NextCounts ==
  ASSUME Types, NEW r \in Request, CallState(r), wayIds[r] # <<>>,
         NEW e \in 1 .. Len(wayIds[r]), e \notin Done(r),
         next(r), wayIds' = wayIds, Done(r)' = Done(r) \cup {e}
  PROVE  /\ status[r] = "none"
         /\ completed'[r] = Cardinality(Done(r))'
         /\ status'[r] = IF completed'[r] = Len(wayIds'[r]) THEN "200" ELSE "none"
         /\ completed' \in [Request -> Nat] /\ status' \in [Request -> {"none"} \cup Statuses]
         /\ \A q \in Request \ {r} : completed'[q] = completed[q] /\ status'[q] = status[q]
<1>1. Len(wayIds[r]) \in Nat /\ Done(r) \in SUBSET (1 .. Len(wayIds[r]))
  BY PlacesOfRoute, DoneBounds
<1>2. Cardinality(Done(r) \cup {e}) = Cardinality(Done(r)) + 1
      /\ Cardinality(Done(r)) < Len(wayIds[r])
  BY <1>1, OneMore
<1>3. completed[r] = Cardinality(Done(r)) /\ completed[r] \in Nat
  BY DEF CallState, Types
<1>4. status[r] = "none"
  BY <1>1, <1>2, <1>3 DEF CallState
<1>5. completed'[r] = completed[r] + 1
  BY DEF next, Types
<1>6. completed'[r] = Cardinality(Done(r))'
  BY <1>2, <1>3, <1>5
<1>7. status'[r] = IF completed'[r] = Len(wayIds'[r]) THEN "200" ELSE "none"
  BY <1>4, <1>5 DEF next, LastOne, Send, Types
<1>8. completed' \in [Request -> Nat] /\ status' \in [Request -> {"none"} \cup Statuses]
  <2>1. completed' \in [Request -> Nat]
    BY DEF next, Types
  <2>2. status' = status \/ status' = [status EXCEPT ![r] = "200"]
    BY DEF next, Send
  <2>3. status \in [Request -> {"none"} \cup Statuses] /\ "200" \in {"none"} \cup Statuses
    BY DEF Types, Statuses
  <2>4. status' \in [Request -> {"none"} \cup Statuses]
    BY <2>2, <2>3
  <2> QED
    BY <2>1, <2>4
<1>9. \A q \in Request \ {r} : completed'[q] = completed[q] /\ status'[q] = status[q]
  BY DEF next, Send, Types
<1> QED
  BY <1>4, <1>6, <1>7, <1>8, <1>9

(* One turn of async.each: the place it comes to has had neither a call nor*)
(* tags, and is passed over now or gets a call.                            *)
LEMMA EachWayInv ==
  ASSUME ServerInv, NEW r \in Request, EachWay(r)
  PROVE  /\ ServerInv'
         /\ response' = response
         /\ \A q \in Request :
              status[q] # "none" => status'[q] = status[q] /\ completed'[q] = completed[q]
<1> DEFINE n == Len(wayIds[r])
           e == index[r]
<1>1. AsyncInv /\ Types /\ CallState(r) /\ ResponseState(r)
  BY DEF ServerInv
<1>2. /\ n \in Nat /\ (wayIds[r] = <<>> <=> n = 0) /\ 1 .. n \subseteq Places
      /\ Done(r) \in SUBSET (1 .. n)
  BY <1>1, PlacesOfRoute, DoneBounds
<1>3. e \in 1 .. n /\ e \in Nat /\ e \in Places /\ wayIds[r] # <<>>
  BY <1>1, <1>2 DEF EachWay, CallState
<1>4. phase[<<r, 0>>] = "callback" /\ handler[r] = "nodelist" /\ phase \in [Job -> Phases]
  BY <1>1, CallsApart DEF EachWay, AsyncInv, EachOnce, AsyncTypeOK
<1>5. phase[<<r, e>>] = "idle" /\ e \notin Done(r)
  BY <1>1, <1>3 DEF CallState, Done, TagsCame, PassedOver
<1>6. /\ wayIds' = wayIds /\ handler' = handler /\ response' = response
      /\ index'[r] = e + 1 /\ index' \in [Request -> Nat]
      /\ \A q \in Request \ {r} : index'[q] = index[q]
  BY <1>1 DEF EachWay, Types
<1>7. e + 1 \in 1 .. (n + 1) /\ \A i \in Nat : i < e + 1 <=> i < e \/ i = e
  BY <1>2, <1>3
<1>8. CASE wayIds[r][e] = NoWay
  <2>1. next(r) /\ UNCHANGED asyncVars
    BY <1>8 DEF EachWay, SkipPair
  <2>2. AsyncInv' /\ phase' = phase
    BY <1>1, <2>1, AsyncUnchangedInv DEF asyncVars
  <2>3. TagsCame(r)' = TagsCame(r)
    BY <1>6, <2>2 DEF TagsCame
  <2>4. PassedOver(r)' = PassedOver(r) \cup {e}
    BY <1>2, <1>3, <1>6, <1>7, <1>8 DEF PassedOver
  <2>5. Done(r)' = Done(r) \cup {e}
    BY <2>3, <2>4 DEF Done
  <2>6. /\ status[r] = "none"
        /\ completed'[r] = Cardinality(Done(r))'
        /\ status'[r] = IF completed'[r] = Len(wayIds'[r]) THEN "200" ELSE "none"
        /\ completed' \in [Request -> Nat] /\ status' \in [Request -> {"none"} \cup Statuses]
        /\ \A q \in Request \ {r} : completed'[q] = completed[q] /\ status'[q] = status[q]
    BY <1>1, <1>3, <1>5, <1>6, <2>1, <2>5, NextCounts
  <2>7. ResponseState(r)'
    BY <1>1, <1>6, <2>3, NoTagsCame
  <2>8. CallState(r)'
    <3>1. \A i \in Places :
            (phase[<<r, i>>] # "idle" <=>
               i \in 1 .. n /\ i < e + 1 /\ wayIds[r][i] # NoWay)
      BY <1>1, <1>7, <1>8, CallsApart DEF CallState
    <3>2. \A i \in Places : phase[<<r, i>>] # "threw"
      BY <1>1 DEF CallState
    <3> QED
      BY <1>3, <1>4, <1>6, <1>7, <2>2, <2>6, <3>1, <3>2 DEF CallState
  <2>9. Types'
    BY <1>1, <1>6, <2>6 DEF Types
  <2>10. \A q \in Request \ {r} : SameRequest(q)
    BY <1>6, <2>6 DEF SameRequest
  <2>11. ServerInv'
    BY <2>2, <2>7, <2>8, <2>9, <2>10, StepOfOne DEF Onward
  <2> QED
    BY <1>6, <2>6, <2>11
<1>9. CASE wayIds[r][e] # NoWay
  <2>1. Enqueue(<<r, e>>) /\ completed' = completed /\ status' = status
    BY <1>9 DEF EachWay
  <2>2. AsyncInv'
    BY <1>1, <1>3, <1>5, <2>1, EnqueueIdleInv, CallsApart
  <2>3. /\ phase'[<<r, e>>] = "queued"
        /\ \A i \in ({0} \cup Places) \ {e} : phase'[<<r, i>>] = phase[<<r, i>>]
        /\ \A q \in Request \ {r} : \A i \in {0} \cup Places : phase'[<<q, i>>] = phase[<<q, i>>]
    BY <1>1, <1>3, <2>1, OneCall DEF Enqueue
  <2>4. phase'[<<r, 0>>] = phase[<<r, 0>>]
    BY <1>3, <2>3, CallsApart
  <2>5. TagsCame(r)' = TagsCame(r)
    BY <1>2, <1>5, <1>6, <2>3 DEF TagsCame
  <2>6. PassedOver(r)' = PassedOver(r)
    BY <1>2, <1>6, <1>7, <1>9 DEF PassedOver
  <2>7. Done(r)' = Done(r)
    BY <2>5, <2>6 DEF Done
  <2>8. ResponseState(r)'
    BY <1>1, <1>6, <2>5, NoTagsCame
  <2>9. CallState(r)'
    <3>1. \A i \in Places :
            /\ phase'[<<r, i>>] # "threw"
            /\ (phase'[<<r, i>>] # "idle" <=>
                  i \in 1 .. n /\ i < e + 1 /\ wayIds[r][i] # NoWay)
      <4> TAKE i \in Places
      <4>1. CASE i = e
        BY <1>3, <1>9, <2>3, <4>1
      <4>2. CASE i # e
        BY <1>1, <1>7, <2>3, <4>2, CallsApart DEF CallState
      <4> QED
        BY <4>1, <4>2
    <3>2. /\ status[r] = IF completed[r] = n THEN "200" ELSE "none"
          /\ completed[r] = Cardinality(Done(r))
      BY <1>1, <1>3 DEF CallState
    <3> QED
      BY <1>3, <1>4, <1>6, <1>7, <2>1, <2>4, <2>7, <3>1, <3>2 DEF CallState
  <2>10. Types'
    BY <1>1, <1>6, <2>1 DEF Types
  <2>11. \A q \in Request \ {r} : SameRequest(q)
    BY <1>6, <2>1 DEF SameRequest
  <2>12. ServerInv'
    BY <2>2, <2>3, <2>8, <2>9, <2>10, <2>11, StepOfOne DEF Onward
  <2> QED
    BY <1>6, <2>1, <2>12
<1> QED
  BY <1>8, <1>9

(* The tags of a way come: one more place done with, and the way is one of *)
(* those listed.                                                           *)
LEMMA AddTagsInv ==
  ASSUME ServerInv, NEW r \in Request, NEW i \in DOMAIN wayIds[r], AddTags(r, i)
  PROVE  /\ ServerInv' /\ status[r] = "none"
         /\ \A q \in Request \ {r} : SameRequest(q)
<1> DEFINE n == Len(wayIds[r])
           wid == ExternalId[wayIds[r][i]]
<1>1. AsyncInv /\ Types /\ CallState(r) /\ ResponseState(r)
  BY DEF ServerInv
<1>2. /\ n \in Nat /\ (wayIds[r] = <<>> <=> n = 0) /\ 1 .. n \subseteq Places
      /\ wayIds[r] \in Seq(DOMAIN ExternalId \cup {NoWay})
  <2>1. wayIds[r] \in Routes \cup {<<>>}
    BY <1>1 DEF Types
  <2> QED
    BY <1>1, <2>1, PlacesOfRoute, RoutesAssumption, EmptySeq
<1>3. i \in 1 .. n /\ i \in Places /\ wayIds[r] # <<>>
  BY <1>2, LenProperties
<1>4. AsyncInv' /\ phase[<<r, i>>] = "callback"
  BY <1>1, <1>3, EndCallbackInv, CallsApart DEF AddTags
<1>5. /\ phase'[<<r, i>>] = "delivered"
      /\ \A k \in ({0} \cup Places) \ {i} : phase'[<<r, k>>] = phase[<<r, k>>]
      /\ \A q \in Request \ {r} : \A k \in {0} \cup Places : phase'[<<q, k>>] = phase[<<q, k>>]
  BY <1>1, <1>3, OneCall DEF AddTags, EndCallback
<1>6. i < index[r] /\ wayIds[r][i] # NoWay
  BY <1>1, <1>3, <1>4 DEF CallState
<1>7. /\ next(r) /\ wayIds' = wayIds /\ handler' = handler /\ index' = index
      /\ response'[r] = Listed(response[r], wid)
      /\ \A q \in Request \ {r} : response'[q] = response[q]
  BY <1>1 DEF AddTags, Types
<1>8. TagsCame(r)' = TagsCame(r) \cup {i} /\ i \notin TagsCame(r)
  BY <1>2, <1>3, <1>4, <1>5, <1>7 DEF TagsCame
<1>9. PassedOver(r)' = PassedOver(r) /\ i \notin PassedOver(r)
  BY <1>6, <1>7 DEF PassedOver
<1>10. Done(r)' = Done(r) \cup {i} /\ i \notin Done(r)
  BY <1>8, <1>9 DEF Done
<1>11. /\ status[r] = "none"
       /\ completed'[r] = Cardinality(Done(r))'
       /\ status'[r] = IF completed'[r] = Len(wayIds'[r]) THEN "200" ELSE "none"
       /\ completed' \in [Request -> Nat] /\ status' \in [Request -> {"none"} \cup Statuses]
       /\ \A q \in Request \ {r} : completed'[q] = completed[q] /\ status'[q] = status[q]
  BY <1>1, <1>3, <1>7, <1>10, NextCounts
<1>12. CallState(r)'
  <2>1. phase'[<<r, 0>>] = phase[<<r, 0>>]
    BY <1>3, <1>5, CallsApart
  <2>2. \A k \in Places :
          /\ phase'[<<r, k>>] # "threw"
          /\ (phase'[<<r, k>>] # "idle" <=>
                k \in 1 .. n /\ k < index[r] /\ wayIds[r][k] # NoWay)
    <3> TAKE k \in Places
    <3>1. CASE k = i
      BY <1>3, <1>5, <1>6, <3>1
    <3>2. CASE k # i
      BY <1>1, <1>5, <3>2, CallsApart DEF CallState
    <3> QED
      BY <3>1, <3>2
  <2> QED
    BY <1>1, <1>3, <1>7, <1>11, <2>1, <2>2 DEF CallState
<1>13. wid \in Ids
  <2>1. wayIds[r][i] \in DOMAIN ExternalId
    BY <1>1, <1>3, <1>6, PlacesOfRoute
  <2> QED
    BY <2>1 DEF Ids, Range
<1>14. /\ Sound(response'[r])
       /\ Range(response'[r].ways_seen) = Range(response[r].ways_seen) \cup {wid}
       /\ \A w \in Ids :
            Cardinality(Listings(response'[r], w))
              = IF w = wid THEN Cardinality(Listings(response[r], w)) + 1
                ELSE Cardinality(Listings(response[r], w))
  <2>1. Sound(response[r])
    BY <1>1 DEF ResponseState
  <2> HIDE DEF wid
  <2> QED
    BY <1>7, <1>13, <2>1, ListedIsSound
<1>15. ResponseState(r)'
  <2>1. \A w \in Ids : Cardinality(OnWay(r, w)')
          = IF w = wid THEN Cardinality(OnWay(r, w)) + 1 ELSE Cardinality(OnWay(r, w))
    <3> TAKE w \in Ids
    <3>1. CASE w = wid
      <4>1. OnWay(r, w)' = OnWay(r, w) \cup {i} /\ i \notin OnWay(r, w)
        BY <1>7, <1>8, <3>1 DEF OnWay
      <4>2. OnWay(r, w) \in SUBSET (1 .. n)
        BY DEF OnWay, TagsCame
      <4> QED
        BY <1>2, <1>3, <3>1, <4>1, <4>2, OneMore
    <3>2. CASE w # wid
      <4>1. OnWay(r, w)' = OnWay(r, w)
        BY <1>7, <1>8, <3>2 DEF OnWay
      <4> QED
        BY <3>2, <4>1
    <3> QED
      BY <3>1, <3>2
  <2>2. {ExternalId[wayIds[r][k]] : k \in TagsCame(r)}'
          = {ExternalId[wayIds[r][k]] : k \in TagsCame(r)} \cup {wid}
    BY <1>7, <1>8
  <2>3. /\ \A w \in Ids : Cardinality(Listings(response[r], w)) = Cardinality(OnWay(r, w))
        /\ Range(response[r].ways_seen) = {ExternalId[wayIds[r][k]] : k \in TagsCame(r)}
    BY <1>1 DEF ResponseState
  <2>4. \A w \in Ids : Cardinality(Listings(response'[r], w)) = Cardinality(OnWay(r, w)')
    BY <1>14, <2>1, <2>3
  <2> QED
    BY <1>14, <2>2, <2>3, <2>4 DEF ResponseState
<1>16. Types'
  <2>1. response' \in [Request -> Bodies]
    <3>1. response'[r] \in Bodies
      BY <1>14 DEF Sound
    <3>2. response' = [response EXCEPT ![r] = response'[r]]
      BY <1>1, <1>7 DEF AddTags, Types
    <3> QED
      BY <1>1, <3>1, <3>2 DEF Types
  <2> QED
    BY <1>1, <1>7, <1>11, <2>1 DEF Types
<1>17. \A q \in Request \ {r} : SameRequest(q)
  BY <1>7, <1>11 DEF SameRequest
<1>18. ServerInv'
  BY <1>4, <1>5, <1>12, <1>15, <1>16, <1>17, StepOfOne DEF Onward
<1> QED
  BY <1>11, <1>17, <1>18

(* A step of the pool, or one in which nothing happens.                    *)
LEMMA PoolInv ==
  ASSUME ServerInv, NEW j \in Job, Pool(j)
  PROVE  ServerInv'
<1>1. AsyncInv /\ Types /\ phase \in [Job -> Phases]
  BY DEF ServerInv, AsyncInv, AsyncTypeOK
<1>2. AsyncInv' /\ Onward(j) /\ \A k \in Job \ {j} : phase'[k] = phase[k]
  <2>1. CASE Begin(j)
    <3>1. AsyncInv' /\ phase[j] = "queued"
      BY <1>1, <2>1, BeginInv
    <3> QED
      BY <1>1, <2>1, <3>1 DEF Begin, Onward
  <2>2. CASE Finish(j)
    <3>1. AsyncInv'
      BY <1>1, <2>2, FinishInv
    <3> QED
      BY <1>1, <2>2, <3>1 DEF Finish, Onward
  <2>3. CASE StartCallback(j)
    <3>1. AsyncInv' /\ phase[j] = "completed"
      BY <1>1, <2>3, StartCallbackInv
    <3> QED
      BY <1>1, <2>3, <3>1 DEF StartCallback, Onward
  <2> QED
    BY <2>1, <2>2, <2>3 DEF Pool
<1>3. \A q \in Request : SameRequest(q) /\ Onward(<<q, 0>>) /\ \A i \in Places : Onward(<<q, i>>)
  BY <1>2, CallsApart DEF Onward, Pool, local, SameRequest
<1>4. \A q \in Request : CallState(q)' /\ ResponseState(q)'
  BY <1>1, <1>3, RequestKept DEF ServerInv
<1>5. Types'
  BY <1>1 DEF Types, Pool, local
<1> QED
  BY <1>2, <1>4, <1>5 DEF ServerInv

LEMMA StutterInv ==
  ASSUME ServerInv, UNCHANGED vars
  PROVE  ServerInv'
<1>1. AsyncInv'
  BY AsyncUnchangedInv DEF ServerInv, vars
<1>2. Types'
  BY DEF ServerInv, Types, vars
<1>3. \A q \in Request : SameRequest(q) /\ Onward(<<q, 0>>) /\ \A i \in Places : Onward(<<q, i>>)
  BY DEF vars, asyncVars, SameRequest, Onward
<1>4. \A q \in Request : CallState(q)' /\ ResponseState(q)'
  BY <1>3, RequestKept DEF ServerInv
<1> QED
  BY <1>1, <1>2, <1>4 DEF ServerInv
-----------------------------------------------------------------------------
LEMMA ServerInitInv == Init => ServerInv
<1> SUFFICES ASSUME Init PROVE ServerInv
  OBVIOUS
<1> USE DEF Init
<1>1. AsyncInv
  BY AsyncInitInv
<1>2. [way_indexes |-> <<>>, ways_seen |-> <<>>] \in Bodies
  BY EmptySeq DEF Bodies
<1>3. Types
  BY <1>2 DEF Types
<1>4. ASSUME NEW r \in Request
      PROVE  CallState(r) /\ ResponseState(r)
  <2>1. wayIds[r] = <<>> /\ Len(wayIds[r]) = 0 /\ 1 .. Len(wayIds[r]) = {}
    BY EmptySeq
  <2>2. \A i \in {0} \cup Places : phase[<<r, i>>] = "idle"
    BY CallsApart DEF AsyncInit
  <2>3. TagsCame(r) = {} /\ Done(r) = {}
    BY <2>1 DEF TagsCame, PassedOver, Done
  <2>4. CallState(r)
    <3>1. /\ handler[r] = "none" /\ status[r] = "none" /\ index[r] = 1
          /\ completed[r] = 0 /\ Cardinality(Done(r)) = 0
      BY <2>3, FS_EmptySet
    <3>2. 1 \in 1 .. (Len(wayIds[r]) + 1)
      BY <2>1
    <3> HIDE DEF Init
    <3> QED
      BY <2>1, <2>2, <3>1, <3>2 DEF CallState, Outstanding
  <2>5. response[r].way_indexes = <<>> /\ response[r].ways_seen = <<>>
    OBVIOUS
  <2>6. DOMAIN response[r].way_indexes = {} /\ DOMAIN response[r].ways_seen = {}
    BY <2>5, EmptySeq
  <2>7. Sound(response[r]) /\ Range(response[r].ways_seen) = {}
    BY <1>2, <2>6 DEF Sound, IsInjective, Range
  <2>8. \A w \in Ids : Listings(response[r], w) = {} /\ OnWay(r, w) = {}
    BY <2>3, <2>6 DEF Listings, OnWay
  <2>9. ResponseState(r)
    BY <2>3, <2>7, <2>8 DEF ResponseState
  <2> QED
    BY <2>4, <2>9
<1> QED
  BY <1>1, <1>3, <1>4 DEF ServerInv

LEMMA ServerNextInv == ServerInv /\ [Next]_vars => ServerInv'
<1> SUFFICES ASSUME ServerInv, [Next]_vars PROVE ServerInv'
  OBVIOUS
<1>1. ASSUME NEW r \in Request, Serve(r) PROVE ServerInv'
  BY <1>1, BadRequestInv, RefusedInv, NodeListInv, CoordListInv DEF Serve
<1>2. ASSUME NEW r \in Request, Callbacks(r) PROVE ServerInv'
  BY <1>2, CoordinatesFailedInv, EachWayInv, EndEachInv, AddTagsInv DEF Callbacks
<1>3. ASSUME NEW j \in Job, Pool(j) PROVE ServerInv'
  BY <1>3, PoolInv
<1>4. CASE Terminated
  BY <1>4, StutterInv DEF Terminated
<1>5. CASE UNCHANGED vars
  BY <1>5, StutterInv
<1> QED
  BY <1>1, <1>2, <1>3, <1>4, <1>5 DEF Next

LEMMA ServerInvHolds == Spec => []ServerInv
BY ServerInitInv, ServerNextInv, PTL DEF Spec

(* Every variable keeps its type; in particular async.each never comes     *)
(* further than the end of the route, and no route is called back more     *)
(* often than it has places.                                               *)
THEOREM TypeCorrect == Spec => []TypeOK
<1>1. ServerInv => TypeOK
  <2> SUFFICES ASSUME ServerInv PROVE TypeOK
    OBVIOUS
  <2>1. AsyncInv /\ Types
    BY DEF ServerInv
  <2>2. ASSUME NEW r \in Request
        PROVE  /\ index[r] \in 1 .. (Len(wayIds[r]) + 1)
               /\ completed[r] \in 0 .. Len(wayIds[r])
               /\ response[r].way_indexes \in Seq(Nat)
               /\ response[r].ways_seen \in Seq(Range(ExternalId))
    <3>1. CallState(r)
      BY DEF ServerInv
    <3>2. Cardinality(Done(r)) \in 0 .. Len(wayIds[r])
      BY <2>1, PlacesOfRoute, DoneBounds, PartOfInterval
    <3>3. response[r] \in Bodies
      BY <2>1 DEF Types
    <3> QED
      BY <3>1, <3>2, <3>3 DEF CallState, Bodies, Ids
  <2> QED
    BY <2>1, <2>2 DEF TypeOK, AsyncInv, Types
<1> QED
  BY <1>1, ServerInvHolds, PTL

(* Whatever order the callbacks of a request come in, and those of others  *)
(* between them, one response is sent, after which its body stays.         *)
THEOREM OneAnswer == Spec => AnsweredOnce
<1> DEFINE Kept(r) == UNCHANGED <<status[r], response[r], completed[r]>>
<1>1. ASSUME ServerInv, [Next]_vars, NEW r \in Request, status[r] # "none"
      PROVE  Kept(r)
  <2>1. Types
    BY <1>1 DEF ServerInv
  <2>2. ASSUME NEW q \in Request, Serve(q) PROVE Kept(r)
    <3>1. status[q] = "none"
      BY <1>1, <2>2, BadRequestInv, RefusedInv, NodeListInv, CoordListInv DEF Serve
    <3>2. q # r
      BY <1>1, <3>1
    <3>3. completed' = completed /\ response' = response
      BY <2>2 DEF Serve, BadRequest, Refused, nodeListHandler, coordListHandler
    <3>4. status' = status \/ \E code \in Statuses : status' = [status EXCEPT ![q] = code]
      BY <2>2 DEF Serve, BadRequest, Refused, nodeListHandler, coordListHandler, Send, Statuses
    <3>5. status'[r] = status[r]
      BY <2>1, <3>2, <3>4 DEF Types
    <3> QED
      BY <3>3, <3>5
  <2>3. ASSUME NEW q \in Request, Callbacks(q) PROVE Kept(r)
    <3>1. CASE CoordinatesFailed(q)
      <4>1. q # r
        BY <1>1, <3>1, CoordinatesFailedInv
      <4> QED
        BY <2>1, <3>1, <4>1 DEF CoordinatesFailed, Send, Types
    <3>2. CASE EachWay(q)
      BY <1>1, <3>2, EachWayInv
    <3>3. CASE EndEach(q)
      BY <3>3 DEF EndEach
    <3>4. ASSUME NEW i \in DOMAIN wayIds[q], AddTags(q, i) PROVE Kept(r)
      <4>1. status[q] = "none" /\ \A p \in Request \ {q} : SameRequest(p)
        BY <1>1, <3>4, AddTagsInv
      <4>2. SameRequest(r)
        BY <1>1, <4>1
      <4> QED
        BY <4>2 DEF SameRequest
    <3> QED
      BY <2>3, <3>1, <3>2, <3>3, <3>4 DEF Callbacks
  <2>4. CASE \E j \in Job : Pool(j)
    BY <2>4 DEF Pool, local
  <2>5. CASE UNCHANGED vars
    BY <2>5 DEF vars
  <2> QED
    BY <1>1, <2>2, <2>3, <2>4, <2>5 DEF Next, Terminated
<1>2. ServerInv /\ [Next]_vars
        => [\A r \in Request : status[r] # "none" => Kept(r)]_vars
  BY <1>1
<1> QED
  BY <1>2, ServerInvHolds, PTL DEF Spec, AnsweredOnce

(* A response that is sent has each way of the route once and as many      *)
(* indexes of it as the route has places on it: the last callback to come  *)
(* sends it, and it finds the tags of every other one in the body.         *)
THEOREM ResponseIsWhole == Spec => []ResponseWhole
<1>1. ASSUME ServerInv, NEW r \in Request, status[r] = "200"
      PROVE  LET body == response[r]
                 OnRoute(wid) ==
                   {i \in DOMAIN wayIds[r] : wayIds[r][i] # NoWay /\ ExternalId[wayIds[r][i]] = wid}
                 InResponse(wid) ==
                   {n \in DOMAIN body.way_indexes :
                      body.ways_seen[body.way_indexes[n] + 1] = wid}
             IN  /\ \A k \in Range(body.way_indexes) : k + 1 \in DOMAIN body.ways_seen
                 /\ IsInjective(body.ways_seen)
                 /\ \A wid \in Range(ExternalId) :
                      Cardinality(OnRoute(wid)) = Cardinality(InResponse(wid))
                 /\ Range(body.ways_seen)
                      = {ExternalId[way] : way \in Range(wayIds[r]) \ {NoWay}}
  <2>1. Types /\ CallState(r) /\ ResponseState(r)
    BY <1>1 DEF ServerInv
  <2>2. /\ Len(wayIds[r]) \in Nat /\ 1 .. Len(wayIds[r]) \subseteq Places
        /\ DOMAIN wayIds[r] = 1 .. Len(wayIds[r])
    <3>1. wayIds[r] \in Routes \cup {<<>>}
      BY <2>1 DEF Types
    <3> QED
      BY <2>1, <3>1, PlacesOfRoute, RoutesAssumption, LenProperties, EmptySeq
  <2>3. wayIds[r] # <<>> /\ completed[r] = Len(wayIds[r])
    BY <1>1, <2>1 DEF CallState
  <2>4. Done(r) = 1 .. Len(wayIds[r])
    BY <2>1, <2>2, <2>3, DoneBounds, PartOfInterval DEF CallState
  <2>5. \A i \in TagsCame(r) : wayIds[r][i] # NoWay
    BY <2>1, <2>2 DEF CallState, TagsCame
  <2>6. TagsCame(r) = {i \in DOMAIN wayIds[r] : wayIds[r][i] # NoWay}
    BY <2>2, <2>4, <2>5 DEF Done, TagsCame, PassedOver
  <2>7. {ExternalId[wayIds[r][i]] : i \in TagsCame(r)}
          = {ExternalId[way] : way \in Range(wayIds[r]) \ {NoWay}}
    BY <2>6 DEF Range
  <2>8. \A wid \in Ids :
          OnWay(r, wid)
            = {i \in DOMAIN wayIds[r] : wayIds[r][i] # NoWay /\ ExternalId[wayIds[r][i]] = wid}
    BY <2>6 DEF OnWay
  <2>9. \A k \in Range(response[r].way_indexes) : k + 1 \in DOMAIN response[r].ways_seen
    BY <2>1 DEF ResponseState, Sound, Range
  <2> QED
    BY <2>1, <2>7, <2>8, <2>9 DEF ResponseState, Sound, Listings, Ids
<1>2. ServerInv => ResponseWhole
  BY <1>1 DEF ResponseWhole
<1> QED
  BY <1>2, ServerInvHolds, PTL

(* No request is forgotten: as long as it has no answer one of its calls   *)
(* is under way.  async.each has passed every place of the route when its  *)
(* callback ends, so a place that is not counted by then has a call, which *)
(* has not called back.                                                    *)
THEOREM NoneForgotten == Spec => []NeverForgotten
<1>1. ASSUME ServerInv, NEW r \in Request, handler[r] # "none", status[r] = "none"
      PROVE  \E i \in 0 .. Len(wayIds[r]) : Outstanding(<<r, i>>)
  <2>1. Types /\ CallState(r) /\ AsyncTypeOK
    BY <1>1 DEF ServerInv, AsyncInv
  <2>2. Len(wayIds[r]) \in Nat /\ 1 .. Len(wayIds[r]) \subseteq Places
    BY <2>1, PlacesOfRoute
  <2>3. ASSUME NEW i \in 0 .. Len(wayIds[r]),
               phase[<<r, i>>] \notin {"idle", "threw", "delivered"}
        PROVE  Outstanding(<<r, i>>)
    <3>1. i = 0 \/ i \in 1 .. Len(wayIds[r])
      BY <2>2
    <3>2. i = 0 \/ i \in Places
      BY <2>2, <3>1
    <3>3. <<r, i>> \in Job
      BY <3>2, CallsApart
    <3> QED
      BY <2>1, <2>3, <3>3 DEF Outstanding, AsyncTypeOK, Phases
  <2>4. CASE wayIds[r] = <<>>
    BY <1>1, <2>1, <2>2, <2>4 DEF CallState
  <2>5. CASE wayIds[r] # <<>> /\ phase[<<r, 0>>] # "delivered"
    BY <2>1, <2>2, <2>3, <2>5 DEF CallState
  <2>6. CASE wayIds[r] # <<>> /\ phase[<<r, 0>>] = "delivered"
    <3>1. index[r] = Len(wayIds[r]) + 1 /\ Cardinality(Done(r)) # Len(wayIds[r])
      BY <1>1, <2>1, <2>6 DEF CallState
    <3>2. Done(r) # 1 .. Len(wayIds[r])
      <4>1. \A n \in Nat : Cardinality(1 .. n) = n
        BY FS_Interval
      <4> QED
        BY <2>2, <3>1, <4>1
    <3>3. PICK i \in 1 .. Len(wayIds[r]) : i \notin Done(r)
      BY <3>2 DEF Done, TagsCame, PassedOver
    <3>4. wayIds[r][i] # NoWay /\ phase[<<r, i>>] # "delivered"
      BY <2>2, <3>1, <3>3 DEF Done, TagsCame, PassedOver
    <3>5. phase[<<r, i>>] \notin {"idle", "threw"}
      BY <2>1, <2>2, <3>1, <3>3, <3>4 DEF CallState
    <3> QED
      BY <2>2, <2>3, <3>3, <3>4, <3>5
  <2> QED
    BY <2>4, <2>5, <2>6
<1>2. ServerInv => NeverForgotten
  BY <1>1 DEF NeverForgotten
<1> QED
  BY <1>2, ServerInvHolds, PTL
=============================================================================
