---------------------- MODULE AnnotatorRefinementProofs ----------------------
(***************************************************************************)
(* What the callbacks get, for any number of calls and threads and any     *)
(* databases.  If no query is under way together with a load, every answer *)
(* is, whole, that of one database, also when loads race.  If, besides, no *)
(* load is started while another one is under way, it is that of the data  *)
(* the query was made against, and the Annotator object is a Store.        *)
(***************************************************************************)
EXTENDS AnnotatorRefinement, AnnotatorProofs

(* What the callback of query j would get now, as a reply of the data of l.*)
Replied(j, l) ==
  [ok |-> ~error[j], value |-> IF method[j] \in RouteOps THEN wayIds[j] ELSE tags[j]]
    \in Replies([method |-> method[j], args |-> args[j]], DatabaseOf(l))

(* What route query j has gathered from the data of load l.                *)
RouteState(j, l) ==
  LET db == DatabaseOf(l)
  IN
  /\ phase[j] = "queued" \/ pc[j] \in {"convert", "match", "annotate"} =>
       wayIds[j] = <<>> /\ ~error[j]
  /\ pc[j] = "convert" => method[j] = "annotateRouteFromNodeIds"
  /\ pc[j] = "match" => method[j] = "annotateRouteFromLonLats"
  /\ pc[j] = "annotate" =>
       \/ /\ method[j] = "annotateRouteFromNodeIds"
          /\ ids[j] = external_to_internal(db, args[j])
       \/ /\ method[j] = "annotateRouteFromLonLats" /\ ~db.rtree.null
          /\ ids[j] \in coordinates_to_internal(db, args[j])
  /\ pc[j] \in {"return", "callback", "deliver"} \/ phase[j] = "delivered" => Replied(j, l)

(* What query j for tags has gathered, one tag after the other.            *)
TagState(j, l) ==
  LET db == DatabaseOf(l)
      tagsOf == get_tag_range(db, args[j][1])
      gathered == TagTexts(db, tagsOf.first, range[j].first - tagsOf.first)
  IN
  /\ ~error[j]
  /\ phase[j] = "queued" \/ pc[j] \in {"range", "return", "callback"} => tags[j] = <<>>
  /\ pc[j] \in {"return", "callback"} => range[j] = tagsOf
  /\ pc[j] = "key" => tags[j] = gathered
  /\ pc[j] = "value" => tags[j] = Append(gathered, get_tag_key(db, range[j].first))
  /\ pc[j] = "way id" => tags[j] = TagList(db, args[j][1])
  /\ pc[j] = "deliver" \/ phase[j] = "delivered" => Replied(j, l)

Gathered(j, l) == IF method[j] \in RouteOps THEN RouteState(j, l) ELSE TagState(j, l)

(* Query j is answered from the data of load l: what annotator points to   *)
(* while it is under way, and what it was made against if loads do not     *)
(* race.  What a query has gathered when the behaviour ends with a fault   *)
(* reaches no one.                                                         *)
AnswerFrom(j, l) ==
  /\ Made(l)
  /\ Outstanding(j) => l = annotator
  /\ "load" \notin Habits => l = against[j]
  /\ Gathered(j, l) \/ (Outstanding(j) /\ fault # "none")

(* The inductive invariant.                                                *)
AnswerInv == \A j \in Job : IsQuery(j) => \E l \in Job : AnswerFrom(j, l)

-----------------------------------------------------------------------------
(* The texts of the tags of a way.                                         *)

LEMMA NoTagTexts ==
  ASSUME NEW db, NEW first, NEW n \in Int, n <= 0
  PROVE  TagTexts(db, first, n) = <<>>
<1>1. 1 .. 2 * n = {}
  OBVIOUS
<1> QED
  BY <1>1 DEF TagTexts

LEMMA TagTextsGrow ==
  ASSUME NEW db, NEW first \in Nat, NEW n \in Nat
  PROVE  TagTexts(db, first, n + 1)
           = Append(Append(TagTexts(db, first, n), get_tag_key(db, first + n)),
                    get_tag_value(db, first + n))
<1> DEFINE Text(i) == IF i % 2 = 1 THEN get_tag_key(db, first + i \div 2)
                                   ELSE get_tag_value(db, first + i \div 2 - 1)
           old == TagTexts(db, first, n)
           key == get_tag_key(db, first + n)
           value == get_tag_value(db, first + n)
<1>1. old = [i \in 1 .. 2 * n |-> Text(i)]
      /\ TagTexts(db, first, n + 1) = [i \in 1 .. (2 * n + 2) |-> Text(i)]
  <2>1. 2 * (n + 1) = 2 * n + 2
    OBVIOUS
  <2> QED
    BY <2>1 DEF TagTexts
<1>2. Text(2 * n + 1) = key /\ Text(2 * n + 2) = value
  <2>1. /\ (2 * n + 1) % 2 = 1 /\ (2 * n + 1) \div 2 = n
        /\ (2 * n + 2) % 2 = 0 /\ first + (2 * n + 2) \div 2 - 1 = first + n
    OBVIOUS
  <2> QED
    BY <2>1
<1> HIDE DEF Text, old, key, value
<1> DEFINE Known == {Text(i) : i \in 1 .. (2 * n + 2)} \cup {key, value}
           m == 2 * n
<1>3. m \in Nat /\ \A i \in 1 .. (m + 2) : Text(i) \in Known
  OBVIOUS
<1>4. key \in Known /\ value \in Known
  OBVIOUS
<1>5. old = [i \in 1 .. m |-> Text(i)] /\ TagTexts(db, first, n + 1) = [i \in 1 .. (m + 2) |-> Text(i)]
      /\ Text(m + 1) = key /\ Text(m + 2) = value
  BY <1>1, <1>2
<1> HIDE DEF Known, m
<1>6. old \in Seq(Known) /\ Len(old) = m
  <2>1. \A i \in 1 .. m : Text(i) \in Known
    BY <1>3
  <2>2. old \in [1 .. m -> Known]
    BY <1>5, <2>1
  <2> QED
    BY <1>3, <2>2
<1> DEFINE mid == Append(old, key)
           new == Append(mid, value)
<1>7. /\ mid \in Seq(Known) /\ Len(mid) = m + 1 /\ mid[m + 1] = key
      /\ \A i \in 1 .. m : mid[i] = old[i]
  BY <1>4, <1>6, AppendProperties
<1> HIDE DEF mid
<1>8. /\ new \in Seq(Known) /\ Len(new) = m + 2 /\ new[m + 2] = value
      /\ \A i \in 1 .. (m + 1) : new[i] = mid[i]
  <2>1. new \in Seq(Known) /\ Len(new) = Len(mid) + 1 /\ new[Len(mid) + 1] = value
        /\ \A i \in 1 .. Len(mid) : new[i] = mid[i]
    BY <1>4, <1>7, AppendProperties
  <2>2. Len(mid) + 1 = m + 2
    BY <1>3, <1>7
  <2> HIDE DEF new
  <2> QED
    BY <1>7, <2>1, <2>2
<1> HIDE DEF new
<1>9. \A i \in 1 .. (m + 2) : new[i] = Text(i)
  <2>1. \A i \in 1 .. (m + 2) : i \in 1 .. m \/ i = m + 1 \/ i = m + 2
    BY <1>3
  <2>2. m + 1 \in 1 .. (m + 1) /\ \A i \in 1 .. m : i \in 1 .. (m + 1)
    BY <1>3
  <2> QED
    BY <1>5, <1>7, <1>8, <2>1, <2>2
<1>10. new = [i \in 1 .. (m + 2) |-> Text(i)]
  <2>1. DOMAIN new = 1 .. (m + 2) /\ new \in [1 .. (m + 2) -> Known]
    BY <1>8, LenProperties
  <2> QED
    BY <1>9, <2>1
<1> QED
  BY <1>5, <1>10 DEF new, mid, old, key, value

-----------------------------------------------------------------------------
(* The answers of other queries stay what they are.                        *)
LEMMA OtherAnswers ==
  ASSUME ShapeInv, NEW j \in Job, Apart(j), SameCalls, fault = "none",
         NEW k \in Job \ {j}, NEW l \in Job, AnswerFrom(k, l),
         Outstanding(k) => annotator' = annotator
  PROVE  AnswerFrom(k, l)'
<1>1. /\ phase'[k] = phase[k] /\ method'[k] = method[k] /\ args'[k] = args[k] /\ pc'[k] = pc[k]
      /\ range'[k] = range[k] /\ wayIds'[k] = wayIds[k] /\ error'[k] = error[k]
      /\ ids'[k] = ids[k] /\ tags'[k] = tags[k] /\ against'[k] = against[k]
  BY DEF Apart
<1>2. Made(l)' /\ DatabaseOf(l)' = DatabaseOf(l)
  BY MadeKept DEF AnswerFrom
<1>3. Replied(k, l)' <=> Replied(k, l)
  BY <1>1, <1>2 DEF Replied, Replies, Answers
<1>4. RouteState(k, l)' <=> RouteState(k, l)
  BY <1>1, <1>2, <1>3 DEF RouteState
<1>5. TagState(k, l)' <=> TagState(k, l)
  BY <1>1, <1>2, <1>3 DEF TagState
<1>6. Gathered(k, l)' <=> Gathered(k, l)
  BY <1>1, <1>4, <1>5 DEF Gathered
<1> QED
  BY <1>1, <1>2, <1>6 DEF AnswerFrom, Outstanding

(* A step of call j that keeps what concerns j keeps the invariant.        *)
LEMMA AnswerStep ==
  ASSUME ShapeInv, QueryInv, AnswerInv, NEW j \in Job, Apart(j), SameCalls, fault = "none",
         annotator' = annotator \/ Loading(j),
         IsQuery(j)' => \E l \in Job : AnswerFrom(j, l)'
  PROVE  AnswerInv'
<1>1. ASSUME NEW k \in Job \ {j}, IsQuery(k)' PROVE \E l \in Job : AnswerFrom(k, l)'
  <2>1. IsQuery(k)
    BY <1>1 DEF Apart, IsQuery
  <2>2. PICK l \in Job : AnswerFrom(k, l)
    BY <2>1 DEF AnswerInv
  <2>3. Outstanding(k) => annotator' = annotator
    BY <2>1 DEF QueryInv, Separate, IsLoad, IsQuery, QueryOps, RouteOps
  <2> QED
    BY <2>2, <2>3, OtherAnswers
<1> QED
  BY <1>1 DEF AnswerInv

(* What query j is answered, as the abstract object answers it.            *)
LEMMA ReplyGiven ==
  ASSUME NEW db, NEW m, NEW a, NEW v \in Answers(db, m, a),
         m = "annotateRouteFromLonLats" => ~db.rtree.null
  PROVE  [ok |-> TRUE, value |-> v] \in Replies([method |-> m, args |-> a], db)
<1>1. ~(m = "annotateRouteFromLonLats" /\ db.rtree.null)
  OBVIOUS
<1> QED
  BY <1>1 DEF Replies

(* A lookup adds what it finds in the data the query is answered from.     *)
LEMMA LookupAnswers ==
  ASSUME ShapeInv, QueryInv, AnswerInv, NEW j \in Job, Lookup(j), fault = "none",
         Apart(j), SameCalls
  PROVE  AnswerInv'
<1> USE DEF asyncVars, fields, heap, calls, locals, results, client
<1>1. /\ pc[j] \in Uses /\ IsQuery(j) /\ phase[j] \in {"running", "callback"} /\ Outstanding(j)
      /\ UNCHANGED <<asyncVars, fields, heap, calls, locals, client>>
  BY StepPhases DEF Outstanding
<1>2. PICK l \in Job : AnswerFrom(j, l)
  BY <1>1 DEF AnswerInv
<1> DEFINE db == DatabaseOf(l)
<1>3. /\ Made(l) /\ Made(l)' /\ l = annotator /\ WellFormed(db) /\ DatabaseOf(l)' = db
      /\ Gathered(j, l) /\ ("load" \notin Habits => l = against[j])
  BY <1>1, <1>2, MadeKept DEF AnswerFrom
<1>4. /\ Types /\ Domains /\ Shape(j) /\ QueryState(j) /\ ptr[j] \in {Unread, l}
  BY <1>1, <1>3 DEF ShapeInv, NullInv, QueryInv, QueryState
<1>5. ASSUME Gathered(j, l)' \/ fault' # "none" PROVE AnswerInv'
  <2>1. AnswerFrom(j, l)'
    BY <1>1, <1>3, <1>5 DEF AnswerFrom, Outstanding
  <2> QED
    BY <1>1, <2>1, AnswerStep
<1>6. ASSUME ptr[j] # Unread PROVE Target(j) = db
  BY <1>4, <1>6 DEF Target
<1>7. CASE Fetch(j)
  <2>1. UNCHANGED <<pc, results>>
    BY <1>7 DEF Fetch
  <2>2. Gathered(j, l)'
    BY <1>1, <1>3, <2>1 DEF Gathered, RouteState, TagState, Replied
  <2> QED
    BY <1>5, <2>2
<1>8. CASE UseFails(j)
  BY <1>5, <1>8 DEF UseFails
<1>9. ASSUME pc[j] \in {"convert", "match", "annotate"} PROVE method[j] \in RouteOps /\ RouteState(j, l)
  BY <1>3, <1>4, <1>9 DEF Shape, Gathered
<1>10. CASE ConvertNodeIds(j)
  <2>1. pc[j] = "convert" /\ Target(j) = db
    BY <1>6, <1>10 DEF ConvertNodeIds, Use
  <2>2. method[j] = "annotateRouteFromNodeIds" /\ wayIds[j] = <<>> /\ ~error[j]
    BY <1>9, <2>1 DEF RouteState
  <2>3. /\ ids'[j] = external_to_internal(db, args[j]) /\ pc'[j] = "annotate"
        /\ UNCHANGED <<wayIds, error>>
    BY <1>4, <1>10, <2>1 DEF ConvertNodeIds, Goto, Types, Domains
  <2>4. RouteState(j, l)'
    BY <1>1, <1>3, <2>2, <2>3 DEF RouteState
  <2> QED
    BY <1>1, <1>5, <1>9, <2>1, <2>4 DEF Gathered
<1>11. CASE MatchPoints(j)
  <2>1. pc[j] = "match" /\ Target(j) = db
    BY <1>6, <1>11 DEF MatchPoints, Use
  <2>2. method[j] = "annotateRouteFromLonLats" /\ wayIds[j] = <<>> /\ ~error[j]
    BY <1>9, <2>1 DEF RouteState
  <2>3. CASE db.rtree.null
    <3>1. error'[j] = TRUE /\ pc'[j] = "return"
      BY <1>4, <1>11, <2>1, <2>3 DEF MatchPoints, Goto, Types
    <3>2. [ok |-> FALSE, value |-> <<>>] \in Replies([method |-> method[j], args |-> args[j]], db)
      BY <2>2, <2>3 DEF Replies
    <3>3. UNCHANGED wayIds
      BY <1>11 DEF MatchPoints
    <3>4. Replied(j, l)'
      BY <1>1, <1>3, <2>2, <3>1, <3>2, <3>3 DEF Replied, RouteOps
    <3>5. RouteState(j, l)'
      BY <1>1, <1>3, <3>1, <3>4 DEF RouteState
    <3> QED
      BY <1>1, <1>5, <1>9, <2>1, <3>5 DEF Gathered
  <2>4. CASE ~db.rtree.null
    <3>1. /\ ids'[j] \in coordinates_to_internal(db, args[j]) /\ pc'[j] = "annotate"
          /\ UNCHANGED <<wayIds, error>>
      BY <1>4, <1>11, <2>1, <2>4 DEF MatchPoints, Goto, Types, Domains
    <3>2. RouteState(j, l)'
      BY <1>1, <1>3, <2>2, <2>4, <3>1 DEF RouteState
    <3> QED
      BY <1>1, <1>5, <1>9, <2>1, <3>2 DEF Gathered
  <2> QED
    BY <2>3, <2>4
<1>12. CASE AnnotateRoute(j)
  <2>1. pc[j] = "annotate" /\ Target(j) = db
    BY <1>6, <1>12 DEF AnnotateRoute, Use
  <2>2. /\ method[j] \in RouteOps /\ ~error[j]
        /\ \/ /\ method[j] = "annotateRouteFromNodeIds"
              /\ ids[j] = external_to_internal(db, args[j])
           \/ /\ method[j] = "annotateRouteFromLonLats" /\ ~db.rtree.null
              /\ ids[j] \in coordinates_to_internal(db, args[j])
    BY <1>9, <2>1 DEF RouteState
  <2>3. wayIds'[j] = annotateRoute(db, ids[j]) /\ pc'[j] = "return" /\ UNCHANGED error
    BY <1>4, <1>12, <2>1 DEF AnnotateRoute, Goto, Types, Domains
  <2>4. wayIds'[j] \in Answers(db, method[j], args[j])
    BY <2>2, <2>3 DEF Answers
  <2>5. [ok |-> TRUE, value |-> wayIds'[j]] \in Replies([method |-> method[j], args |-> args[j]], db)
    BY <2>2, <2>4, ReplyGiven
  <2>6. Replied(j, l)'
    BY <1>1, <1>3, <2>2, <2>3, <2>5 DEF Replied
  <2>7. RouteState(j, l)'
    BY <1>1, <1>3, <2>3, <2>6 DEF RouteState
  <2> QED
    BY <1>1, <1>5, <1>9, <2>1, <2>7 DEF Gathered
<1> DEFINE tagsOf == get_tag_range(db, args[j][1])
           gathered == TagTexts(db, tagsOf.first, range[j].first - tagsOf.first)
<1>13. ASSUME pc[j] \in {"range", "key", "value", "way id"}
       PROVE  /\ method[j] = "getAllTagsForWayId" /\ method[j] \notin RouteOps
              /\ args[j][1] \in Nat /\ TagState(j, l) /\ error[j] = FALSE
              /\ get_tag_range(DatabaseOf(l), args[j][1])' = tagsOf
  <2>1. method[j] = "getAllTagsForWayId" /\ method[j] \notin RouteOps /\ args[j][1] \in Nat
    BY <1>4, <1>13 DEF Shape, SomeWay, RouteOps
  <2>2. TagState(j, l)
    BY <1>3, <2>1 DEF Gathered
  <2>3. get_tag_range(DatabaseOf(l), args[j][1])' = tagsOf
    BY <1>1, <1>3 DEF get_tag_range
  <2> QED
    BY <1>4, <2>1, <2>2, <2>3 DEF TagState, Types
<1>14. ASSUME pc[j] \in {"range", "key", "value", "way id"}, TagState(j, l)' PROVE AnswerInv'
  <2>1. method'[j] \notin RouteOps
    BY <1>1, <1>13, <1>14
  <2> QED
    BY <1>5, <1>14, <2>1 DEF Gathered
<1>15. ASSUME pc[j] \in {"key", "value"}
       PROVE  /\ range[j] \in [first : Nat, second : Nat] /\ HasTag(db, range[j].first)
              /\ tagsOf \in [first : Nat, second : Nat]
              /\ tagsOf.first <= range[j].first /\ range[j].first < range[j].second
              /\ range[j].second = tagsOf.second
  <2>1. /\ range[j].first < range[j].second /\ HasWay(db, args[j][1])
        /\ range[j] \in [first : Nat, second : Nat]
        /\ range[j].second = tagsOf.second
        /\ tagsOf.first <= range[j].first
    BY <1>3, <1>4, <1>13, <1>15 DEF QueryState, HasRange
  <2>2. /\ tagsOf \in [first : Nat, second : Nat]
        /\ \A index \in Nat : tagsOf.first <= index /\ index < tagsOf.second => HasTag(db, index)
    BY <1>3, <1>13, <1>15, <2>1, TagsInRange
  <2> QED
    BY <2>1, <2>2
<1>16. CASE GetTagRange(j)
  <2>1. pc[j] = "range" /\ Target(j) = db
    BY <1>6, <1>16 DEF GetTagRange, Use
  <2>2. CASE ~HasWay(db, args[j][1])
    BY <1>5, <1>16, <2>1, <2>2 DEF GetTagRange
  <2>3. CASE HasWay(db, args[j][1])
    <3>1. range'[j] = tagsOf /\ pc'[j] = "return" /\ UNCHANGED <<tags, error>>
      BY <1>4, <1>16, <2>1, <2>3 DEF GetTagRange, Goto, Types, Domains
    <3>2. tags'[j] = <<>> /\ error'[j] = FALSE
      BY <1>13, <2>1, <3>1 DEF TagState
    <3>3. TagState(j, l)'
      BY <1>1, <1>3, <1>13, <2>1, <3>1, <3>2 DEF TagState
    <3> QED
      BY <1>14, <2>1, <3>3
  <2> QED
    BY <2>2, <2>3
<1>17. CASE GetTagKey(j)
  <2>1. pc[j] = "key" /\ Target(j) = db
    BY <1>6, <1>17 DEF GetTagKey, Use
  <2>2. /\ tags' = [tags EXCEPT ![j] = Append(@, get_tag_key(db, range[j].first))]
        /\ pc'[j] = "value" /\ UNCHANGED <<range, error>>
    BY <1>4, <1>15, <1>17, <2>1 DEF GetTagKey, Goto, Types
  <2>3. tags[j] = gathered
    BY <1>13, <2>1 DEF TagState
  <2>4. tags'[j] = Append(gathered, get_tag_key(db, range[j].first)) /\ error'[j] = FALSE
    BY <1>4, <1>13, <2>1, <2>2, <2>3 DEF Domains
  <2>5. TagState(j, l)'
    BY <1>1, <1>3, <1>13, <2>1, <2>2, <2>4 DEF TagState
  <2> QED
    BY <1>14, <2>1, <2>5
<1>18. CASE GetTagValue(j)
  <2>1. pc[j] = "value" /\ Target(j) = db
    BY <1>6, <1>18 DEF GetTagValue, Use
  <2>2. /\ tags' = [tags EXCEPT ![j] = Append(@, get_tag_value(db, range[j].first))]
        /\ range' = [range EXCEPT ![j].first = @ + 1]
        /\ pc' = [pc EXCEPT ![j] = NextTag(range'[j])] /\ UNCHANGED error
    BY <1>15, <1>18, <2>1 DEF GetTagValue, Goto
  <2>3. pc'[j] = NextTag(range'[j])
    BY <1>4, <2>2 DEF Types
  <2>4. /\ range'[j].first = range[j].first + 1 /\ range'[j].second = tagsOf.second
        /\ range[j].first \in Nat /\ tagsOf.first \in Nat /\ tagsOf.second \in Nat
        /\ tagsOf.first <= range[j].first /\ range[j].first < tagsOf.second
    BY <1>4, <1>15, <2>1, <2>2 DEF Domains
  <2>5. tags[j] = Append(gathered, get_tag_key(db, range[j].first))
    BY <1>13, <2>1 DEF TagState
  <2>6. tags'[j] = TagTexts(db, tagsOf.first, range'[j].first - tagsOf.first)
    <3>1. PICK n \in Nat : n = range[j].first - tagsOf.first
      BY <2>4
    <3>2. tagsOf.first + n = range[j].first /\ n + 1 = range'[j].first - tagsOf.first
      BY <2>4, <3>1
    <3>3. TagTexts(db, tagsOf.first, n + 1)
            = Append(Append(TagTexts(db, tagsOf.first, n), get_tag_key(db, range[j].first)),
                     get_tag_value(db, range[j].first))
      BY <2>4, <3>2, TagTextsGrow
    <3> QED
      BY <1>4, <2>2, <2>5, <3>1, <3>2, <3>3 DEF Domains
  <2>7. CASE range'[j].first < range'[j].second
    <3>1. pc'[j] = "key" /\ error'[j] = FALSE
      BY <1>13, <2>1, <2>2, <2>3, <2>7 DEF NextTag
    <3>2. TagState(j, l)'
      BY <1>1, <1>3, <1>13, <2>1, <2>6, <3>1 DEF TagState
    <3> QED
      BY <1>14, <2>1, <3>2
  <2>8. CASE ~(range'[j].first < range'[j].second)
    <3>1. pc'[j] = "way id" /\ error'[j] = FALSE
      BY <1>13, <2>1, <2>2, <2>3, <2>8 DEF NextTag
    <3>2. range'[j].first = tagsOf.second
      BY <2>4, <2>8
    <3>3. tags'[j] = TagList(db, args[j][1])
      BY <2>6, <3>2 DEF TagList
    <3>4. TagState(j, l)'
      BY <1>1, <1>3, <1>13, <2>1, <3>1, <3>3 DEF TagState
    <3> QED
      BY <1>14, <2>1, <3>4
  <2> QED
    BY <2>7, <2>8
<1>19. CASE GetExternalWayId(j)
  <2>1. pc[j] = "way id" /\ Target(j) = db
    BY <1>6, <1>19 DEF GetExternalWayId, Use
  <2> DEFINE number == to_string(get_external_way_id(db, args[j][1]))
  <2>2. CASE ~HasWay(db, args[j][1])
    BY <1>5, <1>19, <2>1, <2>2 DEF GetExternalWayId
  <2>3. CASE HasWay(db, args[j][1])
    <3>1. /\ tags' = [tags EXCEPT ![j] = Append(@, number)] /\ pc'[j] = "deliver" /\ UNCHANGED error
      BY <1>4, <1>19, <2>1, <2>3 DEF GetExternalWayId, Goto, Types
    <3>2. tags[j] = TagList(db, args[j][1])
      BY <1>13, <2>1 DEF TagState
    <3>3. tags'[j] = Append(TagList(db, args[j][1]), number) /\ error'[j] = FALSE
      BY <1>4, <1>13, <2>1, <3>1, <3>2 DEF Domains
    <3>4. tags'[j] \in Answers(db, method[j], args[j])
      BY <1>13, <2>1, <2>3, <3>3 DEF Answers
    <3>5. [ok |-> TRUE, value |-> tags'[j]] \in Replies([method |-> method[j], args |-> args[j]], db)
      BY <1>13, <2>1, <3>4, ReplyGiven
    <3>6. Replied(j, l)'
      BY <1>1, <1>3, <1>13, <2>1, <3>3, <3>5 DEF Replied
    <3>7. TagState(j, l)'
      BY <1>1, <1>3, <1>13, <2>1, <3>1, <3>3, <3>6 DEF TagState
    <3> QED
      BY <1>14, <2>1, <3>7
  <2> QED
    BY <2>2, <2>3
<1> QED
  BY <1>7, <1>8, <1>10, <1>11, <1>12, <1>16, <1>17, <1>18, <1>19 DEF Lookup

(* A load takes part in no query.                                          *)
LEMMA LoadAnswers ==
  ASSUME ShapeInv, QueryInv, AnswerInv, NEW j \in Job, Load(j), fault = "none",
         Apart(j), SameCalls
  PROVE  AnswerInv'
<1>1. Loading(j) /\ ~IsQuery(j)'
  BY StepPhases DEF Loading, Outstanding, IsLoad, IsQuery, QueryOps, RouteOps, calls
<1> QED
  BY <1>1, AnswerStep

(* A query is made of what is in place then, which no load under way could *)
(* replace: what was reported last, if loads do not race.                  *)
LEMMA CallAnswers ==
  ASSUME ShapeInv, QueryInv, "load" \notin Habits => LoadsInv, AnswerInv, "query" \notin Habits,
         NEW j \in Job, Call(j), fault = "none", Apart(j), SameCalls
  PROVE  AnswerInv'
<1> USE DEF fields, heap, calls, locals, results, client
<1>1. /\ AsyncTypeOK /\ Types /\ Domains /\ Shape(j) /\ phase[j] = "idle" /\ pc[j] = "none"
      /\ wayIds[j] = <<>> /\ tags[j] = <<>> /\ error[j] = FALSE /\ method[j] = "none"
      /\ UNCHANGED <<fields, pc, results>>
  <2>1. phase[j] = "idle"
    BY StepPhases
  <2>2. UNCHANGED <<fields, pc, results>>
    BY DEF Call, RejectArguments, loadOSMExtract, Query
  <2> QED
    BY <2>1, <2>2 DEF ShapeInv, NullInv, Shape, Types
<1>2. ASSUME ~IsQuery(j)' PROVE AnswerInv'
  BY <1>1, <1>2, AnswerStep
<1>3. CASE RejectArguments(j)
  <2>1. method'[j] = "none"
    BY <1>1, <1>3 DEF RejectArguments
  <2> QED
    BY <1>2, <2>1 DEF IsQuery, QueryOps, RouteOps
<1>4. ASSUME NEW e \in Extract, loadOSMExtract(j, e)
      PROVE  AnswerInv'
  <2>1. method'[j] = "loadOSMExtract"
    BY <1>1, <1>4 DEF loadOSMExtract, Types
  <2> QED
    BY <1>2, <2>1 DEF IsQuery, QueryOps, RouteOps
<1>5. ASSUME NEW m \in QueryOps, NEW a, Query(j, m, a)
      PROVE  AnswerInv'
  <2>1. CASE ~HasData
    <3>1. method'[j] = "none"
      BY <1>1, <1>5, <2>1 DEF Query
    <3> QED
      BY <1>2, <3>1 DEF IsQuery, QueryOps, RouteOps
  <2>2. CASE HasData
    <3>1. /\ phase'[j] = "queued" /\ method'[j] = m /\ against'[j] = loaded /\ ~LoadUnderWay
      BY <1>1, <1>5, <2>2 DEF Query, Enqueue, AsyncTypeOK, Types, Domains
    <3>2. PICK l \in Job : l = annotator /\ Made(l)
      <4>1. Made(annotator)
        BY <2>2 DEF ShapeInv, Objects, HasData
      <4> QED
        BY <4>1 DEF Made
    <3>3. Made(l)'
      BY <3>2, MadeKept
    <3>4. "load" \notin Habits => l = against'[j]
      BY <3>1, <3>2 DEF LoadsInv, Owns
    <3>5. RouteState(j, l)' /\ TagState(j, l)'
      BY <1>1, <3>1 DEF RouteState, TagState
    <3>6. AnswerFrom(j, l)'
      BY <1>1, <3>2, <3>3, <3>4, <3>5 DEF AnswerFrom, Gathered
    <3> QED
      BY <1>1, <3>6, AnswerStep
  <2> QED
    BY <2>1, <2>2
<1> QED
  BY <1>3, <1>4, <1>5 DEF Call, QueryOps, RouteOps

(* What a query has gathered is what its callback gets.                    *)
LEMMA WorkerAnswers ==
  ASSUME ShapeInv, QueryInv, AnswerInv, NEW j \in Job, fault = "none", Apart(j), SameCalls,
         Execute(j) \/ Return(j) \/ EnterCallback(j) \/ Deliver(j)
  PROVE  AnswerInv'
<1> USE DEF fields, heap, calls, locals, results, client, Goto
<1>1. /\ AsyncTypeOK /\ Types /\ Domains /\ Outstanding(j)
      /\ UNCHANGED <<fields, heap, calls, ptr, locals, results, fault, against>>
  BY StepPhases DEF ShapeInv, NullInv, Outstanding
<1>2. CASE ~IsQuery(j)
  <2>1. ~IsQuery(j)'
    BY <1>1, <1>2 DEF IsQuery
  <2> QED
    BY <1>1, <2>1, AnswerStep
<1>3. CASE IsQuery(j)
  <2>1. PICK l \in Job : AnswerFrom(j, l)
    BY <1>3 DEF AnswerInv
  <2>2. /\ Made(l) /\ Made(l)' /\ l = annotator /\ DatabaseOf(l)' = DatabaseOf(l)
        /\ Gathered(j, l) /\ ("load" \notin Habits => l = against[j])
    BY <1>1, <2>1, MadeKept DEF AnswerFrom
  <2>3. ASSUME Gathered(j, l)' PROVE AnswerInv'
    <3>1. AnswerFrom(j, l)'
      BY <1>1, <2>2, <2>3 DEF AnswerFrom
    <3> QED
      BY <1>1, <3>1, AnswerStep
  <2>4. Replied(j, l)' <=> Replied(j, l)
    BY <1>1, <2>2 DEF Replied, Replies, Answers
  <2>5. ASSUME method[j] \in RouteOps PROVE RouteState(j, l) /\ (RouteState(j, l)' => AnswerInv')
    BY <1>1, <2>2, <2>3, <2>5 DEF Gathered
  <2>6. ASSUME method[j] \notin RouteOps PROVE TagState(j, l) /\ (TagState(j, l)' => AnswerInv')
    BY <1>1, <2>2, <2>3, <2>6 DEF Gathered
  <2>7. CASE Execute(j)
    <3>1. phase[j] = "queued" /\ phase'[j] = "running" /\ pc'[j] = FirstStep(method[j])
      BY <1>1, <2>7, StepPhases DEF Execute, Begin, AsyncTypeOK, Types
    <3>2. CASE method[j] \in RouteOps
      <4>1. /\ pc'[j] \in {"convert", "match"}
            /\ pc'[j] = "convert" => method[j] = "annotateRouteFromNodeIds"
            /\ pc'[j] = "match" => method[j] = "annotateRouteFromLonLats"
        BY <3>1, <3>2 DEF FirstStep, RouteOps
      <4>2. RouteState(j, l)'
        BY <1>1, <2>2, <2>5, <3>1, <3>2, <4>1 DEF RouteState
      <4> QED
        BY <2>5, <3>2, <4>2
    <3>3. CASE method[j] \notin RouteOps
      <4>1. pc'[j] = "range"
        BY <1>3, <3>1, <3>3 DEF FirstStep, IsQuery, QueryOps, RouteOps
      <4>2. TagState(j, l)'
        BY <1>1, <2>2, <2>6, <3>1, <3>3, <4>1 DEF TagState
      <4> QED
        BY <2>6, <3>3, <4>2
    <3> QED
      BY <3>2, <3>3
  <2>8. CASE Return(j)
    <3>1. pc[j] = "return" /\ pc'[j] = "callback" /\ phase'[j] = "completed"
      BY <1>1, <2>8 DEF Return, Finish, AsyncTypeOK, Types
    <3>2. method[j] \in RouteOps => RouteState(j, l)'
      BY <1>1, <2>2, <2>4, <2>5, <3>1 DEF RouteState
    <3>3. method[j] \notin RouteOps => TagState(j, l)'
      BY <1>1, <2>2, <2>4, <2>6, <3>1 DEF TagState
    <3> QED
      BY <2>5, <2>6, <3>2, <3>3
  <2>9. CASE EnterCallback(j)
    <3>1. /\ pc[j] = "callback" /\ phase'[j] = "callback"
          /\ pc'[j] = IF method[j] = "getAllTagsForWayId" THEN NextTag(range[j]) ELSE "deliver"
      BY <1>1, <2>9, StepPhases DEF EnterCallback, StartCallback, AsyncTypeOK, Types
    <3>2. CASE method[j] \in RouteOps
      <4>1. pc'[j] = "deliver"
        BY <3>1, <3>2 DEF RouteOps
      <4>2. RouteState(j, l)'
        BY <1>1, <2>2, <2>4, <2>5, <3>1, <3>2, <4>1 DEF RouteState
      <4> QED
        BY <2>5, <3>2, <4>2
    <3>3. CASE method[j] \notin RouteOps
      <4> DEFINE db == DatabaseOf(l)
                 tagsOf == get_tag_range(db, args[j][1])
      <4>1. method[j] = "getAllTagsForWayId"
        BY <1>3, <3>3 DEF IsQuery, QueryOps
      <4>2. tags[j] = <<>> /\ range[j] = tagsOf /\ ~error[j]
        BY <2>6, <3>1, <3>3 DEF TagState
      <4>3. range[j] \in [first : Nat, second : Nat]
        BY <1>1, <1>3, <3>1, <4>1 DEF QueryInv, QueryState, HasRange
      <4>4. CASE range[j].first < range[j].second
        <5>1. pc'[j] = "key"
          BY <3>1, <4>1, <4>4 DEF NextTag
        <5>2. TagTexts(db, tagsOf.first, range[j].first - tagsOf.first) = <<>>
          BY <4>2, <4>3, NoTagTexts
        <5>3. TagState(j, l)'
          BY <1>1, <2>2, <3>1, <4>2, <5>1, <5>2 DEF TagState
        <5> QED
          BY <2>6, <3>3, <5>3
      <4>5. CASE ~(range[j].first < range[j].second)
        <5>1. pc'[j] = "way id"
          BY <3>1, <4>1, <4>5 DEF NextTag
        <5>2. TagList(db, args[j][1]) = <<>>
          <6>1. tagsOf.second - tagsOf.first \in Int /\ tagsOf.second - tagsOf.first <= 0
            BY <4>2, <4>3, <4>5
          <6> QED
            BY <6>1, NoTagTexts DEF TagList
        <5>3. TagState(j, l)'
          BY <1>1, <2>2, <3>1, <4>2, <5>1, <5>2 DEF TagState
        <5> QED
          BY <2>6, <3>3, <5>3
      <4> QED
        BY <4>4, <4>5
    <3> QED
      BY <3>2, <3>3
  <2>10. CASE Deliver(j)
    <3>1. pc[j] = "deliver" /\ pc'[j] = "none" /\ phase'[j] = "delivered"
      BY <1>1, <2>10 DEF Deliver, EndCallback, AsyncTypeOK, Types
    <3>2. method[j] \in RouteOps => RouteState(j, l)'
      BY <1>1, <2>2, <2>4, <2>5, <3>1 DEF RouteState
    <3>3. method[j] \notin RouteOps => TagState(j, l)'
      BY <1>1, <2>2, <2>4, <2>6, <3>1 DEF TagState
    <3> QED
      BY <2>5, <2>6, <3>2, <3>3
  <2> QED
    BY <2>7, <2>8, <2>9, <2>10
<1> QED
  BY <1>2, <1>3

(* No query has been made of a new object.                                 *)
LEMMA InitAnswers == Init => AnswerInv
BY DEF Init, AnswerInv, IsQuery, QueryOps, RouteOps

(* A step that changes nothing keeps the invariant.                        *)
LEMMA StutterAnswers ==
  ASSUME AnswerInv, UNCHANGED vars
  PROVE  AnswerInv'
<1> USE DEF vars, asyncVars, fields, heap, calls, locals, results, client
<1>1. ASSUME NEW j \in Job, NEW l \in Job PROVE AnswerFrom(j, l)' <=> AnswerFrom(j, l)
  <2>1. DatabaseOf(l)' = DatabaseOf(l) /\ (Made(l)' <=> Made(l))
    BY DEF DatabaseOf, Made, IsLoad
  <2>2. Replied(j, l)' <=> Replied(j, l)
    BY <2>1 DEF Replied
  <2>3. RouteState(j, l)' <=> RouteState(j, l)
    BY <2>1, <2>2 DEF RouteState
  <2>4. TagState(j, l)' <=> TagState(j, l)
    BY <2>1, <2>2 DEF TagState
  <2> QED
    BY <2>1, <2>3, <2>4 DEF AnswerFrom, Gathered, Outstanding
<1>2. \A j \in Job : IsQuery(j)' <=> IsQuery(j)
  BY DEF IsQuery
<1> QED
  BY <1>1, <1>2 DEF AnswerInv

LEMMA NextAnswers ==
  ASSUME ShapeInv, QueryInv, "load" \notin Habits => LoadsInv, AnswerInv, "query" \notin Habits,
         [Next]_vars
  PROVE  AnswerInv'
<1>1. CASE UNCHANGED vars
  BY <1>1, StutterAnswers
<1>2. ASSUME NEW j \in Job, fault = "none", Call(j) PROVE AnswerInv'
  BY <1>2, StepApart, CallAnswers
<1>3. ASSUME NEW j \in Job, Work(j) PROVE AnswerInv'
  BY <1>3, StepApart, LoadAnswers, LookupAnswers, WorkerAnswers DEF Work
<1> QED
  BY <1>1, <1>2, <1>3 DEF Next, Terminated

LEMMA AnswerInvHolds ==
  ASSUME "query" \notin Habits
  PROVE  Spec => []AnswerInv
<1>1. (Spec => []ShapeInv) /\ (Spec => []QueryInv)
  BY ShapeInvHolds, QueryInvHolds
<1>2. CASE "load" \in Habits
  <2>1. ShapeInv /\ QueryInv /\ AnswerInv /\ [Next]_vars => AnswerInv'
    BY <1>2, NextAnswers
  <2> QED
    BY <1>1, <2>1, InitAnswers, PTL DEF Spec
<1>3. CASE "load" \notin Habits
  <2>1. ShapeInv /\ QueryInv /\ LoadsInv /\ AnswerInv /\ [Next]_vars => AnswerInv'
    BY NextAnswers
  <2>2. Spec => []LoadsInv
    BY <1>3, LoadsInvHolds
  <2> QED
    BY <1>1, <2>1, <2>2, InitAnswers, PTL DEF Spec
<1> QED
  BY <1>2, <1>3

(* Every answer is that of the data of one load, and of one that did not   *)
(* fail, however loads race with one another, as long as none is under way *)
(* together with a query: line 79, "this function will transactionally swap*)
(* in a new one", although each query reads self.annotator anew for every  *)
(* thing it looks up, on two threads (nodejs_bindings.cpp:249-250, 341-345,*)
(* 404-423).                                                               *)
THEOREM AnswersComeFromOneDatabase ==
  ASSUME "query" \notin Habits
  PROVE  Spec => []AnswersFromOneDatabase
<1>1. ASSUME ShapeInv, AnswerInv, NEW j \in Job, Answered(j)
      PROVE  \E l \in Job : IsLoad(l) /\ args[l][1] \notin Broken /\ AnsweredFrom(j, l)
  <2>1. PICK l \in Job : AnswerFrom(j, l)
    BY <1>1 DEF AnswerInv, Answered
  <2>2. Made(l) /\ Replied(j, l) /\ error[j] \in BOOLEAN
    BY <1>1, <2>1
    DEF ShapeInv, NullInv, Types, AnswerFrom, Gathered, RouteState, TagState, Answered, Outstanding
  <2>3. AnsweredFrom(j, l)
    BY <2>2 DEF Replied, Replies, AnsweredFrom
  <2> QED
    BY <2>2, <2>3 DEF Made
<1>2. ShapeInv /\ AnswerInv => AnswersFromOneDatabase
  BY <1>1 DEF AnswersFromOneDatabase
<1> QED
  BY <1>2, ShapeInvHolds, AnswerInvHolds, PTL

(* What a query is answered from is what it was made against.              *)
LEMMA QuerySource ==
  ASSUME AnswerInv, "load" \notin Habits, NEW j \in Job, IsQuery(j)
  PROVE  /\ against[j] \in Job /\ Made(against[j])
         /\ Gathered(j, against[j]) \/ (Outstanding(j) /\ fault # "none")
BY DEF AnswerInv, AnswerFrom

(* Whatever is asked, the callback gets all of what the data of the last   *)
(* load that had called back without an error answers, as long as no call  *)
(* overlaps a load, also for a way id that the program has kept too long.  *)
THEOREM AnswersAreCurrent ==
  ASSUME "load" \notin Habits, "query" \notin Habits
  PROVE  Spec => []AnswersCurrent
<1>1. ASSUME ShapeInv, AnswerInv, NEW j \in Job, Answered(j) PROVE AnsweredFrom(j, against[j])
  <2>1. Replied(j, against[j]) /\ error[j] \in BOOLEAN
    BY <1>1, QuerySource
    DEF ShapeInv, NullInv, Types, Gathered, RouteState, TagState, Answered, Outstanding
  <2> QED
    BY <2>1 DEF Replied, Replies, AnsweredFrom
<1>2. ShapeInv /\ AnswerInv => AnswersCurrent
  BY <1>1 DEF AnswersCurrent
<1> QED
  BY <1>2, ShapeInvHolds, AnswerInvHolds, PTL

-----------------------------------------------------------------------------
(* The refinement.                                                         *)

(* What the refinement rests on.                                           *)
StoreInv == ShapeInv /\ LoadsInv /\ QueryInv /\ AnswerInv /\ "load" \notin Habits

(* What the abstract object sees of a call that a step leaves alone is the *)
(* same before and after.                                                  *)
LEMMA SameForOthers ==
  ASSUME StoreInv, NEW j \in Job, Apart(j), SameCalls, NEW k \in Job \ {j}
  PROVE  /\ StateOf(k)' = StateOf(k) /\ RequestOf(k)' = RequestOf(k)
         /\ ViewOf(k)' = ViewOf(k) /\ ReplyOf(k)' = ReplyOf(k)
<1>1. /\ phase'[k] = phase[k] /\ method'[k] = method[k] /\ args'[k] = args[k] /\ pc'[k] = pc[k]
      /\ wayIds'[k] = wayIds[k] /\ error'[k] = error[k] /\ tags'[k] = tags[k]
  BY DEF Apart
<1>2. StateOf(k)' = StateOf(k)
  BY <1>1 DEF StateOf, LoadStateOf, Swapped, IsLoad, IsQuery
<1>3. RequestOf(k)' = RequestOf(k)
  BY <1>1 DEF RequestOf
<1>4. ViewOf(k)' = ViewOf(k)
  <2>1. CASE IsQuery(k)
    <3>1. PICK l \in Job : l = against[k] /\ Made(l)
      BY <2>1, QuerySource DEF StoreInv
    <3>2. against'[k] = l /\ DatabaseOf(l)' = DatabaseOf(l)
      BY <3>1, MadeKept DEF StoreInv, Apart
    <3> QED
      BY <1>1, <3>1, <3>2 DEF ViewOf, Data, IsQuery, Outstanding
  <2>2. CASE ~IsQuery(k)
    BY <1>1, <2>2 DEF ViewOf, IsQuery
  <2> QED
    BY <2>1, <2>2
<1>5. ReplyOf(k)' = ReplyOf(k)
  BY <1>1 DEF ReplyOf, Answered, IsQuery
<1> QED
  BY <1>2, <1>3, <1>4, <1>5

(* One step of the abstract object, from what it changes of call j.        *)
LEMMA AbstractMove ==
  ASSUME StoreInv, NEW j \in Job, Apart(j), SameCalls, NEW from, NEW to,
         StateOf(j) = from, StateOf(j)' = to
  PROVE  S!Moves(j, from, to)
BY SameForOthers DEF S!Moves

LEMMA AbstractUpdates ==
  ASSUME StoreInv, NEW j \in Job, Apart(j), SameCalls
  PROVE  /\ [k \in Job |-> RequestOf(k)]'
              = [[k \in Job |-> RequestOf(k)] EXCEPT ![j] = RequestOf(j)']
         /\ [k \in Job |-> ViewOf(k)]'
              = [[k \in Job |-> ViewOf(k)] EXCEPT ![j] = ViewOf(j)']
         /\ [k \in Job |-> ReplyOf(k)]'
              = [[k \in Job |-> ReplyOf(k)] EXCEPT ![j] = ReplyOf(j)']
BY SameForOthers

(* A new object is a new store.                                            *)
LEMMA InitRefines == Init => S!Init
BY DEF Init, AsyncInit, S!Init, Data, StateOf, RequestOf, ViewOf, ReplyOf, Answered, IsQuery,
       QueryOps, RouteOps, Null

(* When no load is under way the data of the object is that of the last    *)
(* load that called back without an error, and a call leaves it alone.     *)
LEMMA DataAtRest ==
  ASSUME StoreInv, ~LoadUnderWay, NEW j \in Job, Apart(j), SameCalls, phase[j] = "idle",
         annotator' = annotator
  PROVE  /\ annotator = loaded
         /\ loaded # Null => /\ loaded \in Job \ {j} /\ Made(loaded)
                             /\ args'[loaded] = args[loaded]
         /\ Data(annotator)' = Data(annotator)
<1>1. annotator = loaded
  BY DEF StoreInv, LoadsInv, Owns
<1>2. loaded # Null => loaded \in Job \ {j} /\ Made(loaded) /\ args'[loaded] = args[loaded]
  BY LoadedKept DEF StoreInv
<1> QED
  BY <1>1, <1>2 DEF Data, DatabaseOf

(* A refusal, a load begun or a question asked of the data of the moment.  *)
LEMMA CallRefines ==
  ASSUME StoreInv, "query" \notin Habits, NEW j \in Job, Call(j)
  PROVE  S!Refuse(j) \/ S!Load(j) \/ S!Ask(j)
<1> USE DEF fields, heap, calls, locals, results, client, CanCall
<1>1. /\ AsyncTypeOK /\ Types /\ Domains /\ Shape(j)
      /\ phase[j] = "idle" /\ method[j] = "none" /\ annotator' = annotator
  <2>1. phase[j] = "idle" /\ annotator' = annotator
    BY DEF Call, RejectArguments, loadOSMExtract, Query, CanCall
  <2> QED
    BY <2>1 DEF StoreInv, ShapeInv, NullInv, Shape
<1>2. Apart(j) /\ SameCalls
  BY StepApart DEF StoreInv
<1>3. /\ StateOf(j) = "idle" /\ RequestOf(j) = NoJob /\ ViewOf(j) = Null /\ ReplyOf(j) = NoJob
  BY <1>1 DEF StateOf, RequestOf, ViewOf, ReplyOf, Answered, Outstanding
<1>4. ASSUME phase'[j] = "threw", method' = method, args' = args PROVE S!Refuse(j)
  <2>1. StateOf(j)' = "refused" /\ RequestOf(j)' = NoJob /\ ViewOf(j)' = Null /\ ReplyOf(j)' = NoJob
    BY <1>1, <1>4 DEF StateOf, RequestOf, ViewOf, ReplyOf, Answered, Outstanding, IsQuery
  <2>2. S!Moves(j, "idle", "refused")
    BY <1>1, <1>2, <1>3, <2>1, AbstractMove
  <2>3. Data(annotator)' = Data(annotator)
    BY <1>1, <1>4 DEF Data, DatabaseOf
  <2> QED
    BY <1>1, <1>2, <1>3, <2>1, <2>2, <2>3, SameForOthers DEF S!Refuse
<1>5. CASE RejectArguments(j)
  BY <1>1, <1>4, <1>5 DEF RejectArguments, Throw, AsyncTypeOK
<1>6. ASSUME NEW e \in Extract, loadOSMExtract(j, e) PROVE S!Load(j)
  <2>1. phase'[j] = "queued" /\ method'[j] = "loadOSMExtract" /\ args'[j] = <<e>> /\ pc'[j] = pc[j]
    BY <1>1, <1>6 DEF loadOSMExtract, Enqueue, AsyncTypeOK, Types, Domains
  <2>2. ~LoadUnderWay
    BY <1>6 DEF loadOSMExtract, StoreInv
  <2>3. pc[j] = "none"
    BY <1>1 DEF Shape
  <2>4. StateOf(j)' = "loading" /\ ViewOf(j)' = Null /\ ReplyOf(j)' = NoJob
    BY <2>1, <2>3
    DEF StateOf, LoadStateOf, Swapped, ViewOf, ReplyOf, Answered, IsLoad, IsQuery, QueryOps, RouteOps
  <2>5. RequestOf(j)' = [method |-> "loadOSMExtract", args |-> <<e>>]
    BY <2>1 DEF RequestOf
  <2>6. S!Moves(j, "idle", "loading")
    BY <1>1, <1>2, <1>3, <2>4, AbstractMove
  <2>7. Data(annotator)' = Data(annotator)
    BY <1>1, <1>2, <2>2, DataAtRest
  <2>8. [method |-> "loadOSMExtract", args |-> <<e>>]
          \in [method : {"loadOSMExtract"}, args : {<<x>> : x \in Extract}]
    OBVIOUS
  <2>9. [k \in Job |-> RequestOf(k)]'
          = [[k \in Job |-> RequestOf(k)]
               EXCEPT ![j] = [method |-> "loadOSMExtract", args |-> <<e>>]]
    BY <1>1, <1>2, <2>5, AbstractUpdates
  <2>10. UNCHANGED <<Data(annotator), [k \in Job |-> ViewOf(k)], [k \in Job |-> ReplyOf(k)]>>
    BY <1>1, <1>2, <1>3, <2>4, <2>7, SameForOthers
  <2> QED
    BY <2>6, <2>8, <2>9, <2>10 DEF S!Load
<1>7. ASSUME NEW m \in QueryOps, NEW a, Query(j, m, a),
             \/ m = "annotateRouteFromNodeIds" /\ a \in NodeRoutes
             \/ m = "annotateRouteFromLonLats" /\ a \in PointRoutes
             \/ m = "getAllTagsForWayId" /\ \E way_id \in known : a = <<way_id>>
      PROVE  S!Refuse(j) \/ S!Ask(j)
  <2>1. CASE ~HasData
    BY <1>1, <1>4, <1>7, <2>1 DEF Query, Throw, AsyncTypeOK
  <2>2. CASE HasData
    <3>1. /\ phase'[j] = "queued" /\ method'[j] = m /\ args'[j] = a /\ against'[j] = loaded
          /\ ~LoadUnderWay
      BY <1>1, <1>7, <2>2 DEF Query, Enqueue, AsyncTypeOK, Types, Domains
    <3>2. /\ annotator = loaded /\ loaded \in Job \ {j} /\ args'[loaded] = args[loaded]
          /\ Data(annotator)' = Data(annotator) /\ loaded # Null
      BY <1>1, <1>2, <2>2, <3>1, DataAtRest DEF HasData
    <3>3. StateOf(j)' = "asking" /\ ReplyOf(j)' = NoJob
      BY <1>7, <3>1 DEF StateOf, ReplyOf, Answered, IsLoad, IsQuery, QueryOps, RouteOps
    <3>4. ViewOf(j)' = Data(annotator)
      BY <1>7, <3>1, <3>2 DEF ViewOf, Data, DatabaseOf, IsQuery, Outstanding
    <3>5. RequestOf(j)' = [method |-> m, args |-> a]
      BY <3>1 DEF RequestOf
    <3>6. ASSUME NEW way_id \in known PROVE way_id \in KnownWays
      <4>1. PICK e \in Extract : way_id \in Nat /\ HasWay(Built[e], way_id)
        BY DEF StoreInv, ShapeInv, Objects, SomeWay
      <4>2. Len(Built[e].way_tag_ranges) \in Nat
        BY BuiltAssumption, LenProperties DEF WellFormed
      <4> QED
        BY <4>1, <4>2 DEF KnownWays, HasWay
    <3>7. [method |-> m, args |-> a]
            \in [method : {"annotateRouteFromNodeIds"}, args : NodeRoutes]
                  \cup [method : {"annotateRouteFromLonLats"}, args : PointRoutes]
                  \cup [method : {"getAllTagsForWayId"}, args : {<<w>> : w \in KnownWays}]
      BY <1>7, <3>6
    <3>8. S!Moves(j, "idle", "asking")
      BY <1>1, <1>2, <1>3, <3>3, AbstractMove
    <3> QED
      BY <1>1, <1>2, <1>3, <3>2, <3>3, <3>4, <3>5, <3>7, <3>8, AbstractUpdates, SameForOthers
      DEF S!Ask
  <2> QED
    BY <2>1, <2>2
<1> QED
  BY <1>5, <1>6, <1>7 DEF Call, QueryOps, RouteOps

(* A step of an accepted call that neither swaps the annotators nor calls  *)
(* back shows nothing.                                                     *)
LEMMA Hidden ==
  ASSUME StoreInv, NEW j \in Job, Apart(j), SameCalls, Outstanding(j), Outstanding(j)',
         UNCHANGED <<annotator, method, args, against>>,
         IsLoad(j) => Swapped(j)' = Swapped(j)
  PROVE  UNCHANGED S!vars
<1>1. phase[j] # "delivered" /\ phase[j] \notin {"idle", "threw"}
      /\ phase'[j] # "delivered" /\ phase'[j] \notin {"idle", "threw"}
  BY DEF Outstanding
<1>2. StateOf(j)' = StateOf(j)
  BY <1>1 DEF StateOf, LoadStateOf, IsLoad, IsQuery
<1>3. RequestOf(j)' = RequestOf(j) /\ ReplyOf(j)' = ReplyOf(j)
  BY <1>1 DEF RequestOf, ReplyOf, Answered, IsQuery
<1>4. ViewOf(j)' = ViewOf(j) /\ Data(annotator)' = Data(annotator)
  BY DEF ViewOf, Data, DatabaseOf, IsQuery
<1> QED
  BY <1>1, <1>2, <1>3, <1>4, SameForOthers DEF S!vars

(* Running, reading the fields, looking up and freeing are such steps.     *)
LEMMA SilentRefines ==
  ASSUME StoreInv, NEW j \in Job, Work(j), ~WriteAnnotator(j), ~Deliver(j)
  PROVE  UNCHANGED S!vars
<1> USE DEF asyncVars, fields, heap, calls, locals, results, client, Goto
<1>1. AsyncTypeOK /\ Types /\ ShapeInv /\ Apart(j) /\ SameCalls
  BY StepApart DEF StoreInv, ShapeInv, NullInv
<1>2. CASE Load(j)
  <2>1. UNCHANGED <<asyncVars, annotator, method, args, against>>
    BY <1>2 DEF Load, BuildDatabase, FailBuild, ReadDatabase, WriteDatabase,
         ReadAnnotator, WriteAnnotator, FreeAnnotator, FreeDatabase
  <2>2. Outstanding(j) /\ Outstanding(j)' /\ ~error[j]
    BY <1>1, <1>2, <2>1, StepPhases DEF Outstanding
  <2>3. Swapped(j)' = Swapped(j)
    BY <1>1, <1>2, <2>2
    DEF Types, Swapped, Load, BuildDatabase, FailBuild, ReadDatabase, WriteDatabase,
        ReadAnnotator, WriteAnnotator, FreeAnnotator, FreeDatabase
  <2> QED
    BY <1>1, <2>1, <2>2, <2>3, Hidden
<1>3. CASE Lookup(j)
  <2>1. UNCHANGED <<asyncVars, annotator, method, args, against>>
    BY <1>1, <1>3, StepPhases
  <2>2. Outstanding(j) /\ Outstanding(j)' /\ ~IsLoad(j)
    BY <1>1, <1>3, <2>1, StepPhases DEF Outstanding, IsLoad, IsQuery, QueryOps, RouteOps
  <2> QED
    BY <1>1, <2>1, <2>2, Hidden
<1>4. CASE Execute(j) \/ Return(j) \/ EnterCallback(j)
  <2>1. UNCHANGED <<annotator, method, args, against, error>>
    BY <1>4 DEF Execute, Return, EnterCallback
  <2>2. Outstanding(j) /\ Outstanding(j)'
    BY <1>1, <1>4, StepPhases
    DEF AsyncTypeOK, Execute, Return, EnterCallback, Begin, Finish, StartCallback, Outstanding
  <2>3. ASSUME IsLoad(j) PROVE Swapped(j)' = Swapped(j)
    <3>1. CASE Execute(j)
      <4>1. pc[j] = "none"
        BY <1>1, <3>1, StepPhases
      <4>2. pc'[j] = "build"
        BY <1>1, <2>3, <3>1 DEF Execute, FirstStep, IsLoad, Types
      <4> QED
        BY <4>1, <4>2 DEF Swapped
    <3>2. CASE Return(j)
      <4>1. pc[j] = "return" /\ pc'[j] = "callback"
        BY <1>1, <3>2 DEF Return, Types
      <4> QED
        BY <2>1, <4>1 DEF Swapped
    <3>3. CASE EnterCallback(j)
      <4>1. pc[j] = "callback"
        BY <1>1, <3>3, StepPhases
      <4>2. pc'[j] = "deliver"
        BY <1>1, <2>3, <3>3 DEF EnterCallback, IsLoad, Types
      <4> QED
        BY <2>1, <4>1, <4>2 DEF Swapped
    <3> QED
      BY <1>4, <3>1, <3>2, <3>3
  <2> QED
    BY <1>1, <2>1, <2>2, <2>3, Hidden
<1> QED
  BY <1>2, <1>3, <1>4 DEF Work

(* The second of the two swaps is the moment the load takes effect.        *)
LEMMA SwapRefines ==
  ASSUME StoreInv, NEW j \in Job, WriteAnnotator(j), fault = "none"
  PROVE  S!Install(j)
<1> USE DEF asyncVars, fields, heap, calls, locals, results, client
<1>1. Types /\ Apart(j) /\ SameCalls /\ pc[j] = "writeAnnotator"
  BY StepApart DEF StoreInv, ShapeInv, NullInv, Work, Load, WriteAnnotator
<1>2. LoadState(j) /\ Shape(j) /\ phase[j] = "running" /\ j # Null /\ method[j] = "loadOSMExtract"
  BY StepPhases, JobAssumption
  DEF StoreInv, ShapeInv, LoadsInv, Load, Loading, Outstanding, IsLoad, Null
<1>3. /\ annotator' = j /\ pc'[j] = "freeAnnotator"
      /\ UNCHANGED <<asyncVars, method, args, error>>
  BY <1>1, <1>2 DEF WriteAnnotator, Goto, LoadState, Types
<1>4. StateOf(j) = "loading" /\ StateOf(j)' = "installed"
  BY <1>1, <1>2, <1>3 DEF StateOf, LoadStateOf, Swapped, IsLoad
<1>5. S!Moves(j, "loading", "installed")
  BY <1>1, <1>2, <1>4, AbstractMove
<1>6. /\ RequestOf(j) = [method |-> method[j], args |-> args[j]] /\ RequestOf(j)' = RequestOf(j)
      /\ ViewOf(j) = Null /\ ViewOf(j)' = Null /\ ReplyOf(j) = NoJob /\ ReplyOf(j)' = NoJob
  BY <1>2, <1>3 DEF RequestOf, ViewOf, ReplyOf, Answered, IsQuery, QueryOps, RouteOps
<1>7. Data(annotator)' = DatabaseMadeBy(RequestOf(j))
  BY <1>2, <1>3, <1>6 DEF Data, DatabaseOf, DatabaseMadeBy
<1> QED
  BY <1>1, <1>2, <1>5, <1>6, <1>7, SameForOthers DEF S!Install

(* The callback of the program ends a load or answers a question.          *)
LEMMA DeliverRefines ==
  ASSUME StoreInv, NEW j \in Job, Deliver(j), fault = "none"
  PROVE  S!EndLoad(j) \/ S!Answer(j)
<1> USE DEF asyncVars, fields, heap, calls, locals, results, client
<1>1. AsyncTypeOK /\ Types /\ Apart(j) /\ SameCalls /\ pc[j] = "deliver" /\ PointerSet(j)
  BY StepApart DEF StoreInv, ShapeInv, NullInv, Work, Deliver
<1>2. phase[j] = "callback" /\ phase'[j] = "delivered"
  BY <1>1, StepPhases DEF StoreInv, Deliver, EndCallback, AsyncTypeOK
<1>3. UNCHANGED <<annotator, method, args, against, results>>
  BY DEF Deliver
<1>4. /\ RequestOf(j) = [method |-> method[j], args |-> args[j]] /\ RequestOf(j)' = RequestOf(j)
      /\ Data(annotator)' = Data(annotator) /\ ViewOf(j)' = Null
  BY <1>2, <1>3 DEF RequestOf, Data, DatabaseOf, ViewOf, Outstanding
<1>5. CASE IsLoad(j)
  <2>1. ~IsQuery(j) /\ ~IsQuery(j)' /\ IsLoad(j)'
    BY <1>3, <1>5 DEF IsLoad, IsQuery, QueryOps, RouteOps
  <2>2. ViewOf(j) = Null /\ ReplyOf(j)' = ReplyOf(j)
    BY <2>1 DEF ViewOf, ReplyOf, Answered
  <2>3. \/ StateOf(j) = "installed" /\ StateOf(j)' = "done"
        \/ StateOf(j) = "loading" /\ StateOf(j)' = "failed"
    BY <1>1, <1>2, <1>3, <1>5, <2>1 DEF StateOf, LoadStateOf, Swapped
  <2>4. S!Moves(j, "installed", "done") \/ S!Moves(j, "loading", "failed")
    BY <1>1, <1>2, <2>3, AbstractMove
  <2> QED
    BY <1>1, <1>2, <1>4, <2>2, <2>4, SameForOthers DEF S!EndLoad
<1>6. CASE IsQuery(j)
  <2>1. against[j] \in Job /\ Replied(j, against[j]) /\ IsQuery(j)'
    BY <1>1, <1>3, <1>6, QuerySource DEF StoreInv, Gathered, RouteState, TagState, IsQuery
  <2>2. ViewOf(j) = DatabaseOf(against[j])
    BY <1>2, <1>6, <2>1, JobAssumption DEF ViewOf, Outstanding, Data, Null
  <2>3. ReplyOf(j)' \in Replies(RequestOf(j), ViewOf(j))
    BY <1>2, <1>3, <1>4, <2>1, <2>2 DEF ReplyOf, Answered, Replied
  <2>4. StateOf(j) = "asking" /\ StateOf(j)' = "done"
    BY <1>2, <1>3, <1>6, <2>1 DEF StateOf, LoadStateOf, IsLoad, IsQuery, QueryOps, RouteOps
  <2>5. S!Moves(j, "asking", "done")
    BY <1>1, <1>2, <2>4, AbstractMove
  <2> QED
    BY <1>1, <1>2, <1>4, <2>3, <2>5, AbstractUpdates, SameForOthers DEF S!Answer
<1>7. IsLoad(j) \/ IsQuery(j)
  BY <1>1, <1>2 DEF PointerSet, Types, IsLoad, IsQuery, QueryOps
<1> QED
  BY <1>5, <1>6, <1>7

(* The Annotator object is a Store, for programs that let no call overlap a*)
(* load: each load takes effect whole and at one moment, or not at all, and*)
(* each query is answered as if its many reads were one, made when it was  *)
(* called (nodejs_bindings.cpp:79, 168-170, 249-250, 404-423).             *)
THEOREM Refinement ==
  ASSUME "load" \notin Habits, "query" \notin Habits
  PROVE  Spec => ImplementsStore
<1>1. StoreInv /\ [Next]_vars => [S!Next]_(S!vars)
  <2> SUFFICES ASSUME StoreInv, [Next]_vars PROVE S!Next \/ UNCHANGED S!vars
    OBVIOUS
  <2>1. ASSUME NEW j \in Job, Call(j) PROVE S!Next
    BY <2>1, CallRefines DEF S!Next
  <2>2. ASSUME NEW j \in Job, Work(j) PROVE S!Next \/ UNCHANGED S!vars
    <3>1. fault = "none"
      BY <2>2 DEF Work
    <3> QED
      BY <2>2, <3>1, SilentRefines, SwapRefines, DeliverRefines DEF S!Next
  <2>3. CASE UNCHANGED vars
    BY <2>3 DEF vars, asyncVars, fields, calls, results, client, S!vars, Data, DatabaseOf, StateOf, LoadStateOf,
                Swapped, RequestOf, ViewOf, ReplyOf, Answered, IsLoad, IsQuery, Outstanding
  <2> QED
    BY <2>1, <2>2, <2>3 DEF Next, Terminated
<1>2. Spec => []StoreInv
  <2>1. /\ Spec => []ShapeInv
        /\ Spec => []LoadsInv
        /\ Spec => []QueryInv
        /\ Spec => []AnswerInv
    BY ShapeInvHolds, LoadsInvHolds, QueryInvHolds, AnswerInvHolds
  <2>2. ShapeInv /\ LoadsInv /\ QueryInv /\ AnswerInv => StoreInv
    BY DEF StoreInv
  <2> QED
    BY <2>1, <2>2, PTL
<1> QED
  BY <1>1, <1>2, InitRefines, PTL DEF Spec, ImplementsStore, S!Spec
=============================================================================
