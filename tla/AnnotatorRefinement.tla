------------------------ MODULE AnnotatorRefinement -------------------------
(***************************************************************************)
(* How the Annotator object is a Store, for programs that let no call      *)
(* overlap a load: the many steps of a load on two fields and four objects,*)
(* and of a query that reads the fields anew for each thing it asks, look  *)
(* like one step each.                                                     *)
(***************************************************************************)
EXTENDS Annotator

Data(p) == IF p = Null THEN Null ELSE DatabaseOf(p)

(* The data is in place with the second of the two swaps.                  *)
Swapped(j) ==
  \/ pc[j] \in {"freeAnnotator", "freeDatabase"}
  \/ pc[j] \in {"return", "callback", "deliver"} /\ ~error[j]

LoadStateOf(j) ==
  IF phase[j] = "delivered" THEN IF error[j] THEN "failed" ELSE "done"
  ELSE IF Swapped(j) THEN "installed" ELSE "loading"

StateOf(j) ==
  IF phase[j] = "idle" THEN "idle"
  ELSE IF phase[j] = "threw" THEN "refused"
  ELSE IF IsLoad(j) THEN LoadStateOf(j)
  ELSE IF phase[j] = "delivered" THEN "done" ELSE "asking"

RequestOf(j) ==
  IF phase[j] \in {"idle", "threw"} THEN NoJob ELSE [method |-> method[j], args |-> args[j]]

ReplyOf(j) ==
  IF Answered(j)
    THEN [ok |-> ~error[j], value |-> IF method[j] \in RouteOps THEN wayIds[j] ELSE tags[j]]
    ELSE NoJob

ViewOf(j) == IF IsQuery(j) /\ Outstanding(j) THEN Data(against[j]) ELSE Null

Replies(r, db) ==
  IF r.method = "annotateRouteFromLonLats" /\ db.rtree.null
    THEN {[ok |-> FALSE, value |-> <<>>]}
    ELSE {[ok |-> TRUE, value |-> a] : a \in Answers(db, r.method, r.args)}

DatabaseMadeBy(r) == Built[r.args[1]]

(* The way ids that some data has, which are all a program can ask for.    *)
KnownWays == UNION {0 .. (Len(Built[e].way_tag_ranges) - 1) : e \in Extract}

S == INSTANCE Store WITH
  Loads <- [method : {"loadOSMExtract"}, args : {<<e>> : e \in Extract}],
  Queries <- [method : {"annotateRouteFromNodeIds"}, args : NodeRoutes]
               \cup [method : {"annotateRouteFromLonLats"}, args : PointRoutes]
               \cup [method : {"getAllTagsForWayId"}, args : {<<w>> : w \in KnownWays}],
  Nothing <- NoJob,
  Initial <- Null,
  DataOf <- DatabaseMadeBy,
  Answers <- Replies,
  current <- Data(annotator),
  state <- [j \in Job |-> StateOf(j)],
  request <- [j \in Job |-> RequestOf(j)],
  view <- [j \in Job |-> ViewOf(j)],
  reply <- [j \in Job |-> ReplyOf(j)]

(* A load that calls back without an error has put all of its data in place*)
(* at one moment, one that calls back with an error none of it, and every  *)
(* query is answered as if its many reads of the fields, on two threads,   *)
(* were one, made when it was called (nodejs_bindings.cpp:79, 168-170,     *)
(* 249-250, 404-423).                                                      *)
ImplementsStore == S!Spec
=============================================================================
