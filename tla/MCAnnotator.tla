----------------------------- MODULE MCAnnotator -----------------------------
(***************************************************************************)
(* An Annotator asked to load two small extracts and one that cannot be    *)
(* loaded, and to answer a route of three nodes or of two coordinates and  *)
(* the tags of the ways it answered.  The middle coordinate is as near to  *)
(* one node as to another, and the two extracts give different answers.    *)
(***************************************************************************)
EXTENDS AnnotatorRefinement, Samples

CONSTANTS Missing, Coordinates

MCExtract == {East, West, Missing}
MCBroken == {Missing}
MCBuilt ==
  [e \in MCExtract |-> SampleDatabase(IF e = Missing THEN East ELSE e, Coordinates)]

MCNodeRoutes == {<<n1, n2, n3>>}
MCPointRoutes == {<<4, 13>>}

MCSymmetry == Permutations(Job)
=============================================================================
