--------------------------- MODULE MCExampleServer --------------------------
(***************************************************************************)
(* Two requests at once, for routes of up to three pairs of nodes: one way *)
(* twice, two ways of the same OSM way, a pair on no way first and last.   *)
(***************************************************************************)
EXTENDS ExampleServer, TLC

MCJob == Request \X (0 .. 3)
MCExternalId == (0 :> "a") @@ (1 :> "b") @@ (2 :> "b")
MCRoutes == {<<0, 1, 0>>, <<NoWay, 1, 2>>, <<0, NoWay>>, <<NoWay>>}
=============================================================================
