---------------------------- MODULE MCSpeedLookup ---------------------------
(***************************************************************************)
(* A lookup object asked to load the sample files or files that cannot be  *)
(* loaded, and asked for the speeds of keys that both maps, one map or no  *)
(* map has; the ids of one question are rejected.  Among the ids of ways   *)
(* are two that do not fit a signed integer.                               *)
(***************************************************************************)
EXTENDS SpeedLookup, SpeedSamples

MCSource == {Slow, Fast, Bad}
MCBroken == {Bad}
MCBuilt == SampleMaps(Format)
MCIds ==
  IF Format = "segment" THEN {<<1, 2, 1>>, <<1, -2>>, <<1>>}
                        ELSE {<<1, 2>>, <<>>, <<300>>, <<UintMax + 2>>}
=============================================================================
