------------------------------- MODULE Store --------------------------------
(***************************************************************************)
(* What the objects of the addon promise their callers: loads replace the  *)
(* data of the object at one moment before they call back, or not at all;  *)
(* a query is answered from the data the object had when it was called.    *)
(* Annotator (see AnnotatorRefinement) and SpeedLookup implement it.       *)
(***************************************************************************)
CONSTANTS
  Job,            (* the calls                                             *)
  Loads, Queries, (* what they may ask for                                 *)
  Nothing,        (* no request, no reply                                  *)
  Initial,        (* the data of a new object                              *)
  DataOf(_),      (* the data a load brings                                *)
  Answers(_, _)   (* the answers a query may get from data                 *)

VARIABLES
  current,   (* the data of the object                                     *)
  state,     (* how far each call is                                       *)
  request,   (* what it asked for                                          *)
  view,      (* the data a query is answered from                          *)
  reply      (* what its callback got                                      *)

vars == <<current, state, request, view, reply>>

Init ==
  /\ current = Initial
  /\ state = [j \in Job |-> "idle"]
  /\ request = [j \in Job |-> Nothing]
  /\ view = [j \in Job |-> Initial]
  /\ reply = [j \in Job |-> Nothing]

Moves(j, from, to) == state[j] = from /\ state' = [state EXCEPT ![j] = to]

Refuse(j) ==
  /\ Moves(j, "idle", "refused")
  /\ UNCHANGED <<current, request, view, reply>>

Load(j) ==
  /\ Moves(j, "idle", "loading")
  /\ \E r \in Loads : request' = [request EXCEPT ![j] = r]
  /\ UNCHANGED <<current, view, reply>>

Install(j) ==
  /\ Moves(j, "loading", "installed")
  /\ current' = DataOf(request[j])
  /\ UNCHANGED <<request, view, reply>>

(* A load calls back without an error if its data is there, and with one   *)
(* if it never was.                                                        *)
EndLoad(j) ==
  /\ Moves(j, "installed", "done") \/ Moves(j, "loading", "failed")
  /\ UNCHANGED <<current, request, view, reply>>

Ask(j) ==
  /\ Moves(j, "idle", "asking")
  /\ \E r \in Queries : request' = [request EXCEPT ![j] = r]
  /\ view' = [view EXCEPT ![j] = current]
  /\ UNCHANGED <<current, reply>>

Answer(j) ==
  /\ Moves(j, "asking", "done")
  /\ \E r \in Answers(request[j], view[j]) : reply' = [reply EXCEPT ![j] = r]
  /\ view' = [view EXCEPT ![j] = Initial]
  /\ UNCHANGED <<current, request>>

Next == \E j \in Job : Refuse(j) \/ Load(j) \/ Install(j) \/ EndLoad(j) \/ Ask(j) \/ Answer(j)

Spec == Init /\ [][Next]_vars

(* Every call that is not refused calls back.                              *)
EveryCallEnds ==
  \A j \in Job :
    state[j] \in {"loading", "installed", "asking"} ~> state[j] \in {"done", "failed"}
=============================================================================
