---------------------------- MODULE DesiredState ----------------------------
(***************************************************************************)
(* What Tower 2's release store and channels promise to whoever asks for a *)
(* desired state: a release gets its tree once and keeps it for ever, and  *)
(* what a target resolves to changes only when the target is set.  No      *)
(* rows, statements or handlers.                                           *)
(***************************************************************************)
CONSTANTS Targets, Vehicles, Trees, None

VARIABLES
  points,    \* target -> the release it points at, or None
  desired    \* release -> its tree once it is whole, or None

desiredVars == <<points, desired>>

Init ==
  /\ points = [k \in Targets |-> None]
  /\ desired \in [Vehicles -> Trees \cup {None}]

\* Some releases become whole: a component may be the last one of several.
Complete ==
  /\ desired' \in [Vehicles -> Trees \cup {None}]
  /\ \A v \in Vehicles : desired[v] # None => desired'[v] = desired[v]
  /\ UNCHANGED points

Point(k, v) ==
  /\ points' = [points EXCEPT ![k] = v]
  /\ UNCHANGED desired

Next == Complete \/ \E k \in Targets, v \in Vehicles : Point(k, v)

Spec == Init /\ [][Next]_desiredVars
=============================================================================
