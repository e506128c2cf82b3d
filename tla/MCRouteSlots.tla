---------------------------- MODULE MCRouteSlots ----------------------------
(* RouteSlots for TLC.                                                     *)
EXTENDS RouteSlots, TLC

Symmetric == Permutations(Sections) \cup Permutations(Passes)
=============================================================================
