----------------------------- MODULE MCService -----------------------------
(* Service for TLC.                                                        *)
EXTENDS Service, TLC

Symmetric == Permutations(Instances) \cup Permutations(Prints)
=============================================================================
