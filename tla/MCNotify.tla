------------------------------ MODULE MCNotify ------------------------------
(* Notify for TLC: x has a rule and qBittorrent, y a rule and a webhook     *)
(* that it may skip.                                                        *)
EXTENDS Notify, TLC

CONSTANTS x, y, m1, m2

MCFeatures == x :> {"rule", "qbittorrent"} @@ y :> {"rule", "webhook"}
MCSkipOnly == x :> {"webhook"}
MCCalls == x :> 2 @@ y :> 1
MCTwoCalls == x :> 2
Symmetric == Permutations(Pairs)
=============================================================================
