----------------------------- MODULE MCProgram -----------------------------
(* Program for TLC.                                                        *)
EXTENDS Program, TLC

CONSTANTS a1, n1, n2, p1, p2, p3, p4

\* Two instances with one target: their source NAT rules read the same.
MCTargetOf == [i \in {n1, n2} |-> "target"]

\* Two processes on the address a1, two on all.
MCAddr == p1 :> a1 @@ p2 :> a1 @@ p3 :> AnyAddr @@ p4 :> AnyAddr

MCServers == <<"s1", "s2">>

\* Three, for CheckTCPCone wants as many mappings.
MCSTUNServers == <<"s1", "s2", "s3">>
=============================================================================
