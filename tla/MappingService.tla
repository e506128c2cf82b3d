--------------------------- MODULE MappingService ---------------------------
(***************************************************************************)
(* What one QNatter process promises its user: it serves one pair of a     *)
(* local endpoint and the NAT's endpoint at a time.  A pair that is served *)
(* never changes under the user: it is withdrawn, and what served it is    *)
(* released, before another is announced or the process stops.             *)
(***************************************************************************)
CONSTANTS Inners, Outers, None

VARIABLES
  phase,      \* "idle", "serving", "releasing" or "stopped"
  pair        \* the pair being served

Nothing == [inner |-> None, outer |-> None]

Init == phase = "idle" /\ pair = Nothing

Serve(p) ==
  /\ phase = "idle"
  /\ phase' = "serving"
  /\ pair' = p

\* The pair is not kept alive any more.
Withdraw ==
  /\ phase = "serving"
  /\ phase' = "releasing"
  /\ pair' = Nothing

\* An attempt can fail before anything was served, and is released as well.
Abandon ==
  /\ phase = "idle"
  /\ phase' = "releasing"
  /\ UNCHANGED pair

Release ==
  /\ phase = "releasing"
  /\ phase' = "idle"
  /\ UNCHANGED pair

Stop ==
  /\ phase = "idle"
  /\ phase' = "stopped"
  /\ UNCHANGED pair

Next ==
  \/ \E p \in [inner : Inners, outer : Outers] : Serve(p)
  \/ Withdraw \/ Abandon \/ Release \/ Stop

Spec == Init /\ [][Next]_<<phase, pair>>
=============================================================================
