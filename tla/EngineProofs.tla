---------------------------- MODULE EngineProofs ----------------------------
(***************************************************************************)
(* Theorems about Engine, for every number of endpoints, every limit and   *)
(* configuration, and every STUN client.                                   *)
(***************************************************************************)
EXTENDS Engine, TLAPS

(* The type invariant: it is inductive as it stands.                       *)
LEMMA TypeInit == Init => TypeOK
<1> SUFFICES ASSUME Init PROVE TypeOK
  OBVIOUS
<1>1. NoPair \in Pairs
  BY DEF NoPair, Pairs
<1>2. cfg \in Options
  BY ConfigsAssumption DEF Init, Options
<1>3. WorldTypeOK /\ HeldTypeOK /\ HistoryTypeOK
  BY <1>1 DEF Init, WorldTypeOK, HeldTypeOK, HistoryTypeOK, Renewals
<1>4. ProcessTypeOK
  BY <1>1, <1>2 DEF Init, ProcessTypeOK, Labels, Errors, Retryable, Changed
<1> QED
  BY <1>3, <1>4 DEF TypeOK

LEMMA TypeStep == TypeOK /\ [Next]_vars => TypeOK'
<1> SUFFICES ASSUME TypeOK, [Next]_vars PROVE TypeOK'
  OBVIOUS
<1> USE DEF TypeOK, WorldTypeOK, HeldTypeOK, ProcessTypeOK, HistoryTypeOK, Labels, Errors, Retryable, Changed, Fields, Renewals, ReturnError, CloseWith,
           worldVars, heldVars, counterVars, historyVars, leaseVars
<1>1. ASSUME NEW m \in Observed, FirstSTUN(m) PROVE TypeOK'
  BY <1>1, LimitsAssumption DEF FirstSTUN, Pairs, Observed
<1>2. ASSUME NEW m \in Observed, SecondSTUN(m) PROVE TypeOK'
  BY <1>2, LimitsAssumption DEF SecondSTUN, Pairs, Observed, ChooseMapping
<1>3. ASSUME NEW m \in Observed, Recheck(m) PROVE TypeOK'
  BY <1>3, LimitsAssumption DEF Recheck, Observed
<1>4. CASE FirstSTUNFails
  BY <1>4, LimitsAssumption DEF FirstSTUNFails
<1>5. CASE SecondSTUNFails
  BY <1>5, LimitsAssumption DEF SecondSTUNFails
<1>6. CASE FirstKeepAlive
  BY <1>6, LimitsAssumption DEF FirstKeepAlive
<1>7. CASE FirstKeepAliveFails
  BY <1>7, LimitsAssumption DEF FirstKeepAliveFails
<1>8. CASE StartForwarder
  BY <1>8, LimitsAssumption DEF StartForwarder, Pairs
<1>9. ASSUME NEW b \in BOOLEAN, StartForwarderFails(b) PROVE TypeOK'
  BY <1>9, LimitsAssumption DEF StartForwarderFails, Pairs
<1>10. CASE UPnPForward
  <2>1. WorldTypeOK'
    BY <1>10, LimitsAssumption DEF UPnPForward
  <2>2. HeldTypeOK'
    BY <1>10, LimitsAssumption DEF UPnPForward, Pairs
  <2>3. ProcessTypeOK'
    BY <1>10, LimitsAssumption DEF UPnPForward, Pairs
  <2>4. HistoryTypeOK'
    BY <1>10, LimitsAssumption DEF UPnPForward, Pairs
  <2> QED
    BY <2>1, <2>2, <2>3, <2>4
<1>11. ASSUME NEW b \in BOOLEAN, UPnPForwardFails(b) PROVE TypeOK'
  BY <1>11, LimitsAssumption DEF UPnPForwardFails, Pairs
<1>12. CASE Notify
  BY <1>12, LimitsAssumption DEF Notify
<1>13. CASE NotifyFails
  BY <1>13, LimitsAssumption DEF NotifyFails
<1>14. CASE Commit
  BY <1>14, LimitsAssumption, TimesAssumption DEF Commit, Aged
<1>15. CASE TargetClosed
  BY <1>15, LimitsAssumption DEF TargetClosed
<1>16. CASE Done
  BY <1>16, LimitsAssumption DEF Done
<1>17. CASE KeepAliveTick
  <2>1. WorldTypeOK'
    BY <1>17, LimitsAssumption DEF KeepAliveTick
  <2>2. HeldTypeOK'
    BY <1>17, LimitsAssumption DEF KeepAliveTick, CountTick, CountSuccess, Aged, Pairs
  <2>3. ProcessTypeOK'
    BY <1>17, LimitsAssumption DEF KeepAliveTick, CountTick, CountSuccess, Aged, Pairs
  <2>4. HistoryTypeOK'
    <3>1. leaked' \in SUBSET Fields /\ staleTicks' \in Nat
      BY <1>17 DEF KeepAliveTick, CountTick, CountSuccess
    <3>2. leaseAge' \in Nat
      BY <1>17, TimesAssumption DEF KeepAliveTick, CountTick, Aged
    <3>3. renewal' \in Renewals /\ failedBefore' \in Nat
      BY <1>17 DEF KeepAliveTick, CountSuccess
    <3> QED
      BY <3>1, <3>2, <3>3
  <2> QED
    BY <2>1, <2>2, <2>3, <2>4
<1>18. CASE KeepAliveFailsTick
  <2>1. WorldTypeOK'
    BY <1>18, LimitsAssumption, TimesAssumption DEF KeepAliveFailsTick
  <2>2. HeldTypeOK'
    BY <1>18, LimitsAssumption, TimesAssumption DEF KeepAliveFailsTick, CountTick, Aged
  <2>3. ProcessTypeOK'
    BY <1>18, LimitsAssumption, TimesAssumption DEF KeepAliveFailsTick, CountTick, Aged
  <2>4. HistoryTypeOK'
    BY <1>18, LimitsAssumption, TimesAssumption DEF KeepAliveFailsTick, CountTick, Aged
  <2> QED
    BY <2>1, <2>2, <2>3, <2>4
<1>19. CASE KeepAliveLosesAddressTick
  <2>1. WorldTypeOK'
    BY <1>19, LimitsAssumption, TimesAssumption DEF KeepAliveLosesAddressTick
  <2>2. HeldTypeOK'
    BY <1>19, LimitsAssumption, TimesAssumption DEF KeepAliveLosesAddressTick, CountTick, Aged
  <2>3. ProcessTypeOK'
    BY <1>19, LimitsAssumption, TimesAssumption DEF KeepAliveLosesAddressTick, CountTick, Aged
  <2>4. HistoryTypeOK'
    BY <1>19, LimitsAssumption, TimesAssumption DEF KeepAliveLosesAddressTick, CountTick, Aged
  <2> QED
    BY <2>1, <2>2, <2>3, <2>4
<1>20. CASE RecheckFails
  BY <1>20, LimitsAssumption DEF RecheckFails
<1>21. CASE RecheckLosesAddress
  BY <1>21, LimitsAssumption DEF RecheckLosesAddress
<1>22. ASSUME NEW b \in BOOLEAN, NEW c \in BOOLEAN, CloseSession(b, c) PROVE TypeOK'
  <2>1. WorldTypeOK'
    BY <1>22, LimitsAssumption DEF CloseSession
  <2>2. HeldTypeOK'
    BY <1>22, LimitsAssumption DEF CloseSession, StopForwarder, RevokeUPnP, Pairs, NoPair
  <2>3. ProcessTypeOK'
    BY <1>22, LimitsAssumption DEF CloseSession, StopForwarder, RevokeUPnP, Pairs, NoPair
  <2>4. HistoryTypeOK'
    BY <1>22, LimitsAssumption DEF CloseSession, StopForwarder, RevokeUPnP, Pairs, NoPair
  <2> QED
    BY <2>1, <2>2, <2>3, <2>4
<1>23. CASE RunEnds
  BY <1>23, LimitsAssumption DEF RunEnds
<1>24. CASE RunRetries
  BY <1>24, LimitsAssumption DEF RunRetries
<1>25. CASE BackoffCanceled
  BY <1>25, LimitsAssumption DEF BackoffCanceled
<1>26. CASE BackoffElapsed
  BY <1>26, LimitsAssumption DEF BackoffElapsed
<1>27. ASSUME NEW a \in Addrs \cup {None}, AddressChanges(a) PROVE TypeOK'
  BY <1>27, LimitsAssumption DEF AddressChanges, processVars
<1>28. ASSUME NEW i \in Inners, NEW o \in Outers, NATRebinds(i, o) PROVE TypeOK'
  BY <1>28, LimitsAssumption DEF NATRebinds, processVars
<1>29. CASE ReachabilityChanges
  <2>1. WorldTypeOK'
    BY <1>29, LimitsAssumption DEF ReachabilityChanges
  <2>2. HeldTypeOK'
    BY <1>29, LimitsAssumption DEF ReachabilityChanges, processVars
  <2>3. ProcessTypeOK'
    BY <1>29, LimitsAssumption DEF ReachabilityChanges, processVars
  <2>4. HistoryTypeOK'
    BY <1>29, LimitsAssumption DEF ReachabilityChanges, processVars
  <2> QED
    BY <2>1, <2>2, <2>3, <2>4
<1>30. CASE Cancel
  BY <1>30, LimitsAssumption DEF Cancel, processVars
<1>31. CASE LeaseExpires
  BY <1>31, LimitsAssumption DEF LeaseExpires
<1>33. CASE Renew
  <2>1. WorldTypeOK'
    BY <1>33 DEF Renew
  <2>2. HeldTypeOK'
    BY <1>33 DEF Renew, Pairs
  <2>3. ProcessTypeOK'
    BY <1>33, LimitsAssumption DEF Renew, CountSuccess, Pairs
  <2>4. HistoryTypeOK'
    BY <1>33 DEF Renew
  <2> QED
    BY <2>1, <2>2, <2>3, <2>4
<1>32. CASE UNCHANGED vars
  BY <1>32 DEF vars
<1> QED
  BY <1>1, <1>2, <1>3, <1>4, <1>5, <1>6, <1>7, <1>8, <1>9, <1>10, <1>11, <1>12, <1>13, <1>14, <1>15, <1>16, <1>17, <1>18, <1>19, <1>20, <1>21, <1>22, <1>23, <1>24, <1>25, <1>26, <1>27, <1>28, <1>29, <1>30, <1>31, <1>32, <1>33
     DEF Next, Process, World, Exited, StartSession, RunLoop, RunWithRetry

THEOREM TypeCorrect == Spec => []TypeOK
  BY TypeInit, TypeStep, PTL DEF Spec

(* Steps of the world, and stuttering, leave the process alone, except for *)
(* a lease that expires and the ticks counted since the NAT changed.       *)
WorldMoves ==
  \/ \E a \in Addrs \cup {None} : AddressChanges(a)
  \/ \E i \in Inners, o \in Outers : NATRebinds(i, o)
  \/ ReachabilityChanges \/ Cancel \/ Exited \/ UNCHANGED vars

LEMMA WorldLeavesProcess == WorldMoves => UNCHANGED processVars
<1>1. UNCHANGED vars => UNCHANGED processVars
  BY DEF vars, processVars, historyVars, leaseVars
<1>2. ASSUME NEW a \in Addrs \cup {None}, AddressChanges(a) PROVE UNCHANGED processVars
  BY <1>2 DEF AddressChanges
<1>3. ASSUME NEW i \in Inners, NEW o \in Outers, NATRebinds(i, o) PROVE UNCHANGED processVars
  BY <1>3 DEF NATRebinds
<1>4. ReachabilityChanges \/ Cancel \/ Exited => UNCHANGED processVars
  BY <1>1 DEF ReachabilityChanges, Cancel, Exited
<1> QED
  BY <1>1, <1>2, <1>3, <1>4 DEF WorldMoves

(* What Session holds covers what the process has outside itself.  The     *)
(* shape of the session at each point of the engine makes it inductive.    *)
OwnedInv == SessionShape /\ ResourcesOwned

LEMMA OwnedStep == TypeOK /\ OwnedInv /\ [Next]_vars => OwnedInv'
<1> SUFFICES ASSUME TypeOK, OwnedInv, [Next]_vars PROVE OwnedInv'
  OBVIOUS
<1> USE DEF OwnedInv, SessionShape, ResourcesOwned, Serving, Looping, ReturnError, CloseWith, worldVars, heldVars,
           counterVars, historyVars, leaseVars
<1>1. ASSUME NEW m \in Observed, FirstSTUN(m) PROVE OwnedInv'
  BY <1>1 DEF FirstSTUN
<1>2. ASSUME NEW m \in Observed, SecondSTUN(m) PROVE OwnedInv'
  BY <1>2 DEF SecondSTUN
<1>3. ASSUME NEW m \in Observed, Recheck(m) PROVE OwnedInv'
  BY <1>3 DEF Recheck
<1>4. CASE FirstSTUNFails
  BY <1>4 DEF FirstSTUNFails
<1>5. CASE SecondSTUNFails
  BY <1>5 DEF SecondSTUNFails
<1>6. CASE FirstKeepAlive
  BY <1>6 DEF FirstKeepAlive
<1>7. CASE FirstKeepAliveFails
  BY <1>7 DEF FirstKeepAliveFails
<1>8. CASE StartForwarder
  BY <1>8 DEF StartForwarder
<1>9. ASSUME NEW b \in BOOLEAN, StartForwarderFails(b) PROVE OwnedInv'
  BY <1>9 DEF StartForwarderFails
<1>10. CASE UPnPForward
  BY <1>10 DEF UPnPForward
<1>11. ASSUME NEW b \in BOOLEAN, UPnPForwardFails(b) PROVE OwnedInv'
  BY <1>11 DEF UPnPForwardFails
<1>12. CASE Notify
  BY <1>12 DEF Notify
<1>13. CASE NotifyFails
  BY <1>13 DEF NotifyFails
<1>14. CASE Commit
  BY <1>14 DEF Commit
<1>15. CASE TargetClosed
  BY <1>15 DEF TargetClosed
<1>16. CASE Done
  BY <1>16 DEF Done
<1>17. CASE KeepAliveTick
  BY <1>17 DEF KeepAliveTick, CountTick, CountSuccess
<1>18. CASE KeepAliveFailsTick
  BY <1>18 DEF KeepAliveFailsTick, CountTick
<1>19. CASE KeepAliveLosesAddressTick
  BY <1>19 DEF KeepAliveLosesAddressTick, CountTick
<1>20. CASE RecheckFails
  BY <1>20 DEF RecheckFails
<1>21. CASE RecheckLosesAddress
  BY <1>21 DEF RecheckLosesAddress
<1>22. ASSUME NEW b \in BOOLEAN, NEW c \in BOOLEAN, CloseSession(b, c) PROVE OwnedInv'
  BY <1>22 DEF CloseSession, StopForwarder, RevokeUPnP
<1>23. CASE RunEnds
  BY <1>23 DEF RunEnds
<1>24. CASE RunRetries
  BY <1>24 DEF RunRetries
<1>25. CASE BackoffCanceled
  BY <1>25 DEF BackoffCanceled
<1>26. CASE BackoffElapsed
  BY <1>26 DEF BackoffElapsed
<1>27. CASE LeaseExpires
  BY <1>27 DEF LeaseExpires
<1>29. CASE Renew
  <2>1. pc = "renew" /\ pc' \in {"loop", "recheck"} /\ UNCHANGED <<fwd, kaOpen, session, leaked>>
    BY <1>29 DEF Renew, CountSuccess
  <2>2. router' \in {router, mapping.inner}
    BY <1>29 DEF Renew
  <2>3. "UPnP" \in session
    BY <2>1 DEF OwnedInv
  <2> QED
    BY <2>1, <2>2, <2>3
<1>28. CASE WorldMoves
  BY <1>28, WorldLeavesProcess DEF processVars
<1> QED
  BY <1>1, <1>2, <1>3, <1>4, <1>5, <1>6, <1>7, <1>8, <1>9, <1>10, <1>11, <1>12, <1>13,
     <1>14, <1>15, <1>16, <1>17, <1>18, <1>19, <1>20, <1>21, <1>22, <1>23, <1>24, <1>25,
     <1>26, <1>27, <1>28, <1>29
     DEF Next, Process, World, WorldMoves, StartSession, RunLoop, RunWithRetry

\* Nothing is left behind on any path of StartSession and RunLoop, for every
\* configuration and every failure of the calls.
THEOREM ResourcesAlwaysOwned == Spec => []ResourcesOwned
<1>1. Init => OwnedInv
  BY DEF Init, OwnedInv, SessionShape, ResourcesOwned, Serving, Looping
<1>2. OwnedInv => ResourcesOwned
  BY DEF OwnedInv
<1> QED
  BY <1>1, <1>2, OwnedStep, TypeCorrect, PTL DEF Spec

(* The pair that is announced, forwarded and kept alive is one pair.       *)
PairInv == SessionShape /\ PairShape

LEMMA PairStep == TypeOK /\ OwnedInv /\ PairInv /\ [Next]_vars => PairInv'
<1> SUFFICES ASSUME TypeOK, OwnedInv, PairInv, [Next]_vars PROVE PairShape'
  BY OwnedStep DEF OwnedInv, PairInv
<1> USE DEF PairInv, PairShape, Serving, Looping, ReturnError, CloseWith, worldVars, heldVars,
           counterVars, historyVars, leaseVars
<1>1. ASSUME NEW m \in Observed, FirstSTUN(m) PROVE PairShape'
  BY <1>1 DEF FirstSTUN
<1>2. ASSUME NEW m \in Observed, SecondSTUN(m) PROVE PairShape'
  BY <1>2 DEF SecondSTUN, ChooseMapping, Observed
<1>3. ASSUME NEW m \in Observed, Recheck(m) PROVE PairShape'
  BY <1>3 DEF Recheck
<1>4. CASE FirstSTUNFails
  BY <1>4 DEF FirstSTUNFails
<1>5. CASE SecondSTUNFails
  BY <1>5 DEF SecondSTUNFails
<1>6. CASE FirstKeepAlive
  BY <1>6 DEF FirstKeepAlive
<1>7. CASE FirstKeepAliveFails
  BY <1>7 DEF FirstKeepAliveFails
<1>8. CASE StartForwarder
  BY <1>8 DEF StartForwarder
<1>9. ASSUME NEW b \in BOOLEAN, StartForwarderFails(b) PROVE PairShape'
  BY <1>9 DEF StartForwarderFails
<1>10. CASE UPnPForward
  BY <1>10 DEF UPnPForward
<1>11. ASSUME NEW b \in BOOLEAN, UPnPForwardFails(b) PROVE PairShape'
  BY <1>11 DEF UPnPForwardFails
<1>12. CASE Notify
  BY <1>12 DEF Notify
<1>13. CASE NotifyFails
  BY <1>13 DEF NotifyFails
<1>14. CASE Commit
  BY <1>14 DEF Commit
<1>15. CASE TargetClosed
  BY <1>15 DEF TargetClosed
<1>16. CASE Done
  BY <1>16 DEF Done
<1>17. CASE KeepAliveTick
  BY <1>17 DEF KeepAliveTick, CountTick, CountSuccess
<1>18. CASE KeepAliveFailsTick
  BY <1>18 DEF KeepAliveFailsTick, CountTick
<1>19. CASE KeepAliveLosesAddressTick
  BY <1>19 DEF KeepAliveLosesAddressTick, CountTick
<1>20. CASE RecheckFails
  BY <1>20 DEF RecheckFails
<1>21. CASE RecheckLosesAddress
  BY <1>21 DEF RecheckLosesAddress
<1>22. ASSUME NEW b \in BOOLEAN, NEW c \in BOOLEAN, CloseSession(b, c) PROVE PairShape'
  BY <1>22 DEF CloseSession
<1>23. CASE RunEnds
  BY <1>23 DEF RunEnds
<1>24. CASE RunRetries
  BY <1>24 DEF RunRetries
<1>25. CASE BackoffCanceled
  BY <1>25 DEF BackoffCanceled
<1>26. CASE BackoffElapsed
  BY <1>26 DEF BackoffElapsed
<1>27. CASE LeaseExpires
  BY <1>27 DEF LeaseExpires
<1>29. CASE Renew
  BY <1>29 DEF Renew, CountSuccess
<1>28. CASE WorldMoves
  BY <1>28, WorldLeavesProcess DEF processVars
<1> QED
  BY <1>1, <1>2, <1>3, <1>4, <1>5, <1>6, <1>7, <1>8, <1>9, <1>10, <1>11, <1>12, <1>13,
     <1>14, <1>15, <1>16, <1>17, <1>18, <1>19, <1>20, <1>21, <1>22, <1>23, <1>24, <1>25,
     <1>26, <1>27, <1>28, <1>29
     DEF Next, Process, World, WorldMoves, StartSession, RunLoop, RunWithRetry

\* Holds for every STUN client, also one that changes its local port (G-14).
THEOREM PairAlwaysServed == Spec => []AnnouncedPairServed
<1>1. Init => OwnedInv /\ PairInv
  BY DEF Init, OwnedInv, PairInv, SessionShape, PairShape, ResourcesOwned, Serving, Looping
<1>2. PairInv => AnnouncedPairServed
  BY DEF PairInv, SessionShape, PairShape, AnnouncedPairServed, Serving, Looping
<1> QED
  BY <1>1, <1>2, OwnedStep, PairStep, TypeCorrect, PTL DEF Spec

-----------------------------------------------------------------------------
(* How long a changed mapping can go unnoticed.                            *)

\* Multiplication is monotone.
LEMMA TimesMonotone ==
  ASSUME NEW a \in Nat, NEW b \in Nat, NEW k \in Nat, a <= b
  PROVE  a * k \in Nat /\ b * k \in Nat /\ a * k <= b * k
<1> DEFINE d == b - a
<1>1. d \in Nat /\ b = a + d
  OBVIOUS
<1>2. (a + d) * k = a * k + d * k
  BY <1>1
<1>3. a * k \in Nat /\ d * k \in Nat
  BY <1>1
<1> QED
  BY <1>1, <1>2, <1>3

\* A tick costs at most its share of the next successful keep-alive.
LEMMA TickCost ==
  ASSUME NEW x \in Nat, NEW k \in Nat, NEW K \in Nat, k < K
  PROVE  x * K \in Nat /\ (x + 1) * K = x * K + K /\ x * K + k + 1 <= (x + 1) * K
<1>1. (x + 1) * K = x * K + K
  OBVIOUS
<1>2. x * K \in Nat
  OBVIOUS
<1> QED
  BY <1>1, <1>2

\* s failed rechecks and c successes of the next round are within the bound.
LEMMA WithinBound ==
  ASSUME NEW s \in Nat, NEW c \in Nat, NEW S \in Nat, NEW R \in Nat, NEW K \in Nat,
         s + 1 <= S, c <= R
  PROVE  /\ s * R + c \in Nat
         /\ (s * R + c) * K <= R * S * K
<1>1. (s + 1) * R = s * R + R /\ s * R \in Nat
  BY TickCost
<1>2. (s + 1) * R <= S * R
  BY TimesMonotone
<1>3. s * R + c \in Nat /\ S * R = R * S /\ R * S \in Nat
  BY <1>1
<1>4. s * R + c <= R * S
  BY <1>1, <1>2, <1>3
<1> QED
  BY <1>3, <1>4, TimesMonotone

LEMMA CountersStep == TypeOK /\ CountersShape /\ [Next]_vars => CountersShape'
<1> SUFFICES ASSUME TypeOK, CountersShape, [Next]_vars PROVE CountersShape'
  OBVIOUS
<1> USE LimitsAssumption DEF CountersShape, TypeOK, ProcessTypeOK, ReturnError, CloseWith, worldVars,
           heldVars, counterVars, historyVars, leaseVars
<1>1. ASSUME NEW m \in Observed, FirstSTUN(m) PROVE CountersShape'
  BY <1>1 DEF FirstSTUN
<1>2. ASSUME NEW m \in Observed, SecondSTUN(m) PROVE CountersShape'
  BY <1>2 DEF SecondSTUN
<1>3. ASSUME NEW m \in Observed, Recheck(m) PROVE CountersShape'
  BY <1>3 DEF Recheck
<1>4. CASE FirstSTUNFails
  BY <1>4 DEF FirstSTUNFails
<1>5. CASE SecondSTUNFails
  BY <1>5 DEF SecondSTUNFails
<1>6. CASE FirstKeepAlive
  BY <1>6 DEF FirstKeepAlive
<1>7. CASE FirstKeepAliveFails
  BY <1>7 DEF FirstKeepAliveFails
<1>8. CASE StartForwarder
  BY <1>8 DEF StartForwarder
<1>9. ASSUME NEW b \in BOOLEAN, StartForwarderFails(b) PROVE CountersShape'
  BY <1>9 DEF StartForwarderFails
<1>10. CASE UPnPForward
  BY <1>10 DEF UPnPForward
<1>11. ASSUME NEW b \in BOOLEAN, UPnPForwardFails(b) PROVE CountersShape'
  BY <1>11 DEF UPnPForwardFails
<1>12. CASE Notify
  BY <1>12 DEF Notify
<1>13. CASE NotifyFails
  BY <1>13 DEF NotifyFails
<1>14. CASE Commit
  BY <1>14 DEF Commit
<1>15. CASE TargetClosed
  BY <1>15 DEF TargetClosed
<1>16. CASE Done
  BY <1>16 DEF Done
<1>17. CASE KeepAliveTick
  BY <1>17 DEF KeepAliveTick, CountTick, CountSuccess
<1>18. CASE KeepAliveFailsTick
  BY <1>18 DEF KeepAliveFailsTick, CountTick
<1>19. CASE KeepAliveLosesAddressTick
  BY <1>19 DEF KeepAliveLosesAddressTick, CountTick
<1>20. CASE RecheckFails
  BY <1>20 DEF RecheckFails
<1>21. CASE RecheckLosesAddress
  BY <1>21 DEF RecheckLosesAddress
<1>22. ASSUME NEW b \in BOOLEAN, NEW c \in BOOLEAN, CloseSession(b, c) PROVE CountersShape'
  BY <1>22 DEF CloseSession
<1>23. CASE RunEnds
  BY <1>23 DEF RunEnds
<1>24. CASE RunRetries
  BY <1>24 DEF RunRetries
<1>25. CASE BackoffCanceled
  BY <1>25 DEF BackoffCanceled
<1>26. CASE BackoffElapsed
  BY <1>26 DEF BackoffElapsed
<1>27. CASE LeaseExpires
  BY <1>27 DEF LeaseExpires
<1>29. CASE Renew
  BY <1>29 DEF Renew, CountSuccess
<1>28. CASE WorldMoves
  BY <1>28, WorldLeavesProcess DEF processVars
<1> QED
  BY <1>1, <1>2, <1>3, <1>4, <1>5, <1>6, <1>7, <1>8, <1>9, <1>10, <1>11, <1>12, <1>13,
     <1>14, <1>15, <1>16, <1>17, <1>18, <1>19, <1>20, <1>21, <1>22, <1>23, <1>24, <1>25,
     <1>26, <1>27, <1>28, <1>29
     DEF Next, Process, World, WorldMoves, StartSession, RunLoop, RunWithRetry

LEMMA SourceStep ==
  ~InnerDrift /\ SourceShape /\ PairInv /\ [Next]_vars => SourceShape'
<1> SUFFICES ASSUME ~InnerDrift, SourceShape, PairInv, [Next]_vars PROVE SourceShape'
  OBVIOUS
<1> USE EndpointsAssumption
        DEF SourceShape, PairInv, PairShape, Serving, Looping, STUNAnswers, Observed, ReturnError, CloseWith,
            worldVars, heldVars, counterVars, historyVars, leaseVars
<1>1. ASSUME NEW m \in Observed, FirstSTUN(m) PROVE SourceShape'
  BY <1>1 DEF FirstSTUN
<1>2. ASSUME NEW m \in Observed, SecondSTUN(m) PROVE SourceShape'
  BY <1>2 DEF SecondSTUN
<1>3. ASSUME NEW m \in Observed, Recheck(m) PROVE SourceShape'
  BY <1>3 DEF Recheck
<1>4. CASE FirstSTUNFails
  BY <1>4 DEF FirstSTUNFails
<1>5. CASE SecondSTUNFails
  BY <1>5 DEF SecondSTUNFails
<1>6. CASE FirstKeepAlive
  BY <1>6 DEF FirstKeepAlive
<1>7. CASE FirstKeepAliveFails
  BY <1>7 DEF FirstKeepAliveFails
<1>8. CASE StartForwarder
  BY <1>8 DEF StartForwarder
<1>9. ASSUME NEW b \in BOOLEAN, StartForwarderFails(b) PROVE SourceShape'
  BY <1>9 DEF StartForwarderFails
<1>10. CASE UPnPForward
  BY <1>10 DEF UPnPForward
<1>11. ASSUME NEW b \in BOOLEAN, UPnPForwardFails(b) PROVE SourceShape'
  BY <1>11 DEF UPnPForwardFails
<1>12. CASE Notify
  BY <1>12 DEF Notify
<1>13. CASE NotifyFails
  BY <1>13 DEF NotifyFails
<1>14. CASE Commit
  BY <1>14 DEF Commit
<1>15. CASE TargetClosed
  BY <1>15 DEF TargetClosed
<1>16. CASE Done
  BY <1>16 DEF Done
<1>17. CASE KeepAliveTick
  BY <1>17 DEF KeepAliveTick, CountTick, CountSuccess
<1>18. CASE KeepAliveFailsTick
  BY <1>18 DEF KeepAliveFailsTick, CountTick
<1>19. CASE KeepAliveLosesAddressTick
  BY <1>19 DEF KeepAliveLosesAddressTick, CountTick
<1>20. CASE RecheckFails
  BY <1>20 DEF RecheckFails
<1>21. CASE RecheckLosesAddress
  BY <1>21 DEF RecheckLosesAddress
<1>22. ASSUME NEW b \in BOOLEAN, NEW c \in BOOLEAN, CloseSession(b, c) PROVE SourceShape'
  BY <1>22 DEF CloseSession
<1>23. CASE RunEnds
  BY <1>23 DEF RunEnds
<1>24. CASE RunRetries
  BY <1>24 DEF RunRetries
<1>25. CASE BackoffCanceled
  BY <1>25 DEF BackoffCanceled
<1>26. CASE BackoffElapsed
  BY <1>26 DEF BackoffElapsed
<1>27. CASE LeaseExpires
  BY <1>27 DEF LeaseExpires
<1>29. CASE Renew
  BY <1>29 DEF Renew, CountSuccess
<1>28. CASE WorldMoves
  BY <1>28, WorldLeavesProcess DEF processVars
<1> QED
  BY <1>1, <1>2, <1>3, <1>4, <1>5, <1>6, <1>7, <1>8, <1>9, <1>10, <1>11, <1>12, <1>13,
     <1>14, <1>15, <1>16, <1>17, <1>18, <1>19, <1>20, <1>21, <1>22, <1>23, <1>24, <1>25,
     <1>26, <1>27, <1>28, <1>29
     DEF Next, Process, World, WorldMoves, StartSession, RunLoop, RunWithRetry

LEMMA StaleStep ==
  ASSUME TypeOK, ~InnerDrift, CountersShape, SourceShape, PairInv, StaleShape, [Next]_vars
  PROVE  StaleShape'
<1> USE DEF StaleShape, Looping, ReturnError, CloseWith, worldVars, heldVars, counterVars, historyVars, leaseVars
<1> DEFINE K == KeepAliveLimit
           X == stunFailures * RecheckEvery + count
<1>t. /\ keepAliveFailures \in Nat /\ stunFailures \in Nat /\ count \in Nat
      /\ staleTicks \in Nat
      /\ RecheckEvery \in Nat /\ STUNLimit \in Nat /\ K \in Nat
  BY LimitsAssumption DEF TypeOK, ProcessTypeOK, HistoryTypeOK
<1>b. /\ StaleBound \in Nat
      /\ (stunFailures * RecheckEvery + count) * K \in Nat
      /\ (stunFailures * RecheckEvery + RecheckEvery) * K \in Nat
  BY <1>t DEF StaleBound
<1>c. pc = "loop" => /\ X \in Nat /\ X * K \in Nat /\ (X + 1) * K \in Nat
                     /\ X * K + keepAliveFailures + 1 <= (X + 1) * K
                     /\ (X + 1) * K <= StaleBound
                     /\ staleTicks + 1 <= (X + 1) * K
  <2> SUFFICES ASSUME pc = "loop" PROVE <1>c!2
    OBVIOUS
  <2>1. keepAliveFailures < K /\ stunFailures + 1 <= STUNLimit /\ count + 1 <= RecheckEvery
    BY <1>t DEF CountersShape
  <2>2. X \in Nat /\ X + 1 = stunFailures * RecheckEvery + (count + 1)
    BY <1>t
  <2>3. X * K \in Nat /\ X * K + keepAliveFailures + 1 <= (X + 1) * K
    BY <1>t, <2>1, <2>2, TickCost
  <2>4. (X + 1) * K <= StaleBound
    BY <1>t, <2>1, <2>2, WithinBound DEF StaleBound
  <2> QED
    BY <1>t, <2>2, <2>3, <2>4
<1>1. ASSUME NEW m \in Observed, FirstSTUN(m) PROVE StaleShape'
  BY <1>1, <1>t, <1>b DEF FirstSTUN, Stale
<1>2. ASSUME NEW m \in Observed, SecondSTUN(m) PROVE StaleShape'
  BY <1>2, <1>t, <1>b DEF SecondSTUN, Stale
<1>3. ASSUME NEW m \in Observed, Recheck(m) PROVE StaleShape'
  <2>1. m.inner = mapping.inner
    BY <1>3, EndpointsAssumption
       DEF Recheck, STUNAnswers, SourceShape, PairInv, PairShape, Serving, Looping, Observed
  <2>2. Stale' = Stale /\ staleTicks' = staleTicks
    BY <1>3, <1>t, <1>b DEF Recheck, Stale
  <2>3. CASE m.outer # mapping.outer
    BY <1>3, <1>t, <1>b, <2>2, <2>3 DEF Recheck
  <2>4. CASE m.outer = mapping.outer
    <3>1. ~Stale
      BY <1>3, <1>t, <1>b, <2>1, <2>4 DEF Recheck, STUNAnswers, Stale
    <3>2. staleTicks = 0
      BY <1>3, <1>t, <1>b, <3>1 DEF Recheck
    <3>3. pc' = "loop" /\ stunFailures' = 0 /\ count' = 0 /\ keepAliveFailures' = 0
      BY <1>3, <1>t, <1>b, <2>4 DEF Recheck, CountersShape
    <3>4. (stunFailures' * RecheckEvery + count') * K + keepAliveFailures' = 0
      BY <3>3, <1>t
    <3> QED
      BY <2>2, <3>1, <3>2, <3>3, <3>4, <1>b
  <2> QED
    BY <2>3, <2>4
<1>4. CASE FirstSTUNFails
  BY <1>4, <1>t, <1>b DEF FirstSTUNFails, Stale
<1>5. CASE SecondSTUNFails
  BY <1>5, <1>t, <1>b DEF SecondSTUNFails, Stale
<1>6. CASE FirstKeepAlive
  BY <1>6, <1>t, <1>b DEF FirstKeepAlive, Stale
<1>7. CASE FirstKeepAliveFails
  BY <1>7, <1>t, <1>b DEF FirstKeepAliveFails, Stale
<1>8. CASE StartForwarder
  BY <1>8, <1>t, <1>b DEF StartForwarder, Stale
<1>9. ASSUME NEW b \in BOOLEAN, StartForwarderFails(b) PROVE StaleShape'
  BY <1>9, <1>t, <1>b DEF StartForwarderFails, Stale
<1>10. CASE UPnPForward
  BY <1>10, <1>t, <1>b DEF UPnPForward, Stale
<1>11. ASSUME NEW b \in BOOLEAN, UPnPForwardFails(b) PROVE StaleShape'
  BY <1>11, <1>t, <1>b DEF UPnPForwardFails, Stale
<1>12. CASE Notify
  BY <1>12, <1>t, <1>b DEF Notify, Stale
<1>13. CASE NotifyFails
  BY <1>13, <1>t, <1>b DEF NotifyFails, Stale
<1>14. CASE Commit
  BY <1>14, <1>t, <1>b DEF Commit, Stale
<1>15. CASE TargetClosed
  BY <1>15, <1>t, <1>b DEF TargetClosed, Stale
<1>16. CASE Done
  BY <1>16, <1>t, <1>b DEF Done, Stale
<1>17. CASE KeepAliveTick
  <2>1. staleTicks' <= staleTicks + 1 /\ (~Stale' => staleTicks' = 0) /\ staleTicks' \in Nat
    BY <1>17, <1>t, <1>b DEF KeepAliveTick, CountTick, CountSuccess, Stale
  <2>2. staleTicks' <= (X + 1) * K /\ staleTicks' <= StaleBound
    BY <1>17, <1>t, <1>b, <1>c, <2>1 DEF KeepAliveTick, CountTick, CountSuccess
  <2>3. CASE "UPnP" \in session
    <3>1. /\ count' = count /\ pc' = "renew" /\ keepAliveFailures' = 0
          /\ stunFailures' = stunFailures
      BY <1>17, <2>3 DEF KeepAliveTick
    <3> QED
      BY <2>1, <2>2, <3>1
  <2>4. CASE "UPnP" \notin session /\ count + 1 >= RecheckEvery
    <3>1. X + 1 = stunFailures * RecheckEvery + RecheckEvery
      BY <1>17, <1>t, <2>4 DEF KeepAliveTick, CountTick, CountersShape
    <3> QED
      BY <1>17, <1>t, <1>b, <2>1, <2>2, <2>4, <3>1 DEF KeepAliveTick, CountTick, CountSuccess
  <2>5. CASE "UPnP" \notin session /\ ~(count + 1 >= RecheckEvery)
    <3>1. /\ count' = count + 1 /\ pc' = "loop" /\ keepAliveFailures' = 0
          /\ stunFailures' = stunFailures
      BY <1>17, <1>t, <1>b, <2>5 DEF KeepAliveTick, CountTick, CountSuccess
    <3>2. X + 1 = stunFailures' * RecheckEvery + count'
      BY <1>t, <3>1
    <3>3. (X + 1) * K + 0 = (X + 1) * K
      BY <1>t
    <3> QED
      BY <2>1, <2>2, <3>1, <3>2, <3>3
  <2> QED
    BY <2>3, <2>4, <2>5
<1>18. CASE KeepAliveFailsTick
  <2>1. staleTicks' <= staleTicks + 1 /\ (~Stale' => staleTicks' = 0) /\ staleTicks' \in Nat
    BY <1>18, <1>t, <1>b DEF KeepAliveFailsTick, CountTick, Stale
  <2>2. staleTicks' <= X * K + keepAliveFailures + 1
    BY <1>18, <1>t, <1>b, <2>1 DEF KeepAliveFailsTick, CountTick
  <2>3. staleTicks' <= StaleBound
    BY <1>18, <1>t, <1>b, <1>c, <2>1, <2>2 DEF KeepAliveFailsTick, CountTick
  <2> QED
    BY <1>18, <1>t, <1>b, <2>1, <2>2, <2>3 DEF KeepAliveFailsTick, CountTick
<1>19. CASE KeepAliveLosesAddressTick
  <2>1. staleTicks' <= staleTicks + 1 /\ staleTicks' \in Nat
    BY <1>19, <1>t, <1>b DEF KeepAliveLosesAddressTick, CountTick
  <2> QED
    BY <1>19, <1>t, <1>b, <1>c, <2>1 DEF KeepAliveLosesAddressTick, CountTick
<1>20. CASE RecheckFails
  <2>1. Stale' = Stale /\ staleTicks' = staleTicks
    BY <1>20, <1>t, <1>b DEF RecheckFails, Stale
  <2>2. count' = 0 /\ keepAliveFailures' = 0 /\ stunFailures' = stunFailures + 1
    BY <1>20, <1>t, <1>b DEF RecheckFails, CountersShape
  <2>3. stunFailures' * RecheckEvery + count' = stunFailures * RecheckEvery + RecheckEvery
    BY <2>2, <1>t, TickCost
  <2>4. pc = "recheck" /\ pc' \in {"loop", "close"}
    BY <1>20, <1>t, <1>b DEF RecheckFails
  <2>5. (stunFailures' * RecheckEvery + count') * K + 0
          = (stunFailures * RecheckEvery + RecheckEvery) * K
    BY <2>2, <2>3, <1>t
  <2> QED
    BY <2>1, <2>2, <2>4, <2>5
<1>21. CASE RecheckLosesAddress
  BY <1>21, <1>t, <1>b DEF RecheckLosesAddress, Stale
<1>22. ASSUME NEW b \in BOOLEAN, NEW c \in BOOLEAN, CloseSession(b, c) PROVE StaleShape'
  BY <1>22, <1>t, <1>b DEF CloseSession, Stale
<1>23. CASE RunEnds
  BY <1>23, <1>t, <1>b DEF RunEnds, Stale
<1>24. CASE RunRetries
  BY <1>24, <1>t, <1>b DEF RunRetries, Stale
<1>25. CASE BackoffCanceled
  BY <1>25, <1>t, <1>b DEF BackoffCanceled, Stale
<1>26. CASE BackoffElapsed
  BY <1>26, <1>t, <1>b DEF BackoffElapsed, Stale
<1>27. CASE LeaseExpires
  BY <1>27, <1>t, <1>b DEF LeaseExpires, Stale
<1>29. CASE Renew
  <2>1. staleTicks' = staleTicks /\ Stale' = Stale /\ pc = "renew"
    BY <1>29 DEF Renew, Stale
  <2>2. staleTicks <= (X + 1) * K /\ staleTicks <= StaleBound
    BY <1>t, <2>1
  <2>3. CASE count + 1 >= RecheckEvery
    <3>1. X + 1 = stunFailures * RecheckEvery + RecheckEvery
      BY <2>1, <1>t, <2>3 DEF CountersShape
    <3>2. pc' = "recheck" /\ stunFailures' = stunFailures
      BY <1>29, <2>3 DEF Renew, CountSuccess
    <3> QED
      BY <2>1, <2>2, <3>1, <3>2
  <2>4. CASE ~(count + 1 >= RecheckEvery)
    <3>1. /\ count' = count + 1 /\ pc' = "loop" /\ keepAliveFailures' = 0
          /\ stunFailures' = stunFailures
      BY <1>29, <2>1, <2>4 DEF Renew, CountSuccess, CountersShape
    <3>2. X + 1 = stunFailures' * RecheckEvery + count'
      BY <1>t, <3>1
    <3>3. (X + 1) * K + 0 = (X + 1) * K
      BY <1>t
    <3> QED
      BY <2>1, <2>2, <3>1, <3>2, <3>3
  <2> QED
    BY <2>3, <2>4
<1>28. CASE WorldMoves
  <2>1. UNCHANGED <<pc, keepAliveFailures, stunFailures, count, mapping>>
    BY <1>28, <1>t, <1>b, WorldLeavesProcess DEF processVars
  <2>2. UNCHANGED <<nat, staleTicks>> => StaleShape'
    BY <1>t, <2>1 DEF Stale
  <2>3. ASSUME NEW a \in Addrs \cup {None}, AddressChanges(a) PROVE StaleShape'
    BY <2>2, <2>3 DEF AddressChanges
  <2>4. ASSUME NEW i \in Inners, NEW o \in Outers, NATRebinds(i, o) PROVE StaleShape'
    <3>1. staleTicks' = 0
      BY <2>4 DEF NATRebinds
    <3> QED
      BY <2>1, <3>1, <1>t, <1>b
  <2>5. ReachabilityChanges \/ Cancel \/ Exited \/ UNCHANGED vars => StaleShape'
    BY <2>2 DEF ReachabilityChanges, Cancel, Exited, vars
  <2> QED
    BY <1>28, <1>t, <1>b, <2>3, <2>4, <2>5 DEF WorldMoves
<1> QED
  BY <1>1, <1>2, <1>3, <1>4, <1>5, <1>6, <1>7, <1>8, <1>9, <1>10, <1>11, <1>12, <1>13,
     <1>14, <1>15, <1>16, <1>17, <1>18, <1>19, <1>20, <1>21, <1>22, <1>23, <1>24, <1>25,
     <1>26, <1>27, <1>28, <1>29
     DEF Next, Process, World, WorldMoves, StartSession, RunLoop, RunWithRetry

\* A changed mapping is noticed within StaleBound handled ticks, whatever the
\* limits and however the failures interleave, when the STUN client keeps its port.
THEOREM ChangeAlwaysNoticed == Spec => []ChangeNoticedInTime
<1> DEFINE Inv == OwnedInv /\ PairInv /\ CountersShape /\ (~InnerDrift => SourceShape /\ StaleShape)
<1>1. Init => Inv
  <2> SUFFICES ASSUME Init PROVE Inv
    OBVIOUS
  <2>1. OwnedInv /\ PairInv /\ CountersShape /\ SourceShape
    BY DEF Init, OwnedInv, PairInv, SessionShape, PairShape, ResourcesOwned, Serving, Looping,
           CountersShape, SourceShape
  <2>2. RecheckEvery * STUNLimit \in Nat
    BY LimitsAssumption
  <2>3. StaleBound \in Nat
    BY LimitsAssumption, <2>2 DEF StaleBound
  <2>4. StaleShape
    BY <2>3 DEF Init, StaleShape
  <2> QED
    BY <2>1, <2>4
<1>2. TypeOK /\ Inv /\ [Next]_vars => Inv'
  BY OwnedStep, PairStep, CountersStep, SourceStep, StaleStep
<1>3. Inv => ChangeNoticedInTime
  BY DEF StaleShape, ChangeNoticedInTime
<1> QED
  BY <1>1, <1>2, <1>3, TypeCorrect, PTL DEF Spec

-----------------------------------------------------------------------------
(* The router's lease.                                                     *)

LEMMA AgeIsNat == TypeOK => AgeLimit \in Nat
<1> SUFFICES ASSUME TypeOK PROVE AgeLimit \in Nat
  OBVIOUS
<1>1. FailedInARow \in Nat
  BY DEF TypeOK, ProcessTypeOK, HistoryTypeOK, FailedInARow
<1>2. FailedInARow * TickGap \in Nat
  BY <1>1, TimesAssumption
<1> QED
  BY <1>2, TimesAssumption DEF AgeLimit

LEMMA LeaseStep ==
  ASSUME TypeOK, SessionShape, CountersShape, LeaseShape, [Next]_vars
  PROVE  LeaseShape'
<1> USE DEF LeaseShape, SessionShape, Serving, Looping, ReturnError, CloseWith, worldVars, heldVars, counterVars,
           historyVars, leaseVars
<1>t. /\ keepAliveFailures \in Nat /\ failedBefore \in Nat /\ leaseAge \in Nat
      /\ LeaseDuration \in Nat /\ TickGap \in Nat /\ TickTime \in Nat /\ StartTime \in Nat
  BY TimesAssumption DEF TypeOK, ProcessTypeOK, HistoryTypeOK
<1>n. /\ FailedInARow \in Nat
      /\ FailedInARow * TickGap \in Nat
      /\ (FailedInARow + 1) * TickGap = FailedInARow * TickGap + TickGap
      /\ 0 * TickGap = 0
  BY <1>t DEF FailedInARow
<1>s. UNCHANGED <<renewal, keepAliveFailures, failedBefore>> => AgeLimit' = AgeLimit
  BY DEF AgeLimit, FailedInARow
<1>l. AgeLimit \in Nat
  BY AgeIsNat
<1>1. ASSUME NEW m \in Observed, FirstSTUN(m) PROVE LeaseShape'
  BY <1>1 DEF FirstSTUN
<1>2. ASSUME NEW m \in Observed, SecondSTUN(m) PROVE LeaseShape'
  BY <1>2 DEF SecondSTUN
<1>3. ASSUME NEW m \in Observed, Recheck(m) PROVE LeaseShape'
  BY <1>3, <1>s DEF Recheck, AgeUntilThen
<1>4. CASE FirstSTUNFails
  BY <1>4 DEF FirstSTUNFails
<1>5. CASE SecondSTUNFails
  BY <1>5 DEF SecondSTUNFails
<1>6. CASE FirstKeepAlive
  BY <1>6 DEF FirstKeepAlive
<1>7. CASE FirstKeepAliveFails
  BY <1>7 DEF FirstKeepAliveFails
<1>8. CASE StartForwarder
  BY <1>8 DEF StartForwarder
<1>9. ASSUME NEW b \in BOOLEAN, StartForwarderFails(b) PROVE LeaseShape'
  BY <1>9 DEF StartForwarderFails
<1>10. CASE UPnPForward
  BY <1>10, <1>t DEF UPnPForward
<1>11. ASSUME NEW b \in BOOLEAN, UPnPForwardFails(b) PROVE LeaseShape'
  BY <1>11 DEF UPnPForwardFails
<1>12. CASE Notify
  BY <1>12 DEF Notify
<1>13. CASE NotifyFails
  BY <1>13 DEF NotifyFails
<1>14. CASE Commit
  <2>1. CASE "UPnP" \in session
    <3>1. failedBefore' = 0 /\ keepAliveFailures' = 0 /\ renewal' = "none" /\ leaseAge = 0
      BY <1>14, <2>1 DEF Commit
    <3>2. AgeLimit' = StartTime
      BY <3>1, <1>t, <1>n DEF AgeLimit, FailedInARow
    <3>3. leaseAge' <= StartTime
      BY <1>14, <3>1, <1>t DEF Commit, Aged
    <3>4. router' = mapping'.inner \/ StartTime >= LeaseDuration
      BY <1>14, <2>1 DEF Commit
    <3> QED
      BY <1>14, <1>t, <3>1, <3>2, <3>3, <3>4 DEF Commit, AgeUntilThen
  <2>2. CASE "UPnP" \notin session
    BY <1>14, <2>2 DEF Commit
  <2> QED
    BY <2>1, <2>2
<1>15. CASE TargetClosed
  BY <1>15 DEF TargetClosed
<1>16. CASE Done
  BY <1>16 DEF Done
<1>17. CASE KeepAliveTick
  <2>1. CASE "UPnP" \in session
    <3>1. /\ pc = "loop" /\ pc' = "renew" /\ renewal' = renewal
          /\ router' = router /\ mapping' = mapping
      BY <1>17, <2>1 DEF KeepAliveTick, CountTick
    <3>2. failedBefore = 0 /\ failedBefore' = keepAliveFailures /\ keepAliveFailures' = 0
      BY <1>17, <2>1 DEF KeepAliveTick, CountTick
    <3>3. FailedInARow' = FailedInARow
      BY <3>2, <1>t DEF FailedInARow
    <3>4. AgeLimit' = AgeLimit
      BY <3>1, <3>3 DEF AgeLimit
    <3>5. AgeUntilThen' = AgeUntilThen + TickTime
      BY <3>1, <3>4, <1>t, <1>l DEF AgeUntilThen
    <3>6. leaseAge' <= leaseAge + TickGap
      BY <1>17, <1>t DEF KeepAliveTick, CountTick, Aged
    <3>7. AgeUntilThen \in Nat /\ leaseAge' \in Nat
      BY <1>17, <1>t, <1>l DEF AgeUntilThen, KeepAliveTick, CountTick, Aged
    <3> QED
      BY <2>1, <3>1, <3>4, <3>5, <3>6, <3>7, <1>t, <1>l
  <2>2. CASE "UPnP" \notin session
    BY <1>17, <2>2 DEF KeepAliveTick, CountTick, CountSuccess
  <2> QED
    BY <2>1, <2>2
<1>18. CASE KeepAliveFailsTick
  <2>1. /\ pc = "loop" /\ failedBefore = 0 /\ failedBefore' = 0
        /\ UNCHANGED <<renewal, router, mapping, session>>
        /\ keepAliveFailures' = keepAliveFailures + 1
    BY <1>18 DEF KeepAliveFailsTick, CountTick
  <2>2. AgeLimit' = AgeLimit + TickGap
    <3>1. FailedInARow' = FailedInARow + 1
      BY <2>1, <1>t DEF FailedInARow
    <3> QED
      BY <2>1, <3>1, <1>n, <1>t DEF AgeLimit
  <2>3. "UPnP" \in session => leaseAge' <= leaseAge + TickGap /\ leaseAge' \in Nat
    BY <1>18, <1>t DEF KeepAliveFailsTick, CountTick, Aged
  <2>4. pc' \in {"loop", "close"}
    BY <1>18, <2>1 DEF KeepAliveFailsTick
  <2>5. pc' = "loop" => AgeUntilThen' = AgeUntilThen + TickGap /\ AgeUntilThen \in Nat
    BY <2>1, <2>2, <1>t, <1>l DEF AgeUntilThen
  <2> QED
    BY <2>1, <2>2, <2>3, <2>4, <2>5, <1>t, <1>l
<1>19. CASE KeepAliveLosesAddressTick
  BY <1>19 DEF KeepAliveLosesAddressTick, CountTick, Aged
<1>20. CASE RecheckFails
  BY <1>20, <1>s DEF RecheckFails, AgeUntilThen
<1>21. CASE RecheckLosesAddress
  BY <1>21 DEF RecheckLosesAddress
<1>22. ASSUME NEW b \in BOOLEAN, NEW c \in BOOLEAN, CloseSession(b, c) PROVE LeaseShape'
  BY <1>22 DEF CloseSession, StopForwarder, RevokeUPnP
<1>23. CASE RunEnds
  BY <1>23 DEF RunEnds
<1>24. CASE RunRetries
  BY <1>24 DEF RunRetries
<1>25. CASE BackoffCanceled
  BY <1>25 DEF BackoffCanceled
<1>26. CASE BackoffElapsed
  BY <1>26 DEF BackoffElapsed
<1>27. CASE LeaseExpires
  <2>1. UNCHANGED <<pc, session, mapping, leaseAge, renewal, keepAliveFailures, failedBefore>>
    BY <1>27 DEF LeaseExpires
  <2>2. AgeLimit' = AgeLimit /\ AgeUntilThen' = AgeUntilThen
    BY <2>1, <1>s DEF AgeUntilThen
  <2>3. pc \in {"notify", "check"} /\ "UPnP" \in session => StartTime >= LeaseDuration
    BY <1>27, <1>t DEF LeaseExpires, Pending
  <2>4. Looping /\ "UPnP" \in session /\ renewal # "failed" => AgeUntilThen >= LeaseDuration
    BY <1>27, <1>t, <1>l DEF LeaseExpires, Pending, AgeUntilThen
  <2> QED
    BY <2>1, <2>2, <2>3, <2>4
<1>29. CASE Renew
  <2>1. /\ pc' \in {"loop", "recheck"} /\ failedBefore' = 0
        /\ keepAliveFailures' = keepAliveFailures /\ mapping' = mapping
    BY <1>29 DEF Renew, CountSuccess
  <2>2. CASE renewal' = "failed"
    BY <2>1, <2>2
  <2>3. CASE renewal' # "failed"
    <3>1. router' = mapping.inner /\ leaseAge' = 0 /\ renewal' = "accepted"
      BY <1>29, <2>3 DEF Renew
    <3>2. AgeLimit' = 0
      BY <1>29, <2>1, <3>1, <1>n DEF Renew, CountersShape, AgeLimit, FailedInARow
    <3> QED
      BY <2>1, <3>1, <3>2
  <2> QED
    BY <2>2, <2>3
<1>28. CASE WorldMoves
  BY <1>28, <1>s, WorldLeavesProcess DEF processVars, AgeUntilThen
<1> QED
  BY <1>1, <1>2, <1>3, <1>4, <1>5, <1>6, <1>7, <1>8, <1>9, <1>10, <1>11, <1>12, <1>13,
     <1>14, <1>15, <1>16, <1>17, <1>18, <1>19, <1>20, <1>21, <1>22, <1>23, <1>24, <1>25,
     <1>26, <1>27, <1>28, <1>29
     DEF Next, Process, World, WorldMoves, StartSession, RunLoop, RunWithRetry

\* The lease outlasts the keep-alive failures it covers, whatever its length, the
\* interval, the time a tick and StartSession take, and the limits of RunLoop.
THEOREM PortAlwaysStaysOpen == Spec => []PortStaysOpen
<1>1. Init => OwnedInv /\ CountersShape /\ LeaseShape
  BY DEF Init, OwnedInv, SessionShape, ResourcesOwned, CountersShape, LeaseShape, Serving, Looping
<1>2. OwnedInv => SessionShape
  BY DEF OwnedInv
<1>3. TypeOK /\ LeaseShape => PortStaysOpen
  <2> SUFFICES ASSUME TypeOK, LeaseShape, Looping, "UPnP" \in session, renewal # "failed",
                      AgeUntilThen < LeaseDuration
               PROVE  router = mapping.inner
    BY DEF PortStaysOpen
  <2>1. AgeUntilThen \in Nat
    BY AgeIsNat, TimesAssumption DEF AgeUntilThen
  <2> QED
    BY <2>1, TimesAssumption DEF LeaseShape
<1> QED
  BY <1>1, <1>2, <1>3, OwnedStep, CountersStep, LeaseStep, TypeCorrect, PTL DEF Spec

-----------------------------------------------------------------------------
(* The engine implements MappingService.                                   *)

Promise == Service!Next \/ UNCHANGED <<ServicePhase, ServicePair>>

LEMMA ServiceStep == PairInv /\ [Next]_vars => Promise
<1> SUFFICES ASSUME PairInv, [Next]_vars PROVE Promise
  OBVIOUS
<1> USE DEF Promise, ServicePhase, ServicePair, Serving, Looping, NoPair, Service!Next, Service!Nothing,
           CloseWith, ReturnError, worldVars, heldVars, counterVars, historyVars, leaseVars
<1>1. ASSUME NEW m \in Observed, FirstSTUN(m) PROVE Promise
  BY <1>1 DEF FirstSTUN
<1>2. ASSUME NEW m \in Observed, SecondSTUN(m) PROVE Promise
  BY <1>2 DEF SecondSTUN
<1>3. ASSUME NEW m \in Observed, Recheck(m) PROVE Promise
  <2>1. CASE pc' = "close"
    BY <1>3, <2>1 DEF Recheck, Service!Withdraw
  <2>2. CASE pc' # "close"
    BY <1>3, <2>2 DEF Recheck, Service!Withdraw
  <2> QED
    BY <2>1, <2>2
<1>4. CASE FirstSTUNFails
  BY <1>4 DEF FirstSTUNFails
<1>5. CASE SecondSTUNFails
  BY <1>5 DEF SecondSTUNFails, Service!Abandon
<1>6. CASE FirstKeepAlive
  BY <1>6 DEF FirstKeepAlive
<1>7. CASE FirstKeepAliveFails
  BY <1>7 DEF FirstKeepAliveFails, Service!Abandon
<1>8. CASE StartForwarder
  BY <1>8 DEF StartForwarder
<1>9. ASSUME NEW b \in BOOLEAN, StartForwarderFails(b) PROVE Promise
  BY <1>9 DEF StartForwarderFails, Service!Abandon
<1>10. CASE UPnPForward
  BY <1>10 DEF UPnPForward
<1>11. ASSUME NEW b \in BOOLEAN, UPnPForwardFails(b) PROVE Promise
  BY <1>11 DEF UPnPForwardFails
<1>12. CASE Notify
  <2>1. ServicePhase = "idle" /\ ServicePhase' = "serving"
    BY <1>12 DEF Notify
  <2>2. ServicePair' = mapping /\ mapping \in Observed
    <3>1. published' = mapping /\ fwd' = fwd /\ pc' = "check"
      BY <1>12 DEF Notify
    <3>2. fwd = mapping.inner /\ mapping \in Observed
      BY <1>12 DEF Notify, PairInv, PairShape
    <3> QED
      BY <3>1, <3>2 DEF Observed
  <2> QED
    BY <2>1, <2>2 DEF Observed, Service!Serve, Service!Next
<1>13. CASE NotifyFails
  BY <1>13 DEF NotifyFails, Service!Abandon
<1>14. CASE Commit
  BY <1>14 DEF Commit
<1>15. CASE TargetClosed
  BY <1>15 DEF TargetClosed, Service!Withdraw
<1>16. CASE Done
  BY <1>16 DEF Done, Service!Withdraw
<1>17. CASE KeepAliveTick
  BY <1>17 DEF KeepAliveTick, CountTick, CountSuccess
<1>18. CASE KeepAliveFailsTick
  <2>1. CASE pc' = "close"
    BY <1>18, <2>1 DEF KeepAliveFailsTick, CountTick, Service!Withdraw
  <2>2. CASE pc' # "close"
    BY <1>18, <2>2 DEF KeepAliveFailsTick, CountTick, Service!Withdraw
  <2> QED
    BY <2>1, <2>2
<1>19. CASE KeepAliveLosesAddressTick
  BY <1>19 DEF KeepAliveLosesAddressTick, CountTick, Service!Withdraw
<1>20. CASE RecheckFails
  <2>1. CASE pc' = "close"
    BY <1>20, <2>1 DEF RecheckFails, Service!Withdraw
  <2>2. CASE pc' # "close"
    BY <1>20, <2>2 DEF RecheckFails, Service!Withdraw
  <2> QED
    BY <2>1, <2>2
<1>21. CASE RecheckLosesAddress
  BY <1>21 DEF RecheckLosesAddress, Service!Withdraw
<1>22. ASSUME NEW b \in BOOLEAN, NEW c \in BOOLEAN, CloseSession(b, c) PROVE Promise
  BY <1>22 DEF CloseSession, Service!Release
<1>23. CASE RunEnds
  BY <1>23 DEF RunEnds, Service!Stop
<1>24. CASE RunRetries
  BY <1>24 DEF RunRetries
<1>25. CASE BackoffCanceled
  BY <1>25 DEF BackoffCanceled, Service!Stop
<1>26. CASE BackoffElapsed
  BY <1>26 DEF BackoffElapsed
<1>27. CASE LeaseExpires
  BY <1>27 DEF LeaseExpires
<1>29. CASE Renew
  BY <1>29 DEF Renew, CountSuccess
<1>28. CASE WorldMoves
  BY <1>28, WorldLeavesProcess DEF processVars
<1> QED
  BY <1>1, <1>2, <1>3, <1>4, <1>5, <1>6, <1>7, <1>8, <1>9, <1>10, <1>11, <1>12, <1>13,
     <1>14, <1>15, <1>16, <1>17, <1>18, <1>19, <1>20, <1>21, <1>22, <1>23, <1>24, <1>25,
     <1>26, <1>27, <1>28, <1>29
     DEF Next, Process, World, WorldMoves, StartSession, RunLoop, RunWithRetry

\* What is announced and what serves it change together, and only through
\* Session.Close: every behaviour of the engine is one of MappingService.
THEOREM EngineImplementsService == Spec => ServesOnePairAtATime
<1>1. Init => OwnedInv /\ PairInv
  BY DEF Init, OwnedInv, PairInv, SessionShape, PairShape, ResourcesOwned, Serving, Looping
<1>2. Init => Service!Init
  BY DEF Init, Service!Init, Service!Nothing, ServicePhase, ServicePair, Serving, Looping, NoPair
<1>3. PairInv /\ [Next]_vars => [Service!Next]_<<ServicePhase, ServicePair>>
  BY ServiceStep DEF Promise
<1> QED
  BY <1>1, <1>2, <1>3, OwnedStep, PairStep, TypeCorrect, PTL
     DEF Spec, ServesOnePairAtATime, Service!Spec
=============================================================================
