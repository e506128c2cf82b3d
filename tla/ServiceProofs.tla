---------------------------- MODULE ServiceProofs ----------------------------
(***************************************************************************)
(* Proofs about the service script.                                        *)
(*                                                                         *)
(* Types and shape hold whatever runs beside what: TypeInv is TypeOK and   *)
(* the fact that only a reload holds the lock.                             *)
(*                                                                         *)
(* That no process loses its rules (RulesStay) and none is ended without a *)
(* reason (SparesStay) both rest on the files telling what procd runs      *)
(* (Known), which only a declaration in progress interrupts (Declared); it *)
(* is maintained because one invocation is at work at a time (OneWorker),  *)
(* by the lock, or because there is only one.  RulesStay adds what a start *)
(* that found nothing running can meet at its flush (Racing).  That        *)
(* commits are applied (CommitsApplied) adds that everybody works on the   *)
(* configuration as it is (Fresh) and that the files are exactly what      *)
(* procd runs (Listed).                                                    *)
(***************************************************************************)
EXTENDS Service, TLAPS

Budgets == [{"edits", "calls", "faults", "kills"} -> Nat]

\* A bound that is spent goes down by one and never below zero.
LEMMA SpendTypes ==
    ASSUME budget \in Budgets, NEW b \in {"edits", "calls", "faults", "kills"}, Spend(b)
    PROVE  budget' \in Budgets
BY DEF Budgets, Spend

\* An edit of one section leaves a configuration a configuration.
LEMMA ConfigTypes ==
    ASSUME config \in Configs, NEW i \in Instances, NEW p \in MaybePrint,
           NEW g \in {"on", "off", "missing"}
    PROVE  /\ [config EXCEPT !.inst[i] = p] \in Configs
           /\ [config EXCEPT !.global = g] \in Configs
           /\ [config EXCEPT !.inst[i] = p, !.global = g] \in Configs
<1>1. config.inst \in Tables /\ [config.inst EXCEPT ![i] = p] \in Tables
  BY DEF Configs, Tables
<1>2. /\ [config EXCEPT !.inst[i] = p] = [config EXCEPT !.inst = [config.inst EXCEPT ![i] = p]]
      /\ [config EXCEPT !.inst[i] = p, !.global = g]
           = [[config EXCEPT !.inst = [config.inst EXCEPT ![i] = p]] EXCEPT !.global = g]
  BY DEF Configs
<1> QED
  BY <1>1, <1>2 DEF Configs

\* A booted device has its types.
LEMMA InitTypes == Init => Types
BY OffAssumption, FreeAssumption, BoundsAssumption
   DEF Init, Types, Configs, Tables, MaybePrint, Nothing, Labels, Live, Owners

\* A commit keeps them.
LEMMA EditTypes == Types /\ Edits => Types'
<1> SUFFICES ASSUME Types, Edits PROVE Types'
  OBVIOUS
<1>1. budget' \in Budgets
  BY SpendTypes DEF Edits, EditInstance, EditGlobal, Toggle, MayEdit, Types, Budgets
<1>2. config' \in Configs /\ dirty' \in BOOLEAN
  <2>1. ASSUME NEW i \in Instances, NEW p \in MaybePrint, EditInstance(i, p)
        PROVE  config' \in Configs /\ dirty' \in BOOLEAN
    BY <2>1, ConfigTypes DEF EditInstance, Types
  <2>2. ASSUME NEW g \in Globals, EditGlobal(g) PROVE config' \in Configs /\ dirty' \in BOOLEAN
    BY <2>2, GlobalsAssumption DEF EditGlobal, Types, Configs
  <2>3. ASSUME NEW i \in Instances, NEW p \in Prints, Toggle(i, p)
        PROVE  config' \in Configs /\ dirty' \in BOOLEAN
    BY <2>3, ConfigTypes DEF Toggle, Types, MaybePrint
  <2> QED
    BY <2>1, <2>2, <2>3 DEF Edits
<1>3. UNCHANGED <<files, lock, kernel, locals>>
  BY DEF Edits, EditInstance, EditGlobal, Toggle
<1> QED
  BY <1>1, <1>2, <1>3 DEF Types, Budgets, files, history, kernel, locals

\* A step of a process of instance i.
ProcessStep(i) == Current(i) \/ EndSession(i) \/ Exit(i) \/ Predecessor(i)

\* A step of a process keeps them.
LEMMA ProcessTypes == \A i \in Instances : Types /\ ProcessStep(i) => Types'
<1> SUFFICES ASSUME NEW i \in Instances, Types, ProcessStep(i) PROVE Types'
  OBVIOUS
<1>1. budget' \in Budgets
  BY SpendTypes
     DEF ProcessStep, Current, Predecessor, Launch, InstallRules, EndSession, Exit, OldInstalls,
         OldCloses, OldKilled, Types, Budgets
<1>2. run' \in [Instances -> Live \cup {"none", "wait", "dead"}]
  BY DEF ProcessStep, Current, Predecessor, Launch, InstallRules, EndSession, Exit, OldInstalls,
         OldCloses, OldKilled, Types, Live
<1>3. old' \in [Instances -> Live \cup {"none"}]
  BY DEF ProcessStep, Current, Predecessor, Launch, InstallRules, EndSession, Exit, OldInstalls,
         OldCloses, OldKilled, Types, Live
<1>4. rules' \in [Instances -> SUBSET Owners]
  BY DEF ProcessStep, Current, Predecessor, Launch, InstallRules, EndSession, Exit, OldInstalls,
         OldCloses, OldKilled, Types, Owners
<1>5. raced' \subseteq Instances
  BY DEF ProcessStep, Current, Predecessor, Launch, InstallRules, EndSession, Exit, OldInstalls,
         OldCloses, OldKilled, Types, files, history
<1>6. UNCHANGED <<config, dirty, list, runtime, forgotten, lock, procd, locals>>
  BY DEF ProcessStep, Current, Predecessor, Launch, InstallRules, EndSession, Exit, OldInstalls,
         OldCloses, OldKilled, files, history
<1> QED
  BY <1>1, <1>2, <1>3, <1>4, <1>5, <1>6 DEF Types, Budgets, locals

\* What load, declare and retire write has its type.
LEMMA LoadTypes ==
    ASSUME Types, NEW s \in Scripts, LoadForReload(s)
    PROVE  /\ UNCHANGED <<config, files, lock, kernel, new, decl, ok>>
           /\ pc' \in [Scripts -> Labels] /\ snap' \in [Scripts -> Configs]
           /\ nested' \in [Scripts -> BOOLEAN]
BY DEF Types, LoadForReload, Goto, Labels

LEMMA DeclareTypes ==
    ASSUME Types, NEW s \in Scripts, NEW F \in SUBSET Instances, Declare(s, F)
    PROVE  /\ UNCHANGED <<config, dirty, history, lock, kernel, snap, new, nested>>
           /\ list' \subseteq Instances /\ runtime' \in Tables
           /\ pc' \in [Scripts -> Labels] /\ decl' \in [Scripts -> Tables]
           /\ ok' \in [Scripts -> BOOLEAN]
<1>1. snap[s].inst \in Tables
  BY DEF Types, Configs
<1>2. [i \in Instances |-> IF i \in Present(snap[s].inst) \ F THEN snap[s].inst[i] ELSE Off]
        \in Tables
  BY <1>1 DEF Tables, MaybePrint
<1>3. runtime' \in Tables
  BY <1>1 DEF Declare, Types, Tables
<1>4. pc' \in [Scripts -> Labels] /\ ok' \in [Scripts -> BOOLEAN] /\ list' \subseteq Instances
  BY DEF Declare, Types, Goto, Labels, Present
<1> QED
  BY <1>2, <1>3, <1>4 DEF Declare, Types

LEMMA RetireTypes ==
    ASSUME Types, NEW D \in SUBSET Instances, CanRetire(D)
    PROVE  /\ RetiredOld(D) \in [Instances -> Live \cup {"none"}]
           /\ RetiredRules(D) \in [Instances -> SUBSET Owners]
BY DEF Types, RetiredOld, RetiredRules, Live, Owners

\* A step of the script keeps them.
LEMMA ScriptTypes ==
    \A s \in Scripts : Types /\ (Script(s) \/ Calls(s) \/ Faults(s)) => Types'
<1> SUFFICES ASSUME NEW s \in Scripts, Types, Script(s) \/ Calls(s) \/ Faults(s)
             PROVE  Types'
  OBVIOUS
<1> USE DEF Types, Goto, files, history, kernel, locals
<1>1. ASSUME ReloadTriggered(s) PROVE Types'
  BY <1>1, LoadTypes DEF ReloadTriggered
<1>2. ASSUME Ifup(s) PROVE Types'
  <2>1. budget' \in Budgets
    BY <1>2, SpendTypes DEF Ifup, Budgets
  <2> QED
    BY <1>2, <2>1, LoadTypes DEF Ifup, Budgets
<1>3. ASSUME TakeLock(s) PROVE Types'
  BY <1>3 DEF TakeLock, Labels
<1>4. ASSUME SkipReload(s) PROVE Types'
  BY <1>4 DEF SkipReload, Labels
<1>5. ASSUME HotLoad(s) PROVE Types'
  BY <1>5 DEF HotLoad, Labels
<1>6. ASSUME HotReload(s) PROVE Types'
  BY <1>6 DEF HotReload, Labels
<1>7. ASSUME NotHot(s) PROVE Types'
  BY <1>7 DEF NotHot, Labels
<1>8. ASSUME HotReloadFails(s) PROVE Types'
  BY <1>8, SpendTypes DEF HotReloadFails, Budgets, Labels
<1>9. ASSUME PrepareFingerprints(s) PROVE Types'
  <2>1. snap[s].inst \in Tables
    BY DEF Configs
  <2> QED
    BY <1>9, <2>1 DEF PrepareFingerprints, Labels
<1>10. ASSUME PrepareFingerprintsFails(s) PROVE Types'
  BY <1>10, SpendTypes DEF PrepareFingerprintsFails, Budgets, Labels
<1>11. ASSUME DeleteInstances(s) PROVE Types'
  <2> DEFINE D == Removed(s) \cup Reprinted(s)
  <2>1. D \in SUBSET Instances
    BY DEF Removed, Reprinted, Present
  <2>2. /\ old' = RetiredOld(D) /\ rules' = RetiredRules(D) /\ CanRetire(D)
        /\ UNCHANGED <<config, dirty, files, lock, snap, new, decl, ok, nested, budget>>
    BY <1>11 DEF DeleteInstances
  <2>3. procd' \in Tables /\ run' \in [Instances -> Live \cup {"none", "wait", "dead"}]
    BY <1>11 DEF DeleteInstances, Tables, MaybePrint
  <2>4. pc' \in [Scripts -> Labels]
    BY <1>11 DEF DeleteInstances, Labels
  <2>5. /\ old' \in [Instances -> Live \cup {"none"}]
        /\ rules' \in [Instances -> SUBSET Owners]
    BY <2>1, <2>2, RetireTypes
  <2> QED
    BY <2>2, <2>3, <2>4, <2>5
<1>12. ASSUME FlushEmpty(s) PROVE Types'
  BY <1>12 DEF FlushEmpty, Labels, Owners
<1>13. ASSUME Restart(s) PROVE Types'
  BY <1>13 DEF Restart, Labels, Tables, MaybePrint, Nothing
<1>14. ASSUME Publish(s) PROVE Types'
  BY <1>14 DEF Publish, Labels, Present
<1>15. ASSUME StartCommand(s) PROVE Types'
  BY <1>15, SpendTypes DEF StartCommand, Budgets, Labels, Tables, MaybePrint, Nothing
<1>16. ASSUME CheckBackends(s) \/ FlushLeftovers(s) PROVE Types'
  BY <1>16 DEF CheckBackends, FlushLeftovers, Labels, Owners
<1>17. ASSUME PrepareSlotsFails(s) PROVE Types'
  BY <1>17, SpendTypes DEF PrepareSlotsFails, Budgets, Labels, Tables, MaybePrint, Nothing
<1>18. ASSUME StartInstances(s) PROVE Types'
  BY <1>18, DeclareTypes DEF StartInstances
<1>19. ASSUME NEW i \in Instances, StartInstanceFails(s, i) PROVE Types'
  <2>1. budget' \in Budgets /\ Declare(s, {i})
    BY <1>19, SpendTypes DEF StartInstanceFails, Budgets
  <2> QED
    BY <2>1, DeclareTypes DEF Budgets
<1>20. ASSUME SetService(s) PROVE Types'
  <2> DEFINE D == Instances \ Kept(s)
  <2>1. /\ old' = RetiredOld(D) /\ rules' = RetiredRules(D) /\ CanRetire(D)
        /\ UNCHANGED <<config, dirty, files, lock, snap, new, decl, ok, nested, budget>>
    BY <1>20 DEF SetService
  <2>2. procd' \in Tables /\ run' \in [Instances -> Live \cup {"none", "wait", "dead"}]
    BY <1>20 DEF SetService
  <2>3. pc' \in [Scripts -> Labels]
    BY <1>20 DEF SetService, Labels
  <2>4. /\ old' \in [Instances -> Live \cup {"none"}]
        /\ rules' \in [Instances -> SUBSET Owners]
    BY <2>1, RetireTypes
  <2> QED
    BY <2>1, <2>2, <2>3, <2>4
<1>21. ASSUME StopCommand(s) PROVE Types'
  BY <1>21, SpendTypes DEF StopCommand, Budgets, Labels
<1>22. ASSUME StopFlushes(s) PROVE Types'
  BY <1>22 DEF StopFlushes, Labels, Owners
<1>23. ASSUME StopKills(s) PROVE Types'
  <2>1. /\ old' = RetiredOld(Instances) /\ rules' = RetiredRules(Instances)
        /\ CanRetire(Instances)
        /\ UNCHANGED <<config, dirty, files, lock, snap, new, decl, ok, nested, budget>>
    BY <1>23 DEF StopKills
  <2>2. procd' \in Tables /\ run' \in [Instances -> Live \cup {"none", "wait", "dead"}]
    BY <1>23 DEF StopKills, Nothing, Tables, MaybePrint
  <2>3. pc' \in [Scripts -> Labels]
    BY <1>23 DEF StopKills, Labels
  <2>4. /\ old' \in [Instances -> Live \cup {"none"}]
        /\ rules' \in [Instances -> SUBSET Owners]
    BY <2>1, RetireTypes
  <2> QED
    BY <2>1, <2>2, <2>3, <2>4
<1> QED
  BY <1>1, <1>2, <1>3, <1>4, <1>5, <1>6, <1>7, <1>8, <1>9, <1>10, <1>11, <1>12, <1>13, <1>14,
     <1>15, <1>16, <1>17, <1>18, <1>19, <1>20, <1>21, <1>22, <1>23
     DEF Script, ReloadSteps, StartSteps, StopSteps, Calls, Faults

\* Only a reload reaches these places, only a plain start checks for backends.
Orders == \A s \in Scripts :
    /\ pc[s] \in InReload \cup {"lock"} => nested[s]
    /\ pc[s] \in {"check", "clear"} => ~nested[s]

LockHeld == \A s \in Scripts : Locked(s) <=> lock = s

Processes == \A i \in Instances :
    /\ run[i] = "none" <=> procd[i] = Off
    /\ "run" \in rules[i] => run[i] = "forwarding"
    /\ "old" \in rules[i] => old[i] = "forwarding"

\* The shape, its two halves named.
LEMMA ShapeIs == Shape <=> Processes /\ LockHeld
BY DEF Shape, Processes, LockHeld

\* A step of invocation s.
ScriptStep(s) == Script(s) \/ Calls(s) \/ Faults(s)

\* A step of one invocation leaves what the others hold alone.
LEMMA OthersStay ==
    ASSUME Types, NEW s \in Scripts, ScriptStep(s), NEW t \in Scripts, t # s
    PROVE  /\ pc'[t] = pc[t] /\ nested'[t] = nested[t] /\ snap'[t] = snap[t]
           /\ new'[t] = new[t] /\ decl'[t] = decl[t] /\ ok'[t] = ok[t]
<1> USE DEF Types, Goto, files, history, kernel, locals
<1>1. /\ pc'[t] = pc[t] /\ nested'[t] = nested[t] /\ snap'[t] = snap[t]
      /\ new'[t] = new[t] /\ decl'[t] = decl[t] /\ ok'[t] = ok[t]
  BY DEF ScriptStep, Script, ReloadSteps, StartSteps, StopSteps, Calls, Faults, LoadForReload,
     Declare,
         ReloadTriggered, Ifup, TakeLock, SkipReload, HotLoad, HotReload,
         NotHot, HotReloadFails, PrepareFingerprints, PrepareFingerprintsFails,
         DeleteInstances, FlushEmpty,
         Restart, Publish, StartCommand, CheckBackends, FlushLeftovers, PrepareSlotsFails,
         StartInstances, StartInstanceFails, SetService, StopCommand, StopFlushes, StopKills
<1> QED
  BY <1>1

\* The lock is held by the reload between flock and return, whatever it runs.
LEMMA LockStep ==
    ASSUME Types, Orders, LockHeld, NEW s \in Scripts, ScriptStep(s)
    PROVE  Orders' /\ LockHeld'
<1> USE DEF Types, Goto, files, history, kernel, locals, Orders, LockHeld, Locked, InReload
<1>1. ASSUME ReloadTriggered(s) PROVE Orders' /\ LockHeld'
  BY <1>1, FreeAssumption DEF ReloadTriggered, LoadForReload
<1>2. ASSUME Ifup(s) PROVE Orders' /\ LockHeld'
  BY <1>2, FreeAssumption DEF Ifup, LoadForReload
<1>3. ASSUME TakeLock(s) PROVE Orders' /\ LockHeld'
  BY <1>3, FreeAssumption DEF TakeLock
<1>4. ASSUME SkipReload(s) PROVE Orders' /\ LockHeld'
  BY <1>4, FreeAssumption DEF SkipReload
<1>5. ASSUME HotLoad(s) PROVE Orders' /\ LockHeld'
  BY <1>5, FreeAssumption DEF HotLoad
<1>6. ASSUME HotReload(s) PROVE Orders' /\ LockHeld'
  BY <1>6, FreeAssumption DEF HotReload
<1>7. ASSUME NotHot(s) PROVE Orders' /\ LockHeld'
  BY <1>7, FreeAssumption DEF NotHot
<1>8. ASSUME HotReloadFails(s) PROVE Orders' /\ LockHeld'
  BY <1>8, FreeAssumption DEF HotReloadFails
<1>9. ASSUME PrepareFingerprints(s) PROVE Orders' /\ LockHeld'
  BY <1>9, FreeAssumption DEF PrepareFingerprints
<1>10. ASSUME PrepareFingerprintsFails(s) PROVE Orders' /\ LockHeld'
  BY <1>10, FreeAssumption DEF PrepareFingerprintsFails
<1>11. ASSUME DeleteInstances(s) PROVE Orders' /\ LockHeld'
  BY <1>11, FreeAssumption DEF DeleteInstances
<1>12. ASSUME FlushEmpty(s) PROVE Orders' /\ LockHeld'
  BY <1>12, FreeAssumption DEF FlushEmpty
<1>13. ASSUME Restart(s) PROVE Orders' /\ LockHeld'
  BY <1>13, FreeAssumption DEF Restart
<1>14. ASSUME Publish(s) PROVE Orders' /\ LockHeld'
  BY <1>14, FreeAssumption DEF Publish
<1>15. ASSUME StartCommand(s) PROVE Orders' /\ LockHeld'
  BY <1>15, FreeAssumption DEF StartCommand
<1>16. ASSUME CheckBackends(s) \/ FlushLeftovers(s) PROVE Orders' /\ LockHeld'
  BY <1>16, FreeAssumption DEF CheckBackends, FlushLeftovers
<1>17. ASSUME PrepareSlotsFails(s) PROVE Orders' /\ LockHeld'
  BY <1>17, FreeAssumption DEF PrepareSlotsFails
<1>18. ASSUME StartInstances(s) PROVE Orders' /\ LockHeld'
  BY <1>18, FreeAssumption DEF StartInstances, Declare
<1>19. ASSUME NEW i \in Instances, StartInstanceFails(s, i) PROVE Orders' /\ LockHeld'
  BY <1>19, FreeAssumption DEF StartInstanceFails, Declare
<1>20. ASSUME SetService(s) PROVE Orders' /\ LockHeld'
  BY <1>20, FreeAssumption DEF SetService
<1>21. ASSUME StopCommand(s) PROVE Orders' /\ LockHeld'
  BY <1>21, FreeAssumption DEF StopCommand
<1>22. ASSUME StopFlushes(s) PROVE Orders' /\ LockHeld'
  BY <1>22, FreeAssumption DEF StopFlushes
<1>23. ASSUME StopKills(s) PROVE Orders' /\ LockHeld'
  BY <1>23, FreeAssumption DEF StopKills
<1> QED
  BY <1>1, <1>2, <1>3, <1>4, <1>5, <1>6, <1>7, <1>8, <1>9, <1>10, <1>11, <1>12, <1>13, <1>14,
     <1>15, <1>16, <1>17, <1>18, <1>19, <1>20, <1>21, <1>22, <1>23
     DEF ScriptStep, Script, ReloadSteps, StartSteps, StopSteps, Calls, Faults

\* Only these steps of a script reach procd, the processes or the table.
KernelStep(s) ==
    \/ DeleteInstances(s) \/ FlushEmpty(s) \/ FlushLeftovers(s)
    \/ SetService(s) \/ StopFlushes(s) \/ StopKills(s)

\* Every other step of a script leaves these four alone.
LEMMA KernelKept ==
    ASSUME NEW s \in Scripts, ScriptStep(s), ~KernelStep(s)
    PROVE  UNCHANGED <<procd, run, old, rules>>
BY DEF ScriptStep, Script, ReloadSteps, StartSteps, StopSteps, Calls, Faults, LoadForReload,
   Declare,
         KernelStep, kernel,
         ReloadTriggered, Ifup, TakeLock, SkipReload, HotLoad,
         HotReload, NotHot, HotReloadFails, PrepareFingerprints, PrepareFingerprintsFails,
         Restart, Publish, StartCommand, CheckBackends, PrepareSlotsFails, StartInstances,
         StartInstanceFails, StopCommand

\* No step of a script leaves rules to a process that is not forwarding.
LEMMA ScriptProcesses ==
    ASSUME Types, Processes, NEW s \in Scripts, ScriptStep(s)
    PROVE  Processes'
<1> USE DEF Types, Processes
<1>1. CASE DeleteInstances(s)
  BY <1>1 DEF DeleteInstances, CanRetire, RetiredOld, RetiredRules, Live, files
<1>2. CASE SetService(s)
  <2>1. decl[s] \in Tables
    OBVIOUS
  <2> QED
    BY <1>2, <2>1 DEF SetService, Kept, CanRetire, RetiredOld, RetiredRules, Live, files
<1>3. CASE StopKills(s)
  BY <1>3 DEF StopKills, Nothing, CanRetire, RetiredOld, RetiredRules, Live, files
<1>4. CASE FlushEmpty(s) \/ FlushLeftovers(s) \/ StopFlushes(s)
  BY <1>4 DEF FlushEmpty, FlushLeftovers, StopFlushes
<1>5. CASE ~KernelStep(s)
  BY <1>5, KernelKept
<1> QED
  BY <1>1, <1>2, <1>3, <1>4, <1>5 DEF KernelStep

\* Nor does a step of a process.
LEMMA ProcessProcesses ==
    ASSUME Types, Processes, NEW i \in Instances, ProcessStep(i)
    PROVE  Processes'
<1> USE DEF Types, Processes
<1>1. CASE Launch(i)
  BY <1>1 DEF Launch, Live
<1>2. CASE InstallRules(i)
  BY <1>2 DEF InstallRules, Live
<1>3. CASE EndSession(i)
  BY <1>3 DEF EndSession, Live
<1>4. CASE Exit(i)
  BY <1>4 DEF Exit, Live
<1>5. CASE OldInstalls(i)
  BY <1>5 DEF OldInstalls, Live
<1>6. CASE OldCloses(i)
  BY <1>6 DEF OldCloses, Live
<1>7. CASE OldKilled(i)
  BY <1>7 DEF OldKilled, Live
<1> QED
  BY <1>1, <1>2, <1>3, <1>4, <1>5, <1>6, <1>7 DEF ProcessStep, Current, Predecessor

\* What the steps outside the scripts leave alone.
LEMMA EditsFrame == Edits => UNCHANGED <<files, lock, kernel, locals>>
BY DEF Edits, EditInstance, EditGlobal, Toggle

\* A step of a process touches nothing the scripts hold.
LEMMA ProcessFrame ==
    ASSUME NEW i \in Instances, ProcessStep(i)
    PROVE  UNCHANGED <<config, dirty, list, runtime, forgotten, lock, procd, locals>>
BY DEF ProcessStep, Current, Predecessor, Launch, InstallRules, EndSession, Exit, OldInstalls,
         OldCloses, OldKilled, files, history

\* A step is a commit, a step of an invocation or one of a process.
LEMMA NextIs ==
    Next <=> \/ Edits
             \/ \E s \in Scripts : ScriptStep(s)
             \/ \E i \in Instances : ProcessStep(i)
BY DEF Next, ScriptStep, ProcessStep

TypeInv == TypeOK /\ Orders

\* TypeInv holds at the beginning ...
LEMMA TypeInit == Init => TypeInv
<1> SUFFICES ASSUME Init PROVE TypeInv
  OBVIOUS
<1>1. Types
  BY InitTypes
<1>2. Processes /\ Orders /\ LockHeld
  BY FreeAssumption DEF Init, Processes, Orders, LockHeld, Locked, InReload, Nothing
<1> QED
  BY <1>1, <1>2, ShapeIs DEF TypeInv, TypeOK

\* ... and after every step.
LEMMA TypeNext == TypeInv /\ [Next]_vars => TypeInv'
<1> SUFFICES ASSUME Types, Processes, Orders, LockHeld, [Next]_vars
             PROVE  Types' /\ Processes' /\ Orders' /\ LockHeld'
  BY ShapeIs DEF TypeInv, TypeOK, Shape, Processes, LockHeld
<1>1. CASE Edits
  BY <1>1, EditTypes, EditsFrame
     DEF Processes, Orders, LockHeld, Locked, files, kernel, locals
<1>2. CASE \E s \in Scripts : ScriptStep(s)
  BY <1>2, ScriptTypes, ScriptProcesses, LockStep DEF ScriptStep
<1>3. CASE \E i \in Instances : ProcessStep(i)
  BY <1>3, ProcessTypes, ProcessProcesses, ProcessFrame DEF Orders, LockHeld, Locked, locals
<1>4. CASE UNCHANGED vars
  BY <1>4 DEF vars, files, history, kernel, locals, Types, Processes, Orders, LockHeld, Locked
<1> QED
  BY <1>1, <1>2, <1>3, <1>4, NextIs

\* The lock of qnatter.init has one holder, the reload between its flock and its
\* return; a process exists where procd was told to run one; rules belong to
\* processes that believe they forward: TypeOK holds of every specified behaviour,
\* however many invocations, instances, commits and faults there are.
THEOREM TypeCorrect == Spec => []TypeOK
<1>1. TypeInv => TypeOK
  BY DEF TypeInv
<1> QED
  BY <1>1, TypeInit, TypeNext, PTL DEF Spec

-----------------------------------------------------------------------------
\* A start takes no lock, so what follows is about invocations that reload and
\* stop, any number of them, or about one invocation that does anything.
StartsAlone == Commands \cap {"boot", "start"} = {} \/ \E r : Scripts = {r}

\* Without boot and start only reloads declare anything.
Reloading == Commands \cap {"boot", "start"} = {} =>
    \A s \in Scripts : pc[s] \in {"check", "clear", "declare", "set"} => nested[s]

\* Invocation s is between its first and its last write.
Working(s) == Locked(s) \/ pc[s] \in {"check", "clear", "declare", "set"}

\* What phase 1 prepared is what this invocation has read.
Prepared == \A s \in Scripts :
    /\ pc[s] = "delete" => new[s] = snap[s].inst
    /\ pc[s] = "flush" => new[s] = Nothing

\* A complete declaration is the configuration read, and the files know it.
Declared == \A s \in Scripts : pc[s] = "set" =>
    /\ ok[s] /\ Enabled(snap[s]) => decl[s] = snap[s].inst
    /\ \A i \in Instances : decl[s][i] # Off => i \in list /\ runtime[i] = decl[s][i]

\* Between declarations the files know what procd runs, forgotten names aside.
Known == (\E s \in Scripts : pc[s] = "set") \/
    \A i \in Instances : procd[i] # Off => runtime[i] = procd[i] /\ i \in list \cup forgotten

\* A reload about to flush has deleted everything the files knew of.
Flushing == \A s \in Scripts : pc[s] = "flush" =>
    \A i \in Instances \ forgotten : procd[i] = Off

\* Under StartsAlone one invocation is between its first and last write.
LEMMA OneWorker ==
    ASSUME TypeInv, Reloading, StartsAlone,
           NEW s \in Scripts, NEW t \in Scripts, Working(s), Working(t)
    PROVE  s = t
BY DEF TypeInv, TypeOK, Shape, Orders, Reloading, StartsAlone, Working, Locked

\* Which step brings an invocation to a place, and which one writes a file.
LEMMA Arrivals ==
    ASSUME Types, NEW s \in Scripts, ScriptStep(s)
    PROVE  /\ pc'[s] = "delete" => PrepareFingerprints(s)
           /\ pc'[s] = "flush" => DeleteInstances(s)
           /\ pc'[s] = "check" => StartCommand(s)
           /\ pc'[s] = "clear" => CheckBackends(s) /\ ~BackendRunning
           /\ pc'[s] = "declare" => Restart(s) \/ CheckBackends(s) \/ FlushLeftovers(s)
           /\ pc'[s] = "kill" => StopFlushes(s)
           /\ pc'[s] = "set" => \/ Restart(s) \/ StartCommand(s) \/ PrepareSlotsFails(s)
                               \/ StartInstances(s) \/ \E i \in Instances : StartInstanceFails(s, i)
BY DEF Types, Goto, ScriptStep, Script, ReloadSteps, StartSteps, StopSteps, Calls, Faults,
         LoadForReload, Declare,
         ReloadTriggered, Ifup, TakeLock, SkipReload, HotLoad,
         HotReload, NotHot, HotReloadFails, PrepareFingerprints, PrepareFingerprintsFails,
         DeleteInstances, FlushEmpty, Restart, Publish, StartCommand,
         CheckBackends, FlushLeftovers, PrepareSlotsFails, StartInstances, StartInstanceFails,
         SetService, StopCommand, StopFlushes, StopKills

\* Nothing but its own step takes an invocation on from these places.
LEMMA MovesOn ==
    ASSUME NEW s \in Scripts, ScriptStep(s)
    PROVE  /\ pc[s] = "delete" => DeleteInstances(s)
           /\ pc[s] = "set" => SetService(s)
           /\ pc[s] = "kill" => StopKills(s)
           /\ pc[s] = "flush" => FlushEmpty(s)
           /\ pc[s] = "clear" => FlushLeftovers(s)
           /\ pc[s] = "restart" => Restart(s)
           /\ pc[s] = "publish" => Publish(s)
BY DEF ScriptStep, Script, ReloadSteps, StartSteps, StopSteps, Calls, Faults,
         LoadForReload, Declare,
         ReloadTriggered, Ifup, TakeLock, SkipReload, HotLoad,
         HotReload, NotHot, HotReloadFails, PrepareFingerprints, PrepareFingerprintsFails,
         StartCommand, CheckBackends, FlushLeftovers, PrepareSlotsFails, StartInstances,
         StartInstanceFails,
         StopCommand, StopFlushes,
         DeleteInstances, SetService, StopKills, FlushEmpty, Restart, Publish

WritesFiles(s) ==
    Publish(s) \/ StartInstances(s) \/ \E i \in Instances : StartInstanceFails(s, i)

\* Every other step of a script leaves the files alone.
LEMMA FilesKept ==
    ASSUME NEW s \in Scripts, ScriptStep(s), ~WritesFiles(s)
    PROVE  UNCHANGED <<list, runtime, forgotten>>
BY DEF ScriptStep, Script, ReloadSteps, StartSteps, StopSteps, Calls, Faults, WritesFiles,
         LoadForReload, files, history,
         ReloadTriggered, Ifup, TakeLock, SkipReload, HotLoad,
         HotReload, NotHot, HotReloadFails, PrepareFingerprints, PrepareFingerprintsFails,
         DeleteInstances, FlushEmpty, Restart, StartCommand, CheckBackends, FlushLeftovers,
         PrepareSlotsFails, SetService, StopCommand, StopFlushes, StopKills

\* Without boot and start, whoever declares is a reload.
LEMMA ReloadingStep ==
    ASSUME Types, Orders, Reloading, NEW s \in Scripts, ScriptStep(s)
    PROVE  Reloading'
<1> SUFFICES ASSUME Commands \cap {"boot", "start"} = {}, NEW t \in Scripts,
                    pc'[t] \in {"check", "clear", "declare", "set"}
             PROVE  nested'[t]
  BY DEF Reloading
<1>1. CASE t # s
  BY <1>1, OthersStay DEF Reloading
<1>2. CASE t = s
  BY <1>2, Arrivals
     DEF Orders, InReload, Reloading, Types, Goto, Restart, StartCommand, CheckBackends,
         FlushLeftovers, PrepareSlotsFails, StartInstances, StartInstanceFails, Declare
<1> QED
  BY <1>1, <1>2

\* Phase 1 prepares what was read, and the flush follows an empty phase 1.
LEMMA PreparedStep ==
    ASSUME Types, Prepared, NEW s \in Scripts, ScriptStep(s)
    PROVE  Prepared'
<1> SUFFICES ASSUME NEW t \in Scripts
             PROVE  /\ pc'[t] = "delete" => new'[t] = snap'[t].inst
                    /\ pc'[t] = "flush" => new'[t] = Nothing
  BY DEF Prepared, Nothing
<1>1. CASE t # s
  BY <1>1, OthersStay DEF Prepared
<1>2. CASE t = s
  <2>1. pc'[s] = "delete" => new'[s] = snap'[s].inst
    BY Arrivals DEF PrepareFingerprints, Types
  <2>2. pc'[s] = "flush" => new'[s] = Nothing
    <3>1. new[s] \in [Instances -> MaybePrint] /\ pc \in [Scripts -> Labels]
      BY DEF Types, Tables
    <3>2. DeleteInstances(s) /\ pc'[s] = "flush" => Present(new[s]) = {} /\ new' = new
      BY <3>1 DEF DeleteInstances, Goto
    <3>3. Present(new[s]) = {} => new[s] = Nothing
      BY <3>1 DEF Present, Nothing
    <3> QED
      BY <3>2, <3>3, Arrivals
  <2> QED
    BY <1>2, <2>1, <2>2
<1> QED
  BY <1>1, <1>2

\* The invocation that moves is the only one at work, if it is at work.
Unique(s) == \A t \in Scripts : Working(s) /\ Working(t) => t = s

\* Phase 2 has deleted every process the list names before the flush.
LEMMA FlushingStep ==
    ASSUME NEW s \in Scripts, ScriptStep(s), TypeInv, Unique(s), Prepared, Known, Flushing
    PROVE  Flushing'
<1> SUFFICES ASSUME NEW t \in Scripts, pc'[t] = "flush", NEW i \in Instances \ forgotten'
             PROVE  procd'[i] = Off
  BY DEF Flushing
<1> USE DEF TypeInv, TypeOK
<1>1. CASE t # s
  <2>1. pc[t] = "flush" /\ Working(t)
    BY <1>1, OthersStay DEF Working, Locked, InReload
  <2>2. UNCHANGED forgotten
    BY <1>1, <2>1, FilesKept
       DEF Unique, Working, Locked, InReload, WritesFiles, Publish, StartInstances,
           StartInstanceFails
  <2>3. procd'[i] \in {procd[i], Off}
    BY <1>1, <2>1, KernelKept
       DEF KernelStep, Unique, Working, DeleteInstances, FlushEmpty, FlushLeftovers,
           SetService, StopFlushes, StopKills, Nothing
  <2> QED
    BY <2>1, <2>2, <2>3 DEF Flushing
<1>2. CASE t = s
  <2>1. DeleteInstances(s)
    BY <1>2, Arrivals
  <2>2. Present(new[s]) = {}
    BY <1>2, <2>1 DEF DeleteInstances, Goto, Types
  <2>3. procd[i] # Off => runtime[i] = procd[i] /\ i \in list
    BY <2>1 DEF Known, Unique, Working, Locked, InReload, DeleteInstances, files, history
  <2> QED
    BY <2>1, <2>2, <2>3 DEF DeleteInstances, Removed, Present
<1> QED
  BY <1>1, <1>2

\* What waits to be handed to procd is in the files already.
LEMMA DeclaredStep ==
    ASSUME NEW s \in Scripts, ScriptStep(s), TypeInv, Unique(s), Declared
    PROVE  Declared'
<1> SUFFICES ASSUME NEW t \in Scripts, pc'[t] = "set"
             PROVE  /\ ok'[t] /\ Enabled(snap'[t]) => decl'[t] = snap'[t].inst
                    /\ \A i \in Instances :
                          decl'[t][i] # Off => i \in list' /\ runtime'[i] = decl'[t][i]
  BY DEF Declared, Enabled
<1> USE DEF TypeInv, TypeOK
<1>1. CASE t # s
  <2>1. pc[t] = "set" /\ Working(t)
    BY <1>1, OthersStay DEF Working
  <2>2. UNCHANGED <<list, runtime>>
    BY <1>1, <2>1, FilesKept
       DEF Unique, Working, Locked, InReload, WritesFiles, Publish, StartInstances,
           StartInstanceFails
  <2> QED
    BY <1>1, <2>1, <2>2, OthersStay DEF Declared
<1>2. CASE t = s /\ (Restart(s) \/ StartCommand(s) \/ PrepareSlotsFails(s))
  BY <1>2 DEF Restart, StartCommand, PrepareSlotsFails, Types, Goto, Enabled, Nothing
<1>3. ASSUME t = s, NEW F \in SUBSET Instances, Declare(s, F)
      PROVE  /\ ok'[s] /\ Enabled(snap'[s]) => decl'[s] = snap'[s].inst
             /\ \A i \in Instances :
                   decl'[s][i] # Off => i \in list' /\ runtime'[i] = decl'[s][i]
  <2>1. snap[s].inst \in Tables /\ snap' = snap
    BY <1>3 DEF Types, Configs, Declare
  <2>2. ok'[s] => decl'[s] = snap[s].inst
    BY <1>3, <2>1 DEF Declare, Types, Present, Tables
  <2> QED
    BY <1>3, <2>1, <2>2 DEF Declare, Types
<1>4. CASE t = s
  BY <1>2, <1>3, <1>4, Arrivals DEF StartInstances, StartInstanceFails
<1> QED
  BY <1>1, <1>4

\* Only handing a declaration to procd makes the files agree again.
LEMMA KnownStep ==
    ASSUME NEW s \in Scripts, ScriptStep(s), TypeInv, Unique(s), Declared, Known
    PROVE  Known'
<1> USE DEF TypeInv, TypeOK
<1>1. CASE SetService(s)
  BY <1>1 DEF Declared, Known, SetService, files
<1>2. CASE Publish(s)
  BY <1>2 DEF Known, Unique, Working, Locked, InReload, Publish, Types, Tables, Present, kernel
<1>3. CASE StartInstances(s) \/ \E i \in Instances : StartInstanceFails(s, i)
  BY <1>3 DEF Known, StartInstances, StartInstanceFails, Declare, Goto, Types
<1>4. CASE ~SetService(s) /\ ~WritesFiles(s)
  <2>1. UNCHANGED <<list, runtime, forgotten>>
    BY <1>4, FilesKept
  <2>2. \A i \in Instances : procd'[i] \in {procd[i], Off}
    BY <1>4, KernelKept
       DEF KernelStep, DeleteInstances, FlushEmpty, FlushLeftovers, StopFlushes, StopKills,
           Nothing
  <2>3. \A t \in Scripts : pc[t] = "set" => pc'[t] = "set"
    <3>1. pc[s] # "set"
      BY <1>4, MovesOn
    <3> QED
      BY <3>1, OthersStay
  <2> QED
    BY <2>1, <2>2, <2>3 DEF Known
<1> QED
  BY <1>1, <1>2, <1>3, <1>4 DEF WritesFiles

\* While a start is about to flush, only processes launched since its check run.
Racing == Clearing => \A i \in Instances : run[i] \in Live => i \in raced

\* No step of a script decides who has raced a flush.
LEMMA RacedKept ==
    ASSUME NEW s \in Scripts, ScriptStep(s)
    PROVE  raced' = raced
BY DEF ScriptStep, Script, ReloadSteps, StartSteps, StopSteps, Calls, Faults, Declare,
         LoadForReload, files, history,
         ReloadTriggered, Ifup, TakeLock, SkipReload, HotLoad,
         HotReload, NotHot, HotReloadFails, PrepareFingerprints, PrepareFingerprintsFails,
         DeleteInstances, FlushEmpty, Restart, Publish, StartCommand, CheckBackends,
         FlushLeftovers, PrepareSlotsFails, StartInstances, StartInstanceFails, SetService,
         StopCommand, StopFlushes, StopKills

\* No step of a script launches a process.
LEMMA NoScriptLaunches ==
    ASSUME NEW s \in Scripts, ScriptStep(s), Types, NEW i \in Instances, run'[i] \in Live
    PROVE  run[i] \in Live
<1>1. CASE DeleteInstances(s)
  BY <1>1 DEF DeleteInstances, Live
<1>2. CASE SetService(s)
  BY <1>2 DEF SetService, Kept, Live
<1>3. CASE StopKills(s)
  BY <1>3 DEF StopKills, Live
<1>4. CASE FlushEmpty(s) \/ FlushLeftovers(s) \/ StopFlushes(s)
  BY <1>4 DEF FlushEmpty, FlushLeftovers, StopFlushes
<1>5. CASE ~KernelStep(s)
  BY <1>5, KernelKept
<1> QED
  BY <1>1, <1>2, <1>3, <1>4, <1>5 DEF KernelStep

\* The check before the flush has found no process.
LEMMA RacingStep ==
    ASSUME NEW s \in Scripts, ScriptStep(s), Types, Racing
    PROVE  Racing'
<1> SUFFICES ASSUME NEW t \in Scripts, pc'[t] = "clear", NEW i \in Instances, run'[i] \in Live
             PROVE  i \in raced'
  BY DEF Racing, Clearing, Live
<1>1. run[i] \in Live /\ raced' = raced
  BY RacedKept, NoScriptLaunches
<1>2. CASE t # s
  BY <1>1, <1>2, OthersStay DEF Racing, Clearing
<1>3. CASE t = s
  BY <1>1, <1>3, Arrivals DEF BackendRunning
<1> QED
  BY <1>2, <1>3

\* What is launched after it is noted.
LEMMA RacingProcess ==
    ASSUME NEW i \in Instances, ProcessStep(i), Types, Racing
    PROVE  Racing'
<1>1. UNCHANGED pc
  BY ProcessFrame DEF locals
<1>2. ASSUME Clearing, NEW j \in Instances, run'[j] \in Live
      PROVE  j \in raced'
  BY <1>2
     DEF ProcessStep, Current, Predecessor, Launch, InstallRules, EndSession, Exit, OldInstalls,
         OldCloses, OldKilled, Types, Racing, Live, files, history
<1> QED
  BY <1>1, <1>2 DEF Racing, Clearing, Live

\* No flush hits a forwarding process, those it does not protect aside.
LEMMA RulesStep ==
    ASSUME NEW s \in Scripts, ScriptStep(s), TypeInv, Flushing, Racing, LiveRulesKept
    PROVE  LiveRulesKept'
<1> USE DEF TypeInv, TypeOK, Types, LiveRulesKept
<1>1. forgotten \subseteq forgotten' /\ raced' = raced
  BY FilesKept, RacedKept
     DEF WritesFiles, Publish, StartInstances, StartInstanceFails, Declare, history
<1>2. CASE StopFlushes(s)
  BY <1>2 DEF StopFlushes, Stopping, Goto
<1>3. CASE StopKills(s)
  BY <1>3 DEF StopKills
<1>4. CASE ~StopKills(s) /\ Stopping
  <2>1. pc[s] # "kill"
    BY <1>4, MovesOn
  <2> QED
    BY <1>4, <2>1, OthersStay DEF Stopping
<1>5. CASE DeleteInstances(s) /\ ~Stopping
  BY <1>1, <1>5 DEF DeleteInstances, RetiredRules, files
<1>6. CASE SetService(s) /\ ~Stopping
  BY <1>1, <1>6 DEF SetService, Kept, RetiredRules, files
<1>7. CASE FlushEmpty(s) /\ ~Stopping
  BY <1>1, <1>7 DEF FlushEmpty, Flushing, Shape, files
<1>8. CASE FlushLeftovers(s) /\ ~Stopping
  BY <1>1, <1>8 DEF FlushLeftovers, Racing, Clearing, Live
<1>9. CASE ~KernelStep(s) /\ ~Stopping
  BY <1>1, <1>9, KernelKept
<1> QED
  BY <1>2, <1>3, <1>4, <1>5, <1>6, <1>7, <1>8, <1>9 DEF KernelStep

\* A process removes its own rules only when it stops believing in them.
LEMMA RulesProcess ==
    ASSUME NEW i \in Instances, ProcessStep(i), Types, LiveRulesKept
    PROVE  LiveRulesKept'
<1>1. UNCHANGED <<forgotten, pc>>
  BY ProcessFrame DEF locals
<1>2. ASSUME ~Stopping, NEW j \in Instances \ (forgotten \cup raced'), run'[j] = "forwarding"
      PROVE  "run" \in rules'[j]
  BY <1>2
     DEF ProcessStep, Current, Predecessor, Launch, InstallRules, EndSession, Exit, OldInstalls,
         OldCloses, OldKilled, Types, LiveRulesKept, files, history
<1> QED
  BY <1>1, <1>2 DEF LiveRulesKept, Stopping

\* The inductive invariant, beside TypeInv.
WorkInv == Reloading /\ Prepared /\ Declared /\ Known /\ Flushing /\ Racing /\ LiveRulesKept

\* WorkInv holds at the beginning ...
LEMMA WorkInit == Init => WorkInv
<1> SUFFICES ASSUME Init PROVE WorkInv
  OBVIOUS
<1>1. \A s \in Scripts : pc[s] \in {"idle", "check"}
  BY DEF Init
<1>2. Reloading
  BY DEF Init, Reloading
<1>3. Prepared /\ Declared /\ Flushing
  BY <1>1 DEF Prepared, Declared, Flushing
<1>4. Known /\ Racing /\ LiveRulesKept
  BY DEF Init, Known, Racing, Live, LiveRulesKept, Nothing
<1> QED
  BY <1>2, <1>3, <1>4 DEF WorkInv

\* ... and after every step.
LEMMA WorkNext == StartsAlone /\ TypeInv /\ WorkInv /\ [Next]_vars => WorkInv'
<1> SUFFICES ASSUME StartsAlone, TypeInv, WorkInv, [Next]_vars PROVE WorkInv'
  OBVIOUS
<1>1. CASE Edits
  BY <1>1, EditsFrame
     DEF WorkInv, Reloading, Prepared, Declared, Known, Flushing, Racing, Clearing, Live,
         LiveRulesKept, Stopping, Enabled, Nothing, files, history, kernel, locals
<1>2. ASSUME NEW s \in Scripts, ScriptStep(s) PROVE WorkInv'
  <2>1. Unique(s)
    BY OneWorker DEF Unique, WorkInv
  <2> QED
    BY <1>2, <2>1, ReloadingStep, PreparedStep, FlushingStep, DeclaredStep, KnownStep,
       RacingStep, RulesStep
       DEF WorkInv, TypeInv, TypeOK
<1>3. ASSUME NEW i \in Instances, ProcessStep(i) PROVE WorkInv'
  BY <1>3, ProcessFrame, RacingProcess, RulesProcess
     DEF WorkInv, TypeInv, TypeOK, Reloading, Prepared, Declared, Known, Flushing, Enabled,
         Nothing, locals
<1>4. CASE UNCHANGED vars
  BY <1>4
     DEF WorkInv, Reloading, Prepared, Declared, Known, Flushing, Racing, Clearing, Live,
         LiveRulesKept, Stopping, Enabled, Nothing, vars, files, history, kernel, locals
<1> QED
  BY <1>1, <1>2, <1>3, <1>4, NextIs

\* qnatter_flush_runtime_rules, at a start or in a reload whose new list is
\* empty, leaves every forwarding process its rules, unless a published list has
\* left the instance out before or its session has started between the check and
\* the flush of a start, which are two commands without a lock.
THEOREM RulesStay == StartsAlone => (Spec => []LiveRulesKept)
<1>1. WorkInv => LiveRulesKept
  BY DEF WorkInv
<1>2. CASE ~StartsAlone
  BY <1>2
<1>3. ASSUME StartsAlone PROVE Spec => []LiveRulesKept
  <2>1. TypeInv /\ WorkInv /\ [Next]_vars => TypeInv' /\ WorkInv'
    BY <1>3, TypeNext, WorkNext
  <2> QED
    BY <1>1, <2>1, TypeInit, WorkInit, PTL DEF Spec
<1> QED
  BY <1>2, <1>3

\* What a reload or a start ends has another fingerprint in its snapshot.
LEMMA SparesStep ==
    ASSUME StartsAlone, TypeInv, WorkInv, [Next]_vars, NEW s \in Scripts, Ends(s), pc'[s] # pc[s],
           NEW i \in Instances, Ended(i), Enabled(snap[s])
    PROVE  snap[s].inst[i] # procd[i]
<1> USE DEF TypeInv, TypeOK, WorkInv
<1>1. ScriptStep(s)
  BY EditsFrame, ProcessFrame, OthersStay, NextIs DEF locals, vars
<1>2. pc[s] \in {"delete", "set"} /\ Working(s) /\ Unique(s)
  BY OneWorker DEF Ends, Working, Locked, InReload, Unique
<1>3. CASE pc[s] = "delete"
  <2>1. DeleteInstances(s)
    BY <1>1, <1>3, MovesOn
  <2>2. i \in Removed(s) \cup Reprinted(s)
    BY <2>1 DEF DeleteInstances, Ended, Types
  <2>3. runtime[i] = procd[i] /\ procd[i] # Off /\ new[s] = snap[s].inst
    BY <1>2, <1>3 DEF Known, Unique, Working, Ended, Prepared
  <2> QED
    BY <2>2, <2>3 DEF Removed, Reprinted
<1>4. CASE pc[s] = "set"
  <2>1. SetService(s)
    BY <1>1, <1>4, MovesOn
  <2>2. decl[s] = snap[s].inst
    BY <1>4 DEF Ends, Declared
  <2>3. i \notin Kept(s)
    BY <2>1 DEF SetService, Ended, Types, Kept
  <2> QED
    BY <2>2, <2>3 DEF Kept, Ended
<1> QED
  BY <1>2, <1>3, <1>4

\* Phases 2 and 3 of reload_service and the declaration of phase 4 end no process
\* whose fingerprint stays what it is.
THEOREM SparesStay == StartsAlone => (Spec => SparesUnchanged)
<1>1. ASSUME StartsAlone PROVE Spec => SparesUnchanged
  <2>1. TypeInv /\ WorkInv /\ [Next]_vars => TypeInv' /\ WorkInv'
    BY <1>1, TypeNext, WorkNext
  <2>2. TypeInv /\ WorkInv /\ [Next]_vars =>
          [\A s \in Scripts : Ends(s) /\ pc'[s] # pc[s] =>
             \A i \in Instances : Ended(i) => snap[s].inst[i] # procd[i] \/ ~Enabled(snap[s])]_vars
    BY <1>1, SparesStep
  <2> QED
    BY <2>1, <2>2, TypeInit, WorkInit, PTL DEF Spec, SparesUnchanged
<1> QED
  BY <1>1

-----------------------------------------------------------------------------
\* A commit is applied when the service stays on, commits come between two runs
\* of the script and nothing fails.
Calm ==
    /\ StartsAlone /\ ~EditsInScript /\ MaxFaults = 0
    /\ Globals \subseteq {"on"} /\ "stop" \notin Commands

StaysOn ==
    /\ config.global = "on" /\ budget["faults"] = 0
    /\ \A s \in Scripts : pc[s] \notin {"stop", "kill"}

\* Whoever is at work works on the configuration as it is.
Fresh == \A s \in Scripts : pc[s] # "idle" => snap[s] = config

AfterDelete == {"flush", "restart", "declare", "set", "publish"}

Carried == \A s \in Scripts :
    /\ pc[s] \in AfterDelete /\ nested[s] => new[s] = config.inst
    /\ pc[s] \in {"set", "publish"} => ok[s]
    /\ pc[s] = "set" => list = Present(config.inst)
    /\ pc[s] = "publish" => procd = config.inst

\* Outside phases 2 to 4 the files are what procd runs.
Between == \E s \in Scripts : pc[s] \in {"flush", "restart", "declare", "set"}
Listed == Between \/ (list = Present(procd) /\ \A i \in list : runtime[i] = procd[i])

\* A commit waits for its reload, or somebody is at it, or it is applied.
Applied == dirty \/ (\E s \in Scripts : pc[s] # "idle") \/ procd = config.inst

\* The inductive invariant of calm behaviours, beside TypeInv and WorkInv.
CalmInv == StaysOn /\ Fresh /\ Carried /\ Listed /\ Applied

\* Without faults and without stop, these are the steps of a script.
CalmStep(s) ==
    \/ ReloadTriggered(s) \/ Ifup(s) \/ TakeLock(s) \/ SkipReload(s)
    \/ HotLoad(s) \/ HotReload(s) \/ NotHot(s)
    \/ PrepareFingerprints(s) \/ DeleteInstances(s) \/ FlushEmpty(s)
    \/ Restart(s) \/ Publish(s) \/ StartCommand(s) \/ CheckBackends(s)
    \/ FlushLeftovers(s) \/ StartInstances(s) \/ SetService(s)

LEMMA CalmSteps ==
    ASSUME Calm, StaysOn, NEW s \in Scripts, ScriptStep(s)
    PROVE  CalmStep(s)
BY DEF Calm, StaysOn, CalmStep, ScriptStep, Script, ReloadSteps, StartSteps, StopSteps, Calls,
       Faults, Spend, HotReloadFails, PrepareFingerprintsFails, PrepareSlotsFails,
       StartInstanceFails, StopCommand, StopFlushes, StopKills

\* The script keeps the service on and reads the configuration as it is.
LEMMA StaysOnStep ==
    ASSUME Types, StaysOn, Fresh, NEW s \in Scripts, CalmStep(s)
    PROVE  StaysOn' /\ Fresh' /\ config' = config
<1>1. config' = config
  BY DEF CalmStep, LoadForReload, Declare,
         ReloadTriggered, Ifup, TakeLock, SkipReload, HotLoad, HotReload, NotHot,
         PrepareFingerprints, DeleteInstances, FlushEmpty, Restart, Publish, StartCommand,
         CheckBackends, FlushLeftovers, StartInstances, SetService
<1>2. budget'["faults"] = 0
  BY DEF StaysOn, Types, Spend, CalmStep, LoadForReload, Declare,
         ReloadTriggered, Ifup, TakeLock, SkipReload, HotLoad, HotReload, NotHot,
         PrepareFingerprints, DeleteInstances, FlushEmpty, Restart, Publish, StartCommand,
         CheckBackends, FlushLeftovers, StartInstances, SetService
<1>3. pc'[s] \notin {"stop", "kill"} /\ (pc'[s] # "idle" => snap'[s] = config)
  BY DEF StaysOn, Fresh, Types, Enabled, Goto, CalmStep, LoadForReload, Declare,
         ReloadTriggered, Ifup, TakeLock, SkipReload, HotLoad, HotReload, NotHot,
         PrepareFingerprints, DeleteInstances, FlushEmpty, Restart, Publish, StartCommand,
         CheckBackends, FlushLeftovers, StartInstances, SetService
<1>4. ScriptStep(s)
  BY DEF CalmStep, ScriptStep, Script, ReloadSteps, StartSteps, Calls
<1> QED
  BY <1>1, <1>2, <1>3, <1>4, OthersStay DEF StaysOn, Fresh

\* What a reload prepared and declared is the configuration, to the end.
LEMMA CarriedStep ==
    ASSUME NEW s \in Scripts, CalmStep(s), ScriptStep(s), Unique(s),
           TypeInv, WorkInv, CalmInv, config' = config
    PROVE  Carried'
<1> USE DEF TypeInv, TypeOK, WorkInv, CalmInv
<1>1. ASSUME NEW t \in Scripts, t # s
      PROVE  /\ pc'[t] \in AfterDelete /\ nested'[t] => new'[t] = config.inst
             /\ pc'[t] \in {"set", "publish"} => ok'[t]
             /\ pc'[t] = "set" => list' = Present(config.inst)
             /\ pc'[t] = "publish" => procd' = config.inst
  <2>1. /\ pc'[t] = pc[t] /\ nested'[t] = nested[t] /\ new'[t] = new[t] /\ ok'[t] = ok[t]
    BY <1>1, OthersStay
  <2>2. pc[t] \in {"set", "publish"} => ~Working(s)
    BY <1>1 DEF Unique, Working, Locked, InReload
  <2>3. pc[t] \in {"set", "publish"} => UNCHANGED <<list, procd>>
    BY <2>2, FilesKept, KernelKept
       DEF CalmStep, Working, Locked, InReload, KernelStep, WritesFiles, DeleteInstances,
           FlushEmpty, FlushLeftovers, SetService, StopFlushes, StopKills, Publish,
           StartInstances, StartInstanceFails, Calm, StaysOn
  <2> QED
    BY <2>1, <2>3 DEF Carried
<1>2. pc'[s] \in AfterDelete /\ nested'[s] => new'[s] = config.inst
  BY DEF Carried, Prepared, Fresh, AfterDelete, Types, Goto, Orders, Declare, LoadForReload,
         CalmStep, ReloadTriggered, Ifup, TakeLock, SkipReload, HotLoad, HotReload, NotHot,
         PrepareFingerprints, DeleteInstances, FlushEmpty, Restart, Publish, StartCommand,
         CheckBackends, FlushLeftovers, StartInstances, SetService
<1>3. pc'[s] = "set" => StartInstances(s)
  BY Arrivals, CalmSteps
     DEF StaysOn, Enabled, Restart, StartCommand, PrepareSlotsFails, StartInstanceFails, Spend,
         Goto, Types
<1>4. pc'[s] = "set" => ok'[s] /\ list' = Present(config.inst)
  BY <1>3 DEF StartInstances, Declare, Types, Fresh
<1>5. pc'[s] = "publish" => SetService(s) /\ ok'[s]
  BY DEF Carried, Types, Goto, Declare, LoadForReload,
         CalmStep, ReloadTriggered, Ifup, TakeLock, SkipReload, HotLoad, HotReload, NotHot,
         PrepareFingerprints, DeleteInstances, FlushEmpty, Restart, Publish, StartCommand,
         CheckBackends, FlushLeftovers, StartInstances, SetService
<1>6. pc'[s] = "publish" => procd' = config.inst
  BY <1>5 DEF SetService, Declared, Carried, Fresh, Enabled, StaysOn
<1> QED
  BY <1>1, <1>2, <1>4, <1>5, <1>6 DEF Carried, Present

\* Outside phases 2 to 4 the files stay what procd runs.
LEMMA ListedStep ==
    ASSUME NEW s \in Scripts, CalmStep(s), ScriptStep(s), Unique(s),
           TypeInv, WorkInv, CalmInv, config' = config
    PROVE  Listed'
<1> USE DEF TypeInv, TypeOK, WorkInv, CalmInv
<1>1. CASE pc'[s] \in {"flush", "restart", "declare", "set"}
  BY <1>1 DEF Listed, Between
<1>2. CASE SetService(s)
  <2>1. decl[s] = config.inst /\ list = Present(config.inst)
    BY <1>2 DEF SetService, Declared, Carried, Fresh, Enabled, StaysOn
  <2>2. procd' = config.inst /\ UNCHANGED <<list, runtime>>
    BY <1>2, <2>1 DEF SetService, files
  <2>3. \A i \in list : runtime[i] = config.inst[i]
    BY <1>2, <2>1 DEF SetService, Declared, Present
  <2> QED
    BY <2>1, <2>2, <2>3 DEF Listed, Present
<1>3. CASE Publish(s)
  <2>1. procd = config.inst /\ procd' = procd /\ ok[s]
    BY <1>3 DEF Publish, Carried, kernel
  <2>2. new[s] = config.inst
    BY <1>3 DEF Publish, Carried, AfterDelete, Orders, InReload
  <2>3. list = Present(procd) /\ \A i \in list : runtime[i] = procd[i]
    BY <1>3 DEF Publish, Listed, Between, Unique, Working, Locked, InReload, Types
  <2>4. list' = Present(procd') /\ runtime' = runtime /\ list' = list
    BY <1>3, <2>1, <2>2, <2>3 DEF Publish, Present
  <2> QED
    BY <2>1, <2>3, <2>4 DEF Listed
<1>4. CASE /\ pc'[s] \notin {"flush", "restart", "declare", "set"}
           /\ ~SetService(s) /\ ~Publish(s)
  <2>1. pc[s] \notin {"flush", "restart", "declare", "set"}
    BY <1>4 DEF Types, Goto, Declare, LoadForReload,
         CalmStep, ReloadTriggered, Ifup, TakeLock, SkipReload, HotLoad, HotReload, NotHot,
         PrepareFingerprints, DeleteInstances, FlushEmpty, Restart, StartCommand,
         CheckBackends, FlushLeftovers, StartInstances, SetService
  <2>2. ~DeleteInstances(s) /\ ~StartInstances(s) /\ ~FlushEmpty(s) /\ ~FlushLeftovers(s)
    BY <1>4 DEF DeleteInstances, StartInstances, FlushEmpty, FlushLeftovers, Declare, Types, Goto
  <2>3. UNCHANGED <<list, runtime, procd>>
    BY <1>4, <2>2, FilesKept, KernelKept
       DEF KernelStep, WritesFiles, StopFlushes, StopKills, StartInstanceFails, Spend, StaysOn
  <2>4. Between => Between'
    BY <2>1, OthersStay DEF Between
  <2> QED
    BY <2>3, <2>4 DEF Listed, Present
<1> QED
  BY <1>1, <1>2, <1>3, <1>4

\* An invocation that returns has applied the configuration, or leaves one at it.
LEMMA AppliedStep ==
    ASSUME NEW s \in Scripts, CalmStep(s), ScriptStep(s), Unique(s),
           TypeInv, WorkInv, CalmInv, config' = config
    PROVE  Applied'
<1> USE DEF TypeInv, TypeOK, WorkInv, CalmInv
<1>1. CASE pc'[s] # "idle"
  BY <1>1 DEF Applied
<1>2. CASE SkipReload(s)
  <2>1. PICK t \in Scripts : lock = t
    BY <1>2 DEF SkipReload, Types
  <2>2. Locked(t) /\ t # s /\ pc[t] # "idle"
    BY <1>2, <2>1 DEF SkipReload, Shape, Locked, InReload
  <2> QED
    BY <2>2, OthersStay DEF Applied
<1>3. CASE HotReload(s)
  <2>1. list = Present(procd) /\ \A i \in list : runtime[i] = procd[i]
    BY <1>3 DEF HotReload, Listed, Between, Unique, Working, Locked, InReload
  <2>2. Present(config.inst) = list /\ \A i \in list : runtime[i] = config.inst[i]
    BY <1>3 DEF HotReload, SameAsFiles, Fresh
  <2>3. procd \in Tables /\ config.inst \in Tables /\ procd' = procd
    BY <1>3 DEF Types, Configs, HotReload, kernel
  <2>4. procd = config.inst
    BY <2>1, <2>2, <2>3 DEF Tables, Present
  <2> QED
    BY <2>3, <2>4 DEF Applied
<1>4. CASE Publish(s)
  BY <1>4 DEF Publish, Carried, Applied, kernel
<1>5. CASE SetService(s)
  BY <1>5 DEF SetService, Declared, Carried, Fresh, Enabled, StaysOn, Applied
<1>6. CASE /\ pc'[s] = "idle" /\ ~SkipReload(s) /\ ~HotReload(s)
           /\ ~Publish(s) /\ ~SetService(s)
  BY <1>6 DEF Types, Goto, StaysOn, Enabled, Declare, LoadForReload,
         CalmStep, ReloadTriggered, Ifup, TakeLock, HotLoad, NotHot,
         PrepareFingerprints, DeleteInstances, FlushEmpty, Restart, StartCommand,
         CheckBackends, FlushLeftovers, StartInstances
<1> QED
  BY <1>1, <1>2, <1>3, <1>4, <1>5, <1>6

\* CalmInv holds at the beginning ...
LEMMA CalmInit == Calm /\ Init => CalmInv
<1> SUFFICES ASSUME Calm, Init PROVE CalmInv
  OBVIOUS
<1>1. \A s \in Scripts : pc[s] \in {"idle", "check"} /\ snap[s] = config
  BY DEF Init
<1>2. StaysOn
  BY <1>1 DEF Init, Calm, StaysOn
<1>3. Fresh /\ Carried
  BY <1>1 DEF Fresh, Carried, AfterDelete
<1>4. Listed
  BY DEF Init, Listed, Nothing, Present
<1>5. Applied
  BY DEF Init, Applied
<1> QED
  BY <1>2, <1>3, <1>4, <1>5 DEF CalmInv

\* ... and after every step.
LEMMA CalmNext == Calm /\ TypeInv /\ WorkInv /\ CalmInv /\ [Next]_vars => CalmInv'
<1> SUFFICES ASSUME Calm, TypeInv, WorkInv, CalmInv, [Next]_vars PROVE CalmInv'
  OBVIOUS
<1>1. CASE Edits
  <2>1. \A s \in Scripts : pc[s] = "idle"
    BY <1>1 DEF Edits, EditInstance, EditGlobal, Toggle, MayEdit, Calm
  <2>2. UNCHANGED <<files, lock, kernel, locals>> /\ dirty' = TRUE
    BY <1>1 DEF Edits, EditInstance, EditGlobal, Toggle
  <2>3. config'.global = "on" /\ budget'["faults"] = 0
    BY <1>1
       DEF Edits, EditInstance, EditGlobal, Toggle, MayEdit, Spend, Calm, CalmInv, StaysOn,
           TypeInv, TypeOK, Types, Configs
  <2> QED
    BY <2>1, <2>2, <2>3
       DEF CalmInv, StaysOn, Fresh, Carried, AfterDelete, Listed, Between, Applied, Present,
           files, kernel, locals
<1>2. ASSUME NEW s \in Scripts, ScriptStep(s) PROVE CalmInv'
  <2>1. Unique(s)
    BY OneWorker DEF Unique, WorkInv, Calm
  <2>2. CalmStep(s)
    BY <1>2, CalmSteps DEF CalmInv
  <2>3. StaysOn' /\ Fresh' /\ config' = config
    BY <2>2, StaysOnStep DEF CalmInv, TypeInv, TypeOK
  <2> QED
    BY <1>2, <2>1, <2>2, <2>3, CarriedStep, ListedStep, AppliedStep DEF CalmInv
<1>3. ASSUME NEW i \in Instances, ProcessStep(i) PROVE CalmInv'
  <2>1. UNCHANGED <<config, dirty, list, runtime, lock, procd, locals>>
    BY <1>3, ProcessFrame
  <2>2. budget'["faults"] = 0
    BY <1>3
       DEF ProcessStep, Current, Predecessor, Launch, InstallRules, EndSession, Exit, OldInstalls,
           OldCloses, OldKilled, Spend, CalmInv, StaysOn, TypeInv, TypeOK, Types
  <2> QED
    BY <2>1, <2>2
       DEF CalmInv, StaysOn, Fresh, Carried, AfterDelete, Listed, Between, Applied, Present,
           files, locals
<1>4. CASE UNCHANGED vars
  BY <1>4
     DEF CalmInv, StaysOn, Fresh, Carried, AfterDelete, Listed, Between, Applied, Present,
         vars, files, kernel, locals
<1> QED
  BY <1>1, <1>2, <1>3, <1>4, NextIs

\* When every invocation has returned and no reload is due, procd runs what the
\* configuration says: the hot reload of qnatter.init and a reload skipped on the
\* lock lose no commit that was made while no script ran.
THEOREM CommitsApplied == Calm => (Spec => []AppliedWhenQuiet)
<1>1. ASSUME Calm PROVE Spec => []AppliedWhenQuiet
  <2>1. TypeInv /\ WorkInv /\ CalmInv /\ [Next]_vars => TypeInv' /\ WorkInv' /\ CalmInv'
    BY <1>1, TypeNext, WorkNext, CalmNext DEF Calm
  <2>2. Init => CalmInv
    BY <1>1, CalmInit
  <2>3. CalmInv => AppliedWhenQuiet
    BY DEF CalmInv, Applied, AppliedWhenQuiet, Idle
  <2> QED
    BY <2>1, <2>2, <2>3, TypeInit, WorkInit, PTL DEF Spec
<1> QED
  BY <1>1
=============================================================================
