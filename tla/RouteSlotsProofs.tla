-------------------------- MODULE RouteSlotsProofs --------------------------
(***************************************************************************)
(* Theorems about RouteSlots, for any number of sections, slots and passes *)
(* that overlap in any way, and any commits made meanwhile.                *)
(***************************************************************************)
EXTENDS RouteSlots, SequenceTheorems, TLAPS

(* What is left of a list without its k-th element.                        *)
LEMMA RemoveAtType ==
  ASSUME NEW S, NEW l \in Seq(S), NEW k \in 1 .. Len(l)
  PROVE  RemoveAt(l, k) \in Seq(S)
<1>1. SubSeq(l, 1, k - 1) \in Seq(S)
  <2>1. \A i \in 1 .. k - 1 : l[i] \in S
    OBVIOUS
  <2> QED BY <2>1, SubSeqProperties, Z3
<1>2. SubSeq(l, k + 1, Len(l)) \in Seq(S)
  <2>1. \A i \in k + 1 .. Len(l) : l[i] \in S
    OBVIOUS
  <2> QED BY <2>1, SubSeqProperties, Z3
<1> QED
  BY <1>1, <1>2 DEF RemoveAt

(* Spending keeps the budget a table of numbers.                           *)
LEMMA SpendType ==
  ASSUME NEW b \in {"edits", "faults", "reboots"}, Spend(b),
         budget \in [{"edits", "faults", "reboots"} -> Nat]
  PROVE  budget' \in [{"edits", "faults", "reboots"} -> Nat]
BY DEF Spend

(* The type invariant: it is inductive as it stands.                       *)
LEMMA TypeInit == Init => TypeOK
<1> SUFFICES ASSUME Init PROVE TypeOK
  OBVIOUS
<1>1. None \in Assignments
  BY DEF None, Assignments
<1>2. budget \in [{"edits", "faults", "reboots"} -> Nat]
  BY BoundsAssumption DEF Init
<1>3. << >> \in Seq(Sections) /\ Len(<< >>) = 0
  OBVIOUS
<1>4. /\ list \in [Passes -> Seq(Sections)] /\ at \in [Passes -> Nat \ {0}]
      /\ \A p \in Passes : at[p] <= Len(list[p]) + 1
  BY <1>3 DEF Init
<1>5. /\ seen \in [Passes -> Assignments] /\ got \in [Passes -> Assignments]
      /\ slot \in Assignments /\ flash \in Assignments /\ given \in Assignments
  BY <1>1 DEF Init
<1>6. /\ pc \in [Passes -> {"idle", "next", "ok", "failed"}] /\ disturbed \in BOOLEAN
      /\ failed \in [Passes -> BOOLEAN] /\ changed \in [Passes -> BOOLEAN]
  BY DEF Init
<1> QED
  BY <1>2, <1>3, <1>4, <1>5, <1>6 DEF Init, TypeOK

LEMMA TypeStep == TypeOK /\ [Next]_vars => TypeOK'
<1> SUFFICES ASSUME TypeOK, [Next]_vars PROVE TypeOK'
  OBVIOUS
<1> USE DEF TypeOK
<1>1. \A s \in Sections, n \in Slots \cup {NoSlot}, f \in Assignments :
         [f EXCEPT ![s] = n] \in Assignments
  BY DEF Assignments
<1>2. ASSUME NEW s \in Sections, AppendSection(s) PROVE TypeOK'
  BY <1>2, SpendType DEF AppendSection, Edit, pass
<1>3. ASSUME NEW k \in 1 .. Len(order), DeleteSection(k) PROVE TypeOK'
  <2>1. order' \in Seq(Sections)
    BY <1>3, RemoveAtType DEF DeleteSection
  <2>2. order[k] \in Sections
    OBVIOUS
  <2> QED
    BY <1>1, <1>3, <2>1, <2>2, SpendType DEF DeleteSection, Edit, pass
<1>4. ASSUME NEW k \in 1 .. Len(order), MoveFirst(k) PROVE TypeOK'
  <2>1. RemoveAt(order, k) \in Seq(Sections) /\ <<order[k]>> \in Seq(Sections)
    BY RemoveAtType
  <2>2. order' \in Seq(Sections)
    BY <1>4, <2>1 DEF MoveFirst
  <2> QED
    BY <1>4, <2>2, SpendType DEF MoveFirst, Edit, pass
<1>5. ASSUME NEW k \in 1 .. Len(order), NEW n \in Slots \cup {NoSlot}, SetSlot(k, n)
      PROVE TypeOK'
  <2>1. order[k] \in Sections
    OBVIOUS
  <2> QED
    BY <1>1, <1>5, <2>1, SpendType DEF SetSlot, Edit, pass
<1>6. CASE Reboot
  BY <1>6, SpendType DEF Reboot
<1>7. ASSUME NEW p \in Passes, Load(p) PROVE TypeOK'
  <2>1. None \in Assignments
    BY DEF None, Assignments
  <2> QED
    BY <1>7, <2>1 DEF Load, config
<1>8. ASSUME NEW p \in Passes, InLoop(p)
      PROVE Here(p) \in Sections /\ at[p] + 1 \in Nat \ {0} /\ at[p] + 1 <= Len(list[p]) + 1
  BY <1>8 DEF InLoop, Here
<1>9. ASSUME NEW p \in Passes, KeepSlot(p) PROVE TypeOK'
  <2>1. got' \in [Passes -> Assignments]
    BY <1>8, <1>9 DEF KeepSlot, HasSlot, Assignments
  <2> QED
    BY <1>8, <1>9, <2>1 DEF KeepSlot, config
<1>10. ASSUME NEW p \in Passes, NEW n \in FreeSlots(p), AssignSlot(p, n) PROVE TypeOK'
  <2>1. n \in Slots
    BY DEF FreeSlots
  <2>2. got' \in [Passes -> Assignments] /\ slot' \in Assignments
    BY <1>8, <1>10, <2>1 DEF AssignSlot, Assignments
  <2> QED
    BY <1>8, <1>10, <2>2 DEF AssignSlot
<1>11. ASSUME NEW p \in Passes, SlotFails(p), budget' \in [{"edits", "faults", "reboots"} -> Nat]
       PROVE TypeOK'
  BY <1>8, <1>11 DEF SlotFails, config
<1>12. ASSUME NEW p \in Passes, NoFreeSlot(p) \/ SetFails(p) PROVE TypeOK'
  BY <1>11, <1>12, SpendType DEF NoFreeSlot, SetFails
<1>13. ASSUME NEW p \in Passes, NEW r \in {"ok", "failed"}, Return(p, r),
              flash' \in Assignments, budget' \in [{"edits", "faults", "reboots"} -> Nat]
       PROVE TypeOK'
  <2>1. given' \in Assignments
    BY <1>13 DEF Return, Assignments
  <2> QED
    BY <1>13, <2>1 DEF Return
<1>14. ASSUME NEW p \in Passes, ReturnFailed(p) \/ CommitSlots(p) \/ CommitFails(p) \/ NothingToCommit(p)
       PROVE TypeOK'
  BY <1>13, <1>14, SpendType DEF ReturnFailed, CommitSlots, CommitFails, NothingToCommit
<1>15. CASE UNCHANGED vars
  BY <1>15 DEF vars, config, pass
<1> QED
  BY <1>2, <1>3, <1>4, <1>5, <1>6, <1>7, <1>9, <1>10, <1>12, <1>14, <1>15 DEF Next, Commits, Pass

(* Every variable keeps its type and config_foreach stays within its list. *)
THEOREM TypeCorrect == Spec => []TypeOK
BY TypeInit, TypeStep, PTL DEF Spec

-----------------------------------------------------------------------------
(* What a pass has recorded so far is free of repetitions, and complete up *)
(* to where the loop is unless a section has failed; a pass that returned  *)
(* "ok" went through its list without a failure.                           *)
Injective(p) ==
  \A s, t \in Sections : got[p][s] \in Slots /\ got[p][s] = got[p][t] => s = t

Complete(p) ==
  ~failed[p] => \A k \in 1 .. at[p] - 1 : got[p][list[p][k]] \in Slots

Through(p) == pc[p] = "ok" => ~failed[p] /\ at[p] > Len(list[p])

PassInv == \A p \in Passes : Injective(p) /\ Complete(p) /\ Through(p)

LEMMA PassInit == Init => PassInv
BY SlotsAssumption DEF Init, None, PassInv, Injective, Complete, Through

(* Recording a free slot for the section the loop is at.                   *)
LEMMA Recording ==
  ASSUME TypeOK, PassInv, NEW p \in Passes, InLoop(p),
         NEW n \in Slots, ~Used(p, n),
         got' = [got EXCEPT ![p][Here(p)] = n],
         at' = [at EXCEPT ![p] = @ + 1],
         UNCHANGED <<pc, list, failed>>
  PROVE  PassInv'
<1> DEFINE h == Here(p)
<1>1. h \in Sections /\ h = list[p][at[p]] /\ got[p] \in Assignments
  BY DEF TypeOK, InLoop, Here
<1>2. \A s \in Sections : got'[p][s] = IF s = h THEN n ELSE got[p][s]
  BY <1>1 DEF TypeOK, Assignments
<1>3. \A q \in Passes : q # p => got'[q] = got[q] /\ at'[q] = at[q]
  BY DEF TypeOK
<1>4. \A s \in Sections : got[p][s] # n
  BY DEF Used
<1>5. Injective(p)'
  BY <1>2, <1>4 DEF PassInv, Injective
<1>6. Complete(p)'
  <2> SUFFICES ASSUME ~failed[p], NEW k \in 1 .. at[p] PROVE got'[p][list[p][k]] \in Slots
    BY DEF Complete, TypeOK
  <2>1. list[p][k] \in Sections
    BY DEF TypeOK, InLoop
  <2>2. CASE k = at[p]
    BY <1>1, <1>2, <2>2
  <2>3. CASE k # at[p]
    <3>1. k \in 1 .. at[p] - 1
      BY <2>3 DEF TypeOK
    <3> QED
      BY <1>2, <2>1, <3>1 DEF PassInv, Complete
  <2> QED
    BY <2>2, <2>3
<1>7. Through(p)'
  BY DEF InLoop, Through
<1>8. \A q \in Passes : q # p => Injective(q)' /\ Complete(q)' /\ Through(q)'
  BY <1>3 DEF PassInv, Injective, Complete, Through
<1> QED
  BY <1>5, <1>6, <1>7, <1>8 DEF PassInv

LEMMA PassStep == TypeOK /\ PassInv /\ [Next]_vars => PassInv'
<1> SUFFICES ASSUME TypeOK, PassInv, [Next]_vars PROVE PassInv'
  OBVIOUS
<1>1. ASSUME UNCHANGED pass PROVE PassInv'
  BY <1>1 DEF pass, PassInv, Injective, Complete, Through
<1>2. CASE Commits
  BY <1>1, <1>2 DEF Commits, AppendSection, DeleteSection, MoveFirst, SetSlot, Edit
<1>3. CASE Reboot
  BY <1>3 DEF Reboot, PassInv, Injective, Complete, Through
<1>4. ASSUME NEW p \in Passes, Load(p) PROVE PassInv'
  <2>1. Injective(p)' /\ Complete(p)' /\ Through(p)'
    BY <1>4, SlotsAssumption DEF Load, None, Injective, Complete, Through, TypeOK
  <2>2. \A q \in Passes : q # p => Injective(q)' /\ Complete(q)' /\ Through(q)'
    BY <1>4 DEF Load, PassInv, Injective, Complete, Through, TypeOK
  <2> QED
    BY <2>1, <2>2 DEF PassInv
<1>5. ASSUME NEW p \in Passes, KeepSlot(p) PROVE PassInv'
  BY <1>5, Recording DEF KeepSlot, HasSlot
<1>6. ASSUME NEW p \in Passes, NEW n \in FreeSlots(p), AssignSlot(p, n) PROVE PassInv'
  BY <1>6, Recording DEF AssignSlot, FreeSlots
<1>7. ASSUME NEW p \in Passes, SlotFails(p) PROVE PassInv'
  <2>1. Injective(p)' /\ Complete(p)' /\ Through(p)'
    BY <1>7 DEF SlotFails, InLoop, PassInv, Injective, Complete, Through, TypeOK
  <2>2. \A q \in Passes : q # p => Injective(q)' /\ Complete(q)' /\ Through(q)'
    BY <1>7 DEF SlotFails, PassInv, Injective, Complete, Through, TypeOK
  <2> QED
    BY <2>1, <2>2 DEF PassInv
<1>8. ASSUME NEW p \in Passes, NEW r \in {"ok", "failed"}, Return(p, r), r = "ok" => ~failed[p]
      PROVE PassInv'
  <2>1. Injective(p)' /\ Complete(p)' /\ Through(p)'
    BY <1>8 DEF Return, AtEnd, PassInv, Injective, Complete, Through, TypeOK
  <2>2. \A q \in Passes : q # p => Injective(q)' /\ Complete(q)' /\ Through(q)'
    BY <1>8 DEF Return, PassInv, Injective, Complete, Through, TypeOK
  <2> QED
    BY <2>1, <2>2 DEF PassInv
<1>9. ASSUME NEW p \in Passes, Pass(p) PROVE PassInv'
  BY <1>4, <1>5, <1>6, <1>7, <1>8, <1>9
     DEF Pass, NoFreeSlot, SetFails, ReturnFailed, CommitSlots, CommitFails, NothingToCommit
<1> QED
  BY <1>1, <1>2, <1>3, <1>9 DEF Next, vars

LEMMA PassImpliesDistinct == TypeOK /\ PassInv => DistinctSlots
<1> SUFFICES ASSUME TypeOK, PassInv, NEW p \in Passes, pc[p] = "ok",
                    NEW j \in 1 .. Len(list[p]), NEW k \in 1 .. Len(list[p])
             PROVE  /\ got[p][list[p][j]] \in Slots
                    /\ got[p][list[p][j]] = got[p][list[p][k]] => list[p][j] = list[p][k]
  BY DEF DistinctSlots
<1>1. list[p][j] \in Sections /\ list[p][k] \in Sections
  BY DEF TypeOK
<1>2. j \in 1 .. at[p] - 1
  BY DEF PassInv, Through, TypeOK
<1>3. got[p][list[p][j]] \in Slots
  BY <1>2 DEF PassInv, Through, Complete
<1> QED
  BY <1>1, <1>3 DEF PassInv, Injective

(* The sections a successful pass loaded have slots of their own.          *)
THEOREM SlotsAlwaysDistinct == Spec => []DistinctSlots
<1>1. Init => PassInv
  BY PassInit
<1>2. TypeOK /\ PassInv /\ [Next]_vars => PassInv'
  BY PassStep
<1>3. TypeOK /\ PassInv => DistinctSlots
  BY PassImpliesDistinct
<1> QED
  BY <1>1, <1>2, <1>3, TypeCorrect, PTL DEF Spec

-----------------------------------------------------------------------------
(* Slots stay what they are because the sections that have been given one  *)
(* stand in front of those that have not: a pass keeps all of them before  *)
(* it looks for a free slot.  An append goes to the end and a deletion     *)
(* closes the gap; what could put a section without a slot in front of one *)
(* that has a slot makes `disturbed' true.                                 *)
Ordered == \A j, k \in 1 .. Len(order) : order[j] = order[k] => j = k

Owns == \A s, t \in Sections : given[s] # NoSlot /\ given[s] = given[t] => s = t

Stands == \A s \in Sections : given[s] # NoSlot =>
    slot[s] = given[s] /\ \E k \in 1 .. Len(order) : order[k] = s

Before == \A j, k \in 1 .. Len(order) :
    j < k /\ given[order[k]] # NoSlot => given[order[j]] # NoSlot

OnePass == \A p, q \in Passes : pc[p] = "next" /\ pc[q] = "next" => p = q

\* What a pass under way has read, and that it repeats what was given.
Renews(p) ==
    /\ list[p] = order
    /\ \A k \in at[p] .. Len(order) : seen[p][order[k]] = slot[order[k]]
    /\ \A k \in 1 .. at[p] - 1 :
          given[order[k]] # NoSlot => got[p][order[k]] = given[order[k]]
    /\ \A s \in Sections : got[p][s] # NoSlot =>
          slot[s] = got[p][s] /\ \E k \in 1 .. at[p] - 1 : order[k] = s

Undisturbed ==
    /\ Ordered /\ Owns /\ Stands /\ Before /\ OnePass
    /\ \A p \in Passes : pc[p] = "next" => Renews(p)

PersistInv == disturbed \/ Undisturbed

(* The elements of a list without its k-th.                                *)
LEMMA RemoveAtElements ==
  ASSUME NEW S, NEW l \in Seq(S), NEW k \in 1 .. Len(l)
  PROVE  /\ Len(RemoveAt(l, k)) = Len(l) - 1
         /\ \A i \in 1 .. Len(l) - 1 : RemoveAt(l, k)[i] = IF i < k THEN l[i] ELSE l[i + 1]
<1> DEFINE a == SubSeq(l, 1, k - 1)
           b == SubSeq(l, k + 1, Len(l))
<1>1. a \in Seq(S) /\ Len(a) = k - 1 /\ \A i \in 1 .. k - 1 : a[i] = l[i]
  <2>1. \A i \in 1 .. k - 1 : l[i] \in S
    OBVIOUS
  <2> QED
    BY <2>1, SubSeqProperties, Z3
<1>2. b \in Seq(S) /\ Len(b) = Len(l) - k /\ \A i \in 1 .. Len(l) - k : b[i] = l[k + i]
  <2>1. \A i \in k + 1 .. Len(l) : l[i] \in S
    OBVIOUS
  <2> QED
    BY <2>1, SubSeqProperties, Z3
<1>3. RemoveAt(l, k) = a \o b
  BY DEF RemoveAt
<1> HIDE DEF a, b
<1>4. Len(a \o b) = Len(l) - 1
  BY <1>1, <1>2
<1>5. ASSUME NEW i \in 1 .. Len(l) - 1
      PROVE  (a \o b)[i] = IF i < k THEN l[i] ELSE l[i + 1]
  BY <1>1, <1>2
<1> QED
  BY <1>3, <1>4, <1>5

(* Nothing moves while nobody writes order, slots or what was given.       *)
LEMMA PersistFrame ==
  ASSUME PersistInv, disturbed \in BOOLEAN, disturbed' = disturbed,
         UNCHANGED <<order, slot, given, list, seen, at, got>>,
         \A p \in Passes : pc'[p] = "next" => pc[p] = "next"
  PROVE  PersistInv'
BY DEF PersistInv, Undisturbed, Ordered, Owns, Stands, Before, OnePass, Renews

(* A section is added at the end, or taken out.                            *)
LEMMA PersistAppend ==
  ASSUME TypeOK, PersistInv, NEW s \in Sections, AppendSection(s)
  PROVE  PersistInv'
<1> SUFFICES ASSUME ~disturbed' PROVE Undisturbed'
  BY DEF PersistInv
<1>1. Undisturbed /\ \A p \in Passes : pc[p] # "next"
  BY DEF AppendSection, Edit, PersistInv
<1>2. UNCHANGED <<slot, given, pc>> /\ order' = Append(order, s)
  BY DEF AppendSection, Edit, pass
<1>3. /\ Len(order') = Len(order) + 1 /\ order'[Len(order) + 1] = s
      /\ \A k \in 1 .. Len(order) : order'[k] = order[k]
  BY <1>2 DEF TypeOK
<1>4. \A k \in 1 .. Len(order) : order[k] # s
  BY DEF AppendSection, Contains
<1>5. given[s] = NoSlot
  BY <1>1, <1>4 DEF Undisturbed, Stands
<1>6. Len(order) \in Nat
  BY DEF TypeOK
<1>7. Ordered'
  BY <1>1, <1>3, <1>4, <1>6 DEF Undisturbed, Ordered
<1>8. Stands'
  BY <1>1, <1>2, <1>3, <1>6 DEF Undisturbed, Stands
<1>9. Before'
  BY <1>1, <1>2, <1>3, <1>5, <1>6 DEF Undisturbed, Before
<1> QED
  BY <1>1, <1>2, <1>7, <1>8, <1>9 DEF Undisturbed, Owns, OnePass

LEMMA PersistDelete ==
  ASSUME TypeOK, PersistInv, NEW k \in 1 .. Len(order), DeleteSection(k)
  PROVE  PersistInv'
<1> SUFFICES ASSUME ~disturbed' PROVE Undisturbed'
  BY DEF PersistInv
<1> DEFINE o == order[k]
<1>1. Undisturbed /\ \A p \in Passes : pc[p] # "next"
  BY DEF DeleteSection, Edit, PersistInv
<1>2. /\ o \in Sections /\ Len(order) \in Nat
      /\ \A j \in 1 .. Len(order) : order[j] \in Sections
  BY DEF TypeOK
<1>3. /\ UNCHANGED pc
      /\ \A s \in Sections : slot'[s] = IF s = o THEN NoSlot ELSE slot[s]
      /\ \A s \in Sections : given'[s] = IF s = o THEN NoSlot ELSE given[s]
  BY <1>2 DEF DeleteSection, Edit, pass, TypeOK, Assignments
<1>4. /\ Len(order') = Len(order) - 1
      /\ \A i \in 1 .. Len(order) - 1 : order'[i] = IF i < k THEN order[i] ELSE order[i + 1]
  BY RemoveAtElements DEF DeleteSection, TypeOK
<1>5. \A j \in 1 .. Len(order) : order[j] = o => j = k
  BY <1>1 DEF Undisturbed, Ordered
<1>6. Ordered'
  BY <1>1, <1>2, <1>4 DEF Undisturbed, Ordered
<1>7. Stands'
  <2> SUFFICES ASSUME NEW s \in Sections, given'[s] # NoSlot
               PROVE  slot'[s] = given'[s] /\ \E i \in 1 .. Len(order') : order'[i] = s
    BY DEF Stands
  <2>1. s # o /\ given[s] # NoSlot /\ slot[s] = given[s]
    BY <1>1, <1>3 DEF Undisturbed, Stands
  <2>2. PICK j \in 1 .. Len(order) : order[j] = s
    BY <1>1, <2>1 DEF Undisturbed, Stands
  <2>3. j # k
    BY <2>1, <2>2
  <2>4. CASE j < k
    <3>1. j \in 1 .. Len(order') /\ order'[j] = s
      BY <1>2, <1>4, <2>2, <2>4
    <3> QED
      BY <1>3, <2>1, <3>1
  <2>5. CASE j > k
    <3>1. j - 1 \in 1 .. Len(order') /\ order'[j - 1] = s
      BY <1>2, <1>4, <2>2, <2>5
    <3> QED
      BY <1>3, <2>1, <3>1
  <2> QED
    BY <2>3, <2>4, <2>5
<1>8. Before'
  <2> SUFFICES ASSUME NEW i \in 1 .. Len(order'), NEW j \in 1 .. Len(order'), i < j,
                      given'[order'[j]] # NoSlot
               PROVE  given'[order'[i]] # NoSlot
    BY DEF Before
  <2>1. PICK a \in 1 .. Len(order), b \in 1 .. Len(order) :
           order'[i] = order[a] /\ order'[j] = order[b] /\ a < b /\ a # k
    <3> DEFINE a == IF i < k THEN i ELSE i + 1
               b == IF j < k THEN j ELSE j + 1
    <3>1. a \in 1 .. Len(order) /\ b \in 1 .. Len(order) /\ a < b /\ a # k
      BY <1>2, <1>4
    <3>2. order'[i] = order[a] /\ order'[j] = order[b]
      BY <1>4
    <3> QED
      BY <3>1, <3>2
  <2>2. given[order[b]] # NoSlot
    BY <1>2, <1>3, <2>1
  <2>3. given[order[a]] # NoSlot /\ order[a] # o
    BY <1>1, <1>5, <2>1, <2>2 DEF Undisturbed, Before
  <2> QED
    BY <1>2, <1>3, <2>1, <2>3
<1>9. Owns'
  BY <1>1, <1>3 DEF Undisturbed, Owns
<1> QED
  BY <1>1, <1>3, <1>6, <1>7, <1>8, <1>9 DEF Undisturbed, OnePass

LEMMA PersistLoad ==
  ASSUME TypeOK, PersistInv, NEW p \in Passes, Load(p)
  PROVE  PersistInv'
<1> SUFFICES ASSUME ~disturbed' PROVE Undisturbed'
  BY DEF PersistInv
<1>1. Undisturbed /\ \A q \in Passes : pc[q] # "next"
  BY DEF Load, PersistInv
<1>2. \A q \in Passes : pc'[q] = "next" => q = p
  BY <1>1 DEF Load, TypeOK
<1>3. Renews(p)'
  <2>1. list'[p] = order /\ seen'[p] = slot /\ at'[p] = 1 /\ got'[p] = None
        /\ UNCHANGED <<order, slot, given>>
    BY DEF Load, TypeOK, config
  <2> QED
    BY <2>1 DEF Renews, None
<1> QED
  BY <1>1, <1>2, <1>3 DEF Load, config, Undisturbed, Ordered, Owns, Stands, Before, OnePass

(* Where the loop is at a section that was given a slot, the section has   *)
(* it and no section before it does.                                       *)
LEMMA GivenIsFree ==
  ASSUME TypeOK, Undisturbed, NEW p \in Passes, InLoop(p), given[Here(p)] # NoSlot
  PROVE  HasSlot(p) /\ seen[p][Here(p)] = given[Here(p)]
<1> USE DEF Undisturbed
<1>1. Renews(p) /\ at[p] \in 1 .. Len(order) /\ Here(p) = order[at[p]] /\ Here(p) \in Sections
  BY DEF InLoop, Renews, Here, TypeOK
<1>2. seen[p][Here(p)] = given[Here(p)]
  BY <1>1 DEF Renews, Stands
<1>3. given[Here(p)] \in Slots
  BY <1>1 DEF TypeOK, Assignments
<1>4. ~Used(p, given[Here(p)])
  <2> SUFFICES ASSUME NEW s \in Sections, got[p][s] = given[Here(p)] PROVE FALSE
    BY DEF Used
  <2>1. PICK k \in 1 .. at[p] - 1 : order[k] = s
    BY <1>1 DEF Renews
  <2>2. k \in 1 .. Len(order) /\ k < at[p]
    BY <1>1
  <2>3. given[s] # NoSlot
    BY <1>1, <2>1, <2>2 DEF Before
  <2>4. got[p][s] = given[s]
    BY <1>1, <2>1, <2>3 DEF Renews
  <2>5. s = Here(p)
    BY <1>1, <2>3, <2>4 DEF Owns
  <2> QED
    BY <1>1, <2>1, <2>2, <2>5 DEF Ordered
<1> QED
  BY <1>2, <1>3, <1>4 DEF HasSlot

(* A pass records slot n for the section it is at, its own if one was      *)
(* given.                                                                  *)
LEMMA PersistRecord ==
  ASSUME TypeOK, Undisturbed, NEW p \in Passes, InLoop(p), NEW n \in Slots,
         given[Here(p)] # NoSlot => n = given[Here(p)],
         slot' = [slot EXCEPT ![Here(p)] = n],
         got' = [got EXCEPT ![p][Here(p)] = n],
         at' = [at EXCEPT ![p] = @ + 1],
         UNCHANGED <<order, given, pc, list, seen>>
  PROVE  Undisturbed'
<1> USE DEF Undisturbed
<1> DEFINE h == Here(p)
<1>1. Renews(p) /\ at[p] \in 1 .. Len(order) /\ h = order[at[p]] /\ h \in Sections
  BY DEF InLoop, Renews, Here, TypeOK
<1>2. \A s \in Sections : /\ slot'[s] = IF s = h THEN n ELSE slot[s]
                          /\ got'[p][s] = IF s = h THEN n ELSE got[p][s]
  BY <1>1 DEF TypeOK, Assignments
<1>3. at'[p] = at[p] + 1 /\ \A k \in 1 .. Len(order) : order[k] \in Sections
  BY DEF TypeOK
<1>4. Renews(p)'
  <2>1. \A k \in at[p] + 1 .. Len(order) : seen[p][order[k]] = slot'[order[k]]
    <3> SUFFICES ASSUME NEW k \in at[p] + 1 .. Len(order)
                 PROVE  seen[p][order[k]] = slot'[order[k]]
      OBVIOUS
    <3>1. k \in 1 .. Len(order) /\ k \in at[p] .. Len(order) /\ k # at[p]
      BY <1>1
    <3>2. order[k] # h
      BY <1>1, <3>1 DEF Ordered
    <3> QED
      BY <1>1, <1>2, <1>3, <3>1, <3>2 DEF Renews
  <2>2. ASSUME NEW k \in 1 .. at[p], given[order[k]] # NoSlot
        PROVE  got'[p][order[k]] = given[order[k]]
    <3>1. CASE k = at[p]
      BY <1>1, <1>2, <2>2, <3>1
    <3>2. CASE k # at[p]
      <4>1. k \in 1 .. at[p] - 1 /\ k \in 1 .. Len(order)
        BY <1>1, <3>2
      <4>2. order[k] # h
        BY <1>1, <3>2, <4>1 DEF Ordered
      <4> QED
        BY <1>1, <1>2, <1>3, <2>2, <4>1, <4>2 DEF Renews
    <3> QED
      BY <3>1, <3>2
  <2>3. ASSUME NEW s \in Sections, got'[p][s] # NoSlot
        PROVE  slot'[s] = got'[p][s] /\ \E k \in 1 .. at[p] : order[k] = s
    <3>1. CASE s = h
      BY <1>1, <1>2, <3>1
    <3>2. CASE s # h
      <4>1. PICK k \in 1 .. at[p] - 1 : order[k] = s
        BY <1>1, <1>2, <2>3, <3>2 DEF Renews
      <4>2. k \in 1 .. at[p]
        BY <1>1
      <4> QED
        BY <1>1, <1>2, <2>3, <3>2, <4>1, <4>2 DEF Renews
    <3> QED
      BY <3>1, <3>2
  <2>4. at'[p] - 1 = at[p]
    BY <1>1, <1>3
  <2> QED
    BY <1>1, <1>3, <2>1, <2>2, <2>3, <2>4 DEF Renews
<1>5. Stands'
  BY <1>1, <1>2 DEF Stands
<1>6. \A q \in Passes : pc[q] = "next" => q = p
  BY DEF OnePass, InLoop
<1>7. Ordered' /\ Owns' /\ Before' /\ OnePass'
  BY DEF Ordered, Owns, Before, OnePass
<1> QED
  BY <1>4, <1>5, <1>6, <1>7

LEMMA PersistKeep ==
  ASSUME TypeOK, PersistInv, NEW p \in Passes, KeepSlot(p)
  PROVE  PersistInv'
<1> SUFFICES ASSUME ~disturbed' PROVE Undisturbed'
  BY DEF PersistInv
<1>1. Undisturbed /\ InLoop(p) /\ HasSlot(p)
  BY DEF KeepSlot, PersistInv
<1>2. Renews(p) /\ at[p] \in 1 .. Len(order) /\ Here(p) = order[at[p]]
  BY <1>1 DEF InLoop, Renews, Here, TypeOK, Undisturbed
<1>3. slot[Here(p)] = seen[p][Here(p)]
  BY <1>2 DEF Renews
<1>4. slot' = [slot EXCEPT ![Here(p)] = seen[p][Here(p)]]
  BY <1>3 DEF KeepSlot, config, TypeOK, Assignments
<1>5. given[Here(p)] # NoSlot => seen[p][Here(p)] = given[Here(p)]
  BY <1>1, GivenIsFree
<1> QED
  BY <1>1, <1>4, <1>5, PersistRecord DEF KeepSlot, HasSlot, config

LEMMA PersistAssign ==
  ASSUME TypeOK, PersistInv, NEW p \in Passes, NEW n \in FreeSlots(p), AssignSlot(p, n)
  PROVE  PersistInv'
<1> SUFFICES ASSUME ~disturbed' PROVE Undisturbed'
  BY DEF PersistInv
<1>1. Undisturbed /\ InLoop(p) /\ given[Here(p)] = NoSlot
  BY GivenIsFree DEF AssignSlot, PersistInv
<1> QED
  BY <1>1, PersistRecord DEF AssignSlot, FreeSlots

LEMMA PersistSkip ==
  ASSUME TypeOK, PersistInv, NEW p \in Passes, SlotFails(p)
  PROVE  PersistInv'
<1> SUFFICES ASSUME ~disturbed' PROVE Undisturbed'
  BY DEF PersistInv
<1>1. Undisturbed /\ InLoop(p) /\ given[Here(p)] = NoSlot
  BY GivenIsFree DEF SlotFails, PersistInv
<1>2. Renews(p) /\ at[p] \in 1 .. Len(order) /\ Here(p) = order[at[p]]
  BY <1>1 DEF InLoop, Renews, Here, TypeOK, Undisturbed
<1>3. at'[p] = at[p] + 1 /\ UNCHANGED <<order, slot, given, pc, list, seen, got>>
  BY DEF SlotFails, config, TypeOK
<1>4. Renews(p)'
  <2>1. \A k \in at[p] + 1 .. Len(order) : seen[p][order[k]] = slot[order[k]]
    BY <1>2 DEF Renews
  <2>2. ASSUME NEW k \in 1 .. at[p], given[order[k]] # NoSlot
        PROVE  got[p][order[k]] = given[order[k]]
    BY <1>1, <1>2, <2>2 DEF Renews
  <2>3. ASSUME NEW s \in Sections, got[p][s] # NoSlot
        PROVE  slot[s] = got[p][s] /\ \E k \in 1 .. at[p] : order[k] = s
    BY <1>2, <2>3 DEF Renews
  <2>4. at'[p] - 1 = at[p]
    BY <1>2, <1>3
  <2> QED
    BY <1>2, <1>3, <2>1, <2>2, <2>3, <2>4 DEF Renews
<1>5. \A q \in Passes : pc[q] = "next" => q = p
  BY <1>1 DEF OnePass, InLoop, Undisturbed
<1>6. Ordered' /\ Owns' /\ Stands' /\ Before' /\ OnePass'
  BY <1>1, <1>3 DEF Undisturbed, Ordered, Owns, Stands, Before, OnePass
<1> QED
  BY <1>3, <1>4, <1>5, <1>6 DEF Undisturbed

(* A pass that returns "ok" has a slot for every section there is, and     *)
(* those that had been given one have it again.                            *)
LEMMA ReturnRenews ==
  ASSUME TypeOK, PassInv, Undisturbed, NEW p \in Passes, Return(p, "ok"), ~failed[p]
  PROVE  \A s \in Sections :
            /\ given[s] # NoSlot => given'[s] = given[s]
            /\ given'[s] = got[p][s]
            /\ (\E k \in 1 .. Len(order) : order[k] = s) => given'[s] \in Slots
<1>1. Renews(p) /\ at[p] > Len(order) /\ at[p] \in Nat /\ Len(order) \in Nat
  BY DEF Return, AtEnd, Renews, TypeOK, Undisturbed
<1>2. \A s \in Sections : Contains(order, s) <=> \E k \in 1 .. Len(order) : order[k] = s
  BY DEF Contains
<1>3. \A s \in Sections :
         (\E k \in 1 .. Len(order) : order[k] = s) => got[p][s] \in Slots /\ got[p][s] # NoSlot
  BY <1>1, SlotsAssumption DEF PassInv, Complete, Renews
<1>4. \A s \in Sections : got[p][s] # NoSlot => \E k \in 1 .. Len(order) : order[k] = s
  BY <1>1 DEF Renews, TypeOK
<1>5. \A s \in Sections : given'[s] = IF Contains(order, s) /\ got[p][s] # NoSlot
                                      THEN got[p][s] ELSE given[s]
  BY DEF Return
<1>6. \A s \in Sections :
         given[s] # NoSlot => \E k \in 1 .. at[p] - 1 : order[k] = s
  BY <1>1 DEF Undisturbed, Stands
<1>7. \A s \in Sections : given[s] # NoSlot => got[p][s] = given[s]
  BY <1>1, <1>6 DEF Renews
<1> QED
  BY <1>2, <1>3, <1>4, <1>5, <1>7 DEF Undisturbed, Stands

LEMMA PersistReturn ==
  ASSUME TypeOK, PassInv, PersistInv, NEW p \in Passes, NEW r \in {"ok", "failed"}, Return(p, r),
         r = "ok" => ~failed[p]
  PROVE  PersistInv'
<1>1. CASE r = "failed"
  BY <1>1, PersistFrame DEF Return, TypeOK
<1>2. CASE r = "ok"
  <2> SUFFICES ASSUME ~disturbed' PROVE Undisturbed'
    BY DEF PersistInv
  <2>1. Undisturbed /\ Renews(p)
    BY DEF Return, AtEnd, PersistInv, Undisturbed
  <2>2. \A s \in Sections :
            /\ given'[s] = got[p][s]
            /\ (\E k \in 1 .. Len(order) : order[k] = s) => given'[s] \in Slots
    BY <1>2, <2>1, ReturnRenews
  <2>3. \A q \in Passes : pc'[q] # "next"
    BY <1>2, <2>1 DEF Return, AtEnd, Undisturbed, OnePass, TypeOK
  <2>4. UNCHANGED <<order, slot>>
    BY DEF Return
  <2>5. Owns'
    BY <2>2 DEF PassInv, Injective, Owns, TypeOK, Assignments
  <2>6. Stands'
    <3>1. \A s \in Sections : got[p][s] # NoSlot =>
             slot[s] = got[p][s] /\ \E k \in 1 .. Len(order) : order[k] = s
      BY <2>1 DEF Renews, TypeOK
    <3> QED
      BY <2>2, <2>4, <3>1 DEF Stands
  <2>7. Before'
    BY <2>2, <2>4, SlotsAssumption DEF Before, TypeOK
  <2> QED
    BY <2>1, <2>3, <2>4, <2>5, <2>6, <2>7 DEF Undisturbed, Ordered, OnePass
<1> QED
  BY <1>1, <1>2

LEMMA PersistInit == Init => PersistInv
BY DEF Init, None, PersistInv, Undisturbed, Ordered, Owns, Stands, Before, OnePass

LEMMA PersistStep == TypeOK /\ PassInv /\ PersistInv /\ [Next]_vars => PersistInv'
<1> SUFFICES ASSUME TypeOK, PassInv, PersistInv, [Next]_vars PROVE PersistInv'
  OBVIOUS
<1>1. ASSUME NEW k \in 1 .. Len(order), MoveFirst(k) PROVE PersistInv'
  BY <1>1 DEF MoveFirst, Edit, PersistInv
<1>2. ASSUME NEW k \in 1 .. Len(order), NEW n \in Slots \cup {NoSlot}, SetSlot(k, n)
      PROVE PersistInv'
  BY <1>2 DEF SetSlot, Edit, PersistInv
<1>3. CASE Reboot
  <2>1. CASE slot = flash
    BY <1>3, <2>1, PersistFrame DEF Reboot, TypeOK
  <2>2. CASE slot # flash
    BY <1>3, <2>2 DEF Reboot, PersistInv
  <2> QED
    BY <2>1, <2>2
<1>4. ASSUME NEW p \in Passes, Pass(p) PROVE PersistInv'
  <2>1. CASE Load(p)
    BY <2>1, PersistLoad
  <2>2. CASE KeepSlot(p)
    BY <2>2, PersistKeep
  <2>3. CASE \E n \in FreeSlots(p) : AssignSlot(p, n)
    BY <2>3, PersistAssign
  <2>4. CASE NoFreeSlot(p) \/ SetFails(p)
    BY <2>4, PersistSkip DEF NoFreeSlot, SetFails
  <2>5. CASE ReturnFailed(p) \/ CommitSlots(p) \/ CommitFails(p) \/ NothingToCommit(p)
    BY <2>5, PersistReturn DEF ReturnFailed, CommitSlots, CommitFails, NothingToCommit
  <2> QED
    BY <1>4, <2>1, <2>2, <2>3, <2>4, <2>5 DEF Pass
<1>5. CASE UNCHANGED vars
  BY <1>5, PersistFrame DEF vars, config, pass, TypeOK
<1> QED
  BY <1>1, <1>2, <1>3, <1>4, <1>5, PersistAppend, PersistDelete DEF Next, Commits

(* The step at which a slot could change is the return of a pass, and that *)
(* gives again what was given.                                             *)
LEMMA GivenStays ==
  ASSUME TypeOK, PassInv, PersistInv, [Next]_vars, ~disturbed', NEW s \in Sections,
         given[s] # NoSlot, given'[s] # NoSlot
  PROVE  given'[s] = given[s]
<1>1. CASE UNCHANGED given
  BY <1>1
<1>2. ASSUME NEW k \in 1 .. Len(order), DeleteSection(k) PROVE given'[s] = given[s]
  BY <1>2 DEF DeleteSection, TypeOK, Assignments
<1>3. ASSUME NEW p \in Passes, Return(p, "ok"), ~failed[p] PROVE given'[s] = given[s]
  BY <1>3, ReturnRenews DEF Return, PersistInv
<1>4. ASSUME NEW p \in Passes, Pass(p) PROVE given'[s] = given[s]
  BY <1>3, <1>4
     DEF Pass, Load, KeepSlot, AssignSlot, NoFreeSlot, SetFails, SlotFails, ReturnFailed,
         CommitSlots, CommitFails, NothingToCommit, Return
<1>5. CASE Reboot
  BY <1>5 DEF Reboot
<1>6. CASE Commits
  BY <1>2, <1>6 DEF Commits, AppendSection, MoveFirst, SetSlot
<1> QED
  BY <1>1, <1>4, <1>5, <1>6 DEF Next, vars

(* The slot of qnatter_prepare_route_slots is persistent: every later pass *)
(* gives an instance the slot it was given, unless something disturbs.     *)
THEOREM SlotsPersist == Spec => SlotPersists
<1>1. TypeOK /\ PassInv /\ PersistInv /\ [Next]_vars =>
        [~disturbed' => \A s \in Sections :
           given[s] # NoSlot /\ given'[s] # NoSlot => given'[s] = given[s]]_vars
  BY GivenStays
<1>2. TypeOK /\ PassInv /\ PersistInv /\ [Next]_vars => PassInv' /\ PersistInv'
  BY PassStep, PersistStep
<1> QED
  BY <1>1, <1>2, TypeCorrect, PassInit, PersistInit, PTL DEF Spec, SlotPersists
=============================================================================
