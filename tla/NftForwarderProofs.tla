------------------------- MODULE NftForwarderProofs -------------------------
(***************************************************************************)
(* For any instances: every rule in the chains is counted on by somebody   *)
(* or was reported as not removed, and a Start that returned without error *)
(* has all its rules.                                                      *)
(*                                                                         *)
(* The argument counts.  An instance has a claim on a rule from its        *)
(* insertion to the attempt to remove it; each command adds a rule and a   *)
(* claim, or takes away a claim together with a rule or with a failure.    *)
(***************************************************************************)
EXTENDS NftForwarder, FiniteSetTheorems, TLAPS

Looking(i) == step[i] \in {"lookup", "delete"}

Claims ==
    {c \in Insts \X Kinds :
        c[2] \in Held(c[1]) \/ (Looking(c[1]) /\ rule[c[1]] = c[2])}

Claimants(t, C) ==
    {i \in Insts : \E r \in Kinds : Text(i, r) = t /\ <<i, r>> \in C}

Like(t, R) == {x \in R : x.text = t}

Count(R, C, u) ==
    \A t \in Texts :
        Cardinality(Like(t, R)) = Cardinality(Claimants(t, C)) + u[t]

-----------------------------------------------------------------------------
(* Counting                                                                *)

\* RulesCounted says of claims what Count says.
LEMMA CountedIsCount ==
    ASSUME rule \in [Insts -> Kinds]
    PROVE  RulesCounted <=> Count(rules, Claims, undeleted)
<1>. DEFINE Old(t) ==
        {i \in Insts :
            \E r \in Kinds : Text(i, r) = t
                /\ \/ r \in Held(i)
                   \/ step[i] \in {"lookup", "delete"} /\ rule[i] = r}
<1>1. ASSUME NEW t \in Texts PROVE Old(t) = Claimants(t, Claims)
  BY DEF Claimants, Claims, Looking
<1>2. \A t \in Texts : {x \in rules : x.text = t} = Like(t, rules)
  BY DEF Like
<1>3. RulesCounted <=>
        \A t \in Texts :
            Cardinality({x \in rules : x.text = t}) = Cardinality(Old(t)) + undeleted[t]
  BY DEF RulesCounted
<1>. QED
  BY <1>1, <1>2, <1>3 DEF Count

LEMMA Finite ==
    ASSUME NEW R, IsFiniteSet(R), NEW t, NEW C
    PROVE  /\ IsFiniteSet(Like(t, R)) /\ Cardinality(Like(t, R)) \in Nat
           /\ IsFiniteSet(Claimants(t, C)) /\ Cardinality(Claimants(t, C)) \in Nat
<1>1. Like(t, R) \subseteq R /\ Claimants(t, C) \subseteq Insts
  BY DEF Like, Claimants
<1>. QED
  BY <1>1, NftAssumption, FS_Subset, FS_CardinalityType

LEMMA TextsDiffer ==
    \A i, j \in Insts : \A r, q \in Kinds : Text(i, r) = Text(j, q) => r = q
BY DEF Text

\* A rule and a claim on it come in.
LEMMA CountGain ==
    ASSUME NEW R, IsFiniteSet(R), NEW C \in SUBSET (Insts \X Kinds),
           NEW u \in [Texts -> Nat], Count(R, C, u),
           NEW i \in Insts, NEW r \in Kinds, <<i, r>> \notin C,
           NEW x, x \notin R, x.text = Text(i, r)
    PROVE  Count(R \cup {x}, C \cup {<<i, r>>}, u)
<1>1. SUFFICES ASSUME NEW t \in Texts
               PROVE  Cardinality(Like(t, R \cup {x}))
                        = Cardinality(Claimants(t, C \cup {<<i, r>>})) + u[t]
  BY DEF Count
<1>2. Cardinality(Like(t, R)) = Cardinality(Claimants(t, C)) + u[t] /\ u[t] \in Nat
  BY DEF Count
<1>5. Cardinality(Like(t, R)) \in Nat /\ Cardinality(Claimants(t, C)) \in Nat
  BY Finite
<1>3. CASE t = Text(i, r)
  <2>1. Like(t, R \cup {x}) = Like(t, R) \cup {x} /\ x \notin Like(t, R)
    BY <1>3 DEF Like
  <2>2. Claimants(t, C \cup {<<i, r>>}) = Claimants(t, C) \cup {i}
    BY <1>3 DEF Claimants
  <2>3. i \notin Claimants(t, C)
    BY <1>3, TextsDiffer DEF Claimants
  <2>4. Cardinality(Like(t, R) \cup {x}) = Cardinality(Like(t, R)) + 1
    BY <2>1, Finite, FS_AddElement
  <2>5. Cardinality(Claimants(t, C) \cup {i}) = Cardinality(Claimants(t, C)) + 1
    BY <2>3, Finite, FS_AddElement
  <2>6. Cardinality(Like(t, R \cup {x})) = Cardinality(Like(t, R)) + 1
    BY <2>1, <2>4
  <2>7. Cardinality(Claimants(t, C \cup {<<i, r>>})) = Cardinality(Claimants(t, C)) + 1
    BY <2>2, <2>5
  <2>. QED
    BY <1>2, <1>5, <2>6, <2>7
<1>4. CASE t # Text(i, r)
  <2>1. Like(t, R \cup {x}) = Like(t, R)
    BY <1>4 DEF Like
  <2>2. Claimants(t, C \cup {<<i, r>>}) = Claimants(t, C)
    BY <1>4 DEF Claimants
  <2>. QED
    BY <1>2, <2>1, <2>2
<1>. QED
  BY <1>3, <1>4

\* A rule goes, and a claim on one like it.
LEMMA CountRemove ==
    ASSUME NEW R, IsFiniteSet(R), NEW C \in SUBSET (Insts \X Kinds),
           NEW u \in [Texts -> Nat], Count(R, C, u),
           NEW i \in Insts, NEW r \in Kinds, <<i, r>> \in C,
           NEW x \in R, x.text = Text(i, r)
    PROVE  Count(R \ {x}, C \ {<<i, r>>}, u)
<1>1. SUFFICES ASSUME NEW t \in Texts
               PROVE  Cardinality(Like(t, R \ {x}))
                        = Cardinality(Claimants(t, C \ {<<i, r>>})) + u[t]
  BY DEF Count
<1>2. Cardinality(Like(t, R)) = Cardinality(Claimants(t, C)) + u[t] /\ u[t] \in Nat
  BY DEF Count
<1>5. Cardinality(Like(t, R)) \in Nat /\ Cardinality(Claimants(t, C)) \in Nat
  BY Finite
<1>3. CASE t = Text(i, r)
  <2>1. Like(t, R \ {x}) = Like(t, R) \ {x} /\ x \in Like(t, R)
    BY <1>3 DEF Like
  <2>2. Claimants(t, C \ {<<i, r>>}) = Claimants(t, C) \ {i}
    BY <1>3, TextsDiffer DEF Claimants
  <2>3. i \in Claimants(t, C)
    BY <1>3 DEF Claimants
  <2>4. Cardinality(Like(t, R) \ {x}) = Cardinality(Like(t, R)) - 1
    BY <2>1, Finite, FS_RemoveElement
  <2>5. Cardinality(Claimants(t, C) \ {i}) = Cardinality(Claimants(t, C)) - 1
    BY <2>3, Finite, FS_RemoveElement
  <2>6. Cardinality(Like(t, R \ {x})) = Cardinality(Like(t, R)) - 1
    BY <2>1, <2>4
  <2>7. Cardinality(Claimants(t, C \ {<<i, r>>})) = Cardinality(Claimants(t, C)) - 1
    BY <2>2, <2>5
  <2>. QED
    BY <1>2, <1>5, <2>6, <2>7
<1>4. CASE t # Text(i, r)
  <2>1. Like(t, R \ {x}) = Like(t, R)
    BY <1>4 DEF Like
  <2>2. Claimants(t, C \ {<<i, r>>}) = Claimants(t, C)
    BY <1>4 DEF Claimants
  <2>. QED
    BY <1>2, <2>1, <2>2
<1>. QED
  BY <1>3, <1>4

\* A claim goes, and the removal is reported as failed.
LEMMA CountLose ==
    ASSUME NEW R, IsFiniteSet(R), NEW C \in SUBSET (Insts \X Kinds),
           NEW u \in [Texts -> Nat], Count(R, C, u),
           NEW i \in Insts, NEW r \in Kinds, <<i, r>> \in C
    PROVE  Count(R, C \ {<<i, r>>}, [u EXCEPT ![Text(i, r)] = @ + 1])
<1>. DEFINE v == [u EXCEPT ![Text(i, r)] = @ + 1]
<1>1. SUFFICES ASSUME NEW t \in Texts
               PROVE  Cardinality(Like(t, R))
                        = Cardinality(Claimants(t, C \ {<<i, r>>})) + v[t]
  BY DEF Count
<1>2. Cardinality(Like(t, R)) = Cardinality(Claimants(t, C)) + u[t] /\ u[t] \in Nat
  BY DEF Count
<1>5. Cardinality(Like(t, R)) \in Nat /\ Cardinality(Claimants(t, C)) \in Nat
  BY Finite
<1>3. CASE t = Text(i, r)
  <2>1. v[t] = u[t] + 1
    BY <1>3
  <2>2. Claimants(t, C \ {<<i, r>>}) = Claimants(t, C) \ {i}
    BY <1>3, TextsDiffer DEF Claimants
  <2>3. i \in Claimants(t, C)
    BY <1>3 DEF Claimants
  <2>4. Cardinality(Claimants(t, C) \ {i}) = Cardinality(Claimants(t, C)) - 1
    BY <2>3, Finite, FS_RemoveElement
  <2>5. Cardinality(Claimants(t, C \ {<<i, r>>})) = Cardinality(Claimants(t, C)) - 1
    BY <2>2, <2>4
  <2>. QED
    BY <1>2, <1>5, <2>1, <2>5
<1>4. CASE t # Text(i, r)
  <2>1. v[t] = u[t]
    BY <1>4
  <2>2. Claimants(t, C \ {<<i, r>>}) = Claimants(t, C)
    BY <1>4 DEF Claimants
  <2>. QED
    BY <1>2, <2>1, <2>2
<1>. QED
  BY <1>3, <1>4

-----------------------------------------------------------------------------
(* The invariant                                                           *)

Steps ==
    {"idle", "check", "table", "insert", "lookup", "delete", "route", "rule del",
     "rule add", "chain", "running", "stop"}

NftTypes ==
    /\ IsFiniteSet(rules) /\ lastHandle \in Nat
    /\ \A x \in rules : x.handle \in 1..lastHandle
    /\ step \in [Insts -> Steps] /\ rule \in [Insts -> Kinds]
    /\ handles \in [Insts -> [Kinds -> 0..lastHandle]]
    /\ found \in [Insts -> 0..lastHandle]
    /\ policy \in [Insts -> SUBSET {"route", "rule"}]
    /\ undeleted \in [Texts -> Nat]

\* A handle names one rule, that of the text it is kept for.
HandlesTell ==
    /\ \A x, y \in rules : x.handle = y.handle => x = y
    /\ \A i \in Insts : \A r \in Kinds : \A x \in rules :
            handles[i][r] = x.handle => x.text = Text(i, r)
    /\ \A i \in Insts : \A x \in rules :
            step[i] = "delete" /\ found[i] = x.handle => x.text = Text(i, rule[i])

Before ==
    [dnat |-> {}, snat |-> {"dnat"}, connmark |-> {"dnat", "snat"},
     routemark |-> {"dnat", "snat", "connmark"}]

LEMMA BeforeIs ==
    /\ Before["dnat"] = {} /\ Before["snat"] = {"dnat"}
    /\ Before["connmark"] = {"dnat", "snat"}
    /\ Before["routemark"] = {"dnat", "snat", "connmark"}
BY DEF Before

LEMMA BeforeSelf == \A r : r \in {"dnat", "snat", "connmark", "routemark"} => r \notin Before[r]
BY BeforeIs

\* What an instance has a handle of tells how far its Start has come.
Stage(i) ==
    /\ step[i] \in {"idle", "check", "table"} => Held(i) = {}
    /\ step[i] \in {"insert", "lookup", "delete"} =>
            rule[i] \in RulesOf(i) /\ Held(i) = RulesOf(i) \cap Before[rule[i]]
    /\ step[i] \in {"route", "rule del", "rule add", "chain"} =>
            /\ i \in Marked /\ rule[i] \in {"dnat", "snat"}
            /\ Held(i) = RulesOf(i) \cap {"dnat", "snat"}
    /\ step[i] = "running" => Held(i) = RulesOf(i)

PolicyStage(i) ==
    /\ step[i] \in {"rule del", "rule add"} => "route" \in policy[i]
    /\ \/ step[i] = "chain"
       \/ step[i] \in {"insert", "lookup", "delete"} /\ rule[i] \in {"connmark", "routemark"}
       \/ step[i] = "running" /\ i \in Marked
       => policy[i] = {"route", "rule"}

NftInv ==
    /\ NftTypes /\ HandlesTell
    /\ \A i \in Insts : Stage(i) /\ PolicyStage(i)
    /\ Count(rules, Claims, undeleted)

LEMMA NftInvInit == NftInit => NftInv
<1>. SUFFICES ASSUME NftInit PROVE NftInv
  OBVIOUS
<1>1. NftTypes /\ HandlesTell
  BY FS_EmptySet DEF NftInit, NftTypes, HandlesTell, Steps, Kinds
<1>2. \A i \in Insts : Held(i) = {} /\ Stage(i) /\ PolicyStage(i)
  BY DEF NftInit, Held, Stage, PolicyStage, Kinds
<1>3. \A t : Like(t, rules) = {}
  BY DEF NftInit, Like
<1>4. Claims = {}
  BY <1>2 DEF NftInit, Claims, Looking
<1>5. \A t : Claimants(t, Claims) = {}
  BY <1>4 DEF Claimants
<1>6. \A t \in Texts : undeleted[t] = 0
  BY DEF NftInit
<1>7. Count(rules, Claims, undeleted)
  BY <1>3, <1>5, <1>6, FS_EmptySet DEF Count
<1>. QED
  BY <1>1, <1>2, <1>7 DEF NftInv

-----------------------------------------------------------------------------
(* Claims from one state to the next                                       *)

\* A step that leaves the handles alone and looks for nothing new.
LEMMA ClaimsKept ==
    ASSUME NftTypes, NEW i \in Insts, NEW s, NEW q,
           GoTo(i, s, q), handles' = handles,
           s \in {"lookup", "delete"} <=> Looking(i),
           Looking(i) => q = rule[i]
    PROVE  Claims' = Claims
<1>1. \A j \in Insts : Held(j)' = Held(j)
  BY DEF Held
<1>2. \A j \in Insts : \A r \in Kinds :
        (Looking(j)' /\ rule'[j] = r) <=> (Looking(j) /\ rule[j] = r)
  BY DEF GoTo, Looking, NftTypes
<1>. QED
  BY <1>1, <1>2 DEF Claims

\* The rule is in, its handle was not echoed.
LEMMA ClaimByLooking ==
    ASSUME NftTypes, NEW i \in Insts, step[i] = "insert",
           GoTo(i, "lookup", rule[i]), handles' = handles
    PROVE  Claims' = Claims \cup {<<i, rule[i]>>}
<1>1. \A j \in Insts : Held(j)' = Held(j)
  BY DEF Held
<1>2. \A j \in Insts : \A r \in Kinds :
        (Looking(j)' /\ rule'[j] = r)
            <=> ((Looking(j) /\ rule[j] = r) \/ (j = i /\ r = rule[i]))
  BY DEF GoTo, Looking, NftTypes
<1>3. rule[i] \in Kinds
  BY DEF NftTypes
<1>. QED
  BY <1>1, <1>2, <1>3 DEF Claims

\* The rule is in, its handle is kept.
LEMMA ClaimByHandle ==
    ASSUME NftTypes, NEW i \in Insts, step[i] = "insert",
           NEW s, NEW q, GoTo(i, s, q), s \notin {"lookup", "delete"},
           NEW h \in Nat \ {0}, handles' = [handles EXCEPT ![i][rule[i]] = h]
    PROVE  Claims' = Claims \cup {<<i, rule[i]>>}
<1>1. \A j \in Insts : \A r \in Kinds :
        r \in Held(j)' <=> (r \in Held(j) \/ (j = i /\ r = rule[i]))
  BY DEF Held, NftTypes
<1>2. \A j \in Insts : \A r \in Kinds :
        (Looking(j)' /\ rule'[j] = r) <=> (Looking(j) /\ rule[j] = r)
  BY DEF GoTo, Looking, NftTypes
<1>3. rule[i] \in Kinds
  BY DEF NftTypes
<1>. QED
  BY <1>1, <1>2, <1>3 DEF Claims

\* The search for a rule is over.
LEMMA ClaimDropped ==
    ASSUME NftTypes, NEW i \in Insts, Looking(i), rule[i] \notin Held(i),
           GoTo(i, "stop", rule[i]), handles' = handles
    PROVE  Claims' = Claims \ {<<i, rule[i]>>} /\ <<i, rule[i]>> \in Claims
<1>1. \A j \in Insts : Held(j)' = Held(j)
  BY DEF Held
<1>2. \A j \in Insts : \A r \in Kinds :
        (Looking(j)' /\ rule'[j] = r) <=> (Looking(j) /\ rule[j] = r /\ j # i)
  BY DEF GoTo, Looking, NftTypes
<1>3. rule[i] \in Kinds
  BY DEF NftTypes
<1>. QED
  BY <1>1, <1>2, <1>3 DEF Claims

\* A handle is forgotten.
LEMMA ClaimForgotten ==
    ASSUME NftTypes, NEW i \in Insts, step[i] = "stop", NEW r \in Held(i),
           step' = step, rule' = rule, handles' = [handles EXCEPT ![i][r] = 0]
    PROVE  Claims' = Claims \ {<<i, r>>} /\ <<i, r>> \in Claims
<1>1. r \in Kinds
  BY DEF Held
<1>2. \A j \in Insts : \A q \in Kinds :
        q \in Held(j)' <=> (q \in Held(j) /\ ~(j = i /\ q = r))
  BY <1>1 DEF Held, NftTypes
<1>3. \A j \in Insts : Looking(j)' <=> Looking(j)
  BY DEF Looking
<1>4. ~Looking(i)
  BY DEF Looking
<1>. QED
  BY <1>1, <1>2, <1>3, <1>4 DEF Claims

-----------------------------------------------------------------------------
(* Steps                                                                   *)

Step(i) ==
    \/ StartRules(i) \/ StartSteps(i)
    \/ StopRules(i) \/ DeleteHeld(i) \/ Stopped(i)

LEMMA FirstIsHeld ==
    ASSUME NEW i \in Insts, Held(i) # {}
    PROVE  FirstHeld(i) \in Held(i)
<1>1. Held(i) \subseteq {"dnat", "snat", "connmark", "routemark"}
  BY DEF Held, Kinds
<1>2. \E r \in Held(i) :
        \/ r = "dnat"
        \/ r = "snat" /\ "dnat" \notin Held(i)
        \/ r = "connmark" /\ {"dnat", "snat"} \cap Held(i) = {}
        \/ Held(i) = {"routemark"}
  BY <1>1
<1>. QED
  BY <1>2 DEF FirstHeld

LEMMA ProceedGoes ==
    ASSUME NEW i \in Insts, NEW r, Proceed(i, r)
    PROVE  \/ r = "dnat" /\ i \in Snat /\ GoTo(i, "insert", "snat")
           \/ /\ r = "snat" \/ (r = "dnat" /\ i \notin Snat)
              /\ i \in Marked /\ GoTo(i, "route", r)
           \/ r = "connmark" /\ GoTo(i, "insert", "routemark")
           \/ /\ r \notin {"dnat", "snat", "connmark"}
                    \/ (r = "snat" /\ i \notin Marked)
                    \/ (r = "dnat" /\ i \notin Snat /\ i \notin Marked)
              /\ GoTo(i, "running", r)
BY DEF Proceed

\* Where an instance goes is a step, and with which rule.
LEMMA GoToTypes ==
    ASSUME NftTypes, NEW i \in Insts, NEW s \in Steps, NEW r \in Kinds, GoTo(i, s, r)
    PROVE  step' \in [Insts -> Steps] /\ rule' \in [Insts -> Kinds]
BY DEF NftTypes, GoTo

LEMMA LosesTypes ==
    ASSUME undeleted \in [Texts -> Nat], NEW i, NEW r, Loses(i, r)
    PROVE  undeleted' \in [Texts -> Nat]
<1>1. \A t \in Texts : undeleted[t] + 1 \in Nat
  OBVIOUS
<1>. QED
  BY <1>1 DEF Loses

LEMMA DeleteTypes ==
    ASSUME NftTypes, NEW h, Delete(h), lastHandle' = lastHandle
    PROVE  IsFiniteSet(rules') /\ \A x \in rules' : x.handle \in 1..lastHandle'
<1>1. rules' \subseteq rules
  BY DEF Delete
<1>. QED
  BY <1>1, FS_Subset DEF NftTypes

LEMMA InsertTypes ==
    ASSUME NftTypes, NEW i \in Insts, Insert(i)
    PROVE  /\ IsFiniteSet(rules') /\ \A x \in rules' : x.handle \in 1..lastHandle'
           /\ lastHandle' = lastHandle + 1 /\ lastHandle' \in Nat \ {0}
           /\ found \in [Insts -> 0..lastHandle']
           /\ handles \in [Insts -> [Kinds -> 0..lastHandle']]
<1>1. lastHandle \in Nat /\ lastHandle' = lastHandle + 1
  BY DEF NftTypes, Insert
<1>2. IsFiniteSet(rules')
  BY FS_AddElement DEF NftTypes, Insert
<1>3. 1..lastHandle \subseteq 1..lastHandle' /\ 0..lastHandle \subseteq 0..lastHandle'
  BY <1>1
<1>4. \A x \in rules' : x.handle \in 1..lastHandle'
  BY <1>1, <1>3 DEF NftTypes, Insert
<1>5. found \in [Insts -> 0..lastHandle']
  BY <1>3 DEF NftTypes
<1>6. handles \in [Insts -> [Kinds -> 0..lastHandle']]
  BY <1>3 DEF NftTypes
<1>. QED
  BY <1>1, <1>2, <1>4, <1>5, <1>6

LEMMA StepGoes ==
    ASSUME NftTypes, NEW i \in Insts, Step(i)
    PROVE  step' \in [Insts -> Steps] /\ rule' \in [Insts -> Kinds]
<1>. USE DEF Steps, Kinds
<1>1. rule[i] \in Kinds
  BY DEF NftTypes
<1>2. CASE Check(i)
  BY <1>2, GoToTypes, <1>1 DEF Check
<1>3. CASE EnsureTable(i)
  BY <1>3, GoToTypes, <1>1 DEF EnsureTable
<1>4. CASE InsertEchoes(i)
  BY <1>4, GoToTypes, <1>1, ProceedGoes DEF InsertEchoes
<1>5. CASE InsertIsMute(i)
  BY <1>5, GoToTypes, <1>1 DEF InsertIsMute
<1>6. CASE InsertFails(i)
  BY <1>6, GoToTypes, <1>1 DEF InsertFails
<1>7. CASE Lookup(i)
  BY <1>7, GoToTypes, <1>1 DEF Lookup
<1>8. CASE LookupFails(i)
  BY <1>8, GoToTypes, <1>1 DEF LookupFails
<1>9. CASE DeleteFound(i)
  BY <1>9, GoToTypes, <1>1 DEF DeleteFound
<1>10. CASE EnsureRoutePolicy(i)
  BY <1>10, GoToTypes, <1>1 DEF EnsureRoutePolicy
<1>11. CASE DeletePolicyRule(i)
  BY <1>11, GoToTypes, <1>1 DEF DeletePolicyRule
<1>12. CASE EnsureMarkChain(i)
  BY <1>12, GoToTypes, <1>1 DEF EnsureMarkChain
<1>13. CASE StartRules(i)
  BY <1>13, GoToTypes, <1>1 DEF StartRules
<1>14. CASE StopRules(i)
  BY <1>14, GoToTypes, <1>1 DEF StopRules
<1>15. CASE DeleteHeld(i)
  BY <1>15 DEF DeleteHeld, NftTypes
<1>16. CASE Stopped(i)
  BY <1>16, GoToTypes, <1>1 DEF Stopped
<1>. QED
  BY <1>2, <1>3, <1>4, <1>5, <1>6, <1>7, <1>8, <1>9, <1>10, <1>11, <1>12, <1>13, <1>14, <1>15, <1>16 DEF Step, StartSteps

LEMMA TypesNext ==
    ASSUME NftTypes, NEW i \in Insts, Step(i)
    PROVE  NftTypes'
<1>1. step' \in [Insts -> Steps] /\ rule' \in [Insts -> Kinds]
  BY StepGoes
<1>2. rule[i] \in Kinds
  BY DEF NftTypes
<1>3. CASE Check(i)
  BY <1>1, <1>3 DEF Check, NftTypes
<1>4. CASE EnsureTable(i)
  BY <1>1, <1>4 DEF EnsureTable, NftTypes
<1>5. CASE InsertEchoes(i)
  <2>1. Insert(i) /\ handles' = [handles EXCEPT ![i][rule[i]] = lastHandle']
    BY <1>5 DEF InsertEchoes
  <2>2. lastHandle' \in 0..lastHandle'
    BY <2>1, InsertTypes
  <2>3. handles' \in [Insts -> [Kinds -> 0..lastHandle']]
    BY <1>2, <2>1, <2>2, InsertTypes
  <2>. QED
    BY <1>1, <1>5, <2>1, <2>3, InsertTypes DEF InsertEchoes, NftTypes
<1>6. CASE InsertIsMute(i)
  BY <1>1, <1>6, InsertTypes DEF InsertIsMute, NftTypes
<1>7. CASE InsertFails(i)
  BY <1>1, <1>7 DEF InsertFails, NftTypes
<1>8. CASE Lookup(i)
  BY <1>1, <1>8 DEF Lookup, Alike, NftTypes
<1>9. CASE LookupFails(i)
  BY <1>1, <1>9, LosesTypes DEF LookupFails, NftTypes
<1>10. CASE DeleteFound(i)
  <2>1. found' \in [Insts -> 0..lastHandle']
    BY <1>10 DEF DeleteFound, NftTypes
  <2>2. IsFiniteSet(rules') /\ \A x \in rules' : x.handle \in 1..lastHandle'
    BY <1>10, DeleteTypes DEF DeleteFound, NftTypes
  <2>. QED
    BY <1>1, <1>10, <2>1, <2>2, LosesTypes DEF DeleteFound, NftTypes
<1>11. CASE EnsureRoutePolicy(i)
  <2>1. \A w \in {"route", "rule"} :
          [policy EXCEPT ![i] = @ \cup {w}] \in [Insts -> SUBSET {"route", "rule"}]
    BY DEF NftTypes
  <2>2. policy' \in [Insts -> SUBSET {"route", "rule"}]
    BY <1>11, <2>1 DEF EnsureRoutePolicy, NftTypes
  <2>. QED
    BY <1>1, <1>11, <2>2 DEF EnsureRoutePolicy, NftTypes
<1>12. CASE DeletePolicyRule(i)
  BY <1>1, <1>12 DEF DeletePolicyRule, NftTypes
<1>13. CASE EnsureMarkChain(i)
  BY <1>1, <1>13 DEF EnsureMarkChain, NftTypes
<1>14. CASE StartRules(i)
  BY <1>1, <1>14 DEF StartRules, NftTypes
<1>15. CASE StopRules(i)
  BY <1>1, <1>15 DEF StopRules, NftTypes
<1>16. CASE DeleteHeld(i)
  <2>1. handles' \in [Insts -> [Kinds -> 0..lastHandle']]
    <3>1. PICK r : handles' = [handles EXCEPT ![i][r] = 0] /\ lastHandle' = lastHandle
      BY <1>16 DEF DeleteHeld
    <3>2. 0 \in 0..lastHandle
      BY DEF NftTypes
    <3>. QED
      BY <3>1, <3>2 DEF NftTypes
  <2>2. IsFiniteSet(rules') /\ \A x \in rules' : x.handle \in 1..lastHandle'
    BY <1>16, DeleteTypes DEF DeleteHeld, NftTypes
  <2>. QED
    BY <1>1, <1>16, <2>1, <2>2, LosesTypes DEF DeleteHeld, NftTypes
<1>17. CASE Stopped(i)
  BY <1>1, <1>17 DEF Stopped, NftTypes
<1>. QED
  BY <1>3, <1>4, <1>5, <1>6, <1>7, <1>8, <1>9, <1>10, <1>11, <1>12, <1>13, <1>14, <1>15, <1>16, <1>17 DEF Step, StartSteps

\* A step of an instance leaves the others where they are.
LEMMA StepIsLocal ==
    ASSUME NftTypes, NEW i \in Insts, Step(i), NEW j \in Insts, j # i
    PROVE  /\ step'[j] = step[j] /\ rule'[j] = rule[j]
           /\ handles'[j] = handles[j] /\ policy'[j] = policy[j]
<1>. USE DEF NftTypes, GoTo
<1>1. CASE Check(i)
  BY <1>1 DEF Check
<1>2. CASE EnsureTable(i)
  BY <1>2 DEF EnsureTable
<1>3. CASE InsertEchoes(i)
  BY <1>3, ProceedGoes DEF InsertEchoes
<1>4. CASE InsertIsMute(i)
  BY <1>4 DEF InsertIsMute
<1>5. CASE InsertFails(i)
  BY <1>5 DEF InsertFails
<1>6. CASE Lookup(i)
  BY <1>6 DEF Lookup
<1>7. CASE LookupFails(i)
  BY <1>7 DEF LookupFails
<1>8. CASE DeleteFound(i)
  BY <1>8 DEF DeleteFound
<1>9. CASE EnsureRoutePolicy(i)
  BY <1>9 DEF EnsureRoutePolicy
<1>10. CASE DeletePolicyRule(i)
  BY <1>10 DEF DeletePolicyRule
<1>11. CASE EnsureMarkChain(i)
  BY <1>11 DEF EnsureMarkChain
<1>12. CASE StartRules(i)
  BY <1>12 DEF StartRules
<1>13. CASE StopRules(i)
  BY <1>13 DEF StopRules
<1>14. CASE DeleteHeld(i)
  BY <1>14 DEF DeleteHeld
<1>15. CASE Stopped(i)
  BY <1>15 DEF Stopped
<1>. QED
  BY <1>1, <1>2, <1>3, <1>4, <1>5, <1>6, <1>7, <1>8, <1>9, <1>10, <1>11, <1>12, <1>13, <1>14, <1>15 DEF Step, StartSteps

\* No rule comes in, no handle and no search begins.
LEMMA HandlesKept ==
    ASSUME NftTypes, HandlesTell, rules' \subseteq rules,
           \A j \in Insts : \A r \in Kinds : handles'[j][r] \in {handles[j][r], 0},
           \A j \in Insts : step'[j] = "delete" =>
                step[j] = "delete" /\ rule'[j] = rule[j] /\ found'[j] = found[j]
    PROVE  HandlesTell'
<1>1. \A x \in rules : x.handle # 0
  BY DEF NftTypes
<1>2. \A x, y \in rules' : x.handle = y.handle => x = y
  BY DEF HandlesTell
<1>3. ASSUME NEW j \in Insts, NEW r \in Kinds, NEW x \in rules', handles'[j][r] = x.handle
      PROVE  x.text = Text(j, r)
  BY <1>1, <1>3 DEF HandlesTell
<1>4. ASSUME NEW j \in Insts, NEW x \in rules', step'[j] = "delete", found'[j] = x.handle
      PROVE  x.text = Text(j, rule'[j])
  BY <1>4 DEF HandlesTell
<1>. QED
  BY <1>2, <1>3, <1>4 DEF HandlesTell, Text

\* A rule comes in, with a handle nobody has seen.
LEMMA HandlesGrow ==
    ASSUME NftTypes, HandlesTell, NEW i \in Insts, Insert(i),
           \/ handles' = handles
           \/ handles' = [handles EXCEPT ![i][rule[i]] = lastHandle'],
           found' = found,
           \A j \in Insts : step'[j] = "delete" => step[j] = "delete" /\ rule'[j] = rule[j]
    PROVE  HandlesTell'
<1>. DEFINE new == [text |-> Text(i, rule[i]), handle |-> lastHandle + 1]
<1>1. rules' = rules \cup {new} /\ lastHandle' = lastHandle + 1
  BY DEF Insert
<1>2. \A x \in rules : x.handle # new.handle
  BY DEF NftTypes
<1>3. \A j \in Insts : found[j] # new.handle
  BY DEF NftTypes
<1>4. \A j \in Insts : \A r \in Kinds : handles[j][r] # new.handle
  BY DEF NftTypes
<1>5. new.text = Text(i, rule[i]) /\ new.handle = lastHandle'
  BY <1>1
<1>. HIDE DEF new
<1>6. \A x, y \in rules' : x.handle = y.handle => x = y
  BY <1>1, <1>2 DEF HandlesTell
<1>7. ASSUME NEW j \in Insts, NEW r \in Kinds, NEW x \in rules', handles'[j][r] = x.handle
      PROVE  x.text = Text(j, r)
  <2>1. CASE handles'[j][r] = handles[j][r]
    <3>1. x.handle # new.handle
      BY <1>4, <1>7, <2>1
    <3>2. x \in rules
      BY <1>1, <3>1
    <3>3. handles[j][r] = x.handle
      BY <1>7, <2>1
    <3>. QED
      BY <3>2, <3>3 DEF HandlesTell
  <2>2. CASE j = i /\ r = rule[i] /\ handles'[j][r] = lastHandle'
    BY <1>1, <1>2, <1>5, <1>7, <2>2
  <2>. QED
    BY <2>1, <2>2 DEF NftTypes
<1>8. ASSUME NEW j \in Insts, NEW x \in rules', step'[j] = "delete", found'[j] = x.handle
      PROVE  x.text = Text(j, rule'[j])
  BY <1>1, <1>3, <1>8 DEF HandlesTell
<1>. QED
  BY <1>6, <1>7, <1>8 DEF HandlesTell, Text

LEMMA HandlesNext ==
    ASSUME NftInv, NEW i \in Insts, Step(i)
    PROVE  HandlesTell'
<1>1. NftTypes /\ HandlesTell
  BY DEF NftInv
<1>2. \A j \in Insts : step'[j] = "delete" /\ step[j] # "delete" => j = i
  BY <1>1, StepIsLocal
<1>3. CASE Check(i)
  <2>1. rules' = rules /\ handles' = handles /\ found' = found
    BY <1>3 DEF Check
  <2>2. step'[i] # "delete"
    BY <1>1, <1>3 DEF Check, GoTo, NftTypes
  <2>. QED
    BY <1>1, <2>1, <2>2, StepIsLocal, HandlesKept
<1>4. CASE EnsureTable(i)
  <2>1. rules' = rules /\ handles' = handles /\ found' = found
    BY <1>4 DEF EnsureTable
  <2>2. step'[i] # "delete"
    BY <1>1, <1>4 DEF EnsureTable, GoTo, NftTypes
  <2>. QED
    BY <1>1, <2>1, <2>2, StepIsLocal, HandlesKept
<1>5. CASE InsertEchoes(i)
  <2>1. step'[i] # "delete"
    BY <1>1, <1>5, ProceedGoes DEF InsertEchoes, GoTo, NftTypes
  <2>2. \A j \in Insts : step'[j] = "delete" => step[j] = "delete" /\ rule'[j] = rule[j]
    BY <1>1, <2>1, StepIsLocal
  <2>. QED
    BY <1>1, <1>5, <2>2, HandlesGrow DEF InsertEchoes
<1>6. CASE InsertIsMute(i)
  <2>1. step'[i] # "delete"
    BY <1>1, <1>6 DEF InsertIsMute, GoTo, NftTypes
  <2>2. \A j \in Insts : step'[j] = "delete" => step[j] = "delete" /\ rule'[j] = rule[j]
    BY <1>1, <2>1, StepIsLocal
  <2>. QED
    BY <1>1, <1>6, <2>2, HandlesGrow DEF InsertIsMute
<1>7. CASE InsertFails(i)
  <2>1. rules' = rules /\ handles' = handles /\ found' = found
    BY <1>7 DEF InsertFails
  <2>2. step'[i] # "delete"
    BY <1>1, <1>7 DEF InsertFails, GoTo, NftTypes
  <2>. QED
    BY <1>1, <2>1, <2>2, StepIsLocal, HandlesKept
<1>8. CASE Lookup(i)
  <2>1. rules' = rules /\ handles' = handles
    BY <1>8 DEF Lookup
  <2>2. PICK x \in rules : x.text = Text(i, rule[i]) /\ found' = [found EXCEPT ![i] = x.handle]
    BY <1>8 DEF Lookup, Alike
  <2>3. rule'[i] = rule[i] /\ found'[i] = x.handle
    BY <1>1, <1>8, <2>2 DEF Lookup, GoTo, NftTypes
  <2>4. \A j \in Insts : j # i =>
            step'[j] = step[j] /\ rule'[j] = rule[j] /\ found'[j] = found[j]
    BY <1>1, <2>2, StepIsLocal DEF NftTypes
  <2>5. ASSUME NEW j \in Insts, NEW y \in rules, step'[j] = "delete", found'[j] = y.handle
        PROVE  y.text = Text(j, rule'[j])
    BY <1>1, <2>2, <2>3, <2>4, <2>5 DEF HandlesTell
  <2>. QED
    BY <1>1, <2>1, <2>5 DEF HandlesTell, Text
<1>9. CASE LookupFails(i)
  <2>1. rules' = rules /\ handles' = handles /\ found' = found
    BY <1>9 DEF LookupFails
  <2>2. step'[i] # "delete"
    BY <1>1, <1>9 DEF LookupFails, GoTo, NftTypes
  <2>. QED
    BY <1>1, <2>1, <2>2, StepIsLocal, HandlesKept
<1>10. CASE DeleteFound(i)
  <2>1. rules' \subseteq rules
    BY <1>10 DEF DeleteFound, Delete
  <2>2. \A j \in Insts : \A r \in Kinds : handles'[j][r] \in {handles[j][r], 0}
    BY <1>1, <1>10 DEF DeleteFound, NftTypes
  <2>3. step'[i] # "delete"
    BY <1>1, <1>10 DEF DeleteFound, GoTo, NftTypes
  <2>4. \A j \in Insts : j # i => found'[j] = found[j]
    BY <1>1, <1>10 DEF DeleteFound, NftTypes
  <2>5. \A j \in Insts : step'[j] = "delete" =>
            step[j] = "delete" /\ rule'[j] = rule[j] /\ found'[j] = found[j]
    BY <1>1, <2>3, <2>4, StepIsLocal
  <2>. QED
    BY <1>1, <2>1, <2>2, <2>5, HandlesKept
<1>11. CASE EnsureRoutePolicy(i)
  <2>1. rules' = rules /\ handles' = handles /\ found' = found
    BY <1>11 DEF EnsureRoutePolicy
  <2>2. step'[i] # "delete"
    BY <1>1, <1>11 DEF EnsureRoutePolicy, GoTo, NftTypes
  <2>. QED
    BY <1>1, <2>1, <2>2, StepIsLocal, HandlesKept
<1>12. CASE DeletePolicyRule(i)
  <2>1. rules' = rules /\ handles' = handles /\ found' = found
    BY <1>12 DEF DeletePolicyRule
  <2>2. step'[i] # "delete"
    BY <1>1, <1>12 DEF DeletePolicyRule, GoTo, NftTypes
  <2>. QED
    BY <1>1, <2>1, <2>2, StepIsLocal, HandlesKept
<1>13. CASE EnsureMarkChain(i)
  <2>1. rules' = rules /\ handles' = handles /\ found' = found
    BY <1>13 DEF EnsureMarkChain
  <2>2. step'[i] # "delete"
    BY <1>1, <1>13 DEF EnsureMarkChain, GoTo, NftTypes
  <2>. QED
    BY <1>1, <2>1, <2>2, StepIsLocal, HandlesKept
<1>14. CASE StartRules(i)
  <2>1. rules' = rules /\ handles' = handles /\ found' = found
    BY <1>14 DEF StartRules
  <2>2. step'[i] # "delete"
    BY <1>1, <1>14 DEF StartRules, GoTo, NftTypes
  <2>. QED
    BY <1>1, <2>1, <2>2, StepIsLocal, HandlesKept
<1>15. CASE StopRules(i)
  <2>1. rules' = rules /\ handles' = handles /\ found' = found
    BY <1>15 DEF StopRules
  <2>2. step'[i] # "delete"
    BY <1>1, <1>15 DEF StopRules, GoTo, NftTypes
  <2>. QED
    BY <1>1, <2>1, <2>2, StepIsLocal, HandlesKept
<1>16. CASE DeleteHeld(i)
  <2>1. rules' \subseteq rules
    BY <1>16 DEF DeleteHeld, Delete
  <2>2. \A j \in Insts : \A r \in Kinds : handles'[j][r] \in {handles[j][r], 0}
    BY <1>1, <1>16 DEF DeleteHeld, NftTypes
  <2>3. step'[i] # "delete"
    BY <1>1, <1>16 DEF DeleteHeld, GoTo, NftTypes
  <2>4. \A j \in Insts : j # i => found'[j] = found[j]
    BY <1>1, <1>16 DEF DeleteHeld, NftTypes
  <2>5. \A j \in Insts : step'[j] = "delete" =>
            step[j] = "delete" /\ rule'[j] = rule[j] /\ found'[j] = found[j]
    BY <1>1, <2>3, <2>4, StepIsLocal
  <2>. QED
    BY <1>1, <2>1, <2>2, <2>5, HandlesKept
<1>17. CASE Stopped(i)
  <2>1. rules' = rules /\ handles' = handles /\ found' = found
    BY <1>17 DEF Stopped
  <2>2. step'[i] # "delete"
    BY <1>1, <1>17 DEF Stopped, GoTo, NftTypes
  <2>. QED
    BY <1>1, <2>1, <2>2, StepIsLocal, HandlesKept
<1>. QED
  BY <1>3, <1>4, <1>5, <1>6, <1>7, <1>8, <1>9, <1>10, <1>11, <1>12, <1>13, <1>14, <1>15, <1>16, <1>17 DEF Step, StartSteps

LEMMA StageNext ==
    ASSUME NftInv, NEW i \in Insts, Step(i)
    PROVE  Stage(i)' /\ PolicyStage(i)'
<1>1. NftTypes /\ Stage(i) /\ PolicyStage(i)
  BY DEF NftInv
<1>2. CASE Check(i)
  BY <1>1, <1>2 DEF Check, Stage, PolicyStage, NftTypes, GoTo, Held, RulesOf, Before, Kinds
<1>3. CASE EnsureTable(i)
  <2>1. Held(i) = {} /\ handles' = handles /\ policy' = policy
    BY <1>1, <1>3 DEF EnsureTable, Stage
  <2>2. Held(i)' = {}
    BY <2>1 DEF Held
  <2>3. step'[i] \in {"insert", "idle"} /\ rule'[i] = "dnat"
    BY <1>1, <1>3 DEF EnsureTable, GoTo, NftTypes
  <2>. QED
    BY <2>2, <2>3, BeforeIs DEF Stage, PolicyStage, RulesOf
<1>4. CASE InsertEchoes(i)
  <2>1. rule[i] \in RulesOf(i) /\ Held(i) = RulesOf(i) \cap Before[rule[i]]
    BY <1>1, <1>4 DEF InsertEchoes, Insert, Stage
  <2>2. Held(i)' = Held(i) \cup {rule[i]}
    <3>1. \A r \in Kinds : r \in Held(i)' <=> (r \in Held(i) \/ r = rule[i])
      BY <1>1, <1>4 DEF InsertEchoes, Insert, Held, NftTypes
    <3>. QED
      BY <1>1, <3>1 DEF Held, NftTypes
  <2>3. Proceed(i, rule[i]) /\ policy' = policy
    BY <1>4 DEF InsertEchoes
  <2>4. rule[i] \in {"connmark", "routemark"} => policy[i] = {"route", "rule"}
    BY <1>1, <1>4 DEF InsertEchoes, Insert, PolicyStage
  <2>5. CASE rule[i] = "dnat" /\ i \in Snat
    <3>1. step'[i] = "insert" /\ rule'[i] = "snat"
      BY <1>1, <2>3, <2>5 DEF Proceed, GoTo, NftTypes
    <3>. QED
      BY <2>1, <2>2, <2>3, <2>5, <3>1, BeforeIs DEF Stage, PolicyStage, RulesOf
  <2>6. CASE rule[i] \in {"dnat", "snat"} /\ ~(rule[i] = "dnat" /\ i \in Snat) /\ i \in Marked
    <3>1. step'[i] = "route" /\ rule'[i] = rule[i]
      BY <1>1, <2>3, <2>6 DEF Proceed, GoTo, NftTypes
    <3>. QED
      BY <2>1, <2>2, <2>3, <2>6, <3>1, BeforeIs DEF Stage, PolicyStage, RulesOf
  <2>7. CASE rule[i] = "connmark"
    <3>1. step'[i] = "insert" /\ rule'[i] = "routemark"
      BY <1>1, <2>3, <2>7 DEF Proceed, GoTo, NftTypes
    <3>. QED
      BY <2>1, <2>2, <2>3, <2>4, <2>7, <3>1, BeforeIs DEF Stage, PolicyStage, RulesOf
  <2>8. CASE \/ rule[i] = "routemark"
             \/ /\ rule[i] \in {"dnat", "snat"} /\ ~(rule[i] = "dnat" /\ i \in Snat)
                /\ i \notin Marked
    <3>1. step'[i] = "running"
      BY <1>1, <2>3, <2>8 DEF Proceed, GoTo, NftTypes
    <3>2. Held(i)' = RulesOf(i)
      BY <2>1, <2>2, <2>8, BeforeIs DEF RulesOf
    <3>3. i \in Marked => policy[i] = {"route", "rule"}
      BY <2>1, <2>4, <2>8 DEF RulesOf
    <3>. QED
      BY <2>3, <3>1, <3>2, <3>3 DEF Stage, PolicyStage
  <2>9. rule[i] \in {"dnat", "snat", "connmark", "routemark"}
    BY <1>1 DEF NftTypes, Kinds
  <2>10. \/ rule[i] = "dnat" /\ i \in Snat
         \/ /\ rule[i] \in {"dnat", "snat"} /\ ~(rule[i] = "dnat" /\ i \in Snat)
            /\ i \in Marked
         \/ rule[i] = "connmark"
         \/ rule[i] = "routemark"
         \/ /\ rule[i] \in {"dnat", "snat"} /\ ~(rule[i] = "dnat" /\ i \in Snat)
            /\ i \notin Marked
    BY <2>9
  <2>. QED
    BY <2>5, <2>6, <2>7, <2>8, <2>10
<1>5. CASE InsertIsMute(i)
  BY <1>1, <1>5 DEF InsertIsMute, Insert, Stage, PolicyStage, NftTypes, GoTo, Held, RulesOf, Before, Kinds
<1>6. CASE InsertFails(i)
  BY <1>1, <1>6 DEF InsertFails, Stage, PolicyStage, NftTypes, GoTo, Held, RulesOf, Before, Kinds
<1>7. CASE Lookup(i)
  BY <1>1, <1>7 DEF Lookup, Stage, PolicyStage, NftTypes, GoTo, Held, RulesOf, Before, Kinds
<1>8. CASE LookupFails(i)
  BY <1>1, <1>8 DEF LookupFails, Stage, PolicyStage, NftTypes, GoTo, Held, RulesOf, Before, Kinds
<1>9. CASE DeleteFound(i)
  BY <1>1, <1>9 DEF DeleteFound, Stage, PolicyStage, NftTypes, GoTo, Held, RulesOf, Before, Kinds
<1>10. CASE EnsureRoutePolicy(i)
  <2>1. /\ i \in Marked /\ rule[i] \in {"dnat", "snat"}
        /\ Held(i) = RulesOf(i) \cap {"dnat", "snat"}
    BY <1>1, <1>10 DEF EnsureRoutePolicy, Stage
  <2>2. Held(i)' = Held(i)
    BY <1>10 DEF EnsureRoutePolicy, Held
  <2>3. CASE step[i] = "route"
    <3>1. \/ step'[i] = "stop"
          \/ step'[i] = "rule del" /\ rule'[i] = rule[i] /\ "route" \in policy'[i]
      <4>1. \/ GoTo(i, "stop", rule[i])
            \/ policy' = [policy EXCEPT ![i] = @ \cup {"route"}] /\ GoTo(i, "rule del", rule[i])
        BY <1>10, <2>3 DEF EnsureRoutePolicy
      <4>2. CASE GoTo(i, "stop", rule[i])
        BY <1>1, <4>2 DEF GoTo, NftTypes
      <4>3. CASE policy' = [policy EXCEPT ![i] = @ \cup {"route"}] /\ GoTo(i, "rule del", rule[i])
        BY <1>1, <4>3 DEF GoTo, NftTypes
      <4>. QED
        BY <4>1, <4>2, <4>3
    <3>2. CASE step'[i] = "stop"
      <4>1. Stage(i)'
        BY <3>2 DEF Stage
      <4>2. PolicyStage(i)'
        BY <3>2 DEF PolicyStage
      <4>. QED
        BY <4>1, <4>2
    <3>3. CASE step'[i] = "rule del" /\ rule'[i] = rule[i] /\ "route" \in policy'[i]
      <4>1. Held(i)' = RulesOf(i) \cap {"dnat", "snat"}
        BY <2>1, <2>2
      <4>2. RulesOf(i)' = RulesOf(i)
        BY DEF RulesOf
      <4>. QED
        BY <2>1, <3>3, <4>1, <4>2 DEF Stage, PolicyStage
    <3>. QED
      BY <3>1, <3>2, <3>3
  <2>4. CASE step[i] = "rule add"
    <3>1. policy[i] \in SUBSET {"route", "rule"} /\ "route" \in policy[i]
      BY <1>1, <2>4 DEF PolicyStage, NftTypes
    <3>2. \/ step'[i] = "stop"
          \/ /\ step'[i] = "chain" /\ rule'[i] = rule[i]
             /\ policy'[i] = policy[i] \cup {"rule"}
      BY <1>1, <1>10, <2>4 DEF EnsureRoutePolicy, GoTo, NftTypes
    <3>. QED
      BY <2>1, <2>2, <3>1, <3>2 DEF Stage, PolicyStage
  <2>. QED
    BY <1>10, <2>3, <2>4 DEF EnsureRoutePolicy
<1>11. CASE DeletePolicyRule(i)
  BY <1>1, <1>11 DEF DeletePolicyRule, Stage, PolicyStage, NftTypes, GoTo, Held, RulesOf, Before, Kinds
<1>12. CASE EnsureMarkChain(i)
  <2>1. /\ i \in Marked /\ rule[i] \in {"dnat", "snat"} /\ policy[i] = {"route", "rule"}
        /\ Held(i) = RulesOf(i) \cap {"dnat", "snat"}
    BY <1>1, <1>12 DEF EnsureMarkChain, Stage, PolicyStage
  <2>2. Held(i)' = Held(i) /\ policy' = policy
    BY <1>12 DEF EnsureMarkChain, Held
  <2>3. step'[i] = "stop" \/ (step'[i] = "insert" /\ rule'[i] = "connmark")
    BY <1>1, <1>12 DEF EnsureMarkChain, GoTo, NftTypes
  <2>. QED
    BY <2>1, <2>2, <2>3, BeforeIs DEF Stage, PolicyStage, RulesOf
<1>13. CASE StartRules(i)
  BY <1>1, <1>13 DEF StartRules, Stage, PolicyStage, NftTypes, GoTo, Held, RulesOf, Before, Kinds
<1>14. CASE StopRules(i)
  BY <1>1, <1>14 DEF StopRules, Stage, PolicyStage, NftTypes, GoTo, Held, RulesOf, Before, Kinds
<1>15. CASE DeleteHeld(i)
  BY <1>1, <1>15 DEF DeleteHeld, Stage, PolicyStage, NftTypes, GoTo, Held, RulesOf, Before, Kinds
<1>16. CASE Stopped(i)
  BY <1>1, <1>16 DEF Stopped, Stage, PolicyStage, NftTypes, GoTo, Held, RulesOf, Before, Kinds
<1>. QED
  BY <1>2, <1>3, <1>4, <1>5, <1>6, <1>7, <1>8, <1>9, <1>10, <1>11, <1>12, <1>13, <1>14, <1>15, <1>16 DEF Step, StartSteps

LEMMA CountNext ==
    ASSUME NftInv, NEW i \in Insts, Step(i)
    PROVE  Count(rules, Claims, undeleted)'
<1>1. NftTypes /\ HandlesTell /\ Stage(i) /\ Count(rules, Claims, undeleted)
  BY DEF NftInv
<1>2. /\ IsFiniteSet(rules) /\ undeleted \in [Texts -> Nat] /\ rule[i] \in Kinds
      /\ Claims \in SUBSET (Insts \X Kinds)
  BY <1>1 DEF NftTypes, Claims
<1>3. step[i] \in {"insert", "lookup", "delete"} => rule[i] \notin Held(i)
  <2>1. rule[i] \notin Before[rule[i]]
    BY <1>2, BeforeSelf DEF Kinds
  <2>2. step[i] \in {"insert", "lookup", "delete"} =>
            Held(i) = RulesOf(i) \cap Before[rule[i]]
    BY <1>1 DEF Stage
  <2>. QED
    BY <2>1, <2>2
<1>4. step[i] = "insert" => <<i, rule[i]>> \notin Claims
  BY <1>3 DEF Claims, Looking
<1>5. CASE Check(i)
  <2>1. Claims' = Claims /\ rules' = rules /\ undeleted' = undeleted
    BY <1>1, <1>5, ClaimsKept DEF Check, Looking
  <2>. QED
    BY <1>1, <2>1
<1>6. CASE EnsureTable(i)
  <2>1. Claims' = Claims /\ rules' = rules /\ undeleted' = undeleted
    BY <1>1, <1>6, ClaimsKept DEF EnsureTable, Looking
  <2>. QED
    BY <1>1, <2>1
<1>7. CASE InsertEchoes(i)
  <2>. DEFINE new == [text |-> Text(i, rule[i]), handle |-> lastHandle + 1]
  <2>1. rules' = rules \cup {new} /\ undeleted' = undeleted
    BY <1>7 DEF InsertEchoes, Insert
  <2>2. new \notin rules /\ new.text = Text(i, rule[i])
    BY <1>1 DEF NftTypes
  <2>3. PICK s \in Steps \ {"lookup", "delete"}, q \in Kinds : GoTo(i, s, q)
    BY <1>2, <1>7, ProceedGoes DEF InsertEchoes, Steps, Kinds
  <2>4. lastHandle' \in Nat \ {0} /\ handles' = [handles EXCEPT ![i][rule[i]] = lastHandle']
    BY <1>1, <1>7, InsertTypes DEF InsertEchoes
  <2>5. Claims' = Claims \cup {<<i, rule[i]>>}
    BY <1>1, <1>7, <2>3, <2>4, ClaimByHandle DEF InsertEchoes, Insert
  <2>6. step[i] = "insert"
    BY <1>7 DEF InsertEchoes, Insert
  <2>. HIDE DEF new
  <2>7. Count(rules \cup {new}, Claims \cup {<<i, rule[i]>>}, undeleted)
    BY <1>1, <1>2, <1>4, <2>2, <2>6, CountGain
  <2>. QED
    BY <2>1, <2>5, <2>7
<1>8. CASE InsertIsMute(i)
  <2>. DEFINE new == [text |-> Text(i, rule[i]), handle |-> lastHandle + 1]
  <2>1. rules' = rules \cup {new} /\ undeleted' = undeleted
    BY <1>8 DEF InsertIsMute, Insert
  <2>2. new \notin rules /\ new.text = Text(i, rule[i])
    BY <1>1 DEF NftTypes
  <2>5. Claims' = Claims \cup {<<i, rule[i]>>}
    BY <1>1, <1>8, ClaimByLooking DEF InsertIsMute, Insert
  <2>6. step[i] = "insert"
    BY <1>8 DEF InsertIsMute, Insert
  <2>. HIDE DEF new
  <2>7. Count(rules \cup {new}, Claims \cup {<<i, rule[i]>>}, undeleted)
    BY <1>1, <1>2, <1>4, <2>2, <2>6, CountGain
  <2>. QED
    BY <2>1, <2>5, <2>7
<1>9. CASE InsertFails(i)
  <2>1. Claims' = Claims /\ rules' = rules /\ undeleted' = undeleted
    BY <1>1, <1>9, ClaimsKept DEF InsertFails, Looking
  <2>. QED
    BY <1>1, <2>1
<1>10. CASE Lookup(i)
  <2>1. Claims' = Claims /\ rules' = rules /\ undeleted' = undeleted
    BY <1>1, <1>10, ClaimsKept DEF Lookup, Looking
  <2>. QED
    BY <1>1, <2>1
<1>11. CASE LookupFails(i)
  <2>. DEFINE r == rule[i]
  <2>1. step[i] \in {"lookup", "delete"} /\ r \in Kinds
    BY <1>2, <1>11 DEF LookupFails
  <2>2. Claims' = Claims \ {<<i, r>>} /\ <<i, r>> \in Claims
    BY <1>1, <1>3, <1>11, <2>1, ClaimDropped DEF LookupFails, Looking
  <2>3. Loses(i, r) /\ rules' = rules
    BY <1>11 DEF LookupFails
  <2>. HIDE DEF r
  <2>4. Count(rules, Claims \ {<<i, r>>}, undeleted')
    BY <1>1, <1>2, <2>1, <2>2, <2>3, CountLose DEF Loses
  <2>. QED
    BY <2>2, <2>3, <2>4
<1>12. CASE DeleteFound(i)
  <2>. DEFINE r == rule[i]
  <2>1. step[i] \in {"lookup", "delete"} /\ r \in Kinds
    BY <1>2, <1>12 DEF DeleteFound
  <2>2. Claims' = Claims \ {<<i, r>>} /\ <<i, r>> \in Claims
    BY <1>1, <1>3, <1>12, <2>1, ClaimDropped DEF DeleteFound, Looking
  <2>3. \/ \E x \in rules : /\ x.handle = found[i] /\ Delete(x.handle)
                           /\ undeleted' = undeleted
        \/ Loses(i, r) /\ rules' = rules
    BY <1>12 DEF DeleteFound
  <2>4. \A x \in rules : x.handle = found[i] => x.text = Text(i, r)
    BY <1>1, <1>12 DEF HandlesTell, DeleteFound
  <2>. HIDE DEF r
  <2>5. CASE Loses(i, r) /\ rules' = rules
    <3>1. Count(rules, Claims \ {<<i, r>>}, undeleted')
      BY <1>1, <1>2, <2>1, <2>2, <2>5, CountLose DEF Loses
    <3>. QED
      BY <2>2, <2>5, <3>1
  <2>6. ASSUME NEW x \in rules, x.text = Text(i, r), Delete(x.handle), undeleted' = undeleted
        PROVE  Count(rules, Claims, undeleted)'
    <3>1. rules' = rules \ {x}
      BY <1>1, <2>6 DEF Delete, HandlesTell
    <3>2. Count(rules \ {x}, Claims \ {<<i, r>>}, undeleted)
      BY <1>1, <1>2, <2>1, <2>2, <2>6, CountRemove
    <3>. QED
      BY <2>2, <2>6, <3>1, <3>2
  <2>. QED
    BY <2>3, <2>4, <2>5, <2>6
<1>13. CASE EnsureRoutePolicy(i)
  <2>1. Claims' = Claims /\ rules' = rules /\ undeleted' = undeleted
    BY <1>1, <1>13, ClaimsKept DEF EnsureRoutePolicy, Looking
  <2>. QED
    BY <1>1, <2>1
<1>14. CASE DeletePolicyRule(i)
  <2>1. Claims' = Claims /\ rules' = rules /\ undeleted' = undeleted
    BY <1>1, <1>14, ClaimsKept DEF DeletePolicyRule, Looking
  <2>. QED
    BY <1>1, <2>1
<1>15. CASE EnsureMarkChain(i)
  <2>1. Claims' = Claims /\ rules' = rules /\ undeleted' = undeleted
    BY <1>1, <1>15, ClaimsKept DEF EnsureMarkChain, Looking
  <2>. QED
    BY <1>1, <2>1
<1>16. CASE StartRules(i)
  <2>1. Claims' = Claims /\ rules' = rules /\ undeleted' = undeleted
    BY <1>1, <1>16, ClaimsKept DEF StartRules, Looking
  <2>. QED
    BY <1>1, <2>1
<1>17. CASE StopRules(i)
  <2>1. Claims' = Claims /\ rules' = rules /\ undeleted' = undeleted
    BY <1>1, <1>17, ClaimsKept DEF StopRules, Looking
  <2>. QED
    BY <1>1, <2>1
<1>18. CASE DeleteHeld(i)
  <2>. DEFINE r == FirstHeld(i)
  <2>1. r \in Held(i) /\ r \in Kinds
    BY <1>18, FirstIsHeld DEF DeleteHeld, Held
  <2>2. Claims' = Claims \ {<<i, r>>} /\ <<i, r>> \in Claims
    BY <1>1, <1>18, <2>1, ClaimForgotten DEF DeleteHeld
  <2>3. \/ \E x \in rules : /\ x.handle = handles[i][r] /\ Delete(x.handle)
                           /\ undeleted' = undeleted
        \/ Loses(i, r) /\ rules' = rules
    BY <1>18 DEF DeleteHeld
  <2>4. \A x \in rules : x.handle = handles[i][r] => x.text = Text(i, r)
    BY <1>1, <2>1 DEF HandlesTell
  <2>. HIDE DEF r
  <2>5. CASE Loses(i, r) /\ rules' = rules
    <3>1. Count(rules, Claims \ {<<i, r>>}, undeleted')
      BY <1>1, <1>2, <2>1, <2>2, <2>5, CountLose DEF Loses
    <3>. QED
      BY <2>2, <2>5, <3>1
  <2>6. ASSUME NEW x \in rules, x.text = Text(i, r), Delete(x.handle), undeleted' = undeleted
        PROVE  Count(rules, Claims, undeleted)'
    <3>1. rules' = rules \ {x}
      BY <1>1, <2>6 DEF Delete, HandlesTell
    <3>2. Count(rules \ {x}, Claims \ {<<i, r>>}, undeleted)
      BY <1>1, <1>2, <2>1, <2>2, <2>6, CountRemove
    <3>. QED
      BY <2>2, <2>6, <3>1, <3>2
  <2>. QED
    BY <2>3, <2>4, <2>5, <2>6
<1>19. CASE Stopped(i)
  <2>1. Claims' = Claims /\ rules' = rules /\ undeleted' = undeleted
    BY <1>1, <1>19, ClaimsKept DEF Stopped, Looking
  <2>. QED
    BY <1>1, <2>1
<1>. QED
  BY <1>5, <1>6, <1>7, <1>8, <1>9, <1>10, <1>11, <1>12, <1>13, <1>14, <1>15, <1>16, <1>17, <1>18, <1>19 DEF Step, StartSteps

-----------------------------------------------------------------------------
(* The theorems                                                            *)

LEMMA NftInvNext == NftInv /\ [NftNext]_nftVars => NftInv'
<1>. SUFFICES ASSUME NftInv, [NftNext]_nftVars PROVE NftInv'
  OBVIOUS
<1>1. ASSUME NEW i \in Insts, Step(i) PROVE NftInv'
  <2>1. NftTypes'
    BY <1>1, TypesNext DEF NftInv
  <2>2. HandlesTell' /\ Stage(i)' /\ PolicyStage(i)' /\ Count(rules, Claims, undeleted)'
    BY <1>1, HandlesNext, StageNext, CountNext
  <2>3. ASSUME NEW j \in Insts, j # i PROVE Stage(j)' /\ PolicyStage(j)'
    <3>0. /\ step'[j] = step[j] /\ rule'[j] = rule[j]
          /\ handles'[j] = handles[j] /\ policy'[j] = policy[j]
      BY <1>1, <2>3, StepIsLocal DEF NftInv
    <3>1. /\ step'[j] = step[j] /\ rule'[j] = rule[j] /\ policy'[j] = policy[j]
          /\ Held(j)' = Held(j)
      BY <3>0 DEF Held
    <3>2. Stage(j) /\ PolicyStage(j)
      BY DEF NftInv
    <3>. QED
      BY <3>1, <3>2 DEF Stage, PolicyStage
  <2>. QED
    BY <2>1, <2>2, <2>3 DEF NftInv
<1>2. CASE UNCHANGED nftVars
  <2>1. Claims' = Claims
    BY <1>2 DEF nftVars, Claims, Looking, Held
  <2>2. NftTypes' /\ HandlesTell'
    BY <1>2 DEF nftVars, NftInv, NftTypes, HandlesTell
  <2>3. \A i \in Insts : Stage(i)' /\ PolicyStage(i)'
    BY <1>2 DEF nftVars, NftInv, Stage, PolicyStage, Held
  <2>4. rules' = rules /\ undeleted' = undeleted /\ Count(rules, Claims, undeleted)
    BY <1>2 DEF nftVars, NftInv
  <2>5. Count(rules, Claims, undeleted)'
    BY <2>1, <2>4
  <2>. QED
    BY <2>2, <2>3, <2>5 DEF NftInv
<1>. QED
  BY <1>1, <1>2 DEF NftNext, Step

LEMMA NftInvAlways == NftSpec => []NftInv
BY NftInvInit, NftInvNext, PTL DEF NftSpec

\* Stop, and the removal of a rule whose handle was not echoed, take away one
\* rule each and never that of another instance, however their commands
\* interleave and fail: forward/nftables_executor.go.
THEOREM NftRulesCounted == NftSpec => []RulesCounted
<1>1. NftInv => RulesCounted
  BY CountedIsCount DEF NftInv, NftTypes
<1>. QED
  BY <1>1, NftInvAlways, PTL

\* A claim on a text: there is a rule with it.
LEMMA ClaimIsServed ==
    ASSUME NftInv, NEW i \in Insts, NEW r \in Held(i)
    PROVE  \E x \in rules : x.text = Text(i, r)
<1>. DEFINE t == Text(i, r)
<1>1. r \in Kinds /\ t \in Texts
  BY DEF Held, Texts
<1>2. <<i, r>> \in Claims
  BY <1>1 DEF Claims
<1>3. i \in Claimants(t, Claims)
  BY <1>1, <1>2 DEF Claimants
<1>4. IsFiniteSet(rules) /\ undeleted[t] \in Nat
  BY <1>1 DEF NftInv, NftTypes
<1>5. /\ IsFiniteSet(Claimants(t, Claims)) /\ Cardinality(Claimants(t, Claims)) \in Nat
      /\ Cardinality(Like(t, rules)) \in Nat
  BY <1>4, Finite
<1>6. Cardinality(Claimants(t, Claims)) # 0
  BY <1>3, <1>5, FS_EmptySet
<1>7. Cardinality(Like(t, rules)) = Cardinality(Claimants(t, Claims)) + undeleted[t]
  BY <1>1 DEF NftInv, Count
<1>. HIDE DEF t
<1>8. Cardinality(Like(t, rules)) # 0
  BY <1>4, <1>5, <1>6, <1>7
<1>9. Like(t, rules) # {}
  BY <1>8, FS_EmptySet
<1>. QED
  BY <1>9 DEF Like, t

\* Start returns without error only with every rule and the whole policy in
\* place, and no other instance takes them away: nftables_executor.go, Start.
THEOREM NftRunningIsComplete == NftSpec => []RunningIsComplete
<1>1. NftInv => RunningIsComplete
  <2>. SUFFICES ASSUME NftInv, NEW i \in Insts, step[i] = "running"
                PROVE  /\ \A r \in RulesOf(i) : \E x \in rules : x.text = Text(i, r)
                       /\ i \in Marked => policy[i] = {"route", "rule"}
    BY DEF RunningIsComplete
  <2>1. Held(i) = RulesOf(i) /\ (i \in Marked => policy[i] = {"route", "rule"})
    BY DEF NftInv, Stage, PolicyStage
  <2>. QED
    BY <2>1, ClaimIsServed
<1>. QED
  BY <1>1, NftInvAlways, PTL

=============================================================================
