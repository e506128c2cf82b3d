---------------------------- MODULE NotifyProofs ----------------------------
(***************************************************************************)
(* Theorems about Notify, for any instances with any features, any         *)
(* mappings, and any number of callbacks and mishaps.                      *)
(*                                                                         *)
(* The argument follows one callback of one instance.  While nothing is    *)
(* left over of an earlier one, whoever writes for the instance writes the *)
(* same mapping, so that what a step of the script has done stays done;    *)
(* what it has not done is still ahead of the script.                      *)
(***************************************************************************)
EXTENDS Notify, TLAPS

\* The mapping of the callback under way, or of the last one.
Current(i) == IF call[i] # None THEN call[i] ELSE served[i]
Undisturbed(i) == configured[i] /\ Current(i) # None /\ ~haunted[i]

ScriptsOf(i) == {p \in scripts : p.inst = i}

RuleWork == {"rule", "delete", "set", "accept", "commit", "reload"}

-----------------------------------------------------------------------------
(* The order of a script's work                                            *)

LEMMA WorkTable ==
    /\ DOMAIN Work = {"rule", "cloudflare", "qbittorrent", "webhook", "inline", "exit"}
    /\ Work["rule"] = 1 /\ Work["cloudflare"] = 2 /\ Work["qbittorrent"] = 3
    /\ Work["webhook"] = 4 /\ Work["inline"] = 5 /\ Work["exit"] = 6
BY DEF Work

\* The step chosen is enabled, and no enabled step from n on comes before it.
LEMMA StepFromIs ==
    ASSUME NEW i \in Instances, NEW n \in 1..6
    PROVE  /\ StepFrom(i, n) \in Features[i] \cup {"exit"}
           /\ Work[StepFrom(i, n)] >= n
           /\ \A v \in Features[i] \cup {"exit"} :
                 Work[v] >= n => Work[StepFrom(i, n)] <= Work[v]
<1>. DEFINE S == Features[i] \cup {"exit"}
            First(w) == /\ Work[w] >= n
                        /\ \A v \in S : Work[v] >= n => Work[w] <= Work[v]
<1>1. S \subseteq {"rule", "cloudflare", "qbittorrent", "webhook", "inline", "exit"}
  BY FeaturesAssumption DEF Optional, Targets
<1>2. \E w \in S : First(w)
  <2>. DEFINE From(w) == w \in S /\ Work[w] >= n
  <2>. HIDE DEF S
  <2>1. CASE From("rule")
    BY <2>1, <1>1, WorkTable
  <2>2. CASE ~From("rule") /\ From("cloudflare")
    BY <2>2, <1>1, WorkTable
  <2>3. CASE ~From("rule") /\ ~From("cloudflare") /\ From("qbittorrent")
    BY <2>3, <1>1, WorkTable
  <2>4. CASE ~From("rule") /\ ~From("cloudflare") /\ ~From("qbittorrent")
             /\ From("webhook")
    BY <2>4, <1>1, WorkTable
  <2>5. CASE ~From("rule") /\ ~From("cloudflare") /\ ~From("qbittorrent")
             /\ ~From("webhook") /\ From("inline")
    BY <2>5, <1>1, WorkTable
  <2>6. CASE ~From("rule") /\ ~From("cloudflare") /\ ~From("qbittorrent")
             /\ ~From("webhook") /\ ~From("inline")
    <3>1. From("exit")
      BY WorkTable DEF S
    <3>. QED
      BY <2>6, <3>1, <1>1, WorkTable
  <2>. QED
    BY <2>1, <2>2, <2>3, <2>4, <2>5, <2>6
<1>3. StepFrom(i, n) = CHOOSE w \in S : First(w)
  BY DEF StepFrom
<1>4. StepFrom(i, n) \in S /\ First(StepFrom(i, n))
  <2>. HIDE DEF S, First
  <2>. QED
    BY <1>2, <1>3
<1>. QED
  BY <1>4

\* The next step after w comes later than w, is enabled, and leaves out no
\* enabled step.
LEMMA AfterIs ==
    ASSUME NEW p \in Script,
           NEW w \in {"rule", "cloudflare", "qbittorrent", "webhook", "inline"}
    PROVE  /\ After(p, w) \in Features[p.inst] \cup {"exit"}
           /\ \A v \in Features[p.inst] \cup {"exit"} :
                 Work[v] > Work[w] => Work[After(p, w)] <= Work[v]
           /\ After(p, w) \in (Targets \cup {"rule", "exit"}) \ {w}
<1>1. p.inst \in Instances /\ Work[w] \in 1..5 /\ Work[w] + 1 \in 1..6
  BY WorkTable DEF Script
<1>2. /\ After(p, w) \in Features[p.inst] \cup {"exit"}
      /\ Work[After(p, w)] >= Work[w] + 1
      /\ \A v \in Features[p.inst] \cup {"exit"} :
            Work[v] >= Work[w] + 1 => Work[After(p, w)] <= Work[v]
  BY <1>1, StepFromIs DEF After
<1>3. Features[p.inst] \subseteq Optional
  BY <1>1, FeaturesAssumption
<1>4. After(p, w) \in Targets \cup {"rule", "exit"}
  BY <1>2, <1>3 DEF Optional
<1>5. After(p, w) # w
  BY <1>1, <1>2
<1>6. ASSUME NEW v \in Features[p.inst] \cup {"exit"}, Work[v] > Work[w]
      PROVE  Work[After(p, w)] <= Work[v]
  <2>1. Work[v] \in Nat
    BY <1>3, WorkTable DEF Optional, Targets
  <2>. QED
    BY <2>1, <1>1, <1>2, <1>6
<1>. QED
  BY <1>2, <1>4, <1>5, <1>6

LEMMA AllCommands ==
    Commands = {"start", "rule", "delete", "set", "accept", "commit", "reload",
                "cloudflare", "qbittorrent", "reported", "refused", "webhook",
                "inline", "exit"}
BY WorkTable DEF Commands

\* One step of a script changes what it does next, and nothing else of it.
LEMMA MovedIs ==
    ASSUME NEW p \in Script, NEW w \in Commands
    PROVE  LET q == [p EXCEPT !.pc = w]
           IN  /\ q \in Script /\ q.pc = w
               /\ q.inst = p.inst /\ q.pair = p.pair /\ q.orphan = p.orphan
BY DEF Script

\* What a script does next, after each of its commands.
RuleOrder ==
    {<<"rule", "delete">>, <<"delete", "set">>, <<"set", "accept">>,
     <<"accept", "commit">>, <<"commit", "reload">>}

Follows(p, w) ==
    \/ p.pc = "start" /\ w = StepFrom(p.inst, 1)
    \/ <<p.pc, w>> \in RuleOrder
    \/ p.pc \in RuleWork /\ w = After(p, "rule")
    \/ p.pc = "qbittorrent" /\ w \in {"reported", "refused"}
    \/ p.pc \in Targets \ {"qbittorrent"} /\ w = After(p, p.pc)
    \/ p.pc \in {"reported", "refused"} /\ w = After(p, "qbittorrent")

LEMMA FollowsIs ==
    ASSUME NEW p \in Script, NEW w, Follows(p, w)
    PROVE  w \in Commands
<1>1. \A v \in {"rule", "cloudflare", "qbittorrent", "webhook", "inline"} :
          After(p, v) \in Commands
  BY AfterIs, AllCommands DEF Targets
<1>2. StepFrom(p.inst, 1) \in Commands
  <2>1. p.inst \in Instances
    BY DEF Script
  <2>2. StepFrom(p.inst, 1) \in Features[p.inst] \cup {"exit"}
    BY <2>1, StepFromIs
  <2>. QED
    BY <2>1, <2>2, FeaturesAssumption, AllCommands DEF Optional, Targets
<1>. QED
  BY <1>1, <1>2, AllCommands DEF Follows, RuleOrder, Targets

\* Script p has become q, which acts for the same mapping.
Becomes(p, q) ==
    /\ q \in Script
    /\ q.inst = p.inst /\ q.pair = p.pair /\ q.orphan = p.orphan
    /\ Follows(p, q.pc)
    /\ scripts' = (scripts \ {p}) \cup {q}

LEMMA GoesIs ==
    ASSUME NEW p \in Script, NEW w, Follows(p, w), Goes(p, w)
    PROVE  \E q : Becomes(p, q) /\ q.pc = w
<1>1. w \in Commands
  BY FollowsIs
<1>2. Becomes(p, [p EXCEPT !.pc = w])
  BY <1>1, MovedIs DEF Becomes, Goes
<1>. QED
  BY <1>1, <1>2, MovedIs

\* A step of a script changes what the script does next, and nothing of the
\* process, of other scripts or of what killed scripts have left.  A script that
\* reports success has told qBittorrent.
LEMMA ScriptMoves ==
    ASSUME TypeOK, NEW p \in scripts, ScriptStep(p)
    PROVE  /\ UNCHANGED <<process, late, haunted, calls>>
           /\ \/ \E q : Becomes(p, q) /\ (q.pc = "reported" => Tell(p) /\ p.pc = "qbittorrent")
              \/ p.pc = "exit" /\ scripts' = scripts \ {p}
<1>. USE DEF Follows, RuleOrder, RuleWork, Targets
<1>0. p \in Script
  BY DEF TypeOK
<1>8. /\ \A v \in {"rule", "cloudflare", "qbittorrent", "webhook", "inline"} :
           After(p, v) # "reported"
      /\ StepFrom(p.inst, 1) # "reported"
  <2>1. \A v \in {"rule", "cloudflare", "qbittorrent", "webhook", "inline"} :
          After(p, v) # "reported"
    BY <1>0, AfterIs
  <2>2. p.inst \in Instances
    BY <1>0 DEF Script
  <2>3. StepFrom(p.inst, 1) \in Features[p.inst] \cup {"exit"}
    BY <2>2, StepFromIs
  <2>. QED
    BY <2>1, <2>2, <2>3, FeaturesAssumption DEF Optional
<1>1. CASE ReadStatus(p)
  <2>1. status[p.inst].pair \in Pairs \cup {None}
    BY <1>0 DEF TypeOK, Script
  <2>2. StepFrom(p.inst, 1) \in Commands
    BY <1>0, <1>1, FollowsIs DEF ReadStatus
  <2>. DEFINE q == [p EXCEPT !.seen = status[p.inst].pair, !.pc = StepFrom(p.inst, 1)]
  <2>3. q \in Script /\ q.inst = p.inst /\ q.pair = p.pair /\ q.orphan = p.orphan
        /\ q.pc = StepFrom(p.inst, 1)
    BY <1>0, <2>1, <2>2 DEF Script
  <2>4. p.pc = "start" /\ scripts' = (scripts \ {p}) \cup {q}
    BY <1>1 DEF ReadStatus
  <2>5. Becomes(p, q)
    <3>. HIDE DEF q
    <3>. QED
      BY <2>3, <2>4 DEF Becomes
  <2>. QED
    BY <1>1, <1>8, <2>3, <2>5 DEF ReadStatus, history, budget
<1>2. CASE RuleUnchanged(p) \/ RuleChanged(p) \/ DeleteRule(p) \/ SetRule(p) \/ AcceptRule(p)
  BY <1>0, <1>2, <1>8, GoesIs
     DEF RuleUnchanged, RuleChanged, DeleteRule, SetRule, AcceptRule, history, budget
<1>3. CASE SetFails(p) \/ CommitRule(p) \/ CommitFails(p) \/ Reload(p) \/ NoReload(p)
  BY <1>0, <1>3, <1>8, GoesIs
     DEF SetFails, CommitRule, CommitFails, Reload, NoReload, FailsTo, history, budget
<1>4. CASE SkipWebhook(p)
  BY <1>0, <1>4, <1>8, GoesIs DEF SkipWebhook, history, budget
<1>5. CASE Tell(p)
  <2>1. Becomes(p, [p EXCEPT !.pc = "reported"]) \/ p.pc # "qbittorrent"
    <3>1. p.pc = "qbittorrent" => Follows(p, "reported") /\ Goes(p, "reported")
      BY <1>5 DEF Tell
    <3>. QED
      BY <1>0, <3>1, AllCommands, MovedIs DEF Becomes, Goes
  <2>2. p.pc # "qbittorrent" => \E q : Becomes(p, q) /\ q.pc # "reported"
    BY <1>0, <1>5, <1>8, GoesIs DEF Tell, Tells
  <2>. QED
    BY <1>5, <2>1, <2>2 DEF Tell, history, budget
<1>9. CASE TellFails(p)
  BY <1>0, <1>9, <1>8, GoesIs DEF TellFails, Tells, FailsTo, history, budget
<1>6. CASE Report(p)
  BY <1>0, <1>6, <1>8, GoesIs DEF Report, history, budget
<1>7. CASE Exit(p)
  BY <1>7 DEF Exit, history, budget
<1>. QED
  BY <1>1, <1>2, <1>3, <1>4, <1>5, <1>6, <1>7, <1>9 DEF ScriptStep

-----------------------------------------------------------------------------
(* Types                                                                   *)

LEMMA ToldUpdate ==
    ASSUME NEW f \in [Instances -> [Targets -> Pairs \cup {None}]],
           NEW i \in Instances, NEW t \in Targets, NEW m \in Pairs
    PROVE  LET g == [f EXCEPT ![i][t] = m]
           IN  /\ g \in [Instances -> [Targets -> Pairs \cup {None}]]
               /\ g[i][t] = m
               /\ \A j \in Instances : j # i => g[j] = f[j]
               /\ \A u \in Targets : u # t => g[i][u] = f[i][u]
<1>1. f[i] \in [Targets -> Pairs \cup {None}]
  OBVIOUS
<1>2. [f EXCEPT ![i][t] = m] = [f EXCEPT ![i] = [f[i] EXCEPT ![t] = m]]
  OBVIOUS
<1>. QED
  BY <1>1, <1>2

LEMMA SectionIs ==
    ASSUME NEW x \in Section
    PROVE  x.pair \in Pairs \cup {None} /\ x.accept \in BOOLEAN
           /\ x = [pair |-> x.pair, accept |-> x.accept]
BY DEF Section

LEMMA SectionUpdate ==
    ASSUME NEW f \in [Instances -> Section], NEW i \in Instances, NEW m \in Pairs
    PROVE  /\ LET g == [f EXCEPT ![i].pair = m]
              IN  /\ g \in [Instances -> Section]
                  /\ g[i].pair = m /\ g[i].accept = f[i].accept
                  /\ \A j \in Instances : j # i => g[j] = f[j]
           /\ LET g == [f EXCEPT ![i].accept = TRUE]
              IN  /\ g \in [Instances -> Section]
                  /\ g[i].pair = f[i].pair /\ g[i].accept = TRUE
                  /\ \A j \in Instances : j # i => g[j] = f[j]
<1>1. f[i] \in Section
  OBVIOUS
<1>2. /\ [f[i] EXCEPT !.pair = m] \in Section
      /\ [f[i] EXCEPT !.pair = m].pair = m
      /\ [f[i] EXCEPT !.pair = m].accept = f[i].accept
      /\ [f[i] EXCEPT !.accept = TRUE] \in Section
      /\ [f[i] EXCEPT !.accept = TRUE].pair = f[i].pair
      /\ [f[i] EXCEPT !.accept = TRUE].accept = TRUE
  BY <1>1 DEF Section
<1>3. /\ [f EXCEPT ![i].pair = m] = [f EXCEPT ![i] = [f[i] EXCEPT !.pair = m]]
      /\ [f EXCEPT ![i].accept = TRUE] = [f EXCEPT ![i] = [f[i] EXCEPT !.accept = TRUE]]
  OBVIOUS
<1>. QED
  BY <1>2, <1>3

LEMMA TypeInit == Init => TypeOK
<1>1. SUFFICES ASSUME Init PROVE TypeOK
  OBVIOUS
<1>2. NoRule \in Section
  BY DEF NoRule, Section
<1>3. calls \in [Instances -> Nat] /\ \A i \in Instances : calls[i] <= MaxCalls[i]
  BY <1>1, BoundsAssumption DEF Init, Each
<1>4. mishaps \in 0..MaxMishaps
  BY <1>1, BoundsAssumption DEF Init
<1>. QED
  BY <1>1, <1>2, <1>3, <1>4 DEF Init, TypeOK, Each, NoStatus

LEMMA TypeStep == TypeOK /\ [Next]_vars => TypeOK'
<1>1. SUFFICES ASSUME TypeOK, [Next]_vars
               PROVE  TypeOK'
  OBVIOUS
<1>. USE DEF TypeOK, process, uci, history, budget
<1>2. ASSUME NEW i \in Instances,
             Start(i) \/ Returns(i) \/ SessionEnds(i) \/ Rename(i) \/ Cleanup(i)
      PROVE  TypeOK'
  <2>1. CASE Start(i) \/ Rename(i)
    <3>1. NoStatus \in [pair : Pairs \cup {None}, says : {"none", "mapped", "set", "failed"}]
      BY DEF NoStatus
    <3>2. status' \in [Instances -> [pair : Pairs \cup {None},
                                    says : {"none", "mapped", "set", "failed"}]]
      BY <1>1, <2>1, <3>1 DEF Start, Rename
    <3>3. configured' \in [Instances -> BOOLEAN] /\ up' \in [Instances -> BOOLEAN]
      BY <1>1, <2>1 DEF Start, Rename
    <3>. QED
      BY <1>1, <2>1, <3>2, <3>3 DEF Start, Rename
  <2>2. CASE Returns(i) \/ SessionEnds(i)
    BY <1>1, <2>2 DEF Returns, SessionEnds
  <2>3. CASE Cleanup(i)
    <3>1. NoRule \in Section
      BY DEF NoRule, Section
    <3>. QED
      BY <1>1, <2>3, <3>1 DEF Cleanup
  <2>. QED
    BY <1>2, <2>1, <2>2, <2>3
<1>3. ASSUME NEW i \in Instances, Announce(i)
      PROVE  TypeOK'
  <2>1. PICK m \in Pairs :
          /\ call' = [call EXCEPT ![i] = m]
          /\ status' = [status EXCEPT ![i] = [pair |-> m, says |-> "mapped"]]
          /\ scripts' = scripts \cup {[inst |-> i, pair |-> m, seen |-> None,
                                       pc |-> "start", orphan |-> FALSE]}
    BY <1>3 DEF Announce
  <2>2. [inst |-> i, pair |-> m, seen |-> None, pc |-> "start", orphan |-> FALSE] \in Script
    BY AllCommands DEF Script
  <2>3. haunted' \in [Instances -> BOOLEAN] /\ troubled' \in [Instances -> BOOLEAN]
    BY <1>1, <1>3 DEF Announce
  <2>4. calls' \in [Instances -> Nat] /\ \A j \in Instances : calls'[j] <= MaxCalls[j]
    <3>1. calls[i] \in Nat /\ calls[i] < MaxCalls[i] /\ MaxCalls[i] \in Nat
          /\ calls' = [calls EXCEPT ![i] = calls[i] + 1]
      BY <1>1, <1>3, BoundsAssumption DEF Announce
    <3>. QED
      BY <1>1, <3>1
  <2>5. call' \in [Instances -> Pairs \cup {None}]
    BY <1>1, <2>1
  <2>6. status' \in [Instances -> [pair : Pairs \cup {None},
                                   says : {"none", "mapped", "set", "failed"}]]
    BY <1>1, <2>1
  <2>. QED
    BY <1>1, <1>3, <2>1, <2>2, <2>3, <2>4, <2>5, <2>6 DEF Announce
<1>4. ASSUME NEW i \in Instances, Timeout(i)
      PROVE  TypeOK'
  <2>1. PICK p \in Own(i) :
          /\ scripts' = scripts \ {p}
          /\ late' = late \cup LeftBy(p)
          /\ missed' = [missed EXCEPT ![i] = @ \/ InstallPending(p)]
    BY <1>4 DEF Timeout
  <2>2. LeftBy(p) \subseteq Request
    BY <1>1, <2>1 DEF LeftBy, Request, Own, Script
  <2>3. missed' \in [Instances -> BOOLEAN]
    BY <1>1, <2>1 DEF InstallPending
  <2>4. mishaps' \in 0..MaxMishaps
    BY <1>1, <1>4, BoundsAssumption DEF Timeout
  <2>. QED
    BY <1>1, <1>4, <2>1, <2>2, <2>3, <2>4 DEF Timeout
<1>5. ASSUME NEW i \in Instances, Down(i)
      PROVE  TypeOK'
  <2>1. scripts' \subseteq Script
    <3>1. \A p \in Own(i) : [p EXCEPT !.orphan = TRUE] \in Script
      BY <1>1 DEF Own, Script
    <3>. QED
      BY <1>1, <1>5, <3>1 DEF Down
  <2>2. mishaps' \in 0..MaxMishaps
    BY <1>1, <1>5, BoundsAssumption DEF Down
  <2>. QED
    BY <1>1, <1>5, <2>1, <2>2 DEF Down
<1>6. ASSUME NEW p \in scripts, ScriptStep(p)
      PROVE  TypeOK'
  <2>1. p \in Script /\ p.inst \in Instances /\ p.pair \in Pairs
    BY <1>1 DEF Script
  <2>2. UNCHANGED <<process, late, haunted, calls>>
    BY <1>1, <1>6, ScriptMoves
  <2>3. scripts' \subseteq Script
    BY <1>1, <1>6, ScriptMoves DEF Becomes
  <2>4. CASE ReadStatus(p) \/ Report(p)
    <3>1. status' \in [Instances -> [pair : Pairs \cup {None},
                                    says : {"none", "mapped", "set", "failed"}]]
      <4>1. PICK s \in {"mapped", "set", "failed"} :
              status' = [status EXCEPT ![p.inst] = [pair |-> p.pair, says |-> s]]
        BY <2>4 DEF ReadStatus, Report
      <4>. QED
        BY <1>1, <2>1, <4>1
    <3>. QED
      BY <1>1, <2>2, <2>3, <2>4, <3>1 DEF ReadStatus, Report
  <2>5. CASE RuleUnchanged(p) \/ RuleChanged(p) \/ CommitRule(p) \/ Reload(p) \/ SkipWebhook(p) \/ Exit(p)
    BY <1>1, <2>1, <2>2, <2>3, <2>5
       DEF RuleUnchanged, RuleChanged, CommitRule, Reload, SkipWebhook, Exit
  <2>6. CASE DeleteRule(p) \/ SetRule(p) \/ AcceptRule(p)
    <3>1. view' \in [Instances -> Section]
      <4>2. [view EXCEPT ![p.inst].pair = p.pair] \in [Instances -> Section]
        BY <1>1, <2>1, SectionUpdate
      <4>3. [view EXCEPT ![p.inst].accept = TRUE] \in [Instances -> Section]
        BY <1>1, <2>1, SectionUpdate
      <4>1. NoRule \in Section
        BY DEF NoRule, Section
      <4>. QED
        BY <1>1, <2>1, <2>6, <4>1, <4>2, <4>3 DEF DeleteRule, SetRule, AcceptRule
    <3>. QED
      BY <1>1, <2>2, <2>3, <2>6, <3>1 DEF DeleteRule, SetRule, AcceptRule
  <2>7. CASE SetFails(p)
    <3>1. mishaps' \in 0..MaxMishaps
      BY <1>1, <2>7, BoundsAssumption DEF SetFails, FailsTo
    <3>2. troubled' \in [Instances -> BOOLEAN] /\ missed' \in [Instances -> BOOLEAN]
      BY <1>1, <2>7 DEF SetFails, FailsTo, InstallPending
    <3>. QED
      BY <1>1, <2>2, <2>3, <2>7, <3>1, <3>2 DEF SetFails
  <2>8. CASE CommitFails(p) \/ NoReload(p)
    <3>1. mishaps' \in 0..MaxMishaps
      BY <1>1, <2>8, BoundsAssumption DEF CommitFails, NoReload, FailsTo
    <3>. QED
      BY <1>1, <2>2, <2>3, <2>8, <3>1 DEF CommitFails, NoReload, FailsTo
  <2>9. CASE Tell(p) \/ TellFails(p)
    <3>1. mishaps' \in 0..MaxMishaps
      BY <1>1, <2>9, BoundsAssumption DEF Tell, TellFails, FailsTo
    <3>2. told' \in [Instances -> [Targets -> Pairs \cup {None}]]
      <4>1. p.pc \in Targets
        BY <2>9 DEF Tell, TellFails, Tells
      <4>2. [told EXCEPT ![p.inst][p.pc] = p.pair]
              \in [Instances -> [Targets -> Pairs \cup {None}]]
        BY <1>1, <2>1, <4>1, ToldUpdate
      <4>. QED
        BY <1>1, <2>9, <4>2 DEF Tell, TellFails
    <3>3. troubled' \in [Instances -> BOOLEAN]
      BY <1>1, <2>9 DEF Tell, TellFails, FailsTo
    <3>. QED
      BY <1>1, <2>2, <2>3, <2>9, <3>1, <3>2, <3>3 DEF Tell, TellFails
  <2>. QED
    BY <1>6, <2>4, <2>5, <2>6, <2>7, <2>8, <2>9 DEF ScriptStep
<1>7. ASSUME NEW r \in late, Land(r) \/ Lose(r)
      PROVE  TypeOK'
  <2>1. r \in Request /\ r.inst \in Instances /\ r.pair \in Pairs
    BY <1>1 DEF Request
  <2>2. r.to # "reload" => r.to \in Targets
    BY <2>1 DEF Request
  <2>3. told' \in [Instances -> [Targets -> Pairs \cup {None}]]
    <3>1. r.to # "reload" =>
            [told EXCEPT ![r.inst][r.to] = r.pair] \in [Instances -> [Targets -> Pairs \cup {None}]]
      BY <1>1, <2>1, <2>2, ToldUpdate
    <3>. QED
      BY <1>1, <1>7, <3>1 DEF Land, Lose
  <2>. QED
    BY <1>1, <1>7, <2>3 DEF Land, Lose
<1>8. CASE UNCHANGED vars
  BY <1>1, <1>8 DEF vars
<1>. QED
  BY <1>1, <1>2, <1>3, <1>4, <1>5, <1>6, <1>7, <1>8 DEF Next

-----------------------------------------------------------------------------
(* The inductive invariant, instance by instance                           *)

LateOf(i) == {r \in late : r.inst = i}

\* notify.Run announces one mapping at a time and waits for its script, unless
\* the process is killed.
OneCallback(i) ==
    /\ \A p \in ScriptsOf(i) : ~p.orphan => call[i] = p.pair
    /\ call[i] # None => served[i] = None
    /\ ~up[i] => call[i] = None /\ served[i] = None

\* A script works on what the configuration enables, and nothing else does.
OnlyEnabled(i) ==
    /\ \A p \in ScriptsOf(i) :
          /\ p.pc \in Targets => p.pc \in Features[i]
          /\ p.pc \in RuleWork => "rule" \in Features[i]
    /\ "rule" \notin Features[i] =>
          view[i] = NoRule /\ committed[i] = NoRule /\ loaded[i] = NoRule

\* Whoever still writes for an undisturbed instance writes its mapping.
NobodyElse(i) ==
    Undisturbed(i) =>
        /\ \A p \in ScriptsOf(i) : ~p.orphan
        /\ \A r \in LateOf(i) : r.pair = Current(i)

StatusFollows(i) ==
    Undisturbed(i) =>
        /\ status[i].pair = Current(i)
        /\ status[i].says = "set" => told[i]["qbittorrent"] = Current(i)
        /\ \A p \in ScriptsOf(i) :
              p.pc = "reported" => told[i]["qbittorrent"] = Current(i)

\* A script at step w has yet to come to target t.
Ahead(w, t) ==
    \/ w \in {"start"} \cup RuleWork
    \/ w \in Targets \cup {"exit"} /\ Work[w] <= Work[t]
    \/ w \in {"reported", "refused"} /\ Work["qbittorrent"] < Work[t]

ToldOrAhead(i) ==
    Undisturbed(i) /\ ~troubled[i] =>
        \A t \in Features[i] \cap Targets :
            \/ t = "webhook" /\ i \in SkipUnchanged
            \/ told[i][t] = Current(i)
            \/ \E p \in ScriptsOf(i) : Ahead(p.pc, t)

StagedOrAhead(i) ==
    Undisturbed(i) /\ ~troubled[i] /\ "rule" \in Features[i] =>
        \/ view[i] = Rule(Current(i))
        \/ \E p \in ScriptsOf(i) :
              \/ p.pc \in {"start", "rule", "delete", "set"}
              \/ p.pc = "accept" /\ view[i].pair = p.pair

\* A complete rule that is staged is installed, or a script is about to.
InstalledOrPending(i) ==
    configured[i] /\ view[i].accept =>
        \/ missed[i]
        \/ \E p \in ScriptsOf(i) : p.pc \in {"accept", "commit"}
        \/ /\ committed[i] = view[i]
           /\ \/ loaded[i] = view[i]
              \/ \E p \in ScriptsOf(i) : p.pc = "reload"

InstanceInv(i) ==
    /\ OneCallback(i) /\ OnlyEnabled(i) /\ NobodyElse(i) /\ StatusFollows(i)
    /\ ToldOrAhead(i) /\ StagedOrAhead(i) /\ InstalledOrPending(i)

NotifyInv == TypeOK /\ \A i \in Instances : InstanceInv(i)

LEMMA NotifyInvInit == Init => NotifyInv
<1>1. SUFFICES ASSUME Init, NEW i \in Instances
               PROVE  InstanceInv(i)
  BY TypeInit DEF NotifyInv
<1>2. /\ ScriptsOf(i) = {} /\ LateOf(i) = {} /\ call[i] = None /\ served[i] = None
      /\ view[i] = NoRule /\ committed[i] = NoRule /\ loaded[i] = NoRule
  BY <1>1 DEF Init, ScriptsOf, LateOf, Each
<1>3. ~view[i].accept /\ ~Undisturbed(i)
  BY <1>2 DEF NoRule, Undisturbed, Current
<1>. QED
  BY <1>2, <1>3 DEF InstanceInv, OneCallback, OnlyEnabled, NobodyElse, StatusFollows,
     ToldOrAhead, StagedOrAhead, InstalledOrPending

-----------------------------------------------------------------------------
(* The steps of other instances                                            *)

Unmoved(i) ==
    /\ configured'[i] = configured[i] /\ up'[i] = up[i]
    /\ call'[i] = call[i] /\ served'[i] = served[i]
    /\ status'[i] = status[i] /\ view'[i] = view[i] /\ told'[i] = told[i]
    /\ haunted'[i] = haunted[i] /\ troubled'[i] = troubled[i] /\ missed'[i] = missed[i]
    /\ ScriptsOf(i)' = ScriptsOf(i) /\ LateOf(i)' = LateOf(i)

\* A commit writes the rules of all instances, a reload installs those of all.
Installs(i) ==
    \/ committed'[i] = committed[i] /\ loaded'[i] = loaded[i]
    \/ committed'[i] = view[i] /\ loaded'[i] = loaded[i]
    \/ committed'[i] = committed[i] /\ loaded'[i] = committed[i]

\* A commit or a reload of another instance disturbs nothing: it can only take
\* the rule further.
LEMMA OtherInstance ==
    ASSUME NEW i \in Instances, InstanceInv(i), Unmoved(i), Installs(i)
    PROVE  InstanceInv(i)'
<1>. USE DEF Unmoved, InstanceInv
<1>0. Current(i)' = Current(i) /\ Undisturbed(i)' = Undisturbed(i)
  BY DEF Undisturbed, Current
<1>1. OneCallback(i)'
  BY DEF OneCallback
<1>2. OnlyEnabled(i)'
  BY DEF OnlyEnabled, Installs
<1>3. NobodyElse(i)' /\ StatusFollows(i)'
  BY <1>0 DEF NobodyElse, StatusFollows
<1>4. ToldOrAhead(i)' /\ StagedOrAhead(i)'
  BY <1>0 DEF ToldOrAhead, StagedOrAhead
<1>5. InstalledOrPending(i)'
  BY DEF InstalledOrPending, Installs
<1>. QED
  BY <1>1, <1>2, <1>3, <1>4, <1>5

\* The step of a script is for the instance of the script.
LEMMA ScriptStepElsewhere ==
    ASSUME TypeOK, NEW p \in scripts, ScriptStep(p), NEW i \in Instances, i # p.inst
    PROVE  Unmoved(i) /\ Installs(i)
<1>0. p \in Script /\ p.inst \in Instances /\ p.pair \in Pairs
  BY DEF TypeOK, Script
<1>1. UNCHANGED <<process, late, haunted, calls>> /\ ScriptsOf(i)' = ScriptsOf(i)
  BY <1>0, ScriptMoves DEF Becomes, ScriptsOf
<1>2. status'[i] = status[i]
  BY <1>0 DEF TypeOK, ScriptStep, ReadStatus, RuleUnchanged, RuleChanged, DeleteRule,
     SetRule, AcceptRule, SetFails, CommitRule, CommitFails, Reload, NoReload,
     SkipWebhook, Tell, TellFails, Report, Exit
<1>3. view'[i] = view[i]
  <2>1. CASE SetRule(p)
    BY <1>0, <2>1, SectionUpdate DEF SetRule, TypeOK
  <2>2. CASE AcceptRule(p)
    BY <1>0, <2>2, SectionUpdate DEF AcceptRule, TypeOK
  <2>3. CASE DeleteRule(p)
    BY <1>0, <2>3 DEF DeleteRule, TypeOK
  <2>4. CASE ~(SetRule(p) \/ AcceptRule(p) \/ DeleteRule(p))
    BY <2>4 DEF ScriptStep, ReadStatus, RuleUnchanged, RuleChanged,
       SetFails, CommitRule, CommitFails, Reload, NoReload,
       SkipWebhook, Tell, TellFails, Report, Exit, uci
  <2>. QED
    BY <2>1, <2>2, <2>3, <2>4
<1>4. told'[i] = told[i]
  <2>1. CASE Tell(p) \/ TellFails(p)
    <3>1. p.pc \in Targets
      BY <2>1 DEF Tell, TellFails, Tells
    <3>2. [told EXCEPT ![p.inst][p.pc] = p.pair][i] = told[i]
      BY <1>0, <3>1, ToldUpdate DEF TypeOK
    <3>. QED
      BY <2>1, <3>2 DEF Tell, TellFails
  <2>2. CASE ~(Tell(p) \/ TellFails(p))
    BY <2>2 DEF ScriptStep, ReadStatus, RuleUnchanged, RuleChanged, DeleteRule,
       SetRule, AcceptRule, SetFails, CommitRule, CommitFails, Reload, NoReload,
       SkipWebhook, Report, Exit
  <2>. QED
    BY <2>1, <2>2
<1>5. troubled'[i] = troubled[i] /\ missed'[i] = missed[i]
  BY <1>0 DEF TypeOK, ScriptStep, ReadStatus, RuleUnchanged, RuleChanged, DeleteRule,
     SetRule, AcceptRule, SetFails, CommitRule, CommitFails, Reload, NoReload,
     SkipWebhook, Tell, TellFails, Report, Exit, FailsTo, history
<1>6. Installs(i)
  BY DEF Installs, ScriptStep, ReadStatus, RuleUnchanged, RuleChanged, DeleteRule,
     SetRule, AcceptRule, SetFails, CommitRule, CommitFails, Reload, NoReload,
     SkipWebhook, Tell, TellFails, Report, Exit, uci
<1>. QED
  BY <1>1, <1>2, <1>3, <1>4, <1>5, <1>6 DEF Unmoved, LateOf, process

LEMMA ProcessStepElsewhere ==
    ASSUME TypeOK, NEW i \in Instances, NEW j \in Instances, i # j,
           \/ Start(j) \/ Announce(j) \/ Returns(j) \/ Timeout(j) \/ SessionEnds(j)
           \/ Down(j) \/ Rename(j) \/ Cleanup(j)
    PROVE  Unmoved(i) /\ Installs(i)
<1>. USE DEF TypeOK, process, uci, history, budget, Unmoved, Installs, ScriptsOf, LateOf
<1>1. CASE Start(j) \/ Returns(j) \/ SessionEnds(j) \/ Rename(j) \/ Cleanup(j)
  BY <1>1 DEF Start, Returns, SessionEnds, Rename, Cleanup
<1>2. CASE Announce(j)
  BY <1>2 DEF Announce
<1>3. CASE Timeout(j)
  BY <1>3 DEF Timeout, Own, LeftBy, Script
<1>4. CASE Down(j)
  <2>1. ScriptsOf(i)' = ScriptsOf(i)
    <3>. DEFINE New == {[p EXCEPT !.orphan = TRUE] : p \in Own(j)}
    <3>1. (\A p \in Own(j) : p.inst = j) /\ \A q \in New : q.inst = j
      BY DEF Own, Script
    <3>2. scripts' = (scripts \ Own(j)) \cup New
      BY <1>4 DEF Down
    <3>. HIDE DEF New
    <3>. QED
      BY <3>1, <3>2
  <2>. QED
    BY <1>4, <2>1 DEF Down
<1>. QED
  BY <1>1, <1>2, <1>3, <1>4

LEMMA LateStepElsewhere ==
    ASSUME TypeOK, NEW r \in late, Land(r) \/ Lose(r), NEW i \in Instances, i # r.inst
    PROVE  Unmoved(i) /\ Installs(i)
<1>0. r \in Request /\ r.inst \in Instances /\ r.pair \in Pairs
  BY DEF TypeOK, Request
<1>1. told'[i] = told[i]
  <2>1. CASE r.to = "reload" \/ Lose(r)
    BY <2>1 DEF Land, Lose
  <2>2. CASE r.to # "reload" /\ Land(r)
    <3>1. r.to \in Targets
      BY <1>0, <2>2 DEF Request
    <3>2. [told EXCEPT ![r.inst][r.to] = r.pair][i] = told[i]
      BY <1>0, <3>1, ToldUpdate DEF TypeOK
    <3>. QED
      BY <2>2, <3>2 DEF Land
  <2>. QED
    BY <2>1, <2>2
<1>. QED
  BY <1>0, <1>1
     DEF Land, Lose, process, uci, history, budget, Unmoved, Installs, ScriptsOf, LateOf

-----------------------------------------------------------------------------
(* The steps of the instance itself                                        *)

LEMMA AnnounceKeeps ==
    ASSUME NotifyInv, NEW i \in Instances, Announce(i)
    PROVE  InstanceInv(i)'
<1>0. InstanceInv(i) /\ TypeOK
  BY DEF NotifyInv
<1>1. PICK m \in Pairs :
        /\ call' = [call EXCEPT ![i] = m]
        /\ status' = [status EXCEPT ![i] = [pair |-> m, says |-> "mapped"]]
        /\ scripts' = scripts \cup {[inst |-> i, pair |-> m, seen |-> None,
                                     pc |-> "start", orphan |-> FALSE]}
  BY DEF Announce
<1>. DEFINE new == [inst |-> i, pair |-> m, seen |-> None, pc |-> "start", orphan |-> FALSE]
<1>2. new.inst = i /\ new.pair = m /\ new.pc = "start" /\ ~new.orphan
  OBVIOUS
<1>3. ScriptsOf(i)' = ScriptsOf(i) \cup {new}
  BY <1>1, <1>2 DEF ScriptsOf
<1>. HIDE DEF new
<1>4. /\ call[i] = None /\ served[i] = None /\ call'[i] = m /\ m # None
      /\ served'[i] = None /\ up'[i] /\ Current(i)' = m
      /\ status'[i].pair = m /\ status'[i].says = "mapped"
  BY <1>0, <1>1, NoneAssumption DEF Announce, TypeOK, Current
<1>5. UNCHANGED <<configured, up, late, view, committed, loaded, told, missed>>
  BY DEF Announce, uci
<1>6. \A p \in ScriptsOf(i) : p.orphan
  BY <1>0, <1>4, NoneAssumption DEF InstanceInv, OneCallback, TypeOK, ScriptsOf, Script
<1>7. ~haunted'[i] => ScriptsOf(i) = {} /\ LateOf(i) = {}
  BY <1>0, <1>6 DEF Announce, TypeOK, Survivors, ScriptsOf, LateOf
<1>8. OneCallback(i)'
  BY <1>2, <1>3, <1>4, <1>6 DEF OneCallback
<1>9. OnlyEnabled(i)'
  BY <1>0, <1>2, <1>3, <1>5 DEF OnlyEnabled, InstanceInv, Targets, RuleWork
<1>10. NobodyElse(i)'
  BY <1>2, <1>3, <1>5, <1>7 DEF NobodyElse, Undisturbed, LateOf
<1>11. StatusFollows(i)'
  BY <1>2, <1>3, <1>4, <1>7 DEF StatusFollows, Undisturbed
<1>12. ToldOrAhead(i)' /\ StagedOrAhead(i)'
  BY <1>2, <1>3 DEF ToldOrAhead, StagedOrAhead, Ahead
<1>13. InstalledOrPending(i)'
  BY <1>0, <1>3, <1>5 DEF InstalledOrPending, InstanceInv
<1>. QED
  BY <1>8, <1>9, <1>10, <1>11, <1>12, <1>13 DEF InstanceInv

LEMMA ReturnsKeeps ==
    ASSUME NotifyInv, NEW i \in Instances, Returns(i)
    PROVE  InstanceInv(i)'
<1>0. InstanceInv(i) /\ TypeOK
  BY DEF NotifyInv
<1>1. /\ served'[i] = call[i] /\ call'[i] = None /\ call[i] # None
      /\ Current(i)' = Current(i)
  BY <1>0 DEF Returns, TypeOK, Current
<1>2. /\ UNCHANGED <<configured, up, scripts, late, status, view, committed, loaded, told,
                     haunted, troubled, missed>>
      /\ ScriptsOf(i)' = ScriptsOf(i) /\ LateOf(i)' = LateOf(i)
  BY DEF Returns, uci, history, ScriptsOf, LateOf
<1>3. Undisturbed(i)' = Undisturbed(i)
  BY <1>1, <1>2 DEF Undisturbed
<1>4. OneCallback(i)'
  BY <1>0, <1>1, <1>2 DEF OneCallback, InstanceInv, Returns, Own, ScriptsOf
<1>5. OnlyEnabled(i)' /\ InstalledOrPending(i)'
  BY <1>0, <1>2 DEF OnlyEnabled, InstalledOrPending, InstanceInv
<1>6. NobodyElse(i)' /\ StatusFollows(i)' /\ ToldOrAhead(i)' /\ StagedOrAhead(i)'
  BY <1>0, <1>1, <1>2, <1>3
     DEF NobodyElse, StatusFollows, ToldOrAhead, StagedOrAhead, InstanceInv
<1>. QED
  BY <1>4, <1>5, <1>6 DEF InstanceInv

\* What a timed out script leaves acts for the mapping that is being announced.
LEMMA TimeoutKeeps ==
    ASSUME NotifyInv, NEW i \in Instances, Timeout(i)
    PROVE  InstanceInv(i)'
<1>0. InstanceInv(i) /\ TypeOK
  BY DEF NotifyInv
<1>1. PICK p \in Own(i) :
        /\ scripts' = scripts \ {p}
        /\ late' = late \cup LeftBy(p)
        /\ missed' = [missed EXCEPT ![i] = missed[i] \/ InstallPending(p)]
  BY DEF Timeout
<1>2. /\ UNCHANGED <<configured, up, call, served, status, view, committed, loaded, told,
                     haunted>>
      /\ troubled'[i]
      /\ Current(i)' = Current(i) /\ Undisturbed(i)' = Undisturbed(i)
  BY <1>0 DEF Timeout, TypeOK, process, uci, Current, Undisturbed
<1>3. p \in ScriptsOf(i) /\ ~p.orphan /\ p.inst = i /\ p.pair = call[i] /\ p.pair # None
  BY <1>0, NoneAssumption
     DEF InstanceInv, OneCallback, Own, ScriptsOf, TypeOK, Script
<1>4. ScriptsOf(i)' = ScriptsOf(i) \ {p}
  BY <1>1 DEF ScriptsOf
<1>5. \A r \in LateOf(i)' : r \in LateOf(i) \/ r.pair = Current(i)
  BY <1>1, <1>3 DEF LateOf, LeftBy, Current
<1>6. missed'[i] = (missed[i] \/ InstallPending(p))
  BY <1>0, <1>1 DEF TypeOK
<1>7. OneCallback(i)' /\ OnlyEnabled(i)'
  BY <1>0, <1>2, <1>4 DEF OneCallback, OnlyEnabled, InstanceInv
<1>8. NobodyElse(i)' /\ StatusFollows(i)'
  BY <1>0, <1>2, <1>4, <1>5 DEF NobodyElse, StatusFollows, InstanceInv
<1>9. ToldOrAhead(i)' /\ StagedOrAhead(i)'
  BY <1>2 DEF ToldOrAhead, StagedOrAhead
<1>10. InstalledOrPending(i)'
  BY <1>0, <1>2, <1>4, <1>6 DEF InstalledOrPending, InstanceInv, InstallPending
<1>. QED
  BY <1>7, <1>8, <1>9, <1>10 DEF InstanceInv

\* The process ends: nothing is being announced, and the script lives on.
LEMMA DownKeeps ==
    ASSUME NotifyInv, NEW i \in Instances, Down(i)
    PROVE  InstanceInv(i)'
<1>0. InstanceInv(i) /\ TypeOK
  BY DEF NotifyInv
<1>1. call'[i] = None /\ served'[i] = None /\ ~Undisturbed(i)'
  BY <1>0 DEF Down, TypeOK, Undisturbed, Current
<1>2. UNCHANGED <<configured, view, committed, loaded, missed>>
  BY DEF Down, uci, history
<1>. DEFINE New == {[p EXCEPT !.orphan = TRUE] : p \in Own(i)}
<1>3. scripts' = (scripts \ Own(i)) \cup New
  BY DEF Down
<1>4. \A q \in ScriptsOf(i)' : q.orphan /\ \E p \in ScriptsOf(i) : q.pc = p.pc
  <2>1. \A q \in New : q.orphan /\ \E p \in ScriptsOf(i) : q.pc = p.pc
    BY <1>0 DEF Own, ScriptsOf, TypeOK, Script
  <2>2. \A q \in scripts : q.inst = i /\ q \notin Own(i) => q.orphan
    BY DEF Own
  <2>. HIDE DEF New
  <2>. QED
    BY <1>3, <2>1, <2>2 DEF ScriptsOf
<1>5. \A p \in ScriptsOf(i) : \E q \in ScriptsOf(i)' : q.pc = p.pc
  <2>. SUFFICES ASSUME NEW p \in ScriptsOf(i)
                PROVE  \E q \in ScriptsOf(i)' : q.pc = p.pc
    OBVIOUS
  <2>. DEFINE q == [p EXCEPT !.orphan = TRUE]
  <2>1. CASE p \in Own(i)
    <3>1. q \in New /\ q.inst = i /\ q.pc = p.pc
      BY <1>0, <2>1 DEF ScriptsOf, TypeOK, Script
    <3>. HIDE DEF New, q
    <3>. QED
      BY <1>3, <3>1 DEF ScriptsOf
  <2>2. CASE p \notin Own(i)
    <3>. HIDE DEF New
    <3>. QED
      BY <1>3, <2>2 DEF ScriptsOf
  <2>. QED
    BY <2>1, <2>2
<1>. HIDE DEF New
<1>6. OneCallback(i)'
  BY <1>1, <1>4 DEF OneCallback
<1>7. OnlyEnabled(i)'
  BY <1>0, <1>2, <1>4 DEF OnlyEnabled, InstanceInv
<1>8. InstalledOrPending(i)'
  BY <1>0, <1>2, <1>5 DEF InstalledOrPending, InstanceInv
<1>. QED
  BY <1>1, <1>6, <1>7, <1>8
     DEF InstanceInv, NobodyElse, StatusFollows, ToldOrAhead, StagedOrAhead

\* The remaining steps of the process and the user leave nothing undisturbed.
LEMMA OthersKeep ==
    ASSUME NotifyInv, NEW i \in Instances,
           Start(i) \/ SessionEnds(i) \/ Rename(i) \/ Cleanup(i)
    PROVE  InstanceInv(i)'
<1>0. InstanceInv(i) /\ TypeOK
  BY DEF NotifyInv
<1>1. ~Undisturbed(i)'
  BY <1>0 DEF InstanceInv, OneCallback, TypeOK, Undisturbed, Current, Start, SessionEnds,
              Rename, Cleanup, process
<1>2. ScriptsOf(i)' = ScriptsOf(i) /\ UNCHANGED <<call, missed>>
  BY DEF ScriptsOf, Start, SessionEnds, Rename, Cleanup, process, history
<1>3. OneCallback(i)'
  BY <1>0, <1>2 DEF InstanceInv, OneCallback, TypeOK, Start, SessionEnds, Rename, Cleanup,
                    process
<1>4. OnlyEnabled(i)'
  BY <1>0, <1>2 DEF InstanceInv, OnlyEnabled, TypeOK, Start, SessionEnds, Rename, Cleanup,
                    uci
<1>5. InstalledOrPending(i)'
  BY <1>0, <1>2 DEF InstanceInv, InstalledOrPending, TypeOK, Start, SessionEnds, Rename,
                    Cleanup, uci, process
<1>. QED
  BY <1>1, <1>3, <1>4, <1>5
     DEF InstanceInv, NobodyElse, StatusFollows, ToldOrAhead, StagedOrAhead

\* A command of a killed script lands, or is lost.
LEMMA LateStepKeeps ==
    ASSUME NotifyInv, NEW r \in late, Land(r) \/ Lose(r)
    PROVE  InstanceInv(r.inst)'
<1>. DEFINE i == r.inst
<1>0. r \in Request /\ i \in Instances /\ r.pair \in Pairs
  BY DEF NotifyInv, TypeOK, Request
<1>1. InstanceInv(i) /\ TypeOK /\ r \in LateOf(i)
  BY <1>0 DEF NotifyInv, LateOf
<1>. HIDE DEF i
<1>2. /\ UNCHANGED <<configured, up, call, served, scripts, status, view, committed,
                     haunted, troubled, missed>>
      /\ ScriptsOf(i)' = ScriptsOf(i) /\ LateOf(i)' \subseteq LateOf(i)
      /\ Current(i)' = Current(i) /\ Undisturbed(i)' = Undisturbed(i)
      /\ loaded'[i] \in {loaded[i], committed[i]}
  BY DEF Land, Lose, process, uci, history, ScriptsOf, LateOf, Current, Undisturbed
<1>3. \A t \in Targets : told'[i][t] = told[i][t] \/ told'[i][t] = r.pair
  <2>1. CASE r.to = "reload" \/ Lose(r)
    BY <2>1 DEF Land, Lose
  <2>2. CASE r.to # "reload" /\ Land(r)
    <3>1. r.to \in Targets /\ told' = [told EXCEPT ![r.inst][r.to] = r.pair]
      BY <1>0, <2>2 DEF Request, Land
    <3>. QED
      BY <1>0, <1>1, <3>1, ToldUpdate DEF TypeOK, i
  <2>. QED
    BY <2>1, <2>2
<1>4. Undisturbed(i) => r.pair = Current(i)
  BY <1>1 DEF InstanceInv, NobodyElse
<1>5. OneCallback(i)' /\ OnlyEnabled(i)'
  BY <1>1, <1>2 DEF OneCallback, OnlyEnabled, InstanceInv
<1>6. NobodyElse(i)'
  BY <1>1, <1>2 DEF NobodyElse, InstanceInv
<1>7. StatusFollows(i)' /\ ToldOrAhead(i)'
  BY <1>1, <1>2, <1>3, <1>4 DEF StatusFollows, ToldOrAhead, InstanceInv, Targets
<1>8. StagedOrAhead(i)' /\ InstalledOrPending(i)'
  BY <1>1, <1>2 DEF StagedOrAhead, InstalledOrPending, InstanceInv
<1>. QED
  BY <1>5, <1>6, <1>7, <1>8 DEF InstanceInv, i

\* A script goes on to what is enabled, and passes no target that is enabled.
LEMMA FollowsEnabled ==
    ASSUME NEW p \in Script, NEW w, Follows(p, w),
           p.pc \in RuleWork => "rule" \in Features[p.inst]
    PROVE  /\ w \in Targets => w \in Features[p.inst]
           /\ w \in RuleWork => "rule" \in Features[p.inst]
<1>1. \A v \in {"rule", "cloudflare", "qbittorrent", "webhook", "inline"} :
        After(p, v) \in Features[p.inst] \cup {"exit"} /\ After(p, v) \in Targets \cup {"rule", "exit"}
  BY AfterIs
<1>2. StepFrom(p.inst, 1) \in Features[p.inst] \cup {"exit"}
  BY StepFromIs DEF Script
<1>3. Features[p.inst] \cup {"exit"} \subseteq Targets \cup {"rule", "exit"}
  BY FeaturesAssumption DEF Script, Optional
<1>. QED
  BY <1>1, <1>2, <1>3 DEF Follows, RuleOrder, RuleWork, Targets

LEMMA FollowsAhead ==
    ASSUME NEW p \in Script, NEW w, Follows(p, w),
           NEW t \in Features[p.inst] \cap Targets, Ahead(p.pc, t), p.pc # t
    PROVE  Ahead(w, t)
<1>1. Work[t] \in 2..5 /\ \A v \in Targets : v # t => Work[v] # Work[t] /\ Work[v] \in 2..5
  BY WorkTable DEF Targets
<1>2. ASSUME NEW v \in {"rule", "cloudflare", "qbittorrent", "webhook", "inline"},
             Work[v] < Work[t], w = After(p, v)
      PROVE  Ahead(w, t)
  <2>1. Work[w] <= Work[t] /\ w \in Targets \cup {"rule", "exit"}
    BY <1>2, AfterIs
  <2>. QED
    BY <2>1 DEF Ahead, RuleWork
<1>3. CASE w = StepFrom(p.inst, 1)
  <2>1. w \in Features[p.inst] \cup {"exit"} /\ Work[w] <= Work[t]
    BY <1>1, <1>3, StepFromIs DEF Script
  <2>2. w \in Targets \cup {"rule", "exit"}
    BY <2>1, FeaturesAssumption DEF Script, Optional
  <2>. QED
    BY <2>1, <2>2 DEF Ahead, RuleWork
<1>4. CASE <<p.pc, w>> \in RuleOrder
  BY <1>4 DEF RuleOrder, Ahead, RuleWork
<1>5. CASE p.pc \in RuleWork /\ w = After(p, "rule")
  BY <1>1, <1>2, <1>5, WorkTable
<1>6. CASE p.pc = "qbittorrent" /\ w \in {"reported", "refused"}
  BY <1>1, <1>6, WorkTable DEF Ahead, Targets, RuleWork
<1>7. CASE p.pc \in Targets \ {"qbittorrent"} /\ w = After(p, p.pc)
  <2>1. Work[p.pc] < Work[t]
    BY <1>1, <1>7 DEF Ahead, Targets, RuleWork
  <2>. QED
    BY <1>2, <1>7, <2>1 DEF Targets
<1>8. CASE p.pc \in {"reported", "refused"} /\ w = After(p, "qbittorrent")
  <2>1. Work["qbittorrent"] < Work[t]
    BY <1>8 DEF Ahead, Targets, RuleWork
  <2>. QED
    BY <1>2, <1>8, <2>1
<1>. QED
  BY <1>3, <1>4, <1>5, <1>6, <1>7, <1>8 DEF Follows

\* What a step of a script tells its targets, and what it skips.
LEMMA ScriptTells ==
    ASSUME TypeOK, NEW p \in scripts, ScriptStep(p)
    PROVE  /\ \A t \in Targets :
                 told'[p.inst][t] = told[p.inst][t] \/ told'[p.inst][t] = p.pair
           /\ p.pc \in Targets /\ ~troubled'[p.inst] =>
                 \/ told'[p.inst][p.pc] = p.pair
                 \/ p.pc = "webhook" /\ p.inst \in SkipUnchanged
           /\ Tell(p) => told'[p.inst][p.pc] = p.pair
<1>. DEFINE i == p.inst
            g == [told EXCEPT ![p.inst][p.pc] = p.pair]
<1>0. p \in Script /\ i \in Instances /\ p.pair \in Pairs
  BY DEF TypeOK, Script
<1>1. p.pc \in Targets =>
        g[i][p.pc] = p.pair /\ \A t \in Targets : t # p.pc => g[i][t] = told[i][t]
  BY <1>0, ToldUpdate DEF TypeOK
<1>2. Tell(p) => p.pc \in Targets /\ told' = g
  BY DEF Tell, Tells
<1>3. TellFails(p) => p.pc \in Targets /\ told' \in {told, g} /\ troubled'[i]
  BY <1>0 DEF TellFails, Tells, FailsTo, TypeOK
<1>. HIDE DEF g, i
<1>4. SkipWebhook(p) => told' = told /\ p.pc = "webhook" /\ p.inst \in SkipUnchanged
  BY DEF SkipWebhook, Unchanged
<1>5. ~(Tell(p) \/ TellFails(p) \/ SkipWebhook(p)) => told' = told /\ p.pc \notin Targets
  BY DEF ScriptStep, ReadStatus, RuleUnchanged, RuleChanged, DeleteRule, SetRule,
     AcceptRule, SetFails, CommitRule, CommitFails, Reload, NoReload, Report, Exit, Targets
<1>. QED
  BY <1>1, <1>2, <1>3, <1>4, <1>5 DEF i
\* What a step of a script does to the rest of its instance.
Acts(p, i) ==
    /\ p \in Script /\ p \in ScriptsOf(i) /\ p.inst = i /\ i \in Instances
    /\ call'[i] = call[i] /\ served'[i] = served[i] /\ up'[i] = up[i]
    /\ Current(i)' = Current(i) /\ Undisturbed(i)' = Undisturbed(i)
    /\ LateOf(i)' = LateOf(i)
    /\ Undisturbed(i) => p.pair = Current(i)
    /\ troubled[i] => troubled'[i]
    /\ \/ \E q : /\ Becomes(p, q) /\ (q.pc = "reported" => Tell(p) /\ p.pc = "qbittorrent")
                 /\ ScriptsOf(i)' = (ScriptsOf(i) \ {p}) \cup {q}
       \/ p.pc = "exit" /\ ScriptsOf(i)' = ScriptsOf(i) \ {p}

LEMMA ScriptActs ==
    ASSUME NotifyInv, NEW p \in scripts, ScriptStep(p), NEW i, i = p.inst
    PROVE  Acts(p, i)
<1>0. TypeOK /\ p \in Script /\ i \in Instances /\ p \in ScriptsOf(i)
  BY DEF NotifyInv, TypeOK, Script, ScriptsOf
<1>1. UNCHANGED <<configured, up, call, served, late, haunted>>
  BY <1>0, ScriptMoves DEF process
<1>2. Current(i)' = Current(i) /\ Undisturbed(i)' = Undisturbed(i) /\ LateOf(i)' = LateOf(i)
  BY <1>1 DEF Current, Undisturbed, LateOf
<1>3. Undisturbed(i) => p.pair = Current(i)
  <2>1. InstanceInv(i)
    BY <1>0 DEF NotifyInv
  <2>2. Undisturbed(i) => call[i] = p.pair
    BY <1>0, <2>1 DEF InstanceInv, NobodyElse, OneCallback
  <2>3. p.pair # None
    BY <1>0, NoneAssumption DEF Script
  <2>. QED
    BY <2>2, <2>3 DEF Current
<1>4. troubled[i] => troubled'[i]
  BY <1>0 DEF TypeOK, ScriptStep, ReadStatus, RuleUnchanged, RuleChanged, DeleteRule,
     SetRule, AcceptRule, SetFails, CommitRule, CommitFails, Reload, NoReload,
     SkipWebhook, Tell, TellFails, Report, Exit, FailsTo, history
<1>5. \/ \E q : /\ Becomes(p, q) /\ (q.pc = "reported" => Tell(p) /\ p.pc = "qbittorrent")
               /\ ScriptsOf(i)' = (ScriptsOf(i) \ {p}) \cup {q}
      \/ p.pc = "exit" /\ ScriptsOf(i)' = ScriptsOf(i) \ {p}
  BY <1>0, ScriptMoves DEF Becomes, ScriptsOf
<1>. QED
  BY <1>0, <1>1, <1>2, <1>3, <1>4, <1>5 DEF Acts

LEMMA ScriptKeepsCallback ==
    ASSUME NotifyInv, NEW p \in scripts, ScriptStep(p), NEW i, Acts(p, i)
    PROVE  OneCallback(i)' /\ NobodyElse(i)'
<1>1. OneCallback(i) /\ NobodyElse(i)
  BY DEF NotifyInv, InstanceInv, Acts
<1>2. \A q \in ScriptsOf(i)' :
        \E o \in ScriptsOf(i) : q.pair = o.pair /\ q.orphan = o.orphan
  BY DEF Acts, Becomes
<1>. QED
  BY <1>1, <1>2 DEF Acts, OneCallback, NobodyElse

LEMMA ScriptKeepsEnabled ==
    ASSUME NotifyInv, NEW p \in scripts, ScriptStep(p), NEW i, Acts(p, i)
    PROVE  OnlyEnabled(i)'
<1>1. OnlyEnabled(i)
  BY DEF NotifyInv, InstanceInv, Acts
<1>2. p.pc \in RuleWork => "rule" \in Features[i]
  BY <1>1 DEF OnlyEnabled, Acts
<1>3. \A q \in ScriptsOf(i)' :
          /\ q.pc \in Targets => q.pc \in Features[i]
          /\ q.pc \in RuleWork => "rule" \in Features[i]
  BY <1>1, <1>2, FollowsEnabled DEF OnlyEnabled, Acts, Becomes
<1>4. p.pc \notin RuleWork => UNCHANGED <<view, committed, loaded>>
  BY DEF RuleWork, ScriptStep, ReadStatus, RuleUnchanged, RuleChanged, DeleteRule,
     SetRule, AcceptRule, SetFails, CommitRule, CommitFails, Reload, NoReload,
     SkipWebhook, Tell, TellFails, Report, Exit, uci
<1>. QED
  BY <1>1, <1>2, <1>3, <1>4 DEF OnlyEnabled

LEMMA ScriptKeepsStatus ==
    ASSUME NotifyInv, NEW p \in scripts, ScriptStep(p), NEW i, Acts(p, i)
    PROVE  StatusFollows(i)'
<1>1. StatusFollows(i) /\ TypeOK
  BY DEF NotifyInv, InstanceInv, Acts
<1>2. SUFFICES ASSUME Undisturbed(i)
               PROVE  /\ status'[i].pair = Current(i)
                      /\ status'[i].says = "set" => told'[i]["qbittorrent"] = Current(i)
                      /\ \A q \in ScriptsOf(i)' :
                            q.pc = "reported" => told'[i]["qbittorrent"] = Current(i)
  BY DEF StatusFollows, Acts
<1>3. p.pair = Current(i) /\ p.inst = i /\ i \in Instances
  BY <1>2 DEF Acts
<1>4. told[i]["qbittorrent"] = Current(i) => told'[i]["qbittorrent"] = Current(i)
  BY <1>1, <1>3, ScriptTells DEF Targets
<1>5. \A q \in ScriptsOf(i)' :
        q.pc = "reported" => told'[i]["qbittorrent"] = Current(i)
  BY <1>1, <1>2, <1>3, <1>4, ScriptTells DEF Acts, StatusFollows
<1>6. CASE ReadStatus(p)
  BY <1>1, <1>3, <1>5, <1>6 DEF ReadStatus, TypeOK
<1>7. CASE Report(p)
  <2>1. p.pc = "reported" => told[i]["qbittorrent"] = Current(i)
    BY <1>1, <1>2 DEF StatusFollows, Acts
  <2>2. /\ status'[i].pair = Current(i)
        /\ status'[i].says = "set" => p.pc = "reported"
    BY <1>1, <1>3, <1>7 DEF Report, TypeOK
  <2>. QED
    BY <1>4, <1>5, <2>1, <2>2
<1>8. CASE ~(ReadStatus(p) \/ Report(p))
  <2>1. status' = status
    BY <1>8 DEF ScriptStep, RuleUnchanged, RuleChanged, DeleteRule,
       SetRule, AcceptRule, SetFails, CommitRule, CommitFails, Reload, NoReload,
       SkipWebhook, Tell, TellFails, Exit
  <2>. QED
    BY <1>1, <1>2, <1>4, <1>5, <2>1 DEF StatusFollows
<1>. QED
  BY <1>6, <1>7, <1>8

LEMMA ScriptKeepsTold ==
    ASSUME NotifyInv, NEW p \in scripts, ScriptStep(p), NEW i, Acts(p, i)
    PROVE  ToldOrAhead(i)'
<1>1. ToldOrAhead(i) /\ TypeOK
  BY DEF NotifyInv, InstanceInv, Acts
<1>2. SUFFICES ASSUME Undisturbed(i), ~troubled'[i], NEW t \in Features[i] \cap Targets,
                      ~(t = "webhook" /\ i \in SkipUnchanged), told'[i][t] # Current(i)
               PROVE  \E q \in ScriptsOf(i)' : Ahead(q.pc, t)
  BY DEF ToldOrAhead, Acts
<1>3. p.pair = Current(i) /\ p.inst = i /\ p \in Script
  BY <1>2 DEF Acts
<1>4. told[i][t] # Current(i) /\ p.pc # t
  BY <1>1, <1>2, <1>3, ScriptTells
<1>5. PICK o \in ScriptsOf(i) : Ahead(o.pc, t)
  BY <1>1, <1>2, <1>4 DEF ToldOrAhead, Acts
<1>6. CASE o # p
  BY <1>5, <1>6 DEF Acts
<1>7. CASE o = p
  <2>1. p.pc # "exit"
    BY <1>5, <1>7, WorkTable DEF Ahead, Targets, RuleWork
  <2>2. PICK q : Becomes(p, q) /\ q \in ScriptsOf(i)'
    BY <2>1 DEF Acts
  <2>3. Ahead(q.pc, t)
    BY <1>2, <1>3, <1>4, <1>5, <1>7, <2>2, FollowsAhead DEF Becomes
  <2>. QED
    BY <2>2, <2>3
<1>. QED
  BY <1>6, <1>7

\* What a script does to the section of its instance.
LEMMA ScriptStages ==
    ASSUME TypeOK, NEW p \in scripts, ScriptStep(p), NEW i, i = p.inst
    PROVE  /\ SetRule(p) => view'[i].pair = p.pair /\ view'[i].accept = view[i].accept
           /\ AcceptRule(p) => view'[i] = [pair |-> view[i].pair, accept |-> TRUE]
           /\ DeleteRule(p) => view'[i] = NoRule
           /\ ~(SetRule(p) \/ AcceptRule(p) \/ DeleteRule(p)) => view'[i] = view[i]
           /\ view'[i] \in Section
<1>0. p \in Script /\ i \in Instances /\ p.pair \in Pairs /\ view \in [Instances -> Section]
  BY DEF TypeOK, Script
<1>1. ASSUME SetRule(p)
      PROVE  /\ view'[i].pair = p.pair /\ view'[i].accept = view[i].accept
             /\ view'[i] \in Section
  <2>1. view'[i] = [view[i] EXCEPT !.pair = p.pair]
    BY <1>0, <1>1 DEF SetRule
  <2>2. view[i] \in Section
    BY <1>0
  <2>. QED
    BY <1>0, <2>1, <2>2 DEF Section
<1>2. ASSUME AcceptRule(p)
      PROVE  view'[i] = [pair |-> view[i].pair, accept |-> TRUE] /\ view'[i] \in Section
  <2>1. /\ view'[i] \in Section
        /\ view'[i].pair = view[i].pair /\ view'[i].accept = TRUE
    <3>1. view'[i] = [view[i] EXCEPT !.accept = TRUE]
      BY <1>0, <1>2 DEF AcceptRule
    <3>2. view[i] \in Section
      BY <1>0
    <3>. QED
      BY <3>1, <3>2 DEF Section
  <2>. QED
    BY <2>1, SectionIs
<1>3. ASSUME DeleteRule(p)
      PROVE  view'[i] = NoRule /\ view'[i] \in Section
  BY <1>0, <1>3 DEF DeleteRule, NoRule, Section
<1>4. ASSUME ~(SetRule(p) \/ AcceptRule(p) \/ DeleteRule(p))
      PROVE  view' = view
  BY <1>4 DEF ScriptStep, ReadStatus, RuleUnchanged, RuleChanged, SetFails, CommitRule,
     CommitFails, Reload, NoReload, SkipWebhook, Tell, TellFails, Report, Exit, uci
<1>5. ~(SetRule(p) /\ AcceptRule(p)) /\ ~(SetRule(p) /\ DeleteRule(p))
      /\ ~(AcceptRule(p) /\ DeleteRule(p))
  BY DEF SetRule, AcceptRule, DeleteRule
<1>. QED
  BY <1>0, <1>1, <1>2, <1>3, <1>4

\* What a script goes on to after a step of its work on the rule, and that it has
\* been interrupted if this is not the next step of it.
LEMMA ScriptRuleOrder ==
    ASSUME NotifyInv, NEW p \in scripts, ScriptStep(p), NEW i, i = p.inst
    PROVE  /\ p.pc = "start" => ReadStatus(p)
           /\ p.pc = "rule" => RuleChanged(p) \/ RuleUnchanged(p)
           /\ p.pc = "delete" => DeleteRule(p)
           /\ p.pc = "set" => SetRule(p) \/ troubled'[i]
           /\ p.pc = "accept" => AcceptRule(p) \/ (troubled'[i] /\ missed'[i])
           /\ p.pc = "commit" => CommitRule(p) \/ missed'[i]
           /\ p.pc = "reload" => Reload(p) \/ missed'[i]
           /\ missed[i] => missed'[i] \/ DeleteRule(p)
<1>0. TypeOK /\ p \in Script /\ i \in Instances
  BY DEF NotifyInv, TypeOK, Script
<1>. QED
  BY <1>0 DEF ScriptStep, ReadStatus, RuleUnchanged, RuleChanged, DeleteRule, SetRule,
     AcceptRule, SetFails, CommitRule, CommitFails, Reload, NoReload, SkipWebhook,
     Tell, TellFails, Tells, Report, Exit, FailsTo, InstallPending, Targets, TypeOK, history

LEMMA ScriptKeepsStaged ==
    ASSUME NotifyInv, NEW p \in scripts, ScriptStep(p), NEW i, Acts(p, i)
    PROVE  StagedOrAhead(i)'
<1>1. StagedOrAhead(i) /\ OnlyEnabled(i) /\ TypeOK /\ i = p.inst /\ i \in Instances
      /\ view[i] \in Section
  BY DEF NotifyInv, InstanceInv, Acts, TypeOK
<1>. DEFINE Staging(o, v) == \/ o.pc \in {"start", "rule", "delete", "set"}
                             \/ o.pc = "accept" /\ v.pair = o.pair
<1>2. SUFFICES ASSUME Undisturbed(i), ~troubled'[i], "rule" \in Features[i],
                      view'[i] # Rule(Current(i))
               PROVE  \E q \in ScriptsOf(i)' : Staging(q, view'[i])
  BY DEF StagedOrAhead, Acts
<1>3. p.pair = Current(i)
  BY <1>2 DEF Acts
<1>10. ~troubled[i]
  BY <1>2 DEF Acts
<1>4. ASSUME NEW w \in {"start", "rule", "delete", "set", "accept"}, Goes(p, w),
             w = "accept" => view'[i].pair = p.pair
      PROVE  \E q \in ScriptsOf(i)' : Staging(q, view'[i])
  <2>. DEFINE q == [p EXCEPT !.pc = w]
  <2>1. q.pc = w /\ q.inst = i /\ q.pair = p.pair
    BY <1>1, <1>4, MovedIs, AllCommands DEF Acts
  <2>2. q \in scripts'
    BY <1>4 DEF Goes
  <2>. HIDE DEF q
  <2>. QED
    <3>1. q \in ScriptsOf(i)'
      BY <2>1, <2>2 DEF ScriptsOf
    <3>2. Staging(q, view'[i])
      BY <1>4, <2>1
    <3>. QED
      BY <3>1, <3>2
<1>5. CASE DeleteRule(p)
  BY <1>4, <1>5 DEF DeleteRule
<1>6. CASE SetRule(p)
  <2>1. view'[i].pair = p.pair
    BY <1>1, <1>6, ScriptStages
  <2>. QED
    BY <1>4, <1>6, <2>1 DEF SetRule
<1>7. CASE AcceptRule(p)
  <2>1. view'[i] = [pair |-> view[i].pair, accept |-> TRUE] /\ p.pc = "accept"
    BY <1>1, <1>7, ScriptStages DEF AcceptRule
  <2>2. view[i].pair # Current(i)
    BY <1>2, <2>1 DEF Rule
  <2>3. view[i] # Rule(Current(i))
    BY <2>2 DEF Rule
  <2>4. PICK o \in ScriptsOf(i) : Staging(o, view[i])
    BY <1>1, <1>2, <1>10, <2>3 DEF StagedOrAhead
  <2>5. o # p
    BY <1>3, <2>1, <2>2, <2>4
  <2>6. o \in ScriptsOf(i)'
    BY <2>5 DEF Acts
  <2>. QED
    BY <2>1, <2>4, <2>6
<1>8. CASE ~(SetRule(p) \/ AcceptRule(p) \/ DeleteRule(p))
  <2>1. view'[i] = view[i]
    BY <1>1, <1>8, ScriptStages
  <2>2. PICK o \in ScriptsOf(i) : Staging(o, view[i])
    BY <1>1, <1>2, <1>10, <2>1 DEF StagedOrAhead
  <2>3. CASE o # p
    BY <2>1, <2>2, <2>3 DEF Acts
  <2>4. CASE o = p /\ ReadStatus(p)
    <3>1. PICK q : Becomes(p, q) /\ q \in ScriptsOf(i)'
      BY <2>4 DEF Acts, ReadStatus
    <3>2. q.pc = "rule"
      <4>1. q.pc = StepFrom(i, 1)
        BY <1>1, <2>4, <3>1 DEF Becomes, Follows, RuleOrder, RuleWork, Targets, ReadStatus
      <4>2. q.pc \in Features[i] \cup {"exit"} /\ Work[q.pc] <= 1
        BY <1>1, <1>2, <4>1, StepFromIs, WorkTable
      <4>3. q.pc \in Optional \cup {"exit"}
        BY <1>1, <4>2, FeaturesAssumption
      <4>. QED
        BY <4>2, <4>3, WorkTable DEF Optional, Targets
    <3>. QED
      BY <3>1, <3>2
  <2>5. CASE o = p /\ ~ReadStatus(p)
    <3>1. RuleChanged(p) \/ RuleUnchanged(p)
      BY <1>1, <1>2, <1>8, <2>2, <2>5, ScriptRuleOrder
    <3>2. ~RuleUnchanged(p)
      BY <1>1, <1>2, <1>3, <2>1 DEF RuleUnchanged
    <3>. QED
      BY <1>4, <3>1, <3>2 DEF RuleChanged
  <2>. QED
    BY <2>3, <2>4, <2>5
<1>. QED
  BY <1>5, <1>6, <1>7, <1>8

LEMMA ScriptKeepsInstalled ==
    ASSUME NotifyInv, NEW p \in scripts, ScriptStep(p), NEW i, Acts(p, i)
    PROVE  InstalledOrPending(i)'
<1>1. InstalledOrPending(i) /\ TypeOK /\ i = p.inst /\ i \in Instances
      /\ view[i] \in Section
  BY DEF NotifyInv, InstanceInv, Acts, TypeOK
<1>2. SUFFICES ASSUME configured'[i], view'[i].accept, ~missed'[i]
               PROVE  \/ \E q \in ScriptsOf(i)' : q.pc \in {"accept", "commit"}
                      \/ /\ committed'[i] = view'[i]
                         /\ \/ loaded'[i] = view'[i]
                            \/ \E q \in ScriptsOf(i)' : q.pc = "reload"
  BY DEF InstalledOrPending
<1>3. ASSUME NEW w \in {"accept", "commit", "reload"}, Goes(p, w)
      PROVE  \E q \in ScriptsOf(i)' : q.pc = w
  <2>. DEFINE q == [p EXCEPT !.pc = w]
  <2>1. q.pc = w /\ q.inst = i
    BY <1>1, <1>3, MovedIs, AllCommands DEF Acts
  <2>2. q \in scripts'
    BY <1>3 DEF Goes
  <2>. HIDE DEF q
  <2>. QED
    BY <2>1, <2>2 DEF ScriptsOf
<1>4. configured[i]
  BY <1>1, <1>2, ScriptMoves DEF process
<1>5. CASE DeleteRule(p)
  <2>1. view'[i] = NoRule
    BY <1>1, <1>5, ScriptStages
  <2>. QED
    BY <1>2, <2>1 DEF NoRule
<1>6. CASE SetRule(p)
  BY <1>3, <1>6 DEF SetRule
<1>7. CASE AcceptRule(p)
  BY <1>3, <1>7 DEF AcceptRule
<1>8. CASE CommitRule(p)
  <2>1. view' = view /\ committed' = view /\ Goes(p, "reload")
    BY <1>8 DEF CommitRule
  <2>. QED
    BY <1>3, <2>1
<1>9. CASE Reload(p)
  <2>1. view' = view /\ committed' = committed /\ loaded' = committed /\ p.pc = "reload"
    BY <1>9 DEF Reload, uci
  <2>2. ~missed[i]
    BY <1>1, <1>2, <1>9, ScriptRuleOrder DEF Reload, DeleteRule
  <2>3. CASE \E o \in ScriptsOf(i) : o.pc \in {"accept", "commit"}
    BY <2>1, <2>3 DEF Acts
  <2>4. CASE committed[i] = view[i]
    BY <2>1, <2>4
  <2>. QED
    BY <1>1, <1>2, <1>4, <2>1, <2>2, <2>3, <2>4 DEF InstalledOrPending
<1>10. CASE ~(DeleteRule(p) \/ SetRule(p) \/ AcceptRule(p) \/ CommitRule(p) \/ Reload(p))
  <2>1. p.pc \notin {"accept", "commit", "reload"} /\ ~missed[i]
    BY <1>1, <1>2, <1>10, ScriptRuleOrder
  <2>2. view'[i] = view[i]
    BY <1>1, <1>10, ScriptStages
  <2>3. committed' = committed /\ loaded' = loaded
    BY <1>10 DEF ScriptStep, ReadStatus, RuleUnchanged, RuleChanged, SetFails,
       CommitFails, NoReload, SkipWebhook, Tell, TellFails, Report, Exit, uci
  <2>4. \A o \in ScriptsOf(i) : o # p => o \in ScriptsOf(i)'
    BY DEF Acts
  <2>. QED
    BY <1>1, <1>2, <1>4, <2>1, <2>2, <2>3, <2>4 DEF InstalledOrPending
<1>. QED
  BY <1>5, <1>6, <1>7, <1>8, <1>9, <1>10

-----------------------------------------------------------------------------
(* The theorems                                                            *)

LEMMA NotifyInvNext == NotifyInv /\ [Next]_vars => NotifyInv'
<1>1. SUFFICES ASSUME NotifyInv, [Next]_vars
               PROVE  NotifyInv'
  OBVIOUS
<1>2. TypeOK /\ TypeOK'
  BY <1>1, TypeStep DEF NotifyInv
<1>3. SUFFICES ASSUME NEW i \in Instances
               PROVE  InstanceInv(i)'
  BY <1>2 DEF NotifyInv
<1>4. InstanceInv(i)
  BY <1>1 DEF NotifyInv
<1>5. ASSUME NEW j \in Instances,
             \/ Start(j) \/ Announce(j) \/ Returns(j) \/ Timeout(j) \/ SessionEnds(j)
             \/ Down(j) \/ Rename(j) \/ Cleanup(j)
      PROVE  InstanceInv(i)'
  <2>1. CASE i = j
    BY <1>1, <1>5, <2>1, AnnounceKeeps, ReturnsKeeps, TimeoutKeeps, DownKeeps, OthersKeep
  <2>2. CASE i # j
    BY <1>2, <1>4, <1>5, <2>2, ProcessStepElsewhere, OtherInstance
  <2>. QED
    BY <2>1, <2>2
<1>6. ASSUME NEW p \in scripts, ScriptStep(p)
      PROVE  InstanceInv(i)'
  <2>1. CASE i = p.inst
    <3>1. Acts(p, i)
      BY <1>1, <1>6, <2>1, ScriptActs
    <3>. QED
      BY <1>1, <1>6, <3>1, ScriptKeepsCallback, ScriptKeepsEnabled, ScriptKeepsStatus,
         ScriptKeepsTold, ScriptKeepsStaged, ScriptKeepsInstalled DEF InstanceInv
  <2>2. CASE i # p.inst
    BY <1>2, <1>4, <1>6, <2>2, ScriptStepElsewhere, OtherInstance
  <2>. QED
    BY <2>1, <2>2
<1>7. ASSUME NEW r \in late, Land(r) \/ Lose(r)
      PROVE  InstanceInv(i)'
  <2>1. CASE i = r.inst
    BY <1>1, <1>7, <2>1, LateStepKeeps
  <2>2. CASE i # r.inst
    BY <1>2, <1>4, <1>7, <2>2, LateStepElsewhere, OtherInstance
  <2>. QED
    BY <2>1, <2>2
<1>8. CASE UNCHANGED vars
  <2>1. Unmoved(i) /\ Installs(i)
    BY <1>8 DEF vars, process, uci, history, Unmoved, Installs, ScriptsOf, LateOf
  <2>. QED
    BY <1>4, <2>1, OtherInstance
<1>. QED
  BY <1>1, <1>5, <1>6, <1>7, <1>8 DEF Next

LEMMA NotifyInvHolds == Spec => []NotifyInv
  BY NotifyInvInit, NotifyInvNext, PTL DEF Spec

\* No callback is under way once the session runs, and no script of it.
LEMMA SettledIs ==
    ASSUME NotifyInv, NEW i \in Instances, configured[i], served[i] # None, ~haunted[i]
    PROVE  Undisturbed(i) /\ Current(i) = served[i] /\ ScriptsOf(i) = {}
<1>1. InstanceInv(i) /\ TypeOK
  BY DEF NotifyInv
<1>2. call[i] = None
  BY <1>1 DEF InstanceInv, OneCallback
<1>3. Undisturbed(i) /\ Current(i) = served[i]
  BY <1>2 DEF Undisturbed, Current
<1>4. ASSUME NEW p \in ScriptsOf(i) PROVE FALSE
  <2>1. call[i] = p.pair
    BY <1>1, <1>3 DEF InstanceInv, NobodyElse, OneCallback
  <2>. QED
    BY <1>1, <1>2, <2>1, NoneAssumption DEF TypeOK, ScriptsOf, Script
<1>. QED
  BY <1>3, <1>4

\* The type invariant of the callbacks.
THEOREM TypeCorrect == Spec => []TypeOK
<1>. QED
  BY NotifyInvHolds, PTL DEF NotifyInv

\* Once notify.Run has returned undisturbed, the status file and every enabled
\* target name the mapping of the session.
THEOREM EverybodyInformed == Spec => []AnnouncedEverywhere
<1>1. NotifyInv => AnnouncedEverywhere
  <2>1. SUFFICES ASSUME NotifyInv, NEW i \in Instances, Settled(i)
                 PROVE  /\ status[i].pair = served[i]
                        /\ \A t \in Features[i] \cap Targets :
                             (t = "webhook" /\ i \in SkipUnchanged) \/ told[i][t] = served[i]
    BY DEF AnnouncedEverywhere
  <2>2. Undisturbed(i) /\ Current(i) = served[i] /\ ScriptsOf(i) = {}
    BY <2>1, SettledIs DEF Settled
  <2>3. InstanceInv(i)
    BY <2>1 DEF NotifyInv
  <2>. QED
    BY <2>1, <2>2, <2>3 DEF InstanceInv, StatusFollows, ToldOrAhead, Settled
<1>. QED
  BY <1>1, NotifyInvHolds, PTL

\* The port of a settled mapping is open, or a commit or reload was missed.
LEMMA InvPortIsOpen == NotifyInv => PortIsOpen
<1>1. SUFFICES ASSUME NotifyInv, NEW i \in Instances, Settled(i), "rule" \in Features[i]
               PROVE  /\ view[i] = Rule(served[i])
                      /\ \/ committed[i] = view[i] /\ loaded[i] = view[i]
                         \/ missed[i]
  BY DEF PortIsOpen
<1>2. Undisturbed(i) /\ Current(i) = served[i] /\ ScriptsOf(i) = {}
  BY <1>1, SettledIs DEF Settled
<1>3. InstanceInv(i)
  BY <1>1 DEF NotifyInv
<1>4. view[i] = Rule(served[i])
  BY <1>1, <1>2, <1>3 DEF InstanceInv, StagedOrAhead, Settled
<1>5. configured[i] /\ view[i].accept
  BY <1>1, <1>4 DEF Settled, Rule
<1>. QED
  BY <1>2, <1>3, <1>4, <1>5 DEF InstanceInv, InstalledOrPending

\* The port of a settled mapping is in UCI, and open unless a commit or a reload
\* of the rule did not happen.
THEOREM PortAlwaysOpen == Spec => []PortIsOpen
<1>. QED
  BY InvPortIsOpen, NotifyInvHolds, PTL

\* The status file says that qBittorrent listens on the port only if it does.
THEOREM StatusAlwaysTrue == Spec => []StatusTellsTruth
<1>1. NotifyInv => StatusTellsTruth
  <2>1. SUFFICES ASSUME NotifyInv, NEW i \in Instances,
                        configured[i] /\ served[i] # None /\ ~haunted[i],
                        status[i].says = "set"
                 PROVE  told[i]["qbittorrent"] = served[i]
    BY DEF StatusTellsTruth
  <2>. QED
    BY <2>1, SettledIs DEF NotifyInv, InstanceInv, StatusFollows
<1>. QED
  BY <1>1, NotifyInvHolds, PTL

\* Only what has been committed is installed, and what has been committed for a
\* settled mapping is its rule: no step of another closes the port.
THEOREM OpenPortStaysOpen == Spec => OpenStaysOpen
<1>. DEFINE Stays ==
        \A i \in Instances :
            Settled(i) /\ Settled(i)' /\ ~missed[i] /\ loaded[i] = Rule(served[i])
            => loaded'[i] = loaded[i]
<1>1. NotifyInv /\ [Next]_vars => [Stays]_vars
  <2>1. SUFFICES ASSUME NotifyInv, [Next]_vars, NEW i \in Instances, Settled(i), ~missed[i],
                        loaded[i] = Rule(served[i])
                 PROVE  loaded'[i] = loaded[i]
    OBVIOUS
  <2>2. committed[i] = loaded[i]
    <3>1. CASE "rule" \in Features[i]
      BY <2>1, <3>1, InvPortIsOpen DEF PortIsOpen
    <3>2. CASE "rule" \notin Features[i]
      BY <2>1, <3>2 DEF NotifyInv, InstanceInv, OnlyEnabled
    <3>. QED
      BY <3>1, <3>2
  <2>3. loaded' = loaded \/ loaded' = committed
    BY <2>1 DEF Next, Start, Announce, Returns, Timeout, SessionEnds, Down, Rename, Cleanup,
       ScriptStep, ReadStatus, RuleUnchanged, RuleChanged, DeleteRule, SetRule,
       AcceptRule, SetFails, CommitRule, CommitFails, Reload, NoReload, SkipWebhook,
       Tell, TellFails, Report, Exit, Land, Lose, vars
  <2>. QED
    BY <2>2, <2>3
<1>. QED
  BY <1>1, NotifyInvHolds, PTL DEF Spec, OpenStaysOpen

=============================================================================
