------------------------------- MODULE Service -------------------------------
(***************************************************************************)
(* The OpenWrt service: /etc/init.d/qnatter (start, stop, reload), procd's *)
(* table of instances, the qnatter-go processes it runs, the shared nft    *)
(* table `ip qnatter' and the files the script compares a new              *)
(* configuration with.  Several invocations of the script may run at once: *)
(* the script says so itself and guards reload, and only reload, with a    *)
(* lock of its own.                                                        *)
(*                                                                         *)
(* A process is followed only as far as the script can affect it: launched,*)
(* its rules installed, signalled, gone.  What happens inside it is the    *)
(* subject of module Engine.                                               *)
(***************************************************************************)
EXTENDS Naturals, FiniteSets

CONSTANTS
    Instances,     \* sections of type `instance'
    Prints,        \* contents a <slug>.runtime fingerprint can have
    Scripts,       \* invocations of the init script that can overlap
    Globals,       \* values of qnatter.global.enabled an edit may write
    Commands,      \* invocations other than reload: "boot", "start", "stop"
    EditsInScript, \* whether a commit may fall into a run of the script
    Off,           \* the instance is deleted or disabled, or there is no file
    MaxEdits,      \* bound: commits to /etc/config/qnatter
    MaxCalls,      \* bound: ifup events and commands typed by a user
    MaxFaults,     \* bound: failures of uci, of a write below /var/run
    MaxKills       \* bound: processes that die without releasing their rules

Free == "free"   \* nobody holds the lock

ASSUME OffAssumption == Off \notin Prints
ASSUME FreeAssumption == Free \notin Scripts
ASSUME GlobalsAssumption == Globals \subseteq {"on", "off", "missing"}
ASSUME BoundsAssumption == {MaxEdits, MaxCalls, MaxFaults, MaxKills} \subseteq Nat

VARIABLES
    config,        \* /etc/config/qnatter: global.enabled, hot_reload, instances
    dirty,         \* a commit whose reload has not been triggered yet
    list,          \* ${RUN_DIR}/.runtime-instances
    runtime,       \* ${RUN_DIR}/<slug>.runtime
    forgotten,     \* history: instances procd ran when a reload left them out of list,
    raced,         \* and those launched between the check and the flush of a start
    lock,          \* holder of ${QNATTER_LOCK_FILE}
    procd,         \* what procd has been told to run
    run,           \* procd's process of each instance
    old,           \* its predecessor, signalled and still closing
    rules,         \* who owns the rules in table `ip qnatter'
    pc, snap,      \* of each invocation: where it is, what config_load read,
    new,           \* the fingerprints phase 1 prepared,
    decl, ok,      \* what start_service declared and returned,
    nested,        \* and whether a reload runs it (QNATTER_RELOADING=1)
    budget

history == <<forgotten, raced>>
files == <<list, runtime, history>>
kernel == <<procd, run, old, rules>>
locals == <<pc, snap, new, decl, ok, nested>>
vars == <<config, dirty, files, lock, kernel, locals, budget>>

-----------------------------------------------------------------------------
MaybePrint == Prints \cup {Off}
Tables == [Instances -> MaybePrint]
Configs == [global : {"on", "off", "missing"}, hot : BOOLEAN, inst : Tables]
Nothing == [i \in Instances |-> Off]
Present(t) == {i \in Instances : t[i] # Off}

\* A section that config_get cannot find reads as "", which
\* qnatter_config_get_bool turns into 0.
Enabled(c) == c.global = "on"

Live == {"up", "forwarding"}
Owners == {"run", "old", "orphan"}

\* qnatter_backend_running: ubus knows a running instance or pidof finds one.
BackendRunning == \E i \in Instances : run[i] \in Live \/ old[i] \in Live

Spend(b) == budget[b] > 0 /\ budget' = [budget EXCEPT ![b] = @ - 1]

Goto(s, l) == pc' = [pc EXCEPT ![s] = l]

\* procd stops waiting for the processes of D: they get SIGTERM and close on
\* their own, their rules now those of a predecessor.  One predecessor of an
\* instance at a time is followed.
CanRetire(D) == \A i \in D : run[i] \in Live => old[i] = "none"
RetiredOld(D) == [i \in Instances |-> IF i \in D /\ run[i] \in Live THEN run[i] ELSE old[i]]
RetiredRules(D) ==
    [i \in Instances |->
        IF i \in D /\ "run" \in rules[i] THEN (rules[i] \ {"run"}) \cup {"old"} ELSE rules[i]]

Init ==
    /\ config \in [global : {"on"}, hot : BOOLEAN, inst : Tables]
    /\ dirty = ("boot" \notin Commands)
    /\ list = {} /\ runtime = Nothing /\ forgotten = {} /\ raced = {}
    /\ lock = Free
    /\ procd = Nothing
    /\ run = [i \in Instances |-> "none"] /\ old = [i \in Instances |-> "none"]
    /\ rules = [i \in Instances |-> {}]
    /\ pc \in {[s \in Scripts |-> "idle"],
              [s \in Scripts |-> IF s = CHOOSE t \in Scripts : TRUE THEN "check" ELSE "idle"]}
    /\ "boot" \notin Commands <=> \A s \in Scripts : pc[s] = "idle"
    /\ snap = [s \in Scripts |-> config]
    /\ new = [s \in Scripts |-> Nothing] /\ decl = [s \in Scripts |-> Nothing]
    /\ ok = [s \in Scripts |-> TRUE] /\ nested = [s \in Scripts |-> FALSE]
    /\ budget = [edits |-> MaxEdits, calls |-> MaxCalls, faults |-> MaxFaults, kills |-> MaxKills]

-----------------------------------------------------------------------------
(* The configuration: LuCI's Save & Apply, uci commit, toggle_instance,    *)
(* and whatever else changes a fingerprint, such as the device's address.  *)

MayEdit == Spend("edits") /\ (EditsInScript \/ \A s \in Scripts : pc[s] = "idle")

EditInstance(i, p) ==
    /\ MayEdit
    /\ config.inst[i] # p
    /\ config' = [config EXCEPT !.inst[i] = p]
    /\ dirty' = TRUE
    /\ UNCHANGED <<files, lock, kernel, locals>>

EditGlobal(g) ==
    /\ MayEdit
    /\ config.global # g
    /\ config' = [config EXCEPT !.global = g]
    /\ dirty' = TRUE
    /\ UNCHANGED <<files, lock, kernel, locals>>

\* Enabling an instance from the status page switches the service on too.
Toggle(i, p) ==
    /\ MayEdit
    /\ config.inst[i] = Off
    /\ config' = [config EXCEPT !.inst[i] = p, !.global = "on"]
    /\ dirty' = TRUE
    /\ UNCHANGED <<files, lock, kernel, locals>>

-----------------------------------------------------------------------------
(* reload_service                                                          *)

\* config_load, before the lock is taken.
LoadForReload(s) ==
    /\ pc[s] = "idle"
    /\ snap' = [snap EXCEPT ![s] = config]
    /\ nested' = [nested EXCEPT ![s] = TRUE]
    /\ Goto(s, IF Enabled(config) THEN "lock" ELSE "stop")
    /\ UNCHANGED <<config, files, lock, kernel, new, decl, ok>>

ReloadTriggered(s) == dirty /\ dirty' = FALSE /\ LoadForReload(s) /\ UNCHANGED budget

\* The hotplug script, for an interface some enabled instance is bound to.
Ifup(s) ==
    /\ Spend("calls")
    /\ Present(config.inst) # {}
    /\ LoadForReload(s)
    /\ UNCHANGED dirty

\* Slip: the lock is tried but the answer is ignored.
MutTakeLock(s) ==
    /\ pc[s] = "lock"
    /\ lock' = s
    /\ Goto(s, IF snap[s].hot THEN "hot" ELSE "prepare")
    /\ UNCHANGED <<config, dirty, files, kernel, snap, new, decl, ok, nested, budget>>

TakeLock(s) ==
    /\ pc[s] = "lock"
    /\ lock = Free
    /\ lock' = s
    /\ Goto(s, IF snap[s].hot THEN "hot" ELSE "prepare")
    /\ UNCHANGED <<config, dirty, files, kernel, snap, new, decl, ok, nested, budget>>

\* Slip: the invocation that does not get the lock removes it.
MutSkipReload(s) ==
    /\ pc[s] = "lock"
    /\ lock # Free
    /\ lock' = Free
    /\ Goto(s, "idle")
    /\ UNCHANGED <<config, dirty, files, kernel, snap, new, decl, ok, nested, budget>>

SkipReload(s) ==
    /\ pc[s] = "lock"
    /\ lock # Free
    /\ Goto(s, "idle")
    /\ UNCHANGED <<config, dirty, files, lock, kernel, snap, new, decl, ok, nested, budget>>

\* qnatter_hot_reload_service reads the configuration again.
HotLoad(s) ==
    /\ pc[s] = "hot"
    /\ snap' = [snap EXCEPT ![s] = config]
    /\ Goto(s, "compare")
    /\ UNCHANGED <<config, dirty, files, lock, kernel, new, decl, ok, nested, budget>>

\* Slip: only the fingerprints are compared, not the list of instances.
MutSameAsFiles(c) == \A i \in Present(c.inst) : runtime[i] = c.inst[i]

SameAsFiles(c) ==
    /\ Present(c.inst) = list
    /\ \A i \in Present(c.inst) : runtime[i] = c.inst[i]

HotReload(s) ==
    /\ pc[s] = "compare"
    /\ SameAsFiles(snap[s])
    /\ lock' = Free
    /\ Goto(s, "idle")
    /\ UNCHANGED <<config, dirty, files, kernel, snap, new, decl, ok, nested, budget>>

NotHot(s) ==
    /\ pc[s] = "compare"
    /\ ~SameAsFiles(snap[s])
    /\ Goto(s, "prepare")
    /\ UNCHANGED <<config, dirty, files, lock, kernel, snap, new, decl, ok, nested, budget>>

\* Its route slots, its temporary directory or a fingerprint fails: the reload
\* goes on as a full one.
HotReloadFails(s) ==
    /\ pc[s] = "compare"
    /\ Spend("faults")
    /\ Goto(s, "prepare")
    /\ UNCHANGED <<config, dirty, files, lock, kernel, snap, new, decl, ok, nested>>

\* Phase 1, on what this invocation has read; a failing instance ends it.
PrepareFingerprints(s) ==
    /\ pc[s] = "prepare"
    /\ new' = [new EXCEPT ![s] = snap[s].inst]
    /\ Goto(s, "delete")
    /\ UNCHANGED <<config, dirty, files, lock, kernel, snap, decl, ok, nested, budget>>

PrepareFingerprintsFails(s) ==
    /\ pc[s] = "prepare"
    /\ Spend("faults")
    /\ lock' = Free
    /\ Goto(s, "idle")
    /\ UNCHANGED <<config, dirty, files, kernel, snap, new, decl, ok, nested>>

\* Phases 2 and 3: removed instances, and those with another fingerprint.
Removed(s) == {i \in list : new[s][i] = Off /\ runtime[i] # Off}
Reprinted(s) == {i \in Present(new[s]) : runtime[i] \notin {Off, new[s][i]}}

DeleteInstances(s) ==
    LET D == Removed(s) \cup Reprinted(s) IN
    /\ pc[s] = "delete"
    /\ CanRetire(D)
    /\ procd' = [i \in Instances |-> IF i \in D THEN Off ELSE procd[i]]
    /\ run' = [i \in Instances |-> IF i \in D THEN "none" ELSE run[i]]
    /\ old' = RetiredOld(D)
    /\ rules' = RetiredRules(D)
    /\ Goto(s, IF Present(new[s]) = {} THEN "flush" ELSE "restart")
    /\ UNCHANGED <<config, dirty, files, lock, snap, new, decl, ok, nested, budget>>

FlushEmpty(s) ==
    /\ pc[s] = "flush"
    /\ rules' = [i \in Instances |-> {}]
    /\ Goto(s, "restart")
    /\ UNCHANGED <<config, dirty, files, lock, procd, run, old, snap, new, decl, ok, nested, budget>>

\* Phase 4: QNATTER_RELOADING=1 /etc/init.d/qnatter start, a process of its own.
Restart(s) ==
    /\ pc[s] = "restart"
    /\ snap' = [snap EXCEPT ![s] = config]
    /\ decl' = [decl EXCEPT ![s] = Nothing]
    /\ ok' = [ok EXCEPT ![s] = TRUE]
    /\ Goto(s, IF Enabled(config) THEN "declare" ELSE "set")
    /\ UNCHANGED <<config, dirty, files, lock, kernel, new, nested, budget>>

\* Slip: a reload that fails returns without giving the lock back.
MutPublish(s) ==
    /\ pc[s] = "publish"
    /\ list' = IF ok[s] THEN Present(new[s]) ELSE list
    /\ forgotten' = forgotten \cup (Present(procd) \ list')
    /\ UNCHANGED lock
    /\ Goto(s, "idle")
    /\ UNCHANGED <<config, dirty, runtime, raced, kernel, snap, new, decl, ok, nested, budget>>

\* The list phase 1 made is published once the nested start has returned, over
\* the one that start has written from what it has read itself.
Publish(s) ==
    /\ pc[s] = "publish"
    /\ list' = IF ok[s] THEN Present(new[s]) ELSE list
    /\ forgotten' = forgotten \cup (Present(procd) \ list')
    /\ lock' = Free
    /\ Goto(s, "idle")
    /\ UNCHANGED <<config, dirty, runtime, raced, kernel, snap, new, decl, ok, nested, budget>>

-----------------------------------------------------------------------------
(* start_service, by itself or in phase 4 of a reload, and stop            *)

StartCommand(s) ==
    /\ "start" \in Commands
    /\ Spend("calls")
    /\ pc[s] = "idle"
    /\ snap' = [snap EXCEPT ![s] = config]
    /\ nested' = [nested EXCEPT ![s] = FALSE]
    /\ decl' = [decl EXCEPT ![s] = Nothing]
    /\ ok' = [ok EXCEPT ![s] = TRUE]
    /\ Goto(s, IF Enabled(config) THEN "check" ELSE "set")
    /\ UNCHANGED <<config, dirty, files, lock, kernel, new>>

\* Slip: start flushes whatever is running.
MutCheckBackends(s) ==
    /\ pc[s] = "check"
    /\ Goto(s, "clear")
    /\ UNCHANGED <<config, dirty, files, lock, kernel, snap, new, decl, ok, nested, budget>>

\* Leftover rules are to be dropped unless some backend is alive ...
CheckBackends(s) ==
    /\ pc[s] = "check"
    /\ Goto(s, IF BackendRunning THEN "declare" ELSE "clear")
    /\ UNCHANGED <<config, dirty, files, lock, kernel, snap, new, decl, ok, nested, budget>>

\* ... and are dropped by commands of their own, whatever runs by then.
FlushLeftovers(s) ==
    /\ pc[s] = "clear"
    /\ rules' = [i \in Instances |-> {}]
    /\ Goto(s, "declare")
    /\ UNCHANGED <<config, dirty, files, lock, procd, run, old, snap, new, decl, ok, nested, budget>>

\* qnatter_prepare_route_slots fails: start_service returns before it has
\* declared anything, and rc.common declares exactly that.  In a reload the
\* slots are ready since phase 1, unless the configuration has changed.
PrepareSlotsFails(s) ==
    /\ pc[s] = "check" \/ (pc[s] = "declare" /\ nested[s] /\ snap[s].inst # new[s])
    /\ Spend("faults")
    /\ decl' = [decl EXCEPT ![s] = Nothing]
    /\ ok' = [ok EXCEPT ![s] = FALSE]
    /\ Goto(s, "set")
    /\ UNCHANGED <<config, dirty, files, lock, kernel, snap, new, nested>>

\* qnatter_start_instances, all instances but those of F succeeding.
Declare(s, F) ==
    LET D == Present(snap[s].inst) \ F IN
    /\ decl' = [decl EXCEPT ![s] = [i \in Instances |-> IF i \in D THEN snap[s].inst[i] ELSE Off]]
    /\ runtime' = [i \in Instances |-> IF i \in D THEN snap[s].inst[i] ELSE runtime[i]]
    /\ list' = D
    /\ ok' = [ok EXCEPT ![s] = (F = {})]
    /\ Goto(s, "set")
    /\ UNCHANGED <<config, dirty, history, lock, kernel, snap, new, nested>>

StartInstances(s) == pc[s] = "declare" /\ Declare(s, {}) /\ UNCHANGED budget

StartInstanceFails(s, i) ==
    /\ pc[s] = "declare"
    /\ i \in Present(snap[s].inst)
    /\ Spend("faults")
    /\ Declare(s, {i})

\* rc.common hands procd the whole declaration: what is not in it is stopped,
\* what is new, changed or not running is started, the rest is left alone.
Kept(s) == {i \in Instances : decl[s][i] # Off /\ decl[s][i] = procd[i] /\ run[i] \in Live}
SetService(s) ==
    LET D == Instances \ Kept(s) IN
    /\ pc[s] = "set"
    /\ CanRetire(D)
    /\ procd' = decl[s]
    /\ run' = [i \in Instances |->
                IF i \in Kept(s) THEN run[i] ELSE IF decl[s][i] = Off THEN "none" ELSE "wait"]
    /\ old' = RetiredOld(D)
    /\ rules' = RetiredRules(D)
    /\ Goto(s, IF nested[s] THEN "publish" ELSE "idle")
    /\ UNCHANGED <<config, dirty, files, lock, snap, new, decl, ok, nested, budget>>

StopCommand(s) ==
    /\ "stop" \in Commands
    /\ Spend("calls")
    /\ pc[s] = "idle"
    /\ Goto(s, "stop")
    /\ UNCHANGED <<config, dirty, files, lock, kernel, snap, new, decl, ok, nested>>

\* stop_service, then procd_kill.
StopFlushes(s) ==
    /\ pc[s] = "stop"
    /\ rules' = [i \in Instances |-> {}]
    /\ Goto(s, "kill")
    /\ UNCHANGED <<config, dirty, files, lock, procd, run, old, snap, new, decl, ok, nested, budget>>

StopKills(s) ==
    /\ pc[s] = "kill"
    /\ CanRetire(Instances)
    /\ procd' = Nothing
    /\ run' = [i \in Instances |-> "none"]
    /\ old' = RetiredOld(Instances)
    /\ rules' = RetiredRules(Instances)
    /\ Goto(s, "idle")
    /\ UNCHANGED <<config, dirty, files, lock, snap, new, decl, ok, nested, budget>>

-----------------------------------------------------------------------------
(* The processes                                                           *)

\* Some start has found no backend alive and has not flushed yet.
Clearing == \E s \in Scripts : pc[s] = "clear"

\* procd runs qnatter-run, which execs qnatter-go: first, or as a respawn.
Launch(i) ==
    /\ run[i] = "wait"
    /\ run' = [run EXCEPT ![i] = "up"]
    /\ raced' = IF Clearing THEN raced \cup {i} ELSE raced \ {i}
    /\ UNCHANGED <<config, dirty, list, runtime, forgotten, lock, procd, old, rules, locals, budget>>

InstallRules(i) ==
    /\ run[i] = "up"
    /\ run' = [run EXCEPT ![i] = "forwarding"]
    /\ rules' = [rules EXCEPT ![i] = @ \cup {"run"}]
    /\ raced' = IF Clearing THEN raced ELSE raced \ {i}
    /\ UNCHANGED <<config, dirty, list, runtime, forgotten, lock, procd, old, locals, budget>>

\* The session ends and removes its rules by their handles.
EndSession(i) ==
    /\ run[i] = "forwarding"
    /\ run' = [run EXCEPT ![i] = "up"]
    /\ rules' = [rules EXCEPT ![i] = @ \ {"run"}]
    /\ UNCHANGED <<config, dirty, files, lock, procd, old, locals, budget>>

\* The process exits by itself; procd starts another one, or has had enough.
Exit(i) ==
    /\ run[i] \in Live
    /\ run' \in {[run EXCEPT ![i] = w] : w \in {"wait", "dead"}}
    /\ Spend("kills")
    /\ rules' \in {[rules EXCEPT ![i] = @ \ {"run"}],
                   [rules EXCEPT ![i] = IF "run" \in @ THEN (@ \ {"run"}) \cup {"orphan"} ELSE @]}
    /\ UNCHANGED <<config, dirty, files, lock, procd, old, locals>>

\* A signalled process may still be on its way into StartForwarder.
OldInstalls(i) ==
    /\ old[i] = "up"
    /\ old' = [old EXCEPT ![i] = "forwarding"]
    /\ rules' = [rules EXCEPT ![i] = @ \cup {"old"}]
    /\ UNCHANGED <<config, dirty, files, lock, procd, run, locals, budget>>

OldCloses(i) ==
    /\ old[i] # "none"
    /\ old' = [old EXCEPT ![i] = "none"]
    /\ rules' = [rules EXCEPT ![i] = @ \ {"old"}]
    /\ UNCHANGED <<config, dirty, files, lock, procd, run, locals, budget>>

\* term_timeout: the process is killed before it has closed its session.
OldKilled(i) ==
    /\ Spend("kills")
    /\ old[i] # "none"
    /\ old' = [old EXCEPT ![i] = "none"]
    /\ rules' = [rules EXCEPT ![i] = IF "old" \in @ THEN (@ \ {"old"}) \cup {"orphan"} ELSE @]
    /\ UNCHANGED <<config, dirty, files, lock, procd, run, locals>>
-----------------------------------------------------------------------------
Edits == \/ \E i \in Instances, p \in MaybePrint : EditInstance(i, p)
         \/ \E g \in Globals : EditGlobal(g)
         \/ \E i \in Instances, p \in Prints : Toggle(i, p)

Calls(s) == Ifup(s) \/ StartCommand(s) \/ StopCommand(s)

ReloadSteps(s) ==
    \/ ReloadTriggered(s) \/ TakeLock(s) \/ SkipReload(s)
    \/ HotLoad(s) \/ HotReload(s) \/ NotHot(s)
    \/ PrepareFingerprints(s) \/ DeleteInstances(s) \/ FlushEmpty(s)
    \/ Restart(s) \/ Publish(s)

StartSteps(s) ==
    CheckBackends(s) \/ FlushLeftovers(s) \/ StartInstances(s) \/ SetService(s)
StopSteps(s) == StopFlushes(s) \/ StopKills(s)

Faults(s) ==
    \/ HotReloadFails(s) \/ PrepareFingerprintsFails(s) \/ PrepareSlotsFails(s)
    \/ \E i \in Instances : StartInstanceFails(s, i)

Script(s) == ReloadSteps(s) \/ StartSteps(s) \/ StopSteps(s)

Current(i) == Launch(i) \/ InstallRules(i)
Predecessor(i) == OldInstalls(i) \/ OldCloses(i) \/ OldKilled(i)

Next ==
    \/ Edits
    \/ \E s \in Scripts : Script(s) \/ Calls(s) \/ Faults(s)
    \/ \E i \in Instances : Current(i) \/ EndSession(i) \/ Exit(i) \/ Predecessor(i)

\* The shell runs its commands one after the other, procd starts what it has
\* been told to start and kills what does not end.
Fairness ==
    /\ \A s \in Scripts : WF_vars(Script(s))
    /\ \A i \in Instances : WF_vars(Launch(i)) /\ WF_vars(InstallRules(i)) /\ WF_vars(OldCloses(i))

Spec == Init /\ [][Next]_vars
FairSpec == Spec /\ Fairness

-----------------------------------------------------------------------------
Labels == {"idle", "lock", "hot", "compare", "prepare", "delete", "flush", "restart",
           "check", "clear", "declare", "set", "publish", "stop", "kill"}

\* Every variable stays in its type; a process belongs to a declaration, rules
\* to the process that installed them, and the lock to the one reload that is
\* between its flock and its return.
InReload == {"hot", "compare", "prepare", "delete", "flush", "restart", "publish"}
Locked(s) == pc[s] \in InReload \/ (pc[s] \in {"declare", "set"} /\ nested[s])

Shape ==
    /\ \A i \in Instances :
          /\ run[i] = "none" <=> procd[i] = Off
          /\ "run" \in rules[i] => run[i] = "forwarding"
          /\ "old" \in rules[i] => old[i] = "forwarding"
    /\ \A s \in Scripts : Locked(s) <=> lock = s

Types ==
    /\ config \in Configs /\ dirty \in BOOLEAN
    /\ list \subseteq Instances /\ runtime \in Tables
    /\ forgotten \subseteq Instances /\ raced \subseteq Instances
    /\ lock \in Scripts \cup {Free}
    /\ procd \in Tables
    /\ run \in [Instances -> Live \cup {"none", "wait", "dead"}]
    /\ old \in [Instances -> Live \cup {"none"}]
    /\ rules \in [Instances -> SUBSET Owners]
    /\ pc \in [Scripts -> Labels] /\ snap \in [Scripts -> Configs]
    /\ new \in [Scripts -> Tables] /\ decl \in [Scripts -> Tables]
    /\ ok \in [Scripts -> BOOLEAN] /\ nested \in [Scripts -> BOOLEAN]
    /\ budget \in [{"edits", "calls", "faults", "kills"} -> Nat]

TypeOK == Types /\ Shape

\* A process that believes it is forwarding has its rules in the table: no
\* start and no reload flushes them from under it.  It would go on announcing a
\* mapping nothing forwards, because it never looks at the table again.
\* Between its flush and its kill, stop may.  Two kinds of instances are not
\* protected by the code: one that a reload has once left out of the list,
\* because the nested start read a newer configuration than phase 1, is not
\* deleted before the flush; and a process procd launches, and whose session
\* starts, after a start has found no backend alive and before it has flushed,
\* loses its rules to that flush.
Stopping == \E s \in Scripts : pc[s] = "kill"
LiveRulesKept ==
    Stopping \/ \A i \in Instances \ (forgotten \cup raced) :
        run[i] = "forwarding" => "run" \in rules[i]

Idle == \A s \in Scripts : pc[s] = "idle"

\* Once every commit has been followed by its reload and nothing runs any
\* more, procd runs what the configuration says.
AppliedWhenQuiet == Idle /\ ~dirty /\ Enabled(config) => procd = config.inst

\* Neither a reload nor a start ends a process whose fingerprint it leaves as
\* it is, unless an instance has failed to be declared.
Ended(i) == run[i] \in Live /\ procd[i] # Off /\ (procd'[i] # procd[i] \/ run'[i] \notin Live)
Ends(s) == pc[s] = "delete" \/ (pc[s] = "set" /\ ok[s])
SparesUnchanged ==
    [][\A s \in Scripts : Ends(s) /\ pc'[s] # pc[s] =>
          \A i \in Instances : Ended(i) => snap[s].inst[i] # procd[i] \/ ~Enabled(snap[s])]_vars

\* An instance that stays enabled is served again, or procd has given it up, or
\* its process has lost the race against a flush (LiveRulesKept): it forwards for
\* all it knows, and nothing ever restores its rules.
Served(i) == run[i] = "forwarding" /\ ("run" \in rules[i] \/ i \in raced)
EnabledGetsServed ==
    \A i \in Instances :
        <>[](Enabled(config) /\ config.inst[i] # Off) => []<>(Served(i) \/ run[i] = "dead")
=============================================================================
