------------------------------- MODULE Notify -------------------------------
(***************************************************************************)
(* What a new mapping sets in motion: notify.Run writes the status file    *)
(* and runs the script qnatter-notify, which opens the port in the         *)
(* firewall, updates a Cloudflare record and qBittorrent, and calls the    *)
(* user's webhook and inline script.                                       *)
(*                                                                         *)
(* The instances share UCI: `uci set' of one shows in `uci get' of all     *)
(* (view), and `uci commit firewall' of one writes the changes of all      *)
(* (committed); a reload of fw4 then installs them (loaded).  A script     *)
(* outlives its process when procd kills the process, and the command a    *)
(* script was waiting for outlives the script when Go's timeout kills the  *)
(* script: both are "survivors" and act on the mapping they were given.    *)
(***************************************************************************)
EXTENDS Naturals, FiniteSets

CONSTANTS
    Instances,      \* sections of the configuration
    Pairs,          \* mappings: protocol, inner and outer endpoint
    None,
    Features,       \* [Instances -> subsets of Optional], what UCI enables
    SkipUnchanged,  \* instances with completion_webhook_skip_unchanged
    MaxCalls,       \* bound: [Instances -> callbacks]
    MaxMishaps      \* bound: commands that fail, timeouts and kills

Targets == {"cloudflare", "qbittorrent", "webhook", "inline"}
Optional == {"rule"} \cup Targets

ASSUME FeaturesAssumption == Features \in [Instances -> SUBSET Optional]
ASSUME NoneAssumption == None \notin Pairs
ASSUME BoundsAssumption == MaxCalls \in [Instances -> Nat] /\ MaxMishaps \in Nat

\* A section of /etc/config/firewall: nothing, a rule without a target yet,
\* or a complete rule.
Section == [pair : Pairs \cup {None}, accept : BOOLEAN]
NoRule == [pair |-> None, accept |-> FALSE]
Rule(m) == [pair |-> m, accept |-> TRUE]

VARIABLES
    configured,     \* the section is in /etc/config/qnatter
    up,             \* the process of the instance runs
    call,           \* the mapping notify.Run is announcing
    served,         \* the mapping of the session that runs since
    scripts,        \* processes qnatter-notify
    late,           \* commands whose script was killed
    status,         \* the status file of each instance
    view,           \* `uci get firewall': committed and staged changes
    committed,      \* /etc/config/firewall
    loaded,         \* the rule set fw4 installed
    told,           \* the last mapping each target got
    haunted,        \* history: the callback began with survivors around
    troubled,       \* history: the callback was cut short or a command failed
    missed,         \* history: the rule may be staged for good, or not installed
    calls, mishaps  \* counters of the bounds

process == <<configured, up, call, served>>
uci == <<view, committed>>
history == <<haunted, troubled, missed>>
budget == <<calls, mishaps>>
vars == <<process, scripts, late, status, uci, loaded, told, history, budget>>

(***************************************************************************)
(* The order of a script's work.                                           *)
(***************************************************************************)
Work == [rule |-> 1, cloudflare |-> 2, qbittorrent |-> 3, webhook |-> 4,
         inline |-> 5, exit |-> 6]

\* The first step from position n on that the configuration enables.
StepFrom(i, n) ==
    CHOOSE w \in Features[i] \cup {"exit"} :
        /\ Work[w] >= n
        /\ \A v \in Features[i] \cup {"exit"} : Work[v] >= n => Work[w] <= Work[v]

After(p, w) == StepFrom(p.inst, Work[w] + 1)

Commands == {"start", "delete", "set", "accept", "commit", "reload", "reported",
             "refused"} \cup DOMAIN Work

Script == [inst : Instances, pair : Pairs, seen : Pairs \cup {None},
           pc : Commands, orphan : BOOLEAN]
Request == [inst : Instances, pair : Pairs, to : Targets \cup {"reload"}]

TypeOK ==
    /\ configured \in [Instances -> BOOLEAN] /\ up \in [Instances -> BOOLEAN]
    /\ call \in [Instances -> Pairs \cup {None}]
    /\ served \in [Instances -> Pairs \cup {None}]
    /\ scripts \subseteq Script /\ late \subseteq Request
    /\ status \in [Instances -> [pair : Pairs \cup {None},
                                 says : {"none", "mapped", "set", "failed"}]]
    /\ view \in [Instances -> Section] /\ committed \in [Instances -> Section]
    /\ loaded \in [Instances -> Section]
    /\ told \in [Instances -> [Targets -> Pairs \cup {None}]]
    /\ haunted \in [Instances -> BOOLEAN] /\ troubled \in [Instances -> BOOLEAN]
    /\ missed \in [Instances -> BOOLEAN]
    /\ calls \in [Instances -> Nat] /\ \A i \in Instances : calls[i] <= MaxCalls[i]
    /\ mishaps \in 0..MaxMishaps

NoStatus == [pair |-> None, says |-> "none"]
Each(x) == [i \in Instances |-> x]

Init ==
    /\ configured = Each(TRUE) /\ up = Each(FALSE)
    /\ call = Each(None) /\ served = Each(None)
    /\ scripts = {} /\ late = {}
    /\ status = Each(NoStatus)
    /\ view = Each(NoRule) /\ committed = Each(NoRule) /\ loaded = Each(NoRule)
    /\ told = Each([t \in Targets |-> None])
    /\ haunted = Each(FALSE) /\ troubled = Each(FALSE) /\ missed = Each(FALSE)
    /\ calls = Each(0) /\ mishaps = 0

(***************************************************************************)
(* The process: qnatter-run and notify.Run.                                *)
(***************************************************************************)
Survivors(i) == {p \in scripts : p.inst = i /\ p.orphan} \cup
                {r \in late : r.inst = i}
Own(i) == {p \in scripts : p.inst = i /\ ~p.orphan}

\* procd starts the wrapper, which removes the status file.
Start(i) ==
    /\ configured[i] /\ ~up[i]
    /\ up' = [up EXCEPT ![i] = TRUE]
    /\ status' = [status EXCEPT ![i] = NoStatus]
    /\ UNCHANGED <<configured, call, served, scripts, late, uci, loaded, told,
                   history, budget>>

\* The engine has a mapping: write the status file, run the script.  (A
\* renamed instance has no script to run: the wrapper has been moved.)
Announce(i) ==
    /\ configured[i] /\ up[i] /\ call[i] = None /\ served[i] = None /\ calls[i] < MaxCalls[i]
    /\ \E m \in Pairs :
        /\ call' = [call EXCEPT ![i] = m]
        /\ status' = [status EXCEPT ![i] = [pair |-> m, says |-> "mapped"]]
        /\ scripts' = scripts \cup
               {[inst |-> i, pair |-> m, seen |-> None, pc |-> "start", orphan |-> FALSE]}
    /\ haunted' = [haunted EXCEPT ![i] = Survivors(i) # {}]
    /\ troubled' = [troubled EXCEPT ![i] = FALSE]
    /\ calls' = [calls EXCEPT ![i] = @ + 1]
    /\ UNCHANGED <<configured, up, served, late, uci, loaded, told, missed, mishaps>>

\* Mutant: the script is started and not waited for.
ReturnsEarly(i) ==
    /\ call[i] # None
    /\ served' = [served EXCEPT ![i] = call[i]]
    /\ call' = [call EXCEPT ![i] = None]
    /\ UNCHANGED <<configured, up, scripts, late, status, uci, loaded, told,
                   history, budget>>

\* The script has ended: cmd.Run returns and the session is kept.
Returns(i) ==
    /\ call[i] # None /\ Own(i) = {}
    /\ served' = [served EXCEPT ![i] = call[i]]
    /\ call' = [call EXCEPT ![i] = None]
    /\ UNCHANGED <<configured, up, scripts, late, status, uci, loaded, told,
                   history, budget>>

\* Mutant: whatever the script was doing goes on.
LeftByAny(p) == {[inst |-> p.inst, pair |-> p.pair, to |-> p.pc]}

\* What a killed script leaves running: the command it waits for.
LeftBy(p) ==
    {[inst |-> p.inst, pair |-> p.pair, to |-> t] : t \in {p.pc} \cap (Targets \cup {"reload"})}

\* The rule of this script is staged but not installed yet.
InstallPending(p) == p.pc \in {"accept", "commit", "reload"}

\* The script runs for too long: the context kills the shell, and only it.
Timeout(i) ==
    /\ mishaps < MaxMishaps /\ mishaps' = mishaps + 1
    /\ \E p \in Own(i) :
        /\ scripts' = scripts \ {p}
        /\ late' = late \cup LeftBy(p)
        /\ missed' = [missed EXCEPT ![i] = @ \/ InstallPending(p)]
    /\ troubled' = [troubled EXCEPT ![i] = TRUE]
    /\ UNCHANGED <<process, status, uci, loaded, told, haunted, calls>>

\* The mapping is lost: the session closes, another one will follow.
SessionEnds(i) ==
    /\ served[i] # None
    /\ served' = [served EXCEPT ![i] = None]
    /\ UNCHANGED <<configured, up, call, scripts, late, status, uci, loaded, told,
                   history, budget>>

\* The process ends.  Inside notify.Run only SIGKILL ends it, and the script
\* goes on without it.
Down(i) ==
    /\ up[i]
    /\ IF call[i] = None
       THEN UNCHANGED mishaps
       ELSE mishaps < MaxMishaps /\ mishaps' = mishaps + 1
    /\ up' = [up EXCEPT ![i] = FALSE]
    /\ call' = [call EXCEPT ![i] = None]
    /\ served' = [served EXCEPT ![i] = None]
    /\ scripts' = (scripts \ Own(i)) \cup {[p EXCEPT !.orphan = TRUE] : p \in Own(i)}
    /\ UNCHANGED <<configured, late, status, uci, loaded, told, history, calls>>

(***************************************************************************)
(* The script.                                                             *)
(***************************************************************************)
Goes(p, w) == scripts' = (scripts \ {p}) \cup {[p EXCEPT !.pc = w]}

\* A command of script p fails: the script logs it and goes on at w.
FailsTo(p, w) ==
    /\ mishaps < MaxMishaps /\ mishaps' = mishaps + 1
    /\ troubled' = [troubled EXCEPT ![p.inst] = TRUE]
    /\ Goes(p, w)
    /\ UNCHANGED <<process, late, haunted, calls>>

\* Read the status file for the later comparison, then write it.
ReadStatus(p) ==
    /\ p.pc = "start"
    /\ scripts' = (scripts \ {p}) \cup
           {[p EXCEPT !.seen = status[p.inst].pair, !.pc = StepFrom(p.inst, 1)]}
    /\ status' = [status EXCEPT ![p.inst] = [pair |-> p.pair, says |-> "mapped"]]
    /\ UNCHANGED <<process, late, uci, loaded, told, history, budget>>

\* Mutant: the comparison leaves out the target.
RuleUnchangedButTarget(p) ==
    /\ p.pc = "rule"
    /\ view[p.inst].pair = p.pair
    /\ Goes(p, After(p, "rule"))
    /\ UNCHANGED <<process, late, status, uci, loaded, told, history, budget>>

\* update_auto_firewall: what `uci get' shows is the rule already.
RuleUnchanged(p) ==
    /\ p.pc = "rule"
    /\ view[p.inst] = Rule(p.pair)
    /\ Goes(p, After(p, "rule"))
    /\ UNCHANGED <<process, late, status, uci, loaded, told, history, budget>>

RuleChanged(p) ==
    /\ p.pc = "rule"
    /\ view[p.inst] # Rule(p.pair)
    /\ Goes(p, "delete")
    /\ UNCHANGED <<process, late, status, uci, loaded, told, history, budget>>

\* Mutant: every section of QNatter is deleted.
DeleteAllRules(p) ==
    /\ p.pc = "delete"
    /\ view' = Each(NoRule)
    /\ missed' = [missed EXCEPT ![p.inst] = FALSE]
    /\ Goes(p, "set")
    /\ UNCHANGED <<process, late, status, committed, loaded, told, haunted, troubled, budget>>

DeleteRule(p) ==
    /\ p.pc = "delete"
    /\ view' = [view EXCEPT ![p.inst] = NoRule]
    /\ missed' = [missed EXCEPT ![p.inst] = FALSE]
    /\ Goes(p, "set")
    /\ UNCHANGED <<process, late, status, committed, loaded, told, haunted, troubled, budget>>

\* Every option but the target.
SetRule(p) ==
    /\ p.pc = "set"
    /\ view' = [view EXCEPT ![p.inst].pair = p.pair]
    /\ Goes(p, "accept")
    /\ UNCHANGED <<process, late, status, committed, loaded, told, history, budget>>

\* The target, if the section is there.
AcceptRule(p) ==
    /\ p.pc = "accept" /\ view[p.inst] # NoRule
    /\ view' = [view EXCEPT ![p.inst].accept = TRUE]
    /\ Goes(p, "commit")
    /\ UNCHANGED <<process, late, status, committed, loaded, told, history, budget>>

\* `uci set' fails, or there is no section to set the target of: no commit.
\* (The section may be complete all the same, when a survivor of an earlier
\* callback has set its target.)
SetFails(p) ==
    /\ \/ p.pc \in {"set", "accept"} /\ FailsTo(p, After(p, "rule"))
       \/ /\ p.pc = "accept" /\ view[p.inst] = NoRule
          /\ Goes(p, After(p, "rule"))
          /\ troubled' = [troubled EXCEPT ![p.inst] = TRUE]
          /\ UNCHANGED <<process, late, haunted, budget>>
    /\ missed' = [missed EXCEPT ![p.inst] = @ \/ InstallPending(p)]
    /\ UNCHANGED <<status, uci, loaded, told>>

\* `uci commit firewall' writes what any process has staged.
CommitRule(p) ==
    /\ p.pc = "commit"
    /\ committed' = view
    /\ Goes(p, "reload")
    /\ UNCHANGED <<process, late, status, view, loaded, told, history, budget>>

CommitFails(p) ==
    /\ p.pc = "commit"
    /\ FailsTo(p, After(p, "rule"))
    /\ missed' = [missed EXCEPT ![p.inst] = TRUE]
    /\ UNCHANGED <<status, uci, loaded, told>>

\* qnatter_firewall_reload.
Reload(p) ==
    /\ p.pc = "reload"
    /\ loaded' = committed
    /\ Goes(p, After(p, "rule"))
    /\ UNCHANGED <<process, late, status, uci, told, history, budget>>

\* OpenClash runs, reloading is switched off, fw4 fails or takes too long.
NoReload(p) ==
    /\ p.pc = "reload"
    /\ FailsTo(p, After(p, "rule"))
    /\ missed' = [missed EXCEPT ![p.inst] = TRUE]
    /\ UNCHANGED <<status, uci, loaded, told>>

\* completion_webhook_skip_unchanged: the status file had this mapping.
Unchanged(p) == p.inst \in SkipUnchanged /\ p.seen = p.pair
SkipWebhook(p) ==
    /\ p.pc = "webhook" /\ Unchanged(p)
    /\ Goes(p, After(p, "webhook"))
    /\ UNCHANGED <<process, late, status, uci, loaded, told, history, budget>>

\* A request or the inline script is under way at this step.
Tells(p) == p.pc \in Targets /\ ~(p.pc = "webhook" /\ Unchanged(p))

\* The PATCH, setPreferences or webhook request succeeds, the script ends.
Tell(p) ==
    /\ Tells(p)
    /\ told' = [told EXCEPT ![p.inst][p.pc] = p.pair]
    /\ Goes(p, IF p.pc = "qbittorrent" THEN "reported" ELSE After(p, p.pc))
    /\ UNCHANGED <<process, late, status, uci, loaded, history, budget>>

\* It fails, or only its answer is lost.
TellFails(p) ==
    /\ Tells(p)
    /\ \/ UNCHANGED told
       \/ told' = [told EXCEPT ![p.inst][p.pc] = p.pair]
    /\ FailsTo(p, IF p.pc = "qbittorrent" THEN "refused" ELSE After(p, p.pc))
    /\ UNCHANGED <<status, uci, loaded, missed>>

\* Mutant: the exit status of setPreferences is not looked at.
ReportSet(p) ==
    /\ p.pc \in {"reported", "refused"}
    /\ status' = [status EXCEPT ![p.inst] = [pair |-> p.pair, says |-> "set"]]
    /\ Goes(p, After(p, "qbittorrent"))
    /\ UNCHANGED <<process, late, uci, loaded, told, history, budget>>

\* What became of qBittorrent goes to the status file.
Report(p) ==
    /\ p.pc \in {"reported", "refused"}
    /\ status' = [status EXCEPT ![p.inst] =
           [pair |-> p.pair, says |-> IF p.pc = "reported" THEN "set" ELSE "failed"]]
    /\ Goes(p, After(p, "qbittorrent"))
    /\ UNCHANGED <<process, late, uci, loaded, told, history, budget>>

Exit(p) ==
    /\ p.pc = "exit"
    /\ scripts' = scripts \ {p}
    /\ UNCHANGED <<process, late, status, uci, loaded, told, history, budget>>

(***************************************************************************)
(* Commands of killed scripts; the user.                                   *)
(***************************************************************************)
Land(r) ==
    /\ late' = late \ {r}
    /\ IF r.to = "reload"
       THEN loaded' = committed /\ UNCHANGED told
       ELSE told' = [told EXCEPT ![r.inst][r.to] = r.pair] /\ UNCHANGED loaded
    /\ UNCHANGED <<process, scripts, status, uci, history, budget>>

\* The command times out or fails.
Lose(r) ==
    /\ late' = late \ {r}
    /\ UNCHANGED <<process, scripts, status, uci, loaded, told, history, budget>>

\* The section is renamed, which moves the status file and the wrapper of the
\* script; the process of the old name is stopped some time later.
Rename(i) ==
    /\ configured[i]
    /\ configured' = [configured EXCEPT ![i] = FALSE]
    /\ status' = [status EXCEPT ![i] = NoStatus]
    /\ UNCHANGED <<up, call, served, scripts, late, uci, loaded, told,
                   history, budget>>

\* cleanup_firewall_rule of the rpcd backend: delete and commit, no reload.
Cleanup(i) ==
    /\ ~configured[i] /\ view[i] # NoRule
    /\ view' = [view EXCEPT ![i] = NoRule]
    /\ committed' = view'
    /\ UNCHANGED <<process, scripts, late, status, loaded, told, history, budget>>

ScriptStep(p) ==
    \/ ReadStatus(p) \/ RuleUnchanged(p) \/ RuleChanged(p) \/ DeleteRule(p)
    \/ SetRule(p) \/ AcceptRule(p) \/ SetFails(p) \/ CommitRule(p) \/ CommitFails(p)
    \/ Reload(p) \/ NoReload(p) \/ SkipWebhook(p) \/ Tell(p) \/ TellFails(p)
    \/ Report(p) \/ Exit(p)

Next ==
    \/ \E i \in Instances :
        \/ Start(i) \/ Announce(i) \/ Returns(i) \/ Timeout(i) \/ SessionEnds(i)
        \/ Down(i) \/ Rename(i) \/ Cleanup(i)
    \/ \E p \in scripts : ScriptStep(p)
    \/ \E r \in late : Land(r) \/ Lose(r)

Spec == Init /\ [][Next]_vars

(***************************************************************************)
(* Properties.                                                             *)
(***************************************************************************)

\* The session runs on a callback that no survivor of an earlier one, no
\* failing command and no timeout has disturbed.
Settled(i) ==
    /\ configured[i] /\ served[i] # None
    /\ ~haunted[i] /\ ~troubled[i]

\* Once notify.Run has returned undisturbed, the status file and every enabled
\* target name the mapping the session serves, whatever was killed before (a
\* webhook that may be skipped: WebhookKnowsMapping).
AnnouncedEverywhere ==
    \A i \in Instances : Settled(i) =>
        /\ status[i].pair = served[i]
        /\ \A t \in Features[i] \cap Targets :
               (t = "webhook" /\ i \in SkipUnchanged) \/ told[i][t] = served[i]

\* update_auto_firewall: the port of a settled mapping is in UCI, and it is open
\* unless a commit or a reload for this rule did not happen, however the scripts
\* of other instances and cleanup_firewall_rule use the same staging area.
PortIsOpen ==
    \A i \in Instances : Settled(i) /\ "rule" \in Features[i] =>
        /\ view[i] = Rule(served[i])
        /\ \/ committed[i] = view[i] /\ loaded[i] = view[i]
           \/ missed[i]

\* The status file says that qBittorrent listens on the port only if it does: a
\* message left over from a callback before would hide a failed update.
StatusTellsTruth ==
    \A i \in Instances :
        /\ configured[i] /\ served[i] # None /\ ~haunted[i]
        /\ status[i].says = "set"
        => told[i]["qbittorrent"] = served[i]

\* An open port of a settled mapping stays open: no callback of another
\* instance, no cleanup and no late reload closes it.  (After a commit that did
\* not happen one could: it would install what was committed before.)
OpenStaysOpen ==
    [][\A i \in Instances :
        Settled(i) /\ Settled(i)' /\ ~missed[i] /\ loaded[i] = Rule(served[i])
        => loaded'[i] = loaded[i]]_vars

\* The option is labelled "Only when changed": a webhook that is left out knows
\* the mapping already.
WebhookKnowsMapping ==
    \A i \in Instances : Settled(i) /\ "webhook" \in Features[i] =>
        told[i]["webhook"] = served[i]
=============================================================================
