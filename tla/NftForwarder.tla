---------------------------- MODULE NftForwarder ----------------------------
(***************************************************************************)
(* The nftables forwarder: forward/nftables_executor.go, nftables.go.      *)
(* Start inserts up to four rules into chains that all instances share     *)
(* and keeps the handle of each, for nft deletes by handle only; Stop      *)
(* deletes what it has a handle of.  A rule whose handle was not echoed    *)
(* is looked up by its text and removed.                                   *)
(*                                                                         *)
(* A step is one command, nft or ip; those of several instances interleave *)
(* and each may fail without effect.  A rule's text is all that matters of *)
(* its match and action; no text contains another.                         *)
(***************************************************************************)
EXTENDS Naturals, FiniteSets

CONSTANTS
    Insts,         \* processes with this forwarder
    Snat,          \* those with NftablesForwarder.SNAT
    Marked,        \* those with StartOptions.Interface
    TargetOf,      \* StartOptions.TargetIP and TargetPort of each
    MaxHandle      \* bound on the rules ever inserted

ASSUME NftAssumption ==
    /\ IsFiniteSet(Insts)
    /\ MaxHandle \in Nat

VARIABLES
    rules,         \* the rules of all instances: [text, handle]
    made,          \* what exists of "table" and "mark chain"
    lastHandle,    \* nft numbers the rules of a table
    step, rule,    \* where Start or Stop of an instance is, and with which rule
    handles,       \* DNATHandle, SNATHandle, ConnMarkHandle, RouteMarkHandle
    found,         \* what LookupRuleHandle returned
    policy,        \* instances whose slot has a "route", a "rule"
    undeleted      \* of each text: how often a command failed to remove it

nftVars == <<rules, made, lastHandle, step, rule, handles, found, policy, undeleted>>

Kinds == {"dnat", "snat", "connmark", "routemark"}

\* NftablesDNATSpec and the others: the instance's mapping is its own, but
\* instances with one target have the same source NAT.
Text(i, r) == <<r, IF r = "snat" THEN TargetOf[i] ELSE i>>

Texts == {Text(i, r) : i \in Insts, r \in Kinds}

RulesOf(i) ==
    {"dnat"} \cup (IF i \in Snat THEN {"snat"} ELSE {})
             \cup (IF i \in Marked THEN {"connmark", "routemark"} ELSE {})

NftInit ==
    /\ rules = {} /\ made = {} /\ lastHandle = 0
    /\ step = [i \in Insts |-> "idle"]
    /\ rule = [i \in Insts |-> "dnat"]
    /\ handles = [i \in Insts |-> [r \in Kinds |-> 0]]
    /\ found = [i \in Insts |-> 0]
    /\ policy = [i \in Insts |-> {}]
    /\ undeleted = [t \in Texts |-> 0]

GoTo(i, s, r) ==
    /\ step' = [step EXCEPT ![i] = s]
    /\ rule' = [rule EXCEPT ![i] = r]

Delete(h) == rules' = {x \in rules : x.handle # h}
Loses(i, r) == undeleted' = [undeleted EXCEPT ![Text(i, r)] = @ + 1]

-----------------------------------------------------------------------------
(* Start                                                                   *)

\* An address that is its own target, an old nft, or a kernel that does not
\* forward.
Check(i) ==
    /\ step[i] = "check"
    /\ GoTo(i, "table", "dnat") \/ GoTo(i, "idle", "dnat")
    /\ UNCHANGED <<rules, made, lastHandle, handles, found, policy, undeleted>>

\* List the table, else create it.
EnsureTable(i) ==
    /\ step[i] = "table"
    /\ \/ /\ made' = made \cup {"table"}
          /\ GoTo(i, "insert", "dnat")
       \/ /\ "table" \notin made
          /\ GoTo(i, "idle", "dnat")
          /\ UNCHANGED made
    /\ UNCHANGED <<rules, lastHandle, handles, found, policy, undeleted>>

\* Where Start goes when rule r is in place.
Proceed(i, r) ==
    IF r = "dnat" /\ i \in Snat THEN GoTo(i, "insert", "snat")
    ELSE IF r \in {"dnat", "snat"} /\ i \in Marked THEN GoTo(i, "route", r)
    ELSE IF r = "connmark" THEN GoTo(i, "insert", "routemark")
    ELSE GoTo(i, "running", r)

Insert(i) ==
    /\ step[i] = "insert" /\ lastHandle < MaxHandle
    /\ lastHandle' = lastHandle + 1
    /\ rules' = rules \cup {[text |-> Text(i, rule[i]), handle |-> lastHandle']}

\* insertRule: the rule is in and its handle is known.
InsertEchoes(i) ==
    /\ Insert(i)
    /\ handles' = [handles EXCEPT ![i][rule[i]] = lastHandle']
    /\ Proceed(i, rule[i])
    /\ UNCHANGED <<made, found, policy, undeleted>>

\* Slip: insertRule returns the error of ParseNftablesHandle at once.
MutInsertIsMute(i) ==
    /\ Insert(i)
    /\ GoTo(i, "stop", rule[i])
    /\ UNCHANGED <<made, handles, found, policy, undeleted>>

\* insertRule: the rule is in, but its handle was not echoed.
InsertIsMute(i) ==
    /\ Insert(i)
    /\ GoTo(i, "lookup", rule[i])
    /\ UNCHANGED <<made, handles, found, policy, undeleted>>

InsertFails(i) ==
    /\ step[i] = "insert"
    /\ GoTo(i, "stop", rule[i])
    /\ UNCHANGED <<rules, made, lastHandle, handles, found, policy, undeleted>>

Alike(i) == {x \in rules : x.text = Text(i, rule[i])}

\* Slip: the first rule of the chain is taken for the one inserted.
MutLookup(i) ==
    /\ step[i] = "lookup"
    /\ \E x \in rules :
        /\ x.text[1] = rule[i]
        /\ \A y \in rules : y.text[1] = rule[i] => y.handle <= x.handle
        /\ found' = [found EXCEPT ![i] = x.handle]
    /\ GoTo(i, "delete", rule[i])
    /\ UNCHANGED <<rules, made, lastHandle, handles, policy, undeleted>>

\* deleteRuleBySpec and LookupRuleHandle: the first line with the text, which
\* is the rule inserted last, perhaps by another instance.
Lookup(i) ==
    /\ step[i] = "lookup"
    /\ \E x \in Alike(i) :
        /\ \A y \in Alike(i) : y.handle <= x.handle
        /\ found' = [found EXCEPT ![i] = x.handle]
    /\ GoTo(i, "delete", rule[i])
    /\ UNCHANGED <<rules, made, lastHandle, handles, policy, undeleted>>

\* The chain cannot be listed, or has no such line any more.
LookupFails(i) ==
    /\ step[i] = "lookup"
    /\ Loses(i, rule[i])
    /\ GoTo(i, "stop", rule[i])
    /\ UNCHANGED <<rules, made, lastHandle, handles, found, policy>>

DeleteFound(i) ==
    /\ step[i] = "delete"
    /\ found' = [found EXCEPT ![i] = 0]
    /\ \/ /\ \E x \in rules : x.handle = found[i]
          /\ Delete(found[i])
          /\ UNCHANGED undeleted
       \/ Loses(i, rule[i]) /\ UNCHANGED rules
    /\ GoTo(i, "stop", rule[i])
    /\ UNCHANGED <<made, lastHandle, handles, policy>>

\* ensureRoutePolicy, the commands whose result counts.
EnsureRoutePolicy(i) ==
    /\ step[i] \in {"route", "rule add"}
    /\ LET w == IF step[i] = "route" THEN "route" ELSE "rule"
       IN  \/ /\ policy' = [policy EXCEPT ![i] = @ \cup {w}]
              /\ GoTo(i, IF w = "route" THEN "rule del" ELSE "chain", rule[i])
           \/ UNCHANGED policy /\ GoTo(i, "stop", rule[i])
    /\ UNCHANGED <<rules, made, lastHandle, handles, found, undeleted>>

\* The rule an earlier process left goes first; there may be none.
DeletePolicyRule(i) ==
    /\ step[i] = "rule del"
    /\ policy' = [policy EXCEPT ![i] = @ \ {"rule"}]
    /\ GoTo(i, "rule add", rule[i])
    /\ UNCHANGED <<rules, made, lastHandle, handles, found, undeleted>>

\* ensureRouteMarkChain
EnsureMarkChain(i) ==
    /\ step[i] = "chain"
    /\ \/ /\ made' = made \cup {"mark chain"}
          /\ GoTo(i, "insert", "connmark")
       \/ /\ "mark chain" \notin made
          /\ GoTo(i, "stop", rule[i])
          /\ UNCHANGED made
    /\ UNCHANGED <<rules, lastHandle, handles, found, policy, undeleted>>

-----------------------------------------------------------------------------
(* Stop, which Start calls too when it fails half-way                      *)

Held(i) == {r \in Kinds : handles[i][r] > 0}

\* In the order of Stop.
FirstHeld(i) ==
    CHOOSE r \in Held(i) :
        \/ r = "dnat"
        \/ r = "snat" /\ "dnat" \notin Held(i)
        \/ r = "connmark" /\ {"dnat", "snat"} \cap Held(i) = {}
        \/ Held(i) = {"routemark"}

\* The handle is forgotten whether or not the rule could be deleted.
DeleteHeld(i) ==
    /\ step[i] = "stop" /\ Held(i) # {}
    /\ LET r == FirstHeld(i)
           h == handles[i][r]
       IN  /\ handles' = [handles EXCEPT ![i][r] = 0]
           /\ \/ /\ \E x \in rules : x.handle = h
                 /\ Delete(h)
                 /\ UNCHANGED undeleted
              \/ Loses(i, r) /\ UNCHANGED rules
    /\ UNCHANGED <<made, lastHandle, step, rule, found, policy>>

Stopped(i) ==
    /\ step[i] = "stop" /\ Held(i) = {}
    /\ GoTo(i, "idle", "dnat")
    /\ UNCHANGED <<rules, made, lastHandle, handles, found, policy, undeleted>>

\* The engine starts a forwarder, and stops it once.
StartRules(i) ==
    /\ step[i] = "idle" /\ lastHandle < MaxHandle
    /\ GoTo(i, "check", "dnat")
    /\ UNCHANGED <<rules, made, lastHandle, handles, found, policy, undeleted>>

StopRules(i) ==
    /\ step[i] = "running"
    /\ GoTo(i, "stop", rule[i])
    /\ UNCHANGED <<rules, made, lastHandle, handles, found, policy, undeleted>>

StartSteps(i) ==
    \/ Check(i) \/ EnsureTable(i) \/ InsertEchoes(i) \/ InsertIsMute(i)
    \/ InsertFails(i) \/ Lookup(i) \/ LookupFails(i) \/ DeleteFound(i)
    \/ EnsureRoutePolicy(i) \/ DeletePolicyRule(i) \/ EnsureMarkChain(i)

NftNext ==
    \E i \in Insts :
        \/ StartRules(i) \/ StartSteps(i)
        \/ StopRules(i) \/ DeleteHeld(i) \/ Stopped(i)

NftSpec == NftInit /\ [][NftNext]_nftVars

-----------------------------------------------------------------------------
\* Of every text the chains have one rule for each instance that counts on
\* one, or is about to remove its own, and one for each removal that failed:
\* no rule stays behind unnoticed, and none is taken away from an instance,
\* although equal rules of two instances are told apart by handle only.
RulesCounted ==
    \A t \in Texts :
        Cardinality({x \in rules : x.text = t})
          = Cardinality({i \in Insts :
                \E r \in Kinds : Text(i, r) = t
                    /\ \/ r \in Held(i)
                       \/ step[i] \in {"lookup", "delete"} /\ rule[i] = r})
            + undeleted[t]

\* A forwarder whose Start has returned without error has every rule it needs
\* and, with an interface, the policy that its mark selects; whatever failed
\* in others and before.
RunningIsComplete ==
    \A i \in Insts : step[i] = "running" =>
        /\ \A r \in RulesOf(i) : \E x \in rules : x.text = Text(i, r)
        /\ i \in Marked => policy[i] = {"route", "rule"}
=============================================================================
