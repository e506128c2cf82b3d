----------------------------- MODULE RouteSlots -----------------------------
(***************************************************************************)
(* The route slots of the instances: qnatter_prepare_route_slots of the    *)
(* init script.  A slot names the mark, the routing table and the priority *)
(* of an instance, so two instances that run must not have the same one,   *)
(* and README.md calls it persistent.                                      *)
(*                                                                         *)
(* Every start, reload and hot reload makes a pass over the sections it    *)
(* has loaded.  Passes can overlap, because start takes no lock, and the   *)
(* configuration can be committed to in the middle of one.                 *)
(***************************************************************************)
EXTENDS Naturals, Sequences, SequencesExt

CONSTANTS
    Sections,      \* names of sections of type `instance'
    MaxSlot,       \* 4095
    NoSlot,        \* an option that is missing or not a valid slot
    Passes,        \* invocations of the script that can overlap
    Edits,         \* what a commit may do: "append", "delete", "move", "set"
    Faults,        \* what may fail: "set", "commit"
    MaxEdits,      \* bound: commits to /etc/config/qnatter
    MaxFaults,     \* bound: uci commands that fail
    MaxReboots     \* bound: reboots

Slots == 0 .. MaxSlot

ASSUME SlotsAssumption == MaxSlot \in Nat /\ NoSlot \notin Slots
ASSUME BoundsAssumption == MaxEdits \in Nat /\ MaxFaults \in Nat /\ MaxReboots \in Nat

VARIABLES
    order,         \* the sections, in the order of the file
    slot,          \* option route_slot of each, staged changes included
    flash,         \* and as last committed
    pc,            \* of each pass: "idle", "next", and what it returned
    list, seen,    \* the sections and slots that config_load read
    at,            \* the section config_foreach is at
    got,           \* the slot the pass has recorded for each section
    failed,        \* QNATTER_FOREACH_FAILED
    changed,       \* QNATTER_ROUTE_SLOTS_CHANGED
    given,         \* history: the slot a successful pass last gave
    disturbed,     \* history: something happened that may cost an instance its slot
    budget

config == <<order, slot, flash>>
pass == <<pc, list, seen, at, got, failed, changed>>
vars == <<config, pass, given, disturbed, budget>>

None == [s \in Sections |-> NoSlot]

Init ==
    /\ order = << >>
    /\ slot = None /\ flash = None
    /\ pc = [p \in Passes |-> "idle"]
    /\ list = [p \in Passes |-> << >>] /\ seen = [p \in Passes |-> None]
    /\ at = [p \in Passes |-> 1]
    /\ got = [p \in Passes |-> None]
    /\ failed = [p \in Passes |-> FALSE] /\ changed = [p \in Passes |-> FALSE]
    /\ given = None /\ disturbed = FALSE
    /\ budget = [edits |-> MaxEdits, faults |-> MaxFaults, reboots |-> MaxReboots]

Spend(b) == budget[b] > 0 /\ budget' = [budget EXCEPT ![b] = @ - 1]

-----------------------------------------------------------------------------
(* Commits by others: LuCI, whose list of instances can be sorted, and the *)
(* uci command.  A commit writes out what passes have staged.              *)

Edit(kind) ==
    /\ kind \in Edits
    /\ Spend("edits")
    /\ disturbed' = (disturbed \/ kind \in {"move", "set"} \/ \E p \in Passes : pc[p] = "next")
    /\ UNCHANGED pass

AppendSection(s) ==
    /\ Edit("append")
    /\ ~Contains(order, s)
    /\ order' = Append(order, s)
    /\ flash' = slot
    /\ UNCHANGED <<slot, given>>

DeleteSection(k) ==
    /\ Edit("delete")
    /\ order' = RemoveAt(order, k)
    /\ slot' = [slot EXCEPT ![order[k]] = NoSlot]
    /\ flash' = slot'
    /\ given' = [given EXCEPT ![order[k]] = NoSlot]

MoveFirst(k) ==
    /\ Edit("move")
    /\ k # 1
    /\ order' = <<order[k]>> \o RemoveAt(order, k)
    /\ flash' = slot
    /\ UNCHANGED <<slot, given>>

SetSlot(k, n) ==
    /\ Edit("set")
    /\ slot' = [slot EXCEPT ![order[k]] = n]
    /\ flash' = slot'
    /\ UNCHANGED <<order, given>>

\* What was staged in /tmp/.uci is lost, and so is every invocation.
Reboot ==
    /\ Spend("reboots")
    /\ slot' = flash
    /\ disturbed' = (disturbed \/ slot # flash)
    /\ pc' = [p \in Passes |-> "idle"]
    /\ UNCHANGED <<order, flash, list, seen, at, got, failed, changed, given>>

-----------------------------------------------------------------------------
(* A pass                                                                  *)

\* config_load, then config_foreach.
Load(p) ==
    /\ pc[p] # "next"
    /\ pc' = [pc EXCEPT ![p] = "next"]
    /\ list' = [list EXCEPT ![p] = order] /\ seen' = [seen EXCEPT ![p] = slot]
    /\ at' = [at EXCEPT ![p] = 1]
    /\ got' = [got EXCEPT ![p] = None]
    /\ failed' = [failed EXCEPT ![p] = FALSE] /\ changed' = [changed EXCEPT ![p] = FALSE]
    /\ disturbed' = (disturbed \/ \E q \in Passes : pc[q] = "next")
    /\ UNCHANGED <<config, given, budget>>

Here(p) == list[p][at[p]]
InLoop(p) == pc[p] = "next" /\ at[p] <= Len(list[p])
AtEnd(p) == pc[p] = "next" /\ at[p] > Len(list[p])

\* qnatter_route_slot_used
Used(p, n) == \E s \in Sections : got[p][s] = n

FreeSlots(p) == {n \in Slots : ~Used(p, n)}

\* Slip: a slot only has to be valid.
MutKeepsAnySlot(p) == seen[p][Here(p)] \in Slots

\* Slip: every pass numbers the sections anew.
MutRenumbers(p) == FALSE

HasSlot(p) == seen[p][Here(p)] \in Slots /\ ~Used(p, seen[p][Here(p)])

KeepSlot(p) ==
    /\ InLoop(p)
    /\ HasSlot(p)
    /\ got' = [got EXCEPT ![p][Here(p)] = seen[p][Here(p)]]
    /\ at' = [at EXCEPT ![p] = @ + 1]
    /\ UNCHANGED <<config, pc, list, seen, failed, changed, given, disturbed, budget>>

\* qnatter_next_route_slot, the lowest that is free, and uci set.
AssignSlot(p, n) ==
    /\ InLoop(p)
    /\ ~HasSlot(p)
    /\ \A m \in FreeSlots(p) : n <= m
    /\ Contains(order, Here(p))
    /\ slot' = [slot EXCEPT ![Here(p)] = n]
    /\ got' = [got EXCEPT ![p][Here(p)] = n]
    /\ changed' = [changed EXCEPT ![p] = TRUE]
    /\ at' = [at EXCEPT ![p] = @ + 1]
    /\ UNCHANGED <<order, flash, pc, list, seen, failed, given, disturbed, budget>>

\* No slot is free, or uci set fails; config_foreach goes on with the next.
SlotFails(p) ==
    /\ InLoop(p)
    /\ ~HasSlot(p)
    /\ failed' = [failed EXCEPT ![p] = TRUE]
    /\ at' = [at EXCEPT ![p] = @ + 1]
    /\ UNCHANGED <<config, pc, list, seen, got, changed, given, disturbed>>

NoFreeSlot(p) ==
    /\ SlotFails(p)
    /\ FreeSlots(p) = {} \/ ~Contains(order, Here(p))
    /\ UNCHANGED budget

SetFails(p) == "set" \in Faults /\ Spend("faults") /\ SlotFails(p)

Return(p, result) ==
    /\ AtEnd(p)
    /\ pc' = [pc EXCEPT ![p] = result]
    /\ given' = IF result = "ok"
                THEN [s \in Sections |->
                        IF Contains(order, s) /\ got[p][s] # NoSlot THEN got[p][s] ELSE given[s]]
                ELSE given
    /\ UNCHANGED <<order, slot, list, seen, at, got, failed, changed, disturbed>>

ReturnFailed(p) ==
    /\ failed[p]
    /\ Return(p, "failed")
    /\ UNCHANGED <<flash, budget>>

CommitSlots(p) ==
    /\ ~failed[p] /\ changed[p]
    /\ flash' = slot
    /\ Return(p, "ok")
    /\ UNCHANGED budget

CommitFails(p) ==
    /\ ~failed[p] /\ changed[p]
    /\ "commit" \in Faults /\ Spend("faults")
    /\ Return(p, "failed")
    /\ UNCHANGED flash

NothingToCommit(p) ==
    /\ ~failed[p] /\ ~changed[p]
    /\ Return(p, "ok")
    /\ UNCHANGED <<flash, budget>>
-----------------------------------------------------------------------------
Commits ==
    \/ \E s \in Sections : AppendSection(s)
    \/ \E k \in 1 .. Len(order) : DeleteSection(k) \/ MoveFirst(k)
    \/ \E k \in 1 .. Len(order), n \in Slots \cup {NoSlot} : SetSlot(k, n)

Pass(p) ==
    \/ Load(p) \/ KeepSlot(p) \/ (\E n \in FreeSlots(p) : AssignSlot(p, n))
    \/ NoFreeSlot(p) \/ SetFails(p)
    \/ ReturnFailed(p) \/ CommitSlots(p) \/ CommitFails(p) \/ NothingToCommit(p)

Next == Commits \/ Reboot \/ \E p \in Passes : Pass(p)

Spec == Init /\ [][Next]_vars

-----------------------------------------------------------------------------
Assignments == [Sections -> Slots \cup {NoSlot}]

\* Every variable stays in its type, and config_foreach within its list.
TypeOK ==
    /\ order \in Seq(Sections)
    /\ slot \in Assignments /\ flash \in Assignments /\ given \in Assignments
    /\ pc \in [Passes -> {"idle", "next", "ok", "failed"}]
    /\ list \in [Passes -> Seq(Sections)] /\ seen \in [Passes -> Assignments]
    /\ at \in [Passes -> Nat \ {0}] /\ \A p \in Passes : at[p] <= Len(list[p]) + 1
    /\ got \in [Passes -> Assignments]
    /\ disturbed \in BOOLEAN
    /\ failed \in [Passes -> BOOLEAN] /\ changed \in [Passes -> BOOLEAN]
    /\ budget \in [{"edits", "faults", "reboots"} -> Nat]

\* A pass that succeeds has a slot for every section it loaded, and no two
\* of them have the same: the instances one invocation declares get marks and
\* routing tables of their own, whatever the file held and whatever is
\* committed meanwhile.
DistinctSlots ==
    \A p \in Passes : pc[p] = "ok" =>
        \A j, k \in 1 .. Len(list[p]) :
            /\ got[p][list[p][j]] \in Slots
            /\ got[p][list[p][j]] = got[p][list[p][k]] => list[p][j] = list[p][k]

\* README.md: the slot is persistent.  What an instance has once been given
\* it is given by every later pass, over reboots, failed passes and the
\* instances added and deleted around it.  It may change when someone edits
\* slots or the order of the sections, when a commit or another pass falls
\* into a pass, and when the power fails on slots that are only staged.
SlotPersists ==
    [][~disturbed' => \A s \in Sections :
          given[s] # NoSlot /\ given'[s] # NoSlot => given'[s] = given[s]]_vars
=============================================================================
