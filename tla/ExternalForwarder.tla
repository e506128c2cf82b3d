-------------------------- MODULE ExternalForwarder --------------------------
(***************************************************************************)
(* The forwarders that run another program, socat or gost:                 *)
(* forward/external.go.  Start runs a child and gives it a while to fail;  *)
(* Stop interrupts it, waits, and kills it if it does not end in time.     *)
(*                                                                         *)
(* The child and the goroutine that waits for it (reap) run beside Start   *)
(* and Stop.  The child may end by itself or ignore the interrupt, and the *)
(* program may be killed, which the child survives; procd then starts the  *)
(* program again.                                                          *)
(***************************************************************************)
CONSTANTS
    Children,      \* processes the program may start, one after another
    NoChild        \* nil

ASSUME NoChildAssumption == NoChild \notin Children

VARIABLES
    phase,         \* "idle", "starting", "running", and in stopExternal
                   \* "stop", "wait", "killed"
    process,       \* the child at hand: startExternal's, Process, or proc
    child,         \* "new", "running", "ended" (a zombie), "reaped"
    orphans        \* children of a program that was killed

extVars == <<phase, process, child, orphans>>

ExtInit ==
    /\ phase = "idle" /\ process = NoChild
    /\ child = [c \in Children |-> "new"]
    /\ orphans = {}

\* osProcess.Exited: reap has closed the channel done.
Exited == child[process] = "reaped"

Return ==
    /\ phase' = "idle" /\ process' = NoChild

-----------------------------------------------------------------------------
(* startExternal                                                           *)

\* checkExternal and the starter succeed.
StartChild(c) ==
    /\ phase = "idle" /\ child[c] = "new"
    /\ child' = [child EXCEPT ![c] = "running"]
    /\ process' = c
    /\ phase' = "starting"
    /\ UNCHANGED orphans

\* "exited too quickly", at the end of the delay.
TooQuick ==
    /\ phase = "starting" /\ Exited
    /\ Return
    /\ UNCHANGED <<child, orphans>>

Started ==
    /\ phase = "starting" /\ ~Exited
    /\ phase' = "running"
    /\ UNCHANGED <<process, child, orphans>>

-----------------------------------------------------------------------------
(* stopExternal                                                            *)

\* Process is forgotten here; proc goes on.
StopChild ==
    /\ phase = "running"
    /\ IF Exited THEN Return ELSE phase' = "stop" /\ UNCHANGED process
    /\ UNCHANGED <<child, orphans>>

\* Slip: Stop does not wait for what it has interrupted.
MutTerminate ==
    /\ phase = "stop"
    /\ Return
    /\ UNCHANGED <<child, orphans>>

\* Signal fails if the child has been reaped since it was looked at; Stop
\* returns that error.
Terminate ==
    /\ phase = "stop"
    /\ IF Exited THEN Return ELSE phase' = "wait" /\ UNCHANGED process
    /\ UNCHANGED <<child, orphans>>

\* Slip: the second signal is an interrupt like the first.
MutGraceOver ==
    /\ phase = "wait"
    /\ phase' = "killed"
    /\ UNCHANGED <<process, child, orphans>>

\* terminateGrace has passed: Kill, which may come too late.
GraceOver ==
    /\ phase = "wait"
    /\ phase' = "killed"
    /\ child' = [child EXCEPT ![process] = IF @ = "running" THEN "ended" ELSE @]
    /\ UNCHANGED <<process, orphans>>

Waited ==
    /\ phase \in {"wait", "killed"} /\ Exited
    /\ Return
    /\ UNCHANGED <<child, orphans>>

-----------------------------------------------------------------------------
(* The child, reap, and the end of the program                             *)

\* By itself, or because of the interrupt.
Exit(c) ==
    /\ child[c] = "running"
    /\ child' = [child EXCEPT ![c] = "ended"]
    /\ UNCHANGED <<phase, process, orphans>>

Reap(c) ==
    /\ child[c] = "ended"
    /\ child' = [child EXCEPT ![c] = "reaped"]
    /\ UNCHANGED <<phase, process, orphans>>

\* SIGKILL, a panic, lack of memory: nothing ties the child to the program.
KillProgram ==
    /\ Return
    /\ orphans' = orphans \cup {c \in Children : child[c] \in {"running", "ended"}}
    /\ UNCHANGED child

ExtSteps ==
    \/ TooQuick \/ Started \/ Terminate \/ GraceOver \/ Waited

ExtNext ==
    \/ ExtSteps \/ StopChild \/ KillProgram
    \/ \E c \in Children : StartChild(c) \/ Exit(c) \/ Reap(c)

\* The clock and the goroutines run; no child need ever end by itself.
ExtFairness ==
    /\ WF_extVars(ExtSteps)
    /\ \A c \in Children : WF_extVars(Reap(c))

ExtSpec == ExtInit /\ [][ExtNext]_extVars /\ ExtFairness

-----------------------------------------------------------------------------
\* Whatever way Start fails and Stop returns, with or without an error, the
\* child has ended: the next session can have the port.  Only the children of
\* a program that was killed may run on.
NothingRunsOn ==
    \A c \in Children :
        child[c] \in {"running", "ended"} => c = process \/ c \in orphans

\* Stop returns, also with a child that ignores the interrupt.
StopReturns == phase = "stop" ~> phase = "idle"
=============================================================================
