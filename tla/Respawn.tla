------------------------------- MODULE Respawn -------------------------------
(***************************************************************************)
(* How often an instance fails: qnatter-run, the wrapper that procd starts *)
(* and that becomes qnatter-go.  procd gives up an instance whose runs end *)
(* too soon too often, and tells nobody.  The wrapper keeps a count of its *)
(* own in a file and says at a start that it is the last one.              *)
(*                                                                         *)
(* The two do not see the same: procd measures a run from its start to its *)
(* end by a steady clock and begins at zero when the instance is declared  *)
(* anew; the wrapper measures from start to start by the time of day and   *)
(* knows nothing but its file.  Time passes in seconds; a start takes none.*)
(***************************************************************************)
EXTENDS Naturals

CONSTANTS
    Threshold,     \* QNATTER_RESPAWN_THRESHOLD, seconds
    Delay,         \* QNATTER_RESPAWN_TIMEOUT, seconds
    Retry          \* QNATTER_RESPAWN_RETRY

ASSUME RespawnAssumption ==
    /\ Threshold \in Nat \ {0} /\ Delay \in Nat /\ Retry \in Nat \ {0}

VARIABLES
    instance,      \* procd's: "none", "running", "waiting", "abandoned"
    runtime,       \* seconds since the start of the run, or since its end
    fast,          \* procd's count of runs that ended too soon
    recorded,      \* <slug>.respawn exists
    sinceStart,    \* seconds from last_start to now, by the time of day
    fastExits,     \* fast_exits
    state,         \* "running", "respawn-exhausted"
    apart          \* why the counts may differ, see the property

respawnVars == <<instance, runtime, fast, recorded, sinceStart, fastExits, state, apart>>

RespawnInit ==
    /\ instance = "none" /\ runtime = 0 /\ fast = 0
    /\ recorded = FALSE /\ sinceStart = 0 /\ fastExits = 0 /\ state = "running"
    /\ apart = {}

\* Numbers that are compared with a limit only stop there.
UpTo(limit, n) == IF n > limit THEN limit ELSE n

\* Slip: a run that was long enough does not reset the count.
MutFailures == IF recorded THEN UpTo(Retry, fastExits + 1) ELSE 0

\* qnatter_failures
Failures ==
    IF recorded /\ sinceStart < Threshold THEN UpTo(Retry, fastExits + 1) ELSE 0

\* qnatter-run up to exec, which writes its file.
Launch ==
    /\ instance' = "running" /\ runtime' = 0
    /\ recorded' = TRUE /\ sinceStart' = 0
    /\ fastExits' = Failures
    /\ state' = IF Failures >= Retry THEN "respawn-exhausted" ELSE "running"

\* The directory is not there, the write or the mv fails: the file is the old one.
LaunchUnwritten ==
    /\ instance' = "running" /\ runtime' = 0
    /\ UNCHANGED <<recorded, sinceStart, fastExits, state>>

-----------------------------------------------------------------------------
(* procd                                                                   *)

\* start, or a reload with another fingerprint: a new instance, or a first one.
Declare ==
    /\ \/ /\ Launch
          /\ apart' = IF Failures = 0 THEN {} ELSE (apart \ {"near"}) \cup {"declared"}
       \/ /\ LaunchUnwritten
          /\ apart' = (apart \ {"near"}) \cup {"declared", "record"}
    /\ fast' = 0

\* The run ends; the last one that may end too soon is the one after Retry.
RunExits ==
    /\ instance = "running"
    /\ runtime' = 0
    /\ fast' = IF runtime < Threshold THEN fast + 1 ELSE 0
    /\ instance' = IF fast' > Retry THEN "abandoned" ELSE "waiting"
    /\ apart' =
        IF fast' = 0 THEN apart \ {"near"}
        ELSE apart \cup (IF runtime + Delay >= Threshold THEN {"near"} ELSE {})
    /\ UNCHANGED <<recorded, sinceStart, fastExits, state>>

RespawnInstance ==
    /\ instance = "waiting" /\ runtime >= Delay
    /\ \/ /\ Launch
          /\ apart' = IF Failures > 0 THEN apart
                      ELSE apart \ ({"declared"} \cup (IF fast = 0 THEN {"record"} ELSE {}))
       \/ /\ LaunchUnwritten
          /\ apart' = apart \cup {"record"}
    /\ UNCHANGED fast

\* stop; /var/run stays.
StopInstance ==
    /\ instance # "none"
    /\ instance' = "none"
    /\ UNCHANGED <<runtime, fast, recorded, sinceStart, fastExits, state, apart>>

-----------------------------------------------------------------------------
(* Time                                                                    *)

\* The timer of procd is on time.
Second ==
    /\ instance = "waiting" => runtime < Delay
    /\ runtime' = UpTo(Threshold + Delay, runtime + 1)
    /\ sinceStart' = UpTo(Threshold, sinceStart + 1)
    /\ UNCHANGED <<instance, fast, recorded, fastExits, state, apart>>

\* The time of day is set, as it is some time after a boot.  Before last_start
\* counts as no time.
ClockIsSet ==
    /\ recorded
    /\ sinceStart' \in 0..Threshold
    /\ apart' = apart \cup {"record"}
    /\ UNCHANGED <<instance, runtime, fast, recorded, fastExits, state>>

RespawnNext ==
    \/ Declare \/ RunExits \/ RespawnInstance \/ StopInstance
    \/ Second \/ ClockIsSet

RespawnSpec == RespawnInit /\ [][RespawnNext]_respawnVars

-----------------------------------------------------------------------------
\* Who looks at the file of an instance that procd has given up is told, and
\* nobody is told of an instance that procd would start again after the next
\* failure; unless the time of day was set or the file was not written, or in the
\* first case a run ended within Delay of Threshold, in the second the instance
\* was declared anew, since the counts were last zero.
WarningIsRight ==
    /\ instance = "abandoned" /\ apart \cap {"near", "record"} = {}
          => state = "respawn-exhausted"
    /\ state = "respawn-exhausted" /\ instance = "running"
       /\ apart \cap {"declared", "record"} = {}
          => fast = Retry
=============================================================================
