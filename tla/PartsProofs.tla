----------------------------- MODULE PartsProofs -----------------------------
(***************************************************************************)
(* Theorems about four of the parts that Program composes: the relays of   *)
(* TCP, the child of an external forwarder, the check for a shared port,   *)
(* and the wrapper that counts restarts.                                   *)
(***************************************************************************)
EXTENDS TcpForwarder, ExternalForwarder, SharedPort, Respawn, TLAPS

-----------------------------------------------------------------------------
(* TCP relays: for any number of them and any amount of data, what is      *)
(* closed has been carried over in full.                                   *)

TcpTypeOK ==
    /\ relay \in [Relays -> {"none", "queued", "dialing", "relaying", "closed"}]
    /\ chunks \in [Relays -> [Sides -> Nat]]
    /\ ends \in [Relays -> [Sides -> {"open", "finished", "reset"}]]
    /\ copied \in [Relays -> [Sides -> Nat]]
    /\ copier \in [Relays -> [Sides -> {"none", "copying", "closeWrite", "done"}]]

NoReset(r) == \A s \in Sides : ends[r][s] # "reset"

\* A copy that has ended has carried over the whole stream.
WholeStream ==
    \A r \in Relays : \A s \in Sides :
        copier[r][s] \in {"closeWrite", "done"} /\ NoReset(r)
            => ends[r][s] = "finished" /\ copied[r][s] = chunks[r][s]

\* Copies run only between Dial and Close.
CopiersMatch ==
    \A r \in Relays : \A s \in Sides :
        /\ relay[r] \in {"none", "queued", "dialing"} => copier[r][s] = "none"
        /\ relay[r] = "closed" => copier[r][s] \in {"none", "done"}

TcpInv == TcpTypeOK /\ WholeStream /\ CopiersMatch

LEMMA TcpInvInit == TcpInit => TcpInv
BY DEF TcpInit, TcpInv, TcpTypeOK, WholeStream, CopiersMatch, NoReset

LEMMA TcpInvNext == TcpInv /\ [TcpNext]_tcpVars => TcpInv'
<1>1. SUFFICES ASSUME TcpInv, [TcpNext]_tcpVars
               PROVE  TcpInv'
  OBVIOUS
<1>. USE DEF TcpInv, TcpTypeOK, WholeStream, CopiersMatch, NoReset
<1>2. CASE StopListening
  BY <1>1, <1>2 DEF StopListening
<1>3. ASSUME NEW r \in Relays, Connect(r)
      PROVE  TcpInv'
  BY <1>1, <1>3 DEF Connect
<1>4. ASSUME NEW r \in Relays, Accept(r)
      PROVE  TcpInv'
  BY <1>1, <1>4 DEF Accept
<1>5. ASSUME NEW r \in Relays, DialTarget(r)
      PROVE  TcpInv'
  BY <1>1, <1>5 DEF DialTarget
<1>6. ASSUME NEW r \in Relays, DialTargetFails(r)
      PROVE  TcpInv'
  BY <1>1, <1>6 DEF DialTargetFails
<1>7. ASSUME NEW r \in Relays, CloseBoth(r)
      PROVE  TcpInv'
  BY <1>1, <1>7 DEF CloseBoth
<1>8. ASSUME NEW r \in Relays, NEW s \in Sides, Copy(r, s)
      PROVE  TcpInv'
  BY <1>1, <1>8 DEF Copy
<1>9. ASSUME NEW r \in Relays, NEW s \in Sides, CopyEnds(r, s)
      PROVE  TcpInv'
  <2>1. Other(s) \in Sides
    BY DEF Other, Sides
  <2>2. relay[r] \notin {"none", "queued", "dialing", "closed"}
    BY <1>1, <1>9 DEF CopyEnds
  <2>3. NoReset(r) => ends[r][s] = "finished" /\ copied[r][s] = chunks[r][s]
    BY <1>9, <2>1 DEF CopyEnds
  <2>. QED
    BY <1>1, <1>9, <2>2, <2>3 DEF CopyEnds
<1>10. ASSUME NEW r \in Relays, NEW s \in Sides, CloseWrite(r, s)
       PROVE  TcpInv'
  BY <1>1, <1>10 DEF CloseWrite
<1>11. ASSUME NEW r \in Relays, NEW s \in Sides, Send(r, s)
       PROVE  TcpInv'
  BY <1>1, <1>11 DEF Send
<1>12. ASSUME NEW r \in Relays, NEW s \in Sides, Finish(r, s)
       PROVE  TcpInv'
  BY <1>1, <1>12 DEF Finish
<1>13. ASSUME NEW r \in Relays, NEW s \in Sides, Reset(r, s)
       PROVE  TcpInv'
  BY <1>1, <1>13 DEF Reset
<1>14. CASE UNCHANGED tcpVars
  BY <1>1, <1>14 DEF tcpVars
<1>. QED
  BY <1>1, <1>2, <1>3, <1>4, <1>5, <1>6, <1>7, <1>8, <1>9, <1>10, <1>11, <1>12,
     <1>13, <1>14 DEF TcpNext, RelayWork

\* handleTCP of socket.go: both sockets are closed after both copies, and a
\* copy ends after the end of its stream or a reset.
THEOREM TcpNothingCutOff == TcpSpec => []NothingCutOff
<1>1. TcpInv => NothingCutOff
  BY DEF TcpInv, WholeStream, CopiersMatch, NothingCutOff, NoReset
<1>. QED
  BY <1>1, TcpInvInit, TcpInvNext, PTL DEF TcpSpec

-----------------------------------------------------------------------------
(* External forwarders: for any number of children, one after another,     *)
(* none runs on unknown to the program, unless the program was killed.     *)

\* NothingRunsOn holds on to process, so it takes that process is a child
\* whenever Start or Stop is under way, and that no child is nil.
ExtInv ==
    /\ child \in [Children -> {"new", "running", "ended", "reaped"}]
    /\ IF phase = "idle" THEN process = NoChild ELSE process \in Children
    /\ NothingRunsOn

LEMMA ExtInvInit == ExtInit => ExtInv
BY DEF ExtInit, ExtInv, NothingRunsOn

LEMMA ExtInvNext == ExtInv /\ [ExtNext]_extVars => ExtInv'
<1>1. SUFFICES ASSUME ExtInv, [ExtNext]_extVars
               PROVE  ExtInv'
  OBVIOUS
<1>. USE DEF ExtInv, NothingRunsOn
<1>2. ASSUME NEW c \in Children, StartChild(c)
      PROVE  ExtInv'
  BY <1>1, <1>2, NoChildAssumption DEF StartChild
<1>3. CASE TooQuick
  BY <1>1, <1>3 DEF TooQuick, Exited, Return
<1>4. CASE Started
  BY <1>1, <1>4 DEF Started
<1>5. CASE StopChild
  BY <1>1, <1>5 DEF StopChild, Exited, Return
<1>6. CASE Terminate
  BY <1>1, <1>6 DEF Terminate, Exited, Return
<1>7. CASE GraceOver
  BY <1>1, <1>7 DEF GraceOver
<1>8. CASE Waited
  BY <1>1, <1>8 DEF Waited, Exited, Return
<1>9. ASSUME NEW c \in Children, Exit(c)
      PROVE  ExtInv'
  BY <1>1, <1>9 DEF Exit
<1>10. ASSUME NEW c \in Children, Reap(c)
       PROVE  ExtInv'
  BY <1>1, <1>10 DEF Reap
<1>11. CASE KillProgram
  BY <1>1, <1>11 DEF KillProgram, Return
<1>12. CASE UNCHANGED extVars
  BY <1>1, <1>12 DEF extVars
<1>. QED
  BY <1>1, <1>2, <1>3, <1>4, <1>5, <1>6, <1>7, <1>8, <1>9, <1>10, <1>11, <1>12
     DEF ExtNext, ExtSteps

\* startExternal and stopExternal of external.go: on every way out of them,
\* with or without an error, the child has been reaped.
THEOREM ExtNothingRunsOn == ExtSpec => []NothingRunsOn
<1>1. ExtInv => NothingRunsOn
  BY DEF ExtInv
<1>. QED
  BY <1>1, ExtInvInit, ExtInvNext, PTL DEF ExtSpec

-----------------------------------------------------------------------------
(* Shared ports: for any processes and addresses, two listeners on one     *)
(* address have probed for each other at the same time.                    *)

\* /proc/net shows a listener while its Start has returned and its Stop has
\* not been called.
EntriesMatch ==
    \A p \in Procs : Listener(p) \in entries <=> start[p] = "listening"

Holds(p) == start[p] \in {"probed", "listening"}

\* Strengthens SplitOnlyByRace by the processes that have probed and not yet
\* bound: the next to bind is seen by nobody's probe.
ProbesOverlap ==
    \A p, q \in Procs :
        p # q /\ Addr[p] = Addr[q] /\ Holds(p) /\ Holds(q) => {p, q} \in overlap

PortInv ==
    /\ start \in [Procs -> {"idle", "probed", "listening"}]
    /\ EntriesMatch
    /\ ProbesOverlap

LEMMA ListenersDiffer ==
    \A p, q \in Procs :
        /\ Listener(p) # KeepAlive(q)
        /\ p # q => Listener(p) # Listener(q)
BY DEF Listener, KeepAlive

\* Who is refused nothing by the probe sees no listener on its address.
LEMMA ProbeSees ==
    ASSUME PortInv, NEW p \in Procs, ~HasListener(p)
    PROVE  \A q \in Procs : Addr[p] = Addr[q] => start[q] # "listening"
<1>1. SUFFICES ASSUME NEW q \in Procs, Addr[p] = Addr[q], start[q] = "listening"
               PROVE  FALSE
  OBVIOUS
<1>2. Listener(q) \in entries
  BY <1>1 DEF PortInv, EntriesMatch
<1>3. Listener(q).kind = "listen" /\ Listener(q).addr = Addr[p]
  BY <1>1 DEF Listener
<1>. QED
  BY <1>2, <1>3 DEF HasListener, AddrConflicts

LEMMA PortInvInit == PortInit => PortInv
BY DEF PortInit, PortInv, EntriesMatch, ProbesOverlap, Holds

LEMMA PortInvNext == PortInv /\ [PortNext]_portVars => PortInv'
<1>1. SUFFICES ASSUME PortInv, [PortNext]_portVars
               PROVE  PortInv'
  OBVIOUS
<1>. USE DEF PortInv, EntriesMatch, ProbesOverlap, Holds
<1>2. ASSUME NEW p \in Procs, OpenKeepAlive(p)
      PROVE  PortInv'
  BY <1>1, <1>2, ListenersDiffer DEF OpenKeepAlive
<1>3. ASSUME NEW p \in Procs, CloseKeepAlive(p)
      PROVE  PortInv'
  BY <1>1, <1>3, ListenersDiffer DEF CloseKeepAlive
<1>4. ASSUME NEW p \in Procs, Probe(p)
      PROVE  PortInv'
  <2>1. start'[p] = "probed" /\ \A q \in Procs \ {p} : start'[q] = start[q]
    BY <1>1, <1>4 DEF Probe
  <2>2. EntriesMatch'
    BY <1>1, <1>4, <2>1 DEF Probe, Listener
  <2>3. \A q \in Procs \ {p} : Addr[p] = Addr[q] /\ Holds(q) => {p, q} \in overlap'
    BY <1>1, <1>4, ProbeSees DEF Probe
  <2>4. ASSUME NEW q \in Procs, NEW r \in Procs, q # r, Addr[q] = Addr[r],
               Holds(q)', Holds(r)'
        PROVE  {q, r} \in overlap'
    <3>1. CASE q = p
      BY <2>1, <2>3, <2>4, <3>1
    <3>2. CASE r = p
      <4>1. {q, r} = {p, q}
        BY <3>2
      <4>. QED
        BY <2>1, <2>3, <2>4, <3>2, <4>1
    <3>3. CASE q # p /\ r # p
      BY <1>1, <1>4, <2>1, <2>4, <3>3 DEF Probe
    <3>. QED
      BY <3>1, <3>2, <3>3
  <2>5. ProbesOverlap'
    BY <2>4
  <2>. QED
    BY <1>1, <1>4, <2>2, <2>5 DEF Probe
<1>5. ASSUME NEW p \in Procs, RefuseStart(p)
      PROVE  PortInv'
  BY <1>1, <1>5, ListenersDiffer DEF RefuseStart
<1>6. ASSUME NEW p \in Procs, Bind(p)
      PROVE  PortInv'
  BY <1>1, <1>6, ListenersDiffer DEF Bind
<1>7. ASSUME NEW p \in Procs, BindFails(p)
      PROVE  PortInv'
  BY <1>1, <1>7 DEF BindFails, Listener
<1>8. ASSUME NEW p \in Procs, Release(p)
      PROVE  PortInv'
  BY <1>1, <1>8, ListenersDiffer DEF Release
<1>9. CASE UNCHANGED portVars
  BY <1>1, <1>9 DEF portVars, Listener
<1>. QED
  BY <1>1, <1>2, <1>3, <1>4, <1>5, <1>6, <1>7, <1>8, <1>9 DEF PortNext

\* Start of portconflict.go and socket.go: connections to one address are
\* spread over two processes only if each probed before the other bound.
THEOREM PortSplitOnlyByRace == PortSpec => []SplitOnlyByRace
<1>1. PortInv => SplitOnlyByRace
  BY DEF PortInv, EntriesMatch, ProbesOverlap, Holds, SplitOnlyByRace, Receivers
<1>. QED
  BY <1>1, PortInvInit, PortInvNext, PTL DEF PortSpec

-----------------------------------------------------------------------------
(* The wrapper's count: for every threshold, delay and number of retries.  *)

RespawnTypeOK ==
    /\ instance \in {"none", "running", "waiting", "abandoned"}
    /\ runtime \in Nat /\ fast \in Nat /\ sinceStart \in Nat /\ fastExits \in Nat
    /\ recorded \in BOOLEAN /\ apart \subseteq {"near", "record", "declared"}

\* procd's own count, and the words that go with the wrapper's.
CountsBounded ==
    /\ instance \in {"running", "waiting"} => fast <= Retry
    /\ instance = "abandoned" => fast = Retry + 1
    /\ fastExits <= Retry
    /\ state = IF fastExits = Retry THEN "respawn-exhausted" ELSE "running"

\* What the two clocks show, as long as the file is right: the same during a
\* run, and in the delay after it whether the next start will read as an early
\* one.
ClocksAgree ==
    "record" \notin apart =>
      /\ instance = "running" => recorded /\ sinceStart = UpTo(Threshold, runtime)
      /\ instance = "waiting" =>
            /\ recorded /\ runtime <= Delay
            /\ fast = 0 => sinceStart = Threshold
            /\ fast > 0 /\ "near" \notin apart => sinceStart + (Delay - runtime) < Threshold

\* The early ends that a wrapper started now would have had to count.
Counted == IF instance \in {"waiting", "abandoned"} /\ fast > 0 THEN fast - 1 ELSE fast

CountsEnough ==
    instance # "none" /\ "near" \notin apart /\ "record" \notin apart => fastExits >= Counted

CountsNotTooMuch ==
    /\ instance # "none" /\ "declared" \notin apart /\ "record" \notin apart
    /\ ~(instance = "waiting" /\ fast = 0)
    => fastExits <= Counted

RespawnInv ==
    /\ RespawnTypeOK /\ CountsBounded /\ ClocksAgree
    /\ CountsEnough /\ CountsNotTooMuch

LEMMA RespawnInvInit == RespawnInit => RespawnInv
<1> SUFFICES ASSUME RespawnInit PROVE RespawnInv
  OBVIOUS
<1> USE RespawnAssumption DEF RespawnInit
<1>1. RespawnTypeOK
  BY DEF RespawnTypeOK
<1>2. CountsBounded
  BY DEF CountsBounded
<1>3. ClocksAgree /\ CountsEnough /\ CountsNotTooMuch
  BY DEF ClocksAgree, CountsEnough, CountsNotTooMuch
<1> QED
  BY <1>1, <1>2, <1>3 DEF RespawnInv

LEMMA RespawnInvNext == RespawnInv /\ [RespawnNext]_respawnVars => RespawnInv'
<1> SUFFICES ASSUME RespawnInv, [RespawnNext]_respawnVars PROVE RespawnInv'
  OBVIOUS
<1> USE RespawnAssumption DEF RespawnInv
<1>t. RespawnTypeOK'
  <2>1. instance' \in {"none", "running", "waiting", "abandoned"} /\ fast' \in Nat
    BY DEF RespawnTypeOK, RespawnNext, Declare, Launch, LaunchUnwritten, RunExits,
           RespawnInstance, StopInstance, Second, ClockIsSet, respawnVars
  <2>2. runtime' \in Nat /\ sinceStart' \in Nat
    BY DEF RespawnTypeOK, RespawnNext, Declare, Launch, LaunchUnwritten, UpTo, RunExits,
           RespawnInstance, StopInstance, Second, ClockIsSet, respawnVars
  <2>3. fastExits' \in Nat
    <3>1. Failures \in Nat
      BY DEF Failures, UpTo, RespawnTypeOK
    <3> QED
      BY <3>1 DEF RespawnTypeOK, RespawnNext, Declare, Launch, LaunchUnwritten, RunExits,
         RespawnInstance, StopInstance, Second, ClockIsSet, respawnVars
  <2>4. recorded' \in BOOLEAN
    BY DEF RespawnTypeOK, RespawnNext, Declare, Launch, LaunchUnwritten, RunExits,
           RespawnInstance, StopInstance, Second, ClockIsSet, respawnVars
  <2>5. apart' \subseteq {"near", "record", "declared"}
    BY DEF RespawnTypeOK, RespawnNext, Declare, RunExits, RespawnInstance, StopInstance, Second,
           ClockIsSet, respawnVars
  <2> QED
    BY <2>1, <2>2, <2>3, <2>4, <2>5 DEF RespawnTypeOK
<1>1. CASE Declare
  <2>1. CASE Launch /\ apart' = IF Failures = 0 THEN {} ELSE (apart \ {"near"}) \cup {"declared"}
    <3>1. /\ Failures \in 0..Retry
          /\ Failures = 0 \/ "declared" \in apart'
      BY <2>1 DEF Failures, UpTo, RespawnTypeOK
    <3> QED
      BY <1>1, <1>t, <2>1, <3>1 DEF Declare, Launch, RespawnTypeOK, CountsBounded, ClocksAgree,
         CountsEnough, CountsNotTooMuch, Counted, UpTo
  <2>2. CASE LaunchUnwritten /\ apart' = (apart \ {"near"}) \cup {"declared", "record"}
    <3>1. "declared" \in apart' /\ "record" \in apart'
      BY <2>2
    <3> QED
      BY <1>1, <1>t, <2>2, <3>1 DEF Declare, LaunchUnwritten, RespawnTypeOK, CountsBounded,
         ClocksAgree, CountsEnough, CountsNotTooMuch
  <2> QED
    BY <1>1, <2>1, <2>2 DEF Declare
<1>2. CASE RunExits
  <2>1. /\ fast' = 0 => ("record" \in apart' <=> "record" \in apart)
        /\ "record" \in apart' <=> "record" \in apart
        /\ "declared" \in apart' <=> "declared" \in apart
        /\ fast' > 0 => /\ "near" \in apart => "near" \in apart'
                        /\ runtime + Delay >= Threshold => "near" \in apart'
    BY <1>2 DEF RunExits, RespawnTypeOK
  <2> HIDE DEF RespawnInv
  <2>2. /\ instance = "running" /\ runtime' = 0
        /\ fast' = IF runtime < Threshold THEN fast + 1 ELSE 0
        /\ instance' = IF fast' > Retry THEN "abandoned" ELSE "waiting"
        /\ UNCHANGED <<recorded, sinceStart, fastExits, state>>
    BY <1>2 DEF RunExits
  <2>3. CountsBounded'
    BY <1>t, <2>2 DEF RespawnInv, RespawnTypeOK, CountsBounded
  <2>4. ClocksAgree'
    BY <1>t, <2>1, <2>2 DEF RespawnInv, RespawnTypeOK, ClocksAgree, UpTo
  <2>5. CountsEnough'
    BY <1>t, <2>1, <2>2 DEF RespawnInv, RespawnTypeOK, CountsEnough, Counted
  <2>6. CountsNotTooMuch'
    BY <1>t, <2>1, <2>2 DEF RespawnInv, RespawnTypeOK, CountsNotTooMuch, Counted
  <2> QED
    BY <1>t, <2>3, <2>4, <2>5, <2>6 DEF RespawnInv
<1>3. CASE RespawnInstance
  <2>f. Failures \in 0..Retry
    BY DEF Failures, UpTo, RespawnTypeOK
  <2>1. CASE Launch /\ apart' = IF Failures > 0 THEN apart
                      ELSE apart \ ({"declared"} \cup (IF fast = 0 THEN {"record"} ELSE {}))
    <3>1. /\ "near" \in apart' <=> "near" \in apart
          /\ Failures > 0 => /\ "declared" \in apart' <=> "declared" \in apart
                             /\ "record" \in apart' <=> "record" \in apart
          /\ fast > 0 => ("record" \in apart' <=> "record" \in apart)
      BY <2>1, <2>f
    <3>2. /\ instance = "waiting" /\ runtime >= Delay /\ instance' = "running" /\ runtime' = 0
          /\ recorded' = TRUE /\ sinceStart' = 0 /\ fastExits' = Failures
          /\ state' = IF Failures >= Retry THEN "respawn-exhausted" ELSE "running"
          /\ fast' = fast
      BY <1>3, <2>1 DEF RespawnInstance, Launch
    <3> HIDE DEF RespawnInv
    <3>3. CountsBounded'
      BY <1>t, <2>f, <3>2 DEF RespawnInv, RespawnTypeOK, CountsBounded
    <3>4. ClocksAgree'
      BY <1>t, <3>2 DEF RespawnInv, RespawnTypeOK, ClocksAgree, UpTo
    <3>5. CountsEnough'
      BY <1>t, <3>1, <3>2 DEF RespawnInv, RespawnTypeOK, CountsBounded, ClocksAgree,
         CountsEnough, Counted, Failures, UpTo
    <3>6. CountsNotTooMuch'
      BY <1>t, <3>1, <3>2 DEF RespawnInv, RespawnTypeOK, CountsBounded, ClocksAgree,
         CountsNotTooMuch, Counted, Failures, UpTo
    <3> QED
      BY <1>t, <3>3, <3>4, <3>5, <3>6 DEF RespawnInv
  <2>2. CASE LaunchUnwritten /\ apart' = apart \cup {"record"}
    <3>1. "record" \in apart'
      BY <2>2
    <3> QED
      BY <1>3, <1>t, <2>2, <3>1 DEF RespawnInstance, LaunchUnwritten, RespawnTypeOK, CountsBounded,
         ClocksAgree, CountsEnough, CountsNotTooMuch
  <2> QED
    BY <1>3, <2>1, <2>2 DEF RespawnInstance
<1>4. CASE StopInstance
  BY <1>4, <1>t DEF StopInstance, CountsBounded, ClocksAgree, CountsEnough, CountsNotTooMuch
<1>5. CASE Second
  <2> HIDE DEF RespawnInv
  <2>1. /\ instance = "waiting" => runtime < Delay
        /\ runtime' = UpTo(Threshold + Delay, runtime + 1)
        /\ sinceStart' = UpTo(Threshold, sinceStart + 1)
        /\ UNCHANGED <<instance, fast, recorded, fastExits, state, apart>>
    BY <1>5 DEF Second
  <2>2. CountsBounded' /\ CountsEnough' /\ CountsNotTooMuch'
    BY <2>1 DEF RespawnInv, CountsBounded, CountsEnough, CountsNotTooMuch, Counted
  <2>3. ClocksAgree'
    BY <1>t, <2>1 DEF RespawnInv, RespawnTypeOK, ClocksAgree, UpTo
  <2> QED
    BY <1>t, <2>2, <2>3 DEF RespawnInv
<1>6. CASE ClockIsSet
  <2>1. "record" \in apart'
    BY <1>6 DEF ClockIsSet
  <2> QED
    BY <1>6, <1>t, <2>1 DEF ClockIsSet, CountsBounded, ClocksAgree, CountsEnough, CountsNotTooMuch
<1>7. CASE UNCHANGED respawnVars
  BY <1>7, <1>t DEF respawnVars, CountsBounded, ClocksAgree, CountsEnough, CountsNotTooMuch, Counted
<1> QED
  BY <1>1, <1>2, <1>3, <1>4, <1>5, <1>6, <1>7 DEF RespawnNext

(* qnatter-run says at a start that it is the last one exactly when procd  *)
(* will give up after it, but for the causes recorded in `apart'.          *)
THEOREM WarningAlwaysRight == RespawnSpec => []WarningIsRight
<1>1. RespawnInv => WarningIsRight
  <2> SUFFICES ASSUME RespawnInv PROVE WarningIsRight
    OBVIOUS
  <2>1. instance = "abandoned" /\ apart \cap {"near", "record"} = {} => state = "respawn-exhausted"
    <3> SUFFICES ASSUME instance = "abandoned", apart \cap {"near", "record"} = {}
                 PROVE  state = "respawn-exhausted"
      OBVIOUS
    <3>1. "near" \notin apart /\ "record" \notin apart
      OBVIOUS
    <3>2. fastExits >= Retry
      BY <3>1, RespawnAssumption DEF RespawnInv, RespawnTypeOK, CountsBounded, CountsEnough, Counted
    <3> QED
      BY <3>2, RespawnAssumption DEF RespawnInv, RespawnTypeOK, CountsBounded
  <2>2. /\ state = "respawn-exhausted" /\ instance = "running"
        /\ apart \cap {"declared", "record"} = {}
        => fast = Retry
    <3> SUFFICES ASSUME state = "respawn-exhausted", instance = "running",
                        apart \cap {"declared", "record"} = {}
                 PROVE  fast = Retry
      OBVIOUS
    <3>1. "declared" \notin apart /\ "record" \notin apart
      OBVIOUS
    <3>2. fastExits = Retry
      BY DEF RespawnInv, CountsBounded
    <3> QED
      BY <3>1, <3>2, RespawnAssumption
         DEF RespawnInv, RespawnTypeOK, CountsBounded, CountsNotTooMuch, Counted
  <2> QED
    BY <2>1, <2>2 DEF WarningIsRight
<1> QED
  BY <1>1, RespawnInvInit, RespawnInvNext, PTL DEF RespawnSpec
==============================================================================
