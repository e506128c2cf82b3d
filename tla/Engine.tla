------------------------------- MODULE Engine -------------------------------
(***************************************************************************)
(* The engine of one QNatter process: go-qnatter/internal/engine.          *)
(*                                                                         *)
(* StartSession punches the hole (STUN, keep-alive, STUN again), starts    *)
(* the forwarder, opens the router's port by UPnP, announces the mapping   *)
(* and checks the target; RunLoop keeps the mapping alive and rechecks it; *)
(* Session.Close releases what the session holds; RunWithRetry decides     *)
(* whether a finished run is the end of the process or is repeated after a *)
(* delay.  One action stands for the code between two calls that block     *)
(* (STUN, keep-alive, forwarder, router, notify, timer), because the world *)
(* moves during those: the host's address, the NAT's binding, the servers, *)
(* the target, and the signal that cancels the context.                    *)
(*                                                                         *)
(* A local endpoint is an element of Inners on the address AddrOf gives    *)
(* it; what the NAT shows of it is an element of Outers.                   *)
(***************************************************************************)
EXTENDS Naturals

CONSTANTS
  Addrs,            \* addresses the bound interface can have
  Inners,           \* local endpoints
  AddrOf,           \* the address of a local endpoint
  Outers,           \* endpoints the NAT can map the instance to
  None,             \* the absence of an address, an endpoint or a result
  RecheckEvery,     \* LoopOptions.RecheckEvery
  KeepAliveLimit,   \* LoopOptions.KeepAliveFailureLimit
  STUNLimit,        \* LoopOptions.STUNFailureLimit
  LeaseDuration,    \* UPnPMapping.LeaseDuration, in the unit of the next three
  TickGap,          \* the longest from one tick's handling to the next: the interval,
                    \* or what the handling takes when that is longer
  TickTime,         \* the longest a tick's handling takes to the request to the router
  StartTime,        \* the longest from AddPortMapping to the first wait for a tick
  Configs,          \* configurations the process can be started with
  InnerDrift        \* TRUE: any STUNClient; FALSE: stun.Client, which keeps its source

ASSUME LimitsAssumption ==
  /\ RecheckEvery \in Nat \ {0}
  /\ KeepAliveLimit \in Nat \ {0}
  /\ STUNLimit \in Nat \ {0}

ASSUME TimesAssumption ==
  LeaseDuration \in Nat /\ TickGap \in Nat /\ TickTime \in Nat /\ StartTime \in Nat

ASSUME EndpointsAssumption ==
  /\ AddrOf \in [Inners -> Addrs]
  /\ None \notin Addrs \cup Inners \cup Outers

ASSUME DriftAssumption == InnerDrift \in BOOLEAN

ASSUME ConfigsAssumption ==
  Configs \subseteq [exitWhenChanged : BOOLEAN, upnp : BOOLEAN, retryTarget : BOOLEAN]

VARIABLES
  cfg,              \* config.Config, fixed for the life of the process
  \* the world
  addr,             \* address of the interface, None while it has none
  nat,              \* endpoint the NAT assigns to each local one
  stunUp, kaUp,     \* some STUN server, the keep-alive server, can be reached
  targetOpen,       \* the target accepts TCP connections
  canceled,         \* the context is done (SIGTERM, SIGINT)
  \* what the process holds outside itself
  fwd,              \* endpoint the forwarder listens on or has rules for
  kaOpen,           \* the keep-alive client has a connection
  router,           \* endpoint the router's port mapping leads to
  published,        \* the last announced pair
  \* the process
  pc,               \* where the engine is, see Labels
  err,              \* the error being returned
  source,           \* stun.Client.Source
  first, mapping,   \* StartSession's first observation and the chosen one
  session,          \* the fields of Session that are not nil
  keepAliveFailures, stunFailures, count,
  exitCode,
  \* history
  leaked,           \* releases that failed: Session forgot, the world did not
  staleTicks,       \* ticks handled since the NAT left the session's pair
  leaseAge,         \* most time that can have passed, when the last tick's handling
                    \* began, since the router accepted the lease
  renewal,          \* what came of the last Renew
  failedBefore      \* keep-alives that failed in a row before the one Renew follows

worldVars   == <<addr, nat, stunUp, kaUp, targetOpen, canceled>>
heldVars    == <<fwd, kaOpen, router>>
counterVars == <<keepAliveFailures, stunFailures, count>>
leaseVars   == <<leaseAge, renewal, failedBefore>>
historyVars == <<leaked, staleTicks, leaseVars>>
vars == <<cfg, worldVars, heldVars, published, pc, err, source, first, mapping,
          session, counterVars, exitCode, historyVars>>

Labels == {"firstStun", "firstKeepAlive", "secondStun", "start", "upnp", "notify",
           "check", "loop", "renew", "recheck", "close", "returned", "backoff", "exited"}

Renewals == {"none", "accepted", "failed"}

Changed   == {"mappingChanged", "localAddressChanged"}
Retryable == Changed \cup {"keepAliveFailed", "targetClosed", "noServer", "addrUnavailable"}
Errors    == Retryable \cup {"nil", "fatal"}

Fields    == {"Forwarder", "KeepAlive", "UPnP"}
Pairs     == [inner : Inners \cup {None}, outer : Outers \cup {None}]
Observed  == [inner : Inners, outer : Outers]
NoPair    == [inner |-> None, outer |-> None]
\* The config.Config fields the engine branches on; retryTarget is -r without -u.
Options   == [exitWhenChanged : BOOLEAN, upnp : BOOLEAN, retryTarget : BOOLEAN]

Init ==
  /\ cfg \in Configs
  /\ addr \in Addrs
  /\ nat \in [Inners -> Outers]
  /\ stunUp \in BOOLEAN /\ kaUp \in BOOLEAN /\ targetOpen \in BOOLEAN
  /\ canceled = FALSE
  /\ fwd = None /\ kaOpen = FALSE /\ router = None
  /\ published = NoPair
  /\ pc = "firstStun" /\ err = "nil"
  /\ source = None
  /\ first = NoPair /\ mapping = NoPair
  /\ session = {}
  /\ keepAliveFailures = 0 /\ stunFailures = 0 /\ count = 0
  /\ exitCode = None
  /\ leaked = {} /\ staleTicks = 0
  /\ leaseAge = 0 /\ renewal = "none" /\ failedBefore = 0

-----------------------------------------------------------------------------
(* What the calls the engine makes can answer.                             *)

\* stun.Client.GetMapping binds the source it kept, which the host has lost.
SourceGone == source # None /\ AddrOf[source] # addr

\* GetMapping succeeds with the pair m.  stun.Client queries from the source it
\* kept; another STUNClient may answer from another local port than before.
STUNAnswers(m) ==
  /\ stunUp /\ ~SourceGone
  /\ AddrOf[m.inner] = addr
  /\ source # None /\ ~InnerDrift => m.inner = source
  /\ m.outer = nat[m.inner]

\* GetMapping fails with EADDRNOTAVAIL or ENODEV.
STUNLosesAddress == SourceGone

\* GetMapping fails otherwise: no server answered, or the context is done.
STUNFails == canceled \/ (~SourceGone /\ (~stunUp \/ addr = None))

\* KeepAlive() from first.inner: dials when it has no connection.
KeepAliveLosesAddress == AddrOf[first.inner] # addr
KeepAliveAnswers  == kaUp /\ ~KeepAliveLosesAddress
KeepAliveTimesOut == IF KeepAliveLosesAddress THEN kaOpen ELSE ~kaUp

-----------------------------------------------------------------------------
(* StartSession.                                                           *)

\* Slip: the error is wrapped without %w and no errors.Is recognises it.
MutReturnError(e) == pc' = "returned" /\ err' = "unwrapped"

\* A failure before the session exists returns, after it goes through the
\* deferred Session.Close.
ReturnError(e) == pc' = "returned" /\ err' = e
\* Slip: the deferred Session.Close is missing.
MutCloseWith(e) == pc' = "returned" /\ err' = e

CloseWith(e)   == pc' = "close" /\ err' = e

FirstSTUN(m) ==
  /\ pc = "firstStun"
  /\ STUNAnswers(m)
  /\ first' = m
  /\ source' = m.inner
  /\ session' = {"KeepAlive"}
  /\ pc' = "firstKeepAlive"
  /\ UNCHANGED <<cfg, worldVars, heldVars, published, err, mapping, counterVars,
                 exitCode, historyVars>>

FirstSTUNFails ==
  /\ pc = "firstStun"
  /\ STUNFails \/ STUNLosesAddress
  /\ ReturnError("noServer")
  /\ UNCHANGED <<cfg, worldVars, heldVars, published, source, first, mapping, session,
                 counterVars, exitCode, historyVars>>

FirstKeepAlive ==
  /\ pc = "firstKeepAlive"
  /\ KeepAliveAnswers
  /\ kaOpen' = TRUE
  /\ pc' = "secondStun"
  /\ UNCHANGED <<cfg, worldVars, fwd, router, published, err, source, first, mapping,
                 session, counterVars, exitCode, historyVars>>

\* The keep-alive error is returned as it is: only a lost address is retryable.
FirstKeepAliveFails ==
  /\ pc = "firstKeepAlive"
  /\ \/ KeepAliveTimesOut /\ CloseWith("fatal")
     \/ KeepAliveLosesAddress /\ CloseWith("addrUnavailable")
  /\ UNCHANGED <<cfg, worldVars, heldVars, published, source, first, mapping, session,
                 counterVars, exitCode, historyVars>>

\* Slip: the second observation is always taken.
MutChooseMapping(one, observed) == observed

\* G-14: an observation from another local port is not the one kept alive.
ChooseMapping(one, observed) == IF observed.inner # one.inner THEN one ELSE observed

SecondSTUN(m) ==
  /\ pc = "secondStun"
  /\ STUNAnswers(m)
  /\ mapping' = ChooseMapping(first, m)
  /\ source' = m.inner
  /\ pc' = "start"
  /\ UNCHANGED <<cfg, worldVars, heldVars, published, err, first, session, counterVars,
                 exitCode, historyVars>>

SecondSTUNFails ==
  /\ pc = "secondStun"
  /\ \/ STUNFails /\ source' = source
     \/ STUNLosesAddress /\ source' = None
  /\ CloseWith("noServer")
  /\ UNCHANGED <<cfg, worldVars, heldVars, published, first, mapping, session,
                 counterVars, exitCode, historyVars>>

StartForwarder ==
  /\ pc = "start"
  /\ session' = session \cup {"Forwarder"}
  /\ fwd' = mapping.inner
  /\ leaked' = leaked \ {"Forwarder"}
  /\ pc' = IF cfg.upnp THEN "upnp" ELSE "notify"
  /\ UNCHANGED <<cfg, worldVars, kaOpen, router, published, err, source, first, mapping,
                 counterVars, exitCode, staleTicks, leaseVars>>

\* Start fails; its own rollback can fail too and leave the rules behind.
\* Binding an address the host has lost fails with EADDRNOTAVAIL.
StartForwarderFails(rolledBack) ==
  /\ pc = "start"
  /\ session' = session \cup {"Forwarder"}
  /\ fwd' = IF rolledBack THEN fwd ELSE mapping.inner
  /\ leaked' = IF rolledBack THEN leaked ELSE leaked \cup {"Forwarder"}
  /\ \/ CloseWith("fatal")
     \/ AddrOf[mapping.inner] # addr /\ CloseWith("addrUnavailable")
  /\ UNCHANGED <<cfg, worldVars, kaOpen, router, published, source, first, mapping,
                 counterVars, exitCode, staleTicks, leaseVars>>

\* Slip: the mapper is attached to the session only when it is committed.
MutUPnPForward ==
  /\ pc = "upnp"
  /\ router' = mapping.inner
  /\ leaked' = leaked \ {"UPnP"}
  /\ leaseAge' = 0 /\ renewal' = "none" /\ failedBefore' = 0
  /\ pc' = "notify"
  /\ UNCHANGED <<cfg, worldVars, fwd, kaOpen, published, err, source, first, mapping,
                 session, counterVars, exitCode, staleTicks>>

UPnPForward ==
  /\ pc = "upnp"
  /\ router' = mapping.inner
  /\ session' = session \cup {"UPnP"}
  /\ leaked' = leaked \ {"UPnP"}
  /\ leaseAge' = 0 /\ renewal' = "none" /\ failedBefore' = 0
  /\ pc' = "notify"
  /\ UNCHANGED <<cfg, worldVars, fwd, kaOpen, published, err, source, first, mapping,
                 counterVars, exitCode, staleTicks>>

\* Only reported.  The router may have applied a request whose reply was lost.
UPnPForwardFails(applied) ==
  /\ pc = "upnp"
  /\ router' = IF applied THEN mapping.inner ELSE router
  /\ leaked' = IF applied THEN leaked \cup {"UPnP"} ELSE leaked
  /\ pc' = "notify"
  /\ UNCHANGED <<cfg, worldVars, fwd, kaOpen, published, err, source, first, mapping,
                 session, counterVars, exitCode, staleTicks, leaseVars>>

Notify ==
  /\ pc = "notify"
  /\ published' = mapping
  /\ pc' = "check"
  /\ UNCHANGED <<cfg, worldVars, heldVars, err, source, first, mapping, session,
                 counterVars, exitCode, historyVars>>

\* Writing the status file failed.
NotifyFails ==
  /\ pc = "notify"
  /\ CloseWith("fatal")
  /\ UNCHANGED <<cfg, worldVars, heldVars, published, source, first, mapping, session,
                 counterVars, exitCode, historyVars>>

\* The lease grows older by some time, up to its end.
Aged(age, time) ==
  IF "UPnP" \notin session THEN age
  ELSE IF age + time < LeaseDuration THEN age + time ELSE LeaseDuration

\* checkInitialPorts, then the session is committed and RunLoop starts counting.
Commit ==
  /\ pc = "check"
  /\ ~(cfg.retryTarget /\ ~targetOpen)
  /\ keepAliveFailures' = 0 /\ stunFailures' = 0 /\ count' = 0
  /\ staleTicks' = 0
  /\ leaseAge' = Aged(leaseAge, StartTime)
  /\ pc' = "loop"
  /\ UNCHANGED <<cfg, worldVars, heldVars, published, err, source, first, mapping,
                 session, exitCode, leaked, renewal, failedBefore>>

TargetClosed ==
  /\ pc = "check"
  /\ cfg.retryTarget /\ ~targetOpen
  /\ CloseWith("targetClosed")
  /\ UNCHANGED <<cfg, worldVars, heldVars, published, source, first, mapping, session,
                 counterVars, exitCode, historyVars>>

-----------------------------------------------------------------------------
(* RunLoop: the two cases of its select, and the recheck.                  *)

\* Slip: the context is looked at only after a failed keep-alive.
MutDone ==
  /\ pc = "loop"
  /\ canceled /\ keepAliveFailures > 0
  /\ CloseWith("nil")
  /\ UNCHANGED <<cfg, worldVars, heldVars, published, source, first, mapping, session,
                 counterVars, exitCode, historyVars>>

Done ==
  /\ pc = "loop"
  /\ canceled
  /\ CloseWith("nil")
  /\ UNCHANGED <<cfg, worldVars, heldVars, published, source, first, mapping, session,
                 counterVars, exitCode, historyVars>>

Stale == nat[mapping.inner] # mapping.outer

\* Ticks a changed mapping can survive; staleTicks stops counting above it.
StaleBound == RecheckEvery * STUNLimit * KeepAliveLimit

CountTick ==
  /\ pc = "loop"
  /\ staleTicks' = IF ~Stale THEN 0
                    ELSE IF staleTicks <= StaleBound THEN staleTicks + 1 ELSE staleTicks
  /\ leaseAge' = Aged(leaseAge, TickGap)

KeepAliveLosesAddressTick ==
  /\ CountTick
  /\ KeepAliveLosesAddress
  /\ kaOpen' = FALSE
  /\ CloseWith("localAddressChanged")
  /\ UNCHANGED <<cfg, worldVars, fwd, router, published, source, first, mapping, session,
                 counterVars, exitCode, leaked, renewal, failedBefore>>

KeepAliveFailsTick ==
  /\ CountTick
  /\ KeepAliveTimesOut
  /\ kaOpen' = FALSE
  /\ keepAliveFailures' = keepAliveFailures + 1
  /\ IF keepAliveFailures' >= KeepAliveLimit
       THEN CloseWith("keepAliveFailed")
       ELSE UNCHANGED <<pc, err>>
  /\ UNCHANGED <<cfg, worldVars, fwd, router, published, source, first, mapping, session,
                 stunFailures, count, exitCode, leaked, renewal, failedBefore>>

\* Every RecheckEvery-th success is followed by a recheck.
CountSuccess ==
  IF count + 1 >= RecheckEvery
    THEN count' = 0 /\ pc' = "recheck"
    ELSE count' = count + 1 /\ pc' = "loop"

\* Slip: a successful keep-alive forgives the failed rechecks too.
MutKeepAliveTick ==
  /\ CountTick
  /\ KeepAliveAnswers
  /\ kaOpen' = TRUE
  /\ keepAliveFailures' = 0 /\ stunFailures' = 0
  /\ IF "UPnP" \in session
       THEN pc' = "renew" /\ failedBefore' = keepAliveFailures /\ UNCHANGED count
       ELSE CountSuccess /\ UNCHANGED failedBefore
  /\ UNCHANGED <<cfg, worldVars, fwd, router, published, err, source, first, mapping,
                 session, exitCode, leaked, renewal>>

\* Slip: the lease is renewed only when a recheck is due.
MutRenewWithRecheck ==
  /\ CountTick
  /\ KeepAliveAnswers
  /\ kaOpen' = TRUE
  /\ keepAliveFailures' = 0
  /\ IF "UPnP" \in session /\ count + 1 >= RecheckEvery
       THEN pc' = "renew" /\ failedBefore' = keepAliveFailures /\ UNCHANGED count
       ELSE CountSuccess /\ UNCHANGED failedBefore
  /\ UNCHANGED <<cfg, worldVars, fwd, router, published, err, source, first, mapping,
                 session, stunFailures, exitCode, leaked, renewal>>

KeepAliveTick ==
  /\ CountTick
  /\ KeepAliveAnswers
  /\ kaOpen' = TRUE
  /\ keepAliveFailures' = 0
  /\ IF "UPnP" \in session
       THEN pc' = "renew" /\ failedBefore' = keepAliveFailures /\ UNCHANGED count
       ELSE CountSuccess /\ UNCHANGED failedBefore
  /\ UNCHANGED <<cfg, worldVars, fwd, router, published, err, source, first, mapping,
                 session, stunFailures, exitCode, leaked, renewal>>

\* A successful keep-alive renews the router's lease; an error is only reported,
\* and a lost reply can still have renewed it.
Renew ==
  /\ pc = "renew"
  /\ \/ router' = mapping.inner /\ leaseAge' = 0 /\ renewal' = "accepted"
     \/ router' \in {router, mapping.inner} /\ leaseAge' = leaseAge /\ renewal' = "failed"
  /\ failedBefore' = 0
  /\ CountSuccess
  /\ UNCHANGED <<cfg, worldVars, fwd, kaOpen, published, err, source, first, mapping,
                 session, keepAliveFailures, stunFailures, exitCode, leaked, staleTicks>>

\* Slip: any answer is taken as proof that the mapping is alive.
MutRecheck(m) ==
  /\ pc = "recheck"
  /\ STUNAnswers(m)
  /\ source' = m.inner
  /\ stunFailures' = 0
  /\ pc' = "loop"
  /\ UNCHANGED <<cfg, worldVars, heldVars, published, err, first, mapping, session,
                 keepAliveFailures, count, exitCode, historyVars>>

Recheck(m) ==
  /\ pc = "recheck"
  /\ STUNAnswers(m)
  /\ source' = m.inner
  /\ stunFailures' = 0
  /\ IF m.outer # mapping.outer
       THEN CloseWith("mappingChanged")
       ELSE pc' = "loop" /\ UNCHANGED err
  /\ UNCHANGED <<cfg, worldVars, heldVars, published, first, mapping, session,
                 keepAliveFailures, count, exitCode, historyVars>>

RecheckLosesAddress ==
  /\ pc = "recheck"
  /\ STUNLosesAddress
  /\ source' = None
  /\ CloseWith("localAddressChanged")
  /\ UNCHANGED <<cfg, worldVars, heldVars, published, first, mapping, session,
                 counterVars, exitCode, historyVars>>

RecheckFails ==
  /\ pc = "recheck"
  /\ STUNFails
  /\ stunFailures' = stunFailures + 1
  /\ IF stunFailures' >= STUNLimit
       THEN CloseWith("noServer")
       ELSE pc' = "loop" /\ UNCHANGED err
  /\ UNCHANGED <<cfg, worldVars, heldVars, published, source, first, mapping, session,
                 keepAliveFailures, count, exitCode, historyVars>>

-----------------------------------------------------------------------------
(* Session.Close: every field is released and forgotten, whatever the      *)
(* release answers.                                                        *)

StopForwarder(ok) ==
  IF "Forwarder" \in session /\ "Forwarder" \notin leaked
    THEN IF ok THEN fwd' = None ELSE fwd' = fwd
    ELSE fwd' = fwd

RevokeUPnP(ok) ==
  IF "UPnP" \in session /\ ok THEN router' = None ELSE router' = router

\* The counters, the observations and the STUN client are local to the run.
CloseSession(stopOk, revokeOk) ==
  /\ pc = "close"
  /\ StopForwarder(stopOk)
  /\ kaOpen' = IF "KeepAlive" \in session THEN FALSE ELSE kaOpen
  /\ RevokeUPnP(revokeOk)
  /\ session' = {}
  /\ leaked' = leaked \cup {f \in session : \/ f = "Forwarder" /\ fwd # None /\ ~stopOk
                                            \/ f = "UPnP" /\ router # None /\ ~revokeOk}
  /\ source' = None /\ first' = NoPair /\ mapping' = NoPair
  /\ keepAliveFailures' = 0 /\ stunFailures' = 0 /\ count' = 0
  /\ staleTicks' = 0 /\ leaseAge' = 0 /\ renewal' = "none" /\ failedBefore' = 0
  /\ pc' = "returned"
  /\ UNCHANGED <<cfg, worldVars, published, err, exitCode>>

-----------------------------------------------------------------------------
(* RunWithRetry, and the exit status RunContext gives it.                  *)

ExitChanged == cfg.exitWhenChanged /\ err \in Changed
Retries     == err \in Retryable /\ ~canceled /\ ~ExitChanged

RunEnds ==
  /\ pc = "returned"
  /\ ~Retries
  /\ pc' = "exited"
  /\ exitCode' = IF err = "nil" \/ canceled \/ ExitChanged THEN 0 ELSE 1
  /\ UNCHANGED <<cfg, worldVars, heldVars, published, err, source, first, mapping,
                 session, counterVars, historyVars>>

RunRetries ==
  /\ pc = "returned"
  /\ Retries
  /\ pc' = "backoff"
  /\ UNCHANGED <<cfg, worldVars, heldVars, published, err, source, first, mapping,
                 session, counterVars, exitCode, historyVars>>

BackoffCanceled ==
  /\ pc = "backoff"
  /\ canceled
  /\ pc' = "exited"
  /\ exitCode' = 0
  /\ UNCHANGED <<cfg, worldVars, heldVars, published, err, source, first, mapping,
                 session, counterVars, historyVars>>

\* The timer fires; run() builds a new STUN client and calls RunLoop again.
BackoffElapsed ==
  /\ pc = "backoff"
  /\ pc' = "firstStun"
  /\ err' = "nil"
  /\ UNCHANGED <<cfg, worldVars, heldVars, published, source, first, mapping, session,
                 counterVars, exitCode, historyVars>>

-----------------------------------------------------------------------------
(* The world.                                                              *)

processVars == <<cfg, heldVars, published, pc, err, source, first, mapping, session,
                 counterVars, exitCode, leaked, leaseVars>>

AddressChanges(a) ==
  /\ addr # a
  /\ addr' = a
  /\ UNCHANGED <<nat, stunUp, kaUp, targetOpen, canceled, staleTicks, processVars>>

NATRebinds(i, o) ==
  /\ nat[i] # o
  /\ nat' = [nat EXCEPT ![i] = o]
  /\ staleTicks' = 0
  /\ UNCHANGED <<addr, stunUp, kaUp, targetOpen, canceled, processVars>>

ReachabilityChanges ==
  /\ \/ stunUp' = ~stunUp /\ UNCHANGED <<kaUp, targetOpen>>
     \/ kaUp' = ~kaUp /\ UNCHANGED <<stunUp, targetOpen>>
     \/ targetOpen' = ~targetOpen /\ UNCHANGED <<stunUp, kaUp>>
  /\ UNCHANGED <<addr, nat, canceled, staleTicks, processVars>>

Cancel ==
  /\ ~canceled
  /\ canceled' = TRUE
  /\ UNCHANGED <<addr, nat, stunUp, kaUp, targetOpen, staleTicks, processVars>>

\* What can pass, after the time leaseAge tells, until the engine's next step.
Pending == IF pc = "renew" THEN TickTime
           ELSE IF pc \in {"loop", "recheck"} THEN TickGap
           ELSE StartTime

\* The router drops a mapping whose lease may have ended by the engine's next
\* step.  A mapping no session renews, or one that is being revoked, can be of
\* any age.
LeaseExpires ==
  /\ router # None
  /\ "UPnP" \in session /\ pc # "close" => leaseAge + Pending >= LeaseDuration
  /\ router' = None
  /\ UNCHANGED <<cfg, worldVars, fwd, kaOpen, published, pc, err, source, first, mapping,
                 session, counterVars, exitCode, historyVars>>

-----------------------------------------------------------------------------

StartSession ==
  \/ \E m \in Observed : FirstSTUN(m) \/ SecondSTUN(m)
  \/ FirstSTUNFails \/ SecondSTUNFails
  \/ FirstKeepAlive \/ FirstKeepAliveFails
  \/ StartForwarder \/ \E rolledBack \in BOOLEAN : StartForwarderFails(rolledBack)
  \/ UPnPForward \/ \E applied \in BOOLEAN : UPnPForwardFails(applied)
  \/ Notify \/ NotifyFails
  \/ Commit \/ TargetClosed

RunLoop ==
  \/ Done
  \/ KeepAliveTick \/ KeepAliveFailsTick \/ KeepAliveLosesAddressTick
  \/ Renew
  \/ \E m \in Observed : Recheck(m)
  \/ RecheckFails \/ RecheckLosesAddress
  \/ \E stopOk, revokeOk \in BOOLEAN : CloseSession(stopOk, revokeOk)

RunWithRetry == RunEnds \/ RunRetries \/ BackoffCanceled \/ BackoffElapsed

Process == StartSession \/ RunLoop \/ RunWithRetry

\* The world after the process has exited is of no interest.
World ==
  /\ pc # "exited"
  /\ \/ \E a \in Addrs \cup {None} : AddressChanges(a)
     \/ \E i \in Inners, o \in Outers : NATRebinds(i, o)
     \/ ReachabilityChanges
     \/ Cancel
     \/ LeaseExpires

Exited == pc = "exited" /\ UNCHANGED vars

Next == Process \/ World \/ Exited

Spec == Init /\ [][Next]_vars

(***************************************************************************)
(* Every call has a timeout and the ticker keeps firing, so the process    *)
(* goes on.  Go's select picks at random among the ready cases, so a       *)
(* context that is done is not ignored for ever in favour of the ticker.   *)
(* Nothing is assumed of the world.                                        *)
(***************************************************************************)
Fairness == WF_vars(Process) /\ SF_vars(Done) /\ SF_vars(BackoffCanceled)

FairSpec == Spec /\ Fairness

-----------------------------------------------------------------------------
(* Properties.                                                             *)

WorldTypeOK ==
  /\ addr \in Addrs \cup {None}
  /\ nat \in [Inners -> Outers]
  /\ stunUp \in BOOLEAN /\ kaUp \in BOOLEAN
  /\ targetOpen \in BOOLEAN /\ canceled \in BOOLEAN

HeldTypeOK ==
  /\ fwd \in Inners \cup {None}
  /\ kaOpen \in BOOLEAN
  /\ router \in Inners \cup {None}
  /\ published \in Pairs

ProcessTypeOK ==
  /\ cfg \in Options
  /\ pc \in Labels /\ err \in Errors
  /\ source \in Inners \cup {None}
  /\ first \in Pairs /\ mapping \in Pairs
  /\ session \in SUBSET Fields
  /\ keepAliveFailures \in Nat /\ stunFailures \in Nat /\ count \in Nat
  /\ exitCode \in {None, 0, 1}

HistoryTypeOK ==
  /\ leaked \in SUBSET Fields
  /\ staleTicks \in Nat
  /\ leaseAge \in Nat /\ renewal \in Renewals /\ failedBefore \in Nat

\* The variables keep their types (the types of the Go variables they stand for).
TypeOK == WorldTypeOK /\ HeldTypeOK /\ ProcessTypeOK /\ HistoryTypeOK

\* In RunLoop, and from the announcement on.
Looping == pc \in {"loop", "renew", "recheck"}
Serving == pc = "check" \/ Looping

\* The fields Session has at each point of the engine.
SessionShape ==
  /\ pc \in {"firstStun", "returned", "backoff", "exited"} => session = {}
  /\ pc \in {"firstKeepAlive", "secondStun", "start", "close"} => "KeepAlive" \in session
  /\ pc = "renew" => "UPnP" \in session
  /\ pc \in {"upnp", "notify"} \/ Serving
       => {"Forwarder", "KeepAlive"} \subseteq session

\* Everything the process has outside itself is in a field of the session that
\* Close will release, on every path of StartSession and RunLoop, unless a
\* release (or the reply to the router's request) was itself lost.
ResourcesOwned ==
  /\ fwd # None => "Forwarder" \in session \cup leaked
  /\ router # None => "UPnP" \in session \cup leaked
  /\ kaOpen => "KeepAlive" \in session
  /\ pc \in {"firstStun", "returned", "backoff", "exited"} => session = {}

\* The observations and what is built from them, at each point of the engine.
PairShape ==
  /\ pc \in {"firstKeepAlive", "secondStun", "start", "upnp", "notify"} \/ Serving
       => first \in Observed
  /\ pc \in {"start", "upnp", "notify"} \/ Serving
       => mapping \in Observed /\ mapping.inner = first.inner
  /\ pc \in {"upnp", "notify"} \/ Serving => fwd = mapping.inner
  /\ Serving => published = mapping

\* G-14: the pair announced to the user is the one the forwarder serves and the
\* keep-alive client keeps open, also when the second STUN query came from
\* another local port.
AnnouncedPairServed ==
  Serving => /\ published = mapping
             /\ fwd = mapping.inner
             /\ first.inner = mapping.inner
             /\ {"Forwarder", "KeepAlive"} \subseteq session

\* The failure counters stay under their limits while the loop runs.
CountersShape ==
  /\ pc = "loop" => /\ keepAliveFailures < KeepAliveLimit
                    /\ stunFailures < STUNLimit
                    /\ count < RecheckEvery
  /\ pc = "renew" => /\ keepAliveFailures = 0
                     /\ stunFailures < STUNLimit
                     /\ count < RecheckEvery
  /\ pc = "recheck" => keepAliveFailures = 0 /\ stunFailures < STUNLimit /\ count = 0

\* stun.Client goes on querying from the port it first observed.
SourceShape ==
  pc \in {"firstKeepAlive", "secondStun", "start", "upnp", "notify"} \/ Serving
    => source = first.inner

\* How many ticks the counters account for since the pair went stale.
StaleShape ==
  /\ Looping /\ ~Stale => staleTicks = 0
  /\ pc = "loop" =>
       staleTicks <= (stunFailures * RecheckEvery + count) * KeepAliveLimit
                       + keepAliveFailures
  /\ pc = "renew" =>
       staleTicks <= (stunFailures * RecheckEvery + count + 1) * KeepAliveLimit
  /\ pc = "recheck" =>
       staleTicks <= (stunFailures * RecheckEvery + RecheckEvery) * KeepAliveLimit
  /\ staleTicks <= StaleBound

\* RunLoop notices that the NAT left the announced pair within RecheckEvery
\* successful keep-alives for each of the STUNLimit rechecks, each preceded by
\* less than KeepAliveLimit failures, however failures and successes mix.
ChangeNoticedInTime == ~InnerDrift => staleTicks <= StaleBound

FailedInARow == keepAliveFailures + failedBefore

\* The age the lease can have reached by the last tick that failed, or when the
\* loop began, if no Renew has failed: it dates from AddPortMapping or from the
\* tick in which it was last renewed.
AgeLimit == (IF renewal = "none" THEN StartTime ELSE 0) + FailedInARow * TickGap

\* The same until the next tick, or until the renewal has been sent.
AgeUntilThen == AgeLimit + TickGap + (IF pc = "renew" THEN TickTime ELSE 0)

\* The age of the lease, and what the router makes of it, follow the keep-alive
\* failures since the last renewal.
LeaseShape ==
  /\ pc \in {"firstKeepAlive", "secondStun", "start", "upnp"} => "UPnP" \notin session
  /\ pc # "renew" => failedBefore = 0
  /\ pc \in {"notify", "check"} /\ "UPnP" \in session =>
       /\ renewal = "none" /\ leaseAge = 0
       /\ router = mapping.inner \/ StartTime >= LeaseDuration
  /\ Looping /\ "UPnP" \in session /\ renewal # "failed" =>
       /\ leaseAge <= AgeLimit + (IF pc = "renew" THEN TickGap ELSE 0)
       /\ router = mapping.inner \/ AgeUntilThen >= LeaseDuration

\* The router's mapping outlasts keep-alive failures as long as its lease covers
\* them: while the intervals of the failures in a row, of the next tick and of
\* that tick's keep-alive, and for the first lease the time StartSession took,
\* add up to less than the lease, the port is open at the router, also when
\* Renew comes.  With the code's lease of three intervals that is one failure,
\* and in the first lease one only if StartSession took less than an interval;
\* after more the port may be closed until Renew.  Nothing is said after a Renew
\* that failed.
PortStaysOpen ==
  /\ Looping /\ "UPnP" \in session /\ renewal # "failed"
  /\ AgeUntilThen < LeaseDuration
  => router = mapping.inner

-----------------------------------------------------------------------------
(* What the engine promises its user, and that it keeps the promise.       *)

ServicePhase == IF pc = "exited" THEN "stopped"
                ELSE IF Serving THEN "serving"
                ELSE IF pc = "close" THEN "releasing"
                ELSE "idle"

ServicePair == IF Serving THEN [inner |-> fwd, outer |-> published.outer] ELSE NoPair

Service == INSTANCE MappingService WITH phase <- ServicePhase, pair <- ServicePair

\* The engine implements MappingService: the pair the forwarder and the
\* announcement make up is withdrawn and Session.Close has run before a run
\* announces the next one or RunWithRetry returns.
ServesOnePairAtATime == Service!Spec

\* SIGTERM ends the process from wherever the engine is: StartSession, the loop,
\* a recheck, a release or the delay between two runs.
CancelStops == canceled ~> pc = "exited"

Settled(i, o) ==
  /\ addr = AddrOf[i] /\ nat[i] = o
  /\ stunUp /\ kaUp /\ targetOpen /\ ~canceled

\* Whatever happened before, once the host's address, the NAT, the servers and
\* the target stay put, the engine ends up serving the NAT's present answer for
\* good, unless the process ended (with -q, or on an error RunWithRetry does not
\* retry).
Recovers ==
  \A i \in Inners, o \in Outers :
    <>[]Settled(i, o) =>
      <>[]( \/ pc = "exited"
           \/ /\ Looping
              /\ published.outer = nat[published.inner]
              /\ AddrOf[published.inner] = addr )
=============================================================================
