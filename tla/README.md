# QNatter in TLA+

QNatter opens a port behind a full-cone NAT on an OpenWrt router. This directory holds
TLA+ modules for its control logic, the TLC configurations that check them and the
theorems TLAPS proves about them.

## 1. The system

| Part | Source | State it keeps | Operations | Interacts with |
|---|---|---|---|---|
| engine | `go-qnatter/internal/engine` | `Session` (forwarder, keep-alive client, UPnP mapper, result), the failure and recheck counters of `RunLoop` | `StartSession`, `RunLoop`, `Session.Close`, `RunWithRetry`, `UPnPClient` | STUN client, keep-alive client, forwarder, router, notify |
| STUN client | `internal/stun` | `Source`, order of `Servers` | `GetMapping`, `rotateServer`, `ParseMappedAddress` | engine, STUN servers |
| keep-alive clients | `internal/keepalive` | the connection | `KeepAlive`, `Close` | engine |
| built-in forwarder | `forward/socket.go`, `forward/portconflict.go` | listening socket; the relays (TCP) or the table of clients (UDP) | `Start`, `Stop`, `acceptLoop`, `handleTCP`, `udpLoop`, the sweeper | kernel, clients, target, the keep-alive socket on the same port |
| nftables forwarder | `forward/nftables*.go` | the handles of up to four rules | `Start`, `Stop` | the table `ip qnatter`, policy routing, other instances |
| external forwarders | `forward/external.go` | the child process | `Start`, `Stop`, `reap` | socat, gost |
| UPnP | `internal/upnp`, `engine/upnp.go` | the service found | `Forward`, `Renew`, `Revoke`, discovery | hosts on the LAN |
| notify, status | `internal/notify`, `internal/status` | status file | `Run` | notify script |
| service | `files/qnatter.init`, `files/qnatter-common.sh` | runtime directory (fingerprints, instance list), UCI, nftables table, policy rules | `start`, `stop`, `reload`, route slots | procd, UCI, kernel |
| wrapper | `files/qnatter-run` | `<slug>.respawn`, status file | one start | procd, status page |
| notify script | `files/qnatter-notify` | status file, UCI firewall, Cloudflare records, qBittorrent | one callback | UCI, remote services |
| command `check` | `internal/check`, `internal/portcheck` | the results of a test | `CheckTCP`, `CheckUDPNATType`, `TestWAN` | STUN servers, two web services |
| rpcd, LuCI, status | `luci-app-qnatter`, `internal/status` | none | queries, commits | user |

Everything in the Go process is written for one instance; a device runs one process per enabled
instance. They share the nft table `ip qnatter`, the runtime directory, `/etc/config/qnatter`,
the firewall's configuration and the range of route slots.

How the parts interact:

- `qnatter.init` writes a fingerprint per instance and declares it to procd; procd runs
  `qnatter-run`, which counts restarts and becomes `qnatter-go`.
- `qnatter-go` runs `RunWithRetry` around `runOnce` = `StartSession` + `RunLoop` + `Close`.
  `StartSession` asks the STUN client, opens a keep-alive connection, starts a forwarder, asks the
  router by UPnP and calls notify; `RunLoop` is one goroutine with a ticker and a context.
- notify writes the status file and runs `qnatter-notify`, which reads it, edits the firewall and
  informs remote services. LuCI and rpcd read the status file and commit configuration, which
  triggers `reload`.

What is hard here, and where it is treated:

| Behaviour | Where in the code | Module |
|---|---|---|
| a run that fails at any point must leave nothing behind | `run_once.go` (deferred `Close`) | Engine |
| failure counters that mix, a lease that runs on while keep-alives fail | `loop.go`, `upnp.go` | Engine |
| cancellation racing ticks, timeouts and the backoff | `loop.go`, `retry.go` | Engine |
| invocations of one script that overlap, commits in between | `qnatter.init`, hotplug | Service, RouteSlots |
| processes of two generations sharing one nft table | `qnatter.init`, `nftables_executor.go` | Service |
| failed commits, reboots with staged values | `qnatter.init` | RouteSlots |
| scripts that outlive their process, one staging area for all, commands that fail half way | `qnatter-notify`, `notify.go` | Notify |
| a map of sockets used by the loop, readers, a sweeper and Stop | `forward/socket.go` | UdpForwarder |
| two copies of one connection that end on their own, half-close, reset | `forward/socket.go` | TcpForwarder |
| a child that ends, or does not, when it likes; a program that is killed | `forward/external.go` | ExternalForwarder |
| rules of several processes in one chain, of which some read the same; commands that fail | `nftables_executor.go` | NftForwarder |
| probing for a listener and binding are two steps | `portconflict.go`, `socket.go` | SharedPort |
| lost, late, repeated and damaged answers | `stun/client.go`, `message.go` | StunClient |
| a LAN full of hosts that answer a search, lost SOAP responses | `upnp/discovery.go`, `engine/upnp.go` | UpnpClient |
| no answer has to be told from a NAT that lets nothing in | `check.go` | NatCheck |

What makes each part correct:

- engine: nothing it opened outlives it; the pair it announces is the pair it serves; a changed
  mapping is noticed in bounded time; the router's port stays open through the failures its lease covers;
  a signal always ends it; it recovers from any outage;
- service: a reload ends no process it does not have to; what is configured ends up running; a live
  process keeps its rules, but for two cases that can be named;
- route slots: distinct within what one invocation declares, and stable over time;
- UDP forwarder: no socket leaks, their number is bounded, a socket in the table is usable, stop
  frees everything;
- notify: once a callback has run undisturbed, the status file, the remote targets and the firewall
  follow the mapping; no other instance closes its port;
- TCP forwarder: a closed relay has carried over everything; a relay whose one side has ended ends;
- external forwarders: `Stop` and a failing `Start` leave no child behind, and `Stop` returns;
- nftables forwarder: every rule is counted on by somebody or was reported as not removed; a `Start` that
  returned without error has all its rules;
- shared port: two processes receive the same connections only if both started at once;
- STUN client: the mapping returned is one of the present call, and every server is asked before a call fails;
- UPnP: the router is found among others, and no mapping is forgotten;
- keep-alive: a success over TCP is no late answer to a request that has failed;
- check: no verdict is better than the NAT, but for a "restricted" that a careless server can cause, and with
  nothing lost it is the right one;
- wrapper: its count agrees with procd's, but for the cases that can be named.

## 2. Plan

Written, in this order, the most important first:

1. `Engine` with the abstract `MappingService` it implements, `EngineProofs`;
2. `Service`, which takes the engine as "installs its rules, later removes them", with `ServiceProofs`;
3. `RouteSlots` and `RouteSlotsProofs`, the part of the service that keeps persistent data;
4. `UdpForwarder` and `UdpForwarderProofs`, the concurrent part of a forwarder;
5. `Notify`, what a mapping sets in motion outside the process, with `NotifyProofs`;
6. the other forwarders and what they meet in: `TcpForwarder`, `ExternalForwarder`, `SharedPort`, `NftForwarder` with
   `NftForwarderProofs`;
7. the clients of the network: `StunClient`, `UpnpClient`, `KeepAliveClient`, `NatCheck`, with `ClientProofs`;
8. `Respawn`, the wrapper each start goes through; `PartsProofs` is about it and the three small parts of 6;
9. `Program`, which composes 4 and 6 to 8 into the one program they are parts of.

Left, in the order they are worth doing:

| Subject | Source | Question |
|---|---|---|
| `start` beside a reload | `qnatter.init`, rc.common | `LiveRulesKept` and `SparesUnchanged` fail there (`StartsAlone`); what still holds of a process that survives both |
| commits while a reload runs | `qnatter.init:658` | `AppliedWhenQuiet` for commits before the load of the configuration, which `Calm` leaves out |
| the clock of the wrapper | `qnatter-run:77` | a run that ends within the delay of the threshold: by how much the two counts may differ |

## 3. The modules and the code

One action is the code between two points where something else can happen: a call that blocks (Go),
a command of the script whose effect others see (shell), a critical section (UDP table). Logging,
formats and addresses as such are left out; endpoints, fingerprints and sockets are model values.

### Engine, MappingService

The engine has four groups of variables: the world (`addr`, `nat`, `stunUp`, `kaUp`, `targetOpen`,
`canceled`), what it holds outside itself (`fwd`, `kaOpen`, `router`, `published`), its own state
(`pc`, `err`, `source`, `first`, `mapping`, `session`, the counters of `RunLoop`), and history
variables no guard of the program's actions reads (`leaked`, `staleTicks`, `leaseAge`, `renewal`, `failedBefore`).

| Go | TLA+ |
|---|---|
| `StartSession` | `FirstSTUN`, `FirstKeepAlive`, `SecondSTUN` with `ChooseMapping` (G-14), `StartForwarder`, `UPnPForward`, `Notify`, `Commit` or `TargetClosed`, and the failure of each |
| `RunLoop` | `Done`, `CountTick` in `KeepAliveTick`, `KeepAliveFailsTick`, `KeepAliveLosesAddressTick`; `Renew`, then `CountSuccess`; `Recheck`, `RecheckFails`, `RecheckLosesAddress` |
| `Session.Close` | `CloseSession`, in which each release may fail (`leaked`) |
| `RunWithRetry` | `RunEnds`, `RunRetries`, `BackoffElapsed`, `BackoffCanceled` |
| `exitWhenChanged`, `retryable` | `ExitChanged`, `Retries`, over the set of errors `Errors` |
| STUN and keep-alive clients | `STUNAnswers`, `STUNFails`, `STUNLosesAddress`, `KeepAlive...`: what they may answer given the world |

`InnerDrift` says whether the STUN client keeps its source. `stun.Client` does; the interface allows
any client, and G-14 exists for one that does not, so the announced pair is checked with
`InnerDrift = TRUE`.

The lease is measured in time. `leaseAge` is the most time that can have passed since the router accepted it:
nothing else is known of the ticks, as Go's ticker drops those it cannot deliver. It grows by
`StartTime` before the first wait for a tick (notify's 30 s and the initial checks come after `AddPortMapping`), by
`TickGap` from one handled tick to the next (the interval, and what the last tick took beyond it), and before a renewal is sent
another `TickTime` may pass (redial and reading, `keepalive/tcp.go`). `LeaseExpires`, the router's step, is enabled as soon as the lease of
`LeaseDuration` may have ended by the engine's next step. `renewal` is what came of the last `Renew`, and
`failedBefore` the failures in a row that preceded it.

`MappingService` is what a user sees: idle, serving one pair, releasing, stopped. `Engine` implements it
with `phase` from `pc` and `pair` from what the forwarder serves and notify announced
(`ServesOnePairAtATime`).

### Service

`config` is UCI; `list` and `runtime` are the files in `/var/run/qnatter` that a reload compares with;
`procd` and `run` are what procd was told and what it made of it; `old` is a process that was told to
end and has not; `rules` says whose rules the nft table holds. Each of `Scripts` is an invocation of
the init script with a program counter. Two variables are history: `forgotten`, the instances that procd ran when a reload
wrote a list without them, and `raced`, those whose process was launched after a `start` had found no backend alive and
before it flushed the tables.

| `qnatter.init` | TLA+ |
|---|---|
| `reload_service`: `config_load`, stop when disabled | `LoadForReload` (before the lock, as in the code), `TakeLock`, `SkipReload` |
| `qnatter_hot_reload_service` | `HotLoad`, `HotReload`, `NotHot`, `HotReloadFails` |
| phases 1 to 4 | `PrepareFingerprints`, `DeleteInstances`, `FlushEmpty`, `Restart`, `Publish` |
| `start_service` | `CheckBackends` (`qnatter_backend_running`), `FlushLeftovers`, `StartInstances`, `StartInstanceFails`, `SetService` |
| `stop_service` | `StopFlushes`, `StopKills` |

rc.common and procd are external: `SetService` and `StopKills` do what the script relies on, `Launch`
and `Exit` are procd starting and noticing the end of a process. A busybox with `flock` is assumed; the
exit status of a nested `start` is that of `start_service`, as the script uses it.

### RouteSlots

A pass is one run of `qnatter_prepare_route_slots`: `Load`, one of `KeepSlot`, `AssignSlot`, `NoFreeSlot`,
`SetFails` for each section in the order of the file, then `ReturnFailed`, `CommitSlots`, `CommitFails` or
`NothingToCommit`. `slot` is what UCI shows (staged or committed), `flash` what survives `Reboot`. Passes
of overlapping invocations interleave; edits of LuCI may fall anywhere. `MaxSlot` is 4095 in the code.

### UdpForwarder

`udpLoop` is `Receive`, `Dial` or `DialFails`, `Add` or `TurnAway`, `Write` or `WriteFails`, `LoopEnds`; a reader
goroutine is `ReadFails` and `ReaderEnds`; `Sweep` and `Stop` are the others. `Drop` and `Forget` are what they
do under the mutex; `Close` is the call after the unlock, which any other step may precede. Sockets are
drawn from a finite set, so running out of them is part of the model. The clock (`FallIdle`) and the
target (`Refuse`) are external.

### TcpForwarder

A relay is "queued" in the kernel, then `Accept`, `DialTarget` or `DialTargetFails`; its two goroutines are `Copy` and
`CopyEnds` (`io.Copy`), `CloseWrite` (the half-close), and `CloseBoth` is what waits for both. `Connect`, `Send`, `Finish` and
`Reset` are the peers. `StopListening` is `Stop`, which leaves relays alone. Data are counted, so that what is cut off
shows.

### ExternalForwarder

| `external.go` | TLA+ |
|---|---|
| `startExternal`: the starter, the delay, "exited too quickly" | `StartChild`, `Started`, `TooQuick` |
| `stopExternal`: forget, interrupt, wait, kill, wait | `StopChild`, `Terminate`, `GraceOver`, `Waited` |
| `reap` | `Reap`, which alone makes `Exited` true |
| the child | `Exit`, at any time |
| a program that is killed and started again | `KillProgram`; its child is an orphan |

### NftForwarder

One action is one `nft` or `ip` command of `Start` or `Stop`, and every one may fail. `rules` are the rules of all
instances, each a text and a handle; `handles` are the four fields of the executor; `undeleted` counts per text the
failures to remove a rule.

| `nftables_executor.go`, `nftables.go` | TLA+ |
|---|---|
| `Start`: checks, `ensureTable` | `StartRules`, `Check`, `EnsureTable` |
| `insertRule`, `ParseNftablesHandle` | `InsertEchoes`, `InsertIsMute`, `InsertFails` |
| `deleteRuleBySpec`, `LookupRuleHandle` | `Lookup`, `LookupFails`, `DeleteFound` |
| `ensureRoutePolicy`, `ensureRouteMarkChain` | `EnsureRoutePolicy`, `DeletePolicyRule`, `EnsureMarkChain` |
| the order of the rules | `Proceed` |
| `Stop` | `StopRules`, `DeleteHeld` in the order of `FirstHeld`, `Stopped` |

`Service` takes the rules of a process as one unit; this module is what stands behind that.

### SharedPort

`entries` is what `/proc/net` shows. `OpenKeepAlive` and `CloseKeepAlive` are the process's own connected socket, which is no
listener; `Probe` and `RefuseStart` are `sharedListenPortError` with `AddrConflicts`; `Bind`, `BindFails` and `Release` the socket.
`overlap` is history: which two processes were between probe and bind at the same time.

### StunClient

`GetMapping` is `Call`, then for each server `Ask` or `AskFails`, and `ReceiveAnswer` or `Expire`; `NextServer` is the rest of its loop,
with `Rotate` and, after the last server, `GiveUp`. `Scan` is the loop of `ParseMappedAddress` over the attributes. The network
holds `flight`; `Lose`, `Rebind`, `AddressChanges` are its steps. Over UDP one socket address is used for all requests, so an
answer may belong to an earlier one.

### UpnpClient

`Search`, `Read`, `EndSearch`, `SearchFails` are `DiscoverLocations` (`Discard` doubles the buffer up to `MaxDoublings` times and loses
the answer; `Counts` and `QuotaLeft` are the quotas,
`Usable` the test that a location is on the host that sent it); `Load`, `LoadFails`, `NoRouter` are `DiscoverRouter`; `Forward`,
`ForwardFails`, `Renew`, `Revoke` are `engine/upnp.go` with `doSOAP`. A session has a new client, so `Search` begins without a service.
`Lapse` is the end of a lease, or a host that restarts. The length of an answer is the number of doublings after which the buffer holds
it. `MaxDoublings` is four in the code: from 4096 bytes, which hold a shorter answer at once, to 65507, the longest a datagram
can be. `longest` is history: the longest answer of the router in this search.

### KeepAliveClient

`KeepAlive` is `KeepAliveCall` (with the dial, if there is no connection; else `RedialFails`), `SendQuery` or `SendQueryFails`, then `ReadAnswer`,
`Deadline` or `ReadError`; every error closes the connection (`FailCall`), and a deadline is none for `TCPClient` once something came. `HangUp` is
`Close`. `Reaches` is where the two differ: a segment belongs to its connection, a datagram to whatever socket has the port,
which is always the same one.

### NatCheck

`CheckTCP` is `FullConeMapping`, `FullConePort` (with `TestWAN`), `Cone` and `ConeEnds`; `CheckUDPNATType` is `Test1`, `Test2`, `Test3`, `UDPEnds` with
`Verdict`; `ResolveFails` and `Cancel` end either. The NAT is a record that does not change: how it maps, whom it lets in, whether
ports and address are configured, which servers answer from another address when asked (`honest`). `Test3` takes any
answer, as `check.go:554` does, whatever port it came from.

### Respawn

`Declare` is procd's part of `start` for one instance, `RunExits` and `RespawnInstance` are procd's supervision, `StopInstance` its stop;
`Launch` is `qnatter-run` from reading its state file (`Failures`) to writing it anew, `LaunchUnwritten` the same when the
write fails. `runtime` and `fast` are what procd knows, `sinceStart` and `fastExits` what the file says. `Second` is time,
`ClockIsSet` a change of the time of day, which the wrapper measures by and procd does not. `apart` is history: why the two
counts may differ.

### Program

The forwarders, clients, the wrapper and the command `check` share no state inside a process, so a behaviour of `Program` is that of one
part (`part`), chosen at the start as `forward/factory.go` and the command do, while the others stand still. The engine, which
calls one after the other, is `Engine`. Where several processes meet, in the kernel's rules and sockets, the part itself has
several processes.

### Notify

Each script is a record with its instance, its mapping, what it read from the status file (`seen`) and a
program counter; `orphan` when its process was killed. `late` holds the commands whose script was killed by
the deadline. `view` is what `uci get` shows to everybody, `committed` the file, `loaded` what fw4 has.

| Code | TLA+ |
|---|---|
| `qnatter-run` removing the status file | `Start` |
| `notify.Run`: `WriteMapping`, the script, its deadline | `Announce`, `Returns`, `Timeout` |
| SIGTERM and SIGKILL by procd | `Down` (inside `notify.Run`, which has no context, only SIGKILL ends the process) |
| `previous_status` and the first write | `ReadStatus` |
| `update_auto_firewall` | `RuleUnchanged`, or `RuleChanged`, `DeleteRule`, `SetRule`, `AcceptRule`, `CommitRule` and their failures |
| `qnatter_firewall_reload` | `Reload`, `NoReload` (switched off, OpenClash, failure) |
| `update_cloudflare_srv`, the qBittorrent part, webhook, inline script | `Tell`, `TellFails`, `SkipWebhook`, `Report` |
| `rename_instance`, `cleanup_firewall_rule` | `Rename`, `Cleanup` |

The `uci set` commands before the one for the target are one step; a read-only request (login, current
record) is part of the request that follows it. That procd ends the process of a renamed instance is `Down`
at any time later. History variables say whether a callback began beside survivors (`haunted`), was cut
short or met a failure (`troubled`), and whether a commit or reload of the rule did not happen, or a command before it failed,
so that what is staged for good passes for installed (`missed`).

## 4. The runs

| Run | Instance | Shows |
|---|---|---|
| `engine` | one address, two ports, two NAT endpoints, all of `-q` and `-r`, limits 2 | the announced pair is the served one although the second query may come from another port; `MappingService` is implemented |
| `engine_upnp` | one endpoint, router, limits 3, a lease of 6 units, 2 for an interval | everything held is owned by the session; the router's port stays open through one failed keep-alive, which is what a renewed lease covers; a stale pair is noticed within `StaleBound` |
| `engine_live` | two addresses, `-r`, limits 2 | a signal ends the process; once the world is quiet the engine serves the present mapping |
| `service_reload` | two instances, two overlapping reloads, commits anywhere | one reload at a time is past the lock; no reload ends a process whose fingerprint it keeps |
| `service_rules` | two instances, boot, start, stop, reload one at a time, three commits at any point, a fault, a process that dies | a process that forwards keeps its rules, unless a reload has forgotten its instance or its session began between the check and the flush of a `start` |
| `service_apply` | the same without stop or faults, with fairness | the configuration is applied, an enabled instance is served unless procd has given it up or it has lost the race against a flush |
| `service_reenable`, `service_skipped`, `notify_skip` | smallest that shows it | the three findings below |
| `route_slots` | three sections, two slots, two passes, four edits, a fault, a reboot | slots are distinct and stay |
| `program` | every part of `Program` | UDP: sockets are owned, served, bounded and freed. TCP: nothing is cut off, relays end. External: no child runs on, `Stop` returns. nftables: rules are counted, a running forwarder is complete. Ports: shared only by a race. STUN: the mapping is of this call, all servers are asked. UPnP: a router that answers more often than its longest answer needs doublings is asked, nothing is forgotten. Check: verdicts are not too good, with one exception, and right if nothing is lost. Keep-alive: a success over TCP is a fresh one. Wrapper: who reads its file is told rightly that procd gives up |
| `notify` | two instances with a rule each, qBittorrent for one, a webhook for the other, two callbacks and one, a mishap, renames | an undisturbed callback leaves everything as its mapping needs it; an open port stays open |

Bounds and why they are enough. Engine: limits of two or three let counters mix, overflow and reset in every
order. In `engine_upnp` the lease is three intervals, as in the code: `LeaseDuration = 6` with `TickGap = 2`, and
`TickTime = 1`, `StartTime = 2` stand for delays below and of one interval. One failure before a renewal then adds up to 5, which the lease covers;
two, or one in the first lease, reach it and are not covered, and the router may drop the mapping (`LeaseExpires`). The four are bounds on time, and
`EngineProofs` holds for any of them. The
counters are reset at their limits by the code, and `staleTicks` and `leaseAge` are bounded by them, so
these runs need no artificial bound. Service: two instances are one that changes and one that must be left
alone; two prints are an old and a new content (one in `service_rules`, where only
being there matters); three commits, a reload that fails and a process that dies reach both exceptions of `LiveRulesKept`; `MaxEdits`, `MaxCalls`, `MaxFaults`, `MaxKills` bound commits,
invocations, failures and lost processes. RouteSlots: two slots for three sections make the range too
small, which 4096 slots are in practice not; `MaxEdits`, `MaxFaults`, `MaxReboots` are the bounds.

`program`, part by part. UDP: with a limit of one the second source is always at the limit, and three sockets are
one in the table, one being closed and one being dialled. TCP: relays do not touch each other, so one is enough; two
chunks per side are one before and one after the other side's end (`MaxChunks`). External: two children are one that
is left and its successor. nftables: two instances with one target, so their source NAT rules read the same, one with
an interface; four rules (`MaxHandle`) are all of one instance, or both pairs of equal ones. Ports: four processes, two
on one address and two on all addresses. STUN: two servers, four requests (`MaxTx`: two calls through all servers), two
mappings (`MaxOuter`). UPnP: three hosts, three answers (`MaxReplies`), two locations, two sources, so that each quota is reached before
the others in some behaviour, and the router can be silenced by others; two doublings, so that three answers of the router
are enough whatever their length, and one or two are not for longer ones. Check: three servers, since `CheckTCPCone` wants
three mappings; two ports to pick from. Keep-alive: three requests are a failed one, the next, and one on a connection that was
kept; two parts are one in time and one that is late. Wrapper: a threshold of three seconds, a delay of one and two
retries have runs well below the threshold, within the delay of it and above it; times are counted up to what they are
compared with (`UpTo`).

Notify: two callbacks of one
instance are what one run leaves to the next, with the second instance writing into the same staging area; the
two targets stand for all four, which differ in nothing but their order; `MaxMishaps` bounds failures,
timeouts and kills. Symmetry is used only in runs without liveness and
for sets no definition picks an element of.

Deadlock is checked for the engine's `engine` and `engine_upnp` runs and `engine_live`, where the
world can always move. Service, RouteSlots and Notify stop when their bounds are used up; the parts of Program also when
they have been stopped or have come to their verdict. Their configurations switch it off.

Fairness. Engine: every call has a timeout and the ticker fires, hence weak fairness of `Process`; a
`select` with a done context and a ready tick chooses at random, so the context's case is taken if it is
ready again and again, hence strong fairness of `Done` and `BackoffCanceled`. Nothing is assumed of the world:
`Recovers` speaks of a world that settles. Service: the shell goes on to its next command, procd starts
what it was told to start, a starting process installs its rules and a signalled one ends. UdpForwarder:
goroutines are scheduled and the clock runs; `Receive` is not fair, as packets need not come. TcpForwarder: goroutines
are scheduled, and a peer that has seen the end of the other's stream ends its own some time. That is an assumption about
peers: a relay whose peer never answers a half-close stays for ever, as the code has no deadline. ExternalForwarder: the
steps of `Start` and `Stop` have timeouts and `reap` waits for the child; nothing is assumed of the child but that the kernel
ends it when it is killed. In `Program` no fair action is enabled in the initial state of a part that stands still, so
its fairness asks nothing there. The other parts promise safety only.

Findings, each the run of one property:

- `service_reenable`: `global.enabled` off and on. `stop_service` leaves the instance list and the
  fingerprints, the next hot reload finds nothing changed and starts nothing, against
  `luci.qnatter:1033`, where toggling an instance has to bring the service up.
- `service_skipped`: a reload skipped on the lock is not "doing the same" (`qnatter.init:658`) when the one
  that runs has read the configuration before the commit.
- `notify_skip`: with the option "Only when changed" the webhook is never called: `notify.Run` writes the new
  mapping to the status file before the script reads its "previous" one from it.

Disagreements that have no run:

- `RunLoop` goes on after two keep-alives that fail (`loop.go:20`), but the lease it gives the router is three intervals (`run_once.go:243`): when
  the renewal after two failed ticks is sent, at the end of the third tick's keep-alive, it has ended, and until then the port may be closed. The
  first lease is shorter by the time of notify and the initial checks. `PortStaysOpen` says what a lease does cover;
- `start` flushes the tables "only [...] when no backend instance is alive" (`qnatter.init:201`), but the check and the two flushes are
  commands of their own without a lock (`:692`). A process that procd launches or respawns between them loses its rules, and runs without them until
  it ends. `LiveRulesKept` and `EnabledGetsServed` except it (`raced`);
- `CheckUDPNATType` takes an answer to Test 3 for one from another port without looking (`check.go:554`): if the server answers from
  the same port and its answer to Test 2 is lost, a port-restricted NAT reads as restricted. `NeverTooGood` excepts it;
- an answer to a search that fills the buffer is dropped, and the buffer doubled for the next (`discovery.go:128`). A router that answers
  a search once with 4 KiB or more, or twice with 8 KiB or more, is not found by it: `RouterIsAsked` says how many answers it takes;

- a reload that finds no section `global` stops the service, because `qnatter_config_get_bool` reads it as 0, against the
  comment at `qnatter.init:768`;
- the deadline of 30 s for the script is longer than procd's `term_timeout`, against the comment at `notify.go:16`;
- `engine/upnp.go:30` gives discovery one second, while the search it sends allows answers within two (`discovery.go:18`);
- `CheckTCP` hands source port 0 to `CheckTCPCone` (`check.go:652`) and the UDP test has 0 by default (`check.go:670`): with a new
  port for each probe a cone NAT reads as symmetric. `TypeIsRight` therefore asks for a configured port;
- a UDP socket bound to 0.0.0.0 never has the mapped address, so open internet is recognised only with a bind address;
- "refuse rather than silently share" (`socket.go:47`) fails when two processes start at once: `SplitOnlyByRace` says exactly when;
- `external.go:315` speaks of SIGTERM, the code sends `os.Interrupt`;
- the wrapper's count is not procd's (`qnatter-run:18`): it measures from start to start, so a run that ends within the respawn delay
  of the threshold is a failure for procd only; it goes on counting when the instance is declared anew, as nothing removes its
  file; and it goes by the time of day. `WarningIsRight` says that these and a failed write are all that tells them apart;
- `Revoke` keeps its service for a retry after a failure (`engine/upnp.go`), which the engine never makes.

Hazards stated here only: `cleanup_firewall_rule` may run while a script of the renamed instance is under way, which then
writes the section again for good; the sweeper of the UDP forwarder waits for ever on a ticker that `Stop` does not close,
one goroutine for each session; a child that dies while its forwarder runs is noticed by nobody; a host whose description
promises a service and which refuses to forward ends `Forward`, without a try of the next one; the UDP keep-alive takes any
late answer for the present one (`keepalive/udp.go:43`), also one to a request that has failed; a reload that flushes an empty table may do so after another
invocation of `start` has started an instance (`qnatter.init:838`).

## 5. What is proved

All theorems hold for every value of the constants that meets the named assumptions of the module, which
TLC evaluates in the runs. A theorem about a part is stated of the specification of that part alone, not of `Program`.

`EngineProofs`: `TypeCorrect`; `ResourcesAlwaysOwned`, from `OwnedInv`, which adds to the property the fields
of `Session` at each `pc` (without it a step from `notify` to `close` could start with an unowned forwarder);
`PairAlwaysServed`, from `PairInv`, which follows the two observations from `firstStun` to the announcement;
`ChangeAlwaysNoticed`, from `CountersShape`, `SourceShape` and `StaleShape`: the ticks since the pair went stale are
bounded by what the three counters stand for, and each counter stays below its limit;
`PortAlwaysStaysOpen`, from `LeaseShape`: the time since the lease was accepted is bounded by the failures in a row since the last renewal, and by
the start before the first one, so the router drops the mapping only where these may add up to the lease;
`EngineImplementsService`: each step is a step of `MappingService` or a stutter, using the two invariants.

`RouteSlotsProofs`: `TypeCorrect`; `SlotsAlwaysDistinct`, from `PassInv`: what a pass has recorded is injective and,
unless a section failed, complete up to the loop's position. The invariant speaks of one pass only, so
other passes and commits cannot disturb it, which is the argument. `SlotsPersist`, the action property, from `PersistInv`:
the sections that have been given a slot stand in front of those that have not (`Before`), so a pass has kept all of them
before it looks for a free slot, and it finds each as it was given (`Stands`, `Owns`). What would break the order makes
`disturbed` true, and then nothing is claimed.

`ServiceProofs`: `TypeCorrect`, for any invocations that overlap in any way: only a reload between its `flock` and its return
holds the lock, and the nft table holds rules of processes that forward. `RulesStay` and `SparesStay` assume `StartsAlone`:
no invocation is `boot` or `start`, or there is one invocation only. The code itself makes the difference: reloads and stops
are serialised by the lock or end everything, and `start` takes no lock. The inductive invariant `WorkInv` says that the
files tell what procd runs (`Known`), except where a declaration is in progress (`Declared`), and what a script that has
loaded, compared and declared knows (`Reloading`, `Prepared`, `Flushing`). Between the check of a `start` and its flush the processes that are
alive are those launched since (`Racing`), so the flush takes the rules of no other; `RulesStay` excepts these, as the property does. `CommitsApplied` assumes `Calm`, which adds what
the property is about: the service stays on, commits fall between runs of the script, nothing fails. `CalmInv` says that a
script works on the configuration as it is (`Fresh`, `Carried`), that between runs the files list exactly what procd runs
(`Listed`), and that a commit waits for its reload, or is being applied, or is applied (`Applied`). Where commits fall into a
run they can be lost, as `service_skipped` shows.

`NotifyProofs`: `TypeCorrect`, `EverybodyInformed`, `PortAlwaysOpen`, `StatusAlwaysTrue` and the action property
`OpenPortStaysOpen`, from one invariant, `NotifyInv`, which has a part for each instance: there is one callback at a time
unless one survived its process (`OneCallback`), nobody else writes what belongs to the instance (`NobodyElse`), and each thing
a callback has to bring about, the status file, the remote targets, the staged rule and the loaded rule, is either as the mapping
needs it or still ahead of its script (`StatusFollows`, `ToldOrAhead`, `StagedOrAhead`, `InstalledOrPending`). Other instances commit and reload the
same files at any time, but what they commit of this instance is what its script has staged.

`UdpForwarderProofs`: `TypeCorrect`; `SocketsAccountedFor`, from `SocketInv`. The property alone is not inductive:
`Fresh` adds that nothing has been sent through a socket before it is registered, so its reader cannot have
failed by then, and `Served` ties a socket in the table to its reader and to the source that reader will look
for; `TableAlwaysServed` is its part about the table. `SocketsStayBounded` adds that the table never exceeds `Max` and counts.

`PartsProofs`: `TcpNothingCutOff`, where `WholeStream` adds what holds of a copy that has ended while the other still runs, and
`CopiersMatch` that copies exist only between dialling and closing. `ExtNothingRunsOn`, inductive with the types: a child is at hand as
long as it may run. `PortSplitOnlyByRace`, where `EntriesMatch` ties `/proc/net` to the program counters, and `ProbesOverlap` says that two
processes on one address that are both past the probe were between probe and bind at one time. `WarningAlwaysRight`, for every
threshold, delay and number of retries: `ClocksAgree` says what the file's clock shows during a run and in the delay after it as
long as the file is right, so that the next start reads a run as procd did; `CountsEnough` and `CountsNotTooMuch` compare the two counts
at any moment, each as long as its own exceptions have not occurred since the counts were last zero.

`NftForwarderProofs`: `NftRulesCounted` and `NftRunningIsComplete`, for any finite set of instances with any targets. The argument
counts. An instance has a claim on a rule from its insertion to the attempt to remove it; every command adds a rule and a
claim with its text, or takes away a claim together with a rule of its text or with a failure. For the deletion to hit a rule
of the right text, `HandlesTell` says that a handle names one rule and is kept for that rule's text only. Which instance inserted
the rule that a lookup finds does not matter and is not known, which is why the property counts rules instead of naming
their owners. `Stage` says how far `Start` has come from the handles it has, so that "running" has all of them, and a claim on a
text means that there is at least one rule with it.

`ClientProofs`, UPnP: `UpnpNothingForgotten` is inductive as it stands. `UpnpRouterIsAsked` from `DiscoveryInv`, for any `MaxDoublings`: as long as no
answer of the router is kept, each has cost a doubling, so there are no more than its longest answer needs; the next one is kept (`SearchInv`),
because others do not use up the sources;
locations are tried from the front, each once (`ListInv`, `TriedInv`), so when as many have been tried as there are, all have.

`ClientProofs`, STUN: `StunFailsAfterAll` from `StunInv`: a server has been asked or is still in front of the list, which the rotation keeps.
`StunMappingIsSound` from `AnswersDated`: an answer on its way to the last request tells a mapping of this call; and from
`ScanFound`: a message that has an address is not damaged, wherever its fingerprint stands. `Scan` is a recursive function, which
`ScanUnfolds` evaluates for messages of up to two attributes, the bound in `Messages`.

`ClientProofs`, check: `CheckNeverTooGood` from `CheckInv`: two kept mappings are those of different
servers (`FirstInv`, `SecondInv`, `ConeInv`), and an answer from an address that was never sent to has passed a filter that
lets everybody in (`AnswerInv`). `RestrictedInv` is about Test 3: where the server answers from the port it was asked for, its answer has passed no
filter by port. Where it does not, "restricted" says nothing of that, and the theorem does not claim it. Assumed: the servers are distinct and the alternate address is none of theirs. The code
does not look: two names of one server, or a server whose alternate address is asked as well, deceive it. `TypeAlwaysRight` from
`VerdictInv`: where nothing is lost the first two servers give the two mappings, and each later test has its answer exactly if
the filter lets it in (`Progress`). It assumes `TwoServers`: with one the code says "unknown", as its test has it. The command's
default list has more.

`ClientProofs`, keep-alive: `KeepAliveIsFresh` from `KeepAliveInv`: a connection is younger than the last failure, and answers to what was
sent on it are younger still.

Every safety invariant and every safety action property that a run checks is also a theorem, under the hypotheses named here.
Only model-checked: liveness (`CancelStops`, `Recovers`, `EnabledGetsServed`, `StopFreesAll`, `SilentGivesWay`, `RelaysEnd`, `StopReturns`),
which is beyond the prover; `Service` where `start` overlaps a reload or commits overlap a run, in the bounds of its runs; messages of more than
two attributes are neither checked nor proved.

What the proof attempts showed of the code, beside what the models had wrong: a callback whose `uci set` fails after the first leaves a rule
staged that the next callback takes for installed (`missed`, and why `OpenStaysOpen` makes an exception of it); and a reload that falls
back to a start writes its own list of instances over the one of that start (`qnatter.init:851`), so an instance it did not know of
can lose its rules when a later reload finds its list empty (`qnatter.init:838`): `forgotten`.

## 6. Not modelled

Content: the formats of STUN (but for the order of attributes), SSDP, SOAP, HTTP and JSON; fingerprints, marks and
the words of rules; arguments of socat and gost; the choice of interface and source address; Cloudflare, mail, qBittorrent.
Flags and endpoints are parsed once, without state. Status and log helpers read, uci defaults run once and alone, LuCI views are
a user interface whose commits are actions of Service and RouteSlots. The test server answers each connection by itself; of
it only the port is modelled, in SharedPort. Policy routes are followed in NftForwarder, not in Service.

Limits of what is modelled: a failed write to `/var/run` or a `uci` failure is one step of the script; procd is
what the script relies on; one predecessor of an instance is followed at a time; `start` beside a reload
(it takes no lock) is left out of `service_rules`, as the hazard list says. `Kept` compares fingerprints where procd compares command and
environment; sections whose name has a hyphen, for which the script falls back to a slot of a counter of its own (`qnatter.init:255`, `:311`), are left out of RouteSlots. In NftForwarder no rule is removed from outside:
`flush` by the service is in Service. In SharedPort a port that the kernel picks and a `/proc` that cannot be read are left
out, as the probe does not look at them. In UpnpClient the router names itself in its answers, while all others may
name anybody.
