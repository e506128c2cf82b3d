----------------------------- MODULE SharedPort -----------------------------
(***************************************************************************)
(* How a forwarder takes its port: forward/portconflict.go, and the Start  *)
(* and Stop of SocketForwarder and TestServer.  The listening socket has   *)
(* to share the port with the keep-alive socket of its own process, hence  *)
(* SO_REUSEPORT, and the kernel no longer refuses a second listener: it    *)
(* spreads the connections over both.  Start therefore reads /proc/net     *)
(* first.  Reading and binding are two steps, and several processes start. *)
(*                                                                         *)
(* One port and one protocol; a port the kernel picks (port 0) and an      *)
(* unreadable /proc are not looked at by the code either.                  *)
(***************************************************************************)
EXTENDS FiniteSets

CONSTANTS
    Procs,         \* processes with a listening forwarder on the port
    Addr,          \* the address each binds
    AnyAddr        \* 0.0.0.0

VARIABLES
    entries,       \* the entries of /proc/net: [proc, addr, kind]
    start,         \* where Start is: "idle", "probed", "listening"
    overlap        \* {p, q}: both were between probe and bind at a time

portVars == <<entries, start, overlap>>

Listener(p) == [proc |-> p, addr |-> Addr[p], kind |-> "listen"]
\* Established (TCP) or connected (UDP).
KeepAlive(p) == [proc |-> p, addr |-> Addr[p], kind |-> "connected"]

PortInit ==
    /\ entries = {}
    /\ start = [p \in Procs |-> "idle"]
    /\ overlap = {}

-----------------------------------------------------------------------------
\* Slip: an address of one's own is compared with the other's only by kind.
MutAddrConflicts(want, entry) == entry = AnyAddr

\* A socket on a more specific address than one's own gets its traffic alone.
AddrConflicts(want, entry) == entry = AnyAddr \/ want = entry

\* hasProcNetListener
HasListener(p) ==
    \E s \in entries : s.kind = "listen" /\ AddrConflicts(Addr[p], s.addr)

\* The keep-alive client connects from the port before the forwarder starts.
OpenKeepAlive(p) ==
    /\ start[p] = "idle" /\ KeepAlive(p) \notin entries
    /\ entries' = entries \cup {KeepAlive(p)}
    /\ UNCHANGED <<start, overlap>>

CloseKeepAlive(p) ==
    /\ start[p] = "idle" /\ KeepAlive(p) \in entries
    /\ entries' = entries \ {KeepAlive(p)}
    /\ UNCHANGED <<start, overlap>>

\* sharedListenPortError finds nothing.
Probe(p) ==
    /\ start[p] = "idle" /\ KeepAlive(p) \in entries
    /\ ~HasListener(p)
    /\ start' = [start EXCEPT ![p] = "probed"]
    /\ overlap' = overlap \cup {{p, q} : q \in {q \in Procs : start[q] = "probed"}}
    /\ UNCHANGED entries

\* Start returns the error of sharedListenPortError; the session ends.
RefuseStart(p) ==
    /\ start[p] = "idle" /\ KeepAlive(p) \in entries
    /\ HasListener(p)
    /\ entries' = entries \ {KeepAlive(p)}
    /\ UNCHANGED <<start, overlap>>

\* Listen: with SO_REUSEPORT the address is never in use.
Bind(p) ==
    /\ start[p] = "probed"
    /\ entries' = entries \cup {Listener(p)}
    /\ start' = [start EXCEPT ![p] = "listening"]
    /\ UNCHANGED overlap

BindFails(p) ==
    /\ start[p] = "probed"
    /\ start' = [start EXCEPT ![p] = "idle"]
    /\ overlap' = {o \in overlap : p \notin o}
    /\ UNCHANGED entries

\* Stop, or the process dies.
Release(p) ==
    /\ start[p] = "listening"
    /\ entries' = entries \ {Listener(p)}
    /\ start' = [start EXCEPT ![p] = "idle"]
    /\ overlap' = {o \in overlap : p \notin o}

PortNext ==
    \E p \in Procs :
        \/ OpenKeepAlive(p) \/ CloseKeepAlive(p) \/ Probe(p) \/ RefuseStart(p)
        \/ Bind(p) \/ BindFails(p) \/ Release(p)

PortSpec == PortInit /\ [][PortNext]_portVars

-----------------------------------------------------------------------------
\* Who gets what arrives for address a: the sockets that are bound to it, or
\* else those bound to all.
Receivers(a) ==
    LET own == {p \in Procs : Listener(p) \in entries /\ Addr[p] = a}
    IN  IF own # {} THEN own
        ELSE {p \in Procs : Listener(p) \in entries /\ Addr[p] = AnyAddr}

\* The connections to an address go to one process, whatever the order in
\* which processes on this address and on 0.0.0.0 came and went.  The only
\* way to split them is to start two within the time from probe to bind.
SplitOnlyByRace ==
    \A a \in {Addr[p] : p \in Procs} : \A p, q \in Receivers(a) :
        p # q => {p, q} \in overlap
=============================================================================
