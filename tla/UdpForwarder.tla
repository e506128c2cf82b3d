---------------------------- MODULE UdpForwarder ----------------------------
(***************************************************************************)
(* The UDP half of the built-in forwarder: forward/socket.go.  udpLoop     *)
(* reads the packets that arrive at the mapped port and sends those of     *)
(* each source through a socket of its own, whose reader goroutine carries *)
(* the answers back.  udpClientSet bounds the sockets and drops those that *)
(* fall idle.                                                              *)
(*                                                                         *)
(* The loop, one reader per socket, the sweeper and Stop run concurrently. *)
(* A step is what one of them does under the lock of udpClientSet or       *)
(* between two calls that block; sockets are closed after the lock is      *)
(* given back, by whoever took them out of the table.                      *)
(***************************************************************************)
EXTENDS Naturals, FiniteSets

CONSTANTS
    Keys,          \* source addresses
    Conns,         \* outbound sockets, all that the process may open
    None,          \* nil
    Max            \* SocketForwarder.MaxUDPClients

ASSUME MaxAssumption == Max \in Nat \ {0}
ASSUME NoneAssumption == None \notin Conns /\ None \notin Keys
ASSUME KeysAssumption == IsFiniteSet(Keys)

VARIABLES
    clients,       \* udpClientSet.clients: the socket of each source
    idle,          \* sources last seen longer ago than udpClientSet.idle
    open,          \* sockets that are open
    closing,       \* sockets somebody is about to close
    owner,         \* the source whose answers a socket's reader returns
    reader,        \* that goroutine: "none", "reading", "forget"
    sent,          \* sockets a packet has been sent through
    refused,       \* sockets with a pending error: the target refused a packet
    pc, key, conn, \* udpLoop, and its variables clientAddr and client
    stopped        \* Stop has closed the listening socket

sockets == <<open, closing, owner, reader, sent, refused>>
loop == <<pc, key, conn>>
vars == <<clients, idle, sockets, loop, stopped>>

Registered == {k \in Keys : clients[k] # None}
ConnsOf(K) == {clients[k] : k \in K}

Init ==
    /\ clients = [k \in Keys |-> None] /\ idle = {}
    /\ open = {} /\ closing = {}
    /\ owner = [c \in Conns |-> None]
    /\ reader = [c \in Conns |-> "none"]
    /\ sent = {} /\ refused = {}
    /\ pc = "read" /\ key = None /\ conn = None
    /\ stopped = FALSE

-----------------------------------------------------------------------------
(* udpClientSet                                                            *)

\* The sources K leave the table; the sockets C are closed after the unlock.
Drop(K, C) ==
    /\ clients' = [k \in Keys |-> IF k \in K THEN None ELSE clients[k]]
    /\ idle' = idle \ K
    /\ closing' = closing \cup C

\* Slip: the table is not searched for the socket, only for the source.
MutForget(k, c) ==
    IF clients[k] # None
    THEN Drop({k}, {c} \cap open)
    ELSE UNCHANGED <<clients, idle, closing>>

\* A source that meanwhile has another socket keeps it.
Forget(k, c) ==
    IF clients[k] = c
    THEN Drop({k}, {c})
    ELSE UNCHANGED <<clients, idle, closing>>

-----------------------------------------------------------------------------
(* udpLoop                                                                 *)

NextPacket == pc' = "read" /\ key' = None /\ conn' = None

\* Slip: a packet refreshes every source.
MutReceive(k) ==
    /\ pc = "read" /\ ~stopped
    /\ key' = k /\ conn' = clients[k]
    /\ idle' = {}
    /\ pc' = IF clients[k] = None THEN "dial" ELSE "write"
    /\ UNCHANGED <<clients, sockets, stopped>>

\* touch
Receive(k) ==
    /\ pc = "read" /\ ~stopped
    /\ key' = k /\ conn' = clients[k]
    /\ idle' = idle \ {k}
    /\ pc' = IF clients[k] = None THEN "dial" ELSE "write"
    /\ UNCHANGED <<clients, sockets, stopped>>

\* newUDPOutbound, which starts the reader.
Dial(c) ==
    /\ pc = "dial"
    /\ c \notin open /\ reader[c] = "none"
    /\ open' = open \cup {c}
    /\ owner' = [owner EXCEPT ![c] = key]
    /\ reader' = [reader EXCEPT ![c] = "reading"]
    /\ conn' = c
    /\ pc' = "add"
    /\ UNCHANGED <<clients, idle, closing, sent, refused, key, stopped>>

DialFails ==
    /\ pc = "dial"
    /\ NextPacket
    /\ UNCHANGED <<clients, idle, sockets, stopped>>

\* Slip: the limit is checked one too late.
MutHasRoom == Cardinality(Registered) <= Max

HasRoom == Cardinality(Registered) < Max

Add ==
    /\ pc = "add"
    /\ HasRoom
    /\ clients' = [clients EXCEPT ![key] = conn]
    /\ pc' = "write"
    /\ UNCHANGED <<idle, sockets, key, conn, stopped>>

\* The limit is reached: the new source is turned away.
TurnAway ==
    /\ pc = "add"
    /\ ~HasRoom
    /\ closing' = closing \cup {conn}
    /\ NextPacket
    /\ UNCHANGED <<clients, idle, open, owner, reader, sent, refused, stopped>>

Write ==
    /\ pc = "write"
    /\ conn \in open \ refused
    /\ sent' = sent \cup {conn}
    /\ NextPacket
    /\ UNCHANGED <<clients, idle, open, closing, owner, reader, refused, stopped>>

\* The socket has been closed, or reports that the target refused a packet.
WriteFails ==
    /\ pc = "write"
    /\ conn \notin open \/ conn \in refused
    /\ refused' = refused \ {conn}
    /\ Forget(key, conn)
    /\ NextPacket
    /\ UNCHANGED <<open, owner, reader, sent, stopped>>

\* Slip: the loop returns without closeAll.
MutLoopEnds ==
    /\ pc = "read" /\ stopped
    /\ pc' = "ended"
    /\ UNCHANGED <<clients, idle, sockets, key, conn, stopped>>

LoopEnds ==
    /\ pc = "read" /\ stopped
    /\ Drop(Registered, ConnsOf(Registered))
    /\ pc' = "ended"
    /\ UNCHANGED <<open, owner, reader, sent, refused, key, conn, stopped>>

-----------------------------------------------------------------------------
(* The readers, the sweeper, Stop, and the world                           *)

ReadFails(c) ==
    /\ reader[c] = "reading"
    /\ c \notin open \/ c \in refused
    /\ reader' = [reader EXCEPT ![c] = "forget"]
    /\ refused' = refused \ {c}
    /\ UNCHANGED <<clients, idle, open, closing, owner, sent, loop, stopped>>

\* Slip: the reader only returns.
MutReaderEnds(c) ==
    /\ reader[c] = "forget"
    /\ reader' = [reader EXCEPT ![c] = "none"]
    /\ owner' = [owner EXCEPT ![c] = None]
    /\ UNCHANGED <<clients, idle, open, closing, sent, refused, loop, stopped>>

\* onDone
ReaderEnds(c) ==
    /\ reader[c] = "forget"
    /\ reader' = [reader EXCEPT ![c] = "none"]
    /\ owner' = [owner EXCEPT ![c] = None]
    /\ Forget(owner[c], c)
    /\ UNCHANGED <<open, sent, refused, loop, stopped>>

Close(c) ==
    /\ c \in closing
    /\ closing' = closing \ {c} /\ open' = open \ {c}
    /\ sent' = sent \ {c} /\ refused' = refused \ {c}
    /\ UNCHANGED <<clients, idle, owner, reader, loop, stopped>>

\* Slip: what is idle leaves the table and stays open.
MutSweep ==
    /\ idle # {} /\ pc # "ended"
    /\ Drop(idle, {})
    /\ UNCHANGED <<open, owner, reader, sent, refused, loop, stopped>>

\* The ticker of the sweeper is stopped when the loop ends.
Sweep ==
    /\ idle # {} /\ pc # "ended"
    /\ Drop(idle, ConnsOf(idle))
    /\ UNCHANGED <<open, owner, reader, sent, refused, loop, stopped>>

\* Time passes without a packet from the source.
FallIdle(k) ==
    /\ k \in Registered \ idle
    /\ idle' = idle \cup {k}
    /\ UNCHANGED <<clients, sockets, loop, stopped>>

\* The target answers a packet with "port unreachable".
Refuse(c) ==
    /\ c \in (sent \cap open) \ refused
    /\ refused' = refused \cup {c}
    /\ UNCHANGED <<clients, idle, open, closing, owner, reader, sent, loop, stopped>>

Stop ==
    /\ ~stopped
    /\ stopped' = TRUE
    /\ UNCHANGED <<clients, idle, sockets, loop>>
-----------------------------------------------------------------------------
Loop ==
    \/ \E k \in Keys : Receive(k)
    \/ \E c \in Conns : Dial(c)
    \/ DialFails \/ Add \/ TurnAway \/ Write \/ WriteFails \/ LoopEnds

Reader(c) == ReadFails(c) \/ ReaderEnds(c)

World == Stop \/ (\E k \in Keys : FallIdle(k)) \/ (\E c \in Conns : Refuse(c))

Next == Loop \/ Sweep \/ World \/ \E c \in Conns : Reader(c) \/ Close(c)

\* Goroutines are scheduled and the clock runs; the loop may wait for a
\* packet for ever, so only its other steps are fair.
LoopAtWork ==
    \/ \E c \in Conns : Dial(c)
    \/ DialFails \/ Add \/ TurnAway \/ Write \/ WriteFails \/ LoopEnds

Fairness ==
    /\ WF_vars(LoopAtWork) /\ WF_vars(Sweep)
    /\ \A k \in Keys : WF_vars(FallIdle(k))
    /\ \A c \in Conns : WF_vars(Reader(c)) /\ WF_vars(Close(c))

Spec == Init /\ [][Next]_vars
FairSpec == Spec /\ Fairness

-----------------------------------------------------------------------------
TypeOK ==
    /\ clients \in [Keys -> Conns \cup {None}] /\ idle \subseteq Registered
    /\ open \subseteq Conns /\ closing \subseteq Conns
    /\ owner \in [Conns -> Keys \cup {None}]
    /\ reader \in [Conns -> {"none", "reading", "forget"}]
    /\ sent \subseteq open /\ refused \subseteq open
    /\ pc \in {"read", "dial", "add", "write", "ended"}
    /\ key \in Keys \cup {None} /\ conn \in Conns \cup {None}
    /\ pc \in {"dial", "add", "write"} => key \in Keys
    /\ pc \in {"add", "write"} => conn \in Conns
    /\ stopped \in BOOLEAN

\* The table and the sockets: an open socket is in the table, about to be put
\* there or about to be closed, so nothing leaks; a socket in the table is
\* open and has a reader, so no source sends into a socket whose answers
\* nobody reads.
NoSocketLeaks ==
    \A c \in open : c \in ConnsOf(Registered) \cup closing \/ (pc = "add" /\ conn = c)

TableIsServed ==
    \A c \in ConnsOf(Registered) : c \in open \ closing /\ reader[c] # "none"

\* The sockets are bounded, whoever sends: besides those being closed there
\* are Max, and one more while udpLoop tries to register it.
SocketsBounded ==
    Cardinality(open \ closing) <= Max + (IF pc = "add" THEN 1 ELSE 0)

\* Once Stop has been called, every socket is closed and every reader ends.
StopFreesAll == stopped ~> open = {} /\ \A c \in Conns : reader[c] = "none"

\* A source that falls silent gives its place to others: the sweeper drops it
\* although others keep the loop busy (sweepIdle).
SilentGivesWay ==
    \A k \in Keys : []<><<Receive(k)>>_vars \/ []<>(k \notin Registered)
=============================================================================
