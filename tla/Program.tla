------------------------------ MODULE Program ------------------------------
(***************************************************************************)
(* What the program does besides the engine: the command "check", of the   *)
(* command "run" the clients that the engine calls and the forwarder that  *)
(* ResolveMethod and NewForwarder of forward/factory.go choose, and the    *)
(* wrapper qnatter-run, which each start of the program goes through.      *)
(*                                                                         *)
(* These parts share no state: each has sockets, goroutines, processes or  *)
(* rules of its own, and the engine, which Engine models, calls one after  *)
(* the other.  Hence a behaviour is that of one part, chosen at the start, *)
(* and the others stand still.  Several processes with a part take turns   *)
(* where they meet: in the kernel's tables of rules and of sockets.        *)
(***************************************************************************)
EXTENDS UdpForwarder, TcpForwarder, ExternalForwarder, NftForwarder,
        SharedPort, StunClient, UpnpClient, NatCheck,
        KeepAliveClient, Respawn

VARIABLE part

Parts == {"udp", "tcp", "external", "nftables", "port", "stun", "upnp", "check",
          "keepalive", "respawn"}

ProgramInit ==
    /\ part \in Parts
    /\ Init /\ TcpInit /\ ExtInit /\ NftInit /\ PortInit
    /\ StunInit /\ UpnpInit /\ CheckInit
    /\ KeepAliveInit /\ RespawnInit
    \* What a part does not look at makes no difference.
    /\ part = "stun" \/ overUDP
    /\ part = "keepalive" \/ overTCP
    /\ part = "check" \/ nat = CHOOSE n \in Nats : TRUE

programVars ==
    <<part, vars, tcpVars, extVars, nftVars, portVars, stunVars, upnpVars,
      checkVars, kaVars, respawnVars>>

-----------------------------------------------------------------------------
\* "socket", the method by default, with -u.
UdpPart ==
    /\ part = "udp" /\ Next
    /\ UNCHANGED <<part, tcpVars, extVars, nftVars, portVars,
                   stunVars, upnpVars, checkVars, kaVars, respawnVars>>

\* "socket" without -u.
TcpPart ==
    /\ part = "tcp" /\ TcpNext
    /\ UNCHANGED <<part, vars, extVars, nftVars, portVars,
                   stunVars, upnpVars, checkVars, kaVars, respawnVars>>

\* "socat" and "gost".
ExternalPart ==
    /\ part = "external" /\ ExtNext
    /\ UNCHANGED <<part, vars, tcpVars, nftVars, portVars,
                   stunVars, upnpVars, checkVars, kaVars, respawnVars>>

\* "nftables" and "nftables-snat".
NftablesPart ==
    /\ part = "nftables" /\ NftNext
    /\ UNCHANGED <<part, vars, tcpVars, extVars, portVars,
                   stunVars, upnpVars, checkVars, kaVars, respawnVars>>

\* "socket" and "test": the start of several.
PortPart ==
    /\ part = "port" /\ PortNext
    /\ UNCHANGED <<part, vars, tcpVars, extVars, nftVars,
                   stunVars, upnpVars, checkVars, kaVars, respawnVars>>

StunPart ==
    /\ part = "stun" /\ StunNext
    /\ UNCHANGED <<part, vars, tcpVars, extVars, nftVars,
                   portVars, upnpVars, checkVars, kaVars, respawnVars>>

\* -U
UpnpPart ==
    /\ part = "upnp" /\ UpnpNext
    /\ UNCHANGED <<part, vars, tcpVars, extVars, nftVars,
                   portVars, stunVars, checkVars, kaVars, respawnVars>>

\* The command "check".
CheckPart ==
    /\ part = "check" /\ CheckNext
    /\ UNCHANGED <<part, vars, tcpVars, extVars, nftVars,
                   portVars, stunVars, upnpVars, kaVars, respawnVars>>

KeepAlivePart ==
    /\ part = "keepalive" /\ KeepAliveNext
    /\ UNCHANGED <<part, vars, tcpVars, extVars, nftVars, portVars,
                   stunVars, upnpVars, checkVars, respawnVars>>

\* The wrapper before it becomes the program, start after start.
RespawnPart ==
    /\ part = "respawn" /\ RespawnNext
    /\ UNCHANGED <<part, vars, tcpVars, extVars, nftVars,
                   portVars, stunVars, upnpVars, checkVars, kaVars>>

ProgramNext ==
    \/ UdpPart \/ TcpPart \/ ExternalPart \/ NftablesPart
    \/ PortPart \/ StunPart \/ UpnpPart \/ CheckPart
    \/ KeepAlivePart \/ RespawnPart

\* Nothing that is fair in a part can happen in its initial state, so the parts
\* that stand still need no exception.
ProgramSpec ==
    /\ ProgramInit /\ [][ProgramNext]_programVars
    /\ Fairness /\ TcpFairness /\ ExtFairness
=============================================================================
