------------------------------ MODULE NatCheck ------------------------------
(***************************************************************************)
(* The command "check": check/check.go and portcheck/portcheck.go.  By     *)
(* probes to STUN servers and to two services that try the port from       *)
(* outside, it names the type of the NAT, first for TCP, then for UDP.     *)
(*                                                                         *)
(* The NAT is the environment: what mapping it makes and whose packets it  *)
(* lets in.  Any probe may remain without an answer, a server may ignore   *)
(* the request to answer from another address, and a service may fail or   *)
(* call an open port closed.  Servers have addresses of their own, and the *)
(* address a server answers from instead is none of theirs.                *)
(***************************************************************************)
EXTENDS Naturals, Sequences

CONSTANTS
    STUNServers,   \* the STUN servers, a sequence
    Ports,         \* ports the kernel picks from when none is configured
    NoResult

Asked == {STUNServers[i] : i \in DOMAIN STUNServers}

\* Servers are asked once each, and an alternate address is none of theirs; no
\* result, mapping or verdict reads as none.
ASSUME CheckAssumption ==
    /\ STUNServers \in Seq(Asked)
    /\ \A i, j \in DOMAIN STUNServers : STUNServers[i] = STUNServers[j] => i = j
    /\ \A i \in DOMAIN STUNServers : STUNServers[i] # "alternate"
    /\ \A p \in Ports, i \in DOMAIN STUNServers :
            NoResult # <<"nat", p, STUNServers[i]>>
    /\ \A m \in {<<"host", 0>>, <<"nat", 0>>} \cup {<<"nat", 0, s>> : s \in Asked} :
            NoResult # [source |-> <<"host", 0>>, mapped |-> m]
    /\ NoResult \notin {"open", "fullCone", "firewall", "restricted", "portRestricted"}

VARIABLES
    nat,           \* [mapping, filter, fixed, known, honest], see Nats
    test,          \* the step
    index,         \* index of the server
    contacted,     \* <<port, server>>: the NAT has seen packets
    first, second, \* test1First, test1Second (UDP); mappedFirst (TCP)
    count,         \* mappings seen by CheckTCPCone
    test2, test3,  \* there was an answer
    lost,          \* some UDP probe had none although the NAT would let it in
    tcp, udp       \* the verdicts

checkVars == <<nat, test, index, contacted, first, second, count, test2, test3,
               lost, tcp, udp>>
tests == <<first, second, count, test2, test3>>

\* mapping: none, the same for all destinations, or one for each.
\* filter: who may send to the mapping: "any", or, once it has been sent to,
\* the "host" from any port, or the "port" of it only.
\* fixed, known: the bind port and bind address are configured.
\* honest: servers that answer from another address on request, all or those
\* after the second.
Nats ==
    [mapping : {"none", "same", "each"}, filter : {"any", "host", "port"},
     fixed : BOOLEAN, known : BOOLEAN,
     honest : {Asked, {STUNServers[i] : i \in DOMAIN STUNServers \ {1, 2}}}]

CheckInit ==
    /\ nat \in Nats
    /\ test = "start" /\ index = 1 /\ contacted = {}
    /\ first = NoResult /\ second = NoResult /\ count = 0
    /\ test2 = FALSE /\ test3 = FALSE /\ lost = FALSE
    /\ tcp = NoResult /\ udp = NoResult

-----------------------------------------------------------------------------
(* Probes                                                                  *)

\* The local end of a connection or socket; a UDP socket that is bound to
\* 0.0.0.0 has that as its local address.
Source(p) == <<IF nat.known THEN "host" ELSE "any", p>>

Mapped(p, s) ==
    CASE nat.mapping = "none" -> <<"host", p>>
      [] nat.mapping = "same" -> <<"nat", p>>
      [] OTHER -> <<"nat", p, s>>

\* The port that is configured, or a new one for each probe.
SourcePorts(configured) == IF configured THEN {0} ELSE Ports

\* BuildSTUNBindingRequest with ChangeIP and ChangePort: where the answer
\* comes from.
AnswerOf(s, ip, prt) ==
    IF s \in nat.honest
    THEN [host |-> IF ip THEN "alternate" ELSE s, changed |-> prt]
    ELSE [host |-> s, changed |-> FALSE]

\* Whether the answer reaches port p.
LetsIn(p, a) ==
    \/ nat.filter = "any"
    \/ /\ <<p, a.host>> \in contacted'
       /\ nat.filter = "port" => ~a.changed

\* UDPSTUNTest sends from port p to server s.
Sends(p, s) == contacted' = contacted \cup {<<p, s>>}

-----------------------------------------------------------------------------
(* TCP: CheckTCPFullCone, then CheckTCPCone                                *)

\* CheckDockerNetwork, which ends the command when it finds a bridge.
StartCheck ==
    /\ test = "start"
    /\ test' \in {"tcp", "end"}
    /\ UNCHANGED <<nat, index, contacted, tests, lost, tcp, udp>>

ToUDP(verdict) == tcp' = verdict /\ test' = "udp"

\* No server has an IPv4 address, or the keep-alive server has none.
ResolveFails ==
    /\ \/ test = "tcp" /\ ToUDP("error") /\ UNCHANGED udp
       \/ test = "udp" /\ udp' = "error" /\ test' = "end" /\ UNCHANGED tcp
    /\ UNCHANGED <<nat, index, contacted, tests, lost>>

\* Listen, connect to the keep-alive server, ask the first STUN server.
FullConeMapping ==
    /\ test = "tcp"
    /\ \/ ToUDP("unknown")
       \/ IF nat.mapping = "none" THEN ToUDP("open")
          ELSE test' = "wan" /\ UNCHANGED tcp
    /\ UNCHANGED <<nat, index, contacted, tests, lost, udp>>

TestWAN(a, b) ==
    CASE "open" \in {a, b} -> "open"
      [] a = "closed" /\ b = "closed" -> "closed"
      [] OTHER -> "unknown"

\* A port can be open for the services only if the NAT lets everybody in.
ServiceResults ==
    {"closed", "error"} \cup (IF nat.filter = "any" THEN {"open"} ELSE {})

FullConePort ==
    /\ test = "wan"
    /\ \E a, b \in ServiceResults :
        CASE TestWAN(a, b) = "open" -> ToUDP("fullCone")
          [] TestWAN(a, b) = "unknown" -> ToUDP("unknown")
          [] OTHER -> test' = "cone" /\ UNCHANGED tcp
    /\ UNCHANGED <<nat, index, contacted, tests, lost, udp>>

\* CheckTCP asks for source port 0 here, whatever is configured.
Cone ==
    /\ test = "cone" /\ index <= Len(STUNServers) /\ count < 3
    /\ \/ \E p \in Ports :
            LET m == Mapped(p, STUNServers[index])
            IN  IF first \notin {NoResult, m}
                THEN ToUDP("symmetric") /\ UNCHANGED <<first, count, index>>
                ELSE first' = m /\ count' = count + 1 /\ index' = index + 1
                     /\ UNCHANGED <<test, tcp>>
       \/ index' = index + 1 /\ UNCHANGED <<first, count, test, tcp>>
    /\ UNCHANGED <<nat, contacted, second, test2, test3, lost, udp>>

ConeEnds ==
    /\ test = "cone" /\ (index > Len(STUNServers) \/ count >= 3)
    /\ ToUDP(IF count >= 3 THEN "portRestricted" ELSE "unknown")
    /\ UNCHANGED <<nat, index, contacted, tests, lost, udp>>

-----------------------------------------------------------------------------
(* UDP: CheckUDPNATType                                                    *)

StartUDP ==
    /\ test = "udp"
    /\ test' = "test1" /\ index' = 1
    /\ first' = NoResult /\ count' = 0
    /\ UNCHANGED <<nat, contacted, second, test2, test3, lost, tcp, udp>>

Test1 ==
    /\ test = "test1" /\ index <= Len(STUNServers)
    /\ \E p \in SourcePorts(nat.fixed) :
        /\ Sends(p, STUNServers[index])
        /\ \/ /\ first = NoResult
              /\ first' = [source |-> Source(p), mapped |-> Mapped(p, STUNServers[index])]
              /\ index' = index + 1 /\ UNCHANGED <<second, test, lost>>
           \/ /\ first # NoResult
              /\ second' = [source |-> Source(p), mapped |-> Mapped(p, STUNServers[index])]
              /\ test' = "test2" /\ UNCHANGED <<first, index, lost>>
           \/ index' = index + 1 /\ lost' = TRUE /\ UNCHANGED <<first, second, test>>
    /\ UNCHANGED <<nat, count, test2, test3, tcp, udp>>

\* Slip: any answer counts.
MutAsRequested(a) == TRUE

\* IPChanged and PortChanged
AsRequested(a) == a.host = "alternate" /\ a.changed

\* An answer from where it was not asked for: the next server is tried.
Test2 ==
    /\ test = "test2"
    /\ \E p \in SourcePorts(nat.fixed) :
        LET a == AnswerOf(STUNServers[index], TRUE, TRUE)
        IN  /\ Sends(p, STUNServers[index])
            /\ \/ /\ LetsIn(p, a)
                  /\ IF AsRequested(a)
                     THEN test2' = TRUE /\ test' = "test3" /\ UNCHANGED index
                     ELSE test' = "test1" /\ index' = index + 1 /\ UNCHANGED test2
                  /\ UNCHANGED lost
               \/ /\ test' = "test3"
                  /\ lost' = (lost \/ LetsIn(p, a))
                  /\ UNCHANGED <<test2, index>>
    /\ UNCHANGED <<nat, first, second, count, test3, tcp, udp>>

\* Slip: the answer is asked for from another address as well.
MutTest3Answer(s) == AnswerOf(s, TRUE, TRUE)

Test3Answer(s) == AnswerOf(s, FALSE, TRUE)

Test3 ==
    /\ test = "test3"
    /\ \E p \in SourcePorts(nat.fixed) :
        LET a == Test3Answer(STUNServers[index])
        IN  /\ Sends(p, STUNServers[index])
            /\ \/ LetsIn(p, a) /\ test3' = TRUE /\ UNCHANGED lost
               \/ lost' = (lost \/ LetsIn(p, a)) /\ UNCHANGED test3
    /\ test' = "verdict"
    /\ UNCHANGED <<nat, index, first, second, count, test2, tcp, udp>>

Verdict ==
    IF first = NoResult \/ second = NoResult THEN "unknown"
    ELSE IF first.mapped # second.mapped THEN "symmetric"
    ELSE IF first.source = first.mapped THEN (IF test2 THEN "open" ELSE "firewall")
    ELSE IF test2 THEN "fullCone"
    ELSE IF test3 THEN "restricted"
    ELSE "portRestricted"

UDPEnds ==
    /\ test = "verdict" \/ (test = "test1" /\ index > Len(STUNServers))
    /\ udp' = Verdict /\ test' = "end"
    /\ UNCHANGED <<nat, index, contacted, tests, lost, tcp>>

\* The context is canceled: what errors make of the probes that are left.
Cancel ==
    /\ test \notin {"start", "end"}
    /\ test' = "end"
    /\ tcp' = IF tcp # NoResult THEN tcp ELSE IF test = "cone" THEN "error" ELSE "unknown"
    /\ udp' = "error"
    /\ UNCHANGED <<nat, index, contacted, tests, lost>>

CheckNext ==
    \/ StartCheck \/ ResolveFails \/ FullConeMapping \/ FullConePort \/ Cone \/ ConeEnds
    \/ StartUDP \/ Test1 \/ Test2 \/ Test3 \/ UDPEnds \/ Cancel

CheckSpec == CheckInit /\ [][CheckNext]_checkVars

-----------------------------------------------------------------------------
\* ResultFromNATType: no verdict is better than the NAT, whatever is lost and
\* whatever servers do, with one exception.  What is called a cone has one
\* mapping for all; what is called full cone or open lets everybody in; what is
\* called restricted lets a host in from any port.  For TCP an open port is
\* enough.  The exception is restricted for portRestricted: CheckUDPNATType does
\* not look where the answer to Test 3 came from, so that with the answer to
\* Test 2 lost, a server that ignores the request to answer from another port
\* lets the NAT look better.
NeverTooGood ==
    /\ udp \in {"open", "fullCone", "firewall", "restricted", "portRestricted"}
          => nat.mapping # "each"
    /\ udp \in {"open", "fullCone"} => nat.filter = "any"
    /\ udp = "restricted" /\ STUNServers[index] \in nat.honest => nat.filter # "port"
    /\ udp \in {"open", "firewall"} \/ tcp = "open" => nat.mapping = "none"
    /\ tcp = "fullCone" => nat.filter = "any"
    /\ tcp = "portRestricted" => nat.mapping # "each"

\* With a bind address and port configured, servers that do as requested and
\* no probe lost, the verdict for UDP is the type of the NAT.
TypeIsRight ==
    (udp \notin {NoResult, "error"} /\ nat.fixed /\ nat.known /\ ~lost
        /\ nat.honest = Asked)
    => udp = IF nat.mapping = "each" THEN "symmetric"
             ELSE IF nat.mapping = "none"
                  THEN (IF nat.filter = "any" THEN "open" ELSE "firewall")
             ELSE CASE nat.filter = "any" -> "fullCone"
                    [] nat.filter = "host" -> "restricted"
                    [] OTHER -> "portRestricted"
=============================================================================
