----------------------------- MODULE StunClient -----------------------------
(***************************************************************************)
(* One STUN transaction after another: stun/client.go and message.go.      *)
(* GetMapping asks the first server of its list, moves it to the end if    *)
(* that fails, and gives up when every server has had its turn.  What it   *)
(* learns is the address and port the NAT has given to its source port.    *)
(*                                                                         *)
(* Over UDP all requests leave from one port, so the answer to an earlier  *)
(* request may arrive while a later one to the same server waits.  Answers *)
(* are lost, late, duplicated or damaged; the NAT changes the mapping and  *)
(* the interface loses its address whenever they like.                     *)
(***************************************************************************)
EXTENDS Naturals, Sequences

CONSTANTS
    Servers,       \* Client.Servers, a sequence
    NoMapping,     \* no answer
    MaxTx,         \* bound on the requests ever sent
    MaxOuter       \* bound on the mappings the NAT ever makes

\* Without servers in the configuration there are those of defaultSTUNServers.
ASSUME ServersAssumption ==
    /\ Servers # <<>>
    /\ Servers \in Seq({Servers[i] : i \in DOMAIN Servers})

VARIABLES
    overUDP,       \* Client.UDP
    servers,       \* Client.Servers as it stands
    source,        \* Client.Source: "initial" or "inner"
    bound,         \* the host still has the address of "inner"
    call,          \* "idle", "ask", "wait", "done", "failed"
    txid,          \* transaction id of the last request
    asked,         \* servers asked by this call, in order
    unavailable,   \* localAddressUnavailable or localDeviceUnavailable
    flight,        \* answers on their way: [server, txid, outer]
    outer,         \* the mapping that the NAT has now
    since,         \* the mappings it has had since the call began
    taken          \* the answer that the last call returned: [outer, attrs]

client == <<overUDP, servers, source, call, txid, asked, unavailable, taken>>
stunVars == <<client, bound, flight, outer, since>>

StunInit ==
    /\ overUDP \in BOOLEAN
    /\ servers = Servers /\ source = "initial" /\ bound = TRUE
    /\ call = "idle" /\ txid = 0 /\ asked = <<>> /\ unavailable = FALSE
    /\ flight = {} /\ outer = 1 /\ since = {1} /\ taken = NoMapping

-----------------------------------------------------------------------------
(* ParseMappedAddress                                                      *)

\* The attributes that matter; all others, a good fingerprint too, are skipped.
Attrs == {"address", "badAddress", "badFingerprint"}
Messages == UNION {[1..n -> Attrs] : n \in 0..2}

\* The loop over the attributes: the first address counts, later ones are
\* skipped unread; a fingerprint is verified wherever it stands.
Scan(attrs) ==
    LET f[i \in 0..Len(attrs)] ==
        IF i = 0 THEN "notFound"
        ELSE CASE f[i - 1] = "error" -> "error"
               [] attrs[i] = "badFingerprint" -> "error"
               [] attrs[i] = "address" /\ f[i - 1] = "notFound" -> "found"
               [] attrs[i] = "badAddress" /\ f[i - 1] = "notFound" -> "error"
               [] OTHER -> f[i - 1]
    IN f[Len(attrs)]

\* Slip: the transaction id is not compared.
MutAccepts(m, attrs) == Scan(attrs) = "found"

Accepts(m, attrs) == m.txid = txid /\ Scan(attrs) = "found"

-----------------------------------------------------------------------------
(* GetMapping and NetworkTransport.Exchange                                *)

Call ==
    /\ call \in {"idle", "done", "failed"} /\ txid < MaxTx
    /\ call' = "ask" /\ asked' = <<>> /\ unavailable' = FALSE
    /\ since' = {outer} /\ taken' = NoMapping
    /\ UNCHANGED <<overUDP, servers, source, txid, bound, flight, outer>>

\* Slip: the list stays as it is.
MutRotate == UNCHANGED servers

\* rotateServer
Rotate == servers' = Append(Tail(servers), Head(servers))

\* After the last attempt: a source that cannot be bound any more is given up.
GiveUp(gone) ==
    /\ call' = "failed"
    /\ source' = IF gone \/ unavailable THEN "initial" ELSE source

\* A server did not answer, or its answer cannot be used.
NextServer(gone) ==
    /\ Rotate
    /\ asked' = Append(asked, Head(servers))
    /\ unavailable' = (unavailable \/ gone)
    /\ IF Len(asked') = Len(servers)
       THEN GiveUp(gone)
       ELSE call' = "ask" /\ UNCHANGED source
    /\ UNCHANGED <<overUDP, taken>>

\* The request leaves, and an answer comes back unless it is lost.
Ask ==
    /\ call = "ask" /\ txid < MaxTx
    /\ source = "initial" \/ bound
    /\ txid' = txid + 1
    /\ flight' = flight \cup {[server |-> Head(servers), txid |-> txid', outer |-> outer]}
    /\ call' = "wait"
    /\ UNCHANGED <<overUDP, servers, source, asked, unavailable, taken, bound, outer, since>>

\* EADDRNOTAVAIL or ENODEV.
AskFails ==
    /\ call = "ask" /\ txid < MaxTx
    /\ source = "inner" /\ ~bound
    /\ NextServer(TRUE)
    /\ UNCHANGED <<txid, bound, flight, outer, since>>

\* The first datagram that arrives counts; over TCP a connection carries the
\* answer to its own request only.
ReceiveAnswer(m) ==
    /\ call = "wait" /\ m \in flight /\ m.server = Head(servers)
    /\ source = "initial" \/ bound
    /\ overUDP \/ m.txid = txid
    /\ flight' \in {flight, flight \ {m}}
    /\ \E attrs \in Messages :
        IF Accepts(m, attrs)
        THEN /\ call' = "done" /\ source' = "inner" /\ bound' = TRUE
             /\ taken' = [outer |-> m.outer, attrs |-> attrs]
             /\ UNCHANGED <<overUDP, servers, asked, unavailable>>
        ELSE NextServer(FALSE) /\ UNCHANGED bound
    /\ UNCHANGED <<txid, outer, since>>

\* Timeout, or the connection fails.
Expire ==
    /\ call = "wait"
    /\ NextServer(FALSE)
    /\ UNCHANGED <<txid, bound, flight, outer, since>>

-----------------------------------------------------------------------------
(* The network                                                             *)

Lose(m) ==
    /\ m \in flight
    /\ flight' = flight \ {m}
    /\ UNCHANGED <<client, bound, outer, since>>

Rebind ==
    /\ outer < MaxOuter
    /\ outer' = outer + 1 /\ since' = since \cup {outer'}
    /\ UNCHANGED <<client, bound, flight>>

\* The interface loses the address of "inner", and may get it back.
AddressChanges ==
    /\ source = "inner"
    /\ bound' = ~bound
    /\ UNCHANGED <<client, flight, outer, since>>

StunNext ==
    \/ Call \/ Ask \/ AskFails \/ Expire \/ Rebind \/ AddressChanges
    \/ \E m \in flight : ReceiveAnswer(m) \/ Lose(m)

StunSpec == StunInit /\ [][StunNext]_stunVars

-----------------------------------------------------------------------------
\* A mapping that is returned is one the NAT had during the call, not what a
\* late answer to an earlier request says, and it comes from a message that no
\* fingerprint calls damaged, although that stands after the address.
MappingIsSound ==
    call = "done" =>
        /\ taken.outer \in since
        /\ \A i \in DOMAIN taken.attrs : taken.attrs[i] # "badFingerprint"

\* A call fails only when every server has been asked, whatever order earlier
\* calls have left the list in; and a source that had lost its address while
\* they were is not left to the next call.
FailsAfterAll ==
    call = "failed" =>
        /\ \A i \in DOMAIN Servers : \E j \in DOMAIN asked : asked[j] = Servers[i]
        /\ unavailable => source = "initial"
=============================================================================
