------------------------------ MODULE MCEngine ------------------------------
(* Instances of Engine for TLC.                                            *)
EXTENDS Engine, TLC

CONSTANTS a1, a2, i1, i2

\* Two addresses with one endpoint each.
MCAddrOf == i1 :> a1 @@ i2 :> a2

\* One endpoint.
MCOnePort == i1 :> a1

\* One address whose endpoints differ by their port.
MCPortsOf == i1 :> a1 @@ i2 :> a1

Cfg(q, u, r) == [exitWhenChanged |-> q, upnp |-> u, retryTarget |-> r]

\* Without the router, every combination of -q and -r.
MCNoUPnP == {Cfg(q, FALSE, r) : q, r \in BOOLEAN}

\* The configuration that never exits on a change.
MCRetryTarget == {Cfg(FALSE, FALSE, TRUE)}

\* With the router.
MCUPnP == {Cfg(q, TRUE, FALSE) : q \in BOOLEAN}
=============================================================================
