----------------------------- MODULE UpnpClient -----------------------------
(***************************************************************************)
(* Finding the router and asking it for a port: upnp/discovery.go,         *)
(* client.go, device.go, service.go and engine/upnp.go.  Discover reads    *)
(* what hosts on the LAN answer to a search, until the window closes or a  *)
(* quota is used up; DiscoverRouter fetches the descriptions of the        *)
(* locations in the order of the answers; Forward, Renew and Revoke send   *)
(* SOAP requests to the service found.                                     *)
(*                                                                         *)
(* Hosts answer what and as often as they like, too long for the buffer or *)
(* with a LOCATION on another host.  A request may be carried out although *)
(* its response is lost.                                                   *)
(***************************************************************************)
EXTENDS Naturals, Sequences, FiniteSets

CONSTANTS
    Hosts,         \* hosts on the LAN
    Router,        \* the one that has a service to forward ports
    NoHost,
    MaxReplies,    \* maxSSDPReplies
    MaxLocations,  \* maxSSDPLocations
    MaxSources,    \* maxSSDPSources
    MaxDoublings   \* from ssdpReadBufferSize to maxSSDPDatagram: four

ASSUME UpnpAssumption ==
    /\ MaxReplies \in Nat /\ MaxLocations \in Nat /\ MaxSources \in Nat
    /\ MaxDoublings \in Nat

VARIABLES
    upnp,          \* "idle", "search", "load", "add", "none", "up"
    replies,       \* answers read
    answers,       \* history: how many of them the router gave, truncated or not,
    longest,       \* and how many doublings the longest of these takes
    sources,       \* hosts whose answers count
    buffer,        \* how often the buffer has been doubled
    locations,     \* the list of locations, each [host, path]
    tried,         \* locations whose description has been requested
    service,       \* UPnPClient.service, the host of it
    mapped,        \* hosts that forward the port to us
    unsure         \* hosts that did not answer AddPortMapping, or DeletePortMapping

search == <<replies, answers, longest, sources, buffer, locations>>
upnpVars == <<upnp, search, tried, service, mapped, unsure>>

UpnpInit ==
    /\ upnp = "idle"
    /\ replies = 0 /\ answers = 0 /\ longest = 0 /\ sources = {} /\ buffer = 0
    /\ locations = <<>> /\ tried = {}
    /\ service = NoHost /\ mapped = {} /\ unsure = {}

-----------------------------------------------------------------------------
(* DiscoverLocations                                                       *)

\* What Forward and Discover keep while they run is gone.
Returned ==
    /\ replies' = 0 /\ answers' = 0 /\ longest' = 0 /\ sources' = {} /\ buffer' = 0
    /\ locations' = <<>> /\ tried' = {}

\* A session has a new client, whose Forward begins with a search.
Search ==
    /\ upnp \in {"idle", "none"}
    /\ upnp' = "search"
    /\ Returned /\ service' = NoHost
    /\ UNCHANGED <<mapped, unsure>>

QuotaLeft ==
    /\ replies < MaxReplies
    /\ Len(locations) < MaxLocations

\* Slip: the answer is discarded, the buffer stays as it is.
MutDiscard == UNCHANGED <<buffer, sources, locations>>

\* An answer that may have been truncated.
Discard ==
    /\ buffer' = buffer + 1
    /\ UNCHANGED <<sources, locations>>

\* A new source is not listened to when there are enough.
Counts(from) == from \in sources \/ Cardinality(sources) < MaxSources

\* parseSSDPResponse and sameLocationHost
Usable(from, location) == location.host = from

Keep(from, location) ==
    /\ sources' = sources \cup {from}
    /\ locations' =
        IF Usable(from, location) /\ \A i \in DOMAIN locations : locations[i] # location
        THEN Append(locations, location) ELSE locations
    /\ UNCHANGED buffer

\* An answer from a host, of a length the buffer has after `long' doublings: too
\* long for a buffer that has been doubled less often.  No datagram is longer
\* than the buffer can get.
Read(from, location, long) ==
    /\ upnp = "search" /\ QuotaLeft
    /\ replies' = replies + 1
    /\ IF from = Router
       THEN answers' = answers + 1 /\ longest' = (IF long > longest THEN long ELSE longest)
       ELSE UNCHANGED <<answers, longest>>
    /\ IF long > buffer THEN Discard
       ELSE IF Counts(from) THEN Keep(from, location)
       ELSE UNCHANGED <<buffer, sources, locations>>
    /\ UNCHANGED <<upnp, tried, service, mapped, unsure>>

\* The window closes, or a quota is used up.
EndSearch ==
    /\ upnp = "search"
    /\ upnp' = "load"
    /\ UNCHANGED <<search, tried, service, mapped, unsure>>

\* The socket cannot be opened, written to or read.
SearchFails ==
    /\ upnp = "search"
    /\ upnp' = "idle"
    /\ Returned
    /\ UNCHANGED <<service, mapped, unsure>>

-----------------------------------------------------------------------------
(* DiscoverRouter and LoadDeviceDescription                                *)

Location == locations[Cardinality(tried) + 1]

\* No answer, an error, too large, no XML, or no service to forward ports
\* whose control URL is on the host that the description is from.
LoadFails ==
    /\ upnp = "load" /\ Cardinality(tried) < Len(locations)
    /\ tried' = tried \cup {Location}
    /\ UNCHANGED <<upnp, search, service, mapped, unsure>>

Load ==
    /\ upnp = "load" /\ Cardinality(tried) < Len(locations)
    /\ tried' = tried \cup {Location}
    /\ upnp' = "add"
    /\ UNCHANGED <<search, service, mapped, unsure>>

\* ErrNoForwardService
NoRouter ==
    /\ upnp = "load" /\ Cardinality(tried) = Len(locations)
    /\ upnp' = "none"
    /\ UNCHANGED <<search, tried, service, mapped, unsure>>

-----------------------------------------------------------------------------
(* Forward, Renew and Revoke: doSOAP                                       *)

Found == locations[Cardinality(tried)].host

\* The description of a service may promise what the host does not do.
Forward ==
    /\ upnp = "add"
    /\ upnp' = "up"
    /\ service' = Found
    /\ mapped' = mapped \cup {Found}
    /\ Returned /\ UNCHANGED unsure

\* Refused, invalid, or the response is lost and the mapping made.
ForwardFails ==
    /\ upnp = "add"
    /\ upnp' = "idle"
    /\ service' = NoHost
    /\ \/ /\ mapped' = mapped \cup {Found}
          /\ unsure' = unsure \cup {Found}
       \/ UNCHANGED <<mapped, unsure>>
    /\ Returned

\* Renew gives the host the mapping anew, or fails; service stays.
Renew ==
    /\ upnp = "up" /\ service # NoHost
    /\ mapped' \in {mapped, mapped \cup {service}}
    /\ UNCHANGED <<upnp, search, tried, service, unsure>>

\* Slip: the service is forgotten before it is asked.
MutRevoke ==
    /\ upnp = "up" /\ service # NoHost
    /\ service' = NoHost /\ upnp' = "idle"
    /\ UNCHANGED <<search, tried, mapped, unsure>>

\* The session ends.  A service that failed to delete the mapping is kept, but
\* the engine does not ask again, and its next session has a client of its own.
Revoke ==
    /\ upnp = "up" /\ service # NoHost
    /\ upnp' = "idle"
    /\ \/ mapped' = mapped \ {service} /\ service' = NoHost /\ UNCHANGED unsure
       \/ unsure' = unsure \cup {service} /\ UNCHANGED <<service, mapped>>
       \* The response is lost, the mapping deleted.
       \/ mapped' = mapped \ {service} /\ UNCHANGED <<service, unsure>>
    /\ UNCHANGED <<search, tried>>

\* The lease ends, or the host restarts.
Lapse(h) ==
    /\ h \in mapped
    /\ mapped' = mapped \ {h} /\ unsure' = unsure \ {h}
    /\ UNCHANGED <<upnp, search, tried, service>>

\* What a host may answer; the router names itself.
HostAnswers(from, host, path, long) ==
    /\ from = Router => host = Router
    /\ Read(from, [host |-> host, path |-> path], long)

UpnpNext ==
    \/ Search \/ EndSearch \/ SearchFails \/ LoadFails \/ Load \/ NoRouter
    \/ Forward \/ ForwardFails \/ Renew \/ Revoke
    \/ \E from \in Hosts, host \in Hosts \cup {NoHost}, path \in {1, 2},
         long \in 0..MaxDoublings :
            HostAnswers(from, host, path, long)
    \/ \E h \in Hosts : Lapse(h)

UpnpSpec == UpnpInit /\ [][UpnpNext]_upnpVars

-----------------------------------------------------------------------------
\* Forward does not report that there is no router without having asked one for
\* its description from which enough answers were read: more than its longest
\* answer takes doublings of the buffer, for each doubling costs an answer.  One
\* answer of less than 4 KiB is enough, two of less than 8 KiB (the number of
\* searches), at most five of any length; whatever others answer, unless they
\* are too many sources.
RouterIsAsked ==
    upnp = "none" /\ answers > longest /\ Cardinality(sources \ {Router}) < MaxSources
        => \E l \in tried : l.host = Router

\* A host keeps a mapping that nobody will delete only if it failed to answer
\* one of the two requests, and then until the lease ends; however many sessions
\* have ended and begun, and whichever hosts they found.
NothingForgotten ==
    \A h \in mapped : h \in unsure \/ (h = service /\ upnp = "up")
=============================================================================
