---------------------------- MODULE ClientProofs ----------------------------
(***************************************************************************)
(* What the clients of the network promise, for any hosts, servers, quotas *)
(* and ports: the router client forgets no mapping and asks a router that  *)
(* has answered; the STUN client asks every server before it fails, and    *)
(* returns a mapping of this call; the NAT check praises no NAT, and names *)
(* it rightly when nothing is lost; the keep-alive over TCP counts no      *)
(* answer to a request that has failed.                                    *)
(***************************************************************************)
EXTENDS UpnpClient, StunClient, NatCheck, KeepAliveClient, FiniteSetTheorems, TLAPS

-----------------------------------------------------------------------------
(* UpnpClient                                                              *)

\* Of every mapping either the client knows, or a request remained without an
\* answer: engine/upnp.go, Forward and Revoke.
THEOREM UpnpNothingForgotten == UpnpSpec => []NothingForgotten
<1>1. UpnpInit => NothingForgotten
  BY DEF UpnpInit, NothingForgotten
<1>2. NothingForgotten /\ [UpnpNext]_upnpVars => NothingForgotten'
  <2>. SUFFICES ASSUME NothingForgotten, [UpnpNext]_upnpVars PROVE NothingForgotten'
    OBVIOUS
  <2>. USE DEF NothingForgotten
  <2>1. CASE Search
    BY <2>1 DEF Search
  <2>2. CASE EndSearch \/ SearchFails \/ LoadFails \/ Load \/ NoRouter
    BY <2>2 DEF EndSearch, SearchFails, LoadFails, Load, NoRouter
  <2>3. CASE Forward
    BY <2>3 DEF Forward
  <2>4. CASE ForwardFails
    BY <2>4 DEF ForwardFails
  <2>5. CASE Renew
    BY <2>5 DEF Renew
  <2>6. CASE Revoke
    BY <2>6 DEF Revoke
  <2>7. ASSUME NEW from \in Hosts, NEW host \in Hosts \cup {NoHost}, NEW path \in {1, 2},
               NEW long \in 0..MaxDoublings, HostAnswers(from, host, path, long)
        PROVE  NothingForgotten'
    BY <2>7 DEF HostAnswers, Read
  <2>8. ASSUME NEW h \in Hosts, Lapse(h) PROVE NothingForgotten'
    BY <2>8 DEF Lapse
  <2>9. CASE UNCHANGED upnpVars
    BY <2>9 DEF upnpVars
  <2>. QED
    BY <2>1, <2>2, <2>3, <2>4, <2>5, <2>6, <2>7, <2>8, <2>9 DEF UpnpNext
<1>. QED
  BY <1>1, <1>2, PTL DEF UpnpSpec

\* The list has no location twice.
ListInv ==
    /\ locations \in Seq([host : Hosts \cup {NoHost}, path : {1, 2}])
    /\ \A i, j \in DOMAIN locations : locations[i] = locations[j] => i = j

RouterListed == \E i \in DOMAIN locations : locations[i].host = Router

FewOthers == Cardinality(sources \ {Router}) < MaxSources

\* As long as none of the router's answers is kept, each has cost a doubling that
\* the longest of them needed.
SearchInv ==
    /\ IsFiniteSet(sources) /\ answers \in Nat /\ longest \in Nat /\ buffer \in Nat
    /\ FewOthers /\ ~RouterListed => answers <= buffer /\ answers <= longest

\* Locations are tried from the front, each once.
TriedInv ==
    /\ IsFiniteSet(tried)
    /\ Cardinality(tried) <= Len(locations)
    /\ tried = {locations[i] : i \in 1..Cardinality(tried)}
    /\ upnp \in {"idle", "search", "up"} => tried = {}
    /\ upnp = "none" => Cardinality(tried) = Len(locations)

DiscoveryInv == ListInv /\ SearchInv /\ TriedInv

LEMMA ReturnedKeeps == ASSUME Returned PROVE DiscoveryInv'
<1>1. ListInv' /\ TriedInv'
  <2>1. locations' = <<>> /\ tried' = {}
    BY DEF Returned
  <2>2. /\ Len(locations') = 0 /\ DOMAIN locations' = {}
        /\ locations' \in Seq([host : Hosts \cup {NoHost}, path : {1, 2}])
    BY <2>1
  <2>3. IsFiniteSet(tried') /\ Cardinality(tried') = 0
    BY <2>1, FS_EmptySet
  <2>4. tried' = {locations'[i] : i \in 1..Cardinality(tried')}
    BY <2>1, <2>3
  <2> QED
    BY <2>1, <2>2, <2>3, <2>4 DEF ListInv, TriedInv
<1>2. SearchInv'
  <2>1. answers' = 0 /\ longest' = 0 /\ buffer' = 0 /\ sources' = {}
    BY DEF Returned
  <2> QED
    BY <2>1, FS_EmptySet DEF SearchInv
<1> QED
  BY <1>1, <1>2 DEF DiscoveryInv

LEMMA DiscoveryInvInit == UpnpInit => DiscoveryInv
<1> SUFFICES ASSUME UpnpInit PROVE DiscoveryInv
  OBVIOUS
<1>1. /\ locations = <<>> /\ tried = {} /\ sources = {} /\ upnp = "idle"
      /\ answers = 0 /\ longest = 0 /\ buffer = 0
  BY DEF UpnpInit
<1>2. IsFiniteSet(tried) /\ Cardinality(tried) = 0
  BY <1>1, FS_EmptySet
<1>3. tried = {locations[i] : i \in 1..Cardinality(tried)}
  BY <1>1, <1>2
<1>4. ListInv /\ TriedInv
  BY <1>1, <1>2, <1>3 DEF ListInv, TriedInv
<1>5. SearchInv
  BY <1>1, FS_EmptySet DEF SearchInv
<1> QED
  BY <1>4, <1>5 DEF DiscoveryInv

\* Steps that leave the search as it is and try nothing.
LEMMA SearchKept ==
    ASSUME DiscoveryInv, UNCHANGED <<search, tried>>,
           upnp' \in {"idle", "search", "up"} => upnp \in {"idle", "search", "up"},
           upnp' = "none" => Cardinality(tried) = Len(locations)
    PROVE  DiscoveryInv'
BY DEF DiscoveryInv, ListInv, SearchInv, TriedInv, RouterListed, FewOthers, search

\* The next location of the list is new.
LEMMA Tries ==
    ASSUME DiscoveryInv, upnp' \in {"load", "add"}, UNCHANGED search,
           Cardinality(tried) < Len(locations), tried' = tried \cup {Location}
    PROVE  DiscoveryInv'
<1> DEFINE k == Cardinality(tried)
<1>1. k \in Nat /\ IsFiniteSet(tried)
  BY FS_CardinalityType DEF DiscoveryInv, TriedInv
<1>2. Len(locations) \in Nat /\ DOMAIN locations = 1..Len(locations)
  BY DEF DiscoveryInv, ListInv
<1>3. tried = {locations[i] : i \in 1..k} /\ k < Len(locations)
  BY DEF DiscoveryInv, TriedInv
<1>4. Location \notin tried
  BY <1>1, <1>2, <1>3 DEF Location, DiscoveryInv, ListInv
<1>5. IsFiniteSet(tried') /\ Cardinality(tried') = k + 1
  BY <1>1, <1>4, FS_AddElement
<1>6. locations' = locations
  BY DEF search
<1> HIDE DEF k
<1>7. tried' = {locations[i] : i \in 1..(k + 1)}
  <2>1. tried' = tried \cup {locations[k + 1]}
    BY DEF Location, k
  <2>2. (k + 1) \in 1..(k + 1) /\ \A i \in 1..(k + 1) : i = k + 1 \/ i \in 1..k
    BY <1>1
  <2>3. 1..k \subseteq 1..(k + 1)
    BY <1>1
  <2> QED
    BY <1>3, <2>1, <2>2, <2>3
<1>8. TriedInv'
  <2>1. Cardinality(tried') <= Len(locations')
    BY <1>1, <1>2, <1>3, <1>5, <1>6
  <2>2. tried' = {locations'[i] : i \in 1..Cardinality(tried')}
    BY <1>5, <1>6, <1>7
  <2> QED
    BY <1>5, <2>1, <2>2 DEF TriedInv
<1>9. ListInv' /\ SearchInv'
  BY DEF DiscoveryInv, ListInv, SearchInv, RouterListed, FewOthers, search
<1> QED
  BY <1>8, <1>9 DEF DiscoveryInv

\* An answer is read.
LEMMA ReadKeeps ==
    ASSUME DiscoveryInv, NEW from \in Hosts, NEW host \in Hosts \cup {NoHost},
           NEW path \in {1, 2}, NEW long \in 0..MaxDoublings,
           HostAnswers(from, host, path, long)
    PROVE  DiscoveryInv'
<1> DEFINE loc == [host |-> host, path |-> path]
           Locs == [host : Hosts \cup {NoHost}, path : {1, 2}]
<1>1. /\ upnp = "search" /\ UNCHANGED <<upnp, tried>>
      /\ IF from = Router
         THEN answers' = answers + 1 /\ longest' = (IF long > longest THEN long ELSE longest)
         ELSE UNCHANGED <<answers, longest>>
      /\ from = Router => host = Router
      /\ IF long > buffer THEN Discard
         ELSE IF Counts(from) THEN Keep(from, loc)
         ELSE UNCHANGED <<buffer, sources, locations>>
  BY DEF HostAnswers, Read
<1>2. loc \in Locs /\ loc.host = host
  OBVIOUS
<1> HIDE DEF loc
<1>3. locations \in Seq(Locs) /\ \A i, j \in DOMAIN locations : locations[i] = locations[j] => i = j
  BY DEF DiscoveryInv, ListInv
<1>4. \/ UNCHANGED locations
      \/ /\ locations' = Append(locations, loc)
         /\ \A i \in DOMAIN locations : locations[i] # loc
  BY <1>1 DEF Discard, Keep
<1>5. ListInv' /\ (RouterListed => RouterListed')
  <2>1. CASE UNCHANGED locations
    BY <1>3, <2>1 DEF ListInv, RouterListed
  <2>2. CASE /\ locations' = Append(locations, loc)
             /\ \A i \in DOMAIN locations : locations[i] # loc
    <3>1. /\ locations' \in Seq(Locs) /\ Len(locations) \in Nat
          /\ DOMAIN locations = 1..Len(locations)
          /\ DOMAIN locations' = 1..(Len(locations) + 1)
          /\ \A i \in DOMAIN locations : locations'[i] = locations[i]
          /\ locations'[Len(locations) + 1] = loc
      BY <1>2, <1>3, <2>2
    <3>2. \A i, j \in DOMAIN locations' : locations'[i] = locations'[j] => i = j
      BY <1>3, <2>2, <3>1
    <3>3. RouterListed => RouterListed'
      BY <3>1 DEF RouterListed
    <3> QED
      BY <3>1, <3>2, <3>3 DEF ListInv
  <2> QED
    BY <1>4, <2>1, <2>2
<1>6. TriedInv'
  <2>1. tried = {} /\ tried' = {} /\ upnp' = "search"
    BY <1>1 DEF DiscoveryInv, TriedInv
  <2>2. IsFiniteSet(tried') /\ Cardinality(tried') = 0
    BY <2>1, FS_EmptySet
  <2>3. Len(locations') \in Nat
    BY <1>5 DEF ListInv
  <2>4. 1..0 = {}
    OBVIOUS
  <2> QED
    BY <2>1, <2>2, <2>3, <2>4 DEF TriedInv
<1>7. IsFiniteSet(sources') /\ sources \subseteq sources'
  BY <1>1, FS_AddElement DEF Discard, Keep, DiscoveryInv, SearchInv
<1>8. FewOthers' => FewOthers
  <2>1. IsFiniteSet(sources' \ {Router}) /\ sources \ {Router} \in SUBSET (sources' \ {Router})
    BY <1>7, FS_RemoveElement
  <2>2. Cardinality(sources \ {Router}) <= Cardinality(sources' \ {Router})
    BY <2>1, FS_Subset
  <2>3. Cardinality(sources \ {Router}) \in Nat /\ Cardinality(sources' \ {Router}) \in Nat
    BY <2>1, FS_Subset, FS_CardinalityType
  <2> QED
    BY <2>2, <2>3, UpnpAssumption DEF FewOthers
<1>9. /\ answers \in Nat /\ longest \in Nat /\ buffer \in Nat /\ long \in Nat
      /\ answers' \in Nat /\ longest' \in Nat /\ buffer' \in Nat
  BY <1>1, UpnpAssumption DEF DiscoveryInv, SearchInv, Discard, Keep
<1>10. ASSUME FewOthers', ~RouterListed' PROVE answers' <= buffer' /\ answers' <= longest'
  <2>1. answers <= buffer /\ answers <= longest
    BY <1>5, <1>8, <1>10 DEF DiscoveryInv, SearchInv
  <2>2. CASE long > buffer
    <3>1. buffer' = buffer + 1
      BY <1>1, <2>2 DEF Discard
    <3> QED
      BY <1>1, <1>9, <2>1, <2>2, <3>1
  <2>3. CASE ~(long > buffer) /\ from = Router
    <3>1. Counts(from)
      <4>1. CASE ~Counts(from)
        <5>1. sources' = sources /\ Router \notin sources /\ ~(Cardinality(sources) < MaxSources)
          BY <1>1, <2>3, <4>1 DEF Counts
        <5>2. sources' \ {Router} = sources
          BY <5>1
        <5> QED
          BY <1>10, <5>1, <5>2 DEF FewOthers
      <4> QED
        BY <4>1
    <3>2. Keep(from, loc) /\ loc.host = Router
      BY <1>1, <1>2, <2>3, <3>1
    <3>3. ASSUME \A i \in DOMAIN locations : locations[i] # loc PROVE RouterListed'
      <4>1. locations' = Append(locations, loc)
        BY <1>1, <1>2, <2>3, <3>2, <3>3 DEF Keep, Usable
      <4>2. Len(locations) + 1 \in DOMAIN locations' /\ locations'[Len(locations) + 1] = loc
        BY <1>2, <1>3, <4>1
      <4> QED
        BY <3>2, <4>2 DEF RouterListed
    <3>4. ASSUME \E i \in DOMAIN locations : locations[i] = loc PROVE RouterListed'
      BY <1>5, <3>2, <3>4 DEF RouterListed
    <3> QED
      BY <1>10, <3>3, <3>4
  <2>4. CASE ~(long > buffer) /\ from # Router
    <3>1. buffer' = buffer /\ UNCHANGED <<answers, longest>>
      BY <1>1, <2>4 DEF Keep
    <3> QED
      BY <2>1, <3>1
  <2> QED
    BY <2>2, <2>3, <2>4
<1>11. SearchInv'
  BY <1>7, <1>9, <1>10 DEF SearchInv
<1> QED
  BY <1>5, <1>6, <1>11 DEF DiscoveryInv

LEMMA DiscoveryInvNext == DiscoveryInv /\ [UpnpNext]_upnpVars => DiscoveryInv'
<1> SUFFICES ASSUME DiscoveryInv, [UpnpNext]_upnpVars PROVE DiscoveryInv'
  OBVIOUS
<1>1. CASE Search \/ SearchFails \/ Forward \/ ForwardFails
  BY <1>1, ReturnedKeeps DEF Search, SearchFails, Forward, ForwardFails
<1>2. CASE EndSearch
  BY <1>2, SearchKept DEF EndSearch
<1>3. CASE LoadFails \/ Load
  BY <1>3, Tries DEF LoadFails, Load
<1>4. CASE NoRouter
  BY <1>4, SearchKept DEF NoRouter
<1>5. CASE Renew \/ Revoke
  BY <1>5, SearchKept DEF Renew, Revoke
<1>6. ASSUME NEW from \in Hosts, NEW host \in Hosts \cup {NoHost}, NEW path \in {1, 2},
             NEW long \in 0..MaxDoublings, HostAnswers(from, host, path, long)
      PROVE  DiscoveryInv'
  BY <1>6, ReadKeeps
<1>7. UNCHANGED <<search, tried, upnp>> => DiscoveryInv'
  BY SearchKept DEF DiscoveryInv, TriedInv
<1>8. ASSUME NEW h \in Hosts, Lapse(h) PROVE DiscoveryInv'
  BY <1>7, <1>8 DEF Lapse
<1>9. CASE UNCHANGED upnpVars
  BY <1>7, <1>9 DEF upnpVars
<1> QED
  BY <1>1, <1>2, <1>3, <1>4, <1>5, <1>6, <1>8, <1>9 DEF UpnpNext

\* A router from which more answers were read than its longest takes doublings of
\* the buffer is asked, and locations of other hosts do not keep it from it, unless
\* they come from more sources than are listened to: upnp/discovery.go.
THEOREM UpnpRouterIsAsked == UpnpSpec => []RouterIsAsked
<1>1. DiscoveryInv => RouterIsAsked
  <2> SUFFICES ASSUME DiscoveryInv, upnp = "none", answers > longest,
                      Cardinality(sources \ {Router}) < MaxSources
               PROVE  \E l \in tried : l.host = Router
    BY DEF RouterIsAsked
  <2>1. answers \in Nat /\ longest \in Nat /\ ~(answers <= longest)
    BY DEF DiscoveryInv, SearchInv
  <2>2. PICK i \in DOMAIN locations : locations[i].host = Router
    BY <2>1 DEF DiscoveryInv, SearchInv, FewOthers, RouterListed
  <2>3. i \in 1..Cardinality(tried)
    BY DEF DiscoveryInv, ListInv, TriedInv
  <2> QED
    BY <2>2, <2>3 DEF DiscoveryInv, TriedInv
<1> QED
  BY <1>1, DiscoveryInvInit, DiscoveryInvNext, PTL DEF UpnpSpec

-----------------------------------------------------------------------------
(* StunClient                                                              *)

ServerSet == {Servers[i] : i \in DOMAIN Servers}

\* Asked by this call, or still in front of the list.
HasTurn(s) ==
    \/ \E j \in DOMAIN asked : asked[j] = s
    \/ \E j \in 1..(Len(servers) - Len(asked)) : servers[j] = s

StunInv ==
    /\ servers \in Seq(ServerSet) /\ Len(servers) > 0
    /\ \A s \in ServerSet : \E j \in DOMAIN servers : servers[j] = s
    /\ asked \in Seq(ServerSet)
    /\ call \in {"idle", "ask", "wait", "done", "failed"}
    /\ call \in {"ask", "wait"} =>
            Len(asked) < Len(servers) /\ \A s \in ServerSet : HasTurn(s)
    /\ call = "failed" =>
            /\ \A s \in ServerSet : \E j \in DOMAIN asked : asked[j] = s
            /\ unavailable => source = "initial"

\* A server that has had its turn goes to the end of the list.
LEMMA Rotates ==
    ASSUME NEW S, NEW q \in Seq(S), Len(q) > 0
    PROVE  LET p == Append(Tail(q), Head(q))
           IN  /\ p \in Seq(S) /\ Len(p) = Len(q)
               /\ \A j \in 1..(Len(q) - 1) : p[j] = q[j + 1]
               /\ p[Len(q)] = q[1]
               /\ Head(q) = q[1] /\ q[1] \in S
<1>. DEFINE t == Tail(q)
<1>1. t \in Seq(S) /\ Len(t) = Len(q) - 1 /\ \A j \in 1..(Len(q) - 1) : t[j] = q[j + 1]
  OBVIOUS
<1>2. Head(q) = q[1] /\ q[1] \in S
  OBVIOUS
<1>. HIDE DEF t
<1>3. LET p == Append(t, Head(q))
      IN  /\ p \in Seq(S) /\ Len(p) = Len(t) + 1 /\ p[Len(t) + 1] = Head(q)
          /\ \A j \in 1..Len(t) : p[j] = t[j]
  BY <1>1, <1>2
<1>. QED
  BY <1>1, <1>2, <1>3 DEF t

LEMMA StunInvInit == StunInit => StunInv
<1>. SUFFICES ASSUME StunInit PROVE StunInv
  OBVIOUS
<1>1. servers \in Seq(ServerSet) /\ Len(servers) > 0
  BY ServersAssumption DEF StunInit, ServerSet
<1>. QED
  BY <1>1 DEF StunInit, StunInv, ServerSet

\* The turn of the first server is over.
LEMMA NextServerKeeps ==
    ASSUME StunInv, call \in {"ask", "wait"}, NEW gone \in BOOLEAN, NextServer(gone)
    PROVE  StunInv'
<1>. DEFINE n == Len(servers)
<1>1. /\ servers \in Seq(ServerSet) /\ n > 0 /\ n \in Nat /\ asked \in Seq(ServerSet)
      /\ Len(asked) \in Nat /\ Len(asked) < n
  BY DEF StunInv
<1>2. /\ servers' \in Seq(ServerSet) /\ Len(servers') = n
      /\ \A j \in 1..(n - 1) : servers'[j] = servers[j + 1]
      /\ servers'[n] = servers[1] /\ Head(servers) = servers[1] /\ servers[1] \in ServerSet
  BY <1>1, Rotates DEF NextServer, Rotate
<1>3. /\ asked' \in Seq(ServerSet) /\ Len(asked') = Len(asked) + 1
      /\ \A j \in 1..Len(asked) : asked'[j] = asked[j]
      /\ asked'[Len(asked) + 1] = servers[1]
  BY <1>1, <1>2 DEF NextServer
<1>. HIDE DEF n
<1>4. ASSUME NEW s \in ServerSet PROVE \E j \in DOMAIN servers' : servers'[j] = s
  <2>1. PICK j \in 1..n : servers[j] = s
    BY <1>1 DEF StunInv, n
  <2>2. CASE j = 1
    BY <1>1, <1>2, <2>1, <2>2
  <2>3. CASE j # 1
    <3>1. j - 1 \in 1..(n - 1) /\ servers'[j - 1] = servers[j]
      BY <1>1, <1>2, <2>1, <2>3
    <3>2. j - 1 \in DOMAIN servers'
      BY <1>1, <1>2, <3>1
    <3>. QED
      BY <2>1, <3>1, <3>2
  <2>. QED
    BY <2>2, <2>3
<1>5. ASSUME NEW s \in ServerSet
      PROVE  \/ \E j \in DOMAIN asked' : asked'[j] = s
             \/ \E j \in 1..(n - Len(asked')) : servers'[j] = s
  <2>1. HasTurn(s)
    BY DEF StunInv
  <2>2. ASSUME NEW j \in DOMAIN asked, asked[j] = s
        PROVE  \E k \in DOMAIN asked' : asked'[k] = s
    <3>1. j \in 1..Len(asked) /\ j \in DOMAIN asked'
      BY <1>1, <1>3
    <3>. QED
      BY <1>3, <2>2, <3>1
  <2>3. ASSUME NEW j \in 1..(n - Len(asked)), servers[j] = s, j # 1
        PROVE  \E k \in 1..(n - Len(asked')) : servers'[k] = s
    <3>1. j - 1 \in 1..(n - Len(asked')) /\ j - 1 \in 1..(n - 1)
      BY <1>1, <1>3, <2>3
    <3>2. servers'[j - 1] = servers[(j - 1) + 1]
      BY <1>2, <3>1
    <3>3. (j - 1) + 1 = j
      BY <1>1
    <3>. QED
      BY <2>3, <3>1, <3>2, <3>3
  <2>4. CASE s = servers[1]
    <3>1. Len(asked) + 1 \in DOMAIN asked'
      BY <1>1, <1>3
    <3>. QED
      BY <1>3, <2>4, <3>1
  <2>. QED
    BY <2>1, <2>2, <2>3, <2>4 DEF HasTurn, n
<1>6. CASE Len(asked') = n
  <2>1. \A s \in ServerSet : \E j \in DOMAIN asked' : asked'[j] = s
    BY <1>1, <1>5, <1>6
  <2>2. call' = "failed" /\ (unavailable' => source' = "initial")
    BY <1>6 DEF NextServer, GiveUp, n
  <2>. QED
    BY <1>1, <1>2, <1>3, <1>4, <2>1, <2>2 DEF StunInv
<1>7. CASE Len(asked') # n
  <2>1. call' = "ask" /\ Len(asked') < n
    BY <1>1, <1>3, <1>7 DEF NextServer, n
  <2>2. \A s \in ServerSet : HasTurn(s)'
    BY <1>2, <1>5 DEF HasTurn
  <2>. QED
    BY <1>1, <1>2, <1>3, <1>4, <2>1, <2>2 DEF StunInv
<1>. QED
  BY <1>6, <1>7

LEMMA StunInvNext == StunInv /\ [StunNext]_stunVars => StunInv'
<1>. SUFFICES ASSUME StunInv, [StunNext]_stunVars PROVE StunInv'
  OBVIOUS
<1>1. ASSUME servers' = servers, asked' = asked, call' = call, unavailable' = unavailable,
             source' = source
      PROVE  StunInv'
  BY <1>1 DEF StunInv, HasTurn
<1>2. CASE Call
  <2>1. /\ servers' = servers /\ asked' = <<>> /\ call' = "ask"
        /\ servers \in Seq(ServerSet) /\ Len(servers) > 0
    BY <1>2 DEF Call, StunInv
  <2>2. \A s \in ServerSet : HasTurn(s)'
    BY <2>1 DEF StunInv, HasTurn
  <2>. QED
    BY <2>1, <2>2 DEF StunInv
<1>3. CASE Ask
  <2>1. /\ servers' = servers /\ asked' = asked /\ call' = "wait" /\ call = "ask"
    BY <1>3 DEF Ask
  <2>. QED
    BY <2>1 DEF StunInv, HasTurn
<1>4. CASE AskFails
  BY <1>4, NextServerKeeps DEF AskFails
<1>5. CASE Expire
  BY <1>5, NextServerKeeps DEF Expire
<1>6. CASE Rebind \/ AddressChanges \/ UNCHANGED stunVars
  BY <1>1, <1>6 DEF Rebind, AddressChanges, stunVars, client
<1>7. ASSUME NEW m \in flight, Lose(m) PROVE StunInv'
  BY <1>1, <1>7 DEF Lose, client
<1>8. ASSUME NEW m \in flight, ReceiveAnswer(m) PROVE StunInv'
  <2>1. \/ call' = "done" /\ UNCHANGED <<servers, asked>>
        \/ NextServer(FALSE)
    BY <1>8 DEF ReceiveAnswer
  <2>2. CASE call' = "done" /\ UNCHANGED <<servers, asked>>
    BY <2>2 DEF StunInv
  <2>3. CASE NextServer(FALSE)
    BY <1>8, <2>3, NextServerKeeps DEF ReceiveAnswer
  <2>. QED
    BY <2>1, <2>2, <2>3
<1>. QED
  BY <1>2, <1>3, <1>4, <1>5, <1>6, <1>7, <1>8 DEF StunNext

\* Failing calls leave the list in any order, and yet the next asks every server
\* before it fails too: stun/client.go, GetMapping and rotateServer.
THEOREM StunFailsAfterAll == StunSpec => []FailsAfterAll
<1>1. StunInv => FailsAfterAll
  BY DEF StunInv, FailsAfterAll, ServerSet
<1>. QED
  BY <1>1, StunInvInit, StunInvNext, PTL DEF StunSpec

\* One attribute in the loop of ParseMappedAddress.
AfterAttribute(attr, before) ==
    CASE before = "error" -> "error"
      [] attr = "badFingerprint" -> "error"
      [] attr = "address" /\ before = "notFound" -> "found"
      [] attr = "badAddress" /\ before = "notFound" -> "error"
      [] OTHER -> before

\* The loop of ParseMappedAddress, unfolded.
LEMMA ScanUnfolds ==
    ASSUME NEW n \in 0..2, NEW attrs \in [1..n -> Attrs]
    PROVE  Scan(attrs) = IF n = 0 THEN "notFound"
                         ELSE IF n = 1 THEN AfterAttribute(attrs[1], "notFound")
                         ELSE AfterAttribute(attrs[2], AfterAttribute(attrs[1], "notFound"))
<1> DEFINE one == AfterAttribute(attrs[1], "notFound")
           two == AfterAttribute(attrs[2], one)
           body(g) == [i \in 0..Len(attrs) |->
                         IF i = 0 THEN "notFound"
                         ELSE CASE g[i - 1] = "error" -> "error"
                                [] attrs[i] = "badFingerprint" -> "error"
                                [] attrs[i] = "address" /\ g[i - 1] = "notFound" -> "found"
                                [] attrs[i] = "badAddress" /\ g[i - 1] = "notFound" -> "error"
                                [] OTHER -> g[i - 1]]
           f == CHOOSE g : g = body(g)
           w == [i \in 0..n |-> IF i = 0 THEN "notFound" ELSE IF i = 1 THEN one ELSE two]
<1>1. attrs \in Seq(Attrs) /\ Len(attrs) = n
  OBVIOUS
<1>2. w = body(w)
  <2>1. DOMAIN body(w) = 0..n /\ DOMAIN w = 0..n
    BY <1>1
  <2>2. ASSUME NEW i \in 0..n PROVE body(w)[i] = w[i]
    <3>1. i = 0 \/ i = 1 \/ i = 2
      OBVIOUS
    <3>2. body(w)[i] = IF i = 0 THEN "notFound" ELSE AfterAttribute(attrs[i], w[i - 1])
      BY <1>1 DEF AfterAttribute
    <3>3. i = 1 => w[i - 1] = "notFound"
      OBVIOUS
    <3>4. i = 2 => w[i - 1] = one
      OBVIOUS
    <3> QED
      BY <3>1, <3>2, <3>3, <3>4
  <2> QED
    BY <2>1, <2>2
<1>3. f = body(f)
  BY <1>2
<1>4. Scan(attrs) = f[Len(attrs)]
  BY DEF Scan
<1>5. ASSUME NEW i \in 0..n
      PROVE  f[i] = IF i = 0 THEN "notFound" ELSE AfterAttribute(attrs[i], f[i - 1])
  <2> HIDE DEF f
  <2>1. f[i] = body(f)[i]
    BY <1>3
  <2> QED
    BY <1>1, <2>1 DEF AfterAttribute
<1> HIDE DEF f
<1>6. CASE n = 0
  BY <1>1, <1>4, <1>5, <1>6
<1>7. CASE n = 1
  <2>1. f[0] = "notFound" /\ f[1] = AfterAttribute(attrs[1], f[0])
    BY <1>5, <1>7
  <2> QED
    BY <1>1, <1>4, <1>7, <2>1
<1>8. CASE n = 2
  <2>1. /\ f[0] = "notFound" /\ f[1] = AfterAttribute(attrs[1], f[0])
        /\ f[2] = AfterAttribute(attrs[2], f[1])
    BY <1>5, <1>8
  <2> QED
    BY <1>1, <1>4, <1>8, <2>1
<1> QED
  BY <1>6, <1>7, <1>8

\* A damaged message is found to have no address, wherever the fingerprint is.
LEMMA ScanFound ==
    ASSUME NEW attrs \in Messages, Scan(attrs) = "found"
    PROVE  \A i \in DOMAIN attrs : attrs[i] # "badFingerprint"
<1>1. PICK n \in 0..2 : attrs \in [1..n -> Attrs]
  BY DEF Messages
<1>2. n = 1 \/ n = 2
  BY <1>1, ScanUnfolds
<1>3. CASE n = 1
  BY <1>1, <1>3, ScanUnfolds DEF AfterAttribute
<1>4. CASE n = 2
  BY <1>1, <1>4, ScanUnfolds DEF AfterAttribute
<1> QED
  BY <1>2, <1>3, <1>4

\* An answer tells the mapping at the time of its request, which is one of this
\* call's if the request is.
AnswersDated ==
    /\ txid \in Nat /\ outer \in since
    /\ \A m \in flight : m.txid \in Nat /\ m.txid <= txid
    /\ call = "wait" => \A m \in flight : m.txid = txid => m.outer \in since
    /\ MappingIsSound

LEMMA AnswersDatedNext == AnswersDated /\ [StunNext]_stunVars => AnswersDated'
<1> SUFFICES ASSUME AnswersDated, [StunNext]_stunVars PROVE AnswersDated'
  OBVIOUS
<1> USE DEF AnswersDated, MappingIsSound
<1>1. CASE Call
  BY <1>1 DEF Call
<1>2. CASE Ask
  BY <1>2 DEF Ask
<1>3. ASSUME NEW gone \in BOOLEAN, NextServer(gone), UNCHANGED <<txid, outer, since>>,
             flight' \subseteq flight
      PROVE  AnswersDated'
  <2>1. call' \in {"ask", "failed"}
    BY <1>3 DEF NextServer, GiveUp
  <2> QED
    BY <1>3, <2>1
<1>4. CASE AskFails \/ Expire
  BY <1>3, <1>4 DEF AskFails, Expire
<1>5. CASE Rebind
  BY <1>5 DEF Rebind, client
<1>6. CASE AddressChanges \/ UNCHANGED stunVars
  BY <1>6 DEF AddressChanges, client, stunVars
<1>7. ASSUME NEW m \in flight, Lose(m) PROVE AnswersDated'
  BY <1>7 DEF Lose, client
<1>8. ASSUME NEW m \in flight, ReceiveAnswer(m) PROVE AnswersDated'
  <2>1. call = "wait" /\ flight' \subseteq flight /\ UNCHANGED <<txid, outer, since>>
    BY <1>8 DEF ReceiveAnswer
  <2>2. PICK attrs \in Messages :
          \/ /\ Accepts(m, attrs) /\ call' = "done"
             /\ taken' = [outer |-> m.outer, attrs |-> attrs]
          \/ NextServer(FALSE)
    BY <1>8 DEF ReceiveAnswer
  <2>3. CASE /\ Accepts(m, attrs) /\ call' = "done"
             /\ taken' = [outer |-> m.outer, attrs |-> attrs]
    <3>1. taken'.outer = m.outer /\ m.outer \in since
      BY <2>1, <2>3 DEF Accepts
    <3>2. \A i \in DOMAIN attrs : attrs[i] # "badFingerprint"
      BY <2>3, ScanFound DEF Accepts
    <3>3. taken'.attrs = attrs
      BY <2>3
    <3> QED
      BY <2>1, <2>3, <3>1, <3>2, <3>3
  <2> QED
    BY <1>3, <2>1, <2>2, <2>3
<1> QED
  BY <1>1, <1>2, <1>4, <1>5, <1>6, <1>7, <1>8 DEF StunNext

\* A late answer to an earlier request, or a message whose fingerprint is wrong,
\* is never returned as the mapping: stun/client.go, GetMapping, and message.go,
\* ParseMappedAddress.
THEOREM StunMappingIsSound == StunSpec => []MappingIsSound
<1>1. StunInit => AnswersDated
  BY DEF StunInit, AnswersDated, MappingIsSound
<1>2. AnswersDated => MappingIsSound
  BY DEF AnswersDated
<1> QED
  BY <1>1, <1>2, AnswersDatedNext, PTL DEF StunSpec

-----------------------------------------------------------------------------
(* NatCheck                                                                *)

NatPorts == Ports \cup {0}
Indexes == DOMAIN STUNServers

LEMMA Indexing ==
    /\ Len(STUNServers) \in Nat /\ Indexes \subseteq Nat
    /\ \A i \in Nat \ {0} : i <= Len(STUNServers) => i \in Indexes
    /\ \A i, j \in Indexes : i # j => STUNServers[i] # STUNServers[j]
    /\ \A i \in Indexes : STUNServers[i] # "alternate"
    /\ \A p \in Ports, i \in Indexes : NoResult # <<"nat", p, STUNServers[i]>>
<1>1. STUNServers \in Seq(Asked)
  BY CheckAssumption
<1>2. Len(STUNServers) \in Nat /\ DOMAIN STUNServers = 1..Len(STUNServers)
  BY <1>1
<1>3. Indexes \subseteq Nat /\ \A i \in Nat \ {0} : i <= Len(STUNServers) => i \in Indexes
  BY <1>2 DEF Indexes
<1>4. /\ \A i, j \in Indexes : i # j => STUNServers[i] # STUNServers[j]
      /\ \A i \in Indexes : STUNServers[i] # "alternate"
  BY CheckAssumption DEF Indexes
<1>5. \A p \in Ports, i \in Indexes : NoResult # <<"nat", p, STUNServers[i]>>
  BY CheckAssumption DEF Indexes
<1>. QED
  BY <1>2, <1>3, <1>4, <1>5

\* CheckTCPCone sees one mapping only, if the NAT has one for each server.
ConeInv ==
    /\ test = "cone" /\ nat.mapping = "each" =>
        \/ first = NoResult /\ count = 0
        \/ /\ count = 1
           /\ \E p \in Ports, j \in Indexes :
                  j < index /\ first = <<"nat", p, STUNServers[j]>>
    /\ tcp = "open" => nat.mapping = "none"
    /\ tcp = "fullCone" => nat.filter = "any"
    /\ tcp = "portRestricted" => nat.mapping # "each"

UDPTests == {"test1", "test2", "test3", "verdict"}

\* What a probe of the server j keeps.
ProbeOf(x, p, j) == x.source = Source(p) /\ x.mapped = Mapped(p, STUNServers[j])

FirstInv ==
    test \in UDPTests /\ first # NoResult =>
        \E p \in NatPorts, j \in Indexes : j < index /\ ProbeOf(first, p, j)

SecondInv ==
    test \in UDPTests /\ second # NoResult =>
        /\ first # NoResult
        /\ nat.mapping = "each" => first.mapped # second.mapped

AnswerInv ==
    /\ contacted \subseteq NatPorts \X Asked
    /\ test2 => nat.filter = "any"
    /\ test \in {"test2", "test3"} => index \in Indexes

UDPInv ==
    /\ udp \in {"open", "fullCone", "firewall", "restricted", "portRestricted"}
            => nat.mapping # "each"
    /\ udp \in {"open", "fullCone"} => nat.filter = "any"
    /\ udp \in {"open", "firewall"} => nat.mapping = "none"

BeforeUDP ==
    /\ test \in {"start", "tcp", "wan"} => first = NoResult /\ count = 0 /\ index = 1
    /\ test \in {"start", "tcp", "wan", "cone", "udp"} => second = NoResult

CheckTypes ==
    /\ index \in Nat \ {0} /\ count \in Nat
    /\ nat.mapping \in {"none", "same", "each"}

CheckInv ==
    /\ CheckTypes /\ BeforeUDP /\ ConeInv
    /\ FirstInv /\ SecondInv /\ AnswerInv /\ UDPInv

LEMMA CheckInvInit == CheckInit => CheckInv
<1>. SUFFICES ASSUME CheckInit PROVE CheckInv
  OBVIOUS
<1>1. CheckTypes
  BY DEF CheckInit, CheckTypes, Nats
<1>2. BeforeUDP /\ FirstInv /\ SecondInv
  BY DEF CheckInit, BeforeUDP, FirstInv, SecondInv, UDPTests
<1>3. tcp = NoResult /\ udp = NoResult /\ test = "start" /\ contacted = {} /\ test2 = FALSE
  BY DEF CheckInit
<1>4. ConeInv /\ UDPInv /\ AnswerInv
  BY <1>3, CheckAssumption DEF ConeInv, UDPInv, AnswerInv
<1>. QED
  BY <1>1, <1>2, <1>4 DEF CheckInv

\* What neither the NAT nor the probes for UDP notice.
LEMMA ProbesKept ==
    ASSUME FirstInv, SecondInv, AnswerInv, test' \notin UDPTests,
           UNCHANGED <<nat, contacted, test2>>
    PROVE  FirstInv' /\ SecondInv' /\ AnswerInv'
BY DEF FirstInv, SecondInv, AnswerInv, UDPTests

LEMMA CheckInvTCP ==
    ASSUME CheckInv,
           \/ StartCheck \/ ResolveFails \/ FullConeMapping \/ FullConePort
           \/ Cone \/ ConeEnds \/ StartUDP \/ Cancel
    PROVE  CheckInv'
<1>0. index \in Nat \ {0} /\ count \in Nat /\ ConeInv
  BY DEF CheckInv, CheckTypes
<1>9. FirstInv /\ SecondInv /\ AnswerInv
  BY DEF CheckInv
<1>1. CASE StartCheck
  BY <1>1, ProbesKept DEF StartCheck, tests, ConeInv, CheckInv, CheckTypes, BeforeUDP, UDPInv, UDPTests
<1>2. CASE ResolveFails
  BY <1>2, ProbesKept DEF ResolveFails, ToUDP, tests,
         ConeInv, CheckInv, CheckTypes, BeforeUDP, UDPInv, UDPTests
<1>3. CASE FullConeMapping
  BY <1>3, ProbesKept DEF FullConeMapping, ToUDP, tests,
         ConeInv, CheckInv, CheckTypes, BeforeUDP, UDPInv, UDPTests
<1>4. CASE FullConePort
  BY <1>4, ProbesKept DEF FullConePort, ToUDP, TestWAN, ServiceResults, tests,
         ConeInv, CheckInv, CheckTypes, BeforeUDP, UDPInv, UDPTests
<1>5. CASE Cone
  <2>1. FirstInv' /\ SecondInv' /\ AnswerInv'
    BY <1>5, <1>9, ProbesKept DEF Cone, ToUDP, UDPTests
  <2>2. CheckTypes' /\ BeforeUDP' /\ UDPInv'
    <3>1. /\ index' \in {index, index + 1} /\ count' \in {count, count + 1}
          /\ test' \in {"cone", "udp"} /\ second' = second /\ test = "cone"
          /\ UNCHANGED <<nat, udp>>
      BY <1>5 DEF Cone, ToUDP
    <3>. QED
      <4>1. CheckTypes'
        BY <1>0, <3>1 DEF CheckInv, CheckTypes
      <4>2. BeforeUDP'
        BY <3>1 DEF CheckInv, BeforeUDP
      <4>. QED
        BY <3>1, <4>1, <4>2 DEF CheckInv, UDPInv
  <2>3. \/ index' = index + 1 /\ UNCHANGED <<first, count, test, tcp, nat>>
        \/ /\ test' = "udp" /\ tcp' = "symmetric" /\ UNCHANGED nat
        \/ /\ UNCHANGED <<test, tcp, nat>> /\ count' = count + 1 /\ index' = index + 1
           /\ \E p \in Ports : /\ first' = Mapped(p, STUNServers[index])
                               /\ first \in {NoResult, Mapped(p, STUNServers[index])}
    BY <1>5 DEF Cone, ToUDP
  <2>4. ConeInv'
    <3>1. CASE index' = index + 1 /\ UNCHANGED <<first, count, test, tcp, nat>>
      <4>1. \A j \in Indexes : j < index => j < index'
        BY <1>0, <3>1, Indexing
      <4>. QED
        BY <1>0, <3>1, <4>1 DEF ConeInv
    <3>2. CASE test' = "udp" /\ tcp' = "symmetric" /\ UNCHANGED nat
      BY <3>2 DEF ConeInv
    <3>3. ASSUME NEW p \in Ports, first' = Mapped(p, STUNServers[index]),
                 first \in {NoResult, Mapped(p, STUNServers[index])},
                 UNCHANGED <<test, tcp, nat>>, count' = count + 1, index' = index + 1
          PROVE  ConeInv'
      <4>1. CASE nat.mapping = "each"
        <5>1. Mapped(p, STUNServers[index]) = <<"nat", p, STUNServers[index]>> /\ test = "cone"
          BY <1>5, <4>1 DEF Mapped, Cone
        <5>2. index \in Indexes
          BY <1>0, <1>5, Indexing DEF Cone
        <5>3. ASSUME NEW q \in Ports, NEW j \in Indexes, j < index,
                     first = <<"nat", q, STUNServers[j]>>
              PROVE  FALSE
          <6>1. STUNServers[j] # STUNServers[index]
            BY <1>0, <5>2, <5>3, Indexing
          <6>2. first # NoResult
            BY <5>3, Indexing
          <6>3. first = <<"nat", p, STUNServers[index]>>
            BY <3>3, <5>1, <6>2
          <6>. QED
            BY <5>3, <6>1, <6>3
        <5>4. first = NoResult /\ count = 0
          BY <1>0, <4>1, <5>1, <5>3 DEF ConeInv
        <5>5. count' = 1 /\ first' = <<"nat", p, STUNServers[index]>>
          BY <3>3, <5>1, <5>4
        <5>6. index < index'
          BY <1>0, <3>3
        <5>. QED
          BY <1>0, <3>3, <5>2, <5>5, <5>6 DEF ConeInv
      <4>. QED
        BY <1>0, <3>3, <4>1 DEF ConeInv
    <3>. QED
      BY <2>3, <3>1, <3>2, <3>3
  <2>. QED
    BY <2>1, <2>2, <2>4 DEF CheckInv
<1>6. CASE ConeEnds
  <2>1. FirstInv' /\ SecondInv' /\ AnswerInv' /\ CheckTypes' /\ BeforeUDP' /\ UDPInv'
    BY <1>6, <1>9, ProbesKept DEF ConeEnds, ToUDP, tests, CheckInv, CheckTypes, BeforeUDP, UDPInv, UDPTests
  <2>2. count >= 3 => nat.mapping # "each"
    <3>1. test = "cone" /\ (nat.mapping = "each" => count \in {0, 1})
      BY <1>0, <1>6 DEF ConeEnds, ConeInv
    <3>. QED
      BY <1>0, <3>1
  <2>3. test' = "udp" /\ tcp' \in {"portRestricted", "unknown"} /\ nat' = nat
        /\ (tcp' = "portRestricted" => count >= 3)
    BY <1>6 DEF ConeEnds, ToUDP
  <2>. QED
    BY <1>0, <2>1, <2>2, <2>3 DEF ConeInv, CheckInv
<1>7. CASE StartUDP
  <2>1. /\ test = "udp" /\ test' = "test1" /\ first' = NoResult /\ second' = second
        /\ index' = 1 /\ count' = 0 /\ UNCHANGED <<nat, contacted, test2, tcp, udp>>
    BY <1>7 DEF StartUDP
  <2>2. FirstInv' /\ SecondInv' /\ AnswerInv'
    BY <1>9, <2>1 DEF FirstInv, SecondInv, AnswerInv, CheckInv, BeforeUDP
  <2>3. ConeInv'
    BY <1>0, <2>1 DEF ConeInv
  <2>4. CheckTypes' /\ BeforeUDP' /\ UDPInv'
    <3>1. CheckTypes'
      <4>1. nat'.mapping \in {"none", "same", "each"}
        BY <2>1 DEF CheckInv, CheckTypes
      <4>2. 1 \in Nat \ {0} /\ 0 \in Nat
        OBVIOUS
      <4>. QED
        BY <2>1, <4>1, <4>2 DEF CheckTypes
    <3>2. BeforeUDP'
      BY <2>1 DEF BeforeUDP
    <3>. QED
      BY <2>1, <3>1, <3>2 DEF CheckInv, UDPInv
  <2>. QED
    BY <2>2, <2>3, <2>4 DEF CheckInv
<1>8. CASE Cancel
  BY <1>8, ProbesKept DEF Cancel, tests, ConeInv, CheckInv, CheckTypes, BeforeUDP, UDPInv, UDPTests
<1>. QED
  BY <1>1, <1>2, <1>3, <1>4, <1>5, <1>6, <1>7, <1>8

\* What the probes for UDP leave alone.
LEMMA TestsKept ==
    ASSUME CheckInv, test' \in UDPTests, UNCHANGED <<nat, count, tcp, udp>>,
           index' \in {index, index + 1}
    PROVE  CheckTypes' /\ BeforeUDP' /\ ConeInv' /\ UDPInv'
<1>1. CheckTypes'
  BY DEF CheckInv, CheckTypes
<1>2. BeforeUDP' /\ ConeInv' /\ UDPInv'
  BY DEF CheckInv, BeforeUDP, ConeInv, UDPInv, UDPTests
<1>. QED
  BY <1>1, <1>2

LEMMA FirstKept ==
    ASSUME CheckInv, test \in UDPTests, UNCHANGED <<nat, first>>, index' \in {index, index + 1}
    PROVE  FirstInv'
<1>1. CASE first = NoResult
  BY <1>1 DEF FirstInv
<1>2. CASE first # NoResult
  <2>1. PICK p \in NatPorts, j \in Indexes : j < index /\ ProbeOf(first, p, j)
    BY <1>2 DEF CheckInv, FirstInv
  <2>2. ProbeOf(first, p, j)'
    BY <2>1 DEF ProbeOf, Source, Mapped
  <2>3. j < index'
    BY <2>1, Indexing DEF CheckInv, CheckTypes
  <2>. QED
    BY <2>2, <2>3 DEF FirstInv
<1>. QED
  BY <1>1, <1>2

LEMMA SendsKnown ==
    ASSUME AnswerInv, NEW p \in NatPorts, NEW k \in Indexes, Sends(p, STUNServers[k])
    PROVE  contacted' \subseteq NatPorts \X Asked
<1>1. STUNServers[k] \in Asked
  BY DEF Asked, Indexes
<1>2. contacted \subseteq NatPorts \X Asked
  BY DEF AnswerInv
<1>3. contacted' = contacted \cup {<<p, STUNServers[k]>>}
  BY DEF Sends
<1>. QED
  BY <1>1, <1>2, <1>3

LEMMA CheckInvUDP ==
    ASSUME CheckInv, Test1 \/ Test2 \/ Test3 \/ UDPEnds
    PROVE  CheckInv'
<1>1. SourcePorts(nat.fixed) \subseteq NatPorts
  BY DEF SourcePorts, NatPorts
<1>. USE DEF UDPTests
<1>2. CASE Test1
  <2>1. /\ test = "test1" /\ index <= Len(STUNServers)
        /\ UNCHANGED <<nat, count, test2, tcp, udp>>
    BY <1>2 DEF Test1
  <2>2. index \in Indexes
    BY <2>1, Indexing DEF CheckInv, CheckTypes
  <2>10. PICK k \in Indexes : k = index
    BY <2>2
  <2>3. PICK p \in SourcePorts(nat.fixed) :
            /\ Sends(p, STUNServers[index])
            /\ \/ /\ first = NoResult
                  /\ first' = [source |-> Source(p), mapped |-> Mapped(p, STUNServers[index])]
                  /\ index' = index + 1 /\ UNCHANGED <<second, test>>
               \/ /\ first # NoResult
                  /\ second' = [source |-> Source(p), mapped |-> Mapped(p, STUNServers[index])]
                  /\ test' = "test2" /\ UNCHANGED <<first, index>>
               \/ index' = index + 1 /\ UNCHANGED <<first, second, test>>
    BY <1>2 DEF Test1
  <2>4. CheckTypes' /\ BeforeUDP' /\ ConeInv' /\ UDPInv'
    BY <2>1, <2>3, TestsKept
  <2>5. p \in NatPorts
    BY <1>1
  <2>6. AnswerInv'
    BY <2>1, <2>2, <2>3, <2>5, <2>10, SendsKnown DEF CheckInv, AnswerInv
  <2>7. CASE /\ first = NoResult
             /\ first' = [source |-> Source(p), mapped |-> Mapped(p, STUNServers[index])]
             /\ index' = index + 1 /\ UNCHANGED <<second, test>>
    <3>1. SecondInv'
      BY <2>1, <2>7 DEF CheckInv, SecondInv
    <3>2. /\ first'.source = Source(p)' /\ first'.mapped = Mapped(p, STUNServers[k])'
      BY <2>1, <2>7, <2>10 DEF Source, Mapped
    <3>3. k < index'
      BY <2>7, <2>10 DEF CheckInv, CheckTypes
    <3>4. FirstInv'
      BY <2>2, <2>5, <3>2, <3>3 DEF FirstInv, ProbeOf
    <3>. QED
      BY <2>4, <2>6, <3>1, <3>4 DEF CheckInv
  <2>8. CASE /\ first # NoResult
             /\ second' = [source |-> Source(p), mapped |-> Mapped(p, STUNServers[index])]
             /\ test' = "test2" /\ UNCHANGED <<first, index>>
    <3>1. FirstInv'
      BY <2>1, <2>8, FirstKept
    <3>2. nat.mapping = "each" => first.mapped # second'.mapped
      <4>1. PICK q \in NatPorts, j \in Indexes : j < index /\ ProbeOf(first, q, j)
        BY <2>1, <2>8 DEF CheckInv, FirstInv
      <4>2. j # index
        BY <4>1, Indexing DEF CheckInv, CheckTypes
      <4>3. STUNServers[j] # STUNServers[index]
        BY <2>2, <4>2, Indexing
      <4>4. second'.mapped = Mapped(p, STUNServers[index]) /\ first.mapped = Mapped(q, STUNServers[j])
        BY <2>8, <4>1 DEF ProbeOf
      <4>5. nat.mapping = "each" =>
                /\ Mapped(p, STUNServers[index]) = <<"nat", p, STUNServers[index]>>
                /\ Mapped(q, STUNServers[j]) = <<"nat", q, STUNServers[j]>>
        BY DEF Mapped
      <4>. QED
        BY <4>3, <4>4, <4>5
    <3>3. SecondInv'
      BY <2>1, <2>8, <3>2 DEF SecondInv
    <3>. QED
      BY <2>4, <2>6, <3>1, <3>3 DEF CheckInv
  <2>9. CASE index' = index + 1 /\ UNCHANGED <<first, second, test>>
    <3>1. FirstInv'
      BY <2>1, <2>9, FirstKept
    <3>2. SecondInv'
      BY <2>1, <2>9 DEF CheckInv, SecondInv
    <3>. QED
      BY <2>4, <2>6, <3>1, <3>2 DEF CheckInv
  <2>. QED
    BY <2>3, <2>7, <2>8, <2>9
<1>3. CASE Test2
  <2>1. /\ test = "test2" /\ test' \in {"test1", "test3"} /\ index' \in {index, index + 1}
        /\ test' = "test3" => index' = index
        /\ UNCHANGED <<nat, first, second, count, tcp, udp>>
    BY <1>3 DEF Test2
  <2>2. CheckTypes' /\ BeforeUDP' /\ ConeInv' /\ UDPInv' /\ FirstInv'
    BY <2>1, TestsKept, FirstKept
  <2>3. SecondInv'
    BY <2>1 DEF CheckInv, SecondInv
  <2>4. AnswerInv'
    <3>1. index \in Indexes
      BY <2>1 DEF CheckInv, AnswerInv
    <3>2. PICK k \in Indexes : k = index
      BY <3>1
    <3>3. PICK p \in SourcePorts(nat.fixed) :
            LET a == AnswerOf(STUNServers[k], TRUE, TRUE)
            IN  /\ Sends(p, STUNServers[k])
                /\ test2' = test2 \/ (LetsIn(p, a) /\ AsRequested(a))
      BY <1>3, <3>2 DEF Test2
    <3>4. contacted' \subseteq NatPorts \X Asked
      BY <1>1, <3>3, SendsKnown DEF CheckInv
    <3>5. "alternate" \notin Asked
      BY Indexing DEF Asked
    <3>6. ASSUME NEW a, LetsIn(p, a), AsRequested(a) PROVE nat.filter = "any"
      BY <3>4, <3>5, <3>6 DEF LetsIn, AsRequested
    <3>7. test2 => nat.filter = "any"
      BY DEF CheckInv, AnswerInv
    <3>8. test2' => nat'.filter = "any"
      BY <2>1, <3>3, <3>6, <3>7
    <3>9. test' \in {"test2", "test3"} => index' \in Indexes
      BY <2>1, <3>1 DEF UDPTests
    <3>. QED
      BY <3>4, <3>8, <3>9 DEF AnswerInv
  <2>. QED
    BY <2>2, <2>3, <2>4 DEF CheckInv
<1>4. CASE Test3
  <2>1. /\ test = "test3" /\ test' = "verdict"
        /\ UNCHANGED <<nat, index, first, second, count, test2, tcp, udp>>
    BY <1>4 DEF Test3
  <2>2. CheckTypes' /\ BeforeUDP' /\ ConeInv' /\ UDPInv' /\ FirstInv'
    BY <2>1, TestsKept, FirstKept
  <2>3. SecondInv'
    BY <2>1 DEF CheckInv, SecondInv
  <2>4. AnswerInv'
    <3>1. index \in Indexes
      BY <2>1 DEF CheckInv, AnswerInv
    <3>2. PICK k \in Indexes : k = index
      BY <3>1
    <3>3. PICK p \in SourcePorts(nat.fixed) : Sends(p, STUNServers[k])
      BY <1>4, <3>2 DEF Test3
    <3>. QED
      BY <1>1, <2>1, <3>3, SendsKnown DEF CheckInv, AnswerInv
  <2>. QED
    BY <2>2, <2>3, <2>4 DEF CheckInv
<1>5. CASE UDPEnds
  <2>1. /\ test \in UDPTests /\ test' = "end" /\ udp' = Verdict
        /\ UNCHANGED <<nat, index, contacted, first, second, count, test2, tcp>>
    BY <1>5 DEF UDPEnds, tests
  <2>2. FirstInv' /\ SecondInv' /\ AnswerInv'
    BY <2>1, ProbesKept DEF CheckInv
  <2>3. CheckTypes' /\ BeforeUDP' /\ ConeInv'
    BY <2>1 DEF CheckInv, CheckTypes, BeforeUDP, ConeInv
  <2>4. ASSUME Verdict \in {"unknown", "symmetric"} PROVE UDPInv'
    BY <2>1, <2>4 DEF UDPInv
  <2>5. ASSUME first # NoResult, second # NoResult, first.mapped = second.mapped,
               Verdict = IF first.source = first.mapped
                         THEN (IF test2 THEN "open" ELSE "firewall")
                         ELSE IF test2 THEN "fullCone"
                         ELSE IF test3 THEN "restricted" ELSE "portRestricted"
        PROVE  UDPInv'
    <3>1. nat.mapping # "each"
      BY <2>1, <2>5 DEF CheckInv, SecondInv
    <3>2. test2 => nat.filter = "any"
      BY DEF CheckInv, AnswerInv
    <3>3. first.source = first.mapped => nat.mapping = "none"
      <4>1. PICK p \in NatPorts, j \in Indexes : ProbeOf(first, p, j)
        BY <2>1, <2>5 DEF CheckInv, FirstInv
      <4>2. ASSUME nat.mapping = "same" PROVE first.source # first.mapped
        <5>1. first.mapped = <<"nat", p>>
          BY <4>1, <4>2 DEF ProbeOf, Mapped
        <5>2. first.source[1] \in {"host", "any"}
          BY <4>1 DEF ProbeOf, Source
        <5>. QED
          BY <5>1, <5>2
      <4>. QED
        BY <3>1, <4>2 DEF CheckInv, CheckTypes
    <3>. QED
      BY <2>1, <2>5, <3>1, <3>2, <3>3 DEF UDPInv
  <2>6. UDPInv'
    BY <2>4, <2>5 DEF Verdict
  <2>. QED
    BY <2>2, <2>3, <2>6 DEF CheckInv
<1>. QED
  BY <1>2, <1>3, <1>4, <1>5

LEMMA CheckInvAlways == CheckSpec => []CheckInv
<1>1. CheckInv /\ UNCHANGED checkVars => CheckInv'
  <2>. SUFFICES ASSUME CheckInv, UNCHANGED checkVars PROVE CheckInv'
    OBVIOUS
  <2>1. CheckTypes' /\ BeforeUDP' /\ ConeInv' /\ UDPInv'
    BY DEF checkVars, CheckInv, CheckTypes, BeforeUDP, ConeInv, UDPInv
  <2>2. SecondInv' /\ AnswerInv'
    BY DEF checkVars, CheckInv, SecondInv, AnswerInv
  <2>3. FirstInv'
    BY DEF checkVars, CheckInv, FirstInv, ProbeOf, Source, Mapped
  <2>. QED
    BY <2>1, <2>2, <2>3 DEF CheckInv
<1>2. CheckInv /\ [CheckNext]_checkVars => CheckInv'
  BY <1>1, CheckInvTCP, CheckInvUDP DEF CheckNext
<1>. QED
  BY <1>2, CheckInvInit, PTL DEF CheckSpec

\* An answer to Test 3 from the port it was asked for passes no filter by port.
RestrictedInv ==
    /\ test3 => /\ test \in {"verdict", "end"}
                /\ STUNServers[index] \in nat.honest => nat.filter # "port"
    /\ udp = "restricted" => test3

LEMMA RestrictedStep ==
    ASSUME CheckInv, RestrictedInv, CheckNext PROVE RestrictedInv'
<1>1. CASE Test3
  <2>1. /\ test = "test3" /\ test' = "verdict" /\ ~test3
        /\ UNCHANGED <<nat, index, udp>> /\ index \in Indexes
    BY <1>1 DEF Test3, RestrictedInv, CheckInv, AnswerInv
  <2>2. PICK p \in SourcePorts(nat.fixed) :
            \/ LetsIn(p, Test3Answer(STUNServers[index])) /\ test3' = TRUE
            \/ UNCHANGED test3
    BY <1>1 DEF Test3
  <2>3. ASSUME STUNServers[index] \in nat.honest, LetsIn(p, Test3Answer(STUNServers[index]))
        PROVE  nat.filter # "port"
    BY <2>3 DEF LetsIn, Test3Answer, AnswerOf
  <2>4. udp # "restricted"
    BY <2>1 DEF RestrictedInv
  <2> QED
    BY <2>1, <2>2, <2>3, <2>4 DEF RestrictedInv
<1>2. CASE UDPEnds
  <2>1. /\ UNCHANGED <<nat, index, test3>> /\ test' = "end" /\ udp' = Verdict
    BY <1>2 DEF UDPEnds, tests
  <2>2. Verdict = "restricted" => test3
    BY DEF Verdict
  <2> QED
    BY <2>1, <2>2 DEF RestrictedInv
<1>3. CASE Cancel \/ ResolveFails
  <2>1. /\ UNCHANGED <<nat, index, test3>>
        /\ test \in {"verdict", "end"} => test' = "end"
        /\ udp' \in {udp, "error"}
    BY <1>3 DEF Cancel, ResolveFails, ToUDP, tests
  <2> QED
    BY <2>1 DEF RestrictedInv
<1>4. CASE \/ StartCheck \/ FullConeMapping \/ FullConePort \/ Cone \/ ConeEnds
           \/ StartUDP \/ Test1 \/ Test2
  <2>1. test \notin {"verdict", "end"} /\ UNCHANGED <<test3, udp>>
    BY <1>4
       DEF StartCheck, FullConeMapping, FullConePort, Cone, ConeEnds, StartUDP, Test1, Test2, tests
  <2> QED
    BY <2>1 DEF RestrictedInv
<1> QED
  BY <1>1, <1>2, <1>3, <1>4 DEF CheckNext

\* No verdict names a NAT better than it is, whatever probes are lost and whatever
\* the servers and services answer, but for restricted where a server has answered
\* Test 3 from the port it was asked at: check/check.go, CheckUDPNATType and
\* ResultFromNATType.
THEOREM CheckNeverTooGood == CheckSpec => []NeverTooGood
<1>1. CheckInv /\ RestrictedInv => NeverTooGood
  BY DEF CheckInv, UDPInv, ConeInv, RestrictedInv, NeverTooGood
<1>2. CheckInit => RestrictedInv
  BY CheckAssumption DEF CheckInit, RestrictedInv
<1>3. CheckInv /\ RestrictedInv /\ [CheckNext]_checkVars => RestrictedInv'
  BY RestrictedStep DEF RestrictedInv, checkVars
<1>. QED
  BY <1>1, <1>2, <1>3, CheckInvAlways, PTL DEF CheckSpec

\* A socket with a configured end, servers that do as requested, no probe lost.
Ideal == nat.fixed /\ nat.known /\ ~lost /\ nat.honest = Asked

\* The probes keep what the first two servers have seen.
FirstSeen ==
    /\ first # NoResult
    /\ first.source = <<"host", 0>> /\ first.mapped = Mapped(0, STUNServers[1])

SecondSeen == second # NoResult /\ second.mapped = Mapped(0, STUNServers[2])

\* Until its own step no test has had an answer, and no verdict is given before
\* the last of them.
NotYet ==
    /\ test \in {"start", "tcp", "wan", "cone", "udp", "test1", "test2"} => ~test2
    /\ test \in {"start", "tcp", "wan", "cone", "udp", "test1", "test2", "test3"} => ~test3
    /\ test # "end" => udp = NoResult

\* Where the tests have got to, and what their answers tell.
Progress ==
    /\ test = "test1" => \/ index = 1 /\ first = NoResult
                         \/ index = 2 /\ FirstSeen
    /\ test \in {"test2", "test3", "verdict"} => FirstSeen /\ SecondSeen
    /\ test \in {"test2", "test3"} => index = 2
    /\ test \in {"test3", "verdict"} => (test2 <=> nat.filter = "any")
    /\ test = "verdict" => (test3 <=> nat.filter # "port")

VerdictInv ==
    /\ nat \in Nats
    /\ NotYet
    /\ Ideal => Progress
    /\ TypeIsRight

LEMMA VerdictInvInit == CheckInit => VerdictInv
<1>1. CheckInit => nat \in Nats /\ test = "start" /\ udp = NoResult /\ ~test2 /\ ~test3
  BY DEF CheckInit
<1> QED
  BY <1>1 DEF VerdictInv, NotYet, Progress, TypeIsRight

\* The steps outside the probes for UDP.
LEMMA VerdictInvOutside ==
    ASSUME VerdictInv, UNCHANGED <<nat, lost, test2, test3>>,
           \/ /\ test' \in {"tcp", "wan", "cone", "udp"} /\ udp' = udp
              /\ test \in {"start", "tcp", "wan", "cone", "udp"}
           \/ test' = "end" /\ udp' \in {"error", udp} /\ test \notin UDPTests
           \/ test' = "end" /\ udp' = "error"
    PROVE  VerdictInv'
<1>1. Ideal' => Progress'
  BY DEF Progress
<1>2. NotYet'
  BY DEF VerdictInv, NotYet
<1>3. TypeIsRight'
  BY DEF VerdictInv, TypeIsRight, NotYet
<1> QED
  BY <1>1, <1>2, <1>3 DEF VerdictInv

LEMMA IdealKept == ASSUME nat' = nat, lost => lost' PROVE Ideal' => Ideal
BY DEF Ideal

LEMMA ProbePorts == Ideal => \A p \in SourcePorts(nat.fixed) : p = 0 /\ Source(p) = <<"host", 0>>
BY DEF Ideal, SourcePorts, Source

\* Two servers at least: with fewer no test can tell one mapping from another.
TwoServers == Len(STUNServers) >= 2

LEMMA ProbesAreResults ==
    TwoServers => \A i \in {1, 2} :
        [source |-> <<"host", 0>>, mapped |-> Mapped(0, STUNServers[i])] # NoResult
<1> SUFFICES ASSUME TwoServers, NEW i \in {1, 2}
             PROVE  [source |-> <<"host", 0>>, mapped |-> Mapped(0, STUNServers[i])] # NoResult
  OBVIOUS
<1>1. i \in Indexes
  BY Indexing DEF TwoServers
<1>2. STUNServers[i] \in Asked
  BY <1>1 DEF Asked, Indexes
<1>3. Mapped(0, STUNServers[i]) \in
        {<<"host", 0>>, <<"nat", 0>>} \cup {<<"nat", 0, s>> : s \in Asked}
  BY <1>2 DEF Mapped
<1> QED
  BY <1>3, CheckAssumption

LEMMA VerdictInvTest1 == ASSUME TwoServers, VerdictInv, Test1 PROVE VerdictInv'
<1>1. /\ test = "test1" /\ test' \in {"test1", "test2"}
      /\ UNCHANGED <<nat, test2, test3, udp>> /\ (lost => lost')
  BY DEF Test1
<1>2. PICK p \in SourcePorts(nat.fixed) :
        /\ contacted' = contacted \cup {<<p, STUNServers[index]>>}
        /\ \/ /\ first = NoResult
              /\ first' = [source |-> Source(p), mapped |-> Mapped(p, STUNServers[index])]
              /\ index' = index + 1 /\ UNCHANGED <<second, test, lost>>
           \/ /\ first # NoResult
              /\ second' = [source |-> Source(p), mapped |-> Mapped(p, STUNServers[index])]
              /\ test' = "test2" /\ UNCHANGED <<first, index, lost>>
           \/ index' = index + 1 /\ lost' = TRUE /\ UNCHANGED <<first, second, test>>
  BY DEF Test1, Sends
<1>3. ASSUME Ideal' PROVE Progress'
  <2>1. Ideal /\ p = 0 /\ Source(p) = <<"host", 0>>
    BY <1>1, <1>3, IdealKept, ProbePorts
  <2>2. ~lost'
    BY <1>3 DEF Ideal
  <2>3. Progress
    BY <2>1 DEF VerdictInv
  <2>4. \A s : Mapped(0, s)' = Mapped(0, s)
    BY <1>1 DEF Mapped
  <2>5. CASE first = NoResult
    <3>1. index = 1 /\ index' = 2 /\ test' = "test1"
          /\ first' = [source |-> <<"host", 0>>, mapped |-> Mapped(0, STUNServers[1])]
      BY <1>1, <1>2, <2>1, <2>2, <2>3, <2>5 DEF Progress, FirstSeen
    <3>2. first' # NoResult
      BY <3>1, ProbesAreResults
    <3> QED
      BY <2>4, <3>1, <3>2 DEF Progress, FirstSeen
  <2>6. CASE first # NoResult
    <3>1. index = 2 /\ index' = 2 /\ test' = "test2" /\ first' = first /\ FirstSeen
          /\ second' = [source |-> <<"host", 0>>, mapped |-> Mapped(0, STUNServers[2])]
      BY <1>1, <1>2, <2>1, <2>2, <2>3, <2>6 DEF Progress
    <3>2. second' # NoResult
      BY <3>1, ProbesAreResults
    <3> QED
      BY <2>4, <3>1, <3>2 DEF Progress, FirstSeen, SecondSeen
  <2> QED
    BY <2>5, <2>6
<1>4. NotYet'
  BY <1>1 DEF VerdictInv, NotYet
<1>5. TypeIsRight'
  BY <1>1 DEF VerdictInv, NotYet, TypeIsRight
<1> QED
  BY <1>1, <1>3, <1>4, <1>5 DEF VerdictInv

LEMMA VerdictInvTest2 == ASSUME TwoServers, CheckInv', VerdictInv, Test2 PROVE VerdictInv'
<1>1. /\ test = "test2" /\ test' \in {"test1", "test3"}
      /\ UNCHANGED <<nat, first, second, test3, udp>>
  BY DEF Test2
<1>2. PICK p \in SourcePorts(nat.fixed) :
        LET a == AnswerOf(STUNServers[index], TRUE, TRUE)
        IN  \/ /\ LetsIn(p, a)
               /\ IF AsRequested(a)
                  THEN test2' = TRUE /\ test' = "test3" /\ UNCHANGED index
                  ELSE test' = "test1" /\ index' = index + 1 /\ UNCHANGED test2
               /\ UNCHANGED lost
            \/ /\ test' = "test3"
               /\ lost' = (lost \/ LetsIn(p, a))
               /\ UNCHANGED <<test2, index>>
  BY DEF Test2
<1>6. Ideal' => Ideal
  <2>1. lost => lost'
    BY <1>2
  <2> QED
    BY <1>1, <2>1, IdealKept
<1>3. ASSUME Ideal' PROVE Progress'
  <2>1. Ideal
    BY <1>3, <1>6
  <2>2. ~lost'
    BY <1>3 DEF Ideal
  <2>3. FirstSeen /\ SecondSeen /\ index = 2 /\ ~test2
    BY <1>1, <2>1 DEF VerdictInv, Progress, NotYet
  <2>4. FirstSeen' /\ SecondSeen'
    BY <1>1, <2>3 DEF FirstSeen, SecondSeen, Mapped
  <2> DEFINE a == AnswerOf(STUNServers[2], TRUE, TRUE)
  <2>5. a = [host |-> "alternate", changed |-> TRUE]
    <3>1. STUNServers[2] \in Asked
      BY Indexing DEF Asked, Indexes, TwoServers
    <3> QED
      BY <2>1, <3>1 DEF AnswerOf, Ideal
  <2>6. AsRequested(a) /\ (LetsIn(p, a) <=> nat.filter = "any")
    <3>1. "alternate" \notin Asked
      BY Indexing DEF Asked, Indexes
    <3>2. <<p, "alternate">> \notin contacted'
      BY <3>1 DEF CheckInv, AnswerInv
    <3> HIDE DEF a
    <3>3. a.host = "alternate"
      BY <2>5
    <3>4. a.changed = TRUE
      BY <2>5
    <3>5. AsRequested(a) /\ <<p, a.host>> \notin contacted'
      BY <3>2, <3>3, <3>4 DEF AsRequested
    <3> QED
      BY <3>5 DEF LetsIn
  <2> HIDE DEF a
  <2>7. /\ \/ LetsIn(p, a) /\ test2' = TRUE
           \/ ~LetsIn(p, a) /\ test2' = test2
        /\ test' = "test3" /\ index' = 2
    BY <1>2, <2>2, <2>3, <2>6 DEF a
  <2>8. test2' <=> nat'.filter = "any"
    BY <1>1, <2>3, <2>6, <2>7
  <2> QED
    BY <2>4, <2>7, <2>8 DEF Progress
<1>4. NotYet'
  <2>1. test' = "test1" => test2' = test2
    BY <1>2
  <2> QED
    BY <1>1, <2>1 DEF VerdictInv, NotYet
<1>5. TypeIsRight'
  BY <1>1 DEF VerdictInv, NotYet, TypeIsRight
<1> QED
  BY <1>1, <1>3, <1>4, <1>5 DEF VerdictInv

LEMMA VerdictInvTest3 == ASSUME TwoServers, VerdictInv, Test3 PROVE VerdictInv'
<1>1. /\ test = "test3" /\ test' = "verdict"
      /\ UNCHANGED <<nat, index, first, second, test2, udp>>
  BY DEF Test3
<1>2. PICK p \in SourcePorts(nat.fixed) :
        LET a == Test3Answer(STUNServers[index])
        IN  /\ contacted' = contacted \cup {<<p, STUNServers[index]>>}
            /\ \/ LetsIn(p, a) /\ test3' = TRUE /\ UNCHANGED lost
               \/ lost' = (lost \/ LetsIn(p, a)) /\ UNCHANGED test3
  BY DEF Test3, Sends
<1>6. Ideal' => Ideal
  <2>1. lost => lost'
    BY <1>2
  <2> QED
    BY <1>1, <2>1, IdealKept
<1>3. ASSUME Ideal' PROVE Progress'
  <2>1. Ideal
    BY <1>3, <1>6
  <2>2. ~lost'
    BY <1>3 DEF Ideal
  <2>3. FirstSeen /\ SecondSeen /\ index = 2 /\ ~test3 /\ (test2 <=> nat.filter = "any")
    BY <1>1, <2>1 DEF VerdictInv, Progress, NotYet
  <2>4. FirstSeen' /\ SecondSeen'
    BY <1>1, <2>3 DEF FirstSeen, SecondSeen, Mapped
  <2> DEFINE a == Test3Answer(STUNServers[2])
  <2>5. a = [host |-> STUNServers[2], changed |-> TRUE]
    <3>1. STUNServers[2] \in Asked
      BY Indexing DEF Asked, Indexes, TwoServers
    <3> QED
      BY <2>1, <3>1 DEF Test3Answer, AnswerOf, Ideal
  <2>6. LetsIn(p, a) <=> nat.filter # "port"
    <3>1. <<p, STUNServers[2]>> \in contacted'
      BY <1>2, <2>3
    <3>2. nat.filter # "port" => nat.filter \in {"any", "host"}
      BY DEF VerdictInv, Nats
    <3> QED
      BY <2>5, <3>1, <3>2 DEF LetsIn
  <2> HIDE DEF a
  <2>7. \/ LetsIn(p, a) /\ test3' = TRUE
        \/ ~LetsIn(p, a) /\ test3' = test3
    BY <1>2, <2>2, <2>3 DEF a
  <2>8. test3' <=> nat'.filter # "port"
    BY <1>1, <2>3, <2>6, <2>7
  <2> QED
    BY <1>1, <2>3, <2>4, <2>8 DEF Progress
<1>4. NotYet'
  BY <1>1 DEF VerdictInv, NotYet
<1>5. TypeIsRight'
  BY <1>1 DEF VerdictInv, NotYet, TypeIsRight
<1> QED
  BY <1>1, <1>3, <1>4, <1>5 DEF VerdictInv

LEMMA VerdictInvEnds == ASSUME TwoServers, VerdictInv, UDPEnds PROVE VerdictInv'
<1>1. /\ test = "verdict" \/ (test = "test1" /\ index > Len(STUNServers))
      /\ udp' = Verdict /\ test' = "end" /\ nat' = nat /\ lost' = lost
  BY DEF UDPEnds
<1>2. TypeIsRight'
  <2> SUFFICES ASSUME Ideal
               PROVE  udp' = IF nat.mapping = "each" THEN "symmetric"
                             ELSE IF nat.mapping = "none"
                                  THEN (IF nat.filter = "any" THEN "open" ELSE "firewall")
                             ELSE CASE nat.filter = "any" -> "fullCone"
                                    [] nat.filter = "host" -> "restricted"
                                    [] OTHER -> "portRestricted"
    BY <1>1 DEF Ideal, TypeIsRight
  <2>1. Progress
    BY DEF VerdictInv
  <2>2. test = "verdict"
    <3>1. test = "test1" => index \in {1, 2}
      BY <2>1 DEF Progress
    <3> QED
      BY <1>1, <3>1, Indexing DEF TwoServers
  <2>3. /\ first # NoResult /\ second # NoResult
        /\ first.source = <<"host", 0>> /\ first.mapped = Mapped(0, STUNServers[1])
        /\ second.mapped = Mapped(0, STUNServers[2])
        /\ test2 <=> nat.filter = "any"
        /\ test3 <=> nat.filter # "port"
    BY <2>1, <2>2 DEF Progress, FirstSeen, SecondSeen
  <2>4. nat.mapping \in {"none", "same", "each"} /\ nat.filter \in {"any", "host", "port"}
    BY DEF VerdictInv, Nats
  <2>5. CASE nat.mapping = "each"
    <3>1. STUNServers[1] # STUNServers[2]
      BY Indexing DEF TwoServers
    <3>2. first.mapped # second.mapped
      BY <2>3, <2>5, <3>1 DEF Mapped
    <3> QED
      BY <1>1, <2>3, <2>5, <3>2 DEF Verdict
  <2>6. CASE nat.mapping = "none"
    <3>1. first.mapped = second.mapped /\ first.source = first.mapped
      BY <2>3, <2>6 DEF Mapped
    <3> QED
      BY <1>1, <2>3, <2>6, <3>1 DEF Verdict
  <2>7. CASE nat.mapping = "same"
    <3>1. first.mapped = second.mapped /\ first.source # first.mapped
      BY <2>3, <2>7 DEF Mapped
    <3>2. udp' = IF test2 THEN "fullCone" ELSE IF test3 THEN "restricted" ELSE "portRestricted"
      BY <1>1, <2>3, <3>1 DEF Verdict
    <3> QED
      BY <2>3, <2>4, <2>7, <3>2
  <2> QED
    BY <2>4, <2>5, <2>6, <2>7
<1>3. NotYet' /\ (Ideal' => Progress')
  BY <1>1 DEF NotYet, Progress
<1> QED
  BY <1>1, <1>2, <1>3 DEF VerdictInv

LEMMA VerdictInvNext ==
    ASSUME TwoServers, CheckInv', VerdictInv, [CheckNext]_checkVars PROVE VerdictInv'
<1>1. CASE StartCheck
  BY <1>1, VerdictInvOutside DEF StartCheck, tests, UDPTests
<1>2. CASE ResolveFails
  BY <1>2, VerdictInvOutside DEF ResolveFails, ToUDP, tests, UDPTests
<1>3. CASE FullConeMapping
  BY <1>3, VerdictInvOutside DEF FullConeMapping, ToUDP, tests
<1>4. CASE FullConePort
  BY <1>4, VerdictInvOutside DEF FullConePort, ToUDP, tests
<1>5. CASE Cone
  BY <1>5, VerdictInvOutside DEF Cone, ToUDP
<1>6. CASE ConeEnds
  BY <1>6, VerdictInvOutside DEF ConeEnds, ToUDP, tests
<1>7. CASE StartUDP
  <2>1. /\ test = "udp" /\ test' = "test1" /\ index' = 1 /\ first' = NoResult
        /\ UNCHANGED <<nat, test2, test3, lost, udp>>
    BY <1>7 DEF StartUDP
  <2>2. NotYet' /\ TypeIsRight'
    BY <2>1 DEF VerdictInv, NotYet, TypeIsRight
  <2>3. Progress'
    BY <2>1 DEF Progress
  <2> QED
    BY <2>1, <2>2, <2>3 DEF VerdictInv
<1>8. CASE Cancel
  BY <1>8, VerdictInvOutside DEF Cancel, tests
<1>9. CASE UNCHANGED checkVars
  BY <1>9 DEF checkVars, VerdictInv, NotYet, Ideal, Progress, FirstSeen, SecondSeen, Mapped, TypeIsRight
<1> QED
  BY <1>1, <1>2, <1>3, <1>4, <1>5, <1>6, <1>7, <1>8, <1>9, VerdictInvTest1, VerdictInvTest2,
     VerdictInvTest3, VerdictInvEnds DEF CheckNext

\* With two servers at least, the verdict for UDP names the NAT as it is, if
\* bind address and port are configured, the servers do as requested and no
\* probe is lost: check/check.go, CheckUDPNATType.
THEOREM TypeAlwaysRight == TwoServers => (CheckSpec => []TypeIsRight)
<1> SUFFICES ASSUME TwoServers PROVE CheckSpec => []TypeIsRight
  OBVIOUS
<1>1. CheckInv' /\ VerdictInv /\ [CheckNext]_checkVars => VerdictInv'
  BY VerdictInvNext
<1>2. VerdictInv => TypeIsRight
  BY DEF VerdictInv
<1> QED
  BY <1>1, <1>2, VerdictInvInit, CheckInvAlways, PTL DEF CheckSpec

-----------------------------------------------------------------------------
(* KeepAliveClient                                                         *)

\* A connection is younger than the last failure, and an answer no older than
\* the connection its request was sent on.
ConnIsYoung ==
    /\ queries \in Nat /\ failedUpTo \in 0..queries /\ kaConn \in 0..queries + 1
    /\ kaConn # 0 => kaConn > failedUpTo

PartsFollow ==
    /\ \A q \in unanswered \cup underway :
         q.to \in Nat /\ q.query \in Nat /\ q.query >= q.to
    /\ overTCP => \A p \in waiting : p.query > failedUpTo

\* What the call has read so far is fresh, unless it has failed since.
HeardIsFresh ==
    /\ kaState \in {"write", "read"} => outcome = "none"
    /\ outcome = "ok" => heard # {}
    /\ overTCP /\ outcome # "error" => \A p \in heard : p.query > failedUpTo

KeepAliveInv == ConnIsYoung /\ PartsFollow /\ HeardIsFresh

\* The steps that leave with an error: nothing is left of the connection.
LEMMA FailCallKeeps ==
    ASSUME KeepAliveInv, FailCall, UNCHANGED <<overTCP, queries, unanswered, underway>>
    PROVE  KeepAliveInv'
BY DEF KeepAliveInv, ConnIsYoung, PartsFollow, HeardIsFresh, FailCall, CloseConn

\* A keep-alive that succeeds has read something, over TCP only answers to
\* requests after the last failure: keepalive/tcp.go, KeepAlive.
THEOREM KeepAliveIsFresh == KeepAliveSpec => []SuccessIsFresh
<1>1. KeepAliveInit => KeepAliveInv
  BY DEF KeepAliveInit, KeepAliveInv, ConnIsYoung, PartsFollow, HeardIsFresh
<1>2. KeepAliveInv /\ [KeepAliveNext]_kaVars => KeepAliveInv'
  <2>. SUFFICES ASSUME KeepAliveInv, [KeepAliveNext]_kaVars PROVE KeepAliveInv'
    OBVIOUS
  <2>. USE DEF KeepAliveInv, ConnIsYoung, PartsFollow, HeardIsFresh
  <2>1. CASE KeepAliveCall
    BY <2>1 DEF KeepAliveCall
  <2>2. CASE RedialFails \/ SendQueryFails \/ ReadError
    BY <2>2, FailCallKeeps DEF RedialFails, SendQueryFails, ReadError
  <2>3. CASE SendQuery
    BY <2>3 DEF SendQuery
  <2>4. CASE ReadAnswer
    BY <2>4 DEF ReadAnswer, Succeed
  <2>5. CASE Deadline
    <3>1. CASE overTCP /\ heard # {}
      BY <2>5, <3>1 DEF Deadline, Succeed
    <3>2. CASE ~(overTCP /\ heard # {})
      BY <2>5, <3>2, FailCallKeeps DEF Deadline
    <3>. QED  BY <3>1, <3>2
  <2>6. CASE HangUp
    BY <2>6 DEF HangUp, CloseConn
  <2>7. CASE ServerAnswers
    BY <2>7 DEF ServerAnswers
  <2>8. CASE Deliver
    BY <2>8 DEF Deliver, Reaches
  <2>9. CASE UNCHANGED kaVars
    BY <2>9 DEF kaVars
  <2>. QED  BY <2>1, <2>2, <2>3, <2>4, <2>5, <2>6, <2>7, <2>8, <2>9 DEF KeepAliveNext
<1>3. KeepAliveInv => SuccessIsFresh
  BY DEF KeepAliveInv, HeardIsFresh, SuccessIsFresh
<1>. QED  BY <1>1, <1>2, <1>3, PTL DEF KeepAliveSpec
=============================================================================
