------------------------- MODULE UdpForwarderProofs -------------------------
(***************************************************************************)
(* Theorems about UdpForwarder, for any finite set of sources, any number  *)
(* of sockets and any limit.                                               *)
(***************************************************************************)
EXTENDS UdpForwarder, FiniteSetTheorems, TLAPS

(* What taking the sources K out of the table does.                        *)
LEMMA DropRegistered ==
  ASSUME NEW K, NEW C, Drop(K, C)
  PROVE  Registered' = Registered \ K
BY DEF Drop, Registered

LEMMA DropType ==
  ASSUME NEW K, NEW C, C \subseteq Conns, Drop(K, C), TypeOK
  PROVE  /\ clients' \in [Keys -> Conns \cup {None}]
         /\ idle' \subseteq Registered'
         /\ closing' \subseteq Conns
BY DropRegistered DEF Drop, TypeOK

LEMMA ForgetType ==
  ASSUME NEW k, NEW c \in Conns, Forget(k, c), TypeOK
  PROVE  /\ clients' \in [Keys -> Conns \cup {None}]
         /\ idle' \subseteq Registered'
         /\ closing' \subseteq Conns
<1>1. CASE clients[k] = c
  BY <1>1, DropType DEF Forget
<1>2. CASE clients[k] # c
  BY <1>2 DEF Forget, TypeOK, Registered
<1> QED
  BY <1>1, <1>2

(* The sockets of registered sources are sockets.                          *)
LEMMA ConnsOfType ==
  ASSUME TypeOK, NEW K, K \subseteq Registered
  PROVE  ConnsOf(K) \subseteq Conns
BY DEF TypeOK, ConnsOf, Registered

LEMMA TypeInit == Init => TypeOK
BY DEF Init, TypeOK, Registered

LEMMA TypeStep == TypeOK /\ [Next]_vars => TypeOK'
<1> SUFFICES ASSUME TypeOK, [Next]_vars PROVE TypeOK'
  OBVIOUS
<1> USE DEF TypeOK
<1>1. ASSUME NEW k \in Keys, Receive(k) PROVE TypeOK'
  BY <1>1 DEF Receive, sockets, Registered
<1>2. ASSUME NEW c \in Conns, Dial(c) PROVE TypeOK'
  BY <1>2 DEF Dial, Registered
<1>3. CASE DialFails
  BY <1>3 DEF DialFails, NextPacket, sockets, Registered
<1>4. CASE Add
  <2>1. idle \subseteq Registered'
    BY <1>4, NoneAssumption DEF Add, Registered
  <2> QED
    BY <1>4, <2>1 DEF Add, sockets
<1>5. CASE TurnAway
  BY <1>5 DEF TurnAway, NextPacket, Registered
<1>6. CASE Write
  BY <1>6 DEF Write, NextPacket, Registered
<1>7. CASE WriteFails
  <2>1. conn \in Conns /\ Forget(key, conn)
    BY <1>7 DEF WriteFails
  <2> QED
    BY <1>7, <2>1, ForgetType DEF WriteFails, NextPacket
<1>8. CASE LoopEnds
  BY <1>8, ConnsOfType, DropType DEF LoopEnds
<1>9. ASSUME NEW c \in Conns, ReadFails(c) PROVE TypeOK'
  BY <1>9 DEF ReadFails, loop, Registered
<1>10. ASSUME NEW c \in Conns, ReaderEnds(c) PROVE TypeOK'
  BY <1>10, ForgetType DEF ReaderEnds, loop
<1>11. ASSUME NEW c \in Conns, Close(c) PROVE TypeOK'
  BY <1>11 DEF Close, loop, Registered
<1>12. CASE Sweep
  BY <1>12, ConnsOfType, DropType DEF Sweep, loop
<1>13. ASSUME NEW k \in Keys, FallIdle(k) PROVE TypeOK'
  BY <1>13 DEF FallIdle, sockets, loop, Registered
<1>14. ASSUME NEW c \in Conns, Refuse(c) PROVE TypeOK'
  BY <1>14 DEF Refuse, loop, Registered
<1>15. CASE Stop
  BY <1>15 DEF Stop, sockets, loop, Registered
<1>16. CASE UNCHANGED vars
  BY <1>16 DEF vars, sockets, loop, Registered
<1> QED
  BY <1>1, <1>2, <1>3, <1>4, <1>5, <1>6, <1>7, <1>8, <1>9, <1>10, <1>11, <1>12,
     <1>13, <1>14, <1>15, <1>16 DEF Next, Loop, Reader, World

(* Every variable keeps its type; only registered sources are idle and     *)
(* only open sockets have carried a packet.                                *)
THEOREM TypeCorrect == Spec => []TypeOK
BY TypeInit, TypeStep, PTL DEF Spec

-----------------------------------------------------------------------------
(* A registered socket is open, nobody is about to close it, and its       *)
(* reader runs and will look for it under the right source.  The socket    *)
(* udpLoop is about to register is as good, and nothing has been sent      *)
(* through it: its reader cannot have failed, so it will not be registered *)
(* with a reader that has already looked for it in vain.                   *)
Served(k) ==
  clients[k] # None =>
    /\ clients[k] \in open \ closing
    /\ reader[clients[k]] # "none"
    /\ owner[clients[k]] = k

Fresh ==
  /\ pc \in {"dial", "add"} => clients[key] = None
  /\ pc = "add" =>
       /\ conn \in open \ (closing \cup sent)
       /\ reader[conn] = "reading"
       /\ owner[conn] = key

Owned == \A c \in Conns : reader[c] # "none" => owner[c] \in Keys

SocketInv ==
  /\ closing \subseteq open /\ refused \subseteq sent
  /\ Owned
  /\ \A k \in Keys : Served(k)
  /\ Fresh
  /\ NoSocketLeaks

LEMMA SocketInit == Init => SocketInv
BY DEF Init, SocketInv, Owned, Served, Fresh, NoSocketLeaks

LEMMA ServedTable ==
  ASSUME TypeOK, SocketInv
  PROVE  TableIsServed
BY DEF SocketInv, Served, TableIsServed, ConnsOf, Registered

(* Sources leave the table and their sockets are closed.                   *)
LEMMA Dropping ==
  ASSUME TypeOK, SocketInv, NEW K, K \subseteq Registered, Drop(K, ConnsOf(K)),
         open' = open, sent' = sent, refused' \subseteq refused,
         \A k \in Registered \ K : /\ reader'[clients[k]] # "none"
                                  /\ owner'[clients[k]] = owner[clients[k]],
         Owned', Fresh',
         pc = "add" => pc' = "add" /\ conn' = conn
  PROVE  SocketInv'
<1> USE DEF TypeOK, SocketInv
<1>1. closing' = closing \cup ConnsOf(K)
  BY DEF Drop
<1>2. ConnsOf(K) \subseteq open
  BY DEF ConnsOf, Registered, Served
<1>3. ASSUME NEW k \in Keys PROVE Served(k)'
  <2> SUFFICES ASSUME clients'[k] # None PROVE Served(k)'
    BY DEF Served
  <2>1. k \notin K /\ clients'[k] = clients[k]
    BY DEF Drop
  <2>2. clients[k] \notin ConnsOf(K)
    BY <2>1 DEF ConnsOf, Served, Registered
  <2>3. reader'[clients[k]] # "none" /\ owner'[clients[k]] = owner[clients[k]]
    BY <2>1 DEF Registered
  <2> QED
    BY <1>1, <2>1, <2>2, <2>3 DEF Served
<1>4. NoSocketLeaks'
  <2> SUFFICES ASSUME NEW c \in open, c \notin closing', ~(pc = "add" /\ conn = c)
               PROVE  c \in ConnsOf(Registered)'
    BY DEF NoSocketLeaks
  <2>1. c \in ConnsOf(Registered) \ ConnsOf(K)
    BY <1>1 DEF NoSocketLeaks
  <2>2. PICK k \in Registered : k \notin K /\ c = clients[k]
    BY <2>1 DEF ConnsOf
  <2>3. clients'[k] = c
    BY <2>2 DEF Drop, Registered
  <2> QED
    BY <2>2, <2>3, DropRegistered DEF ConnsOf
<1> QED
  BY <1>1, <1>2, <1>3, <1>4

(* The reader of c, or the loop, takes its socket out of the table, or     *)
(* finds another one there.                                                *)
LEMMA Forgetting ==
  ASSUME TypeOK, SocketInv, NEW k \in Keys, NEW c \in Conns, Forget(k, c),
         open' = open, sent' = sent, refused' \subseteq refused,
         \A d \in Conns \ {c} : reader'[d] = reader[d] /\ owner'[d] = owner[d],
         owner[c] = k \/ (reader' = reader /\ owner' = owner),
         Owned', Fresh',
         pc = "add" => pc' = "add" /\ conn' = conn
  PROVE  SocketInv'
<1> USE DEF TypeOK, SocketInv
<1>1. CASE clients[k] = c
  <2>1. Drop({k}, ConnsOf({k}))
    BY <1>1 DEF Forget, ConnsOf
  <2>2. {k} \subseteq Registered
    BY <1>1, NoneAssumption DEF Registered
  <2>3. ASSUME NEW j \in Registered \ {k}
        PROVE  reader'[clients[j]] # "none" /\ owner'[clients[j]] = owner[clients[j]]
    <3>1. clients[j] \in Conns \ {c}
      BY <1>1, <2>2 DEF Served, Registered
    <3> QED
      BY <3>1 DEF Served, Registered
  <2> QED
    BY <2>1, <2>2, <2>3, Dropping
<1>2. CASE clients[k] # c
  <2>1. UNCHANGED <<clients, closing>>
    BY <1>2 DEF Forget
  <2>2. ASSUME NEW j \in Keys PROVE Served(j)'
    <3>1. clients[j] # c \/ (reader' = reader /\ owner' = owner)
      BY <1>2, NoneAssumption DEF Served
    <3> QED
      BY <2>1, <3>1 DEF Served
  <2> QED
    BY <2>1, <2>2 DEF NoSocketLeaks, ConnsOf, Registered
<1> QED
  BY <1>1, <1>2

LEMMA SocketStep == TypeOK /\ SocketInv /\ [Next]_vars => SocketInv'
<1> SUFFICES ASSUME TypeOK, SocketInv, [Next]_vars PROVE SocketInv'
  OBVIOUS
<1> USE DEF TypeOK, SocketInv
<1>1. ASSUME NEW k \in Keys, Receive(k) PROVE SocketInv'
  BY <1>1 DEF Receive, sockets, Owned, Served, Fresh, NoSocketLeaks, ConnsOf, Registered
<1>2. ASSUME NEW c \in Conns, Dial(c) PROVE SocketInv'
  <2>1. Owned' /\ Fresh' /\ \A k \in Keys : Served(k)'
    BY <1>2 DEF Dial, Owned, Served, Fresh
  <2> QED
    BY <1>2, <2>1 DEF Dial, NoSocketLeaks, ConnsOf, Registered
<1>3. CASE DialFails
  BY <1>3 DEF DialFails, NextPacket, sockets, Owned, Served, Fresh, NoSocketLeaks, ConnsOf, Registered
<1>4. CASE Add
  <2>1. ASSUME NEW k \in Keys PROVE Served(k)'
    BY <1>4 DEF Add, sockets, Served, Fresh
  <2>2. NoSocketLeaks'
    <3> SUFFICES ASSUME NEW c \in open, c \notin closing
                 PROVE  c \in ConnsOf(Registered)'
      BY <1>4 DEF NoSocketLeaks, Add, sockets
    <3>1. CASE c = conn
      BY <1>4, <3>1, NoneAssumption DEF Add, ConnsOf, Registered
    <3>2. CASE c # conn
      <4>1. PICK k \in Registered : c = clients[k]
        BY <3>2 DEF NoSocketLeaks, ConnsOf
      <4>2. k # key /\ clients'[k] = c
        BY <1>4, <4>1 DEF Add, Fresh, Registered
      <4> QED
        BY <4>1, <4>2 DEF ConnsOf, Registered
    <3> QED
      BY <3>1, <3>2
  <2> QED
    BY <1>4, <2>1, <2>2 DEF Add, sockets, Owned, Fresh
<1>5. CASE TurnAway
  <2>1. ASSUME NEW k \in Keys PROVE Served(k)'
    BY <1>5 DEF TurnAway, Served, Fresh
  <2> QED
    BY <1>5, <2>1 DEF TurnAway, NextPacket, Owned, Fresh, NoSocketLeaks, ConnsOf, Registered
<1>6. CASE Write
  BY <1>6 DEF Write, NextPacket, Owned, Served, Fresh, NoSocketLeaks, ConnsOf, Registered
<1>7. CASE WriteFails
  <2>1. Owned' /\ Fresh'
    BY <1>7 DEF WriteFails, NextPacket, Owned, Fresh
  <2> QED
    BY <1>7, <2>1, Forgetting DEF WriteFails
<1>8. CASE LoopEnds
  <2>1. Owned' /\ Fresh'
    BY <1>8 DEF LoopEnds, Owned, Fresh
  <2> QED
    BY <1>8, <2>1, Dropping DEF LoopEnds, Registered
<1>9. ASSUME NEW c \in Conns, ReadFails(c) PROVE SocketInv'
  BY <1>9 DEF ReadFails, loop, Owned, Served, Fresh, NoSocketLeaks, ConnsOf, Registered
<1>10. ASSUME NEW c \in Conns, ReaderEnds(c) PROVE SocketInv'
  <2>1. Owned'
    BY <1>10 DEF ReaderEnds, Owned
  <2>2. Fresh'
    BY <1>10 DEF ReaderEnds, loop, Fresh, Forget, Drop
  <2>3. owner[c] \in Keys
    BY <1>10 DEF ReaderEnds, Owned
  <2> QED
    BY <1>10, <2>1, <2>2, <2>3, Forgetting DEF ReaderEnds, loop
<1>11. ASSUME NEW c \in Conns, Close(c) PROVE SocketInv'
  BY <1>11 DEF Close, loop, Owned, Served, Fresh, NoSocketLeaks, ConnsOf, Registered
<1>12. CASE Sweep
  <2>1. Owned' /\ Fresh'
    BY <1>12 DEF Sweep, loop, Owned, Fresh, Drop, ConnsOf, Served, Registered
  <2> QED
    BY <1>12, <2>1, Dropping DEF Sweep, loop, Served, Registered
<1>13. ASSUME NEW k \in Keys, FallIdle(k) PROVE SocketInv'
  BY <1>13 DEF FallIdle, sockets, loop, Owned, Served, Fresh, NoSocketLeaks, ConnsOf, Registered
<1>14. ASSUME NEW c \in Conns, Refuse(c) PROVE SocketInv'
  BY <1>14 DEF Refuse, loop, Owned, Served, Fresh, NoSocketLeaks, ConnsOf, Registered
<1>15. CASE Stop
  BY <1>15 DEF Stop, sockets, loop, Owned, Served, Fresh, NoSocketLeaks, ConnsOf, Registered
<1>16. CASE UNCHANGED vars
  BY <1>16 DEF vars, sockets, loop, Owned, Served, Fresh, NoSocketLeaks, ConnsOf, Registered
<1> QED
  BY <1>1, <1>2, <1>3, <1>4, <1>5, <1>6, <1>7, <1>8, <1>9, <1>10, <1>11, <1>12,
     <1>13, <1>14, <1>15, <1>16 DEF Next, Loop, Reader, World

(* No socket leaks, and whatever is in the table is open and has a reader. *)
THEOREM SocketsAccountedFor == Spec => [](NoSocketLeaks /\ TableIsServed)
<1>1. TypeOK /\ SocketInv => NoSocketLeaks /\ TableIsServed
  BY ServedTable DEF SocketInv
<1> QED
  BY <1>1, TypeInit, TypeStep, SocketInit, SocketStep, PTL DEF Spec

(* A source in the table has a socket that is open and stays so for now,   *)
(* and whose answers are read: udpLoop may write to what touch returned.   *)
THEOREM TableAlwaysServed == Spec => []TableIsServed
BY SocketsAccountedFor, PTL

-----------------------------------------------------------------------------
(* The table never holds more than Max sockets.                            *)
TableBounded == Cardinality(Registered) <= Max

LEMMA RegisteredFinite ==
  /\ IsFiniteSet(Registered)
  /\ Cardinality(Registered) \in Nat
BY KeysAssumption, FS_Subset, FS_CardinalityType, Registered \in SUBSET Keys DEF Registered

LEMMA TableInit == Init => TableBounded
<1> SUFFICES ASSUME Init PROVE TableBounded
  OBVIOUS
<1>1. Registered = {}
  BY DEF Init, Registered
<1> QED
  BY <1>1, FS_EmptySet, MaxAssumption DEF TableBounded

LEMMA TableStep == TypeOK /\ TableBounded /\ [Next]_vars => TableBounded'
<1> SUFFICES ASSUME TypeOK, TableBounded, [Next]_vars PROVE TableBounded'
  OBVIOUS
<1>1. ASSUME Registered' \subseteq Registered PROVE TableBounded'
  <2>1. Cardinality(Registered') <= Cardinality(Registered) /\ Cardinality(Registered') \in Nat
    BY <1>1, RegisteredFinite, FS_Subset, FS_CardinalityType
  <2> QED
    BY <2>1, RegisteredFinite, MaxAssumption DEF TableBounded
<1>2. CASE Add
  <2>1. Registered' \subseteq Registered \cup {key}
    BY <1>2 DEF Add, Registered, TypeOK
  <2>2. /\ IsFiniteSet(Registered \cup {key})
        /\ Cardinality(Registered \cup {key}) <= Cardinality(Registered) + 1
    BY RegisteredFinite, FS_AddElement
  <2>3. /\ Cardinality(Registered') <= Cardinality(Registered \cup {key})
        /\ Cardinality(Registered') \in Nat
    BY <2>1, <2>2, FS_Subset, FS_CardinalityType
  <2>4. Cardinality(Registered \cup {key}) \in Nat
    BY <2>2, FS_CardinalityType
  <2> QED
    BY <1>2, <2>2, <2>3, <2>4, RegisteredFinite, MaxAssumption DEF TableBounded, Add, HasRoom
<1>3. ASSUME NEW K, NEW C, Drop(K, C) PROVE TableBounded'
  BY <1>1, <1>3, DropRegistered
<1>4. ASSUME NEW k, NEW c, Forget(k, c) PROVE TableBounded'
  BY <1>1, <1>3, <1>4 DEF Forget, Registered
<1>5. CASE WriteFails \/ LoopEnds \/ Sweep \/ \E c \in Conns : ReaderEnds(c)
  BY <1>3, <1>4, <1>5 DEF WriteFails, LoopEnds, Sweep, ReaderEnds
<1>6. ASSUME UNCHANGED clients PROVE TableBounded'
  BY <1>1, <1>6 DEF Registered
<1>7. CASE DialFails \/ TurnAway \/ Write \/ (\E k \in Keys : Receive(k)) \/ \E c \in Conns : Dial(c)
  BY <1>6, <1>7 DEF DialFails, TurnAway, Write, Receive, Dial
<1>8. CASE World \/ (\E c \in Conns : ReadFails(c) \/ Close(c)) \/ UNCHANGED vars
  BY <1>6, <1>8 DEF World, Stop, FallIdle, Refuse, ReadFails, Close, vars
<1> QED
  BY <1>2, <1>5, <1>7, <1>8 DEF Next, Loop, Reader

(* The sockets of the table are not more than its sources.                 *)
LEMMA TableSockets ==
  /\ IsFiniteSet(ConnsOf(Registered))
  /\ Cardinality(ConnsOf(Registered)) <= Cardinality(Registered)
<1> DEFINE f == [k \in Registered |-> clients[k]]
<1>1. f \in Surjection(Registered, ConnsOf(Registered))
  BY DEF Surjection, ConnsOf
<1> QED
  BY <1>1, RegisteredFinite, FS_Surjection

LEMMA SocketsCounted ==
  ASSUME TypeOK, SocketInv, TableBounded
  PROVE  SocketsBounded
<1> DEFINE T == ConnsOf(Registered)
           U == IF pc = "add" THEN T \cup {conn} ELSE T
<1>1. open \ closing \subseteq U
  BY DEF SocketInv, NoSocketLeaks
<1>2. /\ IsFiniteSet(T) /\ Cardinality(T) \in Nat /\ Cardinality(T) <= Max
  BY TableSockets, RegisteredFinite, FS_CardinalityType, MaxAssumption DEF TableBounded
<1>3. /\ IsFiniteSet(U) /\ Cardinality(U) \in Nat
      /\ Cardinality(U) <= Max + (IF pc = "add" THEN 1 ELSE 0)
  <2>1. CASE pc = "add"
    <3>1. U = T \cup {conn}
      BY <2>1
    <3> HIDE DEF T, U
    <3>2. IsFiniteSet(U) /\ (Cardinality(U) = Cardinality(T) \/ Cardinality(U) = Cardinality(T) + 1)
      BY <1>2, <3>1, FS_AddElement
    <3>3. Cardinality(U) \in Nat
      BY <3>2, FS_CardinalityType
    <3> QED
      BY <1>2, <2>1, <3>2, <3>3, MaxAssumption
  <2>2. CASE pc # "add"
    BY <1>2, <2>2, MaxAssumption
  <2> QED
    BY <2>1, <2>2
<1>4. Cardinality(open \ closing) <= Cardinality(U) /\ Cardinality(open \ closing) \in Nat
  BY <1>1, <1>3, FS_Subset, FS_CardinalityType
<1> QED
  BY <1>3, <1>4, MaxAssumption DEF SocketsBounded

(* Whatever the number of sources, the forwarder holds at most Max sockets *)
(* and the one udpLoop is about to register, besides those being closed.   *)
THEOREM SocketsStayBounded == Spec => []SocketsBounded
<1>1. TypeOK /\ SocketInv /\ TableBounded => SocketsBounded
  BY SocketsCounted
<1> QED
  BY <1>1, TypeInit, TypeStep, SocketInit, SocketStep, TableInit, TableStep, PTL DEF Spec
=============================================================================
