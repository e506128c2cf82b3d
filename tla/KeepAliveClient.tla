--------------------------- MODULE KeepAliveClient ---------------------------
(***************************************************************************)
(* The clients that keep a mapping open: a request to a server at every    *)
(* tick, over one connection as long as it works, and a new one from the   *)
(* same port after a failure.  TCPClient reads until its deadline and is   *)
(* content if anything came; UDPClient takes one datagram.                 *)
(*                                                                         *)
(* Neither looks at what it reads, so an answer may be one to an earlier   *)
(* request.  An answer has parts: segments, or a datagram and its copies.  *)
(* The network delivers them in any order, late, or not at all.            *)
(***************************************************************************)
EXTENDS Naturals

CONSTANTS
    MaxQueries,    \* bound on requests
    MaxParts       \* bound on the parts of an answer

ASSUME KeepAliveAssumption == MaxQueries \in Nat /\ MaxParts \in Nat

VARIABLES
    overTCP,
    kaConn,        \* c.conn: 0 is nil, else the number its first request gets
    kaState,       \* "idle", "write", "read"
    outcome,       \* what the last call returned: "none", "ok", "error"
    queries,       \* requests sent
    unanswered,    \* requests the server has not answered
    underway,      \* parts of answers in the network
    waiting,       \* parts in the buffer of the socket
    heard,         \* parts the present or last call read
    failedUpTo     \* history: requests sent when a call last failed

kaVars == <<overTCP, kaConn, kaState, outcome, queries, unanswered, underway,
            waiting, heard, failedUpTo>>

KeepAliveInit ==
    /\ overTCP \in BOOLEAN
    /\ kaConn = 0 /\ kaState = "idle" /\ outcome = "none"
    /\ queries = 0 /\ unanswered = {} /\ underway = {} /\ waiting = {}
    /\ heard = {} /\ failedUpTo = 0

-----------------------------------------------------------------------------
(* KeepAlive                                                               *)

\* Close: what is in the buffer goes with the socket.
CloseConn == kaConn' = 0 /\ waiting' = {}

\* A way out with an error.
FailCall ==
    /\ CloseConn
    /\ kaState' = "idle" /\ outcome' = "error" /\ failedUpTo' = queries

Succeed ==
    /\ kaState' = "idle" /\ outcome' = "ok"
    /\ UNCHANGED <<kaConn, failedUpTo>>

\* A call with a connection, or after dial made one.
KeepAliveCall ==
    /\ kaState = "idle" /\ queries < MaxQueries
    /\ kaConn' = IF kaConn = 0 THEN queries + 1 ELSE kaConn
    /\ kaState' = "write" /\ outcome' = "none" /\ heard' = {}
    /\ UNCHANGED <<overTCP, queries, unanswered, underway, waiting, failedUpTo>>

RedialFails ==
    /\ kaState = "idle" /\ kaConn = 0
    /\ FailCall
    /\ heard' = {}
    /\ UNCHANGED <<overTCP, queries, unanswered, underway>>

SendQuery ==
    /\ kaState = "write"
    /\ queries' = queries + 1
    /\ unanswered' = unanswered \cup {[to |-> kaConn, query |-> queries + 1]}
    /\ kaState' = "read"
    /\ UNCHANGED <<overTCP, kaConn, outcome, underway, waiting, heard, failedUpTo>>

\* SetDeadline or the write fails.
SendQueryFails ==
    /\ kaState = "write"
    /\ FailCall
    /\ UNCHANGED <<overTCP, queries, unanswered, underway, heard>>

\* TCPClient goes on reading, UDPClient returns.
ReadAnswer ==
    /\ kaState = "read"
    /\ \/ /\ overTCP /\ waiting # {}
          /\ heard' = heard \cup waiting /\ waiting' = {}
          /\ UNCHANGED <<kaConn, kaState, outcome, failedUpTo>>
       \/ /\ ~overTCP
          /\ \E p \in waiting : heard' = {p} /\ waiting' = waiting \ {p}
          /\ Succeed
    /\ UNCHANGED <<overTCP, queries, unanswered, underway>>

\* Slip: the deadline is no error, whether something came or not.
MutDeadline ==
    /\ kaState = "read"
    /\ Succeed
    /\ UNCHANGED <<overTCP, queries, unanswered, underway, waiting, heard>>

\* The deadline has passed; what waits then is not read, and stays for the next
\* call if the connection does.
Deadline ==
    /\ kaState = "read"
    /\ IF overTCP /\ heard # {} THEN Succeed /\ UNCHANGED waiting ELSE FailCall
    /\ UNCHANGED <<overTCP, queries, unanswered, underway, heard>>

\* The end of the stream, a reset, an ICMP error, an empty datagram: an error,
\* even if an answer came before.
ReadError ==
    /\ kaState = "read"
    /\ FailCall
    /\ UNCHANGED <<overTCP, queries, unanswered, underway, heard>>

\* Close, by the engine.
HangUp ==
    /\ kaState = "idle" /\ kaConn # 0
    /\ CloseConn
    /\ UNCHANGED <<overTCP, kaState, outcome, queries, unanswered, underway, heard, failedUpTo>>

-----------------------------------------------------------------------------
(* The server and the network                                              *)

ServerAnswers ==
    /\ \E q \in unanswered, n \in 1..MaxParts :
         /\ unanswered' = unanswered \ {q}
         /\ underway' = underway \cup
              {[to |-> q.to, query |-> q.query, part |-> k] : k \in 1..n}
    /\ UNCHANGED <<overTCP, kaConn, kaState, outcome, queries, waiting, heard, failedUpTo>>

\* A segment belongs to a connection.  A datagram reaches whatever socket has
\* the port, and the client dials from the same one again.
Reaches(p) == kaConn # 0 /\ (overTCP => p.to = kaConn)

Deliver ==
    /\ \E p \in underway :
         /\ underway' = underway \ {p}
         /\ waiting' = IF Reaches(p) THEN waiting \cup {p} ELSE waiting
    /\ UNCHANGED <<overTCP, kaConn, kaState, outcome, queries, unanswered, heard, failedUpTo>>

KeepAliveNext ==
    \/ KeepAliveCall \/ RedialFails \/ SendQuery \/ SendQueryFails
    \/ ReadAnswer \/ Deadline \/ ReadError \/ HangUp
    \/ ServerAnswers \/ Deliver

KeepAliveSpec == KeepAliveInit /\ [][KeepAliveNext]_kaVars

-----------------------------------------------------------------------------
\* A call that succeeds has read something, and over TCP nothing but answers to
\* requests after the last call that failed: TCPClient counts no late answer to
\* a request that KeepAlive has reported as failed.  UDPClient may.
SuccessIsFresh ==
    outcome = "ok" =>
        /\ heard # {}
        /\ overTCP => \A p \in heard : p.query > failedUpTo
=============================================================================
