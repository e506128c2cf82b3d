---------------------------- MODULE TcpForwarder ----------------------------
(***************************************************************************)
(* The TCP half of the built-in forwarder: acceptLoop and handleTCP of     *)
(* forward/socket.go.  A connection that is accepted is relayed to the     *)
(* target by two goroutines, one for each direction, that end on their     *)
(* own; a third closes both sockets after them.  An end of stream is       *)
(* passed on as a half-close, so the other direction goes on.              *)
(*                                                                         *)
(* Every chunk of data counts, what it holds does not.  The peers of a     *)
(* relay, a client and the target, are the environment: they send, finish, *)
(* or reset the connection.  Stop closes the listening socket only.        *)
(***************************************************************************)
EXTENDS Naturals

CONSTANTS
    Relays,        \* connections that clients may make
    MaxChunks      \* bound on what a peer sends

Client == "client"
Target == "target"
Sides == {Client, Target}
Other(s) == IF s = Client THEN Target ELSE Client

VARIABLES
    listening,     \* SocketForwarder.listener is open
    relay,         \* "none", "queued", "dialing", "relaying", "closed"
    chunks,        \* how many chunks a peer has sent
    ends,          \* what a peer has done since: "open", "finished", "reset"
    copied,        \* how many of its chunks io.Copy has passed on
    copier         \* the goroutine that reads from a peer:
                   \* "none", "copying", "closeWrite", "done"

tcpVars == <<listening, relay, chunks, ends, copied, copier>>

TcpInit ==
    /\ listening = TRUE
    /\ relay = [r \in Relays |-> "none"]
    /\ chunks = [r \in Relays |-> [s \in Sides |-> 0]]
    /\ ends = [r \in Relays |-> [s \in Sides |-> "open"]]
    /\ copied = [r \in Relays |-> [s \in Sides |-> 0]]
    /\ copier = [r \in Relays |-> [s \in Sides |-> "none"]]

-----------------------------------------------------------------------------
(* acceptLoop and handleTCP                                                *)

Accept(r) ==
    /\ listening /\ relay[r] = "queued"
    /\ relay' = [relay EXCEPT ![r] = "dialing"]
    /\ UNCHANGED <<listening, chunks, ends, copied, copier>>

DialTarget(r) ==
    /\ relay[r] = "dialing"
    /\ relay' = [relay EXCEPT ![r] = "relaying"]
    /\ copier' = [copier EXCEPT ![r] = [s \in Sides |-> "copying"]]
    /\ UNCHANGED <<listening, chunks, ends, copied>>

\* The target refuses, or three seconds have passed.
DialTargetFails(r) ==
    /\ relay[r] = "dialing"
    /\ relay' = [relay EXCEPT ![r] = "closed"]
    /\ UNCHANGED <<listening, chunks, ends, copied, copier>>

\* io.Copy has read and written a chunk.
Copy(r, s) ==
    /\ copier[r][s] = "copying"
    /\ copied[r][s] < chunks[r][s]
    /\ ends[r][s] # "reset" /\ ends[r][Other(s)] # "reset"
    /\ copied' = [copied EXCEPT ![r][s] = @ + 1]
    /\ UNCHANGED <<listening, relay, chunks, ends, copier>>

\* Slip: a copy that cannot write waits for its source to end.
MutCopyEnds(r, s) ==
    /\ copier[r][s] = "copying"
    /\ \/ ends[r][s] = "finished" /\ copied[r][s] = chunks[r][s]
       \/ ends[r][s] = "reset"
    /\ copier' = [copier EXCEPT ![r][s] = "closeWrite"]
    /\ UNCHANGED <<listening, relay, chunks, ends, copied>>

\* At the end of the stream, when the peer has reset the connection, or when
\* a chunk cannot be written because the other one has.
CopyEnds(r, s) ==
    /\ copier[r][s] = "copying"
    /\ \/ ends[r][s] = "finished" /\ copied[r][s] = chunks[r][s]
       \/ ends[r][s] = "reset"
       \/ ends[r][Other(s)] = "reset" /\ copied[r][s] < chunks[r][s]
    /\ copier' = [copier EXCEPT ![r][s] = "closeWrite"]
    /\ UNCHANGED <<listening, relay, chunks, ends, copied>>

\* closeWrite: the other peer sees the end of the stream; wg.Done.
CloseWrite(r, s) ==
    /\ copier[r][s] = "closeWrite"
    /\ copier' = [copier EXCEPT ![r][s] = "done"]
    /\ UNCHANGED <<listening, relay, chunks, ends, copied>>

\* Slip: Close does not wait for both.
MutCloseBoth(r) ==
    /\ relay[r] = "relaying"
    /\ \E s \in Sides : copier[r][s] = "done"
    /\ relay' = [relay EXCEPT ![r] = "closed"]
    /\ UNCHANGED <<listening, chunks, ends, copied, copier>>

\* wg.Wait, then Close of both sockets.
CloseBoth(r) ==
    /\ relay[r] = "relaying"
    /\ \A s \in Sides : copier[r][s] = "done"
    /\ relay' = [relay EXCEPT ![r] = "closed"]
    /\ UNCHANGED <<listening, chunks, ends, copied, copier>>

\* SocketForwarder.Stop: what waits in the backlog is reset with the socket,
\* what has been accepted goes on.
StopListening ==
    /\ listening
    /\ listening' = FALSE
    /\ relay' = [r \in Relays |-> IF relay[r] = "queued" THEN "closed" ELSE relay[r]]
    /\ UNCHANGED <<chunks, ends, copied, copier>>

-----------------------------------------------------------------------------
(* The peers                                                               *)

Connect(r) ==
    /\ listening /\ relay[r] = "none"
    /\ relay' = [relay EXCEPT ![r] = "queued"]
    /\ UNCHANGED <<listening, chunks, ends, copied, copier>>

\* A client may send before the target is reached.
Connected(r, s) ==
    relay[r] = "relaying" \/ (s = Client /\ relay[r] \in {"queued", "dialing"})

Send(r, s) ==
    /\ Connected(r, s) /\ ends[r][s] = "open"
    /\ chunks[r][s] < MaxChunks
    /\ chunks' = [chunks EXCEPT ![r][s] = @ + 1]
    /\ UNCHANGED <<listening, relay, ends, copied, copier>>

Finish(r, s) ==
    /\ Connected(r, s) /\ ends[r][s] = "open"
    /\ ends' = [ends EXCEPT ![r][s] = "finished"]
    /\ UNCHANGED <<listening, relay, chunks, copied, copier>>

Reset(r, s) ==
    /\ Connected(r, s) /\ ends[r][s] # "reset"
    /\ ends' = [ends EXCEPT ![r][s] = "reset"]
    /\ UNCHANGED <<listening, relay, chunks, copied, copier>>

RelayWork(r) ==
    \/ Accept(r) \/ DialTarget(r) \/ DialTargetFails(r) \/ CloseBoth(r)
    \/ \E s \in Sides : Copy(r, s) \/ CopyEnds(r, s) \/ CloseWrite(r, s)

TcpNext ==
    \/ StopListening
    \/ \E r \in Relays :
        \/ Connect(r) \/ RelayWork(r)
        \/ \E s \in Sides : Send(r, s) \/ Finish(r, s) \/ Reset(r, s)

\* Goroutines are scheduled; a peer that has seen the end of the stream ends
\* its own some time, which nothing in the code makes it do.
TcpFairness ==
    \A r \in Relays :
        /\ WF_tcpVars(RelayWork(r))
        /\ \A s \in Sides : WF_tcpVars(Finish(r, s) /\ copier[r][Other(s)] = "done")

TcpSpec == TcpInit /\ [][TcpNext]_tcpVars /\ TcpFairness

-----------------------------------------------------------------------------
\* Half-close: a relay is closed only after everything that either peer sent
\* before it finished has reached the other, also what was sent after the
\* other had finished, unless one of them has reset its connection.
NothingCutOff ==
    \A r \in Relays : \A s \in Sides :
        (relay[r] = "closed" /\ copier[r][s] # "none"
            /\ \A t \in Sides : ends[r][t] # "reset")
        => ends[r][s] = "finished" /\ copied[r][s] = chunks[r][s]

\* The sockets of a relay whose one side has ended are closed some time: the
\* end is passed on, and answered, and neither copy is left behind.
RelaysEnd ==
    \A r \in Relays :
        (\E s \in Sides : ends[r][s] # "open") ~> relay[r] = "closed"
=============================================================================
