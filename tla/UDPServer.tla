----------------------------- MODULE UDPServer -----------------------------
(***************************************************************************)
(* The UDP echo sockets of the server agent (internal/udp/server.go).  One *)
(* goroutine per port reads, counts and echoes; an untracked goroutine     *)
(* closes the socket when the context is cancelled.  Reads time out every  *)
(* 2 seconds and are retried.                                              *)
(***************************************************************************)
EXTENDS ServerContext, FiniteSets

CONSTANT MaxPackets   \* bound: datagrams that reach one socket

ASSUME MaxPacketsAssumption == MaxPackets \in Nat

VARIABLES
  usock,     \* per port, the socket
  userve,    \* per port, the goroutine that serves it
  inbound,   \* per port, datagrams in the socket's buffer
  arrived    \* per port, datagrams that ever reached the socket

udpVars == <<usock, userve, inbound, arrived>>

UDPTypeOK ==
  /\ usock \in [Port -> {"none", "open", "closed"}]
  /\ userve \in [Port -> {"none", "read", "done"}]
  /\ inbound \in [Port -> 0 .. MaxPackets]
  /\ arrived \in [Port -> 0 .. MaxPackets]

UDPInit ==
  /\ usock = [p \in Port |-> "none"]
  /\ userve = [p \in Port |-> "none"]
  /\ inbound = [p \in Port |-> 0]
  /\ arrived = [p \in Port |-> 0]

\* The goroutines the WaitGroup counts.
UDPServing == {p \in Port : userve[p] = "read"}
UDPTracked == Cardinality(UDPServing)

-----------------------------------------------------------------------------
\* One iteration of the loop in Run: a port listed twice cannot be bound again.
UDPListen(p) ==
  /\ usock[p] = "none"
  /\ WgAdd(1)
  /\ usock' = [usock EXCEPT ![p] = "open"]
  /\ userve' = [userve EXCEPT ![p] = "read"]
  /\ UNCHANGED <<inbound, arrived, ctxDone, bound, stats>>

\* The goroutine serve starts; what the socket still holds is lost.
UDPCloseSocket(p) ==
  /\ usock[p] = "open"
  /\ ctxDone
  /\ usock' = [usock EXCEPT ![p] = "closed"]
  /\ inbound' = [inbound EXCEPT ![p] = 0]
  /\ UNCHANGED <<userve, arrived, contextVars>>

\* Faulty UDPEcho: a datagram is counted only when its echo is sent.
UDPEchoCountsReplies(p) ==
  /\ userve[p] = "read"
  /\ usock[p] = "open"
  /\ inbound[p] > 0
  /\ UDPPacket(p) \/ UNCHANGED stats
  /\ inbound' = [inbound EXCEPT ![p] = @ - 1]
  /\ UNCHANGED <<usock, userve, arrived, ctxDone, wg, bound>>

\* A datagram is read, counted and echoed; a failed write is only logged.
UDPEcho(p) ==
  /\ userve[p] = "read"
  /\ usock[p] = "open"
  /\ inbound[p] > 0
  /\ UDPPacket(p)
  /\ inbound' = [inbound EXCEPT ![p] = @ - 1]
  /\ UNCHANGED <<usock, userve, arrived, ctxDone, wg, bound>>

\* A read fails: the socket is closed, or the deadline passed with nothing to
\* read.  Without a cancelled context a timeout only reads again.
UDPReturn(p) ==
  /\ userve[p] = "read"
  /\ \/ usock[p] = "closed"
     \/ ctxDone /\ inbound[p] = 0
  /\ WgDone
  /\ userve' = [userve EXCEPT ![p] = "done"]
  /\ usock' = [usock EXCEPT ![p] = "closed"]
  /\ UNCHANGED <<inbound, arrived, ctxDone, bound, stats>>

\* A client's datagram arrives.
UDPArrive(p) ==
  /\ usock[p] = "open"
  /\ arrived[p] < MaxPackets
  /\ arrived' = [arrived EXCEPT ![p] = @ + 1]
  /\ inbound' = [inbound EXCEPT ![p] = @ + 1]
  /\ UNCHANGED <<usock, userve, contextVars>>

UDPNext ==
  \E p \in Port : \/ UDPCloseSocket(p) \/ UDPEcho(p)
                  \/ UDPReturn(p) \/ UDPArrive(p)
=============================================================================
