----------------------------- MODULE TCPServer -----------------------------
(***************************************************************************)
(* The raw TCP echo listeners of the server agent (internal/tcp/server.go).*)
(* Each configured port has an accept loop and an untracked goroutine that *)
(* closes the listener when the context is cancelled; each accepted        *)
(* connection has a handler goroutine that echoes what it reads.  Accept   *)
(* loops and handlers are counted in main's WaitGroup.                     *)
(*                                                                         *)
(* What a peer sends is abstracted to the number of chunks not read yet.   *)
(***************************************************************************)
EXTENDS ServerContext, FiniteSets

CONSTANTS
  Conn,        \* the connections clients may open, each used once
  ConnPort,    \* the port a connection is dialled to
  MaxUnread    \* bound: chunks a peer has sent and the handler has not read

ASSUME ConnAssumption ==
  /\ IsFiniteSet(Conn)
  /\ ConnPort \in [Conn -> Port]
  /\ MaxUnread \in Nat

VARIABLES
  listener,  \* per port, the listening socket
  serve,     \* per port, the accept loop
  conn,      \* per connection, its place in the kernel or in handle
  unread,    \* per connection, chunks the handler has not read
  peer       \* per connection, what the client's end has done

tcpVars == <<listener, serve, conn, unread, peer>>

ConnState == {"none", "queued", "refused", "spawned", "reading", "returning",
              "closing", "done"}

TCPTypeOK ==
  /\ listener \in [Port -> {"none", "open", "closed"}]
  /\ serve \in [Port -> {"none", "accept", "done"}]
  /\ conn \in [Conn -> ConnState]
  /\ unread \in [Conn -> 0 .. MaxUnread]
  /\ peer \in [Conn -> {"open", "fin", "reset"}]

TCPInit ==
  /\ listener = [p \in Port |-> "none"]
  /\ serve = [p \in Port |-> "none"]
  /\ conn = [c \in Conn |-> "none"]
  /\ unread = [c \in Conn |-> 0]
  /\ peer = [c \in Conn |-> "open"]

\* The goroutines the WaitGroup counts.
TCPServing  == {p \in Port : serve[p] = "accept"}
TCPHandlers ==
  {c \in Conn : conn[c] \in {"spawned", "reading", "returning", "closing"}}
TCPTracked == Cardinality(TCPServing) + Cardinality(TCPHandlers)

\* The connections TCPConnect has counted and TCPDisconnect has not.
TCPRecorded == {c \in Conn : conn[c] \in {"reading", "returning"}}

-----------------------------------------------------------------------------
\* One iteration of the loop in Run: listen, wg.Add, go serve.  A port listed
\* twice cannot be bound a second time.
TCPListen(p) ==
  /\ listener[p] = "none"
  /\ BindTCP(p)
  /\ WgAdd(1)
  /\ listener' = [listener EXCEPT ![p] = "open"]
  /\ serve' = [serve EXCEPT ![p] = "accept"]
  /\ UNCHANGED <<conn, unread, peer, ctxDone, stats>>

\* The goroutine serve starts: it closes the listener, and the kernel resets
\* the connections nobody has accepted.
TCPCloseListener(p) ==
  /\ listener[p] = "open"
  /\ ctxDone
  /\ listener' = [listener EXCEPT ![p] = "closed"]
  /\ bound' = bound \ {p}
  /\ conn' = [c \in Conn |-> IF conn[c] = "queued" /\ ConnPort[c] = p
                             THEN "refused" ELSE conn[c]]
  /\ UNCHANGED <<serve, unread, peer, ctxDone, wg, stats>>

\* Faulty Accept: wg.Add is left to the handler.
AcceptNoAdd(c) ==
  /\ serve[ConnPort[c]] = "accept"
  /\ listener[ConnPort[c]] = "open"
  /\ conn[c] = "queued"
  /\ conn' = [conn EXCEPT ![c] = "spawned"]
  /\ UNCHANGED <<listener, serve, unread, peer, contextVars>>

Accept(c) ==
  /\ serve[ConnPort[c]] = "accept"
  /\ listener[ConnPort[c]] = "open"
  /\ conn[c] = "queued"
  /\ WgAdd(1)
  /\ conn' = [conn EXCEPT ![c] = "spawned"]
  /\ UNCHANGED <<listener, serve, unread, peer, ctxDone, bound, stats>>

\* Accept fails.  Any error ends the loop once the context is cancelled; before
\* that only a closed listener does, other errors are logged and retried.
ServeReturn(p) ==
  /\ serve[p] = "accept"
  /\ listener[p] = "closed" \/ ctxDone
  /\ WgDone
  /\ serve' = [serve EXCEPT ![p] = "done"]
  /\ UNCHANGED <<listener, conn, unread, peer, ctxDone, bound, stats>>

-----------------------------------------------------------------------------
\* The handler goroutine of connection c.
HandleStart(c) ==
  /\ conn[c] = "spawned"
  /\ TCPConnect(ConnPort[c])
  /\ conn' = [conn EXCEPT ![c] = "reading"]
  /\ UNCHANGED <<listener, serve, unread, peer, ctxDone, wg, bound>>

\* A chunk is read and written back.
ReadEcho(c) ==
  /\ conn[c] = "reading"
  /\ unread[c] > 0
  /\ peer[c] # "reset"
  /\ unread' = [unread EXCEPT ![c] = @ - 1]
  /\ UNCHANGED <<listener, serve, conn, peer, contextVars>>

\* A chunk is read; writing it back fails (the peer is gone, or has not read
\* for 5 seconds).
WriteFail(c) ==
  /\ conn[c] = "reading"
  /\ unread[c] > 0
  /\ TCPError(ConnPort[c])
  /\ unread' = [unread EXCEPT ![c] = @ - 1]
  /\ conn' = [conn EXCEPT ![c] = "returning"]
  /\ UNCHANGED <<listener, serve, peer, ctxDone, wg, bound>>

\* No data for 2 seconds: the handler returns if the context is cancelled and
\* otherwise reads again, which changes nothing.
ReadTimeout(c) ==
  /\ conn[c] = "reading"
  /\ unread[c] = 0
  /\ peer[c] = "open"
  /\ ctxDone
  /\ conn' = [conn EXCEPT ![c] = "returning"]
  /\ UNCHANGED <<listener, serve, unread, peer, contextVars>>

ReadEOF(c) ==
  /\ conn[c] = "reading"
  /\ unread[c] = 0
  /\ peer[c] = "fin"
  /\ conn' = [conn EXCEPT ![c] = "returning"]
  /\ UNCHANGED <<listener, serve, unread, peer, contextVars>>

\* Faulty ReadError: every network error is taken for a timeout.
ReadErrorAsTimeout(c) ==
  /\ conn[c] = "reading"
  /\ unread[c] = 0
  /\ peer[c] = "reset"
  /\ ctxDone
  /\ conn' = [conn EXCEPT ![c] = "returning"]
  /\ UNCHANGED <<listener, serve, unread, peer, contextVars>>

ReadError(c) ==
  /\ conn[c] = "reading"
  /\ unread[c] = 0
  /\ peer[c] = "reset"
  /\ TCPError(ConnPort[c])
  /\ conn' = [conn EXCEPT ![c] = "returning"]
  /\ UNCHANGED <<listener, serve, unread, peer, ctxDone, wg, bound>>

\* The deferred calls run last in, first out: the statistics, then the socket
\* and the WaitGroup.
HandleDisconnect(c) ==
  /\ conn[c] = "returning"
  /\ TCPDisconnect(ConnPort[c])
  /\ conn' = [conn EXCEPT ![c] = "closing"]
  /\ UNCHANGED <<listener, serve, unread, peer, ctxDone, wg, bound>>

HandleDone(c) ==
  /\ conn[c] = "closing"
  /\ WgDone
  /\ conn' = [conn EXCEPT ![c] = "done"]
  /\ UNCHANGED <<listener, serve, unread, peer, ctxDone, bound, stats>>

-----------------------------------------------------------------------------
\* The clients.
Dial(c) ==
  /\ conn[c] = "none"
  /\ listener[ConnPort[c]] = "open"
  /\ conn' = [conn EXCEPT ![c] = "queued"]
  /\ UNCHANGED <<listener, serve, unread, peer, contextVars>>

Connected(c) == conn[c] \in {"queued", "spawned", "reading"}

PeerSend(c) ==
  /\ Connected(c)
  /\ peer[c] = "open"
  /\ unread[c] < MaxUnread
  /\ unread' = [unread EXCEPT ![c] = @ + 1]
  /\ UNCHANGED <<listener, serve, conn, peer, contextVars>>

PeerClose(c) ==
  /\ Connected(c)
  /\ peer[c] = "open"
  /\ peer' = [peer EXCEPT ![c] = "fin"]
  /\ UNCHANGED <<listener, serve, conn, unread, contextVars>>

PeerReset(c) ==
  /\ Connected(c)
  /\ peer[c] # "reset"
  /\ peer' = [peer EXCEPT ![c] = "reset"]
  /\ UNCHANGED <<listener, serve, conn, unread, contextVars>>

-----------------------------------------------------------------------------
Handle(c) ==
  \/ HandleStart(c) \/ ReadEcho(c) \/ WriteFail(c) \/ ReadTimeout(c)
  \/ ReadEOF(c) \/ ReadError(c) \/ HandleDisconnect(c) \/ HandleDone(c)

Peer(c) == Dial(c) \/ PeerSend(c) \/ PeerClose(c) \/ PeerReset(c)

TCPNext ==
  \/ \E p \in Port : TCPCloseListener(p) \/ ServeReturn(p)
  \/ \E c \in Conn : Accept(c) \/ Handle(c) \/ Peer(c)
=============================================================================
