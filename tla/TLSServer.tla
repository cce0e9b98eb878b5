----------------------------- MODULE TLSServer -----------------------------
(***************************************************************************)
(* The TLS handshake listener of the server agent (internal/tlsprobe/      *)
(* server.go).  Unlike the raw TCP listener, its closing goroutine is      *)
(* counted in the WaitGroup, its accept loop returns only once the context *)
(* is cancelled, and its handlers know nothing of the context: a deadline  *)
(* of 10 seconds bounds each of them.                                      *)
(***************************************************************************)
EXTENDS ServerContext, FiniteSets

CONSTANTS
  TLSPort,   \* the configured port, 0 for no TLS listener
  TLSConn    \* the connections clients may open, each used once

ASSUME TLSAssumption ==
  /\ TLSPort \in Port \cup {0}
  /\ IsFiniteSet(TLSConn)

VARIABLES
  tlistener,  \* the listening socket
  tcloser,    \* the goroutine that closes it
  taccept,    \* the accept loop
  tconn       \* per connection, its place in the kernel or in handle

tlsVars == <<tlistener, tcloser, taccept, tconn>>

TLSTypeOK ==
  /\ tlistener \in {"none", "open", "closed"}
  /\ tcloser \in {"none", "waiting", "done"}
  /\ taccept \in {"none", "accept", "done"}
  /\ tconn \in [TLSConn -> {"none", "queued", "refused", "handshake", "greet",
                            "closing", "done"}]

TLSInit ==
  /\ tlistener = "none"
  /\ tcloser = "none"
  /\ taccept = "none"
  /\ tconn = [c \in TLSConn |-> "none"]

\* The goroutines the WaitGroup counts.
TLSLoops ==
  {g \in {"tcloser", "taccept"} :
     \/ g = "tcloser" /\ tcloser = "waiting"
     \/ g = "taccept" /\ taccept = "accept"}
TLSHandlers == {c \in TLSConn : tconn[c] \in {"handshake", "greet", "closing"}}
TLSTracked == Cardinality(TLSLoops) + Cardinality(TLSHandlers)

-----------------------------------------------------------------------------
\* Faulty TLSListen: one Add for two goroutines.
TLSListenAddsOne ==
  /\ tlistener = "none"
  /\ BindTCP(TLSPort)
  /\ WgAdd(1)
  /\ tlistener' = "open"
  /\ tcloser' = "waiting"
  /\ taccept' = "accept"
  /\ UNCHANGED <<tconn, ctxDone, stats>>

\* Run, once the certificate is loaded and the port bound.
TLSListen ==
  /\ tlistener = "none"
  /\ BindTCP(TLSPort)
  /\ WgAdd(2)
  /\ tlistener' = "open"
  /\ tcloser' = "waiting"
  /\ taccept' = "accept"
  /\ UNCHANGED <<tconn, ctxDone, stats>>

TLSCloseListener ==
  /\ tcloser = "waiting"
  /\ ctxDone
  /\ WgDone
  /\ tcloser' = "done"
  /\ tlistener' = "closed"
  /\ bound' = bound \ {TLSPort}
  /\ tconn' = [c \in TLSConn |-> IF tconn[c] = "queued" THEN "refused"
                                                        ELSE tconn[c]]
  /\ UNCHANGED <<taccept, ctxDone, stats>>

\* Faulty TLSAccept: handlers are not counted.
TLSAcceptNoAdd(c) ==
  /\ taccept = "accept"
  /\ tlistener = "open"
  /\ tconn[c] = "queued"
  /\ tconn' = [tconn EXCEPT ![c] = "handshake"]
  /\ UNCHANGED <<tlistener, tcloser, taccept, contextVars>>

TLSAccept(c) ==
  /\ taccept = "accept"
  /\ tlistener = "open"
  /\ tconn[c] = "queued"
  /\ WgAdd(1)
  /\ tconn' = [tconn EXCEPT ![c] = "handshake"]
  /\ UNCHANGED <<tlistener, tcloser, taccept, ctxDone, bound, stats>>

\* Accept fails: the loop ends if the context is cancelled and retries if not.
TLSServeReturn ==
  /\ taccept = "accept"
  /\ ctxDone
  /\ WgDone
  /\ taccept' = "done"
  /\ UNCHANGED <<tlistener, tcloser, tconn, ctxDone, bound, stats>>

-----------------------------------------------------------------------------
\* The handler goroutine of connection c.
HandshakeOK(c) ==
  /\ tconn[c] = "handshake"
  /\ TLSHandshake(TLSPort)
  /\ tconn' = [tconn EXCEPT ![c] = "greet"]
  /\ UNCHANGED <<tlistener, tcloser, taccept, ctxDone, wg, bound>>

\* A bad handshake, a lost peer, or a peer silent for 10 seconds.
HandshakeFail(c) ==
  /\ tconn[c] = "handshake"
  /\ tconn' = [tconn EXCEPT ![c] = "closing"]
  /\ UNCHANGED <<tlistener, tcloser, taccept, contextVars>>

\* The greeting is written or not; its error is ignored.
Greet(c) ==
  /\ tconn[c] = "greet"
  /\ tconn' = [tconn EXCEPT ![c] = "closing"]
  /\ UNCHANGED <<tlistener, tcloser, taccept, contextVars>>

\* The deferred calls: the socket is closed, then wg.Done.
TLSDone(c) ==
  /\ tconn[c] = "closing"
  /\ WgDone
  /\ tconn' = [tconn EXCEPT ![c] = "done"]
  /\ UNCHANGED <<tlistener, tcloser, taccept, ctxDone, bound, stats>>

\* A client connects.
TLSDial(c) ==
  /\ tconn[c] = "none"
  /\ tlistener = "open"
  /\ tconn' = [tconn EXCEPT ![c] = "queued"]
  /\ UNCHANGED <<tlistener, tcloser, taccept, contextVars>>

TLSHandle(c) == HandshakeOK(c) \/ HandshakeFail(c) \/ Greet(c) \/ TLSDone(c)

TLSNext ==
  \/ TLSCloseListener \/ TLSServeReturn
  \/ \E c \in TLSConn : TLSAccept(c) \/ TLSHandle(c) \/ TLSDial(c)
=============================================================================
