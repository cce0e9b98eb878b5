----------------------------- MODULE HTTPServer ----------------------------
(***************************************************************************)
(* The HTTP listeners of the server agent (internal/httpx/server.go and    *)
(* Serve in internal/websocketx).  Run starts two goroutines, both counted *)
(* in the WaitGroup, and reports no error: one binds and serves, the other *)
(* waits for the context and calls Shutdown with a timeout of 10 seconds.  *)
(* Request handlers belong to net/http: only Shutdown waits for them, and  *)
(* it does not wait for a connection that was hijacked for WebSocket.      *)
(*                                                                         *)
(* A request is one of a kind: simple (/ping, /health, /stats, an unknown  *)
(* path or a refused download or upgrade), download, or ws.                *)
(***************************************************************************)
EXTENDS ServerContext, FiniteSets

CONSTANTS
  HTTPPorts,  \* the ports Run is called for
  Request,    \* the requests clients may make, each used once
  ReqPort,    \* the port a request is made to
  ReqKind     \* what the request turns out to be

ASSUME HTTPAssumption ==
  /\ HTTPPorts \subseteq Port
  /\ IsFiniteSet(Request)
  /\ ReqPort \in [Request -> HTTPPorts]
  /\ ReqKind \in [Request -> {"simple", "download", "ws"}]

VARIABLES
  hserve,  \* per port, the goroutine in ListenAndServe
  hshut,   \* per port, the goroutine that calls Shutdown
  req      \* per request, where its handler is

httpVars == <<hserve, hshut, req>>

ReqState == {"none", "accepted", "simple", "download", "ws", "hijacked",
             "wsopen", "done"}

HTTPTypeOK ==
  /\ hserve \in [HTTPPorts -> {"none", "starting", "serving", "done"}]
  /\ hshut \in [HTTPPorts -> {"none", "waiting", "draining", "drained",
                              "timedout"}]
  /\ req \in [Request -> ReqState]

HTTPInit ==
  /\ hserve = [p \in HTTPPorts |-> "none"]
  /\ hshut = [p \in HTTPPorts |-> "none"]
  /\ req = [r \in Request |-> "none"]

\* The goroutines the WaitGroup counts.
HTTPServing == {p \in HTTPPorts : hserve[p] \in {"starting", "serving"}}
HTTPClosers == {p \in HTTPPorts : hshut[p] \in {"waiting", "draining"}}
HTTPTracked == Cardinality(HTTPServing) + Cardinality(HTTPClosers)

\* The requests whose connection net/http still owns, and those it gave away.
InFlight == {r \in Request : req[r] \in {"accepted", "simple", "download", "ws"}}
Hijacked == {r \in Request : req[r] \in {"hijacked", "wsopen"}}

-----------------------------------------------------------------------------
\* Faulty HTTPRun: the goroutine that calls Shutdown is not counted.
HTTPRunAddsOne(p) ==
  /\ hserve[p] = "none"
  /\ WgAdd(1)
  /\ hserve' = [hserve EXCEPT ![p] = "starting"]
  /\ hshut' = [hshut EXCEPT ![p] = "waiting"]
  /\ UNCHANGED <<req, ctxDone, bound, stats>>

\* Run: two goroutines are started; the port is not bound yet.
HTTPRun(p) ==
  /\ hserve[p] = "none"
  /\ WgAdd(2)
  /\ hserve' = [hserve EXCEPT ![p] = "starting"]
  /\ hshut' = [hshut EXCEPT ![p] = "waiting"]
  /\ UNCHANGED <<req, ctxDone, bound, stats>>

\* ListenAndServe binds the port, unless Shutdown was called before it.
HTTPBind(p) ==
  /\ hserve[p] = "starting"
  /\ hshut[p] = "waiting"
  /\ BindTCP(p)
  /\ hserve' = [hserve EXCEPT ![p] = "serving"]
  /\ UNCHANGED <<hshut, req, ctxDone, wg, stats>>

\* ListenAndServe returns at once: the port is taken (an error that is only
\* logged) or Shutdown was called before it.
HTTPNoBind(p) ==
  /\ hserve[p] = "starting"
  /\ WgDone
  /\ hserve' = [hserve EXCEPT ![p] = "done"]
  /\ UNCHANGED <<hshut, req, ctxDone, bound, stats>>

\* The context is cancelled: Shutdown closes the listener and starts to wait.
ShutdownCall(p) ==
  /\ hshut[p] = "waiting"
  /\ ctxDone
  /\ hshut' = [hshut EXCEPT ![p] = "draining"]
  /\ bound' = IF hserve[p] = "serving" THEN bound \ {p} ELSE bound
  /\ UNCHANGED <<hserve, req, ctxDone, wg, stats>>

\* ListenAndServe returns ErrServerClosed.
ServeClosed(p) ==
  /\ hserve[p] = "serving"
  /\ hshut[p] # "waiting"
  /\ WgDone
  /\ hserve' = [hserve EXCEPT ![p] = "done"]
  /\ UNCHANGED <<hshut, req, ctxDone, bound, stats>>

\* Shutdown returns because every connection it knows of is idle or closed.
ShutdownDrained(p) ==
  /\ hshut[p] = "draining"
  /\ \A r \in InFlight : ReqPort[r] # p
  /\ WgDone
  /\ hshut' = [hshut EXCEPT ![p] = "drained"]
  /\ UNCHANGED <<hserve, req, ctxDone, bound, stats>>

\* Faulty ShutdownTimeout: Shutdown waits without a limit.
ShutdownUnbounded(p) == FALSE

\* Shutdown returns because 10 seconds have passed.
ShutdownTimeout(p) ==
  /\ hshut[p] = "draining"
  /\ \E r \in InFlight : ReqPort[r] = p
  /\ WgDone
  /\ hshut' = [hshut EXCEPT ![p] = "timedout"]
  /\ UNCHANGED <<hserve, req, ctxDone, bound, stats>>

-----------------------------------------------------------------------------
\* A client connects and sends a request.
HTTPAccept(r) ==
  /\ req[r] = "none"
  /\ hserve[ReqPort[r]] = "serving"
  /\ hshut[ReqPort[r]] = "waiting"
  /\ req' = [req EXCEPT ![r] = "accepted"]
  /\ UNCHANGED <<hserve, hshut, contextVars>>

\* The connection ends before a complete request header arrives.
HTTPAbort(r) ==
  /\ req[r] = "accepted"
  /\ req' = [req EXCEPT ![r] = "done"]
  /\ UNCHANGED <<hserve, hshut, contextVars>>

\* logMiddleware counts the request and hands it to the mux.
LogMiddleware(r) ==
  /\ req[r] = "accepted"
  /\ HTTPRequest(ReqPort[r])
  /\ req' = [req EXCEPT ![r] = ReqKind[r]]
  /\ UNCHANGED <<hserve, hshut, ctxDone, wg, bound>>

RespondSimple(r) ==
  /\ req[r] = "simple"
  /\ req' = [req EXCEPT ![r] = "done"]
  /\ UNCHANGED <<hserve, hshut, contextVars>>

\* Stream returns, having written everything or not.
RespondDownload(r) ==
  /\ req[r] = "download"
  /\ \E failed \in BOOLEAN : Download(ReqPort[r], failed)
  /\ req' = [req EXCEPT ![r] = "done"]
  /\ UNCHANGED <<hserve, hshut, ctxDone, wg, bound>>

\* Serve takes the connection from net/http and answers 101 ...
Hijack(r) ==
  /\ req[r] = "ws"
  /\ req' = [req EXCEPT ![r] = "hijacked"]
  /\ UNCHANGED <<hserve, hshut, contextVars>>

\* ... and counts the session.  Echoing frames changes no shared state.
WSOpen(r) ==
  /\ req[r] = "hijacked"
  /\ WSConnect(ReqPort[r])
  /\ req' = [req EXCEPT ![r] = "wsopen"]
  /\ UNCHANGED <<hserve, hshut, ctxDone, wg, bound>>

\* A close frame or a read error ends the session; there is no read deadline.
WSClose(r) ==
  /\ req[r] = "wsopen"
  /\ WSDisconnect(ReqPort[r])
  /\ req' = [req EXCEPT ![r] = "done"]
  /\ UNCHANGED <<hserve, hshut, ctxDone, wg, bound>>

-----------------------------------------------------------------------------
HTTPListener(p) ==
  HTTPBind(p) \/ HTTPNoBind(p) \/ ServeClosed(p)

HTTPShutdown(p) == ShutdownCall(p) \/ ShutdownDrained(p) \/ ShutdownTimeout(p)

HTTPRequestStep(r) ==
  \/ HTTPAccept(r) \/ HTTPAbort(r) \/ LogMiddleware(r) \/ RespondSimple(r)
  \/ RespondDownload(r) \/ Hijack(r) \/ WSOpen(r) \/ WSClose(r)

HTTPNext ==
  \/ \E p \in HTTPPorts : HTTPListener(p) \/ HTTPShutdown(p)
  \/ \E r \in Request : HTTPRequestStep(r)
=============================================================================
