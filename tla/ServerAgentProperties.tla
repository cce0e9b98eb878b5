----------------------- MODULE ServerAgentProperties -----------------------
(***************************************************************************)
(* What the server agent should guarantee.                                 *)
(***************************************************************************)
EXTENDS ServerAgent, Sums

\* Every variable has its type.  For wg this says that the counter of the
\* WaitGroup never becomes negative, where Go panics (main.go:38 and every
\* "defer wg.Done()").
TypeOK ==
  ContextTypeOK /\ TCPTypeOK /\ UDPTypeOK /\ HTTPTypeOK /\ TLSTypeOK /\ MainTypeOK

-----------------------------------------------------------------------------
\* The WaitGroup counts exactly the goroutines that will call Done: the accept
\* loops, the TCP and TLS handlers, the UDP loops and the pairs of goroutines
\* of each HTTP listener.  One Add or Done too many or too few and main exits
\* under running handlers, hangs, or panics (main.go:72).
WaitGroupExact == wg = TCPTracked + UDPTracked + HTTPTracked + TLSTracked

\* The contract of sync.WaitGroup: Add may lift the counter from zero only
\* before Wait is called.  Handlers are added while main may be waiting
\* (tcp/server.go:51, tlsprobe/server.go:60).
AddBeforeWait ==
  [][wg = 0 /\ wg' # 0 => main \in Starting]_vars

-----------------------------------------------------------------------------
PortSum(field) == Total([p \in Port |-> perPort[<<p, field>>]])

\* The gauges of /stats count what runs: the handlers between TCPConnect and
\* TCPDisconnect and the open WebSocket sessions, in all and per port, so the
\* clamp at zero in stats.go never hides a lost or a doubled event.
WSOn(p) == {r \in Request : req[r] = "wsopen" /\ ReqPort[r] = p}
GaugesExact ==
  /\ total["activeTCP"] = Cardinality(TCPRecorded)
  /\ total["activeWS"] = Cardinality({r \in Request : req[r] = "wsopen"})
  /\ \A p \in Port :
       perPort[<<p, "active">>] =
         Cardinality({c \in TCPRecorded : ConnPort[c] = p}) + Cardinality(WSOn(p))

\* A snapshot (stats.go:158) is consistent: the per-port and the global
\* counters, updated by nine different operations, agree.  A download is
\* counted twice among the requests of its port, once by the middleware and
\* once by the handler.
StatsLedger ==
  /\ total["tcpTotal"] = total["TCP"]
  /\ total["downloads"] = total["Download"]
  /\ PortSum("connections") =
       total["tcpTotal"] + total["WebSocket"] + total["TLS"]
  /\ PortSum("active") = total["activeTCP"] + total["activeWS"]
  /\ PortSum("packets") = total["udpPackets"]
  /\ PortSum("requests") = total["httpReqs"] + total["downloads"]
  /\ PortSum("errors") >= total["failedDL"]
  /\ total["failedDL"] <= total["downloads"]
  /\ total["downloads"] + total["WebSocket"] <= total["httpReqs"]
  /\ total["activeTCP"] <= total["tcpTotal"]

\* No datagram is counted twice, and none is lost to the count while the
\* socket is open (udp/server.go:46-59).
PacketsCounted ==
  \A p \in Port :
    /\ perPort[<<p, "packets">>] + inbound[p] <= arrived[p]
    /\ usock[p] = "open" => perPort[<<p, "packets">>] + inbound[p] = arrived[p]

-----------------------------------------------------------------------------
\* "server_stopped" (main.go:73) means what it says: no accept loop and no TCP
\* or TLS handler runs, the gauge of TCP connections is back at zero, and a
\* request that net/http still owns is one whose Shutdown timed out.
StoppedQuiet ==
  main \in {"stopped", "exited"} =>
    /\ TCPServing = {} /\ TCPHandlers = {}
    /\ UDPServing = {}
    /\ TLSLoops = {} /\ TLSHandlers = {}
    /\ total["activeTCP"] = 0
    /\ \A r \in InFlight : hshut[ReqPort[r]] = "timedout"

\* "running" (main.go:69) is printed only when every TCP and UDP port of the
\* configuration was bound, except that the TLS port is never given to the raw
\* TCP echo, not even when the TLS listener was skipped.
RunningMeansStarted ==
  main \in {"running", "stopping"} =>
    /\ \A i \in DOMAIN TCPPorts :
         (listener[TCPPorts[i]] = "none") <=> (TCPPorts[i] = TLSPort)
    /\ \A i \in DOMAIN UDPPorts : usock[UDPPorts[i]] # "none"
    /\ \A p \in HTTPPorts : hserve[p] # "none"

\* A TCP port this process listens on has one listener, and closing one
\* listener never takes the port from another: HTTP listeners bind in their
\* own goroutines, racing each other and the TLS listener (httpx/server.go:49).
Owners(p) ==
  {o \in {"tcp", "http", "tls"} :
     \/ o = "tcp"  /\ listener[p] = "open"
     \/ o = "http" /\ p \in HTTPPorts /\ hserve[p] = "serving" /\ hshut[p] = "waiting"
     \/ o = "tls"  /\ p = TLSPort /\ tlistener = "open"}
OnePortOneOwner ==
  \A p \in Port : Cardinality(Owners(p)) = (IF p \in bound THEN 1 ELSE 0)

-----------------------------------------------------------------------------
\* The server agent implements the abstract task group: the goroutines the
\* WaitGroup counts are its tasks, and the counter is how main knows that none
\* is left.
TCPTasks  == ({"tcploop"} \X TCPServing) \cup ({"tcphandler"} \X TCPHandlers)
UDPTasks  == {"udploop"} \X UDPServing
HTTPTasks == ({"httpserve"} \X HTTPServing) \cup ({"httpclose"} \X HTTPClosers)
TLSTasks  == ({"tlsloop"} \X TLSLoops) \cup ({"tlshandler"} \X TLSHandlers)
Tasks == TCPTasks \cup UDPTasks \cup HTTPTasks \cup TLSTasks

AllTasks ==
  ({"tcploop"} \X Port) \cup ({"tcphandler"} \X Conn) \cup ({"udploop"} \X Port) \cup
  ({"httpserve", "httpclose"} \X HTTPPorts) \cup
  ({"tlsloop"} \X {"tcloser", "taccept"}) \cup ({"tlshandler"} \X TLSConn)

Phase ==
  CASE main \in Starting              -> "starting"
    [] main = "stopping"              -> "waiting"
    [] main \in {"stopped", "exited"} -> "returned"
    [] main = "fatal"                 -> "aborted"

\* The goroutines end with the process.
Live == IF main = "fatal" THEN {} ELSE Tasks

TG == INSTANCE TaskGroup WITH Task <- AllTasks, phase <- Phase, live <- Live

\* Refinement: see TG.
ImplementsTaskGroup == TG!Spec

-----------------------------------------------------------------------------
\* A signal stops the process once clients leave it alone: if from some point
\* on no handler has anything to read, main returns (or had already failed).
\* Idle connections, open WebSocket sessions and stalled downloads may remain
\* (tcp/server.go:81-84, httpx/server.go:41, tlsprobe/server.go:76).
QuietPeers ==
  <>[](\A c \in Conn : conn[c] = "reading" => unread[c] = 0)
StopsWhenQuiet ==
  QuietPeers => (ctxDone ~> main \in {"exited", "fatal"})

\* A handler whose peer has closed or reset the connection finishes, signal or
\* not, so that connections do not leak (tcp/server.go:80-93).
HandlerFinishes ==
  \A c \in Conn : conn[c] = "reading" /\ peer[c] # "open"
                    ~> conn[c] = "done" \/ main \in {"exited", "fatal"}
=============================================================================
