---------------------------- MODULE ServerAgent ----------------------------
(***************************************************************************)
(* The server agent (cmd/server-agent/main.go): main starts the TCP and    *)
(* UDP listeners port by port, then the HTTP, WebSocket and TLS listeners, *)
(* waits for a signal, and waits for the WaitGroup.  Every goroutine of    *)
(* the listeners interleaves with it.                                      *)
(***************************************************************************)
EXTENDS TCPServer, UDPServer, HTTPServer, TLSServer, Sequences

CONSTANTS
  TCPPorts, UDPPorts,       \* the lists of the configuration
  HTTPPort, WebSocketPort   \* the configured ports, 0 for no listener

ASSUME ServerConfigAssumption ==
  /\ TCPPorts \in Seq(Port)
  /\ UDPPorts \in Seq(Port)
  /\ HTTPPort \in Port \cup {0}
  /\ WebSocketPort \in Port \cup {0}
  /\ HTTPPorts = {HTTPPort, WebSocketPort} \ {0}

VARIABLES
  main,   \* where main is
  last    \* in the loop of a Run, the position of the last port it started

mainVars == <<main, last>>
vars == <<contextVars, tcpVars, udpVars, httpVars, tlsVars, mainVars>>

Starting == {"tcp", "udp", "http", "ws", "tls", "running"}
MainTypeOK ==
  /\ main \in Starting \cup {"stopping", "stopped", "exited", "fatal"}
  /\ last \in Nat

Init ==
  /\ ContextInit /\ TCPInit /\ UDPInit /\ HTTPInit /\ TLSInit
  /\ main = "tcp"
  /\ last = 0

\* The goroutines end with the process.
Alive == main \notin {"exited", "fatal"}

-----------------------------------------------------------------------------
\* Faulty withoutPort: nothing is left out.
withAllPorts(ports, skip) == DOMAIN ports

\* The positions of "ports" that withoutPort keeps.  No port is 0, so with no
\* TLS port it keeps all, as main does by not calling it.
withoutPort(ports, skip) == {i \in DOMAIN ports : ports[i] # skip}

tcpPorts == withoutPort(TCPPorts, TLSPort)
udpPorts == DOMAIN UDPPorts

\* The next position of the loop in Run, and the end of the loop.
NextPort(positions, i) ==
  /\ i \in positions
  /\ i > last
  /\ \A j \in positions : j > last => i <= j
LoopDone(positions) == \A j \in positions : j <= last

StartTCPPort ==
  /\ main = "tcp"
  /\ \E i \in tcpPorts :
       NextPort(tcpPorts, i) /\ TCPListen(TCPPorts[i]) /\ last' = i
  /\ UNCHANGED <<main, udpVars, httpVars, tlsVars>>

StartUDPPort ==
  /\ main = "udp"
  /\ \E i \in udpPorts :
       NextPort(udpPorts, i) /\ UDPListen(UDPPorts[i]) /\ last' = i
  /\ UNCHANGED <<main, tcpVars, httpVars, tlsVars>>

\* Run returns the error of listening on a port, and main exits the process:
\* the port may be in use by this process or by another one.
ListenFails ==
  /\ \/ main = "tcp" /\ ~LoopDone(tcpPorts)
     \/ main = "udp" /\ ~LoopDone(udpPorts)
  /\ main' = "fatal"
  /\ UNCHANGED <<last, contextVars, tcpVars, udpVars, httpVars, tlsVars>>

RunReturns ==
  /\ \/ main = "tcp" /\ LoopDone(tcpPorts) /\ main' = "udp"
     \/ main = "udp" /\ LoopDone(udpPorts) /\ main' = "http"
  /\ last' = 0
  /\ UNCHANGED <<contextVars, tcpVars, udpVars, httpVars, tlsVars>>

StartHTTP ==
  /\ main = "http"
  /\ IF HTTPPort > 0 THEN HTTPRun(HTTPPort)
                     ELSE UNCHANGED <<httpVars, contextVars>>
  /\ main' = "ws"
  /\ UNCHANGED <<last, tcpVars, udpVars, tlsVars>>

StartWebSocket ==
  /\ main = "ws"
  /\ IF WebSocketPort > 0 /\ WebSocketPort # HTTPPort
       THEN HTTPRun(WebSocketPort)
       ELSE UNCHANGED <<httpVars, contextVars>>
  /\ main' = "tls"
  /\ UNCHANGED <<last, tcpVars, udpVars, tlsVars>>

\* A certificate that does not load or a port that is taken is only logged.
StartTLS ==
  /\ main = "tls"
  /\ \/ TLSPort > 0 /\ TLSListen
     \/ UNCHANGED <<tlsVars, contextVars>>
  /\ main' = "running"
  /\ UNCHANGED <<last, tcpVars, udpVars, httpVars>>

SignalReceived ==
  /\ main = "running"
  /\ ctxDone
  /\ main' = "stopping"
  /\ UNCHANGED <<last, contextVars, tcpVars, udpVars, httpVars, tlsVars>>

\* Faulty WaitReturns: main gives up waiting, as a shutdown timeout would.
WaitGivesUp ==
  /\ main = "stopping"
  /\ main' = "stopped"
  /\ UNCHANGED <<last, contextVars, tcpVars, udpVars, httpVars, tlsVars>>

WaitReturns ==
  /\ main = "stopping"
  /\ wg = 0
  /\ main' = "stopped"
  /\ UNCHANGED <<last, contextVars, tcpVars, udpVars, httpVars, tlsVars>>

MainReturns ==
  /\ main = "stopped"
  /\ main' = "exited"
  /\ UNCHANGED <<last, contextVars, tcpVars, udpVars, httpVars, tlsVars>>

MainNext ==
  \/ StartTCPPort \/ StartUDPPort \/ ListenFails \/ RunReturns
  \/ StartHTTP \/ StartWebSocket \/ StartTLS
  \/ SignalReceived \/ WaitReturns \/ MainReturns

-----------------------------------------------------------------------------
TCPStep  == Alive /\ TCPNext  /\ UNCHANGED <<udpVars, httpVars, tlsVars, mainVars>>
UDPStep  == Alive /\ UDPNext  /\ UNCHANGED <<tcpVars, httpVars, tlsVars, mainVars>>
HTTPStep == Alive /\ HTTPNext /\ UNCHANGED <<tcpVars, udpVars, tlsVars, mainVars>>
TLSStep  == Alive /\ TLSNext  /\ UNCHANGED <<tcpVars, udpVars, httpVars, mainVars>>

\* SIGINT or SIGTERM arrives.
SignalStep ==
  /\ Alive
  /\ Signal
  /\ UNCHANGED <<wg, bound, stats, tcpVars, udpVars, httpVars, tlsVars, mainVars>>

\* A process that has ended does nothing more.
Ended == main \in {"exited", "fatal"} /\ UNCHANGED vars

Next ==
  MainNext \/ TCPStep \/ UDPStep \/ HTTPStep \/ TLSStep \/ SignalStep \/ Ended

\* Every goroutine that can run is scheduled, a deadline that is armed expires
\* or is reset, and Shutdown ends.  Nothing is assumed of clients or signals.
InTCP(A)  == Alive /\ A /\ UNCHANGED <<udpVars, httpVars, tlsVars, mainVars>>
InUDP(A)  == Alive /\ A /\ UNCHANGED <<tcpVars, httpVars, tlsVars, mainVars>>
InHTTP(A) == Alive /\ A /\ UNCHANGED <<tcpVars, udpVars, tlsVars, mainVars>>
InTLS(A)  == Alive /\ A /\ UNCHANGED <<tcpVars, udpVars, httpVars, mainVars>>

Fairness ==
  /\ WF_vars(MainNext)
  /\ \A i \in tcpPorts : /\ WF_vars(InTCP(TCPCloseListener(TCPPorts[i])))
                         /\ WF_vars(InTCP(ServeReturn(TCPPorts[i])))
  /\ \A i \in udpPorts : /\ WF_vars(InUDP(UDPCloseSocket(UDPPorts[i])))
                         /\ WF_vars(InUDP(UDPEcho(UDPPorts[i]) \/ UDPReturn(UDPPorts[i])))
  /\ \A c \in Conn : /\ WF_vars(InTCP(Accept(c)))
                     /\ WF_vars(InTCP(Handle(c)))
  /\ \A p \in HTTPPorts : /\ WF_vars(InHTTP(HTTPListener(p)))
                          /\ WF_vars(InHTTP(HTTPShutdown(p)))
  /\ WF_vars(InTLS(TLSCloseListener))
  /\ WF_vars(InTLS(TLSServeReturn))
  /\ \A c \in TLSConn : WF_vars(InTLS(TLSHandle(c)))

Spec == Init /\ [][Next]_vars
FairSpec == Spec /\ Fairness
=============================================================================
