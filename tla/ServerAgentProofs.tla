------------------------- MODULE ServerAgentProofs -------------------------
(***************************************************************************)
(* Theorems about the server agent, for every configuration and every set  *)
(* of clients, and that it implements the abstract group of tasks.         *)
(*                                                                         *)
(* The first part is about one step of each kind of listener: it preserves *)
(* the types, and the WaitGroup moves with the number of goroutines it     *)
(* counts.  The inductive invariant of the second part says what the       *)
(* WaitGroup counts and in which order the parts of a listener come into   *)
(* being.  The ledger of the statistics has an invariant of its own: each  *)
(* counter is the number of things done plus the number that are between   *)
(* their event and the statistics, and the sums over ports and reasons of  *)
(* SumProofs move with the counters.                                       *)
(***************************************************************************)
EXTENDS ServerAgentProperties, SumProofs, FiniteSetTheorems, TLAPS

\* The type of the shared state, with the counter allowed to be negative: that
\* it never is follows from what it counts.
ContextTyped ==
  /\ ctxDone \in BOOLEAN
  /\ wg \in Int
  /\ bound \subseteq Port
  /\ StatsTypeOK

LEMMA PortFinite == IsFiniteSet(Port) /\ Port \subseteq Nat \ {0}
<1>1. MaxPort \in Nat
  BY DEF MaxPort
<1>2. IsFiniteSet(1 .. MaxPort)
  BY <1>1, FS_Interval
<1>3. \A S, T : IsFiniteSet(S) /\ T \subseteq S => IsFiniteSet(T)
  BY FS_Subset
<1>4. IsFiniteSet(Port)
  BY <1>2, <1>3, PortAssumption, Zenon
<1>5. Port \subseteq Nat \ {0}
  BY <1>1, PortAssumption
<1> QED BY <1>4, <1>5

\* The cardinality of a subset that gains or loses one element.
LEMMA CountGains ==
  ASSUME NEW S, IsFiniteSet(S), NEW T, T \subseteq S, NEW x \in S \ T,
         NEW U, U = T \cup {x}
  PROVE  Cardinality(T) \in Nat /\ Cardinality(U) = Cardinality(T) + 1
BY FS_Subset, FS_CardinalityType, FS_AddElement

LEMMA CountLoses ==
  ASSUME NEW S, IsFiniteSet(S), NEW T, T \subseteq S, NEW x \in T,
         NEW U, U = T \ {x}
  PROVE  Cardinality(T) \in Nat /\ Cardinality(U) = Cardinality(T) - 1
BY FS_Subset, FS_CardinalityType, FS_RemoveElement

\* The counters are natural numbers after each operation of stats.go.
LEMMA AddTyped ==
  ASSUME NEW D, NEW f \in [D -> Nat], NEW S
  PROVE  Add(f, S) \in [D -> Nat] /\ Sub(f, S) \in [D -> Nat]
BY DEF Add, Sub

LEMMA StatsTyped ==
  ASSUME StatsTypeOK, NEW p, NEW failed \in BOOLEAN,
         \/ TCPConnect(p) \/ TCPDisconnect(p) \/ TCPError(p) \/ UDPPacket(p)
         \/ HTTPRequest(p) \/ WSConnect(p) \/ WSDisconnect(p)
         \/ TLSHandshake(p) \/ Download(p, failed)
  PROVE  StatsTypeOK'
BY AddTyped DEF StatsTypeOK, TCPConnect, TCPDisconnect, TCPError, UDPPacket,
     HTTPRequest, WSConnect, WSDisconnect, TLSHandshake, Download

-----------------------------------------------------------------------------
\* A port whose listener was never opened has no accept loop.
TCPOrder == \A p \in Port : listener[p] = "none" => serve[p] = "none"

LEMMA TCPTracksFinite ==
  /\ IsFiniteSet(TCPServing) /\ Cardinality(TCPServing) \in Nat
  /\ IsFiniteSet(TCPHandlers) /\ Cardinality(TCPHandlers) \in Nat
BY PortFinite, ConnAssumption, FS_Subset, FS_CardinalityType
   DEF TCPServing, TCPHandlers

LEMMA TCPPreservesTypes ==
  ASSUME ContextTyped, TCPTypeOK, TCPOrder,
         TCPNext \/ \E p \in Port : TCPListen(p)
  PROVE  ContextTyped' /\ TCPTypeOK' /\ TCPOrder'
<1> USE ConnAssumption DEF ContextTyped, TCPTypeOK, TCPOrder, ConnState,
        contextVars, stats, StatsTypeOK, BindTCP, WgAdd, WgDone
<1>1. ASSUME NEW p \in Port, TCPListen(p)
      PROVE  ContextTyped' /\ TCPTypeOK' /\ TCPOrder'
  BY <1>1 DEF TCPListen
<1>2. ASSUME NEW p \in Port, TCPCloseListener(p)
      PROVE  ContextTyped' /\ TCPTypeOK' /\ TCPOrder'
  BY <1>2 DEF TCPCloseListener
<1>3. ASSUME NEW p \in Port, ServeReturn(p)
      PROVE  ContextTyped' /\ TCPTypeOK' /\ TCPOrder'
  BY <1>3 DEF ServeReturn
<1>4. ASSUME NEW c \in Conn, Accept(c)
      PROVE  ContextTyped' /\ TCPTypeOK' /\ TCPOrder'
  BY <1>4 DEF Accept
<1>5. ASSUME NEW c \in Conn, Handle(c)
      PROVE  ContextTyped' /\ TCPTypeOK' /\ TCPOrder'
  <2>1. CASE HandleStart(c)
    BY <2>1, StatsTyped DEF HandleStart
  <2>2. CASE ReadEcho(c)
    BY <2>2 DEF ReadEcho
  <2>3. CASE WriteFail(c)
    <3>1. StatsTypeOK'
      BY <2>3, StatsTyped DEF WriteFail
    <3>2. unread' \in [Conn -> 0 .. MaxUnread]
      BY <2>3 DEF WriteFail
    <3> QED BY <2>3, <3>1, <3>2 DEF WriteFail
  <2>4. CASE ReadTimeout(c)
    BY <2>4 DEF ReadTimeout
  <2>5. CASE ReadEOF(c)
    BY <2>5 DEF ReadEOF
  <2>6. CASE ReadError(c)
    BY <2>6, StatsTyped DEF ReadError
  <2>7. CASE HandleDisconnect(c)
    BY <2>7, StatsTyped DEF HandleDisconnect
  <2>8. CASE HandleDone(c)
    BY <2>8 DEF HandleDone
  <2> QED BY <1>5, <2>1, <2>2, <2>3, <2>4, <2>5, <2>6, <2>7, <2>8 DEF Handle
<1>6. ASSUME NEW c \in Conn, Peer(c)
      PROVE  ContextTyped' /\ TCPTypeOK' /\ TCPOrder'
  BY <1>6 DEF Peer, Dial, PeerSend, PeerClose, PeerReset
<1> QED BY <1>1, <1>2, <1>3, <1>4, <1>5, <1>6 DEF TCPNext

LEMMA TCPCounts ==
  ASSUME ContextTyped, TCPTypeOK, TCPOrder,
         TCPNext \/ \E p \in Port : TCPListen(p)
  PROVE  wg' = wg + (TCPTracked' - TCPTracked)
<1> USE ConnAssumption DEF ContextTyped, TCPTypeOK, ConnState, contextVars, stats
<1>f. /\ IsFiniteSet(Port)
      /\ Cardinality(TCPServing) \in Nat
      /\ Cardinality(TCPHandlers) \in Nat
  BY PortFinite, TCPTracksFinite
<1> DEFINE Goal == wg' = wg + (TCPTracked' - TCPTracked)
<1>s. ASSUME TCPServing' = TCPServing, TCPHandlers' = TCPHandlers, wg' = wg
      PROVE  Goal
  <2>1. TCPTracked' = TCPTracked /\ TCPTracked \in Nat
    BY <1>s, <1>f DEF TCPTracked
  <2> QED BY <1>s, <2>1
<1>1. ASSUME NEW p \in Port, TCPListen(p)
      PROVE  Goal
  <2>1. TCPServing' = TCPServing \cup {p} /\ p \notin TCPServing
    BY <1>1 DEF TCPListen, TCPServing, TCPOrder
  <2>2. TCPHandlers' = TCPHandlers /\ wg' = wg + 1
    BY <1>1 DEF TCPListen, TCPHandlers, WgAdd
  <2>3. Cardinality(TCPServing') = Cardinality(TCPServing) + 1
    BY <1>f, <2>1, CountGains DEF TCPServing
  <2> QED BY <1>f, <2>2, <2>3 DEF TCPTracked
<1>2. ASSUME NEW p \in Port, TCPCloseListener(p)
      PROVE  Goal
  BY <1>2, <1>s DEF TCPCloseListener, TCPServing, TCPHandlers
<1>3. ASSUME NEW p \in Port, ServeReturn(p)
      PROVE  Goal
  <2>1. TCPServing' = TCPServing \ {p} /\ p \in TCPServing
    BY <1>3 DEF ServeReturn, TCPServing
  <2>2. TCPHandlers' = TCPHandlers /\ wg' = wg - 1
    BY <1>3 DEF ServeReturn, TCPHandlers, WgDone
  <2>3. Cardinality(TCPServing') = Cardinality(TCPServing) - 1
    BY <1>f, <2>1, CountLoses DEF TCPServing
  <2> QED BY <1>f, <2>2, <2>3 DEF TCPTracked
<1>4. ASSUME NEW c \in Conn, Accept(c)
      PROVE  Goal
  <2>1. TCPHandlers' = TCPHandlers \cup {c} /\ c \notin TCPHandlers
    BY <1>4 DEF Accept, TCPHandlers
  <2>2. TCPServing' = TCPServing /\ wg' = wg + 1
    BY <1>4 DEF Accept, TCPServing, WgAdd
  <2>3. Cardinality(TCPHandlers') = Cardinality(TCPHandlers) + 1
    BY <2>1, CountGains DEF TCPHandlers
  <2> QED BY <1>f, <2>2, <2>3 DEF TCPTracked
<1>5. ASSUME NEW c \in Conn, HandleDone(c)
      PROVE  Goal
  <2>1. TCPHandlers' = TCPHandlers \ {c} /\ c \in TCPHandlers
    BY <1>5 DEF HandleDone, TCPHandlers
  <2>2. TCPServing' = TCPServing /\ wg' = wg - 1
    BY <1>5 DEF HandleDone, TCPServing, WgDone
  <2>3. Cardinality(TCPHandlers') = Cardinality(TCPHandlers) - 1
    BY <2>1, CountLoses DEF TCPHandlers
  <2> QED BY <1>f, <2>2, <2>3 DEF TCPTracked
<1>6. ASSUME NEW c \in Conn, Handle(c), ~HandleDone(c)
      PROVE  Goal
  BY <1>6, <1>s DEF Handle, HandleStart, ReadEcho, WriteFail, ReadTimeout,
       ReadEOF, ReadError, HandleDisconnect, TCPServing, TCPHandlers
<1>7. ASSUME NEW c \in Conn, Peer(c)
      PROVE  Goal
  BY <1>7, <1>s DEF Peer, Dial, PeerSend, PeerClose, PeerReset, TCPServing,
       TCPHandlers
<1> QED BY <1>1, <1>2, <1>3, <1>4, <1>5, <1>6, <1>7 DEF TCPNext

-----------------------------------------------------------------------------
\* A port whose socket was never opened has no goroutine.
UDPOrder == \A p \in Port : usock[p] = "none" => userve[p] = "none"

\* The bound of the model: what is buffered has arrived.
UDPBounded == \A p \in Port : inbound[p] <= arrived[p]

LEMMA UDPPreservesTypes ==
  ASSUME ContextTyped, UDPTypeOK, UDPOrder, UDPBounded,
         UDPNext \/ \E p \in Port : UDPListen(p)
  PROVE  ContextTyped' /\ UDPTypeOK' /\ UDPOrder' /\ UDPBounded'
<1> USE MaxPacketsAssumption DEF ContextTyped, UDPTypeOK, UDPOrder, UDPBounded,
        contextVars, stats, StatsTypeOK, WgAdd, WgDone
<1>1. ASSUME NEW p \in Port, UDPListen(p)
      PROVE  ContextTyped' /\ UDPTypeOK' /\ UDPOrder' /\ UDPBounded'
  BY <1>1 DEF UDPListen
<1>2. ASSUME NEW p \in Port, UDPCloseSocket(p)
      PROVE  ContextTyped' /\ UDPTypeOK' /\ UDPOrder' /\ UDPBounded'
  BY <1>2 DEF UDPCloseSocket
<1>3. ASSUME NEW p \in Port, UDPEcho(p)
      PROVE  ContextTyped' /\ UDPTypeOK' /\ UDPOrder' /\ UDPBounded'
  <2>1. StatsTypeOK'
    BY <1>3, StatsTyped DEF UDPEcho
  <2>2. /\ inbound' \in [Port -> 0 .. MaxPackets]
        /\ \A q \in Port : inbound'[q] <= inbound[q]
    BY <1>3 DEF UDPEcho
  <2>3. UDPBounded'
    BY <1>3, <2>2 DEF UDPEcho
  <2> QED BY <1>3, <2>1, <2>2, <2>3 DEF UDPEcho
<1>4. ASSUME NEW p \in Port, UDPReturn(p)
      PROVE  ContextTyped' /\ UDPTypeOK' /\ UDPOrder' /\ UDPBounded'
  BY <1>4 DEF UDPReturn
<1>5. ASSUME NEW p \in Port, UDPArrive(p)
      PROVE  ContextTyped' /\ UDPTypeOK' /\ UDPOrder' /\ UDPBounded'
  BY <1>5 DEF UDPArrive
<1> QED BY <1>1, <1>2, <1>3, <1>4, <1>5 DEF UDPNext

LEMMA UDPCounts ==
  ASSUME ContextTyped, UDPTypeOK, UDPOrder,
         UDPNext \/ \E p \in Port : UDPListen(p)
  PROVE  wg' = wg + (UDPTracked' - UDPTracked)
<1> USE DEF ContextTyped, UDPTypeOK, contextVars, stats, UDPTracked
<1>f. Cardinality(UDPServing) \in Nat
  BY PortFinite, FS_Subset, FS_CardinalityType DEF UDPServing
<1> DEFINE Goal == wg' = wg + (UDPTracked' - UDPTracked)
<1>1. ASSUME NEW p \in Port, UDPListen(p)
      PROVE  Goal
  <2>1. UDPServing' = UDPServing \cup {p} /\ p \notin UDPServing
    BY <1>1 DEF UDPListen, UDPServing, UDPOrder
  <2>2. wg' = wg + 1
    BY <1>1 DEF UDPListen, WgAdd
  <2>3. Cardinality(UDPServing') = Cardinality(UDPServing) + 1
    BY PortFinite, <2>1, CountGains DEF UDPServing
  <2> QED BY <1>f, <2>2, <2>3
<1>2. ASSUME NEW p \in Port, UDPReturn(p)
      PROVE  Goal
  <2>1. UDPServing' = UDPServing \ {p} /\ p \in UDPServing
    BY <1>2 DEF UDPReturn, UDPServing
  <2>2. wg' = wg - 1
    BY <1>2 DEF UDPReturn, WgDone
  <2>3. Cardinality(UDPServing') = Cardinality(UDPServing) - 1
    BY PortFinite, <2>1, CountLoses DEF UDPServing
  <2> QED BY <1>f, <2>2, <2>3
<1>3. ASSUME NEW p \in Port, UDPCloseSocket(p) \/ UDPEcho(p) \/ UDPArrive(p)
      PROVE  Goal
  <2>1. UDPServing' = UDPServing /\ wg' = wg
    BY <1>3 DEF UDPCloseSocket, UDPEcho, UDPArrive, UDPServing
  <2> QED BY <1>f, <2>1
<1> QED BY <1>1, <1>2, <1>3 DEF UDPNext

-----------------------------------------------------------------------------
\* Run starts both goroutines of a port together.
HTTPOrder == \A p \in HTTPPorts : hserve[p] = "none" => hshut[p] = "none"

LEMMA HTTPPreservesTypes ==
  ASSUME ContextTyped, HTTPTypeOK, HTTPOrder,
         HTTPNext \/ \E p \in HTTPPorts : HTTPRun(p)
  PROVE  ContextTyped' /\ HTTPTypeOK' /\ HTTPOrder'
<1> USE HTTPAssumption DEF ContextTyped, HTTPTypeOK, HTTPOrder, ReqState,
        contextVars, stats, StatsTypeOK, BindTCP, WgAdd, WgDone
<1>1. ASSUME NEW p \in HTTPPorts, HTTPRun(p)
      PROVE  ContextTyped' /\ HTTPTypeOK' /\ HTTPOrder'
  BY <1>1 DEF HTTPRun
<1>2. ASSUME NEW p \in HTTPPorts, HTTPListener(p)
      PROVE  ContextTyped' /\ HTTPTypeOK' /\ HTTPOrder'
  BY <1>2 DEF HTTPListener, HTTPBind, HTTPNoBind, ServeClosed
<1>3. ASSUME NEW p \in HTTPPorts, HTTPShutdown(p)
      PROVE  ContextTyped' /\ HTTPTypeOK' /\ HTTPOrder'
  BY <1>3 DEF HTTPShutdown, ShutdownCall, ShutdownDrained, ShutdownTimeout
<1>4. ASSUME NEW r \in Request, HTTPRequestStep(r)
      PROVE  ContextTyped' /\ HTTPTypeOK' /\ HTTPOrder'
  <2>1. CASE HTTPAccept(r) \/ HTTPAbort(r) \/ RespondSimple(r) \/ Hijack(r)
    BY <2>1 DEF HTTPAccept, HTTPAbort, RespondSimple, Hijack
  <2>2. CASE LogMiddleware(r)
    BY <2>2, StatsTyped DEF LogMiddleware
  <2>3. CASE RespondDownload(r)
    BY <2>3, StatsTyped DEF RespondDownload
  <2>4. CASE WSOpen(r)
    BY <2>4, StatsTyped DEF WSOpen
  <2>5. CASE WSClose(r)
    BY <2>5, StatsTyped DEF WSClose
  <2> QED BY <1>4, <2>1, <2>2, <2>3, <2>4, <2>5 DEF HTTPRequestStep
<1> QED BY <1>1, <1>2, <1>3, <1>4 DEF HTTPNext

LEMMA HTTPTracksFinite ==
  /\ IsFiniteSet(HTTPPorts)
  /\ Cardinality(HTTPServing) \in Nat
  /\ Cardinality(HTTPClosers) \in Nat
<1>1. IsFiniteSet(HTTPPorts)
  BY PortFinite, HTTPAssumption, FS_Subset
<1> QED BY <1>1, FS_Subset, FS_CardinalityType DEF HTTPServing, HTTPClosers

LEMMA HTTPCounts ==
  ASSUME ContextTyped, HTTPTypeOK, HTTPOrder,
         HTTPNext \/ \E p \in HTTPPorts : HTTPRun(p)
  PROVE  wg' = wg + (HTTPTracked' - HTTPTracked)
<1> USE HTTPAssumption DEF ContextTyped, HTTPTypeOK, ReqState, contextVars, stats
<1>f. /\ IsFiniteSet(HTTPPorts)
      /\ Cardinality(HTTPServing) \in Nat
      /\ Cardinality(HTTPClosers) \in Nat
  BY HTTPTracksFinite
<1> DEFINE Goal == wg' = wg + (HTTPTracked' - HTTPTracked)
<1>s. ASSUME HTTPServing' = HTTPServing, HTTPClosers' = HTTPClosers, wg' = wg
      PROVE  Goal
  <2>1. HTTPTracked' = HTTPTracked /\ HTTPTracked \in Nat
    BY <1>s, <1>f DEF HTTPTracked
  <2> QED BY <1>s, <2>1
<1>1. ASSUME NEW p \in HTTPPorts, HTTPRun(p)
      PROVE  Goal
  <2>1. HTTPServing' = HTTPServing \cup {p} /\ p \notin HTTPServing
    BY <1>1 DEF HTTPRun, HTTPServing
  <2>2. HTTPClosers' = HTTPClosers \cup {p} /\ p \notin HTTPClosers
    BY <1>1 DEF HTTPRun, HTTPClosers, HTTPOrder
  <2>3. Cardinality(HTTPServing') = Cardinality(HTTPServing) + 1
    BY <1>f, <2>1, CountGains DEF HTTPServing
  <2>4. Cardinality(HTTPClosers') = Cardinality(HTTPClosers) + 1
    BY <1>f, <2>2, CountGains DEF HTTPClosers
  <2>5. wg' = wg + 2
    BY <1>1 DEF HTTPRun, WgAdd
  <2> QED BY <1>f, <2>3, <2>4, <2>5 DEF HTTPTracked
<1>2. ASSUME NEW p \in HTTPPorts, HTTPNoBind(p) \/ ServeClosed(p)
      PROVE  Goal
  <2>1. HTTPServing' = HTTPServing \ {p} /\ p \in HTTPServing
    BY <1>2 DEF HTTPNoBind, ServeClosed, HTTPServing
  <2>2. HTTPClosers' = HTTPClosers /\ wg' = wg - 1
    BY <1>2 DEF HTTPNoBind, ServeClosed, HTTPClosers, WgDone
  <2>3. Cardinality(HTTPServing') = Cardinality(HTTPServing) - 1
    BY <1>f, <2>1, CountLoses DEF HTTPServing
  <2> QED BY <1>f, <2>2, <2>3 DEF HTTPTracked
<1>3. ASSUME NEW p \in HTTPPorts, ShutdownDrained(p) \/ ShutdownTimeout(p)
      PROVE  Goal
  <2>1. HTTPClosers' = HTTPClosers \ {p} /\ p \in HTTPClosers
    BY <1>3 DEF ShutdownDrained, ShutdownTimeout, HTTPClosers
  <2>2. HTTPServing' = HTTPServing /\ wg' = wg - 1
    BY <1>3 DEF ShutdownDrained, ShutdownTimeout, HTTPServing, WgDone
  <2>3. Cardinality(HTTPClosers') = Cardinality(HTTPClosers) - 1
    BY <1>f, <2>1, CountLoses DEF HTTPClosers
  <2> QED BY <1>f, <2>2, <2>3 DEF HTTPTracked
<1>4. ASSUME NEW p \in HTTPPorts, HTTPBind(p) \/ ShutdownCall(p)
      PROVE  Goal
  BY <1>4, <1>s DEF HTTPBind, ShutdownCall, HTTPServing, HTTPClosers
<1>5. ASSUME NEW r \in Request, HTTPRequestStep(r)
      PROVE  Goal
  <2>1. UNCHANGED <<hserve, hshut, wg>>
    BY <1>5 DEF HTTPRequestStep, HTTPAccept, HTTPAbort, LogMiddleware,
         RespondSimple, RespondDownload, Hijack, WSOpen, WSClose
  <2> QED BY <2>1, <1>s DEF HTTPServing, HTTPClosers
<1> QED BY <1>1, <1>2, <1>3, <1>4, <1>5 DEF HTTPNext, HTTPListener, HTTPShutdown

-----------------------------------------------------------------------------
\* Before the TLS listener is opened neither of its goroutines runs.
TLSOrder == tlistener = "none" => tcloser = "none" /\ taccept = "none"

\* The actions of the TLS listener are those of a configured port.
TLSStepOrListen == TLSNext \/ (TLSPort > 0 /\ TLSListen)

LEMMA TLSPreservesTypes ==
  ASSUME ContextTyped, TLSTypeOK, TLSOrder, TLSStepOrListen
  PROVE  ContextTyped' /\ TLSTypeOK' /\ TLSOrder'
<1> USE TLSAssumption DEF ContextTyped, TLSTypeOK, TLSOrder, contextVars, stats,
        StatsTypeOK, WgAdd, WgDone
<1>1. CASE TLSPort > 0 /\ TLSListen
  <2>1. TLSPort \in Port
    BY <1>1
  <2> QED BY <1>1, <2>1 DEF TLSListen, BindTCP
<1>2. CASE TLSCloseListener
  BY <1>2 DEF TLSCloseListener
<1>3. CASE TLSServeReturn
  BY <1>3 DEF TLSServeReturn
<1>4. ASSUME NEW c \in TLSConn, TLSAccept(c) \/ TLSDial(c)
      PROVE  ContextTyped' /\ TLSTypeOK' /\ TLSOrder'
  BY <1>4 DEF TLSAccept, TLSDial
<1>5. ASSUME NEW c \in TLSConn, TLSHandle(c)
      PROVE  ContextTyped' /\ TLSTypeOK' /\ TLSOrder'
  <2>1. CASE HandshakeOK(c)
    BY <2>1, StatsTyped DEF HandshakeOK
  <2>2. CASE HandshakeFail(c) \/ Greet(c) \/ TLSDone(c)
    BY <2>2 DEF HandshakeFail, Greet, TLSDone
  <2> QED BY <1>5, <2>1, <2>2 DEF TLSHandle
<1> QED BY <1>1, <1>2, <1>3, <1>4, <1>5 DEF TLSStepOrListen, TLSNext

LEMMA TLSTracksFinite ==
  /\ IsFiniteSet({"tcloser", "taccept"})
  /\ Cardinality(TLSLoops) \in Nat
  /\ Cardinality(TLSHandlers) \in Nat
<1>1. IsFiniteSet({"tcloser", "taccept"})
  <2>1. IsFiniteSet({"tcloser"}) /\ {"tcloser", "taccept"} = {"tcloser"} \cup {"taccept"}
    BY FS_Singleton
  <2> QED BY <2>1, FS_AddElement
<1> QED BY <1>1, TLSAssumption, FS_Subset, FS_CardinalityType
        DEF TLSLoops, TLSHandlers

LEMMA TLSCounts ==
  ASSUME ContextTyped, TLSTypeOK, TLSOrder, TLSStepOrListen
  PROVE  wg' = wg + (TLSTracked' - TLSTracked)
<1> USE TLSAssumption DEF ContextTyped, TLSTypeOK, contextVars, stats
<1>f. /\ IsFiniteSet({"tcloser", "taccept"})
      /\ Cardinality(TLSLoops) \in Nat
      /\ Cardinality(TLSHandlers) \in Nat
  BY TLSTracksFinite
<1> DEFINE Goal == wg' = wg + (TLSTracked' - TLSTracked)
<1>s. ASSUME TLSLoops' = TLSLoops, TLSHandlers' = TLSHandlers, wg' = wg
      PROVE  Goal
  <2>1. TLSTracked' = TLSTracked /\ TLSTracked \in Nat
    BY <1>s, <1>f DEF TLSTracked
  <2> QED BY <1>s, <2>1
<1>1. CASE TLSPort > 0 /\ TLSListen
  <2>1. TLSLoops = {} /\ TLSLoops' = {"tcloser", "taccept"}
    BY <1>1 DEF TLSListen, TLSLoops, TLSOrder
  <2>2. TLSHandlers' = TLSHandlers /\ wg' = wg + 2
    BY <1>1 DEF TLSListen, TLSHandlers, WgAdd
  <2>3. Cardinality({}) = 0 /\ Cardinality({"tcloser"}) = 1
    BY FS_EmptySet, FS_Singleton
  <2>4. Cardinality({"tcloser", "taccept"}) = Cardinality({"tcloser"}) + 1
    BY <1>f, CountGains
  <2> QED BY <1>f, <2>1, <2>2, <2>3, <2>4 DEF TLSTracked
<1>2. CASE TLSCloseListener
  <2>1. TLSLoops' = TLSLoops \ {"tcloser"} /\ "tcloser" \in TLSLoops
    BY <1>2 DEF TLSCloseListener, TLSLoops
  <2>2. TLSHandlers' = TLSHandlers /\ wg' = wg - 1
    BY <1>2 DEF TLSCloseListener, TLSHandlers, WgDone
  <2>3. Cardinality(TLSLoops') = Cardinality(TLSLoops) - 1
    BY <1>f, <2>1, CountLoses DEF TLSLoops
  <2> QED BY <1>f, <2>2, <2>3 DEF TLSTracked
<1>3. CASE TLSServeReturn
  <2>1. TLSLoops' = TLSLoops \ {"taccept"} /\ "taccept" \in TLSLoops
    BY <1>3 DEF TLSServeReturn, TLSLoops
  <2>2. TLSHandlers' = TLSHandlers /\ wg' = wg - 1
    BY <1>3 DEF TLSServeReturn, TLSHandlers, WgDone
  <2>3. Cardinality(TLSLoops') = Cardinality(TLSLoops) - 1
    BY <1>f, <2>1, CountLoses DEF TLSLoops
  <2> QED BY <1>f, <2>2, <2>3 DEF TLSTracked
<1>4. ASSUME NEW c \in TLSConn, TLSAccept(c)
      PROVE  Goal
  <2>1. TLSHandlers' = TLSHandlers \cup {c} /\ c \notin TLSHandlers
    BY <1>4 DEF TLSAccept, TLSHandlers
  <2>2. TLSLoops' = TLSLoops /\ wg' = wg + 1
    BY <1>4 DEF TLSAccept, TLSLoops, WgAdd
  <2>3. Cardinality(TLSHandlers') = Cardinality(TLSHandlers) + 1
    BY <2>1, CountGains DEF TLSHandlers
  <2> QED BY <1>f, <2>2, <2>3 DEF TLSTracked
<1>5. ASSUME NEW c \in TLSConn, TLSDone(c)
      PROVE  Goal
  <2>1. TLSHandlers' = TLSHandlers \ {c} /\ c \in TLSHandlers
    BY <1>5 DEF TLSDone, TLSHandlers
  <2>2. TLSLoops' = TLSLoops /\ wg' = wg - 1
    BY <1>5 DEF TLSDone, TLSLoops, WgDone
  <2>3. Cardinality(TLSHandlers') = Cardinality(TLSHandlers) - 1
    BY <2>1, CountLoses DEF TLSHandlers
  <2> QED BY <1>f, <2>2, <2>3 DEF TLSTracked
<1>6. ASSUME NEW c \in TLSConn,
             TLSDial(c) \/ HandshakeOK(c) \/ HandshakeFail(c) \/ Greet(c)
      PROVE  Goal
  BY <1>6, <1>s DEF TLSDial, HandshakeOK, HandshakeFail, Greet, TLSLoops,
       TLSHandlers
<1> QED BY <1>1, <1>2, <1>3, <1>4, <1>5, <1>6
        DEF TLSStepOrListen, TLSNext, TLSHandle

-----------------------------------------------------------------------------
\* With none of its goroutines left, a listener cannot move the WaitGroup:
\* only a loop or a handler that runs adds or removes one.
TCPIdle  == TCPServing = {} /\ TCPHandlers = {}
UDPIdle  == UDPServing = {}
HTTPIdle == HTTPServing = {} /\ HTTPClosers = {}
TLSIdle  == TLSLoops = {} /\ TLSHandlers = {}

LEMMA TCPIdleKeepsCount ==
  ASSUME TCPTypeOK, TCPIdle, TCPNext
  PROVE  wg' = wg
<1> USE ConnAssumption DEF TCPTypeOK, TCPIdle, TCPServing, TCPHandlers
<1>1. ASSUME NEW p \in Port, TCPCloseListener(p) \/ ServeReturn(p)
      PROVE  wg' = wg
  BY <1>1 DEF TCPCloseListener, ServeReturn
<1>2. ASSUME NEW c \in Conn, Accept(c) \/ Handle(c)
      PROVE  FALSE
  BY <1>2 DEF Accept, Handle, HandleStart, ReadEcho, WriteFail, ReadTimeout,
       ReadEOF, ReadError, HandleDisconnect, HandleDone
<1>3. ASSUME NEW c \in Conn, Peer(c)
      PROVE  wg' = wg
  BY <1>3 DEF Peer, Dial, PeerSend, PeerClose, PeerReset, contextVars
<1> QED BY <1>1, <1>2, <1>3 DEF TCPNext

LEMMA UDPIdleKeepsCount ==
  ASSUME UDPIdle, UDPNext
  PROVE  wg' = wg
BY DEF UDPIdle, UDPServing, UDPNext, UDPCloseSocket, UDPEcho, UDPReturn,
     UDPArrive, contextVars

LEMMA HTTPIdleKeepsCount ==
  ASSUME HTTPIdle, HTTPNext
  PROVE  wg' = wg
<1> USE DEF HTTPIdle, HTTPServing, HTTPClosers, contextVars
<1>1. ASSUME NEW p \in HTTPPorts, HTTPListener(p) \/ HTTPShutdown(p)
      PROVE  FALSE
  BY <1>1 DEF HTTPListener, HTTPBind, HTTPNoBind, ServeClosed, HTTPShutdown,
       ShutdownCall, ShutdownDrained, ShutdownTimeout
<1>2. ASSUME NEW r \in Request, HTTPRequestStep(r)
      PROVE  wg' = wg
  BY <1>2 DEF HTTPRequestStep, HTTPAccept, HTTPAbort, LogMiddleware,
       RespondSimple, RespondDownload, Hijack, WSOpen, WSClose
<1> QED BY <1>1, <1>2 DEF HTTPNext

LEMMA TLSIdleKeepsCount ==
  ASSUME TLSIdle, TLSNext
  PROVE  wg' = wg
BY DEF TLSIdle, TLSLoops, TLSHandlers, TLSNext, TLSCloseListener, TLSServeReturn,
     TLSAccept, TLSHandle, HandshakeOK, HandshakeFail, Greet, TLSDone, TLSDial,
     contextVars

-----------------------------------------------------------------------------
\* The gauge of TCP connections.  No other operation of stats.go touches it.
TCPGauge == total["activeTCP"] = Cardinality(TCPRecorded)

LEMMA GaugeUntouched ==
  ASSUME StatsTypeOK, NEW p, NEW failed \in BOOLEAN,
         \/ TCPError(p) \/ UDPPacket(p) \/ HTTPRequest(p) \/ WSConnect(p)
         \/ WSDisconnect(p) \/ TLSHandshake(p) \/ Download(p, failed)
  PROVE  total'["activeTCP"] = total["activeTCP"]
BY DEF StatsTypeOK, Counter, Protocol, Add, Sub, TCPError, UDPPacket,
     HTTPRequest, WSConnect, WSDisconnect, TLSHandshake, Download

LEMMA GaugeMoves ==
  ASSUME StatsTypeOK, NEW p
  PROVE  /\ TCPConnect(p) => total'["activeTCP"] = total["activeTCP"] + 1
         /\ TCPDisconnect(p) /\ total["activeTCP"] > 0 =>
               total'["activeTCP"] = total["activeTCP"] - 1
BY DEF StatsTypeOK, Counter, Protocol, Add, Sub, TCPConnect, TCPDisconnect

LEMMA TCPPreservesGauge ==
  ASSUME ContextTyped, TCPTypeOK, TCPGauge,
         TCPNext \/ \E p \in Port : TCPListen(p)
  PROVE  TCPGauge'
<1> USE ConnAssumption DEF ContextTyped, TCPTypeOK, ConnState, contextVars, stats
<1>f. Cardinality(TCPRecorded) \in Nat
  BY FS_Subset, FS_CardinalityType DEF TCPRecorded
<1>s. ASSUME TCPRecorded' = TCPRecorded, total'["activeTCP"] = total["activeTCP"]
      PROVE  TCPGauge'
  BY <1>s DEF TCPGauge
<1>1. ASSUME NEW p \in Port, TCPListen(p) \/ TCPCloseListener(p) \/ ServeReturn(p)
      PROVE  TCPGauge'
  BY <1>1, <1>s DEF TCPListen, TCPCloseListener, ServeReturn, TCPRecorded
<1>2. ASSUME NEW c \in Conn, HandleStart(c)
      PROVE  TCPGauge'
  <2>1. TCPRecorded' = TCPRecorded \cup {c} /\ c \notin TCPRecorded
    BY <1>2 DEF HandleStart, TCPRecorded
  <2>2. Cardinality(TCPRecorded') = Cardinality(TCPRecorded) + 1
    BY <2>1, CountGains DEF TCPRecorded
  <2>3. total'["activeTCP"] = total["activeTCP"] + 1
    BY <1>2, GaugeMoves DEF HandleStart
  <2> QED BY <2>2, <2>3 DEF TCPGauge
<1>3. ASSUME NEW c \in Conn, WriteFail(c) \/ ReadTimeout(c) \/ ReadEOF(c) \/ ReadError(c)
      PROVE  TCPGauge'
  <2>1. TCPRecorded' = TCPRecorded
    BY <1>3 DEF WriteFail, ReadTimeout, ReadEOF, ReadError, TCPRecorded
  <2>2. total'["activeTCP"] = total["activeTCP"]
    BY <1>3, GaugeUntouched DEF WriteFail, ReadTimeout, ReadEOF, ReadError
  <2> QED BY <2>1, <2>2, <1>s
<1>4. ASSUME NEW c \in Conn, HandleDisconnect(c)
      PROVE  TCPGauge'
  <2>1. TCPRecorded' = TCPRecorded \ {c} /\ c \in TCPRecorded
    BY <1>4 DEF HandleDisconnect, TCPRecorded
  <2>2. Cardinality(TCPRecorded') = Cardinality(TCPRecorded) - 1
    BY <2>1, CountLoses DEF TCPRecorded
  <2>3. Cardinality(TCPRecorded) # 0
    BY <2>1, FS_Subset, FS_EmptySet DEF TCPRecorded
  <2>4. total["activeTCP"] > 0
    BY <1>f, <2>3 DEF TCPGauge
  <2>5. total'["activeTCP"] = total["activeTCP"] - 1
    BY <1>4, <2>4, GaugeMoves DEF HandleDisconnect
  <2> QED BY <2>2, <2>5 DEF TCPGauge
<1>5. ASSUME NEW c \in Conn,
             Accept(c) \/ ReadEcho(c) \/ HandleDone(c) \/ Peer(c)
      PROVE  TCPGauge'
  BY <1>5, <1>s DEF Accept, ReadEcho, HandleDone, Peer, Dial, PeerSend,
       PeerClose, PeerReset, TCPRecorded
<1> QED BY <1>1, <1>2, <1>3, <1>4, <1>5 DEF TCPNext, Handle

\* A request net/http owns was accepted before Shutdown was called, and
\* Shutdown reports success only without one.
HTTPOwned ==
  \A r \in InFlight : hshut[ReqPort[r]] \in {"waiting", "draining", "timedout"}

LEMMA HTTPPreservesOwned ==
  ASSUME HTTPTypeOK, HTTPOrder, HTTPOwned,
         HTTPNext \/ \E p \in HTTPPorts : HTTPRun(p)
  PROVE  HTTPOwned'
<1> USE HTTPAssumption DEF HTTPTypeOK, HTTPOrder, HTTPOwned, InFlight
<1>1. ASSUME NEW p \in HTTPPorts, HTTPRun(p)
      PROVE  HTTPOwned'
  BY <1>1 DEF HTTPRun
<1>2. ASSUME NEW p \in HTTPPorts, HTTPListener(p) \/ HTTPShutdown(p)
      PROVE  HTTPOwned'
  BY <1>2 DEF HTTPListener, HTTPBind, HTTPNoBind, ServeClosed, HTTPShutdown,
       ShutdownCall, ShutdownDrained, ShutdownTimeout
<1>3. ASSUME NEW r \in Request, HTTPRequestStep(r)
      PROVE  HTTPOwned'
  BY <1>3 DEF HTTPRequestStep, HTTPAccept, HTTPAbort, LogMiddleware,
       RespondSimple, RespondDownload, Hijack, WSOpen, WSClose, ReqState
<1> QED BY <1>1, <1>2, <1>3 DEF HTTPNext

-----------------------------------------------------------------------------
\* The ports on which each kind of listener has a socket.
TCPOwns  == {p \in Port : listener[p] = "open"}
HTTPOwns == {p \in HTTPPorts : hserve[p] = "serving" /\ hshut[p] = "waiting"}
TLSOwns  == {p \in Port : p = TLSPort /\ tlistener = "open"}

\* A step binds a free port, or unbinds a port of its own, or neither.
Moved(S, T) ==
  \/ bound' = bound /\ T = S
  \/ \E p \in Port : p \notin bound /\ bound' = bound \cup {p} /\ T = S \cup {p}
  \/ \E p \in S : bound' = bound \ {p} /\ T = S \ {p}

LEMMA TCPMoves ==
  ASSUME TCPTypeOK, TCPNext \/ \E p \in Port : TCPListen(p)
  PROVE  Moved(TCPOwns, TCPOwns')
<1>1. ASSUME NEW p \in Port, TCPListen(p) PROVE Moved(TCPOwns, TCPOwns')
  <2>1. p \notin bound /\ bound' = bound \cup {p}
    BY <1>1, Zenon DEF TCPListen, BindTCP
  <2>2. TCPOwns' = TCPOwns \cup {p}
    BY <1>1 DEF TCPListen, TCPOwns, TCPTypeOK
  <2> QED BY <2>1, <2>2, Zenon DEF Moved
<1>2. ASSUME NEW p \in Port, TCPCloseListener(p) PROVE Moved(TCPOwns, TCPOwns')
  <2>1. p \in TCPOwns /\ bound' = bound \ {p}
    BY <1>2, Zenon DEF TCPCloseListener, TCPOwns
  <2>2. TCPOwns' = TCPOwns \ {p}
    BY <1>2 DEF TCPCloseListener, TCPOwns, TCPTypeOK
  <2> QED BY <2>1, <2>2, Zenon DEF Moved
<1>3. ASSUME UNCHANGED <<bound, listener>> PROVE Moved(TCPOwns, TCPOwns')
  BY <1>3 DEF Moved, TCPOwns
<1>4. ASSUME NEW p \in Port, ServeReturn(p) PROVE UNCHANGED <<bound, listener>>
  BY <1>4, Zenon DEF ServeReturn
<1>5. ASSUME NEW c \in Conn, Accept(c) \/ Handle(c) \/ Peer(c)
      PROVE  UNCHANGED <<bound, listener>>
  BY <1>5, Zenon DEF Accept, Handle, HandleStart, ReadEcho, WriteFail, ReadTimeout,
     ReadEOF, ReadError, HandleDisconnect, HandleDone, Peer, Dial, PeerSend,
     PeerClose, PeerReset, contextVars
<1> QED BY <1>1, <1>2, <1>3, <1>4, <1>5, Zenon DEF TCPNext

LEMMA HTTPMoves ==
  ASSUME HTTPTypeOK, HTTPOrder, HTTPNext \/ \E p \in HTTPPorts : HTTPRun(p)
  PROVE  Moved(HTTPOwns, HTTPOwns')
<1>0. HTTPPorts \subseteq Port
  BY HTTPAssumption
<1>s. ASSUME bound' = bound, HTTPOwns' = HTTPOwns PROVE Moved(HTTPOwns, HTTPOwns')
  BY <1>s DEF Moved
<1>1. ASSUME NEW p \in HTTPPorts, HTTPRun(p) PROVE bound' = bound /\ HTTPOwns' = HTTPOwns
  BY <1>1 DEF HTTPRun, HTTPOwns, HTTPTypeOK
<1>2. ASSUME NEW p \in HTTPPorts, HTTPBind(p) PROVE Moved(HTTPOwns, HTTPOwns')
  <2>1. p \notin bound /\ bound' = bound \cup {p}
    BY <1>2, Zenon DEF HTTPBind, BindTCP
  <2>2. HTTPOwns' = HTTPOwns \cup {p}
    BY <1>2 DEF HTTPBind, HTTPOwns, HTTPTypeOK
  <2> QED BY <1>0, <2>1, <2>2, Zenon DEF Moved
<1>3. ASSUME NEW p \in HTTPPorts, HTTPNoBind(p) \/ ServeClosed(p) \/ ShutdownDrained(p)
                                    \/ ShutdownTimeout(p)
      PROVE  bound' = bound /\ HTTPOwns' = HTTPOwns
  BY <1>3 DEF HTTPNoBind, ServeClosed, ShutdownDrained, ShutdownTimeout, HTTPOwns, HTTPTypeOK
<1>4. ASSUME NEW p \in HTTPPorts, ShutdownCall(p) PROVE Moved(HTTPOwns, HTTPOwns')
  <2>1. CASE hserve[p] = "serving"
    <3>1. p \in HTTPOwns /\ bound' = bound \ {p}
      BY <1>4, <2>1, Zenon DEF ShutdownCall, HTTPOwns
    <3>2. HTTPOwns' = HTTPOwns \ {p}
      BY <1>4 DEF ShutdownCall, HTTPOwns, HTTPTypeOK
    <3> QED BY <3>1, <3>2, Zenon DEF Moved
  <2>2. CASE hserve[p] # "serving"
    BY <1>4, <1>s, <2>2 DEF ShutdownCall, HTTPOwns, HTTPTypeOK
  <2> QED BY <2>1, <2>2
<1>5. ASSUME NEW r \in Request, HTTPRequestStep(r)
      PROVE  bound' = bound /\ HTTPOwns' = HTTPOwns
  <2>1. UNCHANGED <<bound, hserve, hshut>>
    BY <1>5, Zenon DEF HTTPRequestStep, HTTPAccept, HTTPAbort, LogMiddleware,
       RespondSimple, RespondDownload, Hijack, WSOpen, WSClose, contextVars
  <2> QED BY <2>1 DEF HTTPOwns
<1> QED BY <1>s, <1>1, <1>2, <1>3, <1>4, <1>5, Zenon DEF HTTPNext, HTTPListener, HTTPShutdown

\* The goroutine that closes the TLS listener has one to close.
TLSHeld == tcloser = "waiting" => tlistener = "open"

LEMMA TLSMoves ==
  ASSUME TLSTypeOK, bound \subseteq Port, TLSHeld, TLSStepOrListen
  PROVE  Moved(TLSOwns, TLSOwns') /\ TLSHeld'
<1>1. CASE TLSPort > 0 /\ TLSListen
  <2>1. TLSPort \in Port
    BY <1>1, TLSAssumption
  <2>2. TLSPort \notin bound /\ bound' = bound \cup {TLSPort}
    BY <1>1, Zenon DEF TLSListen, BindTCP
  <2>3. TLSOwns' = TLSOwns \cup {TLSPort} /\ TLSHeld'
    BY <1>1, <2>1 DEF TLSListen, TLSOwns, TLSHeld
  <2> QED BY <2>1, <2>2, <2>3, Zenon DEF Moved
<1>2. CASE TLSCloseListener
  <2>1. /\ tlistener = "open" /\ tlistener' = "closed" /\ tcloser' = "done"
        /\ bound' = bound \ {TLSPort}
    BY <1>2, Zenon DEF TLSCloseListener, TLSHeld
  <2>2. TLSHeld'
    BY <2>1 DEF TLSHeld
  <2>3. CASE TLSPort \in Port
    BY <2>1, <2>2, <2>3 DEF Moved, TLSOwns
  <2>4. CASE TLSPort \notin Port
    BY <2>1, <2>2, <2>4 DEF Moved, TLSOwns
  <2> QED BY <2>3, <2>4
<1>3. CASE TLSServeReturn \/ \E c \in TLSConn : TLSAccept(c) \/ TLSHandle(c) \/ TLSDial(c)
  <2>1. UNCHANGED <<bound, tlistener, tcloser>>
    BY <1>3, Zenon DEF TLSServeReturn, TLSAccept, TLSHandle, HandshakeOK, HandshakeFail,
       Greet, TLSDone, TLSDial, contextVars
  <2> QED BY <2>1 DEF Moved, TLSOwns, TLSHeld
<1> QED BY <1>1, <1>2, <1>3 DEF TLSStepOrListen, TLSNext

-----------------------------------------------------------------------------
\* The gauges are touched only by the four operations on connections.
ActiveSame ==
  /\ total'["activeTCP"] = total["activeTCP"]
  /\ total'["activeWS"] = total["activeWS"]
  /\ \A p \in Port : perPort'[<<p, "active">>] = perPort[<<p, "active">>]

LEMMA ActiveUntouched ==
  ASSUME StatsTypeOK, NEW q, NEW failed \in BOOLEAN,
         \/ TCPError(q) \/ UDPPacket(q) \/ HTTPRequest(q) \/ TLSHandshake(q)
         \/ Download(q, failed) \/ UNCHANGED stats
  PROVE  ActiveSame
<1>1. CASE UNCHANGED stats
  BY <1>1 DEF stats, ActiveSame
<1>2. ASSUME NEW S, NEW U,
             total' = Add(total, S) \/ total' = total, perPort' = Add(perPort, U),
             "activeTCP" \notin S, "activeWS" \notin S,
             \A p \in Port : <<p, "active">> \notin U
      PROVE  ActiveSame
  <2>1. /\ total \in [Counter -> Nat] /\ perPort \in [Port \X PortCounter -> Nat]
        /\ "activeTCP" \in Counter /\ "activeWS" \in Counter
        /\ \A p \in Port : <<p, "active">> \in Port \X PortCounter
    BY DEF StatsTypeOK, Counter, PortCounter
  <2>2. total'["activeTCP"] = total["activeTCP"] /\ total'["activeWS"] = total["activeWS"]
    BY <1>2, <2>1 DEF Add
  <2>3. ASSUME NEW p \in Port PROVE perPort'[<<p, "active">>] = perPort[<<p, "active">>]
    BY <1>2, <2>1 DEF Add
  <2> QED BY <2>2, <2>3 DEF ActiveSame
<1>3. CASE TCPError(q)
  <2>1. total' = total /\ perPort' = Add(perPort, {q} \X {"errors"})
    BY <1>3 DEF TCPError
  <2>2. \A p \in Port : <<p, "active">> \notin {q} \X {"errors"}
    OBVIOUS
  <2>3. "activeTCP" \notin {} /\ "activeWS" \notin {}
    OBVIOUS
  <2> QED BY <1>2, <2>1, <2>2, <2>3
<1>4. CASE UDPPacket(q)
  <2>1. /\ total' = Add(total, {"udpPackets", "UDP"})
        /\ perPort' = Add(perPort, {q} \X {"packets"})
    BY <1>4 DEF UDPPacket
  <2>2. \A p \in Port : <<p, "active">> \notin {q} \X {"packets"}
    OBVIOUS
  <2> QED BY <1>2, <2>1, <2>2
<1>5. CASE HTTPRequest(q)
  <2>1. /\ total' = Add(total, {"httpReqs", "HTTP"})
        /\ perPort' = Add(perPort, {q} \X {"requests"})
    BY <1>5 DEF HTTPRequest
  <2>2. \A p \in Port : <<p, "active">> \notin {q} \X {"requests"}
    OBVIOUS
  <2> QED BY <1>2, <2>1, <2>2
<1>6. CASE TLSHandshake(q)
  <2>1. /\ total' = Add(total, {"TLS"})
        /\ perPort' = Add(perPort, {q} \X {"connections"})
    BY <1>6 DEF TLSHandshake
  <2>2. \A p \in Port : <<p, "active">> \notin {q} \X {"connections"}
    OBVIOUS
  <2> QED BY <1>2, <2>1, <2>2
<1>7. CASE Download(q, failed)
  <2> DEFINE S == {"downloads", "Download"} \cup IF failed THEN {"failedDL"} ELSE {}
             U == {q} \X ({"requests"} \cup IF failed THEN {"errors"} ELSE {})
  <2>1. total' = Add(total, S) /\ perPort' = Add(perPort, U)
    BY <1>7 DEF Download
  <2>2. \A p \in Port : <<p, "active">> \notin U
    OBVIOUS
  <2>3. "activeTCP" \notin S /\ "activeWS" \notin S
    OBVIOUS
  <2> HIDE DEF S, U
  <2> QED BY <1>2, <2>1, <2>2, <2>3
<1> QED BY <1>1, <1>3, <1>4, <1>5, <1>6, <1>7

LEMMA TCPActive ==
  ASSUME StatsTypeOK, TCPTypeOK, TCPNext \/ \E p \in Port : TCPListen(p)
  PROVE  \/ ActiveSame /\ TCPRecorded' = TCPRecorded
         \/ \E c \in Conn \ TCPRecorded :
              TCPConnect(ConnPort[c]) /\ TCPRecorded' = TCPRecorded \cup {c}
         \/ \E c \in TCPRecorded :
              TCPDisconnect(ConnPort[c]) /\ TCPRecorded' = TCPRecorded \ {c}
<1>1. ASSUME NEW p \in Port, TCPListen(p) \/ TCPCloseListener(p) \/ ServeReturn(p)
      PROVE  ActiveSame /\ TCPRecorded' = TCPRecorded
  <2>1. UNCHANGED stats
    BY <1>1, Zenon DEF TCPListen, TCPCloseListener, ServeReturn
  <2>2. TCPRecorded' = TCPRecorded
    BY <1>1 DEF TCPListen, TCPCloseListener, ServeReturn, TCPRecorded, TCPTypeOK
  <2> QED BY <2>1, <2>2 DEF ActiveSame, stats
<1>2. ASSUME NEW c \in Conn, HandleStart(c)
      PROVE  /\ c \in Conn \ TCPRecorded /\ TCPConnect(ConnPort[c])
             /\ TCPRecorded' = TCPRecorded \cup {c}
  BY <1>2 DEF HandleStart, TCPRecorded, TCPTypeOK
<1>3. ASSUME NEW c \in Conn, HandleDisconnect(c)
      PROVE  /\ c \in TCPRecorded /\ TCPDisconnect(ConnPort[c])
             /\ TCPRecorded' = TCPRecorded \ {c}
  BY <1>3 DEF HandleDisconnect, TCPRecorded, TCPTypeOK
<1>4. ASSUME NEW c \in Conn, \/ WriteFail(c) \/ ReadTimeout(c) \/ ReadEOF(c) \/ ReadError(c)
                             \/ Accept(c) \/ ReadEcho(c) \/ HandleDone(c) \/ Peer(c)
      PROVE  ActiveSame /\ TCPRecorded' = TCPRecorded
  <2>1. TCPError(ConnPort[c]) \/ UNCHANGED stats
    BY <1>4, Zenon DEF WriteFail, ReadTimeout, ReadEOF, ReadError, Accept, ReadEcho,
       HandleDone, Peer, Dial, PeerSend, PeerClose, PeerReset, contextVars
  <2>2. ActiveSame
    BY <2>1, ActiveUntouched
  <2>3. TCPRecorded' = TCPRecorded
    BY <1>4 DEF WriteFail, ReadTimeout, ReadEOF, ReadError, Accept, ReadEcho,
       HandleDone, Peer, Dial, PeerSend, PeerClose, PeerReset, TCPRecorded, TCPTypeOK
  <2> QED BY <2>2, <2>3
<1> QED BY <1>1, <1>2, <1>3, <1>4, Zenon DEF TCPNext, Handle

\* The WebSocket sessions that WSConnect has counted and WSDisconnect has not.
Sessions == {r \in Request : req[r] = "wsopen"}

LEMMA HTTPActive ==
  ASSUME StatsTypeOK, HTTPTypeOK, HTTPNext \/ \E p \in HTTPPorts : HTTPRun(p)
  PROVE  \/ ActiveSame /\ Sessions' = Sessions
         \/ \E r \in Request \ Sessions :
              WSConnect(ReqPort[r]) /\ Sessions' = Sessions \cup {r}
         \/ \E r \in Sessions :
              WSDisconnect(ReqPort[r]) /\ Sessions' = Sessions \ {r}
<1>1. ASSUME NEW p \in HTTPPorts, HTTPRun(p) \/ HTTPListener(p) \/ HTTPShutdown(p)
      PROVE  ActiveSame /\ Sessions' = Sessions
  <2>1. UNCHANGED <<total, perPort, req>>
    BY <1>1, Zenon DEF HTTPRun, HTTPListener, HTTPBind, HTTPNoBind, ServeClosed,
       HTTPShutdown, ShutdownCall, ShutdownDrained, ShutdownTimeout, stats
  <2> QED BY <2>1 DEF ActiveSame, Sessions
<1>2. ASSUME NEW r \in Request, WSOpen(r)
      PROVE  /\ r \in Request \ Sessions /\ WSConnect(ReqPort[r])
             /\ Sessions' = Sessions \cup {r}
  BY <1>2 DEF WSOpen, Sessions, HTTPTypeOK
<1>3. ASSUME NEW r \in Request, WSClose(r)
      PROVE  /\ r \in Sessions /\ WSDisconnect(ReqPort[r])
             /\ Sessions' = Sessions \ {r}
  BY <1>3 DEF WSClose, Sessions, HTTPTypeOK
<1>4. ASSUME NEW r \in Request, \/ HTTPAccept(r) \/ HTTPAbort(r) \/ LogMiddleware(r)
                                \/ RespondSimple(r) \/ RespondDownload(r) \/ Hijack(r)
      PROVE  ActiveSame /\ Sessions' = Sessions
  <2>1. \/ HTTPRequest(ReqPort[r]) \/ UNCHANGED stats
        \/ \E failed \in BOOLEAN : Download(ReqPort[r], failed)
    BY <1>4, Zenon DEF HTTPAccept, HTTPAbort, LogMiddleware, RespondSimple,
       RespondDownload, Hijack, contextVars
  <2>2. ActiveSame
    BY <2>1, ActiveUntouched
  <2>3. Sessions' = Sessions
    BY <1>4, HTTPAssumption DEF HTTPAccept, HTTPAbort, LogMiddleware, RespondSimple,
       RespondDownload, Hijack, Sessions, HTTPTypeOK, ReqState
  <2> QED BY <2>2, <2>3
<1> QED BY <1>1, <1>2, <1>3, <1>4, Zenon DEF HTTPNext, HTTPRequestStep

\* Of a set that gains or loses one element, the part that has a given port.
PartOf(S, port, p) == {x \in S : port[x] = p}

LEMMA PartGains ==
  ASSUME NEW S, IsFiniteSet(S), NEW T, T \subseteq S, NEW x \in S \ T, NEW port, NEW p
  PROVE  /\ Cardinality(PartOf(T, port, p)) \in Nat
         /\ Cardinality(PartOf(T \cup {x}, port, p)) =
              Cardinality(PartOf(T, port, p)) + (IF port[x] = p THEN 1 ELSE 0)
<1>1. PartOf(T, port, p) \subseteq S /\ x \notin PartOf(T, port, p)
  BY DEF PartOf
<1>2. IsFiniteSet(PartOf(T, port, p)) /\ Cardinality(PartOf(T, port, p)) \in Nat
  BY <1>1, FS_Subset, FS_CardinalityType
<1>3. CASE port[x] = p
  <2>1. PartOf(T \cup {x}, port, p) = PartOf(T, port, p) \cup {x}
    BY <1>3 DEF PartOf
  <2>2. Cardinality(PartOf(T, port, p) \cup {x}) = Cardinality(PartOf(T, port, p)) + 1
    BY <1>1, <1>2, FS_AddElement
  <2> QED BY <1>2, <1>3, <2>1, <2>2
<1>4. CASE port[x] # p
  <2>1. PartOf(T \cup {x}, port, p) = PartOf(T, port, p)
    BY <1>4 DEF PartOf
  <2> QED BY <1>2, <1>4, <2>1
<1> QED BY <1>3, <1>4

LEMMA PartLoses ==
  ASSUME NEW S, IsFiniteSet(S), NEW T, T \subseteq S, NEW x \in T, NEW port, NEW p
  PROVE  /\ Cardinality(PartOf(T, port, p)) \in Nat
         /\ Cardinality(PartOf(T \ {x}, port, p)) =
              Cardinality(PartOf(T, port, p)) - (IF port[x] = p THEN 1 ELSE 0)
         /\ port[x] = p => Cardinality(PartOf(T, port, p)) > 0
<1>1. PartOf(T, port, p) \subseteq S
  BY DEF PartOf
<1>2. IsFiniteSet(PartOf(T, port, p)) /\ Cardinality(PartOf(T, port, p)) \in Nat
  BY <1>1, FS_Subset, FS_CardinalityType
<1>3. CASE port[x] = p
  <2>1. PartOf(T \ {x}, port, p) = PartOf(T, port, p) \ {x} /\ x \in PartOf(T, port, p)
    BY <1>3 DEF PartOf
  <2>2. Cardinality(PartOf(T, port, p)) # 0
    BY <1>2, <2>1, FS_EmptySet
  <2>3. Cardinality(PartOf(T, port, p) \ {x}) = Cardinality(PartOf(T, port, p)) - 1
    BY <1>2, <2>1, FS_RemoveElement
  <2> QED BY <1>2, <1>3, <2>1, <2>2, <2>3
<1>4. CASE port[x] # p
  <2>1. PartOf(T \ {x}, port, p) = PartOf(T, port, p)
    BY <1>4 DEF PartOf
  <2> QED BY <1>2, <1>4, <2>1
<1> QED BY <1>3, <1>4

-----------------------------------------------------------------------------

\* TypeOK without the sign of wg, and the exact count, from which the sign
\* follows.
Typed ==
  ContextTyped /\ TCPTypeOK /\ UDPTypeOK /\ HTTPTypeOK /\ TLSTypeOK /\ MainTypeOK
Order == TCPOrder /\ UDPOrder /\ UDPBounded /\ HTTPOrder /\ TLSOrder
Inv == Typed /\ Order /\ WaitGroupExact

TrackedNat ==
  TCPTracked \in Nat /\ UDPTracked \in Nat /\ HTTPTracked \in Nat
    /\ TLSTracked \in Nat

LEMMA TrackedInNat == TrackedNat
<1>1. UDPTracked \in Nat
  BY PortFinite, FS_Subset, FS_CardinalityType DEF UDPTracked, UDPServing
<1> QED BY <1>1, TCPTracksFinite, HTTPTracksFinite, TLSTracksFinite
        DEF TrackedNat, TCPTracked, HTTPTracked, TLSTracked

LEMMA InvImpliesTypeOK == Inv => TypeOK
BY TrackedInNat DEF TrackedNat, Inv, Typed, TypeOK, ContextTyped, ContextTypeOK, WaitGroupExact

LEMMA InitEstablishesInv == Init => Inv
<1> SUFFICES ASSUME Init PROVE Inv
  OBVIOUS
<1>1. ContextTyped
  <2>1. StatsTypeOK
    BY DEF Init, ContextInit, StatsTypeOK, NewServerStats
  <2>2. ctxDone \in BOOLEAN
    BY Zenon DEF Init, ContextInit
  <2>3. wg \in Int /\ bound \subseteq Port
    BY DEF Init, ContextInit
  <2> QED BY <2>1, <2>2, <2>3 DEF ContextTyped
<1>2. TCPTypeOK /\ TCPOrder
  BY ConnAssumption DEF Init, TCPInit, TCPTypeOK, ConnState, TCPOrder
<1>3. UDPTypeOK /\ UDPOrder /\ UDPBounded
  BY MaxPacketsAssumption DEF Init, UDPInit, UDPTypeOK, UDPOrder, UDPBounded
<1>4. HTTPTypeOK /\ HTTPOrder
  BY DEF Init, HTTPInit, HTTPTypeOK, ReqState, HTTPOrder
<1>5. TLSTypeOK /\ TLSOrder
  BY DEF Init, TLSInit, TLSTypeOK, TLSOrder
<1>6. MainTypeOK
  BY DEF Init, MainTypeOK, Starting
<1>7. WaitGroupExact
  <2>1. TCPServing = {} /\ TCPHandlers = {}
    BY DEF Init, TCPInit, TCPServing, TCPHandlers
  <2>2. UDPServing = {}
    BY DEF Init, UDPInit, UDPServing
  <2>3. HTTPServing = {} /\ HTTPClosers = {}
    BY DEF Init, HTTPInit, HTTPServing, HTTPClosers
  <2>4. TLSLoops = {} /\ TLSHandlers = {}
    BY DEF Init, TLSInit, TLSLoops, TLSHandlers
  <2> QED BY <2>1, <2>2, <2>3, <2>4, FS_EmptySet
          DEF Init, ContextInit, WaitGroupExact, TCPTracked, UDPTracked,
              HTTPTracked, TLSTracked
<1> QED BY <1>1, <1>2, <1>3, <1>4, <1>5, <1>6, <1>7 DEF Inv, Typed, Order

-----------------------------------------------------------------------------
\* What each component needs of a step of another one: nothing of its own
\* changes, so neither its types, nor its order, nor its count.
LEMMA TCPUntouched ==
  ASSUME UNCHANGED tcpVars
  PROVE  (TCPTypeOK' <=> TCPTypeOK) /\ (TCPOrder' <=> TCPOrder)
           /\ TCPTracked' = TCPTracked
BY DEF tcpVars, TCPTypeOK, TCPOrder, TCPTracked, TCPServing, TCPHandlers

LEMMA UDPUntouched ==
  ASSUME UNCHANGED udpVars
  PROVE  (UDPTypeOK' <=> UDPTypeOK) /\ (UDPOrder' <=> UDPOrder)
           /\ (UDPBounded' <=> UDPBounded) /\ UDPTracked' = UDPTracked
BY DEF udpVars, UDPTypeOK, UDPOrder, UDPBounded, UDPTracked, UDPServing

LEMMA HTTPUntouched ==
  ASSUME UNCHANGED httpVars
  PROVE  (HTTPTypeOK' <=> HTTPTypeOK) /\ (HTTPOrder' <=> HTTPOrder)
           /\ HTTPTracked' = HTTPTracked
BY DEF httpVars, HTTPTypeOK, HTTPOrder, HTTPTracked, HTTPServing, HTTPClosers

LEMMA TLSUntouched ==
  ASSUME UNCHANGED tlsVars
  PROVE  (TLSTypeOK' <=> TLSTypeOK) /\ (TLSOrder' <=> TLSOrder)
           /\ TLSTracked' = TLSTracked
BY DEF tlsVars, TLSTypeOK, TLSOrder, TLSTracked, TLSLoops, TLSHandlers

\* A step of one component, whoever takes it.
LEMMA TCPPart ==
  ASSUME Inv, MainTypeOK', UNCHANGED <<udpVars, httpVars, tlsVars>>,
         TCPNext \/ \E p \in Port : TCPListen(p)
  PROVE  Inv'
<1>1. ContextTyped' /\ TCPTypeOK' /\ TCPOrder'
  BY TCPPreservesTypes DEF Inv, Typed, Order
<1>2. wg' = wg + (TCPTracked' - TCPTracked)
  BY TCPCounts DEF Inv, Typed, Order
<1>3. WaitGroupExact'
  <2>1. UDPTracked' = UDPTracked /\ HTTPTracked' = HTTPTracked /\ TLSTracked' = TLSTracked
    BY UDPUntouched, HTTPUntouched, TLSUntouched
  <2>2. wg \in Int /\ wg' \in Int
    BY <1>1 DEF Inv, Typed, ContextTyped
  <2>3. TrackedNat /\ TrackedNat'
    BY TrackedInNat, PTL
  <2>4. wg = TCPTracked + UDPTracked + HTTPTracked + TLSTracked
    BY DEF Inv, WaitGroupExact
  <2>5. wg' = TCPTracked' + UDPTracked' + HTTPTracked' + TLSTracked'
    BY ONLY <1>2, <2>1, <2>2, <2>3, <2>4 DEF TrackedNat
  <2> QED BY <2>5 DEF WaitGroupExact
<1> QED BY <1>1, <1>3, UDPUntouched, HTTPUntouched, TLSUntouched
        DEF Inv, Typed, Order

LEMMA UDPPart ==
  ASSUME Inv, MainTypeOK', UNCHANGED <<tcpVars, httpVars, tlsVars>>,
         UDPNext \/ \E p \in Port : UDPListen(p)
  PROVE  Inv'
<1>1. ContextTyped' /\ UDPTypeOK' /\ UDPOrder' /\ UDPBounded'
  BY UDPPreservesTypes DEF Inv, Typed, Order
<1>2. wg' = wg + (UDPTracked' - UDPTracked)
  BY UDPCounts DEF Inv, Typed, Order
<1>3. WaitGroupExact'
  <2>1. TCPTracked' = TCPTracked /\ HTTPTracked' = HTTPTracked /\ TLSTracked' = TLSTracked
    BY TCPUntouched, HTTPUntouched, TLSUntouched
  <2>2. wg \in Int /\ wg' \in Int
    BY <1>1 DEF Inv, Typed, ContextTyped
  <2>3. TrackedNat /\ TrackedNat'
    BY TrackedInNat, PTL
  <2>4. wg = TCPTracked + UDPTracked + HTTPTracked + TLSTracked
    BY DEF Inv, WaitGroupExact
  <2>5. wg' = TCPTracked' + UDPTracked' + HTTPTracked' + TLSTracked'
    BY ONLY <1>2, <2>1, <2>2, <2>3, <2>4 DEF TrackedNat
  <2> QED BY <2>5 DEF WaitGroupExact
<1> QED BY <1>1, <1>3, TCPUntouched, HTTPUntouched, TLSUntouched
        DEF Inv, Typed, Order

LEMMA HTTPPart ==
  ASSUME Inv, MainTypeOK', UNCHANGED <<tcpVars, udpVars, tlsVars>>,
         HTTPNext \/ \E p \in HTTPPorts : HTTPRun(p)
  PROVE  Inv'
<1>1. ContextTyped' /\ HTTPTypeOK' /\ HTTPOrder'
  BY HTTPPreservesTypes DEF Inv, Typed, Order
<1>2. wg' = wg + (HTTPTracked' - HTTPTracked)
  BY HTTPCounts DEF Inv, Typed, Order
<1>3. WaitGroupExact'
  <2>1. TCPTracked' = TCPTracked /\ UDPTracked' = UDPTracked /\ TLSTracked' = TLSTracked
    BY TCPUntouched, UDPUntouched, TLSUntouched
  <2>2. wg \in Int /\ wg' \in Int
    BY <1>1 DEF Inv, Typed, ContextTyped
  <2>3. TrackedNat /\ TrackedNat'
    BY TrackedInNat, PTL
  <2>4. wg = TCPTracked + UDPTracked + HTTPTracked + TLSTracked
    BY DEF Inv, WaitGroupExact
  <2>5. wg' = TCPTracked' + UDPTracked' + HTTPTracked' + TLSTracked'
    BY ONLY <1>2, <2>1, <2>2, <2>3, <2>4 DEF TrackedNat
  <2> QED BY <2>5 DEF WaitGroupExact
<1> QED BY <1>1, <1>3, TCPUntouched, UDPUntouched, TLSUntouched
        DEF Inv, Typed, Order

LEMMA TLSPart ==
  ASSUME Inv, MainTypeOK', UNCHANGED <<tcpVars, udpVars, httpVars>>,
         TLSStepOrListen
  PROVE  Inv'
<1>1. ContextTyped' /\ TLSTypeOK' /\ TLSOrder'
  BY TLSPreservesTypes DEF Inv, Typed, Order
<1>2. wg' = wg + (TLSTracked' - TLSTracked)
  BY TLSCounts DEF Inv, Typed, Order
<1>3. WaitGroupExact'
  <2>1. TCPTracked' = TCPTracked /\ UDPTracked' = UDPTracked /\ HTTPTracked' = HTTPTracked
    BY TCPUntouched, UDPUntouched, HTTPUntouched
  <2>2. wg \in Int /\ wg' \in Int
    BY <1>1 DEF Inv, Typed, ContextTyped
  <2>3. TrackedNat /\ TrackedNat'
    BY TrackedInNat, PTL
  <2>4. wg = TCPTracked + UDPTracked + HTTPTracked + TLSTracked
    BY DEF Inv, WaitGroupExact
  <2>5. wg' = TCPTracked' + UDPTracked' + HTTPTracked' + TLSTracked'
    BY ONLY <1>2, <2>1, <2>2, <2>3, <2>4 DEF TrackedNat
  <2> QED BY <2>5 DEF WaitGroupExact
<1> QED BY <1>1, <1>3, TCPUntouched, UDPUntouched, HTTPUntouched
        DEF Inv, Typed, Order

\* A step of main or of the environment that touches no component.
LEMMA NoPart ==
  ASSUME Inv, MainTypeOK', ctxDone' \in BOOLEAN,
         UNCHANGED <<wg, bound, stats, tcpVars, udpVars, httpVars, tlsVars>>
  PROVE  Inv'
<1>1. ContextTyped'
  BY DEF Inv, Typed, ContextTyped, StatsTypeOK, stats
<1>2. WaitGroupExact'
  <2>1. wg' = wg
    OBVIOUS
  <2>2. /\ TCPTracked' = TCPTracked /\ UDPTracked' = UDPTracked
        /\ HTTPTracked' = HTTPTracked /\ TLSTracked' = TLSTracked
    BY TCPUntouched, UDPUntouched, HTTPUntouched, TLSUntouched
  <2> QED BY <2>1, <2>2 DEF Inv, WaitGroupExact
<1> QED BY <1>1, <1>2, TCPUntouched, UDPUntouched, HTTPUntouched, TLSUntouched
        DEF Inv, Typed, Order

LEMMA MainPreservesInv == Inv /\ MainNext => Inv'
<1> SUFFICES ASSUME Inv, MainNext PROVE Inv'
  OBVIOUS
<1>d. tcpPorts \subseteq Nat /\ udpPorts \subseteq Nat
  BY ServerConfigAssumption DEF tcpPorts, udpPorts, withoutPort
<1>t. MainTypeOK'
  <2> USE DEF MainTypeOK, Starting
  <2>0. MainTypeOK
    BY DEF Inv, Typed
  <2>1. CASE StartTCPPort
    BY <2>0, <2>1, <1>d DEF StartTCPPort
  <2>2. CASE StartUDPPort
    BY <2>0, <2>2, <1>d DEF StartUDPPort
  <2>3. CASE ListenFails \/ RunReturns
    BY <2>0, <2>3 DEF ListenFails, RunReturns
  <2>4. CASE StartHTTP \/ StartWebSocket \/ StartTLS
    BY <2>0, <2>4 DEF StartHTTP, StartWebSocket, StartTLS
  <2>5. CASE SignalReceived \/ WaitReturns \/ MainReturns
    BY <2>0, <2>5 DEF SignalReceived, WaitReturns, MainReturns
  <2> QED BY <2>1, <2>2, <2>3, <2>4, <2>5 DEF MainNext
<1>1. CASE StartTCPPort
  <2>1. \E p \in Port : TCPListen(p)
    BY <1>1, ServerConfigAssumption DEF StartTCPPort, tcpPorts, withoutPort
  <2> QED BY <1>1, <1>t, <2>1, TCPPart DEF StartTCPPort
<1>2. CASE StartUDPPort
  <2>1. \E p \in Port : UDPListen(p)
    BY <1>2, ServerConfigAssumption DEF StartUDPPort, udpPorts
  <2> QED BY <1>2, <1>t, <2>1, UDPPart DEF StartUDPPort
<1>3. ASSUME UNCHANGED <<contextVars, tcpVars, udpVars, httpVars, tlsVars>>
      PROVE  Inv'
  <2>1. ctxDone' \in BOOLEAN
    BY <1>3 DEF Inv, Typed, ContextTyped, contextVars
  <2> QED BY <1>3, <1>t, <2>1, NoPart DEF contextVars
<1>4. CASE StartHTTP
  <2>1. CASE HTTPPort > 0
    <3>1. HTTPPort \in HTTPPorts
      BY <2>1, ServerConfigAssumption
    <3> QED BY <1>4, <1>t, <2>1, <3>1, HTTPPart DEF StartHTTP
  <2>2. CASE ~(HTTPPort > 0)
    BY <1>4, <1>3, <2>2 DEF StartHTTP
  <2> QED BY <2>1, <2>2
<1>5. CASE StartWebSocket
  <2>1. CASE WebSocketPort > 0 /\ WebSocketPort # HTTPPort
    <3>1. WebSocketPort \in HTTPPorts
      BY <2>1, ServerConfigAssumption
    <3> QED BY <1>5, <1>t, <2>1, <3>1, HTTPPart DEF StartWebSocket
  <2>2. CASE ~(WebSocketPort > 0 /\ WebSocketPort # HTTPPort)
    BY <1>5, <1>3, <2>2 DEF StartWebSocket
  <2> QED BY <2>1, <2>2
<1>6. CASE StartTLS
  <2>1. CASE TLSPort > 0 /\ TLSListen
    BY <1>6, <1>t, <2>1, TLSPart DEF StartTLS, TLSStepOrListen
  <2>2. CASE UNCHANGED <<tlsVars, contextVars>>
    BY <1>6, <1>3, <2>2 DEF StartTLS
  <2> QED BY <1>6, <2>1, <2>2 DEF StartTLS
<1>7. CASE ListenFails \/ RunReturns \/ SignalReceived \/ WaitReturns \/ MainReturns
  BY <1>7, <1>3 DEF ListenFails, RunReturns, SignalReceived, WaitReturns, MainReturns
<1> QED BY <1>1, <1>2, <1>4, <1>5, <1>6, <1>7 DEF MainNext

LEMMA NextPreservesInv == Inv /\ [Next]_vars => Inv'
<1> SUFFICES ASSUME Inv, [Next]_vars PROVE Inv'
  OBVIOUS
<1>m. UNCHANGED mainVars => MainTypeOK'
  BY DEF Inv, Typed, mainVars, MainTypeOK
<1>1. CASE MainNext
  BY <1>1, MainPreservesInv
<1>2. CASE TCPStep
  BY <1>2, <1>m, TCPPart DEF TCPStep
<1>3. CASE UDPStep
  BY <1>3, <1>m, UDPPart DEF UDPStep
<1>4. CASE HTTPStep
  BY <1>4, <1>m, HTTPPart DEF HTTPStep
<1>5. CASE TLSStep
  BY <1>5, <1>m, TLSPart DEF TLSStep, TLSStepOrListen
<1>6. CASE SignalStep
  BY <1>6, <1>m, NoPart DEF SignalStep, Signal
<1>7. CASE Ended \/ UNCHANGED vars
  <2>1. UNCHANGED <<contextVars, tcpVars, udpVars, httpVars, tlsVars, mainVars>>
    BY <1>7 DEF Ended, vars
  <2>2. ctxDone' \in BOOLEAN
    BY <2>1 DEF Inv, Typed, ContextTyped, contextVars
  <2> QED BY <2>1, <2>2, <1>m, NoPart DEF contextVars
<1> QED BY <1>1, <1>2, <1>3, <1>4, <1>5, <1>6, <1>7 DEF Next

LEMMA Invariance == Spec => []Inv
BY InitEstablishesInv, NextPreservesInv, PTL DEF Spec

\* Every variable keeps its type; in particular the counter of the WaitGroup
\* never becomes negative, where sync.WaitGroup panics.
THEOREM TypeCorrect == Spec => []TypeOK
BY Invariance, InvImpliesTypeOK, PTL

\* The WaitGroup counts exactly the goroutines that will call Done.
THEOREM WaitGroupCounts == Spec => []WaitGroupExact
<1>1. Inv => WaitGroupExact
  BY DEF Inv
<1> QED BY Invariance, <1>1, PTL

-----------------------------------------------------------------------------
\* A counter of zero means that no goroutine is left, in whatever component.
LEMMA ZeroMeansIdle ==
  ASSUME WaitGroupExact, wg = 0
  PROVE  TCPIdle /\ UDPIdle /\ HTTPIdle /\ TLSIdle
<1>1. /\ Cardinality(TCPServing) = 0 /\ Cardinality(TCPHandlers) = 0
      /\ Cardinality(UDPServing) = 0
      /\ Cardinality(HTTPServing) = 0 /\ Cardinality(HTTPClosers) = 0
      /\ Cardinality(TLSLoops) = 0 /\ Cardinality(TLSHandlers) = 0
  <2>1. Cardinality(UDPServing) \in Nat
    BY PortFinite, FS_Subset, FS_CardinalityType DEF UDPServing
  <2> QED BY <2>1, TCPTracksFinite, HTTPTracksFinite, TLSTracksFinite
          DEF WaitGroupExact, TCPTracked, UDPTracked, HTTPTracked, TLSTracked
<1>3. TCPIdle
  BY <1>1, TCPTracksFinite, FS_EmptySet DEF TCPIdle
<1>4. UDPIdle
  BY <1>1, PortFinite, FS_Subset, FS_EmptySet DEF UDPIdle, UDPServing
<1>5. HTTPIdle
  BY <1>1, HTTPTracksFinite, FS_Subset, FS_EmptySet
     DEF HTTPIdle, HTTPServing, HTTPClosers
<1>6. TLSIdle
  BY <1>1, TLSTracksFinite, TLSAssumption, FS_Subset, FS_EmptySet
     DEF TLSIdle, TLSLoops, TLSHandlers
<1> QED BY <1>3, <1>4, <1>5, <1>6

\* Once main has stopped starting listeners, a counter of zero stays zero.
LEMMA ZeroStays ==
  ASSUME Inv, [Next]_vars, wg = 0, main \notin Starting
  PROVE  wg' = 0
<1>i. TCPIdle /\ UDPIdle /\ HTTPIdle /\ TLSIdle
  BY ZeroMeansIdle DEF Inv
<1>1. CASE MainNext
  BY <1>1 DEF MainNext, Starting, StartTCPPort, StartUDPPort, ListenFails,
       RunReturns, StartHTTP, StartWebSocket, StartTLS, SignalReceived,
       WaitReturns, MainReturns, contextVars
<1>2. CASE TCPStep
  BY <1>2, <1>i, TCPIdleKeepsCount DEF TCPStep, Inv, Typed
<1>3. CASE UDPStep
  BY <1>3, <1>i, UDPIdleKeepsCount DEF UDPStep
<1>4. CASE HTTPStep
  BY <1>4, <1>i, HTTPIdleKeepsCount DEF HTTPStep
<1>5. CASE TLSStep
  BY <1>5, <1>i, TLSIdleKeepsCount DEF TLSStep
<1>6. CASE SignalStep \/ Ended \/ UNCHANGED vars
  BY <1>6 DEF SignalStep, Ended, vars, contextVars
<1> QED BY <1>1, <1>2, <1>3, <1>4, <1>5, <1>6 DEF Next

\* WaitGroup.Add never lifts the counter from zero after Wait may have been
\* called, although handlers are added while main waits.
THEOREM AddOnlyBeforeWait == Spec => AddBeforeWait
<1>1. Inv /\ [Next]_vars => [wg = 0 /\ wg' # 0 => main \in Starting]_vars
  BY ZeroStays
<1> QED BY Invariance, <1>1, PTL DEF Spec, AddBeforeWait

-----------------------------------------------------------------------------
\* What holds besides Inv when main has returned from its wait.
Stopped == main \in {"stopped", "exited"} => wg = 0
StopInv == Inv /\ Stopped /\ TCPGauge /\ HTTPOwned

LEMMA InitEstablishesStopInv == Init => StopInv
<1> SUFFICES ASSUME Init PROVE StopInv
  OBVIOUS
<1>1. Inv
  BY InitEstablishesInv
<1>2. Stopped
  BY DEF Init, Stopped
<1>3. TCPGauge
  <2>1. TCPRecorded = {}
    BY DEF Init, TCPInit, TCPRecorded
  <2>2. total["activeTCP"] = 0
    BY DEF Init, ContextInit, NewServerStats, Counter
  <2> QED BY <2>1, <2>2, FS_EmptySet DEF TCPGauge
<1>4. HTTPOwned
  BY DEF Init, HTTPInit, HTTPOwned, InFlight
<1> QED BY <1>1, <1>2, <1>3, <1>4 DEF StopInv

LEMMA NextPreservesStopped == Inv /\ Stopped /\ [Next]_vars => Stopped'
<1> SUFFICES ASSUME Inv, Stopped, [Next]_vars PROVE Stopped'
  OBVIOUS
<1>1. CASE main \in {"stopped", "exited"}
  BY <1>1, ZeroStays DEF Stopped, Starting
<1>2. CASE main \notin {"stopped", "exited"}
  <2>1. CASE MainNext
    BY <2>1, <1>2 DEF Stopped, MainNext, StartTCPPort, StartUDPPort,
         ListenFails, RunReturns, StartHTTP, StartWebSocket, StartTLS,
         SignalReceived, WaitReturns, MainReturns, contextVars
  <2>2. CASE TCPStep \/ UDPStep \/ HTTPStep \/ TLSStep \/ SignalStep \/ Ended
             \/ UNCHANGED vars
    BY <2>2, <1>2 DEF Stopped, TCPStep, UDPStep, HTTPStep, TLSStep, SignalStep,
         Ended, vars, mainVars
  <2> QED BY <2>1, <2>2 DEF Next
<1> QED BY <1>1, <1>2

LEMMA NextPreservesGauge == Inv /\ TCPGauge /\ [Next]_vars => TCPGauge'
<1> SUFFICES ASSUME Inv, TCPGauge, [Next]_vars PROVE TCPGauge'
  OBVIOUS
<1>t. ContextTyped /\ TCPTypeOK /\ StatsTypeOK
  BY DEF Inv, Typed, ContextTyped
<1>s. ASSUME UNCHANGED conn, total'["activeTCP"] = total["activeTCP"]
      PROVE  TCPGauge'
  BY <1>s DEF TCPGauge, TCPRecorded
<1>1. ASSUME TCPNext \/ \E p \in Port : TCPListen(p)
      PROVE  TCPGauge'
  BY <1>1, <1>t, TCPPreservesGauge
<1>2. CASE StartTCPPort
  <2>1. \E p \in Port : TCPListen(p)
    BY <1>2, ServerConfigAssumption DEF StartTCPPort, tcpPorts, withoutPort
  <2> QED BY <2>1, <1>1
<1>3. CASE MainNext /\ ~StartTCPPort
  <2>1. UNCHANGED stats /\ UNCHANGED tcpVars
    BY <1>3 DEF MainNext, StartUDPPort, UDPListen, ListenFails, RunReturns,
         StartHTTP, StartWebSocket, HTTPRun, StartTLS, TLSListen,
         SignalReceived, WaitReturns, MainReturns, contextVars
  <2> QED BY <2>1, <1>s DEF stats, tcpVars
<1>4. CASE TCPStep
  BY <1>4, <1>1 DEF TCPStep
<1>5. CASE UDPStep
  <2>1. UNCHANGED stats \/ \E p \in Port : UDPPacket(p)
    BY <1>5 DEF UDPStep, UDPNext, UDPCloseSocket, UDPEcho, UDPReturn, UDPArrive,
         contextVars
  <2>2. total'["activeTCP"] = total["activeTCP"]
    BY <2>1, <1>t, GaugeUntouched DEF stats
  <2> QED BY <1>5, <2>2, <1>s DEF UDPStep, tcpVars
<1>6. CASE HTTPStep
  <2>1. \/ UNCHANGED stats
        \/ \E r \in Request, failed \in BOOLEAN :
              \/ HTTPRequest(ReqPort[r]) \/ Download(ReqPort[r], failed)
              \/ WSConnect(ReqPort[r]) \/ WSDisconnect(ReqPort[r])
    BY <1>6 DEF HTTPStep, HTTPNext, HTTPListener, HTTPBind, HTTPNoBind,
         ServeClosed, HTTPShutdown, ShutdownCall, ShutdownDrained,
         ShutdownTimeout, HTTPRequestStep, HTTPAccept, HTTPAbort, LogMiddleware,
         RespondSimple, RespondDownload, Hijack, WSOpen, WSClose, contextVars
  <2>2. total'["activeTCP"] = total["activeTCP"]
    BY <2>1, <1>t, GaugeUntouched DEF stats
  <2> QED BY <1>6, <2>2, <1>s DEF HTTPStep, tcpVars
<1>7. CASE TLSStep
  <2>1. UNCHANGED stats \/ TLSHandshake(TLSPort)
    BY <1>7 DEF TLSStep, TLSNext, TLSCloseListener, TLSServeReturn, TLSAccept,
         TLSHandle, HandshakeOK, HandshakeFail, Greet, TLSDone, TLSDial,
         contextVars
  <2>2. total'["activeTCP"] = total["activeTCP"]
    BY <2>1, <1>t, GaugeUntouched DEF stats
  <2> QED BY <1>7, <2>2, <1>s DEF TLSStep, tcpVars
<1>8. CASE SignalStep \/ Ended \/ UNCHANGED vars
  BY <1>8, <1>s DEF SignalStep, Ended, vars, contextVars, stats, tcpVars
<1> QED BY <1>2, <1>3, <1>4, <1>5, <1>6, <1>7, <1>8 DEF Next

LEMMA NextPreservesOwned == Inv /\ HTTPOwned /\ [Next]_vars => HTTPOwned'
<1> SUFFICES ASSUME Inv, HTTPOwned, [Next]_vars PROVE HTTPOwned'
  OBVIOUS
<1>1. ASSUME HTTPNext \/ \E p \in HTTPPorts : HTTPRun(p)
      PROVE  HTTPOwned'
  BY <1>1, HTTPPreservesOwned DEF Inv, Typed, Order
<1>2. ASSUME UNCHANGED httpVars
      PROVE  HTTPOwned'
  BY <1>2 DEF httpVars, HTTPOwned, InFlight
<1>3. CASE StartHTTP \/ StartWebSocket
  BY <1>1, <1>2, <1>3, ServerConfigAssumption DEF StartHTTP, StartWebSocket
<1>4. CASE MainNext /\ ~StartHTTP /\ ~StartWebSocket
  BY <1>2, <1>4 DEF MainNext, StartTCPPort, StartUDPPort, ListenFails,
       RunReturns, StartTLS, SignalReceived, WaitReturns, MainReturns
<1>5. CASE HTTPStep
  BY <1>5, <1>1 DEF HTTPStep
<1>6. CASE TCPStep \/ UDPStep \/ TLSStep \/ SignalStep \/ Ended \/ UNCHANGED vars
  BY <1>6, <1>2 DEF TCPStep, UDPStep, TLSStep, SignalStep, Ended, vars
<1> QED BY <1>3, <1>4, <1>5, <1>6 DEF Next

LEMMA StopInvImpliesStoppedQuiet == StopInv => StoppedQuiet
<1> SUFFICES ASSUME StopInv, main \in {"stopped", "exited"}
             PROVE  /\ TCPServing = {} /\ TCPHandlers = {}
                    /\ UDPServing = {}
                    /\ TLSLoops = {} /\ TLSHandlers = {}
                    /\ total["activeTCP"] = 0
                    /\ \A r \in InFlight : hshut[ReqPort[r]] = "timedout"
  BY DEF StoppedQuiet
<1>1. TCPIdle /\ UDPIdle /\ HTTPIdle /\ TLSIdle
  BY ZeroMeansIdle DEF StopInv, Inv, Stopped
<1>2. TCPRecorded = {}
  BY <1>1 DEF TCPIdle, TCPRecorded, TCPHandlers
<1>3. total["activeTCP"] = 0
  BY <1>2, FS_EmptySet DEF StopInv, TCPGauge
<1>4. ASSUME NEW r \in InFlight
      PROVE  hshut[ReqPort[r]] = "timedout"
  BY <1>1, <1>4, HTTPAssumption
     DEF StopInv, HTTPOwned, HTTPIdle, HTTPClosers, InFlight
<1> QED BY <1>1, <1>3, <1>4 DEF TCPIdle, UDPIdle, TLSIdle

\* When main returns from its wait no accept loop and no TCP or TLS handler
\* runs, the gauge of TCP connections is zero, and a request net/http still
\* owns is one whose Shutdown timed out.
THEOREM StopIsQuiet == Spec => []StoppedQuiet
<1>1. StopInv /\ [Next]_vars => StopInv'
  BY NextPreservesInv, NextPreservesStopped, NextPreservesGauge,
     NextPreservesOwned DEF StopInv
<1> QED BY InitEstablishesStopInv, <1>1, StopInvImpliesStoppedQuiet, PTL DEF Spec

-----------------------------------------------------------------------------
\* The bound ports are those of the listeners, and no two kinds share one.
Shared(B, S, T, U) ==
  /\ B = S \cup T \cup U
  /\ S \cap T = {} /\ S \cap U = {} /\ T \cap U = {}
Owned == Shared(bound, TCPOwns, HTTPOwns, TLSOwns) /\ TLSHeld

LEMMA SharedOrder ==
  ASSUME NEW B, NEW S, NEW T, NEW U, Shared(B, S, T, U)
  PROVE  Shared(B, T, S, U) /\ Shared(B, U, S, T) /\ Shared(B, T, U, S)
BY DEF Shared

\* A step of one of them.
LEMMA MovedShares ==
  ASSUME NEW S, NEW T, NEW U, NEW N, Shared(bound, S, T, U), Moved(S, N)
  PROVE  Shared(bound', N, T, U)
BY DEF Shared, Moved

LEMMA OwnersUntouched ==
  /\ UNCHANGED tcpVars => TCPOwns' = TCPOwns
  /\ UNCHANGED httpVars => HTTPOwns' = HTTPOwns
  /\ UNCHANGED tlsVars => TLSOwns' = TLSOwns /\ TLSHeld' = TLSHeld
<1>1. UNCHANGED tcpVars => TCPOwns' = TCPOwns
  BY DEF tcpVars, TCPOwns
<1>2. UNCHANGED httpVars => HTTPOwns' = HTTPOwns
  BY DEF httpVars, HTTPOwns
<1>3. ASSUME UNCHANGED tlsVars PROVE TLSOwns' = TLSOwns /\ TLSHeld' = TLSHeld
  <2>1. UNCHANGED <<tlistener, tcloser>>
    BY <1>3 DEF tlsVars
  <2> QED BY <2>1 DEF TLSOwns, TLSHeld
<1> QED BY <1>1, <1>2, <1>3

LEMMA InitEstablishesOwned == Init => Owned
<1> SUFFICES ASSUME Init PROVE Owned
  OBVIOUS
<1>1. bound = {} /\ TCPOwns = {} /\ HTTPOwns = {} /\ TLSOwns = {} /\ TLSHeld
  BY DEF Init, ContextInit, TCPInit, HTTPInit, TLSInit, TCPOwns, HTTPOwns, TLSOwns, TLSHeld
<1> QED BY <1>1 DEF Owned, Shared

LEMMA NextPreservesOwners == Inv /\ Owned /\ [Next]_vars => Owned'
<1> SUFFICES ASSUME Inv, Owned, [Next]_vars PROVE Owned'
  OBVIOUS
<1>o. Shared(bound, TCPOwns, HTTPOwns, TLSOwns) /\ TLSHeld
  BY DEF Owned
<1>t. TCPTypeOK /\ HTTPTypeOK /\ TLSTypeOK /\ HTTPOrder /\ bound \subseteq Port
  BY Zenon DEF Inv, Typed, Order, ContextTyped
<1>1. ASSUME TCPNext \/ (\E p \in Port : TCPListen(p)), UNCHANGED <<httpVars, tlsVars>>
      PROVE  Owned'
  <2>1. HTTPOwns' = HTTPOwns /\ TLSOwns' = TLSOwns /\ TLSHeld' = TLSHeld
    BY <1>1, OwnersUntouched, Zenon
  <2>2. Moved(TCPOwns, TCPOwns')
    BY <1>1, <1>t, TCPMoves, Zenon
  <2>3. Shared(bound', TCPOwns', HTTPOwns, TLSOwns)
    BY <1>o, <2>2, MovedShares
  <2> QED BY <1>o, <2>1, <2>3, Zenon DEF Owned
<1>2. ASSUME HTTPNext \/ (\E p \in HTTPPorts : HTTPRun(p)), UNCHANGED <<tcpVars, tlsVars>>
      PROVE  Owned'
  <2>1. TCPOwns' = TCPOwns /\ TLSOwns' = TLSOwns /\ TLSHeld' = TLSHeld
    BY <1>2, OwnersUntouched, Zenon
  <2>2. Moved(HTTPOwns, HTTPOwns')
    BY <1>2, <1>t, HTTPMoves, Zenon
  <2>3. Shared(bound', HTTPOwns', TCPOwns, TLSOwns)
    BY <1>o, <2>2, SharedOrder, MovedShares
  <2>4. Shared(bound', TCPOwns, HTTPOwns', TLSOwns)
    BY <2>3, SharedOrder
  <2> QED BY <1>o, <2>1, <2>4, Zenon DEF Owned
<1>3. ASSUME TLSStepOrListen, UNCHANGED <<tcpVars, httpVars>>
      PROVE  Owned'
  <2>1. TCPOwns' = TCPOwns /\ HTTPOwns' = HTTPOwns
    BY <1>3, OwnersUntouched, Zenon
  <2>2. Moved(TLSOwns, TLSOwns') /\ TLSHeld'
    BY <1>3, <1>o, <1>t, TLSMoves, Zenon
  <2>3. Shared(bound', TLSOwns', TCPOwns, HTTPOwns)
    BY <1>o, <2>2, SharedOrder, MovedShares
  <2>4. Shared(bound', TCPOwns, HTTPOwns, TLSOwns')
    BY <2>3, SharedOrder
  <2> QED BY <2>1, <2>2, <2>4, Zenon DEF Owned
<1>4. ASSUME UNCHANGED <<bound, tcpVars, httpVars, tlsVars>>
      PROVE  Owned'
  <2>1. /\ bound' = bound /\ TCPOwns' = TCPOwns /\ HTTPOwns' = HTTPOwns
        /\ TLSOwns' = TLSOwns /\ TLSHeld' = TLSHeld
    BY <1>4, OwnersUntouched, Zenon
  <2> QED BY <1>o, <2>1, Zenon DEF Owned
<1>5. CASE StartTCPPort
  <2>1. (\E p \in Port : TCPListen(p)) /\ UNCHANGED <<httpVars, tlsVars>>
    BY <1>5, ServerConfigAssumption DEF StartTCPPort, tcpPorts, withoutPort
  <2> QED BY <1>1, <2>1, Zenon
<1>6. CASE StartUDPPort
  BY <1>4, <1>6, Zenon DEF StartUDPPort, UDPListen
<1>7. CASE StartHTTP \/ StartWebSocket
  <2>1. /\ UNCHANGED <<tcpVars, tlsVars>>
        /\ \/ \E p \in HTTPPorts : HTTPRun(p)
           \/ UNCHANGED <<bound, httpVars>>
    BY <1>7, ServerConfigAssumption DEF StartHTTP, StartWebSocket, contextVars
  <2> QED BY <1>2, <1>4, <2>1, Zenon
<1>8. CASE StartTLS
  <2>1. /\ UNCHANGED <<tcpVars, httpVars>>
        /\ TLSStepOrListen \/ UNCHANGED <<bound, tlsVars>>
    BY <1>8, Zenon DEF StartTLS, TLSStepOrListen, contextVars
  <2> QED BY <1>3, <1>4, <2>1, Zenon
<1>9. CASE ListenFails \/ RunReturns \/ SignalReceived \/ WaitReturns \/ MainReturns
  BY <1>4, <1>9, Zenon DEF ListenFails, RunReturns, SignalReceived, WaitReturns,
     MainReturns, contextVars
<1>10. CASE TCPStep
  BY <1>1, <1>10, Zenon DEF TCPStep
<1>11. CASE UDPStep
  <2>1. bound' = bound
    BY <1>11, Zenon DEF UDPStep, UDPNext, UDPCloseSocket, UDPEcho, UDPReturn, UDPArrive,
       contextVars
  <2> QED BY <1>4, <1>11, <2>1, Zenon DEF UDPStep
<1>12. CASE HTTPStep
  BY <1>2, <1>12, Zenon DEF HTTPStep
<1>13. CASE TLSStep
  BY <1>3, <1>13, Zenon DEF TLSStep, TLSStepOrListen
<1>14. CASE SignalStep \/ Ended \/ UNCHANGED vars
  BY <1>4, <1>14, Zenon DEF SignalStep, Ended, vars, contextVars
<1> QED
  BY <1>5, <1>6, <1>7, <1>8, <1>9, <1>10, <1>11, <1>12, <1>13, <1>14, Zenon
     DEF Next, MainNext

LEMMA OwnedMeansOne == Owned => OnePortOneOwner
<1> SUFFICES ASSUME Owned, NEW p \in Port
             PROVE  Cardinality(Owners(p)) = (IF p \in bound THEN 1 ELSE 0)
  BY DEF OnePortOneOwner
<1>1. /\ "tcp" \in Owners(p) <=> p \in TCPOwns
      /\ "http" \in Owners(p) <=> p \in HTTPOwns
      /\ "tls" \in Owners(p) <=> p \in TLSOwns
      /\ Owners(p) \subseteq {"tcp", "http", "tls"}
  BY DEF Owners, TCPOwns, HTTPOwns, TLSOwns
<1>2. Shared(bound, TCPOwns, HTTPOwns, TLSOwns)
  BY DEF Owned
<1>3. CASE p \in bound
  <2>1. \E o \in {"tcp", "http", "tls"} : Owners(p) = {o}
    BY <1>1, <1>2, <1>3 DEF Shared
  <2> QED BY <1>3, <2>1, FS_Singleton
<1>4. CASE p \notin bound
  <2>1. Owners(p) = {}
    BY <1>1, <1>2, <1>4 DEF Shared
  <2> QED BY <1>4, <2>1, FS_EmptySet
<1> QED BY <1>3, <1>4

\* A TCP port has one listener, whatever the configuration gives to whom, and
\* closing one never takes the port from another (httpx/server.go:49).
THEOREM PortHasOneOwner == Spec => []OnePortOneOwner
<1>1. Init => Inv /\ Owned
  BY InitEstablishesInv, InitEstablishesOwned
<1>2. Inv /\ Owned /\ [Next]_vars => (Inv /\ Owned)'
  BY NextPreservesInv, NextPreservesOwners
<1>3. Inv /\ Owned => OnePortOneOwner
  BY OwnedMeansOne
<1> QED BY <1>1, <1>2, <1>3, PTL DEF Spec

-----------------------------------------------------------------------------
\* What main has started by the time it is where it is.
BeyondTCP == {"udp", "http", "ws", "tls", "running", "stopping"}
BeyondUDP == BeyondTCP \ {"udp"}
BeyondHTTP == BeyondUDP \ {"http"}
BeyondWS == BeyondHTTP \ {"ws"}

TCPStarted ==
  /\ \A p \in Port : listener[p] # "none" => p # TLSPort
  /\ main = "tcp" => \A i \in tcpPorts : i <= last => listener[TCPPorts[i]] # "none"
  /\ main \in BeyondTCP => \A i \in tcpPorts : listener[TCPPorts[i]] # "none"
UDPStarted ==
  /\ main = "udp" => \A i \in udpPorts : i <= last => usock[UDPPorts[i]] # "none"
  /\ main \in BeyondUDP => \A i \in udpPorts : usock[UDPPorts[i]] # "none"
HTTPStarted ==
  /\ main \in BeyondHTTP /\ HTTPPort > 0 => hserve[HTTPPort] # "none"
  /\ main \in BeyondWS /\ WebSocketPort > 0 => hserve[WebSocketPort] # "none"
Started == TCPStarted /\ UDPStarted /\ HTTPStarted

LEMMA Positions ==
  /\ \A i \in tcpPorts : i \in Nat \ {0} /\ TCPPorts[i] \in Port /\ TCPPorts[i] # TLSPort
  /\ \A i \in udpPorts : i \in Nat \ {0} /\ UDPPorts[i] \in Port
BY ServerConfigAssumption DEF tcpPorts, udpPorts, withoutPort

\* No step takes back that a listener was started, and only main starts one.
LEMMA StaysStarted ==
  ASSUME Inv
  PROVE  /\ TCPNext => \A p \in Port : listener'[p] = "none" <=> listener[p] = "none"
         /\ UDPNext => \A p \in Port : usock[p] # "none" => usock'[p] # "none"
         /\ HTTPNext => \A p \in HTTPPorts : hserve[p] # "none" => hserve'[p] # "none"
<1>t. TCPTypeOK /\ UDPTypeOK /\ HTTPTypeOK
  BY Zenon DEF Inv, Typed
<1>1. ASSUME TCPNext PROVE \A p \in Port : listener'[p] = "none" <=> listener[p] = "none"
  <2>1. ASSUME NEW p \in Port, TCPCloseListener(p)
        PROVE  \A q \in Port : listener'[q] = "none" <=> listener[q] = "none"
    <3>1. listener[p] = "open" /\ listener' = [listener EXCEPT ![p] = "closed"]
      BY <2>1, Zenon DEF TCPCloseListener
    <3> QED BY <1>t, <3>1 DEF TCPTypeOK
  <2>2. ASSUME NEW p \in Port, ServeReturn(p) PROVE listener' = listener
    BY <2>2, Zenon DEF ServeReturn
  <2>3. ASSUME NEW c \in Conn, Accept(c) \/ Handle(c) \/ Peer(c) PROVE listener' = listener
    BY <2>3, Zenon DEF Accept, Handle, HandleStart, ReadEcho, WriteFail, ReadTimeout,
       ReadEOF, ReadError, HandleDisconnect, HandleDone, Peer, Dial, PeerSend,
       PeerClose, PeerReset
  <2> QED BY <1>1, <2>1, <2>2, <2>3, Zenon DEF TCPNext
<1>2. ASSUME UDPNext PROVE \A p \in Port : usock[p] # "none" => usock'[p] # "none"
  <2>1. PICK p \in Port : \/ UDPCloseSocket(p) \/ UDPEcho(p)
                          \/ UDPReturn(p) \/ UDPArrive(p)
    BY <1>2, Zenon DEF UDPNext
  <2>2. usock' = usock \/ usock' = [usock EXCEPT ![p] = "closed"]
    BY <2>1, Zenon DEF UDPCloseSocket, UDPEcho, UDPReturn, UDPArrive
  <2> QED BY <1>t, <2>2 DEF UDPTypeOK
<1>3. ASSUME HTTPNext
      PROVE  \A p \in HTTPPorts : hserve[p] # "none" => hserve'[p] # "none"
  <2>1. \/ hserve' = hserve
        \/ \E p \in HTTPPorts : \/ hserve' = [hserve EXCEPT ![p] = "serving"]
                                \/ hserve' = [hserve EXCEPT ![p] = "done"]
    BY <1>3, Zenon DEF HTTPNext, HTTPListener, HTTPBind, HTTPNoBind, ServeClosed,
       HTTPShutdown, ShutdownCall, ShutdownDrained, ShutdownTimeout, HTTPRequestStep,
       HTTPAccept, HTTPAbort, LogMiddleware, RespondSimple, RespondDownload, Hijack,
       WSOpen, WSClose
  <2> QED BY <1>t, <2>1 DEF HTTPTypeOK
<1> QED BY <1>1, <1>2, <1>3

LEMMA InitEstablishesStarted == Init => Started
BY Positions DEF Init, TCPInit, Started, TCPStarted, UDPStarted, HTTPStarted, BeyondTCP,
   BeyondUDP, BeyondHTTP, BeyondWS

\* A step of a listener, or of none.
LEMMA OthersKeepStarted ==
  ASSUME Inv, Started, UNCHANGED mainVars,
         \A p \in Port : listener'[p] = "none" <=> listener[p] = "none",
         \A p \in Port : usock[p] # "none" => usock'[p] # "none",
         \A p \in HTTPPorts : hserve[p] # "none" => hserve'[p] # "none"
  PROVE  Started'
<1>1. main' = main /\ last' = last
  BY DEF mainVars
<1>2. TCPStarted'
  BY <1>1, Positions DEF Started, TCPStarted
<1>3. UDPStarted'
  BY <1>1, Positions DEF Started, UDPStarted
<1>4. /\ HTTPPort > 0 => HTTPPort \in HTTPPorts
      /\ WebSocketPort > 0 => WebSocketPort \in HTTPPorts
  BY ServerConfigAssumption, PortFinite
<1>5. HTTPStarted'
  BY <1>1, <1>4 DEF Started, HTTPStarted
<1> QED BY <1>2, <1>3, <1>5 DEF Started

LEMMA MainKeepsStarted == Inv /\ Started /\ MainNext => Started'
<1> SUFFICES ASSUME Inv, Started, MainNext PROVE Started'
  OBVIOUS
<1>t. /\ listener \in [Port -> {"none", "open", "closed"}]
      /\ usock \in [Port -> {"none", "open", "closed"}]
      /\ hserve \in [HTTPPorts -> {"none", "starting", "serving", "done"}]
      /\ last \in Nat
  BY Zenon DEF Inv, Typed, TCPTypeOK, UDPTypeOK, HTTPTypeOK, MainTypeOK
<1>n. /\ HTTPPort > 0 => HTTPPort \in HTTPPorts
      /\ WebSocketPort > 0 => WebSocketPort \in HTTPPorts
  BY ServerConfigAssumption, PortFinite
<1> USE DEF Started, TCPStarted, UDPStarted, HTTPStarted, BeyondTCP, BeyondUDP,
            BeyondHTTP, BeyondWS
<1>1. CASE StartTCPPort
  <2>1. PICK i \in tcpPorts :
          /\ NextPort(tcpPorts, i) /\ last' = i
          /\ listener' = [listener EXCEPT ![TCPPorts[i]] = "open"]
    BY <1>1, Zenon DEF StartTCPPort, TCPListen
  <2>2. main = "tcp" /\ main' = main
    BY <1>1, Zenon DEF StartTCPPort
  <2>3. \A j \in tcpPorts : j <= i => j <= last \/ j = i
    BY <1>t, <2>1, Positions DEF NextPort
  <2>4. ASSUME NEW p \in Port, listener'[p] # "none" PROVE p # TLSPort
    BY <1>t, <2>1, <2>4, Positions
  <2>5. ASSUME NEW j \in tcpPorts, j <= last' PROVE listener'[TCPPorts[j]] # "none"
    BY <1>t, <2>1, <2>2, <2>3, <2>5, Positions
  <2> QED BY <2>2, <2>4, <2>5
<1>2. CASE StartUDPPort
  <2>1. PICK i \in udpPorts :
          /\ NextPort(udpPorts, i) /\ last' = i
          /\ usock' = [usock EXCEPT ![UDPPorts[i]] = "open"]
    BY <1>2, Zenon DEF StartUDPPort, UDPListen
  <2>2. main = "udp" /\ main' = main /\ listener' = listener
    BY <1>2, Zenon DEF StartUDPPort, tcpVars
  <2>3. \A j \in udpPorts : j <= i => j <= last \/ j = i
    BY <1>t, <2>1, Positions DEF NextPort
  <2>4. ASSUME NEW j \in udpPorts, j <= last' PROVE usock'[UDPPorts[j]] # "none"
    BY <1>t, <2>1, <2>2, <2>3, <2>4, Positions
  <2> QED BY <2>2, <2>4
<1>3. CASE ListenFails
  <2>1. main' = "fatal" /\ listener' = listener
    BY <1>3, Zenon DEF ListenFails, tcpVars
  <2> QED BY <2>1
<1>4. CASE RunReturns
  <2>1. /\ \/ main = "tcp" /\ LoopDone(tcpPorts) /\ main' = "udp"
           \/ main = "udp" /\ LoopDone(udpPorts) /\ main' = "http"
        /\ last' = 0 /\ listener' = listener /\ usock' = usock
    BY <1>4, Zenon DEF RunReturns, tcpVars, udpVars
  <2>2. \A i \in udpPorts : ~(i <= last')
    BY <2>1, Positions
  <2> QED BY <2>1, <2>2 DEF LoopDone
<1>5. CASE StartHTTP
  <2>1. /\ main = "http" /\ main' = "ws" /\ listener' = listener /\ usock' = usock
        /\ HTTPPort > 0 => hserve' = [hserve EXCEPT ![HTTPPort] = "starting"]
    BY <1>5, Zenon DEF StartHTTP, HTTPRun, tcpVars, udpVars
  <2> QED BY <1>t, <1>n, <2>1
<1>6. CASE StartWebSocket
  <2>1. /\ main = "ws" /\ main' = "tls" /\ listener' = listener /\ usock' = usock
        /\ IF WebSocketPort > 0 /\ WebSocketPort # HTTPPort
             THEN hserve' = [hserve EXCEPT ![WebSocketPort] = "starting"]
             ELSE hserve' = hserve
    BY <1>6, Zenon DEF StartWebSocket, HTTPRun, tcpVars, udpVars, httpVars
  <2> QED BY <1>t, <1>n, <2>1
<1>7. CASE StartTLS \/ SignalReceived \/ WaitReturns \/ MainReturns
  <2>1. /\ listener' = listener /\ usock' = usock /\ hserve' = hserve
        /\ \/ main = "tls" /\ main' = "running"
           \/ main = "running" /\ main' = "stopping"
           \/ main' \in {"stopped", "exited"}
    BY <1>7, Zenon DEF StartTLS, SignalReceived, WaitReturns, MainReturns, tcpVars,
       udpVars, httpVars
  <2> QED BY <2>1
<1> QED BY <1>1, <1>2, <1>3, <1>4, <1>5, <1>6, <1>7, Zenon DEF MainNext

LEMMA NextPreservesStarted == Inv /\ Started /\ [Next]_vars => Started'
<1> SUFFICES ASSUME Inv, Started, [Next]_vars PROVE Started'
  OBVIOUS
<1>1. CASE MainNext
  BY <1>1, MainKeepsStarted
<1>2. CASE TCPStep
  <2>1. UNCHANGED <<mainVars, usock, hserve>> /\ TCPNext
    BY <1>2, Zenon DEF TCPStep, udpVars, httpVars
  <2> QED BY <2>1, StaysStarted, OthersKeepStarted, Zenon
<1>3. CASE UDPStep
  <2>1. UNCHANGED <<mainVars, listener, hserve>> /\ UDPNext
    BY <1>3, Zenon DEF UDPStep, tcpVars, httpVars
  <2> QED BY <2>1, StaysStarted, OthersKeepStarted, Zenon
<1>4. CASE HTTPStep
  <2>1. UNCHANGED <<mainVars, listener, usock>> /\ HTTPNext
    BY <1>4, Zenon DEF HTTPStep, tcpVars, udpVars
  <2> QED BY <2>1, StaysStarted, OthersKeepStarted, Zenon
<1>5. CASE TLSStep \/ SignalStep \/ Ended \/ UNCHANGED vars
  <2>1. UNCHANGED <<mainVars, listener, usock, hserve>>
    BY <1>5, Zenon DEF TLSStep, SignalStep, Ended, vars, tcpVars, udpVars, httpVars
  <2> QED BY <2>1, OthersKeepStarted, Zenon
<1> QED BY <1>1, <1>2, <1>3, <1>4, <1>5, Zenon DEF Next

\* When main says that it runs, every listener of the configuration was started
\* but the raw TCP echo of the port that TLS takes (main.go:44-69).
THEOREM RunsWhatIsConfigured == Spec => []RunningMeansStarted
<1>1. Init => Inv /\ Started
  BY InitEstablishesInv, InitEstablishesStarted
<1>2. Inv /\ Started /\ [Next]_vars => (Inv /\ Started)'
  BY NextPreservesInv, NextPreservesStarted
<1>3. Inv /\ Started => RunningMeansStarted
  <2> SUFFICES ASSUME Inv, Started, main \in {"running", "stopping"}
               PROVE  RunningMeansStarted
    BY DEF RunningMeansStarted
  <2>1. ASSUME NEW i \in DOMAIN TCPPorts
        PROVE  (listener[TCPPorts[i]] = "none") <=> (TCPPorts[i] = TLSPort)
    <3>1. TCPPorts[i] \in Port
      BY ServerConfigAssumption
    <3>2. TCPPorts[i] # TLSPort => i \in tcpPorts
      BY DEF tcpPorts, withoutPort
    <3> QED BY <3>1, <3>2 DEF Started, TCPStarted, BeyondTCP
  <2>2. ASSUME NEW i \in DOMAIN UDPPorts PROVE usock[UDPPorts[i]] # "none"
    BY DEF Started, UDPStarted, BeyondUDP, BeyondTCP, udpPorts
  <2>3. ASSUME NEW p \in HTTPPorts PROVE hserve[p] # "none"
    <3>1. p > 0 /\ p \in {HTTPPort, WebSocketPort}
      BY ServerConfigAssumption, PortFinite
    <3> QED BY <3>1 DEF Started, HTTPStarted, BeyondHTTP, BeyondWS, BeyondUDP, BeyondTCP
  <2> QED BY <2>1, <2>2, <2>3 DEF RunningMeansStarted
<1> QED BY <1>1, <1>2, <1>3, PTL DEF Spec

-----------------------------------------------------------------------------
\* The gauges of t and of ports count the connections in S and the sessions in T.
GaugesOf(t, ports, S, T) ==
  /\ t["activeTCP"] = Cardinality(S)
  /\ t["activeWS"] = Cardinality(T)
  /\ \A p \in Port : ports[<<p, "active">>] =
       Cardinality(PartOf(S, ConnPort, p)) + Cardinality(PartOf(T, ReqPort, p))

Gauges == GaugesOf(total, perPort, TCPRecorded, Sessions)

LEMMA GaugesAreExact == Gauges => GaugesExact
<1>1. \A p \in Port : /\ PartOf(TCPRecorded, ConnPort, p) = {c \in TCPRecorded : ConnPort[c] = p}
                      /\ PartOf(Sessions, ReqPort, p) = WSOn(p)
  BY DEF PartOf, Sessions, WSOn
<1> QED BY <1>1, Zenon DEF GaugesExact, Gauges, GaugesOf, Sessions

LEMMA ActiveCounters ==
  ASSUME StatsTypeOK
  PROVE  /\ total \in [Counter -> Nat] /\ "activeTCP" \in Counter /\ "activeWS" \in Counter
         /\ perPort \in [Port \X PortCounter -> Nat]
         /\ \A p \in Port : /\ <<p, "active">> \in Port \X PortCounter
                             /\ <<p, "packets">> \in Port \X PortCounter
BY DEF StatsTypeOK, Counter, PortCounter

\* An operation that adds one to a gauge of the process and to one of port q.
LEMMA ActiveUp ==
  ASSUME StatsTypeOK, NEW q, NEW S, NEW U,
         total' = Add(total, S), perPort' = Add(perPort, U),
         \A p \in Port : <<p, "active">> \in U <=> p = q
  PROVE  /\ \A x \in Counter : total'[x] = total[x] + (IF x \in S THEN 1 ELSE 0)
         /\ \A p \in Port : perPort'[<<p, "active">>] =
              perPort[<<p, "active">>] + (IF q = p THEN 1 ELSE 0)
<1>1. ASSUME NEW x \in Counter PROVE total'[x] = total[x] + (IF x \in S THEN 1 ELSE 0)
  <2>1. total[x] \in Nat /\ x \in DOMAIN total
    BY ActiveCounters
  <2> QED BY <2>1 DEF Add
<1>2. ASSUME NEW p \in Port
      PROVE  perPort'[<<p, "active">>] = perPort[<<p, "active">>] + (IF q = p THEN 1 ELSE 0)
  <2>1. perPort[<<p, "active">>] \in Nat /\ <<p, "active">> \in DOMAIN perPort
    BY ActiveCounters
  <2> QED BY <2>1 DEF Add
<1> QED BY <1>1, <1>2

LEMMA ActiveDown ==
  ASSUME StatsTypeOK, NEW q, NEW S, NEW U,
         total' = Sub(total, S), perPort' = Sub(perPort, U),
         \A p \in Port : <<p, "active">> \in U <=> p = q,
         \A x \in Counter : x \in S => total[x] > 0,
         \A p \in Port : p = q => perPort[<<p, "active">>] > 0
  PROVE  /\ \A x \in Counter : total'[x] = total[x] - (IF x \in S THEN 1 ELSE 0)
         /\ \A p \in Port : perPort'[<<p, "active">>] =
              perPort[<<p, "active">>] - (IF q = p THEN 1 ELSE 0)
<1>1. ASSUME NEW x \in Counter PROVE total'[x] = total[x] - (IF x \in S THEN 1 ELSE 0)
  <2>1. total[x] \in Nat /\ x \in DOMAIN total
    BY ActiveCounters
  <2> QED BY <2>1 DEF Sub
<1>2. ASSUME NEW p \in Port
      PROVE  perPort'[<<p, "active">>] = perPort[<<p, "active">>] - (IF q = p THEN 1 ELSE 0)
  <2>1. perPort[<<p, "active">>] \in Nat /\ <<p, "active">> \in DOMAIN perPort
    BY ActiveCounters
  <2> QED BY <2>1 DEF Sub
<1> QED BY <1>1, <1>2

\* A connection or a session begins.
LEMMA ConnectionCounted ==
  ASSUME StatsTypeOK, Gauges, NEW c \in Conn \ TCPRecorded, TCPConnect(ConnPort[c])
  PROVE  GaugesOf(total', perPort', TCPRecorded \cup {c}, Sessions)
<1> DEFINE q == ConnPort[c]
           S == {"activeTCP", "tcpTotal", "TCP"}
           U == {q} \X {"connections", "active"}
<1>f. IsFiniteSet(Conn) /\ TCPRecorded \subseteq Conn
  BY ConnAssumption DEF TCPRecorded
<1>1. total' = Add(total, S) /\ perPort' = Add(perPort, U)
  BY DEF TCPConnect
<1>2. /\ \A p \in Port : <<p, "active">> \in U <=> p = q
      /\ "activeTCP" \in S /\ "activeWS" \notin S
  OBVIOUS
<1>3. \A p \in Port :
        /\ Cardinality(PartOf(TCPRecorded, ConnPort, p)) \in Nat
        /\ Cardinality(PartOf(TCPRecorded \cup {c}, ConnPort, p)) =
             Cardinality(PartOf(TCPRecorded, ConnPort, p)) + (IF q = p THEN 1 ELSE 0)
  BY <1>f, PartGains
<1>4. \A p \in Port : Cardinality(PartOf(Sessions, ReqPort, p)) \in Nat
  BY HTTPAssumption, FS_Subset, FS_CardinalityType DEF PartOf, Sessions
<1>5. Cardinality(TCPRecorded \cup {c}) = Cardinality(TCPRecorded) + 1
  BY <1>f, FS_Subset, FS_AddElement
<1> HIDE DEF q, S, U
<1>8. /\ \A y \in Counter : total'[y] = total[y] + (IF y \in S THEN 1 ELSE 0)
      /\ \A p \in Port : perPort'[<<p, "active">>] =
           perPort[<<p, "active">>] + (IF q = p THEN 1 ELSE 0)
  BY <1>1, <1>2, ActiveUp
<1>9. total'["activeTCP"] = total["activeTCP"] + 1 /\ total'["activeWS"] = total["activeWS"]
  BY <1>2, <1>8, ActiveCounters
<1>10. ASSUME NEW p \in Port
       PROVE  perPort'[<<p, "active">>] =
                Cardinality(PartOf(TCPRecorded \cup {c}, ConnPort, p))
                  + Cardinality(PartOf(Sessions, ReqPort, p))
  <2>1. Cardinality(PartOf(TCPRecorded, ConnPort, p)) \in Nat /\ Cardinality(PartOf(Sessions, ReqPort, p)) \in Nat
    BY <1>3, <1>4
  <2>2. Cardinality(PartOf(TCPRecorded \cup {c}, ConnPort, p)) =
          Cardinality(PartOf(TCPRecorded, ConnPort, p)) + (IF q = p THEN 1 ELSE 0)
    BY <1>3
  <2>3. perPort'[<<p, "active">>] = perPort[<<p, "active">>] + (IF q = p THEN 1 ELSE 0)
    BY <1>8
  <2>4. perPort[<<p, "active">>] =
          Cardinality(PartOf(TCPRecorded, ConnPort, p)) + Cardinality(PartOf(Sessions, ReqPort, p))
    BY DEF Gauges, GaugesOf
  <2> QED BY ONLY <2>1, <2>2, <2>3, <2>4
<1> QED BY <1>5, <1>9, <1>10 DEF Gauges, GaugesOf

LEMMA SessionCounted ==
  ASSUME StatsTypeOK, Gauges, NEW r \in Request \ Sessions, WSConnect(ReqPort[r])
  PROVE  GaugesOf(total', perPort', TCPRecorded, Sessions \cup {r})
<1> DEFINE q == ReqPort[r]
           S == {"activeWS", "WebSocket"}
           U == {q} \X {"connections", "active"}
<1>f. IsFiniteSet(Request) /\ Sessions \subseteq Request
  BY HTTPAssumption DEF Sessions
<1>1. total' = Add(total, S) /\ perPort' = Add(perPort, U)
  BY DEF WSConnect
<1>2. /\ \A p \in Port : <<p, "active">> \in U <=> p = q
      /\ "activeWS" \in S /\ "activeTCP" \notin S
  OBVIOUS
<1>3. \A p \in Port :
        /\ Cardinality(PartOf(Sessions, ReqPort, p)) \in Nat
        /\ Cardinality(PartOf(Sessions \cup {r}, ReqPort, p)) =
             Cardinality(PartOf(Sessions, ReqPort, p)) + (IF q = p THEN 1 ELSE 0)
  BY <1>f, PartGains
<1>4. \A p \in Port : Cardinality(PartOf(TCPRecorded, ConnPort, p)) \in Nat
  BY ConnAssumption, FS_Subset, FS_CardinalityType DEF PartOf, TCPRecorded
<1>5. Cardinality(Sessions \cup {r}) = Cardinality(Sessions) + 1
  BY <1>f, FS_Subset, FS_AddElement
<1> HIDE DEF q, S, U
<1>8. /\ \A y \in Counter : total'[y] = total[y] + (IF y \in S THEN 1 ELSE 0)
      /\ \A p \in Port : perPort'[<<p, "active">>] =
           perPort[<<p, "active">>] + (IF q = p THEN 1 ELSE 0)
  BY <1>1, <1>2, ActiveUp
<1>9. total'["activeWS"] = total["activeWS"] + 1 /\ total'["activeTCP"] = total["activeTCP"]
  BY <1>2, <1>8, ActiveCounters
<1>10. ASSUME NEW p \in Port
       PROVE  perPort'[<<p, "active">>] =
                Cardinality(PartOf(TCPRecorded, ConnPort, p))
                  + Cardinality(PartOf(Sessions \cup {r}, ReqPort, p))
  <2>1. Cardinality(PartOf(Sessions, ReqPort, p)) \in Nat /\ Cardinality(PartOf(TCPRecorded, ConnPort, p)) \in Nat
    BY <1>3, <1>4
  <2>2. Cardinality(PartOf(Sessions \cup {r}, ReqPort, p)) =
          Cardinality(PartOf(Sessions, ReqPort, p)) + (IF q = p THEN 1 ELSE 0)
    BY <1>3
  <2>3. perPort'[<<p, "active">>] = perPort[<<p, "active">>] + (IF q = p THEN 1 ELSE 0)
    BY <1>8
  <2>4. perPort[<<p, "active">>] =
          Cardinality(PartOf(TCPRecorded, ConnPort, p)) + Cardinality(PartOf(Sessions, ReqPort, p))
    BY DEF Gauges, GaugesOf
  <2> QED BY ONLY <2>1, <2>2, <2>3, <2>4
<1> QED BY <1>5, <1>9, <1>10 DEF Gauges, GaugesOf

\* A connection or a session ends: it was counted, so no gauge is clamped at zero.
LEMMA ConnectionDropped ==
  ASSUME StatsTypeOK, Gauges, NEW c \in TCPRecorded, TCPDisconnect(ConnPort[c])
  PROVE  GaugesOf(total', perPort', TCPRecorded \ {c}, Sessions)
<1> DEFINE q == ConnPort[c]
           S == {"activeTCP"}
           U == {q} \X {"active"}
<1>f. IsFiniteSet(Conn) /\ TCPRecorded \subseteq Conn
  BY ConnAssumption DEF TCPRecorded
<1>1. total' = Sub(total, S) /\ perPort' = Sub(perPort, U)
  BY DEF TCPDisconnect
<1>2. /\ \A p \in Port : <<p, "active">> \in U <=> p = q
      /\ "activeTCP" \in S /\ "activeWS" \notin S
  OBVIOUS
<1>3. \A p \in Port :
        /\ Cardinality(PartOf(TCPRecorded, ConnPort, p)) \in Nat
        /\ Cardinality(PartOf(TCPRecorded \ {c}, ConnPort, p)) =
             Cardinality(PartOf(TCPRecorded, ConnPort, p)) - (IF q = p THEN 1 ELSE 0)
        /\ q = p => Cardinality(PartOf(TCPRecorded, ConnPort, p)) > 0
  BY <1>f, PartLoses
<1>4. \A p \in Port : Cardinality(PartOf(Sessions, ReqPort, p)) \in Nat
  BY HTTPAssumption, FS_Subset, FS_CardinalityType DEF PartOf, Sessions
<1>5. Cardinality(TCPRecorded \ {c}) = Cardinality(TCPRecorded) - 1
  BY <1>f, FS_Subset, FS_RemoveElement
<1>6. \A y \in Counter : y \in S => total[y] > 0
  <2>1. Cardinality(TCPRecorded) \in Nat /\ Cardinality(TCPRecorded) # 0
    BY <1>f, FS_Subset, FS_CardinalityType, FS_EmptySet
  <2> QED BY <2>1 DEF Gauges, GaugesOf
<1>7. \A p \in Port : p = q => perPort[<<p, "active">>] > 0
  BY <1>3, <1>4 DEF Gauges, GaugesOf
<1> HIDE DEF q, S, U
<1>8. /\ \A y \in Counter : total'[y] = total[y] - (IF y \in S THEN 1 ELSE 0)
      /\ \A p \in Port : perPort'[<<p, "active">>] =
           perPort[<<p, "active">>] - (IF q = p THEN 1 ELSE 0)
  BY <1>1, <1>2, <1>6, <1>7, ActiveDown
<1>9. total'["activeTCP"] = total["activeTCP"] - 1 /\ total'["activeWS"] = total["activeWS"]
  BY <1>2, <1>8, ActiveCounters
<1>10. ASSUME NEW p \in Port
       PROVE  perPort'[<<p, "active">>] =
                Cardinality(PartOf(TCPRecorded \ {c}, ConnPort, p))
                  + Cardinality(PartOf(Sessions, ReqPort, p))
  <2>1. Cardinality(PartOf(TCPRecorded, ConnPort, p)) \in Nat /\ Cardinality(PartOf(Sessions, ReqPort, p)) \in Nat
    BY <1>3, <1>4
  <2>2. Cardinality(PartOf(TCPRecorded \ {c}, ConnPort, p)) =
          Cardinality(PartOf(TCPRecorded, ConnPort, p)) - (IF q = p THEN 1 ELSE 0)
    BY <1>3
  <2>3. perPort'[<<p, "active">>] = perPort[<<p, "active">>] - (IF q = p THEN 1 ELSE 0)
    BY <1>8
  <2>4. perPort[<<p, "active">>] =
          Cardinality(PartOf(TCPRecorded, ConnPort, p)) + Cardinality(PartOf(Sessions, ReqPort, p))
    BY DEF Gauges, GaugesOf
  <2> QED BY ONLY <2>1, <2>2, <2>3, <2>4
<1> QED BY <1>5, <1>9, <1>10 DEF Gauges, GaugesOf

LEMMA SessionDropped ==
  ASSUME StatsTypeOK, Gauges, NEW r \in Sessions, WSDisconnect(ReqPort[r])
  PROVE  GaugesOf(total', perPort', TCPRecorded, Sessions \ {r})
<1> DEFINE q == ReqPort[r]
           S == {"activeWS"}
           U == {q} \X {"active"}
<1>f. IsFiniteSet(Request) /\ Sessions \subseteq Request
  BY HTTPAssumption DEF Sessions
<1>1. total' = Sub(total, S) /\ perPort' = Sub(perPort, U)
  BY DEF WSDisconnect
<1>2. /\ \A p \in Port : <<p, "active">> \in U <=> p = q
      /\ "activeWS" \in S /\ "activeTCP" \notin S
  OBVIOUS
<1>3. \A p \in Port :
        /\ Cardinality(PartOf(Sessions, ReqPort, p)) \in Nat
        /\ Cardinality(PartOf(Sessions \ {r}, ReqPort, p)) =
             Cardinality(PartOf(Sessions, ReqPort, p)) - (IF q = p THEN 1 ELSE 0)
        /\ q = p => Cardinality(PartOf(Sessions, ReqPort, p)) > 0
  BY <1>f, PartLoses
<1>4. \A p \in Port : Cardinality(PartOf(TCPRecorded, ConnPort, p)) \in Nat
  BY ConnAssumption, FS_Subset, FS_CardinalityType DEF PartOf, TCPRecorded
<1>5. Cardinality(Sessions \ {r}) = Cardinality(Sessions) - 1
  BY <1>f, FS_Subset, FS_RemoveElement
<1>6. \A y \in Counter : y \in S => total[y] > 0
  <2>1. Cardinality(Sessions) \in Nat /\ Cardinality(Sessions) # 0
    BY <1>f, FS_Subset, FS_CardinalityType, FS_EmptySet
  <2> QED BY <2>1 DEF Gauges, GaugesOf
<1>7. \A p \in Port : p = q => perPort[<<p, "active">>] > 0
  BY <1>3, <1>4 DEF Gauges, GaugesOf
<1> HIDE DEF q, S, U
<1>8. /\ \A y \in Counter : total'[y] = total[y] - (IF y \in S THEN 1 ELSE 0)
      /\ \A p \in Port : perPort'[<<p, "active">>] =
           perPort[<<p, "active">>] - (IF q = p THEN 1 ELSE 0)
  BY <1>1, <1>2, <1>6, <1>7, ActiveDown
<1>9. total'["activeWS"] = total["activeWS"] - 1 /\ total'["activeTCP"] = total["activeTCP"]
  BY <1>2, <1>8, ActiveCounters
<1>10. ASSUME NEW p \in Port
       PROVE  perPort'[<<p, "active">>] =
                Cardinality(PartOf(TCPRecorded, ConnPort, p))
                  + Cardinality(PartOf(Sessions \ {r}, ReqPort, p))
  <2>1. Cardinality(PartOf(Sessions, ReqPort, p)) \in Nat /\ Cardinality(PartOf(TCPRecorded, ConnPort, p)) \in Nat
    BY <1>3, <1>4
  <2>2. Cardinality(PartOf(Sessions \ {r}, ReqPort, p)) =
          Cardinality(PartOf(Sessions, ReqPort, p)) - (IF q = p THEN 1 ELSE 0)
    BY <1>3
  <2>3. perPort'[<<p, "active">>] = perPort[<<p, "active">>] - (IF q = p THEN 1 ELSE 0)
    BY <1>8
  <2>4. perPort[<<p, "active">>] =
          Cardinality(PartOf(TCPRecorded, ConnPort, p)) + Cardinality(PartOf(Sessions, ReqPort, p))
    BY DEF Gauges, GaugesOf
  <2> QED BY ONLY <2>1, <2>2, <2>3, <2>4
<1> QED BY <1>5, <1>9, <1>10 DEF Gauges, GaugesOf

\* A step that leaves the sets and the gauges alone.
LEMMA GaugesStay ==
  ASSUME Gauges, ActiveSame, TCPRecorded' = TCPRecorded, Sessions' = Sessions
  PROVE  Gauges'
BY DEF Gauges, GaugesOf, ActiveSame

LEMMA SetsUntouched ==
  /\ UNCHANGED tcpVars => TCPRecorded' = TCPRecorded
  /\ UNCHANGED httpVars => Sessions' = Sessions
BY DEF tcpVars, TCPRecorded, httpVars, Sessions

LEMMA NextPreservesGauges == Inv /\ Gauges /\ [Next]_vars => Gauges'
<1> SUFFICES ASSUME Inv, Gauges, [Next]_vars PROVE Gauges'
  OBVIOUS
<1>t. StatsTypeOK /\ TCPTypeOK /\ HTTPTypeOK
  BY Zenon DEF Inv, Typed, ContextTyped
<1>1. ASSUME TCPNext \/ (\E p \in Port : TCPListen(p)), UNCHANGED httpVars
      PROVE  Gauges'
  <2>0. Sessions' = Sessions
    BY <1>1, SetsUntouched
  <2>1. \/ ActiveSame /\ TCPRecorded' = TCPRecorded
        \/ \E c \in Conn \ TCPRecorded :
             TCPConnect(ConnPort[c]) /\ TCPRecorded' = TCPRecorded \cup {c}
        \/ \E c \in TCPRecorded :
             TCPDisconnect(ConnPort[c]) /\ TCPRecorded' = TCPRecorded \ {c}
    BY <1>1, <1>t, TCPActive, Zenon
  <2>2. CASE ActiveSame /\ TCPRecorded' = TCPRecorded
    BY <2>0, <2>2, GaugesStay
  <2>3. ASSUME NEW c \in Conn \ TCPRecorded, TCPConnect(ConnPort[c]),
               TCPRecorded' = TCPRecorded \cup {c}
        PROVE  Gauges'
    <3>1. GaugesOf(total', perPort', TCPRecorded \cup {c}, Sessions)
      BY <1>t, <2>3, ConnectionCounted
    <3> QED BY <2>0, <2>3, <3>1 DEF Gauges
  <2>4. ASSUME NEW c \in TCPRecorded, TCPDisconnect(ConnPort[c]),
               TCPRecorded' = TCPRecorded \ {c}
        PROVE  Gauges'
    <3>1. GaugesOf(total', perPort', TCPRecorded \ {c}, Sessions)
      BY <1>t, <2>4, ConnectionDropped
    <3> QED BY <2>0, <2>4, <3>1 DEF Gauges
  <2> QED BY <2>1, <2>2, <2>3, <2>4, Zenon
<1>2. ASSUME HTTPNext \/ (\E p \in HTTPPorts : HTTPRun(p)), UNCHANGED tcpVars
      PROVE  Gauges'
  <2>0. TCPRecorded' = TCPRecorded
    BY <1>2, SetsUntouched
  <2>1. \/ ActiveSame /\ Sessions' = Sessions
        \/ \E r \in Request \ Sessions :
             WSConnect(ReqPort[r]) /\ Sessions' = Sessions \cup {r}
        \/ \E r \in Sessions :
             WSDisconnect(ReqPort[r]) /\ Sessions' = Sessions \ {r}
    BY <1>2, <1>t, HTTPActive, Zenon
  <2>2. CASE ActiveSame /\ Sessions' = Sessions
    BY <2>0, <2>2, GaugesStay
  <2>3. ASSUME NEW r \in Request \ Sessions, WSConnect(ReqPort[r]),
               Sessions' = Sessions \cup {r}
        PROVE  Gauges'
    <3>1. GaugesOf(total', perPort', TCPRecorded, Sessions \cup {r})
      BY <1>t, <2>3, SessionCounted
    <3> QED BY <2>0, <2>3, <3>1 DEF Gauges
  <2>4. ASSUME NEW r \in Sessions, WSDisconnect(ReqPort[r]), Sessions' = Sessions \ {r}
        PROVE  Gauges'
    <3>1. GaugesOf(total', perPort', TCPRecorded, Sessions \ {r})
      BY <1>t, <2>4, SessionDropped
    <3> QED BY <2>0, <2>4, <3>1 DEF Gauges
  <2> QED BY <2>1, <2>2, <2>3, <2>4, Zenon
<1>3. ASSUME UNCHANGED <<tcpVars, httpVars>>,
             UNCHANGED stats \/ \E q \in {TLSPort} \cup Port : TLSHandshake(q) \/ UDPPacket(q)
      PROVE  Gauges'
  <2>1. ActiveSame
    BY <1>3, <1>t, ActiveUntouched
  <2> QED BY <1>3, <2>1, SetsUntouched, GaugesStay
<1>4. CASE StartTCPPort
  <2>1. (\E p \in Port : TCPListen(p)) /\ UNCHANGED httpVars
    BY <1>4, ServerConfigAssumption DEF StartTCPPort, tcpPorts, withoutPort
  <2> QED BY <1>1, <2>1, Zenon
<1>5. CASE StartHTTP \/ StartWebSocket
  <2>1. /\ UNCHANGED tcpVars
        /\ \/ \E p \in HTTPPorts : HTTPRun(p)
           \/ UNCHANGED <<stats, httpVars>>
    BY <1>5, ServerConfigAssumption DEF StartHTTP, StartWebSocket, contextVars
  <2> QED BY <1>2, <1>3, <2>1, Zenon
<1>6. CASE StartUDPPort \/ StartTLS \/ ListenFails \/ RunReturns \/ SignalReceived
           \/ WaitReturns \/ MainReturns
  BY <1>3, <1>6, Zenon DEF StartUDPPort, UDPListen, StartTLS, TLSListen, ListenFails,
     RunReturns, SignalReceived, WaitReturns, MainReturns, contextVars
<1>7. CASE TCPStep
  BY <1>1, <1>7, Zenon DEF TCPStep
<1>8. CASE UDPStep
  <2>1. UNCHANGED stats \/ \E p \in Port : UDPPacket(p)
    BY <1>8, Zenon DEF UDPStep, UDPNext, UDPCloseSocket, UDPEcho, UDPReturn, UDPArrive,
       contextVars
  <2> QED BY <1>3, <1>8, <2>1 DEF UDPStep
<1>9. CASE HTTPStep
  BY <1>2, <1>9, Zenon DEF HTTPStep
<1>10. CASE TLSStep
  <2>1. UNCHANGED stats \/ TLSHandshake(TLSPort)
    BY <1>10, Zenon DEF TLSStep, TLSNext, TLSCloseListener, TLSServeReturn, TLSAccept,
       TLSHandle, HandshakeOK, HandshakeFail, Greet, TLSDone, TLSDial, contextVars
  <2> QED BY <1>3, <1>10, <2>1 DEF TLSStep
<1>11. CASE SignalStep \/ Ended \/ UNCHANGED vars
  BY <1>3, <1>11, Zenon DEF SignalStep, Ended, vars, contextVars
<1> QED
  BY <1>4, <1>5, <1>6, <1>7, <1>8, <1>9, <1>10, <1>11, Zenon DEF Next, MainNext

LEMMA InitEstablishesGauges == Init => Gauges
<1> SUFFICES ASSUME Init PROVE Gauges
  OBVIOUS
<1>1. Inv
  BY InitEstablishesInv
<1>2. TCPRecorded = {} /\ Sessions = {}
  BY DEF Init, TCPInit, HTTPInit, TCPRecorded, Sessions
<1>3. \A port, p : PartOf({}, port, p) = {}
  BY DEF PartOf
<1>4. /\ total["activeTCP"] = 0 /\ total["activeWS"] = 0
      /\ \A p \in Port : perPort[<<p, "active">>] = 0
  BY ActiveCounters, <1>1 DEF Inv, Typed, ContextTyped, Init, ContextInit, NewServerStats
<1> QED BY <1>2, <1>3, <1>4, FS_EmptySet DEF Gauges, GaugesOf

\* The gauges of /stats, in all and per port, are the connections and sessions
\* between their two events, so the clamp at zero never acts (stats.go:56-131).
THEOREM GaugesCount == Spec => []GaugesExact
<1>1. Init => Inv /\ Gauges
  BY InitEstablishesInv, InitEstablishesGauges
<1>2. Inv /\ Gauges /\ [Next]_vars => (Inv /\ Gauges)'
  BY NextPreservesInv, NextPreservesGauges
<1>3. Inv /\ Gauges => GaugesExact
  BY GaugesAreExact
<1> QED BY <1>1, <1>2, <1>3, PTL DEF Spec

-----------------------------------------------------------------------------
\* The datagrams of a port are counted by UDPPacket alone.
PacketsSame ==
  \A p \in Port : perPort'[<<p, "packets">>] = perPort[<<p, "packets">>]

LEMMA PacketsUntouched ==
  ASSUME StatsTypeOK, NEW q, NEW failed \in BOOLEAN,
         \/ TCPConnect(q) \/ TCPDisconnect(q) \/ TCPError(q) \/ HTTPRequest(q)
         \/ WSConnect(q) \/ WSDisconnect(q) \/ TLSHandshake(q) \/ Download(q, failed)
         \/ UNCHANGED stats
  PROVE  PacketsSame
<1>1. \/ perPort' = perPort
      \/ \E X \in SUBSET {"connections", "active", "requests", "errors"} :
           perPort' = Add(perPort, {q} \X X) \/ perPort' = Sub(perPort, {q} \X X)
  <2>1. CASE Download(q, failed)
    <3>1. CASE failed = TRUE
      <4>1. perPort' = Add(perPort, {q} \X {"requests", "errors"})
        BY <2>1, <3>1 DEF Download
      <4> QED BY <4>1
    <3>2. CASE failed = FALSE
      <4>1. perPort' = Add(perPort, {q} \X {"requests"})
        BY <2>1, <3>2 DEF Download
      <4> QED BY <4>1
    <3> QED BY <3>1, <3>2
  <2>2. CASE TCPConnect(q) \/ WSConnect(q)
    BY <2>2 DEF TCPConnect, WSConnect
  <2>3. CASE TCPDisconnect(q) \/ WSDisconnect(q)
    BY <2>3 DEF TCPDisconnect, WSDisconnect
  <2>4. CASE TCPError(q) \/ HTTPRequest(q) \/ TLSHandshake(q) \/ UNCHANGED stats
    BY <2>4 DEF TCPError, HTTPRequest, TLSHandshake, stats
  <2> QED BY <2>1, <2>2, <2>3, <2>4
<1>2. ASSUME NEW p \in Port PROVE perPort'[<<p, "packets">>] = perPort[<<p, "packets">>]
  <2>1. <<p, "packets">> \in DOMAIN perPort
    BY ActiveCounters
  <2>2. \A X \in SUBSET {"connections", "active", "requests", "errors"} :
          <<p, "packets">> \notin {q} \X X
    OBVIOUS
  <2> QED BY <1>1, <2>1, <2>2 DEF Add, Sub
<1> QED BY <1>2 DEF PacketsSame

\* Until its socket is closed, every datagram of a port is counted or waits.
Packets ==
  \A p \in Port :
    /\ perPort[<<p, "packets">>] + inbound[p] <= arrived[p]
    /\ usock[p] # "closed" => perPort[<<p, "packets">>] + inbound[p] = arrived[p]

LEMMA UDPPreservesPackets ==
  ASSUME Inv, Packets, UDPNext \/ \E p \in Port : UDPListen(p)
  PROVE  Packets'
<1>t. /\ usock \in [Port -> {"none", "open", "closed"}]
      /\ inbound \in [Port -> 0 .. MaxPackets] /\ arrived \in [Port -> 0 .. MaxPackets]
      /\ StatsTypeOK /\ MaxPackets \in Nat
  BY MaxPacketsAssumption, Zenon DEF Inv, Typed, ContextTyped, UDPTypeOK
<1>p. \A p \in Port :
        perPort[<<p, "packets">>] \in Nat /\ inbound[p] \in Nat /\ arrived[p] \in Nat
  <2>1. \A p \in Port : perPort[<<p, "packets">>] \in Nat
    BY <1>t, ActiveCounters
  <2>2. \A p \in Port : inbound[p] \in 0 .. MaxPackets /\ arrived[p] \in 0 .. MaxPackets
    BY <1>t
  <2>3. 0 .. MaxPackets \subseteq Nat
    BY <1>t
  <2> QED BY <2>1, <2>2, <2>3
<1>1. ASSUME NEW p \in Port, UDPListen(p) PROVE Packets'
  <2>1. /\ usock[p] = "none" /\ usock' = [usock EXCEPT ![p] = "open"]
        /\ UNCHANGED <<inbound, arrived, perPort>>
    BY <1>1, Zenon DEF UDPListen, stats
  <2> QED BY <1>t, <2>1 DEF Packets
<1>2. ASSUME NEW p \in Port, UDPCloseSocket(p) PROVE Packets'
  <2>1. /\ usock' = [usock EXCEPT ![p] = "closed"] /\ inbound' = [inbound EXCEPT ![p] = 0]
        /\ arrived' = arrived /\ perPort' = perPort
    BY <1>2, Zenon DEF UDPCloseSocket, contextVars, stats
  <2>2. ASSUME NEW q \in Port
        PROVE  /\ usock'[q] # "closed" => usock[q] # "closed" /\ inbound'[q] = inbound[q]
               /\ inbound'[q] \in Nat /\ inbound'[q] <= inbound[q]
    BY <1>t, <1>p, <2>1
  <2>3. ASSUME NEW q \in Port
        PROVE  /\ perPort'[<<q, "packets">>] + inbound'[q] <= arrived'[q]
               /\ usock'[q] # "closed" =>
                    perPort'[<<q, "packets">>] + inbound'[q] = arrived'[q]
    <3>1. /\ perPort[<<q, "packets">>] + inbound[q] <= arrived[q]
          /\ usock[q] # "closed" => perPort[<<q, "packets">>] + inbound[q] = arrived[q]
      BY DEF Packets
    <3>2. perPort'[<<q, "packets">>] = perPort[<<q, "packets">>] /\ arrived'[q] = arrived[q]
      BY <2>1
    <3> QED BY <1>p, <2>2, <3>1, <3>2
  <2> QED BY <2>3 DEF Packets
<1>3. ASSUME NEW p \in Port, UDPEcho(p) PROVE Packets'
  <2>1. /\ inbound[p] > 0 /\ inbound' = [inbound EXCEPT ![p] = @ - 1]
        /\ perPort' = Add(perPort, {p} \X {"packets"})
        /\ UNCHANGED <<usock, arrived>>
    BY <1>3 DEF UDPEcho, UDPPacket
  <2>2. ASSUME NEW q \in Port
        PROVE  perPort'[<<q, "packets">>] =
                 perPort[<<q, "packets">>] + (IF q = p THEN 1 ELSE 0)
    <3>1. <<q, "packets">> \in DOMAIN perPort
      BY <1>t, ActiveCounters
    <3> QED BY <1>p, <2>1, <3>1 DEF Add
  <2>3. ASSUME NEW q \in Port
        PROVE  perPort'[<<q, "packets">>] + inbound'[q] = perPort[<<q, "packets">>] + inbound[q]
    <3>1. inbound'[q] = inbound[q] - (IF q = p THEN 1 ELSE 0)
      BY <1>t, <1>p, <2>1
    <3>2. perPort[<<q, "packets">>] \in Nat /\ inbound[q] \in Nat
      BY <1>p
    <3> QED BY <2>2, <3>1, <3>2
  <2> QED BY <2>1, <2>3 DEF Packets
<1>4. ASSUME NEW p \in Port, UDPReturn(p) PROVE Packets'
  <2>1. /\ usock' = [usock EXCEPT ![p] = "closed"]
        /\ UNCHANGED <<inbound, arrived, perPort>>
    BY <1>4, Zenon DEF UDPReturn, stats
  <2> QED BY <1>t, <2>1 DEF Packets
<1>5. ASSUME NEW p \in Port, UDPArrive(p) PROVE Packets'
  <2>1. /\ arrived' = [arrived EXCEPT ![p] = @ + 1] /\ inbound' = [inbound EXCEPT ![p] = @ + 1]
        /\ usock' = usock /\ perPort' = perPort
    BY <1>5, Zenon DEF UDPArrive, contextVars, stats
  <2>2. ASSUME NEW q \in Port
        PROVE  \E n \in {0, 1} : arrived'[q] = arrived[q] + n /\ inbound'[q] = inbound[q] + n
    BY <1>t, <1>p, <2>1
  <2>3. ASSUME NEW q \in Port
        PROVE  /\ perPort'[<<q, "packets">>] + inbound'[q] <= arrived'[q]
               /\ usock'[q] # "closed" =>
                    perPort'[<<q, "packets">>] + inbound'[q] = arrived'[q]
    <3>1. /\ perPort[<<q, "packets">>] + inbound[q] <= arrived[q]
          /\ usock[q] # "closed" => perPort[<<q, "packets">>] + inbound[q] = arrived[q]
      BY DEF Packets
    <3>2. perPort'[<<q, "packets">>] = perPort[<<q, "packets">>] /\ usock'[q] = usock[q]
      BY <2>1
    <3> QED BY <1>p, <2>2, <3>1, <3>2
  <2> QED BY <2>3 DEF Packets
<1> QED BY <1>1, <1>2, <1>3, <1>4, <1>5, Zenon DEF UDPNext

LEMMA NextPreservesPackets == Inv /\ Packets /\ [Next]_vars => Packets'
<1> SUFFICES ASSUME Inv, Packets, [Next]_vars PROVE Packets'
  OBVIOUS
<1>t. StatsTypeOK
  BY Zenon DEF Inv, Typed, ContextTyped
<1>1. ASSUME UNCHANGED udpVars, PacketsSame PROVE Packets'
  BY <1>1 DEF udpVars, PacketsSame, Packets
<1>2. ASSUME UNCHANGED <<udpVars, stats>> PROVE Packets'
  BY <1>1, <1>2 DEF stats, PacketsSame
<1>3. CASE StartUDPPort
  <2>1. \E p \in Port : UDPListen(p)
    BY <1>3, Positions DEF StartUDPPort
  <2> QED BY <2>1, UDPPreservesPackets
<1>4. CASE MainNext /\ ~StartUDPPort
  BY <1>2, <1>4, Zenon DEF MainNext, StartTCPPort, TCPListen, ListenFails, RunReturns,
     StartHTTP, StartWebSocket, HTTPRun, StartTLS, TLSListen, SignalReceived, WaitReturns,
     MainReturns, contextVars
<1>5. CASE UDPStep
  BY <1>5, UDPPreservesPackets DEF UDPStep
<1>6. CASE TCPStep
  <2>1. UNCHANGED stats \/ \E c \in Conn : \/ TCPConnect(ConnPort[c])
                                           \/ TCPDisconnect(ConnPort[c])
                                           \/ TCPError(ConnPort[c])
    BY <1>6, Zenon DEF TCPStep, TCPNext, TCPCloseListener, ServeReturn, Accept, Handle,
       HandleStart, ReadEcho, WriteFail, ReadTimeout, ReadEOF, ReadError,
       HandleDisconnect, HandleDone, Peer, Dial, PeerSend, PeerClose, PeerReset, contextVars
  <2>2. PacketsSame
    BY <1>t, <2>1, PacketsUntouched
  <2> QED BY <1>1, <1>6, <2>2, Zenon DEF TCPStep
<1>7. CASE HTTPStep
  <2>1. \/ UNCHANGED stats
        \/ \E r \in Request, failed \in BOOLEAN :
              \/ HTTPRequest(ReqPort[r]) \/ Download(ReqPort[r], failed)
              \/ WSConnect(ReqPort[r]) \/ WSDisconnect(ReqPort[r])
    BY <1>7 DEF HTTPStep, HTTPNext, HTTPListener, HTTPBind, HTTPNoBind,
         ServeClosed, HTTPShutdown, ShutdownCall, ShutdownDrained,
         ShutdownTimeout, HTTPRequestStep, HTTPAccept, HTTPAbort, LogMiddleware,
         RespondSimple, RespondDownload, Hijack, WSOpen, WSClose, contextVars
  <2>2. PacketsSame
    BY <1>t, <2>1, PacketsUntouched
  <2> QED BY <1>1, <1>7, <2>2, Zenon DEF HTTPStep
<1>8. CASE TLSStep
  <2>1. UNCHANGED stats \/ TLSHandshake(TLSPort)
    BY <1>8, Zenon DEF TLSStep, TLSNext, TLSCloseListener, TLSServeReturn, TLSAccept,
       TLSHandle, HandshakeOK, HandshakeFail, Greet, TLSDone, TLSDial, contextVars
  <2>2. PacketsSame
    BY <1>t, <2>1, PacketsUntouched
  <2> QED BY <1>1, <1>8, <2>2, Zenon DEF TLSStep
<1>9. CASE SignalStep \/ Ended \/ UNCHANGED vars
  BY <1>2, <1>9, Zenon DEF SignalStep, Ended, vars, contextVars
<1> QED BY <1>3, <1>4, <1>5, <1>6, <1>7, <1>8, <1>9, Zenon DEF Next

\* No datagram is counted twice, and none is lost to the count while the socket
\* is open (udp/server.go:46-59).
THEOREM PacketsAreCounted == Spec => []PacketsCounted
<1>1. Init => Inv /\ Packets
  <2> SUFFICES ASSUME Init PROVE Inv /\ Packets
    OBVIOUS
  <2>1. Inv
    BY InitEstablishesInv
  <2>2. \A p \in Port : perPort[<<p, "packets">>] = 0
    BY ActiveCounters, <2>1 DEF Inv, Typed, ContextTyped, Init, ContextInit, NewServerStats
  <2> QED BY <2>1, <2>2 DEF Init, UDPInit, Packets
<1>2. Inv /\ Packets /\ [Next]_vars => (Inv /\ Packets)'
  BY NextPreservesInv, NextPreservesPackets
<1>3. Packets => PacketsCounted
  BY DEF Packets, PacketsCounted
<1> QED BY <1>1, <1>2, <1>3, PTL DEF Spec

-----------------------------------------------------------------------------
\* The requests that logMiddleware has counted and whose own event, a download
\* or a session, is still to be counted.
Pending == {r \in Request : req[r] \in {"download", "ws", "hijacked"}}

\* The ledger of t with the sums of the counters of all ports, n requests
\* being between their two events.
BooksOf(t, sum, n) ==
  /\ t["tcpTotal"] = t["TCP"]
  /\ t["downloads"] = t["Download"]
  /\ sum["connections"] = t["tcpTotal"] + t["WebSocket"] + t["TLS"]
  /\ sum["active"] = t["activeTCP"] + t["activeWS"]
  /\ sum["packets"] = t["udpPackets"]
  /\ sum["requests"] = t["httpReqs"] + t["downloads"]
  /\ sum["errors"] >= t["failedDL"]
  /\ t["failedDL"] <= t["downloads"]
  /\ t["downloads"] + t["WebSocket"] + n <= t["httpReqs"]
  /\ t["activeTCP"] <= t["tcpTotal"]

PortSums == [field \in PortCounter |-> PortSum(field)]
Books == BooksOf(total, PortSums, Cardinality(Pending))

\* No handshake is counted for a port that is not one.
TLSReal == TLSPort \in Port \/ (tlistener = "none" /\ \A c \in TLSConn : tconn[c] = "none")

LEMMA PendingCount ==
  /\ Cardinality(Pending) \in Nat /\ IsFiniteSet(Pending)
  /\ \A r \in Request \ Pending : Cardinality(Pending \cup {r}) = Cardinality(Pending) + 1
  /\ \A r \in Pending : Cardinality(Pending \ {r}) = Cardinality(Pending) - 1
<1>1. IsFiniteSet(Pending)
  BY HTTPAssumption, FS_Subset DEF Pending
<1> QED BY <1>1, FS_CardinalityType, FS_AddElement, FS_RemoveElement

LEMMA SumsTyped ==
  ASSUME StatsTypeOK PROVE \A field \in PortCounter : PortSum(field) \in Int
<1> TAKE field \in PortCounter
<1>1. [p \in Port |-> perPort[<<p, field>>]] \in [Port -> Int]
  BY DEF StatsTypeOK
<1> QED BY <1>1, PortFinite, TotalType DEF PortSum

\* What an operation on port q does to the sums over the ports.
LEMMA SumsChange ==
  ASSUME StatsTypeOK, StatsTypeOK', NEW q \in Port, NEW field \in PortCounter, NEW n \in Int,
         perPort'[<<q, field>>] = perPort[<<q, field>>] + n,
         \A p \in Port \ {q} : perPort'[<<p, field>>] = perPort[<<p, field>>]
  PROVE  PortSum(field)' = PortSum(field) + n
<1> DEFINE f == [p \in Port |-> perPort[<<p, field>>]]
           g == [p \in Port |-> perPort'[<<p, field>>]]
<1>1. /\ f \in [Port -> Int] /\ g \in [Port -> Int]
      /\ g[q] = f[q] + n /\ \A p \in Port \ {q} : g[p] = f[p]
  BY DEF StatsTypeOK
<1>2. PortSum(field) = Total(f) /\ PortSum(field)' = Total(g)
  BY DEF PortSum
<1> HIDE DEF f, g
<1>3. Total(g) = Total(f) + g[q] - f[q] /\ Total(f) \in Int
  <2>1. IsFiniteSet(Port)
    BY PortFinite
  <2>2. Total(f) \in Int
    BY <1>1, <2>1, TotalType
  <2>3. Total(g) = Total(f) + g[q] - f[q]
    BY <1>1, <2>1, TotalChange
  <2> QED BY <2>2, <2>3
<1>4. f[q] \in Int
  BY <1>1
<1>5. Total(g) = Total(f) + n
  BY <1>1, <1>3, <1>4
<1> QED BY <1>2, <1>5, Zenon

LEMMA SumsUp ==
  ASSUME StatsTypeOK, StatsTypeOK', NEW q \in Port, NEW F, perPort' = Add(perPort, {q} \X F)
  PROVE  \A field \in PortCounter :
           PortSums'[field] = PortSums[field] + (IF field \in F THEN 1 ELSE 0)
<1> TAKE field \in PortCounter
<1>1. \A p \in Port : <<p, field>> \in DOMAIN perPort /\ perPort[<<p, field>>] \in Nat
  BY DEF StatsTypeOK
<1>2. perPort'[<<q, field>>] = perPort[<<q, field>>] + (IF field \in F THEN 1 ELSE 0)
  BY <1>1 DEF Add
<1>3. \A p \in Port \ {q} : perPort'[<<p, field>>] = perPort[<<p, field>>]
  BY <1>1 DEF Add
<1>4. (IF field \in F THEN 1 ELSE 0) \in Int
  OBVIOUS
<1>5. PortSum(field)' = PortSum(field) + (IF field \in F THEN 1 ELSE 0)
  BY <1>2, <1>3, <1>4, SumsChange
<1> QED BY <1>5 DEF PortSums

LEMMA SumsDown ==
  ASSUME StatsTypeOK, StatsTypeOK', NEW q \in Port,
         perPort[<<q, "active">>] > 0, perPort' = Sub(perPort, {q} \X {"active"})
  PROVE  \A field \in PortCounter :
           PortSums'[field] = PortSums[field] - (IF field = "active" THEN 1 ELSE 0)
<1> TAKE field \in PortCounter
<1>1. \A p \in Port : <<p, field>> \in DOMAIN perPort /\ perPort[<<p, field>>] \in Nat
  BY DEF StatsTypeOK
<1>2. perPort'[<<q, field>>] = perPort[<<q, field>>] + (IF field = "active" THEN -1 ELSE 0)
  BY <1>1 DEF Sub
<1>3. \A p \in Port \ {q} : perPort'[<<p, field>>] = perPort[<<p, field>>]
  BY <1>1 DEF Sub
<1>4. (IF field = "active" THEN -1 ELSE 0) \in Int
  OBVIOUS
<1>5. PortSum(field)' = PortSum(field) + (IF field = "active" THEN -1 ELSE 0)
  BY <1>2, <1>3, <1>4, SumsChange
<1>6. PortSum(field) \in Int
  BY SumsTyped
<1> QED BY <1>5, <1>6 DEF PortSums

LEMMA TotalUp ==
  ASSUME StatsTypeOK, NEW S, total' = Add(total, S)
  PROVE  \A x \in Counter : total'[x] = total[x] + (IF x \in S THEN 1 ELSE 0)
BY DEF StatsTypeOK, Add

LEMMA TotalDown ==
  ASSUME StatsTypeOK, NEW y \in Counter, total[y] > 0, total' = Sub(total, {y})
  PROVE  \A x \in Counter : total'[x] = total[x] - (IF x = y THEN 1 ELSE 0)
BY DEF StatsTypeOK, Sub

\* The numbers of a ledger.
Numbers(t, sum) ==
  /\ \A x \in Counter : t[x] \in Int
  /\ \A field \in PortCounter : sum[field] \in Int

\* Adding one to the counters in S of t and in F of sum.
Posted(t, u, sum, sum2, S, F) ==
  /\ \A x \in Counter : u[x] = t[x] + (IF x \in S THEN 1 ELSE 0)
  /\ \A field \in PortCounter : sum2[field] = sum[field] + (IF field \in F THEN 1 ELSE 0)

LEMMA Post ==
  ASSUME NEW t, NEW u, NEW sum, NEW sum2, Numbers(t, sum),
         NEW S, NEW F, Posted(t, u, sum, sum2, S, F),
         NEW n \in Int, NEW m \in Int, BooksOf(t, sum, n),
         \/ m = n /\ S = {"activeTCP", "tcpTotal", "TCP"} /\ F = {"connections", "active"}
         \/ m = n /\ S = {} /\ F = {"errors"}
         \/ m = n /\ S = {"udpPackets", "UDP"} /\ F = {"packets"}
         \/ m <= n + 1 /\ S = {"httpReqs", "HTTP"} /\ F = {"requests"}
         \/ m = n - 1 /\ S = {"activeWS", "WebSocket"} /\ F = {"connections", "active"}
         \/ m = n /\ S = {"TLS"} /\ F = {"connections"}
         \/ m = n - 1 /\ S = {"downloads", "Download"} /\ F = {"requests"}
         \/ m = n - 1 /\ S = {"downloads", "Download", "failedDL"} /\ F = {"requests", "errors"}
  PROVE  BooksOf(u, sum2, m)
BY DEF Numbers, Posted, BooksOf, Counter, Protocol, PortCounter

LEMMA Unpost ==
  ASSUME NEW t, NEW u, NEW sum, NEW sum2, Numbers(t, sum), NEW n \in Int, BooksOf(t, sum, n),
         NEW y \in {"activeTCP", "activeWS"},
         \A x \in Counter : u[x] = t[x] - (IF x = y THEN 1 ELSE 0),
         \A field \in PortCounter : sum2[field] = sum[field] - (IF field = "active" THEN 1 ELSE 0)
  PROVE  BooksOf(u, sum2, n)
BY DEF Numbers, BooksOf, Counter, Protocol, PortCounter

LEMMA StatsNumbers == ASSUME StatsTypeOK PROVE Numbers(total, PortSums)
<1>1. \A field \in PortCounter : PortSums[field] \in Int
  BY SumsTyped DEF PortSums
<1> QED BY <1>1 DEF Numbers, StatsTypeOK

\* Each operation of stats.go keeps the books.
LEMMA Booked ==
  ASSUME StatsTypeOK, StatsTypeOK', NEW q \in Port, NEW n \in Int, NEW m \in Int,
         BooksOf(total, PortSums, n),
         \/ m = n /\ (TCPConnect(q) \/ TCPError(q) \/ UDPPacket(q) \/ TLSHandshake(q))
         \/ m <= n + 1 /\ HTTPRequest(q)
         \/ m = n - 1 /\ (WSConnect(q) \/ \E failed \in BOOLEAN : Download(q, failed))
  PROVE  BooksOf(total', PortSums', m)
<1> DEFINE Goal == BooksOf(total', PortSums', m)
<1>1. ASSUME NEW S, NEW F, total' = Add(total, S), perPort' = Add(perPort, {q} \X F)
      PROVE  Posted(total, total', PortSums, PortSums', S, F)
  BY <1>1, TotalUp, SumsUp DEF Posted
<1>n. Numbers(total, PortSums)
  BY StatsNumbers
<1>2. ASSUME TCPConnect(q), m = n PROVE Goal
  <2>1. Posted(total, total', PortSums, PortSums', {"activeTCP", "tcpTotal", "TCP"},
               {"connections", "active"})
    BY <1>1, <1>2 DEF TCPConnect
  <2> QED BY <1>2, <1>n, <2>1, Post
<1>3. ASSUME TCPError(q), m = n PROVE Goal
  <2>1. total' = Add(total, {}) /\ perPort' = Add(perPort, {q} \X {"errors"})
    BY <1>3 DEF TCPError, Add, StatsTypeOK
  <2>2. Posted(total, total', PortSums, PortSums', {}, {"errors"})
    BY <1>1, <2>1
  <2> QED BY <1>3, <1>n, <2>2, Post
<1>4. ASSUME UDPPacket(q), m = n PROVE Goal
  <2>1. Posted(total, total', PortSums, PortSums', {"udpPackets", "UDP"}, {"packets"})
    BY <1>1, <1>4 DEF UDPPacket
  <2> QED BY <1>4, <1>n, <2>1, Post
<1>5. ASSUME TLSHandshake(q), m = n PROVE Goal
  <2>1. Posted(total, total', PortSums, PortSums', {"TLS"}, {"connections"})
    BY <1>1, <1>5 DEF TLSHandshake
  <2> QED BY <1>5, <1>n, <2>1, Post
<1>6. ASSUME HTTPRequest(q), m <= n + 1 PROVE Goal
  <2>1. Posted(total, total', PortSums, PortSums', {"httpReqs", "HTTP"}, {"requests"})
    BY <1>1, <1>6 DEF HTTPRequest
  <2> QED BY <1>6, <1>n, <2>1, Post
<1>7. ASSUME WSConnect(q), m = n - 1 PROVE Goal
  <2>1. Posted(total, total', PortSums, PortSums', {"activeWS", "WebSocket"},
               {"connections", "active"})
    BY <1>1, <1>7 DEF WSConnect
  <2> QED BY <1>7, <1>n, <2>1, Post
<1>8. ASSUME Download(q, FALSE), m = n - 1 PROVE Goal
  <2>1. /\ total' = Add(total, {"downloads", "Download"})
        /\ perPort' = Add(perPort, {q} \X {"requests"})
    BY <1>8 DEF Download
  <2>2. Posted(total, total', PortSums, PortSums', {"downloads", "Download"}, {"requests"})
    BY <1>1, <2>1
  <2> QED BY <1>8, <1>n, <2>2, Post
<1>9. ASSUME Download(q, TRUE), m = n - 1 PROVE Goal
  <2>1. /\ total' = Add(total, {"downloads", "Download", "failedDL"})
        /\ perPort' = Add(perPort, {q} \X {"requests", "errors"})
    <3>1. /\ {"downloads", "Download", "failedDL"} = {"downloads", "Download"} \cup {"failedDL"}
          /\ {"requests", "errors"} = {"requests"} \cup {"errors"}
      OBVIOUS
    <3>2. /\ total' = Add(total, {"downloads", "Download"} \cup {"failedDL"})
          /\ perPort' = Add(perPort, {q} \X ({"requests"} \cup {"errors"}))
      BY <1>9 DEF Download
    <3> QED BY <3>1, <3>2
  <2>2. Posted(total, total', PortSums, PortSums', {"downloads", "Download", "failedDL"},
               {"requests", "errors"})
    BY <1>1, <2>1
  <2> QED BY <1>9, <1>n, <2>2, Post
<1> HIDE DEF Goal
<1> QED BY <1>2, <1>3, <1>4, <1>5, <1>6, <1>7, <1>8, <1>9, Zenon DEF Goal

\* An end of a connection or of a session that was counted.
LEMMA Unbooked ==
  ASSUME StatsTypeOK, StatsTypeOK', NEW q \in Port, NEW n \in Int,
         BooksOf(total, PortSums, n), perPort[<<q, "active">>] > 0,
         \/ TCPDisconnect(q) /\ total["activeTCP"] > 0
         \/ WSDisconnect(q) /\ total["activeWS"] > 0
  PROVE  BooksOf(total', PortSums', n)
<1>1. PICK y \in {"activeTCP", "activeWS"} :
        total[y] > 0 /\ total' = Sub(total, {y}) /\ perPort' = Sub(perPort, {q} \X {"active"})
  BY DEF TCPDisconnect, WSDisconnect
<1>2. \A field \in PortCounter :
        PortSums'[field] = PortSums[field] - (IF field = "active" THEN 1 ELSE 0)
  BY <1>1, SumsDown
<1>3. y \in Counter
  BY DEF Counter
<1>4. \A x \in Counter : total'[x] = total[x] - (IF x = y THEN 1 ELSE 0)
  BY <1>1, <1>3, TotalDown
<1> QED BY <1>2, <1>4, StatsNumbers, Unpost

LEMMA GaugesPositive ==
  ASSUME Gauges, StatsTypeOK
  PROVE  /\ \A c \in TCPRecorded :
              total["activeTCP"] > 0 /\ perPort[<<ConnPort[c], "active">>] > 0
         /\ \A r \in Sessions :
              total["activeWS"] > 0 /\ perPort[<<ReqPort[r], "active">>] > 0
<1>f. /\ IsFiniteSet(Conn) /\ TCPRecorded \subseteq Conn
      /\ IsFiniteSet(Request) /\ Sessions \subseteq Request
  BY ConnAssumption, HTTPAssumption DEF TCPRecorded, Sessions
<1>p. /\ \A c \in Conn : ConnPort[c] \in Port
      /\ \A r \in Request : ReqPort[r] \in Port
  BY ConnAssumption, HTTPAssumption
<1>n. \A p : /\ Cardinality(PartOf(TCPRecorded, ConnPort, p)) \in Nat
             /\ Cardinality(PartOf(Sessions, ReqPort, p)) \in Nat
  BY <1>f, FS_Subset, FS_CardinalityType DEF PartOf
<1>1. ASSUME NEW c \in TCPRecorded
      PROVE  total["activeTCP"] > 0 /\ perPort[<<ConnPort[c], "active">>] > 0
  <2>1. Cardinality(TCPRecorded) \in Nat /\ Cardinality(TCPRecorded) # 0
    BY <1>f, FS_Subset, FS_CardinalityType, FS_EmptySet
  <2>2. Cardinality(PartOf(TCPRecorded, ConnPort, ConnPort[c])) > 0
    BY <1>f, PartLoses
  <2>3. /\ total["activeTCP"] = Cardinality(TCPRecorded)
        /\ perPort[<<ConnPort[c], "active">>] =
             Cardinality(PartOf(TCPRecorded, ConnPort, ConnPort[c]))
               + Cardinality(PartOf(Sessions, ReqPort, ConnPort[c]))
    BY <1>f, <1>p DEF Gauges, GaugesOf
  <2> QED BY ONLY <1>n, <2>1, <2>2, <2>3
<1>2. ASSUME NEW r \in Sessions
      PROVE  total["activeWS"] > 0 /\ perPort[<<ReqPort[r], "active">>] > 0
  <2>1. Cardinality(Sessions) \in Nat /\ Cardinality(Sessions) # 0
    BY <1>f, FS_Subset, FS_CardinalityType, FS_EmptySet
  <2>2. Cardinality(PartOf(Sessions, ReqPort, ReqPort[r])) > 0
    BY <1>f, PartLoses
  <2>3. /\ total["activeWS"] = Cardinality(Sessions)
        /\ perPort[<<ReqPort[r], "active">>] =
             Cardinality(PartOf(TCPRecorded, ConnPort, ReqPort[r]))
               + Cardinality(PartOf(Sessions, ReqPort, ReqPort[r]))
    BY <1>f, <1>p DEF Gauges, GaugesOf
  <2> QED BY ONLY <1>n, <2>1, <2>2, <2>3
<1> QED BY <1>1, <1>2

LEMMA PendingStays == UNCHANGED httpVars => Pending' = Pending
BY DEF httpVars, Pending

\* The events of the TCP listeners.
LEMMA TCPBooks ==
  ASSUME StatsTypeOK, StatsTypeOK', TCPTypeOK, Gauges, NEW n \in Int,
         BooksOf(total, PortSums, n), TCPNext \/ \E p \in Port : TCPListen(p)
  PROVE  BooksOf(total', PortSums', n)
<1>1. \/ UNCHANGED stats
      \/ \E c \in Conn : \/ TCPConnect(ConnPort[c]) \/ TCPError(ConnPort[c])
                         \/ c \in TCPRecorded /\ TCPDisconnect(ConnPort[c])
  <2>1. ASSUME NEW c \in Conn, HandleDisconnect(c)
        PROVE  c \in TCPRecorded /\ TCPDisconnect(ConnPort[c])
    BY <2>1 DEF HandleDisconnect, TCPRecorded
  <2>2. ASSUME NEW c \in Conn, Accept(c) \/ Handle(c) \/ Peer(c), ~HandleDisconnect(c)
        PROVE  UNCHANGED stats \/ TCPConnect(ConnPort[c]) \/ TCPError(ConnPort[c])
    BY <2>2, Zenon DEF Accept, Handle, HandleStart, ReadEcho, WriteFail, ReadTimeout, ReadEOF,
       ReadError, HandleDone, Peer, Dial, PeerSend, PeerClose, PeerReset, contextVars
  <2>3. ASSUME NEW p \in Port, TCPListen(p) \/ TCPCloseListener(p) \/ ServeReturn(p)
        PROVE  UNCHANGED stats
    BY <2>3, Zenon DEF TCPListen, TCPCloseListener, ServeReturn
  <2> QED BY <2>1, <2>2, <2>3, Zenon DEF TCPNext
<1>2. CASE UNCHANGED stats
  BY <1>2 DEF stats, PortSums, PortSum
<1>3. ASSUME NEW c \in Conn, TCPConnect(ConnPort[c]) \/ TCPError(ConnPort[c])
      PROVE  BooksOf(total', PortSums', n)
  BY <1>3, ConnAssumption, Booked
<1>4. ASSUME NEW c \in TCPRecorded, TCPDisconnect(ConnPort[c])
      PROVE  BooksOf(total', PortSums', n)
  <2>1. ConnPort[c] \in Port /\ total["activeTCP"] > 0 /\ perPort[<<ConnPort[c], "active">>] > 0
    BY ConnAssumption, GaugesPositive DEF TCPRecorded
  <2> QED BY <1>4, <2>1, Unbooked
<1> QED BY <1>1, <1>2, <1>3, <1>4, Zenon

\* The events of the HTTP listeners, and the requests between their two.
LEMMA HTTPBooks ==
  ASSUME StatsTypeOK, StatsTypeOK', HTTPTypeOK, Gauges, Books,
         HTTPNext \/ \E p \in HTTPPorts : HTTPRun(p)
  PROVE  Books'
<1>p. \A r \in Request : ReqPort[r] \in Port
  BY HTTPAssumption
<1>b. Cardinality(Pending) \in Int /\ BooksOf(total, PortSums, Cardinality(Pending))
  BY PendingCount DEF Books
<1>1. ASSUME UNCHANGED stats, Pending' = Pending PROVE Books'
  BY <1>1, <1>b DEF Books, stats, PortSums, PortSum
<1>2. ASSUME NEW p \in HTTPPorts, HTTPRun(p) \/ HTTPListener(p) \/ HTTPShutdown(p)
      PROVE  UNCHANGED stats /\ Pending' = Pending
  <2>1. UNCHANGED <<stats, req>>
    BY <1>2, Zenon DEF HTTPRun, HTTPListener, HTTPBind, HTTPNoBind, ServeClosed,
       HTTPShutdown, ShutdownCall, ShutdownDrained, ShutdownTimeout
  <2> QED BY <2>1 DEF Pending
<1>3. ASSUME NEW r \in Request, HTTPAccept(r) \/ HTTPAbort(r) \/ RespondSimple(r) \/ Hijack(r)
      PROVE  UNCHANGED stats /\ Pending' = Pending
  <2>1. UNCHANGED stats
    BY <1>3, Zenon DEF HTTPAccept, HTTPAbort, RespondSimple, Hijack, contextVars
  <2>2. Pending' = Pending
    BY <1>3 DEF HTTPAccept, HTTPAbort, RespondSimple, Hijack, Pending, HTTPTypeOK
  <2> QED BY <2>1, <2>2
<1>4. ASSUME NEW r \in Request, LogMiddleware(r) PROVE Books'
  <2>1. /\ HTTPRequest(ReqPort[r])
        /\ r \in Request \ Pending /\ (Pending' = Pending \/ Pending' = Pending \cup {r})
    BY <1>4, HTTPAssumption DEF LogMiddleware, Pending, HTTPTypeOK
  <2>2. Cardinality(Pending') \in Int /\ Cardinality(Pending') <= Cardinality(Pending) + 1
    BY <2>1, PendingCount
  <2> QED BY <1>p, <1>b, <2>1, <2>2, Booked DEF Books
<1>5. ASSUME NEW r \in Request, RespondDownload(r) \/ WSOpen(r) PROVE Books'
  <2>1. WSConnect(ReqPort[r]) \/ \E failed \in BOOLEAN : Download(ReqPort[r], failed)
    BY <1>5, Zenon DEF RespondDownload, WSOpen
  <2>2. r \in Pending /\ Pending' = Pending \ {r}
    BY <1>5 DEF RespondDownload, WSOpen, Pending, HTTPTypeOK
  <2>3. Cardinality(Pending') \in Int /\ Cardinality(Pending') = Cardinality(Pending) - 1
    BY <2>2, PendingCount
  <2> QED BY <1>p, <1>b, <2>1, <2>3, Booked DEF Books
<1>6. ASSUME NEW r \in Request, WSClose(r) PROVE Books'
  <2>1. WSDisconnect(ReqPort[r]) /\ r \in Sessions
    BY <1>6 DEF WSClose, Sessions
  <2>2. Pending' = Pending
    BY <1>6 DEF WSClose, Pending, HTTPTypeOK
  <2>3. total["activeWS"] > 0 /\ perPort[<<ReqPort[r], "active">>] > 0
    BY <2>1, GaugesPositive
  <2>4. BooksOf(total', PortSums', Cardinality(Pending))
    BY <1>p, <1>b, <2>1, <2>3, Unbooked
  <2> QED BY <2>2, <2>4 DEF Books
<1> QED BY <1>1, <1>2, <1>3, <1>4, <1>5, <1>6, Zenon DEF HTTPNext, HTTPRequestStep

LEMMA TLSStaysReal == Inv /\ TLSReal /\ [Next]_vars => TLSReal'
<1> SUFFICES ASSUME Inv, TLSReal, TLSPort \notin Port, [Next]_vars PROVE TLSReal'
  BY DEF TLSReal
<1>t. ~(TLSPort > 0) /\ tcloser # "waiting" /\ tlistener = "none"
      /\ \A c \in TLSConn : tconn[c] = "none"
  BY TLSAssumption DEF Inv, Order, TLSOrder, TLSReal
<1>1. CASE TLSStep
  <2>1. UNCHANGED <<tlistener, tconn>>
    BY <1>1, <1>t DEF TLSStep, TLSNext, TLSCloseListener, TLSServeReturn, TLSAccept, TLSHandle,
       HandshakeOK, HandshakeFail, Greet, TLSDone, TLSDial
  <2> QED BY <1>t, <2>1 DEF TLSReal
<1>2. CASE StartTLS
  BY <1>2, <1>t DEF StartTLS, TLSReal, tlsVars
<1>3. ASSUME UNCHANGED tlsVars PROVE TLSReal'
  BY <1>3, <1>t DEF TLSReal, tlsVars
<1> QED BY <1>1, <1>2, <1>3, Zenon DEF Next, MainNext, StartTCPPort, StartUDPPort, ListenFails,
   RunReturns, StartHTTP, StartWebSocket, SignalReceived, WaitReturns, MainReturns,
   TCPStep, UDPStep, HTTPStep, SignalStep, Ended, vars

LEMMA NextKeepsBooks == Inv /\ Inv' /\ Gauges /\ TLSReal /\ Books /\ [Next]_vars => Books'
<1> SUFFICES ASSUME Inv, Inv', Gauges, TLSReal, Books, [Next]_vars PROVE Books'
  OBVIOUS
<1>t. StatsTypeOK /\ StatsTypeOK' /\ TCPTypeOK /\ HTTPTypeOK
  BY Zenon DEF Inv, Typed, ContextTyped
<1>b. Cardinality(Pending) \in Int /\ BooksOf(total, PortSums, Cardinality(Pending))
  BY PendingCount DEF Books
<1>s. ASSUME UNCHANGED httpVars, BooksOf(total', PortSums', Cardinality(Pending)) PROVE Books'
  BY <1>s, PendingStays DEF Books
<1>u. ASSUME UNCHANGED stats, UNCHANGED httpVars PROVE Books'
  BY <1>u, <1>b, <1>s DEF stats, PortSums, PortSum
<1>1. ASSUME TCPNext \/ (\E p \in Port : TCPListen(p)), UNCHANGED httpVars PROVE Books'
  BY <1>1, <1>t, <1>b, <1>s, TCPBooks
<1>2. ASSUME HTTPNext \/ (\E p \in HTTPPorts : HTTPRun(p)) PROVE Books'
  BY <1>2, <1>t, HTTPBooks
<1>3. ASSUME NEW q \in Port, TLSHandshake(q) \/ UDPPacket(q), UNCHANGED httpVars PROVE Books'
  BY <1>3, <1>t, <1>b, <1>s, Booked
<1>4. CASE StartTCPPort
  <2>1. (\E p \in Port : TCPListen(p)) /\ UNCHANGED httpVars
    BY <1>4, ServerConfigAssumption DEF StartTCPPort, tcpPorts, withoutPort
  <2> QED BY <1>1, <2>1, Zenon
<1>5. CASE StartHTTP \/ StartWebSocket
  <2>1. \/ \E p \in HTTPPorts : HTTPRun(p)
        \/ UNCHANGED <<stats, httpVars>>
    BY <1>5, ServerConfigAssumption DEF StartHTTP, StartWebSocket, contextVars
  <2> QED BY <1>2, <1>u, <2>1, Zenon
<1>6. CASE StartUDPPort \/ StartTLS \/ ListenFails \/ RunReturns \/ SignalReceived
           \/ WaitReturns \/ MainReturns
  BY <1>u, <1>6, Zenon DEF StartUDPPort, UDPListen, StartTLS, TLSListen, ListenFails,
     RunReturns, SignalReceived, WaitReturns, MainReturns, contextVars
<1>7. CASE TCPStep
  BY <1>1, <1>7, Zenon DEF TCPStep
<1>8. CASE UDPStep
  <2>1. UNCHANGED stats \/ \E p \in Port : UDPPacket(p)
    BY <1>8, Zenon DEF UDPStep, UDPNext, UDPCloseSocket, UDPEcho, UDPReturn, UDPArrive,
       contextVars
  <2> QED BY <1>3, <1>u, <1>8, <2>1, Zenon DEF UDPStep
<1>9. CASE HTTPStep
  BY <1>2, <1>9, Zenon DEF HTTPStep
<1>10. CASE TLSStep
  <2>1. UNCHANGED stats \/ (TLSHandshake(TLSPort) /\ \E c \in TLSConn : tconn[c] = "handshake")
    BY <1>10, Zenon DEF TLSStep, TLSNext, TLSCloseListener, TLSServeReturn, TLSAccept,
       TLSHandle, HandshakeOK, HandshakeFail, Greet, TLSDone, TLSDial, contextVars
  <2>2. UNCHANGED stats \/ (TLSHandshake(TLSPort) /\ TLSPort \in Port)
    BY <2>1 DEF TLSReal
  <2> QED BY <1>3, <1>u, <1>10, <2>2, Zenon DEF TLSStep
<1>11. CASE SignalStep \/ Ended \/ UNCHANGED vars
  BY <1>u, <1>11, Zenon DEF SignalStep, Ended, vars, contextVars
<1> QED
  BY <1>4, <1>5, <1>6, <1>7, <1>8, <1>9, <1>10, <1>11, Zenon DEF Next, MainNext

LEMMA InitBooks == Init => TLSReal /\ Books
<1> SUFFICES ASSUME Init PROVE TLSReal /\ Books
  OBVIOUS
<1>1. TLSReal
  BY DEF Init, TLSInit, TLSReal
<1>2. \A x \in Counter : total[x] = 0
  BY DEF Init, ContextInit, NewServerStats
<1>3. ASSUME NEW field \in PortCounter PROVE PortSum(field) = 0
  <2>1. /\ [p \in Port |-> perPort[<<p, field>>]] \in [Port -> Int]
        /\ \A p \in Port : [r \in Port |-> perPort[<<r, field>>]][p] = 0
    BY DEF Init, ContextInit, NewServerStats
  <2> QED BY <2>1, PortFinite, TotalZero DEF PortSum
<1>4. \A field \in PortCounter : PortSums[field] = 0
  BY <1>3 DEF PortSums
<1>5. Pending = {}
  BY DEF Init, HTTPInit, Pending
<1>6. Cardinality(Pending) = 0
  BY <1>5, FS_EmptySet
<1>7. Books
  BY <1>2, <1>4, <1>6 DEF Books, BooksOf, Counter, Protocol, PortCounter
<1> QED BY <1>1, <1>7

LEMMA BooksMeanLedger == StatsTypeOK /\ Books => StatsLedger
<1> SUFFICES ASSUME StatsTypeOK, Books PROVE StatsLedger
  OBVIOUS
<1>1. \A field \in PortCounter : PortSums[field] = PortSum(field)
  BY DEF PortSums
<1>2. Cardinality(Pending) \in Nat
  BY PendingCount
<1>3. \A x \in Counter : total[x] \in Nat
  BY DEF StatsTypeOK
<1> QED BY <1>1, <1>2, <1>3 DEF Books, BooksOf, StatsLedger, Counter, Protocol, PortCounter

\* A snapshot of the statistics is consistent: the counters of the ports add up
\* to those of the process, though nine operations write them (stats.go:158).
THEOREM LedgerBalances == Spec => []StatsLedger
<1>1. Init => Inv /\ Gauges /\ TLSReal /\ Books
  BY InitEstablishesInv, InitEstablishesGauges, InitBooks
<1>2. Inv /\ Gauges /\ TLSReal /\ Books /\ [Next]_vars => (Inv /\ Gauges /\ TLSReal /\ Books)'
  BY NextPreservesInv, NextPreservesGauges, TLSStaysReal, NextKeepsBooks
<1>3. Inv /\ Gauges /\ TLSReal /\ Books => StatsLedger
  BY BooksMeanLedger DEF Inv, Typed, ContextTyped
<1> QED BY <1>1, <1>2, <1>3, PTL DEF Spec

-----------------------------------------------------------------------------
\* A set of goroutines stays, loses one, or gains one while another runs.
OneTask(S, T) ==
  \/ T = S
  \/ \E t \in S : T = S \ {t}
  \/ S # {} /\ \E t : t \notin S /\ T = S \cup {t}

LEMMA OneTaskOfMore ==
  ASSUME NEW S, NEW T, OneTask(S, T), NEW R, S \cap R = {}, T \cap R = {}
  PROVE  OneTask(S \cup R, T \cup R)
BY DEF OneTask

LEMMA TagGains ==
  ASSUME NEW k, NEW A, NEW x, x \notin A, NEW B, B = A \cup {x}
  PROVE  /\ {k} \X B = ({k} \X A) \cup {<<k, x>>}
         /\ <<k, x>> \notin {k} \X A
OBVIOUS

LEMMA TagLoses ==
  ASSUME NEW k, NEW A, NEW x \in A, NEW B, B = A \ {x}
  PROVE  /\ {k} \X B = ({k} \X A) \ {<<k, x>>}
         /\ <<k, x>> \in {k} \X A
OBVIOUS

\* One of two tagged sets changes.
LEMMA PairGains ==
  ASSUME NEW k, NEW l, k # l, NEW A, NEW B, NEW x, x \notin A, NEW C, C = A \cup {x},
         A # {} \/ B # {}
  PROVE  OneTask(({k} \X A) \cup ({l} \X B), ({k} \X C) \cup ({l} \X B))
<1> DEFINE S == ({k} \X A) \cup ({l} \X B)
           T == ({k} \X C) \cup ({l} \X B)
<1>1. T = S \cup {<<k, x>>} /\ <<k, x>> \notin S
  OBVIOUS
<1>2. S # {}
  <2>1. CASE \E y \in A : TRUE
    <3>1. PICK y \in A : TRUE
      BY <2>1
    <3>2. <<k, y>> \in S
      OBVIOUS
    <3> QED BY <3>2
  <2>2. CASE \E y \in B : TRUE
    <3>1. PICK y \in B : TRUE
      BY <2>2
    <3>2. <<l, y>> \in S
      OBVIOUS
    <3> QED BY <3>2
  <2> QED BY <2>1, <2>2
<1> HIDE DEF S, T
<1>3. OneTask(S, T)
  BY <1>1, <1>2 DEF OneTask
<1> QED BY <1>3 DEF S, T

LEMMA PairLoses ==
  ASSUME NEW k, NEW l, k # l, NEW A, NEW B, NEW x \in A, NEW C, C = A \ {x}
  PROVE  OneTask(({k} \X A) \cup ({l} \X B), ({k} \X C) \cup ({l} \X B))
<1> DEFINE S == ({k} \X A) \cup ({l} \X B)
           T == ({k} \X C) \cup ({l} \X B)
<1>1. T = S \ {<<k, x>>} /\ <<k, x>> \in S
  OBVIOUS
<1> HIDE DEF S, T
<1>2. OneTask(S, T)
  BY <1>1 DEF OneTask
<1> QED BY <1>2 DEF S, T

LEMMA TCPTaskStep == TCPTypeOK /\ TCPNext => OneTask(TCPTasks, TCPTasks')
<1> SUFFICES ASSUME TCPTypeOK, TCPNext PROVE OneTask(TCPTasks, TCPTasks')
  OBVIOUS
<1>s. ASSUME TCPServing' = TCPServing, TCPHandlers' = TCPHandlers
      PROVE  OneTask(TCPTasks, TCPTasks')
  BY <1>s DEF OneTask, TCPTasks
<1>1. ASSUME NEW p \in Port, TCPCloseListener(p) PROVE OneTask(TCPTasks, TCPTasks')
  BY <1>1, <1>s DEF TCPCloseListener, TCPServing, TCPHandlers
<1>2. ASSUME NEW p \in Port, ServeReturn(p) PROVE OneTask(TCPTasks, TCPTasks')
  <2>1. TCPServing' = TCPServing \ {p} /\ p \in TCPServing /\ TCPHandlers' = TCPHandlers
    BY <1>2 DEF ServeReturn, TCPServing, TCPHandlers, TCPTypeOK
  <2> QED BY <2>1, PairLoses DEF TCPTasks
<1>3. ASSUME NEW c \in Conn, Accept(c) PROVE OneTask(TCPTasks, TCPTasks')
  <2>1. /\ TCPHandlers' = TCPHandlers \cup {c} /\ c \notin TCPHandlers
        /\ TCPServing' = TCPServing /\ ConnPort[c] \in TCPServing
    BY <1>3, ConnAssumption DEF Accept, TCPHandlers, TCPServing, TCPTypeOK
  <2>2. OneTask(({"tcphandler"} \X TCPHandlers) \cup ({"tcploop"} \X TCPServing),
                ({"tcphandler"} \X TCPHandlers') \cup ({"tcploop"} \X TCPServing))
    BY <2>1, PairGains
  <2> QED BY <2>1, <2>2 DEF TCPTasks
<1>4. ASSUME NEW c \in Conn, HandleDone(c) PROVE OneTask(TCPTasks, TCPTasks')
  <2>1. /\ TCPHandlers' = TCPHandlers \ {c} /\ c \in TCPHandlers /\ TCPServing' = TCPServing
    BY <1>4 DEF HandleDone, TCPHandlers, TCPServing, TCPTypeOK
  <2>2. OneTask(({"tcphandler"} \X TCPHandlers) \cup ({"tcploop"} \X TCPServing),
                ({"tcphandler"} \X TCPHandlers') \cup ({"tcploop"} \X TCPServing))
    BY <2>1, PairLoses
  <2> QED BY <2>1, <2>2 DEF TCPTasks
<1>5. ASSUME NEW c \in Conn, Handle(c), ~HandleDone(c) PROVE OneTask(TCPTasks, TCPTasks')
  BY <1>5, <1>s, ConnAssumption DEF Handle, HandleStart, ReadEcho, WriteFail, ReadTimeout,
     ReadEOF, ReadError, HandleDisconnect, TCPServing, TCPHandlers, TCPTypeOK
<1>6. ASSUME NEW c \in Conn, Peer(c) PROVE OneTask(TCPTasks, TCPTasks')
  BY <1>6, <1>s DEF Peer, Dial, PeerSend, PeerClose, PeerReset, TCPServing, TCPHandlers, TCPTypeOK
<1> QED BY <1>1, <1>2, <1>3, <1>4, <1>5, <1>6, Zenon DEF TCPNext

LEMMA UDPTaskStep == UDPTypeOK /\ UDPNext => OneTask(UDPTasks, UDPTasks')
<1> SUFFICES ASSUME UDPTypeOK, UDPNext PROVE OneTask(UDPTasks, UDPTasks')
  OBVIOUS
<1>1. ASSUME NEW p \in Port, UDPReturn(p) PROVE OneTask(UDPTasks, UDPTasks')
  <2>1. UDPServing' = UDPServing \ {p} /\ p \in UDPServing
    BY <1>1 DEF UDPReturn, UDPServing, UDPTypeOK
  <2> QED BY <2>1, TagLoses DEF UDPTasks, OneTask
<1>2. ASSUME NEW p \in Port, UDPCloseSocket(p) \/ UDPEcho(p) \/ UDPArrive(p)
      PROVE  OneTask(UDPTasks, UDPTasks')
  BY <1>2 DEF UDPCloseSocket, UDPEcho, UDPArrive, UDPServing, UDPTasks, OneTask
<1> QED BY <1>1, <1>2, Zenon DEF UDPNext

LEMMA HTTPTaskStep == HTTPTypeOK /\ HTTPNext => OneTask(HTTPTasks, HTTPTasks')
<1> SUFFICES ASSUME HTTPTypeOK, HTTPNext PROVE OneTask(HTTPTasks, HTTPTasks')
  OBVIOUS
<1>s. ASSUME HTTPServing' = HTTPServing, HTTPClosers' = HTTPClosers
      PROVE  OneTask(HTTPTasks, HTTPTasks')
  BY <1>s DEF OneTask, HTTPTasks
<1>1. ASSUME NEW p \in HTTPPorts, HTTPNoBind(p) \/ ServeClosed(p)
      PROVE  OneTask(HTTPTasks, HTTPTasks')
  <2>1. HTTPServing' = HTTPServing \ {p} /\ p \in HTTPServing /\ HTTPClosers' = HTTPClosers
    BY <1>1 DEF HTTPNoBind, ServeClosed, HTTPServing, HTTPClosers, HTTPTypeOK
  <2> QED BY <2>1, PairLoses DEF HTTPTasks
<1>2. ASSUME NEW p \in HTTPPorts, ShutdownDrained(p) \/ ShutdownTimeout(p)
      PROVE  OneTask(HTTPTasks, HTTPTasks')
  <2>1. HTTPClosers' = HTTPClosers \ {p} /\ p \in HTTPClosers /\ HTTPServing' = HTTPServing
    BY <1>2 DEF ShutdownDrained, ShutdownTimeout, HTTPServing, HTTPClosers, HTTPTypeOK
  <2>2. OneTask(({"httpclose"} \X HTTPClosers) \cup ({"httpserve"} \X HTTPServing),
                ({"httpclose"} \X HTTPClosers') \cup ({"httpserve"} \X HTTPServing))
    BY <2>1, PairLoses
  <2> QED BY <2>1, <2>2 DEF HTTPTasks
<1>3. ASSUME NEW p \in HTTPPorts, HTTPBind(p) \/ ShutdownCall(p)
      PROVE  OneTask(HTTPTasks, HTTPTasks')
  BY <1>3, <1>s DEF HTTPBind, ShutdownCall, HTTPServing, HTTPClosers, HTTPTypeOK
<1>4. ASSUME NEW r \in Request, HTTPRequestStep(r) PROVE OneTask(HTTPTasks, HTTPTasks')
  <2>1. UNCHANGED <<hserve, hshut>>
    BY <1>4, Zenon DEF HTTPRequestStep, HTTPAccept, HTTPAbort, LogMiddleware,
       RespondSimple, RespondDownload, Hijack, WSOpen, WSClose
  <2> QED BY <2>1, <1>s DEF HTTPServing, HTTPClosers
<1> QED BY <1>1, <1>2, <1>3, <1>4, Zenon DEF HTTPNext, HTTPListener, HTTPShutdown

LEMMA TLSTaskStep == TLSTypeOK /\ TLSNext => OneTask(TLSTasks, TLSTasks')
<1> SUFFICES ASSUME TLSTypeOK, TLSNext PROVE OneTask(TLSTasks, TLSTasks')
  OBVIOUS
<1>s. ASSUME TLSLoops' = TLSLoops, TLSHandlers' = TLSHandlers
      PROVE  OneTask(TLSTasks, TLSTasks')
  BY <1>s DEF OneTask, TLSTasks
<1>1. CASE TLSCloseListener
  <2>1. /\ TLSLoops' = TLSLoops \ {"tcloser"} /\ "tcloser" \in TLSLoops
        /\ TLSHandlers' = TLSHandlers
    BY <1>1 DEF TLSCloseListener, TLSLoops, TLSHandlers, TLSTypeOK
  <2> QED BY <2>1, PairLoses DEF TLSTasks
<1>2. CASE TLSServeReturn
  <2>1. /\ TLSLoops' = TLSLoops \ {"taccept"} /\ "taccept" \in TLSLoops
        /\ TLSHandlers' = TLSHandlers
    BY <1>2 DEF TLSServeReturn, TLSLoops, TLSHandlers, TLSTypeOK
  <2> QED BY <2>1, PairLoses DEF TLSTasks
<1>3. ASSUME NEW c \in TLSConn, TLSAccept(c) PROVE OneTask(TLSTasks, TLSTasks')
  <2>1. /\ TLSHandlers' = TLSHandlers \cup {c} /\ c \notin TLSHandlers
        /\ TLSLoops' = TLSLoops /\ "taccept" \in TLSLoops
    BY <1>3 DEF TLSAccept, TLSHandlers, TLSLoops, TLSTypeOK
  <2>2. OneTask(({"tlshandler"} \X TLSHandlers) \cup ({"tlsloop"} \X TLSLoops),
                ({"tlshandler"} \X TLSHandlers') \cup ({"tlsloop"} \X TLSLoops))
    BY <2>1, PairGains
  <2> QED BY <2>1, <2>2 DEF TLSTasks
<1>4. ASSUME NEW c \in TLSConn, TLSDone(c) PROVE OneTask(TLSTasks, TLSTasks')
  <2>1. TLSHandlers' = TLSHandlers \ {c} /\ c \in TLSHandlers /\ TLSLoops' = TLSLoops
    BY <1>4 DEF TLSDone, TLSHandlers, TLSLoops, TLSTypeOK
  <2>2. OneTask(({"tlshandler"} \X TLSHandlers) \cup ({"tlsloop"} \X TLSLoops),
                ({"tlshandler"} \X TLSHandlers') \cup ({"tlsloop"} \X TLSLoops))
    BY <2>1, PairLoses
  <2> QED BY <2>1, <2>2 DEF TLSTasks
<1>5. ASSUME NEW c \in TLSConn, TLSDial(c) \/ HandshakeOK(c) \/ HandshakeFail(c) \/ Greet(c)
      PROVE  OneTask(TLSTasks, TLSTasks')
  BY <1>5, <1>s DEF TLSDial, HandshakeOK, HandshakeFail, Greet, TLSLoops, TLSHandlers, TLSTypeOK
<1> QED BY <1>1, <1>2, <1>3, <1>4, <1>5, Zenon DEF TLSNext, TLSHandle

-----------------------------------------------------------------------------
\* The tags keep the goroutines of the four listeners apart.
LEMMA TagsApart ==
  ASSUME NEW A, NEW B, NEW C, NEW D, NEW E, NEW F, NEW G
  PROVE  LET tcp  == ({"tcploop"} \X A) \cup ({"tcphandler"} \X B)
             udp  == {"udploop"} \X C
             http == ({"httpserve"} \X D) \cup ({"httpclose"} \X E)
             tls  == ({"tlsloop"} \X F) \cup ({"tlshandler"} \X G)
         IN  /\ tcp \cap udp = {} /\ tcp \cap http = {} /\ tcp \cap tls = {}
             /\ udp \cap http = {} /\ udp \cap tls = {} /\ http \cap tls = {}
OBVIOUS

\* The same for the goroutines now and after a step.
LEMMA PartsApart ==
  /\ \A R \in {UDPTasks, HTTPTasks, TLSTasks} : TCPTasks \cap R = {} /\ TCPTasks' \cap R = {}
  /\ \A R \in {TCPTasks, HTTPTasks, TLSTasks} : UDPTasks \cap R = {} /\ UDPTasks' \cap R = {}
  /\ \A R \in {TCPTasks, UDPTasks, TLSTasks} : HTTPTasks \cap R = {} /\ HTTPTasks' \cap R = {}
  /\ \A R \in {TCPTasks, UDPTasks, HTTPTasks} : TLSTasks \cap R = {} /\ TLSTasks' \cap R = {}
BY TagsApart DEF TCPTasks, UDPTasks, HTTPTasks, TLSTasks

LEMMA OneTaskOfAll ==
  ASSUME NEW S, NEW T, OneTask(S, T), NEW A, NEW B, NEW C,
         \A R \in {A, B, C} : S \cap R = {} /\ T \cap R = {}
  PROVE  OneTask(S \cup (A \cup B \cup C), T \cup (A \cup B \cup C))
<1> DEFINE R == A \cup B \cup C
<1>1. S \cap R = {} /\ T \cap R = {}
  OBVIOUS
<1> HIDE DEF R
<1>2. OneTask(S \cup R, T \cup R)
  BY <1>1, OneTaskOfMore
<1> QED BY <1>2 DEF R

\* Every step of a listener starts or ends at most one goroutine.
LEMMA OneTaskAStep ==
  ASSUME Inv, TCPStep \/ UDPStep \/ HTTPStep \/ TLSStep
  PROVE  OneTask(Tasks, Tasks')
<1>t. TCPTypeOK /\ UDPTypeOK /\ HTTPTypeOK /\ TLSTypeOK
  BY DEF Inv, Typed
<1>1. CASE TCPStep
  <2>1. OneTask(TCPTasks, TCPTasks')
    BY <1>1, <1>t, TCPTaskStep DEF TCPStep
  <2>2. UDPTasks' = UDPTasks /\ HTTPTasks' = HTTPTasks /\ TLSTasks' = TLSTasks
    BY <1>1 DEF TCPStep, udpVars, httpVars, tlsVars, UDPTasks, UDPServing, HTTPTasks,
       HTTPServing, HTTPClosers, TLSTasks, TLSLoops, TLSHandlers
  <2>3. OneTask(TCPTasks \cup (UDPTasks \cup HTTPTasks \cup TLSTasks),
                TCPTasks' \cup (UDPTasks \cup HTTPTasks \cup TLSTasks))
    BY <2>1, PartsApart, OneTaskOfAll
  <2>4. /\ Tasks = TCPTasks \cup (UDPTasks \cup HTTPTasks \cup TLSTasks)
        /\ Tasks' = TCPTasks' \cup (UDPTasks \cup HTTPTasks \cup TLSTasks)
    BY <2>2 DEF Tasks
  <2> QED BY <2>3, <2>4
<1>2. CASE UDPStep
  <2>1. OneTask(UDPTasks, UDPTasks')
    BY <1>2, <1>t, UDPTaskStep DEF UDPStep
  <2>2. TCPTasks' = TCPTasks /\ HTTPTasks' = HTTPTasks /\ TLSTasks' = TLSTasks
    BY <1>2 DEF UDPStep, tcpVars, httpVars, tlsVars, TCPTasks, TCPServing, TCPHandlers,
       HTTPTasks, HTTPServing, HTTPClosers, TLSTasks, TLSLoops, TLSHandlers
  <2>3. OneTask(UDPTasks \cup (TCPTasks \cup HTTPTasks \cup TLSTasks),
                UDPTasks' \cup (TCPTasks \cup HTTPTasks \cup TLSTasks))
    BY <2>1, PartsApart, OneTaskOfAll
  <2>4. /\ Tasks = UDPTasks \cup (TCPTasks \cup HTTPTasks \cup TLSTasks)
        /\ Tasks' = UDPTasks' \cup (TCPTasks \cup HTTPTasks \cup TLSTasks)
    BY <2>2 DEF Tasks
  <2> QED BY <2>3, <2>4
<1>3. CASE HTTPStep
  <2>1. OneTask(HTTPTasks, HTTPTasks')
    BY <1>3, <1>t, HTTPTaskStep DEF HTTPStep
  <2>2. TCPTasks' = TCPTasks /\ UDPTasks' = UDPTasks /\ TLSTasks' = TLSTasks
    BY <1>3 DEF HTTPStep, tcpVars, udpVars, tlsVars, TCPTasks, TCPServing, TCPHandlers,
       UDPTasks, UDPServing, TLSTasks, TLSLoops, TLSHandlers
  <2>3. OneTask(HTTPTasks \cup (TCPTasks \cup UDPTasks \cup TLSTasks),
                HTTPTasks' \cup (TCPTasks \cup UDPTasks \cup TLSTasks))
    BY <2>1, PartsApart, OneTaskOfAll
  <2>4. /\ Tasks = HTTPTasks \cup (TCPTasks \cup UDPTasks \cup TLSTasks)
        /\ Tasks' = HTTPTasks' \cup (TCPTasks \cup UDPTasks \cup TLSTasks)
    BY <2>2 DEF Tasks
  <2> QED BY <2>3, <2>4
<1>4. CASE TLSStep
  <2>1. OneTask(TLSTasks, TLSTasks')
    BY <1>4, <1>t, TLSTaskStep DEF TLSStep
  <2>2. TCPTasks' = TCPTasks /\ UDPTasks' = UDPTasks /\ HTTPTasks' = HTTPTasks
    BY <1>4 DEF TLSStep, tcpVars, udpVars, httpVars, TCPTasks, TCPServing, TCPHandlers,
       UDPTasks, UDPServing, HTTPTasks, HTTPServing, HTTPClosers
  <2>3. OneTask(TLSTasks \cup (TCPTasks \cup UDPTasks \cup HTTPTasks),
                TLSTasks' \cup (TCPTasks \cup UDPTasks \cup HTTPTasks))
    BY <2>1, PartsApart, OneTaskOfAll
  <2>4. /\ Tasks = TLSTasks \cup (TCPTasks \cup UDPTasks \cup HTTPTasks)
        /\ Tasks' = TLSTasks' \cup (TCPTasks \cup UDPTasks \cup HTTPTasks)
    BY <2>2 DEF Tasks
  <2> QED BY <2>3, <2>4
<1> QED BY <1>1, <1>2, <1>3, <1>4

\* The goroutines are the listeners', whatever the state.
LEMMA TasksTyped == Tasks \subseteq AllTasks
<1>1. TCPTasks \subseteq AllTasks
  BY DEF TCPTasks, TCPServing, TCPHandlers, AllTasks
<1>2. UDPTasks \subseteq AllTasks
  BY DEF UDPTasks, UDPServing, AllTasks
<1>3. HTTPTasks \subseteq AllTasks
  BY DEF HTTPTasks, HTTPServing, HTTPClosers, AllTasks
<1>4. TLSTasks \subseteq AllTasks
  BY DEF TLSTasks, TLSLoops, TLSHandlers, AllTasks
<1> QED BY <1>1, <1>2, <1>3, <1>4 DEF Tasks

\* With no goroutine in any listener there is no task.
LEMMA IdleMeansNoTask ==
  ASSUME TCPIdle, UDPIdle, HTTPIdle, TLSIdle PROVE Tasks = {}
BY DEF TCPIdle, UDPIdle, HTTPIdle, TLSIdle, Tasks, TCPTasks, UDPTasks, HTTPTasks, TLSTasks

PhaseFits ==
  /\ main \in Starting => Phase = "starting"
  /\ main = "stopping" => Phase = "waiting"
  /\ main \in {"stopped", "exited"} => Phase = "returned"
  /\ main = "fatal" => Phase = "aborted"

LEMMA PhaseOf == PhaseFits
<1>1. "stopping" \notin Starting /\ "stopped" \notin Starting /\ "exited" \notin Starting
      /\ "fatal" \notin Starting
  BY DEF Starting
<1>2. ASSUME main \in Starting PROVE Phase = "starting"
  BY <1>1, <1>2, Zenon DEF Phase
<1>3. main = "stopping" => Phase = "waiting"
  BY <1>1 DEF Phase
<1>4. main \in {"stopped", "exited"} => Phase = "returned"
  BY <1>1 DEF Phase
<1>5. main = "fatal" => Phase = "aborted"
  BY <1>1 DEF Phase
<1> QED BY <1>2, <1>3, <1>4, <1>5, Zenon DEF PhaseFits

\* What a step of the main goroutine does to the phase and to the tasks.
MainSpawned == main \in Starting /\ main' \in Starting /\ Tasks \subseteq Tasks'

LEMMA MainSpawnsTasks ==
  ASSUME Inv, StartTCPPort \/ StartUDPPort \/ StartHTTP \/ StartWebSocket \/ StartTLS
  PROVE  MainSpawned
<1>t. TCPTypeOK /\ UDPTypeOK /\ HTTPTypeOK /\ TLSTypeOK
  BY DEF Inv, Typed
<1>m. main \in Starting /\ main' \in Starting
  BY DEF StartTCPPort, StartUDPPort, StartHTTP, StartWebSocket, StartTLS, Starting
<1>1. ASSUME NEW p \in Port, TCPListen(p) PROVE TCPTasks \subseteq TCPTasks'
  <2>1. TCPServing \subseteq TCPServing' /\ TCPHandlers' = TCPHandlers
    BY <1>1, <1>t DEF TCPListen, TCPServing, TCPHandlers, TCPTypeOK
  <2> QED BY <2>1 DEF TCPTasks
<1>2. ASSUME NEW p \in Port, UDPListen(p) PROVE UDPTasks \subseteq UDPTasks'
  <2>1. UDPServing \subseteq UDPServing'
    BY <1>2, <1>t DEF UDPListen, UDPServing, UDPTypeOK
  <2> QED BY <2>1 DEF UDPTasks
<1>3. ASSUME NEW p \in HTTPPorts, HTTPRun(p) PROVE HTTPTasks \subseteq HTTPTasks'
  <2>1. HTTPServing \subseteq HTTPServing' /\ HTTPClosers \subseteq HTTPClosers'
    BY <1>3, <1>t DEF HTTPRun, HTTPServing, HTTPClosers, HTTPTypeOK
  <2> QED BY <2>1 DEF HTTPTasks
<1>4. ASSUME TLSListen PROVE TLSTasks \subseteq TLSTasks'
  <2>1. TLSLoops \subseteq TLSLoops' /\ TLSHandlers' = TLSHandlers
    BY <1>4, <1>t DEF TLSListen, TLSLoops, TLSHandlers, TLSTypeOK
  <2> QED BY <2>1 DEF TLSTasks
<1>5. UNCHANGED tcpVars => TCPTasks' = TCPTasks
  BY DEF tcpVars, TCPTasks, TCPServing, TCPHandlers
<1>6. UNCHANGED udpVars => UDPTasks' = UDPTasks
  BY DEF udpVars, UDPTasks, UDPServing
<1>7. UNCHANGED httpVars => HTTPTasks' = HTTPTasks
  BY DEF httpVars, HTTPTasks, HTTPServing, HTTPClosers
<1>8. UNCHANGED tlsVars => TLSTasks' = TLSTasks
  BY DEF tlsVars, TLSTasks, TLSLoops, TLSHandlers
<1>9. TCPTasks \subseteq TCPTasks'
  <2>1. UNCHANGED tcpVars \/ \E p \in Port : TCPListen(p)
    BY Positions DEF StartTCPPort, StartUDPPort, StartHTTP, StartWebSocket, StartTLS
  <2> QED BY <1>1, <1>5, <2>1
<1>10. UDPTasks \subseteq UDPTasks'
  <2>1. UNCHANGED udpVars \/ \E p \in Port : UDPListen(p)
    BY Positions DEF StartTCPPort, StartUDPPort, StartHTTP, StartWebSocket, StartTLS
  <2> QED BY <1>2, <1>6, <2>1
<1>11. HTTPTasks \subseteq HTTPTasks'
  <2>1. UNCHANGED httpVars \/ \E p \in HTTPPorts : HTTPRun(p)
    BY ServerConfigAssumption DEF StartTCPPort, StartUDPPort, StartHTTP, StartWebSocket, StartTLS
  <2> QED BY <1>3, <1>7, <2>1
<1>12. TLSTasks \subseteq TLSTasks'
  <2>1. UNCHANGED tlsVars \/ TLSListen
    BY Zenon DEF StartTCPPort, StartUDPPort, StartHTTP, StartWebSocket, StartTLS
  <2> QED BY <1>4, <1>8, <2>1
<1>13. Tasks \subseteq Tasks'
  BY <1>9, <1>10, <1>11, <1>12 DEF Tasks
<1> QED BY <1>m, <1>13 DEF MainSpawned

LEMMA TasksUntouched ==
  UNCHANGED <<tcpVars, udpVars, httpVars, tlsVars>> => Tasks' = Tasks
BY DEF Tasks, TCPTasks, UDPTasks, HTTPTasks, TLSTasks, tcpVars, udpVars, httpVars, tlsVars,
   TCPServing, TCPHandlers, UDPServing, HTTPServing, HTTPClosers, TLSLoops, TLSHandlers

\* The initial states are initial states of the task group.
LEMMA GroupInit == Init => TG!Init
<1> SUFFICES ASSUME Init PROVE TG!Init
  OBVIOUS
<1>1. main \in Starting
  BY DEF Init, Starting
<1>2. Phase = "starting"
  BY <1>1, PhaseOf DEF PhaseFits
<1>3. TCPTasks = {} /\ UDPTasks = {} /\ HTTPTasks = {} /\ TLSTasks = {}
  BY DEF Init, TCPInit, UDPInit, HTTPInit, TLSInit, TCPTasks, UDPTasks, HTTPTasks, TLSTasks,
     TCPServing, TCPHandlers, UDPServing, HTTPServing, HTTPClosers, TLSLoops, TLSHandlers
<1>4. Live = {}
  BY <1>3 DEF Live, Tasks
<1> QED BY <1>2, <1>4, Zenon DEF TG!Init, Phase, Live

\* A step of the agent is a step of the task group, or leaves it as it was.
LEMMA GroupStep == Inv /\ Stopped /\ [Next]_vars => [TG!Next]_(TG!taskVars)
<1> SUFFICES ASSUME Inv, Stopped, [Next]_vars PROVE TG!Next \/ UNCHANGED <<Phase, Live>>
  BY Zenon DEF TG!taskVars, Phase, Live
<1>q. /\ main' \in Starting => Phase' = "starting"
      /\ main' = "stopping" => Phase' = "waiting"
      /\ main' \in {"stopped", "exited"} => Phase' = "returned"
      /\ main' = "fatal" => Phase' = "aborted"
  <2>1. PhaseFits'
    BY PhaseOf, PTL
  <2> QED BY <2>1 DEF PhaseFits
<1>r. Tasks' \subseteq AllTasks
  <2>1. (Tasks \subseteq AllTasks)'
    BY TasksTyped, PTL
  <2> QED BY <2>1 DEF AllTasks
<1>s. wg = 0 => Tasks = {}
  BY ZeroMeansIdle, IdleMeansNoTask DEF Inv
<1>f. "fatal" \notin Starting
  BY DEF Starting
<1>1. CASE StartTCPPort \/ StartUDPPort \/ StartHTTP \/ StartWebSocket \/ StartTLS
  <2>1. MainSpawned
    BY <1>1, MainSpawnsTasks
  <2>2. Phase = "starting" /\ Phase' = Phase
    BY <2>1, <1>q, PhaseOf DEF MainSpawned, PhaseFits
  <2>3. Live = Tasks /\ Live' = Tasks'
    BY <2>1, <1>f DEF MainSpawned, Live
  <2>4. Live' \in SUBSET AllTasks /\ Live \subseteq Live'
    BY <1>r, <2>1, <2>3 DEF MainSpawned
  <2>5. TG!MainSpawns
    BY <2>2, <2>4, Zenon DEF TG!MainSpawns, Phase, Live
  <2> QED BY <2>5, Zenon DEF TG!Next
<1>2. CASE ListenFails
  <2>1. main \in Starting /\ main' = "fatal"
    BY <1>2 DEF ListenFails, Starting
  <2>2. Phase = "starting" /\ Phase' = "aborted"
    BY <2>1, <1>q, PhaseOf DEF PhaseFits
  <2>3. Live' = {}
    BY <2>1 DEF Live
  <2>4. TG!Abort
    BY <2>2, <2>3, Zenon DEF TG!Abort, Phase, Live
  <2> QED BY <2>4, Zenon DEF TG!Next
<1>3. CASE RunReturns \/ MainReturns
  <2>1. Tasks' = Tasks
    BY <1>3, TasksUntouched, Zenon DEF RunReturns, MainReturns
  <2>2. \/ main \in Starting /\ main' \in Starting
        \/ main \in {"stopped", "exited"} /\ main' \in {"stopped", "exited"}
    BY <1>3 DEF RunReturns, MainReturns, Starting
  <2>3. Phase' = Phase
    BY <2>2, <1>q, PhaseOf DEF PhaseFits
  <2>4. Live' = Live
    BY <2>1, <2>2, <1>f DEF Live
  <2> QED BY <2>3, <2>4
<1>4. CASE SignalReceived
  <2>1. main \in Starting /\ main # "fatal" /\ main' = "stopping"
    BY <1>4 DEF SignalReceived, Starting
  <2>2. Tasks' = Tasks
    BY <1>4, TasksUntouched, Zenon DEF SignalReceived
  <2>3. Phase = "starting" /\ Phase' = "waiting"
    BY <2>1, <1>q, PhaseOf DEF PhaseFits
  <2>4. Live' = Live
    BY <2>1, <2>2 DEF Live
  <2>5. TG!Wait
    BY <2>3, <2>4, Zenon DEF TG!Wait, Phase, Live
  <2> QED BY <2>5, Zenon DEF TG!Next
<1>5. CASE WaitReturns
  <2>1. main = "stopping" /\ main' = "stopped" /\ wg = 0
    BY <1>5 DEF WaitReturns
  <2>2. Tasks' = Tasks
    BY <1>5, TasksUntouched, Zenon DEF WaitReturns
  <2>3. Phase = "waiting" /\ Phase' = "returned"
    BY <2>1, <1>q, PhaseOf DEF PhaseFits
  <2>4. Live = {} /\ Live' = Live
    BY <1>s, <2>1, <2>2 DEF Live
  <2>5. TG!Return
    BY <2>3, <2>4, Zenon DEF TG!Return, Phase, Live
  <2> QED BY <2>5, Zenon DEF TG!Next
<1>6. CASE TCPStep \/ UDPStep \/ HTTPStep \/ TLSStep
  <2>1. main' = main /\ main \notin {"exited", "fatal"}
    BY <1>6 DEF TCPStep, UDPStep, HTTPStep, TLSStep, Alive, mainVars
  <2>2. OneTask(Tasks, Tasks')
    BY <1>6, OneTaskAStep
  <2>3. Live = Tasks /\ Live' = Tasks'
    BY <2>1 DEF Live
  <2>4. Phase' = Phase
    BY <2>1, Zenon DEF Phase
  <2>5. Tasks # {} => Phase \in {"starting", "waiting"}
    BY <1>s, <2>1, PhaseOf DEF PhaseFits, Inv, Typed, MainTypeOK, Stopped
  <2>6. ASSUME NEW t \in Tasks, Tasks' = Tasks \ {t} PROVE TG!Next
    <3>1. Phase \in {"starting", "waiting"} /\ t \in Live /\ Live' = Live \ {t}
      BY <2>3, <2>5, <2>6
    <3>2. TG!Finish(t)
      BY <2>4, <3>1, Zenon DEF TG!Finish, Phase, Live
    <3>3. t \in AllTasks
      BY TasksTyped
    <3> QED BY <3>2, <3>3, Zenon DEF TG!Next
  <2>7. ASSUME NEW t, Tasks # {}, t \notin Tasks, Tasks' = Tasks \cup {t} PROVE TG!Next
    <3>1. /\ Phase \in {"starting", "waiting"} /\ t \notin Live
          /\ Live # {} /\ Live' = Live \cup {t}
      BY <2>3, <2>5, <2>7
    <3>2. TG!TaskSpawns(t)
      BY <2>4, <3>1, Zenon DEF TG!TaskSpawns, Phase, Live
    <3>3. t \in AllTasks
      BY <1>r, <2>7
    <3> QED BY <3>2, <3>3, Zenon DEF TG!Next
  <2> QED BY <2>2, <2>3, <2>4, <2>6, <2>7, Zenon DEF OneTask
<1>7. CASE SignalStep \/ Ended \/ UNCHANGED vars
  <2>1. main' = main /\ UNCHANGED <<tcpVars, udpVars, httpVars, tlsVars>>
    BY <1>7, Zenon DEF SignalStep, Ended, vars, mainVars
  <2>2. Tasks' = Tasks
    BY <2>1, TasksUntouched, Zenon
  <2> QED BY <2>1, <2>2, Zenon DEF Phase, Live
<1> QED BY <1>1, <1>2, <1>3, <1>4, <1>5, <1>6, <1>7, Zenon DEF Next, MainNext

\* The agent is a task group: it says "server_stopped" only when none of the
\* goroutines the WaitGroup counts is left, none starts afterwards, and each of
\* them was started by main or by one that still ran (main.go:38-73).
THEOREM IsTaskGroup == Spec => ImplementsTaskGroup
<1>1. Init => Inv /\ Stopped
  BY InitEstablishesStopInv DEF StopInv
<1>2. Inv /\ Stopped /\ [Next]_vars => (Inv /\ Stopped)'
  BY NextPreservesInv, NextPreservesStopped
<1> QED BY GroupInit, GroupStep, <1>1, <1>2, PTL DEF Spec, ImplementsTaskGroup, TG!Spec
=============================================================================
