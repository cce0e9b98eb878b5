----------------------------- MODULE MCScoring -----------------------------
(***************************************************************************)
(* Reports that vary a few results at a time, the others being absent.     *)
(***************************************************************************)
EXTENDS ScoringProperties, TLC

Port443(c, e) == 443 :> [connect |-> c, echo |-> e]

Idle(tcp, udp, http, ws, wss, tls, dls, dns, duration) ==
  [duration |-> duration, dns |-> dns, tcp |-> tcp, udp |-> udp, http |-> http,
   websocket |-> ws, wss |-> wss, tls |-> tls, downloads |-> dls]

Failed    == CHOOSE e \in WebSocketResults(0) : e.tally.link = "never"
NoHTTP    == [ok |-> 0, timeouts |-> 0, failed |-> 2, pace |-> "steady"]
Connected == CHOOSE c \in ConnectResults(1) : c.successes = 1
Resolved  == [success |-> TRUE, time |-> "100ms"]
Nothing   == [x \in {} |-> 0]
NoList    == <<>>

\* An echo test over one TCP port beside a WebSocket session of a short or of
\* the usual duration.
Streams ==
  {Idle(Port443(c, e), Nothing, NoHTTP, ws, FALSE, NoHandshake, NoList, Resolved, d) :
     c \in {Connected}, e \in EchoResults(2), ws \in WebSocketResults(3), d \in {3, 60}}

\* A longer test of one port.
OnePort ==
  {Idle(Port443(c, e), Nothing, NoHTTP, Failed, FALSE, NoHandshake, NoList, Resolved, 4) :
     c \in ConnectResults(1), e \in EchoResults(4)}

\* Two TCP ports.
TwoPorts ==
  {Idle(Port443(c, e) @@ (8443 :> [connect |-> c, echo |-> f]), Nothing, NoHTTP, Failed, FALSE,
        NoHandshake, NoList, Resolved, 2) :
     c \in {Connected}, e \in EchoResults(2), f \in EchoResults(2)}

\* One and two UDP ports.
Datagrams ==
  {Idle(Nothing, (53 :> u) @@ (443 :> v), NoHTTP, Failed, FALSE, NoHandshake, NoList,
        Resolved, 7) :
     u \in UDPResults(3), v \in UDPResults(7)}

\* TLS beside a WebSocket session over TLS or not.
Handshakes ==
  {Idle(Nothing, Nothing, NoHTTP, ws, wss, tls, NoList, dns, d) :
     ws \in WebSocketResults(3), wss \in BOOLEAN, tls \in TLSResults,
     dns \in {Resolved}, d \in {3}}
Lookups ==
  {Idle(Port443(c, Failed), Nothing, NoHTTP, Failed, FALSE, NoHandshake, NoList, dns, 1) :
     c \in ConnectResults(3), dns \in DNSResults}

\* HTTP requests and up to two downloads.
Percents == {0, 60, 90, 96, 100}
HTTPs ==
  {Idle(Nothing, Nothing, h, Failed, FALSE, NoHandshake, dls, Resolved, 10) :
     h \in HTTPResults(4),
     dls \in {NoList} \cup {<<d>> : d \in DownloadResults(Percents)}}
Downloads ==
  {Idle(Nothing, Nothing, NoHTTP, Failed, FALSE, NoHandshake, <<d, e>>, Resolved, 10) :
     d \in DownloadResults(Percents), e \in DownloadResults({96, 100})}

MCReports ==
  Streams \cup OnePort \cup TwoPorts \cup Datagrams \cup Handshakes \cup Lookups \cup HTTPs \cup Downloads

\* The products of Share that IEEE double precision makes too small, for totals
\* up to 60, and for one or two downloads.
MCFallsShort ==
  {<<29, 50, 50>>, <<15, 26, 52>>, <<15, 52, 52>>, <<30, 52, 52>>,
   <<90, 10, 7>>, <<180, 20, 7>>}
=============================================================================
