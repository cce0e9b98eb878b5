---------------------------- MODULE ServerStats ----------------------------
(***************************************************************************)
(* The counters of the server agent (internal/stats).  One ServerStats     *)
(* value is shared by every listener and handler; each operation takes its *)
(* mutex for the whole body, so each is one atomic step here.  What         *)
(* Snapshot returns is the value of "stats" at the moment the lock is held. *)
(***************************************************************************)
EXTENDS Integers

CONSTANT Port      \* the port numbers the configuration names

MaxPort == 65535

ASSUME PortAssumption == Port \subseteq 1 .. MaxPort

VARIABLES
  total,    \* the counters of the process
  perPort   \* the counters of each port; one never touched reads as zero

stats == <<total, perPort>>

Protocol == {"TCP", "UDP", "HTTP", "WebSocket", "TLS", "Download"}
Counter  == Protocol \cup {"activeTCP", "activeWS", "tcpTotal", "udpPackets",
                           "httpReqs", "downloads", "failedDL"}
PortCounter == {"connections", "active", "packets", "requests", "errors"}

StatsTypeOK ==
  /\ total \in [Counter -> Nat]
  /\ perPort \in [Port \X PortCounter -> Nat]

NewServerStats ==
  /\ total = [x \in Counter |-> 0]
  /\ perPort = [x \in Port \X PortCounter |-> 0]

-----------------------------------------------------------------------------
Add(counters, S) ==
  [x \in DOMAIN counters |-> IF x \in S THEN counters[x] + 1 ELSE counters[x]]

\* The gauges are decremented only when positive.
Sub(counters, S) ==
  [x \in DOMAIN counters |-> IF x \in S /\ counters[x] > 0
                               THEN counters[x] - 1 ELSE counters[x]]

TCPConnect(p) ==
  /\ total' = Add(total, {"activeTCP", "tcpTotal", "TCP"})
  /\ perPort' = Add(perPort, {p} \X {"connections", "active"})

TCPDisconnect(p) ==
  /\ total' = Sub(total, {"activeTCP"})
  /\ perPort' = Sub(perPort, {p} \X {"active"})

TCPError(p) ==
  /\ UNCHANGED total
  /\ perPort' = Add(perPort, {p} \X {"errors"})

UDPPacket(p) ==
  /\ total' = Add(total, {"udpPackets", "UDP"})
  /\ perPort' = Add(perPort, {p} \X {"packets"})

HTTPRequest(p) ==
  /\ total' = Add(total, {"httpReqs", "HTTP"})
  /\ perPort' = Add(perPort, {p} \X {"requests"})

WSConnect(p) ==
  /\ total' = Add(total, {"activeWS", "WebSocket"})
  /\ perPort' = Add(perPort, {p} \X {"connections", "active"})

\* Faulty WSDisconnect: the gauge of the port is forgotten.
WSDisconnectGlobal(p) ==
  /\ total' = Sub(total, {"activeWS"})
  /\ UNCHANGED perPort

WSDisconnect(p) ==
  /\ total' = Sub(total, {"activeWS"})
  /\ perPort' = Sub(perPort, {p} \X {"active"})

TLSHandshake(p) ==
  /\ total' = Add(total, {"TLS"})
  /\ perPort' = Add(perPort, {p} \X {"connections"})

\* Faulty Download: an interrupted download is no error of its port.
DownloadNoError(p, failed) ==
  /\ total' = Add(total, {"downloads", "Download"} \cup
                           IF failed THEN {"failedDL"} ELSE {})
  /\ perPort' = Add(perPort, {p} \X {"requests"})

Download(p, failed) ==
  /\ total' = Add(total, {"downloads", "Download"} \cup
                           IF failed THEN {"failedDL"} ELSE {})
  /\ perPort' = Add(perPort, {p} \X ({"requests"} \cup
                                       IF failed THEN {"errors"} ELSE {}))
=============================================================================
