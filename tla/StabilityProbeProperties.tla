---------------------- MODULE StabilityProbeProperties ----------------------
(***************************************************************************)
(* What the numbers of the long-running echo tests mean, and what becomes  *)
(* of the connections they dial.                                           *)
(***************************************************************************)
EXTENDS StabilityProbe, FiniteSets

Waiting   == IF loop = "read" THEN 1 ELSE 0
Redialing == IF loop = "redial" THEN 1 ELSE 0

\* The report adds up (tcp/client.go:95-131): every round is either received or
\* a drop, and every drop is charged twice as a failure unless the redial that
\* follows it succeeds, so that at the end Failures = 2 * Drops - Reconnects.
ReportAddsUp ==
  conn > 0 =>
    /\ seq = received + drops + Waiting
    /\ failures = 2 * drops - reconnects - Redialing

\* The probe never holds two connections, holds none while it dials again, and
\* leaves one open at the end only if it ever reconnected
\* (tcp/client.go:86, 104, 120).
AtMostOneConnection ==
  /\ open \subseteq {conn}
  /\ loop = "redial" => open = {}
  /\ loop = "returned" /\ reconnects = 0 => open = {}

\* What is read back is the payload of this round: a late echo dies with the
\* connection it belongs to, so a TCP or WebSocket test never falls behind as a
\* UDP test does (tcp/client.go:120, websocket.go:208).
NoStaleEcho == loop = "read" => wire = <<seq>>

\* The test ends: RunStability returns when the duration has passed, whatever
\* the network does (tcp/client.go:92, 99).
ReturnsAfterDuration == ctxDone ~> loop = "returned"

-----------------------------------------------------------------------------
\* The state of the link: a test that ends closes the connection that it had all
\* along, and is over as it was.
link ==
  CASE loop = "dial"                           -> "undialled"
    [] loop = "redial"                         -> "redialling"
    [] loop \notin {"dial", "redial"} /\ conn = 0 -> "never"
    [] loop \notin {"dial", "redial"} /\ conn > 0 ->
         IF (conn \in open) \/ (loop = "returned" /\ drops = 0) THEN "up" ELSE "closed"

\* The tally of the rounds so far: a payload in flight is not counted yet.
tally ==
  [sent |-> sent - Waiting, received |-> received, drops |-> drops,
   reconnects |-> reconnects, failures |-> failures, link |-> link]

EL == INSTANCE EchoLedger WITH tally <- tally

\* Refinement: the loop over connections, deadlines and a wire produces the
\* tallies of EL, round by round, and no others (tcp/client.go:69-134,
\* websocketx/websocket.go:155-218).
ImplementsEchoLedger == EL!Spec

-----------------------------------------------------------------------------
\* "defer conn.Close()" (tcp/client.go:86): no connection is open at the end.
ReturnsClosed == loop = "returned" => open = {}
=============================================================================
