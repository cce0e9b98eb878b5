------------------------- MODULE UDPProbeProperties -------------------------
(***************************************************************************)
(* What the numbers that the UDP test reports mean.                        *)
(***************************************************************************)
EXTENDS UDPProbe, Sums, FiniteSets


\* A packet is reported as received only if the server echoed it, and each at
\* most once, whatever the network duplicates or delays (udp/client.go:58).
ReceivedWasEchoed == received <= Cardinality(echoed)

\* Where the replies are: every datagram a round sent is answered in that
\* round, or is still on its way or waiting in the socket because its round
\* timed out or the network made a copy, or was lost.  So the probe is behind
\* by one reply for every timeout that was only a delay and for every copy,
\* and nothing but a loss lets it catch up (udp/client.go:52-61).
Behind == Len(socket) + Total(up) + Total(down)
LagIsTimeoutsAndCopies ==
  Behind + dropped = timeouts + copied + (IF loop = "read" THEN 1 ELSE 0)

\* The test ends: RunEcho returns when the duration has passed, whatever the
\* network does (udp/client.go:36-41).
ReturnsAfterDuration == ctxDone ~> loop = "returned"

-----------------------------------------------------------------------------
\* "packet loss" (README.md:209) is loss: of the packets reported as not
\* received, each was lost on the way, or its round timed out, or the reply is
\* still somewhere between the server and the probe.
LossIsLossOrTimeout ==
  loop = "returned" /\ copied = 0 => ReportedLost <= dropped + timeouts + Behind
=============================================================================
