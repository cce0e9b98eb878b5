------------------------- MODULE DownloadProperties -------------------------
(***************************************************************************)
(* What the verdict on a download means.                                   *)
(***************************************************************************)
EXTENDS Download

\* The printed state says how much was received: all of an expected size, and
\* no page of an error, for "completed", nearly all for "partial"
\* (README.md:221-222, report.go:141-147).  Nothing is said of a path whose size
\* neither side knows: there any answer is "completed".
LabelMeansBytes ==
  loop = "returned" /\ expected > 0 =>
    /\ Label = "completed" => total = expected /\ status = 200
    /\ Label = "partial" => /\ total < expected
                            /\ total * 100 >= expected * 95 - 99

\* A download is called stalled only while no byte has come for the length of
\* the timer: the value of an earlier expiry never survives the bytes that came
\* after it (download.go:113-119).
StalledMeansIdle == stalled => idle

\* The client is blamed only for its own limits, the server only when the
\* connection or the body ended early (download.go:171-195).
ReasonFits ==
  /\ reason = "client_timeout" => ctxDone \/ stalled
  /\ reason = "server_disconnect" => ~stalled /\ total < expected
  /\ loop = "returned" /\ stalled => reason = "client_timeout"

\* No download outlives the duration of the test, whatever the server does; the
\* HTTP client has no timeout of its own (client-probe/main.go:94).
EndsWithDuration == ctxDone ~> loop = "returned"

-----------------------------------------------------------------------------
\* "Download stability and speed using generated bytes, including stalls"
\* (README.md:21): no byte for the length of the stall timer is a stall.
StallReported == loop = "returned" /\ gaps /\ total = expected => stalled
=============================================================================
