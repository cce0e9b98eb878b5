------------------------------ MODULE Download ------------------------------
(***************************************************************************)
(* One download test of the client probe: download.Run reads the body of   *)
(* the response until it ends, fails, or the stall timer is found expired, *)
(* and finish judges the result.  The server, or something between, may    *)
(* send nothing for a while, cut the body off, or answer with an error.    *)
(*                                                                         *)
(* Bytes come in units of a twentieth of a small download; speeds and the  *)
(* time to the first byte are left out.                                    *)
(***************************************************************************)
EXTENDS Integers

CONSTANT Sizes   \* ExpectedBytes of the paths tested, 0 where none is known

ErrorPage == 1   \* units in the body of an error response

\* A download that is known by its size is longer than the page of an error.
ASSUME SizesAssumption == \A s \in Sizes : s \in Nat /\ (s = 0 \/ s > ErrorPage)

VARIABLES
  loop,       \* where Run is
  expected,   \* ExpectedBytes, from the path
  status,     \* the status code, 0 before there is a response
  length,     \* units in the body of the response
  total,      \* units read
  timer,      \* the stall timer: running, or its channel holds a value
  idle,       \* no byte has come for the length of the timer
  gaps,       \* some time no byte of a body still unfinished came for that long
  ctxDone,    \* the duration of the test has passed
  error,      \* the kind of Error, "none" for the empty one
  partial, stalled, interrupted, reason   \* the verdicts of the Result

response == <<expected, status, length>>
clock    == <<timer, idle, gaps>>
verdicts == <<partial, stalled, interrupted, reason>>
vars == <<loop, response, total, clock, ctxDone, error, verdicts>>

Errors  == {"none", "timeout", "eof", "reset", "no_bytes", "other"}
Reasons == {"none", "client_timeout", "server_disconnect", "unknown_error"}

FlagsOK ==
  /\ idle \in BOOLEAN /\ gaps \in BOOLEAN /\ ctxDone \in BOOLEAN
  /\ partial \in BOOLEAN /\ stalled \in BOOLEAN /\ interrupted \in BOOLEAN
TypeOK ==
  /\ loop \in {"do", "read", "check", "returned"}
  /\ expected \in Sizes
  /\ status \in {0, 200, 400, 502}
  /\ length \in Sizes \cup {ErrorPage}
  /\ total \in 0 .. length
  /\ timer \in {"stopped", "running", "fired"}
  /\ error \in Errors
  /\ reason \in Reasons
  /\ FlagsOK

Init ==
  /\ loop = "do"
  /\ expected \in Sizes
  /\ status = 0 /\ length = ErrorPage /\ total = 0
  /\ timer = "stopped" /\ idle = FALSE /\ gaps = FALSE
  /\ ctxDone = FALSE
  /\ error = "none"
  /\ partial = FALSE /\ stalled = FALSE /\ interrupted = FALSE /\ reason = "none"

-----------------------------------------------------------------------------
\* Faulty classifyInterruption: an error it does not know is given as it is.
classifyKnown(err) ==
  CASE err \in {"none", "reset", "eof"} -> "server_disconnect"
    [] err = "timeout"              -> "client_timeout"
    [] OTHER                        -> err

classifyInterruption(err) ==
  CASE err \in {"none", "reset", "eof"}   -> "server_disconnect"
    [] err = "timeout"                -> "client_timeout"
    [] err \in {"no_bytes", "other"}  -> "unknown_error"

\* Faulty finish: the reason that the stall timer gave is overwritten.
finishReclassified(bytes, err, stall) ==
  /\ loop' = "returned"
  /\ error' = err
  /\ stalled' = stall
  /\ partial' = (bytes < expected)
  /\ interrupted' = (expected > 0 /\ (bytes < (expected * 95) \div 100 \/ stall))
  /\ reason' = IF partial' THEN classifyInterruption(err) ELSE "none"

\* finish, and what Run assigned before calling it.  Nothing is judged when no
\* size is expected.
finish(bytes, err, stall) ==
  /\ loop' = "returned"
  /\ error' = err
  /\ stalled' = stall
  /\ partial' = (bytes < expected)
  /\ interrupted' = (expected > 0 /\ (bytes < (expected * 95) \div 100 \/ stall))
  /\ reason' = CASE stall                       -> "client_timeout"
                 [] ~stall /\ bytes < expected  -> classifyInterruption(err)
                 [] ~stall /\ bytes >= expected -> "none"

\* The server knows the same sizes as the probe and refuses others; a proxy may
\* answer in its place.  The timer starts with the body.
Respond ==
  /\ loop = "do"
  /\ \/ expected > 0 /\ status' = 200 /\ length' = expected
     \/ expected = 0 /\ status' = 400 /\ length' = ErrorPage
     \/ status' = 502 /\ length' = ErrorPage
  /\ timer' = "running"
  /\ loop' = "read"
  /\ UNCHANGED <<expected, total, idle, gaps, ctxDone, error, verdicts>>

\* Run returns without finish.
DoFails ==
  /\ loop = "do"
  /\ error' \in {"reset", "other"} \cup (IF ctxDone THEN {"timeout"} ELSE {})
  /\ loop' = "returned"
  /\ UNCHANGED <<response, total, clock, ctxDone, verdicts>>

\* Faulty ReadBytes: the channel of the stall timer is not drained.
ReadBytesUndrained(n) ==
  /\ loop = "read"
  /\ total + n <= length
  /\ total' = total + n
  /\ timer' = timer
  /\ idle' = FALSE
  /\ loop' = "check"
  /\ UNCHANGED <<response, gaps, ctxDone, error, verdicts>>

\* Bytes are read: the timer is stopped, drained and started again.
ReadBytes(n) ==
  /\ loop = "read"
  /\ total + n <= length
  /\ total' = total + n
  /\ timer' = "running"
  /\ idle' = FALSE
  /\ loop' = "check"
  /\ UNCHANGED <<response, gaps, ctxDone, error, verdicts>>

ReadEOF ==
  /\ loop = "read"
  /\ total = length
  /\ finish(total, "none", FALSE)
  /\ UNCHANGED <<response, total, clock, ctxDone>>

\* The connection ends before the body does.
CutOff ==
  /\ loop = "read"
  /\ total < length
  /\ \E err \in {"eof", "reset", "other"} : finish(total, err, FALSE)
  /\ UNCHANGED <<response, total, clock, ctxDone>>

\* Faulty Deadline: the request does not carry the context.
NoDeadline == FALSE

\* The context of the request ends a read that waits.
Deadline ==
  /\ loop = "read"
  /\ ctxDone
  /\ finish(total, "timeout", FALSE)
  /\ UNCHANGED <<response, total, clock, ctxDone>>

\* After each read that returned bytes and no error.
Check ==
  /\ loop = "check"
  /\ IF timer = "fired"
       THEN finish(total, "no_bytes", TRUE)
       ELSE loop' = "read" /\ UNCHANGED <<error, verdicts>>
  /\ UNCHANGED <<response, total, clock, ctxDone>>

\* Faulty Label: an error is of no interest.
LabelByBytes ==
  IF interrupted \/ stalled THEN "interrupted"
  ELSE IF partial THEN "partial" ELSE "completed"

\* The state that the report prints (report.Print).
Label ==
  IF interrupted \/ stalled \/ (error # "none" /\ ~partial) THEN "interrupted"
  ELSE IF partial THEN "partial" ELSE "completed"

-----------------------------------------------------------------------------
\* The length of the timer passes without a byte: in Read, or because the
\* machine is suspended right after one.
TimerFires ==
  /\ timer = "running"
  /\ loop # "returned"
  /\ timer' = "fired"
  /\ idle' = TRUE
  /\ gaps' = (gaps \/ (loop = "read" /\ total < length))
  /\ UNCHANGED <<loop, response, total, ctxDone, error, verdicts>>

Expire ==
  /\ ~ctxDone
  /\ ctxDone' = TRUE
  /\ UNCHANGED <<loop, response, total, clock, error, verdicts>>

Read == (\E n \in 1 .. length : ReadBytes(n)) \/ ReadEOF \/ CutOff \/ Deadline
Run  == Respond \/ DoFails \/ Read \/ Check

Returned == loop = "returned" /\ UNCHANGED vars

Next == Run \/ TimerFires \/ Expire \/ Returned

\* The goroutine is scheduled, and net/http gives up a request whose context is
\* done.  Nothing is assumed of the server.
Fairness ==
  /\ WF_vars(Check)
  /\ WF_vars(Deadline)
  /\ WF_vars(ctxDone /\ (Respond \/ DoFails))

Spec == Init /\ [][Next]_vars
FairSpec == Spec /\ Fairness
=============================================================================
