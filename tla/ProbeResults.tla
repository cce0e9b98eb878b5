---------------------------- MODULE ProbeResults ----------------------------
(***************************************************************************)
(* The results that the tests of the client probe hand to the report, one  *)
(* attempt, round or request at a time: TCP connects, echoes over TCP and  *)
(* WebSocket, UDP echoes, HTTP requests, the TLS handshake, the lookup of  *)
(* the target, downloads.  Each is a set of records for a bound on its     *)
(* length; a report of Scoring holds members of these sets.                *)
(*                                                                         *)
(* Times are classes, cut where the code compares them; the text of errors *)
(* is left out.                                                            *)
(***************************************************************************)
EXTENDS Integers, EchoTally

-----------------------------------------------------------------------------
\* One net.DialTimeout of RunConnectLoop.
NoAttempt ==
  [attempts |-> 0, successes |-> 0, errors |-> 0,
   timeouts |-> 0, refused |-> 0, resets |-> 0]

\* An error of another kind is counted as an error only.
classifyTCPError(c) ==
  LET failed == [c EXCEPT !.attempts = @ + 1, !.errors = @ + 1]
  IN  {failed, [failed EXCEPT !.timeouts = @ + 1],
       [failed EXCEPT !.refused = @ + 1], [failed EXCEPT !.resets = @ + 1]}

attemptConnect(c) ==
  {[c EXCEPT !.attempts = @ + 1, !.successes = @ + 1]} \cup classifyTCPError(c)

Connects[n \in Nat] ==
  IF n = 0 THEN {NoAttempt} ELSE UNION {attemptConnect(c) : c \in Connects[n - 1]}

\* The first attempt is made before the context is looked at.
ConnectResults(n) == UNION {Connects[k] : k \in 1 .. n}

-----------------------------------------------------------------------------
\* Whether latencyStable holds of latencies so many times recorded: of none it
\* does not, and the largest of two is at most twice their average.
Steadiness(count) ==
  CASE count = 0        -> {FALSE}
    [] count \in {1, 2} -> {TRUE}
    [] OTHER            -> BOOLEAN

\* An echo test of at most n rounds.  Spikes are echoes that took more than two
\* seconds; WebSocket tests do not count them.
EchoResults(n) ==
  UNION {[tally : {t}, steady : Steadiness(t.received), spikes : 0 .. t.received] :
           t \in Results(n)}

WebSocketResults(n) == {e \in EchoResults(n) : e.spikes = 0}

-----------------------------------------------------------------------------
\* One round of udp.RunEcho: the write fails, or the reply is right, late or
\* that of another round.
UDPRound(u) ==
  {u, [u EXCEPT !.sent = @ + 1, !.received = @ + 1],
      [u EXCEPT !.sent = @ + 1, !.timeouts = @ + 1],
      [u EXCEPT !.sent = @ + 1]}

UDPRounds[n \in Nat] ==
  IF n = 0 THEN {[sent |-> 0, received |-> 0, timeouts |-> 0]}
           ELSE UNION {UDPRound(u) : u \in UDPRounds[n - 1]}

UDPResults(n) ==
  UNION {[packets : {u}, steady : Steadiness(u.received)] : u \in UDPRounds[n]}

-----------------------------------------------------------------------------
\* HTTP requests: answered with a 2xx, given up at a timeout or at the end of the
\* test, or failed otherwise.  The pace is that of the answers.
HTTPPaces(ok) == IF ok < 3 THEN {"steady"} ELSE {"steady", "slow", "slowest"}

HTTPResults(n) ==
  UNION {UNION {[ok : {ok}, timeouts : {late}, failed : 0 .. n - ok - late,
                 pace : HTTPPaces(ok)] : late \in 0 .. n - ok} : ok \in 0 .. n}

\* tlsprobe.Run, or its absence without a TLS address: the dial performs the
\* handshake.
HandshakeTimes == {"300ms", "1s", "3s", "longer"}
versionName    == {"TLS 1.3", "TLS 1.2", "older"}
NoHandshake    == [success |-> FALSE, time |-> "300ms", version |-> "older"]
TLSResults ==
  {NoHandshake} \cup [success : {TRUE}, time : HandshakeTimes, version : versionName]

\* runDNS.
DNSResults == [success : BOOLEAN, time : {"100ms", "500ms", "2s", "longer"}]

-----------------------------------------------------------------------------
\* download.Run: a request that failed is judged by nothing, all others by
\* finish.  A path of an unknown size has no completion.
FailedRequest ==
  [known |-> TRUE, completion |-> 0, bytes |-> FALSE, error |-> TRUE, partial |-> FALSE,
   interrupted |-> FALSE, stalled |-> FALSE, speedDrop |-> FALSE]

Finished(known, percent, error, stalled, speedDrop) ==
  [known       |-> known,
   completion  |-> IF known THEN percent ELSE 0,
   bytes       |-> percent > 0,
   error       |-> error \/ stalled,
   partial     |-> known /\ percent < 100,
   interrupted |-> known /\ (percent < 95 \/ stalled),
   stalled     |-> stalled,
   speedDrop   |-> speedDrop]

\* Even a whole body may end with an error, or with the stall timer expired.
DownloadResults(percents) ==
  {FailedRequest} \cup
  {Finished(known, percent, error, stalled, drop) :
     known \in BOOLEAN, percent \in percents, error \in BOOLEAN, stalled \in BOOLEAN,
     drop \in BOOLEAN}
=============================================================================
