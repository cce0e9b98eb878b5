---------------------------- MODULE ScoringProofs ----------------------------
(***************************************************************************)
(* What the scores of a report mean, for all reports that the tests can    *)
(* produce, however long they are, and wherever floating point falls       *)
(* short: a stable WebSocket session is ranked above raw TCP with a drop   *)
(* and above a TLS handshake without it, a lost round never pays, the      *)
(* verdicts of one result agree, and the best candidate has carried        *)
(* something.                                                              *)
(*                                                                         *)
(* The invariant says that the scores, the best candidate and the warnings *)
(* are those of the report; what they are worth is said of the functions   *)
(* that compute them, one lemma a transport.                               *)
(***************************************************************************)
EXTENDS ScoringProperties, SumProofs

-----------------------------------------------------------------------------
\* A share is at most its points, and at most one below a whole number from 0;
\* a full share is all of them.
LEMMA ShareAtMost ==
  ASSUME NEW g \in Nat, NEW t \in Nat, NEW p \in Nat, g <= t
  PROVE  Share(g, t, p) \in Int /\ Share(g, t, p) <= p /\ Share(g, t, p) >= -1
<1>1. CASE t = 0
  BY <1>1 DEF Share
<1>2. CASE t > 0
  <2> DEFINE q == (g * p) \div t
  <2>1. g * p \in Nat /\ g * p <= t * p
    BY <1>2
  <2>2. q \in Int /\ q >= 0 /\ t * q <= g * p
    BY <1>2, <2>1
  <2>3. q <= p
    <3> SUFFICES ASSUME q >= p + 1 PROVE FALSE
      BY <2>2
    <3>1. t * q >= t * (p + 1)
      BY <1>2, <2>2
    <3>2. t * (p + 1) = t * p + t
      OBVIOUS
    <3> QED
      BY <1>2, <2>1, <2>2, <3>1, <3>2
  <2>4. Share(g, t, p) \in {q, q - 1}
    BY <1>2 DEF Share
  <2> HIDE DEF q
  <2> QED
    BY <2>2, <2>3, <2>4
<1> QED
  BY <1>1, <1>2

LEMMA ShareFull ==
  ASSUME NEW t \in Nat \ {0}
  PROVE  Share(t, t, 72) = 72
<1>1. <<t, t, 72>> \notin FallsShort
  BY FallsShortAssumption
<1>2. (t * 72) \div t = 72
  OBVIOUS
<1> QED
  BY <1>1, <1>2 DEF Share

LEMMA ClampBelow ==
  ASSUME NEW n \in Int, NEW m \in 0 .. 100, n <= m
  PROVE  clamp(n) \in 0 .. m
BY DEF clamp, AtMost

LEMMA ClampAbove ==
  ASSUME NEW n \in Int, NEW m \in 0 .. 100, n >= m
  PROVE  clamp(n) \in m .. 100
BY DEF clamp, AtMost

LEMMA ScoreFields ==
  ASSUME NEW transport, NEW port, NEW score, NEW stable
  PROVE  /\ Score(transport, port, score, stable).port = port
         /\ Score(transport, port, score, stable).score = score
         /\ Score(transport, port, score, stable).stable = stable
BY DEF Score

\* What the sums of an echo test leave of one without a drop, and of one with.
LEMMA TallyFacts ==
  ASSUME NEW t, Consistent(t)
  PROVE  /\ t.sent \in Nat /\ t.received \in Nat /\ t.drops \in Nat
         /\ t.reconnects \in Nat /\ t.failures \in Nat
         /\ t.received <= t.sent
         /\ t.drops = 0 /\ t.sent > 0 =>
              t.received = t.sent /\ t.reconnects = 0 /\ t.failures = 0
         /\ t.drops > 0 => t.reconnects + t.failures >= 1
<1>1. /\ t.sent \in Nat /\ t.received \in Nat /\ t.drops \in Nat
      /\ t.reconnects \in Nat /\ t.failures \in Nat
  BY DEF Consistent, Tallies
<1>2. /\ Redialling(t) \in {0, 1} /\ Refused(t) \in {0, 1}
      /\ t.sent > 0 => Refused(t) = 0
  BY <1>1 DEF Consistent, Redialling, Refused
<1>3. /\ t.received <= t.sent /\ t.sent <= t.received + t.drops
      /\ t.reconnects + Redialling(t) <= t.drops
      /\ t.failures = 2 * t.drops - t.reconnects - Redialling(t) + Refused(t)
  BY DEF Consistent
<1>4. ASSUME t.drops = 0, t.sent > 0
      PROVE  t.received = t.sent /\ t.reconnects = 0 /\ t.failures = 0
  <2>1. Redialling(t) = 0 /\ t.reconnects = 0 /\ Refused(t) = 0
    BY <1>1, <1>2, <1>3, <1>4
  <2>2. t.failures = 0
    BY <1>3, <1>4, <2>1
  <2> QED
    BY <1>1, <1>3, <1>4, <2>1, <2>2
<1>5. ASSUME t.drops > 0
      PROVE  t.reconnects + t.failures >= 1
  BY <1>1, <1>2, <1>3, <1>5
<1> QED
  BY <1>1, <1>3, <1>4, <1>5

-----------------------------------------------------------------------------
\* A stable session got back all it sent, without a failure; delivery alone is
\* worth 72 points.
LEMMA StableWebSocketScore ==
  ASSUME NEW r, ReportOK(r), scoreWebSocket(r).stable
  PROVE  scoreWebSocket(r).score \in 75 .. 100
<1> DEFINE ws       == r.websocket.tally
           expected == IF r.duration < 1 THEN ws.sent ELSE r.duration
           replies  == Share(AtMost(expected, ws.received), expected, 18)
           steady   == IF r.websocket.steady THEN 10 ELSE Points(ws.received > 0, 4)
           sum      == Share(ws.received, ws.sent, 72) + replies + steady
                       - ws.drops * 22 - ws.failures * 12 - ws.reconnects * 7
           points   == IF ws.sent > 0 THEN clamp(sum) ELSE 0
           stable   == points >= 70 /\ ws.sent > 0 /\ ws.drops = 0
                         /\ 100 * ws.received >= 95 * ws.sent
<1>1. scoreWebSocket(r) = Score("WebSocket", 0, points, stable)
  BY DEF scoreWebSocket
<1>2. ws.sent > 0 /\ ws.drops = 0 /\ scoreWebSocket(r).score = points
  <2> HIDE DEF points, ws
  <2>1. stable /\ scoreWebSocket(r).score = points
    <3> HIDE DEF stable
    <3> QED
      BY <1>1, ScoreFields
  <2> QED
    BY <2>1
<1> HIDE DEF stable
<1>3. /\ ws.sent \in Nat /\ ws.received = ws.sent
      /\ ws.reconnects = 0 /\ ws.failures = 0
  BY <1>2, TallyFacts DEF ReportOK, PortOK, EchoOK
<1>4. expected \in Nat /\ AtMost(expected, ws.received) \in 0 .. expected
  BY <1>2, <1>3 DEF ReportOK, AtMost
<1>5. replies \in Int /\ replies >= -1
  <2> HIDE DEF expected, ws
  <2> QED
    BY <1>4, ShareAtMost
<1>6. Share(ws.received, ws.sent, 72) = 72
  BY <1>2, <1>3, ShareFull
<1>7. steady \in Int /\ steady >= 4
  BY <1>2, <1>3 DEF Points
<1>8. sum \in Int /\ sum >= 75
  <2> HIDE DEF replies, steady, ws
  <2> QED
    BY <1>2, <1>3, <1>5, <1>6, <1>7
<1>9. points = clamp(sum)
  BY <1>2
<1> HIDE DEF sum, points
<1> QED
  BY <1>2, <1>8, <1>9, ClampAbove

\* A port whose test had a drop scores at most 61: 25 points for connecting, 50
\* for echoes and 8 for steady ones, less 14 for the drop and at least 8 for the
\* reconnect or the failure that comes with it.
LEMMA DroppedTCPScore ==
  ASSUME NEW r, ReportOK(r), NEW p \in DOMAIN r.tcp,
         r.tcp[p].echo.tally.drops > 0
  PROVE  tcpPort(r, p).score \in 0 .. 61
<1> DEFINE c      == r.tcp[p].connect
           s      == r.tcp[p].echo
           t      == s.tally
           echoes == Share(t.received, t.sent, 50)
           bonus  == Points(t.drops = 0 /\ t.failures = 0, 14)
           steady == Points(s.steady, 8)
           connect == Share(c.successes, c.attempts, 25)
           echoed == echoes + bonus + steady
           traffic == Points(t.sent > 0, echoed)
           sum    == connect + traffic
                     - t.drops * 14 - t.reconnects * 8 - s.spikes * 5 - t.failures * 8
                     - c.timeouts * 4 - c.resets * 4
<1>1. tcpPort(r, p).score = clamp(sum)
  BY DEF tcpPort, Score
<1>2. /\ t.sent \in Nat /\ t.received \in Nat /\ t.drops \in Nat
      /\ t.reconnects \in Nat /\ t.failures \in Nat
      /\ t.received <= t.sent /\ t.drops > 0
      /\ t.reconnects + t.failures >= 1
  BY TallyFacts DEF ReportOK, PortOK, EchoOK
<1>3. /\ s.spikes \in Nat /\ c.timeouts \in Nat /\ c.resets \in Nat
      /\ c.successes \in Nat /\ c.attempts \in Nat /\ c.successes <= c.attempts
  BY DEF ReportOK, PortOK, EchoOK, EchoTests, NoAttempt
<1>4. echoes \in Int /\ echoes <= 50
  BY <1>2, ShareAtMost
<1>5. connect \in Int /\ connect <= 25
  BY <1>3, ShareAtMost
<1>6. bonus = 0 /\ steady \in {0, 8}
  BY <1>2 DEF Points
<1> HIDE DEF echoes, connect, bonus, steady, t, c, s
<1>7. traffic \in Int /\ traffic <= 58
  BY <1>4, <1>6 DEF Points
<1> HIDE DEF traffic
<1>8. sum \in Int /\ sum <= 61
  BY <1>2, <1>3, <1>5, <1>7
<1> HIDE DEF sum
<1> QED
  BY <1>1, <1>8, ClampBelow

\* A handshake alone is worth at most 50, 12 and 10 points.
LEMMA UnbackedTLSScore ==
  ASSUME NEW r, ReportOK(r), ~r.wss, NEW ws
  PROVE  scoreTLS(r, ws).score \in 0 .. 72
<1> DEFINE version == CASE r.tls.version = "TLS 1.3" -> 12
                        [] r.tls.version = "TLS 1.2" -> 8
                        [] r.tls.version = "older"   -> 0
           time    == CASE r.tls.time = "300ms"  -> 10
                        [] r.tls.time = "1s"     -> 6
                        [] r.tls.time = "3s"     -> 0
                        [] r.tls.time = "longer" -> -10
           backed  == r.wss /\ ws.stable
           sum     == 50 + version + time + Points(backed, 12)
           score   == clamp(IF backed THEN sum ELSE AtMost(74, sum))
<1>1. scoreTLS(r, ws)
        = IF r.tls.success THEN Score("TLS", 0, score, score >= 80 /\ backed)
                           ELSE Score("TLS", 0, 0, FALSE)
  BY DEF scoreTLS
<1>2. /\ r.tls.version \in {"TLS 1.3", "TLS 1.2", "older"}
      /\ r.tls.time \in {"300ms", "1s", "3s", "longer"}
  <2>1. CASE r.tls = NoHandshake
    BY <2>1 DEF NoHandshake
  <2>2. CASE r.tls \in [success : {TRUE}, time : HandshakeTimes, version : versionName]
    BY <2>2 DEF HandshakeTimes, versionName
  <2> QED
    BY <2>1, <2>2 DEF ReportOK, TLSResults
<1>3. version \in {0, 8, 12} /\ time \in {-10, 0, 6, 10} /\ Points(backed, 12) = 0
  BY <1>2 DEF Points
<1>4. ~backed
  OBVIOUS
<1> HIDE DEF version, time, backed
<1>5. AtMost(74, sum) \in Int /\ AtMost(74, sum) <= 72
  BY <1>3 DEF AtMost
<1> HIDE DEF sum
<1>6. score \in 0 .. 72
  BY <1>4, <1>5, ClampBelow
<1> HIDE DEF score
<1> QED
  BY <1>1, <1>6 DEF Score

LEMMA HigherIsAbove ==
  ASSUME NEW a, NEW b, a.score > b.score
  PROVE  Above(a, b)
BY DEF Above

-----------------------------------------------------------------------------
LEMMA ShareInt ==
  ASSUME NEW g \in Int, NEW t \in Nat, NEW p \in Nat
  PROVE  Share(g, t, p) \in Int
<1>1. CASE t = 0
  BY <1>1 DEF Share
<1>2. CASE t > 0
  <2> DEFINE q == (g * p) \div t
  <2>1. g * p \in Int
    OBVIOUS
  <2>2. q \in Int
    BY <1>2, <2>1
  <2>3. Share(g, t, p) \in {q, q - 1}
    BY <1>2 DEF Share
  <2> HIDE DEF q
  <2> QED
    BY <2>2, <2>3
<1> QED
  BY <1>1, <1>2

\* Nothing earns nothing.
LEMMA ShareNone ==
  ASSUME NEW t \in Nat, NEW p \in Nat
  PROVE  Share(0, t, p) \in Int /\ Share(0, t, p) <= 0
<1>1. 0 * p = 0
  OBVIOUS
<1>2. t > 0 => 0 \div t = 0
  OBVIOUS
<1> QED
  BY <1>1, <1>2 DEF Share

\* A quotient is at least m when the product reaches m times the divisor.
LEMMA QuotientReaches ==
  ASSUME NEW n \in Nat, NEW t \in Nat \ {0}, NEW m \in Int, m * t <= n
  PROVE  m <= n \div t
<1> DEFINE q == n \div t
<1>1. q \in Int /\ n < t * q + t
  OBVIOUS
<1> HIDE DEF q
<1> SUFFICES ASSUME m >= q + 1 PROVE FALSE
  BY <1>1 DEF q
<1>2. m * t >= (q + 1) * t
  BY <1>1
<1>3. (q + 1) * t = t * q + t
  BY <1>1
<1> QED
  BY <1>1, <1>2, <1>3

\* A larger ratio earns a share that is smaller by at most the one point that
\* floating point takes.
LEMMA ShareGrows ==
  ASSUME NEW g \in Nat, NEW t \in Nat \ {0}, NEW h \in Nat, NEW u \in Nat \ {0},
         NEW p \in Nat, g * u <= h * t
  PROVE  Share(g, t, p) <= Share(h, u, p) + 1
<1> DEFINE q == (g * p) \div t
           m == (h * p) \div u
<1>1. g * p \in Nat /\ h * p \in Nat
  OBVIOUS
<1>2. q \in Int /\ q >= 0 /\ t * q <= g * p
  BY <1>1
<1>3. m \in Int
  BY <1>1
<1>4. Share(g, t, p) \in {q, q - 1} /\ Share(h, u, p) \in {m, m - 1}
  BY DEF Share
<1>5. q <= m
  <2> HIDE DEF q
  <2>1. (t * q) * u <= (g * p) * u
    BY <1>1, <1>2
  <2>2. (g * p) * u = (g * u) * p
    OBVIOUS
  <2>3. (g * u) * p <= (h * t) * p
    <3>1. g * u \in Nat /\ h * t \in Nat
      OBVIOUS
    <3> QED BY <3>1
  <2>4. (h * t) * p = t * (h * p)
    OBVIOUS
  <2>5. (t * q) * u = t * (q * u)
    BY <1>2
  <2>6. t * (q * u) <= t * (h * p)
    BY <2>1, <2>2, <2>3, <2>4, <2>5, <1>2
  <2>7. q * u \in Int /\ h * p \in Int
    BY <1>2
  <2>8. q * u <= h * p
    <3> DEFINE a == q * u
               b == h * p
    <3>1. a \in Int /\ b \in Int /\ t * a <= t * b
      BY <2>6, <2>7
    <3> HIDE DEF a, b
    <3>2. a <= b
      <4> SUFFICES ASSUME a >= b + 1 PROVE FALSE
        BY <3>1
      <4>1. t * a >= t * (b + 1)
        BY <3>1
      <4>2. t * (b + 1) = t * b + t
        BY <3>1
      <4> QED BY <3>1, <4>1, <4>2
    <3> QED BY <3>2 DEF a, b
  <2> QED BY <1>1, <1>2, <2>8, QuotientReaches
<1> HIDE DEF q, m
<1> QED
  BY <1>2, <1>3, <1>4, <1>5

LEMMA ClampRange ==
  ASSUME NEW n \in Int
  PROVE  /\ clamp(n) \in 0 .. 100
         /\ clamp(n) > 0 => n > 0
         /\ \A m \in 1 .. 100 : clamp(n) >= m <=> n >= m
BY DEF clamp, AtMost

LEMMA ClampGrows ==
  ASSUME NEW n \in Int, NEW m \in Int, n <= m
  PROVE  clamp(n) <= clamp(m)
BY DEF clamp, AtMost

\* The labels of the scores.
LEMMA StatusOf ==
  ASSUME NEW n \in 0 .. 100
  PROVE  statusFor(n) \in Labels /\ (statusFor(n) = "stable" <=> n >= 85)
         /\ (n >= 70 => statusFor(n) \in {"stable", "mostly_stable"})
<1>1. CASE n >= 85
  <2>1. statusFor(n) = "stable"
    BY <1>1 DEF statusFor
  <2> QED BY <1>1, <2>1 DEF Labels
<1>2. CASE n >= 70 /\ n < 85
  <2>1. statusFor(n) = "mostly_stable"
    BY <1>2 DEF statusFor
  <2> QED BY <1>2, <2>1 DEF Labels
<1>3. CASE n >= 40 /\ n < 70
  BY <1>3 DEF statusFor, Labels
<1>4. CASE n > 0 /\ n < 40
  BY <1>4 DEF statusFor, Labels
<1>5. CASE n = 0
  BY <1>5 DEF statusFor, Labels
<1> QED BY <1>1, <1>2, <1>3, <1>4, <1>5

\* A verdict: its name, a score from 0 to 100, the label of the score, and the
\* flag, which a score of 85 does not go without.
Verdict(v, transport) ==
  /\ v.transport = transport
  /\ v.score \in 0 .. 100
  /\ v.status = statusFor(v.score)
  /\ v.stable \in BOOLEAN
  /\ v.score >= 85 => v.stable

\* A verdict with this port, score and flag.
Judges(v, transport, port, score, stable) ==
  /\ Verdict(v, transport)
  /\ v.port = port
  /\ v.score = score
  /\ v.stable = stable

LEMMA VerdictOf ==
  ASSUME NEW transport, NEW port, NEW score \in 0 .. 100, NEW stable \in BOOLEAN,
         score >= 85 => stable = TRUE
  PROVE  Judges(Score(transport, port, score, stable), transport, port, score, stable)
<1> DEFINE v == Score(transport, port, score, stable)
<1>1. /\ v.transport = transport /\ v.port = port /\ v.score = score
      /\ v.status = statusFor(score)
  BY DEF Score
<1>2. v.stable = stable
  BY Zenon DEF Score
<1> HIDE DEF v
<1>3. v.stable \in BOOLEAN
  BY <1>2, Zenon
<1>4. v.score \in 0 .. 100 /\ v.status = statusFor(v.score)
  BY <1>1
<1>5. v.score >= 85 => v.stable
  BY <1>1, <1>2, Zenon
<1>6. Verdict(v, transport)
  BY <1>1, <1>3, <1>4, <1>5, Zenon DEF Verdict
<1>7. Judges(v, transport, port, score, stable)
  BY <1>1, <1>2, <1>6, Zenon DEF Judges
<1> QED
  BY <1>7, Zenon DEF v

\* What an echo test's result holds.
LEMMA EchoFacts ==
  ASSUME NEW e, EchoOK(e)
  PROVE  /\ e.tally.sent \in Nat /\ e.tally.received \in Nat /\ e.tally.drops \in Nat
         /\ e.tally.reconnects \in Nat /\ e.tally.failures \in Nat /\ e.spikes \in Nat
         /\ e.tally.received <= e.tally.sent
         /\ e.tally.sent <= e.tally.received + e.tally.drops
         /\ e.tally.drops = 0 /\ e.tally.sent > 0 =>
              e.tally.received = e.tally.sent /\ e.tally.reconnects = 0 /\ e.tally.failures = 0
         /\ e.tally.drops > 0 => e.tally.reconnects + e.tally.failures >= 1
<1>1. Consistent(e.tally) /\ e.spikes \in Nat
  BY DEF EchoOK, EchoTests
<1>2. e.tally.sent <= e.tally.received + e.tally.drops
  BY <1>1 DEF Consistent
<1> HIDE DEF EchoOK
<1> QED
  BY <1>1, <1>2, TallyFacts

\* A WebSocket session is called stable exactly when something came back and no
\* round was lost, and it has points only for what came back.
LEMMA WebSocketVerdict ==
  ASSUME NEW r, ReportOK(r)
  PROVE  LET v == scoreWebSocket(r)
             t == r.websocket.tally
         IN  /\ Verdict(v, "WebSocket")
             /\ v.stable <=> t.received > 0 /\ t.drops = 0
             /\ v.stable => v.score >= 70
             /\ v.score > 0 => t.received > 0
<1> DEFINE e        == r.websocket
           t        == r.websocket.tally
           expected == IF r.duration < 1 THEN t.sent ELSE r.duration
           delivery == Share(t.received, t.sent, 72)
           replies  == Share(AtMost(expected, t.received), expected, 18)
           steady   == IF r.websocket.steady THEN 10 ELSE Points(t.received > 0, 4)
           sum      == delivery + replies + steady
                       - t.drops * 22 - t.failures * 12 - t.reconnects * 7
           points   == IF t.sent > 0 THEN clamp(sum) ELSE 0
           stable   == points >= 70 /\ t.sent > 0 /\ t.drops = 0
                         /\ 100 * t.received >= 95 * t.sent
<1>1. scoreWebSocket(r) = Score("WebSocket", 0, points, stable)
  BY DEF scoreWebSocket
<1>2. EchoOK(e)
  BY DEF ReportOK
<1>3. /\ t.sent \in Nat /\ t.received \in Nat /\ t.drops \in Nat
      /\ t.reconnects \in Nat /\ t.failures \in Nat
      /\ t.received <= t.sent
      /\ t.drops = 0 /\ t.sent > 0 =>
           t.received = t.sent /\ t.reconnects = 0 /\ t.failures = 0
      /\ t.drops > 0 => t.reconnects + t.failures >= 1
  BY <1>2, EchoFacts
<1>4. steady \in 0 .. 10 /\ (t.received = 0 => steady = 0) /\ (t.received > 0 => steady >= 4)
  BY <1>2, <1>3 DEF EchoOK, EchoTests, Points
<1>5. expected \in Nat /\ AtMost(expected, t.received) \in 0 .. expected
      /\ (t.received = 0 => AtMost(expected, t.received) = 0)
  BY <1>3 DEF ReportOK, AtMost
<1>6. /\ replies \in Int /\ replies <= 18 /\ replies >= -1
      /\ t.received = 0 => replies <= 0
  <2> HIDE DEF expected, t
  <2> QED BY <1>5, ShareAtMost, ShareNone
<1>7. /\ delivery \in Int /\ delivery <= 72
      /\ t.received = 0 => delivery <= 0
      /\ t.received = t.sent /\ t.sent > 0 => delivery = 72
  <2> HIDE DEF t
  <2> QED BY <1>3, ShareAtMost, ShareNone, ShareFull
<1> HIDE DEF e, t, expected, delivery, replies, steady
<1>8. /\ sum \in Int
      /\ t.received = 0 => sum <= 0
      /\ t.drops = 0 /\ t.sent > 0 => sum >= 75 /\ t.received = t.sent
      /\ t.drops > 0 => sum <= 71
  BY <1>3, <1>4, <1>6, <1>7
<1>9. points = IF t.sent > 0 THEN clamp(sum) ELSE 0
  OBVIOUS
<1>10. stable <=> points >= 70 /\ t.sent > 0 /\ t.drops = 0 /\ 100 * t.received >= 95 * t.sent
  OBVIOUS
<1> HIDE DEF sum, points, stable
<1>11. /\ points \in 0 .. 100
       /\ points > 0 => t.received > 0 /\ t.sent > 0
       /\ t.drops = 0 /\ t.sent > 0 => points >= 70
       /\ points >= 85 => t.drops = 0
  BY <1>3, <1>8, <1>9, ClampRange
<1>12. stable <=> t.received > 0 /\ t.drops = 0
  BY <1>3, <1>8, <1>10, <1>11
<1>13. points >= 85 => stable = TRUE
  <2>1. points >= 85 => stable
    BY <1>11, <1>12
  <2> QED BY <2>1, Zenon
<1>14. stable => points >= 70
  BY <1>10
<1>15. stable \in BOOLEAN
  BY Zenon DEF stable
<1>16. /\ Verdict(scoreWebSocket(r), "WebSocket")
       /\ scoreWebSocket(r).score = points
       /\ scoreWebSocket(r).stable = stable
  <2>1. points \in 0 .. 100
    BY <1>11
  <2>2. Judges(Score("WebSocket", 0, points, stable), "WebSocket", 0, points, stable)
    BY <2>1, <1>13, <1>15, VerdictOf, Zenon
  <2> QED BY <1>1, <2>2, Zenon DEF Judges
<1>17. scoreWebSocket(r).score > 0 => t.received > 0
  BY <1>11, <1>16
<1>18. scoreWebSocket(r).stable => scoreWebSocket(r).score >= 70
  BY <1>14, <1>16, Zenon
<1>19. scoreWebSocket(r).stable <=> t.received > 0 /\ t.drops = 0
  BY <1>12, <1>16, Zenon
<1> QED
  BY <1>16, <1>17, <1>18, <1>19, Zenon DEF t

\* What a raw TCP test loses.
LEMMA TCPPenalties ==
  ASSUME NEW gain \in Int, NEW more \in Int, NEW drops \in Nat, NEW reconnects \in Nat,
         NEW spikes \in Nat, NEW failures \in Nat, NEW timeouts \in Nat, NEW resets \in Nat
  PROVE  LET sum == gain + more - drops * 14 - reconnects * 8 - spikes * 5 - failures * 8
                    - timeouts * 4 - resets * 4
         IN  /\ sum \in Int /\ sum <= gain + more
             /\ drops > 0 /\ reconnects + failures >= 1 => sum <= gain + more - 22
OBVIOUS

\* A raw TCP port is called stable only when no round was lost, and it has points
\* only when something connected or came back.
LEMMA TCPVerdict ==
  ASSUME NEW r, ReportOK(r), NEW p \in DOMAIN r.tcp
  PROVE  LET v == tcpPort(r, p)
             t == r.tcp[p].echo.tally
         IN  /\ Verdict(v, "RawTCP") /\ v.port = p
             /\ v.stable => v.score >= 70 /\ t.drops = 0 /\ t.failures = 0
             /\ v.score > 0 => r.tcp[p].connect.successes > 0 \/ t.received > 0
<1> DEFINE c      == r.tcp[p].connect
           s      == r.tcp[p].echo
           t      == r.tcp[p].echo.tally
           echoes == Share(t.received, t.sent, 50)
           bonus  == Points(t.drops = 0 /\ t.failures = 0, 14)
           steady == Points(s.steady, 8)
           connect == Share(c.successes, c.attempts, 25)
           echoed == echoes + bonus + steady
           traffic == Points(t.sent > 0, echoed)
           sum    == connect + traffic
                     - t.drops * 14 - t.reconnects * 8 - s.spikes * 5 - t.failures * 8
                     - c.timeouts * 4 - c.resets * 4
           points == clamp(sum)
           stable == points >= 70 /\ t.sent > 0 /\ t.drops = 0 /\ t.failures = 0
<1>1. tcpPort(r, p) = Score("RawTCP", p, points, stable)
  BY DEF tcpPort
<1>2. EchoOK(s)
  BY DEF ReportOK, PortOK
<1>3. /\ t.sent \in Nat /\ t.received \in Nat /\ t.drops \in Nat
      /\ t.reconnects \in Nat /\ t.failures \in Nat /\ s.spikes \in Nat
      /\ t.received <= t.sent /\ t.sent <= t.received + t.drops
      /\ t.drops = 0 /\ t.sent > 0 =>
           t.received = t.sent /\ t.reconnects = 0 /\ t.failures = 0
      /\ t.drops > 0 => t.reconnects + t.failures >= 1
  BY <1>2, EchoFacts
<1>4. /\ c.timeouts \in Nat /\ c.resets \in Nat
      /\ c.successes \in Nat /\ c.attempts \in Nat /\ c.successes <= c.attempts
  BY DEF ReportOK, PortOK, NoAttempt
<1>5. /\ steady \in {0, 8} /\ (t.received = 0 => steady = 0)
      /\ bonus \in {0, 14} /\ (t.drops > 0 \/ t.failures > 0 => bonus = 0)
  BY <1>2, <1>3 DEF EchoOK, EchoTests, Points
<1>6. echoes \in Int /\ echoes <= 50 /\ (t.received = 0 => echoes <= 0)
  <2> HIDE DEF t
  <2> QED BY <1>3, ShareAtMost, ShareNone
<1>7. connect \in Int /\ connect <= 25 /\ (c.successes = 0 => connect <= 0)
  <2> HIDE DEF c
  <2> QED BY <1>4, ShareAtMost, ShareNone
<1> HIDE DEF c, s, t, echoes, bonus, steady, connect
<1>8. /\ traffic \in Int
      /\ t.sent = 0 => traffic = 0
      /\ t.drops > 0 => traffic <= 58
      /\ t.received = 0 => traffic <= 0
  BY <1>3, <1>5, <1>6 DEF Points
<1> HIDE DEF traffic
<1>9. /\ sum \in Int
      /\ t.sent = 0 => sum <= 25
      /\ t.drops > 0 => sum <= 61
      /\ t.received = 0 /\ c.successes = 0 => sum <= 0
  <2>1. /\ sum \in Int /\ sum <= connect + traffic
        /\ t.drops > 0 => sum <= connect + traffic - 22
    <3>0. /\ connect \in Int /\ traffic \in Int
          /\ t.drops \in Nat /\ t.reconnects \in Nat /\ t.failures \in Nat
          /\ s.spikes \in Nat /\ c.timeouts \in Nat /\ c.resets \in Nat
      BY <1>3, <1>4, <1>7, <1>8
    <3>1. /\ sum \in Int /\ sum <= connect + traffic
          /\ t.drops > 0 /\ t.reconnects + t.failures >= 1 => sum <= connect + traffic - 22
      BY ONLY <3>0, TCPPenalties
    <3> QED BY <1>3, <3>1
  <2> HIDE DEF sum
  <2> QED BY <1>3, <1>7, <1>8, <2>1
<1> HIDE DEF sum
<1>10. /\ points \in 0 .. 100
       /\ points > 0 => t.received > 0 \/ c.successes > 0
       /\ points >= 85 => t.sent > 0 /\ t.drops = 0 /\ t.failures = 0
  BY <1>3, <1>4, <1>9, ClampRange
<1>11. stable <=> points >= 70 /\ t.sent > 0 /\ t.drops = 0 /\ t.failures = 0
  OBVIOUS
<1>12. stable \in BOOLEAN
  BY Zenon DEF stable
<1> HIDE DEF points, stable
<1>13. points >= 85 => stable = TRUE
  <2>1. points >= 85 => stable
    BY <1>10, <1>11
  <2> QED BY <2>1, Zenon
<1>14. Judges(tcpPort(r, p), "RawTCP", p, points, stable)
  BY <1>1, <1>10, <1>12, <1>13, VerdictOf, Zenon
<1>15. /\ Verdict(tcpPort(r, p), "RawTCP") /\ tcpPort(r, p).port = p
       /\ tcpPort(r, p).score = points
  BY <1>14 DEF Judges
<1>16. tcpPort(r, p).stable => stable
  BY <1>14, Zenon DEF Judges
<1>17. tcpPort(r, p).score > 0 => c.successes > 0 \/ t.received > 0
  BY <1>10, <1>15
<1>18. stable => tcpPort(r, p).score >= 70 /\ t.drops = 0 /\ t.failures = 0
  BY <1>11, <1>15
<1> QED
  BY <1>15, <1>16, <1>17, <1>18, Zenon DEF t, c

\* At least one in twenty datagrams lost, and the score stays below 85.
LEMMA LossCosts ==
  ASSUME NEW g \in Nat, NEW t \in Nat \ {0}, 100 * (t - g) > 5 * t, g <= t
  PROVE  Share(g, t, 82) <= 77
<1> DEFINE q == (g * 82) \div t
<1>1. q \in Int /\ t * q <= g * 82
  OBVIOUS
<1>2. Share(g, t, 82) \in {q, q - 1}
  BY DEF Share
<1> HIDE DEF q
<1>3. q <= 77
  <2> SUFFICES ASSUME q >= 78 PROVE FALSE
    BY <1>1
  <2>1. t * q >= t * 78
    BY <1>1
  <2> QED BY <1>1, <2>1
<1> QED BY <1>1, <1>2, <1>3

\* A UDP port is called stable only when something came back and at most one in
\* twenty datagrams was lost, and it has points only for replies.
LEMMA UDPVerdict ==
  ASSUME NEW r, ReportOK(r), NEW p \in DOMAIN r.udp
  PROVE  LET v == udpPort(r, p)
             u == r.udp[p].packets
         IN  /\ Verdict(v, "UDP") /\ v.port = p
             /\ v.stable => v.score >= 70 /\ 100 * (u.sent - u.received) <= 5 * u.sent
             /\ v.score > 0 => u.received > 0
<1> DEFINE u       == r.udp[p].packets
           lost    == 100 * (u.sent - u.received)
           replies == Share(u.received, u.sent, 82)
           loss    == IF lost <= u.sent THEN 15 ELSE Points(lost <= 5 * u.sent, 8)
           steady  == Points(r.udp[p].steady, 3)
           sum     == replies + loss + steady - u.timeouts * 5
           score   == clamp(sum)
           points  == IF u.sent > 0 /\ u.received > 0 THEN score ELSE 0
           stable  == points >= 70 /\ lost <= 5 * u.sent
<1>1. udpPort(r, p) = Score("UDP", p, points, stable)
  BY DEF udpPort
<1>2. /\ u.sent \in Nat /\ u.received \in Nat /\ u.timeouts \in Nat
      /\ u.received <= u.sent /\ r.udp[p].steady \in BOOLEAN
  BY DEF ReportOK, DatagramsOK, UDPTests
<1>3. steady \in {0, 3}
  BY DEF Points
<1>4. /\ replies \in Int
      /\ lost > 5 * u.sent /\ u.sent > 0 => replies <= 77
  <2> HIDE DEF u
  <2> QED BY <1>2, ShareAtMost, LossCosts
<1>5. lost \in Int /\ loss \in {0, 8, 15} /\ (lost > 5 * u.sent => loss = 0)
  BY <1>2 DEF Points
<1>6. lost <= 5 * u.sent <=> 100 * (u.sent - u.received) <= 5 * u.sent
  OBVIOUS
<1> HIDE DEF u, lost, replies, loss, steady
<1>7. /\ sum \in Int
      /\ lost > 5 * u.sent /\ u.sent > 0 => sum <= 80
  BY <1>2, <1>3, <1>4, <1>5
<1> HIDE DEF sum
<1>8. /\ score \in 0 .. 100
      /\ lost > 5 * u.sent /\ u.sent > 0 => score < 85
  BY <1>7, ClampRange
<1> HIDE DEF score
<1>9. /\ points \in 0 .. 100
      /\ points > 0 => u.received > 0 /\ u.sent > 0
      /\ points >= 85 => lost <= 5 * u.sent
  BY <1>2, <1>5, <1>8
<1>10. stable <=> points >= 70 /\ lost <= 5 * u.sent
  OBVIOUS
<1>11. stable \in BOOLEAN
  BY Zenon DEF stable
<1> HIDE DEF points, stable
<1>12. points >= 85 => stable = TRUE
  <2>1. points >= 85 => stable
    BY <1>9, <1>10
  <2> QED BY <2>1, Zenon
<1>13. Judges(udpPort(r, p), "UDP", p, points, stable)
  BY <1>1, <1>9, <1>11, <1>12, VerdictOf, Zenon
<1>14. /\ Verdict(udpPort(r, p), "UDP") /\ udpPort(r, p).port = p
       /\ udpPort(r, p).score = points
  BY <1>13 DEF Judges
<1>15. udpPort(r, p).stable => stable
  BY <1>13, Zenon DEF Judges
<1>16. udpPort(r, p).score > 0 => u.received > 0
  BY <1>9, <1>14
<1>17. stable => udpPort(r, p).score >= 70 /\ 100 * (u.sent - u.received) <= 5 * u.sent
  BY <1>6, <1>10, <1>14
<1> QED
  BY <1>14, <1>15, <1>16, <1>17, Zenon DEF u

\* A TLS handshake reaches 80 points only with a stable session over it.
LEMMA TLSVerdict ==
  ASSUME NEW r, ReportOK(r), NEW ws, ws.stable \in BOOLEAN
  PROVE  LET v == scoreTLS(r, ws)
         IN  /\ Verdict(v, "TLS")
             /\ v.score > 0 => r.tls.success
<1> DEFINE version == CASE r.tls.version = "TLS 1.3" -> 12
                        [] r.tls.version = "TLS 1.2" -> 8
                        [] r.tls.version = "older"   -> 0
           time    == CASE r.tls.time = "300ms"  -> 10
                        [] r.tls.time = "1s"     -> 6
                        [] r.tls.time = "3s"     -> 0
                        [] r.tls.time = "longer" -> -10
           backed  == r.wss /\ ws.stable
           sum     == 50 + version + time + Points(backed, 12)
           most    == IF backed THEN sum ELSE AtMost(74, sum)
           score   == clamp(most)
           stable  == score >= 80 /\ backed
<1>1. scoreTLS(r, ws)
        = IF r.tls.success THEN Score("TLS", 0, score, stable)
                           ELSE Score("TLS", 0, 0, FALSE)
  BY DEF scoreTLS
<1>2. /\ r.tls.version \in {"TLS 1.3", "TLS 1.2", "older"}
      /\ r.tls.time \in {"300ms", "1s", "3s", "longer"}
  <2>1. CASE r.tls = NoHandshake
    BY <2>1 DEF NoHandshake
  <2>2. CASE r.tls \in [success : {TRUE}, time : HandshakeTimes, version : versionName]
    BY <2>2 DEF HandshakeTimes, versionName
  <2> QED
    BY <2>1, <2>2 DEF ReportOK, TLSResults
<1>3. version \in {0, 8, 12} /\ time \in {-10, 0, 6, 10} /\ Points(backed, 12) \in {0, 12}
  BY <1>2 DEF Points
<1> HIDE DEF version, time, backed
<1>4. sum \in Int
  BY <1>3
<1> HIDE DEF sum
<1>5. most \in Int /\ (~backed => most <= 74)
  BY <1>4 DEF AtMost
<1> HIDE DEF most
<1>6. score \in 0 .. 100 /\ (score >= 85 => backed)
  BY <1>5, ClampRange
<1>7. stable \in BOOLEAN
  BY Zenon DEF stable
<1>8. score >= 85 => stable = TRUE
  <2>1. score >= 85 => score >= 80
    BY <1>6
  <2> HIDE DEF score
  <2> QED BY <1>6, <2>1, Zenon
<1> HIDE DEF score, stable
<1>9. Judges(Score("TLS", 0, score, stable), "TLS", 0, score, stable)
  BY <1>6, <1>7, <1>8, VerdictOf, Zenon
<1>10. Judges(Score("TLS", 0, 0, FALSE), "TLS", 0, 0, FALSE)
  <2>1. 0 \in 0 .. 100 /\ (0 >= 85 => FALSE = TRUE)
    OBVIOUS
  <2> QED BY <2>1, VerdictOf, Zenon
<1>11. CASE r.tls.success
  BY <1>1, <1>9, <1>11, Zenon DEF Judges
<1>12. CASE ~r.tls.success
  <2>1. scoreTLS(r, ws).score = 0 /\ Verdict(scoreTLS(r, ws), "TLS")
    BY <1>1, <1>10, <1>12 DEF Judges
  <2> QED BY <2>1
<1> QED BY <1>11, <1>12

\* The lookup has labels of its own.
LEMMA DNSVerdict ==
  ASSUME NEW r, ReportOK(r)
  PROVE  /\ scoreDNS(r).score \in 0 .. 100
         /\ scoreDNS(r).status \in Labels \cup {"ok", "slow"}
<1> DEFINE score == CASE ~r.dns.success -> 0
                      [] r.dns.success /\ r.dns.time = "100ms"  -> 100
                      [] r.dns.success /\ r.dns.time = "500ms"  -> 92
                      [] r.dns.success /\ r.dns.time = "2s"     -> 85
                      [] r.dns.success /\ r.dns.time = "longer" -> 65
           status == CASE score = 0  -> "failed"
                       [] score = 65 -> "slow"
                       [] score = 85 -> "ok"
                       [] OTHER      -> "stable"
<1>1. scoreDNS(r) = [Score("DNS", 0, score, score >= 80) EXCEPT !.status = status]
  BY DEF scoreDNS
<1>2. /\ r.dns.success \in BOOLEAN
      /\ r.dns.time \in {"100ms", "500ms", "2s", "longer"}
  BY DEF ReportOK, DNSResults
<1>3. score \in {0, 65, 85, 92, 100}
  BY <1>2
<1> HIDE DEF score
<1>4. status \in {"failed", "slow", "ok", "stable"}
  BY <1>3
<1> HIDE DEF status
<1>5. scoreDNS(r).score = score /\ scoreDNS(r).status = status
  BY <1>1 DEF Score
<1> QED BY <1>3, <1>4, <1>5 DEF Labels

\* Downloads have two labels of their own, and points only for bytes.
LEMMA DownloadVerdict ==
  ASSUME NEW r, ReportOK(r)
  PROVE  LET v == scoreDownload(r)
         IN  /\ v.score \in 0 .. 100
             /\ v.status \in Labels \cup {"partial", "not_tested"}
             /\ v.score > 0 => \E i \in DOMAIN r.downloads : r.downloads[i].bytes
<1> DEFINE ds == DOMAIN r.downloads
           ones == [i \in ds |-> completion(r.downloads[i])]
           total == Total(ones)
           Full(d) == completion(d) >= 100 /\ ~d.error /\ ~d.stalled
           full == Cardinality({i \in ds : Full(r.downloads[i])})
           partial == Cardinality({i \in ds : r.downloads[i].partial})
           interrupted == Cardinality({i \in ds : r.downloads[i].interrupted})
           stalled == Cardinality({i \in ds : r.downloads[i].stalled})
           slower == Cardinality({i \in ds : r.downloads[i].speedDrop})
           sum == Share(total, 10 * Cardinality(ds), 7) + Share(full, Cardinality(ds), 25)
                  - interrupted * 8 - stalled * 12 - slower * 5
           score == clamp(sum)
           judged == Score("Download", 0, score,
                           score >= 75 /\ interrupted = 0 /\ stalled = 0)
<1>1. scoreDownload(r) =
        CASE ds = {} -> [Score("Download", 0, 0, FALSE) EXCEPT !.status = "not_tested"]
          [] ds # {} /\ partial > 0 /\ score >= 50 /\ full = 0
                   -> [judged EXCEPT !.status = "partial"]
          [] OTHER -> judged
  BY DEF scoreDownload
<1>2. IsFiniteSet(ds) /\ Cardinality(ds) \in Nat
  BY FS_CardinalityType DEF ReportOK
<1>3. /\ full \in Nat /\ interrupted \in Nat /\ stalled \in Nat /\ slower \in Nat
      /\ partial \in Nat
  <2>1. \A S \in SUBSET ds : Cardinality(S) \in Nat
    BY <1>2, FS_Subset, FS_CardinalityType
  <2> QED BY <2>1
<1>4. \A i \in ds : /\ completion(r.downloads[i]) \in 0 .. 100
                    /\ completion(r.downloads[i]) > 0 => r.downloads[i].bytes
  BY DEF ReportOK, DownloadOK, completion, AtMost
<1>5. ones \in [ds -> Int] /\ \A i \in ds : ones[i] = completion(r.downloads[i])
  <2>1. \A i \in ds : completion(r.downloads[i]) \in Int
    <3> HIDE DEF ds
    <3> QED BY <1>4
  <2> HIDE DEF ds
  <2> QED BY <2>1
<1>6. total \in Int
  <2> HIDE DEF ones, ds
  <2> QED BY <1>2, <1>5, TotalType
<1>7. ASSUME ~ \E i \in ds : r.downloads[i].bytes PROVE total = 0 /\ full = 0
  <2>1. \A i \in ds : completion(r.downloads[i]) = 0
    <3> HIDE DEF ds
    <3> QED BY <1>4, <1>7
  <2>2. {i \in ds : Full(r.downloads[i])} = {}
    BY <2>1
  <2>3. full = 0
    BY <2>2, FS_EmptySet
  <2>4. total = 0
    <3> HIDE DEF ones, ds
    <3> QED BY <1>2, <1>5, <2>1, TotalZero
  <2> QED BY <2>3, <2>4
<1>8. 10 * Cardinality(ds) \in Nat
  BY <1>2
<1> DEFINE parts == Share(total, 10 * Cardinality(ds), 7)
           whole == Share(full, Cardinality(ds), 25)
<1>9. /\ parts \in Int /\ whole \in Int
      /\ total = 0 /\ full = 0 => parts <= 0 /\ whole <= 0
  <2> HIDE DEF total, full
  <2>1. full \in Int
    BY <1>3
  <2> QED BY <1>2, <1>6, <1>8, <2>1, ShareInt, ShareNone
<1>10. sum = parts + whole - interrupted * 8 - stalled * 12 - slower * 5
  OBVIOUS
<1> HIDE DEF ds, full, total, parts, whole, interrupted, stalled, slower, partial
<1> HIDE DEF sum
<1>11. sum \in Int /\ ((total = 0 /\ full = 0) => sum <= 0)
  BY <1>3, <1>9, <1>10
<1>12. score \in 0 .. 100 /\ (score > 0 => sum > 0)
  BY <1>11, ClampRange
<1>13. score > 0 => \E i \in ds : r.downloads[i].bytes
  BY <1>7, <1>11, <1>12
<1> HIDE DEF score
<1>14. judged.score = score /\ judged.status = statusFor(score)
  BY DEF Score
<1>15. [judged EXCEPT !.status = "partial"].score = score
       /\ [judged EXCEPT !.status = "partial"].status = "partial"
  BY DEF Score
<1> HIDE DEF judged
<1>16. [Score("Download", 0, 0, FALSE) EXCEPT !.status = "not_tested"].score = 0
       /\ [Score("Download", 0, 0, FALSE) EXCEPT !.status = "not_tested"].status = "not_tested"
  BY DEF Score
<1>17. statusFor(score) \in Labels
  BY <1>12, StatusOf
<1>18. \/ scoreDownload(r) = [Score("Download", 0, 0, FALSE) EXCEPT !.status = "not_tested"]
       \/ scoreDownload(r) = [judged EXCEPT !.status = "partial"]
       \/ scoreDownload(r) = judged
  BY <1>1, Zenon
<1>19. \/ scoreDownload(r).score = 0 /\ scoreDownload(r).status = "not_tested"
       \/ scoreDownload(r).score = score
            /\ (scoreDownload(r).status = "partial" \/ scoreDownload(r).status = statusFor(score))
  BY <1>14, <1>15, <1>16, <1>18, Zenon
<1> QED BY <1>12, <1>13, <1>17, <1>19 DEF ds

\* HTTP has points only for an answer or for bytes of a download.
LEMMA HTTPVerdict ==
  ASSUME NEW r, ReportOK(r), NEW dl, dl.score \in 0 .. 100
  PROVE  LET v == scoreHTTP(r, dl)
         IN  /\ Verdict(v, "HTTP")
             /\ v.score > 0 => r.http.ok > 0 \/ dl.score > 0
<1> DEFINE h       == r.http
           answers == Share(h.ok, h.ok + h.timeouts + h.failed, 52)
           pace    == latencyScore(h, 18)
           bodies  == Points(DOMAIN r.downloads # {}, (dl.score * 30) \div 100)
           sum     == answers + pace + bodies - h.timeouts * 8
           score   == clamp(sum)
           stable  == score >= 70
<1>1. scoreHTTP(r, dl) = Score("HTTP", 0, score, stable)
  BY DEF scoreHTTP
<1>2. /\ h.ok \in Nat /\ h.timeouts \in Nat /\ h.failed \in Nat
      /\ h.pace \in {"steady", "slow", "slowest"}
  BY DEF ReportOK, HTTPTests
<1>3. pace \in Int /\ (h.ok = 0 => pace = 0)
  BY <1>2 DEF latencyScore
<1>4. answers \in Int /\ (h.ok = 0 => answers <= 0)
  <2>1. h.ok + h.timeouts + h.failed \in Nat /\ h.ok \in Int
    BY <1>2
  <2> HIDE DEF h
  <2> QED BY <2>1, ShareInt, ShareNone
<1>5. bodies \in Int /\ (dl.score = 0 => bodies = 0)
  BY DEF Points
<1> HIDE DEF h, pace, answers, bodies
<1>6. sum \in Int /\ ((h.ok = 0 /\ dl.score = 0) => sum <= 0)
  BY <1>2, <1>3, <1>4, <1>5
<1> HIDE DEF sum
<1>7. score \in 0 .. 100 /\ (score > 0 => sum > 0)
  BY <1>6, ClampRange
<1>8. stable \in BOOLEAN
  <2> HIDE DEF score
  <2> QED BY SMT DEF stable
<1>9. score >= 85 => stable = TRUE
  <2>1. score >= 85 => stable
    BY <1>7
  <2> QED BY <2>1, Zenon
<1> HIDE DEF score, stable
<1>10. Judges(scoreHTTP(r, dl), "HTTP", 0, score, stable)
  BY <1>1, <1>7, <1>8, <1>9, VerdictOf, Zenon
<1>11. Verdict(scoreHTTP(r, dl), "HTTP") /\ scoreHTTP(r, dl).score = score
  BY <1>10 DEF Judges
<1>12. scoreHTTP(r, dl).score > 0 => h.ok > 0 \/ dl.score > 0
  BY <1>2, <1>6, <1>7, <1>11
<1> QED BY <1>11, <1>12 DEF h

-----------------------------------------------------------------------------
\* A candidate is a port with points, or nothing.
LEMMA NothingJudged ==
  ASSUME NEW transport
  PROVE  LET v == Score(transport, 0, 0, FALSE)
         IN  Verdict(v, transport) /\ v.score = 0 /\ ~v.stable
<1>1. 0 \in 0 .. 100 /\ (0 >= 85 => FALSE = TRUE)
  OBVIOUS
<1>2. Judges(Score(transport, 0, 0, FALSE), transport, 0, 0, FALSE)
  BY <1>1, VerdictOf, Zenon
<1> QED BY <1>2 DEF Judges

LEMMA TCPCandidates ==
  ASSUME NEW r, ReportOK(r), NEW v \in scoreRawTCP(r)
  PROVE  /\ Verdict(v, "RawTCP")
         /\ v.score > 0 => v.port \in DOMAIN r.tcp /\ v = tcpPort(r, v.port)
         /\ v.stable => v.score > 0
<1>1. CASE v = Score("RawTCP", 0, 0, FALSE)
  <2>1. Verdict(v, "RawTCP") /\ v.score = 0 /\ ~v.stable
    BY <1>1, NothingJudged, Zenon
  <2> QED BY <2>1
<1>2. CASE \E p \in DOMAIN r.tcp : v = tcpPort(r, p)
  <2>1. PICK p \in DOMAIN r.tcp : v = tcpPort(r, p)
    BY <1>2
  <2>2. Verdict(v, "RawTCP") /\ v.port = p /\ (v.stable => v.score >= 70)
    BY <2>1, TCPVerdict, Zenon
  <2>3. v.score \in 0 .. 100
    BY <2>2 DEF Verdict
  <2> QED BY <2>1, <2>2, <2>3
<1> QED BY <1>1, <1>2 DEF scoreRawTCP, Candidates

LEMMA UDPCandidates ==
  ASSUME NEW r, ReportOK(r), NEW v \in scoreUDP(r)
  PROVE  /\ Verdict(v, "UDP")
         /\ v.score > 0 => v.port \in DOMAIN r.udp /\ v = udpPort(r, v.port)
         /\ v.stable => v.score > 0
<1>1. CASE v = Score("UDP", 0, 0, FALSE)
  <2>1. Verdict(v, "UDP") /\ v.score = 0 /\ ~v.stable
    BY <1>1, NothingJudged, Zenon
  <2> QED BY <2>1
<1>2. CASE \E p \in DOMAIN r.udp : v = udpPort(r, p)
  <2>1. PICK p \in DOMAIN r.udp : v = udpPort(r, p)
    BY <1>2
  <2>2. Verdict(v, "UDP") /\ v.port = p /\ (v.stable => v.score >= 70)
    BY <2>1, UDPVerdict, Zenon
  <2>3. v.score \in 0 .. 100
    BY <2>2 DEF Verdict
  <2> QED BY <2>1, <2>2, <2>3
<1> QED BY <1>1, <1>2 DEF scoreUDP, Candidates

\* The ranking has a first place.
LEMMA FirstPlace ==
  ASSUME NEW f, \A t \in Ranked : Verdict(f[t], t)
  PROVE  \E t \in Ranked : \A u \in Ranked : f[u] # f[t] => Above(f[t], f[u])
<1> DEFINE place(t) == 5 * (100 - f[t].score) + preference(t)
           K == {place(t) : t \in Ranked}
<1>1. \A t \in Ranked : preference(t) \in 0 .. 4
  BY DEF Ranked, preference
<1>2. \A t, u \in Ranked : preference(t) = preference(u) => t = u
  BY DEF Ranked, preference
<1>3. \A t \in Ranked : f[t].score \in 0 .. 100 /\ f[t].transport = t
  BY DEF Verdict
<1>4. \A t \in Ranked : place(t) \in Nat
  <2> SUFFICES ASSUME NEW t \in Ranked PROVE place(t) \in Nat
    OBVIOUS
  <2>1. f[t].score \in 0 .. 100 /\ preference(t) \in 0 .. 4
    BY <1>1, <1>3
  <2> QED BY <2>1
<1>5. K \in SUBSET Nat /\ K # {}
  <2>1. "TLS" \in Ranked
    BY DEF Ranked
  <2> HIDE DEF place
  <2>2. place("TLS") \in K
    BY <2>1
  <2> QED BY <1>4, <2>2
<1>6. PICK n \in K : \A k \in K : n <= k
  <2> HIDE DEF K
  <2> QED BY <1>5, LeastNatural
<1>7. PICK t \in Ranked : n = place(t)
  OBVIOUS
<1>8. ASSUME NEW u \in Ranked, f[u] # f[t] PROVE Above(f[t], f[u])
  <2>1. place(t) <= place(u)
    <3> HIDE DEF place
    <3> QED BY <1>6, <1>7
  <2>2. /\ f[t].score \in 0 .. 100 /\ f[u].score \in 0 .. 100
        /\ preference(t) \in 0 .. 4 /\ preference(u) \in 0 .. 4
        /\ preference(t) # preference(u)
    BY <1>1, <1>2, <1>3, <1>8
  <2>3. \/ f[t].score > f[u].score
        \/ f[t].score = f[u].score /\ preference(t) < preference(u)
    <3>1. 5 * (100 - f[t].score) + preference(t) <= 5 * (100 - f[u].score) + preference(u)
      BY <2>1
    <3>2. ASSUME NEW a \in 0 .. 100, NEW b \in 0 .. 100, NEW p \in 0 .. 4, NEW q \in 0 .. 4,
                 p # q, 5 * (100 - a) + p <= 5 * (100 - b) + q
          PROVE  a > b \/ (a = b /\ p < q)
      BY ONLY <3>2
    <3> QED BY ONLY <2>2, <3>1, <3>2
  <2> QED BY <1>3, <2>3 DEF Above
<1> QED BY <1>8

\* The best candidate is the first of the ranking, unless nothing has points.
LEMMA BestOf ==
  ASSUME NEW f, \A t \in Ranked : Verdict(f[t], t)
  PROVE  LET b == bestCandidate({f[t] : t \in Ranked})
         IN  \/ b = NoCandidate /\ \A t \in Ranked : f[t].score = 0
             \/ \E t \in Ranked : b = f[t] /\ f[t].score > 0
<1> DEFINE S == {f[t] : t \in Ranked}
           Leads(s) == \A t \in S \ {s} : Above(s, t)
           first == CHOOSE s \in S : Leads(s)
<1>1. \E s \in S : Leads(s)
  <2>1. PICK t \in Ranked : \A u \in Ranked : f[u] # f[t] => Above(f[t], f[u])
    BY FirstPlace
  <2>2. f[t] \in S /\ Leads(f[t])
    BY <2>1
  <2> QED BY <2>2
<1>2. first \in S /\ Leads(first)
  BY <1>1
<1>3. bestCandidate(S) = IF first.score = 0 THEN NoCandidate ELSE first
  BY DEF bestCandidate
<1> HIDE DEF first
<1>4. \A t \in Ranked : f[t].score \in 0 .. 100
  BY DEF Verdict
<1>5. PICK t \in Ranked : first = f[t]
  BY <1>2
<1>6. CASE first.score = 0
  <2>1. ASSUME NEW u \in Ranked PROVE f[u].score = 0
    <3>1. f[u] = first \/ Above(first, f[u])
      BY <1>2
    <3>2. f[u].score \in 0 .. 100
      BY <1>4
    <3> QED BY <1>6, <3>1, <3>2 DEF Above
  <2> QED BY <1>3, <1>6, <2>1
<1>7. CASE first.score # 0
  BY <1>3, <1>4, <1>5, <1>7
<1> QED BY <1>6, <1>7

-----------------------------------------------------------------------------
\* What a slow answer and what a lost round change in the result of an echo test.
LEMMA SlowRound ==
  ASSUME NEW e \in EchoTests, NEW s \in Slow(e)
  PROVE  /\ s.tally.sent = e.tally.sent + 1 /\ s.tally.received = e.tally.received + 1
         /\ s.tally.drops = e.tally.drops /\ s.tally.reconnects = e.tally.reconnects
         /\ s.tally.failures = e.tally.failures
         /\ s.spikes <= e.spikes + 1 /\ s.spikes \in Nat
         /\ ~s.steady
<1>1. PICK k \in {0, 1} :
        s = [e EXCEPT !.tally = Answered(e.tally), !.steady = FALSE, !.spikes = @ + k]
  BY DEF Slow
<1>2. e.tally \in Tallies /\ e.spikes \in Nat
  BY DEF EchoTests
<1>3. s.tally = Answered(e.tally) /\ s.spikes = e.spikes + k
  BY <1>1 DEF EchoTests
<1>4. ~s.steady
  BY <1>1 DEF EchoTests
<1>5. Answered(e.tally) = [e.tally EXCEPT !.sent = @ + 1, !.received = @ + 1]
  BY <1>2 DEF Answered, Count, Tallies
<1> QED BY <1>2, <1>3, <1>4, <1>5 DEF Tallies

\* A tally stays one when a counter grows or its link changes.
LEMMA CountOf ==
  ASSUME NEW t \in Tallies,
         NEW c \in {"sent", "received", "drops", "reconnects", "failures"}
  PROVE  LET u == Count(t, c)
         IN  /\ u \in Tallies
             /\ u.sent = IF c = "sent" THEN t.sent + 1 ELSE t.sent
             /\ u.received = IF c = "received" THEN t.received + 1 ELSE t.received
             /\ u.drops = IF c = "drops" THEN t.drops + 1 ELSE t.drops
             /\ u.reconnects = IF c = "reconnects" THEN t.reconnects + 1 ELSE t.reconnects
             /\ u.failures = IF c = "failures" THEN t.failures + 1 ELSE t.failures
<1>1. Count(t, c) \in Tallies
  BY DEF Count, Tallies
<1> QED BY <1>1 DEF Count, Tallies

LEMMA LinkOf ==
  ASSUME NEW t \in Tallies, NEW l \in Link
  PROVE  LET u == Linked(t, l)
         IN  /\ u \in Tallies
             /\ u.sent = t.sent /\ u.received = t.received /\ u.drops = t.drops
             /\ u.reconnects = t.reconnects /\ u.failures = t.failures
BY DEF Linked, Tallies, Link

LEMMA UnsentOf ==
  ASSUME NEW t \in Tallies
  PROVE  LET u == LostUnsent(t)
         IN  /\ u \in Tallies
             /\ u.sent = t.sent /\ u.received = t.received /\ u.drops = t.drops + 1
             /\ u.reconnects = t.reconnects /\ u.failures = t.failures + 1
<1> DEFINE d == Count(t, "drops")
           f == Count(d, "failures")
<1>1. /\ d \in Tallies /\ d.sent = t.sent /\ d.received = t.received
      /\ d.drops = t.drops + 1 /\ d.reconnects = t.reconnects /\ d.failures = t.failures
  BY CountOf
<1> HIDE DEF d
<1>2. /\ f \in Tallies /\ f.sent = d.sent /\ f.received = d.received
      /\ f.drops = d.drops /\ f.reconnects = d.reconnects /\ f.failures = d.failures + 1
  BY <1>1, CountOf
<1>3. LostUnsent(t) = Linked(f, "redialling") /\ "redialling" \in Link
  BY DEF LostUnsent, Link, d
<1> HIDE DEF f
<1> QED BY <1>1, <1>2, <1>3, LinkOf

LEMMA LossOf ==
  ASSUME NEW t \in Tallies, NEW l \in Losses(t)
  PROVE  /\ l \in Tallies
         /\ l.sent \in {t.sent, t.sent + 1} /\ l.received = t.received
         /\ l.drops = t.drops + 1 /\ l.reconnects = t.reconnects
         /\ l.failures = t.failures + 1
<1> DEFINE s == Count(t, "sent")
<1>1. /\ s \in Tallies /\ s.sent = t.sent + 1 /\ s.received = t.received
      /\ s.drops = t.drops /\ s.reconnects = t.reconnects /\ s.failures = t.failures
  BY CountOf
<1>2. l = LostUnsent(t) \/ l = LostUnsent(s)
  BY DEF Losses, LostSent
<1> HIDE DEF s
<1> QED BY <1>1, <1>2, UnsentOf

LEMMA LostRound ==
  ASSUME NEW e \in EchoTests, NEW s \in Lost(e)
  PROVE  /\ s.tally.sent \in {e.tally.sent, e.tally.sent + 1}
         /\ s.tally.received = e.tally.received
         /\ s.tally.drops = e.tally.drops + 1
         /\ \/ s.tally.reconnects = e.tally.reconnects + 1
                 /\ s.tally.failures = e.tally.failures + 1
            \/ s.tally.reconnects = e.tally.reconnects
                 /\ s.tally.failures = e.tally.failures + 2
         /\ s.spikes = e.spikes
<1>1. PICK t \in LostRounds(e.tally) : s = [e EXCEPT !.tally = t]
  BY DEF Lost
<1>2. e.tally \in Tallies
  BY DEF EchoTests
<1>3. s.tally = t /\ s.spikes = e.spikes
  BY <1>1 DEF EchoTests
<1>4. PICK l \in Losses(e.tally) : t \in Redials(l)
  BY DEF LostRounds
<1>5. /\ l \in Tallies
      /\ l.sent \in {e.tally.sent, e.tally.sent + 1} /\ l.received = e.tally.received
      /\ l.drops = e.tally.drops + 1 /\ l.reconnects = e.tally.reconnects
      /\ l.failures = e.tally.failures + 1
  BY <1>2, <1>4, LossOf
<1>6. t \in {Redialled(l), NotRedialled(l)}
  BY <1>4 DEF Redials
<1>7. /\ t.sent = l.sent /\ t.received = l.received /\ t.drops = l.drops
      /\ \/ t.reconnects = l.reconnects + 1 /\ t.failures = l.failures
         \/ t.reconnects = l.reconnects /\ t.failures = l.failures + 1
  BY <1>5, <1>6 DEF Redialled, NotRedialled, Linked, Count, Tallies
<1>8. l.failures \in Nat
  BY <1>5 DEF Tallies
<1> QED BY <1>2, <1>3, <1>5, <1>7, <1>8 DEF Tallies

\* The share of the echoes that came back is smaller by at most one point when
\* the next one is answered than when it is lost.
LEMMA ShareOfLost ==
  ASSUME NEW g \in Nat, NEW t \in Nat, g <= t, NEW u \in {t, t + 1}, u > 0, NEW p \in Nat
  PROVE  Share(g, u, p) <= Share(g + 1, t + 1, p) + 1
<1>1. g * (t + 1) <= (g + 1) * u
  <2>1. g * (t + 1) = g * t + g /\ (g + 1) * t = g * t + t
    OBVIOUS
  <2>2. (g + 1) * (t + 1) = (g + 1) * t + (g + 1)
    OBVIOUS
  <2>3. g * t \in Nat
    OBVIOUS
  <2> QED BY <2>1, <2>2, <2>3
<1> QED
  <2>1. u \in Nat \ {0} /\ g + 1 \in Nat /\ t + 1 \in Nat \ {0}
    OBVIOUS
  <2> QED BY <1>1, <2>1, ShareGrows

-----------------------------------------------------------------------------
\* What the connects and the echoes of a raw TCP port are worth, before the clamp.
Echoed(s) ==
  Share(s.tally.received, s.tally.sent, 50)
    + Points(s.tally.drops = 0 /\ s.tally.failures = 0, 14) + Points(s.steady, 8)

TCPPoints(c, s) ==
  Share(c.successes, c.attempts, 25) + Points(s.tally.sent > 0, Echoed(s))
    - s.tally.drops * 14 - s.tally.reconnects * 8 - s.spikes * 5 - s.tally.failures * 8
    - c.timeouts * 4 - c.resets * 4

LEMMA TCPScore ==
  ASSUME NEW r, NEW p
  PROVE  tcpPort(r, p).score = clamp(TCPPoints(r.tcp[p].connect, r.tcp[p].echo))
BY DEF tcpPort, Score, TCPPoints, Echoed

LEMMA EchoedBounds ==
  ASSUME NEW s, s.tally.sent \in Nat, s.tally.received \in Nat,
         s.tally.received <= s.tally.sent
  PROVE  /\ Echoed(s) \in Int
         /\ Echoed(s) >= Share(s.tally.received, s.tally.sent, 50)
         /\ Echoed(s) <= Share(s.tally.received, s.tally.sent, 50) + 22
         /\ s.tally.drops > 0 /\ s.tally.drops \in Nat =>
              Echoed(s) <= Share(s.tally.received, s.tally.sent, 50) + 8
<1> DEFINE share == Share(s.tally.received, s.tally.sent, 50)
           bonus == Points(s.tally.drops = 0 /\ s.tally.failures = 0, 14)
           steady == Points(s.steady, 8)
<1>1. share \in Int
  BY ShareAtMost
<1>2. bonus \in {0, 14} /\ (s.tally.drops \in Nat /\ s.tally.drops > 0 => bonus = 0)
  BY DEF Points
<1>3. steady \in {0, 8}
  BY DEF Points
<1>4. Echoed(s) = share + bonus + steady
  BY DEF Echoed
<1> HIDE DEF share, bonus, steady
<1>5. Echoed(s) >= share /\ Echoed(s) <= share + 22 /\ Echoed(s) \in Int
      /\ (s.tally.drops \in Nat /\ s.tally.drops > 0 => Echoed(s) <= share + 8)
  BY <1>1, <1>2, <1>3, <1>4
<1> QED BY <1>5 DEF share

\* Over raw TCP a lost round costs 14 points for the drop and 16 for what follows
\* it; the echo it replaces would have cost at most a spike and the 8 of latency.
LEMMA TCPLossCosts ==
  ASSUME NEW c, c.successes \in Nat, c.attempts \in Nat, c.successes <= c.attempts,
         c.timeouts \in Nat, c.resets \in Nat,
         NEW e, EchoOK(e), NEW slow \in Slow(e), NEW lost \in Lost(e)
  PROVE  /\ TCPPoints(c, lost) \in Int /\ TCPPoints(c, slow) \in Int
         /\ TCPPoints(c, lost) <= TCPPoints(c, slow)
<1> DEFINE t == e.tally
           l == lost.tally
           s == slow.tally
           more == Points(s.sent > 0, Echoed(slow))
           less == Points(l.sent > 0, Echoed(lost))
           gain == Share(c.successes, c.attempts, 25)
<1>0. e \in EchoTests
  BY DEF EchoOK
<1>1. /\ t.sent \in Nat /\ t.received \in Nat /\ t.drops \in Nat /\ t.reconnects \in Nat
      /\ t.failures \in Nat /\ e.spikes \in Nat /\ t.received <= t.sent
  BY EchoFacts
<1>2. /\ s.sent = t.sent + 1 /\ s.received = t.received + 1 /\ s.drops = t.drops
      /\ s.reconnects = t.reconnects /\ s.failures = t.failures
      /\ slow.spikes \in Nat /\ slow.spikes <= e.spikes + 1
  BY <1>0, SlowRound
<1>3. /\ l.sent \in {t.sent, t.sent + 1} /\ l.received = t.received /\ l.drops = t.drops + 1
      /\ \/ l.reconnects = t.reconnects + 1 /\ l.failures = t.failures + 1
         \/ l.reconnects = t.reconnects /\ l.failures = t.failures + 2
      /\ lost.spikes = e.spikes
  BY <1>0, LostRound
<1>4. gain \in Int
  BY ShareAtMost
<1>5. /\ Echoed(slow) \in Int /\ Echoed(lost) \in Int
      /\ Echoed(slow) >= Share(t.received + 1, t.sent + 1, 50)
      /\ Echoed(lost) <= Share(t.received, l.sent, 50) + 8
  <2>1. s.sent \in Nat /\ s.received \in Nat /\ s.received <= s.sent
    BY <1>1, <1>2
  <2>2. l.sent \in Nat /\ l.received \in Nat /\ l.received <= l.sent
        /\ l.drops \in Nat /\ l.drops > 0
    BY <1>1, <1>3
  <2>3. Echoed(slow) \in Int /\ Echoed(slow) >= Share(s.received, s.sent, 50)
    BY <2>1, EchoedBounds
  <2>4. Echoed(lost) \in Int /\ Echoed(lost) <= Share(l.received, l.sent, 50) + 8
    BY <2>2, EchoedBounds
  <2> QED BY <1>2, <1>3, <2>3, <2>4
<1>6. /\ Share(t.received + 1, t.sent + 1, 50) \in Int
      /\ Share(t.received + 1, t.sent + 1, 50) >= -1
      /\ Share(t.received, l.sent, 50) \in Int
  <2>1. /\ t.received + 1 \in Nat /\ t.sent + 1 \in Nat /\ t.received + 1 <= t.sent + 1
        /\ l.sent \in Nat /\ t.received <= l.sent
    BY <1>1, <1>3
  <2> HIDE DEF t, l
  <2> QED BY <1>1, <2>1, ShareAtMost
<1>7. l.sent > 0 => Share(t.received, l.sent, 50) <= Share(t.received + 1, t.sent + 1, 50) + 1
  <2> HIDE DEF t, l
  <2> QED BY <1>1, <1>3, ShareOfLost
<1>8. more \in Int /\ less \in Int /\ less <= more + 10
  <2>1. s.sent > 0 /\ more = Echoed(slow)
    BY <1>1, <1>2 DEF Points
  <2>2. less = IF l.sent > 0 THEN Echoed(lost) ELSE 0
    BY DEF Points
  <2> HIDE DEF more, less, s, l, t
  <2> QED BY <1>5, <1>6, <1>7, <2>1, <2>2
<1>9. /\ TCPPoints(c, slow) = gain + more - t.drops * 14 - t.reconnects * 8
                                - slow.spikes * 5 - t.failures * 8
                                - c.timeouts * 4 - c.resets * 4
      /\ TCPPoints(c, lost) = gain + less - (t.drops + 1) * 14 - l.reconnects * 8
                                - e.spikes * 5 - l.failures * 8
                                - c.timeouts * 4 - c.resets * 4
  BY <1>2, <1>3 DEF TCPPoints
<1>10. l.reconnects \in Nat /\ l.failures \in Nat
  BY <1>1, <1>3
<1>11. TCPPoints(c, lost) <= TCPPoints(c, slow)
  <2> HIDE DEF gain, more, less, t, l, s
  <2>1. /\ c.timeouts \in Nat /\ c.resets \in Nat
        /\ \/ l.reconnects = t.reconnects + 1 /\ l.failures = t.failures + 1
           \/ l.reconnects = t.reconnects /\ l.failures = t.failures + 2
    BY <1>3
  <2>2. CASE l.reconnects = t.reconnects + 1 /\ l.failures = t.failures + 1
    <3>1. /\ l.reconnects * 8 = t.reconnects * 8 + 8 /\ l.failures * 8 = t.failures * 8 + 8
          /\ (t.drops + 1) * 14 = t.drops * 14 + 14
      BY <1>1, <2>2
    <3> QED BY ONLY <1>1, <1>2, <1>4, <1>8, <1>9, <2>1, <3>1
  <2>3. CASE l.reconnects = t.reconnects /\ l.failures = t.failures + 2
    BY ONLY <1>1, <1>2, <1>4, <1>8, <1>9, <2>1, <2>3
  <2> QED BY <2>1, <2>2, <2>3
<1>12. TCPPoints(c, lost) \in Int /\ TCPPoints(c, slow) \in Int
  <2> HIDE DEF gain, more, less, t, l, s
  <2>1. c.timeouts \in Nat /\ c.resets \in Nat
    OBVIOUS
  <2> QED BY ONLY <1>1, <1>2, <1>4, <1>8, <1>9, <1>10, <2>1
<1> QED BY <1>11, <1>12

-----------------------------------------------------------------------------
\* What a WebSocket session is worth, before the clamp.
Replies(seconds, s) ==
  LET expected == IF seconds < 1 THEN s.tally.sent ELSE seconds
  IN  Share(AtMost(expected, s.tally.received), expected, 18)

SessionPoints(seconds, s) ==
  Share(s.tally.received, s.tally.sent, 72) + Replies(seconds, s)
    + (IF s.steady THEN 10 ELSE Points(s.tally.received > 0, 4))
    - s.tally.drops * 22 - s.tally.failures * 12 - s.tally.reconnects * 7

LEMMA SessionScore ==
  ASSUME NEW r
  PROVE  scoreWebSocket(r).score
           = IF r.websocket.tally.sent > 0
             THEN clamp(SessionPoints(r.duration, r.websocket)) ELSE 0
BY DEF scoreWebSocket, Score, SessionPoints, Replies

LEMMA RepliesBounds ==
  ASSUME NEW seconds \in Nat, NEW s, s.tally.sent \in Nat, s.tally.received \in Nat
  PROVE  Replies(seconds, s) \in Int /\ Replies(seconds, s) \in -1 .. 18
<1> DEFINE expected == IF seconds < 1 THEN s.tally.sent ELSE seconds
<1>1. expected \in Nat /\ AtMost(expected, s.tally.received) \in 0 .. expected
  BY DEF AtMost
<1>2. Replies(seconds, s) = Share(AtMost(expected, s.tally.received), expected, 18)
  BY DEF Replies
<1> HIDE DEF expected
<1>3. /\ Share(AtMost(expected, s.tally.received), expected, 18) \in Int
      /\ Share(AtMost(expected, s.tally.received), expected, 18) <= 18
      /\ Share(AtMost(expected, s.tally.received), expected, 18) >= -1
  BY <1>1, ShareAtMost
<1> QED BY <1>2, <1>3

\* Over WebSocket a lost round costs 22 points and at least 19 for what follows
\* it; what it can save is 6 points of latency and the rounding of two shares.
LEMMA SessionLossCosts ==
  ASSUME NEW seconds \in Nat,
         NEW e, EchoOK(e), NEW slow \in Slow(e), NEW lost \in Lost(e)
  PROVE  LET a == IF lost.tally.sent > 0 THEN clamp(SessionPoints(seconds, lost)) ELSE 0
             b == IF slow.tally.sent > 0 THEN clamp(SessionPoints(seconds, slow)) ELSE 0
         IN  a <= b
<1> DEFINE t == e.tally
           l == lost.tally
           s == slow.tally
           more == Replies(seconds, slow)
           less == Replies(seconds, lost)
           swift == IF slow.steady THEN 10 ELSE Points(s.received > 0, 4)
           late == IF lost.steady THEN 10 ELSE Points(l.received > 0, 4)
           kept == Share(l.received, l.sent, 72)
           gained == Share(s.received, s.sent, 72)
<1>0. e \in EchoTests
  BY DEF EchoOK
<1>1. /\ t.sent \in Nat /\ t.received \in Nat /\ t.drops \in Nat /\ t.reconnects \in Nat
      /\ t.failures \in Nat /\ t.received <= t.sent
  BY EchoFacts
<1>2. /\ s.sent = t.sent + 1 /\ s.received = t.received + 1 /\ s.drops = t.drops
      /\ s.reconnects = t.reconnects /\ s.failures = t.failures
      /\ ~slow.steady
  BY <1>0, SlowRound
<1>3. /\ l.sent \in {t.sent, t.sent + 1} /\ l.received = t.received /\ l.drops = t.drops + 1
      /\ \/ l.reconnects = t.reconnects + 1 /\ l.failures = t.failures + 1
         \/ l.reconnects = t.reconnects /\ l.failures = t.failures + 2
  BY <1>0, LostRound
<1>4. more \in Int /\ more >= -1
  <2>1. s.sent \in Nat /\ s.received \in Nat
    BY <1>1, <1>2
  <2>2. more \in Int /\ more \in -1 .. 18
    BY <2>1, RepliesBounds
  <2> QED BY <2>2
<1>5. less \in Int /\ less <= 18
  <2>1. l.sent \in Nat /\ l.received \in Nat
    BY <1>1, <1>3
  <2>2. less \in Int /\ less \in -1 .. 18
    BY <2>1, RepliesBounds
  <2> QED BY <2>2
<1>6. swift = 4
  BY <1>1, <1>2 DEF Points
<1>7. late \in Int /\ late <= 10
  BY DEF Points
<1>8. kept \in Int /\ gained \in Int
  <2>1. /\ s.sent \in Nat /\ s.received \in Nat /\ s.received <= s.sent
        /\ l.sent \in Nat /\ l.received \in Nat /\ l.received <= l.sent
    BY <1>1, <1>2, <1>3
  <2> HIDE DEF s, l
  <2> QED BY <2>1, ShareAtMost
<1>9. l.sent > 0 => kept <= gained + 1
  <2> HIDE DEF t, l, s
  <2>1. l.sent > 0 => Share(t.received, l.sent, 72)
                        <= Share(t.received + 1, t.sent + 1, 72) + 1
    BY <1>1, <1>3, ShareOfLost
  <2> QED BY <1>2, <1>3, <2>1
<1>10. /\ SessionPoints(seconds, slow) = gained + more + swift - t.drops * 22
                                            - t.failures * 12 - t.reconnects * 7
       /\ SessionPoints(seconds, lost) = kept + less + late - (t.drops + 1) * 22
                                            - l.failures * 12 - l.reconnects * 7
  BY <1>2, <1>3 DEF SessionPoints
<1>11. l.reconnects \in Nat /\ l.failures \in Nat
  BY <1>1, <1>3
<1> HIDE DEF more, less, swift, late, kept, gained, t, l, s
<1>12. SessionPoints(seconds, slow) \in Int /\ SessionPoints(seconds, lost) \in Int
  BY ONLY <1>1, <1>4, <1>5, <1>6, <1>7, <1>8, <1>10, <1>11
<1>13. l.sent > 0 => SessionPoints(seconds, lost) <= SessionPoints(seconds, slow)
  <2>1. (t.drops + 1) * 22 = t.drops * 22 + 22
    BY <1>1
  <2>2. l.failures * 12 + l.reconnects * 7 >= t.failures * 12 + t.reconnects * 7 + 19
    BY <1>1, <1>3
  <2> QED BY ONLY <1>1, <1>4, <1>5, <1>6, <1>7, <1>8, <1>9, <1>10, <1>11, <2>1, <2>2
<1>14. clamp(SessionPoints(seconds, slow)) \in 0 .. 100
  BY <1>12, ClampRange
<1>15. l.sent > 0 => clamp(SessionPoints(seconds, lost)) <= clamp(SessionPoints(seconds, slow))
  BY <1>12, <1>13, ClampGrows
<1>16. s.sent > 0
  BY <1>1, <1>2
<1> QED BY <1>14, <1>15, <1>16 DEF l, s

-----------------------------------------------------------------------------
\* What a UDP port is worth, before the clamp.
DatagramPoints(u, steady) ==
  Share(u.received, u.sent, 82)
    + (IF 100 * (u.sent - u.received) <= u.sent THEN 15
       ELSE Points(100 * (u.sent - u.received) <= 5 * u.sent, 8))
    + Points(steady, 3) - u.timeouts * 5

LEMMA DatagramScore ==
  ASSUME NEW r, NEW p
  PROVE  LET u == r.udp[p].packets
         IN  udpPort(r, p).score
               = IF u.sent > 0 /\ u.received > 0
                 THEN clamp(DatagramPoints(u, r.udp[p].steady)) ELSE 0
BY DEF udpPort, Score, DatagramPoints

\* A lost datagram costs 5 points for its timeout: more than the 3 of latency
\* and the rounding of the share that a late reply in its place would cost.
LEMMA DatagramLossCosts ==
  ASSUME NEW sent \in Nat, NEW received \in Nat, NEW timeouts \in Nat, received <= sent,
         NEW a, a.sent = sent + 1, a.received = received, a.timeouts = timeouts + 1,
         NEW b, b.sent = sent + 1, b.received = received + 1, b.timeouts = timeouts,
         NEW steady
  PROVE  (IF a.sent > 0 /\ a.received > 0 THEN clamp(DatagramPoints(a, steady)) ELSE 0)
           <= IF b.sent > 0 /\ b.received > 0 THEN clamp(DatagramPoints(b, FALSE)) ELSE 0
<1> DEFINE swift == Points(FALSE, 3)
           late == Points(steady, 3)
           kept == Share(a.received, a.sent, 82)
           gained == Share(b.received, b.sent, 82)
           less == IF 100 * (a.sent - a.received) <= a.sent THEN 15
                   ELSE Points(100 * (a.sent - a.received) <= 5 * a.sent, 8)
           more == IF 100 * (b.sent - b.received) <= b.sent THEN 15
                   ELSE Points(100 * (b.sent - b.received) <= 5 * b.sent, 8)
<1>1. /\ received \in Nat /\ sent + 1 \in Nat /\ received <= sent + 1
      /\ received + 1 \in Nat /\ received + 1 <= sent + 1
  OBVIOUS
<1>2. kept \in Int /\ gained \in Int
  BY <1>1, ShareAtMost
<1>3. kept <= gained + 1
  <2>1. Share(received, sent + 1, 82) <= Share(received + 1, sent + 1, 82) + 1
    <3>1. sent + 1 \in {sent, sent + 1} /\ sent + 1 > 0 /\ 82 \in Nat
      OBVIOUS
    <3> QED BY <3>1, ShareOfLost
  <2> QED BY <2>1
<1>4. more \in Int /\ less \in Int /\ less <= more
  BY DEF Points
<1>5. late \in {0, 3} /\ swift = 0
  BY DEF Points
<1>6. /\ DatagramPoints(a, steady) = kept + less + late - (timeouts + 1) * 5
      /\ DatagramPoints(b, FALSE) = gained + more + swift - timeouts * 5
  BY DEF DatagramPoints
<1> HIDE DEF kept, gained, less, more, swift, late
<1> DEFINE p == DatagramPoints(a, steady)
           q == DatagramPoints(b, FALSE)
<1>7. p \in Int /\ q \in Int /\ p <= q
  <2>1. (timeouts + 1) * 5 = timeouts * 5 + 5 /\ timeouts * 5 \in Nat
    OBVIOUS
  <2>2. p = kept + less + late - (timeouts + 1) * 5 /\ q = gained + more + swift - timeouts * 5
    BY <1>6
  <2> HIDE DEF p, q
  <2> QED BY ONLY <1>2, <1>3, <1>4, <1>5, <2>1, <2>2
<1>8. clamp(DatagramPoints(a, steady)) <= clamp(DatagramPoints(b, FALSE))
  BY <1>7, ClampGrows
<1>9. clamp(DatagramPoints(b, FALSE)) \in 0 .. 100
  BY <1>7, ClampRange
<1>10. b.sent > 0 /\ b.received > 0
  OBVIOUS
<1> DEFINE x == clamp(DatagramPoints(a, steady))
           y == clamp(DatagramPoints(b, FALSE))
<1>11. x <= y /\ y \in 0 .. 100
  BY <1>8, <1>9
<1> HIDE DEF x, y
<1>12. (IF a.sent > 0 /\ a.received > 0 THEN x ELSE 0)
         <= IF b.sent > 0 /\ b.received > 0 THEN y ELSE 0
  BY <1>10, <1>11
<1> QED BY <1>12 DEF x, y

-----------------------------------------------------------------------------
\* The report with another result of one echo test, or of one UDP port.
LEMMA OtherEcho ==
  ASSUME NEW r, ReportOK(r), NEW p \in DOMAIN r.tcp, NEW e
  PROVE  LET q == [r EXCEPT !.tcp[p].echo = e]
         IN  q.tcp[p].connect = r.tcp[p].connect /\ q.tcp[p].echo = e
<1>1. "tcp" \in DOMAIN r /\ DOMAIN r.tcp[p] = {"connect", "echo"}
  BY DEF ReportOK, Fields, PortOK
<1> DEFINE port == [r.tcp[p] EXCEPT !.echo = e]
           ports == [r.tcp EXCEPT ![p] = port]
<1>2. port.connect = r.tcp[p].connect /\ port.echo = e
  BY <1>1
<1>3. [r EXCEPT !.tcp[p].echo = e] = [r EXCEPT !.tcp = ports]
  OBVIOUS
<1> HIDE DEF port
<1>4. ports[p] = port
  OBVIOUS
<1> HIDE DEF ports
<1>5. [r EXCEPT !.tcp = ports].tcp = ports
  BY <1>1
<1> QED BY <1>2, <1>3, <1>4, <1>5

LEMMA OtherSession ==
  ASSUME NEW r, ReportOK(r), NEW e
  PROVE  LET q == [r EXCEPT !.websocket = e]
         IN  q.websocket = e /\ q.duration = r.duration
BY DEF ReportOK, Fields

LEMMA OtherDatagrams ==
  ASSUME NEW r, ReportOK(r), NEW p \in DOMAIN r.udp
  PROVE  LET a == [r EXCEPT !.udp[p].packets.sent = @ + 1,
                            !.udp[p].packets.timeouts = @ + 1]
             b == [r EXCEPT !.udp[p].steady = FALSE,
                            !.udp[p].packets.sent = @ + 1,
                            !.udp[p].packets.received = @ + 1]
             u == r.udp[p].packets
         IN  /\ a.udp[p].packets.sent = u.sent + 1
             /\ a.udp[p].packets.received = u.received
             /\ a.udp[p].packets.timeouts = u.timeouts + 1
             /\ a.udp[p].steady = r.udp[p].steady
             /\ b.udp[p].packets.sent = u.sent + 1
             /\ b.udp[p].packets.received = u.received + 1
             /\ b.udp[p].packets.timeouts = u.timeouts
             /\ b.udp[p].steady = FALSE
<1>1. "udp" \in DOMAIN r /\ r.udp[p] \in UDPTests
  BY DEF ReportOK, Fields, DatagramsOK
<1> QED BY <1>1 DEF UDPTests

\* Losing a round never pays: see the property.
LEMMA LosingCosts ==
  ASSUME ReportOK(rep)
  PROVE  DropNeverPays
<1>1. ASSUME NEW p \in DOMAIN rep.tcp,
             NEW slow \in Slow(rep.tcp[p].echo), NEW lost \in Lost(rep.tcp[p].echo)
      PROVE  tcpPort([rep EXCEPT !.tcp[p].echo = lost], p).score
               <= tcpPort([rep EXCEPT !.tcp[p].echo = slow], p).score
  <2> DEFINE c == rep.tcp[p].connect
             e == rep.tcp[p].echo
  <2>1. /\ c.timeouts \in Nat /\ c.resets \in Nat
        /\ c.successes \in Nat /\ c.attempts \in Nat /\ c.successes <= c.attempts
    BY DEF ReportOK, PortOK, NoAttempt
  <2>2. EchoOK(e)
    BY DEF ReportOK, PortOK
  <2>3. ASSUME NEW x
        PROVE  tcpPort([rep EXCEPT !.tcp[p].echo = x], p).score = clamp(TCPPoints(c, x))
    <3> DEFINE q == [rep EXCEPT !.tcp[p].echo = x]
    <3>1. q.tcp[p].connect = c /\ q.tcp[p].echo = x
      BY OtherEcho
    <3> HIDE DEF q
    <3>2. tcpPort(q, p).score = clamp(TCPPoints(c, x))
      BY <3>1, TCPScore
    <3> QED BY <3>2 DEF q
  <2> HIDE DEF c
  <2>4. /\ TCPPoints(c, lost) \in Int /\ TCPPoints(c, slow) \in Int
        /\ TCPPoints(c, lost) <= TCPPoints(c, slow)
    BY <2>1, <2>2, TCPLossCosts
  <2>5. clamp(TCPPoints(c, lost)) <= clamp(TCPPoints(c, slow))
    BY <2>4, ClampGrows
  <2> QED BY <2>3, <2>5
<1>2. ASSUME NEW slow \in Slow(rep.websocket), NEW lost \in Lost(rep.websocket)
      PROVE  scoreWebSocket([rep EXCEPT !.websocket = lost]).score
               <= scoreWebSocket([rep EXCEPT !.websocket = slow]).score
  <2>1. rep.duration \in Nat /\ EchoOK(rep.websocket)
    BY DEF ReportOK
  <2>2. ASSUME NEW x
        PROVE  scoreWebSocket([rep EXCEPT !.websocket = x]).score
                 = IF x.tally.sent > 0 THEN clamp(SessionPoints(rep.duration, x)) ELSE 0
    <3> DEFINE q == [rep EXCEPT !.websocket = x]
    <3>1. q.websocket = x /\ q.duration = rep.duration
      BY OtherSession
    <3> HIDE DEF q
    <3>2. scoreWebSocket(q).score
            = IF x.tally.sent > 0 THEN clamp(SessionPoints(rep.duration, x)) ELSE 0
      BY <3>1, SessionScore
    <3> QED BY <3>2 DEF q
  <2> QED BY <2>1, <2>2, SessionLossCosts
<1>3. ASSUME NEW p \in DOMAIN rep.udp
      PROVE  udpPort([rep EXCEPT !.udp[p].packets.sent = @ + 1,
                                 !.udp[p].packets.timeouts = @ + 1], p).score
               <= udpPort([rep EXCEPT !.udp[p].steady = FALSE,
                                      !.udp[p].packets.sent = @ + 1,
                                      !.udp[p].packets.received = @ + 1], p).score
  <2> DEFINE a == [rep EXCEPT !.udp[p].packets.sent = @ + 1,
                              !.udp[p].packets.timeouts = @ + 1]
             b == [rep EXCEPT !.udp[p].steady = FALSE,
                              !.udp[p].packets.sent = @ + 1,
                              !.udp[p].packets.received = @ + 1]
             u == rep.udp[p].packets
             v == a.udp[p].packets
             w == b.udp[p].packets
             steady == rep.udp[p].steady
  <2>1. /\ u.sent \in Nat /\ u.received \in Nat /\ u.timeouts \in Nat
        /\ u.received <= u.sent
    BY DEF ReportOK, DatagramsOK, UDPTests
  <2>2. /\ v.sent = u.sent + 1 /\ v.received = u.received /\ v.timeouts = u.timeouts + 1
        /\ w.sent = u.sent + 1 /\ w.received = u.received + 1 /\ w.timeouts = u.timeouts
    BY OtherDatagrams
  <2>3. a.udp[p].steady = steady /\ b.udp[p].steady = FALSE
    BY OtherDatagrams, Zenon
  <2> HIDE DEF a, b
  <2>4. /\ udpPort(a, p).score = IF v.sent > 0 /\ v.received > 0
                                 THEN clamp(DatagramPoints(v, steady)) ELSE 0
        /\ udpPort(b, p).score = IF w.sent > 0 /\ w.received > 0
                                 THEN clamp(DatagramPoints(w, FALSE)) ELSE 0
    BY <2>3, DatagramScore, Zenon
  <2> HIDE DEF u, v, w, steady
  <2>5. (IF v.sent > 0 /\ v.received > 0 THEN clamp(DatagramPoints(v, steady)) ELSE 0)
          <= IF w.sent > 0 /\ w.received > 0 THEN clamp(DatagramPoints(w, FALSE)) ELSE 0
    BY <2>1, <2>2, DatagramLossCosts
  <2>6. udpPort(a, p).score <= udpPort(b, p).score
    BY <2>4, <2>5, Zenon
  <2> QED BY <2>6 DEF a, b
<1> QED BY <1>1, <1>2, <1>3, Zenon DEF DropNeverPays

-----------------------------------------------------------------------------
\* What is judged is the report, and the scores are those of its functions.
Computed ==
  /\ DOMAIN scores = Ranked \cup {"DNS", "Download"}
  /\ scores["DNS"] = scoreDNS(rep)
  /\ scores["Download"] = scoreDownload(rep)
  /\ scores["WebSocket"] = scoreWebSocket(rep)
  /\ scores["HTTP"] = scoreHTTP(rep, scoreDownload(rep))
  /\ scores["TLS"] = scoreTLS(rep, scoreWebSocket(rep))
  /\ scores["RawTCP"] \in scoreRawTCP(rep)
  /\ scores["UDP"] \in scoreUDP(rep)
  /\ best = bestCandidate({scores[transport] : transport \in Ranked})
  /\ warnings = warningsOf(rep)

Inv ==
  /\ rep \in Reports
  /\ main \in {"assessing", "assessed"}
  /\ main = "assessing" => scores = Unjudged /\ best = NoCandidate
  /\ main = "assessed" => Computed

LEMMA InitInv == Init => Inv
BY DEF Init, Inv

LEMMA NextInv == Inv /\ [Next]_vars => Inv'
<1> SUFFICES ASSUME Inv, [Next]_vars PROVE Inv'
  OBVIOUS
<1>1. CASE assess
  <2>1. rep' = rep /\ main' = "assessed" /\ warnings' = warningsOf(rep)
        /\ best' = bestCandidate({scores'[transport] : transport \in Ranked})
    BY <1>1 DEF assess
  <2>2. PICK tcp \in scoreRawTCP(rep), udp \in scoreUDP(rep) :
          scores' = [transport \in Ranked \cup {"DNS", "Download"} |->
                       CASE transport = "DNS"       -> scoreDNS(rep)
                         [] transport = "Download"  -> scoreDownload(rep)
                         [] transport = "WebSocket" -> scoreWebSocket(rep)
                         [] transport = "HTTP"      -> scoreHTTP(rep, scoreDownload(rep))
                         [] transport = "TLS"       -> scoreTLS(rep, scoreWebSocket(rep))
                         [] transport = "RawTCP"    -> tcp
                         [] transport = "UDP"       -> udp]
    BY <1>1 DEF assess
  <2>3. /\ DOMAIN scores' = Ranked \cup {"DNS", "Download"}
        /\ scores'["DNS"] = scoreDNS(rep)
        /\ scores'["Download"] = scoreDownload(rep)
        /\ scores'["WebSocket"] = scoreWebSocket(rep)
        /\ scores'["HTTP"] = scoreHTTP(rep, scoreDownload(rep))
        /\ scores'["TLS"] = scoreTLS(rep, scoreWebSocket(rep))
        /\ scores'["RawTCP"] = tcp
        /\ scores'["UDP"] = udp
    BY <2>2 DEF Ranked
  <2>4. Computed'
    BY <2>1, <2>3 DEF Computed
  <2> QED BY <2>1, <2>4 DEF Inv
<1>2. CASE UNCHANGED vars
  BY <1>2 DEF vars, Inv, Computed
<1> QED BY <1>1, <1>2 DEF Next, Assessed

LEMMA Invariance == Spec => []Inv
BY InitInv, NextInv, PTL DEF Spec

\* All that is ranked has a verdict of its own name.
LEMMA RankedVerdicts ==
  ASSUME Inv, Judged
  PROVE  \A t \in Ranked : Verdict(scores[t], t)
<1>1. ReportOK(rep) /\ Computed
  BY ReportsAssumption DEF Inv, Judged
<1>2. Verdict(scores["WebSocket"], "WebSocket")
  BY <1>1, WebSocketVerdict DEF Computed
<1>3. Verdict(scores["HTTP"], "HTTP")
  BY <1>1, HTTPVerdict, DownloadVerdict DEF Computed
<1>4. Verdict(scores["TLS"], "TLS")
  <2>1. scoreWebSocket(rep).stable \in BOOLEAN
    BY <1>1, WebSocketVerdict, Zenon DEF Verdict
  <2>2. Verdict(scoreTLS(rep, scoreWebSocket(rep)), "TLS")
    BY <1>1, <2>1, TLSVerdict
  <2> QED BY <1>1, <2>2 DEF Computed
<1>5. Verdict(scores["RawTCP"], "RawTCP")
  BY <1>1, TCPCandidates DEF Computed
<1>6. Verdict(scores["UDP"], "UDP")
  BY <1>1, UDPCandidates DEF Computed
<1> QED BY <1>2, <1>3, <1>4, <1>5, <1>6 DEF Ranked

\* Scores from 0 to 100, with the labels of client-probe/main.go:621-634, and a
\* candidate that was ranked or none: see TypeOK.
THEOREM TypeCorrect == Spec => []TypeOK
<1>1. Inv => TypeOK
  <2> SUFFICES ASSUME Inv PROVE TypeOK
    OBVIOUS
  <2>1. NoCandidate.score = 0 /\ NoCandidate.status = "failed"
    BY DEF NoCandidate, Score, statusFor
  <2>2. CASE main = "assessing"
    <3>1. \A t \in DOMAIN scores : scores[t] = NoCandidate
      BY <2>2 DEF Inv, Unjudged
    <3> QED BY <2>1, <2>2, <3>1 DEF TypeOK, Inv, Labels
  <2>3. CASE main = "assessed"
    <3>1. ReportOK(rep) /\ Computed /\ Judged
      BY <2>3, ReportsAssumption DEF Inv, Judged
    <3>2. \A t \in Ranked : Verdict(scores[t], t)
      BY <3>1, RankedVerdicts
    <3>3. \A t \in Ranked : scores[t].score \in 0 .. 100 /\ scores[t].status \in Labels
      BY <3>2, StatusOf DEF Verdict
    <3>4. /\ scores["DNS"].score \in 0 .. 100
          /\ scores["DNS"].status \in Labels \cup {"ok", "slow"}
      BY <3>1, DNSVerdict DEF Computed
    <3>5. /\ scores["Download"].score \in 0 .. 100
          /\ scores["Download"].status \in Labels \cup {"partial", "not_tested"}
      BY <3>1, DownloadVerdict DEF Computed
    <3>6. best = NoCandidate \/ best \in {scores[t] : t \in Ranked}
      BY <3>1, <3>2, BestOf DEF Computed
    <3>7. DOMAIN scores = Ranked \cup {"DNS", "Download"}
      BY <3>1 DEF Computed
    <3> QED BY <2>3, <3>3, <3>4, <3>5, <3>6, <3>7 DEF TypeOK
  <2> QED BY <2>2, <2>3 DEF Inv
<1> QED BY <1>1, Invariance, PTL

\* A test whose next round is lost scores no higher than if that round had been
\* answered late, over raw TCP, WebSocket and UDP: see DropNeverPays, and
\* client-probe/main.go:324-361 and 457-528.
THEOREM LossNeverPays == Spec => []DropNeverPays
<1>1. Inv => DropNeverPays
  BY ReportsAssumption, LosingCosts DEF Inv
<1> QED BY <1>1, Invariance, PTL

\* The best candidate has carried something, and there is none exactly when all
\* scores are 0: see BestCarriedTraffic, and client-probe/main.go:259-290.
THEOREM BestIsOneThatWorked == Spec => []BestCarriedTraffic
<1>1. Inv => BestCarriedTraffic
  <2> SUFFICES ASSUME Inv, Judged PROVE BestCarriedTraffic
    BY DEF BestCarriedTraffic
  <2>1. ReportOK(rep) /\ Computed
    BY ReportsAssumption DEF Inv, Judged
  <2>2. \A t \in Ranked : Verdict(scores[t], t)
    BY RankedVerdicts
  <2>3. \/ best = NoCandidate /\ \A t \in Ranked : scores[t].score = 0
        \/ \E t \in Ranked : best = scores[t] /\ scores[t].score > 0
    BY <2>1, <2>2, BestOf DEF Computed
  <2>4. NoCandidate.score = 0 /\ NoCandidate.transport = "none"
    BY DEF NoCandidate, Score
  <2>5. CASE best = NoCandidate /\ \A t \in Ranked : scores[t].score = 0
    BY <2>4, <2>5 DEF BestCarriedTraffic
  <2>6. CASE \E t \in Ranked : best = scores[t] /\ scores[t].score > 0
    <3>1. PICK t \in Ranked : best = scores[t] /\ scores[t].score > 0
      BY <2>6
    <3>2. best # NoCandidate /\ best.transport = t /\ ~ \A u \in Ranked : scores[u].score = 0
      BY <2>2, <2>4, <3>1 DEF Verdict
    <3>3. ASSUME t = "WebSocket" PROVE rep.websocket.tally.received > 0
      BY <2>1, <3>1, <3>3, WebSocketVerdict DEF Computed
    <3>4. ASSUME t = "UDP" PROVE rep.udp[best.port].packets.received > 0
      <4>1. best \in scoreUDP(rep) /\ best.score > 0
        BY <2>1, <3>1, <3>4 DEF Computed
      <4>2. best.port \in DOMAIN rep.udp /\ best = udpPort(rep, best.port)
        BY <2>1, <4>1, UDPCandidates
      <4> QED BY <2>1, <4>1, <4>2, UDPVerdict
    <3>5. ASSUME t = "TLS" PROVE rep.tls.success
      <4>1. scoreWebSocket(rep).stable \in BOOLEAN
        BY <2>1, WebSocketVerdict, Zenon DEF Verdict
      <4>2. scoreTLS(rep, scoreWebSocket(rep)).score > 0
        BY <2>1, <3>1, <3>5 DEF Computed
      <4> QED BY <2>1, <4>1, <4>2, TLSVerdict
    <3>6. ASSUME t = "RawTCP"
          PROVE  \/ rep.tcp[best.port].connect.successes > 0
                 \/ rep.tcp[best.port].echo.tally.received > 0
      <4>1. best \in scoreRawTCP(rep) /\ best.score > 0
        BY <2>1, <3>1, <3>6 DEF Computed
      <4>2. best.port \in DOMAIN rep.tcp /\ best = tcpPort(rep, best.port)
        BY <2>1, <4>1, TCPCandidates
      <4> QED BY <2>1, <4>1, <4>2, TCPVerdict
    <3>7. ASSUME t = "HTTP"
          PROVE  \/ rep.http.ok > 0
                 \/ \E i \in DOMAIN rep.downloads : rep.downloads[i].bytes
      <4>1. scoreDownload(rep).score \in 0 .. 100
        BY <2>1, DownloadVerdict
      <4>2. scoreHTTP(rep, scoreDownload(rep)).score > 0
        BY <2>1, <3>1, <3>7 DEF Computed
      <4>3. rep.http.ok > 0 \/ scoreDownload(rep).score > 0
        BY <2>1, <4>1, <4>2, HTTPVerdict
      <4> QED BY <2>1, <4>3, DownloadVerdict
    <3> QED BY <3>2, <3>3, <3>4, <3>5, <3>6, <3>7, Zenon DEF BestCarriedTraffic
  <2> QED BY <2>3, <2>5, <2>6
<1> QED BY <1>1, Invariance, PTL

\* The status, the flag, the printed line and the warnings of one result agree:
\* see OneVerdict, and client-probe/main.go:212-234 and report.go:92-131.
THEOREM VerdictsAgree == Spec => []OneVerdict
<1>1. Inv => OneVerdict
  <2> SUFFICES ASSUME Inv, Judged PROVE OneVerdict
    BY DEF OneVerdict
  <2> DEFINE ws == scores["WebSocket"]
             tcp == scores["RawTCP"]
             udp == scores["UDP"]
  <2>1. ReportOK(rep) /\ Computed
    BY ReportsAssumption DEF Inv, Judged
  <2>2. \A t \in Ranked : Verdict(scores[t], t)
    BY RankedVerdicts
  <2>3. ASSUME NEW t \in Ranked, scores[t].status = "stable" PROVE scores[t].stable
    <3>1. Verdict(scores[t], t)
      BY <2>2
    <3>2. scores[t].score >= 85
      BY <2>3, <3>1, StatusOf DEF Verdict
    <3> QED BY <3>1, <3>2, Zenon DEF Verdict
  <2>4. ws.stable <=> rep.websocket.tally.received > 0 /\ rep.websocket.tally.drops = 0
    BY <2>1, WebSocketVerdict, Zenon DEF Computed
  <2>5. ws.stable <=> printWebSocket(rep.websocket) = "connected, stable"
    <3>1. (rep.websocket.tally.received > 0 /\ rep.websocket.tally.drops = 0)
            <=> printWebSocket(rep.websocket) = "connected, stable"
      BY DEF printWebSocket
    <3> QED BY <2>4, <3>1, Zenon
  <2>6. ASSUME ws.stable
        PROVE  ws.status \in {"stable", "mostly_stable"} /\ <<"WebSocket", 0>> \notin warnings
    <3>1. ws.score >= 70
      BY <2>1, <2>6, WebSocketVerdict, Zenon DEF Computed
    <3>2. Verdict(ws, "WebSocket")
      BY <2>2 DEF Ranked
    <3>3. ws.status \in {"stable", "mostly_stable"}
      BY <3>1, <3>2, StatusOf DEF Verdict
    <3>4. rep.websocket.tally.drops = 0
      BY <2>4, <2>6
    <3>5. <<"WebSocket", 0>> \notin warningsOf(rep)
      BY <3>4 DEF warningsOf
    <3> QED BY <2>1, <3>3, <3>5 DEF Computed
  <2>7. ASSUME tcp.stable
        PROVE  printTCP(rep.tcp[tcp.port]) # "OK but unstable" /\ <<"TCP", tcp.port>> \notin warnings
    <3>1. tcp \in scoreRawTCP(rep)
      BY <2>1 DEF Computed
    <3>2. tcp.port \in DOMAIN rep.tcp /\ tcp = tcpPort(rep, tcp.port)
      BY <2>1, <2>7, <3>1, TCPCandidates
    <3> DEFINE p == tcp.port
    <3>3. rep.tcp[p].echo.tally.drops = 0 /\ rep.tcp[p].echo.tally.failures = 0
      BY <2>1, <2>7, <3>2, TCPVerdict
    <3> HIDE DEF p, tcp
    <3>4. rep.tcp[p].connect.successes \in Nat
      BY <2>1, <3>2 DEF ReportOK, PortOK, NoAttempt, p
    <3>5. printTCP(rep.tcp[p]) # "OK but unstable"
      BY <3>3, <3>4 DEF printTCP
    <3>6. <<"TCP", p>> \notin warningsOf(rep)
      BY <3>3 DEF warningsOf
    <3> QED BY <2>1, <3>5, <3>6 DEF Computed, p
  <2>8. ASSUME udp.stable
        PROVE  printUDP(rep.udp[udp.port]) = "OK" /\ <<"UDP", udp.port>> \notin warnings
    <3>1. udp \in scoreUDP(rep)
      BY <2>1 DEF Computed
    <3>2. udp.port \in DOMAIN rep.udp /\ udp = udpPort(rep, udp.port) /\ udp.score > 0
      BY <2>1, <2>8, <3>1, UDPCandidates
    <3> DEFINE p == udp.port
               u == rep.udp[p].packets
    <3>3. 100 * (u.sent - u.received) <= 5 * u.sent /\ u.received > 0
      BY <2>1, <2>8, <3>2, UDPVerdict
    <3> HIDE DEF p, udp
    <3>4. u.sent \in Nat /\ u.received \in Nat
      BY <2>1, <3>2 DEF ReportOK, DatagramsOK, UDPTests, p
    <3>5. printUDP(rep.udp[p]) = "OK"
      BY <3>3, <3>4 DEF printUDP
    <3>6. <<"UDP", p>> \notin warningsOf(rep)
      BY <3>3, <3>4 DEF warningsOf
    <3> QED BY <2>1, <3>5, <3>6 DEF Computed, p
  <2> QED BY <2>3, <2>5, <2>6, <2>7, <2>8, Zenon DEF OneVerdict
<1> QED BY <1>1, Invariance, PTL

\* Sustained traffic is weighted higher than connecting: see the property, and
\* client-probe/main.go:324-495.
THEOREM SustainedTrafficFirst == Spec => []StableWebSocketFirst
<1>1. Inv => StableWebSocketFirst
  <2> SUFFICES ASSUME Inv, Judged, scores["WebSocket"].stable
               PROVE  LET ws  == scores["WebSocket"]
                          tcp == scores["RawTCP"]
                      IN  /\ (tcp.score > 0 /\ rep.tcp[tcp.port].echo.tally.drops > 0)
                               => Above(ws, tcp)
                          /\ ~rep.wss => Above(ws, scores["TLS"])
    BY DEF StableWebSocketFirst
  <2>1. ReportOK(rep) /\ scores["WebSocket"].score \in 75 .. 100
    BY ReportsAssumption, StableWebSocketScore DEF Inv, Computed, Judged
  <2>2. ASSUME scores["RawTCP"].score > 0,
               rep.tcp[scores["RawTCP"].port].echo.tally.drops > 0
        PROVE  scores["RawTCP"].score \in 0 .. 61
    BY <2>1, <2>2, TCPCandidates, DroppedTCPScore DEF Inv, Computed, Judged
  <2>3. ASSUME ~rep.wss PROVE scores["TLS"].score \in 0 .. 72
    BY <2>1, <2>3, UnbackedTLSScore DEF Inv, Computed, Judged
  <2>4. ASSUME scores["RawTCP"].score > 0,
               rep.tcp[scores["RawTCP"].port].echo.tally.drops > 0
        PROVE  Above(scores["WebSocket"], scores["RawTCP"])
    <3>1. scores["RawTCP"].score \in 0 .. 61
      BY <2>2, <2>4
    <3> QED
      BY <2>1, <3>1, HigherIsAbove
  <2>5. ASSUME ~rep.wss PROVE Above(scores["WebSocket"], scores["TLS"])
    BY <2>1, <2>3, <2>5, HigherIsAbove
  <2> QED
    BY <2>4, <2>5
<1> QED
  BY <1>1, Invariance, PTL
=============================================================================
