------------------------------ MODULE Scoring ------------------------------
(***************************************************************************)
(* How the client probe judges its finished report: assess scores every    *)
(* transport from 0 to 100, ranks them and picks the best, and the printed *)
(* report puts labels of its own on the same results.                      *)
(*                                                                         *)
(* Results are those of ProbeResults.  The iteration order of the maps of  *)
(* ports is any order.  Reasons and candidate names are left out; a score  *)
(* carries the port of its candidate.                                      *)
(***************************************************************************)
EXTENDS Integers, FiniteSets, Sums, ProbeResults

CONSTANTS
  Reports,     \* the finished reports
  FallsShort   \* <<good, total, points>> whose product in floating point is
               \* just below a whole number that it should be

\* What the tests establish of their results, and main of the report that holds
\* them: nothing is steady of which nothing came back, and a body without a byte
\* is complete in no part.
EchoTests == [tally : Tallies, steady : BOOLEAN, spikes : Nat]
UDPTests  == [packets : [sent : Nat, received : Nat, timeouts : Nat], steady : BOOLEAN]
HTTPTests == [ok : Nat, timeouts : Nat, failed : Nat, pace : {"steady", "slow", "slowest"}]
Fields == {"duration", "dns", "tcp", "udp", "http", "websocket", "wss", "tls", "downloads"}

EchoOK(e) ==
  /\ e \in EchoTests
  /\ Consistent(e.tally)
  /\ e.tally.received = 0 => ~e.steady

PortOK(port) ==
  /\ DOMAIN port = {"connect", "echo"}
  /\ EchoOK(port.echo)
  /\ port.connect \in [DOMAIN NoAttempt -> Nat]
  /\ port.connect.successes <= port.connect.attempts

DatagramsOK(u) ==
  /\ u \in UDPTests
  /\ u.packets.received + u.packets.timeouts <= u.packets.sent
  /\ u.packets.received = 0 => ~u.steady

DownloadOK(d) ==
  /\ d.completion \in 0 .. 100
  /\ d.completion > 0 => d.bytes

ReportOK(r) ==
  /\ DOMAIN r = Fields
  /\ r.duration \in Nat
  /\ r.dns \in DNSResults
  /\ \A p \in DOMAIN r.tcp : PortOK(r.tcp[p])
  /\ \A p \in DOMAIN r.udp : DatagramsOK(r.udp[p])
  /\ r.http \in HTTPTests
  /\ EchoOK(r.websocket)
  /\ r.wss \in BOOLEAN
  /\ r.tls \in TLSResults
  /\ IsFiniteSet(DOMAIN r.downloads)
  /\ \A i \in DOMAIN r.downloads : DownloadOK(r.downloads[i])

ASSUME ReportsAssumption == \A r \in Reports : ReportOK(r)

\* The products of floating point are exact unless they should be whole, and
\* those of a full ratio are.
ASSUME FallsShortAssumption ==
  \A e \in FallsShort :
    /\ e \in (Nat \X Nat \X Nat)
    /\ e[1] # e[2] /\ e[2] > 0
    /\ (e[1] * e[3]) % e[2] = 0

VARIABLES
  main,     \* "assessing" or "assessed"
  rep,      \* the report
  scores,   \* transport_scores
  best,     \* best_candidate
  warnings  \* what is warned about, with the port or the position

vars == <<main, rep, scores, best, warnings>>

-----------------------------------------------------------------------------
\* int(ratio(good, total) * points)
Share(good, total, points) ==
  IF total <= 0 THEN 0
  ELSE (good * points) \div total
         - (IF <<good, total, points>> \in FallsShort THEN 1 ELSE 0)

AtMost(bound, n) == IF n > bound THEN bound ELSE n

\* Faulty clamp: it only keeps scores from growing too large.
clampAbove(n) == AtMost(100, n)

clamp(n) == IF n < 0 THEN 0 ELSE AtMost(100, n)

statusFor(score) ==
  CASE score >= 85 -> "stable"
    [] score >= 70 /\ score < 85 -> "mostly_stable"
    [] score >= 40 /\ score < 70 -> "unstable"
    [] score > 0   /\ score < 40 -> "poor"
    [] OTHER       -> "failed"

Score(transport, port, score, stable) ==
  [transport |-> transport, port |-> port, score |-> score, stable |-> stable,
   status |-> statusFor(score)]

Points(condition, n) == IF condition THEN n ELSE 0

-----------------------------------------------------------------------------
scoreDNS(r) ==
  LET score == CASE ~r.dns.success           -> 0
                 [] r.dns.success /\ r.dns.time = "100ms"  -> 100
                 [] r.dns.success /\ r.dns.time = "500ms"  -> 92
                 [] r.dns.success /\ r.dns.time = "2s"     -> 85
                 [] r.dns.success /\ r.dns.time = "longer" -> 65
  IN  [Score("DNS", 0, score, score >= 80) EXCEPT
         !.status = CASE score = 0  -> "failed"
                      [] score = 65 -> "slow"
                      [] score = 85 -> "ok"
                      [] OTHER      -> "stable"]

\* Sent messages that came back, and the seconds of the test they stand for.
scoreWebSocket(r) ==
  LET ws       == r.websocket.tally
      expected == IF r.duration < 1 THEN ws.sent ELSE r.duration
      score    == clamp(Share(ws.received, ws.sent, 72)
                        + Share(AtMost(expected, ws.received), expected, 18)
                        + (IF r.websocket.steady THEN 10 ELSE Points(ws.received > 0, 4))
                        - ws.drops * 22 - ws.failures * 12 - ws.reconnects * 7)
      points   == IF ws.sent > 0 THEN score ELSE 0
  IN  Score("WebSocket", 0, points,
            points >= 70 /\ ws.sent > 0 /\ ws.drops = 0
              /\ 100 * ws.received >= 95 * ws.sent)

latencyScore(h, maxPoints) ==
  CASE h.ok = 0                          -> 0
    [] h.ok > 0 /\ h.pace = "steady"     -> maxPoints
    [] h.ok > 0 /\ h.pace = "slow"       -> maxPoints \div 2
    [] h.ok > 0 /\ h.pace = "slowest"    -> maxPoints \div 4

\* A path that is not found answers without an error and counts as failed.
scoreHTTP(r, dl) ==
  LET h     == r.http
      score == clamp(Share(h.ok, h.ok + h.timeouts + h.failed, 52)
                     + latencyScore(h, 18)
                     + Points(DOMAIN r.downloads # {}, (dl.score * 30) \div 100)
                     - h.timeouts * 8)
  IN  Score("HTTP", 0, score, score >= 70)

\* The cap of a handshake that no stable wss session backs.
scoreTLS(r, ws) ==
  LET backed == r.wss /\ ws.stable
      sum    == 50
                + (CASE r.tls.version = "TLS 1.3" -> 12
                     [] r.tls.version = "TLS 1.2" -> 8
                     [] r.tls.version = "older"   -> 0)
                + (CASE r.tls.time = "300ms"  -> 10
                     [] r.tls.time = "1s"     -> 6
                     [] r.tls.time = "3s"     -> 0
                     [] r.tls.time = "longer" -> -10)
                + Points(backed, 12)
      score  == clamp(IF backed THEN sum ELSE AtMost(74, sum))
  IN  IF r.tls.success THEN Score("TLS", 0, score, score >= 80 /\ backed)
                       ELSE Score("TLS", 0, 0, FALSE)

\* Faulty tcpPort: a drop costs the bonus of a test without one, and no more.
tcpPortLenient(r, p) ==
  LET c == r.tcp[p].connect
      s == r.tcp[p].echo
      t == s.tally
      echoed == Share(t.received, t.sent, 50)
                + Points(t.drops = 0 /\ t.failures = 0, 14) + Points(s.steady, 8)
      score  == clamp(Share(c.successes, c.attempts, 25)
                      + Points(t.sent > 0, echoed)
                      - t.reconnects * 8 - s.spikes * 5
                      - c.timeouts * 4 - c.resets * 4)
  IN  Score("RawTCP", p, score,
            score >= 70 /\ t.sent > 0 /\ t.drops = 0 /\ t.failures = 0)

\* One port; refused connects cost only their share.
tcpPort(r, p) ==
  LET c == r.tcp[p].connect
      s == r.tcp[p].echo
      t == s.tally
      echoed == Share(t.received, t.sent, 50)
                + Points(t.drops = 0 /\ t.failures = 0, 14) + Points(s.steady, 8)
      score  == clamp(Share(c.successes, c.attempts, 25)
                      + Points(t.sent > 0, echoed)
                      - t.drops * 14 - t.reconnects * 8 - s.spikes * 5 - t.failures * 8
                      - c.timeouts * 4 - c.resets * 4)
  IN  Score("RawTCP", p, score,
            score >= 70 /\ t.sent > 0 /\ t.drops = 0 /\ t.failures = 0)

\* Faulty udpPort: losses count in the score alone.
udpPortAnyLoss(r, p) ==
  LET u    == r.udp[p].packets
      lost == 100 * (u.sent - u.received)
      score == clamp(Share(u.received, u.sent, 82)
                     + (IF lost <= u.sent THEN 15 ELSE Points(lost <= 5 * u.sent, 8))
                     + Points(r.udp[p].steady, 3) - u.timeouts * 5)
      points == IF u.sent > 0 /\ u.received > 0 THEN score ELSE 0
  IN  Score("UDP", p, points, points >= 70)

\* PacketLossPct, compared with 1 and with 5.
udpPort(r, p) ==
  LET u    == r.udp[p].packets
      lost == 100 * (u.sent - u.received)
      score == clamp(Share(u.received, u.sent, 82)
                     + (IF lost <= u.sent THEN 15 ELSE Points(lost <= 5 * u.sent, 8))
                     + Points(r.udp[p].steady, 3) - u.timeouts * 5)
      points == IF u.sent > 0 /\ u.received > 0 THEN score ELSE 0
  IN  Score("UDP", p, points, points >= 70 /\ lost <= 5 * u.sent)

\* The loop over a map replaces its candidate by a port of a higher score: some
\* port of the highest score is left, or none where all are 0.
Candidates(transport, S) ==
  LET top == {s \in S : s.score > 0 /\ \A t \in S : t.score <= s.score}
  IN  IF top = {} THEN {Score(transport, 0, 0, FALSE)} ELSE top

scoreRawTCP(r) == Candidates("RawTCP", {tcpPort(r, p) : p \in DOMAIN r.tcp})
scoreUDP(r)    == Candidates("UDP", {udpPort(r, p) : p \in DOMAIN r.udp})

\* The completion of a download of unknown size is 100 once it has bytes.
completion(d) ==
  IF d.completion = 0 /\ ~d.known /\ d.bytes THEN 100 ELSE AtMost(100, d.completion)

\* int(avgCompletion * 0.7) is a share of seven tenths of the average.
scoreDownload(r) ==
  LET ds        == DOMAIN r.downloads
      count(P(_)) == Cardinality({i \in ds : P(r.downloads[i])})
      total     == Total([i \in ds |-> completion(r.downloads[i])])
      Full(d)   == completion(d) >= 100 /\ ~d.error /\ ~d.stalled
      full        == count(Full)
      partial     == count(LAMBDA d : d.partial)
      interrupted == count(LAMBDA d : d.interrupted)
      stalled     == count(LAMBDA d : d.stalled)
      score     == clamp(Share(total, 10 * Cardinality(ds), 7)
                         + Share(full, Cardinality(ds), 25)
                         - interrupted * 8 - stalled * 12
                         - count(LAMBDA d : d.speedDrop) * 5)
      judged    == Score("Download", 0, score,
                         score >= 75 /\ interrupted = 0 /\ stalled = 0)
  IN  CASE ds = {} -> [Score("Download", 0, 0, FALSE) EXCEPT !.status = "not_tested"]
        [] ds # {} /\ partial > 0 /\ score >= 50 /\ full = 0
                 -> [judged EXCEPT !.status = "partial"]
        [] OTHER -> judged

-----------------------------------------------------------------------------
Ranked == {"WebSocket", "HTTP", "TLS", "RawTCP", "UDP"}
preference(transport) ==
  CASE transport = "WebSocket" -> 0
    [] transport = "HTTP"      -> 1
    [] transport = "TLS"       -> 2
    [] transport = "RawTCP"   -> 3
    [] transport = "UDP"       -> 4

\* The order of the ranking: a is placed before b.
Above(a, b) ==
  \/ a.score > b.score
  \/ a.score = b.score /\ preference(a.transport) < preference(b.transport)

\* Faulty bestCandidate: the first of the ranking, whatever its score.
firstRanked(S) == CHOOSE s \in S : \A t \in S \ {s} : Above(s, t)

NoCandidate == Score("none", 0, 0, FALSE)
bestCandidate(S) ==
  LET first == CHOOSE s \in S : \A t \in S \ {s} : Above(s, t)
  IN  IF first.score = 0 THEN NoCandidate ELSE first

warningsOf(r) ==
  {<<"TCP", p>> : p \in {q \in DOMAIN r.tcp : LET t == r.tcp[q].echo.tally
                                              IN  t.drops > 0 \/ t.failures > 0}}
  \cup {<<"UDP", p>> : p \in {q \in DOMAIN r.udp : LET u == r.udp[q].packets
                              IN  u.sent > 0 /\ 100 * (u.sent - u.received) > 5 * u.sent}}
  \cup (IF r.websocket.tally.drops > 0 THEN {<<"WebSocket", 0>>} ELSE {})
  \cup {<<"Download", i>> : i \in {j \in DOMAIN r.downloads : LET d == r.downloads[j]
                              IN  d.stalled \/ d.interrupted \/ d.speedDrop \/ d.partial}}

-----------------------------------------------------------------------------
\* The labels that report.Print puts on the same results.
printTCP(e) ==
  CASE e.connect.successes = 0 -> "FAILED"
    [] e.connect.successes > 0 /\ e.echo.tally.drops = 0 /\ e.echo.tally.failures = 0 -> "OK"
    [] OTHER -> "OK but unstable"

printUDP(u) ==
  CASE u.packets.received = 0 -> "failed"
    [] u.packets.received > 0
         /\ 100 * (u.packets.sent - u.packets.received) > 5 * u.packets.sent -> "unstable"
    [] OTHER -> "OK"

printWebSocket(ws) ==
  IF ws.tally.received > 0 /\ ws.tally.drops = 0 THEN "connected, stable" ELSE "unstable"

-----------------------------------------------------------------------------
Unjudged == [transport \in Ranked \cup {"DNS", "Download"} |-> NoCandidate]

Init ==
  /\ main = "assessing"
  /\ rep \in Reports
  /\ scores = Unjudged /\ best = NoCandidate /\ warnings = {}

assess ==
  /\ main = "assessing"
  /\ main' = "assessed"
  /\ LET dl == scoreDownload(rep)
         ws == scoreWebSocket(rep)
     IN  \E tcp \in scoreRawTCP(rep), udp \in scoreUDP(rep) :
           scores' = [transport \in Ranked \cup {"DNS", "Download"} |->
                        CASE transport = "DNS"       -> scoreDNS(rep)
                          [] transport = "Download"  -> dl
                          [] transport = "WebSocket" -> ws
                          [] transport = "HTTP"      -> scoreHTTP(rep, dl)
                          [] transport = "TLS"       -> scoreTLS(rep, ws)
                          [] transport = "RawTCP"   -> tcp
                          [] transport = "UDP"       -> udp]
  /\ best' = bestCandidate({scores'[transport] : transport \in Ranked})
  /\ warnings' = warningsOf(rep)
  /\ UNCHANGED rep

Assessed == main = "assessed" /\ UNCHANGED vars

Next == assess \/ Assessed
Spec == Init /\ [][Next]_vars
=============================================================================
