-------------------------- MODULE ScoringProperties --------------------------
(***************************************************************************)
(* What the scores, labels and the best candidate of a report mean.        *)
(***************************************************************************)
EXTENDS Scoring

Judged == main = "assessed"
Labels == {"stable", "mostly_stable", "unstable", "poor", "failed"}

\* Scores are 0 to 100 with one of the labels of the documentation or of the
\* three that DNS and downloads add, and the candidate is one of those ranked.
TypeOK ==
  /\ main \in {"assessing", "assessed"}
  /\ \A transport \in DOMAIN scores :
       /\ scores[transport].score \in 0 .. 100
       /\ scores[transport].status \in
            Labels \cup (IF transport = "DNS" THEN {"ok", "slow"} ELSE {})
                   \cup (IF transport = "Download" THEN {"partial", "not_tested"} ELSE {})
  /\ best = NoCandidate \/ best \in {scores[transport] : transport \in Ranked}

\* Sustained traffic is weighted higher than connecting (README.md:217): a
\* stable WebSocket session ranks above a raw TCP candidate whose test had a
\* drop, and above a TLS handshake that no stable wss session backs
\* (client-probe/main.go:325-470).
StableWebSocketFirst ==
  Judged /\ scores["WebSocket"].stable =>
    LET ws == scores["WebSocket"]
        tcp == scores["RawTCP"]
    IN  /\ tcp.score > 0 /\ rep.tcp[tcp.port].echo.tally.drops > 0 => Above(ws, tcp)
        /\ ~rep.wss => Above(ws, scores["TLS"])

\* Losing a round never pays: a test whose next round is lost scores no higher
\* than if that round had been answered, however late and however much that
\* spoils its latency, over raw TCP, WebSocket and UDP.
Slow(e) ==
  {[e EXCEPT !.tally = Answered(e.tally), !.steady = FALSE, !.spikes = @ + k] :
     k \in {0, 1}}
Lost(e) == {[e EXCEPT !.tally = t] : t \in LostRounds(e.tally)}

DropNeverPays ==
  /\ \A p \in DOMAIN rep.tcp :
       rep.tcp[p].echo.tally.link = "up" =>
         \A slow \in Slow(rep.tcp[p].echo), lost \in Lost(rep.tcp[p].echo) :
           tcpPort([rep EXCEPT !.tcp[p].echo = lost], p).score
             <= tcpPort([rep EXCEPT !.tcp[p].echo = slow], p).score
  /\ rep.websocket.tally.link = "up" =>
       \A slow \in Slow(rep.websocket), lost \in Lost(rep.websocket) :
         scoreWebSocket([rep EXCEPT !.websocket = lost]).score
           <= scoreWebSocket([rep EXCEPT !.websocket = slow]).score
  /\ \A p \in DOMAIN rep.udp :
       LET u == rep.udp[p].packets
       IN  udpPort([rep EXCEPT !.udp[p].packets.sent = @ + 1,
                               !.udp[p].packets.timeouts = @ + 1], p).score
             <= udpPort([rep EXCEPT !.udp[p].steady = FALSE,
                                    !.udp[p].packets.sent = @ + 1,
                                    !.udp[p].packets.received = @ + 1], p).score

\* The verdicts of one result agree, though the score, the Stable flag, the
\* printed line and the warnings compare different numbers
\* (client-probe/main.go:212-234, report.go:92-131): what is called stable has the
\* flag, and what has the flag is neither printed as unstable nor warned about.
OneVerdict ==
  Judged =>
    /\ \A transport \in Ranked :
         scores[transport].status = "stable" => scores[transport].stable
    /\ scores["WebSocket"].stable
         <=> printWebSocket(rep.websocket) = "connected, stable"
    /\ scores["WebSocket"].stable =>
         /\ scores["WebSocket"].status \in {"stable", "mostly_stable"}
         /\ <<"WebSocket", 0>> \notin warnings
    /\ scores["RawTCP"].stable =>
         LET p == scores["RawTCP"].port
         IN  printTCP(rep.tcp[p]) # "OK but unstable" /\ <<"TCP", p>> \notin warnings
    /\ scores["UDP"].stable =>
         LET p == scores["UDP"].port
         IN  printUDP(rep.udp[p]) = "OK" /\ <<"UDP", p>> \notin warnings

\* The best candidate has carried something, and a UDP test without a reply is
\* never it (README.md:217): there is none exactly when all scores are 0
\* (client-probe/main.go:259-290).
BestCarriedTraffic ==
  Judged =>
    /\ best = NoCandidate <=> \A transport \in Ranked : scores[transport].score = 0
    /\ best.transport = "WebSocket" => rep.websocket.tally.received > 0
    /\ best.transport = "UDP"       => rep.udp[best.port].packets.received > 0
    /\ best.transport = "TLS"       => rep.tls.success
    /\ best.transport = "RawTCP"   =>
         \/ rep.tcp[best.port].connect.successes > 0
         \/ rep.tcp[best.port].echo.tally.received > 0
    /\ best.transport = "HTTP"      =>
         \/ rep.http.ok > 0
         \/ \E i \in DOMAIN rep.downloads : rep.downloads[i].bytes
=============================================================================
