# NetProbeX: models, checks and proofs

TLA+ modules that model the two programs of this repository, the configurations
that model-check them with TLC, and theorems about them that TLAPS proves.
`PROJECT.json` ties every definition to the source lines it stands for and lists
the runs, the faulty variants each property is known to catch, the findings, the
hazards and the theorems. Paths below are relative to the repository.

Run a check with `tlc -config <run>.cfg <module>` and a proof with
`tlapm <Module>Proofs.tla`; the module of each run is in the table of runs.

## 1. The system

NetProbeX measures which transports work between two hosts. The *server agent*
listens on TCP, UDP, HTTP, WebSocket and TLS ports, echoes, and counts. The
*client probe* runs one test per transport for a fixed duration, collects their
results in a report, scores the transports and prints the result.

| component | source | state | operations | interacts with |
|---|---|---|---|---|
| server-agent main | `cmd/server-agent/main.go` | where it is, a `sync.WaitGroup`, a context cancelled by SIGINT/SIGTERM | start listeners in order, wait for the signal, wait for the group | every listener: `Run(ctx, &wg)` |
| TCP echo server | `internal/tcp/server.go` | a listener and accept loop per port, a handler per connection | listen, accept, echo, time out every 2 s, close | statistics, WaitGroup, context |
| UDP echo server | `internal/udp/server.go` | a socket and loop per port | read, count, echo, close | the same |
| HTTP server | `internal/httpx/server.go` | a `net/http` server per port, a goroutine that shuts it down | bind, serve, `/ping`, `/health`, `/stats`, `/download/`, `Shutdown` with 10 s | statistics, WaitGroup, context, download stream, WebSocket session |
| WebSocket session | `internal/websocketx/websocket.go` (`Serve`) | a hijacked connection | upgrade, echo frames, close | statistics; leaves `net/http` |
| TLS server | `internal/tlsprobe/server.go` | listener, closer, accept loop, a handler per connection | listen (or be skipped), handshake, greet, close | statistics, WaitGroup, context |
| statistics | `internal/stats/stats.go` | counters, gauges, per-port table under a mutex | nine update operations, `Snapshot` | written by all listeners, read by `/stats` |
| client-probe main | `cmd/client-probe/main.go:21-194` | WaitGroup, mutex, the report | start one goroutine per test, collect, judge, write | every test |
| TCP and WebSocket stability tests | `internal/tcp/client.go`, `internal/websocketx/websocket.go` (`RunStability`) | one connection, a ticker, counters | dial, write, read the echo, drop and redial | the servers |
| UDP test | `internal/udp/client.go` | a socket, a ticker, counters | write, read whatever comes next | the UDP server, over a lossy network |
| download test | `internal/download/download.go` | the body, a stall timer, verdicts | read, restart the timer, judge (`finish`) | the HTTP server |
| TCP connect loop, HTTP requests, TLS test | `tcp/client.go`, `httpx/client.go`, `tlsprobe/tlsprobe.go` | a result | one attempt at a time | the servers |
| WebSocket framing | `internal/websocketx/websocket.go` (`ReadFrame`, `WriteFrame`) | a stream of bytes | write a header and a payload, read a frame | the session of the server, the test of the client |
| scoring | `cmd/client-probe/main.go:211-712` | none: functions of the report | score, rank, choose, warn | reads the finished report |
| report printing | `internal/report/report.go` | none | labels, layout, the JSON file | reads the finished report |
| configuration, logger, scripts | | none that others read back | | |

What is hard about it, and what would make it correct:

* **One WaitGroup for everything** (server). Accept loops, handlers and closers
  are added and removed while main may already be waiting. Correct when the
  counter always equals the number of goroutines that still owe a `Done`, when no
  `Add` lifts it from zero after `Wait` is called, and when main returns only
  with nothing left running.
* **Shutdown** is asynchronous: a cancelled context closes listeners, handlers
  notice it only when a read times out, `Shutdown` gives up after 10 s, and
  hijacked sessions are known to nobody.
* **Start-up** races: HTTP ports are bound in goroutines after main went on, and
  the TLS port is taken out of the TCP list before TLS is known to work.
* **Gauges and counters** are updated in five packages; a clamp at zero would
  hide an unbalanced update.
* **Echo tests** live on timeouts: what is read may answer an earlier round;
  connections are replaced in the middle of a test while a `defer` still names
  the first; ticker and context may be ready at once.
* **Downloads** end in six ways on different paths, each setting some of the
  verdicts; a stall timer is stopped, drained and reset between reads.
* **The report** is filled under a mutex by concurrent goroutines and read
  without it after the wait.
* **WebSocket frames** have three encodings of the length, an optional mask and
  two writes each; a reader that is off by one byte reads garbage from then on,
  and what a client sends early is in the buffer of `net/http`.
* **Scores** add truncated floating-point products, bonuses and penalties; flags,
  labels, warnings and the printed lines judge the same numbers a second time,
  elsewhere and with other thresholds.

The `hazards` of `PROJECT.json` list these at their lines with the properties
that cover them.

## 2. The modules

```
ServerStats   ServerContext                       TaskGroup  (abstract)
      \          /                                 ^       ^
  TCPServer UDPServer HTTPServer TLSServer         |       |  refinement
            \    |    |    /                       |       |
             ServerAgent -- ServerAgentProperties -+       |
                                  |    \                   |
                                  |   MCServerAgent        |
                         ServerAgentProofs                 |
                                                           |
  ClientProbe -- ClientProbeProperties -- MCClientProbe ---+
                          |
                 ClientProbeProofs

  EchoTally --+-- EchoLedger (abstract)
              |        ^  refinement
              |   StabilityProbe -- StabilityProbeProperties -- StabilityProbeProofs
              |
              +-- ProbeResults -- Scoring -- ScoringProperties -- MCScoring
                                                     |
                                               ScoringProofs

  WebSocketFrame -- WebSocketSession -- WebSocketProperties -- MCWebSocket
                                                 |
                                          WebSocketProofs
  UDPProbe       -- UDPProbeProperties -- UDPProbeProofs
  Download       -- DownloadProperties -- DownloadProofs

  Sums -- SumProofs   (used by the server agent, the UDP probe and their proofs,
                       and by ScoringProofs)
```

* **ServerContext** holds what listeners share: the cancelled context (`ctxDone`),
  the WaitGroup counter (`wg`) and the kernel's set of bound TCP ports (`bound`).
  **ServerStats** has `total` (the global counters, and the per-protocol ones) and
  `perPort`, with one operator per method.
* **TCPServer, UDPServer, HTTPServer, TLSServer** have the goroutines of one
  listener as variables (`serve[p]`, `conn[c]`, `hserve[p]`, `hshut[p]`, `req[r]`,
  `tcloser`, `taccept`, `tconn[c]`) whose values name the place in the code where
  the goroutine is. Each action is what it does between two points where another
  goroutine can see it. `defer` statements are steps of their own, in the order
  they run: `HandleDisconnect` before `HandleDone`.
* **ServerAgent** is `main`: `last` is the position in the loop over a list of
  ports. Clients and signals are the environment: they may do anything at any
  time within the bounds.
* **TaskGroup** is the abstract specification of both programs: a set of live
  tasks and no counter; main returns from its wait only when the set is empty and
  nothing starts afterwards.
* **StabilityProbe** models both `RunStability` functions, which are the same loop
  with other names; `transport` says which test it is, and they differ in `Redial`,
  where a `ws://` dial fails once the context is done. A connection is its number; `deferred` is the connection that
  the `defer` statement captured.
* **UDPProbe** models `udp.RunEcho` with its network: datagrams are their numbers;
  copies are counted on the way up and down, and the client's socket is a queue.
* **Download** models `download.Run`, `finish`, `classifyInterruption` and the
  printed label. A size is measured in twentieths, so that the 95% limit of
  `finish` falls between two values.
* **ClientProbe** is `main` of the probe: the tests are goroutines that end at some
  time with a result; the HTTP loop and the download loop are modelled step by
  step.
* **EchoTally** is the tally of an echo test: the counters of its `Result` and
  whether it has a connection, and what an answered round, a lost one and a redial
  do to them. It is used twice. As the one variable of **EchoLedger** it is the
  abstract specification that `StabilityProbe` implements. Its function `Results`
  computes the tallies of tests of a given length, and these are the echo results
  that reports are made of.
* **ProbeResults** has the results of all tests as sets, each built one attempt,
  round or request at a time the way the test builds it: `Connects` with
  `classifyTCPError`, `EchoResults`, `UDPRounds`, `HTTPResults`, `TLSResults`,
  `DownloadResults` with `finish`. Times are classes, cut where the scores compare
  them.
* **Scoring** is `assess`: `rep` is any report of such results, and one step scores
  it. There is one operator per score function, the two maps of ports are walked in
  any order (`Candidates`), and the labels of `report.Print` stand beside the
  scores. Arithmetic is that of integers: `int(ratio * points)` is a division, and
  `FallsShort` lists the products for which the floating-point result is just below
  the whole number it should be, so that the truncation loses a point. The theorem
  about scores holds whichever products these are.
* **WebSocketFrame** has a stream as a sequence of the parts that `ReadFrame` reads
  in full (two bytes, extended length, mask, payload), `Header` and `Payload` as the
  two writes of `WriteFrame`, and `ReadFrame` on it. The number of parts a reader
  takes follows from what it reads, not from what was written.
  **WebSocketSession** puts it to use: request and response of the upgrade, the
  echo loop, a client that sends frames of any opcode and of every kind of length,
  even before the 101 arrived, and that leaves anywhere, by a close or by a reset.
  `HTTPServer` has the same session seen from outside: hijacked, open, closed, and
  its gauges.

In each module an operator that a comment calls "Faulty" is a plausible bug of the
operator after it. No specification uses it; each property is known to fail when
the faulty operator is put in place of the right one (`mutants`).

## 3. The runs

| run | module | shows |
|---|---|---|
| server_start | MCServerAgent | TCP, HTTP and TLS want the same ports: `TypeOK`, `RunningMeansStarted`, `OnePortOneOwner`, and the server agent implements `TaskGroup` |
| server_use | MCServerAgent | a TCP connection, a download, a WebSocket session, a datagram, and the shutdown among them: `GaugesExact`, `StatsLedger`, `PacketsCounted`, `StoppedQuiet`, `WaitGroupExact`, `AddBeforeWait` |
| server_stop | MCServerAgent | a signal stops a process whose clients fall silent, and handlers end with their connection: `StopsWhenQuiet`, `HandlerFinishes` |
| udp_probe | UDPProbeProperties | loss, duplication, reordering: `TypeOK`, `ReceivedWasEchoed`, `LagIsTimeoutsAndCopies`, `ReturnsAfterDuration` |
| stability | StabilityProbeProperties | the TCP, `ws://` and `wss://` tests: `TypeOK`, `ReportAddsUp`, `AtMostOneConnection`, `NoStaleEcho`, `ReturnsAfterDuration`, and the test implements `EchoLedger` |
| download | DownloadProperties | whole, cut-off, stalled and refused bodies: `TypeOK`, `LabelMeansBytes`, `StalledMeansIdle`, `ReasonFits`, `EndsWithDuration` |
| client_report | MCClientProbe | all tests into one report: `TypeOK`, `ReportComplete`, `EndsAfterDuration`, and the probe implements `TaskGroup` |
| scoring | MCScoring | some 13 000 reports: `TypeOK`, `StableWebSocketFirst`, `DropNeverPays`, `OneVerdict`, `BestCarriedTraffic` |
| websocket | MCWebSocket | a session with frames of every length encoding: `TypeOK`, `InStep`, `AnswersInOrder`, `SessionEnds` |

Three more runs end in a counterexample, `udp_loss`, `tcp_leak` and
`download_stall`; each is a finding (section 6).

**Bounds, and why they suffice.** A property about the WaitGroup or the gauges
relates goroutines that do not look at each other, so one client of each kind,
with the accept loop it came through, shows every way an `Add` and a `Done` can
meet; the proofs remove the bound. `server_start` has three TCP ports, one of them also wanted by
TLS and by the second HTTP listener and one by the first, which is every kind of
conflict the code can have. `MaxUnread` and `MaxPackets` bound what clients send:
a handler only distinguishes something from nothing. In the echo
tests `MaxSeq` bounds the rounds: three UDP rounds are needed for a reply to
arrive two rounds late, four TCP rounds for a drop, a failed redial, a drop on
the closed connection and a good round. `MaxCopies` bounds duplicates; one is
enough to put the probe behind by one. `Sizes` contains 0 (size unknown), 20, and
41, of which 95% is no whole number. In the client probe a UDP port given twice
and two downloads of one name are the cases in which goroutines share an entry;
`MaxResults` bounds the HTTP requests and the downloads, of which the loops differ
from one to the next only in their count.

`MCScoring` varies a few results at a time and leaves the others absent, since a
score function reads one part of the report (WebSocket with TLS, HTTP with
downloads, and each port for itself); the properties that compare transports vary
both. The echo tests have up to four rounds, UDP up to seven: enough for scores to
cross every threshold and for clamping at both ends. `MCFallsShort` contains the
products up to the totals that occur which IEEE double precision makes too small.
`BoundaryLengths` has the lengths on both sides of every change of the encoding and
of the limit; two frames (`MaxFrames`) are enough for the second to be misread
because of the first, and for a first frame sent before the 101 to be followed by
one sent after it.

**Deadlock** is checked in every run: a process that has ended, or a test that has
returned, has a step that does nothing, so a state without a step would be one in
which a goroutine that should go on cannot.

**Fairness.** Weak fairness for the goroutines: the Go scheduler runs what can
run, and a deadline that is armed expires. Strong fairness only for the branch of
a `select` that finds the context done (`Return`, `HTTPReturn`): Go chooses among
ready cases uniformly at random, so a case that is ready again and again is
taken. Nothing is assumed of clients, servers, signals or the network: a read
ends by its own deadline, never because a peer answers. `StopsWhenQuiet` states its
assumption on clients in its premise. `ClientProbe` assumes of each test that it
ends once the duration has passed, which is what `ReturnsAfterDuration` and
`EndsWithDuration` establish for the tests modelled in detail. `WebSocketSession`
schedules only the goroutine of `Serve`: nothing is assumed of the client, which may
never write again; `SessionEnds` speaks of clients that have gone. Its buffers have
no limit: the server sets no write deadline, and a client that never reads but
stays can hold `Serve` in a write for as long as it likes.

## 4. The theorems

| theorem | module | for every |
|---|---|---|
| `TypeCorrect`: `Spec => []TypeOK` | ServerAgentProofs | configuration, number of clients, bound |
| `WaitGroupCounts`: `Spec => []WaitGroupExact` | ServerAgentProofs | the same |
| `AddOnlyBeforeWait`: `Spec => AddBeforeWait` | ServerAgentProofs | the same |
| `StopIsQuiet`: `Spec => []StoppedQuiet` | ServerAgentProofs | the same |
| `PortHasOneOwner`: `Spec => []OnePortOneOwner` | ServerAgentProofs | the same |
| `RunsWhatIsConfigured`: `Spec => []RunningMeansStarted` | ServerAgentProofs | the same |
| `GaugesCount`: `Spec => []GaugesExact` | ServerAgentProofs | the same |
| `PacketsAreCounted`: `Spec => []PacketsCounted` | ServerAgentProofs | the same |
| `LedgerBalances`: `Spec => []StatsLedger` | ServerAgentProofs | the same |
| `IsTaskGroup`: `Spec => ImplementsTaskGroup` | ServerAgentProofs | the same |
| `TypeCorrect`: `Spec => []TypeOK` | StabilityProbeProofs | transport and number of rounds |
| `ReportIsConsistent`: `Spec => []ReportAddsUp` | StabilityProbeProofs | the same |
| `OneConnection`: `Spec => []AtMostOneConnection` | StabilityProbeProofs | the same |
| `EchoIsFresh`: `Spec => []NoStaleEcho` | StabilityProbeProofs | the same |
| `KeepsLedger`: `Spec => ImplementsEchoLedger` | StabilityProbeProofs | the same |
| `TalliesConsistent`: `Spec => []EL!Consistent(tally)` | StabilityProbeProofs | the same |
| `TypeCorrect`: `Spec => []TypeOK` | UDPProbeProofs | number of rounds and of copies |
| `ReceivedIsEchoed`: `Spec => []ReceivedWasEchoed` | UDPProbeProofs | the same |
| `LagAccounted`: `Spec => []LagIsTimeoutsAndCopies` | UDPProbeProofs | the same |
| `TypeCorrect`: `Spec => []TypeOK` | DownloadProofs | set of sizes |
| `LabelIsRight`: `Spec => []LabelMeansBytes` | DownloadProofs | the same |
| `StallIsSilence`: `Spec => []StalledMeansIdle` | DownloadProofs | the same |
| `ReasonIsRight`: `Spec => []ReasonFits` | DownloadProofs | the same |
| `TypeCorrect`: `Spec => []TypeOK` | ClientProbeProofs | lists of ports, downloads, number of results |
| `ReportIsComplete`: `Spec => []ReportComplete` | ClientProbeProofs | the same |
| `IsTaskGroup`: `Spec => ImplementsTaskGroup` | ClientProbeProofs | the same |
| `TypeCorrect`: `Spec => []TypeOK` | ScoringProofs | set of reports and of rounding errors |
| `SustainedTrafficFirst`: `Spec => []StableWebSocketFirst` | ScoringProofs | the same |
| `LossNeverPays`: `Spec => []DropNeverPays` | ScoringProofs | the same |
| `BestIsOneThatWorked`: `Spec => []BestCarriedTraffic` | ScoringProofs | the same |
| `VerdictsAgree`: `Spec => []OneVerdict` | ScoringProofs | the same |
| `TypeCorrect`: `Spec => []TypeOK` | WebSocketProofs | set of lengths, limit, number of frames |
| `StaysInStep`: `Spec => []InStep` | WebSocketProofs | the same |
| `AnsweredInOrder`: `Spec => []AnswersInOrder` | WebSocketProofs | the same |

*Assumptions.* Only the named `ASSUME`s of the modules: ports are positive numbers,
the clients form finite sets, the configuration's lists contain ports, bounds are
natural numbers (`ClientProbe` has room for at least one result of each of its two
HTTP paths). `Download` assumes that a size it knows is longer than the page of an
error; without that, such a page would pass for the file. `Scoring` assumes of its
reports what `ReportOK` says, and that is what the tests put into them. Echo results
are `Consistent`, which `TalliesConsistent` proves of the tests. A UDP test has
received and timed out on no more datagrams than it sent (`Rounds` in
UDPProbeProofs). A connect loop has no more successes than attempts, a download of
which some percent came has bytes, and latencies are steady only where there are
any. `WebSocketSession` assumes only that lengths are natural numbers: they may be
above the limit, and then the reader ends the session.

*The server.* `WaitGroupExact` is not inductive alone: the proof that starting a
listener adds a goroutine that was not there needs that a port without a listener
has no accept loop (`TCPOrder`, `UDPOrder`, `HTTPOrder`, `TLSOrder`), and that
needs the types. `Inv == Typed /\ Order /\ WaitGroupExact` is inductive. In it `wg`
is only an integer: that it is natural, where Go would panic, follows from
counting. The first part of `ServerAgentProofs` shows for each listener, from its own
variables, that its steps keep its types and order and change `wg` by as much as its
number of tracked goroutines; the second part adds the other three listeners, which
the step leaves alone. `AddOnlyBeforeWait` follows because `wg = 0` means that no
goroutine is left to call `Add` (`ZeroMeansIdle`). `StopIsQuiet` needs three more
conjuncts (`StopInv`): that after the wait the counter is zero, that the gauge of
TCP connections counts the handlers between connect and disconnect, and that a
request in flight on a port whose `Shutdown` ended is one that timed out.

*Ports, start-up, gauges and datagrams.* Four more invariants are proved on top of
`Inv`, each for one property. `Owned` says that the bound ports are the disjoint
union of the ports of the TCP listeners, the HTTP listeners and the TLS listener,
and that the TLS closer has a listener to close. Every step only adds a free port to
one of the three or takes a port of its own away (`Moved`). `Started` says, for each
place in `main`, which listeners exist: those of the lists before it and those up to
`last` of its own. `Gauges` replaces the gauges by the sizes of the sets they count;
since these are never negative, the clamp at zero has nothing to do
(`ConnectionDropped`, `SessionDropped`). `Packets` is `PacketsCounted` with "not
closed" in place of "open": it holds of a port before its socket opens too, when all
three numbers are zero.

*The books.* `StatsLedger` is not inductive: between `logMiddleware` counting a
request and the download or session in it being counted, the books are apart by one.
`Books` says the same with the number of these requests (`Pending`), and with the sums
over ports as numbers of their own (`BooksOf`), so that one lemma per operation of
`ServerStats` says how it moves both books. It needs `Gauges`, because a gauge that was
clamped at zero would fall in one book and not in the other, and `TLSReal`, that no
handshake is counted for a port outside the table.

*Sums.* A sum over a function is a fold, and what a fold computes is proved by
induction. Its place is taken in `SumProofs` by the smallest set for which a claim
fails (`SmallestSet`, from the well-foundedness of the strict subset order): the claim
holds of the set with one member less, and so of the set. `TotalChange` says what a
change of one value does to a sum; nothing else is needed of sums elsewhere.

*From the goroutines to the group.* The server's tracked goroutines are the live tasks
of `TaskGroup`. A step of a listener starts one, ends one or neither (`OneTask`), and
starts one only while another runs; `main` starts them only before the signal. That
there are none left when `main` passes its wait is `ZeroMeansIdle` again, and that
there are none later needs the part of `StopInv` that the counter stays at zero
(`GroupStep`).

*The echo tests.* The four properties are proved from one invariant: beside
`ReportAddsUp`, `AtMostOneConnection` and the types it says which connections can
be open in each state of the loop (`Connections`), how the counters relate while a
round is pending (`Pending`), and what is on the wire (`Wire`): nothing while the
loop waits for a tick with an open connection, and exactly the payload of this
round while it reads.

*From the loop to the ledger.* `KeepsLedger` maps the counters and the state of the
connection to a tally. Its refinement needs one fact more than the invariant above
(`Held`): which states of the loop have a connection that was just opened, and that
a test in its redial has lost the round it redials for. Each action is then one
step of the ledger or none (`TallySteps`): a drop before the write is `LostUnsent`,
one after it `LostSent`, and the redial is a step of its own.

*The ledger.* `Consistent` has two sums, `sent` against `received` and `drops`, and
`failures` against `drops` and `reconnects`; they hold at every moment only when the
redial in progress (`Redialling`) and the dial that failed at the start (`Refused`)
are counted in.

*The UDP test.* That no more was received than echoed is not inductive: a reply that
waits in the socket may be counted later. The invariant counts only the echoed
datagrams of rounds that have ended (`Counted`), and says that replies exist, on the
way or in the socket, of echoed datagrams only (`Echoes`). A reply that counts ends
the round whose number it carries, so both sides grow by one. That the lag is exactly
the timeouts and copies less the losses (`LagKept`) is inductive given the types:
every step moves one datagram between the two directions and the socket, and
`TotalChange` says what that does to the sums.

*The download.* `Unjudged` says that nothing is judged before `Run` returns,
`Answered` relates status, length and error, `Finished` is what `finish` computes
from them, and `Silence` that a value in the channel of the timer is of the silence
that still lasts. `FinishKeeps` treats all paths out of `Run` at once.

*The client probe.* `main` starts its goroutines in groups, in the order of the
configuration. `Slots` shows that every goroutine belongs to exactly one group, at
the position `Slot`, so that "has been started" is `Slot(t) <= started`
(`InOrder`), and starting a group adds to `wg` as many as it starts. `Awaited` says
that `wg` is the number of goroutines that run, and that none runs when the report
is judged. `Filed` says that a test that is over has stored its entry, and that what
an entry holds is a result of its own port, also when two tests share it; `Polled`
and `Downloaded` relate the loops' positions to what they have stored. From the same
invariant every step is a step of `TaskGroup` or none (`IsTaskGroup`).

*The scores.* A WebSocket session has the stable flag only with a score of 70 or
more. A TCP test with a drop has lost a round, so by `Consistent` it has a failure
too, no bonus for a clean test and a penalty of at least 22: with everything else at
its best it has 61 points (`DroppedTCPScore`). A handshake that no `wss://` session
backs has at most 72 (`UnbackedTLSScore`), but a session that is stable has no
drops, therefore no failures and no reconnects, and at least 95% of its messages:
at least 75 (`StableWebSocketScore`). Points of a ratio are bounded by
`ShareAtMost` and `ShareFull`, which hold with and without a rounding error.

The other three properties use one lemma per transport (`WebSocketVerdict`,
`TCPVerdict`, `UDPVerdict`, `TLSVerdict`, `DNSVerdict`, `DownloadVerdict`,
`HTTPVerdict`): its score is between 0 and 100 with a label that fits, what a score of
the highest label implies of the result, and that there are points only for traffic
that came back. `FirstPlace` and `BestOf` relate the candidate to the ranking. That a
loss never pays is a comparison of two results: `ShareGrows` shows that the share of a
larger ratio is smaller by at most the one point that truncation can take, in any
combination of rounding errors, and the penalties outweigh it. Over TCP a lost round
costs at least 30 points and saves at most a spike and the latency, over WebSocket it
costs 41 and saves 6 and two truncations, and over UDP it costs 5 and saves 3 and one.

*The WebSocket session.* `InStep` speaks of the moment a frame is complete; what is
inductive is where every frame lies. `Carries` says that a stream can be cut into one
piece for each frame its reader has not taken, in their order, the last of which may
be only a header whose payload is still to be written. Four lemmas say that this
survives what is done to a stream: a frame is read (`CarriesFirst`), a header is added
(`CarriesHeader`), a payload is added (`CarriesPayload`), and an empty stream carries
nothing (`CarriesNone`). Below them, `FrameIsRead` says that `ReadFrame` takes what
`WriteFrame` put, for every length and mask: the header announces exactly the parts
that were written (`PartsAnnounced`), and the length comes back from whichever of the
three encodings it has. `Coming` and `Going` apply this to the two streams. For the
order of the answers, `Going` says that the server's frames are the replies to what it
has heard (`RepliesTo`) and that the client has read a beginning of them; a frame that
is answered adds the reply with the next turn (`OneReply`), one that is not adds none
(`NoReply`), and no later frame changes an earlier turn (`RepliesInOrder`).

## 5. What is only model-checked

Liveness: `StopsWhenQuiet`, `HandlerFinishes`, `ReturnsAfterDuration` of the UDP and the
echo tests, `EndsWithDuration`, `EndsAfterDuration` and `SessionEnds`. Fairness and
`ENABLED` are out of the reach of this prover. Every invariant, action property and
refinement of a passing run is also a theorem.
The functions `Results`, `Connects` and `UDPRounds` are recursive over data, so what
they compute for every length is not provable here; TLC evaluates them, and its
`ReportsAssumption` checks that the echo results they give are `Consistent`.

## 6. Where the code and its documents differ

Each is the counterexample of a run; `findings` quotes the lines.

| run | what happens |
|---|---|
| udp_loss | after one late reply every later UDP round counts as lost |
| tcp_leak | `defer conn.Close()` names the first connection: a test that reconnected leaves its last one open |
| download_stall | a stall of any length is forgotten when bytes come again |

The models contain other behaviours that a reader of the reports should know of,
and that no line of the documentation denies:

* A TCP client that keeps sending keeps its handler from the read timeout at which
  it would notice the shutdown, and so keeps the server from ending after Ctrl+C.
  This is why `StopsWhenQuiet` has the premise that clients fall silent.
* Echo tests may go on after their duration, because `select` chooses at random
  between a ready ticker and a done context.
* A stability test whose first connect fails ends at once, with one failure.
* While a server is away every second counts one more disconnect, on a connection
  that is closed already.
* The page of an error, for a path whose size the client does not know, is a
  completed download.
* Requests and downloads that the end of the test cuts off count as timeouts and
  interruptions of the server, and lower its scores.
* A request that failed or timed out leaves the latency points to the others, so a
  run in which it fails can score higher than one in which it is answered very late.
  For this reason `DropNeverPays` speaks of TCP, WebSocket and UDP.
* A TLS handshake that nothing backs has at most 72 points, so the cap at 74
  (`main.go:440-443`) never takes effect; one that is backed has at most 84, so TLS is
  never labelled "stable", which begins at 85.
* `best_candidate.transport` says "raw_tcp" where `transport_scores` has the key "tcp",
  and the labels include "ok", "slow", "partial" and "not_tested", which the list in
  the documentation does not have.
* The Stable flag of UDP and TCP is that of the candidate; with ports of equal score it
  can depend on the iteration order of a map.
* A port all of whose connects failed and whose echo test worked is printed as FAILED
  though it may have the Stable flag.
* A download whose request failed is neither interrupted nor warned about.
* `messages_out` counts replies that could not be written; a connection that ends
  exactly between the header and the payload of a frame ends with `io.EOF` and is not
  logged as an error. Dial does not verify `Sec-WebSocket-Accept`.
* Products such as `29.0/50*50` are a little less than 29 and truncate to 28.

## 7. What is not modelled

* **Logger**: writes lines under a mutex; nothing reads them, and no behaviour depends
  on them. **Configuration**: flags and JSON are read once before the first state of
  every model; its lists and numbers are their constants. **Scripts and unit file.**
* **Report printing** apart from its labels, and the wording of reasons and warnings.
* **acceptKey** and the choice of masks: hashes and random numbers that decide nothing.
* Latencies and speeds as numbers: scores compare them with a few limits, and the
  models have the classes between these. An average is not computed, so
  `latencyStable` is any value that a number of latencies allows (`Steadiness`).
* The bytes of a download as the server streams them: the request is open, and ends
  well or badly.
* Reports in which everything varies at once: `MCScoring` varies related parts.

## 8. Plan

1. `ServerAgent` and its listeners, `TaskGroup`: done, with the theorems above.
2. The tests of the client and `ClientProbe`: done, with the theorems above.
3. `EchoLedger` and `Scoring` over `ProbeResults`: done, with the theorems above.
4. `WebSocketFrame` and `WebSocketSession`: done, with the theorems above.
5. Theorems worth having beyond the properties of the runs: the safety halves of the
   liveness properties, such as that `main` at its wait and all loops returned leaves
   nothing but handlers to wait for, and that a session that has returned has
   uncounted itself.
