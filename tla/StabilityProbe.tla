--------------------------- MODULE StabilityProbe ---------------------------
(***************************************************************************)
(* The long-running echo test of the client probe over one connection at a *)
(* time: tcp.RunStability and websocketx.RunStability, the same loop with  *)
(* other names for the counters (Failed and Disconnects for Failures and   *)
(* Drops).  Once a second it writes a payload of its own number and reads  *)
(* the echo within a deadline; on any failure it closes the connection and *)
(* dials once more.                                                        *)
(*                                                                         *)
(* A connection delivers in order or breaks.  Payloads are their sequence  *)
(* numbers, connections are numbered as they are dialled; latencies are    *)
(* left out.                                                               *)
(***************************************************************************)
EXTENDS Integers, Sequences

CONSTANTS
  Transports,  \* those tested: "tcp", "ws" (ws://) and "wss" (wss://)
  MaxSeq       \* bound: rounds the ticker starts

ASSUME StabilityAssumption ==
  /\ Transports \subseteq {"tcp", "ws", "wss"}
  /\ MaxSeq \in Nat

VARIABLES
  transport, \* what this test runs over
  loop,      \* where RunStability is
  seq,       \* payloadSeq
  sent, received, drops, reconnects, failures,   \* the Result
  conn,      \* the connection that connect dialled last, 0 before the first
  open,      \* the connections this process has not closed
  deferred,  \* the connection that the deferred Close will close
  wire,      \* on conn, the payloads written and not read back, in order
  broken,    \* conn has failed in the network or at the server
  tick,      \* the channel of the ticker holds a tick
  ctxDone    \* the duration of the test has passed

counters == <<seq, sent, received, drops, reconnects, failures>>
sockets  == <<conn, open, deferred>>
vars == <<transport, loop, counters, sockets, wire, broken, tick, ctxDone>>

FlagsOK == broken \in BOOLEAN /\ tick \in BOOLEAN /\ ctxDone \in BOOLEAN
CountersOK ==
  /\ seq \in 0 .. MaxSeq
  /\ sent \in 0 .. seq
  /\ received \in 0 .. sent
  /\ drops \in 0 .. seq
  /\ reconnects \in 0 .. drops
  /\ failures \in Nat
SocketsOK ==
  /\ conn \in Nat
  /\ open \subseteq 1 .. conn
  /\ deferred \in 0 .. 1
  /\ wire \in Seq(Nat)
TypeOK ==
  /\ transport \in Transports
  /\ loop \in {"dial", "select", "read", "redial", "returned"}
  /\ CountersOK /\ SocketsOK /\ FlagsOK

Init ==
  /\ transport \in Transports
  /\ loop = "dial"
  /\ seq = 0 /\ sent = 0 /\ received = 0
  /\ drops = 0 /\ reconnects = 0 /\ failures = 0
  /\ conn = 0 /\ open = {} /\ deferred = 0
  /\ wire = <<>> /\ broken = FALSE
  /\ tick = FALSE /\ ctxDone = FALSE

-----------------------------------------------------------------------------
\* connect: a new connection replaces conn, which its caller has closed.
Connected ==
  /\ conn' = conn + 1
  /\ open' = open \cup {conn + 1}
  /\ wire' = <<>>
  /\ broken' = FALSE

NotConnected ==
  /\ failures' = failures + 1
  /\ UNCHANGED <<conn, open, wire, broken>>

\* Faulty Dial: the first connection counts as a reconnect.
DialAsReconnect ==
  /\ loop = "dial"
  /\ Connected
  /\ deferred' = conn + 1
  /\ loop' = "select"
  /\ reconnects' = reconnects + 1
  /\ UNCHANGED <<seq, sent, received, drops, failures, tick, ctxDone>>

\* "defer conn.Close()" evaluates conn here, once and for all.  Without a first
\* connection there is no test.
Dial ==
  /\ loop = "dial"
  /\ \/ /\ Connected
        /\ deferred' = conn + 1
        /\ loop' = "select"
        /\ UNCHANGED failures
     \/ /\ NotConnected
        /\ loop' = "returned"
        /\ UNCHANGED deferred
  /\ UNCHANGED <<seq, sent, received, drops, reconnects, tick, ctxDone>>

\* When the ticker and the context are both ready, select takes either.
StartRound ==
  /\ loop = "select"
  /\ tick
  /\ tick' = FALSE
  /\ seq' = seq + 1

\* The first write to a connection that has failed may still succeed.
Send ==
  /\ StartRound
  /\ conn \in open
  /\ sent' = sent + 1
  /\ wire' = Append(wire, seq + 1)
  /\ loop' = "read"
  /\ UNCHANGED <<received, drops, reconnects, failures, sockets, broken, ctxDone>>

Drop ==
  /\ drops' = drops + 1
  /\ failures' = failures + 1
  /\ open' = open \ {conn}
  /\ loop' = "redial"
  /\ UNCHANGED <<conn, deferred, wire, broken>>

\* Faulty WriteFails: the connection is replaced without being closed.
WriteFailsUnclosed ==
  /\ StartRound
  /\ conn \notin open \/ broken
  /\ drops' = drops + 1
  /\ failures' = failures + 1
  /\ loop' = "redial"
  /\ UNCHANGED <<sent, received, reconnects, sockets, wire, broken, ctxDone>>

\* Faulty WriteFails: the payload counts as sent before it is written.
WriteFailsAsSent ==
  /\ StartRound
  /\ conn \notin open \/ broken
  /\ Drop
  /\ sent' = sent + 1
  /\ UNCHANGED <<received, reconnects, ctxDone>>

WriteFails ==
  /\ StartRound
  /\ conn \notin open \/ broken
  /\ Drop
  /\ UNCHANGED <<sent, received, reconnects, ctxDone>>

\* A wrong payload is an "echo mismatch".  (An echo that arrives just before the
\* connection breaks is read first here.)
Read ==
  /\ loop = "read"
  /\ ~broken
  /\ wire # <<>>
  /\ IF Head(wire) = seq
       THEN /\ received' = received + 1
            /\ wire' = Tail(wire)
            /\ loop' = "select"
            /\ UNCHANGED <<drops, failures, sockets, broken>>
       ELSE Drop /\ UNCHANGED received
  /\ UNCHANGED <<seq, sent, reconnects, tick, ctxDone>>

\* Faulty ReadFails: the test goes on with the connection it has.
ReadFailsKeepsConn ==
  /\ loop = "read"
  /\ drops' = drops + 1
  /\ failures' = failures + 1
  /\ loop' = "select"
  /\ UNCHANGED <<seq, sent, received, reconnects, sockets, wire, broken, tick, ctxDone>>

\* Faulty ReadFails: without SetDeadline only a broken connection ends the read.
ReadFailsIfBroken ==
  /\ loop = "read"
  /\ broken
  /\ Drop
  /\ UNCHANGED <<seq, sent, received, reconnects, tick, ctxDone>>

\* The deadline passes, the connection fails, or a WebSocket peer closes it.
ReadFails ==
  /\ loop = "read"
  /\ Drop
  /\ UNCHANGED <<seq, sent, received, reconnects, tick, ctxDone>>

\* Faulty Redial: a reconnect is counted whether connect succeeds or not.
RedialAlwaysCounts(allowed) ==
  /\ loop = "redial"
  /\ \/ allowed /\ Connected /\ UNCHANGED failures
     \/ NotConnected
  /\ reconnects' = reconnects + 1
  /\ loop' = "select"
  /\ UNCHANGED <<deferred, seq, sent, received, drops, tick, ctxDone>>

\* After a failed dial conn is the connection that was closed, and the next
\* write on it fails.
Redial(allowed) ==
  /\ loop = "redial"
  /\ \/ allowed /\ Connected /\ reconnects' = reconnects + 1 /\ UNCHANGED failures
     \/ NotConnected /\ UNCHANGED reconnects
  /\ loop' = "select"
  /\ UNCHANGED <<deferred, seq, sent, received, drops, tick, ctxDone>>

Return ==
  /\ loop = "select"
  /\ ctxDone
  /\ loop' = "returned"
  /\ open' = open \ {deferred}
  /\ UNCHANGED <<counters, conn, deferred, wire, broken, tick, ctxDone>>

Round == Dial \/ Send \/ WriteFails \/ Read \/ ReadFails \/ Return

\* tcp.RunStability: net.DialTimeout knows nothing of the context.
TCPRunStability == transport = "tcp" /\ (Round \/ Redial(TRUE))

\* websocketx.RunStability: a ws:// dial fails once the context is done, a
\* wss:// dial does not look at it.
WSRunStability ==
  transport # "tcp" /\ (Round \/ Redial(transport = "wss" \/ ~ctxDone))

RunStability == TCPRunStability \/ WSRunStability

-----------------------------------------------------------------------------
\* The ticker drops ticks nobody takes; the bound on rounds is here.
Tick ==
  /\ loop \notin {"dial", "returned"}
  /\ ~tick
  /\ seq < MaxSeq
  /\ tick' = TRUE
  /\ UNCHANGED <<loop, counters, sockets, wire, broken, ctxDone>>

Expire ==
  /\ ~ctxDone
  /\ ctxDone' = TRUE
  /\ UNCHANGED <<loop, counters, sockets, wire, broken, tick>>

Break ==
  /\ conn \in open
  /\ ~broken
  /\ broken' = TRUE
  /\ UNCHANGED <<loop, counters, sockets, wire, tick, ctxDone>>

Returned == loop = "returned" /\ UNCHANGED vars

Test == RunStability \/ Tick \/ Expire \/ Break
Next == (Test /\ UNCHANGED transport) \/ Returned

\* The goroutine is scheduled, the deadlines of dials, writes and reads pass,
\* and a select that finds the context done over and over takes it in the end:
\* its choice among the ready cases is uniform.  No echo need ever come.
Fairness ==
  /\ WF_vars(loop # "read" /\ RunStability /\ UNCHANGED transport)
  /\ WF_vars(ReadFails /\ UNCHANGED transport)
  /\ SF_vars(Return /\ UNCHANGED transport)

Spec == Init /\ [][Next]_vars
FairSpec == Spec /\ Fairness
=============================================================================
