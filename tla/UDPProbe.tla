------------------------------ MODULE UDPProbe ------------------------------
(***************************************************************************)
(* The UDP test of the client probe (udp.RunEcho) against the echo of the  *)
(* server agent, over a network that loses, duplicates and reorders.       *)
(*                                                                         *)
(* Once a second RunEcho sends a datagram of its own number and reads one  *)
(* datagram back, within a deadline.  Whatever it reads ends the round: a  *)
(* reply that comes late waits in the socket and is what the next round    *)
(* reads.  Datagrams are their sequence numbers; latencies are left out.   *)
(***************************************************************************)
EXTENDS Integers, Sequences

CONSTANTS
  MaxSeq,     \* bound: rounds the ticker starts
  MaxCopies   \* bound: copies the network makes

ASSUME UDPProbeAssumption == MaxSeq \in Nat /\ MaxCopies \in Nat

VARIABLES
  loop,      \* where RunEcho is
  seq, sent, received, timeouts,   \* its counters; all but seq are reported
  tick,      \* the channel of the ticker holds a tick
  ctxDone,   \* the duration of the test has passed
  up, down,  \* copies of each datagram under way to the server, to the client
  socket,    \* the replies in the client's socket, oldest first
  copied,    \* copies the network has made
  dropped,   \* datagrams the network has lost
  echoed     \* the datagrams the server has echoed

counters == <<seq, sent, received, timeouts>>
network  == <<up, down, copied, dropped, echoed>>
vars == <<loop, counters, tick, ctxDone, network, socket>>

Datagram == 1 .. MaxSeq

FlagsOK == tick \in BOOLEAN /\ ctxDone \in BOOLEAN
TypeOK ==
  /\ loop \in {"dial", "select", "read", "returned"}
  /\ seq \in 0 .. MaxSeq
  /\ sent \in 0 .. seq
  /\ received \in 0 .. sent /\ timeouts \in 0 .. sent
  /\ FlagsOK
  /\ up \in [Datagram -> Nat] /\ down \in [Datagram -> Nat]
  /\ socket \in Seq(Datagram)
  /\ copied \in 0 .. MaxCopies /\ dropped \in Nat
  /\ echoed \subseteq Datagram

Init ==
  /\ loop = "dial"
  /\ seq = 0 /\ sent = 0 /\ received = 0 /\ timeouts = 0
  /\ tick = FALSE /\ ctxDone = FALSE
  /\ up = [i \in Datagram |-> 0]
  /\ down = [i \in Datagram |-> 0]
  /\ socket = <<>>
  /\ copied = 0 /\ dropped = 0
  /\ echoed = {}

-----------------------------------------------------------------------------
\* RunEcho.  A target that does not resolve is reported at once.
Dial ==
  /\ loop = "dial"
  /\ loop' \in {"select", "returned"}
  /\ UNCHANGED <<counters, tick, ctxDone, network, socket>>

\* When the ticker and the context are both ready, select takes either.
Send ==
  /\ loop = "select"
  /\ tick
  /\ tick' = FALSE
  /\ seq' = seq + 1
  /\ sent' = sent + 1
  /\ up' = [up EXCEPT ![seq + 1] = @ + 1]
  /\ loop' = "read"
  /\ UNCHANGED <<received, timeouts, ctxDone, down, copied, dropped, echoed, socket>>

\* Faulty WriteFails: every error of the socket counts as a timeout.
WriteFailsAsTimeout ==
  /\ loop = "select"
  /\ tick
  /\ tick' = FALSE
  /\ seq' = seq + 1
  /\ timeouts' = timeouts + 1
  /\ UNCHANGED <<loop, sent, received, ctxDone, network, socket>>

\* There is no route, or an earlier datagram met a closed port and the socket
\* reports it now.
WriteFails ==
  /\ loop = "select"
  /\ tick
  /\ tick' = FALSE
  /\ seq' = seq + 1
  /\ UNCHANGED <<loop, sent, received, timeouts, ctxDone, network, socket>>

\* Faulty Read: any reply will do.
ReadAny ==
  /\ loop = "read"
  /\ socket # <<>>
  /\ received' = received + 1
  /\ socket' = Tail(socket)
  /\ loop' = "select"
  /\ UNCHANGED <<seq, sent, timeouts, tick, ctxDone, network>>

\* A reply to an earlier datagram is an "echo mismatch": no counter moves.
Read ==
  /\ loop = "read"
  /\ socket # <<>>
  /\ received' = IF Head(socket) = seq THEN received + 1 ELSE received
  /\ socket' = Tail(socket)
  /\ loop' = "select"
  /\ UNCHANGED <<seq, sent, timeouts, tick, ctxDone, network>>

\* Faulty ReadFails: the timeout is not counted.
ReadFailsUncounted ==
  /\ loop = "read"
  /\ loop' = "select"
  /\ UNCHANGED <<counters, tick, ctxDone, network, socket>>

\* Faulty ReadFails: without SetDeadline only a reply ends the read.
ReadNeverFails == FALSE

\* The deadline passes, or the socket reports a closed port.  Every error
\* counts as a timeout.
ReadFails ==
  /\ loop = "read"
  /\ timeouts' = timeouts + 1
  /\ loop' = "select"
  /\ UNCHANGED <<seq, sent, received, tick, ctxDone, network, socket>>

Return ==
  /\ loop = "select"
  /\ ctxDone
  /\ loop' = "returned"
  /\ UNCHANGED <<counters, tick, ctxDone, network, socket>>

\* PacketLossPct is this number, as a share of sent.
ReportedLost == sent - received

-----------------------------------------------------------------------------
\* The ticker drops ticks nobody takes; the bound on rounds is here.
Tick ==
  /\ loop # "returned"
  /\ ~tick
  /\ seq < MaxSeq
  /\ tick' = TRUE
  /\ UNCHANGED <<loop, counters, ctxDone, network, socket>>

Expire ==
  /\ ~ctxDone
  /\ ctxDone' = TRUE
  /\ UNCHANGED <<loop, counters, tick, network, socket>>

\* The server agent echoes what it reads.
Echo(i) ==
  /\ up[i] > 0
  /\ up' = [up EXCEPT ![i] = @ - 1]
  /\ down' = [down EXCEPT ![i] = @ + 1]
  /\ echoed' = echoed \cup {i}
  /\ UNCHANGED <<loop, counters, tick, ctxDone, copied, dropped, socket>>

Deliver(i) ==
  /\ down[i] > 0
  /\ loop # "returned"
  /\ down' = [down EXCEPT ![i] = @ - 1]
  /\ socket' = Append(socket, i)
  /\ UNCHANGED <<loop, counters, tick, ctxDone, up, copied, dropped, echoed>>

Lose(i) ==
  /\ \/ up[i] > 0 /\ up' = [up EXCEPT ![i] = @ - 1] /\ UNCHANGED down
     \/ down[i] > 0 /\ down' = [down EXCEPT ![i] = @ - 1] /\ UNCHANGED up
  /\ dropped' = dropped + 1
  /\ UNCHANGED <<loop, counters, tick, ctxDone, copied, echoed, socket>>

Copy(i) ==
  /\ copied < MaxCopies
  /\ copied' = copied + 1
  /\ \/ up[i] > 0 /\ up' = [up EXCEPT ![i] = @ + 1] /\ UNCHANGED down
     \/ down[i] > 0 /\ down' = [down EXCEPT ![i] = @ + 1] /\ UNCHANGED up
  /\ UNCHANGED <<loop, counters, tick, ctxDone, dropped, echoed, socket>>

-----------------------------------------------------------------------------
RunEcho == Dial \/ Send \/ WriteFails \/ Read \/ ReadFails \/ Return

Network == \E i \in Datagram : Echo(i) \/ Deliver(i) \/ Lose(i) \/ Copy(i)

\* RunEcho has returned; what is still under way changes nothing it reports.
Returned == loop = "returned" /\ UNCHANGED vars

Next == RunEcho \/ Tick \/ Expire \/ Network \/ Returned

\* The goroutine is scheduled, the deadline of a read passes, and a select
\* that finds the context done over and over takes it in the end: its choice
\* among the ready cases is uniform.
Fairness ==
  /\ WF_vars(RunEcho)
  /\ SF_vars(Return)

Spec == Init /\ [][Next]_vars
FairSpec == Spec /\ Fairness
=============================================================================
