------------------------ MODULE StabilityProbeProofs ------------------------
(***************************************************************************)
(* The long-running echo test reports what its properties say for every    *)
(* transport and every number of rounds.                                   *)
(***************************************************************************)
EXTENDS StabilityProbeProperties, TLAPS

\* Before the first connection nothing is counted, and afterwards there is one
\* connection per reconnect and one more, of which the first is deferred.
Connections ==
  /\ loop = "dial" =>
       /\ conn = 0 /\ seq = 0 /\ sent = 0 /\ received = 0
       /\ drops = 0 /\ reconnects = 0 /\ failures = 0
  /\ loop \in {"select", "read", "redial"} => conn > 0
  /\ conn > 0 => deferred = 1 /\ conn = reconnects + 1
  /\ conn = 0 => reconnects = 0 /\ drops = 0
  /\ tick => seq < MaxSeq

\* While a round waits for its echo the echo is not counted yet; while the probe
\* dials again the reconnect is not.
Pending ==
  /\ received + Waiting <= sent
  /\ reconnects + Redialing <= drops

\* Nothing is left on a connection when a round starts on it.
Wire == /\ loop = "select" /\ conn \in open => wire = <<>>
        /\ NoStaleEcho

Inv == /\ TypeOK /\ Connections /\ Pending
       /\ ReportAddsUp /\ AtMostOneConnection /\ Wire

LEMMA InitInv == Init => Inv
<1> SUFFICES ASSUME Init PROVE Inv
  OBVIOUS
<1> USE StabilityAssumption DEF Init
<1>1. FlagsOK
  BY DEF FlagsOK
<1>2. /\ transport \in Transports
      /\ loop \in {"dial", "select", "read", "redial", "returned"}
      /\ CountersOK /\ SocketsOK
  BY DEF CountersOK, SocketsOK
<1>3. Connections /\ tick = FALSE
  BY DEF Connections
<1>4. Pending /\ ReportAddsUp
  BY DEF Pending, ReportAddsUp, Waiting, Redialing
<1>5. AtMostOneConnection /\ Wire
  BY DEF AtMostOneConnection, Wire, NoStaleEcho
<1> QED
  BY <1>1, <1>2, <1>3, <1>4, <1>5 DEF Inv, TypeOK

\* The flags are read and set independently of the rest.
LEMMA NextFlags == FlagsOK /\ [Next]_vars => FlagsOK'
<1> SUFFICES ASSUME FlagsOK, [Next]_vars PROVE FlagsOK'
  OBVIOUS
<1> USE DEF FlagsOK
<1>1. CASE Round
  BY <1>1 DEF Round, Dial, Send, WriteFails, Read, ReadFails, Return,
              StartRound, Connected, NotConnected, Drop
<1>2. ASSUME NEW allowed \in BOOLEAN, Redial(allowed) PROVE FlagsOK'
  BY <1>2 DEF Redial, Connected, NotConnected
<1>3. CASE Tick \/ Expire \/ Break \/ UNCHANGED vars
  BY <1>3 DEF Tick, Expire, Break, vars
<1> QED
  BY <1>1, <1>2, <1>3
  DEF Next, Test, RunStability, TCPRunStability, WSRunStability, Returned

\* The invariant is inductive: each action keeps the sums of the report, the
\* sockets and the wire in step.
LEMMA NextInv == Inv /\ [Next]_vars => Inv'
<1> SUFFICES ASSUME Inv, [Next]_vars PROVE Inv'
  OBVIOUS
<1> DEFINE Rest == /\ loop \in {"dial", "select", "read", "redial", "returned"}
                   /\ CountersOK /\ SocketsOK
                   /\ Connections /\ Pending
                   /\ ReportAddsUp /\ AtMostOneConnection /\ Wire
<1>0. FlagsOK' /\ Rest
  BY NextFlags DEF Inv, TypeOK
<1>t. transport' \in Transports
  BY DEF Inv, TypeOK, Next, Returned, vars
<1> SUFFICES Rest'
  BY <1>0, <1>t DEF Inv, TypeOK
<1> USE <1>0, StabilityAssumption
    DEF CountersOK, SocketsOK, Connections, Pending, ReportAddsUp,
        AtMostOneConnection, Wire, NoStaleEcho, Waiting, Redialing
<1>1. CASE Dial
  <2>1. CASE Connected
    <3>0. conn = 0 /\ open = {} /\ conn' = conn + 1 /\ deferred' = conn + 1
      BY <1>1, <2>1 DEF Dial, Connected, NotConnected
    <3>1. /\ conn' = 1 /\ open' = {1} /\ deferred' = 1 /\ wire' = <<>>
          /\ loop = "dial" /\ loop' = "select"
          /\ UNCHANGED <<failures, seq, sent, received, drops, reconnects, tick>>
      BY <1>1, <2>1, <3>0 DEF Dial, Connected, NotConnected
    <3> QED
      BY <3>1
  <2>2. CASE NotConnected
    BY <1>1, <2>2 DEF Dial, NotConnected
  <2> QED
    BY <1>1, <2>1, <2>2 DEF Dial
<1>2. CASE Send
  <2>1. wire = <<>> /\ wire' = <<seq'>> /\ wire' \in Seq(Nat)
    BY <1>2 DEF Send, StartRound
  <2> QED
    BY <1>2, <2>1 DEF Send, StartRound, sockets
<1>3. CASE WriteFails
  BY <1>3 DEF WriteFails, StartRound, Drop
<1>4. CASE Read
  <2>1. /\ received' = received + 1
        /\ wire' = <<>> /\ wire' \in Seq(Nat)
        /\ loop' = "select"
        /\ UNCHANGED <<drops, failures, sockets, broken>>
    BY <1>4 DEF Read
  <2> QED
    BY <1>4, <2>1 DEF Read, sockets
<1>5. CASE ReadFails
  BY <1>5 DEF ReadFails, Drop
<1>6. CASE Return
  BY <1>6 DEF Return, counters
<1>7. ASSUME NEW allowed \in BOOLEAN, Redial(allowed) PROVE Rest'
  <2>1. CASE Connected
    <3>1. /\ conn' = conn + 1 /\ open' = {conn + 1} /\ wire' = <<>>
          /\ reconnects' = reconnects + 1
          /\ loop = "redial" /\ loop' = "select"
          /\ UNCHANGED <<failures, deferred, seq, sent, received, drops, tick>>
      BY <1>7, <2>1 DEF Redial, Connected, NotConnected
    <3> QED
      BY <3>1
  <2>2. CASE NotConnected
    BY <1>7, <2>2 DEF Redial, NotConnected, Connected
  <2> QED
    BY <1>7, <2>1, <2>2 DEF Redial
<1>8. CASE Tick
  BY <1>8 DEF Tick, counters, sockets
<1>9. CASE Expire
  BY <1>9 DEF Expire, counters, sockets
<1>10. CASE Break
  BY <1>10 DEF Break, counters, sockets
<1>11. CASE UNCHANGED vars
  BY <1>11 DEF vars, counters, sockets
<1> QED
  BY <1>1, <1>2, <1>3, <1>4, <1>5, <1>6, <1>7, <1>8, <1>9, <1>10, <1>11
  DEF Next, Test, RunStability, TCPRunStability, WSRunStability, Round, Returned

LEMMA Invariance == Spec => []Inv
  BY InitInv, NextInv, PTL DEF Spec

\* The counters of the Result stay in their ranges, so that the ratios of the
\* report are ratios.
THEOREM TypeCorrect == Spec => []TypeOK
<1>1. Inv => TypeOK
  BY DEF Inv
<1> QED
  BY Invariance, <1>1, PTL

\* Every round is a success or a drop, and the failures are twice the drops less
\* the reconnects.
THEOREM ReportIsConsistent == Spec => []ReportAddsUp
<1>1. Inv => ReportAddsUp
  BY DEF Inv
<1> QED
  BY Invariance, <1>1, PTL

\* At most one connection is open, and none is left by a test that never
\* reconnected.
THEOREM OneConnection == Spec => []AtMostOneConnection
<1>1. Inv => AtMostOneConnection
  BY DEF Inv
<1> QED
  BY Invariance, <1>1, PTL

\* An echo that is read belongs to the round that reads it.
THEOREM EchoIsFresh == Spec => []NoStaleEcho
<1>1. Inv => NoStaleEcho
  BY DEF Inv, Wire
<1> QED
  BY Invariance, <1>1, PTL

-----------------------------------------------------------------------------
\* Where the connection in use is: a round that waits has one, a test without a
\* drop still has its first, and after a drop only a reconnect brings another.
Held ==
  /\ loop = "read" => conn \in open
  /\ loop = "select" /\ drops = 0 => conn \in open
  /\ drops > 0 /\ conn \in open => reconnects > 0

LEMMA InitHeld == Init => Held
BY DEF Init, Held

LEMMA NextHeld == Inv /\ Held /\ [Next]_vars => Held'
<1> SUFFICES ASSUME Inv, Held, [Next]_vars PROVE Held'
  OBVIOUS
<1>0. CountersOK /\ SocketsOK /\ Connections /\ AtMostOneConnection
  BY DEF Inv, TypeOK
<1> USE <1>0, StabilityAssumption
    DEF Held, CountersOK, SocketsOK, Connections, AtMostOneConnection
<1>1. CASE Dial
  BY <1>1 DEF Dial, Connected, NotConnected
<1>2. CASE Send
  BY <1>2 DEF Send, StartRound, sockets
<1>3. CASE WriteFails \/ ReadFails
  <2>1. loop' = "redial" /\ conn' = conn /\ open' = open \ {conn}
    BY <1>3 DEF WriteFails, ReadFails, Drop
  <2> QED
    BY <2>1
<1>4. CASE Read
  <2>1. CASE loop' = "select" /\ UNCHANGED <<drops, conn, open, reconnects>>
    BY <1>4, <2>1 DEF Read
  <2>2. CASE Drop
    BY <2>2 DEF Drop
  <2> QED
    BY <1>4, <2>1, <2>2 DEF Read, sockets
<1>5. CASE Return
  BY <1>5 DEF Return, counters
<1>6. ASSUME NEW allowed \in BOOLEAN, Redial(allowed) PROVE Held'
  BY <1>6 DEF Redial, Connected, NotConnected, Pending, Redialing, Inv
<1>7. CASE Tick \/ Expire \/ Break
  BY <1>7 DEF Tick, Expire, Break, counters, sockets
<1>8. CASE UNCHANGED vars
  BY <1>8 DEF vars, counters, sockets
<1> QED
  BY <1>1, <1>2, <1>3, <1>4, <1>5, <1>6, <1>7, <1>8
  DEF Next, Test, RunStability, TCPRunStability, WSRunStability, Round, Returned

LEMMA Holding == Spec => [](Inv /\ Held)
BY InitHeld, NextHeld, Invariance, PTL DEF Spec

\* The link, case by case.
LinkRules ==
  /\ loop = "dial"   => link = "undialled"
  /\ loop = "redial" => link = "redialling"
  /\ loop \notin {"dial", "redial"} /\ conn = 0 => link = "never"
  /\ loop \notin {"dial", "redial"} /\ conn > 0 =>
       /\ conn \in open => link = "up"
       /\ loop = "returned" /\ drops = 0 => link = "up"
       /\ conn \notin open /\ ~(loop = "returned" /\ drops = 0) => link = "closed"

LEMMA Links == LinkRules /\ LinkRules'
<1>1. LinkRules
  BY SMT DEF link, LinkRules
<1>2. LinkRules'
  BY SMT DEF link, LinkRules
<1> QED
  BY <1>1, <1>2

LEMMA InitTally == Init => EL!Init
BY Links DEF LinkRules, Init, tally, Waiting, EL!Init, EL!Undialled

LEMMA TallyTyped == Inv => tally \in EL!Tallies
<1> SUFFICES ASSUME Inv PROVE tally \in EL!Tallies
  OBVIOUS
<1>1. /\ sent - Waiting \in Nat /\ received \in Nat /\ drops \in Nat
      /\ reconnects \in Nat /\ failures \in Nat
  BY StabilityAssumption DEF Inv, TypeOK, CountersOK, Pending, Waiting
<1>2. link \in EL!Link
  BY SMT DEF link, EL!Link, Inv, TypeOK, SocketsOK
<1> QED
  BY <1>1, <1>2 DEF tally, EL!Tallies

\* Every step of the loop is a step of the ledger, or changes nothing there.
LEMMA TallySteps == Inv /\ Held /\ [Next]_vars => [EL!Next]_tally
<1> SUFFICES ASSUME Inv, Held, [Next]_vars
             PROVE  EL!Next \/ UNCHANGED tally
  OBVIOUS
<1>0. CountersOK /\ SocketsOK /\ Connections /\ AtMostOneConnection
  BY DEF Inv, TypeOK
<1> DEFINE Same == UNCHANGED <<received, drops, reconnects, failures, link>>
           Counted(n) == sent' - Waiting' = sent - Waiting + n
           Lost ==
             /\ drops' = drops + 1 /\ failures' = failures + 1
             /\ link' = "redialling"
             /\ UNCHANGED <<received, reconnects>>
<1>s. ASSUME Same, sent' - Waiting' = sent - Waiting PROVE UNCHANGED tally
  BY <1>s DEF tally
<1>t. tally \in EL!Tallies /\ tally' \in EL!Tallies
  <2>1. Inv'
    BY NextInv
  <2>2. (tally \in EL!Tallies)'
    BY <2>1, TallyTyped, PTL
  <2> QED
    BY <2>2, TallyTyped
<1>k. /\ tally.sent = sent - Waiting /\ tally.received = received
      /\ tally.drops = drops /\ tally.reconnects = reconnects
      /\ tally.failures = failures /\ tally.link = link
      /\ tally'.sent = sent' - Waiting' /\ tally'.received = received'
      /\ tally'.drops = drops' /\ tally'.reconnects = reconnects'
      /\ tally'.failures = failures' /\ tally'.link = link'
  BY DEF tally
<1>u. ASSUME Lost, sent' - Waiting' = sent - Waiting PROVE tally' = EL!LostUnsent(tally)
  BY <1>u, <1>t, <1>k DEF EL!LostUnsent, EL!Count, EL!Linked, EL!Tallies, EL!Link
<1>l. ASSUME Lost, Counted(1) PROVE tally' = EL!LostSent(tally)
  BY <1>l, <1>t, <1>k DEF EL!LostSent, EL!LostUnsent, EL!Count, EL!Linked, EL!Tallies, EL!Link
<1> HIDE DEF Same, Lost, Counted
<1> USE DEF Held, CountersOK, SocketsOK, Connections, AtMostOneConnection,
            Waiting, LinkRules
<1>1. CASE Dial
  <2>1. tally = EL!Undialled /\ link = "undialled"
    BY <1>0, <1>1, Links DEF Dial, tally, EL!Undialled
  <2>2. CASE Connected
    <3>1. /\ link' = "up" /\ sent' = 0 /\ Waiting' = 0
          /\ UNCHANGED <<received, drops, reconnects, failures>>
      BY <1>0, <1>1, <2>2, Links DEF Dial, Connected, NotConnected
    <3>2. tally' = EL!Started(tally)
      BY <1>0, <1>1, <1>t, <1>k, <3>1 DEF Dial, EL!Started, EL!Count, EL!Linked, EL!Tallies, EL!Link
    <3> QED
      BY <1>k, <2>1, <3>2 DEF EL!Next, EL!Step
  <2>3. CASE NotConnected
    <3>1. /\ link' = "never" /\ sent' = 0 /\ Waiting' = 0
          /\ failures' = failures + 1
          /\ UNCHANGED <<received, drops, reconnects>>
      BY <1>0, <1>1, <2>3, Links DEF Dial, Connected, NotConnected
    <3>2. tally' = EL!NoTest(tally)
      BY <1>0, <1>1, <1>t, <1>k, <3>1 DEF Dial, EL!NoTest, EL!Count, EL!Linked, EL!Tallies, EL!Link
    <3> QED
      BY <1>k, <2>1, <3>2 DEF EL!Next, EL!Step
  <2> QED
    BY <1>1, <2>2, <2>3 DEF Dial
<1>2. CASE Send
  BY <1>0, <1>2, <1>s, Links DEF Send, StartRound, sockets, Same
<1>3. CASE WriteFails
  <2>1. /\ link \in {"up", "closed"} /\ Lost
        /\ sent' - Waiting' = sent - Waiting
    BY <1>0, <1>3, Links DEF WriteFails, StartRound, Drop, Lost
  <2> QED
    BY <1>k, <1>u, <2>1 DEF EL!Next, EL!Step, EL!Losses
<1>4. CASE Read
  <2>0. loop = "read" /\ link = "up"
    BY <1>0, <1>4, Links DEF Read
  <2>1. CASE Drop /\ UNCHANGED received
    <3>1. Lost /\ Counted(1)
      BY <1>0, <1>4, <2>0, <2>1, Links DEF Read, Drop, Lost, Counted
    <3> QED
      BY <1>k, <1>l, <2>0, <3>1 DEF EL!Next, EL!Step, EL!Losses
  <2>2. CASE /\ received' = received + 1 /\ loop' = "select"
             /\ UNCHANGED <<drops, failures, sockets>>
    <3>1. /\ sent' - Waiting' = sent - Waiting + 1 /\ link' = "up"
          /\ received' = received + 1
          /\ UNCHANGED <<drops, reconnects, failures>>
      BY <1>0, <1>4, <2>0, <2>2, Links DEF Read, sockets
    <3>2. tally' = EL!Answered(tally)
      BY <1>t, <1>k, <2>0, <3>1 DEF EL!Answered, EL!Count, EL!Linked, EL!Tallies, EL!Link
    <3> QED
      BY <1>k, <2>0, <3>2 DEF EL!Next, EL!Step
  <2> QED
    BY <1>4, <2>1, <2>2 DEF Read, sockets
<1>5. CASE ReadFails
  <2>0. link = "up" /\ Lost /\ Counted(1)
    BY <1>0, <1>5, Links DEF ReadFails, Drop, Lost, Counted
  <2> QED
    BY <1>k, <1>l, <2>0 DEF EL!Next, EL!Step, EL!Losses
<1>6. CASE Return
  BY <1>0, <1>6, <1>s, Links DEF Return, counters, Same
<1>7. ASSUME NEW allowed \in BOOLEAN, Redial(allowed) PROVE EL!Next
  <2>0. /\ link = "redialling" /\ loop = "redial" /\ loop' = "select"
        /\ UNCHANGED <<sent, received, drops>>
    BY <1>7, Links DEF Redial
  <2>1. CASE Connected /\ reconnects' = reconnects + 1 /\ UNCHANGED failures
    <3>1. tally' = EL!Redialled(tally)
      <4>1. link' = "up"
        BY <1>0, <2>0, <2>1, Links DEF Connected
      <4> QED
        BY <1>t, <1>k, <2>0, <2>1, <4>1
        DEF EL!Redialled, EL!Count, EL!Linked, EL!Tallies, EL!Link
    <3> QED
      BY <1>k, <2>0, <3>1 DEF EL!Next, EL!Step, EL!Redials
  <2>2. CASE NotConnected /\ UNCHANGED reconnects
    <3>1. tally' = EL!NotRedialled(tally)
      <4>1. link' = "closed"
        BY <1>0, <2>0, <2>2, Links DEF NotConnected
      <4> QED
        BY <1>t, <1>k, <2>0, <2>2, <4>1
        DEF NotConnected, EL!NotRedialled, EL!Count, EL!Linked, EL!Tallies, EL!Link
    <3> QED
      BY <1>k, <2>0, <3>1 DEF EL!Next, EL!Step, EL!Redials
  <2> QED
    BY <1>7, <2>1, <2>2 DEF Redial
<1>8. CASE Tick \/ Expire \/ Break
  <2>1. UNCHANGED <<loop, conn, open, counters>>
    BY <1>8 DEF Tick, Expire, Break, sockets
  <2>2. UNCHANGED link
    BY <2>1 DEF link, counters
  <2> QED
    BY <1>s, <2>1, <2>2 DEF counters, Same
<1>9. CASE UNCHANGED vars
  <2>1. UNCHANGED <<loop, conn, open, counters>>
    BY <1>9 DEF vars, sockets
  <2>2. UNCHANGED link
    BY <2>1 DEF link, counters
  <2> QED
    BY <1>s, <2>1, <2>2 DEF counters, Same
<1> QED
  BY <1>1, <1>2, <1>3, <1>4, <1>5, <1>6, <1>7, <1>8, <1>9
  DEF Next, Test, RunStability, TCPRunStability, WSRunStability, Round, Returned

\* The echo tests keep the ledger of EchoLedger, whatever connections break and
\* however many rounds they have.
THEOREM KeepsLedger == Spec => ImplementsEchoLedger
<1>1. Spec => EL!Init
  BY InitTally DEF Spec
<1> QED
  BY <1>1, TallySteps, Holding, PTL DEF Spec, ImplementsEchoLedger, EL!Spec

-----------------------------------------------------------------------------
\* The sums that hold of every tally of an echo test.
LEMMA UndialledConsistent == EL!Consistent(EL!Undialled)
BY DEF EL!Consistent, EL!Undialled, EL!Tallies, EL!Link, EL!Redialling, EL!Refused

Counters == {"sent", "received", "drops", "reconnects", "failures"}

\* What a count leaves: the sums of a tally and one counter, field by field.
LEMMA CountFields ==
  ASSUME NEW t \in EL!Tallies, NEW c \in Counters
  PROVE  LET u == EL!Count(t, c)
         IN  /\ u \in EL!Tallies
             /\ u.sent       = IF c = "sent" THEN t.sent + 1 ELSE t.sent
             /\ u.received   = IF c = "received" THEN t.received + 1 ELSE t.received
             /\ u.drops      = IF c = "drops" THEN t.drops + 1 ELSE t.drops
             /\ u.reconnects = IF c = "reconnects" THEN t.reconnects + 1 ELSE t.reconnects
             /\ u.failures   = IF c = "failures" THEN t.failures + 1 ELSE t.failures
             /\ u.link = t.link
<1>1. EL!Count(t, c) \in EL!Tallies
  BY DEF EL!Count, EL!Tallies, Counters
<1> QED
  BY <1>1 DEF EL!Count, EL!Tallies, Counters

LEMMA LinkedFields ==
  ASSUME NEW t \in EL!Tallies, NEW l \in EL!Link
  PROVE  LET u == EL!Linked(t, l)
         IN  /\ u \in EL!Tallies
             /\ u.sent = t.sent /\ u.received = t.received /\ u.drops = t.drops
             /\ u.reconnects = t.reconnects /\ u.failures = t.failures
             /\ u.link = l
BY DEF EL!Linked, EL!Tallies, EL!Link

LEMMA LostFields ==
  ASSUME NEW t \in EL!Tallies
  PROVE  LET u == EL!LostUnsent(t)
         IN  /\ u \in EL!Tallies
             /\ u.sent = t.sent /\ u.received = t.received
             /\ u.drops = t.drops + 1 /\ u.failures = t.failures + 1
             /\ u.reconnects = t.reconnects
             /\ u.link = "redialling"
<1> DEFINE d == EL!Count(t, "drops")
           f == EL!Count(d, "failures")
<1>1. /\ d \in EL!Tallies /\ d.drops = t.drops + 1 /\ d.failures = t.failures
      /\ d.sent = t.sent /\ d.received = t.received /\ d.reconnects = t.reconnects
  BY CountFields DEF Counters
<1> HIDE DEF d
<1>2. /\ f \in EL!Tallies /\ f.drops = d.drops /\ f.failures = d.failures + 1
      /\ f.sent = d.sent /\ f.received = d.received /\ f.reconnects = d.reconnects
  BY <1>1, CountFields DEF Counters
<1> HIDE DEF f
<1>3. /\ EL!Linked(f, "redialling") \in EL!Tallies
      /\ EL!Linked(f, "redialling").sent = f.sent
      /\ EL!Linked(f, "redialling").received = f.received
      /\ EL!Linked(f, "redialling").drops = f.drops
      /\ EL!Linked(f, "redialling").reconnects = f.reconnects
      /\ EL!Linked(f, "redialling").failures = f.failures
      /\ EL!Linked(f, "redialling").link = "redialling"
  BY <1>2, LinkedFields DEF EL!Link
<1>4. EL!LostUnsent(t) = EL!Linked(f, "redialling")
  BY DEF EL!LostUnsent, f, d
<1> QED
  BY <1>1, <1>2, <1>3, <1>4

\* A step keeps the sums: a lost round counts a drop and a failure, and either a
\* reconnect or a second failure follows.
LEMMA StepConsistent ==
  ASSUME NEW t, NEW u, EL!Consistent(t), EL!Step(t, u)
  PROVE  EL!Consistent(u)
<1>0. /\ t \in EL!Tallies
      /\ t.sent \in Nat /\ t.received \in Nat /\ t.drops \in Nat
      /\ t.reconnects \in Nat /\ t.failures \in Nat
  BY DEF EL!Consistent, EL!Tallies
<1>1. ASSUME t.link = "undialled", u = EL!Started(t) PROVE EL!Consistent(u)
  <2>1. /\ u \in EL!Tallies /\ u.sent = t.sent /\ u.received = t.received
        /\ u.drops = t.drops /\ u.reconnects = t.reconnects
        /\ u.failures = t.failures /\ u.link = "up"
    BY <1>0, <1>1, LinkedFields DEF EL!Started, EL!Link
  <2> QED
    BY <1>0, <1>1, <2>1 DEF EL!Consistent, EL!Redialling, EL!Refused
<1>2. ASSUME t.link = "undialled", u = EL!NoTest(t) PROVE EL!Consistent(u)
  <2> DEFINE n == EL!Linked(t, "never")
  <2>1. /\ n \in EL!Tallies /\ n.sent = t.sent /\ n.received = t.received
        /\ n.drops = t.drops /\ n.reconnects = t.reconnects
        /\ n.failures = t.failures /\ n.link = "never"
    BY <1>0, LinkedFields DEF EL!Link
  <2>2. u = EL!Count(n, "failures")
    BY <1>2 DEF EL!NoTest
  <2> HIDE DEF n
  <2>3. /\ u \in EL!Tallies /\ u.sent = t.sent /\ u.received = t.received
        /\ u.drops = t.drops /\ u.reconnects = t.reconnects
        /\ u.failures = t.failures + 1 /\ u.link = "never"
    BY <2>1, <2>2, CountFields DEF Counters
  <2> QED
    BY <1>0, <1>2, <2>3 DEF EL!Consistent, EL!Redialling, EL!Refused
<1>3. ASSUME t.link = "up", u = EL!Answered(t) PROVE EL!Consistent(u)
  <2> DEFINE n == EL!Count(t, "sent")
  <2>1. /\ n \in EL!Tallies /\ n.sent = t.sent + 1 /\ n.received = t.received
        /\ n.drops = t.drops /\ n.reconnects = t.reconnects
        /\ n.failures = t.failures /\ n.link = "up"
    BY <1>0, <1>3, CountFields DEF Counters
  <2>2. u = EL!Count(n, "received")
    BY <1>3 DEF EL!Answered
  <2> HIDE DEF n
  <2>3. /\ u \in EL!Tallies /\ u.sent = t.sent + 1 /\ u.received = t.received + 1
        /\ u.drops = t.drops /\ u.reconnects = t.reconnects
        /\ u.failures = t.failures /\ u.link = "up"
    BY <2>1, <2>2, CountFields DEF Counters
  <2> QED
    BY <1>0, <1>3, <2>3 DEF EL!Consistent, EL!Redialling, EL!Refused
<1>4. ASSUME t.link \in {"up", "closed"}, u = EL!LostUnsent(t) PROVE EL!Consistent(u)
  BY <1>0, <1>4, LostFields DEF EL!Consistent, EL!Redialling, EL!Refused
<1>5. ASSUME t.link = "up", u = EL!LostSent(t) PROVE EL!Consistent(u)
  <2> DEFINE n == EL!Count(t, "sent")
  <2>1. /\ n \in EL!Tallies /\ n.sent = t.sent + 1 /\ n.received = t.received
        /\ n.drops = t.drops /\ n.reconnects = t.reconnects
        /\ n.failures = t.failures
    BY <1>0, CountFields DEF Counters
  <2>2. u = EL!LostUnsent(n)
    BY <1>5 DEF EL!LostSent
  <2> HIDE DEF n
  <2>3. /\ u \in EL!Tallies /\ u.sent = t.sent + 1 /\ u.received = t.received
        /\ u.drops = t.drops + 1 /\ u.failures = t.failures + 1
        /\ u.reconnects = t.reconnects /\ u.link = "redialling"
    BY <2>1, <2>2, LostFields
  <2> QED
    BY <1>0, <1>5, <2>3 DEF EL!Consistent, EL!Redialling, EL!Refused
<1>6. ASSUME t.link = "redialling", u = EL!Redialled(t) PROVE EL!Consistent(u)
  <2> DEFINE n == EL!Linked(t, "up")
  <2>1. /\ n \in EL!Tallies /\ n.sent = t.sent /\ n.received = t.received
        /\ n.drops = t.drops /\ n.reconnects = t.reconnects
        /\ n.failures = t.failures /\ n.link = "up"
    BY <1>0, LinkedFields DEF EL!Link
  <2>2. u = EL!Count(n, "reconnects")
    BY <1>6 DEF EL!Redialled
  <2> HIDE DEF n
  <2>3. /\ u \in EL!Tallies /\ u.sent = t.sent /\ u.received = t.received
        /\ u.drops = t.drops /\ u.reconnects = t.reconnects + 1
        /\ u.failures = t.failures /\ u.link = "up"
    BY <2>1, <2>2, CountFields DEF Counters
  <2> QED
    BY <1>0, <1>6, <2>3 DEF EL!Consistent, EL!Redialling, EL!Refused
<1>7. ASSUME t.link = "redialling", u = EL!NotRedialled(t) PROVE EL!Consistent(u)
  <2> DEFINE n == EL!Linked(t, "closed")
  <2>1. /\ n \in EL!Tallies /\ n.sent = t.sent /\ n.received = t.received
        /\ n.drops = t.drops /\ n.reconnects = t.reconnects
        /\ n.failures = t.failures /\ n.link = "closed"
    BY <1>0, LinkedFields DEF EL!Link
  <2>2. u = EL!Count(n, "failures")
    BY <1>7 DEF EL!NotRedialled
  <2> HIDE DEF n
  <2>3. /\ u \in EL!Tallies /\ u.sent = t.sent /\ u.received = t.received
        /\ u.drops = t.drops /\ u.reconnects = t.reconnects
        /\ u.failures = t.failures + 1 /\ u.link = "closed"
    BY <2>1, <2>2, CountFields DEF Counters
  <2> QED
    BY <1>0, <1>7, <2>3 DEF EL!Consistent, EL!Redialling, EL!Refused
<1> QED
  BY <1>1, <1>2, <1>3, <1>4, <1>5, <1>6, <1>7 DEF EL!Step, EL!Losses, EL!Redials

\* Whatever the rounds of an echo test were, the counters of its result add up,
\* while it runs and at its end: these are the sums that the scores rely on
\* (tcp/client.go:69-134, websocketx/websocket.go:155-218).
THEOREM TalliesConsistent == Spec => []EL!Consistent(tally)
<1>1. EL!Init => EL!Consistent(tally)
  BY UndialledConsistent DEF EL!Init
<1>2. EL!Consistent(tally) /\ [EL!Next]_tally => EL!Consistent(tally)'
  BY StepConsistent DEF EL!Next
<1> QED
  BY <1>1, <1>2, KeepsLedger, PTL DEF ImplementsEchoLedger, EL!Spec
=============================================================================
