--------------------------- MODULE UDPProbeProofs ---------------------------
(***************************************************************************)
(* What the UDP test reports as received was echoed, for any number of     *)
(* rounds and whatever the network does.                                   *)
(***************************************************************************)
EXTENDS UDPProbeProperties, SumProofs

USE UDPProbeAssumption

\* The counters within a round; a tick starts a round that the bound allows.
Rounds ==
  /\ tick => seq < MaxSeq
  /\ received + timeouts + (IF loop = "read" THEN 1 ELSE 0) <= sent

\* Replies exist of echoed datagrams only.
Echoes ==
  /\ \A i \in Datagram : down[i] > 0 => i \in echoed
  /\ \A k \in 1 .. Len(socket) : socket[k] \in echoed

\* The rounds that have ended.
Ended == IF loop = "read" THEN 1 .. seq - 1 ELSE 1 .. seq

\* Every reply that counted answered a round of its own.
Counted == received <= Cardinality(echoed \cap Ended)

Inv == TypeOK /\ Rounds /\ Echoes /\ Counted

-----------------------------------------------------------------------------
\* Subsets of the datagrams are finite, and larger ones have as many members.
LEMMA Sizes ==
  ASSUME NEW S \in SUBSET Datagram, NEW T \in SUBSET S
  PROVE  /\ IsFiniteSet(S) /\ IsFiniteSet(T)
         /\ Cardinality(S) \in Nat /\ Cardinality(T) \in Nat
         /\ Cardinality(T) <= Cardinality(S)
<1>1. IsFiniteSet(Datagram)
  BY FS_Interval DEF Datagram
<1>2. IsFiniteSet(S)
  BY <1>1, FS_Subset
<1> QED BY <1>2, FS_Subset, FS_CardinalityType

LEMMA OneMore ==
  ASSUME NEW S \in SUBSET Datagram, NEW i \in S, NEW T \in SUBSET (S \ {i})
  PROVE  Cardinality(T) + 1 <= Cardinality(S)
<1>1. /\ IsFiniteSet(T) /\ Cardinality(T) \in Nat
  BY Sizes
<1>2. Cardinality(T \cup {i}) = Cardinality(T) + 1
  BY <1>1, FS_AddElement
<1>3. Cardinality(T \cup {i}) <= Cardinality(S)
  BY Sizes, T \cup {i} \subseteq S
<1> QED BY <1>2, <1>3

LEMMA InitInv == Init => Inv
<1> SUFFICES ASSUME Init PROVE Inv
  OBVIOUS
<1>1. FlagsOK /\ ~tick
  BY Zenon DEF Init, FlagsOK
<1>2. TypeOK
  BY <1>1 DEF Init, TypeOK
<1>3. Rounds /\ Echoes
  BY <1>1 DEF Init, Rounds, Echoes
<1>4. echoed \cap Ended \subseteq Datagram /\ received = 0
  BY DEF Init
<1>5. Counted
  BY <1>4, Sizes DEF Counted
<1> QED BY <1>2, <1>3, <1>5 DEF Inv

\* What counted still counts when datagrams are echoed or rounds end.
LEMMA CountedGrows ==
  ASSUME Counted, TypeOK, received' = received,
         echoed \subseteq echoed', echoed' \subseteq Datagram, Ended \subseteq Ended'
  PROVE  Counted'
<1>1. echoed \cap Ended \in SUBSET (echoed' \cap Ended')
  OBVIOUS
<1>2. echoed' \cap Ended' \in SUBSET Datagram
  OBVIOUS
<1>3. Cardinality(echoed \cap Ended) <= Cardinality(echoed' \cap Ended')
  BY <1>1, <1>2, Sizes
<1>4. /\ Cardinality(echoed \cap Ended) \in Nat
      /\ Cardinality(echoed' \cap Ended') \in Nat
      /\ received \in Nat
  BY <1>1, <1>2, Sizes DEF TypeOK
<1> QED BY <1>3, <1>4 DEF Counted

\* RunEcho and its clock.
LEMMA TestKeeps == Inv /\ (RunEcho \/ Tick \/ Expire) => Inv'
<1> SUFFICES ASSUME Inv, RunEcho \/ Tick \/ Expire PROVE Inv'
  OBVIOUS
<1>0. TypeOK /\ FlagsOK /\ Rounds /\ Echoes /\ Counted
  BY DEF Inv, TypeOK
<1>1. CASE Dial
  <2>1. /\ UNCHANGED <<seq, sent, received, timeouts, tick, ctxDone, up, down,
                        copied, dropped, echoed, socket>>
        /\ loop = "dial" /\ loop' \in {"select", "returned"}
    BY <1>1, Zenon DEF Dial, counters, network
  <2>2. FlagsOK'
    BY <1>0, <2>1, Zenon DEF FlagsOK
  <2>3. TypeOK' /\ Rounds' /\ Echoes'
    BY <1>0, <2>1, <2>2 DEF TypeOK, Rounds, Echoes
  <2>4. Ended' = Ended
    BY <2>1 DEF Ended
  <2> QED BY <1>0, <2>1, <2>3, <2>4, CountedGrows DEF Inv, TypeOK
<1>2. CASE Send
  <2>1. /\ UNCHANGED <<received, timeouts, ctxDone, down, copied, dropped, echoed, socket>>
        /\ loop = "select" /\ loop' = "read"
        /\ tick /\ ~tick' /\ tick' = FALSE
        /\ seq' = seq + 1 /\ sent' = sent + 1
        /\ up' = [up EXCEPT ![seq + 1] = @ + 1]
    BY <1>2, Zenon DEF Send
  <2>2. FlagsOK'
    BY <1>0, <2>1, Zenon DEF FlagsOK
  <2>3. seq + 1 \in Datagram
    BY <1>0, <2>1 DEF TypeOK, Rounds, Datagram
  <2>4. up' \in [Datagram -> Nat]
    BY <1>0, <2>1, <2>3 DEF TypeOK
  <2>5. TypeOK' /\ Rounds' /\ Echoes'
    BY <1>0, <2>1, <2>2, <2>3, <2>4 DEF TypeOK, Rounds, Echoes, Datagram
  <2>6. Ended' = Ended
    BY <1>0, <2>1 DEF Ended, TypeOK
  <2> QED BY <1>0, <2>1, <2>5, <2>6, CountedGrows DEF Inv, TypeOK
<1>3. CASE WriteFails
  <2>1. /\ UNCHANGED <<loop, sent, received, timeouts, ctxDone, up, down,
                        copied, dropped, echoed, socket>>
        /\ loop = "select"
        /\ tick /\ ~tick' /\ tick' = FALSE
        /\ seq' = seq + 1
    BY <1>3, Zenon DEF WriteFails, network
  <2>2. FlagsOK'
    BY <1>0, <2>1, Zenon DEF FlagsOK
  <2>3. TypeOK' /\ Rounds' /\ Echoes'
    BY <1>0, <2>1, <2>2 DEF TypeOK, Rounds, Echoes
  <2>4. Ended \subseteq Ended'
    BY <1>0, <2>1 DEF Ended, TypeOK
  <2> QED BY <1>0, <2>1, <2>3, <2>4, CountedGrows DEF Inv, TypeOK
<1>4. CASE Read
  <2>1. /\ UNCHANGED <<seq, sent, timeouts, tick, ctxDone, up, down,
                        copied, dropped, echoed>>
        /\ loop = "read" /\ loop' = "select"
        /\ socket # <<>> /\ socket' = Tail(socket)
        /\ received' = IF Head(socket) = seq THEN received + 1 ELSE received
    BY <1>4, Zenon DEF Read, network
  <2>2. FlagsOK'
    BY <1>0, <2>1, Zenon DEF FlagsOK
  <2>3. /\ Head(socket) \in echoed
        /\ socket' \in Seq(Datagram)
        /\ \A k \in 1 .. Len(socket') : socket'[k] \in echoed
    BY <1>0, <2>1 DEF TypeOK, Echoes
  <2>4. TypeOK' /\ Rounds' /\ Echoes'
    BY <1>0, <2>1, <2>2, <2>3 DEF TypeOK, Rounds, Echoes
  <2>5. /\ Ended = 1 .. seq - 1 /\ Ended' = 1 .. seq
        /\ seq \in Nat /\ received \in Nat /\ echoed \subseteq Datagram
    BY <1>0, <2>1 DEF Ended, TypeOK
  <2>6. CASE Head(socket) = seq
    <3>1. seq \in echoed \cap (1 .. seq)
      BY <2>3, <2>5, <2>6 DEF Datagram
    <3>2. echoed \cap (1 .. seq - 1) \in SUBSET ((echoed \cap (1 .. seq)) \ {seq})
      BY <2>5
    <3>3. Cardinality(echoed \cap (1 .. seq - 1)) + 1 <= Cardinality(echoed \cap (1 .. seq))
      BY <2>5, <3>1, <3>2, OneMore
    <3>4. /\ Cardinality(echoed \cap (1 .. seq - 1)) \in Nat
          /\ Cardinality(echoed \cap (1 .. seq)) \in Nat
      BY <2>5, Sizes
    <3>5. received' = received + 1 /\ echoed' = echoed
      BY <2>1, <2>6
    <3>6. Counted'
      BY <1>0, <2>5, <3>3, <3>4, <3>5 DEF Counted
    <3> QED BY <2>4, <3>6 DEF Inv
  <2>7. CASE Head(socket) # seq
    <3>1. received' = received /\ Ended \subseteq Ended'
      BY <2>1, <2>5, <2>7
    <3> QED BY <1>0, <2>1, <2>4, <2>5, <3>1, CountedGrows DEF Inv
  <2> QED BY <2>6, <2>7
<1>5. CASE ReadFails
  <2>1. /\ UNCHANGED <<seq, sent, received, tick, ctxDone, up, down,
                        copied, dropped, echoed, socket>>
        /\ loop = "read" /\ loop' = "select"
        /\ timeouts' = timeouts + 1
    BY <1>5, Zenon DEF ReadFails, network
  <2>2. FlagsOK'
    BY <1>0, <2>1, Zenon DEF FlagsOK
  <2>3. TypeOK' /\ Rounds' /\ Echoes'
    BY <1>0, <2>1, <2>2 DEF TypeOK, Rounds, Echoes
  <2>4. Ended \subseteq Ended'
    BY <1>0, <2>1 DEF Ended, TypeOK
  <2> QED BY <1>0, <2>1, <2>3, <2>4, CountedGrows DEF Inv, TypeOK
<1>6. CASE Return
  <2>1. /\ UNCHANGED <<seq, sent, received, timeouts, tick, ctxDone, up, down,
                        copied, dropped, echoed, socket>>
        /\ loop = "select" /\ loop' = "returned"
    BY <1>6, Zenon DEF Return, counters, network
  <2>2. FlagsOK'
    BY <1>0, <2>1, Zenon DEF FlagsOK
  <2>3. TypeOK' /\ Rounds' /\ Echoes'
    BY <1>0, <2>1, <2>2 DEF TypeOK, Rounds, Echoes
  <2>4. Ended' = Ended
    BY <2>1 DEF Ended
  <2> QED BY <1>0, <2>1, <2>3, <2>4, CountedGrows DEF Inv, TypeOK
<1>7. CASE Tick \/ Expire
  <2>1. /\ UNCHANGED <<loop, seq, sent, received, timeouts, up, down,
                        copied, dropped, echoed, socket>>
        /\ tick' = tick \/ seq < MaxSeq
    BY <1>7, Zenon DEF Tick, Expire, counters, network
  <2>2. FlagsOK'
    BY <1>0, <1>7, Zenon DEF FlagsOK, Tick, Expire
  <2>3. TypeOK' /\ Rounds' /\ Echoes'
    BY <1>0, <2>1, <2>2 DEF TypeOK, Rounds, Echoes
  <2>4. Ended' = Ended
    BY <2>1 DEF Ended
  <2> QED BY <1>0, <2>1, <2>3, <2>4, CountedGrows DEF Inv, TypeOK
<1> QED BY <1>1, <1>2, <1>3, <1>4, <1>5, <1>6, <1>7 DEF RunEcho

\* The network and the server.
LEMMA NetworkKeeps == Inv /\ Network => Inv'
<1> SUFFICES ASSUME Inv, NEW i \in Datagram, Echo(i) \/ Deliver(i) \/ Lose(i) \/ Copy(i)
             PROVE  Inv'
  BY DEF Network
<1>0. TypeOK /\ FlagsOK /\ Rounds /\ Echoes /\ Counted
  BY DEF Inv, TypeOK
<1>1. UNCHANGED <<loop, seq, sent, received, timeouts, tick, ctxDone>>
  BY Zenon DEF Echo, Deliver, Lose, Copy, counters
<1>2. FlagsOK'
  BY <1>0, <1>1, Zenon DEF FlagsOK
<1>3. Rounds'
  BY <1>0, <1>1 DEF Rounds
<1>4. Ended' = Ended
  BY <1>1 DEF Ended
<1>5. /\ up' \in [Datagram -> Nat] /\ down' \in [Datagram -> Nat]
      /\ socket' \in Seq(Datagram)
      /\ copied' \in 0 .. MaxCopies /\ dropped' \in Nat
      /\ echoed \subseteq echoed' /\ echoed' \subseteq Datagram
      /\ Echoes'
  <2>1. CASE Echo(i)
    BY <1>0, <2>1 DEF Echo, TypeOK, Echoes
  <2>2. CASE Deliver(i)
    BY <1>0, <2>2 DEF Deliver, TypeOK, Echoes
  <2>3. CASE Lose(i)
    <3>1. /\ UNCHANGED <<echoed, socket>>
          /\ dropped' = dropped + 1 /\ UNCHANGED copied
      BY <2>3 DEF Lose
    <3>2. CASE up[i] > 0 /\ up' = [up EXCEPT ![i] = @ - 1] /\ UNCHANGED down
      BY <1>0, <3>1, <3>2 DEF TypeOK, Echoes
    <3>3. CASE down[i] > 0 /\ down' = [down EXCEPT ![i] = @ - 1] /\ UNCHANGED up
      <4>1. i \in echoed /\ down' \in [Datagram -> Nat]
        BY <1>0, <3>3 DEF TypeOK, Echoes
      <4>2. \A j \in Datagram : j # i => down'[j] = down[j]
        BY <1>0, <3>3 DEF TypeOK
      <4> QED BY <1>0, <3>1, <3>3, <4>1, <4>2 DEF TypeOK, Echoes
    <3> QED BY <2>3, <3>2, <3>3 DEF Lose
  <2>4. CASE Copy(i)
    <3>1. /\ UNCHANGED <<echoed, socket>>
          /\ copied < MaxCopies /\ copied' = copied + 1 /\ UNCHANGED dropped
      BY <2>4 DEF Copy
    <3>2. CASE up[i] > 0 /\ up' = [up EXCEPT ![i] = @ + 1] /\ UNCHANGED down
      BY <1>0, <3>1, <3>2 DEF TypeOK, Echoes
    <3>3. CASE down[i] > 0 /\ down' = [down EXCEPT ![i] = @ + 1] /\ UNCHANGED up
      <4>1. i \in echoed /\ down' \in [Datagram -> Nat]
        BY <1>0, <3>3 DEF TypeOK, Echoes
      <4>2. \A j \in Datagram : j # i => down'[j] = down[j]
        BY <1>0, <3>3 DEF TypeOK
      <4> QED BY <1>0, <3>1, <3>3, <4>1, <4>2 DEF TypeOK, Echoes
    <3> QED BY <2>4, <3>2, <3>3 DEF Copy
  <2> QED BY <2>1, <2>2, <2>3, <2>4
<1>6. TypeOK'
  BY <1>0, <1>1, <1>2, <1>5 DEF TypeOK
<1>7. Counted'
  BY <1>0, <1>1, <1>4, <1>5, CountedGrows
<1> QED BY <1>3, <1>5, <1>6, <1>7 DEF Inv

LEMMA NextInv == Inv /\ [Next]_vars => Inv'
<1> SUFFICES ASSUME Inv, UNCHANGED vars PROVE Inv'
  BY TestKeeps, NetworkKeeps DEF Next, Returned
<1>1. UNCHANGED <<loop, seq, sent, received, timeouts, tick, ctxDone, up, down,
                  copied, dropped, echoed, socket>>
  BY Zenon DEF vars, counters, network
<1>2. FlagsOK'
  BY <1>1, Zenon DEF Inv, TypeOK, FlagsOK
<1> QED BY <1>1, <1>2 DEF Inv, TypeOK, Rounds, Echoes, Counted, Ended

LEMMA Invariance == Spec => []Inv
BY InitInv, NextInv, PTL DEF Spec

-----------------------------------------------------------------------------
\* Every variable of the UDP test keeps its type, whatever the network does
\* (udp/client.go:22-66).
THEOREM TypeCorrect == Spec => []TypeOK
<1>1. Inv => TypeOK
  BY DEF Inv
<1> QED BY <1>1, Invariance, PTL

\* A packet is reported as received only if the server echoed it, and once at
\* most (udp/client.go:58).
THEOREM ReceivedIsEchoed == Spec => []ReceivedWasEchoed
<1>1. Inv => ReceivedWasEchoed
  <2> SUFFICES ASSUME Inv PROVE ReceivedWasEchoed
    OBVIOUS
  <2>1. echoed \in SUBSET Datagram /\ echoed \cap Ended \in SUBSET echoed
    BY DEF Inv, TypeOK
  <2>2. received \in Nat /\ received <= Cardinality(echoed \cap Ended)
    BY DEF Inv, TypeOK, Counted
  <2> QED BY <2>1, <2>2, Sizes DEF ReceivedWasEchoed
<1> QED BY <1>1, Invariance, PTL
-----------------------------------------------------------------------------
\* What one more or one fewer copy of a datagram does to the sum.
LEMMA CopiesChange ==
  ASSUME NEW f \in [Datagram -> Nat], NEW i \in Datagram, NEW n \in Nat
  PROVE  /\ Total(f) \in Int
         /\ Total([f EXCEPT ![i] = n]) = Total(f) + n - f[i]
<1> DEFINE g == [f EXCEPT ![i] = n]
<1>1. IsFiniteSet(Datagram)
  BY FS_Interval DEF Datagram
<1>2. f \in [Datagram -> Int] /\ g \in [Datagram -> Int]
  OBVIOUS
<1>3. g[i] = n /\ \A j \in Datagram \ {i} : g[j] = f[j]
  OBVIOUS
<1> HIDE DEF g
<1>4. Total(f) \in Int
  BY <1>1, <1>2, TotalType
<1>5. Total(g) = Total(f) + g[i] - f[i]
  BY <1>1, <1>2, <1>3, TotalChange
<1> QED BY <1>3, <1>4, <1>5 DEF g

LEMMA OneCopyMore ==
  ASSUME NEW f \in [Datagram -> Nat], NEW i \in Datagram
  PROVE  Total([f EXCEPT ![i] = @ + 1]) = Total(f) + 1
<1>1. f[i] \in Nat /\ f[i] + 1 \in Nat
  OBVIOUS
<1>2. Total([f EXCEPT ![i] = f[i] + 1]) = Total(f) + (f[i] + 1) - f[i] /\ Total(f) \in Int
  BY <1>1, CopiesChange
<1>3. [f EXCEPT ![i] = @ + 1] = [f EXCEPT ![i] = f[i] + 1]
  OBVIOUS
<1> QED BY <1>1, <1>2, <1>3

LEMMA OneCopyFewer ==
  ASSUME NEW f \in [Datagram -> Nat], NEW i \in Datagram, f[i] > 0
  PROVE  Total([f EXCEPT ![i] = @ - 1]) = Total(f) - 1
<1>1. f[i] \in Nat /\ f[i] - 1 \in Nat
  OBVIOUS
<1>2. Total([f EXCEPT ![i] = f[i] - 1]) = Total(f) + (f[i] - 1) - f[i] /\ Total(f) \in Int
  BY <1>1, CopiesChange
<1>3. [f EXCEPT ![i] = @ - 1] = [f EXCEPT ![i] = f[i] - 1]
  OBVIOUS
<1> QED BY <1>1, <1>2, <1>3

\* The numbers in the claim are numbers.
LEMMA LagTypes ==
  ASSUME TypeOK
  PROVE  /\ Total(up) \in Int /\ Total(down) \in Int
         /\ Len(socket) \in Nat
         /\ timeouts \in Int /\ copied \in Int /\ dropped \in Int
<1>1. IsFiniteSet(Datagram)
  BY FS_Interval DEF Datagram
<1>2. up \in [Datagram -> Int] /\ down \in [Datagram -> Int]
  BY DEF TypeOK
<1>3. Total(up) \in Int /\ Total(down) \in Int
  BY <1>1, <1>2, TotalType
<1> QED BY <1>3 DEF TypeOK

LEMMA LagInit == Init => LagIsTimeoutsAndCopies
<1> SUFFICES ASSUME Init PROVE LagIsTimeoutsAndCopies
  OBVIOUS
<1>1. IsFiniteSet(Datagram)
  BY FS_Interval DEF Datagram
<1>2. /\ up \in [Datagram -> Int] /\ \A i \in Datagram : up[i] = 0
      /\ down \in [Datagram -> Int] /\ \A i \in Datagram : down[i] = 0
  BY DEF Init
<1>3. Total(up) = 0 /\ Total(down) = 0
  BY <1>1, <1>2, TotalZero
<1>4. loop = "dial" /\ Len(socket) = 0 /\ timeouts = 0 /\ copied = 0 /\ dropped = 0
  BY DEF Init
<1> QED BY <1>3, <1>4 DEF LagIsTimeoutsAndCopies, Behind

LEMMA LagKept == Inv /\ LagIsTimeoutsAndCopies /\ [Next]_vars => LagIsTimeoutsAndCopies'
<1> SUFFICES ASSUME Inv, LagIsTimeoutsAndCopies, [Next]_vars PROVE LagIsTimeoutsAndCopies'
  OBVIOUS
<1> DEFINE Reading == IF loop = "read" THEN 1 ELSE 0
<1>0. /\ TypeOK /\ Rounds
      /\ Len(socket) + Total(up) + Total(down) + dropped = timeouts + copied + Reading
      /\ Total(up) \in Int /\ Total(down) \in Int /\ Len(socket) \in Nat
      /\ timeouts \in Int /\ copied \in Int /\ dropped \in Int
      /\ up \in [Datagram -> Nat] /\ down \in [Datagram -> Nat]
      /\ socket \in Seq(Datagram)
  BY LagTypes DEF Inv, TypeOK, LagIsTimeoutsAndCopies, Behind
<1>8. Len(socket) + Total(up) + Total(down) + dropped = timeouts + copied + Reading
  BY <1>0
<1>9. /\ Total(up) \in Int /\ Total(down) \in Int /\ Len(socket) \in Int
      /\ timeouts \in Int /\ copied \in Int /\ dropped \in Int
  BY <1>0
<1>1. SUFFICES Len(socket') + Total(up') + Total(down') + dropped'
               = timeouts' + copied' + Reading'
  BY DEF LagIsTimeoutsAndCopies, Behind
<1>2. CASE \/ Dial \/ WriteFails \/ Return \/ Tick \/ Expire \/ UNCHANGED vars
  <2>1. /\ UNCHANGED <<timeouts, up, down, copied, dropped, socket>>
        /\ loop = loop' \/ (loop # "read" /\ loop' # "read")
    BY <1>2 DEF Dial, WriteFails, Return, Tick, Expire, vars, counters, network
  <2> QED BY <1>0, <2>1
<1>3. CASE Send
  <2>1. /\ UNCHANGED <<timeouts, down, copied, dropped, socket>>
        /\ loop = "select" /\ loop' = "read" /\ tick
        /\ up' = [up EXCEPT ![seq + 1] = @ + 1]
    BY <1>3, Zenon DEF Send
  <2>2. seq + 1 \in Datagram
    BY <1>0, <2>1 DEF TypeOK, Rounds, Datagram
  <2>3. Total(up') = Total(up) + 1
    BY <1>0, <2>1, <2>2, OneCopyMore
  <2>4. Reading = 0 /\ Reading' = 1
    BY <2>1
  <2> QED BY ONLY <1>0, <2>1, <2>3, <2>4
<1>4. CASE Read
  <2>1. /\ UNCHANGED <<timeouts, up, down, copied, dropped>>
        /\ Reading = 1 /\ Reading' = 0
        /\ socket # <<>> /\ socket' = Tail(socket)
    BY <1>4 DEF Read, network
  <2>2. Len(socket') = Len(socket) - 1
    BY <1>0, <2>1
  <2>3. /\ Total(up') = Total(up) /\ Total(down') = Total(down)
        /\ UNCHANGED <<timeouts, copied, dropped>>
    BY <2>1
  <2>4. Reading = 1 /\ Reading' = 0
    BY <2>1
  <2> HIDE DEF Reading
  <2> QED BY ONLY <1>0, <2>2, <2>3, <2>4
<1>5. CASE ReadFails
  <2>1. /\ UNCHANGED <<up, down, copied, dropped, socket>>
        /\ Reading = 1 /\ Reading' = 0
        /\ timeouts' = timeouts + 1
    BY <1>5 DEF ReadFails, network
  <2> HIDE DEF Reading
  <2> QED BY ONLY <1>0, <2>1
<1>6. CASE Network
  <2>0. PICK i \in Datagram : Echo(i) \/ Deliver(i) \/ Lose(i) \/ Copy(i)
    BY <1>6 DEF Network
  <2>1. UNCHANGED timeouts /\ Reading' = Reading /\ Reading \in Int
    BY <2>0 DEF Echo, Deliver, Lose, Copy, counters
  <2> HIDE DEF Reading
  <2>2. CASE Echo(i)
    <3>1. /\ UNCHANGED <<copied, dropped, socket>> /\ up[i] > 0
          /\ up' = [up EXCEPT ![i] = @ - 1]
          /\ down' = [down EXCEPT ![i] = @ + 1]
      BY <2>2 DEF Echo
    <3>2. Total(up') = Total(up) - 1 /\ Total(down') = Total(down) + 1
      BY <1>0, <3>1, OneCopyMore, OneCopyFewer
    <3> QED BY ONLY <1>8, <1>9, <2>1, <3>1, <3>2
  <2>3. CASE Deliver(i)
    <3>1. /\ UNCHANGED <<copied, dropped, up>> /\ down[i] > 0
          /\ down' = [down EXCEPT ![i] = @ - 1]
          /\ socket' = Append(socket, i)
      BY <2>3 DEF Deliver
    <3>2. Total(down') = Total(down) - 1
      BY <1>0, <3>1, OneCopyFewer
    <3>3. Len(socket') = Len(socket) + 1
      BY <1>0, <3>1
    <3>4. Total(up') = Total(up) /\ UNCHANGED <<copied, dropped>>
      BY <3>1
    <3> QED BY ONLY <1>0, <2>1, <3>2, <3>3, <3>4
  <2>4. CASE Lose(i)
    <3>1. UNCHANGED copied /\ socket' = socket /\ dropped' = dropped + 1
      BY <2>4 DEF Lose
    <3>2. \/ Total(up') = Total(up) - 1 /\ Total(down') = Total(down)
          \/ Total(up') = Total(up) /\ Total(down') = Total(down) - 1
      BY <1>0, <2>4, OneCopyFewer DEF Lose
    <3> QED BY ONLY <1>8, <1>9, <2>1, <3>1, <3>2
  <2>5. CASE Copy(i)
    <3>1. UNCHANGED dropped /\ socket' = socket /\ copied' = copied + 1
      BY <2>5 DEF Copy
    <3>2. \/ Total(up') = Total(up) + 1 /\ Total(down') = Total(down)
          \/ Total(up') = Total(up) /\ Total(down') = Total(down) + 1
      BY <1>0, <2>5, OneCopyMore DEF Copy
    <3> QED BY ONLY <1>8, <1>9, <2>1, <3>1, <3>2
  <2> QED BY <2>0, <2>2, <2>3, <2>4, <2>5
<1>7. Next => \/ Dial \/ Send \/ WriteFails \/ Read \/ ReadFails \/ Return
              \/ Tick \/ Expire \/ Network \/ UNCHANGED vars
  BY Zenon DEF Next, RunEcho, Returned
<1> QED BY <1>2, <1>3, <1>4, <1>5, <1>6, <1>7, Zenon

\* The probe falls behind by one reply for every round that timed out though
\* its reply was only late, and by one for every copy the network made;
\* nothing but a loss lets it catch up (udp/client.go:52-61).
THEOREM LagAccounted == Spec => []LagIsTimeoutsAndCopies
BY LagInit, LagKept, Invariance, PTL DEF Spec
=============================================================================
