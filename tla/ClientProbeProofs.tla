-------------------------- MODULE ClientProbeProofs --------------------------
(***************************************************************************)
(* The client probe judges a complete report, and judges it when no        *)
(* goroutine is left, for every configuration.                             *)
(***************************************************************************)
EXTENDS ClientProbeProperties, FiniteSetTheorems, SequenceTheorems, TLAPS

USE ClientConfigAssumption

-----------------------------------------------------------------------------
\* The order in which main starts its tests: Slot(t) is the position of the
\* group of t in Groups.
LastSlot == Len(TCPPorts) + Len(UDPPorts) + (IF TLSAddress THEN 4 ELSE 3)
Slot(t) ==
  IF t[1] \in {"connect", "stability"} THEN t[2]
  ELSE IF t[1] = "udp" THEN Len(TCPPorts) + t[2]
  ELSE IF t[1] = "http" THEN Len(TCPPorts) + Len(UDPPorts) + 1
  ELSE IF t[1] = "ws" THEN Len(TCPPorts) + Len(UDPPorts) + 2
  ELSE IF t[1] = "tls" THEN Len(TCPPorts) + Len(UDPPorts) + 3
  ELSE LastSlot

LEMMA Lengths ==
  /\ Len(TCPPorts) \in Nat /\ DOMAIN TCPPorts = 1 .. Len(TCPPorts)
  /\ Len(UDPPorts) \in Nat /\ DOMAIN UDPPorts = 1 .. Len(UDPPorts)
BY LenProperties

LEMMA Tabulated ==
  ASSUME NEW S, NEW n \in Nat, NEW f \in [1 .. n -> S]
  PROVE  f \in Seq(S) /\ Len(f) = n
<1>1. f \in Seq(S)
  BY SeqDef
<1> QED BY <1>1, LenProperties

\* u is a sequence of members of S: s, of length a, and behind it t, of length b.
Spliced(S, s, a, t, b, u) ==
  /\ u \in Seq(S) /\ Len(u) = a + b
  /\ \A i \in 1 .. a : u[i] = s[i]
  /\ \A i \in 1 .. b : u[a + i] = t[i]

LEMMA Joined ==
  ASSUME NEW S, NEW s \in Seq(S), NEW t \in Seq(S),
         NEW a \in Nat, NEW b \in Nat, Len(s) = a, Len(t) = b
  PROVE  Spliced(S, s, a, t, b, s \o t)
<1>1. /\ s \o t \in Seq(S) /\ Len(s \o t) = a + b
      /\ \A i \in 1 .. a + b : (s \o t)[i] = IF i <= a THEN s[i] ELSE t[i - a]
  BY ConcatProperties
<1>2. ASSUME NEW i \in 1 .. b PROVE (s \o t)[a + i] = t[i]
  <2>1. a + i \in 1 .. a + b /\ ~(a + i <= a) /\ a + i - a = i
    OBVIOUS
  <2> QED BY <1>1, <2>1
<1> QED BY <1>1, <1>2 DEF Spliced

TCPGroups == [i \in DOMAIN TCPPorts |-> {"connect", "stability"} \X {i}]
UDPGroups == [i \in DOMAIN UDPPorts |-> {<<"udp", i>>}]
TwoGroups == <<{HTTP}, {<<"ws", 0>>}>>
TLSGroups == IF TLSAddress THEN <<{<<"tls", 0>>}>> ELSE <<>>
OneGroup  == <<{Downloads}>>

LEMMA Pieces ==
  /\ TCPGroups \in Seq(SUBSET Tasks) /\ Len(TCPGroups) = Len(TCPPorts)
  /\ UDPGroups \in Seq(SUBSET Tasks) /\ Len(UDPGroups) = Len(UDPPorts)
  /\ TwoGroups \in Seq(SUBSET Tasks) /\ Len(TwoGroups) = 2
  /\ TLSGroups \in Seq(SUBSET Tasks) /\ Len(TLSGroups) = IF TLSAddress THEN 1 ELSE 0
  /\ OneGroup \in Seq(SUBSET Tasks) /\ Len(OneGroup) = 1
<1>1. TCPGroups \in [1 .. Len(TCPPorts) -> SUBSET Tasks]
  BY Lengths DEF TCPGroups, Tasks, Probes, TCPTasks
<1>2. UDPGroups \in [1 .. Len(UDPPorts) -> SUBSET Tasks]
  BY Lengths DEF UDPGroups, Tasks, Probes, UDPTasks
<1>3. /\ {HTTP} \in SUBSET Tasks /\ {<<"ws", 0>>} \in SUBSET Tasks
      /\ {Downloads} \in SUBSET Tasks
  BY DEF Tasks, Probes, SingleTest
<1>4. TLSAddress => {<<"tls", 0>>} \in SUBSET Tasks
  BY DEF Tasks, Probes, SingleTest
<1>5. TwoGroups \in Seq(SUBSET Tasks) /\ Len(TwoGroups) = 2
  BY <1>3 DEF TwoGroups
<1>6. TLSGroups \in Seq(SUBSET Tasks) /\ Len(TLSGroups) = IF TLSAddress THEN 1 ELSE 0
  <2>1. CASE TLSAddress
    BY <1>4, <2>1 DEF TLSGroups
  <2>2. CASE ~TLSAddress
    BY <2>2, EmptySeq DEF TLSGroups
  <2> QED BY <2>1, <2>2
<1>7. OneGroup \in Seq(SUBSET Tasks) /\ Len(OneGroup) = 1
  BY <1>3 DEF OneGroup
<1> QED BY <1>1, <1>2, <1>5, <1>6, <1>7, Tabulated, Lengths

\* Where the groups are.
LEMMA GroupsLayout ==
  ASSUME NEW n \in Nat, NEW m \in Nat, n = Len(TCPPorts), m = Len(UDPPorts)
  PROVE  /\ Groups \in Seq(SUBSET Tasks)
         /\ Len(Groups) = LastSlot
         /\ \A i \in 1 .. n : Groups[i] = {"connect", "stability"} \X {i}
         /\ \A i \in 1 .. m : Groups[n + i] = {<<"udp", i>>}
         /\ Groups[n + m + 1] = {HTTP} /\ Groups[n + m + 2] = {<<"ws", 0>>}
         /\ TLSAddress => Groups[n + m + 3] = {<<"tls", 0>>}
         /\ Groups[LastSlot] = {Downloads}
<1> DEFINE S == SUBSET Tasks
           A == TCPGroups \o UDPGroups
           B == A \o TwoGroups
           C == B \o TLSGroups
           k == IF TLSAddress THEN 1 ELSE 0
<1>1. Groups = C \o OneGroup
  BY DEF Groups, TCPGroups, UDPGroups, TwoGroups, TLSGroups, OneGroup
<1>2. /\ k \in Nat /\ (TLSAddress => k = 1) /\ LastSlot = n + m + 2 + k + 1
      /\ n + m \in Nat /\ n + m + 2 \in Nat /\ n + m + 2 + k \in Nat
      /\ 1 \in Nat /\ 2 \in Nat
  BY DEF LastSlot
<1>3. /\ TCPGroups \in Seq(S) /\ Len(TCPGroups) = n
      /\ UDPGroups \in Seq(S) /\ Len(UDPGroups) = m
      /\ TwoGroups \in Seq(S) /\ Len(TwoGroups) = 2
      /\ TLSGroups \in Seq(S) /\ Len(TLSGroups) = k
      /\ OneGroup \in Seq(S) /\ Len(OneGroup) = 1
  BY Pieces
<1> HIDE DEF S, k
<1>4. Spliced(S, TCPGroups, n, UDPGroups, m, A)
  BY <1>3, Joined
<1>5. A \in Seq(S) /\ Len(A) = n + m
  BY <1>4 DEF Spliced
<1> HIDE DEF A
<1>6. Spliced(S, A, n + m, TwoGroups, 2, B)
  BY <1>2, <1>3, <1>5, Joined
<1>7. B \in Seq(S) /\ Len(B) = n + m + 2
  BY <1>6 DEF Spliced
<1> HIDE DEF B
<1>8. Spliced(S, B, n + m + 2, TLSGroups, k, C)
  BY <1>2, <1>3, <1>7, Joined
<1>9. C \in Seq(S) /\ Len(C) = n + m + 2 + k
  BY <1>8 DEF Spliced
<1> HIDE DEF C
<1>10. Spliced(S, C, n + m + 2 + k, OneGroup, 1, Groups)
  BY <1>1, <1>2, <1>3, <1>9, Joined
<1>11. /\ Groups \in Seq(S) /\ Len(Groups) = LastSlot
       /\ \A i \in 1 .. n + m + 2 + k : Groups[i] = C[i]
       /\ Groups[n + m + 2 + k + 1] = {Downloads}
  BY <1>2, <1>10 DEF Spliced, OneGroup
<1>12. \A i \in 1 .. n : Groups[i] = {"connect", "stability"} \X {i}
  <2> SUFFICES ASSUME NEW i \in 1 .. n PROVE Groups[i] = {"connect", "stability"} \X {i}
    OBVIOUS
  <2>1. TCPGroups[i] = {"connect", "stability"} \X {i}
    BY Lengths DEF TCPGroups
  <2>2. i \in 1 .. n + m /\ i \in 1 .. n + m + 2 /\ i \in 1 .. n + m + 2 + k
    BY <1>2
  <2>3. A[i] = TCPGroups[i] /\ B[i] = A[i] /\ C[i] = B[i]
    BY <1>4, <1>6, <1>8, <2>2 DEF Spliced
  <2> QED BY <1>11, <2>1, <2>2, <2>3
<1>13. \A i \in 1 .. m : Groups[n + i] = {<<"udp", i>>}
  <2> SUFFICES ASSUME NEW i \in 1 .. m PROVE Groups[n + i] = {<<"udp", i>>}
    OBVIOUS
  <2>1. UDPGroups[i] = {<<"udp", i>>}
    BY Lengths DEF UDPGroups
  <2>2. /\ n + i \in 1 .. n + m /\ n + i \in 1 .. n + m + 2
        /\ n + i \in 1 .. n + m + 2 + k
    BY <1>2
  <2>3. A[n + i] = UDPGroups[i] /\ B[n + i] = A[n + i] /\ C[n + i] = B[n + i]
    BY <1>4, <1>6, <1>8, <2>2 DEF Spliced
  <2> QED BY <1>11, <2>1, <2>2, <2>3
<1>14. Groups[n + m + 1] = {HTTP} /\ Groups[n + m + 2] = {<<"ws", 0>>}
  <2>1. TwoGroups[1] = {HTTP} /\ TwoGroups[2] = {<<"ws", 0>>}
    BY DEF TwoGroups
  <2>2. B[n + m + 1] = TwoGroups[1] /\ B[n + m + 2] = TwoGroups[2]
    BY <1>6 DEF Spliced
  <2>3. /\ n + m + 1 \in 1 .. n + m + 2 /\ n + m + 2 \in 1 .. n + m + 2
        /\ n + m + 1 \in 1 .. n + m + 2 + k /\ n + m + 2 \in 1 .. n + m + 2 + k
    BY <1>2
  <2>4. C[n + m + 1] = B[n + m + 1] /\ C[n + m + 2] = B[n + m + 2]
    BY <1>8, <2>3 DEF Spliced
  <2> QED BY <1>11, <2>1, <2>2, <2>3, <2>4
<1>15. ASSUME TLSAddress PROVE Groups[n + m + 3] = {<<"tls", 0>>}
  <2>1. TLSGroups[1] = {<<"tls", 0>>}
    BY <1>15 DEF TLSGroups
  <2>2. C[n + m + 2 + 1] = TLSGroups[1]
    BY <1>2, <1>8, <1>15 DEF Spliced
  <2>3. n + m + 2 + 1 \in 1 .. n + m + 2 + k /\ n + m + 2 + 1 = n + m + 3
    BY <1>2, <1>15
  <2>4. Groups[n + m + 2 + 1] = C[n + m + 2 + 1]
    BY <1>11, <2>3
  <2> QED BY <2>1, <2>2, <2>3, <2>4
<1>16. Groups[LastSlot] = {Downloads}
  BY <1>2, <1>11
<1> QED BY <1>11, <1>12, <1>13, <1>14, <1>15, <1>16 DEF S

\* Every test belongs to the one group at its slot.
LEMMA Slots ==
  /\ LastSlot \in Nat
  /\ \A t \in Tasks : Slot(t) \in 1 .. LastSlot
  /\ \A t \in Tasks, i \in 1 .. LastSlot : t \in Groups[i] <=> Slot(t) = i
<1> DEFINE n == Len(TCPPorts)
           m == Len(UDPPorts)
<1>1. n \in Nat /\ m \in Nat
  BY Lengths
<1> SUFFICES ASSUME NEW a \in Nat, NEW b \in Nat, a = n, b = m
             PROVE  /\ LastSlot \in Nat
                    /\ \A t \in Tasks : Slot(t) \in 1 .. LastSlot
                    /\ \A t \in Tasks, i \in 1 .. LastSlot :
                         t \in Groups[i] <=> Slot(t) = i
  BY <1>1
<1>2. /\ \A i \in 1 .. a : Groups[i] = {"connect", "stability"} \X {i}
      /\ \A i \in 1 .. b : Groups[a + i] = {<<"udp", i>>}
      /\ Groups[a + b + 1] = {HTTP} /\ Groups[a + b + 2] = {<<"ws", 0>>}
      /\ TLSAddress => Groups[a + b + 3] = {<<"tls", 0>>}
      /\ Groups[LastSlot] = {Downloads}
  BY GroupsLayout
<1>3. LastSlot = a + b + IF TLSAddress THEN 4 ELSE 3
  BY DEF LastSlot
<1>4. /\ TCPTasks = {"connect", "stability"} \X (1 .. a)
      /\ UDPTasks = {"udp"} \X (1 .. b)
  BY Lengths DEF TCPTasks, UDPTasks
<1>5. ASSUME NEW t \in TCPTasks
      PROVE  t[2] \in 1 .. a /\ Slot(t) = t[2] /\ t \in {"connect", "stability"} \X {t[2]}
  BY <1>4 DEF Slot
<1>6. ASSUME NEW t \in UDPTasks
      PROVE  t[2] \in 1 .. b /\ Slot(t) = a + t[2] /\ t \in {<<"udp", t[2]>>}
  BY <1>4 DEF Slot
<1>7. Slot(HTTP) = a + b + 1
  BY DEF Slot, HTTP
<1>8. Slot(<<"ws", 0>>) = a + b + 2
  BY DEF Slot
<1>9. Slot(<<"tls", 0>>) = a + b + 3
  BY DEF Slot
<1>10. Slot(Downloads) = LastSlot
  BY DEF Slot, Downloads
<1>11. ASSUME NEW t \in Tasks
       PROVE  \/ t \in TCPTasks \/ t \in UDPTasks \/ t = HTTP
              \/ t = <<"ws", 0>> \/ (TLSAddress /\ t = <<"tls", 0>>)
              \/ t = Downloads
  <2>1. CASE TLSAddress
    BY <2>1, Zenon DEF Tasks, Probes, SingleTest
  <2>2. CASE ~TLSAddress
    BY <2>2, Zenon DEF Tasks, Probes, SingleTest
  <2> QED BY <2>1, <2>2
<1>12. LastSlot \in Nat
  BY <1>3
<1>13. ASSUME NEW t \in Tasks
       PROVE  Slot(t) \in 1 .. LastSlot /\ t \in Groups[Slot(t)]
  <2>1. CASE t \in TCPTasks
    BY <1>2, <1>3, <1>5, <2>1
  <2>2. CASE t \in UDPTasks
    <3>1. PICK j \in 1 .. b : j = t[2]
      BY <1>6, <2>2
    <3>2. Slot(t) = a + j /\ t \in {<<"udp", j>>}
      BY <1>6, <2>2, <3>1
    <3>3. Groups[a + j] = {<<"udp", j>>}
      BY <1>2
    <3>4. a + j \in 1 .. LastSlot
      BY <1>3
    <3> QED BY <3>2, <3>3, <3>4
  <2>3. CASE t = HTTP
    BY <1>2, <1>3, <1>7, <2>3
  <2>4. CASE t = <<"ws", 0>>
    BY <1>2, <1>3, <1>8, <2>4
  <2>5. CASE TLSAddress /\ t = <<"tls", 0>>
    BY <1>2, <1>3, <1>9, <2>5
  <2>6. CASE t = Downloads
    BY <1>2, <1>3, <1>10, <2>6
  <2> QED BY <1>11, <2>1, <2>2, <2>3, <2>4, <2>5, <2>6
<1>14. ASSUME NEW i \in 1 .. LastSlot, NEW t \in Groups[i]
       PROVE  Slot(t) = i
  <2>1. CASE i <= a
    <3>1. i \in 1 .. a
      BY <2>1
    <3>2. t \in {"connect", "stability"} \X {i}
      BY <1>2, <3>1
    <3> QED BY <3>2 DEF Slot
  <2>2. CASE i > a /\ i <= a + b
    <3>1. i - a \in 1 .. b /\ i = a + (i - a)
      BY <2>2
    <3>2. PICK j \in 1 .. b : i = a + j
      BY <3>1
    <3>3. Groups[a + j] = {<<"udp", j>>}
      BY <1>2
    <3>4. t = <<"udp", j>>
      BY <3>2, <3>3
    <3> QED BY <3>2, <3>4 DEF Slot
  <2>3. CASE i = a + b + 1
    BY <1>2, <1>7, <2>3
  <2>4. CASE i = a + b + 2
    BY <1>2, <1>8, <2>4
  <2>5. CASE TLSAddress /\ i = a + b + 3
    BY <1>2, <1>9, <2>5
  <2>6. CASE i = LastSlot
    BY <1>2, <1>10, <2>6
  <2>7. i \in Nat /\ 1 <= i /\ i <= LastSlot
    BY <1>12
  <2>8. \/ i <= a
        \/ i > a /\ i <= a + b
        \/ i = a + b + 1
        \/ i = a + b + 2
        \/ TLSAddress /\ i = a + b + 3
        \/ i = LastSlot
    <3>1. CASE TLSAddress
      BY ONLY <1>3, <2>7, <3>1, a \in Nat, b \in Nat
    <3>2. CASE ~TLSAddress
      BY ONLY <1>3, <2>7, <3>2, a \in Nat, b \in Nat
    <3> QED BY <3>1, <3>2
  <2> QED BY <2>1, <2>2, <2>3, <2>4, <2>5, <2>6, <2>8, Zenon
<1> QED BY <1>12, <1>13, <1>14

LEMMA TasksOK ==
  /\ Probes \subseteq Tasks /\ HTTP \in Tasks /\ Downloads \in Tasks
  /\ HTTP \notin Probes /\ Downloads \notin Probes /\ None \notin Probes
  /\ HTTP # Downloads
  /\ IsFiniteSet(Tasks)
  /\ \A t \in Probes : Entry(t) \in Entries
<1>1. Probes \subseteq Tasks /\ HTTP \in Tasks /\ Downloads \in Tasks
  BY DEF Tasks
<1>2. \A t \in Probes : Entry(t) \in Entries
  BY DEF Entries
<1>3. \A t \in SingleTest : t[1] \in {"ws", "tls"}
  <2>1. CASE TLSAddress
    BY <2>1 DEF SingleTest
  <2>2. CASE ~TLSAddress
    BY <2>2 DEF SingleTest
  <2> QED BY <2>1, <2>2
<1>4. \A t \in Probes : t[1] \in {"connect", "stability", "udp", "ws", "tls"}
  BY <1>3 DEF Probes, TCPTasks, UDPTasks
<1>5. HTTP[1] = "http" /\ Downloads[1] = "download" /\ None[1] = "none"
  BY DEF HTTP, Downloads, None
<1>6. IsFiniteSet(TCPTasks)
  <2>1. IsFiniteSet({"connect"}) /\ IsFiniteSet({"stability"})
    BY FS_Singleton
  <2>2. IsFiniteSet({"connect"} \cup {"stability"})
    BY <2>1, FS_Union
  <2>3. IsFiniteSet(1 .. Len(TCPPorts))
    BY 1 \in Int, Len(TCPPorts) \in Int, FS_Interval, Lengths
  <2>4. {"connect", "stability"} = {"connect"} \cup {"stability"}
    OBVIOUS
  <2> QED BY <2>2, <2>3, <2>4, FS_Product, Lengths DEF TCPTasks
<1>7. IsFiniteSet(UDPTasks)
  <2>1. IsFiniteSet({"udp"})
    BY FS_Singleton
  <2>2. IsFiniteSet(1 .. Len(UDPPorts))
    BY 1 \in Int, Len(UDPPorts) \in Int, FS_Interval, Lengths
  <2> QED BY <2>1, <2>2, FS_Product, Lengths DEF UDPTasks
<1>8. IsFiniteSet(SingleTest)
  <2>1. IsFiniteSet({<<"ws", 0>>}) /\ IsFiniteSet({<<"tls", 0>>}) /\ IsFiniteSet({})
    BY FS_EmptySet, FS_Singleton
  <2> QED BY <2>1, FS_Union DEF SingleTest
<1>9. IsFiniteSet(Tasks)
  <2>1. IsFiniteSet(Probes)
    BY <1>6, <1>7, <1>8, FS_Union DEF Probes
  <2>2. IsFiniteSet(Probes \cup {HTTP})
    BY <2>1, FS_AddElement
  <2>3. IsFiniteSet((Probes \cup {HTTP}) \cup {Downloads})
    BY <2>2, FS_AddElement
  <2>4. Tasks = (Probes \cup {HTTP}) \cup {Downloads}
    BY Zenon DEF Tasks
  <2> QED BY <2>3, <2>4
<1> QED BY <1>1, <1>2, <1>4, <1>5, <1>9

-----------------------------------------------------------------------------
Live == {t \in Tasks : task[t] \in {"running", "stored"}}

\* The groups are started in their order, and all of them before main waits.
InOrder ==
  /\ started <= LastSlot
  /\ main # "starting" => started = LastSlot
  /\ \A t \in Tasks : task[t] = "none" <=> Slot(t) > started

\* The counter of the WaitGroup is the number of goroutines that run.
Awaited ==
  /\ wg = Cardinality(Live)
  /\ main \in {"assessing", "exited"} => Live = {}

\* A test that is over has its entry in the report.
Filed ==
  /\ \A t \in Probes : task[t] \in {"stored", "done"} => rep[Entry(t)] # None
  /\ \A e \in Entries : rep[e] # None => Entry(rep[e]) = e

\* Where the HTTP loop is tells how many results it has stored.
Polled ==
  /\ http = "/health" => gets % 2 = 1
  /\ http # "/health" => gets % 2 = 0
  /\ http = "select" => gets >= 2
  /\ task[HTTP] \in {"stored", "done"} => http = "select"

Downloaded ==
  /\ position <= downloads + 1
  /\ task[Downloads] \in {"stored", "done"} => position > DownloadTests

Inv == TypeOK /\ InOrder /\ Awaited /\ Filed /\ Polled /\ Downloaded

LEMMA InvInit == Init => Inv
<1> SUFFICES ASSUME Init PROVE Inv
  OBVIOUS
<1>1. TypeOK
  <2>1. FlagsOK
    BY Zenon DEF Init, FlagsOK
  <2> QED BY <2>1 DEF Init, TypeOK
<1>2. InOrder
  BY Slots DEF Init, InOrder
<1>3. Live = {}
  BY DEF Init, Live
<1>4. Awaited
  BY <1>3, FS_EmptySet DEF Init, Awaited
<1>5. Filed /\ Polled /\ Downloaded
  BY TasksOK DEF Init, Filed, Polled, Downloaded
<1> QED BY <1>1, <1>2, <1>4, <1>5 DEF Inv

LEMMA FlagsStep == FlagsOK /\ [Next]_vars => FlagsOK'
BY Zenon DEF FlagsOK, Next, MainNext, HTTPNext, DownloadNext, Exited, StartGroup, Wait,
   WaitReturns, Assess, Store, TaskDone, HTTPGet, HTTPTick, HTTPReturn, DownloadRun,
   DownloadReturn, DownloadAgain, Expire, vars

LEMMA LiveFinite == IsFiniteSet(Live) /\ Live \subseteq Tasks
<1>1. Live \subseteq Tasks
  BY DEF Live
<1> QED BY <1>1, TasksOK, FS_Subset

\* The tests of a group are none of those that run.
LEMMA GroupStarts ==
  ASSUME Inv, StartGroup
  PROVE  /\ started' = started + 1 /\ started' \in 1 .. LastSlot
         /\ Groups[started'] \subseteq Tasks
         /\ \A t \in Groups[started'] : Slot(t) = started' /\ task[t] = "none"
         /\ \A t \in Tasks \ Groups[started'] : Slot(t) # started' /\ task'[t] = task[t]
         /\ \A t \in Groups[started'] : task'[t] = "running"
         /\ Live' = Live \cup Groups[started']
         /\ Cardinality(Live') = Cardinality(Live) + Cardinality(Groups[started'])
         /\ Cardinality(Groups[started']) \in Nat
<1>1. Len(Groups) = LastSlot /\ Groups \in Seq(SUBSET Tasks) /\ LastSlot \in Nat
  BY GroupsLayout, Lengths, Slots
<1>2. /\ started' = started + 1 /\ started \in Nat /\ started < Len(Groups)
      /\ task' = [t \in Tasks |-> IF t \in Groups[started'] THEN "running" ELSE task[t]]
  BY DEF StartGroup, Inv, TypeOK
<1>3. started' \in 1 .. LastSlot
  BY <1>1, <1>2
<1> DEFINE G == Groups[started']
<1>4. G \subseteq Tasks
  BY <1>1, <1>3, ElementOfSeq
<1>5. ASSUME NEW t \in G PROVE Slot(t) = started' /\ task[t] = "none"
  <2>1. Slot(t) = started'
    BY <1>3, <1>4, <1>5, Slots
  <2> QED BY <1>2, <1>4, <1>5, <2>1 DEF Inv, InOrder
<1>6. \A t \in Tasks \ G : Slot(t) # started' /\ task'[t] = task[t]
  BY <1>2, <1>3, Slots
<1>7. \A t \in G : task'[t] = "running"
  BY <1>2, <1>4
<1> HIDE DEF G
<1>8. Live' = Live \cup G
  BY <1>4, <1>5, <1>6, <1>7, Zenon DEF Live
<1>9. Live \cap G = {}
  BY <1>5 DEF Live
<1>10. IsFiniteSet(Live) /\ IsFiniteSet(G)
  BY <1>4, TasksOK, FS_Subset, LiveFinite
<1>11. /\ Cardinality(Live \cup G) =
             Cardinality(Live) + Cardinality(G) - Cardinality(Live \cap G)
       /\ Cardinality(Live) \in Nat /\ Cardinality(G) \in Nat
  BY <1>10, FS_Union, FS_CardinalityType
<1>12. Cardinality(Live') = Cardinality(Live) + Cardinality(G)
  <2>1. Cardinality(Live \cap G) = 0
    BY <1>9, FS_EmptySet
  <2>2. Cardinality(Live \cup G) = Cardinality(Live) + Cardinality(G)
    BY <1>11, <2>1
  <2> QED BY <1>8, <2>2
<1> QED BY <1>2, <1>3, <1>4, <1>5, <1>6, <1>7, <1>8, <1>11, <1>12 DEF G

LEMMA StartGroupKeeps == Inv /\ FlagsOK' /\ StartGroup => Inv'
<1> SUFFICES ASSUME Inv, FlagsOK', StartGroup PROVE Inv'
  OBVIOUS
<1> DEFINE G == Groups[started']
<1>1. /\ started' = started + 1 /\ started' \in 1 .. LastSlot
      /\ G \subseteq Tasks
      /\ \A t \in G : Slot(t) = started' /\ task[t] = "none"
      /\ \A t \in Tasks \ G : Slot(t) # started' /\ task'[t] = task[t]
      /\ \A t \in G : task'[t] = "running"
      /\ Live' = Live \cup G
      /\ Cardinality(Live') = Cardinality(Live) + Cardinality(G)
      /\ Cardinality(G) \in Nat
  BY GroupStarts
<1>2. /\ main = "starting" /\ wg' = wg + Cardinality(G)
      /\ task' = [t \in Tasks |-> IF t \in G THEN "running" ELSE task[t]]
      /\ UNCHANGED <<main, rep, http, gets, position, downloads>>
  BY Zenon DEF StartGroup, http_vars, download_vars
<1> HIDE DEF G
<1>3. TypeOK'
  BY <1>1, <1>2 DEF Inv, TypeOK
<1>4. InOrder'
  <2>1. ASSUME NEW t \in Tasks PROVE task'[t] = "none" <=> Slot(t) > started'
    <3>1. Slot(t) \in Nat /\ started \in Nat
      BY Slots DEF Inv, TypeOK
    <3>2. CASE t \in G
      BY <1>1, <3>1, <3>2
    <3>3. CASE t \notin G
      BY <1>1, <3>1, <3>3 DEF Inv, InOrder
    <3> QED BY <3>2, <3>3
  <2> QED BY <1>1, <1>2, <2>1, Slots DEF InOrder
<1>5. Awaited'
  BY <1>1, <1>2 DEF Inv, Awaited
<1>6. Filed' /\ Polled' /\ Downloaded'
  BY <1>1, <1>2, TasksOK DEF Inv, Filed, Polled, Downloaded
<1> QED BY <1>3, <1>4, <1>5, <1>6 DEF Inv

\* A step of main that starts nothing.
LEMMA MainKeeps == Inv /\ FlagsOK' /\ (Wait \/ WaitReturns \/ Assess) => Inv'
<1> SUFFICES ASSUME Inv, FlagsOK', Wait \/ WaitReturns \/ Assess PROVE Inv'
  OBVIOUS
<1>1. UNCHANGED <<started, wg, task, rep, http, gets, position, downloads>>
  BY Zenon DEF Wait, WaitReturns, Assess, http_vars, download_vars
<1>2. \/ main = "starting" /\ started = Len(Groups) /\ main' = "waiting"
      \/ main = "waiting" /\ wg = 0 /\ main' = "assessing"
      \/ main = "assessing" /\ main' = "exited"
  BY Zenon DEF Wait, WaitReturns, Assess
<1>3. TypeOK'
  BY <1>1, <1>2 DEF Inv, TypeOK
<1>4. InOrder'
  BY <1>1, <1>2, GroupsLayout, Lengths DEF Inv, InOrder
<1>5. Awaited'
  <2>1. Live' = Live
    BY <1>1 DEF Live
  <2>2. wg = 0 => Live = {}
    BY LiveFinite, FS_EmptySet DEF Inv, Awaited
  <2> QED BY <1>1, <1>2, <2>1, <2>2 DEF Inv, Awaited
<1>6. Filed' /\ Polled' /\ Downloaded'
  BY <1>1 DEF Inv, Filed, Polled, Downloaded
<1> QED BY <1>3, <1>4, <1>5, <1>6 DEF Inv

LEMMA StoreKeeps == ASSUME NEW t \in Tasks PROVE Inv /\ FlagsOK' /\ Store(t) => Inv'
<1> SUFFICES ASSUME Inv, FlagsOK', Store(t) PROVE Inv'
  OBVIOUS
<1>1. UNCHANGED <<main, started, wg, http, gets, position, downloads>>
  BY Zenon DEF Store, main_vars, http_vars, download_vars
<1>2. /\ t \in Probes /\ task[t] = "running"
      /\ rep' = [rep EXCEPT ![Entry(t)] = t]
      /\ task' = [task EXCEPT ![t] = "stored"]
  BY Zenon DEF Store
<1>3. TypeOK'
  BY <1>1, <1>2, TasksOK DEF Inv, TypeOK
<1>4. /\ task \in [Tasks -> {"none", "running", "stored", "done"}]
      /\ rep \in [Entries -> Probes \cup {None}]
  BY DEF Inv, TypeOK
<1>5. InOrder'
  BY <1>1, <1>2, <1>4 DEF Inv, InOrder
<1>6. Awaited'
  <2>1. Live' = Live
    BY <1>2, <1>4 DEF Live
  <2> QED BY <1>1, <2>1 DEF Inv, Awaited
<1>7. Filed'
  <2>1. rep'[Entry(t)] = t /\ t # None
    BY <1>2, <1>4, TasksOK
  <2>2. \A e \in Entries : e # Entry(t) => rep'[e] = rep[e]
    BY <1>2, <1>4
  <2>3. \A s \in Probes : s # t => task'[s] = task[s]
    BY <1>2, <1>4, TasksOK
  <2>4. ASSUME NEW s \in Probes, task'[s] \in {"stored", "done"}
        PROVE  rep'[Entry(s)] # None
    <3>1. CASE Entry(s) = Entry(t)
      BY <2>1, <3>1
    <3>2. CASE Entry(s) # Entry(t)
      BY <2>2, <2>3, <2>4, <3>2, TasksOK DEF Inv, Filed
    <3> QED BY <3>1, <3>2
  <2>5. ASSUME NEW e \in Entries, rep'[e] # None PROVE Entry(rep'[e]) = e
    BY <2>1, <2>2, <2>5 DEF Inv, Filed
  <2> QED BY <2>4, <2>5 DEF Filed
<1>8. task'[HTTP] = task[HTTP] /\ task'[Downloads] = task[Downloads]
  BY <1>2, <1>4, TasksOK
<1>9. Polled' /\ Downloaded'
  BY <1>1, <1>8 DEF Inv, Polled, Downloaded
<1> QED BY <1>3, <1>5, <1>6, <1>7, <1>9 DEF Inv

\* The step of a test that is over leaves one test less to wait for.
LEMMA OneLess ==
  ASSUME Inv, NEW t \in Tasks, TaskDone(t)
  PROVE  /\ t \in Live /\ Live' = Live \ {t} /\ Live # {}
         /\ Cardinality(Live') = Cardinality(Live) - 1
         /\ Cardinality(Live) \in Nat \ {0}
<1>1. task[t] = "stored" /\ task' = [task EXCEPT ![t] = "done"]
  BY Zenon DEF TaskDone
<1>2. task \in [Tasks -> {"none", "running", "stored", "done"}]
  BY DEF Inv, TypeOK
<1>3. t \in Live /\ Live' = Live \ {t}
  BY <1>1, <1>2 DEF Live
<1>4. /\ Cardinality(Live \ {t}) = Cardinality(Live) - 1
      /\ Cardinality(Live) \in Nat /\ Cardinality(Live) # 0
  BY <1>3, LiveFinite, FS_RemoveElement, FS_CardinalityType, FS_EmptySet
<1> QED BY <1>3, <1>4

LEMMA TaskDoneKeeps == ASSUME NEW t \in Tasks PROVE Inv /\ FlagsOK' /\ TaskDone(t) => Inv'
<1> SUFFICES ASSUME Inv, FlagsOK', TaskDone(t) PROVE Inv'
  OBVIOUS
<1>1. UNCHANGED <<main, started, rep, http, gets, position, downloads>>
  BY Zenon DEF TaskDone, http_vars, download_vars
<1>2. /\ task[t] = "stored" /\ wg' = wg - 1
      /\ task' = [task EXCEPT ![t] = "done"]
  BY Zenon DEF TaskDone
<1>3. /\ t \in Live /\ Live' = Live \ {t} /\ Live # {}
      /\ Cardinality(Live') = Cardinality(Live) - 1
      /\ Cardinality(Live) \in Nat \ {0}
  BY OneLess
<1>4. task \in [Tasks -> {"none", "running", "stored", "done"}]
  BY DEF Inv, TypeOK
<1>5. TypeOK'
  <2>1. wg' \in Nat
    BY <1>2, <1>3 DEF Inv, Awaited
  <2> QED BY <1>1, <1>2, <2>1 DEF Inv, TypeOK
<1>6. InOrder'
  BY <1>1, <1>2, <1>4 DEF Inv, InOrder
<1>7. Awaited'
  BY <1>1, <1>2, <1>3 DEF Inv, Awaited
<1>8. \A s \in Tasks : task'[s] \in {"stored", "done"} => task[s] \in {"stored", "done"}
  BY <1>2, <1>4
<1>9. Filed' /\ Polled' /\ Downloaded'
  BY <1>1, <1>8, TasksOK DEF Inv, Filed, Polled, Downloaded
<1> QED BY <1>5, <1>6, <1>7, <1>9 DEF Inv

LEMMA HTTPKeeps == Inv /\ FlagsOK' /\ HTTPNext => Inv'
<1> SUFFICES ASSUME Inv, FlagsOK', HTTPNext PROVE Inv'
  OBVIOUS
<1>1. UNCHANGED <<main, started, wg, rep, position, downloads>>
  BY Zenon DEF HTTPNext, HTTPGet, HTTPTick, HTTPReturn, main_vars, download_vars
<1>2. /\ task[HTTP] = "running"
      /\ \/ /\ http = "/ping" /\ http' = "/health" /\ gets' = gets + 1 /\ task' = task
         \/ /\ http # "/ping" /\ http # "select" /\ http' = "select"
            /\ gets' = gets + 1 /\ task' = task
         \/ http = "select" /\ http' = "/ping" /\ gets' = gets /\ task' = task
         \/ /\ http = "select" /\ http' = http /\ gets' = gets
            /\ task' = [task EXCEPT ![HTTP] = "stored"]
  BY Zenon DEF HTTPNext, HTTPGet, HTTPTick, HTTPReturn, http_vars
<1>3. /\ task \in [Tasks -> {"none", "running", "stored", "done"}]
      /\ http \in {"/ping", "/health", "select"} /\ gets \in Nat
  BY DEF Inv, TypeOK
<1>4. TypeOK'
  BY <1>1, <1>2 DEF Inv, TypeOK
<1>5. \A t \in Tasks : /\ task'[t] = "none" <=> task[t] = "none"
                       /\ t # HTTP => task'[t] = task[t]
                       /\ task'[t] \in {"running", "stored"} <=>
                            task[t] \in {"running", "stored"}
  BY <1>2, <1>3, TasksOK
<1>6. InOrder'
  BY <1>1, <1>5 DEF Inv, InOrder
<1>7. Awaited'
  <2>1. Live' = Live
    BY <1>5 DEF Live
  <2> QED BY <1>1, <2>1 DEF Inv, Awaited
<1>8. Filed' /\ Downloaded'
  BY <1>1, <1>5, TasksOK DEF Inv, Filed, Downloaded
<1>9. Polled'
  <2>1. /\ http = "/health" => gets % 2 = 1
        /\ http # "/health" => gets % 2 = 0
        /\ http = "select" => gets >= 2
    BY DEF Inv, Polled
  <2>2. CASE http = "/ping" /\ http' = "/health" /\ gets' = gets + 1 /\ task' = task
    <3>1. (gets + 1) % 2 = 1
      BY <1>3, <2>1, <2>2
    <3> QED BY <1>2, <2>2, <3>1 DEF Polled
  <2>3. CASE /\ http # "/ping" /\ http # "select" /\ http' = "select"
             /\ gets' = gets + 1 /\ task' = task
    <3>1. http = "/health" /\ gets % 2 = 1
      BY <1>3, <2>1, <2>3
    <3>2. (gets + 1) % 2 = 0 /\ gets + 1 >= 2
      BY <1>3, <3>1
    <3> QED BY <1>2, <2>3, <3>2 DEF Polled
  <2>4. CASE http = "select" /\ http' = "/ping" /\ gets' = gets /\ task' = task
    BY <1>2, <2>1, <2>4 DEF Polled
  <2>5. CASE /\ http = "select" /\ http' = http /\ gets' = gets
             /\ task' = [task EXCEPT ![HTTP] = "stored"]
    BY <2>1, <2>5 DEF Polled
  <2> QED BY <1>2, <2>2, <2>3, <2>4, <2>5
<1> QED BY <1>4, <1>6, <1>7, <1>8, <1>9 DEF Inv

LEMMA DownloadKeeps == Inv /\ FlagsOK' /\ DownloadNext => Inv'
<1> SUFFICES ASSUME Inv, FlagsOK', DownloadNext PROVE Inv'
  OBVIOUS
<1>1. UNCHANGED <<main, started, wg, rep, http, gets>>
  BY Zenon DEF DownloadNext, DownloadRun, DownloadReturn, DownloadAgain, main_vars, http_vars
<1>2. /\ task[Downloads] = "running"
      /\ \/ /\ position <= DownloadTests /\ position' = position + 1
            /\ downloads' = downloads + 1 /\ task' = task
         \/ /\ position > DownloadTests /\ position' = position
            /\ downloads' = downloads /\ task' = [task EXCEPT ![Downloads] = "stored"]
         \/ position' = 1 /\ downloads' = downloads /\ task' = task
  BY Zenon DEF DownloadNext, DownloadRun, DownloadReturn, DownloadAgain, download_vars
<1>3. /\ task \in [Tasks -> {"none", "running", "stored", "done"}]
      /\ position \in 1 .. DownloadTests + 1 /\ downloads \in Nat /\ DownloadTests \in Nat
  BY DEF Inv, TypeOK
<1>4. TypeOK'
  BY <1>1, <1>2, <1>3 DEF Inv, TypeOK
<1>5. \A t \in Tasks : /\ task'[t] = "none" <=> task[t] = "none"
                       /\ t # Downloads => task'[t] = task[t]
                       /\ task'[t] \in {"running", "stored"} <=>
                            task[t] \in {"running", "stored"}
  BY <1>2, <1>3, TasksOK
<1>6. InOrder'
  BY <1>1, <1>5 DEF Inv, InOrder
<1>7. Awaited'
  <2>1. Live' = Live
    BY <1>5 DEF Live
  <2> QED BY <1>1, <2>1 DEF Inv, Awaited
<1>8. Filed' /\ Polled'
  BY <1>1, <1>5, TasksOK DEF Inv, Filed, Polled
<1>9. Downloaded'
  BY <1>2, <1>3 DEF Inv, Downloaded
<1> QED BY <1>4, <1>6, <1>7, <1>8, <1>9 DEF Inv

LEMMA StillKeeps == Inv /\ FlagsOK' /\ (Expire \/ UNCHANGED vars) => Inv'
<1> SUFFICES ASSUME Inv, FlagsOK', Expire \/ UNCHANGED vars PROVE Inv'
  OBVIOUS
<1>1. UNCHANGED <<main, started, wg, task, rep, http, gets, position, downloads>>
  BY Zenon DEF Expire, vars, main_vars, http_vars, download_vars
<1>2. Live' = Live
  BY <1>1 DEF Live
<1>3. TypeOK' /\ InOrder'
  BY <1>1 DEF Inv, TypeOK, InOrder
<1>4. Awaited' /\ Filed' /\ Polled' /\ Downloaded'
  BY <1>1, <1>2 DEF Inv, Awaited, Filed, Polled, Downloaded
<1> QED BY <1>3, <1>4 DEF Inv

LEMMA InvStep == Inv /\ [Next]_vars => Inv'
<1> SUFFICES ASSUME Inv, [Next]_vars PROVE Inv'
  OBVIOUS
<1>1. FlagsOK'
  BY FlagsStep DEF Inv, TypeOK
<1>2. CASE StartGroup
  BY <1>1, <1>2, StartGroupKeeps
<1>3. CASE Wait \/ WaitReturns \/ Assess
  BY <1>1, <1>3, MainKeeps
<1>4. CASE HTTPNext
  BY <1>1, <1>4, HTTPKeeps
<1>5. CASE DownloadNext
  BY <1>1, <1>5, DownloadKeeps
<1>6. ASSUME NEW t \in Tasks, Store(t) PROVE Inv'
  BY <1>1, <1>6, StoreKeeps
<1>7. ASSUME NEW t \in Tasks, TaskDone(t) PROVE Inv'
  BY <1>1, <1>7, TaskDoneKeeps
<1>8. CASE Expire \/ UNCHANGED vars
  BY <1>1, <1>8, StillKeeps
<1> QED
  BY <1>2, <1>3, <1>4, <1>5, <1>6, <1>7, <1>8, Zenon DEF Next, MainNext, Exited

LEMMA InvAlways == Spec => []Inv
BY InvInit, InvStep, PTL DEF Spec

-----------------------------------------------------------------------------
\* The variables keep their types for every configuration (client-probe/main.go:95-188).
THEOREM TypeCorrect == Spec => []TypeOK
<1>1. Inv => TypeOK
  BY DEF Inv
<1> QED BY <1>1, InvAlways, PTL

\* The report that is judged is complete, whatever the ports, however the tests
\* interleave and whenever the duration passes (client-probe/main.go:187-188).
THEOREM ReportIsComplete == Spec => []ReportComplete
<1>1. Inv => ReportComplete
  <2> SUFFICES ASSUME Inv, main \in {"assessing", "exited"} PROVE ReportComplete
    BY DEF ReportComplete
  <2>1. ASSUME NEW t \in Tasks PROVE task[t] = "done"
    <3>1. started = LastSlot /\ Live = {}
      BY DEF Inv, InOrder, Awaited
    <3>2. Slot(t) \in 1 .. LastSlot /\ LastSlot \in Nat
      BY Slots
    <3>3. task[t] # "none"
      BY <3>1, <3>2 DEF Inv, InOrder
    <3>4. task[t] \notin {"running", "stored"}
      BY <3>1 DEF Live
    <3> QED BY <3>3, <3>4 DEF Inv, TypeOK
  <2>2. ASSUME NEW e \in Entries PROVE rep[e] # None /\ Entry(rep[e]) = e
    <3>1. PICK t \in Probes : e = Entry(t)
      BY DEF Entries
    <3> QED BY <2>1, <3>1, TasksOK DEF Inv, Filed
  <2>3. gets >= 2 /\ gets % 2 = 0
    <3>1. http = "select"
      BY <2>1, TasksOK DEF Inv, Polled
    <3> QED BY <3>1 DEF Inv, Polled
  <2>4. downloads >= DownloadTests
    BY <2>1, TasksOK DEF Inv, TypeOK, Downloaded
  <2> QED BY <2>2, <2>3, <2>4 DEF ReportComplete
<1> QED BY <1>1, InvAlways, PTL

-----------------------------------------------------------------------------
\* The phase of TG: see ClientProbeProperties.
Phase == CASE main = "starting" -> "starting"
           [] main = "waiting"  -> "waiting"
           [] OTHER             -> "returned"

LEMMA Phases ==
  /\ main = "starting" => Phase = "starting"
  /\ main = "waiting" => Phase = "waiting"
  /\ main \in {"assessing", "exited"} => Phase = "returned"
BY DEF Phase

\* A task group starts empty.
LEMMA GroupInit == Init => TG!Init
<1> SUFFICES ASSUME Init PROVE TG!Init
  OBVIOUS
<1>1. main = "starting" /\ Live = {}
  BY DEF Init, Live
<1>2. Phase = "starting"
  BY <1>1, Phases
<1> QED BY <1>1, <1>2, Zenon DEF TG!Init, Phase, Live

\* A step of the client is a step of the task group, or leaves it as it was.
LEMMA GroupStep == Inv /\ [Next]_vars => [TG!Next]_(TG!taskVars)
<1> SUFFICES ASSUME Inv, [Next]_vars PROVE TG!Next \/ UNCHANGED <<Phase, Live>>
  BY Zenon DEF TG!taskVars, Phase, Live
<1>1. CASE StartGroup
  <2>1. main = "starting" /\ main' = main
    BY <1>1, Zenon DEF StartGroup
  <2>2. Phase = "starting" /\ Phase' = Phase
    BY <2>1, Phases, Zenon DEF Phase
  <2>3. Live' \in SUBSET Tasks /\ Live \subseteq Live'
    BY <1>1, GroupStarts, LiveFinite
  <2>4. TG!MainSpawns
    BY <2>2, <2>3, Zenon DEF TG!MainSpawns, Phase, Live
  <2> QED BY <2>4, Zenon DEF TG!Next
<1>2. CASE Wait
  <2>1. main = "starting" /\ main' = "waiting" /\ task' = task
    BY <1>2, Zenon DEF Wait
  <2>2. Phase = "starting" /\ Phase' = "waiting" /\ Live' = Live
    BY <2>1 DEF Phase, Live
  <2>3. TG!Wait
    BY <2>2, Zenon DEF TG!Wait, Phase, Live
  <2> QED BY <2>3, Zenon DEF TG!Next
<1>3. CASE WaitReturns
  <2>1. main = "waiting" /\ main' = "assessing" /\ task' = task /\ wg = 0
    BY <1>3, Zenon DEF WaitReturns
  <2>2. Phase = "waiting" /\ Phase' = "returned" /\ Live' = Live
    BY <2>1 DEF Phase, Live
  <2>3. Live = {}
    BY <2>1, LiveFinite, FS_EmptySet DEF Inv, Awaited
  <2>4. TG!Return
    BY <2>2, <2>3, Zenon DEF TG!Return, Phase, Live
  <2> QED BY <2>4, Zenon DEF TG!Next
<1>4. CASE Assess
  <2>1. main = "assessing" /\ main' = "exited" /\ task' = task
    BY <1>4, Zenon DEF Assess
  <2> QED BY <2>1 DEF Phase, Live
<1>5. ASSUME NEW t \in Tasks, TaskDone(t) PROVE TG!Next \/ UNCHANGED <<Phase, Live>>
  <2>1. main' = main
    BY <1>5, Zenon DEF TaskDone
  <2>2. t \in Live /\ Live' = Live \ {t} /\ Live # {}
    BY <1>5, OneLess
  <2>3. main \in {"starting", "waiting"}
    BY <2>2 DEF Inv, TypeOK, Awaited
  <2>4. Phase \in {"starting", "waiting"} /\ Phase' = Phase
    BY <2>1, <2>3 DEF Phase
  <2>5. TG!Finish(t)
    BY <2>2, <2>4, Zenon DEF TG!Finish, Phase, Live
  <2> QED BY <2>5, Zenon DEF TG!Next
<1>6. ASSUME NEW t \in Tasks, Store(t) PROVE TG!Next \/ UNCHANGED <<Phase, Live>>
  <2>1. main' = main /\ task[t] = "running" /\ task' = [task EXCEPT ![t] = "stored"]
    BY <1>6, Zenon DEF Store, main_vars
  <2> QED BY <2>1 DEF Inv, TypeOK, Phase, Live
<1>7. CASE HTTPNext
  <2>1. main' = main /\ task[HTTP] = "running"
        /\ (task' = task \/ task' = [task EXCEPT ![HTTP] = "stored"])
    BY <1>7, Zenon DEF HTTPNext, HTTPGet, HTTPTick, HTTPReturn, main_vars
  <2> QED BY <2>1 DEF Inv, TypeOK, Phase, Live
<1>8. CASE DownloadNext
  <2>1. main' = main /\ task[Downloads] = "running"
        /\ (task' = task \/ task' = [task EXCEPT ![Downloads] = "stored"])
    BY <1>8, Zenon DEF DownloadNext, DownloadRun, DownloadReturn, DownloadAgain, main_vars
  <2> QED BY <2>1 DEF Inv, TypeOK, Phase, Live
<1>9. CASE Expire \/ UNCHANGED vars
  <2>1. UNCHANGED <<main, task>>
    BY <1>9, Zenon DEF Expire, vars, main_vars
  <2> QED BY <2>1 DEF Phase, Live
<1> QED
  BY <1>1, <1>2, <1>3, <1>4, <1>5, <1>6, <1>7, <1>8, <1>9, Zenon DEF Next, MainNext, Exited

\* The client is a task group: main judges the report when no goroutine is left
\* (client-probe/main.go:95-187).
THEOREM IsTaskGroup == Spec => ImplementsTaskGroup
BY GroupInit, GroupStep, InvAlways, PTL DEF Spec, ImplementsTaskGroup, TG!Spec
=============================================================================
