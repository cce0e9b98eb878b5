----------------------------- MODULE EchoTally -----------------------------
(***************************************************************************)
(* The tally of an echo test: the counters of a Result and the state of    *)
(* its link, and how one round changes them.  A round is answered, or it   *)
(* is lost; after a lost one the test dials once, and with no connection   *)
(* it loses the next round before anything is sent.                        *)
(***************************************************************************)
EXTENDS Integers

Link == {"undialled", "up", "redialling", "closed", "never"}

Tallies ==
  [sent : Nat, received : Nat, drops : Nat, reconnects : Nat, failures : Nat,
   link : Link]

Undialled ==
  [sent |-> 0, received |-> 0, drops |-> 0, reconnects |-> 0, failures |-> 0,
   link |-> "undialled"]

Count(t, counter) == [t EXCEPT ![counter] = @ + 1]
Linked(t, l)      == [t EXCEPT !.link = l]

\* The test starts, or could not and is over.
Started(t) == Linked(t, "up")
NoTest(t)  == Count(Linked(t, "never"), "failures")

Answered(t) == Count(Count(t, "sent"), "received")

\* What was written counts as sent; the echo was late, wrong or never came.
LostUnsent(t) == Linked(Count(Count(t, "drops"), "failures"), "redialling")
LostSent(t)   == LostUnsent(Count(t, "sent"))
Losses(t) ==
  {LostUnsent(t)} \cup (IF t.link = "up" THEN {LostSent(t)} ELSE {})

Redialled(t)    == Count(Linked(t, "up"), "reconnects")
NotRedialled(t) == Count(Linked(t, "closed"), "failures")
Redials(t)      == {Redialled(t), NotRedialled(t)}

Step(t, u) ==
  \/ t.link = "undialled"      /\ u \in {Started(t), NoTest(t)}
  \/ t.link = "up"             /\ u = Answered(t)
  \/ t.link \in {"up", "closed"} /\ u \in Losses(t)
  \/ t.link = "redialling"     /\ u \in Redials(t)

-----------------------------------------------------------------------------
\* The tallies between rounds, as functions of the number of rounds.
LostRounds(t) == UNION {Redials(l) : l \in Losses(t)}

Rounds(t) ==
  LostRounds(t) \cup (IF t.link = "up" THEN {Answered(t)} ELSE {})

After[n \in Nat] ==
  IF n = 0 THEN {Started(Undialled)} ELSE UNION {Rounds(t) : t \in After[n - 1]}

\* The results of tests of at most n rounds.
Results(n) == {NoTest(Undialled)} \cup UNION {After[k] : k \in 0 .. n}

\* The sums every tally satisfies: a lost round costs two failures, one of which
\* a reconnect gives back, and a test that cannot dial at all has one.
Redialling(t) == IF t.link = "redialling" THEN 1 ELSE 0
Refused(t)    == IF t.link = "never" THEN 1 ELSE 0

Consistent(t) ==
  /\ t \in Tallies
  /\ t.received <= t.sent
  /\ t.sent <= t.received + t.drops
  /\ t.link \in {"undialled", "never"} => t.sent = 0
  /\ t.reconnects + Redialling(t) <= t.drops
  /\ t.failures = 2 * t.drops - t.reconnects - Redialling(t) + Refused(t)
=============================================================================
