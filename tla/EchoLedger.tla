----------------------------- MODULE EchoLedger -----------------------------
(***************************************************************************)
(* What an echo test promises of its result, whatever the transport: one   *)
(* tally that grows step by step as EchoTally says.  StabilityProbe        *)
(* implements this with connections, deadlines and a wire.                 *)
(***************************************************************************)
EXTENDS EchoTally

VARIABLE tally

Init == tally = Undialled
Next == Step(tally, tally')
Spec == Init /\ [][Next]_tally
=============================================================================
