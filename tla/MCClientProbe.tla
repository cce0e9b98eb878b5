--------------------------- MODULE MCClientProbe ---------------------------
(***************************************************************************)
(* Small configurations of the client probe.                               *)
(***************************************************************************)
EXTENDS ClientProbeProperties

\* A UDP port given twice, so that two tests store into one entry, and a TCP
\* port of the same number.
TwicePorts == <<443, 443>>
OnePort    == <<443>>
=============================================================================
