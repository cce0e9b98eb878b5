--------------------------- MODULE MCServerAgent ---------------------------
(***************************************************************************)
(* Small configurations of the server agent.  Ports stand for themselves;  *)
(* connections and requests are model values.                              *)
(***************************************************************************)
EXTENDS ServerAgentProperties, TLC

CONSTANTS c1, r1, r2, t1

\* One port for TCP, and the same number for UDP.
CoreTCPPorts == <<443>>
CoreUDPPorts == <<443>>
NoPorts      == <<>>

\* A configuration with conflicts: the TLS port and the HTTP port are among
\* the TCP ports, and the second HTTP listener wants the TLS port.
StartTCPPorts == <<443, 8443, 8080>>

\* Clients that make one connection, or one or two requests.
AllConnPort   == [c \in {c1} |-> 443]
AllReqPort    == [r \in {r1} |-> 8080]
OneSimple     == [r \in {r1} |-> "simple"]
OneReqPort    == [r \in {r1, r2} |-> 8080]
DownloadAndWS == (r1 :> "download") @@ (r2 :> "ws")

\* No connections or no requests.
Nothing == [x \in {} |-> 0]
=============================================================================
