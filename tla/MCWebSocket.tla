---------------------------- MODULE MCWebSocket ----------------------------
(***************************************************************************)
(* Lengths on both sides of every change of the encoding and of the limit. *)
(***************************************************************************)
EXTENDS WebSocketProperties

BoundaryLengths == {0, 125, 126, 65535, 65536, MaxPayload, MaxPayload + 1}
=============================================================================
