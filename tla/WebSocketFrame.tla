--------------------------- MODULE WebSocketFrame ---------------------------
(***************************************************************************)
(* How websocketx puts a frame on a stream and takes it off again.         *)
(* WriteFrame sends the header in one write and the payload in another;    *)
(* ReadFrame reads two bytes, then the extended length, the mask and the   *)
(* payload, as far as there are any, each in full.                         *)
(*                                                                         *)
(* A stream is a sequence of the parts that ReadFrame reads in full.  What *)
(* a payload says is a number; under a mask it can be read back with the   *)
(* same mask only.                                                         *)
(***************************************************************************)
EXTENDS Integers, Sequences

Continuation == 0
Text   == 1
Binary == 2
Close  == 8
Ping   == 9
Pong   == 10
Opcodes == {Continuation, Text, Binary, Close, Ping, Pong}

MaxPayload == 64 * 1024 * 1024
NoMask == 0
Garbled == -1

Frame(op, len, says) == [op |-> op, len |-> len, says |-> IF len = 0 THEN 0 ELSE says]

-----------------------------------------------------------------------------
\* The length in the second byte, beside the bit of the mask.
lengthCode(l) ==
  CASE l < 126                 -> l
    [] l >= 126 /\ l <= 65535  -> 126
    [] l > 65535               -> 127

\* Faulty lengthExtension: the largest length of two bytes is one too large.
lengthExtensionOffByOne(l) ==
  CASE l < 126                 -> <<>>
    [] l >= 126 /\ l <= 65536  -> <<[part |-> "uint16", value |-> l % 2^16]>>
    [] l > 65536               -> <<[part |-> "uint64", value |-> l]>>

lengthExtension(l) ==
  CASE l < 126                 -> <<>>
    [] l >= 126 /\ l <= 65535  -> <<[part |-> "uint16", value |-> l % 2^16]>>
    [] l > 65535               -> <<[part |-> "uint64", value |-> l]>>

\* The first write of WriteFrame; a server does not mask.
Header(f, mask) ==
  <<[part |-> "head", op |-> f.op, masked |-> mask # NoMask, code |-> lengthCode(f.len)]>>
    \o lengthExtension(f.len)
    \o (IF mask = NoMask THEN <<>> ELSE <<[part |-> "mask", value |-> mask]>>)

\* Faulty Payload: the masked copy is not what is written.
PayloadUnmasked(f, mask) ==
  IF f.len = 0 THEN <<>>
  ELSE <<[part |-> "payload", len |-> f.len, says |-> f.says, mask |-> NoMask]>>

\* The second write, of nothing when the payload is empty.
Payload(f, mask) ==
  IF f.len = 0 THEN <<>>
  ELSE <<[part |-> "payload", len |-> f.len, says |-> f.says, mask |-> mask]>>

-----------------------------------------------------------------------------
\* The parts of the frame at the start of s, as its first part announces them,
\* up to the payload.
HeaderParts(s) ==
  <<"head">> \o (CASE s[1].code = 126 -> <<"uint16">>
                   [] s[1].code = 127 -> <<"uint64">>
                   [] OTHER           -> <<>>)
             \o (IF s[1].masked THEN <<"mask">> ELSE <<>>)

\* The header has been read: what it says.
HeaderRead(s) == s # <<>> /\ Len(s) >= Len(HeaderParts(s))
size(s) == IF s[1].code < 126 THEN s[1].code ELSE s[2].value
key(s)  == IF s[1].masked THEN s[Len(HeaderParts(s))].value ELSE NoMask

TooLarge(s) == HeaderRead(s) /\ size(s) > MaxPayload

\* How many parts ReadFrame takes, once it can return.
FrameParts(s) == Len(HeaderParts(s)) + (IF size(s) = 0 THEN 0 ELSE 1)
FrameRead(s)  == HeaderRead(s) /\ ~TooLarge(s) /\ Len(s) >= FrameParts(s)

\* The reader takes for a part what the writer wrote as that part, the whole of
\* it and no more.
Aligned(s) ==
  /\ \A i \in 1 .. Len(HeaderParts(s)) : s[i].part = HeaderParts(s)[i]
  /\ size(s) > 0 => LET p == s[FrameParts(s)]
                    IN  p.part = "payload" /\ p.len = size(s)

ReadFrame(s) ==
  LET p == s[FrameParts(s)]
  IN  Frame(s[1].op, size(s), IF p.mask = key(s) THEN p.says ELSE Garbled)
=============================================================================
