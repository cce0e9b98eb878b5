--------------------------- MODULE WebSocketProofs ---------------------------
(***************************************************************************)
(* Theorems about a WebSocket session, for every set of lengths, every     *)
(* limit and any number of frames.                                         *)
(*                                                                         *)
(* The argument: what is on a stream can be cut into pieces, one for each  *)
(* frame its reader has not taken, and the last piece may be a header      *)
(* whose payload is still to be written (Carries).  A reader that finds a  *)
(* frame complete finds the first piece, and takes the frame that was      *)
(* written, because the header announces exactly the parts that follow     *)
(* (FrameIsRead, CarriesFirst); a writer adds a header or a payload at the *)
(* end (CarriesHeader, CarriesPayload).  For the order of the answers, the *)
(* server's frames are the replies to what it has heard, and the client    *)
(* has read a beginning of them (Going).                                   *)
(***************************************************************************)
EXTENDS WebSocketProperties, FiniteSetTheorems, TLAPS

-----------------------------------------------------------------------------
\* The frames of a session, and the parts that are sent of them.
FrameSet == {Frame(op, len, says) : op \in Opcodes, len \in Lengths, says \in 0 .. MaxFrames}
Masks == {NoMask, Mask}

Head1(f, mask) ==
  [part |-> "head", op |-> f.op, masked |-> mask # NoMask, code |-> lengthCode(f.len)]
Extension(f) ==
  IF f.len <= 65535 THEN [part |-> "uint16", value |-> f.len % 2^16]
                    ELSE [part |-> "uint64", value |-> f.len]
MaskPart(mask) == [part |-> "mask", value |-> mask]
Content(f, mask) == [part |-> "payload", len |-> f.len, says |-> f.says, mask |-> mask]

\* Whatever is on a stream.
Parts ==
  {[part |-> "request", kind |-> kind] : kind \in {"upgrade", "plain", "keyless"}}
    \cup {[part |-> "response", status |-> status] : status \in {101, 400}}
    \cup {Head1(f, mask) : f \in FrameSet, mask \in Masks}
    \cup {Extension(f) : f \in FrameSet}
    \cup {MaskPart(mask) : mask \in Masks}
    \cup {Content(f, mask) : f \in FrameSet, mask \in Masks}

Encoding(f, mask) == Header(f, mask) \o Payload(f, mask)

\* The number of parts of each kind.
Extended(len) == IF len < 126 THEN 0 ELSE 1
HeaderLen(f, mask) == 1 + Extended(f.len) + mask
Full(f) == IF f.len = 0 THEN 0 ELSE 1

LEMMA FrameFacts ==
  ASSUME NEW f \in FrameSet
  PROVE  /\ f.op \in Opcodes /\ f.len \in Lengths /\ f.len \in Nat /\ f.says \in 0 .. MaxFrames
         /\ f.len = 0 => f.says = 0
         /\ f = Frame(f.op, f.len, f.says)
<1>1. PICK op \in Opcodes, len \in Lengths, says \in 0 .. MaxFrames : f = Frame(op, len, says)
  BY DEF FrameSet
<1>2. len \in Nat /\ 0 \in 0 .. MaxFrames
  BY SessionAssumption
<1> QED BY <1>1, <1>2 DEF Frame

LEMMA PartsOfFrames ==
  ASSUME NEW f \in FrameSet, NEW mask \in Masks
  PROVE  /\ Head1(f, mask) \in Parts
         /\ Extension(f) \in Parts
         /\ MaskPart(mask) \in Parts
         /\ Content(f, mask) \in Parts
<1>1. Head1(f, mask) \in {Head1(g, m) : g \in FrameSet, m \in Masks}
  OBVIOUS
<1>2. Extension(f) \in {Extension(g) : g \in FrameSet}
  OBVIOUS
<1>3. MaskPart(mask) \in {MaskPart(m) : m \in Masks}
  OBVIOUS
<1>4. Content(f, mask) \in {Content(g, m) : g \in FrameSet, m \in Masks}
  OBVIOUS
<1> DEFINE r == {[part |-> "request", kind |-> kind] : kind \in {"upgrade", "plain", "keyless"}}
           t == {[part |-> "response", status |-> status] : status \in {101, 400}}
           h == {Head1(g, m) : g \in FrameSet, m \in Masks}
           e == {Extension(g) : g \in FrameSet}
           k == {MaskPart(m) : m \in Masks}
           c == {Content(g, m) : g \in FrameSet, m \in Masks}
<1>5. Parts = r \cup t \cup h \cup e \cup k \cup c
  BY DEF Parts
<1> HIDE DEF r, t, h, e, k, c
<1>6. h \subseteq Parts /\ e \subseteq Parts /\ k \subseteq Parts /\ c \subseteq Parts
  BY <1>5
<1> QED BY <1>1, <1>2, <1>3, <1>4, <1>6 DEF h, e, k, c

LEMMA NumbersOfParts ==
  ASSUME NEW f \in FrameSet, NEW mask \in Masks
  PROVE  /\ Extended(f.len) \in {0, 1} /\ (Extended(f.len) = 0 <=> f.len < 126)
         /\ Full(f) \in {0, 1} /\ (Full(f) = 0 <=> f.len = 0)
         /\ mask \in {0, 1} /\ (mask = 0 <=> mask = NoMask) /\ (mask = 1 <=> mask = Mask)
         /\ HeaderLen(f, mask) = 1 + Extended(f.len) + mask
         /\ HeaderLen(f, mask) \in 1 .. 3
<1>1. f.len \in Nat
  BY FrameFacts
<1> QED BY <1>1 DEF Extended, Full, Masks, NoMask, Mask, HeaderLen

LEMMA Chosen ==
  ASSUME NEW l \in Nat, NEW a, NEW b, NEW c, NEW r,
         r = CASE l < 126                -> a
               [] l >= 126 /\ l <= 65535 -> b
               [] l > 65535              -> c
  PROVE  /\ l < 126 => r = a
         /\ l >= 126 /\ l <= 65535 => r = b
         /\ l > 65535 => r = c
OBVIOUS

\* The code of the first header part for each of the three encodings.
LEMMA CodeOfLength ==
  ASSUME NEW f \in FrameSet
  PROVE  /\ f.len < 126 => lengthCode(f.len) = f.len
         /\ f.len >= 126 /\ f.len <= 65535 => lengthCode(f.len) = 126
         /\ f.len > 65535 => lengthCode(f.len) = 127
<1>1. f.len \in Nat
  BY FrameFacts
<1> QED BY <1>1 DEF lengthCode

\* The two or eight bytes that follow the code, where the length needs them.
LEMMA ExtensionOfLength ==
  ASSUME NEW f \in FrameSet
  PROVE  /\ f.len < 126 => lengthExtension(f.len) = <<>>
         /\ f.len >= 126 => lengthExtension(f.len) = <<Extension(f)>>
<1> DEFINE l == f.len
           two   == [part |-> "uint16", value |-> l % 2^16]
           eight == [part |-> "uint64", value |-> l]
           none  == <<>>
           b == <<two>>
           c == <<eight>>
<1>1. l \in Nat
  BY FrameFacts
<1>2. lengthExtension(l) = CASE l < 126                -> none
                             [] l >= 126 /\ l <= 65535 -> b
                             [] l > 65535              -> c
  BY DEF lengthExtension
<1>3. Extension(f) = IF l <= 65535 THEN two ELSE eight
  BY DEF Extension
<1> HIDE DEF two, eight, none, b, c, l
<1>4. /\ l < 126 => lengthExtension(l) = none
      /\ l >= 126 /\ l <= 65535 => lengthExtension(l) = b
      /\ l > 65535 => lengthExtension(l) = c
  BY <1>1, <1>2, Chosen
<1>5. ASSUME l < 126
      PROVE  lengthExtension(l) = <<>>
  BY <1>4, <1>5 DEF none
<1>6. ASSUME l >= 126, l <= 65535
      PROVE  lengthExtension(l) = <<Extension(f)>>
  <2>1. lengthExtension(l) = b
    BY <1>4, <1>6
  <2>2. Extension(f) = two
    BY <1>3, <1>6
  <2> QED BY <2>1, <2>2 DEF b
<1>7. ASSUME l > 65535
      PROVE  lengthExtension(l) = <<Extension(f)>>
  <2>1. lengthExtension(l) = c
    BY <1>4, <1>7
  <2>2. Extension(f) = eight
    BY <1>1, <1>3, <1>7
  <2> QED BY <2>1, <2>2 DEF c
<1> QED BY <1>1, <1>5, <1>6, <1>7 DEF l

LEMMA ExtensionValue ==
  ASSUME NEW f \in FrameSet
  PROVE  Extension(f).value = f.len
<1>1. f.len \in Nat
  BY FrameFacts
<1>2. f.len <= 65535 => f.len % 2^16 = f.len
  <2>1. 2^16 = 65536
    OBVIOUS
  <2> QED BY <1>1, <2>1
<1> QED BY <1>1, <1>2 DEF Extension

LEMMA Triples ==
  ASSUME NEW S, NEW a \in S, NEW b \in S, NEW c \in S
  PROVE  /\ LET s == <<a>> \o <<b>> \o <<c>>
            IN  s \in Seq(S) /\ Len(s) = 3 /\ s[1] = a /\ s[2] = b /\ s[3] = c
         /\ LET s == <<a>> \o <<b>> \o <<>>
            IN  s \in Seq(S) /\ Len(s) = 2 /\ s[1] = a /\ s[2] = b
         /\ LET s == <<a>> \o <<>> \o <<c>>
            IN  s \in Seq(S) /\ Len(s) = 2 /\ s[1] = a /\ s[2] = c
         /\ LET s == <<a>> \o <<>> \o <<>>
            IN  s \in Seq(S) /\ Len(s) = 1 /\ s[1] = a
OBVIOUS

LEMMA HeadFields ==
  ASSUME NEW f, NEW mask
  PROVE  /\ Head1(f, mask).part = "head"
         /\ Head1(f, mask).op = f.op
         /\ Head1(f, mask).code = lengthCode(f.len)
BY DEF Head1

LEMMA Masked ==
  ASSUME NEW f, NEW mask, mask # NoMask
  PROVE  Head1(f, mask).masked = TRUE
BY Zenon DEF Head1

LEMMA Unmasked ==
  ASSUME NEW f, NEW mask, mask = NoMask
  PROVE  Head1(f, mask).masked = FALSE
BY Zenon DEF Head1

\* The parts of a header, in their order.
LEMMA HeaderFacts ==
  ASSUME NEW f \in FrameSet, NEW mask \in Masks
  PROVE  LET h == Header(f, mask)
         IN  /\ h \in Seq(Parts) /\ Len(h) = HeaderLen(f, mask)
             /\ h[1] = Head1(f, mask)
             /\ f.len >= 126 => h[2] = Extension(f)
             /\ mask # NoMask => h[HeaderLen(f, mask)] = MaskPart(mask)
<1> DEFINE a == Head1(f, mask)
           b == Extension(f)
           c == MaskPart(mask)
<1>1. a \in Parts /\ b \in Parts /\ c \in Parts
  BY PartsOfFrames
<1>2. Header(f, mask) = <<a>> \o lengthExtension(f.len)
                          \o (IF mask = NoMask THEN <<>> ELSE <<c>>)
  BY DEF Header, Head1, MaskPart
<1>3. f.len \in Nat
  BY FrameFacts
<1> HIDE DEF a, b, c
<1>4. ASSUME f.len < 126, mask = NoMask
      PROVE  Header(f, mask) = <<a>> \o <<>> \o <<>>
  BY <1>2, <1>4, ExtensionOfLength
<1>5. ASSUME f.len < 126, mask # NoMask
      PROVE  Header(f, mask) = <<a>> \o <<>> \o <<c>>
  BY <1>2, <1>5, ExtensionOfLength
<1>6. ASSUME f.len >= 126, mask = NoMask
      PROVE  Header(f, mask) = <<a>> \o <<b>> \o <<>>
  BY <1>2, <1>6, ExtensionOfLength DEF b
<1>7. ASSUME f.len >= 126, mask # NoMask
      PROVE  Header(f, mask) = <<a>> \o <<b>> \o <<c>>
  BY <1>2, <1>7, ExtensionOfLength DEF b
<1> DEFINE h == Header(f, mask)
           n == HeaderLen(f, mask)
<1>8. mask \in {0, 1} /\ (mask = 0 <=> mask = NoMask) /\ n = 1 + Extended(f.len) + mask
      /\ (f.len < 126 => Extended(f.len) = 0) /\ (f.len >= 126 => Extended(f.len) = 1)
  BY <1>3, NumbersOfParts
<1> HIDE DEF h, n
<1>9. ASSUME f.len < 126, mask = NoMask
      PROVE  h \in Seq(Parts) /\ Len(h) = n /\ h[1] = a
  <2>1. h = <<a>> \o <<>> \o <<>>
    BY <1>4, <1>9 DEF h
  <2>2. n = 1
    BY <1>8, <1>9
  <2> QED BY <1>1, <2>1, <2>2, Triples
<1>10. ASSUME f.len < 126, mask # NoMask
       PROVE  h \in Seq(Parts) /\ Len(h) = n /\ h[1] = a /\ h[n] = c
  <2>1. h = <<a>> \o <<>> \o <<c>>
    BY <1>5, <1>10 DEF h
  <2>2. n = 2
    BY <1>8, <1>10
  <2> QED BY <1>1, <2>1, <2>2, Triples
<1>11. ASSUME f.len >= 126, mask = NoMask
       PROVE  h \in Seq(Parts) /\ Len(h) = n /\ h[1] = a /\ h[2] = b
  <2>1. h = <<a>> \o <<b>> \o <<>>
    BY <1>6, <1>11 DEF h
  <2>2. n = 2
    BY <1>8, <1>11
  <2> QED BY <1>1, <2>1, <2>2, Triples
<1>12. ASSUME f.len >= 126, mask # NoMask
       PROVE  h \in Seq(Parts) /\ Len(h) = n /\ h[1] = a /\ h[2] = b /\ h[n] = c
  <2>1. h = <<a>> \o <<b>> \o <<c>>
    BY <1>7, <1>12 DEF h
  <2>2. n = 3
    BY <1>8, <1>12
  <2>3. LET s == <<a>> \o <<b>> \o <<c>>
        IN  s \in Seq(Parts) /\ Len(s) = 3 /\ s[1] = a /\ s[2] = b /\ s[3] = c
    BY <1>1
  <2> QED BY <2>1, <2>2, <2>3
<1> QED BY <1>3, <1>9, <1>10, <1>11, <1>12 DEF h, n, a, b, c

LEMMA PayloadFacts ==
  ASSUME NEW f \in FrameSet, NEW mask \in Masks
  PROVE  LET p == Payload(f, mask)
         IN  /\ p \in Seq(Parts) /\ Len(p) = Full(f)
             /\ f.len > 0 => p[1] = Content(f, mask)
             /\ p = <<>> <=> f.len = 0
<1>1. f.len \in Nat
  BY FrameFacts
<1>2. Content(f, mask) \in Parts
  BY PartsOfFrames
<1>3. Payload(f, mask) = IF f.len = 0 THEN <<>> ELSE <<Content(f, mask)>>
  BY DEF Payload, Content
<1> QED BY <1>1, <1>2, <1>3 DEF Full

\* A frame is its header and then its payload, if it has one.
LEMMA EncodingFacts ==
  ASSUME NEW f \in FrameSet, NEW mask \in Masks
  PROVE  LET e == Encoding(f, mask)
             h == Header(f, mask)
         IN  /\ e \in Seq(Parts) /\ Len(e) = HeaderLen(f, mask) + Full(f)
             /\ \A i \in 1 .. HeaderLen(f, mask) : e[i] = h[i]
             /\ f.len > 0 => e[HeaderLen(f, mask) + 1] = Content(f, mask)
             /\ f.len = 0 => e = h
<1> DEFINE h == Header(f, mask)
           p == Payload(f, mask)
<1>1. h \in Seq(Parts) /\ Len(h) = HeaderLen(f, mask)
  BY HeaderFacts
<1>2. /\ p \in Seq(Parts) /\ Len(p) = Full(f)
      /\ f.len > 0 => p[1] = Content(f, mask)
      /\ f.len = 0 => p = <<>>
  BY PayloadFacts
<1>3. f.len > 0 => Full(f) = 1
  BY FrameFacts DEF Full
<1> HIDE DEF h, p
<1> QED BY <1>1, <1>2, <1>3 DEF Encoding, h, p
-----------------------------------------------------------------------------
\* What is read of a stream that starts with a header, or with a whole frame.
At(s, n, e) == n + Len(e) <= Len(s) /\ \A i \in 1 .. Len(e) : s[n + i] = e[i]

\* The header announces the parts that follow it.
LEMMA PartsAnnounced ==
  ASSUME NEW f \in FrameSet, NEW mask \in Masks, NEW s, s[1] = Head1(f, mask)
  PROVE  LET k == HeaderParts(s)
         IN  /\ Len(k) = HeaderLen(f, mask)
             /\ k[1] = "head"
             /\ f.len >= 126 => k[2] = Extension(f).part
             /\ mask # NoMask => k[HeaderLen(f, mask)] = "mask"
<1>1. ASSUME f.len <= 65535
       PROVE  Extension(f).part = "uint16"
  BY <1>1 DEF Extension
<1>2. ASSUME ~(f.len <= 65535)
       PROVE  Extension(f).part = "uint64"
  BY <1>2 DEF Extension
<1> DEFINE a == "head"
           b == Extension(f).part
           c == "mask"
           two == <<"uint16">>
           eight == <<"uint64">>
           none == <<>>
           masked == s[1].masked
           m == CASE s[1].code = 126 -> two
                  [] s[1].code = 127 -> eight
                  [] OTHER           -> none
           z == IF masked THEN <<c>> ELSE <<>>
<1>3. f.len \in Nat /\ s[1].code = lengthCode(f.len)
  BY FrameFacts, HeadFields
<1>4. (mask # NoMask => masked = TRUE) /\ (mask = NoMask => masked = FALSE)
  BY Masked, Unmasked, Zenon
<1>5. HeaderParts(s) = <<a>> \o m \o z
  BY DEF HeaderParts
<1> HIDE DEF two, eight, none, masked
<1>6. ASSUME f.len < 126
      PROVE  m = <<>>
  <2>1. m = none
    BY <1>3, <1>6, CodeOfLength
  <2> QED BY <2>1 DEF none
<1>7. ASSUME f.len >= 126
      PROVE  m = <<b>>
  <2>1. CASE f.len <= 65535
    <3>1. m = two
      BY <1>3, <1>7, <2>1, CodeOfLength
    <3>2. b = "uint16"
      BY <1>1, <2>1
    <3> HIDE DEF m, b
    <3> QED BY <3>1, <3>2 DEF two
  <2>2. CASE f.len > 65535
    <3>1. m = eight
      BY <1>3, <2>2, CodeOfLength
    <3>2. b = "uint64"
      <4>1. ~(f.len <= 65535)
        BY <1>3, <2>2
      <4> QED BY <1>2, <4>1
    <3> HIDE DEF m, b
    <3> QED BY <3>1, <3>2 DEF eight
  <2> QED BY <1>3, <2>1, <2>2
<1>8. ASSUME mask = NoMask
      PROVE  z = <<>>
  BY <1>4, <1>8, Zenon
<1>9. ASSUME mask # NoMask
      PROVE  z = <<c>>
  BY <1>4, <1>9, Zenon
<1> DEFINE S == {a, b, c}
<1>10. a \in S /\ b \in S /\ c \in S
  OBVIOUS
<1> DEFINE h == HeaderParts(s)
           n == HeaderLen(f, mask)
<1>11. mask \in {0, 1} /\ (mask = 0 <=> mask = NoMask) /\ n = 1 + Extended(f.len) + mask
      /\ (f.len < 126 => Extended(f.len) = 0) /\ (f.len >= 126 => Extended(f.len) = 1)
  BY <1>3, NumbersOfParts
<1> HIDE DEF a, b, c, m, z, h, n, S
<1>12. ASSUME f.len < 126, mask = NoMask
       PROVE  Len(h) = n /\ h[1] = a
  <2>1. h = <<a>> \o <<>> \o <<>>
    BY <1>5, <1>6, <1>8, <1>12 DEF h
  <2>2. n = 1
    BY <1>11, <1>12
  <2> QED BY <1>10, <2>1, <2>2, Triples
<1>13. ASSUME f.len < 126, mask # NoMask
       PROVE  Len(h) = n /\ h[1] = a /\ h[n] = c
  <2>1. h = <<a>> \o <<>> \o <<c>>
    BY <1>5, <1>6, <1>9, <1>13 DEF h
  <2>2. n = 2
    BY <1>11, <1>13
  <2> QED BY <1>10, <2>1, <2>2, Triples
<1>14. ASSUME f.len >= 126, mask = NoMask
       PROVE  Len(h) = n /\ h[1] = a /\ h[2] = b
  <2>1. h = <<a>> \o <<b>> \o <<>>
    BY <1>5, <1>7, <1>8, <1>14 DEF h
  <2>2. n = 2
    BY <1>11, <1>14
  <2> QED BY <1>10, <2>1, <2>2, Triples
<1>15. ASSUME f.len >= 126, mask # NoMask
       PROVE  Len(h) = n /\ h[1] = a /\ h[2] = b /\ h[n] = c
  <2>1. h = <<a>> \o <<b>> \o <<c>>
    BY <1>5, <1>7, <1>9, <1>15 DEF h
  <2>2. n = 3
    BY <1>11, <1>15
  <2>3. LET t == <<a>> \o <<b>> \o <<c>>
        IN  Len(t) = 3 /\ t[1] = a /\ t[2] = b /\ t[3] = c
    BY <1>10
  <2> QED BY <2>1, <2>2, <2>3
<1> QED BY <1>3, <1>12, <1>13, <1>14, <1>15 DEF h, n, a, b, c

\* What the header says is what was encoded.
LEMMA HeaderIsRead ==
  ASSUME NEW f \in FrameSet, NEW mask \in Masks, NEW s \in Seq(Parts),
         At(s, 0, Header(f, mask))
  PROVE  /\ HeaderRead(s)
         /\ s[1].op = f.op
         /\ size(s) = f.len
         /\ key(s) = mask
         /\ Len(HeaderParts(s)) = HeaderLen(f, mask)
         /\ FrameParts(s) = HeaderLen(f, mask) + Full(f)
         /\ \A i \in 1 .. HeaderLen(f, mask) : s[i].part = HeaderParts(s)[i]
         /\ TooLarge(s) <=> f.len > MaxPayload
<1> DEFINE n == HeaderLen(f, mask)
           e == Extended(f.len)
<1>1. /\ f.len \in Nat /\ mask \in {0, 1} /\ e \in {0, 1} /\ n = 1 + e + mask
      /\ (mask = 0 <=> mask = NoMask) /\ (e = 0 <=> f.len < 126)
      /\ Full(f) = IF f.len = 0 THEN 0 ELSE 1
  BY FrameFacts, NumbersOfParts DEF Full
<1> HIDE DEF n, e
<1>2. /\ n <= Len(s)
      /\ s[1] = Head1(f, mask)
      /\ f.len >= 126 => s[2] = Extension(f)
      /\ mask # NoMask => s[n] = MaskPart(mask)
  <2>1. Len(Header(f, mask)) = n
    BY HeaderFacts DEF n
  <2>2. 0 + n <= Len(s) /\ \A i \in 1 .. n : s[0 + i] = Header(f, mask)[i]
    BY <2>1 DEF At
  <2>3. \A i \in 1 .. n : s[i] = Header(f, mask)[i]
    BY <2>2
  <2>4. 1 \in 1 .. n /\ (f.len >= 126 => 2 \in 1 .. n) /\ n \in 1 .. n
    BY <1>1
  <2> QED BY <1>1, <2>2, <2>3, <2>4, HeaderFacts DEF n
<1>3. /\ Len(HeaderParts(s)) = n
      /\ HeaderParts(s)[1] = "head"
      /\ f.len >= 126 => HeaderParts(s)[2] = Extension(f).part
      /\ mask # NoMask => HeaderParts(s)[n] = "mask"
  BY <1>2, PartsAnnounced DEF n
<1>4. HeaderRead(s)
  BY <1>1, <1>2, <1>3 DEF HeaderRead
<1>5. s[1].part = "head" /\ s[1].op = f.op /\ s[1].code = lengthCode(f.len)
  BY <1>2, HeadFields
<1>6. (mask # NoMask => s[1].masked = TRUE) /\ (mask = NoMask => s[1].masked = FALSE)
  BY <1>2, Masked, Unmasked, Zenon
<1>7. size(s) = f.len
  <2>1. CASE f.len < 126
    BY <1>1, <1>5, <2>1, CodeOfLength DEF size
  <2>2. CASE f.len >= 126
    <3>1. ~(s[1].code < 126)
      BY <1>1, <1>5, <2>2, CodeOfLength
    <3>2. s[2].value = f.len
      BY <1>2, <2>2, ExtensionValue
    <3> QED BY <3>1, <3>2 DEF size
  <2> QED BY <1>1, <2>1, <2>2
<1>8. key(s) = mask
  <2>1. ASSUME mask = NoMask
        PROVE  key(s) = NoMask
    BY <1>6, <2>1, Zenon DEF key
  <2>2. ASSUME mask # NoMask
        PROVE  key(s) = mask
    <3>1. key(s) = s[Len(HeaderParts(s))].value
      BY <1>6, <2>2, Zenon DEF key
    <3> QED BY <1>2, <1>3, <2>2, <3>1 DEF MaskPart
  <2> QED BY <2>1, <2>2
<1>9. FrameParts(s) = n + Full(f)
  BY <1>1, <1>3, <1>7 DEF FrameParts
<1>10. ASSUME NEW i \in 1 .. n
      PROVE  s[i].part = HeaderParts(s)[i]
  <2>1. CASE i = 1
    BY <1>3, <1>5, <2>1
  <2>2. CASE f.len >= 126 /\ i = 2
    BY <1>2, <1>3, <2>2
  <2>3. CASE mask # NoMask /\ i = n
    BY <1>2, <1>3, <2>3 DEF MaskPart
  <2> QED BY <1>1, <2>1, <2>2, <2>3
<1>11. TooLarge(s) <=> f.len > MaxPayload
  BY <1>4, <1>7 DEF TooLarge
<1> QED BY <1>3, <1>4, <1>5, <1>7, <1>8, <1>9, <1>10, <1>11 DEF n

\* A reader at the start of a frame takes that frame and stops at its end.
LEMMA FrameIsRead ==
  ASSUME NEW f \in FrameSet, NEW mask \in Masks, NEW s \in Seq(Parts),
         At(s, 0, Encoding(f, mask)), FrameRead(s)
  PROVE  /\ FrameParts(s) = Len(Encoding(f, mask))
         /\ ReadFrame(s) = f
         /\ Aligned(s)
<1> DEFINE n == HeaderLen(f, mask)
           h == Header(f, mask)
           e == Encoding(f, mask)
<1>1. /\ f.len \in Nat /\ n \in 1 .. 3 /\ Full(f) \in {0, 1} /\ (Full(f) = 0 <=> f.len = 0)
      /\ f.len = 0 => f.says = 0
      /\ f = Frame(f.op, f.len, f.says)
  BY FrameFacts, NumbersOfParts
<1>2. /\ Len(e) = n + Full(f) /\ Len(h) = n
      /\ \A i \in 1 .. n : e[i] = h[i]
      /\ f.len > 0 => e[n + 1] = Content(f, mask)
  BY EncodingFacts, HeaderFacts
<1>3. Len(e) <= Len(s) /\ \A i \in 1 .. Len(e) : s[i] = e[i]
  <2>1. 0 + Len(e) <= Len(s) /\ \A i \in 1 .. Len(e) : s[0 + i] = e[i]
    BY DEF At
  <2> QED BY <1>1, <1>2, <2>1
<1> HIDE DEF n, h, e
<1>4. At(s, 0, h)
  BY <1>1, <1>2, <1>3 DEF At
<1>5. /\ s[1].op = f.op /\ size(s) = f.len /\ key(s) = mask
      /\ Len(HeaderParts(s)) = n
      /\ FrameParts(s) = n + Full(f)
      /\ \A i \in 1 .. n : s[i].part = HeaderParts(s)[i]
  BY <1>4, HeaderIsRead DEF h, n
<1>6. f.len > 0 => s[n + 1] = Content(f, mask)
  BY <1>1, <1>2, <1>3
<1>7. Aligned(s)
  <2>1. ASSUME size(s) > 0
        PROVE  s[FrameParts(s)].part = "payload" /\ s[FrameParts(s)].len = size(s)
    <3>1. s[FrameParts(s)] = Content(f, mask)
      BY <1>1, <1>5, <1>6, <2>1
    <3> QED BY <1>5, <3>1 DEF Content
  <2> QED BY <1>5, <2>1 DEF Aligned
<1>8. ReadFrame(s) = f
  <2> DEFINE p == s[FrameParts(s)]
             says == IF p.mask = key(s) THEN p.says ELSE Garbled
  <2>1. ReadFrame(s) = Frame(f.op, f.len, says)
    BY <1>5 DEF ReadFrame
  <2>2. CASE f.len = 0
    BY <1>1, <2>1, <2>2 DEF Frame
  <2>3. CASE f.len > 0
    <3>1. p = Content(f, mask)
      BY <1>1, <1>5, <1>6, <2>3
    <3>2. says = f.says
      BY <1>5, <3>1 DEF Content
    <3> QED BY <1>1, <2>1, <3>2
  <2> QED BY <1>1, <2>2, <2>3
<1> QED BY <1>2, <1>5, <1>7, <1>8 DEF e, n

\* A payload that has not come yet is waited for.
LEMMA HeaderAlone ==
  ASSUME NEW f \in FrameSet, NEW mask \in Masks, NEW s \in Seq(Parts),
         At(s, 0, Header(f, mask)), Len(s) = Len(Header(f, mask)), f.len > 0
  PROVE  ~FrameRead(s)
<1>1. f.len \in Nat /\ HeaderLen(f, mask) \in 1 .. 3
  BY FrameFacts, NumbersOfParts
<1>2. Len(s) = HeaderLen(f, mask)
  BY HeaderFacts
<1>3. FrameParts(s) = HeaderLen(f, mask) + 1
  BY <1>1, HeaderIsRead DEF Full
<1> QED BY <1>1, <1>2, <1>3 DEF FrameRead

-----------------------------------------------------------------------------
\* Where something is on a stream, when the stream grows and when it is read.
LEMMA AtBefore ==
  ASSUME NEW s \in Seq(Parts), NEW t \in Seq(Parts), NEW e \in Seq(Parts), NEW n \in Nat,
         At(s, n, e)
  PROVE  At(s \o t, n, e)
BY DEF At

LEMMA AtEnd ==
  ASSUME NEW s \in Seq(Parts), NEW t \in Seq(Parts)
  PROVE  At(s \o t, Len(s), t)
BY DEF At

LEMMA AtRest ==
  ASSUME NEW s \in Seq(Parts), NEW e \in Seq(Parts), NEW n \in Nat, NEW d \in 0 .. n,
         At(s, n, e)
  PROVE  At(SubSeq(s, d + 1, Len(s)), n - d, e)
<1> DEFINE t == SubSeq(s, d + 1, Len(s))
<1>1. n + Len(e) <= Len(s) /\ \A i \in 1 .. Len(e) : s[n + i] = e[i]
  BY DEF At
<1>2. Len(t) = Len(s) - d /\ \A i \in 1 .. Len(t) : t[i] = s[d + i]
  BY <1>1
<1> HIDE DEF t
<1>3. ASSUME NEW i \in 1 .. Len(e)
      PROVE  t[(n - d) + i] = e[i]
  <2>1. (n - d) + i \in 1 .. Len(t) /\ d + ((n - d) + i) = n + i
    BY <1>1, <1>2
  <2> QED BY <1>1, <1>2, <2>1
<1>4. (n - d) + Len(e) <= Len(t)
  BY <1>1, <1>2
<1> QED BY <1>3, <1>4 DEF At, t

LEMMA AtBoth ==
  ASSUME NEW s \in Seq(Parts), NEW f \in FrameSet, NEW mask \in Masks, NEW n \in Nat,
         At(s, n, Header(f, mask)), At(s, n + Len(Header(f, mask)), Payload(f, mask))
  PROVE  At(s, n, Encoding(f, mask))
<1> DEFINE h == Header(f, mask)
           p == Payload(f, mask)
           e == Encoding(f, mask)
<1>1. h \in Seq(Parts) /\ p \in Seq(Parts)
  BY HeaderFacts, PayloadFacts
<1>2. e = h \o p
  BY DEF Encoding
<1>3. n + Len(h) <= Len(s) /\ \A i \in 1 .. Len(h) : s[n + i] = h[i]
  BY DEF At
<1>4. n + Len(h) + Len(p) <= Len(s) /\ \A i \in 1 .. Len(p) : s[n + Len(h) + i] = p[i]
  BY DEF At
<1> HIDE DEF h, p, e
<1>5. Len(e) = Len(h) + Len(p)
  BY <1>1, <1>2
<1>6. ASSUME NEW i \in 1 .. Len(e)
      PROVE  s[n + i] = e[i]
  <2>1. CASE i <= Len(h)
    BY <1>1, <1>2, <1>3, <1>5, <2>1
  <2>2. CASE i > Len(h)
    <3> DEFINE j == i - Len(h)
    <3>1. j \in 1 .. Len(p) /\ n + i = n + Len(h) + j /\ i = Len(h) + j
      BY <1>1, <1>5, <2>2
    <3>2. e[Len(h) + j] = p[j]
      BY <1>1, <1>2, <3>1
    <3> QED BY <1>4, <3>1, <3>2
  <2> QED BY <1>1, <2>1, <2>2
<1>7. n + Len(e) <= Len(s)
  BY <1>1, <1>4, <1>5
<1> QED BY <1>6, <1>7 DEF At, e

-----------------------------------------------------------------------------
\* A stream carries the frames of a sequence after the k-th: the first w of the
\* sequence whole, and of one more, the last, its header only.  It is cut into
\* pieces, the i-th of which ends at c[i].
Sent(fs, i, m, w) == IF i <= w THEN Encoding(fs[i], m) ELSE Header(fs[i], m)

Cut(s, fs, k, m, w, c) ==
  /\ k \in 0 .. w /\ w \in {Len(fs) - 1, Len(fs)}
  /\ w < Len(fs) => fs[Len(fs)].len > 0
  /\ c \in [k .. Len(fs) -> 0 .. Len(s)]
  /\ c[k] = 0 /\ c[Len(fs)] = Len(s)
  /\ \A i, j \in k .. Len(fs) : i <= j => c[i] <= c[j]
  /\ \A i \in k + 1 .. Len(fs) :
       /\ c[i] = c[i - 1] + Len(Sent(fs, i, m, w))
       /\ At(s, c[i - 1], Sent(fs, i, m, w))

Carries(s, fs, k, m, w) == \E c : Cut(s, fs, k, m, w, c)

LEMMA SentFacts ==
  ASSUME NEW f \in FrameSet, NEW m \in Masks
  PROVE  /\ Header(f, m) \in Seq(Parts) /\ Len(Header(f, m)) \in 1 .. 3
         /\ Encoding(f, m) \in Seq(Parts) /\ Len(Encoding(f, m)) \in 1 .. 4
         /\ Payload(f, m) \in Seq(Parts)
         /\ Len(Encoding(f, m)) = Len(Header(f, m)) + Len(Payload(f, m))
         /\ f.len = 0 => Encoding(f, m) = Header(f, m)
<1>1. HeaderLen(f, m) \in 1 .. 3 /\ Full(f) \in {0, 1}
  BY NumbersOfParts
<1>2. Len(Header(f, m)) = HeaderLen(f, m) /\ Header(f, m) \in Seq(Parts)
  BY HeaderFacts
<1>3. Len(Payload(f, m)) = Full(f) /\ Payload(f, m) \in Seq(Parts)
  BY PayloadFacts
<1>4. /\ Encoding(f, m) \in Seq(Parts) /\ Len(Encoding(f, m)) = HeaderLen(f, m) + Full(f)
      /\ f.len = 0 => Encoding(f, m) = Header(f, m)
  BY EncodingFacts
<1> QED BY <1>1, <1>2, <1>3, <1>4

LEMMA SentSeq ==
  ASSUME NEW fs \in Seq(FrameSet), NEW i \in 1 .. Len(fs), NEW m \in Masks, NEW w \in Int
  PROVE  Sent(fs, i, m, w) \in Seq(Parts) /\ Len(Sent(fs, i, m, w)) \in 1 .. 4
<1>1. fs[i] \in FrameSet
  OBVIOUS
<1> QED BY <1>1, SentFacts DEF Sent

LEMMA CarriesNothing ==
  ASSUME NEW fs \in Seq(FrameSet), NEW m \in Masks
  PROVE  Carries(<<>>, fs, Len(fs), m, Len(fs))
<1> DEFINE c == [i \in Len(fs) .. Len(fs) |-> 0]
<1>1. Cut(<<>>, fs, Len(fs), m, Len(fs), c)
  BY DEF Cut
<1> QED BY <1>1 DEF Carries

\* A frame that comes whole.
LEMMA CarriesFirst ==
  ASSUME NEW s \in Seq(Parts), NEW fs \in Seq(FrameSet), NEW k, NEW m \in Masks, NEW w,
         Carries(s, fs, k, m, w), FrameRead(s)
  PROVE  /\ k \in 0 .. w - 1 /\ k + 1 \in 1 .. Len(fs)
         /\ ReadFrame(s) = fs[k + 1]
         /\ Aligned(s)
         /\ SubSeq(s, FrameParts(s) + 1, Len(s)) \in Seq(Parts)
         /\ Carries(SubSeq(s, FrameParts(s) + 1, Len(s)), fs, k + 1, m, w)
<1>1. PICK c : Cut(s, fs, k, m, w, c)
  BY DEF Carries
<1>2. /\ k \in 0 .. w /\ w \in {Len(fs) - 1, Len(fs)} /\ Len(fs) \in Nat
      /\ w < Len(fs) => fs[Len(fs)].len > 0
      /\ c \in [k .. Len(fs) -> 0 .. Len(s)]
      /\ c[k] = 0 /\ c[Len(fs)] = Len(s)
      /\ \A i, j \in k .. Len(fs) : i <= j => c[i] <= c[j]
      /\ \A i \in k + 1 .. Len(fs) :
           /\ c[i] = c[i - 1] + Len(Sent(fs, i, m, w))
           /\ At(s, c[i - 1], Sent(fs, i, m, w))
  BY <1>1 DEF Cut
<1>3. s # <<>> /\ Len(s) > 0
  BY DEF FrameRead, HeaderRead
<1>4. k < Len(fs)
  BY <1>2, <1>3
<1>5. /\ fs[k + 1] \in FrameSet
      /\ c[k + 1] = Len(Sent(fs, k + 1, m, w))
      /\ At(s, 0, Sent(fs, k + 1, m, w))
      /\ Sent(fs, k + 1, m, w) \in Seq(Parts)
      /\ c[k + 1] \in 1 .. 4
  <2>1. k + 1 \in k + 1 .. Len(fs) /\ (k + 1) - 1 = k /\ k + 1 \in 1 .. Len(fs) /\ w \in Int
    BY <1>2, <1>4
  <2>2. c[k + 1] = c[(k + 1) - 1] + Len(Sent(fs, k + 1, m, w))
        /\ At(s, c[(k + 1) - 1], Sent(fs, k + 1, m, w))
    BY <1>2, <2>1
  <2>3. c[k + 1] = 0 + Len(Sent(fs, k + 1, m, w)) /\ At(s, 0, Sent(fs, k + 1, m, w))
    BY <1>2, <2>1, <2>2
  <2>4. Sent(fs, k + 1, m, w) \in Seq(Parts) /\ Len(Sent(fs, k + 1, m, w)) \in 1 .. 4
    BY <2>1, SentSeq
  <2> QED BY <2>1, <2>3, <2>4
<1>6. k < w
  <2>1. SUFFICES ASSUME k = w
                 PROVE  FALSE
    BY <1>2
  <2>2. k + 1 = Len(fs) /\ fs[k + 1].len > 0 /\ ~(k + 1 <= w)
    BY <1>2, <1>4, <2>1
  <2>3. Sent(fs, k + 1, m, w) = Header(fs[k + 1], m)
    BY <2>2 DEF Sent
  <2>4. At(s, 0, Header(fs[k + 1], m)) /\ Len(s) = Len(Header(fs[k + 1], m))
    BY <1>2, <1>5, <2>2, <2>3
  <2> QED BY <1>5, <2>2, <2>4, HeaderAlone
<1>7. Sent(fs, k + 1, m, w) = Encoding(fs[k + 1], m)
  BY <1>2, <1>6 DEF Sent
<1>8. /\ FrameParts(s) = c[k + 1]
      /\ ReadFrame(s) = fs[k + 1]
      /\ Aligned(s)
  BY <1>5, <1>7, FrameIsRead
<1> DEFINE d == c[k + 1]
           t == SubSeq(s, d + 1, Len(s))
           b == [i \in k + 1 .. Len(fs) |-> c[i] - d]
<1>9. ASSUME NEW i \in k + 1 .. Len(fs)
      PROVE  c[i] \in d .. Len(s)
  <2>1. k + 1 \in k .. Len(fs) /\ i \in k .. Len(fs) /\ k + 1 <= i
    BY <1>2, <1>4
  <2>2. c[k + 1] <= c[i] /\ c[i] \in 0 .. Len(s)
    BY <1>2, <2>1
  <2> QED BY <1>5, <2>2
<1>10. Len(t) = Len(s) - d /\ t \in Seq(Parts)
  <2>1. d \in 0 .. Len(s)
    BY <1>4, <1>2, <1>5, <1>9
  <2> HIDE DEF d
  <2> QED BY <2>1
<1> HIDE DEF d, t
<1>11. Cut(t, fs, k + 1, m, w, b)
  <2>1. k + 1 \in 0 .. w /\ w \in {Len(fs) - 1, Len(fs)}
    BY <1>2, <1>6
  <2>2. d \in 1 .. 4
    BY <1>5 DEF d
  <2>3. b \in [k + 1 .. Len(fs) -> 0 .. Len(t)]
    <3>1. ASSUME NEW i \in k + 1 .. Len(fs)
          PROVE  c[i] - d \in 0 .. Len(t)
      BY <1>9, <1>10, <2>2, <3>1
    <3> QED BY <3>1
  <2>4. b[k + 1] = 0 /\ b[Len(fs)] = Len(t)
    BY <1>2, <1>4, <1>10, <2>2 DEF d
  <2>5. \A i, j \in k + 1 .. Len(fs) : i <= j => b[i] <= b[j]
    BY <1>2, <1>9, <2>2
  <2>6. ASSUME NEW i \in (k + 1) + 1 .. Len(fs)
        PROVE  /\ b[i] = b[i - 1] + Len(Sent(fs, i, m, w))
               /\ At(t, b[i - 1], Sent(fs, i, m, w))
    <3>1. i \in k + 1 .. Len(fs) /\ i - 1 \in k + 1 .. Len(fs) /\ i \in 1 .. Len(fs) /\ w \in Int
      BY <1>2
    <3>2. c[i] = c[i - 1] + Len(Sent(fs, i, m, w)) /\ At(s, c[i - 1], Sent(fs, i, m, w))
      BY <1>2, <3>1
    <3>3. c[i - 1] \in Nat /\ c[i] \in Nat /\ d \in 0 .. c[i - 1]
      BY <1>9, <2>2, <3>1
    <3>4. Sent(fs, i, m, w) \in Seq(Parts) /\ Len(Sent(fs, i, m, w)) \in 1 .. 4
      BY <3>1, SentSeq
    <3>5. At(t, c[i - 1] - d, Sent(fs, i, m, w))
      BY <3>2, <3>3, <3>4, AtRest DEF t
    <3>6. b[i] = c[i] - d /\ b[i - 1] = c[i - 1] - d
      BY <3>1
    <3> HIDE DEF b
    <3> QED BY <2>2, <3>2, <3>3, <3>4, <3>5, <3>6
  <2> HIDE DEF b
  <2> QED BY <1>2, <2>1, <2>3, <2>4, <2>5, <2>6 DEF Cut
<1> HIDE DEF b
<1>12. Carries(t, fs, k + 1, m, w)
  BY <1>11 DEF Carries
<1> QED BY <1>2, <1>6, <1>8, <1>10, <1>12 DEF t, d

\* An empty stream carries nothing.
LEMMA CarriesNone ==
  ASSUME NEW fs \in Seq(FrameSet), NEW k, NEW m \in Masks, NEW w,
         Carries(<<>>, fs, k, m, w)
  PROVE  k = Len(fs) /\ w = Len(fs)
<1>1. PICK c : Cut(<<>>, fs, k, m, w, c)
  BY DEF Carries
<1>2. /\ k \in 0 .. w /\ w \in {Len(fs) - 1, Len(fs)} /\ Len(fs) \in Nat
      /\ c \in [k .. Len(fs) -> 0 .. 0]
      /\ \A i \in k + 1 .. Len(fs) : c[i] = c[i - 1] + Len(Sent(fs, i, m, w))
  BY <1>1 DEF Cut
<1>3. SUFFICES ASSUME k < Len(fs)
               PROVE  FALSE
  BY <1>2
<1>4. c[Len(fs)] = c[Len(fs) - 1] + Len(Sent(fs, Len(fs), m, w))
  BY <1>2, <1>3
<1>5. c[Len(fs)] = 0 /\ c[Len(fs) - 1] = 0
  BY <1>2, <1>3
<1>6. Len(Sent(fs, Len(fs), m, w)) \in 1 .. 4
  BY <1>2, <1>3, SentSeq
<1> QED BY <1>4, <1>5, <1>6

\* The header of one frame more.
LEMMA CarriesHeader ==
  ASSUME NEW s \in Seq(Parts), NEW fs \in Seq(FrameSet), NEW f \in FrameSet, NEW k,
         NEW m \in Masks, Carries(s, fs, k, m, Len(fs))
  PROVE  Carries(s \o Header(f, m), Append(fs, f), k, m,
                 IF f.len = 0 THEN Len(fs) + 1 ELSE Len(fs))
<1> DEFINE h == Header(f, m)
           t == s \o h
           gs == Append(fs, f)
           n == Len(fs)
           w == IF f.len = 0 THEN n + 1 ELSE n
<1>1. PICK c : Cut(s, fs, k, m, n, c)
  BY DEF Carries
<1>2. /\ k \in 0 .. n /\ n \in Nat
      /\ c \in [k .. n -> 0 .. Len(s)]
      /\ c[k] = 0 /\ c[n] = Len(s)
      /\ \A i, j \in k .. n : i <= j => c[i] <= c[j]
      /\ \A i \in k + 1 .. n :
           /\ c[i] = c[i - 1] + Len(Sent(fs, i, m, n))
           /\ At(s, c[i - 1], Sent(fs, i, m, n))
  BY <1>1 DEF Cut
<1>3. h \in Seq(Parts) /\ Len(h) \in 1 .. 3 /\ (f.len = 0 => Encoding(f, m) = h)
  BY SentFacts
<1>4. f.len \in Nat
  BY FrameFacts
<1>5. gs \in Seq(FrameSet) /\ Len(gs) = n + 1 /\ gs[n + 1] = f
      /\ \A i \in 1 .. n : gs[i] = fs[i]
  OBVIOUS
<1>6. Len(t) = Len(s) + Len(h) /\ t \in Seq(Parts) /\ Len(s) \in Nat
  BY <1>3
<1> DEFINE b == [i \in k .. n + 1 |-> IF i <= n THEN c[i] ELSE Len(t)]
<1> HIDE DEF h, t, gs, w, n
<1>7. w \in {n, n + 1} /\ (w < n + 1 => f.len > 0) /\ (w = n + 1 => f.len = 0)
  BY <1>2, <1>4 DEF w
<1>8. \A i \in k .. n : c[i] \in 0 .. Len(s)
  BY <1>2
<1>9. b[n + 1] = Len(t) /\ \A i \in k .. n : b[i] = c[i]
  BY <1>2
<1>10. b \in [k .. n + 1 -> 0 .. Len(t)]
  BY <1>3, <1>6, <1>8
<1> HIDE DEF b
<1>11. Sent(gs, n + 1, m, w) = h
  BY <1>2, <1>3, <1>5, <1>7 DEF Sent, h
<1>12. ASSUME NEW i \in k + 1 .. n
       PROVE  Sent(gs, i, m, w) = Sent(fs, i, m, n)
  <2>1. i \in 1 .. n /\ i <= w /\ i <= n
    BY <1>2, <1>7
  <2> QED BY <1>5, <2>1 DEF Sent
<1>13. ASSUME NEW i \in k + 1 .. n
       PROVE  /\ b[i] = b[i - 1] + Len(Sent(gs, i, m, w))
              /\ At(t, b[i - 1], Sent(gs, i, m, w))
  <2>1. i \in k .. n /\ i - 1 \in k .. n /\ i \in 1 .. n /\ n \in Int
    BY <1>2
  <2>2. Sent(fs, i, m, n) \in Seq(Parts)
    BY <2>1, SentSeq DEF n
  <2>3. c[i - 1] \in Nat /\ At(s, c[i - 1], Sent(fs, i, m, n))
    BY <1>2, <1>8, <2>1
  <2>4. At(t, c[i - 1], Sent(fs, i, m, n))
    BY <1>3, <2>2, <2>3, AtBefore DEF t
  <2> QED BY <1>2, <1>9, <1>12, <2>1, <2>4
<1>14. b[n + 1] = b[n] + Len(h) /\ At(t, b[n], h)
  <2>1. At(t, Len(s), h)
    BY <1>3, AtEnd DEF t
  <2>2. b[n] = Len(s)
    BY <1>2, <1>9
  <2> QED BY <1>6, <1>9, <2>1, <2>2
<1>15. \A i \in k + 1 .. n + 1 :
         /\ b[i] = b[i - 1] + Len(Sent(gs, i, m, w))
         /\ At(t, b[i - 1], Sent(gs, i, m, w))
  <2>1. ASSUME NEW i \in k + 1 .. n + 1, i = n + 1
        PROVE  /\ b[i] = b[i - 1] + Len(Sent(gs, i, m, w))
               /\ At(t, b[i - 1], Sent(gs, i, m, w))
    <3>1. i - 1 = n
      BY <1>2, <2>1
    <3> QED BY <1>11, <1>14, <2>1, <3>1
  <2>2. \A i \in k + 1 .. n + 1 : i = n + 1 \/ i \in k + 1 .. n
    BY <1>2
  <2> QED BY <1>13, <2>1, <2>2
<1>16. \A i, j \in k .. n + 1 : i <= j => b[i] <= b[j]
  <2>1. ASSUME NEW i \in k .. n + 1, NEW j \in k .. n + 1, i <= j
        PROVE  b[i] <= b[j]
    <3>1. CASE j = n + 1
      BY <1>6, <1>9, <1>10, <3>1
    <3>2. CASE j # n + 1
      <4>1. i \in k .. n /\ j \in k .. n
        BY <1>2, <2>1, <3>2
      <4> QED BY <1>2, <1>9, <2>1, <4>1
    <3> QED BY <3>1, <3>2
  <2> QED BY <2>1
<1>17. b[k] = 0
  BY <1>2, <1>9
<1>18. k \in 0 .. w /\ w \in {Len(gs) - 1, Len(gs)} /\ (w < Len(gs) => gs[Len(gs)].len > 0)
  BY <1>2, <1>5, <1>7
<1>19. Cut(t, gs, k, m, w, b)
  BY <1>5, <1>9, <1>10, <1>15, <1>16, <1>17, <1>18 DEF Cut
<1>20. Carries(t, gs, k, m, w)
  BY <1>19 DEF Carries
<1> QED BY <1>20 DEF t, gs, w, n, h

\* The rest of the last frame.
LEMMA CarriesPayload ==
  ASSUME NEW s \in Seq(Parts), NEW fs \in Seq(FrameSet), NEW k, NEW m \in Masks, NEW w,
         Carries(s, fs, k, m, w), w < Len(fs)
  PROVE  Carries(s \o Payload(fs[Len(fs)], m), fs, k, m, Len(fs))
<1> DEFINE n == Len(fs)
           f == fs[n]
           h == Header(f, m)
           p == Payload(f, m)
           t == s \o p
<1>1. PICK c : Cut(s, fs, k, m, w, c)
  BY DEF Carries
<1>2. /\ k \in 0 .. w /\ w \in {n - 1, n}
      /\ c \in [k .. n -> 0 .. Len(s)]
      /\ c[k] = 0 /\ c[n] = Len(s)
      /\ \A i, j \in k .. n : i <= j => c[i] <= c[j]
      /\ \A i \in k + 1 .. n :
           /\ c[i] = c[i - 1] + Len(Sent(fs, i, m, w))
           /\ At(s, c[i - 1], Sent(fs, i, m, w))
  BY ONLY <1>1 DEF Cut
<1>3. /\ k \in 0 .. w /\ n \in Nat /\ w = n - 1
      /\ c \in [k .. n -> 0 .. Len(s)]
      /\ c[k] = 0 /\ c[n] = Len(s)
      /\ \A i, j \in k .. n : i <= j => c[i] <= c[j]
      /\ \A i \in k + 1 .. n :
           /\ c[i] = c[i - 1] + Len(Sent(fs, i, m, w))
           /\ At(s, c[i - 1], Sent(fs, i, m, w))
  <2>1. w = n - 1 /\ n \in Nat
    BY <1>2
  <2> HIDE DEF n
  <2> QED BY <1>2, <2>1
<1>4. n \in 1 .. n /\ f \in FrameSet /\ k < n
  BY <1>3
<1>5. /\ h \in Seq(Parts) /\ Len(h) \in 1 .. 3 /\ p \in Seq(Parts)
      /\ Len(Encoding(f, m)) = Len(h) + Len(p)
  BY <1>4, SentFacts
<1>6. t \in Seq(Parts) /\ Len(t) = Len(s) + Len(p) /\ Len(s) \in Nat /\ Len(p) \in Nat
  BY <1>5
<1> DEFINE b == [i \in k .. n |-> IF i < n THEN c[i] ELSE Len(t)]
<1> HIDE DEF n, f, h, p, t
<1>7. b[n] = Len(t) /\ \A i \in k .. n - 1 : b[i] = c[i]
  BY <1>3
<1>8. \A i \in k .. n : c[i] \in 0 .. Len(s)
  BY <1>3
<1>9. b \in [k .. n -> 0 .. Len(t)]
  BY <1>6, <1>8
<1> HIDE DEF b
<1>10. Sent(fs, n, m, w) = h /\ Sent(fs, n, m, n) = Encoding(f, m)
  BY <1>3 DEF Sent, h, f
<1>11. c[n - 1] \in Nat /\ Len(s) = c[n - 1] + Len(h) /\ At(s, c[n - 1], h)
  <2>1. n \in k + 1 .. n /\ n - 1 \in k .. n
    BY <1>3, <1>4
  <2> QED BY <1>3, <1>8, <1>10, <2>1
<1>12. At(t, c[n - 1], Encoding(f, m))
  <2>1. At(t, c[n - 1], h)
    BY <1>5, <1>11, AtBefore DEF t
  <2>2. At(t, c[n - 1] + Len(h), p)
    BY <1>5, <1>11, AtEnd DEF t
  <2> QED BY <1>4, <1>6, <1>11, <2>1, <2>2, AtBoth DEF h, p
<1>13. \A i \in k + 1 .. n :
         /\ b[i] = b[i - 1] + Len(Sent(fs, i, m, n))
         /\ At(t, b[i - 1], Sent(fs, i, m, n))
  <2>1. ASSUME NEW i \in k + 1 .. n, i = n
        PROVE  /\ b[i] = b[i - 1] + Len(Sent(fs, i, m, n))
               /\ At(t, b[i - 1], Sent(fs, i, m, n))
    <3>1. b[n - 1] = c[n - 1]
      BY <1>3, <1>4, <1>7
    <3>2. Len(t) = c[n - 1] + Len(Encoding(f, m))
      BY <1>5, <1>6, <1>11
    <3> QED BY <1>7, <1>10, <1>12, <2>1, <3>1, <3>2
  <2>2. ASSUME NEW i \in k + 1 .. n, i # n
        PROVE  /\ b[i] = b[i - 1] + Len(Sent(fs, i, m, n))
               /\ At(t, b[i - 1], Sent(fs, i, m, n))
    <3>1. i \in k .. n - 1 /\ i - 1 \in k .. n - 1 /\ i \in 1 .. n /\ i <= w /\ w \in Int
          /\ i - 1 \in k .. n
      BY <1>3, <2>2
    <3>2. Sent(fs, i, m, w) = Sent(fs, i, m, n)
      BY <1>3, <3>1 DEF Sent
    <3>3. Sent(fs, i, m, w) \in Seq(Parts)
      BY <3>1, SentSeq DEF n
    <3>4. c[i - 1] \in Nat /\ At(s, c[i - 1], Sent(fs, i, m, w))
      BY <1>3, <1>8, <3>1
    <3>5. At(t, c[i - 1], Sent(fs, i, m, w))
      BY <1>5, <3>3, <3>4, AtBefore DEF t
    <3>6. c[i] = c[i - 1] + Len(Sent(fs, i, m, w))
      BY <1>3
    <3> QED BY <1>7, <3>1, <3>2, <3>5, <3>6
  <2> QED BY <2>1, <2>2
<1>14. \A i, j \in k .. n : i <= j => b[i] <= b[j]
  <2>1. ASSUME NEW i \in k .. n, NEW j \in k .. n, i <= j
        PROVE  b[i] <= b[j]
    <3>1. CASE j = n
      BY <1>6, <1>7, <1>9, <3>1
    <3>2. CASE j # n
      <4>1. i \in k .. n - 1 /\ j \in k .. n - 1
        BY <1>3, <2>1, <3>2
      <4> QED BY <1>3, <1>7, <2>1, <4>1
    <3> QED BY <3>1, <3>2
  <2> QED BY <2>1
<1>15. b[k] = 0 /\ k \in 0 .. n /\ b[n] = Len(t)
  BY <1>3, <1>4, <1>7
<1>16. Cut(t, fs, k, m, n, b)
  BY <1>3, <1>9, <1>13, <1>14, <1>15 DEF Cut, n
<1>17. Carries(t, fs, k, m, n)
  BY <1>16 DEF Carries
<1> QED BY <1>17 DEF t, n, f, p

-----------------------------------------------------------------------------
\* The replies to a sequence of frames, as the frames get more.
RepliesTo(replies, fs) ==
  /\ Len(replies) = Cardinality(Due(fs))
  /\ \A i \in Due(fs) : replies[Turn(fs, i)] = Reply(fs[i])

\* fs is the beginning of gs.
Starts(fs, gs) == Len(fs) <= Len(gs) /\ \A i \in 1 .. Len(fs) : fs[i] = gs[i]

Unanswered == {Continuation, Pong}

LEMMA DueFacts ==
  ASSUME NEW fs \in Seq(FrameSet)
  PROVE  /\ Due(fs) \subseteq 1 .. Len(fs)
         /\ IsFiniteSet(Due(fs))
         /\ Cardinality(Due(fs)) \in 0 .. Len(fs)
         /\ \A i \in Due(fs) : Turn(fs, i) \in 1 .. Cardinality(Due(fs))
<1>1. Due(fs) \subseteq 1 .. Len(fs) /\ Len(fs) \in Nat
  BY DEF Due
<1>2. IsFiniteSet(1 .. Len(fs)) /\ Cardinality(1 .. Len(fs)) = Len(fs)
  <2> DEFINE n == Len(fs)
  <2>1. n \in Int /\ 1 \in Int
    BY <1>1
  <2> HIDE DEF n
  <2>2. IsFiniteSet(1 .. n) /\ Cardinality(1 .. n) = IF 1 > n THEN 0 ELSE n - 1 + 1
    BY <2>1, FS_Interval
  <2> QED BY <1>1, <2>2 DEF n
<1>3. IsFiniteSet(Due(fs)) /\ Cardinality(Due(fs)) <= Len(fs)
  BY <1>1, <1>2, FS_Subset
<1>4. Cardinality(Due(fs)) \in Nat
  BY <1>3, FS_CardinalityType
<1>5. ASSUME NEW i \in Due(fs)
      PROVE  Turn(fs, i) \in 1 .. Cardinality(Due(fs))
  <2> DEFINE D == {j \in Due(fs) : j <= i}
  <2>1. i \in D /\ D \subseteq Due(fs)
    BY <1>1
  <2> HIDE DEF D
  <2>2. IsFiniteSet(D) /\ Cardinality(D) <= Cardinality(Due(fs))
    BY <1>3, <2>1, FS_Subset
  <2>3. Cardinality(D) \in Nat /\ Cardinality(D) # 0
    BY <2>1, <2>2, FS_CardinalityType, FS_EmptySet
  <2>4. Turn(fs, i) = Cardinality(D)
    BY DEF Turn, D
  <2> QED BY <1>4, <2>2, <2>3, <2>4
<1> QED BY <1>1, <1>3, <1>4, <1>5

LEMMA DueOfStart ==
  ASSUME NEW fs \in Seq(FrameSet), NEW gs \in Seq(FrameSet), Starts(fs, gs)
  PROVE  /\ Due(fs) = Due(gs) \cap 1 .. Len(fs)
         /\ \A i \in Due(fs) : Turn(fs, i) = Turn(gs, i)
<1>1. /\ Len(fs) \in Nat /\ Len(gs) \in Nat /\ Len(fs) <= Len(gs)
      /\ \A i \in 1 .. Len(fs) : fs[i] = gs[i]
      /\ DOMAIN fs = 1 .. Len(fs) /\ DOMAIN gs = 1 .. Len(gs)
  BY DEF Starts
<1>2. ASSUME NEW i \in 1 .. Len(fs)
      PROVE  i \in Due(fs) <=> i \in Due(gs)
  <2>1. i \in 1 .. Len(gs) /\ 1 .. i - 1 \subseteq 1 .. Len(fs)
    BY <1>1
  <2>2. i \in Due(fs) <=> /\ fs[i].op \notin {Continuation, Pong}
                          /\ \A j \in 1 .. i - 1 : fs[j].op # Close
    BY <1>1, Zenon DEF Due
  <2>3. i \in Due(gs) <=> /\ gs[i].op \notin {Continuation, Pong}
                          /\ \A j \in 1 .. i - 1 : gs[j].op # Close
    BY <1>1, <2>1, Zenon DEF Due
  <2> QED BY <1>1, <2>1, <2>2, <2>3
<1>3. Due(fs) \subseteq 1 .. Len(fs)
  BY DueFacts
<1>4. Due(fs) = Due(gs) \cap 1 .. Len(fs)
  BY <1>2, <1>3
<1>5. ASSUME NEW i \in Due(fs)
      PROVE  Turn(fs, i) = Turn(gs, i)
  <2>1. Due(gs) \subseteq 1 .. Len(gs)
    BY DueFacts
  <2>2. {j \in Due(fs) : j <= i} = {j \in Due(gs) : j <= i}
    BY <1>1, <1>3, <1>4, <2>1
  <2> QED BY <2>2 DEF Turn
<1> QED BY <1>4, <1>5

\* A frame that is answered later has a later turn.
LEMMA DueLater ==
  ASSUME NEW fs \in Seq(FrameSet), NEW gs \in Seq(FrameSet), Starts(fs, gs),
         NEW i \in Due(gs), i \notin Due(fs)
  PROVE  Turn(gs, i) > Cardinality(Due(fs))
<1> DEFINE D == {j \in Due(gs) : j <= i}
           E == Due(fs) \cup {i}
<1>1. Due(fs) = Due(gs) \cap 1 .. Len(fs) /\ Due(gs) \subseteq 1 .. Len(gs)
      /\ Len(fs) \in Nat /\ Len(gs) \in Nat
  BY DueOfStart, DueFacts
<1>2. i > Len(fs)
  BY <1>1
<1>3. E \subseteq D /\ D \subseteq Due(gs)
  BY <1>1, <1>2
<1>4. IsFiniteSet(Due(fs)) /\ IsFiniteSet(Due(gs)) /\ Cardinality(Due(fs)) \in Nat
  BY DueFacts
<1> HIDE DEF D
<1>5. IsFiniteSet(D) /\ Cardinality(D) \in Nat
  BY <1>3, <1>4, FS_Subset, FS_CardinalityType
<1>6. Cardinality(E) = Cardinality(Due(fs)) + 1
  BY <1>4, FS_AddElement
<1> HIDE DEF E
<1>7. Cardinality(E) <= Cardinality(D)
  BY <1>3, <1>5, FS_Subset
<1>8. Turn(gs, i) = Cardinality(D)
  BY DEF Turn, D
<1> QED BY <1>4, <1>5, <1>6, <1>7, <1>8

LEMMA RepliesToNothing == RepliesTo(<<>>, <<>>)
<1>1. Due(<<>>) = {}
  BY DEF Due
<1>2. Cardinality(Due(<<>>)) = 0
  BY <1>1, FS_EmptySet
<1> QED BY <1>1, <1>2 DEF RepliesTo

\* A frame that is not answered.
LEMMA NoReply ==
  ASSUME NEW replies, NEW fs \in Seq(FrameSet), NEW f \in FrameSet,
         RepliesTo(replies, fs), f.op \in Unanswered
  PROVE  RepliesTo(replies, Append(fs, f))
<1> DEFINE gs == Append(fs, f)
           n == Len(fs)
<1>1. gs \in Seq(FrameSet) /\ Len(gs) = n + 1 /\ gs[n + 1] = f /\ n \in Nat
      /\ \A i \in 1 .. n : gs[i] = fs[i]
  OBVIOUS
<1> HIDE DEF gs, n
<1>2. Starts(fs, gs)
  BY <1>1 DEF Starts, n
<1>3. Due(fs) = Due(gs) \cap 1 .. n /\ Due(gs) \subseteq 1 .. n + 1
      /\ \A i \in Due(fs) : Turn(fs, i) = Turn(gs, i)
  BY <1>1, <1>2, DueOfStart, DueFacts DEF n
<1>4. n + 1 \notin Due(gs)
  BY <1>1 DEF Due, Unanswered
<1>5. Due(gs) = Due(fs)
  BY <1>1, <1>3, <1>4
<1>6. \A i \in Due(fs) : i \in 1 .. n /\ gs[i] = fs[i]
  BY <1>1, <1>3
<1> QED BY <1>3, <1>5, <1>6 DEF RepliesTo, gs

\* A frame that is answered.
LEMMA OneReply ==
  ASSUME NEW replies \in Seq(FrameSet), NEW fs \in Seq(FrameSet), NEW f \in FrameSet,
         RepliesTo(replies, fs), f.op \notin Unanswered,
         \A i \in 1 .. Len(fs) : fs[i].op # Close
  PROVE  RepliesTo(Append(replies, Reply(f)), Append(fs, f))
<1> DEFINE gs == Append(fs, f)
           n == Len(fs)
           r == Reply(f)
           rs == Append(replies, r)
<1>1. gs \in Seq(FrameSet) /\ Len(gs) = n + 1 /\ gs[n + 1] = f /\ n \in Nat
      /\ \A i \in 1 .. n : gs[i] = fs[i]
  OBVIOUS
<1>2. Len(rs) = Len(replies) + 1 /\ rs[Len(replies) + 1] = r /\ Len(replies) \in Nat
      /\ \A i \in 1 .. Len(replies) : rs[i] = replies[i]
  OBVIOUS
<1> HIDE DEF gs, n, r, rs
<1>3. Starts(fs, gs)
  BY <1>1 DEF Starts, n
<1>4. Due(fs) = Due(gs) \cap 1 .. n /\ Due(gs) \subseteq 1 .. n + 1
      /\ \A i \in Due(fs) : Turn(fs, i) = Turn(gs, i)
  BY <1>1, <1>3, DueOfStart, DueFacts DEF n
<1>5. n + 1 \in Due(gs)
  <2>1. DOMAIN gs = 1 .. n + 1 /\ 1 .. (n + 1) - 1 = 1 .. n
    BY <1>1
  <2>2. n + 1 \in DOMAIN gs /\ gs[n + 1].op \notin {Continuation, Pong}
        /\ \A j \in 1 .. (n + 1) - 1 : gs[j].op # Close
    BY <1>1, <2>1 DEF Unanswered, n
  <2> QED BY <2>2 DEF Due
<1>6. Due(gs) = Due(fs) \cup {n + 1} /\ n + 1 \notin Due(fs)
  BY <1>1, <1>4, <1>5
<1>7. IsFiniteSet(Due(fs)) /\ Cardinality(Due(fs)) \in Nat
      /\ \A i \in Due(fs) : Turn(fs, i) \in 1 .. Cardinality(Due(fs))
  BY DueFacts
<1>8. Cardinality(Due(gs)) = Cardinality(Due(fs)) + 1
  BY <1>6, <1>7, FS_AddElement
<1>9. Turn(gs, n + 1) = Cardinality(Due(gs))
  <2>1. {j \in Due(gs) : j <= n + 1} = Due(gs)
    BY <1>1, <1>4
  <2> QED BY <2>1 DEF Turn
<1>10. Len(replies) = Cardinality(Due(fs))
       /\ \A i \in Due(fs) : replies[Turn(fs, i)] = Reply(fs[i])
  BY DEF RepliesTo
<1>11. Len(rs) = Cardinality(Due(gs))
  BY <1>2, <1>8, <1>10
<1>12. ASSUME NEW i \in Due(fs)
       PROVE  rs[Turn(gs, i)] = Reply(gs[i])
  <2>1. i \in 1 .. n /\ gs[i] = fs[i]
    BY <1>1, <1>4
  <2>2. Turn(gs, i) = Turn(fs, i) /\ Turn(fs, i) \in 1 .. Len(replies)
    BY <1>4, <1>7, <1>10
  <2> QED BY <1>2, <1>10, <2>1, <2>2
<1>13. rs[Turn(gs, n + 1)] = Reply(gs[n + 1])
  BY <1>1, <1>2, <1>8, <1>9, <1>10 DEF r
<1>14. \A i \in Due(gs) : rs[Turn(gs, i)] = Reply(gs[i])
  BY <1>6, <1>12, <1>13
<1>15. RepliesTo(rs, gs)
  BY <1>11, <1>14 DEF RepliesTo
<1> QED BY <1>15 DEF rs, gs, r

\* What a client has read of the replies to the first of its frames is what it
\* may read of the replies to all of them.
LEMMA RepliesInOrder ==
  ASSUME NEW replies \in Seq(FrameSet), NEW fs \in Seq(FrameSet), NEW gs \in Seq(FrameSet),
         NEW read \in Seq(FrameSet),
         RepliesTo(replies, fs), Starts(fs, gs), Starts(read, replies)
  PROVE  /\ Len(read) <= Cardinality(Due(gs))
         /\ \A i \in Due(gs) : Turn(gs, i) <= Len(read) => read[Turn(gs, i)] = Reply(gs[i])
<1>1. /\ Len(read) <= Len(replies) /\ Len(read) \in Nat /\ Len(replies) \in Nat
      /\ \A i \in 1 .. Len(read) : read[i] = replies[i]
  BY DEF Starts
<1>2. Len(replies) = Cardinality(Due(fs))
      /\ \A i \in Due(fs) : replies[Turn(fs, i)] = Reply(fs[i])
  BY DEF RepliesTo
<1>3. IsFiniteSet(Due(gs)) /\ Cardinality(Due(gs)) \in Nat /\ Due(gs) \subseteq 1 .. Len(gs)
      /\ \A i \in Due(gs) : Turn(gs, i) \in 1 .. Cardinality(Due(gs))
  BY DueFacts
<1>4. Due(fs) = Due(gs) \cap 1 .. Len(fs)
      /\ \A i \in Due(fs) : Turn(fs, i) = Turn(gs, i)
  BY DueOfStart
<1>5. Cardinality(Due(fs)) <= Cardinality(Due(gs))
  BY <1>3, <1>4, FS_Subset
<1>6. ASSUME NEW i \in Due(gs), Turn(gs, i) <= Len(read)
      PROVE  read[Turn(gs, i)] = Reply(gs[i])
  <2>1. i \in Due(fs)
    <3>1. SUFFICES ASSUME i \notin Due(fs)
                   PROVE  FALSE
      OBVIOUS
    <3>2. Turn(gs, i) > Cardinality(Due(fs))
      BY <3>1, DueLater
    <3> QED BY <1>1, <1>2, <1>3, <1>6, <3>2
  <2>2. Turn(gs, i) \in 1 .. Len(read)
    BY <1>3, <1>6
  <2>3. fs[i] = gs[i]
    BY <1>4, <2>1 DEF Starts
  <2> QED BY <1>1, <1>2, <1>4, <2>1, <2>2, <2>3
<1> QED BY <1>1, <1>2, <1>3, <1>5, <1>6

-----------------------------------------------------------------------------
\* Beginnings and ends of sequences.
LEMMA FrontOfAppend ==
  ASSUME NEW S, NEW s \in Seq(S), NEW e \in S
  PROVE  Front(Append(s, e)) = s /\ Last(Append(s, e)) = e
BY DEF Front, Last

LEMMA FrontAndLast ==
  ASSUME NEW S, NEW s \in Seq(S), s # <<>>
  PROVE  /\ Front(s) \in Seq(S) /\ Last(s) \in S
         /\ Append(Front(s), Last(s)) = s
         /\ Len(s) \in Nat /\ Len(s) > 0 /\ Len(Front(s)) = Len(s) - 1
         /\ \A i \in 1 .. Len(s) - 1 : Front(s)[i] = s[i]
         /\ Last(s) = s[Len(s)]
<1> DEFINE f == Front(s)
           e == Last(s)
<1>1. Len(s) \in Nat /\ Len(s) > 0
  OBVIOUS
<1>2. f \in Seq(S) /\ Len(f) = Len(s) - 1 /\ \A i \in 1 .. Len(s) - 1 : f[i] = s[i]
  <2> DEFINE n == Len(s) - 1
  <2>1. n \in 0 .. Len(s) /\ \A i \in 1 .. n : i \in 1 .. Len(s)
    BY <1>1
  <2>2. f = SubSeq(s, 1, n)
    BY DEF Front
  <2> HIDE DEF n, f
  <2>3. f \in Seq(S) /\ Len(f) = n
    BY <2>1, <2>2
  <2>4. \A i \in 1 .. n : f[i] = s[i]
    BY <2>1, <2>2
  <2> QED BY <2>3, <2>4 DEF n
<1>3. e \in S /\ e = s[Len(s)]
  BY DEF Last
<1> HIDE DEF f, e
<1>4. Append(f, e) \in Seq(S) /\ Len(Append(f, e)) = Len(s)
      /\ \A i \in 1 .. Len(s) : Append(f, e)[i] = s[i]
  BY <1>1, <1>2, <1>3
<1>5. Append(f, e) = s
  BY <1>4
<1> QED BY <1>1, <1>2, <1>3, <1>5 DEF f, e

LEMMA StartsIsPrefix ==
  ASSUME NEW S, NEW s \in Seq(S), NEW t \in Seq(S), Starts(s, t)
  PROVE  IsPrefix(s, t)
BY DEF Starts, IsPrefix

LEMMA TailOfAppended ==
  ASSUME NEW S, NEW s \in Seq(S), NEW t \in Seq(S), s # <<>>
  PROVE  Tail(s \o t) = Tail(s) \o t /\ s \o t # <<>> /\ s \o t \in Seq(S) /\ Tail(s) \in Seq(S)
OBVIOUS

LEMMA OneOnNothing ==
  ASSUME NEW S, NEW a \in S
  PROVE  <<>> \o <<a>> \in Seq(S) /\ <<>> \o <<a>> # <<>> /\ Tail(<<>> \o <<a>>) = <<>>
OBVIOUS

LEMMA RequestsAndResponses ==
  /\ \A kind \in {"upgrade", "plain", "keyless"} : [part |-> "request", kind |-> kind] \in Parts
  /\ \A status \in {101, 400} : [part |-> "response", status |-> status] \in Parts
<1> DEFINE r == {[part |-> "request", kind |-> kind] : kind \in {"upgrade", "plain", "keyless"}}
           t == {[part |-> "response", status |-> status] : status \in {101, 400}}
<1>1. r \subseteq Parts /\ t \subseteq Parts
  BY DEF Parts
<1> QED BY <1>1

-----------------------------------------------------------------------------
\* The invariant.
Types ==
  /\ client \in {"dial", "wait", "open", "closed"}
  /\ server \in {"request", "serve", "answer", "answering", "close", "closing", "returned"}
  /\ upEnd \in {"open", "fin", "reset"} /\ downEnd \in {"open", "fin", "reset"}
  /\ up \in Seq(Parts) /\ down \in Seq(Parts)
  /\ writing \in Seq(Parts) /\ Len(writing) <= 1
  /\ reply \in Seq(Parts) /\ Len(reply) <= 1
  /\ asked \in Seq(FrameSet) /\ Len(asked) <= MaxFrames
  /\ taken \in Seq(FrameSet) /\ answers \in Seq(FrameSet)
  /\ in = Len(taken) /\ out \in Nat /\ out <= in
  /\ server \in {"answer", "answering"} => out + 1 <= in

Control ==
  /\ client # "closed" <=> upEnd = "open"
  /\ client = "dial" => up = <<>> /\ asked = <<>> /\ writing = <<>> /\ server = "request"
  /\ client \in {"dial", "wait"} => answers = <<>>
  /\ server = "request" => down = <<>> /\ taken = <<>> /\ client # "open" /\ upEnd # "reset"
  /\ server # "returned" => downEnd = "open"
  /\ upEnd = "reset" => up = <<>>
  /\ Starts(taken, asked)

\* No close was taken, but for the last frame when it is being answered.
Heeded ==
  /\ server \in {"request", "serve", "answer", "answering"} =>
       \A i \in 1 .. Len(taken) : taken[i].op # Close
  /\ server \in {"answer", "close"} => taken # <<>> /\ Last(taken).op \notin Unanswered
  /\ server = "close" => \A i \in 1 .. Len(taken) - 1 : taken[i].op # Close

\* What is still to be written of the last frame.
Unwritten(fs, m, w) == IF w = Len(fs) THEN <<>> ELSE Payload(fs[Len(fs)], m)

\* What the server has not read of the client's frames is what the client has
\* begun and the server not taken.
Incoming == IF server = "request" THEN Tail(up) ELSE up

Coming ==
  server # "returned" /\ upEnd # "reset" /\ client # "dial" =>
    /\ server = "request" => up # <<>>
    /\ \E w : /\ Carries(Incoming, asked, Len(taken), Mask, w)
              /\ client # "closed" => writing = Unwritten(asked, Mask, w)

\* What the client has not read of the server's frames is what the server has
\* begun of the replies and the client not read.
Outgoing == IF client = "wait" THEN Tail(down) ELSE down
Heard == IF server \in {"answer", "close"} THEN Front(taken) ELSE taken

Replying(replies, w) ==
  /\ RepliesTo(replies, Heard)
  /\ Starts(answers, replies)
  /\ Carries(Outgoing, replies, Len(answers), NoMask, w)
  /\ IF server \in {"answering", "closing"}
       THEN reply = Unwritten(replies, NoMask, w)
       ELSE w = Len(replies)

Going ==
  client \in {"wait", "open"} /\ server # "request" =>
    /\ client = "wait" => down # <<>>
    /\ \E replies, w : replies \in Seq(FrameSet) /\ Replying(replies, w)

Told ==
  /\ Len(answers) <= Cardinality(Due(asked))
  /\ \A i \in Due(asked) :
       Turn(asked, i) <= Len(answers) => answers[Turn(asked, i)] = Reply(asked[i])

Core == Types /\ Control /\ Heeded /\ Coming /\ Going
Inv == Core /\ Told

LEMMA UnwrittenIsNothing ==
  ASSUME NEW fs \in Seq(FrameSet), NEW s, NEW k, NEW m \in Masks, NEW w,
         Carries(s, fs, k, m, w), Unwritten(fs, m, w) = <<>>
  PROVE  w = Len(fs)
<1>1. /\ k \in 0 .. w /\ w \in {Len(fs) - 1, Len(fs)} /\ Len(fs) \in Nat
      /\ w < Len(fs) => fs[Len(fs)].len > 0
  BY DEF Carries, Cut
<1>2. SUFFICES ASSUME w # Len(fs)
               PROVE  FALSE
  OBVIOUS
<1>3. fs[Len(fs)] \in FrameSet /\ fs[Len(fs)].len > 0
  BY <1>1, <1>2
<1>4. Payload(fs[Len(fs)], m) # <<>>
  BY <1>3, PayloadFacts
<1> QED BY <1>2, <1>4 DEF Unwritten

LEMMA ReplyIsFrame ==
  ASSUME NEW f \in FrameSet
  PROVE  Reply(f) \in FrameSet
<1>1. PICK op \in Opcodes, len \in Lengths, says \in 0 .. MaxFrames : f = Frame(op, len, says)
  BY DEF FrameSet
<1>2. Reply(f) = f \/ Reply(f) = Frame(Pong, len, says)
  BY <1>1 DEF Reply, Frame
<1>3. Pong \in Opcodes
  BY DEF Opcodes
<1>4. Frame(Pong, len, says) \in FrameSet
  BY <1>3 DEF FrameSet
<1> QED BY <1>2, <1>4

LEMMA NoneAsked == Due(<<>>) = {} /\ Cardinality(Due(<<>>)) = 0
<1>1. Due(<<>>) = {}
  BY DEF Due
<1> QED BY <1>1, FS_EmptySet

LEMMA InvInitially == Init => Inv
<1> SUFFICES ASSUME Init
             PROVE  Inv
  OBVIOUS
<1> USE DEF Init
<1>1. Types
  BY SessionAssumption DEF Types
<1>2. Control
  BY DEF Control, Starts
<1>3. Heeded
  BY DEF Heeded
<1>4. Coming
  BY DEF Coming
<1>5. Going
  BY DEF Going
<1>6. Told
  BY NoneAsked DEF Told
<1> QED BY <1>1, <1>2, <1>3, <1>4, <1>5, <1>6 DEF Inv, Core

\* Told follows from what the other parts say of the next state.
LEMMA ToldNext ==
  ASSUME Inv, [Next]_vars, Core'
  PROVE  Told'
<1> USE DEF Core
<1>1. CASE client' = "closed"
  <2>1. asked' = asked /\ answers' = answers
    BY <1>1 DEF Next, Client, Serve, Over, vars, counts, streams, Inv, Types,
       Dial, Response, NoResponse, WriteHeader, WritePayload, ReadAnswer, Leave,
       Upgrade, Refuse, Read, ReadFails, AnswerHeader, AnswerPayload
  <2> QED BY <2>1 DEF Inv, Told, Due, Turn, Reply
<1>2. CASE client' \in {"dial", "wait"}
  <2>1. answers' = <<>> /\ asked' \in Seq(FrameSet)
    BY <1>2 DEF Control, Types
  <2> DEFINE gs == asked'
  <2> HIDE DEF gs
  <2>2. /\ Cardinality(Due(gs)) \in Nat
        /\ \A i \in Due(gs) : Turn(gs, i) \in 1 .. Cardinality(Due(gs))
    BY <2>1, DueFacts DEF gs
  <2>3. /\ Len(<<>>) <= Cardinality(Due(gs))
        /\ \A i \in Due(gs) : ~(Turn(gs, i) <= Len(<<>>))
    BY <2>2
  <2> QED BY <2>1, <2>3 DEF gs, Told, Due, Turn, Reply
<1>3. CASE client' = "open"
  <2>1. PICK replies, w : replies \in Seq(FrameSet) /\ Replying(replies, w)'
    BY <1>3 DEF Going, Control
  <2> DEFINE fs == Heard'
             gs == asked'
             rs == answers'
  <2>2. RepliesTo(replies, fs) /\ Starts(rs, replies)
    BY <2>1 DEF Replying, RepliesTo, Starts, Due, Turn, Reply
  <2>3. gs \in Seq(FrameSet) /\ rs \in Seq(FrameSet) /\ taken' \in Seq(FrameSet)
    BY DEF Types
  <2>4. Starts(taken', gs)
    BY DEF Control, Starts
  <2>5. fs \in Seq(FrameSet) /\ Starts(fs, gs)
    <3> DEFINE ts == taken'
    <3> HIDE DEF ts, gs
    <3>1. fs \in {ts, Front(ts)} /\ (ts = <<>> => Front(ts) = <<>>)
      BY DEF Heard, ts, Front
    <3>2. CASE ts = <<>> \/ fs = ts
      BY <2>3, <2>4, <3>1, <3>2 DEF ts
    <3>3. CASE ts # <<>> /\ fs = Front(ts)
      <4>1. /\ Front(ts) \in Seq(FrameSet) /\ Len(ts) \in Nat /\ Len(Front(ts)) = Len(ts) - 1
            /\ \A i \in 1 .. Len(ts) - 1 : Front(ts)[i] = ts[i]
        BY <2>3, <3>3, FrontAndLast DEF ts
      <4>2. Len(ts) <= Len(gs) /\ \A i \in 1 .. Len(ts) : ts[i] = gs[i]
        BY <2>4 DEF Starts, ts
      <4>3. Len(gs) \in Nat
        BY <2>3
      <4> HIDE DEF fs
      <4> QED BY <3>3, <4>1, <4>2, <4>3 DEF Starts
    <3> QED BY <3>1, <3>2, <3>3
  <2> HIDE DEF fs, gs, rs
  <2>6. /\ Len(rs) <= Cardinality(Due(gs))
        /\ \A i \in Due(gs) : Turn(gs, i) <= Len(rs) => rs[Turn(gs, i)] = Reply(gs[i])
    BY <2>1, <2>2, <2>3, <2>5, RepliesInOrder
  <2> QED BY <2>6 DEF Told, Due, Turn, Reply, gs, rs
<1> QED BY <1>1, <1>2, <1>3 DEF Types

-----------------------------------------------------------------------------
\* The other parts of the invariant, one action after the other.
LEMMA DialStep ==
  ASSUME Core, Dial
  PROVE  Core'
<1> USE DEF Dial, streams, counts
<1>1. /\ client = "dial" /\ up = <<>> /\ asked = <<>> /\ writing = <<>> /\ server = "request"
      /\ taken = <<>> /\ downEnd = "open" /\ upEnd = "open"
  BY DEF Core, Control
<1>2. PICK part \in Parts : up' = <<>> \o <<part>>
  BY <1>1, RequestsAndResponses DEF Upward
<1>3. up' \in Seq(Parts) /\ up' # <<>> /\ Tail(up') = <<>>
  BY <1>2, OneOnNothing
<1>4. Types'
  BY <1>3 DEF Core, Types
<1>5. Control'
  BY <1>1, <1>3 DEF Core, Control, Starts
<1>6. Heeded'
  BY DEF Core, Heeded
<1>7. Coming'
  <2>1. <<>> \in Seq(FrameSet) /\ Len(<<>>) = 0 /\ Mask \in Masks
    BY DEF Masks
  <2>2. Carries(<<>>, <<>>, 0, Mask, 0)
    BY <2>1, CarriesNothing
  <2>3. Carries(Incoming', asked', Len(taken'), Mask, 0) /\ writing' = Unwritten(asked', Mask, 0)
    BY <1>1, <1>3, <2>1, <2>2 DEF Incoming, Unwritten
  <2> QED BY <1>3, <2>3 DEF Coming
<1>8. Going'
  BY <1>1 DEF Going
<1> QED BY <1>4, <1>5, <1>6, <1>7, <1>8 DEF Core

\* The response on the stream, and nothing answered yet.
LEMMA Responded ==
  ASSUME Core, server = "request", client' = client, server' \in {"serve", "returned"},
         NEW part, down' = Downward(<<part>>),
         upEnd' = upEnd, taken' = taken, answers' = answers
  PROVE  Going'
<1> SUFFICES ASSUME client' \in {"wait", "open"}
             PROVE  /\ client' = "wait" => down' # <<>>
                    /\ \E replies, w : replies \in Seq(FrameSet) /\ Replying(replies, w)'
  BY DEF Going
<1>1. client = "wait" /\ upEnd = "open" /\ down = <<>> /\ answers = <<>> /\ taken = <<>>
  BY DEF Core, Control
<1>2. down' = <<>> \o <<part>>
  BY <1>1 DEF Downward
<1>3. down' # <<>> /\ Tail(down') = <<>>
  BY <1>2, OneOnNothing
<1>4. <<>> \in Seq(FrameSet) /\ Len(<<>>) = 0 /\ NoMask \in Masks
  BY DEF Masks
<1>5. Carries(<<>>, <<>>, 0, NoMask, 0)
  BY <1>4, CarriesNothing
<1>6. Heard' = <<>> /\ Outgoing' = <<>>
  BY <1>1, <1>3 DEF Heard, Outgoing
<1>7. RepliesTo(<<>>, Heard') /\ Starts(answers', <<>>)
  BY <1>1, <1>4, <1>6, RepliesToNothing DEF Starts
<1>8. Replying(<<>>, 0)'
  BY <1>1, <1>4, <1>5, <1>6, <1>7 DEF Replying
<1> QED BY <1>3, <1>4, <1>8

LEMMA UpgradeStep ==
  ASSUME Core, Upgrade
  PROVE  Core'
<1> USE DEF Upgrade, streams, counts
<1>1. /\ server = "request" /\ client \in {"wait", "closed"} /\ downEnd = "open" /\ down = <<>>
      /\ taken = <<>> /\ upEnd # "reset"
  BY DEF Core, Control, Types
<1> DEFINE part == [part |-> "response", status |-> 101]
<1>2. part \in Parts
  BY RequestsAndResponses
<1> HIDE DEF part
<1>3. down' = Downward(<<part>>)
  BY DEF part
<1>4. down' \in Seq(Parts) /\ up' \in Seq(Parts)
  BY <1>1, <1>2, <1>3, OneOnNothing DEF Downward, Core, Types
<1>5. Types'
  BY <1>4 DEF Core, Types
<1>6. Control'
  BY <1>1 DEF Core, Control, Starts
<1>7. Heeded'
  BY <1>1 DEF Core, Heeded
<1>8. Coming'
  <2>1. Incoming' = Incoming
    BY <1>1 DEF Incoming
  <2> QED BY <1>1, <2>1 DEF Core, Coming, Unwritten
<1>9. Going'
  BY <1>3, Responded
<1> QED BY <1>5, <1>6, <1>7, <1>8, <1>9 DEF Core

LEMMA RefuseStep ==
  ASSUME Core, Refuse
  PROVE  Core'
<1> USE DEF Refuse, streams, counts
<1>1. /\ server = "request" /\ client \in {"wait", "closed"} /\ downEnd = "open" /\ down = <<>>
      /\ taken = <<>> /\ upEnd # "reset"
  BY DEF Core, Control, Types
<1> DEFINE part == [part |-> "response", status |-> 400]
<1>2. part \in Parts
  BY RequestsAndResponses
<1> HIDE DEF part
<1>3. down' = Downward(<<part>>)
  BY DEF part
<1>4. down' \in Seq(Parts) /\ up' \in Seq(Parts)
  BY <1>1, <1>2, <1>3, OneOnNothing DEF Downward, Core, Types
<1>5. Types'
  BY <1>4 DEF Core, Types
<1>6. Control'
  BY <1>1 DEF Core, Control, Starts
<1>7. Heeded'
  BY <1>1 DEF Core, Heeded
<1>8. Coming'
  BY DEF Coming
<1>9. Going'
  BY <1>3, Responded
<1> QED BY <1>5, <1>6, <1>7, <1>8, <1>9 DEF Core

LEMMA ResponseStep ==
  ASSUME Core, Response
  PROVE  Core'
<1> USE DEF Response, streams, counts
<1>1. /\ client = "wait" /\ upEnd = "open" /\ server # "request" /\ answers = <<>>
      /\ \/ client' = "open" /\ upEnd' = "open"
         \/ client' = "closed" /\ upEnd' = "fin"
  BY DEF Core, Control
<1>2. Types'
  BY <1>1 DEF Core, Types
<1>3. Control'
  BY <1>1 DEF Core, Control, Starts
<1>4. Heeded'
  BY DEF Core, Heeded
<1>5. Coming'
  BY <1>1 DEF Core, Coming, Incoming, Unwritten
<1>6. Going'
  <2>1. client' # "wait" /\ Outgoing' = Outgoing /\ Heard' = Heard
    BY <1>1 DEF Outgoing, Heard
  <2>2. PICK replies, w : replies \in Seq(FrameSet) /\ Replying(replies, w)
    BY <1>1 DEF Core, Going
  <2>3. Replying(replies, w)'
    BY <2>1, <2>2 DEF Replying
  <2> QED BY <2>1, <2>2, <2>3 DEF Going
<1> QED BY <1>2, <1>3, <1>4, <1>5, <1>6 DEF Core

LEMMA NoResponseStep ==
  ASSUME Core, NoResponse
  PROVE  Core'
<1> USE DEF NoResponse, streams, counts
<1>1. client = "wait" /\ upEnd = "open"
  BY DEF Core, Control
<1>2. Types'
  BY DEF Core, Types
<1>3. Control'
  BY <1>1 DEF Core, Control, Starts
<1>4. Heeded'
  BY DEF Core, Heeded
<1>5. Coming'
  BY <1>1 DEF Core, Coming, Incoming
<1>6. Going'
  BY DEF Going
<1> QED BY <1>2, <1>3, <1>4, <1>5, <1>6 DEF Core

LEMMA LeaveStep ==
  ASSUME Core, Leave
  PROVE  Core'
<1> USE DEF Leave, streams, counts
<1>1. client = "open" /\ upEnd = "open" /\ server # "request"
  BY DEF Core, Control
<1>2. Types'
  <2>1. writing' = <<>> /\ (up' = up \/ up' = <<>>) /\ upEnd' \in {"fin", "reset"}
    OBVIOUS
  <2>2. <<>> \in Seq(Parts) /\ Len(<<>>) = 0
    OBVIOUS
  <2>3. up \in Seq(Parts)
    BY DEF Core, Types
  <2>4. up' \in Seq(Parts)
    <3>1. CASE up' = up
      BY <2>3, <3>1
    <3>2. CASE up' = <<>>
      BY <2>2, <3>2
    <3> QED BY <2>1, <3>1, <3>2
  <2>5. writing' \in Seq(Parts) /\ Len(writing') <= 1 /\ up' \in Seq(Parts)
    BY <2>1, <2>2, <2>4
  <2>6. UNCHANGED <<server, down, downEnd, reply, in, out, taken, asked, answers>>
        /\ client' = "closed"
    OBVIOUS
  <2> QED BY ONLY Core, <2>1, <2>5, <2>6 DEF Core, Types
<1>3. Control'
  BY <1>1 DEF Core, Control, Starts
<1>4. Heeded'
  BY DEF Core, Heeded
<1>5. Coming'
  BY <1>1 DEF Core, Coming, Incoming
<1>6. Going'
  BY DEF Going
<1> QED BY <1>2, <1>3, <1>4, <1>5, <1>6 DEF Core

LEMMA WriteHeaderStep ==
  ASSUME Core, NEW op \in Opcodes, NEW len \in Lengths, WriteHeader(op, len)
  PROVE  Core'
<1> USE DEF streams, counts
<1> DEFINE f == Frame(op, len, Len(asked) + 1)
           h == Header(f, Mask)
<1>1. /\ client \in {"wait", "open"} /\ writing = <<>> /\ Len(asked) < MaxFrames
      /\ asked' = Append(asked, f) /\ up' = Upward(h) /\ writing' = Payload(f, Mask)
      /\ UNCHANGED <<client, server, down, upEnd, downEnd, reply, counts, answers>>
  BY DEF WriteHeader
<1>2. /\ upEnd = "open" /\ (server # "returned" => downEnd = "open")
      /\ asked \in Seq(FrameSet) /\ up \in Seq(Parts) /\ taken \in Seq(FrameSet)
      /\ Starts(taken, asked)
  BY <1>1 DEF Core, Control, Types
<1>3. f \in FrameSet /\ Mask \in Masks
  <2>1. Len(asked) + 1 \in 0 .. MaxFrames
    BY <1>1, <1>2, SessionAssumption
  <2> QED BY <2>1 DEF FrameSet, Masks
<1> HIDE DEF f
<1>4. /\ h \in Seq(Parts) /\ writing' \in Seq(Parts) /\ Len(writing') <= 1
      /\ f.len = 0 => writing' = <<>>
  BY <1>1, <1>3, SentFacts, PayloadFacts, NumbersOfParts
<1> HIDE DEF h
<1>5. up' \in Seq(Parts)
  BY <1>1, <1>2, <1>4 DEF Upward
<1>6. /\ asked' \in Seq(FrameSet) /\ Len(asked') = Len(asked) + 1 /\ Len(asked') <= MaxFrames
      /\ asked'[Len(asked')] = f
  BY <1>1, <1>2, <1>3, SessionAssumption
<1>7. Types'
  BY <1>1, <1>4, <1>5, <1>6 DEF Core, Types
<1>8. Control'
  <2>1. Starts(taken, asked')
    BY <1>1, <1>2, <1>3 DEF Starts
  <2> QED BY <1>1, <1>2, <2>1 DEF Core, Control, Starts
<1>9. Heeded'
  BY <1>1 DEF Core, Heeded
<1>10. Coming'
  <2> SUFFICES ASSUME server' # "returned"
               PROVE  /\ server' = "request" => up' # <<>>
                      /\ \E w : /\ Carries(Incoming', asked', Len(taken'), Mask, w)
                                /\ writing' = Unwritten(asked', Mask, w)
    BY DEF Coming
  <2>1. server # "returned" /\ up' = up \o h
    BY <1>1, <1>2 DEF Upward
  <2>2. PICK w : /\ Carries(Incoming, asked, Len(taken), Mask, w)
                 /\ writing = Unwritten(asked, Mask, w)
    BY <1>1, <1>2, <2>1 DEF Core, Coming
  <2>3. server = "request" => up # <<>>
    BY <1>1, <1>2, <2>1 DEF Core, Coming
  <2>4. Incoming \in Seq(Parts) /\ Incoming' = Incoming \o h /\ (server = "request" => up' # <<>>)
    BY <1>1, <1>2, <1>4, <2>1, <2>3, TailOfAppended DEF Incoming
  <2>5. w = Len(asked)
    BY <1>1, <1>2, <1>3, <2>2, UnwrittenIsNothing
  <2> DEFINE v == IF f.len = 0 THEN Len(asked) + 1 ELSE Len(asked)
  <2>6. Carries(Incoming \o h, Append(asked, f), Len(taken), Mask, v)
    BY <1>2, <1>3, <2>2, <2>4, <2>5, CarriesHeader DEF h
  <2>7. Carries(Incoming', asked', Len(taken'), Mask, v)
    BY <1>1, <2>4, <2>6
  <2>8. writing' = Unwritten(asked', Mask, v)
    BY <1>1, <1>2, <1>4, <1>6 DEF Unwritten
  <2> QED BY <1>1, <2>4, <2>7, <2>8
<1>11. Going'
  <2>1. Outgoing' = Outgoing /\ Heard' = Heard
    BY <1>1 DEF Outgoing, Heard
  <2>2. \A replies, w : Replying(replies, w) => Replying(replies, w)'
    BY <1>1, <2>1 DEF Replying
  <2> QED BY <1>1, <2>2 DEF Core, Going
<1> QED BY <1>7, <1>8, <1>9, <1>10, <1>11 DEF Core

LEMMA WritePayloadStep ==
  ASSUME Core, WritePayload
  PROVE  Core'
<1> USE DEF streams, counts
<1>1. /\ client \in {"wait", "open"} /\ writing # <<>>
      /\ up' = Upward(writing) /\ writing' = <<>>
      /\ UNCHANGED <<client, server, down, upEnd, downEnd, reply, counts, asked, answers>>
  BY DEF WritePayload
<1>2. /\ upEnd = "open" /\ (server # "returned" => downEnd = "open")
      /\ asked \in Seq(FrameSet) /\ up \in Seq(Parts) /\ taken \in Seq(FrameSet)
      /\ writing \in Seq(Parts)
  BY <1>1 DEF Core, Control, Types
<1>3. up' \in Seq(Parts)
  BY <1>1, <1>2 DEF Upward
<1>4. Types'
  <2>1. writing' \in Seq(Parts) /\ Len(writing') <= 1
    BY <1>1
  <2> QED BY <1>1, <1>3, <2>1 DEF Core, Types
<1>5. Control'
  BY <1>1, <1>2 DEF Core, Control, Starts
<1>6. Heeded'
  BY <1>1 DEF Core, Heeded
<1>7. Coming'
  <2> SUFFICES ASSUME server' # "returned"
               PROVE  /\ server' = "request" => up' # <<>>
                      /\ \E w : /\ Carries(Incoming', asked', Len(taken'), Mask, w)
                                /\ writing' = Unwritten(asked', Mask, w)
    BY DEF Coming
  <2>1. server # "returned" /\ up' = up \o writing
    BY <1>1, <1>2 DEF Upward
  <2>2. PICK w : /\ Carries(Incoming, asked, Len(taken), Mask, w)
                 /\ writing = Unwritten(asked, Mask, w)
    BY <1>1, <1>2, <2>1 DEF Core, Coming
  <2>3. server = "request" => up # <<>>
    BY <1>1, <1>2, <2>1 DEF Core, Coming
  <2>4. Incoming \in Seq(Parts) /\ Incoming' = Incoming \o writing
        /\ (server = "request" => up' # <<>>)
    BY <1>1, <1>2, <2>1, <2>3, TailOfAppended DEF Incoming
  <2>5. w < Len(asked) /\ writing = Payload(asked[Len(asked)], Mask) /\ Mask \in Masks
    BY <1>1, <1>2, <2>2 DEF Unwritten, Carries, Cut, Masks
  <2>6. Carries(Incoming \o Payload(asked[Len(asked)], Mask), asked, Len(taken), Mask, Len(asked))
    BY <1>2, <2>2, <2>4, <2>5, CarriesPayload
  <2>7. Carries(Incoming', asked', Len(taken'), Mask, Len(asked'))
    BY <1>1, <2>4, <2>5, <2>6
  <2>8. writing' = Unwritten(asked', Mask, Len(asked'))
    BY <1>1 DEF Unwritten
  <2> QED BY <1>1, <2>4, <2>7, <2>8
<1>8. Going'
  <2>1. Outgoing' = Outgoing /\ Heard' = Heard
    BY <1>1 DEF Outgoing, Heard
  <2>2. \A replies, w : Replying(replies, w) => Replying(replies, w)'
    BY <1>1, <2>1 DEF Replying
  <2> QED BY <1>1, <2>2 DEF Core, Going
<1> QED BY <1>4, <1>5, <1>6, <1>7, <1>8 DEF Core

LEMMA ReadAnswerStep ==
  ASSUME Core, ReadAnswer
  PROVE  Core'
<1> USE DEF streams, counts
<1>1. /\ client = "open" /\ FrameRead(down)
      /\ answers' = Append(answers, ReadFrame(down))
      /\ down' = SubSeq(down, FrameParts(down) + 1, Len(down))
      /\ UNCHANGED <<client, server, up, upEnd, downEnd, writing, reply, counts, asked>>
  BY DEF ReadAnswer
<1>2. server # "request" /\ down \in Seq(Parts) /\ answers \in Seq(FrameSet) /\ NoMask \in Masks
  BY <1>1 DEF Core, Control, Types, Masks
<1>3. PICK replies, w : replies \in Seq(FrameSet) /\ Replying(replies, w)
  BY <1>1, <1>2 DEF Core, Going
<1>4. Carries(down, replies, Len(answers), NoMask, w) /\ Starts(answers, replies)
  BY <1>1, <1>3 DEF Replying, Outgoing
<1>5. /\ Len(answers) + 1 \in 1 .. Len(replies)
      /\ ReadFrame(down) = replies[Len(answers) + 1]
      /\ Carries(down', replies, Len(answers) + 1, NoMask, w)
  BY <1>1, <1>2, <1>3, <1>4, CarriesFirst
<1>6. ReadFrame(down) \in FrameSet
  BY <1>3, <1>5
<1>7. answers' \in Seq(FrameSet) /\ Len(answers') = Len(answers) + 1 /\ Starts(answers', replies)
  BY <1>1, <1>2, <1>4, <1>5, <1>6 DEF Starts
<1>8. down' \in Seq(Parts)
  BY <1>1, <1>2, <1>3, <1>4, CarriesFirst
<1>9. Types'
  BY <1>1, <1>7, <1>8 DEF Core, Types
<1>10. Control'
  BY <1>1, <1>2 DEF Core, Control, Starts
<1>11. Heeded'
  BY <1>1 DEF Core, Heeded
<1>12. Coming'
  BY <1>1 DEF Core, Coming, Incoming
<1>13. Going'
  <2>1. Outgoing' = down' /\ Heard' = Heard
    BY <1>1 DEF Outgoing, Heard
  <2>2. Replying(replies, w)'
    BY <1>1, <1>3, <1>5, <1>7, <2>1 DEF Replying
  <2> QED BY <1>1, <1>3, <2>2 DEF Going
<1> QED BY <1>9, <1>10, <1>11, <1>12, <1>13 DEF Core

LEMMA ReadStep ==
  ASSUME Core, Read
  PROVE  Core'
<1> USE DEF streams, counts
<1> DEFINE f == ReadFrame(up)
<1>1. /\ server = "serve" /\ FrameRead(up)
      /\ taken' = Append(taken, f)
      /\ up' = SubSeq(up, FrameParts(up) + 1, Len(up))
      /\ in' = in + 1
      /\ UNCHANGED <<client, down, upEnd, downEnd, writing, reply, out, asked, answers>>
  BY DEF Read
<1>2. server' = CASE f.op = Close -> "close"
                  [] f.op \in {Text, Binary, Ping} -> "answer"
                  [] OTHER -> "serve"
  BY DEF Read
<1>3. up # <<>>
  BY <1>1 DEF FrameRead, HeaderRead
<1>4. /\ upEnd # "reset" /\ client # "dial" /\ up \in Seq(Parts) /\ taken \in Seq(FrameSet)
      /\ asked \in Seq(FrameSet) /\ Mask \in Masks /\ Starts(taken, asked)
      /\ in = Len(taken) /\ out \in Nat /\ out <= in
      /\ \A i \in 1 .. Len(taken) : taken[i].op # Close
  BY <1>1, <1>3 DEF Core, Control, Heeded, Types, Masks
<1>5. PICK w : /\ Carries(up, asked, Len(taken), Mask, w)
               /\ client # "closed" => writing = Unwritten(asked, Mask, w)
  BY <1>1, <1>4 DEF Core, Coming, Incoming
<1>6. /\ Len(taken) + 1 \in 1 .. Len(asked)
      /\ f = asked[Len(taken) + 1]
      /\ up' \in Seq(Parts)
      /\ Carries(up', asked, Len(taken) + 1, Mask, w)
  BY <1>1, <1>4, <1>5, CarriesFirst
<1>7. f \in FrameSet
  BY <1>4, <1>6
<1> HIDE DEF f
<1>8. /\ f.op \in Opcodes
      /\ \/ f.op = Close /\ server' = "close"
         \/ f.op \in {Text, Binary, Ping} /\ server' = "answer"
         \/ f.op \in Unanswered /\ server' = "serve"
  <2>1. f.op \in Opcodes
    BY <1>7, FrameFacts
  <2>2. CASE f.op = Close
    BY <1>2, <2>1, <2>2
  <2>3. CASE f.op \in {Text, Binary, Ping}
    BY <1>2, <2>1, <2>3 DEF Text, Binary, Ping, Close
  <2>4. CASE f.op \in Unanswered
    BY <1>2, <2>1, <2>4 DEF Text, Binary, Ping, Close, Unanswered, Continuation, Pong
  <2> QED BY <2>1, <2>2, <2>3, <2>4 DEF Opcodes, Unanswered
<1>9. /\ taken' \in Seq(FrameSet) /\ Len(taken') = Len(taken) + 1
      /\ taken'[Len(taken) + 1] = f /\ Front(taken') = taken /\ Last(taken') = f
      /\ \A i \in 1 .. Len(taken) : taken'[i] = taken[i]
  BY <1>1, <1>4, <1>7, FrontOfAppend
<1>10. Types'
  <2>1. in' = Len(taken') /\ out' <= in' /\ out' + 1 <= in' /\ out' \in Nat
    BY <1>1, <1>4, <1>9
  <2> QED BY <1>1, <1>6, <1>8, <1>9, <2>1 DEF Core, Types
<1>11. Control'
  <2>1. Starts(taken', asked)
    BY <1>4, <1>6, <1>9 DEF Starts
  <2>2. server' # "request" /\ server # "returned"
    BY <1>1, <1>8
  <2> QED BY <1>1, <1>3, <1>4, <2>1, <2>2 DEF Core, Control, Starts
<1>12. Heeded'
  <2>1. server' \in {"answer", "serve"} => f.op # Close
    BY <1>8 DEF Text, Binary, Ping, Close, Unanswered, Continuation, Pong
  <2>2. server' \in {"answer", "close"} => taken' # <<>> /\ Last(taken').op \notin Unanswered
    BY <1>8, <1>9 DEF Text, Binary, Ping, Close, Unanswered, Continuation, Pong
  <2>3. server' \in {"answer", "serve", "close"}
    BY <1>8
  <2>4. server' \in {"answer", "serve"} => \A i \in 1 .. Len(taken') : taken'[i].op # Close
    <3>1. SUFFICES ASSUME server' \in {"answer", "serve"}, NEW i \in 1 .. Len(taken')
                   PROVE  taken'[i].op # Close
      OBVIOUS
    <3>2. i \in 1 .. Len(taken) \/ i = Len(taken) + 1
      BY <1>4, <1>9
    <3> QED BY <1>4, <1>9, <2>1, <3>1, <3>2
  <2>5. \A i \in 1 .. Len(taken') - 1 : taken'[i].op # Close
    BY <1>4, <1>9
  <2> QED BY <2>2, <2>3, <2>4, <2>5 DEF Heeded
<1>13. Coming'
  <2>1. server' # "request"
    BY <1>8
  <2>2. Carries(Incoming', asked', Len(taken'), Mask, w)
    BY <1>1, <1>6, <1>9, <2>1 DEF Incoming
  <2>3. client' # "closed" => writing' = Unwritten(asked', Mask, w)
    BY <1>1, <1>5
  <2> QED BY <2>1, <2>2, <2>3 DEF Coming
<1>14. Going'
  <2> SUFFICES ASSUME client' \in {"wait", "open"}
               PROVE  /\ client' = "wait" => down' # <<>>
                      /\ \E replies, v : replies \in Seq(FrameSet) /\ Replying(replies, v)'
    BY DEF Going
  <2>1. client' = "wait" => down' # <<>>
    BY <1>1 DEF Core, Going
  <2>2. PICK replies, v : replies \in Seq(FrameSet) /\ Replying(replies, v)
    BY <1>1 DEF Core, Going
  <2>3. /\ RepliesTo(replies, taken) /\ Starts(answers, replies)
        /\ Carries(Outgoing, replies, Len(answers), NoMask, v) /\ v = Len(replies)
    BY <1>1, <2>2 DEF Replying, Heard
  <2>4. RepliesTo(replies, Heard')
    <3>1. CASE f.op \in Unanswered
      <4>1. Heard' = taken'
        BY <1>8, <3>1 DEF Heard, Text, Binary, Ping, Close, Unanswered, Continuation, Pong
      <4>2. RepliesTo(replies, Append(taken, f))
        BY <1>4, <1>7, <2>3, <3>1, NoReply
      <4> QED BY <1>1, <4>1, <4>2
    <3>2. CASE f.op \notin Unanswered
      <4>1. Heard' = taken
        BY <1>8, <1>9, <3>2 DEF Heard
      <4> QED BY <2>3, <4>1
    <3> QED BY <3>1, <3>2
  <2>5. Outgoing' = Outgoing
    BY <1>1 DEF Outgoing
  <2>6. server' \notin {"answering", "closing"}
    BY <1>8
  <2>7. Replying(replies, v)'
    BY <1>1, <2>3, <2>4, <2>5, <2>6 DEF Replying
  <2> QED BY <2>1, <2>2, <2>7
<1> QED BY <1>10, <1>11, <1>12, <1>13, <1>14 DEF Core

LEMMA AnswerHeaderStep ==
  ASSUME Core, AnswerHeader
  PROVE  Core'
<1> USE DEF streams, counts
<1> DEFINE f == Answer(Last(taken))
           h == Header(f, NoMask)
<1>1. /\ server \in {"answer", "close"}
      /\ down' = Downward(h) /\ reply' = Payload(f, NoMask)
      /\ UNCHANGED <<client, up, upEnd, downEnd, writing, in, out, taken, asked, answers>>
  BY DEF AnswerHeader
<1>2. server' = IF server = "answer" THEN "answering" ELSE "closing"
  BY DEF AnswerHeader
<1>3. /\ taken \in Seq(FrameSet) /\ taken # <<>> /\ Last(taken).op \notin Unanswered
      /\ down \in Seq(Parts) /\ (client # "closed" => upEnd = "open") /\ downEnd = "open"
      /\ NoMask \in Masks
  BY <1>1 DEF Core, Heeded, Control, Types, Masks
<1>4. /\ Front(taken) \in Seq(FrameSet) /\ Last(taken) \in FrameSet
      /\ Append(Front(taken), Last(taken)) = taken
      /\ Len(taken) \in Nat /\ Len(taken) > 0 /\ Len(Front(taken)) = Len(taken) - 1
      /\ \A i \in 1 .. Len(taken) - 1 : Front(taken)[i] = taken[i]
  BY <1>3, FrontAndLast
<1>5. f = Reply(Last(taken)) /\ f \in FrameSet
  BY <1>4, ReplyIsFrame DEF Answer, Reply
<1> HIDE DEF f
<1>6. /\ h \in Seq(Parts) /\ reply' \in Seq(Parts) /\ Len(reply') <= 1
      /\ f.len = 0 => reply' = <<>>
  BY <1>1, <1>3, <1>5, SentFacts, PayloadFacts, NumbersOfParts
<1> HIDE DEF h
<1>7. down' \in Seq(Parts)
  BY <1>1, <1>3, <1>6 DEF Downward
<1>8. Types'
  BY <1>1, <1>2, <1>6, <1>7 DEF Core, Types
<1>9. Control'
  BY <1>1, <1>2, <1>3 DEF Core, Control, Starts
<1>10. Heeded'
  BY <1>1, <1>2 DEF Core, Heeded
<1>11. Coming'
  BY <1>1, <1>2 DEF Core, Coming, Incoming
<1>12. Going'
  <2> SUFFICES ASSUME client' \in {"wait", "open"}
               PROVE  /\ client' = "wait" => down' # <<>>
                      /\ \E replies, v : replies \in Seq(FrameSet) /\ Replying(replies, v)'
    BY DEF Going
  <2>1. client \in {"wait", "open"} /\ down' = down \o h
    BY <1>1, <1>3 DEF Downward
  <2>2. client = "wait" => down # <<>>
    BY <1>1, <2>1 DEF Core, Going
  <2>3. PICK replies, w : replies \in Seq(FrameSet) /\ Replying(replies, w)
    BY <1>1, <2>1 DEF Core, Going
  <2>4. /\ RepliesTo(replies, Front(taken)) /\ Starts(answers, replies)
        /\ Carries(Outgoing, replies, Len(answers), NoMask, Len(replies))
    BY <1>1, <2>3 DEF Replying, Heard
  <2>5. Outgoing \in Seq(Parts) /\ Outgoing' = Outgoing \o h /\ (client' = "wait" => down' # <<>>)
    BY <1>1, <1>3, <1>6, <2>1, <2>2, TailOfAppended DEF Outgoing
  <2> DEFINE rs == Append(replies, f)
             v == IF f.len = 0 THEN Len(replies) + 1 ELSE Len(replies)
  <2>6. /\ rs \in Seq(FrameSet) /\ Len(rs) = Len(replies) + 1 /\ rs[Len(rs)] = f
        /\ \A i \in 1 .. Len(replies) : rs[i] = replies[i]
    BY <1>5, <2>3
  <2>7. RepliesTo(rs, taken)
    <3>1. \A i \in 1 .. Len(Front(taken)) : Front(taken)[i].op # Close
      BY <1>1, <1>4 DEF Core, Heeded
    <3>2. RepliesTo(Append(replies, Reply(Last(taken))), Append(Front(taken), Last(taken)))
      BY <1>3, <1>4, <2>3, <2>4, <3>1, OneReply
    <3> QED BY <1>4, <1>5, <3>2
  <2>8. Carries(Outgoing \o h, rs, Len(answers), NoMask, v)
    BY <1>3, <1>5, <2>3, <2>4, <2>5, CarriesHeader DEF h
  <2> HIDE DEF rs
  <2>9. Starts(answers, rs)
    <3>1. Len(answers) \in Nat /\ Len(replies) \in Nat
      BY DEF Core, Types
    <3> QED BY <2>4, <2>6, <3>1 DEF Starts
  <2>10. reply' = Unwritten(rs, NoMask, v)
    <3>1. Len(replies) \in Nat
      OBVIOUS
    <3> QED BY <1>1, <1>6, <2>6, <3>1 DEF Unwritten
  <2>11. Heard' = taken /\ server' \in {"answering", "closing"}
    BY <1>1, <1>2 DEF Heard
  <2> HIDE DEF v
  <2>12. /\ RepliesTo(rs, Heard') /\ Starts(answers', rs)
         /\ Carries(Outgoing', rs, Len(answers'), NoMask, v)
    BY <1>1, <2>5, <2>7, <2>8, <2>9, <2>11
  <2>13. ASSUME NEW all, NEW u, all = rs, u = v
         PROVE  Replying(all, u)'
    BY <2>10, <2>11, <2>12, <2>13 DEF Replying
  <2> QED BY <2>5, <2>6, <2>13
<1> QED BY <1>8, <1>9, <1>10, <1>11, <1>12 DEF Core

LEMMA AnswerPayloadStep ==
  ASSUME Core, AnswerPayload
  PROVE  Core'
<1> USE DEF streams, counts
<1>1. /\ server \in {"answering", "closing"}
      /\ down' = Downward(reply) /\ reply' = <<>>
      /\ UNCHANGED <<client, up, upEnd, writing, in, taken, asked, answers>>
      /\ \/ /\ server = "answering" /\ out' = out + 1 /\ server' = "serve"
            /\ downEnd' = downEnd
         \/ /\ server = "closing" /\ server' = "returned" /\ out' = out
            /\ downEnd' \in {"fin", "reset"}
  BY DEF AnswerPayload, Return
<1>2. /\ down \in Seq(Parts) /\ reply \in Seq(Parts) /\ (client # "closed" => upEnd = "open")
      /\ downEnd = "open" /\ NoMask \in Masks
  BY <1>1 DEF Core, Control, Types, Masks
<1>3. down' \in Seq(Parts) /\ reply' \in Seq(Parts) /\ Len(reply') <= 1
  BY <1>1, <1>2 DEF Downward
<1>4. Types'
  BY <1>1, <1>3 DEF Core, Types
<1>5. Control'
  BY <1>1, <1>2 DEF Core, Control, Starts
<1>6. Heeded'
  BY <1>1 DEF Core, Heeded
<1>7. Coming'
  BY <1>1 DEF Core, Coming, Incoming
<1>8. Going'
  <2> SUFFICES ASSUME client' \in {"wait", "open"}
               PROVE  /\ client' = "wait" => down' # <<>>
                      /\ \E replies, v : replies \in Seq(FrameSet) /\ Replying(replies, v)'
    BY DEF Going
  <2>1. client \in {"wait", "open"} /\ down' = down \o reply
    BY <1>1, <1>2 DEF Downward
  <2>2. client = "wait" => down # <<>>
    BY <1>1, <2>1 DEF Core, Going
  <2>3. PICK replies, w : replies \in Seq(FrameSet) /\ Replying(replies, w)
    BY <1>1, <2>1 DEF Core, Going
  <2>4. /\ RepliesTo(replies, taken) /\ Starts(answers, replies)
        /\ Carries(Outgoing, replies, Len(answers), NoMask, w)
        /\ reply = Unwritten(replies, NoMask, w)
    BY <1>1, <2>3 DEF Replying, Heard
  <2>5. Outgoing \in Seq(Parts) /\ Outgoing' = Outgoing \o reply
        /\ (client' = "wait" => down' # <<>>)
    BY <1>1, <1>2, <2>1, <2>2, TailOfAppended DEF Outgoing
  <2>6. Carries(Outgoing', replies, Len(answers), NoMask, Len(replies))
    <3>1. CASE w = Len(replies)
      <4>1. reply = <<>>
        BY <2>4, <3>1 DEF Unwritten
      <4>2. Outgoing' = Outgoing
        BY <2>5, <4>1
      <4> QED BY <2>4, <3>1, <4>2
    <3>2. CASE w # Len(replies)
      <4>1. w < Len(replies) /\ reply = Payload(replies[Len(replies)], NoMask)
        BY <2>4, <3>2 DEF Unwritten, Carries, Cut
      <4>2. Carries(Outgoing \o Payload(replies[Len(replies)], NoMask), replies, Len(answers),
                    NoMask, Len(replies))
        BY <1>2, <2>3, <2>4, <2>5, <4>1, CarriesPayload
      <4> QED BY <2>5, <4>1, <4>2
    <3> QED BY <3>1, <3>2
  <2>7. Heard' = taken /\ server' \notin {"answering", "closing"}
    BY <1>1 DEF Heard
  <2>8. Replying(replies, Len(replies))'
    BY <1>1, <2>4, <2>6, <2>7 DEF Replying
  <2> QED BY <2>3, <2>5, <2>8
<1> QED BY <1>4, <1>5, <1>6, <1>7, <1>8 DEF Core

LEMMA ReadFailsStep ==
  ASSUME Core, ReadFails
  PROVE  Core'
<1> USE DEF streams, counts
<1>1. /\ server = "serve" /\ server' = "returned" /\ downEnd' \in {"fin", "reset"}
      /\ UNCHANGED <<client, up, down, upEnd, writing, reply, in, out, taken, asked, answers>>
  BY DEF ReadFails, Return
<1>2. Types'
  BY <1>1 DEF Core, Types
<1>3. Control'
  BY <1>1 DEF Core, Control, Starts
<1>4. Heeded'
  BY <1>1 DEF Core, Heeded
<1>5. Coming'
  BY <1>1 DEF Coming
<1>6. Going'
  <2>1. Outgoing' = Outgoing /\ Heard' = Heard
    BY <1>1 DEF Outgoing, Heard
  <2>2. \A replies, w : Replying(replies, w) => Replying(replies, w)'
    BY <1>1, <2>1 DEF Replying
  <2> QED BY <1>1, <2>2 DEF Core, Going
<1> QED BY <1>2, <1>3, <1>4, <1>5, <1>6 DEF Core

\* Every step of the server, of the client, and of neither.
LEMMA InvPreserved ==
  ASSUME Inv, [Next]_vars
  PROVE  Inv'
<1>1. Core'
  <2> USE DEF Inv
  <2>1. CASE Serve
    BY <2>1, UpgradeStep, RefuseStep, ReadStep, ReadFailsStep, AnswerHeaderStep,
       AnswerPayloadStep DEF Serve
  <2>2. CASE Client
    BY <2>2, DialStep, ResponseStep, NoResponseStep, WriteHeaderStep, WritePayloadStep,
       ReadAnswerStep, LeaveStep DEF Client
  <2>3. CASE UNCHANGED vars
    <3>1. UNCHANGED <<client, server, up, down, upEnd, downEnd, writing, reply, in, out, taken,
                      asked, answers>>
      BY <2>3 DEF vars, streams, counts
    <3>2. Core
      OBVIOUS
    <3> QED BY <3>1, <3>2 DEF Core, Types, Control, Heeded, Coming, Incoming, Going, Replying,
               Heard, Outgoing, Starts
  <2> QED BY <2>1, <2>2, <2>3 DEF Next, Over
<1> QED BY <1>1, ToldNext DEF Inv

LEMMA InvHolds == Spec => []Inv
<1>1. Inv /\ [Next]_vars => Inv'
  BY InvPreserved
<1> QED BY <1>1, InvInitially, PTL DEF Spec

-----------------------------------------------------------------------------
\* The types, for every set of lengths and number of frames
\* (websocket.go:45-180, 208-303).
THEOREM TypeCorrect == Spec => []TypeOK
<1>1. Inv => TypeOK
  <2> SUFFICES ASSUME Inv
               PROVE  TypeOK
    OBVIOUS
  <2> USE DEF Inv, Core
  <2>1. /\ asked \in Seq(FrameSet) /\ taken \in Seq(FrameSet) /\ answers \in Seq(FrameSet)
        /\ Len(asked) <= MaxFrames /\ in = Len(taken) /\ MaxFrames \in Nat
        /\ Len(taken) <= Len(asked)
    BY SessionAssumption DEF Types, Control, Starts
  <2>2. Len(answers) <= Len(asked)
    BY <2>1, DueFacts DEF Told
  <2>3. in \in 0 .. MaxFrames /\ out \in 0 .. in
    BY <2>1 DEF Types
  <2>4. ASSUME NEW frames \in {asked, taken, answers}
        PROVE  Len(frames) <= MaxFrames /\ \A i \in DOMAIN frames : FrameOf(frames[i])
    <3>1. frames \in Seq(FrameSet) /\ Len(frames) <= MaxFrames
      BY <2>1, <2>2, <2>4
    <3>2. \A i \in DOMAIN frames : frames[i] \in FrameSet
      BY <3>1
    <3> QED BY <3>1, <3>2, FrameFacts DEF FrameOf
  <2> QED BY <2>3, <2>4 DEF TypeOK, Types
<1> QED BY <1>1, InvHolds, PTL

\* Reader and writer stay in step on both streams, whatever the lengths of the
\* frames: what is read is what was written (websocket.go:227-303).
THEOREM StaysInStep == Spec => []InStep
<1>1. Inv => InStep
  <2> SUFFICES ASSUME Inv
               PROVE  InStep
    OBVIOUS
  <2> USE DEF Inv, Core
  <2>1. /\ asked \in Seq(FrameSet) /\ taken \in Seq(FrameSet) /\ Starts(taken, asked)
        /\ up \in Seq(Parts) /\ down \in Seq(Parts) /\ Mask \in Masks /\ NoMask \in Masks
    BY DEF Types, Control, Masks
  <2>2. IsPrefix(taken, asked)
    BY <2>1, StartsIsPrefix
  <2>3. ASSUME server = "serve", FrameRead(up)
        PROVE  Aligned(up)
    <3>1. up # <<>>
      BY <2>3 DEF FrameRead, HeaderRead
    <3>2. upEnd # "reset" /\ client # "dial"
      BY <2>3, <3>1 DEF Control
    <3>3. PICK w : Carries(up, asked, Len(taken), Mask, w)
      BY <2>3, <3>2 DEF Coming, Incoming
    <3> QED BY <2>1, <2>3, <3>3, CarriesFirst
  <2>4. ASSUME client = "open", FrameRead(down)
        PROVE  Aligned(down)
    <3>1. server # "request"
      BY <2>4 DEF Control
    <3>2. PICK replies, w : replies \in Seq(FrameSet) /\ Replying(replies, w)
      BY <2>4, <3>1 DEF Going
    <3>3. Carries(down, replies, Len(answers), NoMask, w)
      BY <2>4, <3>2 DEF Replying, Outgoing
    <3> QED BY <2>1, <2>4, <3>2, <3>3, CarriesFirst
  <2> QED BY <2>2, <2>3, <2>4 DEF InStep
<1> QED BY <1>1, InvHolds, PTL

\* The client reads its own frames back, in order, and when nothing is on the
\* way any more it has read them all (websocket.go:62-103).
THEOREM AnsweredInOrder == Spec => []AnswersInOrder
<1>1. Inv => AnswersInOrder
  <2> SUFFICES ASSUME Inv
               PROVE  AnswersInOrder
    OBVIOUS
  <2> USE DEF Inv, Core
  <2>1. ASSUME server = "serve", client = "open", upEnd = "open", up = <<>>, down = <<>>
        PROVE  Len(answers) = Cardinality(Due(asked))
    <3>1. /\ asked \in Seq(FrameSet) /\ taken \in Seq(FrameSet) /\ Starts(taken, asked)
          /\ Mask \in Masks /\ NoMask \in Masks
      BY DEF Types, Control, Masks
    <3>2. PICK w : Carries(up, asked, Len(taken), Mask, w)
      BY <2>1 DEF Coming, Incoming
    <3>3. Len(taken) = Len(asked)
      BY <2>1, <3>1, <3>2, CarriesNone
    <3>4. taken = asked
      BY <3>1, <3>3 DEF Starts
    <3>5. PICK replies, v : replies \in Seq(FrameSet) /\ Replying(replies, v)
      BY <2>1 DEF Going
    <3>6. RepliesTo(replies, taken) /\ Carries(down, replies, Len(answers), NoMask, v)
      BY <2>1, <3>5 DEF Replying, Outgoing, Heard
    <3>7. Len(answers) = Len(replies)
      BY <2>1, <3>1, <3>5, <3>6, CarriesNone
    <3> QED BY <3>4, <3>6, <3>7 DEF RepliesTo
  <2> QED BY <2>1 DEF AnswersInOrder, Told
<1> QED BY <1>1, InvHolds, PTL
=============================================================================
