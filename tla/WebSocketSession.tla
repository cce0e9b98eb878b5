-------------------------- MODULE WebSocketSession --------------------------
(***************************************************************************)
(* One WebSocket session between a client and the server agent: the        *)
(* upgrade (websocketx.Dial and Serve), the echo loop of Serve, and the    *)
(* end of the connection at any point, within a frame included.            *)
(*                                                                         *)
(* The client uses the Conn of websocketx; unlike the one of the probe it  *)
(* sends frames of any opcode and size, several before it reads, and the   *)
(* first of them possibly before the server has answered its request.      *)
(* Buffers are not limited and the log is left out; the gauges are those   *)
(* of ServerStats.                                                         *)
(***************************************************************************)
EXTENDS WebSocketFrame, SequencesExt

CONSTANTS
  Lengths,   \* payload lengths of the client
  MaxFrames  \* bound: frames of the client

ASSUME SessionAssumption == Lengths \subseteq Nat /\ MaxFrames \in Nat

VARIABLES
  client,    \* where the client is
  server,    \* where Serve is
  up, down,  \* what is sent and not read, to the server and to the client
  upEnd, downEnd,  \* how the stream ends: "open", "fin" or "reset"
  writing,   \* what the client has still to write of its frame
  reply,     \* what the server has still to write of its frame
  in, out,   \* the counters of Serve
  asked,     \* the frames the client began to write
  taken,     \* the frames that the server read
  answers    \* the frames that the client read

streams == <<up, down, upEnd, downEnd>>
counts  == <<in, out, taken>>
vars == <<client, server, streams, writing, reply, counts, asked, answers>>

Mask == 1

Init ==
  /\ client = "dial" /\ server = "request"
  /\ up = <<>> /\ down = <<>>
  /\ upEnd = "open" /\ downEnd = "open"
  /\ writing = <<>> /\ reply = <<>>
  /\ in = 0 /\ out = 0
  /\ asked = <<>> /\ taken = <<>> /\ answers = <<>>

-----------------------------------------------------------------------------
\* What reaches the other end: nothing that is written once it has gone.
Upward(parts)   == IF downEnd = "open" THEN up \o parts ELSE up
Downward(parts) == IF upEnd = "open" THEN down \o parts ELSE down

\* The request of Dial, or one that is not a proper upgrade.
Dial ==
  /\ client = "dial"
  /\ \E kind \in {"upgrade", "plain", "keyless"} :
       up' = Upward(<<[part |-> "request", kind |-> kind]>>)
  /\ client' = "wait"
  /\ UNCHANGED <<server, down, upEnd, downEnd, writing, reply, counts, asked, answers>>

\* Faulty Upgrade: what is buffered behind the request does not reach the loop.
UpgradeUnbuffered ==
  /\ server = "request"
  /\ up # <<>>
  /\ up[1].kind = "upgrade"
  /\ up' = <<>>
  /\ down' = Downward(<<[part |-> "response", status |-> 101]>>)
  /\ server' = "serve"
  /\ UNCHANGED <<client, upEnd, downEnd, writing, reply, counts, asked, answers>>

\* The loop reads on with the buffered reader of the request.
Upgrade ==
  /\ server = "request"
  /\ up # <<>>
  /\ up[1].kind = "upgrade"
  /\ up' = Tail(up)
  /\ down' = Downward(<<[part |-> "response", status |-> 101]>>)
  /\ server' = "serve"
  /\ UNCHANGED <<client, upEnd, downEnd, writing, reply, counts, asked, answers>>

\* Serve answers and returns; the connection stays with net/http.
Refuse ==
  /\ server = "request"
  /\ up # <<>>
  /\ up[1].kind # "upgrade"
  /\ up' = Tail(up)
  /\ down' = Downward(<<[part |-> "response", status |-> 400]>>)
  /\ server' = "returned"
  /\ UNCHANGED <<client, upEnd, downEnd, writing, reply, counts, asked, answers>>

\* Dial reads the response; Sec-WebSocket-Accept is not looked at.
Response ==
  /\ client = "wait"
  /\ down # <<>>
  /\ down' = Tail(down)
  /\ IF down[1].status = 101
       THEN client' = "open" /\ UNCHANGED upEnd
       ELSE client' = "closed" /\ upEnd' = "fin"
  /\ UNCHANGED <<server, up, downEnd, writing, reply, counts, asked, answers>>

\* Dial fails: the connection ended, or the timeout passed.
NoResponse ==
  /\ client = "wait"
  /\ client' = "closed"
  /\ upEnd' = "fin"
  /\ UNCHANGED <<server, up, down, downEnd, writing, reply, counts, asked, answers>>

-----------------------------------------------------------------------------
\* WriteFrame of the client, one write at a time.
WriteHeader(op, len) ==
  /\ client \in {"wait", "open"}
  /\ writing = <<>>
  /\ Len(asked) < MaxFrames
  /\ LET f == Frame(op, len, Len(asked) + 1)
     IN  /\ asked' = Append(asked, f)
         /\ up' = Upward(Header(f, Mask))
         /\ writing' = Payload(f, Mask)
  /\ UNCHANGED <<client, server, down, upEnd, downEnd, reply, counts, answers>>

WritePayload ==
  /\ client \in {"wait", "open"}
  /\ writing # <<>>
  /\ up' = Upward(writing)
  /\ writing' = <<>>
  /\ UNCHANGED <<client, server, down, upEnd, downEnd, reply, counts, asked, answers>>

ReadAnswer ==
  /\ client = "open"
  /\ FrameRead(down)
  /\ answers' = Append(answers, ReadFrame(down))
  /\ down' = SubSeq(down, FrameParts(down) + 1, Len(down))
  /\ UNCHANGED <<client, server, up, upEnd, downEnd, writing, reply, counts, asked>>

\* The client closes, within a frame perhaps, or its connection is reset: then
\* the server cannot read what it has not read yet.
Leave ==
  /\ client = "open"
  /\ client' = "closed"
  /\ writing' = <<>>
  /\ \/ upEnd' = "fin" /\ UNCHANGED up
     \/ upEnd' = "reset" /\ up' = <<>>
  /\ UNCHANGED <<server, down, downEnd, reply, counts, asked, answers>>

-----------------------------------------------------------------------------
\* What Serve answers a frame with.
Answer(f) == IF f.op = Ping THEN [f EXCEPT !.op = Pong] ELSE f

\* One round of the loop.  Frames of other opcodes are counted and dropped.
Read ==
  /\ server = "serve"
  /\ FrameRead(up)
  /\ LET f == ReadFrame(up)
     IN  /\ taken' = Append(taken, f)
         /\ server' = CASE f.op = Close -> "close"
                        [] f.op \in {Text, Binary, Ping} -> "answer"
                        [] OTHER -> "serve"
  /\ up' = SubSeq(up, FrameParts(up) + 1, Len(up))
  /\ in' = in + 1
  /\ UNCHANGED <<client, down, upEnd, downEnd, writing, reply, out, asked, answers>>

\* WriteFrame of the server, in two writes; its errors are ignored.
AnswerHeader ==
  /\ server \in {"answer", "close"}
  /\ LET f == Answer(Last(taken))
     IN  /\ down' = Downward(Header(f, NoMask))
         /\ reply' = Payload(f, NoMask)
  /\ server' = IF server = "answer" THEN "answering" ELSE "closing"
  /\ UNCHANGED <<client, up, upEnd, downEnd, writing, counts, asked, answers>>

\* The deferred function: the connection is closed, and reset if something was
\* left unread.
Return(rest) ==
  /\ server' = "returned"
  /\ downEnd' = IF rest = <<>> THEN "fin" ELSE "reset"

AnswerPayload ==
  /\ server \in {"answering", "closing"}
  /\ down' = Downward(reply)
  /\ reply' = <<>>
  /\ IF server = "answering"
       THEN out' = out + 1 /\ server' = "serve" /\ UNCHANGED downEnd
       ELSE Return(up) /\ UNCHANGED out
  /\ UNCHANGED <<client, up, upEnd, writing, in, taken, asked, answers>>

\* Faulty ReadFails: a frame that is too large is skipped by waiting.
ReadFailsAtEnd ==
  /\ server = "serve"
  /\ ~FrameRead(up) /\ ~TooLarge(up)
  /\ upEnd # "open"
  /\ Return(up)
  /\ UNCHANGED <<client, up, down, upEnd, writing, reply, counts, asked, answers>>

\* ReadFrame returns an error: the frame is too large, or the stream ends before
\* it does.
ReadFails ==
  /\ server = "serve"
  /\ ~FrameRead(up)
  /\ TooLarge(up) \/ upEnd # "open"
  /\ Return(up)
  /\ UNCHANGED <<client, up, down, upEnd, writing, reply, counts, asked, answers>>

-----------------------------------------------------------------------------
Serve == Upgrade \/ Refuse \/ Read \/ ReadFails \/ AnswerHeader \/ AnswerPayload
Client ==
  \/ Dial \/ Response \/ NoResponse \/ WritePayload \/ ReadAnswer \/ Leave
  \/ \E op \in Opcodes, len \in Lengths : WriteHeader(op, len)
Over == server = "returned" /\ client \in {"open", "closed"} /\ UNCHANGED vars

Next == Serve \/ Client \/ Over

\* The goroutine of Serve is scheduled.  Nothing is assumed of the client.
Fairness == WF_vars(Serve)

Spec == Init /\ [][Next]_vars
FairSpec == Spec /\ Fairness
=============================================================================
