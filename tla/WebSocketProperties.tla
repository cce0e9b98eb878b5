------------------------- MODULE WebSocketProperties -------------------------
(***************************************************************************)
(* What a WebSocket session guarantees its client.                         *)
(***************************************************************************)
EXTENDS WebSocketSession, FiniteSets

FrameOf(f) ==
  /\ f.op \in Opcodes
  /\ f.len \in Lengths
  /\ f.says \in 0 .. MaxFrames

TypeOK ==
  /\ client \in {"dial", "wait", "open", "closed"}
  /\ server \in {"request", "serve", "answer", "answering", "close", "closing", "returned"}
  /\ upEnd \in {"open", "fin", "reset"}
  /\ downEnd \in {"open", "fin", "reset"}
  /\ in \in 0 .. MaxFrames
  /\ out \in 0 .. in
  /\ Len(writing) <= 1 /\ Len(reply) <= 1
  /\ \A frames \in {asked, taken, answers} :
       Len(frames) <= MaxFrames /\ \A i \in DOMAIN frames : FrameOf(frames[i])

\* Reader and writer stay in step (websocket.go:227-303): the frames that the
\* server takes off the stream are those the client put on it, in order, with
\* opcode, length and payload, for lengths on both sides of every change of the
\* encoding and however the parts arrive; each part is read as what it was
\* written as.
InStep ==
  /\ IsPrefix(taken, asked)
  /\ server = "serve" /\ FrameRead(up)   => Aligned(up)
  /\ client = "open"  /\ FrameRead(down) => Aligned(down)

\* The frames a client may expect a reply to: no pongs or continuations, and none
\* after a close.  Turn counts them.
Due(frames) ==
  {i \in DOMAIN frames : /\ frames[i].op \notin {Continuation, Pong}
                         /\ \A j \in 1 .. i - 1 : frames[j].op # Close}
Turn(frames, i) == Cardinality({j \in Due(frames) : j <= i})
Reply(f) == IF f.op = Ping THEN [f EXCEPT !.op = Pong] ELSE f

\* The client reads its own frames back, in order, pings as pongs, and when both
\* streams are empty it has read them all: frames that the server's reader had
\* buffered behind the request are not lost (websocket.go:62-103).
AnswersInOrder ==
  /\ Len(answers) <= Cardinality(Due(asked))
  /\ \A i \in Due(asked) :
       Turn(asked, i) <= Len(answers) => answers[Turn(asked, i)] = Reply(asked[i])
  /\ (server = "serve" /\ client = "open" /\ upEnd = "open" /\ up = <<>> /\ down = <<>>)
       => Len(answers) = Cardinality(Due(asked))

\* A session ends once its client has gone, wherever in a frame it went and
\* whatever the server was still writing to it (websocket.go:75-79, 83-100).
SessionEnds == upEnd # "open" ~> server = "returned"
=============================================================================
