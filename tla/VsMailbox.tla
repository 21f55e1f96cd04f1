----------------------------- MODULE VsMailbox -----------------------------
(***************************************************************************)
(* What the framing of messages promises, without bytes in motion: messages  *)
(* are settled in the order in which they were sent, each once and whole, and *)
(* with the outcome that its own length and type call for, until the         *)
(* connection is closed.  A message longer than the buffer is the last one    *)
(* that is settled, since the rest of it stays in the stream.               *)
(***************************************************************************)
EXTENDS Integers, Sequences

CONSTANTS
  BufferSize, \* bytes of the read buffer
  IntMax      \* longest message that can be counted

VARIABLES sent, done, open

vars == <<sent, done, open>>

\* Bytes of the content: as many as announced, and none for a negative length.
Body(m) == IF m.len > 0 THEN m.len ELSE 0

\* Bytes of a message on the wire: pre-header, header and content.
Size(m) == 2 + m.header + Body(m)

\* Messages with a length that is a number of bytes.
Countable(m) == m.len >= 0 /\ Size(m) <= IntMax

\* Where the next message starts in the stream.
End(s) == IF s = <<>> THEN 0 ELSE s[Len(s)].at + Size(s[Len(s)])

Smaller(a, b) == IF a < b THEN a ELSE b

Verdict(m) ==
  IF Size(m) >= BufferSize THEN "oversize"
  ELSE IF m.type = "json" THEN "command" ELSE "invalid"

\* What is made of a message: the bytes it was read from, and what it was.
Outcome(m) ==
  [from |-> m.at, bytes |-> Smaller(Size(m), BufferSize),
   uuid |-> m.uuid, verdict |-> Verdict(m)]

Init == sent = <<>> /\ done = <<>> /\ open = TRUE

Send ==
  /\ Len(sent') = Len(sent) + 1
  /\ sent' = Append(sent, sent'[Len(sent')])
  /\ sent'[Len(sent')].at = End(sent)
  /\ UNCHANGED <<done, open>>

Settle ==
  /\ open
  /\ Len(done) < Len(sent)
  /\ \A i \in 1 .. Len(done) : Size(sent[i]) <= BufferSize
  /\ Countable(sent[Len(done) + 1])
  /\ done' = Append(done, Outcome(sent[Len(done) + 1]))
  /\ UNCHANGED <<sent, open>>

Close == open' = FALSE /\ UNCHANGED <<sent, done>>

Next == Send \/ Settle \/ Close

Spec == Init /\ [][Next]_vars
=============================================================================
