------------------------------ MODULE VsMsgInv ------------------------------
(***************************************************************************)
(* The inductive invariant of the framing, in parts: where the messages lie   *)
(* in the stream, how much of a message has been read, what has been settled, *)
(* and how far the server is in the stream.                                 *)
(***************************************************************************)
EXTENDS VsMsg

\* The last message that was settled.
Settled == sent[Len(done)]

\* The messages lie one behind the other in the stream.
Layout ==
  /\ \A i \in 1 .. Len(sent) :
       /\ sent[i].header >= 1
       /\ sent[i].pre = PreHeader(sent[i].header)
       /\ sent[i].at + M!Size(sent[i]) <= M!End(sent)
  /\ \A i, j \in 1 .. Len(sent) : i < j => sent[i].at + M!Size(sent[i]) <= sent[j].at
  /\ \A i \in 1 .. Len(sent) :
       i + 1 \in 1 .. Len(sent) => sent[i + 1].at = sent[i].at + M!Size(sent[i])
  /\ Len(sent) > 0 => sent[1].at = 0

\* The bytes read of the message in hand.
Reading ==
  /\ phase = "pre" => got <= 2 /\ taken = base + got
  /\ phase \in {"header", "content"} => HeaderFits(info.header)
  /\ phase = "header" => got <= info.header /\ taken = base + 2 + got
  /\ phase = "content" =>
       /\ got <= ReadLength(info.header, info.len)
       /\ got > 0 => 2 + info.header + ReadLength(info.header, info.len) <= BufferSize
       /\ taken = base + 2 + info.header + got
  /\ phase = "reply" => taken <= base + BufferSize

\* A command leaves room for the null character that ends it.
CommandsFit ==
  \A i \in 1 .. Len(done) : done[i].verdict = "command" => done[i].bytes < BufferSize

\* Replies, and messages that were settled.
Replying == RepliesWhole /\ (phase = "reply" => Len(out) > 0)

\* The stream is in step with the messages: no message has overflowed the buffer.
InStep == Len(done) > 0 => M!Size(Settled) <= BufferSize

\* What has been settled, and where the server is.
Position ==
  /\ Len(done) <= Len(sent)
  /\ \A i \in 1 .. Len(done) : done[i] = M!Outcome(sent[i])
  /\ \A i \in 1 .. Len(done) : i < Len(done) => M!Size(sent[i]) <= BufferSize
  /\ phase = "reply" =>
       /\ Len(done) > 0 /\ base = Settled.at
       /\ taken = base + M!Smaller(M!Size(Settled), BufferSize)
  /\ phase # "reply" /\ InStep =>
       base = IF Len(done) < Len(sent) THEN sent[Len(done) + 1].at ELSE M!End(sent)
  /\ phase # "reply" /\ ~InStep =>
       /\ phase \in {"pre", "header"} /\ Settled.at < base
       /\ base < Settled.at + M!Size(Settled)
  /\ phase \in {"header", "content"} /\ InStep =>
       /\ Len(done) < Len(sent)
       /\ info.header = sent[Len(done) + 1].header
  /\ phase = "content" =>
       /\ info.len = size_t(valueint(sent[Len(done) + 1].len))
       /\ info.type = sent[Len(done) + 1].type
       /\ info.uuid = sent[Len(done) + 1].uuid

IInv ==
  TypeOK /\ Layout /\ Reading /\ CommandsFit /\ Replying /\ Position /\ LossHasReason
=============================================================================
