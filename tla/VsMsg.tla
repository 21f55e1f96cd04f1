------------------------------- MODULE VsMsg -------------------------------
(***************************************************************************)
(* The framing of messages (src/vs_msg.c) and its use by the waiting state of  *)
(* the server (src/verisocks.c): the bytes that a client sends on one         *)
(* connection, arriving in fragments, and the replies written back.         *)
(*                                                                          *)
(* A byte is its position in the stream.  What the server reads at a position *)
(* is a pre-header, or a header, if a message starts there; anywhere else it  *)
(* is content, and two bytes of content read as a pre-header are some length.  *)
(***************************************************************************)
EXTENDS Integers, Sequences

CONSTANTS
  ByteSize,    \* values of a byte
  IntMax,      \* INT_MAX
  SSizeMax,    \* SSIZE_MAX
  JunkLengths, \* header lengths that two bytes of content may stand for
  BufferSize,  \* READ_BUFFER_SIZE
  ReadTrials,  \* VS_MSG_MAX_READ_TRIALS
  WriteTrials, \* VS_MSG_MAX_WRITE_TRIALS
  Messages,    \* messages a client may send: [type, header, len]
  Replies,     \* messages a reply may be: [type, header, len]
  MaxSent      \* bound: messages sent on the connection

ASSUME FramingAssumption ==
  /\ ByteSize \in Nat \ {0} /\ BufferSize \in Nat /\ BufferSize >= 3
  /\ IntMax \in Nat /\ SSizeMax \in Nat
  /\ BufferSize <= IntMax /\ IntMax <= SSizeMax
  /\ JunkLengths \subseteq Nat /\ JunkLengths # {}
  /\ ReadTrials \in Nat /\ WriteTrials \in Nat /\ MaxSent \in Nat
  /\ Messages \subseteq
       [type : {"json", "plain", "unknown"}, header : Nat \ {0}, len : Int]
  /\ Replies \subseteq
       [type : {"json", "plain", "unknown"}, header : Nat \ {0}, len : Nat]
  /\ \A m \in Messages \cup Replies : m.header < ByteSize * ByteSize

VARIABLES
  sent,    \* messages framed by the client, with the position of their first byte;
           \* len is the content-length announced
  arrived, \* bytes that can be read from the socket, or have been
  eof,     \* the client has closed its side
  open,    \* the server has the connection
  phase,   \* "pre", "header", "content": part being read; "reply"
  base,    \* position at which the message being read began
  taken,   \* bytes read from the socket
  got,     \* read_count of readn
  trials,  \* trials left in readn
  info,    \* vs_msg_info_t (len is a size_t), and the header length read
  done,    \* what each message was taken for, in order
  out      \* replies: UUID, bytes not written yet, trials left

stream   == <<sent, arrived, eof>>
position == <<base, taken, got, trials>>
vars     == <<stream, open, phase, position, info, done, out>>

M == INSTANCE VsMailbox

NoInfo == [header |-> 0, len |-> 0, type |-> "undefined", uuid |-> 0]

Init ==
  /\ sent = <<>> /\ arrived = 0 /\ eof = FALSE /\ open = TRUE
  /\ phase = "pre" /\ base = 0 /\ taken = 0 /\ got = 0 /\ trials = ReadTrials
  /\ info = NoInfo /\ done = <<>> /\ out = <<>>

---------------------------------------------------------------------------
(* Framing.                                                                 *)

\* The two bytes of the pre-header, most significant byte first: the length of the
\* header fits in them.
PreHeader(header) == <<header \div ByteSize, header % ByteSize>>

vs_msg_read_header_length_Swapped(pre) == pre[2] * ByteSize + pre[1]

vs_msg_read_header_length(pre) == pre[1] * ByteSize + pre[2]

\* What the header tells: type and length of the content, and the UUID.
vs_msg_create_header(m, uuid) ==
  [type |-> m.type, len |-> m.len, uuid |-> uuid, header |-> m.header]

\* Pre-header, header and content, at a position in the stream.
vs_msg_create_message(m, uuid, at) ==
  LET h == vs_msg_create_header(m, uuid) IN
  [type |-> h.type, len |-> h.len, uuid |-> h.uuid, header |-> h.header,
   pre |-> PreHeader(h.header), at |-> at]

\* The client frames a message in the same way, with or without a UUID.
Send ==
  /\ open /\ ~eof /\ Len(sent) < MaxSent
  /\ \E m \in Messages, uuid \in {0, Len(sent) + 1} :
       sent' = Append(sent, vs_msg_create_message(m, uuid, M!End(sent)))
  /\ UNCHANGED <<arrived, eof, open, phase, position, info, done, out>>

Arrive ==
  /\ arrived < M!End(sent)
  /\ arrived' \in (arrived + 1) .. M!End(sent)
  /\ UNCHANGED <<sent, eof, open, phase, position, info, done, out>>

HangUp ==
  /\ ~eof /\ eof' = TRUE
  /\ UNCHANGED <<sent, arrived, open, phase, position, info, done, out>>

---------------------------------------------------------------------------
(* Numbers of the C program.                                                *)

SizeMod == 2 * (SSizeMax + 1) \* size_t counts modulo this number

\* A number of a header as cJSON keeps it: an int, which saturates.
valueint(n) ==
  CASE n >= IntMax      -> IntMax
    [] n <= -IntMax - 1 -> -IntMax - 1
    [] OTHER            -> n

\* An int cast to size_t.
size_t(n) == IF n < 0 THEN SizeMod + n ELSE n

\* A sum of type size_t.
Wrapped(n) == IF n >= SizeMod THEN n - SizeMod ELSE n

\* A size_t returned as an int.  For sizes that vs_msg_read returns: what lies
\* beyond twice the int range is a small negative number.
ToInt(n) ==
  CASE n <= IntMax         -> n
    [] n > 2 * IntMax + 1  -> n - SizeMod
    [] OTHER               -> n - 2 * (IntMax + 1)

---------------------------------------------------------------------------
(* vs_msg_read.                                                             *)

\* Messages that start where the message being read began: one or none.
Here == {i \in DOMAIN sent : sent[i].at = base}

\* Length of the message, which wraps for a negative content-length.
TotalLength(h, len) == Wrapped(len + h + 2)

ReadLength_NoPreHeader(h, len) ==
  IF Wrapped(len + h) > BufferSize THEN BufferSize - h ELSE len

\* Length of the content to read: what the buffer has room for, unless the total
\* has wrapped to one that fits.
ReadLength(h, len) ==
  IF TotalLength(h, len) > BufferSize THEN BufferSize - h - 2 ELSE len

Want ==
  CASE phase = "pre"    -> 2
    [] phase = "header" -> info.header
    [] OTHER            -> ReadLength(info.header, info.len)

\* The system refuses to read more than SSIZE_MAX bytes.
Refused == Want - got > SSizeMax

\* One read of readn.  At the end of the stream a read returns nothing.
readn ==
  /\ open /\ phase \in {"pre", "header", "content"}
  /\ got < Want /\ trials > 0 /\ ~Refused
  /\ arrived > taken \/ eof
  /\ LET n == M!Smaller(Want - got, arrived - taken) IN
       got' = got + n /\ taken' = taken + n
  /\ trials' = trials - 1
  /\ UNCHANGED <<stream, open, phase, base, info, done, out>>

\* vs_msg_read returns a negative number: the connection is closed.
LoseClient ==
  /\ open' = FALSE
  /\ UNCHANGED <<stream, phase, position, info, done, out>>

\* No trial is left, or a read fails: the system refuses it, or the client has
\* reset the connection.
ReadGivesUp ==
  /\ open /\ phase \in {"pre", "header", "content"}
  /\ got < Want /\ (trials = 0 \/ eof \/ Refused)
  /\ LoseClient

\* The next readn.
Part(next) == phase' = next /\ got' = 0 /\ trials' = ReadTrials

HeaderLengths ==
  IF Here = {} THEN JunkLengths
  ELSE {vs_msg_read_header_length(sent[i].pre) : i \in Here}

HeaderFits_Truncated(h) == h >= 1

HeaderFits(h) == h >= 1 /\ h + 2 <= BufferSize

PreHeaderRead ==
  /\ open /\ phase = "pre" /\ got = 2
  /\ \E h \in HeaderLengths :
       \/ ~HeaderFits(h) /\ LoseClient
       \/ /\ HeaderFits(h) /\ Part("header")
          /\ info' = [NoInfo EXCEPT !.header = h]
          /\ UNCHANGED <<stream, open, base, taken, done, out>>

\* Headers that parse, and announce a type that is supported; content read as a
\* header does not parse.  A header without content-type, or with a UUID that is
\* not a string, crashes the simulator (strcmp, sscanf of NULL): for this
\* connection, the same as one that is closed.
vs_msg_read_info ==
  {i \in Here : sent[i].header = info.header /\ sent[i].type # "unknown"}

HeaderRead ==
  /\ open /\ phase = "header" /\ got = info.header
  /\ \/ vs_msg_read_info = {} /\ LoseClient
     \/ /\ \E i \in vs_msg_read_info :
             info' = [info EXCEPT !.len = size_t(valueint(sent[i].len)),
                                  !.type = sent[i].type, !.uuid = sent[i].uuid]
        /\ Part("content")
        /\ UNCHANGED <<stream, open, base, taken, done, out>>

---------------------------------------------------------------------------
(* verisocks_main_waiting, once a message is read.                          *)

TooLong_ByOne(total) == total > BufferSize

\* A message that fills the buffer is refused, as there is no room to end it.
TooLong(total) == total >= BufferSize

\* What vs_msg_read returns.
msg_len == ToInt(TotalLength(info.header, info.len))

Interpreted ==
  IF TooLong(msg_len) THEN "oversize"
  ELSE IF info.type = "json" THEN "command" ELSE "invalid"

\* Bytes that vs_msg_write writes.
FullLength(f) == vs_msg_read_header_length(f.pre) + f.len + 2

\* A length that an int does not hold is negative, like an error: the client is
\* dropped without a reply.
LengthNegative ==
  /\ open /\ phase = "content" /\ got = Want /\ msg_len < 0
  /\ LoseClient

\* Every message read is answered: here, or by the handler of its command.
ContentRead ==
  /\ open /\ phase = "content" /\ got = Want /\ msg_len >= 0
  /\ done' = Append(done, [from |-> base, bytes |-> taken - base,
                           uuid |-> info.uuid, verdict |-> Interpreted])
  /\ \E m \in Replies :
       LET reply == vs_msg_create_message(m, info.uuid, 0) IN
       out' = Append(out, [uuid |-> reply.uuid, left |-> FullLength(reply),
                           trials |-> WriteTrials])
  /\ phase' = "reply"
  /\ UNCHANGED <<stream, open, position, info>>

---------------------------------------------------------------------------
(* vs_msg_return.                                                           *)

Last == out[Len(out)]

Writing_Once == Last.left > 0 /\ Last.trials = WriteTrials

\* The loop of vs_msg_write goes on.
Writing == Last.left > 0 /\ Last.trials > 0

\* One write of vs_msg_write: some of the bytes.
vs_msg_write ==
  /\ open /\ phase = "reply" /\ Writing
  /\ \E n \in 1 .. Last.left :
       out' = [out EXCEPT ![Len(out)].left = @ - n, ![Len(out)].trials = @ - 1]
  /\ UNCHANGED <<stream, open, phase, position, info, done>>

Return_Skips ==
  /\ open /\ phase = "reply" /\ ~Writing
  /\ Part("pre") /\ base' = base + 2 + info.header + info.len
  /\ UNCHANGED <<stream, open, taken, info, done, out>>

\* vs_msg_return returns, whatever is left, and the server waits again.
Return ==
  /\ open /\ phase = "reply" /\ ~Writing
  /\ Part("pre") /\ base' = taken
  /\ UNCHANGED <<stream, open, taken, info, done, out>>

\* A write to a connection that the client has closed may fail.
WriteFails ==
  /\ open /\ phase = "reply" /\ Writing /\ eof
  /\ Part("pre") /\ base' = taken
  /\ UNCHANGED <<stream, open, taken, info, done, out>>

Server ==
  \/ readn \/ ReadGivesUp \/ PreHeaderRead \/ HeaderRead \/ LengthNegative
  \/ ContentRead \/ vs_msg_write \/ Return \/ WriteFails

Next == Send \/ Arrive \/ HangUp \/ Server

Spec == Init /\ [][Next]_vars

FairSpec == Spec /\ WF_vars(Arrive) /\ WF_vars(Server)
---------------------------------------------------------------------------
(* Properties.                                                              *)

Frame == [type : {"json", "plain", "unknown"}, header : Nat, len : Int,
          uuid : Nat, at : Nat, pre : Seq(Nat)]

\* Every variable holds a value of its type, and no more is read than has
\* arrived, nor arrives than was sent.
TypeOK ==
  /\ sent \in Seq(Frame) /\ eof \in BOOLEAN /\ open \in BOOLEAN
  /\ phase \in {"pre", "header", "content", "reply"}
  /\ base \in Nat /\ taken \in Nat /\ got \in Nat /\ trials \in 0 .. ReadTrials
  /\ arrived \in Nat /\ base <= taken /\ taken <= arrived /\ arrived <= M!End(sent)
  /\ info \in [header : Nat, len : 0 .. SizeMod - 1, uuid : Nat,
                type : {"json", "plain", "unknown", "undefined"}]
  /\ done \in Seq([from : Nat, bytes : Nat, uuid : Nat,
                   verdict : {"command", "invalid", "oversize"}])
  /\ out \in Seq([uuid : Nat, left : Nat, trials : 0 .. WriteTrials])

\* However the bytes arrive, the messages are taken for what they are, each
\* once and in order (vs_msg_read, verisocks_main_waiting).
ImplementsMailbox == M!Spec

\* A message whose rest is left in the stream.
Overflowed == \E i \in DOMAIN done : M!Size(sent[i]) > BufferSize

\* The next message cannot be read: for its header, or because it announces a
\* negative length or one that is beyond an int.
Unreadable ==
  /\ Len(done) < Len(sent)
  /\ LET m == sent[Len(done) + 1] IN
       m.header + 2 > BufferSize \/ m.type = "unknown" \/ ~M!Countable(m)

\* The server drops a client only if it hung up, sent one part of a message in
\* more fragments than readn reads, sent next a message that cannot be read, or
\* sent one longer than the buffer before (vs_msg_read returns -1, or a length
\* that is negative as an int).
LossHasReason ==
  ~open => eof \/ (trials = 0 /\ got < Want) \/ Unreadable \/ Overflowed

\* What is read of one message never exceeds the buffer, and leaves room for the
\* null character that ends a command (verisocks_main_waiting).  A content-length
\* of -1 passes the truncation: that nothing is read then rests on the system,
\* which refuses the length asked for.
BufferHolds ==
  /\ taken - base <= BufferSize
  /\ \A i \in DOMAIN done : done[i].verdict = "command" => done[i].bytes < BufferSize

\* Every message settled has one reply under its UUID, and a reply is cut short
\* only after the last write or by a client that has left (vs_msg_return).
RepliesWhole ==
  /\ Len(out) = Len(done)
  /\ \A i \in DOMAIN out :
       /\ out[i].uuid = done[i].uuid
       /\ \/ out[i].left = 0 \/ out[i].trials = 0 \/ eof
          \/ i = Len(out) /\ phase = "reply"

\* The server waits for bytes that were never announced: a header whose length are
\* two bytes of an overflowed message, or the content of a negative length.
Misled ==
  \/ phase = "header" /\ Here = {}
  \/ phase = "content" /\ \E i \in Here : sent[i].len < 0

\* A message sent is settled in the end, or its connection is closed: the server
\* does not wait for ever with a message before it, unless a client has misled it
\* about what to wait for.
EveryMessageSettled ==
  \A i \in 1 .. MaxSent : Len(sent) >= i ~> Len(done) >= i \/ ~open \/ Misled

=============================================================================
