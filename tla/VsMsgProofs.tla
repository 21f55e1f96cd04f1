---------------------------- MODULE VsMsgProofs ----------------------------
(***************************************************************************)
(* Proofs about the framing: whatever the lengths of messages, the buffer,    *)
(* the trials and the fragmentation, the server stays in step with the       *)
(* stream until a message overflows its buffer.                             *)
(***************************************************************************)
EXTENDS VsMsgInv, SequenceTheorems, TLAPS

-----------------------------------------------------------------------------
(* Lengths.                                                                 *)

\* The pre-header that vs_msg_create_message writes is read back as the length of
\* the header by vs_msg_read_header_length.
LEMMA PreHeaderRoundTrip ==
  ASSUME NEW h \in Nat
  PROVE  /\ PreHeader(h) \in Seq(Nat)
         /\ vs_msg_read_header_length(PreHeader(h)) = h
<1>1. ByteSize \in Nat \ {0}
  BY FramingAssumption
<1>2. h \div ByteSize \in Nat /\ h % ByteSize \in Nat
  BY <1>1
<1>3. h = (h \div ByteSize) * ByteSize + (h % ByteSize)
  BY <1>1
<1> QED
  BY <1>2, <1>3 DEF PreHeader, vs_msg_read_header_length

LEMMA BoundsType ==
  /\ BufferSize \in Nat /\ BufferSize >= 3
  /\ ReadTrials \in Nat /\ ReadTrials \in 0 .. ReadTrials
  /\ WriteTrials \in Nat /\ WriteTrials \in 0 .. WriteTrials
  BY FramingAssumption

LEMMA Widths ==
  /\ IntMax \in Nat /\ SSizeMax \in Nat /\ SizeMod \in Nat /\ BufferSize \in Nat
  /\ BufferSize >= 3 /\ BufferSize <= IntMax /\ IntMax <= SSizeMax
  /\ SizeMod = 2 * SSizeMax + 2
  BY FramingAssumption DEF SizeMod

\* The number that cJSON keeps, and what its cast to size_t makes of it.
LEMMA CastOfLength ==
  ASSUME NEW n \in Int
  PROVE  /\ valueint(n) \in Int
         /\ -IntMax - 1 <= valueint(n) /\ valueint(n) <= IntMax
         /\ valueint(n) < 0 <=> n < 0
         /\ n <= IntMax /\ n >= 0 => valueint(n) = n
         /\ n > IntMax => valueint(n) = IntMax
         /\ size_t(valueint(n)) \in 0 .. SizeMod - 1
         /\ n >= 0 => size_t(valueint(n)) = valueint(n)
         /\ n < 0 => size_t(valueint(n)) = SizeMod + valueint(n)
<1>1. /\ valueint(n) \in Int /\ -IntMax - 1 <= valueint(n) /\ valueint(n) <= IntMax
      /\ valueint(n) < 0 <=> n < 0
      /\ n <= IntMax /\ n >= 0 => valueint(n) = n
      /\ n > IntMax => valueint(n) = IntMax
  BY Widths DEF valueint
<1> QED
  BY <1>1, Widths DEF size_t

LEMMA SizeType ==
  ASSUME NEW m \in Frame
  PROVE  M!Size(m) \in Nat /\ M!Size(m) >= 2
<1>1. m.header \in Nat /\ m.len \in Int
  BY DEF Frame
<1>2. M!Body(m) \in Nat
  BY <1>1 DEF M!Body
<1> QED
  BY <1>1, <1>2 DEF M!Size

LEMMA EndType ==
  ASSUME NEW s \in Seq(Frame)
  PROVE  M!End(s) \in Nat
<1>1. CASE s = <<>>
  BY <1>1 DEF M!End
<1>2. CASE s # <<>>
  <2>1. s[Len(s)] \in Frame
    BY <1>2, Len(s) \in 1 .. Len(s)
  <2>2. s[Len(s)].at \in Nat
    BY <2>1 DEF Frame
  <2>3. M!Size(s[Len(s)]) \in Nat
    BY <2>1, SizeType
  <2>4. M!End(s) = s[Len(s)].at + M!Size(s[Len(s)])
    BY <1>2 DEF M!End
  <2> QED
    BY <2>2, <2>3, <2>4
<1> QED
  BY <1>1, <1>2

LEMMA LengthsOfMessages ==
  ASSUME NEW m \in Messages \cup Replies
  PROVE  /\ m.type \in {"json", "plain", "unknown"}
         /\ m.header \in Nat /\ m.header >= 1 /\ m.len \in Int
         /\ m \in Replies => m.len \in Nat
<1>1. CASE m \in Messages
  BY <1>1, FramingAssumption
<1>2. CASE m \in Replies
  <2>1. m \in [type : {"json", "plain", "unknown"}, header : Nat \ {0}, len : Nat]
    BY <1>2, FramingAssumption
  <2> QED
    BY <2>1
<1>3. m \in Messages => (m \in Replies => m.len \in Nat)
  BY <1>2
<1> QED
  BY <1>1, <1>2, <1>3

\* A message that vs_msg_create_message makes has the type of a frame.
LEMMA FrameMade ==
  ASSUME NEW m \in Messages \cup Replies, NEW uuid \in Nat, NEW at \in Nat,
         NEW f, f = vs_msg_create_message(m, uuid, at)
  PROVE  /\ f \in Frame /\ f.header >= 1 /\ f.len = m.len
         /\ f.pre = PreHeader(f.header) /\ f.at = at /\ f.uuid = uuid
<1>1. f = [type |-> m.type, len |-> m.len, uuid |-> uuid, header |-> m.header,
           pre |-> PreHeader(m.header), at |-> at]
  BY DEF vs_msg_create_message, vs_msg_create_header
<1>2. /\ m.type \in {"json", "plain", "unknown"}
      /\ m.header \in Nat /\ m.header >= 1 /\ m.len \in Int
  BY LengthsOfMessages
<1>3. PreHeader(m.header) \in Seq(Nat)
  BY <1>2, PreHeaderRoundTrip
<1>4. f \in Frame
  BY <1>1, <1>2, <1>3 DEF Frame
<1> QED
  BY <1>1, <1>2, <1>4

\* The client appends a frame where the stream ended.
LEMMA SendFrames ==
  ASSUME sent \in Seq(Frame), Send
  PROVE  \E f \in Frame :
           /\ sent' = Append(sent, f) /\ f.at = M!End(sent)
           /\ f.header >= 1 /\ f.pre = PreHeader(f.header)
           /\ M!End(sent') = M!End(sent) + M!Size(f)
<1>1. PICK m \in Messages, uuid \in {0, Len(sent) + 1} :
        sent' = Append(sent, vs_msg_create_message(m, uuid, M!End(sent)))
  BY DEF Send
<1>2. PICK f : f = vs_msg_create_message(m, uuid, M!End(sent))
  OBVIOUS
<1>3. /\ f \in Frame /\ f.header >= 1
      /\ f.pre = PreHeader(f.header) /\ f.at = M!End(sent)
  <2>1. uuid \in Nat /\ M!End(sent) \in Nat
    BY EndType
  <2> QED
    BY <1>2, <2>1, FrameMade
<1>4. sent' = Append(sent, f)
  BY <1>1, <1>2
<1>5. M!End(sent') = M!End(sent) + M!Size(f)
  <2>1. sent' # <<>> /\ sent'[Len(sent')] = f
    BY <1>3, <1>4
  <2> QED
    BY <2>1, <1>3 DEF M!End
<1> QED
  BY <1>3, <1>4, <1>5

LEMMA SentType ==
  ASSUME NEW s \in Seq(Frame)
  PROVE  /\ Len(s) \in Nat
         /\ \A i \in 1 .. Len(s) :
              /\ s[i] \in Frame /\ s[i].at \in Nat /\ s[i].header \in Nat
              /\ s[i].len \in Int /\ s[i].uuid \in Nat
              /\ s[i].type \in {"json", "plain", "unknown"}
              /\ M!Size(s[i]) \in Nat /\ M!Size(s[i]) >= 2
<1>1. \A i \in 1 .. Len(s) : s[i] \in Frame
  OBVIOUS
<1>2. Len(s) \in Nat
  OBVIOUS
<1>3. ASSUME NEW i \in 1 .. Len(s)
      PROVE  /\ s[i].at \in Nat /\ s[i].header \in Nat
             /\ s[i].len \in Int /\ s[i].uuid \in Nat
             /\ s[i].type \in {"json", "plain", "unknown"}
  BY <1>1 DEF Frame
<1> QED
  BY <1>1, <1>2, <1>3, SizeType

\* What a step does to the messages sent: nothing, or the client appends one.
LEMMA SentStep ==
  ASSUME TypeOK, [Next]_vars
  PROVE  \/ sent' = sent
         \/ /\ Send /\ sent' \in Seq(Frame) /\ Len(sent') = Len(sent) + 1
            /\ \A i \in 1 .. Len(sent) : sent'[i] = sent[i]
            /\ M!End(sent') = M!End(sent) + M!Size(sent'[Len(sent) + 1])
            /\ LET f == sent'[Len(sent) + 1] IN
                 /\ f \in Frame /\ f.at = M!End(sent) /\ f.header >= 1
                 /\ f.pre = PreHeader(f.header)
<1>1. CASE Send
  <2>1. sent \in Seq(Frame)
    BY DEF TypeOK
  <2>2. PICK f \in Frame :
           /\ sent' = Append(sent, f) /\ f.at = M!End(sent)
           /\ f.header >= 1 /\ f.pre = PreHeader(f.header)
           /\ M!End(sent') = M!End(sent) + M!Size(f)
    BY <1>1, <2>1, SendFrames
  <2>3. sent'[Len(sent) + 1] = f
    BY <2>1, <2>2
  <2>4. /\ sent' \in Seq(Frame) /\ Len(sent') = Len(sent) + 1
        /\ \A i \in 1 .. Len(sent) : sent'[i] = sent[i]
    BY <2>1, <2>2
  <2> QED
    BY <1>1, <2>2, <2>3, <2>4
<1>2. CASE ~Send
  BY <1>2 DEF Next, Server, Arrive, HangUp, readn, ReadGivesUp, LoseClient, PreHeaderRead,
     HeaderRead, LengthNegative, ContentRead, vs_msg_write, Return, WriteFails, vars, stream
<1> QED
  BY <1>1, <1>2

-----------------------------------------------------------------------------
(* Where the messages lie.                                                  *)

LEMMA InitLayout == Init => Layout
  BY DEF Init, Layout

LEMMA NextLayout == TypeOK /\ Layout /\ [Next]_vars => Layout'
<1> SUFFICES ASSUME TypeOK, Layout, [Next]_vars PROVE Layout'
  OBVIOUS
<1>1. CASE sent' = sent
  BY <1>1 DEF Layout
<1>2. CASE sent' # sent
  <2> DEFINE n == Len(sent)  f == sent'[n + 1]
  <2>1. /\ sent' \in Seq(Frame) /\ Len(sent') = n + 1
        /\ \A i \in 1 .. n : sent'[i] = sent[i]
        /\ M!End(sent') = M!End(sent) + M!Size(f)
        /\ f.at = M!End(sent) /\ f.header >= 1
        /\ f.pre = PreHeader(f.header)
    BY <1>2, SentStep
  <2>2. sent \in Seq(Frame)
    BY DEF TypeOK
  <2>3. n \in Nat /\ M!End(sent) \in Nat
    BY <2>2, EndType, SentType
  <2>4. /\ \A i \in 1 .. n + 1 : sent'[i].at \in Nat /\ M!Size(sent'[i]) \in Nat
        /\ M!Size(f) >= 2
    <3>1. /\ sent'[n + 1] \in Frame
          /\ \A i \in 1 .. Len(sent') : sent'[i].at \in Nat /\ M!Size(sent'[i]) \in Nat
      BY <2>1, <2>3, SentType
    <3> QED
      BY <2>1, <3>1, SizeType
  <2> HIDE DEF n, f
  <2>5. ASSUME NEW i \in 1 .. Len(sent')
        PROVE  /\ sent'[i].header >= 1
               /\ sent'[i].pre = PreHeader(sent'[i].header)
               /\ sent'[i].at + M!Size(sent'[i]) <= M!End(sent')
    <3>1. CASE i \in 1 .. n
      <4>1. sent'[i] = sent[i]
        BY <3>1, <2>1
      <4>2. sent[i].at + M!Size(sent[i]) <= M!End(sent)
        BY <3>1 DEF Layout, n
      <4>3. sent'[i].at + M!Size(sent'[i]) <= M!End(sent)
        BY <4>1, <4>2
      <4>4. sent'[i].at \in Nat /\ M!Size(sent'[i]) \in Nat
        BY <2>1, <2>4
      <4>5. sent'[i].at + M!Size(sent'[i]) <= M!End(sent')
        <5>1. M!Size(f) \in Nat
          BY <2>3, <2>4 DEF f
        <5> QED
          BY <2>1, <2>3, <4>3, <4>4, <5>1
      <4> QED
        BY <3>1, <4>1, <4>5 DEF Layout, n
    <3>2. CASE i = n + 1
      BY <3>2, <2>1, <2>3, <2>4 DEF f
    <3> QED
      BY <3>1, <3>2, <2>1, <2>3
  <2>6. ASSUME NEW i \in 1 .. Len(sent'), NEW j \in 1 .. Len(sent'), i < j
        PROVE  sent'[i].at + M!Size(sent'[i]) <= sent'[j].at
    <3>1. CASE j \in 1 .. n
      BY <3>1, <2>1, <2>3, <2>6 DEF Layout, n
    <3>2. CASE j = n + 1
      BY <3>2, <2>1, <2>3, <2>6 DEF Layout, n, f
    <3> QED
      BY <3>1, <3>2, <2>1, <2>3
  <2>7. ASSUME NEW i \in 1 .. Len(sent'), i + 1 \in 1 .. Len(sent')
        PROVE  sent'[i + 1].at = sent'[i].at + M!Size(sent'[i])
    <3>1. CASE i + 1 \in 1 .. n
      BY <3>1, <2>1, <2>3, <2>7 DEF Layout, n
    <3>2. CASE i + 1 = n + 1
      <4>1. i = Len(sent) /\ sent # <<>> /\ sent'[i] = sent[i]
        BY <3>2, <2>1, <2>3, <2>2 DEF n
      <4>2. f.at = sent[Len(sent)].at + M!Size(sent[Len(sent)])
        BY <4>1, <2>1 DEF M!End
      <4> QED
        BY <4>1, <4>2, <3>2 DEF f, n
    <3> QED
      BY <3>1, <3>2, <2>1, <2>3, <2>7
  <2>8. sent'[1].at = 0
    <3>1. CASE n = 0
      <4>1. sent = <<>>
        BY <3>1, <2>2 DEF n
      <4> QED
        BY <4>1, <3>1, <2>1 DEF M!End, f, n
    <3>2. CASE n > 0
      BY <3>2, <2>1, <2>3 DEF Layout, n
    <3> QED
      BY <3>1, <3>2, <2>3
  <2> QED
    BY <2>5, <2>6, <2>7, <2>8 DEF Layout
<1> QED
  BY <1>1, <1>2

-----------------------------------------------------------------------------
(* Types.                                                                   *)

\* The header length read is that of the message at the place, or of two bytes of
\* content.
LEMMA HeaderLengthsRead ==
  ASSUME TypeOK, Layout, NEW h \in HeaderLengths
  PROVE  /\ h \in Nat
         /\ Here = {} => h \in JunkLengths
         /\ Here # {} => \E i \in Here : h = sent[i].header
<1>1. CASE Here = {}
  BY <1>1, FramingAssumption DEF HeaderLengths
<1>2. CASE Here # {}
  <2>1. PICK i \in Here : h = vs_msg_read_header_length(sent[i].pre)
    BY <1>2 DEF HeaderLengths
  <2>2. i \in 1 .. Len(sent) /\ sent \in Seq(Frame)
    BY DEF Here, TypeOK
  <2>3. sent[i].header \in Nat
    BY <2>2, SentType
  <2>4. sent[i].pre = PreHeader(sent[i].header)
    BY <2>2 DEF Layout
  <2>5. h = sent[i].header
    BY <2>1, <2>3, <2>4, PreHeaderRoundTrip
  <2> QED
    BY <1>2, <2>3, <2>5
<1> QED
  BY <1>1, <1>2

\* A reply has a length, and one of at least a byte.
LEMMA ReplyLength ==
  ASSUME NEW m \in Replies, NEW uuid \in Nat
  PROVE  LET reply == vs_msg_create_message(m, uuid, 0) IN
           FullLength(reply) \in Nat /\ reply.uuid = uuid
<1>1. PICK f : f = vs_msg_create_message(m, uuid, 0)
  OBVIOUS
<1>2. f \in Frame /\ f.uuid = uuid /\ f.pre = PreHeader(f.header) /\ f.len = m.len
  BY <1>1, FrameMade
<1>3. f.header \in Nat /\ f.len \in Nat
  BY <1>2, LengthsOfMessages DEF Frame
<1>4. vs_msg_read_header_length(f.pre) = f.header
  BY <1>2, <1>3, PreHeaderRoundTrip
<1>5. FullLength(f) \in Nat
  BY <1>3, <1>4 DEF FullLength
<1> QED
  BY <1>1, <1>2, <1>5

LEMMA InitType == Init => TypeOK
<1> SUFFICES ASSUME Init PROVE TypeOK
  OBVIOUS
<1>1. /\ sent \in Seq(Frame) /\ M!End(sent) = 0 /\ arrived = 0 /\ base = 0 /\ taken = 0
  BY DEF Init, M!End
<1>2. info \in [header : Nat, len : 0 .. SizeMod - 1, uuid : Nat,
                type : {"json", "plain", "unknown", "undefined"}]
  BY Widths DEF Init, NoInfo
<1>3. /\ done \in Seq([from : Nat, bytes : Nat, uuid : Nat,
                       verdict : {"command", "invalid", "oversize"}])
      /\ out \in Seq([uuid : Nat, left : Nat, trials : 0 .. WriteTrials])
  BY DEF Init
<1>4. /\ eof \in BOOLEAN /\ open \in BOOLEAN
      /\ phase \in {"pre", "header", "content", "reply"} /\ got = 0 /\ trials = ReadTrials
  BY DEF Init
<1>5. /\ base \in Nat /\ taken \in Nat /\ got \in Nat /\ trials \in 0 .. ReadTrials
      /\ arrived \in Nat /\ base <= taken /\ taken <= arrived /\ arrived <= M!End(sent)
  BY <1>1, <1>4, BoundsType
<1> QED
  BY <1>1, <1>2, <1>3, <1>4, <1>5 DEF TypeOK

\* What can still be read into the buffer is a number.
LEMMA WantType ==
  ASSUME TypeOK
  PROVE  Want \in Int
<1>1. info.header \in Nat /\ info.len \in Int
  BY DEF TypeOK
<1> QED
  BY <1>1, BoundsType DEF Want, ReadLength

LEMMA NextType == TypeOK /\ Layout /\ [Next]_vars => TypeOK'
<1> SUFFICES ASSUME TypeOK, Layout, [Next]_vars PROVE TypeOK'
  OBVIOUS
<1>t. /\ sent \in Seq(Frame) /\ M!End(sent) \in Nat /\ arrived \in Nat
      /\ base \in Nat /\ taken \in Nat /\ got \in Nat /\ trials \in 0 .. ReadTrials
      /\ base <= taken /\ taken <= arrived /\ arrived <= M!End(sent)
  BY EndType DEF TypeOK
<1>1. CASE UNCHANGED vars
  BY <1>1 DEF TypeOK, vars, stream, position
<1>2. CASE Send
  <2>1. sent' \in Seq(Frame) /\ M!End(sent) <= M!End(sent')
    <3>1. CASE sent' = sent
      BY <3>1, <1>t
    <3>2. CASE sent' # sent
      <4>1. /\ sent' \in Seq(Frame) /\ sent'[Len(sent) + 1] \in Frame
            /\ M!End(sent') = M!End(sent) + M!Size(sent'[Len(sent) + 1])
        BY <3>2, SentStep
      <4>2. M!Size(sent'[Len(sent) + 1]) \in Nat
        BY <4>1, SizeType
      <4> QED
        BY <4>1, <4>2, <1>t
    <3> QED
      BY <3>1, <3>2
  <2>2. M!End(sent') \in Nat
    BY <2>1, EndType
  <2>3. arrived <= M!End(sent')
    BY <2>1, <2>2, <1>t
  <2> QED
    BY <1>2, <2>1, <2>3 DEF Send, TypeOK, position
<1>3. CASE Arrive
  BY <1>3, <1>t DEF Arrive, TypeOK, position
<1>4. CASE HangUp
  BY <1>4 DEF HangUp, TypeOK, position
<1>5. CASE readn
  <2>1. Want \in Int /\ got < Want /\ (arrived > taken \/ eof)
    BY <1>5, WantType DEF readn
  <2>2. PICK n : n = M!Smaller(Want - got, arrived - taken)
    OBVIOUS
  <2>3. n \in Nat /\ n <= arrived - taken
    BY <2>1, <2>2, <1>t DEF M!Smaller
  <2>4. got' = got + n /\ taken' = taken + n /\ trials' = trials - 1 /\ trials > 0
    BY <1>5, <2>2 DEF readn
  <2>5. /\ got' \in Nat /\ taken' \in Nat /\ trials' \in 0 .. ReadTrials
        /\ base <= taken' /\ taken' <= arrived
    BY <2>3, <2>4, <1>t, BoundsType
  <2> QED
    BY <1>5, <2>5 DEF readn, TypeOK, stream
<1>6. CASE ReadGivesUp \/ LengthNegative
  BY <1>6 DEF ReadGivesUp, LengthNegative, LoseClient, TypeOK, stream, position
<1>7. CASE PreHeaderRead
  <2>1. CASE LoseClient
    BY <2>1 DEF LoseClient, TypeOK, stream, position
  <2>2. ASSUME NEW h \in HeaderLengths,
               /\ Part("header") /\ info' = [NoInfo EXCEPT !.header = h]
               /\ UNCHANGED <<stream, open, base, taken, done, out>>
        PROVE  TypeOK'
    <3>1. h \in Nat
      BY HeaderLengthsRead
    <3>2. info' \in [header : Nat, len : 0 .. SizeMod - 1, uuid : Nat,
                     type : {"json", "plain", "unknown", "undefined"}]
      BY <2>2, <3>1, Widths DEF NoInfo
    <3> QED
      BY <2>2, <3>2, BoundsType DEF Part, TypeOK, stream
  <2> QED
    BY <1>7, <2>1, <2>2 DEF PreHeaderRead
<1>8. CASE HeaderRead
  <2>1. CASE LoseClient
    BY <2>1 DEF LoseClient, TypeOK, stream, position
  <2>2. ASSUME NEW i \in vs_msg_read_info,
               info' = [info EXCEPT !.len = size_t(valueint(sent[i].len)),
                                    !.type = sent[i].type, !.uuid = sent[i].uuid],
               Part("content"), UNCHANGED <<stream, open, base, taken, done, out>>
        PROVE  TypeOK'
    <3>1. i \in 1 .. Len(sent)
      BY <1>t DEF vs_msg_read_info, Here
    <3>2. /\ size_t(valueint(sent[i].len)) \in 0 .. SizeMod - 1 /\ sent[i].uuid \in Nat
          /\ sent[i].type \in {"json", "plain", "unknown"}
      BY <3>1, <1>t, SentType, CastOfLength
    <3>3. info' \in [header : Nat, len : 0 .. SizeMod - 1, uuid : Nat,
                     type : {"json", "plain", "unknown", "undefined"}]
      BY <2>2, <3>2 DEF TypeOK
    <3> QED
      BY <2>2, <3>3, BoundsType DEF Part, TypeOK, stream
  <2> QED
    BY <1>8, <2>1, <2>2 DEF HeaderRead
<1>9. CASE ContentRead
  <2>1. PICK m \in Replies :
          LET reply == vs_msg_create_message(m, info.uuid, 0) IN
          out' = Append(out, [uuid |-> reply.uuid, left |-> FullLength(reply),
                              trials |-> WriteTrials])
    BY <1>9 DEF ContentRead
  <2>2. info.uuid \in Nat
    BY DEF TypeOK
  <2>3. PICK left \in Nat :
          out' = Append(out, [uuid |-> info.uuid, left |-> left, trials |-> WriteTrials])
    BY <2>1, <2>2, ReplyLength
  <2>4. out' \in Seq([uuid : Nat, left : Nat, trials : 0 .. WriteTrials])
    BY <2>2, <2>3, BoundsType DEF TypeOK
  <2>5. Interpreted \in {"command", "invalid", "oversize"} /\ taken - base \in Nat
    BY <1>t DEF Interpreted
  <2>6. done' \in Seq([from : Nat, bytes : Nat, uuid : Nat,
                       verdict : {"command", "invalid", "oversize"}])
    BY <1>9, <2>2, <2>5, <1>t DEF ContentRead, TypeOK
  <2> QED
    BY <1>9, <2>4, <2>6 DEF ContentRead, TypeOK, stream, position
<1>10. CASE vs_msg_write
  <2>1. PICK n \in 1 .. Last.left :
          out' = [out EXCEPT ![Len(out)].left = @ - n, ![Len(out)].trials = @ - 1]
    BY <1>10 DEF vs_msg_write
  <2> DEFINE R == [uuid : Nat, left : Nat, trials : 0 .. WriteTrials]
             r == [Last EXCEPT !.left = @ - n, !.trials = @ - 1]
  <2>2. CASE Len(out) \in DOMAIN out
    <3>a. out \in Seq(R)
      BY DEF TypeOK
    <3>b. Last \in R
      <4> HIDE DEF R
      <4>1. \A i \in DOMAIN out : out[i] \in R
        BY <3>a
      <4> QED
        BY <2>2, <4>1 DEF Last
    <3>c. Last.trials > 0
      BY <1>10 DEF vs_msg_write, Writing
    <3>1. Last.left \in Nat /\ Last.trials \in 0 .. WriteTrials
      BY <3>b
    <3>d. Last.left - n \in Nat /\ Last.trials - 1 \in 0 .. WriteTrials
      BY <3>1, <3>c, BoundsType
    <3>2. r \in R
      BY <3>b, <3>d
    <3>3. out' = [out EXCEPT ![Len(out)] = r]
      BY <2>1, <2>2 DEF Last, TypeOK
    <3>4. out' \in Seq(R)
      BY <2>2, <3>2, <3>3 DEF TypeOK
    <3> QED
      BY <1>10, <3>4 DEF vs_msg_write, TypeOK, stream, position
  <2>3. CASE Len(out) \notin DOMAIN out
    <3>1. out' = out
      BY <2>1, <2>3 DEF TypeOK
    <3> QED
      BY <1>10, <3>1 DEF vs_msg_write, TypeOK, stream, position
  <2> QED
    BY <2>2, <2>3
<1>11. CASE Return \/ WriteFails
  BY <1>11, <1>t, BoundsType DEF Return, WriteFails, Part, TypeOK, stream
<1> QED
  BY <1>1, <1>2, <1>3, <1>4, <1>5, <1>6, <1>7, <1>8, <1>9, <1>10, <1>11 DEF Next, Server

\* Every variable keeps its type, however many messages are sent and however they
\* are fragmented.
THEOREM TypeCorrect == Spec => []TypeOK
<1>1. Init => TypeOK /\ Layout
  BY InitType, InitLayout
<1>2. TypeOK /\ Layout /\ [Next]_vars => TypeOK' /\ Layout'
  BY NextType, NextLayout
<1> QED
  BY <1>1, <1>2, PTL DEF Spec

-----------------------------------------------------------------------------
(* How much is read.                                                        *)

\* What is read of the content fits behind the pre-header and the header, or it is
\* more than the system reads: then the length has wrapped.
LEMMA ReadLengthFits ==
  ASSUME NEW h \in Nat, NEW len \in 0 .. SizeMod - 1, HeaderFits(h)
  PROVE  /\ ReadLength(h, len) \in Nat
         /\ TotalLength(h, len) \in 0 .. SizeMod - 1
         /\ \/ 2 + h + ReadLength(h, len) <= BufferSize
            \/ ReadLength(h, len) > SSizeMax
         /\ len <= IntMax => TotalLength(h, len) = 2 + h + len
<1>1. TotalLength(h, len) = IF len + h + 2 >= SizeMod THEN len + h + 2 - SizeMod
                            ELSE len + h + 2
  BY Widths DEF TotalLength, Wrapped
<1>2. h + 2 <= BufferSize
  BY DEF HeaderFits
<1>3. ReadLength(h, len) = IF TotalLength(h, len) > BufferSize THEN BufferSize - h - 2
                           ELSE len
  BY DEF ReadLength
<1> QED
  BY <1>1, <1>2, <1>3, Widths

\* A total that is no negative int is what has been read, or the first part of it.
LEMMA TotalCounted ==
  ASSUME NEW h \in Nat, NEW len \in 0 .. SizeMod - 1, HeaderFits(h),
         ToInt(TotalLength(h, len)) >= 0
  PROVE  /\ TotalLength(h, len) <= IntMax
         /\ ToInt(TotalLength(h, len)) = TotalLength(h, len)
<1>1. TotalLength(h, len) \in 0 .. SizeMod - 1
  BY ReadLengthFits
<1> QED
  BY <1>1, Widths DEF ToInt

\* Of a message that is read to its end, what it announced is a number of bytes.
LEMMA OnlyCountable ==
  ASSUME NEW h \in Nat, NEW n \in Int, HeaderFits(h),
         ToInt(TotalLength(h, size_t(valueint(n)))) >= 0,
         ReadLength(h, size_t(valueint(n))) <= SSizeMax
  PROVE  /\ n >= 0 /\ TotalLength(h, size_t(valueint(n))) = 2 + h + n
         /\ 2 + h + n <= IntMax /\ size_t(valueint(n)) = n
<1> DEFINE len == size_t(valueint(n))
<1>1. len \in 0 .. SizeMod - 1
  BY CastOfLength
<1>2. TotalLength(h, len) <= IntMax
  BY <1>1, TotalCounted
<1>3. h + 2 <= BufferSize
  BY DEF HeaderFits
<1>4. n >= 0
  <2>1. SUFFICES ASSUME n < 0 PROVE FALSE
    OBVIOUS
  <2>2. len = SizeMod + valueint(n) /\ valueint(n) \in Int /\ -IntMax - 1 <= valueint(n)
    BY <2>1, CastOfLength
  <2>3. CASE len + h + 2 >= SizeMod
    <3>1. TotalLength(h, len) = len + h + 2 - SizeMod
      BY <2>3, <1>1, Widths DEF TotalLength, Wrapped
    <3>2. TotalLength(h, len) <= BufferSize
      BY <3>1, <1>1, <1>3, Widths
    <3>3. ReadLength(h, len) = len
      BY <3>1, <3>2, <1>1, Widths DEF ReadLength
    <3> QED
      BY <2>2, <3>3, Widths
  <2>4. CASE ~(len + h + 2 >= SizeMod)
    <3>1. TotalLength(h, len) = len + h + 2
      BY <2>4, <1>1, Widths DEF TotalLength, Wrapped
    <3> QED
      BY <2>2, <3>1, <1>2, Widths
  <2> QED
    BY <2>3, <2>4
<1>5. len = valueint(n) /\ valueint(n) <= IntMax /\ valueint(n) \in Int
  BY <1>4, CastOfLength
<1>6. TotalLength(h, len) = 2 + h + len
  BY <1>1, <1>5, ReadLengthFits
<1>7. n <= IntMax
  BY <1>2, <1>5, <1>6, CastOfLength, Widths
<1>8. valueint(n) = n
  BY <1>4, <1>7, CastOfLength
<1> QED
  BY <1>2, <1>4, <1>5, <1>6, <1>8

LEMMA InitReading == Init => Reading /\ CommandsFit
  BY DEF Init, Reading, CommandsFit

LEMMA NextReading ==
  TypeOK /\ Layout /\ Reading /\ CommandsFit /\ [Next]_vars => Reading' /\ CommandsFit'
<1> SUFFICES ASSUME TypeOK, Layout, Reading, CommandsFit, [Next]_vars
             PROVE  Reading' /\ CommandsFit'
  OBVIOUS
<1>t. /\ base \in Nat /\ taken \in Nat /\ got \in Nat /\ arrived \in Nat
      /\ info.header \in Nat /\ info.len \in 0 .. SizeMod - 1 /\ taken <= arrived
      /\ phase \in {"pre", "header", "content", "reply"} /\ BufferSize \in Nat
  BY BoundsType DEF TypeOK
<1>1. CASE UNCHANGED <<phase, position, info, done>>
  BY <1>1 DEF Reading, CommandsFit, position
<1>2. CASE readn
  <2>1. Want \in Int /\ got < Want /\ (arrived > taken \/ eof)
    BY <1>2, WantType DEF readn
  <2>2. PICK n : n = M!Smaller(Want - got, arrived - taken)
    OBVIOUS
  <2>3. n \in Nat /\ n <= Want - got
    BY <2>1, <2>2, <1>t DEF M!Smaller
  <2>4. /\ got' = got + n /\ taken' = taken + n
        /\ phase' = phase /\ base' = base /\ info' = info /\ done' = done
        /\ phase # "reply"
    BY <1>2, <2>2 DEF readn
  <2>5. got' <= Want
    BY <2>1, <2>3, <2>4, <1>t
  <2>6. ASSUME phase = "content" PROVE Reading'
    <3>1. HeaderFits(info.header) /\ taken = base + 2 + info.header + got
      BY <2>6 DEF Reading
    <3>2. 2 + info.header + ReadLength(info.header, info.len) <= BufferSize
      <4>1. ~(ReadLength(info.header, info.len) - got > SSizeMax)
        BY <1>2, <2>6 DEF readn, Refused, Want
      <4>2. CASE got > 0
        BY <4>2, <2>6 DEF Reading
      <4>3. CASE got = 0
        BY <4>1, <4>3, <3>1, <1>t, ReadLengthFits, Widths
      <4> QED
        BY <4>2, <4>3, <1>t
    <3>3. got' <= ReadLength(info.header, info.len)
      BY <2>5, <2>6 DEF Want
    <3>4. taken' = base + 2 + info.header + got'
      BY <3>1, <2>3, <2>4, <1>t
    <3>5. /\ HeaderFits(info'.header) /\ taken' = base' + 2 + info'.header + got'
          /\ got' <= ReadLength(info'.header, info'.len)
          /\ 2 + info'.header + ReadLength(info'.header, info'.len) <= BufferSize
      BY <2>4, <3>1, <3>2, <3>3, <3>4
    <3>6. phase' = "content"
      BY <2>4, <2>6
    <3> QED
      BY <3>5, <3>6 DEF Reading
  <2>7. ASSUME phase # "content" PROVE Reading'
    <3>1. phase' \in {"pre", "header"}
      BY <2>4, <2>7, <1>t
    <3>2. CASE phase = "pre"
      BY <2>3, <2>4, <2>5, <3>2, <1>t DEF Reading, Want
    <3>3. CASE phase = "header"
      BY <2>3, <2>4, <2>5, <3>3, <1>t DEF Reading, Want
    <3> QED
      BY <2>4, <3>1, <3>2, <3>3
  <2>8. Reading'
    BY <2>6, <2>7
  <2> QED
    BY <2>4, <2>8 DEF CommandsFit
<1>3. CASE PreHeaderRead /\ ~LoseClient
  <2>1. PICK h \in HeaderLengths :
          /\ HeaderFits(h) /\ Part("header") /\ info' = [NoInfo EXCEPT !.header = h]
          /\ UNCHANGED <<stream, open, base, taken, done, out>>
    BY <1>3 DEF PreHeaderRead
  <2>2. /\ phase = "pre" /\ got = 2 /\ phase' = "header" /\ got' = 0
        /\ base' = base /\ taken' = taken /\ done' = done /\ info'.header = h
    BY <1>3, <2>1 DEF PreHeaderRead, Part, NoInfo
  <2>3. h \in Nat /\ taken = base + 2
    BY <2>2, HeaderLengthsRead DEF Reading
  <2>4. Reading'
    BY <2>1, <2>2, <2>3, <1>t DEF Reading
  <2> QED
    BY <2>2, <2>4 DEF CommandsFit
<1>4. CASE HeaderRead /\ ~LoseClient
  <2>1. PICK i \in vs_msg_read_info :
          info' = [info EXCEPT !.len = size_t(valueint(sent[i].len)),
                               !.type = sent[i].type, !.uuid = sent[i].uuid]
    BY <1>4 DEF HeaderRead
  <2>2. /\ phase = "header" /\ got = info.header /\ phase' = "content" /\ got' = 0
        /\ base' = base /\ taken' = taken /\ done' = done
    BY <1>4 DEF HeaderRead, Part
  <2>3. i \in 1 .. Len(sent) /\ sent \in Seq(Frame)
    BY DEF TypeOK, vs_msg_read_info, Here
  <2> DEFINE len == size_t(valueint(sent[i].len))
  <2>4. info'.header = info.header /\ info'.len = len /\ len \in 0 .. SizeMod - 1
    BY <2>1, <2>3, SentType, CastOfLength DEF TypeOK
  <2> HIDE DEF len
  <2>5. HeaderFits(info.header) /\ taken = base + 2 + info.header
    BY <2>2 DEF Reading
  <2>6. ReadLength(info.header, len) \in Nat
    BY <2>4, <2>5, <1>t, ReadLengthFits
  <2>7. Reading'
    BY <2>2, <2>4, <2>5, <2>6, <1>t DEF Reading
  <2> QED
    BY <2>2, <2>7 DEF CommandsFit
<1>5. CASE ContentRead
  <2>1. /\ phase = "content" /\ got = ReadLength(info.header, info.len) /\ phase' = "reply"
        /\ base' = base /\ taken' = taken
    BY <1>5 DEF ContentRead, Want, position
  <2>2. HeaderFits(info.header) /\ taken = base + 2 + info.header + got
    BY <2>1 DEF Reading
  <2>3. taken <= base + BufferSize
    <3>1. got > 0 => 2 + info.header + got <= BufferSize
      BY <2>1 DEF Reading
    <3> QED
      BY <2>2, <3>1, <1>t DEF HeaderFits
  <2>4. Reading'
    BY <2>1, <2>3 DEF Reading
  <2> DEFINE d == [from |-> base, bytes |-> taken - base,
                   uuid |-> info.uuid, verdict |-> Interpreted]
  <2>5. done' = Append(done, d)
    BY <1>5 DEF ContentRead
  <2>6. d.verdict = "command" => d.bytes < BufferSize
    <3> DEFINE total == TotalLength(info.header, info.len)
    <3>1. msg_len >= 0 /\ msg_len = ToInt(total)
      BY <1>5 DEF ContentRead, msg_len
    <3>2. msg_len = total /\ total \in 0 .. SizeMod - 1
      BY <3>1, <2>2, <1>t, TotalCounted, ReadLengthFits
    <3>3. total = info.len + info.header + 2 \/ total = info.len + info.header + 2 - SizeMod
      BY <1>t, Widths DEF TotalLength, Wrapped
    <3> HIDE DEF total
    <3>4. ASSUME Interpreted = "command" PROVE total < BufferSize
      BY <3>2, <3>4, <1>t, Widths DEF Interpreted, TooLong
    <3>5. CASE got = 0
      <4>1. ASSUME total < BufferSize PROVE 2 + info.header < BufferSize
        <5>1. ReadLength(info.header, info.len) = info.len
          BY <4>1, <3>2, <1>t, Widths DEF ReadLength, total
        <5>2. info.len = 0
          BY <2>1, <3>5, <5>1
        <5>3. total = info.header + 2
          BY <5>2, <3>2, <3>3, <2>2, <1>t, Widths DEF HeaderFits
        <5> QED
          BY <4>1, <5>3, <1>t
      <4> QED
        BY <2>2, <3>4, <3>5, <4>1, <1>t
    <3>6. CASE got > 0
      <4>1. ASSUME total < BufferSize PROVE 2 + info.header + got < BufferSize
        <5>1. got = info.len
          BY <2>1, <4>1, <3>2, <1>t, Widths DEF ReadLength, total
        <5>2. 2 + info.header + got <= BufferSize
          BY <2>1, <3>6 DEF Reading
        <5>3. total = info.len + info.header + 2
          BY <5>1, <5>2, <3>2, <3>3, <1>t, Widths
        <5> QED
          BY <4>1, <5>1, <5>3, <1>t, Widths
      <4> QED
        BY <2>2, <3>4, <4>1, <1>t
    <3> QED
      BY <3>5, <3>6, <1>t
  <2> HIDE DEF d
  <2>7. done \in Seq([from : Nat, bytes : Nat, uuid : Nat,
                      verdict : {"command", "invalid", "oversize"}])
    BY DEF TypeOK
  <2>8. CommandsFit'
    <3>1. Len(done) \in Nat /\ Len(done') = Len(done) + 1
      BY <2>5, <2>7
    <3>2. done'[Len(done) + 1] = d /\ \A i \in 1 .. Len(done) : done'[i] = done[i]
      BY <2>5, <2>7
    <3>3. ASSUME NEW i \in 1 .. Len(done'), done'[i].verdict = "command"
          PROVE  done'[i].bytes < BufferSize
      BY <2>6, <3>1, <3>2, <3>3 DEF CommandsFit
    <3> QED
      BY <3>3 DEF CommandsFit
  <2> QED
    BY <2>4, <2>8
<1>6. CASE Return \/ WriteFails
  BY <1>6, <1>t DEF Return, WriteFails, Part, Reading, CommandsFit
<1> QED
  BY <1>1, <1>2, <1>3, <1>4, <1>5, <1>6 DEF Next, Server, vars, stream, Send, Arrive, HangUp,
     ReadGivesUp, LengthNegative, LoseClient, vs_msg_write, position

\* Whatever lengths a client announces, also negative ones and ones beyond an int, and
\* however the bytes arrive, the server reads no more of one message than its buffer
\* holds, and a command leaves the byte for the null character that
\* verisocks_main_waiting writes behind it.  The length asked for may be more, when the
\* total has wrapped: the system refuses it.
THEOREM BufferNeverOverrun == Spec => []BufferHolds
<1>1. Init => TypeOK /\ Layout /\ Reading /\ CommandsFit
  BY InitType, InitLayout, InitReading
<1>2. TypeOK /\ Layout /\ Reading /\ CommandsFit /\ [Next]_vars
        => TypeOK' /\ Layout' /\ Reading' /\ CommandsFit'
  BY NextType, NextLayout, NextReading
<1>3. TypeOK /\ Reading /\ CommandsFit => BufferHolds
  <2> SUFFICES ASSUME TypeOK, Reading, CommandsFit PROVE BufferHolds
    OBVIOUS
  <2>1. /\ base \in Nat /\ taken \in Nat /\ got \in Nat /\ BufferSize \in Nat
        /\ BufferSize >= 3 /\ info.header \in Nat
        /\ phase \in {"pre", "header", "content", "reply"}
    BY BoundsType DEF TypeOK
  <2>2. taken - base <= BufferSize
    <3>1. CASE phase = "pre"
      BY <3>1, <2>1 DEF Reading
    <3>2. CASE phase = "header"
      BY <3>2, <2>1 DEF Reading, HeaderFits
    <3>3. CASE phase = "content"
      <4>1. HeaderFits(info.header) /\ taken = base + 2 + info.header + got
        BY <3>3 DEF Reading
      <4>2. CASE got > 0
        <5>1. 2 + info.header + ReadLength(info.header, info.len) <= BufferSize
              /\ got <= ReadLength(info.header, info.len)
          BY <3>3, <4>2 DEF Reading
        <5>2. ReadLength(info.header, info.len) \in Int
          BY <2>1 DEF ReadLength, TypeOK
        <5> QED
          BY <4>1, <5>1, <5>2, <2>1
      <4>3. CASE got = 0
        BY <4>1, <4>3, <2>1 DEF HeaderFits
      <4> QED
        BY <4>2, <4>3, <2>1
    <3>4. CASE phase = "reply"
      BY <3>4, <2>1 DEF Reading
    <3> QED
      BY <2>1, <3>1, <3>2, <3>3, <3>4
  <2>3. DOMAIN done = 1 .. Len(done)
    BY DEF TypeOK
  <2> QED
    BY <2>2, <2>3 DEF BufferHolds, CommandsFit
<1> QED
  BY <1>1, <1>2, <1>3, PTL DEF Spec

-----------------------------------------------------------------------------
(* Replies.                                                                 *)

LEMMA InitReplying == Init => Replying
  BY DEF Init, Replying, RepliesWhole

LEMMA NextReplying == TypeOK /\ Replying /\ [Next]_vars => Replying'
<1> SUFFICES ASSUME TypeOK, Replying, [Next]_vars PROVE Replying'
  OBVIOUS
<1> DEFINE R == [uuid : Nat, left : Nat, trials : 0 .. WriteTrials]
           D == [from : Nat, bytes : Nat, uuid : Nat,
                 verdict : {"command", "invalid", "oversize"}]
<1>t. /\ out \in Seq(R) /\ done \in Seq(D) /\ eof \in BOOLEAN
      /\ phase \in {"pre", "header", "content", "reply"} /\ info.uuid \in Nat
  BY DEF TypeOK
<1>d. DOMAIN out = 1 .. Len(out) /\ Len(out) \in Nat /\ Len(done) \in Nat
  BY <1>t
<1>r. \A i \in 1 .. Len(out) : out[i].left \in Nat /\ out[i].trials \in Nat
  <2>1. \A i \in 1 .. Len(out) : out[i] \in R
    <3> HIDE DEF R
    <3> QED
      BY <1>t
  <2> QED
    BY <2>1, BoundsType
<1> HIDE DEF R, D
<1>1. CASE UNCHANGED <<phase, done, out>> /\ eof' \in {eof, TRUE}
  BY <1>1, <1>t DEF Replying, RepliesWhole
<1>2. CASE UNCHANGED <<done, out, eof>> /\ phase # "reply" /\ phase' # "reply"
  BY <1>2 DEF Replying, RepliesWhole
<1>3. CASE ContentRead
  <2>1. PICK m \in Replies :
          LET reply == vs_msg_create_message(m, info.uuid, 0) IN
          out' = Append(out, [uuid |-> reply.uuid, left |-> FullLength(reply),
                              trials |-> WriteTrials])
    BY <1>3 DEF ContentRead
  <2>2. PICK left \in Nat :
          out' = Append(out, [uuid |-> info.uuid, left |-> left, trials |-> WriteTrials])
    BY <1>t, <2>1, ReplyLength
  <2>3. PICK d : d.uuid = info.uuid /\ done' = Append(done, d)
    BY <1>3 DEF ContentRead
  <2>4. /\ Len(out') = Len(out) + 1 /\ Len(done') = Len(done) + 1
        /\ out'[Len(out) + 1].uuid = info.uuid /\ done'[Len(done) + 1].uuid = info.uuid
        /\ \A i \in 1 .. Len(out) : out'[i] = out[i]
        /\ \A i \in 1 .. Len(done) : done'[i] = done[i]
        /\ DOMAIN out' = 1 .. Len(out')
    BY <1>t, <2>2, <2>3
  <2>5. phase = "content" /\ phase' = "reply" /\ eof' = eof
    BY <1>3 DEF ContentRead, stream
  <2>6. Len(out) = Len(done)
        /\ \A i \in 1 .. Len(out) :
             out[i].uuid = done[i].uuid /\ (out[i].left = 0 \/ out[i].trials = 0 \/ eof)
    BY <1>d, <2>5 DEF Replying, RepliesWhole
  <2> QED
    BY <1>d, <2>4, <2>5, <2>6 DEF Replying, RepliesWhole
<1>4. CASE vs_msg_write
  <2>1. PICK n \in 1 .. Last.left :
          out' = [out EXCEPT ![Len(out)].left = @ - n, ![Len(out)].trials = @ - 1]
    BY <1>4 DEF vs_msg_write
  <2>2. phase = "reply" /\ phase' = "reply" /\ done' = done /\ eof' = eof
    BY <1>4 DEF vs_msg_write, stream
  <2>3. Len(out) > 0
    BY <2>2 DEF Replying
  <2>4. PICK r \in R : out' = [out EXCEPT ![Len(out)] = r] /\ r.uuid = Last.uuid
    <3> DEFINE r == [Last EXCEPT !.left = @ - n, !.trials = @ - 1]
    <3>1. Last \in R
      BY <1>t, <1>d, <2>3 DEF Last
    <3>2. Last.left \in Nat /\ Last.trials \in 0 .. WriteTrials /\ Last.trials > 0
      BY <1>4, <3>1 DEF R, vs_msg_write, Writing
    <3>3. Last.left - n \in Nat /\ Last.trials - 1 \in 0 .. WriteTrials
      BY <3>2, BoundsType
    <3>4. r \in R /\ r.uuid = Last.uuid
      BY <3>1, <3>3 DEF R
    <3>5. out' = [out EXCEPT ![Len(out)] = r]
      BY <2>1 DEF Last
    <3> QED
      BY <3>4, <3>5
  <2>5. /\ Len(out') = Len(out) /\ out'[Len(out)] = r
        /\ \A i \in 1 .. Len(out) : i # Len(out) => out'[i] = out[i]
        /\ DOMAIN out' = 1 .. Len(out)
    <3>1. Len(out) \in 1 .. Len(out)
      BY <1>d, <2>3
    <3>2. /\ Len(out') = Len(out)
          /\ \A j \in 1 .. Len(out) : out'[j] = IF j = Len(out) THEN r ELSE out[j]
      <4>1. /\ Len([out EXCEPT ![Len(out)] = r]) = Len(out)
            /\ \A j \in 1 .. Len(out) :
                 [out EXCEPT ![Len(out)] = r][j] = IF j = Len(out) THEN r ELSE out[j]
        BY <1>t, <3>1, ExceptSeq
      <4> QED
        BY <2>4, <4>1, Zenon
    <3>3. DOMAIN out' = DOMAIN out
      BY <2>4
    <3> QED
      BY <1>d, <3>1, <3>2, <3>3
  <2>6. Len(out) = Len(done) /\ \A i \in 1 .. Len(out) : out[i].uuid = done[i].uuid
    BY <1>d DEF Replying, RepliesWhole
  <2>7. \A i \in 1 .. Len(out) : out'[i].uuid = done'[i].uuid
    BY <1>d, <2>2, <2>3, <2>4, <2>5, <2>6 DEF Last
  <2>8. ASSUME NEW i \in 1 .. Len(out), i # Len(out)
        PROVE  out'[i].left = 0 \/ out'[i].trials = 0 \/ eof
    <3>1. out[i].left = 0 \/ out[i].trials = 0 \/ eof
      BY <1>d, <2>8 DEF Replying, RepliesWhole
    <3> QED
      BY <2>5, <2>8, <3>1
  <2>9. RepliesWhole'
    BY <1>d, <2>2, <2>5, <2>6, <2>7, <2>8 DEF RepliesWhole
  <2> QED
    BY <2>2, <2>3, <2>5, <2>9 DEF Replying
<1>5. CASE Return \/ WriteFails
  <2>1. /\ phase = "reply" /\ phase' = "pre" /\ done' = done /\ out' = out /\ eof' = eof
        /\ eof \/ ~Writing
    BY <1>5 DEF Return, WriteFails, Part, stream
  <2>2. Len(out) \in 1 .. Len(out)
    BY <1>d, <2>1 DEF Replying
  <2>3. out[Len(out)].left = 0 \/ out[Len(out)].trials = 0 \/ eof
    BY <1>r, <2>1, <2>2 DEF Writing, Last
  <2> QED
    BY <1>d, <2>1, <2>3 DEF Replying, RepliesWhole
<1> QED
  BY <1>1, <1>2, <1>3, <1>4, <1>5 DEF Next, Server, vars, stream, Send, Arrive, HangUp, readn,
     ReadGivesUp, LengthNegative, LoseClient, PreHeaderRead, HeaderRead, Part, Return,
     WriteFails

\* Whatever the lengths of the replies and of the writes, every message settled has
\* one reply under its UUID, cut short only after the last write or by a client
\* that has left.
THEOREM RepliesAreWhole == Spec => []RepliesWhole
<1>1. Init => TypeOK /\ Layout /\ Replying
  BY InitType, InitLayout, InitReplying
<1>2. TypeOK /\ Layout /\ Replying /\ [Next]_vars => TypeOK' /\ Layout' /\ Replying'
  BY NextType, NextLayout, NextReplying
<1>3. Replying => RepliesWhole
  BY DEF Replying
<1> QED
  BY <1>1, <1>2, <1>3, PTL DEF Spec

-----------------------------------------------------------------------------
(* Where the server is in the stream.                                       *)

LEMMA Numbers ==
  ASSUME TypeOK
  PROVE  /\ sent \in Seq(Frame) /\ Len(sent) \in Nat /\ Len(done) \in Nat
         /\ done \in Seq([from : Nat, bytes : Nat, uuid : Nat,
                          verdict : {"command", "invalid", "oversize"}])
         /\ M!End(sent) \in Nat /\ base \in Nat /\ taken \in Nat /\ got \in Nat
         /\ arrived \in Nat /\ base <= taken /\ taken <= arrived /\ arrived <= M!End(sent)
         /\ info.header \in Nat /\ info.len \in 0 .. SizeMod - 1 /\ info.uuid \in Nat
         /\ phase \in {"pre", "header", "content", "reply"}
         /\ BufferSize \in Nat /\ BufferSize >= 3
  BY EndType, BoundsType DEF TypeOK

LEMMA SmallerCases ==
  ASSUME NEW a \in Nat, NEW b \in Nat
  PROVE  /\ a <= b => M!Smaller(a, b) = a
         /\ a > b => M!Smaller(a, b) = b
  BY DEF M!Smaller

\* No two messages start at the same place.
LEMMA OneHere ==
  ASSUME TypeOK, Layout, NEW i \in Here, NEW j \in Here
  PROVE  i = j
<1>1. i \in 1 .. Len(sent) /\ j \in 1 .. Len(sent) /\ sent[i].at = sent[j].at
  BY Numbers DEF Here
<1>2. \A k \in 1 .. Len(sent) :
        sent[k].at \in Nat /\ M!Size(sent[k]) \in Nat /\ M!Size(sent[k]) >= 2
  BY Numbers, SentType
<1>3. ~(i < j) /\ ~(j < i)
  BY <1>1, <1>2 DEF Layout
<1> QED
  BY <1>1, <1>3

\* Out of step with the stream, no message starts where the server reads.
LEMMA NothingHere ==
  ASSUME TypeOK, Layout, Position, phase # "reply", ~InStep
  PROVE  Here = {}
<1> DEFINE L == Len(done)
<1>2. \A k \in 1 .. Len(sent) :
        sent[k].at \in Nat /\ M!Size(sent[k]) \in Nat /\ M!Size(sent[k]) >= 2
  BY Numbers, SentType
<1>3. L > 0 /\ L \in 1 .. Len(sent)
  BY Numbers DEF InStep, Position
<1>4. sent[L].at < base /\ base < sent[L].at + M!Size(sent[L])
  BY DEF Position, Settled
<1>5. ASSUME NEW i \in Here PROVE FALSE
  <2>1. i \in 1 .. Len(sent) /\ sent[i].at = base
    <3>1. i \in DOMAIN sent /\ sent[i].at = base
      BY DEF Here
    <3> QED
      BY <3>1, Numbers
  <2>2. CASE i < L
    <3>1. sent[i].at + M!Size(sent[i]) <= sent[L].at
      BY <1>3, <2>1, <2>2 DEF Layout
    <3> QED
      BY <1>2, <1>3, <1>4, <2>1, <3>1
  <2>3. CASE L < i
    <3>1. sent[L].at + M!Size(sent[L]) <= sent[i].at
      BY <1>3, <2>1, <2>3 DEF Layout
    <3>2. base \in Nat /\ sent[L].at \in Nat /\ M!Size(sent[L]) \in Nat
      BY <1>3, Numbers, SentType
    <3>3. sent[L].at + M!Size(sent[L]) <= base
      BY <2>1, <3>1
    <3> QED
      BY <1>4, <3>2, <3>3
  <2>4. CASE i = L
    <3>1. base < base
      BY <1>4, <2>1, <2>4
    <3> QED
      BY <3>1, Numbers
  <2> QED
    BY <1>3, <2>1, <2>2, <2>3, <2>4
<1> QED
  BY <1>5

\* When a pre-header has been read in step with the stream, a message is there, and
\* it is the next one; out of step, none is.
LEMMA WhereItReads ==
  ASSUME TypeOK, Layout, Reading, Position, phase = "pre", got = 2
  PROVE  /\ InStep => Len(done) < Len(sent) /\ Here = {Len(done) + 1}
         /\ ~InStep => Here = {}
<1> DEFINE L == Len(done)
<1>1. taken = base + 2
  BY Numbers DEF Reading
<1>2. ASSUME InStep PROVE L < Len(sent) /\ Here = {L + 1}
  <2>1. base = IF L < Len(sent) THEN sent[L + 1].at ELSE M!End(sent)
    BY <1>2 DEF Position
  <2>2. base # M!End(sent)
    BY <1>1, Numbers
  <2>3. L < Len(sent) /\ base = sent[L + 1].at
    BY <2>1, <2>2
  <2>4. L + 1 \in 1 .. Len(sent) /\ DOMAIN sent = 1 .. Len(sent)
    BY <2>3, Numbers
  <2>5. L + 1 \in Here
    BY <2>3, <2>4 DEF Here
  <2> QED
    BY <2>3, <2>5, OneHere
<1> QED
  BY <1>2, NothingHere

\* The header being read in step, or the content, belongs to the next message.
LEMMA NextInHand ==
  ASSUME TypeOK, Layout, Position, phase \in {"header", "content"},
         InStep \/ phase = "content"
  PROVE  /\ InStep /\ Len(done) < Len(sent) /\ Here = {Len(done) + 1}
         /\ base = sent[Len(done) + 1].at /\ Len(done) + 1 \in 1 .. Len(sent)
<1>1. InStep /\ Len(done) < Len(sent)
  BY DEF Position
<1>2. base = sent[Len(done) + 1].at
  BY <1>1 DEF Position
<1>3. Len(done) + 1 \in 1 .. Len(sent) /\ DOMAIN sent = 1 .. Len(sent)
  BY <1>1, Numbers
<1>4. Len(done) + 1 \in Here
  BY <1>2, <1>3 DEF Here
<1> QED
  BY <1>1, <1>2, <1>3, <1>4, OneHere

\* What verisocks_main_waiting makes of a message is what its length and its type
\* call for.
LEMMA SettlesNext ==
  ASSUME TypeOK, Layout, Reading, Position, ContentRead
  PROVE  /\ InStep /\ Len(done) < Len(sent)
         /\ done' = Append(done, M!Outcome(sent[Len(done) + 1]))
         /\ taken = base + M!Smaller(M!Size(sent[Len(done) + 1]), BufferSize)
         /\ base = sent[Len(done) + 1].at /\ M!Countable(sent[Len(done) + 1])
<1> DEFINE m == sent[Len(done) + 1]
<1>1. phase = "content" /\ got = ReadLength(info.header, info.len) /\ msg_len >= 0
  BY DEF ContentRead, Want
<1>2. InStep /\ Len(done) < Len(sent) /\ base = m.at /\ Len(done) + 1 \in 1 .. Len(sent)
  BY <1>1, NextInHand
<1>3. /\ info.header = m.header /\ info.len = size_t(valueint(m.len))
      /\ info.type = m.type /\ info.uuid = m.uuid
  BY <1>1, <1>2 DEF Position
<1>4. HeaderFits(info.header) /\ taken = base + 2 + info.header + got
  BY <1>1 DEF Reading
<1>n. m.len \in Int /\ info.header \in Nat /\ info.len \in 0 .. SizeMod - 1
  BY <1>2, Numbers, SentType
<1> HIDE DEF m
<1>r. ReadLength(info.header, info.len) <= SSizeMax
  <2>1. got > 0 => 2 + info.header + got <= BufferSize
    BY <1>1 DEF Reading
  <2> QED
    BY <1>1, <1>n, <2>1, Numbers, Widths
<1>c. /\ m.len >= 0 /\ info.len = m.len /\ 2 + info.header + m.len <= IntMax
      /\ TotalLength(info.header, info.len) = 2 + info.header + info.len
  BY <1>1, <1>3, <1>4, <1>n, <1>r, OnlyCountable DEF msg_len
<1>5. M!Size(m) = 2 + info.header + info.len
  BY <1>3, <1>c, <1>n DEF M!Size, M!Body
<1>6. taken - base = M!Smaller(M!Size(m), BufferSize)
  <2>1. info.header \in Nat /\ info.len \in Nat /\ base \in Nat /\ BufferSize \in Nat
    BY <1>c, <1>n, Numbers
  <2>2. CASE M!Size(m) <= BufferSize
    <3>1. ReadLength(info.header, info.len) = info.len
      BY <1>5, <1>c, <2>1, <2>2 DEF ReadLength
    <3> QED
      BY <1>1, <1>4, <1>5, <2>1, <2>2, <3>1, SmallerCases
  <2>3. CASE ~(M!Size(m) <= BufferSize)
    <3>1. ReadLength(info.header, info.len) = BufferSize - info.header - 2
      BY <1>5, <1>c, <2>1, <2>3 DEF ReadLength
    <3> QED
      BY <1>1, <1>4, <1>5, <2>1, <2>3, <3>1, SmallerCases
  <2> QED
    BY <2>2, <2>3
<1>m. msg_len = M!Size(m)
  BY <1>1, <1>3, <1>5, <1>c, <1>n, Widths DEF msg_len, ToInt
<1>7. Interpreted = M!Verdict(m)
  BY <1>3, <1>m DEF Interpreted, TooLong, M!Verdict
<1>k. M!Countable(m)
  BY <1>3, <1>5, <1>c DEF M!Countable
<1>8. done' = Append(done, [from |-> m.at, bytes |-> M!Smaller(M!Size(m), BufferSize),
                            uuid |-> m.uuid, verdict |-> M!Verdict(m)])
  BY <1>2, <1>3, <1>6, <1>7 DEF ContentRead, m
<1>9. done' = Append(done, M!Outcome(m))
  BY <1>8 DEF M!Outcome
<1>10. taken = base + M!Smaller(M!Size(m), BufferSize)
  BY <1>6, Numbers
<1> QED
  BY <1>2, <1>9, <1>10, <1>k DEF m

LEMMA InitPosition == Init => Position
<1> SUFFICES ASSUME Init PROVE Position
  OBVIOUS
<1>1. sent = <<>> /\ done = <<>> /\ base = 0 /\ phase = "pre" /\ M!End(sent) = 0
  BY DEF Init, M!End
<1> QED
  BY <1>1 DEF Position, InStep

LEMMA NextPosition ==
  TypeOK /\ Layout /\ Reading /\ Position /\ [Next]_vars => Position'
<1> SUFFICES ASSUME TypeOK, Layout, Reading, Position, [Next]_vars PROVE Position'
  OBVIOUS
<1> DEFINE L == Len(done)
<1>t. L \in Nat /\ Len(sent) \in Nat /\ L <= Len(sent)
  BY Numbers DEF Position
<1>1. CASE sent' # sent
  <2>1. /\ Send /\ Len(sent') = Len(sent) + 1
        /\ \A i \in 1 .. Len(sent) : sent'[i] = sent[i]
        /\ sent'[Len(sent) + 1].at = M!End(sent)
    BY <1>1, SentStep
  <2>2. /\ done' = done /\ phase' = phase /\ base' = base /\ taken' = taken /\ info' = info
    BY <2>1 DEF Send, position
  <2>3. \A i \in 1 .. L : sent'[i] = sent[i]
    BY <1>t, <2>1
  <2>4. Settled' = Settled \/ L = 0
    BY <1>t, <2>2, <2>3 DEF Settled
  <2>5. InStep' = InStep
    BY <2>2, <2>4 DEF InStep
  <2>6. L < Len(sent) => sent'[L + 1] = sent[L + 1]
    BY <1>t, <2>1
  <2>7. /\ Len(done') <= Len(sent')
        /\ \A i \in 1 .. Len(done') : done'[i] = M!Outcome(sent'[i])
        /\ \A i \in 1 .. Len(done') : i < Len(done') => M!Size(sent'[i]) <= BufferSize
    BY <1>t, <2>1, <2>2, <2>3 DEF Position
  <2>8. phase' = "reply" =>
          /\ Len(done') > 0 /\ base' = Settled'.at
          /\ taken' = base' + M!Smaller(M!Size(Settled'), BufferSize)
    BY <1>t, <2>2, <2>4 DEF Position
  <2>9. phase' # "reply" /\ InStep' =>
          base' = IF Len(done') < Len(sent') THEN sent'[Len(done') + 1].at ELSE M!End(sent')
    BY <1>t, <2>1, <2>2, <2>5, <2>6 DEF Position
  <2>10. phase' # "reply" /\ ~InStep' =>
           /\ phase' \in {"pre", "header"} /\ Settled'.at < base'
           /\ base' < Settled'.at + M!Size(Settled')
    BY <1>t, <2>2, <2>4, <2>5 DEF Position, InStep
  <2>11. /\ phase' \in {"header", "content"} /\ InStep' =>
              Len(done') < Len(sent') /\ info'.header = sent'[Len(done') + 1].header
         /\ phase' = "content" =>
              /\ info'.len = size_t(valueint(sent'[Len(done') + 1].len))
              /\ info'.type = sent'[Len(done') + 1].type
              /\ info'.uuid = sent'[Len(done') + 1].uuid
    <3>1. phase = "content" => InStep
      BY DEF Position
    <3>2. phase \in {"header", "content"} /\ InStep => L < Len(sent)
      BY DEF Position
    <3> QED
      BY <1>t, <2>1, <2>2, <2>5, <2>6, <3>1, <3>2 DEF Position
  <2> QED
    BY <2>7, <2>8, <2>9, <2>10, <2>11 DEF Position
<1>2. CASE UNCHANGED <<sent, done, phase, base, info>> /\ (taken' = taken \/ phase # "reply")
  BY <1>2 DEF Position, InStep, Settled
<1>3. CASE PreHeaderRead /\ ~LoseClient
  <2>1. PICK h \in HeaderLengths :
          /\ HeaderFits(h) /\ Part("header") /\ info' = [NoInfo EXCEPT !.header = h]
          /\ UNCHANGED <<stream, open, base, taken, done, out>>
    BY <1>3 DEF PreHeaderRead
  <2>2. /\ phase = "pre" /\ got = 2 /\ phase' = "header" /\ info'.header = h
        /\ base' = base /\ done' = done /\ sent' = sent
    BY <1>3, <2>1 DEF PreHeaderRead, Part, NoInfo, stream
  <2>3. InStep' = InStep /\ Settled' = Settled
    BY <2>2 DEF InStep, Settled
  <2>4. CASE InStep
    <3>1. L < Len(sent) /\ Here = {L + 1}
      BY <2>2, <2>4, WhereItReads
    <3>2. h = sent[L + 1].header
      BY <3>1, HeaderLengthsRead
    <3>3. base = sent[L + 1].at
      BY <2>2, <2>4, <3>1 DEF Position
    <3> QED
      BY <2>2, <2>3, <2>4, <3>1, <3>2, <3>3 DEF Position
  <2>5. CASE ~InStep
    BY <2>2, <2>3, <2>5 DEF Position
  <2> QED
    BY <2>4, <2>5
<1>4. CASE HeaderRead /\ ~LoseClient
  <2>1. PICK i \in vs_msg_read_info :
          info' = [info EXCEPT !.len = size_t(valueint(sent[i].len)),
                               !.type = sent[i].type, !.uuid = sent[i].uuid]
    BY <1>4 DEF HeaderRead
  <2>2. /\ phase = "header" /\ phase' = "content"
        /\ base' = base /\ done' = done /\ sent' = sent
    BY <1>4 DEF HeaderRead, Part, stream
  <2>s. InStep
    <3>1. Here # {}
      BY <2>1 DEF vs_msg_read_info
    <3> QED
      BY <2>2, <3>1, NothingHere
  <2>3. L < Len(sent) /\ Here = {L + 1} /\ base = sent[L + 1].at
    BY <2>2, <2>s, NextInHand
  <2>4. i = L + 1
    BY <2>3 DEF vs_msg_read_info
  <2>5. /\ info'.header = info.header /\ info'.len = size_t(valueint(sent[L + 1].len))
        /\ info'.type = sent[L + 1].type /\ info'.uuid = sent[L + 1].uuid
    BY <2>1, <2>4 DEF TypeOK
  <2>6. info.header = sent[L + 1].header
    BY <2>2, <2>s DEF Position
  <2>7. InStep' = InStep
    BY <2>2 DEF InStep, Settled
  <2> QED
    BY <2>2, <2>3, <2>5, <2>6, <2>7, <2>s DEF Position
<1>5. CASE ContentRead
  <2> DEFINE o == M!Outcome(sent[L + 1])
  <2>1. /\ InStep /\ L < Len(sent) /\ done' = Append(done, o)
        /\ taken = base + M!Smaller(M!Size(sent[L + 1]), BufferSize)
        /\ base = sent[L + 1].at
    BY <1>5, SettlesNext
  <2>2. phase' = "reply" /\ sent' = sent /\ base' = base /\ taken' = taken
    BY <1>5 DEF ContentRead, stream, position
  <2> HIDE DEF o
  <2>3. /\ Len(done') = L + 1 /\ done'[L + 1] = o
        /\ \A i \in 1 .. L : done'[i] = done[i]
    BY <2>1, Numbers
  <2>4. \A i \in 1 .. Len(done') : done'[i] = M!Outcome(sent'[i])
    <3>1. ASSUME NEW i \in 1 .. Len(done') PROVE done'[i] = M!Outcome(sent'[i])
      <4>1. CASE i \in 1 .. L
        BY <4>1, <2>2, <2>3 DEF Position
      <4>2. CASE i = L + 1
        BY <4>2, <2>2, <2>3 DEF o
      <4> QED
        BY <1>t, <2>3, <4>1, <4>2
    <3> QED
      BY <3>1
  <2>5. \A i \in 1 .. Len(done') : i < Len(done') => M!Size(sent'[i]) <= BufferSize
    <3>1. ASSUME NEW i \in 1 .. L PROVE M!Size(sent[i]) <= BufferSize
      <4>1. CASE i < L
        BY <4>1, <3>1 DEF Position
      <4>2. CASE i = L
        BY <4>2, <3>1, <1>t, <2>1 DEF InStep, Settled
      <4> QED
        BY <1>t, <3>1, <4>1, <4>2
    <3> QED
      BY <1>t, <2>2, <2>3, <3>1
  <2>6. Settled' = sent[L + 1]
    BY <2>2, <2>3 DEF Settled
  <2>7. Len(done') <= Len(sent') /\ Len(done') > 0
    BY <1>t, <2>1, <2>2, <2>3
  <2> QED
    BY <2>1, <2>2, <2>4, <2>5, <2>6, <2>7 DEF Position
<1>6. CASE Return \/ WriteFails
  <2>1. /\ phase = "reply" /\ phase' = "pre" /\ base' = taken
        /\ sent' = sent /\ done' = done
    BY <1>6 DEF Return, WriteFails, Part, stream
  <2>2. /\ L > 0 /\ L \in 1 .. Len(sent)
        /\ taken = Settled.at + M!Smaller(M!Size(Settled), BufferSize)
    BY <1>t, <2>1 DEF Position
  <2>3. /\ Settled.at \in Nat /\ M!Size(Settled) \in Nat
    BY <2>2, Numbers, SentType DEF Settled
  <2>4. ASSUME InStep
        PROVE  base' = IF L < Len(sent) THEN sent[L + 1].at ELSE M!End(sent)
    <3>1. taken = Settled.at + M!Size(Settled)
      BY <2>2, <2>3, <2>4, BoundsType, SmallerCases DEF InStep
    <3>2. CASE L < Len(sent)
      <4>1. L + 1 \in 1 .. Len(sent)
        BY <1>t, <3>2
      <4> QED
        BY <2>1, <2>2, <3>1, <3>2, <4>1 DEF Layout, Settled
    <3>3. CASE ~(L < Len(sent))
      <4>1. L = Len(sent) /\ sent # <<>>
        BY <1>t, <2>2, <3>3
      <4> QED
        BY <2>1, <3>1, <3>3, <4>1 DEF M!End, Settled
    <3> QED
      BY <3>2, <3>3
  <2>5. ASSUME ~InStep
        PROVE  Settled.at < base' /\ base' < Settled.at + M!Size(Settled)
    <3>1. M!Size(Settled) > BufferSize
      BY <2>3, <2>5, BoundsType DEF InStep
    <3>2. base' = Settled.at + BufferSize
      BY <2>1, <2>2, <2>3, <3>1, BoundsType, SmallerCases
    <3> QED
      BY <2>3, <3>1, <3>2, BoundsType
  <2>6. InStep' = InStep /\ Settled' = Settled
    BY <2>1 DEF InStep, Settled
  <2> QED
    BY <2>1, <2>4, <2>5, <2>6 DEF Position
<1>7. CASE readn \/ vs_msg_write
  <2>1. UNCHANGED <<sent, done, phase, base, info>> /\ (taken' = taken \/ phase # "reply")
    BY <1>7 DEF readn, vs_msg_write, stream, position
  <2> QED
    BY <1>2, <2>1
<1>8. CASE UNCHANGED vars \/ Arrive \/ HangUp \/ LoseClient
  <2>1. UNCHANGED <<done, phase, base, info, taken>>
    BY <1>8 DEF vars, stream, position, Arrive, HangUp, LoseClient
  <2>2. sent' = sent
    BY <1>8 DEF vars, stream, Arrive, HangUp, LoseClient
  <2> QED
    BY <1>2, <2>1, <2>2
<1>9. Send => sent' # sent \/ UNCHANGED <<sent, done, phase, base, info, taken>>
  BY DEF Send, position
<1> QED
  BY <1>1, <1>2, <1>3, <1>4, <1>5, <1>6, <1>7, <1>8, <1>9 DEF Next, Server, ReadGivesUp, LengthNegative

-----------------------------------------------------------------------------
(* Connections that are lost, and the mailbox.                              *)

\* A step by which the server closes the connection has its reason.
LEMMA ClosedForReason ==
  ASSUME TypeOK, Layout, Reading, Position, Server, open, ~open'
  PROVE  LossHasReason'
<1> DEFINE L == Len(done)
<1>1. \/ ReadGivesUp \/ LengthNegative
      \/ (PreHeaderRead /\ LoseClient) \/ (HeaderRead /\ LoseClient)
  <2>1. readn \/ ContentRead \/ vs_msg_write \/ Return \/ WriteFails => open' = open
    BY DEF readn, ContentRead, vs_msg_write, Return, WriteFails
  <2>2. PreHeaderRead => LoseClient \/ open' = open
    BY DEF PreHeaderRead
  <2>3. HeaderRead => LoseClient \/ open' = open
    BY DEF HeaderRead
  <2>4. ~(open' = open)
    OBVIOUS
  <2> QED
    BY <2>1, <2>2, <2>3, <2>4 DEF Server
<1>2. UNCHANGED <<stream, phase, position, info, done, out>>
  BY <1>1 DEF ReadGivesUp, LengthNegative, LoseClient
<1>4. ASSUME Unreadable \/ Overflowed PROVE LossHasReason'
  <2>1. sent' = sent /\ done' = done
    BY <1>2 DEF stream
  <2>2. Unreadable' \/ Overflowed'
    BY <1>4, <2>1 DEF Unreadable, Overflowed
  <2> QED
    BY <2>2 DEF LossHasReason
<1>3. ASSUME phase = "content", ~Unreadable
      PROVE  /\ ReadLength(info.header, info.len) <= BufferSize
             /\ msg_len >= 0
  <2> DEFINE m == sent[L + 1]
  <2>1. L < Len(sent) /\ L + 1 \in 1 .. Len(sent)
    BY <1>3, NextInHand
  <2>2. /\ info.header = m.header /\ info.len = size_t(valueint(m.len))
        /\ HeaderFits(info.header)
    BY <1>3, NextInHand DEF Position, Reading
  <2>3. M!Countable(m)
    BY <1>3, <2>1 DEF Unreadable
  <2>4. m.len \in Int /\ m.header \in Nat /\ info.header \in Nat
        /\ info.len \in 0 .. SizeMod - 1
    BY <2>1, Numbers, SentType
  <2> HIDE DEF m
  <2>5. m.len >= 0 /\ 2 + m.header + m.len <= IntMax
    BY <2>3, <2>4 DEF M!Countable, M!Size, M!Body
  <2>6. info.len = m.len
    BY <2>2, <2>4, <2>5, CastOfLength, Widths
  <2>7. TotalLength(info.header, info.len) = 2 + info.header + info.len
    BY <2>2, <2>4, <2>5, <2>6, ReadLengthFits, Widths
  <2>8. msg_len = 2 + info.header + info.len
    BY <2>2, <2>4, <2>5, <2>6, <2>7, Widths DEF msg_len, ToInt
  <2>9. ReadLength(info.header, info.len) <= BufferSize
    BY <2>4, <2>5, <2>6, <2>7, Widths DEF ReadLength
  <2> QED
    BY <2>4, <2>8, <2>9, Widths
<1>5. DOMAIN sent = 1 .. Len(sent) /\ DOMAIN done = 1 .. L /\ L \in Nat /\ BufferSize \in Nat
  BY Numbers
<1>8. CASE ReadGivesUp
  <2>1. eof \/ (trials = 0 /\ got < Want) \/ (Refused /\ phase \in {"pre", "header", "content"})
    BY <1>8 DEF ReadGivesUp
  <2>2. CASE eof \/ (trials = 0 /\ got < Want)
    BY <1>2, <2>2 DEF LossHasReason, Want, stream, position
  <2>3. CASE Refused /\ phase \in {"pre", "header", "content"}
    <3>1. Want > SSizeMax
      BY <2>3, WantType, Numbers, Widths DEF Refused
    <3>2. phase = "content"
      <4>1. CASE phase = "pre"
        BY <3>1, <4>1, Widths DEF Want
      <4>2. CASE phase = "header"
        <5>1. info.header + 2 <= BufferSize /\ info.header \in Nat
          BY <4>2, Numbers DEF Reading, HeaderFits
        <5>2. Want = info.header
          BY <4>2 DEF Want
        <5> QED
          BY <3>1, <5>1, <5>2, Widths
      <4> QED
        BY <2>3, <4>1, <4>2
    <3>3. Want = ReadLength(info.header, info.len)
      BY <3>2 DEF Want
    <3>4. Unreadable
      BY <1>3, <3>1, <3>2, <3>3, WantType, Widths
    <3> QED
      BY <1>4, <3>4
  <2> QED
    BY <2>1, <2>2, <2>3
<1>9. CASE LengthNegative
  <2>1. phase = "content" /\ msg_len < 0
    BY <1>9 DEF LengthNegative
  <2>2. msg_len \in Int
    <3>1. TotalLength(info.header, info.len) \in Int
      <4>1. info.header + info.len + 2 \in Int /\ info.len + info.header + 2 \in Int
        BY Numbers, Widths
      <4> QED
        BY <4>1, Widths DEF TotalLength, Wrapped
    <3> QED
      BY <3>1, Widths DEF msg_len, ToInt
  <2>3. Unreadable
    BY <1>3, <2>1, <2>2
  <2> QED
    BY <1>4, <2>3
<1>o. ASSUME ~InStep PROVE Overflowed
  <2>1. L > 0 /\ L \in 1 .. Len(sent)
    BY <1>5, <1>o, Numbers DEF InStep, Position
  <2>2. M!Size(sent[L]) \in Nat
    BY <2>1, Numbers, SentType
  <2>3. L \in DOMAIN done /\ M!Size(sent[L]) > BufferSize
    BY <1>5, <1>o, <2>1, <2>2 DEF InStep, Settled
  <2> QED
    BY <2>3 DEF Overflowed
<1>6. CASE PreHeaderRead /\ LoseClient
  <2>1. phase = "pre" /\ got = 2
    BY <1>6 DEF PreHeaderRead
  <2>2. CASE InStep
    <3>1. L < Len(sent) /\ Here = {L + 1}
      BY <2>1, <2>2, WhereItReads
    <3>2. PICK h \in HeaderLengths : ~HeaderFits(h)
      <4>1. \A h \in HeaderLengths : HeaderFits(h) => phase' = "header"
        BY HeaderLengthsRead, <1>6, <3>1 DEF PreHeaderRead, Part, LoseClient
      <4> QED
        BY <1>6, <4>1 DEF PreHeaderRead, Part
    <3>3. h = sent[L + 1].header
      BY <3>1, HeaderLengthsRead
    <3>4. L + 1 \in 1 .. Len(sent) /\ L + 1 > L
      BY <3>1, Numbers
    <3>5. sent[L + 1].header >= 1
      BY <3>4 DEF Layout
    <3>6. sent[L + 1].header + 2 > BufferSize
      <4>1. sent[L + 1].header \in Nat
        BY <3>4, Numbers, SentType
      <4> QED
        BY <1>5, <3>2, <3>3, <3>5, <4>1 DEF HeaderFits
    <3>7. Unreadable
      BY <3>1, <3>6 DEF Unreadable
    <3> QED
      BY <1>4, <3>7
  <2>3. CASE ~InStep
    BY <1>4, <1>o, <2>3
  <2> QED
    BY <2>2, <2>3
<1>7. CASE HeaderRead /\ LoseClient
  <2>1. phase = "header"
    BY <1>7 DEF HeaderRead
  <2>2. CASE InStep
    <3>1. /\ L < Len(sent) /\ Here = {L + 1} /\ L + 1 \in 1 .. Len(sent)
      BY <2>1, <2>2, NextInHand
    <3>2. vs_msg_read_info = {}
      BY <1>7, <2>1 DEF HeaderRead, Part, LoseClient
    <3>3. info.header = sent[L + 1].header
      BY <2>1, <2>2 DEF Position
    <3>4. sent[L + 1].type = "unknown"
      BY <3>1, <3>2, <3>3 DEF vs_msg_read_info
    <3>5. Unreadable
      BY <3>1, <3>4 DEF Unreadable
    <3> QED
      BY <1>4, <3>5
  <2>3. CASE ~InStep
    BY <1>4, <1>o, <2>3
  <2> QED
    BY <2>2, <2>3
<1> QED
  BY <1>1, <1>6, <1>7, <1>8, <1>9

LEMMA NextLoss ==
  TypeOK /\ Layout /\ Reading /\ Position /\ LossHasReason /\ [Next]_vars => LossHasReason'
<1> SUFFICES ASSUME TypeOK, Layout, Reading, Position, LossHasReason, [Next]_vars
             PROVE  LossHasReason'
  OBVIOUS
<1>1. CASE open
  <2>1. CASE open'
    BY <2>1 DEF LossHasReason
  <2>2. CASE ~open'
    <3>1. Server
      BY <1>1, <2>2 DEF Next, Send, Arrive, HangUp, vars
    <3> QED
      BY <1>1, <2>2, <3>1, ClosedForReason
  <2> QED
    BY <2>1, <2>2
<1>2. CASE ~open
  <2>1. ~Send /\ ~Server
    BY <1>2 DEF Send, Server, readn, ReadGivesUp, PreHeaderRead, HeaderRead,
       LengthNegative, ContentRead, vs_msg_write, Return, WriteFails
  <2>2. UNCHANGED <<sent, open, phase, position, info, done, out>> /\ (eof => eof')
    BY <2>1 DEF Next, Arrive, HangUp, vars, stream
  <2> QED
    BY <2>2 DEF LossHasReason, Want, Unreadable, Overflowed, position
<1> QED
  BY <1>1, <1>2

\* However the bytes arrive, the server drops a client only if it hung up, sent one
\* part of a message in more fragments than readn reads, sent next a message that cannot
\* be read, or sent one longer than the buffer before.
THEOREM LossesHaveReasons == Spec => []LossHasReason
<1>1. Init => TypeOK /\ Layout /\ Reading /\ CommandsFit /\ Position /\ LossHasReason
  <2>1. Init => LossHasReason
    BY DEF Init, LossHasReason
  <2> QED
    BY <2>1, InitType, InitLayout, InitReading, InitPosition
<1>2. TypeOK /\ Layout /\ Reading /\ CommandsFit /\ Position /\ LossHasReason /\ [Next]_vars
        => TypeOK' /\ Layout' /\ Reading' /\ CommandsFit' /\ Position' /\ LossHasReason'
  BY NextType, NextLayout, NextReading, NextPosition, NextLoss
<1> QED
  BY <1>1, <1>2, PTL DEF Spec

\* Every step of the framing is a step of the mailbox, or leaves it alone.
LEMMA StepOfMailbox ==
  TypeOK /\ Layout /\ Reading /\ Position /\ [Next]_vars => [M!Next]_(M!vars)
<1> SUFFICES ASSUME TypeOK, Layout, Reading, Position, [Next]_vars
             PROVE  [M!Next]_(M!vars)
  OBVIOUS
<1>1. CASE sent' # sent
  <2>1. Send
    BY <1>1, SentStep
  <2>2. PICK f \in Frame : sent' = Append(sent, f) /\ f.at = M!End(sent)
    BY <2>1, Numbers, SendFrames
  <2>3. Len(sent') = Len(sent) + 1 /\ sent'[Len(sent')] = f
    BY <2>2, Numbers
  <2>4. done' = done /\ open' = open
    BY <2>1 DEF Send
  <2>5. sent' = Append(sent, sent'[Len(sent')])
    BY <2>2, <2>3
  <2>6. sent'[Len(sent')].at = M!End(sent)
    BY <2>2, <2>3
  <2> QED
    BY <2>3, <2>4, <2>5, <2>6 DEF M!Next, M!Send
<1>2. CASE ContentRead
  <2>1. /\ InStep /\ Len(done) < Len(sent) /\ M!Countable(sent[Len(done) + 1])
        /\ done' = Append(done, M!Outcome(sent[Len(done) + 1]))
    BY <1>2, SettlesNext
  <2>2. ASSUME NEW i \in 1 .. Len(done) PROVE M!Size(sent[i]) <= BufferSize
    <3>1. CASE i < Len(done)
      BY <3>1, <2>2 DEF Position
    <3>2. CASE i = Len(done)
      BY <3>2, <2>1, <2>2, Numbers DEF InStep, Settled
    <3> QED
      BY <3>1, <3>2, Numbers
  <2>3. open /\ sent' = sent /\ open' = open
    BY <1>2 DEF ContentRead, stream
  <2> QED
    BY <2>1, <2>2, <2>3 DEF M!Next, M!Settle
<1>3. CASE sent' = sent /\ ~ContentRead
  <2>1. done' = done
    BY <1>3 DEF Next, Server, Send, Arrive, HangUp, readn, ReadGivesUp, LoseClient,
       PreHeaderRead, HeaderRead, LengthNegative, vs_msg_write, Return, WriteFails, vars
  <2>2. open' = open \/ LoseClient
    BY <1>3 DEF Next, Server, Send, Arrive, HangUp, readn, ReadGivesUp, PreHeaderRead,
       HeaderRead, LengthNegative, vs_msg_write, Return, WriteFails, vars
  <2>3. open' = open \/ open' = FALSE
    BY <2>2 DEF LoseClient
  <2> QED
    BY <1>3, <2>1, <2>3 DEF M!Next, M!Close, M!vars
<1> QED
  BY <1>1, <1>2, <1>3

\* However the bytes are cut up on their way, what the server makes of them is what a
\* mailbox would: every message once, in order, and for what it is.
THEOREM MailboxImplemented == Spec => ImplementsMailbox
<1>1. Init => M!Init
  BY DEF Init, M!Init
<1>2. Init => TypeOK /\ Layout /\ Reading /\ CommandsFit /\ Position
  BY InitType, InitLayout, InitReading, InitPosition
<1>3. TypeOK /\ Layout /\ Reading /\ CommandsFit /\ Position /\ [Next]_vars
        => TypeOK' /\ Layout' /\ Reading' /\ CommandsFit' /\ Position'
  BY NextType, NextLayout, NextReading, NextPosition
<1> QED
  BY <1>1, <1>2, <1>3, StepOfMailbox, PTL DEF Spec, M!Spec, ImplementsMailbox
=============================================================================
