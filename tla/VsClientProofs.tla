---------------------------- MODULE VsClientProofs ----------------------------
(***************************************************************************)
(* Proofs about the Python client: whatever the application calls, however    *)
(* the stream is cut up, and for any number of trials, a client that does not *)
(* hurry takes a reply for the request that it answers.                     *)
(***************************************************************************)
EXTENDS VsClientInv, Integers, SequenceTheorems, FiniteSetTheorems, TLAPS

-----------------------------------------------------------------------------
(* Pieces of replies.                                                       *)

NoFinal(s) == \A i \in 1 .. Len(s) : ~Final(s[i])

LEMMA SomeParts ==
  ASSUME NEW S, NEW s \in Seq(S), NEW m \in 1 .. Len(s) + 1, NEW n \in 0 .. Len(s),
         m <= n + 1
  PROVE  /\ SubSeq(s, m, n) \in Seq(S) /\ Len(SubSeq(s, m, n)) = n - m + 1
         /\ \A i \in 1 .. n - m + 1 : SubSeq(s, m, n)[i] = s[m + i - 1]
<1>1. \A i \in m .. n : s[i] \in S
  OBVIOUS
<1>2. Len(s) \in Nat /\ m \in Int /\ n \in Int
  OBVIOUS
<1>3. /\ SubSeq(s, m, n) \in Seq(S)
      /\ Len(SubSeq(s, m, n)) = IF m <= n THEN n - m + 1 ELSE 0
      /\ \A i \in 1 .. n - m + 1 : SubSeq(s, m, n)[i] = s[m + i - 1]
  BY <1>1, <1>2, SubSeqProperties
<1> QED
  BY <1>2, <1>3

\* What is left of a buffer when a part has been taken.
LEMMA DroppedPart ==
  ASSUME NEW b \in Seq(Piece), Len(b) >= 2
  PROVE  /\ Dropped(b) \in Seq(Piece) /\ Len(Dropped(b)) = Len(b) - 2
         /\ \A i \in 1 .. Len(b) - 2 : Dropped(b)[i] = b[i + 2]
<1>1. 3 \in 1 .. Len(b) + 1 /\ Len(b) \in 0 .. Len(b) /\ 3 <= Len(b) + 1
  OBVIOUS
<1>2. /\ SubSeq(b, 3, Len(b)) \in Seq(Piece) /\ Len(SubSeq(b, 3, Len(b))) = Len(b) - 3 + 1
      /\ \A i \in 1 .. Len(b) - 3 + 1 : SubSeq(b, 3, Len(b))[i] = b[3 + i - 1]
  BY <1>1, SomeParts
<1> QED
  BY <1>2 DEF Dropped

LEMMA DroppedReply ==
  ASSUME NEW b \in Seq(Piece), Len(b) >= 2
  PROVE  /\ \A n : OneReply(b, n) => OneReply(Dropped(b), n)
         /\ NoFinal(b) => NoFinal(Dropped(b))
<1>1. /\ Len(Dropped(b)) = Len(b) - 2 /\ Len(b) \in Nat
      /\ \A i \in 1 .. Len(b) - 2 : Dropped(b)[i] = b[i + 2]
  <2>1. Len(b) \in Nat
    OBVIOUS
  <2> QED
    BY <2>1, DroppedPart
<1>2. \A i \in 1 .. Len(Dropped(b)) : i + 2 \in 1 .. Len(b) /\ Dropped(b)[i] = b[i + 2]
  BY <1>1
<1>3. ASSUME NEW n, OneReply(b, n) PROVE OneReply(Dropped(b), n)
  BY <1>1, <1>2, <1>3 DEF OneReply
<1>4. ASSUME NoFinal(b) PROVE NoFinal(Dropped(b))
  BY <1>2, <1>4 DEF NoFinal
<1> QED
  BY <1>3, <1>4

LEMMA SecondOfTwo ==
  ASSUME NEW s, NEW x, NEW y, s = <<x, y>>
  PROVE  s[2] = y
  OBVIOUS

\* A content that is taken ends the reply.
LEMMA ContentEnds ==
  ASSUME NEW b \in Seq(Piece), Len(b) >= 2, IsPart(b, "cnt")
  PROVE  /\ ~NoFinal(b) /\ b[1].id \in Nat
         /\ \A n : OneReply(b, n) => Dropped(b) = <<>> /\ b[1].id = n
<1>1. SubSeq(b, 1, 2) = <<[part |-> "cnt", id |-> b[1].id, half |-> 1],
                          [part |-> "cnt", id |-> b[1].id, half |-> 2]>>
  BY DEF IsPart, Part
<1>2. 1 \in 1 .. Len(b) + 1 /\ 2 \in 0 .. Len(b) /\ 1 <= 2 + 1 /\ 2 \in 1 .. Len(b)
      /\ 1 \in 1 .. Len(b)
  OBVIOUS
<1>3. \A i \in 1 .. 2 - 1 + 1 : SubSeq(b, 1, 2)[i] = b[1 + i - 1]
  BY <1>2, SomeParts
<1>4. SubSeq(b, 1, 2)[2] = b[2]
  <2>1. 2 \in 1 .. 2 - 1 + 1 /\ 1 + 2 - 1 = 2
    OBVIOUS
  <2> QED
    BY <1>3, <2>1
<1>5. Final(b[2])
  <2>1. SubSeq(b, 1, 2)[2] = [part |-> "cnt", id |-> b[1].id, half |-> 2]
    BY <1>1, SecondOfTwo, Zenon
  <2> QED
    BY <1>4, <2>1 DEF Final
<1>6. b[1].id \in Nat
  <2>1. b[1] \in Piece
    BY <1>2
  <2> QED
    BY <2>1 DEF Piece
<1>7. ASSUME NEW n, OneReply(b, n) PROVE Dropped(b) = <<>> /\ b[1].id = n
  <2>1. Len(b) = 2 /\ b[1].id = n
    BY <1>2, <1>5, <1>7 DEF OneReply
  <2>2. Dropped(b) = <<>>
    BY <2>1, DroppedPart
  <2> QED
    BY <2>1, <2>2
<1> QED
  BY <1>2, <1>5, <1>6, <1>7 DEF NoFinal

\* What is received of a reply is joined to what was received before.
LEMMA Joined ==
  ASSUME NEW s \in Seq(Piece), NEW t \in Seq(Piece), NEW n,
         OneReply(s, n), NoFinal(s), OneReply(t, n)
  PROVE  /\ s \o t \in Seq(Piece) /\ Len(s \o t) = Len(s) + Len(t)
         /\ OneReply(s \o t, n)
         /\ NoFinal(t) => NoFinal(s \o t)
<1>1. s \o t \in Seq(Piece) /\ Len(s \o t) = Len(s) + Len(t)
  BY ConcatProperties
<1>2. Len(s) \in Nat /\ Len(t) \in Nat
  OBVIOUS
<1>3. ASSUME NEW i \in 1 .. Len(s \o t)
      PROVE  \/ (i \in 1 .. Len(s) /\ (s \o t)[i] = s[i])
             \/ (i - Len(s) \in 1 .. Len(t) /\ (s \o t)[i] = t[i - Len(s)])
  <2>1. (s \o t)[i] = IF i <= Len(s) THEN s[i] ELSE t[i - Len(s)]
    BY <1>1, <1>3, ConcatProperties
  <2> QED
    BY <1>1, <1>2, <2>1
<1> DEFINE u == s \o t
<1>4. /\ Len(u) = Len(s) + Len(t)
      /\ \A i \in 1 .. Len(u) : \/ (i \in 1 .. Len(s) /\ u[i] = s[i])
                               \/ (i - Len(s) \in 1 .. Len(t) /\ u[i] = t[i - Len(s)])
  BY <1>1, <1>3
<1> HIDE DEF u
<1>5. OneReply(u, n)
  <2>1. ASSUME NEW i \in 1 .. Len(u)
        PROVE  u[i].id = n /\ (Final(u[i]) => i = Len(u))
    <3>1. CASE i \in 1 .. Len(s) /\ u[i] = s[i]
      BY <3>1, Zenon DEF OneReply, NoFinal
    <3>2. CASE i - Len(s) \in 1 .. Len(t) /\ u[i] = t[i - Len(s)]
      <4>1. t[i - Len(s)].id = n /\ (Final(t[i - Len(s)]) => i - Len(s) = Len(t))
        BY <3>2, Zenon DEF OneReply
      <4>2. i - Len(s) = Len(t) => i = Len(u)
        BY <1>2, <1>4
      <4> QED
        BY <3>2, <4>1, <4>2, Zenon
    <3> QED
      BY <1>4, <3>1, <3>2, Zenon
  <2> QED
    BY <2>1, Zenon DEF OneReply
<1>6. NoFinal(t) => NoFinal(u)
  BY <1>2, <1>4 DEF NoFinal
<1> QED
  BY <1>1, <1>5, <1>6 DEF u

-----------------------------------------------------------------------------
(* The receive state machine.                                               *)

Scanning ==
  [st : {"RX_INIT", "RX_PRE_HDR", "RX_HDR", "RX_DONE", "ERROR"}, len : BOOLEAN,
   buf : Seq(Piece), answer : Nat, raised : BOOLEAN]

\* r is what a scan has made of buffer b.
ScannedFrom(r, b) ==
  /\ r \in Scanning
  /\ \A n : OneReply(b, n) => OneReply(r.buf, n)
  /\ NoFinal(b) => NoFinal(r.buf)

LEMMA AfterPreHeader ==
  ASSUME NEW b, NEW r, ScannedFrom(r, b), r.st # "RX_DONE"
  PROVE  ScannedFrom(read_pre_header(r), b) /\ read_pre_header(r).st # "RX_DONE"
<1> DEFINE q == [r EXCEPT !.st = "RX_PRE_HDR", !.buf = Dropped(@), !.len = IsPart(r.buf, "pre")]
<1>1. CASE r.st # "RX_INIT" \/ Len(r.buf) < 2
  BY <1>1 DEF read_pre_header
<1>2. CASE ~(r.st # "RX_INIT" \/ Len(r.buf) < 2)
  <2>1. r.buf \in Seq(Piece) /\ Len(r.buf) >= 2
    BY <1>2 DEF ScannedFrom, Scanning
  <2>2. Dropped(r.buf) \in Seq(Piece)
    BY <2>1, DroppedPart
  <2>3. IsPart(r.buf, "pre") \in BOOLEAN
    BY DEF IsPart
  <2>4. q \in Scanning /\ q.st = "RX_PRE_HDR" /\ q.buf = Dropped(r.buf)
    BY <2>2, <2>3 DEF ScannedFrom, Scanning
  <2>5. ScannedFrom(q, b)
    BY <2>1, <2>4, DroppedReply DEF ScannedFrom
  <2>6. read_pre_header(r) = q
    BY <1>2 DEF read_pre_header
  <2> QED
    BY <2>4, <2>5, <2>6
<1> QED
  BY <1>1, <1>2

LEMMA AfterHeader ==
  ASSUME NEW b, NEW r, ScannedFrom(r, b), r.st # "RX_DONE"
  PROVE  ScannedFrom(read_header(r), b) /\ read_header(r).st # "RX_DONE"
<1> DEFINE h == [r EXCEPT !.st = "RX_HDR", !.buf = Dropped(@)]
<1>1. ASSUME NEW q, ScannedFrom(q, b), q.st # "RX_DONE"
      PROVE  ScannedFrom(Raises(q), b) /\ Raises(q).st # "RX_DONE"
  BY <1>1 DEF ScannedFrom, Scanning, Raises
<1>2. CASE r.st # "RX_PRE_HDR" \/ Len(r.buf) < 2 \/ ~r.len
  BY <1>2 DEF read_header
<1>3. CASE ~(r.st # "RX_PRE_HDR" \/ Len(r.buf) < 2 \/ ~r.len)
  <2>1. r.buf \in Seq(Piece) /\ Len(r.buf) >= 2
    BY <1>3 DEF ScannedFrom, Scanning
  <2>2. Dropped(r.buf) \in Seq(Piece)
    BY <2>1, DroppedPart
  <2>3. h \in Scanning /\ h.st = "RX_HDR" /\ h.buf = Dropped(r.buf)
    BY <2>2 DEF ScannedFrom, Scanning
  <2>4. ScannedFrom(h, b) /\ h.st # "RX_DONE"
    BY <2>1, <2>3, DroppedReply DEF ScannedFrom
  <2>5. read_header(r) \in {Raises(r), h, Raises(h)}
    BY <1>3 DEF read_header
  <2> HIDE DEF h
  <2> QED
    BY <1>1, <2>4, <2>5
<1> QED
  BY <1>2, <1>3

LEMMA AfterContent ==
  ASSUME NEW b, NEW r, ScannedFrom(r, b), r.st # "RX_DONE"
  PROVE  /\ ScannedFrom(read_content(r), b)
         /\ read_content(r).st = "RX_DONE" =>
              /\ ~NoFinal(b)
              /\ \A n : OneReply(b, n) => /\ read_content(r).buf = <<>>
                                          /\ read_content(r).answer = n
<1> DEFINE c == [r EXCEPT !.buf = Dropped(@)]
           d == [c EXCEPT !.st = "RX_DONE", !.answer = r.buf[1].id]
<1>1. CASE r.st # "RX_HDR" \/ r.raised \/ Len(r.buf) < 2
  BY <1>1 DEF read_content
<1>2. CASE ~(r.st # "RX_HDR" \/ r.raised \/ Len(r.buf) < 2)
  <2>1. r.buf \in Seq(Piece) /\ Len(r.buf) >= 2
    BY <1>2 DEF ScannedFrom, Scanning
  <2>2. Dropped(r.buf) \in Seq(Piece)
    BY <2>1, DroppedPart
  <2>3. c \in Scanning /\ c.buf = Dropped(r.buf) /\ c.st = r.st
    BY <2>2 DEF ScannedFrom, Scanning
  <2>4. ScannedFrom(c, b)
    BY <2>1, <2>3, DroppedReply DEF ScannedFrom
  <2>5. CASE IsPart(r.buf, "cnt")
    <3>1. /\ ~NoFinal(r.buf) /\ r.buf[1].id \in Nat
          /\ \A n : OneReply(r.buf, n) => Dropped(r.buf) = <<>> /\ r.buf[1].id = n
      BY <2>1, <2>5, ContentEnds
    <3> HIDE DEF c
    <3>2. d \in Scanning /\ d.buf = Dropped(r.buf) /\ d.st = "RX_DONE"
          /\ d.answer = r.buf[1].id
      BY <2>3, <3>1 DEF Scanning
    <3>3. read_content(r) = d
      BY <1>2, <2>5 DEF read_content, c
    <3> HIDE DEF d
    <3>4. ScannedFrom(d, b)
      BY <2>3, <2>4, <3>2 DEF ScannedFrom
    <3>5. ~NoFinal(b) /\ \A n : OneReply(b, n) => OneReply(r.buf, n)
      BY <3>1 DEF ScannedFrom
    <3> QED
      BY <3>1, <3>2, <3>3, <3>4, <3>5
  <2>6. CASE ~IsPart(r.buf, "cnt")
    <3>1. read_content(r) = Raises(c)
      BY <1>2, <2>6 DEF read_content
    <3> HIDE DEF c
    <3>2. Raises(c) \in Scanning /\ Raises(c).buf = c.buf /\ Raises(c).st = c.st
      BY <2>3 DEF Raises, Scanning
    <3>3. Raises(c).st # "RX_DONE"
      BY <2>3, <3>2
    <3> QED
      BY <2>4, <3>1, <3>2, <3>3 DEF ScannedFrom
  <2> QED
    BY <2>5, <2>6
<1> QED
  BY <1>1, <1>2

\* A scan takes parts off the front of the buffer; an answer takes the rest of it.
LEMMA ScanOfBuffer ==
  ASSUME NEW b \in Seq(Piece), rx_header_len \in BOOLEAN,
         rx_state \in {"RX_INIT", "RX_PRE_HDR", "RX_HDR", "ERROR"}
  PROVE  /\ ScannedFrom(Scanned(b), b)
         /\ Scanned(b).st = "RX_DONE" =>
              /\ ~NoFinal(b)
              /\ \A n : OneReply(b, n) => Scanned(b).buf = <<>> /\ Scanned(b).answer = n
<1> DEFINE r == [st |-> rx_state, len |-> rx_header_len, buf |-> b, answer |-> 0,
                 raised |-> FALSE]
<1>1. r \in Scanning /\ r.buf = b /\ r.st # "RX_DONE"
  BY DEF Scanning
<1> HIDE DEF r
<1>2. ScannedFrom(r, b)
  BY <1>1 DEF ScannedFrom
<1>3. ScannedFrom(read_pre_header(r), b) /\ read_pre_header(r).st # "RX_DONE"
  BY <1>1, <1>2, AfterPreHeader
<1>4. ScannedFrom(read_header(read_pre_header(r)), b)
      /\ read_header(read_pre_header(r)).st # "RX_DONE"
  BY <1>3, AfterHeader
<1>5. Scanned(b) = read_content(read_header(read_pre_header(r)))
  BY DEF Scanned, r
<1> QED
  BY <1>4, <1>5, AfterContent

-----------------------------------------------------------------------------
(* Types.                                                                   *)

LEMMA Types ==
  TypeOK <=>
    /\ use_uuid \in BOOLEAN /\ connected \in BOOLEAN /\ base \in BOOLEAN /\ up \in BOOLEAN
    /\ rx_header_len \in BOOLEAN /\ timed \in BOOLEAN /\ hasty \in BOOLEAN
    /\ lossy \in BOOLEAN
    /\ uuid \in Nat /\ tx_msg_len \in Nat /\ rx_expected \in Nat /\ trials \in Nat
    /\ req \in Nat /\ calls \in Nat /\ out.id \in Nat
    /\ rx_state \in {"RX_INIT", "RX_PRE_HDR", "RX_HDR", "ERROR"}
    /\ pc \in {"idle", "read", "first", "loop"}
    /\ out.kind \in {"none", "answer", "exception", "false"}
    /\ tx_buffer \in Seq(Nat) /\ asked \in Seq(Nat)
    /\ pc # "idle" => rx_expected > 0 /\ (pc = "read" \/ connected)
  BY Zenon DEF TypeOK

\* What a pass of the loop of read leaves, and when it is an answer.
LEMMA ScanStep ==
  ASSUME TypeOK, pc # "idle", NEW b \in Seq(Piece), Scan(b)
  PROVE  /\ rx_buffer' \in Seq(Piece) /\ rx_header_len' \in BOOLEAN
         /\ rx_state' \in {"RX_INIT", "RX_PRE_HDR", "RX_HDR", "ERROR"}
         /\ \A n : OneReply(b, n) => OneReply(rx_buffer', n)
         /\ NoFinal(b) => NoFinal(rx_buffer')
         /\ \/ rx_expected' = rx_expected /\ pc' = "loop" /\ out' = out
            \/ rx_expected' = rx_expected /\ pc' = "idle"
                 /\ out' = [kind |-> "exception", id |-> 0]
            \/ /\ rx_expected' = rx_expected - 1 /\ pc' = "idle" /\ rx_state' = "RX_INIT"
               /\ out'.kind = "answer" /\ out'.id \in Nat
               /\ ~NoFinal(b)
               /\ \A n : OneReply(b, n) => rx_buffer' = <<>> /\ out'.id = n
<1> DEFINE r == Scanned(b)
<1>1. /\ rx_header_len \in BOOLEAN
      /\ rx_state \in {"RX_INIT", "RX_PRE_HDR", "RX_HDR", "ERROR"}
  BY Types
<1>2. /\ ScannedFrom(r, b)
      /\ r.st = "RX_DONE" => /\ ~NoFinal(b)
                             /\ \A n : OneReply(b, n) => r.buf = <<>> /\ r.answer = n
  BY <1>1, ScanOfBuffer
<1>3. /\ rx_buffer' = r.buf /\ rx_header_len' = r.len
      /\ IF r.st = "RX_DONE"
           THEN /\ rx_expected' = rx_expected - 1 /\ rx_state' = "RX_INIT"
                /\ Ends("answer", r.answer)
           ELSE /\ rx_expected' = rx_expected /\ rx_state' = r.st
                /\ IF r.raised THEN Ends("exception", 0) ELSE pc' = "loop" /\ out' = out
  BY DEF Scan
<1> HIDE DEF r
<1>4. /\ r.buf \in Seq(Piece) /\ r.len \in BOOLEAN /\ r.answer \in Nat
      /\ r.st \in {"RX_INIT", "RX_PRE_HDR", "RX_HDR", "RX_DONE", "ERROR"}
  BY <1>2 DEF ScannedFrom, Scanning
<1>5. /\ \A n : OneReply(b, n) => OneReply(r.buf, n)
      /\ NoFinal(b) => NoFinal(r.buf)
  BY <1>2 DEF ScannedFrom
<1>6. CASE r.st = "RX_DONE"
  BY <1>2, <1>3, <1>4, <1>5, <1>6 DEF Ends
<1>7. CASE r.st # "RX_DONE"
  BY <1>3, <1>4, <1>5, <1>7 DEF Ends
<1> QED
  BY <1>6, <1>7

\* A write, a write that is given up, and one that raises.
LEMMA WrittenTypes ==
  ASSUME TypeOK, Streams, NEW q \in Seq(Nat), NEW n \in 1 .. Len(q), NEW c \in Nat,
         Written(q, n, c)
  PROVE  /\ connected' = TRUE /\ base' \in BOOLEAN /\ up' \in BOOLEAN
         /\ lossy' \in BOOLEAN /\ asked' \in Seq(Nat) /\ wire' \in Seq(Piece)
         /\ tx_buffer' \in Seq(Nat) /\ rx_expected' = rx_expected + c
<1>1. /\ base \in BOOLEAN /\ up \in BOOLEAN /\ connected \in BOOLEAN /\ lossy \in BOOLEAN
      /\ asked \in Seq(Nat) /\ wire \in Seq(Piece)
  BY Types DEF Streams
<1>2. SubSeq(q, 1, n) \in Seq(Nat) /\ SubSeq(q, n + 1, Len(q)) \in Seq(Nat)
  <2>1. 1 \in 1 .. Len(q) + 1 /\ n \in 0 .. Len(q) /\ n + 1 \in 1 .. Len(q) + 1
        /\ Len(q) \in 0 .. Len(q) /\ 1 <= n + 1 /\ n + 1 <= Len(q) + 1
    OBVIOUS
  <2> QED
    BY <2>1, SomeParts
<1>3. <<>> \in Seq(Nat) /\ <<>> \in Seq(Piece)
  BY EmptySeq
<1>4. asked \o SubSeq(q, 1, n) \in Seq(Nat)
  BY <1>1, <1>2, ConcatProperties
<1>5. asked' \in Seq(Nat) /\ tx_buffer' \in Seq(Nat) /\ rx_expected' = rx_expected + c
  BY <1>2, <1>3, <1>4 DEF Written
<1>6. lossy' \in BOOLEAN
  BY Zenon DEF Written
<1>7. CASE connected
  <2>1. connected' = connected /\ base' = base /\ up' = up /\ wire' = wire
    BY <1>7 DEF Written
  <2> QED
    BY <1>1, <1>5, <1>6, <1>7, <2>1, Zenon
<1>8. CASE ~connected
  <2>1. connect
    BY <1>8 DEF Written
  <2> QED
    BY <1>3, <1>5, <1>6, <2>1, Zenon DEF connect
<1> QED
  BY <1>7, <1>8

LEMMA QueueTypes ==
  ASSUME TypeOK, Streams, NEW q \in Seq(Nat), NEW n \in 1 .. Len(q), NEW c \in Nat,
         Written(q, n, c) \/ WriteGivesUp(q, c)
  PROVE  /\ connected' \in BOOLEAN /\ base' \in BOOLEAN /\ up' \in BOOLEAN
         /\ lossy' \in BOOLEAN /\ asked' \in Seq(Nat) /\ wire' \in Seq(Piece)
         /\ tx_buffer' \in Seq(Nat) /\ rx_expected' = rx_expected + c
<1>1. CASE Written(q, n, c)
  BY <1>1, WrittenTypes
<1>2. CASE WriteGivesUp(q, c)
  <2>1. base \in BOOLEAN /\ <<>> \in Seq(Nat) /\ <<>> \in Seq(Piece)
    BY Types, EmptySeq
  <2> QED
    BY <1>2, <2>1, Zenon DEF WriteGivesUp, Disconnected
<1> QED
  BY <1>1, <1>2

LEMMA RaisedTypes ==
  ASSUME TypeOK, Streams, NEW q \in Seq(Nat), NEW most \in 0 .. Len(q),
         WriteRaises(q, most)
  PROVE  /\ connected' \in BOOLEAN /\ base' \in BOOLEAN /\ up' \in BOOLEAN
         /\ asked' \in Seq(Nat) /\ wire' \in Seq(Piece)
         /\ tx_buffer' \in Seq(Nat) /\ rx_expected' = rx_expected
         /\ pc' = "idle" /\ out'.kind = "exception" /\ out'.id = 0
<1>1. /\ base \in BOOLEAN /\ up \in BOOLEAN /\ connected \in BOOLEAN
      /\ asked \in Seq(Nat) /\ wire \in Seq(Piece)
      /\ <<>> \in Seq(Nat) /\ <<>> \in Seq(Piece)
  BY Types, EmptySeq DEF Streams
<1>2. tx_buffer' = q /\ rx_expected' = rx_expected /\ Ends("exception", 0)
  BY DEF WriteRaises
<1>3. pc' = "idle" /\ out'.kind = "exception" /\ out'.id = 0
  BY <1>2 DEF Ends
<1>4. CASE UNCHANGED socketVars
  <2>1. connected' = connected /\ base' = base /\ up' = up /\ asked' = asked /\ wire' = wire
    BY <1>4 DEF socketVars
  <2> QED
    BY <1>1, <1>2, <1>3, <2>1, Zenon
<1>5. ASSUME IF connected THEN UNCHANGED <<connected, base, up, wire>> ELSE connect,
             NEW n \in 0 .. most,
             asked' = IF up' THEN asked \o SubSeq(q, 1, n) ELSE <<>>
      PROVE  /\ connected' \in BOOLEAN /\ base' \in BOOLEAN /\ up' \in BOOLEAN
             /\ asked' \in Seq(Nat) /\ wire' \in Seq(Piece)
  <2>1. SubSeq(q, 1, n) \in Seq(Nat)
    <3>1. 1 \in 1 .. Len(q) + 1 /\ n \in 0 .. Len(q) /\ 1 <= n + 1
      OBVIOUS
    <3> QED
      BY <3>1, SomeParts
  <2>2. asked \o SubSeq(q, 1, n) \in Seq(Nat)
    BY <1>1, <2>1, ConcatProperties
  <2>3. asked' \in Seq(Nat)
    BY <1>1, <1>5, <2>2
  <2>4. CASE connected
    <3>1. connected' = connected /\ base' = base /\ up' = up /\ wire' = wire
      BY <1>5, <2>4
    <3> QED
      BY <1>1, <2>3, <3>1, Zenon
  <2>5. CASE ~connected
    BY <1>1, <1>5, <2>3, <2>5, Zenon DEF connect
  <2> QED
    BY <2>4, <2>5
<1>6. \/ UNCHANGED socketVars
      \/ /\ IF connected THEN UNCHANGED <<connected, base, up, wire>> ELSE connect
         /\ \E n \in 0 .. most :
              asked' = IF up' THEN asked \o SubSeq(q, 1, n) ELSE <<>>
  BY Zenon DEF WriteRaises
<1> QED
  BY <1>2, <1>3, <1>4, <1>5, <1>6

\* A call whose first write raises has moved nothing, but may have connected.
LEMMA RaisedAtOnce ==
  ASSUME NEW q \in Seq(Nat), WriteRaises(q, 0), asked = <<>>, wire = <<>>
  PROVE  /\ asked' = <<>> /\ wire' = <<>> /\ (connected' = connected \/ connected' = TRUE)
         /\ tx_buffer' = q /\ rx_expected' = rx_expected /\ Ends("exception", 0)
<1>1. tx_buffer' = q /\ rx_expected' = rx_expected /\ Ends("exception", 0)
  BY DEF WriteRaises
<1>2. CASE UNCHANGED socketVars
  BY <1>1, <1>2 DEF socketVars
<1>3. ASSUME IF connected THEN UNCHANGED <<connected, base, up, wire>> ELSE connect,
             NEW n \in 0 .. 0,
             asked' = IF up' THEN asked \o SubSeq(q, 1, n) ELSE <<>>
      PROVE  asked' = <<>> /\ wire' = <<>> /\ (connected' = connected \/ connected' = TRUE)
  <2>1. asked \o SubSeq(q, 1, n) = <<>>
    <3>1. n = 0
      OBVIOUS
    <3>2. SubSeq(q, 1, 0) = <<>> /\ <<>> \o <<>> = <<>>
      OBVIOUS
    <3> QED
      BY <3>1, <3>2, Zenon
  <2>2. asked' = <<>>
    BY <1>3, <2>1, Zenon
  <2>3. wire' = <<>> /\ (connected' = connected \/ connected' = TRUE)
    <3>1. CASE connected
      BY <1>3, <3>1
    <3>2. CASE ~connected
      BY <1>3, <3>2, Zenon DEF connect
    <3> QED
      BY <3>1, <3>2
  <2> QED
    BY <2>2, <2>3
<1>4. \/ UNCHANGED socketVars
      \/ /\ IF connected THEN UNCHANGED <<connected, base, up, wire>> ELSE connect
         /\ \E n \in 0 .. 0 :
              asked' = IF up' THEN asked \o SubSeq(q, 1, n) ELSE <<>>
  BY Zenon DEF WriteRaises
<1> QED
  BY <1>1, <1>2, <1>3, <1>4

LEMMA TypesNext ==
  TypeOK' <=>
    /\ use_uuid' \in BOOLEAN /\ connected' \in BOOLEAN /\ base' \in BOOLEAN
    /\ up' \in BOOLEAN /\ rx_header_len' \in BOOLEAN /\ timed' \in BOOLEAN
    /\ hasty' \in BOOLEAN /\ lossy' \in BOOLEAN
    /\ uuid' \in Nat /\ tx_msg_len' \in Nat /\ rx_expected' \in Nat /\ trials' \in Nat
    /\ req' \in Nat /\ calls' \in Nat /\ out'.id \in Nat
    /\ rx_state' \in {"RX_INIT", "RX_PRE_HDR", "RX_HDR", "ERROR"}
    /\ pc' \in {"idle", "read", "first", "loop"}
    /\ out'.kind \in {"none", "answer", "exception", "false"}
    /\ tx_buffer' \in Seq(Nat) /\ asked' \in Seq(Nat)
    /\ pc' # "idle" => rx_expected' > 0 /\ (pc' = "read" \/ connected')
  BY Zenon DEF TypeOK

LEMMA Called ==
  ASSUME TypeOK, NEW name, Call(name)
  PROVE  pc = "idle" /\ calls' \in Nat /\ use_uuid' = use_uuid
  BY Types DEF Call

LEMMA Ended ==
  ASSUME NEW kind \in {"answer", "exception", "false"}, NEW id \in Nat, Ends(kind, id)
  PROVE  pc' = "idle" /\ out'.kind = kind /\ out'.id = id
  BY DEF Ends

-----------------------------------------------------------------------------
(* The types are kept by every step.                                        *)

LEMMA SendTypes ==
  ASSUME TypeOK, Streams, NEW t \in BOOLEAN, send(t)
  PROVE  TypeOK' /\ Streams'
<1> DEFINE queued == Append(tx_buffer, req + 1)
<1>0. /\ tx_buffer \in Seq(Nat) /\ req \in Nat /\ uuid \in Nat /\ trials \in Nat
      /\ tx_msg_len \in Nat /\ rx_expected \in Nat
  BY Types
<1>1. pc = "idle" /\ calls' \in Nat /\ use_uuid' = use_uuid
  BY Called DEF send
<1>2. /\ req' \in Nat /\ uuid' \in Nat /\ timed' = t /\ rx_state' = rx_state
      /\ rx_buffer' = rx_buffer /\ rx_header_len' = rx_header_len /\ trials' = trials
  BY <1>0 DEF send
<1>3. hasty' \in BOOLEAN
  BY Types, Zenon DEF send, Hurries
<1>4. queued \in Seq(Nat) /\ Len(queued) \in 1 .. Len(queued) /\ tx_msg_len + 1 \in Nat
      /\ rx_expected + (tx_msg_len + 1) \in Nat /\ rx_expected + (tx_msg_len + 1) > 0
  BY <1>0
<1>5. \/ /\ Written(queued, Len(queued), tx_msg_len + 1)
           \/ WriteGivesUp(queued, tx_msg_len + 1)
         /\ tx_msg_len' = 0 /\ pc' = "read" /\ out' = [kind |-> "none", id |-> 0]
      \/ WriteRaises(queued, Len(queued) - 1) /\ Repeats /\ tx_msg_len' = tx_msg_len + 1
  BY DEF send
<1> HIDE DEF queued
<1>6. CASE /\ Written(queued, Len(queued), tx_msg_len + 1)
              \/ WriteGivesUp(queued, tx_msg_len + 1)
           /\ tx_msg_len' = 0 /\ pc' = "read" /\ out' = [kind |-> "none", id |-> 0]
  <2>1. /\ connected' \in BOOLEAN /\ base' \in BOOLEAN /\ up' \in BOOLEAN
        /\ lossy' \in BOOLEAN /\ asked' \in Seq(Nat) /\ wire' \in Seq(Piece)
        /\ tx_buffer' \in Seq(Nat) /\ rx_expected' = rx_expected + (tx_msg_len + 1)
    BY <1>4, <1>6, QueueTypes
  <2>2. rx_expected' \in Nat /\ rx_expected' > 0
    BY <1>4, <2>1
  <2>3. tx_msg_len' \in Nat /\ out'.id \in Nat /\ out'.kind = "none"
    BY <1>6
  <2> QED
    BY <1>1, <1>2, <1>3, <1>6, <2>1, <2>2, <2>3, Types, TypesNext, Zenon DEF Streams
<1>7. CASE WriteRaises(queued, Len(queued) - 1) /\ Repeats /\ tx_msg_len' = tx_msg_len + 1
  <2>1. Len(queued) - 1 \in 0 .. Len(queued) /\ 0 \in Nat
    BY <1>4
  <2>2. /\ connected' \in BOOLEAN /\ base' \in BOOLEAN /\ up' \in BOOLEAN
        /\ asked' \in Seq(Nat) /\ wire' \in Seq(Piece)
        /\ tx_buffer' \in Seq(Nat) /\ rx_expected' = rx_expected
        /\ pc' = "idle" /\ out'.kind = "exception" /\ out'.id = 0
    BY <1>4, <1>7, <2>1, RaisedTypes
  <2>3. tx_msg_len' \in Nat
    BY <1>4, <1>7, Zenon
  <2>4. lossy' \in BOOLEAN
    BY <1>7, Zenon DEF Repeats
  <2> QED
    BY <1>0, <1>1, <1>2, <1>3, <2>1, <2>2, <2>3, <2>4, Types, TypesNext, Zenon DEF Streams
<1> QED
  BY <1>5, <1>6, <1>7, Zenon

LEMMA WriteTypes ==
  ASSUME TypeOK, Streams, write_all \/ write_oldest \/ write_nothing
  PROVE  TypeOK' /\ Streams'
<1>1. /\ pc = "idle" /\ calls' \in Nat /\ use_uuid' = use_uuid /\ tx_buffer # <<>>
      /\ req' = req /\ uuid' = uuid /\ timed' = timed /\ rx_state' = rx_state
      /\ rx_buffer' = rx_buffer /\ rx_header_len' = rx_header_len /\ trials' = trials
  BY Called DEF write_all, write_oldest, write_nothing, rxVars, txVars
<1>2. hasty' \in BOOLEAN
  <2>1. hasty \in BOOLEAN
    BY Types
  <2> QED
    BY <2>1, Zenon DEF write_all, write_oldest, write_nothing, Hurries, Uncounted
<1>3. /\ tx_buffer \in Seq(Nat) /\ Len(tx_buffer) \in 1 .. Len(tx_buffer)
      /\ 1 \in 1 .. Len(tx_buffer) /\ tx_msg_len \in Nat /\ rx_expected \in Nat
      /\ 0 \in Nat /\ 1 \in Nat
  BY <1>1, Types
<1>4. ASSUME NEW n \in 1 .. Len(tx_buffer), NEW c \in Nat,
             Written(tx_buffer, n, c) \/ WriteGivesUp(tx_buffer, c),
             tx_msg_len' \in Nat, UNCHANGED <<pc, out>>
      PROVE  TypeOK' /\ Streams'
  <2>1. /\ connected' \in BOOLEAN /\ base' \in BOOLEAN /\ up' \in BOOLEAN
        /\ lossy' \in BOOLEAN /\ asked' \in Seq(Nat) /\ wire' \in Seq(Piece)
        /\ tx_buffer' \in Seq(Nat) /\ rx_expected' = rx_expected + c
    BY <1>3, <1>4, QueueTypes
  <2>2. rx_expected' \in Nat
    BY <1>3, <2>1
  <2>3. pc' = "idle" /\ out' = out
    BY <1>1, <1>4
  <2> QED
    BY <1>1, <1>2, <1>4, <2>1, <2>2, <2>3, Types, TypesNext, Zenon DEF Streams
<1>5. ASSUME NEW most \in 0 .. Len(tx_buffer), WriteRaises(tx_buffer, most),
             tx_msg_len' \in Nat, lossy' \in BOOLEAN
      PROVE  TypeOK' /\ Streams'
  <2>1. /\ connected' \in BOOLEAN /\ base' \in BOOLEAN /\ up' \in BOOLEAN
        /\ asked' \in Seq(Nat) /\ wire' \in Seq(Piece)
        /\ tx_buffer' \in Seq(Nat) /\ rx_expected' = rx_expected
        /\ pc' = "idle" /\ out'.kind = "exception" /\ out'.id = 0
    BY <1>3, <1>5, RaisedTypes
  <2> QED
    BY <1>1, <1>2, <1>3, <1>5, <2>1, Types, TypesNext, Zenon DEF Streams
<1>6. CASE write_all
  <2>1. CASE /\ Written(tx_buffer, Len(tx_buffer), tx_msg_len)
                \/ WriteGivesUp(tx_buffer, tx_msg_len)
             /\ tx_msg_len' = 0 /\ UNCHANGED <<pc, out>>
    BY <1>3, <1>4, <2>1
  <2>2. CASE WriteRaises(tx_buffer, Len(tx_buffer) - 1) /\ Repeats /\ UNCHANGED tx_msg_len
    <3>1. tx_msg_len' \in Nat /\ lossy' \in BOOLEAN
      BY <1>3, <2>2, Zenon DEF Repeats
    <3>2. Len(tx_buffer) - 1 \in 0 .. Len(tx_buffer)
      BY <1>3
    <3> QED
      BY <1>5, <2>2, <3>1, <3>2
  <2> QED
    BY <1>6, <2>1, <2>2, Zenon DEF write_all
<1>7. CASE write_oldest
  <2>1. tx_msg_len - 1 \in Nat
    BY <1>3, <1>7 DEF write_oldest
  <2>2. CASE /\ Written(tx_buffer, 1, 1) \/ WriteGivesUp(tx_buffer, 1)
             /\ tx_msg_len' = tx_msg_len - 1 /\ UNCHANGED <<pc, out>>
    BY <1>3, <1>4, <2>1, <2>2, Zenon
  <2>3. CASE /\ WriteRaises(tx_buffer, 0)
             /\ IF connected' THEN tx_msg_len' = tx_msg_len - 1 /\ Uncounted
                 ELSE UNCHANGED tx_msg_len /\ lossy' = lossy /\ Hurries(tx_buffer)
    <3>2. 0 \in 0 .. Len(tx_buffer)
      BY <1>3
    <3>1. tx_msg_len' \in Nat /\ lossy' \in BOOLEAN
      <4>1. lossy \in BOOLEAN /\ TRUE \in BOOLEAN
        BY Types
      <4> QED
        BY <1>3, <2>1, <2>3, <4>1, Zenon DEF Uncounted
    <3> QED
      BY <1>5, <2>3, <3>1, <3>2
  <2> QED
    BY <1>7, <2>2, <2>3, Zenon DEF write_oldest
<1>8. CASE write_nothing
  <2>1. /\ Ends("exception", 0) /\ rx_expected' = rx_expected /\ tx_buffer' = tx_buffer
        /\ tx_msg_len' = tx_msg_len /\ lossy' = lossy
        /\ UNCHANGED socketVars \/ (connect /\ asked' = <<>>)
    BY <1>8 DEF write_nothing, rxVars, txVars
  <2>2. pc' = "idle" /\ out'.kind = "exception" /\ out'.id = 0
    BY <2>1 DEF Ends
  <2>3. /\ connected' \in BOOLEAN /\ base' \in BOOLEAN /\ up' \in BOOLEAN
        /\ asked' \in Seq(Nat) /\ wire' \in Seq(Piece)
    <3>1. CASE UNCHANGED socketVars
      BY <3>1, Types, Zenon DEF socketVars, Streams
    <3>2. CASE connect /\ asked' = <<>>
      <4>1. <<>> \in Seq(Nat) /\ <<>> \in Seq(Piece)
        BY EmptySeq
      <4> QED
        BY <3>2, <4>1, Zenon DEF connect
    <3> QED
      BY <2>1, <3>1, <3>2
  <2> QED
    BY <1>1, <1>2, <1>3, <2>1, <2>2, <2>3, Types, TypesNext, Zenon DEF Streams
<1> QED
  BY <1>6, <1>7, <1>8

LEMMA OtherCallTypes ==
  ASSUME TypeOK, Streams, (\E t \in BOOLEAN : read(t)) \/ close \/ flush
  PROVE  TypeOK' /\ Streams'
<1>1. pc = "idle" /\ calls' \in Nat /\ use_uuid' = use_uuid
  BY Called DEF read, close, flush
<1>2. /\ <<>> \in Seq(Nat) /\ <<>> \in Seq(Piece) /\ 0 \in Nat /\ rx_expected \in Nat
      /\ lossy \in BOOLEAN
  BY Types, EmptySeq
<1>3. ASSUME NEW t \in BOOLEAN, read(t)
      PROVE  TypeOK' /\ Streams'
  <2>1. /\ UNCHANGED <<socketVars, rxVars, txVars, req, hasty, lossy>> /\ timed' = t
        /\ IF Expects THEN pc' = "read" /\ out' = out ELSE Ends("false", 0)
    BY <1>3 DEF read
  <2>2. /\ pc' \in {"idle", "read"} /\ (pc' # "idle" => rx_expected > 0)
        /\ out' = out \/ (out'.id = 0 /\ out'.kind = "false")
    BY <2>1 DEF Ends, Expects
  <2>3. /\ UNCHANGED <<connected, base, up, asked, wire>>
        /\ UNCHANGED <<rx_buffer, rx_state, rx_header_len, rx_expected, trials>>
        /\ UNCHANGED <<uuid, tx_buffer, tx_msg_len>>
        /\ UNCHANGED <<req, hasty, lossy>>
    BY <2>1 DEF socketVars, rxVars, txVars
  <2>4. out'.id \in Nat /\ out'.kind \in {"none", "answer", "exception", "false"}
    <3>1. CASE out' = out
      BY <3>1, Types, Zenon
    <3>2. CASE out'.id = 0 /\ out'.kind = "false"
      BY <3>2
    <3> QED
      BY <2>2, <3>1, <3>2
  <2>5. pc' \in {"idle", "read", "first", "loop"} /\ (pc' = "idle" \/ pc' = "read")
    BY <2>2
  <2> QED
    BY <1>1, <1>3, <2>1, <2>2, <2>3, <2>4, <2>5, Types, TypesNext, Zenon DEF Streams
<1>4. CASE close
  <2>1. /\ connected' = FALSE /\ up' = FALSE /\ asked' = <<>> /\ wire' = <<>>
        /\ base' = base /\ pc' = pc
        /\ lossy' = (lossy \/ rx_expected > 0)
        /\ UNCHANGED <<rx_buffer, rx_state, rx_header_len, rx_expected, trials>>
        /\ UNCHANGED <<uuid, tx_buffer, tx_msg_len>>
        /\ UNCHANGED <<timed, out, req, hasty>>
    BY <1>4 DEF close, Disconnected, rxVars, txVars
  <2> QED
    BY <1>1, <1>2, <2>1, Types, TypesNext, Zenon DEF Streams
<1>5. CASE flush
  <2>1. /\ rx_buffer' = <<>> /\ tx_buffer' = <<>> /\ tx_msg_len' = 0
        /\ lossy' = (lossy \/ rx_buffer # <<>>)
        /\ UNCHANGED <<connected, base, up, asked, wire>>
        /\ UNCHANGED <<rx_state, rx_header_len, rx_expected, trials, uuid, pc,
                       timed, out, req, hasty>>
    BY <1>5 DEF flush, socketVars
  <2> QED
    BY <1>1, <1>2, <2>1, Types, TypesNext, Zenon DEF Streams
<1> QED
  BY <1>3, <1>4, <1>5

LEMMA ReadingTypes ==
  ASSUME TypeOK, Streams, pc # "idle", NEW b \in Seq(Piece), Scan(b)
  PROVE  /\ rx_buffer' \in Seq(Piece) /\ rx_header_len' \in BOOLEAN
         /\ rx_state' \in {"RX_INIT", "RX_PRE_HDR", "RX_HDR", "ERROR"}
         /\ rx_expected' \in Nat /\ out'.id \in Nat
         /\ out'.kind \in {"none", "answer", "exception", "false"}
         /\ pc' \in {"idle", "loop"} /\ (pc' # "idle" => rx_expected' > 0)
<1>1. /\ rx_buffer' \in Seq(Piece) /\ rx_header_len' \in BOOLEAN
      /\ rx_state' \in {"RX_INIT", "RX_PRE_HDR", "RX_HDR", "ERROR"}
      /\ \/ rx_expected' = rx_expected /\ pc' = "loop" /\ out' = out
         \/ rx_expected' = rx_expected /\ pc' = "idle"
              /\ out' = [kind |-> "exception", id |-> 0]
         \/ /\ rx_expected' = rx_expected - 1 /\ pc' = "idle"
            /\ out'.kind = "answer" /\ out'.id \in Nat
  BY ScanStep
<1>2. rx_expected \in Nat /\ rx_expected > 0 /\ out.id \in Nat
      /\ out.kind \in {"none", "answer", "exception", "false"}
  BY Types
<1> QED
  BY <1>1, <1>2

LEMMA ReadTypes ==
  ASSUME TypeOK, Streams, ReadStarts \/ ReadRefused \/ ReadData \/ ReadFails
  PROVE  TypeOK' /\ Streams'
<1>1. /\ UNCHANGED <<use_uuid, uuid, tx_buffer, tx_msg_len, timed, req, hasty, lossy, calls>>
      /\ pc \in {"read", "first", "loop"} /\ pc # "idle"
  BY DEF ReadStarts, ReadRefused, ReadData, ReadFails, txVars, histVars
<1>2. /\ <<>> \in Seq(Nat) /\ <<>> \in Seq(Piece) /\ 0 \in Nat /\ rx_expected \in Nat
      /\ trials \in Nat /\ rx_expected > 0
      /\ connected \in BOOLEAN /\ base \in BOOLEAN /\ up \in BOOLEAN
      /\ asked \in Seq(Nat) /\ wire \in Seq(Piece) /\ rx_buffer \in Seq(Piece)
  BY <1>1, Types, EmptySeq DEF Streams
<1>3. CASE ReadStarts
  <2>1. /\ connected' = TRUE /\ base' \in BOOLEAN /\ up' \in BOOLEAN
        /\ asked' \in Seq(Nat) /\ wire' \in Seq(Piece)
    <3>1. CASE connected
      <4>1. UNCHANGED <<connected, base, up, asked, wire>>
        BY <1>3, <3>1 DEF ReadStarts, socketVars
      <4> QED
        BY <1>2, <3>1, <4>1, Zenon
    <3>2. CASE ~connected
      <4>1. connect /\ asked' = <<>>
        BY <1>3, <3>2 DEF ReadStarts
      <4> QED
        BY <1>2, <4>1, Zenon DEF connect
    <3> QED
      BY <3>1, <3>2
  <2>2. trials' \in Nat
    BY <1>3 DEF ReadStarts
  <2>3. CASE rx_buffer = <<>>
    <3>1. pc' = "first" /\ UNCHANGED <<rx_buffer, rx_state, rx_header_len, rx_expected, out>>
      BY <1>3, <2>3 DEF ReadStarts
    <3>2. pc' \in {"idle", "read", "first", "loop"}
      BY <3>1
    <3> QED
      BY <1>1, <1>2, <2>1, <2>2, <3>1, <3>2, Types, TypesNext, Zenon DEF Streams
  <2>4. CASE rx_buffer # <<>>
    <3>1. Scan(rx_buffer)
      BY <1>3, <2>4 DEF ReadStarts
    <3>2. /\ rx_buffer' \in Seq(Piece) /\ rx_header_len' \in BOOLEAN
          /\ rx_state' \in {"RX_INIT", "RX_PRE_HDR", "RX_HDR", "ERROR"}
          /\ rx_expected' \in Nat /\ out'.id \in Nat
          /\ out'.kind \in {"none", "answer", "exception", "false"}
          /\ pc' \in {"idle", "loop"} /\ (pc' # "idle" => rx_expected' > 0)
      BY <1>1, <1>2, <3>1, ReadingTypes
    <3>3. pc' \in {"idle", "read", "first", "loop"}
      BY <3>2
    <3> QED
      BY <1>1, <2>1, <2>2, <3>2, <3>3, Types, TypesNext, Zenon DEF Streams
  <2> QED
    BY <2>3, <2>4
<1>4. CASE ReadRefused
  <2>1. /\ Ends("exception", 0) /\ UNCHANGED <<connected, base, up, asked, wire>>
        /\ UNCHANGED <<rx_buffer, rx_state, rx_header_len, rx_expected, trials>>
    BY <1>4 DEF ReadRefused, socketVars, rxVars
  <2>2. pc' = "idle" /\ out'.kind = "exception" /\ out'.id = 0
    BY <2>1 DEF Ends
  <2> QED
    BY <1>1, <1>2, <2>1, <2>2, Types, TypesNext, Zenon DEF Streams
<1>5. CASE ReadFails
  <2>1. /\ Ends("exception", 0) /\ UNCHANGED <<connected, up, asked, wire>>
        /\ UNCHANGED <<rx_buffer, rx_state, rx_header_len, rx_expected, trials>>
        /\ base' = (base /\ ~timed)
    BY <1>5 DEF ReadFails, rxVars
  <2>2. pc' = "idle" /\ out'.kind = "exception" /\ out'.id = 0
    BY <2>1 DEF Ends
  <2> QED
    BY <1>1, <1>2, <2>1, <2>2, Types, TypesNext, Zenon DEF Streams
<1>6. CASE ReadData
  <2>1. PICK k \in 1 .. Len(wire) :
          /\ wire' = SubSeq(wire, k + 1, Len(wire))
          /\ trials' = IF pc = "loop" THEN trials + 1 ELSE 0
          /\ IF trials' = NumTrials
               THEN /\ rx_buffer' = rx_buffer \o SubSeq(wire, 1, k)
                    /\ rx_state' = "ERROR" /\ Ends("false", 0)
                    /\ UNCHANGED <<rx_header_len, rx_expected>>
               ELSE Scan(rx_buffer \o SubSeq(wire, 1, k))
    BY <1>6 DEF ReadData
  <2>2. SubSeq(wire, 1, k) \in Seq(Piece) /\ wire' \in Seq(Piece)
    <3>1. 1 \in 1 .. Len(wire) + 1 /\ k \in 0 .. Len(wire) /\ k + 1 \in 1 .. Len(wire) + 1
          /\ Len(wire) \in 0 .. Len(wire) /\ 1 <= k + 1 /\ k + 1 <= Len(wire) + 1
      BY <1>2
    <3> QED
      BY <1>2, <2>1, <3>1, SomeParts
  <2>3. rx_buffer \o SubSeq(wire, 1, k) \in Seq(Piece)
    BY <1>2, <2>2, ConcatProperties
  <2>4. trials' \in Nat
    BY <1>2, <2>1
  <2>5. /\ UNCHANGED <<connected, up, asked>> /\ base' = (base \/ timed)
        /\ pc = "first" \/ pc = "loop"
    BY <1>6 DEF ReadData
  <2>6. connected
    <3>1. pc # "read"
      BY <2>5
    <3> QED
      BY <1>1, <3>1, Types, Zenon
  <2>7. CASE trials' = NumTrials
    <3>1. /\ rx_buffer' \in Seq(Piece)
          /\ rx_state' = "ERROR" /\ Ends("false", 0)
          /\ UNCHANGED <<rx_header_len, rx_expected>>
      BY <2>1, <2>3, <2>7
    <3>2. pc' = "idle" /\ out'.kind = "false" /\ out'.id = 0
      BY <3>1 DEF Ends
    <3> QED
      BY <1>1, <1>2, <2>2, <2>4, <2>5, <3>1, <3>2, Types, TypesNext, Zenon DEF Streams
  <2>8. CASE trials' # NumTrials
    <3>1. Scan(rx_buffer \o SubSeq(wire, 1, k))
      BY <2>1, <2>8
    <3>2. /\ rx_buffer' \in Seq(Piece) /\ rx_header_len' \in BOOLEAN
          /\ rx_state' \in {"RX_INIT", "RX_PRE_HDR", "RX_HDR", "ERROR"}
          /\ rx_expected' \in Nat /\ out'.id \in Nat
          /\ out'.kind \in {"none", "answer", "exception", "false"}
          /\ pc' \in {"idle", "loop"} /\ (pc' # "idle" => rx_expected' > 0)
      BY <1>1, <2>3, <3>1, ReadingTypes
    <3>3. pc' \in {"idle", "read", "first", "loop"}
      BY <3>2
    <3> QED
      BY <1>1, <2>2, <2>4, <2>5, <2>6, <3>2, <3>3, Types, TypesNext, Zenon DEF Streams
  <2> QED
    BY <2>7, <2>8
<1> QED
  BY <1>3, <1>4, <1>5, <1>6

LEMMA PartPieces ==
  ASSUME NEW p \in {"pre", "hdr", "cnt"}, NEW n \in Nat
  PROVE  /\ Part(p, n) \in Seq(Piece) /\ Len(Part(p, n)) = 2 /\ OneReply(Part(p, n), n)
         /\ p # "cnt" => NoFinal(Part(p, n))
<1> DEFINE x == [part |-> p, id |-> n, half |-> 1]
           y == [part |-> p, id |-> n, half |-> 2]
<1>1. /\ x \in Piece /\ y \in Piece /\ x.id = n /\ y.id = n /\ ~Final(x)
      /\ Final(y) => p = "cnt"
  BY DEF Piece, Final
<1>2. Part(p, n) = <<x, y>>
  BY DEF Part
<1> HIDE DEF x, y
<1>3. <<x, y>> \in Seq(Piece) /\ Len(<<x, y>>) = 2 /\ <<x, y>>[1] = x /\ <<x, y>>[2] = y
  BY <1>1
<1>4. \A i \in 1 .. 2 : i = 1 \/ i = 2
  OBVIOUS
<1> QED
  BY <1>1, <1>2, <1>3, <1>4 DEF OneReply, NoFinal

LEMMA ReplyPieces ==
  ASSUME NEW n \in Nat
  PROVE  Reply(n) \in Seq(Piece) /\ Len(Reply(n)) = 6 /\ OneReply(Reply(n), n)
<1> DEFINE x == Part("pre", n)
           y == Part("hdr", n)
           z == Part("cnt", n)
<1>1. /\ x \in Seq(Piece) /\ Len(x) = 2 /\ OneReply(x, n) /\ NoFinal(x)
      /\ y \in Seq(Piece) /\ Len(y) = 2 /\ OneReply(y, n) /\ NoFinal(y)
      /\ z \in Seq(Piece) /\ Len(z) = 2 /\ OneReply(z, n)
  BY PartPieces
<1>2. Reply(n) = (x \o y) \o z
  BY DEF Reply
<1> HIDE DEF x, y, z
<1> DEFINE w == x \o y
<1>3. w \in Seq(Piece) /\ Len(w) = Len(x) + Len(y) /\ OneReply(w, n) /\ NoFinal(w)
  BY <1>1, Joined, Zenon
<1>4. Len(w) = 4 /\ Reply(n) = w \o z
  BY <1>1, <1>2, <1>3
<1> HIDE DEF w
<1>5. w \o z \in Seq(Piece) /\ Len(w \o z) = Len(w) + Len(z) /\ OneReply(w \o z, n)
  BY <1>1, <1>3, Joined, Zenon
<1> QED
  BY <1>1, <1>4, <1>5

LEMMA ServerTypes ==
  ASSUME TypeOK, Streams, ServerAnswers \/ ServerCloses
  PROVE  TypeOK' /\ Streams'
<1>1. CASE ServerAnswers
  <2>1. /\ wire' = wire \o Reply(Head(asked)) /\ asked' = Tail(asked) /\ asked # <<>>
        /\ UNCHANGED <<use_uuid, connected, base, up, pc, timed, out>>
        /\ UNCHANGED <<rx_buffer, rx_state, rx_header_len, rx_expected, trials>>
        /\ UNCHANGED <<uuid, tx_buffer, tx_msg_len, req, hasty, lossy, calls>>
    BY <1>1 DEF ServerAnswers, rxVars, txVars, histVars
  <2>2. Head(asked) \in Nat /\ Tail(asked) \in Seq(Nat)
    BY <2>1, Types
  <2>3. wire' \in Seq(Piece)
    BY <2>1, <2>2, ReplyPieces, ConcatProperties DEF Streams
  <2> QED
    BY <2>1, <2>2, <2>3, ZenonT(60) DEF Streams, TypeOK
<1>2. CASE ServerCloses
  <2>1. /\ up' = FALSE /\ asked' = <<>> /\ lossy' = (lossy \/ asked # <<>>)
        /\ UNCHANGED <<use_uuid, connected, base, wire, pc, timed, out>>
        /\ UNCHANGED <<rx_buffer, rx_state, rx_header_len, rx_expected, trials>>
        /\ UNCHANGED <<uuid, tx_buffer, tx_msg_len, req, hasty, calls>>
    BY <1>2 DEF ServerCloses, rxVars, txVars
  <2>2. <<>> \in Seq(Nat)
    BY EmptySeq
  <2> QED
    BY <2>1, <2>2, ZenonT(60) DEF Streams, TypeOK
<1> QED
  BY <1>1, <1>2

LEMMA NextTypes ==
  ASSUME TypeOK, Streams, [Next]_vars
  PROVE  TypeOK' /\ Streams'
<1>1. CASE Next
  BY <1>1, SendTypes, WriteTypes, OtherCallTypes, ReadTypes, ServerTypes DEF Next
<1>2. CASE UNCHANGED vars
  <2>1. /\ UNCHANGED <<use_uuid, pc, timed, out, connected, base, up, asked, wire>>
        /\ UNCHANGED <<rx_buffer, rx_state, rx_header_len, rx_expected, trials>>
        /\ UNCHANGED <<uuid, tx_buffer, tx_msg_len, req, hasty, lossy, calls>>
    BY <1>2 DEF vars, socketVars, rxVars, txVars, histVars
  <2> QED
    BY <2>1, ZenonT(60) DEF Streams, TypeOK
<1> QED
  BY <1>1, <1>2

LEMMA InitTypes ==
  Init => TypeOK /\ Streams
<1> SUFFICES ASSUME Init PROVE TypeOK /\ Streams
  OBVIOUS
<1>1. /\ <<>> \in Seq(Nat) /\ <<>> \in Seq(Piece) /\ 0 \in Nat
      /\ out.kind = "none" /\ out.id = 0 /\ use_uuid \in BOOLEAN
  BY EmptySeq DEF Init
<1>2. rx_state = "RX_INIT" /\ pc = "idle"
  BY DEF Init
<1> QED
  BY <1>1, <1>2, Types DEF Init, Streams

\* TypeOK for every number of trials and calls: the client waits for data only on a
\* connection it has made and for a reply it expects.
THEOREM TypeCorrect == Spec => []TypeOK
<1>1. Init => TypeOK /\ Streams
  BY InitTypes
<1>2. TypeOK /\ Streams /\ [Next]_vars => TypeOK' /\ Streams'
  BY NextTypes
<1> QED
  BY <1>1, <1>2, PTL DEF Spec

-----------------------------------------------------------------------------
(* Patience is kept by every step.                                          *)

LEMMA NothingReceived ==
  \A n : OneReply(<<>>, n) /\ NoFinal(<<>>)
  BY EmptySeq DEF OneReply, NoFinal

\* Pieces are received from the front of the wire.
LEMMA TakenPieces ==
  ASSUME NEW s \in Seq(Piece), NEW n, OneReply(s, n), NEW k \in 1 .. Len(s)
  PROVE  /\ SubSeq(s, 1, k) \in Seq(Piece) /\ SubSeq(s, k + 1, Len(s)) \in Seq(Piece)
         /\ OneReply(SubSeq(s, 1, k), n) /\ OneReply(SubSeq(s, k + 1, Len(s)), n)
         /\ SubSeq(s, k + 1, Len(s)) # <<>> => NoFinal(SubSeq(s, 1, k))
<1> DEFINE a == SubSeq(s, 1, k)
           z == SubSeq(s, k + 1, Len(s))
<1>1. /\ Len(s) \in Nat /\ k \in Nat /\ 1 \in 1 .. Len(s) + 1 /\ k \in 0 .. Len(s)
      /\ k + 1 \in 1 .. Len(s) + 1 /\ Len(s) \in 0 .. Len(s) /\ 1 <= k + 1
      /\ k + 1 <= Len(s) + 1
  OBVIOUS
<1>2. /\ a \in Seq(Piece) /\ Len(a) = k - 1 + 1
      /\ \A i \in 1 .. k - 1 + 1 : a[i] = s[1 + i - 1]
  BY <1>1, SomeParts
<1>3. /\ z \in Seq(Piece) /\ Len(z) = Len(s) - (k + 1) + 1
      /\ \A i \in 1 .. Len(s) - (k + 1) + 1 : z[i] = s[k + 1 + i - 1]
  BY <1>1, SomeParts
<1> HIDE DEF a, z
<1>4. Len(a) = k /\ \A i \in 1 .. Len(a) : i \in 1 .. Len(s) /\ a[i] = s[i]
  BY <1>1, <1>2
<1>5. Len(z) = Len(s) - k /\ \A i \in 1 .. Len(z) : i + k \in 1 .. Len(s) /\ z[i] = s[i + k]
  BY <1>1, <1>3
<1>6. OneReply(a, n)
  BY <1>1, <1>4 DEF OneReply
<1>7. OneReply(z, n)
  <2>1. ASSUME NEW i \in 1 .. Len(z)
        PROVE  z[i].id = n /\ (Final(z[i]) => i = Len(z))
    <3>1. z[i] = s[i + k] /\ i + k \in 1 .. Len(s)
      BY <1>5, Zenon
    <3>2. s[i + k].id = n /\ (Final(s[i + k]) => i + k = Len(s))
      BY <3>1, Zenon DEF OneReply
    <3>3. i + k = Len(s) => i = Len(z)
      <4>1. Len(z) = Len(s) - k /\ i \in Int
        BY <1>5
      <4> QED
        BY <1>1, <4>1
    <3> QED
      BY <3>1, <3>2, <3>3, Zenon
  <2> QED
    BY <2>1, Zenon DEF OneReply
<1>8. ASSUME z # <<>> PROVE NoFinal(a)
  <2>1. k < Len(s)
    BY <1>1, <1>3, <1>5, <1>8, EmptySeq
  <2> QED
    BY <1>1, <1>4, <2>1 DEF OneReply, NoFinal
<1> QED
  BY <1>2, <1>3, <1>6, <1>7, <1>8 DEF a, z

Kept == OneRequest' /\ Expected' /\ PatientClientIsRight'

\* Steps that move neither requests nor replies, but for a connection that is made.
LEMMA Unmoved ==
  ASSUME OneRequest, Expected, PatientClientIsRight, ~hasty,
         UNCHANGED <<tx_buffer, asked, wire, rx_buffer, req>>,
         UNCHANGED <<rx_expected, rx_state, tx_msg_len>>,
         connected' = connected \/ connected' = TRUE,
         out' = out \/ out'.kind # "answer"
  PROVE  Kept
<1>1. OneRequest'
  BY Zenon DEF OneRequest, OneReply, Final
<1>2. Expected'
  BY Zenon DEF Expected, AtRest
<1>3. PatientClientIsRight'
  BY Zenon DEF PatientClientIsRight
<1> QED
  BY <1>1, <1>2, <1>3 DEF Kept

LEMMA OneElement ==
  ASSUME NEW n \in Nat
  PROVE  /\ SubSeq(<<n>>, 1, 1) = <<n>> /\ SubSeq(<<n>>, 2, 1) = <<>> /\ Len(<<n>>) = 1
         /\ <<>> \o <<n>> = <<n>>
<1>1. <<n>> \in Seq(Nat) /\ Len(<<n>>) = 1 /\ 1 \in Int /\ 2 \in Int /\ 1 < 2
  OBVIOUS
<1>2. SubSeq(<<n>>, 1, Len(<<n>>)) = <<n>> /\ <<>> \o <<n>> = <<n>>
  BY <1>1, SubSeqFull, ConcatEmptySeq, Zenon
<1>3. SubSeq(<<n>>, 2, 1) = <<>>
  BY <1>1, SubSeqEmpty, Zenon
<1> QED
  BY <1>1, <1>2, <1>3, Zenon

\* A request that is written when nothing is under way, or whose write is given up.
LEMMA RequestWritten ==
  ASSUME TypeOK, NEW n \in Nat, NEW c \in Nat, rx_expected + c > 0,
         asked = <<>>, wire = <<>>, rx_buffer = <<>>, rx_buffer' = <<>>, req' = n,
         Written(<<n>>, 1, c) \/ WriteGivesUp(<<n>>, c)
  PROVE  OneRequest' /\ Expected'
<1>1. wire' = <<>>
  BY Zenon DEF Written, WriteGivesUp, Disconnected, connect
<1>2. rx_expected' > 0 /\ rx_expected' # 0
  <2>1. rx_expected' = rx_expected + c
    BY DEF Written, WriteGivesUp
  <2>2. rx_expected \in Nat
    BY Types
  <2> QED
    BY <2>1, <2>2
<1>3. SubSeq(<<n>>, 1, 1) = <<n>> /\ SubSeq(<<n>>, 2, 1) = <<>> /\ Len(<<n>>) = 1
      /\ 1 + 1 = 2 /\ <<>> \o <<n>> = <<n>>
  BY OneElement
<1>4. CASE Written(<<n>>, 1, c)
  <2>1. asked' \in {<<>>, <<n>>} /\ tx_buffer' = <<>>
    BY <1>3, <1>4 DEF Written
  <2>2. connected'
    BY <1>4, Zenon DEF Written, connect
  <2>3. OneRequest'
    BY <1>1, <2>1, NothingReceived DEF OneRequest, OneReply, NoFinal
  <2>4. Expected'
    BY <1>1, <1>2, <2>1, <2>2, Zenon DEF Expected
  <2> QED
    BY <2>3, <2>4
<1>5. CASE WriteGivesUp(<<n>>, c)
  <2>1. asked' = <<>> /\ tx_buffer' = <<n>>
    BY <1>5 DEF WriteGivesUp, Disconnected
  <2>2. OneRequest'
    BY <1>1, <2>1, NothingReceived DEF OneRequest, OneReply, NoFinal
  <2>3. Expected'
    BY <1>1, <1>2, <2>1, Zenon DEF Expected
  <2> QED
    BY <2>2, <2>3
<1> QED
  BY <1>4, <1>5

LEMMA SendKept ==
  ASSUME TypeOK, Streams, Patient, ~hasty', NEW t \in BOOLEAN, send(t)
  PROVE  Kept
<1> DEFINE queued == Append(tx_buffer, req + 1)
<1>1. /\ req' = req + 1 /\ Hurries(queued) /\ Call("send")
      /\ UNCHANGED <<rx_buffer, rx_state>>
      /\ \/ ((\/ Written(queued, Len(queued), tx_msg_len + 1)
               \/ WriteGivesUp(queued, tx_msg_len + 1))
             /\ tx_msg_len' = 0 /\ out' = [kind |-> "none", id |-> 0])
         \/ (WriteRaises(queued, Len(queued) - 1) /\ tx_msg_len' = tx_msg_len + 1)
  BY DEF send
<1>2. ~hasty /\ ~(Len(queued) > 1) /\ ~(IF connected THEN rx_expected > 0 ELSE ~AtRest)
  BY <1>1, Zenon DEF Hurries
<1>3. OneRequest /\ Expected /\ PatientClientIsRight
  BY <1>2 DEF Patient
<1>4. rx_expected \in Nat /\ tx_msg_len \in Nat /\ req \in Nat /\ tx_buffer \in Seq(Nat)
  BY Types
<1>5. tx_buffer = <<>> /\ queued = <<req + 1>> /\ Len(queued) = 1
  <2>1. Len(queued) = Len(tx_buffer) + 1
    BY <1>4
  <2>2. Len(tx_buffer) = 0
    BY <1>2, <1>4, <2>1
  <2> QED
    BY <1>4, <2>2
<1>6. AtRest /\ asked = <<>> /\ wire = <<>> /\ rx_buffer = <<>>
  <2>1. CASE connected
    <3>1. rx_expected = 0
      BY <1>2, <1>4, <2>1
    <3> QED
      BY <1>3, <3>1 DEF Expected, AtRest
  <2>2. CASE ~connected
    BY <1>2, <1>3, <2>2 DEF Expected, AtRest
  <2> QED
    BY <2>1, <2>2
<1> HIDE DEF queued
<1>7. CASE (\/ Written(queued, Len(queued), tx_msg_len + 1)
            \/ WriteGivesUp(queued, tx_msg_len + 1))
           /\ tx_msg_len' = 0 /\ out' = [kind |-> "none", id |-> 0]
  <2>1. req + 1 \in Nat /\ tx_msg_len + 1 \in Nat /\ rx_expected + (tx_msg_len + 1) > 0
    BY <1>4
  <2>2. Written(<<req + 1>>, 1, tx_msg_len + 1) \/ WriteGivesUp(<<req + 1>>, tx_msg_len + 1)
    BY <1>5, <1>7, Zenon
  <2>3. rx_buffer' = <<>> /\ req' = req + 1
    BY <1>1, <1>6
  <2>4. OneRequest' /\ Expected'
    BY <1>6, <2>1, <2>2, <2>3, RequestWritten
  <2>5. out'.kind = "none"
    BY <1>7
  <2> QED
    BY <2>4, <2>5 DEF Kept, PatientClientIsRight
<1>8. CASE WriteRaises(queued, Len(queued) - 1) /\ tx_msg_len' = tx_msg_len + 1
  <2>0. /\ tx_buffer' = <<req + 1>> /\ Ends("exception", 0)
        /\ asked' = <<>> /\ wire' = <<>>
    <3>1. WriteRaises(<<req + 1>>, 0) /\ <<req + 1>> \in Seq(Nat)
      <4>1. Len(queued) - 1 = 0
        BY <1>5
      <4>2. <<req + 1>> \in Seq(Nat)
        BY <1>4
      <4> QED
        BY <1>5, <1>8, <4>1, <4>2, Zenon
    <3> QED
      BY <1>6, <3>1, RaisedAtOnce
  <2>1. /\ tx_buffer' = <<req'>> /\ Ends("exception", 0)
        /\ asked' = <<>> /\ wire' = <<>> /\ rx_buffer' = <<>> /\ rx_state' = rx_state
    BY <1>1, <1>6, <2>0
  <2>2. out'.kind = "exception" /\ tx_msg_len' # 0
    BY <1>4, <1>8, <2>1 DEF Ends
  <2>3. OneRequest'
    BY <2>1, NothingReceived DEF OneRequest, OneReply, NoFinal
  <2>4. Expected'
    BY <1>6, <2>1, <2>2 DEF Expected, AtRest
  <2> QED
    BY <2>2, <2>3, <2>4 DEF Kept, PatientClientIsRight
<1> QED
  BY <1>1, <1>7, <1>8, Zenon

LEMMA WriteKept ==
  ASSUME TypeOK, Streams, Patient, ~hasty', write_all \/ write_oldest \/ write_nothing
  PROVE  Kept
<1>1. ~hasty /\ tx_buffer # <<>> /\ req' = req /\ UNCHANGED <<rx_buffer, rx_state>>
  <2>1. tx_buffer # <<>> /\ req' = req /\ UNCHANGED <<rx_buffer, rx_state>>
    BY DEF write_all, write_oldest, write_nothing, rxVars
  <2>2. hasty => hasty'
    BY Zenon DEF write_all, write_oldest, write_nothing, Hurries, Uncounted
  <2> QED
    BY <2>1, <2>2
<1>2. OneRequest /\ Expected /\ PatientClientIsRight
  BY <1>1 DEF Patient
<1>3. /\ tx_buffer = <<req>> /\ Len(tx_buffer) = 1
      /\ asked = <<>> /\ wire = <<>> /\ rx_buffer = <<>> /\ rx_buffer' = <<>>
  BY <1>1, <1>2 DEF OneRequest
<1>4. rx_expected \in Nat /\ tx_msg_len \in Nat /\ req \in Nat
  BY Types
<1>5. tx_msg_len = 0 => rx_expected > 0
  BY <1>1, <1>2 DEF Expected
<1>6. ASSUME NEW c \in Nat, rx_expected + c > 0, out' = out,
             Written(tx_buffer, 1, c) \/ WriteGivesUp(tx_buffer, c)
      PROVE  Kept
  <2>1. Written(<<req>>, 1, c) \/ WriteGivesUp(<<req>>, c)
    BY <1>3, <1>6, Zenon
  <2>2. OneRequest' /\ Expected'
    BY <1>1, <1>3, <1>4, <1>6, <2>1, RequestWritten
  <2>3. PatientClientIsRight'
    BY <1>1, <1>2, <1>6, Zenon DEF PatientClientIsRight
  <2> QED
    BY <2>2, <2>3 DEF Kept
<1>7. ASSUME WriteRaises(tx_buffer, 0), tx_msg_len' = tx_msg_len
      PROVE  Kept
  <2>1. Ends("exception", 0) /\ tx_buffer' = tx_buffer
        /\ UNCHANGED <<asked, wire, rx_expected>>
        /\ (connected' = connected \/ connected' = TRUE)
    <3>1. tx_buffer \in Seq(Nat)
      BY Types
    <3> QED
      BY <1>3, <1>7, <3>1, RaisedAtOnce
  <2>2. out'.kind # "answer"
    BY <2>1 DEF Ends
  <2> QED
    BY <1>1, <1>2, <1>7, <2>1, <2>2, Unmoved
<1>8. CASE write_all
  <2>1. CASE /\ Written(tx_buffer, Len(tx_buffer), tx_msg_len)
                \/ WriteGivesUp(tx_buffer, tx_msg_len)
             /\ tx_msg_len' = 0 /\ UNCHANGED <<pc, out>>
    <3>1. rx_expected + tx_msg_len > 0
      BY <1>4, <1>5
    <3>2. Written(tx_buffer, 1, tx_msg_len) \/ WriteGivesUp(tx_buffer, tx_msg_len)
      BY <1>3, <2>1, Zenon
    <3> QED
      BY <1>4, <1>6, <2>1, <3>1, <3>2
  <2>2. CASE WriteRaises(tx_buffer, Len(tx_buffer) - 1) /\ UNCHANGED tx_msg_len
    <3>1. Len(tx_buffer) - 1 = 0
      BY <1>3
    <3>2. WriteRaises(tx_buffer, 0)
      BY <2>2, <3>1, Zenon
    <3> QED
      BY <1>7, <2>2, <3>2
  <2> QED
    BY <1>8, <2>1, <2>2, Zenon DEF write_all
<1>9. CASE write_oldest
  <2>1. CASE /\ Written(tx_buffer, 1, 1) \/ WriteGivesUp(tx_buffer, 1)
             /\ tx_msg_len' = tx_msg_len - 1 /\ UNCHANGED <<pc, out>>
    <3>1. rx_expected + 1 > 0 /\ 1 \in Nat
      BY <1>4
    <3> QED
      BY <1>6, <2>1, <3>1
  <2>2. CASE /\ WriteRaises(tx_buffer, 0)
             /\ IF connected' THEN tx_msg_len' = tx_msg_len - 1 /\ Uncounted
                 ELSE UNCHANGED tx_msg_len /\ lossy' = lossy /\ Hurries(tx_buffer)
    <3>1. tx_msg_len' = tx_msg_len
      BY <2>2, Zenon DEF Uncounted
    <3> QED
      BY <1>7, <2>2, <3>1
  <2> QED
    BY <1>9, <2>1, <2>2, Zenon DEF write_oldest
<1>10. CASE write_nothing
  <2>1. /\ Ends("exception", 0) /\ UNCHANGED <<tx_buffer, tx_msg_len, rx_expected>>
        /\ UNCHANGED socketVars \/ (connect /\ asked' = <<>>)
    BY <1>10 DEF write_nothing, rxVars, txVars
  <2>2. out'.kind # "answer"
    BY <2>1 DEF Ends
  <2>3. UNCHANGED <<asked, wire>> /\ (connected' = connected \/ connected' = TRUE)
    BY <1>3, <2>1 DEF socketVars, connect
  <2> QED
    BY <1>1, <1>2, <2>1, <2>2, <2>3, Unmoved
<1> QED
  BY <1>8, <1>9, <1>10

\* A pass of the loop of read over pieces of the reply under way.
LEMMA ScanKept ==
  ASSUME TypeOK, pc # "idle", NEW b \in Seq(Piece), Scan(b), OneReply(b, req),
         NoFinal(b) \/ wire' = <<>>, OneReply(wire', req), PatientClientIsRight, ~hasty,
         tx_buffer' = <<>>, asked' = <<>>, req' = req, connected'
  PROVE  Kept
<1>1. /\ \A n : OneReply(b, n) => OneReply(rx_buffer', n)
      /\ NoFinal(b) => NoFinal(rx_buffer')
      /\ \/ rx_expected' = rx_expected /\ pc' = "loop" /\ out' = out
         \/ rx_expected' = rx_expected /\ pc' = "idle"
              /\ out' = [kind |-> "exception", id |-> 0]
         \/ /\ rx_expected' = rx_expected - 1 /\ pc' = "idle" /\ rx_state' = "RX_INIT"
            /\ out'.kind = "answer" /\ out'.id \in Nat
            /\ ~NoFinal(b)
            /\ \A n : OneReply(b, n) => rx_buffer' = <<>> /\ out'.id = n
  BY ScanStep
<1>2. rx_expected \in Nat /\ rx_expected > 0
  BY Types
<1>3. OneReply(rx_buffer', req) /\ (NoFinal(rx_buffer') \/ wire' = <<>>)
  BY <1>1, Zenon
<1>4. OneRequest'
  BY <1>3, Zenon DEF OneRequest, NoFinal, OneReply, Final
<1>5. \/ rx_expected' = rx_expected /\ out' = out
      \/ rx_expected' = rx_expected /\ out'.kind = "exception"
      \/ /\ rx_state' = "RX_INIT" /\ rx_buffer' = <<>> /\ wire' = <<>>
         /\ out'.id = req
  BY <1>1
<1>6. Expected'
  BY <1>2, <1>5 DEF Expected, AtRest
<1>7. PatientClientIsRight'
  BY <1>5 DEF PatientClientIsRight
<1> QED
  BY <1>4, <1>6, <1>7 DEF Kept

LEMMA ReadKept ==
  ASSUME TypeOK, Streams, Patient, ~hasty',
         ReadStarts \/ ReadRefused \/ ReadData \/ ReadFails
  PROVE  Kept
<1>1. UNCHANGED <<tx_buffer, tx_msg_len, req>> /\ hasty' = hasty /\ pc # "idle"
  BY DEF ReadStarts, ReadRefused, ReadData, ReadFails, txVars, histVars
<1>2. ~hasty /\ OneRequest /\ Expected /\ PatientClientIsRight
  BY <1>1 DEF Patient
<1>3. wire \in Seq(Piece) /\ rx_buffer \in Seq(Piece)
  BY DEF Streams
<1>4. CASE ReadStarts
  <2>1. UNCHANGED <<asked, wire>> /\ connected'
    <3>1. CASE connected
      BY <1>4, <3>1, Zenon DEF ReadStarts, socketVars
    <3>2. CASE ~connected
      BY <1>2, <1>4, <3>2, Zenon DEF ReadStarts, connect, Expected
    <3> QED
      BY <3>1, <3>2
  <2>2. CASE rx_buffer = <<>>
    <3>1. UNCHANGED <<rx_buffer, rx_state, rx_expected, out>>
      BY <1>4, <2>2 DEF ReadStarts
    <3> QED
      BY <1>1, <1>2, <2>1, <3>1, Unmoved
  <2>3. CASE rx_buffer # <<>>
    <3>1. Scan(rx_buffer)
      BY <1>4, <2>3 DEF ReadStarts
    <3>2. tx_buffer' = <<>> /\ asked' = <<>> /\ OneReply(rx_buffer, req)
          /\ OneReply(wire', req) /\ (NoFinal(rx_buffer) \/ wire' = <<>>)
      BY <1>1, <1>2, <2>1, <2>3, Zenon DEF OneRequest, NoFinal
    <3> QED
      BY <1>1, <1>2, <1>3, <2>1, <3>1, <3>2, ScanKept
  <2> QED
    BY <2>2, <2>3
<1>5. CASE ReadRefused \/ ReadFails
  <2>1. /\ Ends("exception", 0)
        /\ UNCHANGED <<asked, wire, connected, rx_buffer, rx_expected, rx_state>>
    BY <1>5 DEF ReadRefused, ReadFails, socketVars, rxVars
  <2>2. out'.kind # "answer"
    BY <2>1 DEF Ends
  <2> QED
    BY <1>1, <1>2, <2>1, <2>2, Unmoved
<1>6. CASE ReadData
  <2>1. PICK k \in 1 .. Len(wire) :
          /\ wire' = SubSeq(wire, k + 1, Len(wire))
          /\ IF trials' = NumTrials
               THEN /\ rx_buffer' = rx_buffer \o SubSeq(wire, 1, k)
                    /\ rx_state' = "ERROR" /\ Ends("false", 0)
                    /\ UNCHANGED <<rx_header_len, rx_expected>>
               ELSE Scan(rx_buffer \o SubSeq(wire, 1, k))
    BY <1>6 DEF ReadData
  <2>2. wire # <<>> /\ UNCHANGED <<connected, asked>> /\ (pc = "first" \/ pc = "loop")
    BY <1>6 DEF ReadData
  <2>3. connected'
    <3>1. pc # "read"
      BY <2>2
    <3> QED
      BY <1>1, <2>2, <3>1, Types, Zenon
  <2>4. /\ tx_buffer' = <<>> /\ asked' = <<>> /\ NoFinal(rx_buffer)
        /\ OneReply(wire, req) /\ OneReply(rx_buffer, req)
    BY <1>1, <1>2, <2>2, Zenon DEF OneRequest, NoFinal
  <2> DEFINE got == rx_buffer \o SubSeq(wire, 1, k)
             part == SubSeq(wire, 1, k)
  <2>5. /\ part \in Seq(Piece) /\ OneReply(part, req) /\ OneReply(wire', req)
        /\ wire' # <<>> => NoFinal(part)
    BY <1>3, <2>1, <2>4, TakenPieces
  <2> HIDE DEF part
  <2>6. /\ rx_buffer \o part \in Seq(Piece) /\ OneReply(rx_buffer \o part, req)
        /\ NoFinal(part) => NoFinal(rx_buffer \o part)
    BY <1>3, <2>4, <2>5, Joined
  <2>7. got \in Seq(Piece) /\ OneReply(got, req) /\ (NoFinal(got) \/ wire' = <<>>)
    BY <2>5, <2>6, Zenon DEF part
  <2>8. CASE trials' = NumTrials
    <3>1. rx_buffer' = got /\ Ends("false", 0) /\ rx_expected' = rx_expected
      BY <2>1, <2>8
    <3>2. out'.kind = "false" /\ rx_expected' # 0
      <4>1. rx_expected \in Nat /\ rx_expected > 0
        BY <1>1, Types
      <4> QED
        BY <3>1, <4>1 DEF Ends
    <3> HIDE DEF got
    <3>3. OneRequest'
      BY <1>1, <2>4, <2>5, <2>7, <3>1, Zenon DEF OneRequest, NoFinal, OneReply, Final
    <3>4. Expected'
      BY <2>3, <2>4, <3>2, Zenon DEF Expected
    <3>5. PatientClientIsRight'
      BY <3>2 DEF PatientClientIsRight
    <3> QED
      BY <3>3, <3>4, <3>5 DEF Kept
  <2>9. CASE trials' # NumTrials
    <3>1. Scan(got)
      BY <2>1, <2>9
    <3> HIDE DEF got
    <3> QED
      BY <1>1, <1>2, <2>3, <2>4, <2>5, <2>7, <3>1, ScanKept
  <2> QED
    BY <2>8, <2>9
<1> QED
  BY <1>4, <1>5, <1>6

LEMMA OtherKept ==
  ASSUME TypeOK, Streams, Patient, ~hasty',
         (\E t \in BOOLEAN : read(t)) \/ close \/ flush \/ ServerAnswers \/ ServerCloses
  PROVE  Kept
<1>1. UNCHANGED <<rx_state, rx_expected, req>> /\ hasty' = hasty
  BY DEF read, close, flush, ServerAnswers, ServerCloses, rxVars, txVars, histVars
<1>2. ~hasty /\ OneRequest /\ Expected /\ PatientClientIsRight
  BY <1>1 DEF Patient
<1>3. ASSUME NEW t \in BOOLEAN, read(t)
      PROVE  Kept
  <2>1. /\ UNCHANGED <<asked, wire, connected, rx_buffer, tx_buffer, tx_msg_len>>
        /\ IF Expects THEN pc' = "read" /\ out' = out ELSE Ends("false", 0)
    BY <1>3 DEF read, socketVars, rxVars, txVars
  <2>2. out' = out \/ out'.kind # "answer"
    BY <2>1 DEF Ends
  <2> QED
    BY <1>1, <1>2, <2>1, <2>2, Unmoved
<1>4. CASE close
  <2>1. /\ asked' = <<>> /\ wire' = <<>> /\ out' = out
        /\ UNCHANGED <<rx_buffer, tx_buffer, tx_msg_len>>
    BY <1>4 DEF close, Disconnected, rxVars, txVars
  <2>2. OneRequest'
    BY <1>1, <1>2, <2>1, NothingReceived, Zenon DEF OneRequest, OneReply, NoFinal, Final
  <2>3. Expected'
    BY <1>1, <1>2, <2>1, Zenon DEF Expected, AtRest
  <2>4. PatientClientIsRight'
    BY <1>1, <1>2, <2>1, Zenon DEF PatientClientIsRight
  <2> QED
    BY <2>2, <2>3, <2>4 DEF Kept
<1>5. CASE flush
  <2>1. /\ rx_buffer' = <<>> /\ tx_buffer' = <<>> /\ UNCHANGED <<asked, wire, connected, out>>
    BY <1>5 DEF flush, socketVars
  <2>2. OneRequest'
    <3>1. OneReply(rx_buffer', req') /\ NoFinal(rx_buffer')
      BY <2>1, NothingReceived, Zenon DEF OneReply, NoFinal
    <3> QED
      BY <1>1, <1>2, <2>1, <3>1, Zenon DEF OneRequest, OneReply, NoFinal, Final
  <2>3. Expected'
    BY <1>1, <1>2, <2>1, Zenon DEF Expected, AtRest
  <2>4. PatientClientIsRight'
    BY <1>1, <1>2, <2>1, Zenon DEF PatientClientIsRight
  <2> QED
    BY <2>2, <2>3, <2>4 DEF Kept
<1>6. CASE ServerAnswers
  <2>1. /\ asked # <<>> /\ wire' = wire \o Reply(Head(asked)) /\ asked' = Tail(asked)
        /\ UNCHANGED <<connected, tx_buffer, tx_msg_len, rx_buffer, out>>
    BY <1>6 DEF ServerAnswers, rxVars, txVars
  <2>2. asked = <<req>> /\ wire = <<>> /\ rx_buffer = <<>> /\ tx_buffer = <<>>
    BY <1>2, <2>1, Zenon DEF OneRequest
  <2>3. req \in Nat
    BY Types
  <2>4. /\ Reply(req) \in Seq(Piece) /\ OneReply(Reply(req), req)
    BY <2>3, ReplyPieces
  <2>5. Head(<<req>>) = req /\ Tail(<<req>>) = <<>>
    OBVIOUS
  <2>6. <<>> \o Reply(req) = Reply(req)
    BY <2>4, ConcatEmptySeq
  <2>7. wire' = Reply(req) /\ asked' = <<>>
    BY <2>1, <2>2, <2>5, <2>6, Zenon
  <2>8. OneReply(wire', req')
    BY <1>1, <2>4, <2>7, Zenon DEF OneReply
  <2>9. OneReply(rx_buffer', req') /\ NoFinal(rx_buffer')
    BY <2>1, <2>2, NothingReceived, Zenon DEF OneReply, NoFinal
  <2>10. OneRequest'
    BY <2>1, <2>2, <2>7, <2>8, <2>9, Zenon DEF OneRequest, OneReply, NoFinal, Final
  <2>11. Expected'
    BY <1>1, <1>2, <2>1, <2>2, Zenon DEF Expected
  <2>12. PatientClientIsRight'
    BY <1>1, <1>2, <2>1, Zenon DEF PatientClientIsRight
  <2> QED
    BY <2>10, <2>11, <2>12 DEF Kept
<1>7. CASE ServerCloses
  <2>1. /\ asked' = <<>> /\ UNCHANGED <<connected, wire, tx_buffer, tx_msg_len, rx_buffer, out>>
    BY <1>7 DEF ServerCloses, rxVars, txVars
  <2>2. OneRequest'
    BY <1>1, <1>2, <2>1, Zenon DEF OneRequest, OneReply, Final
  <2>3. Expected'
    BY <1>1, <1>2, <2>1, Zenon DEF Expected, AtRest
  <2>4. PatientClientIsRight'
    BY <1>1, <1>2, <2>1, Zenon DEF PatientClientIsRight
  <2> QED
    BY <2>2, <2>3, <2>4 DEF Kept
<1> QED
  BY <1>3, <1>4, <1>5, <1>6, <1>7

LEMMA NextPatient ==
  ASSUME TypeOK, Streams, Patient, [Next]_vars
  PROVE  Patient'
<1> SUFFICES ASSUME ~hasty' PROVE Kept
  BY Zenon DEF Patient, Kept
<1>1. CASE Next
  BY <1>1, SendKept, WriteKept, ReadKept, OtherKept DEF Next
<1>2. CASE UNCHANGED vars
  <2>1. /\ UNCHANGED <<tx_buffer, asked, wire, rx_buffer, req, hasty>>
        /\ UNCHANGED <<rx_expected, rx_state, tx_msg_len, connected, out>>
    BY <1>2 DEF vars, socketVars, rxVars, txVars, histVars
  <2>2. ~hasty /\ OneRequest /\ Expected /\ PatientClientIsRight
    BY <2>1 DEF Patient
  <2> QED
    BY <2>1, <2>2, Unmoved
<1> QED
  BY <1>1, <1>2

LEMMA InitPatient ==
  Init => Patient
<1> SUFFICES ASSUME Init PROVE Patient
  OBVIOUS
<1>1. /\ tx_buffer = <<>> /\ asked = <<>> /\ wire = <<>> /\ rx_buffer = <<>>
      /\ rx_state = "RX_INIT" /\ out.kind = "none"
  BY DEF Init
<1>2. OneRequest
  BY <1>1, NothingReceived, Zenon DEF OneRequest, OneReply, NoFinal, Final
<1>3. Expected
  BY <1>1, Zenon DEF Expected, AtRest
<1>4. PatientClientIsRight
  BY <1>1 DEF PatientClientIsRight
<1> QED
  BY <1>2, <1>3, <1>4 DEF Patient

\* A reply is taken for the request it answers, for every number of requests, calls
\* and trials, as long as the application does not hurry.
THEOREM PatienceRewarded == Spec => []PatientClientIsRight
<1>1. Init => IInv
  BY InitTypes, InitPatient DEF IInv
<1>2. IInv /\ [Next]_vars => IInv'
  BY NextTypes, NextPatient DEF IInv
<1>3. IInv => PatientClientIsRight
  BY Zenon DEF IInv, Patient, PatientClientIsRight
<1> QED
  BY <1>1, <1>2, <1>3, PTL DEF Spec

-----------------------------------------------------------------------------
(* The contents of a stream, counted.                                       *)

Finals(s) == {i \in 1 .. Len(s) : Final(s[i])}

\* Contents counts the pieces that complete a reply.
LEMMA ContentsIs ==
  ASSUME NEW s \in Seq(Piece)
  PROVE  /\ Contents(s) = Cardinality(Finals(s)) /\ IsFiniteSet(Finals(s))
         /\ Contents(s) \in Nat
<1>1. Contents(s) = Cardinality(Finals(s))
  BY DEF Contents, Finals, Final
<1>2. Len(s) \in Int /\ 1 \in Int
  OBVIOUS
<1>3. IsFiniteSet(1 .. Len(s))
  BY <1>2, FS_Interval, Zenon
<1>4. Finals(s) \in SUBSET (1 .. Len(s))
  BY DEF Finals
<1>5. IsFiniteSet(Finals(s))
  BY <1>3, <1>4, FS_Subset, Zenon
<1> QED
  BY <1>1, <1>5, FS_CardinalityType, Zenon

\* The contents of two streams in a row are those of each.
LEMMA ContentsJoin ==
  ASSUME NEW s \in Seq(Piece), NEW t \in Seq(Piece)
  PROVE  Contents(s \o t) = Contents(s) + Contents(t)
<1> DEFINE u == s \o t
           n == Len(s)
           f == [i \in Finals(t) |-> i + n]
           M == {f[i] : i \in Finals(t)}
<1>1. /\ u \in Seq(Piece) /\ n \in Nat /\ Len(t) \in Nat /\ Len(u) = n + Len(t)
      /\ \A i \in 1 .. n + Len(t) : u[i] = IF i <= n THEN s[i] ELSE t[i - n]
  BY ConcatProperties
<1> HIDE DEF u, n
<1>2. \A i \in Finals(t) : i \in 1 .. Len(t) /\ Final(t[i]) /\ f[i] = i + n
  BY DEF Finals
<1>3. M = {i \in n + 1 .. n + Len(t) : Final(t[i - n])}
  <2>1. ASSUME NEW i \in n + 1 .. n + Len(t), Final(t[i - n]) PROVE i \in M
    <3>1. i - n \in Finals(t) /\ (i - n) + n = i
      BY <1>1, <2>1 DEF Finals
    <3> QED
      BY <1>2, <3>1
  <2>2. ASSUME NEW i \in M PROVE i \in n + 1 .. n + Len(t) /\ Final(t[i - n])
    <3>1. PICK j \in Finals(t) : i = j + n /\ j \in 1 .. Len(t) /\ Final(t[j])
      BY <1>2
    <3>2. i - n = j
      BY <1>1, <3>1
    <3> QED
      BY <1>1, <3>1, <3>2
  <2> HIDE DEF M
  <2> QED
    BY <2>1, <2>2
<1>4. f \in Bijection(Finals(t), M)
  <2>1. \A i, j \in Finals(t) : f[i] = f[j] => i = j
    BY <1>1, <1>2
  <2>2. f \in [Finals(t) -> M]
    OBVIOUS
  <2>3. \A m \in M : \E i \in Finals(t) : f[i] = m
    OBVIOUS
  <2> HIDE DEF f, M
  <2> QED
    BY <2>1, <2>2, <2>3, Zenon DEF Bijection, Injection, Surjection, IsInjective
<1> HIDE DEF f, M
<1>5. /\ Contents(s) = Cardinality(Finals(s)) /\ IsFiniteSet(Finals(s))
      /\ Contents(t) = Cardinality(Finals(t)) /\ IsFiniteSet(Finals(t))
      /\ Contents(u) = Cardinality(Finals(u))
      /\ Contents(s) \in Nat /\ Contents(t) \in Nat
  BY <1>1, ContentsIs
<1>6. IsFiniteSet(M) /\ Cardinality(M) = Cardinality(Finals(t))
  BY <1>4, <1>5, FS_Bijection, Zenon DEF ExistsBijection
<1>7. Finals(s) = {i \in 1 .. n : Final(s[i])}
  BY DEF Finals, n
<1>8. Finals(u) = {i \in 1 .. n + Len(t) : Final(IF i <= n THEN s[i] ELSE t[i - n])}
  BY <1>1 DEF Finals
<1>9. Finals(u) = Finals(s) \cup M
  BY <1>1, <1>3, <1>7, <1>8
<1>10. Finals(s) \cap M = {}
  BY <1>1, <1>3, <1>7
<1>11. Cardinality(Finals(s) \cup M)
         = Cardinality(Finals(s)) + Cardinality(M) - Cardinality(Finals(s) \cap M)
  BY <1>5, <1>6, FS_Union, Zenon
<1>12. Cardinality(Finals(s) \cap M) = 0
  BY <1>10, FS_EmptySet, Zenon
<1> QED
  BY <1>5, <1>6, <1>9, <1>11, <1>12 DEF u

\* A stream without contents that is empty or ends a reply is empty.
LEMMA ContentsOfNone ==
  /\ Contents(<<>>) = 0
  /\ \A s \in Seq(Piece) : Contents(s) = 0 => s = <<>> \/ ~Final(s[Len(s)])
<1>1. Contents(<<>>) = 0
  <2>1. Finals(<<>>) = {} /\ <<>> \in Seq(Piece)
    BY EmptySeq DEF Finals
  <2> QED
    BY <2>1, ContentsIs, FS_EmptySet, Zenon
<1>2. ASSUME NEW s \in Seq(Piece), Contents(s) = 0, s # <<>>, Final(s[Len(s)]) PROVE FALSE
  <2>1. Finals(s) = {}
    BY <1>2, ContentsIs, FS_EmptySet, Zenon
  <2>2. Len(s) \in 1 .. Len(s)
    BY <1>2, EmptySeq
  <2> QED
    BY <1>2, <2>1, <2>2 DEF Finals
<1> QED
  BY <1>1, <1>2, Zenon

\* Two pieces that make a part have a content when it is one.
LEMMA ContentsOfPart ==
  ASSUME NEW p \in {"pre", "hdr", "cnt"}, NEW n \in Nat
  PROVE  Contents(Part(p, n)) = IF p = "cnt" THEN 1 ELSE 0
<1> DEFINE x == [part |-> p, id |-> n, half |-> 1]
           y == [part |-> p, id |-> n, half |-> 2]
<1>1. ~Final(x) /\ (Final(y) <=> p = "cnt") /\ x \in Piece /\ y \in Piece
  BY DEF Final, Piece
<1>2. Part(p, n) = <<x, y>>
  BY DEF Part
<1> HIDE DEF x, y
<1>3. <<x, y>> \in Seq(Piece) /\ Len(<<x, y>>) = 2 /\ <<x, y>>[1] = x /\ <<x, y>>[2] = y
  BY <1>1
<1>4. \A i \in 1 .. 2 : i = 1 \/ i = 2
  OBVIOUS
<1>5. CASE p = "cnt"
  <2>1. Finals(<<x, y>>) = {2}
    BY <1>1, <1>3, <1>4, <1>5 DEF Finals
  <2>2. Cardinality({2}) = 1
    BY FS_Singleton, Zenon
  <2> QED
    BY <1>2, <1>3, <1>5, <2>1, <2>2, ContentsIs
<1>6. CASE p # "cnt"
  <2>1. Finals(<<x, y>>) = {}
    BY <1>1, <1>3, <1>4, <1>6 DEF Finals
  <2>2. Cardinality({}) = 0
    BY FS_EmptySet, Zenon
  <2> QED
    BY <1>2, <1>3, <1>6, <2>1, <2>2, ContentsIs
<1> QED
  BY <1>5, <1>6

\* The server answers a request with one content.
LEMMA ContentsOfReply ==
  ASSUME NEW n \in Nat
  PROVE  Contents(Reply(n)) = 1
<1> DEFINE x == Part("pre", n)
           y == Part("hdr", n)
           z == Part("cnt", n)
<1>1. /\ x \in Seq(Piece) /\ y \in Seq(Piece) /\ z \in Seq(Piece)
      /\ Contents(x) = 0 /\ Contents(y) = 0 /\ Contents(z) = 1
  BY PartPieces, ContentsOfPart
<1>2. Reply(n) = (x \o y) \o z
  BY DEF Reply
<1> HIDE DEF x, y, z
<1>3. x \o y \in Seq(Piece) /\ Contents(x \o y) = 0
  <2>1. Contents(x \o y) = Contents(x) + Contents(y)
    BY <1>1, ContentsJoin
  <2> QED
    BY <1>1, <2>1, ConcatProperties
<1>4. Contents((x \o y) \o z) = 1
  <2>1. Contents((x \o y) \o z) = Contents(x \o y) + Contents(z)
    BY <1>1, <1>3, ContentsJoin
  <2> QED
    BY <1>1, <1>3, <2>1
<1> QED
  BY <1>2, <1>4

-----------------------------------------------------------------------------
(* The place of the stream in the receive state machine.                    *)

\* An empty stream is in step when a reply is due from its beginning.
LEMMA EmptyInStep ==
  InStep("pre", <<>>)
<1>1. Len(<<>>) = 0 /\ \A i \in 1 .. 0 - 1 : FALSE
  OBVIOUS
<1> QED
  BY <1>1 DEF InStep

\* Two streams in step, one after the other.
LEMMA InStepJoin ==
  ASSUME NEW s \in Seq(Piece), NEW t \in Seq(Piece), NEW p,
         InStep(p, s), InStep("pre", t)
  PROVE  InStep(p, s \o t)
<1>1. CASE s = <<>>
  <2>1. s \o t = t /\ p = "pre"
    BY <1>1, ConcatEmptySeq, Zenon DEF InStep
  <2> QED
    BY <2>1
<1>2. CASE t = <<>>
  <2>1. s \o t = s
    BY <1>2, ConcatEmptySeq, Zenon
  <2> QED
    BY <2>1
<1>3. CASE s # <<>> /\ t # <<>>
  <2> DEFINE u == s \o t
  <2>1. /\ Len(u) = Len(s) + Len(t)
        /\ \A i \in 1 .. Len(s) + Len(t) : u[i] = IF i <= Len(s) THEN s[i] ELSE t[i - Len(s)]
    BY ConcatProperties
  <2>2. Len(s) \in Nat /\ Len(t) \in Nat /\ Len(s) > 0 /\ Len(t) > 0
    BY <1>3, EmptySeq
  <2> HIDE DEF u
  <2>3. u[1] = s[1] /\ u[Len(u)] = t[Len(t)] /\ u[Len(s)] = s[Len(s)] /\ u[Len(s) + 1] = t[1]
    BY <2>1, <2>2
  <2>4. /\ s[1].half = 1 /\ s[1].part = p /\ Final(s[Len(s)])
        /\ t[1].half = 1 /\ t[1].part = "pre" /\ Final(t[Len(t)])
        /\ \A i \in 1 .. Len(s) - 1 : Follows(s[i], s[i + 1])
        /\ \A i \in 1 .. Len(t) - 1 : Follows(t[i], t[i + 1])
    BY <1>3 DEF InStep
  <2>5. ASSUME NEW i \in 1 .. Len(u) - 1 PROVE Follows(u[i], u[i + 1])
    <3>1. CASE i < Len(s)
      <4>1. u[i] = s[i] /\ u[i + 1] = s[i + 1] /\ i \in 1 .. Len(s) - 1
        BY <2>1, <2>2, <3>1
      <4> QED
        BY <2>4, <4>1
    <3>2. CASE i = Len(s)
      <4>1. Follows(s[Len(s)], t[1])
        BY <2>4 DEF Follows, Final, After
      <4> QED
        BY <2>3, <3>2, <4>1
    <3>3. CASE i > Len(s)
      <4>1. /\ i - Len(s) \in 1 .. Len(t) - 1 /\ u[i] = t[i - Len(s)]
            /\ u[i + 1] = t[(i - Len(s)) + 1]
        <5>1. (i + 1) - Len(s) = (i - Len(s)) + 1 /\ ~(i <= Len(s)) /\ ~(i + 1 <= Len(s))
          BY <2>2, <3>3
        <5>2. /\ i \in 1 .. Len(s) + Len(t) /\ i + 1 \in 1 .. Len(s) + Len(t)
              /\ i - Len(s) \in 1 .. Len(t) - 1
          BY <2>1, <2>2, <3>3
        <5> QED
          BY <2>1, <5>1, <5>2
      <4> QED
        BY <2>4, <4>1, Zenon
    <3> QED
      BY <2>2, <3>1, <3>2, <3>3
  <2>6. u # <<>>
    BY <2>1, <2>2, EmptySeq
  <2> QED
    BY <2>3, <2>4, <2>5, <2>6, Zenon DEF InStep, u
<1> QED
  BY <1>1, <1>2, <1>3

\* A reply is in step from its beginning.
LEMMA ReplyInStep ==
  ASSUME NEW n \in Nat
  PROVE  InStep("pre", Reply(n))
<1> DEFINE P(p, h) == [part |-> p, id |-> n, half |-> h]
           r == Reply(n)
<1>1. /\ Part("pre", n) = <<P("pre", 1), P("pre", 2)>>
      /\ Part("hdr", n) = <<P("hdr", 1), P("hdr", 2)>>
      /\ Part("cnt", n) = <<P("cnt", 1), P("cnt", 2)>>
  BY DEF Part
<1>2. /\ r[1] = P("pre", 1) /\ r[2] = P("pre", 2) /\ r[3] = P("hdr", 1)
      /\ r[4] = P("hdr", 2) /\ r[5] = P("cnt", 1) /\ r[6] = P("cnt", 2) /\ Len(r) = 6
  <2> DEFINE x == Part("pre", n)
             y == Part("hdr", n)
             z == Part("cnt", n)
  <2>1. /\ x \in Seq(Piece) /\ Len(x) = 2 /\ x[1] = P("pre", 1) /\ x[2] = P("pre", 2)
        /\ y \in Seq(Piece) /\ Len(y) = 2 /\ y[1] = P("hdr", 1) /\ y[2] = P("hdr", 2)
        /\ z \in Seq(Piece) /\ Len(z) = 2 /\ z[1] = P("cnt", 1) /\ z[2] = P("cnt", 2)
    BY <1>1, PartPieces
  <2>2. r = (x \o y) \o z
    BY DEF Reply
  <2> HIDE DEF P, r, x, y, z
  <2> DEFINE u == x \o y
  <2>3. /\ u \in Seq(Piece) /\ Len(u) = 4
        /\ \A i \in 1 .. 4 : u[i] = IF i <= 2 THEN x[i] ELSE y[i - 2]
    <3>1. Len(x) + Len(y) = 4
      BY <2>1
    <3>2. /\ u \in Seq(Piece) /\ Len(u) = Len(x) + Len(y)
          /\ \A i \in 1 .. Len(x) + Len(y) : u[i] = IF i <= Len(x) THEN x[i] ELSE y[i - Len(x)]
      BY <2>1, ConcatProperties, Zenon
    <3> HIDE DEF u
    <3> QED
      BY <2>1, <3>1, <3>2
  <2>4. u[1] = x[1] /\ u[2] = x[2] /\ u[3] = y[1] /\ u[4] = y[2]
    <3> HIDE DEF u
    <3> QED
      BY <2>3
  <2>5. r = u \o z
    BY <2>2
  <2> HIDE DEF u
  <2>6. /\ Len(r) = 6 /\ \A i \in 1 .. 6 : r[i] = IF i <= 4 THEN u[i] ELSE z[i - 4]
    <3>1. Len(u) + Len(z) = 6
      BY <2>1, <2>3
    <3>2. /\ Len(r) = Len(u) + Len(z)
          /\ \A i \in 1 .. Len(u) + Len(z) : r[i] = IF i <= Len(u) THEN u[i] ELSE z[i - Len(u)]
      BY <2>1, <2>3, <2>5, ConcatProperties, Zenon
    <3> QED
      BY <2>3, <3>1, <3>2
  <2>7. r[1] = u[1] /\ r[2] = u[2] /\ r[3] = u[3] /\ r[4] = u[4] /\ r[5] = z[1] /\ r[6] = z[2]
    BY <2>6
  <2> QED
    BY <2>1, <2>4, <2>6, <2>7
<1>3. /\ Follows(P("pre", 1), P("pre", 2)) /\ Follows(P("pre", 2), P("hdr", 1))
      /\ Follows(P("hdr", 1), P("hdr", 2)) /\ Follows(P("hdr", 2), P("cnt", 1))
      /\ Follows(P("cnt", 1), P("cnt", 2))
      /\ P("pre", 1).half = 1 /\ P("pre", 1).part = "pre" /\ Final(P("cnt", 2))
  BY DEF Follows, After, Final
<1> HIDE DEF P, r
<1>4. ASSUME NEW i \in 1 .. Len(r) - 1 PROVE Follows(r[i], r[i + 1])
  <2>1. i = 1 \/ i = 2 \/ i = 3 \/ i = 4 \/ i = 5
    BY <1>2
  <2> QED
    BY <1>2, <1>3, <2>1
<1>5. r # <<>>
  BY <1>2, EmptySeq
<1> QED
  BY <1>2, <1>3, <1>4, <1>5 DEF InStep, r

\* The first two pieces of a stream in step are the part that is due, and what is
\* left is in step with the next.
LEMMA PartTaken ==
  ASSUME NEW s \in Seq(Piece), NEW d \in Seq(Piece), NEW p \in {"pre", "hdr", "cnt"},
         InStep(p, s), Len(s) >= 2, Len(d) = Len(s) - 2,
         \A i \in 1 .. Len(d) : d[i] = s[i + 2]
  PROVE  /\ s[1] = [part |-> p, id |-> s[1].id, half |-> 1]
         /\ s[2] = [part |-> p, id |-> s[1].id, half |-> 2] /\ s[1].id \in Nat
         /\ InStep(After(p), d)
<1>1. /\ Len(s) \in Nat /\ Len(d) \in Nat /\ 1 \in 1 .. Len(s) /\ 2 \in 1 .. Len(s)
      /\ s # <<>>
  BY EmptySeq
<1>2. /\ s[1].half = 1 /\ s[1].part = p /\ Final(s[Len(s)])
      /\ \A i \in 1 .. Len(s) - 1 : Follows(s[i], s[i + 1])
  BY <1>1 DEF InStep
<1>3. s[1] \in Piece /\ s[2] \in Piece
  BY <1>1
<1>4. s[1] = [part |-> p, id |-> s[1].id, half |-> 1] /\ s[1].id \in Nat
  BY <1>2, <1>3 DEF Piece
<1>5. Follows(s[1], s[2])
  <2>1. 1 \in 1 .. Len(s) - 1 /\ 1 + 1 = 2
    BY <1>1
  <2> QED
    BY <1>2, <2>1
<1>6. s[2] = [part |-> p, id |-> s[1].id, half |-> 2]
  <2>1. s[2] = [s[1] EXCEPT !.half = 2]
    BY <1>2, <1>5 DEF Follows
  <2> QED
    BY <1>4, <2>1
<1>7. InStep(After(p), d)
  <2>1. CASE d = <<>>
    <3>1. Len(s) = 2
      BY <1>1, <2>1, EmptySeq
    <3>2. p = "cnt"
      BY <1>2, <1>6, <3>1 DEF Final
    <3>3. After(p) = "pre"
      BY <3>2 DEF After
    <3> QED
      BY <2>1, <3>3, EmptyInStep
  <2>2. CASE d # <<>>
    <3>1. Len(d) > 0
      BY <1>1, <2>2, EmptySeq
    <3>2. /\ d[1] = s[3] /\ d[Len(d)] = s[Len(s)] /\ 2 \in 1 .. Len(s) - 1 /\ 2 + 1 = 3
      <4>1. 1 \in 1 .. Len(d) /\ Len(d) \in 1 .. Len(d) /\ 1 + 2 = 3 /\ Len(d) + 2 = Len(s)
        BY <1>1, <3>1
      <4> QED
        BY <4>1
    <3>3. Follows(s[2], s[3])
      BY <1>2, <3>2
    <3>4. d[1].half = 1 /\ d[1].part = After(p)
      BY <1>6, <3>2, <3>3 DEF Follows
    <3>5. ASSUME NEW i \in 1 .. Len(d) - 1 PROVE Follows(d[i], d[i + 1])
      <4>1. i \in 1 .. Len(d) /\ i + 1 \in 1 .. Len(d) /\ i + 2 \in 1 .. Len(s) - 1
            /\ (i + 1) + 2 = (i + 2) + 1
        BY <1>1
      <4>2. d[i] = s[i + 2] /\ d[i + 1] = s[(i + 2) + 1]
        BY <4>1
      <4> QED
        BY <1>2, <4>1, <4>2
    <3> QED
      BY <1>2, <2>2, <3>2, <3>4, <3>5 DEF InStep
  <2> QED
    BY <2>1, <2>2
<1> QED
  BY <1>4, <1>6, <1>7

\* The part that is due is taken from the buffer b; w is on the wire.
LEMMA DueTaken ==
  ASSUME NEW b \in Seq(Piece), NEW w \in Seq(Piece), NEW p \in {"pre", "hdr", "cnt"},
         InStep(p, b \o w), Len(b) >= 2
  PROVE  /\ IsPart(b, p) /\ Dropped(b) \in Seq(Piece) /\ InStep(After(p), Dropped(b) \o w)
         /\ Contents(b) = (IF p = "cnt" THEN 1 ELSE 0) + Contents(Dropped(b))
<1> DEFINE s == b \o w
           d == Dropped(b) \o w
<1>1. /\ Dropped(b) \in Seq(Piece) /\ Len(Dropped(b)) = Len(b) - 2
      /\ \A i \in 1 .. Len(b) - 2 : Dropped(b)[i] = b[i + 2]
  BY DroppedPart
<1>2. /\ s \in Seq(Piece) /\ Len(s) = Len(b) + Len(w)
      /\ \A i \in 1 .. Len(b) + Len(w) : s[i] = IF i <= Len(b) THEN b[i] ELSE w[i - Len(b)]
  BY ConcatProperties
<1>3. /\ d \in Seq(Piece) /\ Len(d) = Len(Dropped(b)) + Len(w)
      /\ \A i \in 1 .. Len(Dropped(b)) + Len(w) :
           d[i] = IF i <= Len(Dropped(b)) THEN Dropped(b)[i] ELSE w[i - Len(Dropped(b))]
  BY <1>1, ConcatProperties
<1>4. Len(b) \in Nat /\ Len(w) \in Nat /\ InStep(p, s)
  OBVIOUS
<1> HIDE DEF s, d
<1>5. Len(s) >= 2 /\ Len(d) = Len(s) - 2 /\ s[1] = b[1] /\ s[2] = b[2]
  BY <1>1, <1>2, <1>3, <1>4
<1>6. ASSUME NEW i \in 1 .. Len(d) PROVE d[i] = s[i + 2]
  <2>1. Len(d) = (Len(b) - 2) + Len(w)
    BY <1>1, <1>3
  <2>2. CASE i <= Len(b) - 2
    <3>1. d[i] = b[i + 2]
      BY <1>1, <1>3, <2>1, <2>2
    <3>2. s[i + 2] = b[i + 2]
      BY <1>2, <1>4, <2>1, <2>2
    <3> QED
      BY <3>1, <3>2
  <2>3. CASE ~(i <= Len(b) - 2)
    <3>1. d[i] = w[i - (Len(b) - 2)]
      BY <1>1, <1>3, <2>1, <2>3
    <3>2. s[i + 2] = w[(i + 2) - Len(b)]
      BY <1>2, <1>4, <2>1, <2>3
    <3>3. i - (Len(b) - 2) = (i + 2) - Len(b)
      BY <1>4
    <3> QED
      BY <3>1, <3>2, <3>3
  <2> QED
    BY <2>2, <2>3
<1>7. /\ s[1] = [part |-> p, id |-> s[1].id, half |-> 1]
      /\ s[2] = [part |-> p, id |-> s[1].id, half |-> 2] /\ s[1].id \in Nat
      /\ InStep(After(p), d)
  BY <1>2, <1>3, <1>4, <1>5, <1>6, PartTaken, Zenon
<1> DEFINE h == SubSeq(b, 1, 2)
<1>8. h = Part(p, b[1].id) /\ h \in Seq(Piece)
  <2>1. 1 \in 1 .. Len(b) + 1 /\ 2 \in 0 .. Len(b) /\ 1 <= 2 + 1
    BY <1>4
  <2>2. /\ h \in Seq(Piece) /\ Len(h) = 2 - 1 + 1
        /\ \A i \in 1 .. 2 - 1 + 1 : h[i] = b[1 + i - 1]
    BY <2>1, SomeParts
  <2> HIDE DEF h
  <2>3. Len(h) = 2 /\ h[1] = b[1] /\ h[2] = b[2]
    BY <2>2
  <2>4. h = <<h[1], h[2]>>
    BY <2>2, <2>3
  <2>5. h = <<b[1], b[2]>>
    BY <2>3, <2>4
  <2> QED
    BY <1>5, <1>7, <2>2, <2>5, Zenon DEF Part
<1>9. b = h \o Dropped(b)
  <2>1. 1 \in 1 .. Len(b) + 1 /\ 2 \in 1 - 1 .. Len(b) /\ Len(b) \in 2 .. Len(b) /\ 2 + 1 = 3
    BY <1>4
  <2>2. SubSeq(b, 1, 2) \o SubSeq(b, 2 + 1, Len(b)) = SubSeq(b, 1, Len(b))
    BY <2>1, ConcatAdjacentSubSeq, Zenon
  <2>3. SubSeq(b, 1, Len(b)) = b
    BY SubSeqFull, Zenon
  <2> QED
    BY <2>1, <2>2, <2>3 DEF Dropped
<1>10. Contents(h) = IF p = "cnt" THEN 1 ELSE 0
  BY <1>5, <1>7, <1>8, ContentsOfPart
<1>11. IsPart(b, p)
  BY <1>8 DEF IsPart
<1> HIDE DEF h
<1>12. Contents(h \o Dropped(b)) = Contents(h) + Contents(Dropped(b))
  BY <1>1, <1>8, ContentsJoin
<1> QED
  BY <1>1, <1>7, <1>9, <1>10, <1>11, <1>12 DEF d

-----------------------------------------------------------------------------
(* The receive state machine takes the parts that are due.                  *)

\* r is what a scan has made of a buffer with n contents, w is on the wire.
Tracks(r, w, n) ==
  /\ r \in Scanning
  /\ r.st # "ERROR" => InStep(Due(r.st), r.buf \o w)
  /\ n = (IF r.st = "RX_DONE" THEN 1 ELSE 0) + Contents(r.buf)

\* A pre-header, a header and a content that are taken leave the stream in step.
LEMMA PreHeaderTracks ==
  ASSUME NEW w \in Seq(Piece), NEW n, NEW r, Tracks(r, w, n), r.st # "RX_DONE"
  PROVE  Tracks(read_pre_header(r), w, n) /\ read_pre_header(r).st # "RX_DONE"
<1> DEFINE q == [r EXCEPT !.st = "RX_PRE_HDR", !.buf = Dropped(@), !.len = IsPart(r.buf, "pre")]
<1>1. CASE r.st # "RX_INIT" \/ Len(r.buf) < 2
  BY <1>1 DEF read_pre_header
<1>2. CASE ~(r.st # "RX_INIT" \/ Len(r.buf) < 2)
  <2>1. r.buf \in Seq(Piece) /\ Len(r.buf) >= 2 /\ r \in Scanning
    BY <1>2 DEF Tracks, Scanning
  <2>2. InStep("pre", r.buf \o w) /\ n = 0 + Contents(r.buf)
    BY <1>2 DEF Tracks, Due
  <2>3. /\ Dropped(r.buf) \in Seq(Piece) /\ InStep("hdr", Dropped(r.buf) \o w)
        /\ Contents(r.buf) = 0 + Contents(Dropped(r.buf))
    <3>1. "pre" \in {"pre", "hdr", "cnt"} /\ "pre" # "cnt" /\ After("pre") = "hdr"
      BY DEF After
    <3> QED
      BY <2>1, <2>2, <3>1, DueTaken
  <2>4. IsPart(r.buf, "pre") \in BOOLEAN
    BY DEF IsPart
  <2>5. q \in Scanning /\ q.st = "RX_PRE_HDR" /\ q.buf = Dropped(r.buf)
    BY <2>1, <2>3, <2>4 DEF Scanning
  <2>6. read_pre_header(r) = q
    BY <1>2 DEF read_pre_header
  <2> HIDE DEF q
  <2>7. Contents(Dropped(r.buf)) \in Nat
    BY <2>3, ContentsIs
  <2>8. n = 0 + Contents(q.buf) /\ Due(q.st) = "hdr" /\ q.st # "RX_DONE"
    BY <2>2, <2>3, <2>5, <2>7 DEF Due
  <2> QED
    BY <2>3, <2>5, <2>6, <2>8 DEF Tracks
<1> QED
  BY <1>1, <1>2

LEMMA HeaderTracks ==
  ASSUME NEW w \in Seq(Piece), NEW n, NEW r, Tracks(r, w, n), r.st # "RX_DONE"
  PROVE  Tracks(read_header(r), w, n) /\ read_header(r).st # "RX_DONE"
<1> DEFINE h == [r EXCEPT !.st = "RX_HDR", !.buf = Dropped(@)]
<1>1. ASSUME NEW q, Tracks(q, w, n), q.st # "RX_DONE"
      PROVE  Tracks(Raises(q), w, n) /\ Raises(q).st # "RX_DONE"
  <2>1. /\ Raises(q) \in Scanning /\ Raises(q).st = q.st /\ Raises(q).buf = q.buf
    BY <1>1 DEF Tracks, Raises, Scanning
  <2> QED
    BY <1>1, <2>1, Zenon DEF Tracks
<1>2. CASE r.st # "RX_PRE_HDR" \/ Len(r.buf) < 2 \/ ~r.len
  BY <1>2 DEF read_header
<1>3. CASE ~(r.st # "RX_PRE_HDR" \/ Len(r.buf) < 2 \/ ~r.len)
  <2>1. r.buf \in Seq(Piece) /\ Len(r.buf) >= 2 /\ r \in Scanning
    BY <1>3 DEF Tracks, Scanning
  <2>2. InStep("hdr", r.buf \o w) /\ n = 0 + Contents(r.buf)
    BY <1>3 DEF Tracks, Due
  <2>3. /\ Dropped(r.buf) \in Seq(Piece) /\ InStep("cnt", Dropped(r.buf) \o w)
        /\ Contents(r.buf) = 0 + Contents(Dropped(r.buf))
    <3>1. "hdr" \in {"pre", "hdr", "cnt"} /\ "hdr" # "cnt" /\ After("hdr") = "cnt"
      BY DEF After
    <3> QED
      BY <2>1, <2>2, <3>1, DueTaken
  <2>4. h \in Scanning /\ h.st = "RX_HDR" /\ h.buf = Dropped(r.buf)
    BY <2>1, <2>3 DEF Scanning
  <2>5. read_header(r) \in {Raises(r), h, Raises(h)}
    BY <1>3 DEF read_header
  <2> HIDE DEF h
  <2>6. Contents(Dropped(r.buf)) \in Nat
    BY <2>3, ContentsIs
  <2>7. n = 0 + Contents(h.buf) /\ Due(h.st) = "cnt" /\ h.st # "RX_DONE"
    BY <2>2, <2>3, <2>4, <2>6 DEF Due
  <2>8. Tracks(h, w, n) /\ h.st # "RX_DONE"
    BY <2>3, <2>4, <2>7 DEF Tracks
  <2> QED
    BY <1>1, <2>5, <2>8
<1> QED
  BY <1>2, <1>3

LEMMA ContentTracks ==
  ASSUME NEW w \in Seq(Piece), NEW n, NEW r, Tracks(r, w, n), r.st # "RX_DONE"
  PROVE  Tracks(read_content(r), w, n)
<1> DEFINE c == [r EXCEPT !.buf = Dropped(@)]
           d == [c EXCEPT !.st = "RX_DONE", !.answer = r.buf[1].id]
<1>1. CASE r.st # "RX_HDR" \/ r.raised \/ Len(r.buf) < 2
  BY <1>1 DEF read_content
<1>2. CASE ~(r.st # "RX_HDR" \/ r.raised \/ Len(r.buf) < 2)
  <2>1. r.buf \in Seq(Piece) /\ Len(r.buf) >= 2 /\ r \in Scanning
    BY <1>2 DEF Tracks, Scanning
  <2>2. InStep("cnt", r.buf \o w) /\ n = 0 + Contents(r.buf)
    BY <1>2 DEF Tracks, Due
  <2>3. /\ IsPart(r.buf, "cnt") /\ Dropped(r.buf) \in Seq(Piece)
        /\ InStep("pre", Dropped(r.buf) \o w)
        /\ Contents(r.buf) = 1 + Contents(Dropped(r.buf))
    <3>1. "cnt" \in {"pre", "hdr", "cnt"} /\ After("cnt") = "pre"
      BY DEF After
    <3> QED
      BY <2>1, <2>2, <3>1, DueTaken
  <2>4. r.buf[1].id \in Nat
    BY <2>1, <2>3, ContentEnds
  <2>5. c \in Scanning /\ c.buf = Dropped(r.buf)
    BY <2>1, <2>3 DEF Scanning
  <2>6. read_content(r) = d
    BY <1>2, <2>3 DEF read_content
  <2> HIDE DEF c
  <2>7. d \in Scanning /\ d.st = "RX_DONE" /\ d.buf = Dropped(r.buf)
    BY <2>4, <2>5 DEF Scanning
  <2> HIDE DEF d
  <2>8. Contents(Dropped(r.buf)) \in Nat
    BY <2>3, ContentsIs
  <2>9. n = 1 + Contents(d.buf) /\ Due(d.st) = "pre"
    BY <2>2, <2>3, <2>7, <2>8 DEF Due
  <2> QED
    BY <2>3, <2>6, <2>7, <2>9 DEF Tracks
<1> QED
  BY <1>1, <1>2

\* A pass of the loop of read over buffer b, with w on the wire: the count goes down
\* with the contents of the buffer.
LEMMA ScanCounts ==
  ASSUME TypeOK, NEW b \in Seq(Piece), NEW w \in Seq(Piece), Scan(b),
         rx_state # "ERROR" => InStep(Due(rx_state), b \o w)
  PROVE  /\ rx_expected' + Contents(b) = rx_expected + Contents(rx_buffer')
         /\ rx_state' # "ERROR" => InStep(Due(rx_state'), rx_buffer' \o w)
<1> DEFINE r == [st |-> rx_state, len |-> rx_header_len, buf |-> b, answer |-> 0,
                 raised |-> FALSE]
           n == Contents(b)
           z == Scanned(b)
<1>1. /\ rx_header_len \in BOOLEAN /\ rx_expected \in Nat
      /\ rx_state \in {"RX_INIT", "RX_PRE_HDR", "RX_HDR", "ERROR"}
  BY Types
<1>2. n \in Nat
  BY ContentsIs
<1>3. r \in Scanning /\ r.st = rx_state /\ r.buf = b
  BY <1>1 DEF Scanning
<1>4. z = read_content(read_header(read_pre_header(r)))
  BY DEF Scanned
<1>5. /\ rx_buffer' = z.buf
      /\ IF z.st = "RX_DONE" THEN rx_expected' = rx_expected - 1 /\ rx_state' = "RX_INIT"
                             ELSE rx_expected' = rx_expected /\ rx_state' = z.st
  BY DEF Scan
<1> HIDE DEF r, z
<1>6. Tracks(r, w, n) /\ r.st # "RX_DONE"
  <2>1. n = 0 + Contents(b) /\ r.st # "RX_DONE"
    BY <1>1, <1>2, <1>3
  <2> QED
    BY <1>3, <2>1 DEF Tracks
<1> HIDE DEF n
<1>7. Tracks(read_pre_header(r), w, n) /\ read_pre_header(r).st # "RX_DONE"
  BY <1>6, PreHeaderTracks
<1>8. /\ Tracks(read_header(read_pre_header(r)), w, n)
      /\ read_header(read_pre_header(r)).st # "RX_DONE"
  BY <1>7, HeaderTracks
<1>9. Tracks(z, w, n)
  BY <1>4, <1>8, ContentTracks
<1>10. z.buf \in Seq(Piece)
  BY <1>9 DEF Tracks, Scanning
<1>11. Contents(z.buf) \in Nat
  BY <1>10, ContentsIs
<1>12. CASE z.st = "RX_DONE"
  <2>1. n = 1 + Contents(z.buf) /\ InStep(Due(z.st), z.buf \o w)
    BY <1>9, <1>12 DEF Tracks
  <2>2. Due(z.st) = Due("RX_INIT")
    BY <1>12 DEF Due
  <2> QED
    BY <1>1, <1>2, <1>5, <1>11, <1>12, <2>1, <2>2 DEF n
<1>13. CASE z.st # "RX_DONE"
  <2>1. n = 0 + Contents(z.buf) /\ (z.st # "ERROR" => InStep(Due(z.st), z.buf \o w))
    BY <1>9, <1>13 DEF Tracks
  <2> QED
    BY <1>1, <1>2, <1>5, <1>11, <1>13, <2>1 DEF n
<1> QED
  BY <1>12, <1>13

-----------------------------------------------------------------------------
(* The count of replies is kept by every step.                              *)

\* Nothing is under way without a connection, and no step changes that.
LEMMA NextLinked ==
  ASSUME TypeOK, Linked, [Next]_vars
  PROVE  Linked'
<1>1. ASSUME UNCHANGED <<connected, asked, wire>> \/ UNCHANGED socketVars PROVE Linked'
  BY <1>1, Zenon DEF Linked, socketVars
<1>2. ASSUME connected' = TRUE PROVE Linked'
  BY <1>2, Zenon DEF Linked
<1>3. ASSUME Disconnected PROVE Linked'
  BY <1>3, Zenon DEF Linked, Disconnected
<1>4. ASSUME NEW q, NEW n, NEW c, Written(q, n, c) PROVE Linked'
  <2>1. connected' = TRUE
    <3>1. CASE connected
      <4>1. connected' = connected /\ connected \in BOOLEAN
        BY <1>4, <3>1, Types DEF Written
      <4> QED
        BY <3>1, <4>1
    <3>2. CASE ~connected
      BY <1>4, <3>2, Zenon DEF Written, connect
    <3> QED
      BY <3>1, <3>2
  <2> QED
    BY <1>2, <2>1
<1>5. ASSUME NEW q, NEW most, WriteRaises(q, most) PROVE Linked'
  <2>1. CASE UNCHANGED socketVars
    BY <1>1, <2>1
  <2>2. CASE IF connected THEN UNCHANGED <<connected, base, up, wire>> ELSE connect
    <3>1. CASE connected
      <4>1. connected' = connected /\ connected \in BOOLEAN
        BY <2>2, <3>1, Types
      <4> QED
        BY <1>2, <3>1, <4>1
    <3>2. CASE ~connected
      BY <1>2, <2>2, <3>2, Zenon DEF connect
    <3> QED
      BY <3>1, <3>2
  <2> QED
    BY <1>5, <2>1, <2>2, Zenon DEF WriteRaises
<1>6. ASSUME NEW q, NEW c, WriteGivesUp(q, c) PROVE Linked'
  BY <1>3, <1>6 DEF WriteGivesUp
<1>7. CASE \E t \in BOOLEAN : send(t)
  BY <1>4, <1>5, <1>6, <1>7 DEF send
<1>8. CASE write_all
  BY <1>4, <1>5, <1>6, <1>8, Zenon DEF write_all
<1>9. CASE write_oldest
  BY <1>4, <1>5, <1>6, <1>9, Zenon DEF write_oldest
<1>10. CASE write_nothing
  BY <1>1, <1>2, <1>10, Zenon DEF write_nothing, connect
<1>11. CASE (\E t \in BOOLEAN : read(t)) \/ ReadRefused \/ ReadFails \/ flush
  <2>1. UNCHANGED <<connected, asked, wire>>
    BY <1>11 DEF read, ReadRefused, ReadFails, flush, socketVars
  <2> QED
    BY <1>1, <2>1
<1>12. CASE ReadStarts
  BY <1>1, <1>2, <1>12, Zenon DEF ReadStarts, connect
<1>13. CASE ReadData
  <2>1. connected' = connected /\ wire # <<>> /\ asked' = asked
    BY <1>13 DEF ReadData
  <2> QED
    BY <2>1, Zenon DEF Linked
<1>14. CASE close
  BY <1>3, <1>14 DEF close
<1>15. CASE ServerAnswers
  <2>1. connected' = connected /\ asked # <<>>
    BY <1>15 DEF ServerAnswers
  <2> QED
    BY <2>1, Zenon DEF Linked
<1>16. CASE ServerCloses
  <2>1. connected' = connected /\ asked' = <<>> /\ wire' = wire
    BY <1>16 DEF ServerCloses
  <2> QED
    BY <2>1, Zenon DEF Linked
<1>17. CASE UNCHANGED vars
  <2>1. UNCHANGED socketVars
    BY <1>17 DEF vars
  <2> QED
    BY <1>1, <2>1
<1> QED
  BY <1>7, <1>8, <1>9, <1>10, <1>11, <1>12, <1>13, <1>14, <1>15, <1>16, <1>17, Zenon DEF Next

\* Steps that move neither replies nor the requests that are queued.
LEMMA UnmovedBalanced ==
  ASSUME Balanced, UNCHANGED <<asked, wire, rx_buffer, rx_state, rx_expected>>,
         tx_msg_len' = Len(tx_buffer')
  PROVE  Balanced'
  BY Zenon DEF Balanced, Contents, InStep, Final, Follows, Due, After

\* n of the queued requests q are written, and as many replies expected.
LEMMA WrittenBalanced ==
  ASSUME TypeOK, Streams, Linked, Balanced, ~lossy',
         NEW q \in Seq(Nat), NEW n \in 1 .. Len(q),
         Written(q, n, n), tx_msg_len' = Len(q) - n, UNCHANGED <<rx_buffer, rx_state>>
  PROVE  Balanced'
<1>1. /\ asked \in Seq(Nat) /\ wire \in Seq(Piece) /\ rx_buffer \in Seq(Piece)
      /\ rx_expected \in Nat
  BY Types DEF Streams
<1>2. /\ SubSeq(q, 1, n) \in Seq(Nat) /\ Len(SubSeq(q, 1, n)) = n
      /\ Len(SubSeq(q, n + 1, Len(q))) = Len(q) - n
  <2>1. 1 \in 1 .. Len(q) + 1 /\ n \in 0 .. Len(q) /\ n + 1 \in 1 .. Len(q) + 1
        /\ Len(q) \in 0 .. Len(q) /\ 1 <= n + 1 /\ n + 1 <= Len(q) + 1
    OBVIOUS
  <2>2. SubSeq(q, 1, n) \in Seq(Nat) /\ Len(SubSeq(q, 1, n)) = n - 1 + 1
    BY <2>1, SomeParts
  <2>3. Len(SubSeq(q, n + 1, Len(q))) = Len(q) - (n + 1) + 1
    BY <2>1, SomeParts
  <2> QED
    BY <2>1, <2>2, <2>3
<1>3. up' /\ asked' = asked \o SubSeq(q, 1, n) /\ rx_expected' = rx_expected + n
      /\ tx_buffer' = SubSeq(q, n + 1, Len(q))
  <2>1. up'
    BY Zenon DEF Written
  <2> QED
    BY <2>1 DEF Written
<1>4. wire' = wire
  <2>1. CASE connected
    BY <2>1 DEF Written
  <2>2. CASE ~connected
    BY <2>2, Zenon DEF Written, connect, Linked
  <2> QED
    BY <2>1, <2>2
<1>5. Len(asked') = Len(asked) + n
  BY <1>1, <1>2, <1>3, ConcatProperties
<1>6. tx_msg_len' = Len(tx_buffer')
  BY <1>2, <1>3
<1>7. rx_expected' = Len(asked') + (Contents(wire') + Contents(rx_buffer'))
  <2>1. rx_expected = Len(asked) + (Contents(wire) + Contents(rx_buffer))
    BY DEF Balanced
  <2>2. Contents(wire) \in Nat /\ Contents(rx_buffer) \in Nat /\ Len(asked) \in Nat
    BY <1>1, ContentsIs
  <2>3. Contents(wire') = Contents(wire) /\ Contents(rx_buffer') = Contents(rx_buffer)
    BY <1>4, Zenon
  <2>4. rx_expected' = rx_expected + n /\ n \in Nat
    BY <1>3
  <2> QED
    BY <1>5, <2>1, <2>2, <2>3, <2>4
<1>8. rx_state' # "ERROR" => InStep(Due(rx_state'), rx_buffer' \o wire')
  BY <1>4, Zenon DEF Balanced
<1> QED
  BY <1>6, <1>7, <1>8, Zenon DEF Balanced

\* A call that writes expects as many replies as it has written requests.
LEMMA CallsCounted ==
  ASSUME TypeOK, Streams, Linked, Counted, ~lossy',
         \/ \E t \in BOOLEAN : send(t)
         \/ write_all \/ write_oldest \/ write_nothing
  PROVE  Balanced'
<1>1. ~lossy
  BY Zenon DEF send, write_all, write_oldest, write_nothing, Written, WriteGivesUp,
               Repeats, Uncounted
<1>2. /\ Balanced /\ tx_msg_len = Len(tx_buffer) /\ tx_buffer \in Seq(Nat) /\ req \in Nat
  BY <1>1, Types DEF Counted, Balanced
<1>3. ASSUME NEW q, NEW c, WriteGivesUp(q, c) PROVE FALSE
  BY <1>3 DEF WriteGivesUp
<1>4. ASSUME NEW q, NEW most, WriteRaises(q, most), asked' = asked,
             tx_msg_len' = Len(q), UNCHANGED <<rx_buffer, rx_state>>
      PROVE  Balanced'
  <2>1. UNCHANGED <<asked, wire, rx_expected>> /\ tx_buffer' = q
    <3>1. wire' = wire
      <4>1. CASE UNCHANGED socketVars
        BY <4>1 DEF socketVars
      <4>2. CASE IF connected THEN UNCHANGED <<connected, base, up, wire>> ELSE connect
        <5>1. CASE connected
          BY <4>2, <5>1
        <5>2. CASE ~connected
          BY <4>2, <5>2, Zenon DEF connect, Linked
        <5> QED
          BY <5>1, <5>2
      <4> QED
        BY <1>4, <4>1, <4>2, Zenon DEF WriteRaises
    <3> QED
      BY <1>4, <3>1 DEF WriteRaises
  <2> QED
    BY <1>2, <1>4, <2>1, UnmovedBalanced
<1>9. Repeats => asked' = asked
  BY DEF Repeats
<1>5. ASSUME NEW t \in BOOLEAN, send(t) PROVE Balanced'
  <2> DEFINE q == Append(tx_buffer, req + 1)
  <2>1. q \in Seq(Nat) /\ Len(q) = tx_msg_len + 1 /\ Len(q) \in 1 .. Len(q)
        /\ Len(q) - Len(q) = 0
    BY <1>2
  <2>2. /\ UNCHANGED <<rx_buffer, rx_state>>
        /\ \/ /\ \/ Written(q, Len(q), tx_msg_len + 1)
                 \/ WriteGivesUp(q, tx_msg_len + 1)
              /\ tx_msg_len' = 0
           \/ WriteRaises(q, Len(q) - 1) /\ Repeats /\ tx_msg_len' = tx_msg_len + 1
    BY <1>5 DEF send
  <2> HIDE DEF q
  <2>3. CASE Written(q, Len(q), tx_msg_len + 1) /\ tx_msg_len' = 0
    <3>1. Written(q, Len(q), Len(q)) /\ tx_msg_len' = Len(q) - Len(q)
      BY <2>1, <2>3, Zenon
    <3> QED
      BY <1>2, <2>1, <2>2, <3>1, WrittenBalanced
  <2>4. CASE WriteRaises(q, Len(q) - 1) /\ Repeats /\ tx_msg_len' = tx_msg_len + 1
    BY <1>4, <1>9, <2>1, <2>2, <2>4
  <2> QED
    BY <1>3, <2>2, <2>3, <2>4, Zenon
<1>6. CASE write_all
  <2>1. /\ UNCHANGED <<rx_buffer, rx_state>> /\ tx_buffer # <<>>
        /\ \/ /\ \/ Written(tx_buffer, Len(tx_buffer), tx_msg_len)
                 \/ WriteGivesUp(tx_buffer, tx_msg_len)
              /\ tx_msg_len' = 0
           \/ /\ WriteRaises(tx_buffer, Len(tx_buffer) - 1) /\ Repeats
              /\ tx_msg_len' = tx_msg_len
    BY <1>6, Zenon DEF write_all
  <2>2. Len(tx_buffer) \in 1 .. Len(tx_buffer) /\ Len(tx_buffer) - Len(tx_buffer) = 0
    BY <1>2, <2>1
  <2>3. CASE Written(tx_buffer, Len(tx_buffer), tx_msg_len) /\ tx_msg_len' = 0
    <3>1. /\ Written(tx_buffer, Len(tx_buffer), Len(tx_buffer))
          /\ tx_msg_len' = Len(tx_buffer) - Len(tx_buffer)
      BY <1>2, <2>2, <2>3, Zenon
    <3> QED
      BY <1>2, <2>1, <2>2, <3>1, WrittenBalanced
  <2>4. CASE /\ WriteRaises(tx_buffer, Len(tx_buffer) - 1) /\ Repeats
             /\ tx_msg_len' = tx_msg_len
    BY <1>2, <1>4, <1>9, <2>1, <2>4
  <2> QED
    BY <1>3, <2>1, <2>3, <2>4, Zenon
<1>7. CASE write_oldest
  <2>1. /\ UNCHANGED <<rx_buffer, rx_state>> /\ tx_buffer # <<>>
        /\ \/ /\ Written(tx_buffer, 1, 1) \/ WriteGivesUp(tx_buffer, 1)
              /\ tx_msg_len' = tx_msg_len - 1
           \/ /\ WriteRaises(tx_buffer, 0)
              /\ Uncounted \/ (~connected' /\ tx_msg_len' = tx_msg_len)
    BY <1>7, Zenon DEF write_oldest
  <2>2. 1 \in 1 .. Len(tx_buffer) /\ tx_msg_len - 1 = Len(tx_buffer) - 1
    BY <1>2, <2>1
  <2>3. CASE Written(tx_buffer, 1, 1) /\ tx_msg_len' = tx_msg_len - 1
    <3>1. tx_msg_len' = Len(tx_buffer) - 1
      BY <2>2, <2>3, Zenon
    <3> QED
      BY <1>2, <2>1, <2>2, <2>3, <3>1, WrittenBalanced
  <2>4. CASE WriteRaises(tx_buffer, 0) /\ ~connected' /\ tx_msg_len' = tx_msg_len
    <3>1. asked' = asked
      <4>1. UNCHANGED socketVars
        BY <2>4, Types, Zenon DEF WriteRaises, connect
      <4> QED
        BY <4>1 DEF socketVars
    <3> QED
      BY <1>2, <1>4, <2>1, <2>4, <3>1
  <2>5. ~Uncounted
    BY Zenon DEF Uncounted
  <2> QED
    BY <1>3, <2>1, <2>3, <2>4, <2>5, Zenon
<1>8. CASE write_nothing
  <2>1. tx_buffer # <<>> /\ tx_msg_len = 0
    BY <1>8 DEF write_nothing
  <2> QED
    BY <1>2, <2>1, EmptySeq
<1> QED
  BY <1>5, <1>6, <1>7, <1>8

\* A read takes a reply off the count when it takes its content off the stream.
LEMMA ReadsCounted ==
  ASSUME TypeOK, Streams, Linked, Counted, ~lossy',
         ReadStarts \/ ReadRefused \/ ReadData \/ ReadFails
  PROVE  Balanced'
<1>1. lossy' = lossy /\ UNCHANGED <<tx_buffer, tx_msg_len>>
  BY DEF ReadStarts, ReadRefused, ReadData, ReadFails, txVars, histVars
<1>2. /\ Balanced /\ tx_msg_len' = Len(tx_buffer')
      /\ rx_expected = Len(asked) + (Contents(wire) + Contents(rx_buffer))
      /\ rx_state # "ERROR" => InStep(Due(rx_state), rx_buffer \o wire)
  BY <1>1 DEF Counted, Balanced
<1>3. /\ asked \in Seq(Nat) /\ wire \in Seq(Piece) /\ rx_buffer \in Seq(Piece)
      /\ rx_expected \in Nat
  BY Types DEF Streams
<1>4. Contents(wire) \in Nat /\ Contents(rx_buffer) \in Nat /\ Len(asked) \in Nat
  BY <1>3, ContentsIs
<1>5. ASSUME NEW b \in Seq(Piece), NEW w \in Seq(Piece), Scan(b), asked' = asked, wire' = w,
             b \o w = rx_buffer \o wire,
             Contents(b) + Contents(w) = Contents(wire) + Contents(rx_buffer)
      PROVE  Balanced'
  <2>1. /\ rx_expected' + Contents(b) = rx_expected + Contents(rx_buffer')
        /\ rx_state' # "ERROR" => InStep(Due(rx_state'), rx_buffer' \o w)
    <3>1. rx_state # "ERROR" => InStep(Due(rx_state), b \o w)
      BY <1>2, <1>5, Zenon
    <3> QED
      BY <1>5, <3>1, ScanCounts
  <2>2. rx_buffer' \in Seq(Piece) /\ rx_expected' \in Nat
    <3>1. pc # "idle"
      BY DEF ReadStarts, ReadRefused, ReadData, ReadFails
    <3>2. rx_buffer' \in Seq(Piece) /\ rx_expected' \in Nat
      BY <1>5, <3>1, ReadingTypes
    <3> QED
      BY <3>2
  <2>3. Contents(rx_buffer') \in Nat /\ Contents(b) \in Nat /\ Contents(w) \in Nat
    BY <1>5, <2>2, ContentsIs
  <2>4. Len(asked') = Len(asked) /\ Contents(wire') = Contents(w)
    BY <1>5, Zenon
  <2>5. rx_expected' = Len(asked') + (Contents(wire') + Contents(rx_buffer'))
    <3>1. /\ Contents(b) + Contents(w) = Contents(wire) + Contents(rx_buffer)
          /\ rx_expected = Len(asked) + (Contents(wire) + Contents(rx_buffer))
          /\ rx_expected' + Contents(b) = rx_expected + Contents(rx_buffer')
      BY <1>2, <1>5, <2>1
    <3>2. rx_expected' = Len(asked) + (Contents(w) + Contents(rx_buffer'))
      <4> DEFINE e == rx_expected'
                 c == Contents(rx_buffer')
                 d == Contents(rx_buffer)
                 f == Contents(b)
                 g == Contents(w)
                 h == Contents(wire)
                 m == Len(asked)
      <4>1. /\ c \in Nat /\ d \in Nat /\ e \in Nat /\ f \in Nat /\ g \in Nat /\ h \in Nat
            /\ m \in Nat
        BY <1>4, <2>2, <2>3
      <4>2. e + f = (m + (h + d)) + c /\ f + g = h + d
        BY <3>1
      <4> HIDE DEF c, d, e, f, g, h, m
      <4>3. e = m + (g + c)
        BY <4>1, <4>2
      <4> QED
        BY <4>3 DEF c, e, g, m
    <3> QED
      BY <2>4, <3>2, Zenon
  <2> QED
    BY <1>2, <1>5, <2>1, <2>5, Zenon DEF Balanced
<1>6. CASE ReadStarts
  <2>1. asked' = asked /\ wire' = wire
    <3>1. CASE connected
      BY <1>6, <3>1 DEF ReadStarts, socketVars
    <3>2. CASE ~connected
      BY <1>6, <3>2, Zenon DEF ReadStarts, connect, Linked
    <3> QED
      BY <3>1, <3>2
  <2>2. CASE rx_buffer = <<>>
    <3>1. UNCHANGED <<rx_buffer, rx_state, rx_expected>>
      BY <1>6, <2>2 DEF ReadStarts
    <3> QED
      BY <1>2, <2>1, <3>1, UnmovedBalanced
  <2>3. CASE rx_buffer # <<>>
    <3>1. Scan(rx_buffer)
      BY <1>6, <2>3 DEF ReadStarts
    <3>2. Contents(rx_buffer) + Contents(wire) = Contents(wire) + Contents(rx_buffer)
      BY <1>4
    <3> QED
      BY <1>3, <1>5, <2>1, <3>1, <3>2
  <2> QED
    BY <2>2, <2>3
<1>7. CASE ReadRefused \/ ReadFails
  <2>1. UNCHANGED <<asked, wire, rx_buffer, rx_state, rx_expected>>
    BY <1>7 DEF ReadRefused, ReadFails, socketVars, rxVars
  <2> QED
    BY <1>2, <2>1, UnmovedBalanced
<1>8. CASE ReadData
  <2>1. PICK k \in 1 .. Len(wire) :
          /\ wire' = SubSeq(wire, k + 1, Len(wire))
          /\ IF trials' = NumTrials
               THEN /\ rx_buffer' = rx_buffer \o SubSeq(wire, 1, k)
                    /\ rx_state' = "ERROR" /\ rx_expected' = rx_expected
               ELSE Scan(rx_buffer \o SubSeq(wire, 1, k))
    BY <1>8 DEF ReadData
  <2>2. asked' = asked
    BY <1>8 DEF ReadData
  <2> DEFINE a == SubSeq(wire, 1, k)
             z == SubSeq(wire, k + 1, Len(wire))
             got == rx_buffer \o a
  <2>3. a \in Seq(Piece) /\ z \in Seq(Piece) /\ wire = a \o z
    <3>1. 1 \in 1 .. Len(wire) + 1 /\ k \in 0 .. Len(wire) /\ k + 1 \in 1 .. Len(wire) + 1
          /\ Len(wire) \in 0 .. Len(wire) /\ 1 <= k + 1 /\ k + 1 <= Len(wire) + 1
          /\ k \in 1 - 1 .. Len(wire) /\ Len(wire) \in k .. Len(wire)
      BY <1>3
    <3>2. a \in Seq(Piece) /\ z \in Seq(Piece)
      BY <1>3, <3>1, SomeParts
    <3>3. a \o z = SubSeq(wire, 1, Len(wire)) /\ SubSeq(wire, 1, Len(wire)) = wire
      BY <1>3, <3>1, ConcatAdjacentSubSeq, SubSeqFull, Zenon
    <3> QED
      BY <3>2, <3>3
  <2>4. wire' = z
    BY <2>1
  <2> HIDE DEF a, z
  <2>5. got \in Seq(Piece)
    BY <1>3, <2>3, ConcatProperties
  <2>6. got \o z = rx_buffer \o wire
    <3>1. (rx_buffer \o a) \o z = rx_buffer \o (a \o z)
      BY <1>3, <2>3, ConcatAssociative
    <3> QED
      BY <2>3, <3>1, Zenon
  <2>7. /\ Contents(got) = Contents(rx_buffer) + Contents(a)
        /\ Contents(wire) = Contents(a) + Contents(z)
    BY <1>3, <2>3, ContentsJoin
  <2>8. Contents(a) \in Nat /\ Contents(z) \in Nat /\ Contents(got) \in Nat
    BY <2>3, <2>5, ContentsIs
  <2>9. CASE trials' = NumTrials
    <3>1. rx_buffer' = got /\ rx_state' = "ERROR" /\ rx_expected' = rx_expected
      BY <2>1, <2>9 DEF a
    <3> HIDE DEF got
    <3>2. Len(asked') = Len(asked) /\ Contents(wire') = Contents(z)
          /\ Contents(rx_buffer') = Contents(got)
      BY <2>2, <2>4, <3>1, Zenon
    <3>3. rx_expected' = Len(asked') + (Contents(wire') + Contents(rx_buffer'))
      BY <1>2, <1>4, <2>7, <2>8, <3>1, <3>2
    <3> QED
      BY <1>2, <3>1, <3>3 DEF Balanced
  <2>10. CASE trials' # NumTrials
    <3>1. Scan(got)
      BY <2>1, <2>10 DEF a
    <3> HIDE DEF got
    <3>2. Contents(got) + Contents(z) = Contents(wire) + Contents(rx_buffer)
      BY <1>4, <2>7, <2>8
    <3> QED
      BY <1>5, <2>2, <2>3, <2>4, <2>5, <2>6, <3>1, <3>2
  <2> QED
    BY <2>9, <2>10
<1> QED
  BY <1>6, <1>7, <1>8

\* The other calls and the server keep the count.
LEMMA OthersCounted ==
  ASSUME TypeOK, Streams, Linked, Counted, ~lossy',
         (\E t \in BOOLEAN : read(t)) \/ close \/ flush \/ ServerAnswers \/ ServerCloses
  PROVE  Balanced'
<1>1. ~lossy /\ UNCHANGED <<rx_state, rx_expected>>
  <2>1. lossy \in BOOLEAN
    BY Types
  <2>2. lossy => lossy'
    BY <2>1 DEF read, close, flush, ServerAnswers, ServerCloses, histVars
  <2>3. UNCHANGED <<rx_state, rx_expected>>
    BY DEF read, close, flush, ServerAnswers, ServerCloses, rxVars
  <2> QED
    BY <2>2, <2>3
<1>2. /\ Balanced /\ tx_msg_len = Len(tx_buffer)
      /\ rx_expected = Len(asked) + (Contents(wire) + Contents(rx_buffer))
      /\ rx_state # "ERROR" => InStep(Due(rx_state), rx_buffer \o wire)
  BY <1>1 DEF Counted, Balanced
<1>3. /\ asked \in Seq(Nat) /\ wire \in Seq(Piece) /\ rx_buffer \in Seq(Piece)
      /\ rx_expected \in Nat
  BY Types DEF Streams
<1>4. Contents(wire) \in Nat /\ Contents(rx_buffer) \in Nat /\ Len(asked) \in Nat
  BY <1>3, ContentsIs
<1>5. CASE \E t \in BOOLEAN : read(t)
  <2>1. UNCHANGED <<asked, wire, rx_buffer, tx_buffer, tx_msg_len>>
    BY <1>5 DEF read, socketVars, rxVars, txVars
  <2>2. tx_msg_len' = Len(tx_buffer')
    BY <1>2, <2>1
  <2> QED
    BY <1>1, <1>2, <2>1, <2>2, UnmovedBalanced
<1>6. CASE close
  <2>1. /\ asked' = <<>> /\ wire' = <<>> /\ UNCHANGED <<rx_buffer, tx_buffer, tx_msg_len>>
        /\ ~(rx_expected > 0)
    BY <1>6, Zenon DEF close, Disconnected, rxVars, txVars
  <2>2. /\ rx_expected = 0 /\ Contents(wire) = 0 /\ Contents(rx_buffer) = 0
    BY <1>2, <1>3, <1>4, <2>1
  <2>3. rx_expected' = Len(asked') + (Contents(wire') + Contents(rx_buffer'))
    <3>1. Len(asked') = 0 /\ Contents(wire') = 0 /\ Contents(rx_buffer') = 0 /\ rx_expected' = 0
      BY <1>1, <2>1, <2>2, ContentsOfNone, EmptySeq
    <3> QED
      BY <3>1
  <2>4. ASSUME rx_state' # "ERROR" PROVE InStep(Due(rx_state'), rx_buffer' \o wire')
    <3> DEFINE s == rx_buffer \o wire
    <3>1. InStep(Due(rx_state), s)
      BY <1>1, <1>2, <2>4
    <3>2. s \in Seq(Piece)
      BY <1>3, ConcatProperties
    <3>3. Contents(s) = Contents(rx_buffer) + Contents(wire)
      BY <1>3, ContentsJoin
    <3>4. s = <<>>
      <4>1. Contents(s) = 0
        BY <2>2, <3>3
      <4> HIDE DEF s
      <4> QED
        BY <3>1, <3>2, <4>1, ContentsOfNone, Zenon DEF InStep
    <3>5. rx_buffer = <<>> /\ wire = <<>>
      BY <1>3, <3>4, ConcatEqualIffEmpty
    <3> QED
      BY <1>1, <2>1, <3>1, <3>5
  <2> QED
    BY <1>2, <2>1, <2>3, <2>4 DEF Balanced
<1>7. CASE flush
  <2>1. /\ rx_buffer' = <<>> /\ tx_buffer' = <<>> /\ tx_msg_len' = 0
        /\ rx_buffer = <<>> /\ UNCHANGED <<asked, wire>>
    BY <1>7, Zenon DEF flush, socketVars
  <2>2. tx_msg_len' = Len(tx_buffer') /\ rx_buffer' = rx_buffer
    BY <2>1, EmptySeq
  <2> QED
    BY <1>1, <1>2, <2>1, <2>2, UnmovedBalanced
<1>8. CASE ServerAnswers
  <2>1. /\ asked # <<>> /\ wire' = wire \o Reply(Head(asked)) /\ asked' = Tail(asked)
        /\ UNCHANGED <<rx_buffer, tx_buffer, tx_msg_len>>
    BY <1>8 DEF ServerAnswers, rxVars, txVars
  <2>2. Head(asked) \in Nat /\ Len(Tail(asked)) = Len(asked) - 1
    BY <1>3, <2>1
  <2> DEFINE r == Reply(Head(asked))
  <2>3. r \in Seq(Piece) /\ Contents(r) = 1 /\ InStep("pre", r)
    BY <2>2, ReplyPieces, ContentsOfReply, ReplyInStep
  <2> HIDE DEF r
  <2>4. wire' = wire \o r
    BY <2>1 DEF r
  <2>5. Contents(wire \o r) = Contents(wire) + Contents(r)
    BY <1>3, <2>3, ContentsJoin
  <2>6. rx_expected' = Len(asked') + (Contents(wire') + Contents(rx_buffer'))
    <3>1. /\ Contents(wire') = Contents(wire) + 1 /\ Contents(rx_buffer') = Contents(rx_buffer)
          /\ Len(asked') = Len(asked) - 1
      BY <2>1, <2>2, <2>3, <2>4, <2>5
    <3> QED
      BY <1>1, <1>2, <1>4, <3>1
  <2>7. ASSUME rx_state' # "ERROR" PROVE InStep(Due(rx_state'), rx_buffer' \o wire')
    <3>1. InStep(Due(rx_state), rx_buffer \o wire)
      BY <1>1, <1>2, <2>7
    <3>2. rx_buffer \o wire \in Seq(Piece)
      BY <1>3, ConcatProperties
    <3>3. InStep(Due(rx_state), (rx_buffer \o wire) \o r)
      BY <2>3, <3>1, <3>2, InStepJoin
    <3>4. (rx_buffer \o wire) \o r = rx_buffer \o (wire \o r)
      BY <1>3, <2>3, ConcatAssociative
    <3> QED
      BY <1>1, <2>1, <2>4, <3>3, <3>4
  <2>8. tx_msg_len' = Len(tx_buffer')
    BY <1>2, <2>1
  <2> QED
    BY <2>6, <2>7, <2>8 DEF Balanced
<1>9. CASE ServerCloses
  <2>1. asked' = <<>> /\ UNCHANGED <<wire, rx_buffer, tx_buffer, tx_msg_len>> /\ asked = <<>>
    BY <1>9, Zenon DEF ServerCloses, rxVars, txVars
  <2>2. tx_msg_len' = Len(tx_buffer') /\ asked' = asked
    BY <1>2, <2>1
  <2> QED
    BY <1>1, <1>2, <2>1, <2>2, UnmovedBalanced
<1> QED
  BY <1>5, <1>6, <1>7, <1>8, <1>9

\* The count is kept by every step, and right to begin with.
LEMMA NextCounted ==
  ASSUME TypeOK, Streams, Linked, Counted, [Next]_vars
  PROVE  Counted'
<1> SUFFICES ASSUME ~lossy' PROVE Balanced'
  BY Zenon DEF Counted, Balanced, Contents, InStep, Final, Follows, Due, After
<1>1. CASE Next
  BY <1>1, CallsCounted, ReadsCounted, OthersCounted DEF Next
<1>2. CASE UNCHANGED vars
  <2>1. UNCHANGED <<asked, wire, rx_buffer, rx_state, rx_expected, tx_msg_len, tx_buffer, lossy>>
    BY <1>2 DEF vars, socketVars, rxVars, txVars, histVars
  <2>2. Balanced /\ tx_msg_len' = Len(tx_buffer')
    BY <2>1 DEF Counted, Balanced
  <2> QED
    BY <2>1, <2>2, UnmovedBalanced
<1> QED
  BY <1>1, <1>2

LEMMA InitCounted ==
  Init => Linked /\ Counted
<1> SUFFICES ASSUME Init PROVE Linked /\ Counted
  OBVIOUS
<1>1. /\ asked = <<>> /\ wire = <<>> /\ rx_buffer = <<>> /\ tx_buffer = <<>>
      /\ rx_state = "RX_INIT" /\ rx_expected = 0 /\ tx_msg_len = 0
  BY DEF Init
<1>2. <<>> \o <<>> = <<>> /\ Len(<<>>) = 0 /\ 0 = 0 + (0 + 0)
  OBVIOUS
<1>3. Due("RX_INIT") = "pre"
  BY DEF Due
<1> QED
  BY <1>1, <1>2, <1>3, ContentsOfNone, EmptyInStep, Zenon DEF Linked, Counted, Balanced

\* The count of expected replies is that of the replies on the server, on the way and
\* in the buffer, for every number of requests, calls and trials and every cut of the
\* stream, until a reply, a request or a length is dropped.
THEOREM RepliesCounted == Spec => []ExpectedCounts
<1>1. Init => CInv
  BY InitTypes, InitCounted DEF CInv
<1>2. CInv /\ [Next]_vars => CInv'
  BY NextTypes, NextLinked, NextCounted DEF CInv
<1>3. CInv => ExpectedCounts
  <2> SUFFICES ASSUME CInv, ~lossy
               PROVE  rx_expected = Len(asked) + Contents(wire) + Contents(rx_buffer)
    BY DEF ExpectedCounts
  <2>1. rx_expected = Len(asked) + (Contents(wire) + Contents(rx_buffer))
    BY DEF CInv, Counted, Balanced
  <2>2. asked \in Seq(Nat) /\ wire \in Seq(Piece) /\ rx_buffer \in Seq(Piece)
    BY Types DEF CInv, Streams
  <2>3. Contents(wire) \in Nat /\ Contents(rx_buffer) \in Nat /\ Len(asked) \in Nat
    BY <2>2, ContentsIs
  <2> QED
    BY <2>1, <2>3
<1> QED
  BY <1>1, <1>2, <1>3, PTL DEF Spec
=============================================================================
