------------------------------ MODULE VsClient ------------------------------
(***************************************************************************)
(* The Python client (python/verisocks/verisocks.py): one object of class     *)
(* Verisocks, its receive state machine, and its connection to a server that  *)
(* answers requests in order, late or never.                                *)
(*                                                                          *)
(* A reply is three parts of a byte stream, pre-header, header and content,   *)
(* each of two pieces: a recv takes any number of pieces, and so may cut a part *)
(* in two.  All replies have the same length.  The application makes one call  *)
(* at a time.                                                               *)
(***************************************************************************)
EXTENDS Naturals, Sequences, SequencesExt

CONSTANTS
  Recovery,  \* calls the application makes after one that has failed
  NumTrials, \* num_trials of read
  MaxReq,    \* bound: requests the application sends
  MaxCalls   \* bound: calls of any kind

ASSUME ClientAssumption ==
  /\ Recovery \subseteq {"send", "write", "read", "close", "flush"}
  /\ NumTrials \in Nat \ {0} /\ MaxReq \in Nat /\ MaxCalls \in Nat

VARIABLES
  use_uuid,
  connected,    \* _connected
  base,         \* the socket has the time-out of the constructor
  uuid,         \* uuid, as the number of the request it was made for
  tx_buffer,    \* _tx_buffer: requests queued
  tx_msg_len,   \* number of lengths in _tx_msg_len
  rx_buffer,    \* _rx_buffer
  rx_state,     \* _rx_state
  rx_header_len, \* _rx_header_len is the length of a header
  rx_expected,  \* _rx_expected
  trials,       \* trials of the read in progress
  pc,           \* "idle"; in a call: "read", or in recv: "first", "loop"
  timed,        \* the call has a time-out of its own
  up,           \* the server has not closed the connection
  asked,        \* requests the server has not answered, in order
  wire,         \* parts of replies on their way
  req,          \* history: the last request
  out,          \* history: how the last call ended
  hasty,        \* history: sent a request too early, see Hurries
  lossy,        \* history: replies, requests or their lengths were dropped, or a
                \* request sent twice
  calls         \* number of calls made

socketVars == <<connected, base, up, asked, wire>>
rxVars     == <<rx_buffer, rx_state, rx_header_len, rx_expected, trials>>
txVars     == <<uuid, tx_buffer, tx_msg_len>>
histVars   == <<req, hasty, lossy, calls>>
vars       == <<use_uuid, socketVars, rxVars, txVars, pc, timed, out, histVars>>

Part(part, id) == <<[part |-> part, id |-> id, half |-> 1],
                    [part |-> part, id |-> id, half |-> 2]>>

Reply(id) == Part("pre", id) \o Part("hdr", id) \o Part("cnt", id)

Init ==
  /\ use_uuid \in BOOLEAN
  /\ connected = FALSE /\ base = TRUE /\ up = FALSE /\ asked = <<>> /\ wire = <<>>
  /\ rx_buffer = <<>> /\ rx_state = "RX_INIT" /\ rx_header_len = FALSE
  /\ rx_expected = 0 /\ trials = 0
  /\ uuid = 0 /\ tx_buffer = <<>> /\ tx_msg_len = 0
  /\ pc = "idle" /\ timed = FALSE /\ out = [kind |-> "none", id |-> 0]
  /\ req = 0 /\ hasty = FALSE /\ lossy = FALSE /\ calls = 0

-----------------------------------------------------------------------------
(* The receive state machine, on a record of state, header length and buffer.  *)

IsPart(buf, part) == SubSeq(buf, 1, 2) = Part(part, buf[1].id)
Dropped(buf)      == SubSeq(buf, 3, Len(buf))
Raises(r)         == [r EXCEPT !.raised = TRUE]

\* Any two bytes are taken for a pre-header; when they are not one, the length of
\* the header is more than will ever arrive.
read_pre_header(r) ==
  IF r.st # "RX_INIT" \/ Len(r.buf) < 2 THEN r
  ELSE [r EXCEPT !.st = "RX_PRE_HDR", !.buf = Dropped(@), !.len = IsPart(r.buf, "pre")]

\* The transaction UUID of the header is that of the last request queued.
HeaderAccepted(id) == use_uuid => id = uuid

\* Bytes that are no header raise before they leave the buffer; a wrong UUID
\* raises after the state has moved on.
read_header(r) ==
  IF r.st # "RX_PRE_HDR" \/ Len(r.buf) < 2 \/ ~r.len THEN r
  ELSE IF ~IsPart(r.buf, "hdr") THEN Raises(r)
  ELSE LET h == [r EXCEPT !.st = "RX_HDR", !.buf = Dropped(@)]
       IN IF HeaderAccepted(r.buf[1].id) THEN h ELSE Raises(h)

\* Bytes that are no content raise, and have left the buffer.
read_content(r) ==
  IF r.st # "RX_HDR" \/ r.raised \/ Len(r.buf) < 2 THEN r
  ELSE LET c == [r EXCEPT !.buf = Dropped(@)]
       IN IF IsPart(r.buf, "cnt") THEN [c EXCEPT !.st = "RX_DONE", !.answer = r.buf[1].id]
                                  ELSE Raises(c)

Scanned(buf) ==
  read_content(read_header(read_pre_header(
    [st |-> rx_state, len |-> rx_header_len, buf |-> buf, answer |-> 0,
     raised |-> FALSE])))

Ends(kind, id) == pc' = "idle" /\ out' = [kind |-> kind, id |-> id]

\* One pass of the loop of read over buffer buf, up to the next recv.
Scan(buf) ==
  LET r == Scanned(buf) IN
  /\ rx_buffer' = r.buf /\ rx_header_len' = r.len
  /\ IF r.st = "RX_DONE"
       THEN /\ rx_expected' = rx_expected - 1 /\ rx_state' = "RX_INIT"
            /\ Ends("answer", r.answer)
       ELSE /\ rx_expected' = rx_expected /\ rx_state' = r.st
            /\ IF r.raised THEN Ends("exception", 0)
                                      ELSE pc' = "loop" /\ out' = out

-----------------------------------------------------------------------------
(* Calls of the application                                                 *)

\* After a failure the application goes on as Recovery says.
Call(name) ==
  /\ pc = "idle" /\ calls < MaxCalls
  /\ name = "send" \/ out.kind \in {"exception", "false"}
  /\ out.kind \in {"exception", "false"} => name \in Recovery
  /\ calls' = calls + 1
  /\ use_uuid' = use_uuid

\* connect makes a socket when close has dropped the last one.
connect == connected' = TRUE /\ base' = TRUE /\ up' = TRUE /\ wire' = <<>>

Disconnected == connected' = FALSE /\ up' = FALSE /\ asked' = <<>> /\ wire' = <<>>
                /\ base' = base

\* n of the queued requests are written and counted replies expected for them.  A
\* write to a connection the server has closed may be lost, or raise.
Written(queued, n, counted) ==
  /\ IF connected THEN UNCHANGED <<connected, base, up, wire>> ELSE connect
  /\ asked' = IF up' THEN asked \o SubSeq(queued, 1, n) ELSE <<>>
  /\ lossy' = (lossy \/ ~up')
  /\ tx_buffer' = SubSeq(queued, n + 1, Len(queued))
  /\ rx_expected' = rx_expected + counted

\* _write runs out of trials: it closes the socket and raises nothing.
WriteGivesUp(queued, counted) ==
  /\ Disconnected /\ lossy' = TRUE
  /\ tx_buffer' = queued /\ rx_expected' = rx_expected + counted

\* The connection is refused, or a send raises, at a closed connection or by its
\* time-out: all stays queued, though up to "most" requests have gone out whole.  One
\* that is cut in the middle counts as not sent.
WriteRaises(queued, most) ==
  /\ \/ ~connected /\ UNCHANGED socketVars
     \/ /\ IF connected THEN UNCHANGED <<connected, base, up, wire>> ELSE connect
        /\ \E n \in 0 .. most :
             asked' = IF up' THEN asked \o SubSeq(queued, 1, n) ELSE <<>>
  /\ tx_buffer' = queued /\ rx_expected' = rx_expected /\ Ends("exception", 0)

\* A request that went out and is still queued goes out twice.
Repeats == lossy' = (lossy \/ asked' # asked)

\* No part of a reply has been received.
AtRest == rx_state = "RX_INIT" /\ rx_buffer = <<>>

\* An application hurries that sends a request with a reply expected on the
\* connection, with one partly received on an earlier one, or with another queued.
Hurries(queued) ==
  hasty' = \/ hasty \/ Len(queued) > 1
           \/ IF connected THEN rx_expected > 0 ELSE ~AtRest

\* Its length has been taken, and no reply will be expected.
Uncounted == lossy' = TRUE /\ hasty' = TRUE

\* send queues a message, writes all that is queued, and reads.
send(t) ==
  /\ Call("send") /\ req < MaxReq
  /\ req' = req + 1 /\ uuid' = IF use_uuid THEN req + 1 ELSE uuid
  /\ timed' = t
  /\ LET queued == Append(tx_buffer, req + 1) IN
     /\ Hurries(queued)
     /\ \/ /\ \/ Written(queued, Len(queued), tx_msg_len + 1)
              \/ WriteGivesUp(queued, tx_msg_len + 1)
           /\ tx_msg_len' = 0 /\ pc' = "read" /\ out' = [kind |-> "none", id |-> 0]
        \/ /\ WriteRaises(queued, Len(queued) - 1) /\ Repeats
           /\ tx_msg_len' = tx_msg_len + 1
  /\ UNCHANGED <<rx_buffer, rx_state, rx_header_len, trials>>

\* write by itself, after a failure.
write_all ==
  /\ Call("write") /\ tx_buffer # <<>>
  /\ Hurries(tx_buffer)
  /\ \/ /\ \/ Written(tx_buffer, Len(tx_buffer), tx_msg_len)
           \/ WriteGivesUp(tx_buffer, tx_msg_len)
        /\ tx_msg_len' = 0 /\ UNCHANGED <<pc, out>>
     \/ WriteRaises(tx_buffer, Len(tx_buffer) - 1) /\ Repeats /\ UNCHANGED tx_msg_len
  /\ UNCHANGED <<rx_buffer, rx_state, rx_header_len, trials, uuid, timed, req>>

\* write of the oldest message connects, then takes its length off the queue before it
\* writes.
write_oldest ==
  /\ Call("write") /\ tx_buffer # <<>> /\ tx_msg_len > 0
  /\ \/ /\ Written(tx_buffer, 1, 1) \/ WriteGivesUp(tx_buffer, 1)
        /\ tx_msg_len' = tx_msg_len - 1 /\ UNCHANGED <<pc, out>>
        /\ Hurries(tx_buffer)
     \/ /\ WriteRaises(tx_buffer, 0)
        /\ IF connected' THEN tx_msg_len' = tx_msg_len - 1 /\ Uncounted
                         ELSE UNCHANGED tx_msg_len /\ lossy' = lossy /\ Hurries(tx_buffer)
  /\ UNCHANGED <<rx_buffer, rx_state, rx_header_len, trials, uuid, timed, req>>

\* When no length is left, the oldest message cannot be written; the client has
\* connected by then.
write_nothing ==
  /\ Call("write") /\ tx_buffer # <<>> /\ tx_msg_len = 0
  /\ \/ connected /\ UNCHANGED socketVars
     \/ ~connected /\ connect /\ asked' = <<>>
     \/ ~connected /\ UNCHANGED socketVars
  /\ Ends("exception", 0)
  /\ UNCHANGED <<rxVars, txVars, timed, req, hasty, lossy>>

Expects_Always == TRUE

Expects == rx_expected > 0

\* read again, after a failure.
read(t) ==
  /\ Call("read")
  /\ timed' = t
  /\ IF Expects THEN pc' = "read" /\ out' = out ELSE Ends("false", 0)
  /\ UNCHANGED <<socketVars, rxVars, txVars, req, hasty, lossy>>

\* read connects, then looks at the buffer, or waits for data when it is empty.
ReadStarts ==
  /\ pc = "read"
  /\ IF connected THEN UNCHANGED socketVars ELSE connect /\ asked' = <<>>
  /\ trials' = 0
  /\ IF rx_buffer = <<>>
       THEN /\ pc' = "first"
            /\ UNCHANGED <<rx_buffer, rx_state, rx_header_len, rx_expected, out>>
       ELSE Scan(rx_buffer)
  /\ UNCHANGED <<use_uuid, txVars, timed, histVars>>

\* The connection of a read is refused.
ReadRefused ==
  /\ pc = "read" /\ ~connected
  /\ Ends("exception", 0)
  /\ UNCHANGED <<use_uuid, socketVars, rxVars, txVars, timed, histVars>>

\* A recv returns data, and the base time-out is restored.  The last trial of read
\* receives without looking at what it got.
ReadData ==
  /\ pc \in {"first", "loop"} /\ wire # <<>>
  /\ base' = (base \/ timed)
  /\ \E k \in 1 .. Len(wire) :
       LET got == rx_buffer \o SubSeq(wire, 1, k) IN
       /\ wire' = SubSeq(wire, k + 1, Len(wire))
       /\ trials' = IF pc = "loop" THEN trials + 1 ELSE 0
       /\ IF trials' = NumTrials
            THEN /\ rx_buffer' = got /\ rx_state' = "ERROR" /\ Ends("false", 0)
                 /\ UNCHANGED <<rx_header_len, rx_expected>>
            ELSE Scan(got)
  /\ UNCHANGED <<use_uuid, connected, up, asked, txVars, timed, histVars>>

ReadFails_Uncounts ==
  /\ pc \in {"first", "loop"}
  /\ base' = (base /\ ~timed) /\ rx_expected' = rx_expected - 1
  /\ Ends("exception", 0)
  /\ UNCHANGED <<use_uuid, connected, up, asked, wire, rx_buffer, rx_state,
                 rx_header_len, trials, txVars, timed, histVars>>

\* A recv times out, also in the middle of a reply, or finds the connection closed,
\* and raises.
ReadFails ==
  /\ pc \in {"first", "loop"}
  /\ base' = (base /\ ~timed)
  /\ Ends("exception", 0)
  /\ UNCHANGED <<use_uuid, connected, up, asked, wire, rxVars, txVars, timed, histVars>>

\* close forgets the socket and nothing else.
close ==
  /\ Call("close") /\ connected
  /\ Disconnected
  /\ lossy' = (lossy \/ rx_expected > 0)
  /\ UNCHANGED <<rxVars, txVars, pc, timed, out, req, hasty>>

flush_ForgetsReplies ==
  /\ Call("flush")
  /\ rx_buffer' = <<>> /\ tx_buffer' = <<>> /\ tx_msg_len' = 0 /\ rx_expected' = 0
  /\ lossy' = (lossy \/ rx_buffer # <<>>)
  /\ UNCHANGED <<socketVars, rx_state, rx_header_len, trials, uuid, pc, timed, out,
                 req, hasty>>

\* flush empties the buffers and nothing else.
flush ==
  /\ Call("flush")
  /\ rx_buffer' = <<>> /\ tx_buffer' = <<>> /\ tx_msg_len' = 0
  /\ lossy' = (lossy \/ rx_buffer # <<>>)
  /\ UNCHANGED <<socketVars, rx_state, rx_header_len, rx_expected, trials, uuid, pc,
                 timed, out, req, hasty>>

-----------------------------------------------------------------------------
(* The server                                                               *)

ServerAnswers ==
  /\ up /\ asked # <<>>
  /\ wire' = wire \o Reply(Head(asked)) /\ asked' = Tail(asked)
  /\ UNCHANGED <<use_uuid, connected, base, up, rxVars, txVars, pc, timed, out, histVars>>

ServerCloses ==
  /\ up
  /\ up' = FALSE /\ asked' = <<>>
  /\ lossy' = (lossy \/ asked # <<>>)
  /\ UNCHANGED <<use_uuid, connected, base, wire, rxVars, txVars, pc, timed, out, req,
                 hasty, calls>>

Next == \/ \E t \in BOOLEAN : send(t) \/ read(t)
        \/ write_all \/ write_oldest \/ write_nothing
        \/ ReadStarts \/ ReadRefused \/ ReadData \/ ReadFails \/ close \/ flush
        \/ ServerAnswers \/ ServerCloses

Spec == Init /\ [][Next]_vars
-----------------------------------------------------------------------------
(* Properties                                                               *)

\* Every variable has its type, and the client waits for data only when it is
\* connected and expects a reply.
TypeOK ==
  /\ {use_uuid, connected, base, up, rx_header_len, timed, hasty, lossy}
       \subseteq BOOLEAN
  /\ {uuid, tx_msg_len, rx_expected, trials, req, calls, out.id} \subseteq Nat
  /\ rx_state \in {"RX_INIT", "RX_PRE_HDR", "RX_HDR", "ERROR"}
  /\ pc \in {"idle", "read", "first", "loop"}
  /\ out.kind \in {"none", "answer", "exception", "false"}
  /\ tx_buffer \in Seq(Nat) /\ asked \in Seq(Nat)
  /\ pc # "idle" => rx_expected > 0 /\ (pc = "read" \/ connected)

\* An application that sends a request only when the client expects no reply, or
\* on a new connection when none is partly received, gets the reply to that request
\* and no other, however the stream is cut up, whenever reads time out and are taken
\* up again, and through closed and flushed connections and failed writes, but for
\* one: a write of the oldest request that raises, whose reply is never expected.
PatientClientIsRight ==
  ~hasty /\ out.kind = "answer" => out.id = req

Contents(s) == Cardinality({i \in 1 .. Len(s) : s[i].part = "cnt" /\ s[i].half = 2})

\* The count of expected replies is the number of those still to come, on the
\* server, on the way or in the buffer, unless something was dropped.
ExpectedCounts ==
  ~lossy => rx_expected = Len(asked) + Contents(wire) + Contents(rx_buffer)

\* Class documentation of use_uuid: the UUID "will be verified to match when the
\* corresponding answer is received".
UuidVerified == use_uuid /\ out.kind = "answer" => out.id = req

\* Class documentation: with a time-out as argument, the socket time-out is
\* modified "only temporarily and then restored".
TimeoutRestored == pc = "idle" => base
=============================================================================
