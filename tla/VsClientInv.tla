----------------------------- MODULE VsClientInv -----------------------------
(***************************************************************************)
(* The inductive invariant of the Python client: what is known of the replies *)
(* under way as long as the application has not hurried.                    *)
(***************************************************************************)
EXTENDS VsClient

Piece == [part : {"pre", "hdr", "cnt"}, id : Nat, half : {1, 2}]

Streams == wire \in Seq(Piece) /\ rx_buffer \in Seq(Piece)

\* The piece that completes a reply.
Final(p) == p.part = "cnt" /\ p.half = 2

\* Pieces of one reply, to request n.
OneReply(s, n) ==
  \A i \in 1 .. Len(s) : s[i].id = n /\ (Final(s[i]) => i = Len(s))

\* Everything under way belongs to the last request, which is in one place: queued,
\* asked, or answered with a reply that is completed once.
OneRequest ==
  /\ tx_buffer \in {<<>>, <<req>>} /\ asked \in {<<>>, <<req>>}
  /\ OneReply(wire, req) /\ OneReply(rx_buffer, req)
  /\ tx_buffer # <<>> => asked = <<>> /\ wire = <<>> /\ rx_buffer = <<>>
  /\ asked # <<>> => wire = <<>> /\ rx_buffer = <<>>
  /\ \A i \in 1 .. Len(rx_buffer) : Final(rx_buffer[i]) => wire = <<>>

\* The count of expected replies does not miss the one under way.
Expected ==
  /\ rx_expected = 0 => AtRest /\ asked = <<>> /\ wire = <<>>
  /\ tx_buffer # <<>> /\ tx_msg_len = 0 => rx_expected > 0
  /\ ~connected => asked = <<>> /\ wire = <<>>

Patient == ~hasty => OneRequest /\ Expected /\ PatientClientIsRight

IInv == TypeOK /\ Streams /\ Patient

-----------------------------------------------------------------------------
(* The stream of the replies, what is in the buffer before what is on the wire,   *)
(* and its place in the receive state machine.                               *)

\* The part that follows a part, and the one that is due in a state of rx_state.
After(part) == CASE part = "pre" -> "hdr" [] part = "hdr" -> "cnt" [] OTHER -> "pre"
Due(st)     == CASE st = "RX_PRE_HDR" -> "hdr" [] st = "RX_HDR" -> "cnt" [] OTHER -> "pre"

\* Piece q follows piece p: the second half of its part, or the first of the next.
Follows(p, q) ==
  IF p.half = 1 THEN q = [p EXCEPT !.half = 2]
                ELSE q.half = 1 /\ q.part = After(p.part)

\* The pieces of s make whole replies but for the parts before the one that is due.
InStep(part, s) ==
  /\ s = <<>> => part = "pre"
  /\ s # <<>> => s[1].half = 1 /\ s[1].part = part /\ Final(s[Len(s)])
  /\ \A i \in 1 .. Len(s) - 1 : Follows(s[i], s[i + 1])

\* Nothing is under way without a connection.
Linked == ~connected => asked = <<>> /\ wire = <<>>

\* There is a length for each queued request, the count of replies is right and the
\* receive state machine is in step with the stream, unless it has given up.
Balanced ==
  /\ tx_msg_len = Len(tx_buffer)
  /\ rx_expected = Len(asked) + (Contents(wire) + Contents(rx_buffer))
  /\ rx_state # "ERROR" => InStep(Due(rx_state), rx_buffer \o wire)

\* As long as nothing was dropped, the client is balanced.
Counted == ~lossy => Balanced

CInv == TypeOK /\ Streams /\ Linked /\ Counted
=============================================================================
