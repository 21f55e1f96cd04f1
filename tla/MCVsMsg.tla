------------------------------ MODULE MCVsMsg ------------------------------
(* Constants of the run of the framing.                                     *)
EXTENDS VsMsg

MCMessage(type, header, len) == [type |-> type, header |-> header, len |-> len]

\* With a buffer of 8 bytes and an int up to 10: the longest message that fits, one
\* that just fills the buffer, one that leaves a byte behind, one whose header does
\* not fit, two that fit but are no commands, and lengths that are zero, beyond an
\* int, or negative: one that wraps to a message that fits, and one that does not.
MCMessages ==
  {MCMessage("json", 2, 3), MCMessage("json", 3, 3), MCMessage("json", 3, 4),
   MCMessage("json", 7, 1), MCMessage("plain", 1, 0), MCMessage("unknown", 1, 1),
   MCMessage("json", 1, 8), MCMessage("json", 1, -1), MCMessage("json", 1, -5)}

MCReplies == {MCMessage("json", 1, 1)}
=============================================================================
