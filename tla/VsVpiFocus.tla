----------------------------- MODULE VsVpiFocus -----------------------------
(***************************************************************************)
(* The VPI application keeps the promise of VsFocus about the execution     *)
(* focus.                                                                   *)
(***************************************************************************)
EXTENDS VsVpi

\* Whose turn it is, read off the state of the server and of the simulator.
Turn ==
  IF sim = "ended" THEN "over"
  ELSE IF state = "START" THEN "init"
  ELSE IF state \in {"CONNECT", "WAITING"} THEN "idle"
  ELSE IF state = "PROCESSING" THEN "busy"
  ELSE IF state = "SIM_RUNNING" /\ cur.kind \in RunKinds THEN "running"
  ELSE "released"

Focus == INSTANCE VsFocus WITH focus <- Turn, owed <- Unanswered, time <- simTime

\* The execution focus passes between Verisocks and the simulator only as the
\* protocol allows, a request is owed a reply exactly while it is handled or run,
\* and time moves only while the simulator has the focus.
ImplementsFocus == Focus!Spec
=============================================================================
