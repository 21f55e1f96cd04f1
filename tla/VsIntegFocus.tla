---------------------------- MODULE VsIntegFocus ----------------------------
(***************************************************************************)
(* The Verilator integration keeps the promise of VsFocus about the          *)
(* execution focus, as the VPI application does.                             *)
(***************************************************************************)
EXTENDS VsInteg

\* Whose turn it is, read off the state of the state machine.
Turn ==
  IF state = "INIT" THEN "init"
  ELSE IF state \in {"CONNECT", "WAITING"} THEN "idle"
  ELSE IF state = "PROCESSING" /\ nrep < nread THEN "busy"
  ELSE IF state = "SIM_RUNNING" THEN "running"
  ELSE IF \/ state = "PROCESSING" \* the loop of exit
          \/ state = "EXIT" /\ cur.kind \in {"exit", "finish"} /\ srv
          \/ state = "ERROR" /\ srv
       THEN "released"
  ELSE "over"

Focus == INSTANCE VsFocus WITH focus <- Turn, owed <- nrep < nread

\* Verisocks and the simulation loop take turns as the protocol allows, and time
\* moves only in the turns of the simulation.
ImplementsFocus == Focus!Spec
=============================================================================
