------------------------------ MODULE VsFocus ------------------------------
(***************************************************************************)
(* What Verisocks promises about the execution focus: Verisocks and the     *)
(* simulator take turns, a request is taken only when the previous one has  *)
(* been answered, a run is answered when the focus comes back, and           *)
(* simulation time moves only while the simulator has the focus.            *)
(***************************************************************************)
EXTENDS Naturals

VARIABLES
  focus, \* who runs: see Turns
  owed,  \* a request has been taken and not answered
  time   \* simulation time

Turns == {"init",     \* the simulator, before $verisocks_init
          "idle",     \* Verisocks, waiting for a request or a client
          "busy",     \* Verisocks, handling a request
          "running",  \* the simulator, for a run request
          "released", \* the simulator, for good
          "over"}     \* nobody: the simulation has ended

Init == focus = "init" /\ owed = FALSE /\ time = 0

Turn(from, to, owes) ==
  /\ focus \in from /\ focus' = to
  /\ owed' = owes
  /\ time' = time

Start   == Turn({"init"}, "idle", FALSE)             \* $verisocks_init
Take    == Turn({"idle"}, "busy", TRUE)              \* a request arrives
Answer  == Turn({"busy"}, "idle", FALSE)             \* its reply
Run     == Turn({"busy"}, "running", TRUE)           \* or a run starts
Resume  == /\ focus = "running" /\ focus' = "idle"   \* its reply, where time has got
           /\ owed' = FALSE /\ time' \in Nat /\ time' >= time
Release == Turn({"idle", "busy"}, "released", FALSE) \* finish, exit, stop, no client
End     == Turn({"init", "running", "released"}, "over", FALSE)

Advance == /\ focus \in {"running", "released"}
           /\ focus' = focus /\ owed' = owed
           /\ time' \in Nat /\ time' > time

Next == Start \/ Take \/ Answer \/ Run \/ Resume \/ Release \/ End \/ Advance

Spec == Init /\ [][Next]_<<focus, owed, time>>
=============================================================================
