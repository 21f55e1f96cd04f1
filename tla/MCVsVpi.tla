------------------------------ MODULE MCVsVpi ------------------------------
(* Constants of the runs of the VPI application.                            *)
EXTENDS VsVpiFocus

\* 1 is below the time step; 5 truncates to the horizon, the present of a run asked for
\* there.
MCHalfTicks == {0, 1, 5}

MCValues == {0, 1}
=============================================================================
