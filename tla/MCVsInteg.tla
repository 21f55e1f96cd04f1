----------------------------- MODULE MCVsInteg -----------------------------
(* Constants of the runs of the Verilator integration.                      *)
EXTENDS VsIntegFocus

\* An uneven wave, and one whose period is a single time step: no high part.
MCWaves == {[high |-> 1, low |-> 2], [high |-> 0, low |-> 1]}

MCEvenWave == {[high |-> 1, low |-> 1]}

MCTwoWaves == {[high |-> 1, low |-> 2], [high |-> 2, low |-> 2]}

MCHalfTicks == {0, 1, 2, 5}

MCValues == {0, 1}

MCClockKinds == {"clk_on", "clk_off", "for_time"}
=============================================================================
