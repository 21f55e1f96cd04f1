----------------------------- MODULE MCVsClient -----------------------------
(* Constants of the runs of the Python client.                              *)
EXTENDS VsClient

MCEveryRecovery == {"send", "write", "read", "close", "flush"}
=============================================================================
