----------------------------- MODULE MCProbePool -----------------------------
(* Model-checking instance of the probe pool. *)
EXTENDS ProbePool
============================================================================
