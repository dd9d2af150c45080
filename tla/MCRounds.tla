----------------------------- MODULE MCRounds -----------------------------
(* Model-checking instance of the connectivity state with rounds of two batches. *)
EXTENDS Connectivity

MCKinds == [outcome : Outcomes, long : {FALSE}]
============================================================================
