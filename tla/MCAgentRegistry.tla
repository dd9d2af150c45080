-------------------------- MODULE MCAgentRegistry --------------------------
(* Model-checking instance of the agent's row and its connectivity entry. *)
EXTENDS AgentRegistry

MCKinds == [outcome : Outcomes, long : {FALSE}]
============================================================================
