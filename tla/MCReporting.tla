---------------------------- MODULE MCReporting ----------------------------
(* Model-checking instance of the reporting path.  What the supervisor derives from a    *)
(* result that reached its target or did not is left to MCRounds and MCAgentRegistry.    *)
EXTENDS ReportDelivery

MCKinds == {[outcome |-> "up", long |-> FALSE], [outcome |-> "up", long |-> TRUE],
            [outcome |-> "refused", long |-> FALSE]}
============================================================================
