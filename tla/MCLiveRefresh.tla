---------------------------- MODULE MCLiveRefresh ----------------------------
(* Model-checking instance of the live refresh. *)
EXTENDS LiveRefresh
============================================================================
