----------------------------- MODULE MCRecovery ------------------------------
(* Model checking of Recovery: its constants are numbers, given in the cfg files. *)
EXTENDS Recovery

=============================================================================
