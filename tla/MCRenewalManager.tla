-------------------------- MODULE MCRenewalManager --------------------------
(* Instances of RenewalManager for TLC.  Its liveness properties are       *)
(* checked together with the others, so no symmetry is declared.           *)
EXTENDS RenewalManager
=============================================================================
