-------------------------- MODULE MCTCPPunchMapper --------------------------
(* Instances of TCPPunchMapper for TLC.  Calls of one kind are alike, so   *)
(* they may be named in the order in which they begin; unlike a symmetry   *)
(* set, this is sound for the liveness properties too.                     *)
EXTENDS TCPPunchMapper

CONSTANTS m1, m2, u1, u2

InOrder ==
    /\ pc[m2] # "idle" => pc[m1] # "idle"
    /\ upc[u2] # "idle" => upc[u1] # "idle"

OrderedSpec == Init /\ [][Next /\ InOrder']_vars /\ Fairness
=============================================================================
