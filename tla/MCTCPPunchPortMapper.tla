------------------------ MODULE MCTCPPunchPortMapper ------------------------
(* Instances of TCPPunchPortMapper for TLC. *)
EXTENDS TCPPunchPortMapper
=============================================================================
