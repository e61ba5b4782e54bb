--------------------------- MODULE MCNATListener ---------------------------
(* Instances of NATListener for TLC: three ports (a change of the port and *)
(* another one while the first is being published), two closers.           *)
EXTENDS NATListener
=============================================================================
