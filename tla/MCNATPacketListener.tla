------------------------ MODULE MCNATPacketListener ------------------------
(* Instances of NATPacketListener for TLC. *)
EXTENDS NATPacketListener
=============================================================================
