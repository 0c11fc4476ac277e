------------------------- MODULE MCPacketLossCounter -------------------------
(* Instances of PacketLossCounter for TLC; the constants are in the .cfg. *)
EXTENDS PacketLossCounter
=============================================================================
