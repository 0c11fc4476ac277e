------------------------ MODULE MCBlockAckRecipient ------------------------
(* Instances of BlockAckRecipient for TLC; the constants are in the .cfg. *)
EXTENDS BlockAckRecipient
=============================================================================
