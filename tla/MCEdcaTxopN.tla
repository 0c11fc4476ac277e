---------------------------- MODULE MCEdcaTxopN ----------------------------
(* Instances of EdcaTxopN for TLC: two destinations. *)
EXTENDS EdcaTxopN

CONSTANTS d1, d2
Two == {d1, d2}
=============================================================================
