-------------------------- MODULE MCStaAssociation --------------------------
(***************************************************************************)
(* Instances of StaAssociation.  A tick is the 50 ms of a probe request    *)
(* timeout at least; an association request waits for longer, and a        *)
(* watchdog outlasts two or more beacons.                                  *)
(***************************************************************************)
EXTENDS StaAssociation

AnyStatus == {"assocOk", "assocRefused"}
=============================================================================
