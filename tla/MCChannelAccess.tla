-------------------------- MODULE MCChannelAccess --------------------------
(***************************************************************************)
(* Instances of ChannelAccess.  A slot is two units of time and a SIFS     *)
(* one, so that the medium can become busy in the middle of a slot.        *)
(* Contender 1 is the one of higher priority: it has AIFSN 1 and always    *)
(* draws 0, as the beacon DcaTxop of an AP does.                           *)
(***************************************************************************)
EXTENDS ChannelAccess

MCAifsn == <<1, 2>>
MCCwMin == <<0, 1>>
MCCwMax == <<0, 3>>

\* Contender 2 draws up to three slots, so that a backoff can be interrupted twice.
MCCwMinLong == <<0, 3>>

\* WiFox: the window of high priority is narrower, as 1..31 against 31..1023.
MCHigh == [aifsn |-> 1, cwMin |-> 0, cwMax |-> 1]
MCLow == [aifsn |-> 2, cwMin |-> 2, cwMax |-> 3]

\* Two contenders that always draw 0 and are ready at the same instant.
MCAifsnEqual == <<1, 1>>
MCCwZero == <<0, 0>>
=============================================================================
