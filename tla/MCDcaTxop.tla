----------------------------- MODULE MCDcaTxop -----------------------------
(***************************************************************************)
(* Instances of DcaTxop: three clients served two, or one, at a time.      *)
(***************************************************************************)
EXTENDS DcaTxop, TLC

CONSTANTS c1, c2, c3

Two == {c1, c2}
Three == {c1, c2, c3}
AnyRole == {TRUE, FALSE}
NotMgt == {FALSE}
Either == {TRUE, FALSE}

ForeverLifetime == Forever

\* Nothing but equality tells clients apart.
Symmetry == Permutations(Clients)
=============================================================================
