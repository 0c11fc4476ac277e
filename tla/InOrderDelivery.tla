-------------------------- MODULE InOrderDelivery --------------------------
(***************************************************************************)
(* What the recipient of a block ack agreement promises the layers above:  *)
(* packets go up in the order the originator numbered them, none twice,    *)
(* and none that was taken in is forgotten while the agreement stands.     *)
(* Packets may be missing for good (the originator gave them up).  How and *)
(* when the recipient decides to hand packets up is left open;             *)
(* BlockAckRecipient.tla is shown to implement this module.                *)
(***************************************************************************)
EXTENDS Naturals, Sequences, SequencesExt

CONSTANT Packets        \* numbers of the flow's packets, in sending order

VARIABLES open,         \* an agreement stands: packets may be held back
          stored,       \* packets taken in and not yet handed up
          rx            \* packets handed up, in order

vars == <<open, stored, rx>>

Init == open = FALSE /\ stored = {} /\ rx = << >>

Newer(p) == \A i \in DOMAIN rx : rx[i] < p

\* The sets of packets that may be handed up together: nothing older than a
\* packet handed up is left behind.
Oldest(pool) == {{}} \cup {{q \in pool : q <= p} : p \in pool}

Increasing(packets) ==
  \A i, j \in DOMAIN packets : i < j => packets[i] < packets[j]

\* What was handed up before stays, and these packets follow it in order.
HandUp(handed) ==
  /\ IsPrefix(rx, rx')
  /\ ToSet(rx') = ToSet(rx) \cup handed
  /\ Increasing(rx')

Open == ~open /\ open' = TRUE /\ UNCHANGED <<stored, rx>>

\* At most one packet arrives, and then some of the oldest are handed up.
Receive ==
  /\ open /\ UNCHANGED open
  /\ \E arrived \in {{}} \cup {{p} : p \in {q \in Packets : Newer(q)}} :
       \E handed \in Oldest(stored \cup arrived) :
         /\ HandUp(handed)
         /\ stored' = (stored \cup arrived) \ handed

\* Without an agreement every packet goes up as it arrives.
Pass ==
  /\ ~open /\ UNCHANGED <<open, stored>>
  /\ \E p \in Packets : Newer(p) /\ HandUp({p})

\* The agreement ends: what can be handed up is, the rest is dropped.
Close ==
  /\ open /\ open' = FALSE
  /\ \E handed \in Oldest(stored) : HandUp(handed)
  /\ stored' = {}

Next == Open \/ Receive \/ Pass \/ Close

Spec == Init /\ [][Next]_vars
=============================================================================
