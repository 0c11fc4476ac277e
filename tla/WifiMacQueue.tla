---------------------------- MODULE WifiMacQueue ----------------------------
(***************************************************************************)
(* wifi-mac-queue.{h,cc}: the packets that wait in a DcaTxop or EdcaTxopN. *)
(*                                                                         *)
(* The queue counts its packets itself (size, next to the list items),     *)
(* and drops packets that have waited too long only when one of its        *)
(* methods runs Cleanup: in between, expired packets stay and count.       *)
(*                                                                         *)
(* A packet is [to, mgt, age]: its receiver, whether it is a management    *)
(* frame, and how long ago it was queued, up to the lifetime (age stands   *)
(* for Now () - tstamp).                                                   *)
(***************************************************************************)
EXTENDS Integers, SequencesExt

CONSTANTS
  Clients,    \* the unicast addresses packets are queued for
  Group,      \* the broadcast address
  Lifetime,   \* m_maxDelay, or Forever
  MaxSize     \* m_maxSize at the start

Forever == -1   \* packets do not expire within the time that is modelled

ASSUME QueueAssumption ==
  /\ Group \notin Clients
  /\ Lifetime \in Nat \cup {Forever}
  /\ MaxSize \in Nat

Packets == [to : Clients \cup {Group}, mgt : BOOLEAN, age : Nat]

Queues == [items : Seq(Packets), size : Nat, max : Nat]

EmptyQueue == [items |-> <<>>, size |-> 0, max |-> MaxSize]

Fresh(to, mgt) == [to |-> to, mgt |-> mgt, age |-> 0]

Older(p) ==
  IF p.age < Lifetime THEN [p EXCEPT !.age = @ + 1] ELSE p

AgedQueue(q) == [q EXCEPT !.items = [k \in DOMAIN @ |-> Older(@[k])]]

-----------------------------------------------------------------------------
ExpiredLate(p) == Lifetime # Forever /\ p.age > Lifetime   \* mutant: off by one

Expired(p) == Lifetime # Forever /\ p.age >= Lifetime

\* The list of those items that are in the set keep; (SelectSeq, written as a
\* recursive function because the provers cannot expand SelectSeq).
Selected(items, keep) ==
  LET selected[n \in 0..Len(items)] ==
        IF n = 0 THEN << >>
        ELSE IF items[n] \in keep THEN Append(selected[n - 1], items[n]) ELSE selected[n - 1]
  IN  selected[Len(items)]

Kept(items) == Selected(items, {p \in ToSet(items) : ~Expired(p)})

CleanupUncounted(q) ==   \* mutant: m_size is not lowered
  [q EXCEPT !.items = Kept(@)]

Cleanup(q) ==
  [q EXCEPT !.items = Kept(@), !.size = @ - (Len(q.items) - Len(Kept(q.items)))]

FullBeyond(q) == q.size > q.max   \* mutant: off by one

Full(q) == q.size = q.max

Enqueue(q, p) ==
  LET c == Cleanup(q)
  IN  IF Full(c) THEN c
      ELSE [c EXCEPT !.items = Append(@, p), !.size = @ + 1]

IsEmpty(q) == Cleanup(q).items = <<>>

Flush(q) == [q EXCEPT !.items = <<>>, !.size = 0]

\* The packet at position k leaves the list.
TakeAt(q, k) == [q EXCEPT !.items = RemoveAt(@, k), !.size = @ - 1]

FrontPositionBack(q) == Len(q.items)   \* mutant: the packet queued last

\* Dequeue: the position of the packet that leaves a queue that is not empty.
FrontPosition(q) == 1

\* DequeueByAddresses: the front if it is a group or a management frame, else
\* the first packet for one of dests, else the front all the same.
PositionByAddressesLast(q, dests) ==   \* mutant: the search starts at the back
  LET matches == {k \in DOMAIN q.items : q.items[k].to \in dests}
  IN  IF q.items[1].to = Group \/ q.items[1].mgt \/ matches = {} THEN 1
      ELSE CHOOSE k \in matches : \A j \in matches : k >= j

PositionByAddresses(q, dests) ==
  LET matches == {k \in DOMAIN q.items : q.items[k].to \in dests}
  IN  IF q.items[1].to = Group \/ q.items[1].mgt \/ matches = {} THEN 1
      ELSE CHOOSE k \in matches : \A j \in matches : k <= j

-----------------------------------------------------------------------------
(* What only EdcaTxopN uses.  Packets with a receiver are QoS data unless   *)
(* they are management frames; all have the one TID of the access category. *)

PushFrontUncounted(q, p) ==   \* mutant: m_size is not raised
  LET c == Cleanup(q)
  IN  IF Full(c) THEN c ELSE [c EXCEPT !.items = <<p>> \o @]

PushFront(q, p) ==
  LET c == Cleanup(q)
  IN  IF Full(c) THEN c
      ELSE [c EXCEPT !.items = <<p>> \o @, !.size = @ + 1]

\* GetNPacketsByTidAndAddress.
NPackets(q, to) ==
  Len(SelectSeq(Cleanup(q).items, LAMBDA p : p.to = to /\ ~p.mgt))

AvailableToAll(q, blocked) ==   \* mutant: the blocked destinations are ignored
  DOMAIN Cleanup(q).items

\* The positions, after Cleanup, of packets not blocked.
Available(q, blocked) ==
  LET items == Cleanup(q).items
  IN  {k \in DOMAIN items : items[k].mgt \/ items[k].to \notin blocked}

\* PeekFirstAvailable, DequeueFirstAvailable: the position they choose.
FirstAvailable(q, blocked) ==
  LET available == Available(q, blocked)
  IN  CHOOSE k \in available : \A j \in available : k <= j
=============================================================================
