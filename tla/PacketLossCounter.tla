-------------------------- MODULE PacketLossCounter --------------------------
(***************************************************************************)
(* applications/model/packet-loss-counter.cc: counts the packets of a flow *)
(* that were lost, from the sequence numbers of those that arrived and a   *)
(* bit map of one window.  The sender numbers its packets 0, 1, 2, ...;    *)
(* sender and network are not part of the repository: packets are lost,    *)
(* duplicated and reordered in any way.                                    *)
(***************************************************************************)
EXTENDS Integers, FiniteSets

CONSTANTS WindowSize,   \* bits of m_receiveBitMap, a multiple of 8 in the code
          MaxSeq        \* bound: the last sequence number sent

ASSUME CounterAssumption ==
  /\ WindowSize \in Nat \ {0}
  /\ MaxSeq \in Nat

VARIABLES receiveBitMap,   \* m_receiveBitMap: the bit of each slot
          lastMaxSeqNum,   \* m_lastMaxSeqNum
          lost,            \* m_lost
          received,        \* ghost: the packets that arrived in time
          late             \* ghost: whether any came when it had left the window

vars == <<receiveBitMap, lastMaxSeqNum, lost, received, late>>

Slots == 0..(WindowSize - 1)
Slot(seq) == seq % WindowSize

InitCleared ==   \* mutant: the bit map starts with zeros
  /\ receiveBitMap = [b \in Slots |-> FALSE]
  /\ lastMaxSeqNum = 0
  /\ lost = 0
  /\ received = {} /\ late = FALSE

\* The constructor: every bit is set, as if a window had been received before.
Init ==
  /\ receiveBitMap = [b \in Slots |-> TRUE]
  /\ lastMaxSeqNum = 0
  /\ lost = 0
  /\ received = {} /\ late = FALSE

\* The numbers the loop goes through: from the newest so far to seq.
Passed(seq) == (lastMaxSeqNum + 1)..seq

FoundLostOnce(seq) ==   \* mutant: a gap of more than a window is overlooked
  {i \in Passed(seq) : ~receiveBitMap[Slot(i)]}

\* Those whose slot says that the packet one window before did not arrive: the
\* bit was 0, or the loop itself cleared it one window before.
FoundLost(seq) ==
  {i \in Passed(seq) : i > lastMaxSeqNum + WindowSize \/ ~receiveBitMap[Slot(i)]}

\* The slots passed are cleared, then that of seq is set.
Marked(seq) ==
  [b \in Slots |->
     b = Slot(seq) \/ (receiveBitMap[b] /\ \A i \in Passed(seq) : Slot(i) # b)]

NewestIsNext(seq) == seq + 1   \* mutant: keeps the number that is due

Newest(seq) == IF seq > lastMaxSeqNum THEN seq ELSE lastMaxSeqNum

\* A packet that has left the window: nothing in the code asks for this.
TooLate(seq) == seq + WindowSize <= lastMaxSeqNum

NotifyReceived(seq) ==
  /\ lost' = lost + Cardinality(FoundLost(seq))
  /\ receiveBitMap' = Marked(seq)
  /\ lastMaxSeqNum' = Newest(seq)
  /\ received' = IF TooLate(seq) THEN received ELSE received \cup {seq}
  /\ late' = (late \/ TooLate(seq))

Next == \E seq \in 0..MaxSeq : NotifyReceived(seq)

Spec == Init /\ [][Next]_vars

-----------------------------------------------------------------------------
(* Properties *)

\* Types; the bit map has a bit for every slot.
TypeOK ==
  /\ receiveBitMap \in [Slots -> BOOLEAN]
  /\ lastMaxSeqNum \in 0..MaxSeq
  /\ lost \in Nat
  /\ received \subseteq 0..MaxSeq
  /\ late \in BOOLEAN

\* The packets from first on that left the window before they arrived.
MissingFrom(first) == {s \in first..(lastMaxSeqNum - WindowSize) : s \notin received}

\* Packet 0 is not among them: its bit is set by the constructor and not cleared
\* before packet WindowSize looks at it, so its loss is not counted (LostFromFirst).
Missing == MissingFrom(1)

\* As long as no packet arrives after it has left the window, GetLost () is exact
\* about the packets after the first that have left it: each is counted once if
\* it never arrived and never if it did, whatever was reordered, duplicated or lost
\* in a row longer than the bit map (packet-loss-counter.cc, NotifyReceived).
LostIsExact == ~late => lost = Cardinality(Missing)

\* However late packets arrive, none is counted that arrived in time, and none
\* twice: a late packet can only hide the loss of another one, whose bit it sets.
NeverOvercounts == lost <= Cardinality(Missing)

\* packet-loss-counter.h: "All the packets outside a given window (i.e., too old
\* wit respect to the last sequence number seen) are considered lost".  Taken for
\* the first packet too, and for packets that come when they have left the window.
LostFromFirst == ~late => lost = Cardinality(MissingFrom(0))
LostHoweverLate == lost = Cardinality(Missing)
=============================================================================
