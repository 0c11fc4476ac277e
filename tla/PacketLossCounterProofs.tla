----------------------- MODULE PacketLossCounterProofs -----------------------
(***************************************************************************)
(* For every size of the bit map and every length of the flow the loss     *)
(* count never overcounts, and is exact unless a packet was late by the    *)
(* whole bit map.                                                          *)
(***************************************************************************)
EXTENDS PacketLossCounter, FunctionTheorems, FiniteSetTheorems, TLAPS

-----------------------------------------------------------------------------
(* Slots of the bit map.                                                   *)

LEMMA SlotIsResidue ==
  ASSUME NEW i \in Int
  PROVE  /\ Slot(i) \in Slots
         /\ i \div WindowSize \in Int
         /\ i = WindowSize * (i \div WindowSize) + Slot(i)
  BY CounterAssumption DEF Slot, Slots

\* Numbers that share a slot are a window apart.
LEMMA SharedSlot ==
  ASSUME NEW i \in Int, NEW j \in Int, Slot(i) = Slot(j), i < j
  PROVE  j - i >= WindowSize
<1> DEFINE p == i \div WindowSize
           q == j \div WindowSize
<1>1. /\ p \in Int /\ i = WindowSize * p + Slot(i)
      /\ q \in Int /\ j = WindowSize * q + Slot(i)
      /\ Slot(i) \in Int /\ WindowSize \in Nat \ {0}
  <2>1. /\ Slot(i) \in Slots /\ p \in Int /\ q \in Int
        /\ i = WindowSize * p + Slot(i) /\ j = WindowSize * q + Slot(j)
    BY SlotIsResidue
  <2> HIDE DEF p, q
  <2> QED  BY <2>1, CounterAssumption DEF Slots
<1> HIDE DEF p, q
<1>2. j - i = WindowSize * (q - p)  BY <1>1
<1>3. q - p >= 1  BY <1>1, <1>2
<1>4. WindowSize * (q - p) >= WindowSize  BY <1>1, <1>3
<1> QED  BY <1>2, <1>4

\* A number and the one a window later share a slot.
LEMMA SlotRepeats ==
  ASSUME NEW i \in Int
  PROVE  Slot(i + WindowSize) = Slot(i)
<1> DEFINE p == i \div WindowSize
           q == (i + WindowSize) \div WindowSize
           r == Slot(i)
           s == Slot(i + WindowSize)
<1>1. WindowSize \in Nat \ {0} /\ i + WindowSize \in Int
  BY CounterAssumption
<1>2. /\ p \in Int /\ i = WindowSize * p + r
      /\ q \in Int /\ i + WindowSize = WindowSize * q + s
      /\ r \in 0..(WindowSize - 1) /\ s \in 0..(WindowSize - 1)
  BY <1>1, SlotIsResidue DEF Slots
<1> HIDE DEF p, q, r, s
<1> DEFINE d == q - p - 1
<1>3. d \in Int /\ r - s = WindowSize * d  BY <1>1, <1>2
<1> HIDE DEF d
<1>4. CASE d >= 1
  <2>1. WindowSize * d >= WindowSize  BY <1>1, <1>3, <1>4
  <2> QED  BY <1>1, <1>2, <1>3, <2>1
<1>5. CASE d <= -1
  <2>1. WindowSize * d <= -WindowSize  BY <1>1, <1>3, <1>5
  <2> QED  BY <1>1, <1>2, <1>3, <2>1
<1>6. CASE d = 0
  BY <1>1, <1>2, <1>3, <1>6 DEF r, s
<1> QED  BY <1>3, <1>4, <1>5, <1>6

-----------------------------------------------------------------------------
(* Type correctness.                                                       *)

LEMMA FoundLostFinite ==
  ASSUME TypeOK, NEW seq \in Nat
  PROVE  Cardinality(FoundLost(seq)) \in Nat
<1>1. IsFiniteSet(Passed(seq))
  BY FS_Interval, CounterAssumption DEF Passed, TypeOK
<1>2. FoundLost(seq) \in SUBSET Passed(seq)
  BY DEF FoundLost
<1> QED  BY <1>1, <1>2, FS_Subset, FS_CardinalityType

\* The counters stay natural numbers and the newest number is one that was sent
\* (packet-loss-counter.cc, NotifyReceived).
THEOREM TypeCorrect == Spec => []TypeOK
<1>1. Init => TypeOK
  <2> SUFFICES ASSUME Init  PROVE TypeOK
    OBVIOUS
  <2>1. late \in BOOLEAN  BY DEF Init
  <2>2. /\ receiveBitMap \in [Slots -> BOOLEAN]
        /\ lastMaxSeqNum \in 0..MaxSeq /\ lost \in Nat /\ received \subseteq 0..MaxSeq
    BY CounterAssumption DEF Init
  <2> QED  BY <2>1, <2>2 DEF TypeOK
<1>2. TypeOK /\ [Next]_vars => TypeOK'
  <2> SUFFICES ASSUME TypeOK, [Next]_vars  PROVE TypeOK'
    OBVIOUS
  <2>1. ASSUME NEW seq \in 0..MaxSeq, NotifyReceived(seq)  PROVE TypeOK'
    <3>1. seq \in Nat  BY <2>1, CounterAssumption
    <3>2. lost' \in Nat
      BY <2>1, <3>1, FoundLostFinite DEF NotifyReceived, TypeOK
    <3>3. receiveBitMap' \in [Slots -> BOOLEAN]
      BY <2>1 DEF NotifyReceived, Marked, TypeOK
    <3>4. lastMaxSeqNum' \in 0..MaxSeq
      BY <2>1 DEF NotifyReceived, Newest, TypeOK
    <3>5. received' \subseteq 0..MaxSeq
      BY <2>1 DEF NotifyReceived, TypeOK
    <3>6. late' \in BOOLEAN
      BY <2>1 DEF NotifyReceived
    <3> QED  BY <3>2, <3>3, <3>4, <3>5, <3>6 DEF TypeOK
  <2>2. CASE UNCHANGED vars
    BY <2>2 DEF vars, TypeOK
  <2> QED  BY <2>1, <2>2 DEF Next
<1> QED  BY <1>1, <1>2, PTL DEF Spec

-----------------------------------------------------------------------------
(* The invariant: what the bits mean.                                      *)

\* Nothing newer than the newest number arrived, and a number of the last window
\* that arrived has its bit; the numbers before the first packet's and its own
\* count as received.  Only a late packet sets the bit of one that did not arrive.
BitsAreReceived ==
  /\ \A s \in received : s <= lastMaxSeqNum
  /\ \A i \in (lastMaxSeqNum - WindowSize + 1)..lastMaxSeqNum :
       /\ i <= 0 \/ i \in received => receiveBitMap[Slot(i)]
       /\ ~late /\ receiveBitMap[Slot(i)] => i <= 0 \/ i \in received

Inductive == TypeOK /\ BitsAreReceived /\ LostIsExact /\ NeverOvercounts

LEMMA InitInductive == Init => Inductive
<1> SUFFICES ASSUME Init  PROVE Inductive
  OBVIOUS
<1>1. TypeOK
  <2>1. late \in BOOLEAN  BY DEF Init
  <2>2. /\ receiveBitMap \in [Slots -> BOOLEAN]
        /\ lastMaxSeqNum \in 0..MaxSeq /\ lost \in Nat /\ received \subseteq 0..MaxSeq
    BY CounterAssumption DEF Init
  <2> QED  BY <2>1, <2>2 DEF TypeOK
<1>2. BitsAreReceived
  <2>1. ASSUME NEW i \in (0 - WindowSize + 1)..0  PROVE receiveBitMap[Slot(i)] /\ i <= 0
    <3>1. i \in Int /\ i <= 0  BY <2>1, CounterAssumption
    <3> QED  BY <3>1, SlotIsResidue DEF Init
  <2> QED  BY <2>1 DEF Init, BitsAreReceived
<1>3. Missing = {}  BY CounterAssumption DEF Missing, MissingFrom, Init
<1>4. lost = 0 /\ Cardinality(Missing) = 0  BY <1>3, FS_EmptySet DEF Init
<1> QED  BY <1>1, <1>2, <1>4 DEF Inductive, LostIsExact, NeverOvercounts

\* What the window gains at its old end when seq is the newest number.
Left(seq) ==
  {s \in (lastMaxSeqNum - WindowSize + 1)..(seq - WindowSize) : s >= 1 /\ s \notin received}

\* The loop finds lost only numbers that leave the window, each at the number one
\* window later; and all of them while no packet was late.
LEMMA LoopFindsLeft ==
  ASSUME TypeOK, BitsAreReceived, NEW seq \in Nat, NEW i \in Int
  PROVE  /\ i \in FoundLost(seq) => i - WindowSize \in Left(seq)
         /\ ~late /\ i - WindowSize \in Left(seq) => i \in FoundLost(seq)
<1> DEFINE s == i - WindowSize
<1>1. /\ s \in Int /\ i = s + WindowSize /\ WindowSize \in Nat \ {0}
      /\ lastMaxSeqNum \in Nat
  BY CounterAssumption DEF TypeOK
<1>2. i \in Passed(seq) <=> s \in (lastMaxSeqNum - WindowSize + 1)..(seq - WindowSize)
  BY <1>1 DEF Passed
<1>3. Slot(i) = Slot(s)  BY <1>1, SlotRepeats
<1> HIDE DEF s
<1>4. CASE s > lastMaxSeqNum
  <2>1. s >= 1 /\ s \notin received  BY <1>1, <1>4 DEF BitsAreReceived
  <2>2. i > lastMaxSeqNum + WindowSize  BY <1>1, <1>4
  <2> QED  BY <1>1, <1>2, <2>1, <2>2 DEF FoundLost, Left, s
<1>5. CASE s \in (lastMaxSeqNum - WindowSize + 1)..lastMaxSeqNum
  <2>1. /\ s <= 0 \/ s \in received => receiveBitMap[Slot(i)]
        /\ ~late /\ receiveBitMap[Slot(i)] => s <= 0 \/ s \in received
    BY <1>3, <1>5 DEF BitsAreReceived
  <2>2. ~(i > lastMaxSeqNum + WindowSize)  BY <1>1, <1>5
  <2>3. s >= 1 <=> ~(s <= 0)  BY <1>1
  <2> QED  BY <1>2, <2>1, <2>2, <2>3 DEF FoundLost, Left, s
<1>6. CASE ~(s >= lastMaxSeqNum - WindowSize + 1)
  BY <1>1, <1>2, <1>6 DEF FoundLost, Left, s
<1> QED  BY <1>1, <1>4, <1>5, <1>6

LEMMA AsManyFoundAsLeft ==
  ASSUME TypeOK, BitsAreReceived, NEW seq \in Nat
  PROVE  /\ IsFiniteSet(Left(seq))
         /\ Cardinality(FoundLost(seq)) \in Nat
         /\ Cardinality(FoundLost(seq)) <= Cardinality(Left(seq))
         /\ ~late => Cardinality(FoundLost(seq)) = Cardinality(Left(seq))
<1> DEFINE Later == {s + WindowSize : s \in Left(seq)}
           f == [s \in Left(seq) |-> s + WindowSize]
<1>1. WindowSize \in Nat \ {0} /\ lastMaxSeqNum \in Nat
  BY CounterAssumption DEF TypeOK
<1>2. IsFiniteSet(Left(seq))
  <2>1. IsFiniteSet((lastMaxSeqNum - WindowSize + 1)..(seq - WindowSize))
    BY <1>1, FS_Interval
  <2> QED  BY <2>1, FS_Subset DEF Left
<1>3. Left(seq) \subseteq Int /\ FoundLost(seq) \subseteq Int
  BY <1>1 DEF Left, FoundLost, Passed
<1>4. f \in Bijection(Left(seq), Later)
  <2>1. \A s, t \in Left(seq) : f[s] = f[t] => s = t
    BY <1>1, <1>3
  <2> QED  BY <2>1 DEF Bijection, Injection, Surjection, IsInjective
<1>5. IsFiniteSet(Later) /\ Cardinality(Later) = Cardinality(Left(seq))
  BY <1>2, <1>4, FS_Bijection DEF ExistsBijection
<1>6. FoundLost(seq) \subseteq Later
  <2> SUFFICES ASSUME NEW i \in FoundLost(seq)
               PROVE  i - WindowSize \in Left(seq) /\ (i - WindowSize) + WindowSize = i
    OBVIOUS
  <2> QED  BY <1>1, <1>3, LoopFindsLeft
<1>7. ~late => Later \subseteq FoundLost(seq)
  <2> SUFFICES ASSUME ~late, NEW s \in Left(seq)  PROVE s + WindowSize \in FoundLost(seq)
    OBVIOUS
  <2>1. s \in Int /\ s + WindowSize \in Int /\ (s + WindowSize) - WindowSize = s
    BY <1>1, <1>3
  <2> QED  BY <2>1, LoopFindsLeft
<1> HIDE DEF Later, f
<1>8. /\ Cardinality(FoundLost(seq)) \in Nat
      /\ Cardinality(FoundLost(seq)) <= Cardinality(Later)
  BY <1>5, <1>6, FS_Subset, FS_CardinalityType
<1>9. ~late => FoundLost(seq) = Later
  BY <1>6, <1>7
<1> QED  BY <1>2, <1>5, <1>8, <1>9

LEMMA StepKeepsCount ==
  ASSUME Inductive, NEW seq \in 0..MaxSeq, NotifyReceived(seq)
  PROVE  LostIsExact' /\ NeverOvercounts'
<1>1. /\ seq \in Nat /\ WindowSize \in Nat \ {0} /\ lastMaxSeqNum \in Nat
      /\ lost \in Nat /\ (~late' => ~late)
      /\ lastMaxSeqNum' = Newest(seq)
      /\ received' = IF seq + WindowSize <= lastMaxSeqNum THEN received ELSE received \cup {seq}
      /\ lost' = lost + Cardinality(FoundLost(seq))
      /\ lost <= Cardinality(Missing) /\ (~late => lost = Cardinality(Missing))
      /\ \A s \in received : s <= lastMaxSeqNum
  BY CounterAssumption DEF Inductive, TypeOK, NotifyReceived, TooLate, LostIsExact,
                           NeverOvercounts, BitsAreReceived
<1>2. IsFiniteSet(Missing)
  <2>1. IsFiniteSet(1..(lastMaxSeqNum - WindowSize))  BY <1>1, FS_Interval
  <2> QED  BY <2>1, FS_Subset DEF Missing, MissingFrom
<1>3. /\ IsFiniteSet(Left(seq))
      /\ Cardinality(FoundLost(seq)) \in Nat
      /\ Cardinality(FoundLost(seq)) <= Cardinality(Left(seq))
      /\ ~late => Cardinality(FoundLost(seq)) = Cardinality(Left(seq))
  BY <1>1, AsManyFoundAsLeft DEF Inductive
<1>4. Missing' = Missing \cup Left(seq)
  <2>1. CASE seq > lastMaxSeqNum
    <3>1. lastMaxSeqNum' = seq  BY <1>1, <2>1 DEF Newest
    <3>2. ASSUME NEW s PROVE s \in Missing' <=> s \in Missing \cup Left(seq)
      BY <1>1, <2>1, <3>1 DEF Missing, MissingFrom, Left
    <3> QED  BY <3>2
  <2>2. CASE ~(seq > lastMaxSeqNum)
    <3>1. lastMaxSeqNum' = lastMaxSeqNum  BY <1>1, <2>2 DEF Newest
    <3>2. Left(seq) = {}  BY <1>1, <2>2 DEF Left
    <3>3. ASSUME NEW s PROVE s \in Missing' <=> s \in Missing
      BY <1>1, <2>2, <3>1 DEF Missing, MissingFrom
    <3> QED  BY <3>2, <3>3
  <2> QED  BY <2>1, <2>2
<1>5. Missing \cap Left(seq) = {}
  BY <1>1 DEF Missing, MissingFrom, Left
<1>6. /\ Cardinality(Missing) \in Nat /\ Cardinality(Left(seq)) \in Nat
      /\ Cardinality(Missing') = Cardinality(Missing) + Cardinality(Left(seq))
  <2>1. Cardinality({}) = 0  BY FS_EmptySet
  <2>2. Cardinality(Missing) \in Nat /\ Cardinality(Left(seq)) \in Nat
    BY <1>2, <1>3, FS_CardinalityType
  <2> QED  BY <1>2, <1>3, <1>4, <1>5, <2>1, <2>2, FS_Union
<1> QED  BY <1>1, <1>3, <1>6 DEF LostIsExact, NeverOvercounts

LEMMA StepKeepsBits ==
  ASSUME Inductive, NEW seq \in 0..MaxSeq, seq > lastMaxSeqNum - WindowSize,
         NotifyReceived(seq)
  PROVE  BitsAreReceived'
<1>1. /\ seq \in Nat /\ WindowSize \in Nat \ {0} /\ lastMaxSeqNum \in Nat
      /\ lastMaxSeqNum' = Newest(seq) /\ received' = received \cup {seq}
      /\ receiveBitMap' = Marked(seq) /\ late' = late
      /\ \A s \in received : s <= lastMaxSeqNum
  <2>1. WindowSize \in Nat \ {0} /\ lastMaxSeqNum \in Nat /\ seq \in Nat /\ late \in BOOLEAN
    BY CounterAssumption DEF Inductive, TypeOK
  <2>2. ~TooLate(seq)  BY <2>1 DEF TooLate
  <2> QED  BY <2>1, <2>2 DEF Inductive, NotifyReceived, BitsAreReceived
<1>2. \A s \in received' : s <= lastMaxSeqNum'
  <2>1. received \subseteq Nat  BY CounterAssumption DEF Inductive, TypeOK
  <2> QED  BY <1>1, <2>1 DEF Newest
<1>3. ASSUME NEW i \in (lastMaxSeqNum' - WindowSize + 1)..lastMaxSeqNum'
      PROVE  /\ i <= 0 \/ i \in received' => receiveBitMap'[Slot(i)]
             /\ ~late' /\ receiveBitMap'[Slot(i)] => i <= 0 \/ i \in received'
  <2>1. /\ i \in Int /\ lastMaxSeqNum' \in Nat
        /\ i <= lastMaxSeqNum' /\ i > lastMaxSeqNum' - WindowSize
        /\ seq <= lastMaxSeqNum' /\ lastMaxSeqNum <= lastMaxSeqNum'
        /\ seq > lastMaxSeqNum' - WindowSize
    BY <1>1 DEF Newest
  <2>2. Slot(i) \in Slots  BY <2>1, SlotIsResidue
  <2>3. receiveBitMap'[Slot(i)] <=>
          \/ Slot(i) = Slot(seq)
          \/ receiveBitMap[Slot(i)] /\ \A j \in Passed(seq) : Slot(j) # Slot(i)
    BY <1>1, <2>2 DEF Marked
  <2>4. Slot(i) = Slot(seq) <=> i = seq
    <3>1. ~(Slot(i) = Slot(seq) /\ i < seq)
      BY <1>1, <2>1, SharedSlot
    <3>2. ~(Slot(i) = Slot(seq) /\ seq < i)
      BY <1>1, <2>1, SharedSlot
    <3> QED  BY <1>1, <2>1, <3>1, <3>2
  <2>5. CASE i = seq
    BY <1>1, <2>3, <2>4, <2>5
  <2>6. CASE i # seq /\ i > lastMaxSeqNum
    <3>1. i \in Passed(seq)
      BY <1>1, <2>1, <2>6 DEF Passed, Newest
    <3>2. ~(i <= 0) /\ i \notin received'
      BY <1>1, <2>1, <2>6
    <3> QED  BY <2>3, <2>4, <2>6, <3>1, <3>2
  <2>7. CASE i # seq /\ ~(i > lastMaxSeqNum)
    <3>1. /\ i <= 0 \/ i \in received => receiveBitMap[Slot(i)]
          /\ ~late /\ receiveBitMap[Slot(i)] => i <= 0 \/ i \in received
      <4>1. i \in (lastMaxSeqNum - WindowSize + 1)..lastMaxSeqNum
        BY <1>1, <2>1, <2>7
      <4> QED  BY <4>1 DEF Inductive, BitsAreReceived
    <3>2. ASSUME NEW j \in Passed(seq)  PROVE Slot(j) # Slot(i)
      <4>1. j \in Int /\ i < j /\ j - i < WindowSize
        BY <1>1, <2>1, <2>7 DEF Passed
      <4> QED  BY <2>1, <4>1, <1>1, SharedSlot
    <3> QED  BY <1>1, <2>3, <2>4, <2>7, <3>1, <3>2
  <2> QED  BY <2>5, <2>6, <2>7
<1> QED  BY <1>2, <1>3 DEF BitsAreReceived

\* A packet that comes when it has left the window sets a bit, and no more.
LEMMA LateStepKeepsBits ==
  ASSUME Inductive, NEW seq \in 0..MaxSeq, ~(seq > lastMaxSeqNum - WindowSize),
         NotifyReceived(seq)
  PROVE  BitsAreReceived'
<1>1. WindowSize \in Nat \ {0} /\ lastMaxSeqNum \in Nat /\ seq \in Nat
  BY CounterAssumption DEF Inductive, TypeOK
<1>2. TooLate(seq) /\ Newest(seq) = lastMaxSeqNum /\ Passed(seq) = {}
  BY <1>1 DEF TooLate, Newest, Passed
<1>3. /\ lastMaxSeqNum' = lastMaxSeqNum /\ received' = received /\ late'
      /\ receiveBitMap' = Marked(seq)
  BY <1>2 DEF NotifyReceived
<1>4. \A b \in Slots : receiveBitMap[b] => receiveBitMap'[b]
  BY <1>2, <1>3 DEF Marked
<1>5. \A i \in Int : Slot(i) \in Slots  BY SlotIsResidue
<1> QED  BY <1>1, <1>3, <1>4, <1>5 DEF Inductive, BitsAreReceived

LEMMA InductiveAlways ==
  Spec => []Inductive
<1>1. Inductive /\ [Next]_vars => Inductive'
  <2> SUFFICES ASSUME Inductive, [Next]_vars  PROVE Inductive'
    OBVIOUS
  <2>1. ASSUME NEW seq \in 0..MaxSeq, NotifyReceived(seq)
        PROVE  Inductive'
    <3>1. TypeOK'
      <4>1. lost' \in Nat
        BY <2>1, FoundLostFinite, CounterAssumption DEF NotifyReceived, TypeOK, Inductive
      <4> QED  BY <2>1, <4>1 DEF NotifyReceived, Marked, Newest, TypeOK, Inductive
    <3>2. BitsAreReceived'
      BY <2>1, StepKeepsBits, LateStepKeepsBits
    <3> QED  BY <2>1, <3>1, <3>2, StepKeepsCount DEF Inductive
  <2>2. CASE UNCHANGED vars
    BY <2>2 DEF vars, Inductive, TypeOK, BitsAreReceived, LostIsExact, NeverOvercounts,
                Missing, MissingFrom
  <2> QED  BY <2>1, <2>2 DEF Next
<1> QED  BY <1>1, InitInductive, PTL DEF Spec

\* As long as no packet came when it had left the window the count is exact for
\* every packet but the first that has left it, whatever was lost, duplicated or
\* reordered (packet-loss-counter.cc, NotifyReceived).
THEOREM LossCountIsExact == Spec => []LostIsExact
<1>1. Inductive => LostIsExact  BY DEF Inductive
<1> QED  BY <1>1, InductiveAlways, PTL

\* However late packets come, the count never exceeds the packets missing: a late
\* packet sets a bit and clears none (packet-loss-counter.cc, NotifyReceived).
THEOREM LossCountIsSafe == Spec => []NeverOvercounts
<1>1. Inductive => NeverOvercounts  BY DEF Inductive
<1> QED  BY <1>1, InductiveAlways, PTL
=============================================================================
