---------------------------- MODULE DcaTxopProofs ----------------------------
(***************************************************************************)
(* What holds of DcaTxop for any number of clients, any limit, lifetime    *)
(* and epoch length.                                                       *)
(***************************************************************************)
EXTENDS DcaTxop, WifiMacQueueProofs

LEMMA CountedQueue ==
  ASSUME NEW q
  PROVE  Counted(Packets, q) <=> q \in Queues /\ q.size = Len(q.items)
  BY DEF Counted, Queues

LEMMA OlderPacket ==
  ASSUME NEW p \in Packets
  PROVE  Older(p) \in Packets /\ (Expired(p) => Expired(Older(p)))
<1>1. p = [to |-> p.to, mgt |-> p.mgt, age |-> p.age] /\ p.age \in Nat
  BY DEF Packets
<1>2. CASE p.age < Lifetime
  <2>1. /\ Older(p).to = p.to /\ Older(p).mgt = p.mgt /\ Older(p).age = p.age + 1
        /\ Older(p) \in Packets
    BY <1>1, <1>2 DEF Older, Packets
  <2> QED  BY <1>1, <1>2, <2>1, QueueAssumption DEF Expired, Forever
<1>3. CASE ~(p.age < Lifetime)
  BY <1>3 DEF Older
<1> QED  BY <1>2, <1>3

\* A packet held is not None.
LEMMA NoneIsNoPacket == None \notin Packets
  BY DEF None, Packets

LEMMA FlushCounts ==
  ASSUME NEW q, Counted(Packets, q)
  PROVE  Counted(Packets, Flush(q)) /\ IsEmpty(Flush(q))
<1> DEFINE list == << >>
           n == 0
<1>1. list \in Seq(Packets) /\ n = Len(list)  OBVIOUS
<1>2. Flush(q) = [q EXCEPT !.items = list, !.size = n]  BY DEF Flush
<1>3. Flush(q).items = << >>  BY DEF Flush, Counted
<1> HIDE DEF list, n
<1>4. Counted(Packets, Flush(q))
  <2>1. Counted(Packets, [q EXCEPT !.items = list, !.size = n])
    BY <1>1, UpdateCounts
  <2> QED  BY <2>1, <1>2
<1>5. DOMAIN Flush(q).items = {}  BY <1>3
<1>6. IsEmpty(Flush(q)) <=> \A k \in DOMAIN Flush(q).items : Expired(Flush(q).items[k])
  BY <1>4, EmptyIsExpired
<1> QED  BY <1>4, <1>5, <1>6

\* The packet that Dequeue or DequeueByAddresses takes is one of the queue.
LEMMA PositionInside ==
  ASSUME NEW q, Counted(Packets, q), q.items # << >>
  PROVE  NextPosition(q) \in DOMAIN q.items
<1>1. q.items \in Seq(Packets) /\ DOMAIN q.items = 1..Len(q.items) /\ Len(q.items) \in Nat
  BY DEF Counted
<1>2. 1 \in DOMAIN q.items  BY <1>1
<1> DEFINE matches == {k \in DOMAIN q.items : q.items[k].to \in active'}
<1>3. matches # {} => \E k \in matches : \A j \in matches : k <= j
  <2>1. matches \in SUBSET Nat  BY <1>1
  <2> HIDE DEF matches
  <2> QED  BY <2>1, Least
<1>4. matches # {} =>
        (CHOOSE k \in matches : \A j \in matches : k <= j) \in DOMAIN q.items
  BY <1>3
<1> QED  BY <1>2, <1>4 DEF NextPosition, FrontPosition, PositionByAddresses

-----------------------------------------------------------------------------
(* Type correctness and the count.                                         *)

Inductive == TypeOK /\ SizeCountsItems

LEMMA InductiveCounts == Inductive => Counted(Packets, queue)
  BY CountedQueue DEF Inductive, TypeOK, SizeCountsItems

LEMMA RestartKeepsCount ==
  ASSUME NEW q, Counted(Packets, q), NEW held, RestartAccessIfNeeded(q, held)
  PROVE  Counted(Packets, queue')
  BY CleanupCounts DEF RestartAccessIfNeeded

LEMMA ScheduleKeepsTypes ==
  ASSUME TypeOK, Schedule
  PROVE  /\ isAp' \in Roles /\ clients' \in Seq(Clients)
         /\ schedI' \in DOMAIN clients' \cup {End}
         /\ active' \subseteq Clients
         /\ epochAge' \in 0..EpochLength
         /\ waited' \in [Clients -> Nat]
<1>1. CASE isAp /\ epochAge >= EpochLength
  <2>0. NewEpoch  BY <1>1 DEF Schedule
  <2>1. /\ clients \in Seq(Clients) /\ Len(clients) \in Nat
        /\ DOMAIN clients = 1..Len(clients) /\ NumClients \in Nat \ {0}
        /\ EpochLength \in Nat /\ schedI \in DOMAIN clients \cup {End}
    BY TxopAssumption DEF TypeOK
  <2>2. FirstScheduled \in DOMAIN clients \cup {End}
    BY <2>1 DEF FirstScheduled, End
  <2>3. AfterBatch(FirstScheduled) \in DOMAIN clients \cup {End}
    <3> DEFINE f == FirstScheduled
    <3> HIDE DEF f
    <3>1. f \in 1..Len(clients) \cup {End}  BY <2>1, <2>2 DEF f
    <3>2. AfterBatch(f) \in DOMAIN clients \cup {End}
      BY <2>1, <3>1 DEF AfterBatch, End
    <3> QED  BY <3>2 DEF f
  <2>4. active' \subseteq Clients
    BY <2>0, <2>1 DEF NewEpoch, Batch
  <2>5. waited' \in [Clients -> Nat]
    <3>1. \A c \in Clients : SatOut(waited[c]) \in Nat
      BY DEF SatOut, TypeOK
    <3> QED  BY <2>0, <3>1 DEF NewEpoch
  <2>6. epochAge' \in 0..EpochLength  BY <2>0, <2>1 DEF NewEpoch
  <2> QED  BY <2>0, <2>3, <2>4, <2>5, <2>6 DEF NewEpoch, TypeOK
<1>2. CASE ~(isAp /\ epochAge >= EpochLength)
  BY <1>2 DEF Schedule, rrVars, TypeOK
<1> QED  BY <1>1, <1>2

\* The packet that is fetched, if one is.
LEMMA FetchedPacket ==
  ASSUME Inductive, NotifyAccessGranted, current = None, ~IsEmpty(queue)
  PROVE  /\ Schedule
         /\ current' \in Packets /\ ~Expired(current')
         /\ Counted(Packets, queue')
<1> DEFINE q == Cleanup(queue)
<1>1. /\ Schedule
      /\ current' = q.items[NextPosition(q)]
      /\ queue' = TakeAt(q, NextPosition(q))
  BY DEF NotifyAccessGranted
<1>2. /\ Counted(Packets, q) /\ q.items = Kept(queue.items) /\ q.items # << >>
      /\ queue.items \in Seq(Packets)
  BY InductiveCounts, CleanupCounts DEF IsEmpty, Counted
<1>3. \A k \in DOMAIN q.items : ~Expired(q.items[k])
  BY <1>2, KeptProperties
<1> HIDE DEF q
<1>4. NextPosition(q) \in DOMAIN q.items  BY <1>2, PositionInside
<1> QED  BY <1>1, <1>2, <1>3, <1>4, TakeAtCounts

LEMMA StepKeepsInductive == Inductive /\ [Next]_vars => Inductive'
<1> SUFFICES ASSUME Inductive, [Next]_vars  PROVE TypeOK' /\ Counted(Packets, queue')
  BY CountedQueue DEF Inductive, SizeCountsItems, TypeOK
<1>0. Counted(Packets, queue) /\ TypeOK
  BY InductiveCounts DEF Inductive
<1> USE DEF TypeOK
<1>q. ASSUME Counted(Packets, queue')  PROVE queue' \in Queues
  <2> DEFINE q == queue'
  <2>1. Counted(Packets, q)  BY <1>q
  <2> HIDE DEF q
  <2>2. q \in Queues  BY <2>1, CountedQueue
  <2> QED  BY <2>2 DEF q
<1>1. ASSUME NEW to \in Clients \cup {Group}, NEW mgt \in MayBeMgt, Queue(to, mgt)
      PROVE  TypeOK' /\ Counted(Packets, queue')
  <2> DEFINE q == Enqueue(queue, Fresh(to, mgt))
  <2>1. Fresh(to, mgt) \in Packets  BY TxopAssumption DEF Fresh, Packets
  <2>2. Counted(Packets, q)  BY <1>0, <2>1, EnqueueCounts
  <2>3. Counted(Packets, queue')
    <3>1. CASE current = None  BY <1>1, <2>2, <3>1, RestartKeepsCount DEF Queue
    <3>2. CASE current # None  BY <1>1, <2>2, <3>2 DEF Queue
    <3> QED  BY <3>1, <3>2
  <2>4. clients' \in Seq(Clients) /\ DOMAIN clients \subseteq DOMAIN clients'
    <3>1. CASE clients' = clients  BY <1>0, <3>1
    <3>2. CASE to # Group /\ clients' = Append(clients, to)
      BY <1>0, <3>2
    <3> QED  BY <1>1, <3>1, <3>2 DEF Queue
  <2>5. requested' \in BOOLEAN
    BY <1>0, <1>1 DEF Queue, RestartAccessIfNeeded
  <2> QED  BY <1>0, <1>1, <1>q, <2>3, <2>4, <2>5 DEF Queue
<1>2. CASE NotifyAccessGranted
  <2>1. CASE current # None
    BY <1>0, <1>2, <2>1 DEF NotifyAccessGranted, rrVars
  <2>2. CASE current = None /\ IsEmpty(queue)
    <3>1. queue' = Cleanup(queue) /\ UNCHANGED <<current, tries, rrVars>> /\ requested' = FALSE
      BY <1>2, <2>2 DEF NotifyAccessGranted
    <3>2. Counted(Packets, queue')  BY <1>0, <3>1, CleanupCounts
    <3> QED  BY <1>0, <1>q, <3>1, <3>2 DEF rrVars
  <2>3. CASE current = None /\ ~IsEmpty(queue)
    <3>1. Schedule /\ current' \in Packets /\ Counted(Packets, queue')
      BY <1>2, <2>3, FetchedPacket
    <3>2. requested' = FALSE /\ tries' = tries  BY <1>2 DEF NotifyAccessGranted
    <3> QED  BY <1>0, <1>q, <3>1, <3>2, ScheduleKeepsTypes
  <2> QED  BY <2>1, <2>2, <2>3
<1>3. CASE ExchangeDone
  <2>1. Counted(Packets, queue')
    BY <1>0, <1>3, RestartKeepsCount DEF ExchangeDone
  <2> QED  BY <1>0, <1>3, <1>q, <2>1, TxopAssumption
           DEF ExchangeDone, RestartAccessIfNeeded, rrVars
<1>4. CASE ExchangeMissed
  <2>1. Counted(Packets, queue')
    BY <1>0, <1>4, RestartKeepsCount DEF ExchangeMissed
  <2> QED  BY <1>0, <1>4, <1>q, <2>1, TxopAssumption
           DEF ExchangeMissed, RestartAccessIfNeeded, rrVars
<1>5. CASE NotifyChannelSwitching
  <2>1. Counted(Packets, queue')
    BY <1>0, <1>5, FlushCounts DEF NotifyChannelSwitching
  <2>2. queue' \in Queues /\ 0 \in 0..RetryLimit  BY <1>q, <2>1, TxopAssumption
  <2>3. /\ current' = None /\ tries' = 0 /\ requested' = FALSE
        /\ UNCHANGED <<isAp, clients, schedI, active, epochAge, waited>>
    BY <1>5 DEF NotifyChannelSwitching, rrVars
  <2> QED  BY <1>0, <2>1, <2>2, <2>3
<1>6. CASE SetMaxSize
  <2>1. PICK max \in NewMaxSizes : queue' = [queue EXCEPT !.max = max]
    BY <1>6 DEF SetMaxSize
  <2>2. max \in Nat  BY TxopAssumption
  <2>3. Counted(Packets, [queue EXCEPT !.max = max])
    BY <1>0, <2>2 DEF Counted
  <2> QED  BY <1>0, <1>6, <1>q, <2>1, <2>3 DEF SetMaxSize, rrVars
<1>7. CASE Tick
  <2>1. Counted(Packets, AgedQueue(queue))
    BY <1>0, OlderPacket, AgedQueueCounts
  <2> QED  BY <1>0, <1>7, <1>q, <2>1, TxopAssumption DEF Tick
<1>8. CASE UNCHANGED vars
  BY <1>0, <1>8 DEF vars
<1> QED  BY <1>1, <1>2, <1>3, <1>4, <1>5, <1>6, <1>7, <1>8 DEF Next, Arrival

LEMMA InitInductive == Init => Inductive
<1> SUFFICES ASSUME Init  PROVE Inductive
  OBVIOUS
<1>1. EmptyQueue \in Queues /\ EmptyQueue.size = Len(EmptyQueue.items)
  BY QueueAssumption DEF EmptyQueue, Queues
<1>2. << >> \in Seq(Clients)  OBVIOUS
<1>3. 0 \in 0..RetryLimit /\ 0 \in 0..EpochLength /\ 0 \in Nat  BY TxopAssumption
<1>4. [c \in Clients |-> 0] \in [Clients -> Nat]  BY <1>3
<1> QED  BY <1>1, <1>2, <1>3, <1>4 DEF Init, Inductive, TypeOK, SizeCountsItems

LEMMA AlwaysInductive == Spec => []Inductive
  BY InitInductive, StepKeepsInductive, PTL DEF Spec

\* Every variable keeps its type; the position of WiFi-RR never leaves the list
\* of clients (dca-txop.cc, NotifyAccessGranted).
THEOREM TypeCorrect == Spec => []TypeOK
<1>1. Inductive => TypeOK  BY DEF Inductive
<1> QED  BY <1>1, AlwaysInductive, PTL

\* The hand-kept size of the queue is its length, whichever of its methods the
\* contender calls (wifi-mac-queue.cc, m_size).
THEOREM CountIsLength == Spec => []SizeCountsItems
<1>1. Inductive => SizeCountsItems  BY DEF Inductive
<1> QED  BY <1>1, AlwaysInductive, PTL

-----------------------------------------------------------------------------
(* No work is forgotten, nothing expired is sent.                          *)

LEMMA RestartRequests ==
  ASSUME NEW q, Counted(Packets, q), RestartAccessIfNeeded(q, None)
  PROVE  ~IsEmpty(queue') => requested'
<1>1. queue' = Cleanup(q) /\ (~IsEmpty(q) => requested')
  BY DEF RestartAccessIfNeeded
<1>2. IsEmpty(q) <=> IsEmpty(Cleanup(q))  BY EmptyIsExpired
<1> QED  BY <1>1, <1>2

\* A contender that holds nothing and has a packet to send has asked for access
\* (dca-txop.cc, StartAccessIfNeeded and RestartAccessIfNeeded).
THEOREM WorkRequested == Spec => []WaitingWorkIsRequested
<1>1. Init => WaitingWorkIsRequested
  <2> SUFFICES ASSUME Init  PROVE IsEmpty(queue)
    BY DEF WaitingWorkIsRequested
  <2>1. Counted(Packets, queue)  BY InitInductive, InductiveCounts
  <2>2. DOMAIN queue.items = {}  BY DEF Init, EmptyQueue
  <2> QED  BY <2>1, <2>2, EmptyIsExpired
<1>2. Inductive /\ WaitingWorkIsRequested /\ [Next]_vars => WaitingWorkIsRequested'
  <2> SUFFICES ASSUME Inductive, WaitingWorkIsRequested, [Next]_vars,
                      current' = None, ~IsEmpty(queue')
               PROVE  requested'
    BY DEF WaitingWorkIsRequested, IsEmpty, Cleanup
  <2>0. Counted(Packets, queue)  BY InductiveCounts
  <2>1. ASSUME NEW to \in Clients \cup {Group}, NEW mgt \in MayBeMgt, Queue(to, mgt)
        PROVE  requested'
    <3> DEFINE q == Enqueue(queue, Fresh(to, mgt))
    <3>1. Fresh(to, mgt) \in Packets  BY TxopAssumption DEF Fresh, Packets
    <3>2. Counted(Packets, q)  BY <2>0, <3>1, EnqueueCounts
    <3>3. RestartAccessIfNeeded(q, None)  BY <2>1 DEF Queue
    <3> HIDE DEF q
    <3> QED  BY <3>2, <3>3, RestartRequests
  <2>2. CASE NotifyAccessGranted
    <3>1. CASE current # None
      BY <2>2, <3>1 DEF NotifyAccessGranted
    <3>2. CASE current = None /\ IsEmpty(queue)
      <4>1. queue' = Cleanup(queue)  BY <2>2, <3>2 DEF NotifyAccessGranted
      <4>2. IsEmpty(Cleanup(queue))  BY <2>0, <3>2, EmptyIsExpired
      <4> QED  BY <4>1, <4>2
    <3>3. CASE current = None /\ ~IsEmpty(queue)
      BY <2>2, <3>3, FetchedPacket, NoneIsNoPacket
    <3> QED  BY <3>1, <3>2, <3>3
  <2>3. CASE ExchangeDone
    BY <2>0, <2>3, RestartRequests DEF ExchangeDone
  <2>4. CASE ExchangeMissed
    BY <2>4 DEF ExchangeMissed, Sending
  <2>5. CASE NotifyChannelSwitching
    BY <2>0, <2>5, FlushCounts DEF NotifyChannelSwitching
  <2>6. CASE SetMaxSize
    <3>1. PICK max \in NewMaxSizes : queue' = [queue EXCEPT !.max = max]
      BY <2>6 DEF SetMaxSize
    <3>2. [queue EXCEPT !.max = max].items = queue.items  BY <2>0 DEF Counted
    <3>3. Counted(Packets, [queue EXCEPT !.max = max])
      BY <2>0, TxopAssumption DEF Counted
    <3>4. IsEmpty([queue EXCEPT !.max = max]) <=> IsEmpty(queue)
      BY <2>0, <3>2, <3>3, EmptyIsExpired
    <3> QED  BY <2>6, <3>1, <3>4 DEF SetMaxSize, WaitingWorkIsRequested
  <2>7. CASE Tick
    <3> DEFINE aged == AgedQueue(queue)
    <3>1. /\ Counted(Packets, aged) /\ DOMAIN aged.items = DOMAIN queue.items
          /\ \A k \in DOMAIN queue.items : aged.items[k] = Older(queue.items[k])
      BY <2>0, OlderPacket, AgedQueueCounts
    <3>2. \A k \in DOMAIN queue.items : queue.items[k] \in Packets
      BY <2>0 DEF Counted
    <3> HIDE DEF aged
    <3>3. IsEmpty(queue) => IsEmpty(aged)
      BY <2>0, <3>1, <3>2, EmptyIsExpired, OlderPacket
    <3> QED  BY <2>7, <3>3 DEF Tick, WaitingWorkIsRequested, aged
  <2>8. CASE UNCHANGED vars
    BY <2>8 DEF vars, WaitingWorkIsRequested, IsEmpty, Cleanup
  <2> QED  BY <2>1, <2>2, <2>3, <2>4, <2>5, <2>6, <2>7, <2>8 DEF Next, Arrival
<1> QED  BY <1>1, <1>2, AlwaysInductive, PTL DEF Spec

\* A packet is fetched at a grant only, from a queue that is not empty.
LEMMA FetchIsGrant ==
  ASSUME Next, Fetched
  PROVE  NotifyAccessGranted /\ ~IsEmpty(queue) /\ current = None
<1>1. current = None /\ current' # None  BY DEF Fetched
<1>2. NotifyAccessGranted
  BY <1>1 DEF Next, Arrival, Queue, ExchangeDone, ExchangeMissed, Sending,
              NotifyChannelSwitching, SetMaxSize, Tick
<1> QED  BY <1>1, <1>2 DEF NotifyAccessGranted

\* A packet fetched from the queue has not reached its lifetime
\* (wifi-mac-queue.cc, Dequeue and DequeueByAddresses after Cleanup).
THEOREM NothingExpiredIsSent == Spec => NoExpiredPacketSent
<1>1. Inductive /\ [Next]_vars =>
        [Fetched /\ Lifetime # Forever => current'.age < Lifetime]_vars
  <2> SUFFICES ASSUME Inductive, Next, Fetched, Lifetime # Forever
               PROVE  current'.age < Lifetime
    OBVIOUS
  <2>1. NotifyAccessGranted /\ ~IsEmpty(queue) /\ current = None
    BY FetchIsGrant
  <2>2. current' \in Packets /\ ~Expired(current')
    BY <2>1, FetchedPacket
  <2>3. current'.age \in Nat  BY <2>2 DEF Packets
  <2> QED  BY <2>2, <2>3, QueueAssumption DEF Expired, Forever
<1> QED  BY <1>1, AlwaysInductive, PTL DEF Spec, NoExpiredPacketSent

-----------------------------------------------------------------------------
(* No client sits out a round.                                             *)

LEMMA Multiples ==
  ASSUME NEW a \in Nat, NEW b \in Nat, NEW n \in Nat
  PROVE  /\ a * n \in Nat
         /\ (a + 1) * n = a * n + n
         /\ (a + b) * n = a * n + b * n
         /\ a <= b => a * n <= b * n
<1>1. \A x, y \in Nat : x * y \in Nat  OBVIOUS
<1>2. a * n \in Nat  BY <1>1
<1>3. (a + 1) * n = a * n + n /\ (a + b) * n = a * n + b * n  OBVIOUS
<1>4. ASSUME a <= b  PROVE a * n <= b * n
  <2>1. PICK d \in Nat : d = b - a  BY <1>4
  <2>2. b = a + d  BY <2>1
  <2>3. d * n \in Nat  BY <1>1
  <2>4. b * n = a * n + d * n  BY <2>2
  <2> QED  BY <1>2, <2>3, <2>4
<1> QED  BY <1>2, <1>3, <1>4

\* Every number greater than 0 lies in one of the intervals that n divides the
\* numbers into.
LEMMA Interval ==
  ASSUME NEW i \in Nat \ {0}, NEW n \in Nat \ {0}
  PROVE  \E j \in Nat : j * n < i /\ i <= j * n + n
<1> DEFINE a == i - 1
           j == a \div n
<1>1. a \in Nat /\ i = a + 1  OBVIOUS
<1> HIDE DEF a
<1>2. j \in Nat /\ j * n <= a /\ a < j * n + n  BY <1>1
<1>3. j * n \in Nat  BY <1>2, Multiples
<1> HIDE DEF j
<1> QED  BY <1>1, <1>2, <1>3

\* Where the next batch starts, the end of the list being its beginning.
NextStart(s) == IF s = End THEN 1 ELSE s

\* The epochs w that the client at position i of n clients has sat out, when the
\* next batch starts at s.  The client is in batch j, counted from 0.  If that
\* batch was served in this round, its w epochs are among those since; if it was
\* not, they are those of this round and at most what a round without it took.
Turn(n, s, w, i) ==
  \A j \in Nat :
    j * NumClients < i /\ i <= j * NumClients + NumClients =>
      IF j * NumClients + 1 < s
      THEN (w + j + 1) * NumClients < s
      ELSE (w + j) * NumClients < n + s - 1

Turns ==
  /\ \A c \in Clients : ~Contains(clients, c) => waited[c] = 0
  /\ \E k \in Nat : NextStart(schedI) = 1 + k * NumClients
  /\ \A i \in DOMAIN clients :
       Turn(Len(clients), NextStart(schedI), waited[clients[i]], i)

LEMMA TurnGrows ==
  ASSUME NEW n \in Nat, NEW m \in Nat, n <= m, NEW s \in Nat, NEW w \in Nat,
         NEW i \in Nat, Turn(n, s, w, i)
  PROVE  Turn(m, s, w, i)
<1> SUFFICES ASSUME NEW j \in Nat, j * NumClients < i, i <= j * NumClients + NumClients,
                    ~(j * NumClients + 1 < s)
             PROVE  (w + j) * NumClients < m + s - 1
  BY DEF Turn
<1>1. (w + j) * NumClients < n + s - 1  BY DEF Turn
<1>2. w + j \in Nat /\ NumClients \in Nat  BY TxopAssumption
<1>3. (w + j) * NumClients \in Nat  BY <1>2, Multiples
<1> QED  BY <1>1, <1>3

\* Who was just served, or learnt, has sat out nothing.
LEMMA TurnServed ==
  ASSUME NEW n \in Nat, NEW s \in Nat \ {0}, NEW i \in 1..n,
         NEW k \in Nat, s = 1 + k * NumClients
  PROVE  Turn(n, s, 0, i)
<1> SUFFICES ASSUME NEW j \in Nat, j * NumClients < i
             PROVE  IF j * NumClients + 1 < s
                    THEN (0 + j + 1) * NumClients < s
                    ELSE (0 + j) * NumClients < n + s - 1
  BY DEF Turn
<1>1. NumClients \in Nat \ {0}  BY TxopAssumption
<1>2. /\ j * NumClients \in Nat /\ k * NumClients \in Nat
      /\ (j + 1) * NumClients = j * NumClients + NumClients
      /\ k <= j => k * NumClients <= j * NumClients
      /\ j + 1 <= k => (j + 1) * NumClients <= k * NumClients
  <2>1. j + 1 \in Nat  OBVIOUS
  <2> QED  BY <1>1, <2>1, Multiples
<1>3. 0 + j + 1 = j + 1 /\ 0 + j = j  OBVIOUS
<1>4. CASE j * NumClients + 1 < s
  <2>1. ~(k <= j)  BY <1>2, <1>4
  <2>2. j + 1 <= k  BY <2>1
  <2>3. (j + 1) * NumClients < s  BY <1>1, <1>2, <2>2
  <2> QED  BY <1>3, <1>4, <2>3
<1>5. CASE ~(j * NumClients + 1 < s)
  <2>1. j * NumClients < n + s - 1  BY <1>2
  <2> QED  BY <1>3, <1>5, <2>1
<1> QED  BY <1>4, <1>5

\* An epoch that starts at s and does not serve position i.
LEMMA TurnPasses ==
  ASSUME NEW n \in Nat, NEW s \in 1..n, NEW k \in Nat, s = 1 + k * NumClients,
         NEW i \in 1..n, ~(s <= i /\ i < s + NumClients),
         NEW w \in Nat, NEW v \in Nat, v <= w + 1, Turn(n, s, w, i)
  PROVE  Turn(n, IF s + NumClients > n THEN 1 ELSE s + NumClients, v, i)
<1> DEFINE next == IF s + NumClients > n THEN 1 ELSE s + NumClients
<1> SUFFICES ASSUME NEW j \in Nat, j * NumClients < i, i <= j * NumClients + NumClients
             PROVE  IF j * NumClients + 1 < next
                    THEN (v + j + 1) * NumClients < next
                    ELSE (v + j) * NumClients < n + next - 1
  BY DEF Turn
<1> DEFINE J == j * NumClients
           K == k * NumClients
           W == (w + j) * NumClients
           V == (v + j) * NumClients
<1>1. NumClients \in Nat \ {0}  BY TxopAssumption
<1>2. /\ J \in Nat /\ K \in Nat /\ W \in Nat /\ V \in Nat
      /\ V <= W + NumClients
      /\ (w + j + 1) * NumClients = W + NumClients
      /\ (v + j + 1) * NumClients = V + NumClients
  <2>1. PICK a \in Nat : a = w + j  OBVIOUS
  <2>2. PICK b \in Nat : b = v + j  OBVIOUS
  <2>3. b <= a + 1 /\ a + 1 \in Nat  BY <2>1, <2>2
  <2>4. /\ a * NumClients \in Nat /\ b * NumClients \in Nat
        /\ (a + 1) * NumClients = a * NumClients + NumClients
        /\ (b + 1) * NumClients = b * NumClients + NumClients
        /\ b * NumClients <= (a + 1) * NumClients
        /\ J \in Nat /\ K \in Nat
    BY <1>1, <2>3, Multiples
  <2> QED  BY <2>1, <2>2, <2>4
<1>3. \/ J < K
      \/ J >= K + NumClients
  <2>1. /\ k <= j => K <= J
        /\ j <= k => J <= K
        /\ k + 1 <= j => K + NumClients <= J
        /\ j + 1 <= k => J + NumClients <= K
    <3>1. j + 1 \in Nat /\ k + 1 \in Nat  BY <1>1
    <3>2. /\ (k + 1) * NumClients = K + NumClients
          /\ (j + 1) * NumClients = J + NumClients
          /\ k + 1 <= j => (k + 1) * NumClients <= J
          /\ j + 1 <= k => (j + 1) * NumClients <= K
      BY <1>1, <3>1, Multiples
    <3> QED  BY <1>1, <3>2, Multiples
  <2>2. CASE j < k  BY <1>1, <1>2, <2>1, <2>2
  <2>3. CASE k < j  BY <1>1, <1>2, <2>1, <2>3
  <2>4. CASE j = k
    <3>1. i <= K + NumClients /\ K < i  BY <2>4
    <3> HIDE DEF K
    <3> QED  BY <1>1, <1>2, <3>1 DEF K
  <2> QED  BY <2>2, <2>3, <2>4
<1>4. IF J + 1 < s THEN W + NumClients < s ELSE W < n + s - 1
  BY <1>2 DEF Turn
<1>5. s = 1 + K /\ J < i /\ i <= J + NumClients /\ i <= n /\ s <= n /\ s \in Nat /\ i \in Nat
  OBVIOUS
<1>6. \/ next = 1 /\ s + NumClients > n
      \/ next = s + NumClients /\ next <= n
  BY <1>1, <1>5
<1> HIDE DEF J, K, W, V, next
<1>7. IF J + 1 < next THEN V + NumClients < next ELSE V < n + next - 1
  <2>1. CASE J < K
    <3>1. W + NumClients < s  BY <1>2, <1>4, <1>5, <2>1
    <3> QED  BY <1>1, <1>2, <1>5, <1>6, <2>1, <3>1
  <2>2. CASE J >= K + NumClients
    <3>1. W < n + s - 1  BY <1>1, <1>2, <1>4, <1>5, <2>2
    <3> QED  BY <1>1, <1>2, <1>5, <1>6, <2>2, <3>1
  <2> QED  BY <1>3, <2>1, <2>2
<1> QED  BY <1>2, <1>7 DEF J, V, next

LEMMA EpochKeepsTurns ==
  ASSUME TypeOK, Turns, NewEpoch
  PROVE  Turns'
<1> DEFINE s == NextStart(schedI)
           n == Len(clients)
           next == IF s + NumClients > n THEN 1 ELSE s + NumClients
           served == {clients[k] : k \in Batch(FirstScheduled)}
<1>1. /\ clients \in Seq(Clients) /\ n \in Nat /\ DOMAIN clients = 1..n
      /\ schedI \in 1..n \cup {End} /\ waited \in [Clients -> Nat]
      /\ NumClients \in Nat \ {0}
  BY TxopAssumption DEF TypeOK
<1>2. /\ clients' = clients
      /\ schedI' = AfterBatch(FirstScheduled)
      /\ \A c \in Clients : waited'[c] = IF ~Contains(clients, c) \/ c \in served
                                         THEN 0 ELSE SatOut(waited[c])
  BY <1>1 DEF NewEpoch
<1>3. \A c \in Clients : ~Contains(clients', c) => waited'[c] = 0
  BY <1>2
<1>4. CASE clients = << >>
  <2>1. n = 0 /\ schedI = End  BY <1>1, <1>4
  <2>2. FirstScheduled = End  BY <1>4, <2>1 DEF FirstScheduled
  <2>3. schedI' = End  BY <1>2, <2>2 DEF AfterBatch
  <2>4. 0 * NumClients = 0  BY <1>1
  <2>5. NextStart(schedI') = 1 + 0 * NumClients  BY <2>3, <2>4 DEF NextStart
  <2>6. DOMAIN clients' = {}  BY <1>2, <1>4
  <2> QED  BY <1>3, <2>5, <2>6 DEF Turns
<1>5. CASE clients # << >>
  <2>1. n > 0  BY <1>1, <1>5
  <2>2. FirstScheduled = s /\ s \in 1..n
    BY <1>1, <1>5, <2>1 DEF FirstScheduled, NextStart
  <2>3. NextStart(schedI') = next
    BY <1>1, <1>2, <2>2 DEF AfterBatch, NextStart, End
  <2>4. PICK k \in Nat : s = 1 + k * NumClients  BY DEF Turns
  <2>5. PICK h \in Nat : next = 1 + h * NumClients
    <3>1. 0 * NumClients = 0  BY <1>1
    <3>2. (k + 1) * NumClients = k * NumClients + NumClients /\ k * NumClients \in Nat
      BY <1>1, Multiples
    <3>3. k + 1 \in Nat /\ s + NumClients = 1 + (k + 1) * NumClients
      BY <1>1, <2>4, <3>2
    <3> QED  BY <3>1, <3>3
  <2>6. next \in Nat \ {0}  BY <1>1, <2>2
  <2>7. ASSUME NEW i \in 1..n  PROVE Turn(n, next, waited'[clients[i]], i)
    <3>1. clients[i] \in Clients /\ waited[clients[i]] \in Nat
      BY <1>1
    <3>2. Contains(clients, clients[i])  BY <1>1 DEF Contains
    <3>3. CASE clients[i] \in served
      <4>1. waited'[clients[i]] = 0  BY <1>2, <3>1, <3>3
      <4>2. Turn(n, next, 0, i)  BY <1>1, <2>5, <2>6, TurnServed
      <4> QED  BY <4>1, <4>2
    <3>4. CASE clients[i] \notin served
      <4>1. i \notin Batch(s)  BY <2>2, <3>4
      <4>2. ~(s <= i /\ i < s + NumClients)
        BY <1>1, <2>2, <4>1 DEF Batch, End
      <4>3. waited'[clients[i]] = SatOut(waited[clients[i]])
        BY <1>2, <3>1, <3>2, <3>4
      <4>4. PICK v \in Nat : v = waited'[clients[i]] /\ v <= waited[clients[i]] + 1
        BY <3>1, <4>3 DEF SatOut
      <4>5. Turn(n, s, waited[clients[i]], i)  BY <1>1 DEF Turns
      <4> HIDE DEF s, n, served
      <4>6. Turn(n, next, v, i)
        BY <1>1, <2>2, <2>4, <3>1, <4>2, <4>4, <4>5, TurnPasses
      <4> QED  BY <4>4, <4>6
    <3> QED  BY <3>3, <3>4
  <2>8. /\ \E h_1 \in Nat : NextStart(schedI') = 1 + h_1 * NumClients
        /\ \A i \in DOMAIN clients' : Turn(Len(clients'), NextStart(schedI'), waited'[clients'[i]], i)
    BY <1>1, <1>2, <2>3, <2>5, <2>7
  <2> QED  BY <1>3, <2>8 DEF Turns
<1> QED  BY <1>4, <1>5

LEMMA QueueKeepsTurns ==
  ASSUME TypeOK, Turns, NEW to \in Clients \cup {Group}, NEW mgt, Queue(to, mgt)
  PROVE  Turns'
<1> DEFINE s == NextStart(schedI)
           n == Len(clients)
<1>1. /\ clients \in Seq(Clients) /\ n \in Nat /\ DOMAIN clients = 1..n
      /\ schedI \in 1..n \cup {End} /\ waited \in [Clients -> Nat]
  BY DEF TypeOK
<1>2. schedI' = schedI /\ waited' = waited
  BY DEF Queue
<1>3. CASE clients' = clients
  BY <1>2, <1>3 DEF Turns, Contains
<1>4. CASE to # Group /\ ~Contains(clients, to) /\ clients' = Append(clients, to)
  <2>1. /\ to \in Clients /\ clients' \in Seq(Clients) /\ Len(clients') = n + 1
        /\ DOMAIN clients' = 1..(n + 1)
        /\ \A i \in 1..n : clients'[i] = clients[i]
        /\ clients'[n + 1] = to
    BY <1>1, <1>4
  <2>2. \A c \in Clients : Contains(clients, c) => Contains(clients', c)
    BY <1>1, <2>1 DEF Contains
  <2>3. PICK k \in Nat : s = 1 + k * NumClients  BY DEF Turns
  <2>4. s \in Nat \ {0}  BY <1>1 DEF NextStart, End
  <2>5. ASSUME NEW i \in 1..(n + 1)  PROVE Turn(n + 1, s, waited[clients'[i]], i)
    <3>1. CASE i \in 1..n
      <4>1. clients[i] \in Clients /\ waited[clients[i]] \in Nat  BY <1>1, <3>1
      <4>2. Turn(n, s, waited[clients[i]], i)  BY <1>1, <3>1 DEF Turns
      <4>3. n <= n + 1 /\ n + 1 \in Nat /\ i \in Nat  BY <1>1, <3>1
      <4> HIDE DEF s, n
      <4>4. Turn(n + 1, s, waited[clients[i]], i)
        BY <1>1, <2>4, <4>1, <4>2, <4>3, TurnGrows
      <4> QED  BY <2>1, <3>1, <4>4
    <3>2. CASE i = n + 1
      <4>1. waited[clients'[i]] = 0  BY <1>4, <2>1, <3>2 DEF Turns
      <4>2. n + 1 \in Nat  BY <1>1
      <4> HIDE DEF s, n
      <4>3. Turn(n + 1, s, 0, i)  BY <2>3, <2>4, <4>2, TurnServed
      <4> QED  BY <4>1, <4>3
    <3> QED  BY <1>1, <3>1, <3>2
  <2>6. \A c \in Clients : ~Contains(clients', c) => waited'[c] = 0
    BY <1>2, <2>2 DEF Turns
  <2>7. \A i \in DOMAIN clients' : Turn(Len(clients'), NextStart(schedI'), waited'[clients'[i]], i)
    BY <1>2, <2>1, <2>5
  <2>8. NextStart(schedI') = 1 + k * NumClients  BY <1>2, <2>3
  <2> QED  BY <2>6, <2>7, <2>8 DEF Turns
<1> QED  BY <1>3, <1>4 DEF Queue

\* Only arrivals and new epochs touch the clients.
LEMMA StepKeepsTurns == TypeOK /\ Turns /\ [Next]_vars => Turns'
<1> SUFFICES ASSUME TypeOK, Turns, [Next]_vars  PROVE Turns'
  OBVIOUS
<1>1. ASSUME UNCHANGED <<clients, schedI, waited>>  PROVE Turns'
  BY <1>1 DEF Turns, Contains
<1>2. CASE Arrival
  BY <1>2, QueueKeepsTurns DEF Arrival
<1>3. CASE NotifyAccessGranted
  <2>1. UNCHANGED rrVars \/ NewEpoch
    BY <1>3 DEF NotifyAccessGranted, Schedule
  <2> QED  BY <1>1, <2>1, EpochKeepsTurns DEF rrVars
<1>4. CASE ExchangeDone \/ ExchangeMissed \/ NotifyChannelSwitching \/ SetMaxSize
  <2>1. UNCHANGED rrVars
    BY <1>4 DEF ExchangeDone, ExchangeMissed, NotifyChannelSwitching, SetMaxSize
  <2> QED  BY <1>1, <2>1 DEF rrVars
<1>5. CASE Tick
  BY <1>1, <1>5 DEF Tick
<1>6. CASE UNCHANGED vars
  BY <1>1, <1>6 DEF vars
<1> QED  BY <1>2, <1>3, <1>4, <1>5, <1>6 DEF Next

LEMMA InitTurns == Init => Turns
<1> SUFFICES ASSUME Init  PROVE Turns
  OBVIOUS
<1>1. 0 * NumClients = 0  BY TxopAssumption
<1>2. NextStart(schedI) = 1 + 0 * NumClients  BY <1>1 DEF Init, NextStart
<1>3. DOMAIN clients = {}  BY DEF Init
<1> QED  BY <1>2, <1>3 DEF Init, Turns

LEMMA TurnsBoundWaiting ==
  ASSUME TypeOK, Turns
  PROVE  TurnWithinRound
<1> SUFFICES ASSUME NEW c \in Clients, Contains(clients, c)
             PROVE  waited[c] * NumClients < Len(clients)
  BY DEF TurnWithinRound
<1> DEFINE n == Len(clients)
           s == NextStart(schedI)
           w == waited[c]
<1>1. clients \in Seq(Clients) /\ n \in Nat /\ DOMAIN clients = 1..n /\ w \in Nat
  BY DEF TypeOK
<1>2. PICK i \in 1..n : clients[i] = c  BY DEF Contains
<1>3. i \in Nat \ {0} /\ NumClients \in Nat \ {0}  BY <1>1, TxopAssumption
<1>4. s \in 1..n  BY <1>1, <1>2 DEF TypeOK, NextStart, End
<1>5. PICK j \in Nat : j * NumClients < i /\ i <= j * NumClients + NumClients
  BY <1>3, Interval
<1>6. IF j * NumClients + 1 < s
      THEN (w + j + 1) * NumClients < s
      ELSE (w + j) * NumClients < n + s - 1
  BY <1>1, <1>2, <1>5 DEF Turns, Turn
<1>7. /\ j * NumClients \in Nat /\ w * NumClients \in Nat
      /\ (w + j) * NumClients = w * NumClients + j * NumClients
      /\ (w + j + 1) * NumClients = w * NumClients + j * NumClients + NumClients
  <2>1. PICK a \in Nat : a = w + j  BY <1>1
  <2>2. (a + 1) * NumClients = a * NumClients + NumClients  BY <1>3, Multiples
  <2>3. /\ j * NumClients \in Nat /\ w * NumClients \in Nat
        /\ (w + j) * NumClients = w * NumClients + j * NumClients
    BY <1>1, <1>3, Multiples
  <2> QED  BY <2>1, <2>2, <2>3
<1>8. n \in Nat /\ s \in Nat /\ s <= n  BY <1>1, <1>4
<1> HIDE DEF n, s, w
<1>9. w * NumClients < n  BY <1>3, <1>6, <1>7, <1>8
<1> QED  BY <1>9 DEF n, w

\* A client that WiFi-RR knows is active again before it has sat out a whole
\* round over the list, however the list grows (dca-txop.cc, NotifyAccessGranted).
THEOREM TurnComes == Spec => []TurnWithinRound
<1>1. Spec => []Turns
  <2>1. Inductive => TypeOK  BY DEF Inductive
  <2> QED  BY <2>1, InitTurns, StepKeepsTurns, AlwaysInductive, PTL DEF Spec
<1>2. Inductive /\ Turns => TurnWithinRound
  BY TurnsBoundWaiting DEF Inductive
<1> QED  BY <1>1, <1>2, AlwaysInductive, PTL

-----------------------------------------------------------------------------
(* The order of one receiver's packets.                                    *)

\* The queue is in the order of arrival.
OldestFirst(items) ==
  \A j, k \in DOMAIN items : j < k => items[k].age <= items[j].age

LEMMA KeptOldestFirst ==
  ASSUME NEW items \in Seq(Packets), OldestFirst(items)
  PROVE  OldestFirst(Kept(items))
<1> SUFFICES ASSUME NEW a \in DOMAIN Kept(items), NEW b \in DOMAIN Kept(items), a < b
             PROVE  Kept(items)[b].age <= Kept(items)[a].age
  BY DEF OldestFirst
<1>1. PICK i \in DOMAIN items, j \in DOMAIN items :
        i < j /\ Kept(items)[a] = items[i] /\ Kept(items)[b] = items[j]
  BY KeptOrder
<1> QED  BY <1>1 DEF OldestFirst

LEMMA CleanupOldestFirst ==
  ASSUME NEW q, Counted(Packets, q), OldestFirst(q.items)
  PROVE  OldestFirst(Cleanup(q).items)
<1>1. q.items \in Seq(Packets) /\ Cleanup(q).items = Kept(q.items)
  BY CleanupCounts DEF Counted
<1> QED  BY <1>1, KeptOldestFirst

LEMMA EnqueueOldestFirst ==
  ASSUME NEW q, Counted(Packets, q), OldestFirst(q.items),
         NEW p \in Packets, p.age = 0
  PROVE  OldestFirst(Enqueue(q, p).items)
<1> DEFINE c == Cleanup(q)
<1>1. Counted(Packets, c) /\ OldestFirst(c.items)
  BY CleanupCounts, CleanupOldestFirst
<1>2. Enqueue(q, p) = IF Full(c) THEN c
                      ELSE [c EXCEPT !.items = Append(@, p), !.size = @ + 1]
  BY DEF Enqueue
<1> HIDE DEF c
<1> DEFINE list == Append(c.items, p)
<1>3. c.items \in Seq(Packets) /\ Len(c.items) \in Nat  BY <1>1 DEF Counted
<1>4. \A k \in DOMAIN c.items : c.items[k].age \in Nat
  <2>1. \A k \in DOMAIN c.items : c.items[k] \in Packets  BY <1>3
  <2> QED  BY <2>1 DEF Packets
<1>5. /\ DOMAIN list = 1..(Len(c.items) + 1)
      /\ \A k \in 1..Len(c.items) : list[k] = c.items[k]
      /\ list[Len(c.items) + 1] = p
  BY <1>3
<1>6. OldestFirst(list)
  <2> HIDE DEF list
  <2> SUFFICES ASSUME NEW j \in DOMAIN list, NEW k \in DOMAIN list, j < k
               PROVE  list[k].age <= list[j].age
    BY DEF OldestFirst
  <2>1. j \in 1..Len(c.items) /\ list[j] = c.items[j]  BY <1>3, <1>5
  <2>2. CASE k = Len(c.items) + 1
    BY <1>3, <1>4, <1>5, <2>1, <2>2
  <2>3. CASE k \in 1..Len(c.items)
    BY <1>1, <1>3, <1>5, <2>1, <2>3 DEF OldestFirst
  <2> QED  BY <1>3, <1>5, <2>2, <2>3
<1>7. [c EXCEPT !.items = Append(@, p), !.size = @ + 1].items = list
  BY <1>1 DEF Counted
<1> HIDE DEF list
<1> QED  BY <1>1, <1>2, <1>6, <1>7

LEMMA TakeAtOldestFirst ==
  ASSUME NEW q, Counted(Packets, q), OldestFirst(q.items), NEW p \in DOMAIN q.items
  PROVE  OldestFirst(TakeAt(q, p).items)
<1> DEFINE rest == TakeAt(q, p).items
           n == Len(q.items)
<1>1. n \in Nat /\ DOMAIN q.items = 1..n /\ p \in 1..n  BY DEF Counted
<1>2. /\ DOMAIN rest = 1..(n - 1)
      /\ \A i \in DOMAIN rest : rest[i] = IF i < p THEN q.items[i] ELSE q.items[i + 1]
  BY TakeAtItems
<1> HIDE DEF rest, n
<1>3. OldestFirst(rest)
  <2> SUFFICES ASSUME NEW j \in DOMAIN rest, NEW k \in DOMAIN rest, j < k
               PROVE  rest[k].age <= rest[j].age
    BY DEF OldestFirst
  <2>1. PICK a \in 1..n : a = (IF j < p THEN j ELSE j + 1) /\ rest[j] = q.items[a]
    BY <1>1, <1>2
  <2>2. PICK b \in 1..n : b = (IF k < p THEN k ELSE k + 1) /\ rest[k] = q.items[b]
    BY <1>1, <1>2
  <2>3. a < b  BY <1>1, <1>2, <2>1, <2>2
  <2> QED  BY <1>1, <2>1, <2>2, <2>3 DEF OldestFirst
<1> QED  BY <1>3 DEF rest

LEMMA OlderKeepsOrder ==
  ASSUME NEW a \in Packets, NEW b \in Packets, a.age <= b.age
  PROVE  Older(a).age <= Older(b).age
<1>1. ASSUME NEW p \in Packets
      PROVE  Older(p).age = IF p.age < Lifetime THEN p.age + 1 ELSE p.age
  BY DEF Older, Packets
<1>2. a.age \in Nat /\ b.age \in Nat /\ Lifetime \in Int
  BY QueueAssumption DEF Packets, Forever
<1>3. /\ Older(a).age = IF a.age < Lifetime THEN a.age + 1 ELSE a.age
      /\ Older(b).age = IF b.age < Lifetime THEN b.age + 1 ELSE b.age
  BY <1>1
<1> QED  BY <1>2, <1>3

LEMMA AgedOldestFirst ==
  ASSUME NEW q, Counted(Packets, q), OldestFirst(q.items)
  PROVE  OldestFirst(AgedQueue(q).items)
<1>1. /\ DOMAIN AgedQueue(q).items = DOMAIN q.items
      /\ \A k \in DOMAIN q.items : AgedQueue(q).items[k] = Older(q.items[k])
  BY OlderPacket, AgedQueueCounts
<1>2. \A k \in DOMAIN q.items : q.items[k] \in Packets
  BY DEF Counted
<1> SUFFICES ASSUME NEW j \in DOMAIN q.items, NEW k \in DOMAIN q.items, j < k
             PROVE  AgedQueue(q).items[k].age <= AgedQueue(q).items[j].age
  BY <1>1 DEF OldestFirst
<1>3. q.items[k].age <= q.items[j].age  BY DEF OldestFirst
<1> QED  BY <1>1, <1>2, <1>3, OlderKeepsOrder

Ordered == OldestFirst(queue.items)

LEMMA RestartKeepsOrdered ==
  ASSUME NEW q, Counted(Packets, q), OldestFirst(q.items), NEW held,
         RestartAccessIfNeeded(q, held)
  PROVE  Ordered'
<1>1. queue' = q \/ queue' = Cleanup(q)  BY DEF RestartAccessIfNeeded
<1> QED  BY <1>1, CleanupOldestFirst DEF Ordered

\* What is fetched has its receiver's packets behind it.
LEMMA FetchKeepsOrder ==
  ASSUME Inductive, Ordered, NotifyAccessGranted, current = None, ~IsEmpty(queue)
  PROVE  /\ Ordered'
         /\ \A k \in DOMAIN queue'.items :
              queue'.items[k].to = current'.to => queue'.items[k].age <= current'.age
<1> DEFINE q == Cleanup(queue)
           p == NextPosition(q)
           n == Len(q.items)
<1>1. /\ current' = q.items[p]
      /\ queue' = TakeAt(q, p)
  BY DEF NotifyAccessGranted
<1>2. /\ Counted(Packets, q) /\ OldestFirst(q.items) /\ q.items # << >>
  BY InductiveCounts, CleanupCounts, CleanupOldestFirst DEF IsEmpty, Ordered
<1> HIDE DEF q
<1>3. /\ q.items \in Seq(Packets) /\ n \in Nat /\ DOMAIN q.items = 1..n
      /\ p \in 1..n /\ p \in DOMAIN q.items
  BY <1>2, PositionInside DEF Counted
<1>4. \A m \in 1..n : m < p => q.items[m].to # q.items[p].to
  <2> SUFFICES ASSUME NEW m \in 1..n, m < p  PROVE q.items[m].to # q.items[p].to
    OBVIOUS
  <2> DEFINE matches == {k \in DOMAIN q.items : q.items[k].to \in active'}
  <2>1. p # 1  BY <1>3
  <2>2. /\ matches # {}
        /\ p = CHOOSE k \in matches : \A j \in matches : k <= j
    BY <2>1 DEF NextPosition, FrontPosition, PositionByAddresses
  <2>3. \E k \in matches : \A j \in matches : k <= j
    <3>1. matches \in SUBSET Nat  BY <1>3
    <3> HIDE DEF matches, p
    <3> QED  BY <2>2, <3>1, Least
  <2>4. p \in matches /\ \A j \in matches : p <= j
    <3> HIDE DEF matches
    <3> QED  BY <2>2, <2>3
  <2>5. m \notin matches
    <3> HIDE DEF matches, p
    <3> QED  BY <1>3, <2>4
  <2> QED  BY <1>3, <2>4, <2>5
<1> HIDE DEF p, n
<1>5. Ordered'
  BY <1>1, <1>2, <1>3, TakeAtOldestFirst DEF Ordered
<1>6. ASSUME NEW k \in DOMAIN queue'.items, queue'.items[k].to = current'.to
      PROVE  queue'.items[k].age <= current'.age
  <2> DEFINE rest == TakeAt(q, p).items
  <2>1. /\ DOMAIN rest = 1..(n - 1)
        /\ \A i \in DOMAIN rest : rest[i] = IF i < p THEN q.items[i] ELSE q.items[i + 1]
    BY <1>2, <1>3, TakeAtItems DEF n
  <2>2. k \in DOMAIN rest /\ queue'.items[k] = rest[k] /\ rest[k].to = q.items[p].to
    BY <1>1, <1>6
  <2> HIDE DEF rest
  <2>3. PICK m \in 1..n : m = (IF k < p THEN k ELSE k + 1) /\ rest[k] = q.items[m]
    BY <1>3, <2>1, <2>2
  <2>4. p < m  BY <1>3, <1>4, <2>1, <2>2, <2>3
  <2> QED  BY <1>1, <1>2, <1>3, <2>2, <2>3, <2>4 DEF OldestFirst
<1> QED  BY <1>5, <1>6

LEMMA StepKeepsOrdered == Inductive /\ Ordered /\ [Next]_vars => Ordered'
<1> SUFFICES ASSUME Inductive, Ordered, [Next]_vars  PROVE Ordered'
  OBVIOUS
<1>0. Counted(Packets, queue) /\ OldestFirst(queue.items)
  BY InductiveCounts DEF Ordered
<1>1. ASSUME NEW to \in Clients \cup {Group}, NEW mgt \in MayBeMgt, Queue(to, mgt)
      PROVE  Ordered'
  <2> DEFINE p == Fresh(to, mgt)
             q == Enqueue(queue, p)
  <2>1. p \in Packets /\ p.age = 0  BY TxopAssumption DEF Fresh, Packets
  <2> HIDE DEF p
  <2>2. Counted(Packets, q) /\ OldestFirst(q.items)
    BY <1>0, <2>1, EnqueueCounts, EnqueueOldestFirst
  <2>3. queue' = q \/ RestartAccessIfNeeded(q, None)
    BY <1>1 DEF Queue, p
  <2> HIDE DEF q
  <2> QED  BY <2>2, <2>3, RestartKeepsOrdered DEF Ordered
<1>2. CASE NotifyAccessGranted
  <2>1. CASE current # None
    BY <1>2, <2>1 DEF NotifyAccessGranted, Ordered
  <2>2. CASE current = None /\ IsEmpty(queue)
    <3>1. queue' = Cleanup(queue)  BY <1>2, <2>2 DEF NotifyAccessGranted
    <3> QED  BY <1>0, <3>1, CleanupOldestFirst DEF Ordered
  <2>3. CASE current = None /\ ~IsEmpty(queue)
    BY <1>2, <2>3, FetchKeepsOrder
  <2> QED  BY <2>1, <2>2, <2>3
<1>3. CASE ExchangeDone \/ ExchangeMissed
  BY <1>0, <1>3, RestartKeepsOrdered DEF ExchangeDone, ExchangeMissed
<1>4. CASE NotifyChannelSwitching
  <2>1. Flush(queue).items = << >>  BY <1>0 DEF Flush, Counted
  <2>2. DOMAIN queue'.items = {}  BY <1>4, <2>1 DEF NotifyChannelSwitching
  <2> QED  BY <2>2 DEF Ordered, OldestFirst
<1>5. CASE SetMaxSize
  <2>1. PICK max \in NewMaxSizes : queue' = [queue EXCEPT !.max = max]
    BY <1>5 DEF SetMaxSize
  <2>2. queue'.items = queue.items  BY <1>0, <2>1 DEF Counted
  <2> QED  BY <2>2 DEF Ordered
<1>6. CASE Tick
  BY <1>0, <1>6, AgedOldestFirst DEF Tick, Ordered
<1>7. CASE UNCHANGED vars
  BY <1>7 DEF vars, Ordered
<1> QED  BY <1>1, <1>2, <1>3, <1>4, <1>5, <1>6, <1>7 DEF Next, Arrival

LEMMA InitOrdered == Init => Ordered
<1> SUFFICES ASSUME Init  PROVE Ordered
  OBVIOUS
<1>1. DOMAIN queue.items = {}  BY DEF Init, EmptyQueue
<1> QED  BY <1>1 DEF Ordered, OldestFirst

\* The packets of one receiver leave in the order they came, whichever clients
\* WiFi-RR prefers (wifi-mac-queue.cc, DequeueByAddresses).
THEOREM ReceiverOrder == Spec => ReceiverOrderKept
<1>1. Inductive /\ Ordered /\ [Next]_vars =>
        [Fetched => \A k \in DOMAIN queue'.items :
           queue'.items[k].to = current'.to => queue'.items[k].age <= current'.age]_vars
  <2> SUFFICES ASSUME Inductive, Ordered, Next, Fetched
               PROVE  \A k \in DOMAIN queue'.items :
                        queue'.items[k].to = current'.to => queue'.items[k].age <= current'.age
    OBVIOUS
  <2>1. NotifyAccessGranted /\ ~IsEmpty(queue) /\ current = None
    BY FetchIsGrant
  <2> QED  BY <2>1, FetchKeepsOrder
<1> QED  BY <1>1, InitOrdered, StepKeepsOrdered, AlwaysInductive, PTL
         DEF Spec, ReceiverOrderKept

-----------------------------------------------------------------------------
(* The limit of the queue.                                                 *)

\* No method of the queue but the attribute itself touches the limit, and only
\* Enqueue makes the list longer, by one, when it is not full.
LEMMA LengthAndLimit ==
  ASSUME NEW q, Counted(Packets, q)
  PROVE  /\ Cleanup(q).max = q.max
         /\ Len(Cleanup(q).items) \in Nat
         /\ Len(Cleanup(q).items) <= Len(q.items)
<1>1. q.items \in Seq(Packets) /\ Cleanup(q).items = Kept(q.items)
  BY CleanupCounts DEF Counted
<1>2. Cleanup(q).max = q.max  BY DEF Cleanup, Counted
<1> QED  BY <1>1, <1>2, KeptProperties

LEMMA EnqueueWithinLimit ==
  ASSUME NEW q, Counted(Packets, q), Len(q.items) <= q.max, NEW p \in Packets
  PROVE  /\ Enqueue(q, p).max = q.max
         /\ Len(Enqueue(q, p).items) <= q.max
         /\ Len(Enqueue(q, p).items) > Len(q.items) => Len(q.items) < q.max
<1> DEFINE c == Cleanup(q)
           e == [c EXCEPT !.items = Append(@, p), !.size = @ + 1]
<1>1. Counted(Packets, c) /\ c.max = q.max /\ Len(c.items) <= Len(q.items)
  BY CleanupCounts, LengthAndLimit
<1>2. Enqueue(q, p) = IF Full(c) THEN c ELSE e
  BY DEF Enqueue
<1> HIDE DEF c
<1>3. c.items \in Seq(Packets) /\ Len(c.items) \in Nat /\ c.size = Len(c.items)
  BY <1>1 DEF Counted
<1>4. Len(q.items) \in Nat /\ q.max \in Nat  BY DEF Counted
<1>5. e.items = Append(c.items, p) /\ e.max = c.max
  BY <1>1 DEF Counted
<1>6. Len(e.items) = Len(c.items) + 1
  BY <1>3, <1>5
<1> HIDE DEF e
<1>7. CASE Full(c)
  BY <1>1, <1>2, <1>3, <1>4, <1>7
<1>8. CASE ~Full(c)
  <2>1. Len(c.items) # q.max  BY <1>1, <1>3, <1>8 DEF Full
  <2> QED  BY <1>1, <1>2, <1>3, <1>4, <1>5, <1>6, <1>8, <2>1
<1> QED  BY <1>7, <1>8

OnlyRaised == \A n \in NewMaxSizes : \A m \in NewMaxSizes \cup {MaxSize} : m <= n

WithinLimit ==
  /\ Len(queue.items) <= queue.max
  /\ queue.max \in NewMaxSizes \cup {MaxSize}

\* What a step does to the length of the list and the limit.
Grown == Len(queue'.items) > Len(queue.items) => Len(queue.items) < queue.max

LEMMA StepWithinLimit ==
  ASSUME OnlyRaised, Inductive, WithinLimit, [Next]_vars
  PROVE  WithinLimit' /\ Grown
<1>0. /\ Counted(Packets, queue) /\ Len(queue.items) \in Nat /\ queue.max \in Nat
      /\ Len(queue.items) <= queue.max
  BY InductiveCounts DEF Counted, WithinLimit
<1>s. ASSUME queue'.max = queue.max, Len(queue'.items) \in Nat,
             Len(queue'.items) <= Len(queue.items)
      PROVE  WithinLimit' /\ Grown
  BY <1>0, <1>s DEF WithinLimit, Grown
<1>r. ASSUME NEW held, RestartAccessIfNeeded(queue, held)
      PROVE  WithinLimit' /\ Grown
  <2>1. queue' = queue \/ queue' = Cleanup(queue)  BY <1>r DEF RestartAccessIfNeeded
  <2> QED  BY <1>0, <1>s, <2>1, LengthAndLimit
<1>1. ASSUME NEW to \in Clients \cup {Group}, NEW mgt \in MayBeMgt, Queue(to, mgt)
      PROVE  WithinLimit' /\ Grown
  <2> DEFINE p == Fresh(to, mgt)
             q == Enqueue(queue, p)
  <2>1. p \in Packets  BY TxopAssumption DEF Fresh, Packets
  <2>2. queue' = q \/ queue' = Cleanup(q)
    BY <1>1 DEF Queue, RestartAccessIfNeeded
  <2> HIDE DEF p
  <2>3. /\ Counted(Packets, q) /\ q.max = queue.max /\ Len(q.items) <= queue.max
        /\ Len(q.items) > Len(queue.items) => Len(queue.items) < queue.max
    BY <1>0, <2>1, EnqueueCounts, EnqueueWithinLimit
  <2> HIDE DEF q
  <2>4. Len(q.items) \in Nat  BY <2>3 DEF Counted
  <2>5. /\ Cleanup(q).max = q.max /\ Len(Cleanup(q).items) \in Nat
        /\ Len(Cleanup(q).items) <= Len(q.items)
    BY <2>3, LengthAndLimit
  <2>6. /\ queue'.max = queue.max /\ Len(queue'.items) \in Nat
        /\ Len(queue'.items) <= Len(q.items)
    BY <2>2, <2>3, <2>4, <2>5
  <2> QED  BY <1>0, <2>3, <2>4, <2>6 DEF WithinLimit, Grown
<1>2. CASE NotifyAccessGranted
  <2>1. CASE current # None
    BY <1>0, <1>2, <1>s, <2>1 DEF NotifyAccessGranted
  <2>2. CASE current = None /\ IsEmpty(queue)
    <3>1. queue' = Cleanup(queue)  BY <1>2, <2>2 DEF NotifyAccessGranted
    <3> QED  BY <1>0, <1>s, <3>1, LengthAndLimit
  <2>3. CASE current = None /\ ~IsEmpty(queue)
    <3> DEFINE q == Cleanup(queue)
               p == NextPosition(q)
    <3>1. queue' = TakeAt(q, p)  BY <1>2, <2>3 DEF NotifyAccessGranted
    <3>2. /\ Counted(Packets, q) /\ q.items # << >> /\ q.max = queue.max
          /\ Len(q.items) \in Nat /\ Len(q.items) <= Len(queue.items)
      BY <1>0, <2>3, CleanupCounts, LengthAndLimit DEF IsEmpty
    <3> HIDE DEF q
    <3>3. p \in DOMAIN q.items  BY <3>2, PositionInside
    <3> HIDE DEF p
    <3>4. /\ TakeAt(q, p).max = q.max /\ TakeAt(q, p).size = q.size - 1
          /\ Counted(Packets, TakeAt(q, p))
      <4>1. PICK list : list = RemoveAt(q.items, p)  OBVIOUS
      <4>2. TakeAt(q, p) = [q EXCEPT !.items = list, !.size = q.size - 1]
        BY <4>1 DEF TakeAt
      <4>3. q \in [items : Seq(Packets), size : Nat, max : Nat]
        BY <3>2 DEF Counted
      <4>4. /\ [q EXCEPT !.items = list, !.size = q.size - 1].max = q.max
            /\ [q EXCEPT !.items = list, !.size = q.size - 1].size = q.size - 1
        BY <4>3
      <4> QED  BY <3>2, <3>3, <4>2, <4>4, TakeAtCounts
    <3>5. q.size = Len(q.items) /\ Len(TakeAt(q, p).items) = q.size - 1
          /\ Len(TakeAt(q, p).items) \in Nat
      BY <3>2, <3>4 DEF Counted
    <3> QED  BY <1>0, <1>s, <3>1, <3>2, <3>4, <3>5
  <2> QED  BY <2>1, <2>2, <2>3
<1>3. CASE ExchangeDone \/ ExchangeMissed
  BY <1>3, <1>r DEF ExchangeDone, ExchangeMissed
<1>4. CASE NotifyChannelSwitching
  <2>1. Flush(queue).items = << >> /\ Flush(queue).max = queue.max
    BY <1>0 DEF Flush, Counted
  <2>2. queue'.max = queue.max /\ Len(queue'.items) = 0
    BY <1>4, <2>1 DEF NotifyChannelSwitching
  <2> QED  BY <1>0, <1>s, <2>2
<1>5. CASE SetMaxSize
  <2>1. PICK max \in NewMaxSizes : queue' = [queue EXCEPT !.max = max]
    BY <1>5 DEF SetMaxSize
  <2>2. max \in Nat  BY TxopAssumption
  <2>3. queue'.items = queue.items /\ queue'.max = max
    BY <1>0, <2>1 DEF Counted
  <2>4. queue.max <= max  BY DEF OnlyRaised, WithinLimit
  <2>5. Len(queue.items) <= max  BY <1>0, <2>2, <2>4
  <2> QED  BY <1>0, <2>3, <2>5 DEF WithinLimit, Grown
<1>6. CASE Tick
  <2>1. /\ Counted(Packets, AgedQueue(queue))
        /\ AgedQueue(queue).size = queue.size /\ AgedQueue(queue).max = queue.max
    BY <1>0, OlderPacket, AgedQueueCounts DEF AgedQueue, Counted
  <2>2. Len(AgedQueue(queue).items) = Len(queue.items)
    BY <1>0, <2>1 DEF Counted
  <2> QED  BY <1>0, <1>6, <1>s, <2>1, <2>2 DEF Tick
<1>7. CASE UNCHANGED vars
  BY <1>0, <1>7, <1>s DEF vars
<1> QED  BY <1>1, <1>2, <1>3, <1>4, <1>5, <1>6, <1>7 DEF Next, Arrival

LEMMA InitWithinLimit == Init => WithinLimit
<1> SUFFICES ASSUME Init  PROVE WithinLimit
  OBVIOUS
<1>1. Len(queue.items) = 0 /\ queue.max = MaxSize  BY DEF Init, EmptyQueue
<1> QED  BY <1>1, QueueAssumption DEF WithinLimit

\* The queue takes no packet at its limit, as long as MaxPacketNumber is only
\* ever raised: lowered below m_size, it would no longer limit anything, since
\* Enqueue compares for equality (wifi-mac-queue.cc, Enqueue).
THEOREM LimitHolds ==
  ASSUME OnlyRaised
  PROVE  Spec => FullQueueDropsArrivals
<1>1. Inductive /\ WithinLimit /\ [Next]_vars => WithinLimit'
  BY StepWithinLimit
<1>2. Inductive /\ WithinLimit /\ [Next]_vars =>
        [Len(queue'.items) > Len(queue.items) => Len(queue.items) < queue.max]_vars
  BY StepWithinLimit DEF Grown
<1> QED  BY <1>1, <1>2, InitWithinLimit, AlwaysInductive, PTL
         DEF Spec, FullQueueDropsArrivals
=============================================================================
