------------------------------ MODULE DcaTxop ------------------------------
(***************************************************************************)
(* dca-txop.{h,cc}: one contender from its queue to the end of an          *)
(* exchange, with the WiFi-RR scheduler of an access point.                *)
(*                                                                         *)
(* WiFi-RR divides time into epochs and learns the addresses packets are   *)
(* queued for (m_clients).  At the first access of a new epoch the next    *)
(* NumClients of them become the active ones; until the epoch ends their   *)
(* packets go first.  Everything happens when access is granted: no event  *)
(* of the simulator marks the end of an epoch.                             *)
(*                                                                         *)
(* When and how often access is granted is modelled in ChannelAccess; here *)
(* a grant may come at any time after the request.                         *)
(***************************************************************************)
EXTENDS WifiMacQueue

CONSTANTS
  Roles,         \* whether the device is an access point: what isAp may be
  NumClients,    \* numClients
  EpochLength,   \* the 2400 ms of an epoch
  RetryLimit,    \* attempts before NeedDataRetransmission refuses
  MayBeMgt,      \* whether a frame queued here may be a management frame
  MaySwitch,     \* whether the channel may be switched
  NewMaxSizes,   \* what the MaxPacketNumber attribute may be set to later
  WaitedBound    \* bound on the ghost waited

ASSUME TxopAssumption ==
  /\ Roles \subseteq BOOLEAN
  /\ NumClients \in Nat \ {0}
  /\ EpochLength \in Nat
  /\ RetryLimit \in Nat
  /\ MayBeMgt \subseteq BOOLEAN
  /\ MaySwitch \in BOOLEAN
  /\ NewMaxSizes \subseteq Nat
  /\ WaitedBound \in Nat

VARIABLES
  isAp,        \* m_low->GetBssid () == m_low->GetAddress ()
  queue,       \* m_queue
  current,     \* m_currentPacket and m_currentHdr, or None
  tries,       \* failed attempts to send it
  requested,   \* m_dcf->IsAccessRequested ()
  clients,     \* m_clients
  schedI,      \* position in clients of the next to become active, or End
  active,      \* active_clients
  epochAge,    \* Now () - schedTime, up to EpochLength
  waited       \* ghost: epochs each client has sat out since it was last active

vars == <<isAp, queue, current, tries, requested, clients, schedI, active, epochAge, waited>>

rrVars == <<isAp, clients, schedI, active, epochAge, waited>>

None == [to |-> Group, mgt |-> FALSE, age |-> -1]

End == 0   \* m_clients.end (), which push_back does not move

TypeOK ==
  /\ isAp \in Roles
  /\ queue \in Queues
  /\ current \in Packets \cup {None}
  /\ tries \in 0..RetryLimit
  /\ requested \in BOOLEAN
  /\ clients \in Seq(Clients)
  /\ schedI \in DOMAIN clients \cup {End}
  /\ active \subseteq Clients
  /\ epochAge \in 0..EpochLength
  /\ waited \in [Clients -> Nat]

Init ==
  /\ isAp \in Roles
  /\ queue = EmptyQueue
  /\ current = None
  /\ tries = 0
  /\ requested = FALSE
  /\ clients = <<>>
  /\ schedI = End
  /\ active = {}
  /\ epochAge = 0
  /\ waited = [c \in Clients |-> 0]

-----------------------------------------------------------------------------
(* Access requests, from the queue q and the packet held then.             *)

\* RestartAccessIfNeeded; StartAccessIfNeeded is the same when nothing is held.
RestartAccessIfNeeded(q, held) ==
  /\ queue' = IF held # None THEN q ELSE Cleanup(q)
  /\ requested' = (requested \/ held # None \/ ~IsEmpty(q))

\* DcaTxop::Queue.  The client is learnt even if its packet is dropped.
Queue(to, mgt) ==
  LET q == Enqueue(queue, Fresh(to, mgt))
  IN  /\ clients' = IF isAp /\ to # Group /\ ~Contains(clients, to)
                    THEN Append(clients, to) ELSE clients
      /\ IF current = None THEN RestartAccessIfNeeded(q, None)
                           ELSE queue' = q /\ requested' = requested
      /\ UNCHANGED <<isAp, current, tries, schedI, active, epochAge, waited>>

-----------------------------------------------------------------------------
(* WiFi-RR.                                                                *)

FirstScheduledNoWrap == schedI   \* mutant: the end of the list is final

FirstScheduled ==
  IF schedI = End /\ clients # <<>> THEN 1 ELSE schedI

\* The positions whose clients become active, from first on.
Batch(first) == {k \in DOMAIN clients : first # End /\ first <= k /\ k < first + NumClients}

AfterBatchBeyond(first) ==   \* mutant: the end of the list is not noticed
  IF first = End THEN End ELSE first + NumClients

AfterBatchStuck(first) == first   \* mutant: schedI stays where it was

AfterBatch(first) ==
  IF first = End \/ first + NumClients > Len(clients) THEN End ELSE first + NumClients

SatOut(n) == IF n < WaitedBound THEN n + 1 ELSE n

NewEpoch ==
  LET batch == Batch(FirstScheduled)
  IN  /\ active' = {clients[k] : k \in batch}
      /\ schedI' = AfterBatch(FirstScheduled)
      /\ epochAge' = 0
      /\ waited' = [c \in Clients |->
                      IF ~Contains(clients, c) \/ c \in {clients[k] : k \in batch}
                      THEN 0 ELSE SatOut(waited[c])]
      /\ UNCHANGED <<isAp, clients>>

Schedule == IF isAp /\ epochAge >= EpochLength THEN NewEpoch ELSE UNCHANGED rrVars

\* The packet that leaves the queue q when nothing is held.
NextPosition(q) ==
  IF isAp THEN PositionByAddresses(q, active') ELSE FrontPosition(q)

-----------------------------------------------------------------------------
(* Grants and the ends of exchanges.                                       *)

NotifyAccessGranted ==
  /\ requested
  /\ requested' = FALSE
  /\ tries' = tries
  /\ \/ /\ current # None
        /\ UNCHANGED <<queue, current, rrVars>>
     \/ /\ current = None
        /\ IsEmpty(queue)
        /\ queue' = Cleanup(queue)
        /\ UNCHANGED <<current, rrVars>>
     \/ /\ current = None
        /\ ~IsEmpty(queue)
        /\ Schedule
        /\ LET q == Cleanup(queue) IN
           /\ current' = q.items[NextPosition(q)]
           /\ queue' = TakeAt(q, NextPosition(q))

\* An exchange is running: a packet is held and access is not asked for.
Sending == current # None /\ ~requested

\* GotAck of the last fragment, EndTxNoAck, or MissedAck / MissedCts after the
\* last attempt.
ExchangeDoneSilent ==   \* mutant: access is not asked for again
  /\ Sending
  /\ current' = None
  /\ tries' = 0
  /\ UNCHANGED <<queue, requested, rrVars>>

ExchangeDone ==
  /\ Sending
  /\ current' = None
  /\ tries' = 0
  /\ RestartAccessIfNeeded(queue, None)
  /\ UNCHANGED rrVars

\* MissedAck, MissedCts of a unicast frame with attempts left.
ExchangeMissed ==
  /\ Sending
  /\ current.to # Group
  /\ tries < RetryLimit
  /\ tries' = tries + 1
  /\ RestartAccessIfNeeded(queue, current)
  /\ UNCHANGED <<current, rrVars>>

\* DcfManager::NotifySwitchingStartNow takes the request back.
NotifyChannelSwitching ==
  /\ MaySwitch
  /\ queue' = Flush(queue)
  /\ current' = None
  /\ tries' = 0
  /\ requested' = FALSE
  /\ UNCHANGED rrVars

SetMaxSize ==
  /\ \E max \in NewMaxSizes : queue' = [queue EXCEPT !.max = max]
  /\ UNCHANGED <<current, tries, requested, rrVars>>

Tick ==
  /\ queue' = AgedQueue(queue)
  /\ epochAge' = IF epochAge < EpochLength THEN epochAge + 1 ELSE epochAge
  /\ UNCHANGED <<isAp, current, tries, requested, clients, schedI, active, waited>>

Arrival == \E to \in Clients \cup {Group}, mgt \in MayBeMgt : Queue(to, mgt)

Next ==
  \/ Arrival
  \/ NotifyAccessGranted
  \/ ExchangeDone
  \/ ExchangeMissed
  \/ NotifyChannelSwitching
  \/ SetMaxSize
  \/ Tick

Spec == Init /\ [][Next]_vars

\* ChannelAccess grants what was requested, an exchange ends (its timeouts see
\* to that), and time passes.
Fairness ==
  /\ WF_vars(NotifyAccessGranted)
  /\ WF_vars(ExchangeDone)
  /\ WF_vars(ExchangeMissed)
  /\ WF_vars(Tick)

FairSpec == Spec /\ Fairness

-----------------------------------------------------------------------------
(* Properties.                                                             *)

Fetched == current = None /\ current' # None

\* m_size, which every method keeps by hand and which alone decides whether an
\* arrival is dropped, is the number of packets in the list.
SizeCountsItems == queue.size = Len(queue.items)

\* A packet that has reached its lifetime is never sent, however long the
\* contender was away from its queue (wifi-mac-queue.h: it is dropped).
NoExpiredPacketSent == 
  [][Fetched /\ Lifetime # Forever => current'.age < Lifetime]_vars

\* WiFi-RR reorders clients, not the packets of one client: what is fetched is
\* no younger than anything else that waits for the same receiver.
ReceiverOrderKept ==
  [][Fetched => \A k \in DOMAIN queue'.items :
        queue'.items[k].to = current'.to => queue'.items[k].age <= current'.age]_vars

\* No work is forgotten: while a packet that can still be sent waits and none is
\* held, access is requested.
WaitingWorkIsRequested ==
  current = None /\ ~IsEmpty(queue) => requested

\* No client sits out a whole round: a round over n clients takes the ceiling of
\* n / NumClients epochs, and clients learnt while a round is under way neither
\* delay nor lose anybody's turn by more than the longer list explains.
TurnWithinRound ==
  \A c \in Clients : Contains(clients, c) =>
    waited[c] * NumClients < Len(clients)

\* An arrival at a queue that already holds MaxPacketNumber packets is dropped
\* (wifi-mac-queue.cc, the MaxPacketNumber attribute).
FullQueueDropsArrivals ==
  [][Len(queue'.items) > Len(queue.items) => Len(queue.items) < queue.max]_vars

WaitsFor(c) == \E k \in DOMAIN queue.items : queue.items[k].to = c

\* A packet waiting for a client is not starved by the others, even if their
\* backlog never ends: some packet of the client is sent.
ClientServed == \A c \in Clients : WaitsFor(c) ~> current.to = c

\* The same for group frames, which belong to no client and no epoch: nothing
\* but reaching the front of the queue gets them sent.
GroupServed == WaitsFor(Group) ~> current # None /\ current.to = Group
=============================================================================
