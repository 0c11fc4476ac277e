# Verification of the dense-WiFi changes to ns-3.19

The repository holds the MAC layer of ns-3.19's WiFi model as changed for the paper "TCP
Download Performance in Dense WiFi Scenarios" (two schedulers, WiFi-RR in `dca-txop.cc` and
WiFox in `edca-txop-n.cc`, and the applications of the experiments). This directory models it
in TLA+, checks the models with TLC and proves theorems about them with TLAPS.

A program of this kind is single threaded, but everything in it is an event or a callback of a
discrete-event simulator: receptions, timeouts, grants, beacons and channel switches come in any
order, several at one instant, and each handler reads what the ones before left behind. That is
where it is hard to test, and what the models are about.

## 1. The system

| Part (source) | State | Operations | Talks to |
|---|---|---|---|
| **DcfManager, DcfState** (`dcf-manager`) | when the medium was last busy, and by what (`m_last*`, `m_rxing`); per contender a backoff, when it was last brought up to date, its AIFSN and window, whether access is requested; one access timeout | `RequestAccess`, `AccessTimeout`, `Notify*Now` | told by the PHY and MacLow; grants to DcaTxop / EdcaTxopN |
| **MacLow** (`mac-low`) | the exchange in progress, some ten timeout and response events, NAV, block ack buffers | `StartTransmission`, `ReceiveOk/Error`, timeouts, `Send*` | PHY below, contenders above, manager beside |
| **DcaTxop** (`dca-txop`) | the held packet, the queue, the WiFi-RR epoch | `Queue`, `NotifyAccessGranted`, `GotAck`, `MissedAck`, ... | queue, manager, MacLow |
| **WiFi-RR** (in `dca-txop`, `wifi-mac-queue`) | clients learnt, position in them, active clients, start of the epoch | part of `Queue` and `NotifyAccessGranted` | `DequeueByAddresses` |
| **WifiMacQueue** | list of packets, count, limit, lifetime | `Enqueue`, `Dequeue*`, `Peek*`, `Cleanup`, `Flush` | its txop |
| **EdcaTxopN** | as DcaTxop, and block ack agreements, blocked destinations, WiFox periods | as DcaTxop, and ADDBA / DELBA / BAR | the same, BlockAckManager |
| **StaWifiMac** | association state, three timers | `Receive`, timeouts, `Enqueue`, `SetActiveProbing` | DcaTxop, access point |
| **ApWifiMac** | beacon timer, what the station manager knows of each station | `Receive`, `SendOneBeacon`, `TxOk`, `TxFailed` | stations |
| **RegularWifiMac, WifiMac** | pointers to the above, timing constants | wiring, `Receive` of ADDBA / DELBA | all |
| **Applications** | sockets, counters, request / response pairs | connect, send, receive, timeouts | TCP / UDP sockets |

What makes each correct:

- *manager*: slots are counted only while the medium is idle; access is granted only after the
  backoff; a request always has a timeout; no assertion fails;
- *MacLow*: exchanges do not overlap, a cancelled frame was not on the air;
- *txop and queue*: nothing held or queued is forgotten, the count is right, nothing expired is
  sent, one receiver's packets keep their order, every client gets its turn;
- *association*: an event always leads out of the wait for a response; losses that end lead to a lasting
  association; it is not given up early, nor left for another reason than missed beacons;
- *block ack originator*: no data leaves between an ADDBA request and its response; what waits has an
  access request; what is reported missing is still stored;
- *block ack recipient*: packets go up in order, once, and what was acknowledged is not lost; an
  agreement in use is not ended by a timer of another;
- *loss counter*: the count is that of the packets which did not arrive, and never more.

PROJECT.json lists the hazards line by line with the properties that cover them.

## 2. Modules

| Module | Models | Kind |
|---|---|---|
| `DcfManager` | methods of DcfManager and DcfState as operators from state to state | constants, helpers |
| `ChannelAccess` | one device: contenders, manager, MacLow's exchanges, medium | specification |
| `WifiMacQueue` | the queue's methods as operators | constants, helpers |
| `DcaTxop` | one contender from its queue to the end of an exchange, WiFi-RR | specification |
| `EdcaTxopN` | one access category: the same, as originator of block ack agreements | specification |
| `InOrderDelivery` | what a recipient promises the layers above | abstract specification |
| `BlockAckRecipient` | MacLow as recipient of one agreement, its originator, the frames between | specification, refines `InOrderDelivery` |
| `StaAssociation` | a station, its access point and the lossy frames between | specification |
| `PacketLossCounter` | the bit map of received packets, against the packets that arrived | specification |
| `MCChannelAccess`, `MCDcaTxop`, `MCEdcaTxopN`, `MCBlockAckRecipient`, `MCStaAssociation`, `MCPacketLossCounter` | instances for TLC | |
| `ChannelAccessProofs` | types, timers and contention windows of ChannelAccess, lemmas on the manager's methods | proofs |
| `ExchangeProofs` | exchanges, assertions and the countdown of ChannelAccess | proofs, extends ChannelAccessProofs |
| `StaAssociationProofs`, `WifiMacQueueProofs`, `DcaTxopProofs`, `EdcaTxopNProofs`, `BlockAckRecipientProofs`, `PacketLossCounterProofs` | the other components | proofs |

`ChannelAccess` extends `DcfManager`; `DcaTxop` and `EdcaTxopN` extend `WifiMacQueue`;
`BlockAckRecipient` instantiates `InOrderDelivery`. ChannelAccess decides *when* a contender is granted
access and how an exchange ends; DcaTxop and EdcaTxopN leave both open, so what holds of them holds with
any channel. What another contender can do to them is cancel their exchange (StartTransmission calls Cancel of
the previous listener). By `OnlyBlockAcksOverlap` (section 4) that happens only to one that waits for a block ack:
EdcaTxopN has it as an action, `Cancel`; DcaTxop, which sends no block ack requests, is never cancelled.

### How state and actions correspond to the code

**DcfManager / ChannelAccess.** The methods call one another within one event of the simulator, so
each is an operator on `l` (the `m_last*` fields) and `d` (the DcfStates), and an action of
ChannelAccess chains them in the order of the code: `TransmitDcf` is UpdateBackoff on the fields as
they are after the timers are started and a reception is interrupted, but before the transmission is
noted, as in `NotifyTxStartNow`. A start and a duration that are only ever added are kept as their
sum. `NS_ASSERT`s become `ok` fields, which `AssertionsHold` reads; they do not stop the model.
The clock is an integer of half slots; an action happens at one instant, and `Tick` waits until
nothing is due. Events due together run in any order; the simulator's order, by when each was
scheduled, is one of them. The PHY puts a channel switch off to the end of a transmission. There it may come
before the EndTxNoAck of the frame (if it was scheduled before the frame was sent), which MacLow cannot cancel:
`unheard` says that this event is due and m_listener is 0. EndTxNoAck then calls a method of no object,
so time does not pass any more (`EndTxNoAckUnheard`).
`Originators` are the EdcaTxopN contenders that use block ack. They may receive an ADDBA response at any time, also
during an exchange of their own, and `GotAddBaResponse` then requests access as RestartAccessIfNeeded does, which unlike
StartAccessIfNeeded (`RequestAccess`) does not ask whether a packet is held. After a CTS they send data to be
acknowledged at once or by a later block ack (`FollowingFrames`).
`air` is the medium itself (when it really is busy), against which the manager's view is compared;
no handler reads it but the guards that belong to the PHY. In `low`, the phase of an exchange stands for
which of MacLow's events is running. RandomVariable draws are nondeterministic. The channel is
switched for everybody at once: manager, contenders and MacLow are listeners of one call.
WiFox is `SetParameters` at a grant, before the transmission, as in `EdcaTxopN::NotifyAccessGranted`: a grant that
begins a 100 ms period sets `High` (the high part of a period is never empty, since exp (0) is 1), a later one in the
same period sets `Low`, once. Which grant does so depends on milliseconds and on the length of the queue, and is
nondeterministic (`NextParameters`); a contender in `Wifox` may also keep its parameters, as it does in between
and at grants that return early with an ADDBA request or a block ack request.

**WifiMacQueue / DcaTxop.** A packet is its receiver, whether it is a management frame, and its age.
Ages stop at the lifetime, where nothing can tell them apart. `NotifyAccessGranted` is one action: it
looks at the held packet, runs Cleanup, advances the epoch, dequeues. `schedI` is a position, and
`End` for `m_clients.end ()`, which for a `std::list` stays the end when elements are
appended. `isAp` is set once, by the role of the device. The age of the epoch stops at 2400 ms. `waited`, a ghost, counts the epochs a client sat out.
When a grant comes is left open: ChannelAccess models that. Cleanup keeps the list of `Selected` items, a
recursive function, because the provers cannot look into `SelectSeq`.

**EdcaTxopN.** `current` is m_currentPacket with its header: kind, receiver, sequence number and the ack
policy that decides how its exchange ends. NotifyAccessGranted is one action per outcome; which one is taken
follows from the state, except that BlockAckManager may schedule a block ack request early. BlockAckManager,
QosBlockedDestinations and MacTxMiddle are not in the repository. What the code relies on of them is
`agreement`, `blocked`, `stored`, `resend`, `bars` and `nextSeq`: CreateAgreement blocks, only
UpdateAgreement unblocks, TearDownBlockAck forgets packets and requests but unblocks nothing.
CompleteTx stores every frame under block ack that is not a retry (kind `resend`), whether or not the agreement
it was taken under still stands, as the code does. Stored packets are a set, so storing one twice (a frame sent
again after a missed CTS without its retry flag) cannot be seen. `Cancel` ends a wait for a block ack without a word to
the manager: the request stays in `current`, and only an ADDBA response or a channel switch gets the contender going
again; the ghost `cancelled` marks the time until the next grant. ADDBA responses always carry success, as
RegularWifiMac::SendAddBaResponse sets it, so the branch for a refusal is never taken. `peers` and `replies` are the other ends: an ADDBA request that arrives is
answered, data under an agreement the peer does not know brings a DELBA, and each reply may come late or
never. `broken` and `switched` are ghosts that name the cases in which a destination is not served.

**BlockAckRecipient, InOrderDelivery.** Packets have numbers without end; on the air they carry them modulo
`SeqSpace`, and `Mapped` is QosUtilsMapSeqControlToUniqueInteger. The buffer is a list in the order of
StoreMpduIfNeeded. The loops of the two RxCompleteBufferedPackets functions are `Prefix`: the longest run
of buffered packets that satisfies their condition; without fragments `guard` always matches. A packet sent
again after it was stored is stored again, and the second copy is filtered above, by MacRxMiddle (`PassUp`).
The agreement's start stays at a missing packet, also when the originator has given it up: what is behind it
goes up only when a block ack request starts after it. DestroyBlockAckAgreement hands up what is complete and drops what is behind a hole. It is
taken to cancel the inactivity timer, as the destructor of the agreement (not in the repository) does.
CreateBlockAckAgreement over a standing agreement starts the timer anew without cancelling the one that runs: `stale`
counts those, and `OverwrittenTimeout` is one going off. A block ack request makes the cache forget what is older than
its start, a SIFS before the buffered packets older than it go up. RxCompleteBufferedPacketsWithSmallerSequence reads
the first packet of a buffer that may be empty; what it reads is then not used, so in the model nothing comes of it.
The ADDBA exchange is atomic here; EdcaTxopN models its losses. The refinement maps `open` to the
agreement and `stored` to the buffered packets not yet handed up.

**PacketLossCounter.** `receiveBitMap` is the bit map, `lost` the count; `received` is a ghost. NotifyReceived's loop
is `Passed`: every number it steps over counts as lost if the slot says that the packet one window before
did not arrive, and clears it. `received` holds the packets that came before they left the window, `late` (a ghost
too) whether any came after.

**StaAssociation.** Events are countdowns, `Off` when not running. `net` holds the frames queued or on
the air; a frame waits at most `MaxDelays` ticks in all and `MaxLosses` frames are lost.
The access point answers; it is ApWifiMac::Receive. `EnsureAssociated` is every call of
TryToEnsureAssociated from above, the one that SetActiveProbing (true) schedules included. `silence`, a
ghost, counts down from what the last beacon asked for.

## 3. Runs

| Run | Question | Bounds, and why they suffice |
|---|---|---|
| `backoff` | is the lazy backoff a countdown of idle slots, is access granted only after it | two contenders, one drawing 0, one up to 3 slots; time up to 11 half slots and two disturbances of any kind at any time: a backoff can be interrupted twice, in the middle of a slot; contender 2 may be given high priority at its first grant and counts its next backoff with it |
| `exchange` | do exchanges overlap, does an assertion fail, does a backoff fit its window | RTS, data, fragments, group frames, data without ACK after a CTS, two disturbances (each may be a frame for us, for others, broken, a CTS, an ACK, an ADDBA response for contender 2); grants may be declined; time for two exchanges and a retry; contender 2 goes from its configured parameters to high and then low priority, and waits with slots under each |
| `rr` | WiFi-RR at an access point, and a station, which is first in first out | three clients, two per epoch: rounds of two epochs, the second partial; a limit of two packets raised to three, lifetime 2 ticks, management frames, channel switches; symmetric in the clients |
| `live` | is everybody served | three clients, one per epoch, a full queue of three; no expiry |
| `settle` | does association settle, is it given up early, how does it end | two watchdog delays, refusals, probing switched off; six losses: enough to lose every frame of one association and the beacons of one watchdog |
| `edca` | is there a request for all work, does an agreement start at the announced number, is everybody served | two destinations, three packets, threshold 2, two attempts, lifetime 1: an agreement is set up, used, goes inactive and is torn down from either side; one timeout, one switch, every loss, every wait for a block ack cancelled or not |
| `reorder` | does the buffer implement in-order delivery | four packets, three outstanding, one given up, one teardown: a hole, what follows it, a new agreement over the old one |
| `loss` | is the count exact, is it ever too high | window 4, thirteen packets: the bit map goes round three times; packets late by up to 12, three windows |
| `blockack_orphan`, `lost_timer`, `addba_assert`, `reorder_wrap` | one statement of a comment or an assertion each, which the code does not keep | as the passing runs |

Time stops at `MaxTime` in ChannelAccess (`Finished` is the idle step there, so that TLC's deadlock
check still finds states where time could not pass). Every property has a mutant: a
definition of the model changed as a plausible bug would, under which TLC finds it violated.

### What the violation runs show

1. **blockack_orphan.** MacLow tells the manager of ACK and CTS timeouts but not of
   block ack timeouts. With two contenders the other is granted the medium while a block ack
   is awaited; StartTransmission cancels the exchange, and since EdcaTxopN::Cancel does nothing and no
   request stands, the contender sits on its request. New packets do not help: EdcaTxopN::Queue calls
   StartAccessIfNeeded, which does nothing while a packet is held. Only an ADDBA response (RestartAccessIfNeeded) or a
   channel switch does. Without block ack requests (`exchange`) the same property holds.
2. **lost_timer.** After an internal collision whose winner has nothing to send, a loser that draws 0
   has a backoff that ends now. No timeout is scheduled for it (`tmp > Simulator::Now ()`),
   and it waits until another event starts one. `TimerRuns` (below) proves that the declined grant is
   the only way to this.
3. **addba_assert.** While a contender waits for a block ack, the ADDBA response of another destination comes, and a
   frame that sets the NAV before it. GotAddBaResponse requests access for the packet held, the medium is busy, slots
   are drawn; when the wait is over MissedBlockAck starts a backoff and `NS_ASSERT (m_backoffSlots == 0)` fails.
   `AssertionsHold` and `BackoffCountsDown` therefore leave that case out, in words: the first reads the contenders
   without block ack, the second the steps in which the assertion has not failed.
4. **reorder_wrap.** RxCompleteBufferedPacketsWithSmallerSequence maps sequence numbers with a function for
   sequence control fields. Around the wrap of the numbers the order is wrong, and a packet older than the block ack
   request stays in the buffer. For the same reason one that is newer than the request can go up at once, ahead of a
   missing one that arrives later (`DeliversInOrder` fails on the same constants). With `First = 2` no number wraps and `reorder` finds the promise kept.

More divergences show in the models without a run of their own. Where a definition is named, it states
what the comment in the source says, and TLC finds it violated on a small instance.

- *Left Associated unnoticed* (`sta-wifi-mac.cc:281`). MissedBeacons in WAIT_ASSOC_RESP leaves m_assocRequestEvent running; when it
  fires in WAIT_PROBE_RESP the station associates with the probe request event still running, which takes it out of
  ASSOCIATED without m_linkDown. The state machine at the top of the file has no such way. `AssociationEndsAsKnown` says
  that there is no third one.
- *No event left* (`sta-wifi-mac.cc:154`, `WaitsForProbeTimeout`). Switching ActiveProbing off while a probe response is
  awaited leaves no event running, in a state that ignores beacons (`stopped` marks it).
- *No object to call* (`mac-low.cc:1452`, `EndTxNoAckIsHeard`). A switch at the instant a group frame ends, by an event
  scheduled before the frame was sent, finds EndTxNoAck still pending. CancelAllEvents cancels m_endTxNoAckEvent, to
  which nobody ever assigned the event, and m_listener is set to 0; EndTxNoAck runs all the same.
- *A timer overwritten* (`mac-low.cc:1820`, `OnlyInactivityEndsAgreement`). A DELBA is received and its acknowledgment lost,
  and a new agreement is set up over an old one whose timer runs. That timer is not cancelled: it goes off
  in the middle of the new agreement and ends it, however recently the new timer was reset.
- *Losses overlooked* (`packet-loss-counter.cc:111`, `LostFromFirst`, `LostHoweverLate`). The counter takes packet 0 for received
  before anything arrived, so its loss is never counted. A packet that comes when it has left the window sets the bit of
  a newer one; if that one is lost, its loss is not counted. `NeverOvercounts` says that this is all a late packet can do.

MissedBeacons takes a station out of REFUSED
although TryToEnsureAssociated says it waits for somebody to restart the association, and probe requests are sent
with ActiveProbing false. The limit of a queue is compared for equality, so one lowered below the current
size would lift it (`rr` only raises it). A block ack request or a packet under an agreement whose inactivity timer has
fired, and whose DELBA is still on its way, fails the assertion of ResetBlockAckInactivityTimerIfNeeded:
`InactivityTimerIsRunning` states it and is not an invariant. A lost ADDBA response leaves its destination
blocked, and a block ack request to a peer without the agreement is repeated for ever: `DestinationServed` names both,
and the request that was cancelled and that nothing asks for again (`blockack_orphan`).

### Fairness

`DcaTxop!FairSpec`: weak fairness of grants (a requested access is granted some time), of the end of
exchanges (MacLow's timeouts and answers end every one) and of time. Arrivals are not fair. The first is what
ChannelAccess is about and what `TimerRuns` supports: a request has a timeout, and a timeout of the
simulator fires. `StaAssociation!FairSpec`: weak fairness of handlers, timeouts, the access point and
time, as the simulator runs what is scheduled. Losing a frame is never fair, so `settle` says: if losses
end, the station ends up associated.

`EdcaTxopN!FairSpec`: weak fairness of grants, of the ends of exchanges and of replies, for the same reasons. A
cancelled exchange has no end: `Cancel` disables `ExchangeEnds`, so nothing is assumed of it. There is also
strong fairness of a block ack that reports all: a request and its packets are repeated without limit,
so a channel that loses only some of them lets one through. `BlockAckRecipient!FairSpec`: the response one SIFS after a
request is an event of the simulator (weak), and block ack request, block ack and missing packets
are repeated without limit until they arrive (strong).

## 4. Proofs

All for every value of the constants that the ASSUMEs allow, checked by `tlapm`.

- `ChannelAccessProofs!TypeCorrect` (`Spec => []TypeOK`). The time and the number of disturbances
  are not used as bounds. TypeOK alone is not inductive: a transmission that interrupts a
  reception subtracts its start from now, so the start must not be in the future (`Begun`).
- `ChannelAccessProofs!TimerRuns` (`MayDecline = FALSE` proves `Spec => []RequestHasTimer`). The invariant
  is `Inductive`: types, `Begun`, and "no request without a timeout". The key is
  `GrantAccessKeeps`: DoGrantAccess leaves every standing request with a backoff that ends in
  the future, because none was ready or because the frame just sent is on the air
  (`EndsAfterTransmission`), and `RestartKeepsTimer` then schedules the earliest. Every path of
  `Request`, `AfterExchange` and the handlers either goes through it or leaves requests
  and timeout alone. The hypothesis cannot be dropped: `lost_timer`.
- `ChannelAccessProofs!WindowFollowsParameters` (`Spec => []WindowWithinParameters`). New parameters are
  set without a look at the slots left, so it must be shown that the winner of a grant has none: `Ready` only says
  that its backoff ends by now. `UpdateBackoffSettles` supplies it: of a backoff just brought up to date
  something is left only if it ends after now, and every path to DoGrantAccess brings it up to date first
  (`Settled`). From the ASSUMEs it uses that CWmin is at most CWmax, as configured and as WiFox sets them.
- `ExchangeProofs!NoAssertionFails` (`Spec => []AssertionsHold`), `HeldPacketNotForgotten` (`Spec => []HeldPacketIsPending`),
  `OnlyBlockAcksOverlap` and `NoOverlap` (`Spec => ExchangesDoNotOverlap`). The invariant is `StateConsistent`:
  what the manager remembers of the medium is true of it (`Seen`); while an exchange or a response is under way, the
  manager remembers something that lasts as long (`Scheduled`: the end of the wait for an ACK or a CTS, the
  transmission, or a reception that ended less than a SIFS ago); the owner of an exchange holds its packet,
  requests nothing and has no backoff, unless it uses block ack and an ADDBA response came (`Owned`); no assertion has
  failed but that of such a contender (`Correct`); what is held is pending (`Pending`). The last three alone are not inductive: that a grant finds nothing under way follows only because
  `GetAccessGrantStart` is after everything that `Scheduled` ties an exchange to (`ScheduledBlocksGrant`). MacLow does
  not tell the manager of a block ack timeout, so nothing lasts as long as that wait. `HeldPacketNotForgotten` and
  `NoOverlap` therefore assume that no exchange waits for a block ack (`"ba" \notin FirstFrames`), and `blockack_orphan` is
  the counterexample to the first without it; `OnlyBlockAcksOverlap` says without hypothesis that nothing else overlaps.
- `ExchangeProofs!CountsDown` (`Spec => BackoffCountsDown`), `CountedWhenIdle` (`Spec => SlotsCountedWhenIdle`) and
  `GrantsWhenIdle` (`Spec => GrantedWhenIdle`). The backoff is lazy: `Left`, the slots less those
  that have elapsed, is what must count down. When time passes the quotient of an elapsed interval
  grows by at most one a tick, and an update leaves `Left` as it was; every handler that moves the start
  of a backoff brings it up to date first, so that in what follows no slot has elapsed (`Current`) and moving the start
  cannot give one back. An owner that drew slots after an ADDBA response is the one case in which StartBackoffNow
  replaces them, and then its assertion fails (`addba_assert`): the steps in which it does are left out. `Seen` turns the manager's fields into what the medium did. A request granted at once
  counts as `Granted` too. All three need AIFSN to be at least 1 (an ASSUME; WifiMac configures 2, 3 or 7
  at `wifi-mac.cc:393-413`, ApWifiMac 1 for beacons at `ap-wifi-mac.cc:80`, WiFox 1 or 2 at `edca-txop-n.cc:411,426`).
- `StaAssociationProofs!TypeCorrect`, `NotStranded` (`Spec => []StationNotStranded`: the wait for an association
  response has its timeout, and until ActiveProbing is switched off so has that for a probe response, and ASSOCIATED and
  REFUSED have a watchdog or a probe timeout. BEACON_MISSED needs none: the station listens for beacons; invariant
  `Guarded`, which adds what is running in each state)
  `Patient` (`Spec => WatchdogIsPatient`; invariant `EndCoversSilence`: the end MissedBeacons looks at is
  never before what the last frame asked for) and `EndsAsKnown` (`Spec => AssociationEndsAsKnown`; invariant
  `RequestTimerDone`: an associated station has no timer of an association request left).
- `WifiMacQueueProofs` holds the lemmas on the queue that both contenders use: `Selected` returns exactly the
  items asked for (`SelectedProperties`; the recursion unfolds because a least counterexample among the lengths
  would contradict its own definition, `SelectedExists`), every method keeps the count (`EnqueueCounts`,
  `CleanupCounts`, `TakeAtCounts`), the first available packet is one that may be sent.
- `DcaTxopProofs!TypeCorrect`, `CountIsLength` (`Spec => []SizeCountsItems`), `WorkRequested`
  (`Spec => []WaitingWorkIsRequested`) and `NothingExpiredIsSent` (`Spec => NoExpiredPacketSent`). The types and
  the count are inductive together. WorkRequested rests on `EmptyIsExpired`: a queue found
  empty stays so while time passes and until the next arrival.
- `DcaTxopProofs!TurnComes` (`Spec => []TurnWithinRound`). How long a client may still have to wait depends on how many
  batches of NumClients lie between the start of the next one and its position, in a list that grows at its
  end while a round is under way. `Turns` states that for every number j of batches that fits (`Turn`): the epochs sat out and
  those j together stay below what a round takes. It also says that batches start at multiples of NumClients, which only
  the end of the list interrupts.
- `DcaTxopProofs!ReceiverOrder` (`Spec => ReceiverOrderKept`): `Ordered` says that the list stays in the order of
  arrival, and what is fetched is the first item for its receiver. `LimitHolds` (`Spec => FullQueueDropsArrivals`)
  assumes `OnlyRaised`, that MaxPacketNumber is never lowered: Enqueue compares the size with it for
  equality, so a limit lowered below the size would limit nothing. `WithinLimit` is the invariant.
- `EdcaTxopNProofs!TypeCorrect`, `AgreementStarts` (`Spec => []AgreementStartsAtNext`) and `WorkRequested`
  (`Spec => []WorkIsRequested`). TypeOK is not inductive: `Inductive` adds that data held under block ack has a
  number already given out, and that action frames are for destinations, else what CompleteTx stores would have no type.
  AgreementStarts needs `OpenIsBlocked`: while a request is open its destination is blocked. The number of a destination
  moves only when a packet for it leaves the queue, and `FirstItemIsSendable` says such a packet is not blocked.
  WorkRequested goes handler by handler: those that leave work end with a request (`RestartCovers`,
  `StartCovers`), a grant that finds nothing leaves nothing, and DELBA frames and time create no work. A switch and a
  cancelled wait do leave work behind; the property says so.
- `PacketLossCounterProofs!TypeCorrect`, `LossCountIsExact` (`Spec => []LostIsExact`) and `LossCountIsSafe`
  (`Spec => []NeverOvercounts`), without hypothesis. The invariant `BitsAreReceived` says what each slot means for the last window;
  within one window no two numbers share a slot (`SharedSlot`), so the loop finds exactly the losses that leave the window
  (`LoopFindsLeft`). Once a packet was late only half of it is left: a bit that is clear belongs to a packet that did
  not arrive in time, so nothing is counted wrongly, but some may be overlooked.
- `BlockAckRecipientProofs!TypeCorrect` and `AcknowledgedKept` (`Spec => []AcknowledgedIsKept`), for any sequence
  numbers: Insert adds one packet (`InsertAdds`), the hand-ups move packets from the buffer to what went up and drop
  none (`ForwardedHolds`). The recursion of PassUp unfolds as that of Selected does (`PassedExists`).
- `BlockAckRecipientProofs!ImplementsInOrderDelivery` (`Spec => DeliversInOrder`, the refinement: initial states map to
  initial states, every step to a step of InOrderDelivery or a stutter) and `OlderForwarded`
  (`Spec => OlderThanRequestForwarded`). Both assume `NoWrap`, that the flow's numbers stay in the lower half of their space: there
  `Mapped` keeps the order of numbers and of controls (`NumbersOrdered`, `ControlsOrdered`). `reorder_wrap` is the
  counterexample to the second without it, and on its constants TLC finds the refinement violated as well. The invariant is `Consistent`:
  the buffer is sorted and nothing in it is older than what went up (`Ordered`); the recipient has seen only what was
  sent, and its start is not beyond (`Agreed`); and what the originator still awaits, the recipient still takes
  (`Awaited`): a packet outstanding and not in the bitmap is newer than all that went up and not before the start. The last is what makes
  in-order delivery inductive. A packet reported missing is sent again after newer ones were stored, and it must not come
  after one that went up. It holds because a block ack request starts at the first packet outstanding, and because
  UntilFirstLost stops at the first packet missing (`CompleteUp`).

Each of these invariants was checked by TLC on the instances of the runs before it was proved.

Only model-checked, because liveness under fairness is out of the prover's reach: `ClientServed`, `GroupServed` (`live`),
`AssociationSettles` (`settle`), `DestinationServed` (`edca`), `BufferedIsHandedUp` (`reorder`). Every other property of a
passing run is a theorem, under the hypotheses named above.

## 5. Not modelled

- *The timing of WiFox*: when a period begins and how its high part depends on the length of the queue. What
  it does to a contender is modelled, at any grants.
- *Aggregation and fragmentation* of EdcaTxopN, with the queue operations only they use, and fragments under
  block ack (StoreMpduIfNeeded and the two hand-up loops handle them; the compressed block ack the code sets excludes them).
- *MacLow's own copy of the NAV*; ChannelAccess has the manager's.
- *The access point's view of its stations*; a second access point.
- *The applications* other than PacketLossCounter.
- Attribute accessors, tracing, the choice of modes and rates, header contents, helpers, scenario scripts
  and generated Python bindings have no behaviour of their own to model.
- WifiPhy, BlockAckManager, BlockAckCache, the sequence number middle layers, Simulator and sockets are not in the
  repository: they are the environment.
- Fast-ack, PIFS and RIFS variants of StartDataTxTimers and CTS-to-self are used by no caller here.

## 6. Plan

1. *Done*: channel access, WiFi-RR and its queue, association, block ack at both ends, the loss counter;
   in-order delivery as abstract specification; types, timers, watchdog, queue counts, access requests,
   agreement starts, contention windows under WiFox, the loss count, exchanges and the countdown, turns, receiver
   order, in-order delivery proved.
2. **Proofs**: the recipient for flows that wrap, with the comparison repaired; the exchange theorems with block
   acks, with their timeout told to the manager.
3. **Access point**: its view of stations; half-open associations; two access points and late responses.
4. **MacLow**: m_lastNav* against the manager's NAV, and the reset after a missed CTS.
5. **Applications**: chatty request / response, bulk send loops.
