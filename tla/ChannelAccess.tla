--------------------------- MODULE ChannelAccess ---------------------------
(***************************************************************************)
(* Channel access of one device: the DcfManager with what drives it.       *)
(*                                                                         *)
(*   - the contenders (DcaTxop, EdcaTxopN): request access while they have *)
(*     something to send, draw a backoff after every exchange;             *)
(*   - MacLow: runs the frame exchange of the contender that was granted   *)
(*     the medium, answers data and RTS frames one SIFS after them;        *)
(*   - the PHY and the air around it, which are not code under src/: they  *)
(*     choose when receptions and CCA-busy periods start and how they end. *)
(*                                                                         *)
(* One action is one event of the simulator with every call it makes.      *)
(* Events due at the same instant may run in any order; time (Tick) passes *)
(* only when none is left.                                                 *)
(***************************************************************************)
EXTENDS DcfManager

CONSTANTS
  FirstFrames,      \* what a contender may begin an exchange with
  TxDurations,      \* of the frames this device sends,
  RxDurations,      \*   of those it receives,
  CcaDurations,     \*   of CCA-busy periods,
  NavDurations,     \*   of the NAV that a received frame asks for,
  SwitchDurations,  \*   of channel switches
  ResponseTimeout,  \* GetAckTimeout, GetCtsTimeout: after the end of the frame
  BlockAckTimeout,  \* GetBasicBlockAckTimeout, GetCompressedBlockAckTimeout
  MayDecline,       \* a contender may have nothing to send when granted
  Originators,      \* contenders that use block ack (EdcaTxopN, by its threshold)
  Wifox,            \* contenders that change their parameters (EdcaTxopN)
  High, Low,        \*   to these, in the two parts of a WiFox period
  MaxTime,          \* bound on the clock
  MaxDisturbances   \* bound on the receptions, CCA-busy periods and switches

ASSUME EnvironmentAssumption ==
  /\ FirstFrames \subseteq {"rts", "ack", "ba", "noack"}
  /\ TxDurations \subseteq Nat \ {0}
  /\ \A duration \in RxDurations : duration \in Nat /\ duration > Sifs
  /\ CcaDurations \subseteq Nat
  /\ NavDurations \subseteq Nat
  /\ SwitchDurations \subseteq Nat \ {0}
  /\ ResponseTimeout \in Nat \ {0}
  /\ BlockAckTimeout \in Nat \ {0}
  /\ MayDecline \in BOOLEAN
  /\ Originators \subseteq Dcf
  /\ Wifox \subseteq Dcf
  /\ {High, Low} \subseteq [aifsn : Nat \ {0}, cwMin : Nat, cwMax : Nat]
  /\ \A p \in {High, Low} : p.cwMin <= p.cwMax
  /\ MaxTime \in Nat
  /\ MaxDisturbances \in Nat

VARIABLES
  low,        \* the exchange MacLow runs: its phase, its owner, its next event
  respondAt,  \* when m_sendAckEvent / m_sendCtsEvent fires, or NoTimer
  holding,    \* contenders with m_currentPacket # 0
  air,        \* the medium itself, against which the manager's view is checked
  unheard,    \* an EndTxNoAck is due and m_listener is 0
  disturbances  \* how many receptions, CCA-busy periods and switches so far

vars == <<now, last, dcf, timer, low, respondAt, holding, air, unheard, disturbances>>

(***************************************************************************)
(* Phases of an exchange:                                                  *)
(*   rts       RTS sent, m_ctsTimeoutEvent running                         *)
(*   cts       a CTS came, the data follows in a SIFS                      *)
(*   fragment  the ACK of a fragment came, the next follows in a SIFS      *)
(*   ack       data sent, m_normalAckTimeoutEvent running                  *)
(*   ba        block ack request sent, m_blockAckTimeoutEvent running      *)
(*   noack     group frame, or data under block ack, sent: EndTxNoAck is   *)
(*             scheduled at its end                                        *)
(***************************************************************************)
Following == {"cts", "fragment"}

Phases == {"idle", "rts", "ack", "ba", "noack"} \cup Following

Idle == [phase |-> "idle", owner |-> 1, at |-> 0]

Exchange(s, phase, at) == [phase |-> phase, owner |-> s, at |-> at]

AirFields == [rx : Nat, tx : Nat, cca : Nat, nav : Nat, switch : Nat,
              eifs : Nat, ok : BOOLEAN]

TypeOK ==
  /\ DcfTypeOK
  /\ low \in [phase : Phases, owner : Dcf, at : Nat]
  /\ respondAt \in Nat \cup {NoTimer}
  /\ holding \subseteq Dcf
  /\ air \in AirFields
  /\ unheard \in BOOLEAN
  /\ disturbances \in Nat

Init ==
  /\ DcfInit
  /\ low = Idle
  /\ respondAt = NoTimer
  /\ holding = {}
  /\ air = [rx |-> 0, tx |-> 0, cca |-> 0, nav |-> 0, switch |-> 0,
            eifs |-> 0, ok |-> TRUE]
  /\ unheard = FALSE
  /\ disturbances = 0

-----------------------------------------------------------------------------
(* Transmission.                                                           *)

\* The PHY starts to transmit; it must not be transmitting nor switching.
AirTransmits(duration) ==
  [air EXCEPT !.tx = now + duration, !.rx = Truncated(@),
              !.ok = @ /\ air.tx <= now /\ air.switch <= now]

\* The timers of StartDataTxTimers and SendRtsForPacket that the manager is
\* told of: nothing is said of the block ack timeout.
TimersStarted(l, frame, duration) ==
  CASE frame = "ack" -> AckTimeoutStarted(l, duration + ResponseTimeout)
    [] frame = "rts" -> CtsTimeoutStarted(l, duration + ResponseTimeout)
    [] OTHER -> l

\* The event scheduled with the frame.
EventOf(frame, duration) ==
  CASE frame \in {"ack", "rts"} -> now + duration + ResponseTimeout
    [] frame = "ba" -> now + duration + BlockAckTimeout
    [] OTHER -> now + duration

\* NotifyTxStartNow, after the timers are started.
TransmitDcf(l, d, frame, duration) ==
  UpdateBackoff(TxInterrupts(TimersStarted(l, frame, duration)), d)

TransmitLast(l, frame, duration) ==
  [TxInterrupts(TimersStarted(l, frame, duration)) EXCEPT !.txEnd = now + duration]

-----------------------------------------------------------------------------
(* Access.                                                                 *)

\* The losers of an internal collision draw a new backoff.  Their request
\* stands, so their RestartAccessIfNeeded does nothing.
InternalCollisions(d, draws) ==
  [s \in Dcf |-> IF s \in DOMAIN draws THEN StartBackoffNow(d, s, draws[s])[s] ELSE d[s]]

Draws(d, losers) ==
  {r \in [losers -> UNION {0..d[s].cw : s \in losers}] : \A s \in losers : r[s] <= d[s].cw}

\* The parameters that NotifyAccessGranted of an EdcaTxopN may set: those of high
\* priority when a period of 100 ms begins (a part of it always has them), those
\* of low priority when that part is over.
NextParameters(d, w) ==
  LET current == [aifsn |-> d[w].aifsn, cwMin |-> d[w].cwMin, cwMax |-> d[w].cwMax]
  IN  {p \in {High, Low} : w \in Wifox /\ (p = Low => current = High)}

\* The winner starts an exchange: StartTransmission cancels whatever MacLow
\* had pending, but for an EndTxNoAck.  A block ack request is only sent by
\* who set up an agreement.
Transmit(l, d, w, draws, tm, h) ==
  \E frame \in FirstFrames, duration \in TxDurations :
    /\ frame = "ba" => w \in Originators
    /\ LET l2 == TransmitLast(l, frame, duration)
           d2 == InternalCollisions(TransmitDcf(l, d, frame, duration), draws)
       IN  /\ dcf' = d2
           /\ last' = l2
           /\ timer' \in RestartAccessTimeout(l2, d2, tm)
           /\ low' = Exchange(w, frame, EventOf(frame, duration))
           /\ respondAt' = NoTimer
           /\ holding' = h \cup {w}
           /\ air' = AirTransmits(duration)

\* Nothing is left to send, or nothing to a destination that is not blocked.
Decline(l, d, w, draws, tm, lw, h, ra) ==
  /\ MayDecline
  /\ w \notin h
  /\ dcf' = InternalCollisions(d, draws)
  /\ last' = l
  /\ timer' \in RestartAccessTimeout(l, InternalCollisions(d, draws), tm)
  /\ low' = lw
  /\ holding' = h
  /\ respondAt' = ra
  /\ UNCHANGED air

\* DoGrantAccess, then DoRestartAccessTimeoutIfNeeded.  An answer to what was just
\* received is due at ra, unless the winner's transmission cancels it.
GrantAccess(l, d, tm, lw, h, ra) ==
  LET ready == Ready(l, d) IN
  \/ /\ ready = {}
     /\ dcf' = d
     /\ last' = l
     /\ timer' \in RestartAccessTimeout(l, d, tm)
     /\ low' = lw
     /\ holding' = h
     /\ respondAt' = ra
     /\ UNCHANGED air
  \/ \E w \in ready :
       /\ Winner(ready, w)
       /\ \E draws \in Draws(d, ready \ {w}) :
            \/ Transmit(l, NotifyAccessGranted(d, w), w, draws, tm, h)
            \/ \E p \in NextParameters(d, w) :
                 Transmit(l, SetParameters(NotifyAccessGranted(d, w), w, p), w, draws, tm, h)
            \/ Decline(l, NotifyAccessGranted(d, w), w, draws, tm, lw, h, ra)

\* DcfManager::RequestAccess.  NotifyCollision draws a backoff; as the request
\* is already noted, its RestartAccessIfNeeded does nothing.
Request(l, d, s, tm, lw, h, ra) ==
  LET d2 == NotifyAccessRequested(UpdateBackoff(l, d), s) IN
  \/ /\ d2[s].slots = 0 /\ IsBusy(l)
     /\ \E r \in 0..d2[s].cw : GrantAccess(l, StartBackoffNow(d2, s, r), tm, lw, h, ra)
  \/ /\ ~(d2[s].slots = 0 /\ IsBusy(l))
     /\ GrantAccess(l, d2, tm, lw, h, ra)

\* StartAccessIfNeeded of a contender whose queue is not empty.
RequestAccess(s) ==
  /\ s \notin holding
  /\ ~dcf[s].requested
  /\ Request(last, dcf, s, timer, low, holding, respondAt)
  /\ UNCHANGED <<now, unheard, disturbances>>

AccessTimeout ==
  /\ timer = now
  /\ GrantAccess(last, UpdateBackoff(last, dcf), NoTimer, low, holding, respondAt)
  /\ UNCHANGED <<now, unheard, disturbances>>

-----------------------------------------------------------------------------
(* Exchanges.  At the end of one its owner draws a backoff and requests     *)
(* access again if it still holds the packet, or has another.              *)

AfterExchangeForgetful(l, d, s, tm, h) ==   \* mutant: asks only if nothing is held
  \E r \in 0..d[s].cw, again \in BOOLEAN :
    LET d2 == StartBackoffNow(d, s, r)
        restart == again /\ s \notin h /\ ~d2[s].requested
    IN  \/ /\ restart
           /\ Request(l, d2, s, tm, Idle, h, respondAt)
        \/ /\ ~restart
           /\ dcf' = d2 /\ last' = l /\ timer' = tm /\ low' = Idle /\ holding' = h
           /\ UNCHANGED <<respondAt, air>>

AfterExchange(l, d, s, tm, h) ==
  \E r \in 0..d[s].cw, again \in BOOLEAN :
    LET d2 == StartBackoffNow(d, s, r)
        restart == again /\ ~d2[s].requested
    IN  /\ s \in h => again
        /\ \/ /\ restart
              /\ Request(l, d2, s, tm, Idle, h, respondAt)
           \/ /\ ~restart
              /\ dcf' = d2 /\ last' = l /\ timer' = tm /\ low' = Idle /\ holding' = h
              /\ UNCHANGED <<respondAt, air>>

\* The frame is done with (GotAck, GotBlockAck, EndTxNoAck, the retry limit).
Done(l, tm) ==
  AfterExchange(l, ResetCw(dcf, low.owner), low.owner, tm, holding \ {low.owner})

\* The frame is kept for another attempt.
Retry == AfterExchange(last, UpdateFailedCw(dcf, low.owner), low.owner, timer, holding)

\* MissedAck, MissedCts: retry or give up; MissedBlockAck: always retry.
ResponseMissed ==
  /\ low.phase \in {"ack", "rts", "ba"}
  /\ low.at = now
  /\ \/ Retry
     \/ low.phase # "ba" /\ Done(last, timer)
  /\ UNCHANGED <<now, unheard, disturbances>>

EndTxNoAck ==
  /\ low.phase = "noack"
  /\ low.at = now
  /\ Done(last, timer)
  /\ UNCHANGED <<now, unheard, disturbances>>

\* What follows in an exchange: a fragment is acknowledged; so is the data after a
\* CTS, unless it is sent under a block ack agreement.
FollowingFrames ==
  {"ack"} \cup {f \in {"noack"} : low.phase = "cts" /\ low.owner \in Originators}

\* SendDataAfterCts, or StartNext with the next fragment.
SifsElapsed ==
  /\ low.phase \in Following
  /\ low.at = now
  /\ \E frame \in FollowingFrames, duration \in TxDurations :
       /\ last' = TransmitLast(last, frame, duration)
       /\ dcf' = TransmitDcf(last, dcf, frame, duration)
       /\ low' = Exchange(low.owner, frame, EventOf(frame, duration))
       /\ air' = AirTransmits(duration)
  /\ UNCHANGED <<now, timer, respondAt, holding, unheard, disturbances>>

\* SendAckAfterData, SendCtsAfterRts.
Respond ==
  /\ respondAt = now
  /\ \E duration \in TxDurations :
       /\ last' = TransmitLast(last, "noack", duration)
       /\ dcf' = TransmitDcf(last, dcf, "noack", duration)
       /\ air' = AirTransmits(duration)
  /\ respondAt' = NoTimer
  /\ UNCHANGED <<now, timer, low, holding, unheard, disturbances>>

-----------------------------------------------------------------------------
(* Reception.                                                              *)

Disturb ==
  /\ disturbances < MaxDisturbances
  /\ disturbances' = disturbances + 1

RxStart ==
  /\ Disturb
  /\ ~last.rxing /\ air.tx <= now /\ air.switch <= now
  /\ \E duration \in RxDurations :
       /\ dcf' = UpdateBackoff(last, dcf)
       /\ last' = RxStarted(last, duration)
       /\ air' = [air EXCEPT !.rx = now + duration, !.eifs = 0]
  /\ UNCHANGED <<now, timer, low, respondAt, holding, unheard>>

RxDue == last.rxing /\ air.rx = now

RxEndError ==
  /\ RxDue
  /\ last' = RxEnded(last, FALSE)
  /\ air' = [air EXCEPT !.eifs = now + EifsNoDifs]
  /\ UNCHANGED <<now, dcf, timer, low, respondAt, holding, unheard, disturbances>>

\* A frame for somebody else: it sets the NAV.
RxOther ==
  /\ RxDue
  /\ \E duration \in NavDurations :
       LET l == RxEnded(last, TRUE) IN
       /\ dcf' = UpdateBackoff(l, dcf)
       /\ last' = NavStarted(l, duration)
       /\ air' = [air EXCEPT !.nav = MostRecent(@, now + duration)]
  /\ UNCHANGED <<now, timer, low, respondAt, holding, unheard, disturbances>>

\* A CF-POLL of our BSS resets the NAV to its duration.
RxCfPoll ==
  /\ RxDue
  /\ \E duration \in NavDurations :
       LET l == RxEnded(last, TRUE)
           reset == [l EXCEPT !.navEnd = now + duration]
           d == UpdateBackoff(reset, UpdateBackoff(l, dcf))
       IN  /\ last' = reset
           /\ dcf' = d
           /\ timer' \in RestartAccessTimeout(reset, d, timer)
           /\ air' = [air EXCEPT !.nav = now + duration]
  /\ UNCHANGED <<now, low, respondAt, holding, unheard, disturbances>>

\* A data frame or an RTS for us is answered one SIFS later.
RxForUs ==
  /\ RxDue
  /\ last' = RxEnded(last, TRUE)
  /\ respondAt' = now + Sifs
  /\ UNCHANGED <<now, dcf, timer, low, holding, air, unheard, disturbances>>

\* An ADDBA response for an EdcaTxopN: answered like any frame for us, then its
\* GotAddBaResponse calls RestartAccessIfNeeded.  A packet that it already sends
\* does not keep it from a request, only a request that stands does (RxForUs).
GotAddBaResponse(s) ==
  /\ RxDue
  /\ ~dcf[s].requested
  /\ Request(RxEnded(last, TRUE), dcf, s, timer, low, holding, now + Sifs)
  /\ UNCHANGED <<now, unheard, disturbances>>

RxCts ==
  /\ RxDue
  /\ low.phase = "rts"
  /\ LET l == CtsTimeoutReset(RxEnded(last, TRUE)) IN
     /\ last' = l
     /\ timer' \in RestartAccessTimeout(l, dcf, timer)
  /\ low' = Exchange(low.owner, "cts", now + Sifs)
  /\ UNCHANGED <<now, dcf, respondAt, holding, air, unheard, disturbances>>

\* The ACK of a fragment leads to the next one, any other ends the exchange.
RxAck ==
  /\ RxDue
  /\ low.phase = "ack"
  /\ LET l == AckTimeoutReset(RxEnded(last, TRUE)) IN
     \E tm \in RestartAccessTimeout(l, dcf, timer) :
       \/ Done(l, tm)
       \/ /\ last' = l
          /\ timer' = tm
          /\ low' = Exchange(low.owner, "fragment", now + Sifs)
          /\ UNCHANGED <<dcf, respondAt, holding, air>>
  /\ UNCHANGED <<now, unheard, disturbances>>

\* The manager is told of no timeout here, so of no reset either.
RxBlockAck ==
  /\ RxDue
  /\ low.phase = "ba"
  /\ Done(RxEnded(last, TRUE), timer)
  /\ UNCHANGED <<now, unheard, disturbances>>

-----------------------------------------------------------------------------
(* The rest of the environment.                                            *)

CcaBusy ==
  /\ Disturb
  /\ \E duration \in CcaDurations :
       /\ dcf' = UpdateBackoff(last, dcf)
       /\ last' = [last EXCEPT !.busyEnd = now + duration]
       /\ air' = [air EXCEPT !.cca = now + duration]
  /\ UNCHANGED <<now, timer, low, respondAt, holding, unheard>>

\* NotifySwitchingStartNow of the manager, of every contender and of MacLow.
\* The PHY puts a switch off until the end of a transmission.  CancelAllEvents
\* misses the EndTxNoAck of a frame that ends at this very instant: nobody keeps
\* that event, and m_listener is now 0.
Switch ==
  /\ Disturb
  /\ air.tx <= now /\ air.switch <= now
  /\ unheard' = (low.phase = "noack")
  /\ \E duration \in SwitchDurations :
       /\ last' = SwitchingStarted(last, duration)
       /\ air' = [air EXCEPT !.switch = now + duration, !.eifs = 0,
                             !.rx = Truncated(@), !.cca = Truncated(@),
                             !.nav = Truncated(@)]
  /\ dcf' = SwitchingDcf(dcf)
  /\ timer' = NoTimer
  /\ low' = Idle
  /\ respondAt' = NoTimer
  /\ holding' = {}
  /\ UNCHANGED now

\* EndTxNoAck with m_listener = 0 ends the program, and with it time.
EndTxNoAckUnheard == unheard /\ UNCHANGED vars

\* Nothing is due: the clock advances, up to its bound.
Tick ==
  /\ now < MaxTime
  /\ ~unheard
  /\ timer # now
  /\ respondAt # now
  /\ low.phase # "idle" => low.at > now
  /\ ~RxDue
  /\ now' = now + 1
  /\ UNCHANGED <<last, dcf, timer, low, respondAt, holding, air, unheard, disturbances>>

\* The clock has reached its bound: an idle step, so that TLC's deadlock check
\* finds the states before it where time can pass no more.
Finished == now = MaxTime /\ UNCHANGED vars

Next ==
  \/ Tick
  \/ \E s \in Dcf : RequestAccess(s)
  \/ AccessTimeout
  \/ ResponseMissed \/ EndTxNoAck \/ SifsElapsed \/ Respond
  \/ RxStart \/ RxEndError \/ RxOther \/ RxCfPoll \/ RxForUs
  \/ \E s \in Originators : GotAddBaResponse(s)
  \/ RxCts \/ RxAck \/ RxBlockAck
  \/ CcaBusy
  \/ Switch \/ EndTxNoAckUnheard
  \/ Finished

Spec == Init /\ [][Next]_vars

-----------------------------------------------------------------------------
(* Properties.                                                             *)

Elapsed(s) ==
  IF GetBackoffStartFor(last, dcf, s) <= now
  THEN ElapsedSlots(GetBackoffStartFor(last, dcf, s), dcf[s].slots) ELSE 0

\* The slots a contender still has to wait for, those elapsed since the last
\* UpdateBackoff deducted.
Remaining(s) == dcf[s].slots - Elapsed(s)

\* The instant since which the air has been idle, or from which it will be.
AirIdleAt ==
  MostRecent(MostRecent(MostRecent(air.rx, air.tx), MostRecent(air.cca, air.nav)),
             MostRecent(air.switch, air.eifs))

Switched == air'.switch # air.switch

\* MacLow starts the exchange of a contender: whatever begins one, but for the
\* next frame of an exchange that is already its own.
Starts(s) ==
  /\ low' # low /\ low'.phase \in FirstFrames /\ low'.owner = s
  /\ ~(low.phase \in Following /\ low.owner = s)

\* The medium is granted: to a request that stood, or to one just made.
Granted(s) ==
  ~dcf'[s].requested /\ ~Switched /\ (dcf[s].requested \/ Starts(s))

\* Every NS_ASSERT of DcfState and DcfManager holds (a backoff is started only
\* when none is left, access is requested once, a frame interrupts only a
\* reception younger than a SIFS, an ack timeout starts after the end of the
\* one before), and the PHY is never told to transmit while it transmits or
\* switches, which is fatal to it.  No call checks this: it follows from when
\* access is granted.  The contenders that use block ack are left out: theirs may
\* fail (ContendersAssert).
AssertionsHold ==
  /\ last.ok
  /\ air.ok
  /\ \A s \in Dcf \ Originators : dcf[s].ok

\* dcf-manager.cc, NS_ASSERT (m_backoffSlots == 0): a backoff is started only when
\* none is left.  It fails: an ADDBA response makes its contender request access
\* during an exchange of its own; under a NAV that draws a backoff, and the end of
\* the exchange starts another.
ContendersAssert == \A s \in Dcf : dcf[s].ok

\* mac-low.h, EndTxNoAck: invoked upon the end of the transmission of a frame that
\* needs no ACK.  It is not when the channel is switched as the frame ends: the
\* event runs without the listener that it would be invoked on.
EndTxNoAckIsHeard == ~unheard

\* The lazy countdown is a countdown: a contender with slots to wait for never
\* gets any back, and loses at most one per slot of time, whatever happens on the
\* medium in between; nothing but the clock takes a slot off (dcf-manager.cc,
\* UpdateBackoff and the order in which the Notify methods call it).  When its own
\* NS_ASSERT has failed (ContendersAssert) the program has ended.
BackoffCountsDown ==
  [][\A s \in Dcf : Remaining(s) > 0 /\ ~Switched /\ dcf'[s].ok =>
        \/ Remaining(s)' = Remaining(s)
        \/ now' > now /\ Remaining(s)' = Remaining(s) - 1]_vars

\* A slot is counted only when the air was idle through it and through the
\* AIFS before it, the EIFS after a corrupted frame included.
SlotsCountedWhenIdle ==
  [][\A s \in Dcf : now' > now /\ Remaining(s)' < Remaining(s) =>
        now' >= AirIdleAt + Sifs + (dcf[s].aifsn + 1) * Slot]_vars

\* Access is granted only to a contender whose backoff is over, when the air has
\* been idle for its AIFS.
GrantedWhenIdle ==
  [][\A s \in Dcf : Granted(s) =>
        /\ Remaining(s) = 0
        /\ now >= AirIdleAt + Sifs + dcf[s].aifsn * Slot]_vars

\* No contender is granted the medium in the middle of the exchange of another:
\* when StartTransmission runs, MacLow has nothing to cancel.
ExchangesDoNotOverlap ==
  [][\A s \in Dcf : Granted(s) => low.phase = "idle" /\ respondAt = NoTimer]_vars

\* A backoff never has more slots than the parameters in force can draw, and the
\* window stays between their bounds, although WiFox replaces both bounds while a
\* packet is being retried with a window that its failures had opened
\* (dcf-manager.cc, SetCwMin and SetCwMax; edca-txop-n.cc, NotifyAccessGranted).
WindowWithinParameters ==
  \A s \in Dcf :
    /\ dcf[s].cwMin <= dcf[s].cw /\ dcf[s].cw <= dcf[s].cwMax
    /\ dcf[s].slots <= dcf[s].cwMax

\* A packet taken from a queue is never forgotten: the contender that holds one
\* owns the exchange in progress or waits for access.
HeldPacketIsPending ==
  \A s \in holding :
    dcf[s].requested \/ (low.phase # "idle" /\ low.owner = s)

\* A request is never forgotten: while one stands, an access timeout is
\* scheduled (dcf-manager.h: RequestAccess makes the manager responsible for
\* starting an access timer).
RequestHasTimer ==
  \A s \in Dcf : dcf[s].requested => timer # NoTimer
=============================================================================
