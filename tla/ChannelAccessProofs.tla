------------------------ MODULE ChannelAccessProofs ------------------------
(***************************************************************************)
(* Theorems about ChannelAccess, for every number of contenders, every     *)
(* choice of the timing parameters and no bound on the time: types, that   *)
(* no request for access is left without an access timeout, and that a     *)
(* backoff fits the window of the parameters in force, although WiFox      *)
(* replaces them at a grant.                                               *)
(*                                                                         *)
(* The argument of the second: whoever goes through DoGrantAccess leaves   *)
(* every standing request with a backoff that ends in the future, either   *)
(* because none was ready or because the frame just sent keeps the medium  *)
(* busy; RestartAccessTimeout then schedules the earliest.                 *)
(*                                                                         *)
(* The argument of the third: NotifyAccessGranted replaces the parameters  *)
(* of the winner only, whose backoff is over.  That it is over follows     *)
(* from UpdateBackoff having run just before: what it leaves of a backoff  *)
(* ends after now, unless nothing is left.                                 *)
(***************************************************************************)
EXTENDS ChannelAccess, TLAPS

Contenders == [Dcf -> DcfFields]

-----------------------------------------------------------------------------
(* Types.                                                                  *)

\* The medium is free for access at a time that is a natural number.
LEMMA AccessGrantStartType ==
  ASSUME NEW l \in LastFields
  PROVE  GetAccessGrantStart(l) \in Nat
<1>1. RxAccessStart(l) \in Nat
  BY ParametersAssumption DEF LastFields, RxAccessStart
<1> QED
  BY <1>1, ParametersAssumption DEF LastFields, GetAccessGrantStart, MostRecent

\* The product of two natural numbers.
LEMMA ProductType ==
  ASSUME NEW a \in Nat, NEW b \in Nat
  PROVE  a * b \in Nat
  OBVIOUS

\* The start and the end of a backoff are natural numbers.
LEMMA BackoffTypes ==
  ASSUME NEW l \in LastFields, NEW d \in Contenders, NEW s \in Dcf
  PROVE  /\ GetBackoffStartFor(l, d, s) \in Nat
         /\ GetBackoffEndFor(l, d, s) \in Nat
<1>1. GetAccessGrantStart(l) \in Nat
  BY AccessGrantStartType
<1>2. d[s].start \in Nat /\ d[s].slots \in Nat /\ d[s].aifsn \in Nat
  BY DEF Contenders, DcfFields
<1>3. d[s].aifsn * Slot \in Nat /\ d[s].slots * Slot \in Nat
  BY <1>2, ProductType, ParametersAssumption
<1>4. GetBackoffStartFor(l, d, s) \in Nat
  BY <1>1, <1>2, <1>3 DEF GetBackoffStartFor, MostRecent
<1> QED
  BY <1>3, <1>4 DEF GetBackoffEndFor

\* The slots elapsed of a backoff that has begun: never more than it has.
LEMMA ElapsedSlotsType ==
  ASSUME now \in Nat, NEW b \in Nat, NEW slots \in Nat, b <= now
  PROVE  /\ ElapsedSlots(b, slots) \in Nat
         /\ ElapsedSlots(b, slots) <= slots
<1>1. (now - b) \div Slot \in Nat
  BY ParametersAssumption
<1> QED  BY <1>1 DEF ElapsedSlots

\* UpdateBackoff yields contenders, and changes neither requests nor windows.
LEMMA UpdateBackoffType ==
  ASSUME now \in Nat, NEW l \in LastFields, NEW d \in Contenders
  PROVE  /\ UpdateBackoff(l, d) \in Contenders
         /\ \A s \in Dcf : /\ UpdateBackoff(l, d)[s].requested = d[s].requested
                           /\ UpdateBackoff(l, d)[s].cw = d[s].cw
<1> SUFFICES ASSUME NEW s \in Dcf
             PROVE  /\ UpdateBackoff(l, d)[s] \in DcfFields
                    /\ UpdateBackoff(l, d)[s].requested = d[s].requested
                    /\ UpdateBackoff(l, d)[s].cw = d[s].cw
  BY DEF UpdateBackoff, Contenders
<1> DEFINE b == GetBackoffStartFor(l, d, s)
           n == ElapsedSlots(b, d[s].slots)
<1>1. d[s] \in DcfFields
  BY DEF Contenders
<1>2. b \in Nat
  BY BackoffTypes
<1>3. CASE b <= now
  <2>1. n \in Nat /\ n <= d[s].slots
    BY <1>1, <1>2, <1>3, ElapsedSlotsType DEF DcfFields
  <2>2. b + n * Slot \in Nat /\ d[s].slots - n \in Nat
    BY <1>1, <1>2, <2>1, ProductType, ParametersAssumption DEF DcfFields
  <2>3. UpdateBackoff(l, d)[s] = [d[s] EXCEPT !.slots = @ - n, !.start = b + n * Slot]
    BY <1>3 DEF UpdateBackoff
  <2> HIDE DEF n, b
  <2> QED  BY <1>1, <2>2, <2>3 DEF DcfFields
<1>4. CASE ~(b <= now)
  BY <1>1, <1>4 DEF UpdateBackoff
<1> QED  BY <1>3, <1>4

\* The methods of one DcfState yield contenders.
LEMMA DcfStateTypes ==
  ASSUME now \in Nat, NEW d \in Contenders, NEW s \in Dcf, NEW nSlots \in Nat
  PROVE  /\ ResetCw(d, s) \in Contenders
         /\ UpdateFailedCw(d, s) \in Contenders
         /\ StartBackoffNow(d, s, nSlots) \in Contenders
         /\ NotifyAccessRequested(d, s) \in Contenders
         /\ NotifyAccessGranted(d, s) \in Contenders
<1>2. d[s] \in DcfFields
  BY DEF Contenders
<1>1. d[s].cwMin \in Nat /\ d[s].cwMax \in Nat
  BY <1>2 DEF DcfFields
<1>3. d[s].slots \in Nat /\ d[s].cw \in Nat /\ d[s].ok \in BOOLEAN /\ d[s].requested \in BOOLEAN
  BY <1>2 DEF DcfFields
<1>4. 2 * (d[s].cw + 1) - 1 \in Nat
  BY <1>3
<1>5. ResetCw(d, s) \in Contenders
  BY <1>1 DEF ResetCw, Contenders, DcfFields
<1>6. UpdateFailedCw(d, s) \in Contenders
  BY <1>1, <1>4 DEF UpdateFailedCw, Contenders, DcfFields
<1>7. StartBackoffNow(d, s, nSlots) \in Contenders
  BY <1>3 DEF StartBackoffNow, Contenders, DcfFields
<1>8. NotifyAccessRequested(d, s) \in Contenders
  BY <1>3 DEF NotifyAccessRequested, Contenders, DcfFields
<1>9. NotifyAccessGranted(d, s) \in Contenders
  BY <1>3 DEF NotifyAccessGranted, Contenders, DcfFields
<1> QED  BY <1>5, <1>6, <1>7, <1>8, <1>9

\* So does the change of its parameters, which leaves its request as it is.
LEMMA SetParametersType ==
  ASSUME NEW d \in Contenders, NEW s \in Dcf,
         NEW p \in [aifsn : Nat \ {0}, cwMin : Nat, cwMax : Nat]
  PROVE  SetParameters(d, s, p) \in Contenders
<1>1. d[s] \in DcfFields
  BY DEF Contenders
<1>2. [d[s] EXCEPT !.aifsn = p.aifsn, !.cwMin = p.cwMin, !.cwMax = p.cwMax,
                   !.cw = p.cwMin] \in DcfFields
  BY <1>1 DEF DcfFields
<1> QED  BY <1>2 DEF SetParameters, Contenders

\* So does a channel switch, which takes every request back.
LEMMA SwitchingDcfType ==
  ASSUME now \in Nat, NEW d \in Contenders
  PROVE  /\ SwitchingDcf(d) \in Contenders
         /\ \A s \in Dcf : ~SwitchingDcf(d)[s].requested
  BY ParametersAssumption DEF SwitchingDcf, Contenders, DcfFields

\* An assertion is a Boolean.
LEMMA AssertedType ==
  ASSUME NEW l \in LastFields, NEW condition \in BOOLEAN
  PROVE  /\ Asserted(l, condition) \in LastFields
         /\ Asserted(l, condition).rxing = l.rxing
         /\ Asserted(l, condition).rxStart = l.rxStart
         /\ Asserted(l, condition).txEnd = l.txEnd
  BY DEF LastFields, Asserted

\* The notifications keep the types of what is remembered of the medium.
LEMMA LastTypes ==
  ASSUME now \in Nat, NEW l \in LastFields, NEW duration \in Nat, NEW isOk \in BOOLEAN
  PROVE  /\ RxStarted(l, duration) \in LastFields
         /\ RxEnded(l, isOk) \in LastFields
         /\ AckTimeoutStarted(l, duration) \in LastFields
         /\ CtsTimeoutStarted(l, duration) \in LastFields
         /\ AckTimeoutReset(l) \in LastFields
         /\ CtsTimeoutReset(l) \in LastFields
         /\ NavStarted(l, duration) \in LastFields
<1>1. RxStarted(l, duration) \in LastFields
  BY DEF LastFields, RxStarted
<1>2. RxEnded(l, isOk) \in LastFields
  BY DEF LastFields, RxEnded
<1>3. AckTimeoutStarted(l, duration) \in LastFields
  <2>1. [l EXCEPT !.ackEnd = now + duration] \in LastFields
    BY DEF LastFields
  <2>2. (l.ackEnd < now) \in BOOLEAN
    OBVIOUS
  <2> QED  BY <2>1, <2>2, AssertedType DEF AckTimeoutStarted
<1>4. CtsTimeoutStarted(l, duration) \in LastFields
  BY DEF LastFields, CtsTimeoutStarted
<1>5. AckTimeoutReset(l) \in LastFields /\ CtsTimeoutReset(l) \in LastFields
  BY DEF LastFields, AckTimeoutReset, CtsTimeoutReset
<1>6. NavStarted(l, duration) \in LastFields
  BY DEF LastFields, NavStarted
<1> QED  BY <1>1, <1>2, <1>3, <1>4, <1>5, <1>6

\* A switch keeps the types, and leaves a reception as it is.
LEMMA SwitchOccupiesType ==
  ASSUME now \in Nat, NEW l \in LastFields, NEW duration \in Nat
  PROVE  /\ SwitchOccupies(l, duration) \in LastFields
         /\ SwitchOccupies(l, duration).rxing = l.rxing
<1>1. PICK n \in Nat : n = Truncated(l.navEnd)
  BY DEF LastFields, Truncated
<1>2. PICK b \in Nat : b = Truncated(l.busyEnd)
  BY DEF LastFields, Truncated
<1>3. PICK a \in Nat : a = Truncated(l.ackEnd)
  BY DEF LastFields, Truncated
<1>4. PICK c \in Nat : c = Truncated(l.ctsEnd)
  BY DEF LastFields, Truncated
<1>5. PICK w \in Nat : w = now + duration
  OBVIOUS
<1> DEFINE r == [l EXCEPT !.navEnd = n, !.busyEnd = b, !.ackEnd = a, !.ctsEnd = c,
                          !.switchEnd = w]
<1>6. SwitchOccupies(l, duration) = r
  BY <1>1, <1>2, <1>3, <1>4, <1>5, Zenon DEF SwitchOccupies
<1>7. r \in LastFields /\ r.rxing = l.rxing
  BY DEF LastFields
<1> QED  BY <1>6, <1>7, Zenon

\* A reception has not begun in the future.
Begun(l) == l.rxing => l.rxStart <= now

\* The two notifications that interrupt a reception.
LEMMA InterruptTypes ==
  ASSUME now \in Nat, NEW l \in LastFields, Begun(l), NEW duration \in Nat
  PROVE  /\ TxInterrupts(l) \in LastFields
         /\ ~TxInterrupts(l).rxing
         /\ SwitchingStarted(l, duration) \in LastFields
         /\ ~SwitchingStarted(l, duration).rxing
<1>1. RxInterrupted(l) \in LastFields /\ ~RxInterrupted(l).rxing
  <2>1. CASE l.rxing
    <3>1. now - l.rxStart \in Nat
      BY <2>1 DEF LastFields, Begun
    <3>2. RxInterrupted(l) = [l EXCEPT !.rxing = FALSE, !.rxEnd = now,
                                       !.rxDuration = now - l.rxStart, !.rxOk = TRUE]
      BY <2>1 DEF RxInterrupted
    <3>3. RxInterrupted(l) \in LastFields
      BY <3>1, <3>2 DEF LastFields
    <3>4. RxInterrupted(l).rxing = FALSE
      BY <3>2 DEF LastFields
    <3> QED  BY <3>3, <3>4
  <2>2. CASE ~l.rxing
    BY <2>2 DEF RxInterrupted
  <2> QED  BY <2>1, <2>2
<1>2. (l.rxing => now - l.rxStart <= Sifs) \in BOOLEAN
  OBVIOUS
<1>3. TxInterrupts(l) \in LastFields /\ ~TxInterrupts(l).rxing
  BY <1>1, <1>2, AssertedType DEF TxInterrupts
<1>4. SwitchingStarted(l, duration) \in LastFields /\ ~SwitchingStarted(l, duration).rxing
  <2> DEFINE o == SwitchOccupies(RxInterrupted(l), duration)
             condition == l.txEnd <= now /\ l.switchEnd <= now
  <2>1. o \in LastFields /\ ~o.rxing
    BY <1>1, SwitchOccupiesType
  <2>2. SwitchingStarted(l, duration) = Asserted(o, condition)
    BY DEF SwitchingStarted
  <2>3. condition \in BOOLEAN
    OBVIOUS
  <2> HIDE DEF o, condition
  <2> QED  BY <2>1, <2>2, <2>3, AssertedType
<1> QED  BY <1>3, <1>4

-----------------------------------------------------------------------------
(* The access timeout.                                                     *)

\* What DoRestartAccessTimeoutIfNeeded leaves scheduled, and that it leaves
\* something whenever a request is not ready yet or something was before.
LEMMA RestartKeepsTimer ==
  ASSUME now \in Nat, NEW l \in LastFields, NEW d \in Contenders,
         NEW tm \in Nat \cup {NoTimer}, NEW next \in RestartAccessTimeout(l, d, tm)
  PROVE  /\ next \in Nat \cup {NoTimer}
         /\ tm # NoTimer => next # NoTimer
         /\ (\E s \in Dcf : d[s].requested /\ GetBackoffEndFor(l, d, s) > now)
               => next # NoTimer
<1> DEFINE ends == {GetBackoffEndFor(l, d, s) : s \in {x \in Dcf : d[x].requested}}
           later == {e \in ends : e > now}
           earliest == {e \in later : \A f \in later : e <= f}
<1>1. ends \subseteq Nat
  BY BackoffTypes
<1>2. next \in (IF later = {} THEN {tm}
                ELSE {IF tm = NoTimer \/ tm > e THEN e ELSE tm : e \in earliest})
  BY DEF RestartAccessTimeout
<1>3. ASSUME NEW s \in Dcf, d[s].requested, GetBackoffEndFor(l, d, s) > now
      PROVE  later # {}
  <2>1. GetBackoffEndFor(l, d, s) \in later
    BY <1>3
  <2> HIDE DEF later
  <2> QED  BY <2>1
<1>4. CASE later = {}
  <2>1. next = tm
    BY <1>2, <1>4
  <2> HIDE DEF later
  <2> QED  BY <2>1, <1>3, <1>4
<1>5. CASE later # {}
  <2>1. PICK e \in earliest : next = IF tm = NoTimer \/ tm > e THEN e ELSE tm
    BY <1>2, <1>5
  <2>2. e \in Nat
    BY <1>1
  <2> HIDE DEF earliest, later, ends
  <2> QED  BY <2>1, <2>2 DEF NoTimer
<1> QED  BY <1>4, <1>5

LowFields == [phase : Phases, owner : Dcf, at : Nat]

TimerType == Nat \cup {NoTimer}

\* No request without a timeout, of the operands of a method.
Timed(d, tm) == \A s \in Dcf : d[s].requested => tm # NoTimer

\* What the methods change, typed.  A reception has begun before now: what its
\* duration needs to be a natural number when a transmission interrupts it.
Local ==
  /\ last \in LastFields
  /\ Begun(last)
  /\ dcf \in Contenders
  /\ timer \in TimerType
  /\ low \in LowFields
  /\ respondAt \in TimerType
  /\ holding \in SUBSET Dcf
  /\ air \in AirFields

Typed == now \in Nat /\ disturbances \in Nat /\ Local

-----------------------------------------------------------------------------
(* Transmission.                                                           *)

\* The timers told to the manager leave a reception as it is.
LEMMA TimersStartedType ==
  ASSUME now \in Nat, NEW l \in LastFields, Begun(l), NEW frame, NEW duration \in Nat
  PROVE  /\ TimersStarted(l, frame, duration) \in LastFields
         /\ Begun(TimersStarted(l, frame, duration))
<1>1. duration + ResponseTimeout \in Nat
  BY EnvironmentAssumption
<1>2. PICK d \in Nat : d = duration + ResponseTimeout
  BY <1>1
<1>3. AckTimeoutStarted(l, d) \in LastFields /\ CtsTimeoutStarted(l, d) \in LastFields
  BY LastTypes
<1>4. Begun(AckTimeoutStarted(l, d))
  <2> DEFINE a == [l EXCEPT !.ackEnd = now + d]
             c == l.ackEnd < now
  <2>1. a \in LastFields /\ a.rxing = l.rxing /\ a.rxStart = l.rxStart
    BY DEF LastFields
  <2>2. c \in BOOLEAN
    OBVIOUS
  <2>3. AckTimeoutStarted(l, d) = Asserted(a, c)
    BY DEF AckTimeoutStarted
  <2> HIDE DEF a, c
  <2> QED  BY <2>1, <2>2, <2>3, AssertedType DEF Begun
<1>5. Begun(CtsTimeoutStarted(l, d))
  BY DEF Begun, CtsTimeoutStarted, LastFields
<1>6. CASE frame = "ack"
  <2>1. TimersStarted(l, frame, duration) = AckTimeoutStarted(l, d)
    BY <1>2, <1>6, Zenon DEF TimersStarted
  <2> QED  BY <1>3, <1>4, <2>1, Zenon
<1>7. CASE frame = "rts"
  <2>1. TimersStarted(l, frame, duration) = CtsTimeoutStarted(l, d)
    BY <1>2, <1>7 DEF TimersStarted
  <2> QED  BY <1>3, <1>5, <2>1, Zenon
<1>8. CASE frame # "ack" /\ frame # "rts"
  <2>1. TimersStarted(l, frame, duration) = l
    BY <1>8, Zenon DEF TimersStarted
  <2> QED  BY <2>1, Zenon
<1> QED  BY <1>6, <1>7, <1>8

\* A transmission: the contenders, the manager's view of the medium, which is
\* busy for the duration of the frame, and the medium itself.
LEMMA TransmitTypes ==
  ASSUME now \in Nat, NEW l \in LastFields, Begun(l), NEW d \in Contenders,
         air \in AirFields, NEW frame, NEW duration \in Nat \ {0}
  PROVE  /\ TransmitDcf(l, d, frame, duration) \in Contenders
         /\ \A s \in Dcf : TransmitDcf(l, d, frame, duration)[s].requested = d[s].requested
         /\ TransmitLast(l, frame, duration) \in LastFields
         /\ ~TransmitLast(l, frame, duration).rxing
         /\ TransmitLast(l, frame, duration).txEnd > now
         /\ AirTransmits(duration) \in AirFields
         /\ EventOf(frame, duration) \in Nat
<1> DEFINE i == TxInterrupts(TimersStarted(l, frame, duration))
<1>1. i \in LastFields /\ ~i.rxing
  BY TimersStartedType, InterruptTypes
<1>2. TransmitDcf(l, d, frame, duration) = UpdateBackoff(i, d)
  BY DEF TransmitDcf
<1>3. TransmitLast(l, frame, duration) = [i EXCEPT !.txEnd = now + duration]
  BY DEF TransmitLast
<1> HIDE DEF i
<1>4. /\ TransmitDcf(l, d, frame, duration) \in Contenders
      /\ \A s \in Dcf : TransmitDcf(l, d, frame, duration)[s].requested = d[s].requested
  BY <1>1, <1>2, UpdateBackoffType
<1>5. /\ TransmitLast(l, frame, duration) \in LastFields
      /\ ~TransmitLast(l, frame, duration).rxing
      /\ TransmitLast(l, frame, duration).txEnd > now
  BY <1>1, <1>3 DEF LastFields
<1>6. AirTransmits(duration) \in AirFields
  <2>1. Truncated(air.rx) \in Nat
    BY DEF Truncated, AirFields
  <2>2. (air.tx <= now /\ air.switch <= now) \in BOOLEAN
    OBVIOUS
  <2>3. PICK r \in Nat : r = Truncated(air.rx)
    BY <2>1
  <2>4. PICK o \in BOOLEAN : o = (air.ok /\ air.tx <= now /\ air.switch <= now)
    OBVIOUS
  <2>5. PICK t \in Nat : t = now + duration
    OBVIOUS
  <2>6. AirTransmits(duration) = [air EXCEPT !.tx = t, !.rx = r, !.ok = o]
    BY <2>3, <2>4, <2>5, Zenon DEF AirTransmits
  <2>7. [air EXCEPT !.tx = t, !.rx = r, !.ok = o] \in AirFields
    BY DEF AirFields
  <2> QED  BY <2>6, <2>7, Zenon
<1>7. EventOf(frame, duration) \in Nat
  BY EnvironmentAssumption DEF EventOf
<1> QED  BY <1>4, <1>5, <1>6, <1>7

\* While the medium is busy with a transmission, every backoff ends later.
LEMMA EndsAfterTransmission ==
  ASSUME now \in Nat, NEW l \in LastFields, l.txEnd > now, NEW d \in Contenders, NEW s \in Dcf
  PROVE  GetBackoffEndFor(l, d, s) > now
<1>1. RxAccessStart(l) \in Nat
  BY ParametersAssumption DEF LastFields, RxAccessStart
<1>2. GetAccessGrantStart(l) \in Nat /\ GetAccessGrantStart(l) > now
  BY <1>1, ParametersAssumption DEF LastFields, GetAccessGrantStart, MostRecent
<1>3. d[s].start \in Nat /\ d[s].slots \in Nat /\ d[s].aifsn \in Nat
  BY DEF Contenders, DcfFields
<1>4. d[s].aifsn * Slot \in Nat /\ d[s].slots * Slot \in Nat
  BY <1>3, ProductType, ParametersAssumption
<1>5. GetBackoffStartFor(l, d, s) > now /\ GetBackoffStartFor(l, d, s) \in Nat
  BY <1>2, <1>3, <1>4 DEF GetBackoffStartFor, MostRecent
<1> QED  BY <1>4, <1>5 DEF GetBackoffEndFor

-----------------------------------------------------------------------------
(* Access.                                                                 *)

\* The backoffs that the losers of an internal collision draw.
LEMMA DrawsType ==
  ASSUME NEW d \in Contenders, NEW losers \in SUBSET Dcf, NEW draws \in Draws(d, losers)
  PROVE  draws \in [losers -> Nat]
<1>1. draws \in [losers -> UNION {0..d[x].cw : x \in losers}]
  BY DEF Draws
<1>2. ASSUME NEW s \in losers
      PROVE  draws[s] \in Nat
  <2>1. PICK x \in losers : draws[s] \in 0..d[x].cw
    BY <1>1
  <2>2. d[x].cw \in Nat
    BY DEF Contenders, DcfFields
  <2> QED  BY <2>1, <2>2
<1> QED  BY <1>1, <1>2

\* The losers stay contenders with their requests.
LEMMA InternalCollisionsType ==
  ASSUME now \in Nat, NEW d \in Contenders, NEW losers \in SUBSET Dcf,
         NEW draws \in [losers -> Nat]
  PROVE  /\ InternalCollisions(d, draws) \in Contenders
         /\ \A s \in Dcf : InternalCollisions(d, draws)[s].requested = d[s].requested
<1> SUFFICES ASSUME NEW s \in Dcf
             PROVE  /\ InternalCollisions(d, draws)[s] \in DcfFields
                    /\ InternalCollisions(d, draws)[s].requested = d[s].requested
  BY DEF InternalCollisions, Contenders
<1>1. d[s] \in DcfFields
  BY DEF Contenders
<1>2. CASE s \in losers
  <2>1. draws[s] \in Nat
    BY <1>2
  <2>2. InternalCollisions(d, draws)[s] = StartBackoffNow(d, s, draws[s])[s]
    BY <1>2 DEF InternalCollisions
  <2>3. StartBackoffNow(d, s, draws[s]) \in Contenders
    BY <2>1, DcfStateTypes
  <2>4. StartBackoffNow(d, s, draws[s])[s].requested = d[s].requested
    BY <2>1, <1>1 DEF StartBackoffNow, Contenders, DcfFields
  <2> QED  BY <2>2, <2>3, <2>4, Zenon DEF Contenders
<1>3. CASE s \notin losers
  BY <1>1, <1>3 DEF InternalCollisions
<1> QED  BY <1>2, <1>3

\* DoGrantAccess and DoRestartAccessTimeoutIfNeeded.
LEMMA GrantAccessKeeps ==
  ASSUME Typed, now' = now,
         NEW l \in LastFields, Begun(l), NEW d \in Contenders, NEW tm \in TimerType,
         NEW lw \in LowFields, NEW h \in SUBSET Dcf, NEW ra \in TimerType,
         GrantAccess(l, d, tm, lw, h, ra)
  PROVE  /\ Local'
         /\ MayDecline = FALSE => Timed(dcf', timer')
<1> USE DEF TimerType
<1>1. CASE /\ Ready(l, d) = {}
           /\ dcf' = d
           /\ last' = l
           /\ timer' \in RestartAccessTimeout(l, d, tm)
           /\ low' = lw
           /\ holding' = h
           /\ respondAt' = ra
           /\ UNCHANGED air
  <2>1. \A s \in Dcf : d[s].requested => GetBackoffEndFor(l, d, s) > now
    <3> SUFFICES ASSUME NEW s \in Dcf, d[s].requested
                 PROVE  GetBackoffEndFor(l, d, s) > now
      OBVIOUS
    <3>1. ~(GetBackoffEndFor(l, d, s) <= now)
      BY <1>1 DEF Ready
    <3> QED  BY <3>1, BackoffTypes DEF Typed
  <2>2. timer' \in TimerType /\ Timed(d, timer')
    BY <1>1, <2>1, RestartKeepsTimer DEF Timed, Typed
  <2> QED  BY <1>1, <2>2 DEF Typed, Local, Begun
<1>2. ASSUME NEW w \in Ready(l, d), NEW draws \in Draws(d, Ready(l, d) \ {w}),
             \/ Transmit(l, NotifyAccessGranted(d, w), w, draws, tm, h)
             \/ \E p \in NextParameters(d, w) :
                  Transmit(l, SetParameters(NotifyAccessGranted(d, w), w, p), w, draws, tm, h)
             \/ Decline(l, NotifyAccessGranted(d, w), w, draws, tm, lw, h, ra)
      PROVE  /\ Local'
             /\ MayDecline = FALSE => Timed(dcf', timer')
  <2> DEFINE g == NotifyAccessGranted(d, w)
             losers == Ready(l, d) \ {w}
  <2>1. w \in Dcf /\ losers \in SUBSET Dcf
    BY DEF Ready
  <2>2. g \in Contenders
    BY <2>1, DcfStateTypes DEF Typed
  <2>3. draws \in [losers -> Nat]
    BY <2>1, DrawsType
  <2> HIDE DEF g, losers
  <2>4. ASSUME NEW a \in Contenders, Transmit(l, a, w, draws, tm, h)
        PROVE  /\ Local'
               /\ MayDecline = FALSE => Timed(dcf', timer')
    <3>1. PICK frame \in FirstFrames, duration \in TxDurations :
            LET l2 == TransmitLast(l, frame, duration)
                d2 == InternalCollisions(TransmitDcf(l, a, frame, duration), draws)
            IN  /\ dcf' = d2
                /\ last' = l2
                /\ timer' \in RestartAccessTimeout(l2, d2, tm)
                /\ low' = Exchange(w, frame, EventOf(frame, duration))
                /\ respondAt' = NoTimer
                /\ holding' = h \cup {w}
                /\ air' = AirTransmits(duration)
      BY <2>4 DEF Transmit
    <3>2. duration \in Nat \ {0} /\ frame \in Phases
      BY EnvironmentAssumption DEF Phases
    <3> DEFINE t == TransmitDcf(l, a, frame, duration)
    <3>3. /\ t \in Contenders
          /\ last' \in LastFields /\ ~last'.rxing /\ last'.txEnd > now
          /\ air' \in AirFields
          /\ EventOf(frame, duration) \in Nat
      BY <3>1, <3>2, TransmitTypes DEF Typed, Local
    <3>4. dcf' \in Contenders
      BY <2>1, <2>3, <3>1, <3>3, InternalCollisionsType DEF Typed
    <3>5. \A s \in Dcf : GetBackoffEndFor(last', dcf', s) > now
      BY <3>3, <3>4, EndsAfterTransmission DEF Typed
    <3>6. timer' \in TimerType /\ Timed(dcf', timer')
      BY <3>1, <3>3, <3>4, <3>5, RestartKeepsTimer DEF Timed, Typed
    <3>7. low' \in LowFields
      BY <2>1, <3>1, <3>2, <3>3 DEF Exchange, LowFields
    <3>8. respondAt' \in TimerType /\ holding' \in SUBSET Dcf
      BY <2>1, <3>1
    <3> QED  BY <3>3, <3>4, <3>6, <3>7, <3>8 DEF Local, Begun
  <2>6. ASSUME NEW p \in NextParameters(d, w)
        PROVE  SetParameters(g, w, p) \in Contenders
    <3>1. p \in [aifsn : Nat \ {0}, cwMin : Nat, cwMax : Nat]
      BY EnvironmentAssumption DEF NextParameters
    <3> QED  BY <2>1, <2>2, <3>1, SetParametersType
  <2>5. CASE Decline(l, g, w, draws, tm, lw, h, ra)
    <3>1. InternalCollisions(g, draws) \in Contenders
      BY <2>1, <2>2, <2>3, InternalCollisionsType DEF Typed
    <3>2. timer' \in TimerType
      BY <2>5, <3>1, RestartKeepsTimer DEF Decline, Typed
    <3> QED  BY <2>5, <3>1, <3>2 DEF Decline, Typed, Local, Begun
  <2> QED  BY <1>2, <2>2, <2>4, <2>5, <2>6 DEF g
<1> QED  BY <1>1, <1>2 DEF GrantAccess

\* DcfManager::RequestAccess.
LEMMA RequestKeeps ==
  ASSUME Typed, now' = now,
         NEW l \in LastFields, Begun(l), NEW d \in Contenders, NEW s \in Dcf,
         NEW tm \in TimerType, NEW lw \in LowFields, NEW h \in SUBSET Dcf,
         NEW ra \in TimerType, Request(l, d, s, tm, lw, h, ra)
  PROVE  /\ Local'
         /\ MayDecline = FALSE => Timed(dcf', timer')
<1> DEFINE d2 == NotifyAccessRequested(UpdateBackoff(l, d), s)
<1>1. d2 \in Contenders
  BY UpdateBackoffType, DcfStateTypes DEF Typed
<1>2. d2[s].cw \in Nat
  BY <1>1 DEF Contenders, DcfFields
<1>3. \A r \in 0..d2[s].cw : StartBackoffNow(d2, s, r) \in Contenders
  BY <1>1, <1>2, DcfStateTypes DEF Typed
<1>4. \/ GrantAccess(l, d2, tm, lw, h, ra)
      \/ \E r \in 0..d2[s].cw : GrantAccess(l, StartBackoffNow(d2, s, r), tm, lw, h, ra)
  BY DEF Request
<1> HIDE DEF d2
<1> QED  BY <1>1, <1>3, <1>4, GrantAccessKeeps

-----------------------------------------------------------------------------
(* Exchanges.                                                              *)

\* No exchange.
LEMMA IdleType == Idle \in LowFields
  BY ParametersAssumption DEF Idle, LowFields, Phases, Dcf

\* The end of an exchange: the owner asks again, or leaves the requests and the
\* timeout as they were.
LEMMA AfterExchangeKeeps ==
  ASSUME Typed, now' = now,
         NEW l \in LastFields, Begun(l), NEW d \in Contenders, NEW s \in Dcf,
         NEW tm \in TimerType, NEW h \in SUBSET Dcf,
         AfterExchange(l, d, s, tm, h)
  PROVE  /\ Local'
         /\ MayDecline = FALSE /\ Timed(d, tm) => Timed(dcf', timer')
<1>1. PICK r \in 0..d[s].cw :
        LET d2 == StartBackoffNow(d, s, r) IN
        \/ Request(l, d2, s, tm, Idle, h, respondAt)
        \/ /\ dcf' = d2 /\ last' = l /\ timer' = tm /\ low' = Idle /\ holding' = h
           /\ UNCHANGED <<respondAt, air>>
  BY Zenon DEF AfterExchange
<1> DEFINE d2 == StartBackoffNow(d, s, r)
<1>2. r \in Nat
  BY DEF Contenders, DcfFields
<1>3. d2 \in Contenders
  BY <1>2, DcfStateTypes DEF Typed
<1>4. \A x \in Dcf : d2[x].requested = d[x].requested
  BY <1>2 DEF StartBackoffNow, Contenders, DcfFields
<1> HIDE DEF d2
<1>5. CASE Request(l, d2, s, tm, Idle, h, respondAt)
  BY <1>3, <1>5, IdleType, RequestKeeps DEF Typed, Local
<1>6. CASE /\ dcf' = d2 /\ last' = l /\ timer' = tm /\ low' = Idle /\ holding' = h
           /\ UNCHANGED <<respondAt, air>>
  <2>1. Local'
    BY <1>3, <1>6, IdleType DEF Typed, Local, Begun
  <2>2. Timed(d, tm) => Timed(dcf', timer')
    BY <1>4, <1>6 DEF Timed
  <2> QED  BY <2>1, <2>2
<1> QED  BY <1>1, <1>5, <1>6 DEF d2

\* The end of an exchange with its frame done with.
LEMMA DoneKeeps ==
  ASSUME Typed, now' = now, NEW l \in LastFields, Begun(l), NEW tm \in TimerType,
         Done(l, tm)
  PROVE  /\ Local'
         /\ MayDecline = FALSE /\ Timed(dcf, tm) => Timed(dcf', timer')
<1> DEFINE d == ResetCw(dcf, low.owner)
<1>1. low.owner \in Dcf
  BY DEF Typed, Local, LowFields
<1>2. d \in Contenders
  BY <1>1, DcfStateTypes DEF Typed, Local
<1>3. \A s \in Dcf : d[s].requested = dcf[s].requested
  BY <1>1 DEF ResetCw, Contenders, DcfFields, Typed, Local
<1>4. AfterExchange(l, d, low.owner, tm, holding \ {low.owner})
  BY DEF Done
<1>5. holding \ {low.owner} \in SUBSET Dcf
  BY DEF Typed, Local
<1> HIDE DEF d
<1>6. Timed(dcf, tm) => Timed(d, tm)
  BY <1>3 DEF Timed
<1> QED  BY <1>1, <1>2, <1>4, <1>5, <1>6, AfterExchangeKeeps

\* The end of an exchange with its frame kept.
LEMMA RetryKeeps ==
  ASSUME Typed, now' = now, Retry
  PROVE  /\ Local'
         /\ MayDecline = FALSE /\ Timed(dcf, timer) => Timed(dcf', timer')
<1> DEFINE d == UpdateFailedCw(dcf, low.owner)
<1>1. low.owner \in Dcf
  BY DEF Typed, Local, LowFields
<1>2. d \in Contenders
  BY <1>1, DcfStateTypes DEF Typed, Local
<1>3. \A s \in Dcf : d[s].requested = dcf[s].requested
  BY <1>1 DEF UpdateFailedCw, Contenders, DcfFields, Typed, Local
<1>4. AfterExchange(last, d, low.owner, timer, holding)
  BY DEF Retry
<1> HIDE DEF d
<1>5. Timed(dcf, timer) => Timed(d, timer)
  BY <1>3 DEF Timed
<1> QED  BY <1>1, <1>2, <1>4, <1>5, AfterExchangeKeeps DEF Typed, Local

-----------------------------------------------------------------------------
(* The inductive invariant.                                                *)

Inductive == Typed /\ (MayDecline = FALSE => Timed(dcf, timer))

\* The first state.
LEMMA InductiveInit == Init => Inductive
<1> SUFFICES ASSUME Init PROVE Inductive
  OBVIOUS
<1>1. PICK draw \in [Dcf -> UNION {0..CwMin[s] : s \in Dcf}] :
        dcf = [s \in Dcf |-> [slots |-> draw[s], start |-> 0, aifsn |-> Aifsn[s],
                              cwMin |-> CwMin[s], cwMax |-> CwMax[s],
                              cw |-> CwMin[s], requested |-> FALSE, ok |-> TRUE]]
  BY DEF Init, DcfInit
<1>2. \A s \in Dcf : draw[s] \in Nat
  <2> SUFFICES ASSUME NEW s \in Dcf PROVE draw[s] \in Nat
    OBVIOUS
  <2>1. PICK x \in Dcf : draw[s] \in 0..CwMin[x]
    OBVIOUS
  <2>2. CwMin[x] \in Nat
    BY ParametersAssumption
  <2> QED  BY <2>1, <2>2
<1>3. dcf \in Contenders
  BY <1>1, <1>2, ParametersAssumption DEF Contenders, DcfFields
<1>4. last \in LastFields /\ ~last.rxing
  BY DEF Init, DcfInit, LastFields
<1>5. air \in AirFields
  BY DEF Init, AirFields
<1>6. Local
  BY <1>3, <1>4, <1>5, IdleType DEF Local, Begun, Init, DcfInit, TimerType
<1>7. Timed(dcf, timer)
  BY <1>1 DEF Timed
<1> QED  BY <1>6, <1>7 DEF Inductive, Typed, Init, DcfInit

\* A step that leaves the contenders' requests, the timeout and the exchange.
LEMMA UpdateKeeps ==
  ASSUME Inductive, now' = now, NEW l \in LastFields,
         dcf' = UpdateBackoff(l, dcf), timer' = timer
  PROVE  dcf' \in Contenders /\ timer' \in TimerType /\ (MayDecline = FALSE => Timed(dcf', timer'))
<1>1. dcf \in Contenders
  BY DEF Inductive, Typed, Local
<1>2. /\ dcf' \in Contenders
      /\ \A s \in Dcf : dcf'[s].requested = dcf[s].requested
  BY <1>1, UpdateBackoffType DEF Inductive, Typed
<1> QED  BY <1>2 DEF Inductive, Typed, Local, Timed

\* Access is requested, by a contender or again when the timeout expires.
LEMMA AccessSteps ==
  ASSUME Inductive, (\E s \in Dcf : RequestAccess(s)) \/ AccessTimeout
  PROVE  Inductive'
<1>1. ASSUME NEW s \in Dcf, RequestAccess(s)
      PROVE  Inductive'
  <2>1. /\ now' = now /\ disturbances' = disturbances
        /\ Request(last, dcf, s, timer, low, holding, respondAt)
    BY <1>1 DEF RequestAccess
  <2>2. Local' /\ (MayDecline = FALSE => Timed(dcf', timer'))
    BY <2>1, RequestKeeps DEF Inductive, Typed, Local
  <2> QED  BY <2>1, <2>2 DEF Inductive, Typed
<1>2. CASE AccessTimeout
  <2>1. /\ now' = now /\ disturbances' = disturbances
        /\ GrantAccess(last, UpdateBackoff(last, dcf), NoTimer, low, holding, respondAt)
    BY <1>2 DEF AccessTimeout
  <2>2. UpdateBackoff(last, dcf) \in Contenders
    BY UpdateBackoffType DEF Inductive, Typed, Local
  <2>3. Local' /\ (MayDecline = FALSE => Timed(dcf', timer'))
    BY <2>1, <2>2, GrantAccessKeeps DEF Inductive, Typed, Local, TimerType
  <2> QED  BY <2>1, <2>3 DEF Inductive, Typed
<1> QED  BY <1>1, <1>2

\* A step of the exchange in progress.
LEMMA ExchangeSteps ==
  ASSUME Inductive, ResponseMissed \/ EndTxNoAck \/ SifsElapsed \/ Respond
  PROVE  Inductive'
<1>1. CASE ResponseMissed
  <2>1. now' = now /\ disturbances' = disturbances /\ (Retry \/ Done(last, timer))
    BY <1>1 DEF ResponseMissed
  <2>2. Local' /\ (MayDecline = FALSE => Timed(dcf', timer'))
    BY <2>1, RetryKeeps, DoneKeeps DEF Inductive, Typed, Local
  <2> QED  BY <2>1, <2>2 DEF Inductive, Typed
<1>2. CASE EndTxNoAck
  <2>1. now' = now /\ disturbances' = disturbances /\ Done(last, timer)
    BY <1>2 DEF EndTxNoAck
  <2>2. Local' /\ (MayDecline = FALSE => Timed(dcf', timer'))
    BY <2>1, DoneKeeps DEF Inductive, Typed, Local
  <2> QED  BY <2>1, <2>2 DEF Inductive, Typed
<1>3. ASSUME NEW frame, NEW duration \in TxDurations,
             now' = now, disturbances' = disturbances,
             last' = TransmitLast(last, frame, duration),
             dcf' = TransmitDcf(last, dcf, frame, duration),
             air' = AirTransmits(duration),
             low' \in LowFields, respondAt' \in TimerType, timer' = timer, holding' = holding
      PROVE  Inductive'
  <2>1. duration \in Nat \ {0}
    BY EnvironmentAssumption
  <2>2. /\ dcf' \in Contenders
        /\ \A s \in Dcf : dcf'[s].requested = dcf[s].requested
        /\ last' \in LastFields /\ ~last'.rxing
        /\ air' \in AirFields
    BY <1>3, <2>1, TransmitTypes DEF Inductive, Typed, Local
  <2>3. Local'
    BY <1>3, <2>2 DEF Inductive, Typed, Local, Begun
  <2>4. MayDecline = FALSE => Timed(dcf', timer')
    BY <1>3, <2>2 DEF Inductive, Timed
  <2> QED  BY <1>3, <2>3, <2>4 DEF Inductive, Typed
<1>4. CASE SifsElapsed
  <2>1. PICK frame \in FollowingFrames, duration \in TxDurations :
          /\ last' = TransmitLast(last, frame, duration)
          /\ dcf' = TransmitDcf(last, dcf, frame, duration)
          /\ low' = Exchange(low.owner, frame, EventOf(frame, duration))
          /\ air' = AirTransmits(duration)
    BY <1>4 DEF SifsElapsed
  <2>2. UNCHANGED <<now, timer, respondAt, holding, disturbances>>
    BY <1>4 DEF SifsElapsed
  <2>3. duration \in Nat \ {0}
    BY EnvironmentAssumption
  <2>4. EventOf(frame, duration) \in Nat
    BY <2>3, TransmitTypes DEF Inductive, Typed, Local
  <2>5. low' \in LowFields
    BY <2>1, <2>4 DEF FollowingFrames, Exchange, LowFields, Phases, Following, Inductive, Typed, Local
  <2>6. respondAt' \in TimerType
    BY <2>2 DEF Inductive, Typed, Local
  <2> QED  BY <1>3, <2>1, <2>2, <2>5, <2>6
<1>5. CASE Respond
  <2>1. PICK duration \in TxDurations :
          /\ last' = TransmitLast(last, "noack", duration)
          /\ dcf' = TransmitDcf(last, dcf, "noack", duration)
          /\ air' = AirTransmits(duration)
    BY <1>5 DEF Respond
  <2>2. UNCHANGED <<now, timer, low, holding, disturbances>> /\ respondAt' = NoTimer
    BY <1>5 DEF Respond
  <2>3. low' \in LowFields /\ respondAt' \in TimerType
    BY <2>2 DEF Inductive, Typed, Local, TimerType
  <2> QED  BY <1>3, <2>1, <2>2, <2>3
<1> QED  BY <1>1, <1>2, <1>4, <1>5

\* The end of a reception, and what the frame brings.
LEMMA ReceptionSteps ==
  ASSUME Inductive,
         \/ RxStart \/ RxEndError \/ RxOther \/ RxCfPoll \/ RxForUs
         \/ \E s \in Originators : GotAddBaResponse(s)
         \/ RxCts \/ RxAck \/ RxBlockAck
  PROVE  Inductive'
<1> DEFINE heard == RxEnded(last, TRUE)
<1>1. now \in Nat /\ last \in LastFields /\ dcf \in Contenders /\ timer \in TimerType
  BY DEF Inductive, Typed, Local
<1>2. heard \in LastFields /\ ~heard.rxing
  BY <1>1, LastTypes DEF RxEnded, LastFields
<1>3. air \in AirFields /\ low \in LowFields /\ low.owner \in Dcf
  BY DEF Inductive, Typed, Local, LowFields
<1> HIDE DEF heard
<1>4. CASE RxStart
  <2>1. PICK duration \in RxDurations :
          /\ dcf' = UpdateBackoff(last, dcf)
          /\ last' = RxStarted(last, duration)
          /\ air' = [air EXCEPT !.rx = now + duration, !.eifs = 0]
    BY <1>4 DEF RxStart
  <2>2. UNCHANGED <<now, timer, low, respondAt, holding>> /\ disturbances' = disturbances + 1
    BY <1>4 DEF RxStart, Disturb
  <2>3. duration \in Nat
    BY EnvironmentAssumption
  <2>4. last' \in LastFields /\ last'.rxStart = now
    BY <1>1, <2>1, <2>3, LastTypes DEF RxStarted, LastFields
  <2>5. air' \in AirFields
    <3>1. PICK t \in Nat : t = now + duration
      BY <1>1, <2>3
    <3>2. air' = [air EXCEPT !.rx = t, !.eifs = 0]
      BY <2>1, <3>1, Zenon
    <3>3. [air EXCEPT !.rx = t, !.eifs = 0] \in AirFields
      BY <1>3 DEF AirFields
    <3> QED  BY <3>2, <3>3, Zenon
  <2>6. dcf' \in Contenders /\ (MayDecline = FALSE => Timed(dcf', timer'))
    BY <1>1, <2>1, <2>2, UpdateKeeps
  <2> QED  BY <1>1, <2>2, <2>4, <2>5, <2>6 DEF Inductive, Typed, Local, Begun
<1>5. CASE RxEndError
  <2>1. last' \in LastFields /\ ~last'.rxing
    BY <1>1, <1>5, LastTypes DEF RxEndError, RxEnded, LastFields
  <2>2. air' \in AirFields
    BY <1>1, <1>3, <1>5, ParametersAssumption DEF RxEndError, AirFields
  <2> QED  BY <1>5, <2>1, <2>2 DEF RxEndError, Inductive, Typed, Local, Begun, Timed
<1>6. CASE RxOther
  <2>1. PICK duration \in NavDurations :
          /\ dcf' = UpdateBackoff(heard, dcf)
          /\ last' = NavStarted(heard, duration)
          /\ air' = [air EXCEPT !.nav = MostRecent(@, now + duration)]
    BY <1>6 DEF RxOther, heard
  <2>2. UNCHANGED <<now, timer, low, respondAt, holding, disturbances>>
    BY <1>6 DEF RxOther
  <2>3. duration \in Nat
    BY EnvironmentAssumption
  <2>4. last' \in LastFields /\ ~last'.rxing
    BY <1>1, <1>2, <2>1, <2>3, LastTypes DEF NavStarted, LastFields
  <2>5. air' \in AirFields
    <3>1. PICK n \in Nat : n = MostRecent(air.nav, now + duration)
      BY <1>1, <1>3, <2>3 DEF MostRecent, AirFields
    <3>2. air' = [air EXCEPT !.nav = n]
      BY <2>1, <3>1
    <3> QED  BY <1>3, <3>2 DEF AirFields
  <2>6. dcf' \in Contenders /\ (MayDecline = FALSE => Timed(dcf', timer'))
    BY <1>2, <2>1, <2>2, UpdateKeeps
  <2> QED  BY <1>1, <2>2, <2>4, <2>5, <2>6 DEF Inductive, Typed, Local, Begun
<1>7. CASE RxCfPoll
  <2>1. PICK duration \in NavDurations :
          LET reset == [heard EXCEPT !.navEnd = now + duration]
              d == UpdateBackoff(reset, UpdateBackoff(heard, dcf))
          IN  /\ last' = reset
              /\ dcf' = d
              /\ timer' \in RestartAccessTimeout(reset, d, timer)
              /\ air' = [air EXCEPT !.nav = now + duration]
    BY <1>7 DEF RxCfPoll, heard
  <2>2. UNCHANGED <<now, low, respondAt, holding, disturbances>>
    BY <1>7 DEF RxCfPoll
  <2>3. duration \in Nat
    BY EnvironmentAssumption
  <2>4. last' \in LastFields /\ ~last'.rxing
    BY <1>1, <1>2, <2>1, <2>3 DEF LastFields
  <2>5. /\ dcf' \in Contenders
        /\ \A s \in Dcf : dcf'[s].requested = dcf[s].requested
    BY <1>1, <1>2, <2>1, <2>4, UpdateBackoffType
  <2>6. timer' \in TimerType /\ (timer # NoTimer => timer' # NoTimer)
    <3>1. timer' \in RestartAccessTimeout(last', dcf', timer)
      BY <2>1
    <3> QED  BY <1>1, <2>4, <2>5, <3>1, RestartKeepsTimer DEF TimerType
  <2>7. air' \in AirFields
    BY <1>1, <1>3, <2>1, <2>3 DEF AirFields
  <2>8. MayDecline = FALSE => Timed(dcf', timer')
    BY <2>5, <2>6 DEF Inductive, Timed
  <2> QED  BY <1>1, <2>2, <2>4, <2>5, <2>6, <2>7, <2>8 DEF Inductive, Typed, Local, Begun
<1>8. CASE RxForUs
  <2>1. last' = heard /\ respondAt' \in Nat
    BY <1>1, <1>8, ParametersAssumption DEF RxForUs, heard
  <2> QED  BY <1>2, <1>8, <2>1 DEF RxForUs, Inductive, Typed, Local, Begun, Timed, TimerType
<1>9. CASE RxCts
  <2> DEFINE l == CtsTimeoutReset(heard)
  <2>1. l \in LastFields /\ ~l.rxing
    BY <1>1, <1>2, LastTypes DEF CtsTimeoutReset, LastFields
  <2>2. last' = l /\ timer' \in RestartAccessTimeout(l, dcf, timer)
    BY <1>9 DEF RxCts, heard
  <2> HIDE DEF l
  <2>3. timer' \in TimerType /\ (timer # NoTimer => timer' # NoTimer)
    BY <1>1, <2>1, <2>2, RestartKeepsTimer DEF TimerType
  <2>4. low' \in LowFields
    BY <1>1, <1>3, <1>9, ParametersAssumption DEF RxCts, Exchange, LowFields, Phases, Following
  <2>5. UNCHANGED <<now, dcf, respondAt, holding, air, disturbances>>
    BY <1>9 DEF RxCts
  <2>6. Local'
    BY <2>1, <2>2, <2>3, <2>4, <2>5 DEF Inductive, Typed, Local, Begun
  <2>7. MayDecline = FALSE => Timed(dcf', timer')
    BY <2>3, <2>5 DEF Inductive, Timed
  <2> QED  BY <2>5, <2>6, <2>7 DEF Inductive, Typed
<1>10. CASE RxAck
  <2> DEFINE l == AckTimeoutReset(heard)
  <2>1. l \in LastFields /\ ~l.rxing /\ Begun(l)
    BY <1>1, <1>2, LastTypes DEF AckTimeoutReset, LastFields, Begun
  <2>2. PICK tm \in RestartAccessTimeout(l, dcf, timer) :
          \/ Done(l, tm)
          \/ /\ last' = l
             /\ timer' = tm
             /\ low' = Exchange(low.owner, "fragment", now + Sifs)
             /\ UNCHANGED <<dcf, respondAt, holding, air>>
    BY <1>10 DEF RxAck, heard
  <2>3. now' = now /\ disturbances' = disturbances
    BY <1>10 DEF RxAck
  <2> HIDE DEF l
  <2>4. tm \in TimerType /\ (timer # NoTimer => tm # NoTimer)
    BY <1>1, <2>1, RestartKeepsTimer DEF TimerType
  <2>5. MayDecline = FALSE => Timed(dcf, tm)
    BY <2>4 DEF Inductive, Timed
  <2>6. CASE Done(l, tm)
    <3>1. Local' /\ (MayDecline = FALSE => Timed(dcf', timer'))
      BY <2>1, <2>3, <2>4, <2>5, <2>6, DoneKeeps DEF Inductive
    <3> QED  BY <2>3, <3>1 DEF Inductive, Typed
  <2>7. CASE /\ last' = l
             /\ timer' = tm
             /\ low' = Exchange(low.owner, "fragment", now + Sifs)
             /\ UNCHANGED <<dcf, respondAt, holding, air>>
    <3>1. low' \in LowFields
      BY <1>1, <1>3, <2>7, ParametersAssumption DEF Exchange, LowFields, Phases, Following
    <3>2. Local'
      BY <1>1, <2>1, <2>3, <2>4, <2>7, <3>1 DEF Inductive, Typed, Local, Begun
    <3>3. MayDecline = FALSE => Timed(dcf', timer')
      BY <2>5, <2>7 DEF Timed
    <3> QED  BY <2>3, <3>2, <3>3 DEF Inductive, Typed
  <2> QED  BY <2>2, <2>6, <2>7
<1>11. CASE RxBlockAck
  <2>1. now' = now /\ disturbances' = disturbances /\ Done(heard, timer)
    BY <1>11 DEF RxBlockAck, heard
  <2>2. Local' /\ (MayDecline = FALSE => Timed(dcf', timer'))
    BY <1>1, <1>2, <2>1, DoneKeeps DEF Inductive, Begun
  <2> QED  BY <2>1, <2>2 DEF Inductive, Typed
<1>12. ASSUME NEW s \in Originators, GotAddBaResponse(s)
       PROVE  Inductive'
  <2>1. /\ now' = now /\ disturbances' = disturbances
        /\ Request(heard, dcf, s, timer, low, holding, now + Sifs)
    BY <1>12 DEF GotAddBaResponse, heard
  <2>2. s \in Dcf /\ now + Sifs \in TimerType /\ Begun(heard)
    BY <1>1, <1>2, ParametersAssumption, EnvironmentAssumption DEF TimerType, Begun
  <2>3. Local' /\ (MayDecline = FALSE => Timed(dcf', timer'))
    BY <1>1, <1>2, <1>3, <2>1, <2>2, RequestKeeps DEF Inductive, Typed, Local
  <2> QED  BY <2>1, <2>3 DEF Inductive, Typed
<1> QED  BY <1>4, <1>5, <1>6, <1>7, <1>8, <1>9, <1>10, <1>11, <1>12

\* The rest of the environment, and the clock.
LEMMA EnvironmentSteps ==
  ASSUME Inductive,
         CcaBusy \/ Switch \/ EndTxNoAckUnheard \/ Tick \/ Finished \/ UNCHANGED vars
  PROVE  Inductive'
<1>1. now \in Nat /\ last \in LastFields /\ dcf \in Contenders /\ air \in AirFields
  BY DEF Inductive, Typed, Local
<1>2. CASE CcaBusy
  <2>1. PICK duration \in CcaDurations :
          /\ dcf' = UpdateBackoff(last, dcf)
          /\ last' = [last EXCEPT !.busyEnd = now + duration]
          /\ air' = [air EXCEPT !.cca = now + duration]
    BY <1>2 DEF CcaBusy
  <2>2. UNCHANGED <<now, timer, low, respondAt, holding>> /\ disturbances' = disturbances + 1
    BY <1>2 DEF CcaBusy, Disturb
  <2>3. duration \in Nat
    BY EnvironmentAssumption
  <2>4. last' \in LastFields /\ Begun(last)'
    BY <1>1, <2>1, <2>2, <2>3 DEF LastFields, Begun, Inductive, Typed, Local
  <2>5. air' \in AirFields
    BY <1>1, <2>1, <2>3 DEF AirFields
  <2>6. dcf' \in Contenders /\ (MayDecline = FALSE => Timed(dcf', timer'))
    BY <1>1, <2>1, <2>2, UpdateKeeps
  <2> QED  BY <2>2, <2>4, <2>5, <2>6 DEF Inductive, Typed, Local
<1>3. CASE Switch
  <2>1. PICK duration \in SwitchDurations :
          /\ last' = SwitchingStarted(last, duration)
          /\ air' = [air EXCEPT !.switch = now + duration, !.eifs = 0,
                                !.rx = Truncated(@), !.cca = Truncated(@),
                                !.nav = Truncated(@)]
    BY <1>3 DEF Switch
  <2>2. /\ dcf' = SwitchingDcf(dcf) /\ timer' = NoTimer /\ low' = Idle
        /\ respondAt' = NoTimer /\ holding' = {}
        /\ now' = now /\ disturbances' = disturbances + 1
    BY <1>3 DEF Switch, Disturb
  <2>3. duration \in Nat
    BY EnvironmentAssumption
  <2>4. last' \in LastFields /\ ~last'.rxing
    BY <2>1, <2>3, InterruptTypes DEF Inductive, Typed, Local
  <2>5. air' \in AirFields
    <3>1. PICK r \in Nat : r = Truncated(air.rx)
      BY <1>1 DEF Truncated, AirFields
    <3>2. PICK c \in Nat : c = Truncated(air.cca)
      BY <1>1 DEF Truncated, AirFields
    <3>3. PICK n \in Nat : n = Truncated(air.nav)
      BY <1>1 DEF Truncated, AirFields
    <3>4. PICK w \in Nat : w = now + duration
      BY <1>1, <2>3
    <3>5. air' = [air EXCEPT !.switch = w, !.eifs = 0, !.rx = r, !.cca = c, !.nav = n]
      BY <2>1, <3>1, <3>2, <3>3, <3>4, Zenon
    <3>6. [air EXCEPT !.switch = w, !.eifs = 0, !.rx = r, !.cca = c, !.nav = n] \in AirFields
      BY <1>1 DEF AirFields
    <3> QED  BY <3>5, <3>6, Zenon
  <2>6. dcf' \in Contenders /\ \A s \in Dcf : ~dcf'[s].requested
    BY <1>1, <2>2, SwitchingDcfType
  <2> QED
    BY <2>2, <2>4, <2>5, <2>6, IdleType DEF Inductive, Typed, Local, Begun, Timed, TimerType
<1>4. CASE Tick
  <2>1. Begun(last)'
    BY <1>1, <1>4 DEF Tick, Begun, Inductive, Typed, Local, LastFields
  <2> QED  BY <1>4, <2>1 DEF Tick, Inductive, Typed, Local, Timed
<1>5. CASE UNCHANGED vars
  BY <1>5 DEF vars, Inductive, Typed, Local, Begun, Timed
<1> QED  BY <1>2, <1>3, <1>4, <1>5 DEF EndTxNoAckUnheard, Finished

\* Every step keeps the invariant.
LEMMA InductiveStep == Inductive /\ [Next]_vars => Inductive'
  BY AccessSteps, ExchangeSteps, ReceptionSteps, EnvironmentSteps DEF Next

\* Every reachable state satisfies the invariant.
LEMMA AlwaysInductive == Spec => []Inductive
  BY InductiveInit, InductiveStep, PTL DEF Spec

\* Only a switch leaves an event without its listener.
LEMMA UnheardType == Spec => [](unheard \in BOOLEAN)
<1>1. Init => unheard \in BOOLEAN
  BY DEF Init
<1>2. unheard \in BOOLEAN /\ [Next]_vars => (unheard \in BOOLEAN)'
  BY DEF Next, vars, Tick, RequestAccess, AccessTimeout, ResponseMissed, EndTxNoAck,
         SifsElapsed, Respond, RxStart, RxEndError, RxOther, RxCfPoll, RxForUs,
         GotAddBaResponse, RxCts, RxAck, RxBlockAck, CcaBusy, Switch, EndTxNoAckUnheard,
         Finished
<1> QED  BY <1>1, <1>2, PTL DEF Spec

-----------------------------------------------------------------------------
(* Theorems.                                                               *)

\* Every time, backoff and contention window of the manager stays a natural
\* number: the subtractions of UpdateBackoff and of an interrupted reception
\* never underflow the unsigned arithmetic of dcf-manager.cc.
THEOREM TypeCorrect == Spec => []TypeOK
<1>1. Inductive /\ unheard \in BOOLEAN => TypeOK
  BY DEF Inductive, Typed, Local, TypeOK, DcfTypeOK, Contenders, TimerType, LowFields
<1> QED  BY <1>1, AlwaysInductive, UnheardType, PTL

\* As long as every contender that is granted the medium uses it, a request is
\* never left without an access timeout (dcf-manager.cc, RequestAccess and
\* DoRestartAccessTimeoutIfNeeded), whatever is received, lost or switched.
THEOREM TimerRuns ==
  ASSUME MayDecline = FALSE
  PROVE  Spec => []RequestHasTimer
<1>1. Inductive => RequestHasTimer
  BY DEF Inductive, Timed, RequestHasTimer
<1> QED  BY <1>1, AlwaysInductive, PTL
-----------------------------------------------------------------------------
(* Windows and backoffs.                                                   *)

\* The window and the slots of one contender, as WindowWithinParameters wants them.
Fits(c) == c.cwMin <= c.cw /\ c.cw <= c.cwMax /\ c.slots <= c.cwMax

Windowed(d) == \A s \in Dcf : Fits(d[s])

\* Whose backoff is over has no slots left.
Settled(l, d) == \A s \in Dcf : GetBackoffEndFor(l, d, s) <= now => d[s].slots = 0

-----------------------------------------------------------------------------
(* UpdateBackoff.                                                          *)

\* A number is less than one divisor above what the division accounts for.
LEMMA QuotientBound ==
  ASSUME NEW a \in Nat, NEW m \in Nat \ {0}
  PROVE  a < (a \div m) * m + m
  OBVIOUS

\* A positive number of slots lasts a slot at least.
LEMMA OneSlotAtLeast ==
  ASSUME NEW k \in Nat \ {0}, NEW m \in Nat
  PROVE  k * m >= m
<1>1. PICK j \in Nat : k = j + 1
  <2>1. k - 1 \in Nat /\ k = (k - 1) + 1
    OBVIOUS
  <2> QED  BY <2>1
<1>2. j * m \in Nat
  BY ProductType
<1> QED  BY <1>1, <1>2

\* What UpdateBackoff leaves of a backoff ends after now, or is nothing.
LEMMA UpdateBackoffSettles ==
  ASSUME now \in Nat, NEW l \in LastFields, NEW d \in Contenders
  PROVE  Settled(l, UpdateBackoff(l, d))
<1> DEFINE u == UpdateBackoff(l, d)
<1> SUFFICES ASSUME NEW s \in Dcf, u[s].slots # 0
             PROVE  GetBackoffEndFor(l, u, s) > now
  <2>1. u \in Contenders
    BY UpdateBackoffType
  <2>2. \A s \in Dcf : GetBackoffEndFor(l, u, s) \in Nat
    BY <2>1, BackoffTypes
  <2> HIDE DEF u
  <2>3. Settled(l, u)
    BY <2>2 DEF Settled
  <2> QED  BY <2>3 DEF u
<1> DEFINE b == GetBackoffStartFor(l, d, s)
           free == GetAccessGrantStart(l)
           n == ElapsedSlots(b, d[s].slots)
<1>1. /\ d[s] \in DcfFields
      /\ d[s].slots \in Nat /\ d[s].start \in Nat /\ d[s].aifsn \in Nat
  BY DEF Contenders, DcfFields
<1>2. b \in Nat /\ free \in Nat /\ d[s].aifsn * Slot \in Nat
  BY <1>1, BackoffTypes, AccessGrantStartType, ProductType, ParametersAssumption
<1>3. b >= free + d[s].aifsn * Slot /\ b >= d[s].start
  BY <1>1, <1>2 DEF GetBackoffStartFor, MostRecent
<1>4. CASE b <= now
  <2>1. u[s] = [d[s] EXCEPT !.slots = @ - n, !.start = b + n * Slot]
    BY <1>4 DEF UpdateBackoff
  <2>2. n \in Nat /\ n <= d[s].slots
    BY <1>1, <1>2, <1>4, ElapsedSlotsType
  <2>3. n * Slot \in Nat
    BY <2>2, ProductType, ParametersAssumption
  <2> HIDE DEF u, b, n, free
  <2>4. u[s].slots = d[s].slots - n /\ u[s].start = b + n * Slot /\ u[s].aifsn = d[s].aifsn
    BY <1>1, <2>1 DEF DcfFields
  <2>5. d[s].slots - n \in Nat \ {0}
    BY <1>1, <2>2, <2>4
  <2>6. n = (now - b) \div Slot
    BY <1>1, <2>2, <2>5 DEF ElapsedSlots, n
  <2>7. now - b \in Nat
    BY <1>2, <1>4
  <2>8. now - b < n * Slot + Slot
    BY <2>6, <2>7, QuotientBound, ParametersAssumption
  <2>9. (d[s].slots - n) * Slot >= Slot /\ (d[s].slots - n) * Slot \in Nat
    BY <2>5, OneSlotAtLeast, ProductType, ParametersAssumption
  <2>10. GetBackoffStartFor(l, u, s) = b + n * Slot
    BY <1>2, <1>3, <2>3, <2>4 DEF GetBackoffStartFor, MostRecent, free
  <2>11. GetBackoffEndFor(l, u, s) = b + n * Slot + (d[s].slots - n) * Slot
    BY <2>4, <2>10 DEF GetBackoffEndFor
  <2>12. Slot \in Nat \ {0}
    BY ParametersAssumption
  <2>13. PICK p \in Nat : p = n * Slot
    BY <2>3
  <2>14. PICK r \in Nat : r = (d[s].slots - n) * Slot
    BY <2>9
  <2> QED  BY <1>2, <1>4, <2>8, <2>9, <2>11, <2>12, <2>13, <2>14
<1>5. CASE ~(b <= now)
  <2>1. u[s] = d[s]
    BY <1>5 DEF UpdateBackoff
  <2>2. GetBackoffEndFor(l, u, s) = b + d[s].slots * Slot
    BY <2>1 DEF GetBackoffEndFor, GetBackoffStartFor
  <2>3. d[s].slots * Slot \in Nat
    BY <1>1, ProductType, ParametersAssumption
  <2> HIDE DEF b, u
  <2> QED  BY <1>2, <1>5, <2>2, <2>3
<1> QED  BY <1>4, <1>5

\* UpdateBackoff takes slots away, and leaves the parameters and the window.
LEMMA UpdateBackoffFits ==
  ASSUME now \in Nat, NEW l \in LastFields, NEW d \in Contenders
  PROVE  /\ Windowed(d) => Windowed(UpdateBackoff(l, d))
         /\ \A s \in Dcf : /\ UpdateBackoff(l, d)[s].cw = d[s].cw
                           /\ UpdateBackoff(l, d)[s].cwMax = d[s].cwMax
<1> SUFFICES ASSUME NEW s \in Dcf
             PROVE  /\ Fits(d[s]) => Fits(UpdateBackoff(l, d)[s])
                    /\ UpdateBackoff(l, d)[s].cw = d[s].cw
                    /\ UpdateBackoff(l, d)[s].cwMax = d[s].cwMax
  BY DEF Windowed
<1> DEFINE b == GetBackoffStartFor(l, d, s)
           n == ElapsedSlots(b, d[s].slots)
<1>1. d[s] \in DcfFields
  BY DEF Contenders
<1>2. b \in Nat
  BY BackoffTypes
<1>3. CASE b <= now
  <2>1. n \in Nat /\ n <= d[s].slots
    BY <1>1, <1>2, <1>3, ElapsedSlotsType DEF DcfFields
  <2>2. UpdateBackoff(l, d)[s] = [d[s] EXCEPT !.slots = @ - n, !.start = b + n * Slot]
    BY <1>3 DEF UpdateBackoff
  <2> HIDE DEF n, b
  <2> QED  BY <1>1, <2>1, <2>2 DEF DcfFields, Fits
<1>4. CASE ~(b <= now)
  BY <1>4 DEF UpdateBackoff
<1> QED  BY <1>3, <1>4

-----------------------------------------------------------------------------
(* The DcfState of a contender.                                            *)

\* The methods of one DcfState keep its backoff within its window.
LEMMA DcfStateFits ==
  ASSUME now \in Nat, NEW d \in Contenders, Windowed(d), NEW s \in Dcf
  PROVE  /\ Windowed(ResetCw(d, s))
         /\ Windowed(UpdateFailedCw(d, s))
         /\ Windowed(NotifyAccessRequested(d, s))
         /\ Windowed(NotifyAccessGranted(d, s))
         /\ \A r \in 0..d[s].cw : Windowed(StartBackoffNow(d, s, r))
<1>1. d[s] \in DcfFields /\ Fits(d[s])
  BY DEF Contenders, Windowed
<1>2. /\ d[s].cw \in Nat /\ d[s].cwMin \in Nat /\ d[s].cwMax \in Nat /\ d[s].slots \in Nat
      /\ d[s].cwMin <= d[s].cw /\ d[s].cw <= d[s].cwMax /\ d[s].slots <= d[s].cwMax
  BY <1>1 DEF DcfFields, Fits
<1>3. ASSUME NEW c, Fits(c)
      PROVE  Windowed([d EXCEPT ![s] = c])
  BY <1>3 DEF Windowed, Contenders
<1>4. Windowed(ResetCw(d, s))
  <2>1. Fits([d[s] EXCEPT !.cw = d[s].cwMin])
    BY <1>1, <1>2 DEF Fits, DcfFields
  <2>2. ResetCw(d, s) = [d EXCEPT ![s] = [d[s] EXCEPT !.cw = d[s].cwMin]]
    BY DEF ResetCw, Contenders
  <2> QED  BY <1>3, <2>1, <2>2
<1>5. Windowed(UpdateFailedCw(d, s))
  <2> DEFINE doubled == 2 * (d[s].cw + 1) - 1
             w == IF doubled <= d[s].cwMax THEN doubled ELSE d[s].cwMax
  <2>1. w \in Nat /\ d[s].cwMin <= w /\ w <= d[s].cwMax
    BY <1>2
  <2>2. UpdateFailedCw(d, s) = [d EXCEPT ![s] = [d[s] EXCEPT !.cw = w]]
    BY DEF UpdateFailedCw, Contenders
  <2> HIDE DEF w
  <2>3. Fits([d[s] EXCEPT !.cw = w])
    BY <1>1, <1>2, <2>1 DEF Fits, DcfFields
  <2> QED  BY <1>3, <2>2, <2>3
<1>6. Windowed(NotifyAccessRequested(d, s))
  BY DEF NotifyAccessRequested, Windowed, Fits, Contenders, DcfFields
<1>7. Windowed(NotifyAccessGranted(d, s))
  BY DEF NotifyAccessGranted, Windowed, Fits, Contenders, DcfFields
<1>8. ASSUME NEW r \in 0..d[s].cw
      PROVE  Windowed(StartBackoffNow(d, s, r))
  <2>1. r \in Nat /\ r <= d[s].cwMax
    BY <1>2
  <2> QED  BY <1>2, <2>1 DEF StartBackoffNow, Windowed, Fits, Contenders, DcfFields
<1> QED  BY <1>4, <1>5, <1>6, <1>7, <1>8

\* A request leaves every backoff as it is, and a new backoff ends after now
\* unless it has no slots.
LEMMA RequestSettles ==
  ASSUME now \in Nat, NEW l \in LastFields, NEW d \in Contenders, NEW s \in Dcf, Settled(l, d)
  PROVE  /\ Settled(l, NotifyAccessRequested(d, s))
         /\ \A r \in Nat : Settled(l, StartBackoffNow(d, s, r))
<1>1. Settled(l, NotifyAccessRequested(d, s))
  <2>1. \A x \in Dcf : /\ NotifyAccessRequested(d, s)[x].slots = d[x].slots
                       /\ NotifyAccessRequested(d, s)[x].start = d[x].start
                       /\ NotifyAccessRequested(d, s)[x].aifsn = d[x].aifsn
    BY DEF NotifyAccessRequested, Contenders, DcfFields
  <2> QED  BY <2>1 DEF Settled, GetBackoffEndFor, GetBackoffStartFor
<1>2. ASSUME NEW r \in Nat, NEW x \in Dcf,
             GetBackoffEndFor(l, StartBackoffNow(d, s, r), x) <= now
      PROVE  StartBackoffNow(d, s, r)[x].slots = 0
  <2> DEFINE e == StartBackoffNow(d, s, r)
  <2>1. e \in Contenders
    BY DcfStateTypes
  <2>2. CASE x = s
    <3>1. e[x].slots = r /\ e[x].start = now
      BY <2>2 DEF StartBackoffNow, Contenders, DcfFields
    <3> HIDE DEF e
    <3>2. /\ GetAccessGrantStart(l) \in Nat /\ e[x].aifsn * Slot \in Nat
          /\ r * Slot \in Nat
      BY <2>1, AccessGrantStartType, ProductType, ParametersAssumption DEF Contenders, DcfFields
    <3>3. GetBackoffStartFor(l, e, x) >= now /\ GetBackoffStartFor(l, e, x) \in Nat
      BY <3>1, <3>2 DEF GetBackoffStartFor, MostRecent
    <3>4. GetBackoffEndFor(l, e, x) = GetBackoffStartFor(l, e, x) + r * Slot
      BY <3>1 DEF GetBackoffEndFor
    <3>5. GetBackoffEndFor(l, e, x) <= now
      BY <1>2 DEF e
    <3>6. PICK p \in Nat : p = r * Slot
      BY <3>2
    <3>7. p = 0
      BY <3>3, <3>4, <3>5, <3>6
    <3>8. r # 0 => r * Slot >= Slot
      BY OneSlotAtLeast, ParametersAssumption
    <3>9. r = 0
      BY <3>6, <3>7, <3>8, ParametersAssumption
    <3> QED  BY <3>1, <3>9 DEF e
  <2>3. CASE x # s
    <3>1. e[x] = d[x]
      BY <2>3 DEF StartBackoffNow, Contenders
    <3>2. GetBackoffEndFor(l, d, x) <= now
      BY <1>2, <3>1 DEF GetBackoffEndFor, GetBackoffStartFor
    <3> QED  BY <3>1, <3>2 DEF Settled
  <2> QED  BY <2>2, <2>3
<1> QED  BY <1>1, <1>2 DEF Settled

\* New parameters fit the contender whose backoff is over.
LEMMA SetParametersFits ==
  ASSUME NEW d \in Contenders, Windowed(d), NEW w \in Dcf, d[w].slots = 0,
         NEW p \in [aifsn : Nat \ {0}, cwMin : Nat, cwMax : Nat], p.cwMin <= p.cwMax
  PROVE  Windowed(SetParameters(d, w, p))
<1>1. d[w] \in DcfFields
  BY DEF Contenders
<1> DEFINE c == [d[w] EXCEPT !.aifsn = p.aifsn, !.cwMin = p.cwMin, !.cwMax = p.cwMax,
                             !.cw = p.cwMin]
<1>2. Fits(c)
  BY <1>1 DEF DcfFields, Fits
<1>3. SetParameters(d, w, p) = [d EXCEPT ![w] = c]
  BY DEF SetParameters, Contenders
<1> HIDE DEF c
<1> QED  BY <1>2, <1>3 DEF Windowed, Contenders

\* The losers of an internal collision draw within their windows.
LEMMA InternalCollisionsFits ==
  ASSUME now \in Nat, NEW d \in Contenders, Windowed(d), NEW losers \in SUBSET Dcf,
         NEW draws \in [losers -> Nat], \A s \in losers : draws[s] <= d[s].cw
  PROVE  Windowed(InternalCollisions(d, draws))
<1> SUFFICES ASSUME NEW s \in Dcf
             PROVE  Fits(InternalCollisions(d, draws)[s])
  BY DEF Windowed
<1>1. CASE s \in losers
  <2>1. InternalCollisions(d, draws)[s] = StartBackoffNow(d, s, draws[s])[s]
    BY <1>1 DEF InternalCollisions
  <2>2. draws[s] \in 0..d[s].cw
    BY <1>1 DEF Contenders, DcfFields
  <2> QED  BY <2>1, <2>2, DcfStateFits DEF Windowed
<1>2. CASE s \notin losers
  BY <1>2 DEF InternalCollisions, Windowed
<1> QED  BY <1>1, <1>2

-----------------------------------------------------------------------------
(* Access.                                                                 *)

\* A transmission takes slots away at most.
LEMMA TransmitDcfFits ==
  ASSUME now \in Nat, NEW l \in LastFields, Begun(l), NEW d \in Contenders,
         NEW frame, NEW duration \in Nat
  PROVE  /\ Windowed(d) => Windowed(TransmitDcf(l, d, frame, duration))
         /\ \A s \in Dcf : TransmitDcf(l, d, frame, duration)[s].cw = d[s].cw
<1>1. TxInterrupts(TimersStarted(l, frame, duration)) \in LastFields
  BY TimersStartedType, InterruptTypes
<1> QED  BY <1>1, UpdateBackoffFits DEF TransmitDcf

\* DoGrantAccess, called with every backoff up to date.
LEMMA GrantAccessFits ==
  ASSUME Typed, NEW l \in LastFields, Begun(l), NEW d \in Contenders,
         Windowed(d), Settled(l, d), NEW tm, NEW lw, NEW h, NEW ra,
         GrantAccess(l, d, tm, lw, h, ra)
  PROVE  Windowed(dcf')
<1> USE DEF Typed
<1>1. CASE dcf' = d
  BY <1>1
<1>2. ASSUME NEW w \in Ready(l, d), NEW draws \in Draws(d, Ready(l, d) \ {w}),
             \/ Transmit(l, NotifyAccessGranted(d, w), w, draws, tm, h)
             \/ \E p \in NextParameters(d, w) :
                  Transmit(l, SetParameters(NotifyAccessGranted(d, w), w, p), w, draws, tm, h)
             \/ Decline(l, NotifyAccessGranted(d, w), w, draws, tm, lw, h, ra)
      PROVE  Windowed(dcf')
  <2> DEFINE g == NotifyAccessGranted(d, w)
             losers == Ready(l, d) \ {w}
  <2>1. w \in Dcf /\ losers \in SUBSET Dcf /\ d[w].slots = 0
    BY DEF Ready, Settled
  <2>2. /\ g \in Contenders /\ Windowed(g) /\ g[w].slots = 0
        /\ \A s \in Dcf : g[s].cw = d[s].cw
    <3>1. g \in Contenders /\ Windowed(g)
      BY <2>1, DcfStateTypes, DcfStateFits
    <3>2. g[w].slots = 0 /\ \A s \in Dcf : g[s].cw = d[s].cw
      BY <2>1 DEF NotifyAccessGranted, Contenders, DcfFields
    <3> QED  BY <3>1, <3>2
  <2>3. draws \in [losers -> Nat] /\ \A s \in losers : draws[s] <= d[s].cw
    <3>1. draws \in [losers -> Nat]
      BY <2>1, DrawsType
    <3>2. \A s \in losers : draws[s] <= d[s].cw
      BY DEF Draws
    <3> QED  BY <3>1, <3>2
  <2>4. w \notin losers
    OBVIOUS
  <2> HIDE DEF g, losers
  <2>5. ASSUME NEW a \in Contenders, Windowed(a), \A s \in losers : a[s].cw = d[s].cw,
               Transmit(l, a, w, draws, tm, h)
        PROVE  Windowed(dcf')
    <3>1. PICK frame \in FirstFrames, duration \in TxDurations :
            dcf' = InternalCollisions(TransmitDcf(l, a, frame, duration), draws)
      BY <2>5 DEF Transmit
    <3>2. duration \in Nat \ {0}
      BY EnvironmentAssumption
    <3> DEFINE t == TransmitDcf(l, a, frame, duration)
    <3>3. t \in Contenders
      BY <3>2, TransmitTypes DEF Local
    <3>4. Windowed(t) /\ \A s \in Dcf : t[s].cw = a[s].cw
      BY <2>5, <3>2, TransmitDcfFits
    <3> HIDE DEF t
    <3>5. \A s \in losers : draws[s] <= t[s].cw
      BY <2>1, <2>3, <2>5, <3>4
    <3>6. Windowed(InternalCollisions(t, draws))
      BY <2>1, <2>3, <3>3, <3>4, <3>5, InternalCollisionsFits
    <3> QED  BY <3>1, <3>6 DEF t
  <2>6. CASE Transmit(l, g, w, draws, tm, h)
    BY <2>1, <2>2, <2>5, <2>6
  <2>7. ASSUME NEW p \in NextParameters(d, w),
               Transmit(l, SetParameters(g, w, p), w, draws, tm, h)
        PROVE  Windowed(dcf')
    <3>1. p \in [aifsn : Nat \ {0}, cwMin : Nat, cwMax : Nat] /\ p.cwMin <= p.cwMax
      BY EnvironmentAssumption DEF NextParameters
    <3> DEFINE a == SetParameters(g, w, p)
    <3>2. a \in Contenders /\ Windowed(a)
      BY <2>1, <2>2, <3>1, SetParametersType, SetParametersFits
    <3>3. \A s \in losers : a[s].cw = g[s].cw
      BY <2>1, <2>2, <2>4 DEF SetParameters, Contenders
    <3>4. \A s \in losers : a[s].cw = d[s].cw
      BY <2>1, <2>2, <3>3
    <3> HIDE DEF a
    <3>5. Transmit(l, a, w, draws, tm, h)
      BY <2>7 DEF a
    <3> QED  BY <2>5, <3>2, <3>4, <3>5
  <2>8. CASE Decline(l, g, w, draws, tm, lw, h, ra)
    <3>1. \A s \in losers : draws[s] <= g[s].cw
      BY <2>1, <2>2, <2>3
    <3>2. Windowed(InternalCollisions(g, draws))
      BY <2>1, <2>2, <2>3, <3>1, InternalCollisionsFits
    <3> QED  BY <2>8, <3>2 DEF Decline
  <2> QED  BY <1>2, <2>6, <2>7, <2>8 DEF g
<1> QED  BY <1>1, <1>2 DEF GrantAccess

\* DcfManager::RequestAccess.
LEMMA RequestFits ==
  ASSUME Typed, NEW l \in LastFields, Begun(l), NEW d \in Contenders, Windowed(d),
         NEW s \in Dcf, NEW tm, NEW lw, NEW h, NEW ra,
         Request(l, d, s, tm, lw, h, ra)
  PROVE  Windowed(dcf')
<1> USE DEF Typed
<1> DEFINE u == UpdateBackoff(l, d)
           d2 == NotifyAccessRequested(u, s)
<1>1. u \in Contenders /\ Windowed(u) /\ Settled(l, u)
  BY UpdateBackoffType, UpdateBackoffFits, UpdateBackoffSettles
<1> HIDE DEF u
<1>2. d2 \in Contenders /\ Windowed(d2) /\ Settled(l, d2)
  BY <1>1, DcfStateTypes, DcfStateFits, RequestSettles
<1>3. \/ GrantAccess(l, d2, tm, lw, h, ra)
      \/ \E r \in 0..d2[s].cw : GrantAccess(l, StartBackoffNow(d2, s, r), tm, lw, h, ra)
  BY DEF Request, u
<1> HIDE DEF d2
<1>4. d2[s].cw \in Nat
  BY <1>2 DEF Contenders, DcfFields
<1>5. ASSUME NEW r \in 0..d2[s].cw
      PROVE  /\ StartBackoffNow(d2, s, r) \in Contenders
             /\ Windowed(StartBackoffNow(d2, s, r))
             /\ Settled(l, StartBackoffNow(d2, s, r))
  BY <1>2, <1>4, DcfStateTypes, DcfStateFits, RequestSettles
<1> QED  BY <1>2, <1>3, <1>5, GrantAccessFits

\* The end of an exchange.
LEMMA AfterExchangeFits ==
  ASSUME Typed, NEW l \in LastFields, Begun(l), NEW d \in Contenders, Windowed(d),
         NEW s \in Dcf, NEW tm, NEW h,
         AfterExchange(l, d, s, tm, h)
  PROVE  Windowed(dcf')
<1>1. PICK r \in 0..d[s].cw :
        \/ Request(l, StartBackoffNow(d, s, r), s, tm, Idle, h, respondAt)
        \/ dcf' = StartBackoffNow(d, s, r)
  BY Zenon DEF AfterExchange
<1>2. r \in Nat
  BY DEF Contenders, DcfFields
<1>3. StartBackoffNow(d, s, r) \in Contenders /\ Windowed(StartBackoffNow(d, s, r))
  BY <1>2, DcfStateTypes, DcfStateFits DEF Typed
<1> QED  BY <1>1, <1>3, RequestFits

\* Its two outcomes.
LEMMA OutcomeFits ==
  ASSUME Typed, Windowed(dcf), NEW l \in LastFields, Begun(l), NEW tm, Done(l, tm) \/ Retry
  PROVE  Windowed(dcf')
<1>1. /\ low.owner \in Dcf /\ dcf \in Contenders /\ last \in LastFields /\ Begun(last)
      /\ now \in Nat
  BY DEF Typed, Local, LowFields
<1>2. CASE Done(l, tm)
  <2>1. ResetCw(dcf, low.owner) \in Contenders /\ Windowed(ResetCw(dcf, low.owner))
    BY <1>1, DcfStateTypes, DcfStateFits
  <2> QED  BY <1>1, <1>2, <2>1, AfterExchangeFits DEF Done
<1>3. CASE Retry
  <2>1. UpdateFailedCw(dcf, low.owner) \in Contenders /\ Windowed(UpdateFailedCw(dcf, low.owner))
    BY <1>1, DcfStateTypes, DcfStateFits
  <2> QED  BY <1>1, <1>3, <2>1, AfterExchangeFits DEF Retry
<1> QED  BY <1>2, <1>3

-----------------------------------------------------------------------------
(* The steps.                                                              *)

\* The backoffs drawn at initialization fit.
LEMMA InitFits == Init => Windowed(dcf)
<1> SUFFICES ASSUME Init, NEW s \in Dcf PROVE Fits(dcf[s])
  BY DEF Windowed
<1>1. PICK draw \in [Dcf -> UNION {0..CwMin[x] : x \in Dcf}] :
        /\ draw[s] <= CwMin[s]
        /\ dcf = [x \in Dcf |-> [slots |-> draw[x], start |-> 0, aifsn |-> Aifsn[x],
                                 cwMin |-> CwMin[x], cwMax |-> CwMax[x],
                                 cw |-> CwMin[x], requested |-> FALSE, ok |-> TRUE]]
  BY DEF Init, DcfInit
<1>2. PICK x \in Dcf : draw[s] \in 0..CwMin[x]
  BY <1>1
<1>3. draw[s] \in Nat /\ CwMin[s] \in Nat /\ CwMax[s] \in Nat /\ CwMin[s] <= CwMax[s]
  BY <1>2, ParametersAssumption
<1> QED  BY <1>1, <1>3 DEF Fits

\* Every step keeps the backoffs within their windows.
LEMMA StepFits ==
  ASSUME Inductive, Windowed(dcf), [Next]_vars
  PROVE  Windowed(dcf')
<1> DEFINE heard == RxEnded(last, TRUE)
<1>1. /\ now \in Nat /\ last \in LastFields /\ Begun(last) /\ dcf \in Contenders
      /\ Typed
  BY DEF Inductive, Typed, Local
<1>2. heard \in LastFields /\ Begun(heard)
  BY <1>1, LastTypes DEF RxEnded, LastFields, Begun
<1> HIDE DEF heard
<1>3. ASSUME NEW s \in Dcf, RequestAccess(s)
      PROVE  Windowed(dcf')
  BY <1>1, <1>3, RequestFits DEF RequestAccess
<1>4. CASE AccessTimeout
  <2>1. /\ UpdateBackoff(last, dcf) \in Contenders
        /\ Windowed(UpdateBackoff(last, dcf))
        /\ Settled(last, UpdateBackoff(last, dcf))
    BY <1>1, UpdateBackoffType, UpdateBackoffFits, UpdateBackoffSettles
  <2> QED  BY <1>1, <1>4, <2>1, GrantAccessFits DEF AccessTimeout
<1>5. CASE ResponseMissed \/ EndTxNoAck
  BY <1>1, <1>5, OutcomeFits DEF ResponseMissed, EndTxNoAck
<1>6. CASE SifsElapsed \/ Respond
  <2>1. PICK frame \in {"ack", "noack"}, duration \in TxDurations :
          dcf' = TransmitDcf(last, dcf, frame, duration)
    BY <1>6 DEF SifsElapsed, Respond, FollowingFrames
  <2>2. duration \in Nat
    BY EnvironmentAssumption
  <2> QED  BY <1>1, <2>1, <2>2, TransmitDcfFits
<1>7. CASE RxStart \/ CcaBusy
  BY <1>1, <1>7, UpdateBackoffFits DEF RxStart, CcaBusy
<1>8. CASE RxOther
  BY <1>1, <1>2, <1>8, UpdateBackoffFits DEF RxOther, heard
<1>9. CASE RxCfPoll
  <2>1. PICK duration \in NavDurations :
          dcf' = UpdateBackoff([heard EXCEPT !.navEnd = now + duration],
                               UpdateBackoff(heard, dcf))
    BY <1>9 DEF RxCfPoll, heard
  <2>2. duration \in Nat
    BY EnvironmentAssumption
  <2>3. [heard EXCEPT !.navEnd = now + duration] \in LastFields
    BY <1>1, <1>2, <2>2 DEF LastFields
  <2>4. UpdateBackoff(heard, dcf) \in Contenders /\ Windowed(UpdateBackoff(heard, dcf))
    BY <1>1, <1>2, UpdateBackoffType, UpdateBackoffFits
  <2> QED  BY <1>1, <2>1, <2>3, <2>4, UpdateBackoffFits
<1>10. CASE RxAck
  <2>1. AckTimeoutReset(heard) \in LastFields /\ Begun(AckTimeoutReset(heard))
    BY <1>1, <1>2, LastTypes DEF AckTimeoutReset, LastFields, Begun
  <2>2. dcf' = dcf \/ \E tm : Done(AckTimeoutReset(heard), tm)
    BY <1>10 DEF RxAck, heard
  <2> QED  BY <1>1, <2>1, <2>2, OutcomeFits
<1>11. CASE RxBlockAck
  BY <1>1, <1>2, <1>11, OutcomeFits DEF RxBlockAck, heard
<1>12. CASE Switch
  <2>1. dcf' = SwitchingDcf(dcf)
    BY <1>12 DEF Switch
  <2>2. ASSUME NEW s \in Dcf
        PROVE  Fits(SwitchingDcf(dcf)[s])
    <3>1. dcf[s] \in DcfFields /\ Fits(dcf[s])
      BY <1>1 DEF Contenders, Windowed
    <3>2. PICK t \in Nat : t = IF dcf[s].slots > 0 THEN now ELSE dcf[s].start
      BY <1>1, <3>1 DEF DcfFields
    <3>3. SwitchingDcf(dcf)[s] = [dcf[s] EXCEPT !.slots = 0, !.cw = dcf[s].cwMin,
                                                !.requested = FALSE, !.start = t]
      BY <3>2, Zenon DEF SwitchingDcf
    <3>4. /\ dcf[s].cwMin \in Nat /\ dcf[s].cwMax \in Nat /\ dcf[s].cw \in Nat
          /\ dcf[s].cwMin <= dcf[s].cw /\ dcf[s].cw <= dcf[s].cwMax
      BY <3>1 DEF DcfFields, Fits
    <3>5. /\ SwitchingDcf(dcf)[s].slots = 0
          /\ SwitchingDcf(dcf)[s].cw = dcf[s].cwMin
          /\ SwitchingDcf(dcf)[s].cwMin = dcf[s].cwMin
          /\ SwitchingDcf(dcf)[s].cwMax = dcf[s].cwMax
      BY <3>1, <3>3 DEF DcfFields
    <3> QED  BY <3>4, <3>5 DEF Fits
  <2> QED  BY <2>1, <2>2 DEF Windowed
<1>13. ASSUME NEW s \in Originators, GotAddBaResponse(s)
       PROVE  Windowed(dcf')
  <2>1. s \in Dcf
    BY EnvironmentAssumption
  <2> QED  BY <1>1, <1>2, <1>13, <2>1, RequestFits DEF GotAddBaResponse, heard
<1>14. CASE \/ RxEndError \/ RxForUs \/ RxCts \/ Tick \/ Finished
            \/ EndTxNoAckUnheard \/ UNCHANGED vars
  BY <1>14 DEF RxEndError, RxForUs, RxCts, Tick, Finished, EndTxNoAckUnheard, vars
<1> QED
  BY <1>3, <1>4, <1>5, <1>6, <1>7, <1>8, <1>9, <1>10, <1>11, <1>12, <1>13, <1>14 DEF Next

-----------------------------------------------------------------------------
(* The theorem.                                                            *)

\* Whatever parameters WiFox replaces by which, and at which grants, a contender
\* never waits for more slots than the parameters in force can draw, and its
\* window stays between their bounds (dcf-manager.cc, SetCwMin and SetCwMax).
THEOREM WindowFollowsParameters == Spec => []WindowWithinParameters
<1>1. Init => Inductive /\ Windowed(dcf)
  BY InductiveInit, InitFits
<1>2. Inductive /\ Windowed(dcf) /\ [Next]_vars => (Inductive /\ Windowed(dcf))'
  <2> SUFFICES ASSUME Inductive, Windowed(dcf), [Next]_vars
               PROVE  Inductive' /\ Windowed(dcf')
    BY DEF Windowed
  <2> QED  BY InductiveStep, StepFits
<1>3. Windowed(dcf) => WindowWithinParameters
  BY DEF Windowed, Fits, WindowWithinParameters
<1> QED  BY <1>1, <1>2, <1>3, PTL DEF Spec
=============================================================================
