--------------------------- MODULE ExchangeProofs ---------------------------
(***************************************************************************)
(* Theorems about ChannelAccess: no assertion of the source fails but the  *)
(* one about the backoff of a contender that uses block ack, a held packet *)
(* is always pending, a backoff is a countdown of idle slots whatever      *)
(* interrupts it, access is granted at its end on an idle medium, and no   *)
(* exchange begins in the middle of another, but for those that wait for a *)
(* block ack.                                                              *)
(*                                                                         *)
(* The argument for exchanges: what the manager remembers of the medium is *)
(* true, and every event that MacLow has scheduled is due before access    *)
(* may start, because the manager remembers the end of what it waits for   *)
(* (an ack or CTS timeout, a transmission) or the reception that it        *)
(* answers one SIFS later.                                                 *)
(*                                                                         *)
(* The argument for backoffs: UpdateBackoff brings a backoff up to date at *)
(* any time without changing what is left of it (Left).  When the medium   *)
(* turns busy it has just run, or access could not start anyway, so that   *)
(* nothing is uncounted (Current); from then on until a slot after access  *)
(* may start again nothing elapses.                                        *)
(***************************************************************************)
EXTENDS ChannelAccessProofs

USE DEF Following

\* When a reception last began or ended.
Heard(l) == IF l.rxing THEN l.rxStart ELSE l.rxEnd

\* What the manager remembers (l) of the medium (a) is true, of a reception in
\* progress as of one that has ended.
Seen(l, a) ==
  /\ l.txEnd = a.tx /\ l.busyEnd = a.cca /\ l.navEnd = a.nav /\ l.switchEnd = a.switch
  /\ l.rxing =>
       /\ l.rxStart <= now /\ now <= a.rx
       /\ a.rx = l.rxStart + l.rxDuration /\ l.rxDuration > Sifs
       /\ a.tx <= l.rxStart /\ a.switch <= l.rxStart
       /\ a.eifs = 0
  /\ ~l.rxing =>
       /\ a.rx <= l.rxEnd /\ l.rxEnd <= now
       /\ a.eifs <= RxAccessStart(l)

\* The PHY neither transmits nor switches.
PhyFree(a) == a.tx <= now /\ a.switch <= now

\* The event of an exchange (lw) and the response to a reception (r) are still to
\* come, and the manager remembers something that lasts as long.
Scheduled(l, a, lw, r) ==
  /\ lw.phase # "idle" => now <= lw.at
  /\ lw.phase = "ack" => lw.at = l.ackEnd
  /\ lw.phase = "rts" => lw.at = l.ctsEnd /\ l.ackEnd < now
  /\ lw.phase = "noack" => lw.at = l.txEnd
  /\ lw.phase \in Following => lw.at <= Heard(l) + Sifs /\ PhyFree(a) /\ l.ackEnd < lw.at
  /\ r # NoTimer => /\ now <= r /\ r <= Heard(l) + Sifs /\ PhyFree(a)
                    /\ lw.phase \notin Following \cup {"noack"}

\* The owner of an exchange holds the packet, waits for no access and has no
\* backoff.  One that uses block ack may have asked for access meanwhile, and have
\* drawn a backoff as it did.
Owned(d, lw, h) ==
  lw.phase # "idle" =>
    /\ lw.owner \in h
    /\ lw.owner \in Originators \/ ~d[lw.owner].requested
    /\ d[lw.owner].requested \/ d[lw.owner].slots = 0

\* AssertionsHold, of the operands of a method.
Correct(l, a, d) == l.ok /\ a.ok /\ \A s \in Dcf \ Originators : d[s].ok

\* HeldPacketIsPending, of the operands of a method, where no exchange waits for
\* a block ack.
Pending(d, lw, h) ==
  "ba" \notin FirstFrames =>
    /\ lw.phase # "ba"
    /\ \A s \in h : d[s].requested \/ (lw.phase # "idle" /\ lw.owner = s)

Consistent(l, a, d, lw, r, h) ==
  /\ Seen(l, a)
  /\ Scheduled(l, a, lw, r)
  /\ Owned(d, lw, h)
  /\ Correct(l, a, d)
  /\ Pending(d, lw, h)

-----------------------------------------------------------------------------
(* When access may start.                                                  *)

\* Access starts one SIFS after everything the manager remembers.
LEMMA GrantStartBounds ==
  ASSUME NEW l \in LastFields
  PROVE  /\ GetAccessGrantStart(l) \in Nat
         /\ RxAccessStart(l) \in Nat
         /\ RxAccessStart(l) + Sifs <= GetAccessGrantStart(l)
         /\ l.busyEnd + Sifs <= GetAccessGrantStart(l)
         /\ l.txEnd + Sifs <= GetAccessGrantStart(l)
         /\ l.navEnd + Sifs <= GetAccessGrantStart(l)
         /\ l.ackEnd + Sifs <= GetAccessGrantStart(l)
         /\ l.ctsEnd + Sifs <= GetAccessGrantStart(l)
         /\ l.switchEnd + Sifs <= GetAccessGrantStart(l)
<1>1. RxAccessStart(l) \in Nat
  BY ParametersAssumption DEF LastFields, RxAccessStart
<1> QED
  BY <1>1, ParametersAssumption DEF LastFields, GetAccessGrantStart, MostRecent

\* A backoff begins an AIFS after that, a slot at least.
LEMMA BackoffStartBounds ==
  ASSUME NEW l \in LastFields, NEW d \in Contenders, NEW s \in Dcf
  PROVE  /\ GetBackoffStartFor(l, d, s) \in Nat
         /\ d[s].aifsn * Slot \in Nat /\ d[s].aifsn * Slot >= Slot
         /\ GetBackoffStartFor(l, d, s) >= GetAccessGrantStart(l) + d[s].aifsn * Slot
         /\ GetBackoffStartFor(l, d, s) >= d[s].start
         /\ GetBackoffEndFor(l, d, s) \in Nat
         /\ GetBackoffEndFor(l, d, s) >= GetBackoffStartFor(l, d, s)
<1>1. /\ d[s].start \in Nat /\ d[s].slots \in Nat /\ d[s].aifsn \in Nat \ {0}
  BY DEF Contenders, DcfFields
<1>2. d[s].aifsn * Slot \in Nat /\ d[s].slots * Slot \in Nat
  BY <1>1, ProductType, ParametersAssumption
<1>3. d[s].aifsn * Slot >= Slot
  BY <1>1, OneSlotAtLeast, ParametersAssumption
<1>4. GetBackoffStartFor(l, d, s) \in Nat /\ GetBackoffEndFor(l, d, s) \in Nat
  BY BackoffTypes
<1>5. GetAccessGrantStart(l) \in Nat
  BY AccessGrantStartType
<1>6. PICK a \in Nat : a = d[s].aifsn * Slot
  BY <1>2
<1>7. GetBackoffStartFor(l, d, s) = MostRecent(d[s].start, GetAccessGrantStart(l) + a)
  BY <1>6 DEF GetBackoffStartFor
<1>8. /\ GetBackoffStartFor(l, d, s) >= GetAccessGrantStart(l) + a
      /\ GetBackoffStartFor(l, d, s) >= d[s].start
  BY <1>1, <1>5, <1>7 DEF MostRecent
<1>9. GetBackoffEndFor(l, d, s) >= GetBackoffStartFor(l, d, s)
  BY <1>2, <1>4 DEF GetBackoffEndFor
<1> QED  BY <1>2, <1>3, <1>4, <1>6, <1>8, <1>9

\* A grant comes after the time from which access may start.
LEMMA ReadyBounds ==
  ASSUME now \in Nat, NEW l \in LastFields, NEW d \in Contenders, NEW w \in Ready(l, d)
  PROVE  /\ w \in Dcf /\ d[w].requested
         /\ GetBackoffEndFor(l, d, w) <= now
         /\ GetAccessGrantStart(l) + d[w].aifsn * Slot <= now
         /\ GetAccessGrantStart(l) < now
<1>1. w \in Dcf /\ d[w].requested /\ GetBackoffEndFor(l, d, w) <= now
  BY DEF Ready
<1>2. PICK a \in Nat : a = d[w].aifsn * Slot /\ a >= Slot
  BY <1>1, BackoffStartBounds
<1>3. /\ GetBackoffStartFor(l, d, w) \in Nat
      /\ GetBackoffStartFor(l, d, w) >= GetAccessGrantStart(l) + a
      /\ GetBackoffEndFor(l, d, w) \in Nat
      /\ GetBackoffEndFor(l, d, w) >= GetBackoffStartFor(l, d, w)
  BY <1>1, <1>2, BackoffStartBounds
<1>4. GetAccessGrantStart(l) \in Nat
  BY AccessGrantStartType
<1> QED  BY <1>1, <1>2, <1>3, <1>4, ParametersAssumption

\* While a reception goes on access starts later; when it may start, the medium
\* has been idle for a SIFS.
LEMMA IdleAtGrantStart ==
  ASSUME now \in Nat, NEW l \in LastFields, air \in AirFields, Seen(l, air),
         GetAccessGrantStart(l) <= now
  PROVE  /\ ~l.rxing
         /\ PhyFree(air)
         /\ l.ackEnd < now
<1> QED
  BY GrantStartBounds, ParametersAssumption
     DEF Seen, PhyFree, RxAccessStart, LastFields, AirFields

\* Access never starts before the medium has been idle for a SIFS.
LEMMA GrantStartAfterAir ==
  ASSUME now \in Nat, last \in LastFields, air \in AirFields, Seen(last, air)
  PROVE  /\ AirIdleAt \in Nat
         /\ AirIdleAt + Sifs <= GetAccessGrantStart(last)
<1>1. /\ air.rx <= RxAccessStart(last) /\ air.eifs <= RxAccessStart(last)
      /\ air.tx = last.txEnd /\ air.cca = last.busyEnd /\ air.nav = last.navEnd
      /\ air.switch = last.switchEnd
  BY ParametersAssumption DEF Seen, RxAccessStart, LastFields, AirFields
<1>2. /\ air.rx \in Nat /\ air.tx \in Nat /\ air.cca \in Nat /\ air.nav \in Nat
      /\ air.switch \in Nat /\ air.eifs \in Nat
  BY DEF AirFields
<1> QED
  BY <1>1, <1>2, GrantStartBounds, ParametersAssumption DEF AirIdleAt, MostRecent

\* While MacLow has an event to come, but for a block ack timeout, access may not
\* start before that event.
LEMMA ScheduledBlocksGrant ==
  ASSUME now \in Nat, NEW l \in LastFields, NEW a \in AirFields, NEW lw \in LowFields,
         NEW r \in TimerType, Seen(l, a), Scheduled(l, a, lw, r)
  PROVE  /\ lw.phase \notin {"idle", "ba"} => now <= GetAccessGrantStart(l)
         /\ r # NoTimer => now <= GetAccessGrantStart(l)
<1>1. Heard(l) \in Nat /\ Heard(l) <= RxAccessStart(l)
  BY ParametersAssumption DEF Heard, RxAccessStart, LastFields
<1>2. lw.phase \in Phases /\ lw.at \in Nat
  BY DEF LowFields
<1>3. r # NoTimer => r \in Nat
  BY DEF TimerType
<1>4. l.ackEnd \in Nat /\ l.ctsEnd \in Nat /\ l.txEnd \in Nat
  BY DEF LastFields
<1>5. r # NoTimer => now <= GetAccessGrantStart(l)
  BY <1>1, <1>3, GrantStartBounds, ParametersAssumption DEF Scheduled
<1>6. lw.phase \notin {"idle", "ba"} => now <= GetAccessGrantStart(l)
  BY <1>1, <1>2, <1>4, GrantStartBounds, ParametersAssumption DEF Scheduled, Phases
<1> QED  BY <1>5, <1>6

-----------------------------------------------------------------------------
(* Transmission.                                                           *)

\* The manager as UpdateBackoff sees it at a transmission.
Interrupted(l, frame, duration) == TxInterrupts(TimersStarted(l, frame, duration))

\* The timers that a frame starts are the only thing that changes but for a
\* reception that the frame interrupts.
LEMMA TimersStartedFields ==
  ASSUME now \in Nat, NEW l \in LastFields, NEW frame, NEW duration \in Nat
  PROVE  LET t == TimersStarted(l, frame, duration) IN
         /\ t.rxing = l.rxing /\ t.rxStart = l.rxStart /\ t.rxEnd = l.rxEnd /\ t.rxOk = l.rxOk
         /\ t.txEnd = l.txEnd /\ t.busyEnd = l.busyEnd /\ t.navEnd = l.navEnd
         /\ t.switchEnd = l.switchEnd
         /\ t.ackEnd = IF frame = "ack" THEN now + (duration + ResponseTimeout) ELSE l.ackEnd
         /\ t.ctsEnd = IF frame = "rts" THEN now + (duration + ResponseTimeout) ELSE l.ctsEnd
         /\ t.ok = (l.ok /\ (frame = "ack" => l.ackEnd < now))
<1>1. PICK e \in Nat : e = now + (duration + ResponseTimeout)
  BY EnvironmentAssumption
<1>2. CASE frame = "ack"
  <2>1. TimersStarted(l, frame, duration) = [[l EXCEPT !.ackEnd = e] EXCEPT !.ok = l.ok /\ l.ackEnd < now]
    <3>1. TimersStarted(l, frame, duration) = AckTimeoutStarted(l, duration + ResponseTimeout)
      BY <1>2, Zenon DEF TimersStarted
    <3>2. [l EXCEPT !.ackEnd = e].ok = l.ok
      BY DEF LastFields
    <3> QED  BY <1>1, <3>1, <3>2, Zenon DEF AckTimeoutStarted, Asserted
  <2>2. PICK b \in BOOLEAN : b = (l.ok /\ l.ackEnd < now)
    BY DEF LastFields
  <2>3. TimersStarted(l, frame, duration) = [[l EXCEPT !.ackEnd = e] EXCEPT !.ok = b]
    BY <2>1, <2>2, Zenon
  <2>4. b = (l.ok /\ (frame = "ack" => l.ackEnd < now))
    BY <1>2, <2>2
  <2> QED  BY <1>1, <1>2, <2>3, <2>4 DEF LastFields
<1>3. CASE frame = "rts"
  <2>1. TimersStarted(l, frame, duration) = [l EXCEPT !.ctsEnd = e]
    BY <1>1, <1>3 DEF TimersStarted, CtsTimeoutStarted
  <2> QED  BY <1>1, <1>3, <2>1 DEF LastFields
<1>4. CASE frame # "ack" /\ frame # "rts"
  <2>1. TimersStarted(l, frame, duration) = l
    BY <1>4, Zenon DEF TimersStarted
  <2> QED  BY <1>4, <2>1 DEF LastFields
<1> QED  BY <1>2, <1>3, <1>4

\* A transmission ends a reception in progress, which must be younger than a SIFS.
LEMMA InterruptedFields ==
  ASSUME now \in Nat, NEW l \in LastFields, Begun(l), NEW frame, NEW duration \in Nat
  PROVE  LET i == Interrupted(l, frame, duration) IN
         /\ i \in LastFields
         /\ ~i.rxing
         /\ i.rxEnd = IF l.rxing THEN now ELSE l.rxEnd
         /\ i.rxOk = (l.rxing \/ l.rxOk)
         /\ i.txEnd = l.txEnd /\ i.busyEnd = l.busyEnd /\ i.navEnd = l.navEnd
         /\ i.switchEnd = l.switchEnd
         /\ i.ackEnd = IF frame = "ack" THEN now + (duration + ResponseTimeout) ELSE l.ackEnd
         /\ i.ctsEnd = IF frame = "rts" THEN now + (duration + ResponseTimeout) ELSE l.ctsEnd
         /\ i.ok = (l.ok /\ (frame = "ack" => l.ackEnd < now)
                        /\ (l.rxing => now - l.rxStart <= Sifs))
<1> DEFINE t == TimersStarted(l, frame, duration)
<1>1. t \in LastFields /\ Begun(t)
  BY TimersStartedType
<1>2. /\ t.rxing = l.rxing /\ t.rxStart = l.rxStart /\ t.rxEnd = l.rxEnd /\ t.rxOk = l.rxOk
      /\ t.txEnd = l.txEnd /\ t.busyEnd = l.busyEnd /\ t.navEnd = l.navEnd
      /\ t.switchEnd = l.switchEnd
      /\ t.ackEnd = IF frame = "ack" THEN now + (duration + ResponseTimeout) ELSE l.ackEnd
      /\ t.ctsEnd = IF frame = "rts" THEN now + (duration + ResponseTimeout) ELSE l.ctsEnd
      /\ t.ok = (l.ok /\ (frame = "ack" => l.ackEnd < now))
  BY TimersStartedFields
<1>3. Interrupted(l, frame, duration) = TxInterrupts(t)
  BY DEF Interrupted
<1> HIDE DEF t
<1>4. l.rxing \in BOOLEAN /\ l.rxOk \in BOOLEAN
  BY DEF LastFields
<1>5. PICK b \in BOOLEAN : b = (t.ok /\ (t.rxing => now - t.rxStart <= Sifs))
  BY <1>1 DEF LastFields
<1>6. CASE t.rxing
  <2>1. PICK n \in Nat : n = now - t.rxStart
    BY <1>1, <1>6 DEF LastFields, Begun
  <2>2. RxInterrupted(t) = [t EXCEPT !.rxing = FALSE, !.rxEnd = now, !.rxDuration = n, !.rxOk = TRUE]
    BY <1>6, <2>1, Zenon DEF RxInterrupted
  <2>3. RxInterrupted(t).ok = t.ok
    BY <1>1, <2>2 DEF LastFields
  <2>4. TxInterrupts(t) = [RxInterrupted(t) EXCEPT !.ok = b]
    BY <1>5, <2>3, Zenon DEF TxInterrupts, Asserted
  <2>5. TxInterrupts(t) = [[t EXCEPT !.rxing = FALSE, !.rxEnd = now, !.rxDuration = n, !.rxOk = TRUE]
                             EXCEPT !.ok = b]
    BY <2>2, <2>4, Zenon
  <2>6. LET i == TxInterrupts(t) IN
        /\ i \in LastFields
        /\ i.rxing = FALSE /\ i.rxEnd = now /\ i.rxOk = TRUE /\ i.txEnd = t.txEnd
        /\ i.busyEnd = t.busyEnd /\ i.navEnd = t.navEnd /\ i.switchEnd = t.switchEnd
        /\ i.ackEnd = t.ackEnd /\ i.ctsEnd = t.ctsEnd /\ i.ok = b
    BY <1>1, <2>5 DEF LastFields
  <2> QED  BY <1>2, <1>3, <1>4, <1>5, <1>6, <2>6
<1>7. CASE ~t.rxing
  <2>1. TxInterrupts(t) = [t EXCEPT !.ok = b]
    BY <1>5, <1>7, Zenon DEF TxInterrupts, RxInterrupted, Asserted
  <2>2. LET i == TxInterrupts(t) IN
        /\ i \in LastFields
        /\ i.rxing = t.rxing /\ i.rxEnd = t.rxEnd /\ i.rxOk = t.rxOk /\ i.txEnd = t.txEnd
        /\ i.busyEnd = t.busyEnd /\ i.navEnd = t.navEnd /\ i.switchEnd = t.switchEnd
        /\ i.ackEnd = t.ackEnd /\ i.ctsEnd = t.ctsEnd /\ i.ok = b
    BY <1>1, <2>1 DEF LastFields
  <2> QED  BY <1>2, <1>3, <1>4, <1>5, <1>7, <2>2
<1> QED  BY <1>6, <1>7

\* Then the manager remembers the end of the transmission.
LEMMA TransmitLastFields ==
  ASSUME now \in Nat, NEW l \in LastFields, Begun(l), NEW frame, NEW duration \in Nat
  PROVE  LET m == TransmitLast(l, frame, duration)
             i == Interrupted(l, frame, duration)
         IN  /\ m \in LastFields
             /\ ~m.rxing
             /\ m.rxEnd = i.rxEnd /\ m.rxOk = i.rxOk
             /\ m.txEnd = now + duration
             /\ m.busyEnd = i.busyEnd /\ m.navEnd = i.navEnd /\ m.switchEnd = i.switchEnd
             /\ m.ackEnd = i.ackEnd /\ m.ctsEnd = i.ctsEnd /\ m.ok = i.ok
<1> DEFINE i == Interrupted(l, frame, duration)
<1>1. i \in LastFields /\ ~i.rxing
  BY InterruptedFields
<1>2. PICK e \in Nat : e = now + duration
  OBVIOUS
<1>3. TransmitLast(l, frame, duration) = [i EXCEPT !.txEnd = e]
  BY <1>2, Zenon DEF TransmitLast, Interrupted
<1> HIDE DEF i
<1> QED  BY <1>1, <1>2, <1>3 DEF LastFields, i

\* What is in the air then.
LEMMA AirTransmitsFields ==
  ASSUME now \in Nat, air \in AirFields, NEW duration \in Nat
  PROVE  LET a == AirTransmits(duration) IN
         /\ a \in AirFields
         /\ a.tx = now + duration /\ a.rx <= now /\ a.rx <= air.rx
         /\ a.cca = air.cca /\ a.nav = air.nav /\ a.switch = air.switch /\ a.eifs = air.eifs
         /\ a.ok = (air.ok /\ PhyFree(air))
<1>1. PICK r \in Nat : r = Truncated(air.rx) /\ r <= now /\ r <= air.rx
  BY DEF Truncated, AirFields
<1>2. PICK o \in BOOLEAN : o = (air.ok /\ PhyFree(air))
  BY DEF AirFields
<1>3. PICK t \in Nat : t = now + duration
  OBVIOUS
<1>4. AirTransmits(duration) = [air EXCEPT !.tx = t, !.rx = r, !.ok = o]
  BY <1>1, <1>2, <1>3, Zenon DEF AirTransmits, PhyFree
<1> QED  BY <1>1, <1>2, <1>3, <1>4 DEF AirFields

\* The manager sees a transmission that begins while the PHY is free.
LEMMA TransmitSeen ==
  ASSUME now \in Nat, NEW l \in LastFields, Begun(l), air \in AirFields, Seen(l, air),
         NEW frame, NEW duration \in Nat
  PROVE  Seen(TransmitLast(l, frame, duration), AirTransmits(duration))
<1> DEFINE m == TransmitLast(l, frame, duration)
           i == Interrupted(l, frame, duration)
           a == AirTransmits(duration)
<1>1. /\ ~m.rxing /\ m.rxEnd = i.rxEnd /\ m.rxOk = i.rxOk /\ m.txEnd = now + duration
      /\ m.busyEnd = i.busyEnd /\ m.navEnd = i.navEnd /\ m.switchEnd = i.switchEnd
  BY TransmitLastFields
<1>2. /\ i.rxEnd = IF l.rxing THEN now ELSE l.rxEnd
      /\ i.rxOk = (l.rxing \/ l.rxOk)
      /\ i.busyEnd = l.busyEnd /\ i.navEnd = l.navEnd /\ i.switchEnd = l.switchEnd
  BY InterruptedFields
<1>3. /\ a \in AirFields /\ a.tx = now + duration /\ a.rx <= now /\ a.rx <= air.rx
      /\ a.cca = air.cca /\ a.nav = air.nav /\ a.switch = air.switch /\ a.eifs = air.eifs
  BY AirTransmitsFields
<1> HIDE DEF m, i, a
<1>4. a.rx <= m.rxEnd /\ m.rxEnd <= now /\ a.eifs <= RxAccessStart(m)
  BY <1>1, <1>2, <1>3, ParametersAssumption DEF Seen, RxAccessStart, LastFields, AirFields
<1> QED  BY <1>1, <1>2, <1>3, <1>4 DEF Seen, m, a

-----------------------------------------------------------------------------
(* What the methods do to the contenders.                                  *)

\* UpdateBackoff changes backoffs only, and none that is over.
LEMMA UpdateBackoffKeeps ==
  ASSUME now \in Nat, NEW l \in LastFields, NEW d \in Contenders, NEW s \in Dcf
  PROVE  LET u == UpdateBackoff(l, d) IN
         /\ u[s].requested = d[s].requested /\ u[s].ok = d[s].ok
         /\ u[s].aifsn = d[s].aifsn
         /\ d[s].slots = 0 => u[s].slots = 0
<1> DEFINE b == GetBackoffStartFor(l, d, s)
           n == ElapsedSlots(b, d[s].slots)
<1>1. d[s] \in DcfFields /\ b \in Nat
  BY BackoffTypes DEF Contenders
<1>2. CASE b <= now
  <2>1. n \in Nat /\ n <= d[s].slots
    BY <1>1, <1>2, ElapsedSlotsType DEF DcfFields
  <2>2. UpdateBackoff(l, d)[s] = [d[s] EXCEPT !.slots = @ - n, !.start = b + n * Slot]
    BY <1>2 DEF UpdateBackoff
  <2> HIDE DEF n, b
  <2> QED  BY <1>1, <2>1, <2>2 DEF DcfFields
<1>3. CASE ~(b <= now)
  BY <1>3 DEF UpdateBackoff
<1> QED  BY <1>2, <1>3

\* A contender that is granted the medium, with new parameters or without.
Granting(d, a, w) ==
  /\ a \in Contenders
  /\ ~a[w].requested /\ a[w].ok = (d[w].ok /\ d[w].requested) /\ a[w].slots = d[w].slots
  /\ \A s \in Dcf \ {w} : a[s] = d[s]

LEMMA AccessGrantedFields ==
  ASSUME now \in Nat, NEW d \in Contenders, NEW w \in Dcf
  PROVE  /\ Granting(d, NotifyAccessGranted(d, w), w)
         /\ \A p \in [aifsn : Nat \ {0}, cwMin : Nat, cwMax : Nat] :
              Granting(d, SetParameters(NotifyAccessGranted(d, w), w, p), w)
<1> DEFINE g == NotifyAccessGranted(d, w)
<1>1. g \in Contenders
  BY DcfStateTypes
<1>2. /\ ~g[w].requested /\ g[w].ok = (d[w].ok /\ d[w].requested)
      /\ g[w].slots = d[w].slots
      /\ \A s \in Dcf \ {w} : g[s] = d[s]
  BY DEF NotifyAccessGranted, Contenders, DcfFields
<1>3. ASSUME NEW p \in [aifsn : Nat \ {0}, cwMin : Nat, cwMax : Nat]
      PROVE  Granting(d, SetParameters(g, w, p), w)
  <2>1. SetParameters(g, w, p) \in Contenders
    BY <1>1, SetParametersType
  <2> HIDE DEF g
  <2>2. /\ SetParameters(g, w, p)[w].requested = g[w].requested
        /\ SetParameters(g, w, p)[w].ok = g[w].ok
        /\ SetParameters(g, w, p)[w].slots = g[w].slots
        /\ \A s \in Dcf \ {w} : SetParameters(g, w, p)[s] = g[s]
    BY <1>1 DEF SetParameters, Contenders, DcfFields
  <2> QED  BY <1>2, <2>1, <2>2 DEF Granting
<1>4. Granting(d, g, w)
  <2> HIDE DEF g
  <2> QED  BY <1>1, <1>2 DEF Granting
<1> QED  BY <1>3, <1>4

\* The losers of an internal collision have no slots left to lose.
LEMMA CollisionFields ==
  ASSUME now \in Nat, NEW d \in Contenders, NEW losers \in SUBSET Dcf,
         NEW draws \in [losers -> Nat], \A s \in losers : d[s].slots = 0, NEW s \in Dcf
  PROVE  LET c == InternalCollisions(d, draws) IN
         /\ c[s].requested = d[s].requested /\ c[s].ok = d[s].ok
         /\ s \notin losers => c[s] = d[s]
<1>1. CASE s \in losers
  <2>1. InternalCollisions(d, draws)[s] = StartBackoffNow(d, s, draws[s])[s]
    BY <1>1 DEF InternalCollisions
  <2>2. draws[s] \in Nat /\ d[s] \in DcfFields
    BY <1>1 DEF Contenders
  <2>3. /\ StartBackoffNow(d, s, draws[s])[s].requested = d[s].requested
        /\ StartBackoffNow(d, s, draws[s])[s].ok = (d[s].ok /\ d[s].slots = 0)
    BY <2>2 DEF StartBackoffNow, Contenders, DcfFields
  <2>4. d[s].ok \in BOOLEAN
    BY <2>2 DEF DcfFields
  <2> QED  BY <1>1, <2>1, <2>3, <2>4
<1>2. CASE s \notin losers
  BY <1>2 DEF InternalCollisions
<1> QED  BY <1>1, <1>2

-----------------------------------------------------------------------------
(* Access.                                                                 *)

\* The three outcomes of DoGrantAccess.
Nothing(l, d, lw, h, ra) ==
  /\ dcf' = d /\ last' = l /\ low' = lw /\ holding' = h /\ respondAt' = ra
  /\ UNCHANGED air

Declined(l, a, draws, lw, h, w, ra) ==
  /\ w \notin h
  /\ dcf' = InternalCollisions(a, draws) /\ last' = l /\ low' = lw /\ holding' = h
  /\ respondAt' = ra
  /\ UNCHANGED air

Transmitted(l, a, draws, h, w, frame, duration) ==
  /\ dcf' = InternalCollisions(TransmitDcf(l, a, frame, duration), draws)
  /\ last' = TransmitLast(l, frame, duration)
  /\ low' = Exchange(w, frame, EventOf(frame, duration))
  /\ respondAt' = NoTimer
  /\ holding' = h \cup {w}
  /\ air' = AirTransmits(duration)

LEMMA GrantAccessForms ==
  ASSUME Typed, NEW l \in LastFields, NEW d \in Contenders, NEW tm, NEW lw, NEW h,
         NEW ra, GrantAccess(l, d, tm, lw, h, ra)
  PROVE  \/ Nothing(l, d, lw, h, ra)
         \/ \E w \in Ready(l, d) : \E draws \in [Ready(l, d) \ {w} -> Nat], a \in Contenders :
              /\ Granting(d, a, w)
              /\ \/ Declined(l, a, draws, lw, h, w, ra)
                 \/ \E frame \in FirstFrames, duration \in TxDurations :
                      Transmitted(l, a, draws, h, w, frame, duration)
<1>1. CASE /\ dcf' = d /\ last' = l /\ low' = lw /\ holding' = h
           /\ respondAt' = ra /\ UNCHANGED air
  BY <1>1 DEF Nothing
<1>2. ASSUME NEW w \in Ready(l, d), NEW draws \in Draws(d, Ready(l, d) \ {w}),
             \/ Transmit(l, NotifyAccessGranted(d, w), w, draws, tm, h)
             \/ \E p \in NextParameters(d, w) :
                  Transmit(l, SetParameters(NotifyAccessGranted(d, w), w, p), w, draws, tm, h)
             \/ Decline(l, NotifyAccessGranted(d, w), w, draws, tm, lw, h, ra)
      PROVE  \E r \in [Ready(l, d) \ {w} -> Nat], a \in Contenders :
               /\ Granting(d, a, w)
               /\ \/ Declined(l, a, r, lw, h, w, ra)
                  \/ \E frame \in FirstFrames, duration \in TxDurations :
                       Transmitted(l, a, r, h, w, frame, duration)
  <2> DEFINE g == NotifyAccessGranted(d, w)
  <2>1. w \in Dcf /\ Ready(l, d) \ {w} \in SUBSET Dcf
    BY DEF Ready
  <2>2. draws \in [Ready(l, d) \ {w} -> Nat]
    BY <2>1, DrawsType
  <2>3. /\ Granting(d, g, w)
        /\ \A p \in [aifsn : Nat \ {0}, cwMin : Nat, cwMax : Nat] :
             Granting(d, SetParameters(g, w, p), w)
    BY <2>1, AccessGrantedFields DEF Typed
  <2>4. ASSUME NEW a, Transmit(l, a, w, draws, tm, h)
        PROVE  \E frame \in FirstFrames, duration \in TxDurations :
                 Transmitted(l, a, draws, h, w, frame, duration)
    BY <2>4 DEF Transmit, Transmitted
  <2>5. Decline(l, g, w, draws, tm, lw, h, ra) => Declined(l, g, draws, lw, h, w, ra)
    BY DEF Decline, Declined
  <2>6. NextParameters(d, w) \subseteq [aifsn : Nat \ {0}, cwMin : Nat, cwMax : Nat]
    BY EnvironmentAssumption DEF NextParameters
  <2> HIDE DEF g
  <2>7. CASE Transmit(l, g, w, draws, tm, h) \/ Decline(l, g, w, draws, tm, lw, h, ra)
    <3>1. g \in Contenders
      BY <2>3 DEF Granting
    <3> QED  BY <2>2, <2>3, <2>4, <2>5, <2>7, <3>1
  <2>8. ASSUME NEW p \in NextParameters(d, w),
               Transmit(l, SetParameters(g, w, p), w, draws, tm, h)
        PROVE  \E r \in [Ready(l, d) \ {w} -> Nat], a \in Contenders :
                 /\ Granting(d, a, w)
                 /\ \E frame \in FirstFrames, duration \in TxDurations :
                      Transmitted(l, a, r, h, w, frame, duration)
    <3>1. Granting(d, SetParameters(g, w, p), w)
      BY <2>3, <2>6
    <3>2. SetParameters(g, w, p) \in Contenders
      BY <3>1 DEF Granting
    <3> QED  BY <2>2, <2>4, <2>8, <3>1, <3>2
  <2> QED  BY <1>2, <2>7, <2>8 DEF g
<1> QED  BY <1>1, <1>2 DEF GrantAccess

\* What a grant leaves of the contenders: only the winner's request is taken, and
\* whoever waits for nothing keeps waiting for nothing.
LEMMA CollidedFields ==
  ASSUME now \in Nat, NEW l \in LastFields, Begun(l), NEW d \in Contenders, Settled(l, d),
         NEW w \in Ready(l, d), NEW draws \in [Ready(l, d) \ {w} -> Nat],
         NEW a \in Contenders, Granting(d, a, w),
         NEW e, \/ e = a
                \/ \E frame \in FirstFrames, duration \in TxDurations :
                     e = TransmitDcf(l, a, frame, duration),
         NEW s \in Dcf
  PROVE  LET c == InternalCollisions(e, draws) IN
         /\ c[s].requested = (d[s].requested /\ s # w)
         /\ d[s].ok => c[s].ok
         /\ ~d[s].requested /\ d[s].slots = 0 => c[s].slots = 0
         /\ s = w => c[s].slots = 0
<1> DEFINE losers == Ready(l, d) \ {w}
<1>1. w \in Dcf /\ losers \in SUBSET Dcf /\ \A x \in Ready(l, d) : d[x].slots = 0 /\ d[x].requested
  BY DEF Ready, Settled
<1>2. \A x \in losers : a[x] = d[x]
  BY <1>1 DEF Granting
<1>3. /\ e \in Contenders
      /\ \A x \in Dcf : /\ e[x].requested = a[x].requested /\ e[x].ok = a[x].ok
                        /\ a[x].slots = 0 => e[x].slots = 0
  <2>1. CASE e = a
    BY <2>1
  <2>2. ASSUME NEW frame \in FirstFrames, NEW duration \in TxDurations,
               e = TransmitDcf(l, a, frame, duration)
        PROVE  /\ e \in Contenders
               /\ \A x \in Dcf : /\ e[x].requested = a[x].requested /\ e[x].ok = a[x].ok
                                 /\ a[x].slots = 0 => e[x].slots = 0
    <3>1. duration \in Nat
      BY EnvironmentAssumption
    <3>2. Interrupted(l, frame, duration) \in LastFields
      BY <3>1, InterruptedFields
    <3>3. e = UpdateBackoff(Interrupted(l, frame, duration), a)
      BY <2>2 DEF TransmitDcf, Interrupted
    <3>4. e \in Contenders
      BY <3>2, <3>3, UpdateBackoffType
    <3> QED  BY <3>2, <3>3, <3>4, UpdateBackoffKeeps
  <2> QED  BY <2>1, <2>2
<1>4. \A x \in losers : e[x].slots = 0
  BY <1>1, <1>2, <1>3
<1> HIDE DEF losers
<1>5. draws \in [losers -> Nat]
  BY DEF losers
<1>6. LET c == InternalCollisions(e, draws) IN
      /\ c[s].requested = e[s].requested /\ c[s].ok = e[s].ok
      /\ s \notin losers => c[s] = e[s]
  BY <1>1, <1>3, <1>4, <1>5, CollisionFields
<1>7. s \in losers => d[s].requested /\ s # w
  BY <1>1 DEF losers
<1>8. /\ d[s].requested \in BOOLEAN /\ d[s].ok \in BOOLEAN
      /\ a[s].requested \in BOOLEAN /\ a[s].ok \in BOOLEAN
  BY DEF Contenders, DcfFields
<1>9. CASE s = w
  <2>1. ~a[s].requested /\ a[s].ok = d[s].ok /\ a[s].slots = 0
    BY <1>1, <1>8, <1>9 DEF Granting
  <2> QED  BY <1>3, <1>6, <1>7, <1>8, <1>9, <2>1
<1>10. CASE s # w
  <2>1. a[s] = d[s]
    BY <1>10 DEF Granting
  <2> QED  BY <1>3, <1>6, <1>7, <1>8, <1>10, <2>1
<1> QED  BY <1>9, <1>10

\* A first frame is granted the medium one SIFS after the manager last knew it
\* busy: what it schedules, the manager remembers.
LEMMA FirstFrameScheduled ==
  ASSUME now \in Nat, NEW l \in LastFields, Begun(l), air \in AirFields, Seen(l, air),
         GetAccessGrantStart(l) <= now,
         NEW frame \in FirstFrames, NEW duration \in TxDurations, NEW w \in Dcf
  PROVE  /\ Scheduled(TransmitLast(l, frame, duration), AirTransmits(duration),
                      Exchange(w, frame, EventOf(frame, duration)), NoTimer)
         /\ TransmitLast(l, frame, duration).ok = l.ok
         /\ AirTransmits(duration).ok = air.ok
<1> DEFINE m == TransmitLast(l, frame, duration)
           i == Interrupted(l, frame, duration)
           lw == Exchange(w, frame, EventOf(frame, duration))
<1>1. /\ duration \in Nat \ {0} /\ frame \in {"rts", "ack", "ba", "noack"}
      /\ ResponseTimeout \in Nat /\ BlockAckTimeout \in Nat
  BY EnvironmentAssumption
<1>2. ~l.rxing /\ PhyFree(air) /\ l.ackEnd < now
  BY IdleAtGrantStart
<1>3. m.txEnd = now + duration /\ m.ackEnd = i.ackEnd /\ m.ctsEnd = i.ctsEnd /\ m.ok = i.ok
  BY <1>1, TransmitLastFields
<1>4. /\ i.ackEnd = IF frame = "ack" THEN now + (duration + ResponseTimeout) ELSE l.ackEnd
      /\ i.ctsEnd = IF frame = "rts" THEN now + (duration + ResponseTimeout) ELSE l.ctsEnd
      /\ i.ok = (l.ok /\ (frame = "ack" => l.ackEnd < now)
                     /\ (l.rxing => now - l.rxStart <= Sifs))
  BY <1>1, InterruptedFields
<1>5. lw.phase = frame /\ lw.at = EventOf(frame, duration)
  BY DEF Exchange
<1>6. AirTransmits(duration).ok = (air.ok /\ PhyFree(air))
  BY <1>1, AirTransmitsFields
<1>7. l.ok \in BOOLEAN /\ air.ok \in BOOLEAN /\ l.ackEnd \in Nat
  BY DEF LastFields, AirFields
<1> HIDE DEF m, i, lw
<1>8. CASE frame = "ack"
  <2>1. lw.at = now + duration + ResponseTimeout
    BY <1>5, <1>8 DEF EventOf
  <2> QED  BY <1>1, <1>2, <1>3, <1>4, <1>5, <1>6, <1>7, <1>8, <2>1 DEF Scheduled, m, lw
<1>9. CASE frame = "rts"
  <2>1. lw.at = now + duration + ResponseTimeout
    BY <1>5, <1>9 DEF EventOf
  <2> QED  BY <1>1, <1>2, <1>3, <1>4, <1>5, <1>6, <1>7, <1>9, <2>1 DEF Scheduled, m, lw
<1>10. CASE frame = "ba"
  <2>1. lw.at = now + duration + BlockAckTimeout
    BY <1>5, <1>10 DEF EventOf
  <2> QED  BY <1>1, <1>2, <1>3, <1>4, <1>5, <1>6, <1>7, <1>10, <2>1 DEF Scheduled, m, lw
<1>11. CASE frame = "noack"
  <2>1. lw.at = now + duration
    BY <1>5, <1>11 DEF EventOf
  <2> QED  BY <1>1, <1>2, <1>3, <1>4, <1>5, <1>6, <1>7, <1>11, <2>1 DEF Scheduled, m, lw
<1> QED  BY <1>1, <1>8, <1>9, <1>10, <1>11

\* DoGrantAccess keeps the manager, MacLow and the medium consistent.
LEMMA GrantAccessConsistent ==
  ASSUME Typed, NEW l \in LastFields, Begun(l), NEW d \in Contenders, Settled(l, d),
         NEW tm, NEW lw \in LowFields, NEW h \in SUBSET Dcf, NEW ra \in TimerType,
         Consistent(l, air, d, lw, ra, h),
         GrantAccess(l, d, tm, lw, h, ra)
  PROVE  Consistent(last', air', dcf', low', respondAt', holding')
<1>1. now \in Nat /\ air \in AirFields
  BY DEF Typed, Local
<1>2. CASE Nothing(l, d, lw, h, ra)
  BY <1>2 DEF Nothing
<1>3. ASSUME NEW w \in Ready(l, d), NEW draws \in [Ready(l, d) \ {w} -> Nat],
             NEW a \in Contenders, Granting(d, a, w),
             Declined(l, a, draws, lw, h, w, ra)
      PROVE  Consistent(last', air', dcf', low', respondAt', holding')
  <2>1. /\ w \notin h /\ dcf' = InternalCollisions(a, draws) /\ last' = l /\ low' = lw
        /\ holding' = h /\ respondAt' = ra /\ UNCHANGED air
    BY <1>3 DEF Declined
  <2>2. \A s \in Dcf : /\ dcf'[s].requested = (d[s].requested /\ s # w)
                       /\ d[s].ok => dcf'[s].ok
                       /\ ~d[s].requested /\ d[s].slots = 0 => dcf'[s].slots = 0
    BY <1>1, <1>3, <2>1, CollidedFields
  <2>3. lw.owner \in Dcf
    BY DEF LowFields
  <2>4. Owned(dcf', low', holding')
    BY <2>1, <2>2, <2>3 DEF Consistent, Owned
  <2>5. Correct(last', air', dcf')
    BY <2>1, <2>2 DEF Consistent, Correct
  <2>6. Pending(dcf', low', holding')
    BY <2>1, <2>2 DEF Consistent, Pending
  <2> QED  BY <2>1, <2>4, <2>5, <2>6 DEF Consistent
<1>4. ASSUME NEW w \in Ready(l, d), NEW draws \in [Ready(l, d) \ {w} -> Nat],
             NEW a \in Contenders, Granting(d, a, w),
             NEW frame \in FirstFrames, NEW duration \in TxDurations,
             Transmitted(l, a, draws, h, w, frame, duration)
      PROVE  Consistent(last', air', dcf', low', respondAt', holding')
  <2>1. /\ dcf' = InternalCollisions(TransmitDcf(l, a, frame, duration), draws)
        /\ last' = TransmitLast(l, frame, duration)
        /\ low' = Exchange(w, frame, EventOf(frame, duration))
        /\ respondAt' = NoTimer /\ holding' = h \cup {w} /\ air' = AirTransmits(duration)
    BY <1>4 DEF Transmitted
  <2>2. \A s \in Dcf : /\ dcf'[s].requested = (d[s].requested /\ s # w)
                       /\ d[s].ok => dcf'[s].ok
                       /\ s = w => dcf'[s].slots = 0
    BY <1>1, <1>4, <2>1, CollidedFields
  <2>3. w \in Dcf /\ GetAccessGrantStart(l) < now /\ GetAccessGrantStart(l) \in Nat
    BY <1>1, ReadyBounds, AccessGrantStartType
  <2>4. duration \in Nat
    BY EnvironmentAssumption
  <2>5. Seen(last', air')
    BY <1>1, <2>1, <2>4, TransmitSeen DEF Consistent
  <2>6. /\ Scheduled(last', air', low', respondAt')
        /\ last'.ok = l.ok /\ air'.ok = air.ok
    BY <1>1, <2>1, <2>3, FirstFrameScheduled DEF Consistent
  <2>7. low'.phase = frame /\ low'.owner = w
    BY <2>1 DEF Exchange
  <2>8. Owned(dcf', low', holding')
    BY <2>1, <2>2, <2>3, <2>7 DEF Owned
  <2>9. Correct(last', air', dcf')
    BY <2>2, <2>6 DEF Consistent, Correct
  <2>10. Pending(dcf', low', holding')
    <3> SUFFICES ASSUME "ba" \notin FirstFrames
                 PROVE  /\ low'.phase # "ba"
                        /\ \A s \in holding' : dcf'[s].requested
                                               \/ (low'.phase # "idle" /\ low'.owner = s)
      BY DEF Pending
    <3>1. lw.phase = "idle"
      BY <1>1, <2>3, ScheduledBlocksGrant DEF Consistent, Pending
    <3>2. frame # "ba" /\ frame # "idle"
      BY EnvironmentAssumption
    <3> QED  BY <2>1, <2>2, <2>7, <3>1, <3>2 DEF Consistent, Pending
  <2> QED  BY <2>5, <2>6, <2>8, <2>9, <2>10 DEF Consistent
<1> QED  BY <1>2, <1>3, <1>4, GrantAccessForms

\* A request is noted of a contender that has none, and draws a backoff only when
\* none is left.
LEMMA RequestConsistent ==
  ASSUME Typed, NEW l \in LastFields, Begun(l), NEW d \in Contenders, NEW s \in Dcf,
         NEW tm, NEW lw \in LowFields, NEW h \in SUBSET Dcf, NEW ra \in TimerType,
         Seen(l, air), Scheduled(l, air, lw, ra), Owned(d, lw, h), Correct(l, air, d),
         Pending(d, lw, h \ {s}),
         ~d[s].requested, lw.phase # "idle" => lw.owner # s \/ s \in Originators,
         Request(l, d, s, tm, lw, h, ra)
  PROVE  Consistent(last', air', dcf', low', respondAt', holding')
<1> DEFINE u == UpdateBackoff(l, d)
           d2 == NotifyAccessRequested(u, s)
<1>1. now \in Nat /\ lw.owner \in Dcf
  BY DEF Typed, Local, LowFields
<1>2. u \in Contenders /\ Settled(l, u)
  BY <1>1, UpdateBackoffType, UpdateBackoffSettles
<1>3. \A x \in Dcf : /\ u[x].requested = d[x].requested /\ u[x].ok = d[x].ok
                     /\ d[x].slots = 0 => u[x].slots = 0
  BY <1>1, UpdateBackoffKeeps
<1> HIDE DEF u
<1>4. d2 \in Contenders /\ Settled(l, d2)
  BY <1>1, <1>2, DcfStateTypes, RequestSettles
<1>5. /\ d2[s].requested /\ d2[s].ok = (u[s].ok /\ ~u[s].requested) /\ d2[s].slots = u[s].slots
      /\ \A x \in Dcf \ {s} : d2[x] = u[x]
  BY <1>2 DEF NotifyAccessRequested, Contenders, DcfFields
<1> HIDE DEF d2
<1>6. Consistent(l, air, d2, lw, ra, h)
  <2>1. Owned(d2, lw, h)
    BY <1>1, <1>3, <1>5 DEF Owned
  <2>2. Correct(l, air, d2)
    <3>1. u[s].ok \in BOOLEAN /\ u[s].requested \in BOOLEAN
      BY <1>2 DEF Contenders, DcfFields
    <3> QED  BY <1>3, <1>5, <3>1 DEF Correct
  <2>3. Pending(d2, lw, h)
    BY <1>3, <1>5 DEF Pending
  <2> QED  BY <2>1, <2>2, <2>3 DEF Consistent
<1>7. ASSUME NEW r \in 0..d2[s].cw, d2[s].slots = 0
      PROVE  /\ StartBackoffNow(d2, s, r) \in Contenders
             /\ Settled(l, StartBackoffNow(d2, s, r))
             /\ Consistent(l, air, StartBackoffNow(d2, s, r), lw, ra, h)
  <2> DEFINE e == StartBackoffNow(d2, s, r)
  <2>1. r \in Nat /\ d2[s] \in DcfFields
    BY <1>4 DEF Contenders, DcfFields
  <2>2. e \in Contenders /\ Settled(l, e)
    BY <1>1, <1>4, <2>1, DcfStateTypes, RequestSettles
  <2>3. /\ e[s].requested = d2[s].requested /\ e[s].ok = (d2[s].ok /\ d2[s].slots = 0)
        /\ \A x \in Dcf \ {s} : e[x] = d2[x]
    BY <1>4, <2>1 DEF StartBackoffNow, Contenders, DcfFields
  <2> HIDE DEF e
  <2>4. Owned(e, lw, h)
    BY <1>1, <1>5, <1>6, <2>3 DEF Consistent, Owned
  <2>5. Correct(l, air, e)
    <3>1. d2[s].ok \in BOOLEAN
      BY <2>1 DEF DcfFields
    <3> QED  BY <1>6, <1>7, <2>3, <3>1 DEF Consistent, Correct
  <2>6. Pending(e, lw, h)
    BY <1>6, <2>3 DEF Consistent, Pending
  <2>7. Consistent(l, air, e, lw, ra, h)
    BY <1>6, <2>4, <2>5, <2>6 DEF Consistent
  <2> QED  BY <2>2, <2>7 DEF e
<1>8. \/ GrantAccess(l, d2, tm, lw, h, ra)
      \/ \E r \in 0..d2[s].cw : d2[s].slots = 0 /\ GrantAccess(l, StartBackoffNow(d2, s, r), tm, lw, h, ra)
  BY DEF Request, d2, u
<1> QED  BY <1>4, <1>6, <1>7, <1>8, GrantAccessConsistent

-----------------------------------------------------------------------------
(* Exchanges.                                                              *)

\* The end of an exchange: its owner draws a backoff, and asks for access again
\* if it still holds the packet, unless it has asked already.
LEMMA AfterExchangeConsistent ==
  ASSUME Typed, NEW l \in LastFields, Begun(l), NEW d \in Contenders, NEW s \in Dcf,
         NEW tm, NEW h \in SUBSET Dcf,
         Consistent(l, air, d, Idle, respondAt, h \ {s}),
         s \in Originators \/ (~d[s].requested /\ d[s].slots = 0),
         AfterExchange(l, d, s, tm, h)
  PROVE  Consistent(last', air', dcf', low', respondAt', holding')
<1>1. PICK r \in 0..d[s].cw, again \in BOOLEAN :
        LET d2 == StartBackoffNow(d, s, r)
            restart == again /\ ~d2[s].requested
        IN  /\ s \in h => again
            /\ \/ restart /\ Request(l, d2, s, tm, Idle, h, respondAt)
               \/ /\ ~restart
                  /\ dcf' = d2 /\ last' = l /\ low' = Idle /\ holding' = h
                  /\ UNCHANGED <<respondAt, air>>
  BY DEF AfterExchange
<1> DEFINE d2 == StartBackoffNow(d, s, r)
<1>2. r \in Nat /\ now \in Nat
  BY DEF Contenders, DcfFields, Typed
<1>3. d2 \in Contenders
  BY <1>2, DcfStateTypes
<1>4. /\ d2[s].requested = d[s].requested /\ d2[s].ok = (d[s].ok /\ d[s].slots = 0)
      /\ \A x \in Dcf \ {s} : d2[x] = d[x]
  BY <1>2 DEF StartBackoffNow, Contenders, DcfFields
<1> HIDE DEF d2
<1>5. Consistent(l, air, d2, Idle, respondAt, h \ {s})
  <2>1. d[s].ok \in BOOLEAN
    BY DEF Contenders, DcfFields
  <2>2. Correct(l, air, d2)
    BY <1>4, <2>1 DEF Consistent, Correct
  <2>3. Owned(d2, Idle, h \ {s}) /\ Pending(d2, Idle, h \ {s})
    BY <1>4 DEF Consistent, Owned, Pending, Idle
  <2> QED  BY <2>2, <2>3 DEF Consistent
<1>6. CASE Request(l, d2, s, tm, Idle, h, respondAt) /\ ~d2[s].requested
  <2>1. /\ Seen(l, air) /\ Scheduled(l, air, Idle, respondAt) /\ Correct(l, air, d2)
        /\ Pending(d2, Idle, h \ {s}) /\ Owned(d2, Idle, h) /\ Idle.phase = "idle"
        /\ respondAt \in TimerType
    BY <1>5 DEF Consistent, Owned, Idle, Typed, Local
  <2> QED  BY <1>3, <1>6, <2>1, IdleType, RequestConsistent
<1>7. CASE /\ ~(again /\ ~d2[s].requested)
           /\ dcf' = d2 /\ last' = l /\ low' = Idle /\ holding' = h
           /\ UNCHANGED <<respondAt, air>>
  <2>1. s \in h => d2[s].requested
    BY <1>1, <1>4, <1>7
  <2>2. Owned(d2, Idle, h) /\ Pending(d2, Idle, h)
    BY <1>5, <2>1 DEF Consistent, Owned, Pending, Idle
  <2> QED  BY <1>5, <1>7, <2>2 DEF Consistent
<1> QED  BY <1>1, <1>6, <1>7 DEF d2

\* Its two outcomes, with what a reception changed of what the manager remembers.
LEMMA OutcomeConsistent ==
  ASSUME Typed, Consistent(last, air, dcf, low, respondAt, holding), low.phase # "idle",
         NEW l \in LastFields, Begun(l), l.ok = last.ok,
         Seen(l, air), Scheduled(l, air, Idle, respondAt),
         NEW tm, Done(l, tm) \/ (l = last /\ Retry)
  PROVE  Consistent(last', air', dcf', low', respondAt', holding')
<1> DEFINE s == low.owner
<1>1. /\ s \in Dcf /\ dcf \in Contenders /\ now \in Nat /\ holding \in SUBSET Dcf
  BY DEF Typed, Local, LowFields
<1>2. /\ s \in Originators \/ (~dcf[s].requested /\ dcf[s].slots = 0)
      /\ Correct(last, air, dcf) /\ Pending(dcf, low, holding)
  BY DEF Consistent, Owned
<1>3. ASSUME NEW d \in Contenders,
             \A x \in Dcf : /\ d[x].requested = dcf[x].requested /\ d[x].ok = dcf[x].ok
                            /\ d[x].slots = dcf[x].slots
      PROVE  /\ Consistent(l, air, d, Idle, respondAt, holding \ {s})
             /\ s \in Originators \/ (~d[s].requested /\ d[s].slots = 0)
  <2>1. Owned(d, Idle, holding \ {s})
    BY DEF Owned, Idle
  <2>2. Correct(l, air, d)
    BY <1>2, <1>3 DEF Correct
  <2>3. Pending(d, Idle, holding \ {s})
    BY <1>1, <1>2, <1>3 DEF Pending, Idle
  <2> QED  BY <1>1, <1>2, <1>3, <2>1, <2>2, <2>3 DEF Consistent
<1>4. CASE Done(l, tm)
  <2> DEFINE d == ResetCw(dcf, s)
  <2>1. d \in Contenders
    BY <1>1, DcfStateTypes
  <2>2. \A x \in Dcf : /\ d[x].requested = dcf[x].requested /\ d[x].ok = dcf[x].ok
                       /\ d[x].slots = dcf[x].slots
    BY <1>1 DEF ResetCw, Contenders, DcfFields
  <2>3. AfterExchange(l, d, s, tm, holding \ {s})
    BY <1>4 DEF Done
  <2> HIDE DEF d, s
  <2>4. /\ Consistent(l, air, d, Idle, respondAt, holding \ {s})
        /\ s \in Originators \/ (~d[s].requested /\ d[s].slots = 0)
    BY <1>3, <2>1, <2>2
  <2>5. (holding \ {s}) \ {s} = holding \ {s} /\ holding \ {s} \in SUBSET Dcf
    BY <1>1
  <2> QED  BY <1>1, <2>1, <2>3, <2>4, <2>5, AfterExchangeConsistent
<1>5. CASE l = last /\ Retry
  <2> DEFINE d == UpdateFailedCw(dcf, s)
  <2>1. d \in Contenders
    BY <1>1, DcfStateTypes
  <2>2. \A x \in Dcf : /\ d[x].requested = dcf[x].requested /\ d[x].ok = dcf[x].ok
                       /\ d[x].slots = dcf[x].slots
    <3>1. PICK w : w = IF 2 * (dcf[s].cw + 1) - 1 <= dcf[s].cwMax
                       THEN 2 * (dcf[s].cw + 1) - 1 ELSE dcf[s].cwMax
      OBVIOUS
    <3>2. d = [dcf EXCEPT ![s].cw = w]
      BY <3>1, Zenon DEF UpdateFailedCw
    <3> QED  BY <1>1, <3>2 DEF Contenders, DcfFields
  <2>3. AfterExchange(l, d, s, timer, holding)
    BY <1>5 DEF Retry
  <2> HIDE DEF d, s
  <2>4. /\ Consistent(l, air, d, Idle, respondAt, holding \ {s})
        /\ s \in Originators \/ (~d[s].requested /\ d[s].slots = 0)
    BY <1>3, <2>1, <2>2
  <2> QED  BY <1>1, <2>1, <2>3, <2>4, AfterExchangeConsistent
<1> QED  BY <1>4, <1>5

-----------------------------------------------------------------------------
(* The steps.                                                              *)

\* The state is consistent.
StateConsistent == Consistent(last, air, dcf, low, respondAt, holding)

\* UpdateBackoff changes nothing that consistency is about.
LEMMA UpdateConsistent ==
  ASSUME Typed, StateConsistent, NEW l \in LastFields,
         NEW d \in Contenders,
         \A s \in Dcf : /\ d[s].requested = dcf[s].requested /\ d[s].ok = dcf[s].ok
                        /\ dcf[s].slots = 0 => d[s].slots = 0
  PROVE  LET u == UpdateBackoff(l, d) IN
         /\ u \in Contenders
         /\ \A s \in Dcf : /\ u[s].requested = dcf[s].requested /\ u[s].ok = dcf[s].ok
                           /\ dcf[s].slots = 0 => u[s].slots = 0
         /\ Owned(u, low, holding)
         /\ Pending(u, low, holding)
         /\ Correct(last, air, u)
<1> DEFINE u == UpdateBackoff(l, d)
<1>1. now \in Nat /\ low.owner \in Dcf /\ holding \in SUBSET Dcf
  BY DEF Typed, Local, LowFields
<1>2. u \in Contenders
  BY <1>1, UpdateBackoffType
<1>3. \A s \in Dcf : /\ u[s].requested = dcf[s].requested /\ u[s].ok = dcf[s].ok
                     /\ dcf[s].slots = 0 => u[s].slots = 0
  BY <1>1, UpdateBackoffKeeps
<1> HIDE DEF u
<1>4. Owned(u, low, holding) /\ Pending(u, low, holding) /\ Correct(last, air, u)
  BY <1>1, <1>3 DEF StateConsistent, Consistent, Owned, Pending, Correct
<1> QED  BY <1>2, <1>3, <1>4 DEF u

\* At the initial state nothing has happened.
LEMMA InitConsistent == Init => StateConsistent
<1> SUFFICES ASSUME Init PROVE StateConsistent
  OBVIOUS
<1>1. Seen(last, air)
  BY ParametersAssumption DEF Init, DcfInit, Seen, RxAccessStart
<1>2. Scheduled(last, air, low, respondAt) /\ Owned(dcf, low, holding)
  BY DEF Init, Idle, NoTimer, Scheduled, Owned
<1>3. Correct(last, air, dcf)
  BY DEF Init, DcfInit, Correct
<1>4. Pending(dcf, low, holding)
  BY DEF Init, Idle, Pending
<1> QED  BY <1>1, <1>2, <1>3, <1>4 DEF StateConsistent, Consistent

\* The steps that go through DoGrantAccess, with no exchange coming to its end.
LEMMA AccessStepsConsistent ==
  ASSUME Inductive, StateConsistent, (\E s \in Dcf : RequestAccess(s)) \/ AccessTimeout
  PROVE  Consistent(last', air', dcf', low', respondAt', holding')
<1>1. /\ Typed /\ last \in LastFields /\ Begun(last) /\ dcf \in Contenders /\ now \in Nat
      /\ low \in LowFields /\ holding \in SUBSET Dcf /\ respondAt \in TimerType
  BY DEF Inductive, Typed, Local
<1>2. ASSUME NEW s \in Dcf, RequestAccess(s)
      PROVE  Consistent(last', air', dcf', low', respondAt', holding')
  <2>1. /\ s \notin holding /\ ~dcf[s].requested
        /\ Request(last, dcf, s, timer, low, holding, respondAt)
    BY <1>2 DEF RequestAccess
  <2>2. holding \ {s} = holding
    BY <2>1
  <2>3. low.phase # "idle" => low.owner # s
    BY <2>1 DEF StateConsistent, Consistent, Owned
  <2>4. /\ Seen(last, air) /\ Scheduled(last, air, low, respondAt)
        /\ Owned(dcf, low, holding) /\ Correct(last, air, dcf)
        /\ Pending(dcf, low, holding \ {s})
    BY <2>2 DEF StateConsistent, Consistent
  <2> QED  BY <1>1, <2>1, <2>3, <2>4, RequestConsistent
<1>3. CASE AccessTimeout
  <2> DEFINE u == UpdateBackoff(last, dcf)
  <2>1. GrantAccess(last, u, NoTimer, low, holding, respondAt)
    BY <1>3 DEF AccessTimeout
  <2>2. u \in Contenders /\ Settled(last, u)
    BY <1>1, UpdateBackoffType, UpdateBackoffSettles
  <2>3. Consistent(last, air, u, low, respondAt, holding)
    BY <1>1, UpdateConsistent DEF StateConsistent, Consistent
  <2> HIDE DEF u
  <2> QED  BY <1>1, <2>1, <2>2, <2>3, GrantAccessConsistent
<1> QED  BY <1>2, <1>3

\* The end of an exchange, without a reception.
LEMMA ExpiryStepsConsistent ==
  ASSUME Inductive, StateConsistent, ResponseMissed \/ EndTxNoAck
  PROVE  Consistent(last', air', dcf', low', respondAt', holding')
<1>1. /\ Typed /\ last \in LastFields /\ Begun(last)
  BY DEF Inductive, Typed, Local
<1>2. low.phase # "idle" /\ low.phase \notin Following /\ (Done(last, timer) \/ Retry)
  BY DEF ResponseMissed, EndTxNoAck
<1>3. Seen(last, air) /\ Scheduled(last, air, Idle, respondAt)
  BY DEF StateConsistent, Consistent, Scheduled, Idle
<1> QED  BY <1>1, <1>2, <1>3, OutcomeConsistent DEF StateConsistent

\* A frame that follows a reception by a SIFS interrupts none that is older, and
\* finds the PHY free.
LEMMA FollowingFrameConsistent ==
  ASSUME Inductive, StateConsistent, NEW duration \in TxDurations, NEW frame \in {"ack", "noack"},
         \/ low.phase \in Following /\ low.at = now
         \/ frame = "noack" /\ respondAt = now,
         dcf' = TransmitDcf(last, dcf, frame, duration),
         last' = TransmitLast(last, frame, duration),
         air' = AirTransmits(duration), holding' = holding,
         low'.owner = low.owner, low'.phase # "idle" <=> low.phase # "idle",
         low'.phase = "ba" => low.phase = "ba"
  PROVE  /\ Seen(last', air')
         /\ Owned(dcf', low', holding')
         /\ Correct(last', air', dcf')
         /\ Pending(dcf', low', holding')
<1> DEFINE i == Interrupted(last, frame, duration)
<1>1. /\ Typed /\ last \in LastFields /\ Begun(last) /\ dcf \in Contenders /\ now \in Nat
      /\ low \in LowFields /\ holding \in SUBSET Dcf /\ air \in AirFields
      /\ respondAt \in TimerType
  BY DEF Inductive, Typed, Local
<1>2. duration \in Nat
  BY EnvironmentAssumption
<1>3. Seen(last', air')
  BY <1>1, <1>2, TransmitSeen DEF StateConsistent, Consistent
<1>4. /\ i \in LastFields
      /\ i.ok = (last.ok /\ (frame = "ack" => last.ackEnd < now)
                         /\ (last.rxing => now - last.rxStart <= Sifs))
  BY <1>1, <1>2, InterruptedFields
<1>5. last'.ok = i.ok /\ air'.ok = (air.ok /\ PhyFree(air))
  BY <1>1, <1>2, TransmitLastFields, AirTransmitsFields
<1>6. dcf' = UpdateBackoff(i, dcf)
  BY DEF TransmitDcf, Interrupted
<1> HIDE DEF i
<1>7. /\ Owned(dcf', low, holding) /\ Pending(dcf', low, holding)
      /\ \A s \in Dcf \ Originators : dcf'[s].ok
  BY <1>1, <1>4, <1>6, UpdateConsistent DEF StateConsistent, Consistent, Correct
<1>8. /\ Heard(last) + Sifs >= now
      /\ PhyFree(air)
      /\ frame = "ack" => last.ackEnd < now
  BY <1>1 DEF StateConsistent, Consistent, Scheduled, NoTimer, TimerType
<1>9. last.rxing => now - last.rxStart <= Sifs
  BY <1>1, <1>8, ParametersAssumption DEF Heard, LastFields
<1>10. Correct(last', air', dcf')
  BY <1>4, <1>5, <1>7, <1>8, <1>9 DEF StateConsistent, Consistent, Correct
<1>11. Owned(dcf', low', holding') /\ Pending(dcf', low', holding')
  BY <1>7 DEF Owned, Pending
<1> QED  BY <1>3, <1>10, <1>11

\* The steps of MacLow that follow a reception by a SIFS.
LEMMA SifsStepsConsistent ==
  ASSUME Inductive, StateConsistent, SifsElapsed \/ Respond
  PROVE  Consistent(last', air', dcf', low', respondAt', holding')
<1>1. /\ last \in LastFields /\ Begun(last) /\ now \in Nat /\ low \in LowFields
      /\ respondAt \in TimerType
  BY DEF Inductive, Typed, Local
<1>2. ASSUME NEW frame, NEW duration \in TxDurations, last' = TransmitLast(last, frame, duration)
      PROVE  /\ last'.ackEnd = IF frame = "ack" THEN now + (duration + ResponseTimeout)
                                                ELSE last.ackEnd
             /\ frame # "rts" => last'.ctsEnd = last.ctsEnd
             /\ duration \in Nat
  <2>1. duration \in Nat
    BY EnvironmentAssumption
  <2> DEFINE i == Interrupted(last, frame, duration)
  <2>2. last'.ackEnd = i.ackEnd /\ last'.ctsEnd = i.ctsEnd
    BY <1>1, <1>2, <2>1, TransmitLastFields
  <2>3. /\ i.ackEnd = IF frame = "ack" THEN now + (duration + ResponseTimeout) ELSE last.ackEnd
        /\ i.ctsEnd = IF frame = "rts" THEN now + (duration + ResponseTimeout) ELSE last.ctsEnd
    BY <1>1, <2>1, InterruptedFields
  <2> HIDE DEF i
  <2> QED  BY <2>1, <2>2, <2>3
<1>3. CASE SifsElapsed
  <2>1. PICK frame \in {"ack", "noack"}, duration \in TxDurations :
          /\ last' = TransmitLast(last, frame, duration)
          /\ dcf' = TransmitDcf(last, dcf, frame, duration)
          /\ low' = Exchange(low.owner, frame, EventOf(frame, duration))
          /\ air' = AirTransmits(duration)
    BY <1>3 DEF SifsElapsed, FollowingFrames
  <2>2. /\ low.phase \in Following /\ low.at = now
        /\ UNCHANGED <<now, timer, respondAt, holding, disturbances>>
    BY <1>3 DEF SifsElapsed
  <2>3. /\ low'.phase = frame /\ low'.owner = low.owner
        /\ low'.at = IF frame = "ack" THEN now + duration + ResponseTimeout
                                      ELSE now + duration
    BY <2>1 DEF Exchange, EventOf
  <2>4. respondAt = NoTimer
    BY <2>2 DEF StateConsistent, Consistent, Scheduled
  <2>5. last'.txEnd = now + duration /\ duration \in Nat /\ ResponseTimeout \in Nat
    BY <1>1, <1>2, <2>1, TransmitLastFields, EnvironmentAssumption
  <2>6. Scheduled(last', air', low', respondAt')
    BY <1>1, <1>2, <2>1, <2>2, <2>3, <2>4, <2>5 DEF Scheduled
  <2>7. /\ Seen(last', air') /\ Owned(dcf', low', holding')
        /\ Correct(last', air', dcf') /\ Pending(dcf', low', holding')
    BY <2>1, <2>2, <2>3, FollowingFrameConsistent
  <2> QED  BY <2>6, <2>7 DEF Consistent
<1>4. CASE Respond
  <2>1. PICK duration \in TxDurations :
          /\ last' = TransmitLast(last, "noack", duration)
          /\ dcf' = TransmitDcf(last, dcf, "noack", duration)
          /\ air' = AirTransmits(duration)
    BY <1>4 DEF Respond
  <2>2. /\ respondAt = now /\ respondAt' = NoTimer
        /\ UNCHANGED <<now, timer, low, holding, disturbances>>
    BY <1>4 DEF Respond
  <2>3. low.phase \notin Following \cup {"noack"}
    BY <1>1, <2>2 DEF StateConsistent, Consistent, Scheduled, NoTimer
  <2>4. last'.ackEnd = last.ackEnd /\ last'.ctsEnd = last.ctsEnd
    BY <1>2, <2>1
  <2>5. Scheduled(last', air', low', respondAt')
    BY <2>2, <2>3, <2>4 DEF StateConsistent, Consistent, Scheduled
  <2>6. /\ Seen(last', air') /\ Owned(dcf', low', holding')
        /\ Correct(last', air', dcf') /\ Pending(dcf', low', holding')
    BY <2>1, <2>2, FollowingFrameConsistent
  <2> QED  BY <2>5, <2>6 DEF Consistent
<1> QED  BY <1>3, <1>4

\* When a reception ends, MacLow waits for nothing that is due a SIFS after an
\* earlier one, and is not in the middle of a transmission.
LEMMA ReceptionDue ==
  ASSUME Inductive, StateConsistent, RxDue
  PROVE  /\ last.rxStart + Sifs < now
         /\ RxAccessStart(last) = now
         /\ air.tx < now /\ air.switch < now
         /\ low.phase \notin Following \cup {"noack"}
         /\ respondAt = NoTimer
<1>1. /\ last \in LastFields /\ now \in Nat /\ low \in LowFields /\ air \in AirFields
      /\ respondAt \in TimerType
  BY DEF Inductive, Typed, Local
<1>2. last.rxing /\ air.rx = now
  BY DEF RxDue
<1>3. /\ air.rx = last.rxStart + last.rxDuration /\ last.rxDuration > Sifs
      /\ air.tx <= last.rxStart /\ air.switch <= last.rxStart /\ last.txEnd = air.tx
  BY <1>2 DEF StateConsistent, Consistent, Seen
<1>4. /\ last.rxStart \in Nat /\ last.rxDuration \in Nat /\ air.tx \in Nat /\ air.switch \in Nat
      /\ low.at \in Nat
  BY <1>1 DEF LastFields, AirFields, LowFields
<1>5. last.rxStart + Sifs < now
  BY <1>2, <1>3, <1>4, ParametersAssumption
<1>6. air.tx < now /\ air.switch < now /\ last.rxStart < now
  BY <1>1, <1>3, <1>4, <1>5, ParametersAssumption
<1>7. Heard(last) = last.rxStart
  BY <1>2 DEF Heard
<1>8. low.phase \notin Following
  BY <1>1, <1>4, <1>5, <1>7, ParametersAssumption DEF StateConsistent, Consistent, Scheduled
<1>9. low.phase # "noack"
  BY <1>1, <1>3, <1>4, <1>6 DEF StateConsistent, Consistent, Scheduled
<1>10. respondAt = NoTimer
  BY <1>1, <1>4, <1>5, <1>7, ParametersAssumption
     DEF StateConsistent, Consistent, Scheduled, TimerType
<1>11. RxAccessStart(last) = now
  BY <1>2, <1>3 DEF RxAccessStart
<1> QED  BY <1>5, <1>6, <1>8, <1>9, <1>10, <1>11

\* The manager is told of the end of a reception.
LEMMA RxEndedConsistent ==
  ASSUME Inductive, StateConsistent, RxDue, NEW isOk \in BOOLEAN
  PROVE  LET l == RxEnded(last, isOk) IN
         /\ l \in LastFields /\ ~l.rxing /\ l.rxEnd = now /\ l.rxOk = isOk /\ l.ok = last.ok
         /\ l.txEnd = last.txEnd /\ l.busyEnd = last.busyEnd /\ l.navEnd = last.navEnd
         /\ l.ackEnd = last.ackEnd /\ l.ctsEnd = last.ctsEnd /\ l.switchEnd = last.switchEnd
         /\ Begun(l)
         /\ Seen(l, air)
         /\ Scheduled(l, air, low, respondAt) /\ Scheduled(l, air, Idle, respondAt)
<1> DEFINE l == RxEnded(last, isOk)
<1>1. /\ last \in LastFields /\ now \in Nat /\ air \in AirFields
  BY DEF Inductive, Typed, Local
<1>2. /\ l \in LastFields /\ ~l.rxing /\ l.rxEnd = now /\ l.rxOk = isOk /\ l.ok = last.ok
      /\ l.txEnd = last.txEnd /\ l.busyEnd = last.busyEnd /\ l.navEnd = last.navEnd
      /\ l.ackEnd = last.ackEnd /\ l.ctsEnd = last.ctsEnd /\ l.switchEnd = last.switchEnd
  BY <1>1 DEF RxEnded, LastFields
<1> HIDE DEF l
<1>3. Begun(l)
  BY <1>2 DEF Begun
<1>4. Seen(l, air)
  <2>1. RxAccessStart(l) \in Nat
    BY <1>2, GrantStartBounds
  <2>2. air.rx = now /\ air.eifs = 0
    BY DEF RxDue, StateConsistent, Consistent, Seen
  <2> QED
    BY <1>1, <1>2, <2>1, <2>2 DEF StateConsistent, Consistent, Seen
<1>5. low.phase \notin Following \cup {"noack"} /\ respondAt = NoTimer
  BY ReceptionDue
<1>6. Scheduled(l, air, low, respondAt)
  BY <1>2, <1>5 DEF StateConsistent, Consistent, Scheduled
<1>7. Scheduled(l, air, Idle, respondAt)
  BY <1>5 DEF Scheduled, Idle
<1> QED  BY <1>2, <1>3, <1>4, <1>6, <1>7 DEF l

\* The beginning and the end of a reception that MacLow does not wait for.
LEMMA OtherReceptionsConsistent ==
  ASSUME Inductive, StateConsistent,
         \/ RxStart \/ RxEndError \/ RxOther \/ RxCfPoll \/ RxForUs
         \/ \E s \in Originators : GotAddBaResponse(s)
  PROVE  Consistent(last', air', dcf', low', respondAt', holding')
<1>1. /\ Typed /\ last \in LastFields /\ now \in Nat /\ low \in LowFields /\ air \in AirFields
      /\ respondAt \in TimerType /\ dcf \in Contenders
  BY DEF Inductive, Typed, Local
<1>2. /\ Seen(last, air) /\ Scheduled(last, air, low, respondAt) /\ Owned(dcf, low, holding)
      /\ Correct(last, air, dcf) /\ Pending(dcf, low, holding)
  BY DEF StateConsistent, Consistent
<1>3. ASSUME NEW l \in LastFields, dcf' = UpdateBackoff(l, dcf)
      PROVE  /\ Owned(dcf', low, holding) /\ Pending(dcf', low, holding)
             /\ Correct(last, air, dcf')
  BY <1>1, <1>3, UpdateConsistent
<1>4. CASE RxStart
  <2>1. PICK duration \in RxDurations :
          /\ dcf' = UpdateBackoff(last, dcf)
          /\ last' = RxStarted(last, duration)
          /\ air' = [air EXCEPT !.rx = now + duration, !.eifs = 0]
    BY <1>4 DEF RxStart
  <2>2. /\ UNCHANGED <<now, timer, low, respondAt, holding>>
        /\ ~last.rxing /\ PhyFree(air)
    BY <1>4 DEF RxStart, PhyFree
  <2>3. duration \in Nat /\ duration > Sifs
    BY EnvironmentAssumption
  <2>4. /\ last'.rxing /\ last'.rxStart = now /\ last'.rxDuration = duration
        /\ last'.txEnd = last.txEnd /\ last'.busyEnd = last.busyEnd
        /\ last'.navEnd = last.navEnd /\ last'.switchEnd = last.switchEnd
        /\ last'.ackEnd = last.ackEnd /\ last'.ctsEnd = last.ctsEnd /\ last'.ok = last.ok
    BY <1>1, <2>1, <2>3 DEF RxStarted, LastFields
  <2>5. /\ air'.rx = now + duration /\ air'.eifs = 0 /\ air'.tx = air.tx /\ air'.cca = air.cca
        /\ air'.nav = air.nav /\ air'.switch = air.switch /\ air'.ok = air.ok
    <3>1. PICK e \in Nat : e = now + duration
      BY <1>1, <2>3
    <3>2. air' = [air EXCEPT !.rx = e, !.eifs = 0]
      BY <2>1, <3>1, Zenon
    <3> QED  BY <1>1, <3>1, <3>2 DEF AirFields
  <2>6. Seen(last', air')
    BY <1>1, <1>2, <2>2, <2>3, <2>4, <2>5, ParametersAssumption DEF Seen, PhyFree, LastFields
  <2>7. Scheduled(last', air', low', respondAt')
    <3>1. Heard(last) <= now /\ Heard(last) \in Nat /\ Heard(last') = now
      BY <1>1, <1>2, <2>2, <2>4 DEF Heard, Seen, LastFields
    <3>2. respondAt # NoTimer => respondAt \in Nat
      BY <1>1 DEF TimerType
    <3>3. low.at \in Nat
      BY <1>1 DEF LowFields
    <3>4. \A x \in Nat : x <= Heard(last) + Sifs => x <= now + Sifs
      BY <1>1, <3>1, ParametersAssumption
    <3>5. PhyFree(air')
      BY <2>2, <2>5 DEF PhyFree
    <3> QED
      BY <1>2, <2>2, <2>4, <3>1, <3>2, <3>3, <3>4, <3>5 DEF Scheduled
  <2>8. Correct(last', air', dcf')
    BY <1>1, <1>3, <2>1, <2>4, <2>5 DEF Correct
  <2> QED  BY <1>1, <1>3, <2>1, <2>2, <2>6, <2>7, <2>8 DEF Consistent
<1>5. CASE RxEndError
  <2>1. /\ RxDue /\ last' = RxEnded(last, FALSE)
        /\ air' = [air EXCEPT !.eifs = now + EifsNoDifs]
        /\ UNCHANGED <<now, dcf, timer, low, respondAt, holding, disturbances>>
    BY <1>5 DEF RxEndError
  <2>2. /\ last' \in LastFields /\ ~last'.rxing /\ last'.rxEnd = now /\ last'.rxOk = FALSE
        /\ last'.ok = last.ok
        /\ Seen(last', air) /\ Scheduled(last', air, low, respondAt)
    BY <2>1, RxEndedConsistent
  <2>3. /\ air'.rx = air.rx /\ air'.tx = air.tx /\ air'.cca = air.cca /\ air'.nav = air.nav
        /\ air'.switch = air.switch /\ air'.ok = air.ok /\ air'.eifs = now + EifsNoDifs
    BY <1>1, <2>1 DEF AirFields
  <2>4. RxAccessStart(last') = now + EifsNoDifs
    BY <2>2 DEF RxAccessStart
  <2>5. Seen(last', air')
    BY <1>1, <2>2, <2>3, <2>4, ParametersAssumption DEF Seen
  <2>6. Scheduled(last', air', low', respondAt')
    BY <2>1, <2>2, <2>3 DEF Scheduled, PhyFree
  <2> QED  BY <1>2, <2>1, <2>2, <2>3, <2>5, <2>6 DEF Consistent, Correct
<1>6. CASE RxOther
  <2> DEFINE l == RxEnded(last, TRUE)
  <2>1. PICK duration \in NavDurations :
          /\ dcf' = UpdateBackoff(l, dcf)
          /\ last' = NavStarted(l, duration)
          /\ air' = [air EXCEPT !.nav = MostRecent(@, now + duration)]
    BY <1>6 DEF RxOther
  <2>2. RxDue /\ UNCHANGED <<now, timer, low, respondAt, holding, disturbances>>
    BY <1>6 DEF RxOther
  <2>3. duration \in Nat
    BY EnvironmentAssumption
  <2>4. /\ l \in LastFields /\ ~l.rxing /\ l.rxEnd = now /\ l.rxOk = TRUE /\ l.ok = last.ok
        /\ Seen(l, air) /\ Scheduled(l, air, low, respondAt)
    BY <2>2, RxEndedConsistent
  <2> HIDE DEF l
  <2>5. PICK n \in Nat : n = MostRecent(air.nav, now + duration)
    BY <1>1, <2>3 DEF MostRecent, AirFields
  <2>6. last' = [l EXCEPT !.navEnd = n]
    <3>1. l.navEnd = air.nav /\ l.navEnd \in Nat
      BY <2>4 DEF Seen, LastFields
    <3>2. CASE now + duration > l.navEnd
      <4>1. n = now + duration
        BY <1>1, <2>3, <2>5, <3>1, <3>2 DEF MostRecent
      <4> QED  BY <2>1, <3>2, <4>1 DEF NavStarted
    <3>3. CASE ~(now + duration > l.navEnd)
      <4>1. n = l.navEnd
        BY <1>1, <2>3, <2>5, <3>1, <3>3 DEF MostRecent
      <4>2. last' = l
        BY <2>1, <3>3 DEF NavStarted
      <4> QED  BY <2>4, <4>1, <4>2 DEF LastFields
    <3> QED  BY <3>2, <3>3
  <2>7. air' = [air EXCEPT !.nav = n]
    BY <2>1, <2>5, Zenon
  <2>8. Seen(last', air') /\ Scheduled(last', air', low', respondAt') /\ last'.ok = l.ok
        /\ air'.ok = air.ok
    <3>1. /\ last'.rxing = l.rxing /\ last'.rxEnd = l.rxEnd /\ last'.rxOk = l.rxOk
          /\ last'.txEnd = l.txEnd /\ last'.busyEnd = l.busyEnd /\ last'.navEnd = n
          /\ last'.switchEnd = l.switchEnd /\ last'.ackEnd = l.ackEnd
          /\ last'.ctsEnd = l.ctsEnd /\ last'.ok = l.ok
      BY <2>4, <2>6 DEF LastFields
    <3>2. /\ air'.rx = air.rx /\ air'.tx = air.tx /\ air'.cca = air.cca /\ air'.nav = n
          /\ air'.switch = air.switch /\ air'.eifs = air.eifs /\ air'.ok = air.ok
      BY <1>1, <2>7 DEF AirFields
    <3>3. RxAccessStart(last') = RxAccessStart(l)
      BY <2>4, <3>1 DEF RxAccessStart
    <3>4. Seen(last', air')
      BY <2>4, <3>1, <3>2, <3>3 DEF Seen
    <3>5. Scheduled(last', air', low', respondAt')
      BY <2>2, <2>4, <3>1, <3>2 DEF Scheduled, PhyFree, Heard
    <3> QED  BY <3>1, <3>2, <3>4, <3>5
  <2> QED  BY <1>3, <2>1, <2>2, <2>4, <2>8 DEF Consistent, Correct
<1>7. CASE RxCfPoll
  <2> DEFINE l == RxEnded(last, TRUE)
  <2>1. PICK duration \in NavDurations :
          /\ last' = [l EXCEPT !.navEnd = now + duration]
          /\ dcf' = UpdateBackoff(last', UpdateBackoff(l, dcf))
          /\ air' = [air EXCEPT !.nav = now + duration]
    BY <1>7 DEF RxCfPoll
  <2>2. RxDue /\ UNCHANGED <<now, low, respondAt, holding, disturbances>>
    BY <1>7 DEF RxCfPoll
  <2>3. duration \in Nat
    BY EnvironmentAssumption
  <2>4. /\ l \in LastFields /\ ~l.rxing /\ l.rxEnd = now /\ l.rxOk = TRUE /\ l.ok = last.ok
        /\ Seen(l, air) /\ Scheduled(l, air, low, respondAt)
    BY <2>2, RxEndedConsistent
  <2> HIDE DEF l
  <2>5. PICK n \in Nat : n = now + duration
    BY <1>1, <2>3
  <2>6. last' = [l EXCEPT !.navEnd = n] /\ air' = [air EXCEPT !.nav = n]
    BY <2>1, <2>5, Zenon
  <2>7. /\ last' \in LastFields
        /\ last'.rxing = l.rxing /\ last'.rxEnd = l.rxEnd /\ last'.rxOk = l.rxOk
        /\ last'.txEnd = l.txEnd /\ last'.busyEnd = l.busyEnd /\ last'.navEnd = n
        /\ last'.switchEnd = l.switchEnd /\ last'.ackEnd = l.ackEnd
        /\ last'.ctsEnd = l.ctsEnd /\ last'.ok = l.ok
    BY <2>4, <2>6 DEF LastFields
  <2>8. /\ air'.rx = air.rx /\ air'.tx = air.tx /\ air'.cca = air.cca /\ air'.nav = n
        /\ air'.switch = air.switch /\ air'.eifs = air.eifs /\ air'.ok = air.ok
    BY <1>1, <2>6 DEF AirFields
  <2>9. RxAccessStart(last') = RxAccessStart(l)
    BY <2>4, <2>7 DEF RxAccessStart
  <2>10. Seen(last', air')
    BY <2>4, <2>7, <2>8, <2>9 DEF Seen
  <2>11. Scheduled(last', air', low', respondAt')
    BY <2>2, <2>4, <2>7, <2>8 DEF Scheduled, PhyFree, Heard
  <2>12. /\ Owned(dcf', low, holding) /\ Pending(dcf', low, holding)
         /\ Correct(last, air, dcf')
    <3> DEFINE u == UpdateBackoff(l, dcf)
    <3>1. /\ u \in Contenders
          /\ \A s \in Dcf : /\ u[s].requested = dcf[s].requested /\ u[s].ok = dcf[s].ok
                            /\ dcf[s].slots = 0 => u[s].slots = 0
      BY <1>1, <2>4, UpdateConsistent
    <3> HIDE DEF u
    <3>2. dcf' = UpdateBackoff(last', u)
      BY <2>1 DEF u
    <3> QED  BY <1>1, <2>7, <3>1, <3>2, UpdateConsistent
  <2> QED  BY <2>2, <2>4, <2>7, <2>8, <2>10, <2>11, <2>12 DEF Consistent, Correct
\* What is for us is answered a SIFS later.
<1>8. ASSUME RxDue
      PROVE  LET l == RxEnded(last, TRUE) IN
             /\ l \in LastFields /\ Begun(l) /\ l.ok = last.ok /\ Seen(l, air)
             /\ now + Sifs \in TimerType /\ Scheduled(l, air, low, now + Sifs)
  <2> DEFINE l == RxEnded(last, TRUE)
  <2>1. /\ l \in LastFields /\ Begun(l) /\ ~l.rxing /\ l.rxEnd = now /\ l.ok = last.ok
        /\ Seen(l, air) /\ Scheduled(l, air, low, respondAt)
    BY <1>8, RxEndedConsistent
  <2>2. air.tx < now /\ air.switch < now /\ low.phase \notin Following \cup {"noack"}
    BY <1>8, ReceptionDue
  <2> HIDE DEF l
  <2>3. PhyFree(air) /\ Heard(l) = now
    BY <1>1, <2>1, <2>2 DEF PhyFree, Heard, AirFields
  <2>4. PICK r \in Nat : r = now + Sifs /\ now <= r
    BY <1>1, ParametersAssumption
  <2>5. r <= Heard(l) + Sifs
    BY <2>3, <2>4
  <2>6. Scheduled(l, air, low, r)
    BY <2>1, <2>2, <2>3, <2>4, <2>5 DEF Scheduled
  <2> QED  BY <2>1, <2>4, <2>6 DEF TimerType, l
<1>9. CASE RxForUs
  <2>1. /\ RxDue /\ last' = RxEnded(last, TRUE) /\ respondAt' = now + Sifs
        /\ UNCHANGED <<now, dcf, timer, low, holding, air, disturbances>>
    BY <1>9 DEF RxForUs
  <2> QED  BY <1>2, <1>8, <2>1 DEF Consistent, Correct
<1>10. ASSUME NEW s \in Originators, GotAddBaResponse(s)
       PROVE  Consistent(last', air', dcf', low', respondAt', holding')
  <2> DEFINE l == RxEnded(last, TRUE)
             ra == now + Sifs
  <2>1. RxDue /\ ~dcf[s].requested /\ Request(l, dcf, s, timer, low, holding, ra)
    BY <1>10 DEF GotAddBaResponse
  <2>2. /\ l \in LastFields /\ Begun(l) /\ l.ok = last.ok /\ Seen(l, air)
        /\ ra \in TimerType /\ Scheduled(l, air, low, ra)
    BY <1>8, <2>1
  <2>3. s \in Dcf /\ holding \in SUBSET Dcf
    BY EnvironmentAssumption DEF Inductive, Typed, Local
  <2> HIDE DEF l, ra
  <2>4. Correct(l, air, dcf)
    BY <1>2, <2>2 DEF Correct
  <2>5. Pending(dcf, low, holding \ {s})
    BY <1>2 DEF Pending
  <2> QED  BY <1>1, <1>2, <2>1, <2>2, <2>3, <2>4, <2>5, RequestConsistent
<1> QED  BY <1>4, <1>5, <1>6, <1>7, <1>9, <1>10

\* The answers that MacLow waits for.
LEMMA AnswersConsistent ==
  ASSUME Inductive, StateConsistent, RxCts \/ RxAck \/ RxBlockAck
  PROVE  Consistent(last', air', dcf', low', respondAt', holding')
<1> DEFINE heard == RxEnded(last, TRUE)
<1>1. /\ Typed /\ last \in LastFields /\ now \in Nat /\ low \in LowFields
      /\ respondAt \in TimerType
  BY DEF Inductive, Typed, Local
<1>2. /\ Owned(dcf, low, holding) /\ Correct(last, air, dcf) /\ Pending(dcf, low, holding)
      /\ Scheduled(last, air, low, respondAt)
  BY DEF StateConsistent, Consistent
<1>3. RxDue
  BY DEF RxCts, RxAck, RxBlockAck
<1>4. /\ heard \in LastFields /\ ~heard.rxing /\ heard.rxEnd = now /\ heard.rxOk = TRUE
      /\ heard.ok = last.ok
      /\ heard.ackEnd = last.ackEnd /\ heard.ctsEnd = last.ctsEnd
      /\ Begun(heard)
      /\ Seen(heard, air)
      /\ Scheduled(heard, air, Idle, respondAt)
  BY <1>3, RxEndedConsistent
<1>5. respondAt = NoTimer /\ air.tx < now /\ air.switch < now
  BY <1>3, ReceptionDue
<1>6. PhyFree(air)
  <2>1. air.tx \in Nat /\ air.switch \in Nat
    BY DEF Inductive, Typed, Local, AirFields
  <2> QED  BY <1>1, <1>5, <2>1 DEF PhyFree
<1> HIDE DEF heard
\* A CTS, or the ACK of a fragment: the next frame follows in a SIFS.
<1>7. ASSUME NEW l \in LastFields, ~l.rxing, l.rxEnd = now, l.ok = last.ok, l.ackEnd <= now,
             Seen(l, air), last' = l, NEW next \in Following,
             low' = Exchange(low.owner, next, now + Sifs), low.phase # "idle",
             UNCHANGED <<dcf, respondAt, holding, air>>
      PROVE  Consistent(last', air', dcf', low', respondAt', holding')
  <2>1. low'.phase = next /\ low'.owner = low.owner /\ low'.at = now + Sifs
    BY <1>7 DEF Exchange
  <2>2. Heard(l) = now
    BY <1>7 DEF Heard
  <2>3. l.ackEnd < now + Sifs /\ now <= now + Sifs
    BY <1>1, <1>7, ParametersAssumption DEF LastFields
  <2>4. Scheduled(last', air', low', respondAt')
    <3>1. low'.at <= Heard(last') + Sifs
      BY <1>1, <1>7, <2>1, <2>2, ParametersAssumption
    <3> QED  BY <1>5, <1>6, <1>7, <2>1, <2>3, <3>1 DEF Scheduled
  <2>5. Owned(dcf', low', holding') /\ Pending(dcf', low', holding')
    BY <1>2, <1>7, <2>1 DEF Owned, Pending
  <2>6. Correct(last', air', dcf')
    BY <1>2, <1>7 DEF Correct
  <2> QED  BY <1>7, <2>4, <2>5, <2>6 DEF Consistent
<1>8. CASE RxCts
  <2>1. /\ low.phase = "rts" /\ last' = CtsTimeoutReset(heard)
        /\ low' = Exchange(low.owner, "cts", now + Sifs)
        /\ UNCHANGED <<dcf, respondAt, holding, air>>
    BY <1>8 DEF RxCts, heard
  <2> DEFINE l == CtsTimeoutReset(heard)
  <2>2. /\ l \in LastFields /\ ~l.rxing /\ l.rxEnd = now /\ l.rxOk = TRUE /\ l.ok = last.ok
        /\ l.ackEnd = last.ackEnd
        /\ l.txEnd = heard.txEnd /\ l.busyEnd = heard.busyEnd /\ l.navEnd = heard.navEnd
        /\ l.switchEnd = heard.switchEnd
    BY <1>1, <1>4 DEF CtsTimeoutReset, LastFields
  <2> HIDE DEF l
  <2>3. Seen(l, air)
    BY <1>4, <2>2 DEF Seen, RxAccessStart
  <2>4. l.ackEnd <= now
    BY <1>1, <1>2, <2>1, <2>2 DEF Scheduled, LastFields
  <2> QED  BY <1>7, <2>1, <2>2, <2>3, <2>4 DEF l
<1>9. CASE RxAck
  <2> DEFINE l == AckTimeoutReset(heard)
  <2>1. /\ l \in LastFields /\ ~l.rxing /\ l.rxEnd = now /\ l.rxOk = TRUE /\ l.ok = last.ok
        /\ l.ackEnd = now
        /\ l.txEnd = heard.txEnd /\ l.busyEnd = heard.busyEnd /\ l.navEnd = heard.navEnd
        /\ l.switchEnd = heard.switchEnd
    BY <1>1, <1>4 DEF AckTimeoutReset, LastFields
  <2>2. /\ low.phase = "ack"
        /\ \/ \E tm : Done(l, tm)
           \/ /\ last' = l /\ low' = Exchange(low.owner, "fragment", now + Sifs)
              /\ UNCHANGED <<dcf, respondAt, holding, air>>
    BY <1>9 DEF RxAck, heard
  <2> HIDE DEF l
  <2>3. Seen(l, air)
    BY <1>4, <2>1 DEF Seen, RxAccessStart
  <2>4. Begun(l) /\ Scheduled(l, air, Idle, respondAt)
    BY <1>5, <2>1 DEF Begun, Scheduled, Idle
  <2>5. CASE \E tm : Done(l, tm)
    BY <1>1, <2>1, <2>2, <2>3, <2>4, <2>5, OutcomeConsistent DEF StateConsistent
  <2>6. CASE /\ last' = l /\ low' = Exchange(low.owner, "fragment", now + Sifs)
             /\ UNCHANGED <<dcf, respondAt, holding, air>>
    BY <1>1, <1>7, <2>1, <2>2, <2>3, <2>6
  <2> QED  BY <2>2, <2>5, <2>6
<1>10. CASE RxBlockAck
  <2>1. low.phase = "ba" /\ Done(heard, timer)
    BY <1>10 DEF RxBlockAck, heard
  <2> QED  BY <1>1, <1>4, <2>1, OutcomeConsistent DEF StateConsistent
<1> QED  BY <1>8, <1>9, <1>10

\* A busy medium, and a channel switch, which interrupts everything.
LEMMA EnvironmentConsistent ==
  ASSUME Inductive, StateConsistent, CcaBusy \/ Switch
  PROVE  Consistent(last', air', dcf', low', respondAt', holding')
<1>1. /\ Typed /\ last \in LastFields /\ Begun(last) /\ now \in Nat /\ low \in LowFields
      /\ air \in AirFields /\ respondAt \in TimerType /\ dcf \in Contenders
  BY DEF Inductive, Typed, Local
<1>2. /\ Seen(last, air) /\ Scheduled(last, air, low, respondAt) /\ Owned(dcf, low, holding)
      /\ Correct(last, air, dcf) /\ Pending(dcf, low, holding)
  BY DEF StateConsistent, Consistent
<1>3. CASE CcaBusy
  <2>1. PICK duration \in CcaDurations :
          /\ dcf' = UpdateBackoff(last, dcf)
          /\ last' = [last EXCEPT !.busyEnd = now + duration]
          /\ air' = [air EXCEPT !.cca = now + duration]
    BY <1>3 DEF CcaBusy
  <2>2. UNCHANGED <<now, timer, low, respondAt, holding>>
    BY <1>3 DEF CcaBusy
  <2>3. PICK e \in Nat : e = now + duration
    BY <1>1, EnvironmentAssumption
  <2>4. last' = [last EXCEPT !.busyEnd = e] /\ air' = [air EXCEPT !.cca = e]
    BY <2>1, <2>3, Zenon
  <2>5. /\ last'.rxing = last.rxing /\ last'.rxStart = last.rxStart
        /\ last'.rxDuration = last.rxDuration
        /\ last'.rxEnd = last.rxEnd /\ last'.rxOk = last.rxOk
        /\ last'.txEnd = last.txEnd /\ last'.busyEnd = e /\ last'.navEnd = last.navEnd
        /\ last'.switchEnd = last.switchEnd /\ last'.ackEnd = last.ackEnd
        /\ last'.ctsEnd = last.ctsEnd /\ last'.ok = last.ok
    BY <1>1, <2>4 DEF LastFields
  <2>6. /\ air'.rx = air.rx /\ air'.tx = air.tx /\ air'.cca = e /\ air'.nav = air.nav
        /\ air'.switch = air.switch /\ air'.eifs = air.eifs /\ air'.ok = air.ok
    BY <1>1, <2>4 DEF AirFields
  <2>7. RxAccessStart(last') = RxAccessStart(last)
    BY <2>5 DEF RxAccessStart
  <2>8. Seen(last', air')
    BY <1>2, <2>5, <2>6, <2>7 DEF Seen
  <2>9. Scheduled(last', air', low', respondAt')
    BY <1>2, <2>2, <2>5, <2>6 DEF Scheduled, PhyFree, Heard
  <2>10. /\ Owned(dcf', low, holding) /\ Pending(dcf', low, holding)
         /\ Correct(last, air, dcf')
    BY <1>1, <2>1, UpdateConsistent
  <2> QED  BY <2>2, <2>5, <2>6, <2>8, <2>9, <2>10 DEF Consistent, Correct
<1>4. CASE Switch
  <2>1. PICK duration \in SwitchDurations :
          /\ last' = SwitchingStarted(last, duration)
          /\ air' = [air EXCEPT !.switch = now + duration, !.eifs = 0,
                                !.rx = Truncated(@), !.cca = Truncated(@),
                                !.nav = Truncated(@)]
    BY <1>4 DEF Switch
  <2>2. /\ PhyFree(air)
        /\ dcf' = SwitchingDcf(dcf) /\ low' = Idle /\ respondAt' = NoTimer /\ holding' = {}
    BY <1>4 DEF Switch, PhyFree
  <2>3. PICK w \in Nat : w = now + duration
    BY <1>1, EnvironmentAssumption
  <2>4. PICK i \in LastFields : i = RxInterrupted(last)
    <3>1. CASE last.rxing
      <4>1. PICK n \in Nat : n = now - last.rxStart
        BY <1>1, <3>1 DEF LastFields, Begun
      <4>2. RxInterrupted(last) = [last EXCEPT !.rxing = FALSE, !.rxEnd = now,
                                               !.rxDuration = n, !.rxOk = TRUE]
        BY <3>1, <4>1, Zenon DEF RxInterrupted
      <4> QED  BY <1>1, <4>2 DEF LastFields
    <3>2. CASE ~last.rxing
      BY <1>1, <3>2 DEF RxInterrupted
    <3> QED  BY <3>1, <3>2
  <2>5. /\ ~i.rxing /\ i.rxEnd = (IF last.rxing THEN now ELSE last.rxEnd)
        /\ i.txEnd = last.txEnd /\ i.busyEnd = last.busyEnd /\ i.navEnd = last.navEnd
        /\ i.ok = last.ok
    BY <1>1, <2>4 DEF RxInterrupted, LastFields
  <2>6. PICK vn \in Nat : vn = Truncated(last.navEnd)
    BY <1>1 DEF LastFields, Truncated
  <2>7. PICK vb \in Nat : vb = Truncated(last.busyEnd)
    BY <1>1 DEF LastFields, Truncated
  <2>8. PICK va \in Nat : va = Truncated(i.ackEnd)
    BY <1>1 DEF LastFields, Truncated
  <2>9. PICK vc \in Nat : vc = Truncated(i.ctsEnd)
    BY <1>1 DEF LastFields, Truncated
  <2>10. PICK vr \in Nat : vr = Truncated(air.rx) /\ vr <= now /\ vr <= air.rx
    BY <1>1 DEF AirFields, Truncated
  <2>11. last.txEnd <= now /\ last.switchEnd <= now
    BY <1>2, <2>2 DEF Seen, PhyFree
  <2> DEFINE o == [i EXCEPT !.navEnd = vn, !.busyEnd = vb, !.ackEnd = va, !.ctsEnd = vc,
                            !.switchEnd = w]
  <2>12. last' = [o EXCEPT !.ok = o.ok /\ TRUE]
    <3>1. SwitchOccupies(i, duration) = o
      BY <2>3, <2>5, <2>6, <2>7, <2>8, <2>9, Zenon DEF SwitchOccupies
    <3>2. (last.txEnd <= now /\ last.switchEnd <= now) = TRUE
      BY <2>11
    <3> HIDE DEF o
    <3> QED  BY <2>1, <2>4, <3>1, <3>2, Zenon DEF SwitchingStarted, Asserted
  <2>13. /\ ~last'.rxing /\ last'.rxEnd = i.rxEnd /\ last'.txEnd = last.txEnd
         /\ last'.busyEnd = vb /\ last'.navEnd = vn /\ last'.switchEnd = w
         /\ last'.ok = last.ok /\ last' \in LastFields
    <3>1. /\ o \in LastFields
          /\ ~o.rxing /\ o.rxEnd = i.rxEnd /\ o.txEnd = last.txEnd
          /\ o.busyEnd = vb /\ o.navEnd = vn /\ o.switchEnd = w /\ o.ok = last.ok
      BY <2>5 DEF LastFields
    <3>2. o.ok \in BOOLEAN
      BY <3>1 DEF LastFields
    <3> HIDE DEF o
    <3>3. last' = [o EXCEPT !.ok = o.ok]
      BY <2>12, <3>2
    <3> QED  BY <3>1, <3>2, <3>3 DEF LastFields
  <2>14. /\ air'.rx = vr /\ air'.tx = air.tx /\ air'.cca = vb /\ air'.nav = vn
         /\ air'.switch = w /\ air'.eifs = 0 /\ air'.ok = air.ok
    <3>1. air.cca = last.busyEnd /\ air.nav = last.navEnd
      BY <1>2 DEF Seen
    <3>2. air' = [air EXCEPT !.switch = w, !.eifs = 0, !.rx = vr, !.cca = vb, !.nav = vn]
      BY <2>1, <2>3, <2>6, <2>7, <2>10, <3>1, Zenon
    <3> QED  BY <1>1, <3>2 DEF AirFields
  <2>15. Seen(last', air')
    <3>1. RxAccessStart(last') \in Nat
      BY <2>13, GrantStartBounds
    <3>2. last'.rxEnd <= now /\ vr <= last'.rxEnd
      <4>1. CASE last.rxing
        BY <1>1, <2>5, <2>10, <2>13, <4>1
      <4>2. CASE ~last.rxing
        <5>1. air.rx <= last.rxEnd /\ last.rxEnd <= now /\ last'.rxEnd = last.rxEnd
          BY <1>2, <2>5, <2>13, <4>2 DEF Seen
        <5>2. air.rx \in Nat /\ last.rxEnd \in Nat
          BY <1>1 DEF AirFields, LastFields
        <5> QED  BY <1>1, <2>10, <5>1, <5>2
      <4> QED  BY <4>1, <4>2
    <3>3. last'.txEnd = air'.tx
      BY <1>2, <2>13, <2>14 DEF Seen
    <3>4. 0 <= RxAccessStart(last')
      BY <3>1
    <3> QED  BY <2>13, <2>14, <3>2, <3>3, <3>4 DEF Seen
  <2>16. Scheduled(last', air', low', respondAt') /\ Owned(dcf', low', holding')
    BY <2>2 DEF Scheduled, Owned, Idle
  <2>17. Correct(last', air', dcf')
    <3>1. ASSUME NEW s \in Dcf
          PROVE  dcf'[s].ok = dcf[s].ok
      <4>1. PICK t \in Nat : t = IF dcf[s].slots > 0 THEN now ELSE dcf[s].start
        BY <1>1 DEF Contenders, DcfFields
      <4>2. dcf'[s] = [dcf[s] EXCEPT !.slots = 0, !.cw = dcf[s].cwMin, !.requested = FALSE,
                                     !.start = t]
        BY <2>2, <4>1, Zenon DEF SwitchingDcf
      <4>3. dcf[s] \in DcfFields
        BY <1>1 DEF Contenders
      <4> QED  BY <4>2, <4>3 DEF DcfFields
    <3> QED  BY <1>2, <2>13, <2>14, <3>1 DEF Correct
  <2>18. Pending(dcf', low', holding')
    BY <2>2 DEF Pending, Idle
  <2> QED  BY <2>15, <2>16, <2>17, <2>18 DEF Consistent
<1> QED  BY <1>3, <1>4

\* The clock advances only when nothing is due.
LEMMA TickConsistent == Inductive /\ StateConsistent /\ Tick => StateConsistent'
<1> SUFFICES ASSUME Inductive, StateConsistent, Tick PROVE StateConsistent'
  OBVIOUS
<1>1. /\ last \in LastFields /\ now \in Nat /\ low \in LowFields /\ air \in AirFields
      /\ respondAt \in TimerType
  BY DEF Inductive, Typed, Local
<1>2. /\ now' = now + 1 /\ respondAt # now /\ (low.phase # "idle" => low.at > now) /\ ~RxDue
      /\ UNCHANGED <<last, dcf, timer, low, respondAt, holding, air, disturbances>>
  BY DEF Tick
<1>3. Seen(last, air)'
  BY <1>1, <1>2 DEF StateConsistent, Consistent, Seen, RxDue, RxAccessStart, LastFields, AirFields
<1>4. PhyFree(air) => PhyFree(air)'
  BY <1>1, <1>2 DEF PhyFree, AirFields
<1>5. Scheduled(last, air, low, respondAt)'
  <2>1. Heard(last)' = Heard(last) /\ Heard(last) \in Nat
    BY <1>1, <1>2 DEF Heard, LastFields
  <2>2. low.at \in Nat /\ last.ackEnd \in Nat /\ (respondAt # NoTimer => respondAt \in Nat)
    BY <1>1 DEF LowFields, LastFields, TimerType
  <2> QED  BY <1>1, <1>2, <1>4, <2>1, <2>2 DEF StateConsistent, Consistent, Scheduled
<1>6. Owned(dcf, low, holding)' /\ Correct(last, air, dcf)' /\ Pending(dcf, low, holding)'
  BY <1>2 DEF StateConsistent, Consistent, Owned, Correct, Pending
<1> QED  BY <1>3, <1>5, <1>6 DEF StateConsistent, Consistent

\* Every step keeps the state consistent.
LEMMA StepConsistent ==
  ASSUME Inductive, StateConsistent, [Next]_vars
  PROVE  StateConsistent'
<1>1. ASSUME now' = now, Consistent(last', air', dcf', low', respondAt', holding')
      PROVE  StateConsistent'
  <2>1. Seen(last, air)'
    BY <1>1 DEF Consistent, Seen, RxAccessStart
  <2>2. Scheduled(last, air, low, respondAt)'
    BY <1>1 DEF Consistent, Scheduled, PhyFree, Heard
  <2>3. Owned(dcf, low, holding)' /\ Correct(last, air, dcf)' /\ Pending(dcf, low, holding)'
    BY <1>1 DEF Consistent, Owned, Correct, Pending
  <2> QED  BY <2>1, <2>2, <2>3 DEF StateConsistent, Consistent
<1>2. CASE (\E s \in Dcf : RequestAccess(s)) \/ AccessTimeout
  BY <1>1, <1>2, AccessStepsConsistent DEF RequestAccess, AccessTimeout
<1>3. CASE ResponseMissed \/ EndTxNoAck
  BY <1>1, <1>3, ExpiryStepsConsistent DEF ResponseMissed, EndTxNoAck
<1>4. CASE SifsElapsed \/ Respond
  BY <1>1, <1>4, SifsStepsConsistent DEF SifsElapsed, Respond
<1>5. CASE \/ RxStart \/ RxEndError \/ RxOther \/ RxCfPoll \/ RxForUs
           \/ \E s \in Originators : GotAddBaResponse(s)
  BY <1>1, <1>5, OtherReceptionsConsistent
     DEF RxStart, RxEndError, RxOther, RxCfPoll, RxForUs, GotAddBaResponse
<1>6. CASE RxCts \/ RxAck \/ RxBlockAck
  BY <1>1, <1>6, AnswersConsistent DEF RxCts, RxAck, RxBlockAck
<1>7. CASE CcaBusy \/ Switch
  BY <1>1, <1>7, EnvironmentConsistent DEF CcaBusy, Switch
<1>8. CASE Tick
  BY <1>8, TickConsistent
<1>9. CASE UNCHANGED vars
  <2>1. Consistent(last', air', dcf', low', respondAt', holding') /\ now' = now
    BY <1>9 DEF vars, StateConsistent
  <2> QED  BY <1>1, <2>1
<1> QED
  BY <1>2, <1>3, <1>4, <1>5, <1>6, <1>7, <1>8, <1>9 DEF Next, Finished, EndTxNoAckUnheard

\* Every reachable state is consistent.
LEMMA AlwaysConsistent == Spec => [](Inductive /\ StateConsistent)
<1>1. Init => Inductive /\ StateConsistent
  BY InductiveInit, InitConsistent
<1>2. Inductive /\ StateConsistent /\ [Next]_vars => (Inductive /\ StateConsistent)'
  BY InductiveStep, StepConsistent
<1> QED  BY <1>1, <1>2, PTL DEF Spec

-----------------------------------------------------------------------------
(* Theorems.                                                               *)

\* Every assertion about the manager holds, so do those about the contenders that
\* do not use block ack, and the PHY is never told to transmit while it transmits
\* or switches, whatever exchanges are run, with block ack or without, and whatever
\* is received (dcf-manager.cc, the NS_ASSERTs of StartBackoffNow,
\* NotifyAccessRequested, NotifyTxStartNow, NotifySwitchingStartNow and
\* NotifyAckTimeoutStartNow).  Of a contender that uses block ack the first of
\* these may fail: the run addba_assert shows how.
THEOREM NoAssertionFails == Spec => []AssertionsHold
<1>1. StateConsistent => AssertionsHold
  BY DEF StateConsistent, Consistent, Correct, AssertionsHold
<1> QED  BY <1>1, AlwaysConsistent, PTL

\* While no exchange waits for a block ack, a packet that a contender has taken
\* from its queue is never forgotten.  With block acks it can be: the run
\* blockack_orphan shows how.
THEOREM HeldPacketNotForgotten ==
  ASSUME "ba" \notin FirstFrames
  PROVE  Spec => []HeldPacketIsPending
<1>1. StateConsistent => HeldPacketIsPending
  BY DEF StateConsistent, Consistent, Pending, HeldPacketIsPending
<1> QED  BY <1>1, AlwaysConsistent, PTL

-----------------------------------------------------------------------------
(* The backoffs.                                                          *)

\* No slot has elapsed since the backoffs were last updated.
Current(l, d) ==
  \A s \in Dcf : d[s].slots = 0 \/ now < GetBackoffStartFor(l, d, s) + Slot

-----------------------------------------------------------------------------
(* The countdown.                                                          *)

\* Less than a divisor counts for nothing, and a quotient grows by one at most.
LEMMA QuotientSteps ==
  ASSUME NEW a \in Nat, NEW m \in Nat \ {0}
  PROVE  /\ a < m <=> a \div m = 0
         /\ a \div m \in Nat
         /\ (a + 1) \div m = a \div m \/ (a + 1) \div m = a \div m + 1
<1>1. /\ a \div m \in Nat /\ (a + 1) \div m \in Nat
  OBVIOUS
<1>2. PICK q \in Nat : q = a \div m
  BY <1>1
<1>3. PICK p \in Nat : p = (a + 1) \div m
  BY <1>1
<1>4. q * m <= a /\ a < q * m + m
  BY <1>2
<1>5. p * m <= a + 1 /\ a + 1 < p * m + m
  BY <1>3
<1>6. a < m <=> q = 0
  <2>1. CASE q = 0
    BY <1>4, <2>1
  <2>2. CASE q # 0
    <3>1. q * m >= m /\ q * m \in Nat
      BY <2>2, OneSlotAtLeast, ProductType
    <3> QED  BY <1>4, <2>2, <3>1
  <2> QED  BY <2>1, <2>2
<1>7. p = q \/ p = q + 1
  <2>1. CASE p < q
    <3>1. PICK k \in Nat \ {0} : q = p + k
      <4>1. q - p \in Nat \ {0} /\ q = p + (q - p)
        BY <2>1
      <4> QED  BY <4>1
    <3>2. q * m = p * m + k * m
      BY <3>1
    <3>3. k * m >= m /\ k * m \in Nat /\ p * m \in Nat
      BY <3>1, OneSlotAtLeast, ProductType
    <3>4. PICK x \in Nat, y \in Nat : x = p * m /\ y = k * m
      BY <3>3
    <3> QED  BY <1>4, <1>5, <3>2, <3>3, <3>4
  <2>2. CASE p > q + 1
    <3>1. PICK k \in Nat \ {0} : p = q + 1 + k
      <4>1. p - (q + 1) \in Nat \ {0} /\ p = q + 1 + (p - (q + 1))
        BY <2>2
      <4> QED  BY <4>1
    <3>2. p * m = q * m + m + k * m
      BY <3>1
    <3>3. k * m >= m /\ k * m \in Nat /\ q * m \in Nat
      BY <3>1, OneSlotAtLeast, ProductType
    <3>4. PICK x \in Nat, y \in Nat : x = q * m /\ y = k * m
      BY <3>3
    <3> QED  BY <1>4, <1>5, <3>2, <3>3, <3>4
  <2> QED  BY <2>1, <2>2
<1> QED  BY <1>1, <1>2, <1>3, <1>6, <1>7

\* Remaining, of the operands of a method.
Left(l, d, s) ==
  d[s].slots - (IF GetBackoffStartFor(l, d, s) <= now
                THEN ElapsedSlots(GetBackoffStartFor(l, d, s), d[s].slots) ELSE 0)

\* Nothing has elapsed of a backoff without slots, or in its first slot.
LEMMA NothingElapsed ==
  ASSUME now \in Nat, NEW l \in LastFields, NEW d \in Contenders, NEW s \in Dcf
  PROVE  /\ Left(l, d, s) \in Nat /\ Left(l, d, s) <= d[s].slots
         /\ d[s].slots = 0 \/ now < GetBackoffStartFor(l, d, s) + Slot
              => Left(l, d, s) = d[s].slots
<1> DEFINE b == GetBackoffStartFor(l, d, s)
           n == ElapsedSlots(b, d[s].slots)
<1>1. b \in Nat /\ d[s].slots \in Nat
  BY BackoffTypes DEF Contenders, DcfFields
<1>2. CASE ~(b <= now)
  BY <1>1, <1>2 DEF Left
<1>3. CASE b <= now
  <2>1. Left(l, d, s) = d[s].slots - n
    BY <1>3 DEF Left
  <2>2. n \in Nat /\ n <= d[s].slots
    BY <1>1, <1>3, ElapsedSlotsType
  <2> HIDE DEF b
  <2>3. now < b + Slot => n = 0
    <3>1. now - b \in Nat /\ (now < b + Slot => now - b < Slot)
      BY <1>1, <1>3, ParametersAssumption
    <3>2. now < b + Slot => (now - b) \div Slot = 0
      BY <3>1, QuotientSteps, ParametersAssumption
    <3> QED  BY <1>1, <3>2 DEF ElapsedSlots
  <2> HIDE DEF n
  <2>4. /\ Left(l, d, s) \in Nat /\ Left(l, d, s) <= d[s].slots
        /\ d[s].slots = 0 \/ now < b + Slot => Left(l, d, s) = d[s].slots
    BY <1>1, <2>1, <2>2, <2>3
  <2> QED  BY <2>4 DEF b
<1> QED  BY <1>2, <1>3

\* UpdateBackoff settles what has elapsed: what is left is what was left.
LEMMA UpdateBackoffLeaves ==
  ASSUME now \in Nat, NEW l \in LastFields, NEW d \in Contenders
  PROVE  /\ \A s \in Dcf : UpdateBackoff(l, d)[s].slots = Left(l, d, s)
         /\ Current(l, UpdateBackoff(l, d))
<1> SUFFICES ASSUME NEW s \in Dcf
             PROVE  LET u == UpdateBackoff(l, d) IN
                    /\ u[s].slots = Left(l, d, s)
                    /\ u[s].slots = 0 \/ now < GetBackoffStartFor(l, u, s) + Slot
  BY DEF Current
<1> DEFINE u == UpdateBackoff(l, d)
           b == GetBackoffStartFor(l, d, s)
           n == ElapsedSlots(b, d[s].slots)
<1>1. d[s] \in DcfFields /\ d[s].slots \in Nat
  BY DEF Contenders, DcfFields
<1>2. /\ b \in Nat /\ b >= d[s].start
      /\ b >= GetAccessGrantStart(l) + d[s].aifsn * Slot
      /\ d[s].aifsn * Slot \in Nat /\ GetAccessGrantStart(l) \in Nat
  BY BackoffStartBounds, AccessGrantStartType
<1>3. CASE ~(b <= now)
  <2>1. u[s] = d[s]
    BY <1>3 DEF UpdateBackoff
  <2>2. GetBackoffStartFor(l, u, s) = b
    BY <2>1 DEF GetBackoffStartFor
  <2>3. Left(l, d, s) = d[s].slots
    BY <1>1, <1>3 DEF Left
  <2> HIDE DEF u, b
  <2>4. now < b + Slot
    BY <1>2, <1>3, ParametersAssumption
  <2>5. u[s].slots = Left(l, d, s) /\ now < GetBackoffStartFor(l, u, s) + Slot
    BY <2>1, <2>2, <2>3, <2>4
  <2> QED  BY <2>5 DEF u
<1>4. CASE b <= now
  <2>1. u[s] = [d[s] EXCEPT !.slots = @ - n, !.start = b + n * Slot]
    BY <1>4 DEF UpdateBackoff
  <2>2. Left(l, d, s) = d[s].slots - n
    BY <1>4 DEF Left
  <2>3. n \in Nat /\ n <= d[s].slots
    BY <1>1, <1>2, <1>4, ElapsedSlotsType
  <2>4. n * Slot \in Nat
    BY <2>3, ProductType, ParametersAssumption
  <2> HIDE DEF u, b, n
  <2>5. u[s].slots = d[s].slots - n /\ u[s].start = b + n * Slot /\ u[s].aifsn = d[s].aifsn
    BY <1>1, <2>1 DEF DcfFields
  <2>6. GetBackoffStartFor(l, u, s) = b + n * Slot
    BY <1>2, <2>4, <2>5 DEF GetBackoffStartFor, MostRecent
  <2>7. CASE n = d[s].slots
    <3>1. u[s].slots = 0
      BY <1>1, <2>5, <2>7
    <3>2. u[s].slots = Left(l, d, s) /\ u[s].slots = 0
      BY <2>2, <2>5, <3>1
    <3> QED  BY <3>2 DEF u
  <2>8. CASE n # d[s].slots
    <3>1. n = (now - b) \div Slot
      BY <2>3, <2>8 DEF ElapsedSlots, n
    <3>2. now - b \in Nat
      BY <1>2, <1>4
    <3>3. now - b < n * Slot + Slot
      BY <3>1, <3>2, QuotientBound, ParametersAssumption
    <3>4. PICK p \in Nat : p = n * Slot
      BY <2>4
    <3>5. now < b + p + Slot
      BY <1>2, <3>3, <3>4, ParametersAssumption
    <3>6. u[s].slots = Left(l, d, s) /\ now < GetBackoffStartFor(l, u, s) + Slot
      BY <2>2, <2>5, <2>6, <3>4, <3>5
    <3> QED  BY <3>6 DEF u
  <2> QED  BY <2>7, <2>8
<1> QED  BY <1>3, <1>4

\* Before access may start no slot elapses.
LEMMA BlockedIsCurrent ==
  ASSUME now \in Nat, NEW l \in LastFields, NEW d \in Contenders, now <= GetAccessGrantStart(l)
  PROVE  /\ Current(l, d)
         /\ \A s \in Dcf : Left(l, d, s) = d[s].slots /\ UpdateBackoff(l, d)[s].slots = d[s].slots
<1>1. ASSUME NEW s \in Dcf
      PROVE  now < GetBackoffStartFor(l, d, s) + Slot
  <2>1. PICK a \in Nat : a = d[s].aifsn * Slot
    BY BackoffStartBounds
  <2>2. GetBackoffStartFor(l, d, s) \in Nat /\ GetBackoffStartFor(l, d, s) >= GetAccessGrantStart(l) + a
    BY <2>1, BackoffStartBounds
  <2>3. GetAccessGrantStart(l) \in Nat
    BY AccessGrantStartType
  <2> QED  BY <2>1, <2>2, <2>3, ParametersAssumption
<1>2. Current(l, d)
  BY <1>1 DEF Current
<1>3. \A s \in Dcf : Left(l, d, s) = d[s].slots
  BY <1>1, NothingElapsed
<1> QED  BY <1>2, <1>3, UpdateBackoffLeaves

\* Whose backoff is over has no slots left, when no slot is uncounted.
LEMMA CurrentIsSettled ==
  ASSUME now \in Nat, NEW l \in LastFields, NEW d \in Contenders, Current(l, d)
  PROVE  Settled(l, d)
<1> SUFFICES ASSUME NEW s \in Dcf, GetBackoffEndFor(l, d, s) <= now, d[s].slots # 0
             PROVE  FALSE
  BY DEF Settled
<1>1. d[s].slots \in Nat \ {0}
  BY DEF Contenders, DcfFields
<1>2. PICK p \in Nat : p = d[s].slots * Slot /\ p >= Slot
  BY <1>1, OneSlotAtLeast, ProductType, ParametersAssumption
<1>3. GetBackoffStartFor(l, d, s) \in Nat
  BY BackoffTypes
<1>4. GetBackoffEndFor(l, d, s) = GetBackoffStartFor(l, d, s) + p
  BY <1>2 DEF GetBackoffEndFor
<1>5. now < GetBackoffStartFor(l, d, s) + Slot
  BY <1>1 DEF Current
<1> QED  BY <1>2, <1>3, <1>4, <1>5, ParametersAssumption

\* A backoff depends on when it was updated, its slots and its AIFSN only.
LEMMA LeftDepends ==
  ASSUME NEW l, NEW d, NEW e, NEW s,
         e[s].slots = d[s].slots, e[s].start = d[s].start, e[s].aifsn = d[s].aifsn
  PROVE  /\ GetBackoffStartFor(l, e, s) = GetBackoffStartFor(l, d, s)
         /\ Left(l, e, s) = Left(l, d, s)
  BY DEF Left, GetBackoffStartFor

\* Before access may start, what is left depends on the slots only.
LEMMA BlockedLeft ==
  ASSUME now \in Nat, NEW l \in LastFields, NEW d \in Contenders, NEW m \in LastFields,
         NEW e \in Contenders, NEW s \in Dcf, e[s].slots = Left(l, d, s),
         now <= GetAccessGrantStart(m)
  PROVE  Left(m, e, s) = Left(l, d, s)
  BY BlockedIsCurrent

\* A first frame is sent on an idle medium: no backoff starts earlier for it, and
\* none goes on while it is on the air.
LEMMA FirstFrameBlocks ==
  ASSUME now \in Nat, NEW l \in LastFields, Begun(l), air \in AirFields, Seen(l, air),
         GetAccessGrantStart(l) <= now, NEW frame, NEW duration \in TxDurations
  PROVE  /\ Interrupted(l, frame, duration) \in LastFields
         /\ GetAccessGrantStart(l) <= GetAccessGrantStart(Interrupted(l, frame, duration))
         /\ TransmitLast(l, frame, duration) \in LastFields
         /\ now < GetAccessGrantStart(TransmitLast(l, frame, duration))
<1> DEFINE i == Interrupted(l, frame, duration)
           m == TransmitLast(l, frame, duration)
<1>1. duration \in Nat \ {0} /\ ResponseTimeout \in Nat
  BY EnvironmentAssumption
<1>2. ~l.rxing /\ l.ackEnd < now
  BY IdleAtGrantStart
<1>3. /\ i \in LastFields /\ ~i.rxing /\ i.rxEnd = l.rxEnd /\ i.rxOk = l.rxOk
      /\ i.txEnd = l.txEnd /\ i.busyEnd = l.busyEnd /\ i.navEnd = l.navEnd
      /\ i.switchEnd = l.switchEnd
      /\ i.ackEnd = l.ackEnd \/ i.ackEnd = now + (duration + ResponseTimeout)
      /\ i.ctsEnd = l.ctsEnd \/ i.ctsEnd = now + (duration + ResponseTimeout)
  <2>1. l.rxOk \in BOOLEAN
    BY DEF LastFields
  <2> QED  BY <1>1, <1>2, <2>1, InterruptedFields
<1>4. m \in LastFields /\ m.txEnd = now + duration
  BY <1>1, TransmitLastFields
<1> HIDE DEF i, m
<1>5. l.ctsEnd < now
  BY GrantStartBounds, ParametersAssumption DEF LastFields
<1>6. now < GetAccessGrantStart(m)
  BY <1>1, <1>4, GrantStartBounds, ParametersAssumption
<1>7. l.ackEnd <= i.ackEnd /\ l.ctsEnd <= i.ctsEnd
  BY <1>1, <1>2, <1>3, <1>5 DEF LastFields
<1>8. RxAccessStart(i) = RxAccessStart(l)
  BY <1>2, <1>3 DEF RxAccessStart
<1>9. GetAccessGrantStart(l) <= GetAccessGrantStart(i)
  <2>1. RxAccessStart(l) \in Nat
    BY GrantStartBounds
  <2> QED
    BY <1>3, <1>7, <1>8, <2>1, ParametersAssumption DEF GetAccessGrantStart, MostRecent, LastFields
<1> QED  BY <1>3, <1>4, <1>6, <1>9 DEF i, m

\* A step that starts from the fields l and the contenders d takes nothing off a
\* backoff, and gives none back, where no assertion about it fails.
Counts(l, d) ==
  \A s \in Dcf : Left(l, d, s) > 0 /\ dcf'[s].ok => Left(last', dcf', s) = Left(l, d, s)

\* DoGrantAccess, of backoffs that are up to date.
LEMMA GrantAccessCounts ==
  ASSUME Typed, NEW l \in LastFields, Begun(l), Seen(l, air), NEW d \in Contenders,
         Current(l, d), NEW tm, NEW lw, NEW h, NEW ra, GrantAccess(l, d, tm, lw, h, ra)
  PROVE  Counts(l, d)
<1>1. now \in Nat /\ air \in AirFields /\ Settled(l, d)
  BY CurrentIsSettled DEF Typed, Local
<1>2. CASE Nothing(l, d, lw, h, ra)
  BY <1>2 DEF Nothing, Counts
<1>3. ASSUME NEW w \in Ready(l, d), NEW draws \in [Ready(l, d) \ {w} -> Nat],
             NEW a \in Contenders, Granting(d, a, w), NEW s \in Dcf, Left(l, d, s) > 0
      PROVE  /\ s # w /\ s \notin DOMAIN draws
             /\ a[s] = d[s]
             /\ Left(l, d, s) = d[s].slots
             /\ now < GetBackoffStartFor(l, d, s) + Slot
  <2>1. \A x \in Ready(l, d) : d[x].slots = 0
    BY <1>1 DEF Ready, Settled
  <2>2. Left(l, d, s) \in Nat /\ Left(l, d, s) <= d[s].slots /\ d[s].slots \in Nat
    BY <1>1, NothingElapsed DEF Contenders, DcfFields
  <2>3. s \notin Ready(l, d)
    BY <1>3, <2>1, <2>2
  <2>4. now < GetBackoffStartFor(l, d, s) + Slot
    BY <1>3, <2>2 DEF Current
  <2> QED  BY <1>1, <1>3, <2>3, <2>4, NothingElapsed DEF Granting
<1>4. ASSUME NEW w \in Ready(l, d), NEW draws \in [Ready(l, d) \ {w} -> Nat],
             NEW a \in Contenders, Granting(d, a, w),
             Declined(l, a, draws, lw, h, w, ra)
      PROVE  Counts(l, d)
  <2>1. dcf' = InternalCollisions(a, draws) /\ last' = l
    BY <1>4 DEF Declined
  <2>2. ASSUME NEW s \in Dcf, Left(l, d, s) > 0
        PROVE  Left(last', dcf', s) = Left(l, d, s)
    <3>1. s \notin DOMAIN draws /\ a[s] = d[s]
      BY <1>3, <1>4, <2>2
    <3>2. dcf'[s] = d[s]
      BY <2>1, <3>1 DEF InternalCollisions
    <3> QED  BY <2>1, <3>2, LeftDepends
  <2> QED  BY <2>2 DEF Counts
<1>5. ASSUME NEW w \in Ready(l, d), NEW draws \in [Ready(l, d) \ {w} -> Nat],
             NEW a \in Contenders, Granting(d, a, w),
             NEW frame \in FirstFrames, NEW duration \in TxDurations,
             Transmitted(l, a, draws, h, w, frame, duration)
      PROVE  Counts(l, d)
  <2> DEFINE i == Interrupted(l, frame, duration)
  <2>1. /\ dcf' = InternalCollisions(UpdateBackoff(i, a), draws)
        /\ last' = TransmitLast(l, frame, duration)
    BY <1>5 DEF Transmitted, TransmitDcf, Interrupted
  <2>2. GetAccessGrantStart(l) <= now
    BY <1>1, ReadyBounds, AccessGrantStartType
  <2>3. /\ i \in LastFields /\ GetAccessGrantStart(l) <= GetAccessGrantStart(i)
        /\ last' \in LastFields /\ now < GetAccessGrantStart(last')
    BY <1>1, <2>1, <2>2, FirstFrameBlocks
  <2> HIDE DEF i
  <2>4. dcf' \in Contenders
    <3>1. UpdateBackoff(i, a) \in Contenders
      BY <1>1, <2>3, UpdateBackoffType
    <3>2. Ready(l, d) \ {w} \in SUBSET Dcf
      BY DEF Ready
    <3> QED  BY <1>1, <2>1, <3>1, <3>2, InternalCollisionsType
  <2>5. ASSUME NEW s \in Dcf, Left(l, d, s) > 0
        PROVE  Left(last', dcf', s) = Left(l, d, s)
    <3>1. /\ s \notin DOMAIN draws /\ a[s] = d[s] /\ Left(l, d, s) = d[s].slots
          /\ now < GetBackoffStartFor(l, d, s) + Slot
      BY <1>3, <1>5, <2>5
    <3>2. dcf'[s] = UpdateBackoff(i, a)[s]
      BY <2>1, <3>1 DEF InternalCollisions, UpdateBackoff
    <3>3. GetBackoffStartFor(l, d, s) <= GetBackoffStartFor(i, a, s)
      <4>1. PICK p \in Nat : p = d[s].aifsn * Slot
        BY BackoffStartBounds
      <4>2. /\ GetBackoffStartFor(l, d, s) = MostRecent(d[s].start, GetAccessGrantStart(l) + p)
            /\ GetBackoffStartFor(i, a, s) = MostRecent(d[s].start, GetAccessGrantStart(i) + p)
        BY <3>1, <4>1 DEF GetBackoffStartFor
      <4>3. /\ GetAccessGrantStart(l) \in Nat /\ GetAccessGrantStart(i) \in Nat
            /\ d[s].start \in Nat
        BY <2>3, AccessGrantStartType DEF Contenders, DcfFields
      <4> QED  BY <2>3, <4>2, <4>3 DEF MostRecent
    <3>4. GetBackoffStartFor(l, d, s) \in Nat /\ GetBackoffStartFor(i, a, s) \in Nat
      BY <2>3, BackoffTypes
    <3>5. now < GetBackoffStartFor(i, a, s) + Slot
      BY <1>1, <3>1, <3>3, <3>4, ParametersAssumption
    <3>6. UpdateBackoff(i, a)[s].slots = d[s].slots
      BY <1>1, <2>3, <3>1, <3>5, NothingElapsed, UpdateBackoffLeaves
    <3>7. dcf'[s].slots = Left(l, d, s)
      BY <3>1, <3>2, <3>6
    <3>8. now <= GetAccessGrantStart(last')
      BY <1>1, <2>3, AccessGrantStartType
    <3> QED  BY <1>1, <2>3, <2>4, <3>7, <3>8, BlockedLeft
  <2> QED  BY <2>5 DEF Counts
<1> QED  BY <1>2, <1>4, <1>5, GrantAccessForms

\* What RequestAccess passes on to DoGrantAccess: backoffs that are up to date, of
\* which nothing is lost, and a backoff drawn only while access may not start.
LEMMA RequestForms ==
  ASSUME Typed, NEW l \in LastFields, Begun(l), Seen(l, air), NEW d \in Contenders,
         NEW s \in Dcf, NEW tm, NEW lw, NEW h, NEW ra, Request(l, d, s, tm, lw, h, ra)
  PROVE  \E e \in Contenders :
           /\ GrantAccess(l, e, tm, lw, h, ra)
           /\ Current(l, e)
           /\ \A x \in Dcf :
                /\ e[x].requested = (d[x].requested \/ x = s)
                /\ e[x].aifsn = d[x].aifsn
                /\ Left(l, d, x) > 0 => Left(l, e, x) = Left(l, d, x)
                /\ GetAccessGrantStart(l) <= now => e[x].slots = Left(l, d, x)
<1> DEFINE u == UpdateBackoff(l, d)
           n == NotifyAccessRequested(u, s)
<1>1. now \in Nat /\ air \in AirFields
  BY DEF Typed, Local
<1>2. /\ u \in Contenders /\ Current(l, u)
      /\ \A x \in Dcf : /\ u[x].slots = Left(l, d, x) /\ u[x].requested = d[x].requested
                        /\ u[x].aifsn = d[x].aifsn
  BY <1>1, UpdateBackoffType, UpdateBackoffLeaves, UpdateBackoffKeeps
<1> HIDE DEF u
<1>3. n \in Contenders
  BY <1>1, <1>2, DcfStateTypes
<1>4. \A x \in Dcf : /\ n[x].requested = (u[x].requested \/ x = s)
                     /\ n[x].slots = u[x].slots /\ n[x].start = u[x].start
                     /\ n[x].aifsn = u[x].aifsn
  <2>1. ASSUME NEW x \in Dcf, x = s
        PROVE  /\ n[x].requested = TRUE
               /\ n[x].slots = u[x].slots /\ n[x].start = u[x].start
               /\ n[x].aifsn = u[x].aifsn
    BY <1>2, <2>1 DEF NotifyAccessRequested, Contenders, DcfFields
  <2>2. ASSUME NEW x \in Dcf, x # s
        PROVE  n[x] = u[x] /\ u[x].requested \in BOOLEAN
    BY <1>2, <2>2 DEF NotifyAccessRequested, Contenders, DcfFields
  <2> QED  BY <2>1, <2>2
<1>5. Request(l, d, s, tm, lw, h, ra) =>
        \/ /\ n[s].slots = 0 /\ IsBusy(l)
           /\ \E r \in 0..n[s].cw : GrantAccess(l, StartBackoffNow(n, s, r), tm, lw, h, ra)
        \/ GrantAccess(l, n, tm, lw, h, ra)
  BY DEF Request, u
<1> HIDE DEF n
<1>6. Current(l, n)
  BY <1>2, <1>4, LeftDepends DEF Current
<1>7. \A x \in Dcf : Left(l, n, x) = Left(l, d, x) /\ n[x].slots = Left(l, d, x)
  BY <1>1, <1>2, <1>3, <1>4, <1>6, NothingElapsed DEF Current
<1>8. CASE GrantAccess(l, n, tm, lw, h, ra)
  BY <1>2, <1>3, <1>4, <1>6, <1>7, <1>8
<1>9. ASSUME NEW r \in 0..n[s].cw, n[s].slots = 0, IsBusy(l),
             GrantAccess(l, StartBackoffNow(n, s, r), tm, lw, h, ra)
      PROVE  \E e \in Contenders :
               /\ GrantAccess(l, e, tm, lw, h, ra)
               /\ Current(l, e)
               /\ \A x \in Dcf :
                    /\ e[x].requested = (d[x].requested \/ x = s)
                    /\ e[x].aifsn = d[x].aifsn
                    /\ Left(l, d, x) > 0 => Left(l, e, x) = Left(l, d, x)
                    /\ GetAccessGrantStart(l) <= now => e[x].slots = Left(l, d, x)
  <2> DEFINE e == StartBackoffNow(n, s, r)
  <2>1. r \in Nat
    BY <1>3 DEF Contenders, DcfFields
  <2>2. e \in Contenders
    BY <1>1, <1>3, <2>1, DcfStateTypes
  <2>3. /\ e[s].start = now /\ e[s].requested = n[s].requested /\ e[s].aifsn = n[s].aifsn
        /\ \A x \in Dcf \ {s} : e[x] = n[x]
    BY <1>1, <1>3, <2>1 DEF StartBackoffNow, Contenders, DcfFields
  <2> HIDE DEF e
  <2>4. now < GetBackoffStartFor(l, e, s) + Slot
    BY <1>1, <2>2, <2>3, BackoffStartBounds, ParametersAssumption
  <2>5. Current(l, e)
    BY <1>6, <2>3, <2>4, LeftDepends DEF Current
  <2>6. ~(GetAccessGrantStart(l) <= now)
    <3>1. l.rxing => now <= RxAccessStart(l)
      BY DEF Seen, RxAccessStart
    <3> QED
      BY <1>1, <1>9, <3>1, GrantStartBounds, ParametersAssumption DEF IsBusy, LastFields
  <2>7. \A x \in Dcf : Left(l, d, x) > 0 => Left(l, e, x) = Left(l, d, x)
    BY <1>7, <1>9, <2>3, LeftDepends
  <2>8. \A x \in Dcf : /\ e[x].requested = (d[x].requested \/ x = s)
                       /\ e[x].aifsn = d[x].aifsn
    BY <1>2, <1>4, <2>3
  <2>9. GrantAccess(l, e, tm, lw, h, ra)
    BY <1>9 DEF e
  <2> QED  BY <2>2, <2>5, <2>6, <2>7, <2>8, <2>9
<1> QED  BY <1>5, <1>8, <1>9

LEMMA RequestCounts ==
  ASSUME Typed, NEW l \in LastFields, Begun(l), Seen(l, air), NEW d \in Contenders,
         NEW s \in Dcf, NEW tm, NEW lw, NEW h, NEW ra, Request(l, d, s, tm, lw, h, ra)
  PROVE  Counts(l, d)
<1>1. PICK e \in Contenders :
        /\ GrantAccess(l, e, tm, lw, h, ra) /\ Current(l, e)
        /\ \A x \in Dcf : Left(l, d, x) > 0 => Left(l, e, x) = Left(l, d, x)
  BY RequestForms
<1>2. Counts(l, e)
  BY <1>1, GrantAccessCounts
<1> QED  BY <1>1, <1>2 DEF Counts

\* The end of an exchange draws a backoff for its owner and lets it ask again.  The
\* owner has none, unless it has asked already.
LEMMA AfterExchangeForms ==
  ASSUME Typed, NEW l, NEW d \in Contenders, NEW s \in Dcf,
         NEW tm, NEW h, AfterExchange(l, d, s, tm, h)
  PROVE  \E e \in Contenders :
           /\ \/ Request(l, e, s, tm, Idle, h, respondAt) /\ ~d[s].requested
              \/ dcf' = e /\ last' = l /\ low' = Idle
           /\ e[s].ok => d[s].slots = 0
           /\ \A x \in Dcf : e[x].requested = d[x].requested /\ e[x].aifsn = d[x].aifsn
           /\ \A x \in Dcf \ {s} : Left(l, e, x) = Left(l, d, x)
<1>1. PICK r \in 0..d[s].cw :
        LET e == StartBackoffNow(d, s, r) IN
        \/ Request(l, e, s, tm, Idle, h, respondAt) /\ ~e[s].requested
        \/ dcf' = e /\ last' = l /\ low' = Idle
  BY Zenon DEF AfterExchange
<1> DEFINE e == StartBackoffNow(d, s, r)
<1>2. now \in Nat /\ r \in Nat
  BY DEF Typed, Contenders, DcfFields
<1>3. e \in Contenders
  BY <1>2, DcfStateTypes
<1>4. /\ \A x \in Dcf : e[x].requested = d[x].requested /\ e[x].aifsn = d[x].aifsn
      /\ \A x \in Dcf \ {s} : e[x] = d[x]
      /\ e[s].ok => d[s].slots = 0
  BY <1>2 DEF StartBackoffNow, Contenders, DcfFields
<1> HIDE DEF e
<1>5. \A x \in Dcf \ {s} : Left(l, e, x) = Left(l, d, x)
  BY <1>4, LeftDepends
<1>6. \/ Request(l, e, s, tm, Idle, h, respondAt) /\ ~d[s].requested
      \/ dcf' = e /\ last' = l /\ low' = Idle
  BY <1>1, <1>4 DEF e
<1> QED  BY <1>3, <1>4, <1>5, <1>6

LEMMA AfterExchangeCounts ==
  ASSUME Typed, NEW l \in LastFields, Begun(l), Seen(l, air), NEW d \in Contenders,
         NEW s \in Dcf, d[s].requested \/ d[s].slots = 0,
         NEW tm, NEW h, AfterExchange(l, d, s, tm, h)
  PROVE  Counts(l, d)
<1>1. PICK e \in Contenders :
        /\ \/ Request(l, e, s, tm, Idle, h, respondAt) /\ ~d[s].requested
           \/ dcf' = e /\ last' = l /\ low' = Idle
        /\ e[s].ok => d[s].slots = 0
        /\ \A x \in Dcf \ {s} : Left(l, e, x) = Left(l, d, x)
  BY AfterExchangeForms
<1>2. d[s].slots = 0 => Left(l, d, s) = 0
  BY NothingElapsed DEF Typed
<1>3. Counts(l, e)
  BY <1>1, RequestCounts DEF Counts
<1>4. CASE d[s].slots = 0
  BY <1>1, <1>2, <1>3, <1>4 DEF Counts
<1>5. CASE d[s].requested /\ d[s].slots # 0
  BY <1>1, <1>3, <1>5 DEF Counts
<1> QED  BY <1>4, <1>5

\* Its two forms: the frame is done with, or it is kept.
LEMMA OutcomeForms ==
  ASSUME Typed, Owned(dcf, low, holding), low.phase # "idle", NEW l, NEW tm,
         Done(l, tm) \/ (l = last /\ Retry)
  PROVE  \E d \in Contenders : \E t, h :
           /\ AfterExchange(l, d, low.owner, t, h)
           /\ \A x \in Dcf :
                /\ d[x].requested = dcf[x].requested /\ d[x].slots = dcf[x].slots
                /\ d[x].start = dcf[x].start /\ d[x].aifsn = dcf[x].aifsn
           /\ d[low.owner].requested \/ d[low.owner].slots = 0
<1> DEFINE s == low.owner
<1>1. /\ s \in Dcf /\ dcf \in Contenders /\ now \in Nat
      /\ dcf[s].requested \/ dcf[s].slots = 0
  BY DEF Typed, Local, LowFields, Owned
<1>2. ASSUME NEW w \in Nat
      PROVE  LET d == [dcf EXCEPT ![s].cw = w] IN
             /\ d \in Contenders
             /\ \A x \in Dcf :
                  /\ d[x].requested = dcf[x].requested /\ d[x].slots = dcf[x].slots
                  /\ d[x].start = dcf[x].start /\ d[x].aifsn = dcf[x].aifsn
             /\ d[s].requested \/ d[s].slots = 0
  BY <1>1 DEF Contenders, DcfFields
<1>3. CASE Done(l, tm)
  <2>1. PICK w \in Nat : w = dcf[s].cwMin
    BY <1>1 DEF Contenders, DcfFields
  <2>2. AfterExchange(l, [dcf EXCEPT ![s].cw = w], s, tm, holding \ {s})
    BY <1>3, <2>1 DEF Done, ResetCw
  <2> HIDE DEF s
  <2>3. PICK d \in Contenders : d = [dcf EXCEPT ![s].cw = w]
    BY <1>2
  <2> QED  BY <1>2, <2>2, <2>3 DEF s
<1>4. CASE l = last /\ Retry
  <2>1. PICK w \in Nat : w = IF 2 * (dcf[s].cw + 1) - 1 <= dcf[s].cwMax
                             THEN 2 * (dcf[s].cw + 1) - 1 ELSE dcf[s].cwMax
    BY <1>1 DEF Contenders, DcfFields
  <2>2. UpdateFailedCw(dcf, s) = [dcf EXCEPT ![s].cw = w]
    BY <2>1, Zenon DEF UpdateFailedCw
  <2>3. AfterExchange(l, [dcf EXCEPT ![s].cw = w], s, timer, holding)
    BY <1>4, <2>2 DEF Retry
  <2> HIDE DEF s
  <2>4. PICK d \in Contenders : d = [dcf EXCEPT ![s].cw = w]
    BY <1>2
  <2> QED  BY <1>2, <2>3, <2>4 DEF s
<1> QED  BY <1>3, <1>4

LEMMA OutcomeCounts ==
  ASSUME Typed, Owned(dcf, low, holding), low.phase # "idle",
         NEW l \in LastFields, Begun(l), Seen(l, air), NEW tm,
         Done(l, tm) \/ (l = last /\ Retry)
  PROVE  Counts(l, dcf)
<1>1. PICK d \in Contenders : \E t, h :
        /\ AfterExchange(l, d, low.owner, t, h)
        /\ \A x \in Dcf : /\ d[x].slots = dcf[x].slots /\ d[x].start = dcf[x].start
                          /\ d[x].aifsn = dcf[x].aifsn
        /\ d[low.owner].requested \/ d[low.owner].slots = 0
  BY OutcomeForms
<1>2. low.owner \in Dcf
  BY DEF Typed, Local, LowFields
<1>3. Counts(l, d)
  BY <1>1, <1>2, AfterExchangeCounts
<1>4. \A x \in Dcf : Left(l, d, x) = Left(l, dcf, x)
  BY <1>1, LeftDepends
<1> QED  BY <1>3, <1>4 DEF Counts

-----------------------------------------------------------------------------
(* The steps.                                                              *)

\* The steps that go through DoGrantAccess without a reception.
LEMMA AccessStepsCount ==
  ASSUME Inductive, StateConsistent,
         (\E s \in Dcf : RequestAccess(s)) \/ AccessTimeout \/ ResponseMissed \/ EndTxNoAck
  PROVE  Counts(last, dcf)
<1>1. /\ Typed /\ last \in LastFields /\ Begun(last) /\ dcf \in Contenders /\ now \in Nat
      /\ Seen(last, air) /\ Owned(dcf, low, holding)
  BY DEF Inductive, Typed, Local, StateConsistent, Consistent
<1>2. ASSUME NEW s \in Dcf, RequestAccess(s)
      PROVE  Counts(last, dcf)
  BY <1>1, <1>2, RequestCounts DEF RequestAccess
<1>3. CASE AccessTimeout
  <2> DEFINE u == UpdateBackoff(last, dcf)
  <2>1. /\ u \in Contenders /\ Current(last, u)
        /\ \A s \in Dcf : u[s].slots = Left(last, dcf, s)
    BY <1>1, UpdateBackoffType, UpdateBackoffLeaves
  <2>2. GrantAccess(last, u, NoTimer, low, holding, respondAt)
    BY <1>3 DEF AccessTimeout
  <2> HIDE DEF u
  <2>3. Counts(last, u)
    BY <1>1, <2>1, <2>2, GrantAccessCounts
  <2>4. \A s \in Dcf : Left(last, u, s) = Left(last, dcf, s)
    BY <1>1, <2>1, NothingElapsed DEF Current
  <2> QED  BY <2>3, <2>4 DEF Counts
<1>4. CASE ResponseMissed \/ EndTxNoAck
  <2>1. low.phase # "idle" /\ (Done(last, timer) \/ Retry)
    BY <1>4 DEF ResponseMissed, EndTxNoAck
  <2> QED  BY <1>1, <2>1, OutcomeCounts
<1> QED  BY <1>2, <1>3, <1>4

\* The steps of MacLow that follow a reception by a SIFS: access could not start
\* before them, and cannot after.
LEMMA SifsStepsCount ==
  ASSUME Inductive, StateConsistent, SifsElapsed \/ Respond
  PROVE  Counts(last, dcf)
<1>1. /\ last \in LastFields /\ Begun(last) /\ dcf \in Contenders /\ now \in Nat
      /\ low \in LowFields /\ respondAt \in TimerType /\ air \in AirFields
      /\ Seen(last, air) /\ Scheduled(last, air, low, respondAt)
  BY DEF Inductive, Typed, Local, StateConsistent, Consistent
<1>2. PICK frame \in {"ack", "noack"}, duration \in TxDurations :
        last' = TransmitLast(last, frame, duration) /\ dcf' = TransmitDcf(last, dcf, frame, duration)
  BY DEF SifsElapsed, FollowingFrames, Respond
<1>3. duration \in Nat /\ ((low.phase \in Following /\ low.at = now) \/ respondAt = now)
  BY EnvironmentAssumption DEF SifsElapsed, Respond
<1>4. now <= GetAccessGrantStart(last) /\ now <= Heard(last) + Sifs
  BY <1>1, <1>3, ScheduledBlocksGrant DEF Scheduled, NoTimer, TimerType
<1> DEFINE i == Interrupted(last, frame, duration)
<1>5. /\ i \in LastFields /\ ~i.rxing
      /\ i.rxEnd = IF last.rxing THEN now ELSE last.rxEnd
  BY <1>1, <1>3, InterruptedFields
<1>6. dcf' = UpdateBackoff(i, dcf)
  BY <1>2 DEF TransmitDcf, Interrupted
<1> HIDE DEF i
<1>7. now <= GetAccessGrantStart(i)
  <2>1. RxAccessStart(i) >= i.rxEnd /\ i.rxEnd \in Nat
    BY <1>5, ParametersAssumption DEF RxAccessStart, LastFields
  <2>2. Heard(last) <= i.rxEnd /\ Heard(last) \in Nat
    BY <1>1, <1>5 DEF Heard, LastFields, Begun
  <2> QED  BY <1>1, <1>4, <1>5, <2>1, <2>2, GrantStartBounds, ParametersAssumption
<1>8. last' \in LastFields /\ last'.txEnd = now + duration
  BY <1>1, <1>2, <1>3, TransmitLastFields
<1>9. now <= GetAccessGrantStart(last')
  BY <1>1, <1>3, <1>8, GrantStartBounds, ParametersAssumption
<1>10. dcf' \in Contenders
  BY <1>1, <1>5, <1>6, UpdateBackoffType
<1>11. ASSUME NEW s \in Dcf
       PROVE  Left(last', dcf', s) = Left(last, dcf, s)
  <2>1. dcf'[s].slots = dcf[s].slots
    BY <1>1, <1>5, <1>6, <1>7, BlockedIsCurrent
  <2>2. Left(last, dcf, s) = dcf[s].slots
    BY <1>1, <1>4, BlockedIsCurrent
  <2> QED  BY <1>1, <1>8, <1>9, <1>10, <2>1, <2>2, BlockedLeft
<1> QED  BY <1>11 DEF Counts

\* UpdateBackoff runs before the fields say that the medium is busy.
LEMMA BusyStepsCount ==
  ASSUME Inductive, StateConsistent, RxStart \/ CcaBusy
  PROVE  Counts(last, dcf)
<1>1. last \in LastFields /\ dcf \in Contenders /\ now \in Nat /\ air \in AirFields
  BY DEF Inductive, Typed, Local
<1>2. dcf' = UpdateBackoff(last, dcf)
  BY DEF RxStart, CcaBusy
<1>3. dcf' \in Contenders /\ \A s \in Dcf : dcf'[s].slots = Left(last, dcf, s)
  BY <1>1, <1>2, UpdateBackoffType, UpdateBackoffLeaves
<1>4. last' \in LastFields /\ now <= GetAccessGrantStart(last')
  <2>1. CASE RxStart
    <3>1. PICK duration \in RxDurations : last' = RxStarted(last, duration)
      BY <2>1 DEF RxStart
    <3>2. duration \in Nat
      BY EnvironmentAssumption
    <3>3. last' \in LastFields /\ last'.rxing /\ last'.rxStart = now /\ last'.rxDuration = duration
      BY <1>1, <3>1, <3>2 DEF RxStarted, LastFields
    <3>4. RxAccessStart(last') = now + duration
      BY <3>3 DEF RxAccessStart
    <3> QED  BY <1>1, <3>2, <3>3, <3>4, GrantStartBounds, ParametersAssumption
  <2>2. CASE CcaBusy
    <3>1. PICK duration \in CcaDurations : last' = [last EXCEPT !.busyEnd = now + duration]
      BY <2>2 DEF CcaBusy
    <3>2. duration \in Nat
      BY EnvironmentAssumption
    <3>3. last' \in LastFields /\ last'.busyEnd = now + duration
      BY <1>1, <3>1, <3>2 DEF LastFields
    <3> QED  BY <1>1, <3>2, <3>3, GrantStartBounds, ParametersAssumption
  <2> QED  BY <2>1, <2>2
<1> QED  BY <1>1, <1>3, <1>4, BlockedLeft DEF Counts

\* At the end of a reception access may start a SIFS later at the earliest,
\* before and after the manager is told.
LEMMA ReceptionBlocks ==
  ASSUME Inductive, StateConsistent, RxDue
  PROVE  /\ now <= GetAccessGrantStart(last)
         /\ \A s \in Dcf : Left(last, dcf, s) = dcf[s].slots
         /\ \A l \in LastFields :
              ~l.rxing /\ l.rxEnd = now =>
                /\ now < GetAccessGrantStart(l)
                /\ \A s \in Dcf : Left(l, dcf, s) = dcf[s].slots
<1>1. last \in LastFields /\ dcf \in Contenders /\ now \in Nat
  BY DEF Inductive, Typed, Local
<1>2. now <= GetAccessGrantStart(last)
  BY <1>1, ReceptionDue, GrantStartBounds, ParametersAssumption
<1>3. ASSUME NEW l \in LastFields, ~l.rxing, l.rxEnd = now
      PROVE  now < GetAccessGrantStart(l)
  <2>1. now <= RxAccessStart(l)
    BY <1>1, <1>3, ParametersAssumption DEF RxAccessStart
  <2> QED  BY <1>1, <2>1, GrantStartBounds, ParametersAssumption
<1>4. \A l \in LastFields : now <= GetAccessGrantStart(l) =>
                              \A s \in Dcf : Left(l, dcf, s) = dcf[s].slots
  BY <1>1, BlockedIsCurrent
<1>5. ASSUME NEW l \in LastFields, ~l.rxing, l.rxEnd = now
      PROVE  /\ now < GetAccessGrantStart(l)
             /\ \A s \in Dcf : Left(l, dcf, s) = dcf[s].slots
  <2>1. now < GetAccessGrantStart(l) /\ GetAccessGrantStart(l) \in Nat
    BY <1>3, <1>5, AccessGrantStartType
  <2> QED  BY <1>1, <1>4, <2>1
<1> QED  BY <1>1, <1>2, <1>4, <1>5

LEMMA ReceptionStepsCount ==
  ASSUME Inductive, StateConsistent,
         \/ RxEndError \/ RxOther \/ RxCfPoll \/ RxForUs
         \/ \E s \in Originators : GotAddBaResponse(s)
         \/ RxCts \/ RxAck \/ RxBlockAck
  PROVE  Counts(last, dcf)
<1>1. /\ Typed /\ last \in LastFields /\ dcf \in Contenders /\ now \in Nat
      /\ low \in LowFields /\ Owned(dcf, low, holding)
  BY DEF Inductive, Typed, Local, StateConsistent, Consistent
<1>2. RxDue
  BY DEF RxEndError, RxOther, RxCfPoll, RxForUs, GotAddBaResponse, RxCts, RxAck, RxBlockAck
<1>3. ASSUME NEW isOk \in BOOLEAN
      PROVE  LET l == RxEnded(last, isOk) IN
             /\ l \in LastFields /\ ~l.rxing /\ l.rxEnd = now /\ Begun(l) /\ Seen(l, air)
  BY <1>2, RxEndedConsistent
<1>4. \A s \in Dcf : Left(last, dcf, s) = dcf[s].slots
  BY <1>2, ReceptionBlocks
\* What the manager is told after the end of the reception leaves that end alone.
<1>5. ASSUME NEW l \in LastFields, ~l.rxing, l.rxEnd = now
      PROVE  /\ now <= GetAccessGrantStart(l)
             /\ \A s \in Dcf : Left(l, dcf, s) = Left(last, dcf, s)
             /\ UpdateBackoff(l, dcf) \in Contenders
             /\ \A s \in Dcf : UpdateBackoff(l, dcf)[s].slots = Left(last, dcf, s)
  <2>1. now <= GetAccessGrantStart(l)
    BY <1>1, <1>2, <1>5, ReceptionBlocks, AccessGrantStartType
  <2>2. \A s \in Dcf : Left(l, dcf, s) = Left(last, dcf, s)
    BY <1>2, <1>4, <1>5, ReceptionBlocks
  <2> QED  BY <1>1, <2>1, <2>2, UpdateBackoffType, UpdateBackoffLeaves
<1>6. ASSUME last' \in LastFields, ~last'.rxing, last'.rxEnd = now,
             dcf' \in Contenders, \A s \in Dcf : dcf'[s].slots = Left(last, dcf, s)
      PROVE  Counts(last, dcf)
  BY <1>1, <1>5, <1>6, BlockedLeft DEF Counts
<1>7. CASE RxEndError \/ RxForUs
  <2>1. dcf' = dcf /\ \E isOk \in BOOLEAN : last' = RxEnded(last, isOk)
    BY <1>7 DEF RxEndError, RxForUs
  <2> QED  BY <1>1, <1>3, <1>4, <1>6, <2>1
<1>8. CASE RxOther
  <2> DEFINE l == RxEnded(last, TRUE)
  <2>1. PICK duration \in NavDurations :
          dcf' = UpdateBackoff(l, dcf) /\ last' = NavStarted(l, duration)
    BY <1>8 DEF RxOther
  <2>2. duration \in Nat
    BY EnvironmentAssumption
  <2>3. l \in LastFields /\ ~l.rxing /\ l.rxEnd = now
    BY <1>3
  <2> HIDE DEF l
  <2>4. last' \in LastFields /\ ~last'.rxing /\ last'.rxEnd = now
    BY <1>1, <2>1, <2>2, <2>3 DEF NavStarted, LastFields
  <2> QED  BY <1>5, <1>6, <2>1, <2>3, <2>4
<1>9. CASE RxCfPoll
  <2> DEFINE l == RxEnded(last, TRUE)
             u == UpdateBackoff(l, dcf)
  <2>1. PICK duration \in NavDurations :
          /\ last' = [l EXCEPT !.navEnd = now + duration]
          /\ dcf' = UpdateBackoff(last', u)
    BY <1>9 DEF RxCfPoll
  <2>2. duration \in Nat
    BY EnvironmentAssumption
  <2>3. l \in LastFields /\ ~l.rxing /\ l.rxEnd = now
    BY <1>3
  <2>4. u \in Contenders /\ \A s \in Dcf : u[s].slots = Left(last, dcf, s)
    BY <1>5, <2>3
  <2> HIDE DEF l, u
  <2>5. last' \in LastFields /\ ~last'.rxing /\ last'.rxEnd = now
    BY <1>1, <2>1, <2>2, <2>3 DEF LastFields
  <2>6. now <= GetAccessGrantStart(last')
    BY <1>5, <2>5
  <2>7. dcf' \in Contenders /\ \A s \in Dcf : dcf'[s].slots = u[s].slots
    BY <1>1, <2>1, <2>4, <2>5, <2>6, UpdateBackoffType, BlockedIsCurrent
  <2> QED  BY <1>6, <2>4, <2>5, <2>7
<1>10. ASSUME NEW l, l = CtsTimeoutReset(RxEnded(last, TRUE))
                     \/ l = AckTimeoutReset(RxEnded(last, TRUE)) \/ l = RxEnded(last, TRUE)
       PROVE  l \in LastFields /\ ~l.rxing /\ l.rxEnd = now /\ Begun(l) /\ Seen(l, air)
  <2> DEFINE m == RxEnded(last, TRUE)
  <2>1. m \in LastFields /\ ~m.rxing /\ m.rxEnd = now /\ Begun(m) /\ Seen(m, air)
    BY <1>3
  <2> HIDE DEF m
  <2>2. l \in LastFields /\ l.rxing = m.rxing /\ l.rxEnd = m.rxEnd /\ l.rxOk = m.rxOk
    BY <1>1, <1>10, <2>1 DEF CtsTimeoutReset, AckTimeoutReset, LastFields, m
  <2>3. /\ l.txEnd = m.txEnd /\ l.busyEnd = m.busyEnd /\ l.navEnd = m.navEnd
        /\ l.switchEnd = m.switchEnd
    BY <1>1, <1>10, <2>1 DEF CtsTimeoutReset, AckTimeoutReset, LastFields, m
  <2> QED  BY <2>1, <2>2, <2>3 DEF Begun, Seen, RxAccessStart
<1>11. CASE \/ RxCts
            \/ RxAck /\ dcf' = dcf /\ last' = AckTimeoutReset(RxEnded(last, TRUE))
  <2>1. /\ dcf' = dcf
        /\ \/ last' = CtsTimeoutReset(RxEnded(last, TRUE))
           \/ last' = AckTimeoutReset(RxEnded(last, TRUE))
    BY <1>11 DEF RxCts
  <2> QED  BY <1>1, <1>4, <1>6, <1>10, <2>1
<1>12. ASSUME NEW l, NEW tm, Done(l, tm), low.phase # "idle",
              l = AckTimeoutReset(RxEnded(last, TRUE)) \/ l = RxEnded(last, TRUE)
       PROVE  Counts(last, dcf)
  <2>1. l \in LastFields /\ ~l.rxing /\ l.rxEnd = now /\ Begun(l) /\ Seen(l, air)
    BY <1>10, <1>12
  <2>2. Counts(l, dcf)
    BY <1>1, <1>12, <2>1, OutcomeCounts
  <2> QED  BY <1>5, <2>1, <2>2 DEF Counts
<1>13. CASE RxAck
  <2>1. \/ \E tm : Done(AckTimeoutReset(RxEnded(last, TRUE)), tm)
        \/ dcf' = dcf /\ last' = AckTimeoutReset(RxEnded(last, TRUE))
    BY <1>13 DEF RxAck
  <2> QED  BY <1>11, <1>12, <1>13, <2>1 DEF RxAck
<1>14. CASE RxBlockAck
  BY <1>12, <1>14 DEF RxBlockAck
<1>15. ASSUME NEW s \in Originators, GotAddBaResponse(s)
       PROVE  Counts(last, dcf)
  <2> DEFINE l == RxEnded(last, TRUE)
  <2>1. Request(l, dcf, s, timer, low, holding, now + Sifs)
    BY <1>15 DEF GotAddBaResponse
  <2>2. l \in LastFields /\ ~l.rxing /\ l.rxEnd = now /\ Begun(l) /\ Seen(l, air) /\ s \in Dcf
    BY <1>3, EnvironmentAssumption
  <2> HIDE DEF l
  <2>3. Counts(l, dcf)
    BY <1>1, <2>1, <2>2, RequestCounts
  <2> QED  BY <1>5, <2>2, <2>3 DEF Counts
<1> QED  BY <1>7, <1>8, <1>9, <1>11, <1>13, <1>14, <1>15

\* What the clock takes off a backoff: one slot at most, and that after the
\* backoff has started and a slot has passed.
LEMMA TickCounts ==
  ASSUME Inductive, Tick, NEW s \in Dcf
  PROVE  \/ Remaining(s)' = Remaining(s)
         \/ /\ Remaining(s)' = Remaining(s) - 1
            /\ GetBackoffStartFor(last, dcf, s) + Slot <= now'
<1> DEFINE b == GetBackoffStartFor(last, dcf, s)
           k == dcf[s].slots
           Capped(n) == IF n <= k THEN n ELSE k
<1>1. now \in Nat /\ now' = now + 1 /\ last' = last /\ dcf' = dcf /\ b \in Nat /\ k \in Nat
  BY BackoffTypes DEF Inductive, Typed, Local, Tick, Contenders, DcfFields
<1>2. /\ Remaining(s) = k - (IF b <= now THEN Capped((now - b) \div Slot) ELSE 0)
      /\ Remaining(s)' = k - (IF b <= now' THEN Capped((now' - b) \div Slot) ELSE 0)
  BY <1>1 DEF Remaining, Elapsed, ElapsedSlots, GetBackoffStartFor, GetAccessGrantStart,
              RxAccessStart
<1> HIDE DEF b, k
<1>3. CASE ~(b <= now')
  BY <1>1, <1>2, <1>3
<1>4. CASE b = now'
  <2>1. (now' - b) \div Slot = 0
    <3>1. now' - b = 0 /\ 0 < Slot
      BY <1>1, <1>4, ParametersAssumption
    <3> QED  BY <3>1, QuotientSteps, ParametersAssumption
  <2>2. Capped(0) = 0
    BY <1>1
  <2> QED  BY <1>1, <1>2, <1>4, <2>1, <2>2
<1>5. CASE b <= now
  <2>1. PICK a \in Nat, c \in Nat : a = now - b /\ c = a + 1
    BY <1>1, <1>5
  <2>2. now' - b = c /\ now' = b + c
    BY <1>1, <2>1
  <2>3. PICK p \in Nat, q \in Nat : p = a \div Slot /\ q = c \div Slot
    BY QuotientSteps, ParametersAssumption
  <2>4. q = p \/ q = p + 1
    BY <2>1, <2>3, QuotientSteps, ParametersAssumption
  <2>5. c < Slot => q = 0
    BY <2>3, QuotientSteps, ParametersAssumption
  <2>6. Remaining(s) = k - Capped(p) /\ Remaining(s)' = k - Capped(q)
    <3>1. b <= now'
      BY <1>1, <1>5
    <3> QED  BY <1>2, <1>5, <2>1, <2>2, <2>3, <3>1
  <2>7. q # p => b + Slot <= now'
    BY <1>1, <2>2, <2>3, <2>4, <2>5, ParametersAssumption
  <2>8. Capped(q) = Capped(p) \/ (q # p /\ Capped(q) = Capped(p) + 1)
    BY <1>1, <2>4
  <2>9. Capped(p) \in Nat
    BY <1>1
  <2> HIDE DEF Capped
  <2> QED  BY <1>1, <2>6, <2>7, <2>8, <2>9 DEF b
<1> QED  BY <1>1, <1>3, <1>4, <1>5

\* Only the clock takes anything off a backoff.
LEMMA StepCounts ==
  ASSUME Inductive, StateConsistent, [Next]_vars, ~Tick, ~Switched, NEW s \in Dcf,
         Remaining(s) > 0, dcf'[s].ok
  PROVE  Remaining(s)' = Remaining(s)
<1>1. Left(last, dcf, s) = Remaining(s)
  BY DEF Left, Remaining, Elapsed
<1>2. now' = now => Left(last', dcf', s) = Remaining(s)'
  BY DEF Left, Remaining, Elapsed, ElapsedSlots, GetBackoffStartFor, GetAccessGrantStart,
         RxAccessStart
<1>3. CASE (\E x \in Dcf : RequestAccess(x)) \/ AccessTimeout \/ ResponseMissed \/ EndTxNoAck
  <2>1. now' = now
    BY <1>3 DEF RequestAccess, AccessTimeout, ResponseMissed, EndTxNoAck
  <2>2. Counts(last, dcf)
    BY <1>3, AccessStepsCount
  <2> QED  BY <1>1, <1>2, <2>1, <2>2 DEF Counts
<1>4. CASE SifsElapsed \/ Respond
  <2>1. now' = now
    BY <1>4 DEF SifsElapsed, Respond
  <2>2. Counts(last, dcf)
    BY <1>4, SifsStepsCount
  <2> QED  BY <1>1, <1>2, <2>1, <2>2 DEF Counts
<1>5. CASE RxStart \/ CcaBusy
  <2>1. now' = now
    BY <1>5 DEF RxStart, CcaBusy
  <2>2. Counts(last, dcf)
    BY <1>5, BusyStepsCount
  <2> QED  BY <1>1, <1>2, <2>1, <2>2 DEF Counts
<1>6. CASE \/ RxEndError \/ RxOther \/ RxCfPoll \/ RxForUs
           \/ \E x \in Originators : GotAddBaResponse(x)
           \/ RxCts \/ RxAck \/ RxBlockAck
  <2>1. now' = now
    BY <1>6
       DEF RxEndError, RxOther, RxCfPoll, RxForUs, GotAddBaResponse, RxCts, RxAck, RxBlockAck
  <2>2. Counts(last, dcf)
    BY <1>6, ReceptionStepsCount
  <2> QED  BY <1>1, <1>2, <2>1, <2>2 DEF Counts
<1>7. CASE UNCHANGED vars
  BY <1>1, <1>2, <1>7 DEF vars
<1>8. CASE Switch
  <2>1. PICK duration \in SwitchDurations :
          air' = [air EXCEPT !.switch = now + duration, !.eifs = 0, !.rx = Truncated(@),
                             !.cca = Truncated(@), !.nav = Truncated(@)]
    BY <1>8 DEF Switch
  <2>2. duration \in Nat \ {0} /\ now \in Nat /\ air \in AirFields /\ air.switch <= now
    BY <1>8, EnvironmentAssumption DEF Switch, Inductive, Typed, Local
  <2>3. air'.switch = now + duration
    BY <2>1, <2>2 DEF AirFields
  <2> QED  BY <2>2, <2>3 DEF Switched, AirFields
<1> QED
  BY <1>3, <1>4, <1>5, <1>6, <1>7, <1>8 DEF Next, Finished, EndTxNoAckUnheard

-----------------------------------------------------------------------------
(* Grants.                                                                 *)

\* DoGrantAccess takes the request of a contender that is ready, and starts an
\* exchange of no other.
LEMMA GrantAccessGrants ==
  ASSUME Typed, NEW l \in LastFields, Begun(l), NEW d \in Contenders, Current(l, d),
         NEW tm, NEW lw, NEW h, NEW ra, GrantAccess(l, d, tm, lw, h, ra), NEW s \in Dcf,
         ~dcf'[s].requested, d[s].requested \/ (low' # lw /\ low'.owner = s)
  PROVE  /\ GetAccessGrantStart(l) + d[s].aifsn * Slot <= now
         /\ GetAccessGrantStart(l) < now
         /\ d[s].slots = 0
<1>1. now \in Nat /\ Settled(l, d)
  BY CurrentIsSettled DEF Typed
<1>2. ~Nothing(l, d, lw, h, ra)
  BY DEF Nothing
<1>3. PICK w \in Ready(l, d) : \E draws \in [Ready(l, d) \ {w} -> Nat], a \in Contenders :
        /\ Granting(d, a, w)
        /\ \/ Declined(l, a, draws, lw, h, w, ra)
           \/ \E frame \in FirstFrames, duration \in TxDurations :
                Transmitted(l, a, draws, h, w, frame, duration)
  BY <1>2, GrantAccessForms
<1>4. s = w
  <2>1. PICK draws \in [Ready(l, d) \ {w} -> Nat], a \in Contenders :
          /\ Granting(d, a, w)
          /\ \/ Declined(l, a, draws, lw, h, w, ra)
             \/ \E frame \in FirstFrames, duration \in TxDurations :
                  Transmitted(l, a, draws, h, w, frame, duration)
    BY <1>3
  <2>2. CASE Declined(l, a, draws, lw, h, w, ra)
    <3>1. dcf' = InternalCollisions(a, draws) /\ low' = lw
      BY <2>2 DEF Declined
    <3>2. dcf'[s].requested = (d[s].requested /\ s # w)
      BY <1>1, <2>1, <3>1, CollidedFields
    <3> QED  BY <3>1, <3>2
  <2>3. ASSUME NEW frame \in FirstFrames, NEW duration \in TxDurations,
               Transmitted(l, a, draws, h, w, frame, duration)
        PROVE  s = w
    <3>1. /\ dcf' = InternalCollisions(TransmitDcf(l, a, frame, duration), draws)
          /\ low'.owner = w
      BY <2>3 DEF Transmitted, Exchange
    <3>2. dcf'[s].requested = (d[s].requested /\ s # w)
      BY <1>1, <2>1, <3>1, CollidedFields
    <3> QED  BY <3>1, <3>2
  <2> QED  BY <2>1, <2>2, <2>3
<1>5. d[s].slots = 0
  BY <1>1, <1>4 DEF Ready, Settled
<1> QED  BY <1>1, <1>4, <1>5, ReadyBounds

\* A request may be granted at once, its own as another that stood.
LEMMA RequestGrants ==
  ASSUME Typed, NEW l \in LastFields, Begun(l), Seen(l, air), NEW d \in Contenders,
         NEW o \in Dcf, NEW tm, NEW lw, NEW h, NEW ra, Request(l, d, o, tm, lw, h, ra), NEW s \in Dcf,
         ~dcf'[s].requested, d[s].requested \/ (low' # lw /\ low'.owner = s)
  PROVE  /\ GetAccessGrantStart(l) + d[s].aifsn * Slot <= now
         /\ GetAccessGrantStart(l) < now
         /\ Left(l, d, s) = 0
<1>1. PICK e \in Contenders :
        /\ GrantAccess(l, e, tm, lw, h, ra)
        /\ Current(l, e)
        /\ \A x \in Dcf :
             /\ e[x].requested = (d[x].requested \/ x = o)
             /\ e[x].aifsn = d[x].aifsn
             /\ GetAccessGrantStart(l) <= now => e[x].slots = Left(l, d, x)
  BY RequestForms
<1>2. e[s].requested \/ (low' # lw /\ low'.owner = s)
  BY <1>1
<1>3. /\ GetAccessGrantStart(l) + e[s].aifsn * Slot <= now
      /\ GetAccessGrantStart(l) < now
      /\ e[s].slots = 0
  BY <1>1, <1>2, GrantAccessGrants
<1>4. GetAccessGrantStart(l) <= now
  BY <1>3, AccessGrantStartType DEF Typed
<1> QED  BY <1>1, <1>3, <1>4

\* The end of an exchange may start the next, if the medium is idle.
LEMMA OutcomeGrants ==
  ASSUME Typed, Owned(dcf, low, holding), low.phase # "idle",
         NEW l \in LastFields, Begun(l), Seen(l, air), NEW tm,
         Done(l, tm) \/ (l = last /\ Retry), NEW s \in Dcf,
         ~dcf'[s].requested,
         dcf[s].requested \/ (low'.phase \in FirstFrames /\ low'.owner = s)
  PROVE  /\ GetAccessGrantStart(l) + dcf[s].aifsn * Slot <= now
         /\ GetAccessGrantStart(l) < now
         /\ Left(l, dcf, s) = 0
<1> DEFINE o == low.owner
<1>1. o \in Dcf /\ now \in Nat /\ dcf \in Contenders
  BY DEF Typed, Local, LowFields
<1>2. PICK d \in Contenders : \E t, h :
        /\ AfterExchange(l, d, o, t, h)
        /\ \A x \in Dcf :
             /\ d[x].requested = dcf[x].requested /\ d[x].slots = dcf[x].slots
             /\ d[x].start = dcf[x].start /\ d[x].aifsn = dcf[x].aifsn
        /\ d[o].requested \/ d[o].slots = 0
  BY OutcomeForms
<1>3. PICK t, h : AfterExchange(l, d, o, t, h)
  BY <1>2
<1>4. PICK e \in Contenders :
        /\ \/ Request(l, e, o, t, Idle, h, respondAt) /\ ~d[o].requested
           \/ dcf' = e /\ last' = l /\ low' = Idle
        /\ \A x \in Dcf : e[x].requested = d[x].requested /\ e[x].aifsn = d[x].aifsn
        /\ \A x \in Dcf \ {o} : Left(l, e, x) = Left(l, d, x)
  BY <1>1, <1>2, <1>3, AfterExchangeForms
<1>5. Idle.phase \notin FirstFrames
  BY EnvironmentAssumption DEF Idle
<1>6. e[s].requested \/ (low' # Idle /\ low'.owner = s)
  BY <1>2, <1>4, <1>5
<1>7. Request(l, e, o, t, Idle, h, respondAt) /\ ~d[o].requested
  BY <1>4, <1>6
<1>8. /\ GetAccessGrantStart(l) + e[s].aifsn * Slot <= now
      /\ GetAccessGrantStart(l) < now
      /\ Left(l, e, s) = 0
  BY <1>1, <1>4, <1>6, <1>7, RequestGrants
<1>9. Left(l, dcf, s) = 0
  <2>1. CASE s = o
    <3>1. dcf[s].slots = 0
      BY <1>1, <1>2, <1>7, <2>1
    <3> QED  BY <1>1, <3>1, NothingElapsed
  <2>2. CASE s # o
    <3>1. Left(l, d, s) = 0
      BY <1>4, <1>8, <2>2
    <3> QED  BY <1>2, <3>1, LeftDepends
  <2> QED  BY <2>1, <2>2
<1> QED  BY <1>2, <1>4, <1>8, <1>9

\* A step that grants the medium finds it idle, and the backoff over.
LEMMA GrantedReady ==
  ASSUME Inductive, StateConsistent, [Next]_vars, NEW s \in Dcf, Granted(s)
  PROVE  /\ GetAccessGrantStart(last) + dcf[s].aifsn * Slot <= now
         /\ GetAccessGrantStart(last) < now
         /\ Remaining(s) = 0
<1>1. /\ Typed /\ last \in LastFields /\ Begun(last) /\ dcf \in Contenders /\ now \in Nat
      /\ low \in LowFields /\ respondAt \in TimerType /\ air \in AirFields
      /\ Seen(last, air) /\ Owned(dcf, low, holding)
  BY DEF Inductive, Typed, Local, StateConsistent, Consistent
<1>2. /\ ~dcf'[s].requested /\ ~Switched
      /\ \/ dcf[s].requested
         \/ /\ low' # low /\ low'.phase \in FirstFrames /\ low'.owner = s
            /\ ~(low.phase \in Following /\ low.owner = s)
  BY DEF Granted, Starts
<1>3. Remaining(s) = Left(last, dcf, s)
  BY DEF Left, Remaining, Elapsed
<1>4. ASSUME NEW x \in Dcf, RequestAccess(x)
      PROVE  /\ GetAccessGrantStart(last) + dcf[s].aifsn * Slot <= now
             /\ GetAccessGrantStart(last) < now
             /\ Remaining(s) = 0
  BY <1>1, <1>2, <1>3, <1>4, RequestGrants DEF RequestAccess
<1>5. CASE AccessTimeout
  <2> DEFINE u == UpdateBackoff(last, dcf)
  <2>1. /\ u \in Contenders /\ Current(last, u) /\ u[s].slots = Left(last, dcf, s)
        /\ u[s].requested = dcf[s].requested /\ u[s].aifsn = dcf[s].aifsn
    BY <1>1, UpdateBackoffType, UpdateBackoffLeaves, UpdateBackoffKeeps
  <2>2. GrantAccess(last, u, NoTimer, low, holding, respondAt)
    BY <1>5 DEF AccessTimeout
  <2> HIDE DEF u
  <2>3. /\ GetAccessGrantStart(last) + u[s].aifsn * Slot <= now
        /\ GetAccessGrantStart(last) < now
        /\ u[s].slots = 0
    BY <1>1, <1>2, <2>1, <2>2, GrantAccessGrants
  <2> QED  BY <1>3, <2>1, <2>3
<1>6. CASE ResponseMissed \/ EndTxNoAck
  <2>1. low.phase # "idle" /\ (Done(last, timer) \/ Retry)
    BY <1>6 DEF ResponseMissed, EndTxNoAck
  <2> QED  BY <1>1, <1>2, <1>3, <2>1, OutcomeGrants
\* No answer that ends an exchange lets another begin.
<1>7. ASSUME NEW l, NEW tm, Done(l, tm), RxDue, low.phase # "idle",
             l = AckTimeoutReset(RxEnded(last, TRUE)) \/ l = RxEnded(last, TRUE)
      PROVE  FALSE
  <2>1. LET m == RxEnded(last, TRUE) IN
        /\ m \in LastFields /\ ~m.rxing /\ m.rxEnd = now /\ Begun(m) /\ Seen(m, air)
    BY <1>7, RxEndedConsistent
  <2>2. l \in LastFields /\ ~l.rxing /\ l.rxEnd = now /\ Begun(l) /\ Seen(l, air)
    BY <1>1, <1>7, <2>1 DEF AckTimeoutReset, LastFields, Begun, Seen, RxAccessStart
  <2>3. now < GetAccessGrantStart(l)
    BY <1>7, <2>2, ReceptionBlocks
  <2>4. GetAccessGrantStart(l) < now
    BY <1>1, <1>2, <1>7, <2>2, OutcomeGrants
  <2> QED  BY <1>1, <2>2, <2>3, <2>4, AccessGrantStartType
\* Any other step leaves the requests, and goes on with an exchange at most.
<1>8. CASE SifsElapsed \/ Respond
  <2>1. PICK frame \in {"ack", "noack"}, duration \in TxDurations :
          dcf' = UpdateBackoff(Interrupted(last, frame, duration), dcf)
    BY <1>8 DEF SifsElapsed, FollowingFrames, Respond, TransmitDcf, Interrupted
  <2>2. Interrupted(last, frame, duration) \in LastFields
    BY <1>1, EnvironmentAssumption, InterruptedFields
  <2>3. dcf'[s].requested = dcf[s].requested
    BY <1>1, <2>1, <2>2, UpdateBackoffKeeps
  <2>4. low' = low \/ (low.phase \in Following /\ low'.owner = low.owner)
    BY <1>8 DEF SifsElapsed, Respond, Exchange
  <2> QED  BY <1>2, <2>3, <2>4
<1>9. CASE RxStart \/ CcaBusy
  <2>1. dcf' = UpdateBackoff(last, dcf) /\ low' = low
    BY <1>9 DEF RxStart, CcaBusy
  <2> QED  BY <1>1, <1>2, <2>1, UpdateBackoffKeeps
<1>10. CASE RxOther \/ RxCfPoll
  <2> DEFINE l == RxEnded(last, TRUE)
             u == UpdateBackoff(l, dcf)
  <2>1. l \in LastFields /\ RxDue
    BY <1>10, RxEndedConsistent DEF RxOther, RxCfPoll
  <2>2. u \in Contenders /\ u[s].requested = dcf[s].requested
    BY <1>1, <2>1, UpdateBackoffType, UpdateBackoffKeeps
  <2>3. low' = low
    BY <1>10 DEF RxOther, RxCfPoll
  <2>4. dcf' = u \/ \E m \in LastFields : dcf' = UpdateBackoff(m, u)
    <3>1. CASE RxOther
      BY <3>1 DEF RxOther
    <3>2. CASE RxCfPoll
      <4>1. PICK duration \in NavDurations :
              dcf' = UpdateBackoff([l EXCEPT !.navEnd = now + duration], u)
        BY <3>2 DEF RxCfPoll
      <4> HIDE DEF l, u
      <4>2. [l EXCEPT !.navEnd = now + duration] \in LastFields
        BY <1>1, <2>1, EnvironmentAssumption DEF LastFields
      <4> QED  BY <4>1, <4>2
    <3> QED  BY <1>10, <3>1, <3>2
  <2> HIDE DEF l, u
  <2>5. dcf'[s].requested = dcf[s].requested
    BY <1>1, <2>2, <2>4, UpdateBackoffKeeps
  <2> QED  BY <1>2, <2>3, <2>5
<1>11. CASE RxEndError \/ RxForUs \/ Tick \/ UNCHANGED vars
  <2>1. dcf' = dcf /\ low' = low
    BY <1>11 DEF RxEndError, RxForUs, Tick, vars
  <2> QED  BY <1>2, <2>1
<1>12. dcf' # dcf \/ \A next \in Following : low' # Exchange(low.owner, next, now + Sifs)
  BY <1>2, EnvironmentAssumption DEF Exchange
<1>13. CASE RxCts \/ RxAck \/ RxBlockAck
  <2>1. \/ dcf' = dcf /\ \E next \in Following : low' = Exchange(low.owner, next, now + Sifs)
        \/ \E l, tm : /\ Done(l, tm)
                      /\ l = AckTimeoutReset(RxEnded(last, TRUE)) \/ l = RxEnded(last, TRUE)
    BY <1>13 DEF RxCts, RxAck, RxBlockAck
  <2>2. RxDue /\ low.phase # "idle"
    BY <1>13 DEF RxCts, RxAck, RxBlockAck
  <2> QED  BY <1>7, <1>12, <2>1, <2>2
<1>14. CASE Switch
  <2>1. PICK duration \in SwitchDurations :
          air' = [air EXCEPT !.switch = now + duration, !.eifs = 0, !.rx = Truncated(@),
                             !.cca = Truncated(@), !.nav = Truncated(@)]
    BY <1>14 DEF Switch
  <2>2. duration \in Nat \ {0} /\ air.switch <= now
    BY <1>14, EnvironmentAssumption DEF Switch
  <2>3. air'.switch = now + duration
    BY <1>1, <2>1, <2>2 DEF AirFields
  <2> QED  BY <1>1, <1>2, <2>2, <2>3 DEF Switched, AirFields
\* Nor does an ADDBA response.
<1>15. ASSUME NEW x \in Originators, GotAddBaResponse(x)
       PROVE  FALSE
  <2> DEFINE l == RxEnded(last, TRUE)
  <2>1. RxDue /\ Request(l, dcf, x, timer, low, holding, now + Sifs)
    BY <1>15 DEF GotAddBaResponse
  <2>2. l \in LastFields /\ ~l.rxing /\ l.rxEnd = now /\ Begun(l) /\ Seen(l, air) /\ x \in Dcf
    BY <2>1, RxEndedConsistent, EnvironmentAssumption
  <2> HIDE DEF l
  <2>3. now < GetAccessGrantStart(l)
    BY <2>1, <2>2, ReceptionBlocks
  <2>4. GetAccessGrantStart(l) < now
    BY <1>1, <1>2, <2>1, <2>2, RequestGrants
  <2> QED  BY <1>1, <2>2, <2>3, <2>4, AccessGrantStartType
<1> QED
  BY <1>4, <1>5, <1>6, <1>8, <1>9, <1>10, <1>11, <1>13, <1>14, <1>15
     DEF Next, Finished, EndTxNoAckUnheard

-----------------------------------------------------------------------------
(* Theorems.                                                               *)

\* A backoff is a countdown, whatever happens on the medium: nothing but the clock
\* takes a slot off, one at a time, and nothing gives one back, in every step in
\* which the NS_ASSERT of StartBackoffNow lets the program go on.
THEOREM CountsDown == Spec => BackoffCountsDown
<1>1. ASSUME Inductive, StateConsistent, [Next]_vars, NEW s \in Dcf,
             Remaining(s) > 0, ~Switched, dcf'[s].ok
      PROVE  Remaining(s)' = Remaining(s) \/ (now' > now /\ Remaining(s)' = Remaining(s) - 1)
  <2>1. CASE Tick
    <3>1. now \in Nat /\ now' = now + 1
      BY <1>1, <2>1 DEF Inductive, Typed, Tick
    <3> QED  BY <1>1, <2>1, <3>1, TickCounts
  <2>2. CASE ~Tick
    BY <1>1, <2>2, StepCounts
  <2> QED  BY <2>1, <2>2
<1>2. Inductive /\ StateConsistent /\ [Next]_vars
        => [\A s \in Dcf : Remaining(s) > 0 /\ ~Switched /\ dcf'[s].ok =>
              \/ Remaining(s)' = Remaining(s)
              \/ now' > now /\ Remaining(s)' = Remaining(s) - 1]_vars
  BY <1>1
<1> QED  BY <1>2, AlwaysConsistent, PTL DEF Spec, BackoffCountsDown

\* Only the clock advances the time, and a slot it takes off has passed since the
\* medium was idle for a SIFS and an AIFS.
THEOREM CountedWhenIdle == Spec => SlotsCountedWhenIdle
<1>1. ASSUME Inductive, StateConsistent, [Next]_vars, NEW s \in Dcf,
             now' > now, Remaining(s)' < Remaining(s)
      PROVE  now' >= AirIdleAt + Sifs + (dcf[s].aifsn + 1) * Slot
  <2>1. /\ now \in Nat /\ last \in LastFields /\ dcf \in Contenders /\ air \in AirFields
        /\ dcf[s].aifsn \in Nat /\ Seen(last, air)
    BY <1>1 DEF Inductive, Typed, Local, StateConsistent, Consistent, Contenders, DcfFields
  <2>2. Tick
    <3>1. now' # now
      BY <1>1, <2>1
    <3> QED
      BY <1>1, <3>1
         DEF Next, RequestAccess, AccessTimeout, ResponseMissed, EndTxNoAck, SifsElapsed,
             Respond, RxStart, RxEndError, RxOther, RxCfPoll, RxForUs, GotAddBaResponse, RxCts,
             RxAck, RxBlockAck, CcaBusy, Switch, EndTxNoAckUnheard, Finished, vars
  <2>3. Remaining(s) = Left(last, dcf, s)
    BY DEF Left, Remaining, Elapsed
  <2>4. Remaining(s) \in Nat
    BY <2>1, <2>3, NothingElapsed
  <2>5. GetBackoffStartFor(last, dcf, s) + Slot <= now'
    BY <1>1, <2>2, <2>4, TickCounts
  <2>6. PICK a \in Nat : a = dcf[s].aifsn * Slot
    BY <2>1, BackoffStartBounds
  <2>7. /\ GetBackoffStartFor(last, dcf, s) >= GetAccessGrantStart(last) + a
        /\ GetBackoffStartFor(last, dcf, s) \in Nat
    BY <2>1, <2>6, BackoffStartBounds
  <2>8. /\ GetAccessGrantStart(last) >= AirIdleAt + Sifs /\ AirIdleAt \in Nat
        /\ GetAccessGrantStart(last) \in Nat
    BY <2>1, GrantStartAfterAir, AccessGrantStartType
  <2>9. (dcf[s].aifsn + 1) * Slot = a + Slot
    BY <2>1, <2>6, ParametersAssumption
  <2>10. now' = now + 1
    BY <2>2 DEF Tick
  <2>11. now' >= AirIdleAt + Sifs + (a + Slot)
    BY <2>1, <2>5, <2>7, <2>8, <2>10, ParametersAssumption
  <2> QED  BY <2>9, <2>11
<1>2. Inductive /\ StateConsistent /\ [Next]_vars
        => [\A s \in Dcf : now' > now /\ Remaining(s)' < Remaining(s) =>
              now' >= AirIdleAt + Sifs + (dcf[s].aifsn + 1) * Slot]_vars
  BY <1>1
<1> QED  BY <1>2, AlwaysConsistent, PTL DEF Spec, SlotsCountedWhenIdle

\* Access is granted only when the backoff is over and the medium has been idle
\* for a SIFS and an AIFS, to a request that stood and to one just made.
THEOREM GrantsWhenIdle == Spec => GrantedWhenIdle
<1>1. ASSUME Inductive, StateConsistent, [Next]_vars, NEW s \in Dcf, Granted(s)
      PROVE  Remaining(s) = 0 /\ now >= AirIdleAt + Sifs + dcf[s].aifsn * Slot
  <2>1. /\ now \in Nat /\ last \in LastFields /\ dcf \in Contenders /\ air \in AirFields
        /\ Seen(last, air)
    BY <1>1 DEF Inductive, Typed, Local, StateConsistent, Consistent
  <2>2. GetAccessGrantStart(last) + dcf[s].aifsn * Slot <= now /\ Remaining(s) = 0
    BY <1>1, GrantedReady
  <2>3. PICK a \in Nat : a = dcf[s].aifsn * Slot
    BY <2>1, BackoffStartBounds
  <2>4. /\ GetAccessGrantStart(last) >= AirIdleAt + Sifs /\ AirIdleAt \in Nat
        /\ GetAccessGrantStart(last) \in Nat
    BY <2>1, GrantStartAfterAir, AccessGrantStartType
  <2> QED  BY <2>1, <2>2, <2>3, <2>4, ParametersAssumption
<1>2. Inductive /\ StateConsistent /\ [Next]_vars
        => [\A s \in Dcf : Granted(s) =>
              /\ Remaining(s) = 0
              /\ now >= AirIdleAt + Sifs + dcf[s].aifsn * Slot]_vars
  BY <1>1
<1> QED  BY <1>2, AlwaysConsistent, PTL DEF Spec, GrantedWhenIdle

LEMMA GrantedBetweenExchanges ==
  ASSUME Inductive, StateConsistent, [Next]_vars, NEW s \in Dcf, Granted(s)
  PROVE  low.phase \in {"idle", "ba"} /\ respondAt = NoTimer
<1>1. /\ now \in Nat /\ last \in LastFields /\ air \in AirFields /\ low \in LowFields
      /\ respondAt \in TimerType
      /\ Seen(last, air) /\ Scheduled(last, air, low, respondAt)
  BY DEF Inductive, Typed, Local, StateConsistent, Consistent
<1>2. GetAccessGrantStart(last) < now /\ GetAccessGrantStart(last) \in Nat
  BY <1>1, GrantedReady, AccessGrantStartType
<1> QED  BY <1>1, <1>2, ScheduledBlocksGrant

\* An exchange begins in the middle of no other, unless that one waits for a block
\* ack, and never before the answer to a frame received is sent.
THEOREM OnlyBlockAcksOverlap ==
  Spec => [][\A s \in Dcf : Granted(s) =>
                low.phase \in {"idle", "ba"} /\ respondAt = NoTimer]_vars
<1>1. Inductive /\ StateConsistent /\ [Next]_vars
        => [\A s \in Dcf : Granted(s) => low.phase \in {"idle", "ba"} /\ respondAt = NoTimer]_vars
  BY GrantedBetweenExchanges
<1> QED  BY <1>1, AlwaysConsistent, PTL DEF Spec

\* While no exchange waits for a block ack, none begins in the middle of another
\* or before the answer to a frame received is sent.
THEOREM NoOverlap ==
  ASSUME "ba" \notin FirstFrames
  PROVE  Spec => ExchangesDoNotOverlap
<1>1. ASSUME Inductive, StateConsistent, [Next]_vars, NEW s \in Dcf, Granted(s)
      PROVE  low.phase = "idle" /\ respondAt = NoTimer
  <2>1. low.phase # "ba"
    BY <1>1 DEF StateConsistent, Consistent, Pending
  <2> QED  BY <1>1, <2>1, GrantedBetweenExchanges
<1>2. Inductive /\ StateConsistent /\ [Next]_vars
        => [\A s \in Dcf : Granted(s) => low.phase = "idle" /\ respondAt = NoTimer]_vars
  BY <1>1
<1> QED  BY <1>2, AlwaysConsistent, PTL DEF Spec, ExchangesDoNotOverlap
=============================================================================
