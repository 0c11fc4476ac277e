------------------------- MODULE BlockAckRecipient -------------------------
(***************************************************************************)
(* MacLow as the recipient of one block ack agreement (one originator, one *)
(* TID): StoreMpduIfNeeded, CreateBlockAckAgreement,                       *)
(* DestroyBlockAckAgreement, the two RxCompleteBufferedPackets functions   *)
(* and the handlers that call them.  Packets are numbered 1, 2, ... in the *)
(* order the originator first sends them; packet p carries the 12-bit      *)
(* sequence number Number(p), which wraps around.  The originator and the  *)
(* layers it runs (BlockAckManager, MacRxMiddle, BlockAckCache) are not    *)
(* part of the repository: they are the environment, as the code here uses *)
(* them.  MSDUs are not fragmented: COMPRESSED_BLOCK_ACK, the only type    *)
(* the code sets, forbids it (edca-txop-n.cc:450).                         *)
(***************************************************************************)
EXTENDS Naturals, Sequences, SequencesExt, FiniteSetsExt

CONSTANTS SeqSpace,      \* sequence numbers, 4096 in the code
          FragSpace,     \* fragment numbers, 16 in the code
          First,         \* sequence number of packet 1
          MaxPacket,     \* bound: packets of the flow
          MaxTries,      \* attempts of one packet with normal ack policy
          Window,        \* packets sent and not yet acknowledged
          MaxGiveUps,    \* bound: packets given up by the originator
          Timeout,       \* whether agreements have an inactivity timeout
          MaxTeardowns   \* bound: inactivity timeouts and originator's DELBA frames

Packets == 1..MaxPacket

ASSUME ConstantsAssumption ==
  /\ {SeqSpace, FragSpace, MaxTries, Window, MaxPacket} \subseteq Nat \ {0}
  /\ SeqSpace % 2 = 0
  /\ First \in 0..(SeqSpace - 1)
  /\ Window <= SeqSpace \div 2
  /\ {MaxGiveUps, MaxTeardowns} \subseteq Nat
  /\ Timeout \in BOOLEAN

VARIABLES
  agreement,       \* m_bAckAgreements has an entry for the flow
  startingSeq,     \* its starting sequence number
  buffer,          \* its list of buffered packets
  cache,           \* m_bAckCaches: packets the bitmap shows as received
  inactivity,      \* m_inactivityEvent: "off", "running" or "expired"
  stale,           \* events it was overwritten with while they ran
  timerOk,         \* whether NS_ASSERT (m_inactivityEvent.IsRunning ()) held
  delba,           \* a DELBA frame waits in the recipient's queue
  sendBlockAck,    \* m_sendAckEvent after a block ack request: its start, or 0
  rx,              \* packets MacRxMiddle passed up, in order
  established,     \* the originator holds the agreement
  next,            \* its next new packet
  outstanding,     \* its packets sent under the agreement, not acknowledged
  resend,          \* those a block ack reported missing
  current,         \* its m_currentPacket: a request or a normal-ack packet
  gaveUp,          \* packets it abandoned
  teardowns        \* inactivity timeouts and originator's DELBA frames so far

timerVars == <<inactivity, stale, timerOk, delba>>
recipientVars == <<agreement, startingSeq, buffer, cache, sendBlockAck, rx, timerVars>>
originatorVars == <<established, next, outstanding, resend, current, gaveUp, teardowns>>
vars == <<recipientVars, originatorVars>>

NoFrame == [type |-> "none", packet |-> 0, tries |-> 0]
Bar(p) == [type |-> "bar", packet |-> p, tries |-> 0]
Data(p, tries) == [type |-> "data", packet |-> p, tries |-> tries]
Frames == {NoFrame} \cup {Bar(p) : p \in 1..(MaxPacket + 1)}
            \cup {Data(p, n) : p \in Packets, n \in 1..MaxTries}

Init ==
  /\ agreement = FALSE /\ startingSeq = 0 /\ buffer = << >>
  /\ cache = {} /\ sendBlockAck = 0 /\ rx = << >>
  /\ inactivity = "off" /\ stale = 0 /\ timerOk = TRUE /\ delba = FALSE
  /\ established = FALSE /\ next = 1 /\ outstanding = {} /\ resend = {}
  /\ current = NoFrame /\ gaveUp = {} /\ teardowns = 0

-----------------------------------------------------------------------------
(* Sequence numbers and the buffer *)

Number(p) == (First + p - 1) % SeqSpace
Control(p) == Number(p) * FragSpace

\* QosUtilsMapSeqControlToUniqueInteger (ctl, start + 2047): sequence control
\* fields from the one after endSequence on, in circular order.
Mapped(ctl, start) ==
  LET end == (start + SeqSpace \div 2 - 1) % SeqSpace
  IN  ((SeqSpace - (end + 1) + ctl \div FragSpace) % SeqSpace) * FragSpace
        + (ctl % FragSpace)

\* The longest prefix of packets all of whose positions satisfy P.
Prefix(packets, P(_)) ==
  Max({n \in 0..Len(packets) : \A i \in 1..n : P(i)})

\* The buffer with packet p in its place, before any equal one.
Insert(buf, start, p) ==
  LET Smaller(i) == Mapped(Control(buf[i]), start) < Mapped(Control(p), start)
  IN  InsertAt(buf, Prefix(buf, Smaller) + 1, p)

\* MacRxMiddle drops a retry of the packet it saw last; (a fold, written as a
\* recursive function for the provers).
PassUp(up, packets) ==
  LET passed[n \in 0..Len(packets)] ==
        IF n = 0 THEN up
        ELSE IF passed[n - 1] # << >> /\ Last(passed[n - 1]) = packets[n] THEN passed[n - 1]
        ELSE Append(passed[n - 1], packets[n])
  IN  passed[Len(packets)]

\* What the two hand-up functions change together.
Reception(buf, start, up) == [buffer |-> buf, start |-> start, rx |-> up]

RxSmallerThanOwnStart(r, seq) ==   \* mutant: compares with the agreement's start
  LET Smaller(i) == Mapped(Number(r.buffer[i]), r.start) < Mapped(r.start, r.start)
      n == Prefix(r.buffer, Smaller)
  IN  Reception(SubSeq(r.buffer, n + 1, Len(r.buffer)), r.start,
                PassUp(r.rx, SubSeq(r.buffer, 1, n)))

\* The comparison maps sequence NUMBERS, not sequence controls, although the
\* mapping is one of sequence controls.  Of an empty buffer the code reads begin ()
\* for its guard, which it then does not use: nothing is handed up.
RxCompleteBufferedPacketsWithSmallerSequence(r, seq) ==
  LET Smaller(i) == Mapped(Number(r.buffer[i]), r.start) < Mapped(seq, r.start)
      n == Prefix(r.buffer, Smaller)
  IN  Reception(SubSeq(r.buffer, n + 1, Len(r.buffer)), r.start,
                PassUp(r.rx, SubSeq(r.buffer, 1, n)))

RxUntilFirstLostFromBuffer(r) ==   \* mutant: starts at the first buffered packet
  LET Expected(i) == Number(r.buffer[i]) = (Number(r.buffer[1]) + i - 1) % SeqSpace
      n == Prefix(r.buffer, Expected)
  IN  Reception(SubSeq(r.buffer, n + 1, Len(r.buffer)), (r.start + n) % SeqSpace,
                PassUp(r.rx, SubSeq(r.buffer, 1, n)))

RxUntilFirstLostStuck(r) ==   \* mutant: SetStartingSequence is forgotten
  LET Expected(i) == Number(r.buffer[i]) = (r.start + i - 1) % SeqSpace
      n == Prefix(r.buffer, Expected)
  IN  Reception(SubSeq(r.buffer, n + 1, Len(r.buffer)), r.start,
                PassUp(r.rx, SubSeq(r.buffer, 1, n)))

RxCompleteBufferedPacketsUntilFirstLost(r) ==
  LET Expected(i) == Number(r.buffer[i]) = (r.start + i - 1) % SeqSpace
      n == Prefix(r.buffer, Expected)
  IN  Reception(SubSeq(r.buffer, n + 1, Len(r.buffer)), (r.start + n) % SeqSpace,
                PassUp(r.rx, SubSeq(r.buffer, 1, n)))

\* The two calls every handler makes, with the sequence number it passes;
\* (the singletons have TLC compute each result once).
Forwarded(r, seq) ==
  {RxCompleteBufferedPacketsUntilFirstLost(older) :
     older \in {RxCompleteBufferedPacketsWithSmallerSequence(r, seq)}}

ForwardUp(r, seq) ==
  \E f \in Forwarded(r, seq) :
    buffer' = f.buffer /\ startingSeq' = f.start /\ rx' = f.rx
Now == Reception(buffer, startingSeq, rx)

-----------------------------------------------------------------------------
(* The recipient's handlers, as parts of the exchanges below *)

ResetBlockAckInactivityTimerIfNeeded ==
  IF Timeout THEN inactivity' = "running" /\ timerOk' = (timerOk /\ inactivity = "running")
  ELSE UNCHANGED <<inactivity, timerOk>>

\* A data frame with block ack policy: stored; without an agreement it is
\* dropped and a DELBA is queued.
ReceiveBlockAckData(p) ==
  /\ IF agreement
     THEN /\ buffer' = Insert(buffer, startingSeq, p) /\ cache' = cache \cup {p}
          /\ ResetBlockAckInactivityTimerIfNeeded /\ UNCHANGED delba
     ELSE delba' = TRUE /\ UNCHANGED <<buffer, cache, inactivity, timerOk>>
  /\ UNCHANGED <<agreement, startingSeq, sendBlockAck, rx, stale>>

\* A data frame with normal ack policy: stored and what is complete handed up;
\* without an agreement it goes up as it is.
ReceiveNormalData(p) ==
  /\ IF agreement
     THEN /\ \E stored \in {Insert(buffer, startingSeq, p)} :
               ForwardUp(Reception(stored, startingSeq, rx), startingSeq)
          /\ cache' = cache \cup {p}
     ELSE rx' = PassUp(rx, <<p>>) /\ UNCHANGED <<buffer, startingSeq, cache>>
  /\ UNCHANGED <<agreement, sendBlockAck, timerVars>>

\* A block ack request: the cache forgets what is older than its start
\* (UpdateWithBlockAckReq).  Without an agreement it stays unanswered.
ReceiveBlockAckRequest(p) ==
  /\ IF agreement
     THEN /\ sendBlockAck' = p /\ cache' = {q \in cache : q >= p}
          /\ ResetBlockAckInactivityTimerIfNeeded
     ELSE UNCHANGED <<sendBlockAck, cache, inactivity, timerOk>>
  /\ UNCHANGED <<agreement, startingSeq, buffer, rx, stale, delba>>

CreateOverAnother(p) ==   \* mutant: the new buffer replaces the one there is
  /\ agreement' = TRUE
  /\ startingSeq' = Number(p) /\ buffer' = << >>
  /\ cache' = IF agreement THEN cache ELSE {}
  /\ inactivity' = IF Timeout THEN "running" ELSE inactivity
  /\ stale' = IF Timeout /\ inactivity = "running" THEN stale + 1 ELSE stale
  /\ UNCHANGED <<sendBlockAck, rx, timerOk, delba>>

\* insert() leaves an agreement and a cache that already exist untouched; the
\* inactivity timer is started in any case, over one that may be running.
CreateBlockAckAgreement(p) ==
  /\ agreement' = TRUE
  /\ IF agreement THEN UNCHANGED <<startingSeq, buffer, cache>>
     ELSE startingSeq' = Number(p) /\ buffer' = << >> /\ cache' = {}
  /\ inactivity' = IF Timeout THEN "running" ELSE inactivity
  /\ stale' = IF Timeout /\ inactivity = "running" THEN stale + 1 ELSE stale
  /\ UNCHANGED <<sendBlockAck, rx, timerOk, delba>>

DestroyBlockAckAgreement ==
  IF agreement
  THEN /\ rx' \in {f.rx : f \in Forwarded(Now, startingSeq)}
       /\ agreement' = FALSE /\ startingSeq' = 0 /\ buffer' = << >> /\ cache' = {}
       /\ inactivity' = "off"
  ELSE UNCHANGED <<agreement, startingSeq, buffer, cache, rx, inactivity>>

\* The recipient's inactivity timer: a DELBA is queued, the agreement stands
\* until it has been acknowledged.
BlockAckInactivityTimeout ==
  /\ sendBlockAck = 0 /\ inactivity = "running" /\ teardowns < MaxTeardowns
  /\ inactivity' = "expired" /\ delba' = TRUE
  /\ teardowns' = teardowns + 1
  /\ UNCHANGED <<agreement, startingSeq, buffer, cache, sendBlockAck, rx, stale, timerOk>>
  /\ UNCHANGED <<established, next, outstanding, resend, current, gaveUp>>

\* An overwritten timer fires all the same: another DELBA, whatever agreement
\* there is by then.
OverwrittenTimeout ==
  /\ sendBlockAck = 0 /\ stale > 0 /\ stale' = stale - 1
  /\ delba' = TRUE
  /\ UNCHANGED <<agreement, startingSeq, buffer, cache, sendBlockAck, rx, inactivity, timerOk>>
  /\ UNCHANGED originatorVars

-----------------------------------------------------------------------------
(* The exchanges: one frame of the originator at a time, each lost or not *)

Idle == current = NoFrame /\ sendBlockAck = 0

TearDown ==
  /\ established' = FALSE /\ outstanding' = {} /\ resend' = {}
  /\ gaveUp' = gaveUp \cup outstanding

\* A new packet, or one reported missing, under block ack policy.
SendBlockAckData(p, got) ==
  /\ Idle /\ established
  /\ \/ p = next /\ resend = {} /\ Cardinality(outstanding) < Window
     \/ p \in resend
  /\ next' = IF p = next THEN next + 1 ELSE next
  /\ outstanding' = outstanding \cup {p} /\ resend' = resend \ {p}
  /\ IF got THEN ReceiveBlockAckData(p) ELSE UNCHANGED recipientVars
  /\ UNCHANGED <<established, current, gaveUp, teardowns>>

\* A packet with normal ack policy: no agreement, or few packets to send.
\* A lost acknowledgment has it sent again.
SendNormalData(p, got, acked) ==
  /\ sendBlockAck = 0
  /\ \/ current = NoFrame /\ outstanding = {} /\ p = next /\ next' = next + 1
     \/ current \in {Data(p, n) : n \in 1..(MaxTries - 1)} /\ UNCHANGED next
  /\ current' = IF got /\ acked THEN NoFrame ELSE Data(p, current.tries + 1)
  /\ IF got THEN ReceiveNormalData(p) ELSE UNCHANGED recipientVars
  /\ UNCHANGED <<established, outstanding, resend, gaveUp, teardowns>>

\* The request starts at the first packet not acknowledged and is held until
\* a block ack comes, however often it is missed.
SendBlockAckRequest(p, got) ==
  /\ sendBlockAck = 0
  /\ \/ /\ current = NoFrame /\ established /\ resend = {}
        /\ outstanding # {} /\ p = Min(outstanding)
     \/ current = Bar(p)
  /\ current' = Bar(p)
  /\ IF got THEN ReceiveBlockAckRequest(p) ELSE UNCHANGED recipientVars
  /\ UNCHANGED <<established, next, outstanding, resend, gaveUp, teardowns>>

\* One SIFS after the request: the bitmap is filled before packets go up.
SendBlockAckAfterBlockAckRequest(heard) ==
  /\ sendBlockAck # 0
  /\ ForwardUp(Now, Number(sendBlockAck))
  /\ sendBlockAck' = 0
  /\ IF heard
     THEN /\ outstanding' = outstanding \ cache /\ resend' = outstanding \ cache
          /\ current' = NoFrame
     ELSE UNCHANGED <<outstanding, resend, current>>
  /\ UNCHANGED <<agreement, cache, timerVars, established, next, gaveUp, teardowns>>

LifetimeEndsHalf ==   \* mutant: the packet stays among those to be sent again
  /\ Idle /\ outstanding # {} /\ Cardinality(gaveUp) < MaxGiveUps
  /\ outstanding' = outstanding \ {Min(outstanding)}
  /\ gaveUp' = gaveUp \cup {Min(outstanding)}
  /\ UNCHANGED <<recipientVars, resend, established, next, current, teardowns>>

\* The lifetime of the first packet not acknowledged ends.
LifetimeEnds ==
  /\ Idle /\ outstanding # {} /\ Cardinality(gaveUp) < MaxGiveUps
  /\ LET p == Min(outstanding)
     IN  /\ outstanding' = outstanding \ {p} /\ resend' = resend \ {p}
         /\ gaveUp' = gaveUp \cup {p}
  /\ UNCHANGED recipientVars
  /\ UNCHANGED <<established, next, current, teardowns>>

\* The last attempt of a packet with normal ack policy failed.
FinalDataFailed ==
  /\ sendBlockAck = 0 /\ \E p \in Packets : current = Data(p, MaxTries)
  /\ gaveUp' = gaveUp \cup {current.packet} /\ current' = NoFrame
  /\ UNCHANGED recipientVars
  /\ UNCHANGED <<established, next, outstanding, resend, teardowns>>

\* ADDBA request and response: the agreement starts at the next new packet.
SetupBlockAck ==
  /\ Idle /\ ~established /\ next \in Packets
  /\ CreateBlockAckAgreement(next)
  /\ established' = TRUE
  /\ UNCHANGED <<next, outstanding, resend, current, gaveUp, teardowns>>

\* A DELBA of the originator ends the recipient's agreement when it arrives
\* and the originator's own when its acknowledgment does.
OriginatorDelba(acked) ==
  /\ Idle /\ established /\ teardowns < MaxTeardowns
  /\ DestroyBlockAckAgreement
  /\ IF acked THEN TearDown ELSE UNCHANGED <<established, outstanding, resend, gaveUp>>
  /\ teardowns' = teardowns + 1
  /\ UNCHANGED <<sendBlockAck, stale, timerOk, delba, next, current>>

\* A DELBA of the recipient, the other way round; its last attempt may fail.
RecipientDelba(got, acked) ==
  /\ sendBlockAck = 0 /\ delba
  /\ delba' = FALSE
  /\ IF got THEN TearDown ELSE UNCHANGED <<established, outstanding, resend, gaveUp>>
  /\ IF got /\ acked THEN DestroyBlockAckAgreement
     ELSE UNCHANGED <<agreement, startingSeq, buffer, cache, rx, inactivity>>
  /\ UNCHANGED <<sendBlockAck, stale, timerOk, teardowns, next, current>>

Next ==
  \/ \E p \in Packets, got \in BOOLEAN : SendBlockAckData(p, got)
  \/ \E p \in Packets, got, acked \in BOOLEAN : SendNormalData(p, got, acked)
  \/ \E p \in 1..(MaxPacket + 1), got \in BOOLEAN : SendBlockAckRequest(p, got)
  \/ \E heard \in BOOLEAN : SendBlockAckAfterBlockAckRequest(heard)
  \/ LifetimeEnds
  \/ FinalDataFailed
  \/ SetupBlockAck
  \/ \E acked \in BOOLEAN : OriginatorDelba(acked)
  \/ \E got, acked \in BOOLEAN : RecipientDelba(got, acked)
  \/ BlockAckInactivityTimeout
  \/ OverwrittenTimeout

Spec == Init /\ [][Next]_vars

\* A frame sent again and again is received at last, and a packet reported
\* missing is sent again: the originator retries requests and packets without
\* limit until it gives them up.
FairSpec ==
  /\ Spec
  /\ WF_vars(\E heard \in BOOLEAN : SendBlockAckAfterBlockAckRequest(heard))
  /\ SF_vars(SendBlockAckAfterBlockAckRequest(TRUE))
  /\ SF_vars(\E p \in 1..(MaxPacket + 1) : SendBlockAckRequest(p, TRUE))
  /\ \A p \in Packets : SF_vars(p \in resend /\ SendBlockAckData(p, TRUE))
  /\ WF_vars(\E p \in Packets, got, acked \in BOOLEAN :
               current.type = "data" /\ SendNormalData(p, got, acked))
  /\ WF_vars(FinalDataFailed)

-----------------------------------------------------------------------------
(* Properties *)

\* Types of the variables, for both ends of the agreement.
TypeOK ==
  /\ {agreement, established, timerOk, delba} \subseteq BOOLEAN
  /\ inactivity \in {"off", "running", "expired"} /\ stale \in Nat
  /\ startingSeq \in 0..(SeqSpace - 1)
  /\ buffer \in Seq(Packets) /\ rx \in Seq(Packets)
  /\ cache \subseteq Packets /\ outstanding \subseteq Packets
  /\ resend \subseteq outstanding /\ gaveUp \subseteq Packets
  /\ sendBlockAck \in 0..(MaxPacket + 1) /\ next \in 1..(MaxPacket + 1)
  /\ current \in Frames /\ teardowns \in 0..MaxTeardowns

\* Refinement: the packets of the buffer not already handed up are the stored
\* ones, and the recipient's hand-ups are those of in-order delivery
\* (mac-low.cc, RxCompleteBufferedPackets...): no packet goes up after a newer
\* one or twice, and none is dropped while the agreement stands.
InOrder == INSTANCE InOrderDelivery WITH
             open <- agreement, stored <- ToSet(buffer) \ ToSet(rx)
DeliversInOrder == InOrder!Spec

\* When a block ack request has been answered no packet older than the
\* request's start waits in the buffer: the originator will not send the
\* missing ones again, and "forward up all completed old packets with
\* sequence number smaller than seq" is mac-low.h's promise.
OlderThanRequestForwarded ==
  [][sendBlockAck # 0 /\ sendBlockAck' = 0 =>
       \A i \in DOMAIN buffer' : buffer'[i] >= sendBlockAck]_vars

\* A packet the originator was told is received has been handed up or still
\* waits in the buffer, while the agreement that received it stands: the bitmap
\* is filled from the cache, the hand-ups work on the buffer, and the two must
\* agree (mac-low.cc, SendBlockAckAfterBlockAckRequest).
AcknowledgedIsKept ==
  \A p \in cache : p \in ToSet(buffer) \cup ToSet(rx)

\* A buffered packet is handed up in the end, unless the originator gave a
\* packet up: then the agreement's start stays at the missing packet and what
\* follows waits for the next request (mac-low.cc,
\* RxCompleteBufferedPacketsUntilFirstLost).
BufferedIsHandedUp ==
  \A p \in Packets : (p \in ToSet(buffer)) ~> (p \in ToSet(rx) \/ gaveUp # {} \/ teardowns > 0)

\* NS_ASSERT (agreement.m_inactivityEvent.IsRunning ()): the timer runs whenever
\* a frame of the agreement resets it (mac-low.cc,
\* ResetBlockAckInactivityTimerIfNeeded).
InactivityTimerIsRunning == timerOk

\* The attribute BlockAckInactivityTimeout (edca-txop-n.cc): a timer starts when a
\* block ack setup is completed "and will be reset every time that a block ack
\* frame is received", so a DELBA for an agreement that stands is queued only by its
\* own timer.  (Stated of runs in which the assertion above held.)
OnlyInactivityEndsAgreement ==
  [][agreement /\ timerOk /\ ~delba /\ delba' => inactivity' = "expired"]_vars
=============================================================================
