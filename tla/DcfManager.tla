----------------------------- MODULE DcfManager -----------------------------
(***************************************************************************)
(* dcf-manager.{h,cc}: the DcfManager of one WiFi device and the DcfStates *)
(* registered with it.  A DcfState is one contender for the medium (the    *)
(* DcaTxop, an EdcaTxopN per access category, the beacon DcaTxop of an     *)
(* AP); it is named by its position in m_states, so a smaller number is a  *)
(* higher priority.                                                        *)
(*                                                                         *)
(* The manager never ticks slot by slot.  It records when the medium was   *)
(* last busy (last), and works out lazily, whenever something happens, how *)
(* many backoff slots have elapsed since (UpdateBackoff).  A single event  *)
(* (m_accessTimeout) is scheduled for the earliest end of a backoff.       *)
(*                                                                         *)
(* The methods call one another within one event of the simulator, so each *)
(* is an operator from the state before it to the state after it:          *)
(*    l   the m_last* fields, m_rxing;      d   the DcfStates.             *)
(* The module ChannelAccess chains them into actions.                      *)
(***************************************************************************)
EXTENDS Integers

CONSTANTS
  N,            \* number of DcfStates added to the manager
  Slot,         \* m_slotTimeUs
  Sifs,         \* m_sifs
  EifsNoDifs,   \* m_eifsNoDifs
  Aifsn,        \* DcfState -> m_aifsn,
  CwMin,        \*   m_cwMin
  CwMax         \*   and m_cwMax, as the MAC configures them

Dcf == 1..N

ASSUME ParametersAssumption ==
  /\ N \in Nat \ {0}
  /\ Slot \in Nat \ {0}
  /\ Sifs \in Nat \ {0}
  /\ EifsNoDifs \in Nat
  /\ Aifsn \in [Dcf -> Nat \ {0}]
  /\ CwMin \in [Dcf -> Nat]
  /\ CwMax \in [Dcf -> Nat]
  /\ \A s \in Dcf : CwMin[s] <= CwMax[s]

VARIABLES
  now,      \* Simulator::Now (), in units that divide a slot
  last,     \* what the manager remembers of the medium
  dcf,      \* the DcfStates
  timer     \* expiry of m_accessTimeout, or NoTimer

dcfVars == <<now, last, dcf, timer>>

NoTimer == -1

\* A field that the code keeps as a start and a duration is kept as its end,
\* but for the reception in progress, whose start an assertion reads.  The
\* field ok of a record says that every NS_ASSERT about it has held so far.
LastFields ==
  [rxing : BOOLEAN, rxStart : Nat, rxDuration : Nat, rxEnd : Nat, rxOk : BOOLEAN,
   txEnd : Nat, busyEnd : Nat, navEnd : Nat, ackEnd : Nat, ctsEnd : Nat,
   switchEnd : Nat, ok : BOOLEAN]

DcfFields ==
  [slots : Nat, start : Nat, aifsn : Nat \ {0}, cwMin : Nat, cwMax : Nat, cw : Nat,
   requested : BOOLEAN, ok : BOOLEAN]

DcfTypeOK ==
  /\ now \in Nat
  /\ last \in LastFields
  /\ dcf \in [Dcf -> DcfFields]
  /\ timer \in Nat \cup {NoTimer}

\* DoInitialize of every contender draws a backoff.
DcfInit ==
  /\ now = 0
  /\ last = [rxing |-> FALSE, rxStart |-> 0, rxDuration |-> 0, rxEnd |-> 0,
             rxOk |-> TRUE, txEnd |-> 0, busyEnd |-> 0, navEnd |-> 0,
             ackEnd |-> 0, ctsEnd |-> 0, switchEnd |-> 0, ok |-> TRUE]
  /\ \E draw \in [Dcf -> UNION {0..CwMin[s] : s \in Dcf}] :
       /\ \A s \in Dcf : draw[s] <= CwMin[s]
       /\ dcf = [s \in Dcf |-> [slots |-> draw[s], start |-> 0, aifsn |-> Aifsn[s],
                                cwMin |-> CwMin[s], cwMax |-> CwMax[s],
                                cw |-> CwMin[s], requested |-> FALSE, ok |-> TRUE]]
  /\ timer = NoTimer

-----------------------------------------------------------------------------
(* When access may start, and how far a backoff has come.                  *)

MostRecent(a, b) == IF a >= b THEN a ELSE b

\* Ends of the other activities, as MostRecent of seven times takes them.
RxAccessStartNoEifs(l) ==   \* mutant: a corrupted frame is like any other
  IF l.rxing THEN l.rxStart + l.rxDuration ELSE l.rxEnd

RxAccessStart(l) ==
  IF l.rxing THEN l.rxStart + l.rxDuration
             ELSE l.rxEnd + (IF l.rxOk THEN 0 ELSE EifsNoDifs)

GetAccessGrantStartNoAck(l) ==   \* mutant: the ack timeout is not waited for
  Sifs + MostRecent(MostRecent(MostRecent(RxAccessStart(l), l.busyEnd),
                               MostRecent(l.txEnd, l.navEnd)),
                    MostRecent(l.ctsEnd, l.switchEnd))

GetAccessGrantStart(l) ==
  Sifs + MostRecent(MostRecent(MostRecent(RxAccessStart(l), l.busyEnd),
                               MostRecent(l.txEnd, l.navEnd)),
                    MostRecent(MostRecent(l.ackEnd, l.ctsEnd), l.switchEnd))

GetBackoffStartNoAifs(l, d, s) ==   \* mutant: the AIFS is not waited for
  MostRecent(d[s].start, GetAccessGrantStart(l))

GetBackoffStartFor(l, d, s) ==
  MostRecent(d[s].start, GetAccessGrantStart(l) + d[s].aifsn * Slot)

GetBackoffEndFor(l, d, s) ==
  GetBackoffStartFor(l, d, s) + d[s].slots * Slot

IsBusy(l) == l.rxing \/ l.txEnd > now \/ l.navEnd > now

\* min (nIntSlots, m_backoffSlots) of a backoff that started at b.
ElapsedSlotsUncapped(b, slots) == (now - b) \div Slot   \* mutant: std::min dropped

ElapsedSlots(b, slots) ==
  LET n == (now - b) \div Slot IN IF n <= slots THEN n ELSE slots

UpdateBackoffKeepStart(l, d) ==   \* mutant: m_backoffStart is left behind
  [s \in Dcf |->
     LET b == GetBackoffStartFor(l, d, s)
         n == ElapsedSlots(b, d[s].slots)
     IN  IF b <= now THEN [d[s] EXCEPT !.slots = @ - n] ELSE d[s]]

UpdateBackoff(l, d) ==
  [s \in Dcf |->
     LET b == GetBackoffStartFor(l, d, s)
         n == ElapsedSlots(b, d[s].slots)
     IN  IF b <= now THEN [d[s] EXCEPT !.slots = @ - n, !.start = b + n * Slot]
                     ELSE d[s]]

-----------------------------------------------------------------------------
(* The DcfState of a contender.                                            *)

ResetCw(d, s) == [d EXCEPT ![s].cw = d[s].cwMin]

SetParametersKeepCw(d, s, p) ==   \* mutant: ResetCw dropped from SetCwMin, SetCwMax
  [d EXCEPT ![s].aifsn = p.aifsn, ![s].cwMin = p.cwMin, ![s].cwMax = p.cwMax]

\* SetCwMin, SetCwMax and SetAifsn together, as their caller calls them.
SetParameters(d, s, p) ==
  [d EXCEPT ![s].aifsn = p.aifsn, ![s].cwMin = p.cwMin, ![s].cwMax = p.cwMax,
            ![s].cw = p.cwMin]

UpdateFailedCw(d, s) ==
  LET doubled == 2 * (d[s].cw + 1) - 1 IN
  [d EXCEPT ![s].cw = IF doubled <= d[s].cwMax THEN doubled ELSE d[s].cwMax]

StartBackoffNow(d, s, nSlots) ==
  [d EXCEPT ![s].slots = nSlots, ![s].start = now,
            ![s].ok = @ /\ d[s].slots = 0]

NotifyAccessRequested(d, s) ==
  [d EXCEPT ![s].requested = TRUE, ![s].ok = @ /\ ~d[s].requested]

NotifyAccessGranted(d, s) ==
  [d EXCEPT ![s].requested = FALSE, ![s].ok = @ /\ d[s].requested]

\* The contenders that DoGrantAccess finds with an expired backoff: the first
\* gets the medium, the others suffer an internal collision.
Ready(l, d) == {s \in Dcf : d[s].requested /\ GetBackoffEndFor(l, d, s) <= now}

Winner(ready, s) == s \in ready /\ \A x \in ready : s <= x

\* DoRestartAccessTimeoutIfNeeded, as the set of the possible expiries (it has
\* one element): the earliest backoff end still to come if that is earlier
\* than what is scheduled, or if nothing is.
RestartRunningTimeout(l, d, tm) ==   \* mutant: an expired timeout stays expired
  LET ends == {GetBackoffEndFor(l, d, s) : s \in {x \in Dcf : d[x].requested}}
      next == {e \in ends : e > now}
  IN  IF next = {} \/ tm = NoTimer THEN {tm}
      ELSE {IF tm > e THEN e ELSE tm : e \in {f \in next : \A g \in next : f <= g}}

RestartAccessTimeout(l, d, tm) ==
  LET ends == {GetBackoffEndFor(l, d, s) : s \in {x \in Dcf : d[x].requested}}
      next == {e \in ends : e > now}
      earliest == {e \in next : \A f \in next : e <= f}
  IN  IF next = {} THEN {tm}
      ELSE {IF tm = NoTimer \/ tm > e THEN e ELSE tm : e \in earliest}

-----------------------------------------------------------------------------
(* The notifications of the PHY and of MacLow: their effect on last.  Those *)
(* that call UpdateBackoff first do it on the fields before the change.     *)

RxStarted(l, duration) ==
  [l EXCEPT !.rxing = TRUE, !.rxStart = now, !.rxDuration = duration]

RxEnded(l, isOk) ==
  [l EXCEPT !.rxing = FALSE, !.rxEnd = now, !.rxOk = isOk]

\* A transmission or a switch that interrupts a reception ends it.
RxInterrupted(l) ==
  IF l.rxing
  THEN [l EXCEPT !.rxing = FALSE, !.rxEnd = now, !.rxDuration = now - l.rxStart,
                 !.rxOk = TRUE]
  ELSE l

\* NS_ASSERT (condition).
Asserted(l, condition) == [l EXCEPT !.ok = @ /\ condition]

TxInterrupts(l) == Asserted(RxInterrupted(l), l.rxing => now - l.rxStart <= Sifs)

AckTimeoutStarted(l, duration) ==
  Asserted([l EXCEPT !.ackEnd = now + duration], l.ackEnd < now)

CtsTimeoutStarted(l, duration) == [l EXCEPT !.ctsEnd = now + duration]

AckTimeoutResetForgotten(l) == l   \* mutant: the timeout is believed to run on

AckTimeoutReset(l) == [l EXCEPT !.ackEnd = now]

CtsTimeoutReset(l) == [l EXCEPT !.ctsEnd = now]

NavStarted(l, duration) ==
  IF now + duration > l.navEnd THEN [l EXCEPT !.navEnd = now + duration] ELSE l

Truncated(end) == IF end > now THEN now ELSE end

SwitchOccupies(l, duration) ==
  [l EXCEPT !.navEnd = Truncated(@), !.busyEnd = Truncated(@), !.ackEnd = Truncated(@),
            !.ctsEnd = Truncated(@), !.switchEnd = now + duration]

SwitchingStarted(l, duration) ==
  Asserted(SwitchOccupies(RxInterrupted(l), duration),
           l.txEnd <= now /\ l.switchEnd <= now)

SwitchingDcf(d) ==
  [s \in Dcf |-> [d[s] EXCEPT !.slots = 0, !.cw = d[s].cwMin, !.requested = FALSE,
                              !.start = IF d[s].slots > 0 THEN now ELSE @]]
=============================================================================
