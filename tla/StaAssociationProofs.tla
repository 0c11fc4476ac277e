----------------------- MODULE StaAssociationProofs -----------------------
(***************************************************************************)
(* What holds of StaAssociation for every choice of its timeouts, of the   *)
(* watchdog delays and of the bounds on losses and delays.                 *)
(***************************************************************************)
EXTENDS StaAssociation, TLAPS

\* The parts of a station's actions that send requests keep an event scheduled.
LEMMA TimeoutsNotOff ==
  /\ ProbeTimeout # Off
  /\ AssocTimeout # Off
  /\ \A delay \in WatchdogDelays : delay # Off
  BY AssociationAssumption DEF Off

-----------------------------------------------------------------------------
(* Type correctness.                                                       *)

\* A countdown that ticks stays within the timeouts it was scheduled with.
LEMMA LaterScheduled ==
  ASSUME NEW timeouts \in SUBSET Nat, NEW n \in Scheduled(timeouts)
  PROVE  Later(n) \in Scheduled(timeouts)
<1>1. CASE n \in Nat /\ n > 0
  <2>1. n - 1 \in Nat /\ n - 1 <= n  BY <1>1
  <2>2. PICK timeout \in timeouts : n <= timeout  BY <1>1 DEF Scheduled, Off
  <2> QED  BY <1>1, <2>1, <2>2 DEF Scheduled, Later, Off
<1>2. CASE ~(n \in Nat /\ n > 0)
  BY <1>2 DEF Scheduled, Later, Off
<1> QED  BY <1>1, <1>2

\* Every timer of the station stays within the delay it was started with, and
\* the state is one of the five (sta-wifi-mac.cc, SetState and the timeouts).
THEOREM TypeCorrect == Spec => []TypeOK
<1>1. Init => TypeOK
  <2>1. /\ \A timeouts : Off \in Scheduled(timeouts)
        /\ 0 \in Scheduled(WatchdogDelays \cup {0}) \ {Off}
    BY DEF Scheduled, Off
  <2>2. 0 \in 0..MaxLosses /\ 0 \in 0..MaxDelays
    BY AssociationAssumption
  <2>3. BeaconInterval \in Nat /\ 0 \in Nat
    BY AssociationAssumption
  <2> QED  BY <2>1, <2>2, <2>3 DEF Init, TypeOK, States
<1>2. TypeOK /\ [Next]_vars => TypeOK'
  <2> SUFFICES ASSUME TypeOK, [Next]_vars  PROVE TypeOK'
    OBVIOUS
  <2> USE AssociationAssumption DEF TypeOK, States, Frames, Off
  <2>p. ProbeTimeout \in Scheduled({ProbeTimeout})
    BY DEF Scheduled
  <2>a. AssocTimeout \in Scheduled({AssocTimeout})
    BY DEF Scheduled
  <2>o. ASSUME NEW timeouts PROVE Off \in Scheduled(timeouts)
    BY DEF Scheduled
  <2>w. ASSUME NEW delay \in WatchdogDelays, RestartBeaconWatchdog(delay)
        PROVE  /\ watchdog' \in Scheduled(WatchdogDelays)
               /\ watchdogEnd' \in Scheduled(WatchdogDelays \cup {0}) \ {Off}
               /\ silence' \in Nat
    BY <2>w DEF RestartBeaconWatchdog, Scheduled
  <2>1. CASE ReceiveBeacon
    BY <2>1, <2>a, <2>w DEF ReceiveBeacon, SendAssociationRequest
  <2>2. CASE IgnoreResponse
    BY <2>2 DEF IgnoreResponse
  <2>3. CASE ReceiveProbeResp
    BY <2>3, <2>a, <2>o, <2>w DEF ReceiveProbeResp, SendAssociationRequest
  <2>4. CASE ReceiveAssocResp
    BY <2>4, <2>o DEF ReceiveAssocResp
  <2>5. CASE ProbeRequestTimeout
    BY <2>5, <2>p DEF ProbeRequestTimeout, SendProbeRequest
  <2>6. CASE AssocRequestTimeout
    BY <2>6, <2>a DEF AssocRequestTimeout, SendAssociationRequest
  <2>7. CASE MissedBeacons
    <3>1. watchdogEnd > 0 => watchdogEnd \in Scheduled(WatchdogDelays)
      BY DEF Scheduled
    <3> QED  BY <2>7, <3>1, <2>o, <2>p DEF MissedBeacons, TryToEnsureAssociated, SendProbeRequest
  <2>8. CASE EnsureAssociated
    BY <2>8, <2>p DEF EnsureAssociated, TryToEnsureAssociated, SendProbeRequest
  <2>9. CASE StopProbing
    BY <2>9, <2>o DEF StopProbing
  <2>10. CASE ApReceive
    BY <2>10 DEF ApReceive, staVars
  <2>11. CASE LoseFrame
    <3>1. losses' \in 0..MaxLosses
      BY <2>11 DEF LoseFrame
    <3>2. net' \subseteq Frames /\ beacon' \in Nat
      BY <2>11 DEF LoseFrame
    <3> QED  BY <2>11, <3>1, <3>2 DEF LoseFrame, staVars
  <2>12. CASE Tick
    <3>1. probeEvent' \in Scheduled({ProbeTimeout})
      BY <2>12, LaterScheduled DEF Tick
    <3>2. assocEvent' \in Scheduled({AssocTimeout})
      BY <2>12, LaterScheduled DEF Tick
    <3>3. watchdog' \in Scheduled(WatchdogDelays)
      BY <2>12, LaterScheduled DEF Tick
    <3>4. watchdogEnd' \in Scheduled(WatchdogDelays \cup {0}) \ {Off}
      <4>1. watchdogEnd' \in Scheduled(WatchdogDelays \cup {0})
        BY <2>12, LaterScheduled DEF Tick
      <4>2. watchdogEnd' \in Nat
        BY <2>12 DEF Tick, Later, Scheduled
      <4> QED  BY <4>1, <4>2
    <3>5. beacon' \in Nat /\ silence' \in Nat /\ delays' \in 0..MaxDelays
      BY <2>12 DEF Tick, Later
    <3> QED  BY <2>12, <3>1, <3>2, <3>3, <3>4, <3>5 DEF Tick
  <2>13. CASE UNCHANGED vars
    BY <2>13 DEF vars
  <2> QED
    BY <2>1, <2>2, <2>3, <2>4, <2>5, <2>6, <2>7, <2>8, <2>9, <2>10, <2>11,
       <2>12, <2>13 DEF Next, Receive, Timeout
<1> QED  BY <1>1, <1>2, PTL DEF Spec

-----------------------------------------------------------------------------
(* A station is never stranded.                                            *)

\* StationNotStranded is not inductive: an association request may be repeated
\* in any state, so the timers that protect Associated must run earlier.
Guarded ==
  /\ ~stopped => /\ state = "BEACON_MISSED" => assocEvent = Off
                 /\ state # "BEACON_MISSED" => watchdog # Off \/ probeEvent # Off
  /\ StationNotStranded

\* A station that waits for a response always has an event scheduled that repeats
\* the request, and an associated or refused one an event that looks for an access
\* point again (sta-wifi-mac.cc, the timeouts): the first without exception when an
\* association response is awaited, the others unless ActiveProbing was set to false.
THEOREM NotStranded == Spec => []StationNotStranded
<1>1. Init => Guarded
  BY DEF Init, Guarded, StationNotStranded, WaitsForProbeTimeout
<1>2. TypeOK /\ Guarded /\ [Next]_vars => Guarded'
  <2> SUFFICES ASSUME TypeOK, Guarded, [Next]_vars  PROVE Guarded'
    OBVIOUS
  <2> USE TimeoutsNotOff DEF Guarded, StationNotStranded, WaitsForProbeTimeout
  <2>1. CASE ReceiveBeacon
    BY <2>1 DEF ReceiveBeacon, SendAssociationRequest, RestartBeaconWatchdog
  <2>2. CASE IgnoreResponse
    BY <2>2 DEF IgnoreResponse
  <2>3. CASE ReceiveProbeResp
    BY <2>3 DEF ReceiveProbeResp, SendAssociationRequest, RestartBeaconWatchdog
  <2>4. CASE ReceiveAssocResp
    BY <2>4 DEF ReceiveAssocResp
  <2>5. CASE ProbeRequestTimeout
    BY <2>5 DEF ProbeRequestTimeout, SendProbeRequest
  <2>6. CASE AssocRequestTimeout
    BY <2>6 DEF AssocRequestTimeout, SendAssociationRequest, Off
  <2>7. CASE MissedBeacons
    BY <2>7 DEF MissedBeacons, TryToEnsureAssociated, SendProbeRequest, Off
  <2>8. CASE EnsureAssociated
    BY <2>8 DEF EnsureAssociated, TryToEnsureAssociated, SendProbeRequest
  <2>9. CASE StopProbing
    BY <2>9 DEF StopProbing
  <2>10. CASE ApReceive
    BY <2>10 DEF ApReceive, staVars
  <2>11. CASE LoseFrame
    BY <2>11 DEF LoseFrame, staVars
  <2>12. CASE Tick
    <3>1. ASSUME NEW n, n # Off, n \in Int /\ n >= -1
          PROVE  Later(n) # Off
      BY <3>1 DEF Later, Off
    <3>2. /\ probeEvent \in Int /\ probeEvent >= -1
          /\ assocEvent \in Int /\ assocEvent >= -1
          /\ watchdog \in Int /\ watchdog >= -1
      BY DEF TypeOK, Scheduled, Off
    <3>3. Later(Off) = Off
      BY DEF Later, Off
    <3> QED  BY <2>12, <3>1, <3>2, <3>3 DEF Tick
  <2>13. CASE UNCHANGED vars
    BY <2>13 DEF vars
  <2> QED
    BY <2>1, <2>2, <2>3, <2>4, <2>5, <2>6, <2>7, <2>8, <2>9, <2>10, <2>11,
       <2>12, <2>13 DEF Next, Receive, Timeout
<1>3. Guarded => StationNotStranded
  BY DEF Guarded
<1> QED  BY <1>1, <1>2, <1>3, TypeCorrect, PTL DEF Spec

-----------------------------------------------------------------------------
(* The watchdog is patient.                                                *)

\* The end that MissedBeacons checks is never before the one the last frame
\* asked for.
EndCoversSilence == silence <= watchdogEnd

\* An association is given up only when nothing was heard for the whole delay that
\* the last beacon or probe response asked for (MissedBeacons).
THEOREM Patient == Spec => WatchdogIsPatient
<1>1. Init => EndCoversSilence
  BY DEF Init, EndCoversSilence
<1>2. TypeOK /\ EndCoversSilence /\ [Next]_vars => EndCoversSilence'
  <2> SUFFICES ASSUME TypeOK, EndCoversSilence, [Next]_vars  PROVE EndCoversSilence'
    OBVIOUS
  <2>t. silence \in Nat /\ watchdogEnd \in Nat
    BY DEF TypeOK, Scheduled
  <2>1. CASE \E delay \in WatchdogDelays : RestartBeaconWatchdog(delay)
    BY <2>1, <2>t, AssociationAssumption DEF RestartBeaconWatchdog, EndCoversSilence
  <2>2. CASE Tick
    BY <2>2, <2>t DEF Tick, Later, EndCoversSilence
  <2>3. CASE UNCHANGED <<silence, watchdogEnd>>
    BY <2>3 DEF EndCoversSilence
  <2> QED
    BY <2>1, <2>2, <2>3 DEF Next, Receive, Timeout, ReceiveBeacon, ReceiveProbeResp,
       IgnoreResponse, ReceiveAssocResp, ProbeRequestTimeout, AssocRequestTimeout,
       MissedBeacons, EnsureAssociated, StopProbing, ApReceive,
       LoseFrame, staVars, vars
<1>3. TypeOK /\ EndCoversSilence /\ [Next]_vars
        => [watchdog = 0 /\ watchdog' = Off => silence = 0]_vars
  <2> SUFFICES ASSUME TypeOK, EndCoversSilence, [Next]_vars,
                      watchdog = 0, watchdog' = Off
               PROVE  silence = 0
    OBVIOUS
  <2>t. silence \in Nat /\ watchdogEnd \in Nat
    BY DEF TypeOK, Scheduled
  <2>1. CASE MissedBeacons
    BY <2>1, <2>t DEF MissedBeacons, EndCoversSilence, Off
  <2>2. CASE \E delay \in WatchdogDelays : RestartBeaconWatchdog(delay)
    BY <2>2, TimeoutsNotOff DEF RestartBeaconWatchdog, Off
  <2>3. CASE Tick
    BY <2>3 DEF Tick, Later, Off
  <2>4. CASE UNCHANGED watchdog
    BY <2>4 DEF Off
  <2> QED
    BY <2>1, <2>2, <2>3, <2>4 DEF Next, Receive, Timeout, ReceiveBeacon,
       ReceiveProbeResp, IgnoreResponse, ReceiveAssocResp, ProbeRequestTimeout,
       AssocRequestTimeout, EnsureAssociated, StopProbing, ApReceive,
       LoseFrame, staVars, vars
<1> QED  BY <1>1, <1>2, <1>3, TypeCorrect, PTL DEF Spec, WatchdogIsPatient

-----------------------------------------------------------------------------
(* How an association ends.                                                *)

\* The timer of the association request does not outlive the association's start.
RequestTimerDone == state = "ASSOCIATED" => assocEvent = Off

\* Of the timers that earlier attempts may have left running, only that of a probe
\* request takes an associated station out of its state; else the watchdog does,
\* with m_linkDown (MissedBeacons, ProbeRequestTimeout, AssocRequestTimeout).
THEOREM EndsAsKnown == Spec => AssociationEndsAsKnown
<1>1. Init => RequestTimerDone
  BY DEF Init, RequestTimerDone
<1>2. RequestTimerDone /\ [Next]_vars => RequestTimerDone'
  <2> SUFFICES ASSUME RequestTimerDone, [Next]_vars, state' = "ASSOCIATED"
               PROVE  assocEvent' = Off
    BY DEF RequestTimerDone
  <2>1. CASE ReceiveAssocResp
    BY <2>1 DEF ReceiveAssocResp
  <2>2. CASE Tick
    BY <2>2 DEF Tick, Later, RequestTimerDone, Off
  <2>3. CASE UNCHANGED <<state, assocEvent>>
    BY <2>3 DEF RequestTimerDone
  <2> QED
    BY <2>1, <2>2, <2>3 DEF Next, Receive, Timeout, ReceiveBeacon, ReceiveProbeResp,
       IgnoreResponse, ProbeRequestTimeout, AssocRequestTimeout, MissedBeacons,
       TryToEnsureAssociated, EnsureAssociated, StopProbing, ApReceive, LoseFrame,
       staVars, vars, RequestTimerDone
<1>3. RequestTimerDone /\ [Next]_vars
        => [state = "ASSOCIATED" /\ state' # "ASSOCIATED" =>
              (watchdog = 0 /\ ~link') \/ probeEvent = 0]_vars
  <2> SUFFICES ASSUME RequestTimerDone, [Next]_vars,
                      state = "ASSOCIATED", state' # "ASSOCIATED", probeEvent # 0
               PROVE  watchdog = 0 /\ ~link'
    OBVIOUS
  <2>1. CASE MissedBeacons
    BY <2>1 DEF MissedBeacons, TryToEnsureAssociated
  <2>2. CASE AssocRequestTimeout
    BY <2>2 DEF AssocRequestTimeout, RequestTimerDone, Off
  <2> QED
    BY <2>1, <2>2 DEF Next, Receive, Timeout, ReceiveBeacon, ReceiveProbeResp,
       IgnoreResponse, ReceiveAssocResp, ProbeRequestTimeout, EnsureAssociated,
       StopProbing, ApReceive, LoseFrame, Tick, staVars, vars
<1> QED  BY <1>1, <1>2, <1>3, PTL DEF Spec, AssociationEndsAsKnown
=============================================================================
