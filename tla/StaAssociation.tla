--------------------------- MODULE StaAssociation ---------------------------
(***************************************************************************)
(* sta-wifi-mac.cc: how a station associates with the access point of its  *)
(* network, keeps the association by its beacons and finds a new one.  The *)
(* other side is the Receive of ap-wifi-mac.cc.                            *)
(*                                                                         *)
(* Requests and responses wait in a DcaTxop and may be lost once its       *)
(* retries are used up; beacons are not acknowledged, so they are lost     *)
(* more easily.  Events of the simulator are countdowns: Off when nothing  *)
(* is scheduled, 0 when due.                                               *)
(***************************************************************************)
EXTENDS Integers

CONSTANTS
  ProbeTimeout,     \* m_probeRequestTimeout, in ticks
  AssocTimeout,     \* m_assocRequestTimeout
  BeaconInterval,   \* of the access point
  WatchdogDelays,   \* beacon interval times m_maxMissedBeacons, as frames tell it
  Statuses,         \* what the access point may answer an association request
  MaxLosses,        \* bound on the frames lost
  MaxDelays         \* bound on the ticks a frame waits in a queue

ASSUME AssociationAssumption ==
  /\ ProbeTimeout \in Nat \ {0}
  /\ AssocTimeout \in Nat \ {0}
  /\ BeaconInterval \in Nat \ {0}
  /\ WatchdogDelays \subseteq Nat \ {0}
  /\ Statuses \subseteq {"assocOk", "assocRefused"}
  /\ MaxLosses \in Nat
  /\ MaxDelays \in Nat

VARIABLES
  state,          \* m_state
  probeEvent,     \* m_probeRequestEvent
  assocEvent,     \* m_assocRequestEvent
  watchdog,       \* m_beaconWatchdog
  watchdogEnd,    \* m_beaconWatchdogEnd - Now (), 0 when it is past
  link,           \* whether m_linkUp or m_linkDown came last
  net,            \* frames queued or on the air, between station and access point
  beacon,         \* ticks to the next beacon of the access point
  silence,        \* ghost: ticks left of the delay the last frame asked for
  stopped,        \* ghost: whether ActiveProbing was ever set to false
  losses, delays  \* how many so far

vars == <<state, probeEvent, assocEvent, watchdog, watchdogEnd, link, net, beacon,
          silence, stopped, losses, delays>>

Off == -1

States == {"ASSOCIATED", "WAIT_PROBE_RESP", "WAIT_ASSOC_RESP", "BEACON_MISSED", "REFUSED"}

Frames == {"probeReq", "probeResp", "assocReq", "assocOk", "assocRefused"}

Scheduled(timeouts) == {Off} \cup {n \in Nat : \E timeout \in timeouts : n <= timeout}

TypeOK ==
  /\ state \in States
  /\ probeEvent \in Scheduled({ProbeTimeout})
  /\ assocEvent \in Scheduled({AssocTimeout})
  /\ watchdog \in Scheduled(WatchdogDelays)
  /\ watchdogEnd \in Scheduled(WatchdogDelays \cup {0}) \ {Off}
  /\ link \in BOOLEAN
  /\ net \subseteq Frames
  /\ beacon \in Nat
  /\ silence \in Nat
  /\ stopped \in BOOLEAN
  /\ losses \in 0..MaxLosses
  /\ delays \in 0..MaxDelays

Init ==
  /\ state = "BEACON_MISSED"
  /\ probeEvent = Off
  /\ assocEvent = Off
  /\ watchdog = Off
  /\ watchdogEnd = 0
  /\ link = FALSE
  /\ net = {}
  /\ beacon = BeaconInterval
  /\ silence = 0
  /\ stopped = FALSE
  /\ losses = 0
  /\ delays = 0

-----------------------------------------------------------------------------
(* What the handlers are made of.                                          *)

SendProbeRequest ==
  /\ net' = net \cup {"probeReq"}
  /\ probeEvent' = ProbeTimeout

\* taken is the frame that is being handled, if any.
SendAssociationRequestOnce(taken) ==   \* mutant: a lost request is not repeated
  /\ net' = (net \ taken) \cup {"assocReq"}
  /\ assocEvent' = Off

SendAssociationRequest(taken) ==
  /\ net' = (net \ taken) \cup {"assocReq"}
  /\ assocEvent' = AssocTimeout

RestartBeaconWatchdogForgetful(delay) ==   \* mutant: a running watchdog keeps its end
  /\ watchdogEnd' = IF watchdog = Off THEN delay ELSE watchdogEnd
  /\ watchdog' = IF watchdog = Off THEN delay ELSE watchdog
  /\ silence' = delay

RestartBeaconWatchdogAdded(delay) ==   \* mutant: the delays add up
  /\ watchdogEnd' = watchdogEnd + delay
  /\ watchdog' = IF watchdog = Off THEN delay ELSE watchdog
  /\ silence' = delay

\* A watchdog that runs is not moved: it finds the new end when it fires.
RestartBeaconWatchdog(delay) ==
  /\ watchdogEnd' = IF delay > watchdogEnd THEN delay ELSE watchdogEnd
  /\ watchdog' = IF watchdog = Off THEN delay ELSE watchdog
  /\ silence' = delay

\* TryToEnsureAssociated does something in one state only.
TryToEnsureAssociated ==
  /\ link' = FALSE
  /\ state' = "WAIT_PROBE_RESP"
  /\ SendProbeRequest

-----------------------------------------------------------------------------
(* Timers.                                                                 *)

ProbeRequestTimeout ==
  /\ probeEvent = 0
  /\ state' = "WAIT_PROBE_RESP"
  /\ SendProbeRequest
  /\ UNCHANGED <<assocEvent, watchdog, watchdogEnd, link, beacon, silence,
                 stopped, losses, delays>>

AssocRequestTimeout ==
  /\ assocEvent = 0
  /\ state' = "WAIT_ASSOC_RESP"
  /\ SendAssociationRequest({})
  /\ UNCHANGED <<probeEvent, watchdog, watchdogEnd, link, beacon, silence,
                 stopped, losses, delays>>

MissedBeacons ==
  /\ watchdog = 0
  /\ \/ /\ watchdogEnd > 0
        /\ watchdog' = watchdogEnd
        /\ UNCHANGED <<state, probeEvent, link, net>>
     \/ /\ watchdogEnd = 0
        /\ watchdog' = Off
        /\ TryToEnsureAssociated
  /\ UNCHANGED <<assocEvent, watchdogEnd, beacon, silence, stopped, losses, delays>>

-----------------------------------------------------------------------------
(* Calls from above.                                                       *)

\* Enqueue without an association, StartActiveAssociation, and the call that
\* SetActiveProbing (true) schedules.
EnsureAssociated ==
  /\ state = "BEACON_MISSED"
  /\ TryToEnsureAssociated
  /\ UNCHANGED <<assocEvent, watchdog, watchdogEnd, beacon, silence, stopped, losses, delays>>

\* SetActiveProbing (false).
StopProbing ==
  /\ probeEvent' = Off
  /\ stopped' = TRUE
  /\ UNCHANGED <<state, assocEvent, watchdog, watchdogEnd, link, net, beacon, silence,
                 losses, delays>>

-----------------------------------------------------------------------------
(* StaWifiMac::Receive.                                                    *)

\* A beacon of the network of the station.
ReceiveBeacon ==
  /\ beacon = 0
  /\ beacon' = BeaconInterval
  /\ \E delay \in WatchdogDelays : RestartBeaconWatchdog(delay)
  /\ \/ /\ state = "BEACON_MISSED"
        /\ state' = "WAIT_ASSOC_RESP"
        /\ SendAssociationRequest({})
     \/ /\ state # "BEACON_MISSED"
        /\ UNCHANGED <<state, assocEvent, net>>
  /\ UNCHANGED <<probeEvent, link, stopped, losses, delays>>

\* Frames that come in another state than the one waiting for them are ignored.
IgnoreResponse ==
  \E frame \in net :
    /\ \/ frame = "probeResp" /\ state # "WAIT_PROBE_RESP"
       \/ frame \in {"assocOk", "assocRefused"} /\ state # "WAIT_ASSOC_RESP"
    /\ net' = net \ {frame}
    /\ UNCHANGED <<state, probeEvent, assocEvent, watchdog, watchdogEnd, link, beacon,
                   silence, stopped, losses, delays>>

ReceiveProbeResp ==
  /\ "probeResp" \in net
  /\ state = "WAIT_PROBE_RESP"
  /\ \E delay \in WatchdogDelays : RestartBeaconWatchdog(delay)
  /\ probeEvent' = Off
  /\ state' = "WAIT_ASSOC_RESP"
  /\ SendAssociationRequest({"probeResp"})
  /\ UNCHANGED <<link, beacon, stopped, losses, delays>>

ReceiveAssocRespUncancelled ==   \* mutant: the timer of the request runs on
  /\ state = "WAIT_ASSOC_RESP"
  /\ \E status \in {"assocOk", "assocRefused"} \cap net :
       /\ net' = net \ {status}
       /\ state' = IF status = "assocOk" THEN "ASSOCIATED" ELSE "REFUSED"
       /\ link' = (status = "assocOk" \/ link)
  /\ UNCHANGED <<assocEvent, probeEvent, watchdog, watchdogEnd, beacon, silence,
                 stopped, losses, delays>>

ReceiveAssocResp ==
  /\ state = "WAIT_ASSOC_RESP"
  /\ \E status \in {"assocOk", "assocRefused"} \cap net :
       /\ net' = net \ {status}
       /\ state' = IF status = "assocOk" THEN "ASSOCIATED" ELSE "REFUSED"
       /\ link' = (status = "assocOk" \/ link)
  /\ assocEvent' = Off
  /\ UNCHANGED <<probeEvent, watchdog, watchdogEnd, beacon, silence,
                 stopped, losses, delays>>

-----------------------------------------------------------------------------
(* The access point, the medium and time.                                  *)

staVars == <<state, probeEvent, assocEvent, watchdog, watchdogEnd, link, silence,
             stopped>>

ApReceive ==
  /\ \/ /\ "probeReq" \in net
        /\ net' = (net \ {"probeReq"}) \cup {"probeResp"}
     \/ /\ "assocReq" \in net
        /\ \E status \in Statuses : net' = (net \ {"assocReq"}) \cup {status}
  /\ UNCHANGED <<staVars, beacon, losses, delays>>

LoseFrame ==
  /\ losses < MaxLosses
  /\ losses' = losses + 1
  /\ \/ \E frame \in net : net' = net \ {frame} /\ UNCHANGED beacon
     \/ beacon = 0 /\ beacon' = BeaconInterval /\ UNCHANGED net
  /\ UNCHANGED <<staVars, delays>>

Later(countdown) == IF countdown > 0 THEN countdown - 1 ELSE countdown

Tick ==
  /\ 0 \notin {probeEvent, assocEvent, watchdog, beacon}
  /\ net = {} \/ delays < MaxDelays
  /\ delays' = IF net = {} THEN delays ELSE delays + 1
  /\ probeEvent' = Later(probeEvent)
  /\ assocEvent' = Later(assocEvent)
  /\ watchdog' = Later(watchdog)
  /\ watchdogEnd' = Later(watchdogEnd)
  /\ beacon' = Later(beacon)
  /\ silence' = Later(silence)
  /\ UNCHANGED <<state, link, net, stopped, losses>>

Receive == ReceiveBeacon \/ IgnoreResponse \/ ReceiveProbeResp \/ ReceiveAssocResp

Timeout == ProbeRequestTimeout \/ AssocRequestTimeout \/ MissedBeacons

Next ==
  \/ Receive
  \/ Timeout
  \/ EnsureAssociated \/ StopProbing
  \/ ApReceive
  \/ LoseFrame
  \/ Tick

Spec == Init /\ [][Next]_vars

\* The simulator runs what is scheduled, and frames that are not lost arrive.
Fairness == WF_vars(Receive) /\ WF_vars(Timeout) /\ WF_vars(ApReceive) /\ WF_vars(Tick)

FairSpec == Spec /\ Fairness

-----------------------------------------------------------------------------
(* Properties.                                                             *)

\* TryToEnsureAssociated in WAIT_PROBE_RESP: "We just need to wait until
\* probe-request-timeout or until we get a probe response".
WaitsForProbeTimeout == state = "WAIT_PROBE_RESP" => probeEvent # Off

\* A station that waits for a response has an event scheduled that asks again, and
\* one that was associated or refused has one that looks for an access point
\* anew, should no beacon come any more (the timeouts of sta-wifi-mac.cc).
\* Switching ActiveProbing off excuses all but the wait for an association
\* response.  In BEACON_MISSED the station scans passively: nothing is scheduled.
StationNotStranded ==
  /\ state = "WAIT_ASSOC_RESP" => assocEvent # Off
  /\ ~stopped => /\ WaitsForProbeTimeout
                 /\ state \in {"ASSOCIATED", "REFUSED"} => watchdog # Off \/ probeEvent # Off

\* The watchdog, which is not moved when a beacon arrives but checks an end when
\* it fires, gives an association up only after the whole delay asked for
\* by the last beacon or probe response.
WatchdogIsPatient == [][watchdog = 0 /\ watchdog' = Off => silence = 0]_vars

\* Once the losses end, the station becomes associated and stays so, unless it
\* is refused again and again or ActiveProbing was switched off.
AssociationSettles ==
  <>[](state = "ASSOCIATED") \/ []<>(state = "REFUSED") \/ <>stopped

\* Associated is left when the watchdog fires, with m_linkDown called, or by the
\* timeout of a probe request that was overtaken by a repeated association
\* request: no timer that another attempt left behind ends an association.  (The
\* state machine at the top of sta-wifi-mac.cc has the first way only.)
AssociationEndsAsKnown ==
  [][state = "ASSOCIATED" /\ state' # "ASSOCIATED" =>
        (watchdog = 0 /\ ~link') \/ probeEvent = 0]_vars
=============================================================================
