----------------------------- MODULE EdcaTxopN -----------------------------
(***************************************************************************)
(* edca-txop-n.{h,cc}: one access category from its queue to the end of an *)
(* exchange, as the originator of block ack agreements.  Destinations are  *)
(* the Clients of WifiMacQueue; a destination is blocked for data from the *)
(* ADDBA request until the response comes.                                 *)
(*                                                                         *)
(* BlockAckManager, QosBlockedDestinations and MacTxMiddle are not part of *)
(* the repository: their state (agreement, blocked, stored, resend, bars,  *)
(* nextSeq) is what this code keeps in them through its calls.  Exchanges  *)
(* and grants are those of ChannelAccess; here a grant may come at any     *)
(* time after the request and an exchange may end in any way.  The peers   *)
(* answer as regular-wifi-mac.cc and mac-low.cc do.                        *)
(***************************************************************************)
EXTENDS WifiMacQueue

CONSTANTS
  Threshold,     \* m_blockAckThreshold
  MaxTries,      \* attempts of a frame before NeedData/RtsRetransmission refuse
  UseRts,        \* whether NeedRts may ask for an RTS before data
  MaxArrivals,   \* bound: packets queued
  MaxTimeouts,   \* bound: inactivity timeouts, of both ends
  MaxTicks,      \* bound: times all packets age
  MaySwitch      \* whether the channel may be switched

ASSUME EdcaAssumption ==
  /\ {Threshold, MaxTries} \subseteq Nat \ {0}
  /\ {MaxArrivals, MaxTimeouts, MaxTicks} \subseteq Nat
  /\ {UseRts, MaySwitch} \subseteq BOOLEAN

VARIABLES
  queue,       \* m_queue
  current,     \* m_currentPacket and m_currentHdr, or NoFrame
  tries,       \* failed attempts to send it
  busy,        \* MacLow runs the exchange of current
  requested,   \* m_dcf->IsAccessRequested ()
  blocked,     \* m_qosBlockedDestinations
  agreement,   \* state of m_baManager's agreement with each destination
  startSeq,    \* starting sequence of the last ADDBA request
  stored,      \* sequence numbers it keeps until they are acknowledged
  resend,      \* those a block ack reported missing
  bars,        \* block ack requests it has scheduled
  nextSeq,     \* m_txMiddle->GetNextSeqNumberByTidAndAddress
  peers,       \* destinations whose MacLow has an agreement with us
  replies,     \* ADDBA responses and DELBA frames on their way to us
  broken,      \* ghost: destinations whose ADDBA exchange failed
  cancelled,   \* ghost: the exchange of current was cancelled, and not begun again
  switched,    \* ghost: whether the channel was switched
  arrivals, timeouts, ticks   \* how many so far

baVars == <<blocked, agreement, startSeq, stored, resend, bars>>
peerVars == <<peers, replies>>
bounds == <<switched, arrivals, timeouts, ticks>>
vars == <<queue, current, tries, busy, requested, baVars, nextSeq, peerVars, broken, cancelled,
          bounds>>

ActionFrames == {"addba", "addbaResp", "delba"}
States == {"none", "pending", "established", "inactive"}

\* A frame held: what it is, for whom, its sequence number, and its ack policy,
\* which tells how its exchange ends.
Frame(kind, to, seq, policy) == [kind |-> kind, to |-> to, seq |-> seq, policy |-> policy]
NoFrame == Frame("none", Group, 0, "none")
Action(kind, to) == Frame(kind, to, 0, "ack")
Bar(to) == Frame("bar", to, 0, "request")

\* A packet queued: data, or an action frame of the given kind.
Item(kind, to) == [to |-> to, mgt |-> kind # "data", age |-> 0, kind |-> kind]
Reply(kind, from) == [kind |-> kind, from |-> from]

Init ==
  /\ queue = EmptyQueue /\ current = NoFrame /\ tries = 0
  /\ busy = FALSE /\ requested = FALSE
  /\ blocked = {} /\ agreement = [c \in Clients |-> "none"]
  /\ startSeq = [c \in Clients |-> 0]
  /\ stored = [c \in Clients |-> {}] /\ resend = [c \in Clients |-> {}]
  /\ bars = << >> /\ nextSeq = [c \in Clients |-> 1]
  /\ peers = {} /\ replies = {} /\ broken = {} /\ cancelled = FALSE
  /\ switched = FALSE /\ arrivals = 0 /\ timeouts = 0 /\ ticks = 0

-----------------------------------------------------------------------------
(* Access requests, from the values after the handler.                     *)

HasPackets == bars # << >> \/ \E c \in Clients : resend[c] # {}

RestartAccessIfNeeded ==
  requested' = (requested \/ current' # NoFrame \/ ~IsEmpty(queue') \/ HasPackets')

StartAccessIfNeeded ==
  requested' = (requested \/ (current' = NoFrame /\ (~IsEmpty(queue') \/ HasPackets')))

-----------------------------------------------------------------------------
(* Calls from above and from the block ack listener.                       *)

Queue(to) ==
  /\ arrivals < MaxArrivals /\ arrivals' = arrivals + 1
  /\ queue' = Enqueue(queue, Item("data", to))
  /\ UNCHANGED <<current, tries, busy, baVars, nextSeq, peerVars, broken,
                 cancelled, switched, timeouts, ticks>>
  /\ StartAccessIfNeeded

\* SendDelbaFrame: the inactivity timeout of an agreement, at this end.
SendDelbaFrame(to) ==
  /\ agreement[to] \in {"established", "inactive"}
  /\ timeouts < MaxTimeouts /\ timeouts' = timeouts + 1
  /\ queue' = PushFront(queue, Item("delba", to))
  /\ UNCHANGED <<current, tries, busy, baVars, nextSeq, peerVars, broken,
                 cancelled, switched, arrivals, ticks>>
  /\ StartAccessIfNeeded

\* RegularWifiMac::SendAddBaResponse: the destination is an originator, too.
SendAddBaResponse(to) ==
  /\ arrivals < MaxArrivals /\ arrivals' = arrivals + 1
  /\ queue' = PushFront(queue, Item("addbaResp", to))
  /\ UNCHANGED <<current, tries, busy, baVars, nextSeq, peerVars, broken,
                 cancelled, switched, timeouts, ticks>>
  /\ StartAccessIfNeeded

-----------------------------------------------------------------------------
(* NotifyAccessGranted, one action for each of its outcomes.  MacLow does  *)
(* not tell the DcfManager that it awaits a block ack, so a grant may come *)
(* then.                                                                   *)

Granted ==
  /\ requested /\ requested' = FALSE
  /\ ~busy \/ current.kind = "bar"
  /\ cancelled' = FALSE
  /\ UNCHANGED <<peerVars, broken, bounds>>

\* A block ack request becomes due when nothing more waits for the
\* destination, or earlier.
NotifyMpduTransmission(to) ==
  \E due \in BOOLEAN :
    /\ NPackets(queue', to) = 0 /\ resend'[to] = {} => due
    /\ bars' = IF due THEN Append(bars, to) ELSE bars

\* CompleteTx, for the frame held after a grant: what is sent again (IsRetry)
\* is stored already.  Nothing asks whether the agreement is still there.
CompleteTx ==
  IF current'.policy = "ba"
  THEN /\ stored' = IF current'.kind = "resend" THEN stored
                    ELSE [stored EXCEPT ![current'.to] = @ \cup {current'.seq}]
       /\ NotifyMpduTransmission(current'.to)
  ELSE UNCHANGED <<stored, bars>>

\* The queue holds nothing that may be sent.
GrantNothing ==
  /\ Granted /\ current = NoFrame /\ ~HasPackets
  /\ Available(queue, blocked) = {}
  /\ queue' = Cleanup(queue)
  /\ UNCHANGED <<current, tries, busy, baVars, nextSeq>>

\* What is held is sent again.
GrantHeld ==
  /\ Granted /\ current # NoFrame
  /\ busy' = TRUE
  /\ UNCHANGED <<queue, current, tries, blocked, agreement, startSeq, resend, nextSeq>>
  /\ CompleteTx

\* A scheduled block ack request goes first.
GrantBar ==
  /\ Granted /\ current = NoFrame /\ bars # << >>
  /\ current' = Bar(Head(bars)) /\ bars' = Tail(bars) /\ busy' = TRUE
  /\ UNCHANGED <<queue, tries, blocked, agreement, startSeq, stored, resend, nextSeq>>

\* Then a packet that a block ack reported missing.
GrantResend(to) ==
  /\ Granted /\ current = NoFrame /\ bars = << >> /\ resend[to] # {}
  /\ LET seq == Min(resend[to])
     IN  /\ current' = Frame("resend", to, seq, "ba")
         /\ resend' = [resend EXCEPT ![to] = @ \ {seq}]
  /\ busy' = TRUE
  /\ UNCHANGED <<queue, tries, blocked, agreement, startSeq, nextSeq>>
  /\ CompleteTx

\* CreateAgreement: the destination is blocked until UpdateAgreement.
CreateAgreement(to) ==
  /\ agreement' = [agreement EXCEPT ![to] = "pending"]
  /\ startSeq' = [startSeq EXCEPT ![to] = nextSeq[to]]
  /\ blocked' = blocked \cup {to}

\* SetupBlockAckIfNeeded: enough packets wait for a destination without agreement.
NeedsSetup(p) ==
  /\ ~p.mgt /\ p.to # Group
  /\ agreement[p.to] = "none" /\ NPackets(queue, p.to) >= Threshold

FirstItem == Cleanup(queue).items[FirstAvailable(queue, blocked)]

\* SendAddBaRequest: the packet stays in the queue.
GrantAddBa ==
  /\ Granted /\ current = NoFrame /\ ~HasPackets /\ Available(queue, blocked) # {}
  /\ NeedsSetup(FirstItem)
  /\ queue' = Cleanup(queue)
  /\ CreateAgreement(FirstItem.to)
  /\ current' = Action("addba", FirstItem.to) /\ busy' = TRUE
  /\ UNCHANGED <<tries, stored, resend, bars, nextSeq>>

\* VerifyBlockAck, with SwitchToBlockAckIfNeeded for an inactive agreement.
Verified(to) ==
  IF agreement[to] = "inactive" /\ NPackets(queue', to) + Cardinality(stored[to]) >= Threshold
  THEN "established" ELSE agreement[to]

GrantPacket ==
  /\ Granted /\ current = NoFrame /\ ~HasPackets /\ Available(queue, blocked) # {}
  /\ ~NeedsSetup(FirstItem)
  /\ queue' = TakeAt(Cleanup(queue), FirstAvailable(queue, blocked))
  /\ busy' = TRUE
  /\ LET p == FirstItem
         c == p.to
     IN  \/ /\ p.mgt /\ current' = Action(p.kind, c)
            /\ UNCHANGED <<agreement, nextSeq>>
         \/ /\ ~p.mgt /\ c = Group /\ current' = Frame("group", c, 0, "none")
            /\ UNCHANGED <<agreement, nextSeq>>
         \/ /\ ~p.mgt /\ c # Group
            /\ agreement' = [agreement EXCEPT ![c] = Verified(c)]
            /\ current' = Frame("data", c, nextSeq[c],
                                IF Verified(c) = "established" THEN "ba" ELSE "ack")
            /\ nextSeq' = [nextSeq EXCEPT ![c] = @ + 1]
  /\ UNCHANGED <<tries, blocked, startSeq, resend>>
  /\ CompleteTx

NotifyAccessGranted ==
  \/ GrantNothing \/ GrantHeld \/ GrantBar \/ GrantAddBa \/ GrantPacket
  \/ \E to \in Clients : GrantResend(to)

-----------------------------------------------------------------------------
(* What a peer does with a frame of ours.                                  *)

\* Its response goes to the head of its queue; an agreement it has stays.
PeerReceives ==
  LET to == current.to
      unknown == current.policy = "ba" /\ to \notin peers
  IN  /\ peers' = CASE current.kind = "addba" -> peers \cup {to}
                    [] current.kind = "delba" -> peers \ {to}
                    [] OTHER -> peers
      /\ replies' = replies \cup
           CASE current.kind = "addba" -> {Reply("addbaResp", to)}
             [] unknown -> {Reply("delba", to)}
             [] OTHER -> {}

\* Its own inactivity timeout.
PeerTimeout(from) ==
  /\ from \in peers
  /\ timeouts < MaxTimeouts /\ timeouts' = timeouts + 1
  /\ replies' = replies \cup {Reply("delba", from)}
  /\ UNCHANGED <<queue, current, tries, busy, requested, baVars, nextSeq, peers, broken,
                 cancelled, switched, arrivals, ticks>>

\* Its last attempt fails.
LoseReply(reply) ==
  /\ replies' = replies \ {reply}
  /\ broken' = IF reply.kind = "addbaResp" THEN broken \cup {reply.from} ELSE broken
  /\ UNCHANGED <<queue, current, tries, busy, requested, baVars, nextSeq, peers,
                 cancelled, bounds>>

-----------------------------------------------------------------------------
(* Ends of exchanges.                                                      *)

\* TearDownBlockAck; nothing is unblocked.
TearDown(to) ==
  /\ agreement' = [agreement EXCEPT ![to] = "none"]
  /\ stored' = [stored EXCEPT ![to] = {}]
  /\ resend' = [resend EXCEPT ![to] = {}]
  /\ bars' = Selected(bars, Clients \ {to})
  /\ UNCHANGED <<blocked, startSeq>>

Done ==
  /\ busy /\ busy' = FALSE
  /\ UNCHANGED <<queue, nextSeq, cancelled, bounds>>

EndTxNoAck(got) ==
  /\ Done /\ current.policy \in {"none", "ba"}
  /\ current' = NoFrame /\ tries' = 0
  /\ IF got /\ current.policy = "ba" THEN PeerReceives ELSE UNCHANGED peerVars
  /\ UNCHANGED <<baVars, broken>>
  /\ StartAccessIfNeeded

GotAck ==
  /\ Done /\ current.policy = "ack"
  /\ current' = NoFrame /\ tries' = 0
  /\ PeerReceives
  /\ IF current.kind = "delba" THEN TearDown(current.to) ELSE UNCHANGED baVars
  /\ UNCHANGED broken
  /\ RestartAccessIfNeeded

\* MissedAck and MissedCts: the frame is kept for another attempt or given up.
Retry ==
  /\ tries + 1 < MaxTries
  /\ tries' = tries + 1
  /\ UNCHANGED <<current, broken>>
GiveUp ==
  /\ tries + 1 >= MaxTries
  /\ current' = NoFrame /\ tries' = 0
  /\ broken' = IF current.kind = "addba" THEN broken \cup {current.to} ELSE broken

MissedAck(got) ==
  /\ Done /\ current.policy = "ack"
  /\ Retry \/ GiveUp
  /\ IF got THEN PeerReceives ELSE UNCHANGED peerVars
  /\ UNCHANGED baVars
  /\ RestartAccessIfNeeded

MissedCts ==
  /\ UseRts /\ Done /\ current.kind \in {"data", "resend"}
  /\ Retry \/ GiveUp
  /\ UNCHANGED <<baVars, peerVars>>
  /\ RestartAccessIfNeeded

GotBlockAckHolding(received) ==   \* mutant: the request is kept
  /\ Done /\ current.kind = "bar" /\ current.to \in peers
  /\ received \subseteq stored[current.to]
  /\ UNCHANGED <<baVars, current, tries, peerVars, broken>>
  /\ RestartAccessIfNeeded

\* The block ack reports the packets received; the others are sent again.  The
\* agreement goes inactive when too few packets are left for it.
GotBlockAck(received) ==
  /\ Done /\ current.kind = "bar" /\ current.to \in peers
  /\ received \subseteq stored[current.to]
  /\ LET to == current.to
         missing == stored[to] \ received
         few == NPackets(queue, to) + Cardinality(missing) < Threshold
     IN  /\ stored' = [stored EXCEPT ![to] = missing]
         /\ resend' = [resend EXCEPT ![to] = missing]
         /\ agreement' = IF agreement[to] = "established" /\ few
                         THEN [agreement EXCEPT ![to] = "inactive"] ELSE agreement
  /\ current' = NoFrame /\ tries' = 0
  /\ UNCHANGED <<blocked, startSeq, bars, peerVars, broken>>
  /\ RestartAccessIfNeeded

\* The request is sent again, however often it was.
MissedBlockAck ==
  /\ Done /\ current.kind = "bar"
  /\ UNCHANGED <<current, tries, baVars, peerVars, broken>>
  /\ RestartAccessIfNeeded

\* MacLow::StartTransmission, for another contender that was granted meanwhile:
\* the wait for a block ack is over, and nobody asks for the frame held again.
Cancel ==
  /\ busy /\ busy' = FALSE
  /\ current.kind = "bar" /\ cancelled' = TRUE
  /\ UNCHANGED <<queue, current, tries, requested, baVars, nextSeq, peerVars, broken, bounds>>

-----------------------------------------------------------------------------
(* Frames received, channel switches and time.                             *)

GotAddBaResponseSilent(reply) ==   \* mutant: access is not requested again
  /\ reply.kind = "addbaResp" /\ replies' = replies \ {reply}
  /\ IF agreement[reply.from] = "pending"
     THEN /\ agreement' = [agreement EXCEPT ![reply.from] = "established"]
          /\ blocked' = blocked \ {reply.from}
     ELSE UNCHANGED <<agreement, blocked>>
  /\ UNCHANGED <<queue, current, tries, busy, requested, startSeq, stored, resend, bars,
                 nextSeq, peers, broken, cancelled, bounds>>

\* A peer always answers with success (regular-wifi-mac.cc), so an open
\* agreement is never turned down.
GotAddBaResponse(reply) ==
  /\ reply.kind = "addbaResp" /\ replies' = replies \ {reply}
  /\ IF agreement[reply.from] = "pending"
     THEN /\ agreement' = [agreement EXCEPT ![reply.from] = "established"]
          /\ blocked' = blocked \ {reply.from}
     ELSE UNCHANGED <<agreement, blocked>>
  /\ UNCHANGED <<queue, current, tries, busy, startSeq, stored, resend, bars, nextSeq, peers,
                 broken, cancelled, bounds>>
  /\ RestartAccessIfNeeded

\* The peer ends its agreement when our acknowledgment reaches it.
GotDelBaFrame(reply, acked) ==
  /\ reply.kind = "delba" /\ replies' = replies \ {reply}
  /\ TearDown(reply.from)
  /\ peers' = IF acked THEN peers \ {reply.from} ELSE peers
  /\ broken' = IF agreement[reply.from] = "pending" THEN broken \cup {reply.from} ELSE broken
  /\ UNCHANGED <<queue, current, tries, busy, requested, nextSeq, cancelled, bounds>>

\* The DcfManager forgets the request and MacLow the exchange.
NotifyChannelSwitching ==
  /\ MaySwitch /\ ~switched /\ switched' = TRUE
  /\ queue' = Flush(queue) /\ current' = NoFrame /\ tries' = 0
  /\ busy' = FALSE /\ requested' = FALSE /\ cancelled' = FALSE
  /\ broken' = IF current.kind = "addba" THEN broken \cup {current.to} ELSE broken
  /\ UNCHANGED <<baVars, nextSeq, peerVars, arrivals, timeouts, ticks>>

Tick ==
  /\ ticks < MaxTicks /\ ticks' = ticks + 1
  /\ queue' = AgedQueue(queue)
  /\ UNCHANGED <<current, tries, busy, requested, baVars, nextSeq, peerVars, broken,
                 cancelled, switched, arrivals, timeouts>>

ExchangeEnds ==
  \/ \E got \in BOOLEAN : EndTxNoAck(got) \/ MissedAck(got)
  \/ GotAck \/ MissedCts \/ MissedBlockAck
  \/ \E to \in Clients : \E received \in SUBSET stored[to] : current.to = to /\ GotBlockAck(received)

ReplyArrives ==
  \E reply \in replies : GotAddBaResponse(reply) \/ \E acked \in BOOLEAN : GotDelBaFrame(reply, acked)

Next ==
  \/ \E to \in Clients \cup {Group} : Queue(to)
  \/ \E to \in Clients : SendDelbaFrame(to) \/ SendAddBaResponse(to) \/ PeerTimeout(to)
  \/ NotifyAccessGranted
  \/ ExchangeEnds
  \/ Cancel
  \/ ReplyArrives
  \/ \E reply \in replies : LoseReply(reply)
  \/ NotifyChannelSwitching
  \/ Tick

Spec == Init /\ [][Next]_vars

\* The simulator grants requests, ends the exchanges that are not cancelled and
\* delivers what is not lost;
\* a peer with an agreement hears a request that is repeated for ever, and all
\* packets that are sent again and again.
FairSpec ==
  /\ Spec
  /\ WF_vars(NotifyAccessGranted)
  /\ WF_vars(ExchangeEnds)
  /\ WF_vars(ReplyArrives)
  /\ \A to \in Clients : SF_vars(current.to = to /\ GotBlockAck(stored[to]))

-----------------------------------------------------------------------------
(* Properties *)

\* Types; every packet queued or held is one of the frames named above.
TypeOK ==
  /\ queue.items \in Seq([to : Clients \cup {Group}, mgt : BOOLEAN, age : Nat,
                          kind : {"data"} \cup ActionFrames])
  /\ queue.size = Len(queue.items)
  /\ current \in [kind : {"none", "data", "resend", "group", "bar"} \cup ActionFrames,
                  to : Clients \cup {Group}, seq : Nat,
                  policy : {"none", "ack", "ba", "request"}]
  /\ tries \in 0..(MaxTries - 1)
  /\ {busy, requested, cancelled, switched} \subseteq BOOLEAN
  /\ blocked \cup peers \cup broken \subseteq Clients
  /\ agreement \in [Clients -> States]
  /\ startSeq \in [Clients -> Nat] /\ nextSeq \in [Clients -> Nat]
  /\ \A c \in Clients : resend[c] \subseteq stored[c] /\ stored[c] \subseteq 1..(nextSeq[c] - 1)
  /\ bars \in Seq(Clients)
  /\ replies \subseteq [kind : {"addbaResp", "delba"}, from : Clients]
  /\ arrivals \in 0..MaxArrivals /\ timeouts \in 0..MaxTimeouts /\ ticks \in 0..MaxTicks

\* Whenever no exchange runs and no access is requested there is nothing to
\* send: access is requested at arrivals, at the ends of exchanges and when a
\* response unblocks a destination, and nowhere else, so a handler that forgets
\* leaves packets without anybody to ask for them (edca-txop-n.cc,
\* RestartAccessIfNeeded).  Two handlers do forget.  A channel switch flushes the
\* queue, not the BlockAckManager; and Cancel leaves the block ack request that
\* was awaited, with all that waits behind it.
WorkIsRequested ==
  ~busy /\ ~requested /\ ~cancelled =>
    /\ current = NoFrame
    /\ Available(queue, blocked) = {}
    /\ HasPackets => switched

\* No data leaves between an ADDBA request and its response, whatever is
\* retried, torn down or answered late: the sequence number the request
\* announced is that of the first packet under the agreement
\* (edca-txop-n.cc, SetupBlockAckIfNeeded; wifi-mac-queue.h, DequeueFirstAvailable).
AgreementStartsAtNext ==
  \A c \in Clients : agreement[c] = "pending" => startSeq[c] = nextSeq[c]

\* A request to a peer without the agreement is never answered.
UnansweredBar == current.kind = "bar" /\ current.to \notin peers

\* Every queued packet is sent in the end, or its setup failed (the destination
\* then stays blocked), or the category is stuck with a block ack request that
\* no one answers, or that was cancelled and is not asked for again
\* (edca-txop-n.cc, NotifyAccessGranted, MissedBlockAck, Cancel).
DestinationServed ==
  \A c \in Clients :
    \/ []<>(NPackets(queue, c) = 0) \/ <>(c \in broken)
    \/ <>[]UnansweredBar \/ <>[](cancelled /\ ~requested)
=============================================================================
