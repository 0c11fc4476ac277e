--------------------------- MODULE EdcaTxopNProofs ---------------------------
(***************************************************************************)
(* What holds of EdcaTxopN for any destinations, limit, lifetime,          *)
(* threshold and bounds.                                                   *)
(***************************************************************************)
EXTENDS EdcaTxopN, WifiMacQueueProofs

\* What is queued: never an ADDBA request; only data goes to the group.
Kinds == {"data", "addbaResp", "delba"}
Items == {p \in [to : Clients \cup {Group}, mgt : BOOLEAN, age : Nat, kind : Kinds] :
            p.kind # "data" => p.to \in Clients}

\* What TypeOK leaves out: the queue is counted, the sets the BlockAckManager
\* keeps belong to destinations, numbers start at 1, an ADDBA request and data
\* under block ack are for a destination, and held data has a number in use.
Inductive ==
  /\ TypeOK
  /\ Counted(Items, queue)
  /\ stored \in [Clients -> SUBSET Nat] /\ resend \in [Clients -> SUBSET Nat]
  /\ \A c \in Clients : nextSeq[c] >= 1
  /\ current.kind \in {"addba", "delba"} => current.to \in Clients
  /\ current.policy = "ba" =>
       /\ current.to \in Clients
       /\ current.seq \in 1..(nextSeq[current.to] - 1)

-----------------------------------------------------------------------------
(* The packets of the queue.                                               *)

LEMMA NewItem ==
  ASSUME NEW kind \in Kinds, NEW to \in Clients \cup {Group},
         kind # "data" => to \in Clients
  PROVE  Item(kind, to) \in Items
  BY DEF Item, Items

LEMMA OlderItem ==
  ASSUME NEW p \in Items
  PROVE  /\ Older(p) \in Items
         /\ Older(p).to = p.to /\ Older(p).mgt = p.mgt
         /\ Expired(p) => Expired(Older(p))
<1>1. p.age \in Nat  BY DEF Items
<1>2. CASE p.age < Lifetime
  <2>1. /\ Older(p).to = p.to /\ Older(p).mgt = p.mgt /\ Older(p).age = p.age + 1
        /\ Older(p) \in Items
    BY <1>1, <1>2 DEF Older, Items
  <2> QED  BY <1>1, <1>2, <2>1, QueueAssumption DEF Expired, Forever
<1>3. CASE ~(p.age < Lifetime)
  BY <1>3 DEF Older
<1> QED  BY <1>2, <1>3

LEMMA FlushCounts ==
  ASSUME NEW q, Counted(Items, q)
  PROVE  Counted(Items, Flush(q)) /\ Flush(q).items = << >>
<1> DEFINE list == << >>
           n == 0
<1>1. list \in Seq(Items) /\ n = Len(list)  OBVIOUS
<1>2. Flush(q) = [q EXCEPT !.items = list, !.size = n]  BY DEF Flush
<1>3. Flush(q).items = << >>  BY DEF Flush, Counted
<1> HIDE DEF list, n
<1>4. Counted(Items, Flush(q))
  <2>1. Counted(Items, [q EXCEPT !.items = list, !.size = n])
    BY <1>1, UpdateCounts
  <2> QED  BY <2>1, <1>2
<1> QED  BY <1>3, <1>4

\* The packet a grant finds in the queue.
LEMMA FirstItemIsSendable ==
  ASSUME Inductive, Available(queue, blocked) # {}
  PROVE  /\ FirstItem \in Items
         /\ FirstItem.mgt \/ FirstItem.to \notin blocked
         /\ Counted(Items, Cleanup(queue))
         /\ Counted(Items, TakeAt(Cleanup(queue), FirstAvailable(queue, blocked)))
<1> DEFINE q == Cleanup(queue)
           k == FirstAvailable(queue, blocked)
<1>1. /\ Counted(Items, q) /\ k \in DOMAIN q.items
      /\ q.items[k].mgt \/ q.items[k].to \notin blocked
  BY FirstIsAvailable, CleanupCounts DEF Inductive, Available
<1>2. FirstItem = q.items[k]  BY DEF FirstItem
<1> HIDE DEF q, k
<1>3. Counted(Items, TakeAt(q, k)) /\ q.items[k] \in Items
  BY <1>1, TakeAtCounts
<1> QED  BY <1>1, <1>2, <1>3 DEF q, k

-----------------------------------------------------------------------------
(* Types.                                                                  *)

\* The part of the state that CompleteTx changes.
LEMMA CompleteTxTypes ==
  ASSUME Inductive, CompleteTx,
         current'.policy = "ba" =>
           /\ current'.to \in Clients
           /\ current'.seq \in 1..(nextSeq'[current'.to] - 1),
         nextSeq' \in [Clients -> Nat],
         \A c \in Clients : nextSeq[c] <= nextSeq'[c]
  PROVE  /\ stored' \in [Clients -> SUBSET Nat]
         /\ \A c \in Clients : stored[c] \subseteq stored'[c]
         /\ \A c \in Clients : stored'[c] \subseteq 1..(nextSeq'[c] - 1)
         /\ bars' \in Seq(Clients)
<1> DEFINE to == current'.to
           seq == current'.seq
<1>0. /\ stored \in [Clients -> SUBSET Nat] /\ bars \in Seq(Clients)
      /\ nextSeq \in [Clients -> Nat]
      /\ \A c \in Clients : stored[c] \subseteq 1..(nextSeq[c] - 1)
  BY DEF Inductive, TypeOK
<1>1. \A c \in Clients : stored[c] \subseteq 1..(nextSeq'[c] - 1)
  <2> SUFFICES ASSUME NEW c \in Clients, NEW s \in stored[c]
               PROVE  s \in 1..(nextSeq'[c] - 1)
    OBVIOUS
  <2>1. s \in 1..(nextSeq[c] - 1) /\ nextSeq[c] \in Nat /\ nextSeq'[c] \in Nat
    BY <1>0
  <2> QED  BY <2>1
<1>2. CASE current'.policy = "ba"
  <2>1. /\ to \in Clients /\ seq \in 1..(nextSeq'[to] - 1)
        /\ nextSeq'[to] \in Nat
    BY <1>2
  <2>2. /\ stored' = stored \/ stored' = [stored EXCEPT ![to] = @ \cup {seq}]
        /\ NotifyMpduTransmission(to)
    BY <1>2 DEF CompleteTx
  <2>3. bars' = bars \/ bars' = Append(bars, to)
    BY <2>2 DEF NotifyMpduTransmission
  <2> HIDE DEF to, seq
  <2>4. seq \in Nat  BY <2>1
  <2>5. stored' \in [Clients -> SUBSET Nat]  BY <1>0, <2>2, <2>4
  <2>6. \A c \in Clients :
          /\ stored[c] \subseteq stored'[c]
          /\ stored'[c] \subseteq IF c = to THEN stored[c] \cup {seq} ELSE stored[c]
    BY <1>0, <2>2
  <2>7. bars' \in Seq(Clients)
    <3>1. Append(bars, to) \in Seq(Clients)  BY <1>0, <2>1, AppendProperties
    <3> QED  BY <1>0, <2>3, <3>1
  <2> QED  BY <1>1, <2>1, <2>5, <2>6, <2>7
<1>3. CASE current'.policy # "ba"
  BY <1>0, <1>1, <1>3 DEF CompleteTx
<1> QED  BY <1>2, <1>3

\* What every grant leaves as it is.
LEMMA GrantedTypes ==
  ASSUME Inductive, Granted
  PROVE  /\ requested' = FALSE /\ cancelled' = FALSE /\ switched' \in BOOLEAN
         /\ peers' \subseteq Clients /\ broken' \subseteq Clients
         /\ replies' \subseteq [kind : {"addbaResp", "delba"}, from : Clients]
         /\ arrivals' \in 0..MaxArrivals /\ timeouts' \in 0..MaxTimeouts
         /\ ticks' \in 0..MaxTicks
  BY DEF Inductive, TypeOK, Granted, peerVars, bounds

LEMMA QueueTypes ==
  ASSUME NEW q, Counted(Items, q)
  PROVE  /\ q.items \in Seq([to : Clients \cup {Group}, mgt : BOOLEAN, age : Nat,
                             kind : {"data"} \cup ActionFrames])
         /\ q.size = Len(q.items)
<1> DEFINE Wider == [to : Clients \cup {Group}, mgt : BOOLEAN, age : Nat,
                     kind : {"data"} \cup ActionFrames]
<1>1. Items \subseteq Wider  BY DEF Items, Kinds, ActionFrames
<1>2. q.items \in Seq(Items) /\ q.size = Len(q.items)  BY DEF Counted
<1> HIDE DEF Wider
<1>3. q.items \in Seq(Wider)  BY <1>1, <1>2
<1> QED  BY <1>2, <1>3 DEF Wider

Frames == [kind : {"none", "data", "resend", "group", "bar"} \cup ActionFrames,
           to : Clients \cup {Group}, seq : Nat,
           policy : {"none", "ack", "ba", "request"}]

\* The next state has the types if its parts do.
LEMMA Assemble ==
  ASSUME Counted(Items, queue'), current' \in Frames, tries' \in 0..(MaxTries - 1),
         {busy', requested', cancelled', switched'} \subseteq BOOLEAN,
         blocked' \cup peers' \cup broken' \subseteq Clients,
         agreement' \in [Clients -> States],
         startSeq' \in [Clients -> Nat], nextSeq' \in [Clients -> Nat],
         stored' \in [Clients -> SUBSET Nat], resend' \in [Clients -> SUBSET Nat],
         \A c \in Clients : resend'[c] \subseteq stored'[c],
         \A c \in Clients : stored'[c] \subseteq 1..(nextSeq'[c] - 1),
         \A c \in Clients : nextSeq'[c] >= 1,
         bars' \in Seq(Clients),
         replies' \subseteq [kind : {"addbaResp", "delba"}, from : Clients],
         arrivals' \in 0..MaxArrivals, timeouts' \in 0..MaxTimeouts, ticks' \in 0..MaxTicks,
         current'.kind \in {"addba", "delba"} => current'.to \in Clients,
         current'.policy = "ba" =>
           /\ current'.to \in Clients
           /\ current'.seq \in 1..(nextSeq'[current'.to] - 1)
  PROVE  Inductive'
<1>1. /\ queue'.items \in Seq([to : Clients \cup {Group}, mgt : BOOLEAN, age : Nat,
                               kind : {"data"} \cup ActionFrames])
      /\ queue'.size = Len(queue'.items)
  BY QueueTypes
<1>2. TypeOK'  BY <1>1 DEF TypeOK, Frames
<1> QED  BY <1>2 DEF Inductive

\* The parts of Inductive, as facts about single variables.
LEMMA Parts ==
  ASSUME Inductive
  PROVE  /\ Counted(Items, queue) /\ current \in Frames /\ tries \in 0..(MaxTries - 1)
         /\ {busy, requested, cancelled, switched} \subseteq BOOLEAN
         /\ blocked \cup peers \cup broken \subseteq Clients
         /\ agreement \in [Clients -> States]
         /\ startSeq \in [Clients -> Nat] /\ nextSeq \in [Clients -> Nat]
         /\ stored \in [Clients -> SUBSET Nat] /\ resend \in [Clients -> SUBSET Nat]
         /\ \A c \in Clients : resend[c] \subseteq stored[c]
         /\ \A c \in Clients : stored[c] \subseteq 1..(nextSeq[c] - 1)
         /\ \A c \in Clients : nextSeq[c] >= 1
         /\ bars \in Seq(Clients)
         /\ replies \subseteq [kind : {"addbaResp", "delba"}, from : Clients]
         /\ arrivals \in 0..MaxArrivals /\ timeouts \in 0..MaxTimeouts /\ ticks \in 0..MaxTicks
         /\ current.kind \in {"addba", "delba"} => current.to \in Clients
         /\ current.policy = "ba" =>
              /\ current.to \in Clients
              /\ current.seq \in 1..(nextSeq[current.to] - 1)
  BY DEF Inductive, TypeOK, Frames

LEMMA NoFrameTypes ==
  /\ NoFrame \in Frames /\ NoFrame.kind = "none" /\ NoFrame.policy = "none"
  /\ 0 \in 0..(MaxTries - 1)
  BY EdcaAssumption DEF NoFrame, Frame, Frames

-----------------------------------------------------------------------------
(* Grants.                                                                 *)

LEMMA GrantKeeps ==
  ASSUME Inductive, NotifyAccessGranted
  PROVE  Inductive'
<1>0. Granted  BY DEF NotifyAccessGranted, GrantNothing, GrantHeld, GrantBar, GrantAddBa,
                      GrantPacket, GrantResend
<1>p. /\ requested' = FALSE /\ cancelled' = FALSE /\ switched' \in BOOLEAN
      /\ peers' \subseteq Clients /\ broken' \subseteq Clients
      /\ replies' \subseteq [kind : {"addbaResp", "delba"}, from : Clients]
      /\ arrivals' \in 0..MaxArrivals /\ timeouts' \in 0..MaxTimeouts
      /\ ticks' \in 0..MaxTicks
  BY <1>0, GrantedTypes
<1>1. CASE GrantNothing
  <2>1. Counted(Items, Cleanup(queue))  BY Parts, CleanupCounts
  <2> QED  BY <1>1, <1>p, <2>1, Parts, Assemble DEF GrantNothing, baVars
<1>2. CASE GrantHeld
  <2>1. /\ UNCHANGED <<queue, current, tries, blocked, agreement, startSeq, resend, nextSeq>>
        /\ busy' = TRUE /\ CompleteTx
    BY <1>2 DEF GrantHeld
  <2>2. /\ stored' \in [Clients -> SUBSET Nat]
        /\ \A c \in Clients : stored[c] \subseteq stored'[c]
        /\ \A c \in Clients : stored'[c] \subseteq 1..(nextSeq'[c] - 1)
        /\ bars' \in Seq(Clients)
    BY <2>1, Parts, CompleteTxTypes
  <2> QED  BY <1>p, <2>1, <2>2, Parts, Assemble
<1>3. CASE GrantBar
  <2>1. /\ UNCHANGED <<queue, tries, blocked, agreement, startSeq, stored, resend, nextSeq>>
        /\ busy' = TRUE /\ current' = Bar(Head(bars)) /\ bars' = Tail(bars)
        /\ bars # << >> /\ bars \in Seq(Clients)
    BY <1>3, Parts DEF GrantBar
  <2>2. Head(bars) \in Clients /\ Tail(bars) \in Seq(Clients)  BY <2>1
  <2>3. /\ current' \in Frames /\ current'.kind = "bar" /\ current'.policy = "request"
    BY <2>1, <2>2 DEF Bar, Frame, Frames
  <2> QED  BY <1>p, <2>1, <2>2, <2>3, Parts, Assemble
<1>4. ASSUME NEW to \in Clients, GrantResend(to)  PROVE Inductive'
  <2> DEFINE seq == Min(resend[to])
  <2>1. /\ UNCHANGED <<queue, tries, blocked, agreement, startSeq, nextSeq>>
        /\ busy' = TRUE /\ CompleteTx /\ resend[to] # {}
        /\ current' = Frame("resend", to, seq, "ba")
        /\ resend' = [resend EXCEPT ![to] = @ \ {seq}]
    BY <1>4 DEF GrantResend
  <2>2. /\ resend[to] \in SUBSET Nat /\ resend[to] \subseteq 1..(nextSeq[to] - 1)
        /\ resend \in [Clients -> SUBSET Nat] /\ nextSeq \in [Clients -> Nat]
        /\ \A c \in Clients : resend[c] \subseteq stored[c]
    BY Parts
  <2>3. seq \in resend[to]
    <3>1. \E m \in resend[to] : \A n \in resend[to] : m <= n
      BY <2>1, <2>2, Least
    <3> QED  BY <3>1 DEF Min
  <2> HIDE DEF seq
  <2>4. seq \in Nat /\ seq \in 1..(nextSeq[to] - 1)  BY <2>2, <2>3
  <2>5. /\ current' \in Frames /\ current'.kind = "resend"
        /\ current'.to = to /\ current'.seq = seq
    BY <2>1, <2>4 DEF Frame, Frames
  <2>6. /\ stored' \in [Clients -> SUBSET Nat]
        /\ \A c \in Clients : stored[c] \subseteq stored'[c]
        /\ \A c \in Clients : stored'[c] \subseteq 1..(nextSeq'[c] - 1)
        /\ bars' \in Seq(Clients)
    <3>1. \A c \in Clients : nextSeq[c] <= nextSeq'[c]  BY <2>1, <2>2
    <3>2. nextSeq' \in [Clients -> Nat]  BY <2>1, <2>2
    <3> QED  BY <2>1, <2>4, <2>5, <3>1, <3>2, CompleteTxTypes
  <2>7. /\ resend' \in [Clients -> SUBSET Nat]
        /\ \A c \in Clients : resend'[c] \subseteq resend[c]
    BY <2>1, <2>2
  <2>8. \A c \in Clients : resend'[c] \subseteq stored'[c]
    BY <2>2, <2>6, <2>7
  <2> QED  BY <1>p, <2>1, <2>4, <2>5, <2>6, <2>7, <2>8, Parts, Assemble
<1>5. CASE GrantAddBa
  <2> DEFINE c == FirstItem.to
  <2>1. /\ Available(queue, blocked) # {} /\ NeedsSetup(FirstItem)
        /\ queue' = Cleanup(queue) /\ CreateAgreement(c)
        /\ current' = Action("addba", c) /\ busy' = TRUE
        /\ UNCHANGED <<tries, stored, resend, bars, nextSeq>>
    BY <1>5 DEF GrantAddBa
  <2>2. c \in Clients /\ Counted(Items, queue')
    BY <2>1, FirstItemIsSendable DEF NeedsSetup, Items
  <2> HIDE DEF c
  <2>3. /\ agreement' \in [Clients -> States] /\ startSeq' \in [Clients -> Nat]
        /\ blocked' \subseteq Clients
    BY <2>1, <2>2, Parts DEF CreateAgreement, States
  <2>4. /\ current' \in Frames /\ current'.to = c /\ current'.policy = "ack"
    BY <2>1, <2>2 DEF Action, Frame, Frames, ActionFrames
  <2> QED  BY <1>p, <2>1, <2>2, <2>3, <2>4, Parts, Assemble
<1>6. CASE GrantPacket
  <2> DEFINE p == FirstItem
             c == FirstItem.to
  <2>1. /\ Available(queue, blocked) # {}
        /\ queue' = TakeAt(Cleanup(queue), FirstAvailable(queue, blocked))
        /\ busy' = TRUE /\ CompleteTx
        /\ UNCHANGED <<tries, blocked, startSeq, resend>>
        /\ \/ /\ p.mgt /\ current' = Action(p.kind, c)
              /\ UNCHANGED <<agreement, nextSeq>>
           \/ /\ ~p.mgt /\ c = Group /\ current' = Frame("group", c, 0, "none")
              /\ UNCHANGED <<agreement, nextSeq>>
           \/ /\ ~p.mgt /\ c # Group
              /\ agreement' = [agreement EXCEPT ![c] = Verified(c)]
              /\ current' = Frame("data", c, nextSeq[c],
                                  IF Verified(c) = "established" THEN "ba" ELSE "ack")
              /\ nextSeq' = [nextSeq EXCEPT ![c] = @ + 1]
    BY <1>6 DEF GrantPacket
  <2>2. p \in Items /\ Counted(Items, queue')
    BY <2>1, FirstItemIsSendable
  <2>3. /\ c \in Clients \cup {Group} /\ p.kind \in Kinds
        /\ p.kind # "data" => c \in Clients
    BY <2>2 DEF Items
  <2>4. nextSeq \in [Clients -> Nat] /\ agreement \in [Clients -> States]
        /\ \A d \in Clients : nextSeq[d] >= 1
    BY Parts
  <2> HIDE DEF p, c
  <2>5. /\ nextSeq' \in [Clients -> Nat] /\ agreement' \in [Clients -> States]
        /\ \A d \in Clients : nextSeq[d] <= nextSeq'[d]
        /\ \A d \in Clients : nextSeq'[d] >= 1
        /\ current' \in Frames
        /\ current'.kind \in {"addba", "delba"} => current'.to \in Clients
        /\ current'.policy = "ba" =>
             /\ current'.to \in Clients
             /\ current'.seq \in 1..(nextSeq'[current'.to] - 1)
    <3>1. CASE /\ p.mgt /\ current' = Action(p.kind, c) /\ UNCHANGED <<agreement, nextSeq>>
      <4>1. /\ current' \in Frames /\ current'.policy = "ack"
            /\ current'.kind = p.kind /\ current'.to = c
        BY <2>3, <3>1 DEF Action, Frame, Frames, Kinds, ActionFrames
      <4> QED  BY <2>3, <2>4, <3>1, <4>1
    <3>2. CASE /\ ~p.mgt /\ c = Group /\ current' = Frame("group", c, 0, "none")
               /\ UNCHANGED <<agreement, nextSeq>>
      <4>1. /\ current' \in Frames /\ current'.kind = "group" /\ current'.policy = "none"
        BY <2>3, <3>2 DEF Frame, Frames
      <4> QED  BY <2>4, <3>2, <4>1
    <3>3. CASE /\ ~p.mgt /\ c # Group
               /\ agreement' = [agreement EXCEPT ![c] = Verified(c)]
               /\ current' = Frame("data", c, nextSeq[c],
                                   IF Verified(c) = "established" THEN "ba" ELSE "ack")
               /\ nextSeq' = [nextSeq EXCEPT ![c] = @ + 1]
      <4>1. c \in Clients  BY <2>3, <3>3
      <4>2. Verified(c) \in States  BY <2>4, <4>1 DEF Verified, States
      <4>3. /\ current' \in Frames /\ current'.kind = "data"
            /\ current'.to = c /\ current'.seq = nextSeq[c]
        BY <2>4, <3>3, <4>1 DEF Frame, Frames
      <4>4. /\ agreement' \in [Clients -> States] /\ nextSeq' \in [Clients -> Nat]
            /\ nextSeq'[c] = nextSeq[c] + 1
            /\ \A d \in Clients : nextSeq[d] <= nextSeq'[d]
        BY <2>4, <3>3, <4>1, <4>2
      <4> QED  BY <2>4, <4>1, <4>3, <4>4
    <3> QED  BY <2>1, <3>1, <3>2, <3>3 DEF p, c
  <2>6. /\ stored' \in [Clients -> SUBSET Nat]
        /\ \A d \in Clients : stored[d] \subseteq stored'[d]
        /\ \A d \in Clients : stored'[d] \subseteq 1..(nextSeq'[d] - 1)
        /\ bars' \in Seq(Clients)
    BY <2>1, <2>5, CompleteTxTypes
  <2> QED  BY <1>p, <2>1, <2>2, <2>5, <2>6, Parts, Assemble
<1> QED  BY <1>1, <1>2, <1>3, <1>4, <1>5, <1>6 DEF NotifyAccessGranted

-----------------------------------------------------------------------------
(* Arrivals, responses and the ends of exchanges.                          *)

LEMMA CancelKeeps ==
  ASSUME Inductive, Cancel
  PROVE  Inductive'
<1>1. /\ UNCHANGED <<queue, current, tries, requested, blocked, agreement, startSeq, stored,
                     resend, bars, nextSeq, peers, replies, broken, switched, arrivals,
                     timeouts, ticks>>
      /\ busy' = FALSE /\ cancelled' = TRUE
  BY DEF Cancel, baVars, peerVars, bounds
<1> QED  BY <1>1, Parts, Assemble

\* TearDownBlockAck keeps the types, and schedules nothing.
LEMMA TearDownTypes ==
  ASSUME Inductive, NEW to \in Clients, TearDown(to)
  PROVE  /\ agreement' \in [Clients -> States]
         /\ blocked' = blocked /\ startSeq' = startSeq
         /\ stored' \in [Clients -> SUBSET Nat] /\ resend' \in [Clients -> SUBSET Nat]
         /\ \A c \in Clients : resend'[c] \subseteq resend[c] /\ stored'[c] \subseteq stored[c]
         /\ \A c \in Clients : resend'[c] \subseteq stored'[c]
         /\ bars' \in Seq(Clients) /\ (bars = << >> => bars' = << >>)
<1>1. /\ agreement \in [Clients -> States]
      /\ stored \in [Clients -> SUBSET Nat] /\ resend \in [Clients -> SUBSET Nat]
      /\ \A c \in Clients : resend[c] \subseteq stored[c]
      /\ bars \in Seq(Clients)
  BY Parts
<1>2. /\ agreement' = [agreement EXCEPT ![to] = "none"]
      /\ stored' = [stored EXCEPT ![to] = {}]
      /\ resend' = [resend EXCEPT ![to] = {}]
      /\ bars' = Selected(bars, Clients \ {to})
      /\ UNCHANGED <<blocked, startSeq>>
  BY DEF TearDown
<1>3. agreement' \in [Clients -> States]  BY <1>1, <1>2 DEF States
<1>4. /\ stored' \in [Clients -> SUBSET Nat] /\ resend' \in [Clients -> SUBSET Nat]
      /\ \A c \in Clients : stored'[c] = IF c = to THEN {} ELSE stored[c]
      /\ \A c \in Clients : resend'[c] = IF c = to THEN {} ELSE resend[c]
  BY <1>1, <1>2
<1>5. bars' \in Seq(Clients) /\ Len(bars') <= Len(bars)
  BY <1>1, <1>2, SelectedProperties
<1>6. bars = << >> => bars' = << >>
  <2> HAVE bars = << >>
  <2>1. Len(bars') <= 0 /\ Len(bars') \in Nat  BY <1>5
  <2> QED  BY <1>5, <2>1
<1> QED  BY <1>1, <1>2, <1>3, <1>4, <1>5, <1>6

\* The peer's part of an exchange.
LEMMA PeerTypes ==
  ASSUME Inductive, PeerReceives
  PROVE  /\ peers' \subseteq Clients
         /\ replies' \subseteq [kind : {"addbaResp", "delba"}, from : Clients]
<1>1. /\ peers \subseteq Clients
      /\ replies \subseteq [kind : {"addbaResp", "delba"}, from : Clients]
      /\ current.kind \in {"addba", "delba"} \/ current.policy = "ba" => current.to \in Clients
  BY Parts
<1>2. /\ Reply("addbaResp", current.to) = [kind |-> "addbaResp", from |-> current.to]
      /\ Reply("delba", current.to) = [kind |-> "delba", from |-> current.to]
  BY DEF Reply
<1>3. peers' \subseteq Clients
  BY <1>1 DEF PeerReceives
<1>4. replies' \subseteq replies \cup {Reply("addbaResp", current.to), Reply("delba", current.to)}
  BY DEF PeerReceives
<1>5. /\ current.kind # "addba" => Reply("addbaResp", current.to) \notin replies' \ replies
      /\ ~(current.kind = "addba" \/ current.policy = "ba") => replies' = replies
  BY <1>2 DEF PeerReceives
<1> QED  BY <1>1, <1>2, <1>3, <1>4, <1>5

\* Packets queued, responses lost, and a peer's timeout.
LEMMA ArrivalKeeps ==
  ASSUME Inductive,
         \/ \E to \in Clients \cup {Group} : Queue(to)
         \/ \E to \in Clients : SendDelbaFrame(to) \/ SendAddBaResponse(to) \/ PeerTimeout(to)
         \/ \E reply \in replies : LoseReply(reply)
  PROVE  Inductive'
<1>1. ASSUME NEW to \in Clients \cup {Group}, Queue(to)  PROVE Inductive'
  <2>1. Counted(Items, queue')
    BY <1>1, NewItem, EnqueueCounts, Parts DEF Queue, Kinds
  <2>2. /\ UNCHANGED <<current, tries, busy, blocked, agreement, startSeq, stored, resend,
                       bars, nextSeq, peers, replies, broken, cancelled, switched, timeouts, ticks>>
        /\ arrivals' \in 0..MaxArrivals /\ requested' \in BOOLEAN
    BY <1>1, Parts, EdcaAssumption DEF Queue, StartAccessIfNeeded, baVars, peerVars
  <2> QED  BY <2>1, <2>2, Parts, Assemble
<1>2. ASSUME NEW to \in Clients, SendDelbaFrame(to)  PROVE Inductive'
  <2>1. Counted(Items, queue')
    BY <1>2, NewItem, EnqueueCounts, Parts DEF SendDelbaFrame, Kinds
  <2>2. /\ UNCHANGED <<current, tries, busy, blocked, agreement, startSeq, stored, resend,
                       bars, nextSeq, peers, replies, broken, cancelled, switched, arrivals, ticks>>
        /\ timeouts' \in 0..MaxTimeouts /\ requested' \in BOOLEAN
    BY <1>2, Parts, EdcaAssumption DEF SendDelbaFrame, StartAccessIfNeeded, baVars, peerVars
  <2> QED  BY <2>1, <2>2, Parts, Assemble
<1>3. ASSUME NEW to \in Clients, SendAddBaResponse(to)  PROVE Inductive'
  <2>1. Counted(Items, queue')
    BY <1>3, NewItem, EnqueueCounts, Parts DEF SendAddBaResponse, Kinds
  <2>2. /\ UNCHANGED <<current, tries, busy, blocked, agreement, startSeq, stored, resend,
                       bars, nextSeq, peers, replies, broken, cancelled, switched, timeouts, ticks>>
        /\ arrivals' \in 0..MaxArrivals /\ requested' \in BOOLEAN
    BY <1>3, Parts, EdcaAssumption DEF SendAddBaResponse, StartAccessIfNeeded, baVars, peerVars
  <2> QED  BY <2>1, <2>2, Parts, Assemble
<1>4. ASSUME NEW from \in Clients, PeerTimeout(from)  PROVE Inductive'
  <2>1. /\ UNCHANGED <<queue, current, tries, busy, requested, blocked, agreement, startSeq,
                       stored, resend, bars, nextSeq, peers, broken, cancelled, switched, arrivals, ticks>>
        /\ timeouts' \in 0..MaxTimeouts
        /\ replies' = replies \cup {Reply("delba", from)}
    BY <1>4, Parts, EdcaAssumption DEF PeerTimeout, baVars
  <2>2. Reply("delba", from) \in [kind : {"addbaResp", "delba"}, from : Clients]
    BY DEF Reply
  <2> QED  BY <2>1, <2>2, Parts, Assemble
<1>5. ASSUME NEW reply \in replies, LoseReply(reply)  PROVE Inductive'
  <2>1. /\ UNCHANGED <<queue, current, tries, busy, requested, blocked, agreement, startSeq,
                       stored, resend, bars, nextSeq, peers, cancelled, switched, arrivals, timeouts, ticks>>
        /\ replies' \subseteq replies /\ broken' \subseteq broken \cup {reply.from}
    BY <1>5 DEF LoseReply, baVars, bounds
  <2>2. reply.from \in Clients  BY Parts
  <2> QED  BY <2>1, <2>2, Parts, Assemble
<1> QED  BY <1>1, <1>2, <1>3, <1>4, <1>5

\* The frame after a missed acknowledgment or CTS.
LEMMA RetryTypes ==
  ASSUME Inductive, Retry \/ GiveUp
  PROVE  /\ current' = current \/ current' = NoFrame
         /\ tries' \in 0..(MaxTries - 1) /\ broken' \subseteq Clients
<1>1. /\ tries \in 0..(MaxTries - 1) /\ broken \subseteq Clients
      /\ current.kind = "addba" => current.to \in Clients
  BY Parts
<1>2. CASE Retry
  BY <1>1, <1>2, EdcaAssumption DEF Retry
<1>3. CASE GiveUp
  BY <1>1, <1>3, EdcaAssumption DEF GiveUp
<1> QED  BY <1>2, <1>3

LEMMA EndKeeps ==
  ASSUME Inductive, ExchangeEnds
  PROVE  Inductive'
<1>0. ASSUME Done, current' = current \/ current' = NoFrame
      PROVE  /\ UNCHANGED <<queue, nextSeq, cancelled, switched, arrivals, timeouts, ticks>>
             /\ busy' = FALSE /\ current' \in Frames
             /\ current'.kind \in {"addba", "delba"} => current'.to \in Clients
             /\ current'.policy = "ba" =>
                  /\ current'.to \in Clients
                  /\ current'.seq \in 1..(nextSeq'[current'.to] - 1)
  <2>1. UNCHANGED <<queue, nextSeq, cancelled, switched, arrivals, timeouts, ticks>> /\ busy' = FALSE
    BY <1>0 DEF Done, bounds
  <2>2. CASE current' = current  BY <2>1, <2>2, Parts
  <2>3. CASE current' = NoFrame  BY <2>1, <2>3, NoFrameTypes
  <2> QED  BY <1>0, <2>1, <2>2, <2>3
<1>1. ASSUME NEW got \in BOOLEAN, EndTxNoAck(got)  PROVE Inductive'
  <2>1. /\ Done /\ current' = NoFrame /\ tries' = 0
        /\ UNCHANGED <<blocked, agreement, startSeq, stored, resend, bars, broken>>
        /\ requested' \in BOOLEAN
        /\ PeerReceives \/ UNCHANGED <<peers, replies>>
    BY <1>1, Parts DEF EndTxNoAck, StartAccessIfNeeded, baVars, peerVars
  <2>2. /\ peers' \subseteq Clients
        /\ replies' \subseteq [kind : {"addbaResp", "delba"}, from : Clients]
    BY <2>1, PeerTypes, Parts
  <2> QED  BY <1>0, <2>1, <2>2, NoFrameTypes, Parts, Assemble
<1>2. ASSUME NEW got \in BOOLEAN, MissedAck(got)  PROVE Inductive'
  <2>1. /\ Done /\ (Retry \/ GiveUp)
        /\ UNCHANGED <<blocked, agreement, startSeq, stored, resend, bars>>
        /\ requested' \in BOOLEAN
        /\ PeerReceives \/ UNCHANGED <<peers, replies>>
    BY <1>2, Parts DEF MissedAck, RestartAccessIfNeeded, baVars, peerVars
  <2>2. /\ peers' \subseteq Clients
        /\ replies' \subseteq [kind : {"addbaResp", "delba"}, from : Clients]
    BY <2>1, PeerTypes, Parts
  <2> QED  BY <1>0, <2>1, <2>2, RetryTypes, Parts, Assemble
<1>3. CASE GotAck
  <2>1. /\ Done /\ current' = NoFrame /\ tries' = 0 /\ PeerReceives
        /\ IF current.kind = "delba" THEN TearDown(current.to) ELSE UNCHANGED baVars
        /\ UNCHANGED broken /\ requested' \in BOOLEAN
    BY <1>3, Parts DEF GotAck, RestartAccessIfNeeded
  <2>2. /\ peers' \subseteq Clients
        /\ replies' \subseteq [kind : {"addbaResp", "delba"}, from : Clients]
    BY <2>1, PeerTypes
  <2>3. CASE current.kind = "delba"
    <3>1. current.to \in Clients /\ TearDown(current.to)  BY <2>1, <2>3, Parts
    <3>2. /\ agreement' \in [Clients -> States]
          /\ blocked' = blocked /\ startSeq' = startSeq
          /\ stored' \in [Clients -> SUBSET Nat] /\ resend' \in [Clients -> SUBSET Nat]
          /\ \A c \in Clients : resend'[c] \subseteq resend[c] /\ stored'[c] \subseteq stored[c]
          /\ \A c \in Clients : resend'[c] \subseteq stored'[c]
          /\ bars' \in Seq(Clients)
      BY <3>1, TearDownTypes
    <3>3. nextSeq' = nextSeq  BY <2>1 DEF Done
    <3>4. \A c \in Clients : stored'[c] \subseteq 1..(nextSeq'[c] - 1)
      BY <3>2, <3>3, Parts
    <3> QED  BY <1>0, <2>1, <2>2, <3>2, <3>4, NoFrameTypes, Parts, Assemble
  <2>4. CASE current.kind # "delba"
    <3>1. UNCHANGED <<blocked, agreement, startSeq, stored, resend, bars>>
      BY <2>1, <2>4 DEF baVars
    <3> QED  BY <1>0, <2>1, <2>2, <3>1, NoFrameTypes, Parts, Assemble
  <2> QED  BY <2>3, <2>4
<1>4. CASE MissedCts
  <2>1. /\ Done /\ (Retry \/ GiveUp)
        /\ UNCHANGED <<blocked, agreement, startSeq, stored, resend, bars, peers, replies>>
        /\ requested' \in BOOLEAN
    BY <1>4, Parts DEF MissedCts, RestartAccessIfNeeded, baVars, peerVars
  <2> QED  BY <1>0, <2>1, RetryTypes, Parts, Assemble
<1>5. CASE MissedBlockAck
  <2>1. /\ Done
        /\ UNCHANGED <<current, tries, blocked, agreement, startSeq, stored, resend, bars,
                       peers, replies, broken>>
        /\ requested' \in BOOLEAN
    BY <1>5, Parts DEF MissedBlockAck, RestartAccessIfNeeded, baVars, peerVars
  <2> QED  BY <1>0, <2>1, Parts, Assemble
<1>6. ASSUME NEW to \in Clients, NEW received \in SUBSET stored[to],
             current.to = to, GotBlockAck(received)
      PROVE  Inductive'
  <2> DEFINE missing == stored[to] \ received
  <2>1. /\ Done /\ current' = NoFrame /\ tries' = 0
        /\ stored' = [stored EXCEPT ![to] = missing]
        /\ resend' = [resend EXCEPT ![to] = missing]
        /\ agreement' = agreement \/ agreement' = [agreement EXCEPT ![to] = "inactive"]
        /\ UNCHANGED <<blocked, startSeq, bars, peers, replies, broken>>
        /\ requested' \in BOOLEAN
    BY <1>6, Parts DEF GotBlockAck, RestartAccessIfNeeded, peerVars
  <2>2. /\ stored \in [Clients -> SUBSET Nat] /\ resend \in [Clients -> SUBSET Nat]
        /\ \A c \in Clients : resend[c] \subseteq stored[c]
        /\ agreement \in [Clients -> States]
    BY Parts
  <2>3. missing \subseteq stored[to] /\ missing \in SUBSET Nat  BY <2>2
  <2> HIDE DEF missing
  <2>4. /\ stored' \in [Clients -> SUBSET Nat] /\ resend' \in [Clients -> SUBSET Nat]
        /\ \A c \in Clients : stored'[c] \subseteq stored[c]
        /\ \A c \in Clients : resend'[c] \subseteq stored'[c]
    BY <2>1, <2>2, <2>3
  <2>5. agreement' \in [Clients -> States]  BY <2>1, <2>2 DEF States
  <2>6. nextSeq' = nextSeq  BY <2>1 DEF Done
  <2>7. \A c \in Clients : stored'[c] \subseteq 1..(nextSeq'[c] - 1)
    BY <2>4, <2>6, Parts
  <2> QED  BY <1>0, <2>1, <2>4, <2>5, <2>7, NoFrameTypes, Parts, Assemble
<1> QED  BY <1>1, <1>2, <1>3, <1>4, <1>5, <1>6 DEF ExchangeEnds

LEMMA ReplyKeeps ==
  ASSUME Inductive, ReplyArrives
  PROVE  Inductive'
<1>1. ASSUME NEW reply \in replies, GotAddBaResponse(reply)  PROVE Inductive'
  <2>1. /\ UNCHANGED <<queue, current, tries, busy, startSeq, stored, resend, bars, nextSeq,
                       peers, broken, cancelled, switched, arrivals, timeouts, ticks>>
        /\ replies' \subseteq replies /\ blocked' \subseteq blocked
        /\ \/ agreement' = agreement
           \/ agreement' = [agreement EXCEPT ![reply.from] = "established"]
        /\ requested' \in BOOLEAN
    BY <1>1, Parts DEF GotAddBaResponse, RestartAccessIfNeeded, bounds
  <2>2. agreement' \in [Clients -> States]  BY <2>1, Parts DEF States
  <2> QED  BY <2>1, <2>2, Parts, Assemble
<1>2. ASSUME NEW reply \in replies, NEW acked \in BOOLEAN, GotDelBaFrame(reply, acked)
      PROVE  Inductive'
  <2>1. reply.from \in Clients  BY Parts
  <2>2. /\ TearDown(reply.from)
        /\ UNCHANGED <<queue, current, tries, busy, requested, nextSeq, cancelled, switched,
                       arrivals, timeouts, ticks>>
        /\ replies' \subseteq replies /\ peers' \subseteq peers
        /\ broken' \subseteq broken \cup {reply.from}
    BY <1>2 DEF GotDelBaFrame, bounds
  <2>3. /\ agreement' \in [Clients -> States]
        /\ blocked' = blocked /\ startSeq' = startSeq
        /\ stored' \in [Clients -> SUBSET Nat] /\ resend' \in [Clients -> SUBSET Nat]
        /\ \A c \in Clients : resend'[c] \subseteq resend[c] /\ stored'[c] \subseteq stored[c]
        /\ \A c \in Clients : resend'[c] \subseteq stored'[c]
        /\ bars' \in Seq(Clients)
    BY <2>1, <2>2, TearDownTypes
  <2>4. \A c \in Clients : stored'[c] \subseteq 1..(nextSeq'[c] - 1)
    BY <2>2, <2>3, Parts
  <2> QED  BY <2>1, <2>2, <2>3, <2>4, Parts, Assemble
<1> QED  BY <1>1, <1>2 DEF ReplyArrives

LEMMA SwitchAndTickKeep ==
  ASSUME Inductive, NotifyChannelSwitching \/ Tick
  PROVE  Inductive'
<1>1. CASE NotifyChannelSwitching
  <2>1. /\ UNCHANGED <<blocked, agreement, startSeq, stored, resend, bars, nextSeq, peers,
                       replies, arrivals, timeouts, ticks>>
        /\ queue' = Flush(queue) /\ current' = NoFrame /\ tries' = 0
        /\ busy' = FALSE /\ requested' = FALSE /\ cancelled' = FALSE /\ switched' = TRUE
        /\ broken' = IF current.kind = "addba" THEN broken \cup {current.to} ELSE broken
    BY <1>1 DEF NotifyChannelSwitching, baVars, peerVars
  <2>2. Counted(Items, queue')  BY <2>1, FlushCounts, Parts
  <2>3. broken' \subseteq Clients  BY <2>1, Parts
  <2> QED  BY <2>1, <2>2, <2>3, NoFrameTypes, Parts, Assemble
<1>2. CASE Tick
  <2>1. /\ UNCHANGED <<current, tries, busy, requested, blocked, agreement, startSeq, stored,
                       resend, bars, nextSeq, peers, replies, broken, cancelled, switched, arrivals,
                       timeouts>>
        /\ ticks' \in 0..MaxTicks /\ queue' = AgedQueue(queue)
    BY <1>2, Parts, EdcaAssumption DEF Tick, baVars, peerVars
  <2>2. Counted(Items, queue')
    <3>1. \A p \in Items : Older(p) \in Items  BY OlderItem
    <3> QED  BY <2>1, <3>1, AgedQueueCounts, Parts
  <2> QED  BY <2>1, <2>2, Parts, Assemble
<1> QED  BY <1>1, <1>2

LEMMA InitInductive ==
  Init => Inductive
<1> SUFFICES ASSUME Init  PROVE Inductive
  OBVIOUS
<1> DEFINE list == << >>
           n == 0
<1>1. queue = [items |-> list, size |-> n, max |-> MaxSize]
  BY DEF Init, EmptyQueue
<1>2. list \in Seq(Items) /\ n \in Nat /\ Len(list) = n /\ MaxSize \in Nat
  BY QueueAssumption
<1> HIDE DEF list, n
<1>3. Counted(Items, queue)
  BY <1>1, <1>2 DEF Counted
<1>4. /\ queue.items \in Seq([to : Clients \cup {Group}, mgt : BOOLEAN, age : Nat,
                              kind : {"data"} \cup ActionFrames])
      /\ queue.size = Len(queue.items)
  BY <1>3, QueueTypes
<1>5. /\ agreement \in [Clients -> States] /\ startSeq \in [Clients -> Nat]
      /\ nextSeq \in [Clients -> Nat]
      /\ stored \in [Clients -> SUBSET Nat] /\ resend \in [Clients -> SUBSET Nat]
      /\ \A c \in Clients : stored[c] = {} /\ resend[c] = {} /\ nextSeq[c] = 1
      /\ bars \in Seq(Clients)
  BY DEF Init, States
<1>6. /\ current \in Frames /\ tries \in 0..(MaxTries - 1)
      /\ current.kind = "none" /\ current.policy = "none"
  BY NoFrameTypes DEF Init
<1>7. /\ {busy, requested, cancelled, switched} \subseteq BOOLEAN
      /\ blocked \cup peers \cup broken \subseteq Clients
      /\ replies \subseteq [kind : {"addbaResp", "delba"}, from : Clients]
      /\ arrivals \in 0..MaxArrivals /\ timeouts \in 0..MaxTimeouts /\ ticks \in 0..MaxTicks
  <2>1. MaxArrivals \in Nat /\ MaxTimeouts \in Nat /\ MaxTicks \in Nat
    BY EdcaAssumption
  <2>2. /\ busy = FALSE /\ requested = FALSE /\ cancelled = FALSE /\ switched = FALSE
        /\ blocked = {} /\ peers = {} /\ broken = {} /\ replies = {}
        /\ arrivals = 0 /\ timeouts = 0 /\ ticks = 0
    BY DEF Init
  <2>3. {busy, requested, cancelled, switched} \subseteq BOOLEAN
    BY <2>2
  <2> QED  BY <2>1, <2>2, <2>3
<1>8. TypeOK  BY <1>4, <1>5, <1>6, <1>7 DEF TypeOK, Frames
<1> QED  BY <1>3, <1>5, <1>6, <1>8 DEF Inductive

LEMMA Stutter ==
  ASSUME UNCHANGED vars
  PROVE  UNCHANGED <<queue, current, tries, busy, requested, blocked, agreement, startSeq,
                     stored, resend, bars, nextSeq, peers, replies, broken, cancelled, switched,
                     arrivals, timeouts, ticks>>
  BY DEF vars, baVars, peerVars, bounds

LEMMA NextKeeps ==
  ASSUME Inductive, [Next]_vars
  PROVE  Inductive'
<1>1. CASE UNCHANGED vars
  BY <1>1, Stutter, Parts, Assemble
<1>2. CASE Next
  BY <1>2, ArrivalKeeps, GrantKeeps, EndKeeps, CancelKeeps, ReplyKeeps, SwitchAndTickKeep
     DEF Next
<1> QED  BY <1>1, <1>2

LEMMA InductiveAlways ==
  Spec => []Inductive
<1>1. Inductive /\ [Next]_vars => Inductive'  BY NextKeeps
<1> QED  BY InitInductive, <1>1, PTL DEF Spec

\* The types hold in every state: in particular every packet to be resent is
\* still stored, and only numbers already given out are stored.
THEOREM TypeCorrect ==
  Spec => []TypeOK
<1>1. Inductive => TypeOK  BY DEF Inductive
<1> QED  BY InductiveAlways, <1>1, PTL

-----------------------------------------------------------------------------
(* The start of an agreement.                                              *)

\* While an ADDBA request is open its destination is blocked.
OpenIsBlocked ==
  \A c \in Clients :
    agreement[c] = "pending" => c \in blocked /\ startSeq[c] = nextSeq[c]

LEMMA GrantKeepsStart ==
  ASSUME Inductive, OpenIsBlocked, NotifyAccessGranted
  PROVE  OpenIsBlocked'
<1>0. /\ agreement \in [Clients -> States]
      /\ startSeq \in [Clients -> Nat] /\ nextSeq \in [Clients -> Nat]
  BY Parts
<1>1. CASE UNCHANGED <<agreement, blocked, startSeq, nextSeq>>
  BY <1>1 DEF OpenIsBlocked
<1>2. CASE GrantAddBa
  <2> DEFINE to == FirstItem.to
  <2>1. /\ agreement' = [agreement EXCEPT ![to] = "pending"]
        /\ startSeq' = [startSeq EXCEPT ![to] = nextSeq[to]]
        /\ blocked' = blocked \cup {to} /\ nextSeq' = nextSeq
    BY <1>2 DEF GrantAddBa, CreateAgreement
  <2> HIDE DEF to
  <2> QED  BY <1>0, <2>1 DEF OpenIsBlocked
<1>3. CASE GrantPacket
  <2> DEFINE c == FirstItem.to
             mgt == FirstItem.mgt
  <2>1. /\ Available(queue, blocked) # {} /\ UNCHANGED <<blocked, startSeq>>
        /\ \/ UNCHANGED <<agreement, nextSeq>>
           \/ /\ ~mgt /\ c # Group
              /\ agreement' = [agreement EXCEPT ![c] = Verified(c)]
              /\ nextSeq' = [nextSeq EXCEPT ![c] = @ + 1]
    BY <1>3 DEF GrantPacket
  <2>2. mgt \/ c \notin blocked  BY <2>1, FirstItemIsSendable
  <2> HIDE DEF c, mgt
  <2>3. CASE UNCHANGED <<agreement, nextSeq>>
    BY <2>1, <2>3 DEF OpenIsBlocked
  <2>4. CASE /\ ~mgt /\ agreement' = [agreement EXCEPT ![c] = Verified(c)]
             /\ nextSeq' = [nextSeq EXCEPT ![c] = @ + 1]
    <3>1. c \notin blocked  BY <2>2, <2>4
    <3>2. \A d \in Clients : d # c => agreement'[d] = agreement[d] /\ nextSeq'[d] = nextSeq[d]
      BY <1>0, <2>4
    <3>3. c \in Clients => agreement'[c] # "pending"
      <4> SUFFICES ASSUME c \in Clients  PROVE agreement'[c] # "pending"
        OBVIOUS
      <4>1. agreement[c] # "pending"  BY <3>1 DEF OpenIsBlocked
      <4>2. Verified(c) # "pending"  BY <4>1 DEF Verified
      <4> QED  BY <1>0, <2>4, <4>2
    <3> QED  BY <2>1, <3>1, <3>2, <3>3 DEF OpenIsBlocked
  <2> QED  BY <2>1, <2>3, <2>4
<1>4. CASE GrantNothing \/ GrantHeld \/ GrantBar \/ \E to \in Clients : GrantResend(to)
  <2>1. UNCHANGED <<agreement, blocked, startSeq, nextSeq>>
    BY <1>4 DEF GrantNothing, GrantHeld, GrantBar, GrantResend, baVars
  <2> QED  BY <1>1, <2>1
<1> QED  BY <1>2, <1>3, <1>4 DEF NotifyAccessGranted

\* An agreement that ends or is answered is open no more.
LEMMA TearDownKeepsStart ==
  ASSUME Inductive, OpenIsBlocked, NEW to, TearDown(to), nextSeq' = nextSeq
  PROVE  OpenIsBlocked'
<1>1. /\ agreement \in [Clients -> States]
      /\ agreement' = [agreement EXCEPT ![to] = "none"]
      /\ UNCHANGED <<blocked, startSeq>>
  BY Parts DEF TearDown
<1> QED  BY <1>1 DEF OpenIsBlocked

LEMMA EndKeepsStart ==
  ASSUME Inductive, OpenIsBlocked, ExchangeEnds
  PROVE  OpenIsBlocked'
<1>0. agreement \in [Clients -> States]  BY Parts
<1>1. CASE UNCHANGED <<agreement, blocked, startSeq, nextSeq>>
  BY <1>1 DEF OpenIsBlocked
<1>2. CASE GotAck
  <2>1. /\ nextSeq' = nextSeq
        /\ TearDown(current.to) \/ UNCHANGED <<agreement, blocked, startSeq>>
    BY <1>2 DEF GotAck, Done, baVars
  <2> QED  BY <1>1, <2>1, TearDownKeepsStart
<1>3. ASSUME NEW to \in Clients, NEW received \in SUBSET stored[to],
             current.to = to, GotBlockAck(received)
      PROVE  OpenIsBlocked'
  <2>1. /\ UNCHANGED <<blocked, startSeq, nextSeq>>
        /\ agreement' = agreement \/ agreement' = [agreement EXCEPT ![to] = "inactive"]
    BY <1>3 DEF GotBlockAck, Done
  <2> QED  BY <1>0, <2>1 DEF OpenIsBlocked
<1>4. CASE \/ \E got \in BOOLEAN : EndTxNoAck(got) \/ MissedAck(got)
           \/ MissedCts \/ MissedBlockAck
  <2>1. UNCHANGED <<agreement, blocked, startSeq, nextSeq>>
    BY <1>4 DEF EndTxNoAck, MissedAck, MissedCts, MissedBlockAck, Done, baVars
  <2> QED  BY <1>1, <2>1
<1> QED  BY <1>2, <1>3, <1>4 DEF ExchangeEnds

LEMMA NextKeepsStart ==
  ASSUME Inductive, OpenIsBlocked, [Next]_vars
  PROVE  OpenIsBlocked'
<1>0. agreement \in [Clients -> States]  BY Parts
<1>1. CASE UNCHANGED <<agreement, blocked, startSeq, nextSeq>>
  BY <1>1 DEF OpenIsBlocked
<1>2. CASE \/ \E to \in Clients \cup {Group} : Queue(to)
           \/ \E to \in Clients : SendDelbaFrame(to) \/ SendAddBaResponse(to) \/ PeerTimeout(to)
           \/ \E reply \in replies : LoseReply(reply)
           \/ Cancel \/ NotifyChannelSwitching \/ Tick \/ UNCHANGED vars
  <2>1. UNCHANGED <<agreement, blocked, startSeq, nextSeq>>
    BY <1>2 DEF Queue, SendDelbaFrame, SendAddBaResponse, PeerTimeout, LoseReply,
                Cancel, NotifyChannelSwitching, Tick, vars, baVars
  <2> QED  BY <1>1, <2>1
<1>3. CASE ReplyArrives
  <2>1. ASSUME NEW reply \in replies, GotAddBaResponse(reply)  PROVE OpenIsBlocked'
    <3>1. UNCHANGED <<startSeq, nextSeq>>  BY <2>1 DEF GotAddBaResponse
    <3>2. CASE agreement[reply.from] = "pending"
      <4>1. /\ agreement' = [agreement EXCEPT ![reply.from] = "established"]
            /\ blocked' = blocked \ {reply.from}
        BY <2>1, <3>2 DEF GotAddBaResponse
      <4> QED  BY <1>0, <3>1, <4>1 DEF OpenIsBlocked
    <3>3. CASE agreement[reply.from] # "pending"
      BY <1>1, <2>1, <3>1, <3>3 DEF GotAddBaResponse
    <3> QED  BY <3>2, <3>3
  <2>2. ASSUME NEW reply \in replies, NEW acked \in BOOLEAN, GotDelBaFrame(reply, acked)
        PROVE  OpenIsBlocked'
    <3>1. TearDown(reply.from) /\ nextSeq' = nextSeq  BY <2>2 DEF GotDelBaFrame
    <3> QED  BY <3>1, TearDownKeepsStart
  <2> QED  BY <1>3, <2>1, <2>2 DEF ReplyArrives
<1> QED  BY <1>2, <1>3, GrantKeepsStart, EndKeepsStart DEF Next

\* No data to a destination leaves while its ADDBA request is open, so the
\* agreement starts at the number the request announced: the destination is
\* blocked from CreateAgreement to UpdateAgreement, DequeueFirstAvailable
\* passes over it, and what ends an agreement otherwise leaves it blocked.
THEOREM AgreementStarts ==
  Spec => []AgreementStartsAtNext
<1>1. Init => OpenIsBlocked  BY DEF Init, OpenIsBlocked
<1>2. Inductive /\ OpenIsBlocked /\ [Next]_vars => OpenIsBlocked'  BY NextKeepsStart
<1>3. OpenIsBlocked => AgreementStartsAtNext  BY DEF OpenIsBlocked, AgreementStartsAtNext
<1> QED  BY InductiveAlways, <1>1, <1>2, <1>3, PTL DEF Spec

-----------------------------------------------------------------------------
(* Work without a request.                                                 *)

LEMMA EmptyHasNothing ==
  ASSUME NEW q, IsEmpty(q), NEW addresses
  PROVE  Available(q, addresses) = {}
  BY DEF IsEmpty, Available

\* The two ways a handler asks for access leave no work without a request.
LEMMA RestartCovers ==
  ASSUME RestartAccessIfNeeded
  PROVE  WorkIsRequested'
  BY EmptyHasNothing DEF RestartAccessIfNeeded, WorkIsRequested

LEMMA StartCovers ==
  ASSUME StartAccessIfNeeded, ~busy' /\ ~requested' /\ ~cancelled' => current' = NoFrame
  PROVE  WorkIsRequested'
  BY EmptyHasNothing DEF StartAccessIfNeeded, WorkIsRequested

\* Of the grants only one starts no exchange, and it found nothing.
LEMMA GrantKeepsWork ==
  ASSUME Inductive, WorkIsRequested, NotifyAccessGranted
  PROVE  WorkIsRequested'
<1>1. CASE busy'
  BY <1>1 DEF WorkIsRequested
<1>2. CASE GrantNothing
  <2>1. /\ current' = NoFrame /\ ~HasPackets /\ Available(queue, blocked) = {}
        /\ queue' = Cleanup(queue) /\ UNCHANGED <<blocked, resend, bars>>
    BY <1>2 DEF GrantNothing, baVars
  <2>2. ~HasPackets'  BY <2>1 DEF HasPackets
  <2>3. Available(Cleanup(queue), blocked) = {}
    <3> DEFINE q == Cleanup(queue)
    <3>1. /\ Counted(Items, queue) /\ Counted(Items, q)
          /\ queue.items \in Seq(Items) /\ q.items = Kept(queue.items)
      BY Parts, CleanupCounts DEF Counted
    <3> HIDE DEF q
    <3>2. \A k \in DOMAIN q.items :
            \E j \in DOMAIN queue.items : q.items[k] = queue.items[j]
      BY <3>1, KeptProperties
    <3>3. ~ \E k \in DOMAIN queue.items :
              /\ ~Expired(queue.items[k])
              /\ queue.items[k].mgt \/ queue.items[k].to \notin blocked
      BY <2>1, <3>1, AvailableIsSendable
    <3>4. Available(q, blocked) = {}
      BY <3>1, <3>2, <3>3, AvailableIsSendable
    <3> QED  BY <3>4 DEF q
  <2> QED  BY <2>1, <2>2, <2>3 DEF WorkIsRequested
<1>3. CASE GrantHeld \/ GrantBar \/ GrantAddBa \/ GrantPacket
             \/ \E to \in Clients : GrantResend(to)
  <2>1. busy'  BY <1>3 DEF GrantHeld, GrantBar, GrantAddBa, GrantPacket, GrantResend
  <2> QED  BY <1>1, <2>1
<1> QED  BY <1>2, <1>3 DEF NotifyAccessGranted

LEMMA NextKeepsWork ==
  ASSUME Inductive, WorkIsRequested, [Next]_vars
  PROVE  WorkIsRequested'
<1>1. CASE \/ \E to \in Clients \cup {Group} : Queue(to)
           \/ \E to \in Clients : SendDelbaFrame(to) \/ SendAddBaResponse(to)
  <2>1. StartAccessIfNeeded /\ UNCHANGED <<busy, current, cancelled>>
    BY <1>1 DEF Queue, SendDelbaFrame, SendAddBaResponse
  <2>2. ~busy' /\ ~requested' /\ ~cancelled' => current' = NoFrame
    BY <2>1 DEF StartAccessIfNeeded, WorkIsRequested
  <2> QED  BY <2>1, <2>2, StartCovers
<1>2. CASE \/ \E to \in Clients : PeerTimeout(to)
           \/ \E reply \in replies : LoseReply(reply)
           \/ UNCHANGED vars
  <2>1. UNCHANGED <<busy, requested, current, queue, blocked, resend, bars>>
    BY <1>2, Stutter DEF PeerTimeout, LoseReply, baVars
  <2>2. switched' = switched /\ cancelled' = cancelled
    BY <1>2, Stutter DEF PeerTimeout, LoseReply, bounds
  <2> QED  BY <2>1, <2>2 DEF WorkIsRequested, HasPackets
<1>3. CASE \/ GotAck \/ MissedCts \/ MissedBlockAck
           \/ \E got \in BOOLEAN : MissedAck(got)
           \/ \E to \in Clients : \E received \in SUBSET stored[to] :
                current.to = to /\ GotBlockAck(received)
           \/ \E reply \in replies : GotAddBaResponse(reply)
  <2>1. RestartAccessIfNeeded
    BY <1>3 DEF GotAck, MissedCts, MissedBlockAck, MissedAck, GotBlockAck, GotAddBaResponse
  <2> QED  BY <2>1, RestartCovers
<1>4. CASE \E got \in BOOLEAN : EndTxNoAck(got)
  <2>1. StartAccessIfNeeded /\ current' = NoFrame  BY <1>4 DEF EndTxNoAck
  <2> QED  BY <2>1, StartCovers
<1>5. ASSUME NEW reply \in replies, NEW acked \in BOOLEAN, GotDelBaFrame(reply, acked)
      PROVE  WorkIsRequested'
  <2>1. /\ TearDown(reply.from) /\ reply.from \in Clients
        /\ UNCHANGED <<queue, current, busy, requested, blocked, cancelled, switched>>
    BY <1>5, Parts DEF GotDelBaFrame, TearDown, bounds
  <2>2. /\ \A c \in Clients : resend'[c] \subseteq resend[c]
        /\ bars = << >> => bars' = << >>
    BY <2>1, TearDownTypes
  <2>3. HasPackets' => HasPackets  BY <2>2 DEF HasPackets
  <2> QED  BY <2>1, <2>3 DEF WorkIsRequested
<1>6. CASE NotifyChannelSwitching
  <2>1. current' = NoFrame /\ queue' = Flush(queue) /\ switched'
    BY <1>6 DEF NotifyChannelSwitching
  <2>2. Flush(queue).items = << >> /\ Counted(Items, Flush(queue))
    BY Parts, FlushCounts
  <2>3. Available(Flush(queue), blocked') = {}
    BY <2>2, AvailableIsSendable
  <2> QED  BY <2>1, <2>3 DEF WorkIsRequested
<1>7. CASE Tick
  <2>1. /\ UNCHANGED <<current, busy, requested, blocked, resend, bars, cancelled, switched>>
        /\ queue' = AgedQueue(queue)
    BY <1>7 DEF Tick, baVars
  <2>2. HasPackets' = HasPackets  BY <2>1 DEF HasPackets
  <2>3. ASSUME Available(queue, blocked) = {}  PROVE Available(queue', blocked) = {}
    <3>1. Counted(Items, queue) /\ Counted(Items, queue')
      <4>1. \A p \in Items : Older(p) \in Items  BY OlderItem
      <4> QED  BY <2>1, <4>1, AgedQueueCounts, Parts
    <3>2. /\ DOMAIN queue'.items = DOMAIN queue.items
          /\ \A k \in DOMAIN queue.items : queue'.items[k] = Older(queue.items[k])
      <4>1. \A p \in Items : Older(p) \in Items  BY OlderItem
      <4> QED  BY <2>1, <4>1, AgedQueueCounts, Parts
    <3>3. \A k \in DOMAIN queue.items : queue.items[k] \in Items
      BY <3>1 DEF Counted
    <3>4. ~ \E k \in DOMAIN queue.items :
              /\ ~Expired(queue.items[k])
              /\ queue.items[k].mgt \/ queue.items[k].to \notin blocked
      BY <2>3, <3>1, AvailableIsSendable
    <3>5. ~ \E k \in DOMAIN queue'.items :
              /\ ~Expired(queue'.items[k])
              /\ queue'.items[k].mgt \/ queue'.items[k].to \notin blocked
      BY <3>2, <3>3, <3>4, OlderItem
    <3> QED  BY <3>1, <3>5, AvailableIsSendable
  <2> QED  BY <2>1, <2>2, <2>3 DEF WorkIsRequested
<1>8. CASE Cancel
  BY <1>8 DEF Cancel, WorkIsRequested
<1> QED
  BY <1>1, <1>2, <1>3, <1>4, <1>5, <1>6, <1>7, <1>8, GrantKeepsWork DEF Next, ExchangeEnds, ReplyArrives

\* Work never waits without a request for access, but for what a channel switch
\* leaves to the BlockAckManager and what a cancelled block ack wait leaves behind
\* (until the next grant): every other handler that leaves work ends with a
\* request, and the others (a DELBA, time passing, a grant that finds nothing)
\* make none.
THEOREM WorkRequested ==
  Spec => []WorkIsRequested
<1>1. Init => WorkIsRequested
  <2> SUFFICES ASSUME Init  PROVE WorkIsRequested
    OBVIOUS
  <2>1. queue.items = << >> /\ Counted(Items, queue)
    BY InitInductive, Parts DEF Init, EmptyQueue
  <2>2. Available(queue, blocked) = {}  BY <2>1, AvailableIsSendable
  <2>3. current = NoFrame /\ ~HasPackets  BY DEF Init, HasPackets
  <2> QED  BY <2>2, <2>3 DEF WorkIsRequested
<1>2. Inductive /\ WorkIsRequested /\ [Next]_vars => WorkIsRequested'  BY NextKeepsWork
<1> QED  BY InductiveAlways, <1>1, <1>2, PTL DEF Spec
=============================================================================
