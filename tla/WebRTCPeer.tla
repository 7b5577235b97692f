----------------------------- MODULE WebRTCPeer -----------------------------
(***************************************************************************)
(* The agent's end of a session's WebRTC transport (common/webrtc.c): the  *)
(* active peer, a background peer that may replace it by a direct route,   *)
(* the queue between the threads of libdatachannel and the event loop, and *)
(* the remote ICE candidates that wait for their offer.                    *)
(*                                                                         *)
(* A callback of the library only queues what it was told.  The loop takes *)
(* the whole queue and works it off in order, while new events arrive; an  *)
(* event about a channel or a peer is first filtered by a handler that may *)
(* queue a second event, which takes effect a turn later, when the peers   *)
(* may have changed.  Messages take one turn.  A message may itself carry  *)
(* signaling, or end the session, in the middle of a turn.                 *)
(*                                                                         *)
(* External is the library: peers, channels and tracks by handles that are *)
(* never used again, no callback once a handle is detached, and a callback *)
(* that came before it was set is made up for.  What media carries (audio, *)
(* RTP counters, keyframe and loss reports) and the signaling sent to the  *)
(* browser are left out, save that a background peer is ready.             *)
(***************************************************************************)
EXTENDS Integers, Sequences, FiniteSets

CONSTANTS
    MaxPeers,      \* bound on the peers created
    Labels,        \* labels of the channels the browser opens
    MaxChannels,   \* bound on the channels per peer and label
    MaxMessages,   \* bound on the messages received
    MaxNetwork,    \* bound on what the network does: routes, failures, closes
    Gens,          \* generations of offers; 0: unnumbered
    Candidates,    \* remote ICE candidates per generation
    IceMax,        \* DIRECTGATE_RTC_MAX_PENDING_ICE
    QueueMax,      \* DIRECTGATE_RTC_QUEUE_MAX_EVENTS
    VideoModes     \* whether the session may be a desktop session, or another

ASSUME PeerAssumption ==
    /\ MaxPeers \in Nat /\ MaxChannels \in Nat \ {0}
    /\ Labels \subseteq {"data", "input", "other"}
    /\ MaxMessages \in Nat /\ MaxNetwork \in Nat
    /\ Gens \subseteq Nat /\ IceMax \in Nat /\ QueueMax \in Nat
    /\ VideoModes \subseteq BOOLEAN

VARIABLES
    active,      \* nPeerConnectionID, its channels, nSignalGeneration
    pending,     \* the background peer and what is known of it
    connected,   \* bConnected
    video,       \* bVideoEnabled
    ice,         \* pPendingIce
    alive,       \* the session exists
    queue,       \* pQueueHead
    failed,      \* bQueueFailed
    wake,        \* a byte is in the notification pipe
    turn,        \* where the loop is in ProcessQueue
    batch,       \* the list of events it detached
    (* external: libdatachannel *)
    peer,        \* peers: the route ICE selected, or what became of them
    handle,      \* channels and tracks
    network,     \* bound: what the network did so far
    (* history *)
    peerGen,     \* the generation of the offer a peer was created for
    direct,      \* peers that were seen on a direct route
    opened,      \* handles that have been open
    sent,        \* messages received on a channel so far
    delivered,   \* those handed to the session, in order
    applied,     \* candidates and the peers they were added to
    told         \* peers the browser was told are ready

peers    == <<active, pending, connected, peer, handle>>
fifo     == <<queue, failed, wake>>
loop     == <<turn, batch>>
external == <<peer, network, direct>>
traffic  == <<sent, delivered>>
signals  == <<peerGen, applied, told>>
vars == <<peers, fifo, loop, video, ice, alive, network, direct, opened,
          traffic, signals>>

-----------------------------------------------------------------------------
Peers == 1 .. MaxPeers
Kinds == {"data", "input", "video"}
Handles == [pc : Peers, kind : Kinds \cup {"other"}, no : 1 .. MaxChannels]
NoHandle == [pc |-> 0, kind |-> "none", no |-> 0]

NoSlots == [k \in Kinds |-> NoHandle]
NoActive == [pc |-> 0, gen |-> 0, slot |-> NoSlots]
NoPending == [pc |-> 0, gen |-> 0, slot |-> NoSlots, dataOpen |-> FALSE,
              videoOpen |-> FALSE, direct |-> FALSE, signaled |-> FALSE]

Slots(s) == {s.slot[k] : k \in Kinds} \ {NoHandle}
Known(p) == p # 0 /\ p \in {active.pc, pending.pc}

(* First-stage events are callbacks of the library, marshalled: a channel  *)
(* came in ("channel"), opened or closed ("isOpen", "isClosed"), ICE or a  *)
(* peer changed state ("ice", "state").  The others are those of           *)
(* directgate_webrtc_event_type_t; "open" and "closed" stand for the kind  *)
(* of event their handle is of.                                            *)
Event(type, p, h, n) == [type |-> type, pc |-> p, handle |-> h, msg |-> n]
PeerEvent(type, p) == Event(type, p, NoHandle, 0)
HandleEvent(type, h) == Event(type, h.pc, h, 0)
EventTypes == {"channel", "isOpen", "isClosed", "ice", "state", "open", "closed",
               "direct", "failed", "ready", "data"}
Events == [type : EventTypes, pc : Peers, handle : Handles \cup {NoHandle}, msg : Nat]

Cands == [gen : Gens, id : Candidates]

-----------------------------------------------------------------------------
(* The queue.                                                              *)

Full == failed \/ Len(queue) >= QueueMax

(* Mutant: an event that does not fit is dropped and nothing else. *)
EnqueueOrDrop(e) ==
    /\ queue' = IF Full THEN queue ELSE Append(queue, e)
    /\ wake' = TRUE
    /\ UNCHANGED failed

(* Mutant: a lost event fails the transport, but the loop is not woken. *)
EnqueueQuietly(e) ==
    /\ queue' = IF Full THEN queue ELSE Append(queue, e)
    /\ failed' = Full
    /\ wake' = (wake \/ ~Full)

(* DirectGate_WebRTC_Enqueue: what does not fit fails the whole transport. *)
Enqueue(e) ==
    /\ queue' = IF Full THEN queue ELSE Append(queue, e)
    /\ failed' = Full
    /\ wake' = TRUE

(* Channels owned by the notification that they came in.                   *)
Notified(q) == {q[i].handle : i \in {j \in DOMAIN q : q[j].type = "channel"}}

(* The event under dispatch is done with.                                  *)
Rest == IF batch = <<>> THEN <<>> ELSE Tail(batch)
Proceed ==
    /\ batch' = Rest
    /\ turn' = IF Rest = <<>> THEN "idle" ELSE "dispatch"

-----------------------------------------------------------------------------
(* Closing, replacing and promoting peers.                                 *)

Closed(hs) == [h \in Handles |-> IF h \in hs THEN "gone" ELSE handle[h]]
Gone(ps) == [p \in Peers |-> IF p \in ps THEN "gone" ELSE peer[p]]

DestroyPending ==
    /\ pending' = NoPending
    /\ handle' = Closed(Slots(pending))
    /\ peer' = Gone({pending.pc})
    /\ UNCHANGED <<active, connected>>

Ready == pending.dataOpen /\ (video => pending.videoOpen)

CanPromote ==
    /\ pending.pc # 0 /\ pending.dataOpen /\ pending.direct
    /\ video => pending.videoOpen /\ pending.slot["video"] # NoHandle

(* Mutant: the retired peer's data channel is forgotten. *)
PromotePendingLeak ==
    IF CanPromote
    THEN /\ active' = [pc |-> pending.pc, gen |-> pending.gen, slot |-> pending.slot]
         /\ pending' = NoPending
         /\ connected' = TRUE
         /\ handle' = Closed(Slots(active) \ {active.slot["data"]})
         /\ peer' = Gone({active.pc})
    ELSE UNCHANGED peers

(* DirectGate_WebRTC_PromotePending: the new peer is in place before the   *)
(* old one is closed.                                                      *)
PromotePending ==
    IF CanPromote
    THEN /\ active' = [pc |-> pending.pc, gen |-> pending.gen, slot |-> pending.slot]
         /\ pending' = NoPending
         /\ connected' = TRUE
         /\ handle' = Closed(Slots(active))
         /\ peer' = Gone({active.pc})
    ELSE UNCHANGED peers

(* Everything DirectGate_WebRTC_Destroy releases, with what is left of the *)
(* turn that a callback cut short.                                         *)
Released == Slots(active) \cup Slots(pending) \cup Notified(queue) \cup Notified(batch)

(* Mutant: the list under dispatch is worked off all the same. *)
DrainedQueue ==
    /\ queue' = <<>> /\ failed' = FALSE
    /\ batch' = Rest /\ turn' = IF Rest = <<>> THEN "idle" ELSE "dispatch"

Drained ==
    /\ queue' = <<>> /\ failed' = FALSE
    /\ batch' = <<>> /\ turn' = "idle"

(* The generation stays.                                                   *)
Destroy ==
    /\ active' = [NoActive EXCEPT !.gen = active.gen]
    /\ pending' = NoPending
    /\ connected' = FALSE
    /\ handle' = Closed(Released)
    /\ peer' = Gone({active.pc, pending.pc})
    /\ ice' = {}
    /\ Drained

-----------------------------------------------------------------------------
(* Remote candidates.                                                      *)

Latest == IF pending.gen > active.gen THEN pending.gen ELSE active.gen

(* DirectGate_WebRTC_FlushPendingIce: the peer a waiting candidate is for, *)
(* with a as the active and b as the background peer.                      *)
Target(c, a, b) ==
    IF c.gen # 0 /\ c.gen = b.gen THEN b.pc
    ELSE IF c.gen = 0 \/ a.gen = 0 \/ c.gen = a.gen THEN a.pc
    ELSE 0

Flush(a, b) ==
    /\ applied' = applied \cup
         {<<c, Target(c, a, b)>> : c \in {d \in ice : Target(d, a, b) # 0}}
    /\ ice' = {c \in ice : Target(c, a, b) = 0 /\ c.gen > a.gen /\ c.gen > b.gen}

(* Mutant: a candidate goes to the active peer unless it is for the other. *)
AddsToAny(c) == IF c.gen # 0 /\ c.gen = pending.gen THEN pending.pc ELSE active.pc

(* The peer a candidate is added to at once; 0: none.                      *)
AddsTo(c) ==
    IF c.gen # 0 /\ c.gen = pending.gen THEN pending.pc
    ELSE IF c.gen = 0 \/ c.gen = active.gen THEN active.pc
    ELSE 0

(* What cannot be added waits, unless it is for a generation gone by.      *)
Waits(c) == c.gen \in {0, active.gen} \/ c.gen > Latest

HandleIceCandidate(c) ==
    /\ IF AddsTo(c) # 0
       THEN applied' = applied \cup {<<c, AddsTo(c)>>} /\ UNCHANGED ice
       ELSE /\ ice' = IF Waits(c) /\ Cardinality(ice) < IceMax THEN ice \cup {c} ELSE ice
            /\ UNCHANGED applied
    /\ Proceed
    /\ UNCHANGED <<peers, fifo, video, peerGen, told, alive>>

-----------------------------------------------------------------------------
(* Offers and the commit of a migration.                                   *)

Fresh(p) == peer[p] = "none" /\ \A q \in Peers : q < p => peer[q] # "none"

Stale(g) == g # 0 /\ Latest # 0 /\ g <= Latest

VideoTrack(p) == [pc |-> p, kind |-> "video", no |-> 1]
OfferedSlots(p, track) ==
    [NoSlots EXCEPT !["video"] = IF track THEN VideoTrack(p) ELSE NoHandle]
Created(hs, p, track) ==
    [h \in Handles |-> IF track /\ h = VideoTrack(p) THEN "hooked" ELSE Closed(hs)[h]]

(* An offer numbered no higher than one taken before is dropped, once it   *)
(* has set whether video is on.                                            *)
DropOffer(g) ==
    /\ Stale(g)
    /\ Proceed
    /\ UNCHANGED <<peers, fifo, ice, peerGen, applied>>

(* An offer for a background peer, which leaves the active one alone.      *)
Background(bg) == bg /\ active.pc # 0 /\ connected

OfferPending(g, p, track) ==
    /\ pending' = [NoPending EXCEPT !.pc = p, !.gen = g, !.slot = OfferedSlots(p, track)]
    /\ handle' = Created(Slots(pending), p, track)
    /\ peer' = [Gone({pending.pc}) EXCEPT ![p] = "checking"]
    /\ peerGen' = [peerGen EXCEPT ![p] = g]
    /\ Flush(active, pending')
    /\ Proceed
    /\ UNCHANGED <<active, connected, fifo>>

(* Mutant: the error path of any other offer. *)
OfferPendingFailsAll ==
    /\ Destroy
    /\ UNCHANGED <<wake, peerGen, applied>>

(* The peer is not created, or does not take the description.              *)
OfferPendingFails ==
    /\ DestroyPending
    /\ Proceed
    /\ UNCHANGED <<fifo, ice, peerGen, applied>>

(* Any other offer replaces whatever there is.  Candidates that waited for *)
(* it are kept.                                                            *)
OfferActive(g, p, track) ==
    /\ active' = [pc |-> p, gen |-> g, slot |-> OfferedSlots(p, track)]
    /\ pending' = NoPending
    /\ connected' = FALSE
    /\ handle' = Created(Released, p, track)
    /\ peer' = [Gone({active.pc, pending.pc}) EXCEPT ![p] = "checking"]
    /\ peerGen' = [peerGen EXCEPT ![p] = g]
    /\ Flush(active', NoPending)
    /\ Drained
    /\ UNCHANGED wake

(* Without a peer the candidates go on waiting; when the peer does not     *)
(* take the description they go with it.                                   *)
OfferActiveFails(g, described) ==
    /\ active' = [NoActive EXCEPT !.gen = g]
    /\ pending' = NoPending
    /\ connected' = FALSE
    /\ handle' = Closed(Released)
    /\ peer' = Gone({active.pc, pending.pc})
    /\ ice' = IF described THEN ice ELSE {}
    /\ Drained
    /\ UNCHANGED <<wake, peerGen, applied>>

(* DirectGate_WebRTC_HandleOffer, with the mode set before it is called; a *)
(* session in desktop mode stays in it to its end (directgate.c 1110-1111, *)
(* session.c 890-899).  track: the mode is desktop, the offer has H.264.   *)
HandleOffer(g, bg, v, track) ==
    /\ video => v
    /\ video' = v
    /\ track => v
    /\ UNCHANGED <<told, alive>>
    /\ \/ DropOffer(g)
       \/ /\ ~Stale(g) /\ Background(bg)
          /\ \/ \E p \in Peers : Fresh(p) /\ OfferPending(g, p, track)
             \/ OfferPendingFails
       \/ /\ ~Stale(g) /\ ~Background(bg)
          /\ \/ \E p \in Peers : Fresh(p) /\ OfferActive(g, p, track)
             \/ \E described \in BOOLEAN : OfferActiveFails(g, described)

(* DirectGate_WebRTC_CommitPending: a commit that is late, early or for    *)
(* another generation changes nothing.                                     *)
CommitPending(g) ==
    /\ IF pending.pc # 0 /\ g \in {0, pending.gen} /\ pending.direct /\ Ready
       THEN PromotePending
       ELSE UNCHANGED peers
    /\ Proceed
    /\ UNCHANGED <<fifo, video, ice, signals, alive>>

(* The session ends; DirectGate_WebRTC_Clear.                              *)
Clear ==
    /\ alive' = FALSE
    /\ Destroy
    /\ UNCHANGED <<wake, video, signals>>

Signaling ==
    \/ \E g \in Gens, bg, track \in BOOLEAN, v \in VideoModes : HandleOffer(g, bg, v, track)
    \/ \E g \in Gens \cup {0} : CommitPending(g)
    \/ \E c \in Cands : HandleIceCandidate(c)
    \/ Clear

(* What the loop does between turns: signaling through the relay.          *)
Relay ==
    /\ alive /\ turn = "idle"
    /\ Signaling
    /\ UNCHANGED <<network, direct, opened, traffic>>

(* DirectGate_WebRTC_NoteSendFailure: the session falls back to the relay  *)
(* when the channel it sent on is not open.                                *)
SendFails ==
    /\ alive /\ turn = "idle"
    /\ connected /\ active.slot["data"] # NoHandle
    /\ \/ handle[active.slot["data"]] # "hooked"
       \/ active.slot["data"] \notin opened
    /\ connected' = FALSE
    /\ UNCHANGED <<active, pending, peer, handle, fifo, loop, video, ice, alive,
                   network, direct, opened, traffic, signals>>

-----------------------------------------------------------------------------
(* Turns of the loop: DirectGate_WebRTC_ProcessQueue.                      *)

(* The pipe is drained before the queue is looked at.                      *)
StartTurn ==
    /\ alive /\ turn = "idle" /\ wake
    /\ wake' = FALSE
    /\ IF failed
       THEN Destroy
       ELSE turn' = "detach" /\ UNCHANGED <<peers, ice, queue, failed, batch>>
    /\ UNCHANGED <<video, alive, network, direct, opened, traffic, signals>>

Detach ==
    /\ turn = "detach"
    /\ batch' = queue
    /\ queue' = <<>>
    /\ turn' = IF queue = <<>> THEN "idle" ELSE "dispatch"
    /\ UNCHANGED <<peers, failed, wake, video, ice, alive, network, direct,
                   opened, traffic, signals>>

Dispatching(type) == turn = "dispatch" /\ Head(batch).type = type

(* First stage: the callbacks' handlers.                                   *)

Dispatched ==
    /\ Proceed
    /\ UNCHANGED <<video, ice, alive, network, direct, opened, traffic, peerGen, applied>>

(* A second stage is queued, or the event is ignored.                      *)
Forward(relevant, e) ==
    IF relevant THEN Enqueue(e) ELSE UNCHANGED fifo

(* DirectGate_WebRTC_OnDataChannel: the channel is attached to the slot of *)
(* its label, in place of the one that was there.                          *)
Attach(s, h) == [s EXCEPT !.slot = [s.slot EXCEPT ![h.kind] = h]]

OnDataChannel ==
    /\ Dispatching("channel")
    /\ LET h == Head(batch).handle
           old(s) == {s.slot[h.kind]} \ {NoHandle}
       IN  IF ~Known(h.pc) \/ h.kind \notin Kinds
           THEN handle' = Closed({h}) /\ UNCHANGED <<active, pending>>
           ELSE IF h.pc = pending.pc
           THEN /\ pending' = Attach(pending, h)
                /\ handle' = [Closed(old(pending)) EXCEPT ![h] = "hooked"]
                /\ UNCHANGED active
           ELSE /\ active' = Attach(active, h)
                /\ handle' = [Closed(old(active)) EXCEPT ![h] = "hooked"]
                /\ UNCHANGED pending
    /\ Dispatched
    /\ UNCHANGED <<connected, peer, fifo, told>>

Attached(h) == h \in Slots(active) \cup Slots(pending)

OnHandleState ==
    /\ Dispatching("isOpen") \/ Dispatching("isClosed")
    /\ LET h == Head(batch).handle
       IN  Forward(Attached(h),
               HandleEvent(IF Head(batch).type = "isOpen" THEN "open" ELSE "closed", h))
    /\ Dispatched
    /\ UNCHANGED <<peers, told>>

(* The route is asked for when the event is worked off; of a peer that     *)
(* failed meanwhile it may be its last one, or none.                       *)
Found(p) ==
    IF peer[p] = "failed" THEN {"none", "relay"} \cup (IF p \in direct THEN {"direct"} ELSE {})
    ELSE {peer[p]}

OnIceStateChange ==
    /\ Dispatching("ice")
    /\ LET p == Head(batch).pc
       IN  \E route \in Found(p) :
             Forward(p = pending.pc /\ route # "none",
                 PeerEvent(IF route = "direct" THEN "direct" ELSE "failed", p))
    /\ Dispatched
    /\ UNCHANGED <<peers, told>>

OnStateChange ==
    /\ Dispatching("state")
    /\ Forward(Head(batch).pc = pending.pc, PeerEvent("failed", Head(batch).pc))
    /\ Dispatched
    /\ UNCHANGED <<peers, told>>

(* Second stage.                                                           *)

(* Mutant: the announcement is decided before the news is taken in. *)
LearnBefore(s) ==
    LET announce == ~s.signaled /\ pending.direct /\ pending.dataOpen
                                /\ (video => pending.videoOpen)
    IN  /\ pending' = [s EXCEPT !.signaled = s.signaled \/ announce]
        /\ Forward(announce, PeerEvent("ready", s.pc))
        /\ UNCHANGED <<active, connected, peer, handle>>

(* What the background peer is known to be; it is announced once, when it  *)
(* is ready (DirectGate_WebRTC_NotifyPendingReady).                        *)
Learn(s) ==
    LET announce == ~s.signaled /\ s.direct /\ s.dataOpen /\ (video => s.videoOpen)
    IN  /\ pending' = [s EXCEPT !.signaled = s.signaled \/ announce]
        /\ Forward(announce, PeerEvent("ready", s.pc))
        /\ UNCHANGED <<active, connected, peer, handle>>

DispatchOpen ==
    /\ Dispatching("open")
    /\ LET h == Head(batch).handle
       IN  IF h = pending.slot[h.kind] /\ h.kind # "input"
           THEN Learn(IF h.kind = "data" THEN [pending EXCEPT !.dataOpen = TRUE]
                                         ELSE [pending EXCEPT !.videoOpen = TRUE])
           ELSE /\ connected' = (connected \/ (h.kind = "data" /\ h = active.slot["data"]))
                /\ UNCHANGED <<active, pending, peer, handle, fifo>>
    /\ Dispatched
    /\ UNCHANGED told

Detached(s, h) == [s EXCEPT !.slot = [s.slot EXCEPT ![h.kind] = NoHandle]]

(* The reliable channel of the active peer is gone: a background peer that *)
(* was announced takes over at once.                                       *)
ActiveLost(h) ==
    IF pending.signaled /\ Ready
    THEN PromotePending
    ELSE /\ active' = Detached(active, h)
         /\ connected' = FALSE
         /\ handle' = Closed({h})
         /\ UNCHANGED <<pending, peer>>

DispatchClosed ==
    /\ Dispatching("closed")
    /\ LET h == Head(batch).handle
       IN  IF h = pending.slot[h.kind]
           THEN IF h.kind = "input"
                THEN /\ pending' = Detached(pending, h)
                     /\ handle' = Closed({h})
                     /\ UNCHANGED <<active, connected, peer>>
                ELSE DestroyPending
           ELSE IF h # active.slot[h.kind] THEN UNCHANGED peers
           ELSE IF h.kind = "data" THEN ActiveLost(h)
           ELSE /\ active' = Detached(active, h)
                /\ handle' = Closed({h})
                /\ UNCHANGED <<pending, connected, peer>>
    /\ Dispatched
    /\ UNCHANGED <<fifo, told>>

DispatchPendingDirect ==
    /\ Dispatching("direct")
    /\ IF Head(batch).pc = pending.pc
       THEN Learn([pending EXCEPT !.direct = TRUE])
       ELSE UNCHANGED <<peers, fifo>>
    /\ Dispatched
    /\ UNCHANGED told

DispatchPendingFailed ==
    /\ Dispatching("failed")
    /\ IF Head(batch).pc = pending.pc THEN DestroyPending ELSE UNCHANGED peers
    /\ Dispatched
    /\ UNCHANGED <<fifo, told>>

DispatchSignal ==
    /\ Dispatching("ready")
    /\ told' = told \cup {Head(batch).pc}
    /\ Dispatched
    /\ UNCHANGED <<peers, fifo>>

(* Payloads may arrive on any channel of the two peers.                    *)
Accepts(h) == Attached(h) /\ h.kind # "video"

DropData ==
    /\ Dispatching("data") /\ ~Accepts(Head(batch).handle)
    /\ Dispatched
    /\ UNCHANGED <<peers, fifo, told>>

(* A message is handed over; it may carry signaling or end the session.    *)
DispatchData ==
    /\ Dispatching("data") /\ Accepts(Head(batch).handle)
    /\ delivered' = [delivered EXCEPT ![Head(batch).handle] = Append(@, Head(batch).msg)]
    /\ \/ Signaling
       \/ /\ Proceed
          /\ UNCHANGED <<peers, fifo, video, ice, alive, signals>>
    /\ UNCHANGED <<network, direct, opened, sent>>

Turn ==
    \/ StartTurn \/ Detach
    \/ OnDataChannel \/ OnHandleState \/ OnIceStateChange \/ OnStateChange
    \/ DispatchOpen \/ DispatchClosed \/ DispatchPendingDirect
    \/ DispatchPendingFailed \/ DispatchSignal \/ DropData \/ DispatchData

-----------------------------------------------------------------------------
(* External: the threads of libdatachannel.                                *)

Callback == UNCHANGED <<active, pending, connected, video, ice, alive, loop, delivered, signals>>
Running(p) == peer[p] \in {"checking", "direct", "relay"}

(* ICE selects a route, or another one.                                    *)
LibRoute(p, route) ==
    /\ Running(p) /\ peer[p] # route /\ network < MaxNetwork
    /\ peer' = [peer EXCEPT ![p] = route]
    /\ direct' = IF route = "direct" THEN direct \cup {p} ELSE direct
    /\ network' = network + 1
    /\ Enqueue(PeerEvent("ice", p))
    /\ Callback /\ UNCHANGED <<handle, opened, sent>>

LibFails(p) ==
    /\ Running(p) /\ network < MaxNetwork
    /\ peer' = [peer EXCEPT ![p] = "failed"]
    /\ network' = network + 1
    /\ Enqueue(PeerEvent("state", p))
    /\ Callback /\ UNCHANGED <<handle, direct, opened, sent>>

(* The browser opened a channel; one that cannot be announced is closed.   *)
LibChannel(h) ==
    /\ peer[h.pc] \in {"direct", "relay"} /\ handle[h] = "none" /\ h.kind \in Labels
    /\ \A n \in 1 .. h.no - 1 : handle[[h EXCEPT !.no = n]] # "none"
    /\ handle' = [handle EXCEPT ![h] = IF Full THEN "gone" ELSE "incoming"]
    /\ Enqueue(HandleEvent("channel", h))
    /\ Callback /\ UNCHANGED <<external, opened, sent>>

LibOpens(h) ==
    /\ peer[h.pc] \in {"direct", "relay"} /\ handle[h] = "hooked" /\ h \notin opened
    /\ opened' = opened \cup {h}
    /\ Enqueue(HandleEvent("isOpen", h))
    /\ Callback /\ UNCHANGED <<external, handle, sent>>

LibCloses(h) ==
    /\ handle[h] = "hooked" /\ network < MaxNetwork
    /\ handle' = [handle EXCEPT ![h] = "shut"]
    /\ network' = network + 1
    /\ Enqueue(HandleEvent("isClosed", h))
    /\ Callback /\ UNCHANGED <<peer, direct, opened, sent>>

Received == {r \in Handles \X (1 .. MaxMessages) : r[2] <= sent[r[1]]}

LibMessage(h) ==
    /\ handle[h] = "hooked" /\ h \in opened /\ h.kind # "video"
    /\ Cardinality(Received) < MaxMessages
    /\ sent' = [sent EXCEPT ![h] = @ + 1]
    /\ Enqueue(Event("data", h.pc, h, sent[h] + 1))
    /\ Callback /\ UNCHANGED <<external, handle, opened>>

Library ==
    \/ \E p \in Peers, r \in {"direct", "relay"} : LibRoute(p, r)
    \/ \E p \in Peers : LibFails(p)
    \/ \E h \in Handles : LibChannel(h) \/ LibOpens(h) \/ LibCloses(h) \/ LibMessage(h)

-----------------------------------------------------------------------------
Init ==
    /\ active = NoActive /\ pending = NoPending
    /\ connected = FALSE /\ video = FALSE /\ ice = {} /\ alive = TRUE
    /\ queue = <<>> /\ failed = FALSE /\ wake = FALSE
    /\ turn = "idle" /\ batch = <<>>
    /\ peer = [p \in Peers |-> "none"]
    /\ handle = [h \in Handles |-> "none"]
    /\ network = 0 /\ direct = {} /\ opened = {}
    /\ peerGen = [p \in Peers |-> 0]
    /\ sent = [h \in Handles |-> 0]
    /\ delivered = [h \in Handles |-> <<>>]
    /\ applied = {} /\ told = {}

Next == Relay \/ SendFails \/ Turn \/ Library

Spec == Init /\ [][Next]_vars

(* The loop polls the pipe and runs a turn to its end.                     *)
FairSpec == Spec /\ WF_vars(Turn)

-----------------------------------------------------------------------------
(* Properties.                                                             *)

(* The two peers are different ones, and events are about handles that     *)
(* were given out.                                                         *)
TypeOK ==
    /\ active \in [pc : Peers \cup {0}, gen : Nat,
                   slot : [Kinds -> Handles \cup {NoHandle}]]
    /\ pending \in [pc : Peers \cup {0}, gen : Nat,
                    slot : [Kinds -> Handles \cup {NoHandle}],
                    dataOpen : BOOLEAN, videoOpen : BOOLEAN,
                    direct : BOOLEAN, signaled : BOOLEAN]
    /\ connected \in BOOLEAN /\ video \in BOOLEAN /\ alive \in BOOLEAN
    /\ ice \in SUBSET Cands
    /\ queue \in Seq(Events) /\ batch \in Seq(Events)
    /\ failed \in BOOLEAN /\ wake \in BOOLEAN
    /\ turn \in {"idle", "detach", "dispatch"}
    /\ turn = "dispatch" <=> batch # <<>>
    /\ peer \in [Peers -> {"none", "checking", "direct", "relay", "failed", "gone"}]
    /\ handle \in [Handles -> {"none", "incoming", "hooked", "shut", "gone"}]
    /\ network \in Nat /\ direct \in SUBSET Peers /\ opened \in SUBSET Handles
    /\ peerGen \in [Peers -> Nat]
    /\ sent \in [Handles -> Nat] /\ delivered \in [Handles -> Seq(Nat)]
    /\ applied \in SUBSET (Cands \X Peers) /\ told \in SUBSET Peers

(* No handle of the library leaks: a channel or track that is not closed   *)
(* is in a slot, or owned by the one notification it came in, and a peer   *)
(* that is not closed is the active or the background one                  *)
(* (DirectGate_WebRTC_DiscardEvent, _OnDataChannel, _Destroy).             *)
NothingLeaks ==
    /\ \A h \in Handles :
         /\ handle[h] \in {"hooked", "shut"} <=> Attached(h)
         /\ handle[h] = "incoming" => h \in Notified(queue) \cup Notified(batch)
    /\ \A p \in Peers : peer[p] \notin {"none", "gone"} <=> Known(p)

(* When a message ends the session, nothing of the turn is left that could *)
(* touch it: every event is discarded and every handle closed              *)
(* (pDispatchAlive).                                                       *)
NothingAfterTheEnd ==
    ~alive => /\ turn = "idle" /\ batch = <<>> /\ queue = <<>>
              /\ \A h \in Handles : handle[h] \in {"none", "gone"}

(* "Reliable messages cannot be silently dropped": what the session got of *)
(* a channel is always the first messages of it, in order, even when the   *)
(* queue overflows.                                                        *)
NoGap ==
    \A h \in Handles :
        /\ Len(delivered[h]) <= sent[h]
        /\ \A i \in DOMAIN delivered[h] : delivered[h][i] = i

(* The session never gets a message of a peer that was retired, although   *)
(* its messages may still be queued: only channels in place deliver.       *)
OnlyLiveDeliver ==
    [][\A h \in Handles : delivered'[h] # delivered[h]
          => handle[h] \in {"hooked", "shut"} /\ Known(h.pc)]_vars

(* "A failed background attempt never touches the active TURN route": the  *)
(* active peer gives way to a background peer only if that was once on a   *)
(* direct route and its channel, and track if video is on, did open.       *)
(* Otherwise it goes because the queue overflowed, the session ended or a  *)
(* newer offer replaced it, and then nothing of the turn is left.          *)
MigrationIsAnUpgrade ==
    [][active.pc # 0 /\ active'.pc # active.pc =>
         \/ /\ active'.pc = pending.pc /\ connected'
            /\ pending.pc \in direct
            /\ \E h \in opened : h.pc = pending.pc /\ h.kind = "data"
            /\ video => VideoTrack(pending.pc) \in opened
         \/ /\ pending'.pc = 0 /\ ~connected' /\ batch' = <<>> /\ queue' = <<>>
            /\ \/ failed \/ ~alive'
               \/ active'.gen > active.gen \/ 0 \in {active.gen, active'.gen}]_vars

(* One route at a time: the session is served by the route that is in      *)
(* place, and that changes by an upgrade or comes to its end.              *)
OneRouteAtATime == OnlyLiveDeliver /\ MigrationIsAnUpgrade

(* A numbered candidate is only ever added to a peer of its own            *)
(* generation, or to one that was offered without a number.                *)
IceReachesItsPeer ==
    \A a \in applied : a[1].gen \in {0, peerGen[a[2]]} \/ peerGen[a[2]] = 0

(* The epoch of the transport only rises, as long as offers are numbered:  *)
(* packets of two peers that were active are never of the same generation. *)
GenerationsRise ==
    [][active'.pc \notin {0, active.pc} /\ active'.gen # 0 /\ active.gen # 0
         => active'.gen > active.gen]_vars

(* A background peer that is ready is one the browser was told about, or   *)
(* will be, or the transport is about to fail.                             *)
ReadyIsTold ==
    pending.pc # 0 /\ pending.direct /\ Ready =>
        \/ failed \/ pending.pc \in told
        \/ \E q \in {queue, batch} : \E i \in DOMAIN q :
              q[i].type = "ready" /\ q[i].pc = pending.pc

(* A session does not stay on a data channel that is gone: it moves to the *)
(* background peer, to a new one or back to the relay (ProcessQueue,       *)
(* WebRTC_Enqueue where the queue is full).                                *)
OnLostChannel ==
    /\ connected /\ active.slot["data"] # NoHandle
    /\ handle[active.slot["data"]] = "shut"

LossIsNoticed == OnLostChannel ~> ~OnLostChannel

=============================================================================
