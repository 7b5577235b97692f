-------------------------- MODULE WebRTCPeer_proofs --------------------------
(***************************************************************************)
(* Theorems about WebRTCPeer for all constants.                            *)
(***************************************************************************)
EXTENDS WebRTCPeer, SequenceTheorems, TLAPS

Slot == [Kinds -> Handles \cup {NoHandle}]
ActiveRec == [pc : Peers \cup {0}, gen : Nat, slot : Slot]
PendingRec == [pc : Peers \cup {0}, gen : Nat, slot : Slot, dataOpen : BOOLEAN,
               videoOpen : BOOLEAN, direct : BOOLEAN, signaled : BOOLEAN]
PeerStates == {"none", "checking", "direct", "relay", "failed", "gone"}
HandleStates == {"none", "incoming", "hooked", "shut", "gone"}

(* Types, by the part of the code that changes the variables together.     *)
PeersOK ==
    /\ active \in ActiveRec /\ pending \in PendingRec
    /\ pending.pc = 0 => ~pending.direct
    /\ connected \in BOOLEAN
    /\ peer \in [Peers -> PeerStates] /\ handle \in [Handles -> HandleStates]
FifoOK ==
    queue \in Seq(Events) /\ failed \in BOOLEAN /\ wake \in BOOLEAN
LoopOK ==
    /\ batch \in Seq(Events) /\ turn \in {"idle", "detach", "dispatch"}
    /\ turn = "dispatch" <=> batch # <<>>
SignalsOK ==
    /\ ice \in SUBSET Cands /\ peerGen \in [Peers -> Nat]
    /\ applied \in SUBSET (Cands \X Peers) /\ told \in SUBSET Peers
FlagsOK == video \in BOOLEAN /\ alive \in BOOLEAN
LibraryOK ==
    /\ network \in Nat /\ direct \in SUBSET Peers /\ opened \in SUBSET Handles
    /\ sent \in [Handles -> Nat] /\ delivered \in [Handles -> Seq(Nat)]

(* TypeOK is not inductive: that a background peer is announced by its own *)
(* number takes that none is direct when there is none.                    *)
TInv == PeersOK /\ FifoOK /\ LoopOK /\ SignalsOK /\ FlagsOK /\ LibraryOK

-----------------------------------------------------------------------------
(* Values.                                                                 *)

LEMMA ZeroIsNoPeer == 0 \notin Peers
  BY SMT DEF Peers

LEMMA HandleFields ==
    \A h \in Handles : h.pc \in Peers /\ h # NoHandle
  BY ZeroIsNoPeer DEF Handles, NoHandle

LEMMA NoneTyped ==
    /\ NoSlots \in Slot
    /\ NoActive \in ActiveRec
    /\ NoPending \in PendingRec /\ NoPending.pc = 0 /\ ~NoPending.direct
  BY DEF NoSlots, NoActive, NoPending, Slot, ActiveRec, PendingRec

LEMMA EventTyped ==
    ASSUME NEW t \in EventTypes, NEW p \in Peers
    PROVE  PeerEvent(t, p) \in Events
  BY DEF Events, PeerEvent, Event

LEMMA HandleEventTyped ==
    ASSUME NEW t \in EventTypes, NEW h \in Handles
    PROVE  HandleEvent(t, h) \in Events
  BY HandleFields, SMT DEF Events, HandleEvent, Event

LEMMA HeadTyped ==
    ASSUME LoopOK, turn = "dispatch"
    PROVE  /\ Head(batch) \in Events
           /\ Head(batch).pc \in Peers
           /\ Head(batch).handle \in Handles \cup {NoHandle}
           /\ Head(batch).msg \in Nat
  <1>1. Head(batch) \in Events
    BY SMT DEF LoopOK
  <1> QED
    BY <1>1 DEF Events

LEMMA ClosedTyped ==
    ASSUME handle \in [Handles -> HandleStates], NEW hs
    PROVE  Closed(hs) \in [Handles -> HandleStates]
  BY DEF Closed, HandleStates

LEMMA GoneTyped ==
    ASSUME peer \in [Peers -> PeerStates], NEW ps
    PROVE  Gone(ps) \in [Peers -> PeerStates]
  BY DEF Gone, PeerStates

-----------------------------------------------------------------------------
(* Operators the actions are made of.                                      *)

LEMMA EnqueueTyped ==
    ASSUME FifoOK, NEW e \in Events, Enqueue(e)
    PROVE  FifoOK'
  <1>1. Append(queue, e) \in Seq(Events)
    BY DEF FifoOK
  <1>2. Full \in BOOLEAN
    BY DEF Full, FifoOK
  <1> QED
    BY <1>1, <1>2 DEF FifoOK, Enqueue

LEMMA ForwardTyped ==
    ASSUME FifoOK, NEW r, NEW e, r => e \in Events, Forward(r, e)
    PROVE  FifoOK'
  <1>1. CASE r
    BY <1>1, EnqueueTyped DEF Forward
  <1>2. CASE ~r
    BY <1>2 DEF Forward, fifo, FifoOK
  <1> QED
    BY <1>1, <1>2

LEMMA ProceedTyped ==
    ASSUME LoopOK, Proceed
    PROVE  LoopOK'
  <1>1. Rest \in Seq(Events)
    BY SMT DEF Rest, LoopOK
  <1> QED
    BY <1>1 DEF LoopOK, Proceed

LEMMA DrainedTyped ==
    ASSUME FifoOK, Drained
    PROVE  LoopOK' /\ queue' \in Seq(Events) /\ failed' \in BOOLEAN
  <1>1. <<>> \in Seq(Events)
    OBVIOUS
  <1> QED
    BY <1>1 DEF Drained, LoopOK

LEMMA DestroyPendingTyped ==
    ASSUME PeersOK, DestroyPending
    PROVE  PeersOK'
  BY NoneTyped, ClosedTyped, GoneTyped DEF PeersOK, DestroyPending

LEMMA PromotePendingTyped ==
    ASSUME PeersOK, PromotePending
    PROVE  PeersOK'
  <1>1. CASE ~CanPromote
    BY <1>1 DEF PromotePending, PeersOK, peers
  <1>2. CASE CanPromote
    <2>1. [pc |-> pending.pc, gen |-> pending.gen, slot |-> pending.slot] \in ActiveRec
      BY DEF PeersOK, ActiveRec, PendingRec
    <2> QED
      BY <1>2, <2>1, NoneTyped, ClosedTyped, GoneTyped DEF PromotePending, PeersOK
  <1> QED
    BY <1>1, <1>2

LEMMA DestroyTyped ==
    ASSUME PeersOK, FifoOK, Destroy
    PROVE  /\ PeersOK' /\ LoopOK' /\ ice' = {}
           /\ queue' \in Seq(Events) /\ failed' \in BOOLEAN
  <1>1. [NoActive EXCEPT !.gen = active.gen] \in ActiveRec
    BY NoneTyped DEF PeersOK, ActiveRec
  <1>2. PeersOK'
    BY <1>1, NoneTyped, ClosedTyped, GoneTyped DEF PeersOK, Destroy
  <1> QED
    BY <1>2, DrainedTyped DEF Destroy

LEMMA FlushTyped ==
    ASSUME SignalsOK, NEW a, NEW b, a.pc \in Peers \cup {0}, b.pc \in Peers \cup {0},
           Flush(a, b)
    PROVE  applied' \in SUBSET (Cands \X Peers) /\ ice' \in SUBSET Cands
  <1>1. \A c : Target(c, a, b) \in Peers \cup {0}
    BY DEF Target
  <1> QED
    BY <1>1 DEF Flush, SignalsOK

LEMMA CandTyped ==
    \A c \in Cands : c.gen \in Nat
  BY PeerAssumption DEF Cands

-----------------------------------------------------------------------------
(* Signaling.                                                              *)

LEMMA OfferedTyped ==
    ASSUME NEW p \in Peers, NEW track \in BOOLEAN
    PROVE  OfferedSlots(p, track) \in Slot
  <1>1. VideoTrack(p) \in Handles
    BY PeerAssumption, SMT DEF VideoTrack, Handles, Kinds
  <1> QED
    BY <1>1, NoneTyped DEF OfferedSlots, Slot

LEMMA CreatedTyped ==
    ASSUME handle \in [Handles -> HandleStates], NEW hs, NEW p, NEW track
    PROVE  Created(hs, p, track) \in [Handles -> HandleStates]
  BY ClosedTyped DEF Created, HandleStates

(* A peer that an offer creates.                                           *)
LEMMA CheckingTyped ==
    ASSUME peer \in [Peers -> PeerStates], NEW ps, NEW p
    PROVE  [Gone(ps) EXCEPT ![p] = "checking"] \in [Peers -> PeerStates]
  BY GoneTyped DEF PeerStates

LEMMA HandleOfferTyped ==
    ASSUME PeersOK, FifoOK, LoopOK, SignalsOK, FlagsOK, VideoModes \subseteq BOOLEAN,
           NEW g \in Gens, NEW bg \in BOOLEAN, NEW v \in VideoModes, NEW track \in BOOLEAN,
           HandleOffer(g, bg, v, track)
    PROVE  PeersOK' /\ FifoOK' /\ LoopOK' /\ SignalsOK' /\ FlagsOK'
  <1>1. g \in Nat
    BY PeerAssumption
  <1>2. FlagsOK'
    BY DEF HandleOffer, FlagsOK
  <1>3. told' = told
    BY DEF HandleOffer
  <1>4. CASE DropOffer(g)
    BY <1>2, <1>3, <1>4, ProceedTyped DEF DropOffer, peers, fifo, PeersOK, FifoOK, SignalsOK
  <1>5. ASSUME NEW p \in Peers, OfferPending(g, p, track)
        PROVE  PeersOK' /\ FifoOK' /\ LoopOK' /\ SignalsOK'
    <2>1. /\ pending' \in PendingRec
          /\ pending'.pc \in Peers
      BY <1>1, <1>5, NoneTyped, OfferedTyped DEF OfferPending, PendingRec
    <2>2. PeersOK'
      BY <1>5, <2>1, ZeroIsNoPeer, CreatedTyped, CheckingTyped DEF OfferPending, PeersOK
    <2>3. applied' \in SUBSET (Cands \X Peers) /\ ice' \in SUBSET Cands
      <3>1. Flush(active, pending') /\ active.pc \in Peers \cup {0}
        BY <1>5 DEF OfferPending, PeersOK, ActiveRec
      <3> QED
        BY <2>1, <3>1, FlushTyped
    <2>4. SignalsOK'
      BY <1>1, <1>3, <1>5, <2>3 DEF OfferPending, SignalsOK
    <2> QED
      BY <1>5, <2>2, <2>4, ProceedTyped DEF OfferPending, FifoOK, fifo
  <1>6. CASE OfferPendingFails
    BY <1>2, <1>3, <1>6, ProceedTyped, DestroyPendingTyped
       DEF OfferPendingFails, fifo, FifoOK, SignalsOK
  <1>7. ASSUME NEW p \in Peers, OfferActive(g, p, track)
        PROVE  PeersOK' /\ FifoOK' /\ LoopOK' /\ SignalsOK'
    <2>1. active' \in ActiveRec
      BY <1>1, <1>7, OfferedTyped DEF OfferActive, ActiveRec
    <2>2. PeersOK'
      BY <1>7, <2>1, NoneTyped, CreatedTyped, CheckingTyped DEF OfferActive, PeersOK
    <2>3. applied' \in SUBSET (Cands \X Peers) /\ ice' \in SUBSET Cands
      <3>1. Flush(active', NoPending) /\ active'.pc \in Peers \cup {0}
        BY <1>7, <2>1 DEF OfferActive, ActiveRec
      <3> QED
        BY <3>1, NoneTyped, FlushTyped
    <2>4. SignalsOK'
      BY <1>1, <1>3, <1>7, <2>3 DEF OfferActive, SignalsOK
    <2> QED
      BY <1>7, <2>2, <2>4, DrainedTyped DEF OfferActive, FifoOK
  <1>8. ASSUME NEW described \in BOOLEAN, OfferActiveFails(g, described)
        PROVE  PeersOK' /\ FifoOK' /\ LoopOK' /\ SignalsOK'
    <2>1. active' \in ActiveRec
      BY <1>1, <1>8, NoneTyped DEF OfferActiveFails, ActiveRec
    <2>2. PeersOK'
      BY <1>8, <2>1, NoneTyped, ClosedTyped, GoneTyped DEF OfferActiveFails, PeersOK
    <2>3. SignalsOK'
      BY <1>3, <1>8 DEF OfferActiveFails, SignalsOK
    <2> QED
      BY <1>8, <2>2, <2>3, DrainedTyped DEF OfferActiveFails, FifoOK
  <1> QED
    BY <1>2, <1>4, <1>5, <1>6, <1>7, <1>8 DEF HandleOffer

LEMMA SignalingTyped ==
    ASSUME PeersOK, FifoOK, LoopOK, SignalsOK, FlagsOK, Signaling
    PROVE  PeersOK' /\ FifoOK' /\ LoopOK' /\ SignalsOK' /\ FlagsOK'
  <1>1. ASSUME NEW g \in Gens, NEW bg \in BOOLEAN, NEW track \in BOOLEAN,
               NEW v \in VideoModes, HandleOffer(g, bg, v, track)
        PROVE  PeersOK' /\ FifoOK' /\ LoopOK' /\ SignalsOK' /\ FlagsOK'
    BY <1>1, PeerAssumption, HandleOfferTyped
  <1>2. ASSUME NEW g \in Gens \cup {0}, CommitPending(g)
        PROVE  PeersOK' /\ FifoOK' /\ LoopOK' /\ SignalsOK' /\ FlagsOK'
    <2>1. PeersOK'
      <3>1. CASE PromotePending
        BY <3>1, PromotePendingTyped
      <3>2. CASE UNCHANGED peers
        BY <3>2 DEF peers, PeersOK
      <3> QED
        BY <1>2, <3>1, <3>2 DEF CommitPending
    <2> QED
      BY <1>2, <2>1, ProceedTyped
         DEF CommitPending, fifo, signals, FifoOK, SignalsOK, FlagsOK
  <1>3. ASSUME NEW c \in Cands, HandleIceCandidate(c)
        PROVE  PeersOK' /\ FifoOK' /\ LoopOK' /\ SignalsOK' /\ FlagsOK'
    <2>1. AddsTo(c) \in Peers \cup {0}
      BY DEF AddsTo, PeersOK, ActiveRec, PendingRec
    <2>2. SignalsOK'
      BY <1>3, <2>1 DEF HandleIceCandidate, SignalsOK
    <2> QED
      BY <1>3, <2>2, ProceedTyped DEF HandleIceCandidate, peers, fifo, PeersOK, FifoOK, FlagsOK
  <1>4. CASE Clear
    <2>1. PeersOK' /\ LoopOK' /\ ice' = {} /\ queue' \in Seq(Events) /\ failed' \in BOOLEAN
      BY <1>4, DestroyTyped DEF Clear
    <2> QED
      BY <1>4, <2>1 DEF Clear, signals, FifoOK, SignalsOK, FlagsOK
  <1> QED
    BY <1>1, <1>2, <1>3, <1>4 DEF Signaling

-----------------------------------------------------------------------------
(* Turns of the loop.                                                      *)

LEMMA StartTurnTyped ==
    ASSUME TInv, StartTurn
    PROVE  TInv'
  <1>1. CASE failed
    <2>1. Destroy
      BY <1>1 DEF StartTurn
    <2>2. PeersOK' /\ LoopOK' /\ ice' = {} /\ queue' \in Seq(Events) /\ failed' \in BOOLEAN
      BY <2>1, DestroyTyped DEF TInv
    <2> QED
      BY <2>2 DEF StartTurn, TInv, FifoOK, SignalsOK, FlagsOK, LibraryOK, traffic, signals
  <1>2. CASE ~failed
    <2>1. batch = <<>>
      BY DEF StartTurn, TInv, LoopOK
    <2> QED
      BY <1>2, <2>1 DEF StartTurn, TInv, peers, PeersOK, FifoOK, LoopOK, SignalsOK,
                        FlagsOK, LibraryOK, traffic, signals
  <1> QED
    BY <1>1, <1>2

LEMMA DetachTyped ==
    ASSUME TInv, Detach
    PROVE  TInv'
  <1>1. <<>> \in Seq(Events)
    OBVIOUS
  <1> QED
    BY <1>1 DEF Detach, TInv, peers, PeersOK, FifoOK, LoopOK, SignalsOK, FlagsOK,
                LibraryOK, traffic, signals

(* What every dispatched event leaves typed.                               *)
LEMMA DispatchedTyped ==
    ASSUME TInv, Dispatched, told' \in SUBSET Peers
    PROVE  LoopOK' /\ SignalsOK' /\ FlagsOK' /\ LibraryOK'
  <1>1. LoopOK'
    BY ProceedTyped DEF Dispatched, TInv
  <1> QED
    BY <1>1 DEF Dispatched, TInv, SignalsOK, FlagsOK, LibraryOK, traffic

(* A handle in a slot is one.                                              *)
LEMMA AttachedTyped ==
    ASSUME PeersOK, NEW h, Attached(h)
    PROVE  h \in Handles
  BY SMT DEF Attached, Slots, PeersOK, ActiveRec, PendingRec, Slot

LEMMA OnDataChannelTyped ==
    ASSUME TInv, OnDataChannel
    PROVE  TInv'
  <1> DEFINE h == Head(batch).handle
  <1>1. h \in Handles \cup {NoHandle}
    BY HeadTyped DEF OnDataChannel, Dispatching, TInv
  <1>2. told' = told /\ fifo' = fifo /\ connected' = connected /\ peer' = peer
    BY DEF OnDataChannel
  <1>3. PeersOK'
    <2>1. CASE ~Known(h.pc) \/ h.kind \notin Kinds
      BY <1>2, <2>1, ClosedTyped DEF OnDataChannel, TInv, PeersOK
    <2>2. CASE Known(h.pc) /\ h.kind \in Kinds
      <3>1. h \in Handles /\ h.kind \in Kinds
        BY <1>1, <2>2 DEF Known, NoHandle
      <3>2. /\ Attach(active, h) \in ActiveRec
            /\ Attach(pending, h) \in PendingRec
            /\ Attach(pending, h).pc = pending.pc
            /\ Attach(pending, h).direct = pending.direct
        <4>1. [active.slot EXCEPT ![h.kind] = h] \in Slot
          BY <3>1 DEF TInv, PeersOK, ActiveRec, Slot
        <4>2. [pending.slot EXCEPT ![h.kind] = h] \in Slot
          BY <3>1 DEF TInv, PeersOK, PendingRec, Slot
        <4> QED
          BY <4>1, <4>2, Zenon DEF Attach, TInv, PeersOK, ActiveRec, PendingRec
      <3>3. \A hs : [Closed(hs) EXCEPT ![h] = "hooked"] \in [Handles -> HandleStates]
        BY <3>1, ClosedTyped DEF HandleStates, TInv, PeersOK
      <3> QED
        BY <1>2, <2>2, <3>2, <3>3 DEF OnDataChannel, TInv, PeersOK
    <2> QED
      BY <2>1, <2>2
  <1> QED
    BY <1>2, <1>3, DispatchedTyped DEF OnDataChannel, TInv, fifo, FifoOK, SignalsOK

(* The first stage of the other events may only queue a second one.        *)
LEMMA FirstStageTyped ==
    ASSUME TInv, UNCHANGED <<peers, told>>, Dispatched, FifoOK'
    PROVE  TInv'
  BY DispatchedTyped DEF TInv, peers, PeersOK, SignalsOK

LEMMA OnHandleStateTyped ==
    ASSUME TInv, OnHandleState
    PROVE  TInv'
  <1> DEFINE h == Head(batch).handle
             e == HandleEvent(IF Head(batch).type = "isOpen" THEN "open" ELSE "closed", h)
  <1>1. Attached(h) => e \in Events
    BY AttachedTyped, HandleEventTyped DEF TInv, EventTypes
  <1>2. FifoOK'
    <2>1. Forward(Attached(h), e)
      BY DEF OnHandleState
    <2> HIDE DEF h, e
    <2> QED
      BY <1>1, <2>1, ForwardTyped DEF TInv
  <1> QED
    BY <1>2, FirstStageTyped DEF OnHandleState

LEMMA OnIceStateChangeTyped ==
    ASSUME TInv, OnIceStateChange
    PROVE  TInv'
  <1> DEFINE p == Head(batch).pc
  <1>1. p \in Peers
    BY HeadTyped DEF OnIceStateChange, Dispatching, TInv
  <1>2. PICK route : Forward(p = pending.pc /\ route # "none",
                             PeerEvent(IF route = "direct" THEN "direct" ELSE "failed", p))
    BY DEF OnIceStateChange
  <1>3. PeerEvent(IF route = "direct" THEN "direct" ELSE "failed", p) \in Events
    BY <1>1, EventTyped DEF EventTypes
  <1>4. FifoOK'
    BY <1>2, <1>3, ForwardTyped DEF TInv
  <1> QED
    BY <1>4, FirstStageTyped DEF OnIceStateChange

LEMMA OnStateChangeTyped ==
    ASSUME TInv, OnStateChange
    PROVE  TInv'
  <1>1. PeerEvent("failed", Head(batch).pc) \in Events
    BY HeadTyped, EventTyped DEF OnStateChange, Dispatching, TInv, EventTypes
  <1>2. FifoOK'
    BY <1>1, ForwardTyped DEF OnStateChange, TInv
  <1> QED
    BY <1>2, FirstStageTyped DEF OnStateChange

(* News of the background peer, which there is.                            *)
LEMMA LearnTyped ==
    ASSUME PeersOK, FifoOK, NEW s \in PendingRec, s.direct => s.pc # 0, Learn(s)
    PROVE  PeersOK' /\ FifoOK'
  <1> DEFINE announce == ~s.signaled /\ s.direct /\ s.dataOpen /\ (video => s.videoOpen)
  <1>1. s.signaled \in BOOLEAN /\ s.pc \in Peers \cup {0} /\ s.direct \in BOOLEAN
    BY DEF PendingRec
  <1>2. announce => PeerEvent("ready", s.pc) \in Events
    BY <1>1, EventTyped DEF EventTypes
  <1>3. Forward(announce, PeerEvent("ready", s.pc))
    BY DEF Learn
  <1>4. pending' = [s EXCEPT !.signaled = s.signaled \/ announce]
    BY DEF Learn
  <1>5. UNCHANGED <<active, connected, peer, handle>>
    BY DEF Learn
  <1>6. (s.signaled \/ announce) \in BOOLEAN
    OBVIOUS
  <1> HIDE DEF announce
  <1>7. FifoOK'
    BY <1>2, <1>3, ForwardTyped
  <1>8. /\ pending' \in PendingRec
        /\ pending'.pc = s.pc /\ pending'.direct = s.direct
    BY <1>4, <1>6 DEF PendingRec
  <1> QED
    BY <1>5, <1>7, <1>8 DEF PeersOK

LEMMA DispatchOpenTyped ==
    ASSUME TInv, DispatchOpen
    PROVE  TInv'
  <1> DEFINE h == Head(batch).handle
             s == IF h.kind = "data" THEN [pending EXCEPT !.dataOpen = TRUE]
                                     ELSE [pending EXCEPT !.videoOpen = TRUE]
  <1>1. PeersOK' /\ FifoOK'
    <2>1. CASE h = pending.slot[h.kind] /\ h.kind # "input"
      <3>1. Learn(s)
        BY <2>1 DEF DispatchOpen
      <3>2. s \in PendingRec /\ (s.direct => s.pc # 0)
        BY DEF TInv, PeersOK, PendingRec
      <3> HIDE DEF s
      <3> QED
        BY <3>1, <3>2, LearnTyped DEF TInv
    <2>2. CASE ~(h = pending.slot[h.kind] /\ h.kind # "input")
      BY <2>2 DEF DispatchOpen, TInv, PeersOK, fifo, FifoOK
    <2> QED
      BY <2>1, <2>2
  <1> QED
    BY <1>1, DispatchedTyped DEF DispatchOpen, TInv, SignalsOK

LEMMA DetachedTyped ==
    ASSUME PeersOK, NEW h
    PROVE  /\ Detached(active, h) \in ActiveRec
           /\ Detached(pending, h) \in PendingRec
           /\ Detached(pending, h).pc = pending.pc
           /\ Detached(pending, h).direct = pending.direct
  <1>1. [active.slot EXCEPT ![h.kind] = NoHandle] \in Slot
    BY DEF PeersOK, ActiveRec, Slot
  <1>2. [pending.slot EXCEPT ![h.kind] = NoHandle] \in Slot
    BY DEF PeersOK, PendingRec, Slot
  <1> QED
    BY <1>1, <1>2, Zenon DEF Detached, PeersOK, ActiveRec, PendingRec

LEMMA DispatchClosedTyped ==
    ASSUME TInv, DispatchClosed
    PROVE  TInv'
  <1> DEFINE h == Head(batch).handle
  <1>1. PeersOK'
    <2>1. CASE h = pending.slot[h.kind]
      <3>1. CASE h.kind = "input"
        BY <2>1, <3>1, ClosedTyped, DetachedTyped DEF DispatchClosed, TInv, PeersOK
      <3>2. CASE h.kind # "input"
        BY <2>1, <3>2, DestroyPendingTyped DEF DispatchClosed, TInv
      <3> QED
        BY <3>1, <3>2
    <2>2. CASE h # pending.slot[h.kind] /\ h # active.slot[h.kind]
      BY <2>2 DEF DispatchClosed, TInv, peers, PeersOK
    <2>3. CASE h # pending.slot[h.kind] /\ h = active.slot[h.kind]
      <3>1. CASE h.kind = "data" /\ pending.signaled /\ Ready
        BY <2>3, <3>1, PromotePendingTyped DEF DispatchClosed, ActiveLost, TInv
      <3>2. CASE ~(h.kind = "data" /\ pending.signaled /\ Ready)
        BY <2>3, <3>2, ClosedTyped, DetachedTyped DEF DispatchClosed, ActiveLost, TInv, PeersOK
      <3> QED
        BY <3>1, <3>2
    <2> QED
      BY <2>1, <2>2, <2>3
  <1> QED
    BY <1>1, DispatchedTyped DEF DispatchClosed, TInv, fifo, FifoOK, SignalsOK

LEMMA DispatchPendingDirectTyped ==
    ASSUME TInv, DispatchPendingDirect
    PROVE  TInv'
  <1>1. Head(batch).pc \in Peers
    BY HeadTyped DEF DispatchPendingDirect, Dispatching, TInv
  <1>2. PeersOK' /\ FifoOK'
    <2>1. CASE Head(batch).pc = pending.pc
      <3>1. /\ [pending EXCEPT !.direct = TRUE] \in PendingRec
            /\ [pending EXCEPT !.direct = TRUE].pc # 0
        BY <1>1, <2>1, ZeroIsNoPeer DEF TInv, PeersOK, PendingRec
      <3> QED
        BY <2>1, <3>1, LearnTyped DEF DispatchPendingDirect, TInv
    <2>2. CASE Head(batch).pc # pending.pc
      BY <2>2 DEF DispatchPendingDirect, TInv, peers, fifo, PeersOK, FifoOK
    <2> QED
      BY <2>1, <2>2
  <1> QED
    BY <1>2, DispatchedTyped DEF DispatchPendingDirect, TInv, SignalsOK

LEMMA DispatchPendingFailedTyped ==
    ASSUME TInv, DispatchPendingFailed
    PROVE  TInv'
  <1>1. PeersOK'
    BY DestroyPendingTyped DEF DispatchPendingFailed, TInv, peers, PeersOK
  <1> QED
    BY <1>1, DispatchedTyped DEF DispatchPendingFailed, TInv, fifo, FifoOK, SignalsOK

LEMMA DispatchSignalTyped ==
    ASSUME TInv, DispatchSignal
    PROVE  TInv'
  <1>1. told' \in SUBSET Peers
    BY HeadTyped DEF DispatchSignal, Dispatching, TInv, SignalsOK
  <1> QED
    BY <1>1, DispatchedTyped DEF DispatchSignal, TInv, peers, fifo, PeersOK, FifoOK

LEMMA DispatchDataTyped ==
    ASSUME TInv, DispatchData
    PROVE  TInv'
  <1> DEFINE h == Head(batch).handle
  <1>1. delivered' \in [Handles -> Seq(Nat)]
    <2>1. h \in Handles /\ Head(batch).msg \in Nat
      BY HeadTyped, AttachedTyped DEF DispatchData, Dispatching, Accepts, TInv
    <2> QED
      BY <2>1 DEF DispatchData, TInv, LibraryOK
  <1>2. PeersOK' /\ FifoOK' /\ LoopOK' /\ SignalsOK' /\ FlagsOK'
    <2>1. CASE Signaling
      BY <2>1, SignalingTyped DEF TInv
    <2>2. CASE Proceed /\ UNCHANGED <<peers, fifo, video, ice, alive, signals>>
      BY <2>2, ProceedTyped
         DEF TInv, peers, fifo, signals, PeersOK, FifoOK, SignalsOK, FlagsOK
    <2> QED
      BY <2>1, <2>2 DEF DispatchData
  <1> QED
    BY <1>1, <1>2 DEF DispatchData, TInv, LibraryOK

LEMMA TurnTyped ==
    ASSUME TInv, Turn
    PROVE  TInv'
  <1>1. CASE DropData
    BY <1>1, DispatchedTyped DEF DropData, TInv, peers, fifo, PeersOK, FifoOK, SignalsOK
  <1> QED
    BY <1>1, StartTurnTyped, DetachTyped, OnDataChannelTyped, OnHandleStateTyped,
       OnIceStateChangeTyped, OnStateChangeTyped, DispatchOpenTyped, DispatchClosedTyped,
       DispatchPendingDirectTyped, DispatchPendingFailedTyped, DispatchSignalTyped,
       DispatchDataTyped DEF Turn

-----------------------------------------------------------------------------
(* The library, and the theorem.                                           *)

LEMMA LibraryTyped ==
    ASSUME TInv, Library
    PROVE  TInv'
  <1>1. ASSUME NEW p \in Peers, NEW r \in {"direct", "relay"}, LibRoute(p, r)
        PROVE  TInv'
    <2>1. FifoOK'
      BY <1>1, EventTyped, EnqueueTyped DEF LibRoute, TInv, EventTypes
    <2>2. peer' \in [Peers -> PeerStates] /\ direct' \in SUBSET Peers
      BY <1>1 DEF LibRoute, TInv, PeersOK, LibraryOK, PeerStates
    <2>3. network' \in Nat
      BY <1>1, SMT DEF LibRoute, TInv, LibraryOK
    <2> QED
      BY <1>1, <2>1, <2>2, <2>3
         DEF LibRoute, Callback, TInv, PeersOK, LoopOK, SignalsOK, FlagsOK, LibraryOK, loop, signals
  <1>2. ASSUME NEW p \in Peers, LibFails(p)
        PROVE  TInv'
    <2>1. FifoOK'
      BY <1>2, EventTyped, EnqueueTyped DEF LibFails, TInv, EventTypes
    <2>2. peer' \in [Peers -> PeerStates]
      BY <1>2 DEF LibFails, TInv, PeersOK, PeerStates
    <2>3. network' \in Nat
      BY <1>2, SMT DEF LibFails, TInv, LibraryOK
    <2> QED
      BY <1>2, <2>1, <2>2, <2>3
         DEF LibFails, Callback, TInv, PeersOK, LoopOK, SignalsOK, FlagsOK, LibraryOK, loop, signals
  <1>3. ASSUME NEW h \in Handles, LibChannel(h)
        PROVE  TInv'
    <2>1. FifoOK'
      BY <1>3, HandleEventTyped, EnqueueTyped DEF LibChannel, TInv, EventTypes
    <2>2. handle' \in [Handles -> HandleStates]
      BY <1>3 DEF LibChannel, TInv, PeersOK, HandleStates
    <2> QED
      BY <1>3, <2>1, <2>2 DEF LibChannel, Callback, external, TInv, PeersOK, LoopOK,
         SignalsOK, FlagsOK, LibraryOK, loop, signals
  <1>4. ASSUME NEW h \in Handles, LibOpens(h)
        PROVE  TInv'
    <2>1. FifoOK'
      BY <1>4, HandleEventTyped, EnqueueTyped DEF LibOpens, TInv, EventTypes
    <2> QED
      BY <1>4, <2>1 DEF LibOpens, Callback, external, TInv, PeersOK, LoopOK,
         SignalsOK, FlagsOK, LibraryOK, loop, signals
  <1>5. ASSUME NEW h \in Handles, LibCloses(h)
        PROVE  TInv'
    <2>1. FifoOK'
      BY <1>5, HandleEventTyped, EnqueueTyped DEF LibCloses, TInv, EventTypes
    <2>2. handle' \in [Handles -> HandleStates]
      BY <1>5 DEF LibCloses, TInv, PeersOK, HandleStates
    <2>3. network' \in Nat
      BY <1>5, SMT DEF LibCloses, TInv, LibraryOK
    <2> QED
      BY <1>5, <2>1, <2>2, <2>3 DEF LibCloses, Callback, TInv, PeersOK, LoopOK,
         SignalsOK, FlagsOK, LibraryOK, loop, signals
  <1>6. ASSUME NEW h \in Handles, LibMessage(h)
        PROVE  TInv'
    <2>1. sent[h] + 1 \in Nat /\ h.pc \in Peers
      BY HandleFields, SMT DEF TInv, LibraryOK
    <2>2. Event("data", h.pc, h, sent[h] + 1) \in Events
      BY <2>1 DEF Event, Events, EventTypes
    <2>3. FifoOK'
      BY <1>6, <2>2, EnqueueTyped DEF LibMessage, TInv
    <2>4. sent' \in [Handles -> Nat]
      BY <1>6, <2>1 DEF LibMessage, TInv, LibraryOK
    <2> QED
      BY <1>6, <2>3, <2>4 DEF LibMessage, Callback, external, TInv, PeersOK, LoopOK,
         SignalsOK, FlagsOK, LibraryOK, loop, signals
  <1> QED
    BY <1>1, <1>2, <1>3, <1>4, <1>5, <1>6 DEF Library

LEMMA NextTyped ==
    ASSUME TInv, [Next]_vars
    PROVE  TInv'
  <1>1. CASE Relay
    <2>1. PeersOK' /\ FifoOK' /\ LoopOK' /\ SignalsOK' /\ FlagsOK'
      BY <1>1, SignalingTyped DEF Relay, TInv
    <2> QED
      BY <1>1, <2>1 DEF Relay, TInv, LibraryOK, traffic
  <1>2. CASE SendFails
    BY <1>2 DEF SendFails, TInv, PeersOK, FifoOK, LoopOK, SignalsOK, FlagsOK, LibraryOK,
                fifo, loop, traffic, signals
  <1>3. CASE UNCHANGED vars
    BY <1>3 DEF vars, peers, fifo, loop, traffic, signals, TInv, PeersOK, FifoOK, LoopOK,
                SignalsOK, FlagsOK, LibraryOK
  <1> QED
    BY <1>1, <1>2, <1>3, TurnTyped, LibraryTyped DEF Next

LEMMA InitTyped == Init => TInv
  <1> SUFFICES ASSUME Init PROVE TInv
    OBVIOUS
  <1>1. <<>> \in Seq(Events) /\ <<>> \in Seq(Nat)
    OBVIOUS
  <1>2. PeersOK
    BY NoneTyped DEF Init, PeersOK, PeerStates, HandleStates
  <1> QED
    BY <1>1, <1>2 DEF Init, TInv, FifoOK, LoopOK, SignalsOK, FlagsOK, LibraryOK

LEMMA TInvHolds == Spec => []TInv
  BY InitTyped, NextTyped, PTL DEF Spec

(* The types hold in every state of the transport, in particular are only  *)
(* peers and handles that were given out ever queued or announced.         *)
THEOREM TypesHold == Spec => []TypeOK
  <1>1. TInv => TypeOK
    BY DEF TInv, PeersOK, FifoOK, LoopOK, SignalsOK, FlagsOK, LibraryOK, TypeOK,
           ActiveRec, PendingRec, Slot, PeerStates, HandleStates
  <1> QED
    BY <1>1, TInvHolds, PTL

-----------------------------------------------------------------------------
(* Generations and candidates.                                             *)

(* A peer in place has the generation of the offer it was created for.     *)
Owned(s) == s.pc # 0 => peerGen[s.pc] = s.gen /\ peer[s.pc] # "none"

(* The background peer is of a later generation than the active one, and   *)
(* a peer that is still to be created has no candidates.                   *)
GenInv ==
    /\ Owned(active) /\ Owned(pending)
    /\ pending.pc # 0 /\ pending.gen # 0 /\ active.gen # 0 => pending.gen > active.gen
    /\ \A a \in applied : peer[a[2]] # "none"
    /\ IceReachesItsPeer

Rises == active'.pc \notin {0, active.pc} /\ active'.gen # 0 /\ active.gen # 0
            => active'.gen > active.gen

(* Most steps keep the peers or close some; one promotes.                  *)
Stays ==
    /\ peerGen' = peerGen /\ applied' = applied
    /\ \A p \in Peers : peer[p] # "none" => peer'[p] # "none"
Kept ==
    \/ active'.pc = 0 /\ pending'.pc = 0
    \/ /\ active'.pc = active.pc /\ active'.gen = active.gen
       /\ \/ pending'.pc = pending.pc /\ pending'.gen = pending.gen
          \/ pending'.pc = 0
Promoted ==
    /\ pending.pc # 0 /\ active'.pc = pending.pc /\ active'.gen = pending.gen
    /\ pending'.pc = 0

LEMMA Numbers ==
    ASSUME PeersOK
    PROVE  /\ active.pc \in Peers \cup {0} /\ pending.pc \in Peers \cup {0}
           /\ active.gen \in Nat /\ pending.gen \in Nat
  BY DEF PeersOK, ActiveRec, PendingRec

LEMMA AppliedTyped ==
    ASSUME SignalsOK
    PROVE  \A a \in applied : a[1] \in Cands /\ a[2] \in Peers
  BY DEF SignalsOK

LEMMA GenKept ==
    ASSUME TInv, GenInv, Stays, Kept \/ Promoted
    PROVE  GenInv' /\ Rises
  <1>1. /\ active.pc \in Peers \cup {0} /\ pending.pc \in Peers \cup {0}
        /\ active.gen \in Nat /\ pending.gen \in Nat
    BY Numbers DEF TInv
  <1>2. \A a \in applied : a[2] \in Peers
    BY AppliedTyped DEF TInv
  <1>3. (\A a \in applied : peer[a[2]] # "none")' /\ IceReachesItsPeer'
    BY <1>2 DEF Stays, GenInv, IceReachesItsPeer
  <1>4. Owned(active)' /\ Owned(pending)'
    BY <1>1 DEF Stays, Kept, Promoted, GenInv, Owned
  <1> QED
    BY <1>1, <1>3, <1>4 DEF Kept, Promoted, GenInv, Rises

LEMMA DestroyPendingKept ==
    ASSUME PeersOK, DestroyPending
    PROVE  Kept /\ \A p \in Peers : peer[p] # "none" => peer'[p] # "none"
  BY NoneTyped DEF DestroyPending, Kept, Gone

LEMMA PromotePendingKept ==
    ASSUME PeersOK, PromotePending
    PROVE  /\ Kept \/ Promoted
           /\ \A p \in Peers : peer[p] # "none" => peer'[p] # "none"
  <1>1. CASE CanPromote
    BY <1>1, NoneTyped DEF PromotePending, CanPromote, Promoted, Gone
  <1>2. CASE ~CanPromote
    BY <1>2 DEF PromotePending, peers, Kept
  <1> QED
    BY <1>1, <1>2

LEMMA DestroyKept ==
    ASSUME PeersOK, Destroy
    PROVE  Kept /\ \A p \in Peers : peer[p] # "none" => peer'[p] # "none"
  <1>1. active'.pc = 0
    BY DEF Destroy, NoActive
  <1> QED
    BY <1>1, NoneTyped DEF Destroy, Kept, Gone

LEMMA PeersKept ==
    ASSUME UNCHANGED peers
    PROVE  Kept /\ \A p \in Peers : peer[p] # "none" => peer'[p] # "none"
  BY DEF peers, Kept

(* Waiting candidates go to a peer of their generation.                    *)
LEMMA FlushGen ==
    ASSUME NEW a, NEW b, Flush(a, b),
           a.pc # 0 => peerGen'[a.pc] = a.gen,
           b.pc # 0 => peerGen'[b.pc] = b.gen,
           \A x \in applied : x[1].gen \in {0, peerGen'[x[2]]} \/ peerGen'[x[2]] = 0
    PROVE  /\ IceReachesItsPeer'
           /\ \A x \in applied' : x \in applied \/ x[2] \in {a.pc, b.pc} \ {0}
  <1>1. ASSUME NEW c, Target(c, a, b) # 0
        PROVE  /\ Target(c, a, b) \in {a.pc, b.pc} \ {0}
               /\ c.gen \in {0, peerGen'[Target(c, a, b)]} \/ peerGen'[Target(c, a, b)] = 0
    BY <1>1 DEF Target
  <1>2. ASSUME NEW x \in applied', x \notin applied
        PROVE  \E c : Target(c, a, b) # 0 /\ x = <<c, Target(c, a, b)>>
    BY <1>2 DEF Flush
  <1> QED
    BY <1>1, <1>2 DEF IceReachesItsPeer

LEMMA LatestBounds ==
    ASSUME PeersOK
    PROVE  Latest \in Nat /\ Latest >= active.gen /\ Latest >= pending.gen
  BY Numbers DEF Latest

LEMMA FreshFacts ==
    ASSUME TInv, GenInv, NEW p \in Peers, Fresh(p)
    PROVE  p # 0 /\ active.pc # p /\ pending.pc # p /\ \A a \in applied : a[2] # p
  BY ZeroIsNoPeer DEF Fresh, GenInv, Owned

(* What an offer taken for a new peer p makes of the peers' states.        *)
LEMMA NewPeer ==
    ASSUME TInv, NEW p \in Peers, NEW g \in Nat, NEW ps,
           peer' = [Gone(ps) EXCEPT ![p] = "checking"],
           peerGen' = [peerGen EXCEPT ![p] = g]
    PROVE  /\ peer'[p] # "none" /\ peerGen'[p] = g
           /\ \A q \in Peers \ {p} : peerGen'[q] = peerGen[q]
           /\ \A q \in Peers : peer[q] # "none" => peer'[q] # "none"
  <1>1. peer \in [Peers -> PeerStates] /\ peerGen \in [Peers -> Nat]
    BY DEF TInv, PeersOK, SignalsOK
  <1>2. Gone(ps) \in [Peers -> PeerStates]
    BY <1>1, GoneTyped
  <1>3. peer' = [q \in Peers |-> IF q = p THEN "checking" ELSE Gone(ps)[q]]
    BY <1>2
  <1>4. \A q \in Peers : peer[q] # "none" => peer'[q] # "none"
    BY <1>3 DEF Gone
  <1> QED
    BY <1>1, <1>3, <1>4

(* The candidates added so far still match once a peer is new.             *)
LEMMA OldApplied ==
    ASSUME TInv, GenInv, NEW p \in Peers, Fresh(p),
           \A q \in Peers \ {p} : peerGen'[q] = peerGen[q]
    PROVE  \A x \in applied : x[1].gen \in {0, peerGen'[x[2]]} \/ peerGen'[x[2]] = 0
  <1>1. \A x \in applied : x[2] \in Peers \ {p}
    BY FreshFacts, AppliedTyped DEF TInv
  <1> QED
    BY <1>1 DEF GenInv, IceReachesItsPeer

LEMMA OfferPendingGen ==
    ASSUME TInv, GenInv, NEW g \in Gens, NEW p \in Peers, NEW track,
           ~Stale(g), Fresh(p), OfferPending(g, p, track)
    PROVE  GenInv' /\ Rises
  <1>1. g \in Nat
    BY PeerAssumption
  <1>2. /\ active' = active
        /\ pending'.pc = p /\ pending'.gen = g
    BY DEF OfferPending, NoPending
  <1>3. /\ peer'[p] # "none" /\ peerGen'[p] = g
        /\ \A q \in Peers \ {p} : peerGen'[q] = peerGen[q]
        /\ \A q \in Peers : peer[q] # "none" => peer'[q] # "none"
    BY <1>1, NewPeer DEF OfferPending
  <1>4. active.pc \in Peers \cup {0} /\ active.gen \in Nat
    BY Numbers DEF TInv
  <1>5. Owned(active)' /\ Owned(pending)'
    BY <1>2, <1>3, <1>4, FreshFacts DEF Owned, GenInv
  <1>6. /\ IceReachesItsPeer'
        /\ \A x \in applied' : x \in applied \/ x[2] \in {active.pc, p} \ {0}
    <2>1. Flush(active, pending')
      BY DEF OfferPending
    <2>2. /\ active.pc # 0 => peerGen'[active.pc] = active.gen
          /\ pending'.pc # 0 => peerGen'[pending'.pc] = pending'.gen
      BY <1>2, <1>5 DEF Owned
    <2> QED
      BY <1>2, <1>3, <2>1, <2>2, FlushGen, OldApplied
  <1>7. \A x \in applied' : peer'[x[2]] # "none"
    <2>1. \A x \in applied : x[2] \in Peers /\ peer[x[2]] # "none"
      BY AppliedTyped DEF TInv, GenInv
    <2>2. active.pc # 0 => peer'[active.pc] # "none"
      BY <1>2, <1>5 DEF Owned
    <2> QED
      BY <1>3, <1>6, <2>1, <2>2
  <1>8. g # 0 /\ active.gen # 0 => g > active.gen
    BY <1>1, <1>4, LatestBounds DEF Stale, TInv
  <1> QED
    BY <1>2, <1>5, <1>6, <1>7, <1>8 DEF GenInv, Rises

LEMMA OfferActiveGen ==
    ASSUME TInv, GenInv, NEW g \in Gens, NEW p \in Peers, NEW track,
           ~Stale(g), Fresh(p), OfferActive(g, p, track)
    PROVE  GenInv' /\ Rises
  <1>1. g \in Nat
    BY PeerAssumption
  <1>2. active'.pc = p /\ active'.gen = g /\ pending'.pc = 0
    BY NoneTyped DEF OfferActive
  <1>3. /\ peer'[p] # "none" /\ peerGen'[p] = g
        /\ \A q \in Peers \ {p} : peerGen'[q] = peerGen[q]
        /\ \A q \in Peers : peer[q] # "none" => peer'[q] # "none"
    BY <1>1, NewPeer DEF OfferActive
  <1>4. Owned(active)' /\ Owned(pending)'
    BY <1>2, <1>3 DEF Owned
  <1>5. /\ IceReachesItsPeer'
        /\ \A x \in applied' : x \in applied \/ x[2] \in {p, 0} \ {0}
    <2>1. Flush(active', NoPending)
      BY DEF OfferActive
    <2> QED
      BY <1>2, <1>3, <2>1, NoneTyped, FlushGen, OldApplied
  <1>6. \A x \in applied' : peer'[x[2]] # "none"
    <2>1. \A x \in applied : x[2] \in Peers /\ peer[x[2]] # "none"
      BY AppliedTyped DEF TInv, GenInv
    <2> QED
      BY <1>3, <1>5, <2>1
  <1>7. g # 0 /\ active.gen # 0 => g > active.gen
    BY <1>1, Numbers, LatestBounds DEF Stale, TInv
  <1> QED
    BY <1>2, <1>4, <1>5, <1>6, <1>7 DEF GenInv, Rises

LEMMA HandleOfferGen ==
    ASSUME TInv, GenInv, NEW g \in Gens, NEW bg \in BOOLEAN, NEW v, NEW track \in BOOLEAN,
           HandleOffer(g, bg, v, track)
    PROVE  GenInv' /\ Rises
  <1>1. CASE DropOffer(g)
    BY <1>1, PeersKept, GenKept DEF DropOffer, Stays
  <1>2. CASE OfferPendingFails
    BY <1>2, DestroyPendingKept, GenKept DEF OfferPendingFails, Stays, TInv
  <1>3. ASSUME NEW described \in BOOLEAN, OfferActiveFails(g, described)
        PROVE  GenInv' /\ Rises
    <2>1. active'.pc = 0 /\ pending'.pc = 0
      BY <1>3 DEF OfferActiveFails, NoActive, NoPending
    <2>2. Stays
      BY <1>3 DEF OfferActiveFails, Stays, Gone
    <2> QED
      BY <2>1, <2>2, GenKept DEF Kept
  <1> QED
    BY <1>1, <1>2, <1>3, OfferPendingGen, OfferActiveGen DEF HandleOffer

LEMMA HandleIceGen ==
    ASSUME TInv, GenInv, NEW c \in Cands, HandleIceCandidate(c)
    PROVE  GenInv' /\ Rises
  <1>1. UNCHANGED <<active, pending, peer, peerGen>>
    BY DEF HandleIceCandidate, peers
  <1>2. AddsTo(c) # 0 =>
          /\ peer[AddsTo(c)] # "none"
          /\ c.gen \in {0, peerGen[AddsTo(c)]}
    BY DEF AddsTo, GenInv, Owned
  <1>3. \A x \in applied' : x \in applied \/ (AddsTo(c) # 0 /\ x = <<c, AddsTo(c)>>)
    BY DEF HandleIceCandidate
  <1>4. (\A x \in applied : peer[x[2]] # "none")' /\ IceReachesItsPeer'
    BY <1>1, <1>2, <1>3 DEF GenInv, IceReachesItsPeer
  <1> QED
    BY <1>1, <1>4 DEF GenInv, Owned, Rises

LEMMA SignalingGen ==
    ASSUME TInv, GenInv, Signaling
    PROVE  GenInv' /\ Rises
  <1>1. ASSUME NEW g, CommitPending(g)
        PROVE  GenInv' /\ Rises
    <2>1. /\ Kept \/ Promoted
          /\ \A p \in Peers : peer[p] # "none" => peer'[p] # "none"
      BY <1>1, PromotePendingKept, PeersKept DEF CommitPending, TInv
    <2> QED
      BY <1>1, <2>1, GenKept DEF CommitPending, signals, Stays
  <1>2. CASE Clear
    BY <1>2, DestroyKept, GenKept DEF Clear, signals, Stays, TInv
  <1> QED
    BY <1>1, <1>2, HandleOfferGen, HandleIceGen DEF Signaling

(* A step of the loop on an event other than a message.                    *)
LEMMA DispatchedGen ==
    ASSUME TInv, GenInv, Dispatched, Kept \/ Promoted,
           \A p \in Peers : peer[p] # "none" => peer'[p] # "none"
    PROVE  GenInv' /\ Rises
  BY GenKept DEF Dispatched, Stays

LEMMA OnDataChannelKept ==
    ASSUME PeersOK, OnDataChannel
    PROVE  Kept /\ peer' = peer
  <1> DEFINE h == Head(batch).handle
  <1>1. /\ Attach(pending, h).pc = pending.pc /\ Attach(pending, h).gen = pending.gen
        /\ Attach(active, h).pc = active.pc /\ Attach(active, h).gen = active.gen
    BY DEF PeersOK, ActiveRec, PendingRec, Attach
  <1>2. /\ active' \in {active, Attach(active, h)}
        /\ pending' \in {pending, Attach(pending, h)}
        /\ peer' = peer
    BY DEF OnDataChannel
  <1> HIDE DEF h
  <1> QED
    BY <1>1, <1>2 DEF Kept

LEMMA LearnKept ==
    ASSUME PeersOK, NEW s \in PendingRec, s.pc = pending.pc, s.gen = pending.gen, Learn(s)
    PROVE  Kept /\ peer' = peer
  <1>1. pending'.pc = s.pc /\ pending'.gen = s.gen
    BY DEF Learn, PendingRec
  <1> QED
    BY <1>1 DEF Learn, Kept

LEMMA DispatchOpenKept ==
    ASSUME PeersOK, DispatchOpen
    PROVE  Kept /\ peer' = peer
  <1> DEFINE h == Head(batch).handle
             s == IF h.kind = "data" THEN [pending EXCEPT !.dataOpen = TRUE]
                                     ELSE [pending EXCEPT !.videoOpen = TRUE]
  <1>1. CASE h = pending.slot[h.kind] /\ h.kind # "input"
    <2>1. Learn(s)
      BY <1>1 DEF DispatchOpen
    <2>2. s \in PendingRec /\ s.pc = pending.pc /\ s.gen = pending.gen
      BY DEF PeersOK, PendingRec
    <2> HIDE DEF s
    <2> QED
      BY <2>1, <2>2, LearnKept
  <1>2. CASE ~(h = pending.slot[h.kind] /\ h.kind # "input")
    BY <1>2 DEF DispatchOpen, Kept
  <1> QED
    BY <1>1, <1>2

LEMMA DispatchPendingDirectKept ==
    ASSUME PeersOK, DispatchPendingDirect
    PROVE  Kept /\ peer' = peer
  <1> DEFINE s == [pending EXCEPT !.direct = TRUE]
  <1>1. CASE Head(batch).pc = pending.pc
    <2>1. s \in PendingRec /\ s.pc = pending.pc /\ s.gen = pending.gen
      BY DEF PeersOK, PendingRec
    <2>2. Learn(s)
      BY <1>1 DEF DispatchPendingDirect
    <2> HIDE DEF s
    <2> QED
      BY <2>1, <2>2, LearnKept
  <1>2. CASE Head(batch).pc # pending.pc
    BY <1>2 DEF DispatchPendingDirect, peers, Kept
  <1> QED
    BY <1>1, <1>2

LEMMA DispatchClosedKept ==
    ASSUME PeersOK, DispatchClosed
    PROVE  /\ Kept \/ Promoted
           /\ \A p \in Peers : peer[p] # "none" => peer'[p] # "none"
  <1> DEFINE h == Head(batch).handle
  <1>1. /\ Detached(pending, h).pc = pending.pc /\ Detached(pending, h).gen = pending.gen
        /\ Detached(active, h).pc = active.pc /\ Detached(active, h).gen = active.gen
    BY DEF Detached
  <1>2. CASE h = pending.slot[h.kind] /\ h.kind = "input"
    BY <1>1, <1>2 DEF DispatchClosed, Kept
  <1>3. CASE h = pending.slot[h.kind] /\ h.kind # "input"
    BY <1>3, DestroyPendingKept DEF DispatchClosed
  <1>4. CASE h # pending.slot[h.kind] /\ h # active.slot[h.kind]
    BY <1>4, PeersKept DEF DispatchClosed
  <1>5. CASE h # pending.slot[h.kind] /\ h = active.slot[h.kind]
    <2>1. CASE h.kind = "data" /\ pending.signaled /\ Ready
      BY <1>5, <2>1, PromotePendingKept DEF DispatchClosed, ActiveLost
    <2>2. CASE ~(h.kind = "data" /\ pending.signaled /\ Ready)
      BY <1>1, <1>5, <2>2 DEF DispatchClosed, ActiveLost, Kept
    <2> QED
      BY <2>1, <2>2
  <1> QED
    BY <1>2, <1>3, <1>4, <1>5

LEMMA TurnGen ==
    ASSUME TInv, GenInv, Turn
    PROVE  GenInv' /\ Rises
  <1>1. CASE StartTurn
    <2>1. CASE Destroy
      BY <1>1, <2>1, DestroyKept, GenKept DEF StartTurn, signals, Stays, TInv
    <2>2. CASE UNCHANGED peers
      BY <1>1, <2>2, PeersKept, GenKept DEF StartTurn, signals, Stays
    <2> QED
      BY <1>1, <2>1, <2>2 DEF StartTurn, peers
  <1>2. CASE Detach
    BY <1>2, PeersKept, GenKept DEF Detach, signals, Stays
  <1>3. CASE OnDataChannel
    BY <1>3, OnDataChannelKept, DispatchedGen DEF OnDataChannel, TInv
  <1>4. CASE OnHandleState \/ OnIceStateChange \/ OnStateChange \/ DispatchSignal \/ DropData
    BY <1>4, PeersKept, DispatchedGen
       DEF OnHandleState, OnIceStateChange, OnStateChange, DispatchSignal, DropData, peers
  <1>5. CASE DispatchOpen
    BY <1>5, DispatchOpenKept, DispatchedGen DEF DispatchOpen, TInv
  <1>6. CASE DispatchClosed
    BY <1>6, DispatchClosedKept, DispatchedGen DEF DispatchClosed, TInv
  <1>7. CASE DispatchPendingDirect
    BY <1>7, DispatchPendingDirectKept, DispatchedGen DEF DispatchPendingDirect, TInv
  <1>8. CASE DispatchPendingFailed
    BY <1>8, DestroyPendingKept, PeersKept, DispatchedGen DEF DispatchPendingFailed, TInv
  <1>9. CASE DispatchData
    <2>1. CASE Signaling
      BY <2>1, SignalingGen
    <2>2. CASE UNCHANGED <<peers, signals>>
      BY <2>2, PeersKept, GenKept DEF signals, Stays
    <2> QED
      BY <1>9, <2>1, <2>2 DEF DispatchData
  <1> QED
    BY <1>1, <1>2, <1>3, <1>4, <1>5, <1>6, <1>7, <1>8, <1>9 DEF Turn

LEMMA LibraryGen ==
    ASSUME TInv, GenInv, Library
    PROVE  GenInv' /\ Rises
  <1>1. UNCHANGED <<active, pending, signals>>
    BY DEF Library, LibRoute, LibFails, LibChannel, LibOpens, LibCloses, LibMessage, Callback
  <1>2. \A p \in Peers : peer[p] # "none" => peer'[p] # "none"
    BY DEF Library, LibRoute, LibFails, LibChannel, LibOpens, LibCloses, LibMessage,
           external, TInv, PeersOK
  <1> QED
    BY <1>1, <1>2, GenKept DEF signals, Stays, Kept

LEMMA NextGen ==
    ASSUME TInv, GenInv, [Next]_vars
    PROVE  GenInv' /\ Rises
  <1>1. CASE Relay
    BY <1>1, SignalingGen DEF Relay
  <1>2. CASE SendFails
    BY <1>2, GenKept DEF SendFails, signals, Stays, Kept
  <1>3. CASE UNCHANGED vars
    BY <1>3, PeersKept, GenKept DEF vars, signals, Stays
  <1> QED
    BY <1>1, <1>2, <1>3, TurnGen, LibraryGen DEF Next

LEMMA GenInvHolds == Spec => []GenInv
  <1>1. Init => GenInv
    BY DEF Init, NoActive, NoPending, GenInv, Owned, IceReachesItsPeer
  <1> QED
    BY <1>1, TInvHolds, NextGen, PTL DEF Spec

(* A candidate never reaches a peer of another generation, whatever        *)
(* overtakes what (DirectGate_WebRTC_HandleIceCandidate, _FlushPendingIce).*)
THEOREM CandidatesReachTheirPeer == Spec => []IceReachesItsPeer
  <1>1. GenInv => IceReachesItsPeer
    BY DEF GenInv
  <1> QED
    BY <1>1, GenInvHolds, PTL

(* Two active peers in a row have rising generations, if both are numbered *)
(* (DirectGate_WebRTC_HandleOffer, _PromotePending).                       *)
THEOREM EpochsRise == Spec => GenerationsRise
  <1>1. TInv /\ GenInv /\ [Next]_vars
          => [active'.pc \notin {0, active.pc} /\ active'.gen # 0 /\ active.gen # 0
                => active'.gen > active.gen]_vars
    BY NextGen DEF Rises
  <1> QED
    BY <1>1, TInvHolds, GenInvHolds, PTL DEF Spec, GenerationsRise

-----------------------------------------------------------------------------
(* What is where.                                                          *)

Holds(s, h) == h.kind \in Kinds /\ s.slot[h.kind] = h

(* A slot holds a handle of its own peer and kind, and video the track that *)
(* the offer made.                                                          *)
InPlace(s) ==
    \A k \in Kinds : s.slot[k] # NoHandle =>
        /\ s.slot[k].kind = k /\ s.slot[k].pc = s.pc
        /\ k = "video" => s.slot[k] = VideoTrack(s.pc)

(* Everything of the library that is not closed is in one place.            *)
PlacesInv ==
    /\ InPlace(active) /\ InPlace(pending)
    /\ active.pc # 0 => active.pc # pending.pc
    /\ \A p \in Peers : peer[p] \notin {"none", "gone"} <=> p \in {active.pc, pending.pc}
    /\ \A h \in Handles :
         handle[h] \in {"hooked", "shut"} <=> Holds(active, h) \/ Holds(pending, h)

SameIncoming == \A h \in Handles : handle'[h] = "incoming" <=> handle[h] = "incoming"
NoneIncoming == \A h \in Handles : handle'[h] # "incoming"
AllClosed == active'.pc = 0 /\ pending'.pc = 0

LEMMA KindsOf ==
    /\ \A h \in Handles : h.kind \in Kinds \cup {"other"} /\ h.pc \in Peers /\ h # NoHandle
    /\ NoHandle.kind \notin Kinds /\ NoHandle.pc = 0 /\ 0 \notin Peers
    /\ "data" \in Kinds /\ "input" \in Kinds /\ "video" \in Kinds
  BY HandleFields, ZeroIsNoPeer DEF Handles, Kinds, NoHandle

LEMMA SlotsTyped ==
    ASSUME PeersOK
    PROVE  /\ active.slot \in Slot /\ pending.slot \in Slot
           /\ active.pc \in Peers \cup {0} /\ pending.pc \in Peers \cup {0}
           /\ peer \in [Peers -> PeerStates] /\ handle \in [Handles -> HandleStates]
  BY DEF PeersOK, ActiveRec, PendingRec

LEMMA HoldsIs ==
    ASSUME NEW s, s.slot \in Slot, InPlace(s), NEW h \in Handles
    PROVE  /\ h \in Slots(s) <=> Holds(s, h)
           /\ Holds(s, h) => h.pc = s.pc
  <1>1. ASSUME NEW k \in Kinds, s.slot[k] = h
        PROVE  h.kind = k /\ h.pc = s.pc
    BY <1>1, KindsOf DEF InPlace
  <1> QED BY <1>1, KindsOf DEF Slots, Holds

LEMMA AttachedIs ==
    ASSUME PeersOK, PlacesInv, NEW h \in Handles
    PROVE  /\ Attached(h) <=> Holds(active, h) \/ Holds(pending, h)
           /\ Holds(active, h) => h.pc = active.pc /\ active.pc # 0 /\ ~Holds(pending, h)
           /\ Holds(pending, h) => h.pc = pending.pc /\ pending.pc # 0 /\ ~Holds(active, h)
  BY SlotsTyped, HoldsIs, KindsOf DEF PlacesInv, Attached

LEMMA NoPlace ==
    /\ InPlace(NoPending) /\ InPlace(NoActive)
    /\ NoPending.pc = 0 /\ NoActive.pc = 0
    /\ \A h \in Handles : ~Holds(NoPending, h) /\ ~Holds(NoActive, h)
    /\ NoPending.slot = NoSlots /\ NoActive.slot = NoSlots
  BY KindsOf DEF NoPending, NoActive, NoSlots, InPlace, Holds

LEMMA GoneIs ==
    ASSUME peer \in [Peers -> PeerStates], NEW ps
    PROVE  \A p \in Peers : Gone(ps)[p] = IF p \in ps THEN "gone" ELSE peer[p]
  BY DEF Gone

LEMMA ClosedIs ==
    ASSUME NEW hs
    PROVE  \A h \in Handles : Closed(hs)[h] = IF h \in hs THEN "gone" ELSE handle[h]
  BY DEF Closed

-----------------------------------------------------------------------------
(* Closing and promoting keep everything in its place.                     *)

LEMMA PeersUnchanged ==
    ASSUME PlacesInv, UNCHANGED peers
    PROVE  PlacesInv' /\ SameIncoming
  <1>1. /\ active' = active /\ pending' = pending /\ peer' = peer /\ handle' = handle
    BY DEF peers
  <1> QED BY <1>1 DEF PlacesInv, InPlace, Holds, SameIncoming

LEMMA DestroyPendingPlaces ==
    ASSUME PeersOK, PlacesInv, DestroyPending
    PROVE  PlacesInv' /\ SameIncoming
  <1>1. /\ pending' = NoPending /\ active' = active
        /\ peer' = Gone({pending.pc}) /\ handle' = Closed(Slots(pending))
    BY DEF DestroyPending
  <1>2. \A h \in Handles : h \in Slots(pending) <=> Holds(pending, h)
    BY SlotsTyped, HoldsIs DEF PlacesInv
  <1>3. InPlace(active)' /\ InPlace(pending)'
    BY <1>1, NoPlace DEF PlacesInv, InPlace
  <1>4. ASSUME NEW p \in Peers
        PROVE  peer'[p] \notin {"none", "gone"} <=> p \in {active'.pc, pending'.pc}
    BY <1>1, NoPlace, KindsOf, SlotsTyped, GoneIs DEF PlacesInv
  <1>5. ASSUME NEW h \in Handles
        PROVE  /\ handle'[h] \in {"hooked", "shut"} <=> Holds(active', h) \/ Holds(pending', h)
               /\ handle'[h] = "incoming" <=> handle[h] = "incoming"
    BY <1>1, <1>2, NoPlace, ClosedIs, AttachedIs DEF PlacesInv
  <1>6. active'.pc # 0 => active'.pc # pending'.pc
    BY <1>1, NoPlace
  <1> QED BY <1>3, <1>4, <1>5, <1>6 DEF PlacesInv, SameIncoming

LEMMA PromotePendingPlaces ==
    ASSUME PeersOK, PlacesInv, PromotePending
    PROVE  PlacesInv' /\ SameIncoming
  <1>1. CASE ~CanPromote
    BY <1>1, PeersUnchanged DEF PromotePending
  <1>2. CASE CanPromote
    <2>1. /\ active' = [pc |-> pending.pc, gen |-> pending.gen, slot |-> pending.slot]
          /\ pending' = NoPending
          /\ handle' = Closed(Slots(active)) /\ peer' = Gone({active.pc})
          /\ pending.pc # 0
      BY <1>2 DEF PromotePending, CanPromote
    <2>2. \A h \in Handles : h \in Slots(active) <=> Holds(active, h)
      BY SlotsTyped, HoldsIs DEF PlacesInv
    <2>3. active'.pc = pending.pc /\ active'.slot = pending.slot
      BY <2>1
    <2>4. InPlace(active)' /\ InPlace(pending)'
      BY <2>1, <2>3, NoPlace DEF PlacesInv, InPlace
    <2>5. ASSUME NEW p \in Peers
          PROVE  peer'[p] \notin {"none", "gone"} <=> p \in {active'.pc, pending'.pc}
      BY <2>1, <2>3, NoPlace, KindsOf, SlotsTyped, GoneIs DEF PlacesInv
    <2>6. ASSUME NEW h \in Handles
          PROVE  /\ handle'[h] \in {"hooked", "shut"} <=> Holds(active', h) \/ Holds(pending', h)
                 /\ handle'[h] = "incoming" <=> handle[h] = "incoming"
      <3>1. (Holds(active', h) <=> Holds(pending, h)) /\ ~Holds(pending', h)
        BY <2>1, <2>3, NoPlace DEF Holds
      <3>2. handle'[h] = IF Holds(active, h) THEN "gone" ELSE handle[h]
        BY <2>1, <2>2, ClosedIs
      <3> QED BY <3>1, <3>2, AttachedIs DEF PlacesInv
    <2>7. active'.pc # 0 => active'.pc # pending'.pc
      BY <2>1, NoPlace
    <2> QED BY <2>4, <2>5, <2>6, <2>7 DEF PlacesInv, SameIncoming
  <1> QED BY <1>1, <1>2

-----------------------------------------------------------------------------
(* The events that are on their way, in order.                             *)

Stream == batch \o queue
All(S) == {S[i] : i \in 1 .. Len(S)}
Drops(S, T) == Len(S) = Len(T) + 1 /\ \A i \in 1 .. Len(T) : T[i] = S[i + 1]
Adds(S, T, e) == Len(T) = Len(S) + 1 /\ T[Len(T)] = e /\ \A i \in 1 .. Len(S) : T[i] = S[i]

LEMMA SeqOf ==
    ASSUME NEW S \in Seq(Events)
    PROVE  /\ Len(S) \in Nat /\ DOMAIN S = 1 .. Len(S)
           /\ \A i \in 1 .. Len(S) : S[i] \in Events
           /\ S # <<>> => Len(S) >= 1 /\ Head(S) = S[1] /\ Tail(S) \in Seq(Events)
           /\ S = <<>> <=> Len(S) = 0
  BY ElementOfSeq

LEMMA Joined ==
    ASSUME NEW S \in Seq(Events), NEW T \in Seq(Events)
    PROVE  /\ S \o T \in Seq(Events) /\ Len(S \o T) = Len(S) + Len(T)
           /\ \A i \in 1 .. Len(S \o T) :
                (S \o T)[i] = IF i <= Len(S) THEN S[i] ELSE T[i - Len(S)]
  BY ConcatProperties

LEMMA JoinedAdds ==
    ASSUME NEW S \in Seq(Events), NEW T \in Seq(Events), NEW e \in Events
    PROVE  Adds(S \o T, S \o Append(T, e), e) /\ Append(T, e) \in Seq(Events)
  <1>1. /\ Append(T, e) \in Seq(Events) /\ Len(Append(T, e)) = Len(T) + 1
        /\ \A i \in 1 .. Len(T) : Append(T, e)[i] = T[i]
        /\ Append(T, e)[Len(T) + 1] = e
    BY AppendProperties
  <1> DEFINE U == Append(T, e)
  <1> HIDE DEF U
  <1>2. /\ U \in Seq(Events) /\ Len(U) = Len(T) + 1
        /\ \A i \in 1 .. Len(T) : U[i] = T[i]
        /\ U[Len(T) + 1] = e
    BY <1>1 DEF U
  <1>3. /\ Len(S) \in Nat /\ Len(T) \in Nat
        /\ Len(S \o T) = Len(S) + Len(T) /\ Len(S \o U) = Len(S) + Len(T) + 1
    <2>1. Len(S) \in Nat /\ Len(T) \in Nat /\ Len(U) = Len(T) + 1
      BY <1>2, SeqOf
    <2>2. Len(S \o T) = Len(S) + Len(T) /\ Len(S \o U) = Len(S) + Len(U)
      BY <1>2, Joined
    <2> QED BY <2>1, <2>2
  <1>4. ASSUME NEW i \in 1 .. Len(S \o T)
        PROVE  (S \o U)[i] = (S \o T)[i]
    <2>1. i \in 1 .. Len(S \o U) /\ i \in Nat /\ i <= Len(S) + Len(T)
      BY <1>3
    <2>2. /\ (S \o U)[i] = IF i <= Len(S) THEN S[i] ELSE U[i - Len(S)]
          /\ (S \o T)[i] = IF i <= Len(S) THEN S[i] ELSE T[i - Len(S)]
      BY <1>2, <2>1, Joined
    <2>3. i > Len(S) => i - Len(S) \in 1 .. Len(T)
      BY <1>3, <2>1
    <2> QED BY <1>2, <1>3, <2>1, <2>2, <2>3
  <1>5. (S \o U)[Len(S \o U)] = e
    <2>1. Len(S \o U) \in 1 .. Len(S \o U) /\ Len(S \o U) > Len(S)
          /\ Len(S \o U) - Len(S) = Len(T) + 1
      BY <1>3
    <2>2. (S \o U)[Len(S \o U)] = U[Len(S \o U) - Len(S)]
      BY <1>2, <1>3, <2>1, Joined
    <2> QED BY <1>2, <2>1, <2>2
  <1> QED BY <1>2, <1>3, <1>4, <1>5 DEF Adds, U

LEMMA JoinedDrops ==
    ASSUME NEW S \in Seq(Events), NEW T \in Seq(Events), S # <<>>
    PROVE  Drops(S \o T, Tail(S) \o T) /\ (S \o T)[1] = Head(S)
           /\ Head(S) \in Events
  <1> DEFINE U == Tail(S)
  <1>1. /\ U \in Seq(Events) /\ Len(S) = Len(U) + 1
        /\ \A i \in 1 .. Len(U) : U[i] = S[i + 1]
        /\ Len(U) \in Nat /\ Len(T) \in Nat /\ Head(S) = S[1] /\ S[1] \in Events
    BY SeqOf, HeadTailProperties
  <1> HIDE DEF U
  <1>2. Len(S \o T) = Len(S) + Len(T) /\ Len(U \o T) = Len(U) + Len(T)
    BY <1>1, Joined
  <1>3. ASSUME NEW i \in 1 .. Len(U \o T)
        PROVE  (U \o T)[i] = (S \o T)[i + 1]
    <2>1. i + 1 \in 1 .. Len(S \o T) /\ i \in Nat
      BY <1>1, <1>2
    <2>2. /\ (U \o T)[i] = IF i <= Len(U) THEN U[i] ELSE T[i - Len(U)]
          /\ (S \o T)[i + 1] = IF i + 1 <= Len(S) THEN S[i + 1] ELSE T[i + 1 - Len(S)]
      BY <1>1, <2>1, Joined
    <2>3. CASE i <= Len(U)
      BY <1>1, <2>1, <2>2, <2>3
    <2>4. CASE i > Len(U)
      <3>1. i + 1 - Len(S) = i - Len(U) /\ ~(i + 1 <= Len(S)) /\ ~(i <= Len(U))
        BY <1>1, <2>1, <2>4
      <3> QED BY <2>2, <3>1
    <2> QED BY <1>1, <2>1, <2>3, <2>4
  <1>4. (S \o T)[1] = Head(S)
    <2>1. 1 \in 1 .. Len(S \o T) /\ 1 <= Len(S)
      BY <1>1, <1>2
    <2> QED BY <1>1, <2>1, Joined
  <1> QED BY <1>1, <1>2, <1>3, <1>4 DEF Drops, U

LEMMA StreamTyped ==
    ASSUME FifoOK, LoopOK
    PROVE  Stream \in Seq(Events) /\ Len(Stream) \in Nat
  BY Joined, SeqOf DEF FifoOK, LoopOK, Stream

LEMMA AllOf ==
    ASSUME FifoOK, LoopOK
    PROVE  /\ \A h : h \in Notified(queue) \cup Notified(batch)
                 <=> \E e \in All(Stream) : e.type = "channel" /\ e.handle = h
           /\ \A e : e \in All(Stream)
                 <=> \/ \E i \in DOMAIN batch : e = batch[i]
                     \/ \E i \in DOMAIN queue : e = queue[i]
  <1> DEFINE m == Len(batch)
             n == Len(queue)
  <1>1. /\ batch \in Seq(Events) /\ queue \in Seq(Events)
        /\ DOMAIN batch = 1 .. m /\ DOMAIN queue = 1 .. n /\ m \in Nat /\ n \in Nat
    BY SeqOf DEF FifoOK, LoopOK
  <1>2. /\ Len(Stream) = m + n
        /\ \A i \in 1 .. Len(Stream) : Stream[i] = IF i <= m THEN batch[i] ELSE queue[i - m]
    BY <1>1, Joined DEF Stream
  <1> HIDE DEF m, n
  <1>3. ASSUME NEW i \in 1 .. m PROVE batch[i] \in All(Stream)
    <2>1. i \in 1 .. Len(Stream) /\ i <= m
      BY <1>1, <1>2
    <2> QED BY <1>2, <2>1 DEF All
  <1>4. ASSUME NEW i \in 1 .. n PROVE queue[i] \in All(Stream)
    <2>1. i + m \in 1 .. Len(Stream) /\ ~(i + m <= m) /\ (i + m) - m = i
      BY <1>1, <1>2
    <2>2. Stream[i + m] = queue[i]
      BY <1>2, <2>1
    <2> QED BY <2>1, <2>2 DEF All
  <1>5. ASSUME NEW e \in All(Stream)
        PROVE  (\E i \in 1 .. m : e = batch[i]) \/ (\E i \in 1 .. n : e = queue[i])
    <2>1. PICK i \in 1 .. Len(Stream) : e = Stream[i]
      BY DEF All
    <2>2. i > m => i - m \in 1 .. n
      BY <1>1, <1>2, <2>1
    <2>3. i <= m => i \in 1 .. m
      BY <1>1, <1>2, <2>1
    <2> QED BY <1>1, <1>2, <2>1, <2>2, <2>3
  <1>6. \A e : e \in All(Stream)
            <=> (\E i \in 1 .. m : e = batch[i]) \/ (\E i \in 1 .. n : e = queue[i])
    BY <1>3, <1>4, <1>5
  <1>7. \A h : h \in Notified(queue) \cup Notified(batch)
            <=> \E e \in All(Stream) : e.type = "channel" /\ e.handle = h
    <2>1. \A h : h \in Notified(queue) <=> \E i \in 1 .. n : queue[i].type = "channel" /\ queue[i].handle = h
      BY <1>1 DEF Notified
    <2>2. \A h : h \in Notified(batch) <=> \E i \in 1 .. m : batch[i].type = "channel" /\ batch[i].handle = h
      BY <1>1 DEF Notified
    <2> QED BY <1>6, <2>1, <2>2
  <1> QED BY <1>1, <1>6, <1>7

(* What a step of the loop or of the library does to it.                    *)
LEMMA AllDrops ==
    ASSUME NEW S, NEW T, Len(S) \in Nat, Len(T) \in Nat, Drops(S, T)
    PROVE  All(S) = All(T) \cup {S[1]}
  <1>1. ASSUME NEW i \in 1 .. Len(T) PROVE T[i] \in All(S)
    <2>1. i + 1 \in 1 .. Len(S)
      BY DEF Drops
    <2> QED BY <2>1 DEF Drops, All
  <1>2. ASSUME NEW i \in 1 .. Len(S), i # 1 PROVE S[i] \in All(T)
    <2>1. i - 1 \in 1 .. Len(T) /\ (i - 1) + 1 = i
      BY <1>2 DEF Drops
    <2>2. T[i - 1] = S[i]
      BY <2>1 DEF Drops
    <2> QED BY <2>1, <2>2 DEF All
  <1>3. S[1] \in All(S)
    BY DEF Drops, All
  <1> QED BY <1>1, <1>2, <1>3 DEF All

LEMMA AllAdds ==
    ASSUME NEW S, NEW T, NEW e, Len(S) \in Nat, Adds(S, T, e)
    PROVE  All(T) = All(S) \cup {e}
  <1>1. ASSUME NEW i \in 1 .. Len(S) PROVE S[i] \in All(T)
    <2>1. i \in 1 .. Len(T)
      BY DEF Adds
    <2> QED BY <2>1 DEF Adds, All
  <1>2. ASSUME NEW i \in 1 .. Len(T) PROVE T[i] \in All(S) \cup {e}
    <2>1. i \in 1 .. Len(S) \/ i = Len(T)
      BY DEF Adds
    <2> QED BY <2>1 DEF Adds, All
  <1>3. e \in All(T)
    <2>1. Len(T) \in 1 .. Len(T)
      BY DEF Adds
    <2> QED BY <2>1 DEF Adds, All
  <1> QED BY <1>1, <1>2, <1>3 DEF All

LEMMA EnqueueStream ==
    ASSUME FifoOK, LoopOK, NEW e \in Events, Enqueue(e), batch' = batch
    PROVE  /\ Full => Stream' = Stream /\ failed'
           /\ ~Full => Adds(Stream, Stream', e) /\ ~failed'
  <1>1. CASE Full
    BY <1>1 DEF Enqueue, Stream
  <1>2. CASE ~Full
    <2>1. queue' = Append(queue, e) /\ failed' = FALSE
      BY <1>2 DEF Enqueue
    <2> QED BY <1>2, <2>1, JoinedAdds DEF Stream, FifoOK, LoopOK
  <1> QED BY <1>1, <1>2

LEMMA ProceedStream ==
    ASSUME FifoOK, LoopOK, Proceed, turn = "dispatch"
    PROVE  /\ Drops(Stream, Rest \o queue) /\ Stream[1] = Head(batch)
           /\ Rest \o queue \in Seq(Events) /\ Rest \in Seq(Events) /\ Head(batch) \in Events
           /\ queue' = queue => Stream' = Rest \o queue
           /\ \A e \in Events : Enqueue(e) =>
                 IF Full THEN Stream' = Rest \o queue /\ failed'
                 ELSE Adds(Rest \o queue, Stream', e) /\ ~failed'
  <1>1. batch # <<>> /\ batch \in Seq(Events) /\ queue \in Seq(Events)
    BY DEF LoopOK, FifoOK
  <1>2. Rest = Tail(batch) /\ batch' = Rest /\ Rest \in Seq(Events)
    BY <1>1, SeqOf DEF Rest, Proceed
  <1>3. /\ Drops(Stream, Rest \o queue) /\ Stream[1] = Head(batch) /\ Head(batch) \in Events
    BY <1>1, <1>2, JoinedDrops DEF Stream
  <1>4. Rest \o queue \in Seq(Events)
    BY <1>1, <1>2, Joined
  <1>5. ASSUME NEW e \in Events, Enqueue(e)
        PROVE  IF Full THEN Stream' = Rest \o queue /\ failed'
               ELSE Adds(Rest \o queue, Stream', e) /\ ~failed'
    <2>1. CASE Full
      BY <1>2, <1>5, <2>1 DEF Enqueue, Stream
    <2>2. CASE ~Full
      BY <1>1, <1>2, <1>5, <2>2, JoinedAdds DEF Enqueue, Stream
    <2> QED BY <2>1, <2>2
  <1> QED BY <1>2, <1>3, <1>4, <1>5 DEF Stream

-----------------------------------------------------------------------------
(* A channel that came in is announced once and belongs to its notification *)
(* until that is worked off; other events are about channels in a slot.     *)

IsNews(e) == e.type = "channel"
Once(S) == \A i, j \in 1 .. Len(S) :
             IsNews(S[i]) /\ IsNews(S[j]) /\ S[i].handle = S[j].handle => i = j
Announced(S) ==
    /\ Once(S)
    /\ \A e \in All(S) : IsNews(e) => e.handle \in Handles /\ handle[e.handle] = "incoming"
    /\ \A h \in Handles : handle[h] = "incoming" =>
         h.kind # "video" /\ \E e \in All(S) : IsNews(e) /\ e.handle = h

WellFormed(e) ==
    e.type \in {"isOpen", "isClosed", "open", "closed", "data"} =>
        e.handle \in Handles /\ e.handle.kind \in Kinds
EventsInv == \A e \in All(Stream) : WellFormed(e)

Ended == ~alive => turn = "idle" /\ batch = <<>> /\ queue = <<>> /\ active.pc = 0 /\ pending.pc = 0

HandlesInv == PlacesInv /\ Announced(Stream) /\ EventsInv /\ Ended

LEMMA EmptyStream ==
    ASSUME batch' = <<>>, queue' = <<>>, NoneIncoming
    PROVE  Announced(Stream)' /\ EventsInv' /\ Stream' = <<>>
  <1>1. Stream' = <<>>
    BY DEF Stream
  <1>2. All(Stream') = {}
    BY <1>1 DEF All
  <1>3. Once(Stream')
    BY <1>1 DEF Once
  <1> QED BY <1>1, <1>2, <1>3 DEF Announced, EventsInv, NoneIncoming

LEMMA AnnouncedDrops ==
    ASSUME NEW S, NEW T, Len(S) \in Nat, Len(T) \in Nat, Drops(S, T), Announced(S), ~IsNews(S[1])
    PROVE  Announced(T)
  <1>1. All(S) = All(T) \cup {S[1]}
    BY AllDrops
  <1>2. Once(T)
    <2> SUFFICES ASSUME NEW i \in 1 .. Len(T), NEW j \in 1 .. Len(T),
                        IsNews(T[i]), IsNews(T[j]), T[i].handle = T[j].handle
                 PROVE  i = j
      BY DEF Once
    <2>1. i + 1 \in 1 .. Len(S) /\ j + 1 \in 1 .. Len(S) /\ T[i] = S[i + 1] /\ T[j] = S[j + 1]
      BY DEF Drops
    <2>2. i + 1 = j + 1
      BY <2>1 DEF Announced, Once
    <2> QED BY <2>2
  <1> QED BY <1>1, <1>2 DEF Announced

LEMMA AnnouncedAdds ==
    ASSUME NEW S, NEW T, NEW e, Len(S) \in Nat, Adds(S, T, e), Announced(S), ~IsNews(e)
    PROVE  Announced(T)
  <1>1. All(T) = All(S) \cup {e}
    BY AllAdds
  <1>2. Once(T)
    <2> SUFFICES ASSUME NEW i \in 1 .. Len(T), NEW j \in 1 .. Len(T),
                        IsNews(T[i]), IsNews(T[j]), T[i].handle = T[j].handle
                 PROVE  i = j
      BY DEF Once
    <2>1. i \in 1 .. Len(S) /\ j \in 1 .. Len(S) /\ T[i] = S[i] /\ T[j] = S[j]
      BY DEF Adds
    <2> QED BY <2>1 DEF Announced, Once
  <1> QED BY <1>1, <1>2 DEF Announced

LEMMA AnnouncedSame ==
    ASSUME NEW S, Announced(S), SameIncoming
    PROVE  /\ Once(S)
           /\ \A e \in All(S) : IsNews(e) => e.handle \in Handles /\ handle'[e.handle] = "incoming"
           /\ \A h \in Handles : handle'[h] = "incoming" =>
                h.kind # "video" /\ \E e \in All(S) : IsNews(e) /\ e.handle = h
  BY DEF Announced, SameIncoming

(* A step of the loop on an event other than a notification, which may      *)
(* queue another.                                                           *)
LEMMA DispatchAnnounced ==
    ASSUME FifoOK, LoopOK, Announced(Stream), EventsInv, Proceed, turn = "dispatch",
           Head(batch).type # "channel", SameIncoming,
           queue' = queue \/ \E e \in Events : ~IsNews(e) /\ WellFormed(e) /\ Enqueue(e)
    PROVE  Announced(Stream)' /\ EventsInv'
  <1> DEFINE M == Rest \o queue
  <1>1. /\ Drops(Stream, M) /\ ~IsNews(Stream[1]) /\ M \in Seq(Events)
        /\ queue' = queue => Stream' = M
        /\ \A e \in Events : Enqueue(e) => Stream' = M \/ Adds(M, Stream', e)
    BY ProceedStream DEF IsNews
  <1> HIDE DEF M
  <1>2. Len(Stream) \in Nat /\ Len(M) \in Nat
    BY <1>1, SeqOf, StreamTyped
  <1>3. Announced(M) /\ \A e \in All(M) : WellFormed(e)
    BY <1>1, <1>2, AnnouncedDrops, AllDrops DEF EventsInv
  <1>4. CASE Stream' = M
    BY <1>3, <1>4, AnnouncedSame DEF Announced, EventsInv
  <1>5. ASSUME NEW e \in Events, ~IsNews(e), WellFormed(e), Adds(M, Stream', e)
        PROVE  Announced(Stream)' /\ EventsInv'
    <2>1. Announced(Stream') /\ All(Stream') = All(M) \cup {e}
      BY <1>2, <1>3, <1>5, AnnouncedAdds, AllAdds
    <2>2. EventsInv'
      BY <1>3, <1>5, <2>1 DEF EventsInv
    <2> QED BY <2>1, <2>2, AnnouncedSame DEF Announced
  <1> QED BY <1>1, <1>4, <1>5

-----------------------------------------------------------------------------
(* Everything is closed, or replaced by a new peer.                         *)

LEMMA ReleasedIs ==
    ASSUME PeersOK, FifoOK, LoopOK, PlacesInv, Announced(Stream), NEW h \in Handles
    PROVE  handle[h] \in {"hooked", "shut", "incoming"} => h \in Released
  <1>1. handle[h] = "incoming" => h \in Notified(queue) \cup Notified(batch)
    BY AllOf DEF Announced, IsNews
  <1>2. handle[h] \in {"hooked", "shut"} => h \in Slots(active) \cup Slots(pending)
    BY AttachedIs DEF PlacesInv, Attached
  <1> QED BY <1>1, <1>2 DEF Released

LEMMA DestroyPlaces ==
    ASSUME PeersOK, FifoOK, LoopOK, PlacesInv, Announced(Stream), Destroy
    PROVE  PlacesInv' /\ NoneIncoming /\ AllClosed /\ Drained
  <1>1. /\ active' = [NoActive EXCEPT !.gen = active.gen] /\ pending' = NoPending
        /\ handle' = Closed(Released) /\ peer' = Gone({active.pc, pending.pc}) /\ Drained
    BY DEF Destroy
  <1>2. active'.pc = 0 /\ active'.slot = NoSlots /\ pending'.pc = 0
    BY <1>1, NoPlace DEF NoActive
  <1>3. InPlace(active)' /\ InPlace(pending)'
    BY <1>1, <1>2, NoPlace DEF InPlace
  <1>4. ASSUME NEW p \in Peers
        PROVE  peer'[p] \notin {"none", "gone"} <=> p \in {active'.pc, pending'.pc}
    BY <1>1, <1>2, KindsOf, SlotsTyped, GoneIs DEF PlacesInv
  <1>5. ASSUME NEW h \in Handles
        PROVE  /\ handle'[h] \notin {"hooked", "shut", "incoming"}
               /\ ~Holds(active', h) /\ ~Holds(pending', h)
    <2>1. ~Holds(active', h) /\ ~Holds(pending', h)
      BY <1>1, <1>2, NoPlace DEF Holds
    <2>2. handle'[h] = IF h \in Released THEN "gone" ELSE handle[h]
      BY <1>1, ClosedIs
    <2> QED BY <2>1, <2>2, ReleasedIs
  <1> QED BY <1>1, <1>2, <1>3, <1>4, <1>5 DEF PlacesInv, NoneIncoming, AllClosed

(* The peer of an offer, with its track.                                    *)
LEMMA OfferedPlace ==
    ASSUME NEW p \in Peers, NEW track \in BOOLEAN, NEW s, s.pc = p, s.slot = OfferedSlots(p, track)
    PROVE  /\ InPlace(s)
           /\ \A h \in Handles : Holds(s, h) <=> track /\ h = VideoTrack(p)
           /\ VideoTrack(p) \in Handles /\ VideoTrack(p).pc = p /\ VideoTrack(p).kind = "video"
  <1>1. /\ VideoTrack(p) \in Handles /\ VideoTrack(p).pc = p /\ VideoTrack(p).kind = "video"
        /\ VideoTrack(p) # NoHandle
    BY PeerAssumption, KindsOf DEF VideoTrack, Handles, Kinds
  <1>2. \A k \in Kinds : OfferedSlots(p, track)[k] =
                           IF k = "video" /\ track THEN VideoTrack(p) ELSE NoHandle
    BY KindsOf DEF OfferedSlots, NoSlots
  <1> HIDE DEF VideoTrack
  <1>3. InPlace(s)
    BY <1>1, <1>2 DEF InPlace
  <1>4. ASSUME NEW h \in Handles PROVE Holds(s, h) <=> track /\ h = VideoTrack(p)
    BY <1>1, <1>2, KindsOf DEF Holds
  <1> QED BY <1>1, <1>3, <1>4

LEMMA CreatedIs ==
    ASSUME NEW hs, NEW p, NEW track
    PROVE  \A h \in Handles : Created(hs, p, track)[h] =
             IF track /\ h = VideoTrack(p) THEN "hooked" ELSE IF h \in hs THEN "gone" ELSE handle[h]
  BY ClosedIs DEF Created

LEMMA OfferPendingPlaces ==
    ASSUME PeersOK, PlacesInv, Announced(Stream), NEW g, NEW p \in Peers, NEW track \in BOOLEAN,
           Fresh(p), OfferPending(g, p, track)
    PROVE  PlacesInv' /\ SameIncoming
  <1>1. /\ active' = active
        /\ pending' = [NoPending EXCEPT !.pc = p, !.gen = g, !.slot = OfferedSlots(p, track)]
        /\ handle' = Created(Slots(pending), p, track)
        /\ peer' = [Gone({pending.pc}) EXCEPT ![p] = "checking"]
    BY DEF OfferPending
  <1>2. pending'.pc = p /\ pending'.slot = OfferedSlots(p, track)
    BY <1>1 DEF NoPending
  <1>3. /\ InPlace(pending')
        /\ \A h \in Handles : Holds(pending', h) <=> track /\ h = VideoTrack(p)
        /\ VideoTrack(p) \in Handles /\ VideoTrack(p).pc = p /\ VideoTrack(p).kind = "video"
    BY <1>2, OfferedPlace
  <1>4. active.pc # p /\ pending.pc # p /\ peer[p] = "none" /\ p # 0
    BY KindsOf DEF PlacesInv, Fresh
  <1>5. \A h \in Handles : h \in Slots(pending) <=> Holds(pending, h)
    BY SlotsTyped, HoldsIs DEF PlacesInv
  <1>6. ASSUME NEW q \in Peers
        PROVE  peer'[q] \notin {"none", "gone"} <=> q \in {active'.pc, pending'.pc}
    <2>1. peer'[q] = IF q = p THEN "checking" ELSE IF q = pending.pc THEN "gone" ELSE peer[q]
      BY <1>1, SlotsTyped, GoneIs DEF Gone
    <2> QED BY <1>1, <1>2, <1>4, <2>1, KindsOf DEF PlacesInv
  <1>7. ASSUME NEW h \in Handles
        PROVE  /\ handle'[h] \in {"hooked", "shut"} <=> Holds(active', h) \/ Holds(pending', h)
               /\ handle'[h] = "incoming" <=> handle[h] = "incoming"
    <2>1. handle'[h] = IF track /\ h = VideoTrack(p) THEN "hooked"
                       ELSE IF Holds(pending, h) THEN "gone" ELSE handle[h]
      BY <1>1, <1>5, CreatedIs
    <2>2. h.kind = "video" => handle[h] # "incoming"
      BY DEF Announced
    <2> QED BY <1>1, <1>3, <2>1, <2>2, AttachedIs DEF PlacesInv
  <1>8. InPlace(active)' /\ InPlace(pending)' /\ (active'.pc # 0 => active'.pc # pending'.pc)
    BY <1>1, <1>2, <1>3, <1>4 DEF PlacesInv, InPlace
  <1> QED BY <1>6, <1>7, <1>8 DEF PlacesInv, SameIncoming

LEMMA OfferActivePlaces ==
    ASSUME PeersOK, FifoOK, LoopOK, PlacesInv, Announced(Stream),
           NEW g, NEW p \in Peers, NEW track \in BOOLEAN, Fresh(p), OfferActive(g, p, track)
    PROVE  PlacesInv' /\ NoneIncoming
  <1>1. /\ active' = [pc |-> p, gen |-> g, slot |-> OfferedSlots(p, track)]
        /\ pending' = NoPending
        /\ handle' = Created(Released, p, track)
        /\ peer' = [Gone({active.pc, pending.pc}) EXCEPT ![p] = "checking"]
    BY DEF OfferActive
  <1>2. active'.pc = p /\ active'.slot = OfferedSlots(p, track) /\ p # 0
    BY <1>1, KindsOf
  <1>3. /\ InPlace(active')
        /\ \A h \in Handles : Holds(active', h) <=> track /\ h = VideoTrack(p)
    BY <1>2, OfferedPlace
  <1>4. ASSUME NEW q \in Peers
        PROVE  peer'[q] \notin {"none", "gone"} <=> q \in {active'.pc, pending'.pc}
    <2>1. peer'[q] = IF q = p THEN "checking"
                     ELSE IF q \in {active.pc, pending.pc} THEN "gone" ELSE peer[q]
      BY <1>1, SlotsTyped, GoneIs DEF Gone
    <2> QED BY <1>1, <1>2, <2>1, NoPlace, KindsOf DEF PlacesInv
  <1>5. ASSUME NEW h \in Handles
        PROVE  /\ handle'[h] \in {"hooked", "shut"} <=> Holds(active', h) \/ Holds(pending', h)
               /\ handle'[h] # "incoming"
    <2>1. handle'[h] = IF track /\ h = VideoTrack(p) THEN "hooked"
                       ELSE IF h \in Released THEN "gone" ELSE handle[h]
      BY <1>1, CreatedIs
    <2>2. ~Holds(pending', h)
      BY <1>1, NoPlace
    <2> QED BY <1>3, <2>1, <2>2, ReleasedIs
  <1>6. InPlace(active)' /\ InPlace(pending)' /\ (active'.pc # 0 => active'.pc # pending'.pc)
    BY <1>1, <1>2, <1>3, NoPlace DEF InPlace
  <1> QED BY <1>4, <1>5, <1>6 DEF PlacesInv, NoneIncoming

LEMMA OfferActiveFailsPlaces ==
    ASSUME PeersOK, FifoOK, LoopOK, PlacesInv, Announced(Stream),
           NEW g, NEW described, OfferActiveFails(g, described)
    PROVE  PlacesInv' /\ NoneIncoming
  <1>1. /\ active' = [NoActive EXCEPT !.gen = g] /\ pending' = NoPending
        /\ handle' = Closed(Released) /\ peer' = Gone({active.pc, pending.pc})
    BY DEF OfferActiveFails
  <1>2. active'.pc = 0 /\ active'.slot = NoSlots /\ pending'.pc = 0
    BY <1>1, NoPlace DEF NoActive
  <1>3. InPlace(active)' /\ InPlace(pending)'
    BY <1>1, <1>2, NoPlace DEF InPlace
  <1>4. ASSUME NEW p \in Peers
        PROVE  peer'[p] \notin {"none", "gone"} <=> p \in {active'.pc, pending'.pc}
    BY <1>1, <1>2, KindsOf, SlotsTyped, GoneIs DEF PlacesInv
  <1>5. ASSUME NEW h \in Handles
        PROVE  /\ handle'[h] \notin {"hooked", "shut", "incoming"}
               /\ ~Holds(active', h) /\ ~Holds(pending', h)
    <2>1. ~Holds(active', h) /\ ~Holds(pending', h)
      BY <1>1, <1>2, NoPlace DEF Holds
    <2>2. handle'[h] = IF h \in Released THEN "gone" ELSE handle[h]
      BY <1>1, ClosedIs
    <2> QED BY <2>1, <2>2, ReleasedIs
  <1> QED BY <1>1, <1>2, <1>3, <1>4, <1>5 DEF PlacesInv, NoneIncoming

LEMMA SignalingHandles ==
    ASSUME PeersOK, FifoOK, LoopOK, FlagsOK, HandlesInv, alive, Signaling,
           turn = "idle" \/ (turn = "dispatch" /\ Head(batch).type # "channel")
    PROVE  HandlesInv'
  <1>1. PlacesInv /\ Announced(Stream) /\ EventsInv
    BY DEF HandlesInv
  <1>2. ASSUME Proceed, UNCHANGED fifo, PlacesInv', SameIncoming, alive' = alive
        PROVE  HandlesInv'
    <2>1. queue' = queue
      BY <1>2 DEF fifo
    <2>2. CASE turn = "dispatch"
      <3>1. Head(batch).type # "channel"
        BY <2>2
      <3>2. Announced(Stream)' /\ EventsInv'
        BY <1>1, <1>2, <2>1, <2>2, <3>1, DispatchAnnounced
      <3> QED BY <1>2, <3>2 DEF HandlesInv, Ended
    <2>3. CASE turn = "idle"
      <3>1. batch = <<>> /\ batch' = <<>>
        BY <1>2, <2>3 DEF LoopOK, Proceed, Rest
      <3>2. Stream' = Stream
        BY <2>1, <3>1 DEF Stream
      <3>3. Announced(Stream)' /\ EventsInv'
        BY <1>1, <1>2, <3>2, AnnouncedSame DEF Announced, EventsInv
      <3> QED BY <1>2, <3>3 DEF HandlesInv, Ended
    <2> QED BY <2>2, <2>3
  <1>3. ASSUME Drained, PlacesInv', NoneIncoming, alive' = alive \/ AllClosed
        PROVE  HandlesInv'
    <2>1. batch' = <<>> /\ queue' = <<>> /\ turn' = "idle"
      BY <1>3 DEF Drained
    <2>2. Announced(Stream)' /\ EventsInv'
      BY <1>3, <2>1, EmptyStream
    <2>3. Ended'
      BY <1>3, <2>1 DEF Ended, AllClosed
    <2> QED BY <1>3, <2>2, <2>3 DEF HandlesInv
  <1>4. ASSUME NEW g \in Gens, NEW bg \in BOOLEAN, NEW track \in BOOLEAN, NEW v \in VideoModes,
               HandleOffer(g, bg, v, track)
        PROVE  HandlesInv'
    <2>1. alive' = alive
      BY <1>4 DEF HandleOffer
    <2>2. CASE DropOffer(g)
      BY <1>1, <1>2, <2>1, <2>2, PeersUnchanged DEF DropOffer
    <2>3. ASSUME NEW p \in Peers, Fresh(p), OfferPending(g, p, track) PROVE HandlesInv'
      BY <1>1, <1>2, <2>1, <2>3, OfferPendingPlaces DEF OfferPending
    <2>4. CASE OfferPendingFails
      BY <1>1, <1>2, <2>1, <2>4, DestroyPendingPlaces DEF OfferPendingFails
    <2>5. ASSUME NEW p \in Peers, Fresh(p), OfferActive(g, p, track) PROVE HandlesInv'
      BY <1>1, <1>3, <2>1, <2>5, OfferActivePlaces DEF OfferActive
    <2>6. ASSUME NEW described \in BOOLEAN, OfferActiveFails(g, described) PROVE HandlesInv'
      BY <1>1, <1>3, <2>1, <2>6, OfferActiveFailsPlaces DEF OfferActiveFails
    <2> QED BY <1>4, <2>2, <2>3, <2>4, <2>5, <2>6 DEF HandleOffer
  <1>5. ASSUME NEW g, CommitPending(g) PROVE HandlesInv'
    <2>1. PlacesInv' /\ SameIncoming
      BY <1>1, <1>5, PromotePendingPlaces, PeersUnchanged DEF CommitPending
    <2> QED BY <1>2, <1>5, <2>1 DEF CommitPending
  <1>6. ASSUME NEW c \in Cands, HandleIceCandidate(c) PROVE HandlesInv'
    <2>1. PlacesInv' /\ SameIncoming
      BY <1>1, <1>6, PeersUnchanged DEF HandleIceCandidate
    <2> QED BY <1>2, <1>6, <2>1 DEF HandleIceCandidate
  <1>7. CASE Clear
    BY <1>1, <1>3, <1>7, DestroyPlaces DEF Clear
  <1> QED BY <1>4, <1>5, <1>6, <1>7 DEF Signaling

-----------------------------------------------------------------------------
(* Turns of the loop.                                                       *)

LEMMA HeadInStream ==
    ASSUME FifoOK, LoopOK, turn = "dispatch"
    PROVE  Head(batch) \in All(Stream) /\ Head(batch) \in Events
  <1>1. batch \in Seq(Events) /\ batch # <<>>
    BY DEF LoopOK
  <1>2. Len(batch) >= 1 /\ DOMAIN batch = 1 .. Len(batch) /\ Head(batch) = batch[1] /\ Len(batch) \in Nat
    BY <1>1, SeqOf
  <1>3. 1 \in DOMAIN batch
    BY <1>2
  <1>4. Head(batch) \in All(Stream)
    BY <1>2, <1>3, AllOf
  <1> QED BY <1>1, <1>4, SeqOf

(* An event that is not a notification, and what it makes the loop queue.   *)
LEMMA DispatchedHandles ==
    ASSUME TInv, HandlesInv, turn = "dispatch", Head(batch).type # "channel", Dispatched,
           PlacesInv', SameIncoming,
           queue' = queue \/ \E e \in Events : ~IsNews(e) /\ WellFormed(e) /\ Enqueue(e)
    PROVE  HandlesInv'
  <1>1. alive /\ alive' = alive /\ Proceed
    BY DEF HandlesInv, Ended, Dispatched
  <1>2. Announced(Stream)' /\ EventsInv'
    BY <1>1, DispatchAnnounced DEF HandlesInv, TInv
  <1> QED BY <1>1, <1>2 DEF HandlesInv, Ended

LEMMA AttachPlaces ==
    ASSUME PeersOK, NEW s \in {active, pending}, NEW h \in Handles, h.kind \in Kinds, h.kind # "video",
           h.pc = s.pc, InPlace(s)
    PROVE  /\ Attach(s, h).pc = s.pc /\ InPlace(Attach(s, h))
           /\ \A i \in Handles : Holds(Attach(s, h), i) <=> IF i.kind = h.kind THEN i = h ELSE Holds(s, i)
  <1>1. s \in ActiveRec \/ s \in PendingRec
    BY DEF PeersOK
  <1>2. Attach(s, h).pc = s.pc /\ Attach(s, h).slot = [s.slot EXCEPT ![h.kind] = h]
    BY <1>1 DEF Attach, ActiveRec, PendingRec
  <1>3. s.slot \in Slot
    BY SlotsTyped
  <1>4. \A k \in Kinds : Attach(s, h).slot[k] = IF k = h.kind THEN h ELSE s.slot[k]
    BY <1>2, <1>3 DEF Slot
  <1>5. InPlace(Attach(s, h))
    BY <1>2, <1>4 DEF InPlace
  <1> QED BY <1>2, <1>4, <1>5 DEF Holds

LEMMA OnDataChannelHandles ==
    ASSUME TInv, HandlesInv, OnDataChannel
    PROVE  HandlesInv'
  <1> DEFINE h == Head(batch).handle
             M == Rest \o queue
  <1>1. /\ turn = "dispatch" /\ Head(batch).type = "channel" /\ Proceed
        /\ alive' = alive /\ queue' = queue /\ peer' = peer
        /\ PeersOK /\ FifoOK /\ LoopOK /\ PlacesInv /\ Announced(Stream) /\ EventsInv
    BY DEF OnDataChannel, Dispatching, Dispatched, fifo, TInv, HandlesInv
  <1>2. /\ Drops(Stream, M) /\ Stream[1] = Head(batch) /\ M \in Seq(Events) /\ Stream' = M
    BY <1>1, ProceedStream
  <1> HIDE DEF M
  <1>3. Len(Stream) \in Nat /\ Len(M) \in Nat
    BY <1>1, <1>2, SeqOf, StreamTyped
  <1>4. All(Stream) = All(M) \cup {Head(batch)}
    BY <1>2, <1>3, AllDrops
  <1>5. h \in Handles /\ handle[h] = "incoming" /\ h.kind # "video"
    BY <1>1, <1>4 DEF Announced, IsNews
  <1>6. Once(M) /\ \A e \in All(M) : IsNews(e) => e.handle # h
    <2>1. ASSUME NEW i \in 1 .. Len(M)
          PROVE  i + 1 \in 1 .. Len(Stream) /\ M[i] = Stream[i + 1] /\ i + 1 # 1 /\ 1 \in 1 .. Len(Stream)
      BY <1>2, <1>3 DEF Drops
    <2>2. Once(M)
      <3> SUFFICES ASSUME NEW i \in 1 .. Len(M), NEW j \in 1 .. Len(M),
                          IsNews(M[i]), IsNews(M[j]), M[i].handle = M[j].handle
                   PROVE  i = j
        BY DEF Once
      <3>1. i + 1 = j + 1
        BY <1>1, <2>1 DEF Announced, Once
      <3> QED BY <3>1
    <2>3. ASSUME NEW i \in 1 .. Len(M), IsNews(M[i]) PROVE M[i].handle # h
      <3>1. IsNews(Stream[1]) /\ Stream[1].handle = h
        BY <1>1, <1>2 DEF IsNews
      <3> QED BY <1>1, <2>1, <2>3, <3>1 DEF Announced, Once
    <2> QED BY <2>2, <2>3 DEF All
  <1>7. ASSUME PlacesInv', handle'[h] # "incoming",
               \A i \in Handles \ {h} : handle'[i] = "incoming" <=> handle[i] = "incoming"
        PROVE  HandlesInv'
    <2>1. \A e \in All(M) : IsNews(e) => e.handle \in Handles /\ handle'[e.handle] = "incoming"
      BY <1>1, <1>4, <1>6, <1>7 DEF Announced
    <2>2. \A i \in Handles : handle'[i] = "incoming" =>
            i.kind # "video" /\ \E e \in All(M) : IsNews(e) /\ e.handle = i
      BY <1>1, <1>4, <1>7 DEF Announced
    <2>3. Announced(Stream)' /\ EventsInv'
      BY <1>1, <1>2, <1>4, <1>6, <2>1, <2>2 DEF Announced, EventsInv
    <2>4. Ended'
      BY <1>1 DEF HandlesInv, Ended
    <2> QED BY <1>7, <2>3, <2>4 DEF HandlesInv
  <1>8. ~Holds(active, h) /\ ~Holds(pending, h)
    BY <1>1, <1>5 DEF PlacesInv
  <1>9. handle \in [Handles -> HandleStates]
    BY <1>1 DEF PeersOK
  <1>10. CASE ~Known(h.pc) \/ h.kind \notin Kinds
    <2>1. handle' = Closed({h}) /\ active' = active /\ pending' = pending
      BY <1>10 DEF OnDataChannel
    <2>2. \A i \in Handles : handle'[i] = IF i = h THEN "gone" ELSE handle[i]
      BY <2>1, ClosedIs
    <2>3. PlacesInv'
      BY <1>1, <1>8, <2>1, <2>2 DEF PlacesInv, InPlace, Holds
    <2> QED BY <1>5, <1>7, <2>2, <2>3
  <1>11. ASSUME h.kind \in Kinds,
                NEW s \in {active, pending}, NEW o \in {active, pending}, s.pc = h.pc, o.pc # h.pc,
                NEW old, old = {s.slot[h.kind]} \ {NoHandle},
                \/ active' = Attach(s, h) /\ pending' = o /\ active = s /\ pending = o
                \/ pending' = Attach(s, h) /\ active' = o /\ pending = s /\ active = o,
                handle' = [Closed(old) EXCEPT ![h] = "hooked"]
         PROVE  HandlesInv'
    <2>1. /\ Attach(s, h).pc = s.pc /\ InPlace(Attach(s, h))
          /\ \A i \in Handles : Holds(Attach(s, h), i) <=> IF i.kind = h.kind THEN i = h ELSE Holds(s, i)
      BY <1>1, <1>5, <1>11, AttachPlaces DEF PlacesInv
    <2>2. \A i \in Handles : handle'[i] = IF i = h THEN "hooked" ELSE IF i \in old THEN "gone" ELSE handle[i]
      BY <1>11, ClosedIs DEF Closed
    <2>3. \A i \in Handles : i \in old <=> i.kind = h.kind /\ Holds(s, i)
      <3> SUFFICES ASSUME NEW i \in Handles PROVE i \in old <=> i.kind = h.kind /\ Holds(s, i)
        OBVIOUS
      <3>1. s.slot[h.kind] # NoHandle => s.slot[h.kind].kind = h.kind
        BY <1>1, <1>11 DEF PlacesInv, InPlace
      <3> QED BY <1>11, <3>1, KindsOf DEF Holds
    <2>4. \A i \in Handles : Holds(s, i) => ~Holds(o, i)
      BY <1>1, <1>11, AttachedIs
    <2>5. ASSUME NEW i \in Handles
          PROVE  handle'[i] \in {"hooked", "shut"} <=> Holds(Attach(s, h), i) \/ Holds(o, i)
      <3>1. handle[i] \in {"hooked", "shut"} <=> Holds(s, i) \/ Holds(o, i)
        BY <1>1, <1>11 DEF PlacesInv
      <3> QED BY <2>1, <2>2, <2>3, <2>4, <3>1
    <2>6. InPlace(active)' /\ InPlace(pending)' /\ (active'.pc # 0 => active'.pc # pending'.pc)
          /\ active'.pc = active.pc /\ pending'.pc = pending.pc
      BY <1>1, <1>11, <2>1 DEF PlacesInv, InPlace
    <2>7. PlacesInv'
      <3>1. \A p \in Peers : peer'[p] \notin {"none", "gone"} <=> p \in {active'.pc, pending'.pc}
        BY <1>1, <2>6 DEF PlacesInv
      <3>2. \A i \in Handles : handle'[i] \in {"hooked", "shut"} <=> Holds(active', i) \/ Holds(pending', i)
        BY <1>11, <2>5
      <3> QED BY <2>6, <3>1, <3>2 DEF PlacesInv
    <2>8. \A i \in Handles \ {h} : handle'[i] = "incoming" <=> handle[i] = "incoming"
      BY <1>1, <1>11, <2>2, <2>3 DEF PlacesInv
    <2> QED BY <1>5, <1>7, <2>2, <2>7, <2>8
  <1>12. CASE Known(h.pc) /\ h.kind \in Kinds /\ h.pc = pending.pc
    <2>1. /\ pending' = Attach(pending, h) /\ active' = active
          /\ handle' = [Closed({pending.slot[h.kind]} \ {NoHandle}) EXCEPT ![h] = "hooked"]
      BY <1>12 DEF OnDataChannel
    <2>2. active.pc # h.pc
      BY <1>1, <1>12 DEF PlacesInv, Known
    <2> QED BY <1>11, <1>12, <2>1, <2>2
  <1>13. CASE Known(h.pc) /\ h.kind \in Kinds /\ h.pc # pending.pc
    <2>1. /\ active' = Attach(active, h) /\ pending' = pending
          /\ handle' = [Closed({active.slot[h.kind]} \ {NoHandle}) EXCEPT ![h] = "hooked"]
      BY <1>13 DEF OnDataChannel
    <2>2. active.pc = h.pc
      BY <1>13 DEF Known
    <2> QED BY <1>11, <1>13, <2>1, <2>2
  <1> QED BY <1>10, <1>12, <1>13

\* What Forward queues.
LEMMA ForwardQueues ==
    ASSUME NEW r, NEW e \in Events, Forward(r, e), ~IsNews(e), r => WellFormed(e)
    PROVE  queue' = queue \/ \E x \in Events : ~IsNews(x) /\ WellFormed(x) /\ Enqueue(x)
  <1>1. CASE r
    BY <1>1 DEF Forward
  <1>2. CASE ~r
    BY <1>2 DEF Forward, fifo
  <1> QED BY <1>1, <1>2

LEMMA PeerEventIs ==
    ASSUME NEW t \in {"direct", "failed", "ready"}, NEW p \in Peers
    PROVE  PeerEvent(t, p) \in Events /\ ~IsNews(PeerEvent(t, p)) /\ WellFormed(PeerEvent(t, p))
  <1>1. PeerEvent(t, p).type = t
    BY DEF PeerEvent, Event
  <1>2. PeerEvent(t, p) \in Events
    BY EventTyped DEF EventTypes
  <1> QED BY <1>1, <1>2 DEF IsNews, WellFormed

LEMMA FirstStageHandles ==
    ASSUME TInv, HandlesInv, OnHandleState \/ OnIceStateChange \/ OnStateChange
    PROVE  HandlesInv'
  <1>1. /\ turn = "dispatch" /\ Head(batch).type # "channel" /\ Dispatched /\ UNCHANGED peers
        /\ PeersOK /\ FifoOK /\ LoopOK /\ PlacesInv
    BY DEF OnHandleState, OnIceStateChange, OnStateChange, Dispatching, TInv, HandlesInv
  <1>2. PlacesInv' /\ SameIncoming
    BY <1>1, PeersUnchanged
  <1>3. Head(batch).pc \in Peers
    BY <1>1, HeadTyped
  <1>4. queue' = queue \/ \E x \in Events : ~IsNews(x) /\ WellFormed(x) /\ Enqueue(x)
    <2>1. CASE OnHandleState
      <3> DEFINE h == Head(batch).handle
                 t == IF Head(batch).type = "isOpen" THEN "open" ELSE "closed"
      <3>1. Head(batch) \in All(Stream) /\ Head(batch).type \in {"isOpen", "isClosed"}
        BY <1>1, <2>1, HeadInStream DEF OnHandleState, Dispatching
      <3>2. h \in Handles /\ h.kind \in Kinds
        BY <3>1 DEF HandlesInv, EventsInv, WellFormed
      <3>3. t \in {"open", "closed"} /\ t \in EventTypes
        BY DEF EventTypes
      <3>4. HandleEvent(t, h) \in Events /\ HandleEvent(t, h).type = t /\ HandleEvent(t, h).handle = h
        BY <3>2, <3>3, HandleEventTyped DEF HandleEvent, Event
      <3>5. Forward(Attached(h), HandleEvent(t, h))
        BY <2>1 DEF OnHandleState
      <3> HIDE DEF h, t
      <3>6. ~IsNews(HandleEvent(t, h)) /\ WellFormed(HandleEvent(t, h))
        BY <3>2, <3>3, <3>4 DEF IsNews, WellFormed
      <3> QED BY <3>4, <3>5, <3>6, ForwardQueues
    <2>2. CASE OnIceStateChange
      <3>1. PICK route : Forward(Head(batch).pc = pending.pc /\ route # "none",
                                 PeerEvent(IF route = "direct" THEN "direct" ELSE "failed", Head(batch).pc))
        BY <2>2 DEF OnIceStateChange
      <3>2. (IF route = "direct" THEN "direct" ELSE "failed") \in {"direct", "failed", "ready"}
        OBVIOUS
      <3> QED BY <1>3, <3>1, <3>2, PeerEventIs, ForwardQueues
    <2>3. CASE OnStateChange
      <3>1. Forward(Head(batch).pc = pending.pc, PeerEvent("failed", Head(batch).pc))
        BY <2>3 DEF OnStateChange
      <3> QED BY <1>3, <3>1, PeerEventIs, ForwardQueues
    <2> QED BY <2>1, <2>2, <2>3
  <1> QED BY <1>1, <1>2, <1>4, DispatchedHandles

LEMMA LearnPlaces ==
    ASSUME PeersOK, PlacesInv, NEW s \in PendingRec, s.pc = pending.pc, s.slot = pending.slot,
           s.direct => s.pc # 0, Learn(s)
    PROVE  /\ PlacesInv' /\ SameIncoming
           /\ queue' = queue \/ \E x \in Events : ~IsNews(x) /\ WellFormed(x) /\ Enqueue(x)
  <1> DEFINE announce == ~s.signaled /\ s.direct /\ s.dataOpen /\ (video => s.videoOpen)
  <1>1. /\ pending' = [s EXCEPT !.signaled = s.signaled \/ announce]
        /\ Forward(announce, PeerEvent("ready", s.pc))
        /\ active' = active /\ connected' = connected /\ peer' = peer /\ handle' = handle
    BY DEF Learn
  <1>2. announce => s.pc # 0
    OBVIOUS
  <1> HIDE DEF announce
  <1>3. pending'.pc = pending.pc /\ pending'.slot = pending.slot
    BY <1>1 DEF PendingRec
  <1>4. PlacesInv' /\ SameIncoming
    BY <1>1, <1>3 DEF PlacesInv, InPlace, Holds, SameIncoming
  <1>5. CASE announce
    <2>1. s.pc \in Peers
      BY <1>2, <1>5 DEF PendingRec
    <2> QED BY <1>1, <1>4, <2>1, PeerEventIs, ForwardQueues
  <1>6. CASE ~announce
    BY <1>1, <1>4, <1>6 DEF Forward, fifo
  <1> QED BY <1>5, <1>6

LEMMA DispatchOpenHandles ==
    ASSUME TInv, HandlesInv, DispatchOpen
    PROVE  HandlesInv'
  <1> DEFINE h == Head(batch).handle
             s == IF h.kind = "data" THEN [pending EXCEPT !.dataOpen = TRUE]
                                     ELSE [pending EXCEPT !.videoOpen = TRUE]
  <1>1. /\ turn = "dispatch" /\ Head(batch).type # "channel" /\ Dispatched
        /\ PeersOK /\ FifoOK /\ LoopOK /\ PlacesInv
    BY DEF DispatchOpen, Dispatching, TInv, HandlesInv
  <1>2. CASE h = pending.slot[h.kind] /\ h.kind # "input"
    <2>1. Learn(s)
      BY <1>2 DEF DispatchOpen
    <2>2. /\ s \in PendingRec /\ s.pc = pending.pc /\ s.slot = pending.slot
          /\ s.direct => s.pc # 0
      BY <1>1 DEF PeersOK, PendingRec
    <2> HIDE DEF s
    <2> QED BY <1>1, <2>1, <2>2, LearnPlaces, DispatchedHandles
  <1>3. CASE ~(h = pending.slot[h.kind] /\ h.kind # "input")
    <2>1. /\ active' = active /\ pending' = pending /\ peer' = peer /\ handle' = handle
          /\ queue' = queue
      BY <1>3 DEF DispatchOpen, fifo
    <2>2. PlacesInv' /\ SameIncoming
      BY <1>1, <2>1 DEF PlacesInv, InPlace, Holds, SameIncoming
    <2> QED BY <1>1, <2>1, <2>2, DispatchedHandles
  <1> QED BY <1>2, <1>3

LEMMA DetachPlaces ==
    ASSUME PeersOK, NEW s \in {active, pending}, NEW h \in Handles, h.kind \in Kinds,
           InPlace(s), Holds(s, h)
    PROVE  /\ Detached(s, h).pc = s.pc /\ InPlace(Detached(s, h))
           /\ \A i \in Handles : Holds(Detached(s, h), i) <=> i # h /\ Holds(s, i)
  <1>1. s \in ActiveRec \/ s \in PendingRec
    BY DEF PeersOK
  <1>2. Detached(s, h).pc = s.pc /\ Detached(s, h).slot = [s.slot EXCEPT ![h.kind] = NoHandle]
    BY <1>1 DEF Detached, ActiveRec, PendingRec
  <1>3. s.slot \in Slot
    BY SlotsTyped
  <1>4. \A k \in Kinds : Detached(s, h).slot[k] = IF k = h.kind THEN NoHandle ELSE s.slot[k]
    BY <1>2, <1>3 DEF Slot
  <1>5. InPlace(Detached(s, h))
    BY <1>2, <1>4 DEF InPlace
  <1> QED BY <1>2, <1>4, <1>5, KindsOf DEF Holds

LEMMA LetGoPlaces ==
    ASSUME PeersOK, PlacesInv, NEW s \in {active, pending}, NEW o \in {active, pending},
           NEW h \in Handles, h.kind \in Kinds, Holds(s, h), ~Holds(o, h),
           \/ active' = Detached(s, h) /\ pending' = o /\ active = s /\ pending = o
           \/ pending' = Detached(s, h) /\ active' = o /\ pending = s /\ active = o,
           handle' = Closed({h}), peer' = peer
    PROVE  PlacesInv' /\ SameIncoming
  <1>1. /\ Detached(s, h).pc = s.pc /\ InPlace(Detached(s, h))
        /\ \A i \in Handles : Holds(Detached(s, h), i) <=> i # h /\ Holds(s, i)
    BY DetachPlaces DEF PlacesInv
  <1>2. \A i \in Handles : handle'[i] = IF i = h THEN "gone" ELSE handle[i]
    BY ClosedIs
  <1>3. active'.pc = active.pc /\ pending'.pc = pending.pc /\ InPlace(active)' /\ InPlace(pending)'
    BY <1>1 DEF PlacesInv, InPlace
  <1>4. \A i \in Handles :
          Holds(active', i) \/ Holds(pending', i) <=> i # h /\ (Holds(active, i) \/ Holds(pending, i))
    BY <1>1
  <1>5. handle[h] # "incoming"
    BY DEF PlacesInv
  <1> QED BY <1>2, <1>3, <1>4, <1>5 DEF PlacesInv, SameIncoming

LEMMA DispatchClosedHandles ==
    ASSUME TInv, HandlesInv, DispatchClosed
    PROVE  HandlesInv'
  <1> DEFINE h == Head(batch).handle
  <1>1. /\ turn = "dispatch" /\ Head(batch).type = "closed" /\ Dispatched /\ queue' = queue
        /\ PeersOK /\ FifoOK /\ LoopOK /\ PlacesInv
    BY DEF DispatchClosed, Dispatching, fifo, TInv, HandlesInv
  <1>2. h \in Handles /\ h.kind \in Kinds
    BY <1>1, HeadInStream DEF HandlesInv, EventsInv, WellFormed
  <1>3. PlacesInv' /\ SameIncoming
    <2>1. CASE h = pending.slot[h.kind]
      <3>0. Holds(pending, h) /\ ~Holds(active, h)
        BY <1>1, <1>2, <2>1, AttachedIs DEF Holds
      <3>1. CASE h.kind = "input"
        <4>1. pending' = Detached(pending, h) /\ handle' = Closed({h}) /\ active' = active /\ peer' = peer
          BY <2>1, <3>1 DEF DispatchClosed
        <4> QED BY <1>1, <1>2, <3>0, <4>1, LetGoPlaces
      <3>2. CASE h.kind # "input"
        BY <1>1, <2>1, <3>2, DestroyPendingPlaces DEF DispatchClosed
      <3> QED BY <3>1, <3>2
    <2>2. CASE h # pending.slot[h.kind] /\ h # active.slot[h.kind]
      BY <1>1, <2>2, PeersUnchanged DEF DispatchClosed
    <2>3. CASE h # pending.slot[h.kind] /\ h = active.slot[h.kind]
      <3>0. Holds(active, h) /\ ~Holds(pending, h)
        BY <1>2, <2>3 DEF Holds
      <3>1. CASE h.kind = "data" /\ pending.signaled /\ Ready
        BY <1>1, <2>3, <3>1, PromotePendingPlaces DEF DispatchClosed, ActiveLost
      <3>2. CASE ~(h.kind = "data" /\ pending.signaled /\ Ready)
        <4>1. active' = Detached(active, h) /\ handle' = Closed({h}) /\ pending' = pending /\ peer' = peer
          BY <2>3, <3>2 DEF DispatchClosed, ActiveLost
        <4> QED BY <1>1, <1>2, <3>0, <4>1, LetGoPlaces
      <3> QED BY <3>1, <3>2
    <2> QED BY <2>1, <2>2, <2>3
  <1>4. Head(batch).type # "channel"
    BY <1>1
  <1> QED BY <1>1, <1>3, <1>4, DispatchedHandles

LEMMA DispatchPendingHandles ==
    ASSUME TInv, HandlesInv,
           DispatchPendingDirect \/ DispatchPendingFailed \/ DispatchSignal \/ DropData
    PROVE  HandlesInv'
  <1>1. /\ turn = "dispatch" /\ Head(batch).type # "channel" /\ Dispatched
        /\ PeersOK /\ FifoOK /\ LoopOK /\ PlacesInv
    BY DEF DispatchPendingDirect, DispatchPendingFailed, DispatchSignal, DropData, Dispatching,
           TInv, HandlesInv
  <1>2. CASE UNCHANGED <<peers, fifo>>
    <2>1. UNCHANGED peers /\ queue' = queue
      BY <1>2 DEF fifo
    <2> QED BY <1>1, <2>1, PeersUnchanged, DispatchedHandles
  <1>3. CASE DispatchPendingDirect /\ Head(batch).pc = pending.pc
    <2> DEFINE s == [pending EXCEPT !.direct = TRUE]
    <2>1. Learn(s)
      BY <1>3 DEF DispatchPendingDirect
    <2>2. /\ s \in PendingRec /\ s.pc = pending.pc /\ s.slot = pending.slot /\ s.pc # 0
      BY <1>1, <1>3, HeadTyped, KindsOf DEF PeersOK, PendingRec
    <2> HIDE DEF s
    <2> QED BY <1>1, <2>1, <2>2, LearnPlaces, DispatchedHandles
  <1>4. CASE DispatchPendingFailed
    <2>1. queue' = queue
      BY <1>4 DEF DispatchPendingFailed, fifo
    <2>2. PlacesInv' /\ SameIncoming
      BY <1>1, <1>4, DestroyPendingPlaces, PeersUnchanged DEF DispatchPendingFailed
    <2> QED BY <1>1, <2>1, <2>2, DispatchedHandles
  <1> QED BY <1>2, <1>3, <1>4 DEF DispatchPendingDirect, DispatchSignal, DropData

LEMMA DispatchDataHandles ==
    ASSUME TInv, HandlesInv, DispatchData
    PROVE  HandlesInv'
  <1>1. /\ turn = "dispatch" /\ Head(batch).type # "channel" /\ alive
        /\ PeersOK /\ FifoOK /\ LoopOK /\ FlagsOK /\ PlacesInv
    BY DEF DispatchData, Dispatching, TInv, HandlesInv, Ended
  <1>2. CASE Signaling
    BY <1>1, <1>2, SignalingHandles
  <1>3. CASE Proceed /\ UNCHANGED <<peers, fifo, video, ice, alive, signals>>
    <2>1. PlacesInv' /\ SameIncoming /\ queue' = queue
      BY <1>1, <1>3, PeersUnchanged DEF fifo
    <2>2. Announced(Stream)' /\ EventsInv'
      BY <1>1, <1>3, <2>1, DispatchAnnounced DEF HandlesInv
    <2> QED BY <1>1, <1>3, <2>1, <2>2 DEF HandlesInv, Ended
  <1> QED BY <1>2, <1>3 DEF DispatchData

LEMMA StartTurnHandles ==
    ASSUME TInv, HandlesInv, StartTurn \/ Detach
    PROVE  HandlesInv'
  <1>1. PeersOK /\ FifoOK /\ LoopOK /\ PlacesInv /\ Announced(Stream) /\ EventsInv
    BY DEF TInv, HandlesInv
  <1>2. CASE StartTurn /\ failed
    <2>1. Destroy /\ alive /\ alive' = alive
      BY <1>2 DEF StartTurn
    <2>2. PlacesInv' /\ NoneIncoming /\ batch' = <<>> /\ queue' = <<>>
      BY <1>1, <2>1, DestroyPlaces DEF Drained
    <2>3. Announced(Stream)' /\ EventsInv'
      BY <2>2, EmptyStream
    <2> QED BY <2>1, <2>2, <2>3 DEF HandlesInv, Ended
  <1>3. CASE (StartTurn /\ ~failed) \/ Detach
    <2>1. UNCHANGED peers /\ alive /\ alive' = alive
      BY <1>3 DEF StartTurn, Detach, HandlesInv, Ended, peers
    <2>2. Stream' = Stream
      <3>1. CASE StartTurn
        BY <1>3, <3>1 DEF StartTurn, Detach, Stream
      <3>2. CASE Detach
        <4>1. batch = <<>> /\ batch' = queue /\ queue' = <<>> /\ queue \in Seq(Events)
          BY <1>1, <3>2 DEF Detach, LoopOK, FifoOK
        <4>2. queue \o <<>> = queue /\ <<>> \o queue = queue
          BY <4>1, ConcatEmptySeq
        <4> QED BY <4>1, <4>2 DEF Stream
      <3> QED BY <1>3, <3>1, <3>2
    <2>3. PlacesInv' /\ SameIncoming
      BY <1>1, <2>1, PeersUnchanged
    <2>4. Announced(Stream)' /\ EventsInv'
      BY <1>1, <2>2, <2>3, AnnouncedSame DEF Announced, EventsInv
    <2> QED BY <2>1, <2>3, <2>4 DEF HandlesInv, Ended
  <1> QED BY <1>2, <1>3 DEF Detach

-----------------------------------------------------------------------------
(* The library only acts on what is in place, so never after the end.       *)

LEMMA LibraryActs ==
    ASSUME TInv, HandlesInv
    PROVE  /\ \A p \in Peers : peer[p] \in {"checking", "direct", "relay", "failed"} =>
                alive /\ p \in {active.pc, pending.pc}
           /\ \A h \in Handles : handle[h] = "hooked" => alive /\ h.kind \in Kinds
  <1>1. ASSUME NEW p \in Peers, p \in {active.pc, pending.pc} PROVE alive
    BY <1>1, KindsOf DEF HandlesInv, Ended
  <1>2. ASSUME NEW h \in Handles, handle[h] = "hooked" PROVE alive /\ h.kind \in Kinds
    <2>1. Holds(active, h) \/ Holds(pending, h)
      BY <1>2 DEF HandlesInv, PlacesInv
    <2>2. h.pc \in {active.pc, pending.pc} /\ h.pc \in Peers
      BY <2>1, AttachedIs, KindsOf DEF TInv, HandlesInv
    <2> QED BY <1>1, <2>1, <2>2 DEF Holds
  <1> QED BY <1>1, <1>2 DEF HandlesInv, PlacesInv

LEMMA LibraryQueues ==
    ASSUME TInv, HandlesInv, NEW e \in Events, Enqueue(e), WellFormed(e), ~IsNews(e),
           batch' = batch, alive, alive' = alive, PlacesInv', SameIncoming
    PROVE  HandlesInv'
  <1>1. FifoOK /\ LoopOK /\ Announced(Stream) /\ EventsInv
    BY DEF TInv, HandlesInv
  <1>2. Stream' = Stream \/ Adds(Stream, Stream', e)
    BY <1>1, EnqueueStream
  <1>3. Len(Stream) \in Nat
    BY <1>1, StreamTyped
  <1>4. Announced(Stream') /\ All(Stream') \subseteq All(Stream) \cup {e}
    BY <1>1, <1>2, <1>3, AnnouncedAdds, AllAdds
  <1>5. Announced(Stream)' /\ EventsInv'
    BY <1>1, <1>4, AnnouncedSame DEF Announced, EventsInv
  <1> QED BY <1>5 DEF HandlesInv, Ended

LEMMA LibRouteHandles ==
    ASSUME TInv, HandlesInv, NEW p \in Peers,
           LibFails(p) \/ \E r \in {"direct", "relay"} : LibRoute(p, r)
    PROVE  HandlesInv'
  <1>1. PICK s \in {"failed", "direct", "relay"}, t \in {"state", "ice"} :
          /\ Running(p) /\ peer' = [peer EXCEPT ![p] = s] /\ Enqueue(PeerEvent(t, p))
    BY DEF LibFails, LibRoute
  <1>2. /\ active' = active /\ pending' = pending /\ alive' = alive /\ batch' = batch
        /\ handle' = handle
    BY DEF LibFails, LibRoute, Callback, loop
  <1>3. alive /\ p \in {active.pc, pending.pc}
    BY <1>1, LibraryActs DEF Running
  <1>4. PeerEvent(t, p) \in Events /\ PeerEvent(t, p).type = t
    BY EventTyped DEF PeerEvent, Event, EventTypes
  <1>5. PlacesInv' /\ SameIncoming
    <2>1. peer \in [Peers -> PeerStates]
      BY SlotsTyped DEF TInv
    <2>2. \A q \in Peers : peer'[q] = IF q = p THEN s ELSE peer[q]
      BY <1>1, <2>1
    <2> QED BY <1>2, <1>3, <2>2 DEF HandlesInv, PlacesInv, InPlace, Holds, SameIncoming
  <1>6. WellFormed(PeerEvent(t, p)) /\ ~IsNews(PeerEvent(t, p))
    BY <1>4 DEF WellFormed, IsNews
  <1> QED BY <1>1, <1>2, <1>3, <1>4, <1>5, <1>6, LibraryQueues

LEMMA LibHandleHandles ==
    ASSUME TInv, HandlesInv, NEW h \in Handles, LibOpens(h) \/ LibCloses(h) \/ LibMessage(h)
    PROVE  HandlesInv'
  <1>1. handle[h] = "hooked" /\ handle' \in {handle, [handle EXCEPT ![h] = "shut"]}
        /\ active' = active /\ pending' = pending /\ peer' = peer /\ alive' = alive /\ batch' = batch
    BY DEF LibOpens, LibCloses, LibMessage, Callback, external, loop
  <1>2. PICK e \in {HandleEvent("isOpen", h), HandleEvent("isClosed", h),
                    Event("data", h.pc, h, sent[h] + 1)} : Enqueue(e)
    BY DEF LibOpens, LibCloses, LibMessage
  <1>3. alive /\ h.kind \in Kinds
    BY <1>1, LibraryActs
  <1>4. e \in Events /\ e.type \in {"isOpen", "isClosed", "data"} /\ e.handle = h
    <2>1. sent[h] + 1 \in Nat
      BY DEF TInv, LibraryOK
    <2>2. Event("data", h.pc, h, sent[h] + 1) \in Events
      BY <2>1, KindsOf DEF Event, Events, EventTypes
    <2>3. HandleEvent("isOpen", h) \in Events /\ HandleEvent("isClosed", h) \in Events
      BY HandleEventTyped DEF EventTypes
    <2> QED BY <2>2, <2>3 DEF HandleEvent, Event
  <1>5. WellFormed(e) /\ ~IsNews(e)
    BY <1>3, <1>4 DEF WellFormed, IsNews
  <1>6. PlacesInv' /\ SameIncoming
    <2>1. handle \in [Handles -> HandleStates]
      BY SlotsTyped DEF TInv
    <2>2. \A i \in Handles : handle'[i] = handle[i] \/ (i = h /\ handle'[i] = "shut")
      BY <1>1, <2>1
    <2> QED BY <1>1, <2>2 DEF HandlesInv, PlacesInv, InPlace, Holds, SameIncoming
  <1> QED BY <1>1, <1>2, <1>3, <1>4, <1>5, <1>6, LibraryQueues

LEMMA LibChannelHandles ==
    ASSUME TInv, HandlesInv, NEW h \in Handles, LibChannel(h)
    PROVE  HandlesInv'
  <1>1. /\ handle[h] = "none" /\ h.kind # "video" /\ alive /\ alive' = alive
        /\ handle' = [handle EXCEPT ![h] = IF Full THEN "gone" ELSE "incoming"]
        /\ active' = active /\ pending' = pending /\ peer' = peer /\ batch' = batch
        /\ Enqueue(HandleEvent("channel", h))
    <2>1. h.kind \in {"data", "input", "other"} /\ peer[h.pc] \in {"direct", "relay"}
      BY PeerAssumption DEF LibChannel
    <2>2. alive
      BY <2>1, LibraryActs, KindsOf
    <2> QED BY <2>1, <2>2 DEF LibChannel, Callback, external, loop
  <1> DEFINE e == HandleEvent("channel", h)
  <1>2. e \in Events /\ e.type = "channel" /\ e.handle = h
    BY HandleEventTyped DEF HandleEvent, Event, EventTypes
  <1> HIDE DEF e
  <1>3. FifoOK /\ LoopOK /\ Announced(Stream) /\ EventsInv /\ PlacesInv
    BY DEF TInv, HandlesInv
  <1>4. /\ Full => Stream' = Stream
        /\ ~Full => Adds(Stream, Stream', e)
    BY <1>1, <1>2, <1>3, EnqueueStream DEF e
  <1>5. Len(Stream) \in Nat
    BY <1>3, StreamTyped
  <1>6. handle \in [Handles -> HandleStates]
    BY SlotsTyped DEF TInv
  <1>7. \A i \in Handles : handle'[i] = IF i = h THEN IF Full THEN "gone" ELSE "incoming" ELSE handle[i]
    BY <1>1, <1>6
  <1>8. PlacesInv'
    <2>1. \A i \in Handles : handle'[i] \in {"hooked", "shut"} <=> handle[i] \in {"hooked", "shut"}
      BY <1>1, <1>7
    <2> QED BY <1>1, <1>3, <2>1 DEF PlacesInv, InPlace, Holds
  <1>9. \A x \in All(Stream) : IsNews(x) => x.handle # h
    BY <1>1, <1>3 DEF Announced
  <1>10. CASE Full
    <2>1. SameIncoming
      BY <1>1, <1>7, <1>10 DEF SameIncoming
    <2>2. Announced(Stream)' /\ EventsInv'
      BY <1>3, <1>4, <1>10, <2>1, AnnouncedSame DEF Announced, EventsInv
    <2> QED BY <1>1, <1>8, <2>2 DEF HandlesInv, Ended
  <1>11. CASE ~Full
    <2>1. Adds(Stream, Stream', e) /\ All(Stream') = All(Stream) \cup {e}
      BY <1>4, <1>5, <1>11, AllAdds
    <2>2. Once(Stream')
      <3> SUFFICES ASSUME NEW i \in 1 .. Len(Stream'), NEW j \in 1 .. Len(Stream'), i # j,
                          IsNews(Stream'[i]), IsNews(Stream'[j]), Stream'[i].handle = Stream'[j].handle
                   PROVE  FALSE
        BY DEF Once
      <3>1. /\ \A k \in 1 .. Len(Stream) : Stream'[k] = Stream[k] /\ Stream[k] \in All(Stream)
            /\ Stream'[Len(Stream')] = e /\ Len(Stream') = Len(Stream) + 1
        BY <2>1 DEF Adds, All
      <3>2. CASE i \in 1 .. Len(Stream) /\ j \in 1 .. Len(Stream)
        BY <1>3, <3>1, <3>2 DEF Announced, Once
      <3>3. CASE i = Len(Stream') /\ j \in 1 .. Len(Stream)
        BY <1>2, <1>9, <3>1, <3>3
      <3>4. CASE j = Len(Stream') /\ i \in 1 .. Len(Stream)
        BY <1>2, <1>9, <3>1, <3>4
      <3> QED BY <1>5, <3>1, <3>2, <3>3, <3>4
    <2>3. \A x \in All(Stream') : IsNews(x) => x.handle \in Handles /\ handle'[x.handle] = "incoming"
      BY <1>2, <1>3, <1>7, <1>11, <2>1 DEF Announced
    <2>4. \A i \in Handles : handle'[i] = "incoming" =>
            i.kind # "video" /\ \E x \in All(Stream') : IsNews(x) /\ x.handle = i
      <3> SUFFICES ASSUME NEW i \in Handles, handle'[i] = "incoming"
                   PROVE  i.kind # "video" /\ \E x \in All(Stream') : IsNews(x) /\ x.handle = i
        OBVIOUS
      <3>1. CASE i = h
        BY <1>1, <1>2, <2>1, <3>1 DEF IsNews
      <3>2. CASE i # h
        BY <1>3, <1>7, <2>1, <3>2 DEF Announced
      <3> QED BY <3>1, <3>2
    <2>5. Announced(Stream)' /\ EventsInv'
      BY <1>2, <1>3, <2>1, <2>2, <2>3, <2>4 DEF Announced, EventsInv, WellFormed
    <2> QED BY <1>1, <1>8, <2>5 DEF HandlesInv, Ended
  <1> QED BY <1>10, <1>11

LEMMA HandlesStep ==
    ASSUME TInv, HandlesInv, [Next]_vars
    PROVE  HandlesInv'
  <1>1. CASE Relay
    BY <1>1, SignalingHandles DEF Relay, TInv
  <1>2. CASE SendFails \/ UNCHANGED vars
    <2>1. /\ active' = active /\ pending' = pending /\ peer' = peer /\ handle' = handle
          /\ queue' = queue /\ batch' = batch /\ turn' = turn /\ alive' = alive
      BY <1>2 DEF SendFails, vars, peers, fifo, loop
    <2>2. PlacesInv' /\ Announced(Stream)' /\ EventsInv' /\ Ended'
      BY <2>1 DEF HandlesInv, PlacesInv, InPlace, Holds, Announced, EventsInv, Ended, Stream
    <2> QED BY <2>2 DEF HandlesInv
  <1>3. CASE Turn
    BY <1>3, StartTurnHandles, OnDataChannelHandles, FirstStageHandles, DispatchOpenHandles,
       DispatchClosedHandles, DispatchPendingHandles, DispatchDataHandles DEF Turn
  <1>4. CASE Library
    BY <1>4, LibRouteHandles, LibHandleHandles, LibChannelHandles DEF Library
  <1> QED BY <1>1, <1>2, <1>3, <1>4 DEF Next

LEMMA HandlesInit == Init => HandlesInv
  <1> SUFFICES ASSUME Init PROVE HandlesInv
    OBVIOUS
  <1>1. Stream = <<>> /\ All(Stream) = {}
    BY DEF Init, Stream, All
  <1>2. PlacesInv
    BY NoPlace, KindsOf DEF Init, PlacesInv
  <1>3. Announced(Stream) /\ EventsInv
    BY <1>1 DEF Init, Announced, Once, EventsInv
  <1> QED BY <1>2, <1>3 DEF HandlesInv, Ended, Init

LEMMA HandlesInvHolds == Spec => []HandlesInv
  <1>1. Init => HandlesInv
    BY HandlesInit
  <1>2. TInv /\ HandlesInv /\ [Next]_vars => HandlesInv'
    BY HandlesStep
  <1> QED BY <1>1, <1>2, TInvHolds, PTL DEF Spec

(* No channel, track or peer of the library is ever forgotten, whatever the *)
(* order in which channels come in, peers are replaced and queues overflow  *)
(* (DirectGate_WebRTC_OnDataChannel, _DiscardEvent, _Destroy).              *)
THEOREM NoHandleIsForgotten == Spec => []NothingLeaks
  <1>1. TInv /\ HandlesInv => NothingLeaks
    <2> SUFFICES ASSUME TInv, HandlesInv PROVE NothingLeaks
      OBVIOUS
    <2>1. PeersOK /\ FifoOK /\ LoopOK /\ PlacesInv /\ Announced(Stream)
      BY DEF TInv, HandlesInv
    <2>2. ASSUME NEW h \in Handles
          PROVE  /\ handle[h] \in {"hooked", "shut"} <=> Attached(h)
                 /\ handle[h] = "incoming" => h \in Notified(queue) \cup Notified(batch)
      BY <2>1, AttachedIs, AllOf DEF PlacesInv, Announced, IsNews
    <2>3. \A p \in Peers : peer[p] \notin {"none", "gone"} <=> Known(p)
      BY <2>1, KindsOf DEF PlacesInv, Known
    <2> QED BY <2>2, <2>3 DEF NothingLeaks
  <1> QED BY <1>1, TInvHolds, HandlesInvHolds, PTL

(* The end of a session in the middle of a turn leaves nothing that could   *)
(* touch it (pDispatchAlive, DirectGate_WebRTC_Clear).                      *)
THEOREM TheEndIsFinal == Spec => []NothingAfterTheEnd
  <1>1. TInv /\ HandlesInv => NothingAfterTheEnd
    <2> SUFFICES ASSUME TInv, HandlesInv, ~alive PROVE NothingAfterTheEnd
      BY DEF NothingAfterTheEnd
    <2>1. /\ turn = "idle" /\ batch = <<>> /\ queue = <<>> /\ active.pc = 0 /\ pending.pc = 0
          /\ PeersOK /\ PlacesInv /\ Announced(Stream)
      BY DEF TInv, HandlesInv, Ended
    <2>2. All(Stream) = {}
      BY <2>1 DEF Stream, All
    <2>3. ASSUME NEW h \in Handles PROVE handle[h] \in {"none", "gone"}
      <3>1. handle[h] \notin {"hooked", "shut"}
        BY <2>1, AttachedIs DEF PlacesInv
      <3>2. handle[h] # "incoming"
        BY <2>1, <2>2 DEF Announced
      <3> QED BY <2>1, <3>1, <3>2, SlotsTyped DEF HandleStates
    <2> QED BY <2>1, <2>3 DEF NothingAfterTheEnd
  <1> QED BY <1>1, TInvHolds, HandlesInvHolds, PTL

-----------------------------------------------------------------------------
(* What is known of the background peer, and on what evidence.              *)

Blank(s) == ~s.direct /\ ~s.dataOpen /\ ~s.videoOpen /\ ~s.signaled
SameNews(s, t) ==
    /\ t.pc = s.pc /\ t.direct = s.direct /\ t.dataOpen = s.dataOpen
    /\ t.videoOpen = s.videoOpen /\ t.signaled = s.signaled

Evident(e) ==
    /\ e.type = "direct" => e.pc \in direct
    /\ e.type \in {"open", "isOpen"} => e.handle \in opened

(* A peer is known to be direct, and a channel to be open, once it was.     *)
RouteInv ==
    /\ \A p \in Peers : peer[p] = "direct" => p \in direct
    /\ pending.direct => pending.pc \in direct
    /\ pending.dataOpen => \E h \in opened : h.pc = pending.pc /\ h.kind = "data"
    /\ pending.videoOpen => VideoTrack(pending.pc) \in opened
    /\ \A e \in All(Stream) : Evident(e)

Upgrade ==
    active.pc # 0 /\ active'.pc # active.pc =>
      \/ /\ active'.pc = pending.pc /\ connected'
         /\ pending.pc \in direct
         /\ \E h \in opened : h.pc = pending.pc /\ h.kind = "data"
         /\ video => VideoTrack(pending.pc) \in opened
      \/ /\ pending'.pc = 0 /\ ~connected' /\ batch' = <<>> /\ queue' = <<>>
         /\ \/ failed \/ ~alive'
            \/ active'.gen > active.gen \/ 0 \in {active.gen, active'.gen}

Remembered == direct \subseteq direct' /\ opened \subseteq opened'
NoneNewlyDirect == \A p \in Peers : peer'[p] = "direct" => peer[p] = "direct"

LEMMA RouteKept ==
    ASSUME TInv, RouteInv, Remembered, NoneNewlyDirect, Blank(pending') \/ SameNews(pending, pending'),
           NEW e, All(Stream') \subseteq All(Stream) \cup {e}, Evident(e)' \/ e \in All(Stream)
    PROVE  RouteInv'
  <1>1. \A p \in Peers : peer'[p] = "direct" => p \in direct'
    BY DEF RouteInv, Remembered, NoneNewlyDirect
  <1>2. /\ pending'.direct => pending'.pc \in direct'
        /\ pending'.dataOpen => \E h \in opened' : h.pc = pending'.pc /\ h.kind = "data"
        /\ pending'.videoOpen => VideoTrack(pending'.pc) \in opened'
    BY DEF RouteInv, Remembered, Blank, SameNews, VideoTrack
  <1>3. ASSUME NEW x \in All(Stream') PROVE Evident(x)'
    BY DEF RouteInv, Remembered, Evident
  <1> QED BY <1>1, <1>2, <1>3 DEF RouteInv

\* The stream while an event is dispatched, and what is queued meanwhile.
LEMMA DispatchAll ==
    ASSUME FifoOK, LoopOK, Proceed, turn = "dispatch"
    PROVE  /\ Head(batch) \in All(Stream)
           /\ queue' = queue => /\ All(Stream') \subseteq All(Stream)
                                /\ All(Stream) \subseteq All(Stream') \cup {Head(batch)}
           /\ \A e \in Events : Enqueue(e) =>
                /\ All(Stream') \subseteq All(Stream) \cup {e}
                /\ All(Stream) \subseteq All(Stream') \cup {Head(batch)}
                /\ failed' \/ e \in All(Stream')
  <1> DEFINE M == Rest \o queue
  <1>1. /\ Drops(Stream, M) /\ Stream[1] = Head(batch) /\ M \in Seq(Events)
        /\ queue' = queue => Stream' = M
        /\ \A e \in Events : Enqueue(e) =>
             IF Full THEN Stream' = M /\ failed' ELSE Adds(M, Stream', e) /\ ~failed'
    BY ProceedStream
  <1> HIDE DEF M
  <1>2. Len(Stream) \in Nat /\ Len(M) \in Nat
    BY <1>1, SeqOf, StreamTyped
  <1>3. All(Stream) = All(M) \cup {Head(batch)}
    BY <1>1, <1>2, AllDrops
  <1>4. ASSUME NEW e \in Events, Enqueue(e)
        PROVE  /\ All(Stream') \subseteq All(M) \cup {e} /\ All(M) \subseteq All(Stream')
               /\ failed' \/ e \in All(Stream')
    <2>1. CASE Full
      BY <1>1, <1>4, <2>1
    <2>2. CASE ~Full
      <3>1. Adds(M, Stream', e)
        BY <1>1, <1>4, <2>2
      <3> QED BY <1>2, <3>1, AllAdds
    <2> QED BY <2>1, <2>2
  <1> QED BY <1>1, <1>3, <1>4

LEMMA NoStream ==
    ASSUME Drained PROVE All(Stream') = {} /\ batch' = <<>> /\ queue' = <<>> /\ ~failed'
  <1>1. Stream' = <<>>
    BY DEF Drained, Stream
  <1> QED BY <1>1 DEF All, Drained

LEMMA QuietProceed ==
    ASSUME FifoOK, LoopOK, Proceed, UNCHANGED fifo, turn \in {"idle", "dispatch"}
    PROVE  /\ All(Stream') \subseteq All(Stream)
           /\ turn = "idle" => All(Stream') = All(Stream)
           /\ turn = "dispatch" => All(Stream) \subseteq All(Stream') \cup {Head(batch)}
  <1>1. queue' = queue
    BY DEF fifo
  <1>2. CASE turn = "dispatch"
    BY <1>1, <1>2, DispatchAll
  <1>3. CASE turn = "idle"
    <2>1. batch = <<>> /\ batch' = <<>>
      BY <1>3 DEF LoopOK, Proceed, Rest
    <2> QED BY <1>1, <1>3, <2>1 DEF Stream
  <1> QED BY <1>2, <1>3

\* Closing and replacing peers makes none direct and learns nothing.
LEMMA PromoteRoute ==
    ASSUME TInv, RouteInv, PromotePending
    PROVE  /\ NoneNewlyDirect /\ Upgrade
           /\ Blank(pending') \/ SameNews(pending, pending')
  <1>1. CASE ~CanPromote
    BY <1>1 DEF PromotePending, peers, NoneNewlyDirect, SameNews, Upgrade
  <1>2. CASE CanPromote
    <2>1. /\ active'.pc = pending.pc /\ connected' /\ pending' = NoPending /\ peer' = Gone({active.pc})
      BY <1>2 DEF PromotePending
    <2>2. pending.direct /\ pending.dataOpen /\ (video => pending.videoOpen)
      BY <1>2 DEF CanPromote
    <2>3. Upgrade
      BY <2>1, <2>2 DEF Upgrade, RouteInv
    <2> QED BY <2>1, <2>3, SlotsTyped, GoneIs DEF NoneNewlyDirect, Blank, NoPending, TInv
  <1> QED BY <1>1, <1>2

LEMMA DestroyPendingRoute ==
    ASSUME TInv, DestroyPending
    PROVE  NoneNewlyDirect /\ Upgrade /\ Blank(pending')
  BY SlotsTyped, GoneIs DEF DestroyPending, NoneNewlyDirect, Blank, NoPending, Upgrade, TInv

LEMMA DestroyRoute ==
    ASSUME TInv, Destroy, failed \/ ~alive'
    PROVE  NoneNewlyDirect /\ Upgrade /\ Blank(pending') /\ All(Stream') = {}
  <1>1. /\ peer' = Gone({active.pc, pending.pc}) /\ pending' = NoPending /\ connected' = FALSE /\ Drained
    BY DEF Destroy
  <1>2. NoneNewlyDirect
    BY <1>1, SlotsTyped, GoneIs DEF NoneNewlyDirect, TInv
  <1> QED BY <1>1, <1>2, NoStream DEF Blank, NoPending, Upgrade

\* An offer that is taken for the active peer is a newer one.
LEMMA NewerOffer ==
    ASSUME PeersOK, NEW g \in Nat, ~Stale(g)
    PROVE  g > active.gen \/ 0 \in {active.gen, g}
  BY LatestBounds, Numbers DEF Stale

LEMMA OfferRoute ==
    ASSUME TInv, RouteInv, NEW g \in Gens, NEW bg \in BOOLEAN, NEW v, NEW track \in BOOLEAN,
           HandleOffer(g, bg, v, track), turn \in {"idle", "dispatch"}
    PROVE  /\ NoneNewlyDirect /\ Upgrade
           /\ Blank(pending') \/ SameNews(pending, pending')
           /\ All(Stream') \subseteq All(Stream)
  <1>1. PeersOK /\ FifoOK /\ LoopOK /\ g \in Nat
    BY PeerAssumption DEF TInv
  <1>2. ASSUME NEW ps, NEW p \in Peers, peer' = [Gone(ps) EXCEPT ![p] = "checking"]
        PROVE  NoneNewlyDirect
    <2>1. \A q \in Peers : peer'[q] \in {"checking", "gone", peer[q]}
      BY <1>1, <1>2, SlotsTyped, GoneIs DEF Gone
    <2> QED BY <2>1 DEF NoneNewlyDirect
  <1>3. CASE DropOffer(g)
    <2>1. All(Stream') \subseteq All(Stream)
      BY <1>1, <1>3, QuietProceed DEF DropOffer
    <2> QED BY <1>3, <2>1 DEF DropOffer, peers, NoneNewlyDirect, Upgrade, SameNews
  <1>4. ASSUME NEW p \in Peers, OfferPending(g, p, track)
        PROVE  NoneNewlyDirect /\ Upgrade /\ Blank(pending') /\ All(Stream') \subseteq All(Stream)
    <2>1. All(Stream') \subseteq All(Stream)
      BY <1>1, <1>4, QuietProceed DEF OfferPending
    <2>2. NoneNewlyDirect
      BY <1>2, <1>4 DEF OfferPending
    <2> QED BY <1>4, <2>1, <2>2 DEF OfferPending, Upgrade, Blank, NoPending
  <1>5. CASE OfferPendingFails
    <2>1. All(Stream') \subseteq All(Stream)
      BY <1>1, <1>5, QuietProceed DEF OfferPendingFails
    <2> QED BY <1>5, <2>1, DestroyPendingRoute DEF OfferPendingFails
  <1>6. ASSUME NEW p \in Peers, ~Stale(g), OfferActive(g, p, track)
        PROVE  NoneNewlyDirect /\ Upgrade /\ Blank(pending') /\ All(Stream') \subseteq All(Stream)
    <2>1. All(Stream') = {} /\ batch' = <<>> /\ queue' = <<>>
      BY <1>6, NoStream DEF OfferActive
    <2>2. NoneNewlyDirect
      BY <1>2, <1>6 DEF OfferActive
    <2>3. active'.gen = g /\ pending' = NoPending /\ connected' = FALSE
      BY <1>6 DEF OfferActive
    <2>4. Upgrade
      BY <1>1, <1>6, <2>1, <2>3, NewerOffer DEF Upgrade, NoPending
    <2> QED BY <2>1, <2>2, <2>3, <2>4 DEF Blank, NoPending
  <1>7. ASSUME NEW described, ~Stale(g), OfferActiveFails(g, described)
        PROVE  NoneNewlyDirect /\ Upgrade /\ Blank(pending') /\ All(Stream') \subseteq All(Stream)
    <2>1. All(Stream') = {} /\ batch' = <<>> /\ queue' = <<>>
      BY <1>7, NoStream DEF OfferActiveFails
    <2>2. NoneNewlyDirect
      BY <1>1, <1>7, SlotsTyped, GoneIs DEF NoneNewlyDirect, OfferActiveFails
    <2>3. active'.gen = g /\ pending' = NoPending /\ connected' = FALSE
      BY <1>7 DEF OfferActiveFails, NoActive
    <2>4. Upgrade
      BY <1>1, <1>7, <2>1, <2>3, NewerOffer DEF Upgrade, NoPending
    <2> QED BY <2>1, <2>2, <2>3, <2>4 DEF Blank, NoPending
  <1> QED BY <1>3, <1>4, <1>5, <1>6, <1>7 DEF HandleOffer

LEMMA SignalingRoute ==
    ASSUME TInv, RouteInv, Signaling, direct' = direct, opened' = opened, turn \in {"idle", "dispatch"}
    PROVE  RouteInv' /\ Upgrade
  <1>1. Remembered /\ PeersOK /\ FifoOK /\ LoopOK
    BY DEF Remembered, TInv
  <1>2. ASSUME NoneNewlyDirect, Blank(pending') \/ SameNews(pending, pending'),
               All(Stream') \subseteq All(Stream)
        PROVE  RouteInv'
    <2>1. CASE All(Stream) = {}
      <3>1. \A e \in All(Stream') : Evident(e)'
        BY <1>2, <2>1
      <3>2. /\ \A p \in Peers : peer'[p] = "direct" => p \in direct'
            /\ pending'.direct => pending'.pc \in direct'
            /\ pending'.dataOpen => \E h \in opened' : h.pc = pending'.pc /\ h.kind = "data"
            /\ pending'.videoOpen => VideoTrack(pending'.pc) \in opened'
        BY <1>1, <1>2 DEF RouteInv, Remembered, NoneNewlyDirect, Blank, SameNews, VideoTrack
      <3> QED BY <3>1, <3>2 DEF RouteInv
    <2>2. ASSUME NEW e \in All(Stream) PROVE RouteInv'
      <3>1. All(Stream') \subseteq All(Stream) \cup {e}
        BY <1>2
      <3> QED BY <1>1, <1>2, <2>2, <3>1, RouteKept
    <2> QED BY <2>1, <2>2
  <1>3. ASSUME NEW g \in Gens, NEW bg \in BOOLEAN, NEW track \in BOOLEAN, NEW v \in VideoModes,
               HandleOffer(g, bg, v, track)
        PROVE  RouteInv' /\ Upgrade
    BY <1>2, <1>3, OfferRoute
  <1>4. ASSUME NEW g, CommitPending(g) PROVE RouteInv' /\ Upgrade
    <2>1. All(Stream') \subseteq All(Stream)
      BY <1>1, <1>4, QuietProceed DEF CommitPending
    <2>2. CASE PromotePending
      BY <1>2, <2>1, <2>2, PromoteRoute
    <2>3. CASE UNCHANGED peers
      BY <1>2, <2>1, <2>3 DEF peers, NoneNewlyDirect, SameNews, Upgrade
    <2> QED BY <1>4, <2>2, <2>3 DEF CommitPending
  <1>5. ASSUME NEW c \in Cands, HandleIceCandidate(c) PROVE RouteInv' /\ Upgrade
    <2>1. All(Stream') \subseteq All(Stream)
      BY <1>1, <1>5, QuietProceed DEF HandleIceCandidate
    <2> QED BY <1>2, <1>5, <2>1 DEF HandleIceCandidate, peers, NoneNewlyDirect, SameNews, Upgrade
  <1>6. CASE Clear
    BY <1>2, <1>6, DestroyRoute DEF Clear
  <1> QED BY <1>3, <1>4, <1>5, <1>6 DEF Signaling

-----------------------------------------------------------------------------
(* What the loop learns in a turn, and on what evidence.                    *)

Vouched ==
    /\ pending.direct => pending.pc \in direct
    /\ pending.dataOpen => \E h \in opened : h.pc = pending.pc /\ h.kind = "data"
    /\ pending.videoOpen => VideoTrack(pending.pc) \in opened

LEMMA VouchedKept ==
    ASSUME RouteInv, Remembered, Blank(pending') \/ SameNews(pending, pending')
    PROVE  Vouched'
  BY DEF RouteInv, Remembered, Blank, SameNews, VideoTrack, Vouched

LEMMA DispatchedRoute ==
    ASSUME TInv, RouteInv, turn = "dispatch", Dispatched, NoneNewlyDirect, Vouched',
           UNCHANGED fifo \/ \E e \in Events : Evident(e) /\ Enqueue(e)
    PROVE  RouteInv'
  <1>1. direct' = direct /\ opened' = opened /\ Proceed /\ FifoOK /\ LoopOK
    BY DEF Dispatched, TInv
  <1>2. \A p \in Peers : peer'[p] = "direct" => p \in direct'
    BY <1>1 DEF RouteInv, NoneNewlyDirect
  <1>3. \A e : Evident(e) => Evident(e)'
    BY <1>1 DEF Evident
  <1>4. CASE UNCHANGED fifo
    <2>1. All(Stream') \subseteq All(Stream)
      BY <1>1, <1>4, QuietProceed
    <2> QED BY <1>2, <1>3, <2>1 DEF RouteInv, Vouched
  <1>5. ASSUME NEW e \in Events, Evident(e), Enqueue(e) PROVE RouteInv'
    <2>1. All(Stream') \subseteq All(Stream) \cup {e}
      BY <1>1, <1>5, DispatchAll
    <2>2. \A x \in All(Stream') : Evident(x)'
      BY <1>3, <1>5, <2>1 DEF RouteInv
    <2> QED BY <1>2, <2>2 DEF RouteInv, Vouched
  <1> QED BY <1>4, <1>5

LEMMA PeersRoute ==
    ASSUME UNCHANGED peers
    PROVE  NoneNewlyDirect /\ Upgrade /\ SameNews(pending, pending')
  BY DEF peers, NoneNewlyDirect, Upgrade, SameNews

LEMMA PeerEventEvident ==
    ASSUME NEW t \in {"direct", "failed", "ready"}, NEW p \in Peers, t = "direct" => p \in direct
    PROVE  PeerEvent(t, p) \in Events /\ Evident(PeerEvent(t, p))
  <1>1. PeerEvent(t, p).type = t /\ PeerEvent(t, p).pc = p
    BY DEF PeerEvent, Event
  <1> QED BY <1>1, EventTyped DEF EventTypes, Evident

LEMMA ForwardEvident ==
    ASSUME NEW r, NEW e, Forward(r, e), r => e \in Events /\ Evident(e)
    PROVE  UNCHANGED fifo \/ \E x \in Events : Evident(x) /\ Enqueue(x)
  BY DEF Forward

LEMMA FirstStageRoute ==
    ASSUME TInv, HandlesInv, RouteInv, OnHandleState \/ OnIceStateChange \/ OnStateChange
    PROVE  RouteInv' /\ Upgrade
  <1>1. /\ turn = "dispatch" /\ Dispatched /\ UNCHANGED peers /\ FifoOK /\ LoopOK
        /\ Head(batch) \in All(Stream) /\ Head(batch).pc \in Peers
    BY HeadInStream, HeadTyped DEF OnHandleState, OnIceStateChange, OnStateChange, Dispatching, TInv
  <1>2. NoneNewlyDirect /\ Upgrade /\ SameNews(pending, pending') /\ Remembered
    BY <1>1, PeersRoute DEF Dispatched, Remembered
  <1>3. UNCHANGED fifo \/ \E x \in Events : Evident(x) /\ Enqueue(x)
    <2>1. CASE OnHandleState
      <3> DEFINE h == Head(batch).handle
                 t == IF Head(batch).type = "isOpen" THEN "open" ELSE "closed"
      <3>1. Head(batch).type \in {"isOpen", "isClosed"} /\ Forward(Attached(h), HandleEvent(t, h))
        BY <2>1 DEF OnHandleState, Dispatching
      <3>2. h \in Handles /\ t \in EventTypes /\ (t = "open" => h \in opened)
        BY <1>1, <3>1 DEF HandlesInv, EventsInv, WellFormed, RouteInv, Evident, EventTypes
      <3>3. HandleEvent(t, h).type = t /\ HandleEvent(t, h).handle = h /\ t \in {"open", "closed"}
        BY DEF HandleEvent, Event
      <3> HIDE DEF h, t
      <3>4. HandleEvent(t, h) \in Events /\ Evident(HandleEvent(t, h))
        BY <3>2, <3>3, HandleEventTyped DEF Evident
      <3> QED BY <3>1, <3>4, ForwardEvident
    <2>2. CASE OnIceStateChange
      <3> DEFINE p == Head(batch).pc
      <3>1. PICK route \in Found(p) :
              Forward(p = pending.pc /\ route # "none",
                      PeerEvent(IF route = "direct" THEN "direct" ELSE "failed", p))
        BY <2>2 DEF OnIceStateChange
      <3>2. route = "direct" => p \in direct
        BY <1>1, <3>1 DEF Found, RouteInv
      <3>3. (IF route = "direct" THEN "direct" ELSE "failed") \in {"direct", "failed", "ready"}
            /\ ((IF route = "direct" THEN "direct" ELSE "failed") = "direct" => p \in direct)
        BY <3>2
      <3> QED BY <1>1, <3>1, <3>3, PeerEventEvident, ForwardEvident
    <2>3. CASE OnStateChange
      <3>1. Forward(Head(batch).pc = pending.pc, PeerEvent("failed", Head(batch).pc))
        BY <2>3 DEF OnStateChange
      <3> QED BY <1>1, <3>1, PeerEventEvident, ForwardEvident
    <2> QED BY <2>1, <2>2, <2>3
  <1>4. Vouched'
    BY <1>2, VouchedKept
  <1> QED BY <1>1, <1>2, <1>3, <1>4, DispatchedRoute

LEMMA OnDataChannelRoute ==
    ASSUME TInv, RouteInv, OnDataChannel
    PROVE  RouteInv' /\ Upgrade
  <1> DEFINE h == Head(batch).handle
  <1>1. turn = "dispatch" /\ Dispatched /\ UNCHANGED fifo /\ peer' = peer /\ PeersOK
    BY DEF OnDataChannel, Dispatching, TInv, fifo
  <1>2. /\ active' = active \/ active' = Attach(active, h)
        /\ pending' = pending \/ pending' = Attach(pending, h)
    BY DEF OnDataChannel
  <1>3. active'.pc = active.pc /\ SameNews(pending, pending')
    BY <1>1, <1>2 DEF PeersOK, ActiveRec, PendingRec, Attach, SameNews
  <1>4. Vouched'
    BY <1>1, <1>3, VouchedKept DEF Remembered, Dispatched
  <1> QED BY <1>1, <1>3, <1>4, DispatchedRoute DEF Upgrade, NoneNewlyDirect

LEMMA LearnRoute ==
    ASSUME TInv, RouteInv, turn = "dispatch", Dispatched, NEW s \in PendingRec, Learn(s),
           s.direct => s.pc \in direct,
           s.dataOpen => \E h \in opened : h.pc = s.pc /\ h.kind = "data",
           s.videoOpen => VideoTrack(s.pc) \in opened
    PROVE  RouteInv' /\ Upgrade
  <1> DEFINE announce == ~s.signaled /\ s.direct /\ s.dataOpen /\ (video => s.videoOpen)
  <1>1. /\ pending' = [s EXCEPT !.signaled = s.signaled \/ announce]
        /\ Forward(announce, PeerEvent("ready", s.pc))
        /\ active' = active /\ peer' = peer
    BY DEF Learn
  <1>2. announce => s.pc \in Peers
    BY DEF TInv, LibraryOK
  <1> HIDE DEF announce
  <1>3. /\ pending'.pc = s.pc /\ pending'.direct = s.direct
        /\ pending'.dataOpen = s.dataOpen /\ pending'.videoOpen = s.videoOpen
    BY <1>1 DEF PendingRec
  <1>4. Vouched'
    BY <1>3 DEF Vouched, Dispatched, VideoTrack
  <1>5. UNCHANGED fifo \/ \E x \in Events : Evident(x) /\ Enqueue(x)
    BY <1>1, <1>2, PeerEventEvident, ForwardEvident
  <1> QED BY <1>1, <1>4, <1>5, DispatchedRoute DEF NoneNewlyDirect, Upgrade

LEMMA DispatchOpenRoute ==
    ASSUME TInv, HandlesInv, RouteInv, DispatchOpen
    PROVE  RouteInv' /\ Upgrade
  <1> DEFINE h == Head(batch).handle
             s == IF h.kind = "data" THEN [pending EXCEPT !.dataOpen = TRUE]
                                     ELSE [pending EXCEPT !.videoOpen = TRUE]
  <1>1. /\ turn = "dispatch" /\ Head(batch).type = "open" /\ Dispatched
        /\ PeersOK /\ FifoOK /\ LoopOK /\ PlacesInv /\ EventsInv
    BY DEF DispatchOpen, Dispatching, TInv, HandlesInv
  <1>2. h \in Handles /\ h.kind \in Kinds /\ h \in opened
    BY <1>1, HeadInStream DEF EventsInv, WellFormed, RouteInv, Evident
  <1>3. CASE h = pending.slot[h.kind] /\ h.kind # "input"
    <2>1. Learn(s)
      BY <1>3 DEF DispatchOpen
    <2>2. h.pc = pending.pc /\ (h.kind # "data" => h = VideoTrack(pending.pc))
      BY <1>1, <1>2, <1>3, KindsOf DEF PlacesInv, InPlace, Kinds
    <2>3. /\ s \in PendingRec /\ s.pc = pending.pc /\ s.direct = pending.direct
          /\ s.dataOpen = (pending.dataOpen \/ h.kind = "data")
          /\ s.videoOpen = (pending.videoOpen \/ h.kind # "data")
      BY <1>1 DEF PeersOK, PendingRec
    <2> HIDE DEF s
    <2>4. /\ s.direct => s.pc \in direct
          /\ s.dataOpen => \E i \in opened : i.pc = s.pc /\ i.kind = "data"
          /\ s.videoOpen => VideoTrack(s.pc) \in opened
      BY <1>2, <2>2, <2>3 DEF RouteInv
    <2> QED BY <1>1, <2>1, <2>3, <2>4, LearnRoute
  <1>4. CASE ~(h = pending.slot[h.kind] /\ h.kind # "input")
    <2>1. active' = active /\ pending' = pending /\ peer' = peer /\ UNCHANGED fifo
      BY <1>4 DEF DispatchOpen, fifo
    <2>2. Vouched'
      BY <1>1, <2>1, VouchedKept DEF Remembered, Dispatched, SameNews
    <2> QED BY <1>1, <2>1, <2>2, DispatchedRoute DEF Upgrade, NoneNewlyDirect
  <1> QED BY <1>3, <1>4

LEMMA DispatchClosedNews ==
    ASSUME TInv, RouteInv, DispatchClosed
    PROVE  /\ NoneNewlyDirect /\ Upgrade
           /\ Blank(pending') \/ SameNews(pending, pending')
           /\ pending'.pc \in {0, pending.pc}
  <1> DEFINE h == Head(batch).handle
  <1>1. PeersOK
    BY DEF TInv
  <1>2. \/ UNCHANGED peers \/ DestroyPending \/ PromotePending
        \/ /\ active' = active \/ active' = Detached(active, h)
           /\ pending' = pending \/ pending' = Detached(pending, h)
           /\ peer' = peer
    BY DEF DispatchClosed, ActiveLost, peers
  <1>3. ASSUME active' = active \/ active' = Detached(active, h),
               pending' = pending \/ pending' = Detached(pending, h), peer' = peer
        PROVE  NoneNewlyDirect /\ Upgrade /\ SameNews(pending, pending')
    <2>1. active'.pc = active.pc /\ SameNews(pending, pending')
      BY <1>1, <1>3 DEF PeersOK, ActiveRec, PendingRec, Detached, SameNews
    <2> QED BY <1>3, <2>1 DEF NoneNewlyDirect, Upgrade
  <1>4. DestroyPending \/ PromotePending => pending'.pc = 0 \/ pending' = pending
    BY NoPlace DEF DestroyPending, PromotePending, peers
  <1> QED BY <1>2, <1>3, <1>4, PeersRoute, DestroyPendingRoute, PromoteRoute DEF SameNews

LEMMA DispatchClosedRoute ==
    ASSUME TInv, RouteInv, DispatchClosed
    PROVE  RouteInv' /\ Upgrade
  <1>1. turn = "dispatch" /\ Dispatched /\ UNCHANGED fifo /\ Remembered
    BY DEF DispatchClosed, Dispatching, fifo, Dispatched, Remembered
  <1>2. NoneNewlyDirect /\ Upgrade /\ Vouched'
    BY <1>1, DispatchClosedNews, VouchedKept
  <1> QED BY <1>1, <1>2, DispatchedRoute

LEMMA DispatchPendingRoute ==
    ASSUME TInv, RouteInv,
           DispatchPendingDirect \/ DispatchPendingFailed \/ DispatchSignal \/ DropData
    PROVE  RouteInv' /\ Upgrade
  <1>1. turn = "dispatch" /\ Dispatched /\ PeersOK /\ FifoOK /\ LoopOK /\ Remembered
    BY DEF DispatchPendingDirect, DispatchPendingFailed, DispatchSignal, DropData, Dispatching,
           TInv, Dispatched, Remembered
  <1>2. CASE UNCHANGED <<peers, fifo>>
    <2>1. NoneNewlyDirect /\ Upgrade /\ SameNews(pending, pending') /\ UNCHANGED fifo
      BY <1>2, PeersRoute DEF fifo
    <2> QED BY <1>1, <2>1, VouchedKept, DispatchedRoute
  <1>3. CASE DispatchPendingDirect /\ Head(batch).pc = pending.pc
    <2> DEFINE s == [pending EXCEPT !.direct = TRUE]
    <2>1. Learn(s) /\ Head(batch).type = "direct"
      BY <1>3 DEF DispatchPendingDirect, Dispatching
    <2>2. /\ s \in PendingRec /\ s.pc = pending.pc
          /\ s.dataOpen = pending.dataOpen /\ s.videoOpen = pending.videoOpen
      BY <1>1 DEF PeersOK, PendingRec
    <2>3. pending.pc \in direct
      BY <1>1, <1>3, <2>1, HeadInStream DEF RouteInv, Evident
    <2> HIDE DEF s
    <2>4. /\ s.direct => s.pc \in direct
          /\ s.dataOpen => \E i \in opened : i.pc = s.pc /\ i.kind = "data"
          /\ s.videoOpen => VideoTrack(s.pc) \in opened
      BY <2>2, <2>3 DEF RouteInv
    <2> QED BY <1>1, <2>1, <2>2, <2>4, LearnRoute
  <1>4. CASE DispatchPendingFailed
    <2>1. UNCHANGED fifo
      BY <1>4 DEF DispatchPendingFailed
    <2>2. /\ NoneNewlyDirect /\ Upgrade
          /\ Blank(pending') \/ SameNews(pending, pending')
      BY <1>4, DestroyPendingRoute, PeersRoute DEF DispatchPendingFailed
    <2> QED BY <1>1, <2>1, <2>2, VouchedKept, DispatchedRoute
  <1> QED BY <1>2, <1>3, <1>4 DEF DispatchPendingDirect, DispatchSignal, DropData

LEMMA DispatchDataRoute ==
    ASSUME TInv, RouteInv, DispatchData
    PROVE  RouteInv' /\ Upgrade
  <1>1. turn = "dispatch" /\ direct' = direct /\ opened' = opened /\ FifoOK /\ LoopOK
    BY DEF DispatchData, Dispatching, TInv
  <1>2. CASE Signaling
    BY <1>1, <1>2, SignalingRoute
  <1>3. CASE Proceed /\ UNCHANGED <<peers, fifo, video, ice, alive, signals>>
    <2>1. NoneNewlyDirect /\ Upgrade /\ SameNews(pending, pending') /\ Remembered
      BY <1>1, <1>3, PeersRoute DEF Remembered
    <2>2. All(Stream') \subseteq All(Stream) \cup {Head(batch)} /\ Head(batch) \in All(Stream)
      BY <1>1, <1>3, QuietProceed, HeadInStream
    <2> QED BY <2>1, <2>2, RouteKept
  <1> QED BY <1>2, <1>3 DEF DispatchData

LEMMA StartTurnRoute ==
    ASSUME TInv, RouteInv, StartTurn \/ Detach
    PROVE  RouteInv' /\ Upgrade
  <1>1. direct' = direct /\ opened' = opened /\ FifoOK /\ LoopOK /\ Remembered
    BY DEF StartTurn, Detach, TInv, Remembered
  <1>2. \A e : Evident(e) => Evident(e)'
    BY <1>1 DEF Evident
  <1>3. ASSUME NoneNewlyDirect, Blank(pending') \/ SameNews(pending, pending'),
               All(Stream') \subseteq All(Stream)
        PROVE  RouteInv'
    <2>1. Vouched' /\ \A p \in Peers : peer'[p] = "direct" => p \in direct'
      BY <1>1, <1>3, VouchedKept DEF NoneNewlyDirect, RouteInv
    <2> QED BY <1>2, <1>3, <2>1 DEF RouteInv, Vouched
  <1>4. CASE StartTurn /\ failed
    BY <1>3, <1>4, DestroyRoute DEF StartTurn
  <1>5. CASE (StartTurn /\ ~failed) \/ Detach
    <2>1. UNCHANGED peers
      BY <1>5 DEF StartTurn, Detach
    <2>2. Stream' = Stream
      <3>1. CASE StartTurn
        BY <1>5, <3>1 DEF StartTurn, Detach, Stream
      <3>2. CASE Detach
        <4>1. batch = <<>> /\ batch' = queue /\ queue' = <<>> /\ queue \in Seq(Events)
          BY <1>1, <3>2 DEF Detach, LoopOK, FifoOK
        <4>2. queue \o <<>> = queue /\ <<>> \o queue = queue
          BY <4>1, ConcatEmptySeq
        <4> QED BY <4>1, <4>2 DEF Stream
      <3> QED BY <1>5, <3>1, <3>2
    <2>3. All(Stream') \subseteq All(Stream)
      BY <2>2
    <2> QED BY <1>3, <2>1, <2>3, PeersRoute
  <1> QED BY <1>4, <1>5

LEMMA LibraryRoute ==
    ASSUME TInv, RouteInv, Library
    PROVE  RouteInv' /\ Upgrade
  <1>1. FifoOK /\ LoopOK /\ peer \in [Peers -> PeerStates]
    BY SlotsTyped DEF TInv
  <1>2. ASSUME NEW e \in Events, Enqueue(e), Callback, Remembered, Evident(e)',
               \A p \in Peers : peer'[p] = "direct" => peer[p] = "direct" \/ p \in direct'
        PROVE  RouteInv' /\ Upgrade
    <2>1. active' = active /\ pending' = pending /\ batch' = batch
      BY <1>2 DEF Callback, loop
    <2>2. Len(Stream) \in Nat /\ (Stream' = Stream \/ Adds(Stream, Stream', e))
      BY <1>1, <1>2, <2>1, EnqueueStream, StreamTyped
    <2>3. All(Stream') \subseteq All(Stream) \cup {e}
      BY <2>2, AllAdds
    <2>4. \A x \in All(Stream') : Evident(x)'
      <3>1. \A x : Evident(x) => Evident(x)'
        BY <1>2 DEF Evident, Remembered
      <3> QED BY <1>2, <2>3, <3>1 DEF RouteInv
    <2>5. Vouched'
      BY <1>2, <2>1, VouchedKept DEF SameNews
    <2>6. \A p \in Peers : peer'[p] = "direct" => p \in direct'
      BY <1>2 DEF RouteInv, Remembered
    <2> QED BY <2>1, <2>4, <2>5, <2>6 DEF RouteInv, Vouched, Upgrade
  <1>3. ASSUME NEW p \in Peers, NEW r \in {"direct", "relay"}, LibRoute(p, r)
        PROVE  RouteInv' /\ Upgrade
    <2>1. \A q \in Peers : peer'[q] = IF q = p THEN r ELSE peer[q]
      BY <1>1, <1>3 DEF LibRoute
    <2>2. Remembered /\ (r = "direct" => p \in direct')
      BY <1>3 DEF LibRoute, Remembered
    <2>3. PeerEvent("ice", p) \in Events /\ PeerEvent("ice", p).type = "ice"
      BY EventTyped DEF EventTypes, PeerEvent, Event
    <2>4. Evident(PeerEvent("ice", p))'
      BY <2>3 DEF Evident
    <2> QED BY <1>2, <1>3, <2>1, <2>2, <2>3, <2>4 DEF LibRoute
  <1>4. ASSUME NEW p \in Peers, LibFails(p) PROVE RouteInv' /\ Upgrade
    <2>1. \A q \in Peers : peer'[q] = IF q = p THEN "failed" ELSE peer[q]
      BY <1>1, <1>4 DEF LibFails
    <2>2. Remembered
      BY <1>4 DEF LibFails, Remembered
    <2>3. PeerEvent("state", p) \in Events /\ PeerEvent("state", p).type = "state"
      BY EventTyped DEF EventTypes, PeerEvent, Event
    <2>4. Evident(PeerEvent("state", p))'
      BY <2>3 DEF Evident
    <2> QED BY <1>2, <1>4, <2>1, <2>2, <2>3, <2>4 DEF LibFails
  <1>5. ASSUME NEW h \in Handles, LibChannel(h) \/ LibOpens(h) \/ LibCloses(h) \/ LibMessage(h)
        PROVE  RouteInv' /\ Upgrade
    <2>1. peer' = peer /\ Callback /\ Remembered
      BY <1>5 DEF LibChannel, LibOpens, LibCloses, LibMessage, Remembered, external
    <2>2. PICK e \in {HandleEvent("channel", h), HandleEvent("isOpen", h), HandleEvent("isClosed", h),
                      Event("data", h.pc, h, sent[h] + 1)} :
            Enqueue(e) /\ (e.type = "isOpen" => h \in opened')
      <3>1. /\ HandleEvent("channel", h).type = "channel" /\ HandleEvent("isClosed", h).type = "isClosed"
            /\ Event("data", h.pc, h, sent[h] + 1).type = "data"
        BY DEF HandleEvent, Event
      <3>2. LibOpens(h) => h \in opened'
        BY DEF LibOpens
      <3> QED BY <1>5, <3>1, <3>2 DEF LibChannel, LibOpens, LibCloses, LibMessage
    <2>3. e \in Events /\ e.handle = h /\ e.type \in {"channel", "isOpen", "isClosed", "data"}
      <3>1. sent[h] + 1 \in Nat
        BY DEF TInv, LibraryOK
      <3>2. Event("data", h.pc, h, sent[h] + 1) \in Events
        BY <3>1, KindsOf DEF Event, Events, EventTypes
      <3>3. /\ HandleEvent("channel", h) \in Events /\ HandleEvent("isOpen", h) \in Events
            /\ HandleEvent("isClosed", h) \in Events
        BY HandleEventTyped DEF EventTypes
      <3> QED BY <3>2, <3>3 DEF HandleEvent, Event
    <2>4. Evident(e)'
      BY <2>2, <2>3 DEF Evident
    <2> QED BY <1>2, <2>1, <2>2, <2>3, <2>4
  <1> QED BY <1>3, <1>4, <1>5 DEF Library

LEMMA RouteStep ==
    ASSUME TInv, HandlesInv, RouteInv, [Next]_vars
    PROVE  RouteInv' /\ Upgrade
  <1>1. CASE Relay
    BY <1>1, SignalingRoute DEF Relay
  <1>2. CASE SendFails \/ UNCHANGED vars
    <2>1. /\ active' = active /\ pending' = pending /\ peer' = peer /\ queue' = queue /\ batch' = batch
          /\ direct' = direct /\ opened' = opened
      BY <1>2 DEF SendFails, vars, peers, fifo, loop
    <2> QED BY <2>1 DEF RouteInv, Evident, Stream, Upgrade
  <1>3. CASE Turn
    BY <1>3, StartTurnRoute, OnDataChannelRoute, FirstStageRoute, DispatchOpenRoute,
       DispatchClosedRoute, DispatchPendingRoute, DispatchDataRoute DEF Turn
  <1>4. CASE Library
    BY <1>4, LibraryRoute
  <1> QED BY <1>1, <1>2, <1>3, <1>4 DEF Next

LEMMA RouteInit == Init => RouteInv
  <1> SUFFICES ASSUME Init PROVE RouteInv
    OBVIOUS
  <1>1. All(Stream) = {}
    BY DEF Init, Stream, All
  <1> QED BY <1>1 DEF Init, RouteInv, NoPending

LEMMA RouteInvHolds == Spec => []RouteInv
  <1>1. Init => RouteInv
    BY RouteInit
  <1>2. TInv /\ HandlesInv /\ RouteInv /\ [Next]_vars => RouteInv'
    BY RouteStep
  <1> QED BY <1>1, <1>2, TInvHolds, HandlesInvHolds, PTL DEF Spec

(* Only a channel in place delivers.                                        *)
LiveDelivers ==
    \A h \in Handles : delivered'[h] # delivered[h] => handle[h] \in {"hooked", "shut"} /\ Known(h.pc)

LEMMA DeliveryStep ==
    ASSUME TInv, HandlesInv, [Next]_vars
    PROVE  LiveDelivers
  <1>1. CASE DispatchData
    <2> DEFINE h == Head(batch).handle
    <2>1. Attached(h) /\ delivered' = [delivered EXCEPT ![h] = Append(@, Head(batch).msg)]
          /\ turn = "dispatch" /\ Head(batch).type = "data"
      BY <1>1 DEF DispatchData, Dispatching, Accepts
    <2>2. h \in Handles /\ PeersOK /\ PlacesInv
      BY <2>1, HeadInStream DEF HandlesInv, EventsInv, WellFormed, TInv
    <2>3. handle[h] \in {"hooked", "shut"} /\ h.pc \in {active.pc, pending.pc} /\ h.pc # 0
      BY <2>1, <2>2, AttachedIs, KindsOf DEF PlacesInv
    <2>4. \A i \in Handles : i # h => delivered'[i] = delivered[i]
      BY <2>1 DEF TInv, LibraryOK
    <2> QED BY <2>3, <2>4 DEF LiveDelivers, Known
  <1>2. CASE ~DispatchData
    <2>1. delivered' = delivered
      BY <1>2 DEF Next, Relay, SendFails, Turn, Library, vars, traffic, StartTurn, Detach, OnDataChannel,
         OnHandleState, OnIceStateChange, OnStateChange, DispatchOpen, DispatchClosed,
         DispatchPendingDirect, DispatchPendingFailed, DispatchSignal, DropData, Dispatched,
         LibRoute, LibFails, LibChannel, LibOpens, LibCloses, LibMessage, Callback
    <2> QED BY <2>1 DEF LiveDelivers
  <1> QED BY <1>1, <1>2

(* A session is served by one route at a time: a background peer takes over *)
(* only when its route was direct and its channels did open, and what a     *)
(* retired peer had queued is never delivered (PromotePending,              *)
(* DirectGate_WebRTC_ProcessQueue).                                         *)
THEOREM OneRouteServes == Spec => OneRouteAtATime
  <1>1. TInv /\ HandlesInv /\ RouteInv /\ [Next]_vars => Upgrade /\ LiveDelivers
    BY RouteStep, DeliveryStep
  <1> QED BY <1>1, TInvHolds, HandlesInvHolds, RouteInvHolds, PTL
          DEF Spec, OneRouteAtATime, OnlyLiveDeliver, MigrationIsAnUpgrade, Upgrade, LiveDelivers

-----------------------------------------------------------------------------
(* A background peer that is ready is announced.                            *)

Underway(p) ==
    \/ failed \/ p \in told
    \/ \E e \in All(Stream) : e.type = "ready" /\ e.pc = p

ToldInv ==
    /\ pending.pc # 0 /\ pending.direct /\ Ready => pending.signaled
    /\ pending.signaled => pending.pc # 0 /\ Underway(pending.pc)

(* No announcement is lost while the loop goes on.                          *)
NoneLost ==
    /\ told \subseteq told' /\ (failed => failed')
    /\ \A e \in All(Stream) : e \in All(Stream') \/ e.type # "ready" \/ e.pc \in told'

LEMMA ToldKept ==
    ASSUME ToldInv, video => video',
           Blank(pending') \/ (SameNews(pending, pending') /\ NoneLost)
    PROVE  ToldInv'
  <1>1. CASE Blank(pending')
    BY <1>1 DEF ToldInv, Blank, Ready
  <1>2. CASE SameNews(pending, pending') /\ NoneLost
    <2>1. pending'.signaled => pending'.pc # 0 /\ Underway(pending.pc)'
      BY <1>2 DEF ToldInv, SameNews, Underway, NoneLost
    <2>2. pending'.pc # 0 /\ pending'.direct /\ Ready' => pending'.signaled
      BY <1>2 DEF ToldInv, SameNews, Ready
    <2> QED BY <2>1, <2>2 DEF ToldInv
  <1> QED BY <1>1, <1>2

LEMMA NewsEvent ==
    ASSUME NEW e, Enqueue(e)
    PROVE  failed => failed'
  BY DEF Enqueue, Full

LEMMA QuietNoneLost ==
    ASSUME FifoOK, LoopOK, Proceed, told' = told,
           UNCHANGED fifo \/ (turn = "dispatch" /\ \E e \in Events : Enqueue(e)),
           turn \in {"idle", "dispatch"}, turn = "dispatch" => Head(batch).type # "ready"
    PROVE  NoneLost
  <1>1. CASE UNCHANGED fifo
    BY <1>1, QuietProceed DEF NoneLost, fifo
  <1>2. ASSUME turn = "dispatch", NEW e \in Events, Enqueue(e) PROVE NoneLost
    BY <1>2, DispatchAll, NewsEvent DEF NoneLost
  <1> QED BY <1>1, <1>2

LEMMA SignalingTold ==
    ASSUME TInv, RouteInv, ToldInv, Signaling,
           turn \in {"idle", "dispatch"}, turn = "dispatch" => Head(batch).type # "ready"
    PROVE  ToldInv'
  <1>1. PeersOK /\ FifoOK /\ LoopOK /\ VideoModes \subseteq BOOLEAN
    BY PeerAssumption DEF TInv
  <1>2. ASSUME NEW g \in Gens, NEW bg \in BOOLEAN, NEW track \in BOOLEAN, NEW v \in VideoModes,
               HandleOffer(g, bg, v, track)
        PROVE  ToldInv'
    <2>1. (video => video') /\ told' = told
      BY <1>2 DEF HandleOffer
    <2>2. Blank(pending') \/ (SameNews(pending, pending') /\ NoneLost)
      <3>1. CASE DropOffer(g)
        <4>1. SameNews(pending, pending')
          BY <3>1, PeersRoute DEF DropOffer
        <4> QED BY <1>1, <2>1, <3>1, <4>1, QuietNoneLost DEF DropOffer
      <3>2. CASE ~DropOffer(g)
        <4>1. ASSUME NEW p, OfferPending(g, p, track) PROVE Blank(pending')
          BY <4>1 DEF OfferPending, NoPending, Blank
        <4>2. \/ \E p \in Peers : OfferPending(g, p, track)
              \/ pending' = NoPending
          BY <1>2, <3>2 DEF HandleOffer, OfferPendingFails, DestroyPending, OfferActive, OfferActiveFails
        <4> QED BY <4>1, <4>2 DEF NoPending, Blank
      <3> QED BY <3>1, <3>2
    <2> QED BY <1>1, <2>1, <2>2, ToldKept
  <1>3. ASSUME NEW g, CommitPending(g) PROVE ToldInv'
    <2>1. Proceed /\ UNCHANGED fifo /\ told' = told /\ video' = video
      BY <1>3 DEF CommitPending, signals
    <2>2. /\ Blank(pending') \/ SameNews(pending, pending')
          /\ pending'.pc \in {0, pending.pc}
      BY <1>3, PromoteRoute, PeersRoute, NoPlace DEF CommitPending, PromotePending, peers
    <2>3. NoneLost
      BY <1>1, <2>1, QuietNoneLost
    <2> QED BY <1>1, <2>1, <2>2, <2>3, ToldKept
  <1>4. ASSUME NEW c \in Cands, HandleIceCandidate(c) PROVE ToldInv'
    <2>1. Proceed /\ UNCHANGED fifo /\ told' = told /\ video' = video /\ UNCHANGED peers
      BY <1>4 DEF HandleIceCandidate
    <2>2. NoneLost /\ SameNews(pending, pending') /\ pending'.pc = pending.pc
      BY <1>1, <2>1, QuietNoneLost, PeersRoute DEF peers
    <2> QED BY <1>1, <2>1, <2>2, ToldKept
  <1>5. CASE Clear
    BY <1>1, <1>5, ToldKept, NoPlace DEF Clear, Destroy, Blank, NoPending
  <1> QED BY <1>2, <1>3, <1>4, <1>5 DEF Signaling

LEMMA LearnTold ==
    ASSUME TInv, ToldInv, Dispatched, told' = told, turn = "dispatch",
           Head(batch).type # "ready", NEW s \in PendingRec, Learn(s),
           s.pc = pending.pc, s.pc # 0, s.signaled = pending.signaled
    PROVE  ToldInv'
  <1> DEFINE announce == ~s.signaled /\ s.direct /\ s.dataOpen /\ (video => s.videoOpen)
  <1>1. /\ pending' = [s EXCEPT !.signaled = s.signaled \/ announce]
        /\ Forward(announce, PeerEvent("ready", s.pc))
        /\ video' = video /\ Proceed /\ FifoOK /\ LoopOK /\ s.pc \in Peers
    BY DEF Learn, Dispatched, TInv, PendingRec
  <1>2. PeerEvent("ready", s.pc) \in Events /\ PeerEvent("ready", s.pc).type = "ready"
        /\ PeerEvent("ready", s.pc).pc = s.pc
    BY <1>1, EventTyped DEF EventTypes, PeerEvent, Event
  <1>3. NoneLost
    BY <1>1, <1>2, QuietNoneLost DEF Forward
  <1>4. /\ pending'.pc = s.pc /\ pending'.signaled = (s.signaled \/ announce)
        /\ pending'.direct = s.direct /\ pending'.dataOpen = s.dataOpen
        /\ pending'.videoOpen = s.videoOpen
    BY <1>1 DEF PendingRec
  <1>5. announce => Underway(pending.pc)'
    BY <1>1, <1>2, <1>4, DispatchAll DEF Forward, Underway
  <1>6. s.signaled => Underway(pending.pc)'
    BY <1>3, <1>4 DEF ToldInv, Underway, NoneLost
  <1>7. pending'.direct /\ Ready' => pending'.signaled
    BY <1>1, <1>4 DEF Ready
  <1> HIDE DEF announce
  <1> QED BY <1>1, <1>4, <1>5, <1>6, <1>7 DEF ToldInv

LEMMA TurnTold ==
    ASSUME TInv, HandlesInv, RouteInv, ToldInv, Turn
    PROVE  ToldInv'
  <1>1. PeersOK /\ FifoOK /\ LoopOK /\ VideoModes \subseteq BOOLEAN
    BY PeerAssumption DEF TInv
  <1>2. ASSUME turn = "dispatch", Dispatched, told' = told, Head(batch).type # "ready",
               UNCHANGED fifo \/ \E e \in Events : Enqueue(e),
               Blank(pending') \/ SameNews(pending, pending'), pending'.pc \in {0, pending.pc}
        PROVE  ToldInv'
    <2>1. NoneLost
      BY <1>1, <1>2, QuietNoneLost DEF Dispatched
    <2> QED BY <1>1, <1>2, <2>1, ToldKept DEF Dispatched
  <1>3. CASE StartTurn
    <2>1. CASE failed
      BY <1>1, <1>3, <2>1, ToldKept, NoPlace DEF StartTurn, Destroy, Blank, NoPending
    <2>2. CASE ~failed
      <3>1. UNCHANGED peers /\ Stream' = Stream /\ failed' = failed /\ told' = told /\ video' = video
        BY <1>3, <2>2 DEF StartTurn, Stream, signals
      <3>2. NoneLost /\ SameNews(pending, pending') /\ pending'.pc = pending.pc
        BY <3>1, PeersRoute DEF NoneLost, peers
      <3> QED BY <1>1, <3>1, <3>2, ToldKept
    <2> QED BY <2>1, <2>2
  <1>4. CASE Detach
    <2>1. batch = <<>> /\ batch' = queue /\ queue' = <<>> /\ queue \in Seq(Events)
      BY <1>1, <1>4 DEF Detach, LoopOK, FifoOK
    <2>2. queue \o <<>> = queue /\ <<>> \o queue = queue
      BY <2>1, ConcatEmptySeq
    <2>3. UNCHANGED peers /\ Stream' = Stream /\ failed' = failed /\ told' = told /\ video' = video
      BY <1>4, <2>1, <2>2 DEF Detach, Stream, signals
    <2>4. NoneLost /\ SameNews(pending, pending') /\ pending'.pc = pending.pc
      BY <2>3, PeersRoute DEF NoneLost, peers
    <2> QED BY <1>1, <2>3, <2>4, ToldKept
  <1>5. CASE OnDataChannel
    <2>1. pending' = pending \/ pending' = Attach(pending, Head(batch).handle)
      BY <1>5 DEF OnDataChannel
    <2>2. SameNews(pending, pending')
      BY <1>1, <2>1 DEF PeersOK, PendingRec, Attach, SameNews
    <2> QED BY <1>2, <1>5, <2>2 DEF OnDataChannel, Dispatching, SameNews
  <1>6. CASE OnHandleState \/ OnIceStateChange \/ OnStateChange
    <2>1. /\ UNCHANGED peers /\ Dispatched /\ told' = told /\ turn = "dispatch"
          /\ Head(batch).type # "ready"
      BY <1>6 DEF OnHandleState, OnIceStateChange, OnStateChange, Dispatching
    <2>2. UNCHANGED fifo \/ \E e \in Events : Enqueue(e)
      <3>1. Head(batch).pc \in Peers
        BY <1>1, <2>1, HeadTyped
      <3>2. CASE OnHandleState
        <4>1. Head(batch).handle \in Handles
          BY <1>1, <3>2, HeadInStream DEF OnHandleState, Dispatching, HandlesInv, EventsInv, WellFormed
        <4>2. \A t \in {"open", "closed"} : HandleEvent(t, Head(batch).handle) \in Events
          BY <4>1, HandleEventTyped DEF EventTypes
        <4> QED BY <3>2, <4>2 DEF OnHandleState, Forward
      <3>3. \A t \in {"direct", "failed"} : PeerEvent(t, Head(batch).pc) \in Events
        BY <3>1, EventTyped DEF EventTypes
      <3> QED BY <1>6, <3>2, <3>3 DEF OnIceStateChange, OnStateChange, Forward
    <2> QED BY <1>2, <2>1, <2>2, PeersRoute DEF SameNews
  <1>7. CASE DispatchOpen
    <2> DEFINE h == Head(batch).handle
               s == IF h.kind = "data" THEN [pending EXCEPT !.dataOpen = TRUE]
                                       ELSE [pending EXCEPT !.videoOpen = TRUE]
    <2>1. turn = "dispatch" /\ Head(batch).type = "open" /\ Dispatched /\ told' = told
      BY <1>7 DEF DispatchOpen, Dispatching
    <2>2. CASE h = pending.slot[h.kind] /\ h.kind # "input"
      <3>1. Learn(s)
        BY <1>7, <2>2 DEF DispatchOpen
      <3>2. h \in Handles /\ h.kind \in Kinds
        BY <1>1, <2>1, HeadInStream DEF HandlesInv, EventsInv, WellFormed
      <3>3. pending.pc # 0
        BY <1>1, <2>2, <3>2, AttachedIs DEF HandlesInv, Holds
      <3>4. s \in PendingRec /\ s.pc = pending.pc /\ s.signaled = pending.signaled
        BY <1>1 DEF PeersOK, PendingRec
      <3> HIDE DEF s
      <3> QED BY <2>1, <3>1, <3>3, <3>4, LearnTold
    <2>3. CASE ~(h = pending.slot[h.kind] /\ h.kind # "input")
      <3>1. pending' = pending /\ UNCHANGED fifo
        BY <1>7, <2>3 DEF DispatchOpen, fifo
      <3> QED BY <1>2, <2>1, <3>1 DEF SameNews
    <2> QED BY <2>2, <2>3
  <1>8. CASE DispatchClosed
    BY <1>2, <1>8, DispatchClosedNews DEF DispatchClosed, Dispatching
  <1>9. CASE DispatchPendingDirect
    <2> DEFINE s == [pending EXCEPT !.direct = TRUE]
    <2>1. turn = "dispatch" /\ Head(batch).type = "direct" /\ Dispatched /\ told' = told
          /\ Head(batch).pc \in Peers
      BY <1>1, <1>9, HeadTyped DEF DispatchPendingDirect, Dispatching
    <2>2. CASE Head(batch).pc = pending.pc
      <3>1. Learn(s) /\ pending.pc # 0
        BY <1>9, <2>1, <2>2, KindsOf DEF DispatchPendingDirect
      <3>2. s \in PendingRec /\ s.pc = pending.pc /\ s.signaled = pending.signaled
        BY <1>1 DEF PeersOK, PendingRec
      <3> HIDE DEF s
      <3> QED BY <2>1, <3>1, <3>2, LearnTold
    <2>3. CASE Head(batch).pc # pending.pc
      BY <1>2, <1>9, <2>1, <2>3, PeersRoute DEF DispatchPendingDirect, SameNews
    <2> QED BY <2>2, <2>3
  <1>10. CASE DispatchPendingFailed
    <2>1. /\ Blank(pending') \/ SameNews(pending, pending')
          /\ pending'.pc \in {0, pending.pc}
      BY <1>10, DestroyPendingRoute, PeersRoute, NoPlace
         DEF DispatchPendingFailed, DestroyPending, SameNews
    <2> QED BY <1>2, <1>10, <2>1 DEF DispatchPendingFailed, Dispatching
  <1>11. CASE DispatchSignal
    <2>1. /\ told' = told \cup {Head(batch).pc} /\ UNCHANGED peers /\ UNCHANGED fifo
          /\ Proceed /\ turn = "dispatch" /\ video' = video
      BY <1>11 DEF DispatchSignal, Dispatching, Dispatched, fifo
    <2>2. NoneLost
      BY <1>1, <2>1, QuietProceed DEF NoneLost, fifo
    <2>3. SameNews(pending, pending') /\ pending'.pc = pending.pc
      BY <2>1, PeersRoute DEF peers
    <2> QED BY <1>1, <2>1, <2>2, <2>3, ToldKept
  <1>12. CASE DropData
    BY <1>2, <1>12, PeersRoute DEF DropData, Dispatching, SameNews, fifo
  <1>13. CASE DispatchData
    <2>1. turn = "dispatch" /\ Head(batch).type = "data"
      BY <1>13 DEF DispatchData, Dispatching
    <2>2. CASE Signaling
      BY <2>1, <2>2, SignalingTold
    <2>3. CASE Proceed /\ UNCHANGED <<peers, fifo, video, ice, alive, signals>>
      <3>1. UNCHANGED peers /\ UNCHANGED fifo /\ told' = told /\ video' = video
        BY <2>3 DEF signals, fifo
      <3>2. NoneLost /\ SameNews(pending, pending') /\ pending'.pc = pending.pc
        BY <1>1, <2>1, <2>3, <3>1, QuietNoneLost, PeersRoute DEF peers
      <3> QED BY <1>1, <3>1, <3>2, ToldKept
    <2> QED BY <1>13, <2>2, <2>3 DEF DispatchData
  <1> QED BY <1>3, <1>4, <1>5, <1>6, <1>7, <1>8, <1>9, <1>10, <1>11, <1>12, <1>13 DEF Turn

LEMMA ToldStep ==
    ASSUME TInv, HandlesInv, RouteInv, ToldInv, [Next]_vars
    PROVE  ToldInv'
  <1>1. FifoOK /\ LoopOK /\ VideoModes \subseteq BOOLEAN
    BY PeerAssumption DEF TInv
  <1>2. CASE Relay
    BY <1>2, SignalingTold DEF Relay
  <1>3. CASE SendFails \/ UNCHANGED vars
    <2>1. /\ pending' = pending /\ queue' = queue /\ batch' = batch /\ failed' = failed
          /\ told' = told /\ video' = video
      BY <1>3 DEF SendFails, vars, peers, fifo, loop, signals
    <2> QED BY <2>1 DEF ToldInv, Underway, Stream, Ready
  <1>4. CASE Turn
    BY <1>4, TurnTold
  <1>5. CASE Library
    <2>1. Callback /\ \E e : Enqueue(e)
      BY <1>5 DEF Library, LibRoute, LibFails, LibChannel, LibOpens, LibCloses, LibMessage
    <2>2. /\ pending' = pending /\ video' = video /\ told' = told /\ batch' = batch
          /\ failed => failed'
      BY <2>1, NewsEvent DEF Callback, loop, signals
    <2>3. PICK e : Enqueue(e)
      BY <2>1
    <2>4. ASSUME Full PROVE \A x \in All(Stream) : x \in All(Stream')
      <3>1. Stream' = Stream
        BY <2>2, <2>3, <2>4 DEF Enqueue, Stream
      <3> QED BY <3>1
    <2>5. ASSUME ~Full PROVE \A x \in All(Stream) : x \in All(Stream')
      <3>1. queue \in Seq(Events) /\ queue' \in Seq(Events) /\ queue' = Append(queue, e)
        BY <1>1, <1>5, <2>3, <2>5, LibraryTyped DEF Enqueue, FifoOK, TInv
      <3>2. e \in Events
        BY <3>1, SeqOf
      <3>3. Adds(Stream, Stream', e) /\ Len(Stream) \in Nat
        BY <1>1, <2>2, <2>3, <2>5, <3>2, EnqueueStream, StreamTyped
      <3> QED BY <3>3, AllAdds
    <2>6. \A x \in All(Stream) : x \in All(Stream')
      BY <2>4, <2>5
    <2>7. NoneLost
      BY <2>2, <2>6 DEF NoneLost
    <2> QED BY <1>1, <2>2, <2>7, ToldKept DEF SameNews
  <1> QED BY <1>2, <1>3, <1>4, <1>5 DEF Next

(* A background peer that is ready to take over is one the browser was told *)
(* about, or will be, unless the transport is about to fail, also when a    *)
(* session turns to the desktop between two offers                          *)
(* (DirectGate_WebRTC_NotifyPendingReady).                                  *)
THEOREM ReadinessIsTold == Spec => []ReadyIsTold
  <1>1. Init => ToldInv
    BY DEF Init, ToldInv, NoPending
  <1>2. TInv /\ HandlesInv /\ RouteInv /\ ToldInv /\ [Next]_vars => ToldInv'
    BY ToldStep
  <1>3. TInv /\ ToldInv => ReadyIsTold
    <2> SUFFICES ASSUME TInv, ToldInv, pending.pc # 0, pending.direct, Ready
                 PROVE  \/ failed \/ pending.pc \in told
                        \/ \E q \in {queue, batch} : \E i \in DOMAIN q :
                              q[i].type = "ready" /\ q[i].pc = pending.pc
      BY DEF ReadyIsTold
    <2>1. Underway(pending.pc) /\ FifoOK /\ LoopOK
      BY DEF ToldInv, TInv
    <2> QED BY <2>1, AllOf DEF Underway
  <1> QED BY <1>1, <1>2, <1>3, TInvHolds, HandlesInvHolds, RouteInvHolds, PTL DEF Spec

-----------------------------------------------------------------------------
(* Messages on their way: a stream S of events, what the session got of     *)
(* each channel, what the library received on it, the handles, and whether  *)
(* the queue failed.                                                        *)

IsData(e) == e.type = "data"
InHand(hs, h) == hs[h] \in {"hooked", "shut"}
Unused(hs, h) == h.kind = "video" \/ hs[h] \in {"none", "incoming"}
DataOf(S, h) == {e \in All(S) : IsData(e) /\ e.handle = h}

InOrder(S) ==
    \A i, j \in 1 .. Len(S) :
        i < j /\ IsData(S[i]) /\ IsData(S[j]) /\ S[i].handle = S[j].handle => S[i].msg < S[j].msg

(* Of a channel in place every message not handed over is on its way; once  *)
(* the queue failed those after the first lost one are not, and none after  *)
(* them.                                                                    *)
Mail(S, got, out, hs, bad) ==
    /\ InOrder(S)
    /\ \A h \in Handles :
         /\ Len(got[h]) <= out[h] /\ \A i \in 1 .. Len(got[h]) : got[h][i] = i
         /\ Unused(hs, h) => out[h] = 0
         /\ \A e \in DataOf(S, h) : e.msg \in Nat /\ Len(got[h]) < e.msg /\ e.msg <= out[h]
         /\ InHand(hs, h) => \A m \in Nat : Len(got[h]) < m /\ m <= out[h] =>
              \/ \E e \in DataOf(S, h) : e.msg = m
              \/ bad /\ \A e \in DataOf(S, h) : e.msg < m
MailInv == Mail(Stream, delivered, sent, handle, failed)

(* What may become of handles in a step, and in one that empties the queue. *)
Ages(hs, ns) == \A h \in Handles :
    /\ InHand(ns, h) => InHand(hs, h) \/ Unused(hs, h)
    /\ ns[h] \in {"none", "incoming"} => hs[h] \in {"none", "incoming"}
Emptied(hs, ns) == \A h \in Handles :
    /\ InHand(ns, h) => Unused(hs, h)
    /\ ns[h] \in {"none", "incoming"} => hs[h] \in {"none", "incoming"}

LEMMA MailDrops ==
    ASSUME NEW S, NEW T, NEW got, NEW out, NEW hs, NEW bad, Len(S) \in Nat, Len(T) \in Nat,
           Drops(S, T), Mail(S, got, out, hs, bad),
           IsData(S[1]) => ~InHand(hs, S[1].handle)
    PROVE  Mail(T, got, out, hs, bad)
  <1>1. All(S) = All(T) \cup {S[1]}
    BY AllDrops
  <1>2. InOrder(T)
    <2> SUFFICES ASSUME NEW i \in 1 .. Len(T), NEW j \in 1 .. Len(T), i < j,
                        IsData(T[i]), IsData(T[j]), T[i].handle = T[j].handle
                 PROVE  T[i].msg < T[j].msg
      BY DEF InOrder
    <2>1. i + 1 \in 1 .. Len(S) /\ j + 1 \in 1 .. Len(S) /\ i + 1 < j + 1
          /\ T[i] = S[i + 1] /\ T[j] = S[j + 1]
      BY DEF Drops
    <2> QED BY <2>1 DEF Mail, InOrder
  <1>3. \A h \in Handles : DataOf(T, h) \subseteq DataOf(S, h)
                           /\ (InHand(hs, h) => DataOf(T, h) = DataOf(S, h))
    BY <1>1 DEF DataOf
  <1> QED BY <1>2, <1>3 DEF Mail

LEMMA MailAdds ==
    ASSUME NEW S, NEW T, NEW e, NEW got, NEW out, NEW hs, NEW bad, Len(S) \in Nat,
           Adds(S, T, e), ~IsData(e), Mail(S, got, out, hs, bad)
    PROVE  Mail(T, got, out, hs, bad)
  <1>1. All(T) = All(S) \cup {e}
    BY AllAdds
  <1>2. InOrder(T)
    <2> SUFFICES ASSUME NEW i \in 1 .. Len(T), NEW j \in 1 .. Len(T), i < j,
                        IsData(T[i]), IsData(T[j]), T[i].handle = T[j].handle
                 PROVE  T[i].msg < T[j].msg
      BY DEF InOrder
    <2>1. i \in 1 .. Len(S) /\ j \in 1 .. Len(S) /\ T[i] = S[i] /\ T[j] = S[j]
      BY DEF Adds
    <2> QED BY <2>1 DEF Mail, InOrder
  <1>3. \A h \in Handles : DataOf(T, h) = DataOf(S, h)
    BY <1>1 DEF DataOf
  <1> QED BY <1>2, <1>3 DEF Mail

LEMMA MailHands ==
    ASSUME NEW S, NEW got, NEW out, NEW hs, NEW bad, NEW ns, NEW worse,
           got \in [Handles -> Seq(Nat)], out \in [Handles -> Nat],
           Mail(S, got, out, hs, bad), Ages(hs, ns), bad => worse
    PROVE  Mail(S, got, out, ns, worse)
  <1>1. ASSUME NEW h \in Handles
        PROVE  /\ Unused(ns, h) => out[h] = 0
               /\ InHand(ns, h) => InHand(hs, h) \/ out[h] = 0
    BY DEF Mail, Ages, Unused
  <1>2. \A h \in Handles : Len(got[h]) \in Nat
    OBVIOUS
  <1> QED BY <1>1, <1>2 DEF Mail

LEMMA MailEmpty ==
    ASSUME NEW S, NEW got, NEW out, NEW hs, NEW bad, NEW ns,
           got \in [Handles -> Seq(Nat)], out \in [Handles -> Nat],
           Mail(S, got, out, hs, bad), Emptied(hs, ns)
    PROVE  Mail(<<>>, got, out, ns, FALSE)
  <1>1. All(<<>>) = {} /\ InOrder(<<>>)
    BY DEF All, InOrder
  <1>2. ASSUME NEW h \in Handles
        PROVE  Len(got[h]) \in Nat /\ DataOf(<<>>, h) = {}
               /\ (Unused(ns, h) => out[h] = 0) /\ (InHand(ns, h) => out[h] = 0)
    BY <1>1 DEF DataOf, Mail, Emptied, Unused
  <1> QED BY <1>1, <1>2 DEF Mail

(* The first event is a message of a channel in place: the next one of it.  *)
LEMMA MailDelivers ==
    ASSUME NEW S, NEW T, NEW got, NEW out, NEW hs, NEW bad, NEW h \in Handles, NEW now,
           Len(S) \in Nat, Len(T) \in Nat, Drops(S, T),
           got \in [Handles -> Seq(Nat)], out \in [Handles -> Nat],
           Mail(S, got, out, hs, bad), IsData(S[1]), S[1].handle = h, InHand(hs, h),
           now[h] = Append(got[h], S[1].msg), \A g \in Handles : g # h => now[g] = got[g]
    PROVE  Mail(T, now, out, hs, bad)
  <1> DEFINE n == S[1].msg
             k == Len(got[h])
  <1>1. All(S) = All(T) \cup {S[1]} /\ S[1] \in DataOf(S, h)
    BY AllDrops DEF DataOf
  <1>2. /\ k \in Nat /\ n \in Nat /\ out[h] \in Nat /\ k < n /\ n <= out[h] /\ got[h] \in Seq(Nat)
        /\ \A e \in DataOf(S, h) : e.msg \in Nat
    BY <1>1 DEF Mail
  <1>3. ASSUME NEW e \in DataOf(T, h) PROVE n < e.msg /\ e \in DataOf(S, h)
    <2>1. PICK i \in 1 .. Len(T) : e = T[i]
      BY DEF DataOf, All
    <2>2. i + 1 \in 1 .. Len(S) /\ 1 \in 1 .. Len(S) /\ 1 < i + 1 /\ S[i + 1] = e
      BY <2>1 DEF Drops
    <2>3. IsData(S[i + 1]) /\ S[i + 1].handle = S[1].handle
      BY <2>2 DEF DataOf
    <2>4. S[1].msg < S[i + 1].msg
      BY <2>2, <2>3 DEF Mail, InOrder
    <2> QED BY <1>1, <2>2, <2>4 DEF DataOf
  <1>4. \A e \in DataOf(S, h) : e = S[1] \/ e \in DataOf(T, h)
    BY <1>1 DEF DataOf
  <1> HIDE DEF n
  <1>5. n = k + 1
    <2> SUFFICES ASSUME n # k + 1 PROVE FALSE
      OBVIOUS
    <2>1. k + 1 \in Nat /\ k < k + 1 /\ k + 1 < n /\ k + 1 <= out[h]
      BY <1>2
    <2>2. \/ \E e \in DataOf(S, h) : e.msg = k + 1
          \/ \A e \in DataOf(S, h) : e.msg < k + 1
      BY <2>1 DEF Mail
    <2>3. CASE \E e \in DataOf(S, h) : e.msg = k + 1
      <3>1. PICK e \in DataOf(S, h) : e.msg = k + 1
        BY <2>3
      <3>2. e = S[1] => e.msg = n
        BY DEF n
      <3>3. e \in DataOf(T, h) => n < e.msg
        BY <1>3
      <3> QED BY <1>2, <1>4, <2>1, <3>1, <3>2, <3>3
    <2>4. CASE \A e \in DataOf(S, h) : e.msg < k + 1
      BY <1>1, <1>2, <2>1, <2>4 DEF n
    <2> QED BY <2>2, <2>3, <2>4
  <1>6. /\ Len(now[h]) = n
        /\ \A i \in 1 .. n : now[h][i] = i
        /\ \A g \in Handles : g # h => now[g] = got[g]
    <2>1. now[h] = Append(got[h], n) /\ \A g \in Handles : g # h => now[g] = got[g]
      BY DEF n
    <2>2. /\ Append(got[h], n) \in Seq(Nat) /\ Len(Append(got[h], n)) = k + 1
          /\ \A i \in 1 .. k : Append(got[h], n)[i] = got[h][i]
          /\ Append(got[h], n)[k + 1] = n
      BY <1>2
    <2>3. \A i \in 1 .. n : i \in 1 .. k \/ i = k + 1
      BY <1>2, <1>5
    <2>4. \A i \in 1 .. k : got[h][i] = i
      BY DEF Mail
    <2>5. \A i \in 1 .. n : now[h][i] = i
      BY <1>5, <2>1, <2>2, <2>3, <2>4
    <2> QED BY <1>5, <2>1, <2>2, <2>5
  <1>7. InOrder(T)
    <2> SUFFICES ASSUME NEW i \in 1 .. Len(T), NEW j \in 1 .. Len(T), i < j,
                        IsData(T[i]), IsData(T[j]), T[i].handle = T[j].handle
                 PROVE  T[i].msg < T[j].msg
      BY DEF InOrder
    <2>1. i + 1 \in 1 .. Len(S) /\ j + 1 \in 1 .. Len(S) /\ i + 1 < j + 1
          /\ T[i] = S[i + 1] /\ T[j] = S[j + 1]
      BY DEF Drops
    <2> QED BY <2>1 DEF Mail, InOrder
  <1>8. ASSUME NEW g \in Handles, g # h
        PROVE  DataOf(T, g) = DataOf(S, g)
    BY <1>1, <1>8 DEF DataOf
  <1>9. ASSUME NEW m \in Nat, n < m, m <= out[h]
        PROVE  \/ \E e \in DataOf(T, h) : e.msg = m
               \/ bad /\ \A e \in DataOf(T, h) : e.msg < m
    <2>1. \/ \E e \in DataOf(S, h) : e.msg = m
          \/ bad /\ \A e \in DataOf(S, h) : e.msg < m
      BY <1>2, <1>5, <1>9 DEF Mail
    <2>2. CASE \E e \in DataOf(S, h) : e.msg = m
      BY <1>2, <1>4, <1>9, <2>2 DEF n
    <2>3. CASE bad /\ \A e \in DataOf(S, h) : e.msg < m
      BY <1>3, <2>3
    <2> QED BY <2>1, <2>2, <2>3
  <1>10. ASSUME NEW e \in DataOf(T, h) PROVE e.msg \in Nat /\ n < e.msg /\ e.msg <= out[h]
    BY <1>3 DEF Mail
  <1>11. ASSUME NEW g \in Handles
         PROVE  /\ Len(now[g]) <= out[g] /\ \A i \in 1 .. Len(now[g]) : now[g][i] = i
                /\ Unused(hs, g) => out[g] = 0
                /\ \A e \in DataOf(T, g) : e.msg \in Nat /\ Len(now[g]) < e.msg /\ e.msg <= out[g]
                /\ InHand(hs, g) => \A m \in Nat : Len(now[g]) < m /\ m <= out[g] =>
                     \/ \E e \in DataOf(T, g) : e.msg = m
                     \/ bad /\ \A e \in DataOf(T, g) : e.msg < m
    <2>1. CASE g = h
      <3>1. Unused(hs, g) => out[g] = 0
        BY DEF Mail
      <3> QED BY <1>2, <1>6, <1>9, <1>10, <2>1, <3>1
    <2>2. CASE g # h
      BY <1>6, <1>8, <2>2 DEF Mail
    <2> QED BY <2>1, <2>2
  <1> QED BY <1>6, <1>7, <1>11 DEF Mail

LEMMA LastOrBefore ==
    ASSUME NEW n \in Nat, NEW i \in 1 .. (n + 1), NEW j \in 1 .. (n + 1), i < j
    PROVE  i \in 1 .. n /\ (j \in 1 .. n \/ j = n + 1)
  OBVIOUS

LEMMA OneMore == \A n, m \in Nat : m <= n + 1 => m <= n \/ m = n + 1
  OBVIOUS

(* The library receives a message: it fails the queue, or is queued last.   *)
LEMMA MailLost ==
    ASSUME NEW S, NEW got, NEW out, NEW hs, NEW bad, NEW h \in Handles, NEW more,
           got \in [Handles -> Seq(Nat)], out \in [Handles -> Nat],
           Mail(S, got, out, hs, bad), ~Unused(hs, h),
           more[h] = out[h] + 1, \A g \in Handles : g # h => more[g] = out[g]
    PROVE  Mail(S, got, more, hs, TRUE)
  <1>1. out[h] \in Nat /\ Len(got[h]) \in Nat /\ Len(got[h]) <= out[h]
    BY DEF Mail
  <1>2. \A x \in DataOf(S, h) : x.msg \in Nat /\ Len(got[h]) < x.msg /\ x.msg <= out[h]
    BY DEF Mail
  <1>3. ASSUME NEW m \in Nat, Len(got[h]) < m, m <= more[h], InHand(hs, h)
        PROVE  \/ \E x \in DataOf(S, h) : x.msg = m
               \/ \A x \in DataOf(S, h) : x.msg < m
    <2>1. CASE m <= out[h]
      BY <1>3, <2>1 DEF Mail
    <2>2. CASE m = out[h] + 1
      BY <1>1, <1>2, <2>2
    <2>3. m <= out[h] \/ m = out[h] + 1
      BY <1>1, <1>3, OneMore
    <2> QED BY <2>1, <2>2, <2>3
  <1>4. ASSUME NEW g \in Handles
        PROVE  /\ Len(got[g]) <= more[g] /\ \A i \in 1 .. Len(got[g]) : got[g][i] = i
               /\ Unused(hs, g) => more[g] = 0
               /\ \A x \in DataOf(S, g) : x.msg \in Nat /\ Len(got[g]) < x.msg /\ x.msg <= more[g]
               /\ InHand(hs, g) => \A m \in Nat : Len(got[g]) < m /\ m <= more[g] =>
                    \/ \E x \in DataOf(S, g) : x.msg = m
                    \/ TRUE /\ \A x \in DataOf(S, g) : x.msg < m
    <2>1. CASE g = h
      <3>1. \A x \in DataOf(S, h) : x.msg \in Nat /\ Len(got[h]) < x.msg /\ x.msg <= more[h]
        BY <1>1, <1>2
      <3>2. Len(got[h]) <= more[h] /\ \A i \in 1 .. Len(got[h]) : got[h][i] = i
        BY <1>1 DEF Mail
      <3> QED BY <1>3, <2>1, <3>1, <3>2
    <2>2. CASE g # h
      BY <2>2 DEF Mail
    <2> QED BY <2>1, <2>2
  <1>5. InOrder(S)
    BY DEF Mail
  <1> QED BY <1>4, <1>5 DEF Mail

LEMMA MailQueued ==
    ASSUME NEW S, NEW T, NEW e, NEW got, NEW out, NEW hs, NEW h \in Handles, NEW more,
           Len(S) \in Nat, got \in [Handles -> Seq(Nat)], out \in [Handles -> Nat],
           Mail(S, got, out, hs, FALSE), ~Unused(hs, h), IsData(e), e.handle = h, e.msg = out[h] + 1,
           more[h] = out[h] + 1, \A g \in Handles : g # h => more[g] = out[g],
           Adds(S, T, e)
    PROVE  Mail(T, got, more, hs, FALSE)
  <1>1. out[h] \in Nat /\ Len(got[h]) \in Nat /\ Len(got[h]) <= out[h]
    BY DEF Mail
  <1>2. \A x \in DataOf(S, h) : x.msg \in Nat /\ Len(got[h]) < x.msg /\ x.msg <= out[h]
    BY DEF Mail
  <1>3. All(T) = All(S) \cup {e}
    BY AllAdds
  <1>4. /\ DataOf(T, h) = DataOf(S, h) \cup {e}
        /\ \A g \in Handles : g # h => DataOf(T, g) = DataOf(S, g)
    BY <1>3 DEF DataOf
  <1>5. InOrder(T)
    <2>1. Len(T) = Len(S) + 1 /\ T[Len(T)] = e /\ \A i \in 1 .. Len(S) : T[i] = S[i]
      BY DEF Adds
    <2> SUFFICES ASSUME NEW i \in 1 .. Len(T), NEW j \in 1 .. Len(T), i < j,
                        IsData(T[i]), IsData(T[j]), T[i].handle = T[j].handle
                 PROVE  T[i].msg < T[j].msg
      BY DEF InOrder
    <2>2. i \in 1 .. Len(S) /\ (j \in 1 .. Len(S) \/ j = Len(T))
      BY <2>1, LastOrBefore
    <2>3. CASE j \in 1 .. Len(S)
      <3>1. T[i] = S[i] /\ T[j] = S[j]
        BY <2>1, <2>2, <2>3
      <3> QED BY <2>2, <2>3, <3>1 DEF Mail, InOrder
    <2>4. CASE j = Len(T)
      <3>1. T[j] = e /\ T[i] = S[i]
        BY <2>1, <2>2, <2>4
      <3>2. S[i] \in DataOf(S, h)
        BY <2>2, <3>1 DEF DataOf, All
      <3> QED BY <1>1, <1>2, <3>1, <3>2
    <2> QED BY <2>2, <2>3, <2>4
  <1>6. ASSUME NEW m \in Nat, Len(got[h]) < m, m <= more[h], InHand(hs, h)
        PROVE  \E x \in DataOf(T, h) : x.msg = m
    <2>1. CASE m <= out[h]
      BY <1>4, <1>6, <2>1 DEF Mail
    <2>2. CASE m = out[h] + 1
      BY <1>4, <2>2
    <2>3. m <= out[h] \/ m = out[h] + 1
      BY <1>1, <1>6, OneMore
    <2> QED BY <2>1, <2>2, <2>3
  <1>7. ASSUME NEW g \in Handles
        PROVE  /\ Len(got[g]) <= more[g] /\ \A i \in 1 .. Len(got[g]) : got[g][i] = i
               /\ Unused(hs, g) => more[g] = 0
               /\ \A x \in DataOf(T, g) : x.msg \in Nat /\ Len(got[g]) < x.msg /\ x.msg <= more[g]
               /\ InHand(hs, g) => \A m \in Nat : Len(got[g]) < m /\ m <= more[g] =>
                    \/ \E x \in DataOf(T, g) : x.msg = m
                    \/ FALSE /\ \A x \in DataOf(T, g) : x.msg < m
    <2>1. CASE g = h
      <3>1. \A x \in DataOf(T, h) : x.msg \in Nat /\ Len(got[h]) < x.msg /\ x.msg <= more[h]
        BY <1>1, <1>2, <1>4
      <3>2. Len(got[h]) <= more[h] /\ \A i \in 1 .. Len(got[h]) : got[h][i] = i
        BY <1>1 DEF Mail
      <3> QED BY <1>6, <2>1, <3>1, <3>2
    <2>2. CASE g # h
      BY <1>4, <2>2 DEF Mail
    <2> QED BY <2>1, <2>2
  <1> QED BY <1>5, <1>7 DEF Mail

-----------------------------------------------------------------------------
(* Steps.                                                                   *)

LEMMA AgesClosed ==
    ASSUME NEW gone
    PROVE  Ages(handle, Closed(gone)) /\ Ages(handle, handle)
  <1>1. \A h \in Handles : Closed(gone)[h] \in {"gone", handle[h]}
    BY ClosedIs
  <1> QED BY <1>1 DEF Ages, InHand

LEMMA AgesCreated ==
    ASSUME NEW gone, NEW p, NEW track
    PROVE  Ages(handle, Created(gone, p, track))
  <1>1. ASSUME NEW h \in Handles
        PROVE  Created(gone, p, track)[h] \in {"gone", handle[h]}
               \/ (h.kind = "video" /\ Created(gone, p, track)[h] = "hooked")
    BY CreatedIs DEF VideoTrack
  <1> QED BY <1>1 DEF Ages, InHand, Unused

LEMMA EmptiedReleased ==
    ASSUME TInv, HandlesInv
    PROVE  /\ Emptied(handle, Closed(Released))
           /\ \A p, track : Emptied(handle, Created(Released, p, track))
  <1>1. \A h \in Handles : InHand(handle, h) => h \in Released
    BY ReleasedIs DEF TInv, HandlesInv, InHand
  <1>2. Emptied(handle, Closed(Released))
    BY <1>1, ClosedIs DEF Emptied, InHand
  <1>3. ASSUME NEW p, NEW track PROVE Emptied(handle, Created(Released, p, track))
    <2>1. ASSUME NEW h \in Handles
          PROVE  Created(Released, p, track)[h] = (IF h \in Released THEN "gone" ELSE handle[h])
                 \/ (h.kind = "video" /\ Created(Released, p, track)[h] = "hooked")
      BY CreatedIs DEF VideoTrack
    <2> QED BY <1>1, <2>1 DEF Emptied, InHand, Unused
  <1> QED BY <1>2, <1>3

(* A step of the loop, after a message was handed over perhaps.             *)
LEMMA LoopMail ==
    ASSUME FifoOK, LoopOK, Proceed, turn = "dispatch",
           NEW got, NEW out, got \in [Handles -> Seq(Nat)], out \in [Handles -> Nat],
           Mail(Rest \o queue, got, out, handle, failed), Ages(handle, handle'),
           UNCHANGED fifo \/ \E e \in Events : ~IsData(e) /\ Enqueue(e)
    PROVE  Mail(Stream', got, out, handle', failed')
  <1> DEFINE M == Rest \o queue
  <1>1. /\ M \in Seq(Events)
        /\ queue' = queue => Stream' = M
        /\ \A e \in Events : Enqueue(e) =>
             IF Full THEN Stream' = M /\ failed' ELSE Adds(M, Stream', e) /\ ~failed'
    BY ProceedStream
  <1>2. Len(M) \in Nat
    BY <1>1, SeqOf
  <1> HIDE DEF M
  <1>3. CASE UNCHANGED fifo
    <2>1. Stream' = M /\ failed' = failed
      BY <1>1, <1>3 DEF fifo
    <2>2. Mail(M, got, out, handle', failed)
      BY MailHands DEF M
    <2> QED BY <2>1, <2>2
  <1>4. ASSUME NEW e \in Events, ~IsData(e), Enqueue(e)
        PROVE  Mail(Stream', got, out, handle', failed')
    <2>1. failed => failed'
      BY <1>4, NewsEvent
    <2>2. Mail(M, got, out, handle', failed')
      BY <2>1, MailHands DEF M
    <2>3. CASE Full
      BY <1>1, <1>4, <2>2, <2>3
    <2>4. CASE ~Full
      <3>1. Adds(M, Stream', e)
        BY <1>1, <1>4, <2>4
      <3> QED BY <1>2, <1>4, <2>2, <3>1, MailAdds
    <2> QED BY <2>3, <2>4
  <1> QED BY <1>3, <1>4

LEMMA DispatchedMail ==
    ASSUME TInv, MailInv, turn = "dispatch", Dispatched,
           IsData(Head(batch)) => ~InHand(handle, Head(batch).handle),
           Ages(handle, handle'),
           UNCHANGED fifo \/ \E e \in Events : ~IsData(e) /\ Enqueue(e)
    PROVE  MailInv'
  <1>1. FifoOK /\ LoopOK /\ Proceed /\ delivered' = delivered /\ sent' = sent
        /\ delivered \in [Handles -> Seq(Nat)] /\ sent \in [Handles -> Nat]
    BY DEF TInv, Dispatched, traffic, LibraryOK
  <1>2. /\ Drops(Stream, Rest \o queue) /\ Stream[1] = Head(batch)
        /\ Rest \o queue \in Seq(Events)
    BY <1>1, ProceedStream
  <1>3. Len(Stream) \in Nat /\ Len(Rest \o queue) \in Nat
    BY <1>1, <1>2, SeqOf, StreamTyped
  <1>4. Mail(Rest \o queue, delivered, sent, handle, failed)
    BY <1>2, <1>3, MailDrops DEF MailInv
  <1>5. Mail(Stream', delivered, sent, handle', failed')
    BY <1>1, <1>4, LoopMail
  <1> QED BY <1>1, <1>5 DEF MailInv

(* What signaling does to the handles and to what is on its way.            *)
LEMMA SignalingAges ==
    ASSUME TInv, HandlesInv, Signaling
    PROVE  \/ Proceed /\ UNCHANGED fifo /\ Ages(handle, handle')
           \/ Drained /\ Emptied(handle, handle')
  <1>1. UNCHANGED peers => Ages(handle, handle')
    BY AgesClosed DEF peers
  <1>2. DestroyPending \/ PromotePending => Ages(handle, handle')
    BY <1>1, AgesClosed DEF DestroyPending, PromotePending
  <1>3. ASSUME NEW g, NEW bg, NEW v, NEW track, HandleOffer(g, bg, v, track)
        PROVE  \/ Proceed /\ UNCHANGED fifo /\ Ages(handle, handle')
               \/ Drained /\ Emptied(handle, handle')
    <2>1. CASE DropOffer(g)
      BY <1>1, <2>1 DEF DropOffer
    <2>2. CASE OfferPendingFails
      BY <1>2, <2>2 DEF OfferPendingFails
    <2>3. ASSUME NEW p, OfferPending(g, p, track)
          PROVE  Proceed /\ UNCHANGED fifo /\ Ages(handle, handle')
      BY <2>3, AgesCreated DEF OfferPending
    <2>4. ASSUME NEW p, OfferActive(g, p, track) PROVE Drained /\ Emptied(handle, handle')
      BY <2>4, EmptiedReleased DEF OfferActive
    <2>5. ASSUME NEW described, OfferActiveFails(g, described)
          PROVE  Drained /\ Emptied(handle, handle')
      BY <2>5, EmptiedReleased DEF OfferActiveFails
    <2> QED BY <1>3, <2>1, <2>2, <2>3, <2>4, <2>5 DEF HandleOffer
  <1>4. ASSUME NEW g, CommitPending(g) PROVE Proceed /\ UNCHANGED fifo /\ Ages(handle, handle')
    BY <1>1, <1>2, <1>4 DEF CommitPending
  <1>5. ASSUME NEW c, HandleIceCandidate(c) PROVE Proceed /\ UNCHANGED fifo /\ Ages(handle, handle')
    BY <1>1, <1>5 DEF HandleIceCandidate
  <1>6. Clear => Drained /\ Emptied(handle, handle')
    BY EmptiedReleased DEF Clear, Destroy
  <1> QED BY <1>3, <1>4, <1>5, <1>6 DEF Signaling

LEMMA DrainedMail ==
    ASSUME Drained, Emptied(handle, handle'),
           NEW S, NEW got, NEW out, got \in [Handles -> Seq(Nat)], out \in [Handles -> Nat],
           Mail(S, got, out, handle, failed)
    PROVE  Mail(Stream', got, out, handle', failed')
  <1>1. Stream' = <<>> /\ failed' = FALSE
    BY DEF Drained, Stream
  <1>2. Mail(<<>>, got, out, handle', FALSE)
    BY MailEmpty
  <1> QED BY <1>1, <1>2

LEMMA RelayMail ==
    ASSUME TInv, HandlesInv, MailInv, Relay
    PROVE  MailInv'
  <1>1. /\ FifoOK /\ LoopOK /\ turn = "idle" /\ delivered' = delivered /\ sent' = sent
        /\ delivered \in [Handles -> Seq(Nat)] /\ sent \in [Handles -> Nat]
    BY DEF TInv, Relay, traffic, LibraryOK
  <1>2. CASE Proceed /\ UNCHANGED fifo /\ Ages(handle, handle')
    <2>1. Stream' = Stream /\ failed' = failed
      BY <1>1, <1>2 DEF LoopOK, Proceed, Rest, Stream, fifo
    <2>2. Mail(Stream, delivered, sent, handle', failed)
      BY <1>1, <1>2, MailHands DEF MailInv
    <2> QED BY <1>1, <2>1, <2>2 DEF MailInv
  <1>3. CASE Drained /\ Emptied(handle, handle')
    <2>1. Mail(Stream', delivered, sent, handle', failed')
      BY <1>1, <1>3, DrainedMail DEF MailInv
    <2> QED BY <1>1, <2>1 DEF MailInv
  <1> QED BY <1>2, <1>3, SignalingAges DEF Relay

LEMMA DispatchDataMail ==
    ASSUME TInv, HandlesInv, MailInv, DispatchData
    PROVE  MailInv'
  <1> DEFINE h == Head(batch).handle
  <1>1. /\ turn = "dispatch" /\ Head(batch).type = "data" /\ Attached(h) /\ h \in Handles
        /\ delivered' = [delivered EXCEPT ![h] = Append(@, Head(batch).msg)] /\ sent' = sent
        /\ FifoOK /\ LoopOK /\ delivered \in [Handles -> Seq(Nat)] /\ sent \in [Handles -> Nat]
        /\ PeersOK /\ PlacesInv
    BY HeadInStream DEF DispatchData, Dispatching, Accepts, TInv, LibraryOK, HandlesInv,
       EventsInv, WellFormed
  <1>2. InHand(handle, h)
    BY <1>1, AttachedIs DEF InHand, PlacesInv
  <1>6. /\ Stream[1] = Head(batch) => /\ IsData(Stream[1]) /\ Stream[1].handle = h
                                     /\ delivered'[h] = Append(delivered[h], Stream[1].msg)
        /\ \A g \in Handles : g # h => delivered'[g] = delivered[g]
        /\ Mail(Stream, delivered, sent, handle, failed) /\ delivered' \in [Handles -> Seq(Nat)]
    <2>1. Head(batch).msg \in Nat
      BY <1>1, HeadTyped
    <2> QED BY <1>1, <2>1 DEF IsData, MailInv
  <1> HIDE DEF h
  <1>3. CASE Proceed /\ UNCHANGED fifo /\ Ages(handle, handle')
    <2>1. /\ Drops(Stream, Rest \o queue) /\ Stream[1] = Head(batch)
          /\ Rest \o queue \in Seq(Events)
      BY <1>1, <1>3, ProceedStream
    <2>2. Len(Stream) \in Nat /\ Len(Rest \o queue) \in Nat
      BY <1>1, <2>1, SeqOf, StreamTyped
    <2>3. Mail(Rest \o queue, delivered', sent, handle, failed)
      BY <1>1, <1>2, <1>6, <2>1, <2>2, MailDelivers
    <2>4. Mail(Stream', delivered', sent, handle', failed')
      BY <1>1, <1>3, <1>6, <2>3, LoopMail
    <2> QED BY <1>1, <2>4 DEF MailInv
  <1>4. CASE Drained /\ Emptied(handle, handle')
    <2>1. batch \in Seq(Events) /\ batch # <<>> /\ queue \in Seq(Events)
      BY <1>1 DEF LoopOK, FifoOK
    <2>2. /\ Drops(Stream, Tail(batch) \o queue) /\ Stream[1] = Head(batch)
          /\ Tail(batch) \o queue \in Seq(Events)
      BY <2>1, JoinedDrops, Joined, SeqOf DEF Stream
    <2>3. Len(Stream) \in Nat /\ Len(Tail(batch) \o queue) \in Nat
      BY <1>1, <2>2, SeqOf, StreamTyped
    <2>4. Mail(Tail(batch) \o queue, delivered', sent, handle, failed)
      BY <1>1, <1>2, <1>6, <2>2, <2>3, MailDelivers
    <2>5. Mail(Stream', delivered', sent, handle', failed')
      BY <1>1, <1>4, <1>6, <2>4, DrainedMail
    <2> QED BY <1>1, <2>5 DEF MailInv
  <1>5. Ages(handle, handle') \/ ~UNCHANGED peers
    BY AgesClosed DEF peers
  <1> QED BY <1>3, <1>4, <1>5, SignalingAges DEF DispatchData

LEMMA StartTurnMail ==
    ASSUME TInv, HandlesInv, MailInv, StartTurn \/ Detach
    PROVE  MailInv'
  <1>1. /\ FifoOK /\ LoopOK /\ delivered' = delivered /\ sent' = sent
        /\ delivered \in [Handles -> Seq(Nat)] /\ sent \in [Handles -> Nat]
    BY DEF TInv, StartTurn, Detach, traffic, LibraryOK
  <1>2. CASE StartTurn /\ failed
    <2>1. Drained /\ Emptied(handle, handle')
      BY <1>2, EmptiedReleased DEF StartTurn, Destroy
    <2>2. Mail(Stream', delivered, sent, handle', failed')
      BY <1>1, <2>1, DrainedMail DEF MailInv
    <2> QED BY <1>1, <2>2 DEF MailInv
  <1>3. CASE StartTurn /\ ~failed
    <2>1. Stream' = Stream /\ failed' = failed /\ handle' = handle
      BY <1>3 DEF StartTurn, Stream, peers
    <2> QED BY <1>1, <2>1 DEF MailInv
  <1>4. CASE Detach
    <2>1. batch = <<>> /\ batch' = queue /\ queue' = <<>> /\ queue \in Seq(Events)
      BY <1>1, <1>4 DEF Detach, LoopOK, FifoOK
    <2>2. queue \o <<>> = queue /\ <<>> \o queue = queue
      BY <2>1, ConcatEmptySeq
    <2>3. Stream' = Stream /\ failed' = failed /\ handle' = handle
      BY <1>4, <2>1, <2>2 DEF Detach, Stream, peers
    <2> QED BY <1>1, <2>3 DEF MailInv
  <1> QED BY <1>2, <1>3, <1>4

LEMMA OnDataChannelMail ==
    ASSUME TInv, HandlesInv, MailInv, OnDataChannel
    PROVE  MailInv'
  <1> DEFINE h == Head(batch).handle
  <1>1. /\ turn = "dispatch" /\ Head(batch).type = "channel" /\ Dispatched /\ UNCHANGED fifo
        /\ FifoOK /\ LoopOK
    BY DEF OnDataChannel, Dispatching, TInv, fifo
  <1>2. h \in Handles /\ handle[h] = "incoming"
    BY <1>1, HeadInStream DEF HandlesInv, Announced, IsNews
  <1>3. \E gone : handle' = Closed(gone) \/ handle' = [Closed(gone) EXCEPT ![h] = "hooked"]
    BY DEF OnDataChannel
  <1> HIDE DEF h
  <1>4. ASSUME NEW gone, handle' = [Closed(gone) EXCEPT ![h] = "hooked"]
        PROVE  Ages(handle, handle')
    <2>1. \A g \in Handles : handle'[g] = IF g = h THEN "hooked" ELSE Closed(gone)[g]
      BY <1>4 DEF Closed
    <2>2. \A g \in Handles : Closed(gone)[g] \in {"gone", handle[g]}
      BY ClosedIs
    <2> QED BY <1>2, <2>1, <2>2 DEF Ages, InHand, Unused
  <1>5. Ages(handle, handle')
    BY <1>3, <1>4, AgesClosed
  <1> QED BY <1>1, <1>5, DispatchedMail DEF IsData

LEMMA FirstStageMail ==
    ASSUME TInv, HandlesInv, MailInv, OnHandleState \/ OnIceStateChange \/ OnStateChange
    PROVE  MailInv'
  <1>1. /\ UNCHANGED peers /\ Dispatched /\ turn = "dispatch" /\ Head(batch).type # "data"
        /\ FifoOK /\ LoopOK
    BY DEF OnHandleState, OnIceStateChange, OnStateChange, Dispatching, TInv
  <1>2. Ages(handle, handle')
    BY <1>1, AgesClosed DEF peers
  <1>3. UNCHANGED fifo \/ \E e \in Events : ~IsData(e) /\ Enqueue(e)
    <2>1. Head(batch).pc \in Peers
      BY <1>1, HeadTyped
    <2>2. CASE OnHandleState
      <3>1. Head(batch).handle \in Handles
        BY <1>1, <2>2, HeadInStream DEF OnHandleState, Dispatching, HandlesInv, EventsInv, WellFormed
      <3>2. \A t \in {"open", "closed"} : HandleEvent(t, Head(batch).handle) \in Events
                                          /\ HandleEvent(t, Head(batch).handle).type = t
        BY <3>1, HandleEventTyped DEF EventTypes, HandleEvent, Event
      <3> QED BY <2>2, <3>2 DEF OnHandleState, Forward, IsData
    <2>3. \A t \in {"direct", "failed"} : PeerEvent(t, Head(batch).pc) \in Events
                                          /\ PeerEvent(t, Head(batch).pc).type = t
      BY <2>1, EventTyped DEF EventTypes, PeerEvent, Event
    <2> QED BY <2>2, <2>3 DEF OnIceStateChange, OnStateChange, Forward, IsData
  <1> QED BY <1>1, <1>2, <1>3, DispatchedMail DEF IsData

LEMMA LearnQueues ==
    ASSUME NEW s, s.pc \in Peers \cup {0}, s.direct => s.pc # 0, Learn(s)
    PROVE  /\ Ages(handle, handle')
           /\ UNCHANGED fifo \/ \E e \in Events : ~IsData(e) /\ Enqueue(e)
  <1>1. handle' = handle
    BY DEF Learn
  <1>2. s.pc # 0 => PeerEvent("ready", s.pc) \in Events
    BY EventTyped DEF EventTypes
  <1>3. ~IsData(PeerEvent("ready", s.pc))
    BY DEF PeerEvent, Event, IsData
  <1> QED BY <1>1, <1>2, <1>3, AgesClosed DEF Learn, Forward

LEMMA SecondStageMail ==
    ASSUME TInv, HandlesInv, MailInv,
           \/ DispatchOpen \/ DispatchClosed \/ DispatchPendingDirect
           \/ DispatchPendingFailed \/ DispatchSignal \/ DropData
    PROVE  MailInv'
  <1>1. PeersOK /\ FifoOK /\ LoopOK /\ PlacesInv /\ pending \in PendingRec
        /\ (pending.direct => pending.pc # 0)
    BY DEF TInv, HandlesInv, PeersOK
  <1>2. UNCHANGED peers \/ handle' = handle => Ages(handle, handle')
    BY AgesClosed DEF peers
  <1>3. CASE DispatchOpen
    <2> DEFINE h == Head(batch).handle
               s == IF h.kind = "data" THEN [pending EXCEPT !.dataOpen = TRUE]
                                       ELSE [pending EXCEPT !.videoOpen = TRUE]
    <2>1. turn = "dispatch" /\ Head(batch).type = "open" /\ Dispatched
      BY <1>3 DEF DispatchOpen, Dispatching
    <2>2. CASE h = pending.slot[h.kind] /\ h.kind # "input"
      <3>1. Learn(s)
        BY <1>3, <2>2 DEF DispatchOpen
      <3>2. s.pc \in Peers \cup {0} /\ (s.direct => s.pc # 0)
        BY <1>1 DEF PendingRec
      <3> HIDE DEF s
      <3> QED BY <2>1, <3>1, <3>2, LearnQueues, DispatchedMail DEF IsData
    <2>3. CASE ~(h = pending.slot[h.kind] /\ h.kind # "input")
      <3>1. handle' = handle /\ UNCHANGED fifo
        BY <1>3, <2>3 DEF DispatchOpen, fifo
      <3> QED BY <1>2, <2>1, <3>1, DispatchedMail DEF IsData
    <2> QED BY <2>2, <2>3
  <1>4. CASE DispatchPendingDirect
    <2> DEFINE s == [pending EXCEPT !.direct = TRUE]
    <2>1. turn = "dispatch" /\ Head(batch).type = "direct" /\ Dispatched /\ Head(batch).pc \in Peers
      BY <1>1, <1>4, HeadTyped DEF DispatchPendingDirect, Dispatching
    <2>2. CASE Head(batch).pc = pending.pc
      <3>1. Learn(s)
        BY <1>4, <2>2 DEF DispatchPendingDirect
      <3>2. s.pc \in Peers \cup {0} /\ (s.direct => s.pc # 0)
        BY <1>1, <2>1, <2>2, KindsOf DEF PendingRec
      <3> HIDE DEF s
      <3> QED BY <2>1, <3>1, <3>2, LearnQueues, DispatchedMail DEF IsData
    <2>3. CASE Head(batch).pc # pending.pc
      BY <1>2, <1>4, <2>1, <2>3, DispatchedMail DEF DispatchPendingDirect, IsData
    <2> QED BY <2>2, <2>3
  <1>5. CASE DispatchClosed
    <2>1. turn = "dispatch" /\ Head(batch).type = "closed" /\ Dispatched /\ UNCHANGED fifo
      BY <1>5 DEF DispatchClosed, Dispatching, fifo
    <2>2. handle' = handle \/ \E gone : handle' = Closed(gone)
      BY <1>5 DEF DispatchClosed, ActiveLost, PromotePending, DestroyPending, peers
    <2>3. Ages(handle, handle')
      BY <2>2, AgesClosed
    <2> QED BY <2>1, <2>3, DispatchedMail DEF IsData
  <1>6. CASE DispatchPendingFailed \/ DispatchSignal
    <2>1. turn = "dispatch" /\ Head(batch).type # "data" /\ Dispatched /\ UNCHANGED fifo
      BY <1>6 DEF DispatchPendingFailed, DispatchSignal, Dispatching, fifo
    <2>2. Ages(handle, handle')
      BY <1>2, <1>6, AgesClosed DEF DispatchPendingFailed, DispatchSignal, DestroyPending
    <2> QED BY <2>1, <2>2, DispatchedMail DEF IsData
  <1>7. CASE DropData
    <2> DEFINE h == Head(batch).handle
    <2>1. turn = "dispatch" /\ Head(batch).type = "data" /\ Dispatched /\ UNCHANGED fifo
          /\ UNCHANGED peers /\ ~Accepts(h)
      BY <1>7 DEF DropData, Dispatching, fifo
    <2>2. Head(batch) \in All(Stream) /\ h \in Handles
      BY <1>1, <2>1, HeadInStream DEF HandlesInv, EventsInv, WellFormed
    <2>3. Head(batch) \in DataOf(Stream, h)
      BY <2>1, <2>2 DEF DataOf, IsData
    <2>4. h.kind # "video"
      <3> SUFFICES ASSUME h.kind = "video" PROVE FALSE
        OBVIOUS
      <3>1. sent[h] = 0 /\ Len(delivered[h]) \in Nat /\ Head(batch).msg \in Nat
            /\ Len(delivered[h]) < Head(batch).msg /\ Head(batch).msg <= sent[h]
        BY <2>2, <2>3 DEF MailInv, Mail, Unused, TInv, LibraryOK
      <3> QED BY <3>1
    <2>5. ~InHand(handle, h)
      BY <1>1, <2>1, <2>2, <2>4, AttachedIs DEF Accepts, InHand, PlacesInv
    <2> QED BY <1>2, <2>1, <2>5, DispatchedMail
  <1> QED BY <1>3, <1>4, <1>5, <1>6, <1>7

LEMMA LibraryMail ==
    ASSUME TInv, HandlesInv, MailInv, Library
    PROVE  MailInv'
  <1>1. /\ FifoOK /\ LoopOK /\ delivered \in [Handles -> Seq(Nat)] /\ sent \in [Handles -> Nat]
        /\ handle \in [Handles -> HandleStates] /\ Len(Stream) \in Nat
    BY SlotsTyped, StreamTyped DEF TInv, LibraryOK
  <1>2. ASSUME NEW e \in Events, ~IsData(e), Enqueue(e), Callback, sent' = sent, Ages(handle, handle')
        PROVE  MailInv'
    <2>1. batch' = batch /\ delivered' = delivered /\ (failed => failed')
      BY <1>2, NewsEvent DEF Callback, loop
    <2>2. Mail(Stream, delivered, sent, handle', failed')
      BY <1>1, <1>2, <2>1, MailHands DEF MailInv
    <2>3. Stream' = Stream \/ Adds(Stream, Stream', e)
      BY <1>1, <1>2, <2>1, EnqueueStream
    <2>4. Mail(Stream', delivered, sent, handle', failed')
      BY <1>1, <1>2, <2>2, <2>3, MailAdds
    <2> QED BY <1>2, <2>1, <2>4 DEF MailInv
  <1>3. ASSUME NEW p \in Peers, LibFails(p) \/ \E r \in {"direct", "relay"} : LibRoute(p, r)
        PROVE  MailInv'
    <2>1. /\ handle' = handle /\ sent' = sent /\ Callback
          /\ Enqueue(PeerEvent("ice", p)) \/ Enqueue(PeerEvent("state", p))
      BY <1>3 DEF LibFails, LibRoute
    <2>2. \A t \in {"ice", "state"} : PeerEvent(t, p) \in Events /\ PeerEvent(t, p).type = t
      BY EventTyped DEF EventTypes, PeerEvent, Event
    <2> QED BY <1>2, <2>1, <2>2, AgesClosed DEF IsData
  <1>4. ASSUME NEW h \in Handles, LibChannel(h) \/ LibOpens(h) \/ LibCloses(h)
        PROVE  MailInv'
    <2>1. /\ sent' = sent /\ Callback
          /\ \E t \in {"channel", "isOpen", "isClosed"} : Enqueue(HandleEvent(t, h))
      BY <1>4 DEF LibChannel, LibOpens, LibCloses
    <2>2. \A t \in {"channel", "isOpen", "isClosed"} :
            HandleEvent(t, h) \in Events /\ HandleEvent(t, h).type = t
      BY HandleEventTyped DEF EventTypes, HandleEvent, Event
    <2>3. Ages(handle, handle')
      <3>1. CASE LibChannel(h)
        <4>1. \A g \in Handles : handle'[g] = handle[g] \/
                (handle[g] = "none" /\ handle'[g] \in {"gone", "incoming"})
          BY <1>1, <3>1 DEF LibChannel
        <4> QED BY <4>1 DEF Ages, InHand
      <3>2. CASE LibOpens(h)
        BY <3>2, AgesClosed DEF LibOpens
      <3>3. CASE LibCloses(h)
        <4>1. \A g \in Handles : handle'[g] = handle[g] \/ (handle[g] = "hooked" /\ handle'[g] = "shut")
          BY <1>1, <3>3 DEF LibCloses
        <4> QED BY <4>1 DEF Ages, InHand
      <3> QED BY <1>4, <3>1, <3>2, <3>3
    <2> QED BY <1>2, <2>1, <2>2, <2>3 DEF IsData
  <1>5. ASSUME NEW h \in Handles, LibMessage(h) PROVE MailInv'
    <2> DEFINE e == Event("data", h.pc, h, sent[h] + 1)
    <2>1. /\ Enqueue(e) /\ handle' = handle /\ batch' = batch /\ delivered' = delivered
          /\ sent' = [sent EXCEPT ![h] = @ + 1] /\ handle[h] = "hooked" /\ h.kind # "video"
      BY <1>5 DEF LibMessage, Callback, loop
    <2>2. e \in Events /\ IsData(e) /\ e.handle = h /\ e.msg = sent[h] + 1
      <3>1. sent[h] + 1 \in Nat
        BY <1>1
      <3> QED BY <3>1, KindsOf DEF Event, Events, EventTypes, IsData
    <2> HIDE DEF e
    <2>3. ~Unused(handle, h)
      BY <2>1 DEF Unused
    <2>4. /\ Full => Stream' = Stream /\ failed'
          /\ ~Full => Adds(Stream, Stream', e) /\ ~failed' /\ ~failed
      BY <1>1, <2>1, <2>2, EnqueueStream DEF Full
    <2>5. Mail(Stream, delivered, sent, handle, failed)
      BY DEF MailInv
    <2>6. sent'[h] = sent[h] + 1 /\ \A g \in Handles : g # h => sent'[g] = sent[g]
      BY <1>1, <2>1
    <2>7. CASE Full
      <3>1. Mail(Stream, delivered, sent', handle, TRUE)
        BY <1>1, <2>3, <2>5, <2>6, MailLost
      <3>2. Stream' = Stream /\ failed' = TRUE
        BY <2>1, <2>4, <2>7 DEF Enqueue
      <3> QED BY <2>1, <3>1, <3>2 DEF MailInv
    <2>8. CASE ~Full
      <3>1. failed = FALSE /\ failed' = FALSE
        BY <1>1, <2>1, <2>8 DEF Enqueue, Full, FifoOK
      <3>2. Mail(Stream', delivered, sent', handle, FALSE)
        BY <1>1, <2>2, <2>3, <2>4, <2>5, <2>6, <2>8, <3>1, MailQueued
      <3> QED BY <2>1, <3>1, <3>2 DEF MailInv
    <2> QED BY <2>7, <2>8
  <1> QED BY <1>3, <1>4, <1>5 DEF Library

LEMMA MailStep ==
    ASSUME TInv, HandlesInv, MailInv, [Next]_vars
    PROVE  MailInv'
  <1>1. CASE SendFails \/ UNCHANGED vars
    <2>1. /\ queue' = queue /\ batch' = batch /\ failed' = failed /\ handle' = handle
          /\ delivered' = delivered /\ sent' = sent
      BY <1>1 DEF SendFails, vars, peers, fifo, loop, traffic
    <2> QED BY <2>1 DEF MailInv, Stream
  <1>2. CASE Turn
    BY <1>2, StartTurnMail, OnDataChannelMail, FirstStageMail, SecondStageMail, DispatchDataMail DEF Turn
  <1> QED BY <1>1, <1>2, RelayMail, LibraryMail DEF Next

LEMMA MailInit == Init => MailInv
  <1> SUFFICES ASSUME Init PROVE MailInv
    OBVIOUS
  <1>1. Stream = <<>> /\ All(Stream) = {} /\ InOrder(Stream)
    BY DEF Init, Stream, All, InOrder
  <1>2. ASSUME NEW h \in Handles
        PROVE  delivered[h] = <<>> /\ sent[h] = 0 /\ DataOf(Stream, h) = {} /\ ~InHand(handle, h)
    BY <1>1 DEF Init, DataOf, InHand
  <1> QED BY <1>1, <1>2 DEF MailInv, Mail

(* "Reliable messages cannot be silently dropped": of every channel the     *)
(* session gets the first messages, in order and without a gap, whatever is *)
(* replaced, and when the queue overflows too (DirectGate_WebRTC_Enqueue,   *)
(* DirectGate_WebRTC_ProcessQueue).                                         *)
THEOREM NothingIsSkipped == Spec => []NoGap
  <1>1. TInv /\ HandlesInv /\ MailInv /\ [Next]_vars => MailInv'
    BY MailStep
  <1>2. TInv /\ MailInv => NoGap
    <2> SUFFICES ASSUME TInv, MailInv, NEW h \in Handles
                 PROVE  Len(delivered[h]) <= sent[h] /\ \A i \in DOMAIN delivered[h] : delivered[h][i] = i
      BY DEF NoGap
    <2>1. delivered[h] \in Seq(Nat)
      BY DEF TInv, LibraryOK
    <2> QED BY <2>1 DEF MailInv, Mail
  <1> QED BY <1>1, <1>2, MailInit, TInvHolds, HandlesInvHolds, PTL DEF Spec

=============================================================================
