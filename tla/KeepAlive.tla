----------------------------- MODULE KeepAlive -----------------------------
(* Silence on the relay's link and on the direct channel of a session, and  *)
(* a loop that cannot listen while it is blocked (directgate.c).            *)
(*                                                                          *)
(* The code keeps time stamps; the model keeps their ages, capped for the   *)
(* checks, which do not tell more apart. One turn of the loop waits and works *)
(* (Service), forgives a stall (CheckLoopStall), refreshes tokens and ends  *)
(* sessions (Checks), and judges both links. The relay and the peer answer  *)
(* a ping within Delay of time, unless they are dead.                       *)
EXTENDS Integers

CONSTANTS
    Wait,            \* nWaitMs of a turn
    Stall,           \* DIRECTGATE_LOOP_STALL_MS
    Probe, Timeout,  \* DIRECTGATE_RELAY_KA_PROBE_MS and _TIMEOUT_MS
    Interval,        \* nKAInterval
    Jitter,          \* the delays the first ping of a session may have
    Delay,           \* bound: how long an answer takes
    Blocks,          \* bound: how long the handlers of a turn may block it
    LateBlocks       \* bound: how long Checks may block it

ASSUME KeepAliveAssumption ==
    /\ Wait \in Nat \ {0} /\ Stall \in Nat \ {0} /\ Probe \in Nat \ {0}
    /\ Timeout \in Nat /\ Probe < Timeout /\ Interval \in Nat \ {0} /\ Delay \in Nat \ {0}
    /\ Jitter \subseteq 0 .. (Interval \div 2) /\ Jitter # {}
    /\ Blocks \subseteq Nat /\ LateBlocks \subseteq Nat /\ Blocks # {} /\ LateBlocks # {}

VARIABLES
    pc,      \* where the loop is in its turn
    gap,     \* now - nLoopPassMs
    relay,   \* the link: the ages of nLastRelayRecvMs and nLastRelayProbeMs
    peer,    \* the session: the ages of nLastKAPingMs and nLastKAPongMs
    wire     \* what is under way from the relay and the peer, and who is dead

kaVars == <<pc, gap, relay, peer, wire>>

Links == {"relay", "peer"}
KATimeout == 3 * Interval
Never == -Interval - 1       \* the age of a stamp that is 0
Cap == 2 * KATimeout + Timeout + 1
Age(n) == IF n > Cap THEN Cap ELSE n
AgedBy(n, t) == IF n = Never THEN Never ELSE n + t

(* A stamp that is moved forward by t, at most to now.                     *)
Forward(n, t) == IF n = Never THEN Never ELSE IF n > t THEN n - t ELSE IF n < 0 THEN n ELSE 0

Ages == {n \in Int : n >= Never}
KATypeOK ==
    /\ pc \in {"service", "stall", "checks", "relay", "peer"}
    /\ gap \in Nat
    /\ relay \in [up : BOOLEAN, recv : Ages, probe : Ages]
    /\ peer \in [open : BOOLEAN, direct : BOOLEAN, ping : Ages, pong : Ages]
    /\ wire \in [owed : [Links -> 0 .. Delay], unread : SUBSET Links, dead : SUBSET Links]

(* owed: 0, or 1 more than the age of a ping that is not answered yet.     *)
KAInit ==
    /\ pc = "service" /\ gap = 0
    /\ relay = [up |-> TRUE, recv |-> 0, probe |-> Never]
    /\ peer = [open |-> TRUE, direct |-> TRUE, ping |-> Never, pong |-> Never]
    /\ wire = [owed |-> [l \in Links |-> 0], unread |-> {}, dead |-> {}]

-----------------------------------------------------------------------------
(* Time passes by t for every stamp. Meanwhile answers may arrive, and have *)
(* to once they are Delay old; they wait unread.                           *)

RelayAged(r, t) == [r EXCEPT !.recv = AgedBy(@, t), !.probe = AgedBy(@, t)]
PeerAged(p, t) == [p EXCEPT !.ping = AgedBy(@, t), !.pong = AgedBy(@, t)]
Due(w, t) == {l \in Links \ w.dead : w.owed[l] > 0 /\ w.owed[l] + t > Delay}
Asked(w) == {l \in Links \ w.dead : w.owed[l] > 0}
Arrived(w, t) ==
    {[w EXCEPT !.unread = @ \cup A,
               !.owed = [l \in Links |-> IF l \in A \/ w.owed[l] = 0 THEN 0
                                         ELSE IF w.owed[l] + t > Delay THEN Delay
                                         ELSE w.owed[l] + t]] :
        A \in {B \in SUBSET Asked(w) : Due(w, t) \subseteq B}}

Pass(t) ==
    /\ gap' = gap + t
    /\ relay' = [relay EXCEPT !.recv = Age(AgedBy(@, t)), !.probe = Age(AgedBy(@, t))]
    /\ peer' = [peer EXCEPT !.ping = Age(AgedBy(@, t)), !.pong = Age(AgedBy(@, t))]
    /\ wire' \in Arrived(wire, t)

(* HandleFrame and HandleKeepalive stamp what is read.                     *)
Read(w) == "relay" \in w.unread
Ponged(w) == "peer" \in w.unread

(* XAPI_Service: wait for input, read what has come, and work for b. What  *)
(* comes while the loop is blocked is read in the next turn.               *)
Service ==
    /\ pc = "service" /\ pc' = "stall"
    /\ \E w \in 1 .. Wait, b \in Blocks :
          \E seen \in Arrived(wire, w) :
             /\ gap' = gap + w + b
             /\ relay' = RelayAged([RelayAged(relay, w) EXCEPT !.recv = IF Read(seen) THEN 0 ELSE @], b)
             /\ peer' = PeerAged([PeerAged(peer, w) EXCEPT !.pong = IF Ponged(seen) THEN 0 ELSE @], b)
             /\ wire' \in Arrived([seen EXCEPT !.unread = {}], b)

(* Mutant: only the clock of the relay is corrected.                       *)
CheckLoopStallRelay ==
    /\ pc = "stall" /\ pc' = "checks" /\ gap' = 0
    /\ LET blocked == IF gap >= Wait + Stall THEN gap - Wait ELSE 0
       IN  relay' = [relay EXCEPT !.recv = Forward(@, blocked)]
    /\ UNCHANGED <<peer, wire>>

(* Mutant: any long gap starts the clocks anew.                            *)
CheckLoopStallAnew ==
    /\ pc = "stall" /\ pc' = "checks" /\ gap' = 0
    /\ LET blocked == IF gap >= Wait + Stall THEN Cap ELSE 0
       IN  /\ relay' = [relay EXCEPT !.recv = Forward(@, blocked)]
           /\ peer' = [peer EXCEPT !.pong = Forward(@, blocked)]
    /\ UNCHANGED wire

(* CheckLoopStall: what a turn took beyond its wait is taken off the       *)
(* clocks that measure silence.                                            *)
CheckLoopStall ==
    /\ pc = "stall" /\ pc' = "checks" /\ gap' = 0
    /\ LET blocked == IF gap >= Wait + Stall THEN gap - Wait ELSE 0
       IN  /\ relay' = [relay EXCEPT !.recv = Forward(@, blocked)]
           /\ peer' = [peer EXCEPT !.pong = Forward(@, blocked)]
    /\ UNCHANGED wire

(* CheckTokenRefresh, which saves the configuration, and CheckAuthTimeouts.*)
Checks ==
    /\ pc = "checks" /\ pc' = "relay"
    /\ \E b \in LateBlocks : Pass(b)

Pinged(w, l) == IF l \in w.dead THEN w ELSE [w EXCEPT !.owed[l] = IF @ = 0 THEN 1 ELSE @]

(* A session that is over; the loss of the relay ends all of them.         *)
Closed == [open |-> FALSE, direct |-> FALSE, ping |-> Never, pong |-> Never]
RelayGone == relay' = [up |-> FALSE, recv |-> Never, probe |-> Never] /\ peer' = Closed

(* The relay was asked since it was heard last.                             *)
Probed == relay.probe # Never /\ relay.probe <= relay.recv

CheckRelayKeepalive ==
    /\ pc = "relay" /\ pc' = "peer"
    /\ \/ /\ ~relay.up \/ relay.recv < Probe \/ (relay.recv < Timeout /\ Probed)
          /\ UNCHANGED <<relay, peer, wire>>
       \/ /\ relay.up /\ relay.recv \in Probe .. (Timeout - 1) /\ ~Probed
          /\ relay' = [relay EXCEPT !.probe = 0]
          /\ wire' = Pinged(wire, "relay") /\ UNCHANGED peer
       \/ /\ relay.up /\ relay.recv >= Timeout
          /\ RelayGone /\ UNCHANGED wire
    /\ UNCHANGED gap

(* Ages in the future count as 0; a ping schedule far behind starts anew.  *)
Since(n) == IF n < 0 THEN 0 ELSE n
Resynced(n) == IF Since(n) > 2 * KATimeout THEN 0 ELSE n

CheckWebRTCKeepalive ==
    /\ pc = "peer" /\ pc' = "service"
    /\ \/ ~peer.open /\ UNCHANGED <<peer, wire>>
       \/ /\ peer.open /\ ~peer.direct
          /\ peer' = [peer EXCEPT !.ping = Never, !.pong = Never] /\ UNCHANGED wire
       \/ /\ peer.open /\ peer.direct /\ peer.ping = Never
          /\ \E j \in Jitter : peer' = [peer EXCEPT !.ping = -j, !.pong = 0]
          /\ UNCHANGED wire
       \/ /\ peer.open /\ peer.direct /\ peer.ping # Never /\ Since(peer.pong) >= KATimeout
          /\ peer' = Closed /\ UNCHANGED wire
       \/ /\ peer.open /\ peer.direct /\ peer.ping # Never /\ Since(peer.pong) < KATimeout
          /\ IF Since(Resynced(peer.ping)) < Interval
             THEN peer' = [peer EXCEPT !.ping = Resynced(@)] /\ UNCHANGED wire
             ELSE peer' = [peer EXCEPT !.ping = 0] /\ wire' = Pinged(wire, "peer")
    /\ UNCHANGED <<gap, relay>>

-----------------------------------------------------------------------------
(* The other side, and what the rest of the agent does with the links.     *)

Dies ==
    /\ pc = "service"
    /\ \E l \in Links \ wire.dead :
          wire' = [wire EXCEPT !.dead = @ \cup {l}, !.owed[l] = 0]
    /\ UNCHANGED <<pc, gap, relay, peer>>

(* The data channel goes down and comes back while the session stays on    *)
(* the relay; a new one takes longer to open than a turn.                  *)
ChannelChanges ==
    /\ pc = "service" /\ peer.open
    /\ ~peer.direct => peer.ping = Never
    /\ peer' = [peer EXCEPT !.direct = ~@]
    /\ wire' = [wire EXCEPT !.owed["peer"] = 0, !.unread = @ \ {"peer"}]
    /\ UNCHANGED <<pc, gap, relay>>

(* InitConnection, with a session that authenticates later.                *)
Reconnect ==
    /\ pc = "service" /\ ~relay.up
    /\ relay' = [up |-> TRUE, recv |-> 0, probe |-> Never]
    /\ wire' = [owed |-> [l \in Links |-> 0], unread |-> {}, dead |-> {}]
    /\ peer' = [open |-> TRUE, direct |-> TRUE, ping |-> Never, pong |-> Never]
    /\ UNCHANGED <<pc, gap>>

KATurn == Service \/ CheckLoopStall \/ Checks \/ CheckRelayKeepalive \/ CheckWebRTCKeepalive
KANext == KATurn \/ Dies \/ ChannelChanges \/ Reconnect

KASpec == KAInit /\ [][KANext]_kaVars

(* The loop turns.                                                         *)
KAFairSpec == KASpec /\ WF_kaVars(KATurn)

-----------------------------------------------------------------------------

(* A relay or a peer that answers its pings is never taken for dead,       *)
(* however often the loop was blocked (directgate.c:2811), as long as no   *)
(* block is longer than the 5 intervals after which, turn after turn, the  *)
(* schedule of the pings would start anew and nobody be asked.             *)
LiveIsKept ==
    /\ "relay" \notin wire.dead => relay.up
    /\ relay.up /\ "peer" \notin wire.dead => peer.open

(* A dead one is noticed, however long and how often the loop is blocked,  *)
(* unless the direct channel is gone anyway.                               *)
DeadIsCut ==
    /\ "relay" \in wire.dead ~> ~relay.up \/ "relay" \notin wire.dead
    /\ "peer" \in wire.dead ~> ~peer.open \/ ~peer.direct \/ "peer" \notin wire.dead

=============================================================================
