--------------------------- MODULE SecureChannel ---------------------------
(***************************************************************************)
(* One direction of the end-to-end encrypted channel between the agent and *)
(* a client: the counters the sender stamps into every encrypted header    *)
(* (protocol.c, AddCC) and the sliding windows with which the receiver     *)
(* decides whether a decrypted packet is new (protocol.c, AcceptHeaderCC;  *)
(* e2e.c, AcceptCC).                                                       *)
(*                                                                         *)
(* The wire is a relay plus up to two WebRTC data channels of which one is *)
(* unordered: a packet once sent can arrive any number of times, in any    *)
(* order, or never.  Encryption is abstracted to "the receiver only reads  *)
(* packets the other side sealed"; the two directions have their own keys  *)
(* and counters, so the other direction is this module with the roles      *)
(* exchanged.                                                              *)
(***************************************************************************)
EXTENDS Integers

CONSTANTS Window,      \* XE2E_CC_WINDOW_SIZE: counters a window remembers
          CounterMax,  \* UINT32_MAX: the counters are 32 bits wide and wrap
          MaxEpoch,    \* bound on the transport generation
          MaxSends     \* bound on the packets of a behaviour

ASSUME ChannelAssumption ==
    /\ Window \in Nat \ {0}
    /\ CounterMax \in Nat \ {0}
    /\ MaxEpoch \in Nat
    /\ MaxSends \in Nat

VARIABLES gen,      \* the sender's webrtc.nSignalGeneration, passed to AddCC
          txEpoch,  \* nTxSessionEpoch
          txCount,  \* nTxPacketId ("none"), nTxSessionPacketId, ...
          rxEpoch,  \* nRxSessionEpoch
          win,      \* rxWindow ("none"), rxSessionWindow, ...
          sent,     \* every packet put on the wire
          times     \* history: how often each packet was handed up

vars == <<gen, txEpoch, txCount, rxEpoch, win, sent, times>>

-----------------------------------------------------------------------------
(* Headers.  "none" is a header without ccScope.                           *)

Scopes == {"none", "session", "input", "signal"}
EpochScopes == {"session", "input"}
Counters == 0 .. CounterMax
Ids == 1 .. MaxSends

Packets == [id : Ids, scope : Scopes, epoch : 0 .. MaxEpoch,
            sc : Counters, cc : Counters]

Inc(n) == (n + 1) % (CounterMax + 1)

-----------------------------------------------------------------------------
(* The sliding window.  Bit i of the bitmap is the member i of bits.       *)

EmptyWindow == [high |-> 0, bits |-> {}]

(* Mutant: the window is one counter short. *)
AcceptsShort(w, n) ==
    /\ n > 0
    /\ \/ w.high = 0
       \/ n > w.high
       \/ w.high - n < Window - 1 /\ (w.high - n) \notin w.bits

Accepts(w, n) ==
    /\ n > 0
    /\ \/ w.high = 0
       \/ n > w.high
       \/ w.high - n < Window /\ (w.high - n) \notin w.bits

Shift(bits, k) == {0} \cup {i \in 0 .. Window - 1 : i - k \in bits}

Mark(w, n) ==
    IF ~Accepts(w, n) THEN w
    ELSE IF w.high = 0 THEN [high |-> n, bits |-> {0}]
    ELSE IF n > w.high
         THEN [high |-> n, bits |-> Shift(w.bits, n - w.high)]
         ELSE [w EXCEPT !.bits = @ \cup {w.high - n}]

-----------------------------------------------------------------------------
(* Receiving: what AcceptHeaderCC decides for the header of m.             *)

WellFormed(m) == m.cc > 0 /\ (m.scope # "none" => m.sc > 0)

Stale(m) == m.scope \in EpochScopes /\ m.epoch < rxEpoch

OpensEpoch(m) == m.scope \in EpochScopes /\ m.epoch > rxEpoch

(* Mutant: a newer epoch empties every window. *)
WindowsForEmpty(m) ==
    IF OpensEpoch(m) THEN [s \in Scopes |-> EmptyWindow] ELSE win

(* A newer epoch empties the session and the input window, and only them.  *)
WindowsFor(m) ==
    IF OpensEpoch(m)
    THEN [win EXCEPT !["session"] = EmptyWindow, !["input"] = EmptyWindow]
    ELSE win

Counter(m) == IF m.scope = "none" THEN m.cc ELSE m.sc

AcceptHeaderCC(m) ==
    /\ WellFormed(m)
    /\ ~Stale(m)
    /\ Accepts(WindowsFor(m)[m.scope], Counter(m))

(* The global counter of a scoped packet is entered as well, unjudged.      *)
Marked(m) ==
    [s \in Scopes |->
        IF s = m.scope THEN Mark(WindowsFor(m)[s], Counter(m))
        ELSE IF s = "none" THEN Mark(WindowsFor(m)[s], m.cc)
        ELSE WindowsFor(m)[s]]

-----------------------------------------------------------------------------
Init ==
    /\ gen = 0
    /\ txEpoch = 0
    /\ txCount = [s \in Scopes |-> 0]
    /\ rxEpoch = 0
    /\ win = [s \in Scopes |-> EmptyWindow]
    /\ sent = {}
    /\ times = [i \in Ids |-> 0]

(* A new peer connection became the active route: an offer of a later      *)
(* generation was applied, or the pending peer was promoted.  A client     *)
(* numbers all of its offers (the browser) or none (the command line       *)
(* client, whose generation stays 0).                                      *)
NewTransport ==
    /\ \E g \in gen + 1 .. MaxEpoch : gen' = g
    /\ UNCHANGED <<txEpoch, txCount, rxEpoch, win, sent, times>>

(* Packets are numbered in the order in which they are sent. *)
Unused(i) == {m.id : m \in sent} = 1 .. i - 1

Post(m) == sent' = sent \cup {m}

(* A session packet: the scoped counter restarts when the generation       *)
(* differs from the epoch of the previous session packet.                  *)
SendSession(i) ==
    LET base  == IF txEpoch # gen THEN 0 ELSE txCount["session"]
        count == [txCount EXCEPT !["session"] = Inc(base),
                                 !["none"] = Inc(@)]
    IN /\ Unused(i)
       /\ txEpoch' = gen
       /\ txCount' = count
       /\ Post([id |-> i, scope |-> "session", epoch |-> gen,
                sc |-> count["session"], cc |-> count["none"]])
       /\ UNCHANGED <<gen, rxEpoch, win, times>>

(* A signaling packet: its own counter, and no epoch in the header.        *)
SendSignal(i) ==
    LET count == [txCount EXCEPT !["signal"] = Inc(@), !["none"] = Inc(@)]
    IN /\ Unused(i)
       /\ txCount' = count
       /\ Post([id |-> i, scope |-> "signal", epoch |-> 0,
                sc |-> count["signal"], cc |-> count["none"]])
       /\ UNCHANGED <<gen, txEpoch, rxEpoch, win, times>>

(* The browser's replaceable input on the unordered channel: a counter of  *)
(* its own under the epoch of the browser's transport.                     *)
SendInput(i) ==
    LET fresh == txEpoch # gen
        count == [txCount EXCEPT
                    !["input"] = Inc(IF fresh THEN 0 ELSE @),
                    !["session"] = IF fresh THEN 0 ELSE @,
                    !["none"] = Inc(@)]
    IN /\ Unused(i)
       /\ txEpoch' = gen
       /\ txCount' = count
       /\ Post([id |-> i, scope |-> "input", epoch |-> gen,
                sc |-> count["input"], cc |-> count["none"]])
       /\ UNCHANGED <<gen, rxEpoch, win, times>>

(* A peer that predates the scopes counts its packets only once.           *)
SendUnscoped(i) ==
    LET count == [txCount EXCEPT !["none"] = Inc(@)]
    IN /\ Unused(i)
       /\ txCount' = count
       /\ Post([id |-> i, scope |-> "none", epoch |-> 0,
                sc |-> 0, cc |-> count["none"]])
       /\ UNCHANGED <<gen, txEpoch, rxEpoch, win, times>>

(* The packet leaves the replay check towards the session's dispatcher.    *)
Accept(m) ==
    /\ AcceptHeaderCC(m)
    /\ rxEpoch' = IF OpensEpoch(m) THEN m.epoch ELSE rxEpoch
    /\ win' = Marked(m)
    /\ times' = [times EXCEPT ![m.id] = @ + 1]
    /\ UNCHANGED <<gen, txEpoch, txCount, sent>>

(* The packet is dropped; a newer epoch stays opened all the same.         *)
Drop(m) ==
    /\ ~AcceptHeaderCC(m)
    /\ IF WellFormed(m) /\ OpensEpoch(m)
       THEN rxEpoch' = m.epoch /\ win' = WindowsFor(m)
       ELSE UNCHANGED <<rxEpoch, win>>
    /\ UNCHANGED <<gen, txEpoch, txCount, sent, times>>

Send(i) == SendSession(i) \/ SendSignal(i) \/ SendInput(i) \/ SendUnscoped(i)

Next ==
    \/ NewTransport
    \/ \E i \in Ids : Send(i)
    \/ \E m \in sent : Accept(m)
    \/ \E m \in sent : Drop(m)

Spec == Init /\ [][Next]_vars

-----------------------------------------------------------------------------
(* Properties.                                                             *)

Windows == [high : Counters, bits : SUBSET (0 .. Window - 1)]

(* The counters and windows stay in the range the C types give them.       *)
TypeOK ==
    /\ gen \in 0 .. MaxEpoch
    /\ txEpoch \in 0 .. MaxEpoch
    /\ txCount \in [Scopes -> Counters]
    /\ rxEpoch \in 0 .. MaxEpoch
    /\ win \in [Scopes -> Windows]
    /\ sent \in SUBSET Packets
    /\ times \in [Ids -> Nat]

(* However the wire duplicates and reorders, and even after a counter      *)
(* wrapped, no packet passes the replay check twice: the bitmap, its       *)
(* shifts and the epoch reset of AcceptHeaderCC never forget a counter     *)
(* they could still be asked about.                                        *)
AtMostOnce == \A i \in Ids : times[i] <= 1

Delivered == {m \in sent : times[m.id] > 0}

(* Once a packet of a transport epoch was accepted, no session or input    *)
(* packet of an earlier epoch is accepted any more: input typed for the    *)
(* retired route cannot reach the session after a migration.               *)
EpochsAreOrdered ==
    [][\A m \in sent : times'[m.id] # times[m.id] /\ m.scope \in EpochScopes
          => \A d \in Delivered :
                d.scope \in EpochScopes => d.epoch <= m.epoch]_vars

SameStream(m, d) == d.scope = m.scope /\ d.epoch = m.epoch

(* No packet of m's stream ran Window or more ahead of m.                  *)
Reachable(m) ==
    IF m.scope = "none"
    THEN \A d \in Delivered : d.cc - m.cc < Window
    ELSE \A d \in Delivered : SameStream(m, d) => d.sc - m.sc < Window

(* The other side of the replay check: until a counter wraps, a packet     *)
(* that was never handed up, is of the newest epoch and was overtaken by   *)
(* fewer than Window counters of its own stream is accepted when it        *)
(* arrives.  Reordering between the scopes never costs a packet.           *)
NoFalseRejection ==
    (\A m \in sent : WellFormed(m)) =>
        \A m \in sent :
            times[m.id] = 0 /\ ~Stale(m) /\ Reachable(m) => AcceptHeaderCC(m)

(* The receiver never is in an epoch the sender has left for an earlier    *)
(* one: otherwise all further session traffic would be dropped as stale.   *)
SenderNeverBehind == rxEpoch <= gen

Once == INSTANCE OnceChannel WITH packets <- sent, handedUp <- times

(* The windows implement the abstract channel that remembers everything.   *)
ImplementsOnce == Once!Spec
=============================================================================
