------------------------ MODULE SecureChannel_proofs ------------------------
(***************************************************************************)
(* Proofs about SecureChannel, for every window size, counter width,       *)
(* number of epochs and number of packets.                                 *)
(***************************************************************************)
EXTENDS SecureChannel, TLAPS

-----------------------------------------------------------------------------
(* The window.  A counter is covered when the window would refuse it.      *)

Covers(w, n) ==
    /\ w.high > 0
    /\ n <= w.high
    /\ w.high - n < Window => (w.high - n) \in w.bits

(* Marking a counter keeps a window a window: AcceptCC's shift never       *)
(* leaves a bit outside the bitmap.                                        *)
LEMMA MarkType ==
    ASSUME NEW w \in Windows, NEW n \in Counters
    PROVE  Mark(w, n) \in Windows
<1>1. Window \in Nat \ {0} /\ CounterMax \in Nat \ {0}
  BY ChannelAssumption
<1>2. w.high \in Counters /\ w.bits \in SUBSET (0 .. Window - 1)
  BY DEF Windows
<1>3. ASSUME NEW k \in Nat
      PROVE  Shift(w.bits, k) \in SUBSET (0 .. Window - 1)
  BY <1>1 DEF Shift
<1>4. CASE ~Accepts(w, n)
  BY <1>4 DEF Mark
<1>5. CASE Accepts(w, n) /\ w.high = 0
  <2>1. Mark(w, n) = [high |-> n, bits |-> {0}]
    BY <1>5 DEF Mark
  <2> QED BY <2>1, <1>1 DEF Windows
<1>6. CASE Accepts(w, n) /\ w.high # 0 /\ n > w.high
  <2>1. Mark(w, n) = [high |-> n, bits |-> Shift(w.bits, n - w.high)]
    BY <1>6 DEF Mark
  <2>2. n - w.high \in Nat
    BY <1>1, <1>2, <1>6 DEF Counters
  <2> QED BY <2>1, <2>2, <1>3 DEF Windows
<1>7. CASE Accepts(w, n) /\ w.high # 0 /\ ~(n > w.high)
  <2>1. Mark(w, n) = [w EXCEPT !.bits = @ \cup {w.high - n}]
    BY <1>7 DEF Mark
  <2>2. w.high - n \in 0 .. Window - 1
    BY <1>1, <1>2, <1>7 DEF Accepts, Counters
  <2> QED BY <2>1, <2>2, <1>2 DEF Windows
<1> QED BY <1>4, <1>5, <1>6, <1>7

(* A covered counter is refused.                                           *)
LEMMA CoveredRefused ==
    ASSUME NEW w \in Windows, NEW n \in Counters, Covers(w, n)
    PROVE  ~Accepts(w, n)
BY ChannelAssumption DEF Covers, Accepts, Windows, Counters

(* Marking covers the counter that was accepted.                           *)
LEMMA MarkCovers ==
    ASSUME NEW w \in Windows, NEW n \in Counters, Accepts(w, n)
    PROVE  Covers(Mark(w, n), n)
<1>1. CounterMax \in Nat /\ w.high \in Counters /\ n > 0
  BY ChannelAssumption DEF Windows, Accepts
<1>2. CASE w.high = 0
  BY <1>1, <1>2 DEF Mark, Covers, Counters
<1>3. CASE w.high # 0 /\ n > w.high
  BY <1>1, <1>3 DEF Mark, Covers, Counters, Shift
<1>4. CASE w.high # 0 /\ ~(n > w.high)
  <2>1. Mark(w, n) = [w EXCEPT !.bits = @ \cup {w.high - n}]
    BY <1>4 DEF Mark
  <2>2. Mark(w, n).high = w.high /\ w.high - n \in Mark(w, n).bits
    BY <2>1 DEF Windows
  <2> QED BY <1>1, <1>4, <2>2 DEF Covers, Counters
<1> QED BY <1>2, <1>3, <1>4

(* Marking uncovers nothing: what the bitmap shifts out has fallen Window  *)
(* or more behind.                                                         *)
LEMMA MarkKeeps ==
    ASSUME NEW w \in Windows, NEW n \in Counters, NEW k \in Counters,
           Covers(w, k)
    PROVE  Covers(Mark(w, n), k)
<1>1. CounterMax \in Nat /\ Window \in Nat /\ w.high \in Counters /\ w.high > 0
  BY ChannelAssumption DEF Windows, Covers
<1>2. CASE ~Accepts(w, n)
  BY <1>2 DEF Mark
<1>3. CASE Accepts(w, n) /\ n > w.high
  <2>1. Mark(w, n) = [high |-> n, bits |-> Shift(w.bits, n - w.high)]
    BY <1>1, <1>3 DEF Mark
  <2>2. k <= n /\ n > 0
    BY <1>1, <1>3 DEF Covers, Counters
  <2>3. ASSUME n - k < Window PROVE n - k \in Shift(w.bits, n - w.high)
    <3>1. w.high - k < Window /\ w.high - k >= 0
      BY <1>1, <1>3, <2>3 DEF Covers, Counters
    <3>2. w.high - k \in w.bits
      BY <3>1 DEF Covers
    <3>3. (n - k) - (n - w.high) = w.high - k /\ n - k \in 0 .. Window - 1
      BY <1>1, <1>3, <2>3, <3>1 DEF Counters
    <3> QED BY <3>2, <3>3 DEF Shift
  <2> QED BY <2>1, <2>2, <2>3 DEF Covers
<1>4. CASE Accepts(w, n) /\ ~(n > w.high)
  <2>1. Mark(w, n) = [w EXCEPT !.bits = @ \cup {w.high - n}]
    BY <1>1, <1>4 DEF Mark
  <2>2. Mark(w, n).high = w.high /\ w.bits \subseteq Mark(w, n).bits
    BY <2>1 DEF Windows
  <2> QED BY <2>2 DEF Covers
<1> QED BY <1>2, <1>3, <1>4

-----------------------------------------------------------------------------
(* Type correctness.                                                       *)

(* A wrapped increment stays a counter.                                    *)
LEMMA IncType ==
    ASSUME NEW n \in Nat
    PROVE  Inc(n) \in Counters
BY ChannelAssumption DEF Inc, Counters

(* The counter and windows a header is judged with are well typed.         *)
LEMMA HeaderTypes ==
    ASSUME TypeOK, NEW m \in sent
    PROVE  /\ m.id \in Ids
           /\ m.scope \in Scopes
           /\ m.epoch \in 0 .. MaxEpoch
           /\ m.sc \in Counters
           /\ m.cc \in Counters
           /\ Counter(m) \in Counters
           /\ WindowsFor(m) \in [Scopes -> Windows]
<1>1. m \in Packets
  BY DEF TypeOK
<1>2. EmptyWindow \in Windows
  BY ChannelAssumption DEF EmptyWindow, Windows, Counters
<1>3. WindowsFor(m) \in [Scopes -> Windows]
  BY <1>2 DEF TypeOK, WindowsFor
<1> QED BY <1>1, <1>3 DEF Packets, Counter

(* Every send keeps the counters in range and posts a well-typed packet.   *)
LEMMA SendType ==
    ASSUME TypeOK, NEW i \in Ids, Send(i)
    PROVE  TypeOK'
<1>1. txCount["session"] \in Nat /\ txCount["signal"] \in Nat
      /\ txCount["input"] \in Nat /\ txCount["none"] \in Nat /\ 0 \in Nat
  BY ChannelAssumption DEF TypeOK, Counters, Scopes
<1>2. 0 \in 0 .. MaxEpoch /\ 0 \in Counters
  BY ChannelAssumption DEF Counters
<1>3. CASE SendSession(i)
  <2> DEFINE base == IF txEpoch # gen THEN 0 ELSE txCount["session"]
             count == [txCount EXCEPT !["session"] = Inc(base),
                                      !["none"] = Inc(@)]
  <2>1. Inc(base) \in Counters /\ Inc(txCount["none"]) \in Counters
    BY <1>1, IncType
  <2>2. count \in [Scopes -> Counters]
    BY <2>1 DEF TypeOK
  <2>3. count["session"] \in Counters /\ count["none"] \in Counters
    BY <2>2 DEF Scopes
  <2> HIDE DEF count
  <2>4. [id |-> i, scope |-> "session", epoch |-> gen,
         sc |-> count["session"], cc |-> count["none"]] \in Packets
    BY <2>3 DEF Packets, Scopes, TypeOK
  <2>5. txCount' = count /\ txEpoch' = gen
        /\ sent' = sent \cup {[id |-> i, scope |-> "session", epoch |-> gen,
                               sc |-> count["session"], cc |-> count["none"]]}
        /\ UNCHANGED <<gen, rxEpoch, win, times>>
    BY <1>3 DEF SendSession, Post, count
  <2> QED BY <2>2, <2>4, <2>5 DEF TypeOK
<1>4. CASE SendSignal(i)
  <2> DEFINE count == [txCount EXCEPT !["signal"] = Inc(@), !["none"] = Inc(@)]
  <2>1. Inc(txCount["signal"]) \in Counters /\ Inc(txCount["none"]) \in Counters
    BY <1>1, IncType
  <2>2. count \in [Scopes -> Counters]
    BY <2>1 DEF TypeOK
  <2>3. count["signal"] \in Counters /\ count["none"] \in Counters
    BY <2>2 DEF Scopes
  <2> HIDE DEF count
  <2>4. [id |-> i, scope |-> "signal", epoch |-> 0,
         sc |-> count["signal"], cc |-> count["none"]] \in Packets
    BY <2>3, <1>2 DEF Packets, Scopes
  <2>5. txCount' = count
        /\ sent' = sent \cup {[id |-> i, scope |-> "signal", epoch |-> 0,
                               sc |-> count["signal"], cc |-> count["none"]]}
        /\ UNCHANGED <<gen, txEpoch, rxEpoch, win, times>>
    BY <1>4 DEF SendSignal, Post, count
  <2> QED BY <2>2, <2>4, <2>5 DEF TypeOK
<1>5. CASE SendInput(i)
  <2> DEFINE fresh == txEpoch # gen
             count == [txCount EXCEPT
                         !["input"] = Inc(IF fresh THEN 0 ELSE @),
                         !["session"] = IF fresh THEN 0 ELSE @,
                         !["none"] = Inc(@)]
  <2>1. /\ Inc(IF fresh THEN 0 ELSE txCount["input"]) \in Counters
        /\ (IF fresh THEN 0 ELSE txCount["session"]) \in Counters
        /\ Inc(txCount["none"]) \in Counters
    BY <1>1, <1>2, IncType DEF TypeOK, Scopes
  <2>2. count \in [Scopes -> Counters]
    BY <2>1 DEF TypeOK
  <2>3. count["input"] \in Counters /\ count["none"] \in Counters
    BY <2>2 DEF Scopes
  <2> HIDE DEF count
  <2>4. [id |-> i, scope |-> "input", epoch |-> gen,
         sc |-> count["input"], cc |-> count["none"]] \in Packets
    BY <2>3 DEF Packets, Scopes, TypeOK
  <2>5. txCount' = count /\ txEpoch' = gen
        /\ sent' = sent \cup {[id |-> i, scope |-> "input", epoch |-> gen,
                               sc |-> count["input"], cc |-> count["none"]]}
        /\ UNCHANGED <<gen, rxEpoch, win, times>>
    BY <1>5 DEF SendInput, Post, count
  <2> QED BY <2>2, <2>4, <2>5 DEF TypeOK
<1>6. CASE SendUnscoped(i)
  <2> DEFINE count == [txCount EXCEPT !["none"] = Inc(@)]
  <2>1. Inc(txCount["none"]) \in Counters
    BY <1>1, IncType
  <2>2. count \in [Scopes -> Counters]
    BY <2>1 DEF TypeOK
  <2>3. count["none"] \in Counters
    BY <2>2 DEF Scopes
  <2> HIDE DEF count
  <2>4. [id |-> i, scope |-> "none", epoch |-> 0,
         sc |-> 0, cc |-> count["none"]] \in Packets
    BY <2>3, <1>2 DEF Packets, Scopes
  <2>5. txCount' = count
        /\ sent' = sent \cup {[id |-> i, scope |-> "none", epoch |-> 0,
                               sc |-> 0, cc |-> count["none"]]}
        /\ UNCHANGED <<gen, txEpoch, rxEpoch, win, times>>
    BY <1>6 DEF SendUnscoped, Post, count
  <2> QED BY <2>2, <2>4, <2>5 DEF TypeOK
<1> QED BY <1>3, <1>4, <1>5, <1>6 DEF Send

(* The initial counters and windows are well typed.                        *)
LEMMA TypeInit == Init => TypeOK
BY ChannelAssumption
   DEF Init, TypeOK, Counters, Windows, EmptyWindow, Scopes, Ids

(* Every step keeps the type invariant: one case per action.               *)
LEMMA TypeNext == TypeOK /\ [Next]_vars => TypeOK'
<1> SUFFICES ASSUME TypeOK, [Next]_vars PROVE TypeOK'
  OBVIOUS
<1>1. CASE NewTransport
  BY <1>1, ChannelAssumption DEF NewTransport, TypeOK
<1>2. ASSUME NEW i \in Ids, Send(i) PROVE TypeOK'
  BY <1>2, SendType
<1>3. ASSUME NEW m \in sent, Accept(m) PROVE TypeOK'
  <2> DEFINE wf == WindowsFor(m)
  <2>1. /\ m.id \in Ids /\ m.scope \in Scopes /\ m.epoch \in 0 .. MaxEpoch
        /\ m.cc \in Counters /\ Counter(m) \in Counters
        /\ wf \in [Scopes -> Windows]
    BY HeaderTypes
  <2>5. win' \in [Scopes -> Windows]
    BY <1>3, <2>1, MarkType DEF Accept, Marked
  <2>6. times' \in [Ids -> Nat]
    BY <1>3, <2>1 DEF Accept, TypeOK
  <2> QED BY <1>3, <2>1, <2>5, <2>6 DEF Accept, TypeOK
<1>4. ASSUME NEW m \in sent, Drop(m) PROVE TypeOK'
  BY <1>4, HeaderTypes DEF Drop, TypeOK
<1>5. CASE UNCHANGED vars
  BY <1>5 DEF vars, TypeOK
<1> QED BY <1>1, <1>2, <1>3, <1>4, <1>5 DEF Next

(* The counters and the windows of both sides stay within the types the C  *)
(* structure gives them, through every wrap and epoch change.              *)
THEOREM TypeCorrect == Spec => []TypeOK
BY TypeInit, TypeNext, PTL DEF Spec

-----------------------------------------------------------------------------
(* At most once.  A delivered packet stays recorded: its epoch was left    *)
(* behind or the window of its scope covers its counter.                   *)

Recorded(m) ==
    \/ Stale(m)
    \/ ~OpensEpoch(m) /\ Covers(win[m.scope], Counter(m))

IdsAreUnique == \A m, d \in sent : m.id = d.id => m = d

DeliveredAreRecorded == \A m \in sent : times[m.id] > 0 => Recorded(m)

OnlySentCount ==
    \A i \in Ids : times[i] > 0 => \E m \in sent : m.id = i

OnceInv ==
    /\ TypeOK
    /\ IdsAreUnique
    /\ OnlySentCount
    /\ DeliveredAreRecorded
    /\ AtMostOnce

(* A recorded packet is refused, so accepting it cannot happen again.      *)
LEMMA RecordedRefused ==
    ASSUME TypeOK, NEW m \in sent, Recorded(m)
    PROVE  ~AcceptHeaderCC(m)
<1>1. CASE Stale(m)
  BY <1>1 DEF AcceptHeaderCC
<1>2. CASE ~OpensEpoch(m) /\ Covers(win[m.scope], Counter(m))
  <2>1. WindowsFor(m) = win /\ m.scope \in Scopes /\ Counter(m) \in Counters
    BY <1>2, HeaderTypes DEF WindowsFor
  <2>2. win[m.scope] \in Windows
    BY <2>1 DEF TypeOK
  <2>3. ~Accepts(win[m.scope], Counter(m))
    BY <1>2, <2>1, <2>2, CoveredRefused
  <2> QED BY <2>1, <2>3 DEF AcceptHeaderCC
<1> QED BY <1>1, <1>2 DEF Recorded

(* Accepting m records m and leaves every recorded packet recorded.        *)
LEMMA AcceptRecords ==
    ASSUME TypeOK, NEW m \in sent, Accept(m)
    PROVE  Recorded(m)'
<1>1. /\ m.scope \in Scopes /\ Counter(m) \in Counters
      /\ WindowsFor(m)[m.scope] \in Windows
  BY HeaderTypes
<1>2. Accepts(WindowsFor(m)[m.scope], Counter(m))
  BY DEF Accept, AcceptHeaderCC
<1>3. win'[m.scope] = Mark(WindowsFor(m)[m.scope], Counter(m))
  BY <1>1 DEF Accept, Marked
<1>4. Covers(win'[m.scope], Counter(m))
  BY <1>1, <1>2, <1>3, MarkCovers
<1>5. ~OpensEpoch(m)'
  <2>1. m.epoch \in Nat /\ rxEpoch \in Nat
    BY HeaderTypes, ChannelAssumption DEF TypeOK
  <2> QED BY <2>1 DEF Accept, OpensEpoch
<1>6. Counter(m)' = Counter(m)
  BY DEF Counter
<1> QED BY <1>4, <1>5, <1>6 DEF Recorded, Covers

(* Accepting a packet keeps the record of handed-up packets.               *)
LEMMA AcceptKeeps ==
    ASSUME TypeOK, NEW m \in sent, Accept(m),
           NEW d \in sent, Recorded(d)
    PROVE  Recorded(d)'
<1>1. /\ m.scope \in Scopes /\ Counter(m) \in Counters /\ m.cc \in Counters
      /\ m.epoch \in Nat /\ WindowsFor(m) \in [Scopes -> Windows]
      /\ d.scope \in Scopes /\ Counter(d) \in Counters /\ d.epoch \in Nat
  BY HeaderTypes, ChannelAssumption
<1>2. rxEpoch \in Nat /\ rxEpoch' \in Nat /\ rxEpoch <= rxEpoch'
  BY <1>1, ChannelAssumption DEF TypeOK, Accept, OpensEpoch
<1>3. CASE Stale(d)
  BY <1>1, <1>2, <1>3 DEF Stale, Recorded
<1>4. CASE ~Stale(d) /\ d.scope \in EpochScopes /\ OpensEpoch(m)
  BY <1>1, <1>2, <1>4 DEF Stale, Recorded, OpensEpoch, Accept
<1>5. CASE ~Stale(d) /\ ~(d.scope \in EpochScopes /\ OpensEpoch(m))
  <2>1. ~OpensEpoch(d) /\ Covers(win[d.scope], Counter(d))
    BY <1>5 DEF Recorded
  <2>2. WindowsFor(m)[d.scope] = win[d.scope]
    BY <1>1, <1>5 DEF WindowsFor, EpochScopes, TypeOK
  <2>3. \/ win'[d.scope] = Mark(win[d.scope], Counter(m))
        \/ win'[d.scope] = Mark(win[d.scope], m.cc)
        \/ win'[d.scope] = win[d.scope]
    BY <1>1, <2>2 DEF Accept, Marked
  <2>4. win[d.scope] \in Windows
    BY <1>1 DEF TypeOK
  <2>5. Covers(win'[d.scope], Counter(d))
    BY <1>1, <2>1, <2>3, <2>4, MarkKeeps
  <2>6. ~OpensEpoch(d)'
    BY <1>1, <1>2, <2>1 DEF OpensEpoch
  <2>7. Counter(d)' = Counter(d)
    BY DEF Counter
  <2> QED BY <2>5, <2>6, <2>7 DEF Recorded, Covers
<1> QED BY <1>3, <1>4, <1>5

(* So does dropping one, which may open a newer epoch.                     *)
LEMMA DropKeeps ==
    ASSUME TypeOK, NEW m \in sent, Drop(m),
           NEW d \in sent, Recorded(d)
    PROVE  Recorded(d)'
<1>1. /\ m.scope \in Scopes /\ m.epoch \in Nat
      /\ d.scope \in Scopes /\ d.epoch \in Nat
  BY HeaderTypes, ChannelAssumption
<1>2. rxEpoch \in Nat
  BY ChannelAssumption DEF TypeOK
<1>3. Counter(d)' = Counter(d)
  BY DEF Counter
<1>4. CASE UNCHANGED <<rxEpoch, win>>
  BY <1>3, <1>4 DEF Recorded, Stale, OpensEpoch, Covers
<1>5. CASE OpensEpoch(m) /\ rxEpoch' = m.epoch /\ win' = WindowsFor(m)
  <2>1. CASE d.scope \in EpochScopes
    BY <1>1, <1>2, <1>5, <2>1 DEF Recorded, Stale, OpensEpoch
  <2>2. CASE d.scope \notin EpochScopes
    <3>1. win'[d.scope] = win[d.scope]
      BY <1>1, <1>5, <2>2 DEF WindowsFor, EpochScopes, TypeOK
    <3> QED BY <1>3, <2>2, <3>1 DEF Recorded, Stale, OpensEpoch, Covers
  <2> QED BY <2>1, <2>2
<1> QED BY <1>4, <1>5 DEF Drop

(* Nothing is handed up initially.                                         *)
LEMMA OnceInit == Init => OnceInv
BY TypeInit
   DEF Init, OnceInv, IdsAreUnique, OnlySentCount, DeliveredAreRecorded,
       AtMostOnce

(* A new packet has an id of its own and was never handed up.              *)
LEMMA OnceSend ==
    ASSUME OnceInv, NEW i \in Ids, Send(i)
    PROVE  OnceInv'
<1>1. TypeOK'
  BY SendType DEF OnceInv
<1>2. PICK p : p.id = i /\ sent' = sent \cup {p}
  BY DEF Send, SendSession, SendSignal, SendInput, SendUnscoped, Post
<1>3. \A m \in sent : m.id # i
  <2>1. {m.id : m \in sent} = 1 .. i - 1
    BY DEF Send, SendSession, SendSignal, SendInput, SendUnscoped, Unused
  <2>2. i \in Nat
    BY ChannelAssumption DEF Ids
  <2>3. i \notin {m.id : m \in sent}
    BY <2>1, <2>2
  <2> QED BY <2>3
<1>4. UNCHANGED <<rxEpoch, win, times>>
  BY DEF Send, SendSession, SendSignal, SendInput, SendUnscoped
<1>5. IdsAreUnique'
  BY <1>2, <1>3 DEF OnceInv, IdsAreUnique
<1>6. OnlySentCount'
  BY <1>2, <1>4 DEF OnceInv, OnlySentCount
<1>7. DeliveredAreRecorded'
  <2> SUFFICES ASSUME NEW m \in sent', times'[m.id] > 0
               PROVE  Recorded(m)'
    BY DEF DeliveredAreRecorded
  <2>1. m \in sent
    <3>1. times[m.id] > 0
      BY <1>4
    <3>2. ASSUME m = p PROVE FALSE
      BY <1>2, <1>3, <3>1, <3>2 DEF OnceInv, OnlySentCount
    <3> QED BY <1>2, <3>2
  <2>2. Recorded(m)
    BY <1>4, <2>1 DEF OnceInv, DeliveredAreRecorded
  <2> QED BY <1>4, <2>2 DEF Recorded, Stale, OpensEpoch, Covers, Counter
<1>8. AtMostOnce'
  BY <1>4 DEF OnceInv, AtMostOnce
<1> QED BY <1>1, <1>5, <1>6, <1>7, <1>8 DEF OnceInv

(* An accepted packet was not recorded, so it is counted once.             *)
LEMMA OnceAccept ==
    ASSUME OnceInv, NEW m \in sent, Accept(m)
    PROVE  OnceInv'
<1>0. TypeOK
  BY DEF OnceInv
<1>1. TypeOK'
  BY <1>0, TypeNext DEF Next
<1>2. m.id \in Ids /\ times \in [Ids -> Nat]
  BY <1>0, HeaderTypes DEF TypeOK
<1>3. times' = [times EXCEPT ![m.id] = @ + 1] /\ sent' = sent
  BY DEF Accept
<1>4. times[m.id] = 0
  <2>1. ~Recorded(m)
    BY <1>0, RecordedRefused DEF Accept
  <2>2. ~(times[m.id] > 0)
    BY <2>1 DEF OnceInv, DeliveredAreRecorded
  <2> QED BY <1>2, <2>2
<1>5. IdsAreUnique'
  BY <1>3 DEF OnceInv, IdsAreUnique
<1>6. OnlySentCount'
  BY <1>2, <1>3 DEF OnceInv, OnlySentCount
<1>7. DeliveredAreRecorded'
  <2> SUFFICES ASSUME NEW d \in sent', times'[d.id] > 0
               PROVE  Recorded(d)'
    BY DEF DeliveredAreRecorded
  <2>1. d \in sent
    BY <1>3
  <2>2. CASE d = m
    BY <1>0, <2>2, AcceptRecords
  <2>3. CASE d # m
    <3>1. d.id # m.id /\ d.id \in Ids
      BY <1>0, <2>1, <2>3, HeaderTypes DEF OnceInv, IdsAreUnique
    <3>2. times[d.id] > 0
      BY <1>2, <1>3, <3>1
    <3>3. Recorded(d)
      BY <2>1, <3>2 DEF OnceInv, DeliveredAreRecorded
    <3> QED BY <1>0, <2>1, <3>3, AcceptKeeps
  <2> QED BY <2>2, <2>3
<1>8. AtMostOnce'
  BY <1>2, <1>3, <1>4 DEF OnceInv, AtMostOnce
<1> QED BY <1>1, <1>5, <1>6, <1>7, <1>8 DEF OnceInv

(* A dropped packet is not counted.                                        *)
LEMMA OnceDrop ==
    ASSUME OnceInv, NEW m \in sent, Drop(m)
    PROVE  OnceInv'
<1>0. TypeOK
  BY DEF OnceInv
<1>1. TypeOK'
  BY <1>0, TypeNext DEF Next
<1>2. UNCHANGED <<sent, times>>
  BY DEF Drop
<1>3. DeliveredAreRecorded'
  <2> SUFFICES ASSUME NEW d \in sent, times[d.id] > 0
               PROVE  Recorded(d)'
    BY <1>2 DEF DeliveredAreRecorded
  <2> QED BY <1>0, DropKeeps DEF OnceInv, DeliveredAreRecorded
<1> QED BY <1>1, <1>2, <1>3
        DEF OnceInv, IdsAreUnique, OnlySentCount, AtMostOnce

(* The strengthened invariant is inductive.                                *)
LEMMA OnceNext == OnceInv /\ [Next]_vars => OnceInv'
<1> SUFFICES ASSUME OnceInv, [Next]_vars PROVE OnceInv'
  OBVIOUS
<1>0. TypeOK'
  BY TypeNext DEF OnceInv
<1>1. CASE NewTransport
  BY <1>0, <1>1
     DEF NewTransport, OnceInv, IdsAreUnique, OnlySentCount, AtMostOnce,
         DeliveredAreRecorded, Recorded, Stale, OpensEpoch, Covers, Counter
<1>2. CASE UNCHANGED vars
  BY <1>0, <1>2
     DEF vars, OnceInv, IdsAreUnique, OnlySentCount, AtMostOnce,
         DeliveredAreRecorded, Recorded, Stale, OpensEpoch, Covers, Counter
<1> QED BY <1>1, <1>2, OnceSend, OnceAccept, OnceDrop DEF Next

(* No packet passes the replay check twice.                                *)
THEOREM PacketsAtMostOnce == Spec => []AtMostOnce
<1>1. OnceInv => AtMostOnce
  BY DEF OnceInv
<1> QED BY <1>1, OnceInit, OnceNext, PTL DEF Spec

-----------------------------------------------------------------------------
(* Order of the epochs.                                                    *)

(* A recorded packet never is of a later epoch than the receiver.          *)
LEMMA RecordedEpoch ==
    ASSUME TypeOK, NEW d \in sent, Recorded(d), d.scope \in EpochScopes
    PROVE  d.epoch <= rxEpoch
<1>1. d.epoch \in Nat /\ rxEpoch \in Nat
  BY HeaderTypes, ChannelAssumption DEF TypeOK
<1> QED BY <1>1 DEF Recorded, Stale, OpensEpoch

(* What the action property asks of a single step.                         *)
EpochOrderStep ==
    \A m \in sent : times'[m.id] # times[m.id] /\ m.scope \in EpochScopes
        => \A d \in Delivered :
              d.scope \in EpochScopes => d.epoch <= m.epoch

(* No step hands a packet up after one of a later epoch.                   *)
LEMMA EpochStep == OnceInv /\ [Next]_vars => EpochOrderStep
<1> SUFFICES ASSUME OnceInv, [Next]_vars,
                    NEW m \in sent, times'[m.id] # times[m.id],
                    m.scope \in EpochScopes,
                    NEW d \in Delivered, d.scope \in EpochScopes
             PROVE  d.epoch <= m.epoch
  BY DEF EpochOrderStep
<1>0. TypeOK /\ d \in sent
  BY DEF OnceInv, Delivered
<1>1. PICK a \in sent : Accept(a)
  BY DEF Next, vars, NewTransport, Send, SendSession, SendSignal, SendInput,
         SendUnscoped, Drop
<1>2. a = m
  <2>1. a.id = m.id
    BY <1>0, <1>1, HeaderTypes DEF Accept, TypeOK
  <2> QED BY <2>1 DEF OnceInv, IdsAreUnique
<1>3. ~Stale(m)
  BY <1>1, <1>2 DEF Accept, AcceptHeaderCC
<1>4. d.epoch <= rxEpoch
  BY <1>0, RecordedEpoch DEF OnceInv, DeliveredAreRecorded, Delivered
<1>5. d.epoch \in Nat /\ m.epoch \in Nat /\ rxEpoch \in Nat
  BY <1>0, HeaderTypes, ChannelAssumption DEF TypeOK
<1> QED BY <1>3, <1>4, <1>5 DEF Stale

(* Session and input packets are never handed up after a later epoch's.    *)
THEOREM EpochsOrdered == Spec => EpochsAreOrdered
<1>1. OnceInv /\ [Next]_vars => [EpochOrderStep]_vars
  BY EpochStep
<1>2. EpochsAreOrdered <=> [][EpochOrderStep]_vars
  BY DEF EpochsAreOrdered, EpochOrderStep
<1> QED BY <1>1, <1>2, OnceInit, OnceNext, PTL DEF Spec

-----------------------------------------------------------------------------
(* The receiver's epoch.                                                   *)

EpochInv ==
    /\ TypeOK
    /\ \A m \in sent : m.epoch <= gen
    /\ SenderNeverBehind

(* Epochs in flight never exceed the generation of the sender.             *)
LEMMA EpochNext == EpochInv /\ [Next]_vars => EpochInv'
<1> SUFFICES ASSUME EpochInv, [Next]_vars PROVE EpochInv'
  OBVIOUS
<1>0. TypeOK /\ TypeOK'
  BY TypeNext DEF EpochInv
<1>1. gen \in Nat /\ gen' \in Nat /\ rxEpoch \in Nat
  BY <1>0, ChannelAssumption DEF TypeOK
<1>2. CASE NewTransport
  <2>1. gen <= gen' /\ UNCHANGED <<sent, rxEpoch>>
    BY <1>1, <1>2, ChannelAssumption DEF NewTransport
  <2>2. \A m \in sent : m.epoch \in Nat
    BY <1>0, HeaderTypes, ChannelAssumption
  <2> QED BY <1>0, <1>1, <2>1, <2>2 DEF EpochInv, SenderNeverBehind
<1>3. ASSUME NEW i \in Ids, Send(i) PROVE EpochInv'
  <2>1. \A m \in sent' : m \in sent \/ m.epoch \in {0, gen}
    <3>1. CASE SendSession(i)
      BY <3>1 DEF SendSession, Post
    <3>2. CASE SendSignal(i)
      BY <3>2 DEF SendSignal, Post
    <3>3. CASE SendInput(i)
      BY <3>3 DEF SendInput, Post
    <3>4. CASE SendUnscoped(i)
      BY <3>4 DEF SendUnscoped, Post
    <3> QED BY <1>3, <3>1, <3>2, <3>3, <3>4 DEF Send
  <2>2. UNCHANGED <<gen, rxEpoch>>
    BY <1>3 DEF Send, SendSession, SendSignal, SendInput, SendUnscoped
  <2> QED BY <1>0, <1>1, <2>1, <2>2 DEF EpochInv, SenderNeverBehind
<1>4. ASSUME NEW m \in sent, Accept(m) \/ Drop(m) PROVE EpochInv'
  <2>1. rxEpoch' \in {rxEpoch, m.epoch} /\ UNCHANGED <<gen, sent>>
    BY <1>4 DEF Accept, Drop
  <2> QED BY <1>0, <2>1 DEF EpochInv, SenderNeverBehind
<1>5. CASE UNCHANGED vars
  BY <1>0, <1>5 DEF vars, EpochInv, SenderNeverBehind
<1> QED BY <1>2, <1>3, <1>4, <1>5 DEF Next

(* The receiver never waits in an epoch the sender has left backwards.     *)
THEOREM SenderKeepsUp == Spec => []SenderNeverBehind
<1>1. Init => EpochInv
  BY TypeInit DEF Init, EpochInv, SenderNeverBehind
<1>2. EpochInv => SenderNeverBehind
  BY DEF EpochInv
<1> QED BY <1>1, <1>2, EpochNext, PTL DEF Spec

-----------------------------------------------------------------------------
(* Refinement: the windows implement a channel with a perfect memory.      *)

(* Sending is the Send of the abstract channel.                            *)
LEMMA SendRefines ==
    ASSUME NEW i \in Ids, OnceInv, Send(i)
    PROVE  Once!Send
<1>1. PICK p : p.id = i /\ sent' = sent \cup {p}
  BY DEF Send, SendSession, SendSignal, SendInput, SendUnscoped, Post
<1>2. \A m \in sent : m.id # i
  <2>1. {m.id : m \in sent} = 1 .. i - 1 /\ i \in Nat
    BY ChannelAssumption
       DEF Send, SendSession, SendSignal, SendInput, SendUnscoped, Unused, Ids
  <2>2. i \notin {m.id : m \in sent}
    BY <2>1
  <2> QED BY <2>2
<1>3. UNCHANGED times
  BY DEF Send, SendSession, SendSignal, SendInput, SendUnscoped
<1>4. \E m \in sent' : m.id = i /\ sent' = sent \cup {m}
  BY <1>1
<1>5. i \in Once!Ids
  BY DEF Ids, Once!Ids
<1> QED BY <1>2, <1>3, <1>4, <1>5 DEF Once!Send

(* Accepting is the HandUp of the abstract channel.                        *)
LEMMA AcceptRefines ==
    ASSUME NEW m \in sent, OnceInv, Accept(m)
    PROVE  Once!HandUp(m)
<1>1. TypeOK /\ m.id \in Ids /\ times \in [Ids -> Nat]
  BY HeaderTypes DEF OnceInv, TypeOK
<1>2. times[m.id] = 0
  <2>1. ~Recorded(m)
    BY <1>1, RecordedRefused DEF Accept
  <2> QED BY <1>1, <2>1 DEF OnceInv, DeliveredAreRecorded
<1>3. times' = [times EXCEPT ![m.id] = 1] /\ UNCHANGED sent
  BY <1>1, <1>2 DEF Accept
<1>4. times'[m.id] # times[m.id]
  BY <1>1, <1>2, <1>3
<1>5. EpochOrderStep
  BY EpochStep DEF Next
<1>6. Once!Ordered(m) => \A d \in sent :
         Once!Ordered(d) /\ times[d.id] > 0 => d.epoch <= m.epoch
  BY <1>4, <1>5 DEF EpochOrderStep, Once!Ordered, EpochScopes, Delivered
<1> QED BY <1>2, <1>3, <1>6 DEF Once!HandUp

(* Every step of the channel is a step of OnceChannel or a stutter.        *)
LEMMA StepRefines == OnceInv /\ [Next]_vars => [Once!Next]_<<sent, times>>
<1> SUFFICES ASSUME OnceInv, [Next]_vars
             PROVE  [Once!Next]_<<sent, times>>
  OBVIOUS
<1>1. ASSUME NEW i \in Ids, Send(i) PROVE Once!Next
  BY <1>1, SendRefines DEF Once!Next
<1>2. ASSUME NEW m \in sent, Accept(m) PROVE Once!Next
  BY <1>2, AcceptRefines DEF Once!Next
<1>3. CASE NewTransport \/ (\E m \in sent : Drop(m)) \/ UNCHANGED vars
  BY <1>3 DEF NewTransport, Drop, vars
<1> QED BY <1>1, <1>2, <1>3 DEF Next

(* The sliding windows and epochs of the code lose nothing a perfect       *)
(* memory of all accepted packets would have refused.                      *)
THEOREM ChannelImplementsOnce == Spec => ImplementsOnce
<1>1. Init => Once!Init
  BY DEF Init, Once!Init, Ids, Once!Ids
<1> QED BY <1>1, StepRefines, OnceInit, OnceNext, PTL
        DEF Spec, ImplementsOnce, Once!Spec, Once!onceVars

-----------------------------------------------------------------------------
(* No packet is refused without cause.  The sender never gives a number     *)
(* twice before it wraps, and the windows hold nothing but counters of      *)
(* packets that were handed up.                                             *)

NoneWrapped == \A m \in sent : WellFormed(m)

NumbersAreUnique ==
    /\ txEpoch <= gen
    /\ \A m \in sent :
         /\ m.cc <= txCount["none"]
         /\ m.scope = "signal" => m.epoch = 0 /\ m.sc <= txCount["signal"]
         /\ m.scope \in EpochScopes =>
              m.epoch <= txEpoch /\ (m.epoch = txEpoch => m.sc <= txCount[m.scope])
    /\ \A m, d \in sent : m.cc = d.cc => m = d
    /\ \A m, d \in sent : m.scope # "none" /\ SameStream(m, d) /\ m.sc = d.sc => m = d

HandedUp(s) ==
    IF s = "none" THEN {d.cc : d \in Delivered}
    ELSE {d.sc : d \in {x \in Delivered : x.scope = s /\ (s \in EpochScopes => x.epoch = rxEpoch)}}

HoldsOnly(w, ns) ==
    (w.high > 0 => w.high \in ns) /\ \A b \in w.bits : w.high - b \in ns

FairInv ==
    /\ TypeOK
    /\ NoneWrapped => NumbersAreUnique
    /\ \A s \in Scopes : HoldsOnly(win[s], HandedUp(s))

LEMMA IncNext ==
    ASSUME NEW n \in Counters, Inc(n) > 0
    PROVE  Inc(n) = n + 1
<1>1. CounterMax \in Nat /\ n \in 0 .. CounterMax
  BY ChannelAssumption DEF Counters
<1>2. CASE n = CounterMax
  <2>1. (CounterMax + 1) % (CounterMax + 1) = 0
    BY <1>1
  <2> QED BY <1>2, <2>1 DEF Inc
<1>3. CASE n < CounterMax
  <2>1. n + 1 \in 0 .. CounterMax
    BY <1>1, <1>3
  <2>2. (n + 1) % (CounterMax + 1) = n + 1
    BY <1>1, <2>1
  <2> QED BY <2>2 DEF Inc
<1> QED BY <1>1, <1>2, <1>3

(* AcceptCC's shift renames the bits and makes up none.                     *)
LEMMA MarkHoldsOnly ==
    ASSUME NEW w \in Windows, NEW n \in Counters, NEW ns, HoldsOnly(w, ns), n \in ns
    PROVE  HoldsOnly(Mark(w, n), ns)
<1>1. Window \in Nat \ {0} /\ CounterMax \in Nat \ {0} /\ n \in Nat /\ w.high \in Nat
      /\ w.bits \in SUBSET (0 .. Window - 1)
  BY ChannelAssumption DEF Windows, Counters
<1>2. CASE ~Accepts(w, n)
  BY <1>2 DEF Mark
<1>3. CASE Accepts(w, n) /\ w.high = 0
  <2>1. Mark(w, n) = [high |-> n, bits |-> {0}]
    BY <1>3 DEF Mark
  <2>2. n - 0 = n
    BY <1>1
  <2> QED BY <2>1, <2>2 DEF HoldsOnly
<1>4. CASE Accepts(w, n) /\ w.high # 0 /\ n > w.high
  <2>1. Mark(w, n) = [high |-> n, bits |-> Shift(w.bits, n - w.high)]
    BY <1>4 DEF Mark
  <2>2. ASSUME NEW b \in Shift(w.bits, n - w.high) PROVE n - b \in ns
    <3>1. CASE b = 0
      BY <1>1, <3>1
    <3>2. CASE b # 0
      <4>1. b \in 0 .. Window - 1 /\ b - (n - w.high) \in w.bits
        BY <2>2, <3>2 DEF Shift
      <4>2. w.high - (b - (n - w.high)) = n - b
        BY <1>1, <4>1
      <4>3. w.high - (b - (n - w.high)) \in ns
        BY <4>1 DEF HoldsOnly
      <4> QED BY <4>2, <4>3
    <3> QED BY <3>1, <3>2
  <2> QED BY <2>1, <2>2 DEF HoldsOnly
<1>5. CASE Accepts(w, n) /\ w.high # 0 /\ ~(n > w.high)
  <2>1. Mark(w, n) = [w EXCEPT !.bits = @ \cup {w.high - n}]
    BY <1>5 DEF Mark
  <2>2. Mark(w, n).high = w.high /\ Mark(w, n).bits = w.bits \cup {w.high - n}
    BY <2>1 DEF Windows
  <2>3. w.high - (w.high - n) = n
    BY <1>1
  <2> QED BY <2>2, <2>3 DEF HoldsOnly
<1> QED BY <1>2, <1>3, <1>4, <1>5

LEMMA HoldsMore ==
    ASSUME NEW w, NEW ns, NEW ms, HoldsOnly(w, ns), ns \subseteq ms
    PROVE  HoldsOnly(w, ms)
BY DEF HoldsOnly

LEMMA HoldsNothing ==
    ASSUME NEW ns PROVE HoldsOnly(EmptyWindow, ns)
BY DEF HoldsOnly, EmptyWindow

(* A new packet is numbered above all of its stream.                        *)
LEMMA SendNumbers ==
    ASSUME FairInv, NEW i \in Ids, Send(i), NoneWrapped'
    PROVE  NumbersAreUnique'
<1>1. /\ TypeOK /\ TypeOK'
      /\ gen \in Nat /\ txEpoch \in Nat /\ gen' = gen
  <2>1. TypeOK /\ TypeOK'
    BY SendType DEF FairInv
  <2>2. gen \in Nat /\ txEpoch \in Nat
    BY <2>1, ChannelAssumption DEF TypeOK
  <2>3. gen' = gen
    BY DEF Send, SendSession, SendSignal, SendInput, SendUnscoped
  <2> QED BY <2>1, <2>2, <2>3
<1>2. \A s \in Scopes : txCount[s] \in Counters
  BY <1>1 DEF TypeOK
<1>3. \A m \in sent : m \in Packets
  BY <1>1 DEF TypeOK
<1>4. Counters \subseteq Nat /\ 0 \in Counters
  BY ChannelAssumption DEF Counters
<1>5. \A m \in sent : m.cc \in Nat /\ m.sc \in Nat /\ m.epoch \in Nat /\ m.scope \in Scopes
  <2>1. \A m \in Packets : m.cc \in Counters /\ m.sc \in Counters /\ m.epoch \in 0 .. MaxEpoch
                            /\ m.scope \in Scopes
    BY DEF Packets
  <2>2. 0 .. MaxEpoch \subseteq Nat
    BY ChannelAssumption
  <2> QED BY <1>3, <1>4, <2>1, <2>2
<1>6. sent \subseteq sent' /\ NumbersAreUnique
  BY DEF Send, SendSession, SendSignal, SendInput, SendUnscoped, Post, FairInv, NoneWrapped
<1>7. ASSUME NEW p, sent' = sent \cup {p}, p.cc = txCount["none"] + 1, p.cc = txCount'["none"],
             p.cc \in Nat, p.sc \in Nat, p.epoch \in Nat,
             txEpoch' \in {txEpoch, gen},
             p.scope = "signal" => p.epoch = 0 /\ p.sc = txCount["signal"] + 1
                                   /\ p.sc = txCount'["signal"],
             p.scope # "signal" => txCount'["signal"] = txCount["signal"],
             p.scope \in EpochScopes => /\ p.epoch = gen /\ txEpoch' = gen /\ p.sc = txCount'[p.scope]
                                        /\ txEpoch = gen => p.sc = txCount[p.scope] + 1,
             p.scope \notin EpochScopes => txEpoch' = txEpoch,
             txEpoch' = txEpoch => \A s \in EpochScopes : s # p.scope => txCount'[s] = txCount[s]
      PROVE  NumbersAreUnique'
  <2>1. txEpoch' <= gen' /\ txEpoch <= gen /\ txEpoch <= txEpoch'
    BY <1>1, <1>6, <1>7 DEF NumbersAreUnique
  <2>2. \A s \in {"none", "signal", "session", "input"} : txCount[s] \in Nat /\ s \in Scopes
    BY <1>2, <1>4 DEF Scopes
  <2>3. ASSUME NEW m \in sent
        PROVE  /\ m.cc < p.cc
               /\ m.scope = "signal" => m.epoch = 0 /\ m.sc <= txCount'["signal"]
               /\ m.scope = "signal" /\ p.scope = "signal" => m.sc < p.sc
               /\ m.scope \in EpochScopes =>
                    m.epoch <= txEpoch' /\ (m.epoch = txEpoch' => m.sc <= txCount'[m.scope])
               /\ m.scope \in EpochScopes /\ SameStream(m, p) => m.sc < p.sc
    <3>1. m.cc \in Nat /\ m.sc \in Nat /\ m.epoch \in Nat
      BY <1>5
    <3>2. m.cc < p.cc
      BY <1>6, <1>7, <2>2, <3>1 DEF NumbersAreUnique
    <3>3. m.scope = "signal" => m.epoch = 0 /\ m.sc <= txCount'["signal"]
      BY <1>6, <1>7, <2>2, <3>1 DEF NumbersAreUnique
    <3>4. m.scope = "signal" /\ p.scope = "signal" => m.sc < p.sc
      BY <1>6, <1>7, <2>2, <3>1 DEF NumbersAreUnique
    <3>5. ASSUME m.scope \in EpochScopes
          PROVE  m.epoch <= txEpoch' /\ (m.epoch = txEpoch' => m.sc <= txCount'[m.scope])
      <4>1. m.epoch <= txEpoch /\ (m.epoch = txEpoch => m.sc <= txCount[m.scope])
            /\ txCount[m.scope] \in Nat
        BY <1>6, <2>2, <3>5 DEF NumbersAreUnique, EpochScopes
      <4>2. CASE txEpoch' = txEpoch
        <5>1. CASE p.scope = m.scope
          <6>1. txEpoch = gen /\ p.sc = txCount[m.scope] + 1 /\ txCount'[m.scope] = p.sc
            BY <1>7, <3>5, <4>2, <5>1
          <6> QED BY <3>1, <4>1, <4>2, <6>1
        <5>2. CASE p.scope # m.scope
          BY <1>7, <3>5, <4>1, <4>2, <5>2
        <5> QED BY <5>1, <5>2
      <4>3. CASE txEpoch' # txEpoch
        BY <1>1, <1>7, <2>1, <3>1, <4>1, <4>3
      <4> QED BY <4>2, <4>3
    <3>6. ASSUME m.scope \in EpochScopes, SameStream(m, p)
          PROVE  m.sc < p.sc
      <4>1. p.scope = m.scope /\ m.epoch = gen /\ txEpoch' = gen
        BY <1>7, <3>6 DEF SameStream
      <4>2. m.epoch <= txEpoch /\ (m.epoch = txEpoch => m.sc <= txCount[m.scope])
            /\ txCount[m.scope] \in Nat
        BY <1>6, <2>2, <3>6 DEF NumbersAreUnique, EpochScopes
      <4>3. txEpoch = gen
        BY <1>1, <2>1, <4>1, <4>2
      <4>4. p.sc = txCount[m.scope] + 1
        BY <1>7, <3>6, <4>1, <4>3
      <4> QED BY <3>1, <4>1, <4>2, <4>3, <4>4
    <3> QED BY <3>2, <3>3, <3>4, <3>5, <3>6
  <2>4. /\ p.cc <= txCount'["none"]
        /\ p.scope = "signal" => p.epoch = 0 /\ p.sc <= txCount'["signal"]
        /\ p.scope \in EpochScopes =>
             p.epoch <= txEpoch' /\ (p.epoch = txEpoch' => p.sc <= txCount'[p.scope])
    BY <1>1, <1>7
  <2>5. \A m \in sent : m.cc <= txCount'["none"]
    BY <1>5, <1>7, <2>3
  <2>6. \A m, d \in sent' : m.cc = d.cc => m = d
    <3>1. \A m \in sent : m.cc # p.cc
      BY <1>5, <1>7, <2>3
    <3> QED BY <1>6, <1>7, <3>1 DEF NumbersAreUnique
  <2>7. \A m, d \in sent' : m.scope # "none" /\ SameStream(m, d) /\ m.sc = d.sc => m = d
    <3>1. \A m \in sent : m.scope # "none" /\ SameStream(m, p) => m.sc # p.sc
      <4> SUFFICES ASSUME NEW m \in sent, m.scope # "none", SameStream(m, p), m.sc = p.sc
                   PROVE  FALSE
        OBVIOUS
      <4>1. m.scope \in {"signal", "session", "input"} /\ p.scope = m.scope /\ m.sc \in Nat
        BY <1>5 DEF Scopes, SameStream
      <4>2. m.sc < p.sc
        BY <2>3, <4>1 DEF EpochScopes
      <4> QED BY <4>1, <4>2
    <3>2. \A m : SameStream(m, p) <=> SameStream(p, m)
      BY DEF SameStream
    <3>3. \A m \in sent : SameStream(m, p) => m.scope = p.scope
      BY DEF SameStream
    <3> QED BY <1>6, <1>7, <3>1, <3>2, <3>3 DEF NumbersAreUnique
  <2>8. \A m \in sent' :
         /\ m.cc <= txCount'["none"]
         /\ m.scope = "signal" => m.epoch = 0 /\ m.sc <= txCount'["signal"]
         /\ m.scope \in EpochScopes =>
              m.epoch <= txEpoch' /\ (m.epoch = txEpoch' => m.sc <= txCount'[m.scope])
    BY <1>7, <2>3, <2>4, <2>5
  <2> QED BY <2>1, <2>6, <2>7, <2>8 DEF NumbersAreUnique, SameStream
<1>8. txCount \in [Scopes -> Counters] /\ Scopes = {"none", "session", "input", "signal"}
  BY <1>1 DEF TypeOK, Scopes
<1>9. \A p \in sent' : WellFormed(p) /\ p.cc \in Nat /\ p.sc \in Nat /\ p.epoch \in Nat
  <2>1. sent' \subseteq Packets
    BY <1>1 DEF TypeOK
  <2>2. \A m \in Packets : m.cc \in Counters /\ m.sc \in Counters /\ m.epoch \in 0 .. MaxEpoch
    BY DEF Packets
  <2>3. 0 .. MaxEpoch \subseteq Nat
    BY ChannelAssumption
  <2>4. \A p \in sent' : WellFormed(p)
    BY DEF NoneWrapped, WellFormed
  <2> QED BY <1>4, <2>1, <2>2, <2>3, <2>4
<1>10. CASE SendSession(i)
  <2> DEFINE base == IF txEpoch # gen THEN 0 ELSE txCount["session"]
             p == [id |-> i, scope |-> "session", epoch |-> gen,
                   sc |-> Inc(base), cc |-> Inc(txCount["none"])]
  <2>1. /\ sent' = sent \cup {p} /\ txEpoch' = gen
        /\ txCount'["session"] = Inc(base) /\ txCount'["none"] = Inc(txCount["none"])
        /\ txCount'["input"] = txCount["input"] /\ txCount'["signal"] = txCount["signal"]
    BY <1>8, <1>10 DEF SendSession, Post
  <2>2. /\ p.scope = "session" /\ p.epoch = gen /\ p.sc = Inc(base) /\ p.cc = Inc(txCount["none"])
        /\ p \in sent'
    BY <2>1
  <2>3. base \in Counters
    BY <1>4, <1>8
  <2> HIDE DEF p, base
  <2>4. WellFormed(p) /\ p.cc \in Nat /\ p.sc \in Nat /\ p.epoch \in Nat
    BY <1>9, <2>2
  <2>5. Inc(txCount["none"]) = txCount["none"] + 1
    <3>1. Inc(txCount["none"]) > 0
      BY <2>2, <2>4 DEF WellFormed
    <3> QED BY <1>2, <1>8, <3>1, IncNext
  <2>6. Inc(base) = base + 1
    <3>1. Inc(base) > 0
      BY <2>2, <2>4 DEF WellFormed
    <3> QED BY <2>3, <3>1, IncNext
  <2>7. txEpoch = gen => p.sc = txCount["session"] + 1
    BY <2>2, <2>6 DEF base
  <2>8. \A s \in EpochScopes : txEpoch' = txEpoch /\ s # p.scope => txCount'[s] = txCount[s]
    BY <2>1, <2>2 DEF EpochScopes
  <2>9. p.scope \in EpochScopes /\ p.scope # "signal"
    BY <2>2 DEF EpochScopes
  <2> QED BY <1>7, <2>1, <2>2, <2>4, <2>5, <2>7, <2>8, <2>9
<1>11. CASE SendSignal(i)
  <2> DEFINE p == [id |-> i, scope |-> "signal", epoch |-> 0,
                   sc |-> Inc(txCount["signal"]), cc |-> Inc(txCount["none"])]
  <2>1. /\ sent' = sent \cup {p} /\ txEpoch' = txEpoch
        /\ txCount'["signal"] = Inc(txCount["signal"]) /\ txCount'["none"] = Inc(txCount["none"])
        /\ txCount'["input"] = txCount["input"] /\ txCount'["session"] = txCount["session"]
    BY <1>8, <1>11 DEF SendSignal, Post
  <2>2. /\ p.scope = "signal" /\ p.epoch = 0 /\ p.sc = Inc(txCount["signal"]) /\ p.cc = Inc(txCount["none"])
        /\ p \in sent'
    BY <2>1
  <2> HIDE DEF p
  <2>4. WellFormed(p) /\ p.cc \in Nat /\ p.sc \in Nat /\ p.epoch \in Nat
    BY <1>9, <2>2
  <2>5. Inc(txCount["none"]) = txCount["none"] + 1
    <3>1. Inc(txCount["none"]) > 0
      BY <2>2, <2>4 DEF WellFormed
    <3> QED BY <1>2, <1>8, <3>1, IncNext
  <2>6. Inc(txCount["signal"]) = txCount["signal"] + 1
    <3>1. Inc(txCount["signal"]) > 0
      BY <2>2, <2>4 DEF WellFormed
    <3> QED BY <1>2, <1>8, <3>1, IncNext
  <2>8. \A s \in EpochScopes : txCount'[s] = txCount[s]
    BY <2>1 DEF EpochScopes
  <2>9. p.scope \notin EpochScopes
    BY <2>2 DEF EpochScopes
  <2> QED BY <1>7, <2>1, <2>2, <2>4, <2>5, <2>6, <2>8, <2>9
<1>12. CASE SendInput(i)
  <2> DEFINE base == IF txEpoch # gen THEN 0 ELSE txCount["input"]
             p == [id |-> i, scope |-> "input", epoch |-> gen,
                   sc |-> Inc(base), cc |-> Inc(txCount["none"])]
  <2>1. /\ sent' = sent \cup {p} /\ txEpoch' = gen
        /\ txCount'["input"] = Inc(base) /\ txCount'["none"] = Inc(txCount["none"])
        /\ txEpoch = gen => txCount'["session"] = txCount["session"]
        /\ txCount'["signal"] = txCount["signal"]
    BY <1>8, <1>12 DEF SendInput, Post
  <2>2. /\ p.scope = "input" /\ p.epoch = gen /\ p.sc = Inc(base) /\ p.cc = Inc(txCount["none"])
        /\ p \in sent'
    BY <2>1
  <2>3. base \in Counters
    BY <1>4, <1>8
  <2> HIDE DEF p, base
  <2>4. WellFormed(p) /\ p.cc \in Nat /\ p.sc \in Nat /\ p.epoch \in Nat
    BY <1>9, <2>2
  <2>5. Inc(txCount["none"]) = txCount["none"] + 1
    <3>1. Inc(txCount["none"]) > 0
      BY <2>2, <2>4 DEF WellFormed
    <3> QED BY <1>2, <1>8, <3>1, IncNext
  <2>6. Inc(base) = base + 1
    <3>1. Inc(base) > 0
      BY <2>2, <2>4 DEF WellFormed
    <3> QED BY <2>3, <3>1, IncNext
  <2>7. txEpoch = gen => p.sc = txCount["input"] + 1
    BY <2>2, <2>6 DEF base
  <2>8. \A s \in EpochScopes : txEpoch' = txEpoch /\ s # p.scope => txCount'[s] = txCount[s]
    BY <2>1, <2>2 DEF EpochScopes
  <2>9. p.scope \in EpochScopes /\ p.scope # "signal"
    BY <2>2 DEF EpochScopes
  <2> QED BY <1>7, <2>1, <2>2, <2>4, <2>5, <2>7, <2>8, <2>9
<1>13. CASE SendUnscoped(i)
  <2> DEFINE p == [id |-> i, scope |-> "none", epoch |-> 0, sc |-> 0, cc |-> Inc(txCount["none"])]
  <2>1. /\ sent' = sent \cup {p} /\ txEpoch' = txEpoch
        /\ txCount'["none"] = Inc(txCount["none"])
        /\ \A s \in {"session", "input", "signal"} : txCount'[s] = txCount[s]
    BY <1>8, <1>13 DEF SendUnscoped, Post
  <2>2. /\ p.scope = "none" /\ p.epoch = 0 /\ p.sc = 0 /\ p.cc = Inc(txCount["none"])
        /\ p \in sent'
    BY <2>1
  <2> HIDE DEF p
  <2>4. WellFormed(p) /\ p.cc \in Nat /\ p.sc \in Nat /\ p.epoch \in Nat
    BY <1>9, <2>2
  <2>5. Inc(txCount["none"]) = txCount["none"] + 1
    <3>1. Inc(txCount["none"]) > 0
      BY <2>2, <2>4 DEF WellFormed
    <3> QED BY <1>2, <1>8, <3>1, IncNext
  <2>8. \A s \in EpochScopes : txCount'[s] = txCount[s]
    BY <2>1 DEF EpochScopes
  <2>9. p.scope \notin EpochScopes /\ p.scope # "signal"
    BY <2>2 DEF EpochScopes
  <2> QED BY <1>7, <2>1, <2>2, <2>4, <2>5, <2>8, <2>9
<1> QED BY <1>10, <1>11, <1>12, <1>13 DEF Send

(* A packet enters the windows when it is handed up.                        *)
LEMMA AcceptHolds ==
    ASSUME FairInv, NEW m \in sent, Accept(m), NEW s \in Scopes
    PROVE  HoldsOnly(win'[s], HandedUp(s)')
<1>1. /\ TypeOK /\ HoldsOnly(win[s], HandedUp(s)) /\ sent' = sent
      /\ m.scope \in Scopes /\ Counter(m) \in Counters /\ m.cc \in Counters /\ m.id \in Ids
      /\ WindowsFor(m)[s] \in Windows /\ times \in [Ids -> Nat]
  BY HeaderTypes DEF FairInv, TypeOK, Accept
<1>2. rxEpoch \in Nat /\ m.epoch \in Nat
  BY HeaderTypes, ChannelAssumption DEF FairInv, TypeOK
<1>3. Delivered \subseteq Delivered' /\ m \in Delivered'
  <2>1. \A d \in sent : times[d.id] > 0 => times'[d.id] > 0
    BY <1>1, HeaderTypes DEF Accept
  <2>2. times'[m.id] > 0
    BY <1>1 DEF Accept
  <2> QED BY <1>1, <2>1, <2>2 DEF Delivered
<1>4. m.scope \in EpochScopes => m.epoch = rxEpoch'
  BY <1>2 DEF Accept, AcceptHeaderCC, Stale, OpensEpoch
<1>5. HoldsOnly(WindowsFor(m)[s], HandedUp(s)')
  <2>1. CASE OpensEpoch(m) /\ s \in EpochScopes
    <3>1. WindowsFor(m)[s] = EmptyWindow
      BY <1>1, <2>1 DEF WindowsFor, EpochScopes, TypeOK, Scopes
    <3> QED BY <3>1, HoldsNothing
  <2>2. CASE ~(OpensEpoch(m) /\ s \in EpochScopes)
    <3>1. WindowsFor(m)[s] = win[s]
      BY <1>1, <2>2 DEF WindowsFor, EpochScopes, TypeOK, Scopes
    <3>2. s \in EpochScopes => rxEpoch' = rxEpoch
      BY <2>2 DEF Accept
    <3>3. HandedUp(s) \subseteq HandedUp(s)'
      BY <1>3, <3>2 DEF HandedUp
    <3> QED BY <1>1, <3>1, <3>3, HoldsMore
  <2> QED BY <2>1, <2>2
<1>6. s = m.scope => Counter(m) \in HandedUp(s)'
  BY <1>3, <1>4 DEF HandedUp, Counter
<1>7. s = "none" => m.cc \in HandedUp(s)'
  BY <1>3 DEF HandedUp
<1>8. win'[s] = IF s = m.scope THEN Mark(WindowsFor(m)[s], Counter(m))
                ELSE IF s = "none" THEN Mark(WindowsFor(m)[s], m.cc)
                ELSE WindowsFor(m)[s]
  BY DEF Accept, Marked
<1> QED BY <1>1, <1>5, <1>6, <1>7, <1>8, MarkHoldsOnly

LEMMA DropHolds ==
    ASSUME FairInv, NEW m \in sent, Drop(m), NEW s \in Scopes
    PROVE  HoldsOnly(win'[s], HandedUp(s)')
<1>1. TypeOK /\ HoldsOnly(win[s], HandedUp(s)) /\ sent' = sent /\ times' = times
  BY DEF FairInv, Drop
<1>2. Delivered' = Delivered
  BY <1>1 DEF Delivered
<1>3. CASE UNCHANGED <<rxEpoch, win>>
  BY <1>1, <1>2, <1>3 DEF HandedUp
<1>4. CASE OpensEpoch(m) /\ win' = WindowsFor(m)
  <2>1. CASE s \in EpochScopes
    <3>1. win'[s] = EmptyWindow
      BY <1>1, <1>4, <2>1 DEF WindowsFor, EpochScopes, TypeOK, Scopes
    <3> QED BY <3>1, HoldsNothing
  <2>2. CASE s \notin EpochScopes
    <3>1. win'[s] = win[s]
      BY <1>1, <1>4, <2>2 DEF WindowsFor, EpochScopes, TypeOK, Scopes
    <3> QED BY <1>1, <1>2, <2>2, <3>1 DEF HandedUp
  <2> QED BY <2>1, <2>2
<1> QED BY <1>3, <1>4 DEF Drop

LEMMA FairStep == FairInv /\ [Next]_vars => FairInv'
<1> SUFFICES ASSUME FairInv, [Next]_vars PROVE FairInv'
  OBVIOUS
<1>1. TypeOK'
  BY TypeNext DEF FairInv
<1>2. ASSUME sent' = sent, txCount' = txCount, txEpoch' = txEpoch, gen' >= gen
      PROVE  NoneWrapped' => NumbersAreUnique'
  <2>1. gen \in Nat /\ txEpoch \in Nat /\ gen' \in Nat
    BY <1>1, ChannelAssumption DEF FairInv, TypeOK
  <2>2. NoneWrapped' => NoneWrapped
    BY <1>2 DEF NoneWrapped
  <2> QED BY <1>2, <2>1, <2>2 DEF FairInv, NumbersAreUnique, SameStream
<1>3. ASSUME sent \subseteq sent', times' = times, win' = win, rxEpoch' = rxEpoch
      PROVE  \A s \in Scopes : HoldsOnly(win'[s], HandedUp(s)')
  <2>1. Delivered \subseteq Delivered'
    BY <1>3 DEF Delivered
  <2>2. \A s \in Scopes : HandedUp(s) \subseteq HandedUp(s)'
    BY <1>3, <2>1 DEF HandedUp
  <2> QED BY <1>3, <2>2, HoldsMore DEF FairInv
<1>4. gen \in Nat
  BY ChannelAssumption DEF FairInv, TypeOK
<1>5. CASE NewTransport
  <2>1. gen' > gen /\ gen' \in Nat
    BY <1>4, <1>5, ChannelAssumption DEF NewTransport
  <2>2. NoneWrapped' => NumbersAreUnique'
    BY <1>2, <1>4, <1>5, <2>1 DEF NewTransport
  <2>3. \A s \in Scopes : HoldsOnly(win'[s], HandedUp(s)')
    BY <1>3, <1>5 DEF NewTransport
  <2> QED BY <1>1, <2>2, <2>3 DEF FairInv
<1>6. ASSUME NEW i \in Ids, Send(i) PROVE FairInv'
  <2>1. \A s \in Scopes : HoldsOnly(win'[s], HandedUp(s)')
    BY <1>3, <1>6 DEF Send, SendSession, SendSignal, SendInput, SendUnscoped, Post
  <2>2. NoneWrapped' => NumbersAreUnique'
    BY <1>6, SendNumbers
  <2> QED BY <1>1, <2>1, <2>2 DEF FairInv
<1>7. ASSUME NEW m \in sent, Accept(m) PROVE FairInv'
  <2>1. \A s \in Scopes : HoldsOnly(win'[s], HandedUp(s)')
    BY <1>7, AcceptHolds
  <2>2. NoneWrapped' => NumbersAreUnique'
    BY <1>2, <1>4, <1>7 DEF Accept
  <2> QED BY <1>1, <2>1, <2>2 DEF FairInv
<1>8. ASSUME NEW m \in sent, Drop(m) PROVE FairInv'
  <2>1. \A s \in Scopes : HoldsOnly(win'[s], HandedUp(s)')
    BY <1>8, DropHolds
  <2>2. NoneWrapped' => NumbersAreUnique'
    BY <1>2, <1>4, <1>8 DEF Drop
  <2> QED BY <1>1, <2>1, <2>2 DEF FairInv
<1>9. CASE UNCHANGED vars
  <2>1. \A s \in Scopes : HoldsOnly(win'[s], HandedUp(s)')
    BY <1>3, <1>9 DEF vars
  <2>2. NoneWrapped' => NumbersAreUnique'
    BY <1>2, <1>4, <1>9 DEF vars
  <2> QED BY <1>1, <2>1, <2>2 DEF FairInv
<1> QED BY <1>5, <1>6, <1>7, <1>8, <1>9 DEF Next

LEMMA FairInit == Init => FairInv
<1>1. Init => \A s \in Scopes : win[s] = EmptyWindow
  BY DEF Init
<1>2. Init => NumbersAreUnique
  BY DEF Init, NumbersAreUnique
<1> QED BY <1>1, <1>2, TypeInit, HoldsNothing DEF FairInv

(* Until a counter wraps, a packet that was not handed up, is of the newest *)
(* epoch and was overtaken by fewer than Window counters of its stream is   *)
(* accepted when it arrives, whatever the wire did to all the others.       *)
THEOREM NothingIsRefusedUnfairly == Spec => []NoFalseRejection
<1>1. FairInv => NoFalseRejection
  <2> SUFFICES ASSUME FairInv, NoneWrapped, NEW m \in sent,
                      times[m.id] = 0, ~Stale(m), Reachable(m), ~AcceptHeaderCC(m)
               PROVE  FALSE
    BY DEF NoFalseRejection, NoneWrapped
  <2> DEFINE w == WindowsFor(m)[m.scope]
             n == Counter(m)
  <2>1. /\ m.scope \in Scopes /\ n \in Counters /\ w \in Windows /\ WellFormed(m)
        /\ m.id \in Ids /\ m.epoch \in Nat /\ rxEpoch \in Nat /\ m.cc \in Nat /\ m.sc \in Nat
    BY HeaderTypes, ChannelAssumption DEF FairInv, NoneWrapped, TypeOK, Counters
  <2>2. n \in Nat /\ n > 0 /\ w.high \in Nat /\ w.bits \in SUBSET (0 .. Window - 1) /\ Window \in Nat
    BY <2>1, ChannelAssumption DEF WellFormed, Counter, Windows, Counters
  <2>3. w.high # 0 /\ n <= w.high /\ (w.high - n < Window => (w.high - n) \in w.bits)
    BY <2>1, <2>2 DEF AcceptHeaderCC, Accepts
  <2>4. ~(OpensEpoch(m) /\ m.scope \in EpochScopes) /\ w = win[m.scope]
    <3>1. OpensEpoch(m) /\ m.scope \in EpochScopes => w = EmptyWindow
      BY <2>1 DEF FairInv, WindowsFor, EpochScopes, TypeOK, Scopes
    <3>2. EmptyWindow.high = 0
      BY DEF EmptyWindow
    <3>3. ~(OpensEpoch(m) /\ m.scope \in EpochScopes)
      BY <2>3, <3>1, <3>2
    <3> QED BY <2>1, <3>3 DEF OpensEpoch, WindowsFor
  <2>5. m.scope \in EpochScopes => m.epoch = rxEpoch
    BY <2>1, <2>4 DEF Stale, OpensEpoch
  <2>6. HoldsOnly(w, HandedUp(m.scope)) /\ NumbersAreUnique
    BY <2>1, <2>4 DEF FairInv
  <2>7. \A d \in Delivered : d \in sent /\ d # m
    BY DEF Delivered
  <2>8. \A d \in sent : d.scope = "signal" => d.epoch = 0
    BY <2>6 DEF NumbersAreUnique
  <2>9. ASSUME NEW k \in HandedUp(m.scope)
        PROVE  \E d \in Delivered : IF m.scope = "none" THEN d.cc = k
                                    ELSE SameStream(m, d) /\ d.sc = k
    <3>1. CASE m.scope = "none"
      BY <2>9, <3>1 DEF HandedUp
    <3>2. CASE m.scope # "none"
      <4>1. PICK d \in Delivered : d.scope = m.scope /\ d.sc = k
                                   /\ (m.scope \in EpochScopes => d.epoch = rxEpoch)
        BY <2>9, <3>2 DEF HandedUp
      <4>2. m.scope \in EpochScopes \/ m.scope = "signal"
        BY <2>1, <3>2 DEF Scopes, EpochScopes
      <4>3. SameStream(m, d)
        BY <2>5, <2>7, <2>8, <4>1, <4>2 DEF SameStream
      <4> QED BY <3>2, <4>1, <4>3
    <3> QED BY <3>1, <3>2
  <2>10. w.high - n < Window
    <3>1. w.high \in HandedUp(m.scope)
      BY <2>2, <2>3, <2>6 DEF HoldsOnly
    <3>2. PICK d \in Delivered : IF m.scope = "none" THEN d.cc = w.high
                                 ELSE SameStream(m, d) /\ d.sc = w.high
      BY <2>9, <3>1
    <3> HIDE DEF w
    <3> QED BY <3>2 DEF Reachable, Counter
  <2>11. w.high - (w.high - n) = n
    BY <2>2
  <2>12. n \in HandedUp(m.scope)
    BY <2>3, <2>6, <2>10, <2>11 DEF HoldsOnly
  <2>13. PICK d \in Delivered : IF m.scope = "none" THEN d.cc = n
                                ELSE SameStream(m, d) /\ d.sc = n
    BY <2>9, <2>12
  <2> QED BY <2>6, <2>7, <2>13 DEF NumbersAreUnique, Counter
<1> QED BY <1>1, FairInit, FairStep, PTL DEF Spec

=============================================================================
