----------------------------- MODULE Desktop_proofs -----------------------------
(***************************************************************************)
(* Proofs about what a desktop session works with: the sound, the keys it   *)
(* holds down, the mode it set on a monitor, and the buffers of a Wayland    *)
(* host's frames.                                                            *)
(***************************************************************************)
EXTENDS MCDesktop, FiniteSetTheorems, SequenceTheorems, FunctionTheorems,
        WellFoundedInduction, TLAPS

-----------------------------------------------------------------------------
(* The sound.                                                              *)

SoundFrames == [at : 0 .. MaxFrames, pts : 0 .. MaxFrames]

\* The type invariant in three parts: plain values, counts, and frames.
StatesTyped ==
    /\ wasapi \in BOOLEAN /\ loopAt \in {"loop", "stopping", "restarting"}
    /\ audioAt \in {"none", "check", "read", "encode", "push", "leave", "gone"}
    /\ audio \in BOOLEAN /\ stop \in BOOLEAN /\ finished \in BOOLEAN /\ half \in BOOLEAN
    /\ track \in BOOLEAN /\ com \subseteq {"main", "worker"}

NumbersTyped == read \in 0 .. MaxFrames /\ pos \in 0 .. MaxFrames /\ starts \in 0 .. MaxStarts

FramesTyped ==
    /\ frame \in SoundFrames /\ last \in SoundFrames
    /\ ring \in Seq(SoundFrames) /\ Len(ring) <= RingFrames

\* The worker holds a frame that it has not given away yet.
Holds == audioAt \in {"encode", "push"}

\* The sample position is the number of frames read, and a held frame is
\* the last of them.
ClockIsRight ==
    /\ pos = read
    /\ Holds => read > 0 /\ frame.at = read - 1 /\ frame.pts = read - 1

\* The frames given away: all that were read, but the one that is held.
GivenAway == IF Holds THEN read - 1 ELSE read

\* What waits in the ring was given away, in the order it was read.
RingIsInOrder ==
    /\ \A i \in 1 .. Len(ring) : ring[i].pts = ring[i].at /\ ring[i].pts < GivenAway
    /\ \A i, j \in 1 .. Len(ring) : i < j => ring[i].pts < ring[j].pts

\* The last frame sent was before all of them.
LastIsPast ==
    /\ last.pts = last.at
    /\ \/ last = Audio!NoFrame
       \/ /\ last.pts < GivenAway
          /\ \A i \in 1 .. Len(ring) : last.pts < ring[i].pts

\* The worker is joined before what it works on goes, and before it is
\* started anew.
JoinIsDue ==
    /\ loopAt # "loop" => audio
    /\ ~audio => audioAt = "none"
    /\ audioAt = "none" => com = {}
    /\ audioAt = "gone" => "worker" \notin com

AudioInv == /\ StatesTyped /\ NumbersTyped /\ FramesTyped
            /\ ClockIsRight /\ RingIsInOrder /\ LastIsPast /\ JoinIsDue

-----------------------------------------------------------------------------

LEMMA NoFrameTyped == Audio!NoFrame \in SoundFrames /\ Audio!NoFrame.at = Audio!NoFrame.pts
  BY AudioAssumption DEF Audio!NoFrame, SoundFrames

LEMMA InTheRing ==
    ASSUME AudioInv
    PROVE  \A i \in 1 .. Len(ring) : ring[i] \in SoundFrames /\ ring[i].pts \in Nat
  <1> SUFFICES ASSUME NEW i \in 1 .. Len(ring) PROVE ring[i] \in SoundFrames /\ ring[i].pts \in Nat
    OBVIOUS
  <1>1. ring[i] \in SoundFrames
    BY ElementOfSeq DEF AudioInv, FramesTyped
  <1>2. \A f \in SoundFrames : f.pts \in Nat
    BY AudioAssumption DEF SoundFrames
  <1> QED BY <1>1, <1>2

\* Every frame has come home: the ring is kept, and what holds of it.
LEMMA RingStays ==
    ASSUME AudioInv, UNCHANGED <<ring, last>>, GivenAway' >= GivenAway, GivenAway' \in Nat
    PROVE  RingIsInOrder' /\ LastIsPast'
  <1>1. GivenAway \in Int
    BY AudioAssumption DEF AudioInv, GivenAway, NumbersTyped
  <1>2. \A i \in 1 .. Len(ring) : ring[i].pts \in Nat
    BY InTheRing
  <1>3. last.pts \in Nat
    BY AudioAssumption DEF AudioInv, FramesTyped, SoundFrames
  <1> QED BY <1>1, <1>2, <1>3 DEF AudioInv, RingIsInOrder, LastIsPast

\* A new source: nothing was read from it, and nothing of the old one is left.
LEMMA Opening ==
    ASSUME AudioInv, Audio!Opened, loopAt' = "loop", UNCHANGED <<wasapi, track>>,
           starts' \in 0 .. MaxStarts, "worker" \notin com
    PROVE  AudioInv'
  <1> USE DEF AudioInv
  <1>1. CASE audio' = TRUE
    <2>1. /\ audioAt' = "check" /\ stop' = FALSE /\ finished' = FALSE /\ com' = Audio!BackendOpen
          /\ half' = FALSE /\ read' = 0 /\ pos' = 0 /\ frame' = Audio!NoFrame /\ ring' = <<>>
          /\ last' = Audio!NoFrame
      BY <1>1 DEF Audio!Opened
    <2>2. com' \subseteq {"main", "worker"}
      BY <2>1 DEF Audio!BackendOpen, StatesTyped
    <2>3. StatesTyped' /\ JoinIsDue'
      BY <1>1, <2>1, <2>2 DEF StatesTyped, JoinIsDue
    <2>4. NumbersTyped' /\ FramesTyped'
      <3>1. ring' \in Seq(SoundFrames) /\ Len(ring') = 0
        BY <2>1
      <3>2. 0 \in 0 .. MaxFrames /\ 0 <= RingFrames
        BY AudioAssumption
      <3>3. FramesTyped'
        BY <2>1, <3>1, <3>2, NoFrameTyped DEF FramesTyped
      <3> QED BY <2>1, <3>2, <3>3 DEF NumbersTyped
    <2>5. ~Holds' /\ Len(ring') = 0
      BY <2>1 DEF Holds
    <2>6. ClockIsRight' /\ RingIsInOrder' /\ LastIsPast'
      BY <2>1, <2>5, NoFrameTyped DEF ClockIsRight, RingIsInOrder, LastIsPast
    <2> QED BY <2>3, <2>4, <2>6
  <1>2. CASE ~audio'
    <2>1. /\ audio' = FALSE /\ audioAt' = "none" /\ com' = Audio!BackendClose
          /\ UNCHANGED <<stop, finished, half, read, pos, frame, ring, last>>
      BY <1>2 DEF Audio!Opened
    <2>2. com' = {}
      BY <2>1 DEF Audio!BackendClose, StatesTyped
    <2>3. StatesTyped' /\ JoinIsDue'
      BY <2>1, <2>2 DEF StatesTyped, JoinIsDue
    <2>4. NumbersTyped' /\ FramesTyped'
      BY <2>1 DEF NumbersTyped, FramesTyped
    <2>5. ~Holds'
      BY <2>1 DEF Holds
    <2>6. GivenAway' >= GivenAway /\ GivenAway' \in Nat
      BY <2>1, <2>5, AudioAssumption DEF GivenAway, NumbersTyped
    <2>7. ClockIsRight'
      BY <2>1, <2>5 DEF ClockIsRight
    <2> QED BY <2>1, <2>3, <2>4, <2>6, <2>7, RingStays
  <1> QED BY <1>1, <1>2

\* Dropping the oldest frame of the ring.
LEMMA Older ==
    ASSUME AudioInv, ring # <<>>
    PROVE  /\ Tail(ring) \in Seq(SoundFrames) /\ Len(Tail(ring)) = Len(ring) - 1
           /\ Len(ring) \in Nat \ {0}
           /\ \A i \in 1 .. Len(ring) - 1 : Tail(ring)[i] = ring[i + 1] /\ i + 1 \in 1 .. Len(ring)
           /\ Head(ring) = ring[1]
  BY HeadTailProperties DEF AudioInv, FramesTyped

LEMMA Pushing ==
    ASSUME AudioInv, Audio!Push
    PROVE  AudioInv'
  <1> USE DEF AudioInv, Audio!Loop
  <1>1. /\ audioAt = "push" /\ audioAt' = "check" /\ ring' = Audio!Pushed(ring, frame)
        /\ UNCHANGED <<finished, half, read, pos, frame, com, wasapi, loopAt, audio, stop, track, last,
                       starts>>
    BY DEF Audio!Push
  <1>2. StatesTyped' /\ NumbersTyped' /\ ClockIsRight' /\ JoinIsDue'
    BY <1>1 DEF StatesTyped, NumbersTyped, ClockIsRight, JoinIsDue, Holds
  <1> DEFINE older == IF Len(ring) = RingFrames THEN Tail(ring) ELSE ring
             n == Len(older)
  <1>3. /\ older \in Seq(SoundFrames) /\ n \in Nat /\ n < RingFrames
        /\ \E d \in {0, 1} : \A i \in 1 .. n : older[i] = ring[i + d] /\ i + d \in 1 .. Len(ring)
    <2>1. CASE Len(ring) = RingFrames
      <3>1. ring # <<>>
        BY <2>1, AudioAssumption
      <3>2. /\ Tail(ring) \in Seq(SoundFrames) /\ Len(Tail(ring)) = Len(ring) - 1
            /\ \A i \in 1 .. Len(ring) - 1 : Tail(ring)[i] = ring[i + 1] /\ i + 1 \in 1 .. Len(ring)
        BY <3>1, Older
      <3> QED BY <2>1, <3>2, AudioAssumption
    <2>2. CASE Len(ring) # RingFrames
      <3>1. ring \in Seq(SoundFrames) /\ Len(ring) \in Nat /\ Len(ring) < RingFrames
        BY <2>2, AudioAssumption DEF FramesTyped
      <3>2. \A i \in 1 .. Len(ring) : ring[i] = ring[i + 0] /\ i + 0 \in 1 .. Len(ring)
        OBVIOUS
      <3> QED BY <2>2, <3>1, <3>2
    <2> QED BY <2>1, <2>2
  <1>4. ring' = Append(older, frame)
    BY <1>1 DEF Audio!Pushed
  <1> HIDE DEF older
  <1>5. /\ ring' \in Seq(SoundFrames) /\ Len(ring') = n + 1
        /\ \A i \in 1 .. n : ring'[i] = older[i]
        /\ ring'[n + 1] = frame
    BY <1>3, <1>4, AppendProperties DEF FramesTyped
  <1>6. FramesTyped'
    BY <1>1, <1>3, <1>5, AudioAssumption DEF FramesTyped
  <1>7. /\ GivenAway = read - 1 /\ GivenAway' = read /\ read \in Nat
        /\ frame.pts = read - 1 /\ frame.at = read - 1
    BY <1>1, AudioAssumption DEF GivenAway, Holds, ClockIsRight, NumbersTyped
  <1>8. \A i \in 1 .. Len(ring) : ring[i].pts \in Nat
    BY InTheRing
  <1>9. /\ \A i \in 1 .. n : older[i].pts = older[i].at /\ older[i].pts < read - 1 /\ older[i].pts \in Nat
        /\ \A i, j \in 1 .. n : i < j => older[i].pts < older[j].pts
    <2>1. PICK d \in {0, 1} : \A i \in 1 .. n : older[i] = ring[i + d] /\ i + d \in 1 .. Len(ring)
      BY <1>3
    <2>2. /\ \A i \in 1 .. Len(ring) : ring[i].pts = ring[i].at /\ ring[i].pts < read - 1
          /\ \A i, j \in 1 .. Len(ring) : i < j => ring[i].pts < ring[j].pts
      BY <1>7 DEF RingIsInOrder
    <2>3. \A i, j \in 1 .. n : i < j => i + d < j + d
      BY <1>3
    <2> HIDE DEF n
    <2> QED BY <1>8, <2>1, <2>2, <2>3
  <1>10. RingIsInOrder'
    <2>1. ASSUME NEW i \in 1 .. n + 1
          PROVE  ring'[i].pts = ring'[i].at /\ ring'[i].pts < read
      <3>1. CASE i = n + 1
        BY <1>5, <1>7, <3>1
      <3>2. CASE i # n + 1
        <4>1. i \in 1 .. n
          BY <1>3, <3>2
        <4> QED BY <1>5, <1>7, <1>9, <4>1
      <3> QED BY <3>1, <3>2
    <2>2. ASSUME NEW i \in 1 .. n + 1, NEW j \in 1 .. n + 1, i < j
          PROVE  ring'[i].pts < ring'[j].pts
      <3>1. i \in 1 .. n
        BY <1>3, <2>2
      <3>2. CASE j = n + 1
        BY <1>5, <1>7, <1>9, <3>1, <3>2
      <3>3. CASE j # n + 1
        <4>1. j \in 1 .. n
          BY <1>3, <3>3
        <4> QED BY <1>5, <1>9, <2>2, <3>1, <4>1
      <3> QED BY <3>2, <3>3
    <2> QED BY <1>5, <1>7, <2>1, <2>2 DEF RingIsInOrder
  <1>11. LastIsPast'
    <2>1. last.pts \in Nat
      BY AudioAssumption DEF FramesTyped, SoundFrames
    <2>2. CASE last = Audio!NoFrame
      BY <1>1, <2>2 DEF LastIsPast
    <2>3. CASE last # Audio!NoFrame
      <3>1. last.pts < read - 1 /\ \A i \in 1 .. n : last.pts < older[i].pts
        <4>1. last.pts < read - 1 /\ \A i \in 1 .. Len(ring) : last.pts < ring[i].pts
          BY <1>7, <2>3 DEF LastIsPast
        <4>2. PICK d \in {0, 1} : \A i \in 1 .. n : older[i] = ring[i + d] /\ i + d \in 1 .. Len(ring)
          BY <1>3
        <4> QED BY <4>1, <4>2
      <3>2. \A i \in 1 .. n + 1 : last.pts < ring'[i].pts
        <4> SUFFICES ASSUME NEW i \in 1 .. n + 1 PROVE last.pts < ring'[i].pts
          OBVIOUS
        <4>1. CASE i = n + 1
          BY <1>5, <1>7, <3>1, <4>1
        <4>2. CASE i # n + 1
          <5>1. i \in 1 .. n
            BY <1>3, <4>2
          <5> QED BY <1>5, <3>1, <5>1
        <4> QED BY <4>1, <4>2
      <3>3. last.pts < GivenAway' /\ last.pts = last.at
        BY <1>7, <2>1, <3>1 DEF LastIsPast
      <3> QED BY <1>1, <1>5, <3>2, <3>3 DEF LastIsPast
    <2> QED BY <2>2, <2>3
  <1> QED BY <1>2, <1>6, <1>10, <1>11

LEMMA Draining ==
    ASSUME AudioInv, Audio!AudioDrainMain
    PROVE  AudioInv'
  <1> USE DEF AudioInv
  <1>1. /\ ring # <<>> /\ ring' = Tail(ring) /\ last' = (IF track THEN Head(ring) ELSE last)
        /\ UNCHANGED <<wasapi, loopAt, audio, audioAt, stop, finished, half, read, pos, frame, track,
                       com, starts>>
    BY DEF Audio!AudioDrainMain
  <1>2. StatesTyped' /\ NumbersTyped' /\ ClockIsRight' /\ JoinIsDue'
    BY <1>1 DEF StatesTyped, NumbersTyped, ClockIsRight, JoinIsDue, Holds
  <1>3. /\ ring' \in Seq(SoundFrames) /\ Len(ring') = Len(ring) - 1 /\ Len(ring) \in Nat \ {0}
        /\ \A i \in 1 .. Len(ring) - 1 : ring'[i] = ring[i + 1] /\ i + 1 \in 1 .. Len(ring)
        /\ Head(ring) = ring[1]
    BY <1>1, Older
  <1>4. 1 \in 1 .. Len(ring) /\ ring[1] \in SoundFrames
    BY <1>3 DEF FramesTyped
  <1>5. FramesTyped'
    BY <1>1, <1>3, <1>4, AudioAssumption DEF FramesTyped
  <1>6. GivenAway' = GivenAway
    BY <1>1 DEF GivenAway, Holds
  <1>7. RingIsInOrder'
    <2>1. /\ \A i \in 1 .. Len(ring) : ring[i].pts = ring[i].at /\ ring[i].pts < GivenAway
          /\ \A i, j \in 1 .. Len(ring) : i < j => ring[i].pts < ring[j].pts
      BY DEF RingIsInOrder
    <2>2. \A i, j \in 1 .. Len(ring) - 1 : i < j => i + 1 < j + 1
      OBVIOUS
    <2>3. /\ \A i \in 1 .. Len(ring) - 1 : ring'[i].pts = ring'[i].at /\ ring'[i].pts < GivenAway
          /\ \A i, j \in 1 .. Len(ring) - 1 : i < j => ring'[i].pts < ring'[j].pts
      BY <1>3, <2>1, <2>2
    <2> QED BY <1>3, <1>6, <2>3 DEF RingIsInOrder
  <1>8. LastIsPast'
    <2>1. CASE track
      <3>1. last' = ring[1]
        BY <1>1, <1>3, <2>1
      <3>2. \A i \in 1 .. Len(ring') : ring[1].pts < ring'[i].pts
        <4> SUFFICES ASSUME NEW i \in 1 .. Len(ring) - 1 PROVE ring[1].pts < ring'[i].pts
          BY <1>3
        <4>1. i + 1 \in 1 .. Len(ring) /\ 1 < i + 1 /\ ring'[i] = ring[i + 1]
          BY <1>3
        <4> QED BY <1>4, <4>1 DEF RingIsInOrder
      <3> QED BY <1>4, <1>6, <3>1, <3>2 DEF LastIsPast, RingIsInOrder
    <2>2. CASE ~track
      BY <1>1, <1>3, <1>6, <2>2 DEF LastIsPast
    <2> QED BY <2>1, <2>2
  <1> QED BY <1>2, <1>5, <1>7, <1>8

LEMMA AudioInitHolds == Audio!AudioInit => AudioInv
  <1> SUFFICES ASSUME Audio!AudioInit PROVE AudioInv
    OBVIOUS
  <1> USE DEF Audio!AudioInit
  <1>1. StatesTyped /\ JoinIsDue
    BY DEF StatesTyped, JoinIsDue
  <1>2. NumbersTyped /\ FramesTyped
    <2>1. ring \in Seq(SoundFrames) /\ Len(ring) = 0
      OBVIOUS
    <2>2. 0 \in 0 .. MaxFrames /\ 0 <= RingFrames /\ MaxStarts \in 0 .. MaxStarts
      BY AudioAssumption
    <2> QED BY <2>1, <2>2, NoFrameTyped DEF NumbersTyped, FramesTyped
  <1>3. ~Holds /\ Len(ring) = 0
    BY DEF Holds
  <1>4. ClockIsRight /\ RingIsInOrder /\ LastIsPast
    BY <1>3, NoFrameTyped DEF ClockIsRight, RingIsInOrder, LastIsPast
  <1> QED BY <1>1, <1>2, <1>4 DEF AudioInv

LEMMA AudioStepHolds == AudioInv /\ [Audio!AudioNext]_(Audio!audioVars) => AudioInv'
  <1> SUFFICES ASSUME AudioInv, [Audio!AudioNext]_(Audio!audioVars) PROVE AudioInv'
    OBVIOUS
  <1> USE DEF AudioInv, Audio!Loop, Audio!Work
  <1>0. /\ read \in Nat /\ GivenAway \in Int
        /\ Holds => read > 0 /\ GivenAway = read - 1
        /\ ~Holds => GivenAway = read
    BY AudioAssumption DEF NumbersTyped, GivenAway, ClockIsRight
  <1>1. CASE Audio!Check
    <2>1. /\ audioAt = "check" /\ audioAt' \in {"leave", "read"}
          /\ UNCHANGED <<finished, half, read, pos, frame, ring, com, wasapi, loopAt, audio, stop, track,
                         last, starts>>
      BY <1>1 DEF Audio!Check
    <2>2. StatesTyped' /\ NumbersTyped' /\ FramesTyped' /\ JoinIsDue' /\ ClockIsRight' /\ ~Holds /\ ~Holds'
      BY <2>1 DEF StatesTyped, NumbersTyped, FramesTyped, JoinIsDue, ClockIsRight, Holds
    <2>3. GivenAway' >= GivenAway /\ GivenAway' \in Nat
      BY <1>0, <2>1, <2>2 DEF GivenAway
    <2> QED BY <2>1, <2>2, <2>3, RingStays
  <1>2. CASE Audio!Read
    <2>1. /\ audioAt = "read" /\ com' = Audio!WorkerInit
          /\ UNCHANGED <<finished, ring, wasapi, loopAt, audio, stop, track, last, starts>>
      BY <1>2 DEF Audio!Read
    <2>2. com' \subseteq {"main", "worker"}
      BY <2>1 DEF Audio!WorkerInit, StatesTyped
    <2>3. CASE audioAt' \in {"check", "leave"} /\ half' \in BOOLEAN /\ UNCHANGED <<read, pos, frame>>
      <3>1. StatesTyped' /\ JoinIsDue'
        BY <2>1, <2>2, <2>3 DEF StatesTyped, JoinIsDue
      <3>2. NumbersTyped' /\ FramesTyped' /\ ClockIsRight' /\ ~Holds /\ ~Holds'
        BY <2>1, <2>3 DEF NumbersTyped, FramesTyped, ClockIsRight, Holds
      <3>3. GivenAway' >= GivenAway /\ GivenAway' \in Nat
        BY <1>0, <2>3, <3>2 DEF GivenAway
      <3> QED BY <2>1, <3>1, <3>2, <3>3, RingStays
    <2>4. CASE /\ read < MaxFrames /\ audioAt' = "encode" /\ half' = FALSE
               /\ read' = read + 1 /\ frame' = [at |-> read, pts |-> pos] /\ pos' = pos + 1
      <3>1. StatesTyped' /\ JoinIsDue'
        BY <2>1, <2>2, <2>4 DEF StatesTyped, JoinIsDue
      <3>2. read + 1 \in 0 .. MaxFrames /\ pos = read
        BY <1>0, <2>4, AudioAssumption DEF ClockIsRight
      <3>3. frame' \in SoundFrames
        BY <2>4, <3>2 DEF NumbersTyped, SoundFrames
      <3>4. NumbersTyped' /\ FramesTyped'
        BY <2>1, <2>4, <3>2, <3>3 DEF NumbersTyped, FramesTyped
      <3>5. ~Holds /\ Holds'
        BY <2>1, <2>4 DEF Holds
      <3>6. frame'.at = read /\ frame'.pts = read
        BY <2>4, <3>2
      <3>7. ClockIsRight'
        BY <1>0, <2>4, <3>2, <3>6 DEF ClockIsRight
      <3>8. GivenAway' >= GivenAway /\ GivenAway' \in Nat
        BY <1>0, <2>4, <3>5 DEF GivenAway
      <3> QED BY <2>1, <3>1, <3>4, <3>7, <3>8, RingStays
    <2>5. half \in BOOLEAN
      BY DEF StatesTyped
    <2> QED BY <1>2, <2>3, <2>4, <2>5 DEF Audio!Read
  <1>3. CASE Audio!Encode
    <2>1. /\ audioAt = "encode" /\ audioAt' \in {"push", "check"}
          /\ UNCHANGED <<finished, half, read, pos, frame, ring, com, wasapi, loopAt, audio, stop, track,
                         last, starts>>
      BY <1>3 DEF Audio!Encode
    <2>2. StatesTyped' /\ NumbersTyped' /\ FramesTyped' /\ JoinIsDue' /\ Holds
      BY <2>1 DEF StatesTyped, NumbersTyped, FramesTyped, JoinIsDue, Holds
    <2>3. ClockIsRight'
      BY <2>1, <2>2 DEF ClockIsRight
    <2>4. GivenAway' >= GivenAway /\ GivenAway' \in Nat
      BY <1>0, <2>1, <2>2 DEF GivenAway
    <2> QED BY <2>1, <2>2, <2>3, <2>4, RingStays
  <1>4. CASE Audio!Push
    BY <1>4, Pushing
  <1>5. CASE Audio!Leave
    <2>1. /\ audioAt = "leave" /\ audioAt' = "gone" /\ finished' = TRUE /\ com' = com \ {"worker"}
          /\ UNCHANGED <<half, read, pos, frame, ring, wasapi, loopAt, audio, stop, track, last, starts>>
      BY <1>5 DEF Audio!Leave, Audio!BackendWorkerDone
    <2>2. StatesTyped' /\ NumbersTyped' /\ FramesTyped' /\ JoinIsDue' /\ ClockIsRight' /\ ~Holds /\ ~Holds'
      BY <2>1 DEF StatesTyped, NumbersTyped, FramesTyped, JoinIsDue, ClockIsRight, Holds
    <2>3. GivenAway' >= GivenAway /\ GivenAway' \in Nat
      BY <1>0, <2>1, <2>2 DEF GivenAway
    <2> QED BY <2>1, <2>2, <2>3, RingStays
  <1>6. CASE Audio!AudioStart
    <2>1. /\ loopAt = "loop" /\ starts > 0 /\ starts' = starts - 1 /\ UNCHANGED <<wasapi, track>>
      BY <1>6 DEF Audio!AudioStart
    <2>2. starts' \in 0 .. MaxStarts
      BY <2>1, AudioAssumption DEF NumbersTyped
    <2>3. CASE ~audio /\ Audio!Opened /\ UNCHANGED loopAt
      <3>1. "worker" \notin com
        BY <2>3 DEF JoinIsDue
      <3> QED BY <2>1, <2>2, <2>3, <3>1, Opening
    <2>4. CASE /\ audio /\ loopAt' \in {"loop", "restarting"} /\ stop' \in BOOLEAN
               /\ UNCHANGED <<audio, audioAt, finished, half, read, pos, frame, ring, last, com>>
      <3>1. StatesTyped' /\ FramesTyped' /\ JoinIsDue' /\ ClockIsRight'
        BY <2>1, <2>4 DEF StatesTyped, FramesTyped, JoinIsDue, ClockIsRight, Holds
      <3>2. NumbersTyped'
        BY <2>2, <2>4 DEF NumbersTyped
      <3>3. GivenAway' = GivenAway
        BY <2>4 DEF GivenAway, Holds
      <3>4. GivenAway \in Nat
        BY <1>0
      <3> QED BY <2>4, <3>1, <3>2, <3>3, <3>4, RingStays
    <2>5. stop \in BOOLEAN
      BY DEF StatesTyped
    <2> QED BY <1>6, <2>1, <2>3, <2>4, <2>5 DEF Audio!AudioStart
  <1>7. CASE Audio!AudioStop
    <2>1. /\ audio /\ loopAt' = "stopping" /\ stop' = TRUE
          /\ UNCHANGED <<audio, audioAt, finished, track, last, com, starts, wasapi, half, read, pos,
                         frame, ring>>
      BY <1>7 DEF Audio!AudioStop
    <2>2. StatesTyped' /\ NumbersTyped' /\ FramesTyped' /\ JoinIsDue' /\ ClockIsRight'
      BY <2>1 DEF StatesTyped, NumbersTyped, FramesTyped, JoinIsDue, ClockIsRight, Holds
    <2>3. GivenAway' = GivenAway
      BY <2>1 DEF GivenAway, Holds
    <2>4. GivenAway \in Nat
      BY <1>0
    <2> QED BY <2>1, <2>2, <2>3, <2>4, RingStays
  <1>8. CASE Audio!Freed
    <2>1. loopAt # "loop" /\ audioAt = "gone" /\ loopAt' = "loop" /\ UNCHANGED <<wasapi, track, starts>>
      BY <1>8 DEF Audio!Freed, Audio!Joined
    <2>2. "worker" \notin com /\ starts' \in 0 .. MaxStarts
      BY <2>1 DEF JoinIsDue, NumbersTyped
    <2>3. CASE loopAt = "restarting"
      BY <1>8, <2>1, <2>2, <2>3, Opening DEF Audio!Freed
    <2>4. CASE loopAt # "restarting"
      <3>1. /\ audio' = FALSE /\ audioAt' = "none" /\ com' = Audio!BackendClose
            /\ UNCHANGED <<stop, finished, half, read, pos, frame, ring, last>>
        BY <1>8, <2>1, <2>4 DEF Audio!Freed
      <3>2. Audio!Opened
        BY <3>1 DEF Audio!Opened
      <3> QED BY <2>1, <2>2, <3>2, Opening
    <2> QED BY <2>3, <2>4
  <1>9. CASE Audio!AudioDrainMain
    BY <1>9, Draining
  <1>10. CASE Audio!Track \/ UNCHANGED Audio!audioVars
    <2>1. /\ UNCHANGED <<wasapi, loopAt, audio, audioAt, stop, finished, half, read, pos, frame, ring,
                         last, com, starts>>
          /\ track' \in BOOLEAN
      BY <1>10 DEF Audio!Track, Audio!audioVars, StatesTyped
    <2>2. StatesTyped' /\ NumbersTyped' /\ FramesTyped' /\ JoinIsDue' /\ ClockIsRight'
      BY <2>1 DEF StatesTyped, NumbersTyped, FramesTyped, JoinIsDue, ClockIsRight, Holds
    <2>3. GivenAway' = GivenAway
      BY <2>1 DEF GivenAway, Holds
    <2>4. GivenAway \in Nat
      BY <1>0
    <2> QED BY <2>1, <2>2, <2>3, <2>4, RingStays
  <1> QED BY <1>1, <1>2, <1>3, <1>4, <1>5, <1>6, <1>7, <1>8, <1>9, <1>10 DEF Audio!AudioNext

LEMMA AudioInvariance == Audio!AudioSpec => []AudioInv
  BY AudioInitHolds, AudioStepHolds, PTL DEF Audio!AudioSpec

\* What is before what, in the line from the viewer to the worker.
LEMMA LineIsInOrder == AudioInv => Audio!StampsAreTrue
  <1> SUFFICES ASSUME AudioInv PROVE Audio!StampsAreTrue
    OBVIOUS
  <1> USE DEF AudioInv
  <1> DEFINE Tip == IF Holds THEN <<frame>> ELSE <<>>
             Line == <<last>> \o ring \o Tip
             n == Len(ring)
  <1>1. n \in Nat /\ ring \in Seq(SoundFrames) /\ frame \in SoundFrames /\ last \in SoundFrames
    BY DEF FramesTyped
  <1>2. <<last>> \in Seq(SoundFrames) /\ Len(<<last>>) = 1 /\ <<last>>[1] = last
    BY <1>1
  <1>3. Tip \in Seq(SoundFrames) /\ Len(Tip) = (IF Holds THEN 1 ELSE 0)
        /\ (Holds => Tip[1] = frame)
    BY <1>1
  <1> HIDE DEF Tip
  <1>4. /\ <<last>> \o ring \in Seq(SoundFrames) /\ Len(<<last>> \o ring) = n + 1
        /\ (<<last>> \o ring)[1] = last
        /\ \A i \in 2 .. n + 1 : (<<last>> \o ring)[i] = ring[i - 1]
    BY <1>1, <1>2, ConcatProperties
  <1>5. /\ DOMAIN Line = 1 .. n + 1 + Len(Tip)
        /\ \A i \in 1 .. n + 1 : Line[i] = (<<last>> \o ring)[i]
        /\ Holds => Line[n + 2] = frame
    <2>1. /\ Line \in Seq(SoundFrames) /\ Len(Line) = n + 1 + Len(Tip)
          /\ \A i \in 1 .. n + 1 : Line[i] = (<<last>> \o ring)[i]
          /\ \A i \in n + 2 .. n + 1 + Len(Tip) : Line[i] = Tip[i - (n + 1)]
      BY <1>1, <1>3, <1>4, ConcatProperties
    <2>2. DOMAIN Line = 1 .. Len(Line)
      BY <2>1
    <2>3. Holds => Line[n + 2] = frame
      <3> SUFFICES ASSUME Holds PROVE Line[n + 2] = frame
        OBVIOUS
      <3>1. n + 2 \in n + 2 .. n + 1 + Len(Tip) /\ (n + 2) - (n + 1) = 1
        BY <1>1, <1>3
      <3> QED BY <1>3, <2>1, <3>1
    <2> QED BY <2>1, <2>2, <2>3
  <1>6. /\ 1 \in DOMAIN Line /\ Line[1] = last
        /\ \A i \in DOMAIN Line : \/ i = 1
                                  \/ i \in 2 .. n + 1 /\ Line[i] = ring[i - 1] /\ i - 1 \in 1 .. n
                                  \/ i = n + 2 /\ Holds /\ Line[i] = frame
    <2>1. 1 \in 1 .. n + 1 /\ 1 \in DOMAIN Line
      BY <1>1, <1>3, <1>5
    <2>2. ASSUME NEW i \in DOMAIN Line
          PROVE  i = 1 \/ i \in 2 .. n + 1 \/ (i = n + 2 /\ Holds)
      BY <1>1, <1>3, <1>5
    <2>3. ASSUME NEW i \in 2 .. n + 1
          PROVE  Line[i] = ring[i - 1] /\ i - 1 \in 1 .. n
      BY <1>1, <1>4, <1>5
    <2> QED BY <1>4, <1>5, <2>1, <2>2, <2>3
  <1> HIDE DEF Line
  <1>7. /\ last.pts = last.at /\ last.pts \in Nat
        /\ \A i \in 1 .. n : ring[i].pts = ring[i].at /\ ring[i].pts < GivenAway /\ ring[i].pts \in Nat
        /\ \A i, j \in 1 .. n : i < j => ring[i].pts < ring[j].pts
        /\ Holds => frame.pts = frame.at /\ frame.pts = GivenAway
    <2>1. last.pts \in Nat
      BY <1>1, AudioAssumption DEF SoundFrames
    <2>2. last.pts = last.at
      BY DEF LastIsPast
    <2>3. Holds => frame.pts = frame.at /\ frame.pts = GivenAway
      BY DEF ClockIsRight, GivenAway
    <2> QED BY <2>1, <2>2, <2>3, InTheRing DEF RingIsInOrder
  <1>8. ASSUME NEW i \in DOMAIN Line
        PROVE  Line[i].pts = Line[i].at
    BY <1>6, <1>7
  <1>9. ASSUME NEW i \in DOMAIN Line, NEW j \in DOMAIN Line, i < j
        PROVE  Line[i].pts < Line[j].pts \/ Line[i] = Audio!NoFrame
    <2>1. j # 1 /\ i # n + 2
      BY <1>1, <1>6, <1>9
    <2>2. CASE i = 1
      <3>1. CASE last = Audio!NoFrame
        BY <1>6, <2>2, <3>1
      <3>2. CASE last # Audio!NoFrame
        <4>1. last.pts < GivenAway /\ \A k \in 1 .. n : last.pts < ring[k].pts
          BY <3>2 DEF LastIsPast
        <4> QED BY <1>6, <1>7, <2>1, <2>2, <4>1
      <3> QED BY <3>1, <3>2
    <2>3. CASE i # 1
      <3>1. i \in 2 .. n + 1 /\ Line[i] = ring[i - 1] /\ i - 1 \in 1 .. n
        BY <1>6, <2>1, <2>3
      <3>2. CASE j = n + 2 /\ Holds /\ Line[j] = frame
        BY <1>7, <3>1, <3>2
      <3>3. CASE j \in 2 .. n + 1 /\ Line[j] = ring[j - 1] /\ j - 1 \in 1 .. n
        <4>1. i - 1 < j - 1
          BY <1>1, <1>9, <3>1, <3>3
        <4> QED BY <1>7, <3>1, <3>3, <4>1
      <3> QED BY <1>6, <2>1, <3>2, <3>3
    <2> QED BY <2>2, <2>3
  <1> QED BY <1>8, <1>9 DEF Line, Tip, Holds, Audio!StampsAreTrue

\* What DesktopAudio says of its variables holds in every state of the sound:
\* no more frames wait than the ring of audio.c has room for.
THEOREM AudioTypesHold == Audio!AudioSpec => []Audio!AudioTypeOK
  <1>1. AudioInv => Audio!AudioTypeOK
    BY DEF AudioInv, StatesTyped, NumbersTyped, FramesTyped, SoundFrames, Audio!AudioTypeOK,
           Audio!Frames
  <1> QED BY <1>1, AudioInvariance, PTL

\* Whatever the encoder, a full ring or a closed track drops, a frame carries
\* the time it was recorded at and comes in its order, and the worker is
\* joined before what it works on is freed (audio.c, opus.c): for any number
\* of frames, starts and places in the ring.
THEOREM SoundIsTrue == Audio!AudioSpec => []SoundHolds
  <1>1. AudioInv => SoundHolds
    BY LineIsInOrder DEF AudioInv, JoinIsDue, SoundHolds, Audio!WorkerIsJoined
  <1> QED BY <1>1, AudioInvariance, PTL

-----------------------------------------------------------------------------
(* A nonempty set of numbers has a least one.                               *)
LEMMA LeastNumber ==
    ASSUME NEW S, S \subseteq Nat, S # {}
    PROVE  \E m \in S : \A n \in S : m <= n
  <1> DEFINE R == OpToRel(<, Nat)
  <1>1. IsWellFoundedOn(R, Nat)
    BY NatLessThanWellFounded
  <1> HIDE DEF R
  <1>2. PICK m \in S : \A n \in S : ~ (<<n, m>> \in R)
    BY <1>1, WFMin
  <1>3. ASSUME NEW n \in S PROVE m <= n
    <2>1. n \in Nat /\ m \in Nat
      OBVIOUS
    <2>2. n < m => <<n, m>> \in R
      BY <2>1 DEF R, OpToRel
    <2> QED BY <1>2, <2>1, <2>2
  <1> QED BY <1>3

\* A sequence without its element i.
LEMMA Removing ==
    ASSUME NEW S, NEW q \in Seq(S), NEW i \in 1 .. Len(q)
    PROVE  LET rest == SubSeq(q, 1, i - 1) \o SubSeq(q, i + 1, Len(q))
           IN  /\ rest \in Seq(S) /\ Len(rest) = Len(q) - 1
               /\ \A j \in 1 .. Len(q) - 1 : rest[j] = q[IF j < i THEN j ELSE j + 1]
  <1> DEFINE n == Len(q)
             a == SubSeq(q, 1, i - 1)
             b == SubSeq(q, i + 1, n)
  <1>1. n \in Nat /\ i \in 1 .. n /\ \A j \in 1 .. n : q[j] \in S
    BY ElementOfSeq
  <1> HIDE DEF n
  <1>2. a \in Seq(S) /\ Len(a) = i - 1 /\ \A j \in 1 .. i - 1 : a[j] = q[j]
    <2>1. \A j \in 1 .. i - 1 : q[j] \in S
      BY <1>1
    <2>2. /\ a \in Seq(S)
          /\ Len(a) = (IF 1 <= i - 1 THEN i - 1 - 1 + 1 ELSE 0)
          /\ \A j \in 1 .. i - 1 - 1 + 1 : a[j] = q[1 + j - 1]
      BY <1>1, <2>1, SubSeqProperties
    <2> QED BY <1>1, <2>2
  <1>3. b \in Seq(S) /\ Len(b) = n - i /\ \A j \in 1 .. n - i : b[j] = q[i + j]
    <2>1. \A j \in i + 1 .. n : q[j] \in S
      BY <1>1
    <2>2. /\ b \in Seq(S)
          /\ Len(b) = (IF i + 1 <= n THEN n - (i + 1) + 1 ELSE 0)
          /\ \A j \in 1 .. n - (i + 1) + 1 : b[j] = q[(i + 1) + j - 1]
      BY <1>1, <2>1, SubSeqProperties
    <2> QED BY <1>1, <2>2
  <1> HIDE DEF a, b
  <1>4. a \o b \in Seq(S) /\ Len(a \o b) = n - 1
    <2>1. a \o b \in Seq(S) /\ Len(a \o b) = Len(a) + Len(b)
      BY <1>2, <1>3, ConcatProperties
    <2> QED BY <1>1, <1>2, <1>3, <2>1
  <1>5. ASSUME NEW j \in 1 .. n - 1
        PROVE  (a \o b)[j] = q[IF j < i THEN j ELSE j + 1]
    <2>1. j \in 1 .. Len(a) + Len(b)
      BY <1>1, <1>2, <1>3
    <2>2. (a \o b)[j] = IF j <= Len(a) THEN a[j] ELSE b[j - Len(a)]
      BY <1>2, <1>3, <2>1, ConcatProperties
    <2>3. CASE j < i
      <3>1. j <= Len(a) /\ j \in 1 .. i - 1
        BY <1>1, <1>2, <2>3
      <3> QED BY <1>2, <2>2, <2>3, <3>1
    <2>4. CASE ~(j < i)
      <3>1. ~(j <= Len(a)) /\ j - Len(a) \in 1 .. n - i /\ i + (j - Len(a)) = j + 1
        BY <1>1, <1>2, <2>4
      <3> QED BY <1>3, <2>2, <2>4, <3>1
    <2> QED BY <2>3, <2>4
  <1> QED BY <1>4, <1>5 DEF a, b, n

-----------------------------------------------------------------------------
(* The keys held down.                                                     *)

Entries == [code : Codes, key : Keys]

\* The type invariant in two parts: plain values, and sequences.
MeansTyped ==
    /\ portal \in BOOLEAN /\ ended \in BOOLEAN
    /\ group \in Layouts /\ means \in [Codes -> Ways]
    /\ bound \in [Slots -> Syms \cup {None}]
    /\ pinned \subseteq Slots /\ down \subseteq Keys /\ strays \subseteq Keys

HeldTyped ==
    /\ held \in Seq(Entries) /\ Len(held) <= MaxHeld
    /\ \A i, j \in 1 .. Len(held) : held[i].code = held[j].code => i = j

\* The scratch keycodes, each of them once.
OrderTyped ==
    /\ order \in Seq(Slots) /\ Len(order) = Cardinality(Slots)
    /\ \A i, j \in 1 .. Len(order) : order[i] = order[j] => i = j

KeysTyped == MeansTyped /\ HeldTyped /\ OrderTyped

\* Every key that is down is in the table or known to be lost to it, none
\* is both, and a slot that is down is pinned.
DownIsTold == down \subseteq Named(held) \cup strays
StraysApart == strays \cap Named(held) = {}
DownIsPinned == (down \cap Slots) \ strays \subseteq pinned

KeysInv == DownIsTold /\ StraysApart /\ DownIsPinned

-----------------------------------------------------------------------------

LEMMA KindsApart ==
    /\ \A c \in Codes : c \notin Syms /\ c \notin Slots /\ c # None
    /\ \A s \in Syms : s \notin Slots /\ s # None /\ s # Position
    /\ \A x \in Slots : x # None
    /\ Codes \subseteq Keys /\ Syms \subseteq Keys /\ Slots \subseteq Keys
  BY KeysAssumption DEF Keys, Position

LEMMA VictimIs ==
    ASSUME KeysTyped, Victim # None
    PROVE  Victim \in Slots /\ Victim \notin pinned
  <1> DEFINE free == {i \in DOMAIN order : Unpinned(order[i])}
             i == CHOOSE i \in free : \A j \in free : i <= j
  <1>1. DOMAIN order = 1 .. Len(order) /\ Len(order) \in Nat
    BY DEF KeysTyped, OrderTyped
  <1>2. free # {} /\ Victim = order[i]
    BY DEF Victim
  <1>3. i \in free
    <2>1. free \subseteq Nat
      BY <1>1
    <2>2. \E k \in free : \A j \in free : k <= j
      BY <1>2, <2>1, LeastNumber
    <2> QED BY <2>2
  <1> HIDE DEF i
  <1>4. order[i] \in Slots /\ order[i] \notin pinned
    BY <1>1, <1>3, ElementOfSeq DEF Unpinned, KeysTyped, OrderTyped
  <1> QED BY <1>2, <1>4

\* A meaning w can come down to key k: a scratch keycode is for a symbol.
Goes(w, k) == k \in Keys /\ (k \in Slots => w \in Syms)

LEMMA ResolveIs ==
    ASSUME KeysTyped, NEW s \in Syms, NEW press \in BOOLEAN, Resolve(s, press) # None
    PROVE  Goes(s, Resolve(s, press))
  <1>1. CASE portal
    BY <1>1, KindsApart DEF Resolve, Goes
  <1>2. CASE ~portal /\ Found(s) # {}
    <2>1. Resolve(s, press) = CHOOSE x \in Found(s) : TRUE
      BY <1>2 DEF Resolve
    <2>2. (CHOOSE x \in Found(s) : TRUE) \in Found(s)
      BY <1>2
    <2> QED BY <2>1, <2>2, KindsApart DEF Goes, Found
  <1>3. CASE ~portal /\ Found(s) = {} /\ s \in group
    BY <1>3, KindsApart DEF Resolve, Goes
  <1>4. CASE ~portal /\ Found(s) = {} /\ s \notin group
    <2>1. Resolve(s, press) = Victim
      BY <1>4 DEF Resolve
    <2> QED BY <2>1, VictimIs, KindsApart DEF Goes
  <1> QED BY <1>1, <1>2, <1>3, <1>4

\* The events there are: one with a code and what that means, or one with
\* no code and a symbol.
Event(c, w) == (c \in Codes /\ w \in Ways) \/ (c = None /\ w \in Syms)

LEMMA KeyOfIs ==
    ASSUME KeysTyped, NEW c, NEW w, Event(c, w), NEW press \in BOOLEAN, KeyOf(c, w, press) # None
    PROVE  Goes(w, KeyOf(c, w, press))
  <1>1. CASE w = Position
    BY <1>1, KindsApart DEF KeyOf, Goes, Event
  <1>2. CASE w # Position
    BY <1>2, ResolveIs DEF KeyOf, Ways, Event
  <1> QED BY <1>1, <1>2

\* A slot is used: the pool has every slot once, still, and is bound to symbols.
LEMMA Using ==
    ASSUME KeysTyped, NEW w, NEW k, Goes(w, k), Uses(k, w)
    PROVE  bound' \in [Slots -> Syms \cup {None}] /\ OrderTyped'
  <1> USE DEF KeysTyped
  <1>1. CASE k \notin Slots
    <2>1. UNCHANGED <<order, bound>>
      BY <1>1 DEF Uses
    <2> QED BY <2>1 DEF OrderTyped, MeansTyped
  <1>2. CASE k \in Slots
    <2>1. /\ \E i \in DOMAIN order : order[i] = k /\ order' = Append(Without(order, i), k)
          /\ bound' = [bound EXCEPT ![k] = w]
      BY <1>2 DEF Uses
    <2>2. OrderTyped'
      <3>1. PICK i \in DOMAIN order : order[i] = k /\ order' = Append(Without(order, i), k)
        BY <2>1
      <3> DEFINE n == Len(order)
                 rest == Without(order, i)
      <3>2. order \in Seq(Slots) /\ n \in Nat /\ i \in 1 .. n /\ n = Cardinality(Slots)
            /\ \A a, b \in 1 .. n : order[a] = order[b] => a = b
        BY DEF OrderTyped
      <3>3. rest \in Seq(Slots) /\ Len(rest) = n - 1
            /\ \A j \in 1 .. n - 1 : rest[j] = order[IF j < i THEN j ELSE j + 1]
        BY <3>2, Removing DEF Without
      <3> HIDE DEF rest
      <3>4. /\ order' \in Seq(Slots) /\ Len(order') = Len(rest) + 1
            /\ \A j \in 1 .. Len(rest) : order'[j] = rest[j]
            /\ order'[Len(rest) + 1] = k
        BY <1>2, <3>1, <3>3, AppendProperties DEF rest
      <3>5. order' \in Seq(Slots) /\ Len(order') = n
            /\ (\A j \in 1 .. n - 1 : order'[j] = order[IF j < i THEN j ELSE j + 1])
            /\ order'[n] = order[i]
        BY <3>1, <3>2, <3>3, <3>4
      <3> DEFINE Came(j) == IF j = n THEN i ELSE IF j < i THEN j ELSE j + 1
      <3> HIDE DEF n
      <3>6. \A j \in 1 .. n : order'[j] = order[Came(j)] /\ Came(j) \in 1 .. n
        <4> SUFFICES ASSUME NEW j \in 1 .. n PROVE order'[j] = order[Came(j)] /\ Came(j) \in 1 .. n
          OBVIOUS
        <4>1. CASE j = n
          BY <3>2, <3>5, <4>1
        <4>2. CASE j # n
          <5>1. j \in 1 .. n - 1
            BY <3>2, <4>2
          <5> QED BY <3>2, <3>5, <4>2, <5>1
        <4> QED BY <4>1, <4>2
      <3>7. \A a, b \in 1 .. n : Came(a) = Came(b) => a = b
        BY <3>2
      <3> HIDE DEF Came
      <3>8. \A a, b \in 1 .. n : order'[a] = order'[b] => a = b
        BY <3>2, <3>6, <3>7
      <3> QED BY <3>2, <3>5, <3>8 DEF OrderTyped
    <2>3. bound' \in [Slots -> Syms \cup {None}]
      BY <1>2, <2>1 DEF MeansTyped, Goes
    <2> QED BY <2>2, <2>3
  <1> QED BY <1>1, <1>2

-----------------------------------------------------------------------------

\* The table after a key is remembered: it stays typed, no key is in it but
\* the new one, which is if it has a code, and only the key the code had
\* before and the oldest, if it had to make room, are not in it any more.
LEMMA Entering ==
    ASSUME KeysTyped, NEW c \in Codes \cup {None}, NEW k \in Keys,
           held' = Entered(c, k, IF Crowded(c) THEN Tail(held) ELSE held)
    PROVE  /\ HeldTyped'
           /\ Named(held') \subseteq Named(held) \cup {k}
           /\ c # None => k \in Named(held')
           /\ \A x \in Named(held) : \/ x \in Named(held')
                                     \/ x \in {held[i].key : i \in Entry(c)}
                                     \/ Crowded(c) /\ x = Head(held).key
  <1> USE DEF KeysTyped
  <1> DEFINE n == Len(held)
             e == [code |-> c, key |-> k]
  <1>1. /\ held \in Seq(Entries) /\ n \in Nat /\ n <= MaxHeld /\ DOMAIN held = 1 .. n
        /\ \A i \in 1 .. n : held[i] \in Entries
        /\ \A i, j \in 1 .. n : held[i].code = held[j].code => i = j
    <2>1. /\ held \in Seq(Entries) /\ n <= MaxHeld
          /\ \A i, j \in 1 .. n : held[i].code = held[j].code => i = j
      BY DEF HeldTyped
    <2>2. \A i \in 1 .. n : held[i] \in Entries
      BY <2>1, ElementOfSeq
    <2> QED BY <2>1, <2>2
  <1>2. /\ Entry(c) = {i \in 1 .. n : held[i].code = c}
        /\ \A x : x \in Named(held) <=> \E i \in 1 .. n : held[i].key = x
    BY <1>1 DEF Entry, Named
  <1>3. CASE c = None
    <2>1. Entry(c) = {}
      BY <1>1, <1>2, <1>3, KindsApart DEF Entries
    <2>2. held' = held
      BY <1>3, <2>1 DEF Entered
    <2> QED BY <1>3, <2>2 DEF HeldTyped, Named
  <1>4. CASE c # None /\ Entry(c) # {}
    <2>1. held' = [i \in 1 .. n |-> IF i \in Entry(c) THEN e ELSE held[i]]
      BY <1>1, <1>4 DEF Entered
    <2>2. e \in Entries
      BY <1>4 DEF Entries
    <2> HIDE DEF n, e
    <2>3. held' \in Seq(Entries) /\ Len(held') = n /\ DOMAIN held' = 1 .. n
          /\ \A i \in 1 .. n : held'[i] = IF held[i].code = c THEN e ELSE held[i]
      BY <1>1, <1>2, <2>1, <2>2
    <2>4. \A i \in 1 .. n : held'[i].code = held[i].code
      BY <2>3 DEF e
    <2>5. HeldTyped'
      BY <1>1, <2>3, <2>4 DEF HeldTyped
    <2>6. \A x : x \in Named(held') <=> \E i \in 1 .. n : held'[i].key = x
      BY <2>3 DEF Named
    <2>7. PICK i \in 1 .. n : held[i].code = c
      BY <1>2, <1>4
    <2>8. k \in Named(held')
      BY <2>3, <2>6, <2>7 DEF e
    <2>9. \A x \in Named(held') : x \in Named(held) \cup {k}
      BY <1>2, <2>3, <2>6 DEF e
    <2>10. \A x \in Named(held) : x \in Named(held') \/ x \in {held[j].key : j \in Entry(c)}
      BY <1>2, <2>3, <2>6
    <2> QED BY <2>5, <2>8, <2>9, <2>10
  <1>5. CASE c # None /\ Entry(c) = {}
    <2> DEFINE full == n = MaxHeld
               old == IF full THEN Tail(held) ELSE held
               d == IF full THEN 1 ELSE 0
               m == Len(old)
    <2>1. \A i \in 1 .. n : held[i].code # c
      BY <1>2, <1>5
    <2>2. held' = Append(old, e) /\ (full <=> Crowded(c)) /\ e \in Entries
      BY <1>5 DEF Entered, Crowded, Entries
    <2>3. /\ old \in Seq(Entries) /\ m = n - d /\ m \in Nat /\ m < MaxHeld /\ d \in {0, 1}
          /\ \A i \in 1 .. m : old[i] = held[i + d]
      <3>1. CASE full
        <4>1. held # <<>> /\ MaxHeld \in Nat
          BY <1>1, <3>1, KeysAssumption
        <4>2. Tail(held) \in Seq(Entries) /\ Len(Tail(held)) = n - 1
              /\ \A i \in 1 .. n - 1 : Tail(held)[i] = held[i + 1]
          BY <1>1, <4>1, HeadTailProperties
        <4> HIDE DEF n
        <4> QED BY <1>1, <3>1, <4>1, <4>2, KeysAssumption
      <3>2. CASE ~full
        <4>1. MaxHeld \in Nat
          BY KeysAssumption
        <4>2. \A i \in 1 .. n : held[i] = held[i + 0]
          BY <1>1
        <4> HIDE DEF n
        <4> QED BY <1>1, <3>2, <4>1, <4>2
      <3> QED BY <3>1, <3>2
    <2>4. full => Head(held) = held[1] /\ n >= 1
      <3> SUFFICES ASSUME full PROVE Head(held) = held[1] /\ n >= 1
        OBVIOUS
      <3>1. held # <<>> /\ n >= 1
        BY <1>1, KeysAssumption
      <3> QED BY <1>1, <3>1, HeadTailProperties
    <2> HIDE DEF old, m, e
    <2>5. /\ held' \in Seq(Entries) /\ Len(held') = m + 1 /\ DOMAIN held' = 1 .. m + 1
          /\ \A i \in 1 .. m : held'[i] = old[i]
          /\ held'[m + 1] = e
      <3>1. held' \in Seq(Entries) /\ Len(held') = m + 1
            /\ (\A i \in 1 .. m : held'[i] = old[i]) /\ held'[m + 1] = e
        <4>1. old \in Seq(Entries) /\ e \in Entries /\ held' = Append(old, e) /\ m = Len(old)
          BY <2>2, <2>3 DEF m
        <4> QED BY <4>1, AppendProperties
      <3> QED BY <3>1
    <2> HIDE DEF n, full, d
    <2>6. \A i \in 1 .. m : held'[i] = held[i + d] /\ i + d \in 1 .. n
      BY <1>1, <2>3, <2>5
    <2>7. HeldTyped'
      <3>1. Len(held') <= MaxHeld
        BY <2>3, <2>5, KeysAssumption
      <3>2. ASSUME NEW i \in 1 .. m + 1, NEW j \in 1 .. m + 1, held'[i].code = held'[j].code
            PROVE  i = j
        <4>1. e.code = c
          BY DEF e
        <4>2. CASE i = m + 1 \/ j = m + 1
          <5>1. \A x \in 1 .. m : held'[x].code # c
            BY <2>1, <2>6
          <5>2. \A x \in 1 .. m + 1 : x = m + 1 \/ x \in 1 .. m
            BY <2>3
          <5> QED BY <2>5, <3>2, <4>1, <4>2, <5>1, <5>2
        <4>3. CASE i # m + 1 /\ j # m + 1
          <5>1. i \in 1 .. m /\ j \in 1 .. m
            BY <2>3, <4>3
          <5>2. i + d = j + d
            BY <1>1, <2>6, <3>2, <5>1
          <5> QED BY <2>3, <5>1, <5>2
        <4> QED BY <4>2, <4>3
      <3> QED BY <2>5, <3>1, <3>2 DEF HeldTyped
    <2>8. \A x : x \in Named(held') <=> \E i \in 1 .. m + 1 : held'[i].key = x
      BY <2>5 DEF Named
    <2>9. k \in Named(held')
      <3>1. m + 1 \in 1 .. m + 1 /\ e.key = k
        BY <2>3 DEF e
      <3> QED BY <2>5, <2>8, <3>1
    <2>10. ASSUME NEW x \in Named(held') PROVE x \in Named(held) \cup {k}
      <3>1. PICK i \in 1 .. m + 1 : held'[i].key = x
        BY <2>8, <2>10
      <3>2. i = m + 1 \/ i \in 1 .. m
        BY <2>3
      <3>3. e.key = k
        BY DEF e
      <3> QED BY <1>2, <2>5, <2>6, <3>1, <3>2, <3>3
    <2>11. ASSUME NEW x \in Named(held), ~(Crowded(c) /\ x = Head(held).key)
           PROVE  x \in Named(held')
      <3>1. PICK i \in 1 .. n : held[i].key = x
        BY <1>2, <2>11
      <3>2. full => i # 1
        BY <2>2, <2>4, <2>11, <3>1
      <3>3. i - d \in 1 .. m /\ (i - d) + d = i
        BY <1>1, <2>3, <3>1, <3>2 DEF d
      <3>4. held'[i - d] = held[i] /\ i - d \in 1 .. m + 1
        BY <2>3, <2>5, <2>6, <3>3
      <3> QED BY <2>8, <3>1, <3>4
    <2> QED BY <2>7, <2>9, <2>10, <2>11
  <1> QED BY <1>3, <1>4, <1>5

\* A key is remembered: what is down is in the table or known to be lost.
LEMMA Remembering ==
    ASSUME KeysTyped, KeysInv, NEW c \in Codes \cup {None}, NEW k \in Keys, RememberKey(c, k)
    PROVE  /\ HeldTyped' /\ KeysInv'
           /\ down' \subseteq Keys /\ pinned' \subseteq Slots /\ strays' \subseteq Keys
  <1> DEFINE oldest == IF Crowded(c) THEN {Head(held).key} ELSE {}
             before == {held[i].key : i \in Entry(c)}
             uncoded == IF c = None THEN {k} ELSE {}
  <1>1. /\ held' = Entered(c, k, IF Crowded(c) THEN Tail(held) ELSE held)
        /\ down' = (down \cup {k}) \ oldest
        /\ pinned' = (pinned \cup ({k} \cap Slots)) \ oldest
        /\ strays' = ((strays \cup before \cup uncoded) \ Named(held')) \ oldest
    BY DEF RememberKey, Astray
  <1>2. /\ HeldTyped'
        /\ Named(held') \subseteq Named(held) \cup {k}
        /\ c # None => k \in Named(held')
        /\ \A x \in Named(held) : x \in Named(held') \/ x \in before \/ x \in oldest
    BY <1>1, Entering
  <1>3. before \subseteq Keys
    <2> SUFFICES ASSUME NEW i \in Entry(c) PROVE held[i].key \in Keys
      OBVIOUS
    <2>1. held \in Seq(Entries) /\ i \in 1 .. Len(held)
      BY DEF Entry, KeysTyped, HeldTyped
    <2>2. held[i] \in Entries
      BY <2>1, ElementOfSeq
    <2> QED BY <2>2 DEF Entries
  <1> HIDE DEF oldest, before
  <1>4. down' \subseteq Keys /\ pinned' \subseteq Slots /\ strays' \subseteq Keys
    BY <1>1, <1>3 DEF KeysTyped, MeansTyped
  <1>5. DownIsTold'
    BY <1>1, <1>2 DEF KeysInv, DownIsTold
  <1>6. StraysApart'
    BY <1>1 DEF StraysApart
  <1>7. DownIsPinned'
    BY <1>1, <1>2 DEF KeysInv, DownIsPinned, StraysApart
  <1> QED BY <1>2, <1>4, <1>5, <1>6, <1>7 DEF KeysInv

\* An entry is taken out: the table stays typed, and only its key can go.
LEMMA Forgetting ==
    ASSUME KeysTyped, NEW i \in 1 .. Len(held), held' = Without(held, i)
    PROVE  /\ HeldTyped'
           /\ Named(held') \subseteq Named(held)
           /\ Named(held) \subseteq Named(held') \cup {held[i].key}
  <1> DEFINE n == Len(held)
             From(j) == IF j < i THEN j ELSE j + 1
  <1>1. /\ held \in Seq(Entries) /\ n \in Nat /\ n <= MaxHeld /\ i \in 1 .. n
        /\ \A a, b \in 1 .. n : held[a].code = held[b].code => a = b
    BY DEF KeysTyped, HeldTyped
  <1>2. held' \in Seq(Entries) /\ Len(held') = n - 1
        /\ \A j \in 1 .. n - 1 : held'[j] = held[From(j)]
    BY <1>1, Removing DEF Without
  <1> HIDE DEF n
  <1>3. /\ \A j \in 1 .. n - 1 : From(j) \in 1 .. n
        /\ \A a, b \in 1 .. n - 1 : From(a) = From(b) => a = b
        /\ \A j \in 1 .. n : j = i \/ \E x \in 1 .. n - 1 : From(x) = j
    <2>1. ASSUME NEW j \in 1 .. n, j # i
          PROVE  \E x \in 1 .. n - 1 : From(x) = j
      <3>1. CASE j < i
        <4>1. j \in 1 .. n - 1 /\ From(j) = j
          BY <1>1, <3>1
        <4> QED BY <4>1
      <3>2. CASE ~(j < i)
        <4>1. j - 1 \in 1 .. n - 1 /\ From(j - 1) = j
          BY <1>1, <2>1, <3>2
        <4> QED BY <4>1
      <3> QED BY <3>1, <3>2
    <2> QED BY <1>1, <2>1
  <1> HIDE DEF From
  <1>4. HeldTyped'
    <2>1. Len(held') <= MaxHeld
      BY <1>1, <1>2, KeysAssumption
    <2>2. ASSUME NEW a \in 1 .. n - 1, NEW b \in 1 .. n - 1, held'[a].code = held'[b].code
          PROVE  a = b
      <3>1. From(a) = From(b)
        <4>1. held'[a] = held[From(a)] /\ held'[b] = held[From(b)]
          BY <1>2
        <4>2. From(a) \in 1 .. n /\ From(b) \in 1 .. n
          BY <1>3
        <4> QED BY <1>1, <2>2, <4>1, <4>2
      <3> QED BY <1>3, <3>1
    <2> QED BY <1>2, <2>1, <2>2 DEF HeldTyped
  <1>5. /\ \A x : x \in Named(held) <=> \E j \in 1 .. n : held[j].key = x
        /\ \A x : x \in Named(held') <=> \E j \in 1 .. n - 1 : held'[j].key = x
    <2>1. DOMAIN held = 1 .. n /\ DOMAIN held' = 1 .. n - 1
      BY <1>1, <1>2 DEF n
    <2> QED BY <2>1 DEF Named
  <1>6. ASSUME NEW x \in Named(held') PROVE x \in Named(held)
    BY <1>2, <1>3, <1>5, <1>6
  <1>7. ASSUME NEW x \in Named(held), x # held[i].key PROVE x \in Named(held')
    <2>1. PICK j \in 1 .. n : held[j].key = x
      BY <1>5, <1>7
    <2>2. PICK y \in 1 .. n - 1 : From(y) = j
      BY <1>3, <1>7, <2>1
    <2> QED BY <1>2, <1>5, <2>1, <2>2
  <1> QED BY <1>4, <1>6, <1>7

LEMMA KeyDownStep ==
    ASSUME KeysTyped, KeysInv, NEW c, NEW w, Event(c, w), KeyDown(c, w)
    PROVE  KeysTyped' /\ KeysInv'
  <1>0. PICK k : k = KeyOf(c, w, TRUE)
    OBVIOUS
  <1>1. /\ k # None /\ Uses(k, w) /\ RememberKey(c, k)
        /\ UNCHANGED <<portal, group, means, ended>>
    BY <1>0 DEF KeyDown
  <1>2. Goes(w, k) /\ k \in Keys /\ c \in Codes \cup {None}
    BY <1>0, <1>1, KeyOfIs DEF Goes, Event
  <1>3. bound' \in [Slots -> Syms \cup {None}] /\ OrderTyped'
    BY <1>1, <1>2, Using
  <1>4. /\ HeldTyped' /\ KeysInv'
        /\ down' \subseteq Keys /\ pinned' \subseteq Slots /\ strays' \subseteq Keys
    BY <1>1, <1>2, Remembering
  <1>5. MeansTyped'
    BY <1>1, <1>3, <1>4 DEF KeysTyped, MeansTyped
  <1> QED BY <1>3, <1>4, <1>5 DEF KeysTyped

LEMMA KeyUpStep ==
    ASSUME KeysTyped, KeysInv, NEW c \in Codes, KeyUpTracked(c)
    PROVE  KeysTyped' /\ KeysInv'
  <1>1. PICK i \in Entry(c) : held' = Without(held, i) /\ LetGo({held[i].key})
    BY DEF KeyUpTracked
  <1>2. i \in 1 .. Len(held)
    <2>1. held \in Seq(Entries)
      BY DEF KeysTyped, HeldTyped
    <2> QED BY <1>1, <2>1 DEF Entry
  <1>3. /\ UNCHANGED <<portal, group, means, order, bound, ended>>
        /\ down' = down \ {held[i].key} /\ pinned' = pinned \ {held[i].key}
        /\ strays' = strays \ {held[i].key}
    BY <1>1 DEF KeyUpTracked, LetGo
  <1>4. /\ HeldTyped' /\ Named(held') \subseteq Named(held)
        /\ Named(held) \subseteq Named(held') \cup {held[i].key}
    BY <1>1, <1>2, Forgetting
  <1>5. KeysInv'
    BY <1>3, <1>4 DEF KeysInv, DownIsTold, StraysApart, DownIsPinned
  <1>6. MeansTyped' /\ OrderTyped'
    BY <1>3 DEF KeysTyped, MeansTyped, OrderTyped
  <1> QED BY <1>4, <1>5, <1>6 DEF KeysTyped

\* A key that no table remembers: it goes down and up, or up only.
LEMMA PassingStep ==
    ASSUME KeysTyped, KeysInv, NEW w, NEW k, Goes(w, k), Uses(k, w), LetGo({k}),
           UNCHANGED <<portal, group, means, held, ended>>
    PROVE  KeysTyped' /\ KeysInv'
  <1>1. bound' \in [Slots -> Syms \cup {None}] /\ OrderTyped'
    BY Using
  <1>2. down' = down \ {k} /\ pinned' = pinned \ {k} /\ strays' = strays \ {k}
    BY DEF LetGo
  <1>3. MeansTyped' /\ HeldTyped'
    BY <1>1, <1>2 DEF KeysTyped, MeansTyped, HeldTyped
  <1>4. KeysInv'
    BY <1>2 DEF KeysInv, DownIsTold, StraysApart, DownIsPinned
  <1> QED BY <1>1, <1>3, <1>4 DEF KeysTyped

\* With all keys of the table let go at once, only lost ones are down.
LEMMA ReleaseStep ==
    ASSUME KeysTyped, KeysInv, ReleaseHeldKeys
    PROVE  /\ down' \subseteq Keys /\ strays' \subseteq Keys /\ pinned' = {}
           /\ HeldTyped' /\ KeysInv'
  <1>1. /\ down' = down \ Named(held) /\ strays' = strays \ Named(held)
        /\ held' = <<>> /\ pinned' = {}
    BY DEF ReleaseHeldKeys
  <1>2. Named(held') = {}
    BY <1>1 DEF Named
  <1>3. HeldTyped'
    BY <1>1, KeysAssumption DEF HeldTyped
  <1>4. KeysInv'
    BY <1>1, <1>2 DEF KeysInv, DownIsTold, StraysApart, DownIsPinned
  <1> QED BY <1>1, <1>3, <1>4 DEF KeysTyped, MeansTyped

LEMMA KeysInitHolds == KeysInit => KeysTyped /\ KeysInv
  <1> SUFFICES ASSUME KeysInit PROVE KeysTyped /\ KeysInv
    OBVIOUS
  <1> USE DEF KeysInit
  <1>1. MeansTyped
    BY DEF MeansTyped
  <1>2. HeldTyped
    BY KeysAssumption DEF HeldTyped
  <1>3. OrderTyped
    <2> DEFINE n == Cardinality(Slots)
    <2>1. n \in Nat /\ ExistsBijection(1 .. n, Slots)
      BY KeysAssumption, FS_CardinalityType
    <2>2. PICK f : f \in Bijection(1 .. n, Slots)
      BY <2>1 DEF ExistsBijection
    <2> HIDE DEF n
    <2>3. f \in [1 .. n -> Slots] /\ \A a, b \in 1 .. n : f[a] = f[b] => a = b
      BY <2>2 DEF Bijection, Injection, IsInjective
    <2>4. f \in Orders
      BY <2>1, <2>3 DEF Orders, n
    <2>5. order \in Orders
      BY <2>4
    <2>6. order \in [1 .. n -> Slots] /\ \A a, b \in DOMAIN order : order[a] = order[b] => a = b
      BY <2>5 DEF Orders, n
    <2>7. order \in Seq(Slots) /\ Len(order) = n
      BY <2>1, <2>6, SeqDef
    <2>8. DOMAIN order = 1 .. n
      BY <2>6
    <2> QED BY <2>6, <2>7, <2>8 DEF OrderTyped, n
  <1>4. KeysInv
    BY DEF KeysInv, DownIsTold, StraysApart, DownIsPinned
  <1> QED BY <1>1, <1>2, <1>3, <1>4 DEF KeysTyped

LEMMA KeysStepHolds ==
    KeysTyped /\ KeysInv /\ [KeysNext]_keyVars => KeysTyped' /\ KeysInv'
  <1> SUFFICES ASSUME KeysTyped, KeysInv, [KeysNext]_keyVars PROVE KeysTyped' /\ KeysInv'
    OBVIOUS
  <1>0. /\ \A c \in Codes : Event(c, means[c])
        /\ \A s \in Syms : Event(None, s)
    BY DEF KeysTyped, MeansTyped, Event
  <1>1. ASSUME NEW c, NEW w, Event(c, w), KeyUpUntracked(c, w)
        PROVE  KeysTyped' /\ KeysInv'
    <2> DEFINE k == KeyOf(c, w, FALSE)
    <2>1. k # None /\ Uses(k, w) /\ LetGo({k}) /\ UNCHANGED <<portal, group, means, held, ended>>
      BY <1>1 DEF KeyUpUntracked
    <2>2. Goes(w, k)
      BY <1>1, <2>1, KeyOfIs
    <2> HIDE DEF k
    <2> QED BY <2>1, <2>2, PassingStep
  <1>2. ASSUME NEW s \in Syms, TypeText(s)
        PROVE  KeysTyped' /\ KeysInv'
    <2> DEFINE k == Resolve(s, TRUE)
    <2>1. k # None /\ Uses(k, s) /\ LetGo({k}) /\ UNCHANGED <<portal, group, means, held, ended>>
      BY <1>2 DEF TypeText
    <2>2. Goes(s, k)
      BY <2>1, ResolveIs
    <2> HIDE DEF k
    <2> QED BY <2>1, <2>2, PassingStep
  <1>3. CASE ExpireHeldKeys
    <2>1. /\ down' \subseteq Keys /\ strays' \subseteq Keys /\ pinned' = {} /\ HeldTyped' /\ KeysInv'
          /\ UNCHANGED <<portal, group, means, order, bound, ended>>
      BY <1>3, ReleaseStep DEF ExpireHeldKeys
    <2>2. MeansTyped' /\ OrderTyped'
      BY <2>1 DEF KeysTyped, MeansTyped, OrderTyped
    <2> QED BY <2>1, <2>2 DEF KeysTyped
  <1>4. CASE SessionEnds
    <2>1. /\ down' \subseteq Keys /\ strays' \subseteq Keys /\ pinned' = {} /\ HeldTyped' /\ KeysInv'
          /\ ended' = TRUE /\ bound' = [x \in Slots |-> None]
          /\ UNCHANGED <<portal, group, means, order>>
      BY <1>4, ReleaseStep DEF SessionEnds
    <2>2. MeansTyped' /\ OrderTyped'
      BY <2>1 DEF KeysTyped, MeansTyped, OrderTyped
    <2> QED BY <2>1, <2>2 DEF KeysTyped
  <1>5. CASE LayoutChanges
    <2>1. UNCHANGED <<portal, order, bound, pinned, held, down, strays, ended>>
      BY <1>5 DEF LayoutChanges
    <2>2. group' \in Layouts /\ means' \in [Codes -> Ways]
      <3>1. CASE group' \in Layouts \ {group} /\ UNCHANGED means
        BY <3>1 DEF KeysTyped, MeansTyped
      <3>2. CASE \E c \in Codes, w \in Ways : means' = [means EXCEPT ![c] = w] /\ UNCHANGED group
        BY <3>2 DEF KeysTyped, MeansTyped
      <3> QED BY <1>5, <3>1, <3>2 DEF LayoutChanges
    <2> QED BY <2>1, <2>2 DEF KeysTyped, MeansTyped, HeldTyped, OrderTyped,
                              KeysInv, DownIsTold, StraysApart, DownIsPinned
  <1>6. CASE UNCHANGED keyVars
    BY <1>6 DEF keyVars, KeysTyped, MeansTyped, HeldTyped, OrderTyped,
                KeysInv, DownIsTold, StraysApart, DownIsPinned
  <1>7. ASSUME NEW c \in Codes, KeyEvent(c)
        PROVE  KeysTyped' /\ KeysInv'
    BY <1>0, <1>1, <1>7, KeyDownStep, KeyUpStep DEF KeyEvent
  <1>8. ASSUME NEW s \in Syms, Uncoded(s)
        PROVE  KeysTyped' /\ KeysInv'
    BY <1>0, <1>1, <1>8, KeyDownStep DEF Uncoded
  <1> QED BY <1>2, <1>3, <1>4, <1>5, <1>6, <1>7, <1>8 DEF KeysNext

LEMMA KeysInvariance == KeysSpec => [](KeysTyped /\ KeysInv)
  BY KeysInitHolds, KeysStepHolds, PTL DEF KeysSpec

\* What HeldKeys says of its variables holds in every state: no code is in
\* the table twice, and the pool has every scratch keycode once.
THEOREM KeyTypesHold == KeysSpec => []KeysTypeOK
  <1>1. KeysTyped => KeysTypeOK
    <2> SUFFICES ASSUME KeysTyped PROVE KeysTypeOK
      OBVIOUS
    <2>1. order \in Orders
      <3>1. order \in [1 .. Len(order) -> Slots] /\ DOMAIN order = 1 .. Len(order)
        BY DEF KeysTyped, OrderTyped
      <3> QED BY <3>1 DEF KeysTyped, OrderTyped, Orders
    <2>2. DOMAIN held = 1 .. Len(held)
      BY DEF KeysTyped, HeldTyped
    <2> QED BY <2>1, <2>2 DEF KeysTyped, MeansTyped, HeldTyped, Entries, KeysTypeOK
  <1> QED BY <1>1, KeysInvariance, PTL

\* Whatever becomes of the layouts while a key is held, every key the host
\* holds down is one that the table would let go, or one RememberKey has
\* lost, and a scratch keycode that is down and not lost is pinned, which
\* keeps it from being bound to another symbol (input.c), for any number of
\* keys, symbols, scratch keycodes and places in the table.
THEOREM KeysAreLetGo == KeysSpec => []EndsClean
  <1>1. KeysInv => EndsClean
    BY DEF KeysInv, DownIsTold, DownIsPinned, EndsClean
  <1> QED BY <1>1, KeysInvariance, PTL

-----------------------------------------------------------------------------
(* The modes of the monitors.                                                *)

HostStates == [mode    : [1 .. Monitors -> Modes],
               list    : Seq(1 .. Monitors),
               changed : BOOLEAN,
               origin  : [monitor : 1 .. Monitors, mode : Modes],
               id      : Ids,
               astray  : SUBSET (1 .. Monitors)]

\* The type invariant, with the host as one record.
ModesTyped ==
    /\ system \in {"x11", "macos", "windows", "wayland"}
    /\ plugged \in Seq(1 .. Monitors) /\ host \in HostStates /\ selected \in Ids
    /\ resize \in {"scale", "display"} /\ moved \in BOOLEAN
    /\ capturing \in BOOLEAN /\ closed \in BOOLEAN
    /\ status \in {"ready", "streaming", "error"}

\* Every monitor of the list has its own number for a place.
InPlace(s) == \A i \in 1 .. Len(s) : s[i] = i

\* One monitor may be in another mode than its own, and that is the one the
\* session has changed: its mode was remembered, and its id is the selected
\* one. A list that is out of date only has more of the same monitors.
GoesBack(h) ==
    /\ InPlace(h.list) /\ Len(plugged) <= Len(h.list)
    /\ \A m \in 1 .. Monitors : m > Len(plugged) => h.mode[m] = Native
    /\ \A m \in 1 .. Monitors : h.mode[m] # Native => h.changed /\ h.origin.monitor = m
    /\ h.changed => h.origin.mode = Native /\ h.id = h.origin.monitor
    /\ h.astray = {}

\* In general: a monitor in another mode than its own is the one to go back,
\* and goes back to its own, or it is astray.
Covered(h) ==
    /\ \A m \in 1 .. Monitors : h.mode[m] # Native =>
           Here(m) /\ ((h.changed /\ h.origin.monitor = m) \/ m \in h.astray)
    /\ h.changed => h.origin.mode = Native \/ h.origin.monitor \in h.astray

ModesInv == InPlace(plugged) /\ GoesBack(host) /\ (host.changed => selected = host.id)

-----------------------------------------------------------------------------

LEMMA ListTyped ==
    ASSUME ModesTyped, NEW h \in HostStates, NEW id \in Ids, id # All, id \in DOMAIN h.list
    PROVE  h.list[id] \in 1 .. Monitors /\ id \in 1 .. Len(h.list)
  <1>1. h.list \in Seq(1 .. Monitors)
    BY DEF HostStates
  <1>2. DOMAIN h.list = 1 .. Len(h.list)
    BY <1>1
  <1> QED BY <1>1, <1>2, ElementOfSeq

LEMMA RemembersTyped ==
    ASSUME ModesTyped, NEW h \in HostStates, NEW id \in Ids, Settable(h, id)
    PROVE  /\ Remembers(h, id) \in HostStates
           /\ Remembers(h, id).mode = h.mode /\ Remembers(h, id).list = h.list
           /\ Remembers(h, id).changed = h.changed /\ Remembers(h, id).astray = h.astray
           /\ h.changed => Remembers(h, id) = h
           /\ ~h.changed => /\ Remembers(h, id).id = id
                            /\ Remembers(h, id).origin = [monitor |-> h.list[id], mode |-> h.mode[h.list[id]]]
  <1>1. h.list[id] \in 1 .. Monitors
    BY ListTyped DEF Settable
  <1>2. h.mode[h.list[id]] \in Modes
    BY <1>1 DEF HostStates
  <1> QED BY <1>1, <1>2 DEF Remembers, HostStates

LEMMA SettingIs ==
    ASSUME ModesTyped, NEW h \in HostStates, NEW id \in Ids, Settable(h, id), NEW m \in Modes
    PROVE  /\ SetResolution(h, id, m) \in HostStates
           /\ SetResolution(h, id, m).changed /\ SetResolution(h, id, m).list = plugged
           /\ SetResolution(h, id, m).mode = [h.mode EXCEPT ![h.list[id]] = m]
           /\ SetResolution(h, id, m).origin = Remembers(h, id).origin
           /\ SetResolution(h, id, m).id = Remembers(h, id).id
           /\ SetResolution(h, id, m).astray =
                IF Remembers(h, id).origin.monitor = h.list[id] THEN h.astray
                ELSE h.astray \cup {h.list[id]}
  <1>1. h.list[id] \in 1 .. Monitors
    BY ListTyped DEF Settable
  <1> DEFINE r == Remembers(h, id)
  <1>2. r \in HostStates /\ r.mode = h.mode /\ r.list = h.list /\ r.astray = h.astray
    BY RemembersTyped
  <1> DEFINE gone == IF r.origin.monitor = h.list[id] THEN h.astray ELSE h.astray \cup {h.list[id]}
             f == [h.mode EXCEPT ![h.list[id]] = m]
  <1>3. SetResolution(h, id, m) =
          [[r EXCEPT !.mode[h.list[id]] = m, !.changed = TRUE, !.astray = gone] EXCEPT !.list = plugged]
    BY <1>2 DEF SetResolution, Refresh
  <1> HIDE DEF r
  <1>4. f \in [1 .. Monitors -> Modes] /\ gone \subseteq 1 .. Monitors
    BY <1>1 DEF HostStates
  <1> HIDE DEF gone
  <1>5. SetResolution(h, id, m) = [r EXCEPT !.mode = f, !.changed = TRUE, !.astray = gone, !.list = plugged]
    BY <1>2, <1>3 DEF HostStates
  <1> HIDE DEF f
  <1>6. /\ SetResolution(h, id, m) \in HostStates
        /\ SetResolution(h, id, m).changed /\ SetResolution(h, id, m).list = plugged
        /\ SetResolution(h, id, m).mode = f /\ SetResolution(h, id, m).astray = gone
        /\ SetResolution(h, id, m).origin = r.origin /\ SetResolution(h, id, m).id = r.id
    BY <1>2, <1>4, <1>5 DEF HostStates, ModesTyped
  <1> QED BY <1>6 DEF f, gone, r

LEMMA RejectedIs ==
    ASSUME ModesTyped, NEW h \in HostStates, NEW id \in Ids, Settable(h, id)
    PROVE  /\ Rejected(h, id) \in HostStates
           /\ Rejected(h, id).mode = h.mode /\ Rejected(h, id).list = h.list
           /\ Rejected(h, id).changed = h.changed /\ Rejected(h, id).astray = h.astray
           /\ h.changed => Rejected(h, id) = h
  BY RemembersTyped DEF Rejected

LEMMA RestoredIs ==
    ASSUME ModesTyped, NEW h \in HostStates
    PROVE  /\ Restore(h) \in HostStates /\ ~Restore(h).changed
           /\ Restore(h).astray = h.astray
           /\ ~h.changed => Restore(h) = h
           /\ h.changed => /\ Restore(h).list = plugged
                           /\ Restore(h).mode =
                                [h.mode EXCEPT ![h.origin.monitor] = IF Here(h.origin.monitor)
                                                                     THEN h.origin.mode ELSE @]
  <1>1. h.origin.monitor \in 1 .. Monitors /\ h.origin.mode \in Modes /\ h.mode[h.origin.monitor] \in Modes
    BY DEF HostStates
  <1>2. Here(h.origin.monitor) \in BOOLEAN
    BY DEF Here
  <1>3. CASE h.changed
    <2> DEFINE f == [h.mode EXCEPT ![h.origin.monitor] = IF Here(h.origin.monitor)
                                                         THEN h.origin.mode ELSE @]
    <2>1. Restore(h) = [h EXCEPT !.mode = f, !.changed = FALSE, !.list = plugged]
      BY <1>3 DEF Restore, Refresh, HostStates
    <2>2. f \in [1 .. Monitors -> Modes]
      BY <1>1 DEF HostStates
    <2> HIDE DEF f
    <2>3. Restore(h) \in HostStates /\ Restore(h).mode = f /\ Restore(h).list = plugged
          /\ Restore(h).changed = FALSE /\ Restore(h).astray = h.astray
      BY <2>1, <2>2 DEF HostStates, ModesTyped
    <2> QED BY <1>3, <2>3 DEF f
  <1>4. CASE ~h.changed
    BY <1>4 DEF Restore
  <1> QED BY <1>3, <1>4

LEMMA ChangesTyped ==
    ASSUME ModesTyped, NEW h \in HostStates, NEW id \in Ids, NEW c \in Changes(h, id)
    PROVE  c.after \in HostStates /\ c.ok \in BOOLEAN
  <1>1. CASE ~Settable(h, id)
    <2>1. c = [after |-> h, ok |-> FALSE]
      BY <1>1 DEF Changes
    <2> QED BY <2>1
  <1>2. CASE Settable(h, id)
    <2>1. CASE \E m \in Modes : c = [after |-> SetResolution(h, id, m), ok |-> TRUE]
      <3>1. PICK m \in Modes : c = [after |-> SetResolution(h, id, m), ok |-> TRUE]
        BY <2>1
      <3>2. SetResolution(h, id, m) \in HostStates
        BY <1>2, SettingIs
      <3> QED BY <3>1, <3>2
    <2>2. CASE c = [after |-> Rejected(h, id), ok |-> FALSE]
      BY <1>2, <2>2, RejectedIs
    <2> QED BY <1>2, <2>1, <2>2 DEF Changes
  <1> QED BY <1>1, <1>2

\* What the next states have in common.
LEMMA SelectMonitorIs ==
    ASSUME ModesTyped, NEW id \in Ids, NEW how \in {"scale", "display"}, SelectMonitor(id, how)
    PROVE  /\ UNCHANGED <<system, plugged, closed, moved>>
           /\ \/ ~Find(host, id) /\ status' = "error" /\ resize' = how
                 /\ UNCHANGED <<host, selected, capturing>>
              \/ \E before \in {host, Restore(host)} :
                    /\ how # "display" => before = Restore(host)
                    /\ how = "display" /\ host.id # id => before = Restore(host)
                    /\ before = host => Find(before, id)
                    /\ \/ how = "display" /\ \E c \in Changes(before, id) :
                              /\ host' = c.after /\ resize' \in {"display", "scale"}
                              /\ Captured(c.after, id)
                       \/ how # "display" /\ host' = before /\ resize' = how /\ Captured(before, id)
  <1> USE DEF SelectMonitor
  <1>1. UNCHANGED <<system, plugged, closed, moved>>
    OBVIOUS
  <1>2. CASE ~Find(host, id)
    BY <1>1, <1>2
  <1>3. CASE Find(host, id)
    <2> DEFINE before == IF how # "display" \/ host.id # id THEN Restore(host) ELSE host
    <2>1. before \in {host, Restore(host)} /\ (how # "display" => before = Restore(host))
          /\ (how = "display" /\ host.id # id => before = Restore(host))
          /\ (before = host => Find(before, id))
      BY <1>3
    <2>2. CASE how = "display"
      <3>1. PICK c \in Changes(before, id) :
              /\ host' = c.after /\ resize' = (IF c.ok THEN "display" ELSE "scale")
              /\ Captured(c.after, id)
        BY <1>3, <2>2
      <3>2. resize' \in {"display", "scale"}
        BY <3>1
      <3> HIDE DEF before
      <3> QED BY <1>1, <2>1, <2>2, <3>1, <3>2
    <2>3. CASE how # "display"
      <3>1. host' = before /\ resize' = how /\ Captured(before, id)
        BY <1>3, <2>3
      <3> HIDE DEF before
      <3> QED BY <1>1, <2>1, <2>3, <3>1
    <2> QED BY <2>2, <2>3
  <1> QED BY <1>2, <1>3

LEMMA CapturedTyped ==
    ASSUME ModesTyped, NEW h, NEW id \in Ids, Captured(h, id)
    PROVE  selected' \in Ids /\ capturing' \in BOOLEAN /\ status' \in {"streaming", "error"}
  BY DEF ModesTyped, Captured

\* Every other monitor than the one at place i.
LEMMA UnpluggedTyped ==
    ASSUME ModesTyped, NEW i \in DOMAIN plugged
    PROVE  /\ SubSeq(plugged, 1, i - 1) \o SubSeq(plugged, i + 1, Len(plugged)) \in Seq(1 .. Monitors)
           /\ plugged[i] \in 1 .. Monitors
           /\ i = Len(plugged) =>
                LET rest == SubSeq(plugged, 1, i - 1) \o SubSeq(plugged, i + 1, Len(plugged))
                IN  Len(rest) = i - 1 /\ \A j \in 1 .. i - 1 : rest[j] = plugged[j]
  <1>1. plugged \in Seq(1 .. Monitors) /\ Len(plugged) \in Nat /\ i \in 1 .. Len(plugged)
    BY DEF ModesTyped
  <1> DEFINE rest == SubSeq(plugged, 1, i - 1) \o SubSeq(plugged, i + 1, Len(plugged))
  <1>2. rest \in Seq(1 .. Monitors) /\ Len(rest) = Len(plugged) - 1
        /\ \A j \in 1 .. Len(plugged) - 1 : rest[j] = plugged[IF j < i THEN j ELSE j + 1]
    BY <1>1, Removing
  <1> HIDE DEF rest
  <1>3. plugged[i] \in 1 .. Monitors
    BY <1>1, ElementOfSeq
  <1>4. i = Len(plugged) => \A j \in 1 .. i - 1 : rest[j] = plugged[j]
    BY <1>1, <1>2
  <1> QED BY <1>1, <1>2, <1>3, <1>4 DEF rest

LEMMA ModesInitTyped == ModesInit => ModesTyped
  <1> SUFFICES ASSUME ModesInit PROVE ModesTyped
    OBVIOUS
  <1> USE DEF ModesInit
  <1>1. plugged \in Seq(1 .. Monitors)
    BY ModesAssumption, SeqDef
  <1>2. host \in HostStates
    <2>1. 1 \in 1 .. Monitors /\ All \in Ids
      BY ModesAssumption DEF All, Ids
    <2> QED BY <1>1, <2>1, ModesAssumption DEF HostStates
  <1>3. selected \in Ids
    BY ModesAssumption DEF All, Ids
  <1> QED BY <1>1, <1>2, <1>3 DEF ModesTyped

LEMMA ModesStepTyped == ModesTyped /\ [ModesNext]_modeVars => ModesTyped'
  <1> SUFFICES ASSUME ModesTyped, [ModesNext]_modeVars PROVE ModesTyped'
    OBVIOUS
  <1>0. host \in HostStates /\ Restore(host) \in HostStates
    BY RestoredIs DEF ModesTyped
  <1>1. ASSUME NEW id \in Ids, NEW how \in {"scale", "display"}, SelectMonitor(id, how)
        PROVE  ModesTyped'
    <2>1. UNCHANGED <<system, plugged, closed, moved>>
      BY <1>1, SelectMonitorIs
    <2>2. CASE status' = "error" /\ resize' = how /\ UNCHANGED <<host, selected, capturing>>
      BY <2>1, <2>2 DEF ModesTyped
    <2>3. ASSUME NEW h \in HostStates, NEW r \in {"display", "scale"},
                 host' = h, resize' = r, Captured(h, id)
          PROVE  ModesTyped'
      BY <2>1, <2>3, CapturedTyped DEF ModesTyped
    <2>4. ASSUME NEW before \in {host, Restore(host)},
                 \/ how = "display" /\ \E c \in Changes(before, id) :
                        /\ host' = c.after /\ resize' \in {"display", "scale"}
                        /\ Captured(c.after, id)
                 \/ how # "display" /\ host' = before /\ resize' = how /\ Captured(before, id)
          PROVE  ModesTyped'
      <3>1. before \in HostStates
        BY <1>0
      <3>2. \A c \in Changes(before, id) : c.after \in HostStates
        BY <3>1, ChangesTyped
      <3> QED BY <2>3, <2>4, <3>1, <3>2
    <2> QED BY <1>1, <2>2, <2>4, SelectMonitorIs
  <1>2. ASSUME NEW how \in {"scale", "display"}, SetsResolution(how)
        PROVE  ModesTyped'
    <2>1. host' \in HostStates /\ resize' \in {"scale", "display"}
      <3>1. CASE capturing /\ how = "display"
        <4>1. PICK c \in Changes(host, selected) :
                host' = c.after /\ resize' = (IF c.ok \/ c.after.changed THEN "display" ELSE "scale")
          BY <1>2, <3>1 DEF SetsResolution
        <4>2. c.after \in HostStates
          BY <1>0, ChangesTyped DEF ModesTyped
        <4> QED BY <4>1, <4>2
      <3>2. CASE ~(capturing /\ how = "display")
        BY <1>0, <1>2, <3>2 DEF SetsResolution
      <3> QED BY <3>1, <3>2
    <2>2. status' \in {"streaming", "ready"} /\ UNCHANGED <<system, plugged, selected, capturing, closed, moved>>
      BY <1>2 DEF SetsResolution
    <2> QED BY <2>1, <2>2 DEF ModesTyped
  <1>3. CASE Close
    BY <1>0, <1>3 DEF Close, ModesTyped
  <1>4. ASSUME NEW i \in 1 .. Monitors, Unplug(i)
        PROVE  ModesTyped'
    <2>1. plugged' \in Seq(1 .. Monitors) /\ plugged[i] \in 1 .. Monitors
      BY <1>4, UnpluggedTyped DEF Unplug
    <2>2. host' = [host EXCEPT !.mode[plugged[i]] = Native]
          /\ moved' = (moved \/ i < Len(plugged))
          /\ UNCHANGED <<system, resize, selected, capturing, closed, status>>
      BY <1>4 DEF Unplug
    <2>3. host' \in HostStates
      BY <1>0, <2>1, <2>2, ModesAssumption DEF HostStates
    <2>4. moved' \in BOOLEAN
      BY <2>2
    <2> QED BY <2>1, <2>2, <2>3, <2>4 DEF ModesTyped
  <1>5. CASE UNCHANGED modeVars
    BY <1>5 DEF modeVars, ModesTyped
  <1> QED BY <1>1, <1>2, <1>3, <1>4, <1>5 DEF ModesNext

LEMMA ModesTypedAlways == ModesSpec => []ModesTyped
  BY ModesInitTyped, ModesStepTyped, PTL DEF ModesSpec

-----------------------------------------------------------------------------
(* The modes go back, where no monitor moves up in the list.               *)

LEMMA HereIs ==
    ASSUME ModesTyped, InPlace(plugged), NEW m \in 1 .. Monitors
    PROVE  Here(m) <=> m <= Len(plugged)
  <1>1. DOMAIN plugged = 1 .. Len(plugged) /\ Len(plugged) \in Nat
    BY DEF ModesTyped
  <1> QED BY <1>1 DEF Here, InPlace

LEMMA RestoreGoesBack ==
    ASSUME ModesTyped, InPlace(plugged), NEW h \in HostStates, GoesBack(h)
    PROVE  GoesBack(Restore(h))
  <1>1. CASE ~h.changed
    BY <1>1, RestoredIs
  <1>2. CASE h.changed
    <2> DEFINE k == h.origin.monitor
    <2>1. k \in 1 .. Monitors /\ DOMAIN h.mode = 1 .. Monitors
      BY DEF HostStates
    <2>2. /\ Restore(h).list = plugged /\ ~Restore(h).changed /\ Restore(h).astray = {}
          /\ Restore(h).mode = [h.mode EXCEPT ![k] = IF Here(k) THEN h.origin.mode ELSE @]
      BY <1>2, RestoredIs DEF GoesBack
    <2>3. h.origin.mode = Native /\ (k > Len(plugged) => h.mode[k] = Native)
      BY <1>2, <2>1 DEF GoesBack
    <2>4. Restore(h).mode[k] = Native
      <3>1. CASE Here(k)
        BY <2>1, <2>2, <2>3, <3>1
      <3>2. CASE ~Here(k)
        <4>1. k > Len(plugged)
          <5>1. Len(plugged) \in Nat
            BY DEF ModesTyped
          <5> QED BY <2>1, <3>2, <5>1, HereIs
        <4> QED BY <2>1, <2>2, <2>3, <3>2, <4>1
      <3> QED BY <3>1, <3>2
    <2>5. \A m \in 1 .. Monitors : Restore(h).mode[m] = Native
      BY <2>1, <2>2, <2>4 DEF GoesBack
    <2>6. Len(plugged) <= Len(plugged)
      BY DEF ModesTyped
    <2> QED BY <2>2, <2>5, <2>6 DEF GoesBack
  <1> QED BY <1>1, <1>2

LEMMA ChangeGoesBack ==
    ASSUME ModesTyped, InPlace(plugged), NEW h \in HostStates, GoesBack(h),
           NEW id \in Ids, h.changed => h.id = id, NEW c \in Changes(h, id)
    PROVE  /\ GoesBack(c.after)
           /\ c.after.changed => (c.after.id = id /\ Find(c.after, id)) \/ c.after = h
  <1>1. CASE ~Settable(h, id)
    BY <1>1 DEF Changes
  <1>2. CASE Settable(h, id)
    <2>0. Len(plugged) \in Nat /\ Len(plugged) <= Len(plugged) /\ DOMAIN plugged = 1 .. Len(plugged)
      BY DEF ModesTyped
    <2>1. id \in 1 .. Len(h.list) /\ h.list[id] \in 1 .. Monitors /\ Here(h.list[id])
      BY <1>2, ListTyped DEF Settable
    <2>2. h.list[id] = id
      BY <2>1 DEF GoesBack, InPlace
    <2>3. id \in 1 .. Monitors /\ id <= Len(plugged) /\ id \in DOMAIN plugged
      <3>1. id \in 1 .. Monitors /\ Here(id)
        BY <2>1, <2>2
      <3>2. id <= Len(plugged)
        BY <3>1, HereIs
      <3> QED BY <2>0, <3>1, <3>2
    <2>4. ASSUME NEW m \in Modes, c = [after |-> SetResolution(h, id, m), ok |-> TRUE]
          PROVE  GoesBack(c.after) /\ c.after.id = id /\ Find(c.after, id)
      <3> DEFINE new == c.after
      <3>1. /\ new.changed /\ new.list = plugged /\ new.mode = [h.mode EXCEPT ![id] = m]
            /\ new.origin = Remembers(h, id).origin /\ new.id = Remembers(h, id).id
            /\ new.astray = IF new.origin.monitor = id THEN h.astray ELSE h.astray \cup {id}
        BY <1>2, <2>2, <2>4, SettingIs
      <3>2. DOMAIN h.mode = 1 .. Monitors
        BY DEF HostStates
      <3>3. /\ new.origin.monitor = id /\ new.origin.mode = Native /\ new.id = id
            /\ \A k \in 1 .. Monitors : k # id => h.mode[k] = Native
        <4>1. CASE h.changed
          <5>1. Remembers(h, id) = h
            BY <1>2, <4>1, RemembersTyped
          <5> QED BY <3>1, <4>1, <5>1 DEF GoesBack
        <4>2. CASE ~h.changed
          <5>1. Remembers(h, id).id = id /\ Remembers(h, id).origin = [monitor |-> id, mode |-> h.mode[id]]
            BY <1>2, <2>2, <4>2, RemembersTyped
          <5>2. \A k \in 1 .. Monitors : h.mode[k] = Native
            BY <4>2 DEF GoesBack
          <5> QED BY <2>3, <3>1, <5>1, <5>2
        <4> QED BY <4>1, <4>2
      <3>40. new.astray = {}
        BY <3>1, <3>3 DEF GoesBack
      <3>4. \A k \in 1 .. Monitors : k # id => new.mode[k] = Native
        BY <3>1, <3>2, <3>3
      <3>5. \A k \in 1 .. Monitors : k > Len(plugged) => k # id
        BY <2>0, <2>3
      <3>6. Find(new, id)
        BY <2>3, <3>1 DEF Find
      <3> HIDE DEF new
      <3>7. GoesBack(new)
        BY <2>0, <3>1, <3>3, <3>4, <3>40, <3>5 DEF GoesBack
      <3> QED BY <3>3, <3>6, <3>7 DEF new
    <2>5. CASE c = [after |-> Rejected(h, id), ok |-> FALSE]
      <3> DEFINE new == c.after
      <3>1. /\ new.mode = h.mode /\ new.list = h.list /\ new.changed = h.changed /\ new.astray = h.astray
            /\ h.changed => new = h
        BY <1>2, <2>5, RejectedIs
      <3> HIDE DEF new
      <3>2. CASE h.changed
        BY <3>1, <3>2 DEF new
      <3>3. CASE ~h.changed
        <4>1. \A k \in 1 .. Monitors : h.mode[k] = Native
          BY <3>3 DEF GoesBack
        <4>2. GoesBack(new)
          BY <3>1, <3>3, <4>1 DEF GoesBack
        <4> QED BY <3>1, <3>3, <4>2 DEF new
      <3> QED BY <3>2, <3>3
    <2> QED BY <1>2, <2>4, <2>5 DEF Changes
  <1> QED BY <1>1, <1>2

LEMMA ModesInitHolds == ModesInit => ModesInv
  <1> SUFFICES ASSUME ModesInit PROVE ModesInv
    OBVIOUS
  <1> USE DEF ModesInit
  <1>1. plugged \in Seq(1 .. Monitors) /\ Len(plugged) = Monitors
    BY ModesAssumption, SeqDef
  <1>2. InPlace(plugged)
    BY <1>1 DEF InPlace
  <1>3. Len(plugged) <= Len(plugged)
    BY <1>1, ModesAssumption
  <1> QED BY <1>2, <1>3 DEF ModesInv, GoesBack

LEMMA ModesStepHolds ==
    ModesTyped /\ ModesInv /\ [ModesNext]_modeVars /\ ~moved' => ModesInv'
  <1> SUFFICES ASSUME ModesTyped, ModesInv, [ModesNext]_modeVars, ~moved' PROVE ModesInv'
    OBVIOUS
  <1> USE DEF ModesInv
  <1>0. /\ host \in HostStates /\ Restore(host) \in HostStates
        /\ GoesBack(host) /\ GoesBack(Restore(host)) /\ ~Restore(host).changed
    BY RestoredIs, RestoreGoesBack DEF ModesTyped
  <1>00. ASSUME UNCHANGED plugged, NEW h, GoesBack(h), host' = h
         PROVE  InPlace(plugged)' /\ GoesBack(host)'
    BY <1>00 DEF InPlace, GoesBack
  <1>1. ASSUME NEW id \in Ids, NEW how \in {"scale", "display"}, SelectMonitor(id, how)
        PROVE  ModesInv'
    <2>1. UNCHANGED <<system, plugged, closed, moved>>
      BY <1>1, SelectMonitorIs
    <2>2. CASE UNCHANGED <<host, selected>>
      BY <1>0, <1>00, <2>1, <2>2
    <2>3. ASSUME NEW before \in {host, Restore(host)},
                 how # "display" => before = Restore(host),
                 how = "display" /\ host.id # id => before = Restore(host),
                 before = host => Find(before, id),
                 \/ how = "display" /\ \E c \in Changes(before, id) :
                        /\ host' = c.after /\ resize' \in {"display", "scale"}
                        /\ Captured(c.after, id)
                 \/ how # "display" /\ host' = before /\ resize' = how /\ Captured(before, id)
          PROVE  ModesInv'
      <3>1. before \in HostStates /\ GoesBack(before) /\ (before.changed => before.id = id)
            /\ (before.changed => before = host)
        BY <1>0, <2>3
      <3>2. CASE how = "display"
        <4>1. PICK c \in Changes(before, id) : host' = c.after /\ Captured(c.after, id)
          BY <2>3, <3>2
        <4>2. /\ GoesBack(c.after)
              /\ c.after.changed => (c.after.id = id /\ Find(c.after, id)) \/ c.after = before
          BY <3>1, ChangeGoesBack
        <4>3. c.after.changed => c.after.id = id /\ Find(c.after, id)
          BY <2>3, <3>1, <4>2
        <4>4. c.after.changed => selected' = c.after.id
          BY <4>1, <4>3 DEF Captured
        <4> QED BY <1>00, <2>1, <4>1, <4>2, <4>4
      <3>3. CASE how # "display"
        BY <1>0, <1>00, <2>1, <2>3, <3>3
      <3> QED BY <3>2, <3>3
    <2> QED BY <1>1, <2>2, <2>3, SelectMonitorIs
  <1>2. ASSUME NEW how \in {"scale", "display"}, SetsResolution(how)
        PROVE  ModesInv'
    <2>1. UNCHANGED <<plugged, selected>> /\ selected \in Ids
      BY <1>2 DEF SetsResolution, ModesTyped
    <2>2. CASE capturing /\ how = "display"
      <3>1. PICK c \in Changes(host, selected) : host' = c.after
        BY <1>2, <2>2 DEF SetsResolution
      <3>2. /\ GoesBack(c.after)
            /\ c.after.changed => c.after.id = selected \/ c.after = host
        BY <1>0, <2>1, ChangeGoesBack
      <3> QED BY <1>00, <2>1, <3>1, <3>2
    <2>3. CASE ~(capturing /\ how = "display")
      <3>1. host' \in {host, Restore(host)}
        BY <1>2, <2>3 DEF SetsResolution
      <3> QED BY <1>0, <1>00, <2>1, <3>1
    <2> QED BY <2>2, <2>3
  <1>3. CASE Close
    <2>1. host' = Restore(host) /\ UNCHANGED <<plugged, selected>>
      BY <1>3 DEF Close
    <2> QED BY <1>0, <1>00, <2>1
  <1>4. ASSUME NEW i \in 1 .. Monitors, Unplug(i)
        PROVE  ModesInv'
    <2> DEFINE n == Len(plugged)
    <2>1. /\ i \in DOMAIN plugged /\ i = n /\ n > 1 /\ UNCHANGED selected
          /\ plugged' = SubSeq(plugged, 1, i - 1) \o SubSeq(plugged, i + 1, Len(plugged))
          /\ host' = [host EXCEPT !.mode[plugged[i]] = Native]
      <3>1. i \in DOMAIN plugged /\ ~ (i < n) /\ n > 1
        BY <1>4 DEF Unplug
      <3>2. i = n
        BY <3>1 DEF ModesTyped
      <3> QED BY <1>4, <3>1, <3>2 DEF Unplug
    <2>2. Len(plugged') = n - 1 /\ n \in Nat /\ \A j \in 1 .. n - 1 : plugged'[j] = plugged[j]
      <3>1. n \in Nat
        BY DEF ModesTyped
      <3> QED BY <2>1, <3>1, UnpluggedTyped
    <2>3. plugged[i] = i /\ \A j \in 1 .. n - 1 : plugged[j] = j
      BY <2>1, <2>2 DEF InPlace
    <2>4. InPlace(plugged)'
      BY <2>2, <2>3 DEF InPlace
    <2>5. /\ host'.list = host.list /\ host'.changed = host.changed /\ host'.origin = host.origin
          /\ host'.id = host.id /\ host'.astray = host.astray /\ host'.mode = [host.mode EXCEPT ![i] = Native]
          /\ DOMAIN host.mode = 1 .. Monitors
      BY <1>0, <2>1, <2>3 DEF HostStates
    <2>6. \A m \in 1 .. Monitors : host'.mode[m] = (IF m = i THEN Native ELSE host.mode[m])
      BY <2>5
    <2>7. Len(host.list) \in Nat /\ n <= Len(host.list)
      BY <1>0 DEF HostStates, GoesBack
    <2>8. n - 1 <= Len(host.list) /\ \A m \in 1 .. Monitors : m > n - 1 => m = i \/ m > n
      BY <2>1, <2>2, <2>7
    <2>9. GoesBack(host)'
      BY <1>0, <2>2, <2>5, <2>6, <2>8 DEF GoesBack, InPlace
    <2> QED BY <2>1, <2>4, <2>5, <2>9
  <1>5. CASE UNCHANGED modeVars
    BY <1>0, <1>00, <1>5 DEF modeVars
  <1> QED BY <1>1, <1>2, <1>3, <1>4, <1>5 DEF ModesNext

-----------------------------------------------------------------------------
(* In general.                                                             *)

LEMMA RestoreCovers ==
    ASSUME ModesTyped, NEW h \in HostStates, Covered(h)
    PROVE  Covered(Restore(h))
  <1>1. CASE ~h.changed
    BY <1>1, RestoredIs
  <1>2. CASE h.changed
    <2> DEFINE k == h.origin.monitor
    <2>1. k \in 1 .. Monitors /\ DOMAIN h.mode = 1 .. Monitors
      BY DEF HostStates
    <2>2. /\ ~Restore(h).changed /\ Restore(h).astray = h.astray
          /\ Restore(h).mode = [h.mode EXCEPT ![k] = IF Here(k) THEN h.origin.mode ELSE @]
      BY <1>2, RestoredIs
    <2>3. ASSUME NEW m \in 1 .. Monitors, Restore(h).mode[m] # Native
          PROVE  Here(m) /\ m \in h.astray
      <3>1. CASE m # k
        <4>1. h.mode[m] # Native
          BY <2>1, <2>2, <2>3, <3>1
        <4> QED BY <3>1, <4>1 DEF Covered
      <3>2. CASE m = k /\ Here(k)
        <4>1. h.origin.mode # Native
          BY <2>1, <2>2, <2>3, <3>2
        <4> QED BY <1>2, <3>2, <4>1 DEF Covered
      <3>3. CASE m = k /\ ~Here(k)
        <4>1. h.mode[k] # Native
          BY <2>1, <2>2, <2>3, <3>3
        <4> QED BY <2>1, <3>3, <4>1 DEF Covered
      <3> QED BY <3>1, <3>2, <3>3
    <2> QED BY <2>2, <2>3 DEF Covered
  <1> QED BY <1>1, <1>2

LEMMA ChangeCovers ==
    ASSUME ModesTyped, NEW h \in HostStates, Covered(h), NEW id \in Ids, NEW c \in Changes(h, id)
    PROVE  Covered(c.after)
  <1>1. CASE ~Settable(h, id)
    BY <1>1 DEF Changes
  <1>2. CASE Settable(h, id)
    <2> DEFINE k == h.list[id]
    <2>1. k \in 1 .. Monitors /\ Here(k) /\ DOMAIN h.mode = 1 .. Monitors
      BY <1>2, ListTyped DEF Settable, HostStates
    <2> HIDE DEF k
    <2>2. ASSUME NEW mode \in Modes, c = [after |-> SetResolution(h, id, mode), ok |-> TRUE]
          PROVE  Covered(c.after)
      <3> DEFINE new == c.after
      <3>1. /\ new.changed /\ new.mode = [h.mode EXCEPT ![k] = mode]
            /\ new.origin = Remembers(h, id).origin
            /\ new.astray = IF new.origin.monitor = k THEN h.astray ELSE h.astray \cup {k}
        <4>1. /\ SetResolution(h, id, mode).changed
              /\ SetResolution(h, id, mode).mode = [h.mode EXCEPT ![h.list[id]] = mode]
              /\ SetResolution(h, id, mode).origin = Remembers(h, id).origin
              /\ SetResolution(h, id, mode).astray =
                   IF Remembers(h, id).origin.monitor = h.list[id] THEN h.astray
                   ELSE h.astray \cup {h.list[id]}
          BY <1>2, SettingIs
        <4>2. new = SetResolution(h, id, mode)
          BY <2>2
        <4> HIDE DEF new
        <4> QED BY <4>1, <4>2 DEF k
      <3>2. /\ h.changed => new.origin = h.origin
            /\ ~h.changed => new.origin = [monitor |-> k, mode |-> h.mode[k]]
        BY <1>2, <3>1, RemembersTyped DEF k
      <3> HIDE DEF new
      <3>3. new.origin.mode = Native \/ new.origin.monitor \in new.astray
        <4>1. CASE h.changed
          BY <3>1, <3>2, <4>1 DEF Covered
        <4>2. CASE ~h.changed
          BY <2>1, <3>1, <3>2, <4>2 DEF Covered
        <4> QED BY <4>1, <4>2
      <3>4. ASSUME NEW m \in 1 .. Monitors, new.mode[m] # Native
            PROVE  Here(m) /\ (new.origin.monitor = m \/ m \in new.astray)
        <4>1. CASE m = k
          BY <2>1, <3>1, <4>1
        <4>2. CASE m # k
          <5>1. h.mode[m] # Native
            BY <2>1, <3>1, <3>4, <4>2
          <5> QED BY <3>1, <3>2, <5>1 DEF Covered
        <4> QED BY <4>1, <4>2
      <3> QED BY <3>1, <3>3, <3>4 DEF Covered, new
    <2>3. CASE c = [after |-> Rejected(h, id), ok |-> FALSE]
      <3> DEFINE new == c.after
      <3>1. /\ new.mode = h.mode /\ new.changed = h.changed /\ new.astray = h.astray
            /\ h.changed => new = h
        BY <1>2, <2>3, RejectedIs
      <3> HIDE DEF new
      <3> QED BY <3>1 DEF Covered, new
    <2> QED BY <1>2, <2>2, <2>3 DEF Changes
  <1> QED BY <1>1, <1>2

LEMMA ModesStepCovers == ModesTyped /\ Covered(host) /\ [ModesNext]_modeVars => Covered(host)'
  <1> SUFFICES ASSUME ModesTyped, Covered(host), [ModesNext]_modeVars PROVE Covered(host)'
    OBVIOUS
  <1>0. /\ host \in HostStates /\ Restore(host) \in HostStates
        /\ Covered(Restore(host))
    BY RestoredIs, RestoreCovers DEF ModesTyped
  <1>00. ASSUME UNCHANGED plugged, NEW h, Covered(h), host' = h
         PROVE  Covered(host)'
    BY <1>00 DEF Covered, Here
  <1>1. ASSUME NEW id \in Ids, NEW how \in {"scale", "display"}, SelectMonitor(id, how)
        PROVE  Covered(host)'
    <2>1. UNCHANGED plugged
      BY <1>1, SelectMonitorIs
    <2>2. CASE UNCHANGED host
      BY <1>00, <2>1, <2>2
    <2>3. ASSUME NEW before \in {host, Restore(host)}, NEW c \in Changes(before, id), host' = c.after
          PROVE  Covered(host)'
      <3>1. before \in HostStates /\ Covered(before)
        BY <1>0
      <3> QED BY <1>00, <2>1, <2>3, <3>1, ChangeCovers
    <2>4. ASSUME NEW before \in {host, Restore(host)}, host' = before
          PROVE  Covered(host)'
      BY <1>0, <1>00, <2>1, <2>4
    <2> QED BY <1>1, <2>2, <2>3, <2>4, SelectMonitorIs
  <1>2. ASSUME NEW how \in {"scale", "display"}, SetsResolution(how)
        PROVE  Covered(host)'
    <2>1. UNCHANGED plugged /\ selected \in Ids
      BY <1>2 DEF SetsResolution, ModesTyped
    <2>2. CASE capturing /\ how = "display"
      <3>1. PICK c \in Changes(host, selected) : host' = c.after
        BY <1>2, <2>2 DEF SetsResolution
      <3> QED BY <1>0, <1>00, <2>1, <3>1, ChangeCovers
    <2>3. CASE ~(capturing /\ how = "display")
      <3>1. host' \in {host, Restore(host)}
        BY <1>2, <2>3 DEF SetsResolution
      <3> QED BY <1>0, <1>00, <2>1, <3>1
    <2> QED BY <2>2, <2>3
  <1>3. CASE Close
    BY <1>0, <1>00, <1>3 DEF Close
  <1>4. ASSUME NEW i \in 1 .. Monitors, Unplug(i)
        PROVE  Covered(host)'
    <2> DEFINE n == Len(plugged)
    <2>1. /\ i \in 1 .. n /\ n \in Nat /\ plugged \in Seq(1 .. Monitors)
          /\ plugged' = SubSeq(plugged, 1, i - 1) \o SubSeq(plugged, i + 1, n)
          /\ host' = [host EXCEPT !.mode[plugged[i]] = Native]
      BY <1>4 DEF Unplug, ModesTyped
    <2>2. /\ Len(plugged') = n - 1 /\ plugged' \in Seq(1 .. Monitors)
          /\ \A j \in 1 .. n - 1 : plugged'[j] = plugged[IF j < i THEN j ELSE j + 1]
      BY <2>1, Removing
    <2>3. ASSUME NEW m \in 1 .. Monitors, m # plugged[i], Here(m) PROVE Here(m)'
      <3>1. PICK j \in 1 .. n : plugged[j] = m
        <4>1. DOMAIN plugged = 1 .. n
          BY <2>1
        <4> QED BY <2>3, <4>1 DEF Here
      <3>2. j # i
        BY <2>3, <3>1
      <3>3. CASE j < i
        <4>1. j \in 1 .. n - 1
          BY <2>1, <3>3
        <4>2. plugged'[j] = m /\ j \in DOMAIN plugged'
          BY <2>2, <3>1, <3>3, <4>1
        <4> QED BY <4>2 DEF Here
      <3>4. CASE i < j
        <4>1. j - 1 \in 1 .. n - 1 /\ ~(j - 1 < i) /\ j - 1 + 1 = j
          BY <2>1, <3>4
        <4>2. plugged'[j - 1] = m /\ j - 1 \in DOMAIN plugged'
          BY <2>2, <3>1, <4>1
        <4> QED BY <4>2 DEF Here
      <3> QED BY <2>1, <3>1, <3>2, <3>3, <3>4
    <2>4. /\ host'.changed = host.changed /\ host'.origin = host.origin
          /\ host'.astray = host.astray /\ host'.mode = [host.mode EXCEPT ![plugged[i]] = Native]
          /\ DOMAIN host.mode = 1 .. Monitors
      BY <1>0, <2>1 DEF HostStates
    <2>5. \A m \in 1 .. Monitors : host'.mode[m] # Native => m # plugged[i] /\ host.mode[m] # Native
      BY <2>4
    <2> QED BY <2>3, <2>4, <2>5 DEF Covered
  <1>5. CASE UNCHANGED modeVars
    BY <1>00, <1>5 DEF modeVars
  <1> QED BY <1>1, <1>2, <1>3, <1>4, <1>5 DEF ModesNext

Watched == Covered(host) /\ (~moved => ModesInv)

LEMMA ModesInvariance == ModesSpec => [](ModesTyped /\ Watched)
  <1>1. ModesInit => Watched
    <2>1. ModesInit => Covered(host)
      BY DEF ModesInit, Covered
    <2> QED BY <2>1, ModesInitHolds DEF Watched
  <1>2. ModesTyped /\ Watched /\ [ModesNext]_modeVars => Watched'
    <2>1. [ModesNext]_modeVars /\ moved => moved'
      BY DEF ModesNext, SelectMonitor, SetsResolution, Close, Unplug, modeVars
    <2> QED BY <2>1, ModesStepHolds, ModesStepCovers DEF Watched
  <1> QED BY <1>1, <1>2, ModesTypedAlways, PTL DEF ModesSpec

\* What DisplayModes says of its variables holds in every state.
THEOREM ModeTypesHold == ModesSpec => []ModesTypeOK
  <1>1. ModesTyped => ModesTypeOK
    BY DEF ModesTyped, HostStates, ModesTypeOK
  <1> QED BY <1>1, ModesTypedAlways, PTL

\* Every monitor that is not in the mode its owner left it in is the one the
\* session puts back at its end, or was switched under the id of another;
\* and none is, as long as the monitors keep their places in the list:
\* whatever the viewer selects and asks for and the host rejects, and
\* whichever monitors are unplugged (display.c, stream.c), for any number of
\* monitors and modes.
THEOREM ModesAreGivenBack == ModesSpec => []HostGetsItsModeBack
  <1>1. ModesTyped /\ Watched => HostGetsItsModeBack
    <2> SUFFICES ASSUME ModesTyped, Watched PROVE HostGetsItsModeBack
      OBVIOUS
    <2>1. host.astray # {} => moved
      BY DEF Watched, ModesInv, GoesBack
    <2>2. ASSUME NEW m \in 1 .. Monitors, host.mode[m] # Native, m \notin host.astray
          PROVE  host.changed /\ host.origin = [monitor |-> m, mode |-> Native]
      <3>1. host.changed /\ host.origin.monitor = m /\ host.origin.mode = Native
        BY <2>2 DEF Watched, Covered
      <3>2. host.origin \in [monitor : 1 .. Monitors, mode : Modes]
        BY DEF ModesTyped, HostStates
      <3> QED BY <3>1, <3>2
    <2> QED BY <2>1, <2>2 DEF HostGetsItsModeBack
  <1> QED BY <1>1, ModesInvariance, PTL

-----------------------------------------------------------------------------
(* The frames of a Wayland host.  A buffer the compositor has handed over    *)
(* lies in one place: in the hands of a stream's callback, in the slot, with  *)
(* the encoder, or with a thread that is about to give it back.               *)

Places == ({"hand", "stale"} \X Captures)
            \cup ({"slot", "taken", "worker", "main"} \X {None})

Kept == [p \in Places |->
            CASE p[1] = "hand" -> callback[p[2]]
              [] p[1] = "stale" -> stale[p[2]]
              [] p[1] = "slot" -> Wayland!InSlot.handle
              [] p[1] = "taken" -> taken.handle
              [] p[1] = "worker" -> pending["worker"].handle
              [] p[1] = "main" -> pending["main"].handle]

\* No two places keep the same, and what is kept is what is out.
Linear(f, o) ==
    /\ \A p, q \in Places : f[p] = f[q] /\ f[p] # None => p = q
    /\ o = {f[p] : p \in Places} \ {None}

Of(b) == b[1]

\* Who has a buffer knows the stream it is from.
OwnersKnown ==
    /\ \A c \in Captures : callback[c] # None => Of(callback[c]) = c
    /\ \A c \in Captures : stale[c] # None => Of(stale[c]) = c
    /\ Wayland!InSlot.handle # None => Wayland!InSlot.from = Of(Wayland!InSlot.handle)
    /\ taken.handle # None => taken.from = Of(taken.handle)
    /\ \A t \in {"worker", "main"} :
          pending[t].handle # None => pending[t].from = Of(pending[t].handle)

\* A thread has nothing in its hands but where it is about to give it back.
AtRest ==
    /\ \A c \in Captures : loop[c] = "idle" => callback[c] = None /\ stale[c] = None
    /\ \A c \in Captures : loop[c] = "frame" => stale[c] = None
    /\ \A c \in Captures : stream[c] # "running" => loop[c] = "idle"
    /\ encoder \in {"ready", "off"} => taken.handle = None
    /\ encoder # "give" => pending["worker"].handle = None
    /\ mainAt \notin {"leave", "refuse"} => pending["main"].handle = None
    /\ encoder # "off" => mainAt = "idle"

\* Two streams at most are not freed, and nothing of the one that goes is out.
Screens ==
    /\ \A b \in out : stream[Of(b)] \in {"running", "halted"}
    /\ stream[active] = IF mainAt = "switch" THEN "halted" ELSE "running"
    /\ mainAt \in {"wait", "halt", "abandon", "switch"} =>
          other \in Captures /\ other # active /\ stream[other] = "running"
    /\ mainAt \in {"clear", "leave", "free"} =>
          other \in Captures /\ other # active /\ stream[other] = "halted"
    /\ mainAt \in {"leave", "free"} =>
          (Wayland!InSlot.handle # None => Wayland!InSlot.from # other)

Going == {"destroy", "last", "gone"}

FramesInv ==
    /\ Wayland!WaylandTypeOK
    /\ Linear(Kept, out)
    /\ OwnersKnown /\ AtRest /\ Screens

-----------------------------------------------------------------------------

LEMMA PlaceKinds ==
    /\ \A c \in Captures : <<"hand", c>> \in Places /\ <<"stale", c>> \in Places
    /\ \A k \in {"slot", "taken", "worker", "main"} : <<k, None>> \in Places
    /\ \A p \in Places :
          \/ \E c \in Captures : p = <<"hand", c>> \/ p = <<"stale", c>>
          \/ p = <<"slot", None>> \/ p = <<"taken", None>>
          \/ p = <<"worker", None>> \/ p = <<"main", None>>
BY DEF Places

LEMMA KeptIs ==
    /\ \A c \in Captures : Kept[<<"hand", c>>] = callback[c] /\ Kept[<<"stale", c>>] = stale[c]
    /\ Kept[<<"slot", None>>] = Wayland!InSlot.handle
    /\ Kept[<<"taken", None>>] = taken.handle
    /\ Kept[<<"worker", None>>] = pending["worker"].handle
    /\ Kept[<<"main", None>>] = pending["main"].handle
BY PlaceKinds DEF Kept

LEMMA KeptIsNext ==
    /\ \A c \in Captures : Kept'[<<"hand", c>>] = callback'[c] /\ Kept'[<<"stale", c>>] = stale'[c]
    /\ Kept'[<<"slot", None>>] = Wayland!InSlot'.handle
    /\ Kept'[<<"taken", None>>] = taken'.handle
    /\ Kept'[<<"worker", None>>] = pending'["worker"].handle
    /\ Kept'[<<"main", None>>] = pending'["main"].handle
BY PlaceKinds DEF Kept

LEMMA SameLinear ==
    ASSUME NEW f, NEW g, NEW o, Linear(f, o), \A r \in Places : g[r] = f[r]
    PROVE  Linear(g, o)
BY DEF Linear

LEMMA SwapLinear ==
    ASSUME NEW f, NEW g, NEW o, NEW p \in Places, NEW q \in Places, Linear(f, o),
           g[p] = f[q], g[q] = f[p], \A r \in Places \ {p, q} : g[r] = f[r]
    PROVE  Linear(g, o)
<1>1. {g[r] : r \in Places} = {f[r] : r \in Places}
  OBVIOUS
<1>2. ASSUME NEW a \in Places, NEW b \in Places, g[a] = g[b], g[a] # None PROVE a = b
  BY <1>2 DEF Linear
<1> QED BY <1>1, <1>2 DEF Linear

LEMMA RotateLinear ==
    ASSUME NEW f, NEW g, NEW o, NEW p \in Places, NEW q \in Places, NEW s \in Places,
           p # q, q # s, p # s, Linear(f, o),
           g[p] = f[q], g[q] = f[s], g[s] = f[p], \A r \in Places \ {p, q, s} : g[r] = f[r]
    PROVE  Linear(g, o)
<1>1. {g[r] : r \in Places} = {f[r] : r \in Places}
  OBVIOUS
<1>2. ASSUME NEW a \in Places, NEW b \in Places, g[a] = g[b], g[a] # None PROVE a = b
  BY <1>2 DEF Linear
<1> QED BY <1>1, <1>2 DEF Linear

LEMMA GiveLinear ==
    ASSUME NEW f, NEW g, NEW o, NEW p \in Places, Linear(f, o),
           g[p] = None, \A r \in Places \ {p} : g[r] = f[r]
    PROVE  Linear(g, o \ {f[p]})
<1>1. {g[r] : r \in Places} \ {None} = (o \ {f[p]})
  BY DEF Linear
<1>2. ASSUME NEW a \in Places, NEW b \in Places, g[a] = g[b], g[a] # None PROVE a = b
  BY <1>2 DEF Linear
<1> QED BY <1>1, <1>2 DEF Linear

LEMMA GiveTwoLinear ==
    ASSUME NEW f, NEW g, NEW o, NEW p \in Places, NEW q \in Places, Linear(f, o),
           g[p] = None, g[q] = None, \A r \in Places \ {p, q} : g[r] = f[r]
    PROVE  Linear(g, o \ {f[p], f[q]})
<1>1. {g[r] : r \in Places} \ {None} = (o \ {f[p], f[q]})
  BY DEF Linear
<1>2. ASSUME NEW a \in Places, NEW b \in Places, g[a] = g[b], g[a] # None PROVE a = b
  BY <1>2 DEF Linear
<1> QED BY <1>1, <1>2 DEF Linear

LEMMA TakeLinear ==
    ASSUME NEW f, NEW g, NEW o, NEW p \in Places, NEW b, Linear(f, o),
           b \notin o, b # None, f[p] = None, g[p] = b, \A r \in Places \ {p} : g[r] = f[r]
    PROVE  Linear(g, o \cup {b})
<1>1. {g[r] : r \in Places} \ {None} = (o \cup {b})
  BY DEF Linear
<1>2. ASSUME NEW a \in Places, NEW d \in Places, g[a] = g[d], g[a] # None PROVE a = d
  BY <1>2 DEF Linear
<1> QED BY <1>1, <1>2 DEF Linear
LEMMA BuffersAre ==
    /\ \A b \in Wayland!Buffers : Of(b) \in Captures /\ b # None
    /\ None \notin Captures
BY FramesAssumption DEF Wayland!Buffers, Of

\* What is in the slot, by its fields.
LEMMA SlotIs ==
    ASSUME Wayland!WaylandTypeOK
    PROVE  /\ Wayland!InSlot.handle = IF slot.exported THEN slot.handle ELSE None
           /\ Wayland!InSlot.from = slot.capture
           /\ Wayland!InSlot.handle \in Wayland!Buffers \cup {None}
           /\ Wayland!InSlot.from \in Captures \cup {None}
           /\ Wayland!InSlot \in [handle : Wayland!Buffers \cup {None}, from : Captures \cup {None}]
BY DEF Wayland!WaylandTypeOK, Wayland!InSlot

LEMMA KeptStill ==
    ASSUME FramesInv, UNCHANGED <<callback, stale, taken, pending, out>>,
           Wayland!InSlot' = Wayland!InSlot
    PROVE  Linear(Kept', out') /\ OwnersKnown'
<1>1. \A r \in Places : Kept'[r] = Kept[r]
  BY DEF Kept
<1>2. Linear(Kept', out)
  BY <1>1, SameLinear DEF FramesInv
<1> QED BY <1>2 DEF FramesInv, OwnersKnown

\* The places a stream's callback has no part in.
LEMMA RestKept ==
    ASSUME NEW c \in Captures, UNCHANGED <<taken, pending>>,
           \A d \in Captures \ {c} : callback'[d] = callback[d] /\ stale'[d] = stale[d]
    PROVE  \A r \in Places \ {<<"hand", c>>, <<"stale", c>>, <<"slot", None>>} : Kept'[r] = Kept[r]
<1> SUFFICES ASSUME NEW r \in Places \ {<<"hand", c>>, <<"stale", c>>, <<"slot", None>>}
             PROVE  Kept'[r] = Kept[r]
  OBVIOUS
<1>1. CASE r \in {<<"taken", None>>, <<"worker", None>>, <<"main", None>>}
  BY <1>1, KeptIs, KeptIsNext
<1>2. ASSUME NEW d \in Captures, r \in {<<"hand", d>>, <<"stale", d>>}
      PROVE  Kept'[r] = Kept[r]
  <2>1. d # c
    BY <1>2
  <2> QED BY <1>2, <2>1, KeptIs, KeptIsNext
<1> QED BY <1>1, <1>2, PlaceKinds

\* What goes back goes to the stream it is from, whose loop is at rest.
LEMMA GivingBack ==
    ASSUME FramesInv,
           NEW what \in [handle : Wayland!Buffers \cup {None}, from : Captures \cup {None}],
           what.handle # None => what.from = Of(what.handle),
           Wayland!GivesBack(what)
    PROVE  out' = out \ {what.handle} /\ out' \subseteq out
<1>1. None \notin out
  BY DEF FramesInv, Linear
<1>2. CASE what.handle = None
  BY <1>1, <1>2 DEF Wayland!GivesBack
<1>3. CASE what.handle # None
  <2>1. what.handle \in Wayland!Buffers /\ what.from = Of(what.handle) /\ what.from # None
    BY <1>3, BuffersAre
  <2>2. out' = Wayland!Queued(what.from, {what.handle})
    BY <1>3, <2>1 DEF Wayland!GivesBack
  <2>3. {b \in {what.handle} : b # None /\ Wayland!Of(b) = what.from} = {what.handle}
    BY <1>3, <2>1 DEF Wayland!Of, Of
  <2> QED BY <2>2, <2>3 DEF Wayland!Queued
<1> QED BY <1>2, <1>3

-----------------------------------------------------------------------------
(* A stream's loop.                                                          *)

LEMMA ParamChangedStep ==
    ASSUME FramesInv, NEW c \in Captures, Wayland!OnParamChanged(c) \/ Wayland!Undescribed(c)
    PROVE  FramesInv'
<1>1. UNCHANGED <<loop, callback, stale, out, slot, encoder, zeroCopy, taken, stream, mainAt,
                  active, other, pending, wants>>
  BY DEF Wayland!OnParamChanged, Wayland!Undescribed, Wayland!workers, Wayland!mains
<1>2. Wayland!WaylandTypeOK'
  <2>1. /\ format' \in [Captures -> {"none", "mapped", "exported"}]
        /\ offers' \in [Captures -> BOOLEAN]
    BY DEF FramesInv, Wayland!WaylandTypeOK, Wayland!OnParamChanged, Wayland!Undescribed,
           Wayland!Fallback
  <2>2. negotiations' \in 0 .. MaxNegotiations
    <3>1. negotiations \in 0 .. MaxNegotiations /\ MaxNegotiations \in Nat
      BY FramesAssumption DEF FramesInv, Wayland!WaylandTypeOK
    <3>2. CASE Wayland!OnParamChanged(c)
      <4>1. negotiations < MaxNegotiations /\ negotiations' = negotiations + 1
        BY <3>2 DEF Wayland!OnParamChanged
      <4> QED BY <3>1, <4>1
    <3>3. CASE Wayland!Undescribed(c)
      BY <3>1, <3>3 DEF Wayland!Undescribed
    <3> QED BY <3>2, <3>3
  <2> QED BY <1>1, <2>1, <2>2 DEF FramesInv, Wayland!WaylandTypeOK
<1>3. Wayland!InSlot' = Wayland!InSlot
  BY <1>1 DEF Wayland!InSlot
<1>4. Linear(Kept', out') /\ OwnersKnown'
  BY <1>1, <1>3, KeptStill
<1>5. AtRest' /\ Screens'
  BY <1>1, <1>3 DEF FramesInv, AtRest, Screens
<1> QED BY <1>2, <1>4, <1>5 DEF FramesInv

LEMMA ProcessStep ==
    ASSUME FramesInv, NEW c \in Captures, Wayland!OnProcess(c)
    PROVE  FramesInv'
<1>1. PICK b \in Wayland!Buffers \ out :
        /\ Wayland!Of(b) = c /\ out' = out \cup {b}
        /\ callback' = [callback EXCEPT ![c] = b] /\ loop' = [loop EXCEPT ![c] = "frame"]
  BY DEF Wayland!OnProcess
<1>2. /\ stream[c] = "running" /\ loop[c] = "idle"
      /\ UNCHANGED <<format, offers, negotiations, stale, slot, encoder, zeroCopy, taken, stream,
                     mainAt, active, other, pending, wants>>
  BY DEF Wayland!OnProcess, Wayland!Awake, Wayland!workers, Wayland!mains
<1>3. Wayland!WaylandTypeOK'
  BY <1>1, <1>2 DEF FramesInv, Wayland!WaylandTypeOK
<1>4. Wayland!InSlot' = Wayland!InSlot
  BY <1>2 DEF Wayland!InSlot
<1>5. /\ callback'[c] = b /\ \A d \in Captures \ {c} : callback'[d] = callback[d]
      /\ loop'[c] = "frame" /\ \A d \in Captures \ {c} : loop'[d] = loop[d]
  BY <1>1 DEF FramesInv, Wayland!WaylandTypeOK
<1>6. Linear(Kept', out')
  <2>1. \A r \in Places \ {<<"hand", c>>} : Kept'[r] = Kept[r]
    <3>1. \A r \in Places \ {<<"hand", c>>, <<"stale", c>>, <<"slot", None>>} : Kept'[r] = Kept[r]
      BY <1>2, <1>5, RestKept
    <3>2. Kept'[<<"stale", c>>] = Kept[<<"stale", c>>] /\ Kept'[<<"slot", None>>] = Kept[<<"slot", None>>]
      BY <1>2, <1>4, KeptIs, KeptIsNext
    <3> QED BY <3>1, <3>2
  <2>2. Kept'[<<"hand", c>>] = b /\ Kept[<<"hand", c>>] = None
    BY <1>2, <1>5, KeptIs, KeptIsNext DEF FramesInv, AtRest
  <2>3. b \notin out /\ b # None /\ <<"hand", c>> \in Places
    BY BuffersAre, PlaceKinds
  <2>4. Linear(Kept', out \cup {b})
    BY <2>1, <2>2, <2>3, TakeLinear DEF FramesInv
  <2> QED BY <1>1, <2>4
<1>7. OwnersKnown'
  BY <1>1, <1>2, <1>4, <1>5 DEF FramesInv, OwnersKnown, Of, Wayland!Of
<1>8. AtRest'
  BY <1>2, <1>5 DEF FramesInv, AtRest
<1>9. Screens'
  BY <1>1, <1>2, <1>4 DEF FramesInv, Screens, Of, Wayland!Of
<1> QED BY <1>3, <1>6, <1>7, <1>8, <1>9 DEF FramesInv

LEMMA ElsewhereStep ==
    ASSUME FramesInv, NEW c \in Captures, Wayland!OnFrameElsewhere(c)
    PROVE  FramesInv'
<1>1. /\ loop[c] = "frame" /\ out' = Wayland!Queued(c, {callback[c]})
      /\ callback' = [callback EXCEPT ![c] = None] /\ loop' = [loop EXCEPT ![c] = "idle"]
      /\ UNCHANGED <<format, offers, negotiations, stale, slot, encoder, zeroCopy, taken, stream,
                     mainAt, active, other, pending, wants>>
  BY DEF Wayland!OnFrameElsewhere, Wayland!workers, Wayland!mains
<1>2. out' = out \ {callback[c]}
  <2>1. None \notin out
    BY DEF FramesInv, Linear
  <2>2. callback[c] # None => Wayland!Of(callback[c]) = c
    BY DEF FramesInv, OwnersKnown, Of, Wayland!Of
  <2> QED BY <1>1, <2>1, <2>2 DEF Wayland!Queued
<1>3. Wayland!WaylandTypeOK'
  <2>1. /\ callback' \in [Captures -> Wayland!Buffers \cup {None}]
        /\ stale' \in [Captures -> Wayland!Buffers \cup {None}]
        /\ loop' \in [Captures -> {"idle", "frame", "drop"}]
    BY <1>1 DEF FramesInv, Wayland!WaylandTypeOK
  <2>2. out' \subseteq Wayland!Buffers
    BY <1>2 DEF FramesInv, Wayland!WaylandTypeOK
  <2>3. UNCHANGED <<format, offers, negotiations, slot, encoder, zeroCopy, taken, stream,
                    mainAt, active, other, pending, wants>>
    BY <1>1
  <2> QED BY <2>1, <2>2, <2>3 DEF FramesInv, Wayland!WaylandTypeOK
<1>4. Wayland!InSlot' = Wayland!InSlot
  BY <1>1 DEF Wayland!InSlot
<1>5. /\ callback'[c] = None /\ \A d \in Captures \ {c} : callback'[d] = callback[d]
      /\ loop'[c] = "idle" /\ \A d \in Captures \ {c} : loop'[d] = loop[d]
  BY <1>1 DEF FramesInv, Wayland!WaylandTypeOK
<1>6. Linear(Kept', out')
  <2>1. \A r \in Places \ {<<"hand", c>>} : Kept'[r] = Kept[r]
    <3>1. \A r \in Places \ {<<"hand", c>>, <<"stale", c>>, <<"slot", None>>} : Kept'[r] = Kept[r]
      BY <1>1, <1>5, RestKept
    <3>2. Kept'[<<"stale", c>>] = Kept[<<"stale", c>>] /\ Kept'[<<"slot", None>>] = Kept[<<"slot", None>>]
      BY <1>1, <1>4, KeptIs, KeptIsNext
    <3> QED BY <3>1, <3>2
  <2>2. Kept'[<<"hand", c>>] = None /\ Kept[<<"hand", c>>] = callback[c] /\ <<"hand", c>> \in Places
    BY <1>5, KeptIs, KeptIsNext, PlaceKinds
  <2>3. Linear(Kept', out \ {Kept[<<"hand", c>>]})
    BY <2>1, <2>2, GiveLinear DEF FramesInv
  <2> QED BY <1>2, <2>2, <2>3
<1>7. OwnersKnown'
  BY <1>1, <1>4, <1>5 DEF FramesInv, OwnersKnown
<1>8. AtRest'
  BY <1>1, <1>5 DEF FramesInv, AtRest
<1>9. Screens'
  BY <1>1, <1>2, <1>4 DEF FramesInv, Screens
<1> QED BY <1>3, <1>6, <1>7, <1>8, <1>9 DEF FramesInv

LEMMA OnFrameStep ==
    ASSUME FramesInv, NEW c \in Captures, Wayland!OnFrame(c)
    PROVE  FramesInv'
<1>1. /\ loop[c] = "frame" /\ ~Wayland!SlotHeldElsewhere(c)
      /\ stale' = [stale EXCEPT ![c] = Wayland!InSlot.handle]
      /\ loop' = [loop EXCEPT ![c] = "drop"]
      /\ UNCHANGED <<format, offers, negotiations, out, encoder, zeroCopy, taken, stream,
                     mainAt, active, other, pending, wants>>
  BY DEF Wayland!OnFrame, Wayland!workers, Wayland!mains
<1>2. \/ /\ slot' = [fresh |-> TRUE, exported |-> TRUE, handle |-> callback[c], capture |-> c]
         /\ callback' = [callback EXCEPT ![c] = None]
      \/ /\ slot' = [slot EXCEPT !.fresh = TRUE, !.exported = FALSE, !.handle = None]
         /\ UNCHANGED callback
  BY DEF Wayland!OnFrame
<1>3. Wayland!WaylandTypeOK'
  <2> USE DEF FramesInv, Wayland!WaylandTypeOK
  <2>1. loop' \in [Captures -> {"idle", "frame", "drop"}]
    BY <1>1
  <2>2. stale' \in [Captures -> Wayland!Buffers \cup {None}]
    BY <1>1, SlotIs
  <2>3. callback' \in [Captures -> Wayland!Buffers \cup {None}]
    BY <1>2
  <2>4. slot' \in [fresh : BOOLEAN, exported : BOOLEAN,
                   handle : Wayland!Buffers \cup {None}, capture : Captures \cup {None}]
    <3>1. callback[c] \in Wayland!Buffers \cup {None}
      OBVIOUS
    <3>2. [fresh |-> TRUE, exported |-> TRUE, handle |-> callback[c], capture |-> c]
            \in [fresh : BOOLEAN, exported : BOOLEAN,
                 handle : Wayland!Buffers \cup {None}, capture : Captures \cup {None}]
      BY <3>1
    <3>3. [slot EXCEPT !.fresh = TRUE, !.exported = FALSE, !.handle = None]
            \in [fresh : BOOLEAN, exported : BOOLEAN,
                 handle : Wayland!Buffers \cup {None}, capture : Captures \cup {None}]
      OBVIOUS
    <3> QED BY <1>2, <3>2, <3>3
  <2>5. UNCHANGED <<format, offers, negotiations, out, encoder, zeroCopy, taken, stream,
                    mainAt, active, other, pending, wants>>
    BY <1>1
  <2> QED BY <2>1, <2>2, <2>3, <2>4, <2>5
<1>4. /\ stale'[c] = Wayland!InSlot.handle /\ \A d \in Captures \ {c} : stale'[d] = stale[d]
      /\ loop'[c] = "drop" /\ \A d \in Captures \ {c} : loop'[d] = loop[d]
      /\ stale[c] = None
  BY <1>1 DEF FramesInv, Wayland!WaylandTypeOK, AtRest
<1>5. \/ /\ Wayland!InSlot'.handle = callback[c] /\ Wayland!InSlot'.from = c
         /\ callback'[c] = None /\ \A d \in Captures \ {c} : callback'[d] = callback[d]
      \/ Wayland!InSlot'.handle = None /\ UNCHANGED callback
  <2>1. CASE /\ slot' = [fresh |-> TRUE, exported |-> TRUE, handle |-> callback[c], capture |-> c]
             /\ callback' = [callback EXCEPT ![c] = None]
    <3>1. Wayland!InSlot'.handle = callback[c] /\ Wayland!InSlot'.from = c
      BY <2>1 DEF Wayland!InSlot
    <3>2. callback'[c] = None /\ \A d \in Captures \ {c} : callback'[d] = callback[d]
      BY <2>1 DEF FramesInv, Wayland!WaylandTypeOK
    <3> QED BY <3>1, <3>2
  <2>2. CASE /\ slot' = [slot EXCEPT !.fresh = TRUE, !.exported = FALSE, !.handle = None]
             /\ UNCHANGED callback
    <3>1. slot'.exported = FALSE
      BY <2>2 DEF FramesInv, Wayland!WaylandTypeOK
    <3> QED BY <2>2, <3>1 DEF Wayland!InSlot
  <2> QED BY <1>2, <2>1, <2>2
<1>6. Wayland!InSlot.handle # None => Wayland!InSlot.from = c
  BY <1>1, SlotIs DEF FramesInv, Wayland!SlotHeldElsewhere
<1>7. Linear(Kept', out')
  <2> DEFINE h == <<"hand", c>>
             d == <<"stale", c>>
             t == <<"slot", None>>
  <2>1. h \in Places /\ d \in Places /\ t \in Places /\ h # d /\ d # t /\ h # t
    BY PlaceKinds
  <2>2. Kept[d] = None /\ Kept'[d] = Kept[t]
    BY <1>4, KeptIs, KeptIsNext
  <2>3. CASE UNCHANGED callback /\ Wayland!InSlot'.handle = None
    <3>1. \A r \in Places \ {d, t} : Kept'[r] = Kept[r]
      <4>1. \A r \in Places \ {h, d, t} : Kept'[r] = Kept[r]
        BY <1>1, <1>4, <2>3, RestKept
      <4>2. Kept'[h] = Kept[h]
        BY <2>3, KeptIs, KeptIsNext
      <4> QED BY <4>1, <4>2
    <3>2. Kept'[t] = Kept[d]
      BY <2>2, <2>3, KeptIsNext
    <3>3. Linear(Kept', out)
      BY <2>1, <2>2, <3>1, <3>2, SwapLinear DEF FramesInv
    <3> QED BY <1>1, <3>3
  <2>4. CASE /\ Wayland!InSlot'.handle = callback[c]
             /\ callback'[c] = None /\ \A e \in Captures \ {c} : callback'[e] = callback[e]
    <3>1. \A r \in Places \ {d, t, h} : Kept'[r] = Kept[r]
      BY <1>1, <1>4, <2>4, RestKept
    <3>2. Kept'[t] = Kept[h] /\ Kept'[h] = Kept[d]
      BY <2>2, <2>4, KeptIs, KeptIsNext
    <3> HIDE DEF h, d, t
    <3>3. Linear(Kept', out)
      BY <2>1, <2>2, <3>1, <3>2, RotateLinear DEF FramesInv
    <3> QED BY <1>1, <3>3
  <2> QED BY <1>5, <2>3, <2>4
<1>8. OwnersKnown'
  <2>1. stale'[c] # None => Of(stale'[c]) = c
    BY <1>4, <1>6 DEF FramesInv, OwnersKnown
  <2>2. Wayland!InSlot'.handle # None => Wayland!InSlot'.from = Of(Wayland!InSlot'.handle)
    BY <1>5 DEF FramesInv, OwnersKnown
  <2>3. \A e \in Captures : callback'[e] # None => Of(callback'[e]) = e
    BY <1>5 DEF FramesInv, OwnersKnown
  <2> QED BY <1>1, <1>4, <2>1, <2>2, <2>3 DEF FramesInv, OwnersKnown
<1>9. AtRest'
  BY <1>1, <1>4, <1>5 DEF FramesInv, AtRest
<1>10. Screens'
  <2>1. stream[c] = "running"
    BY <1>1 DEF FramesInv, AtRest
  <2> QED BY <1>1, <1>5, <2>1 DEF FramesInv, Screens
<1> QED BY <1>3, <1>7, <1>8, <1>9, <1>10 DEF FramesInv

LEMMA DropStep ==
    ASSUME FramesInv, NEW c \in Captures, Wayland!Drop(c)
    PROVE  FramesInv'
<1>1. /\ loop[c] = "drop" /\ out' = Wayland!Queued(c, {callback[c], stale[c]})
      /\ callback' = [callback EXCEPT ![c] = None] /\ stale' = [stale EXCEPT ![c] = None]
      /\ loop' = [loop EXCEPT ![c] = "idle"]
      /\ UNCHANGED <<format, offers, negotiations, slot, encoder, zeroCopy, taken, stream,
                     mainAt, active, other, pending, wants>>
  BY DEF Wayland!Drop, Wayland!workers, Wayland!mains
<1>2. out' = out \ {callback[c], stale[c]}
  <2>1. None \notin out
    BY DEF FramesInv, Linear
  <2>2. /\ callback[c] # None => Wayland!Of(callback[c]) = c
        /\ stale[c] # None => Wayland!Of(stale[c]) = c
    BY DEF FramesInv, OwnersKnown, Of, Wayland!Of
  <2> QED BY <1>1, <2>1, <2>2 DEF Wayland!Queued
<1>3. Wayland!WaylandTypeOK'
  <2>1. /\ callback' \in [Captures -> Wayland!Buffers \cup {None}]
        /\ stale' \in [Captures -> Wayland!Buffers \cup {None}]
        /\ loop' \in [Captures -> {"idle", "frame", "drop"}]
    BY <1>1 DEF FramesInv, Wayland!WaylandTypeOK
  <2>2. out' \subseteq Wayland!Buffers
    BY <1>2 DEF FramesInv, Wayland!WaylandTypeOK
  <2>3. UNCHANGED <<format, offers, negotiations, slot, encoder, zeroCopy, taken, stream,
                    mainAt, active, other, pending, wants>>
    BY <1>1
  <2> QED BY <2>1, <2>2, <2>3 DEF FramesInv, Wayland!WaylandTypeOK
<1>4. Wayland!InSlot' = Wayland!InSlot
  BY <1>1 DEF Wayland!InSlot
<1>5. /\ callback'[c] = None /\ \A d \in Captures \ {c} : callback'[d] = callback[d]
      /\ stale'[c] = None /\ \A d \in Captures \ {c} : stale'[d] = stale[d]
      /\ loop'[c] = "idle" /\ \A d \in Captures \ {c} : loop'[d] = loop[d]
  BY <1>1 DEF FramesInv, Wayland!WaylandTypeOK
<1>6. Linear(Kept', out')
  <2>1. \A r \in Places \ {<<"hand", c>>, <<"stale", c>>} : Kept'[r] = Kept[r]
    <3>1. \A r \in Places \ {<<"hand", c>>, <<"stale", c>>, <<"slot", None>>} : Kept'[r] = Kept[r]
      BY <1>1, <1>5, RestKept
    <3>2. Kept'[<<"slot", None>>] = Kept[<<"slot", None>>]
      BY <1>4, KeptIs, KeptIsNext
    <3> QED BY <3>1, <3>2
  <2>2. /\ Kept'[<<"hand", c>>] = None /\ Kept[<<"hand", c>>] = callback[c] /\ <<"hand", c>> \in Places
        /\ Kept'[<<"stale", c>>] = None /\ Kept[<<"stale", c>>] = stale[c] /\ <<"stale", c>> \in Places
    BY <1>5, KeptIs, KeptIsNext, PlaceKinds
  <2>3. Linear(Kept', out \ {Kept[<<"hand", c>>], Kept[<<"stale", c>>]})
    BY <2>1, <2>2, GiveTwoLinear DEF FramesInv
  <2> QED BY <1>2, <2>2, <2>3
<1>7. OwnersKnown'
  BY <1>1, <1>4, <1>5 DEF FramesInv, OwnersKnown
<1>8. AtRest'
  BY <1>1, <1>5 DEF FramesInv, AtRest
<1>9. Screens'
  BY <1>1, <1>2, <1>4 DEF FramesInv, Screens
<1> QED BY <1>3, <1>6, <1>7, <1>8, <1>9 DEF FramesInv
-----------------------------------------------------------------------------
(* The encoder's worker.                                                     *)

\* The places that the loops have no part in change, and theirs do not.
LEMMA LoopsKeep ==
    ASSUME UNCHANGED <<callback, stale>>
    PROVE  \A r \in Places \ {<<"slot", None>>, <<"taken", None>>, <<"worker", None>>, <<"main", None>>} :
              Kept'[r] = Kept[r]
<1> SUFFICES ASSUME NEW r \in Places \ {<<"slot", None>>, <<"taken", None>>, <<"worker", None>>, <<"main", None>>}
             PROVE  Kept'[r] = Kept[r]
  OBVIOUS
<1>1. PICK d \in Captures : r \in {<<"hand", d>>, <<"stale", d>>}
  BY PlaceKinds
<1> QED BY <1>1, KeptIs, KeptIsNext

\* Two of the four that a thread moves a buffer between.
LEMMA MovesOne ==
    ASSUME FramesInv, UNCHANGED <<callback, stale, out>>,
           NEW j \in {"slot", "taken", "worker", "main"}, NEW k \in {"slot", "taken", "worker", "main"},
           Kept'[<<j, None>>] = Kept[<<k, None>>], Kept'[<<k, None>>] = Kept[<<j, None>>],
           \A i \in {"slot", "taken", "worker", "main"} \ {j, k} : Kept'[<<i, None>>] = Kept[<<i, None>>]
    PROVE  Linear(Kept', out')
<1>1. <<j, None>> \in Places /\ <<k, None>> \in Places
  BY PlaceKinds
<1>2. \A r \in Places \ {<<j, None>>, <<k, None>>} : Kept'[r] = Kept[r]
  BY LoopsKeep
<1>3. Linear(Kept', out)
  BY <1>1, <1>2, SwapLinear DEF FramesInv
<1> QED BY <1>3

\* A thread gives back what it has at k.
LEMMA GivesOne ==
    ASSUME FramesInv, UNCHANGED <<callback, stale>>,
           NEW k \in {"slot", "taken", "worker", "main"}, out' = out \ {Kept[<<k, None>>]},
           Kept'[<<k, None>>] = None,
           \A i \in {"slot", "taken", "worker", "main"} \ {k} : Kept'[<<i, None>>] = Kept[<<i, None>>]
    PROVE  Linear(Kept', out')
<1>1. <<k, None>> \in Places
  BY PlaceKinds
<1>2. \A r \in Places \ {<<k, None>>} : Kept'[r] = Kept[r]
  BY LoopsKeep
<1>3. Linear(Kept', out \ {Kept[<<k, None>>]})
  BY <1>1, <1>2, GiveLinear DEF FramesInv
<1> QED BY <1>3

LEMMA TakeDmaBufStep ==
    ASSUME FramesInv, Wayland!TakeDmaBuf
    PROVE  FramesInv'
<1>1. /\ encoder = "ready" /\ encoder' = "encode" /\ taken.handle = None
      /\ UNCHANGED <<format, offers, negotiations, loop, callback, stale, out, zeroCopy,
                     stream, mainAt, active, other, pending, wants>>
  BY DEF FramesInv, AtRest, Wayland!TakeDmaBuf, Wayland!loops, Wayland!mains
<1>2. CASE slot.fresh /\ slot.exported /\ slot.handle # None
  <2>1. /\ taken' = [handle |-> slot.handle, from |-> slot.capture]
        /\ slot' = [slot EXCEPT !.fresh = FALSE, !.handle = None]
    BY <1>2 DEF Wayland!TakeDmaBuf
  <2>2. /\ Wayland!InSlot.handle = slot.handle /\ Wayland!InSlot.from = slot.capture
        /\ taken'.handle = slot.handle /\ taken'.from = slot.capture
    BY <1>2, <2>1, SlotIs DEF FramesInv
  <2>3. Wayland!InSlot'.handle = None
    BY <2>1 DEF FramesInv, Wayland!WaylandTypeOK, Wayland!InSlot
  <2>4. Wayland!WaylandTypeOK'
    <3>1. /\ slot' \in [fresh : BOOLEAN, exported : BOOLEAN,
                         handle : Wayland!Buffers \cup {None}, capture : Captures \cup {None}]
          /\ taken' \in [handle : Wayland!Buffers \cup {None}, from : Captures \cup {None}]
      BY <2>1 DEF FramesInv, Wayland!WaylandTypeOK
    <3> QED BY <1>1, <3>1 DEF FramesInv, Wayland!WaylandTypeOK
  <2>5. Linear(Kept', out')
    <3>1. Kept'[<<"slot", None>>] = Kept[<<"taken", None>>] /\ Kept'[<<"taken", None>>] = Kept[<<"slot", None>>]
      BY <1>1, <2>2, <2>3, KeptIs, KeptIsNext
    <3>2. \A i \in {"worker", "main"} : Kept'[<<i, None>>] = Kept[<<i, None>>]
      BY <1>1, KeptIs, KeptIsNext
    <3> QED BY <1>1, <3>1, <3>2, MovesOne
  <2>6. OwnersKnown'
    BY <1>1, <2>2, <2>3 DEF FramesInv, OwnersKnown
  <2>7. AtRest' /\ Screens'
    BY <1>1, <2>3 DEF FramesInv, AtRest, Screens
  <2> QED BY <2>4, <2>5, <2>6, <2>7 DEF FramesInv
<1>3. CASE ~(slot.fresh /\ slot.exported /\ slot.handle # None)
  <2>1. taken' = [taken EXCEPT !.handle = None] /\ UNCHANGED slot
    BY <1>3 DEF Wayland!TakeDmaBuf
  <2>2. taken' = taken
    BY <1>1, <2>1 DEF FramesInv, Wayland!WaylandTypeOK
  <2>3. Wayland!InSlot' = Wayland!InSlot
    BY <2>1 DEF Wayland!InSlot
  <2>4. Linear(Kept', out') /\ OwnersKnown'
    BY <1>1, <2>2, <2>3, KeptStill
  <2>5. Wayland!WaylandTypeOK'
    BY <1>1, <2>1, <2>2 DEF FramesInv, Wayland!WaylandTypeOK
  <2>6. AtRest' /\ Screens'
    BY <1>1, <2>2, <2>3 DEF FramesInv, AtRest, Screens
  <2> QED BY <2>4, <2>5, <2>6 DEF FramesInv
<1> QED BY <1>2, <1>3

\* Steps that leave every buffer where it is, and the streams.
LEMMA WorkerTurns ==
    ASSUME FramesInv, Wayland!TakeFrame \/ Wayland!Encode \/ Wayland!FallBackDisables
    PROVE  FramesInv'
<1>1. /\ UNCHANGED <<negotiations, loop, callback, stale, out, taken, stream, mainAt, active, other,
                     pending, wants>>
      /\ Wayland!InSlot' = Wayland!InSlot
  <2>1. CASE Wayland!TakeFrame
    <3>1. ~slot.exported /\ slot' = [slot EXCEPT !.fresh = FALSE]
      BY <2>1 DEF Wayland!TakeFrame
    <3>2. slot'.exported = slot.exported /\ slot'.capture = slot.capture
      BY <3>1 DEF FramesInv, Wayland!WaylandTypeOK
    <3>3. Wayland!InSlot' = Wayland!InSlot
      BY <3>1, <3>2 DEF Wayland!InSlot
    <3> QED BY <2>1, <3>3 DEF Wayland!TakeFrame, Wayland!loops, Wayland!workers, Wayland!mains
  <2>2. CASE Wayland!Encode \/ Wayland!FallBackDisables
    <3>1. slot' = slot
      BY <2>2 DEF Wayland!Encode, Wayland!FallBackDisables
    <3>2. Wayland!InSlot' = Wayland!InSlot
      BY <3>1 DEF Wayland!InSlot
    <3> QED BY <2>2, <3>2 DEF Wayland!Encode, Wayland!FallBackDisables, Wayland!loops, Wayland!mains
  <2> QED BY <2>1, <2>2
<1>2. /\ format' \in [Captures -> {"none", "mapped", "exported"}]
      /\ offers' \in [Captures -> BOOLEAN]
  BY DEF FramesInv, Wayland!WaylandTypeOK, Wayland!TakeFrame, Wayland!Encode,
         Wayland!FallBackDisables, Wayland!Fallback, Wayland!loops
<1>3. /\ slot' \in [fresh : BOOLEAN, exported : BOOLEAN,
                     handle : Wayland!Buffers \cup {None}, capture : Captures \cup {None}]
      /\ zeroCopy' \in BOOLEAN
  BY DEF FramesInv, Wayland!WaylandTypeOK, Wayland!TakeFrame, Wayland!Encode,
         Wayland!FallBackDisables, Wayland!workers
<1>4. \/ encoder' = encoder
      \/ encoder \notin {"off", "ready", "give"} /\ encoder' \in {"release", "empty"}
  BY DEF Wayland!TakeFrame, Wayland!Encode, Wayland!FallBackDisables, Wayland!workers
<1>5. Wayland!WaylandTypeOK'
  BY <1>1, <1>2, <1>3, <1>4 DEF FramesInv, Wayland!WaylandTypeOK
<1>6. Linear(Kept', out') /\ OwnersKnown'
  BY <1>1, KeptStill
<1>7. AtRest' /\ Screens'
  BY <1>1, <1>4 DEF FramesInv, AtRest, Screens
<1> QED BY <1>5, <1>6, <1>7 DEF FramesInv

\* SourceDisableDmaBuf takes the slot's buffer into the thread's hands.
LEMMA Emptying ==
    ASSUME FramesInv, NEW t \in {"worker", "main"}, Wayland!EmptySlot(t), pending[t].handle = None
    PROVE  /\ pending'[t] = Wayland!InSlot /\ \A u \in {"worker", "main"} \ {t} : pending'[u] = pending[u]
           /\ Wayland!InSlot'.handle = None /\ wants' \in BOOLEAN
           /\ slot' \in [fresh : BOOLEAN, exported : BOOLEAN,
                          handle : Wayland!Buffers \cup {None}, capture : Captures \cup {None}]
           /\ pending' \in [{"worker", "main"} ->
                                [handle : Wayland!Buffers \cup {None}, from : Captures \cup {None}]]
           /\ UNCHANGED <<callback, stale, out, taken>> => Linear(Kept', out') /\ OwnersKnown'
<1>1. /\ pending' = [pending EXCEPT ![t] = Wayland!InSlot]
      /\ slot' = [Wayland!Empty EXCEPT !.capture = slot.capture] /\ wants' = FALSE
  BY DEF Wayland!EmptySlot
<1>2. pending'[t] = Wayland!InSlot /\ \A u \in {"worker", "main"} \ {t} : pending'[u] = pending[u]
  BY <1>1 DEF FramesInv, Wayland!WaylandTypeOK
<1>3. pending' \in [{"worker", "main"} ->
                       [handle : Wayland!Buffers \cup {None}, from : Captures \cup {None}]]
  BY <1>1, SlotIs DEF FramesInv, Wayland!WaylandTypeOK
<1>4. slot' = [fresh |-> FALSE, exported |-> FALSE, handle |-> None, capture |-> slot.capture]
  BY <1>1 DEF Wayland!Empty
<1>5. Wayland!InSlot'.handle = None
  BY <1>4 DEF Wayland!InSlot
<1>6. slot' \in [fresh : BOOLEAN, exported : BOOLEAN,
                 handle : Wayland!Buffers \cup {None}, capture : Captures \cup {None}]
  BY <1>4 DEF FramesInv, Wayland!WaylandTypeOK
<1>7. ASSUME UNCHANGED <<callback, stale, out, taken>>
      PROVE  Linear(Kept', out') /\ OwnersKnown'
  <2>1. /\ Kept[<<t, None>>] = None /\ Kept'[<<t, None>>] = Kept[<<"slot", None>>]
        /\ Kept'[<<"slot", None>>] = None
    BY <1>2, <1>5, KeptIs, KeptIsNext
  <2>2. \A i \in {"slot", "taken", "worker", "main"} \ {"slot", t} : Kept'[<<i, None>>] = Kept[<<i, None>>]
    BY <1>2, <1>7, KeptIs, KeptIsNext
  <2>3. Linear(Kept', out')
    BY <1>7, <2>1, <2>2, MovesOne
  <2>4. OwnersKnown'
    BY <1>2, <1>5, <1>7 DEF FramesInv, OwnersKnown
  <2> QED BY <2>3, <2>4
<1> QED BY <1>1, <1>2, <1>3, <1>5, <1>6, <1>7

LEMMA FallBackEmptiesStep ==
    ASSUME FramesInv, Wayland!FallBackEmpties
    PROVE  FramesInv'
<1>1. /\ encoder = "empty" /\ encoder' = "give" /\ Wayland!EmptySlot("worker")
      /\ UNCHANGED <<format, offers, negotiations, loop, callback, stale, out, zeroCopy, taken,
                     stream, mainAt, active, other>>
  BY DEF Wayland!FallBackEmpties, Wayland!loops, Wayland!mains
<1>2. pending["worker"].handle = None
  BY <1>1 DEF FramesInv, AtRest
<1>3. /\ \A u \in {"worker", "main"} \ {"worker"} : pending'[u] = pending[u]
      /\ Wayland!InSlot'.handle = None /\ wants' \in BOOLEAN
      /\ slot' \in [fresh : BOOLEAN, exported : BOOLEAN,
                     handle : Wayland!Buffers \cup {None}, capture : Captures \cup {None}]
      /\ pending' \in [{"worker", "main"} ->
                           [handle : Wayland!Buffers \cup {None}, from : Captures \cup {None}]]
      /\ Linear(Kept', out') /\ OwnersKnown'
  BY <1>1, <1>2, Emptying
<1>4. Wayland!WaylandTypeOK'
  BY <1>1, <1>3 DEF FramesInv, Wayland!WaylandTypeOK
<1>5. AtRest' /\ Screens'
  BY <1>1, <1>3 DEF FramesInv, AtRest, Screens
<1> QED BY <1>3, <1>4, <1>5 DEF FramesInv

\* FallBackGives, LeaveGives and RefuseGives: the thread's hands are empty.
LEMMA HandsEmpty ==
    ASSUME FramesInv, NEW t \in {"worker", "main"}, Wayland!GivesBack(pending[t]),
           pending' = [pending EXCEPT ![t] = Wayland!Nothing],
           UNCHANGED <<callback, stale, slot, taken>>
    PROVE  /\ out' \subseteq out /\ Wayland!InSlot' = Wayland!InSlot
           /\ pending'[t].handle = None /\ \A u \in {"worker", "main"} \ {t} : pending'[u] = pending[u]
           /\ pending' \in [{"worker", "main"} ->
                                [handle : Wayland!Buffers \cup {None}, from : Captures \cup {None}]]
           /\ Linear(Kept', out') /\ OwnersKnown'
<1>1. /\ pending[t] \in [handle : Wayland!Buffers \cup {None}, from : Captures \cup {None}]
      /\ pending[t].handle # None => pending[t].from = Of(pending[t].handle)
  BY DEF FramesInv, Wayland!WaylandTypeOK, OwnersKnown
<1>2. out' = out \ {pending[t].handle} /\ out' \subseteq out
  BY <1>1, GivingBack
<1>3. pending'[t] = Wayland!Nothing /\ \A u \in {"worker", "main"} \ {t} : pending'[u] = pending[u]
  BY DEF FramesInv, Wayland!WaylandTypeOK
<1>4. pending'[t].handle = None
  BY <1>3 DEF Wayland!Nothing
<1>5. pending' \in [{"worker", "main"} ->
                       [handle : Wayland!Buffers \cup {None}, from : Captures \cup {None}]]
  BY DEF FramesInv, Wayland!WaylandTypeOK, Wayland!Nothing
<1>6. Wayland!InSlot' = Wayland!InSlot
  BY DEF Wayland!InSlot
<1>7. Kept[<<t, None>>] = pending[t].handle /\ Kept'[<<t, None>>] = None
  BY <1>4, KeptIs, KeptIsNext
<1>8. \A i \in {"slot", "taken", "worker", "main"} \ {t} : Kept'[<<i, None>>] = Kept[<<i, None>>]
  BY <1>3, <1>6, KeptIs, KeptIsNext
<1>9. Linear(Kept', out')
  BY <1>2, <1>7, <1>8, GivesOne
<1>10. OwnersKnown'
  BY <1>3, <1>4, <1>6 DEF FramesInv, OwnersKnown
<1> QED BY <1>2, <1>3, <1>4, <1>5, <1>6, <1>9, <1>10

LEMMA FallBackGivesStep ==
    ASSUME FramesInv, Wayland!FallBackGives
    PROVE  FramesInv'
<1>1. /\ encoder = "give" /\ encoder' = "disable" /\ Wayland!GivesBack(pending["worker"])
      /\ pending' = [pending EXCEPT !["worker"] = Wayland!Nothing]
      /\ UNCHANGED <<format, offers, negotiations, loop, callback, stale, slot, zeroCopy, taken,
                     stream, mainAt, active, other, wants>>
  BY DEF Wayland!FallBackGives, Wayland!loops, Wayland!mains
<1>2. /\ out' \subseteq out /\ Wayland!InSlot' = Wayland!InSlot
      /\ pending'["worker"].handle = None
      /\ \A u \in {"worker", "main"} \ {"worker"} : pending'[u] = pending[u]
      /\ pending' \in [{"worker", "main"} ->
                           [handle : Wayland!Buffers \cup {None}, from : Captures \cup {None}]]
      /\ Linear(Kept', out') /\ OwnersKnown'
  BY <1>1, HandsEmpty
<1>3. Wayland!WaylandTypeOK'
  BY <1>1, <1>2 DEF FramesInv, Wayland!WaylandTypeOK
<1>4. AtRest' /\ Screens'
  BY <1>1, <1>2 DEF FramesInv, AtRest, Screens
<1> QED BY <1>2, <1>3, <1>4 DEF FramesInv

LEMMA ReleaseFrameStep ==
    ASSUME FramesInv, Wayland!ReleaseFrame
    PROVE  FramesInv'
<1>1. /\ encoder = "release" /\ encoder' = "ready" /\ Wayland!GivesBack(taken)
      /\ taken' = [taken EXCEPT !.handle = None]
      /\ UNCHANGED <<format, offers, negotiations, loop, callback, stale, slot, zeroCopy,
                     stream, mainAt, active, other, pending, wants>>
  BY DEF Wayland!ReleaseFrame, Wayland!loops, Wayland!mains
<1>2. /\ taken \in [handle : Wayland!Buffers \cup {None}, from : Captures \cup {None}]
      /\ taken.handle # None => taken.from = Of(taken.handle)
  BY DEF FramesInv, Wayland!WaylandTypeOK, OwnersKnown
<1>3. out' = out \ {taken.handle} /\ out' \subseteq out
  BY <1>1, <1>2, GivingBack
<1>4. taken'.handle = None
      /\ taken' \in [handle : Wayland!Buffers \cup {None}, from : Captures \cup {None}]
  BY <1>1, <1>2
<1>5. Wayland!InSlot' = Wayland!InSlot
  BY <1>1 DEF Wayland!InSlot
<1>6. Kept[<<"taken", None>>] = taken.handle /\ Kept'[<<"taken", None>>] = None
  BY <1>4, KeptIs, KeptIsNext
<1>7. \A i \in {"slot", "taken", "worker", "main"} \ {"taken"} : Kept'[<<i, None>>] = Kept[<<i, None>>]
  BY <1>1, <1>5, KeptIs, KeptIsNext
<1>8. Linear(Kept', out')
  BY <1>1, <1>3, <1>6, <1>7, GivesOne
<1>9. OwnersKnown'
  BY <1>1, <1>4, <1>5 DEF FramesInv, OwnersKnown
<1>10. Wayland!WaylandTypeOK'
  BY <1>1, <1>3, <1>4 DEF FramesInv, Wayland!WaylandTypeOK
<1>11. AtRest' /\ Screens'
  BY <1>1, <1>3, <1>4, <1>5 DEF FramesInv, AtRest, Screens
<1> QED BY <1>8, <1>9, <1>10, <1>11 DEF FramesInv
-----------------------------------------------------------------------------
(* The event loop's thread.  No worker runs while it changes screens.        *)

MainStates == {"idle", "stopped", "wait", "halt", "abandon", "switch", "clear", "leave", "free",
               "start", "refuse", "refused", "destroy", "last", "gone"}

LEMMA Typed ==
    ASSUME FramesInv,
           UNCHANGED <<out, loop, callback, stale, negotiations, taken>>,
           format' \in [Captures -> {"none", "mapped", "exported"}], offers' \in [Captures -> BOOLEAN],
           stream' \in [Captures -> {"unused", "running", "halted", "freed"}],
           slot' \in [fresh : BOOLEAN, exported : BOOLEAN,
                      handle : Wayland!Buffers \cup {None}, capture : Captures \cup {None}],
           encoder' \in {"off", "ready", "encode", "empty", "give", "disable", "release"},
           zeroCopy' \in BOOLEAN, wants' \in BOOLEAN, mainAt' \in MainStates,
           active' \in Captures, other' \in Captures \cup {None},
           pending' \in [{"worker", "main"} ->
                           [handle : Wayland!Buffers \cup {None}, from : Captures \cup {None}]]
    PROVE  Wayland!WaylandTypeOK'
BY DEF FramesInv, Wayland!WaylandTypeOK, MainStates

\* What the thread leaves alone when all it moves is itself or a stream.
LEMMA MainTurns ==
    ASSUME FramesInv,
           UNCHANGED <<out, loop, callback, stale, negotiations, taken, slot, pending, zeroCopy, wants>>,
           format' \in [Captures -> {"none", "mapped", "exported"}], offers' \in [Captures -> BOOLEAN],
           stream' \in [Captures -> {"unused", "running", "halted", "freed"}],
           encoder' \in {"off", "ready", "encode", "empty", "give", "disable", "release"},
           mainAt' \in MainStates, active' \in Captures, other' \in Captures \cup {None}
    PROVE  /\ Wayland!WaylandTypeOK' /\ Linear(Kept', out') /\ OwnersKnown'
           /\ Wayland!InSlot' = Wayland!InSlot
<1>1. Wayland!InSlot' = Wayland!InSlot
  BY DEF Wayland!InSlot
<1>2. Linear(Kept', out') /\ OwnersKnown'
  BY <1>1, KeptStill
<1>3. /\ zeroCopy' \in BOOLEAN /\ wants' \in BOOLEAN
      /\ slot' \in [fresh : BOOLEAN, exported : BOOLEAN,
                     handle : Wayland!Buffers \cup {None}, capture : Captures \cup {None}]
      /\ pending' \in [{"worker", "main"} ->
                           [handle : Wayland!Buffers \cup {None}, from : Captures \cup {None}]]
  BY DEF FramesInv, Wayland!WaylandTypeOK
<1>4. Wayland!WaylandTypeOK'
  BY <1>3, Typed
<1> QED BY <1>1, <1>2, <1>4

LEMMA Now ==
    ASSUME FramesInv
    PROVE  /\ format \in [Captures -> {"none", "mapped", "exported"}] /\ offers \in [Captures -> BOOLEAN]
           /\ stream \in [Captures -> {"unused", "running", "halted", "freed"}]
           /\ encoder \in {"off", "ready", "encode", "empty", "give", "disable", "release"}
           /\ mainAt \in MainStates /\ active \in Captures /\ other \in Captures \cup {None}
BY DEF FramesInv, Wayland!WaylandTypeOK, MainStates

LEMMA JoinWorkerStep ==
    ASSUME FramesInv, Wayland!JoinWorker
    PROVE  FramesInv'
<1>1. /\ mainAt = "idle" /\ encoder = "ready" /\ encoder' = "off" /\ mainAt' = "stopped"
      /\ UNCHANGED <<format, offers, negotiations, loop, callback, stale, out, slot, zeroCopy, taken,
                     stream, active, other, pending, wants>>
  BY DEF Wayland!JoinWorker, Wayland!loops
<1>2. Wayland!WaylandTypeOK' /\ Linear(Kept', out') /\ OwnersKnown' /\ Wayland!InSlot' = Wayland!InSlot
  BY <1>1, Now, MainTurns DEF MainStates
<1>3. AtRest' /\ Screens'
  BY <1>1, <1>2 DEF FramesInv, AtRest, Screens
<1> QED BY <1>2, <1>3 DEF FramesInv

LEMMA CaptureStartStep ==
    ASSUME FramesInv, Wayland!CaptureStart
    PROVE  FramesInv'
<1>1. PICK c \in Captures :
        /\ stream[c] = "unused" /\ stream' = [stream EXCEPT ![c] = "running"]
        /\ offers' = [offers EXCEPT ![c] = wants] /\ other' = c
  BY DEF Wayland!CaptureStart
<1>2. /\ mainAt = "stopped" /\ mainAt' = "wait"
      /\ UNCHANGED <<format, negotiations, loop, callback, stale, out, slot, encoder, zeroCopy, taken,
                     active, pending, wants>>
  BY DEF Wayland!CaptureStart, Wayland!workers
<1>3. /\ stream' \in [Captures -> {"unused", "running", "halted", "freed"}]
      /\ offers' \in [Captures -> BOOLEAN]
      /\ stream'[c] = "running" /\ \A d \in Captures \ {c} : stream'[d] = stream[d]
  BY <1>1 DEF FramesInv, Wayland!WaylandTypeOK
<1>4. Wayland!WaylandTypeOK' /\ Linear(Kept', out') /\ OwnersKnown' /\ Wayland!InSlot' = Wayland!InSlot
  BY <1>1, <1>2, <1>3, Now, MainTurns DEF MainStates
<1>5. AtRest'
  BY <1>2, <1>3 DEF FramesInv, AtRest
<1>6. Screens'
  <2>1. active \in Captures /\ stream[active] = "running" /\ active # c
    BY <1>1, <1>2, Now DEF FramesInv, Screens
  <2>2. \A b \in out : Of(b) \in Captures
    BY BuffersAre DEF FramesInv, Wayland!WaylandTypeOK
  <2> QED BY <1>1, <1>2, <1>3, <2>1, <2>2 DEF FramesInv, Screens
<1> QED BY <1>4, <1>5, <1>6 DEF FramesInv

LEMMA WaitFormatStep ==
    ASSUME FramesInv, Wayland!WaitFormat
    PROVE  FramesInv'
<1>1. /\ mainAt = "wait" /\ mainAt' \in {"wait", "halt", "abandon"}
      /\ UNCHANGED <<negotiations, loop, callback, stale, out, slot, encoder, zeroCopy, taken, stream,
                     active, other, pending, wants>>
  BY DEF Wayland!WaitFormat, Wayland!workers
<1>2. /\ format' \in [Captures -> {"none", "mapped", "exported"}]
      /\ offers' \in [Captures -> BOOLEAN]
  BY Now DEF Wayland!WaitFormat, Wayland!Fallback
<1>3. Wayland!WaylandTypeOK' /\ Linear(Kept', out') /\ OwnersKnown' /\ Wayland!InSlot' = Wayland!InSlot
  BY <1>1, <1>2, Now, MainTurns DEF MainStates
<1>4. AtRest' /\ Screens'
  BY <1>1, <1>3 DEF FramesInv, AtRest, Screens
<1> QED BY <1>3, <1>4 DEF FramesInv

LEMMA CaptureHaltStep ==
    ASSUME FramesInv, Wayland!CaptureHalt
    PROVE  FramesInv'
<1> DEFINE c == IF mainAt = "halt" THEN active ELSE other
<1>1. /\ mainAt \in {"halt", "abandon"} /\ loop[c] = "idle"
      /\ stream' = [stream EXCEPT ![c] = "halted"]
      /\ mainAt' = IF mainAt = "halt" THEN "switch" ELSE "clear"
      /\ UNCHANGED <<format, offers, negotiations, loop, callback, stale, out, slot, encoder, zeroCopy,
                     taken, active, other, pending, wants>>
  BY DEF Wayland!CaptureHalt, Wayland!loops, Wayland!workers
<1>2. /\ active \in Captures /\ other \in Captures /\ other # active
      /\ stream[active] = "running" /\ stream[other] = "running"
  BY <1>1, Now DEF FramesInv, Screens
<1>3. c \in Captures
  BY <1>2
<1>4. /\ stream' \in [Captures -> {"unused", "running", "halted", "freed"}]
      /\ stream'[c] = "halted" /\ \A d \in Captures \ {c} : stream'[d] = stream[d]
  BY <1>1, <1>3 DEF FramesInv, Wayland!WaylandTypeOK
<1>5. Wayland!WaylandTypeOK' /\ Linear(Kept', out') /\ OwnersKnown' /\ Wayland!InSlot' = Wayland!InSlot
  BY <1>1, <1>4, Now, MainTurns DEF MainStates
<1>6. AtRest'
  <2> HIDE DEF c
  <2> QED BY <1>1, <1>3, <1>4 DEF FramesInv, AtRest
<1>7. Screens'
  <2>1. \A b \in out : Of(b) \in Captures
    BY BuffersAre DEF FramesInv, Wayland!WaylandTypeOK
  <2>2. \A b \in out : stream'[Of(b)] \in {"running", "halted"}
    BY <1>4, <2>1 DEF FramesInv, Screens
  <2>3. CASE mainAt = "halt"
    BY <1>1, <1>2, <1>4, <2>2, <2>3 DEF Screens
  <2>4. CASE mainAt = "abandon"
    BY <1>1, <1>2, <1>4, <2>2, <2>4 DEF Screens
  <2> QED BY <1>1, <2>3, <2>4
<1> QED BY <1>5, <1>6, <1>7 DEF FramesInv

LEMMA SwitchStep ==
    ASSUME FramesInv, Wayland!Switch
    PROVE  FramesInv'
<1>1. /\ mainAt = "switch" /\ mainAt' = "leave" /\ active' = other /\ other' = active
      /\ pending' = [pending EXCEPT !["main"] = Wayland!InSlot] /\ slot' = Wayland!Empty
      /\ UNCHANGED <<format, offers, negotiations, loop, callback, stale, out, encoder, zeroCopy,
                     taken, stream, wants>>
  BY DEF Wayland!Switch, Wayland!loops, Wayland!workers
<1>2. /\ active \in Captures /\ other \in Captures /\ other # active
      /\ stream[active] = "halted" /\ stream[other] = "running" /\ pending["main"].handle = None
      /\ encoder = "off"
  BY <1>1, Now DEF FramesInv, Screens, AtRest
<1>3. Wayland!InSlot'.handle = None
  BY <1>1 DEF Wayland!InSlot, Wayland!Empty
<1>4. pending'["main"] = Wayland!InSlot /\ pending'["worker"] = pending["worker"]
  BY <1>1 DEF FramesInv, Wayland!WaylandTypeOK
<1>5. Wayland!WaylandTypeOK'
  <2>1. pending' \in [{"worker", "main"} ->
                         [handle : Wayland!Buffers \cup {None}, from : Captures \cup {None}]]
    BY <1>1, SlotIs DEF FramesInv, Wayland!WaylandTypeOK
  <2>2. slot' \in [fresh : BOOLEAN, exported : BOOLEAN,
                   handle : Wayland!Buffers \cup {None}, capture : Captures \cup {None}]
    BY <1>1 DEF Wayland!Empty
  <2>3. zeroCopy' \in BOOLEAN /\ wants' \in BOOLEAN
    BY <1>1 DEF FramesInv, Wayland!WaylandTypeOK
  <2> QED BY <1>1, <1>2, <2>1, <2>2, <2>3, Now, Typed DEF MainStates
<1>6. Linear(Kept', out')
  <2>1. /\ Kept[<<"main", None>>] = None /\ Kept'[<<"main", None>>] = Kept[<<"slot", None>>]
        /\ Kept'[<<"slot", None>>] = None
    BY <1>2, <1>3, <1>4, KeptIs, KeptIsNext
  <2>2. \A i \in {"taken", "worker"} : Kept'[<<i, None>>] = Kept[<<i, None>>]
    BY <1>1, <1>4, KeptIs, KeptIsNext
  <2> QED BY <1>1, <2>1, <2>2, MovesOne
<1>7. OwnersKnown'
  BY <1>1, <1>3, <1>4 DEF FramesInv, OwnersKnown
<1>8. AtRest'
  BY <1>1, <1>4 DEF FramesInv, AtRest
<1>9. Screens'
  BY <1>1, <1>2, <1>3 DEF FramesInv, Screens
<1> QED BY <1>5, <1>6, <1>7, <1>8, <1>9 DEF FramesInv

LEMMA AbandonStep ==
    ASSUME FramesInv, Wayland!Abandon
    PROVE  FramesInv'
<1>1. /\ mainAt = "clear" /\ mainAt' = "leave"
      /\ UNCHANGED <<format, offers, negotiations, loop, callback, stale, out, encoder, zeroCopy,
                     taken, stream, active, other, wants>>
  BY DEF Wayland!Abandon, Wayland!loops, Wayland!workers
<1>2. /\ other \in Captures /\ other # active /\ stream[active] = "running"
      /\ stream[other] = "halted" /\ pending["main"].handle = None /\ encoder = "off"
  BY <1>1 DEF FramesInv, Screens, AtRest
<1>3. CASE slot.exported /\ slot.capture = other
  <2>1. pending' = [pending EXCEPT !["main"] = Wayland!InSlot] /\ slot' = Wayland!Empty
    BY <1>3 DEF Wayland!Abandon
  <2>2. Wayland!InSlot'.handle = None
    BY <2>1 DEF Wayland!InSlot, Wayland!Empty
  <2>3. pending'["main"] = Wayland!InSlot /\ pending'["worker"] = pending["worker"]
    BY <2>1 DEF FramesInv, Wayland!WaylandTypeOK
  <2>4. Wayland!WaylandTypeOK'
    <3>1. pending' \in [{"worker", "main"} ->
                           [handle : Wayland!Buffers \cup {None}, from : Captures \cup {None}]]
      BY <2>1, SlotIs DEF FramesInv, Wayland!WaylandTypeOK
    <3>2. slot' \in [fresh : BOOLEAN, exported : BOOLEAN,
                     handle : Wayland!Buffers \cup {None}, capture : Captures \cup {None}]
      BY <2>1 DEF Wayland!Empty
    <3>3. zeroCopy' \in BOOLEAN /\ wants' \in BOOLEAN
      BY <1>1 DEF FramesInv, Wayland!WaylandTypeOK
    <3> QED BY <1>1, <3>1, <3>2, <3>3, Now, Typed DEF MainStates
  <2>5. Linear(Kept', out')
    <3>1. /\ Kept[<<"main", None>>] = None /\ Kept'[<<"main", None>>] = Kept[<<"slot", None>>]
          /\ Kept'[<<"slot", None>>] = None
      BY <1>2, <2>2, <2>3, KeptIs, KeptIsNext
    <3>2. \A i \in {"taken", "worker"} : Kept'[<<i, None>>] = Kept[<<i, None>>]
      BY <1>1, <2>3, KeptIs, KeptIsNext
    <3> QED BY <1>1, <3>1, <3>2, MovesOne
  <2>6. OwnersKnown'
    BY <1>1, <2>2, <2>3 DEF FramesInv, OwnersKnown
  <2>7. AtRest'
    BY <1>1, <2>3 DEF FramesInv, AtRest
  <2>8. Screens'
    BY <1>1, <1>2, <2>2 DEF FramesInv, Screens
  <2> QED BY <2>4, <2>5, <2>6, <2>7, <2>8 DEF FramesInv
<1>4. CASE ~(slot.exported /\ slot.capture = other)
  <2>1. UNCHANGED <<pending, slot>>
    BY <1>4 DEF Wayland!Abandon
  <2>2. Wayland!WaylandTypeOK' /\ Linear(Kept', out') /\ OwnersKnown' /\ Wayland!InSlot' = Wayland!InSlot
    BY <1>1, <2>1, Now, MainTurns DEF MainStates
  <2>3. Wayland!InSlot.handle # None => Wayland!InSlot.from # other
    BY <1>4, SlotIs DEF FramesInv
  <2>4. AtRest'
    BY <1>1, <2>1 DEF FramesInv, AtRest
  <2>5. Screens'
    BY <1>1, <1>2, <2>2, <2>3 DEF FramesInv, Screens
  <2> QED BY <2>2, <2>4, <2>5 DEF FramesInv
<1> QED BY <1>3, <1>4

LEMMA MainGivesStep ==
    ASSUME FramesInv, Wayland!LeaveGives \/ Wayland!RefuseGives
    PROVE  FramesInv'
<1>1. /\ \/ mainAt = "leave" /\ mainAt' = "free"
         \/ mainAt = "refuse" /\ mainAt' = "refused"
      /\ Wayland!GivesBack(pending["main"])
      /\ pending' = [pending EXCEPT !["main"] = Wayland!Nothing]
      /\ UNCHANGED <<format, offers, negotiations, loop, callback, stale, slot, encoder, zeroCopy,
                     taken, stream, active, other, wants>>
  <2>1. CASE Wayland!LeaveGives
    BY <2>1 DEF Wayland!LeaveGives, Wayland!loops, Wayland!workers
  <2>2. CASE Wayland!RefuseGives
    BY <2>2 DEF Wayland!RefuseGives, Wayland!loops, Wayland!workers
  <2> QED BY <2>1, <2>2
<1>2. /\ out' \subseteq out /\ Wayland!InSlot' = Wayland!InSlot
      /\ pending'["main"].handle = None
      /\ \A u \in {"worker", "main"} \ {"main"} : pending'[u] = pending[u]
      /\ pending' \in [{"worker", "main"} ->
                           [handle : Wayland!Buffers \cup {None}, from : Captures \cup {None}]]
      /\ Linear(Kept', out') /\ OwnersKnown'
  BY <1>1, HandsEmpty
<1>3. Wayland!WaylandTypeOK'
  BY <1>1, <1>2 DEF FramesInv, Wayland!WaylandTypeOK
<1>4. AtRest' /\ Screens'
  BY <1>1, <1>2 DEF FramesInv, AtRest, Screens
<1> QED BY <1>2, <1>3, <1>4 DEF FramesInv

\* Nothing of the stream that is freed is out.
LEMMA CaptureStopStep ==
    ASSUME FramesInv, Wayland!CaptureStop
    PROVE  FramesInv'
<1>1. /\ mainAt = "free" /\ mainAt' = "start" /\ other' = None
      /\ stream' = [stream EXCEPT ![other] = "freed"]
      /\ UNCHANGED <<format, offers, negotiations, loop, callback, stale, out, slot, encoder, zeroCopy,
                     taken, active, pending, wants>>
  BY DEF Wayland!CaptureStop, Wayland!loops, Wayland!workers
<1>2. /\ other \in Captures /\ other # active /\ stream[active] = "running"
      /\ stream[other] = "halted" /\ loop[other] = "idle"
      /\ Wayland!InSlot.handle # None => Wayland!InSlot.from # other
      /\ encoder = "off" /\ taken.handle = None
      /\ pending["worker"].handle = None /\ pending["main"].handle = None
      /\ callback[other] = None /\ stale[other] = None
  BY <1>1 DEF FramesInv, Screens, AtRest
<1>3. /\ stream' \in [Captures -> {"unused", "running", "halted", "freed"}]
      /\ stream'[other] = "freed" /\ \A d \in Captures \ {other} : stream'[d] = stream[d]
  BY <1>1, <1>2 DEF FramesInv, Wayland!WaylandTypeOK
<1>4. Wayland!WaylandTypeOK' /\ Linear(Kept', out') /\ OwnersKnown' /\ Wayland!InSlot' = Wayland!InSlot
  BY <1>1, <1>3, Now, MainTurns DEF MainStates
<1>5. AtRest'
  BY <1>1, <1>2, <1>3 DEF FramesInv, AtRest
<1>6. \A b \in out : Of(b) # other
  <2> SUFFICES ASSUME NEW b \in out, Of(b) = other PROVE FALSE
    OBVIOUS
  <2>1. PICK p \in Places : Kept[p] = b /\ b # None
    BY DEF FramesInv, Linear
  <2>2. ASSUME NEW c \in Captures, p \in {<<"hand", c>>, <<"stale", c>>} PROVE FALSE
    <3>1. callback[c] = b \/ stale[c] = b
      BY <2>1, <2>2, KeptIs
    <3>2. c = other
      BY <2>1, <3>1 DEF FramesInv, OwnersKnown
    <3> QED BY <1>2, <2>1, <3>1, <3>2
  <2>3. CASE p = <<"slot", None>>
    <3>1. Wayland!InSlot.handle = b
      BY <2>1, <2>3, KeptIs
    <3> QED BY <1>2, <2>1, <3>1 DEF FramesInv, OwnersKnown
  <2>4. CASE p \in {<<"taken", None>>, <<"worker", None>>, <<"main", None>>}
    BY <1>2, <2>1, <2>4, KeptIs
  <2> QED BY <2>2, <2>3, <2>4, PlaceKinds
<1>7. Screens'
  <2>1. \A b \in out : Of(b) \in Captures
    BY BuffersAre DEF FramesInv, Wayland!WaylandTypeOK
  <2>2. \A b \in out : stream'[Of(b)] \in {"running", "halted"}
    BY <1>3, <1>6, <2>1 DEF FramesInv, Screens
  <2>3. active \in Captures
    BY Now
  <2> QED BY <1>1, <1>2, <1>3, <2>2, <2>3 DEF Screens
<1> QED BY <1>4, <1>5, <1>7 DEF FramesInv

LEMMA StartWorkerStep ==
    ASSUME FramesInv, Wayland!StartWorker
    PROVE  FramesInv'
<1>1. /\ mainAt \in {"stopped", "start"}
      /\ UNCHANGED <<format, offers, negotiations, loop, callback, stale, out, taken, stream, active,
                     other>>
  BY DEF Wayland!StartWorker, Wayland!loops
<1>2. /\ encoder = "off" /\ taken.handle = None /\ pending["worker"].handle = None
      /\ pending["main"].handle = None
  BY <1>1 DEF FramesInv, AtRest
<1>3. CASE /\ zeroCopy' = (format[active] = "exported") /\ encoder' = "ready" /\ mainAt' = "idle"
           /\ UNCHANGED <<slot, pending, wants>>
  <2>1. zeroCopy' \in BOOLEAN /\ wants' \in BOOLEAN
    BY <1>3 DEF FramesInv, Wayland!WaylandTypeOK
  <2>2. Wayland!InSlot' = Wayland!InSlot
    BY <1>3 DEF Wayland!InSlot
  <2>3. Linear(Kept', out') /\ OwnersKnown'
    BY <1>1, <1>3, <2>2, KeptStill
  <2>4. /\ slot' \in [fresh : BOOLEAN, exported : BOOLEAN,
                       handle : Wayland!Buffers \cup {None}, capture : Captures \cup {None}]
        /\ pending' \in [{"worker", "main"} ->
                             [handle : Wayland!Buffers \cup {None}, from : Captures \cup {None}]]
    BY <1>3 DEF FramesInv, Wayland!WaylandTypeOK
  <2>5. Wayland!WaylandTypeOK'
    BY <1>1, <1>3, <2>1, <2>4, Now, Typed DEF MainStates
  <2>6. AtRest'
    BY <1>1, <1>2, <1>3 DEF FramesInv, AtRest
  <2>7. Screens'
    BY <1>1, <1>3, <2>2 DEF FramesInv, Screens
  <2> QED BY <2>3, <2>5, <2>6, <2>7 DEF FramesInv
<1>4. CASE Wayland!EmptySlot("main") /\ mainAt' = "refuse" /\ UNCHANGED <<encoder, zeroCopy>>
  <2>1. /\ pending'["worker"] = pending["worker"]
        /\ Wayland!InSlot'.handle = None /\ wants' \in BOOLEAN
        /\ slot' \in [fresh : BOOLEAN, exported : BOOLEAN,
                       handle : Wayland!Buffers \cup {None}, capture : Captures \cup {None}]
        /\ pending' \in [{"worker", "main"} ->
                             [handle : Wayland!Buffers \cup {None}, from : Captures \cup {None}]]
        /\ Linear(Kept', out') /\ OwnersKnown'
    BY <1>1, <1>2, <1>4, Emptying
  <2>2. zeroCopy' \in BOOLEAN
    BY <1>4 DEF FramesInv, Wayland!WaylandTypeOK
  <2>3. Wayland!WaylandTypeOK'
    BY <1>1, <1>4, <2>1, <2>2, Now, Typed DEF MainStates
  <2>4. AtRest'
    BY <1>1, <1>2, <1>4, <2>1 DEF FramesInv, AtRest
  <2>5. Screens'
    BY <1>1, <1>4, <2>1 DEF FramesInv, Screens
  <2> QED BY <2>1, <2>3, <2>4, <2>5 DEF FramesInv
<1> QED BY <1>3, <1>4 DEF Wayland!StartWorker

LEMMA RefuseDisablesStep ==
    ASSUME FramesInv, Wayland!RefuseDisables
    PROVE  FramesInv'
<1>1. /\ mainAt = "refused" /\ mainAt' = "idle" /\ encoder' = "ready" /\ zeroCopy' = FALSE
      /\ UNCHANGED <<negotiations, loop, callback, stale, out, slot, taken, stream, active, other,
                     pending, wants>>
  BY DEF Wayland!RefuseDisables
<1>2. /\ format' \in [Captures -> {"none", "mapped", "exported"}]
      /\ offers' \in [Captures -> BOOLEAN]
  BY Now DEF Wayland!RefuseDisables, Wayland!Fallback
<1>3. Wayland!InSlot' = Wayland!InSlot
  BY <1>1 DEF Wayland!InSlot
<1>4. Linear(Kept', out') /\ OwnersKnown'
  BY <1>1, <1>3, KeptStill
<1>5. /\ slot' \in [fresh : BOOLEAN, exported : BOOLEAN,
                     handle : Wayland!Buffers \cup {None}, capture : Captures \cup {None}]
      /\ wants' \in BOOLEAN
      /\ pending' \in [{"worker", "main"} ->
                           [handle : Wayland!Buffers \cup {None}, from : Captures \cup {None}]]
  BY <1>1 DEF FramesInv, Wayland!WaylandTypeOK
<1>6. Wayland!WaylandTypeOK'
  BY <1>1, <1>2, <1>5, Now, Typed DEF MainStates
<1>7. /\ encoder = "off" /\ taken.handle = None /\ pending["worker"].handle = None
  BY <1>1 DEF FramesInv, AtRest
<1>8. AtRest'
  BY <1>1, <1>7 DEF FramesInv, AtRest
<1>9. Screens'
  BY <1>1, <1>3 DEF FramesInv, Screens
<1> QED BY <1>4, <1>6, <1>8, <1>9 DEF FramesInv

\* The rest of a host that stops keeps no account of what it has lent.
LEMMA DestroyReadsStep ==
    ASSUME Wayland!DestroyReads \/ Wayland!DestroyGives \/ Wayland!DestroyStops
    PROVE  mainAt' \in Going
<1>1. CASE Wayland!DestroyReads
  BY <1>1 DEF Wayland!DestroyReads, Going
<1>2. CASE Wayland!DestroyGives
  BY <1>2 DEF Wayland!DestroyGives, Going
<1>3. CASE Wayland!DestroyStops
  BY <1>3 DEF Wayland!DestroyStops, Going
<1> QED BY <1>1, <1>2, <1>3

LEMMA FramesStutter ==
    ASSUME FramesInv, UNCHANGED Wayland!vars
    PROVE  FramesInv'
<1>1. UNCHANGED <<format, offers, negotiations, loop, callback, stale, out, slot, encoder, zeroCopy,
                  taken, stream, mainAt, active, other, pending, wants>>
  BY DEF Wayland!vars, Wayland!loops, Wayland!workers, Wayland!mains
<1>2. Wayland!InSlot' = Wayland!InSlot
  BY <1>1 DEF Wayland!InSlot
<1>3. Linear(Kept', out') /\ OwnersKnown'
  BY <1>1, <1>2, KeptStill
<1>4. Wayland!WaylandTypeOK'
  BY <1>1 DEF FramesInv, Wayland!WaylandTypeOK
<1>5. AtRest'
  BY <1>1 DEF FramesInv, AtRest
<1>6. Screens'
  BY <1>1, <1>2 DEF FramesInv, Screens
<1> QED BY <1>3, <1>4, <1>5, <1>6 DEF FramesInv

LEMMA FramesStep ==
    ASSUME FramesInv, [Wayland!WaylandNext]_(Wayland!vars)
    PROVE  FramesInv' \/ mainAt' \in Going
<1>1. ASSUME NEW c \in Captures, Wayland!Loop(c) PROVE FramesInv'
  BY <1>1, ParamChangedStep, ProcessStep, ElsewhereStep, OnFrameStep, DropStep DEF Wayland!Loop
<1>2. CASE Wayland!Worker
  BY <1>2, TakeDmaBufStep, WorkerTurns, FallBackEmptiesStep, FallBackGivesStep, ReleaseFrameStep
     DEF Wayland!Worker
<1>3. CASE Wayland!Main
  BY <1>3, JoinWorkerStep, CaptureStartStep, WaitFormatStep, CaptureHaltStep, SwitchStep,
     AbandonStep, MainGivesStep, CaptureStopStep, StartWorkerStep, RefuseDisablesStep,
     DestroyReadsStep
     DEF Wayland!Main
<1>4. CASE UNCHANGED Wayland!vars
  BY <1>4, FramesStutter
<1> QED BY <1>1, <1>2, <1>3, <1>4 DEF Wayland!WaylandNext

LEMMA GoingStays ==
    ASSUME mainAt \in Going, [Wayland!WaylandNext]_(Wayland!vars)
    PROVE  mainAt' \in Going
<1>1. ASSUME NEW c \in Captures, Wayland!Loop(c) PROVE mainAt' = mainAt
  <2>1. CASE Wayland!OnParamChanged(c) \/ Wayland!OnProcess(c) \/ Wayland!Undescribed(c)
    BY <2>1 DEF Wayland!OnParamChanged, Wayland!OnProcess, Wayland!Undescribed, Wayland!mains
  <2>2. CASE Wayland!OnFrameElsewhere(c) \/ Wayland!OnFrame(c) \/ Wayland!Drop(c)
    BY <2>2 DEF Wayland!OnFrameElsewhere, Wayland!OnFrame, Wayland!Drop, Wayland!mains
  <2> QED BY <1>1, <2>1, <2>2 DEF Wayland!Loop
<1>2. ASSUME Wayland!Worker PROVE mainAt' = mainAt
  <2>1. CASE Wayland!TakeDmaBuf \/ Wayland!TakeFrame \/ Wayland!Encode
    BY <2>1 DEF Wayland!TakeDmaBuf, Wayland!TakeFrame, Wayland!Encode, Wayland!mains
  <2>2. CASE Wayland!FallBackEmpties \/ Wayland!FallBackGives
    BY <2>2 DEF Wayland!FallBackEmpties, Wayland!FallBackGives, Wayland!mains
  <2>3. CASE Wayland!FallBackDisables \/ Wayland!ReleaseFrame
    BY <2>3 DEF Wayland!FallBackDisables, Wayland!ReleaseFrame, Wayland!mains
  <2> QED BY <1>2, <2>1, <2>2, <2>3 DEF Wayland!Worker
<1>3. ASSUME Wayland!Main PROVE mainAt' \in Going
  <2>1. ~(Wayland!JoinWorker \/ Wayland!CaptureStart \/ Wayland!WaitFormat \/ Wayland!CaptureHalt)
    BY DEF Wayland!JoinWorker, Wayland!CaptureStart, Wayland!WaitFormat, Wayland!CaptureHalt, Going
  <2>2. ~(Wayland!Switch \/ Wayland!Abandon \/ Wayland!LeaveGives \/ Wayland!CaptureStop)
    BY DEF Wayland!Switch, Wayland!Abandon, Wayland!LeaveGives, Wayland!CaptureStop, Going
  <2>3. ~(Wayland!StartWorker \/ Wayland!RefuseGives \/ Wayland!RefuseDisables)
    BY DEF Wayland!StartWorker, Wayland!RefuseGives, Wayland!RefuseDisables, Going
  <2> QED BY <1>3, <2>1, <2>2, <2>3, DestroyReadsStep DEF Wayland!Main
<1>4. ASSUME UNCHANGED Wayland!vars PROVE mainAt' = mainAt
  BY <1>4 DEF Wayland!vars, Wayland!mains
<1> QED BY <1>1, <1>2, <1>3, <1>4 DEF Wayland!WaylandNext

LEMMA FramesInit ==
    ASSUME Wayland!WaylandInit
    PROVE  FramesInv
<1>1. PICK c \in Captures :
        /\ stream = [d \in Captures |-> IF d = c THEN "running" ELSE "unused"]
        /\ format \in {[d \in Captures |-> IF d = c THEN f ELSE "none"] : f \in {"mapped", "exported"}}
        /\ offers = [d \in Captures |-> d = c]
        /\ negotiations = 0 /\ out = {}
        /\ loop = [d \in Captures |-> "idle"]
        /\ callback = [d \in Captures |-> None] /\ stale = [d \in Captures |-> None]
        /\ slot = Wayland!Empty /\ encoder = "off" /\ zeroCopy = FALSE /\ taken = Wayland!Nothing
        /\ mainAt = "start" /\ active = c /\ other = None
        /\ pending = [t \in {"worker", "main"} |-> Wayland!Nothing] /\ wants = TRUE
  BY DEF Wayland!WaylandInit
<1>2. taken.handle = None /\ \A t \in {"worker", "main"} : pending[t].handle = None
  BY <1>1 DEF Wayland!Nothing
<1>3. Wayland!InSlot.handle = None
  BY <1>1 DEF Wayland!Empty, Wayland!InSlot
<1>4. Wayland!WaylandTypeOK
  <2>1. format \in [Captures -> {"none", "mapped", "exported"}]
    BY <1>1
  <2>2. slot \in [fresh : BOOLEAN, exported : BOOLEAN,
                  handle : Wayland!Buffers \cup {None}, capture : Captures \cup {None}]
    BY <1>1 DEF Wayland!Empty
  <2>3. /\ taken \in [handle : Wayland!Buffers \cup {None}, from : Captures \cup {None}]
        /\ pending \in [{"worker", "main"} ->
                             [handle : Wayland!Buffers \cup {None}, from : Captures \cup {None}]]
    BY <1>1 DEF Wayland!Nothing
  <2>4. negotiations \in 0..MaxNegotiations
    BY <1>1, FramesAssumption
  <2>5. /\ stream \in [Captures -> {"unused", "running", "halted", "freed"}]
        /\ offers \in [Captures -> BOOLEAN]
        /\ loop \in [Captures -> {"idle", "frame", "drop"}]
        /\ callback \in [Captures -> Wayland!Buffers \cup {None}]
        /\ stale \in [Captures -> Wayland!Buffers \cup {None}]
    BY <1>1
  <2> QED BY <1>1, <2>1, <2>2, <2>3, <2>4, <2>5 DEF Wayland!WaylandTypeOK
<1>5. Linear(Kept, out)
  <2>1. \A p \in Places : Kept[p] = None
    BY <1>1, <1>2, <1>3, PlaceKinds, KeptIs
  <2>2. {Kept[p] : p \in Places} \ {None} = {}
    BY <2>1
  <2> QED BY <1>1, <2>1, <2>2 DEF Linear
<1>6. OwnersKnown /\ AtRest /\ Screens
  BY <1>1, <1>2, <1>3 DEF OwnersKnown, AtRest, Screens
<1> QED BY <1>4, <1>5, <1>6 DEF FramesInv

\* The hands BuffersGoHome counts are these places.
LEMMA HoldersAre ==
    ASSUME FramesInv, NEW b \in Wayland!Buffers
    PROVE  /\ b \notin out => Wayland!Holders(b) = {}
           /\ b \in out => \E h : Wayland!Holders(b) = {h}
<1>1. b # None
  BY FramesAssumption
<1> DEFINE Hands == {<<"hand", c>> : c \in {d \in Captures : callback[d] = b}}
           Stales == {<<"stale", c>> : c \in {d \in Captures : stale[d] = b}}
           Pendings == {<<"pending", t>> : t \in {u \in {"worker", "main"} : pending[u].handle = b}}
           Newest == IF slot.exported /\ slot.handle = b THEN {"slot"} ELSE {}
           Takens == IF taken.handle = b THEN {"taken"} ELSE {}
<1>2. Wayland!Holders(b) = Hands \cup Stales \cup Pendings \cup Newest \cup Takens
  BY DEF Wayland!Holders
<1>3. slot.exported /\ slot.handle = b <=> Wayland!InSlot.handle = b
  BY <1>1 DEF Wayland!InSlot
<1>4. b \in out <=> \E p \in Places : Kept[p] = b
  BY <1>1 DEF FramesInv, Linear
<1>5. CASE b \notin out
  <2>1. \A p \in Places : Kept[p] # b
    BY <1>4, <1>5
  <2>2. Hands = {} /\ Stales = {}
    <3>1. \A c \in Captures : callback[c] # b /\ stale[c] # b
      BY <2>1, PlaceKinds, KeptIs
    <3> QED BY <3>1
  <2>3. Pendings = {} /\ Newest = {} /\ Takens = {}
    BY <1>3, <2>1, PlaceKinds, KeptIs
  <2> QED BY <1>2, <1>5, <2>2, <2>3
<1>6. CASE b \in out
  <2>1. PICK p \in Places : Kept[p] = b
    BY <1>4, <1>6
  <2>2. \A q \in Places : Kept[q] = b => q = p
    BY <1>1, <2>1 DEF FramesInv, Linear
  <2>3. /\ \A c \in Captures : callback[c] = b => p = <<"hand", c>>
        /\ \A c \in Captures : stale[c] = b => p = <<"stale", c>>
        /\ pending["worker"].handle = b => p = <<"worker", None>>
        /\ pending["main"].handle = b => p = <<"main", None>>
        /\ slot.exported /\ slot.handle = b => p = <<"slot", None>>
        /\ taken.handle = b => p = <<"taken", None>>
    <3>1. ASSUME NEW c \in Captures
          PROVE  /\ callback[c] = b => p = <<"hand", c>>
                 /\ stale[c] = b => p = <<"stale", c>>
      <4>1. <<"hand", c>> \in Places /\ Kept[<<"hand", c>>] = callback[c]
        BY PlaceKinds, KeptIs
      <4>2. <<"stale", c>> \in Places /\ Kept[<<"stale", c>>] = stale[c]
        BY PlaceKinds, KeptIs
      <4> QED BY <2>2, <4>1, <4>2
    <3>2. \A k \in {"slot", "taken", "worker", "main"} : Kept[<<k, None>>] = b => p = <<k, None>>
      BY <2>2, PlaceKinds
    <3> QED BY <1>3, <3>1, <3>2, KeptIs
  <2>4. ASSUME NEW c \in Captures, p = <<"hand", c>> PROVE Wayland!Holders(b) = {<<"hand", c>>}
    <3>1. callback[c] = b
      BY <2>1, <2>4, KeptIs
    <3>2. Hands = {<<"hand", c>>}
      BY <2>3, <2>4, <3>1
    <3>3. Stales = {} /\ Pendings = {} /\ Newest = {} /\ Takens = {}
      BY <2>3, <2>4
    <3> QED BY <1>2, <3>2, <3>3
  <2>5. ASSUME NEW c \in Captures, p = <<"stale", c>> PROVE Wayland!Holders(b) = {<<"stale", c>>}
    <3>1. stale[c] = b
      BY <2>1, <2>5, KeptIs
    <3>2. Stales = {<<"stale", c>>}
      BY <2>3, <2>5, <3>1
    <3>3. Hands = {} /\ Pendings = {} /\ Newest = {} /\ Takens = {}
      BY <2>3, <2>5
    <3> QED BY <1>2, <3>2, <3>3
  <2>6. ASSUME p = <<"slot", None>> PROVE Wayland!Holders(b) = {"slot"}
    <3>1. slot.exported /\ slot.handle = b
      BY <1>3, <2>1, <2>6, KeptIs
    <3>2. Hands = {} /\ Stales = {} /\ Pendings = {} /\ Takens = {}
      BY <2>3, <2>6
    <3> QED BY <1>2, <3>1, <3>2
  <2>7. ASSUME p = <<"taken", None>> PROVE Wayland!Holders(b) = {"taken"}
    <3>1. taken.handle = b
      BY <2>1, <2>7, KeptIs
    <3>2. Hands = {} /\ Stales = {} /\ Pendings = {} /\ Newest = {}
      BY <2>3, <2>7
    <3> QED BY <1>2, <3>1, <3>2
  <2>8. ASSUME NEW t \in {"worker", "main"}, p = <<t, None>>
        PROVE  Wayland!Holders(b) = {<<"pending", t>>}
    <3>1. pending[t].handle = b
      BY <2>1, <2>8, KeptIs
    <3>2. Pendings = {<<"pending", t>>}
      BY <2>3, <2>8, <3>1
    <3>3. Hands = {} /\ Stales = {} /\ Newest = {} /\ Takens = {}
      BY <2>3, <2>8
    <3> QED BY <1>2, <3>2, <3>3
  <2> QED BY <1>6, <2>4, <2>5, <2>6, <2>7, <2>8, PlaceKinds
<1> QED BY <1>5, <1>6

LEMMA SameCardinality == \A S : Wayland!Cardinality(S) = Cardinality(S)
BY DEF Wayland!Cardinality, Cardinality

WlInv == mainAt \notin Going => FramesInv

\* A buffer the compositor has handed over is in exactly one hand until it goes back to its own
\* stream, and its stream is not freed before: whatever frames overtake each other, whichever
\* screen is opened or given up while both streams deliver, and when the encoder falls back to
\* mapped memory in the middle of it (desktop_wayland.c 188-197 and 613-719), for every number
\* of streams and of buffers.  From SourceDestroy on it promises nothing more.
THEOREM BuffersAreReturned == Wayland!WaylandSpec => []BuffersGoHome
<1>1. Wayland!WaylandInit => WlInv
  BY FramesInit DEF WlInv
<1>2. WlInv /\ [Wayland!WaylandNext]_(Wayland!vars) => WlInv'
  BY FramesStep, GoingStays DEF WlInv
<1>3. WlInv => BuffersGoHome
  <2> SUFFICES ASSUME FramesInv, NEW b \in Wayland!Buffers
               PROVE  /\ Wayland!Cardinality(Wayland!Holders(b)) = IF b \in out THEN 1 ELSE 0
                      /\ b \in out => stream[Wayland!Of(b)] \in {"running", "halted"}
    BY DEF WlInv, Going, BuffersGoHome, Wayland!BuffersGoHome
  <2>1. b \in out => Wayland!Cardinality(Wayland!Holders(b)) = 1
    BY HoldersAre, SameCardinality, FS_Singleton
  <2>2. b \notin out => Wayland!Cardinality(Wayland!Holders(b)) = 0
    BY HoldersAre, SameCardinality, FS_EmptySet
  <2>3. b \in out => stream[Wayland!Of(b)] \in {"running", "halted"}
    BY DEF FramesInv, Screens, Of, Wayland!Of
  <2> QED BY <2>1, <2>2, <2>3
<1> QED BY <1>1, <1>2, <1>3, PTL DEF Wayland!WaylandSpec
=============================================================================
