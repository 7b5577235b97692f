------------------------------ MODULE MCDesktop ------------------------------
(***************************************************************************)
(* What a desktop session works with: the video it streams, the sound, the  *)
(* keys it holds down, the mode it set on a monitor, and the frames of a      *)
(* Wayland host.  Each works on state of its own, so a behaviour is one of    *)
(* them at work, the others at rest.                                          *)
(***************************************************************************)
EXTENDS DesktopStream, HeldKeys, DisplayModes

CONSTANTS
    RingFrames, MaxFrames, MaxStarts,    \* of the sound
    Captures, Pool, MaxNegotiations      \* of the Wayland frames

VARIABLES
    part,                                \* the one at work
    wasapi, loopAt, audio, audioAt, stop, finished, half, read, pos, frame, ring,
    track, last, com, starts,            \* the sound
    stream, format, offers, negotiations, out, loop, callback, stale, slot, encoder,
    zeroCopy, taken, mainAt, active, other, pending, wants   \* the Wayland frames

Audio == INSTANCE DesktopAudio WITH
    main <- loopAt, worker <- audioAt, held <- frame, open <- track
Wayland == INSTANCE WaylandFrames WITH
    hand <- callback, worker <- encoder, main <- mainAt

soundVars == <<wasapi, loopAt, audio, audioAt, stop, finished, half, read, pos, frame, ring,
               track, last, com, starts>>
frameVars == <<stream, format, offers, negotiations, out, loop, callback, stale, slot, encoder,
               zeroCopy, taken, mainAt, active, other, pending, wants>>

\* The ring of the sound has a place; the other bounds only cap the runs.
ASSUME AudioAssumption == /\ RingFrames \in Nat /\ RingFrames > 0
                          /\ MaxFrames \in Nat /\ MaxStarts \in Nat

\* The null pointer is neither a stream nor a buffer of one.
ASSUME FramesAssumption == /\ None \notin Captures /\ None \notin Wayland!Buffers
                           /\ MaxNegotiations \in Nat

Parts == {"stream", "keys", "modes", "audio", "wayland"}

MCInit ==
    /\ part \in Parts
    /\ StreamInit /\ KeysInit /\ ModesInit /\ Audio!AudioInit /\ Wayland!WaylandInit
    /\ part # "stream" => ~wayland
    /\ part # "keys" => /\ ~portal /\ group = {}
                        /\ \A c \in Codes : means[c] = Position
    /\ part # "modes" => system = "x11"
    /\ part # "audio" => ~wasapi
    /\ part # "wayland" => \A d \in Captures : format[d] # "exported" /\ active = CHOOSE e \in Captures : TRUE

(* A step of one part leaves the others alone.                               *)
Alone(p) ==
    /\ part = p /\ UNCHANGED part
    /\ p = "stream" \/ UNCHANGED streamVars
    /\ p = "keys" \/ UNCHANGED keyVars
    /\ p = "modes" \/ UNCHANGED modeVars
    /\ p = "audio" \/ UNCHANGED soundVars
    /\ p = "wayland" \/ UNCHANGED frameVars

MCNext ==
    \/ part = "stream" /\ StreamNext /\ Alone("stream")
    \/ part = "keys" /\ KeysNext /\ Alone("keys")
    \/ part = "modes" /\ ModesNext /\ Alone("modes")
    \/ part = "audio" /\ Audio!AudioNext /\ Alone("audio")
    \/ part = "wayland" /\ Wayland!WaylandNext /\ Alone("wayland")

partVars == <<part, streamVars, keyVars, modeVars, soundVars, frameVars>>

StreamStep(A) == part = "stream" /\ A /\ Alone("stream")
FrameStep(A) == part = "wayland" /\ A /\ Alone("wayland")

(* The fairness of StreamFairSpec and of WaylandFairSpec.                    *)
MCSpec ==
    /\ MCInit /\ [][MCNext]_partVars
    /\ WF_partVars(StreamStep(LoopStep)) /\ WF_partVars(StreamStep(CatchesUp))
    /\ WF_partVars(StreamStep(Look)) /\ WF_partVars(StreamStep(Claim))
    /\ WF_partVars(StreamStep(Publish /\ (Asked => box' = "key")))
    /\ WF_partVars(StreamStep(EncodeFails))
    /\ \A c \in Captures :
          WF_partVars(FrameStep(Wayland!OnFrameElsewhere(c) \/ Wayland!OnFrame(c) \/ Wayland!Drop(c)))
    /\ SF_partVars(FrameStep(\/ Wayland!Encode \/ Wayland!FallBackEmpties
                             \/ Wayland!FallBackGives \/ Wayland!FallBackDisables
                             \/ Wayland!ReleaseFrame))
    /\ SF_partVars(FrameStep(mainAt # "idle" /\ Wayland!Main))

-----------------------------------------------------------------------------

(* The sound: every frame carries the time it was recorded at, whatever was  *)
(* dropped or failed to encode before it, and a worker never outlives what it  *)
(* works on, however starts, stops and source errors meet (audio.c, opus.c).   *)
SoundHolds == Audio!StampsAreTrue /\ Audio!WorkerIsJoined

(* A buffer of the compositor is in one hand until it is given back          *)
(* (desktop_wayland.c, wayland_capture.c).                                   *)
BuffersGoHome == Wayland!BuffersGoHome

(* The event loop and the encoder's worker come back from every change of    *)
(* screen (desktop_wayland.c, wayland_capture.c): no thread waits for another *)
(* in a circle.                                                               *)
NobodyWaitsForGood == part = "wayland" => Wayland!NobodyWaitsForGood
===============================================================================
