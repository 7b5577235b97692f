------------------------------ MODULE DesktopAudio ------------------------------
(* System audio of a desktop session (audio.c, audio_linux.c, audio_win.c,     *)
(* opus.c): a worker reads frames of 20 ms from the source, stamps and encodes *)
(* them; the loop drains its ring on every tick and stops and starts it.       *)
EXTENDS Naturals, Sequences

CONSTANTS
    RingFrames,    \* DIRECTGATE_AUDIO_RING_FRAMES
    MaxFrames,     \* bound: frames read from one source
    MaxStarts      \* bound: times the audio is started

VARIABLES
    wasapi,    \* the backend: WASAPI, or PulseAudio
    main,      \* the loop: free, or in AudioStop's join, to stop or to start anew
    audio,     \* pDesktop->pAudio and what it owns have not been freed
    worker,    \* check, read, encode, push, gone; none
    stop,      \* nStop
    finished,  \* nFinished
    half,      \* part of a frame waits in the backend (nPendingBytes)
    read,      \* frames the backend has returned
    pos,       \* nSamplePos, in frames
    held,      \* the frame the worker holds: its number and its time stamp
    ring,      \* the ring's frames
    open,      \* the viewer's Opus track is open
    last,      \* the last frame sent
    com,       \* the threads that joined COM
    starts     \* starts left

audioVars == <<wasapi, main, audio, worker, stop, finished, half, read, pos, held, ring,
               open, last, com, starts>>

NoFrame == [at |-> 0, pts |-> 0]
Frames == [at : 0 .. MaxFrames, pts : 0 .. MaxFrames]

AudioTypeOK ==
    /\ wasapi \in BOOLEAN /\ main \in {"loop", "stopping", "restarting"} /\ audio \in BOOLEAN
    /\ worker \in {"none", "check", "read", "encode", "push", "leave", "gone"}
    /\ stop \in BOOLEAN /\ finished \in BOOLEAN /\ half \in BOOLEAN
    /\ read \in 0 .. MaxFrames /\ pos \in 0 .. MaxFrames /\ held \in Frames
    /\ ring \in Seq(Frames) /\ Len(ring) <= RingFrames
    /\ open \in BOOLEAN /\ last \in Frames
    /\ com \subseteq {"main", "worker"} /\ starts \in 0 .. MaxStarts

AudioInit ==
    /\ wasapi \in BOOLEAN /\ main = "loop" /\ audio = FALSE /\ worker = "none"
    /\ stop = FALSE /\ finished = FALSE /\ half = FALSE /\ read = 0 /\ pos = 0
    /\ held = NoFrame /\ ring = <<>> /\ open = FALSE /\ last = NoFrame
    /\ com = {} /\ starts = MaxStarts

-----------------------------------------------------------------------------
(* The worker.                                                               *)

Loop == <<wasapi, main, audio, stop, open, last, starts>>

(* The loop ends on a stop, without what has been read so far.               *)
Check ==
    /\ worker = "check" /\ worker' = IF stop THEN "leave" ELSE "read"
    /\ UNCHANGED <<finished, half, read, pos, held, ring, com, Loop>>

(* WASAPI's worker joins COM on its first read, and leaves it on its own      *)
(* thread; the loop joins it for the objects it creates.                     *)
WorkerInit == IF wasapi THEN com \cup {"worker"} ELSE com
BackendWorkerDone == com \ {"worker"}
BackendOpen == IF wasapi THEN com \cup {"main"} ELSE com
BackendClose == com \ {"main"}

(* The sample position counts every frame of the source, whatever becomes of *)
(* it. BackendRead: a frame, a part of one that is kept for the next read when   *)
(* the deadline comes, or an error. WASAPI pads what is missing.             *)
Read ==
    /\ worker = "read"
    /\ com' = WorkerInit
    /\ \/ /\ ~wasapi /\ worker' = "check" /\ half' \in {half, TRUE}
          /\ UNCHANGED <<read, pos, held>>
       \/ /\ worker' = "leave" /\ UNCHANGED <<half, read, pos, held>>
       \/ /\ read < MaxFrames /\ worker' = "encode" /\ half' = FALSE
          /\ read' = read + 1 /\ held' = [at |-> read, pts |-> pos] /\ pos' = pos + 1
    /\ UNCHANGED <<finished, ring, Loop>>

(* Mutant: the sample position only moves on with a packet.                  *)
EncodeUncounted ==
    /\ worker = "encode"
    /\ \/ worker' = "push" /\ pos' = pos
       \/ worker' = "check" /\ pos' = held.pts
    /\ UNCHANGED <<finished, half, read, held, ring, com, Loop>>

(* DirectGate_Opus_Encode, which may come to nothing.                        *)
Encode ==
    /\ worker = "encode" /\ worker' \in {"push", "check"}
    /\ UNCHANGED <<finished, half, read, pos, held, ring, com, Loop>>

(* A full ring gives up its oldest frame.                                    *)
Pushed(r, f) == Append(IF Len(r) = RingFrames THEN Tail(r) ELSE r, f)

Push ==
    /\ worker = "push" /\ worker' = "check" /\ ring' = Pushed(ring, held)
    /\ UNCHANGED <<finished, half, read, pos, held, com, Loop>>

(* The end of the worker.                                                    *)
Leave ==
    /\ worker = "leave" /\ worker' = "gone" /\ finished' = TRUE /\ com' = BackendWorkerDone
    /\ UNCHANGED <<half, read, pos, held, ring, Loop>>

-----------------------------------------------------------------------------
(* The loop.                                                                 *)

Work == <<wasapi, half, read, pos, held, ring>>

(* The encoder, the backend and the thread; any of them may fail, and takes  *)
(* back what came before.                                                    *)
Opened ==
    \/ /\ audio' = TRUE /\ worker' = "check" /\ stop' = FALSE /\ finished' = FALSE
       /\ com' = BackendOpen
       /\ half' = FALSE /\ read' = 0 /\ pos' = 0 /\ held' = NoFrame /\ ring' = <<>>
       /\ last' = NoFrame
    \/ /\ audio' = FALSE /\ worker' = "none" /\ com' = BackendClose
       /\ UNCHANGED <<stop, finished, half, read, pos, held, ring, last>>

(* AudioStart: a running worker is kept, one that ended is replaced.         *)
AudioStart ==
    /\ main = "loop" /\ starts > 0 /\ starts' = starts - 1
    /\ \/ ~audio /\ Opened /\ UNCHANGED main
       \/ /\ audio /\ finished /\ main' = "restarting" /\ stop' = TRUE
          /\ UNCHANGED <<audio, worker, finished, half, read, pos, held, ring, last, com>>
       \/ /\ audio /\ ~finished
          /\ UNCHANGED <<main, stop, audio, worker, finished, half, read, pos, held, ring, last, com>>
    /\ UNCHANGED <<wasapi, open>>

(* AudioStop, from a control message, the end of the desktop, or a drain     *)
(* that finds the worker ended.                                              *)
AudioStop ==
    /\ main = "loop" /\ audio /\ main' = "stopping" /\ stop' = TRUE
    /\ UNCHANGED <<audio, worker, finished, open, last, com, starts, Work>>

(* Mutant: AudioStop does not wait for its worker.                           *)
JoinedAtOnce == stop

Joined == worker = "gone"

(* After the join: the backend and the encoder are freed.                    *)
Freed ==
    /\ main # "loop" /\ Joined /\ main' = "loop"
    /\ IF main = "restarting"
       THEN Opened
       ELSE /\ audio' = FALSE /\ worker' = (IF worker = "gone" THEN "none" ELSE worker)
            /\ com' = BackendClose
            /\ UNCHANGED <<stop, finished, half, read, pos, held, ring, last>>
    /\ UNCHANGED <<wasapi, open, starts>>

(* AudioDrainMain: frames go to an open track, and nowhere without one.      *)
AudioDrainMain ==
    /\ main = "loop" /\ audio /\ ~finished /\ ring # <<>>
    /\ ring' = Tail(ring) /\ last' = IF open THEN Head(ring) ELSE last
    /\ UNCHANGED <<wasapi, main, audio, worker, stop, finished, half, read, pos, held, open, com, starts>>

Track ==
    /\ open' = ~open
    /\ UNCHANGED <<wasapi, main, audio, worker, stop, finished, half, read, pos, held, ring, last, com, starts>>

AudioNext ==
    \/ Check \/ Read \/ Encode \/ Push \/ Leave \/ AudioStart \/ AudioStop \/ Freed
    \/ AudioDrainMain \/ Track

AudioSpec == AudioInit /\ [][AudioNext]_audioVars

-----------------------------------------------------------------------------

(* Whatever is dropped on the way - by the encoder, a full ring or a closed    *)
(* track - a packet carries the time of its own frame, and the viewer gets the *)
(* packets in order: a gap in the sound is a gap in its time stamps.           *)
StampsAreTrue ==
    LET Line == <<last>> \o ring \o (IF worker \in {"encode", "push"} THEN <<held>> ELSE <<>>)
    IN  /\ \A i \in DOMAIN Line : Line[i].pts = Line[i].at
        /\ \A i \in DOMAIN Line, j \in DOMAIN Line :
               i < j => Line[i].pts < Line[j].pts \/ Line[i] = NoFrame

(* A worker never outlives what it works on, however starts, stops and source  *)
(* errors follow each other, and both threads leave COM as often as they       *)
(* joined it.                                                                  *)
WorkerIsJoined ==
    /\ ~audio => worker = "none"
    /\ worker = "none" => com = {}
    /\ worker = "gone" => "worker" \notin com
=============================================================================
