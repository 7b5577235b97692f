---------------------------- MODULE DesktopStream ----------------------------
(* The desktop stream on Linux: the capture worker (desktop_linux.c,        *)
(* "X11Enc"), which encodes the screen and leaves the newest frame in a     *)
(* mailbox of one slot, and the event loop (stream.c, desktop.c), which     *)
(* drains it onto the video track or the data channel, marshals key frame   *)
(* requests to the worker, and answers the viewer's controls.               *)
(*                                                                          *)
(* A frame is a key frame or a delta that refers to the one before it. What *)
(* the surroundings may do to a stream - losses, slow links, encoder        *)
(* trouble, restarts - spends from one budget.                              *)
EXTENDS Integers

CONSTANTS
    MaxFailures,   \* DIRECTGATE_X11ENC_MAX_FAILURES
    Budget         \* bound: disturbances

ASSUME StreamAssumption == MaxFailures \in Nat \ {0} /\ Budget \in Nat

VARIABLES
    wayland,   \* pWayland: there is no raw path to fall back to
    pipe,      \* ePipeline: idle (no screen selected), raw, dc, video
    up,        \* pEncoder: the pipeline and its worker are there
    kind,      \* its encoder: zero (zero-copy), gpu, cpu, none
    work,      \* the worker: look, pass, plain, asked (it has claimed a request)
    force,     \* bForceKeyframe
    fails,     \* nFailures
    box,       \* the mailbox: empty, key, delta
    hand,      \* the frame the loop has taken out and not sent yet
    request,   \* bRequestKeyframe, left by a preset
    pli,       \* bVideoKeyframeRequested, by RTCP or a new track
    open,      \* the video track is open
    behind,    \* the relay or the data channel is backlogged
    prefer,    \* bPreferDataChannel
    vfailed,   \* bWebRTCVideoFailed
    gap,       \* the viewer misses a frame the next delta builds on
    lost,      \* the desktop source: there, lost, told (bWaylandLost)
    budget

streamVars == <<wayland, pipe, up, kind, work, force, fails, box, hand, request, pli,
                open, behind, prefer, vfailed, gap, lost, budget>>
worker == <<kind, work, fails>>
link == <<open, behind>>
latches == <<prefer, vfailed>>

StreamTypeOK ==
    /\ wayland \in BOOLEAN /\ pipe \in {"idle", "raw", "dc", "video"} /\ up \in BOOLEAN
    /\ kind \in {"zero", "gpu", "cpu", "none"} /\ work \in {"look", "pass", "plain", "asked"}
    /\ force \in BOOLEAN /\ fails \in 0 .. MaxFailures
    /\ box \in {"empty", "key", "delta"} /\ hand \in {"empty", "key", "delta"}
    /\ request \in BOOLEAN /\ pli \in BOOLEAN /\ open \in BOOLEAN /\ behind \in BOOLEAN
    /\ prefer \in BOOLEAN /\ vfailed \in BOOLEAN /\ gap \in BOOLEAN
    /\ lost \in {"there", "lost", "told"} /\ budget \in 0 .. Budget

StreamInit ==
    /\ wayland \in BOOLEAN /\ pipe = "idle" /\ up = FALSE /\ kind = "none" /\ work = "look"
    /\ force = FALSE /\ fails = 0 /\ box = "empty" /\ hand = "empty" /\ request = TRUE
    /\ pli = FALSE /\ open = FALSE /\ behind = FALSE /\ prefer = FALSE /\ vfailed = FALSE
    /\ gap = FALSE /\ lost = "there" /\ budget = Budget

Disturb == budget > 0 /\ budget' = budget - 1
Calm == UNCHANGED budget
Encoded == pipe \in {"dc", "video"}
Kinds == IF wayland THEN {"zero", "gpu", "cpu"} ELSE {"gpu", "cpu"}
LoopIdle == hand = "empty"

-----------------------------------------------------------------------------
(* The worker.                                                             *)

Loop == <<wayland, pipe, up, hand, request, pli, link, latches, gap, lost>>

(* Worker: no capture while the mailbox is full or the transport is backed *)
(* up (ShouldSkipForBackpressure); the video track is never held back.      *)
Look ==
    /\ up /\ work = "look" /\ box = "empty" /\ ~(behind /\ pipe # "video")
    /\ work' = "pass" /\ Calm /\ UNCHANGED <<kind, fails, force, box, Loop>>

(* CaptureFrame finds nothing: no new frame from the compositor and no     *)
(* request to answer from the last one, or X11 gives no image. A source     *)
(* that has ended gives no new frames.                                     *)
CaptureNothing ==
    /\ up /\ work = "pass" /\ work' = "look"
    /\ \/ wayland /\ (~force \/ lost # "there") /\ Calm /\ UNCHANGED fails
       \/ ~wayland /\ Disturb /\ fails < MaxFailures /\ fails' = fails + 1
    /\ UNCHANGED <<kind, force, box, Loop>>

(* EncodeAndPublish claims the request: one raised from here on is new.    *)
Claim ==
    /\ up /\ work = "pass" /\ work' = (IF force THEN "asked" ELSE "plain")
    /\ force' = FALSE /\ UNCHANGED <<kind, fails, box, budget, Loop>>

(* Nothing changed on the screen and nothing is settling.                  *)
Unchanged ==
    /\ up /\ work = "plain" /\ kind # "zero" /\ work' = "look"
    /\ Calm /\ UNCHANGED <<kind, fails, force, box, Loop>>

Asked == work = "asked"

(* Mutant: a skipped frame counts as an answer to the request.             *)
NotAnsweredForgets == force' = force

(* A request that was not answered by a key frame is raised again.         *)
NotAnswered == force' = (force \/ Asked)

(* Encode, and the publication of what came out. Without a request a key   *)
(* frame comes by itself now and then.                                      *)
Publish ==
    /\ up /\ work \in {"plain", "asked"} /\ kind # "none"
    /\ \/ /\ box' = "key" /\ Calm /\ UNCHANGED force
       \/ /\ box' = "delta" /\ (IF Asked THEN Disturb ELSE Calm) /\ NotAnswered
    /\ work' = "look" /\ fails' = 0 /\ UNCHANGED <<kind, Loop>>

(* The rate controller skipped the frame, or the GPU failed in passing.    *)
Skip ==
    /\ up /\ work \in {"plain", "asked"} /\ kind # "none" /\ Disturb /\ NotAnswered
    /\ work' = "look" /\ fails' = 0 /\ UNCHANGED <<kind, box, Loop>>

(* FallBackFromZeroCopy: the frame is gone, the new encoder is to start    *)
(* with a key frame; FallBackToSoftware: the frame is encoded once more.    *)
FallBack ==
    /\ up /\ work \in {"plain", "asked"} /\ kind \in {"zero", "gpu"} /\ Disturb
    /\ force' = TRUE /\ work' = "look" /\ fails' = 0
    /\ \/ kind = "zero" /\ kind' \in {"gpu", "cpu"} /\ UNCHANGED box
       \/ kind = "gpu" /\ kind' = "cpu" /\ box' = "key"
    /\ UNCHANGED Loop

(* The encoder failed, or a fallback left none: that pipeline is over.     *)
EncodeFails ==
    /\ up /\ work \in {"plain", "asked"} /\ NotAnswered /\ work' = "look"
    /\ \/ /\ Disturb /\ fails < MaxFailures /\ fails' = fails + 1 /\ UNCHANGED kind
       \/ /\ Disturb /\ kind \in {"zero", "gpu"} /\ kind' = "none" /\ fails' = MaxFailures
       \/ /\ Calm /\ kind = "none" /\ fails' = MaxFailures /\ UNCHANGED kind
    /\ UNCHANGED <<box, Loop>>

WorkerStep ==
    \/ Look \/ CaptureNothing \/ Claim \/ Unchanged
    \/ Publish \/ Skip \/ FallBack \/ EncodeFails

-----------------------------------------------------------------------------
(* The event loop: the pipeline.                                           *)

(* StopDesktop: the worker is joined before anything of it is freed.       *)
Stopped == /\ up' = FALSE /\ work' = "look" /\ kind' = "none" /\ fails' = 0
           /\ force' = FALSE /\ box' = "empty" /\ gap' = FALSE

(* LinuxEncoder_Start: a new worker, that starts with a key frame.         *)
Started == /\ up' = TRUE /\ work' = "look" /\ kind' \in Kinds /\ fails' = 0
           /\ force' = TRUE /\ box' = "empty" /\ gap' = TRUE

(* StartLinuxPipeline. On X11 what cannot be encoded is sent raw from now  *)
(* on; on Wayland there is nothing to fall back to.                         *)
StartLinuxPipeline ==
    IF pipe = "raw" THEN Stopped /\ UNCHANGED pipe
    ELSE \/ /\ Started
            /\ pipe' = IF open /\ ~vfailed /\ ~prefer THEN "video" ELSE "dc"
         \/ /\ Stopped
            /\ pipe' = IF wayland THEN pipe ELSE "raw"

(* HandleControl: select-monitor, set-resolution, and a preset of another  *)
(* size, which rebuild the pipeline, ...                                    *)
Rebuild ==
    /\ LoopIdle /\ Disturb /\ StartLinuxPipeline
    /\ UNCHANGED <<wayland, hand, request, pli, link, latches, lost>>

(* ... set-preset of the same size (ApplyPreset and ApplyQuality), ...      *)
SetPreset ==
    /\ LoopIdle /\ Encoded /\ Disturb /\ request' = TRUE /\ force' = (force \/ up)
    /\ UNCHANGED <<wayland, pipe, up, worker, box, hand, pli, link, latches, gap, lost>>

(* ... request-keyframe ...                                                *)
RequestKeyframe ==
    /\ LoopIdle /\ Encoded /\ up /\ Disturb /\ force' = TRUE
    /\ UNCHANGED <<wayland, pipe, up, worker, box, hand, request, pli, link, latches, gap, lost>>

(* ... and fallback-datachannel, which is latched for the session.         *)
FallbackToDataChannel ==
    /\ LoopIdle /\ Encoded /\ Disturb
    /\ prefer' = TRUE /\ vfailed' = TRUE /\ pipe' = "dc" /\ force' = (force \/ up)
    /\ UNCHANGED <<wayland, up, worker, box, hand, request, pli, link, gap, lost>>

-----------------------------------------------------------------------------
(* The event loop: a tick, Desktop_Process.                                *)

Ticks == LoopIdle /\ Encoded /\ ~(wayland /\ lost = "lost")

(* The source is gone: said once, with the pipeline stopped.               *)
SourceLost ==
    /\ LoopIdle /\ wayland /\ lost = "lost" /\ lost' = "told" /\ Stopped
    /\ Calm /\ UNCHANGED <<wayland, pipe, hand, request, pli, link, latches>>

(* MaybePromoteWebRTCVideo, after a request for a key frame on an open     *)
(* track has cleared an earlier failure.                                    *)
Promotes == pipe = "dc" /\ open /\ (pli \/ ~vfailed) /\ ~prefer

HasFailed == ~up \/ fails >= MaxFailures

(* DemoteToRaw: on Wayland the pipeline is stopped and the viewer told.    *)
DemoteToRaw ==
    /\ Ticks /\ HasFailed /\ Stopped
    /\ pli' = FALSE /\ vfailed' = (vfailed /\ ~(pli /\ open))
    /\ pipe' = IF ~wayland THEN "raw" ELSE IF Promotes THEN "video" ELSE pipe
    /\ Calm /\ UNCHANGED <<wayland, hand, request, link, prefer, lost>>

(* A frame that waited too long in the mailbox is dropped with a request.  *)
Drops == TRUE

(* TakeVideoKeyframeRequest, promotion, and DrainMain up to the frame that *)
(* it takes out of the mailbox, or drops as stale, under the lock.          *)
Process ==
    /\ Ticks /\ ~HasFailed
    /\ pli \/ Promotes \/ request \/ box # "empty"
    /\ pli' = FALSE /\ vfailed' = (vfailed /\ ~(pli /\ open)) /\ request' = FALSE
    /\ pipe' = (IF Promotes THEN "video" ELSE pipe)
    /\ LET asks == force \/ pli \/ Promotes \/ request IN
       \/ /\ hand' = box /\ force' = asks /\ Calm /\ UNCHANGED gap
       \/ /\ box # "empty" /\ UNCHANGED hand /\ Disturb
          /\ force' = (asks \/ Drops) /\ gap' = TRUE
    /\ box' = "empty"
    /\ UNCHANGED <<wayland, up, worker, link, prefer, lost>>

(* SendEncodedFrame on the video track, which may lose the frame: the      *)
(* viewer's PLI then asks for a key frame.                                  *)
SendOnTrack ==
    /\ hand # "empty" /\ pipe = "video" /\ open /\ hand' = "empty"
    /\ \/ gap' = (gap /\ hand # "key") /\ Calm /\ UNCHANGED pli
       \/ gap' = TRUE /\ pli' = TRUE /\ Disturb
    /\ UNCHANGED <<wayland, pipe, up, worker, force, box, request, link, latches, lost>>

(* ... and on the data channel, to which a track that is closed or fails   *)
(* falls back. A frame for a backlogged link is dropped, and the picture    *)
(* restarts from a key frame.                                              *)
SendOnChannel ==
    /\ hand # "empty" /\ hand' = "empty"
    /\ \/ pipe = "dc" /\ UNCHANGED <<pipe, vfailed>> /\ Calm
       \/ pipe = "video" /\ pipe' = "dc" /\ vfailed' = open /\ (IF open THEN Disturb ELSE Calm)
    /\ force' = (force \/ behind)
    /\ gap' = IF behind THEN TRUE ELSE gap /\ hand # "key"
    /\ UNCHANGED <<wayland, up, worker, box, request, pli, link, prefer, lost>>

-----------------------------------------------------------------------------
(* The surroundings: the track opens and closes, a new one asking for a    *)
(* key frame; a link falls behind and catches up; the source is lost.       *)

Track ==
    /\ Disturb /\ open' = ~open /\ pli' = (pli \/ open')
    /\ UNCHANGED <<wayland, pipe, up, worker, force, box, hand, request, behind, latches, gap, lost>>

FallsBehind ==
    /\ ~behind /\ Disturb /\ behind' = TRUE
    /\ UNCHANGED <<wayland, pipe, up, worker, force, box, hand, request, pli, open, latches, gap, lost>>

CatchesUp ==
    /\ behind /\ Calm /\ behind' = FALSE
    /\ UNCHANGED <<wayland, pipe, up, worker, force, box, hand, request, pli, open, latches, gap, lost>>

SharingEnds ==
    /\ wayland /\ lost = "there" /\ Disturb /\ lost' = "lost"
    /\ UNCHANGED <<wayland, pipe, up, worker, force, box, hand, request, pli, link, latches, gap>>

LoopStep == SourceLost \/ DemoteToRaw \/ Process \/ SendOnTrack \/ SendOnChannel
Controls == Rebuild \/ SetPreset \/ RequestKeyframe \/ FallbackToDataChannel
StreamNext ==
    \/ WorkerStep \/ LoopStep \/ Controls
    \/ Track \/ FallsBehind \/ CatchesUp \/ SharingEnds

StreamSpec == StreamInit /\ [][StreamNext]_streamVars

(* The loop ticks, the worker gets to run and answers a request, a link    *)
(* that is behind catches up.                                              *)
StreamFairSpec ==
    /\ StreamSpec /\ WF_streamVars(LoopStep) /\ WF_streamVars(CatchesUp)
    /\ WF_streamVars(Look) /\ WF_streamVars(Claim)
    /\ WF_streamVars(Publish /\ (Asked => box' = "key")) /\ WF_streamVars(EncodeFails)

-----------------------------------------------------------------------------

(* A broken picture is whole again in the end, unless the sharing ends: a  *)
(* frame that was encoded and then dropped, by whichever of the rules,      *)
(* leaves a request behind until a key frame has reached the viewer,        *)
(* however capture, drops and requests interleave.                          *)
PictureHeals == gap ~> (~gap \/ lost # "there")

=============================================================================
