---------------------------- MODULE WaylandFrames ----------------------------
(***************************************************************************)
(* The frames of a Wayland desktop (desktop_wayland.c, wayland_capture.c    *)
(* and the Wayland half of desktop_linux.c).  PipeWire delivers them in      *)
(* buffers of the compositor, each stream on a loop thread of its own that   *)
(* holds its loop's lock while a callback runs.  Between the loops and the    *)
(* encoder's worker lies one slot.  A frame in mapped memory is copied into   *)
(* it; an exported one is put there as it is, and whoever empties the slot     *)
(* owes the buffer to the stream it came from.  The event loop's thread opens  *)
(* and closes streams: to another screen it opens the new one first, so for a   *)
(* while two streams deliver.                                                    *)
(*                                                                              *)
(* A buffer is <<stream, number>>; out holds those the compositor has handed      *)
(* over.  The lock of a loop is not a variable: it is held while the loop is in    *)
(* a callback, and every other thread takes and leaves it within a step.  The      *)
(* frame lock is never held across a step.  Sizes and pixels are left out, and so   *)
(* is the copying backend of wlroots, whose frames are mapped ones.                 *)
(***************************************************************************)
EXTENDS Naturals, FiniteSets
CONSTANTS Captures,         \* the streams that may be opened
          Pool,             \* buffers of a stream
          MaxNegotiations,  \* bound on the formats a stream agrees to
          None

Buffers == Captures \X (1..Pool)
Of(b) == b[1]

VARIABLES stream,      \* "unused", "running", "halted" or "freed"
          format,      \* "none", "mapped" or "exported" (bHaveFormat, bDmaBuf)
          offers,      \* exported frames are offered (bWantDmaBuf and not bDroppedDmaBuf)
          negotiations,
          out,         \* buffers that are not with the compositor
          loop,        \* "idle", "frame" (in OnFrame) or "drop"
          hand, stale, \* what a callback still has to give back: its frame, the one it replaced
          slot,        \* the newest frame
          worker,      \* "off", "ready", "encode", "empty", "give", "disable" or "release"
          zeroCopy,    \* the encoder takes exported frames (bZeroCopy)
          taken,       \* [handle, from]: the export the encoder reads (pTakenCapture)
          main,        \* what the event loop's thread is doing
          active, other,  \* the source's stream; the one being opened or left
          pending,     \* what a thread found in the slot and has to give back
          wants        \* bWantDmaBuf of the source

loops == <<format, offers, negotiations, loop, hand, stale>>
workers == <<worker, zeroCopy, taken>>
mains == <<stream, main, active, other>>
vars == <<loops, out, slot, workers, mains, pending, wants>>

Nothing == [handle |-> None, from |-> None]
Empty == [fresh |-> FALSE, exported |-> FALSE, handle |-> None, capture |-> None]
InSlot == [handle |-> IF slot.exported THEN slot.handle ELSE None, from |-> slot.capture]

(* CaptureRelease and CaptureDrop: the buffer goes back into the queue of the stream named. *)
Queued(c, bs) == out \ {b \in bs : b # None /\ Of(b) = c}

WaylandInit ==
    \E c \in Captures :
        /\ stream = [d \in Captures |-> IF d = c THEN "running" ELSE "unused"]
        /\ format \in {[d \in Captures |-> IF d = c THEN f ELSE "none"] : f \in {"mapped", "exported"}}
        /\ offers = [d \in Captures |-> d = c]
        /\ negotiations = 0 /\ out = {}
        /\ loop = [d \in Captures |-> "idle"]
        /\ hand = [d \in Captures |-> None] /\ stale = [d \in Captures |-> None]
        /\ slot = Empty /\ worker = "off" /\ zeroCopy = FALSE /\ taken = Nothing
        /\ main = "start" /\ active = c /\ other = None
        /\ pending = [t \in {"worker", "main"} |-> Nothing] /\ wants = TRUE

----------------------------------------------------------------------------
(* A stream's loop. *)

(* CaptureFallbackLocked: exported frames are no longer offered. *)
Fallback(c) ==
    /\ offers' = [offers EXCEPT ![c] = FALSE]
    /\ format' = [format EXCEPT ![c] = IF @ = "exported" THEN "mapped" ELSE @]

Awake(c) == stream[c] = "running" /\ loop[c] = "idle"

(* OnParamChanged: the compositor picks one of the formats it was offered, possibly one
   this agent cannot describe to its encoder after all. *)
OnParamChanged(c) ==
    /\ Awake(c) /\ negotiations < MaxNegotiations
    /\ negotiations' = negotiations + 1
    /\ \/ format' = [format EXCEPT ![c] = "mapped"] /\ UNCHANGED offers
       \/ offers[c] /\ format' = [format EXCEPT ![c] = "exported"] /\ UNCHANGED offers
       \/ offers[c] /\ Fallback(c)
    /\ UNCHANGED <<loop, hand, stale, out, slot, workers, mains, pending, wants>>

(* OnProcess: the newest buffer, if it can be used at all. *)
OnProcess(c) ==
    /\ Awake(c) /\ format[c] # "none"
    /\ \E b \in Buffers \ out :
        /\ Of(b) = c
        /\ out' = out \cup {b}
        /\ hand' = [hand EXCEPT ![c] = b]
        /\ loop' = [loop EXCEPT ![c] = "frame"]
    /\ UNCHANGED <<format, offers, negotiations, stale, slot, workers, mains, pending, wants>>

(* OnProcess with an export that cannot be described: back to mapped memory. *)
Undescribed(c) ==
    /\ Awake(c) /\ format[c] = "exported" /\ Fallback(c)
    /\ UNCHANGED <<negotiations, loop, hand, stale, out, slot, workers, mains, pending, wants>>

(* A bug the runs must catch: whose export lies in the slot is not looked at. *)
SlotHeldElsewhereNever(c) == c # c

SlotHeldElsewhere(c) == slot.exported /\ slot.handle # None /\ slot.capture # c

(* OnFrame, for a frame that finds another stream's export in the slot. *)
OnFrameElsewhere(c) ==
    /\ loop[c] = "frame" /\ SlotHeldElsewhere(c)
    /\ out' = Queued(c, {hand[c]})
    /\ hand' = [hand EXCEPT ![c] = None]
    /\ loop' = [loop EXCEPT ![c] = "idle"]
    /\ UNCHANGED <<format, offers, negotiations, stale, slot, workers, mains, pending, wants>>

(* OnFrame: the frame takes the slot; an export keeps its buffer with it. *)
OnFrame(c) ==
    /\ loop[c] = "frame" /\ ~SlotHeldElsewhere(c)
    /\ stale' = [stale EXCEPT ![c] = InSlot.handle]
    /\ \/ /\ format[c] = "exported"
          /\ slot' = [fresh |-> TRUE, exported |-> TRUE, handle |-> hand[c], capture |-> c]
          /\ hand' = [hand EXCEPT ![c] = None]
       \/ /\ format[c] = "mapped"
          /\ slot' = [slot EXCEPT !.fresh = TRUE, !.exported = FALSE, !.handle = None]
          /\ UNCHANGED hand
    /\ loop' = [loop EXCEPT ![c] = "drop"]
    /\ UNCHANGED <<format, offers, negotiations, out, workers, mains, pending, wants>>

(* A bug the runs must catch: CaptureRelease, which waits for the loop's lock, instead of CaptureDrop. *)
DropLocks(c) ==
    /\ loop[c] = "drop" /\ stale[c] = None
    /\ out' = Queued(c, {hand[c], stale[c]})
    /\ hand' = [hand EXCEPT ![c] = None] /\ stale' = [stale EXCEPT ![c] = None]
    /\ loop' = [loop EXCEPT ![c] = "idle"]
    /\ UNCHANGED <<format, offers, negotiations, slot, workers, mains, pending, wants>>

(* The rest of the callback: CaptureDrop of what was replaced, and a mapped buffer's return. *)
Drop(c) ==
    /\ loop[c] = "drop"
    /\ out' = Queued(c, {hand[c], stale[c]})
    /\ hand' = [hand EXCEPT ![c] = None] /\ stale' = [stale EXCEPT ![c] = None]
    /\ loop' = [loop EXCEPT ![c] = "idle"]
    /\ UNCHANGED <<format, offers, negotiations, slot, workers, mains, pending, wants>>

Loop(c) == OnParamChanged(c) \/ OnProcess(c) \/ Undescribed(c) \/ OnFrameElsewhere(c) \/ OnFrame(c) \/ Drop(c)

----------------------------------------------------------------------------
(* What the worker and the event loop's thread share. *)

(* SourceDisableDmaBuf, up to the end of its frame lock. *)
EmptySlot(t) ==
    /\ pending' = [pending EXCEPT ![t] = InSlot]
    /\ slot' = [Empty EXCEPT !.capture = slot.capture]
    /\ wants' = FALSE

(* CaptureRelease from a thread that is not the stream's loop: waits for that loop's lock. *)
GivesBack(what) ==
    IF what.handle # None /\ what.from # None
    THEN loop[what.from] = "idle" /\ out' = Queued(what.from, {what.handle})
    ELSE UNCHANGED out

----------------------------------------------------------------------------
(* The encoder's worker (CaptureFrame, Encode, FallBackFromZeroCopy). *)

TakeDmaBuf ==
    /\ worker = "ready" /\ zeroCopy
    /\ IF slot.fresh /\ slot.exported /\ slot.handle # None
       THEN /\ taken' = [handle |-> slot.handle, from |-> slot.capture]
            /\ slot' = [slot EXCEPT !.fresh = FALSE, !.handle = None]
       ELSE taken' = [taken EXCEPT !.handle = None] /\ UNCHANGED slot   \* a key frame is owed
    /\ worker' = "encode"
    /\ UNCHANGED <<loops, out, zeroCopy, mains, pending, wants>>

TakeFrame ==
    /\ worker = "ready" /\ ~zeroCopy /\ slot.fresh /\ ~slot.exported
    /\ slot' = [slot EXCEPT !.fresh = FALSE]
    /\ UNCHANGED <<loops, out, workers, mains, pending, wants>>

(* The encoder has taken the frame, or will take no exported ones: FallBackFromZeroCopy. *)
Encode ==
    /\ worker = "encode"
    /\ worker' \in {"release", "empty"}
    /\ UNCHANGED <<loops, out, slot, zeroCopy, taken, mains, pending, wants>>

FallBackEmpties ==
    /\ worker = "empty" /\ EmptySlot("worker") /\ worker' = "give"
    /\ UNCHANGED <<loops, out, zeroCopy, taken, mains>>

FallBackGives ==
    /\ worker = "give" /\ GivesBack(pending["worker"])
    /\ pending' = [pending EXCEPT !["worker"] = Nothing] /\ worker' = "disable"
    /\ UNCHANGED <<loops, slot, zeroCopy, taken, mains, wants>>

FallBackDisables ==
    /\ worker = "disable" /\ loop[active] = "idle" /\ Fallback(active)
    /\ zeroCopy' = FALSE /\ worker' = "release"
    /\ UNCHANGED <<negotiations, loop, hand, stale, out, slot, taken, mains, pending, wants>>

ReleaseFrame ==
    /\ worker = "release" /\ GivesBack(taken)
    /\ taken' = [taken EXCEPT !.handle = None] /\ worker' = "ready"
    /\ UNCHANGED <<loops, slot, zeroCopy, mains, pending, wants>>

Worker == \/ TakeDmaBuf \/ TakeFrame \/ Encode
          \/ FallBackEmpties \/ FallBackGives \/ FallBackDisables \/ ReleaseFrame

----------------------------------------------------------------------------
(* The event loop's thread (LinuxEncoder_Start, SourceSelect, SourceDestroy). *)

(* StopDesktop: the worker is joined, and so has given back what it took. *)
JoinWorker ==
    /\ main = "idle" /\ worker = "ready"
    /\ worker' = "off" /\ main' = "stopped"
    /\ UNCHANGED <<loops, out, slot, zeroCopy, taken, stream, active, other, pending, wants>>

CaptureStart ==
    /\ main = "stopped"
    /\ \E c \in Captures :
        /\ stream[c] = "unused"
        /\ stream' = [stream EXCEPT ![c] = "running"]
        /\ offers' = [offers EXCEPT ![c] = wants]
        /\ other' = c
    /\ main' = "wait"
    /\ UNCHANGED <<format, negotiations, loop, hand, stale, out, slot, workers, active, pending, wants>>

(* CaptureWaitFormat: agreed; or not, and the offer of exports is withdrawn once; or given up. *)
WaitFormat ==
    /\ main = "wait" /\ loop[other] = "idle"
    /\ \/ format[other] # "none" /\ main' = "halt" /\ UNCHANGED <<format, offers>>
       \/ format[other] = "none" /\ offers[other] /\ Fallback(other) /\ UNCHANGED main
       \/ format[other] = "none" /\ main' = "abandon" /\ UNCHANGED <<format, offers>>
    /\ UNCHANGED <<negotiations, loop, hand, stale, out, slot, workers, stream, active, other, pending, wants>>

(* CaptureHalt joins the loop's thread: the old stream's, or that of one to abandon. *)
CaptureHalt ==
    /\ main \in {"halt", "abandon"}
    /\ LET c == IF main = "halt" THEN active ELSE other IN
        loop[c] = "idle" /\ stream' = [stream EXCEPT ![c] = "halted"]
    /\ main' = IF main = "halt" THEN "switch" ELSE "clear"
    /\ UNCHANGED <<loops, out, slot, workers, active, other, pending, wants>>

(* SourceSelect under the frame lock: the new stream is the source's. *)
Switch ==
    /\ main = "switch"
    /\ pending' = [pending EXCEPT !["main"] = InSlot]
    /\ slot' = Empty
    /\ active' = other /\ other' = active /\ main' = "leave"
    /\ UNCHANGED <<loops, out, workers, stream, wants>>

(* SourceAbandon under the frame lock: only what is its own goes. *)
Abandon ==
    /\ main = "clear"
    /\ IF slot.exported /\ slot.capture = other
       THEN pending' = [pending EXCEPT !["main"] = InSlot] /\ slot' = Empty
       ELSE UNCHANGED <<pending, slot>>
    /\ main' = "leave"
    /\ UNCHANGED <<loops, out, workers, stream, active, other, wants>>

(* What was in the slot goes back, then the stream that is left is freed. *)
LeaveGives ==
    /\ main = "leave" /\ GivesBack(pending["main"])
    /\ pending' = [pending EXCEPT !["main"] = Nothing] /\ main' = "free"
    /\ UNCHANGED <<loops, slot, workers, stream, active, other, wants>>

CaptureStop ==
    /\ main = "free"
    /\ stream' = [stream EXCEPT ![other] = "freed"]
    /\ other' = None /\ main' = "start"
    /\ UNCHANGED <<loops, out, slot, workers, active, pending, wants>>

(* The encoder: zero-copy if the stream exports and the encoder agrees. *)
StartWorker ==
    /\ main \in {"stopped", "start"} /\ loop[active] = "idle"
    /\ \/ /\ zeroCopy' = (format[active] = "exported")
          /\ worker' = "ready" /\ main' = "idle"
          /\ UNCHANGED <<slot, pending, wants>>
       \/ /\ format[active] = "exported" /\ EmptySlot("main")
          /\ main' = "refuse" /\ UNCHANGED <<worker, zeroCopy>>
    /\ UNCHANGED <<loops, out, taken, stream, active, other>>

RefuseGives ==
    /\ main = "refuse" /\ GivesBack(pending["main"])
    /\ pending' = [pending EXCEPT !["main"] = Nothing] /\ main' = "refused"
    /\ UNCHANGED <<loops, slot, workers, stream, active, other, wants>>

RefuseDisables ==
    /\ main = "refused" /\ loop[active] = "idle" /\ Fallback(active)
    /\ zeroCopy' = FALSE /\ worker' = "ready" /\ main' = "idle"
    /\ UNCHANGED <<negotiations, loop, hand, stale, out, slot, taken, stream, active, other, pending, wants>>

(* SourceDestroy reads the slot without its lock ... *)
DestroyReads ==
    /\ main = "stopped"
    /\ pending' = [pending EXCEPT !["main"] = InSlot]
    /\ main' = "destroy"
    /\ UNCHANGED <<loops, out, slot, workers, stream, active, other, wants>>

(* ... and gives back what it read, *)
DestroyGives ==
    /\ main = "destroy" /\ GivesBack(pending["main"])
    /\ slot' = IF pending["main"].handle = None THEN slot
               ELSE [slot EXCEPT !.handle = None, !.exported = FALSE]
    /\ pending' = [pending EXCEPT !["main"] = Nothing] /\ main' = "last"
    /\ UNCHANGED <<loops, workers, stream, active, other, wants>>

(* then joins the loop and frees stream and source. *)
DestroyStops ==
    /\ main = "last" /\ loop[active] = "idle"
    /\ stream' = [stream EXCEPT ![active] = "freed"]
    /\ slot' = Empty /\ out' = {b \in out : Of(b) # active} /\ main' = "gone"
    /\ UNCHANGED <<loops, workers, active, other, pending, wants>>

Main == \/ JoinWorker \/ CaptureStart \/ WaitFormat \/ CaptureHalt \/ Switch \/ Abandon
        \/ LeaveGives \/ CaptureStop \/ StartWorker \/ RefuseGives \/ RefuseDisables
        \/ DestroyReads \/ DestroyGives \/ DestroyStops

WaylandNext == (\E c \in Captures : Loop(c)) \/ Worker \/ Main

WaylandSpec == WaylandInit /\ [][WaylandNext]_vars

(* Callbacks return, an encode ends, and the event loop's thread goes on unless it is idle. *)
WaylandFairSpec ==
    /\ WaylandSpec
    /\ \A c \in Captures : WF_vars(OnFrameElsewhere(c) \/ OnFrame(c) \/ Drop(c))
    /\ SF_vars(Encode \/ FallBackEmpties \/ FallBackGives \/ FallBackDisables \/ ReleaseFrame)
    /\ SF_vars(main # "idle" /\ Main)
----------------------------------------------------------------------------
WaylandTypeOK ==
    /\ stream \in [Captures -> {"unused", "running", "halted", "freed"}]
    /\ format \in [Captures -> {"none", "mapped", "exported"}]
    /\ offers \in [Captures -> BOOLEAN] /\ negotiations \in 0..MaxNegotiations
    /\ out \subseteq Buffers
    /\ loop \in [Captures -> {"idle", "frame", "drop"}]
    /\ hand \in [Captures -> Buffers \cup {None}] /\ stale \in [Captures -> Buffers \cup {None}]
    /\ slot \in [fresh : BOOLEAN, exported : BOOLEAN,
                 handle : Buffers \cup {None}, capture : Captures \cup {None}]
    /\ worker \in {"off", "ready", "encode", "empty", "give", "disable", "release"}
    /\ zeroCopy \in BOOLEAN /\ wants \in BOOLEAN
    /\ taken \in [handle : Buffers \cup {None}, from : Captures \cup {None}]
    /\ main \in {"idle", "stopped", "wait", "halt", "abandon", "switch", "clear", "leave", "free",
                 "start", "refuse", "refused", "destroy", "last", "gone"}
    /\ active \in Captures /\ other \in Captures \cup {None}
    /\ pending \in [{"worker", "main"} -> [handle : Buffers \cup {None}, from : Captures \cup {None}]]

Holders(b) ==
    {<<"hand", c>> : c \in {d \in Captures : hand[d] = b}}
        \cup {<<"stale", c>> : c \in {d \in Captures : stale[d] = b}}
        \cup {<<"pending", t>> : t \in {u \in {"worker", "main"} : pending[u].handle = b}}
        \cup (IF slot.exported /\ slot.handle = b THEN {"slot"} ELSE {})
        \cup (IF taken.handle = b THEN {"taken"} ELSE {})

(* A buffer the compositor has handed over is in exactly one hand until it is given back to
   its own stream, and no stream is freed while one of its buffers is out: neither a frame
   that overtakes another, nor a change of screen between two streams that both deliver, nor
   the fall back to mapped memory loses one or hands it to freed memory (desktop_wayland.c
   613-618 and 714-719). *)
BuffersGoHome ==
    main \notin {"destroy", "last", "gone"} =>
        \A b \in Buffers :
            /\ Cardinality(Holders(b)) = IF b \in out THEN 1 ELSE 0
            /\ b \in out => stream[Of(b)] \in {"running", "halted"}

(* The event loop's thread comes back from every change of screen and the worker from every
   frame: no loop, worker or event loop waits for another in a circle (desktop_wayland.c
   188-197, wayland_capture.c 1018-1031). *)
NobodyWaitsForGood ==
    /\ main # "idle" ~> main \in {"idle", "gone"}
    /\ worker \notin {"off", "ready"} ~> worker \in {"off", "ready"}
=============================================================================
