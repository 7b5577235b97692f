------------------------------- MODULE WinCapture -------------------------------
(* The Windows pipeline of a desktop session (desktop_win.c, mfenc.c): a thread  *)
(* captures the screen by duplication, by GDI or through the elevated helper,  *)
(* encodes it with Media Foundation and leaves it in a mailbox of one frame;   *)
(* the main loop takes it from there and asks for key frames.                 *)
EXTENDS Naturals, Sequences

CONSTANTS
    MaxInside,     \* bound: frames a hardware encoder holds back
    Candidates,    \* encoders the system offers
    MaxStalls,     \* DIRECTGATE_MFENC_MAX_STALLS
    MaxFailures,   \* what HasFailed allows: FAILURE_SECONDS of frames
    MaxReinit,     \* REINIT_SECONDS of failed duplications
    MaxStarts      \* bound: pipelines started

VARIABLES
    stage,       \* the thread: off, init, top, gate, take, capture, encode, idle, left
    running,     \* bRunning
    force,       \* bForceKeyframe
    hold,        \* the pass's own copy of it
    applyQ,      \* bApplyQuality
    enc,         \* the encoder: what it holds, its record, a key frame asked for
    left,        \* candidates not rejected yet, the one in use included
    box,         \* the mailbox: none, p or key
    have,        \* bHaveFrame
    published,   \* bPublished
    gdi, dup,    \* bUseGdi; there is a duplication
    reinit,      \* nDxgiReinitFails
    failures,    \* nFailures
    att, bridged, noLocal,   \* bElevAttached, bBridged, bNoLocalCapture
    ready,       \* the helper answers
    secure,      \* the secure desktop is up
    broken,      \* the viewer's decoder needs a key frame
    lost,        \* the encoder forgot a request or failed a frame, and none was asked for since
    starts       \* starts left

source == <<gdi, dup, reinit, bridged, noLocal>>
shared == <<running, force, applyQ, box>>
output == <<enc, left, published, broken>>   \* and lost, see WinNext
outside == <<att, ready, secure, starts>>
winVars == <<stage, shared, hold, output, lost, have, source, failures, outside>>

NoEncoder == [up |-> FALSE, inside |-> <<>>, proven |-> FALSE, stalls |-> 0, key |-> FALSE]
NewEncoder == [NoEncoder EXCEPT !.up = TRUE]
Upto(n, top) == IF n < top THEN n + 1 ELSE top

WinTypeOK ==
    /\ stage \in {"off", "init", "top", "gate", "take", "capture", "encode", "idle", "left"}
    /\ running \in BOOLEAN /\ force \in BOOLEAN /\ hold \in BOOLEAN /\ applyQ \in BOOLEAN
    /\ enc \in [up : BOOLEAN, inside : Seq(BOOLEAN), proven : BOOLEAN, stalls : 0 .. MaxStalls,
                key : BOOLEAN]
    /\ Len(enc.inside) <= MaxInside /\ left \in 0 .. Candidates
    /\ box \in {"none", "p", "key"} /\ have \in BOOLEAN /\ published \in BOOLEAN
    /\ gdi \in BOOLEAN /\ dup \in BOOLEAN /\ reinit \in 0 .. MaxReinit
    /\ failures \in 0 .. MaxFailures /\ att \in BOOLEAN /\ bridged \in BOOLEAN /\ noLocal \in BOOLEAN
    /\ ready \in BOOLEAN /\ secure \in BOOLEAN /\ broken \in BOOLEAN /\ lost \in BOOLEAN
    /\ starts \in 0 .. MaxStarts

WinInit ==
    /\ stage = "off" /\ running = FALSE /\ force = FALSE /\ hold = FALSE /\ applyQ = FALSE
    /\ enc = NoEncoder /\ left = 0 /\ box = "none" /\ have = FALSE /\ published = FALSE
    /\ gdi = FALSE /\ dup = FALSE /\ reinit = 0 /\ failures = 0
    /\ att = FALSE /\ bridged = FALSE /\ noLocal = FALSE
    /\ ready \in BOOLEAN /\ secure \in BOOLEAN /\ broken = FALSE /\ lost = FALSE
    /\ starts = MaxStarts

-----------------------------------------------------------------------------
(* The main loop: start, stop, requests.                                     *)

(* WinEncoder_Start: a new pipeline owes its viewer a key frame.              *)
Start ==
    /\ stage = "off" /\ starts > 0 /\ starts' = starts - 1
    /\ stage' = "init" /\ running' = TRUE /\ force' = TRUE /\ applyQ' = FALSE /\ box' = "none"
    /\ hold' = FALSE /\ enc' = NoEncoder /\ left' = Candidates /\ published' = FALSE /\ broken' = TRUE
    /\ have' = FALSE /\ failures' = 0 /\ gdi' = FALSE /\ dup' = FALSE /\ reinit' = 0
    /\ bridged' = FALSE /\ noLocal' = FALSE
    /\ ready' \in {ready, TRUE} /\ att' = ready' /\ UNCHANGED secure

(* StopDesktop: for the end of the session, a rebuild, or after HasFailed.    *)
StopDesktop ==
    /\ running /\ stage # "init" /\ running' = FALSE
    /\ UNCHANGED <<stage, hold, force, applyQ, box, output, have, source, failures, outside>>

HasFailed == failures >= MaxFailures

(* Free, after the thread was joined.                                        *)
Free ==
    /\ stage = "left" /\ ~running /\ stage' = "off"
    /\ bridged' = FALSE /\ noLocal' = FALSE /\ box' = "none" /\ have' = FALSE /\ hold' = FALSE
    /\ att' = FALSE /\ broken' = FALSE
    /\ UNCHANGED <<running, force, applyQ, enc, left, published, gdi, dup, reinit, failures,
                   ready, secure, starts>>

Requests ==
    /\ running /\ stage # "init"
    /\ \/ force' = TRUE /\ UNCHANGED applyQ
       \/ applyQ' = TRUE /\ UNCHANGED force
    /\ UNCHANGED <<stage, running, box, hold, output, have, source, failures, outside>>

(* DrainMain: a frame that has become stale is dropped, and with it the        *)
(* decoder's chain of references.                                            *)
DrainMain ==
    /\ running /\ box # "none" /\ box' = "none"
    /\ \/ broken' = (broken /\ box # "key") /\ UNCHANGED force
       \/ broken' = TRUE /\ force' = TRUE
    /\ UNCHANGED <<stage, running, applyQ, hold, enc, left, published, have, source, failures, outside>>

-----------------------------------------------------------------------------
(* The bridge.                                                               *)

CanEnter == att /\ ready
Enter == bridged' = TRUE /\ dup' = FALSE /\ UNCHANGED <<gdi, reinit, noLocal>>

(* LeaveBridge, back to duplication unless GDI is in use; a pipeline without   *)
(* a capture of its own stays.                                               *)
CanLeave == bridged /\ ~noLocal
Leave ==
    /\ bridged' = FALSE /\ dup' \in IF gdi THEN {FALSE} ELSE BOOLEAN
    /\ reinit' = IF dup' THEN 0 ELSE reinit
    /\ UNCHANGED <<gdi, noLocal>>

-----------------------------------------------------------------------------
(* The thread.                                                               *)

(* Media Foundation's candidates, the vendors' first: the first one that was    *)
(* not rejected, can be activated and takes the configuration, if any does.   *)
Configured(e) == e = NewEncoder
Create(n) == IF n > 0 THEN Configured(enc') \/ enc' = NoEncoder ELSE enc' = NoEncoder

(* InitPipeline: duplication or else GDI, the best encoder, a first picture    *)
(* by GDI - or the helper's, when this process can see nothing.              *)
InitPipeline ==
    /\ stage = "init"
    /\ gdi' \in BOOLEAN /\ Create(left)
    /\ \/ /\ stage' = "top" /\ enc'.up /\ have' = TRUE
          /\ dup' = ~gdi' /\ UNCHANGED <<running, force, bridged, noLocal>>
       \/ /\ stage' = "top" /\ enc'.up /\ CanEnter /\ dup' = FALSE
          /\ bridged' = TRUE /\ noLocal' = TRUE /\ force' = TRUE /\ UNCHANGED <<running, have>>
       \/ /\ stage' = "left" /\ running' = FALSE /\ ~enc'.up /\ dup' = FALSE
          /\ UNCHANGED <<force, bridged, noLocal, have>>
    /\ UNCHANGED <<applyQ, box, hold, left, published, broken, reinit, failures, outside>>

(* ApplyPendingControls: a new quality begins with a key frame.               *)
ApplyPendingControls ==
    /\ stage = "top" /\ running /\ stage' = "gate"
    /\ applyQ' = FALSE /\ force' = (force \/ applyQ)
    /\ UNCHANGED <<running, box, hold, output, have, source, failures, outside>>

(* A pass goes on while the mailbox is empty and the transport is not full.    *)
Gate ==
    /\ stage = "gate" /\ running
    /\ \/ stage' = "top" 
       \/ box = "none" /\ stage' = "take"
    /\ UNCHANGED <<shared, hold, output, have, source, failures, outside>>

ThreadLeaves ==
    /\ stage \in {"top", "gate"} /\ ~running /\ stage' = "left"
    /\ enc' = NoEncoder /\ dup' = FALSE
    /\ UNCHANGED <<shared, hold, left, published, broken, have, gdi, reinit, bridged, noLocal,
                   failures, outside>>

(* The request is taken; then the desktop is probed, on every pass while       *)
(* bridged. Both ways over the bridge ask for a key frame.                   *)
Take ==
    /\ stage = "take" /\ stage' = "capture" /\ hold' = force
    /\ \/ secure /\ ~bridged /\ CanEnter /\ Enter /\ force' = TRUE
       \/ ~secure /\ CanLeave /\ Leave /\ force' = TRUE
       \/ (secure \/ ~CanLeave) /\ UNCHANGED source /\ force' = FALSE
    /\ UNCHANGED <<running, applyQ, box, output, have, failures, outside>>

Fails == failures' = Upto(failures, MaxFailures)

(* Mutant: the request a failed capture had taken is not put back.            *)
RestoredNot == UNCHANGED force

Restored == force' = (force \/ hold)

(* The pass has a picture, a new one or none; what it does is in Encodes.     *)
WarmUp == ~published /\ have'
Goes(new) == stage' = IF new \/ WarmUp \/ (hold /\ have') THEN "encode" ELSE "idle"

(* CaptureBridged; a helper that is gone: back to our own capture.            *)
CaptureBridged ==
    /\ bridged
    /\ \/ /\ ready /\ UNCHANGED <<force, source, failures>>
          /\ \E new \in BOOLEAN : have' = (have \/ new) /\ Goes(new)
       \/ /\ ~ready /\ stage' = "top" /\ UNCHANGED <<have, failures>>
          /\ IF CanLeave THEN Leave /\ force' = TRUE ELSE UNCHANGED source /\ Restored

(* CaptureGdi: always a picture, a new one when a key frame is due.           *)
CaptureGdi == \E new \in BOOLEAN : (hold => new) /\ have' = TRUE /\ Goes(new)

CaptureDxgi ==
    /\ ~bridged /\ ~gdi /\ dup /\ UNCHANGED <<force, source, failures>>
    /\ \E new \in BOOLEAN : have' = (have \/ new) /\ Goes(new)

(* A lost duplication: another try, GDI in the end, the bridge if that is the   *)
(* reason, and a picture by GDI for now.                                     *)
DuplicationLost ==
    /\ ~bridged /\ ~gdi /\ Fails
    /\ \/ dup' = TRUE /\ reinit' = 0 /\ stage' = "top" /\ Restored
          /\ UNCHANGED <<gdi, bridged, noLocal, have>>
       \/ /\ reinit' = Upto(reinit, MaxReinit) /\ gdi' = (reinit' = MaxReinit) /\ dup' = FALSE
          /\ UNCHANGED noLocal
          /\ IF secure /\ CanEnter THEN bridged' = TRUE /\ stage' = "top" /\ force' = TRUE /\ UNCHANGED have
             ELSE /\ UNCHANGED bridged /\ Restored
                  /\ CaptureGdi \/ (stage' = "top" /\ UNCHANGED have)

CaptureByGdi ==
    /\ ~bridged /\ gdi /\ UNCHANGED source
    /\ \/ CaptureGdi /\ UNCHANGED <<force, failures>>
       \/ stage' = "top" /\ Fails /\ Restored /\ UNCHANGED have

Capture ==
    /\ stage = "capture"
    /\ CaptureBridged \/ CaptureDxgi \/ DuplicationLost \/ CaptureByGdi
    /\ UNCHANGED <<running, applyQ, box, hold, output, outside>>

(* Publish: the oldest frame of q goes into the mailbox.                      *)
Publish(q) == box' = (IF Head(q) THEN "key" ELSE "p") /\ published' = TRUE

(* Frames the encoder fails to hand out break the decoder's chain of          *)
(* references; a request may be forgotten. Neither is noticed by the pass.    *)
Loses(frames, request) ==
    /\ broken' = (broken \/ frames)
    /\ lost' = ((lost \/ frames \/ request) /\ ~force')

(* Nothing new on the screen: what the encoder holds back is collected, or     *)
(* fails to come out.                                                        *)
Idle ==
    /\ stage = "idle" /\ stage' = "top" /\ Restored
    /\ \/ /\ enc.up /\ enc.inside # <<>> /\ Publish(enc.inside) /\ UNCHANGED failures
          /\ enc' = [enc EXCEPT !.inside = Tail(@), !.proven = TRUE, !.stalls = 0]
          /\ Loses(FALSE, FALSE)
       \/ /\ enc.up /\ enc.inside # <<>> /\ enc' = [enc EXCEPT !.inside = Tail(@)] /\ Fails
          /\ Loses(TRUE, FALSE) /\ UNCHANGED <<box, published>>
       \/ /\ UNCHANGED <<box, published, enc>> /\ Loses(FALSE, FALSE)
          /\ failures' \in {failures, Upto(failures, MaxFailures)}
    /\ UNCHANGED <<running, applyQ, hold, left, have, source, outside>>

(* Encode asks for a key frame when one is due, or when nothing was published  *)
(* yet. The knob is best effort: set, it stays with the encoder until an input *)
(* is taken; an encoder without it goes on as before, and nobody looks.       *)
Forced == enc.key \/ hold \/ ~published

(* Before and while it waits to feed the encoder: the knob k, and n frames     *)
(* that were announced and failed to come out.                               *)
After(n, k) == [enc EXCEPT !.inside = SubSeq(@, n + 1, Len(@)), !.key = k]

(* The input is taken, as a key frame if the knob says so or the encoder is     *)
(* due one; a frame comes out, or it is collected later.                     *)
Fed(e, x) == [e EXCEPT !.inside = Append(@, x), !.stalls = 0, !.key = FALSE]
Accepted(n, k) ==
    /\ enc.up /\ failures' = 0 /\ UNCHANGED <<force, left>>
    /\ \E x \in {k, TRUE} :
        LET e == Fed(After(n, k), x) IN
        /\ Loses(n > 0, hold /\ ~x)
        /\ \/ /\ Publish(e.inside) /\ enc' = [e EXCEPT !.inside = Tail(@), !.proven = TRUE]
              /\ have' = (have /\ ~gdi)
           \/ /\ Len(e.inside) <= MaxInside /\ enc' = e
              /\ UNCHANGED <<box, published, have>>

(* WaitInput: it asks for no input, but gives up a frame.                     *)
Collected(n, k) ==
    LET e == After(n, k) IN
    /\ enc.up /\ e.inside # <<>> /\ Publish(e.inside)
    /\ enc' = [e EXCEPT !.inside = Tail(@), !.proven = TRUE, !.stalls = 0]
    /\ have' = (have /\ ~gdi) /\ failures' = 0 /\ UNCHANGED <<force, left>>
    /\ Loses(n > 0, hold /\ ~k)

(* The input is refused, and with it a frame collected while waiting is thrown  *)
(* away; or it is taken and the output fails, m frames of it lost for good.   *)
Refused(n, k) ==
    LET e == After(n, k) IN
    /\ Fails /\ Restored /\ UNCHANGED <<box, published, have, left>>
    /\ \/ ~enc.up /\ UNCHANGED enc /\ Loses(FALSE, FALSE)
       \/ enc.up /\ enc' \in {e, [e EXCEPT !.proven = @ \/ n > 0]} /\ Loses(n > 0, FALSE)
       \/ /\ enc.up
          /\ \E x \in {k, TRUE}, m \in {0, 1} :
                LET q == Fed(e, x).inside IN
                /\ Len(q) - m <= MaxInside /\ Loses(n + m > 0, FALSE)
                /\ enc' = [Fed(e, x) EXCEPT !.inside = SubSeq(q, m + 1, Len(q))]

(* Neither input nor output: a stall. An encoder that never worked, or stalls  *)
(* too often, is rejected and the next candidate begins a new stream.        *)
Stall(e) == [e EXCEPT !.stalls = @ + 1]
IsWedged(e) == ~e.proven \/ e.stalls >= MaxStalls
Reject == left' = left - 1

SwapEncoder ==
    /\ Reject /\ Create(left')
    /\ \/ enc'.up /\ failures' = 0 /\ force' = TRUE
       \/ ~enc'.up /\ Fails /\ Restored
    /\ broken' = TRUE /\ lost' = (lost /\ ~force')

Stalled(n, k) ==
    LET e == Stall(After(n, k)) IN
    /\ enc.up
    /\ IF IsWedged(e) THEN SwapEncoder
       ELSE enc' = e /\ Fails /\ Restored /\ UNCHANGED left /\ Loses(n > 0, FALSE)
    /\ UNCHANGED <<box, published, have>>

EncodeFrame ==
    /\ stage = "encode" /\ stage' = "top"
    /\ \E n \in 0 .. Len(enc.inside), k \in {enc.key, Forced} :
          Accepted(n, k) \/ Collected(n, k) \/ Refused(n, k) \/ Stalled(n, k)
    /\ UNCHANGED <<running, applyQ, hold, source, outside>>

-----------------------------------------------------------------------------
(* Windows: the secure desktop comes and goes; the helper ends.               *)
Outside ==
    /\ \/ secure' = ~secure /\ UNCHANGED ready
       \/ ready /\ ready' = FALSE /\ UNCHANGED secure
    /\ UNCHANGED <<stage, shared, hold, output, have, source, failures, att, starts>>

(* A request makes up for what was lost.                                     *)
WinNext ==
    \/ /\ \/ Start \/ StopDesktop \/ Free \/ Requests \/ DrainMain
          \/ InitPipeline \/ ApplyPendingControls \/ Gate \/ ThreadLeaves \/ Take \/ Capture
          \/ Outside
       /\ lost' = (lost /\ ~force')
    \/ Idle \/ EncodeFrame

WinSpec == WinInit /\ [][WinNext]_winVars

-----------------------------------------------------------------------------
(* As long as the viewer's decoder lacks a key frame, one is on its way: asked  *)
(* for, held by the pass, known to the encoder, inside it or in the mailbox.   *)
(* The request changes hands between two threads and past every failure of    *)
(* capture and encoder (desktop_win.c 980-1138, 1420-1452), unless no encoder  *)
(* is left, which ends the pipeline. The encoder alone may lose it: by a knob  *)
(* that does nothing or by a frame that fails to come out (mfenc.c 194-205,    *)
(* 1094-1151), and then only the viewer's next request brings a key frame.    *)
OnItsWay ==
    \/ force
    \/ stage \in {"capture", "encode", "idle"} /\ hold
    \/ enc.key \/ box = "key" \/ \E i \in 1 .. Len(enc.inside) : enc.inside[i]
KeyIsOwed ==
    (running /\ broken /\ stage \notin {"init", "left"} /\ enc.up) => OnItsWay \/ lost

=============================================================================
