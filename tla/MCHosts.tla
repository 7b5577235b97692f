------------------------------- MODULE MCHosts -------------------------------
(***************************************************************************)
(* The two ends of a connection as processes: the command line client with   *)
(* its session and its login, and the agent on Windows with the launcher      *)
(* that supervises it, the helper on the secure desktop and the capture.       *)
(* Each works on state of its own, so a behaviour is one of them at work, the   *)
(* others at rest.                                                              *)
(***************************************************************************)
EXTENDS ClientSession, ClientLogin, Launcher, FiniteSets

CONSTANTS
    Pipelines, MaxHelpers, MaxLeaks,                   \* of the helper
    MaxInside, Candidates, MaxStalls, MaxFailures,
    MaxReinit, MaxStarts                               \* of the capture

ASSUME BridgeAssumption == IsFiniteSet(Pipelines) /\ MaxHelpers \in Nat /\ MaxLeaks \in Nat
ASSUME CaptureAssumption ==
    /\ MaxInside \in Nat /\ Candidates \in Nat /\ MaxStalls \in Nat
    /\ MaxFailures \in Nat /\ MaxReinit \in Nat /\ MaxStarts \in Nat

VARIABLES
    part,                                              \* the one at work
    up, main, asked, reqs, reps, held, bridgeUp, count, capturing, pipe, users,
    leaked, parked, thread, job, lhelper, helper, writer, shown,    \* the helper
    pass, running, force, hold, applyQ, enc, left, box, have, published, gdi, dup,
    reinit, failures, att, bridged, noLocal, ready, secure, broken, lost, starts  \* the capture

Bridge == INSTANCE Elevation WITH ready <- bridgeUp, att <- users, secure <- shown
Capture == INSTANCE WinCapture WITH stage <- pass

helperVars == <<up, main, asked, reqs, reps, held, bridgeUp, count, capturing, pipe, users,
                leaked, parked, thread, job, lhelper, helper, writer, shown>>
captureVars == <<pass, running, force, hold, applyQ, enc, left, box, have, published, gdi, dup,
                 reinit, failures, att, bridged, noLocal, ready, secure, broken, lost, starts>>

Parts == {"client", "login", "launcher", "helper", "capture"}

MCInit ==
    /\ part \in Parts
    /\ ClientInit /\ LoginInit /\ LauncherInit /\ Bridge!ElevationInit /\ Capture!WinInit
    /\ part # "client" => /\ ~opts.add /\ ~opts.required /\ ~opts.tty
                          /\ \A s \in Sizes : win.real <= s
    /\ part # "launcher" => console = NoSession /\ \A s \in Sessions : occupant[s] = "gone"
    /\ part # "helper" => ~shown
    /\ part # "capture" => ~ready /\ ~secure

(* A step of one part leaves the others alone.                               *)
Alone(p) ==
    /\ part = p /\ UNCHANGED part
    /\ p = "client" \/ UNCHANGED clientVars
    /\ p = "login" \/ UNCHANGED loginVars
    /\ p = "launcher" \/ UNCHANGED launcherVars
    /\ p = "helper" \/ UNCHANGED helperVars
    /\ p = "capture" \/ UNCHANGED captureVars

MCNext ==
    \/ part = "client" /\ ClientNext /\ Alone("client")
    \/ part = "login" /\ LoginNext /\ Alone("login")
    \/ part = "launcher" /\ LauncherNext /\ Alone("launcher")
    \/ part = "helper" /\ Bridge!ElevationNext /\ Alone("helper")
    \/ part = "capture" /\ Capture!WinNext /\ Alone("capture")

partVars == <<part, clientVars, loginVars, launcherVars, helperVars, captureVars>>

(* The fairness of LauncherFairSpec.                                         *)
Supervised == part = "launcher" /\ Supervises /\ Alone("launcher")
SignedOutEnds == part = "launcher" /\ SignOutEnds /\ Alone("launcher")

MCSpec ==
    /\ MCInit /\ [][MCNext]_partVars
    /\ WF_partVars(Supervised) /\ WF_partVars(SignedOutEnds)

-----------------------------------------------------------------------------

(* Whenever the main loop is at rest the attachments to the helper are the    *)
(* count, and at most one helper runs; and no step lets a helper that answers  *)
(* go under a pipeline or a waiting thread (elevated.c, g_elev).               *)
HelperIsCounted == [][Bridge!CountIsTrue' /\ Bridge!LetGoByTheLast]_helperVars

(* As long as the viewer's decoder lacks a key frame, one is on its way,     *)
(* or the encoder lost it since the last request (desktop_win.c, mfenc.c).    *)
KeyIsOwed == Capture!KeyIsOwed
==============================================================================
