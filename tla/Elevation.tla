------------------------------- MODULE Elevation -------------------------------
(* The bridge to the secure desktop (elevated.c, launcher.c): the agent asks   *)
(* the launcher over a private pipe for a SYSTEM helper and shares it among    *)
(* the desktop pipelines; while a UAC prompt or the lock screen is up their    *)
(* capture threads take their frames from it.                                *)
EXTENDS Naturals, Sequences, FiniteSets

CONSTANTS
    Pipelines,     \* the desktop sessions of the agent
    MaxHelpers,    \* bound: helpers spawned
    MaxLeaks       \* bound: attachments left behind by their pipeline

VARIABLES
    up,          \* the agent's process runs
    main,        \* the main loop: idle, or building a pipeline anew
    asked,       \* requests sent, by number
    reqs, reps,  \* the control pipe's two directions
    held,        \* the helper whose handles g_elev has, or 0
    ready,       \* bReady
    count,       \* nAttachCount
    capturing,   \* bCapturing
    pipe,        \* each pipeline: none, local, bridged
    att,         \* its bElevAttached
    leaked,      \* history: attachments nobody is left to give up
    parked,      \* the helper whose event its capture thread waits on, or 0
    thread,      \* the launcher's control thread: read, stop, spawn, reply; gone
    job,         \* the request it serves, and the helper for it
    lhelper,     \* g_hElevHelper, or 0
    helper,      \* each helper: none, runs, ended
    writer,      \* the agent has the write end of its command pipe
    secure       \* the secure desktop is up

ctl == <<asked, reqs, reps>>
elev == <<held, ready, count, capturing>>
pipes == <<pipe, att, leaked, parked>>
launcher == <<thread, job, lhelper>>
helpers == <<helper, writer>>
elevationVars == <<up, main, ctl, elev, pipes, launcher, helpers, secure>>

Helpers == 1 .. MaxHelpers
NoJob == [req |-> 0, helper |-> 0]
Jobs == [req : 0 .. MaxHelpers + 1, helper : 0 .. MaxHelpers]
Idle == [at |-> "idle"]
Mains == {Idle} \cup [at : {"ask", "rebuild", "start"}, p : Pipelines, ok : BOOLEAN]

ElevationTypeOK ==
    /\ up \in BOOLEAN /\ main \in Mains /\ asked \in 0 .. MaxHelpers + 1
    /\ reqs \in Seq([kind : {"helper", "release"}, req : 0 .. MaxHelpers + 1]) /\ reps \in Seq(Jobs)
    /\ held \in 0 .. MaxHelpers /\ ready \in BOOLEAN /\ leaked \in 0 .. MaxLeaks
    /\ count \in 0 .. Cardinality(Pipelines) + MaxLeaks + 1
    /\ capturing \in BOOLEAN
    /\ pipe \in [Pipelines -> {"none", "local", "bridged"}] /\ att \in [Pipelines -> BOOLEAN]
    /\ parked \in [Pipelines -> 0 .. MaxHelpers]
    /\ thread \in {"read", "stop", "spawn", "reply", "gone"} /\ job \in Jobs
    /\ lhelper \in 0 .. MaxHelpers
    /\ helper \in [Helpers -> {"none", "runs", "ended"}] /\ writer \in [Helpers -> BOOLEAN]
    /\ secure \in BOOLEAN

ElevationInit ==
    /\ up = TRUE /\ main = Idle /\ asked = 0 /\ reqs = <<>> /\ reps = <<>>
    /\ held = 0 /\ ready = FALSE /\ count = 0 /\ capturing = FALSE
    /\ pipe = [p \in Pipelines |-> "none"] /\ att = [p \in Pipelines |-> FALSE]
    /\ parked = [p \in Pipelines |-> 0] /\ leaked = 0
    /\ thread = "read" /\ job = NoJob /\ lhelper = 0
    /\ helper = [h \in Helpers |-> "none"] /\ writer = [h \in Helpers |-> FALSE]
    /\ secure \in BOOLEAN

-----------------------------------------------------------------------------
(* The agent's side of the helper.                                           *)

Ready == ready /\ held # 0

(* CloseHelper: the section, the events and the command pipe.                *)
CloseHelper ==
    /\ held' = 0 /\ ready' = FALSE /\ capturing' = FALSE
    /\ writer' = IF held = 0 THEN writer ELSE [writer EXCEPT ![held] = FALSE]

(* Command: one record for the helper. A broken pipe only clears bReady.      *)
CommandOk == Ready /\ helper[held] = "runs"
Command == ready' = CommandOk

(* StartCapture and StopCapture, which every pipeline of the agent shares.    *)
StartCapture ==
    IF capturing THEN UNCHANGED <<ready, capturing>> ELSE Command /\ capturing' = CommandOk
StopCapture ==
    IF capturing THEN Command /\ capturing' = FALSE ELSE UNCHANGED <<ready, capturing>>

(* RequestHelper: the request, and the wait for an answer.                    *)
Request ==
    /\ asked < MaxHelpers /\ asked' = asked + 1
    /\ reqs' = Append(reqs, [kind |-> "helper", req |-> asked'])

(* WinEncoder_Start attaches before the old pipeline is torn down. Attach:     *)
(* one more for a live helper; else what is left of the last one is closed,   *)
(* and a new one asked for.                                                  *)
Attach(p) ==
    /\ up /\ main = Idle
    /\ \/ /\ Ready /\ count' = count + 1
          /\ main' = [at |-> "rebuild", p |-> p, ok |-> TRUE]
          /\ UNCHANGED <<held, ready, capturing, writer, ctl>>
       \/ /\ ~Ready /\ CloseHelper /\ UNCHANGED count
          /\ \/ Request /\ main' = [at |-> "ask", p |-> p, ok |-> FALSE] /\ UNCHANGED reps
             \/ main' = [at |-> "rebuild", p |-> p, ok |-> FALSE] /\ UNCHANGED ctl
    /\ UNCHANGED <<up, pipes, launcher, helper, secure>>

(* The answer: the first record in the pipe, adopted if the frame section   *)
(* can be mapped; what cannot be used is closed at once.                     *)
Answer ==
    /\ main.at = "ask" /\ reps # <<>>
    /\ reps' = Tail(reps)
    /\ LET h == Head(reps).helper IN
        \/ /\ h # 0 /\ held' = h /\ ready' = TRUE /\ count' = count + 1
           /\ main' = [main EXCEPT !.at = "rebuild", !.ok = TRUE]
           /\ UNCHANGED <<capturing, writer>>
        \/ /\ held' = 0 /\ ready' = FALSE /\ capturing' = FALSE
           /\ writer' = IF h = 0 THEN writer ELSE [writer EXCEPT ![h] = FALSE]
           /\ main' = [main EXCEPT !.at = "rebuild", !.ok = FALSE]
           /\ UNCHANGED count
    /\ UNCHANGED <<up, asked, reqs, pipes, launcher, helper, secure>>

(* RecvTimed runs out, or the launcher's end is closed.                      *)
NoAnswer ==
    /\ main.at = "ask" /\ reps = <<>> 
    /\ main' = [main EXCEPT !.at = "rebuild", !.ok = FALSE]
    /\ UNCHANGED <<up, ctl, elev, pipes, launcher, helpers, secure>>

(* Mutant: whoever detaches closes the helper's channel.                      *)
IsLastAnyway == held # 0

(* The one that detaches is the last that uses the helper.                   *)
IsLast == count <= 1 /\ held # 0

(* Detach: the last one closes the helper's channel, which ends it, and lets  *)
(* the launcher reap it.                                                     *)
Detach ==
    /\ count' = IF count > 0 THEN count - 1 ELSE 0
    /\ IF IsLast
       THEN CloseHelper /\ reqs' = Append(reqs, [kind |-> "release", req |-> 0])
       ELSE UNCHANGED <<held, writer, reqs>>

(* StopDesktop and Free, once the capture thread is joined: a bridged pipeline *)
(* stops the capture, an attached one detaches. A thread that hangs in the    *)
(* driver is given up on, with its pipeline and the attachment; it is taken   *)
(* to stay where it hangs.                                                   *)
StopDesktop(p) ==
    /\ parked[p] = 0
    /\ pipe' = [pipe EXCEPT ![p] = "none"] /\ att' = [att EXCEPT ![p] = FALSE]
    /\ \/ /\ (att[p] /\ IsLast)
              \/ IF pipe[p] = "bridged" THEN StopCapture ELSE UNCHANGED <<ready, capturing>>
          /\ IF att[p] THEN Detach ELSE UNCHANGED <<held, count, writer, reqs>>
          /\ UNCHANGED leaked
       \/ /\ pipe[p] # "none" /\ (att[p] => leaked < MaxLeaks)
          /\ leaked' = IF att[p] THEN leaked + 1 ELSE leaked
          /\ UNCHANGED <<elev, writer, reqs>>

(* The old pipeline of the desktop goes.                                     *)
Rebuild ==
    /\ main.at = "rebuild" /\ StopDesktop(main.p)
    /\ main' = [main EXCEPT !.at = "start"]
    /\ UNCHANGED <<up, asked, reps, parked, launcher, helper, secure>>

(* The new one is put in its place; with no local capture it starts on the    *)
(* bridge.                                                                   *)
Started ==
    /\ main.at = "start" /\ main' = Idle
    /\ pipe' = [pipe EXCEPT ![main.p] = "local"] /\ att' = [att EXCEPT ![main.p] = main.ok]
    /\ UNCHANGED <<up, ctl, elev, leaked, parked, launcher, helpers, secure>>

(* An empty rectangle is turned away before there is a pipeline, and what was *)
(* attached for it stays attached; so it does when the new thread hangs while *)
(* it starts and is given up on.                                             *)
EmptyRectangle ==
    /\ main.at = "start" /\ main' = Idle
    /\ main.ok => leaked < MaxLeaks
    /\ leaked' = IF main.ok THEN leaked + 1 ELSE leaked
    /\ UNCHANGED <<up, ctl, elev, pipe, att, parked, launcher, helpers, secure>>

(* It could not be built, or its thread could not be started.                *)
StartFails ==
    /\ main.at = "start" /\ main' = Idle
    /\ IF ~main.ok THEN UNCHANGED <<reqs, elev, writer>>
       ELSE Detach /\ (IsLast \/ UNCHANGED <<ready, capturing>>)
    /\ UNCHANGED <<up, asked, reps, pipes, launcher, helper, secure>>

(* A desktop session ends.                                                   *)
EndPipeline(p) ==
    /\ up /\ main = Idle /\ pipe[p] # "none" /\ StopDesktop(p)
    /\ UNCHANGED <<up, main, asked, reps, parked, launcher, helper, secure>>

-----------------------------------------------------------------------------
(* The capture threads.                                                      *)

(* EnterBridge, once the secure desktop was seen.                            *)
EnterBridge(p) ==
    /\ up /\ pipe[p] = "local" /\ att[p] /\ secure /\ Ready
    /\ StartCapture
    /\ pipe' = [pipe EXCEPT ![p] = IF capturing' THEN "bridged" ELSE "local"]
    /\ UNCHANGED <<up, main, ctl, held, count, att, leaked, parked, launcher, helper, writer, secure>>

(* LeaveBridge: the prompt is gone, or the helper does not answer.            *)
LeaveBridge(p) ==
    /\ up /\ pipe[p] = "bridged" /\ parked[p] = 0 /\ (~secure \/ ~Ready)
    /\ StopCapture
    /\ pipe' = [pipe EXCEPT ![p] = "local"]
    /\ UNCHANGED <<up, main, ctl, held, count, att, leaked, parked, launcher, helper, writer, secure>>

(* ReadFrame waits on the helper's event, for a while, and copies the slot.   *)
Park(p) ==
    /\ up /\ pipe[p] = "bridged" /\ parked[p] = 0 /\ Ready
    /\ parked' = [parked EXCEPT ![p] = held]
    /\ UNCHANGED <<up, main, ctl, elev, pipe, att, leaked, launcher, helpers, secure>>
Wake(p) ==
    /\ parked[p] # 0 /\ parked' = [parked EXCEPT ![p] = 0]
    /\ UNCHANGED <<up, main, ctl, elev, pipe, att, leaked, launcher, helpers, secure>>

(* SendInput finds the pipe broken.                                          *)
InputFails ==
    /\ up /\ Ready /\ helper[held] # "runs" /\ ready' = FALSE /\ capturing' = FALSE
    /\ UNCHANGED <<up, main, ctl, held, count, pipes, launcher, helpers, secure>>

-----------------------------------------------------------------------------
(* The launcher's control thread.                                            *)

(* A request; the pipe's end, once the agent is gone.                        *)
Receive ==
    /\ thread = "read" /\ (reqs # <<>> \/ ~up)
    /\ thread' = "stop"
    /\ IF reqs = <<>> THEN job' = NoJob /\ UNCHANGED reqs
       ELSE job' = [req |-> Head(reqs).req, helper |-> 0] /\ reqs' = Tail(reqs)
    /\ UNCHANGED <<up, main, asked, reps, elev, pipes, lhelper, helpers, secure>>

(* Mutant: a helper that does not leave by itself is let be.                 *)
TerminateNot == UNCHANGED helper

(* StopHelper: a short wait for it to leave, then it is terminated.           *)
Terminate == helper' = IF lhelper = 0 THEN helper ELSE [helper EXCEPT ![lhelper] = "ended"]

StopHelper ==
    /\ thread = "stop" /\ Terminate /\ lhelper' = 0
    /\ thread' = IF job.req # 0 THEN "spawn" ELSE IF up \/ reqs # <<>> THEN "read" ELSE "gone"
    /\ UNCHANGED <<up, main, ctl, elev, pipes, job, writer, secure>>

(* The agent's ends of the channels are put into its own handle table.        *)
HandOver(h) ==
    writer' = [writer EXCEPT ![h] = up] /\ lhelper' = h /\ job' = [job EXCEPT !.helper = h]

(* SpawnHelper: the channels, and the process in the agent's session. Any      *)
(* step may fail, and then undoes the others.                                *)
SpawnHelper ==
    /\ thread = "spawn" /\ thread' = "reply"
    /\ \/ UNCHANGED <<job, lhelper, helper, writer>>
       \/ \E h \in Helpers :
            /\ helper[h] = "none" /\ \A i \in 1 .. h - 1 : helper[i] # "none"
            /\ helper' = [helper EXCEPT ![h] = "runs"]
            /\ HandOver(h)
    /\ UNCHANGED <<up, main, ctl, elev, pipes, secure>>

(* The reply; without an agent the helper is stopped again.                  *)
Reply ==
    /\ thread = "reply"
    /\ IF up THEN reps' = Append(reps, job) /\ thread' = "read" /\ job' = NoJob
       ELSE UNCHANGED reps /\ thread' = "stop" /\ job' = NoJob
    /\ UNCHANGED <<up, main, asked, reqs, elev, pipes, lhelper, helpers, secure>>

-----------------------------------------------------------------------------
(* The helper serves its command pipe, what it draws is not modelled. It ends   *)
(* with that pipe, with the agent's process, which it watches, or in a crash. *)

HelperEnds(h) ==
    /\ helper[h] = "runs" /\ helper' = [helper EXCEPT ![h] = "ended"]
    /\ UNCHANGED <<up, main, ctl, elev, pipes, launcher, writer, secure>>

AgentDies ==
    /\ up /\ up' = FALSE /\ main' = Idle
    /\ writer' = [h \in Helpers |-> FALSE] /\ parked' = [p \in Pipelines |-> 0]
    /\ UNCHANGED <<ctl, elev, pipe, att, leaked, launcher, helper, secure>>

Switch == up /\ secure' = ~secure /\ UNCHANGED <<up, main, ctl, elev, pipes, launcher, helpers>>

ElevationNext ==
    \/ \E p \in Pipelines :
          Attach(p) \/ EndPipeline(p) \/ EnterBridge(p) \/ LeaveBridge(p) \/ Park(p) \/ Wake(p)
    \/ Answer \/ NoAnswer \/ Rebuild \/ Started \/ EmptyRectangle \/ StartFails \/ InputFails
    \/ Receive \/ StopHelper \/ SpawnHelper \/ Reply
    \/ \E h \in Helpers : HelperEnds(h)
    \/ AgentDies \/ Switch

ElevationSpec == ElevationInit /\ [][ElevationNext]_elevationVars

-----------------------------------------------------------------------------
Attached == {p \in Pipelines : att[p]}

(* The pipelines that use the helper are counted, and the attachments nobody  *)
(* gives up any more: a helper that answers is let go with the last of them,   *)
(* under no pipeline and no thread that waits for its frames, however          *)
(* rebuilds, failed requests, broken pipes and threads that hang follow on     *)
(* each other (elevated.c 422-430 and 489-510, desktop_win.c 1176-1200 and     *)
(* 1240-1300); and a new SYSTEM helper never runs beside an old one. Only the  *)
(* handles of a helper whose pipe broke may be closed under a thread.         *)
CountIsTrue ==
    /\ Cardinality({h \in Helpers : helper[h] = "runs"}) <= 1
    /\ (up /\ main = Idle) => count = Cardinality(Attached) + leaked /\ (held # 0 => count > 0)
LetGoByTheLast ==
    ready /\ held # 0 /\ held' # held /\ up' =>
        Attached' = {} /\ leaked' = 0 /\ \A p \in Pipelines : parked'[p] = 0

=============================================================================
