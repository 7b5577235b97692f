---------------------------- MODULE DisplayModes ----------------------------
(***************************************************************************)
(* The display modes a desktop session changes on the host and gives back  *)
(* (src/agent/desktop/display.c, and the "select-monitor" and              *)
(* "set-resolution" requests of stream.c).                                 *)
(*                                                                         *)
(* A viewer may have one monitor of the host switched to the size of its   *)
(* window.  The session remembers one original mode, that of the first     *)
(* change, and the monitor it belongs to twice: by its handle, which the   *)
(* restore uses, and by its id in the list of monitors, which the requests *)
(* compare.  The id is the place in a list that is only read again after   *)
(* a change, so it can come to mean another monitor when one is unplugged, *)
(* and that one is then switched with nothing to put it back.              *)
(***************************************************************************)
EXTENDS Naturals, Sequences, FiniteSets

CONSTANTS Monitors,    \* how many monitors the host starts with
          Modes,       \* the modes a request can end up with, Native included
          Native,      \* the mode the host runs every monitor in
          MaxUnplugs   \* how many of them are unplugged meanwhile

\* A host has a monitor, and runs it in one of its modes.
ASSUME ModesAssumption ==
    /\ Monitors \in Nat /\ Monitors > 0 /\ Native \in Modes
    /\ MaxUnplugs \in Nat

VARIABLES system,    \* "x11", "macos" or "windows", or "wayland" (no modes)
          plugged,   \* the monitors that are plugged in, in the host's order
          host,      \* what SetDisplayResolution and its undoing change
          resize,    \* eResizeMode: "scale" or "display"
          selected,  \* sSelectedMonitor: the id of the captured monitor
          capturing, \* bCaptureReady
          closed,    \* the session has been cleared
          status,    \* the last status the viewer was sent
          moved      \* history: a monitor with others behind it was unplugged

modeVars == <<system, plugged, host, resize, selected, capturing, closed,
              status, moved>>

All == 0    \* the id of "All displays"
Ids == 0..Monitors

\* mode: of each monitor; list: the monitors as last enumerated, by id;
\* changed, origin and id: bDisplayModeChanged, the original mode with the
\* handle of its monitor, and sModeMonitorId; astray: history, the monitors
\* switched while the mode remembered was that of another one.
ModesInit ==
    /\ system \in {"x11", "macos", "windows", "wayland"}
    /\ plugged = [i \in 1..Monitors |-> i]
    /\ host = [mode    |-> [m \in 1..Monitors |-> Native],
               list    |-> plugged,
               changed |-> FALSE,
               origin  |-> [monitor |-> 1, mode |-> Native],
               id      |-> All,
               astray  |-> {}]
    /\ moved = FALSE
    /\ resize = "scale" /\ selected = All
    /\ capturing = FALSE /\ closed = FALSE /\ status = "ready"

Here(m) == \E i \in DOMAIN plugged : plugged[i] = m

\* FindMonitor: the id is in the list.
Find(h, id) == id = All \/ id \in DOMAIN h.list

-----------------------------------------------------------------------------
\* The bug the run must catch: every change remembers what it replaces.
RemembersEach(h, id) ==
    [h EXCEPT !.origin = [monitor |-> h.list[id], mode |-> h.mode[h.list[id]]],
              !.id = id]

\* The first change remembers the mode it replaces.
Remembers(h, id) ==
    IF h.changed THEN h
    ELSE [h EXCEPT !.origin = [monitor |-> h.list[id], mode |-> h.mode[h.list[id]]],
                   !.id = id]

\* The monitors are enumerated again.
Refresh(h) == [h EXCEPT !.list = plugged]

\* A mode can be set for one monitor that is still there.
Settable(h, id) ==
    /\ system # "wayland"
    /\ id # All /\ id \in DOMAIN h.list
    /\ Here(h.list[id])

\* SetDisplayResolution came through.
SetResolution(h, id, mode) ==
    LET known == Remembers(h, id)
        m == h.list[id]
    IN  Refresh([known EXCEPT !.mode[m] = mode, !.changed = TRUE,
                              !.astray = IF known.origin.monitor = m THEN @ ELSE @ \cup {m}])

\* The host rejected the mode: X11 and Windows have remembered the original
\* by then, macOS takes it down after the change only.
Rejected(h, id) == IF system = "macos" THEN h ELSE Remembers(h, id)

\* RestoreDisplayMode goes by the handle, and is silent if that fails.
Restore(h) ==
    IF ~h.changed THEN h
    ELSE Refresh([h EXCEPT !.mode[h.origin.monitor] =
                               IF Here(h.origin.monitor) THEN h.origin.mode ELSE @,
                           !.changed = FALSE])

\* The outcomes of a change asked for: the host's new state, and success.
Changes(h, id) ==
    IF Settable(h, id)
    THEN {[after |-> SetResolution(h, id, m), ok |-> TRUE] : m \in Modes}
         \cup {[after |-> Rejected(h, id), ok |-> FALSE]}
    ELSE {[after |-> h, ok |-> FALSE]}

-----------------------------------------------------------------------------
\* SetCapture and the pipeline, or the error that the monitor is gone.
Captured(h, id) ==
    IF Find(h, id)
    THEN selected' = id /\ capturing' = TRUE /\ status' = "streaming"
    ELSE UNCHANGED <<selected, capturing>> /\ status' = "error"

\* "select-monitor": a mode changed on another monitor, or not wanted any
\* more, is given back before the selected one is changed.
SelectMonitor(id, kind) ==
    /\ ~closed
    /\ IF ~Find(host, id)
       THEN /\ resize' = kind /\ status' = "error"
            /\ UNCHANGED <<host, selected, capturing>>
       ELSE LET before == IF kind # "display" \/ host.id # id
                          THEN Restore(host) ELSE host
            IN  IF kind = "display"
                THEN \E c \in Changes(before, id) :
                        /\ host' = c.after
                        /\ resize' = IF c.ok THEN "display" ELSE "scale"
                        /\ Captured(c.after, id)
                ELSE /\ host' = before /\ resize' = kind
                     /\ Captured(before, id)
    /\ UNCHANGED <<system, plugged, closed, moved>>

\* "set-resolution" on the monitor that is being captured.
SetsResolution(kind) ==
    /\ ~closed
    /\ IF capturing /\ kind = "display"
       THEN \E c \in Changes(host, selected) :
               /\ host' = c.after
               /\ resize' = IF c.ok \/ c.after.changed THEN "display" ELSE "scale"
       ELSE /\ host' = IF capturing /\ resize = "display" THEN Restore(host) ELSE host
            /\ resize' = kind
    /\ status' = IF capturing THEN "streaming" ELSE "ready"
    /\ UNCHANGED <<system, plugged, selected, capturing, closed, moved>>

\* Desktop_Clear.
Close ==
    /\ ~closed
    /\ closed' = TRUE /\ capturing' = FALSE /\ resize' = "scale"
    /\ host' = Restore(host)
    /\ UNCHANGED <<system, plugged, selected, status, moved>>

\* A monitor is unplugged: its mode is gone with it, and those after it, if
\* there are any, have moved up when they are enumerated the next time.
Unplug(i) ==
    /\ i \in DOMAIN plugged /\ Len(plugged) > 1
    /\ Monitors - Len(plugged) < MaxUnplugs
    /\ plugged' = SubSeq(plugged, 1, i - 1) \o SubSeq(plugged, i + 1, Len(plugged))
    /\ host' = [host EXCEPT !.mode[plugged[i]] = Native]
    /\ moved' = (moved \/ i < Len(plugged))
    /\ UNCHANGED <<system, resize, selected, capturing, closed, status>>

ModesNext ==
    \/ \E id \in Ids, kind \in {"scale", "display"} : SelectMonitor(id, kind)
    \/ \E kind \in {"scale", "display"} : SetsResolution(kind)
    \/ Close
    \/ \E i \in 1..Monitors : Unplug(i)

ModesSpec == ModesInit /\ [][ModesNext]_modeVars

-----------------------------------------------------------------------------
\* The types of the variables.
ModesTypeOK ==
    /\ system \in {"x11", "macos", "windows", "wayland"}
    /\ plugged \in Seq(1..Monitors) /\ host.list \in Seq(1..Monitors)
    /\ host.mode \in [1..Monitors -> Modes]
    /\ host.changed \in BOOLEAN
    /\ host.origin \in [monitor : 1..Monitors, mode : Modes]
    /\ host.id \in Ids /\ selected \in Ids
    /\ host.astray \subseteq 1..Monitors /\ moved \in BOOLEAN
    /\ resize \in {"scale", "display"}
    /\ capturing \in BOOLEAN /\ closed \in BOOLEAN
    /\ status \in {"ready", "streaming", "error"}

\* Whatever the viewer selects and asks for, a monitor that is not in the
\* mode its owner left it in is the one the session will put back, or was
\* switched under the id of another, which takes a list of monitors that
\* moved up: without that, the end of the session leaves the host as it was
\* (display.c 301-310 and 332-357, stream.c 643-649).
HostGetsItsModeBack ==
    /\ \A m \in 1..Monitors :
           host.mode[m] # Native =>
               \/ host.changed /\ host.origin = [monitor |-> m, mode |-> Native]
               \/ m \in host.astray
    /\ host.astray # {} => moved

=============================================================================
