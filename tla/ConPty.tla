------------------------------- MODULE ConPty -------------------------------
(* The terminal on Windows (term.c): a shell on a pseudo console, and two   *)
(* pump threads that carry its bytes between the console's pipes and a      *)
(* socket pair the event loop can poll. Stopping joins the pumps for two    *)
(* seconds each; one that is stuck keeps what it works on.                  *)
EXTENDS Integers, FiniteSets

VARIABLES
    ptyPump,   \* per pump: none, run, exited
    ptyOpen,   \* handles open in the process
    ptyHeld,   \* handles the terminal names
    ptyStep    \* idle, up (running), closing, joined-out, joined, gone

ptyVars == <<ptyPump, ptyOpen, ptyHeld, ptyStep>>

Pumps == {"out", "in"}
Handles == {"console", "process", "read", "write", "bridge", "master"}
Works == [out |-> {"read", "bridge"}, in |-> {"write", "bridge"}]

ConPtyInit ==
    /\ ptyPump = [p \in Pumps |-> "none"] /\ ptyOpen = {} /\ ptyHeld = {} /\ ptyStep = "idle"

(* Spawn: pipes, console, shell, bridge and the pumps one after the other; *)
(* what fails is undone by KillChild, a pump that did start is joined too.  *)
Spawn ==
    /\ ptyStep = "idle" /\ ptyOpen' = Handles /\ ptyHeld' = Handles
    /\ \/ /\ ptyPump' = [p \in Pumps |-> "run"] /\ ptyStep' = "up"
       \/ \E P \in SUBSET Pumps :
          /\ P # Pumps /\ ptyPump' = [p \in Pumps |-> IF p \in P THEN "run" ELSE "none"]
          /\ ptyStep' = "closing"

(* OutPump, InPump: a pump leaves when its pipe or the bridge breaks, or   *)
(* does not get out of its call.                                           *)
PumpLeaves(p) ==
    /\ ptyPump[p] = "run" /\ ptyPump' = [ptyPump EXCEPT ![p] = "exited"]
    /\ UNCHANGED <<ptyOpen, ptyHeld, ptyStep>>

(* KillChild: the console is closed, the shell waited for or terminated.   *)
CloseShell ==
    /\ ptyStep \in {"up", "closing"} /\ ptyStep' = "killed"
    /\ ptyOpen' = ptyOpen \ {"console", "process"} /\ ptyHeld' = ptyHeld \ {"console", "process"}
    /\ UNCHANGED ptyPump

(* Mutant: a stuck pump keeps its pipe, not the bridge.                    *)
DroppedPipeOnly(P) == UNION {Works[p] : p \in P} \ {"bridge"}

(* What JoinPumps drops without closing it, when the pumps in P are stuck. *)
Dropped(P) == UNION {Works[p] : p \in P}

(* JoinPumps: a pump that has not left within its two seconds is stuck.    *)
JoinPumps ==
    /\ ptyStep = "killed" /\ ptyStep' = "joined"
    /\ ptyHeld' = ptyHeld \ Dropped({p \in Pumps : ptyPump[p] = "run"})
    /\ UNCHANGED <<ptyPump, ptyOpen>>

(* CloseWinHandles, and the socket of the event loop's end.                *)
CloseWinHandles ==
    /\ ptyStep = "joined" /\ ptyStep' = "idle"
    /\ ptyOpen' = ptyOpen \ ptyHeld /\ ptyHeld' = {}
    /\ UNCHANGED ptyPump

ConPtyNext ==
    \/ ptyOpen = {} /\ Spawn
    \/ \E p \in Pumps : PumpLeaves(p)
    \/ CloseShell \/ JoinPumps \/ CloseWinHandles
ConPtySpec == ConPtyInit /\ [][ConPtyNext]_ptyVars

-----------------------------------------------------------------------------

(* A pump never works on a handle that was closed under it, a late one     *)
(* included, and a terminal that stopped with both pumps out leaves nothing *)
(* open.                                                                   *)
PumpsKeepTheirHandles ==
    /\ \A p \in Pumps : ptyPump[p] = "run" => Works[p] \subseteq ptyOpen
    /\ ptyStep = "idle" /\ ptyOpen # {} => \E p \in Pumps : Works[p] \cap ptyOpen # {}
=============================================================================
