------------------------------ MODULE Terminal ------------------------------
(* The terminal mode (term.c): a shell on a PTY, its output paused while    *)
(* the link to the viewer is behind, and the shells that were hung up and   *)
(* are reaped by the event loop instead of waiting for them.                *)
(*                                                                          *)
(* One terminal, whose shells follow one another. Output is counted in      *)
(* chunks; the link's backlog is measured in the same unit. The read end    *)
(* of the PTY is level-triggered: it fires while there is output and        *)
(* XPOLLIN is on.                                                           *)
EXTENDS Integers, FiniteSets

CONSTANTS
    MaxShells,     \* bound: shells started
    ReapSlots,     \* DIRECTGATE_TERM_REAP_SLOTS
    HighWater,     \* DIRECTGATE_TERM_TX_HIGH_WATER, in chunks
    LowWater,      \* DIRECTGATE_TERM_TX_LOW_WATER
    ReadBudget,    \* DIRECTGATE_TERM_READ_BUDGET
    MaxOutput      \* bound: chunks a shell prints

ASSUME TerminalAssumption ==
    /\ MaxShells \in Nat \ {0} /\ ReapSlots \in Nat /\ HighWater \in Nat
    /\ LowWater \in 0 .. HighWater /\ ReadBudget \in Nat \ {0} /\ MaxOutput \in Nat

VARIABLES
    proc,      \* per shell: none, alive, zombie, reaped
    killed,    \* shells a SIGKILL was sent to
    pid,       \* nPid of the terminal, 0 for -1
    pty,       \* the PTY endpoint: off, on, or registered with XPOLLIN off-in
    paused,    \* bReadPaused
    reap,      \* g_termReap: the shells in its slots
    due,       \* those whose grace is over
    printed,   \* chunks the shell has written to the PTY, in all
    unread,    \* ... that wait in the PTY
    backlog,   \* ... that wait in the link's buffer
    stray,     \* a signal went to a pid that was already reaped
    lost       \* shells nobody will reap

termVars == <<proc, killed, pid, pty, paused, reap, due, printed, unread, backlog, stray, lost>>

Shells == 1 .. MaxShells

TermTypeOK ==
    /\ proc \in [Shells -> {"none", "alive", "zombie", "reaped"}]
    /\ killed \subseteq Shells /\ reap \subseteq Shells /\ due \subseteq reap
    /\ lost \subseteq Shells
    /\ Cardinality(reap) <= ReapSlots
    /\ pid \in 0 .. MaxShells /\ pty \in {"off", "on", "off-in"}
    /\ paused \in BOOLEAN /\ stray \in BOOLEAN
    /\ printed \in 0 .. MaxOutput /\ unread \in 0 .. printed /\ backlog \in 0 .. HighWater + 1

TermInit ==
    /\ proc = [s \in Shells |-> "none"] /\ killed = {} /\ pid = 0 /\ pty = "off"
    /\ paused = FALSE /\ reap = {} /\ due = {} /\ printed = 0 /\ unread = 0 /\ backlog = 0
    /\ stray = FALSE /\ lost = {}

Running == pid # 0
Flow == <<printed, unread, backlog>>

-----------------------------------------------------------------------------
(* The shells. A hangup may be ignored, a kill may not.                    *)

Exit(s) ==
    /\ proc[s] = "alive" /\ proc' = [proc EXCEPT ![s] = "zombie"]
    /\ UNCHANGED <<killed, pid, pty, paused, reap, due, stray, lost, Flow>>

Prints ==
    /\ Running /\ proc[pid] = "alive" /\ printed < MaxOutput
    /\ printed' = printed + 1 /\ unread' = unread + 1
    /\ UNCHANGED <<proc, killed, pid, pty, paused, reap, due, backlog, stray, lost>>

GraceOver ==
    \E s \in reap \ due :
       /\ due' = due \cup {s}
       /\ UNCHANGED <<proc, killed, pid, pty, paused, reap, stray, lost, Flow>>

(* A signal to the shell's process group.                                  *)
Signal(s) == stray' = (stray \/ proc[s] = "reaped")

(* DeferReap, of a shell that outlived its hangup: into a slot, or killed  *)
(* at once when none is free and forgotten unless that worked immediately.  *)
DeferReap(s) ==
    \/ /\ Cardinality(reap) < ReapSlots
       /\ reap' = reap \cup {s} /\ UNCHANGED <<proc, killed, lost>>
    \/ /\ Cardinality(reap) >= ReapSlots
       /\ killed' = killed \cup {s} /\ UNCHANGED reap
       /\ \/ proc' = [proc EXCEPT ![s] = "reaped"] /\ UNCHANGED lost
          \/ lost' = lost \cup {s} /\ UNCHANGED proc

(* KillChild: reaped where it is dead already or dies of the hangup.       *)
KillChild(s) ==
    \/ /\ proc' = [proc EXCEPT ![s] = "reaped"]
       /\ stray' = stray /\ UNCHANGED <<killed, reap, lost>>
    \/ /\ proc[s] = "alive" /\ Signal(s) /\ DeferReap(s)

(* Mutant: a slot is kept when its shell was reaped.                       *)
ReapPendingKeeps ==
    \E s \in reap :
       /\ IF proc[s] = "zombie"
          THEN proc' = [proc EXCEPT ![s] = "reaped"] /\ UNCHANGED <<reap, due, killed, stray>>
          ELSE /\ s \in due \ killed /\ killed' = killed \cup {s} /\ Signal(s)
               /\ UNCHANGED <<proc, reap, due>>
       /\ UNCHANGED <<pid, pty, paused, lost, Flow>>

(* ReapPending, one slot of a pass: it reaps, or kills once the grace is   *)
(* over.                                                                   *)
ReapPending ==
    \E s \in reap :
       /\ IF proc[s] = "zombie"
          THEN /\ proc' = [proc EXCEPT ![s] = "reaped"]
               /\ reap' = reap \ {s} /\ due' = due \ {s} /\ UNCHANGED <<killed, stray>>
          ELSE /\ s \in due \ killed /\ killed' = killed \cup {s} /\ Signal(s)
               /\ UNCHANGED <<proc, reap, due>>
       /\ UNCHANGED <<pid, pty, paused, lost, Flow>>

-----------------------------------------------------------------------------

(* Spawn and StartNoEndpoint. A shell whose PTY cannot be set up goes the  *)
(* way of Shutdown at once, with a kill ahead of its hangup.                *)
StartTerminal ==
    /\ ~Running
    /\ \E s \in Shells :
       /\ proc[s] = "none" /\ \A t \in Shells : t < s => proc[t] # "none"
       /\ proc' = [proc EXCEPT ![s] = "alive"] /\ pid' = s
       /\ printed' = 0 /\ unread' = 0
       /\ UNCHANGED <<killed, pty, paused, reap, due, backlog, stray, lost>>

(* AttachEvent: StartTerminal has registered the PTY with the event loop.  *)
AttachEvent ==
    /\ Running /\ pty = "off" /\ pty' = "on"
    /\ UNCHANGED <<proc, killed, pid, paused, reap, due, stray, lost, Flow>>

(* Shutdown: by RequestStop, by the close of the endpoint, or because the  *)
(* endpoint could not be registered. What the shell printed last is lost.   *)
Shutdown ==
    /\ Running /\ KillChild(pid)
    /\ pid' = 0 /\ pty' = "off" /\ paused' = FALSE /\ unread' = 0
    /\ UNCHANGED <<due, printed, backlog>>

Backlogged(n) == backlog > n

(* OnRead: rounds of at most one chunk each, broken off while the link is  *)
(* backlogged: reading stops until ResumeRead sees it drain. Where the      *)
(* event cannot be switched off it fires again.                             *)
Least(a, b) == IF a < b THEN a ELSE b
Rounds == IF Backlogged(HighWater) THEN 0
          ELSE Least(ReadBudget, Least(unread, HighWater + 1 - backlog))
OnRead ==
    /\ pty = "on" /\ unread > 0
    /\ unread' = unread - Rounds /\ backlog' = backlog + Rounds
    /\ \/ /\ backlog' > HighWater /\ Rounds < ReadBudget
          /\ paused' = TRUE /\ pty' = "off-in"
       \/ UNCHANGED <<paused, pty>>
    /\ UNCHANGED <<proc, killed, pid, reap, due, printed, stray, lost>>

(* Mutant: only a backlog that crosses the mark from above resumes reading.*)
ResumeReadEdge ==
    /\ paused /\ backlog = LowWater + 1 /\ paused' = FALSE /\ pty' = "on"
    /\ UNCHANGED <<proc, killed, pid, reap, due, stray, lost, Flow>>

(* ResumeRead, for every terminal on every turn of the loop.               *)
ResumeRead ==
    /\ paused /\ ~Backlogged(LowWater)
    /\ paused' = FALSE /\ pty' = "on"
    /\ UNCHANGED <<proc, killed, pid, reap, due, stray, lost, Flow>>

(* The link sends some of its buffer, and may send all of it at once.      *)
Drain ==
    \E n \in 1 .. backlog :
       /\ backlog' = backlog - n
       /\ UNCHANGED <<proc, killed, pid, pty, paused, reap, due, printed, unread, stray, lost>>

TermNext ==
    \/ \E s \in Shells : Exit(s)
    \/ Prints \/ GraceOver \/ ReapPending
    \/ StartTerminal \/ AttachEvent \/ Shutdown \/ OnRead \/ ResumeRead \/ Drain

(* The loop polls its slots, its PTY and its paused terminals on every     *)
(* turn; the link sends; a killed shell dies.                               *)
TermFair ==
    /\ WF_termVars(ReapPending) /\ WF_termVars(GraceOver)
    /\ WF_termVars(OnRead) /\ WF_termVars(ResumeRead) /\ WF_termVars(Drain)
    /\ \A s \in Shells : WF_termVars(s \in killed /\ Exit(s))
TermSpec == TermInit /\ [][TermNext]_termVars
TermFairSpec == TermSpec /\ TermFair

-----------------------------------------------------------------------------

(* A pid is signalled only while its shell was not reaped, or the signal   *)
(* hits whatever took the number: what the terminal and the slots hold is   *)
(* unreaped, and held once. And a paused terminal is one that ResumeRead    *)
(* will find: running, its endpoint registered, its reading switched off.   *)
OwnShellsOnly ==
    /\ ~stray
    /\ \A s \in reap \cup ({pid} \ {0}) : proc[s] \in {"alive", "zombie"}
    /\ pid \notin reap
    /\ paused <=> pty = "off-in"
    /\ paused => Running

(* What a shell prints is read however far behind the link has been, as    *)
(* long as the terminal runs.                                              *)
OutputIsRead == unread > 0 /\ pty # "off" ~> unread = 0 \/ pty = "off"

(* Every shell that was hung up is reaped in the end, even one that        *)
(* ignores the hangup - but for those a full reap queue had no slot for,   *)
(* which are killed at once and not waited for any more (term.c 868-871).  *)
Abandoned(s) == proc[s] \in {"alive", "zombie"} /\ pid # s
ShellsAreReaped == \A s \in Shells : Abandoned(s) ~> proc[s] = "reaped" \/ s \in lost

=============================================================================
