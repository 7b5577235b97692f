-------------------------------- MODULE Launcher --------------------------------
(* The Windows service's supervisor (launcher.c): it keeps one agent alive, in *)
(* shell.user's session or, before anybody logs on, as SYSTEM on the console's *)
(* logon screen. Windows may end a session around a process that goes on       *)
(* running, so on every tick it asks whose session its agent is in.            *)
EXTENDS Naturals

CONSTANTS
    Sessions,      \* Windows' sessions that have a desktop
    NoSession,     \* no console session, or the services' session
    Respawn,       \* DIRECTGATE_WIN_LAUNCHER_RESPAWN_MS, in ticks of POLL_MS
    Logoff,        \* DIRECTGATE_WIN_LAUNCHER_LOGOFF_MS
    Infant,        \* DIRECTGATE_WIN_LAUNCHER_INFANT_MS
    Settle,        \* DIRECTGATE_WIN_LAUNCHER_SETTLE_MS
    MaxEvents,     \* bound: logons, logoffs, console switches and agents' exits
    MaxMisreads    \* bound: readings of Windows that come back wrong

ASSUME LauncherAssumption ==
    /\ Respawn \in Nat /\ Logoff \in Nat /\ Infant \in Nat /\ Settle \in Nat
    /\ MaxEvents \in Nat /\ MaxMisreads \in Nat

VARIABLES
    occupant,   \* whose each session is
    console,    \* the session at the console
    preLogon,   \* g_bPreLogon
    loop,       \* the supervisor: config, check, spawn, aimed, wait; ended
    stop,       \* g_nLauncherStop
    agent,      \* hAgent, bAgentPreLogon and nAgentSession
    alive,      \* the agent's process runs
    token,      \* the token of the agent about to be spawned
    goneFor,    \* ticks since nUserGoneSinceMs, plus one; 0 when that is 0
    respawn,    \* ticks until nLastSpawnMs is RESPAWN_MS ago
    suspect,    \* nSuspectSession
    settle,     \* ticks until nSuspectUntilMs
    age,        \* ticks since nAgentStartedMs, up to Infant
    over,       \* ticks a SYSTEM agent has been where it may not be
    denials,    \* readings in a row that said the agent's session is not theirs
    events,     \* events left
    misreads    \* wrong readings left

world == <<occupant, console, events>>
clocks == <<goneFor, respawn, suspect, settle, age>>
launcherVars == <<world, clocks, preLogon, loop, stop, agent, alive, token, over, denials, misreads>>

NoAgent == [kind |-> "none", session |-> NoSession]
Agents == [kind : {"none", "user", "system"}, session : Sessions \cup {NoSession}]
Drop(n) == IF n = 0 THEN 0 ELSE n - 1
Upto(n, top) == IF n < top THEN n + 1 ELSE top

LauncherTypeOK ==
    /\ occupant \in [Sessions -> {"user", "closing", "other", "empty", "gone"}]
    /\ console \in Sessions \cup {NoSession} /\ preLogon \in BOOLEAN
    /\ loop \in {"config", "check", "spawn", "aimed", "wait", "ended"} /\ stop \in BOOLEAN
    /\ agent \in Agents /\ alive \in BOOLEAN /\ token \in Agents
    /\ goneFor \in 0 .. Logoff + 1 /\ respawn \in 0 .. Respawn
    /\ suspect \in Sessions \cup {NoSession} /\ settle \in 0 .. Settle /\ age \in 0 .. Infant
    /\ over \in 0 .. 2 /\ denials \in 0 .. Logoff
    /\ events \in 0 .. MaxEvents /\ misreads \in 0 .. MaxMisreads

LauncherInit ==
    /\ occupant \in [Sessions -> {"user", "empty", "gone"}]
    /\ console \in {s \in Sessions : occupant[s] # "gone"} \cup {NoSession}
    /\ preLogon = FALSE /\ loop = "config" /\ stop = FALSE
    /\ agent = NoAgent /\ alive = FALSE /\ token = NoAgent
    /\ goneFor = 0 /\ respawn = 0 /\ suspect = NoSession /\ settle = 0 /\ age = 0
    /\ over = 0 /\ denials = 0 /\ events = MaxEvents /\ misreads = MaxMisreads

-----------------------------------------------------------------------------
(* What Windows answers. A session that is being torn down still hands out    *)
(* its token.                                                                *)

HasToken(s) == occupant[s] \in {"user", "closing"}
Misread == misreads > 0 /\ misreads' = misreads - 1
ReadRight == UNCHANGED misreads

(* AcquireTokenForUser: the first session, active or disconnected, whose token *)
(* is shell.user's; none, too, when the enumeration fails.                   *)
TokensFor == {s \in Sessions : HasToken(s)}
UserIsLoggedOn == TokensFor # {}

(* Mutant: the broad question, whether shell.user is logged on somewhere.     *)
SessionOwnedByAnywhere(s) == UserIsLoggedOn

(* SessionOwnedBy: an answer that cannot be read counts as still theirs.      *)
SessionOwnedBy(s) == HasToken(s)

(* SessionHasUser: here an answer that cannot be read counts as occupied.     *)
SessionHasUser(s) == occupant[s] \notin {"empty"}

(* A SYSTEM agent may only be at the console, while nobody is logged on there. *)
Misplaced(a, run, occ, con) ==
    run /\ a.kind = "system" /\ (a.session # con \/ occ[a.session] \in {"user", "other"})

-----------------------------------------------------------------------------
(* The configuration: the launcher waits for a paired one and reads it once.  *)
Configured ==
    /\ loop = "config" /\ ~stop
    /\ \E wanted \in BOOLEAN, elevated \in BOOLEAN : preLogon' = (wanted /\ elevated)
    /\ loop' = "check"
    /\ UNCHANGED <<world, clocks, stop, agent, alive, token, over, denials, misreads>>

(* StopAgent: the process is killed, and its bridge closed after it.          *)
StopAgent == agent' = NoAgent /\ alive' = FALSE /\ over' = 0 /\ goneFor' = 0

KeepAgent == UNCHANGED <<agent, alive, over>>

(* Mutant: only shell.user's own logon is looked for.                        *)
HasToGoForTheUser == UserIsLoggedOn

(* The stand-in has to go when shell.user is on anywhere, when the console     *)
(* has moved on, or when somebody has logged on to it.                       *)
SeatIsTaken == console # agent.session \/ SessionHasUser(agent.session)
HasToGo == UserIsLoggedOn \/ SeatIsTaken

(* An enumeration that fails hides a shell.user who is on by RDP, and one      *)
(* answer that cannot be read makes the console look occupied.               *)
CheckPreLogon ==
    /\ agent.kind = "system" /\ UNCHANGED denials
    /\ \/ HasToGo /\ ReadRight /\ StopAgent
       \/ ~HasToGo /\ Misread /\ StopAgent
       \/ ~HasToGo /\ ReadRight /\ KeepAgent /\ goneFor' = 0
       \/ HasToGo /\ ~SeatIsTaken /\ Misread /\ KeepAgent /\ goneFor' = 0

(* A user's agent goes once its own session was read as somebody else's for   *)
(* LOGOFF_MS; a reading that says otherwise starts the window anew.          *)
NotTheirs ==
    IF goneFor = 0 THEN KeepAgent /\ goneFor' = 1
    ELSE IF goneFor > Logoff THEN StopAgent
    ELSE KeepAgent /\ UNCHANGED goneFor

(* Mutant: the window goes on when the session turns out to be theirs.        *)
StillTheirsCounts == KeepAgent /\ UNCHANGED goneFor

StillTheirs == KeepAgent /\ goneFor' = 0

CheckUser ==
    /\ agent.kind = "user"
    /\ \E theirs \in BOOLEAN :
        /\ IF theirs = SessionOwnedBy(agent.session) THEN ReadRight ELSE Misread
        /\ IF theirs THEN StillTheirs ELSE NotTheirs
        /\ denials' = IF theirs THEN 0 ELSE Upto(denials, Logoff)

Check ==
    /\ loop = "check" /\ ~stop
    /\ \/ CheckPreLogon
       \/ CheckUser
       \/ agent.kind = "none" /\ ReadRight /\ KeepAgent /\ UNCHANGED <<goneFor, denials>>
    /\ loop' = IF agent'.kind = "none" THEN "spawn" ELSE "wait"
    /\ UNCHANGED <<world, preLogon, stop, token, respawn, suspect, settle, age>>

(* AcquirePreLogonToken: a copy of the launcher's own, for an empty console.  *)
PreLogonSession ==
    IF preLogon /\ console # NoSession /\ ~SessionHasUser(console) THEN {console} ELSE {}

(* The spawn block: not too soon after the last try, not into a session that  *)
(* has just killed a newborn agent.                                          *)
Acquire ==
    /\ loop = "spawn" /\ ~stop
    /\ \/ respawn > 0 /\ loop' = "wait" /\ ReadRight /\ UNCHANGED token
       \/ /\ respawn = 0 /\ ReadRight
          /\ \E s \in TokensFor :
                IF s = suspect /\ settle > 0 THEN loop' = "wait" /\ UNCHANGED token
                ELSE loop' = "aimed" /\ token' = [kind |-> "user", session |-> s]
       \/ /\ respawn = 0
          /\ IF UserIsLoggedOn THEN Misread ELSE ReadRight
          /\ IF PreLogonSession = {} THEN loop' = "wait" /\ UNCHANGED token
             ELSE loop' = "aimed" /\ token' = [kind |-> "system", session |-> console]
    /\ UNCHANGED <<world, clocks, preLogon, stop, agent, alive, over, denials>>

(* SpawnAgent, in the session the token is for: it may fail, and the session  *)
(* may have changed hands since. A session that is being torn down kills it.  *)
SpawnAgent ==
    /\ loop = "aimed"
    /\ \/ /\ agent' = token /\ alive' = (occupant[token.session] # "closing")
          /\ age' = 0 /\ events' = events
       \/ /\ events > 0 /\ events' = events - 1 /\ agent' = NoAgent /\ alive' = FALSE /\ age' = 0
    /\ respawn' = Respawn /\ goneFor' = 0 /\ over' = 0 /\ denials' = 0
    /\ loop' = "wait" /\ token' = NoAgent
    /\ UNCHANGED <<occupant, console, preLogon, stop, suspect, settle, misreads>>

(* The wait ends with the agent: a newborn's death speaks of its session.     *)
AgentExited ==
    /\ loop = "wait" /\ agent.kind # "none" /\ ~alive
    /\ IF age < Infant /\ agent.session # NoSession
       THEN suspect' = agent.session /\ settle' = Settle
       ELSE UNCHANGED <<suspect, settle>>
    /\ agent' = NoAgent /\ goneFor' = 0 /\ age' = 0 /\ over' = 0 /\ denials' = 0 /\ loop' = "check"
    /\ UNCHANGED <<world, preLogon, stop, alive, token, respawn, misreads>>

(* Sleep, or a wait that runs out: a tick passes.                            *)
Tick ==
    /\ loop = "wait" /\ (agent.kind = "none" \/ alive)
    /\ loop' = "check"
    /\ respawn' = Drop(respawn) /\ settle' = Drop(settle)
    /\ age' = Upto(age, Infant)
    /\ goneFor' = IF goneFor = 0 THEN 0 ELSE Upto(goneFor, Logoff + 1)
    /\ over' = IF Misplaced(agent, alive, occupant, console) THEN Upto(over, 2) ELSE 0
    /\ UNCHANGED <<world, preLogon, stop, agent, alive, token, suspect, denials, misreads>>

(* A stop ends the loop, and the agent with it.                              *)
Stop ==
    /\ ~stop /\ stop' = TRUE
    /\ UNCHANGED <<world, clocks, preLogon, loop, agent, alive, token, over, denials, misreads>>
Ends ==
    /\ stop /\ loop \in {"config", "check", "spawn"}
    /\ StopAgent /\ loop' = "ended"
    /\ UNCHANGED <<world, denials, preLogon, stop, token, respawn, suspect, settle, age, misreads>>

-----------------------------------------------------------------------------
(* Windows: people log on and off, sessions end, the console moves, an agent   *)
(* exits. A session that ends does not always end the agent in it.            *)

Turns(s, from, to) == occupant[s] \in from /\ occupant' = [occupant EXCEPT ![s] = to]

SessionChanges ==
    \E s \in Sessions :
        /\ \/ Turns(s, {"empty", "gone"}, "user") \/ Turns(s, {"empty", "gone"}, "other")
           \/ Turns(s, {"user"}, "closing") \/ Turns(s, {"other"}, "empty")
           \/ Turns(s, {"gone"}, "empty") \/ (s # console /\ Turns(s, {"empty", "other"}, "gone"))
        /\ UNCHANGED <<console, alive>>

SignsOut ==
    \E s \in Sessions :
        /\ Turns(s, {"closing"}, "empty") \/ (s # console /\ Turns(s, {"closing"}, "gone"))
        /\ alive' \in IF agent.session = s THEN {alive, FALSE} ELSE {alive}
        /\ UNCHANGED console

ConsoleMoves ==
    /\ console' \in {s \in Sessions : occupant[s] # "gone"} \cup {NoSession}
    /\ console' # console /\ UNCHANGED <<occupant, alive>>

Exits == alive /\ alive' = FALSE /\ UNCHANGED <<occupant, console>>

World ==
    /\ events > 0 /\ events' = events - 1
    /\ SessionChanges \/ SignsOut \/ ConsoleMoves \/ Exits
    /\ over' = IF Misplaced(agent, alive', occupant', console') THEN over ELSE 0
    /\ UNCHANGED <<clocks, preLogon, loop, stop, agent, token, denials, misreads>>

(* A sign-out that has begun ends by itself.                                 *)
SignOutEnds ==
    /\ SignsOut /\ UNCHANGED events
    /\ over' = IF Misplaced(agent, alive', occupant', console') THEN over ELSE 0
    /\ UNCHANGED <<clocks, preLogon, loop, stop, agent, token, denials, misreads>>

LauncherNext ==
    \/ Configured \/ Check \/ Acquire \/ SpawnAgent \/ AgentExited \/ Tick
    \/ Stop \/ Ends \/ World \/ SignOutEnds

LauncherSpec == LauncherInit /\ [][LauncherNext]_launcherVars

Supervises == Configured \/ Check \/ Acquire \/ SpawnAgent \/ AgentExited \/ Tick \/ Ends
LauncherFairness == WF_launcherVars(Supervises) /\ WF_launcherVars(SignOutEnds)
LauncherFairSpec == LauncherSpec /\ LauncherFairness

-----------------------------------------------------------------------------
(* A SYSTEM agent, which shows the logon screen to its operator, is never     *)
(* found in a session that has become somebody's, or has left the console,    *)
(* for longer than one tick - whoever it was that logged on, whichever        *)
(* reading went wrong, and even when that happened between the token and the  *)
(* spawn (launcher.c 339-342, 1251-1263).                                     *)
StandInLeaves == over <= 1

(* A running agent of shell.user is only retired when every reading of its     *)
(* session, over the whole window, denied that it is theirs: one wrong answer *)
(* of Windows, or several with a right one between them, never cost the user  *)
(* of a live session its agent (launcher.c 1285-1287).                        *)
SparesTheLive ==
    [][ (loop = "check" /\ ~stop /\ agent.kind = "user" /\ alive /\ agent' = NoAgent)
        => denials >= Logoff ]_launcherVars

(* Whatever went before - a newborn's death, a session held back, a sign-out  *)
(* that took its time, a spawn that failed - once Windows is left alone the   *)
(* machine is reachable: shell.user's agent runs in a session of theirs, or   *)
(* the stand-in at an empty console, unless nothing of the kind exists.       *)
Reached ==
    \/ stop
    \/ alive /\ agent.kind = "user" /\ HasToken(agent.session)
    \/ ~UserIsLoggedOn /\ alive /\ agent.kind = "system" /\ agent.session = console
    \/ ~UserIsLoggedOn /\ agent.kind = "none" /\ PreLogonSession = {}
ComesOnline == <>[]Reached
=============================================================================
