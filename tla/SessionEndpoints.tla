-------------------------- MODULE SessionEndpoints --------------------------
(* The descriptors of an agent session and their endpoints in the event     *)
(* loop (session.c, the custom endpoints of directgate.c): the WebRTC and   *)
(* search pipes, the desktop timer, the pipe of a file operation and the    *)
(* PTY. An endpoint is told apart by its descriptor's number only, the loop *)
(* closes what was registered with it, a registration that fails has closed *)
(* it already, and other threads open descriptors under the numbers that    *)
(* were freed.                                                              *)
EXTENDS Integers, Sequences, FiniteSets

CONSTANTS
    MaxFd,        \* bound: descriptor numbers
    MaxOthers     \* bound: descriptors other threads hold

ASSUME EndpointsAssumption == MaxFd \in Nat \ {0, 1} /\ MaxOthers \in Nat

VARIABLES
    holder,    \* per number: what it is open for, "loop" for one handed over to be closed
    field,     \* per kind: the number the session holds, 0 for XSOCK_INVALID
    endpoint,  \* per kind: the number registered, 0 for none
    mode,      \* eActiveMode
    want,      \* what StartMode or StartOp is starting
    authed,    \* bAuthenticated
    life,      \* Open, Starting, or the step of Session_Destroy
    foul       \* somebody else's descriptor closed, or a freed session used

epVars == <<holder, field, endpoint, mode, want, authed, life, foul>>

Kinds == {"rtc", "search", "desktop", "op", "pty"}
Fds == 1 .. MaxFd
Modes == {"terminal", "files", "desktop"}

(* The endpoints a mode or a file operation needs, in the order in which   *)
(* StartTerminal, StartMode and StartOp add them.                           *)
Needs == [terminal |-> <<"pty", "rtc", "search">>, files |-> <<"rtc", "search">>,
          desktop |-> <<"rtc", "desktop">>, op |-> <<"op">>, none |-> <<>>]

(* Session_Destroy: the terminal first, then the endpoints one by one, and *)
(* what none of them held last.                                             *)
Starting == -1
Open == 0
Ending == <<"pty", "rtc", "search", "desktop", "op", "clear", "gone">>

EndpointsTypeOK ==
    /\ holder \in [Fds -> Kinds \cup {"free", "loop", "other"}]
    /\ field \in [Kinds -> 0 .. MaxFd] /\ endpoint \in [Kinds -> 0 .. MaxFd]
    /\ mode \in Modes \cup {"none"} /\ want \in DOMAIN Needs /\ authed \in BOOLEAN
    /\ life \in Starting .. Len(Ending) /\ foul \in BOOLEAN

Lowest == CHOOSE f \in Fds : holder[f] = "free" /\ \A g \in Fds : holder[g] = "free" => f <= g
HasFree == \E f \in Fds : holder[f] = "free"

(* SessionMgr_Create: WebRTC_Init and Search_Init open their pipes.        *)
EndpointsInit ==
    /\ holder = [f \in Fds |-> CASE f = 1 -> "rtc" [] f = 2 -> "search" [] OTHER -> "free"]
    /\ field = [k \in Kinds |-> CASE k = "rtc" -> 1 [] k = "search" -> 2 [] OTHER -> 0]
    /\ endpoint = [k \in Kinds |-> 0] /\ mode = "none" /\ want = "none" /\ authed \in BOOLEAN
    /\ life = Open /\ foul = FALSE

Session == <<field, endpoint, mode, want, authed, life, foul>>
Closed == life' = 1 /\ want' = "none"            \* Session_Close: Session_Destroy begins

-----------------------------------------------------------------------------
(* Other threads, and the loop's late close.                               *)

OtherOpens ==
    /\ HasFree /\ Cardinality({f \in Fds : holder[f] = "other"}) < MaxOthers
    /\ holder' = [holder EXCEPT ![Lowest] = "other"] /\ UNCHANGED Session

OthersClose ==
    \E f \in Fds : /\ holder[f] \in {"other", "loop"}
                   /\ holder' = [holder EXCEPT ![f] = "free"] /\ UNCHANGED Session

-----------------------------------------------------------------------------
(* Whose endpoint a number is: HandleRegistered, HandleCustomRead and       *)
(* HandleClosed compare it with the fields, and it is the PTY's by default. *)
Whose(f) == IF \E k \in Kinds : field[k] = f
            THEN CHOOSE k \in Kinds : field[k] = f ELSE "pty"

(* Closing what field k holds.                                             *)
Closes(k) ==
    /\ holder' = IF field[k] = 0 THEN holder ELSE [holder EXCEPT ![field[k]] = "free"]
    /\ foul' = (foul \/ (field[k] # 0 /\ holder[field[k]] # k))

(* StartMode and StartOp begin: a mode only where none is active, a file   *)
(* operation one at a time in a file manager.                               *)
Start(m) ==
    /\ life = Open /\ authed
    /\ IF m = "op" THEN mode = "files" /\ field["op"] = 0 ELSE mode = "none"
    /\ want' = m /\ life' = Starting
    /\ UNCHANGED <<holder, field, endpoint, mode, authed, foul>>

(* The next endpoint to add. A pipe that is gone already is passed over.   *)
Missing(k) == endpoint[k] = 0 /\ (field[k] # 0 \/ k \in {"pty", "desktop", "op"})
Pending == {i \in DOMAIN Needs[want] : Missing(Needs[want][i])}
Due(k) == life = Starting /\ \E i \in Pending : Needs[want][i] = k /\ \A j \in Pending : i <= j

(* The PTY of Spawn, the timer of Desktop_Start, the pipe of StartOp. One  *)
(* that cannot be had ends the session for a terminal only, and a desktop   *)
(* whose status could not be sent is left with its timer not registered.    *)
Opens(k) ==
    /\ Due(k) /\ field[k] = 0
    /\ \/ /\ HasFree
          /\ holder' = [holder EXCEPT ![Lowest] = k]
          /\ field' = [field EXCEPT ![k] = Lowest]
          /\ \/ UNCHANGED <<life, want>>
             \/ k = "desktop" /\ life' = Open /\ want' = "none"
       \/ /\ IF k = "pty" THEN Closed ELSE life' = Open /\ want' = "none"
          /\ UNCHANGED <<holder, field>>
    /\ UNCHANGED <<endpoint, mode, authed, foul>>

(* Mutant: the descriptor of a failed registration stays in its field.     *)
RegistrationFailsKeeps(k) == Closes(k) /\ UNCHANGED <<field, endpoint>>

(* AddEndpoint failed and has closed the descriptor: only the field is     *)
(* reset.                                                                  *)
RegistrationFails(k) ==
    Closes(k) /\ field' = [field EXCEPT ![k] = 0] /\ UNCHANGED endpoint

(* AddRTCPipeEndpoint, AddSearchPipeEndpoint, AddDesktopEndpoint, and the  *)
(* registrations in StartTerminal and StartOp; all but the last close the   *)
(* session when they fail.                                                  *)
AddEndpoint(k) ==
    /\ Due(k) /\ field[k] # 0
    /\ \/ /\ RegistrationFails(k)
          /\ IF k = "op" THEN life' = Open /\ want' = "none" ELSE Closed
       \/ /\ endpoint' = [endpoint EXCEPT ![Whose(field[k])] = field[k]]
          /\ UNCHANGED <<holder, field, life, want, foul>>
    /\ UNCHANGED <<mode, authed>>

(* Nothing is missing any more: the mode is active.                        *)
Started ==
    /\ life = Starting /\ Pending = {}
    /\ mode' = (IF want = "op" THEN mode ELSE want) /\ want' = "none" /\ life' = Open
    /\ UNCHANGED <<holder, field, endpoint, authed, foul>>

-----------------------------------------------------------------------------
(* Endpoints that close, and the session's end.                            *)

(* An endpoint closes: HandleClosed finds out by number whose it was; the  *)
(* loop closes the descriptor once the callback is back.                    *)
HandleClosed(k) ==
    /\ holder' = [holder EXCEPT ![endpoint[k]] = "loop"]
    /\ foul' = (foul \/ holder[endpoint[k]] # k)
    /\ field' = [field EXCEPT ![Whose(endpoint[k])] = 0]
    /\ endpoint' = [endpoint EXCEPT ![k] = 0]

(* The peer end of a pipe is gone, the file operation has answered, the    *)
(* shell exited. The end of the timer or of the shell is the session's.     *)
EndpointEnds ==
    /\ life = Open
    /\ \E k \in Kinds :
       /\ endpoint[k] # 0 /\ HandleClosed(k)
       /\ IF Whose(endpoint[k]) \in {"desktop", "pty"} THEN Closed ELSE UNCHANGED <<life, want>>
    /\ UNCHANGED <<mode, authed>>

(* HandleCmd, "stop": a desktop's session is closed, a shell's ends with    *)
(* its PTY, a file manager only leaves its mode.                            *)
HandleStop ==
    /\ life = Open
    /\ IF mode = "desktop" THEN Closed /\ UNCHANGED <<holder, field, endpoint, mode, foul>>
       ELSE /\ mode' = "none"
            /\ IF endpoint["pty"] = 0 THEN UNCHANGED <<holder, field, endpoint, life, want, foul>>
               ELSE HandleClosed("pty") /\ Closed
    /\ UNCHANGED authed

(* EnsureMode: whether the handler may go on. It refuses a request without *)
(* authentication, which frees the session, and one for another mode.       *)
EnsureMode(m) == authed /\ mode = m

(* HandleManager, HandleFile, HandleResize, HandleData and their checks; a *)
(* handler that goes on uses the session and the mode.                      *)
Request(m) ==
    /\ life = Open
    /\ IF authed THEN UNCHANGED <<life, want>> ELSE Closed
    /\ foul' = (foul \/ (EnsureMode(m) /\ (life' # Open \/ mode # m)))
    /\ UNCHANGED <<holder, field, endpoint, mode, authed>>

(* Session_Close for any other reason.                                     *)
Session_Close ==
    life = Open /\ Closed /\ UNCHANGED <<holder, field, endpoint, mode, authed, foul>>

(* Session_Destroy, a step at a time. The terminal and the file operation  *)
(* close what they could not register; at last Desktop_Clear, WebRTC_Clear  *)
(* and Search_Clear close what is left.                                     *)
Session_Destroy ==
    /\ life \in 1 .. Len(Ending) - 1 /\ life' = life + 1
    /\ LET k == Ending[life] IN
       IF k = "clear"
       THEN /\ holder' = [f \in Fds |-> IF \E j \in Kinds : field[j] = f THEN "free" ELSE holder[f]]
            /\ foul' = (foul \/ \E j \in Kinds : field[j] # 0 /\ holder[field[j]] # j)
            /\ field' = [j \in Kinds |-> 0] /\ UNCHANGED endpoint
       ELSE IF endpoint[k] # 0 THEN HandleClosed(k)
       ELSE IF k \in {"op", "pty"}
       THEN Closes(k) /\ field' = [field EXCEPT ![k] = 0] /\ UNCHANGED endpoint
       ELSE UNCHANGED <<holder, field, endpoint, foul>>
    /\ UNCHANGED <<mode, want, authed>>

EndpointsNext ==
    \/ OtherOpens \/ OthersClose
    \/ \E m \in Modes \cup {"op"} : Start(m)
    \/ \E k \in {"desktop", "op", "pty"} : Opens(k)
    \/ \E k \in Kinds : AddEndpoint(k)
    \/ Started \/ \E m \in Modes : Request(m)
    \/ EndpointEnds \/ HandleStop \/ Session_Close \/ Session_Destroy
EndpointsSpec == EndpointsInit /\ [][EndpointsNext]_epVars

-----------------------------------------------------------------------------

(* No descriptor is closed by anyone but who holds it, however the numbers *)
(* are reused, and no handler goes on with a session that was freed; what   *)
(* the session still names is its own, nothing is registered under a wrong  *)
(* kind, and nothing stays open when it is gone.                            *)
DescriptorsAreOurs ==
    /\ ~foul
    /\ \A k \in Kinds : field[k] # 0 => holder[field[k]] = k
    /\ \A k \in Kinds : endpoint[k] # 0 => endpoint[k] = field[k]
    /\ life = Len(Ending) => \A f \in Fds : holder[f] \notin Kinds

=============================================================================
