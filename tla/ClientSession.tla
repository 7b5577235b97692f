----------------------------- MODULE ClientSession -----------------------------
(* The command line client from the chosen device to its exit (client.c):   *)
(* an attempt by key, one more by password when the host refuses the key,   *)
(* the session of a shell or of an authorized key, signals, resizes of the  *)
(* terminal, and the exit status.                                           *)
(*                                                                          *)
(* What the host and the relay may send at a stage is an input; what the    *)
(* handshakes compute is whether it checks out.                             *)
EXTENDS Integers

CONSTANTS
    Sizes,        \* sizes of the terminal
    MaxResizes    \* bound: resizes of the terminal

ASSUME ClientAssumption == Sizes # {} /\ 0 \notin Sizes /\ MaxResizes \in Nat

VARIABLES
    pc,        \* main: prepare, fetch, service, prompt, exit
    opts,      \* bAddKey, bKeyRequired, and whether stdin is a terminal
    stage,     \* the relay session: off, up, role, hello, proof, adding, open
    usesKey,   \* bUseKeyAuth
    flags,     \* bAuthDone, bKeyAuthFailed, bSessionFailed, bAddKeyDone
    secret,    \* sSecret holds the password
    raw,       \* io.bRaw
    finish,    \* g_bFinish
    win,       \* the terminal's size, lastSize, the remote one, g_bWinch
    host,      \* what the host did: accepted the proof, had nobody logged on,
               \* what became of the shell it was asked for (told: its refusal
               \* has reached the client), authorized the key
    status,    \* the exit status
    resizes    \* resizes left

clientVars == <<pc, opts, stage, usesKey, flags, secret, raw, finish, win, host, status, resizes>>
inputs == <<opts, resizes>>

Connected == {"up", "role", "hello", "proof", "adding", "open"}
NoFlags == [auth |-> FALSE, refused |-> FALSE, failed |-> FALSE, added |-> FALSE]
NoHost == [accepted |-> FALSE, empty |-> FALSE, shell |-> "none", authorized |-> FALSE]
Shells == {"none", "asked", "started", "refused", "told"}

ClientTypeOK ==
    /\ pc \in {"prepare", "fetch", "service", "prompt", "exit"}
    /\ opts \in [add : BOOLEAN, required : BOOLEAN, tty : BOOLEAN]
    /\ stage \in Connected \cup {"off"} /\ usesKey \in BOOLEAN
    /\ flags \in [auth : BOOLEAN, refused : BOOLEAN, failed : BOOLEAN, added : BOOLEAN]
    /\ secret \in BOOLEAN /\ raw \in BOOLEAN /\ finish \in BOOLEAN
    /\ win \in [real : Sizes, last : Sizes \cup {0}, remote : Sizes \cup {0}, winch : BOOLEAN]
    /\ host \in [accepted : BOOLEAN, empty : BOOLEAN, shell : Shells, authorized : BOOLEAN]
    /\ status \in {"none", "ok", "error"} /\ resizes \in 0 .. MaxResizes

(* DirectGate_Client_Init                                                  *)
ClientInit ==
    /\ pc = "prepare" /\ opts \in [add : BOOLEAN, required : BOOLEAN, tty : BOOLEAN]
    /\ stage = "off" /\ usesKey = FALSE /\ flags = NoFlags
    /\ secret = FALSE /\ raw = FALSE /\ finish = FALSE
    /\ win \in {[real |-> s, last |-> 0, remote |-> 0, winch |-> FALSE] : s \in Sizes}
    /\ host = NoHost /\ status = "none" /\ resizes = MaxResizes

-----------------------------------------------------------------------------
(* Before the relay: main and DirectGate_Client_Prepare.                   *)

(* main's way out: the terminal, the secret and the key are given back.    *)
Exit(how) == pc' = "exit" /\ status' = how /\ raw' = FALSE /\ secret' = FALSE

(* DirectGate_PromptDeviceSecret                                           *)
Prompted(then) ==
    \/ secret /\ pc' = then /\ UNCHANGED <<secret, raw, status>>
    \/ ~secret /\ pc' = then /\ secret' = TRUE /\ UNCHANGED <<raw, status>>
    \/ ~secret /\ Exit("error")

(* PrepareKeyAuth, and what follows from it: -k names a key that has to be *)
(* usable; a key that is being added cannot authenticate itself.           *)
Prepare ==
    /\ pc = "prepare"
    /\ \/ /\ ~opts.add /\ usesKey' = TRUE /\ pc' = "fetch"
          /\ UNCHANGED <<secret, raw, status>>
       \/ /\ usesKey' = FALSE
          /\ IF opts.required /\ ~opts.add THEN Exit("error") ELSE Prompted("fetch")
    /\ UNCHANGED <<stage, flags, finish, win, host, inputs>>

(* Run up to its loop: the envelope, the endpoints, the connection.        *)
Fetch ==
    /\ pc = "fetch"
    /\ \/ pc' = "service" /\ UNCHANGED <<secret, raw, status>>
       \/ Exit("error")
    /\ UNCHANGED <<stage, usesKey, flags, finish, win, host, inputs>>

-----------------------------------------------------------------------------
(* The loop: callbacks of the relay session.                               *)

Serving == pc = "service" /\ ~finish
Main == <<pc, status, inputs>>

(* DirectGate_Client_DestroySession, when a callback says disconnect.      *)
DestroySession == stage' = "off" /\ raw' = FALSE /\ secret' = FALSE /\ finish' = TRUE

(* An error in a message of the data channel only ends the loop.           *)
Disconnect ==
    \/ DestroySession
    \/ stage = "open" /\ finish' = TRUE /\ UNCHANGED <<stage, raw, secret>>

InitSession ==
    /\ Serving /\ stage = "off" /\ stage' = "up" /\ raw' = opts.tty
    /\ flags' = [flags EXCEPT !.auth = FALSE]
    /\ host' = [host EXCEPT !.accepted = FALSE, !.shell = "none"]
    /\ UNCHANGED <<usesKey, secret, finish, win, Main>>

HandshakeResponse ==
    /\ Serving /\ stage = "up"
    /\ IF usesKey \/ secret
       THEN stage' = "role" /\ UNCHANGED <<raw, secret, finish>>
       ELSE DestroySession
    /\ UNCHANGED <<usesKey, flags, win, host, Main>>

(* HandleCmdMsg: the host's start asks for the hello, again if need be.    *)
HandleStart ==
    /\ Serving /\ stage \in {"role", "hello", "proof"} /\ stage' = "hello"
    /\ UNCHANGED <<usesKey, flags, secret, raw, finish, win, host, Main>>

(* A challenge that does not check out ends the attempt, without a         *)
(* fallback.                                                               *)
HandleChallenge ==
    /\ Serving /\ stage = "hello"
    /\ \/ stage' = "proof" /\ UNCHANGED <<raw, secret, finish>>
       \/ DestroySession
    /\ UNCHANGED <<usesKey, flags, win, host, Main>>

(* SendResize, once the handshake is done: what is sent before the session *)
(* is authenticated, SendMsg holds back.                                   *)
Resized(w, auth) ==
    IF w.real = w.last THEN w
    ELSE [w EXCEPT !.last = w.real, !.remote = IF auth THEN w.real ELSE @]

(* The host accepts the proof, and says so if nobody is logged on to it.   *)
HostAccepts ==
    /\ stage = "proof" /\ ~host.accepted
    /\ \E nobody \in BOOLEAN : host' = [host EXCEPT !.accepted = TRUE, !.empty = nobody]
    /\ UNCHANGED <<stage, usesKey, flags, secret, raw, finish, win, Main>>

(* Authenticated: the key is handed over, or the shell is asked for, with  *)
(* its size and a peer connection. A host where nobody is logged on has no *)
(* shell. A request that cannot be sent ends the session and marks nothing.*)
Authenticated ==
    \/ /\ flags' = [flags EXCEPT !.auth = TRUE, !.failed = @ \/ (~opts.add /\ host.empty)]
       /\ DestroySession /\ UNCHANGED <<win, host>>
    \/ /\ opts.add /\ stage' = "adding" /\ flags' = [flags EXCEPT !.auth = TRUE]
       /\ UNCHANGED <<raw, finish, win, host>>
    \/ /\ ~opts.add /\ ~host.empty /\ stage' = "open" /\ flags' = [flags EXCEPT !.auth = TRUE]
       /\ win' = Resized(win, TRUE) /\ host' = [host EXCEPT !.shell = "asked"]
       /\ UNCHANGED <<raw, finish>>

(* HandleAuthMsg and HandleKeyAuthMsg: an accepted proof, whose answer has *)
(* to check out in turn. The password is wiped here already.               *)
HandleAccepted ==
    /\ Serving /\ stage = "proof"
    /\ \/ host.accepted /\ Authenticated /\ secret' = FALSE
       \/ DestroySession /\ UNCHANGED <<flags, win, host>>
    /\ UNCHANGED <<usesKey, Main>>

(* The host starts the shell, or has none to give: the terminal does not   *)
(* start, or its endpoint is not registered. Then it closes the session.   *)
HostAnswers ==
    /\ stage = "open" /\ host.shell = "asked"
    /\ \E shell \in {"started", "refused"} : host' = [host EXCEPT !.shell = shell]
    /\ UNCHANGED <<stage, usesKey, flags, secret, raw, finish, win, Main>>

(* ... and a refusal, which only for a key leads to another attempt.       *)
HandleRefused ==
    /\ Serving /\ stage \in {"hello", "proof"} /\ DestroySession
    /\ flags' = [flags EXCEPT !.refused = usesKey]
    /\ UNCHANGED <<usesKey, win, host, Main>>

(* The host authorizes the key; its answer may be lost with the session.   *)
HostAuthorizes ==
    /\ stage = "adding" /\ ~host.authorized /\ host' = [host EXCEPT !.authorized = TRUE]
    /\ UNCHANGED <<stage, usesKey, flags, secret, raw, finish, win, Main>>

HandleAdminMsg ==
    /\ Serving /\ stage = "adding" /\ DestroySession
    /\ \E ok \in {host.authorized, FALSE} : flags' = [flags EXCEPT !.added = ok]
    /\ UNCHANGED <<usesKey, win, host, Main>>

(* The close that follows a refusal, which to the client is an end like    *)
(* any other: it marks nothing.                                            *)
HandleStatusMsg ==
    /\ Serving /\ stage = "open" /\ host.shell = "refused" /\ Disconnect
    /\ host' = [host EXCEPT !.shell = "told"]
    /\ UNCHANGED <<usesKey, flags, win, Main>>

(* The host closes the session, input ends, the relay goes, or nothing can *)
(* be written any more.                                                    *)
SessionEnds ==
    /\ Serving /\ stage \in Connected /\ Disconnect
    /\ UNCHANGED <<usesKey, flags, win, host, Main>>

InputEnds ==
    /\ Serving /\ finish' = TRUE
    /\ UNCHANGED <<stage, usesKey, flags, secret, raw, win, host, Main>>

(* HandleMessage: what breaks the protocol ends the session as failed.     *)
Violated ==
    /\ Serving /\ stage \in Connected \ {"up"} /\ Disconnect
    /\ flags' = [flags EXCEPT !.failed = TRUE] /\ UNCHANGED <<usesKey, win, host, Main>>

(* Interrupt: a resize has been signalled. Without a connection there is   *)
(* none to tell, and the loop ends.                                        *)
Interrupt ==
    /\ Serving /\ win.winch
    /\ IF stage = "off" THEN finish' = TRUE /\ win' = [win EXCEPT !.winch = FALSE]
       ELSE /\ win' = [(IF stage = "up" THEN win ELSE Resized(win, flags.auth)) EXCEPT !.winch = FALSE]
            /\ UNCHANGED finish
    /\ UNCHANGED <<stage, usesKey, flags, secret, raw, host, Main>>

-----------------------------------------------------------------------------
(* Signals, and the rest of main.                                          *)

(* SIGTERM, and SIGINT while the terminal is not raw.                      *)
Signal ==
    /\ pc \in {"fetch", "service", "prompt"} /\ ~finish /\ finish' = TRUE
    /\ UNCHANGED <<stage, usesKey, flags, secret, raw, win, host, Main>>

(* SIGWINCH, watched once a device is chosen.                              *)
Winch ==
    /\ pc \in {"fetch", "service", "prompt"} /\ resizes > 0 /\ resizes' = resizes - 1
    /\ \E s \in Sizes \ {win.real} : win' = [win EXCEPT !.real = s, !.winch = TRUE]
    /\ UNCHANGED <<pc, opts, stage, usesKey, flags, secret, raw, finish, host, status>>

(* Mutant: an authenticated session is a success, whatever it was for.     *)
StatusOfAuth == IF flags.auth THEN "ok" ELSE "error"

Status == IF flags.auth /\ ~flags.failed /\ (opts.add => flags.added) THEN "ok" ELSE "error"

(* The loop is over. Only a refused key sends main round again.            *)
LoopEnds ==
    /\ pc = "service" /\ finish
    /\ stage' = "off"
    /\ IF flags.refused
       THEN /\ pc' = "prompt" /\ raw' = FALSE /\ secret' = FALSE /\ UNCHANGED status
       ELSE Exit(Status)
    /\ UNCHANGED <<usesKey, flags, finish, win, host, inputs>>

(* The second attempt: fresh transport state, by password.                 *)
Again ==
    /\ pc = "prompt" /\ usesKey' = FALSE /\ flags' = NoFlags
    /\ Prompted("fetch") /\ finish' = FALSE
    /\ win' = [win EXCEPT !.last = 0, !.remote = 0]
    /\ UNCHANGED <<stage, host, inputs>>

Done == pc = "exit" /\ UNCHANGED clientVars

ClientNext ==
    \/ Prepare \/ Fetch \/ InitSession \/ HandshakeResponse \/ HandleStart
    \/ HandleChallenge \/ HandleAccepted \/ HandleRefused \/ HostAccepts
    \/ HostAnswers \/ HandleStatusMsg \/ HostAuthorizes \/ HandleAdminMsg
    \/ SessionEnds \/ InputEnds \/ Violated \/ Interrupt
    \/ Signal \/ Winch \/ LoopEnds \/ Again \/ Done

ClientSpec == ClientInit /\ [][ClientNext]_clientVars

-----------------------------------------------------------------------------

(* However an attempt ends - refusals, violations, signals and lost        *)
(* connections in any order - a status of success means that the host, in  *)
(* this attempt, accepted the client and has someone logged on to give a   *)
(* shell to, or that it authorized the key; and the client asks for a      *)
(* password or exits only with the terminal given back. It does not mean   *)
(* that the shell was given: see RefusalIsSeen.                            *)
EndsAsItSays ==
    /\ status = "ok" => IF opts.add THEN host.authorized ELSE host.accepted /\ ~host.empty
    /\ pc \in {"prompt", "exit"} => ~raw /\ ~secret

(* What the comment at bSessionFailed says (client.c 107-108): a session   *)
(* whose host could not give what was asked for does not exit as a         *)
(* success. Refuted: a host that refuses the shell closes the session, the *)
(* client hears of it, and nothing marks the session as failed.            *)
RefusalIsSeen == status = "ok" => host.shell # "told"

(* A key is tried once, and a password follows only a key that was refused *)
(* or was never usable; with -k it has to be usable.                       *)
NoQuietFallback == [][pc' = "prompt" /\ pc # "prompt" => usesKey /\ flags.refused]_clientVars

=============================================================================
