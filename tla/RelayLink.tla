----------------------------- MODULE RelayLink -----------------------------
(* The agent's link to the relay and the tokens it presents there: connect, *)
(* upgrade, role, loss and back-off, and the refresh of the tokens through  *)
(* the API, in line or on a worker thread (directgate.c, enroll.c).         *)
(*                                                                          *)
(* A refresh token is a number. The API rotates it at will, and reads a     *)
(* token it has already replaced as theft. Time is abstract: a timer is     *)
(* "waiting" until it is "due", an access token ages. A restart begins with *)
(* what is on the disk.                                                     *)
EXTENDS Naturals

CONSTANTS
    Relays,         \* addresses the API may hand out
    MaxTokens,      \* bound: rotations of the refresh token
    ReprobeAfter,   \* DIRECTGATE_RECONNECT_REPROBE_AFTER
    MaxAttempts,    \* bound: the attempt counter is capped here
    MaxTroubles     \* bound: relay losses, error frames, agings, stops, crashes

ASSUME RelayAssumption ==
    /\ Relays # {} /\ MaxTokens \in Nat \ {0} /\ MaxTroubles \in Nat
    /\ ReprobeAfter \in Nat /\ MaxAttempts \in Nat \ {0} /\ ReprobeAfter <= MaxAttempts

VARIABLES
    phase,       \* main: InitialConnect, RunService, or the process is gone
    link,        \* pWsSession: none, connected, upgrading, or bRoleSent
    next,        \* nNextReconnectMs: 0, in the future, or passed
    attempt,     \* nReconnectAttempt
    probe,       \* nNextRefreshProbeMs is due
    suppressed,  \* bReconnectSuppressed
    doubt,       \* bEnrollmentDoubt
    startup,     \* bStartupRelayRefreshDone
    cfg,         \* the tokens in memory, and bSavePending
    disk,        \* the tokens in the configuration file
    job,         \* pRefreshJob
    retry,       \* nNextTokenRefreshMs is due
    api,         \* the API's side: the token it expects, whether it revoked the device
    blameless,   \* no answer was lost and no stop left tokens behind
    troubles     \* how much went wrong so far

loop == <<phase, link, next, attempt, probe>>
claims == <<suppressed, doubt, startup>>
tokens == <<cfg, disk, api>>
relayVars == <<loop, claims, tokens, job, retry, blameless, troubles>>

Timers == {"none", "waiting", "due"}
Accesses == {"none", "fresh", "aging", "expired"}
Saved == [enrolled : BOOLEAN, refresh : 0 .. MaxTokens, access : Accesses, relay : Relays]
Statuses == {"ok", "transient", "terminal"}
NoJob == [state |-> "none"]
Answers == [status : Statuses, refresh : 0 .. MaxTokens, relay : Relays]
NoAnswer == [status |-> "transient"]

RelayTypeOK ==
    /\ phase \in {"initial", "service", "stopped"}
    /\ link \in {"none", "connected", "upgrading", "role"}
    /\ next \in Timers /\ attempt \in 0 .. MaxAttempts /\ probe \in BOOLEAN
    /\ suppressed \in BOOLEAN /\ doubt \in BOOLEAN /\ startup \in BOOLEAN
    /\ disk \in Saved
    /\ \E s \in Saved, p \in BOOLEAN : cfg = [saved |-> s, pending |-> p]
    /\ \/ job = NoJob
       \/ \E t \in 1 .. MaxTokens : job = [state |-> "out", token |-> t]
       \/ \E t \in 1 .. MaxTokens, a \in Answers \cup {NoAnswer} :
              job = [state |-> "in", token |-> t, answer |-> a]
    /\ retry \in BOOLEAN
    /\ api \in [token : 1 .. MaxTokens, revoked : BOOLEAN]
    /\ blameless \in BOOLEAN /\ troubles \in 0 .. MaxTroubles

RelayInit ==
    /\ phase = "initial" /\ link = "none" /\ next = "none" /\ attempt = 0 /\ probe = TRUE
    /\ suppressed = FALSE /\ doubt = FALSE /\ startup = FALSE
    /\ \E r \in Relays :
           disk = [enrolled |-> TRUE, refresh |-> 1, access |-> "fresh", relay |-> r]
    /\ cfg = [saved |-> disk, pending |-> FALSE]
    /\ job = NoJob /\ retry = TRUE
    /\ api = [token |-> 1, revoked |-> FALSE]
    /\ blameless = TRUE /\ troubles = 0

Trouble == troubles < MaxTroubles /\ troubles' = troubles + 1

-----------------------------------------------------------------------------
(* The API and the request.                                                *)

AccessTokenIsUsable(s) == s.enrolled /\ s.access \in {"fresh", "aging"}
NeedsRefresh(s) == s.enrolled /\ s.access \in {"aging", "expired"}

(* What the API does with a request, and its answer: a token it does not   *)
(* expect is reuse and revokes the device, any other is kept or rotated.   *)
Served(a, token) ==
    IF a.revoked \/ token # a.token
    THEN {[api |-> [a EXCEPT !.revoked = TRUE],
           answer |-> [status |-> "terminal", refresh |-> 0, relay |-> CHOOSE r \in Relays : TRUE]]}
    ELSE {[api |-> [a EXCEPT !.token = t],
           answer |-> [status |-> "ok", refresh |-> t, relay |-> r]] :
             t \in {a.token, a.token + 1} \cap (1 .. MaxTokens), r \in Relays}

(* Exchange: served, refused for another reason, or lost on either way.    *)
Exchange(a, token) ==
    Served(a, token)
        \cup {[api |-> a, answer |-> NoAnswer]}
        \cup {[api |-> x.api, answer |-> NoAnswer] : x \in Served(a, token)}

(* The API acted on the request and the agent will not know.               *)
Lost(a, x) == x.answer = NoAnswer /\ x.api # a

(* Saving may fail; the tokens in memory are used all the same.            *)
SaveConfig(c, d) ==
    {[cfg |-> [c EXCEPT !.pending = FALSE], disk |-> c.saved],
     [cfg |-> [c EXCEPT !.pending = TRUE], disk |-> d]}

(* Mutant: the token that was sent is kept.                                *)
ProcessRefreshKeeps(c, d, answer) ==
    IF answer.status = "ok"
    THEN SaveConfig([c EXCEPT !.saved = [enrolled |-> TRUE, refresh |-> c.saved.refresh,
                                         access |-> "fresh", relay |-> answer.relay]], d)
    ELSE {[cfg |-> c, disk |-> d]}

(* ProcessRefresh: what an answer does to the configuration.               *)
ProcessRefresh(c, d, answer) ==
    IF answer.status = "ok"
    THEN SaveConfig([c EXCEPT !.saved = [enrolled |-> TRUE, refresh |-> answer.refresh,
                                         access |-> "fresh", relay |-> answer.relay]], d)
    ELSE {[cfg |-> c, disk |-> d]}

(* PrepareRefresh: without an enrollment there is nothing to send.         *)
Unsent(s) == ~s.enrolled \/ s.refresh = 0

(* The state of the tokens on the way through a handler.                   *)
Here == [cfg |-> cfg, disk |-> disk, api |-> api, status |-> "ok", lost |-> FALSE]
Settled(r) ==
    /\ cfg' = r.cfg /\ disk' = r.disk /\ api' = r.api
    /\ blameless' = (blameless /\ ~r.lost)

(* Every way a refresh in line can end.                                    *)
Refreshed(r) ==
    IF Unsent(r.cfg.saved) THEN {[r EXCEPT !.status = "terminal"]}
    ELSE UNION {{[cfg |-> p.cfg, disk |-> p.disk, api |-> x.api, status |-> x.answer.status,
                  lost |-> r.lost \/ Lost(r.api, x)] :
                    p \in ProcessRefresh(r.cfg, r.disk, x.answer)} :
                x \in Exchange(r.api, r.cfg.saved.refresh)}

(* Never next to the request of the worker.                                *)
RefreshInline(r) == IF job = NoJob THEN Refreshed(r) ELSE {[r EXCEPT !.status = "transient"]}

(* SuppressReconnect clears the enrollment, and saves that if it can.      *)
Cleared(r) ==
    LET s == [r.cfg.saved EXCEPT !.enrolled = FALSE, !.refresh = 0, !.access = "none"]
    IN  {[r EXCEPT !.cfg.saved = s, !.disk = d] : d \in {s, r.disk}}

SuppressReconnect(r) ==
    /\ suppressed' = TRUE /\ attempt' = 0 /\ next' = "none" /\ probe' = TRUE
    /\ \E c \in Cleared(r) : Settled(c)

-----------------------------------------------------------------------------
(* Back-off.                                                               *)

Capped(n) == IF n > MaxAttempts THEN MaxAttempts ELSE n

(* TryRelayReprobe: after some failures the API is asked for another relay.*)
Reprobes(r, j) == r.cfg.saved.enrolled /\ attempt >= ReprobeAfter /\ probe /\ j = NoJob
Migrated(r, q) == q.status = "ok" /\ q.cfg.saved.relay # r.cfg.saved.relay

(* ScheduleReconnect, with the tokens as r has them and the worker as j.   *)
ScheduleReconnect(r, j) ==
    IF suppressed
    THEN Settled(r) /\ UNCHANGED <<next, attempt, probe>>
    ELSE /\ next' = "waiting"
         /\ IF Reprobes(r, j)
            THEN \E q \in Refreshed(r) :
                    /\ Settled(q)
                    /\ probe' = FALSE
                    /\ attempt' = Capped((IF Migrated(r, q) THEN 0 ELSE attempt) + 1)
            ELSE Settled(r) /\ attempt' = Capped(attempt + 1) /\ UNCHANGED probe

(* DestroyConnection, after LogStatus: a reconnect is scheduled only once. *)
Disconnected(r, j) ==
    /\ link' = "none"
    /\ IF next = "none" THEN ScheduleReconnect(r, j)
                        ELSE Settled(r) /\ UNCHANGED <<next, attempt, probe>>

(* HandleRefreshStatus, where the caller goes on if the tokens still serve.*)
Serves(r) == r.status = "ok" \/ (r.status = "transient" /\ AccessTokenIsUsable(r.cfg.saved))

-----------------------------------------------------------------------------
(* Connect.                                                                *)

(* PreConnectRefresh asks at the start, after the relay's claim, or when   *)
(* the access token ages.                                                  *)
MustAsk(s) == ~startup \/ doubt \/ NeedsRefresh(s)
PreConnected == IF MustAsk(cfg.saved) THEN RefreshInline(Here) ELSE {Here}

(* InitConnection: the socket is connected.                                *)
InitConnection ==
    /\ link' = "connected" /\ next' = "none" /\ startup' = FALSE

(* One attempt of InitialConnect or RunService: not while a request of the *)
(* worker is out, and not once reconnecting is suppressed.                 *)
MayConnect ==
    /\ link = "none" /\ job = NoJob /\ ~suppressed
    /\ \/ phase = "initial" /\ next \in {"none", "due"}
       \/ phase = "service" /\ next = "due"

Enrolled == cfg.saved.enrolled
Complete(s) == s.enrolled /\ s.refresh # 0 /\ s.access # "none"

ConnectRefused ==
    /\ MayConnect
    /\ \/ /\ ~Enrolled
          /\ ScheduleReconnect(Here, job)
          /\ UNCHANGED <<claims, link, phase>>
       \/ /\ Enrolled
          /\ startup' = TRUE /\ doubt' = FALSE /\ UNCHANGED link
          /\ \E r \in PreConnected :
                \/ r.status = "terminal" /\ SuppressReconnect(r) /\ phase' = "service"
                \/ /\ r.status = "transient" /\ ~Serves(r)
                   /\ ScheduleReconnect(r, job) /\ UNCHANGED <<suppressed, phase>>
    /\ UNCHANGED <<job, retry, troubles>>

(* PrepareEndpoint, then XAPI_Connect; the relay may be out of reach.      *)
ConnectFails ==
    /\ MayConnect /\ Enrolled
    /\ startup' = TRUE /\ doubt' = FALSE
    /\ \E r \in PreConnected : Serves(r) /\ ScheduleReconnect(r, job)
    /\ UNCHANGED <<phase, link, suppressed, job, retry, troubles>>

Connect ==
    /\ MayConnect /\ Enrolled
    /\ doubt' = FALSE
    /\ \E r \in PreConnected : Serves(r) /\ Complete(r.cfg.saved) /\ Settled(r)
    /\ InitConnection
    /\ phase' = "service"
    /\ UNCHANGED <<attempt, probe, suppressed, job, retry, troubles>>

(* HandshakeRequest refreshes at the last minute; a refusal ends the       *)
(* connection in its own callback.                                         *)
HandshakeRequest ==
    /\ link = "connected" /\ phase = "service"
    /\ \E r \in (IF NeedsRefresh(cfg.saved) THEN RefreshInline(Here) ELSE {Here}) :
          \/ /\ Serves(r) /\ Complete(r.cfg.saved) /\ Settled(r)
             /\ link' = "upgrading" /\ UNCHANGED <<next, attempt, probe, suppressed>>
          \/ /\ r.status = "terminal" /\ SuppressReconnect(r)
             /\ link' = "none"
          \/ /\ r.status # "terminal" /\ ~(Serves(r) /\ Complete(r.cfg.saved))
             /\ Disconnected(r, job) /\ UNCHANGED suppressed
    /\ UNCHANGED <<phase, doubt, startup, job, retry, troubles>>

(* HandshakeResponse sends the role; the back-off starts over.             *)
HandshakeResponse ==
    /\ link = "upgrading" /\ phase = "service"
    /\ link' = "role" /\ attempt' = 0 /\ probe' = TRUE
    /\ UNCHANGED <<phase, next, claims, tokens, job, retry, blameless, troubles>>

(* The relay closes, or its keepalive times out.                           *)
RelayLost ==
    /\ link # "none" /\ phase = "service" /\ Trouble
    /\ Disconnected(Here, job)
    /\ UNCHANGED <<phase, claims, job, retry>>

(* An error frame of the relay is recorded, not acted on.                  *)
HandleError ==
    /\ link = "role" /\ phase = "service" /\ Trouble
    /\ doubt' = TRUE
    /\ UNCHANGED <<loop, suppressed, startup, tokens, job, retry, blameless>>

-----------------------------------------------------------------------------
(* The refresh during a session.                                           *)

(* EndTokenRefresh: how the loop takes the end of a refresh.               *)
EndTokenRefresh(r) ==
    IF r.status = "ok"
    THEN /\ Settled(r) /\ retry' = TRUE
         /\ UNCHANGED <<link, next, attempt, probe, suppressed>>
    ELSE /\ retry' = FALSE
         /\ \/ /\ r.status = "terminal" /\ SuppressReconnect(r)
               /\ link' = "none"
            \/ /\ Serves(r) /\ Settled(r)
               /\ UNCHANGED <<link, next, attempt, probe, suppressed>>
            \/ /\ r.status = "transient" /\ ~Serves(r) /\ UNCHANGED suppressed
               /\ IF link = "none" THEN Settled(r) /\ UNCHANGED <<link, next, attempt, probe>>
                                   ELSE Disconnected(r, NoJob)

(* CheckTokenRefresh starts the worker, or has nothing to send.            *)
CheckTokenRefresh ==
    /\ phase = "service" /\ job = NoJob /\ link = "role" /\ Enrolled
    /\ IF NeedsRefresh(cfg.saved)
       THEN /\ retry
            /\ IF Unsent(cfg.saved)
               THEN job' = job /\ EndTokenRefresh([Here EXCEPT !.status = "terminal"])
               ELSE \/ /\ job' = [state |-> "out", token |-> cfg.saved.refresh]
                       /\ UNCHANGED <<link, next, attempt, probe, suppressed, tokens, retry, blameless>>
                    \/ job' = job /\ EndTokenRefresh([Here EXCEPT !.status = "transient"])
       ELSE /\ ~retry /\ retry' = TRUE /\ UNCHANGED <<loop, suppressed, tokens, job, blameless>>
    /\ UNCHANGED <<phase, doubt, startup, troubles>>

(* RefreshWorker: the request reaches the API or not, and ends.            *)
RefreshWorker ==
    /\ phase # "stopped" /\ job.state = "out"
    /\ \E x \in Exchange(api, job.token) :
          /\ api' = x.api
          /\ job' = [state |-> "in", token |-> job.token, answer |-> x.answer]
          /\ blameless' = (blameless /\ ~Lost(api, x))
    /\ UNCHANGED <<loop, claims, cfg, disk, retry, troubles>>

(* FinishRefresh drops the answer if the enrollment has changed since.     *)
Finished(j) ==
    IF Enrolled /\ cfg.saved.refresh = j.token
    THEN {[Here EXCEPT !.cfg = p.cfg, !.disk = p.disk, !.status = j.answer.status] :
             p \in ProcessRefresh(cfg, disk, j.answer)}
    ELSE {[Here EXCEPT !.status = "transient"]}

(* Mutant: an answer is only taken while the relay is up.                  *)
CollectTokenRefreshUp ==
    /\ phase = "service" /\ job.state = "in" /\ link = "role"
    /\ job' = NoJob
    /\ \E r \in Finished(job) : EndTokenRefresh(r)
    /\ UNCHANGED <<phase, doubt, startup, troubles>>

CollectTokenRefresh ==
    /\ phase = "service" /\ job.state = "in"
    /\ job' = NoJob
    /\ \E r \in Finished(job) : EndTokenRefresh(r)
    /\ UNCHANGED <<phase, doubt, startup, troubles>>

RetryPendingSave ==
    /\ phase = "service" /\ cfg.pending
    /\ cfg' = [cfg EXCEPT !.pending = FALSE] /\ disk' = cfg.saved
    /\ UNCHANGED <<loop, claims, api, job, retry, blameless, troubles>>

-----------------------------------------------------------------------------
(* Time, and the end of the process.                                       *)

ReconnectDue ==
    /\ phase # "stopped" /\ next = "waiting"
    /\ next' = "due"
    /\ UNCHANGED <<phase, link, attempt, probe, claims, tokens, job, retry, blameless, troubles>>

ProbeDue ==
    /\ phase # "stopped" /\ ~probe
    /\ probe' = TRUE
    /\ UNCHANGED <<phase, link, next, attempt, claims, tokens, job, retry, blameless, troubles>>

RetryDue ==
    /\ phase = "service" /\ ~retry
    /\ retry' = TRUE
    /\ UNCHANGED <<loop, claims, tokens, job, blameless, troubles>>

Older(access) ==
    CASE access = "fresh" -> "aging"
      [] access = "aging" -> "expired"
      [] OTHER -> access

AccessAges ==
    /\ phase # "stopped" /\ cfg.saved.access \in {"fresh", "aging"} /\ Trouble
    /\ cfg' = [cfg EXCEPT !.saved.access = Older(@)]
    /\ disk' = [disk EXCEPT !.access = Older(@)]
    /\ UNCHANGED <<loop, claims, api, job, retry, blameless>>

(* What a process leaves to the next one is on the disk.                   *)
Left(c, d) == c.saved.enrolled => d.refresh = c.saved.refresh

Gone == link' = "none" /\ next' = "none" /\ job' = NoJob

(* SettleTokenRefresh: the end waits for an answer, for a while.           *)
Stop ==
    /\ phase # "stopped" /\ Trouble
    /\ phase' = "stopped" /\ Gone
    /\ \E r \in (IF job.state = "in" THEN Finished(job) ELSE {Here}) :
          /\ IF r.status = "terminal"
             THEN suppressed' = TRUE /\ \E c \in Cleared(r) : cfg' = c.cfg /\ disk' = c.disk
             ELSE cfg' = r.cfg /\ disk' = r.disk /\ UNCHANGED suppressed
          /\ blameless' = (blameless /\ job.state # "out" /\ Left(r.cfg, r.disk))
    /\ UNCHANGED <<attempt, probe, doubt, startup, api, retry>>

Crash ==
    /\ phase # "stopped" /\ Trouble
    /\ phase' = "stopped" /\ Gone
    /\ blameless' = (blameless /\ job = NoJob /\ Left(cfg, disk))
    /\ UNCHANGED <<attempt, probe, claims, tokens, retry>>

(* ParseArgs refuses to start without an enrollment.                       *)
Startable(d) == d.enrolled /\ d.refresh # 0

Restart ==
    /\ phase = "stopped" /\ Startable(disk)
    /\ phase' = "initial" /\ link' = "none" /\ next' = "none" /\ attempt' = 0 /\ probe' = TRUE
    /\ suppressed' = FALSE /\ doubt' = FALSE /\ startup' = FALSE
    /\ cfg' = [saved |-> disk, pending |-> FALSE]
    /\ retry' = TRUE
    /\ UNCHANGED <<disk, api, job, blameless, troubles>>

RelayNext ==
    \/ ConnectRefused \/ ConnectFails \/ Connect \/ HandshakeRequest \/ HandshakeResponse
    \/ RelayLost \/ HandleError
    \/ CheckTokenRefresh \/ RefreshWorker \/ CollectTokenRefresh \/ RetryPendingSave
    \/ ReconnectDue \/ ProbeDue \/ RetryDue \/ AccessAges \/ Stop \/ Crash \/ Restart

RelaySpec == RelayInit /\ [][RelayNext]_relayVars

(* The loop turns, timers run out, a request ends, a process that ended is *)
(* started again, and a relay that is tried for ever is reached at last.   *)
RelayFairness ==
    /\ WF_relayVars(ReconnectDue) /\ WF_relayVars(ProbeDue) /\ WF_relayVars(Restart)
    /\ WF_relayVars(RefreshWorker) /\ WF_relayVars(CollectTokenRefresh)
    /\ WF_relayVars(HandshakeRequest) /\ WF_relayVars(HandshakeResponse)
    /\ SF_relayVars(Connect)
    /\ SF_relayVars(ConnectRefused /\ suppressed')

RelayFairSpec == RelaySpec /\ RelayFairness

-----------------------------------------------------------------------------

(* An agent without a relay is never left without a next attempt, unless   *)
(* the API itself ended its enrollment (ScheduleReconnect and the guards   *)
(* on nNextReconnectMs in LogStatus, DestroyConnection and RunService).    *)
NeverStranded ==
    phase = "service" /\ link = "none" /\ ~suppressed => next # "none"

(* The API reads reuse, and revokes the device, only after an answer was   *)
(* lost or a process ended before its tokens were saved: never because two *)
(* requests of one agent used one token (RefreshInline, the reconnect that *)
(* waits for the worker, FinishRefresh).                                   *)
ReuseHasACause == api.revoked => ~blameless

(* The tokens in memory are on the disk or waiting to be saved again       *)
(* (ProcessRefresh, RetryPendingSave).                                     *)
SavedOrPending == phase = "service" /\ Enrolled /\ ~cfg.pending => disk.refresh = cfg.saved.refresh

(* The enrollment is given up only on the API's word: no frame of the      *)
(* relay, no failed request and no expiry does it (HandleError).           *)
OnlyTheApiRevokes == [][suppressed' /\ ~suppressed => api'.revoked]_relayVars

(* Once nothing more goes wrong, the agent is back at its relay for good,  *)
(* or knows that it was revoked.                                           *)
ComesBack == <>[](link = "role" \/ suppressed)

=============================================================================
