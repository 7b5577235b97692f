----------------------------- MODULE KeyManager -----------------------------
(***************************************************************************)
(* The key manager (keymgr.c): a worker thread polls the organization's    *)
(* API for the lease of managed client keys, and the event loop moves its  *)
(* answers over into the lease that key authentication and the sessions'   *)
(* periodic check read (AgentSessions).                                    *)
(*                                                                         *)
(* Loop and worker share a heap context under one lock; every action here  *)
(* is one critical section of one thread with the code around it that      *)
(* touches no shared state.  The configuration changes under both: tokens  *)
(* rotate, and the device leaves its organization or pairs with another.   *)
(* At exit the loop does not wait for a request that is under way.  What a *)
(* poll reports back about the lease last applied is left out: nothing     *)
(* here depends on it.                                                     *)
(***************************************************************************)
EXTENDS Integers, ManagedLease

CONSTANTS Keys,        \* client keys
          Orgs,        \* organizations the operator may allow
          Policies,    \* organizations a lease may be for
          Tokens,      \* refresh tokens
          None,        \* no organization, no token
          Ttls,        \* lease lifetimes, capped to LEASE_MAX by ParseLease
          LeaseMax,    \* DIRECTGATE_KEYMGR_LEASE_MAX_MS
          MaxTime,     \* bound on the clock
          MaxChanges   \* bound on the changes of the configuration

ASSUME KeyManagerAssumption ==
    /\ None \notin Orgs /\ None \notin Policies /\ None \notin Tokens
    /\ LeaseMax \in Nat /\ Ttls \subseteq 1 .. LeaseMax
    /\ MaxTime \in Nat /\ MaxChanges \in Nat

VARIABLES
    now,       \* XTime_GetMonoMs
    cfg,       \* what the configuration asks for: organization and token
    changes,   \* how often the configuration changed
    main,      \* the owner: "run", "stopping" (in StopWorker) or "ended"
    org,       \* sOrganizationId: whose lease it is
    lease,     \* the installed lease
    allowed,   \* bWorkerAllowed
    (* the shared context *)
    inputs,    \* sRefreshToken and sOrganizationId
    version,   \* nInputVersion
    result,    \* eResult, nResultVersion and the lease fetched
    wake, stop, done, orphaned,
    frees,     \* history: how often the context was freed
    (* the worker *)
    thread,    \* where it is
    idle,      \* its wait ends only by a wake
    fetch,     \* its copy of nInputVersion
    (* history *)
    era,       \* how often the organization changed under the lease
    leaseEra,  \* the era in which the installed lease was asked for
    answered   \* an answer to the current inputs was taken over

config  == <<cfg, changes>>
owner   == <<org, lease, allowed, leaseEra, era, answered>>
context == <<inputs, version, result, wake>>
ending  == <<stop, done, orphaned, frees>>
worker  == <<thread, idle, fetch>>
vars == <<now, config, main, owner, context, ending, worker>>

-----------------------------------------------------------------------------
Nothing == [org |-> None, token |-> None]
Configs == [org : Orgs \cup {None}, token : Tokens \cup {None}]

(* What the worker is to poll for: nothing outside an organization that    *)
(* the operator allowed, or without an enrollment.                         *)
Wanted == cfg.org # None /\ cfg.token # None
Asked == IF Wanted THEN cfg ELSE Nothing

(* An answer: a lease for the organization policy, which a clock that runs *)
(* ahead may make out to be over (ttl 0); a refusal of the API; or         *)
(* anything else, a failed request or a reply that is not a lease.         *)
NoResult == [kind |-> "none"]
NoFetch == [version |-> 0, era |-> 0]
Answers(v, e) ==
    [kind : {"lease"}, policy : Policies, keys : SUBSET Keys, ttl : {0} \cup Ttls,
     version : {v}, era : {e}, at : {now}]
    \cup [kind : {"denied", "transient"}, version : {v}, era : {e}, at : {now}]

-----------------------------------------------------------------------------
(* The event loop.                                                         *)

(* DirectGate_KeyManager_Sync before it looks at the worker: a lease of    *)
(* another organization is dropped, and so is one that has run out.        *)
Kept ==
    IF org # cfg.org \/ (lease.until > 0 /\ now >= lease.until)
    THEN Clear(lease) ELSE lease

(* Mutant: an answer is taken whatever it was asked with. *)
CurrentAlways(r, v) == r # NoResult

(* The answer was asked with the inputs that are asked for now.            *)
Current(r, v) == r # NoResult /\ r.version = v

Installs(r) ==
    r.kind = "lease" /\ r.policy = cfg.org /\ r.ttl > 0

(* DirectGate_KeyManager_HandleResult: what the lease l may become.        *)
Handled(l, r) ==
    IF Installs(r) THEN Install(l, r.keys, now + r.ttl)
    ELSE IF \/ r.kind = "lease" /\ r.policy = cfg.org
            \/ r.kind = "denied" /\ (l.until > 0 \/ l.keys # {})
         THEN {Clear(l)}
         ELSE {l}

(* The lease is the loop's own, so all of a Sync is one step.              *)
SyncLease ==
    /\ main = "run"
    /\ org' = cfg.org
    /\ era' = IF org # cfg.org THEN era + 1 ELSE era
    /\ UNCHANGED <<now, config, main, ending>>

SyncAlone ==
    /\ SyncLease
    /\ thread = "none"
    /\ ~Wanted \/ ~allowed
    /\ lease' = Kept
    /\ UNCHANGED <<allowed, leaseEra, answered, context, worker>>

(* The thread cannot be created: there is no second try.                   *)
SyncStartFails ==
    /\ SyncLease
    /\ thread = "none" /\ Wanted /\ allowed
    /\ lease' = Kept
    /\ allowed' = FALSE
    /\ UNCHANGED <<leaseEra, answered, context, worker>>

(* The thread may poll once in vain before its first inputs are set.       *)
SyncStarts ==
    /\ SyncLease
    /\ thread = "none" /\ Wanted /\ allowed
    /\ lease' = Kept
    /\ inputs' = Asked /\ version' = 1 /\ wake' = TRUE
    /\ thread' = "wait" /\ idle' \in BOOLEAN
    /\ UNCHANGED <<allowed, leaseEra, answered, result, fetch>>

SyncWorker ==
    /\ SyncLease
    /\ thread # "none"
    /\ inputs' = Asked
    /\ version' = IF inputs # Asked THEN version + 1 ELSE version
    /\ wake' = (wake \/ inputs # Asked)
    /\ result' = NoResult
    /\ IF Current(result, version')
       THEN /\ lease' \in Handled(Kept, result)
            /\ leaseEra' = IF Installs(result) THEN result.era ELSE leaseEra
            /\ answered' = TRUE
       ELSE /\ lease' = Kept
            /\ answered' = (answered /\ inputs = Asked)
            /\ UNCHANGED leaseEra
    /\ UNCHANGED <<allowed, worker>>

Sync == SyncAlone \/ SyncStartFails \/ SyncStarts \/ SyncWorker

(* Enrollment, token refresh, revocation and the operator's setting.       *)
Reconfigure ==
    /\ main = "run" /\ changes < MaxChanges
    /\ cfg' \in Configs \ {cfg}
    /\ changes' = changes + 1
    /\ UNCHANGED <<now, main, owner, context, ending, worker>>

(* DirectGate_KeyManager_Destroy asks a worker to stop and waits for it ... *)
Destroy ==
    /\ main = "run"
    /\ IF thread = "none"
       THEN main' = "ended" /\ lease' = Clear(lease) /\ UNCHANGED stop
       ELSE main' = "stopping" /\ stop' = TRUE /\ UNCHANGED lease
    /\ allowed' = FALSE
    /\ UNCHANGED <<now, config, org, leaseEra, era, answered, context,
                   done, orphaned, frees, worker>>

(* Mutant: the context is freed without a look at the worker. *)
StopWorkerAnyway ==
    /\ main = "stopping"
    /\ frees' = frees + 1
    /\ main' = "ended"
    /\ lease' = Clear(lease)
    /\ UNCHANGED <<now, config, org, allowed, leaseEra, era, answered,
                   context, stop, done, orphaned, worker>>

(* ... until it is done or the wait is over, and decides under the lock    *)
(* which side frees the context.                                           *)
StopWorker ==
    /\ main = "stopping"
    /\ IF done THEN frees' = frees + 1 /\ UNCHANGED orphaned
       ELSE orphaned' = TRUE /\ UNCHANGED frees
    /\ main' = "ended"
    /\ lease' = Clear(lease)
    /\ UNCHANGED <<now, config, org, allowed, leaseEra, era, answered,
                   context, stop, done, worker>>

-----------------------------------------------------------------------------
(* The worker.                                                             *)

(* WorkerWait: a slice of the wait ends it.                                *)
WaitOver ==
    /\ thread = "wait"
    /\ IF stop THEN thread' = "leaving"
       ELSE (wake \/ ~idle) /\ thread' = "poll"
    /\ UNCHANGED <<now, config, main, owner, context, ending, idle, fetch>>

(* WorkerPoll: the inputs are copied, the wake is answered.                *)
Poll ==
    /\ thread = "poll"
    /\ wake' = FALSE
    /\ IF inputs = Nothing
       THEN thread' = "wait" /\ idle' = TRUE /\ UNCHANGED fetch
       ELSE thread' = "fetch" /\ fetch' = [version |-> version, era |-> era]
            /\ UNCHANGED idle
    /\ UNCHANGED <<now, config, main, owner, inputs, version, result, ending>>

(* Mutant: the wake is answered when the request is over. *)
AnswerClearsWake ==
    /\ thread = "fetch"
    /\ result' \in Answers(fetch.version, fetch.era)
    /\ idle' \in {FALSE} \cup {result'.kind = "denied"}
    /\ thread' = "wait" /\ fetch' = NoFetch
    /\ wake' = FALSE
    /\ UNCHANGED <<now, config, main, owner, inputs, version, ending>>

(* The request is over, or was not made: an API that may not be asked is   *)
(* as good as a refusal, and asked again only for other inputs.            *)
Answer ==
    /\ thread = "fetch"
    /\ result' \in Answers(fetch.version, fetch.era)
    /\ idle' \in {FALSE} \cup {result'.kind = "denied"}
    /\ thread' = "wait" /\ fetch' = NoFetch
    /\ UNCHANGED <<now, config, main, owner, inputs, version, wake, ending>>

(* The worker's last critical section, and what it found there.            *)
Finish ==
    /\ thread = "leaving"
    /\ done' = TRUE
    /\ thread' = IF orphaned THEN "freeing" ELSE "gone"
    /\ UNCHANGED <<now, config, main, owner, context, stop, orphaned, frees,
                   idle, fetch>>

Free ==
    /\ thread = "freeing"
    /\ frees' = frees + 1
    /\ thread' = "gone"
    /\ UNCHANGED <<now, config, main, owner, context, stop, done, orphaned,
                   idle, fetch>>

Tick ==
    /\ now < MaxTime
    /\ now' = now + 1
    /\ UNCHANGED <<config, main, owner, context, ending, worker>>

-----------------------------------------------------------------------------
Init ==
    /\ now = 1
    /\ cfg \in Configs /\ changes = 0
    /\ main = "run"
    /\ org = None
    /\ lease = InitialLease
    /\ allowed = TRUE
    /\ inputs = Nothing /\ version = 0 /\ result = NoResult
    /\ wake = FALSE /\ stop = FALSE /\ done = FALSE /\ orphaned = FALSE
    /\ frees = 0
    /\ thread = "none" /\ idle = FALSE /\ fetch = NoFetch
    /\ era = 0 /\ leaseEra = 0 /\ answered = FALSE

Worker == WaitOver \/ Poll \/ Answer \/ Finish \/ Free

Next ==
    \/ Sync
    \/ Reconfigure
    \/ Destroy
    \/ StopWorker
    \/ Worker
    \/ Tick

Spec == Init /\ [][Next]_vars

(* The loop turns, the worker gets its slices, and a request ends: the     *)
(* HTTP client times out.                                                  *)
FairSpec == Spec /\ WF_vars(Sync) /\ WF_vars(StopWorker) /\ WF_vars(Worker)

-----------------------------------------------------------------------------
(* Properties.                                                             *)

Threads == {"none", "wait", "poll", "fetch", "leaving", "freeing", "gone"}

Results ==
    {NoResult}
    \cup [kind : {"lease"}, policy : Policies, keys : SUBSET Keys,
          ttl : {0} \cup Ttls, version : Nat, era : Nat, at : Nat]
    \cup [kind : {"denied", "transient"}, version : Nat, era : Nat, at : Nat]

(* The two threads are where the code can be.                              *)
TypeOK ==
    /\ now \in Nat /\ cfg \in Configs /\ changes \in 0 .. MaxChanges
    /\ main \in {"run", "stopping", "ended"}
    /\ org \in Orgs \cup {None}
    /\ lease \in Leases(Keys)
    /\ allowed \in BOOLEAN
    /\ inputs \in Configs /\ version \in Nat /\ result \in Results
    /\ wake \in BOOLEAN /\ stop \in BOOLEAN /\ done \in BOOLEAN
    /\ orphaned \in BOOLEAN /\ frees \in Nat
    /\ thread \in Threads /\ idle \in BOOLEAN
    /\ fetch \in [version : Nat, era : Nat]
    /\ era \in Nat /\ leaseEra \in Nat /\ answered \in BOOLEAN

(* The installed lease was asked for in the enrollment the device is in    *)
(* now.  An answer to an earlier one never arrives in its place, not even  *)
(* when the device left the organization and joined it again while the     *)
(* request was under way.                                                  *)
LeaseIsCurrent == lease.until > 0 => leaseEra = era

(* The context is freed once, by the side that touches it last.            *)
FreedByTheLast ==
    /\ frees <= 1
    /\ frees = 1 => main = "ended" /\ thread = "gone"

(* What a Sync makes of the lease is what AgentSessions assumes of one:    *)
(* the generation moves whenever the set of keys does or was dropped.      *)
SyncsAsAssumed ==
    [][Sync => lease' \in Synced(lease, now, Keys, Ttls)]_vars

(* Whatever the inputs are changed to, and whenever: as long as the agent  *)
(* runs and they stay, the event loop gets an answer to them.  The wake is *)
(* not lost between the worker's copy and its wait.                        *)
InputsAreAnswered ==
    \A v \in 1 .. MaxChanges + 1 :
        (main = "run" /\ thread # "none" /\ version = v /\ inputs # Nothing)
            ~> (answered \/ version # v \/ main # "run")

(* Whichever side it falls to, the context is freed in the end.            *)
ContextIsFreed == (main = "stopping") ~> (frees = 1)

=============================================================================
