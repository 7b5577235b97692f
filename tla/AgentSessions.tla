---------------------------- MODULE AgentSessions ----------------------------
(***************************************************************************)
(* The agent's table of logical sessions: how a client that the relay      *)
(* announces by a number is admitted, authenticates with the device        *)
(* password, a client key or a temporary desktop share, what the session   *)
(* may then do, and what ends it (session.c; DirectGate_HandleAuth, _Cmd,  *)
(* _Admin, _Status and CheckAuthTimeouts of directgate.c).                 *)
(*                                                                         *)
(* Everything here runs on the agent's event loop, one handler at a time.  *)
(* What interleaves are the clients: several handshakes are open at once,  *)
(* while shares are provisioned, used up, revoked and provisioned again,   *)
(* the key lease changes, time passes and the relay connection is lost.    *)
(* Cryptography is abstracted to whether a proof is right.                 *)
(***************************************************************************)
EXTENDS Integers, FiniteSets, ManagedLease

CONSTANTS
    Sids,              \* session numbers the relay hands out
    ShareIds,          \* ids of temporary desktop shares
    Keys,              \* client keys
    None,              \* no share id, no key
    MaxSessions,       \* DIRECTGATE_MAX_SESSIONS
    MaxShares,         \* DIRECTGATE_MAX_TEMPORARY_DESKTOP_SHARES
    MaxLocalKeys,      \* DIRECTGATE_MAX_AUTHORIZED_KEYS
    AuthTimeout,       \* DIRECTGATE_AUTH_TIMEOUT_MS
    AuthMaxMessages,   \* DIRECTGATE_AUTH_MAX_MESSAGES
    RateWindow,        \* DIRECTGATE_AUTH_RATE_WINDOW_MS
    RateMax,           \* DIRECTGATE_AUTH_RATE_MAX_ATTEMPTS
    FailureGrace,      \* DIRECTGATE_AUTH_FAILURE_GRACE
    LockoutBase,       \* DIRECTGATE_AUTH_LOCKOUT_BASE_MS
    LockoutMax,        \* DIRECTGATE_AUTH_LOCKOUT_MAX_MS
    ShareMaxFailures,  \* DIRECTGATE_TEMPORARY_DESKTOP_SHARE_MAX_FAILURES
    ShareTtls,         \* lifetimes a share may be provisioned with
    LeaseTtls,         \* lifetimes of a key lease
    PreLogon,          \* g_bPreLogon: nobody is logged on at this host
    MaxTime,           \* bound on the clock
    MaxProvisions      \* bound on the shares provisioned in a behaviour

ASSUME SessionsAssumption ==
    /\ None \notin ShareIds /\ None \notin Keys
    /\ MaxSessions \in Nat \ {0} /\ MaxShares \in Nat /\ MaxLocalKeys \in Nat
    /\ AuthTimeout \in Nat \ {0} /\ AuthMaxMessages \in Nat \ {0}
    /\ RateWindow \in Nat \ {0} /\ RateMax \in Nat \ {0}
    /\ FailureGrace \in Nat
    /\ LockoutBase \in Nat \ {0} /\ LockoutMax \in Nat
    /\ LockoutBase <= LockoutMax
    /\ ShareMaxFailures \in Nat \ {0}
    /\ ShareTtls \subseteq Nat \ {0} /\ LeaseTtls \subseteq Nat \ {0}
    /\ PreLogon \in BOOLEAN
    /\ MaxTime \in Nat \ {0} /\ MaxProvisions \in Nat

VARIABLES
    now,          \* XTime_GetMonoMs
    session,      \* pSessions, by session number
    windowStart,  \* nAuthWindowStartMs; 0: no window yet
    attempts,     \* nAuthAttempts
    failures,     \* nAuthFailures
    lockedUntil,  \* nAuthLockoutUntilMs
    share,        \* temporaryDesktopShares, by share id
    lease,        \* the installed lease of managed keys
    localKeys,    \* authorizedKeys of the configuration
    provisions,   \* history: how many shares were provisioned so far
    redeemed,     \* history: sessions authenticated per consumed share
    proofs,       \* history: sessions authenticated per share secret
    revoked,      \* history: ids revoked and not provisioned again since
    streak        \* history: when the current run of failed proofs began

limits  == <<windowStart, attempts>>
lockout == <<failures, lockedUntil, streak>>
sharing == <<share, provisions, redeemed, proofs, revoked>>
vars == <<now, session, windowStart, attempts, failures, lockedUntil, share,
          lease, localKeys, provisions, redeemed, proofs, revoked, streak>>

-----------------------------------------------------------------------------
(* Sessions.  "preauth" is a session whose handshake runs; "full",         *)
(* "managed" and "share" are authenticated ones, by password or local key, *)
(* by a key of the lease, and by a temporary share.                        *)

Modes == {"none", "terminal", "file-manager", "desktop"}
Roles == {"full", "managed", "share"}
Provisions == 1 .. MaxProvisions
Times == 0 .. MaxTime

Absent == [stage |-> "absent"]

(* verifier: the secret the SRP state was loaded with; 0 is the password,  *)
(* n the secret of the nth provisioned share.  hello: SRP has a challenge  *)
(* out.  challenge: the key a key-auth challenge is out for.               *)
PreAuth == [stage : {"preauth"}, created : Times,
            msgs : 0 .. AuthMaxMessages,
            challenge : Keys \cup {None}, viaLease : BOOLEAN,
            verifier : {0} \cup Provisions, hello : BOOLEAN,
            shareId : ShareIds \cup {None}]

Authenticated == [stage : Roles, mode : Modes, shareId : ShareIds \cup {None},
                  expires : Nat, key : Keys \cup {None}, gen : Generations]

Sessions == {Absent} \cup PreAuth \cup Authenticated

NewSession == [stage |-> "preauth", created |-> now, msgs |-> 0,
               challenge |-> None, viaLease |-> FALSE,
               verifier |-> 0, hello |-> FALSE, shareId |-> None]

Granted(role, id, expires, key, gen) ==
    [stage |-> role, mode |-> "none", shareId |-> id, expires |-> expires,
     key |-> key, gen |-> gen]

Handshaking(s) == session[s].stage = "preauth"
Open(s) == session[s].stage \in Roles
Live == {s \in Sids : session[s] # Absent}

(* DirectGate_Session_Close and _Remove: the slot is free again.           *)
Close(s) == session' = [session EXCEPT ![s] = Absent]

-----------------------------------------------------------------------------
(* Admission: DirectGate_SessionMgr_GetOrCreate.                           *)

Locked == now < lockedUntil

WindowOver == windowStart = 0 \/ now - windowStart >= RateWindow

Attempts == IF WindowOver THEN 0 ELSE attempts

(* Mutant: the lockout is not asked. *)
CountAttemptAnyway ==
    /\ Attempts < RateMax
    /\ windowStart' = IF WindowOver THEN now ELSE windowStart
    /\ attempts' = Attempts + 1

CountAttempt ==
    /\ ~Locked
    /\ Attempts < RateMax
    /\ windowStart' = IF WindowOver THEN now ELSE windowStart
    /\ attempts' = Attempts + 1

(* An auth message finds its session or creates it ...                     *)
Admitted(s) ==
    \/ Handshaking(s) /\ UNCHANGED limits
    \/ /\ session[s] = Absent
       /\ CountAttempt
       /\ Cardinality(Live) < MaxSessions

Found(s) == IF session[s] = Absent THEN NewSession ELSE session[s]

(* ... or is counted and refused: no free slot, or no memory for it.       *)
CreateFails(s) ==
    /\ session[s] = Absent
    /\ CountAttempt
    /\ UNCHANGED <<now, session, lockout, sharing, lease, localKeys>>

(* ConsumeAuthMessage: the session p as the handlers below see it.         *)
MayConsume(s) == Admitted(s) /\ Found(s).msgs < AuthMaxMessages
Consumed(s) == [Found(s) EXCEPT !.msgs = @ + 1]

AuthLimit(s) ==
    /\ Handshaking(s) /\ session[s].msgs >= AuthMaxMessages
    /\ Close(s)
    /\ UNCHANGED <<now, limits, lockout, sharing, lease, localKeys>>

(* NoteAuthFailure: past the grace every failed proof doubles the time in  *)
(* which no session is created.                                            *)
Delay(n) ==
    IF n < 32 /\ LockoutBase * 2^n <= LockoutMax THEN LockoutBase * 2^n
    ELSE LockoutMax

NoteAuthFailure ==
    /\ failures' = failures + 1
    /\ lockedUntil' = IF failures + 1 <= FailureGrace THEN lockedUntil
                      ELSE now + Delay(failures - FailureGrace)
    /\ streak' = IF failures = 0 THEN now ELSE streak

NoteAuthSuccess == failures' = 0 /\ lockedUntil' = 0 /\ streak' = 0

-----------------------------------------------------------------------------
(* Temporary desktop shares.                                               *)

Empty == [used |-> TRUE]
Entries == {e \in [prov : Provisions, expires : Nat, used : BOOLEAN,
                   failures : 0 .. ShareMaxFailures] :
              e.used \/ e.failures < ShareMaxFailures}
Shares == {Empty} \cup Entries

(* The entry e after its share was redeemed, or after a wrong proof for it. *)
UsedUp(e) == [e EXCEPT !.used = TRUE]
Failed(e) == [prov |-> e.prov, expires |-> e.expires,
              used |-> e.failures + 1 >= ShareMaxFailures,
              failures |-> e.failures + 1]

(* TemporaryDesktopShares_Cleanup *)
Cleaned == [id \in ShareIds |->
              IF share[id].used \/ now >= share[id].expires THEN Empty
              ELSE share[id]]

(* TemporaryDesktopShare_Find, which cleans the table first.               *)
Usable(id) == Cleaned[id] # Empty

Occupied(table) == {id \in ShareIds : table[id] # Empty}

-----------------------------------------------------------------------------
(* DirectGate_HandleAuth.                                                  *)

(* An SRP hello against the password.  ready: whether it leaves a challenge *)
(* out; a malformed one leaves an earlier challenge in place.              *)
SrpHello(s) ==
    /\ MayConsume(s)
    /\ \E ready \in BOOLEAN :
         session' = [session EXCEPT ![s] = [Consumed(s) EXCEPT !.hello = ready]]
    /\ UNCHANGED <<now, lockout, sharing, lease, localKeys>>

(* An SRP hello for a share: the session is closed when there is no such   *)
(* share, and otherwise goes on with the secret of the share.              *)
ShareHello(s, id) ==
    /\ MayConsume(s)
    /\ share' = Cleaned
    /\ \/ Close(s)
       \/ /\ Usable(id)
          /\ \E ready \in BOOLEAN :
               session' = [session EXCEPT
                 ![s] = [Consumed(s) EXCEPT !.verifier = share[id].prov,
                                            !.shareId = id,
                                            !.hello = ready]]
    /\ UNCHANGED <<now, lockout, lease, localKeys,
                   provisions, redeemed, proofs, revoked>>

(* A key-auth hello.  While a challenge is out it is ignored; a local key  *)
(* wins over the lease; a refusal leaves the session for another method.   *)
KeyHello(s, k) ==
    /\ MayConsume(s)
    /\ \/ session' = [session EXCEPT ![s] = Consumed(s)]
       \/ /\ Found(s).challenge = None
          /\ k \in localKeys \/ IsAuthorized(lease, k, now)
          /\ session' = [session EXCEPT
               ![s] = [Consumed(s) EXCEPT !.challenge = k,
                                          !.viaLease = k \notin localKeys]]
    /\ UNCHANGED <<now, lockout, sharing, lease, localKeys>>

(* Any proof while a key challenge is out is judged as a key proof.        *)
KeyProofWrong(s) ==
    /\ MayConsume(s) /\ Found(s).challenge # None
    /\ NoteAuthFailure
    /\ Close(s)
    /\ UNCHANGED <<now, sharing, lease, localKeys>>

(* The lease is asked again before a managed key gets its session.         *)
KeyProofRight(s) ==
    /\ MayConsume(s) /\ Found(s).challenge # None
    /\ LET p == Found(s) IN
         /\ p.viaLease => IsAuthorized(lease, p.challenge, now)
         /\ session' = [session EXCEPT
              ![s] = Granted(IF p.viaLease THEN "managed" ELSE "full",
                             None, 0, p.challenge, lease.gen)]
    /\ NoteAuthSuccess
    /\ UNCHANGED <<now, sharing, lease, localKeys>>

(* The share an SRP proof is pending for must still be there.              *)
Pending(s) == Found(s).shareId
PendingUsable(s) == Pending(s) # None => Usable(Pending(s))
Table(s) == IF Pending(s) = None THEN share ELSE Cleaned

SrpProofWrong(s) ==
    /\ MayConsume(s) /\ Found(s).challenge = None
    /\ PendingUsable(s)
    /\ share' = [id \in ShareIds |->
                   IF id = Pending(s) THEN Failed(share[id]) ELSE Table(s)[id]]
    /\ NoteAuthFailure
    /\ Close(s)
    /\ UNCHANGED <<now, lease, localKeys, provisions, redeemed, proofs, revoked>>

(* Mutant: the share stays usable. *)
ConsumeLater(s) == share' = Table(s)

(* The share is used up before the success is acknowledged.                *)
Consume(s) ==
    share' = [id \in ShareIds |->
                IF id = Pending(s) THEN UsedUp(share[id]) ELSE Table(s)[id]]

SrpProofRight(s) ==
    /\ MayConsume(s) /\ Found(s).challenge = None
    /\ Found(s).hello
    /\ PendingUsable(s)
    /\ Consume(s)
    /\ session' = [session EXCEPT
         ![s] = IF Pending(s) = None THEN Granted("full", None, 0, None, 0)
                ELSE Granted("share", Pending(s), share[Pending(s)].expires,
                             None, 0)]
    /\ redeemed' = [n \in Provisions |->
                      IF Pending(s) # None /\ n = share[Pending(s)].prov
                      THEN redeemed[n] + 1 ELSE redeemed[n]]
    /\ proofs' = [n \in Provisions |->
                    IF n = Found(s).verifier THEN proofs[n] + 1 ELSE proofs[n]]
    /\ NoteAuthSuccess
    /\ UNCHANGED <<now, lease, localKeys, provisions, revoked>>

(* The proof was right, but its acknowledgement could not be sent.         *)
SrpAckFails(s) ==
    /\ MayConsume(s) /\ Found(s).challenge = None
    /\ Found(s).hello
    /\ PendingUsable(s)
    /\ Consume(s)
    /\ Close(s)
    /\ UNCHANGED <<now, lockout, lease, localKeys, provisions, redeemed,
                   proofs, revoked>>

(* Everything else closes the session uncounted: an unknown action, a      *)
(* proof without its field, a proof for a share that is gone, a managed    *)
(* key that left the lease, a key hello that names a share.                *)
AuthRejected(s) ==
    /\ MayConsume(s)
    /\ share' \in {share, Table(s)}
    /\ Close(s)
    /\ UNCHANGED <<now, lockout, lease, localKeys, provisions, redeemed,
                   proofs, revoked>>

-----------------------------------------------------------------------------
(* Authenticated sessions.                                                 *)

(* cmd "start": what a share and a pre-logon host allow is decided in      *)
(* DirectGate_Session_StartMode, for every way into a mode.                *)
Allowed(s, m) == PreLogon \/ session[s].stage = "share" => m = "desktop"

Start(s, m) ==
    /\ Open(s)
    /\ session[s].mode = "none"
    /\ Allowed(s, m)
    /\ session' = [session EXCEPT ![s].mode = m]
    /\ UNCHANGED <<now, limits, lockout, sharing, lease, localKeys>>

(* cmd "stop": a desktop closes its session at once, a terminal when its   *)
(* PTY endpoint goes; a file manager is only left.                         *)
Stop(s) ==
    /\ Open(s)
    /\ IF session[s].mode = "file-manager"
       THEN session' = [session EXCEPT ![s].mode = "none"]
       ELSE session[s].mode # "none" /\ Close(s)
    /\ UNCHANGED <<now, limits, lockout, sharing, lease, localKeys>>

(* The client left, the shell or the desktop ended, an endpoint failed, or *)
(* a share session sent a package it may not send; before authentication,  *)
(* any package but auth that needs a mode.                                 *)
SessionEnds(s) ==
    /\ Open(s) \/ Handshaking(s)
    /\ Close(s)
    /\ UNCHANGED <<now, limits, lockout, sharing, lease, localKeys>>

(* admin "desktop-share-provision": an id that is in the table is replaced. *)
Provision(s, id, ttl) ==
    /\ session[s].stage = "full" /\ session[s].mode = "desktop"
    /\ provisions < MaxProvisions
    /\ IF id \in Occupied(Cleaned) \/ Cardinality(Occupied(Cleaned)) < MaxShares
       THEN /\ share' = [Cleaned EXCEPT ![id] =
                           [prov |-> provisions + 1, expires |-> now + ttl,
                            used |-> FALSE, failures |-> 0]]
            /\ provisions' = provisions + 1
            /\ revoked' = revoked \ {id}
       ELSE share' = Cleaned /\ UNCHANGED <<provisions, revoked>>
    /\ UNCHANGED <<now, session, limits, lockout, lease, localKeys,
                   redeemed, proofs>>

(* Mutant: the sessions of a revoked share go on. *)
RevokeEntry(s, id) ==
    /\ session[s].stage = "full"
    /\ share' = [share EXCEPT ![id] = Empty]
    /\ revoked' = revoked \cup {id}
    /\ UNCHANGED <<now, session, limits, lockout, lease, localKeys,
                   provisions, redeemed, proofs>>

(* admin "desktop-share-revoke": the entry and its sessions go.            *)
Revoke(s, id) ==
    /\ session[s].stage = "full"
    /\ share' = [share EXCEPT ![id] = Empty]
    /\ session' = [t \in Sids |->
                     IF session[t].stage = "share" /\ session[t].shareId = id
                     THEN Absent ELSE session[t]]
    /\ revoked' = revoked \cup {id}
    /\ UNCHANGED <<now, limits, lockout, lease, localKeys,
                   provisions, redeemed, proofs>>

(* admin "add-key": kept in memory even when the config cannot be saved.   *)
AddKey(s, k) ==
    /\ session[s].stage = "full"
    /\ Cardinality(localKeys) < MaxLocalKeys
    /\ localKeys' = localKeys \cup {k}
    /\ UNCHANGED <<now, session, limits, lockout, sharing, lease>>

-----------------------------------------------------------------------------
(* The relay connection closed: every session ends, the rest survives.     *)
RelayLost ==
    /\ session' = [s \in Sids |-> Absent]
    /\ UNCHANGED <<now, limits, lockout, sharing, lease, localKeys>>

(* Mutant: a handshake may take for ever. *)
EndingAuthenticated(p, l) ==
    \/ p.stage = "share" /\ now >= p.expires
    \/ p.stage = "managed" /\ ~Recheck(l, p.key, p.gen, now)

Ending(p, l) ==
    \/ p.stage = "preauth" /\ now - p.created >= AuthTimeout
    \/ p.stage = "share" /\ now >= p.expires
    \/ p.stage = "managed" /\ ~Recheck(l, p.key, p.gen, now)

(* One housekeeping pass, run on every turn of the event loop.             *)
CheckAuthTimeouts ==
    /\ UNCHANGED <<now, limits, lockout, localKeys,
                   provisions, redeemed, proofs, revoked>>
    /\ lease' \in Synced(lease, now, Keys, LeaseTtls)
    /\ share' = Cleaned
    /\ session' = [s \in Sids |->
                     IF Ending(session[s], lease') THEN Absent
                     ELSE IF session[s].stage = "managed"
                          THEN [session[s] EXCEPT !.gen = lease'.gen]
                          ELSE session[s]]

Tick ==
    /\ now < MaxTime
    /\ now' = now + 1
    /\ UNCHANGED <<session, limits, lockout, sharing, lease, localKeys>>

-----------------------------------------------------------------------------
Init ==
    /\ now = 1
    /\ session = [s \in Sids |-> Absent]
    /\ windowStart = 0 /\ attempts = 0
    /\ failures = 0 /\ lockedUntil = 0 /\ streak = 0
    /\ share = [id \in ShareIds |-> Empty]
    /\ lease = InitialLease
    /\ localKeys = {}
    /\ provisions = 0
    /\ redeemed = [n \in Provisions |-> 0]
    /\ proofs = [n \in Provisions |-> 0]
    /\ revoked = {}

Auth(s) ==
    \/ CreateFails(s)
    \/ AuthLimit(s)
    \/ SrpHello(s)
    \/ \E id \in ShareIds : ShareHello(s, id)
    \/ \E k \in Keys : KeyHello(s, k)
    \/ KeyProofWrong(s)
    \/ KeyProofRight(s)
    \/ SrpProofWrong(s)
    \/ SrpProofRight(s)
    \/ SrpAckFails(s)
    \/ AuthRejected(s)

Use(s) ==
    \/ \E m \in Modes \ {"none"} : Start(s, m)
    \/ Stop(s)
    \/ SessionEnds(s)
    \/ \E id \in ShareIds, ttl \in ShareTtls : Provision(s, id, ttl)
    \/ \E id \in ShareIds : Revoke(s, id)
    \/ \E k \in Keys : AddKey(s, k)

Next ==
    \/ \E s \in Sids : Auth(s) \/ Use(s)
    \/ CheckAuthTimeouts
    \/ RelayLost
    \/ Tick

Spec == Init /\ [][Next]_vars

(* The event loop turns and the clock runs whatever the clients do.        *)
FairSpec == Spec /\ WF_vars(CheckAuthTimeouts) /\ WF_vars(Tick)

-----------------------------------------------------------------------------
(* Properties.                                                             *)

(* Every session is in a stage of its own, and the table is never overfull. *)
TypeOK ==
    /\ now \in Times \ {0}
    /\ session \in [Sids -> Sessions]
    /\ windowStart \in Times /\ attempts \in 0 .. RateMax
    /\ failures \in Nat /\ lockedUntil \in Int /\ streak \in Times
    /\ share \in [ShareIds -> Shares]
    /\ lease \in Leases(Keys)
    /\ localKeys \in SUBSET Keys
    /\ provisions \in 0 .. MaxProvisions
    /\ redeemed \in [Provisions -> Nat]
    /\ proofs \in [Provisions -> Nat]
    /\ revoked \in SUBSET ShareIds

(* A provisioned share lets one session in at most, however many           *)
(* handshakes for it are open at once, and however often the id is         *)
(* provisioned again in between (SrpProofRight, Provision).                *)
ShareUsedOnce == \A n \in Provisions : redeemed[n] <= 1

(* directgate.c, where a share proof succeeds: "Even if the transport dies *)
(* immediately afterwards, this credential cannot replay."  The secret of  *)
(* a share lets one session in at most.                                    *)
SecretUsedOnce == \A n \in Provisions : proofs[n] <= 1

(* From a revocation until the id is provisioned again there is neither a  *)
(* session of that share nor an entry a pending handshake could complete   *)
(* against.                                                                *)
RevokedIsGone ==
    \A id \in revoked :
        /\ share[id] = Empty
        /\ \A s \in Sids : session[s].stage = "share" => session[s].shareId # id

(* A share session never is in another mode than desktop, and on a         *)
(* pre-logon host no session is, whatever the order of start, stop and     *)
(* authentication.                                                         *)
ModesAllowed ==
    \A s \in Sids :
        Open(s) /\ (PreLogon \/ session[s].stage = "share") =>
            session[s].mode \in {"none", "desktop"}

(* A session that remembers the current lease generation has its key in    *)
(* the current lease: skipping the search in Recheck never keeps a session *)
(* whose key was dropped, even when the generation wraps.                  *)
GenerationIsTrue ==
    \A s \in Sids : session[s].stage = "managed" /\ session[s].gen = lease.gen
        => session[s].key \in lease.keys

(* A housekeeping pass leaves no session behind whose time is over: no     *)
(* stale handshake, no share session past its expiry, no managed session   *)
(* whose key is not in a lease that is in force.                           *)
PassIsComplete ==
    [][CheckAuthTimeouts =>
         \A s \in Sids :
            /\ session'[s].stage = "preauth" => now - session'[s].created < AuthTimeout
            /\ session'[s].stage = "share" => now < session'[s].expires
            /\ session'[s].stage = "managed" =>
                  IsAuthorized(lease', session'[s].key, now)]_vars

(* Guessing is slowed down: the failures past the grace are at most those  *)
(* of handshakes that were already open when the throttle set in, until at *)
(* least the first lockout has run out.                                    *)
GuessingIsThrottled ==
    failures > FailureGrace + MaxSessions => now >= streak + LockoutBase

(* A lockout comes from failures past the grace, and never lasts longer    *)
(* than the longest one.                                                   *)
LockoutIsBounded ==
    Locked => failures > FailureGrace /\ lockedUntil - now <= LockoutMax

(* No handshake lingers: a slot taken without authenticating is free again *)
(* after the timeout (within the bound of the clock).                      *)
HandshakesEnd ==
    \A s \in Sids :
        (session[s].stage = "preauth" /\ session[s].created + AuthTimeout <= MaxTime)
            ~> (session[s].stage # "preauth")

(* No share session survives its expiry for good.                          *)
SharesEnd ==
    \A s \in Sids :
        (session[s].stage = "share" /\ session[s].expires <= MaxTime)
            ~> (session[s].stage # "share")

=============================================================================
