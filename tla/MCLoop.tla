-------------------------------- MODULE MCLoop --------------------------------
(***************************************************************************)
(* What the turns of the event loop bring to an end: the lease of managed    *)
(* keys while its owner is synced, and handshakes and share sessions on the   *)
(* clock.  A behaviour is about one of them.                                  *)
(***************************************************************************)
EXTENDS KeyManager

CONSTANTS
    Sids, ShareIds, MaxSessions, MaxShares, MaxLocalKeys, AuthTimeout, AuthMaxMessages,
    RateWindow, RateMax, FailureGrace, LockoutBase, LockoutMax, ShareMaxFailures,
    ShareTtls, LeaseTtls, PreLogon, MaxProvisions

VARIABLES
    part,
    clock, session, windowStart, attempts, failures, lockedUntil, share, keyLease,
    localKeys, provisions, redeemed, proofs, revoked, streak

Sessions == INSTANCE AgentSessions WITH
    now <- clock, lease <- keyLease, Keys <- {}, MaxTime <- 3

sessionVars == <<clock, session, windowStart, attempts, failures, lockedUntil, share,
                 keyLease, localKeys, provisions, redeemed, proofs, revoked, streak>>

MCInit ==
    /\ part \in {"lease", "sessions"} /\ Init /\ Sessions!Init
    /\ part = "sessions" => cfg = Nothing

MCNext ==
    /\ UNCHANGED part
    /\ \/ part = "lease" /\ Next /\ UNCHANGED sessionVars
       \/ part = "sessions" /\ Sessions!Next /\ UNCHANGED vars

partVars == <<part, vars, sessionVars>>

(* The fairness of the two FairSpec.                                          *)
LeaseStep(A) == part = "lease" /\ A /\ UNCHANGED <<part, sessionVars>>
SessionStep(A) == part = "sessions" /\ A /\ UNCHANGED <<part, vars>>

MCSpec ==
    /\ MCInit /\ [][MCNext]_partVars
    /\ WF_partVars(LeaseStep(Sync)) /\ WF_partVars(LeaseStep(StopWorker))
    /\ WF_partVars(LeaseStep(Worker))
    /\ WF_partVars(SessionStep(Sessions!CheckAuthTimeouts))
    /\ WF_partVars(SessionStep(Sessions!Tick))

-----------------------------------------------------------------------------

(* A worker that was given inputs answers or is replaced, and one that was     *)
(* let go of still ends and frees what it shares with the loop, whenever its   *)
(* request returns (DirectGate_KeyMgr_Worker, _StopWorker).                    *)
WorkerAnswersAndEnds == part = "lease" => InputsAreAnswered /\ ContextIsFreed

(* No handshake and no share session outlasts its time: the slot is free      *)
(* again however little the peer sends (CheckAuthTimeouts).                   *)
SlotsComeBack == Sessions!HandshakesEnd /\ Sessions!SharesEnd
===============================================================================
