------------------------- MODULE AgentSessions_proofs -------------------------
(***************************************************************************)
(* Proofs about the agent's session table: its types, and that a share     *)
(* lets one session in, that a revocation is final, that the remembered    *)
(* lease generation may be trusted, that a lockout is bounded and guessing *)
(* is slowed down, for any number of sessions, shares and keys and any     *)
(* limits.                                                                 *)
(***************************************************************************)
EXTENDS AgentSessions, FiniteSetTheorems, TLAPS

-----------------------------------------------------------------------------
(* Types.                                                                  *)

(* A stage tells which kind of record a session is.                        *)
LEMMA Stages ==
    ASSUME NEW p \in Sessions
    PROVE  /\ p.stage = "preauth" <=> p \in PreAuth
           /\ p.stage \in Roles <=> p \in Authenticated
           /\ p.stage = "absent" <=> p = Absent
  BY SMT DEF Sessions, PreAuth, Authenticated, Absent, Roles

(* A new session, and one an authentication message was counted for.       *)
LEMMA AdmittedTypes ==
    ASSUME TypeOK, NEW s \in Sids, MayConsume(s)
    PROVE  /\ Found(s) \in PreAuth
           /\ Consumed(s) \in PreAuth
           /\ windowStart' \in Times
           /\ attempts' \in 0 .. RateMax
  <1> USE SessionsAssumption
  <1>1. NewSession \in PreAuth
    BY SMT DEF NewSession, PreAuth, Times, TypeOK
  <1>2. Found(s) \in PreAuth
    BY <1>1, Stages, SMT DEF MayConsume, Admitted, Handshaking, Found, TypeOK
  <1>3. Found(s).msgs \in 0 .. AuthMaxMessages - 1
    BY <1>2, SMT DEF MayConsume, PreAuth
  <1>4. Consumed(s) \in PreAuth
    BY <1>2, <1>3, SMT DEF Consumed, PreAuth
  <1>5. windowStart' \in Times /\ attempts' \in 0 .. RateMax
    <2>1. CASE UNCHANGED limits
      BY <2>1, SMT DEF limits, TypeOK
    <2>2. CASE CountAttempt
      BY <2>2, SMT DEF CountAttempt, Attempts, WindowOver, TypeOK, Times
    <2>3. QED
      BY <2>1, <2>2 DEF MayConsume, Admitted
  <1>6. QED
    BY <1>2, <1>4, <1>5

(* Writing one entry keeps the table typed.                                *)
LEMMA SetSession ==
    ASSUME TypeOK, NEW s \in Sids, NEW p \in Sessions,
           session' = [session EXCEPT ![s] = p]
    PROVE  session' \in [Sids -> Sessions]
  BY SMT DEF TypeOK

(* Closing a session does.                                                 *)
LEMMA CloseType ==
    ASSUME TypeOK, NEW s \in Sids, Close(s)
    PROVE  session' \in [Sids -> Sessions]
  <1>1. Absent \in Sessions
    BY DEF Sessions
  <1>2. QED
    BY <1>1, SetSession DEF Close

(* The time added to a lockout is at most the longest lockout.             *)
LEMMA DelayBound ==
    ASSUME NEW n \in Nat
    PROVE  Delay(n) \in Int /\ Delay(n) <= LockoutMax
  BY SessionsAssumption, SMT DEF Delay

(* Counting a failed proof keeps the throttle typed.                       *)
LEMMA FailureTypes ==
    ASSUME TypeOK, NoteAuthFailure
    PROVE  failures' \in Nat /\ lockedUntil' \in Int /\ streak' \in Times
  <1> USE SessionsAssumption
  <1>1. CASE failures + 1 <= FailureGrace
    BY <1>1, SMT DEF NoteAuthFailure, TypeOK, Times
  <1>2. CASE failures + 1 > FailureGrace
    <2>1. failures - FailureGrace \in Nat
      BY <1>2, SMT DEF TypeOK
    <2>2. Delay(failures - FailureGrace) \in Int
      BY <2>1, DelayBound
    <2>3. QED
      BY <1>2, <2>2, SMT DEF NoteAuthFailure, TypeOK, Times
  <1>3. QED
    BY <1>1, <1>2, SMT DEF TypeOK

(* So does forgetting the failures.                                        *)
LEMMA SuccessTypes ==
    ASSUME TypeOK, NoteAuthSuccess
    PROVE  failures' \in Nat /\ lockedUntil' \in Int /\ streak' \in Times
  BY SessionsAssumption, SMT DEF NoteAuthSuccess, TypeOK, Times

(* An entry of the table that is not empty is a provisioned share.         *)
LEMMA ShareEntries ==
    ASSUME TypeOK, NEW id \in ShareIds, share[id] # Empty
    PROVE  share[id] \in Entries
  BY DEF TypeOK, Shares

(* Cleaning keeps the table typed, and only empties entries of it.         *)
LEMMA CleanedType ==
    ASSUME TypeOK
    PROVE  /\ Cleaned \in [ShareIds -> Shares]
           /\ \A id \in ShareIds :
                Cleaned[id] # Empty =>
                    /\ Cleaned[id] = share[id]
                    /\ share[id] # Empty
                    /\ ~share[id].used /\ now < share[id].expires
  <1>1. Cleaned \in [ShareIds -> Shares]
    BY DEF Cleaned, TypeOK, Shares
  <1>2. ASSUME NEW id \in ShareIds, Cleaned[id] # Empty
        PROVE  /\ Cleaned[id] = share[id]
               /\ share[id] # Empty
               /\ ~share[id].used /\ now < share[id].expires
    <2>1. /\ ~(share[id].used \/ now >= share[id].expires)
          /\ Cleaned[id] = share[id]
      BY <1>2 DEF Cleaned
    <2>2. share[id] \in Entries
      BY <1>2, <2>1, ShareEntries
    <2>3. now < share[id].expires
      BY <2>1, <2>2, SMT DEF TypeOK, Times, Entries
    <2>4. QED
      BY <1>2, <2>1, <2>3
  <1>3. QED
    BY <1>1, <1>2

(* An entry that is used up stays typed, and so does one that is not yet   *)
(* used up and counts a failure.                                           *)
LEMMA EntryTypes ==
    ASSUME NEW e \in Entries
    PROVE  UsedUp(e) \in Entries /\ (~e.used => Failed(e) \in Entries)
  <1> DEFINE E == [prov : Provisions, expires : Nat, used : BOOLEAN,
                   failures : 0 .. ShareMaxFailures]
  <1>1. e \in E /\ (e.used \/ e.failures < ShareMaxFailures)
    BY Zenon DEF Entries
  <1>2. UsedUp(e) \in Entries
    <2>1. ASSUME NEW b \in BOOLEAN
          PROVE  [e EXCEPT !.used = b] \in E /\ [e EXCEPT !.used = b].used = b
      BY <1>1, SMT
    <2>2. UsedUp(e) \in E /\ UsedUp(e).used
      BY <2>1, Zenon DEF UsedUp
    <2>3. QED
      BY <2>2, Zenon DEF Entries
  <1>3. ASSUME ~e.used
        PROVE  Failed(e) \in Entries
    <2> DEFINE f == e.failures + 1
    <2>1. ASSUME NEW b \in BOOLEAN
          PROVE  [prov |-> e.prov, expires |-> e.expires, used |-> b,
                  failures |-> f] \in E
      BY <1>1, <1>3, SessionsAssumption, SMT
    <2>2. (f >= ShareMaxFailures) \in BOOLEAN
      BY <1>1, SessionsAssumption, SMT
    <2>3. Failed(e) \in E
      BY <2>1, <2>2, Zenon DEF Failed
    <2>4. f >= ShareMaxFailures \/ f < ShareMaxFailures
      BY <1>1, SessionsAssumption, SMT
    <2>5. Failed(e).used \/ Failed(e).failures < ShareMaxFailures
      BY <2>4, Zenon DEF Failed
    <2>6. QED
      BY <2>3, <2>5, Zenon DEF Entries
  <1>4. QED
    BY <1>2, <1>3

(* A right proof for a share, or one without a share, keeps the table      *)
(* typed.                                                                  *)
LEMMA ConsumeType ==
    ASSUME TypeOK, NEW s \in Sids, Consume(s), PendingUsable(s),
           Pending(s) \in ShareIds \cup {None}
    PROVE  share' \in [ShareIds -> Shares]
  <1>1. Table(s) \in [ShareIds -> Shares]
    BY CleanedType DEF Table, TypeOK
  <1>2. ASSUME NEW id \in ShareIds, id = Pending(s)
        PROVE  UsedUp(share[id]) \in Shares
    <2>1. share[id] # Empty
      BY <1>2, CleanedType, SessionsAssumption DEF PendingUsable, Usable
    <2>2. QED
      BY <2>1, ShareEntries, EntryTypes DEF Shares
  <1>3. QED
    BY <1>1, <1>2 DEF Consume

(* A wrong proof does.                                                     *)
LEMMA WrongProofType ==
    ASSUME TypeOK, NEW s \in Sids, PendingUsable(s),
           Pending(s) \in ShareIds \cup {None}, SrpProofWrong(s)
    PROVE  share' \in [ShareIds -> Shares]
  <1>1. Table(s) \in [ShareIds -> Shares]
    BY CleanedType DEF Table, TypeOK
  <1>2. ASSUME NEW id \in ShareIds, id = Pending(s)
        PROVE  Failed(share[id]) \in Shares
    <2>1. share[id] # Empty /\ ~share[id].used
      BY <1>2, CleanedType, SessionsAssumption DEF PendingUsable, Usable
    <2>2. QED
      BY <2>1, ShareEntries, EntryTypes DEF Shares
  <1>3. QED
    BY <1>1, <1>2 DEF SrpProofWrong

(* A granted session is an authenticated one.                              *)
LEMMA GrantedType ==
    ASSUME NEW role \in Roles, NEW id \in ShareIds \cup {None},
           NEW expires \in Nat, NEW key \in Keys \cup {None},
           NEW gen \in Generations
    PROVE  Granted(role, id, expires, key, gen) \in Sessions
  BY SMT DEF Granted, Sessions, Authenticated, Modes

(* What the lease may become is a lease.                                   *)
LEMMA SyncedType ==
    ASSUME NEW l \in Leases(Keys), NEW t \in Nat, NEW r \in Synced(l, t, Keys, LeaseTtls)
    PROVE  r \in Leases(Keys)
  <1> USE GenerationAssumption, SessionsAssumption
  <1>1. \A m \in Leases(Keys) : Bump(m.gen) \in Generations
    BY SMT DEF Bump, Generations, Leases
  <1>2. \A m \in Leases(Keys) : Clear(m) \in Leases(Keys)
    BY <1>1, SMT DEF Clear, Leases
  <1>3. ASSUME NEW m \in Leases(Keys), NEW ks \in SUBSET Keys, NEW ttl \in LeaseTtls,
               NEW i \in Install(m, ks, t + ttl)
        PROVE  i \in Leases(Keys)
    <2>1. m.gen \in Generations /\ Bump(m.gen) \in Generations
      BY <1>1 DEF Leases
    <2>2. PICK g \in Generations : i = [keys |-> ks, until |-> t + ttl, gen |-> g]
      BY <2>1 DEF Install
    <2>3. QED
      BY <2>2, SMT DEF Leases
  <1>4. QED
    BY <1>2, <1>3 DEF Synced

(* The first state is typed.                                               *)
LEMMA TypeInit == Init => TypeOK
  BY SessionsAssumption, GenerationAssumption, SMT
  DEF Init, TypeOK, Times, Sessions, Shares, InitialLease, Leases,
      Generations, Provisions

(* The messages of a handshake keep the types.                             *)
LEMMA TypeAuth ==
    ASSUME TypeOK, NEW s \in Sids, Auth(s)
    PROVE  TypeOK'
  <1> USE SessionsAssumption, GenerationAssumption DEF sharing, lockout
  <1>1. CASE CreateFails(s)
    BY <1>1, SMT DEF CreateFails, CountAttempt, Attempts, WindowOver, TypeOK, Times
  <1>2. CASE AuthLimit(s)
    BY <1>2, CloseType DEF AuthLimit, TypeOK, limits
  <1>3. CASE SrpHello(s)
    <2>1. PICK ready \in BOOLEAN :
            session' = [session EXCEPT ![s] = [Consumed(s) EXCEPT !.hello = ready]]
      BY <1>3 DEF SrpHello
    <2>2. [Consumed(s) EXCEPT !.hello = ready] \in Sessions
      BY <1>3, AdmittedTypes, SMT DEF SrpHello, PreAuth, Sessions
    <2>3. QED
      BY <1>3, <2>1, <2>2, SetSession, AdmittedTypes DEF SrpHello, TypeOK
  <1>4. ASSUME NEW id \in ShareIds, ShareHello(s, id)
        PROVE  TypeOK'
    <2>1. CASE Close(s)
      BY <1>4, <2>1, CloseType, CleanedType, AdmittedTypes DEF ShareHello, TypeOK
    <2>2. ASSUME Usable(id), NEW ready \in BOOLEAN,
                 session' = [session EXCEPT
                   ![s] = [Consumed(s) EXCEPT !.verifier = share[id].prov,
                                              !.shareId = id,
                                              !.hello = ready]]
          PROVE  TypeOK'
      <3>1. share[id].prov \in Provisions
        BY <2>2, CleanedType, ShareEntries, SMT DEF Usable, Entries
      <3>2. [Consumed(s) EXCEPT !.verifier = share[id].prov, !.shareId = id,
                                !.hello = ready] \in Sessions
        <4>1. Consumed(s) \in PreAuth
          BY <1>4, AdmittedTypes DEF ShareHello
        <4>2. QED
          BY <3>1, <4>1, Zenon DEF PreAuth, Sessions
      <3>3. QED
        BY <1>4, <2>2, <3>2, SetSession, CleanedType, AdmittedTypes
        DEF ShareHello, TypeOK
    <2>3. QED
      BY <1>4, <2>1, <2>2 DEF ShareHello
  <1>5. ASSUME NEW k \in Keys, KeyHello(s, k)
        PROVE  TypeOK'
    <2>1. Consumed(s) \in Sessions
      BY <1>5, AdmittedTypes DEF KeyHello, Sessions
    <2>2. (k \notin localKeys) \in BOOLEAN
      BY Zenon
    <2>3. ASSUME NEW b \in BOOLEAN
          PROVE  [Consumed(s) EXCEPT !.challenge = k, !.viaLease = b] \in Sessions
      <3>1. Consumed(s) \in PreAuth
        BY <1>5, AdmittedTypes DEF KeyHello
      <3>2. QED
        BY <3>1, Zenon DEF PreAuth, Sessions
    <2>4. PICK p \in Sessions : session' = [session EXCEPT ![s] = p]
      BY <1>5, <2>1, <2>2, <2>3 DEF KeyHello
    <2>5. QED
      BY <1>5, <2>4, SetSession, AdmittedTypes DEF KeyHello, TypeOK
  <1>6. CASE KeyProofWrong(s)
    BY <1>6, CloseType, FailureTypes, AdmittedTypes DEF KeyProofWrong, TypeOK
  <1>7. CASE KeyProofRight(s)
    <2>1. Found(s) \in PreAuth
      BY <1>7, AdmittedTypes DEF KeyProofRight
    <2>2. Found(s).challenge \in Keys \cup {None} /\ lease.gen \in Generations
      BY <2>1, SMT DEF PreAuth, TypeOK, Leases
    <2>3. \A role \in Roles :
            Granted(role, None, 0, Found(s).challenge, lease.gen) \in Sessions
      BY <2>2, GrantedType
    <2>4. PICK p \in Sessions : session' = [session EXCEPT ![s] = p]
      BY <1>7, <2>3 DEF KeyProofRight, Roles
    <2>5. QED
      BY <1>7, <2>4, SetSession, SuccessTypes, AdmittedTypes
      DEF KeyProofRight, TypeOK
  <1>8. CASE SrpProofWrong(s)
    <2>1. Pending(s) \in ShareIds \cup {None}
      BY <1>8, AdmittedTypes, SMT DEF SrpProofWrong, Pending, PreAuth
    <2>2. QED
      BY <1>8, <2>1, CloseType, WrongProofType, FailureTypes, AdmittedTypes
      DEF SrpProofWrong, TypeOK
  <1>9. CASE SrpProofRight(s)
    <2>1. Pending(s) \in ShareIds \cup {None}
      BY <1>9, AdmittedTypes, SMT DEF SrpProofRight, Pending, PreAuth
    <2>2. ASSUME Pending(s) # None
          PROVE  share[Pending(s)].expires \in Nat
      BY <1>9, <2>1, <2>2, CleanedType, ShareEntries, SMT
      DEF SrpProofRight, PendingUsable, Usable, Entries
    <2>3. 0 \in Generations
      BY SMT DEF Generations
    <2>4. Granted("full", None, 0, None, 0) \in Sessions
      BY <2>3, GrantedType DEF Roles
    <2>5. ASSUME Pending(s) # None
          PROVE  Granted("share", Pending(s), share[Pending(s)].expires,
                         None, 0) \in Sessions
      BY <2>1, <2>2, <2>3, <2>5, GrantedType DEF Roles
    <2>6. PICK p \in Sessions : session' = [session EXCEPT ![s] = p]
      BY <1>9, <2>4, <2>5 DEF SrpProofRight
    <2>7. session' \in [Sids -> Sessions]
      BY <2>6, SetSession
    <2>8. redeemed' \in [Provisions -> Nat] /\ proofs' \in [Provisions -> Nat]
      BY <1>9, SMT DEF SrpProofRight, TypeOK
    <2>9. share' \in [ShareIds -> Shares]
      BY <1>9, <2>1, ConsumeType DEF SrpProofRight
    <2>10. QED
      BY <1>9, <2>7, <2>8, <2>9, SuccessTypes, AdmittedTypes
      DEF SrpProofRight, TypeOK
  <1>10. CASE SrpAckFails(s)
    <2>1. Pending(s) \in ShareIds \cup {None}
      BY <1>10, AdmittedTypes, SMT DEF SrpAckFails, Pending, PreAuth
    <2>2. QED
      BY <1>10, <2>1, ConsumeType, CloseType, AdmittedTypes
      DEF SrpAckFails, TypeOK
  <1>11. CASE AuthRejected(s)
    <2>1. share' \in [ShareIds -> Shares]
      BY <1>11, CleanedType DEF AuthRejected, Table, TypeOK
    <2>2. QED
      BY <1>11, <2>1, CloseType, AdmittedTypes DEF AuthRejected, TypeOK
  <1>12. QED
    BY <1>1, <1>2, <1>3, <1>4, <1>5, <1>6, <1>7, <1>8, <1>9, <1>10, <1>11
    DEF Auth

(* So do the packages of an authenticated session.                         *)
LEMMA TypeUse ==
    ASSUME TypeOK, NEW s \in Sids, Use(s)
    PROVE  TypeOK'
  <1> USE SessionsAssumption, GenerationAssumption DEF limits, sharing, lockout
  <1>1. ASSUME Open(s), NEW m \in Modes
        PROVE  [session[s] EXCEPT !.mode = m] \in Sessions
    BY <1>1, Stages, SMT DEF Open, Authenticated, Sessions, TypeOK
  <1>2. ASSUME NEW m \in Modes \ {"none"}, Start(s, m)
        PROVE  TypeOK'
    <2>1. session' \in [Sids -> Sessions]
      BY <1>1, <1>2, SetSession DEF Start
    <2>2. QED
      BY <1>2, <2>1 DEF Start, TypeOK
  <1>3. CASE Stop(s)
    <2>1. session' \in [Sids -> Sessions]
      BY <1>1, <1>3, SetSession, CloseType DEF Stop, Modes
    <2>2. QED
      BY <1>3, <2>1 DEF Stop, TypeOK
  <1>4. CASE SessionEnds(s)
    BY <1>4, CloseType DEF SessionEnds, TypeOK
  <1>5. ASSUME NEW id \in ShareIds, NEW ttl \in ShareTtls, Provision(s, id, ttl)
        PROVE  TypeOK'
    <2>1. provisions' \in 0 .. MaxProvisions /\ revoked' \in SUBSET ShareIds
      BY <1>5, SMT DEF Provision, TypeOK
    <2>2. ASSUME provisions' = provisions + 1
          PROVE  [prov |-> provisions + 1, expires |-> now + ttl,
                  used |-> FALSE, failures |-> 0] \in Shares
      BY <2>1, <2>2, SMT DEF TypeOK, Shares, Entries, Provisions, Times
    <2>3. share' \in [ShareIds -> Shares]
      BY <1>5, <2>2, CleanedType DEF Provision
    <2>4. QED
      BY <1>5, <2>1, <2>3 DEF Provision, TypeOK
  <1>6. ASSUME NEW id \in ShareIds, Revoke(s, id)
        PROVE  TypeOK'
    <2>1. share' \in [ShareIds -> Shares]
      BY <1>6 DEF Revoke, TypeOK, Shares
    <2>2. session' \in [Sids -> Sessions]
      BY <1>6 DEF Revoke, TypeOK, Sessions
    <2>3. QED
      BY <1>6, <2>1, <2>2 DEF Revoke, TypeOK
  <1>7. ASSUME NEW k \in Keys, AddKey(s, k)
        PROVE  TypeOK'
    BY <1>7 DEF AddKey, TypeOK
  <1>8. QED
    BY <1>2, <1>3, <1>4, <1>5, <1>6, <1>7 DEF Use

(* And every step does.                                                    *)
LEMMA TypeNext == TypeOK /\ [Next]_vars => TypeOK'
  <1> SUFFICES ASSUME TypeOK, [Next]_vars PROVE TypeOK'
    OBVIOUS
  <1> USE DEF limits, sharing, lockout
  <1>1. CASE CheckAuthTimeouts
    <2>1. lease' \in Leases(Keys)
      BY <1>1, SyncedType DEF CheckAuthTimeouts, TypeOK, Times
    <2>2. ASSUME NEW s \in Sids, session[s].stage = "managed"
          PROVE  [session[s] EXCEPT !.gen = lease'.gen] \in Sessions
      BY <2>1, <2>2, Stages, SMT
      DEF Authenticated, Sessions, TypeOK, Leases, Roles
    <2>3. session' \in [Sids -> Sessions]
      BY <1>1, <2>2 DEF CheckAuthTimeouts, TypeOK, Sessions
    <2>4. QED
      BY <1>1, <2>1, <2>3, CleanedType DEF CheckAuthTimeouts, TypeOK
  <1>2. CASE RelayLost
    BY <1>2 DEF RelayLost, TypeOK, Sessions
  <1>3. CASE Tick
    BY <1>3, SessionsAssumption, SMT DEF Tick, TypeOK, Times
  <1>4. CASE UNCHANGED vars
    BY <1>4 DEF vars, TypeOK
  <1>5. QED
    BY <1>1, <1>2, <1>3, <1>4, TypeAuth, TypeUse DEF Next

(* The table, the limits, the shares and the lease stay in the ranges the  *)
(* code gives them, for any number of each.                                *)
THEOREM TypesHold == Spec => []TypeOK
  BY TypeInit, TypeNext, PTL DEF Spec

-----------------------------------------------------------------------------
(* Shares.                                                                 *)

(* The invariant behind ShareUsedOnce: the entries of the table stand for  *)
(* different provisions, all of the past, and one that is not used up has  *)
(* not been redeemed.                                                      *)
ShareInv ==
    /\ \A n \in Provisions : redeemed[n] <= 1
    /\ \A n \in Provisions : n > provisions => redeemed[n] = 0
    /\ \A id \in ShareIds : share[id] # Empty =>
          /\ share[id].prov <= provisions
          /\ ~share[id].used => redeemed[share[id].prov] = 0
    /\ \A id, jd \in ShareIds :
          share[id] # Empty /\ share[jd] # Empty /\ share[id].prov = share[jd].prov
            => id = jd

(* No entry is new, and none that was used up is usable again.             *)
EntriesKept ==
    \A id \in ShareIds : share'[id] # Empty =>
        /\ share[id] # Empty
        /\ share'[id].prov = share[id].prov
        /\ share[id].used => share'[id].used

(* Cleaning the table makes nothing new.                                   *)
LEMMA CleanedKept ==
    ASSUME TypeOK, share' = Cleaned
    PROVE  EntriesKept
  BY CleanedType DEF EntriesKept

(* Nor does a right proof ...                                              *)
LEMMA ConsumeKept ==
    ASSUME TypeOK, NEW s \in Sids, Consume(s), PendingUsable(s)
    PROVE  EntriesKept
  <1> SUFFICES ASSUME NEW id \in ShareIds, share'[id] # Empty
               PROVE  /\ share[id] # Empty
                      /\ share'[id].prov = share[id].prov
                      /\ share[id].used => share'[id].used
    BY DEF EntriesKept
  <1>1. CASE id = Pending(s)
    <2>1. share[id] \in Entries /\ share[id] # Empty /\ ~share[id].used
      BY <1>1, CleanedType, ShareEntries, SessionsAssumption
      DEF PendingUsable, Usable
    <2>2. share'[id] = UsedUp(share[id])
      BY <1>1 DEF Consume
    <2>3. UsedUp(share[id]).prov = share[id].prov
      BY <2>1, SMT DEF UsedUp, Entries
    <2>4. QED
      BY <2>1, <2>2, <2>3
  <1>2. CASE id # Pending(s)
    BY <1>2, CleanedType DEF Consume, Table
  <1>3. QED
    BY <1>1, <1>2

(* ... or a wrong one.                                                     *)
LEMMA WrongProofKept ==
    ASSUME TypeOK, NEW s \in Sids, SrpProofWrong(s)
    PROVE  EntriesKept
  <1> SUFFICES ASSUME NEW id \in ShareIds, share'[id] # Empty
               PROVE  /\ share[id] # Empty
                      /\ share'[id].prov = share[id].prov
                      /\ share[id].used => share'[id].used
    BY DEF EntriesKept
  <1>1. CASE id = Pending(s)
    <2>1. share[id] # Empty /\ ~share[id].used
      BY <1>1, CleanedType, SessionsAssumption
      DEF SrpProofWrong, PendingUsable, Usable
    <2>2. share'[id] = Failed(share[id])
      BY <1>1 DEF SrpProofWrong
    <2>3. QED
      BY <2>1, <2>2 DEF Failed
  <1>2. CASE id # Pending(s)
    BY <1>2, CleanedType DEF SrpProofWrong, Table
  <1>3. QED
    BY <1>1, <1>2

(* What a step does to the shares.                                         *)
LEMMA ShareSteps ==
    ASSUME TypeOK, [Next]_vars
    PROVE  \/ EntriesKept /\ UNCHANGED <<provisions, redeemed>>
           \/ \E s \in Sids, id \in ShareIds, ttl \in ShareTtls :
                 Provision(s, id, ttl)
           \/ \E s \in Sids : SrpProofRight(s)
  <1> DEFINE Kept == EntriesKept /\ UNCHANGED <<provisions, redeemed>>
  <1> USE DEF sharing
  <1>1. share' = share => EntriesKept
    BY DEF EntriesKept
  <1>2. ASSUME NEW s \in Sids, Auth(s)
        PROVE  Kept \/ SrpProofRight(s)
    <2>1. CASE CreateFails(s) \/ AuthLimit(s) \/ SrpHello(s) \/ KeyProofWrong(s)
               \/ KeyProofRight(s)
      BY <1>1, <2>1
      DEF CreateFails, AuthLimit, SrpHello, KeyProofWrong, KeyProofRight
    <2>2. CASE \E id \in ShareIds : ShareHello(s, id)
      BY <2>2, CleanedKept DEF ShareHello
    <2>3. CASE \E k \in Keys : KeyHello(s, k)
      BY <1>1, <2>3 DEF KeyHello
    <2>4. CASE SrpProofWrong(s)
      BY <2>4, WrongProofKept DEF SrpProofWrong
    <2>5. CASE SrpAckFails(s)
      BY <2>5, ConsumeKept DEF SrpAckFails
    <2>6. CASE AuthRejected(s)
      BY <1>1, <2>6, CleanedKept DEF AuthRejected, Table
    <2>7. QED
      BY <1>2, <2>1, <2>2, <2>3, <2>4, <2>5, <2>6 DEF Auth
  <1>3. ASSUME NEW s \in Sids, Use(s)
        PROVE  \/ Kept
               \/ \E id \in ShareIds, ttl \in ShareTtls : Provision(s, id, ttl)
    <2>1. CASE \E id \in ShareIds : Revoke(s, id)
      BY <2>1 DEF Revoke, EntriesKept, TypeOK
    <2>2. CASE \/ \E m \in Modes \ {"none"} : Start(s, m)
               \/ Stop(s)
               \/ SessionEnds(s)
               \/ \E k \in Keys : AddKey(s, k)
      BY <1>1, <2>2 DEF Start, Stop, SessionEnds, AddKey
    <2>3. QED
      BY <1>3, <2>1, <2>2 DEF Use
  <1>4. CheckAuthTimeouts => Kept
    BY CleanedKept DEF CheckAuthTimeouts
  <1>5. RelayLost \/ Tick \/ UNCHANGED vars => Kept
    BY <1>1 DEF RelayLost, Tick, vars
  <1>6. QED
    BY <1>2, <1>3, <1>4, <1>5 DEF Next

(* The invariant holds at first ...                                        *)
LEMMA ShareInvInit == Init => ShareInv
  BY SessionsAssumption, SMT DEF Init, ShareInv, Provisions, Empty

(* ... and every step keeps it.                                            *)
LEMMA ShareInvNext == TypeOK /\ ShareInv /\ [Next]_vars => ShareInv'
  <1> SUFFICES ASSUME TypeOK, ShareInv, [Next]_vars PROVE ShareInv'
    OBVIOUS
  <1>1. CASE EntriesKept /\ UNCHANGED <<provisions, redeemed>>
    BY <1>1, Zenon DEF ShareInv, EntriesKept
  <1>2. ASSUME NEW s \in Sids, NEW id \in ShareIds, NEW ttl \in ShareTtls,
               Provision(s, id, ttl)
        PROVE  ShareInv'
    <2>1. CASE share' = Cleaned /\ UNCHANGED provisions
      BY <1>1, <1>2, <2>1, CleanedKept DEF Provision
    <2>2. ASSUME share' = [Cleaned EXCEPT ![id] =
                             [prov |-> provisions + 1, expires |-> now + ttl,
                              used |-> FALSE, failures |-> 0]],
                 provisions' = provisions + 1
          PROVE  ShareInv'
      <3>1. /\ provisions \in Nat /\ provisions + 1 \in Provisions
            /\ redeemed' = redeemed /\ redeemed \in [Provisions -> Nat]
        BY <1>2, SessionsAssumption, SMT DEF Provision, TypeOK, Provisions
      <3>2. share'[id].prov = provisions + 1
        BY <2>2, CleanedType
      <3>3. \A jd \in ShareIds \ {id} : share'[jd] # Empty =>
               /\ share[jd] # Empty /\ share'[jd] = share[jd]
               /\ share[jd].prov \in Provisions
        BY <2>2, CleanedType, ShareEntries, SMT DEF Entries
      <3>4. \A n \in Provisions : redeemed'[n] <= 1
        BY <3>1 DEF ShareInv
      <3>5. \A n \in Provisions : n > provisions' => redeemed'[n] = 0
        BY <2>2, <3>1, SMT DEF ShareInv, Provisions
      <3>6. redeemed[provisions + 1] = 0
        BY <3>1, SMT DEF ShareInv
      <3>7. ASSUME NEW jd \in ShareIds, share'[jd] # Empty
            PROVE  /\ share'[jd].prov <= provisions'
                   /\ ~share'[jd].used => redeemed'[share'[jd].prov] = 0
        <4>1. CASE jd = id
          BY <2>2, <3>1, <3>2, <3>6, <4>1, SMT
        <4>2. CASE jd # id
          <5>1. share[jd] # Empty /\ share'[jd] = share[jd] /\ share[jd].prov \in Provisions
            BY <3>3, <3>7, <4>2
          <5>2. share[jd].prov <= provisions /\ (~share[jd].used => redeemed[share[jd].prov] = 0)
            BY <5>1 DEF ShareInv
          <5>3. share[jd].prov <= provisions'
            BY <2>2, <3>1, <5>1, <5>2, SMT DEF Provisions
          <5>4. QED
            BY <3>1, <5>1, <5>2, <5>3
        <4>3. QED
          BY <4>1, <4>2
      <3>8. ASSUME NEW jd \in ShareIds \ {id}, share'[jd] # Empty
            PROVE  share'[jd].prov # share'[id].prov
        BY <3>1, <3>2, <3>3, <3>8, SMT DEF ShareInv, Provisions
      <3>9. ASSUME NEW jd \in ShareIds, NEW kd \in ShareIds,
                   share'[jd] # Empty, share'[kd] # Empty,
                   share'[jd].prov = share'[kd].prov
            PROVE  jd = kd
        BY <3>3, <3>8, <3>9 DEF ShareInv
      <3>10. QED
        BY <3>4, <3>5, <3>7, <3>9, Zenon DEF ShareInv
    <2>3. QED
      BY <1>2, <2>1, <2>2 DEF Provision
  <1>3. ASSUME NEW s \in Sids, SrpProofRight(s)
        PROVE  ShareInv'
    <2>1. EntriesKept /\ UNCHANGED provisions
      BY <1>3, ConsumeKept DEF SrpProofRight
    <2>2. CASE Pending(s) = None
      <3>1. redeemed' = redeemed
        BY <1>3, <2>2, SMT DEF SrpProofRight, TypeOK
      <3>2. QED
        BY <1>1, <2>1, <3>1
    <2>3. CASE Pending(s) # None
      <3> DEFINE id == Pending(s)
      <3>1. id \in ShareIds
        BY <1>3, <2>3, AdmittedTypes, SMT DEF SrpProofRight, Pending, PreAuth
      <3>2. share[id] # Empty /\ ~share[id].used /\ share[id].prov \in Provisions
        BY <1>3, <2>3, <3>1, CleanedType, ShareEntries, SMT
        DEF SrpProofRight, PendingUsable, Usable, Entries
      <3>3. /\ redeemed[share[id].prov] = 0
            /\ share[id].prov <= provisions
        BY <3>1, <3>2 DEF ShareInv
      <3>4. /\ redeemed'[share[id].prov] = 1
            /\ \A n \in Provisions : n # share[id].prov => redeemed'[n] = redeemed[n]
        BY <1>3, <2>3, <3>2, <3>3, SMT DEF SrpProofRight
      <3>5. share'[id].used
        BY <1>3, <3>1, <3>2, ShareEntries, SMT DEF SrpProofRight, Consume, UsedUp, Entries
      <3>6. \A n \in Provisions : redeemed'[n] <= 1
        BY <3>4, SMT DEF ShareInv
      <3>7. \A n \in Provisions : n > provisions' => redeemed'[n] = 0
        BY <2>1, <3>2, <3>3, <3>4, SMT DEF ShareInv, Provisions, TypeOK
      <3>8. ASSUME NEW jd \in ShareIds, share'[jd] # Empty
            PROVE  /\ share'[jd].prov <= provisions'
                   /\ ~share'[jd].used => redeemed'[share'[jd].prov] = 0
        <4>1. /\ share[jd] # Empty /\ share'[jd].prov = share[jd].prov
              /\ share[jd].used => share'[jd].used
          BY <2>1, <3>8 DEF EntriesKept
        <4>2. share[jd].prov \in Provisions
          BY <4>1, ShareEntries, SMT DEF Entries
        <4>3. share'[jd].prov <= provisions'
          BY <2>1, <4>1 DEF ShareInv
        <4>4. ASSUME ~share'[jd].used
              PROVE  redeemed'[share'[jd].prov] = 0
          <5>1. jd # id
            BY <3>5, <4>4
          <5>2. share[jd].prov # share[id].prov
            BY <3>1, <3>2, <4>1, <5>1 DEF ShareInv
          <5>3. redeemed[share[jd].prov] = 0
            BY <4>1, <4>4 DEF ShareInv
          <5>4. QED
            BY <3>4, <4>1, <4>2, <5>2, <5>3
        <4>5. QED
          BY <4>3, <4>4
      <3>9. \A jd, kd \in ShareIds :
               share'[jd] # Empty /\ share'[kd] # Empty
                 /\ share'[jd].prov = share'[kd].prov => jd = kd
        BY <2>1 DEF ShareInv, EntriesKept
      <3>10. QED
        BY <3>6, <3>7, <3>8, <3>9, Zenon DEF ShareInv
    <2>4. QED
      BY <2>2, <2>3
  <1>4. QED
    BY <1>1, <1>2, <1>3, ShareSteps

(* A temporary share admits one session at most, for any number of         *)
(* sessions, ids and provisions: SrpProofRight asks for an entry that is   *)
(* not used up and uses it up, and no other step makes it usable again.    *)
THEOREM SharesAdmitOnce == Spec => []ShareUsedOnce
  <1>1. ShareInv => ShareUsedOnce
    BY DEF ShareInv, ShareUsedOnce
  <1>2. QED
    BY <1>1, TypesHold, ShareInvInit, ShareInvNext, PTL DEF Spec

-----------------------------------------------------------------------------
(* Authenticated sessions.                                                 *)

(* Session t was authenticated before the step and is the same since, but  *)
(* for a mode it was allowed to enter or has left.                         *)
Continues(t) ==
    /\ Open(t)
    /\ session'[t].stage = session[t].stage
    /\ session'[t].shareId = session[t].shareId
    /\ session'[t].key = session[t].key
    /\ session'[t].gen = session[t].gen \/ CheckAuthTimeouts
    /\ \/ session'[t].mode = session[t].mode
       \/ session'[t].mode = "none"
       \/ Allowed(t, session'[t].mode)

(* Session t has just been authenticated.                                  *)
Begins(t) ==
    /\ session'[t].mode = "none"
    /\ session'[t].stage = "share" => Usable(session'[t].shareId)
    /\ session'[t].stage = "managed" =>
          /\ session'[t].key \in lease.keys
          /\ session'[t].gen = lease.gen
          /\ UNCHANGED lease

(* Setting one session to what is not authenticated, or to one that begins *)
(* or continues, leaves the table such a one.                              *)
LEMMA OneSession ==
    ASSUME TypeOK, NEW s \in Sids, NEW p, session' = [session EXCEPT ![s] = p],
           p.stage \in Roles => Begins(s) \/ Continues(s)
    PROVE  \A t \in Sids : Open(t)' => Begins(t) \/ Continues(t)
  <1> SUFFICES ASSUME NEW t \in Sids, Open(t)' PROVE Begins(t) \/ Continues(t)
    OBVIOUS
  <1>1. CASE t = s
    BY <1>1 DEF Open, TypeOK
  <1>2. CASE t # s
    BY <1>2 DEF Open, Continues, TypeOK
  <1>3. QED
    BY <1>1, <1>2

(* Every authenticated session either continues or begins.                 *)
LEMMA SessionSteps ==
    ASSUME TypeOK, [Next]_vars
    PROVE  \A t \in Sids : Open(t)' => Begins(t) \/ Continues(t)
  <1> DEFINE Goal == \A t \in Sids : Open(t)' => Begins(t) \/ Continues(t)
  <1>1. session' = session => Goal
    BY DEF Open, Continues
  <1>2. ASSUME NEW s \in Sids, Close(s)
        PROVE  Goal
    BY <1>2, OneSession DEF Close, Absent, Roles
  <1>3. ASSUME NEW s \in Sids, NEW p \in PreAuth, session' = [session EXCEPT ![s] = p]
        PROVE  Goal
    <2>1. p.stage \notin Roles
      BY SMT DEF PreAuth, Roles
    <2>2. QED
      BY <1>3, <2>1, OneSession
  <1>4. ASSUME NEW s \in Sids, Auth(s)
        PROVE  Goal
    <2>1. CASE CreateFails(s)
      BY <1>1, <2>1 DEF CreateFails
    <2>2. CASE \/ AuthLimit(s) \/ KeyProofWrong(s) \/ SrpProofWrong(s)
               \/ SrpAckFails(s) \/ AuthRejected(s)
      BY <1>2, <2>2
      DEF AuthLimit, KeyProofWrong, SrpProofWrong, SrpAckFails, AuthRejected
    <2>3. CASE SrpHello(s)
      <3>1. \A ready \in BOOLEAN : [Consumed(s) EXCEPT !.hello = ready] \in PreAuth
        BY <2>3, AdmittedTypes, Zenon DEF SrpHello, PreAuth
      <3>2. QED
        BY <1>3, <2>3, <3>1 DEF SrpHello
    <2>4. ASSUME NEW id \in ShareIds, ShareHello(s, id), ~Close(s)
          PROVE  Goal
      <3>1. share[id].prov \in Provisions
        <4>1. Usable(id)
          BY <2>4 DEF ShareHello
        <4>2. QED
          BY <4>1, CleanedType, ShareEntries, SMT DEF Usable, Entries
      <3>2. Consumed(s) \in PreAuth
        BY <2>4, AdmittedTypes DEF ShareHello
      <3>3. \A ready \in BOOLEAN :
               [Consumed(s) EXCEPT !.verifier = share[id].prov, !.shareId = id,
                                   !.hello = ready] \in PreAuth
        BY <3>1, <3>2, Zenon DEF PreAuth
      <3>4. QED
        BY <1>3, <2>4, <3>3 DEF ShareHello
    <2>5. ASSUME NEW k \in Keys, KeyHello(s, k)
          PROVE  Goal
      <3>1. Consumed(s) \in PreAuth
        BY <2>5, AdmittedTypes DEF KeyHello
      <3>2. \A b \in BOOLEAN :
               [Consumed(s) EXCEPT !.challenge = k, !.viaLease = b] \in PreAuth
        BY <3>1, Zenon DEF PreAuth
      <3>3. (k \notin localKeys) \in BOOLEAN
        BY Zenon
      <3>4. QED
        BY <1>3, <2>5, <3>1, <3>2, <3>3 DEF KeyHello
    <2>6. CASE KeyProofRight(s)
      <3> DEFINE k == Found(s).challenge
                 p == Granted(IF Found(s).viaLease THEN "managed" ELSE "full",
                              None, 0, k, lease.gen)
      <3>1. session' = [session EXCEPT ![s] = p] /\ UNCHANGED lease
        BY <2>6 DEF KeyProofRight
      <3>2. session'[s] = p
        BY <3>1 DEF TypeOK
      <3>3. p.stage = "managed" => k \in lease.keys
        BY <2>6 DEF KeyProofRight, IsAuthorized, Granted
      <3>4. Begins(s)
        BY <3>1, <3>2, <3>3 DEF Begins, Granted
      <3>5. QED
        BY <3>1, <3>4, OneSession
    <2>7. CASE SrpProofRight(s)
      <3> DEFINE p == IF Pending(s) = None THEN Granted("full", None, 0, None, 0)
                      ELSE Granted("share", Pending(s), share[Pending(s)].expires,
                                   None, 0)
      <3>1. session' = [session EXCEPT ![s] = p]
        BY <2>7 DEF SrpProofRight
      <3>2. session'[s] = p
        BY <3>1 DEF TypeOK
      <3>3. Begins(s)
        BY <2>7, <3>2 DEF Begins, Granted, SrpProofRight, PendingUsable
      <3>4. QED
        BY <3>1, <3>3, OneSession
    <2>8. QED
      BY <1>2, <1>4, <2>1, <2>2, <2>3, <2>4, <2>5, <2>6, <2>7 DEF Auth
  <1>5. ASSUME NEW s \in Sids, Use(s)
        PROVE  Goal
    <2>1. ASSUME Open(s), NEW m \in Modes,
                 m = "none" \/ Allowed(s, m),
                 session' = [session EXCEPT ![s].mode = m]
          PROVE  Goal
      <3>1. session[s] \in Authenticated
        BY <2>1, Stages DEF Open, TypeOK
      <3>2. session'[s] = [session[s] EXCEPT !.mode = m]
        BY <2>1 DEF TypeOK
      <3>3. Continues(s)
        BY <2>1, <3>1, <3>2, SMT DEF Continues, Authenticated
      <3>4. QED
        BY <2>1, <3>3, OneSession
    <2>2. CASE \E m \in Modes \ {"none"} : Start(s, m)
      BY <2>1, <2>2 DEF Start
    <2>3. CASE Stop(s)
      BY <1>2, <2>1, <2>3 DEF Stop, Modes
    <2>4. CASE SessionEnds(s)
      BY <1>2, <2>4 DEF SessionEnds
    <2>5. CASE \E id \in ShareIds : Revoke(s, id)
      BY <2>5 DEF Revoke, Open, Continues, Absent, Roles
    <2>6. CASE \/ \E id \in ShareIds, ttl \in ShareTtls : Provision(s, id, ttl)
               \/ \E k \in Keys : AddKey(s, k)
      BY <1>1, <2>6 DEF Provision, AddKey
    <2>7. QED
      BY <1>5, <2>2, <2>3, <2>4, <2>5, <2>6 DEF Use
  <1>6. CASE CheckAuthTimeouts
    <2>1. ASSUME NEW t \in Sids, Open(t)'
          PROVE  Continues(t)
      <3>1. \/ session'[t] = Absent
            \/ session'[t] = session[t]
            \/ session'[t] = [session[t] EXCEPT !.gen = lease'.gen]
               /\ session[t].stage = "managed"
        BY <1>6 DEF CheckAuthTimeouts
      <3>2. CASE session'[t] = session[t]
        BY <2>1, <3>2 DEF Open, Continues
      <3>3. CASE session'[t] = [session[t] EXCEPT !.gen = lease'.gen]
                 /\ session[t].stage = "managed"
        <4>1. session[t] \in Authenticated
          BY <3>3, Stages DEF Roles, TypeOK
        <4>2. QED
          BY <1>6, <3>3, <4>1, SMT DEF Open, Continues, Authenticated, Roles
      <3>4. QED
        BY <2>1, <3>1, <3>2, <3>3 DEF Open, Absent, Roles
    <2>2. QED
      BY <2>1
  <1>7. CASE RelayLost
    BY <1>7 DEF RelayLost, Open, Absent, Roles
  <1>8. CASE Tick \/ UNCHANGED vars
    BY <1>1, <1>8 DEF Tick, vars
  <1>9. QED
    BY <1>4, <1>5, <1>6, <1>7, <1>8 DEF Next

(* What a share and a pre-logon host are not allowed is never entered, by  *)
(* any sequence of start, stop and authentication.                         *)
THEOREM ModesHold == Spec => []ModesAllowed
  <1>1. Init => ModesAllowed
    BY DEF Init, ModesAllowed, Open, Absent, Roles
  <1>2. TypeOK /\ ModesAllowed /\ [Next]_vars => ModesAllowed'
    <2> SUFFICES ASSUME TypeOK, ModesAllowed, [Next]_vars, NEW t \in Sids,
                        Open(t)', PreLogon \/ session'[t].stage = "share"
                 PROVE  session'[t].mode \in {"none", "desktop"}
      BY DEF ModesAllowed, Open
    <2>1. CASE Begins(t)
      BY <2>1 DEF Begins
    <2>2. CASE Continues(t)
      BY <2>2 DEF Continues, ModesAllowed, Allowed
    <2>3. QED
      BY <2>1, <2>2, SessionSteps
  <1>3. QED
    BY <1>1, <1>2, TypesHold, PTL DEF Spec

(* An entry that is empty stays so, unless its id is provisioned.          *)
LEMMA EmptyStays ==
    ASSUME TypeOK, [Next]_vars, NEW id \in ShareIds, share[id] = Empty,
           id \in revoked'
    PROVE  share'[id] = Empty
  <1>1. CASE EntriesKept
    BY <1>1 DEF EntriesKept
  <1>2. ASSUME NEW s \in Sids, NEW jd \in ShareIds, NEW ttl \in ShareTtls,
               Provision(s, jd, ttl)
        PROVE  share'[id] = Empty
    <2>1. CASE share' = Cleaned
      BY <1>1, <2>1, CleanedKept
    <2>2. CASE /\ share' = [Cleaned EXCEPT ![jd] =
                     [prov |-> provisions + 1, expires |-> now + ttl,
                      used |-> FALSE, failures |-> 0]]
               /\ revoked' = revoked \ {jd}
      <3>1. id # jd /\ share'[id] = Cleaned[id]
        BY <2>2, CleanedType
      <3>2. QED
        BY <3>1, CleanedType
    <2>3. QED
      BY <1>2, <2>1, <2>2 DEF Provision
  <1>3. ASSUME NEW s \in Sids, SrpProofRight(s)
        PROVE  share'[id] = Empty
    BY <1>1, <1>3, ConsumeKept DEF SrpProofRight
  <1>4. QED
    BY <1>1, <1>2, <1>3, ShareSteps

(* Only a revocation adds to the revoked ids.                              *)
LEMMA RevokedSteps ==
    ASSUME TypeOK, [Next]_vars
    PROVE  \/ revoked' \subseteq revoked
           \/ \E s \in Sids, id \in ShareIds : Revoke(s, id)
  <1> USE DEF sharing
  <1>1. ASSUME NEW s \in Sids, Auth(s)
        PROVE  revoked' = revoked
    BY <1>1 DEF Auth, CreateFails, AuthLimit, SrpHello, ShareHello, KeyHello,
       KeyProofWrong, KeyProofRight, SrpProofWrong, SrpProofRight, SrpAckFails,
       AuthRejected
  <1>2. ASSUME NEW s \in Sids, Use(s)
        PROVE  revoked' \subseteq revoked \/ \E id \in ShareIds : Revoke(s, id)
    BY <1>2 DEF Use, Start, Stop, SessionEnds, Provision, AddKey
  <1>3. CheckAuthTimeouts \/ RelayLost \/ Tick \/ UNCHANGED vars
          => revoked' = revoked
    BY DEF CheckAuthTimeouts, RelayLost, Tick, vars
  <1>4. QED
    BY <1>1, <1>2, <1>3 DEF Next

(* A revocation is final until the id is provisioned again: no session of  *)
(* the share is left, and none of the handshakes that were open for it can *)
(* still complete.                                                         *)
THEOREM RevocationHolds == Spec => []RevokedIsGone
  <1>1. Init => RevokedIsGone
    BY DEF Init, RevokedIsGone
  <1>2. TypeOK /\ RevokedIsGone /\ [Next]_vars => RevokedIsGone'
    <2> SUFFICES ASSUME TypeOK, RevokedIsGone, [Next]_vars, NEW id \in revoked'
                 PROVE  /\ share'[id] = Empty
                        /\ \A t \in Sids : session'[t].stage = "share"
                              => session'[t].shareId # id
      BY DEF RevokedIsGone
    <2>1. id \in ShareIds
      BY TypeNext DEF TypeOK
    <2>2. CASE id \in revoked
      <3>1. share'[id] = Empty
        BY <2>1, <2>2, EmptyStays DEF RevokedIsGone
      <3>2. ASSUME NEW t \in Sids, session'[t].stage = "share"
            PROVE  session'[t].shareId # id
        <4>1. CASE Begins(t)
          <5>1. ~Usable(id)
            BY <2>1, <2>2, CleanedType DEF Usable, RevokedIsGone
          <5>2. QED
            BY <3>2, <4>1, <5>1 DEF Begins
        <4>2. CASE Continues(t)
          BY <2>2, <3>2, <4>2 DEF Continues, RevokedIsGone
        <4>3. QED
          BY <3>2, <4>1, <4>2, SessionSteps DEF Open, Roles
      <3>3. QED
        BY <3>1, <3>2
    <2>3. CASE id \notin revoked
      <3>1. PICK s \in Sids : Revoke(s, id)
        BY <2>3, RevokedSteps DEF Revoke
      <3>2. share'[id] = Empty
        BY <2>1, <3>1 DEF Revoke, TypeOK
      <3>3. \A t \in Sids : session'[t].stage = "share" => session'[t].shareId # id
        BY <3>1 DEF Revoke, Absent
      <3>4. QED
        BY <3>2, <3>3
    <2>4. QED
      BY <2>2, <2>3
  <1>3. QED
    BY <1>1, <1>2, TypesHold, PTL DEF Spec

-----------------------------------------------------------------------------
(* The key lease.                                                          *)

(* A sync that leaves the generation alone leaves the set of keys alone:   *)
(* it bumps the generation twice at most, which cannot go full circle.     *)
LEMMA GenerationTells ==
    ASSUME NEW l \in Leases(Keys), NEW t \in Nat,
           NEW r \in Synced(l, t, Keys, LeaseTtls), r.gen = l.gen
    PROVE  r.keys = l.keys
  <1> USE GenerationAssumption
  <1> DEFINE g1 == Bump(l.gen)
             g2 == Bump(g1)
  <1>1. l.gen \in Generations
    BY SMT DEF Leases
  <1>2. g1 # l.gen /\ g2 # l.gen
    BY <1>1, SMT DEF Bump, Generations
  <1>3. PICK kept \in {l, Clear(l)} :
          r \in {kept, Clear(kept)} \cup
                UNION {Install(kept, ks, t + ttl) : ks \in SUBSET Keys, ttl \in LeaseTtls}
    BY DEF Synced
  <1>4. CASE r \in {kept, Clear(kept)}
    BY <1>2, <1>3, <1>4 DEF Clear
  <1>5. CASE r \in UNION {Install(kept, ks, t + ttl) : ks \in SUBSET Keys, ttl \in LeaseTtls}
    <2>1. PICK ks \in SUBSET Keys, ttl \in LeaseTtls : r \in Install(kept, ks, t + ttl)
      BY <1>5
    <2>2. \/ r.gen = Bump(kept.gen)
          \/ kept.until > 0 /\ kept.keys = ks /\ r.gen = kept.gen
      BY <2>1 DEF Install
    <2>3. r.keys = ks
      BY <2>1 DEF Install
    <2>4. CASE kept = l
      BY <1>2, <2>2, <2>3, <2>4
    <2>5. CASE kept = Clear(l)
      BY <1>2, <2>2, <2>5, SMT DEF Clear
    <2>6. QED
      BY <1>3, <2>4, <2>5
  <1>6. QED
    BY <1>3, <1>4, <1>5

(* The invariant behind GenerationIsTrue: between two steps every managed  *)
(* session remembers the current generation, and its key is in the set.    *)
LeaseInv ==
    \A s \in Sids : session[s].stage = "managed" =>
        session[s].gen = lease.gen /\ session[s].key \in lease.keys

(* Only housekeeping touches the lease.                                    *)
LEMMA LeaseSteps ==
    ASSUME [Next]_vars
    PROVE  lease' = lease \/ CheckAuthTimeouts
  <1>1. ASSUME NEW s \in Sids, Auth(s)
        PROVE  lease' = lease
    BY <1>1 DEF Auth, CreateFails, AuthLimit, SrpHello, ShareHello, KeyHello,
       KeyProofWrong, KeyProofRight, SrpProofWrong, SrpProofRight, SrpAckFails,
       AuthRejected
  <1>2. ASSUME NEW s \in Sids, Use(s)
        PROVE  lease' = lease
    BY <1>2 DEF Use, Start, Stop, SessionEnds, Provision, Revoke, AddKey
  <1>3. QED
    BY <1>1, <1>2 DEF Next, RelayLost, Tick, vars

(* After a housekeeping pass a managed session has survived the recheck    *)
(* against the new lease, and remembers its generation.                    *)
LEMMA PassManaged ==
    ASSUME TypeOK, LeaseInv, CheckAuthTimeouts, NEW t \in Sids,
           session'[t].stage = "managed"
    PROVE  /\ session'[t].gen = lease'.gen
           /\ session'[t].key \in lease'.keys
           /\ InForce(lease', now)
  <1>1. session[t].stage = "managed" /\ ~Ending(session[t], lease')
        /\ session'[t] = [session[t] EXCEPT !.gen = lease'.gen]
    BY DEF CheckAuthTimeouts, Absent
  <1>2. session[t] \in Authenticated
    BY <1>1, Stages DEF Roles, TypeOK
  <1>3. session'[t].gen = lease'.gen /\ session'[t].key = session[t].key
    BY <1>1, <1>2, SMT DEF Authenticated
  <1>4. Recheck(lease', session[t].key, session[t].gen, now)
    BY <1>1 DEF Ending
  <1>5. CASE session[t].gen = lease'.gen
    <2>1. lease'.gen = lease.gen /\ session[t].key \in lease.keys
      BY <1>1, <1>5 DEF LeaseInv
    <2>2. lease'.keys = lease.keys
      BY <2>1, GenerationTells DEF CheckAuthTimeouts, TypeOK, Times
    <2>3. QED
      BY <1>3, <1>4, <2>1, <2>2 DEF Recheck
  <1>6. CASE session[t].gen # lease'.gen
    BY <1>3, <1>4, <1>6 DEF Recheck
  <1>7. QED
    BY <1>5, <1>6

(* The invariant holds.                                                    *)
LEMMA LeaseInvHolds == Spec => []LeaseInv
  <1>1. Init => LeaseInv
    BY DEF Init, LeaseInv, Absent
  <1>2. TypeOK /\ LeaseInv /\ [Next]_vars => LeaseInv'
    <2> SUFFICES ASSUME TypeOK, LeaseInv, [Next]_vars, NEW t \in Sids,
                        session'[t].stage = "managed"
                 PROVE  session'[t].gen = lease'.gen /\ session'[t].key \in lease'.keys
      BY DEF LeaseInv
    <2>1. CASE CheckAuthTimeouts
      BY <2>1, PassManaged
    <2>2. CASE Begins(t) /\ ~CheckAuthTimeouts
      BY <2>2, LeaseSteps DEF Begins
    <2>3. CASE Continues(t) /\ ~CheckAuthTimeouts
      BY <2>3, LeaseSteps DEF Continues, LeaseInv
    <2>4. QED
      BY <2>1, <2>2, <2>3, SessionSteps DEF Open, Roles
  <1>3. QED
    BY <1>1, <1>2, TypesHold, PTL DEF Spec

(* The remembered generation may be trusted: a session that has the one of *)
(* the lease has its key in the set, though the generation wraps.          *)
THEOREM GenerationHolds == Spec => []GenerationIsTrue
  <1>1. LeaseInv => GenerationIsTrue
    BY DEF LeaseInv, GenerationIsTrue
  <1>2. QED
    BY <1>1, LeaseInvHolds, PTL

(* A housekeeping pass leaves no session whose time is over, for any       *)
(* number of sessions and keys.                                            *)
THEOREM PassHolds == Spec => PassIsComplete
  <1> DEFINE Over == \A s \in Sids :
        /\ session'[s].stage = "preauth" => now - session'[s].created < AuthTimeout
        /\ session'[s].stage = "share" => now < session'[s].expires
        /\ session'[s].stage = "managed" =>
              IsAuthorized(lease', session'[s].key, now)
  <1>1. ASSUME TypeOK, LeaseInv, [Next]_vars, CheckAuthTimeouts
        PROVE  Over
    <2> SUFFICES ASSUME NEW s \in Sids
                 PROVE  /\ session'[s].stage = "preauth" =>
                             now - session'[s].created < AuthTimeout
                        /\ session'[s].stage = "share" => now < session'[s].expires
                        /\ session'[s].stage = "managed" =>
                              IsAuthorized(lease', session'[s].key, now)
      OBVIOUS
    <2>1. session[s] \in Sessions /\ now \in Nat
      BY <1>1 DEF TypeOK, Times
    <2>2. ASSUME session'[s].stage = "preauth"
          PROVE  now - session'[s].created < AuthTimeout
      <3>1. session'[s] = session[s] /\ ~Ending(session[s], lease')
        <4>1. session'[s] # Absent
          BY <2>2 DEF Absent
        <4>2. CASE session[s].stage = "managed"
          <5>1. session[s] \in Authenticated
            BY <2>1, <4>2, Stages DEF Roles
          <5>2. [session[s] EXCEPT !.gen = lease'.gen].stage = "managed"
            BY <4>2, <5>1, SMT DEF Authenticated
          <5>3. QED
            BY <1>1, <2>2, <4>1, <4>2, <5>2 DEF CheckAuthTimeouts
        <4>3. QED
          BY <1>1, <4>1, <4>2 DEF CheckAuthTimeouts
      <3>2. session[s].created \in Nat
        BY <2>1, <2>2, <3>1, Stages, SMT DEF PreAuth, Times
      <3>3. ~(now - session[s].created >= AuthTimeout)
        BY <2>2, <3>1 DEF Ending
      <3>4. QED
        BY <2>1, <3>1, <3>2, <3>3, SessionsAssumption, SMT
    <2>3. ASSUME session'[s].stage = "share"
          PROVE  now < session'[s].expires
      <3>1. session'[s] = session[s] /\ ~Ending(session[s], lease')
        <4>1. session'[s] # Absent
          BY <2>3 DEF Absent
        <4>2. CASE session[s].stage = "managed"
          <5>1. session[s] \in Authenticated
            BY <2>1, <4>2, Stages DEF Roles
          <5>2. [session[s] EXCEPT !.gen = lease'.gen].stage = "managed"
            BY <4>2, <5>1, SMT DEF Authenticated
          <5>3. QED
            BY <1>1, <2>3, <4>1, <4>2, <5>2 DEF CheckAuthTimeouts
        <4>3. QED
          BY <1>1, <4>1, <4>2 DEF CheckAuthTimeouts
      <3>2. session[s].expires \in Nat
        BY <2>1, <2>3, <3>1, Stages, SMT DEF Authenticated, Roles
      <3>3. ~(now >= session[s].expires)
        BY <2>3, <3>1 DEF Ending
      <3>4. QED
        BY <2>1, <3>1, <3>2, <3>3, SMT
    <2>4. ASSUME session'[s].stage = "managed"
          PROVE  IsAuthorized(lease', session'[s].key, now)
      BY <1>1, <2>4, PassManaged DEF IsAuthorized
    <2>5. QED
      BY <2>2, <2>3, <2>4
  <1>2. TypeOK /\ LeaseInv /\ [Next]_vars => [CheckAuthTimeouts => Over]_vars
    BY <1>1
  <1>3. QED
    BY <1>2, TypesHold, LeaseInvHolds, PTL DEF Spec, PassIsComplete

-----------------------------------------------------------------------------
(* The throttle.                                                           *)

(* Only the end of a proof touches the lockout, and only time the clock.   *)
LEMMA LockoutSteps ==
    ASSUME [Next]_vars
    PROVE  \/ UNCHANGED <<now, failures, lockedUntil>>
           \/ NoteAuthFailure /\ UNCHANGED now
           \/ NoteAuthSuccess /\ UNCHANGED now
           \/ Tick
  <1> USE DEF lockout
  <1>1. ASSUME NEW s \in Sids, Auth(s)
        PROVE  /\ UNCHANGED now
               /\ UNCHANGED <<failures, lockedUntil>> \/ NoteAuthFailure
                  \/ NoteAuthSuccess
    BY <1>1 DEF Auth, CreateFails, AuthLimit, SrpHello, ShareHello, KeyHello,
       KeyProofWrong, KeyProofRight, SrpProofWrong, SrpProofRight, SrpAckFails,
       AuthRejected
  <1>2. ASSUME NEW s \in Sids, Use(s)
        PROVE  UNCHANGED <<now, failures, lockedUntil>>
    BY <1>2 DEF Use, Start, Stop, SessionEnds, Provision, Revoke, AddKey
  <1>3. QED
    BY <1>1, <1>2 DEF Next, CheckAuthTimeouts, RelayLost, vars

(* Nobody is locked out without failures past the grace, and nobody for    *)
(* longer than the longest lockout, however many failures there were.      *)
THEOREM LockoutHolds == Spec => []LockoutIsBounded
  <1> USE SessionsAssumption
  <1>1. Init => LockoutIsBounded
    BY SMT DEF Init, LockoutIsBounded, Locked
  <1>2. TypeOK /\ LockoutIsBounded /\ [Next]_vars => LockoutIsBounded'
    <2> SUFFICES ASSUME TypeOK, LockoutIsBounded, [Next]_vars
                 PROVE  LockoutIsBounded'
      OBVIOUS
    <2>1. now \in Nat \ {0} /\ failures \in Nat /\ lockedUntil \in Int
      BY SMT DEF TypeOK, Times
    <2>2. CASE UNCHANGED <<now, failures, lockedUntil>>
      BY <2>2 DEF LockoutIsBounded, Locked
    <2>3. CASE NoteAuthFailure /\ UNCHANGED now
      <3>1. CASE failures + 1 <= FailureGrace
        BY <2>1, <2>3, <3>1, SMT DEF NoteAuthFailure, LockoutIsBounded, Locked
      <3>2. CASE failures + 1 > FailureGrace
        <4>1. failures - FailureGrace \in Nat
          BY <2>1, <3>2, SMT
        <4>2. /\ Delay(failures - FailureGrace) \in Int
              /\ Delay(failures - FailureGrace) <= LockoutMax
          BY <4>1, DelayBound
        <4>3. QED
          BY <2>1, <2>3, <3>2, <4>2, SMT
          DEF NoteAuthFailure, LockoutIsBounded, Locked
      <3>3. QED
        BY <2>1, <3>1, <3>2, SMT
    <2>4. CASE NoteAuthSuccess /\ UNCHANGED now
      BY <2>1, <2>4, SMT DEF NoteAuthSuccess, LockoutIsBounded, Locked
    <2>5. CASE Tick
      BY <2>1, <2>5, SMT DEF Tick, lockout, LockoutIsBounded, Locked
    <2>6. QED
      BY <2>2, <2>3, <2>4, <2>5, LockoutSteps
  <1>3. QED
    BY <1>1, <1>2, TypesHold, PTL DEF Spec

(* Two to the n is the number of subsets of a set of n, of which there is   *)
(* one at least: the shift of NoteAuthFailure never makes a delay shorter.  *)
LEMMA PowerOfTwo ==
    ASSUME NEW n \in Nat
    PROVE  2^n \in Nat /\ 2^n >= 1
<1>1. IsFiniteSet(1 .. n) /\ Cardinality(1 .. n) = n
  <2>1. IsFiniteSet(1 .. n) /\ Cardinality(1 .. n) = IF 1 > n THEN 0 ELSE n - 1 + 1
    BY FS_Interval
  <2> QED BY <2>1
<1>2. IsFiniteSet(SUBSET (1 .. n)) /\ Cardinality(SUBSET (1 .. n)) = 2^n
  <2>1. IsFiniteSet(SUBSET (1 .. n)) /\ Cardinality(SUBSET (1 .. n)) = 2^Cardinality(1 .. n)
    BY <1>1, FS_SUBSET
  <2> QED BY <1>1, <2>1
<1>3. Cardinality(SUBSET (1 .. n)) \in Nat /\ Cardinality(SUBSET (1 .. n)) # 0
  <2>1. {} \in SUBSET (1 .. n)
    OBVIOUS
  <2>2. SUBSET (1 .. n) # {}
    BY <2>1
  <2>3. Cardinality(SUBSET (1 .. n)) \in Nat
    BY <1>2, FS_CardinalityType
  <2>4. Cardinality(SUBSET (1 .. n)) # 0
    BY <1>2, <2>2, FS_EmptySet
  <2> QED BY <2>3, <2>4
<1>4. 2^n \in Nat /\ 2^n # 0
  BY <1>2, <1>3, Zenon
<1>5. \A x \in Nat : x # 0 => x >= 1
  OBVIOUS
<1> QED BY <1>4, <1>5, Zenon

(* Past the grace a failed proof locks the table for the shortest lockout   *)
(* at least.                                                                *)
LEMMA DelayAtLeast ==
    ASSUME NEW n \in Nat
    PROVE  Delay(n) \in Int /\ Delay(n) >= LockoutBase
<1>1. LockoutBase \in Nat \ {0} /\ LockoutMax \in Nat /\ LockoutBase <= LockoutMax
  BY SessionsAssumption
<1>2. 2^n \in Nat /\ 2^n >= 1
  BY PowerOfTwo
<1>3. \A b \in Nat, k \in Nat : k >= 1 => b * k >= b /\ b * k \in Nat
  <2> SUFFICES ASSUME NEW b \in Nat, NEW j \in Nat PROVE b * (j + 1) >= b /\ b * (j + 1) \in Nat
    <3>1. \A k \in Nat : k >= 1 => k - 1 \in Nat /\ k = (k - 1) + 1
      OBVIOUS
    <3> QED BY <3>1
  <2> QED OBVIOUS
<1>4. LockoutBase * 2^n >= LockoutBase /\ LockoutBase * 2^n \in Nat
  <2>1. LockoutBase \in Nat
    BY <1>1
  <2> QED BY <1>2, <1>3, <2>1, Zenon
<1>5. Delay(n) \in {LockoutBase * 2^n, LockoutMax}
  BY DEF Delay
<1>7. Delay(n) = LockoutBase * 2^n => Delay(n) \in Nat /\ Delay(n) >= LockoutBase
  BY <1>4, Zenon
<1>8. Delay(n) = LockoutMax => Delay(n) \in Nat /\ Delay(n) >= LockoutBase
  BY <1>1
<1>9. Delay(n) \in Nat /\ Delay(n) >= LockoutBase
  BY <1>5, <1>7, <1>8, Zenon
<1>10. Nat \subseteq Int
  OBVIOUS
<1> QED BY <1>9, <1>10, Zenon

Handshakes == {s \in Sids : Handshaking(s)}

(* What one authentication message does to the table and to the throttle: a *)
(* failed proof ends the handshake it was made in, and a session is made    *)
(* while nothing is locked and a slot is free.                              *)
LEMMA AuthSteps ==
    ASSUME TypeOK, NEW s \in Sids, Auth(s)
    PROVE  /\ UNCHANGED now
           /\ \A t \in Sids \ {s} : session'[t] = session[t]
           /\ session'[s] = session[s] \/ session'[s] = Absent \/ Admitted(s)
           /\ \/ UNCHANGED lockout
              \/ NoteAuthFailure /\ Admitted(s) /\ session'[s] = Absent
              \/ NoteAuthSuccess
<1>1. session \in [Sids -> Sessions]
  BY DEF TypeOK
<1>2. \A p : session' = [session EXCEPT ![s] = p] =>
        session'[s] = p /\ \A t \in Sids \ {s} : session'[t] = session[t]
  BY <1>1
<1>3. Close(s) => session'[s] = Absent /\ \A t \in Sids \ {s} : session'[t] = session[t]
  BY <1>2 DEF Close
<1>4. CASE CreateFails(s)
  BY <1>4 DEF CreateFails
<1>5. CASE AuthLimit(s)
  BY <1>3, <1>5 DEF AuthLimit
<1>6. CASE SrpHello(s)
  BY <1>2, <1>6 DEF SrpHello, MayConsume
<1>7. ASSUME NEW id \in ShareIds, ShareHello(s, id)
      PROVE  /\ UNCHANGED <<now, lockout>> /\ Admitted(s)
             /\ \A t \in Sids \ {s} : session'[t] = session[t]
  BY <1>2, <1>3, <1>7 DEF ShareHello, MayConsume
<1>8. ASSUME NEW k \in Keys, KeyHello(s, k)
      PROVE  /\ UNCHANGED <<now, lockout>> /\ Admitted(s)
             /\ \A t \in Sids \ {s} : session'[t] = session[t]
  BY <1>2, <1>8 DEF KeyHello, MayConsume
<1>9. CASE KeyProofWrong(s)
  BY <1>3, <1>9 DEF KeyProofWrong, MayConsume
<1>10. CASE KeyProofRight(s)
  BY <1>2, <1>10 DEF KeyProofRight, MayConsume
<1>11. CASE SrpProofWrong(s)
  BY <1>3, <1>11 DEF SrpProofWrong, MayConsume
<1>12. CASE SrpProofRight(s)
  BY <1>2, <1>12 DEF SrpProofRight, MayConsume
<1>13. CASE SrpAckFails(s)
  BY <1>3, <1>13 DEF SrpAckFails, MayConsume
<1>14. CASE AuthRejected(s)
  BY <1>3, <1>14 DEF AuthRejected, MayConsume
<1> QED BY <1>4, <1>5, <1>6, <1>7, <1>8, <1>9, <1>10, <1>11, <1>12, <1>13, <1>14 DEF Auth

(* The entry of t is closed, left alone, or goes on authenticated.          *)
Fades(t) ==
    \/ session'[t] = Absent \/ session'[t] = session[t]
    \/ session[t].stage \in Roles /\ session'[t].stage \in Roles

LEMMA FadingIsFewer ==
    (\A t \in Sids : Fades(t)) => Live' \subseteq Live /\ Handshakes' \subseteq Handshakes
<1> SUFFICES ASSUME \A t \in Sids : Fades(t)
             PROVE  Live' \subseteq Live /\ Handshakes' \subseteq Handshakes
  OBVIOUS
<1>1. Absent.stage = "absent"
  BY DEF Absent
<1>2. \A t \in Sids : session'[t] # Absent => session[t] # Absent
  BY <1>1 DEF Roles, Fades
<1>3. \A t \in Sids : session'[t].stage = "preauth" => session[t].stage = "preauth"
  BY <1>1 DEF Roles, Fades
<1> QED BY <1>2, <1>3 DEF Live, Handshakes, Handshaking

(* Nothing else makes a session or a handshake.                             *)
LEMMA OtherSteps ==
    ASSUME TypeOK, TypeOK',
           \/ \E s \in Sids : Use(s)
           \/ CheckAuthTimeouts \/ RelayLost \/ Tick \/ UNCHANGED vars
    PROVE  /\ Live' \subseteq Live /\ Handshakes' \subseteq Handshakes
           /\ UNCHANGED <<failures, streak, lockedUntil>>
           /\ now' \in {now, now + 1}
<1> DEFINE Fewer == \A t \in Sids : Fades(t)
           Goal == Fewer /\ UNCHANGED <<failures, streak, lockedUntil>> /\ now' \in {now, now + 1}
<1>2. session' = session => Fewer
  BY DEF Fades
<1>3. session \in [Sids -> Sessions]
  BY DEF TypeOK
<1>4. ASSUME NEW s \in Sids, Close(s) PROVE Fewer
  BY <1>3, <1>4 DEF Close, Fades
<1>5. ASSUME NEW s \in Sids, Use(s)
      PROVE  Fewer /\ UNCHANGED <<now, lockout>>
  <2>1. ASSUME Open(s), NEW m \in Modes, session' = [session EXCEPT ![s].mode = m]
        PROVE  Fewer
    <3>1. session[s] \in Authenticated
      BY <2>1, Stages DEF Open, TypeOK
    <3>2. session'[s] = [session[s] EXCEPT !.mode = m]
          /\ \A t \in Sids \ {s} : session'[t] = session[t]
      BY <1>3, <2>1
    <3>3. session'[s].stage = session[s].stage
      BY <3>1, <3>2 DEF Authenticated
    <3> QED BY <2>1, <3>2, <3>3 DEF Open, Fades
  <2>2. CASE \E m \in Modes \ {"none"} : Start(s, m)
    BY <2>1, <2>2 DEF Start
  <2>3. CASE Stop(s)
    <3>1. "none" \in Modes
      BY DEF Modes
    <3> QED BY <1>4, <2>1, <2>3, <3>1 DEF Stop
  <2>4. CASE SessionEnds(s)
    BY <1>4, <2>4 DEF SessionEnds
  <2>5. CASE \E id \in ShareIds : Revoke(s, id)
    BY <2>5 DEF Revoke, Fades
  <2>6. CASE \/ \E id \in ShareIds, ttl \in ShareTtls : Provision(s, id, ttl)
             \/ \E k \in Keys : AddKey(s, k)
    BY <1>2, <2>6 DEF Provision, AddKey
  <2> QED BY <1>5, <2>2, <2>3, <2>4, <2>5, <2>6 DEF Use
<1>6. ASSUME CheckAuthTimeouts PROVE Goal
  <2>1. ASSUME NEW t \in Sids
        PROVE  Fades(t)
    <3>1. \/ session'[t] = Absent
          \/ session'[t] = session[t]
          \/ session'[t] = [session[t] EXCEPT !.gen = lease'.gen]
             /\ session[t].stage = "managed"
      BY <1>6 DEF CheckAuthTimeouts
    <3>2. CASE session'[t] = [session[t] EXCEPT !.gen = lease'.gen]
               /\ session[t].stage = "managed"
      <4>1. session[t] \in Authenticated
        BY <3>2, Stages DEF Roles, TypeOK
      <4> QED BY <3>2, <4>1 DEF Authenticated, Roles, Fades
    <3> QED BY <3>1, <3>2 DEF Fades
  <2> QED BY <1>6, <2>1 DEF CheckAuthTimeouts, lockout
<1>7. ASSUME RelayLost PROVE Goal
  BY <1>7 DEF RelayLost, lockout, Fades
<1>8. ASSUME Tick \/ UNCHANGED vars PROVE Goal
  BY <1>2, <1>8 DEF Tick, vars, lockout
<1>9. Goal
  BY <1>5, <1>6, <1>7, <1>8 DEF lockout
<1> QED BY <1>9, FadingIsFewer

(* The sums the invariant is kept by.                                       *)
LEMMA LaterThan ==
    ASSUME NEW t \in Int, NEW b \in Int, NEW u \in Int, NEW l \in Int, u <= t, l >= t + b
    PROVE  l >= u + b
OBVIOUS

LEMMA OneFailureMore ==
    ASSUME NEW f \in Int, NEW h \in Int, NEW g \in Int, NEW m \in Int, NEW k \in Int,
           f + h <= g + m, k <= h - 1
    PROVE  (f + 1) + k <= g + m
OBVIOUS

LEMMA FewerHandshakes ==
    ASSUME NEW f \in Int, NEW h \in Int, NEW g \in Int, NEW m \in Int, NEW k \in Int,
           f + h <= g + m, k <= h
    PROVE  f + k <= g + m
OBVIOUS

LEMMA FirstPastGrace ==
    ASSUME NEW g \in Int, NEW m \in Int, NEW k \in Int, k <= m - 1
    PROVE  (g + 1) + k <= g + m
OBVIOUS

(* The table is never overfull, and once the failures are past the grace    *)
(* the handshakes that are left can only raise them by their number while   *)
(* the first lockout lasts.                                                 *)
ThrottleInv ==
    /\ IsFiniteSet(Live) /\ Cardinality(Live) <= MaxSessions
    /\ failures > 0 => streak <= now
    /\ failures > FailureGrace => lockedUntil >= streak + LockoutBase
    /\ failures > FailureGrace /\ now < streak + LockoutBase =>
          failures + Cardinality(Handshakes) <= FailureGrace + MaxSessions

LEMMA LiveCounts ==
    ASSUME TypeOK, IsFiniteSet(Live)
    PROVE  /\ Handshakes \subseteq Live /\ IsFiniteSet(Handshakes)
           /\ Cardinality(Live) \in Nat /\ Cardinality(Handshakes) \in Nat
           /\ Cardinality(Handshakes) <= Cardinality(Live)
<1>1. Handshakes \subseteq Live
  BY DEF Handshakes, Handshaking, Live, Absent
<1> QED BY <1>1, FS_Subset, FS_CardinalityType

LEMMA ThrottleNext == TypeOK /\ TypeOK' /\ ThrottleInv /\ [Next]_vars => ThrottleInv'
<1> SUFFICES ASSUME TypeOK, TypeOK', ThrottleInv, [Next]_vars PROVE ThrottleInv'
  OBVIOUS
<1> DEFINE h == Cardinality(Handshakes)
<1>1. /\ now \in Nat /\ now' \in Nat /\ failures \in Nat /\ failures' \in Nat
      /\ streak \in Nat /\ streak' \in Nat /\ lockedUntil \in Int /\ lockedUntil' \in Int
  BY SessionsAssumption DEF TypeOK, Times
<1>2. FailureGrace \in Nat /\ MaxSessions \in Nat /\ MaxSessions > 0
      /\ LockoutBase \in Nat /\ LockoutBase > 0
  BY SessionsAssumption
<1>3. /\ Handshakes \subseteq Live /\ IsFiniteSet(Handshakes) /\ IsFiniteSet(Live)
      /\ Cardinality(Live) \in Nat /\ h \in Nat /\ h <= Cardinality(Live)
      /\ Cardinality(Live) <= MaxSessions
  BY LiveCounts DEF ThrottleInv
<1>4. ASSUME Live' \subseteq Live
      PROVE  IsFiniteSet(Live') /\ Cardinality(Live') <= MaxSessions
             /\ Cardinality(Live') <= Cardinality(Live) /\ Cardinality(Live') \in Nat
  <2>1. IsFiniteSet(Live') /\ Cardinality(Live') <= Cardinality(Live)
    BY <1>3, <1>4, FS_Subset
  <2>2. Cardinality(Live') \in Nat
    BY <2>1, FS_CardinalityType
  <2> QED BY <1>2, <1>3, <2>1, <2>2
<1>5. ASSUME Handshakes' \subseteq Handshakes
      PROVE  h' \in Nat /\ h' <= h
  BY <1>3, <1>5, FS_Subset, FS_CardinalityType
<1>6. CASE \E s \in Sids : Auth(s)
  <2>1. PICK s \in Sids : Auth(s)
    BY <1>6
  <2>2. /\ UNCHANGED now
        /\ \A t \in Sids \ {s} : session'[t] = session[t]
        /\ session'[s] = session[s] \/ session'[s] = Absent \/ Admitted(s)
        /\ \/ UNCHANGED lockout
           \/ NoteAuthFailure /\ Admitted(s) /\ session'[s] = Absent
           \/ NoteAuthSuccess
    BY <2>1, AuthSteps
  <2>3. Live' \subseteq Live \cup {s} /\ Handshakes' \subseteq Handshakes \cup {s}
    BY <2>2 DEF Live, Handshakes, Handshaking
  <2>4. s \notin Live' => Live' \subseteq Live
    BY <2>3
  <2>5. CASE Live' \subseteq Live /\ Handshakes' \subseteq Handshakes /\ UNCHANGED lockout
    <3>1. UNCHANGED <<failures, streak, lockedUntil, now>>
      BY <2>2, <2>5 DEF lockout
    <3>2. IsFiniteSet(Live') /\ Cardinality(Live') <= MaxSessions /\ h' \in Nat /\ h' <= h
      BY <1>4, <1>5, <2>5
    <3> HIDE DEF h
    <3> QED BY <1>1, <1>2, <1>3, <3>1, <3>2 DEF ThrottleInv, h
  <2>6. ASSUME ~(Live' \subseteq Live /\ Handshakes' \subseteq Handshakes)
        PROVE  session[s] = Absent /\ ~Locked /\ Cardinality(Live) < MaxSessions
    <3>1. session'[s] = session[s] => Live' \subseteq Live /\ Handshakes' \subseteq Handshakes
      BY <2>2 DEF Live, Handshakes, Handshaking
    <3>2. session'[s] = Absent => Live' \subseteq Live /\ Handshakes' \subseteq Handshakes
      BY <2>2 DEF Live, Handshakes, Handshaking, Absent
    <3>3. Handshaking(s) => s \in Live /\ s \in Handshakes
      BY <1>3 DEF Handshakes
    <3>4. ~Handshaking(s)
      BY <2>3, <2>6, <3>3
    <3> QED BY <2>2, <2>6, <3>1, <3>2, <3>4 DEF Admitted, CountAttempt
  <2>7. IsFiniteSet(Live') /\ Cardinality(Live') <= MaxSessions
    <3>1. CASE Live' \subseteq Live
      BY <1>4, <3>1
    <3>2. CASE ~(Live' \subseteq Live)
      <4>1. Cardinality(Live) < MaxSessions
        BY <2>6, <3>2
      <4>2. IsFiniteSet(Live \cup {s}) /\ Cardinality(Live \cup {s}) <= Cardinality(Live) + 1
        <5>1. /\ IsFiniteSet(Live \cup {s})
              /\ Cardinality(Live \cup {s}) = IF s \in Live THEN Cardinality(Live) ELSE Cardinality(Live) + 1
          BY <1>3, FS_AddElement
        <5> QED BY <1>3, <5>1
      <4>3. IsFiniteSet(Live') /\ Cardinality(Live') <= Cardinality(Live \cup {s})
            /\ Cardinality(Live') \in Nat /\ Cardinality(Live \cup {s}) \in Nat
        BY <2>3, <4>2, FS_Subset, FS_CardinalityType
      <4> QED BY <1>2, <1>3, <4>1, <4>2, <4>3
    <3> QED BY <3>1, <3>2
  <2>8. CASE UNCHANGED lockout /\ ~(Live' \subseteq Live /\ Handshakes' \subseteq Handshakes)
    <3>1. UNCHANGED <<failures, streak, lockedUntil, now>>
      BY <2>2, <2>8 DEF lockout
    <3>2. lockedUntil <= now
      BY <1>1, <2>6, <2>8 DEF Locked
    <3>3. failures > FailureGrace => lockedUntil >= streak + LockoutBase
      BY DEF ThrottleInv
    <3>4. ~(failures > FailureGrace /\ now < streak + LockoutBase)
      BY <1>1, <1>2, <3>2, <3>3
    <3> QED BY <2>7, <3>1, <3>4 DEF ThrottleInv
  <2>9. CASE NoteAuthSuccess
    <3>1. failures' = 0
      BY <2>9 DEF NoteAuthSuccess
    <3>2. ~(failures' > 0) /\ ~(failures' > FailureGrace)
      BY <1>2, <3>1
    <3> QED BY <2>7, <3>2 DEF ThrottleInv
  <2>10. CASE NoteAuthFailure /\ Admitted(s) /\ session'[s] = Absent
    <3>1. Live' \subseteq Live /\ Handshakes' \subseteq Handshakes \ {s}
      BY <2>2, <2>10 DEF Live, Handshakes, Handshaking, Absent
    <3>2. h' \in Nat /\ h' <= h /\ IsFiniteSet(Live') /\ Cardinality(Live') <= Cardinality(Live)
          /\ Cardinality(Live') \in Nat /\ h' <= Cardinality(Live')
      <4>1. h' \in Nat /\ h' <= h /\ IsFiniteSet(Live') /\ Cardinality(Live') <= Cardinality(Live)
            /\ Cardinality(Live') \in Nat
        BY <1>4, <1>5, <3>1
      <4>2. Handshakes' \subseteq Live'
        BY DEF Handshakes, Handshaking, Live, Absent
      <4>3. h' <= Cardinality(Live')
        BY <4>1, <4>2, FS_Subset
      <4> QED BY <4>1, <4>3
    <3>3. h' <= h - 1 \/ (~Locked /\ Cardinality(Live) < MaxSessions)
      <4>1. CASE Handshaking(s)
        <5>1. s \in Handshakes
          BY <4>1 DEF Handshakes
        <5>2. IsFiniteSet(Handshakes \ {s}) /\ Cardinality(Handshakes \ {s}) = h - 1
          BY <1>3, <5>1, FS_RemoveElement
        <5>3. h' <= Cardinality(Handshakes \ {s})
          BY <3>1, <5>2, FS_Subset
        <5> QED BY <5>2, <5>3
      <4>2. CASE ~Handshaking(s)
        BY <2>10, <4>2 DEF Admitted, CountAttempt
      <4> QED BY <4>1, <4>2
    <3>4. failures' = failures + 1 /\ streak' = (IF failures = 0 THEN now ELSE streak)
      BY <2>10 DEF NoteAuthFailure
    <3>5. streak' <= now
      BY <1>1, <3>4 DEF ThrottleInv
    <3>6. failures' > FailureGrace => lockedUntil' >= now + LockoutBase
      <4> SUFFICES ASSUME failures' > FailureGrace PROVE lockedUntil' >= now + LockoutBase
        OBVIOUS
      <4>1. failures - FailureGrace \in Nat /\ ~(failures + 1 <= FailureGrace)
        BY <1>1, <1>2, <3>4
      <4>2. Delay(failures - FailureGrace) \in Int /\ Delay(failures - FailureGrace) >= LockoutBase
        BY <4>1, DelayAtLeast
      <4>3. lockedUntil' = now + Delay(failures - FailureGrace)
        BY <2>10, <4>1 DEF NoteAuthFailure
      <4> QED BY <1>1, <1>2, <4>2, <4>3
    <3>7. failures' > FailureGrace => lockedUntil' >= streak' + LockoutBase
      <4>1. now \in Int /\ LockoutBase \in Int /\ streak' \in Int /\ lockedUntil' \in Int
        BY <1>1, <1>2
      <4> QED BY <3>5, <3>6, <4>1, LaterThan
    <3>8. ASSUME failures' > FailureGrace, now < streak' + LockoutBase
          PROVE  failures' + h' <= FailureGrace + MaxSessions
      <4>1. CASE failures = FailureGrace
        <5>1. h' <= MaxSessions - 1
          <6> HIDE DEF h
          <6> QED BY <1>2, <1>3, <3>2, <3>3
        <5>2. FailureGrace \in Int /\ MaxSessions \in Int /\ h' \in Int
          BY <1>2, <3>2
        <5>3. (FailureGrace + 1) + h' <= FailureGrace + MaxSessions
          BY <5>1, <5>2, FirstPastGrace
        <5> QED BY <3>4, <4>1, <5>3
      <4>2. CASE failures > FailureGrace
        <5>1. streak' = streak
          BY <1>1, <1>2, <3>4, <4>2
        <5>2. lockedUntil >= streak + LockoutBase /\ failures + h <= FailureGrace + MaxSessions
          BY <3>8, <4>2, <5>1 DEF ThrottleInv
        <5>3. Locked
          BY <1>1, <1>2, <3>8, <5>1, <5>2 DEF Locked
        <5>4. FailureGrace \in Int /\ MaxSessions \in Int /\ h' \in Int /\ h \in Int
              /\ failures \in Int
          BY <1>1, <1>2, <1>3, <3>2
        <5>5. (failures + 1) + h' <= FailureGrace + MaxSessions
          BY <3>3, <5>2, <5>3, <5>4, OneFailureMore
        <5> QED BY <3>4, <5>5
      <4> QED BY <1>1, <1>2, <3>4, <3>8, <4>1, <4>2
    <3> QED BY <2>2, <2>7, <3>5, <3>7, <3>8 DEF ThrottleInv
  <2> QED BY <2>2, <2>5, <2>8, <2>9, <2>10
<1>7. CASE \/ \E s \in Sids : Use(s)
           \/ CheckAuthTimeouts \/ RelayLost \/ Tick \/ UNCHANGED vars
  <2>1. /\ Live' \subseteq Live /\ Handshakes' \subseteq Handshakes
        /\ UNCHANGED <<failures, streak, lockedUntil>>
        /\ now' \in {now, now + 1}
    BY <1>7, OtherSteps
  <2>2. IsFiniteSet(Live') /\ Cardinality(Live') <= MaxSessions /\ h' \in Nat /\ h' <= h
    BY <1>4, <1>5, <2>1
  <2>3. now' >= now
    BY <1>1, <2>1
  <2>4. /\ failures > 0 => streak <= now
        /\ failures > FailureGrace => lockedUntil >= streak + LockoutBase
        /\ failures > FailureGrace /\ now < streak + LockoutBase =>
              failures + h <= FailureGrace + MaxSessions
    BY DEF ThrottleInv
  <2>5. /\ failures' > 0 => streak' <= now'
        /\ failures' > FailureGrace => lockedUntil' >= streak' + LockoutBase
        /\ failures' > FailureGrace /\ now' < streak' + LockoutBase =>
              failures' + h' <= FailureGrace + MaxSessions
    <3>1. failures' > 0 => streak' <= now'
      BY <1>1, <2>1, <2>3, <2>4
    <3>2. failures' > FailureGrace => lockedUntil' >= streak' + LockoutBase
      BY <2>1, <2>4
    <3>3. ASSUME failures' > FailureGrace, now' < streak' + LockoutBase
          PROVE  failures' + h' <= FailureGrace + MaxSessions
      <4>1. now < streak + LockoutBase
        BY <1>1, <1>2, <2>1, <2>3, <3>3
      <4>2. failures + h <= FailureGrace + MaxSessions
        BY <2>1, <2>4, <3>3, <4>1
      <4>3. FailureGrace \in Int /\ MaxSessions \in Int /\ h' \in Int /\ h \in Int
            /\ failures \in Int
        BY <1>1, <1>2, <1>3, <2>2
      <4>4. failures + h' <= FailureGrace + MaxSessions
        BY <2>2, <4>2, <4>3, FewerHandshakes
      <4> QED BY <2>1, <4>4
    <3> QED BY <3>1, <3>2, <3>3
  <2> QED BY <2>2, <2>5 DEF ThrottleInv
<1> QED BY <1>6, <1>7 DEF Next

LEMMA ThrottleInit == Init => ThrottleInv
<1> SUFFICES ASSUME Init PROVE ThrottleInv
  OBVIOUS
<1>1. Live = {}
  BY DEF Init, Live
<1>2. IsFiniteSet(Live) /\ Cardinality(Live) = 0
  BY <1>1, FS_EmptySet
<1>3. failures = 0 /\ FailureGrace \in Nat /\ MaxSessions \in Nat
  BY SessionsAssumption DEF Init
<1> QED BY <1>2, <1>3 DEF ThrottleInv

(* Guessing is slowed down, whatever the limits and however many clients    *)
(* guess at once: past the grace there are no more failures than handshakes *)
(* that were already open, until the first lockout has run out.             *)
THEOREM GuessingIsSlow == Spec => []GuessingIsThrottled
<1>1. TypeOK /\ ThrottleInv => GuessingIsThrottled
  <2> SUFFICES ASSUME TypeOK, ThrottleInv, failures > FailureGrace + MaxSessions
               PROVE  now >= streak + LockoutBase
    BY DEF GuessingIsThrottled
  <2>1. now \in Nat /\ failures \in Nat /\ streak \in Nat
        /\ FailureGrace \in Nat /\ MaxSessions \in Nat /\ LockoutBase \in Nat
    BY SessionsAssumption DEF TypeOK, Times
  <2>2. Cardinality(Handshakes) \in Nat
    BY LiveCounts DEF ThrottleInv
  <2>3. failures > FailureGrace /\ now < streak + LockoutBase =>
          failures + Cardinality(Handshakes) <= FailureGrace + MaxSessions
    BY DEF ThrottleInv
  <2> QED BY <2>1, <2>2, <2>3
<1> QED BY <1>1, ThrottleInit, ThrottleNext, TypesHold, PTL DEF Spec

=============================================================================
