-------------------------- MODULE KeyManager_proofs --------------------------
(***************************************************************************)
(* Proofs about the key manager: an answer never outlives the enrollment   *)
(* it was asked in, the context is freed once and last, and a Sync does to *)
(* the lease what AgentSessions assumes, for any keys, organizations and   *)
(* tokens and any number of changes of the configuration.                  *)
(***************************************************************************)
EXTENDS KeyManager, TLAPS

(* The generation of a lease stays one.                                    *)
LEMMA BumpType ==
    ASSUME NEW g \in Generations
    PROVE  Bump(g) \in Generations
  BY GenerationAssumption, SMT DEF Bump, Generations

(* So does a dropped lease, which is none any more.                        *)
LEMMA ClearType ==
    ASSUME NEW l \in Leases(Keys)
    PROVE  Clear(l) \in Leases(Keys) /\ Clear(l).until = 0
  <1>1. Bump(l.gen) \in Generations
    BY BumpType DEF Leases
  <1>2. QED
    BY <1>1 DEF Clear, Leases

(* A lease that Sync keeps is the one there was, of the same organization. *)
LEMMA KeptType ==
    ASSUME TypeOK
    PROVE  /\ Kept \in Leases(Keys)
           /\ Kept.until > 0 => Kept = lease /\ org = cfg.org
  BY ClearType, SMT DEF Kept, TypeOK

(* The fields of an answer that is a lease.                                *)
LEMMA LeaseResult ==
    ASSUME TypeOK, result.kind = "lease"
    PROVE  /\ result.keys \in SUBSET Keys
           /\ result.ttl \in {0} \cup Ttls
           /\ result # NoResult
  <1>1. result \in [kind : {"lease"}, policy : Policies, keys : SUBSET Keys,
                   ttl : {0} \cup Ttls, version : Nat, era : Nat, at : Nat]
    BY SMT DEF TypeOK, Results, NoResult
  <1>2. QED
    BY <1>1 DEF NoResult

(* The same for an answer of any kind.                                     *)
LEMMA ResultFields ==
    ASSUME TypeOK, result # NoResult
    PROVE  result.version \in Nat /\ result.era \in Nat
  BY SMT DEF TypeOK, Results

(* What an answer makes of a lease is a lease.                             *)
LEMMA HandledType ==
    ASSUME TypeOK, NEW l \in Leases(Keys), result # NoResult,
           NEW r \in Handled(l, result)
    PROVE  /\ r \in Leases(Keys)
           /\ ~Installs(result) => r.until = 0 \/ r = l
  <1>1. CASE Installs(result)
    <2>1. result.keys \in SUBSET Keys /\ result.ttl \in {0} \cup Ttls
      BY <1>1, LeaseResult DEF Installs
    <2>2. now + result.ttl \in Nat
      <3>1. \A t \in {0} \cup Ttls : t \in Nat
        BY KeyManagerAssumption, SMT
      <3>2. now \in Nat /\ result.ttl \in Nat
        BY <2>1, <3>1 DEF TypeOK
      <3>3. QED
        BY <3>2, SMT
    <2>3. PICK g : /\ r = [keys |-> result.keys, until |-> now + result.ttl, gen |-> g]
                   /\ g = Bump(l.gen) \/ g = l.gen
      BY <1>1 DEF Handled, Install
    <2>4. l.gen \in Generations
      BY DEF Leases
    <2>5. g \in Generations
      BY <2>3, <2>4, BumpType
    <2>6. QED
      BY <1>1, <2>1, <2>2, <2>3, <2>5 DEF Leases
  <1>2. CASE ~Installs(result)
    BY <1>2, ClearType DEF Handled
  <1>3. QED
    BY <1>1, <1>2

(* The first state is typed ...                                            *)
LEMMA TypeInit == Init => TypeOK
  <1> SUFFICES ASSUME Init PROVE TypeOK
    OBVIOUS
  <1>1. Nothing \in Configs /\ NoFetch \in [version : Nat, era : Nat]
    BY SMT DEF Nothing, Configs, NoFetch
  <1>2. InitialLease \in Leases(Keys)
    BY GenerationAssumption, SMT DEF InitialLease, Leases, Generations
  <1>3. 0 \in 0 .. MaxChanges
    BY KeyManagerAssumption, SMT
  <1>4. QED
    BY <1>1, <1>2, <1>3 DEF Init, TypeOK, Results, Threads

(* ... and every step keeps the types.                                     *)
LEMMA TypeNext == TypeOK /\ [Next]_vars => TypeOK'
  <1> SUFFICES ASSUME TypeOK, [Next]_vars PROVE TypeOK'
    OBVIOUS
  <1> USE DEF config, owner, context, ending, worker
  <1>1. Asked \in Configs
    BY DEF Asked, Nothing, Configs, TypeOK
  <1>2. ASSUME SyncLease
        PROVE  org' \in Orgs \cup {None} /\ era' \in Nat
    BY <1>2, SMT DEF SyncLease, TypeOK, Configs
  <1>3. CASE SyncAlone
    BY <1>2, <1>3, KeptType DEF SyncAlone, SyncLease, TypeOK
  <1>4. CASE SyncStartFails
    BY <1>2, <1>4, KeptType DEF SyncStartFails, SyncLease, TypeOK
  <1>5. CASE SyncStarts
    BY <1>1, <1>2, <1>5, KeptType DEF SyncStarts, SyncLease, TypeOK, Threads
  <1>6. CASE SyncWorker
    <2>1. version' \in Nat
      BY <1>6, SMT DEF SyncWorker, TypeOK
    <2>2. wake' \in BOOLEAN /\ answered' \in BOOLEAN
      BY <1>6, Zenon DEF SyncWorker, TypeOK
    <2>3. lease' \in Leases(Keys)
      BY <1>6, KeptType, HandledType DEF SyncWorker, Current
    <2>4. leaseEra' \in Nat
      BY <1>6, ResultFields DEF SyncWorker, Current, TypeOK
    <2>5. QED
      BY <1>1, <1>2, <1>6, <2>1, <2>2, <2>3, <2>4
      DEF SyncWorker, SyncLease, TypeOK, Results
  <1>7. CASE Reconfigure
    BY <1>7, KeyManagerAssumption, SMT DEF Reconfigure, TypeOK
  <1>8. CASE Destroy
    BY <1>8, ClearType DEF Destroy, TypeOK
  <1>9. CASE StopWorker
    <2>1. frees' \in Nat
      BY <1>9, SMT DEF StopWorker, TypeOK
    <2>2. QED
      BY <1>9, <2>1, ClearType DEF StopWorker, TypeOK
  <1>10. CASE WaitOver
    BY <1>10 DEF WaitOver, TypeOK, Threads
  <1>11. CASE Poll
    <2>1. fetch' \in [version : Nat, era : Nat]
      BY <1>11, SMT DEF Poll, TypeOK
    <2>2. QED
      BY <1>11, <2>1 DEF Poll, TypeOK, Threads
  <1>12. CASE Answer
    <2>1. result' \in Results
      BY <1>12, SMT DEF Answer, Answers, Results, TypeOK
    <2>2. idle' \in BOOLEAN
      BY <1>12, Zenon DEF Answer
    <2>3. fetch' \in [version : Nat, era : Nat]
      BY <1>12, SMT DEF Answer, NoFetch
    <2>4. QED
      BY <1>12, <2>1, <2>2, <2>3 DEF Answer, TypeOK, Threads
  <1>13. CASE Finish
    BY <1>13 DEF Finish, TypeOK, Threads
  <1>14. CASE Free
    <2>1. frees' \in Nat
      BY <1>14, SMT DEF Free, TypeOK
    <2>2. QED
      BY <1>14, <2>1 DEF Free, TypeOK, Threads
  <1>15. CASE Tick
    BY <1>15, SMT DEF Tick, TypeOK
  <1>16. CASE UNCHANGED vars
    BY <1>16 DEF vars, TypeOK
  <1>17. QED
    BY <1>3, <1>4, <1>5, <1>6, <1>7, <1>8, <1>9, <1>10, <1>11, <1>12, <1>13,
       <1>14, <1>15, <1>16 DEF Next, Sync, Worker

(* The loop, the worker and what they share stay in their types.           *)
THEOREM TypesHold == Spec => []TypeOK
  BY TypeInit, TypeNext, PTL DEF Spec

-----------------------------------------------------------------------------
(* The enrollment of the lease.                                            *)

(* What was asked in version v of the inputs and in the enrollment e: if   *)
(* the version is the one of now, so is the enrollment.                    *)
UpToDate(v, e) ==
    v <= version /\ (v = version => e = era /\ inputs # Nothing)

(* The invariant behind LeaseIsCurrent: the version tells the enrollment.  *)
EraInv ==
    /\ LeaseIsCurrent
    /\ result # NoResult => UpToDate(result.version, result.era)
    /\ thread = "fetch" => UpToDate(fetch.version, fetch.era)
    /\ inputs # Nothing => inputs.org = org
    /\ thread = "none" => result = NoResult /\ inputs = Nothing

(* An answer is taken over only in the enrollment it was asked in.         *)
LEMMA CurrentStays ==
    ASSUME TypeOK, EraInv, SyncWorker, Current(result, version')
    PROVE  org = cfg.org /\ inputs = Asked /\ result.era = era
  <1>1. result # NoResult /\ result.version = version'
    BY DEF Current
  <1>2. result.version \in Nat /\ version \in Nat
    BY <1>1, ResultFields DEF TypeOK
  <1>3. result.version <= version
    BY <1>1 DEF EraInv, UpToDate
  <1>4. inputs = Asked
    BY <1>1, <1>2, <1>3, SMT DEF SyncWorker
  <1>5. result.version = version
    BY <1>1, <1>4 DEF SyncWorker
  <1>6. inputs # Nothing /\ result.era = era
    BY <1>1, <1>5 DEF EraInv, UpToDate
  <1>7. QED
    BY <1>4, <1>6 DEF EraInv, Asked

(* Every step keeps it ...                                                *)
LEMMA EraNext == TypeOK /\ EraInv /\ [Next]_vars => EraInv'
  <1> SUFFICES ASSUME TypeOK, EraInv, [Next]_vars PROVE EraInv'
    OBVIOUS
  <1> USE DEF config, owner, context, ending, worker
  <1>1. Asked # Nothing => Asked.org = cfg.org
    BY DEF Asked
  <1>2. ASSUME SyncLease, lease' = Kept, UNCHANGED leaseEra
        PROVE  LeaseIsCurrent'
    BY <1>2, KeptType DEF SyncLease, LeaseIsCurrent, EraInv
  <1>3. CASE SyncAlone
    BY <1>2, <1>3 DEF SyncAlone, SyncLease, EraInv
  <1>4. CASE SyncStartFails
    BY <1>2, <1>4 DEF SyncStartFails, SyncLease, EraInv
  <1>5. CASE SyncStarts
    BY <1>1, <1>2, <1>5 DEF SyncStarts, SyncLease, EraInv
  <1>6. CASE SyncWorker
    <2>1. LeaseIsCurrent'
      <3>1. CASE Current(result, version')
        <4>1. era' = era
          BY <1>6, <3>1, CurrentStays DEF SyncWorker, SyncLease
        <4>2. CASE Installs(result)
          BY <1>6, <3>1, <4>1, <4>2, CurrentStays DEF SyncWorker, LeaseIsCurrent
        <4>3. CASE ~Installs(result)
          <5>1. lease'.until = 0 \/ lease' = Kept
            BY <1>6, <3>1, <4>3, HandledType, KeptType DEF SyncWorker, Current
          <5>2. UNCHANGED leaseEra
            BY <1>6, <3>1, <4>3 DEF SyncWorker
          <5>3. CASE lease'.until = 0
            BY <5>3, SMT DEF LeaseIsCurrent
          <5>4. CASE lease' = Kept
            BY <4>1, <5>2, <5>4, KeptType DEF LeaseIsCurrent, EraInv
          <5>5. QED
            BY <5>1, <5>3, <5>4
        <4>4. QED
          BY <4>2, <4>3
      <3>2. CASE ~Current(result, version')
        BY <1>2, <1>6, <3>2 DEF SyncWorker
      <3>3. QED
        BY <3>1, <3>2
    <2>2. result' = NoResult
      BY <1>6 DEF SyncWorker
    <2>3. ASSUME thread' = "fetch"
          PROVE  UpToDate(fetch.version, fetch.era)'
      <3>1. thread = "fetch" /\ fetch' = fetch /\ fetch.version \in Nat /\ version \in Nat
        BY <1>6, <2>3 DEF SyncWorker, TypeOK
      <3>2. fetch.version <= version /\ (fetch.version = version => fetch.era = era /\ inputs # Nothing)
        BY <3>1 DEF EraInv, UpToDate
      <3>3. CASE inputs # Asked
        <4>1. version' = version + 1
          BY <1>6, <3>3 DEF SyncWorker
        <4>2. fetch.version <= version' /\ fetch.version # version'
          BY <3>1, <3>2, <4>1, SMT
        <4>3. QED
          BY <3>1, <4>2 DEF UpToDate
      <3>4. CASE inputs = Asked
        <4>1. version' = version /\ inputs' = inputs
          BY <1>6, <3>4 DEF SyncWorker
        <4>2. inputs # Nothing => era' = era
          BY <1>1, <1>6, <3>4 DEF SyncWorker, SyncLease, EraInv
        <4>3. QED
          BY <3>1, <3>2, <4>1, <4>2 DEF UpToDate
      <3>5. QED
        BY <3>3, <3>4
    <2>4. inputs' # Nothing => inputs'.org = org'
      BY <1>1, <1>6 DEF SyncWorker, SyncLease
    <2>5. thread' # "none"
      BY <1>6 DEF SyncWorker
    <2>6. QED
      BY <2>1, <2>2, <2>3, <2>4, <2>5 DEF EraInv
  <1>7. CASE Reconfigure
    BY <1>7 DEF Reconfigure, EraInv, LeaseIsCurrent, UpToDate
  <1>8. ASSUME lease' = Clear(lease), UNCHANGED <<org, leaseEra, era, context, thread, fetch>>
        PROVE  EraInv'
    <2>1. LeaseIsCurrent'
      BY <1>8, ClearType, SMT DEF LeaseIsCurrent, TypeOK
    <2>2. QED
      BY <1>8, <2>1 DEF EraInv, UpToDate
  <1>9. CASE Destroy
    <2>1. CASE lease' = Clear(lease)
      BY <1>8, <1>9, <2>1 DEF Destroy
    <2>2. CASE UNCHANGED lease
      BY <1>9, <2>2 DEF Destroy, EraInv, LeaseIsCurrent, UpToDate
    <2>3. QED
      BY <1>9, <2>1, <2>2 DEF Destroy
  <1>10. CASE StopWorker
    BY <1>8, <1>10 DEF StopWorker
  <1>11. CASE WaitOver
    BY <1>11 DEF WaitOver, EraInv, LeaseIsCurrent, UpToDate
  <1>12. CASE Poll
    <2>1. ASSUME thread' = "fetch"
          PROVE  UpToDate(fetch.version, fetch.era)'
      <3>1. inputs # Nothing /\ fetch' = [version |-> version, era |-> era]
        BY <1>12, <2>1 DEF Poll
      <3>2. fetch'.version = version /\ fetch'.era = era /\ version \in Nat
        BY <3>1 DEF TypeOK
      <3>3. UNCHANGED <<version, era, inputs>> /\ version <= version
        BY <1>12, <3>2, SMT DEF Poll
      <3>4. QED
        BY <3>1, <3>2, <3>3 DEF UpToDate
    <2>2. QED
      BY <1>12, <2>1 DEF Poll, EraInv, LeaseIsCurrent, UpToDate
  <1>13. CASE Answer
    <2>1. result'.version = fetch.version /\ result'.era = fetch.era
      BY <1>13, SMT DEF Answer, Answers
    <2>2. UpToDate(fetch.version, fetch.era)
      BY <1>13 DEF Answer, EraInv
    <2>3. UNCHANGED <<version, era, inputs>> /\ thread' = "wait"
      BY <1>13 DEF Answer
    <2>4. QED
      BY <1>13, <2>1, <2>2, <2>3 DEF Answer, EraInv, LeaseIsCurrent, UpToDate
  <1>14. CASE Finish
    BY <1>14 DEF Finish, EraInv, LeaseIsCurrent, UpToDate
  <1>15. CASE Free
    BY <1>15 DEF Free, EraInv, LeaseIsCurrent, UpToDate
  <1>16. CASE Tick
    BY <1>16 DEF Tick, EraInv, LeaseIsCurrent, UpToDate
  <1>17. CASE UNCHANGED vars
    BY <1>17 DEF vars, EraInv, LeaseIsCurrent, UpToDate
  <1>18. QED
    BY <1>3, <1>4, <1>5, <1>6, <1>7, <1>9, <1>10, <1>11, <1>12, <1>13, <1>14,
       <1>15, <1>16, <1>17 DEF Next, Sync, Worker

(* ... and it always holds.                                                *)
LEMMA EraInvHolds == Spec => []EraInv
  <1>1. Init => EraInv
    BY SMT DEF Init, EraInv, LeaseIsCurrent, InitialLease
  <1>2. QED
    BY <1>1, EraNext, TypesHold, PTL DEF Spec

(* Whatever the configuration goes through while a request is under way,   *)
(* the installed lease is one of the present enrollment.                   *)
THEOREM LeaseHolds == Spec => []LeaseIsCurrent
  <1>1. EraInv => LeaseIsCurrent
    BY DEF EraInv
  <1>2. QED
    BY <1>1, EraInvHolds, PTL

-----------------------------------------------------------------------------
(* What a Sync does to the lease.                                          *)

(* An answer that is taken over turns the lease kept so far into one of    *)
(* those Synced allows.                                                    *)
LEMMA HandledSynced ==
    ASSUME TypeOK, result # NoResult, org = cfg.org, NEW r \in Handled(Kept, result)
    PROVE  r \in Synced(lease, now, Keys, Ttls)
  <1> DEFINE kept == IF lease.until > 0 /\ now >= lease.until
                     THEN Clear(lease) ELSE lease
  <1>1. Kept = kept
    BY DEF Kept
  <1>2. CASE Installs(result)
    <2>1. result.keys \in SUBSET Keys /\ result.ttl \in Ttls
      <3>1. result.keys \in SUBSET Keys /\ result.ttl \in {0} \cup Ttls
        BY <1>2, LeaseResult DEF Installs
      <3>2. result.ttl # 0
        BY <1>2, SMT DEF Installs
      <3>3. QED
        BY <3>1, <3>2
    <2>2. r \in Install(kept, result.keys, now + result.ttl)
      BY <1>1, <1>2 DEF Handled
    <2>3. QED
      BY <2>1, <2>2 DEF Synced
  <1>3. CASE ~Installs(result)
    <2>1. r \in {kept, Clear(kept)}
      BY <1>1, <1>3 DEF Handled
    <2>2. QED
      BY <2>1 DEF Synced
  <1>4. QED
    BY <1>2, <1>3

(* So does what Sync does without an answer.                               *)
LEMMA KeptSynced ==
    ASSUME TypeOK
    PROVE  Kept \in Synced(lease, now, Keys, Ttls)
  BY DEF Kept, Synced

(* A Sync does to the lease what the housekeeping of AgentSessions takes   *)
(* for granted, for any keys and lifetimes: its proofs hold for the lease  *)
(* the worker's answers make.                                              *)
THEOREM SyncHolds == Spec => SyncsAsAssumed
  <1>1. ASSUME TypeOK, EraInv, Sync
        PROVE  lease' \in Synced(lease, now, Keys, Ttls)
    <2>1. CASE SyncAlone \/ SyncStartFails \/ SyncStarts
      BY <1>1, <2>1, KeptSynced DEF SyncAlone, SyncStartFails, SyncStarts
    <2>2. CASE SyncWorker
      <3>1. CASE Current(result, version')
        BY <1>1, <2>2, <3>1, CurrentStays, HandledSynced DEF SyncWorker, Current
      <3>2. CASE ~Current(result, version')
        BY <1>1, <2>2, <3>2, KeptSynced DEF SyncWorker
      <3>3. QED
        BY <3>1, <3>2
    <2>3. QED
      BY <1>1, <2>1, <2>2 DEF Sync
  <1>2. TypeOK /\ EraInv /\ [Next]_vars
          => [Sync => lease' \in Synced(lease, now, Keys, Ttls)]_vars
    BY <1>1
  <1>3. QED
    BY <1>2, TypesHold, EraInvHolds, PTL DEF Spec, SyncsAsAssumed

-----------------------------------------------------------------------------
(* The end of the context.                                                 *)

(* The invariant behind FreedByTheLast: who decided what, and who is left. *)
FreeInv ==
    /\ frees \in {0, 1}
    /\ stop <=> main = "stopping" \/ (main = "ended" /\ thread # "none")
    /\ thread \in {"leaving", "freeing", "gone"} => stop
    /\ done <=> thread \in {"freeing", "gone"}
    /\ orphaned => main = "ended"
    /\ thread = "freeing" => orphaned
    /\ main # "ended" \/ thread # "gone" => frees = 0
    /\ main = "stopping" => thread # "none"
    /\ main = "ended" /\ thread \in {"wait", "poll", "fetch", "leaving", "freeing"}
         => orphaned
    /\ main = "ended" /\ thread = "gone" => frees = 1

(* The first state has nothing to free, and every step keeps the rest.     *)
LEMMA FreeInvHolds == Spec => []FreeInv
  <1>1. Init => FreeInv
    BY DEF Init, FreeInv
  <1>2. TypeOK /\ FreeInv /\ [Next]_vars => FreeInv'
    <2> SUFFICES ASSUME TypeOK, FreeInv, [Next]_vars PROVE FreeInv'
      OBVIOUS
    <2> USE DEF FreeInv, config, owner, context, ending, worker
    <2>1. CASE SyncAlone
      BY <2>1 DEF SyncAlone, SyncLease
    <2>2. CASE SyncStartFails
      BY <2>2 DEF SyncStartFails, SyncLease
    <2>3. CASE SyncStarts
      BY <2>3 DEF SyncStarts, SyncLease
    <2>4. CASE SyncWorker
      BY <2>4 DEF SyncWorker, SyncLease
    <2>5. CASE Reconfigure
      BY <2>5 DEF Reconfigure
    <2>6. CASE Destroy
      BY <2>6 DEF Destroy, TypeOK, Threads
    <2>7. CASE StopWorker
      <3>1. 0 + 1 = 1
        BY SMT
      <3>2. QED
        BY <2>7, <3>1 DEF StopWorker, TypeOK, Threads
    <2>8. CASE WaitOver
      BY <2>8 DEF WaitOver
    <2>9. CASE Poll
      BY <2>9 DEF Poll
    <2>10. CASE Answer
      BY <2>10 DEF Answer
    <2>11. CASE Finish
      BY <2>11 DEF Finish, TypeOK
    <2>12. CASE Free
      <3>1. 0 + 1 = 1
        BY SMT
      <3>2. QED
        BY <2>12, <3>1 DEF Free, TypeOK
    <2>13. CASE Tick
      BY <2>13 DEF Tick
    <2>14. CASE UNCHANGED vars
      BY <2>14 DEF vars
    <2>15. QED
      BY <2>1, <2>2, <2>3, <2>4, <2>5, <2>6, <2>7, <2>8, <2>9, <2>10, <2>11,
         <2>12, <2>13, <2>14 DEF Next, Sync, Worker
  <1>3. QED
    BY <1>1, <1>2, TypesHold, PTL DEF Spec

(* However the exit of the agent and the end of a request interleave, the  *)
(* context is freed once, and only when both sides have left it.           *)
THEOREM FreedOnce == Spec => []FreedByTheLast
  <1>1. TypeOK /\ FreeInv => FreedByTheLast
    BY SMT DEF FreeInv, FreedByTheLast, TypeOK, Threads
  <1>2. QED
    BY <1>1, TypesHold, FreeInvHolds, PTL
=============================================================================
