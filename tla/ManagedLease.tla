---------------------------- MODULE ManagedLease ----------------------------
(***************************************************************************)
(* The installed lease of organization-managed client keys (keymgr.c): the *)
(* key set, its deadline on the monotonic clock (0: none) and the          *)
(* generation a session compares before it rescans the set.  Operators     *)
(* only; the state that holds a lease belongs to the modules that use it.  *)
(***************************************************************************)
EXTENDS Integers

CONSTANT GenMax     \* UINT32_MAX: the generation is 32 bits wide and wraps

ASSUME GenerationAssumption == GenMax \in Nat /\ GenMax >= 2

Generations == 0 .. GenMax

Bump(gen) == (gen + 1) % (GenMax + 1)

Leases(Keys) == [keys : SUBSET Keys, until : Nat, gen : Generations]

InitialLease == [keys |-> {}, until |-> 0, gen |-> 0]

Clear(l) == [keys |-> {}, until |-> 0, gen |-> Bump(l.gen)]

(* A renewal of the same list keeps the generation.  The list is compared  *)
(* byte by byte, so the same set in another order counts as a new one.     *)
Install(l, keys, until) ==
    {[keys |-> keys, until |-> until, gen |-> g] :
        g \in {Bump(l.gen)} \cup
              (IF l.until > 0 /\ l.keys = keys THEN {l.gen} ELSE {})}

InForce(l, t) == l.until > 0 /\ t < l.until

IsAuthorized(l, key, t) == InForce(l, t) /\ key \in l.keys

(* Mutant: the key is not looked for. *)
RecheckLeaseOnly(l, key, gen, t) == InForce(l, t)

(* The periodic check of a session: the set is searched only if the        *)
(* generation moved since the session's key was last found in it.          *)
Recheck(l, key, gen, t) == InForce(l, t) /\ (gen = l.gen \/ key \in l.keys)

(* What one KeyManager_Sync at t may make of the lease: an expired one is  *)
(* dropped; then nothing more happens, or the lease is refused or its      *)
(* organization left, or a lease arrives.                                  *)
Synced(l, t, Keys, Ttls) ==
    LET kept == IF l.until > 0 /\ t >= l.until THEN Clear(l) ELSE l
    IN {kept, Clear(kept)} \cup
       UNION {Install(kept, ks, t + ttl) : ks \in SUBSET Keys, ttl \in Ttls}
=============================================================================
