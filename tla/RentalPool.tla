----------------------------- MODULE RentalPool -----------------------------
(***************************************************************************)
(* The ResourceRentalPool of golem-js, as far as src/ relies on it.  The   *)
(* class is not part of this repository: what is stated here is what       *)
(* executor.ts and service.ts need of it, and no more.                     *)
(*                                                                         *)
(*   - glm.manyOf({poolSize: {max}}) bounds the rentals that exist at one  *)
(*     time (executor.ts:245);                                             *)
(*   - acquire lends an idle rental or signs a new one, and never lends    *)
(*     one that was destroyed;                                             *)
(*   - release takes back a lent rental, and drops it if its agreement is  *)
(*     no longer valid; given a destroyed one, it changes nothing;         *)
(*   - destroy ends a rental, whoever still uses it.                       *)
(***************************************************************************)
EXTENDS Task, FiniteSets

CONSTANT MaxPoolSize   \* poolSize.max

ASSUME PoolAssumption == MaxPoolSize \in Nat

VARIABLE pool          \* the status of each rental

RentalStatus == {"unsigned", "available", "borrowed", "destroyed"}

PoolInit == pool = [r \in Rentals |-> "unsigned"]

LiveRentals == {r \in Rentals : pool[r] \in {"available", "borrowed"}}

(* acquire resolves with rental r for attempt a.                           *)
Acquire(a, r) ==
  /\ \/ pool[r] = "available"
     \/ /\ r = a
        /\ pool[r] = "unsigned"
        /\ \A q \in Rentals : pool[q] # "available"
        /\ Cardinality(LiveRentals) < MaxPoolSize
  /\ pool' = [pool EXCEPT ![r] = "borrowed"]

Release(r) ==
  \E status \in {"available", "destroyed"} :
    pool' = [pool EXCEPT ![r] = IF @ = "borrowed" THEN status ELSE @]

Destroy(r) == pool' = [pool EXCEPT ![r] = "destroyed"]
=============================================================================
