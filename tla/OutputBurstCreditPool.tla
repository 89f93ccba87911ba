----------------------- MODULE OutputBurstCreditPool ------------------------
(***************************************************************************)
(* The fixed pool of output credits that bounds how many plans may have    *)
(* undelivered output                                                      *)
(* (plugins/execution-default/output_burst_credit_pool.cpp).  The pool is  *)
(* a function from credit indexes to credits; a lease is the identity its  *)
(* holder presents on every later call.  As in ControllerSequence each     *)
(* method is a condition (Can...) and the pool it leaves.                  *)
(*                                                                         *)
(* The records, slots and bytes of a request only ever pass the envelope   *)
(* check and are compared for equality, so they are one value, the burst.  *)
(* Indexes are 1-based here, 0-based in the code.                          *)
(***************************************************************************)
EXTENDS Naturals

CONSTANTS
  CreditCount,       \* limits.credit_count
  Bursts,            \* (kind, records, slots, bytes) requests
  Envelope,          \* the requests within the limits of the pool
  NoBurst,           \* the zero records/slots/bytes of a cleared credit
  CreditGenerationLimit  \* std::numeric_limits<std::uint64_t>::max()

ASSUME CreditPoolConstants ==
  /\ CreditCount \in Nat \ {0}
  /\ Envelope \subseteq Bursts
  /\ NoBurst \notin Bursts
  /\ CreditGenerationLimit \in Nat

CreditIndexes == 1..CreditCount

CreditStates == {"Free", "Prepared", "Committed", "Transferred"}

Credit ==
  [state: CreditStates, generation: Nat, plan_sequence: Nat,
   burst: Envelope \union {NoBurst}]

Lease ==
  [credit_index: CreditIndexes, credit_generation: Nat, plan_sequence: Nat,
   burst: Envelope]

InitialCredits ==
  [i \in CreditIndexes |->
     [state |-> "Free", generation |-> 0, plan_sequence |-> 0,
      burst |-> NoBurst]]

FreeCredits(credits) == {i \in CreditIndexes : credits[i].state = "Free"}

FirstFree(credits) ==
  CHOOSE i \in FreeCredits(credits) :
    \A j \in FreeCredits(credits) : i <= j

PlanOwnsNoCredit(credits, plan) ==
  \A i \in CreditIndexes :
    credits[i].state = "Free" \/ credits[i].plan_sequence # plan

WithinEnvelope(burst) == burst \in Envelope

CanAcquire(credits, plan, burst) ==
  /\ plan # 0
  /\ WithinEnvelope(burst)
  /\ PlanOwnsNoCredit(credits, plan)
  /\ FreeCredits(credits) # {}
  /\ credits[FirstFree(credits)].generation # CreditGenerationLimit

NextGeneration(credit) == credit.generation + 1

Acquire(credits, plan, burst) ==
  LET i == FirstFree(credits)
  IN  [credits EXCEPT ![i] = [state |-> "Prepared",
                              generation |-> NextGeneration(@),
                              plan_sequence |-> plan,
                              burst |-> burst]]

AcquiredLease(credits, plan, burst) ==
  LET i == FirstFree(credits)
  IN  [credit_index |-> i,
       credit_generation |-> NextGeneration(credits[i]),
       plan_sequence |-> plan,
       burst |-> burst]

(* validate() would recognise a lease by its index and state alone.        *)
MutLeaseMatches(credit, lease) == TRUE

LeaseMatches(credit, lease) ==
  /\ credit.generation = lease.credit_generation
  /\ credit.plan_sequence = lease.plan_sequence
  /\ credit.burst = lease.burst

ValidLease(credits, lease, state) ==
  /\ credits[lease.credit_index].state = state
  /\ LeaseMatches(credits[lease.credit_index], lease)

CommitCredit(credits, lease) ==
  [credits EXCEPT ![lease.credit_index].state = "Committed"]

(* abort() would leave the credit prepared.                                *)
MutAbortCredit(credits, lease) == credits

(* abort() frees the credit but keeps the identity fields.                 *)
AbortCredit(credits, lease) ==
  [credits EXCEPT ![lease.credit_index].state = "Free"]

TransferCredit(credits, lease) ==
  [credits EXCEPT ![lease.credit_index].state = "Transferred"]

(* release() clears everything but the generation.                         *)
ReleaseCredit(credits, lease) ==
  [credits EXCEPT ![lease.credit_index] =
     [state |-> "Free", generation |-> @.generation, plan_sequence |-> 0,
      burst |-> NoBurst]]
=============================================================================
