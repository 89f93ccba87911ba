------------------------- MODULE OutputBurstCredits -------------------------
(***************************************************************************)
(* The credit pool under holders that keep every lease they were ever      *)
(* given and may present any of them again, in any order: a duplicated or  *)
(* late ACK, an abort after a commit, a release after the credit went to   *)
(* another plan.                                                           *)
(***************************************************************************)
EXTENDS OutputBurstCreditPool

CONSTANT PlanNumbers       \* plan sequence numbers callers may use

ASSUME PlanNumbersAssumption == PlanNumbers \subseteq Nat

VARIABLES
  credits,                 \* credits_
  leases                   \* every lease acquire() ever returned

vars == <<credits, leases>>

Init == credits = InitialCredits /\ leases = {}

AcquireCall(plan, burst) ==
  /\ CanAcquire(credits, plan, burst)
  /\ credits' = Acquire(credits, plan, burst)
  /\ leases' = leases \union {AcquiredLease(credits, plan, burst)}

CommitCall(lease) ==
  /\ ValidLease(credits, lease, "Prepared")
  /\ credits' = CommitCredit(credits, lease)
  /\ UNCHANGED leases

(* abort() would also accept a committed credit.                           *)
MutAbortCall(lease) ==
  /\ \/ ValidLease(credits, lease, "Prepared")
     \/ ValidLease(credits, lease, "Committed")
  /\ credits' = AbortCredit(credits, lease)
  /\ UNCHANGED leases

AbortCall(lease) ==
  /\ ValidLease(credits, lease, "Prepared")
  /\ credits' = AbortCredit(credits, lease)
  /\ UNCHANGED leases

TransferCall(lease) ==
  /\ ValidLease(credits, lease, "Committed")
  /\ credits' = TransferCredit(credits, lease)
  /\ UNCHANGED leases

ReleaseCall(lease) ==
  /\ ValidLease(credits, lease, "Transferred")
  /\ credits' = ReleaseCredit(credits, lease)
  /\ UNCHANGED leases

Next ==
  \/ \E plan \in PlanNumbers, burst \in Bursts : AcquireCall(plan, burst)
  \/ \E lease \in leases :
       \/ CommitCall(lease)
       \/ AbortCall(lease)
       \/ TransferCall(lease)
       \/ ReleaseCall(lease)

Spec == Init /\ [][Next]_vars

-----------------------------------------------------------------------------
TypeOK ==
  /\ credits \in [CreditIndexes -> Credit]
  /\ leases \subseteq Lease

(* A plan holds at most one output credit, so the number of outstanding    *)
(* credits is the number of plans whose output is undelivered.             *)
OneCreditPerPlan ==
  \A i, j \in CreditIndexes :
    /\ credits[i].state # "Free"
    /\ credits[j].state # "Free"
    /\ credits[i].plan_sequence = credits[j].plan_sequence
    => i = j

(* No credit leaks and none has two owners: for every credit that is out   *)
(* some lease still operates it, and a lease that operates it is the       *)
(* newest ever issued for that credit.  Copies of older leases, kept by    *)
(* anyone, are rejected.                                                   *)
EveryCreditHasOneOwner ==
  \A i \in CreditIndexes :
    credits[i].state # "Free" =>
      LET issued == {lease \in leases : lease.credit_index = i}
          owners == {lease \in issued : LeaseMatches(credits[i], lease)}
      IN  /\ owners # {}
          /\ \A owner \in owners, other \in issued :
               \/ other = owner
               \/ other.credit_generation < owner.credit_generation

(* What a step may do to one credit.                                       *)
CreditMoves(i) ==
  LET old == credits[i]
      new == credits'[i]
  IN  \/ new = old
      \/ /\ old.state = "Free"
         /\ new.state = "Prepared"
         /\ new.generation > old.generation
      \/ /\ new.generation = old.generation
         /\ \/ old.state = "Prepared" /\ new.state \in {"Committed", "Free"}
            \/ old.state = "Committed" /\ new.state = "Transferred"
            \/ old.state = "Transferred" /\ new.state = "Free"

(* Committed output is always accounted for: a free credit comes back only *)
(* through acquire() under a new generation, and a committed one returns   *)
(* only after it was transferred, so no repeated ACK and no late abort     *)
(* frees the credit of a plan that is still running.                       *)
CreditsMoveInOrder == [][\A i \in CreditIndexes : CreditMoves(i)]_vars
=============================================================================
