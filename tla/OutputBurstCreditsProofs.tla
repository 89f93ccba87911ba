---------------------- MODULE OutputBurstCreditsProofs ----------------------
(***************************************************************************)
(* For every number of credits, plans and leases: the pool is type         *)
(* correct, no plan holds two credits, every outstanding credit has        *)
(* exactly one lease that operates it, and credits move only in order.     *)
(***************************************************************************)
EXTENDS OutputBurstCredits, WellFoundedInduction, TLAPS

(* No lease is from the future: what was issued for a credit has at most   *)
(* the credit's generation, and the lease of that generation is unique.    *)
LeasesAreIssued ==
  /\ \A lease \in leases :
       lease.credit_generation <= credits[lease.credit_index].generation
  /\ \A one, two \in leases :
       /\ one.credit_index = two.credit_index
       /\ one.credit_generation = two.credit_generation
       => one = two

IInv == TypeOK /\ OneCreditPerPlan /\ EveryCreditHasOneOwner /\ LeasesAreIssued

USE CreditPoolConstants, PlanNumbersAssumption

(* first-free scan: the lowest free index exists when some credit is free. *)
LEMMA FirstFreeIsFree ==
  ASSUME NEW pool \in [CreditIndexes -> Credit], FreeCredits(pool) # {}
  PROVE  /\ FirstFree(pool) \in CreditIndexes
         /\ pool[FirstFree(pool)].state = "Free"
<1>1. FreeCredits(pool) \subseteq Nat
  BY DEF FreeCredits, CreditIndexes
<1>2. \E i \in FreeCredits(pool) : \A j \in FreeCredits(pool) : i <= j
  <2> DEFINE less == {ss \in Nat \X Nat : ss[1] < ss[2]}
  <2>1. IsWellFoundedOn(less, Nat)
    BY NatLessThanWellFounded DEF OpToRel
  <2>2. \E i \in FreeCredits(pool) :
           \A j \in FreeCredits(pool) : ~ (<<j, i>> \in less)
    <3> HIDE DEF less
    <3> QED BY <1>1, <2>1, WFMin
  <2>3. PICK i \in FreeCredits(pool) :
           \A j \in FreeCredits(pool) : ~ (<<j, i>> \in less)
    BY <2>2
  <2>4. ASSUME NEW j \in FreeCredits(pool) PROVE i <= j
    <3>1. i \in Nat /\ j \in Nat /\ ~ (<<j, i>> \in less)
      BY <1>1, <2>3
    <3>2. ~ (j < i)
      BY <3>1
    <3>3. QED
      BY <3>1, <3>2
  <2>5. QED
    BY <2>4
<1>3. QED
  BY <1>2 DEF FirstFree, FreeCredits

LEMMA InitIInv == Init => IInv
BY DEF Init, InitialCredits, IInv, TypeOK, OneCreditPerPlan,
       EveryCreditHasOneOwner, LeasesAreIssued, Credit, CreditStates

LEMMA AcquireIInv ==
  ASSUME IInv, NEW plan \in PlanNumbers, NEW burst \in Bursts,
         AcquireCall(plan, burst)
  PROVE  IInv'
<1> DEFINE i == FirstFree(credits)
           new == [state |-> "Prepared", generation |-> credits[i].generation + 1,
                   plan_sequence |-> plan, burst |-> burst]
           lease == [credit_index |-> i,
                     credit_generation |-> credits[i].generation + 1,
                     plan_sequence |-> plan, burst |-> burst]
<1>1. i \in CreditIndexes /\ credits[i].state = "Free"
  BY FirstFreeIsFree DEF AcquireCall, CanAcquire, IInv, TypeOK
<1>2. credits' = [credits EXCEPT ![i] = new]
  BY DEF AcquireCall, Acquire, NextGeneration
<1>3. leases' = leases \union {lease}
  BY DEF AcquireCall, AcquiredLease, NextGeneration
<1>4. burst \in Envelope /\ plan \in Nat
  BY DEF AcquireCall, CanAcquire, WithinEnvelope
<1>5. \A j \in CreditIndexes :
        credits[j].state # "Free" => credits[j].plan_sequence # plan
  BY DEF AcquireCall, CanAcquire, PlanOwnsNoCredit
<1>6. credits \in [CreditIndexes -> Credit] /\ leases \subseteq Lease
  BY DEF IInv, TypeOK
<1>7. credits[i].generation \in Nat
  BY <1>1, <1>6 DEF Credit
<1>8. new \in Credit /\ lease \in Lease
  BY <1>1, <1>4, <1>7 DEF Credit, CreditStates, Lease
<1> HIDE DEF i
<1>9. TypeOK'
  BY <1>1, <1>2, <1>3, <1>6, <1>8 DEF TypeOK
<1>10. OneCreditPerPlan'
  BY <1>1, <1>2, <1>5, <1>6 DEF OneCreditPerPlan, IInv
<1>11. LeasesAreIssued'
  <2>1. \A l \in leases : l.credit_index = i =>
          l.credit_generation \in Nat /\ l.credit_generation < lease.credit_generation
    BY <1>6, <1>7 DEF IInv, LeasesAreIssued, Lease
  <2>2. QED
    BY <1>1, <1>2, <1>3, <1>6, <1>7, <2>1 DEF IInv, LeasesAreIssued, Lease
<1>12. EveryCreditHasOneOwner'
  <2> DEFINE issued(j) == {l \in leases : l.credit_index = j}
             owners(j) == {l \in issued(j) : LeaseMatches(credits[j], l)}
             issuedNow == {l \in leases' : l.credit_index = i}
             ownersNow == {l \in issuedNow : LeaseMatches(new, l)}
  <2>1. LeaseMatches(new, lease) /\ lease \in ownersNow
    BY <1>3 DEF LeaseMatches
  <2>2. \A l \in leases : l.credit_index = i =>
          /\ l.credit_generation \in Nat
          /\ l.credit_generation < lease.credit_generation
          /\ ~LeaseMatches(new, l)
    BY <1>6, <1>7 DEF IInv, LeasesAreIssued, Lease, LeaseMatches
  <2>3. ownersNow = {lease}
    BY <1>3, <2>1, <2>2
  <2>4. \A other \in issuedNow :
          other = lease \/ other.credit_generation < lease.credit_generation
    BY <1>3, <2>2
  <2>5. credits'[i] = new
    BY <1>1, <1>2, <1>6
  <2>6. ASSUME NEW j \in CreditIndexes, j # i
        PROVE  /\ credits'[j] = credits[j]
               /\ {l \in leases' : l.credit_index = j} = issued(j)
    BY <1>1, <1>2, <1>3, <1>6, <2>6
  <2> HIDE DEF new, lease
  <2>7. QED
    BY <2>3, <2>4, <2>5, <2>6 DEF IInv, EveryCreditHasOneOwner
<1>13. QED
  BY <1>9, <1>10, <1>11, <1>12 DEF IInv

(* Commit, abort, transfer and release change one credit that is out: they *)
(* free it, or keep its identity.                                          *)
LEMMA MoveIInv ==
  ASSUME IInv, NEW i \in CreditIndexes, NEW new \in Credit,
         credits[i].state # "Free",
         new.generation = credits[i].generation,
         \/ new.state = "Free"
         \/ /\ new.plan_sequence = credits[i].plan_sequence
            /\ new.burst = credits[i].burst,
         credits' = [credits EXCEPT ![i] = new],
         leases' = leases
  PROVE  IInv'
<1>1. credits \in [CreditIndexes -> Credit] /\ leases \subseteq Lease
  BY DEF IInv, TypeOK
<1>2. credits'[i] = new
  BY <1>1
<1>3. \A j \in CreditIndexes : j # i => credits'[j] = credits[j]
  BY <1>1
<1>4. TypeOK'
  BY <1>1 DEF TypeOK
<1>5. OneCreditPerPlan'
  BY <1>2, <1>3 DEF IInv, OneCreditPerPlan
<1>6. LeasesAreIssued'
  BY <1>1, <1>2, <1>3 DEF IInv, LeasesAreIssued, Lease
<1>7. EveryCreditHasOneOwner'
  <2>1. new.state # "Free" =>
          \A l \in leases : LeaseMatches(new, l) <=> LeaseMatches(credits[i], l)
    BY DEF LeaseMatches
  <2>2. QED
    BY <1>2, <1>3, <2>1 DEF IInv, EveryCreditHasOneOwner
<1>8. QED
  BY <1>4, <1>5, <1>6, <1>7 DEF IInv

LEMMA LeaseCallIInv ==
  ASSUME IInv, NEW lease \in leases,
         \/ CommitCall(lease) \/ AbortCall(lease)
         \/ TransferCall(lease) \/ ReleaseCall(lease)
  PROVE  IInv'
<1> DEFINE i == lease.credit_index
           old == credits[i]
<1>1. i \in CreditIndexes /\ old \in Credit /\ leases' = leases
  BY DEF IInv, TypeOK, Lease, CommitCall, AbortCall, TransferCall, ReleaseCall
<1>2. \E new \in Credit :
        /\ old.state # "Free"
        /\ new.generation = old.generation
        /\ \/ new.state = "Free"
           \/ new.plan_sequence = old.plan_sequence /\ new.burst = old.burst
        /\ credits' = [credits EXCEPT ![i] = new]
  <2>1. CASE CommitCall(lease)
    <3>1. [old EXCEPT !.state = "Committed"] \in Credit
      BY <1>1 DEF Credit, CreditStates
    <3>2. QED
      BY <1>1, <2>1, <3>1 DEF CommitCall, ValidLease, CommitCredit, Credit
  <2>2. CASE AbortCall(lease)
    <3>1. [old EXCEPT !.state = "Free"] \in Credit
      BY <1>1 DEF Credit, CreditStates
    <3>2. QED
      BY <1>1, <2>2, <3>1 DEF AbortCall, ValidLease, AbortCredit, Credit
  <2>3. CASE TransferCall(lease)
    <3>1. [old EXCEPT !.state = "Transferred"] \in Credit
      BY <1>1 DEF Credit, CreditStates
    <3>2. QED
      BY <1>1, <2>3, <3>1 DEF TransferCall, ValidLease, TransferCredit, Credit
  <2>4. CASE ReleaseCall(lease)
    <3>1. [state |-> "Free", generation |-> old.generation,
           plan_sequence |-> 0, burst |-> NoBurst] \in Credit
      BY <1>1 DEF Credit, CreditStates
    <3>2. QED
      BY <1>1, <2>4, <3>1 DEF ReleaseCall, ValidLease, ReleaseCredit
  <2>5. QED
    BY <2>1, <2>2, <2>3, <2>4
<1>3. QED
  BY <1>1, <1>2, MoveIInv

LEMMA NextIInv == IInv /\ [Next]_vars => IInv'
<1> SUFFICES ASSUME IInv, [Next]_vars PROVE IInv'
  OBVIOUS
<1>1. CASE UNCHANGED vars
  BY <1>1 DEF vars, IInv, TypeOK, OneCreditPerPlan, EveryCreditHasOneOwner,
              LeasesAreIssued
<1>2. CASE Next
  BY <1>2, AcquireIInv, LeaseCallIInv DEF Next
<1>3. QED
  BY <1>1, <1>2

LEMMA SpecIInv == Spec => []IInv
BY InitIInv, NextIInv, PTL DEF Spec

(* Pool and leases keep their types under every sequence of calls.         *)
THEOREM CreditPoolTypeCorrect == Spec => []TypeOK
<1>1. IInv => TypeOK
  BY DEF IInv
<1>2. QED
  BY <1>1, SpecIInv, PTL

(* However many credits there are, no plan ever holds two of them.         *)
THEOREM PlansHoldOneCredit == Spec => []OneCreditPerPlan
<1>1. IInv => OneCreditPerPlan
  BY DEF IInv
<1>2. QED
  BY <1>1, SpecIInv, PTL

(* No credit leaks, and only the newest lease of a credit operates it.     *)
THEOREM CreditsHaveOneOwner == Spec => []EveryCreditHasOneOwner
<1>1. IInv => EveryCreditHasOneOwner
  BY DEF IInv
<1>2. QED
  BY <1>1, SpecIInv, PTL

LEMMA LeaseCallMoves ==
  ASSUME IInv, NEW lease \in leases,
         \/ CommitCall(lease) \/ AbortCall(lease)
         \/ TransferCall(lease) \/ ReleaseCall(lease),
         NEW i \in CreditIndexes
  PROVE  CreditMoves(i)
<1>1. lease.credit_index \in CreditIndexes
      /\ credits \in [CreditIndexes -> Credit]
  BY DEF IInv, TypeOK, Lease
<1>2. CASE i # lease.credit_index
  BY <1>1, <1>2 DEF CommitCall, AbortCall, TransferCall, ReleaseCall,
     CommitCredit, AbortCredit, TransferCredit, ReleaseCredit, CreditMoves
<1>3. CASE i = lease.credit_index
  BY <1>1, <1>3 DEF CommitCall, AbortCall, TransferCall, ReleaseCall,
     ValidLease, CommitCredit, AbortCredit, TransferCredit, ReleaseCredit,
     CreditMoves, Credit
<1>4. QED
  BY <1>2, <1>3

(* Credits move only free - prepared - committed - transferred - free, or  *)
(* back from prepared to free.                                             *)
THEOREM CreditOrderHolds == Spec => CreditsMoveInOrder
<1>1. ASSUME IInv, NEW plan \in PlanNumbers, NEW burst \in Bursts,
             AcquireCall(plan, burst), NEW i \in CreditIndexes
      PROVE  CreditMoves(i)
  <2>1. /\ FirstFree(credits) \in CreditIndexes
        /\ credits[FirstFree(credits)].state = "Free"
        /\ credits \in [CreditIndexes -> Credit]
    BY <1>1, FirstFreeIsFree DEF AcquireCall, CanAcquire, IInv, TypeOK
  <2>2. credits[FirstFree(credits)].generation \in Nat
    BY <2>1 DEF Credit
  <2>3. QED
    BY <1>1, <2>1, <2>2 DEF AcquireCall, Acquire, NextGeneration, CreditMoves
<1>2. IInv /\ [Next]_vars => [\A i \in CreditIndexes : CreditMoves(i)]_vars
  BY <1>1, LeaseCallMoves DEF Next
<1>3. QED
  BY <1>2, SpecIInv, PTL DEF Spec, CreditsMoveInOrder
=============================================================================
