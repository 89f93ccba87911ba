------------------------- MODULE PhaseTierScheduler -------------------------
(***************************************************************************)
(* The choice of the next packed plan                                      *)
(* (plugins/execution-default/phase_tier_scheduler.cpp, select).  A        *)
(* snapshot holds the candidates as a set: the code sorts them by a key    *)
(* that is total because ready_enqueue_seq is unique.  The scanned_ marks  *)
(* only feed the diagnostic counters: a tier is tried after another one    *)
(* only when that one included nothing, and then whatever it scanned is    *)
(* left out by the later tier for the same reason.                         *)
(***************************************************************************)
EXTENDS Naturals, Sequences, SequencesExt

CONSTANTS
  MaximumCandidates,             \* profile.maximum_candidates
  MaximumSequencesPerPlan,       \* profile.maximum_sequences_per_plan
  MaximumRealTokensPerPlan,      \* profile.maximum_real_tokens_per_plan
  MaxConsecutiveDecodeRounds,    \* profile.max_consecutive_decode_rounds
  PrefillStarvationThreshold     \* profile.prefill_starvation_threshold_ns

ASSUME SchedulerConstants ==
  /\ MaximumCandidates \in Nat \ {0}
  /\ MaximumSequencesPerPlan \in 1..MaximumCandidates
  /\ MaximumRealTokensPerPlan \in Nat \ {0}
  /\ MaxConsecutiveDecodeRounds \in Nat \ {0}
  /\ PrefillStarvationThreshold \in Nat \ {0}

(* A snapshot is [now_ns, consecutive_decode_rounds,                       *)
(* last_was_protected_prefill, candidates]; a candidate is                 *)
(* [sequence_generation, next_phase, last_service_plan_seq,                *)
(* ready_enqueue_seq, prefill_eligible_since_ns, real_token_count,         *)
(* feasible], where feasible stands for infeasibility == kNone.            *)

ValidSnapshot(s) ==
  /\ Cardinality(s.candidates) <= MaximumCandidates
  /\ \A c \in s.candidates :
       /\ c.sequence_generation # 0
       /\ c.ready_enqueue_seq # 0
       /\ c.real_token_count # 0
       /\ c.prefill_eligible_since_ns <= s.now_ns
  /\ \A c, d \in s.candidates :
       \/ c.sequence_generation = d.sequence_generation
       \/ c.ready_enqueue_seq = d.ready_enqueue_seq
       => c = d

KeyLess(left, right) ==
  \/ left.last_service_plan_seq < right.last_service_plan_seq
  \/ /\ left.last_service_plan_seq = right.last_service_plan_seq
     /\ left.ready_enqueue_seq < right.ready_enqueue_seq

Protected(s, c) ==
  /\ c.next_phase = "Prefill"
  /\ s.now_ns - c.prefill_eligible_since_ns >= PrefillStarvationThreshold

HasPrefill(s) == \E c \in s.candidates : c.next_phase = "Prefill"

HasDecode(s) == \E c \in s.candidates : c.next_phase # "Prefill"

HasProtected(s) == \E c \in s.candidates : Protected(s, c)

(* Aged prompts would go first even right after another aged prompt.       *)
MutProtectedGoesFirst(s) == HasProtected(s)

ProtectedGoesFirst(s) ==
  HasProtected(s) /\ (HasDecode(s) => ~s.last_was_protected_prefill)

DecodeGoesBeforePrefill(s) ==
  /\ HasDecode(s)
  /\ \/ s.last_was_protected_prefill
     \/ ~HasPrefill(s)
     \/ s.consecutive_decode_rounds < MaxConsecutiveDecodeRounds

When(condition, tier) == IF condition THEN <<tier>> ELSE <<>>

(* The tiers in the order they are tried, each at most once.               *)
Preferences(s) ==
  When(ProtectedGoesFirst(s), "ProtectedPrefill")
    \o When(DecodeGoesBeforePrefill(s), "DecodeFamily")
    \o When(HasPrefill(s), "NormalPrefill")
    \o When(HasDecode(s) /\ ~DecodeGoesBeforePrefill(s), "DecodeFamily")

TierMembers(s, tier) ==
  {c \in s.candidates :
     CASE tier = "ProtectedPrefill" -> Protected(s, c)
       [] tier = "NormalPrefill" -> c.next_phase = "Prefill"
       [] OTHER -> c.next_phase # "Prefill"}

(* Its first member decides whether a decode tier decodes or verifies.     *)
TierPhase(s, tier) ==
  IF tier = "DecodeFamily"
    THEN (CHOOSE c \in TierMembers(s, tier) :
            \A d \in TierMembers(s, tier) \ {c} : KeyLess(c, d)).next_phase
    ELSE "Prefill"

(* The members of a tier in the order of their keys.                       *)
InKeyOrder(members) ==
  [n \in 1..Cardinality(members) |->
     CHOOSE c \in members :
       Cardinality({d \in members : KeyLess(d, c)}) = n - 1]

NothingTaken == [included |-> <<>>, total_tokens |-> 0]

Take(taken, c) ==
  [included |-> Append(taken.included, c),
   total_tokens |-> taken.total_tokens + c.real_token_count]

(* The token bound of a plan and feasibility would not be checked.         *)
MutTakeIfItFits(taken, c) ==
  IF Len(taken.included) < MaximumSequencesPerPlan THEN Take(taken, c)
                                                   ELSE taken

TakeIfItFits(taken, c) ==
  IF /\ c.feasible
     /\ Len(taken.included) < MaximumSequencesPerPlan
     /\ taken.total_tokens + c.real_token_count <= MaximumRealTokensPerPlan
    THEN Take(taken, c)
    ELSE taken

TierSelection(s, tier) ==
  LET phase == TierPhase(s, tier)
      ofPhase == {c \in TierMembers(s, tier) : c.next_phase = phase}
  IN  FoldLeft(TakeIfItFits, NothingTaken, InKeyOrder(ofPhase)).included

IdleDecision == [tier |-> "Idle", phase |-> "Prefill", included |-> <<>>]

(* select: the first preferred tier from which anything can be taken.      *)
Select(s) ==
  LET fruitful == SelectSeq(Preferences(s),
                            LAMBDA tier : TierSelection(s, tier) # <<>>)
      first == Head(fruitful)
  IN  IF fruitful = <<>>
        THEN IdleDecision
        ELSE [tier |-> first, phase |-> TierPhase(s, first),
              included |-> TierSelection(s, first)]
=============================================================================
