-------------------------- MODULE SchedulingRounds --------------------------
(***************************************************************************)
(* The scheduler over time.  Requests arrive in the controller's slots and *)
(* plan after plan is chosen, executed and completed; a round is one plan  *)
(* from prepare_next_plan to complete_current_plan.  Of a sequence only    *)
(* what the scheduler looks at is kept: the prompt tokens it still has to  *)
(* process, the tokens it still has to sample, and its keys.               *)
(*                                                                         *)
(* The scheduler only compares the keys, and the runtime only ever assigns *)
(* a new largest one.  So they are kept as ranks, times as ages up to the  *)
(* threshold and the decode rounds up to their bound, which makes every    *)
(* infinite schedule one of finitely many states.                          *)
(***************************************************************************)
EXTENDS PhaseTierScheduler, FiniteSets

CONSTANTS
  Slots,         \* profile.maximum_candidates of the runtime
  Prompts,       \* prompt lengths
  NewTokens,     \* values of maximum_new_tokens
  Chunk,         \* maximum_prefill_chunk_tokens
  TimePerRound   \* the clock advances by at most this much per plan

ASSUME RoundConstants ==
  /\ Slots = MaximumCandidates
  /\ Chunk \in 1..MaximumRealTokensPerPlan
  /\ Prompts \subseteq Nat \ {0}
  /\ NewTokens \subseteq Nat \ {0}
  /\ TimePerRound \in Nat

VARIABLES
  slots,                        \* slots_
  consecutive_decode_rounds,
  last_was_protected_prefill,
  passed                        \* plans without it since it became ready

vars == <<slots, consecutive_decode_rounds, last_was_protected_prefill, passed>>

SlotIndexes == 1..Slots

EmptySlot ==
  [occupied |-> FALSE, prompt |-> 0, tokens |-> 0, last_service |-> 0,
   ready_enqueue |-> 0, age |-> 0]

Init ==
  /\ slots = [i \in SlotIndexes |-> EmptySlot]
  /\ consecutive_decode_rounds = 0
  /\ last_was_protected_prefill = FALSE
  /\ passed = [i \in SlotIndexes |-> 0]

(* A sequence with no token left to sample drains.                         *)
IsReady(slot) == slot.occupied /\ slot.tokens > 0

Phase(slot) == IF slot.prompt > 0 THEN "Prefill" ELSE "Decode"

RealTokens(slot) ==
  CASE slot.prompt = 0 -> 1
    [] slot.prompt > Chunk -> Chunk
    [] OTHER -> slot.prompt

-----------------------------------------------------------------------------
(* A key greater than every other.                                         *)
Newest == 2 * Slots

Rank(values, value) == Cardinality({v \in values : v < value})

(* The slots with their keys replaced by ranks.  A plan may hold as many   *)
(* sequences as there are slots, hence a new key is below 2 * Newest.      *)
Ranked(new) ==
  LET served == {new[i].last_service : i \in SlotIndexes}
      queued == {new[i].ready_enqueue :
                   i \in {j \in SlotIndexes : IsReady(new[j])}}
  IN  [i \in SlotIndexes |->
         [new[i] EXCEPT
            !.last_service = Rank(served, @),
            !.ready_enqueue = IF IsReady(new[i]) THEN Rank(queued, @) + 1
                                                 ELSE 0]]

(* The new occupant would be scheduled as if its slot had never served.    *)
MutAdmitted(slot, prompt, tokens) ==
  [slot EXCEPT !.occupied = TRUE, !.prompt = prompt, !.tokens = tokens,
               !.last_service = 0, !.ready_enqueue = Newest, !.age = 0]

(* A slot keeps its last_service_plan_sequence across its occupants.       *)
Admitted(slot, prompt, tokens) ==
  [slot EXCEPT !.occupied = TRUE, !.prompt = prompt, !.tokens = tokens,
               !.ready_enqueue = Newest, !.age = 0]

(* An admission takes the first free slot.                                 *)
Arrive(i, prompt, tokens) ==
  /\ ~slots[i].occupied
  /\ \A j \in 1..(i - 1) : slots[j].occupied
  /\ slots' = Ranked([slots EXCEPT ![i] = Admitted(@, prompt, tokens)])
  /\ UNCHANGED <<consecutive_decode_rounds, last_was_protected_prefill, passed>>

(* finalize_draining frees the slot.                                       *)
Leave(i) ==
  /\ slots[i].occupied /\ ~IsReady(slots[i])
  /\ slots' = [slots EXCEPT ![i].occupied = FALSE]
  /\ UNCHANGED <<consecutive_decode_rounds, last_was_protected_prefill, passed>>

(* A cancelled sequence drains without another plan.                       *)
Cancel(i) ==
  /\ IsReady(slots[i])
  /\ slots' = Ranked([slots EXCEPT ![i].prompt = 0, ![i].tokens = 0,
                                   ![i].age = 0])
  /\ passed' = [passed EXCEPT ![i] = 0]
  /\ UNCHANGED <<consecutive_decode_rounds, last_was_protected_prefill>>

-----------------------------------------------------------------------------
Ready == {i \in SlotIndexes : IsReady(slots[i])}

AtMost(bound, value) == IF value > bound THEN bound ELSE value

AgeAfter(slot, time) == AtMost(PrefillStarvationThreshold, slot.age + time)

CandidateOf(i, time) ==
  [slot |-> i,
   sequence_generation |-> i,
   next_phase |-> Phase(slots[i]),
   last_service_plan_seq |-> slots[i].last_service,
   ready_enqueue_seq |-> slots[i].ready_enqueue,
   prefill_eligible_since_ns |->
     PrefillStarvationThreshold - AgeAfter(slots[i], time),
   real_token_count |-> RealTokens(slots[i]),
   feasible |-> TRUE]

SnapshotAfter(time) ==
  [now_ns |-> PrefillStarvationThreshold,
   consecutive_decode_rounds |-> consecutive_decode_rounds,
   last_was_protected_prefill |-> last_was_protected_prefill,
   candidates |-> {CandidateOf(i, time) : i \in Ready}]

MembersOf(decision) ==
  [n \in 1..Len(decision.included) |-> decision.included[n].slot]

(* The last chunk of a prompt and every decode sample one token; then the  *)
(* sequence drains or is enqueued again in the order of the plan.          *)
CompletedSlot(slot, n) ==
  LET prompt == IF slot.prompt > Chunk THEN slot.prompt - Chunk ELSE 0
  IN  [slot EXCEPT !.prompt = prompt,
                   !.tokens = IF prompt = 0 THEN @ - 1 ELSE @,
                   !.last_service = Newest,
                   !.ready_enqueue = Newest + n,
                   !.age = 0]

RoundsAfter(phase) ==
  IF phase = "Prefill" THEN 0
  ELSE AtMost(MaxConsecutiveDecodeRounds, consecutive_decode_rounds + 1)

(* The plan from its choice to its completion.                             *)
RunsPlan(decision, members, time) ==
  /\ slots' = Ranked([i \in SlotIndexes |->
                 IF i \in ToSet(members)
                   THEN CompletedSlot(slots[i],
                          CHOOSE n \in 1..Len(members) : members[n] = i)
                   ELSE [slots[i] EXCEPT !.age = IF i \in Ready
                           THEN AgeAfter(slots[i], time) ELSE 0]])
  /\ consecutive_decode_rounds' = RoundsAfter(decision.phase)
  /\ last_was_protected_prefill' = (decision.tier = "ProtectedPrefill")
  /\ passed' = [i \in SlotIndexes |->
                  IF i \in Ready \ ToSet(members) THEN passed[i] + 1
                                                  ELSE 0]

Round(time) ==
  /\ Ready # {}
  /\ \E decision \in {Select(SnapshotAfter(time))} :
       \E members \in {MembersOf(decision)} :
         RunsPlan(decision, members, time)

Next ==
  \/ \E i \in SlotIndexes, prompt \in Prompts, tokens \in NewTokens :
       Arrive(i, prompt, tokens)
  \/ \E i \in SlotIndexes : Cancel(i) \/ Leave(i)
  \/ \E time \in 0..TimePerRound : Round(time)

Spec == Init /\ [][Next]_vars

-----------------------------------------------------------------------------
(* A decoding sequence waits for at most every other slot once, and before *)
(* each of these decode plans and its own for at most two prefill plans:   *)
(* one that ends a series of decode rounds and one for an aged prompt,     *)
(* whatever arrives meanwhile.                                             *)
DecodesAreNotStarved ==
  \A i \in Ready :
    Phase(slots[i]) = "Decode" => passed[i] <= (Slots - 1) + 2 * Slots

(* A prompt waits for at most one prefill plan of every other slot, and    *)
(* before each of these and its own for at most a full series of decode    *)
(* rounds, even when the clock stands still.  What bounds it is that a     *)
(* slot's service key survives its occupant: a slot that is served and     *)
(* taken again does not overtake.                                          *)
PrefillsAreNotStarved ==
  \A i \in Ready :
    Phase(slots[i]) = "Prefill" =>
      passed[i] <= (Slots - 1) + MaxConsecutiveDecodeRounds * Slots
=============================================================================
