-------------------------- MODULE ControllerRuntime --------------------------
(***************************************************************************)
(* The execution controller                                                *)
(* (plugins/execution-default/controller_runtime.cpp).  The plugin's C ABI *)
(* (controller_provider.cpp) serialises all calls with one mutex, so a     *)
(* call is one action.  The caller is arbitrary: any call may come at any  *)
(* time, with any time stamp the code accepts.  A call the code refuses    *)
(* without changing anything is not an action.                             *)
(*                                                                         *)
(* Tokens are abstracted to their ordinal; whether a sampled token is a    *)
(* stop token is left open.  Completions come through                      *)
(* complete_current_sampled_tokens, the only way the C ABI offers, which   *)
(* always names Decode as the next phase.                                  *)
(***************************************************************************)
EXTENDS ControllerSequence, ControllerRequestArena, OutputBurstCreditPool,
        PhaseTierScheduler

CONSTANTS
  None,                        \* std::nullopt
  Requests,                    \* request generations callers may use
  Payloads,                    \* payloads callers may submit
  CommandCapacity,             \* mailbox commands_.size()
  EventCapacity,               \* mailbox events_.size()
  MaximumPrefillChunkTokens,   \* limits.maximum_prefill_chunk_tokens
  AdmissionOutcomes,           \* what the admission participant may answer
  MaxNow,                      \* bound on the caller's clock
  PlanSequenceLimit            \* after it next_plan_sequence_ has wrapped

ASSUME RuntimeConstants ==
  /\ Requests \subseteq Nat
  /\ Payloads \subseteq Payload
  /\ CommandCapacity \in Nat \ {0}
  /\ EventCapacity \in Nat \ {0}
  /\ MaximumCandidates = MaximumRequests
  /\ MaximumPrefillChunkTokens \in 1..MaximumRealTokensPerPlan
  /\ AdmissionOutcomes
       \subseteq {"ok", "exhausted", "reserve_failed", "publish_failed"}
  /\ MaxNow \in Nat
  /\ PlanSequenceLimit \in Nat
  /\ {0, 1} \subseteq Envelope

VARIABLES
  state,                       \* state_: "Ready" or "Failed"
  arena,                       \* ingress_.requests_
  commands,                    \* ingress_.mailbox_.commands_, oldest first
  events,                      \* ingress_.mailbox_.events_, oldest first
  slots,                       \* slots_
  active_sequence_count,       \* active_sequence_count_
  next_ready_enqueue_sequence, \* next_ready_enqueue_sequence_
  last_controller_now_ns,      \* last_controller_now_ns_
  plan,                        \* current_plan_ and what belongs to it
  next_plan_sequence,          \* next_plan_sequence_
  consecutive_decode_rounds,   \* consecutive_decode_rounds_
  last_was_protected_prefill,  \* last_successful_plan_was_protected_prefill_
  credits,                     \* output_credits_
  pending_output_bursts,       \* the leases in pending_output_bursts_
  seen                         \* what the consumer was told of each request

ingressVars == <<arena, commands>>
planVars == <<plan, next_plan_sequence>>
scheduleVars == <<consecutive_decode_rounds, last_was_protected_prefill>>
creditVars == <<credits, pending_output_bursts>>
slotVars == <<slots, active_sequence_count, next_ready_enqueue_sequence>>
vars == <<state, ingressVars, events, slotVars, last_controller_now_ns,
          planVars, scheduleVars, creditVars, seen>>

SlotIndexes == 1..MaximumRequests

EmptySlot ==
  [sequence |-> None, request |-> None, last_service_plan_sequence |-> 0,
   ready_enqueue_sequence |-> 0, prefill_eligible_since_ns |-> 0,
   pending_token |-> 0]

Occupied(i) == slots[i].sequence # None

(* Calls accept any time that is not before the last one they were given.  *)
Times == last_controller_now_ns..MaxNow

Init ==
  /\ state = "Ready"
  /\ arena = InitialArena
  /\ commands = <<>>
  /\ events = <<>>
  /\ slots = [i \in SlotIndexes |-> EmptySlot]
  /\ active_sequence_count = 0
  /\ next_ready_enqueue_sequence = 1
  /\ last_controller_now_ns = 0
  /\ plan = None
  /\ next_plan_sequence = 1
  /\ consecutive_decode_rounds = 0
  /\ last_was_protected_prefill = FALSE
  /\ credits = InitialCredits
  /\ pending_output_bursts = {}
  /\ seen = [request \in Requests |->
               [status |-> "None", tokens |-> 0, reason |-> "None"]]

-----------------------------------------------------------------------------
(* The mailbox.                                                            *)

Event(kind, request) ==
  [kind |-> kind, request_generation |-> request, token_ordinal |-> 0,
   plan_sequence |-> 0, plan_event_index |-> 0, plan_event_count |-> 0,
   finish_reason |-> "None"]

(* The draft check of publish_event.                                       *)
ValidEvent(e) ==
  LET bundled == \/ e.plan_sequence # 0
                 \/ e.plan_event_index # 0
                 \/ e.plan_event_count # 0
  IN  /\ e.request_generation # 0
      /\ (e.kind = "TokenCommitted") <=> (e.token_ordinal # 0)
      /\ bundled => /\ e.plan_sequence # 0
                    /\ e.plan_event_index < e.plan_event_count
      /\ e.kind = "TokenCommitted" => bundled /\ e.finish_reason = "None"
      /\ e.finish_reason # "None" => e.kind = "Draining" /\ bundled

AvailableEventCredit == EventCapacity - Len(events)

(* The command queue would accept one command more than it has cells for.  *)
MutCommandQueueHasRoom == Len(commands) <= CommandCapacity

CommandQueueHasRoom == Len(commands) < CommandCapacity

SubmitAdmit(request, payload) ==
  /\ state = "Ready"
  /\ CanPublish(arena, request, payload)
  /\ CommandQueueHasRoom
  /\ arena' = Publish(arena, request, payload)
  /\ commands' = Append(commands, [kind |-> "Admit", payload |-> payload,
                                   request_generation |-> request])
  /\ UNCHANGED <<state, events, slotVars, last_controller_now_ns, planVars,
                 scheduleVars, creditVars, seen>>

SubmitCancel(request) ==
  /\ state = "Ready"
  /\ request # 0
  /\ CommandQueueHasRoom
  /\ commands' = Append(commands, [kind |-> "Cancel", payload |-> NoPayload,
                                   request_generation |-> request])
  /\ UNCHANGED <<state, arena, events, slotVars, last_controller_now_ns,
                 planVars, scheduleVars, creditVars, seen>>

(* What the consumer knows of the requests after one more event.           *)
Observe(view, e) ==
  [view EXCEPT ![e.request_generation] =
     CASE e.kind = "TokenCommitted" -> [@ EXCEPT !.tokens = e.token_ordinal]
       [] e.kind = "Draining" -> [@ EXCEPT !.status = "Draining",
                                           !.reason = e.finish_reason]
       [] e.kind = "Admitted" -> [status |-> "Admitted", tokens |-> 0,
                                  reason |-> "None"]
       [] OTHER -> [@ EXCEPT !.status = e.kind]]

(* try_take_event.                                                         *)
TakeEvent ==
  /\ events # <<>>
  /\ events' = Tail(events)
  /\ seen' = Observe(seen, Head(events))
  /\ UNCHANGED <<state, ingressVars, slotVars, last_controller_now_ns,
                 planVars, scheduleVars, creditVars>>

-----------------------------------------------------------------------------
(* step: at most one command per call, and only with room for its event.   *)

StepsTo(now, kind) ==
  /\ state = "Ready"
  /\ now \in Times
  /\ commands # <<>>
  /\ AvailableEventCredit # 0
  /\ Head(commands).kind = kind
  /\ last_controller_now_ns' = now
  /\ commands' = Tail(commands)

(* Nothing queued, or no room for an event: only the clock moves.          *)
StepIdle(now) ==
  /\ state = "Ready"
  /\ now \in Times
  /\ commands = <<>> \/ AvailableEventCredit = 0
  /\ last_controller_now_ns' = now
  /\ UNCHANGED <<state, ingressVars, events, slotVars, planVars, scheduleVars,
                 creditVars, seen>>

SlotsOf(request) ==
  {i \in SlotIndexes :
     Occupied(i) /\ slots[i].sequence.sequence_generation = request}

LowestSlot(indexes) == CHOOSE i \in indexes : \A j \in indexes : i <= j

(* The cancel is consumed and refused: its target is gone or draining.     *)
StepCancelRefused(now) ==
  LET targets == SlotsOf(Head(commands).request_generation)
  IN  /\ StepsTo(now, "Cancel")
      /\ targets # {} => ~CanRequestCancel(slots[LowestSlot(targets)].sequence)
      /\ UNCHANGED <<state, arena, events, slotVars, planVars, scheduleVars,
                     creditVars, seen>>

(* A sequence without a plan starts draining at once; one with a plan does *)
(* so when the plan completes.                                             *)
StepCancel(now) ==
  LET request == Head(commands).request_generation
      i == LowestSlot(SlotsOf(request))
      cancelled == RequestCancel(slots[i].sequence)
      drains == ~HasActivePlan(cancelled)
  IN  /\ StepsTo(now, "Cancel")
      /\ SlotsOf(request) # {}
      /\ CanRequestCancel(slots[i].sequence)
      /\ slots' = [slots EXCEPT ![i].sequence =
                     IF drains THEN BeginDraining(cancelled) ELSE cancelled]
      /\ events' = IF drains THEN Append(events, Event("Draining", request))
                             ELSE events
      /\ UNCHANGED <<state, arena, active_sequence_count,
                     next_ready_enqueue_sequence, planVars, scheduleVars,
                     creditVars, seen>>

FreeSlotIndexes == {i \in SlotIndexes : ~Occupied(i)}

(* A slot keeps last_service_plan_sequence across its occupants.           *)
AdmittedSlot(slot, view, now) ==
  [slot EXCEPT !.request = view,
               !.sequence = Admit(view.request_generation,
                                  view.payload.prompt_tokens, 1),
               !.ready_enqueue_sequence = next_ready_enqueue_sequence,
               !.prefill_eligible_since_ns = now]

(* The payload the admission at the head of the queue claims.              *)
ClaimedIndex == ClaimTarget(arena, Head(commands).request_generation)

(* A refused admission would keep its payload claimed.                     *)
MutArenaAfterRefusal(k) == Claim(arena, k)

ArenaAfterRefusal(k) == ClearSlot(Claim(arena, k), k)

StepAdmit(now) ==
  LET k == ClaimedIndex
      i == LowestSlot(FreeSlotIndexes)
      view == ClaimedReceipt(arena, k)
  IN  /\ "ok" \in AdmissionOutcomes
      /\ StepsTo(now, "Admit")
      /\ arena' = Claim(arena, k)
      /\ slots' = [slots EXCEPT ![i] = AdmittedSlot(@, view, now)]
      /\ next_ready_enqueue_sequence' = next_ready_enqueue_sequence + 1
      /\ active_sequence_count' = active_sequence_count + 1
      /\ events' = Append(events, Event("Admitted", view.request_generation))
      /\ UNCHANGED <<state, planVars, scheduleVars, creditVars, seen>>

(* The participant has no resources: the request is reported as failed.    *)
StepAdmitExhausted(now) ==
  /\ "exhausted" \in AdmissionOutcomes
  /\ StepsTo(now, "Admit")
  /\ arena' = ArenaAfterRefusal(ClaimedIndex)
  /\ events' = Append(events,
                      Event("Failed", Head(commands).request_generation))
  /\ UNCHANGED <<state, slotVars, planVars, scheduleVars, creditVars, seen>>

(* Any other refusal to reserve stops the runtime.                         *)
StepAdmitReserveFailed(now) ==
  /\ "reserve_failed" \in AdmissionOutcomes
  /\ StepsTo(now, "Admit")
  /\ arena' = ArenaAfterRefusal(ClaimedIndex)
  /\ state' = "Failed"
  /\ UNCHANGED <<events, slotVars, planVars, scheduleVars, creditVars, seen>>

(* The reservation is made but cannot be published: the sequence is taken  *)
(* back, its slot keeps the rest, and the runtime stops.                   *)
StepAdmitPublishFailed(now) ==
  LET k == ClaimedIndex
      i == LowestSlot(FreeSlotIndexes)
  IN  /\ "publish_failed" \in AdmissionOutcomes
      /\ StepsTo(now, "Admit")
      /\ arena' = ArenaAfterRefusal(k)
      /\ slots' = [slots EXCEPT ![i] =
                     [AdmittedSlot(@, ClaimedReceipt(arena, k), now)
                        EXCEPT !.sequence = None]]
      /\ next_ready_enqueue_sequence' = next_ready_enqueue_sequence + 1
      /\ state' = "Failed"
      /\ UNCHANGED <<events, active_sequence_count, planVars, scheduleVars,
                     creditVars, seen>>

-----------------------------------------------------------------------------
(* prepare_next_plan.                                                      *)

ReadySlots == {i \in SlotIndexes : Occupied(i) /\ IsReady(slots[i].sequence)}

RealTokens(i) ==
  NextRealTokenCount(slots[i].sequence, MaximumPrefillChunkTokens, 0)

ProducesLogits(i) ==
  NextPlanProducesLogits(slots[i].sequence, MaximumPrefillChunkTokens, 0)

CandidateOf(i) ==
  [slot |-> i,
   sequence_generation |-> slots[i].sequence.sequence_generation,
   next_phase |-> ReadyPhase(slots[i].sequence),
   last_service_plan_seq |-> slots[i].last_service_plan_sequence,
   ready_enqueue_seq |-> slots[i].ready_enqueue_sequence,
   prefill_eligible_since_ns |-> slots[i].prefill_eligible_since_ns,
   real_token_count |-> RealTokens(i),
   feasible |-> TRUE]

SnapshotAt(now) ==
  [now_ns |-> now,
   consecutive_decode_rounds |-> consecutive_decode_rounds,
   last_was_protected_prefill |-> last_was_protected_prefill,
   candidates |-> {CandidateOf(i) : i \in ReadySlots}]

DecisionAt(now) == Select(SnapshotAt(now))

(* One record per plan, if any of its sequences is to produce a token.     *)
RecordsOf(members) ==
  IF \E n \in 1..Len(members) : ProducesLogits(members[n]) THEN 1 ELSE 0

MembersOf(decision) ==
  [n \in 1..Len(decision.included) |-> decision.included[n].slot]

MayPrepare(now) ==
  /\ state = "Ready"
  /\ plan = None
  /\ now \in Times
  /\ next_plan_sequence <= PlanSequenceLimit

(* Nothing is ready, or no output credit is free: only the clock moves.    *)
PrepareNothing(now) ==
  /\ MayPrepare(now)
  /\ \/ ReadySlots = {}
     \/ ~CanAcquire(credits, next_plan_sequence,
                    RecordsOf(MembersOf(DecisionAt(now))))
  /\ last_controller_now_ns' = now
  /\ UNCHANGED <<state, ingressVars, events, slotVars, planVars, scheduleVars,
                 creditVars, seen>>

PreparePlan(now) ==
  LET decision == DecisionAt(now)
      members == MembersOf(decision)
      records == RecordsOf(members)
  IN  /\ MayPrepare(now)
      /\ ReadySlots # {}
      /\ CanAcquire(credits, next_plan_sequence, records)
      /\ credits' = Acquire(credits, next_plan_sequence, records)
      /\ plan' = [plan_sequence |-> next_plan_sequence,
                  phase |-> decision.phase,
                  tier |-> decision.tier,
                  members |-> members,
                  real_token_counts |-> [n \in 1..Len(members) |->
                                           RealTokens(members[n])],
                  lease |-> AcquiredLease(credits, next_plan_sequence,
                                          records)]
      /\ slots' = [i \in SlotIndexes |->
                     IF i \in ToSet(members)
                       THEN [slots[i] EXCEPT !.sequence =
                               Prepare(@, next_plan_sequence, decision.phase,
                                       RealTokens(i))]
                       ELSE slots[i]]
      /\ next_plan_sequence' = next_plan_sequence + 1
      /\ last_controller_now_ns' = now
      /\ UNCHANGED <<state, ingressVars, events, active_sequence_count,
                     next_ready_enqueue_sequence, scheduleVars,
                     pending_output_bursts, seen>>

-----------------------------------------------------------------------------
(* commit, mark and abort go through the members in order and stop at the  *)
(* first that refuses, which leaves the runtime failed.                    *)

MemberSequence(n) == slots[plan.members[n]].sequence

Accepting(Can(_, _)) ==
  {n \in 1..Len(plan.members) :
     \A m \in 1..n : Can(MemberSequence(m), plan.plan_sequence)}

AllAccept(Can(_, _)) == Accepting(Can) = 1..Len(plan.members)

SlotsAfter(Can(_, _), Do(_)) ==
  LET changed == {plan.members[n] : n \in Accepting(Can)}
  IN  [i \in SlotIndexes |->
         IF i \in changed THEN [slots[i] EXCEPT !.sequence = Do(@)]
                          ELSE slots[i]]

FailUnless(condition) == state' = IF condition THEN state ELSE "Failed"

CommitPlan ==
  /\ plan # None
  /\ ValidLease(credits, plan.lease, "Prepared")
  /\ credits' = CommitCredit(credits, plan.lease)
  /\ slots' = SlotsAfter(CanCommit, Commit)
  /\ FailUnless(AllAccept(CanCommit))
  /\ UNCHANGED <<ingressVars, events, active_sequence_count,
                 next_ready_enqueue_sequence, last_controller_now_ns, planVars,
                 scheduleVars, pending_output_bursts, seen>>

MarkPlanInFlight ==
  /\ plan # None
  /\ slots' = SlotsAfter(CanMarkInFlight, MarkInFlight)
  /\ FailUnless(AllAccept(CanMarkInFlight))
  /\ UNCHANGED <<ingressVars, events, active_sequence_count,
                 next_ready_enqueue_sequence, last_controller_now_ns, planVars,
                 scheduleVars, creditVars, seen>>

AbortPlan ==
  LET aborted == AllAccept(CanAbortPrepared)
      returned == aborted /\ ValidLease(credits, plan.lease, "Prepared")
  IN  /\ plan # None
      /\ slots' = SlotsAfter(CanAbortPrepared, AbortPrepared)
      /\ credits' = IF returned THEN AbortCredit(credits, plan.lease)
                                ELSE credits
      /\ plan' = IF returned THEN None ELSE plan
      /\ FailUnless(returned)
      /\ UNCHANGED <<ingressVars, events, active_sequence_count,
                     next_ready_enqueue_sequence, last_controller_now_ns,
                     next_plan_sequence, scheduleVars, pending_output_bursts,
                     seen>>

-----------------------------------------------------------------------------
(* complete_current_sampled_tokens: one token for every member whose plan  *)
(* reaches the end of its prompt or decodes; stops are the members whose   *)
(* token is a stop token.                                                  *)

Processed(n) ==
  MemberSequence(n).model_processed_length
    + plan.real_token_counts[n]

ProducesToken(n) ==
  plan.phase # "Prefill"
    \/ Processed(n) = MemberSequence(n).prompt_token_count

AcceptedAfter(n) ==
  MemberSequence(n).accepted_completion_count
    + (IF ProducesToken(n) THEN 1 ELSE 0)

TokenLimit(n) == slots[plan.members[n]].request.payload.maximum_new_tokens

CompletionOf(n, stops) ==
  [plan_sequence |-> plan.plan_sequence,
   sequence_generation |-> MemberSequence(n).sequence_generation,
   committed_model_processed_length |-> Processed(n),
   accepted_completion_count |-> AcceptedAfter(n),
   state_generation |-> MemberSequence(n).state_generation + 1,
   next_decode_phase |-> "Decode",
   terminal |-> AcceptedAfter(n) = TokenLimit(n) \/ n \in stops]

WillDrain(n, stops) ==
  \/ CompletionOf(n, stops).terminal
  \/ MemberSequence(n).state = "CancelRequested"

FinishReason(n, stops) ==
  IF ~CompletionOf(n, stops).terminal THEN "None"
  ELSE IF AcceptedAfter(n) = TokenLimit(n) THEN "Length" ELSE "Stop"

(* A member that drains would not publish its last token.                  *)
MutMemberEvents(n, stops) ==
  LET request == MemberSequence(n).sequence_generation
  IN  IF WillDrain(n, stops)
        THEN <<[Event("Draining", request) EXCEPT
                  !.finish_reason = FinishReason(n, stops)]>>
        ELSE IF ProducesToken(n)
               THEN <<[Event("TokenCommitted", request) EXCEPT
                         !.token_ordinal = AcceptedAfter(n)]>>
               ELSE <<>>

(* What one member publishes: its token first, then the end of its stream. *)
MemberEvents(n, stops) ==
  LET request == MemberSequence(n).sequence_generation
  IN  (IF ProducesToken(n)
         THEN <<[Event("TokenCommitted", request) EXCEPT
                   !.token_ordinal = AcceptedAfter(n)]>>
         ELSE <<>>)
      \o (IF WillDrain(n, stops)
            THEN <<[Event("Draining", request) EXCEPT
                      !.finish_reason = FinishReason(n, stops)]>>
            ELSE <<>>)

(* Each member's events would be numbered from zero.                       *)
MutPlanEvents(stops) ==
  FlattenSeq([n \in 1..Len(plan.members) |->
    LET own == MemberEvents(n, stops)
    IN  [k \in 1..Len(own) |->
           [own[k] EXCEPT !.plan_sequence = plan.plan_sequence,
                          !.plan_event_index = k - 1,
                          !.plan_event_count = 2 * Len(plan.members)]]])

(* All events of the plan, numbered as one bundle.                         *)
PlanEvents(stops) ==
  LET all == FlattenSeq([n \in 1..Len(plan.members) |->
                           MemberEvents(n, stops)])
  IN  [k \in 1..Len(all) |->
         [all[k] EXCEPT !.plan_sequence = plan.plan_sequence,
                        !.plan_event_index = k - 1,
                        !.plan_event_count = Len(all)]]

(* Sequences that stay are queued again in the order of the plan.          *)
RequeuedBefore(n, stops) ==
  Cardinality({m \in 1..(n - 1) : ~WillDrain(m, stops)})

(* A drained sequence would keep the token of its last step.               *)
MutCompletedSlot(n, stops, now) ==
  [slots[plan.members[n]] EXCEPT
     !.sequence = Complete(@, CompletionOf(n, stops)),
     !.last_service_plan_sequence = plan.plan_sequence,
     !.pending_token = IF ProducesToken(n) THEN AcceptedAfter(n) ELSE @,
     !.ready_enqueue_sequence =
       IF WillDrain(n, stops)
         THEN @
         ELSE next_ready_enqueue_sequence + RequeuedBefore(n, stops),
     !.prefill_eligible_since_ns = IF WillDrain(n, stops) THEN @ ELSE now]

CompletedSlot(n, stops, now) ==
  LET after == Complete(MemberSequence(n), CompletionOf(n, stops))
  IN  [slots[plan.members[n]] EXCEPT
         !.sequence = after,
         !.last_service_plan_sequence = plan.plan_sequence,
         !.pending_token = CASE after.state = "Draining" -> 0
                             [] after.state = "ReadyDecode" -> AcceptedAfter(n)
                             [] OTHER -> @,
         !.ready_enqueue_sequence =
           IF WillDrain(n, stops)
             THEN @
             ELSE next_ready_enqueue_sequence + RequeuedBefore(n, stops),
         !.prefill_eligible_since_ns = IF WillDrain(n, stops) THEN @ ELSE now]

PlanOwesAck(published) == published # <<>>

CompletionRefused(stops) ==
  \/ \E n \in 1..Len(plan.members) :
       \/ ~ValidCompletion(MemberSequence(n), CompletionOf(n, stops))
       \/ AcceptedAfter(n) > TokenLimit(n)
  \/ Len(PlanEvents(stops)) > AvailableEventCredit
  \/ ~ValidLease(credits, plan.lease, "Committed")

DecodeRoundsAfterPlan ==
  IF plan.phase = "Prefill" THEN 0 ELSE consecutive_decode_rounds + 1

CompletePlan(stops, now) ==
  LET published == PlanEvents(stops)
      members == plan.members
      transferred == TransferCredit(credits, plan.lease)
  IN  /\ plan # None
      /\ now \in Times
      /\ \A n \in stops : n <= Len(members) /\ ProducesToken(n)
      /\ ~CompletionRefused(stops)
      /\ slots' = [i \in SlotIndexes |->
                     IF i \in ToSet(members)
                       THEN CompletedSlot(
                              CHOOSE n \in 1..Len(members) : members[n] = i,
                              stops, now)
                       ELSE slots[i]]
      /\ next_ready_enqueue_sequence' =
           next_ready_enqueue_sequence
             + RequeuedBefore(Len(members) + 1, stops)
      /\ events' = events \o published
      /\ consecutive_decode_rounds' = DecodeRoundsAfterPlan
      /\ last_was_protected_prefill' = (plan.tier = "ProtectedPrefill")
      /\ IF PlanOwesAck(published)
           THEN /\ credits' = transferred
                /\ pending_output_bursts' =
                     pending_output_bursts \union {plan.lease}
           ELSE /\ credits' = ReleaseCredit(transferred, plan.lease)
                /\ UNCHANGED pending_output_bursts
      /\ plan' = None
      /\ last_controller_now_ns' = now
      /\ UNCHANGED <<state, ingressVars, active_sequence_count,
                     next_plan_sequence, seen>>

-----------------------------------------------------------------------------
(* acknowledge_output_plan and finalize_draining.                          *)

Acknowledge(lease) ==
  /\ lease \in pending_output_bursts
  /\ ValidLease(credits, lease, "Transferred")
  /\ credits' = ReleaseCredit(credits, lease)
  /\ pending_output_bursts' = pending_output_bursts \ {lease}
  /\ UNCHANGED <<state, ingressVars, events, slotVars, last_controller_now_ns,
                 planVars, scheduleVars, seen>>

(* Any sequence that is draining would be reported as completed.           *)
MutFinalKind(sequence) == "Completed"

FinalKind(sequence) ==
  IF CanFinishCancel(sequence) THEN "Cancelled" ELSE "Completed"

FinalizeDraining(request) ==
  LET i == LowestSlot(SlotsOf(request))
      sequence == slots[i].sequence
  IN  /\ state = "Ready"
      /\ AvailableEventCredit # 0
      /\ SlotsOf(request) # {}
      /\ CanFinishCancel(sequence) \/ CanFinishDrain(sequence)
      /\ arena' = ClearSlot(arena, slots[i].request.slot_index)
      /\ events' = Append(events, Event(FinalKind(sequence), request))
      /\ slots' = [slots EXCEPT ![i] = [@ EXCEPT !.sequence = None,
                                                 !.request = None,
                                                 !.pending_token = 0]]
      /\ active_sequence_count' = active_sequence_count - 1
      /\ UNCHANGED <<state, commands, next_ready_enqueue_sequence,
                     last_controller_now_ns, planVars, scheduleVars,
                     creditVars, seen>>

-----------------------------------------------------------------------------
Next ==
  \/ \E request \in Requests, payload \in Payloads :
       SubmitAdmit(request, payload)
  \/ \E request \in Requests : SubmitCancel(request)
  \/ TakeEvent
  \/ \E now \in 0..MaxNow :
       \/ StepIdle(now)
       \/ StepCancelRefused(now)
       \/ StepCancel(now)
       \/ StepAdmit(now)
       \/ StepAdmitExhausted(now)
       \/ StepAdmitReserveFailed(now)
       \/ StepAdmitPublishFailed(now)
       \/ PrepareNothing(now)
       \/ PreparePlan(now)
       \/ \E stops \in SUBSET (1..MaximumSequencesPerPlan) :
            CompletePlan(stops, now)
  \/ CommitPlan
  \/ MarkPlanInFlight
  \/ AbortPlan
  \/ \E lease \in pending_output_bursts : Acknowledge(lease)
  \/ \E request \in Requests : FinalizeDraining(request)

Spec == Init /\ [][Next]_vars

-----------------------------------------------------------------------------
EventKinds ==
  {"Admitted", "TokenCommitted", "Draining", "Completed", "Cancelled", "Failed"}

FinishReasons == {"None", "Stop", "Length"}

TypeOK ==
  /\ state \in {"Ready", "Failed"}
  /\ arena \in [ArenaIndexes -> ArenaSlot]
  /\ commands \in Seq([kind: {"Admit", "Cancel"}, payload: Payload,
                       request_generation: Requests])
  /\ Len(commands) <= CommandCapacity
  /\ events \in Seq([kind: EventKinds, request_generation: Requests,
                     token_ordinal: Nat, plan_sequence: Nat,
                     plan_event_index: Nat, plan_event_count: Nat,
                     finish_reason: FinishReasons])
  /\ slots \in [SlotIndexes ->
                  [sequence: Sequence \union {None},
                   request: Receipt \union {None},
                   last_service_plan_sequence: Nat,
                   ready_enqueue_sequence: Nat,
                   prefill_eligible_since_ns: Nat,
                   pending_token: Nat]]
  /\ active_sequence_count \in Nat
  /\ next_ready_enqueue_sequence \in Nat \ {0}
  /\ last_controller_now_ns \in Nat
  /\ plan = None \/ plan \in [plan_sequence: Nat \ {0}, phase: Phases,
                             tier: {"ProtectedPrefill", "DecodeFamily",
                                    "NormalPrefill"},
                             members: Seq(SlotIndexes),
                             real_token_counts: Seq(Nat \ {0}),
                             lease: Lease]
  /\ next_plan_sequence \in Nat \ {0}
  /\ consecutive_decode_rounds \in Nat
  /\ last_was_protected_prefill \in BOOLEAN
  /\ credits \in [CreditIndexes -> Credit]
  /\ pending_output_bursts \subseteq Lease
  /\ seen \in [Requests -> [status: EventKinds \union {"None"}, tokens: Nat,
                            reason: FinishReasons]]

(* The internal errors "persistent sequence ledger overflowed" and "no     *)
(* matching request payload" cannot occur and nothing leaks: each payload  *)
(* in the arena belongs to exactly one queued Admit or one sequence, each  *)
(* sequence owns its claimed payload, and the active count agrees.         *)
PayloadsHaveOneOwner ==
  LET admits == {n \in 1..Len(commands) : commands[n].kind = "Admit"}
      occupied == {i \in SlotIndexes : Occupied(i)}
      inState(s) == {k \in ArenaIndexes : arena[k].state = s}
  IN  /\ \A n \in admits : CanClaim(arena, commands[n].request_generation,
                                    commands[n].payload)
      /\ Cardinality(inState("Published")) = Cardinality(admits)
      /\ \A i \in occupied :
           LET view == slots[i].request
           IN  /\ CanRelease(arena, view)
               /\ view = ClaimedReceipt(arena, view.slot_index)
               /\ view.request_generation
                    = slots[i].sequence.sequence_generation
      /\ {slots[i].request.slot_index : i \in occupied} = inState("Claimed")
      /\ Cardinality(occupied) = Cardinality(inState("Claimed"))
      /\ Cardinality(occupied) = active_sequence_count

(* "transferred output credit has no owner slot" and "output ACK release   *)
(* failed" cannot occur and no credit leaks: every credit that is out      *)
(* belongs to the current plan or to one plan that waits for its ACK.      *)
CreditsHaveOneOwner ==
  LET owned == pending_output_bursts
                 \union (IF plan = None THEN {} ELSE {plan.lease})
  IN  /\ \A lease \in pending_output_bursts :
           ValidLease(credits, lease, "Transferred")
      /\ plan # None =>
           \/ ValidLease(credits, plan.lease, "Prepared")
           \/ ValidLease(credits, plan.lease, "Committed")
      /\ {lease.credit_index : lease \in owned}
           = CreditIndexes \ FreeCredits(credits)
      /\ Cardinality(owned) + Cardinality(FreeCredits(credits)) = CreditCount

(* The current plan and the sequences agree on who is in it.  While the    *)
(* runtime is ready the members are in one stage, the stage of the plan's  *)
(* output credit, except those a cancellation has reached.                 *)
PlanAndMembersAgree ==
  LET inPlan == {i \in SlotIndexes :
                   Occupied(i) /\ HasActivePlan(slots[i].sequence)}
  IN  state = "Ready" =>
        IF plan = None THEN inPlan = {} ELSE
          /\ inPlan = ToSet(plan.members)
          /\ Cardinality(inPlan) = Len(plan.members)
          /\ \A i \in inPlan :
               LET s == slots[i].sequence
                   stage == IF s.state = "CancelRequested"
                              THEN s.state_before_cancel
                              ELSE s.state
               IN  /\ s.active_plan_sequence = plan.plan_sequence
                   /\ s.active_phase = plan.phase
                   /\ IF ValidLease(credits, plan.lease, "Prepared")
                        THEN stage = "Prepared"
                        ELSE stage \in {"Committed", "InFlight"}

(* prepare_next_plan never fails half way: whenever sequences are ready    *)
(* the scheduler accepts the snapshot, picks a non-empty plan within its   *)
(* bounds, and every sequence accepts the share it was given.              *)
ReadyMeansSchedulable ==
  LET decision == DecisionAt(last_controller_now_ns)
  IN  ReadySlots # {} =>
        /\ ValidSnapshot(SnapshotAt(last_controller_now_ns))
        /\ decision.included # <<>>
        /\ FoldLeft(LAMBDA total, c : total + c.real_token_count, 0,
                    decision.included) <= MaximumRealTokensPerPlan
        /\ \A i \in ToSet(MembersOf(decision)) :
             CanPrepare(slots[i].sequence, next_plan_sequence, decision.phase,
                        RealTokens(i))

(* The events of a plan reach the consumer as one complete bundle: in      *)
(* order, with no event of another plan or of admission in between, and    *)
(* with a last event to acknowledge the plan on.  They fit the mailbox and *)
(* pass its check, so no "event publish failed" stops the runtime.         *)
BundlesAreContiguous ==
  /\ Len(events) <= EventCapacity
  /\ \A n \in 1..Len(events) :
       LET e == events[n]
       IN  /\ ValidEvent(e)
           /\ e.plan_sequence # 0 /\ e.plan_event_index + 1 < e.plan_event_count =>
                /\ n < Len(events)
                /\ events[n + 1].plan_sequence = e.plan_sequence
                /\ events[n + 1].plan_event_index = e.plan_event_index + 1
                /\ events[n + 1].plan_event_count = e.plan_event_count

(* Once it has taken the queued events the consumer knows exactly what the *)
(* controller knows: how many tokens each sequence has, whether it is      *)
(* draining, and that every other request it heard of is finished.         *)
ConsumerCatchesUp ==
  LET told == FoldLeft(Observe, seen, events)
  IN  \A request \in Requests :
        IF SlotsOf(request) = {}
          THEN told[request].status
                 \in {"None", "Failed", "Completed", "Cancelled"}
          ELSE LET s == slots[LowestSlot(SlotsOf(request))].sequence
               IN  /\ told[request].tokens = s.accepted_completion_count
                   /\ told[request].status =
                        IF s.state = "Draining" THEN "Draining" ELSE "Admitted"

(* The input of the next decode step is the token accepted last, and a     *)
(* sequence never outlives its token limit.                                *)
NextInputIsLastToken ==
  \A i \in SlotIndexes :
    IF ~Occupied(i)
      THEN slots[i].pending_token = 0
      ELSE LET s == slots[i].sequence
               limit == slots[i].request.payload.maximum_new_tokens
           IN  /\ s.accepted_completion_count <= limit
               /\ s.state # "Draining" =>
                    /\ s.accepted_completion_count < limit
                    /\ slots[i].pending_token = s.accepted_completion_count
               /\ s.state = "Draining" /\ ~s.drain_is_cancel =>
                    slots[i].pending_token = 0

Retirable ==
  /\ state = "Ready"
  /\ active_sequence_count = 0
  /\ commands = <<>>
  /\ events = <<>>
  /\ plan = None
  /\ FreeCredits(credits) = CreditIndexes
  /\ pending_output_bursts = {}

(* The events the consumer takes form, for every request, the stream that  *)
(* RequestStream describes, across cancellations, rejected admissions and  *)
(* request generations that are used again.                                *)
Stream == INSTANCE RequestStream WITH stream <- seen

ImplementsRequestStream == Stream!Spec
=============================================================================
