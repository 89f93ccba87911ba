------------------------- MODULE ControllerSequence -------------------------
(***************************************************************************)
(* The per-sequence state machine of the execution controller              *)
(* (plugins/execution-default/controller_sequence.cpp).  A sequence is a   *)
(* record; every method of the class is a pair of operators: the condition *)
(* under which it succeeds (Can...) and the record it leaves behind.  A    *)
(* method whose condition is false returns an error and changes nothing.   *)
(*                                                                         *)
(* The class has one enumerator per (stage, phase) pair, for instance      *)
(* kPrefillPrepared and kDecodePrepared.  prepare() sets the stage and     *)
(* active_phase_ together and nothing changes one without the other, so    *)
(* the model keeps the stage in "state" and the phase in "active_phase".   *)
(***************************************************************************)
EXTENDS Naturals

Phases == {"Prefill", "Decode", "Verify"}

(* kVerify plans carry at most this many tokens (the V1 draft bound).      *)
VerifyTokenBound == 5

TerminalStates == {"Cancelled", "Completed", "Failed"}

SequenceStates ==
  {"QueuedPrefill", "ReadyDecode", "Prepared", "Committed", "InFlight",
   "CancelRequested", "Draining"} \union TerminalStates

Sequence ==
  [sequence_generation: Nat \ {0},
   prompt_token_count: Nat \ {0},
   model_processed_length: Nat,
   accepted_completion_count: Nat,
   state_generation: Nat \ {0},
   active_plan_sequence: Nat,
   active_real_token_count: Nat,
   active_phase: Phases,
   next_decode_phase: {"Decode", "Verify"},
   state: SequenceStates,
   state_before_cancel: SequenceStates,
   drain_is_cancel: BOOLEAN]

CanAdmit(generation, prompt, initial) ==
  generation # 0 /\ prompt # 0 /\ initial # 0

Admit(generation, prompt, initial) ==
  [sequence_generation |-> generation,
   prompt_token_count |-> prompt,
   model_processed_length |-> 0,
   accepted_completion_count |-> 0,
   state_generation |-> initial,
   active_plan_sequence |-> 0,
   active_real_token_count |-> 0,
   active_phase |-> "Prefill",
   next_decode_phase |-> "Decode",
   state |-> "QueuedPrefill",
   state_before_cancel |-> "QueuedPrefill",
   drain_is_cancel |-> FALSE]

Terminal(s) == s.state \in TerminalStates

HasActivePlan(s) == s.active_plan_sequence # 0

(* The active plan would stay named after it is gone.                      *)
MutClearPlan(s) == [s EXCEPT !.active_real_token_count = 0]

ClearPlan(s) ==
  [s EXCEPT !.active_plan_sequence = 0, !.active_real_token_count = 0]

-----------------------------------------------------------------------------
(* Scheduling boundary: what the next plan of a ready sequence would be.   *)

IsReady(s) == s.state \in {"QueuedPrefill", "ReadyDecode"}

ReadyPhase(s) ==
  IF s.state = "QueuedPrefill" THEN "Prefill" ELSE s.next_decode_phase

Smaller(a, b) == IF a < b THEN a ELSE b

NextRealTokenCount(s, maximum_prefill_chunk_tokens, verify_token_count) ==
  CASE ReadyPhase(s) = "Prefill" ->
         Smaller(s.prompt_token_count - s.model_processed_length,
                 maximum_prefill_chunk_tokens)
    [] ReadyPhase(s) = "Decode" -> 1
    [] OTHER -> verify_token_count

NextPlanProducesLogits(s, maximum_prefill_chunk_tokens, verify_token_count) ==
  \/ ReadyPhase(s) # "Prefill"
  \/ s.model_processed_length
       + NextRealTokenCount(s, maximum_prefill_chunk_tokens,
                            verify_token_count)
     = s.prompt_token_count

-----------------------------------------------------------------------------
(* The life of one plan.                                                   *)

CanPrepare(s, plan, phase, count) ==
  /\ IsReady(s)
  /\ phase = ReadyPhase(s)
  /\ plan # 0
  /\ count # 0
  /\ ~HasActivePlan(s)
  /\ phase = "Prefill" =>
       s.model_processed_length + count <= s.prompt_token_count
  /\ phase = "Decode" => count = 1
  /\ phase = "Verify" => count <= VerifyTokenBound

Prepare(s, plan, phase, count) ==
  [s EXCEPT !.active_plan_sequence = plan,
            !.active_real_token_count = count,
            !.active_phase = phase,
            !.state = "Prepared"]

CanCommit(s, plan) == s.state = "Prepared" /\ plan = s.active_plan_sequence

Commit(s) == [s EXCEPT !.state = "Committed"]

CanMarkInFlight(s, plan) ==
  s.state = "Committed" /\ plan = s.active_plan_sequence

MarkInFlight(s) == [s EXCEPT !.state = "InFlight"]

CanAbortPrepared(s, plan) ==
  s.state = "Prepared" /\ plan = s.active_plan_sequence

AbortPrepared(s) ==
  [ClearPlan(s) EXCEPT
     !.state = IF s.active_phase = "Prefill" THEN "QueuedPrefill"
                                             ELSE "ReadyDecode"]

CancelledCommitted(s) ==
  /\ s.state = "CancelRequested"
  /\ HasActivePlan(s)
  /\ s.state_before_cancel \in {"Committed", "InFlight"}

(* The token ledger would not be checked against accepted tokens.          *)
MutCompletionLedger(s, c) ==
  c.accepted_completion_count = 0 =>
    c.committed_model_processed_length < s.prompt_token_count

(* The "K=P+A-1" check: the model has processed the prompt and every       *)
(* accepted token but the last; before the first token it is still inside  *)
(* the prompt.                                                             *)
CompletionLedger(s, c) ==
  IF c.accepted_completion_count # 0
    THEN c.committed_model_processed_length
           = s.prompt_token_count + (c.accepted_completion_count - 1)
    ELSE c.committed_model_processed_length < s.prompt_token_count

CompletionPhase(c) == c.next_decode_phase \in {"Decode", "Verify"}

(* The plan a completion answers would be judged by its number alone.      *)
MutCompletionExpected(s, c) == c.plan_sequence = s.active_plan_sequence

(* Only work that was submitted has a result, and only once: complete()    *)
(* clears the plan.                                                        *)
CompletionExpected(s, c) ==
  /\ s.state = "InFlight" \/ CancelledCommitted(s)
  /\ c.plan_sequence = s.active_plan_sequence

ValidCompletion(s, c) ==
  /\ CompletionExpected(s, c)
  /\ c.sequence_generation = s.sequence_generation
  /\ c.state_generation > s.state_generation
  /\ c.committed_model_processed_length >= s.model_processed_length
  /\ c.accepted_completion_count >= s.accepted_completion_count
  /\ CompletionPhase(c)
  /\ IF s.active_phase = "Prefill"
       THEN /\ c.committed_model_processed_length
                 = s.model_processed_length + s.active_real_token_count
            /\ c.committed_model_processed_length <= s.prompt_token_count
       ELSE c.committed_model_processed_length
              <= s.model_processed_length + s.active_real_token_count
  /\ CompletionLedger(s, c)

Complete(s, c) ==
  [ClearPlan(s) EXCEPT
     !.model_processed_length = c.committed_model_processed_length,
     !.accepted_completion_count = c.accepted_completion_count,
     !.state_generation = c.state_generation,
     !.next_decode_phase = c.next_decode_phase,
     !.state =
       IF s.state = "CancelRequested" \/ c.terminal
         THEN "Draining"
         ELSE IF c.committed_model_processed_length < s.prompt_token_count
                THEN "QueuedPrefill"
                ELSE "ReadyDecode"]

-----------------------------------------------------------------------------
(* Cancellation, draining and the terminal states.                         *)

CanRequestCancel(s) == ~Terminal(s) /\ s.state # "Draining"

RequestCancel(s) ==
  IF s.state = "CancelRequested"
    THEN s
    ELSE [s EXCEPT !.state_before_cancel = s.state,
                   !.drain_is_cancel = TRUE,
                   !.state = "CancelRequested"]

(* Draining would begin while submitted work is still outstanding.         *)
MutCanBeginDraining(s) == s.state = "CancelRequested"

CanBeginDraining(s) ==
  /\ s.state = "CancelRequested"
  /\ HasActivePlan(s) => s.state_before_cancel = "Prepared"

BeginDraining(s) == [ClearPlan(s) EXCEPT !.state = "Draining"]

CanFinishCancel(s) == s.state = "Draining" /\ s.drain_is_cancel

FinishCancel(s) == [s EXCEPT !.state = "Cancelled"]

(* A cancelled sequence could be reported as completed.                    *)
MutCanFinishDrain(s) == s.state = "Draining"

CanFinishDrain(s) == s.state = "Draining" /\ ~s.drain_is_cancel

FinishDrain(s) == [s EXCEPT !.state = "Completed"]

CanFail(s) == ~Terminal(s)

Fail(s) == [ClearPlan(s) EXCEPT !.state = "Failed"]
=============================================================================
