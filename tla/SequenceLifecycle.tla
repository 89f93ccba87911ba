------------------------- MODULE SequenceLifecycle --------------------------
(***************************************************************************)
(* One ControllerSequence driven by an arbitrary caller: every public      *)
(* method of the class may be called at any time, with any arguments.      *)
(* What holds here holds for every caller, the controller runtime          *)
(* included.                                                               *)
(***************************************************************************)
EXTENDS ControllerSequence

CONSTANTS
  PromptLengths,        \* prompt lengths the sequence may be admitted with
  PlanNumbers,          \* plan sequence numbers a caller may use
  TokenCounts,          \* plan sizes and ledger lengths a caller may name
  StateGenerations      \* state generations a completion may carry

ASSUME LifecycleConstants ==
  /\ PromptLengths \subseteq Nat
  /\ PlanNumbers \subseteq Nat
  /\ TokenCounts \subseteq Nat
  /\ StateGenerations \subseteq Nat

VARIABLE seq

Completions ==
  [plan_sequence: PlanNumbers,
   sequence_generation: {0, 1},
   committed_model_processed_length: TokenCounts,
   accepted_completion_count: TokenCounts,
   state_generation: StateGenerations,
   next_decode_phase: Phases,
   terminal: BOOLEAN]

Init ==
  \E prompt \in PromptLengths :
    /\ CanAdmit(1, prompt, 1)
    /\ seq = Admit(1, prompt, 1)

PrepareCall(plan, phase, count) ==
  CanPrepare(seq, plan, phase, count) /\ seq' = Prepare(seq, plan, phase, count)

CommitCall(plan) == CanCommit(seq, plan) /\ seq' = Commit(seq)

MarkInFlightCall(plan) == CanMarkInFlight(seq, plan) /\ seq' = MarkInFlight(seq)

AbortCall(plan) == CanAbortPrepared(seq, plan) /\ seq' = AbortPrepared(seq)

CompleteCall(c) == ValidCompletion(seq, c) /\ seq' = Complete(seq, c)

RequestCancelCall == CanRequestCancel(seq) /\ seq' = RequestCancel(seq)

BeginDrainingCall == CanBeginDraining(seq) /\ seq' = BeginDraining(seq)

FinishCancelCall == CanFinishCancel(seq) /\ seq' = FinishCancel(seq)

FinishDrainCall == CanFinishDrain(seq) /\ seq' = FinishDrain(seq)

FailCall == CanFail(seq) /\ seq' = Fail(seq)

Next ==
  \/ \E plan \in PlanNumbers, phase \in Phases, count \in TokenCounts :
       PrepareCall(plan, phase, count)
  \/ \E plan \in PlanNumbers :
       CommitCall(plan) \/ MarkInFlightCall(plan) \/ AbortCall(plan)
  \/ \E c \in Completions : CompleteCall(c)
  \/ RequestCancelCall
  \/ BeginDrainingCall
  \/ FinishCancelCall
  \/ FinishDrainCall
  \/ FailCall

Spec == Init /\ [][Next]_seq

-----------------------------------------------------------------------------
(* The stage a sequence was in when its cancel, if any, arrived.           *)
WorkStage(s) ==
  IF s.state = "CancelRequested" THEN s.state_before_cancel ELSE s.state

(* Every field keeps the range its C++ type and the checks allow.          *)
TypeOK == seq \in Sequence

(* The token ledger behind K = P + A - 1: after the first accepted token   *)
(* the model has processed exactly the prompt and every accepted token but *)
(* the last, before it the model is still inside the prompt.  Hence a      *)
(* prefill never restarts after a token was accepted and a decode never    *)
(* runs without one.  No single method guarantees this: it needs prepare's *)
(* partition bound, complete's cut and the choice of the next state.       *)
TokenLedger ==
  LET K == seq.model_processed_length
      P == seq.prompt_token_count
      A == seq.accepted_completion_count
  IN  /\ A # 0 => K = P + (A - 1)
      /\ A = 0 => K < P
      /\ WorkStage(seq) = "QueuedPrefill" => A = 0
      /\ WorkStage(seq) = "ReadyDecode" => A # 0
      /\ HasActivePlan(seq) =>
           /\ seq.active_real_token_count # 0
           /\ IF seq.active_phase = "Prefill"
                THEN K + seq.active_real_token_count <= P
                ELSE A # 0

(* A sequence names an active plan exactly while a plan of it is prepared, *)
(* committed or in flight, whether or not a cancel arrived meanwhile.      *)
PlanOwnership ==
  HasActivePlan(seq) <=> WorkStage(seq) \in {"Prepared", "Committed", "InFlight"}

(* What a step may do to submitted work, to the ledger and to a cancel.    *)
SubmittedWorkKept ==
  WorkStage(seq) \in {"Committed", "InFlight"} /\ ~HasActivePlan(seq') =>
    \/ seq'.state_generation > seq.state_generation
    \/ seq'.state = "Failed"

LedgerMovesWithItsPlan ==
  \/ seq'.model_processed_length # seq.model_processed_length
  \/ seq'.accepted_completion_count # seq.accepted_completion_count
  => /\ WorkStage(seq) \in {"Committed", "InFlight"}
     /\ ~HasActivePlan(seq')
     /\ seq'.model_processed_length >= seq.model_processed_length
     /\ seq'.accepted_completion_count >= seq.accepted_completion_count

CancelHolds ==
  seq.drain_is_cancel =>
    /\ seq'.drain_is_cancel
    /\ seq'.active_plan_sequence \in {0, seq.active_plan_sequence}
    /\ seq'.state # "Completed"

(* Submitted work is never forgotten: a committed or in-flight plan leaves *)
(* the sequence only through its completion (which advances the state      *)
(* generation) or through fail(); in particular a cancel cannot drain a    *)
(* sequence whose KV blocks a submitted plan is still writing.             *)
CommittedWorkIsNeverDropped == [][SubmittedWorkKept]_seq

(* The result of a plan is applied once: the ledger moves only in a step   *)
(* that retires the plan that caused it, and only forward.                 *)
EachPlanCountsOnce == [][LedgerMovesWithItsPlan]_seq

(* A cancel is final: after request_cancel() no further plan is started    *)
(* for the sequence, and it can only end cancelled or failed, even when    *)
(* its last plan turns out to be a terminal one.                           *)
CancelIsFinal == [][CancelHolds]_seq
=============================================================================
