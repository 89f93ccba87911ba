---------------------- MODULE SequenceLifecycleProofs -----------------------
(***************************************************************************)
(* For every prompt length, plan size and sequence of calls, a             *)
(* ControllerSequence keeps its token ledger, owns a plan exactly while    *)
(* one is outstanding, never drops submitted work and never revives after  *)
(* a cancel.                                                               *)
(***************************************************************************)
EXTENDS SequenceLifecycle, TLAPS

(* A requested cancel leaves the sequence in one of the states that lead   *)
(* to Cancelled or Failed, and remembers a state from before the cancel.   *)
CancelShape ==
  /\ seq.drain_is_cancel =>
       seq.state \in {"CancelRequested", "Draining", "Cancelled", "Failed"}
  /\ seq.state = "CancelRequested" =>
       /\ seq.drain_is_cancel
       /\ seq.state_before_cancel \in
            {"QueuedPrefill", "ReadyDecode", "Prepared", "Committed", "InFlight"}

(* The inductive invariant: the ledger needs plan ownership (a ready       *)
(* sequence owns no plan), and plan ownership needs the shape of cancels.  *)
IInv == TypeOK /\ TokenLedger /\ PlanOwnership /\ CancelShape

USE LifecycleConstants

LEMMA InitIInv == Init => IInv
BY DEF Init, CanAdmit, Admit, IInv, TypeOK, TokenLedger, PlanOwnership,
       CancelShape, WorkStage, HasActivePlan, Sequence, Phases,
       SequenceStates, TerminalStates

LEMMA PrepareIInv ==
  ASSUME IInv,
         NEW plan \in PlanNumbers, NEW phase \in Phases,
         NEW count \in TokenCounts,
         PrepareCall(plan, phase, count)
  PROVE  IInv'
<1>1. seq' = [seq EXCEPT !.active_plan_sequence = plan,
                         !.active_real_token_count = count,
                         !.active_phase = phase,
                         !.state = "Prepared"]
  BY DEF PrepareCall, Prepare
<1>2. plan \in Nat \ {0} /\ count \in Nat \ {0}
  BY DEF PrepareCall, CanPrepare
<1>3. TypeOK'
  BY <1>1, <1>2 DEF IInv, TypeOK, Sequence, SequenceStates
<1>4. TokenLedger'
  BY <1>1, <1>2 DEF PrepareCall, CanPrepare, IsReady, ReadyPhase, WorkStage,
       HasActivePlan, IInv, TypeOK, TokenLedger, Sequence
<1>5. PlanOwnership' /\ CancelShape'
  BY <1>1, <1>2 DEF PrepareCall, CanPrepare, IsReady, WorkStage,
       HasActivePlan, IInv, TypeOK, PlanOwnership, CancelShape, Sequence
<1>6. QED
  BY <1>3, <1>4, <1>5 DEF IInv

LEMMA CommitIInv ==
  ASSUME IInv, NEW plan \in PlanNumbers, CommitCall(plan)
  PROVE  IInv'
<1>1. seq' = [seq EXCEPT !.state = "Committed"]
  BY DEF CommitCall, Commit
<1>2. TypeOK'
  BY <1>1 DEF IInv, TypeOK, Sequence, SequenceStates
<1>3. TokenLedger'
  BY <1>1 DEF IInv, TypeOK, TokenLedger, WorkStage, HasActivePlan, Sequence
<1>4. PlanOwnership' /\ CancelShape'
  BY <1>1 DEF CommitCall, CanCommit, IInv, TypeOK, PlanOwnership, CancelShape,
       WorkStage, HasActivePlan, Sequence
<1>5. QED
  BY <1>2, <1>3, <1>4 DEF IInv

LEMMA MarkInFlightIInv ==
  ASSUME IInv, NEW plan \in PlanNumbers, MarkInFlightCall(plan)
  PROVE  IInv'
<1>1. seq' = [seq EXCEPT !.state = "InFlight"]
  BY DEF MarkInFlightCall, MarkInFlight
<1>2. TypeOK'
  BY <1>1 DEF IInv, TypeOK, Sequence, SequenceStates
<1>3. TokenLedger'
  BY <1>1 DEF IInv, TypeOK, TokenLedger, WorkStage, HasActivePlan, Sequence
<1>4. PlanOwnership' /\ CancelShape'
  BY <1>1 DEF MarkInFlightCall, CanMarkInFlight, IInv, TypeOK, PlanOwnership, CancelShape,
       WorkStage, HasActivePlan, Sequence
<1>5. QED
  BY <1>2, <1>3, <1>4 DEF IInv

LEMMA AbortIInv ==
  ASSUME IInv, NEW plan \in PlanNumbers, AbortCall(plan)
  PROVE  IInv'
<1>1. seq' = [seq EXCEPT !.active_plan_sequence = 0,
                         !.active_real_token_count = 0,
                         !.state = IF seq.active_phase = "Prefill"
                                     THEN "QueuedPrefill" ELSE "ReadyDecode"]
  BY DEF AbortCall, AbortPrepared, ClearPlan, IInv, TypeOK, Sequence
<1>2. TypeOK'
  BY <1>1 DEF IInv, TypeOK, Sequence, SequenceStates
<1>3. TokenLedger'
  BY <1>1 DEF AbortCall, CanAbortPrepared, IInv, TypeOK, TokenLedger, PlanOwnership,
       WorkStage, HasActivePlan, Sequence
<1>4. PlanOwnership' /\ CancelShape'
  BY <1>1 DEF AbortCall, CanAbortPrepared, IInv, TypeOK, PlanOwnership, CancelShape,
       WorkStage, HasActivePlan, Sequence
<1>5. QED
  BY <1>2, <1>3, <1>4 DEF IInv

LEMMA CompleteIInv ==
  ASSUME IInv, NEW c \in Completions, CompleteCall(c)
  PROVE  IInv'
<1> DEFINE after == IF seq.state = "CancelRequested" \/ c.terminal
                      THEN "Draining"
                      ELSE IF c.committed_model_processed_length
                                < seq.prompt_token_count
                             THEN "QueuedPrefill"
                             ELSE "ReadyDecode"
<1>1. seq' = [seq EXCEPT
                !.active_plan_sequence = 0,
                !.active_real_token_count = 0,
                !.model_processed_length = c.committed_model_processed_length,
                !.accepted_completion_count = c.accepted_completion_count,
                !.state_generation = c.state_generation,
                !.next_decode_phase = c.next_decode_phase,
                !.state = after]
  BY DEF CompleteCall, Complete, ClearPlan, IInv, TypeOK, Sequence
<1>0. after \in SequenceStates
  BY DEF SequenceStates
<1>a. /\ c.committed_model_processed_length \in Nat
      /\ c.accepted_completion_count \in Nat
      /\ c.state_generation \in Nat
  BY DEF Completions
<1>b. seq.state_generation \in Nat /\ c.state_generation > seq.state_generation
  BY DEF CompleteCall, ValidCompletion, IInv, TypeOK, Sequence
<1>c. c.next_decode_phase \in {"Decode", "Verify"}
  BY DEF CompleteCall, ValidCompletion, CompletionPhase
<1>d. c.state_generation \in Nat \ {0}
  BY <1>a, <1>b
<1>2. TypeOK'
  <2> HIDE DEF after
  <2>1. QED
    BY <1>0, <1>1, <1>a, <1>c, <1>d DEF IInv, TypeOK, Sequence
<1>3. TokenLedger'
  BY <1>1, <1>2 DEF CompleteCall, ValidCompletion, CompletionLedger,
       Completions, HasActivePlan, WorkStage, IInv, TypeOK, TokenLedger,
       Sequence
<1>4. PlanOwnership' /\ CancelShape'
  BY <1>1, <1>2 DEF CompleteCall, ValidCompletion, CompletionExpected,
       CancelledCommitted, HasActivePlan, WorkStage, IInv, TypeOK,
       PlanOwnership, CancelShape, Sequence, SequenceStates, TerminalStates
<1>5. QED
  BY <1>2, <1>3, <1>4 DEF IInv

LEMMA RequestCancelIInv ==
  ASSUME IInv, RequestCancelCall
  PROVE  IInv'
<1>1. CASE seq.state = "CancelRequested"
  <2>1. seq' = seq
    BY <1>1 DEF RequestCancelCall, RequestCancel
  <2>2. QED
    BY <2>1 DEF IInv, TypeOK, TokenLedger, PlanOwnership, CancelShape,
         WorkStage, HasActivePlan
<1>2. CASE seq.state # "CancelRequested"
  <2>1. seq' = [seq EXCEPT !.state_before_cancel = seq.state,
                           !.drain_is_cancel = TRUE,
                           !.state = "CancelRequested"]
    BY <1>2 DEF RequestCancelCall, RequestCancel
  <2>2. TypeOK'
    BY <2>1 DEF IInv, TypeOK, Sequence, SequenceStates
  <2>3. WorkStage(seq') = WorkStage(seq)
    BY <1>2, <2>1 DEF IInv, TypeOK, Sequence, WorkStage
  <2>4. TokenLedger' /\ PlanOwnership'
    BY <2>1, <2>3 DEF IInv, TypeOK, Sequence, TokenLedger, PlanOwnership,
         HasActivePlan
  <2>5. CancelShape'
    BY <1>2, <2>1 DEF RequestCancelCall, CanRequestCancel, Terminal, IInv,
         TypeOK, CancelShape, Sequence, SequenceStates, TerminalStates
  <2>6. QED
    BY <2>2, <2>4, <2>5 DEF IInv
<1>3. QED
  BY <1>1, <1>2

LEMMA BeginDrainingIInv ==
  ASSUME IInv, BeginDrainingCall
  PROVE  IInv'
<1>1. seq' = [seq EXCEPT !.active_plan_sequence = 0,
                         !.active_real_token_count = 0,
                         !.state = "Draining"]
  BY DEF BeginDrainingCall, BeginDraining, ClearPlan, IInv, TypeOK, Sequence
<1>2. TypeOK'
  BY <1>1 DEF IInv, TypeOK, Sequence, SequenceStates, TerminalStates
<1>3. TokenLedger'
  BY <1>1 DEF BeginDrainingCall, CanBeginDraining, IInv, TypeOK, TokenLedger, PlanOwnership,
       WorkStage, HasActivePlan, Sequence
<1>4. PlanOwnership' /\ CancelShape'
  BY <1>1 DEF BeginDrainingCall, CanBeginDraining, IInv, TypeOK, PlanOwnership, CancelShape,
       WorkStage, HasActivePlan, Sequence
<1>5. QED
  BY <1>2, <1>3, <1>4 DEF IInv

LEMMA FinishCancelIInv ==
  ASSUME IInv, FinishCancelCall
  PROVE  IInv'
<1>1. seq' = [seq EXCEPT !.state = "Cancelled"]
  BY DEF FinishCancelCall, FinishCancel
<1>2. TypeOK'
  BY <1>1 DEF IInv, TypeOK, Sequence, SequenceStates, TerminalStates
<1>3. TokenLedger'
  BY <1>1 DEF IInv, TypeOK, TokenLedger, WorkStage, HasActivePlan, Sequence
<1>4. PlanOwnership' /\ CancelShape'
  BY <1>1 DEF FinishCancelCall, CanFinishCancel, IInv, TypeOK, PlanOwnership, CancelShape,
       WorkStage, HasActivePlan, Sequence
<1>5. QED
  BY <1>2, <1>3, <1>4 DEF IInv

LEMMA FinishDrainIInv ==
  ASSUME IInv, FinishDrainCall
  PROVE  IInv'
<1>1. seq' = [seq EXCEPT !.state = "Completed"]
  BY DEF FinishDrainCall, FinishDrain
<1>2. TypeOK'
  BY <1>1 DEF IInv, TypeOK, Sequence, SequenceStates, TerminalStates
<1>3. TokenLedger'
  BY <1>1 DEF IInv, TypeOK, TokenLedger, WorkStage, HasActivePlan, Sequence
<1>4. PlanOwnership' /\ CancelShape'
  BY <1>1 DEF FinishDrainCall, CanFinishDrain, IInv, TypeOK, PlanOwnership, CancelShape,
       WorkStage, HasActivePlan, Sequence
<1>5. QED
  BY <1>2, <1>3, <1>4 DEF IInv

LEMMA FailIInv ==
  ASSUME IInv, FailCall
  PROVE  IInv'
<1>1. seq' = [seq EXCEPT !.active_plan_sequence = 0,
                         !.active_real_token_count = 0,
                         !.state = "Failed"]
  BY DEF FailCall, Fail, ClearPlan, IInv, TypeOK, Sequence
<1>2. TypeOK'
  BY <1>1 DEF IInv, TypeOK, Sequence, SequenceStates, TerminalStates
<1>3. TokenLedger'
  BY <1>1 DEF FailCall, CanFail, IInv, TypeOK, TokenLedger, PlanOwnership,
       WorkStage, HasActivePlan, Sequence
<1>4. PlanOwnership' /\ CancelShape'
  BY <1>1 DEF FailCall, CanFail, IInv, TypeOK, PlanOwnership, CancelShape,
       WorkStage, HasActivePlan, Sequence
<1>5. QED
  BY <1>2, <1>3, <1>4 DEF IInv

LEMMA NextIInv == IInv /\ [Next]_seq => IInv'
<1> SUFFICES ASSUME IInv, [Next]_seq PROVE IInv'
  OBVIOUS
<1>1. CASE UNCHANGED seq
  BY <1>1 DEF IInv, TypeOK, TokenLedger, PlanOwnership, CancelShape,
              WorkStage, HasActivePlan
<1>2. CASE Next
  BY <1>2, PrepareIInv, CommitIInv, MarkInFlightIInv, AbortIInv, CompleteIInv,
     RequestCancelIInv, BeginDrainingIInv, FinishCancelIInv, FinishDrainIInv,
     FailIInv DEF Next
<1>3. QED
  BY <1>1, <1>2

LEMMA SpecIInv == Spec => []IInv
BY InitIInv, NextIInv, PTL DEF Spec

(* A sequence keeps the range of its fields whatever its caller does.      *)
THEOREM SequenceTypeCorrect == Spec => []TypeOK
<1>1. IInv => TypeOK
  BY DEF IInv
<1>2. QED
  BY <1>1, SpecIInv, PTL

(* K = P + A - 1 holds for every prompt, every chunking of it and every    *)
(* number of generated tokens.                                             *)
THEOREM SequenceKeepsTokenLedger == Spec => []TokenLedger
<1>1. IInv => TokenLedger
  BY DEF IInv
<1>2. QED
  BY <1>1, SpecIInv, PTL

(* A sequence names a plan exactly while that plan is outstanding.         *)
THEOREM SequenceOwnsItsPlan == Spec => []PlanOwnership
<1>1. IInv => PlanOwnership
  BY DEF IInv
<1>2. QED
  BY <1>1, SpecIInv, PTL

(* What every step does to submitted work, the ledger and a cancel.        *)
LEMMA StepProperties ==
  ASSUME IInv, Next
  PROVE  SubmittedWorkKept /\ LedgerMovesWithItsPlan /\ CancelHolds
<1> USE DEF SubmittedWorkKept, LedgerMovesWithItsPlan, CancelHolds,
            WorkStage, HasActivePlan, IInv, TypeOK, PlanOwnership, CancelShape,
            Sequence, TerminalStates
<1>1. ASSUME NEW plan \in PlanNumbers, NEW phase \in Phases, NEW count \in TokenCounts,
             PrepareCall(plan, phase, count)
      PROVE  SubmittedWorkKept /\ LedgerMovesWithItsPlan /\ CancelHolds
  BY <1>1 DEF PrepareCall, CanPrepare, Prepare, IsReady
<1>2. ASSUME NEW plan \in PlanNumbers,
             CommitCall(plan)
      PROVE  SubmittedWorkKept /\ LedgerMovesWithItsPlan /\ CancelHolds
  BY <1>2 DEF CommitCall, CanCommit, Commit
<1>3. ASSUME NEW plan \in PlanNumbers,
             MarkInFlightCall(plan)
      PROVE  SubmittedWorkKept /\ LedgerMovesWithItsPlan /\ CancelHolds
  BY <1>3 DEF MarkInFlightCall, CanMarkInFlight, MarkInFlight
<1>4. ASSUME NEW plan \in PlanNumbers,
             AbortCall(plan)
      PROVE  SubmittedWorkKept /\ LedgerMovesWithItsPlan /\ CancelHolds
  BY <1>4 DEF AbortCall, CanAbortPrepared, AbortPrepared, ClearPlan
<1>5. ASSUME NEW c \in Completions,
             CompleteCall(c)
      PROVE  SubmittedWorkKept /\ LedgerMovesWithItsPlan /\ CancelHolds
  BY <1>5 DEF CompleteCall, ValidCompletion, CompletionExpected,
         CancelledCommitted, Complete, ClearPlan, Completions
<1>6. ASSUME RequestCancelCall
      PROVE  SubmittedWorkKept /\ LedgerMovesWithItsPlan /\ CancelHolds
  BY <1>6 DEF RequestCancelCall, CanRequestCancel, RequestCancel, Terminal
<1>7. ASSUME BeginDrainingCall
      PROVE  SubmittedWorkKept /\ LedgerMovesWithItsPlan /\ CancelHolds
  BY <1>7 DEF BeginDrainingCall, CanBeginDraining, BeginDraining, ClearPlan
<1>8. ASSUME FinishCancelCall
      PROVE  SubmittedWorkKept /\ LedgerMovesWithItsPlan /\ CancelHolds
  BY <1>8 DEF FinishCancelCall, CanFinishCancel, FinishCancel
<1>9. ASSUME FinishDrainCall
      PROVE  SubmittedWorkKept /\ LedgerMovesWithItsPlan /\ CancelHolds
  BY <1>9 DEF FinishDrainCall, CanFinishDrain, FinishDrain
<1>10. ASSUME FailCall
      PROVE  SubmittedWorkKept /\ LedgerMovesWithItsPlan /\ CancelHolds
  BY <1>10 DEF FailCall, CanFail, Fail, ClearPlan, Terminal
<1>11. QED
  BY <1>1, <1>2, <1>3, <1>4, <1>5, <1>6, <1>7, <1>8, <1>9, <1>10 DEF Next

(* No call sequence makes a sequence forget a plan that was submitted.     *)
THEOREM SubmittedWorkSurvives == Spec => CommittedWorkIsNeverDropped
<1>1. IInv /\ [Next]_seq => [SubmittedWorkKept]_seq
  BY StepProperties
<1>2. QED
  BY <1>1, SpecIInv, PTL DEF Spec, CommittedWorkIsNeverDropped

(* No call sequence applies the result of a plan twice, or backwards.      *)
THEOREM PlanResultsApplyOnce == Spec => EachPlanCountsOnce
<1>1. IInv /\ [Next]_seq => [LedgerMovesWithItsPlan]_seq
  BY StepProperties
<1>2. QED
  BY <1>1, SpecIInv, PTL DEF Spec, EachPlanCountsOnce

(* No call sequence revives or completes a sequence that was cancelled.    *)
THEOREM CancelNeverReverts == Spec => CancelIsFinal
<1>1. IInv /\ [Next]_seq => [CancelHolds]_seq
  BY StepProperties
<1>2. QED
  BY <1>1, SpecIInv, PTL DEF Spec, CancelIsFinal
=============================================================================
