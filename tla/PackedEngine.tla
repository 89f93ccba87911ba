---------------------------- MODULE PackedEngine ----------------------------
(***************************************************************************)
(* The packed engine of the Qwen plugin: ControllerPackedDriver            *)
(* (controller_packed_driver.cpp) and the *_packed methods of the engine   *)
(* (nvidia_qwen3_bf16_engine.cpp) around the execution controller.  One    *)
(* thread drives and drains (operation_mutex); submissions, cancellations, *)
(* events and acknowledgements may come from any thread between two calls  *)
(* to the controller.                                                      *)
(*                                                                         *)
(* Device work, KV admission and KV recycling are interfaces here:         *)
(* ExecutionOutcomes, AdmissionOutcomes and RecycleOutcomes say how they   *)
(* may end.  KvPackedAdmission models the KV side.                         *)
(***************************************************************************)
EXTENDS ControllerRuntime

CONSTANTS
  ExecutionOutcomes,  \* of the backend's execute_packed
  RecycleOutcomes,    \* of the recycler's recycle
  ReceiptCapacity     \* receipts_.size()

ASSUME EngineConstants ==
  /\ ExecutionOutcomes \subseteq {"ok", "failed"}
  /\ RecycleOutcomes \subseteq {"ok", "failed"}
  /\ ReceiptCapacity \in Nat
  /\ ReceiptCapacity >= MaximumSequencesPerPlan

VARIABLES
  poisoned,   \* the engine's poisoned flag
  driver,     \* ControllerPackedDriverState
  executing,  \* where the driving thread is in execute_next
  bindings,   \* sequence generations with an admission and a KV binding
  reclaimed,  \* generations whose KV was recycled (reclaimed_)
  receipts,   \* receipts_, oldest first
  next_packed_request_generation

driverVars == <<driver, executing, bindings, reclaimed, receipts>>
engineVars == <<poisoned, driverVars, next_packed_request_generation>>
allVars == <<vars, engineVars>>

EngineInit ==
  /\ Init
  /\ poisoned = FALSE
  /\ driver = "Ready"
  /\ executing = "No"
  /\ bindings = {}
  /\ reclaimed = {}
  /\ receipts = <<>>
  /\ next_packed_request_generation = 1

-----------------------------------------------------------------------------
(* submit_packed consumes a generation only when the controller accepts.   *)
SubmitPacked(payload) ==
  /\ ~poisoned
  /\ SubmitAdmit(next_packed_request_generation, payload)
  /\ next_packed_request_generation' = next_packed_request_generation + 1
  /\ UNCHANGED <<poisoned, driverVars>>

CancelPacked(request) ==
  /\ ~poisoned
  /\ SubmitCancel(request)
  /\ UNCHANGED engineVars

-----------------------------------------------------------------------------
(* drive_packed: a queued command first, a plan only without one.          *)

(* Commands would be stepped while a plan is being executed.               *)
MutDriving == ~poisoned

Driving == ~poisoned /\ executing = "No"

Poisons == poisoned' = TRUE

(* No room for an event: the command waits.                                *)
DriveBackpressured(now) ==
  /\ Driving
  /\ commands # <<>>
  /\ StepIdle(now)
  /\ UNCHANGED engineVars

DriveCancel(now) ==
  /\ Driving
  /\ StepCancel(now)
  /\ UNCHANGED engineVars

(* An error of step poisons the engine.                                    *)
DriveCancelRefused(now) ==
  /\ Driving
  /\ StepCancelRefused(now)
  /\ Poisons
  /\ UNCHANGED <<driverVars, next_packed_request_generation>>

(* The admission would not be bound to its KV.                             *)
MutDriveAdmit(now) ==
  /\ Driving
  /\ driver = "Ready"
  /\ StepAdmit(now)
  /\ UNCHANGED engineVars

(* Binding a sequence needs a driver with no completion pending.           *)
DriveAdmit(now) ==
  /\ Driving
  /\ driver = "Ready"
  /\ StepAdmit(now)
  /\ bindings' = bindings \union {Head(commands).request_generation}
  /\ UNCHANGED <<poisoned, driver, executing, reclaimed, receipts,
                 next_packed_request_generation>>

DriveAdmitExhausted(now) ==
  /\ Driving
  /\ StepAdmitExhausted(now)
  /\ UNCHANGED engineVars

DriveAdmitFailed(now) ==
  /\ Driving
  /\ \/ StepAdmitReserveFailed(now)
     \/ driver # "Ready" /\ StepAdmitPublishFailed(now)
  /\ Poisons
  /\ UNCHANGED <<driverVars, next_packed_request_generation>>

-----------------------------------------------------------------------------
(* execute_next, one step per call to the controller.                      *)

Executes == Driving /\ commands = <<>> /\ driver = "Ready"

ExecuteIdle(now) ==
  /\ Executes
  /\ ReadySlots = {}
  /\ PrepareNothing(now)
  /\ UNCHANGED engineVars

(* prepare_next_plan refuses for want of an output credit; drive_packed    *)
(* treats this like any other error.                                       *)
ExecuteWithoutCredit(now) ==
  /\ Executes
  /\ ReadySlots # {}
  /\ PrepareNothing(now)
  /\ Poisons
  /\ UNCHANGED <<driverVars, next_packed_request_generation>>

ExecutePrepare(now) ==
  /\ Executes
  /\ PreparePlan(now)
  /\ executing' = "Prepared"
  /\ UNCHANGED <<poisoned, driver, bindings, reclaimed, receipts,
                 next_packed_request_generation>>

(* PlanStagesAccept shows that commit and mark are never refused here.     *)
ExecuteCommit ==
  /\ executing = "Prepared"
  /\ CommitPlan
  /\ executing' = "Committed"
  /\ UNCHANGED <<poisoned, driver, bindings, reclaimed, receipts,
                 next_packed_request_generation>>

ExecuteMark ==
  /\ executing = "Committed"
  /\ MarkPlanInFlight
  /\ executing' = "InFlight"
  /\ UNCHANGED <<poisoned, driver, bindings, reclaimed, receipts,
                 next_packed_request_generation>>

(* The backend runs the plan.                                              *)
ExecuteBatch ==
  /\ "ok" \in ExecutionOutcomes
  /\ executing = "InFlight"
  /\ executing' = "Publishing"
  /\ driver' = "CompletionPending"
  /\ UNCHANGED <<vars, poisoned, bindings, reclaimed, receipts,
                 next_packed_request_generation>>

ExecuteBatchFails ==
  /\ "failed" \in ExecutionOutcomes
  /\ executing = "InFlight"
  /\ executing' = "No"
  /\ driver' = "Poisoned"
  /\ Poisons
  /\ UNCHANGED <<vars, bindings, reclaimed, receipts,
                 next_packed_request_generation>>

-----------------------------------------------------------------------------
(* publish_pending, right after the batch or in a later drive.             *)

MayPublish ==
  \/ executing = "Publishing"
  \/ Driving /\ commands = <<>> /\ driver = "CompletionPending"

Sampled == SelectSeq([n \in 1..Len(plan.members) |-> n], ProducesToken)


PendingReceipts ==
  [k \in 1..Len(Sampled) |->
     LET n == Sampled[k]
     IN  [request_generation |-> MemberSequence(n).sequence_generation,
          token_ordinal |-> MemberSequence(n).accepted_completion_count + 1]]

ReceiptsFit == Len(Sampled) <= ReceiptCapacity - Len(receipts)

(* The controller client refuses an empty token span.                      *)
ClientAccepts == Len(Sampled) # 0

(* The output would be offered to the controller again from the start.     *)
MutAfterBackpressure == "Ready"

AfterBackpressure == "CompletionPending"

PublishBackpressured(stops) ==
  /\ MayPublish
  /\ \/ ~ReceiptsFit
     \/ ClientAccepts /\ Len(PlanEvents(stops)) > AvailableEventCredit
  /\ executing' = "No"
  /\ driver' = AfterBackpressure
  /\ UNCHANGED <<vars, poisoned, bindings, reclaimed, receipts,
                 next_packed_request_generation>>

PublishCompletes(stops, now) ==
  /\ MayPublish
  /\ ReceiptsFit
  /\ ClientAccepts
  /\ CompletePlan(stops, now)
  /\ receipts' = receipts \o PendingReceipts
  /\ executing' = "No"
  /\ driver' = "Ready"
  /\ UNCHANGED <<poisoned, bindings, reclaimed, next_packed_request_generation>>

PublishRefused ==
  /\ MayPublish
  /\ ReceiptsFit
  /\ ~ClientAccepts
  /\ executing' = "No"
  /\ driver' = "Poisoned"
  /\ Poisons
  /\ UNCHANGED <<vars, bindings, reclaimed, receipts,
                 next_packed_request_generation>>

-----------------------------------------------------------------------------
(* try_take_packed_event pairs each token with the oldest receipt.         *)

TakesToken == Head(events).kind = "TokenCommitted"

ReceiptOf(e) ==
  [request_generation |-> e.request_generation,
   token_ordinal |-> e.token_ordinal]

TakePackedEvent ==
  /\ ~poisoned
  /\ TakeEvent
  /\ receipts' = IF TakesToken THEN Tail(receipts) ELSE receipts
  /\ UNCHANGED <<poisoned, driver, executing, bindings, reclaimed,
                 next_packed_request_generation>>

AcknowledgePacked(lease) ==
  /\ ~poisoned
  /\ Acknowledge(lease)
  /\ UNCHANGED engineVars

-----------------------------------------------------------------------------
(* drain_packed: recycle the KV once, then retire the sequence.  A caller  *)
(* drains a request after it took the request's Draining event and until   *)
(* one drain has succeeded.                                                *)

Draining(request) ==
  /\ ~poisoned
  /\ executing = "No"
  /\ seen[request].status = "Draining"
  /\ SlotsOf(request) # {}

Recycled(request) == request \in reclaimed \/ "ok" \in RecycleOutcomes

(* The driver would keep its binding of the finished sequence.             *)
MutDrainPacked(request) ==
  /\ Draining(request)
  /\ driver = "Ready"
  /\ Recycled(request)
  /\ FinalizeDraining(request)
  /\ UNCHANGED <<poisoned, driver, executing, bindings, reclaimed, receipts,
                 next_packed_request_generation>>

DrainPacked(request) ==
  /\ Draining(request)
  /\ driver = "Ready"
  /\ Recycled(request)
  /\ FinalizeDraining(request)
  /\ bindings' = bindings \ {request}
  /\ reclaimed' = reclaimed \ {request}
  /\ UNCHANGED <<poisoned, driver, executing, receipts,
                 next_packed_request_generation>>

(* The KV is recycled but there is no room for the final event.            *)
DrainBackpressured(request) ==
  /\ Draining(request)
  /\ driver = "Ready"
  /\ Recycled(request)
  /\ AvailableEventCredit = 0
  /\ reclaimed' = reclaimed \union {request}
  /\ UNCHANGED <<vars, poisoned, driver, executing, bindings, receipts,
                 next_packed_request_generation>>

(* Recycling fails, or a completion is still pending.                      *)
DrainFails(request) ==
  /\ Draining(request)
  /\ \/ driver # "Ready" /\ UNCHANGED driver
     \/ /\ driver = "Ready"
        /\ request \notin reclaimed
        /\ "failed" \in RecycleOutcomes
        /\ driver' = "Poisoned"
  /\ Poisons
  /\ UNCHANGED <<vars, executing, bindings, reclaimed, receipts,
                 next_packed_request_generation>>

-----------------------------------------------------------------------------
Drive(now) ==
  \/ DriveBackpressured(now)
  \/ DriveCancel(now) \/ DriveCancelRefused(now)
  \/ DriveAdmit(now) \/ DriveAdmitExhausted(now) \/ DriveAdmitFailed(now)
  \/ ExecuteIdle(now) \/ ExecuteWithoutCredit(now) \/ ExecutePrepare(now)
  \/ ExecuteCommit \/ ExecuteMark \/ ExecuteBatch \/ ExecuteBatchFails
  \/ \E stops \in SUBSET (1..MaximumSequencesPerPlan) :
       PublishBackpressured(stops) \/ PublishCompletes(stops, now)
  \/ PublishRefused

EngineNext ==
  \/ \E payload \in Payloads :
       next_packed_request_generation \in Requests /\ SubmitPacked(payload)
  \/ \E request \in Requests : CancelPacked(request)
  \/ \E now \in 0..MaxNow : Drive(now)
  \/ TakePackedEvent
  \/ \E lease \in pending_output_bursts : AcknowledgePacked(lease)
  \/ \E request \in Requests :
       \/ DrainPacked(request)
       \/ DrainBackpressured(request)
       \/ DrainFails(request)

EngineSpec == EngineInit /\ [][EngineNext]_allVars

-----------------------------------------------------------------------------

(* No step of execute_next is refused by the controller, which would fail  *)
(* it half way through a plan: cancellations that arrive meanwhile stay in *)
(* the queue until the plan is in flight, and one that is applied while    *)
(* the result waits for room does not invalidate the result.               *)
PlanStagesAccept ==
  plan # None /\ driver # "Poisoned" =>
    CASE executing = "Prepared" ->
           /\ ValidLease(credits, plan.lease, "Prepared")
           /\ AllAccept(CanCommit)
      [] executing = "Committed" -> AllAccept(CanMarkInFlight)
      [] OTHER ->
           /\ ValidLease(credits, plan.lease, "Committed")
           /\ \A n \in 1..Len(plan.members) :
                ValidCompletion(MemberSequence(n), CompletionOf(n, {}))

(* A sequence that can still run has its KV: it is bound, so execute_next  *)
(* never meets "controller sequence has no KV binding", and its KV is not  *)
(* recycled before it drains.                                              *)
LiveSequencesKeepTheirKv ==
  \A i \in SlotIndexes :
    Occupied(i) =>
      LET request == slots[i].sequence.sequence_generation
      IN  /\ request \in bindings
          /\ request \in reclaimed => slots[i].sequence.state = "Draining"

(* The driver and the controller agree on whether a plan is in progress: a *)
(* result that had to wait for room is still owed to the current plan, and *)
(* an idle driver has no plan behind its back.                             *)
PendingResultHasItsPlan ==
  ~poisoned =>
    ((plan # None) <=> (driver = "CompletionPending" \/ executing # "No"))

(* A plan that the backend executed is completed: the test                 *)
(* DrivesChunkedPrefillThroughKvCommitAndControllerPublication expects     *)
(* kCompleted also for a prefill chunk that samples no token.              *)
ExecutedPlansComplete == driver # "Poisoned"
=============================================================================
