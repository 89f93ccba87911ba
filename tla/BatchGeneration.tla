--------------------------- MODULE BatchGeneration ---------------------------
(***************************************************************************)
(* BatchGeneration (plugins/model-qwen3/batch_generation.h) on the packed  *)
(* engine: callers block in Generate while one owner thread admits their   *)
(* requests, drives the engine and hands out its events.  mutex_ is free   *)
(* only while the owner drives the engine, waits or has ended; everything  *)
(* a caller does between two releases of the mutex is one step, and so is  *)
(* every engine call of the owner.                                         *)
(*                                                                         *)
(* Each caller makes one call.  Its deadline may pass, its cancellation    *)
(* check may fire and its callback may ask for anything at any time; its   *)
(* callback may also never return.                                         *)
(***************************************************************************)
EXTENDS PackedEngine

CONSTANTS
  Callers,          \* the Generate calls
  PromptCallers,    \* those whose callbacks always return
  Sequences,        \* sequences_
  Pending,          \* pending_
  OutputLimit,      \* 256, tokens queued for a caller
  CleanupTimeouts   \* whether a cleanup may take more than five minutes

ASSUME OwnerConstants ==
  /\ PromptCallers \subseteq Callers
  /\ Sequences = MaximumRequests
  /\ Pending \in Nat \ {0}
  /\ OutputLimit \in Nat \ {0}
  /\ CommandCapacity >= 2 * Sequences  \* 64 and 32 in the engine
  /\ EventCapacity >= 2 * Sequences    \* 128 and 32 in the engine
  /\ CleanupTimeouts \in BOOLEAN

VARIABLES
  calls,      \* per caller: where it is, its Request, tokens it was handed;
              \* cancelled is result.cancelled or stopped_by_callback
  queue,      \* queue_
  owner,      \* where the owner is, and the locals of its receive loop
  signalled,  \* the waiting owner was notified
  stopping,   \* stopping_
  failure     \* failure_: ok, the engine's status, or the owner's own

ownerVars == <<calls, queue, owner, signalled, stopping, failure>>
batchVars == <<allVars, ownerVars>>

NoCall ==
  [at |-> "Outside", payload |-> NoPayload, generation |-> 0, done |-> FALSE,
   ok |-> TRUE, cancel |-> FALSE, cancel_sent |-> FALSE, drain |-> FALSE,
   draining |-> FALSE, admitted |-> FALSE, tokens |-> 0, output |-> 0,
   delivered |-> 0, cancelled |-> FALSE]

(* active_: submitted and not yet done.                                    *)
Active == {c \in Callers : calls[c].generation # 0 /\ ~calls[c].done}

CallerOf(request) == CHOOSE c \in Active : calls[c].generation = request

At(place) ==
  [at |-> place, todo |-> {}, event |-> None, plan |-> 0, index |-> 0,
   count |-> 0]

BatchInit ==
  /\ EngineInit
  /\ calls = [c \in Callers |-> NoCall]
  /\ queue = <<>>
  /\ owner = At("Admit")
  /\ signalled = FALSE
  /\ stopping = FALSE
  /\ failure = "Ok"

-----------------------------------------------------------------------------
(* The callers.                                                            *)

MutexFree == owner.at \in {"Drive", "Idle", "Tick", "Ended"}

(* notify_all reaches the owner only if it already waits.                  *)
Notify == signalled' = (owner.at = "Idle")

(* A new request would not wake the owner.                                 *)
MutNotifyQueued == UNCHANGED signalled

NotifyQueued == Notify

QueueHasRoom == Len(queue) + Cardinality(Active) < Sequences + Pending

Generate(c, payload) ==
  /\ MutexFree
  /\ calls[c].at = "Outside"
  /\ ~stopping /\ failure = "Ok"
  /\ QueueHasRoom
  /\ calls' = [calls EXCEPT ![c] = [NoCall EXCEPT !.at = "Polling",
                                                  !.payload = payload]]
  /\ queue' = Append(queue, c)
  /\ NotifyQueued
  /\ UNCHANGED <<allVars, owner, stopping, failure>>

GenerateRefused(c) ==
  /\ MutexFree
  /\ calls[c].at = "Outside"
  /\ stopping \/ failure # "Ok" \/ ~QueueHasRoom
  /\ calls' = [calls EXCEPT ![c].at = "Refused"]
  /\ UNCHANGED <<allVars, queue, owner, signalled, stopping, failure>>

(* A finished call would return before its queued tokens are delivered.    *)
MutReturns(call) == call.done

Returns(call) == call.done /\ call.output = 0

(* One round of Generate's loop; `cancels` is a cancellation or a deadline *)
(* noticed by the caller.  A round that finds nothing to do changes        *)
(* nothing.                                                                *)
Poll(c, cancels) ==
  LET call == [calls[c] EXCEPT !.cancel = @ \/ cancels,
                               !.cancelled = @ \/ cancels]
  IN  /\ MutexFree
      /\ call.at = "Polling"
      /\ call # calls[c] \/ call.output > 0 \/ call.done
      /\ calls' = [calls EXCEPT ![c] =
           IF Returns(call) THEN [call EXCEPT !.at = "Returned"]
           ELSE IF call.output = 0 THEN call
           ELSE IF call.cancel THEN [call EXCEPT !.output = @ - 1]
           ELSE [call EXCEPT !.output = @ - 1, !.delivered = @ + 1,
                             !.at = "InCallback"]]
      /\ IF call.output > 0 /\ call.cancel THEN Notify ELSE UNCHANGED signalled
      /\ UNCHANGED <<allVars, queue, owner, stopping, failure>>

(* The callback returns; it continues, stops or cancels.                   *)
CallbackReturns(c, cancels) ==
  /\ MutexFree
  /\ calls[c].at = "InCallback"
  /\ calls' = [calls EXCEPT ![c].at = "Polling",
                            ![c].cancel = @ \/ cancels,
                            ![c].cancelled = @ \/ cancels]
  /\ Notify
  /\ UNCHANGED <<allVars, queue, owner, stopping, failure>>

(* ~BatchGeneration until it joins the owner.                              *)
Stop ==
  /\ MutexFree
  /\ ~stopping
  /\ stopping' = TRUE
  /\ Notify
  /\ UNCHANGED <<allVars, calls, queue, owner, failure>>

-----------------------------------------------------------------------------
(* The owner.                                                              *)

Moves(place) == owner' = [owner EXCEPT !.at = place]

FailsWithOwner(c) == c \in Active \/ c \in ToSet(queue)

(* fail: every request ends with the error and the owner with it.          *)
FailOwner(status) ==
  /\ failure' = status
  /\ calls' = [c \in Callers |->
                 IF FailsWithOwner(c)
                   THEN [calls[c] EXCEPT !.done = TRUE, !.ok = FALSE]
                   ELSE calls[c]]
  /\ queue' = <<>>
  /\ owner' = At("Ended")
  /\ UNCHANGED <<signalled, stopping>>

Continues == UNCHANGED <<queue, signalled, stopping, failure>>

(* The request that the admission loop takes next.                         *)
Admitting ==
  /\ owner.at = "Admit"
  /\ queue # <<>> /\ Cardinality(Active) < Sequences /\ ~stopping
  /\ queue' = Tail(queue)
  /\ UNCHANGED <<owner, signalled, stopping, failure>>

(* Already cancelled, or its deadline has passed.                          *)
OwnerSkips ==
  /\ Admitting
  /\ calls' = [calls EXCEPT ![Head(queue)].done = TRUE,
                            ![Head(queue)].cancelled = TRUE]
  /\ UNCHANGED allVars

OwnerSubmits ==
  /\ Admitting
  /\ ~calls[Head(queue)].cancel
  /\ SubmitPacked(calls[Head(queue)].payload)
  /\ calls' = [calls EXCEPT ![Head(queue)].generation =
                              next_packed_request_generation]

(* The engine refuses the request: its bounds, or no room for it.          *)
OwnerSubmitRefused ==
  /\ Admitting
  /\ ~calls[Head(queue)].cancel
  /\ ~(/\ CanPublish(arena, next_packed_request_generation,
                     calls[Head(queue)].payload)
       /\ CommandQueueHasRoom)
  /\ calls' = [calls EXCEPT ![Head(queue)].done = TRUE,
                            ![Head(queue)].ok = FALSE]
  /\ UNCHANGED allVars

(* The owner would wait for a notification although it must end.           *)
MutIdlePlace == "Idle"

IdlePlace == IF stopping THEN "Ended" ELSE "Idle"

(* The rest of the loop's head: drop the queue when stopping, and wait     *)
(* when there is nothing to do.                                            *)
OwnerAdmitted ==
  /\ owner.at = "Admit"
  /\ queue = <<>> \/ Cardinality(Active) >= Sequences \/ stopping
  /\ calls' = [c \in Callers |->
                 IF stopping /\ c \in ToSet(queue)
                   THEN [calls[c] EXCEPT !.done = TRUE, !.cancelled = TRUE]
                   ELSE calls[c]]
  /\ queue' = IF stopping THEN <<>> ELSE queue
  /\ IF Active = {}
       THEN Moves(IdlePlace)
       ELSE owner' = [owner EXCEPT !.at = "Service", !.todo = Active]
  /\ UNCHANGED <<allVars, signalled, stopping, failure>>

OwnerWakes ==
  /\ \/ owner.at = "Idle" /\ signalled
     \/ owner.at = "Tick"
  /\ owner' = At("Admit")
  /\ signalled' = FALSE
  /\ UNCHANGED <<allVars, calls, queue, stopping, failure>>

-----------------------------------------------------------------------------
(* One pass over active_ in the order of the generations.  That the engine *)
(* never answers a cancellation or a drain with "try again" is part of     *)
(* what the deadlock check shows: the owner would have no step.            *)

Serviced ==
  CHOOSE c \in owner.todo :
    \A d \in owner.todo : calls[c].generation <= calls[d].generation

Servicing == owner.at = "Service" /\ owner.todo # {}

(* The request after the deadline check.                                   *)
Checked(late) ==
  LET call == calls[Serviced]
  IN  [call EXCEPT !.cancel = @ \/ late, !.cancelled = @ \/ late]


SendsCancel(call) ==
  /\ stopping \/ call.cancel
  /\ call.admitted /\ ~call.cancel_sent /\ ~call.draining

ServicedTo(call) ==
  /\ calls' = [calls EXCEPT ![Serviced] = call]
  /\ owner' = [owner EXCEPT !.todo = @ \ {Serviced}]
  /\ Continues

OwnerPasses(late) ==
  /\ Servicing
  /\ ~SendsCancel(Checked(late)) /\ ~Checked(late).drain
  /\ ServicedTo(Checked(late))
  /\ UNCHANGED allVars

OwnerCancels(late) ==
  /\ Servicing
  /\ SendsCancel(Checked(late))
  /\ CancelPacked(calls[Serviced].generation)
  /\ ServicedTo([Checked(late) EXCEPT !.cancel_sent = TRUE])

OwnerDrains(late) ==
  /\ Servicing
  /\ ~SendsCancel(Checked(late)) /\ Checked(late).drain
  /\ DrainPacked(calls[Serviced].generation)
  /\ ServicedTo([Checked(late) EXCEPT !.drain = FALSE])

(* The drain fails, or the cleanup deadline has passed.                    *)
OwnerGivesUp ==
  /\ Servicing
  /\ \/ /\ calls[Serviced].drain
        /\ DrainFails(calls[Serviced].generation)
        /\ FailOwner("Engine")
     \/ /\ CleanupTimeouts
        /\ calls[Serviced].cancel_sent \/ calls[Serviced].draining
        /\ FailOwner("DeadlineExceeded")
        /\ UNCHANGED allVars

OwnerServiced ==
  /\ owner.at = "Service" /\ owner.todo = {}
  /\ Moves("Drive")
  /\ UNCHANGED <<allVars, calls, queue, signalled, stopping, failure>>

(* drive_packed without the mutex, one step per call to the controller.    *)
OwnerDrives ==
  /\ owner.at = "Drive"
  /\ Drive(0)
  /\ IF poisoned' THEN FailOwner("Engine")
     ELSE /\ Moves(IF executing' = "No" THEN "Receive" ELSE "Drive")
          /\ UNCHANGED calls
          /\ Continues

-----------------------------------------------------------------------------
(* The receive loop: take an event, acknowledge its plan if it is the last *)
(* of its bundle, then apply it.                                           *)

(* The bundle's position after event e.                                    *)
Position(e) ==
  IF e.plan_sequence = 0 THEN owner
  ELSE IF owner.plan = 0
         THEN [owner EXCEPT !.plan = e.plan_sequence, !.index = 1,
                            !.count = e.plan_event_count]
         ELSE [owner EXCEPT !.index = @ + 1]

ContinuesBundle(e) ==
  IF e.plan_sequence = 0 THEN owner.plan = 0
  ELSE /\ e.plan_sequence = Position(e).plan
       /\ e.plan_event_count = Position(e).count
       /\ e.plan_event_index + 1 = Position(e).index

IsKnown(e) == \E c \in Active : calls[c].generation = e.request_generation

EndsBundle(e) == e.plan_sequence # 0 /\ Position(e).index = Position(e).count

OwnerTakes ==
  LET e == Head(events)
  IN  /\ owner.at = "Receive"
      /\ events # <<>>
      /\ TakePackedEvent
      /\ IF IsKnown(e) /\ ContinuesBundle(e)
           THEN /\ owner' = [Position(e) EXCEPT
                               !.at = IF EndsBundle(e) THEN "Acknowledge"
                                                       ELSE "Apply",
                               !.event = e]
                /\ UNCHANGED calls
                /\ Continues
           ELSE FailOwner("Internal")

OwnerAcknowledges ==
  /\ owner.at = "Acknowledge"
  /\ \E lease \in pending_output_bursts :
       /\ lease.plan_sequence = owner.plan
       /\ AcknowledgePacked(lease)
  /\ owner' = [owner EXCEPT !.at = "Apply", !.plan = 0, !.index = 0,
                            !.count = 0]
  /\ UNCHANGED calls
  /\ Continues

(* The frontier checks of the event kinds.                                 *)
MayApply(call, e) ==
  CASE e.kind = "Admitted" -> ~call.admitted
    [] e.kind = "TokenCommitted" ->
         /\ ~call.draining
         /\ e.token_ordinal = call.tokens + 1
         /\ call.tokens < call.payload.maximum_new_tokens
    [] e.kind = "Draining" -> ~call.draining /\ owner.plan = 0
    [] e.kind = "Failed" -> ~call.admitted /\ owner.plan = 0
    [] OTHER -> /\ call.draining /\ ~call.drain /\ owner.plan = 0
                /\ e.kind = "Cancelled" => call.cancel_sent

(* A token that finds the caller's queue full would be dropped.            *)
MutWithToken(call) ==
  [call EXCEPT !.tokens = @ + 1,
               !.output = IF call.cancel \/ @ >= OutputLimit THEN @ ELSE @ + 1]

(* A caller that does not take its tokens is cancelled.                    *)
WithToken(call) ==
  LET full == ~call.cancel /\ call.output >= OutputLimit
  IN  [call EXCEPT !.tokens = @ + 1,
                   !.cancel = @ \/ full,
                   !.cancelled = @ \/ full,
                   !.output = IF call.cancel \/ full THEN @ ELSE @ + 1]

Applied(call, e) ==
  CASE e.kind = "Admitted" -> [call EXCEPT !.admitted = TRUE]
    [] e.kind = "TokenCommitted" -> WithToken(call)
    [] e.kind = "Draining" -> [call EXCEPT !.draining = TRUE, !.drain = TRUE]
    [] e.kind = "Failed" -> [call EXCEPT !.done = TRUE, !.ok = FALSE]
    [] OTHER -> [call EXCEPT !.done = TRUE,
                             !.cancelled = @ \/ e.kind = "Cancelled"]

OwnerApplies ==
  LET e == owner.event
      c == CallerOf(e.request_generation)
  IN  /\ owner.at = "Apply"
      /\ IF MayApply(calls[c], e)
           THEN /\ calls' = [calls EXCEPT ![c] = Applied(@, e)]
                /\ owner' = [owner EXCEPT !.at = "Receive", !.event = None]
                /\ Continues
           ELSE FailOwner("Internal")
      /\ UNCHANGED allVars

OwnerReceived ==
  /\ owner.at = "Receive"
  /\ events = <<>>
  /\ IF owner.plan = 0
       THEN owner' = At("Tick") /\ UNCHANGED calls /\ Continues
       ELSE FailOwner("Internal")
  /\ UNCHANGED allVars

-----------------------------------------------------------------------------
OwnerNext ==
  \/ OwnerSkips \/ OwnerSubmits \/ OwnerSubmitRefused \/ OwnerAdmitted
  \/ OwnerWakes
  \/ \E late \in BOOLEAN :
       OwnerPasses(late) \/ OwnerCancels(late) \/ OwnerDrains(late)
  \/ OwnerGivesUp \/ OwnerServiced
  \/ OwnerDrives
  \/ OwnerTakes \/ OwnerAcknowledges \/ OwnerApplies \/ OwnerReceived

CallerNext(c) ==
  \/ \E payload \in Payloads : Generate(c, payload)
  \/ GenerateRefused(c)
  \/ \E cancels \in BOOLEAN : Poll(c, cancels) \/ CallbackReturns(c, cancels)

(* The owner can take a step: it has not ended and does not sleep.  That   *)
(* one of its actions is then enabled is what the deadlock check of the    *)
(* runs shows, since callers alone can only take finitely many steps.      *)
OwnerCanRun == owner.at # "Ended" /\ (owner.at = "Idle" => signalled)

(* The owner sleeps or has ended, and the calls that are left only poll.   *)
Rest == ~OwnerCanRun /\ UNCHANGED batchVars

BatchNext ==
  \/ OwnerNext
  \/ \E c \in Callers : CallerNext(c)
  \/ Stop
  \/ Rest

BatchSpec == BatchInit /\ [][BatchNext]_batchVars

OwnerMoves ==
  \/ allVars' # allVars
  \/ owner' # owner
  \/ Len(queue') < Len(queue)

(* The owner's thread runs whenever it can: weak fairness of OwnerNext,    *)
(* written out so that it need not be evaluated with ENABLED.  A caller in *)
(* Generate keeps polling; only the callbacks of PromptCallers are sure to *)
(* return.                                                                 *)
Scheduling ==
  /\ []<>~OwnerCanRun \/ []<><<OwnerMoves>>_batchVars
  /\ \A c \in Callers : WF_batchVars(Poll(c, FALSE))
  /\ \A c \in PromptCallers :
       WF_batchVars(\E cancels \in BOOLEAN : CallbackReturns(c, cancels))

FairBatchSpec == BatchSpec /\ Scheduling

-----------------------------------------------------------------------------

(* When the owner goes to sleep nothing is left behind: the controller     *)
(* holds no request, plan, event or credit, the driver no KV binding and   *)
(* no receipt.                                                             *)
IdleOwnerHoldsNothing ==
  owner.at = "Idle" => Retirable /\ bindings = {} /\ receipts = <<>>

(* A call that is not cancelled is handed every token the engine sampled   *)
(* for it, in order; while it runs, the others wait in its queue.          *)
TokensReachTheCaller ==
  \A c \in Callers :
    ~calls[c].cancel => calls[c].delivered + calls[c].output = calls[c].tokens

(* A call that returns without an error and uncancelled is complete: its   *)
(* stream was closed as completed, and the caller got all of it.           *)
ReturnedCallsAreComplete ==
  \A c \in Callers :
    calls[c].at = "Returned" /\ calls[c].ok /\ ~calls[c].cancelled =>
      LET stream == seen[calls[c].generation]
      IN  /\ stream.status = "Completed"
          /\ stream.tokens = calls[c].delivered

(* Every call of Generate returns, in success or in error, although the    *)
(* callbacks of other callers may block for ever.                          *)
EveryCallReturns ==
  \A c \in PromptCallers :
    calls[c].at \in {"Polling", "InCallback"} ~> calls[c].at = "Returned"

(* The destructor's join ends: a stopping owner cancels and drains what is *)
(* active, without waiting for any caller.                                 *)
StoppedOwnerEnds == stopping ~> owner.at = "Ended"

(* Requests join and exit dynamically (docs/batching.md): with enough KV   *)
(* and a sound device no accepted call ends in an error, also when         *)
(* sequences that share a plan end at different times.                     *)
PeersExitWithoutFailure == \A c \in Callers : calls[c].done => calls[c].ok
=============================================================================
