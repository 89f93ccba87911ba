-------------------------- MODULE KvPackedAdmission --------------------------
(***************************************************************************)
(* The KV side of the packed engine: QwenKvAdmissionCoordinator            *)
(* (qwen_kv_admission_coordinator.cpp) with the transactions it holds, the *)
(* KV registry of ControllerPackedDriver, the slot pool and the            *)
(* synchronous recycler.  The controller is reduced to what they see of    *)
(* it: requests wait in its queue in the order of their generations,       *)
(* become live and drain at any time.  Every call below comes from the one *)
(* thread that drives the engine, except submit_packed.  Failing device    *)
(* work and waiting for event credits are PackedEngine's.                  *)
(***************************************************************************)
EXTENDS KvRecycler

CONSTANTS
  MaximumSequences,    \* admissions_.size(), also the registry's size
  ControllerRequests,  \* requests the controller holds, queued or live
  Unclearable,         \* slots the device may fail to clear
  RequestTokens,       \* prompt and output tokens of the requests
  MaxRequests,         \* bound: requests submitted
  MaxEvents            \* bound: completion events

ASSUME AdmissionConstants ==
  /\ MaximumSequences \in Nat \ {0}
  /\ ControllerRequests \in 1..MaximumSequences
  /\ Unclearable \subseteq KvSlots
  /\ RequestTokens \subseteq Nat \ {0}
  /\ MaxRequests \in Nat
  /\ MaxEvents \in Nat

VARIABLES
  pool,
  admissions,  \* admissions_: index -> [generation, handles], or NoAdmission
  registry,    \* generation -> last-use event, of the bound sequences
  driver,      \* ControllerPackedDriverState
  poisoned,    \* the engine's flag
  queue,       \* [generation, tokens] of the queued admissions
  draining,    \* live generations the controller reports as Draining
  next_request_generation,
  events       \* completion events recorded so far; the first is initial

vars == <<pool, admissions, registry, driver, poisoned, queue, draining,
          next_request_generation, events>>

Indices == 0..(MaximumSequences - 1)

NoAdmission == [generation |-> 0, handles |-> {}]

Admitted == {i \in Indices : admissions[i] # NoAdmission}

Live == DOMAIN registry

IndexOf(generation) ==
  CHOOSE i \in Indices : admissions[i].generation = generation

Init ==
  /\ pool = SanitizedPool(CreatedPool)
  /\ admissions = [i \in Indices |-> NoAdmission]
  /\ registry = <<>>
  /\ driver = "Ready"
  /\ poisoned = FALSE
  /\ queue = <<>>
  /\ draining = {}
  /\ next_request_generation = 1
  /\ events = 1

-----------------------------------------------------------------------------
(* submit_packed, when the controller has a request slot left.             *)
Submit(tokens) ==
  /\ ~poisoned
  /\ next_request_generation <= MaxRequests
  /\ Len(queue) + Cardinality(Live) < ControllerRequests
  /\ queue' = Append(queue, [generation |-> next_request_generation,
                             tokens |-> tokens])
  /\ next_request_generation' = next_request_generation + 1
  /\ UNCHANGED <<pool, admissions, registry, driver, poisoned, draining,
                 events>>

-----------------------------------------------------------------------------
(* The controller steps an admission: reserve, then publish.               *)

FreeIndex ==
  CHOOSE i \in Indices \ Admitted : \A j \in Indices \ Admitted : i <= j

SlotsForTokens(tokens) == (tokens + TokensPerSlot - 1) \div TokensPerSlot

CanReserveSlots(kv, tokens) ==
  CanReserve(kv, FreeIndex, SlotsForTokens(tokens))

(* The generation would be taken only once the slots are reserved.         *)
MutAfterExhaustion(kv) == kv

(* QwenKvAdmissionTransaction::Reserve takes the sequence generation       *)
(* before it asks for slots and does not give it back.                     *)
AfterExhaustion(kv) == NextSequence(kv)

SteppedAdmission ==
  /\ ~poisoned
  /\ queue # <<>>
  /\ queue' = Tail(queue)
  /\ UNCHANGED <<next_request_generation, events, draining>>

(* The transaction would be forgotten after its publication.               *)
MutRecordedAdmission(index, admission) == admissions

RecordedAdmission(index, admission) ==
  [admissions EXCEPT ![index] = admission]

PublishedAdmission ==
  /\ CanAcquireGeneration(pool)
  /\ CanReserveSlots(NextSequence(pool), Head(queue).tokens)
  /\ pool.next_sequence_generation = Head(queue).generation
  /\ LET reserved == ReservedPool(NextSequence(pool), FreeIndex,
                                  SlotsForTokens(Head(queue).tokens))
         handles == HandlesOf(reserved, FreeIndex, "AdmissionReserved")
     IN  /\ pool' = PublishedPool(reserved, handles)
         /\ admissions' = RecordedAdmission(FreeIndex,
              [generation |-> Head(queue).generation, handles |-> handles])

Admit ==
  /\ SteppedAdmission
  /\ driver = "Ready"
  /\ PublishedAdmission
  /\ registry' = (Head(queue).generation :> 1) @@ registry
  /\ UNCHANGED <<driver, poisoned>>

(* bind_sequence refuses while a completion is pending, after the slots    *)
(* were published: the controller fails and the engine is poisoned.        *)
AdmitUnbound ==
  /\ SteppedAdmission
  /\ driver # "Ready"
  /\ PublishedAdmission
  /\ poisoned' = TRUE
  /\ UNCHANGED <<registry, driver>>

(* The request is rejected for want of slots.                              *)
AdmitExhausted ==
  /\ SteppedAdmission
  /\ CanAcquireGeneration(pool)
  /\ ~CanReserveSlots(NextSequence(pool), Head(queue).tokens)
  /\ pool' = AfterExhaustion(pool)
  /\ UNCHANGED <<admissions, registry, driver, poisoned>>

(* The pool has no generation left: it fails itself and the request is     *)
(* rejected; the next admission meets a failed pool and poisons.           *)
AdmitWithoutGeneration ==
  /\ SteppedAdmission
  /\ ~CanAcquireGeneration(pool)
  /\ pool' = Failing(pool)
  /\ poisoned' = pool.failed
  /\ UNCHANGED <<admissions, registry, driver>>

-----------------------------------------------------------------------------
(* execute_next and publish_pending for the bound sequences of a plan.     *)
Execute(members) ==
  /\ ~poisoned
  /\ queue = <<>>
  /\ driver = "Ready"
  /\ members # {} /\ members \subseteq Live \ draining
  /\ events < MaxEvents
  /\ events' = events + 1
  /\ registry' = [g \in Live |-> IF g \in members THEN events' ELSE registry[g]]
  /\ driver' \in {"Ready", "CompletionPending"}
  /\ UNCHANGED <<pool, admissions, poisoned, queue, draining,
                 next_request_generation>>

PublishPending ==
  /\ ~poisoned
  /\ queue = <<>>
  /\ driver = "CompletionPending"
  /\ driver' = "Ready"
  /\ UNCHANGED <<pool, admissions, registry, poisoned, queue, draining,
                 next_request_generation, events>>

(* The sequence ends or is cancelled.                                      *)
StartDraining(generation) ==
  /\ ~poisoned
  /\ generation \notin draining
  /\ draining' = draining \union {generation}
  /\ UNCHANGED <<pool, admissions, registry, driver, poisoned, queue,
                 next_request_generation, events>>

(* drain_packed: the driver recycles the sequence's slots under its last   *)
(* event, and only then is the sequence retired and its index free.        *)
Drain(generation, uncleared) ==
  /\ ~poisoned
  /\ generation \in draining
  /\ LET index == IndexOf(generation)
         result == Recycle(pool, admissions[index].handles,
                           registry[generation], uncleared)
         recycled == driver = "Ready" /\ result.ok
     IN  /\ pool' = IF driver = "Ready" THEN result.pool ELSE pool
         /\ driver' = IF driver = "Ready" /\ ~result.ok THEN "Poisoned"
                                                        ELSE driver
         /\ poisoned' = ~recycled
         /\ admissions' = IF recycled
                            THEN [admissions EXCEPT ![index] = NoAdmission]
                            ELSE admissions
         /\ registry' = IF recycled
                          THEN Restrict(registry, Live \ {generation})
                          ELSE registry
         /\ draining' = IF recycled THEN draining \ {generation} ELSE draining
  /\ UNCHANGED <<queue, next_request_generation, events>>

Next ==
  \/ \E tokens \in RequestTokens : Submit(tokens)
  \/ Admit \/ AdmitUnbound \/ AdmitExhausted \/ AdmitWithoutGeneration
  \/ \E members \in SUBSET Live : Execute(members)
  \/ PublishPending
  \/ \E generation \in Live :
       \/ StartDraining(generation)
       \/ \E uncleared \in SUBSET Unclearable : Drain(generation, uncleared)

Spec == Init /\ [][Next]_vars

-----------------------------------------------------------------------------
(* The engine numbers requests when they are submitted, the pool numbers   *)
(* sequences when they are admitted, and an admission fails unless the two *)
(* agree.  They do, after any mix of accepted and rejected requests: the   *)
(* pool's next number is the one of the oldest queued request.  So         *)
(* "sequence generations drifted" (line 68) cannot happen.                 *)
GenerationsStayInStep ==
  ~poisoned /\ ~pool.failed =>
    /\ pool.next_sequence_generation + Len(queue) = next_request_generation
    /\ \A n \in 1..Len(queue) :
         queue[n].generation = pool.next_sequence_generation + n - 1

(* The coordinator, the driver and the pool agree on who holds which       *)
(* slots: the bound sequences are the admitted ones, each admission owns   *)
(* exactly its handles and nobody else owns a slot.  Hence a request the   *)
(* controller accepted always finds a free index.                          *)
SlotsFollowAdmissions ==
  ~poisoned =>
    /\ Live = {admissions[i].generation : i \in Admitted}
    /\ Cardinality(Live) = Cardinality(Admitted)
    /\ \A i \in Indices :
         HandlesOf(pool, i, "Owned") = admissions[i].handles
    /\ \A s \in KvSlots : pool.slots[s].state \in {"FreeClean", "Owned"}

(* Draining a sequence releases its state (docs/batching.md: a             *)
(* cancellation drains the submitted work "before releasing its state"):   *)
(* with no result pending, and a device that clears every slot, a drain    *)
(* does not poison the driver.                                             *)
DrainReleasesKv ==
  [][driver = "Ready" => driver' # "Poisoned"]_vars
=============================================================================
