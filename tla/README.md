# PIH in TLA+

PIH is a plugin-first inference framework for large language models.  This
directory models the part that decides what runs next and who owns what while
it runs: the execution controller, the Qwen3 engine that drives it, the KV
memory below it and the owner thread above it.  TLC checks small instances of
every module; TLAPS proves two of the components for every value of their
constants.

Paths below are relative to the repository root (`src/` of this workspace).

## The system

| Part | State | Operations | What makes it hard |
|---|---|---|---|
| `plugins/execution-default/controller_sequence.cpp` | phase, token ledger, outstanding plan, cancel mark of one sequence | prepare, commit, mark in flight, abort, complete, cancel, drain, finish | a cancel may arrive at every stage of a plan |
| `.../output_burst_credit_pool.cpp` | credits with generations | acquire, commit, abort, transfer, release | stale leases, exhaustion |
| `.../controller_request_arena.cpp`, `controller_ingress.cpp`, `controller_mailbox.cpp` | payload slots, command queue, event queue, controller thread | publish, claim, release, roll back; submit, take; publish event, take event | two locks, several submitting threads |
| `.../phase_tier_scheduler.cpp` | none between calls | select | priorities that could starve a phase |
| `.../controller_runtime.cpp` | sequence slots, current plan, counters | submit, step, prepare, commit, mark in flight, abort, complete, acknowledge, finalise | all of the above at once |
| `plugins/model-qwen3/controller_packed_driver.cpp`, `nvidia_qwen3_bf16_engine.cpp`, `controller_client.cpp` | KV bindings, kept result, sampling receipts, poisoned flag | bind, execute, publish, drain; submit, cancel, drive, take, acknowledge, drain | back-pressure after the device is done, failures that poison |
| `.../qwen3_kv_slot_pool.cpp`, `qwen3_bf16_kv_recycler.cpp`, `qwen3_bf16_request_runner.cpp`, `qwen_kv_admission_coordinator.cpp` | KV slots with owner, generation, life cycle and last-use event | sanitise, reserve, publish, commit, roll back, release, reclaim, scrub | asynchronous device events, stale handles |
| `.../batch_generation.h` | queue, active requests, flags per request | Generate of many callers, the owner's turn, stop | caller threads, callbacks and deadlines against the owner |
| `plugins/model-deepseek-v41/packed_*`, `rank_*`, `supervisor_*` | coordinator session and one ledger per rank process | admit, cancel, plan, collect, commit | processes that crash, deadlines |
| `plugins/model-deepseek-v4-flash/deepseek_control_plane.cpp` and neighbours | request registry, pipeline, expert and page caches | admit, plan, commit, evict | caches and leases |
| `src/model/deepseek_rank_*`, `engine_*`, `catalog_placement_*` | process groups, transfers, journals | spawn, barrier, transfer, shut down, recover | processes and crashes |
| `src/microkernel`, `src/worker`, `src/core`, surfaces, storage, platform, tools | plugin stack, files, sockets | activate, load, serve | mostly I/O |

How they interact: a caller's `Generate` queues a request with the owner
thread.  The owner submits it to the engine, which publishes a payload and a
command through the ingress.  `drive_packed` steps the controller (admitting
the request together with its KV slots) and lets the driver execute one plan:
prepare, commit, device, complete.  The completion publishes one contiguous
bundle of events per plan.  The owner takes the events, acknowledges the plan
(which returns its output credit), hands the tokens to the caller and, after a
draining event, drains the sequence, which returns the KV slots and lets the
controller publish the terminal event.

`PROJECT.json` lists every part with its status, and the hazards at the lines
where they bite.

## The modules

A component is a module of operators on values (what a call requires, what it
returns), used by a specification that drives the component alone and by the
compositions.

| Module | Models | Used by |
|---|---|---|
| `ControllerSequence` | one sequence.  The nine states Prefill/Decode/Verify x Prepared/Committed/InFlight are a stage and `active_phase` | `SequenceLifecycle`, `ControllerRuntime` |
| `SequenceLifecycle` | every call on one sequence, in any order, with any argument | run, proofs |
| `OutputBurstCreditPool` | the credits; a burst is a value that fits the profile or does not | `OutputBurstCredits`, `ControllerRuntime` |
| `OutputBurstCredits` | every call with every lease ever issued | run, proofs |
| `ControllerRequestArena` | the payload slots | `ControllerIngress`, `ControllerRuntime` |
| `ControllerIngress` | submitting threads and the controller, one action per critical section | run |
| `PhaseTierScheduler` | `select` | `SchedulingRounds`, `ControllerRuntime` |
| `SchedulingRounds` | unbounded schedules: arrivals, cancels, plans | run |
| `ControllerRuntime` | the runtime with all its parts, one action per call | `PackedEngine` |
| `RequestStream` | abstract: what a consumer of the events sees of a request | refined by `ControllerRuntime` |
| `PackedEngine` | driver and engine on top of `ControllerRuntime`; the device is an outcome | `BatchGeneration` |
| `KvSlotPool`, `KvSlotPoolCalls` | the KV pool, and every call on it with every handle and event | run |
| `KvRecycler` | reclamation and scrubbing of released KV slots | `KvPackedAdmission` |
| `KvPackedAdmission` | the admission coordinator on the pool, with the packed drain | runs |
| `BatchGeneration` | the owner thread and its callers on top of `PackedEngine` | runs |

Abstractions.  Tokens, payload digests and sampling parameters are left out
where nothing depends on them; a payload is its two lengths.  Digest and
identity checks that compare a value with itself are left out.  Internal
errors that no caller can reach are invariants instead of actions
(`ReadyMeansSchedulable`, `BundlesAreContiguous`, `PlanStagesAccept`,
`AdmitFindsItsPayload`, `RollbackFindsItsPayload`): the invariant says that the
error path is dead.  Counters of 64 bits are bounded by constants of the
model (`PlanSequenceLimit`, `SlotGenerationLimit`, `CreditGenerationLimit`,
`KvGenerationLimit`, `SequenceGenerationLimit`, `MaxEvents`, `MaxRequests`),
and where the code refuses at the limit the model does too.

## What the runs show

Each passing run has no error; the state counts are those of the runs as
configured.  `PROJECT.json` lists the properties of each run.

| Run | Question | Bounds |
|---|---|---|
| `sequence_lifecycle` | Whatever the callers do, does a sequence keep its token ledger, count every plan once, keep submitted work and stay cancelled? | prompts to 3 tokens, plans 0..2, so that a stale plan number exists (3 333 states) |
| `output_burst_credits` | Can two plans share a credit, or a stale lease move one? | 2 credits, 3 plans, 2 generations per credit: every credit is reused once (28 411) |
| `controller_ingress` | With several threads between the two locks, does every command find its payload, every rollback too, and is every published payload claimed or rolled back? | 3 threads, 2 slots, 2 commands: both limits are reached (47 402) |
| `controller_runtime` | Do plan, members, credits, payloads and events agree across every interleaving of the calls, when a prompt takes several chunks and admissions fail in every way? Refinement of `RequestStream`. | 2 payload slots and sequences, 3-token prompts, 2 new tokens, an event queue that fills (449 132) |
| `packed_engine` | Do driver and controller stay in step when the device, the recycler or the output queue fails? | 2 sequences (278 199) |
| `kv_slot_pool` | Is no KV slot reused early, unscrubbed or under an old handle, and does each come back? | 2 slots, 3 generations; 8 events, which is all that two slots can record in their generations, so this bound never stops a call (153 223) |
| `kv_packed_admission` | Do the two generation counters stay in step across failed admissions? | 3 slots, 4 requests (1 172) |
| `scheduling_rounds` | How often can a ready sequence be passed over? | 3 slots, 1 sequence per plan, threshold and decode rounds 2 (138 524) |
| `batch_generation` | Does the owner fail only with its device, does every call return with what it was owed, and does a stopped owner end? | 2 callers, 1 active and 1 queued request, devices and recycling that may fail, clean-up deadlines that may pass (123 313) |

Three runs are expected to fail.  Each checks one sentence of the repository
that the code does not keep.

* `chunked_prefill_refused`: a plan of only non-final prompt chunks cannot be
  completed through the client, which refuses an empty token span
  (`plugins/model-qwen3/controller_client.cpp:401`); the driver is poisoned.
  The runtime's own comment and a test of the driver without the client expect
  such plans to complete.
* `packed_drain_refused`: the packed drain gives the recycler KV slots that
  were never released, so the first drain poisons the driver
  (`plugins/model-qwen3/controller_packed_driver.cpp:222`).  The coordinator's
  test uses a recycler that does not touch the pool.
* `peers_exit_fails`: when one of two sequences in a plan finishes and is not
  the last one, its draining event is inside the plan's bundle, where the owner
  does not accept it (`plugins/model-qwen3/batch_generation.h:178`), and all
  callers fail.

So that the rest of the engine can be checked beyond these points, the other
runs use prompts that fit a chunk where the client is involved
(`BatchGeneration`), take the outcome of the recycler as given (`PackedEngine`)
and use one active sequence (`batch_generation`).

### Waiting times

`SchedulingRounds` keeps the keys of the scheduler as ranks, so that its
finitely many states cover schedules of any length.  It bounds the number of
plans that pass over a ready sequence: a decoding one by
`(Slots - 1) + 2 * Slots`, a prompt by
`(Slots - 1) + MaxConsecutiveDecodeRounds * Slots`, even when the clock stands
still and nothing ages.  The bound for prompts rests on a detail of the code
that looks like an oversight: `last_service_plan_sequence` of a slot survives
its occupant.  A variant that resets it on admission lets short requests
overtake a long prompt for ever.

### Deadlock

TLC checks deadlock in the ingress, scheduling and batch runs.  In the others
the component legitimately stops: it is terminal, poisoned or out of the
generations the bounds allow.

## Fairness

* `ControllerIngress!FairSpec`: a thread inside a call finishes it, and some
  thread keeps stepping the controller (the owner thread loops).
* `KvSlotPoolCalls!Recycling`: the device finishes recorded work, and the
  recycler, which loops over reclaim and scrub, keeps calling.
* `BatchGeneration!Scheduling`: the owner thread and the callers' polling
  loops run when they can, and callbacks return.  The owner's share is written
  out as "infinitely often it cannot run, or it moves infinitely often", which
  is weak fairness of its step.  That a step exists whenever it can run is
  what the deadlock check establishes: a state in which the owner can run but
  has no step is a deadlock, because only a state in which it cannot run may
  rest.  Nothing is assumed about callers starting calls, about deadlines, or
  about the outcomes of the device.

## What is proved

`SequenceLifecycleProofs` and `OutputBurstCreditsProofs` prove for every value
of the constants what the first two runs check, and type correctness,
`PlanOwnership` and `OneCreditPerPlan` besides.

* Sequence: type correctness, `TokenLedger`, `PlanOwnership`,
  `CommittedWorkIsNeverDropped`, `EachPlanCountsOnce`, `CancelIsFinal`.  The
  ledger alone is not inductive: that a completion adds the tokens of its own
  plan needs plan ownership, and plan ownership after a completion or an abort
  needs the shape of cancels (`CancelShape`: which states a cancelled sequence
  can be in and which state it remembers).  The invariant is their
  conjunction, with one lemma per call.
* Credits: type correctness, `OneCreditPerPlan`, `EveryCreditHasOneOwner`,
  `CreditsMoveInOrder`.  The scan for the first free credit needs that it
  finds one and that it is free (`FirstFreeIsFree`, from the well-foundedness
  of the naturals).

The assumptions are the named ones of the modules (`LifecycleConstants`,
`CreditPoolConstants`, `PlanNumbersAssumption`): the inputs are naturals, and
the pool has at least one credit.

Only model-checked: the compositions, refinement, everything temporal beyond
invariants and action properties (liveness and fairness are out of the
prover's reach), and the scheduler's folds.

## Plan

1. DeepSeek V4.1: the packed generation session with its rank workers (plans,
   receipts, terminal plans, cancellation during prefill, crashes, deadlines),
   then the supervisor and the worker group around it.
2. DeepSeek V4 Flash: control plane, request life cycle, pipeline transaction;
   expert pager, slot table and page pool as caches with leases.
3. Rank supervision: process supervisor, start-up barrier, transfer
   transactions; engine life cycle, shutdown and watchdog; catalog placement
   with its journal.
4. Offline artifact generations: commit, promotion and activation on disk with
   crashes.  Output slot arena, packed plan and metadata as operators against a
   reference, completion frontier, host-spill leases, bounded workers, the
   single-request runner and its session on the KV pool (built only by tests),
   microkernel activation and rollback.
5. Proofs: the KV slot pool (no reuse before the last use, stale handles), the
   ingress, then the ownership invariants of `ControllerRuntime` from the
   lemmas of its parts.

Not planned: kernels and tensor layouts (no state that outlives a step),
tokenisation and JSON (pure text), sockets, files and system calls (the
models take their outcomes as given), one-shot offline tools.
