----------------------------- MODULE KvSlotPool -----------------------------
(***************************************************************************)
(* The pool of KV cache slots                                              *)
(* (plugins/model-qwen3/qwen3_kv_slot_pool.cpp) as a record and, for each  *)
(* method, the condition under which it succeeds and the pool it leaves.   *)
(* Only the refusals that change the pool (they set failed_) have an       *)
(* operator of their own.  pending_events_[i] is the event field of slot   *)
(* i; an event is a number, 0 when there is none.  Slots are 1-based.      *)
(***************************************************************************)
EXTENDS Naturals, Sequences, FiniteSets

CONSTANTS
  SlotCount,               \* slots_.size()
  TokensPerSlot,           \* kTokensPerSlot
  NoOwner,                 \* kNoOwner
  KvGenerationLimit,       \* UINT32_MAX, of a slot's generation
  SequenceGenerationLimit  \* UINT32_MAX, of next_sequence_generation_

ASSUME KvPoolConstants ==
  /\ SlotCount \in Nat \ {0}
  /\ TokensPerSlot \in Nat \ {0}
  /\ NoOwner \notin Nat
  /\ KvGenerationLimit \in Nat
  /\ SequenceGenerationLimit \in Nat

KvSlots == 1..SlotCount

KvStates ==
  {"Uninitialized", "FreeClean", "AdmissionReserved", "Owned",
   "ReclaimPending", "FreeDirty", "Scrubbing"}

KvSlot ==
  [generation: Nat, owner: Nat \union {NoOwner}, valid_tokens: 0..TokensPerSlot,
   state: KvStates, event: Nat]

KvPool ==
  [slots: [KvSlots -> KvSlot], clean_credits: Nat,
   next_sequence_generation: Nat, ready: BOOLEAN, failed: BOOLEAN]

Handle == [slot: KvSlots, generation: Nat]

CreatedPool ==
  [slots |-> [i \in KvSlots |->
                [generation |-> 0, owner |-> NoOwner, valid_tokens |-> 0,
                 state |-> "Uninitialized", event |-> 0]],
   clean_credits |-> 0, next_sequence_generation |-> 1,
   ready |-> FALSE, failed |-> FALSE]

Usable(pool) == pool.ready /\ ~pool.failed

Failing(pool) == [pool EXCEPT !.failed = TRUE]

InState(pool, state) == {i \in KvSlots : pool.slots[i].state = state}

-----------------------------------------------------------------------------
CanSanitize(pool) == ~pool.failed /\ ~pool.ready

SanitizedPool(pool) ==
  [pool EXCEPT
     !.slots = [i \in KvSlots |->
                  [@[i] EXCEPT !.generation = 1, !.state = "FreeClean"]],
     !.clean_credits = SlotCount,
     !.ready = TRUE]

CanAcquireGeneration(pool) ==
  Usable(pool) /\ pool.next_sequence_generation # SequenceGenerationLimit

NextSequence(pool) == [pool EXCEPT !.next_sequence_generation = @ + 1]

-----------------------------------------------------------------------------
(* reserve takes the clean slots with the lowest ordinals.                 *)
SelectedSlots(pool, count) ==
  {i \in InState(pool, "FreeClean") :
     Cardinality({j \in InState(pool, "FreeClean") : j < i}) < count}

OwnerIsFree(pool, owner) == \A i \in KvSlots : pool.slots[i].owner # owner

CanReserve(pool, owner, count) ==
  /\ Usable(pool)
  /\ owner # NoOwner /\ count # 0
  /\ OwnerIsFree(pool, owner)
  /\ count <= pool.clean_credits
  /\ \A i \in SelectedSlots(pool, count) :
       pool.slots[i].generation # KvGenerationLimit

(* Slots would be handed out under their old generation.                   *)
MutReservedSlot(slot, owner) ==
  [slot EXCEPT !.owner = owner, !.valid_tokens = 0,
               !.state = "AdmissionReserved"]

ReservedSlot(slot, owner) ==
  [slot EXCEPT !.generation = @ + 1, !.owner = owner, !.valid_tokens = 0,
               !.state = "AdmissionReserved"]

ReservedPool(pool, owner, count) ==
  [pool EXCEPT
     !.slots = [i \in KvSlots |-> IF i \in SelectedSlots(pool, count)
                                    THEN ReservedSlot(@[i], owner) ELSE @[i]],
     !.clean_credits = @ - count]

(* The slots of one owner in one state, in order; what reserve returns.    *)
HandleAt(pool, i) == [slot |-> i, generation |-> pool.slots[i].generation]

HandlesOf(pool, owner, state) ==
  {HandleAt(pool, i) :
     i \in {j \in InState(pool, state) : pool.slots[j].owner = owner}}

ExactOwnerSet(pool, owner, handles, state) ==
  handles = HandlesOf(pool, owner, state)

CanTransact(pool, owner, handles, state) ==
  /\ Usable(pool)
  /\ handles # {}
  /\ ExactOwnerSet(pool, owner, handles, state)

SlotsOfHandles(handles) == {h.slot : h \in handles}

Update(pool, slots, Do(_)) ==
  [pool EXCEPT !.slots = [i \in KvSlots |-> IF i \in slots THEN Do(@[i])
                                                           ELSE @[i]]]

PublishedPool(pool, handles) ==
  LET publish(slot) == [slot EXCEPT !.state = "Owned"]
  IN  Update(pool, SlotsOfHandles(handles), publish)

FreedSlot(slot, state) ==
  [slot EXCEPT !.owner = NoOwner, !.valid_tokens = 0, !.state = state]

(* The reservation would be returned without its credits.                  *)
MutRolledBackPool(pool, handles) ==
  LET free(slot) == FreedSlot(slot, "FreeClean")
  IN  Update(pool, SlotsOfHandles(handles), free)

RolledBackPool(pool, handles) ==
  LET free(slot) == FreedSlot(slot, "FreeClean")
  IN  [Update(pool, SlotsOfHandles(handles), free)
         EXCEPT !.clean_credits = @ + Cardinality(handles)]

CanCommitTokens(pool, owner, handle, tokens) ==
  /\ Usable(pool)
  /\ tokens \in 1..TokensPerSlot
  /\ handle \in HandlesOf(pool, owner, "Owned")
  /\ tokens >= pool.slots[handle.slot].valid_tokens

CommittedPool(pool, handle, tokens) ==
  [pool EXCEPT !.slots[handle.slot].valid_tokens = tokens]

(* A slot would be credited with the tokens of the slots behind it.        *)
MutTokensInSlot(slots, i, tokens) ==
  LET begin == Cardinality({j \in slots : j < i}) * TokensPerSlot
  IN  IF tokens <= begin THEN 0 ELSE tokens - begin

(* How many of the first `tokens` tokens of a sequence lie in slot i, when *)
(* the sequence's slots are filled in the order reserve returned them.     *)
TokensInSlot(slots, i, tokens) ==
  LET begin == Cardinality({j \in slots : j < i}) * TokensPerSlot
  IN  IF tokens <= begin THEN 0
      ELSE IF tokens - begin > TokensPerSlot THEN TokensPerSlot
      ELSE tokens - begin

CanCommitPrefix(pool, owner, handles, tokens) ==
  /\ CanTransact(pool, owner, handles, "Owned")
  /\ tokens \in 1..(Cardinality(handles) * TokensPerSlot)
  /\ \A i \in SlotsOfHandles(handles) :
       TokensInSlot(SlotsOfHandles(handles), i, tokens)
         >= pool.slots[i].valid_tokens

CommittedPrefixPool(pool, handles, tokens) ==
  [pool EXCEPT
     !.slots = [i \in KvSlots |->
                  IF i \in SlotsOfHandles(handles)
                    THEN [@[i] EXCEPT !.valid_tokens =
                            TokensInSlot(SlotsOfHandles(handles), i, tokens)]
                    ELSE @[i]]]

(* The slots would forget the event their release waits for.               *)
MutReleasedPool(pool, handles, event) ==
  LET release(slot) == [slot EXCEPT !.state = "ReclaimPending"]
  IN  Update(pool, SlotsOfHandles(handles), release)

ReleasedPool(pool, handles, event) ==
  LET release(slot) == [slot EXCEPT !.state = "ReclaimPending",
                                    !.event = event]
  IN  Update(pool, SlotsOfHandles(handles), release)

-----------------------------------------------------------------------------
(* A slot is recycled one by one: its last use must be over, it must be    *)
(* cleared, and only then it is clean again.                               *)

(* Any completed event would do.                                           *)
MutEventMatches(pool, handle, event, state) ==
  /\ Usable(pool)
  /\ pool.slots[handle.slot].state = state
  /\ pool.slots[handle.slot].generation = handle.generation

EventMatches(pool, handle, event, state) ==
  /\ Usable(pool)
  /\ pool.slots[handle.slot].state = state
  /\ pool.slots[handle.slot].generation = handle.generation
  /\ pool.slots[handle.slot].event = event

CanReclaim(pool, handle, event) ==
  EventMatches(pool, handle, event, "ReclaimPending")

(* The reclaimed slot would count as clean.                                *)
MutReclaimedPool(pool, handle) ==
  [pool EXCEPT !.slots[handle.slot] =
                 [FreedSlot(@, "FreeClean") EXCEPT !.event = 0],
               !.clean_credits = @ + 1]

ReclaimedPool(pool, handle) ==
  [pool EXCEPT !.slots[handle.slot] =
                 [FreedSlot(@, "FreeDirty") EXCEPT !.event = 0]]

ScrubLaneFree(pool) == InState(pool, "Scrubbing") = {}

CanBeginScrub(pool, event) ==
  /\ Usable(pool)
  /\ event # 0
  /\ ScrubLaneFree(pool)
  /\ InState(pool, "FreeDirty") # {}

ScrubTarget(pool) ==
  CHOOSE i \in InState(pool, "FreeDirty") :
    \A j \in InState(pool, "FreeDirty") : i <= j

ScrubbingPool(pool, event) ==
  [pool EXCEPT !.slots[ScrubTarget(pool)].state = "Scrubbing",
               !.slots[ScrubTarget(pool)].event = event]

CanCompleteScrub(pool, handle, event) ==
  EventMatches(pool, handle, event, "Scrubbing")

ScrubbedPool(pool, handle) ==
  [pool EXCEPT !.slots[handle.slot] =
                 [FreedSlot(@, "FreeClean") EXCEPT !.event = 0],
               !.clean_credits = @ + 1]
=============================================================================
