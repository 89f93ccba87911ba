--------------------------- MODULE KvSlotPoolCalls ---------------------------
(***************************************************************************)
(* The KV slot pool under a caller that makes any call, in any order, with *)
(* any handles the pool ever returned and any event ever recorded, while   *)
(* the device finishes its events in any order.  The caller reports truly  *)
(* whether an event has finished.                                          *)
(***************************************************************************)
EXTENDS KvSlotPool

CONSTANTS
  SequenceIndices,  \* owner_sequence_index values the caller uses
  MaxEvents         \* bound: device events recorded

ASSUME CallerConstants ==
  /\ SequenceIndices \subseteq Nat
  /\ MaxEvents \in Nat

VARIABLES
  pool,      \* the QwenKvSlotPool
  issued,    \* every <<owner, handles>> reserve returned
  events,    \* number of events the caller recorded on the device
  finished,  \* the events the device has finished
  retired,   \* history: handles whose slots went back to the pool
  lastUse,   \* history: the event after which a slot's last use is over
  written    \* history: slots a sequence may have written since their scrub

vars == <<pool, issued, events, finished, retired, lastUse, written>>

Issued == UNION {r[2] : r \in issued}

Recorded == 1..events

Init ==
  /\ pool = CreatedPool
  /\ issued = {}
  /\ events = 0
  /\ finished = {}
  /\ retired = {}
  /\ lastUse = [i \in KvSlots |-> 0]
  /\ written = KvSlots

-----------------------------------------------------------------------------
SanitizeCall ==
  /\ CanSanitize(pool)
  /\ pool' = SanitizedPool(pool)
  /\ written' = {}
  /\ UNCHANGED <<issued, events, finished, retired, lastUse>>

SanitizeFails ==
  /\ CanSanitize(pool)
  /\ pool' = Failing(pool)
  /\ UNCHANGED <<issued, events, finished, retired, lastUse, written>>

AcquireGenerationCall ==
  /\ Usable(pool)
  /\ pool' = IF CanAcquireGeneration(pool) THEN NextSequence(pool)
                                           ELSE Failing(pool)
  /\ UNCHANGED <<issued, events, finished, retired, lastUse, written>>

ReserveCall(owner, count) ==
  /\ CanReserve(pool, owner, count)
  /\ pool' = ReservedPool(pool, owner, count)
  /\ issued' = issued \union
       {<<owner, HandlesOf(pool', owner, "AdmissionReserved")>>}
  /\ UNCHANGED <<events, finished, retired, lastUse, written>>

PublishCall(owner, handles) ==
  /\ CanTransact(pool, owner, handles, "AdmissionReserved")
  /\ pool' = PublishedPool(pool, handles)
  /\ written' = written \union SlotsOfHandles(handles)
  /\ UNCHANGED <<issued, events, finished, retired, lastUse>>

RollbackCall(owner, handles) ==
  /\ CanTransact(pool, owner, handles, "AdmissionReserved")
  /\ pool' = RolledBackPool(pool, handles)
  /\ retired' = retired \union handles
  /\ UNCHANGED <<issued, events, finished, lastUse, written>>

CommitTokensCall(owner, handle, tokens) ==
  /\ CanCommitTokens(pool, owner, handle, tokens)
  /\ pool' = CommittedPool(pool, handle, tokens)
  /\ UNCHANGED <<issued, events, finished, retired, lastUse, written>>

CommitPrefixCall(owner, handles, tokens) ==
  /\ CanCommitPrefix(pool, owner, handles, tokens)
  /\ pool' = CommittedPrefixPool(pool, handles, tokens)
  /\ UNCHANGED <<issued, events, finished, retired, lastUse, written>>

(* The caller records an event behind the sequence's work and releases the *)
(* slots with it.                                                          *)
ReleaseCall(owner, handles) ==
  /\ events < MaxEvents
  /\ CanTransact(pool, owner, handles, "Owned")
  /\ events' = events + 1
  /\ pool' = ReleasedPool(pool, handles, events')
  /\ lastUse' = [i \in KvSlots |-> IF i \in SlotsOfHandles(handles)
                                     THEN events' ELSE lastUse[i]]
  /\ UNCHANGED <<issued, finished, retired, written>>

ReclaimCall(handle, event) ==
  /\ event \in finished
  /\ CanReclaim(pool, handle, event)
  /\ pool' = ReclaimedPool(pool, handle)
  /\ retired' = retired \union {handle}
  /\ UNCHANGED <<issued, events, finished, lastUse, written>>

BeginScrubCall ==
  /\ events < MaxEvents
  /\ CanBeginScrub(pool, events + 1)
  /\ events' = events + 1
  /\ pool' = ScrubbingPool(pool, events')
  /\ UNCHANGED <<issued, finished, retired, lastUse, written>>

CompleteScrubCall(handle, event) ==
  /\ event \in finished
  /\ CanCompleteScrub(pool, handle, event)
  /\ pool' = ScrubbedPool(pool, handle)
  /\ written' = written \ {handle.slot}
  /\ UNCHANGED <<issued, events, finished, retired, lastUse>>

(* The device reports that a reclaim or a scrub failed.                    *)
EventFails(handle, event) ==
  /\ event \in finished
  /\ \/ CanReclaim(pool, handle, event)
     \/ CanCompleteScrub(pool, handle, event)
  /\ pool' = Failing(pool)
  /\ UNCHANGED <<issued, events, finished, retired, lastUse, written>>

DeviceFinishes(event) ==
  /\ event \notin finished
  /\ finished' = finished \union {event}
  /\ UNCHANGED <<pool, issued, events, retired, lastUse, written>>

Next ==
  \/ SanitizeCall \/ SanitizeFails \/ AcquireGenerationCall
  \/ \E owner \in SequenceIndices, count \in KvSlots : ReserveCall(owner, count)
  \/ \E owner \in SequenceIndices, r \in issued :
       \/ PublishCall(owner, r[2])
       \/ RollbackCall(owner, r[2])
       \/ ReleaseCall(owner, r[2])
       \/ \E tokens \in 1..(SlotCount * TokensPerSlot) :
            CommitPrefixCall(owner, r[2], tokens)
       \/ \E handle \in r[2], tokens \in 1..TokensPerSlot :
            CommitTokensCall(owner, handle, tokens)
  \/ BeginScrubCall
  \/ \E handle \in Issued, event \in Recorded :
       \/ ReclaimCall(handle, event)
       \/ CompleteScrubCall(handle, event)
       \/ EventFails(handle, event)
  \/ \E event \in Recorded : DeviceFinishes(event)

Spec == Init /\ [][Next]_vars

(* The device finishes what was recorded, and the recycler                 *)
(* (qwen3_bf16_kv_recycler.cpp) makes its three calls for every slot that  *)
(* was released.                                                           *)
Recycling ==
  /\ \A event \in 1..MaxEvents :
       WF_vars(event \in Recorded /\ DeviceFinishes(event))
  /\ WF_vars(\E handle \in Issued, event \in Recorded :
                ReclaimCall(handle, event))
  /\ WF_vars(BeginScrubCall)
  /\ WF_vars(\E handle \in Issued, event \in Recorded :
                CompleteScrubCall(handle, event))

FairSpec == Spec /\ Recycling

-----------------------------------------------------------------------------
TypeOK ==
  /\ pool \in KvPool
  /\ issued \subseteq SequenceIndices \X SUBSET Handle
  /\ events \in Nat
  /\ finished \subseteq Recorded
  /\ retired \subseteq Handle
  /\ lastUse \in [KvSlots -> Nat]
  /\ written \subseteq KvSlots

(* The credit counter that reserve trusts is the number of clean slots     *)
(* after any history of reservations, rollbacks and scrubs, so the error   *)
(* "clean credit ledger is inconsistent" (line 99) cannot happen.          *)
CreditsCountCleanSlots ==
  pool.clean_credits = Cardinality(InState(pool, "FreeClean"))

(* A slot that a sequence may have written is never handed to another      *)
(* sequence before it was cleared: clean and newly reserved slots hold no  *)
(* old keys and values.                                                    *)
ReservedSlotsAreErased ==
  written \intersect
    (InState(pool, "FreeClean") \union InState(pool, "AdmissionReserved")) = {}

(* A slot leaves ReclaimPending only after the event of its own release    *)
(* has finished: no slot is scrubbed or reused while the device may still  *)
(* read it for the previous owner.                                         *)
NoReuseBeforeLastUse ==
  \A i \in KvSlots :
    pool.slots[i].state # "ReclaimPending" => lastUse[i] \in finished \union {0}

(* A handle whose slot went back to the pool is stale for good: whatever   *)
(* the slot's later owners do, no reserved, owned or pending slot carries  *)
(* its generation again.                                                   *)
RetiredHandlesStayStale ==
  \A i \in KvSlots :
    pool.slots[i].owner # NoOwner => HandleAt(pool, i) \notin retired

(* Every released slot is clean again in the end, however the releases and *)
(* scrubs of several sequences interleave on the one scrub lane, unless    *)
(* the device fails.                                                       *)
ReleasedSlotsComeBack ==
  \A i \in KvSlots :
    pool.slots[i].state = "ReclaimPending"
      ~> (pool.slots[i].state = "FreeClean" \/ pool.failed)
=============================================================================
