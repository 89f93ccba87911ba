----------------------------- MODULE KvRecycler -----------------------------
(***************************************************************************)
(* QwenBf16SynchronousKvRecycler::recycle (qwen3_bf16_kv_recycler.cpp): it *)
(* takes the handles of one sequence through reclaim, scrub and back to    *)
(* the pool, one after the other, and stops at the first call the pool     *)
(* refuses or the first slot the device fails to clear.                    *)
(***************************************************************************)
EXTENDS KvSlotPool, SequencesExt

(* The event a scrub is recorded under; recycle waits for it at once, so   *)
(* one number stands for all of them.                                      *)
ScrubEvent == 1

InSlotOrder(handles) ==
  SetToSortSeq(handles, LAMBDA a, b : a.slot < b.slot)

RecycleSlot(result, handle, event, uncleared) ==
  IF ~result.ok \/ ~CanReclaim(result.pool, handle, event)
  THEN [result EXCEPT !.ok = FALSE]
  ELSE LET dirty == ReclaimedPool(result.pool, handle)
           target == HandleAt(dirty, ScrubTarget(dirty))
           scrubbing == ScrubbingPool(dirty, ScrubEvent)
       IN  IF target.slot \in uncleared
           THEN [ok |-> FALSE, pool |-> Failing(scrubbing)]
           ELSE [ok |-> TRUE, pool |-> ScrubbedPool(scrubbing, target)]

(* What recycle returns and leaves when the device cannot clear the slots  *)
(* in `uncleared`.                                                         *)
Recycle(pool, handles, event, uncleared) ==
  LET start == [ok |-> Usable(pool) /\ handles # {} /\ event # 0,
                pool |-> pool]
  IN  FoldLeft(LAMBDA result, handle :
                 RecycleSlot(result, handle, event, uncleared),
               start, InSlotOrder(handles))
=============================================================================
