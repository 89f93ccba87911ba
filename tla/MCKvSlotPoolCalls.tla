-------------------------- MODULE MCKvSlotPoolCalls --------------------------
(* Two slots and two sequences, so that one sequence can take both slots   *)
(* or each take one, and two reservations of every slot, so that handles   *)
(* go stale and the generation limit is reached.                           *)
EXTENDS KvSlotPoolCalls
=============================================================================
