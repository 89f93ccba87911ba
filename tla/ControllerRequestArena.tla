----------------------- MODULE ControllerRequestArena -----------------------
(***************************************************************************)
(* The fixed arena that holds the payload of a request from its submission *)
(* until the request is finished                                           *)
(* (plugins/execution-default/controller_request_arena.cpp).  A payload is *)
(* what the controller acts on: the prompt length and the token limit.     *)
(* The SHA-256 payload digest covers the request generation and the        *)
(* payload and is only compared, so it is modelled as that pair.           *)
(* Slots are 1-based here, 0-based in the code.                            *)
(***************************************************************************)
EXTENDS Naturals

CONSTANTS
  MaximumRequests,         \* limits.maximum_requests
  MaximumPromptTokens,     \* limits.maximum_prompt_tokens_per_request
  MaximumContextTokens,    \* limits.maximum_context_tokens
  SlotGenerationLimit      \* std::numeric_limits<std::uint64_t>::max()

ASSUME ArenaConstants ==
  /\ MaximumRequests \in Nat \ {0}
  /\ MaximumPromptTokens \in Nat \ {0}
  /\ MaximumContextTokens \in Nat
  /\ MaximumPromptTokens <= MaximumContextTokens
  /\ SlotGenerationLimit \in Nat

ArenaIndexes == 1..MaximumRequests

ArenaStates == {"Free", "Published", "Claimed"}

Payload == [prompt_tokens: Nat, maximum_new_tokens: Nat]

NoPayload == [prompt_tokens |-> 0, maximum_new_tokens |-> 0]

ArenaSlot ==
  [state: ArenaStates, generation: Nat, request_generation: Nat,
   payload: Payload]

Receipt ==
  [slot_index: ArenaIndexes, slot_generation: Nat, request_generation: Nat,
   payload: Payload]

InitialArena ==
  [i \in ArenaIndexes |->
     [state |-> "Free", generation |-> 0, request_generation |-> 0,
      payload |-> NoPayload]]

FitsProfile(payload) ==
  /\ payload.prompt_tokens \in 1..MaximumPromptTokens
  /\ payload.maximum_new_tokens \in 1..MaximumContextTokens
  /\ payload.prompt_tokens + payload.maximum_new_tokens <= MaximumContextTokens

(* A request could be resident twice.                                      *)
MutNotResident(arena, request) == TRUE

NotResident(arena, request) ==
  \A i \in ArenaIndexes :
    arena[i].state = "Free" \/ arena[i].request_generation # request

FreeSlots(arena) == {i \in ArenaIndexes : arena[i].state = "Free"}

LowestIndex(indexes) == CHOOSE i \in indexes : \A j \in indexes : i <= j

(* The scan would accept a slot the controller still reads.                *)
MutFirstFreeSlot(arena) ==
  LowestIndex({i \in ArenaIndexes : arena[i].state # "Published"})

FirstFreeSlot(arena) == LowestIndex(FreeSlots(arena))

CanPublish(arena, request, payload) ==
  /\ request # 0
  /\ FitsProfile(payload)
  /\ NotResident(arena, request)
  /\ FreeSlots(arena) # {}
  /\ arena[FirstFreeSlot(arena)].generation # SlotGenerationLimit

Publish(arena, request, payload) ==
  LET i == FirstFreeSlot(arena)
  IN  [arena EXCEPT ![i] = [state |-> "Published",
                            generation |-> @.generation + 1,
                            request_generation |-> request,
                            payload |-> payload]]

(* The receipt would carry the generation of the slot's previous request.  *)
MutPublishedReceipt(arena, request, payload) ==
  LET i == FirstFreeSlot(arena)
  IN  [slot_index |-> i,
       slot_generation |-> arena[i].generation,
       request_generation |-> request,
       payload |-> payload]

PublishedReceipt(arena, request, payload) ==
  LET i == FirstFreeSlot(arena)
  IN  [slot_index |-> i,
       slot_generation |-> arena[i].generation + 1,
       request_generation |-> request,
       payload |-> payload]

PublishedSlots(arena, request) ==
  {i \in ArenaIndexes : /\ arena[i].state = "Published"
                        /\ arena[i].request_generation = request}

ClaimTarget(arena, request) == LowestIndex(PublishedSlots(arena, request))

CanClaim(arena, request, payload) ==
  /\ PublishedSlots(arena, request) # {}
  /\ arena[ClaimTarget(arena, request)].payload = payload

Claim(arena, i) == [arena EXCEPT ![i].state = "Claimed"]

ClaimedReceipt(arena, i) ==
  [slot_index |-> i,
   slot_generation |-> arena[i].generation,
   request_generation |-> arena[i].request_generation,
   payload |-> arena[i].payload]

ClearSlot(arena, i) ==
  [arena EXCEPT ![i] = [state |-> "Free", generation |-> @.generation,
                        request_generation |-> 0, payload |-> NoPayload]]

CanRollback(arena, receipt) ==
  LET slot == arena[receipt.slot_index]
  IN  /\ slot.state = "Published"
      /\ slot.generation = receipt.slot_generation
      /\ slot.request_generation = receipt.request_generation
      /\ slot.payload = receipt.payload

CanRelease(arena, receipt) ==
  LET slot == arena[receipt.slot_index]
  IN  slot.state = "Claimed" /\ slot.generation = receipt.slot_generation
=============================================================================
