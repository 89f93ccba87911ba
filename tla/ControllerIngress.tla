-------------------------- MODULE ControllerIngress --------------------------
(***************************************************************************)
(* Submission and pickup of requests by concurrent threads                 *)
(* (plugins/execution-default/controller_ingress.cpp).  submit_admit       *)
(* publishes the payload under the arena's lock and then queues the        *)
(* command under the mailbox's lock; a full mailbox makes it go back and   *)
(* roll the payload back.  try_take_command likewise takes the command     *)
(* first and claims the payload second.  Every lock region is one step     *)
(* here, so other threads run in between.  The epoch and the command       *)
(* sequence number do not influence what is accepted and are left out.     *)
(***************************************************************************)
EXTENDS ControllerRequestArena, Sequences

CONSTANTS
  Threads,                 \* the threads that call into the ingress
  NoThread,                \* controller_thread_ before the first pickup
  Requests,                \* request generations callers may use
  Payloads,                \* payloads callers may submit
  CommandCapacity          \* commands_.size()

ASSUME IngressConstants ==
  /\ NoThread \notin Threads
  /\ Requests \subseteq Nat
  /\ Payloads \subseteq Payload
  /\ CommandCapacity \in Nat \ {0}

VARIABLES
  arena,                   \* requests_.slots_
  commands,                \* mailbox_.commands_, oldest first
  controller_thread,       \* mailbox_.controller_thread_
  call,                    \* the call each thread is in the middle of
  claims                   \* the request views the controller holds

vars == <<arena, commands, controller_thread, call, claims>>

IdleCall == [stage |-> "Idle"]

SubmittingCall(receipt) == [stage |-> "Submitting", receipt |-> receipt]

RollingBackCall(receipt) == [stage |-> "RollingBack", receipt |-> receipt]

ClaimingCall(command) == [stage |-> "Claiming", command |-> command]

Init ==
  /\ arena = InitialArena
  /\ commands = <<>>
  /\ controller_thread = NoThread
  /\ call = [t \in Threads |-> IdleCall]
  /\ claims = {}

-----------------------------------------------------------------------------
MailboxHasRoom(queue) == Len(queue) < CommandCapacity

(* submit_admit, first lock: the payload is published.                     *)
PublishPayload(t, request, payload) ==
  /\ call[t].stage = "Idle"
  /\ CanPublish(arena, request, payload)
  /\ arena' = Publish(arena, request, payload)
  /\ call' = [call EXCEPT ![t] =
                SubmittingCall(PublishedReceipt(arena, request, payload))]
  /\ UNCHANGED <<commands, controller_thread, claims>>

(* The command would be queued without the digest of its payload.          *)
MutQueueAdmit(t) ==
  /\ call[t].stage = "Submitting"
  /\ MailboxHasRoom(commands)
  /\ commands' = Append(commands,
                   [kind |-> "Admit",
                    request_generation |-> call[t].receipt.request_generation,
                    payload |-> NoPayload])
  /\ call' = [call EXCEPT ![t] = IdleCall]
  /\ UNCHANGED <<arena, controller_thread, claims>>

(* submit_admit, second lock: the command is queued.                       *)
QueueAdmit(t) ==
  /\ call[t].stage = "Submitting"
  /\ MailboxHasRoom(commands)
  /\ commands' = Append(commands,
                   [kind |-> "Admit",
                    request_generation |-> call[t].receipt.request_generation,
                    payload |-> call[t].receipt.payload])
  /\ call' = [call EXCEPT ![t] = IdleCall]
  /\ UNCHANGED <<arena, controller_thread, claims>>

(* submit_admit, second lock: the mailbox is full.                         *)
AdmitRefused(t) ==
  /\ call[t].stage = "Submitting"
  /\ ~MailboxHasRoom(commands)
  /\ call' = [call EXCEPT ![t] = RollingBackCall(call[t].receipt)]
  /\ UNCHANGED <<arena, commands, controller_thread, claims>>

(* submit_admit, third lock: the payload is taken back.                    *)
RollBackPayload(t) ==
  /\ call[t].stage = "RollingBack"
  /\ CanRollback(arena, call[t].receipt)
  /\ arena' = ClearSlot(arena, call[t].receipt.slot_index)
  /\ call' = [call EXCEPT ![t] = IdleCall]
  /\ UNCHANGED <<commands, controller_thread, claims>>

QueueCancel(t, request) ==
  /\ call[t].stage = "Idle"
  /\ request # 0
  /\ MailboxHasRoom(commands)
  /\ commands' = Append(commands, [kind |-> "Cancel",
                                   request_generation |-> request,
                                   payload |-> NoPayload])
  /\ UNCHANGED <<arena, controller_thread, call, claims>>

MayControl(t) == controller_thread \in {NoThread, t}

(* try_take_command on an empty mailbox still binds the calling thread.    *)
TakeNothing(t) ==
  /\ call[t].stage = "Idle"
  /\ MayControl(t)
  /\ commands = <<>>
  /\ controller_thread' = t
  /\ UNCHANGED <<arena, commands, call, claims>>

(* The newest command would be taken first.                                *)
MutTakeCommand(t) ==
  LET newest == commands[Len(commands)]
  IN  /\ call[t].stage = "Idle"
      /\ MayControl(t)
      /\ commands # <<>>
      /\ controller_thread' = t
      /\ commands' = SubSeq(commands, 1, Len(commands) - 1)
      /\ call' = [call EXCEPT ![t] = IF newest.kind = "Admit"
                                     THEN ClaimingCall(newest)
                                     ELSE IdleCall]
      /\ UNCHANGED <<arena, claims>>

(* try_take_command, first lock: the oldest command leaves the mailbox.    *)
TakeCommand(t) ==
  /\ call[t].stage = "Idle"
  /\ MayControl(t)
  /\ commands # <<>>
  /\ controller_thread' = t
  /\ commands' = Tail(commands)
  /\ call' = [call EXCEPT ![t] = IF Head(commands).kind = "Admit"
                                 THEN ClaimingCall(Head(commands))
                                 ELSE IdleCall]
  /\ UNCHANGED <<arena, claims>>

(* try_take_command, second lock: the payload is claimed.                  *)
ClaimPayload(t) ==
  LET command == call[t].command
      i == ClaimTarget(arena, command.request_generation)
  IN  /\ call[t].stage = "Claiming"
      /\ CanClaim(arena, command.request_generation, command.payload)
      /\ arena' = Claim(arena, i)
      /\ claims' = claims \union {ClaimedReceipt(arena, i)}
      /\ call' = [call EXCEPT ![t] = IdleCall]
      /\ UNCHANGED <<commands, controller_thread>>

(* release_request of a view the controller holds.                         *)
ReleaseRequest(t, view) ==
  /\ call[t].stage = "Idle"
  /\ t = controller_thread
  /\ view \in claims
  /\ CanRelease(arena, view)
  /\ arena' = ClearSlot(arena, view.slot_index)
  /\ claims' = claims \ {view}
  /\ UNCHANGED <<commands, controller_thread, call>>

Next ==
  \E t \in Threads :
    \/ \E request \in Requests, payload \in Payloads :
         PublishPayload(t, request, payload)
    \/ QueueAdmit(t)
    \/ AdmitRefused(t)
    \/ RollBackPayload(t)
    \/ \E request \in Requests : QueueCancel(t, request)
    \/ TakeNothing(t)
    \/ TakeCommand(t)
    \/ ClaimPayload(t)
    \/ \E view \in claims : ReleaseRequest(t, view)

Spec == Init /\ [][Next]_vars

(* A thread inside a call finishes it, and the controller thread keeps     *)
(* polling the mailbox; nobody is obliged to submit anything.              *)
FairSpec ==
  /\ Spec
  /\ \A t \in Threads :
       /\ WF_vars(QueueAdmit(t) \/ AdmitRefused(t))
       /\ WF_vars(RollBackPayload(t))
       /\ WF_vars(ClaimPayload(t))
  /\ WF_vars(\E t \in Threads : TakeCommand(t))

-----------------------------------------------------------------------------
Submitters == {t \in Threads : call[t].stage \in {"Submitting", "RollingBack"}}

Claimers == {t \in Threads : call[t].stage = "Claiming"}

QueuedAdmits == {n \in 1..Len(commands) : commands[n].kind = "Admit"}

(* "controller command has no matching request payload" never happens: an  *)
(* Admit command, still queued or already taken, can claim its payload,    *)
(* whatever other threads publish, roll back or claim in the meantime.     *)
AdmitFindsItsPayload ==
  /\ \A n \in QueuedAdmits :
       CanClaim(arena, commands[n].request_generation, commands[n].payload)
  /\ \A t \in Claimers :
       CanClaim(arena, call[t].command.request_generation,
                call[t].command.payload)

(* "controller admission rollback failed" never happens: until its command *)
(* is queued the submitter owns the published payload, so rolling it back  *)
(* cannot find a stale receipt.                                            *)
RollbackFindsItsPayload ==
  \A t \in Submitters : CanRollback(arena, call[t].receipt)

(* What is responsible for a published slot: a submitter, a queued command *)
(* or a taken command.                                                     *)
Holders(i) ==
  {<<"submitter", t>> : t \in {t \in Submitters :
                                 call[t].receipt.slot_index = i}}
    \union {<<"queue", n>> : n \in {n \in QueuedAdmits :
              commands[n].request_generation = arena[i].request_generation}}
    \union {<<"claimer", t>> : t \in {t \in Claimers :
              call[t].command.request_generation = arena[i].request_generation}}

(* No payload is stranded and none is delivered twice: exactly one         *)
(* submitter or command is responsible for each published slot.            *)
PublishedHasOneHolder ==
  \A i \in ArenaIndexes :
    arena[i].state = "Published" =>
      /\ Holders(i) # {}
      /\ \A one, two \in Holders(i) : one = two

(* The views the controller reads its prompts through stay good until it   *)
(* releases them, and every claimed slot has a view that can release it.   *)
ClaimsStayLive ==
  /\ \A view \in claims :
       arena[view.slot_index] =
         [state |-> "Claimed", generation |-> view.slot_generation,
          request_generation |-> view.request_generation,
          payload |-> view.payload]
  /\ \A i \in ArenaIndexes :
       arena[i].state = "Claimed" => \E view \in claims : view.slot_index = i

(* Every published payload is claimed or withdrawn in the end, no matter   *)
(* how submitters and cancellations compete for the mailbox.               *)
PublishedIsServed ==
  \A i \in ArenaIndexes :
    (arena[i].state = "Published") ~> (arena[i].state # "Published")
=============================================================================
