--------------------------- MODULE RequestStream ----------------------------
(***************************************************************************)
(* What the execution controller promises the consumer of its events: for  *)
(* every request one stream that is opened, delivers its tokens one by one *)
(* without a gap, starts draining once, and is closed once.  A stream that *)
(* drains without a finish reason was cancelled and is never reported as   *)
(* completed; one that reached its stop or its length may still be closed  *)
(* by a cancellation that was already under way.  A request generation may *)
(* be used again after its stream is closed, not before.                   *)
(***************************************************************************)
EXTENDS Naturals

CONSTANT Requests

VARIABLE stream

Closed == {"None", "Failed", "Completed", "Cancelled"}

Init ==
  stream = [request \in Requests |->
              [status |-> "None", tokens |-> 0, reason |-> "None"]]

Open(request) ==
  /\ stream[request].status \in Closed
  /\ stream' = [stream EXCEPT ![request] =
                  [status |-> "Admitted", tokens |-> 0, reason |-> "None"]]

Reject(request) ==
  /\ stream[request].status \in Closed
  /\ stream' = [stream EXCEPT ![request].status = "Failed"]

DeliverToken(request) ==
  /\ stream[request].status = "Admitted"
  /\ stream' = [stream EXCEPT ![request].tokens = @ + 1]

StartDraining(request, reason) ==
  /\ stream[request].status = "Admitted"
  /\ reason # "None" => stream[request].tokens > 0
  /\ stream' = [stream EXCEPT ![request].status = "Draining",
                              ![request].reason = reason]

CloseCompleted(request) ==
  /\ stream[request].status = "Draining"
  /\ stream[request].reason # "None"
  /\ stream' = [stream EXCEPT ![request].status = "Completed"]

CloseCancelled(request) ==
  /\ stream[request].status = "Draining"
  /\ stream' = [stream EXCEPT ![request].status = "Cancelled"]

Next ==
  \E request \in Requests :
    \/ Open(request)
    \/ Reject(request)
    \/ DeliverToken(request)
    \/ \E reason \in {"None", "Stop", "Length"} :
         StartDraining(request, reason)
    \/ CloseCompleted(request)
    \/ CloseCancelled(request)

Spec == Init /\ [][Next]_stream
=============================================================================
