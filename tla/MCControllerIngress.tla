------------------------ MODULE MCControllerIngress -------------------------
(* Two slots and a mailbox of two: cancellations fill it while an          *)
(* admission is between its two locks.  Two payloads tell a command with   *)
(* the wrong digest apart, and a third is over the profile.                *)
EXTENDS ControllerIngress

CONSTANTS t1, t2, t3

MCThreads == {t1, t2, t3}
MCRequests == 0..2
MCPayloads ==
  {[prompt_tokens |-> 1, maximum_new_tokens |-> n] : n \in 1..3}
=============================================================================
