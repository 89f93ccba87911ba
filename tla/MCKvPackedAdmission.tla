------------------------ MODULE MCKvPackedAdmission ------------------------
(* Two live sequences of one or two slots compete for three slots.         *)
EXTENDS KvPackedAdmission
=============================================================================
