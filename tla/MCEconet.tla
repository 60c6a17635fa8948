------------------------------ MODULE MCEconet ------------------------------
(* Econet on small instances. *)
EXTENDS Econet

Unicast == {"NORMAL", "IMM_WITH_REPLY", "IMM_NO_DATA"}
Everything == AllKinds
=============================================================================
