---------------------------- MODULE MCConfigStore ----------------------------
(* Model-checking values for ConfigStore. *)
EXTENDS ConfigStore
TwoValues == {1, 2}
OneValue == {1}
SetOrOld == {"set", "old"}
FreshOnly == {"fresh"}
==============================================================================
