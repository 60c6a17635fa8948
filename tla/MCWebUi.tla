------------------------------- MODULE MCWebUi -------------------------------
(* Model-checking values for WebUi. *)
EXTENDS WebUi
TwoConns == {1, 2}
RestartOnly == {"restart"}
==============================================================================
