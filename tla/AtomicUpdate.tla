---------------------------- MODULE AtomicUpdate ----------------------------
(***************************************************************************)
(* What a littlefs directory promises: a change takes effect at one moment *)
(* between its start and its end, or not at all; one that is reported done *)
(* has taken effect, and a restart neither undoes nor invents one.          *)
(***************************************************************************)
CONSTANTS Contents, Absent

VARIABLES
  content,        \* what a reader, or the next start, finds
  wanted,         \* what the change in progress makes of it; or content
  state           \* "idle", "busy" with a change, or "broken"

vars == <<content, wanted, state>>

Init == content = Absent /\ wanted = Absent /\ state = "idle"

Begin ==
  /\ state # "busy"
  /\ state' = "busy" /\ wanted' \in Contents \cup {Absent}
  /\ UNCHANGED content

TakeEffect == state = "busy" /\ content' = wanted /\ UNCHANGED <<wanted, state>>

(* The change is reported done. *)
Done == state = "busy" /\ state' = "idle" /\ content' = wanted /\ UNCHANGED wanted

(* An error is reported, or the power fails: the change may or may not     *)
(* have been made.                                                          *)
Broken ==
  /\ state' = "broken"
  /\ content' \in {content, wanted}
  /\ wanted' = content'

Recover == state = "broken" /\ state' = "idle" /\ UNCHANGED <<content, wanted>>

Next == Begin \/ TakeEffect \/ Done \/ Broken \/ Recover
Spec == Init /\ [][Next]_vars
=============================================================================
