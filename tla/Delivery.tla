------------------------------ MODULE Delivery ------------------------------
(***************************************************************************)
(* What a host on the IP side is promised of a station on the Econet: its  *)
(* packets arrive in the order it sent them, each at most once, and only   *)
(* what arrived is acknowledged.                                           *)
(***************************************************************************)
EXTENDS Naturals, Sequences

VARIABLES
    sent,       \* packets numbered 1..sent were sent
    delivered,  \* the packets the station has accepted, in that order
    acked       \* the packets the host was told are acknowledged

Init ==
    /\ sent = 0
    /\ delivered = <<>>
    /\ acked = {}

Submit ==
    /\ sent' = sent + 1
    /\ UNCHANGED <<delivered, acked>>

Deliver(p) ==
    /\ \A i \in DOMAIN delivered : delivered[i] < p
    /\ delivered' = Append(delivered, p)
    /\ UNCHANGED <<sent, acked>>

Acknowledge(p) ==
    /\ \E i \in DOMAIN delivered : delivered[i] = p
    /\ acked' = acked \cup {p}
    /\ UNCHANGED <<sent, delivered>>

Next == Submit \/ \E p \in 1..sent : Deliver(p) \/ Acknowledge(p)

vars == <<sent, delivered, acked>>

Spec == Init /\ [][Next]_vars
=============================================================================
