---------------------------- MODULE MCAunInbound ----------------------------
(* AunInbound on small instances. *)
EXTENDS AunInbound

OwnPorts == [h \in Hosts |-> 32767 + h]
OnlyFirst == {1}
TwoHosts == {<<1, 1>>, <<2, 1>>}

\* The first host sends two packets of data, the second one of another type.
TwoAndOne == <<2, 1>>
DataAndOther == <<{"DATA"}, {"IMM", "BROADCAST"}>>
=============================================================================
