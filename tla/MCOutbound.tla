------------------------------ MODULE MCOutbound ------------------------------
(* Outbound on small instances. *)
EXTENDS Outbound

CONSTANTS h1, net5, net88

TwoTrunks == {1, 2}
ToHostAndNet == {<<Local, h1>>, <<net5, h1>>}
SixOnly == {"six"}

Both == [beebs |-> Beebs, hosts |-> AunHosts, trunks |-> Trunks, net |-> net88]
(* A configuration without trunks, in which a network that was behind one  *)
(* is our own.                                                              *)
NoTrunks == [Both EXCEPT !.trunks = {}, !.net = net5]
Changing == {Both, NoTrunks}
=============================================================================
