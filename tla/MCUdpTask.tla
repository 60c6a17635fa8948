------------------------------ MODULE MCUdpTask ------------------------------
(* UdpTask on small instances. *)
EXTENDS UdpTask

\* Either may be left without a socket, which stands for configurations without it.
OneOfEach == {[stations |-> 1, trunks |-> 1]}
=============================================================================
