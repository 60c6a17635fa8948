------------------------------- MODULE MCHdlc -------------------------------
(* Frames of the shortest, the longest and a too great length, of bytes   *)
(* that need stuffing, look like flags, or stuff across their boundary.    *)
EXTENDS Hdlc
ByteOf(n) == [i \in 0..7 |-> (n \div 2^i) % 2]
BytesOf(numbers) == [i \in DOMAIN numbers |-> ByteOf(numbers[i])]
Frames == {BytesOf(<<255, 255, 255, 255>>), BytesOf(<<126, 0, 254, 1, 254>>),
           BytesOf(<<1, 2, 3, 4, 5, 6>>), BytesOf(<<255, 255, 255, 255, 255, 255>>),
           BytesOf(<<126, 127, 125>>)}
=============================================================================
