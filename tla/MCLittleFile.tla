---------------------------- MODULE MCLittleFile ----------------------------
(* LittleFile on small instances: one write makes a file of three blocks. *)
EXTENDS LittleFile, TLC

Chunks == {[i \in 1..13 |-> i], <<20>>}
Places == {0, 7, 12}
(* A file of three blocks. *)
OneFile ==
  {[flash |-> [b \in Blocks |-> CASE b = 2 -> <<1, 2, 3, 4, 5, 6>>
                                   [] b = 4 -> <<2, 7, 8, 9, 10, 11>>
                                   [] b = 5 -> <<4, 2, 12, 13, 0, 0>>
                                   [] OTHER -> Erased],
    dir |-> [n \in Names |-> IF n = first THEN Outlined(5, 13) ELSE Absent]] : first \in Names}
NoneOrOneBad == {{}, {3}}
OneSeed == {2}
AnyName == Permutations(Names)
=============================================================================
