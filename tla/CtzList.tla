------------------------------- MODULE CtzList -------------------------------
(***************************************************************************)
(* The blocks of a littlefs file (lfs.c): a list from the last block to    *)
(* the first, in which block i also points 2, 4, ... blocks back, once for *)
(* every time 2 divides i.  The pointers are the first words of a block,   *)
(* so the words of the file that a block holds depend on its index.  A     *)
(* word is a number; block b is the sequence flash[b].                      *)
(***************************************************************************)
EXTENDS Integers, Sequences, FiniteSets

CONSTANTS BlockCount, BlockSize      \* and the words of a block

Offsets == 0..(BlockCount * BlockSize)
Indices == 0..BlockCount

Bits(n) == {k \in 0..n : (n \div 2^k) % 2 = 1}
Popc == [n \in Indices |-> Cardinality(Bits(n))]
TrailingZeros == [n \in Indices \ {0} |-> CHOOSE k \in Bits(n) : \A j \in Bits(n) : k <= j]
Npw2 == [n \in Indices \ {0} |-> CHOOSE k \in 0..n : 2^k >= n /\ \A j \in 0..(k - 1) : 2^j < n]
Smaller(a, b) == IF a < b THEN a ELSE b
Larger(a, b) == IF a < b THEN b ELSE a

(* lfs_ctz_index: the block that holds word pos of a file, and where. *)
IndexUncorrected(pos) == pos \div (BlockSize - 2)
IndexAt(pos) ==
  LET i == pos \div (BlockSize - 2)
  IN IF i = 0 THEN 0 ELSE (pos - (Popc[i - 1] + 2)) \div (BlockSize - 2)
Index == [pos \in Offsets |-> IndexAt(pos)]
Offset == [pos \in Offsets |-> pos - (BlockSize - 2) * Index[pos] - Popc[Index[pos]]]

Pointers(index) == IF index = 0 THEN 0 ELSE TrailingZeros[index] + 1
FirstPosition(index) == (BlockSize - 2) * index + Popc[index] + Pointers(index)

(* lfs_ctz_find *)
Find(flash, head, size, pos) ==
  LET target == Index[pos]
      skip(from) == Smaller(Npw2[from - target + 1] - 1, TrailingZeros[from])
      Walk[from \in target..Index[size - 1], block \in DOMAIN flash] ==
        IF from = target THEN block
        ELSE Walk[from - 2^skip(from), flash[block][skip(from) + 1]]
  IN Walk[Index[size - 1], head]

Word(flash, head, size, pos) == flash[Find(flash, head, size, pos)][Offset[pos] + 1]

(* What is found in a file, block by block. *)
Words(flash, head, size) ==
  LET last == Index[size - 1]
      Part(i) == SubSeq(flash[Find(flash, head, size, FirstPosition(i))], Pointers(i) + 1,
                        IF i = last THEN Offset[size - 1] + 1 ELSE BlockSize)
      Upto[i \in 0..last] == IF i = 0 THEN Part(0) ELSE Upto[i - 1] \o Part(i)
  IN IF size = 0 THEN <<>> ELSE Upto[last]

(* lfs_ctz_traverse: the blocks; a head of one block may be no block. *)
Chain(flash, head, size) ==
  IF size = 0 THEN {}
  ELSE LET Walk[index \in 0..Index[size - 1], block \in DOMAIN flash \cup {head}] ==
             {block} \cup IF index = 0 THEN {} ELSE Walk[index - 1, flash[block][1]]
       IN Walk[Index[size - 1], head]

(* lfs_ctz_extend: what a new block starts with, that follows or replaces  *)
(* the block before word size.                                              *)
Started(flash, block, size) ==
  LET used  == Offset[size - 1] + 1
      count == Pointers(Index[size - 1] + 1)
      To[i \in 1..count] == IF i = 1 THEN block ELSE flash[To[i - 1]][i - 1]
  IN IF size = 0 THEN <<>>
     ELSE IF used # BlockSize THEN SubSeq(flash[block], 1, used)
     ELSE [i \in 1..count |-> To[i]]
=============================================================================
