----------------------------- MODULE HdlcProofs -----------------------------
(***************************************************************************)
(* Proofs about Hdlc, for every set of payloads, any noise and any number  *)
(* of faults:                                                              *)
(*   - no frame is being received while the line is idle: the ones counted *)
(*     are in the shift register, and seven in a row end a frame;           *)
(*   - a frame that gets through whole is accepted at its last bit as it    *)
(*     was sent.  The receiver follows the sender through flag, flag, body  *)
(*     and flag; in the body the stuffed zeros are the ones it drops, and a *)
(*     flag cannot be in it, since no six ones come in a row.  The check    *)
(*     sum leaves its residue because the register is linear.              *)
(*                                                                         *)
(* The recursive functions of Hdlc are CHOOSE expressions: that the        *)
(* functions exist, and so satisfy their equations, is proved first.        *)
(***************************************************************************)
EXTENDS Hdlc, SequenceTheorems, WellFoundedInduction, TLAPS

Below == {p \in Nat \X Nat : p[1] < p[2]}

LEMMA BelowWellFounded == IsWellFoundedOn(Below, Nat)
BY NatLessThanWellFounded, Zenon DEF OpToRel, Below

LEMMA LeastExists ==
    ASSUME NEW S, S \subseteq Nat, S # {}
    PROVE  \E x \in S : \A y \in S : x <= y
<1>1. PICK x \in S : \A y \in S : ~ (<<y, x>> \in Below)
  BY WFMin, BelowWellFounded, Zenon
<1>2. \A a, b \in Nat : a < b => <<a, b>> \in Below
  BY DEF Below
<1>3. \A y \in S : ~ (y < x)
  BY <1>1, <1>2
<1> QED
  BY <1>3

(* A set of numbers with 0 and, with a number, the next, has all. *)
LEMMA Induction ==
    ASSUME NEW S, 0 \in S, \A n \in Nat : n \in S => n + 1 \in S
    PROVE  Nat \subseteq S
<1>1. SUFFICES ASSUME Nat \ S # {} PROVE FALSE
  OBVIOUS
<1>2. PICK x \in Nat \ S : \A y \in Nat \ S : x <= y
  BY <1>1, LeastExists
<1>3. x # 0 /\ x - 1 \in Nat
  BY <1>2
<1>4. x - 1 \in S
  BY <1>2, <1>3
<1> QED
  BY <1>2, <1>3, <1>4

-----------------------------------------------------------------------------
(* Definition by recursion: there is a function that meets the equations.  *)

Unrolled(T, base, step, n) ==
    {g \in [0..n -> T] : g[0] = base /\ \A m \in 0..(n - 1) : g[m + 1] = step[m][g[m]]}

Unfolds(f, T, base, step) ==
    f \in [Nat -> T] /\ f[0] = base /\ \A n \in Nat : f[n + 1] = step[n][f[n]]

LEMMA RecursionExists ==
    ASSUME NEW T, NEW base \in T, NEW step \in [Nat -> [T -> T]]
    PROVE  \E f : Unfolds(f, T, base, step)
<1> DEFINE U(n) == Unrolled(T, base, step, n)
           Some == {n \in Nat : U(n) # {}}
<1>1. 0 \in Some
  <2>1. [m \in 0..0 |-> base] \in U(0)
    BY DEF Unrolled
  <2> QED
    BY <2>1
<1>2. ASSUME NEW n \in Nat, n \in Some PROVE n + 1 \in Some
  <2>1. PICK g : g \in U(n)
    BY <1>2
  <2> DEFINE h == [m \in 0..(n + 1) |-> IF m = n + 1 THEN step[n][g[n]] ELSE g[m]]
  <2>2. g \in [0..n -> T] /\ g[0] = base /\ \A m \in 0..(n - 1) : g[m + 1] = step[m][g[m]]
    BY <2>1 DEF Unrolled
  <2>3. step[n][g[n]] \in T
    BY <2>2
  <2>4. h \in [0..(n + 1) -> T]
    BY <2>2, <2>3
  <2>5. h[0] = base
    BY <2>2
  <2>6. \A m \in 0..n : h[m + 1] = step[m][h[m]]
    <3>1. h[n + 1] = step[n][g[n]] /\ h[n] = g[n]
      OBVIOUS
    <3>2. ASSUME NEW m \in 0..n, m # n PROVE h[m + 1] = step[m][h[m]]
      <4>1. m \in 0..(n - 1) /\ m + 1 \in 0..n /\ m \in 0..n
        BY <3>2
      <4>2. h[m + 1] = g[m + 1] /\ h[m] = g[m]
        BY <4>1
      <4> HIDE DEF h
      <4> QED
        BY <2>2, <4>1, <4>2
    <3> HIDE DEF h
    <3> QED
      BY <3>1, <3>2
  <2>7. h \in U(n + 1)
    <3>1. 0..((n + 1) - 1) = 0..n
      OBVIOUS
    <3> HIDE DEF h
    <3> QED
      BY <2>4, <2>5, <2>6, <3>1 DEF Unrolled
  <2> QED
    BY <2>7
<1>3. \A n \in Nat : U(n) # {}
  <2> HIDE DEF U
  <2> QED
    BY <1>1, <1>2, Induction
<1>4. ASSUME NEW n \in Nat, NEW g \in U(n), NEW h \in U(n + 1) PROVE g[n] = h[n]
  <2> DEFINE Same == {m \in Nat : m <= n => g[m] = h[m]}
  <2>1. /\ g \in [0..n -> T] /\ g[0] = base
        /\ \A m \in 0..(n - 1) : g[m + 1] = step[m][g[m]]
        /\ h \in [0..(n + 1) -> T] /\ h[0] = base
        /\ \A m \in 0..n : h[m + 1] = step[m][h[m]]
    <3>1. 0..((n + 1) - 1) = 0..n
      OBVIOUS
    <3> QED
      BY <1>4, <3>1 DEF Unrolled
  <2>2. 0 \in Same
    BY <2>1
  <2>3. ASSUME NEW m \in Nat, m \in Same PROVE m + 1 \in Same
    <3>1. ASSUME m + 1 <= n PROVE g[m + 1] = h[m + 1]
      <4>1. m \in 0..(n - 1) /\ m \in 0..n /\ g[m] = h[m]
        BY <2>3, <3>1
      <4>2. g[m + 1] = step[m][g[m]] /\ h[m + 1] = step[m][h[m]]
        BY <2>1, <4>1
      <4> QED
        BY <4>1, <4>2
    <3> QED
      BY <3>1
  <2>4. Nat \subseteq Same
    <3> HIDE DEF Same
    <3> QED
      BY <2>2, <2>3, Induction
  <2> QED
    BY <2>4
<1> DEFINE pick[n \in Nat] == CHOOSE g : g \in U(n)
           f == [n \in Nat |-> pick[n][n]]
<1>5. \A n \in Nat : pick[n] \in U(n)
  BY <1>3
<1>6. f \in [Nat -> T]
  <2> HIDE DEF pick
  <2>1. ASSUME NEW n \in Nat PROVE pick[n] \in [0..n -> T] /\ n \in 0..n
    BY <1>5 DEF Unrolled
  <2> QED
    BY <2>1
<1>7. f[0] = base
  BY <1>5 DEF Unrolled
<1>8. ASSUME NEW n \in Nat PROVE f[n + 1] = step[n][f[n]]
  <2>1. pick[n + 1] \in U(n + 1) /\ pick[n] \in U(n)
    BY <1>5
  <2>2. pick[n][n] = pick[n + 1][n]
    BY <1>4, <2>1
  <2>3. pick[n + 1][n + 1] = step[n][pick[n + 1][n]]
    <3>1. n \in 0..((n + 1) - 1)
      OBVIOUS
    <3> HIDE DEF pick
    <3> QED
      BY <2>1, <3>1 DEF Unrolled
  <2>4. f[n + 1] = pick[n + 1][n + 1] /\ f[n] = pick[n][n]
    OBVIOUS
  <2> HIDE DEF f, pick
  <2> QED
    BY <2>2, <2>3, <2>4
<1> QED
  BY <1>6, <1>7, <1>8 DEF Unfolds

-----------------------------------------------------------------------------
(* The check sum. *)

LEMMA StepType ==
    ASSUME NEW c \in Register
    PROVE  /\ CrcStep(c) \in Register
           /\ \A i \in 0..15 : CrcStep(c)[i] =
                LET next == IF i = 15 THEN 0 ELSE c[i + 1]
                IN IF i \in {3, 10, 15} THEN Xor(next, c[0]) ELSE next
BY DEF CrcStep, Register, Bit, Xor

LEMMA ByteType ==
    ASSUME NEW c \in Register, NEW b
    PROVE  CrcByte(c, b) \in Register
<1>1. [i \in 0..15 |-> IF i <= 7 THEN Xor(c[i], b[i]) ELSE c[i]] \in Register
  BY DEF Register, Bit, Xor
<1>2. \A d \in Register : CrcNibble(d) \in Register
  BY StepType DEF CrcNibble
<1> QED
  BY <1>1, <1>2 DEF CrcByte

LEMMA CrcUnrolled ==
    ASSUME NEW bytes
    PROVE  /\ CrcAfter(bytes)[0] = AllOnes
           /\ \A n \in Nat : /\ CrcAfter(bytes)[n] \in Register
                             /\ CrcAfter(bytes)[n + 1] = CrcByte(CrcAfter(bytes)[n], bytes[n + 1])
<1> DEFINE step == [n \in Nat |-> [c \in Register |-> CrcByte(c, bytes[n + 1])]]
           Eq(f) == f = [n \in Nat |-> IF n = 0 THEN AllOnes ELSE CrcByte(f[n - 1], bytes[n])]
<1>1. step \in [Nat -> [Register -> Register]]
  BY ByteType
<1>2. AllOnes \in Register
  BY DEF AllOnes, Register, Bit
<1>3. PICK f : Unfolds(f, Register, AllOnes, step)
  <2> HIDE DEF step
  <2> QED
    BY <1>1, <1>2, RecursionExists
<1>4. /\ f \in [Nat -> Register] /\ f[0] = AllOnes
      /\ \A n \in Nat : f[n + 1] = CrcByte(f[n], bytes[n + 1])
  BY <1>3 DEF Unfolds
<1>5. ASSUME NEW n \in Nat
      PROVE  f[n] = IF n = 0 THEN AllOnes ELSE CrcByte(f[n - 1], bytes[n])
  <2>1. CASE n # 0
    <3>1. n - 1 \in Nat /\ n - 1 + 1 = n
      BY <2>1
    <3> QED
      BY <1>4, <2>1, <3>1
  <2> QED
    BY <1>4, <2>1
<1>6. Eq(f)
  BY <1>4, <1>5
<1>7. CrcAfter(bytes) = CHOOSE g : Eq(g)
  BY Zenon DEF CrcAfter
<1>8. Eq(CrcAfter(bytes))
  <2> HIDE DEF Eq
  <2> QED
    BY <1>6, <1>7
<1> DEFINE C == CrcAfter(bytes)
           Typed == {n \in Nat : C[n] \in Register}
<1> HIDE DEF C
<1>9. C[0] = AllOnes /\ \A n \in Nat : C[n + 1] = CrcByte(C[n], bytes[n + 1])
  <2>1. C = [n \in Nat |-> IF n = 0 THEN AllOnes ELSE CrcByte(C[n - 1], bytes[n])]
    BY <1>8 DEF C
  <2>2. C[0] = AllOnes
    BY <2>1
  <2>3. ASSUME NEW n \in Nat PROVE C[n + 1] = CrcByte(C[n], bytes[n + 1])
    <3>1. n + 1 \in Nat /\ n + 1 # 0 /\ (n + 1) - 1 = n
      OBVIOUS
    <3>2. C[n + 1] = IF n + 1 = 0 THEN AllOnes ELSE CrcByte(C[(n + 1) - 1], bytes[n + 1])
      BY <2>1, <3>1, Zenon
    <3> QED
      BY <3>1, <3>2
  <2> QED
    BY <2>2, <2>3
<1>10. 0 \in Typed
  BY <1>2, <1>9
<1>11. ASSUME NEW n \in Nat, n \in Typed PROVE n + 1 \in Typed
  BY <1>9, <1>11, ByteType
<1>12. Nat \subseteq Typed
  <2> HIDE DEF Typed
  <2> QED
    BY <1>10, <1>11, Induction
<1> QED
  BY <1>9, <1>12 DEF C

-----------------------------------------------------------------------------
(* The two bytes that follow a payload leave the residual in the register, *)
(* whatever it held.  What it held above a byte that turns the byte below   *)
(* it to ones is only shifted down: a step is linear.                       *)
Reg(S) == [i \in 0..15 |-> IF i \in S THEN 1 ELSE 0]
XorReg(a, b) == [i \in 0..15 |-> Xor(a[i], b[i])]
Above(c, j) == [i \in 0..15 |-> IF i + j \in 8..15 THEN c[i + j] ELSE 0]

LEMMA RegType == \A S : Reg(S) \in Register
BY DEF Reg, Register, Bit

LEMMA StepIsLinear ==
    ASSUME NEW c \in Register, NEW k \in Register, NEW j \in 0..7
    PROVE  CrcStep(XorReg(Above(c, j), k)) = XorReg(Above(c, j + 1), CrcStep(k))
<1> DEFINE x == XorReg(Above(c, j), k)
           y == XorReg(Above(c, j + 1), CrcStep(k))
<1>1. x \in Register
  BY DEF XorReg, Register, Bit, Xor
<1>2. x[0] = k[0]
  BY DEF XorReg, Above, Xor, Register, Bit
<1>3. ASSUME NEW i \in 0..15 PROVE CrcStep(x)[i] = y[i]
  <2>1. CASE i = 15
    <3>1. y[15] = CrcStep(k)[15]
      BY StepType DEF XorReg, Above, Xor, Register, Bit
    <3> QED
      BY <1>1, <1>2, <2>1, <3>1, StepType
  <2>2. CASE i # 15
    <3>1. i + 1 \in 0..15 /\ (i + 1) + j = i + (j + 1)
      BY <2>2
    <3>2. x[i + 1] = Xor(Above(c, j + 1)[i], k[i + 1])
      BY <3>1 DEF XorReg, Above
    <3>3. y[i] = Xor(Above(c, j + 1)[i], CrcStep(k)[i])
      BY DEF XorReg
    <3>4. Above(c, j + 1)[i] \in Bit /\ k[i + 1] \in Bit /\ k[0] \in Bit
      BY <3>1 DEF Above, Register, Bit
    <3> HIDE DEF x, y
    <3> QED
      BY <1>1, <1>2, <2>2, <3>2, <3>3, <3>4, StepType DEF Xor, Bit
  <2> QED
    BY <2>1, <2>2
<1> QED
  BY <1>3 DEF CrcStep, XorReg

LEMMA StepsOfOnes ==
    /\ CrcStep(Reg({0, 1, 2, 3, 4, 5, 6, 7})) = Reg({0, 1, 2, 4, 5, 6, 10, 15})
    /\ CrcStep(Reg({0, 1, 2, 4, 5, 6, 10, 15})) = Reg({0, 1, 4, 5, 9, 10, 14, 15})
    /\ CrcStep(Reg({0, 1, 4, 5, 9, 10, 14, 15})) = Reg({0, 4, 8, 9, 10, 13, 14, 15})
    /\ CrcStep(Reg({0, 4, 8, 9, 10, 13, 14, 15})) = Reg({7, 8, 9, 10, 12, 13, 14, 15})
    /\ CrcStep(Reg({7, 8, 9, 10, 12, 13, 14, 15})) = Reg({6, 7, 8, 9, 11, 12, 13, 14})
    /\ CrcStep(Reg({6, 7, 8, 9, 11, 12, 13, 14})) = Reg({5, 6, 7, 8, 10, 11, 12, 13})
    /\ CrcStep(Reg({5, 6, 7, 8, 10, 11, 12, 13})) = Reg({4, 5, 6, 7, 9, 10, 11, 12})
    /\ CrcStep(Reg({4, 5, 6, 7, 9, 10, 11, 12})) = Reg({3, 4, 5, 6, 8, 9, 10, 11})
BY DEF CrcStep, Reg, Xor

LEMMA StepsToResidual ==
    /\ CrcStep(Reg({0, 1, 2, 7, 8, 9, 10, 11})) = Reg({0, 1, 3, 6, 7, 8, 9, 15})
    /\ CrcStep(Reg({0, 1, 3, 6, 7, 8, 9, 15})) = Reg({0, 2, 3, 5, 6, 7, 8, 10, 14, 15})
    /\ CrcStep(Reg({0, 2, 3, 5, 6, 7, 8, 10, 14, 15}))
         = Reg({1, 2, 3, 4, 5, 6, 7, 9, 10, 13, 14, 15})
    /\ CrcStep(Reg({1, 2, 3, 4, 5, 6, 7, 9, 10, 13, 14, 15}))
         = Reg({0, 1, 2, 3, 4, 5, 6, 8, 9, 12, 13, 14})
    /\ CrcStep(Reg({0, 1, 2, 3, 4, 5, 6, 8, 9, 12, 13, 14}))
         = Reg({0, 1, 2, 4, 5, 7, 8, 10, 11, 12, 13, 15})
    /\ CrcStep(Reg({0, 1, 2, 4, 5, 7, 8, 10, 11, 12, 13, 15}))
         = Reg({0, 1, 4, 6, 7, 9, 11, 12, 14, 15})
    /\ CrcStep(Reg({0, 1, 4, 6, 7, 9, 11, 12, 14, 15})) = Reg({0, 5, 6, 8, 11, 13, 14, 15})
    /\ CrcStep(Reg({0, 5, 6, 8, 11, 13, 14, 15})) = Reg({3, 4, 5, 7, 12, 13, 14, 15})
BY DEF CrcStep, Reg, Xor

LEMMA FcsLeavesResidual ==
    ASSUME NEW c \in Register, NEW lo, NEW hi,
           \A i \in 0..7 : lo[i] = Xor(c[i], 1) /\ hi[i] = Xor(c[i + 8], 1)
    PROVE  CrcByte(CrcByte(c, lo), hi) = Residual
<1> DEFINE mid == XorReg(Above(c, 8), Reg({3, 4, 5, 6, 8, 9, 10, 11}))
<1>1. [i \in 0..15 |-> IF i <= 7 THEN Xor(c[i], lo[i]) ELSE c[i]]
        = XorReg(Above(c, 0), Reg({0, 1, 2, 3, 4, 5, 6, 7}))
  BY DEF XorReg, Above, Reg, Register, Bit, Xor
<1>2. \A j \in 0..7, k \in Register :
          CrcStep(XorReg(Above(c, j), k)) = XorReg(Above(c, j + 1), CrcStep(k))
  BY StepIsLinear
<1>3. CrcByte(c, lo) = mid
  <2>1. CrcNibble(XorReg(Above(c, 0), Reg({0, 1, 2, 3, 4, 5, 6, 7})))
          = XorReg(Above(c, 4), Reg({7, 8, 9, 10, 12, 13, 14, 15}))
    <3>1. CrcStep(XorReg(Above(c, 0), Reg({0, 1, 2, 3, 4, 5, 6, 7})))
            = XorReg(Above(c, 1), Reg({0, 1, 2, 4, 5, 6, 10, 15}))
      BY <1>2, RegType, StepsOfOnes
    <3>2. CrcStep(XorReg(Above(c, 1), Reg({0, 1, 2, 4, 5, 6, 10, 15})))
            = XorReg(Above(c, 2), Reg({0, 1, 4, 5, 9, 10, 14, 15}))
      BY <1>2, RegType, StepsOfOnes
    <3>3. CrcStep(XorReg(Above(c, 2), Reg({0, 1, 4, 5, 9, 10, 14, 15})))
            = XorReg(Above(c, 3), Reg({0, 4, 8, 9, 10, 13, 14, 15}))
      BY <1>2, RegType, StepsOfOnes
    <3>4. CrcStep(XorReg(Above(c, 3), Reg({0, 4, 8, 9, 10, 13, 14, 15})))
            = XorReg(Above(c, 4), Reg({7, 8, 9, 10, 12, 13, 14, 15}))
      BY <1>2, RegType, StepsOfOnes
    <3> QED
      BY <3>1, <3>2, <3>3, <3>4 DEF CrcNibble
  <2>2. CrcNibble(XorReg(Above(c, 4), Reg({7, 8, 9, 10, 12, 13, 14, 15}))) = mid
    <3>1. CrcStep(XorReg(Above(c, 4), Reg({7, 8, 9, 10, 12, 13, 14, 15})))
            = XorReg(Above(c, 5), Reg({6, 7, 8, 9, 11, 12, 13, 14}))
      BY <1>2, RegType, StepsOfOnes
    <3>2. CrcStep(XorReg(Above(c, 5), Reg({6, 7, 8, 9, 11, 12, 13, 14})))
            = XorReg(Above(c, 6), Reg({5, 6, 7, 8, 10, 11, 12, 13}))
      BY <1>2, RegType, StepsOfOnes
    <3>3. CrcStep(XorReg(Above(c, 6), Reg({5, 6, 7, 8, 10, 11, 12, 13})))
            = XorReg(Above(c, 7), Reg({4, 5, 6, 7, 9, 10, 11, 12}))
      BY <1>2, RegType, StepsOfOnes
    <3>4. CrcStep(XorReg(Above(c, 7), Reg({4, 5, 6, 7, 9, 10, 11, 12}))) = mid
      BY <1>2, RegType, StepsOfOnes
    <3> QED
      BY <3>1, <3>2, <3>3, <3>4 DEF CrcNibble
  <2> QED
    BY <1>1, <2>1, <2>2 DEF CrcByte
<1>4. [i \in 0..15 |-> IF i <= 7 THEN Xor(mid[i], hi[i]) ELSE mid[i]]
        = Reg({0, 1, 2, 7, 8, 9, 10, 11})
  <2>1. \A i \in 0..7 : Above(c, 8)[i] = c[i + 8] /\ c[i + 8] \in Bit
    BY DEF Above, Register
  <2>2. \A i \in 8..15 : Above(c, 8)[i] = 0
    BY DEF Above
  <2> QED
    BY <2>1, <2>2 DEF XorReg, Reg, Bit, Xor
<1>5. CrcByte(mid, hi) = Reg({3, 4, 5, 7, 12, 13, 14, 15})
  <2> HIDE DEF mid
  <2> QED
    BY <1>4, StepsToResidual DEF CrcByte, CrcNibble
<1> QED
  BY <1>3, <1>5 DEF Reg, Residual

(* What comes after a prefix does not matter to its check sum. *)
LEMMA CrcOfPrefix ==
    ASSUME NEW a, NEW b, NEW k \in Nat, \A i \in 1..k : a[i] = b[i]
    PROVE  CrcAfter(a)[k] = CrcAfter(b)[k]
<1> DEFINE Same == {n \in Nat : n <= k => CrcAfter(a)[n] = CrcAfter(b)[n]}
<1>1. 0 \in Same
  BY CrcUnrolled
<1>2. ASSUME NEW n \in Nat, n \in Same PROVE n + 1 \in Same
  BY <1>2, CrcUnrolled
<1>3. Nat \subseteq Same
  <2> HIDE DEF Same
  <2> QED
    BY <1>1, <1>2, Induction
<1> QED
  BY <1>3

LEMMA FrameOf ==
    ASSUME NEW p \in Seq(Byte)
    PROVE  /\ WithFcs(p) \in Seq(Byte)
           /\ Len(p) \in Nat /\ Len(WithFcs(p)) = Len(p) + 2
           /\ SubSeq(WithFcs(p), 1, Len(p)) = p
           /\ CrcAfter(WithFcs(p))[Len(p) + 2] = Residual
<1> DEFINE c == CrcAfter(p)[Len(p)]
           fcs == [i \in 0..15 |-> Xor(c[i], 1)]
           lo == [i \in 0..7 |-> fcs[i]]
           hi == [i \in 0..7 |-> fcs[i + 8]]
<1>1. Len(p) \in Nat /\ c \in Register
  BY CrcUnrolled, LenProperties
<1>2. WithFcs(p) = p \o <<lo, hi>>
  BY DEF WithFcs
<1>3. /\ lo \in Byte /\ hi \in Byte
      /\ \A i \in 0..7 : lo[i] = Xor(c[i], 1) /\ hi[i] = Xor(c[i + 8], 1)
  BY DEF Byte, Bit, Xor
<1> HIDE DEF c, lo, hi
<1>4. /\ WithFcs(p) \in Seq(Byte) /\ Len(WithFcs(p)) = Len(p) + 2
      /\ \A i \in 1..Len(p) : WithFcs(p)[i] = p[i]
      /\ WithFcs(p)[Len(p) + 1] = lo /\ WithFcs(p)[Len(p) + 2] = hi
  <2>1. <<lo, hi>> \in Seq(Byte) /\ Len(<<lo, hi>>) = 2
    BY <1>3
  <2> QED
    BY <1>1, <1>2, <2>1, ConcatProperties, LenProperties
<1>5. SubSeq(WithFcs(p), 1, Len(p)) = p
  <2>1. /\ SubSeq(WithFcs(p), 1, Len(p)) \in Seq(Byte)
        /\ Len(SubSeq(WithFcs(p), 1, Len(p))) = Len(p)
        /\ \A i \in 1..Len(p) : SubSeq(WithFcs(p), 1, Len(p))[i] = WithFcs(p)[i]
    BY <1>1, <1>4, SubSeqProperties
  <2> QED
    BY <1>4, <2>1, SeqEqual
<1>6. CrcAfter(WithFcs(p))[Len(p)] = c
  BY <1>1, <1>4, CrcOfPrefix DEF c
<1>7. CrcAfter(WithFcs(p))[Len(p) + 1] = CrcByte(c, lo)
  BY <1>1, <1>4, <1>6, CrcUnrolled
<1>8. CrcAfter(WithFcs(p))[Len(p) + 2] = CrcByte(CrcByte(c, lo), hi)
  <2>1. Len(p) + 1 \in Nat /\ (Len(p) + 1) + 1 = Len(p) + 2
    BY <1>1
  <2> QED
    BY <1>4, <1>7, <2>1, CrcUnrolled
<1>9. CrcByte(CrcByte(c, lo), hi) = Residual
  BY <1>1, <1>3, FcsLeavesResidual
<1> QED
  BY <1>1, <1>4, <1>5, <1>8, <1>9

-----------------------------------------------------------------------------
(* The bits on the line. *)
SoFar == [bits : Seq(Bit), ones : 0..4]

LEMMA AddBitType ==
    ASSUME NEW s \in SoFar, NEW b
    PROVE  AddBit(s, b) \in SoFar
<1>1. s.bits \in Seq(Bit) /\ s.ones \in 0..4
  BY DEF SoFar
<1>2. s.bits \o <<1, 0>> \in Seq(Bit)
  <2>1. <<1, 0>> \in Seq(Bit)
    BY DEF Bit
  <2> QED
    BY <1>1, <2>1, ConcatProperties
<1>3. Append(s.bits, 0) \in Seq(Bit) /\ Append(s.bits, 1) \in Seq(Bit)
  BY <1>1, AppendProperties DEF Bit
<1> QED
  BY <1>1, <1>2, <1>3 DEF AddBit, SoFar

LEMMA StuffedUnrolled ==
    ASSUME NEW bytes
    PROVE  /\ Stuffed(bytes)[0] = [bits |-> <<>>, ones |-> 0]
           /\ \A n \in Nat : /\ Stuffed(bytes)[n] \in SoFar
                             /\ Stuffed(bytes)[n + 1]
                                  = AddBit(Stuffed(bytes)[n], BitAt(bytes, n + 1))
<1> DEFINE none == [bits |-> <<>>, ones |-> 0]
           step == [n \in Nat |-> [s \in SoFar |-> AddBit(s, BitAt(bytes, n + 1))]]
           Eq(f) == f = [n \in Nat |-> IF n = 0 THEN [bits |-> <<>>, ones |-> 0]
                                        ELSE AddBit(f[n - 1], BitAt(bytes, n))]
<1>1. step \in [Nat -> [SoFar -> SoFar]]
  BY AddBitType
<1>2. none \in SoFar
  BY EmptySeq DEF SoFar
<1>3. PICK f : Unfolds(f, SoFar, none, step)
  <2> HIDE DEF step, none
  <2> QED
    BY <1>1, <1>2, RecursionExists
<1> HIDE DEF none
<1>4. /\ f \in [Nat -> SoFar] /\ f[0] = none
      /\ \A n \in Nat : f[n + 1] = AddBit(f[n], BitAt(bytes, n + 1))
  BY <1>3 DEF Unfolds
<1>5. ASSUME NEW n \in Nat
      PROVE  f[n] = IF n = 0 THEN none ELSE AddBit(f[n - 1], BitAt(bytes, n))
  <2>1. CASE n # 0
    <3>1. n - 1 \in Nat /\ n - 1 + 1 = n
      BY <2>1
    <3> QED
      BY <1>4, <2>1, <3>1
  <2> QED
    BY <1>4, <2>1
<1>6. Eq(f)
  BY <1>4, <1>5 DEF none
<1>7. Stuffed(bytes) = CHOOSE g : Eq(g)
  BY Zenon DEF Stuffed
<1>8. Eq(Stuffed(bytes))
  <2> HIDE DEF Eq
  <2> QED
    BY <1>6, <1>7
<1> DEFINE A == Stuffed(bytes)
           Typed == {n \in Nat : A[n] \in SoFar}
<1> HIDE DEF A
<1>9. A[0] = none /\ \A n \in Nat : A[n + 1] = AddBit(A[n], BitAt(bytes, n + 1))
  <2>1. A = [n \in Nat |-> IF n = 0 THEN none ELSE AddBit(A[n - 1], BitAt(bytes, n))]
    BY <1>8 DEF A, none
  <2>2. A[0] = none
    BY <2>1
  <2>3. ASSUME NEW n \in Nat PROVE A[n + 1] = AddBit(A[n], BitAt(bytes, n + 1))
    <3>1. n + 1 \in Nat /\ n + 1 # 0 /\ (n + 1) - 1 = n
      OBVIOUS
    <3>2. A[n + 1] = IF n + 1 = 0 THEN none ELSE AddBit(A[(n + 1) - 1], BitAt(bytes, n + 1))
      BY <2>1, <3>1, Zenon
    <3> QED
      BY <3>1, <3>2
  <2> QED
    BY <2>2, <2>3
<1>10. 0 \in Typed
  BY <1>2, <1>9
<1>11. ASSUME NEW n \in Nat, n \in Typed PROVE n + 1 \in Typed
  BY <1>9, <1>11, AddBitType
<1>12. Nat \subseteq Typed
  <2> HIDE DEF Typed
  <2> QED
    BY <1>10, <1>11, Induction
<1> QED
  BY <1>9, <1>12 DEF A, none

(* What a bit adds, and that what was there stays. *)
AddsStuffed(a, b) ==
  /\ a.ones = 4 /\ b.ones = 0
  /\ Len(b.bits) = Len(a.bits) + 2
  /\ b.bits[Len(a.bits) + 1] = 1 /\ b.bits[Len(a.bits) + 2] = 0
AddsOne(a, b) ==
  /\ a.ones < 4 /\ b.ones = a.ones + 1
  /\ Len(b.bits) = Len(a.bits) + 1 /\ b.bits[Len(a.bits) + 1] = 1
AddsZero(a, b) ==
  /\ b.ones = 0
  /\ Len(b.bits) = Len(a.bits) + 1 /\ b.bits[Len(a.bits) + 1] = 0
Keeps(a, b) ==
  /\ Len(a.bits) \in Nat /\ Len(a.bits) < Len(b.bits)
  /\ \A i \in 1..Len(a.bits) : b.bits[i] = a.bits[i]

LEMMA AddBitAdds ==
    ASSUME NEW a \in SoFar, NEW next, NEW b, b = AddBit(a, next)
    PROVE  /\ Keeps(a, b)
           /\ IF next = 1 THEN AddsStuffed(a, b) \/ AddsOne(a, b) ELSE AddsZero(a, b)
<1>1. a.bits \in Seq(Bit) /\ a.ones \in 0..4 /\ Len(a.bits) \in Nat
  BY LenProperties DEF SoFar
<1>2. CASE next = 1 /\ a.ones = 4
  <2>1. b = [bits |-> a.bits \o <<1, 0>>, ones |-> 0]
    BY <1>2 DEF AddBit
  <2>2. <<1, 0>> \in Seq(Bit) /\ Len(<<1, 0>>) = 2
    BY DEF Bit
  <2>3. /\ b.ones = 0 /\ Len(b.bits) = Len(a.bits) + 2
        /\ \A i \in 1..(Len(a.bits) + 2) :
               b.bits[i] = IF i <= Len(a.bits) THEN a.bits[i] ELSE <<1, 0>>[i - Len(a.bits)]
    BY <1>1, <2>1, <2>2, ConcatProperties
  <2>4. b.bits[Len(a.bits) + 1] = 1 /\ b.bits[Len(a.bits) + 2] = 0
    <3> DEFINE l == Len(a.bits)
    <3>1. /\ l + 1 \in 1..(l + 2) /\ ~(l + 1 <= l) /\ (l + 1) - l = 1
          /\ l + 2 \in 1..(l + 2) /\ ~(l + 2 <= l) /\ (l + 2) - l = 2
      BY <1>1
    <3>2. <<1, 0>>[1] = 1 /\ <<1, 0>>[2] = 0
      OBVIOUS
    <3>3. b.bits[l + 1] = <<1, 0>>[(l + 1) - l] /\ b.bits[l + 2] = <<1, 0>>[(l + 2) - l]
      <4> HIDE DEF l
      <4> QED
        BY <2>3, <3>1 DEF l
    <3> QED
      BY <3>1, <3>2, <3>3
  <2>5. \A i \in 1..Len(a.bits) : b.bits[i] = a.bits[i]
    BY <1>1, <2>3
  <2>6. Len(a.bits) < Len(b.bits)
    BY <1>1, <2>3
  <2> QED
    BY <1>1, <1>2, <2>3, <2>4, <2>5, <2>6 DEF Keeps, AddsStuffed
<1>3. ASSUME NEW x \in Bit, b.bits = Append(a.bits, x)
      PROVE  /\ Len(b.bits) = Len(a.bits) + 1 /\ b.bits[Len(a.bits) + 1] = x
             /\ Keeps(a, b)
  <2>1. /\ Len(b.bits) = Len(a.bits) + 1 /\ b.bits[Len(a.bits) + 1] = x
        /\ \A i \in 1..Len(a.bits) : b.bits[i] = a.bits[i]
    BY <1>1, <1>3, AppendProperties
  <2> QED
    BY <1>1, <2>1 DEF Keeps
<1>4. CASE next = 1 /\ a.ones # 4
  <2>1. b.bits = Append(a.bits, 1) /\ b.ones = a.ones + 1 /\ a.ones < 4 /\ 1 \in Bit
    BY <1>1, <1>4 DEF AddBit, Bit
  <2> QED
    BY <1>3, <1>4, <2>1 DEF AddsOne
<1>5. CASE next # 1
  <2>1. b.bits = Append(a.bits, 0) /\ b.ones = 0 /\ 0 \in Bit
    BY <1>5 DEF AddBit, Bit
  <2> QED
    BY <1>3, <1>5, <2>1 DEF AddsZero
<1> QED
  BY <1>2, <1>4, <1>5

LEMMA StuffedNext ==
    ASSUME NEW bytes, NEW n \in Nat
    PROVE  /\ Stuffed(bytes)[n].ones \in 0..4
           /\ Keeps(Stuffed(bytes)[n], Stuffed(bytes)[n + 1])
           /\ IF BitAt(bytes, n + 1) = 1
              THEN \/ AddsStuffed(Stuffed(bytes)[n], Stuffed(bytes)[n + 1])
                   \/ AddsOne(Stuffed(bytes)[n], Stuffed(bytes)[n + 1])
              ELSE AddsZero(Stuffed(bytes)[n], Stuffed(bytes)[n + 1])
<1>1. /\ Stuffed(bytes)[n] \in SoFar
      /\ Stuffed(bytes)[n + 1] = AddBit(Stuffed(bytes)[n], BitAt(bytes, n + 1))
  BY StuffedUnrolled
<1>2. Stuffed(bytes)[n].ones \in 0..4
  BY <1>1 DEF SoFar
<1> QED
  BY <1>1, <1>2, AddBitAdds

LEMMA StuffedPrefix ==
    ASSUME NEW bytes, NEW n \in Nat, NEW m \in Nat, n <= m
    PROVE  /\ Len(Stuffed(bytes)[n].bits) <= Len(Stuffed(bytes)[m].bits)
           /\ \A i \in 1..Len(Stuffed(bytes)[n].bits) :
                  Stuffed(bytes)[m].bits[i] = Stuffed(bytes)[n].bits[i]
<1> DEFINE B(k) == Stuffed(bytes)[k].bits
           Kept == {k \in Nat : n <= k => /\ Len(B(n)) <= Len(B(k))
                                          /\ \A i \in 1..Len(B(n)) : B(k)[i] = B(n)[i]}
<1>1. \A k \in Nat : /\ Len(B(k)) \in Nat /\ Len(B(k)) <= Len(B(k + 1))
                     /\ \A i \in 1..Len(B(k)) : B(k + 1)[i] = B(k)[i]
  <2>1. ASSUME NEW k \in Nat PROVE Keeps(Stuffed(bytes)[k], Stuffed(bytes)[k + 1])
    BY StuffedNext
  <2>2. ASSUME NEW k \in Nat
        PROVE  Len(B(k)) \in Nat /\ Len(B(k)) < Len(B(k + 1))
    BY <2>1 DEF Keeps
  <2>3. ASSUME NEW k \in Nat, NEW i \in 1..Len(B(k)) PROVE B(k + 1)[i] = B(k)[i]
    BY <2>1 DEF Keeps
  <2>4. ASSUME NEW k \in Nat PROVE Len(B(k)) <= Len(B(k + 1))
    <3>1. Len(B(k)) \in Nat /\ Len(B(k)) < Len(B(k + 1))
      BY <2>2
    <3>2. k + 1 \in Nat
      OBVIOUS
    <3>3. Len(B(k + 1)) \in Nat
      BY <2>2, <3>2
    <3> QED
      BY <3>1, <3>3
  <2> QED
    BY <2>2, <2>3, <2>4
<1> HIDE DEF B
<1>2. 0 \in Kept
  <2>1. n <= 0 => n = 0
    OBVIOUS
  <2>2. Len(B(0)) <= Len(B(0))
    BY <1>1
  <2> QED
    BY <2>1, <2>2
<1>3. ASSUME NEW k \in Nat, k \in Kept PROVE k + 1 \in Kept
  <2>1. CASE n = k + 1
    BY <1>1, <2>1
  <2>2. CASE n > k + 1
    BY <2>2
  <2>3. CASE n <= k
    <3>1. Len(B(n)) <= Len(B(k)) /\ \A i \in 1..Len(B(n)) : B(k)[i] = B(n)[i]
      BY <1>3, <2>3
    <3>2. \A i \in 1..Len(B(n)) : i \in 1..Len(B(k))
      BY <1>1, <3>1
    <3>3. Len(B(n)) <= Len(B(k + 1))
      BY <1>1, <3>1
    <3>4. \A i \in 1..Len(B(n)) : B(k + 1)[i] = B(n)[i]
      BY <1>1, <3>1, <3>2
    <3> QED
      BY <3>3, <3>4
  <2> QED
    BY <2>1, <2>2, <2>3
<1>4. Nat \subseteq Kept
  <2> HIDE DEF Kept
  <2> QED
    BY <1>2, <1>3, Induction
<1> QED
  BY <1>4 DEF B

(* Where the elements of a concatenation are. *)
LEMMA Joined ==
    ASSUME NEW a \in Seq(Bit), NEW b \in Seq(Bit)
    PROVE  /\ a \o b \in Seq(Bit) /\ Len(a \o b) = Len(a) + Len(b)
           /\ \A i \in 1..Len(a) : (a \o b)[i] = a[i]
           /\ \A i \in 1..Len(b) : (a \o b)[i + Len(a)] = b[i]
<1>1. Len(a) \in Nat /\ Len(b) \in Nat
  BY LenProperties
<1>2. /\ a \o b \in Seq(Bit) /\ Len(a \o b) = Len(a) + Len(b)
      /\ \A i \in 1..(Len(a) + Len(b)) :
             (a \o b)[i] = IF i <= Len(a) THEN a[i] ELSE b[i - Len(a)]
  BY ConcatProperties
<1>3. ASSUME NEW i \in 1..Len(a) PROVE (a \o b)[i] = a[i]
  <2>1. i \in 1..(Len(a) + Len(b)) /\ i <= Len(a)
    BY <1>1
  <2> QED
    BY <1>2, <2>1
<1>4. ASSUME NEW i \in 1..Len(b) PROVE (a \o b)[i + Len(a)] = b[i]
  <2>1. /\ i + Len(a) \in 1..(Len(a) + Len(b)) /\ ~(i + Len(a) <= Len(a))
        /\ (i + Len(a)) - Len(a) = i
    BY <1>1
  <2>2. (a \o b)[i + Len(a)] = b[(i + Len(a)) - Len(a)]
    BY <1>2, <2>1
  <2> QED
    BY <2>1, <2>2
<1> QED
  BY <1>2, <1>3, <1>4

(* Where the bits of a frame are. *)
Framed(line, s) ==
  /\ line \in Seq(Bit) /\ Len(s) \in Nat /\ Len(line) = Len(s) + 24
  /\ \A i \in 1..8 : line[i] = Flag[i] /\ line[i + 8] = Flag[i]
  /\ \A i \in 1..Len(s) : line[i + 16] = s[i]
  /\ \A i \in 1..8 : line[i + (16 + Len(s))] = Flag[i]

LEMMA LineOf ==
    ASSUME NEW f, NEW n \in Nat, n = 8 * Len(f)
    PROVE  Framed(FrameBits(f), Stuffed(f)[n].bits)
<1> DEFINE s == Stuffed(f)[n].bits
           opening == Flag \o Flag
           body == opening \o s
           line == body \o Flag
<1>1. s \in Seq(Bit) /\ Len(s) \in Nat
  BY StuffedUnrolled, LenProperties DEF SoFar
<1>2. FrameBits(f) = line
  BY DEF FrameBits
<1>3. Flag \in Seq(Bit) /\ Len(Flag) = 8
  BY DEF Flag, Bit
<1> HIDE DEF s
<1>4. /\ opening \in Seq(Bit) /\ Len(opening) = Len(Flag) + Len(Flag)
      /\ \A i \in 1..Len(Flag) : opening[i] = Flag[i]
      /\ \A i \in 1..Len(Flag) : opening[i + Len(Flag)] = Flag[i]
  BY <1>3, Joined
<1> HIDE DEF opening
<1>5. /\ body \in Seq(Bit) /\ Len(body) = Len(opening) + Len(s)
      /\ \A i \in 1..Len(opening) : body[i] = opening[i]
      /\ \A i \in 1..Len(s) : body[i + Len(opening)] = s[i]
  BY <1>1, <1>4, Joined
<1> HIDE DEF body
<1>6. /\ line \in Seq(Bit) /\ Len(line) = Len(body) + Len(Flag)
      /\ \A i \in 1..Len(body) : line[i] = body[i]
      /\ \A i \in 1..Len(Flag) : line[i + Len(body)] = Flag[i]
  BY <1>3, <1>5, Joined
<1> HIDE DEF line
<1>7. Len(opening) = 16 /\ Len(body) = 16 + Len(s) /\ Len(line) = Len(s) + 24
  BY <1>1, <1>3, <1>4, <1>5, <1>6
<1>8. ASSUME NEW i \in 1..16 PROVE line[i] = opening[i]
  <2>1. i \in 1..Len(opening) /\ i \in 1..Len(body)
    BY <1>1, <1>7
  <2> QED
    BY <1>5, <1>6, <2>1
<1>9. ASSUME NEW i \in 1..8 PROVE line[i] = Flag[i] /\ line[i + 8] = Flag[i]
  <2>1. i \in 1..16 /\ i + 8 \in 1..16 /\ i \in 1..Len(Flag)
    BY <1>3
  <2>2. opening[i] = Flag[i] /\ opening[i + 8] = Flag[i]
    BY <1>3, <1>4, <2>1
  <2> QED
    BY <1>8, <2>1, <2>2
<1>10. ASSUME NEW i \in 1..Len(s) PROVE line[i + 16] = s[i]
  <2>1. i + 16 \in 1..Len(body)
    BY <1>1, <1>7
  <2> QED
    BY <1>5, <1>6, <1>7, <2>1
<1>11. ASSUME NEW i \in 1..8 PROVE line[i + (16 + Len(s))] = Flag[i]
  BY <1>3, <1>6, <1>7
<1> QED
  BY <1>1, <1>2, <1>6, <1>7, <1>9, <1>10, <1>11 DEF s, Framed

-----------------------------------------------------------------------------
(* The shift register. *)

(* The last k bits are a zero and then ones. *)
Low(x, k) ==
  CASE k = 0 -> TRUE
    [] k = 1 -> x % 2 = 0
    [] k = 2 -> x % 4 = 1
    [] k = 3 -> x % 8 = 3
    [] k = 4 -> x % 16 = 7
    [] k = 5 -> x % 32 = 15
    [] k = 6 -> x % 64 = 31
    [] k = 7 -> x % 128 = 63

Plain(x) == x \notin {126, 127} /\ x % 64 # 62

LEMMA Halves ==
    ASSUME NEW x \in 0..255, NEW c \in Bit
    PROVE  (2 * x + c) % 256 = IF x < 128 THEN 2 * x + c ELSE 2 * x + c - 256
BY DEF Bit

(* One more one, and a zero that ends no flag and is not stuffed. *)
LEMMA OneMore ==
    ASSUME NEW x \in 0..255, NEW k \in 1..6, Low(x, k)
    PROVE  Low((2 * x + 1) % 256, k + 1) /\ Plain((2 * x + 1) % 256)
<1> DEFINE y == (2 * x + 1) % 256
<1>1. y = IF x < 128 THEN 2 * x + 1 ELSE 2 * x + 1 - 256
  BY Halves DEF Bit
<1> HIDE DEF y
<1>3. k = 1 => Low(y, 2) /\ Plain(y)
  BY <1>1 DEF Low, Plain
<1>4. k = 2 => Low(y, 3) /\ Plain(y)
  BY <1>1 DEF Low, Plain
<1>5. k = 3 => Low(y, 4) /\ Plain(y)
  BY <1>1 DEF Low, Plain
<1>6. k = 4 => Low(y, 5) /\ Plain(y)
  BY <1>1 DEF Low, Plain
<1>7. k = 5 => Low(y, 6) /\ Plain(y)
  BY <1>1 DEF Low, Plain
<1>8. k = 6 => Low(y, 7) /\ Plain(y)
  BY <1>1 DEF Low, Plain
<1> QED
  BY <1>3, <1>4, <1>5, <1>6, <1>7, <1>8 DEF y

LEMMA ZeroLow ==
    ASSUME NEW x \in 0..255
    PROVE  Low((2 * x) % 256, 1)
<1> DEFINE y == (2 * x) % 256
<1>1. y = IF x < 128 THEN 2 * x ELSE 2 * x - 256
  BY Halves DEF Bit
<1> HIDE DEF y
<1> QED
  BY <1>1 DEF Low, y

LEMMA ZeroPlain ==
    ASSUME NEW x \in 0..255, x = 126 \/ \E k \in 1..5 : Low(x, k)
    PROVE  Plain((2 * x) % 256)
<1> DEFINE y == (2 * x) % 256
<1>1. y = IF x < 128 THEN 2 * x ELSE 2 * x - 256
  BY Halves DEF Bit
<1> HIDE DEF y
<1> QED
  BY <1>1 DEF Low, Plain, y

(* A zero after five ones, and one after six. *)
LEMMA ZeroStuffed ==
    ASSUME NEW x \in 0..255, Low(x, 6)
    PROVE  (2 * x) % 256 # 126 /\ (2 * x) % 256 # 127 /\ ((2 * x) % 256) % 64 = 62
<1> DEFINE y == (2 * x) % 256
<1>1. y = IF x < 128 THEN 2 * x ELSE 2 * x - 256
  BY Halves DEF Bit
<1> HIDE DEF y
<1> QED
  BY <1>1 DEF Low, y

LEMMA ZeroFlag ==
    ASSUME NEW x \in 0..255, Low(x, 7)
    PROVE  (2 * x) % 256 = 126
<1> DEFINE y == (2 * x) % 256
<1>1. y = IF x < 128 THEN 2 * x ELSE 2 * x - 256
  BY Halves DEF Bit
<1> HIDE DEF y
<1> QED
  BY <1>1 DEF Low, y

(* How many whole bytes the bits are. *)
LEMMA Eighths ==
    ASSUME NEW n \in Nat
    PROVE  /\ n \div 8 \in Nat /\ n % 8 \in 0..7 /\ n = 8 * (n \div 8) + (n % 8)
           /\ n % 8 < 7 => (n + 1) \div 8 = n \div 8 /\ (n + 1) % 8 = (n % 8) + 1
           /\ n % 8 = 7 => (n + 1) \div 8 = n \div 8 + 1 /\ (n + 1) % 8 = 0
OBVIOUS

-----------------------------------------------------------------------------
(* Types. *)
Typed ==
  TypeOK /\ (InFlight => payload \in Payloads /\ place \in 1..Len(Line[payload]))

LEMMA PayloadLine ==
    ASSUME NEW p \in Payloads
    PROVE  /\ p \in Seq(Byte) /\ Line[p] = FrameBits(WithFcs(p))
           /\ Line[p] \in Seq(Bit) /\ Len(Line[p]) \in Nat /\ Len(Line[p]) >= 24
           /\ \A i \in 1..Len(Line[p]) : Line[p][i] \in Bit
<1>1. p \in Seq(Byte)
  BY HdlcAssumption
<1>2. Line[p] = FrameBits(WithFcs(p))
  BY DEF Line
<1>3. Len(WithFcs(p)) \in Nat /\ 8 * Len(WithFcs(p)) \in Nat
  BY <1>1, FrameOf
<1>4. /\ FrameBits(WithFcs(p)) \in Seq(Bit)
      /\ Len(Stuffed(WithFcs(p))[8 * Len(WithFcs(p))].bits) \in Nat
      /\ Len(FrameBits(WithFcs(p))) = Len(Stuffed(WithFcs(p))[8 * Len(WithFcs(p))].bits) + 24
  BY <1>3, LineOf DEF Framed
<1>5. \A i \in 1..Len(Line[p]) : Line[p][i] \in Bit
  BY <1>2, <1>4, ElementOfSeq
<1> QED
  BY <1>1, <1>2, <1>4, <1>5

LEMMA TypedInit == Init => Typed
<1> SUFFICES ASSUME Init PROVE Typed
  OBVIOUS
<1>1. ZeroByte \in Byte /\ NoBits \in Register
  BY DEF ZeroByte, NoBits, Byte, Register, Bit
<1>2. <<>> \in Seq(Byte) /\ Len(<<>>) = 0 /\ 0 < ECONET_MTU
  BY HdlcAssumption, EmptySeq
<1>3. data \in Byte /\ crc \in Register /\ buf \in Seq(Byte) /\ Len(buf) < ECONET_MTU
  BY <1>1, <1>2 DEF Init
<1>4. ~InFlight
  BY DEF Init, InFlight
<1>5. active \in BOOLEAN /\ own \in BOOLEAN
  BY Zenon DEF Init
<1> QED
  BY <1>3, <1>4, <1>5 DEF Init, Typed, TypeOK, IdleBits

(* What a bit does to the receiver's own state. *)
Receiver ==
  /\ shift \in 0..255 /\ data \in Byte /\ crc \in Register
  /\ active \in BOOLEAN /\ ones \in 0..IdleBits
  /\ bit \in 0..7 /\ buf \in Seq(Byte) /\ Len(buf) < ECONET_MTU

LEMMA BitType ==
    ASSUME Receiver, NEW c \in Bit, ClkBit(c)
    PROVE  Receiver'
<1>1. shift' \in 0..255 /\ ones' \in 0..IdleBits
  BY DEF Receiver, ClkBit, Shifted, CountOnes, Bit, IdleBits
<1>2. ZeroByte \in Byte /\ NoBits \in Register /\ AllOnes \in Register
  BY DEF ZeroByte, NoBits, AllOnes, Byte, Register, Bit
<1>3. <<>> \in Seq(Byte) /\ Len(<<>>) = 0 /\ 0 < ECONET_MTU
  BY HdlcAssumption, EmptySeq
<1> DEFINE Rest == data' \in Byte /\ crc' \in Register /\ active' \in BOOLEAN /\ bit' \in 0..7
                   /\ buf' \in Seq(Byte) /\ Len(buf') < ECONET_MTU
<1>4. ASSUME EndFrame PROVE Rest
  <2>1. /\ active' = FALSE /\ data' = ZeroByte /\ bit' = 0 /\ crc' = NoBits
        /\ buf' = <<>>
    BY <1>4 DEF EndFrame
  <2>2. active' \in BOOLEAN
    BY <2>1, Zenon
  <2> QED
    BY <1>2, <1>3, <2>1, <2>2
<1>5. ASSUME BeginFrame PROVE Rest
  BY <1>2, <1>3, <1>5 DEF BeginFrame, Receiver
<1>6. ASSUME UNCHANGED <<data, bit, active, buf, crc>> PROVE Rest
  BY <1>6 DEF Receiver
<1>7. CASE FlagSeen
  BY <1>1, <1>4, <1>5, <1>7 DEF FlagSeen, CompleteFrame, Receiver
<1>8. CASE NotInFrame
  BY <1>1, <1>6, <1>8 DEF NotInFrame, Receiver
<1>9. CASE AbortSeen
  BY <1>1, <1>4, <1>9 DEF AbortSeen, Receiver
<1>10. CASE StuffedBit
  BY <1>1, <1>6, <1>10 DEF StuffedBit, Receiver
<1>11. CASE DataBit(c)
  <2> DEFINE byte == [i \in 0..7 |-> IF i = 7 THEN c ELSE data[i + 1]]
  <2>1. byte \in Byte
    BY DEF Receiver, Byte
  <2> HIDE DEF byte
  <2>2. CASE bit < 7 /\ data' = byte /\ bit' = bit + 1 /\ UNCHANGED <<active, buf, crc>>
    BY <1>1, <2>1, <2>2 DEF Receiver
  <2>3. CASE EndFrame
    BY <1>1, <1>4, <2>3 DEF Receiver
  <2>4. CASE /\ ~Oversize(Len(buf) + 1) /\ data' = byte /\ bit' = 0
             /\ buf' = Append(buf, byte) /\ crc' = CrcByte(crc, byte) /\ UNCHANGED active
    <3>1. buf' \in Seq(Byte) /\ Len(buf') = Len(buf) + 1 /\ Len(buf) \in Nat
      BY <2>1, <2>4, AppendProperties, LenProperties DEF Receiver
    <3>2. Len(buf') < ECONET_MTU
      BY <2>4, <3>1, HdlcAssumption DEF Oversize, Receiver
    <3>3. crc' \in Register
      BY <2>4, ByteType DEF Receiver
    <3> QED
      BY <1>1, <2>1, <2>4, <3>1, <3>2, <3>3 DEF Receiver
  <2> QED
    BY <1>11, <2>2, <2>3, <2>4 DEF DataBit, byte
<1> QED
  BY <1>7, <1>8, <1>9, <1>10, <1>11 DEF ClkBit

LEMMA TypedStep == Typed /\ [Next]_vars => Typed'
<1> SUFFICES ASSUME Typed, [Next]_vars PROVE Typed'
  OBVIOUS
<1>1. Receiver /\ place \in Nat /\ own \in BOOLEAN /\ sent \subseteq Payloads
  BY DEF Typed, TypeOK, Receiver
<1>2. ASSUME InFlight PROVE /\ payload \in Payloads /\ place \in 1..Len(Line[payload])
                            /\ Coming \in Bit /\ 1 - Coming \in Bit
                            /\ Len(Line[payload]) \in Nat
  <2>1. payload \in Payloads /\ place \in 1..Len(Line[payload])
    BY <1>2 DEF Typed
  <2>2. Coming \in Bit
    BY <2>1, PayloadLine DEF Coming
  <2> QED
    BY <2>1, <2>2, PayloadLine DEF Bit
<1>3. ASSUME InFlight, Onward, payload' = payload
      PROVE  place' \in Nat /\ (InFlight' => /\ payload' \in Payloads
                                             /\ place' \in 1..Len(Line[payload']))
  BY <1>1, <1>2, <1>3 DEF Onward, InFlight
<1>4. CASE \E p \in Payloads : Send(p)
  <2>1. PICK p \in Payloads : Send(p)
    BY <1>4
  <2>2. Len(Line[p]) \in Nat /\ Len(Line[p]) >= 24
    BY PayloadLine
  <2>3. Receiver' /\ place' = 1 /\ own' \in BOOLEAN /\ payload' = p /\ sent' \subseteq Payloads
    BY <1>1, <2>1 DEF Send, Receiver
  <2>4. place' \in 1..Len(Line[payload'])
    BY <2>2, <2>3
  <2> QED
    BY <2>3, <2>4 DEF Typed, TypeOK, Receiver, InFlight
<1>5. CASE Receive
  <2>1. Receiver' /\ own' \in BOOLEAN /\ sent' \subseteq Payloads
    BY <1>1, <1>2, <1>5, BitType DEF Receive
  <2> QED
    BY <1>3, <1>5, <2>1 DEF Receive, Typed, TypeOK, Receiver
<1>6. CASE Misread
  <2>1. Receiver' /\ own' \in BOOLEAN /\ sent' \subseteq Payloads
    BY <1>1, <1>2, <1>6, BitType DEF Misread
  <2> QED
    BY <1>3, <1>6, <2>1 DEF Misread, Typed, TypeOK, Receiver
<1>7. CASE BreakOff
  BY <1>1, <1>7 DEF BreakOff, receiver, Typed, TypeOK, Receiver, InFlight
<1>8. CASE \E c \in Bit : Between(c)
  <2>1. PICK c \in Bit : Between(c)
    BY <1>8
  <2>2. Receiver' /\ own' \in BOOLEAN /\ sent' \subseteq Payloads /\ place' = place /\ ~InFlight'
    BY <1>1, <2>1, BitType DEF Between, InFlight
  <2> QED
    BY <1>1, <2>2 DEF Typed, TypeOK, Receiver
<1>9. CASE UNCHANGED vars
  BY <1>9 DEF vars, receiver, counts, Typed, TypeOK, InFlight
<1> QED
  BY <1>4, <1>5, <1>6, <1>7, <1>8, <1>9 DEF Next

-----------------------------------------------------------------------------
(* Idle: the ones counted are in the shift register, and seven of them in  *)
(* a row end a frame.                                                       *)
OnesAreSeen ==
  /\ active => shift % 128 # 127
  /\ ones >= 1 => shift % 2 = 1
  /\ ones >= 2 => shift % 4 = 3
  /\ ones >= 3 => shift % 8 = 7
  /\ ones >= 4 => shift % 16 = 15
  /\ ones >= 5 => shift % 32 = 31
  /\ ones >= 6 => shift % 64 = 63
  /\ ones >= 7 => shift % 128 = 127

LEMMA OnesBit ==
    ASSUME Receiver, OnesAreSeen, NEW c \in Bit, ClkBit(c)
    PROVE  OnesAreSeen'
<1>1. shift \in 0..255 /\ ones \in 0..15 /\ active \in BOOLEAN
  BY DEF Receiver, IdleBits
<1>2. shift' = IF shift < 128 THEN 2 * shift + c ELSE 2 * shift + c - 256
  BY <1>1, Halves DEF ClkBit, Shifted
<1>3. ones' = 0 \/ (c = 1 /\ ones' <= ones + 1 /\ ones' \in 0..15)
  BY <1>1 DEF ClkBit, CountOnes, IdleBits
<1>4. /\ ones' >= 1 => shift' % 2 = 1
      /\ ones' >= 2 => shift' % 4 = 3
  BY <1>1, <1>2, <1>3 DEF OnesAreSeen
<1>5. ones' >= 3 => shift' % 8 = 7
  BY <1>1, <1>2, <1>3 DEF OnesAreSeen
<1>6. ones' >= 4 => shift' % 16 = 15
  BY <1>1, <1>2, <1>3 DEF OnesAreSeen
<1>7. ones' >= 5 => shift' % 32 = 31
  BY <1>1, <1>2, <1>3 DEF OnesAreSeen
<1>8. ones' >= 6 => shift' % 64 = 63
  BY <1>1, <1>2, <1>3 DEF OnesAreSeen
<1>9. ones' >= 7 => shift' % 128 = 127
  BY <1>1, <1>2, <1>3 DEF OnesAreSeen
<1>10. ASSUME active' PROVE shift' % 128 # 127
  <2>1. CASE FlagSeen
    BY <2>1 DEF FlagSeen
  <2>2. CASE NotInFrame
    BY <1>10, <2>2 DEF NotInFrame
  <2>3. CASE AbortSeen
    BY <1>10, <2>3 DEF AbortSeen, EndFrame
  <2>4. CASE StuffedBit
    BY <1>1, <1>2, <2>4 DEF StuffedBit, Bit
  <2>5. CASE DataBit(c)
    <3>1. shift' # 127 /\ active
      BY <2>5 DEF DataBit
    <3>2. shift % 128 # 127
      BY <3>1 DEF OnesAreSeen
    <3> QED
      BY <1>1, <1>2, <3>1, <3>2 DEF Bit
  <2> QED
    BY <2>1, <2>2, <2>3, <2>4, <2>5 DEF ClkBit
<1> QED
  BY <1>4, <1>5, <1>6, <1>7, <1>8, <1>9, <1>10 DEF OnesAreSeen

LEMMA OnesInit == Init => OnesAreSeen
BY DEF Init, OnesAreSeen

LEMMA OnesStep == Typed /\ OnesAreSeen /\ [Next]_vars => OnesAreSeen'
<1> SUFFICES ASSUME Typed, OnesAreSeen, [Next]_vars PROVE OnesAreSeen'
  OBVIOUS
<1>1. Receiver
  BY DEF Typed, TypeOK, Receiver
<1>2. ASSUME UNCHANGED <<shift, active, ones>> PROVE OnesAreSeen'
  BY <1>2 DEF OnesAreSeen
<1>3. ASSUME InFlight PROVE Coming \in Bit /\ 1 - Coming \in Bit
  <2>1. payload \in Payloads /\ place \in 1..Len(Line[payload])
    BY <1>3 DEF Typed
  <2> QED
    BY <2>1, PayloadLine DEF Coming, Bit
<1>4. CASE \E p \in Payloads : Send(p)
  BY <1>2, <1>4 DEF Send
<1>5. CASE Receive
  BY <1>1, <1>3, <1>5, OnesBit DEF Receive
<1>6. CASE Misread
  BY <1>1, <1>3, <1>6, OnesBit DEF Misread
<1>7. CASE BreakOff
  BY <1>2, <1>7 DEF BreakOff, receiver
<1>8. CASE \E c \in Bit : Between(c)
  BY <1>1, <1>8, OnesBit DEF Between
<1>9. CASE UNCHANGED vars
  BY <1>2, <1>9 DEF vars, receiver
<1> QED
  BY <1>4, <1>5, <1>6, <1>7, <1>8, <1>9 DEF Next

(* The types, and that no frame is being received on an idle line, for      *)
(* every payload and whatever else is on the line (econet_rx.c:150-171).    *)
THEOREM NoFrameOnIdle == Spec => []IdleMeansNoFrame
<1>1. Typed /\ OnesAreSeen => IdleMeansNoFrame
  BY DEF Typed, TypeOK, OnesAreSeen, IdleMeansNoFrame, IdleBits
<1> QED
  BY <1>1, TypedInit, TypedStep, OnesInit, OnesStep, PTL DEF Spec

-----------------------------------------------------------------------------
(* The receiver while a frame gets through whole: f is the frame with its   *)
(* check sum, and r of its bits have been read.                              *)

(* The first n bits of the frame are received, or it has been given up. *)
Reads(f, n) ==
  IF n \div 8 < ECONET_MTU
  THEN /\ active /\ Len(buf) = n \div 8 /\ bit = n % 8
       /\ crc = CrcAfter(f)[n \div 8]
       /\ \A i \in 1..(n \div 8) : buf[i] = f[i]
       /\ \A j \in 0..7 : j < n % 8 => data[8 - (n % 8) + j] = f[1 + (n \div 8)][j]
  ELSE ~active

FirstFlag(r) == r \in 0..7 /\ Low(shift, r)

SecondFlag(r) ==
  /\ r \in 8..15
  /\ IF r = 8 THEN shift = 126 ELSE Low(shift, r - 8)
  /\ active => buf = <<>> /\ bit = r - 8 /\ crc = AllOnes

Places(f, n) == 16 + Len(Stuffed(f)[n].bits)

InBody(f, r, n) ==
  /\ r = Places(f, n)
  /\ Low(shift, Stuffed(f)[n].ones + 1)
  /\ Reads(f, n)

(* The fifth one in a row has been read, and not yet the zero after it. *)
BeforeStuffed(f, r, n) ==
  /\ r + 1 = Places(f, n)
  /\ Stuffed(f)[n].bits[Len(Stuffed(f)[n].bits)] = 0 /\ Stuffed(f)[n].ones = 0
  /\ Low(shift, 6)
  /\ Reads(f, n)

LastFlag(f, r, k) ==
  /\ r = Places(f, 8 * Len(f)) + k
  /\ Low(shift, k)
  /\ IF Len(f) < ECONET_MTU
     THEN active /\ buf = f /\ bit = k /\ crc = CrcAfter(f)[Len(f)]
     ELSE ~active

Follows(f, r) ==
  \/ FirstFlag(r)
  \/ SecondFlag(r)
  \/ \E n \in 0..(8 * Len(f)) : InBody(f, r, n) \/ (n > 0 /\ BeforeStuffed(f, r, n))
  \/ \E k \in 1..7 : LastFlag(f, r, k)

FollowsFrame == whole /\ InFlight => Follows(WithFcs(payload), place - 1)

LEMMA PlainBit ==
    ASSUME NEW c, ClkBit(c), Plain(shift')
    PROVE  /\ got' = got
           /\ active => DataBit(c)
           /\ ~active => UNCHANGED <<data, bit, active, buf, crc>>
BY DEF ClkBit, Plain, FlagSeen, NotInFrame, AbortSeen, StuffedBit, DataBit

Incoming(c) == [i \in 0..7 |-> IF i = 7 THEN c ELSE data[i + 1]]

LEMMA PartOfByte ==
    ASSUME NEW c, DataBit(c), bit < 7, bit \in 0..7
    PROVE  /\ data' = Incoming(c)
           /\ bit' = bit + 1 /\ active' = active /\ buf' = buf /\ crc' = crc
<1>1. \/ bit < 7 /\ data' = Incoming(c) /\ bit' = bit + 1 /\ UNCHANGED <<active, buf, crc>>
      \/ bit = 7
  BY DEF DataBit, Incoming
<1>2. data' = Incoming(c) /\ bit' = bit + 1 /\ UNCHANGED <<active, buf, crc>>
  BY <1>1
<1> QED
  BY <1>2

LEMMA WholeByte ==
    ASSUME NEW c, DataBit(c), bit = 7
    PROVE  IF Len(buf) + 1 = ECONET_MTU THEN active' = FALSE
           ELSE /\ bit' = 0 /\ active' = active
                /\ buf' = Append(buf, Incoming(c)) /\ crc' = CrcByte(crc, Incoming(c))
<1>1. \/ bit < 7
      \/ Len(buf) + 1 = ECONET_MTU /\ EndFrame
      \/ /\ Len(buf) + 1 # ECONET_MTU
         /\ bit' = 0 /\ buf' = Append(buf, Incoming(c)) /\ crc' = CrcByte(crc, Incoming(c))
         /\ UNCHANGED active
  BY DEF DataBit, Oversize, Incoming
<1>2. EndFrame => active' = FALSE
  BY DEF EndFrame
<1>3. CASE Len(buf) + 1 = ECONET_MTU
  BY <1>1, <1>2, <1>3
<1>4. CASE Len(buf) + 1 # ECONET_MTU
  <2>1. /\ bit' = 0 /\ active' = active
        /\ buf' = Append(buf, Incoming(c)) /\ crc' = CrcByte(crc, Incoming(c))
    BY <1>1, <1>4
  <2> QED
    BY <1>4, <2>1
<1> QED
  BY <1>3, <1>4

LEMMA FirstFlagBit ==
    ASSUME Receiver, NEW r \in 0..7, FirstFlag(r), NEW c, c = Flag[r + 1], ClkBit(c)
    PROVE  IF r < 7 THEN FirstFlag(r + 1)' ELSE SecondFlag(8)'
<1>1. shift \in 0..255 /\ shift' = (2 * shift + c) % 256
  BY DEF Receiver, ClkBit, Shifted
<1>2. c = IF r \in 1..6 THEN 1 ELSE 0
  BY DEF Flag
<1>3. CASE r = 0
  <2>1. Low(shift', 1)
    BY <1>1, <1>2, <1>3, ZeroLow
  <2> QED
    BY <1>3, <2>1 DEF FirstFlag
<1>4. CASE r \in 1..6
  <2>1. Low(shift', r + 1)
    BY <1>1, <1>2, <1>4, OneMore DEF FirstFlag
  <2> QED
    BY <1>4, <2>1 DEF FirstFlag
<1>5. CASE r = 7
  <2>1. shift' = 126
    BY <1>1, <1>2, <1>5, ZeroFlag DEF FirstFlag
  <2>2. FlagSeen
    BY <2>1 DEF ClkBit, FlagSeen, NotInFrame, AbortSeen, StuffedBit, DataBit
  <2> QED
    BY <1>5, <2>1, <2>2 DEF FlagSeen, BeginFrame, CompleteFrame, EndFrame, SecondFlag
<1> QED
  BY <1>3, <1>4, <1>5

LEMMA SecondFlagBit ==
    ASSUME Receiver, NEW r \in 8..15, SecondFlag(r), NEW c, c = Flag[r - 7], ClkBit(c),
           NEW f
    PROVE  /\ got' = got
           /\ IF r < 15 THEN SecondFlag(r + 1)' ELSE InBody(f, 16, 0)'
<1>1. shift \in 0..255 /\ shift' = (2 * shift + c) % 256
  BY DEF Receiver, ClkBit, Shifted
<1>2. c = IF r \in 9..14 THEN 1 ELSE 0
  BY DEF Flag
<1>3. CASE r < 15
  <2>1. Low(shift', r - 7) /\ Plain(shift')
    <3>1. CASE r = 8
      BY <1>1, <1>2, <3>1, ZeroLow, ZeroPlain DEF SecondFlag
    <3>2. CASE r \in 9..14
      <4>1. r - 8 \in 1..6 /\ Low(shift, r - 8) /\ (r - 8) + 1 = r - 7
        BY <3>2 DEF SecondFlag
      <4>0. c = 1 /\ shift' = (2 * shift + 1) % 256
        BY <1>1, <1>2, <3>2
      <4>2. Low((2 * shift + 1) % 256, (r - 8) + 1) /\ Plain((2 * shift + 1) % 256)
        BY <1>1, <4>1, OneMore
      <4>3. Low(shift', (r - 8) + 1) /\ Plain(shift')
        BY <4>0, <4>2
      <4> QED
        BY <4>1, <4>3
    <3> QED
      BY <1>3, <3>1, <3>2
  <2>2. got' = got
    BY <2>1, PlainBit
  <2>3. ASSUME active' PROVE buf' = <<>> /\ bit' = r - 7 /\ crc' = AllOnes
    <3>1. CASE ~active
      BY <2>1, <2>3, <3>1, PlainBit
    <3>2. CASE active
      <4>1. DataBit(c) /\ bit = r - 8 /\ bit < 7 /\ buf = <<>> /\ crc = AllOnes
        BY <1>3, <2>1, <3>2, PlainBit DEF SecondFlag
      <4>2. buf' = buf /\ bit' = bit + 1 /\ crc' = crc
        BY <4>1, PartOfByte
      <4> QED
        BY <4>1, <4>2
    <3> QED
      BY <3>1, <3>2
  <2> QED
    BY <1>3, <2>1, <2>2, <2>3 DEF SecondFlag
<1>4. CASE r = 15
  <2>0. Low(shift, 7) /\ c = 0 /\ shift' = (2 * shift) % 256
    BY <1>1, <1>2, <1>4 DEF SecondFlag
  <2>1. shift' = 126
    BY <1>1, <2>0, ZeroFlag
  <2>2. ~(active /\ Len(buf) > 1)
    BY EmptySeq DEF SecondFlag
  <2>3. BeginFrame
    BY <2>1, <2>2 DEF ClkBit, FlagSeen, NotInFrame, AbortSeen, StuffedBit, DataBit
  <2>4. Stuffed(f)[0] = [bits |-> <<>>, ones |-> 0] /\ CrcAfter(f)[0] = AllOnes
    BY StuffedUnrolled, CrcUnrolled
  <2>5. active' /\ buf' = <<>> /\ Len(<<>>) = 0 /\ bit' = 0 /\ crc' = AllOnes /\ got' = got
    BY <2>3, EmptySeq DEF BeginFrame
  <2>6. 0 \div 8 = 0 /\ 0 % 8 = 0 /\ 0 < ECONET_MTU
    BY HdlcAssumption
  <2>7. Reads(f, 0)'
    BY <2>4, <2>5, <2>6 DEF Reads
  <2>8. Low(shift', 1)
    BY <2>1 DEF Low
  <2> QED
    BY <1>4, <2>4, <2>5, <2>7, <2>8 DEF InBody, Places
<1> QED
  BY <1>3, <1>4

(* A bit of the frame that is read is the next one received. *)
LEMMA ReadsOn ==
    ASSUME Receiver, NEW f \in Seq(Byte), NEW n \in 0..(8 * Len(f) - 1), Reads(f, n),
           NEW c, c = BitAt(f, n + 1), ClkBit(c), Plain(shift')
    PROVE  got' = got /\ Reads(f, n + 1)'
<1> DEFINE m == n \div 8
           e == n % 8
<1>1. Len(f) \in Nat /\ n \in Nat
  BY LenProperties
<1>2. /\ m \in Nat /\ e \in 0..7 /\ n = 8 * m + e
      /\ e < 7 => (n + 1) \div 8 = m /\ (n + 1) % 8 = e + 1
      /\ e = 7 => (n + 1) \div 8 = m + 1 /\ (n + 1) % 8 = 0
  BY <1>1, Eighths
<1>3. c = f[1 + m][e]
  <2>1. (n + 1) - 1 = n
    BY <1>1
  <2> QED
    BY <2>1 DEF BitAt
<1>4. 1 + m \in 1..Len(f)
  BY <1>1, <1>2
<1>5. f[1 + m] \in Byte
  BY <1>4, ElementOfSeq
<1>6. got' = got
  BY PlainBit
<1>7. CASE ~(m < ECONET_MTU)
  <2>1. ~active'
    BY <1>7, PlainBit DEF Reads
  <2>2. ~((n + 1) \div 8 < ECONET_MTU)
    <3>1. ECONET_MTU \in Nat /\ ((n + 1) \div 8 = m \/ (n + 1) \div 8 = m + 1)
      BY <1>2, HdlcAssumption
    <3> QED
      BY <1>2, <1>7, <3>1
  <2> QED
    BY <1>6, <2>1, <2>2 DEF Reads
<1>8. CASE m < ECONET_MTU
  <2>1. /\ active /\ Len(buf) = m /\ bit = e /\ crc = CrcAfter(f)[m]
        /\ \A i \in 1..m : buf[i] = f[i]
        /\ \A j \in 0..7 : j < e => data[8 - e + j] = f[1 + m][j]
    BY <1>8 DEF Reads
  <2> HIDE DEF m, e
  <2>2. DataBit(c)
    BY <2>1, PlainBit
  <2>3. CASE e < 7
    <3>1. /\ data' = [i \in 0..7 |-> IF i = 7 THEN c ELSE data[i + 1]]
          /\ bit' = e + 1 /\ active' = active /\ buf' = buf /\ crc' = crc
      BY <1>2, <2>1, <2>2, <2>3, PartOfByte DEF Incoming
    <3>2. ASSUME NEW j \in 0..7, j < e + 1 PROVE data'[8 - (e + 1) + j] = f[1 + m][j]
      <4>1. CASE j = e
        <5>1. 8 - (e + 1) + j = 7
          BY <1>2, <4>1
        <5> QED
          BY <1>3, <3>1, <4>1, <5>1
      <4>2. CASE j # e
        <5>1. /\ 8 - (e + 1) + j \in 0..7 /\ 8 - (e + 1) + j # 7
              /\ 8 - (e + 1) + j + 1 = 8 - e + j /\ j < e
          BY <1>2, <2>3, <3>2, <4>2
        <5> QED
          BY <2>1, <3>1, <5>1
      <4> QED
        BY <4>1, <4>2
    <3>3. (n + 1) \div 8 = m /\ (n + 1) % 8 = e + 1
      BY <1>2, <2>3
    <3> QED
      BY <1>6, <1>8, <2>1, <3>1, <3>2, <3>3 DEF Reads
  <2>4. CASE e = 7
    <3>1. (n + 1) \div 8 = m + 1 /\ (n + 1) % 8 = 0
      BY <1>2, <2>4
    <3>2. CASE m + 1 = ECONET_MTU
      <4>1. active' = FALSE
        BY <2>1, <2>2, <2>4, <3>2, WholeByte
      <4> QED
        BY <1>6, <3>1, <3>2, <4>1, HdlcAssumption DEF Reads
    <3>3. CASE m + 1 # ECONET_MTU
      <4> DEFINE byte == Incoming(c)
      <4>1. /\ bit' = 0 /\ active' = active
            /\ buf' = Append(buf, byte) /\ crc' = CrcByte(crc, byte)
        BY <2>1, <2>2, <2>4, <3>3, WholeByte
      <4>0. byte = [i \in 0..7 |-> IF i = 7 THEN c ELSE data[i + 1]]
        BY DEF Incoming
      <4> HIDE DEF byte
      <4>2. ASSUME NEW i \in 0..7 PROVE byte[i] = f[1 + m][i]
        <5>1. CASE i = 7
          BY <1>3, <2>4, <4>0, <5>1
        <5>2. CASE i # 7
          <6>1. i < e /\ 8 - e + i = i + 1
            BY <2>4, <5>2
          <6> QED
            BY <2>1, <4>0, <5>2, <6>1
        <5> QED
          BY <5>1, <5>2
      <4>3. byte = f[1 + m]
        BY <1>5, <4>0, <4>2 DEF Byte
      <4>4. /\ Len(buf') = m + 1 /\ buf'[m + 1] = f[m + 1]
            /\ \A i \in 1..m : buf'[i] = buf[i]
        <5>1. buf \in Seq(Byte) /\ 1 + m = m + 1
          BY <1>2 DEF Receiver
        <5>2. buf' = Append(buf, f[m + 1]) /\ f[m + 1] \in Byte
          BY <1>5, <4>1, <4>3, <5>1
        <5> QED
          BY <1>2, <2>1, <5>1, <5>2, AppendProperties
      <4>5. \A i \in 1..(m + 1) : buf'[i] = f[i]
        BY <1>2, <2>1, <4>4
      <4>6. crc' = CrcAfter(f)[m + 1]
        <5>1. 1 + m = m + 1
          BY <1>2
        <5>2. CrcAfter(f)[m + 1] = CrcByte(CrcAfter(f)[m], f[m + 1])
          BY <1>2, CrcUnrolled
        <5> QED
          BY <2>1, <4>1, <4>3, <5>1, <5>2
      <4>7. m + 1 < ECONET_MTU
        <5>1. m \in Nat /\ ECONET_MTU \in Nat
          BY <1>2, HdlcAssumption
        <5> QED
          BY <1>8, <3>3, <5>1
      <4>8. \A j \in 0..7 : ~(j < 0)
        OBVIOUS
      <4> QED
        BY <1>6, <2>1, <3>1, <4>1, <4>4, <4>5, <4>6, <4>7, <4>8 DEF Reads
    <3> QED
      BY <3>2, <3>3
  <2> QED
    BY <1>2, <2>3, <2>4
<1> QED
  BY <1>7, <1>8

(* A bit of the body on the line. *)
LEMMA CodedBit ==
    ASSUME NEW f \in Seq(Byte), NEW n \in 0..(8 * Len(f)), NEW i \in 1..Len(Stuffed(f)[n].bits)
    PROVE  FrameBits(f)[i + 16] = Stuffed(f)[n].bits[i]
<1> DEFINE N == 8 * Len(f)
           long == Stuffed(f)[N].bits
           short == Stuffed(f)[n].bits
<1>1. N \in Nat /\ n \in Nat /\ n <= N
  BY LenProperties
<1>2. /\ Len(short) <= Len(long)
      /\ \A j \in 1..Len(short) : long[j] = short[j]
  BY <1>1, StuffedPrefix
<1>3. Len(long) \in Nat /\ \A j \in 1..Len(long) : FrameBits(f)[j + 16] = long[j]
  <2>1. Framed(FrameBits(f), long)
    <3>1. N = 8 * Len(f)
      OBVIOUS
    <3> HIDE DEF N
    <3> QED
      BY <1>1, <3>1, LineOf
  <2> QED
    BY <2>1 DEF Framed
<1>4. Len(short) \in Nat
  BY <1>1, StuffedNext DEF Keeps
<1> HIDE DEF long, short, N
<1>5. i \in 1..Len(long) /\ long[i] = short[i]
  BY <1>2, <1>3, <1>4 DEF short
<1>6. FrameBits(f)[i + 16] = short[i]
  BY <1>3, <1>5
<1> QED
  BY <1>6 DEF short

LEMMA BodyBit ==
    ASSUME Receiver, NEW f \in Seq(Byte), NEW n \in 0..(8 * Len(f) - 1), NEW r, InBody(f, r, n),
           NEW c, c = FrameBits(f)[r + 1], ClkBit(c)
    PROVE  /\ got' = got
           /\ InBody(f, r + 1, n + 1)' \/ BeforeStuffed(f, r + 1, n + 1)'
<1> DEFINE a == Stuffed(f)[n]
           b == Stuffed(f)[n + 1]
           next == BitAt(f, n + 1)
<1>1. n \in Nat /\ n + 1 \in 0..(8 * Len(f))
  BY LenProperties
<1>2. r = 16 + Len(a.bits) /\ Low(shift, a.ones + 1) /\ Reads(f, n)
  BY DEF InBody, Places
<1>3. /\ Len(a.bits) \in Nat /\ a.ones \in 0..4 /\ Len(a.bits) < Len(b.bits)
      /\ IF next = 1 THEN AddsStuffed(a, b) \/ AddsOne(a, b) ELSE AddsZero(a, b)
  BY <1>1, StuffedNext DEF Keeps
<1>4. next \in Bit
  <2>1. (n + 1) - 1 = n /\ n \div 8 \in Nat /\ n % 8 \in 0..7 /\ 1 + n \div 8 \in 1..Len(f)
    BY <1>1, Eighths, LenProperties
  <2>2. f[1 + n \div 8] \in Byte
    BY <2>1, ElementOfSeq
  <2> QED
    BY <2>1, <2>2 DEF BitAt, Byte
<1>5. c = b.bits[Len(a.bits) + 1]
  <2>1. Len(a.bits) + 1 \in 1..Len(b.bits)
    <3>1. Len(b.bits) \in Nat
      BY <1>1, StuffedNext DEF Keeps
    <3> QED
      BY <1>3, <3>1
  <2>2. FrameBits(f)[(Len(a.bits) + 1) + 16] = b.bits[Len(a.bits) + 1]
    BY <1>1, <2>1, CodedBit
  <2>3. r + 1 = (Len(a.bits) + 1) + 16
    BY <1>2, <1>3
  <2> QED
    BY <2>2, <2>3
<1>6. shift \in 0..255 /\ shift' = (2 * shift + c) % 256
  BY DEF Receiver, ClkBit, Shifted
<1> HIDE DEF a, b, next
<1>7. c = next
  BY <1>3, <1>4, <1>5 DEF Bit, AddsStuffed, AddsOne, AddsZero
<1>8. ASSUME c = 1, NEW k \in 1..6, Low(shift, k) PROVE Low(shift', k + 1) /\ Plain(shift')
  <2>1. shift' = (2 * shift + 1) % 256
    BY <1>6, <1>8
  <2> QED
    BY <1>6, <1>8, <2>1, OneMore
<1>9. ASSUME c = 0, NEW k \in 1..5, Low(shift, k) PROVE Low(shift', 1) /\ Plain(shift')
  <2>1. shift' = (2 * shift) % 256
    BY <1>6, <1>9
  <2> QED
    BY <1>6, <1>9, <2>1, ZeroLow, ZeroPlain
<1>10. ASSUME Plain(shift') PROVE got' = got /\ Reads(f, n + 1)'
  BY <1>2, <1>7, <1>10, ReadsOn DEF next
<1>11. CASE next = 1 /\ AddsStuffed(a, b)
  <2>1. Low(shift', 6) /\ Plain(shift')
    <3>1. a.ones + 1 = 5 /\ 5 \in 1..6 /\ 5 + 1 = 6
      BY <1>11 DEF AddsStuffed
    <3>2. Low(shift, 5)
      BY <1>2, <3>1
    <3> QED
      BY <1>7, <1>8, <1>11, <3>1, <3>2
  <2>2. /\ b.ones = 0 /\ Len(b.bits) = Len(a.bits) + 2 /\ b.bits[Len(b.bits)] = 0
        /\ (r + 1) + 1 = 16 + Len(b.bits)
    BY <1>2, <1>3, <1>11 DEF AddsStuffed
  <2>3. BeforeStuffed(f, r + 1, n + 1)'
    BY <1>10, <2>1, <2>2 DEF BeforeStuffed, Places, b
  <2> QED
    BY <1>10, <2>1, <2>3
<1>12. CASE next = 1 /\ AddsOne(a, b)
  <2>1. b.ones = a.ones + 1 /\ r + 1 = 16 + Len(b.bits) /\ a.ones + 1 \in 1..6
    <3>1. a.ones < 4 /\ b.ones = a.ones + 1 /\ Len(b.bits) = Len(a.bits) + 1
      BY <1>12 DEF AddsOne
    <3>2. a.ones \in 0..4 /\ Len(a.bits) \in Nat
      BY <1>3
    <3> QED
      BY <1>2, <3>1, <3>2
  <2>2. Low(shift', b.ones + 1) /\ Plain(shift')
    BY <1>2, <1>7, <1>8, <1>12, <2>1
  <2>3. InBody(f, r + 1, n + 1)'
    BY <1>10, <2>1, <2>2 DEF InBody, Places, b
  <2> QED
    BY <1>10, <2>2, <2>3
<1>13. CASE next # 1 /\ AddsZero(a, b)
  <2>1. b.ones + 1 = 1 /\ r + 1 = 16 + Len(b.bits) /\ a.ones + 1 \in 1..5 /\ c = 0
    <3>1. b.ones = 0 /\ Len(b.bits) = Len(a.bits) + 1
      BY <1>13 DEF AddsZero
    <3>2. a.ones \in 0..4 /\ Len(a.bits) \in Nat
      BY <1>3
    <3>3. c = 0
      BY <1>4, <1>7, <1>13 DEF Bit
    <3> QED
      BY <1>2, <3>1, <3>2, <3>3
  <2>2. Low(shift', b.ones + 1) /\ Plain(shift')
    BY <1>2, <1>9, <2>1
  <2>3. InBody(f, r + 1, n + 1)'
    BY <1>10, <2>1, <2>2 DEF InBody, Places, b
  <2> QED
    BY <1>10, <2>2, <2>3
<1> QED
  BY <1>3, <1>11, <1>12, <1>13

LEMMA StuffedZeroBit ==
    ASSUME Receiver, NEW f \in Seq(Byte), NEW n \in 1..(8 * Len(f)), NEW r \in Nat,
           BeforeStuffed(f, r, n),
           NEW c, c = FrameBits(f)[r + 1], ClkBit(c)
    PROVE  got' = got /\ InBody(f, r + 1, n)'
<1> DEFINE a == Stuffed(f)[n]
<1>1. n \in Nat /\ n \in 0..(8 * Len(f)) /\ n - 1 \in Nat /\ (n - 1) + 1 = n
  BY LenProperties
<1>2. /\ r + 1 = 16 + Len(a.bits) /\ a.bits[Len(a.bits)] = 0 /\ a.ones = 0
      /\ Low(shift, 6) /\ Reads(f, n)
  BY DEF BeforeStuffed, Places
<1>3. Len(a.bits) \in 1..Len(a.bits) /\ Len(a.bits) \in Nat
  <2>0. ASSUME NEW k \in Nat
        PROVE  /\ Len(Stuffed(f)[k].bits) \in Nat
               /\ Len(Stuffed(f)[k].bits) < Len(Stuffed(f)[k + 1].bits)
    BY StuffedNext DEF Keeps
  <2>1. Len(Stuffed(f)[n - 1].bits) \in Nat /\ Len(Stuffed(f)[n - 1].bits) < Len(a.bits)
    BY <1>1, <2>0
  <2>2. Len(a.bits) \in Nat
    BY <1>1, <2>0
  <2> QED
    BY <2>1, <2>2
<1>4. c = 0
  <2>1. FrameBits(f)[Len(a.bits) + 16] = a.bits[Len(a.bits)]
    BY <1>1, <1>3, CodedBit
  <2> QED
    BY <1>2, <1>3, <2>1
<1>5. shift \in 0..255 /\ shift' = (2 * shift) % 256
  BY <1>4 DEF Receiver, ClkBit, Shifted
<1>6. Low(shift', 1) /\ shift' # 126 /\ shift' # 127 /\ shift' % 64 = 62
  <2>1. Low(shift', 1)
    BY <1>5, ZeroLow
  <2>2. shift' # 126 /\ shift' # 127 /\ shift' % 64 = 62
    <3>1. Low(shift, 6)
      BY <1>2
    <3>2. /\ (2 * shift) % 256 # 126 /\ (2 * shift) % 256 # 127
          /\ ((2 * shift) % 256) % 64 = 62
      BY <1>5, <3>1, ZeroStuffed
    <3> QED
      BY <1>5, <3>2
  <2> QED
    BY <2>1, <2>2
<1>7. UNCHANGED <<data, bit, active, buf, crc, got>>
  BY <1>6 DEF ClkBit, FlagSeen, NotInFrame, AbortSeen, StuffedBit, DataBit
<1>8. Reads(f, n)'
  BY <1>2, <1>7 DEF Reads
<1>9. a.ones + 1 = 1
  BY <1>2
<1> QED
  BY <1>2, <1>6, <1>7, <1>8, <1>9 DEF InBody, Places

(* The closing flag. *)
LEMMA AtEnd ==
    ASSUME Receiver, NEW f \in Seq(Byte), NEW r, InBody(f, r, 8 * Len(f)), ClkBit(0)
    PROVE  got' = got /\ LastFlag(f, r + 1, 1)'
<1> DEFINE N == 8 * Len(f)
           a == Stuffed(f)[N]
<1>1. N \in Nat /\ Len(f) \in Nat /\ N \div 8 = Len(f) /\ N % 8 = 0
  BY LenProperties
<1>2. r = 16 + Len(a.bits) /\ Low(shift, a.ones + 1) /\ Reads(f, N)
  BY DEF InBody, Places
<1>3. a.ones \in 0..4 /\ Len(a.bits) \in Nat
  BY <1>1, StuffedNext DEF Keeps
<1> HIDE DEF N, a
<1>4. shift \in 0..255 /\ shift' = (2 * shift) % 256
  BY DEF Receiver, ClkBit, Shifted
<1>5. Low(shift', 1) /\ Plain(shift')
  <2>1. a.ones + 1 \in 1..5
    BY <1>3
  <2>2. \E k \in 1..5 : Low(shift, k)
    BY <1>2, <2>1
  <2> QED
    BY <1>4, <2>2, ZeroLow, ZeroPlain
<1>6. got' = got
  BY <1>5, PlainBit
<1>7. CASE Len(f) < ECONET_MTU
  <2>1. /\ active /\ Len(buf) = Len(f) /\ bit = 0 /\ crc = CrcAfter(f)[Len(f)]
        /\ \A i \in 1..Len(f) : buf[i] = f[i]
    BY <1>1, <1>2, <1>7 DEF Reads
  <2>2. buf = f
    BY <2>1, SeqEqual DEF Receiver
  <2>3. DataBit(0)
    BY <1>5, <2>1, PlainBit
  <2>4. active' = active /\ buf' = buf /\ bit' = 1 /\ crc' = crc
    <3>1. bit < 7 /\ bit \in 0..7 /\ bit + 1 = 1
      BY <2>1
    <3> QED
      BY <2>3, <3>1, PartOfByte
  <2> QED
    BY <1>2, <1>5, <1>6, <1>7, <2>1, <2>2, <2>4 DEF LastFlag, Places, N, a
<1>8. CASE ~(Len(f) < ECONET_MTU)
  <2>1. ~active
    BY <1>1, <1>2, <1>8 DEF Reads
  <2>2. ~active'
    BY <1>5, <2>1, PlainBit
  <2> QED
    BY <1>2, <1>5, <1>6, <1>8, <2>2 DEF LastFlag, Places, N, a
<1> QED
  BY <1>7, <1>8

LEMMA LastFlagBit ==
    ASSUME Receiver, NEW f \in Seq(Byte), NEW r, NEW k \in 1..6, LastFlag(f, r, k), ClkBit(1)
    PROVE  got' = got /\ LastFlag(f, r + 1, k + 1)'
<1>1. shift \in 0..255 /\ shift' = (2 * shift + 1) % 256
  BY DEF Receiver, ClkBit, Shifted
<1>2. r = Places(f, 8 * Len(f)) + k /\ Low(shift, k)
  BY DEF LastFlag
<1>3. Low(shift', k + 1) /\ Plain(shift')
  BY <1>1, <1>2, OneMore
<1>4. got' = got
  BY <1>3, PlainBit
<1>5. Len(Stuffed(f)[8 * Len(f)].bits) \in Nat
  <2>1. 8 * Len(f) \in Nat
    BY LenProperties
  <2> QED
    BY <2>1, StuffedNext DEF Keeps
<1>6. r + 1 = Places(f, 8 * Len(f)) + (k + 1)
  <2>1. Places(f, 8 * Len(f)) \in Nat
    BY <1>5 DEF Places
  <2> QED
    BY <1>2, <2>1
<1>7. CASE Len(f) < ECONET_MTU
  <2>1. active /\ buf = f /\ bit = k /\ crc = CrcAfter(f)[Len(f)]
    BY <1>7 DEF LastFlag
  <2>2. DataBit(1)
    BY <1>3, <2>1, PlainBit
  <2>3. active' = active /\ buf' = buf /\ bit' = k + 1 /\ crc' = crc
    <3>1. bit < 7 /\ bit \in 0..7 /\ bit + 1 = k + 1
      BY <2>1
    <3> QED
      BY <2>2, <3>1, PartOfByte
  <2> QED
    BY <1>3, <1>4, <1>6, <1>7, <2>1, <2>3 DEF LastFlag, Places
<1>8. CASE ~(Len(f) < ECONET_MTU)
  <2>1. ~active
    BY <1>8 DEF LastFlag
  <2>2. ~active'
    BY <1>3, <2>1, PlainBit
  <2> QED
    BY <1>3, <1>4, <1>6, <1>8, <2>2 DEF LastFlag, Places
<1> QED
  BY <1>7, <1>8

(* The last bit: the frame is accepted, once and as it was sent. *)
LEMMA LastBit ==
    ASSUME Receiver, NEW p \in Seq(Byte), NEW f, f = WithFcs(p),
           NEW r, LastFlag(f, r, 7), ClkBit(0)
    PROVE  got' = IF Acceptable(p) THEN Append(got, p) ELSE got
<1>1. shift \in 0..255 /\ shift' = (2 * shift) % 256 /\ Low(shift, 7)
  BY DEF Receiver, ClkBit, Shifted, LastFlag
<1>2. shift' = 126
  BY <1>1, ZeroFlag
<1>3. IF active /\ Len(buf) > 1 THEN CompleteFrame ELSE BeginFrame
  BY <1>2 DEF ClkBit, FlagSeen, NotInFrame, AbortSeen, StuffedBit, DataBit
<1>4. /\ Len(p) \in Nat /\ Len(f) = Len(p) + 2
      /\ SubSeq(f, 1, Len(p)) = p /\ CrcAfter(f)[Len(f)] = Residual
  BY FrameOf
<1>5. CASE Len(f) < ECONET_MTU
  <2>1. active /\ buf = f /\ crc = Residual
    BY <1>4, <1>5 DEF LastFlag
  <2>2. CompleteFrame
    BY <1>3, <1>4, <2>1
  <2>3. Accepted <=> Acceptable(p)
    BY <1>4, <1>5, <2>1, HdlcAssumption DEF Accepted, Acceptable
  <2>4. SubSeq(buf, 1, Len(buf) - 2) = p
    <3>1. Len(buf) - 2 = Len(p)
      BY <1>4, <2>1
    <3> QED
      BY <1>4, <2>1, <3>1
  <2> QED
    BY <2>2, <2>3, <2>4 DEF CompleteFrame
<1>6. CASE ~(Len(f) < ECONET_MTU)
  <2>1. ~active
    BY <1>6 DEF LastFlag
  <2>2. ~Acceptable(p)
    BY <1>4, <1>6, HdlcAssumption DEF Acceptable
  <2> QED
    BY <1>3, <2>1, <2>2 DEF BeginFrame
<1> QED
  BY <1>5, <1>6

LEMMA NextBit ==
    ASSUME Receiver, NEW p \in Payloads, NEW f, f = WithFcs(p),
           NEW r \in Nat, r + 1 <= Len(Line[p]), Follows(f, r),
           NEW c, c = Line[p][r + 1], ClkBit(c)
    PROVE  /\ r + 1 < Len(Line[p]) => Follows(f, r + 1)'
           /\ r >= 8 => got' = IF r + 1 = Len(Line[p]) /\ Acceptable(p)
                               THEN Append(got, p) ELSE got
<1> DEFINE N == 8 * Len(f)
           body == Len(Stuffed(f)[N].bits)
<1>1. /\ p \in Seq(Byte) /\ f \in Seq(Byte) /\ Len(f) \in Nat /\ Len(f) >= 2
      /\ Line[p] = FrameBits(f)
  BY PayloadLine, FrameOf
<1>2. /\ body \in Nat /\ Len(Line[p]) = body + 24
      /\ \A i \in 1..8 : Line[p][i] = Flag[i] /\ Line[p][i + 8] = Flag[i]
      /\ \A i \in 1..8 : Line[p][i + (16 + body)] = Flag[i]
  <2>1. N \in Nat /\ N = 8 * Len(f)
    BY <1>1
  <2>2. /\ body \in Nat /\ Len(FrameBits(f)) = body + 24
        /\ \A i \in 1..8 : FrameBits(f)[i] = Flag[i] /\ FrameBits(f)[i + 8] = Flag[i]
        /\ \A i \in 1..8 : FrameBits(f)[i + (16 + body)] = Flag[i]
    <3>1. Framed(FrameBits(f), Stuffed(f)[N].bits)
      <4> HIDE DEF N
      <4> QED
        BY <2>1, LineOf
    <3> QED
      BY <3>1 DEF Framed
  <2> HIDE DEF body
  <2> QED
    BY <1>1, <2>2
<1>3. N \in Nat /\ Places(f, N) = 16 + body
  BY <1>1 DEF Places
<1> HIDE DEF N, body
<1>4. ASSUME NEW n \in 0..N
       PROVE  Len(Stuffed(f)[n].bits) \in Nat /\ Len(Stuffed(f)[n].bits) <= body
  <2>1. n \in Nat /\ N \in Nat /\ n <= N
    BY <1>3
  <2>2. Len(Stuffed(f)[n].bits) \in Nat
    BY <2>1, StuffedNext DEF Keeps
  <2>3. Len(Stuffed(f)[n].bits) <= Len(Stuffed(f)[N].bits)
    BY <2>1, StuffedPrefix
  <2> QED
    BY <2>2, <2>3 DEF body
<1>5. ASSUME NEW n \in 0..N, NEW q, InBody(f, q, n)' \/ (n > 0 /\ BeforeStuffed(f, q, n)')
      PROVE  Follows(f, q)'
  BY <1>5 DEF Follows, N
<1>6. CASE FirstFlag(r)
  <2>1. r \in 0..7
    BY <1>6 DEF FirstFlag
  <2>2. c = Flag[r + 1]
    <3>1. r + 1 \in 1..8
      BY <2>1
    <3> QED
      BY <1>2, <3>1
  <2>3. IF r < 7 THEN FirstFlag(r + 1)' ELSE SecondFlag(8)'
    BY <1>6, <2>1, <2>2, FirstFlagBit
  <2>4. Follows(f, r + 1)'
    <3>1. r < 7 \/ r + 1 = 8
      BY <2>1
    <3> QED
      BY <2>3, <3>1 DEF Follows
  <2> QED
    BY <2>1, <2>4
<1>7. CASE SecondFlag(r)
  <2>1. r \in 8..15
    BY <1>7 DEF SecondFlag
  <2>2. c = Flag[r - 7]
    <3>1. r - 7 \in 1..8 /\ r + 1 = (r - 7) + 8
      BY <2>1
    <3> QED
      BY <1>2, <3>1
  <2>3. got' = got /\ (IF r < 15 THEN SecondFlag(r + 1)' ELSE InBody(f, 16, 0)')
    BY <1>7, <2>1, <2>2, SecondFlagBit
  <2>4. Follows(f, r + 1)'
    <3>1. CASE r < 15
      BY <2>3, <3>1 DEF Follows
    <3>2. CASE r = 15
      <4>1. r + 1 = 16 /\ 0 \in 0..N
        BY <1>3, <3>2
      <4> QED
        BY <1>5, <2>3, <3>2, <4>1
    <3> QED
      BY <2>1, <3>1, <3>2
  <2>5. r + 1 # Len(Line[p])
    BY <1>2, <2>1
  <2> QED
    BY <2>3, <2>4, <2>5
<1>8. CASE \E n \in 0..N : InBody(f, r, n)
  <2>1. PICK n \in 0..N : InBody(f, r, n)
    BY <1>8
  <2>2. Len(Stuffed(f)[n].bits) \in Nat /\ Len(Stuffed(f)[n].bits) <= body
    BY <1>4, <2>1
  <2>3. r = 16 + Len(Stuffed(f)[n].bits) /\ r + 1 # Len(Line[p])
    BY <1>2, <2>1, <2>2 DEF InBody, Places
  <2>4. CASE n < N
    <3>1. n \in 0..(8 * Len(f) - 1) /\ n + 1 \in 0..N /\ n + 1 > 0
      BY <1>3, <2>4 DEF N
    <3>2. got' = got /\ (InBody(f, r + 1, n + 1)' \/ BeforeStuffed(f, r + 1, n + 1)')
      BY <1>1, <2>1, <3>1, BodyBit
    <3>3. Follows(f, r + 1)'
      BY <1>5, <3>1, <3>2
    <3> QED
      BY <2>3, <3>2, <3>3
  <2>5. CASE n = N
    <3>1. 1 \in 1..8 /\ r + 1 = 1 + (16 + body) /\ Flag[1] = 0
      BY <1>2, <2>3, <2>5 DEF body, Flag
    <3>2. c = 0
      BY <1>2, <3>1
    <3>3. got' = got /\ LastFlag(f, r + 1, 1)'
      BY <1>1, <2>1, <2>5, <3>2, AtEnd DEF N
    <3>4. Follows(f, r + 1)'
      BY <3>3 DEF Follows
    <3> QED
      BY <2>3, <3>3, <3>4
  <2> QED
    BY <1>3, <2>4, <2>5
<1>9. CASE \E n \in 0..N : n > 0 /\ BeforeStuffed(f, r, n)
  <2>1. PICK n \in 0..N : n > 0 /\ BeforeStuffed(f, r, n)
    BY <1>9
  <2>2. n \in 1..(8 * Len(f)) /\ n \in Nat
    BY <1>3, <2>1 DEF N
  <2>3. got' = got /\ InBody(f, r + 1, n)'
    BY <1>1, <2>1, <2>2, StuffedZeroBit
  <2>4. Follows(f, r + 1)'
    BY <1>5, <2>3
  <2>5. r + 1 # Len(Line[p])
    <3>1. r + 1 = 16 + Len(Stuffed(f)[n].bits)
      BY <2>1 DEF BeforeStuffed, Places
    <3>2. Len(Stuffed(f)[n].bits) \in Nat /\ Len(Stuffed(f)[n].bits) <= body
      BY <1>4, <2>1
    <3> QED
      BY <1>2, <3>1, <3>2
  <2> QED
    BY <2>3, <2>4, <2>5
<1>10. CASE \E k \in 1..7 : LastFlag(f, r, k)
  <2>1. PICK k \in 1..7 : LastFlag(f, r, k)
    BY <1>10
  <2>2. r = 16 + body + k
    BY <1>3, <2>1 DEF LastFlag, N
  <2>3. k + 1 \in 1..8 /\ r + 1 = (k + 1) + (16 + body)
    BY <1>2, <2>2
  <2>4. c = Flag[k + 1]
    <3>1. Line[p][(k + 1) + (16 + body)] = Flag[k + 1]
      BY <1>2, <2>3
    <3> QED
      BY <2>3, <3>1
  <2>5. CASE k < 7
    <3>1. c = 1 /\ k \in 1..6
      BY <2>4, <2>5 DEF Flag
    <3>2. got' = got /\ LastFlag(f, r + 1, k + 1)'
      BY <1>1, <2>1, <3>1, LastFlagBit
    <3>3. k + 1 \in 1..7 /\ r + 1 # Len(Line[p])
      <4>1. body \in Nat /\ Len(Line[p]) = body + 24
        BY <1>2
      <4> QED
        BY <2>3, <2>5, <4>1
    <3>4. Follows(f, r + 1)'
      BY <3>2, <3>3 DEF Follows
    <3> QED
      BY <3>2, <3>3, <3>4
  <2>6. CASE k = 7
    <3>1. c = 0 /\ r + 1 = Len(Line[p])
      BY <1>2, <2>2, <2>4, <2>6 DEF Flag
    <3>2. got' = IF Acceptable(p) THEN Append(got, p) ELSE got
      BY <1>1, <2>1, <2>6, <3>1, LastBit
    <3> QED
      BY <1>2, <3>1, <3>2
  <2> QED
    BY <2>5, <2>6
<1> QED
  BY <1>6, <1>7, <1>8, <1>9, <1>10 DEF Follows, N

-----------------------------------------------------------------------------
(* Every step, and the property. *)
LEMMA FollowsInit == Init => FollowsFrame
BY DEF Init, FollowsFrame, InFlight

LEMMA InStep ==
    ASSUME Typed, FollowsFrame, Receive, whole
    PROVE  FollowsFrame' /\ FrameArrives
<1>1. PICK f : f = WithFcs(payload)
  OBVIOUS
<1>2. PICK p : p = payload
  OBVIOUS
<1>3. PICK r : r = place - 1
  OBVIOUS
<1>4. Receiver /\ p \in Payloads /\ place \in 1..Len(Line[p]) /\ Len(Line[p]) \in Nat
  BY <1>2, PayloadLine DEF Typed, TypeOK, Receiver, Receive
<1>5. r \in Nat /\ r + 1 = place /\ r + 1 <= Len(Line[p])
  BY <1>3, <1>4
<1>6. Follows(f, r) /\ f = WithFcs(p) /\ ClkBit(Line[p][r + 1])
  BY <1>1, <1>2, <1>3, <1>5 DEF FollowsFrame, Receive, Coming
<1>7. /\ r + 1 < Len(Line[p]) => Follows(f, r + 1)'
      /\ r >= 8 => got' = IF r + 1 = Len(Line[p]) /\ Acceptable(p)
                          THEN Append(got, p) ELSE got
  BY <1>4, <1>5, <1>6, NextBit
<1>8. /\ payload' = p /\ whole'
      /\ place' = IF r + 1 < Len(Line[p]) THEN r + 2 ELSE 0
  BY <1>2, <1>5 DEF Receive, Onward
<1>9. FollowsFrame'
  <2>1. CASE r + 1 < Len(Line[p])
    <3>1. place' - 1 = r + 1 /\ WithFcs(payload') = f
      BY <1>5, <1>6, <1>8, <2>1
    <3>2. Follows(f, r + 1)'
      BY <1>7, <2>1
    <3>3. Follows(WithFcs(payload), place - 1)'
      BY <3>1, <3>2 DEF Follows, FirstFlag, SecondFlag, InBody, BeforeStuffed, LastFlag, Reads
    <3> QED
      BY <3>3 DEF FollowsFrame
  <2>2. CASE ~(r + 1 < Len(Line[p]))
    BY <1>8, <2>2 DEF FollowsFrame, InFlight
  <2> QED
    BY <2>1, <2>2
<1>10. FrameArrives
  <2>1. Len(Flag) = 8
    BY DEF Flag
  <2>2. place' = 0 <=> r + 1 = Len(Line[p])
    BY <1>4, <1>5, <1>8
  <2>3. place > 8 => r >= 8
    BY <1>5
  <2> QED
    BY <1>2, <1>7, <2>1, <2>2, <2>3 DEF FrameArrives
<1> QED
  BY <1>9, <1>10

LEMMA FollowsStep ==
    Typed /\ FollowsFrame /\ [Next]_vars => FollowsFrame' /\ (FrameArrives \/ UNCHANGED vars)
<1> SUFFICES ASSUME Typed, FollowsFrame, [Next]_vars
             PROVE  FollowsFrame' /\ (FrameArrives \/ UNCHANGED vars)
  OBVIOUS
<1>1. CASE \E p \in Payloads : Send(p)
  <2>1. PICK p \in Payloads : Send(p)
    BY <1>1
  <2>2. place = 0 /\ place' = 1 /\ shift' = shift
    BY <2>1 DEF Send, InFlight, Typed, TypeOK
  <2>3. FollowsFrame'
    BY <2>2 DEF FollowsFrame, Follows, FirstFlag, Low
  <2> QED
    BY <2>2, <2>3 DEF FrameArrives, Flag
<1>2. CASE Receive
  <2>1. CASE whole
    BY <1>2, <2>1, InStep
  <2>2. CASE ~whole
    BY <1>2, <2>2 DEF Receive, FollowsFrame, FrameArrives
  <2> QED
    BY <2>1, <2>2
<1>3. CASE Misread
  BY <1>3 DEF Misread, FollowsFrame, FrameArrives
<1>4. CASE BreakOff
  BY <1>4 DEF BreakOff, FollowsFrame, FrameArrives
<1>5. CASE \E c \in Bit : Between(c)
  <2>1. place = 0 /\ place' = 0
    BY <1>5 DEF Between, InFlight, Typed, TypeOK
  <2> QED
    BY <2>1 DEF FollowsFrame, InFlight, FrameArrives, Flag
<1>6. CASE UNCHANGED vars
  <2>1. UNCHANGED <<place, shift, data, bit, active, buf, crc, payload, whole>>
    BY <1>6 DEF vars, receiver
  <2>2. FollowsFrame'
    BY <2>1 DEF FollowsFrame, InFlight, Follows, FirstFlag, SecondFlag, InBody, BeforeStuffed,
                LastFlag, Reads
  <2> QED
    BY <1>6, <2>2
<1> QED
  BY <1>1, <1>2, <1>3, <1>4, <1>5, <1>6 DEF Next

(* Whatever its payload and whatever was on the line before, a frame that   *)
(* gets through whole is accepted at its last bit, once and as it was sent, *)
(* or not at all when its length is not acceptable, and no other bits of it *)
(* are taken for the end of a frame (econet_rx.c:56-219,                    *)
(* econet_tx.c:130-208).                                                    *)
THEOREM WholeFramesArrive == Spec => FramesGetThrough
<1>1. Typed /\ FollowsFrame /\ [Next]_vars => [FrameArrives]_vars
  BY FollowsStep
<1> QED
  BY <1>1, TypedInit, TypedStep, FollowsInit, FollowsStep, PTL DEF Spec, FramesGetThrough
=============================================================================
