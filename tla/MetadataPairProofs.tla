-------------------------- MODULE MetadataPairProofs --------------------------
(***************************************************************************)
(* Theorems about module MetadataPair: for every number of blocks, of      *)
(* commits and of units, every width of the revision count, and any number *)
(* of changes, power failures and units that do not hold.                  *)
(***************************************************************************)
EXTENDS MetadataPair, WellFoundedInduction, TLAPS

(* A set of natural numbers that has an element has a least one. *)
Below == {p \in Nat \X Nat : p[1] < p[2]}

LEMMA BelowWellFounded == IsWellFoundedOn(Below, Nat)
BY NatLessThanWellFounded, Zenon DEF OpToRel, Below

LEMMA LeastExists ==
    ASSUME NEW S, S \subseteq Nat, S # {}
    PROVE  \E x \in S : \A y \in S : x <= y
<1>1. PICK x \in S : \A y \in S : ~ (<<y, x>> \in Below)
  BY WFMin, BelowWellFounded, Zenon
<1>2. \A a, b \in Nat : a < b => <<a, b>> \in Below
  BY DEF Below
<1>3. \A y \in S : ~ (y < x)
  BY <1>1, <1>2
<1> QED
  BY <1>3

Sets == [Keys -> Values \cup {None}]
Contents == [Keys -> Values]
UnitType == [kind : {"erased", "torn", "part", "crc"}, sets : Sets]
Block == [rev : Revs, log : [1..Commits -> [1..Units -> UnitType]]]

(* What module MetadataPair says of a block, of what the block holds. *)
WholeIn(k, c) ==
  /\ \A i \in 1..(Units - 1) : k.log[c][i].kind = "part"
  /\ k.log[c][Units].kind = "crc"
ValidIn(k) == Max({n \in 0..Commits : \A c \in 1..n : WholeIn(k, c)})
SettingIn(k, n, key) == {c \in 1..n : k.log[c][Units].sets[key] # None}
EntriesIn(k) ==
  [key \in Keys |->
     IF SettingIn(k, ValidIn(k), key) = {} THEN None
     ELSE k.log[Max(SettingIn(k, ValidIn(k), key))][Units].sets[key]]
ErasedIn(k) == ValidIn(k) < Commits /\ k.log[ValidIn(k) + 1][1] = Erased
HoldsIn(k, c, sets) ==
  /\ \A i \in 1..(Units - 1) : k.log[c][i].kind = "part"
  /\ k.log[c][Units] = Crc(sets)

(* The flash is erased from the unit after the first u of commit c on. *)
Blank(k, c, u) ==
  /\ \A i \in (u + 1)..Units : k.log[c][i] = Erased
  /\ \A d \in (c + 1)..Commits : \A i \in 1..Units : k.log[d][i] = Erased

(* The first u units of commit c hold what was programmed, or are torn. *)
Programmed(k, c, u, sets) ==
  \A i \in 1..u : k.log[c][i] \in {Torn, IF i = Units THEN Crc(sets) ELSE Part}

(* A block that holds k counts beside one that holds l. *)
Counts(k, l) ==
  /\ ValidIn(k) > 0
  /\ ValidIn(l) > 0 => Newer(k.rev, l.rev)
  /\ ErasedIn(k) => Blank(k, ValidIn(k) + 1, 0)
  /\ EntriesIn(k) \in Contents

Stands(a, o) ==
  /\ a # o /\ anchor \in {<<a, o>>, <<o, a>>}
  /\ Counts(flash[a], flash[o])

(* A copy of the lfs_mdir_t is of the pair as it is. *)
HandleIn(a, o) ==
  handle # NoDir =>
    /\ handle.pair = <<a, o>> /\ handle.rev = flash[a].rev
    /\ handle.off = ValidIn(flash[a])

Overlay(content, sets) == [k \in Keys |-> IF sets[k] = None THEN content[k] ELSE sets[k]]

AtRest ==
  /\ anchor # NoPair => \E a, o \in Blocks :
        /\ Stands(a, o) /\ HandleIn(a, o)
        /\ handle # NoDir /\ ~failed => (Appendable(handle) => ErasedIn(flash[a]))
  /\ anchor = NoPair \/ pc = "off" => handle = NoDir

(* A commit that failed left its first unit torn, or not erased. *)
Spoilt(k, c) ==
  failed /\ IF units = 0 THEN k.log[c][1] # Erased ELSE k.log[c][1] = Torn

Unfinished(a, o, k, c) ==
  /\ ValidIn(k) = dir.off /\ HandleIn(a, o)
  /\ want = Overlay(EntriesIn(k), change)
  /\ ~ (units = Units /\ HoldsIn(k, c, change))
  /\ (Blank(k, c, units) /\ Programmed(k, c, units, change)) \/ Spoilt(k, c)

Finished(k, c) ==
  /\ ValidIn(k) = c /\ EntriesIn(k) = want
  /\ units = Units /\ HoldsIn(k, c, change)
  /\ ErasedIn(k) = (c < Commits)

Appending == \E a, o \in Blocks :
  /\ Stands(a, o) /\ want \in Contents
  /\ dir.pair = <<a, o>> /\ dir.rev = flash[a].rev /\ dir.off + 1 <= Commits
  /\ Unfinished(a, o, flash[a], dir.off + 1) \/ Finished(flash[a], dir.off + 1)

(* The pair is written anew to w, from a. *)
From(a, w) ==
  /\ a # w /\ dir.pair = <<a, w>> /\ want \in Contents
  /\ ~relocated => anchor # NoPair

Old(a, w) ==
  IF anchor = NoPair THEN handle = NoDir
  ELSE \E o \in Blocks : /\ Stands(a, o) /\ HandleIn(a, o)
                         /\ ~relocated => w = o

Compacting == \E a, w \in Blocks :
  /\ From(a, w) /\ Old(a, w)
  /\ Newer(NextRev(dir.rev), flash[a].rev)

Emptying == \E a, w \in Blocks :
  /\ From(a, w) /\ Old(a, w)
  /\ Newer(dir.rev, flash[a].rev) /\ change = want

Rewritten(a, w) ==
  /\ ValidIn(flash[w]) = 1 /\ EntriesIn(flash[w]) = want
  /\ Counts(flash[w], flash[a])
  /\ flash[w].rev = dir.rev /\ ErasedIn(flash[w]) = (Commits > 1)
  /\ anchor # NoPair => Stands(w, a) \/ \E o \in Blocks \ {w} : Stands(a, o)

Writing == \E a, w \in Blocks :
  /\ From(a, w) /\ Newer(dir.rev, flash[a].rev) /\ change = want
  /\ Blank(flash[w], 1, units) /\ Programmed(flash[w], 1, units, change)
  /\ units > 0 => flash[w].rev = dir.rev
  /\ IF units = Units /\ HoldsIn(flash[w], 1, change)
     THEN Rewritten(a, w) /\ (~relocated => Stands(w, a))
     ELSE ValidIn(flash[w]) = 0 /\ Old(a, w)

ToldParent ==
  \/ /\ dir = NoDir /\ handle = NoDir /\ want = NoEntries
     /\ \E a, o \in Blocks : Stands(a, o)
  \/ /\ handle \in {NoDir, dir} /\ want \in Contents
     /\ \E a, w \in Blocks : a # w /\ dir.pair = <<w, a>> /\ Rewritten(a, w)
     /\ dir.off = 1

Typed ==
  /\ TypeOK /\ flash \in [Blocks -> Block] /\ ~clobbered
  /\ pc \in {"idle", "refused", "off", "append", "compact", "erase", "write",
             "relocate tired", "relocate bad", "parent"}

PairInv ==
  /\ Typed
  /\ pc \in {"idle", "refused", "off"} => AtRest
  /\ pc = "append" => Appending
  /\ pc = "compact" => Compacting
  /\ pc \in {"erase", "relocate tired", "relocate bad"} => Emptying
  /\ pc = "write" => Writing
  /\ pc = "parent" => ToldParent

-----------------------------------------------------------------------------
(* Numbers. *)

LEMMA Inside ==
  ASSUME NEW R \in Nat \ {0}, NEW x \in Int, 0 <= x, x < R PROVE x % R = x
OBVIOUS

LEMMA Above ==
  ASSUME NEW R \in Nat \ {0}, NEW x \in Int, R <= x, x < 2 * R PROVE x % R = x - R
OBVIOUS

LEMMA Below0 ==
  ASSUME NEW R \in Nat \ {0}, NEW x \in Int, -R <= x, x < 0 PROVE x % R = x + R
OBVIOUS

LEMMA Halves == HalfRevs \in Nat /\ Modulus \in Nat /\ 3 <= Modulus /\ Modulus < HalfRevs
BY PairAssumption, WearAssumption DEF Modulus

LEMMA NextNewer ==
  ASSUME NEW r \in Revs PROVE NextRev(r) \in Revs /\ Newer(NextRev(r), r)
<1> DEFINE R == 2 * HalfRevs
<1>1. HalfRevs \in Nat /\ 4 <= HalfRevs /\ R \in Nat \ {0} /\ r \in Nat /\ r < R /\ R = 2 * HalfRevs
  BY Halves DEF Revs
<1> HIDE DEF R
<1>2. CASE r + 1 < R
  <2>1. (r + 1) % R = r + 1 /\ 1 % R = 1
    <3>1. r + 1 \in Int /\ 0 <= r + 1 /\ 1 < R
      BY <1>1, <1>2
    <3>2. (r + 1) % R = r + 1
      BY <1>1, <1>2, <3>1, Inside
    <3>3. 1 % R = 1
      BY <1>1, <3>1, Inside
    <3> QED
      BY <3>2, <3>3
  <2>2. NextRev(r) = r + 1
    BY <2>1 DEF NextRev, R
  <2>3. NextRev(r) - r = 1
    BY <1>1, <2>2
  <2> QED
    BY <1>1, <1>2, <2>1, <2>2, <2>3 DEF Newer, Revs, R
<1>3. CASE r + 1 = R
  <2>1. (r + 1) % R = 0 /\ (0 - r) % R = 1
    <3>1. 0 - r \in Int /\ -R <= 0 - r /\ 0 - r < 0 /\ (0 - r) + R = 1
      BY <1>1, <1>3
    <3>2. (0 - r) % R = 1
      BY <1>1, <3>1, Below0
    <3>3. R % R = 0
      BY <1>1, Above
    <3> QED
      BY <1>3, <3>2, <3>3
  <2>2. NextRev(r) = 0
    BY <2>1 DEF NextRev, R
  <2> QED
    BY <1>1, <1>3, <2>1, <2>2 DEF Newer, Revs, R
<1> QED
  BY <1>1, <1>2, <1>3

LEMMA NewerOneWay ==
  ASSUME NEW a \in Revs, NEW b \in Revs, Newer(a, b) PROVE ~ Newer(b, a)
<1> DEFINE R == 2 * HalfRevs
<1>1. /\ HalfRevs \in Nat /\ R \in Nat \ {0} /\ R = 2 * HalfRevs
      /\ a \in Nat /\ b \in Nat /\ a < R /\ b < R
  BY Halves DEF Revs
<1>2. (a - b) % R > 0 /\ (a - b) % R < HalfRevs
  BY DEF Newer, R
<1> HIDE DEF R
<1>3. a # b
  <2>1. 0 % R = 0
    BY <1>1, Inside
  <2> QED
    BY <1>1, <1>2, <2>1
<1>4. (b - a) % R = R - ((a - b) % R)
  <2>1. ASSUME NEW u \in Nat, NEW v \in Nat, u < R, v < u
        PROVE  (u - v) % R = u - v /\ (v - u) % R = (v - u) + R
    <3>1. /\ u - v \in Int /\ 0 <= u - v /\ u - v < R
          /\ v - u \in Int /\ -R <= v - u /\ v - u < 0
      BY <1>1, <2>1
    <3>2. (u - v) % R = u - v
      BY <1>1, <3>1, Inside
    <3>3. (v - u) % R = (v - u) + R
      BY <1>1, <3>1, Below0
    <3> QED
      BY <3>2, <3>3
  <2>2. CASE a > b
    <3>1. (a - b) % R = a - b /\ (b - a) % R = (b - a) + R
      BY <1>1, <2>1, <2>2
    <3> QED
      BY <1>1, <3>1
  <2>3. CASE a < b
    <3>1. (b - a) % R = b - a /\ (a - b) % R = (a - b) + R
      BY <1>1, <2>1, <2>3
    <3> QED
      BY <1>1, <3>1
  <2> QED
    BY <1>1, <1>3, <2>2, <2>3
<1>5. (a - b) % R \in Int
  BY <1>1
<1>6. ~ ((b - a) % R < HalfRevs)
  BY <1>1, <1>2, <1>4, <1>5
<1> QED
  BY <1>6 DEF Newer, R

LEMMA AlignNewer ==
  ASSUME NEW r \in Revs
  PROVE  AlignUp(r) \in Revs /\ Newer(NextRev(AlignUp(r)), r)
<1> DEFINE R == 2 * HalfRevs
           M == Modulus
           s == (r + M - 1) % R
           y == s - (s % M)
<1>1. /\ HalfRevs \in Nat /\ M \in Nat /\ 3 <= M /\ M < HalfRevs
      /\ R \in Nat \ {0} /\ R = 2 * HalfRevs /\ r \in Nat /\ r < R
  BY Halves DEF Revs
<1>2. AlignUp(r) = y
  BY DEF AlignUp
<1>3. /\ s = IF r + M - 1 < R THEN r + M - 1 ELSE r + M - 1 - R
      /\ s \in Nat
  <2> DEFINE x == r + M - 1
  <2>1. x \in Int /\ 0 <= x /\ x < 2 * R
    BY <1>1
  <2> HIDE DEF x, M, R
  <2>2. CASE x < R
    BY <1>1, <2>1, <2>2, Inside DEF x
  <2>3. CASE ~ (x < R)
    <3>1. R <= x
      BY <1>1, <2>1, <2>3
    <3>2. x % R = x - R
      BY <1>1, <2>1, <3>1, Above
    <3> QED
      BY <1>1, <2>1, <2>3, <3>1, <3>2 DEF x
  <2> QED
    BY <2>2, <2>3
<1> HIDE DEF R, M, s
<1>4. s % M \in 0..(M - 1) /\ s % M <= s
  BY <1>1, <1>3
<1>5. y \in Nat /\ y <= s /\ s < y + M
  BY <1>1, <1>3, <1>4
<1>6. CASE ~ (r + M - 1 < R)
  <2>1. s \in Int /\ 0 <= s /\ s < M /\ M \in Nat \ {0}
    BY <1>1, <1>3, <1>6
  <2>2. y = 0
    BY <2>1, Inside
  <2>3. NextRev(AlignUp(r)) = 1
    <3>1. 1 \in Int /\ 0 <= 1 /\ 1 < R
      BY <1>1
    <3> QED
      BY <1>1, <1>2, <2>2, <3>1, Inside DEF NextRev, R
  <2>4. (1 - r) % R = 1 - r + R
    <3>1. 1 - r \in Int /\ -R <= 1 - r /\ 1 - r < 0
      BY <1>1, <1>6
    <3> QED
      BY <1>1, <3>1, Below0
  <2>5. 1 - r + R > 0 /\ 1 - r + R < HalfRevs
    BY <1>1, <1>6
  <2> QED
    BY <1>1, <1>2, <2>2, <2>3, <2>4, <2>5 DEF Newer, Revs, R
<1>7. CASE r + M - 1 < R
  <2>1. r <= y /\ y <= r + M - 1 /\ y < R
    BY <1>1, <1>3, <1>5, <1>7
  <2>2. y + 1 - r \in Int /\ y + 1 - r > 0 /\ y + 1 - r < HalfRevs
    BY <1>1, <1>5, <2>1
  <2>3. CASE y + 1 < R
    <3>1. (y + 1) % R = y + 1
      <4>1. y + 1 \in Int /\ 0 <= y + 1
        BY <1>5
      <4> QED
        BY <1>1, <2>3, <4>1, Inside
    <3>2. (y + 1 - r) % R = y + 1 - r
      <4>1. 0 <= y + 1 - r /\ y + 1 - r < R
        BY <1>1, <2>2
      <4> QED
        BY <1>1, <2>2, <4>1, Inside
    <3>3. NextRev(AlignUp(r)) = y + 1
      BY <1>2, <3>1 DEF NextRev, R
    <3> QED
      BY <1>1, <1>2, <1>5, <2>1, <2>2, <3>2, <3>3 DEF Newer, Revs, R
  <2>4. CASE ~ (y + 1 < R)
    <3>1. y + 1 = R
      BY <1>1, <1>5, <2>1, <2>4
    <3>2. (y + 1) % R = 0
      <4>1. R % R = 0
        BY <1>1, Above
      <4> QED
        BY <3>1, <4>1
    <3>3. (0 - r) % R = y + 1 - r
      <4>1. 0 - r \in Int /\ -R <= 0 - r /\ 0 - r < 0 /\ (0 - r) + R = y + 1 - r
        BY <1>1, <1>5, <2>1, <2>2, <3>1
      <4> QED
        BY <1>1, <4>1, Below0
    <3>4. NextRev(AlignUp(r)) = 0
      BY <1>2, <3>2 DEF NextRev, R
    <3> QED
      BY <1>1, <1>2, <1>5, <2>1, <2>2, <3>3, <3>4 DEF Newer, Revs, R
  <2> QED
    BY <2>3, <2>4
<1> QED
  BY <1>6, <1>7

LEMMA MaxOf ==
  ASSUME NEW n \in Nat, NEW S, S \subseteq 0..n, S # {}
  PROVE  Max(S) \in S /\ \A y \in S : y <= Max(S)
<1> DEFINE T == {n - x : x \in S}
<1>1. T \subseteq Nat /\ T # {}
  <2>1. \A x \in S : n - x \in Nat
    OBVIOUS
  <2> QED
    BY <2>1
<1>2. PICK t \in T : \A u \in T : t <= u
  BY <1>1, LeastExists
<1>3. PICK x \in S : t = n - x
  OBVIOUS
<1>4. \A y \in S : n - x <= n - y
  BY <1>2, <1>3
<1>5. ASSUME NEW y \in S PROVE x >= y
  <2>1. x \in Int /\ y \in Int /\ n - x <= n - y
    BY <1>4
  <2> QED
    BY <2>1
<1>6. \E z \in S : \A y \in S : z >= y
  BY <1>5
<1>7. Max(S) \in S /\ \A y \in S : Max(S) >= y
  BY <1>6, Zenon DEF Max
<1> QED
  BY <1>7

-----------------------------------------------------------------------------
(* What a block says. *)

LEMMA Sizes == Units \in Nat /\ Units >= 1 /\ Commits \in Nat /\ Commits >= 1
BY PairAssumption

LEMMA ValidIs ==
  ASSUME NEW b, NEW n \in 0..Commits, \A c \in 1..n : WholeIn(b, c),
         n < Commits => ~ WholeIn(b, n + 1)
  PROVE  ValidIn(b) = n
<1> DEFINE S == {m \in 0..Commits : \A c \in 1..m : WholeIn(b, c)}
<1>1. ValidIn(b) = Max(S)
  BY DEF ValidIn
<1>2. n \in S
  OBVIOUS
<1>3. ASSUME NEW m \in S PROVE m <= n
  <2>1. m \in Nat /\ m <= Commits /\ n \in Nat /\ \A c \in 1..m : WholeIn(b, c)
    BY Sizes
  <2>2. CASE m > n
    <3>1. n + 1 \in 1..m /\ n < Commits
      BY <2>1, <2>2, Sizes
    <3> QED
      BY <2>1, <3>1
  <2> QED
    BY <2>1, <2>2
<1>4. S \subseteq 0..Commits /\ S # {}
  BY <1>2
<1> HIDE DEF S
<1>5. Max(S) \in S /\ \A m \in S : m <= Max(S)
  BY <1>4, MaxOf, Sizes
<1>6. Max(S) \in 0..Commits
  BY <1>4, <1>5
<1>7. n <= Max(S) /\ Max(S) <= n
  BY <1>2, <1>3, <1>5
<1> QED
  BY <1>1, <1>6, <1>7, Sizes

LEMMA ValidFacts ==
  ASSUME NEW b
  PROVE  /\ ValidIn(b) \in 0..Commits /\ \A c \in 1..ValidIn(b) : WholeIn(b, c)
         /\ ValidIn(b) < Commits => ~ WholeIn(b, ValidIn(b) + 1)
<1> DEFINE S == {m \in 0..Commits : \A c \in 1..m : WholeIn(b, c)}
<1>1. ValidIn(b) = Max(S)
  BY DEF ValidIn
<1>2. 0 \in S
  BY Sizes
<1>3. S \subseteq 0..Commits /\ S # {}
  BY <1>2
<1>4. \A m \in 0..Commits : (\A c \in 1..m : WholeIn(b, c)) <=> m \in S
  OBVIOUS
<1> HIDE DEF S
<1>5. Max(S) \in S /\ \A m \in S : m <= Max(S)
  BY <1>3, MaxOf, Sizes
<1>6. Max(S) \in 0..Commits /\ \A c \in 1..Max(S) : WholeIn(b, c)
  BY <1>3, <1>4, <1>5
<1>7. ASSUME Max(S) < Commits, WholeIn(b, Max(S) + 1) PROVE FALSE
  <2>1. Max(S) + 1 \in 0..Commits /\ \A c \in 1..(Max(S) + 1) : WholeIn(b, c)
    BY <1>6, <1>7, Sizes
  <2>2. Max(S) + 1 \in S
    BY <1>4, <2>1
  <2> QED
    BY <1>5, <1>6, <2>2
<1> QED
  BY <1>1, <1>6, <1>7

(* The entries a block's first n commits make. *)
LEMMA EntryFacts ==
  ASSUME NEW b, NEW k \in Keys
  PROVE  /\ SettingIn(b, ValidIn(b), k) = {} => EntriesIn(b)[k] = None
         /\ \A c \in SettingIn(b, ValidIn(b), k) :
               (\A d \in SettingIn(b, ValidIn(b), k) : d <= c)
                  => EntriesIn(b)[k] = b.log[c][Units].sets[k]
<1> DEFINE S == SettingIn(b, ValidIn(b), k)
<1>1. EntriesIn(b)[k] = IF S = {} THEN None ELSE b.log[Max(S)][Units].sets[k]
  BY DEF EntriesIn, SettingIn
<1>2. S \subseteq 0..Commits
  BY ValidFacts, Sizes DEF SettingIn
<1> HIDE DEF S
<1>3. ASSUME NEW c \in S, \A d \in S : d <= c PROVE Max(S) = c
  <2>1. Max(S) \in S /\ c <= Max(S)
    BY <1>2, <1>3, MaxOf, Sizes
  <2>2. c \in 0..Commits /\ Max(S) \in 0..Commits /\ Max(S) <= c
    BY <1>2, <1>3, <2>1
  <2> QED
    BY <2>1, <2>2, Sizes
<1> QED
  BY <1>1, <1>3 DEF S

LEMMA EntriesDomain == \A b : EntriesIn(b) = [k \in Keys |-> EntriesIn(b)[k]]
BY DEF EntriesIn

LEMMA ValidMeansWhole == \A k : ValidIn(k) > 0 <=> WholeIn(k, 1)
<1> SUFFICES ASSUME NEW k PROVE ValidIn(k) > 0 <=> WholeIn(k, 1)
  OBVIOUS
<1>1. /\ ValidIn(k) \in 0..Commits /\ \A c \in 1..ValidIn(k) : WholeIn(k, c)
      /\ ValidIn(k) < Commits => ~ WholeIn(k, ValidIn(k) + 1)
  BY ValidFacts
<1>2. CASE ValidIn(k) = 0
  BY <1>1, <1>2, Sizes
<1>3. CASE ValidIn(k) # 0
  BY <1>1, <1>3, Sizes
<1> QED
  BY <1>2, <1>3

(* The module's own definitions, by what the blocks hold. *)
ActiveIn(f, pair) ==
  LET n == IF Newer(f[pair[2]].rev, f[pair[1]].rev) THEN pair[2] ELSE pair[1]
  IN IF ValidIn(f[n]) > 0 THEN n ELSE Other(pair, n)

LEMMA Views ==
  /\ \A b \in Blocks : /\ Valid[b] = ValidIn(flash[b]) /\ Entries[b] = EntriesIn(flash[b])
                      /\ EndsErased(b) = ErasedIn(flash[b])
  /\ \A b, c, sets : Holds(b, c) = HoldsIn(flash[b], c, change)
  /\ \A pair \in Blocks \X Blocks : Active[pair] = ActiveIn(flash, pair)
<1>1. ASSUME NEW b \in Blocks PROVE Valid[b] = ValidIn(flash[b])
  BY DEF Valid, ValidIn, Whole, WholeIn
<1>2. ASSUME NEW b \in Blocks PROVE Entries[b] = EntriesIn(flash[b])
  BY <1>1 DEF Entries, EntriesIn, SettingIn
<1>3. ASSUME NEW b \in Blocks PROVE EndsErased(b) = ErasedIn(flash[b])
  BY <1>1 DEF EndsErased, ErasedIn
<1>4. \A b, c, sets : Holds(b, c) = HoldsIn(flash[b], c, change)
  BY DEF Holds, HoldsIn
<1>5. ASSUME NEW pair \in Blocks \X Blocks PROVE Active[pair] = ActiveIn(flash, pair)
  <2>1. Newest(pair) \in Blocks
    BY DEF Newest
  <2> QED
    BY <1>1, <2>1 DEF Active, ActiveIn, Newest
<1> QED
  BY <1>1, <1>2, <1>3, <1>4, <1>5

LEMMA NextViews ==
  /\ \A b \in Blocks : Valid'[b] = ValidIn(flash'[b]) /\ Entries'[b] = EntriesIn(flash'[b])
  /\ \A pair \in Blocks \X Blocks : Active'[pair] = ActiveIn(flash', pair)
<1>1. ASSUME NEW b \in Blocks PROVE Valid'[b] = ValidIn(flash'[b])
  BY DEF Valid, ValidIn, Whole, WholeIn
<1>2. ASSUME NEW b \in Blocks PROVE Entries'[b] = EntriesIn(flash'[b])
  BY <1>1 DEF Entries, EntriesIn, SettingIn
<1>3. ASSUME NEW pair \in Blocks \X Blocks PROVE Active'[pair] = ActiveIn(flash', pair)
  <2>1. Newest(pair)' \in Blocks
    BY DEF Newest
  <2> QED
    BY <1>1, <2>1 DEF Active, ActiveIn, Newest
<1> QED
  BY <1>1, <1>2, <1>3

LEMMA Choice ==
  ASSUME NEW f \in [Blocks -> Block], NEW a \in Blocks, NEW o \in Blocks, a # o,
         NEW pair, pair \in {<<a, o>>, <<o, a>>}, Counts(f[a], f[o])
  PROVE  ActiveIn(f, pair) = a /\ Other(pair, a) = o /\ pair \in Blocks \X Blocks
<1>1. f[a].rev \in Revs /\ f[o].rev \in Revs
  BY DEF Block
<1>2. ValidIn(f[a]) > 0 /\ (ValidIn(f[o]) > 0 => Newer(f[a].rev, f[o].rev))
  BY DEF Counts
<1>3. ValidIn(f[o]) > 0 => ~ Newer(f[o].rev, f[a].rev)
  BY <1>1, <1>2, NewerOneWay
<1>4. CASE pair = <<a, o>>
  BY <1>2, <1>3, <1>4 DEF ActiveIn, Other
<1>5. CASE pair = <<o, a>>
  BY <1>2, <1>3, <1>5 DEF ActiveIn, Other
<1> QED
  BY <1>4, <1>5

LEMMA ContentIs ==
  ASSUME flash \in [Blocks -> Block], NEW a \in Blocks, NEW o \in Blocks, Stands(a, o)
  PROVE  /\ anchor # NoPair /\ Content = EntriesIn(flash[a])
         /\ Fetch(anchor) = [pair |-> <<a, o>>, rev |-> flash[a].rev,
                             off |-> ValidIn(flash[a]), erased |-> ErasedIn(flash[a])]
<1>1. /\ ActiveIn(flash, anchor) = a /\ Other(anchor, a) = o /\ anchor \in Blocks \X Blocks
  BY Choice DEF Stands
<1>2. anchor # NoPair
  BY DEF Stands, NoPair
<1> QED
  BY <1>1, <1>2, Views DEF Content, Fetch

LEMMA NextContentIs ==
  ASSUME flash' \in [Blocks -> Block], NEW a \in Blocks, NEW o \in Blocks, Stands(a, o)'
  PROVE  anchor' # NoPair /\ Content' = EntriesIn(flash'[a])
<1>1. ActiveIn(flash', anchor') = a /\ anchor' \in Blocks \X Blocks
  BY Choice DEF Stands
<1>2. anchor' # NoPair
  BY DEF Stands, NoPair
<1> QED
  BY <1>1, <1>2, NextViews DEF Content

-----------------------------------------------------------------------------
(* What becomes of a block that changes. *)

LEMMA SettingOf ==
  ASSUME NEW k, NEW l, NEW n \in 0..Commits, NEW key,
         \A c \in 1..n : l.log[c] = k.log[c]
  PROVE  SettingIn(l, n, key) = SettingIn(k, n, key)
BY DEF SettingIn

LEMMA SameEntries ==
  ASSUME NEW k, NEW l, ValidIn(l) = ValidIn(k),
         \A c \in 1..ValidIn(k) : l.log[c] = k.log[c]
  PROVE  EntriesIn(l) = EntriesIn(k)
<1>1. ASSUME NEW key \in Keys PROVE EntriesIn(l)[key] = EntriesIn(k)[key]
  <2> DEFINE S == SettingIn(k, ValidIn(k), key)
  <2>1. ValidIn(k) \in 0..Commits
    BY ValidFacts
  <2>2. SettingIn(l, ValidIn(l), key) = S
    BY <2>1, SettingOf
  <2>3. S \subseteq 1..ValidIn(k) /\ S \subseteq 0..ValidIn(k) /\ ValidIn(k) \in Nat
    BY <2>1, Sizes DEF SettingIn
  <2>4. CASE S = {}
    BY <2>2, <2>4, EntryFacts
  <2>5. CASE S # {}
    <3> HIDE DEF S
    <3>1. PICK c \in S : \A d \in S : d <= c
      BY <2>3, <2>5, MaxOf
    <3>2. l.log[c] = k.log[c]
      BY <2>3, <3>1
    <3>3. EntriesIn(k)[key] = k.log[c][Units].sets[key]
      BY <3>1, EntryFacts DEF S
    <3>4. EntriesIn(l)[key] = l.log[c][Units].sets[key]
      BY <2>2, <3>1, EntryFacts DEF S
    <3> QED
      BY <3>2, <3>3, <3>4
  <2> QED
    BY <2>4, <2>5
<1> QED
  BY <1>1, EntriesDomain

LEMMA OneMore ==
  ASSUME NEW k, NEW l, ValidIn(l) = ValidIn(k) + 1,
         \A c \in 1..ValidIn(k) : l.log[c] = k.log[c]
  PROVE  EntriesIn(l) = Overlay(EntriesIn(k), l.log[ValidIn(l)][Units].sets)
<1> DEFINE n == ValidIn(k)
           sets == l.log[n + 1][Units].sets
<1>1. n \in Nat /\ n \in 0..Commits
  BY ValidFacts, Sizes
<1>2. ASSUME NEW key \in Keys
      PROVE  EntriesIn(l)[key] = IF sets[key] = None THEN EntriesIn(k)[key] ELSE sets[key]
  <2> DEFINE S == SettingIn(k, n, key)
  <2>1. S \subseteq 1..n /\ S \subseteq 0..n
    BY <1>1 DEF SettingIn
  <2>2. SettingIn(l, n, key) = S
    BY <1>1, SettingOf
  <2>3. SettingIn(l, n + 1, key) = S \cup (IF sets[key] = None THEN {} ELSE {n + 1})
    BY <1>1, <2>2 DEF SettingIn
  <2>4. CASE sets[key] # None
    <3>1. n + 1 \in SettingIn(l, n + 1, key) /\ \A d \in SettingIn(l, n + 1, key) : d <= n + 1
      BY <1>1, <2>4 DEF SettingIn
    <3>2. EntriesIn(l)[key] = l.log[n + 1][Units].sets[key]
      BY <3>1, EntryFacts
    <3> QED
      BY <2>4, <3>2
  <2>5. CASE sets[key] = None /\ S = {}
    BY <2>3, <2>5, EntryFacts
  <2>6. CASE sets[key] = None /\ S # {}
    <3>0. SettingIn(l, n + 1, key) = S
      BY <2>3, <2>6
    <3> HIDE DEF S
    <3>1. PICK c \in S : \A d \in S : d <= c
      BY <1>1, <2>1, <2>6, MaxOf
    <3>2. l.log[c] = k.log[c]
      BY <2>1, <3>1
    <3>3. EntriesIn(k)[key] = k.log[c][Units].sets[key]
      BY <3>1, EntryFacts DEF S
    <3>4. EntriesIn(l)[key] = l.log[c][Units].sets[key]
      BY <3>0, <3>1, EntryFacts
    <3> QED
      BY <2>6, <3>2, <3>3, <3>4
  <2> QED
    BY <2>4, <2>5, <2>6
<1> QED
  BY <1>2, EntriesDomain DEF Overlay

LEMMA OnlyOne ==
  ASSUME NEW l, ValidIn(l) = 1, l.log[1][Units].sets \in Sets
  PROVE  EntriesIn(l) = l.log[1][Units].sets
<1>1. ASSUME NEW key \in Keys PROVE EntriesIn(l)[key] = l.log[1][Units].sets[key]
  <2>1. SettingIn(l, 1, key) = IF l.log[1][Units].sets[key] = None THEN {} ELSE {1}
    BY DEF SettingIn
  <2>2. CASE l.log[1][Units].sets[key] = None
    BY <2>1, <2>2, EntryFacts
  <2>3. CASE l.log[1][Units].sets[key] # None
    BY <2>1, <2>3, EntryFacts
  <2> QED
    BY <2>2, <2>3
<1> QED
  BY <1>1, EntriesDomain DEF Sets

(* A block of which only the commit after the last whole one differs. *)
LEMMA NotHeld ==
  ASSUME NEW k, NEW l, ValidIn(k) < Commits,
         \A d \in 1..ValidIn(k) : l.log[d] = k.log[d],
         ~ WholeIn(l, ValidIn(k) + 1)
  PROVE  ValidIn(l) = ValidIn(k) /\ EntriesIn(l) = EntriesIn(k)
<1>1. ValidIn(k) \in 0..Commits /\ \A c \in 1..ValidIn(k) : WholeIn(k, c)
  BY ValidFacts
<1>2. \A c \in 1..ValidIn(k) : WholeIn(l, c)
  BY <1>1 DEF WholeIn
<1>3. ValidIn(l) = ValidIn(k)
  BY <1>1, <1>2, ValidIs
<1> QED
  BY <1>3, SameEntries

LEMMA NowHeld ==
  ASSUME NEW k, NEW l, ValidIn(k) < Commits,
         \A d \in 1..ValidIn(k) : l.log[d] = k.log[d],
         WholeIn(l, ValidIn(k) + 1),
         ValidIn(k) + 1 < Commits => ~ WholeIn(l, ValidIn(k) + 2)
  PROVE  /\ ValidIn(l) = ValidIn(k) + 1
         /\ EntriesIn(l) = Overlay(EntriesIn(k), l.log[ValidIn(k) + 1][Units].sets)
<1>1. ValidIn(k) \in 0..Commits /\ \A c \in 1..ValidIn(k) : WholeIn(k, c)
  BY ValidFacts
<1>2. ValidIn(k) + 1 \in 0..Commits
  BY <1>1, Sizes
<1>3. \A c \in 1..ValidIn(k) : WholeIn(l, c)
  BY <1>1 DEF WholeIn
<1>4. \A c \in 1..(ValidIn(k) + 1) : c \in 1..ValidIn(k) \/ c = ValidIn(k) + 1
  BY <1>1, Sizes
<1>5. \A c \in 1..(ValidIn(k) + 1) : WholeIn(l, c)
  BY <1>3, <1>4
<1>6. (ValidIn(k) + 1) + 1 = ValidIn(k) + 2
  BY <1>1, Sizes
<1>7. ValidIn(l) = ValidIn(k) + 1
  BY <1>2, <1>5, <1>6, ValidIs
<1> QED
  BY <1>7, OneMore

LEMMA Kinds ==
  /\ Erased.kind # "part" /\ Erased.kind # "crc"
  /\ Torn.kind # "part" /\ Torn.kind # "crc" /\ Torn # Erased
  /\ Part.kind = "part" /\ Part # Erased /\ Part # Torn
  /\ \A sets : /\ Crc(sets).kind = "crc" /\ Crc(sets) # Erased /\ Crc(sets) # Torn
               /\ Crc(sets) # Part /\ Crc(sets).sets = sets
  /\ NoEntries \in Sets /\ {Erased, Torn, Part} \subseteq UnitType
  /\ \A sets \in Sets : Crc(sets) \in UnitType
BY DEF Erased, Torn, Part, Crc, Unit, UnitType, Sets, NoEntries

(* Of what is neither in the middle of a commit nor torn. *)
LEMMA FirstTells ==
  ASSUME NEW k, NEW c, k.log[c][1] \in {Erased, Torn} PROVE ~ WholeIn(k, c)
<1>1. CASE Units = 1
  BY <1>1, Kinds DEF WholeIn
<1>2. CASE Units > 1
  <2>1. 1 \in 1..(Units - 1)
    BY <1>2, Sizes
  <2> QED
    BY <2>1, Kinds DEF WholeIn
<1> QED
  BY <1>1, <1>2, Sizes

LEMMA ProgrammedTells ==
  ASSUME NEW k, NEW c, NEW u \in 0..Units, NEW sets,
         Blank(k, c, u), Programmed(k, c, u, sets)
  PROVE  /\ WholeIn(k, c) <=> u = Units /\ HoldsIn(k, c, sets)
         /\ c + 1 \in 1..Commits => ~ WholeIn(k, c + 1)
<1>1. ASSUME u < Units PROVE ~ WholeIn(k, c) /\ u # Units
  <2>1. Units \in (u + 1)..Units
    BY <1>1, Sizes
  <2>2. ~ WholeIn(k, c)
    BY <2>1, Kinds DEF WholeIn, Blank
  <2> QED
    BY <1>1, <2>2, Sizes
<1>2. ASSUME u = Units PROVE WholeIn(k, c) <=> HoldsIn(k, c, sets)
  <2>1. k.log[c][Units] \in {Torn, Crc(sets)}
    BY <1>2, Sizes DEF Programmed
  <2> QED
    BY <2>1, Kinds DEF WholeIn, HoldsIn
<1>3. ASSUME c + 1 \in 1..Commits PROVE ~ WholeIn(k, c + 1)
  <2>1. k.log[c + 1][1] = Erased
    BY <1>3, Sizes DEF Blank
  <2> QED
    BY <2>1, FirstTells
<1>4. u < Units \/ u = Units
  BY Sizes
<1>5. WholeIn(k, c) <=> u = Units /\ HoldsIn(k, c, sets)
  BY <1>1, <1>2, <1>4, Zenon
<1> QED
  BY <1>3, <1>5, Zenon

LEMMA ErasedSays ==
  /\ ErasedBlock \in Block /\ ValidIn(ErasedBlock) = 0
  /\ Blank(ErasedBlock, 1, 0)
  /\ \A sets : Programmed(ErasedBlock, 1, 0, sets)
<1>1. \A c \in 1..Commits, i \in 1..Units : ErasedBlock.log[c][i] = Erased
  BY DEF ErasedBlock
<1>2. ErasedBlock \in Block
  BY Halves, Kinds DEF ErasedBlock, Block, Revs
<1>3. ErasedBlock.log[1][1] = Erased
  BY <1>1, Sizes
<1>4. ValidIn(ErasedBlock) = 0
  BY <1>3, FirstTells, ValidFacts, ValidMeansWhole, Sizes
<1>5. Blank(ErasedBlock, 1, 0)
  BY <1>1, Sizes DEF Blank
<1> QED
  BY <1>2, <1>4, <1>5 DEF Programmed

(* One more unit is programmed, where the flash was erased or not. *)
LEMMA ProgDoes ==
  ASSUME flash \in [Blocks -> Block], NEW b \in Blocks, NEW c \in 1..Commits,
         units \in 0..(Units - 1), change \in Sets, dir.rev \in Revs, Prog(b, c)
  PROVE  /\ flash' \in [Blocks -> Block]
         /\ \A x \in Blocks \ {b} : flash'[x] = flash[x]
         /\ \A d \in (1..Commits) \ {c} : flash'[b].log[d] = flash[b].log[d]
         /\ \A i \in (1..Units) \ {units + 1} : flash'[b].log[c][i] = flash[b].log[c][i]
         /\ flash'[b].log[c][units + 1]
              \in {Torn, IF units + 1 = Units THEN Crc(change) ELSE Part}
         /\ flash[b].log[c][units + 1] # Erased => flash'[b].log[c][units + 1] = Torn
         /\ flash'[b].rev = IF units = 0 /\ pc = "write" THEN dir.rev ELSE flash[b].rev
         /\ units' = units + 1
         /\ UNCHANGED <<anchor, dir, handle, pc, want, change, relocated, failed>>
<1> DEFINE was == flash[b].log[c][units + 1]
           unit == IF units + 1 = Units THEN Crc(change) ELSE Part
<1>1. PICK u \in {Torn, unit} : flash' = Written(b, c, u) /\ (was # Erased => u = Torn)
  BY DEF Prog
<1>2. u \in UnitType
  BY Kinds
<1>3. units + 1 \in 1..Units
  BY Sizes
<1>4. /\ units' = units + 1
      /\ UNCHANGED <<anchor, dir, handle, pc, want, change, relocated, failed>>
  BY DEF Prog
<1>5. /\ flash[b] = [rev |-> flash[b].rev, log |-> flash[b].log]
      /\ flash[b].log \in [1..Commits -> [1..Units -> UnitType]]
      /\ flash[b].rev \in Revs
  BY DEF Block
<1> DEFINE rev == IF units = 0 /\ pc = "write" THEN dir.rev ELSE flash[b].rev
           log == [flash[b].log EXCEPT ![c][units + 1] = u]
<1>6. /\ flash'[b] = [rev |-> rev, log |-> log]
      /\ \A x \in Blocks \ {b} : flash'[x] = flash[x]
      /\ flash' = [x \in Blocks |-> flash'[x]]
  BY <1>1, <1>5 DEF Written
<1>7. /\ log \in [1..Commits -> [1..Units -> UnitType]] /\ rev \in Revs
      /\ log[c][units + 1] = u
      /\ \A d \in (1..Commits) \ {c} : log[d] = flash[b].log[d]
      /\ \A i \in (1..Units) \ {units + 1} : log[c][i] = flash[b].log[c][i]
  BY <1>2, <1>3, <1>5
<1> HIDE DEF rev, log, unit, was
<1>8. [rev |-> rev, log |-> log] \in Block
  BY <1>7 DEF Block
<1>9. flash' \in [Blocks -> Block]
  <2>1. \A x \in Blocks : flash'[x] \in Block
    BY <1>6, <1>8
  <2>2. flash' = [x \in Blocks |-> flash'[x]]
    BY <1>6
  <2> QED
    BY <2>1, <2>2
<1> QED
  BY <1>1, <1>4, <1>6, <1>7, <1>9 DEF rev, unit, was

(* What follows, of the block before and after. *)
Further(k, l, c, u, sets) ==
  /\ \A d \in (1..Commits) \ {c} : l.log[d] = k.log[d]
  /\ \A i \in (1..Units) \ {u + 1} : l.log[c][i] = k.log[c][i]
  /\ l.log[c][u + 1] \in {Torn, IF u + 1 = Units THEN Crc(sets) ELSE Part}

LEMMA ProgFurther ==
  ASSUME NEW k, NEW l, NEW c \in 1..Commits, NEW u \in 0..(Units - 1), NEW sets,
         Further(k, l, c, u, sets), Blank(k, c, u), Programmed(k, c, u, sets)
  PROVE  /\ Blank(l, c, u + 1) /\ Programmed(l, c, u + 1, sets)
         /\ l.log[c][1] # Erased /\ k.log[c][u + 1] = Erased
<1>1. \A i \in (u + 2)..Units : i \in (1..Units) \ {u + 1} /\ i \in (u + 1)..Units
  BY Sizes
<1>2. \A d \in (c + 1)..Commits : d \in (1..Commits) \ {c}
  BY Sizes
<1>3. (u + 1) + 1 = u + 2 /\ u + 1 \in (u + 1)..Units /\ 1 \in 1..(u + 1)
  BY Sizes
<1>4. Blank(l, c, u + 1) /\ k.log[c][u + 1] = Erased
  BY <1>1, <1>2, <1>3 DEF Blank, Further
<1>5. \A i \in 1..(u + 1) : i = u + 1 \/ (i \in 1..u /\ i \in (1..Units) \ {u + 1})
  BY Sizes
<1>6. Programmed(l, c, u + 1, sets)
  BY <1>5 DEF Further, Programmed
<1>7. l.log[c][1] # Erased
  BY <1>3, <1>6, Kinds DEF Programmed
<1> QED
  BY <1>4, <1>6, <1>7

LEMMA HoldsIsWhole ==
  \A k, c, sets : HoldsIn(k, c, sets) => WholeIn(k, c) /\ k.log[c][Units].sets = sets
BY Kinds DEF HoldsIn, WholeIn

(* Power failed while a block was written: some units are torn, and its    *)
(* revision may be anything when the first is one of them.                  *)
LEMMA GarbledIs ==
  ASSUME flash \in [Blocks -> Block], NEW b \in Blocks, NEW slots, NEW l \in Garbled(b, slots)
  PROVE  /\ l \in Block
         /\ \A c \in 1..Commits, i \in 1..Units :
               l.log[c][i] = IF <<c, i>> \in slots THEN Torn ELSE flash[b].log[c][i]
         /\ \A c \in 1..Commits :
               (\A i \in 1..Units : <<c, i>> \notin slots) => l.log[c] = flash[b].log[c]
         /\ <<1, 1>> \notin slots => l.rev = flash[b].rev
<1>1. /\ flash[b].log \in [1..Commits -> [1..Units -> UnitType]]
      /\ flash[b].rev \in Revs
  BY DEF Block
<1> DEFINE log == [c \in 1..Commits |-> [i \in 1..Units |->
                      IF <<c, i>> \in slots THEN Torn ELSE flash[b].log[c][i]]]
<1>2. PICK rev \in Revs : l = [rev |-> rev, log |-> log]
                           /\ (<<1, 1>> \notin slots => rev = flash[b].rev)
  BY <1>1 DEF Garbled
<1>3. log \in [1..Commits -> [1..Units -> UnitType]]
  BY <1>1, Kinds
<1>4. \A c \in 1..Commits, i \in 1..Units :
        log[c][i] = IF <<c, i>> \in slots THEN Torn ELSE flash[b].log[c][i]
  OBVIOUS
<1>5. ASSUME NEW c \in 1..Commits, \A i \in 1..Units : <<c, i>> \notin slots
      PROVE  log[c] = flash[b].log[c]
  <2>1. log[c] \in [1..Units -> UnitType] /\ flash[b].log[c] \in [1..Units -> UnitType]
    BY <1>1, <1>3
  <2>2. \A i \in 1..Units : log[c][i] = flash[b].log[c][i]
    BY <1>4, <1>5
  <2> HIDE DEF log
  <2>3. /\ log[c] = [i \in 1..Units |-> log[c][i]]
        /\ flash[b].log[c] = [i \in 1..Units |-> flash[b].log[c][i]]
    BY <2>1
  <2> QED
    BY <2>2, <2>3
<1> HIDE DEF log
<1>6. l.log = log /\ l.rev = rev /\ l \in Block
  BY <1>2, <1>3 DEF Block
<1> QED
  BY <1>2, <1>4, <1>5, <1>6

LEMMA TornTells ==
  ASSUME NEW k, NEW c, NEW i \in 1..Units, k.log[c][i] = Torn PROVE ~ WholeIn(k, c)
<1>1. CASE i = Units
  BY <1>1, Kinds DEF WholeIn
<1>2. CASE i # Units
  <2>1. i \in 1..(Units - 1)
    BY <1>2, Sizes
  <2> QED
    BY <2>1, Kinds DEF WholeIn
<1> QED
  BY <1>1, <1>2

(* A block that is garbled does not become valid. *)
LEMMA GarbledCounts ==
  ASSUME flash \in [Blocks -> Block], NEW b \in Blocks, NEW slots, NEW l \in Garbled(b, slots),
         NEW k, Counts(k, flash[b])
  PROVE  Counts(k, l)
<1>1. ASSUME ValidIn(l) > 0 PROVE ValidIn(flash[b]) > 0 /\ l.rev = flash[b].rev
  <2>1. WholeIn(l, 1) /\ 1 \in 1..Commits
    BY <1>1, ValidMeansWhole, Sizes
  <2>2. \A i \in 1..Units : l.log[1][i] # Torn
    BY <2>1, TornTells
  <2>3. \A i \in 1..Units : <<1, i>> \notin slots
    BY <2>1, <2>2, GarbledIs
  <2>4. l.log[1] = flash[b].log[1] /\ l.rev = flash[b].rev
    BY <2>1, <2>3, GarbledIs, Sizes
  <2>5. WholeIn(flash[b], 1)
    BY <2>1, <2>4 DEF WholeIn
  <2> QED
    BY <2>4, <2>5, ValidMeansWhole
<1> QED
  BY <1>1 DEF Counts

-----------------------------------------------------------------------------
(* PairInv is inductive: the initial states, and a step of each action.    *)

LEMMA NoDirTyped == NoDir \in Dirs /\ NoDir.pair = NoPair
BY Halves, Sizes DEF NoDir, Dirs, Revs

LEMMA DirTyped ==
  ASSUME NEW a \in Blocks, NEW o \in Blocks, NEW r \in Revs, NEW n \in 0..Commits, NEW e \in BOOLEAN
  PROVE  [pair |-> <<a, o>>, rev |-> r, off |-> n, erased |-> e] \in Dirs
BY DEF Dirs

LEMMA ContentsAreSets == Contents \subseteq Sets
BY DEF Contents, Sets

LEMMA StartsWell == Init => PairInv
<1> SUFFICES ASSUME Init PROVE PairInv
  OBVIOUS
<1>1. flash \in [Blocks -> Block]
  BY ErasedSays DEF Init
<1>2. TypeOK
  BY <1>1, NoDirTyped, Sizes, Kinds DEF Init, TypeOK, Block, Sets
<1>3. Typed
  BY <1>1, <1>2 DEF Init, Typed
<1>4. AtRest
  BY DEF Init, AtRest
<1> QED
  BY <1>3, <1>4 DEF Init, PairInv

(* Where a step leads to. *)
LEMMA Leads ==
  /\ Typed' /\ pc' \in {"idle", "refused", "off"} /\ AtRest' => PairInv'
  /\ Typed' /\ pc' = "append" /\ Appending' => PairInv'
  /\ Typed' /\ pc' = "compact" /\ Compacting' => PairInv'
  /\ Typed' /\ pc' \in {"erase", "relocate tired", "relocate bad"} /\ Emptying' => PairInv'
  /\ Typed' /\ pc' = "write" /\ Writing' => PairInv'
  /\ Typed' /\ pc' = "parent" /\ ToldParent' => PairInv'
BY Zenon DEF PairInv

LEMMA TypedNext ==
  ASSUME flash' \in [Blocks -> Block], anchor' \in {NoPair} \cup (Blocks \X Blocks),
         dir' \in Dirs, handle' \in Dirs, units' \in 0..Units, want' \in Sets, change' \in Sets,
         ~ clobbered',
         pc' \in {"idle", "refused", "off", "append", "compact", "erase", "write",
                 "relocate tired", "relocate bad", "parent"}
  PROVE  Typed'
<1>1. \A b \in Blocks : flash'[b].rev \in Revs
  BY DEF Block
<1>2. TypeOK'
  BY <1>1 DEF TypeOK, Sets
<1> QED
  BY <1>2 DEF Typed

(* What a change of one entry makes of the content. *)
LEMMA Changed ==
  ASSUME NEW content \in Contents, NEW k \in Keys, NEW v \in Values
  PROVE  /\ [content EXCEPT ![k] = v] \in Contents
         /\ [NoEntries EXCEPT ![k] = v] \in Sets
         /\ [content EXCEPT ![k] = v] = Overlay(content, [NoEntries EXCEPT ![k] = v])
<1> DEFINE new == [content EXCEPT ![k] = v]
           sets == [NoEntries EXCEPT ![k] = v]
<1>1. v \in Nat /\ v # None
  BY PairAssumption DEF None
<1>2. new \in Contents /\ sets \in Sets
  BY DEF Contents, Sets, NoEntries
<1>3. ASSUME NEW j \in Keys PROVE new[j] = IF sets[j] = None THEN content[j] ELSE sets[j]
  BY <1>1 DEF Contents, NoEntries
<1>4. new = [j \in Keys |-> new[j]]
  BY DEF Contents
<1> HIDE DEF new, sets
<1>5. new = Overlay(content, sets)
  BY <1>3, <1>4 DEF Overlay
<1> QED
  BY <1>2, <1>5 DEF new, sets

LEMMA BlockFacts ==
  ASSUME flash \in [Blocks -> Block], NEW b \in Blocks
  PROVE  flash[b].rev \in Revs /\ ValidIn(flash[b]) \in 0..Commits /\ ErasedIn(flash[b]) \in BOOLEAN
BY ValidFacts DEF Block, ErasedIn

LEMMA Types ==
  PairInv => /\ flash \in [Blocks -> Block] /\ dir \in Dirs /\ handle \in Dirs
             /\ want \in Sets /\ change \in Sets /\ units \in 0..Units
             /\ anchor \in {NoPair} \cup (Blocks \X Blocks) /\ ~ clobbered
BY DEF PairInv, Typed, TypeOK, Sets

LEMMA BeginKeeps ==
  ASSUME PairInv, NEW k \in Keys, NEW v \in Values, Begin(k, v) \/ BeginOpen(k, v)
  PROVE  PairInv'
<1>1. /\ Typed /\ TypeOK /\ flash \in [Blocks -> Block] /\ anchor # NoPair /\ AtRest
      /\ UNCHANGED <<flash, anchor, clobbered, failed>>
      /\ units' = 0 /\ relocated' = FALSE
      /\ want' = [Content EXCEPT ![k] = v] /\ change' = [NoEntries EXCEPT ![k] = v]
      /\ handle' = dir'
      /\ pc' = IF Appendable(dir') THEN "append" ELSE "compact"
  <2>1. CASE Begin(k, v)
    BY <2>1 DEF PairInv, Typed, Begin, Ready
  <2>2. CASE BeginOpen(k, v)
    BY <2>2 DEF PairInv, Typed, BeginOpen, Ready
  <2> QED
    BY <2>1, <2>2
<1>2. PICK a \in Blocks, o \in Blocks :
         /\ Stands(a, o) /\ HandleIn(a, o)
         /\ handle # NoDir /\ ~failed => (Appendable(handle) => ErasedIn(flash[a]))
  BY <1>1 DEF AtRest
<1> DEFINE b == flash[a]
<1>3. /\ Content = EntriesIn(b) /\ EntriesIn(b) \in Contents
      /\ ErasedIn(b) => Blank(b, ValidIn(b) + 1, 0)
      /\ Fetch(anchor) = [pair |-> <<a, o>>, rev |-> b.rev, off |-> ValidIn(b), erased |-> ErasedIn(b)]
  BY <1>1, <1>2, ContentIs DEF Stands, Counts
<1>4. /\ want' \in Contents /\ change' \in Sets
      /\ want' = Overlay(EntriesIn(b), change')
  <2>1. /\ [EntriesIn(b) EXCEPT ![k] = v] \in Contents
        /\ [NoEntries EXCEPT ![k] = v] \in Sets
        /\ [EntriesIn(b) EXCEPT ![k] = v] = Overlay(EntriesIn(b), [NoEntries EXCEPT ![k] = v])
    BY <1>3, Changed
  <2> QED
    BY <1>1, <1>3, <2>1
<1>5. b.rev \in Revs /\ ValidIn(b) \in 0..Commits /\ ErasedIn(b) \in BOOLEAN
  BY <1>1, BlockFacts
<1>6. /\ dir' \in Dirs /\ dir'.pair = <<a, o>> /\ dir'.rev = b.rev /\ dir'.off = ValidIn(b)
      /\ Appendable(dir') => ValidIn(b) < Commits
      /\ Appendable(dir') => Blank(b, ValidIn(b) + 1, 0) \/ (failed /\ b.log[ValidIn(b) + 1][1] # Erased)
  <2>1. CASE Begin(k, v)
    <3>1. dir' = [pair |-> <<a, o>>, rev |-> b.rev, off |-> ValidIn(b), erased |-> ErasedIn(b)]
      BY <1>3, <2>1 DEF Begin
    <3>2. dir' \in Dirs
      BY <1>5, <3>1, DirTyped
    <3> QED
      BY <1>3, <3>1, <3>2 DEF ErasedIn, Appendable
  <2>2. CASE BeginOpen(k, v)
    <3>1. dir' = handle /\ handle # NoDir /\ handle \in Dirs
      BY <1>1, <2>2 DEF BeginOpen, TypeOK
    <3>2. /\ handle.pair = <<a, o>> /\ handle.rev = b.rev /\ handle.off = ValidIn(b)
          /\ Appendable(handle) => ValidIn(b) < Commits
      BY <1>2, <3>1 DEF HandleIn, Appendable
    <3>3. ASSUME Appendable(handle)
          PROVE  Blank(b, ValidIn(b) + 1, 0) \/ (failed /\ b.log[ValidIn(b) + 1][1] # Erased)
      <4>1. CASE ErasedIn(b)
        BY <1>3, <4>1
      <4>2. CASE ~ ErasedIn(b)
        <5>1. b.log[ValidIn(b) + 1][1] # Erased
          BY <3>2, <3>3, <4>2 DEF ErasedIn
        <5>2. failed
          BY <1>2, <3>1, <3>3, <4>2
        <5> QED
          BY <5>1, <5>2
      <4> QED
        BY <4>1, <4>2
    <3> QED
      BY <3>1, <3>2, <3>3
  <2> QED
    BY <2>1, <2>2
<1> HIDE DEF b
<1>7. /\ flash' \in [Blocks -> Block] /\ anchor' \in {NoPair} \cup (Blocks \X Blocks)
      /\ dir' \in Dirs /\ handle' \in Dirs /\ units' \in 0..Units
      /\ want' \in Sets /\ change' \in Sets /\ ~ clobbered'
      /\ pc' \in {"append", "compact"}
  <2>1. 0 \in 0..Units
    BY Sizes
  <2> QED
    BY <1>1, <1>4, <1>6, <2>1, ContentsAreSets, Types
<1>8. Typed'
  BY <1>7, TypedNext
<1>9. Stands(a, o)' /\ HandleIn(a, o)' /\ a # o
  BY <1>1, <1>2, <1>6 DEF Stands, HandleIn, b
<1>10. CASE pc' = "append"
  <2>1. Appendable(dir') /\ ValidIn(b) + 1 <= Commits /\ units' # Units
    BY <1>1, <1>5, <1>6, <1>10, Sizes
  <2>2. Programmed(b, ValidIn(b) + 1, 0, change')
    BY DEF Programmed
  <2>3. Unfinished(a, o, flash[a], dir.off + 1)'
    BY <1>1, <1>4, <1>6, <1>9, <2>1, <2>2 DEF Unfinished, Spoilt, b
  <2>4. Appending'
    BY <1>1, <1>4, <1>6, <1>9, <2>1, <2>3 DEF Appending, b
  <2> QED
    BY <1>8, <1>10, <2>4, Leads
<1>11. CASE pc' = "compact"
  <2>1. Newer(NextRev(b.rev), b.rev)
    BY <1>5, NextNewer
  <2>2. Compacting'
    BY <1>1, <1>4, <1>6, <1>9, <2>1 DEF Compacting, From, Old, b
  <2> QED
    BY <1>8, <1>11, <2>2, Leads
<1> QED
  BY <1>1, <1>10, <1>11

(* What a reader finds, after steps that leave the parent's entry alone. *)
LEMMA NoContent ==
  ASSUME anchor = NoPair, anchor' = anchor PROVE Content' = Content
BY DEF Content

LEMMA SameContent ==
  ASSUME flash \in [Blocks -> Block], flash' \in [Blocks -> Block],
         NEW a \in Blocks, NEW o \in Blocks, Stands(a, o), Stands(a, o)',
         EntriesIn(flash'[a]) = EntriesIn(flash[a])
  PROVE  Content' = Content
BY ContentIs, NextContentIs

LEMMA AppendUnitKeeps == 
  ASSUME PairInv, AppendUnit PROVE PairInv' /\ Content' \in {Content, want}
<1>1. /\ flash \in [Blocks -> Block] /\ pc = "append" /\ Appending /\ ~ clobbered
      /\ units < Units /\ Prog(dir.pair[1], dir.off + 1)
  BY DEF PairInv, Typed, AppendUnit
<1>t. /\ dir \in Dirs /\ handle \in Dirs /\ want \in Sets /\ change \in Sets
      /\ anchor \in {NoPair} \cup (Blocks \X Blocks) /\ units \in 0..Units
  BY DEF PairInv, Typed, TypeOK, Sets
<1>u. units \in Nat /\ units + 1 <= Units /\ units \in 0..(Units - 1) /\ units + 1 \in 1..Units
  BY <1>1, <1>t, Sizes
<1>2. PICK a \in Blocks, o \in Blocks :
         /\ Stands(a, o) /\ want \in Contents
         /\ dir.pair = <<a, o>> /\ dir.rev = flash[a].rev /\ dir.off + 1 <= Commits
         /\ Unfinished(a, o, flash[a], dir.off + 1) \/ Finished(flash[a], dir.off + 1)
  BY <1>1 DEF Appending
<1> DEFINE k == flash[a]
           l == flash'[a]
           n == ValidIn(k)
           c == n + 1
<1>f. ~ Finished(flash[a], dir.off + 1)
  BY <1>1, <1>u, Sizes DEF Finished
<1>g. n = dir.off /\ n \in 0..Commits
  BY <1>2, <1>f, ValidFacts DEF Unfinished
<1>3. /\ HandleIn(a, o) /\ want = Overlay(EntriesIn(k), change)
      /\ (Blank(k, c, units) /\ Programmed(k, c, units, change)) \/ Spoilt(k, c)
  BY <1>2, <1>f, <1>g DEF Unfinished
<1>n. n \in Nat /\ n < Commits /\ c \in 1..Commits /\ c \in Nat /\ c = n + 1 /\ c = dir.off + 1
  BY <1>2, <1>g, Sizes
<1>4. a # o /\ Counts(k, flash[o]) /\ n > 0 /\ k.rev \in Revs
  BY <1>1, <1>2, BlockFacts DEF Stands, Counts
<1>5. Prog(a, c) /\ dir.rev \in Revs
  <2>1. dir.pair[1] = a
    BY <1>2
  <2> QED
    BY <1>1, <1>2, <1>4, <1>n, <2>1
<1> HIDE DEF k, l, n, c
<1>6. /\ flash' \in [Blocks -> Block] /\ flash'[o] = flash[o]
      /\ Further(k, l, c, units, change)
      /\ k.log[c][units + 1] # Erased => l.log[c][units + 1] = Torn
      /\ l.rev = k.rev /\ units' = units + 1
      /\ UNCHANGED <<anchor, dir, handle, pc, want, change, relocated, failed>>
      /\ clobbered' = (clobbered \/ (k.log[c][units + 1] # Erased /\ ~failed))
  <2>1. /\ flash' \in [Blocks -> Block]
        /\ \A x \in Blocks \ {a} : flash'[x] = flash[x]
        /\ \A d \in (1..Commits) \ {c} : flash'[a].log[d] = flash[a].log[d]
        /\ \A i \in (1..Units) \ {units + 1} : flash'[a].log[c][i] = flash[a].log[c][i]
        /\ flash'[a].log[c][units + 1]
             \in {Torn, IF units + 1 = Units THEN Crc(change) ELSE Part}
        /\ flash[a].log[c][units + 1] # Erased => flash'[a].log[c][units + 1] = Torn
        /\ flash'[a].rev = IF units = 0 /\ pc = "write" THEN dir.rev ELSE flash[a].rev
        /\ units' = units + 1
        /\ UNCHANGED <<anchor, dir, handle, pc, want, change, relocated, failed>>
    BY <1>1, <1>t, <1>u, <1>n, <1>5, ProgDoes
  <2>2. clobbered' = (clobbered \/ (k.log[c][units + 1] # Erased /\ ~failed))
    BY <1>5 DEF Prog, k
  <2> QED
    BY <1>1, <1>2, <1>4, <2>1, <2>2 DEF Further, k, l
<1>7. \A d \in 1..n : l.log[d] = k.log[d]
  <2>1. \A d \in 1..n : d \in (1..Commits) \ {c}
    BY <1>n, Sizes
  <2> QED
    BY <1>6, <2>1 DEF Further
<1>8. units + 1 \in 0..Units /\ units' \in 0..Units /\ 1 \in 1..Units /\ units + 1 # 0
  BY <1>6, <1>u, Sizes
<1>9. /\ l.log[c][1] # Erased /\ ~ clobbered'
      /\ \/ Blank(l, c, units + 1) /\ Programmed(l, c, units + 1, change)
         \/ failed /\ l.log[c][1] = Torn
  <2>1. CASE Blank(k, c, units) /\ Programmed(k, c, units, change)
    <3>1. /\ Blank(l, c, units + 1) /\ Programmed(l, c, units + 1, change)
          /\ l.log[c][1] # Erased /\ k.log[c][units + 1] = Erased
      BY <1>n, <1>u, <1>6, <2>1, ProgFurther
    <3> QED
      BY <1>1, <1>6, <3>1
  <2>2. CASE Spoilt(k, c)
    <3>1. failed /\ (units = 0 => k.log[c][1] # Erased) /\ (units # 0 => k.log[c][1] = Torn)
      BY <2>2 DEF Spoilt
    <3>2. CASE units = 0
      <4>1. units + 1 = 1
        BY <1>u, <3>2
      <4>2. l.log[c][1] = Torn
        BY <1>6, <3>1, <3>2, <4>1
      <4> QED
        BY <1>1, <1>6, <3>1, <4>2, Kinds
    <3>3. CASE units # 0
      <4>1. 1 \in (1..Units) \ {units + 1}
        BY <1>u, <1>8, <3>3
      <4>2. l.log[c][1] = Torn
        BY <1>6, <3>1, <3>3, <4>1 DEF Further
      <4> QED
        BY <1>1, <1>6, <3>1, <4>2, Kinds
    <3> QED
      BY <3>2, <3>3
  <2> QED
    BY <1>3, <2>1, <2>2
<1>10. Typed'
  <2>1. /\ anchor' \in {NoPair} \cup (Blocks \X Blocks)
        /\ dir' \in Dirs /\ handle' \in Dirs /\ want' \in Sets /\ change' \in Sets
        /\ pc' = "append"
    BY <1>1, <1>t, <1>6
  <2> QED
    BY <1>6, <1>8, <1>9, <2>1, TypedNext
<1>11. CASE WholeIn(l, c)
  <2>1. Blank(l, c, units + 1) /\ Programmed(l, c, units + 1, change)
    <3>1. ~ (l.log[c][1] = Torn)
      BY <1>11, FirstTells
    <3> QED
      BY <1>9, <3>1
  <2>2. units' = Units /\ HoldsIn(l, c, change) /\ (c + 1 \in 1..Commits => ~ WholeIn(l, c + 1))
    <3>1. /\ WholeIn(l, c) <=> units + 1 = Units /\ HoldsIn(l, c, change)
          /\ c + 1 \in 1..Commits => ~ WholeIn(l, c + 1)
      BY <1>8, <2>1, ProgrammedTells
    <3> QED
      BY <1>6, <1>11, <3>1
  <2>3. n + 1 < Commits => ~ WholeIn(l, n + 2)
    <3>1. n + 1 < Commits => n + 2 = c + 1 /\ c + 1 \in 1..Commits
      BY <1>n, Sizes
    <3> QED
      BY <2>2, <3>1
  <2>4. ValidIn(l) = c /\ EntriesIn(l) = Overlay(EntriesIn(k), l.log[c][Units].sets)
    BY <1>7, <1>n, <1>11, <2>3, NowHeld DEF n
  <2>5. EntriesIn(l) = want'
    BY <1>3, <1>6, <2>2, <2>4, HoldsIsWhole
  <2>6. c < Commits => ErasedIn(l) /\ Blank(l, c + 1, 0)
    <3> SUFFICES ASSUME c < Commits PROVE ErasedIn(l) /\ Blank(l, c + 1, 0)
      OBVIOUS
    <3>1. c + 1 \in (c + 1)..Commits /\ 1 \in 1..Units
      BY <1>n, Sizes
    <3>2. \A d \in (c + 1)..Commits : \A i \in 1..Units : l.log[d][i] = Erased
      BY <2>1 DEF Blank
    <3>3. \A d \in ((c + 1) + 1)..Commits : d \in (c + 1)..Commits
      BY <1>n, Sizes
    <3>4. Blank(l, c + 1, 0)
      <4>1. \A i \in (0 + 1)..Units : l.log[c + 1][i] = Erased
        BY <3>1, <3>2, Sizes
      <4> QED
        BY <3>2, <3>3, <4>1 DEF Blank
    <3> QED
      BY <2>4, <3>1, <3>2, <3>4 DEF ErasedIn
  <2>7. ErasedIn(l) = (c < Commits)
    <3>1. ErasedIn(l) => c < Commits
      BY <2>4 DEF ErasedIn
    <3>2. ErasedIn(l) \in BOOLEAN
      BY DEF ErasedIn
    <3> QED
      BY <2>6, <3>1, <3>2
  <2>8. Counts(l, flash'[o])
    <3>1. c > 0 /\ EntriesIn(l) \in Contents
      BY <1>2, <1>6, <1>n, <2>5
    <3>2. ErasedIn(l) => Blank(l, ValidIn(l) + 1, 0)
      BY <2>4, <2>6, <2>7
    <3>3. ValidIn(flash'[o]) > 0 => Newer(l.rev, flash'[o].rev)
      BY <1>4, <1>6 DEF Counts
    <3> QED
      BY <2>4, <3>1, <3>2, <3>3 DEF Counts
  <2>9. Finished(flash[a], dir.off + 1)'
    BY <1>n, <1>6, <2>2, <2>4, <2>5, <2>7 DEF Finished, l
  <2>10. Stands(a, o)'
    BY <1>2, <1>6, <2>8 DEF Stands, l
  <2>11. Appending'
    BY <1>2, <1>6, <2>9, <2>10 DEF Appending, l, k
  <2>12. Content' = want
    BY <1>6, <2>5, <2>10, NextContentIs DEF l
  <2> QED
    BY <1>1, <1>6, <1>10, <2>11, <2>12, Leads
<1>12. CASE ~ WholeIn(l, c)
  <2>1. ValidIn(l) = n /\ EntriesIn(l) = EntriesIn(k)
    BY <1>7, <1>n, <1>12, NotHeld DEF n
  <2>2. ~ HoldsIn(l, c, change)
    BY <1>12, HoldsIsWhole
  <2>3. ~ ErasedIn(l)
    BY <1>n, <1>9, <2>1 DEF ErasedIn
  <2>4. Counts(l, flash'[o])
    BY <1>4, <1>6, <2>1, <2>3 DEF Counts
  <2>5. HandleIn(a, o)'
    BY <1>3, <1>6, <2>1 DEF HandleIn, l, k, n
  <2>6. units' # 0
    BY <1>8, <1>6
  <2>7. Unfinished(a, o, flash[a], dir.off + 1)'
    <3>1. (Blank(l, c, units') /\ Programmed(l, c, units', change')) \/ (failed' /\ l.log[c][1] = Torn)
      BY <1>6, <1>9
    <3>2. ValidIn(l) = dir'.off /\ want' = Overlay(EntriesIn(l), change')
      BY <1>3, <1>6, <1>g, <2>1
    <3> QED
      BY <1>n, <1>6, <2>2, <2>5, <2>6, <3>1, <3>2 DEF Unfinished, Spoilt, l
  <2>8. Stands(a, o)'
    BY <1>2, <1>6, <2>4 DEF Stands, l
  <2>9. Appending'
    BY <1>2, <1>6, <2>7, <2>8 DEF Appending, l, k
  <2>10. Content' = Content
    BY <1>1, <1>2, <1>6, <2>1, <2>8, SameContent DEF l, k
  <2> QED
    BY <1>1, <1>6, <1>10, <2>9, <2>10, Leads
<1> QED
  BY <1>11, <1>12

LEMMA AppendEndsKeeps == ASSUME PairInv, AppendEnds PROVE PairInv'
<1>1. /\ Typed /\ TypeOK /\ flash \in [Blocks -> Block] /\ pc = "append" /\ Appending
      /\ ~ clobbered /\ units = Units
      /\ UNCHANGED <<flash, anchor, want, change, units, relocated, clobbered, failed>>
  BY DEF PairInv, Typed, AppendEnds, Committed
<1>2. PICK a \in Blocks, o \in Blocks :
         /\ Stands(a, o) /\ want \in Contents
         /\ dir.pair = <<a, o>> /\ dir.rev = flash[a].rev /\ dir.off + 1 <= Commits
         /\ Unfinished(a, o, flash[a], dir.off + 1) \/ Finished(flash[a], dir.off + 1)
  BY <1>1 DEF Appending
<1>3. Holds(dir.pair[1], dir.off + 1) = HoldsIn(flash[a], dir.off + 1, change)
  BY <1>2, Views
<1>4. Stands(a, o)'
  BY <1>1, <1>2 DEF Stands
<1>5. dir \in Dirs /\ dir.off \in 0..Commits /\ dir.off + 1 \in 0..Commits
  BY <1>1, <1>2, Sizes DEF TypeOK, Dirs
<1>6. /\ flash' \in [Blocks -> Block] /\ anchor' \in {NoPair} \cup (Blocks \X Blocks)
      /\ units' \in 0..Units /\ want' \in Sets /\ change' \in Sets /\ ~ clobbered'
  BY <1>1 DEF TypeOK, Sets
<1>7. CASE Holds(dir.pair[1], dir.off + 1)
  <2> DEFINE d == [dir EXCEPT !.off = @ + 1]
  <2>1. Finished(flash[a], dir.off + 1)
    BY <1>1, <1>2, <1>3, <1>7 DEF Unfinished
  <2>2. dir' = d /\ handle' \in {NoDir, d} /\ pc' = "idle"
    BY <1>7 DEF AppendEnds, Committed, Kept
  <2>3. /\ d.pair = <<a, o>> /\ d.rev = flash[a].rev /\ d.off = dir.off + 1
        /\ d \in Dirs
    <3>1. d \in Dirs
      BY <1>5 DEF Dirs
    <3>2. d.pair = dir.pair /\ d.rev = dir.rev /\ d.off = dir.off + 1
      BY <1>5 DEF Dirs
    <3> QED
      BY <1>2, <3>1, <3>2
  <2> HIDE DEF d
  <2>4. Typed'
    BY <1>6, <2>2, <2>3, NoDirTyped, TypedNext
  <2>5. ValidIn(flash[a]) = dir.off + 1 /\ ErasedIn(flash[a]) = (dir.off + 1 < Commits)
    BY <2>1 DEF Finished
  <2>6. HandleIn(a, o)' /\ (handle' # NoDir => (Appendable(handle') => ErasedIn(flash'[a])))
    BY <1>1, <2>2, <2>3, <2>5 DEF HandleIn, Appendable
  <2>7. anchor' # NoPair
    BY <1>4 DEF Stands, NoPair
  <2>8. AtRest'
    BY <1>4, <2>2, <2>6, <2>7 DEF AtRest
  <2> QED
    BY <2>2, <2>4, <2>8, Leads
<1>8. CASE ~ Holds(dir.pair[1], dir.off + 1)
  <2>1. pc' = "compact" /\ UNCHANGED <<dir, handle>>
    BY <1>8 DEF AppendEnds
  <2>2. HandleIn(a, o)
    BY <1>2, <1>3, <1>8 DEF Finished, Unfinished
  <2>3. Typed'
    BY <1>1, <1>5, <1>6, <2>1, TypedNext DEF TypeOK
  <2>4. a # o /\ anchor # NoPair /\ flash[a].rev \in Revs
    <3>1. a # o /\ anchor # NoPair
      BY <1>2 DEF Stands, NoPair
    <3>2. flash[a].rev \in Revs
      BY <1>1, BlockFacts
    <3> QED
      BY <3>1, <3>2
  <2>5. From(a, o)' /\ Old(a, o)'
    BY <1>1, <1>2, <1>4, <2>1, <2>2, <2>4 DEF From, Old, HandleIn
  <2>6. Newer(NextRev(dir.rev), flash[a].rev)
    BY <1>2, <2>4, NextNewer
  <2>7. Compacting'
    BY <1>1, <2>1, <2>5, <2>6 DEF Compacting
  <2> QED
    BY <2>1, <2>3, <2>7, Leads
<1> QED
  BY <1>7, <1>8

LEMMA DirParts ==
  ASSUME NEW d \in Dirs
  PROVE  /\ \A r \in Revs : /\ [d EXCEPT !.rev = r] \in Dirs
                           /\ [d EXCEPT !.rev = r].pair = d.pair
                           /\ [d EXCEPT !.rev = r].rev = r
         /\ \A a, w, b \in Blocks : d.pair = <<a, w>> =>
                /\ [d EXCEPT !.pair[2] = b] \in Dirs
                /\ [d EXCEPT !.pair[2] = b].pair = <<a, b>>
                /\ [d EXCEPT !.pair[2] = b].rev = d.rev
<1>1. ASSUME NEW r \in Revs
      PROVE  /\ [d EXCEPT !.rev = r] \in Dirs
             /\ [d EXCEPT !.rev = r].pair = d.pair /\ [d EXCEPT !.rev = r].rev = r
  BY DEF Dirs
<1>2. ASSUME NEW a \in Blocks, NEW w \in Blocks, NEW b \in Blocks, d.pair = <<a, w>>
      PROVE  /\ [d EXCEPT !.pair[2] = b] \in Dirs
             /\ [d EXCEPT !.pair[2] = b].pair = <<a, b>>
             /\ [d EXCEPT !.pair[2] = b].rev = d.rev
  <2>1. [<<a, w>> EXCEPT ![2] = b] = <<a, b>>
    OBVIOUS
  <2>2. [d EXCEPT !.pair[2] = b] = [d EXCEPT !.pair = <<a, b>>]
    BY <1>2, <2>1 DEF Dirs
  <2>3. /\ [d EXCEPT !.pair = <<a, b>>] \in Dirs
        /\ [d EXCEPT !.pair = <<a, b>>].pair = <<a, b>>
        /\ [d EXCEPT !.pair = <<a, b>>].rev = d.rev
    BY DEF Dirs
  <2> QED
    BY <2>2, <2>3
<1> QED
  BY <1>1, <1>2

LEMMA CompactKeeps == ASSUME PairInv, Compact PROVE PairInv'
<1>1. /\ dir' = [dir EXCEPT !.rev = NextRev(dir.rev)]
      /\ pc' \in {"relocate tired", "erase"} /\ change' = want /\ units' = 0
      /\ UNCHANGED <<flash, anchor, handle, want, relocated, clobbered, failed>>
      /\ Compacting
  BY DEF Compact, PairInv
<1>2. PICK a \in Blocks, w \in Blocks :
         From(a, w) /\ Old(a, w) /\ Newer(NextRev(dir.rev), flash[a].rev)
  BY <1>1 DEF Compacting
<1>3. dir.rev \in Revs
  BY Types DEF Dirs
<1>4. NextRev(dir.rev) \in Revs
  BY <1>3, NextNewer
<1>5. dir' \in Dirs /\ dir'.pair = dir.pair /\ dir'.rev = NextRev(dir.rev)
  BY <1>1, <1>4, Types, DirParts
<1>6. Typed'
  <2>1. /\ flash' \in [Blocks -> Block] /\ anchor' \in {NoPair} \cup (Blocks \X Blocks)
        /\ dir' \in Dirs /\ handle' \in Dirs /\ units' \in 0..Units
        /\ want' \in Sets /\ change' \in Sets /\ ~ clobbered'
    <3>1. 0 \in 0..Units
      BY Sizes
    <3> QED
      BY <1>1, <1>5, <3>1, Types
  <2> QED
    BY <1>1, <2>1, TypedNext
<1>7. From(a, w)' /\ Old(a, w)'
  BY <1>1, <1>2, <1>5 DEF From, Old, Stands, HandleIn
<1>8. Emptying'
  BY <1>1, <1>2, <1>5, <1>7 DEF Emptying
<1> QED
  BY <1>1, <1>6, <1>8, Leads

LEMMA EraseKeeps == ASSUME PairInv, Erase PROVE PairInv' /\ Content' = Content
<1>1. /\ flash' = [flash EXCEPT ![dir.pair[2]] = ErasedBlock] /\ pc' = "write" /\ units' = 0
      /\ UNCHANGED <<anchor, dir, handle, want, change, relocated, clobbered, failed>>
      /\ Emptying
  BY DEF Erase, PairInv
<1>2. PICK a \in Blocks, w \in Blocks :
         From(a, w) /\ Old(a, w) /\ Newer(dir.rev, flash[a].rev) /\ change = want
  BY <1>1 DEF Emptying
<1>3. a # w /\ dir.pair = <<a, w>>
  BY <1>2 DEF From
<1>4. /\ flash' \in [Blocks -> Block] /\ flash'[w] = ErasedBlock
      /\ \A x \in Blocks \ {w} : flash'[x] = flash[x]
  BY <1>1, <1>3, Types, ErasedSays
<1>5. Typed'
  BY <1>1, <1>4, Types, Sizes, TypedNext
<1>6. Old(a, w)' /\ Content' = Content
  <2>1. CASE anchor = NoPair
    BY <1>1, <1>2, <2>1, NoContent DEF Old
  <2>2. CASE anchor # NoPair
    <3>1. PICK o \in Blocks : Stands(a, o) /\ HandleIn(a, o) /\ (~ relocated => w = o)
      BY <1>2, <2>2 DEF Old
    <3>2. Counts(flash'[a], flash'[o])
      <4>1. ValidIn(flash'[o]) > 0 => flash'[o] = flash[o]
        BY <1>4, ErasedSays
      <4> QED
        BY <1>3, <1>4, <3>1, <4>1 DEF Stands, Counts
    <3>3. Stands(a, o)' /\ HandleIn(a, o)'
      BY <1>1, <1>3, <1>4, <3>1, <3>2 DEF Stands, HandleIn
    <3>4. Content' = Content
      BY <1>3, <1>4, <3>1, <3>3, Types, SameContent
    <3> QED
      BY <1>1, <2>2, <3>1, <3>3, <3>4 DEF Old
  <2> QED
    BY <2>1, <2>2
<1>7. From(a, w)'
  BY <1>1, <1>2 DEF From
<1>8. units' # Units
  BY <1>1, Sizes
<1>9. Writing'
  BY <1>1, <1>2, <1>3, <1>4, <1>6, <1>7, <1>8, ErasedSays DEF Writing
<1> QED
  BY <1>1, <1>5, <1>6, <1>9, Leads

LEMMA RelocateKeeps == ASSUME PairInv, Relocate PROVE PairInv'
<1>1. /\ pc' = "erase" /\ relocated' = TRUE
      /\ UNCHANGED <<flash, anchor, handle, want, change, units, clobbered, failed>>
      /\ Emptying
  BY DEF Relocate, PairInv
<1>2. PICK a \in Blocks, w \in Blocks :
         From(a, w) /\ Old(a, w) /\ Newer(dir.rev, flash[a].rev) /\ change = want
  BY <1>1 DEF Emptying
<1>3. a # w /\ dir.pair = <<a, w>>
  BY <1>2 DEF From
<1>4. PICK b \in Blocks : a # b /\ dir' \in Dirs /\ dir'.pair = <<a, b>> /\ dir'.rev = dir.rev
  <2>1. CASE UNCHANGED dir
    BY <1>3, <2>1, Types
  <2>2. ASSUME NEW b \in Free, dir' = [dir EXCEPT !.pair[2] = b]
        PROVE  b \in Blocks /\ a # b /\ dir' \in Dirs /\ dir'.pair = <<a, b>> /\ dir'.rev = dir.rev
    <3>1. b \in Blocks /\ a # b
      BY <1>3 DEF Free, PairOf
    <3> QED
      BY <1>3, <2>2, <3>1, Types, DirParts
  <2> QED
    BY <2>1, <2>2 DEF Relocate
<1>5. Typed'
  BY <1>1, <1>4, Types, TypedNext
<1>6. From(a, b)' /\ Old(a, b)'
  BY <1>1, <1>2, <1>4 DEF From, Old, Stands, HandleIn
<1>7. Emptying'
  BY <1>1, <1>2, <1>4, <1>6 DEF Emptying
<1> QED
  BY <1>1, <1>5, <1>7, Leads

LEMMA WriteKeeps == ASSUME PairInv, Write PROVE PairInv' /\ Content' \in {Content, want}
<1>1. /\ pc = "write" /\ Writing /\ units < Units /\ Prog(dir.pair[2], 1)
  BY DEF PairInv, Write
<1>2. PICK a \in Blocks, w \in Blocks :
         /\ From(a, w) /\ Newer(dir.rev, flash[a].rev) /\ change = want
         /\ Blank(flash[w], 1, units) /\ Programmed(flash[w], 1, units, change)
         /\ units > 0 => flash[w].rev = dir.rev
         /\ IF units = Units /\ HoldsIn(flash[w], 1, change)
            THEN Rewritten(a, w) /\ (~relocated => Stands(w, a))
            ELSE ValidIn(flash[w]) = 0 /\ Old(a, w)
  BY <1>1 DEF Writing
<1> DEFINE k == flash[w]
           l == flash'[w]
<1>3. /\ units \in Nat /\ units \in 0..(Units - 1) /\ units + 1 \in 0..Units /\ units # Units
      /\ 1 \in 1..Commits /\ 1 \in 1..Units /\ dir.rev \in Revs /\ units + 1 > 0
  BY <1>1, Types, Sizes DEF Dirs
<1>4. ValidIn(k) = 0 /\ Old(a, w) /\ a # w /\ dir.pair = <<a, w>> /\ want \in Contents
  BY <1>2, <1>3 DEF From
<1>5. Prog(w, 1)
  BY <1>1, <1>4
<1> HIDE DEF k, l
<1>6. /\ flash' \in [Blocks -> Block] /\ \A x \in Blocks \ {w} : flash'[x] = flash[x]
      /\ Further(k, l, 1, units, change) /\ l.rev = dir.rev /\ units' = units + 1
      /\ UNCHANGED <<anchor, dir, handle, pc, want, change, relocated, failed>>
  <2>1. /\ flash' \in [Blocks -> Block]
        /\ \A x \in Blocks \ {w} : flash'[x] = flash[x]
        /\ \A d \in (1..Commits) \ {1} : flash'[w].log[d] = flash[w].log[d]
        /\ \A i \in (1..Units) \ {units + 1} : flash'[w].log[1][i] = flash[w].log[1][i]
        /\ flash'[w].log[1][units + 1]
             \in {Torn, IF units + 1 = Units THEN Crc(change) ELSE Part}
        /\ flash'[w].rev = IF units = 0 /\ pc = "write" THEN dir.rev ELSE flash[w].rev
        /\ units' = units + 1
        /\ UNCHANGED <<anchor, dir, handle, pc, want, change, relocated, failed>>
    BY <1>3, <1>5, Types, ProgDoes
  <2>2. l.rev = dir.rev
    BY <1>1, <1>2, <1>3, <2>1 DEF l
  <2> QED
    BY <2>1, <2>2 DEF Further, k, l
<1>7. /\ Blank(l, 1, units + 1) /\ Programmed(l, 1, units + 1, change)
      /\ l.log[1][1] # Erased /\ k.log[1][units + 1] = Erased
  <2>1. Blank(k, 1, units) /\ Programmed(k, 1, units, change)
    BY <1>2 DEF k
  <2> QED
    BY <1>3, <1>6, <2>1, ProgFurther
<1>8. ~ clobbered'
  BY <1>5, <1>7, Types DEF Prog, k
<1>9. Typed'
  <2>1. /\ anchor' \in {NoPair} \cup (Blocks \X Blocks)
        /\ dir' \in Dirs /\ handle' \in Dirs /\ units' \in 0..Units
        /\ want' \in Sets /\ change' \in Sets /\ pc' = "write"
    BY <1>1, <1>3, <1>6, Types
  <2> QED
    BY <1>6, <1>8, <2>1, TypedNext
<1>10. WholeIn(l, 1) <=> units' = Units /\ HoldsIn(l, 1, change)
  BY <1>3, <1>6, <1>7, ProgrammedTells
<1>11. ASSUME NEW o \in Blocks, Stands(a, o), o # w PROVE Stands(a, o)'
  BY <1>4, <1>6, <1>11 DEF Stands
<1>12. From(a, w)'
  BY <1>2, <1>6 DEF From
<1>13. CASE WholeIn(l, 1)
  <2>1. units' = Units /\ HoldsIn(l, 1, change)
    BY <1>10, <1>13
  <2>2. 1 < Commits => l.log[2][1] = Erased
    <3>1. 1 < Commits => 2 \in (1 + 1)..Commits
      BY Sizes
    <3> QED
      BY <1>3, <1>7, <3>1 DEF Blank
  <2>3. ValidIn(l) = 1
    <3>1. 1 < Commits => ~ WholeIn(l, 2)
      BY <2>2, FirstTells
    <3>2. 1 \in 0..Commits /\ \A c \in 1..1 : WholeIn(l, c)
      BY <1>13, Sizes
    <3> QED
      BY <3>1, <3>2, ValidIs
  <2>4. l.log[1][Units].sets = want
    BY <1>2, <2>1, HoldsIsWhole
  <2>5. EntriesIn(l) = want
    BY <2>3, <2>4, Types, OnlyOne
  <2>6. ErasedIn(l) = (Commits > 1)
    <3>1. ErasedIn(l) => Commits > 1
      BY <2>3 DEF ErasedIn
    <3>2. Commits > 1 => ErasedIn(l)
      BY <2>2, <2>3 DEF ErasedIn
    <3>3. ErasedIn(l) \in BOOLEAN
      BY DEF ErasedIn
    <3> QED
      BY <3>1, <3>2, <3>3
  <2>7. Blank(l, 2, 0) \/ ~ ErasedIn(l)
    <3>1. CASE Commits > 1
      <4>1. \A d \in 2..Commits, i \in 1..Units : l.log[d][i] = Erased
        BY <1>7 DEF Blank
      <4>2. \A d \in (2 + 1)..Commits : d \in 2..Commits
        BY Sizes
      <4>3. 2 \in 2..Commits
        BY <3>1, Sizes
      <4>4. \A i \in (0 + 1)..Units : l.log[2][i] = Erased
        BY <4>1, <4>3
      <4> QED
        BY <4>1, <4>2, <4>4 DEF Blank
    <3> QED
      BY <2>6, <3>1
  <2>8. Counts(l, flash'[a])
    <3>1. flash'[a] = flash[a]
      BY <1>4, <1>6
    <3>2. Newer(l.rev, flash'[a].rev)
      BY <1>2, <1>6, <3>1
    <3> QED
      BY <1>4, <2>3, <2>5, <2>7, <3>2 DEF Counts
  <2>9. ASSUME anchor # NoPair
        PROVE  /\ Stands(w, a)' \/ \E o \in Blocks \ {w} : Stands(a, o)'
               /\ ~ relocated => Stands(w, a)'
               /\ Content' \in {Content, want}
    <3>1. PICK o \in Blocks : Stands(a, o) /\ HandleIn(a, o) /\ (~ relocated => w = o)
      BY <1>4, <2>9 DEF Old
    <3>2. CASE o = w
      <4>1. Stands(w, a)'
        BY <1>4, <1>6, <2>8, <3>1, <3>2 DEF Stands, l
      <4>2. Content' = want
        BY <1>6, <2>5, <4>1, NextContentIs DEF l
      <4> QED
        BY <4>1, <4>2
    <3>3. CASE o # w
      <4>1. Stands(a, o)' /\ flash'[a] = flash[a]
        BY <1>4, <1>6, <1>11, <3>1, <3>3
      <4>2. Content' = Content
        BY <1>6, <3>1, <4>1, Types, SameContent
      <4> QED
        BY <3>1, <3>3, <4>1, <4>2
    <3> QED
      BY <3>2, <3>3
  <2>10. Rewritten(a, w)'
    BY <1>6, <2>3, <2>5, <2>6, <2>8, <2>9 DEF Rewritten, l
  <2>11. ~ relocated => Stands(w, a)'
    BY <1>2, <2>9 DEF From
  <2>12. Writing'
    BY <1>2, <1>3, <1>4, <1>6, <1>7, <1>12, <2>1, <2>10, <2>11 DEF Writing, l
  <2>13. Content' \in {Content, want}
    BY <1>6, <2>9, NoContent
  <2> QED
    BY <1>1, <1>6, <1>9, <2>12, <2>13, Leads
<1>14. CASE ~ WholeIn(l, 1)
  <2>1. ValidIn(l) = 0
    BY <1>14, ValidFacts, ValidMeansWhole, Sizes
  <2>2. Old(a, w)' /\ Content' = Content
    <3>1. CASE anchor = NoPair
      BY <1>4, <1>6, <3>1, NoContent DEF Old
    <3>2. CASE anchor # NoPair
      <4>1. PICK o \in Blocks : Stands(a, o) /\ HandleIn(a, o) /\ (~ relocated => w = o)
        BY <1>4, <3>2 DEF Old
      <4>2. Counts(flash'[a], flash'[o])
        BY <1>4, <1>6, <2>1, <4>1 DEF Stands, Counts, l
      <4>3. Stands(a, o)' /\ HandleIn(a, o)'
        BY <1>4, <1>6, <4>1, <4>2 DEF Stands, HandleIn
      <4>4. Content' = Content
        BY <1>4, <1>6, <4>1, <4>3, Types, SameContent
      <4> QED
        BY <1>6, <3>2, <4>1, <4>3, <4>4 DEF Old
    <3> QED
      BY <3>1, <3>2
  <2>3. ~ (units' = Units /\ HoldsIn(l, 1, change))
    BY <1>10, <1>14
  <2>4. Writing'
    BY <1>2, <1>3, <1>4, <1>6, <1>7, <1>12, <2>1, <2>2, <2>3 DEF Writing, l
  <2> QED
    BY <1>1, <1>6, <1>9, <2>2, <2>4, Leads
<1> QED
  BY <1>13, <1>14

LEMMA WriteEndsKeeps == ASSUME PairInv, WriteEnds PROVE PairInv'
<1>1. /\ Writing /\ units = Units
      /\ UNCHANGED <<flash, anchor, want, change, units, relocated, clobbered, failed>>
  BY DEF PairInv, WriteEnds, Committed
<1>2. PICK a \in Blocks, w \in Blocks :
         /\ From(a, w) /\ Newer(dir.rev, flash[a].rev) /\ change = want
         /\ Blank(flash[w], 1, units) /\ Programmed(flash[w], 1, units, change)
         /\ units > 0 => flash[w].rev = dir.rev
         /\ IF units = Units /\ HoldsIn(flash[w], 1, change)
            THEN Rewritten(a, w) /\ (~relocated => Stands(w, a))
            ELSE ValidIn(flash[w]) = 0 /\ Old(a, w)
  BY <1>1 DEF Writing
<1>3. a # w /\ dir.pair = <<a, w>> /\ want \in Contents /\ dir.rev \in Revs
  BY <1>2, Types DEF From, Dirs
<1>4. Holds(dir.pair[2], 1) = HoldsIn(flash[w], 1, change)
  BY <1>3, Views
<1>5. /\ flash' \in [Blocks -> Block] /\ anchor' \in {NoPair} \cup (Blocks \X Blocks)
      /\ units' \in 0..Units /\ want' \in Sets /\ change' \in Sets /\ ~ clobbered'
  BY <1>1, Types
<1> DEFINE swapped == [pair |-> <<dir.pair[2], dir.pair[1]>>, rev |-> dir.rev,
                       off |-> 1, erased |-> dir.erased]
<1>6. /\ swapped \in Dirs /\ swapped.pair = <<w, a>> /\ swapped.rev = dir.rev
      /\ swapped.off = 1
  <2>1. swapped = [pair |-> <<w, a>>, rev |-> dir.rev, off |-> 1, erased |-> dir.erased]
    BY <1>3
  <2>2. 1 \in 0..Commits /\ dir.erased \in BOOLEAN
    BY Sizes, Types DEF Dirs
  <2>3. [pair |-> <<w, a>>, rev |-> dir.rev, off |-> 1, erased |-> dir.erased] \in Dirs
    BY <1>3, <2>2, DirTyped
  <2> QED
    BY <2>1, <2>3
<1>7. CASE Holds(dir.pair[2], 1)
  <2>1. /\ dir' = swapped /\ handle' \in {NoDir, swapped}
        /\ pc' = IF relocated THEN "parent" ELSE "idle"
    BY <1>7 DEF WriteEnds, Committed, Kept
  <2> HIDE DEF swapped
  <2>2. Typed'
    BY <1>5, <1>6, <2>1, NoDirTyped, TypedNext
  <2>3. Rewritten(a, w) /\ (~relocated => Stands(w, a))
    BY <1>1, <1>2, <1>4, <1>7
  <2>4. CASE relocated
    <3>1. Rewritten(a, w)'
      BY <1>1, <1>6, <2>1, <2>3 DEF Rewritten, Stands
    <3>2. ToldParent'
      BY <1>1, <1>3, <1>6, <2>1, <3>1 DEF ToldParent
    <3> QED
      BY <2>1, <2>2, <2>4, <3>2, Leads
  <2>5. CASE ~ relocated
    <3>1. Stands(w, a)'
      BY <1>1, <2>3, <2>5 DEF Stands
    <3>2. HandleIn(w, a)' /\ (handle' # NoDir => (Appendable(handle') => ErasedIn(flash'[w])))
      BY <1>1, <1>6, <2>1, <2>3 DEF HandleIn, Rewritten, Appendable
    <3>3. anchor' # NoPair
      BY <3>1 DEF Stands, NoPair
    <3>4. AtRest'
      BY <2>1, <2>5, <3>1, <3>2, <3>3 DEF AtRest
    <3> QED
      BY <2>1, <2>2, <2>5, <3>4, Leads
  <2> QED
    BY <2>4, <2>5
<1>8. CASE ~ Holds(dir.pair[2], 1)
  <2>1. pc' = "relocate bad" /\ UNCHANGED <<dir, handle>>
    BY <1>8 DEF WriteEnds
  <2>2. Old(a, w)
    BY <1>2, <1>4, <1>8
  <2>3. From(a, w)' /\ Old(a, w)'
    BY <1>1, <1>2, <2>1, <2>2 DEF From, Old, Stands, HandleIn
  <2>4. Emptying'
    BY <1>1, <1>2, <2>1, <2>3 DEF Emptying
  <2>5. Typed'
    BY <1>5, <2>1, Types, TypedNext
  <2> QED
    BY <2>1, <2>4, <2>5, Leads
<1> QED
  BY <1>7, <1>8

LEMMA NoSpaceKeeps == ASSUME PairInv, NoSpace PROVE PairInv'
<1>1. /\ Emptying /\ pc' = "refused" /\ want' = Content /\ failed' = TRUE
      /\ UNCHANGED <<flash, anchor, dir, handle, change, units, relocated, clobbered>>
  BY DEF PairInv, NoSpace
<1>2. PICK a \in Blocks, w \in Blocks : Old(a, w)
  BY <1>1 DEF Emptying
<1>3. CASE anchor = NoPair
  <2>1. Content \in Sets
    BY <1>3, Kinds DEF Content
  <2>2. Typed'
    BY <1>1, <2>1, Types, TypedNext
  <2>3. AtRest'
    BY <1>1, <1>2, <1>3 DEF AtRest, Old
  <2> QED
    BY <1>1, <2>2, <2>3, Leads
<1>4. CASE anchor # NoPair
  <2>1. PICK o \in Blocks : Stands(a, o) /\ HandleIn(a, o)
    BY <1>2, <1>4 DEF Old
  <2>2. Content \in Sets
    BY <2>1, Types, ContentIs, ContentsAreSets DEF Stands, Counts
  <2>3. Typed'
    BY <1>1, <2>2, Types, TypedNext
  <2>4. Stands(a, o)' /\ HandleIn(a, o)'
    BY <1>1, <2>1 DEF Stands, HandleIn
  <2>5. AtRest'
    BY <1>1, <1>4, <2>4 DEF AtRest
  <2> QED
    BY <1>1, <2>3, <2>5, Leads
<1> QED
  BY <1>3, <1>4

LEMMA ParentKeeps == ASSUME PairInv, Parent PROVE PairInv' /\ Content' = want
<1>1. /\ ToldParent /\ anchor' = dir.pair /\ pc' = "idle"
      /\ UNCHANGED <<flash, dir, handle, want, change, units, relocated, clobbered, failed>>
  BY DEF PairInv, Parent
<1>2. CASE dir = NoDir /\ handle = NoDir
  <2>1. anchor' = NoPair
    BY <1>1, <1>2, NoDirTyped
  <2>2. Typed'
    BY <1>1, <2>1, Types, TypedNext
  <2>3. AtRest'
    BY <1>1, <1>2, <2>1 DEF AtRest
  <2>4. want = NoEntries
    BY <1>1, <1>2 DEF ToldParent, NoDir
  <2>5. Content' = want
    BY <2>1, <2>4 DEF Content
  <2> QED
    BY <1>1, <2>2, <2>3, <2>5, Leads
<1>3. CASE ~ (dir = NoDir /\ handle = NoDir)
  <2>1. PICK a \in Blocks, w \in Blocks : a # w /\ dir.pair = <<w, a>> /\ Rewritten(a, w)
    BY <1>1, <1>3 DEF ToldParent
  <2>2. handle \in {NoDir, dir} /\ dir.off = 1
    BY <1>1, <1>3 DEF ToldParent
  <2>3. anchor' = <<w, a>>
    BY <1>1, <2>1
  <2>4. Typed'
    BY <1>1, <2>3, Types, TypedNext
  <2>5. Stands(w, a)'
    BY <1>1, <2>1, <2>3 DEF Stands, Rewritten
  <2>6. HandleIn(w, a)' /\ (handle' # NoDir => (Appendable(handle') => ErasedIn(flash'[w])))
    BY <1>1, <2>1, <2>2 DEF HandleIn, Rewritten, Appendable
  <2>7. anchor' # NoPair
    BY <2>3 DEF NoPair
  <2>8. AtRest'
    BY <1>1, <2>5, <2>6, <2>7 DEF AtRest
  <2>9. Content' = want
    BY <1>1, <2>1, <2>5, Types, NextContentIs DEF Rewritten
  <2> QED
    BY <1>1, <2>4, <2>8, <2>9, Leads
<1> QED
  BY <1>2, <1>3

LEMMA FreshContent == [k \in Keys |-> Min(Values)] \in Contents
<1>1. PICK x \in Values : \A y \in Values : x <= y
  BY LeastExists, PairAssumption
<1>2. Min(Values) \in Values
  BY <1>1, Zenon DEF Min
<1> QED
  BY <1>2 DEF Contents

LEMMA CreateKeeps ==
  ASSUME PairInv, NEW p \in Blocks, NEW q \in Blocks, Create(p, q) PROVE PairInv'
<1>1. /\ anchor = NoPair /\ p # q /\ pc' = "compact" /\ handle' = NoDir
      /\ dir' = [pair |-> <<p, q>>, rev |-> AlignUp(flash[p].rev), off |-> 0, erased |-> FALSE]
      /\ want' = [k \in Keys |-> Min(Values)] /\ change' = want' /\ units' = 0 /\ relocated' = TRUE
      /\ UNCHANGED <<flash, anchor, clobbered, failed>>
  BY DEF Create
<1>2. flash[p].rev \in Revs
  BY Types, BlockFacts
<1>3. AlignUp(flash[p].rev) \in Revs /\ Newer(NextRev(AlignUp(flash[p].rev)), flash[p].rev)
  BY <1>2, AlignNewer
<1>4. /\ dir' \in Dirs /\ dir'.pair = <<p, q>> /\ dir'.rev = AlignUp(flash[p].rev)
  <2>1. 0 \in 0..Commits /\ FALSE \in BOOLEAN
    BY Sizes
  <2>2. dir' \in Dirs
    BY <1>1, <1>3, <2>1, DirTyped
  <2> QED
    BY <1>1, <2>2
<1>5. want' \in Contents /\ want' \in Sets /\ change' \in Sets
  BY <1>1, FreshContent, ContentsAreSets
<1>6. Typed'
  <2>1. 0 \in 0..Units
    BY Sizes
  <2>2. /\ flash' \in [Blocks -> Block] /\ anchor' \in {NoPair} \cup (Blocks \X Blocks)
        /\ handle' \in Dirs /\ units' \in 0..Units /\ ~ clobbered' /\ pc' = "compact"
    BY <1>1, <2>1, Types, NoDirTyped
  <2> QED
    BY <1>4, <1>5, <2>2, TypedNext
<1>7. Compacting'
  BY <1>1, <1>3, <1>4, <1>5 DEF Compacting, From, Old
<1> QED
  BY <1>1, <1>6, <1>7, Leads

(* Whatever is under way, the pair that the parent knows stands. *)
LEMMA SomeStands == ASSUME PairInv, anchor # NoPair PROVE \E a, o \in Blocks : Stands(a, o)
<1>1. CASE pc \in {"idle", "refused", "off"}
  BY <1>1 DEF PairInv, AtRest
<1>2. CASE pc = "append"
  BY <1>2 DEF PairInv, Appending
<1>3. CASE pc = "compact"
  BY <1>3 DEF PairInv, Compacting, Old
<1>4. CASE pc \in {"erase", "relocate tired", "relocate bad"}
  BY <1>4 DEF PairInv, Emptying, Old
<1>5. CASE pc = "write"
  BY <1>5 DEF PairInv, Writing, Old, Rewritten
<1>6. CASE pc = "parent"
  BY <1>6 DEF PairInv, ToldParent, Rewritten
<1> QED
  BY <1>1, <1>2, <1>3, <1>4, <1>5, <1>6 DEF PairInv, Typed

LEMMA RemoveKeeps == ASSUME PairInv, Remove PROVE PairInv'
<1>1. /\ anchor # NoPair /\ dir' = NoDir /\ handle' = NoDir /\ pc' = "parent" /\ want' = NoEntries
      /\ UNCHANGED <<flash, anchor, change, units, relocated, clobbered, failed>>
  BY DEF Remove
<1>2. PICK a \in Blocks, o \in Blocks : Stands(a, o)
  BY <1>1, SomeStands
<1>3. Stands(a, o)'
  BY <1>1, <1>2 DEF Stands
<1>4. Typed'
  BY <1>1, Types, NoDirTyped, Kinds, TypedNext
<1>5. ToldParent'
  BY <1>1, <1>3 DEF ToldParent
<1> QED
  BY <1>1, <1>4, <1>5, Leads

LEMMA MountKeeps == ASSUME PairInv, Mount PROVE PairInv'
<1>1. /\ pc = "off" /\ AtRest /\ pc' = "idle" /\ want' = Content
      /\ UNCHANGED <<flash, anchor, dir, handle, change, units, relocated, clobbered, failed>>
  BY DEF PairInv, Mount
<1>2. Content \in Sets
  <2>1. CASE anchor = NoPair
    BY <2>1, Kinds DEF Content
  <2>2. CASE anchor # NoPair
    <3>1. PICK a \in Blocks, o \in Blocks : Stands(a, o)
      BY <2>2, SomeStands
    <3> QED
      BY <3>1, Types, ContentIs, ContentsAreSets DEF Stands, Counts
  <2> QED
    BY <2>1, <2>2
<1>3. Typed'
  BY <1>1, <1>2, Types, TypedNext
<1>4. AtRest'
  BY <1>1 DEF AtRest, Stands, HandleIn
<1> QED
  BY <1>1, <1>3, <1>4, Leads

LEMMA Drops ==
  ASSUME flash \in [Blocks -> Block], NEW b \in Blocks, NEW l \in Block,
         flash' = [flash EXCEPT ![b] = l]
  PROVE  /\ flash' \in [Blocks -> Block] /\ flash'[b] = l
         /\ \A x \in Blocks \ {b} : flash'[x] = flash[x]
OBVIOUS

(* Power that fails while the other block is erased or written.  *)
LEMMA CrashSpares ==
  ASSUME PairInv, NEW a \in Blocks, NEW w \in Blocks, a # w, Old(a, w), NEW slots,
         NEW l \in Garbled(w, slots), flash' = [flash EXCEPT ![w] = l], anchor' = anchor
  PROVE  /\ flash' \in [Blocks -> Block] /\ Content' = Content
         /\ anchor # NoPair => \E o \in Blocks : Stands(a, o)'
<1>1. l \in Block
  BY Types, GarbledIs
<1>2. /\ flash' \in [Blocks -> Block] /\ flash'[w] = l
      /\ \A x \in Blocks \ {w} : flash'[x] = flash[x]
  BY <1>1, Types, Drops
<1>3. CASE anchor = NoPair
  BY <1>2, <1>3, NoContent
<1>4. CASE anchor # NoPair
  <2>1. PICK o \in Blocks : Stands(a, o)
    BY <1>4 DEF Old
  <2>2. flash'[a] = flash[a]
    BY <1>2
  <2>3. Counts(flash'[a], flash'[o])
    <3>1. CASE o = w
      <4>1. Counts(flash[a], flash[w])
        BY <2>1, <3>1 DEF Stands
      <4>2. Counts(flash[a], l)
        BY <4>1, Types, GarbledCounts
      <4> QED
        BY <1>2, <2>2, <3>1, <4>2
    <3>2. CASE o # w
      BY <1>2, <2>1, <2>2, <3>2 DEF Stands
    <3> QED
      BY <3>1, <3>2
  <2>4. Stands(a, o)'
    BY <2>1, <2>3 DEF Stands
  <2>5. Content' = Content
    BY <1>2, <2>1, <2>2, <2>4, Types, SameContent
  <2> QED
    BY <1>2, <2>4, <2>5
<1> QED
  BY <1>3, <1>4

(* Power that fails while a commit is appended. *)
LEMMA CrashTears ==
  ASSUME PairInv, pc = "append", units < Units,
         NEW l \in Garbled(dir.pair[1], {<<dir.off + 1, units + 1>>}),
         flash' = [flash EXCEPT ![dir.pair[1]] = l], anchor' = anchor
  PROVE  /\ flash' \in [Blocks -> Block] /\ Content' = Content
         /\ \E a, o \in Blocks : Stands(a, o)'
<1>1. PICK a \in Blocks, o \in Blocks :
         /\ Stands(a, o) /\ want \in Contents
         /\ dir.pair = <<a, o>> /\ dir.rev = flash[a].rev /\ dir.off + 1 <= Commits
         /\ Unfinished(a, o, flash[a], dir.off + 1) \/ Finished(flash[a], dir.off + 1)
  BY DEF PairInv, Appending
<1> DEFINE k == flash[a]
           n == ValidIn(k)
           c == n + 1
<1>2. Unfinished(a, o, k, dir.off + 1)
  BY <1>1, Types, Sizes DEF Finished
<1>3. n = dir.off /\ n \in 0..Commits
  BY <1>2, ValidFacts DEF Unfinished
<1>4. (Blank(k, c, units) /\ Programmed(k, c, units, change)) \/ Spoilt(k, c)
  BY <1>2, <1>3 DEF Unfinished
<1>5. a # o /\ Counts(k, flash[o]) /\ n > 0
  BY <1>1 DEF Stands, Counts
<1>6. /\ l \in Garbled(a, {<<c, units + 1>>}) /\ flash' = [flash EXCEPT ![a] = l]
  BY <1>1, <1>3
<1> HIDE DEF n, c
<1>7. /\ n \in Nat /\ n < Commits /\ c \in 1..Commits /\ c = n + 1 /\ c # 1
      /\ units + 1 \in 1..Units /\ units \in Nat /\ 1 \in 1..Units
  BY <1>1, <1>3, <1>5, Types, Sizes DEF c
<1>8. /\ l \in Block /\ l.rev = k.rev /\ \A d \in 1..n : l.log[d] = k.log[d]
      /\ l.log[c][units + 1] = Torn
      /\ \A i \in 1..Units : l.log[c][i] \in {Torn, k.log[c][i]}
  <2> DEFINE slots == {<<c, units + 1>>}
  <2>1. \A d \in 1..n : d \in 1..Commits /\ d # c
    BY <1>7, Sizes
  <2>2. /\ \A d \in 1..n : \A i \in 1..Units : <<d, i>> \notin slots
        /\ <<1, 1>> \notin slots /\ <<c, units + 1>> \in slots
    BY <1>7, <2>1
  <2> HIDE DEF slots
  <2>3. /\ l \in Block
        /\ \A d \in 1..Commits, i \in 1..Units :
              l.log[d][i] = IF <<d, i>> \in slots THEN Torn ELSE k.log[d][i]
        /\ \A d \in 1..Commits :
              (\A i \in 1..Units : <<d, i>> \notin slots) => l.log[d] = k.log[d]
        /\ <<1, 1>> \notin slots => l.rev = k.rev
    <3>1. l \in Garbled(a, slots)
      BY <1>6 DEF slots
    <3> QED
      BY <3>1, Types, GarbledIs
  <2>4. \A d \in 1..n : l.log[d] = k.log[d]
    BY <2>1, <2>2, <2>3
  <2>5. l.log[c][units + 1] = Torn /\ \A i \in 1..Units : l.log[c][i] \in {Torn, k.log[c][i]}
    BY <1>7, <2>2, <2>3
  <2> QED
    BY <2>2, <2>3, <2>4, <2>5
<1>9. ~ WholeIn(l, c)
  BY <1>7, <1>8, TornTells
<1>10. ValidIn(l) = n /\ EntriesIn(l) = EntriesIn(k)
  BY <1>7, <1>8, <1>9, NotHeld DEF n
<1>11. l.log[c][1] # Erased
  <2>1. CASE units = 0
    BY <1>7, <1>8, <2>1, Kinds
  <2>2. CASE units # 0
    <3>1. k.log[c][1] # Erased
      <4>1. CASE Blank(k, c, units) /\ Programmed(k, c, units, change)
        <5>1. 1 \in 1..units
          BY <1>7, <2>2
        <5> QED
          BY <4>1, <5>1, Kinds DEF Programmed
      <4>2. CASE Spoilt(k, c)
        BY <2>2, <4>2, Kinds DEF Spoilt
      <4> QED
        BY <1>4, <4>1, <4>2
    <3> QED
      BY <1>7, <1>8, <3>1, Kinds
  <2> QED
    BY <2>1, <2>2
<1>12. /\ flash' \in [Blocks -> Block] /\ flash'[a] = l
       /\ \A x \in Blocks \ {a} : flash'[x] = flash[x]
  BY <1>6, <1>8, Types, Drops
<1>13. ~ ErasedIn(l)
  BY <1>7, <1>10, <1>11 DEF ErasedIn
<1>14. Counts(l, flash'[o])
  BY <1>5, <1>8, <1>10, <1>12, <1>13 DEF Counts, n
<1>15. Stands(a, o)'
  BY <1>1, <1>12, <1>14 DEF Stands
<1>16. Content' = Content
  BY <1>1, <1>10, <1>12, <1>15, Types, SameContent
<1> QED
  BY <1>12, <1>15, <1>16

LEMMA CrashKeeps == ASSUME PairInv, Crash PROVE PairInv' /\ Content' = Content
<1>1. /\ dir' = NoDir /\ handle' = NoDir /\ pc' = "off" /\ want' = NoEntries
      /\ change' = NoEntries /\ units' = 0 /\ UNCHANGED <<anchor, clobbered>>
  BY DEF Crash, Unmounted
<1>2. /\ flash' \in [Blocks -> Block] /\ Content' = Content
      /\ anchor # NoPair => \E a, o \in Blocks : Stands(a, o)'
  <2>1. CASE UNCHANGED flash
    <3>1. Content' = Content
      BY <1>1, <2>1 DEF Content, Entries, Valid, Whole, Active, Newest
    <3>2. ASSUME anchor # NoPair PROVE \E a, o \in Blocks : Stands(a, o)'
      BY <1>1, <2>1, <3>2, SomeStands DEF Stands
    <3> QED
      BY <2>1, <3>1, <3>2, Types
  <2>2. ASSUME pc = "append", units < Units,
               NEW l \in Garbled(dir.pair[1], {<<dir.off + 1, units + 1>>}),
               flash' = [flash EXCEPT ![dir.pair[1]] = l]
        PROVE  /\ flash' \in [Blocks -> Block] /\ Content' = Content
               /\ anchor # NoPair => \E a, o \in Blocks : Stands(a, o)'
    BY <1>1, <2>2, CrashTears
  <2>3. ASSUME pc = "erase" \/ (pc = "write" /\ units < Units), NEW slots,
               NEW l \in Garbled(dir.pair[2], slots), flash' = [flash EXCEPT ![dir.pair[2]] = l]
        PROVE  /\ flash' \in [Blocks -> Block] /\ Content' = Content
               /\ anchor # NoPair => \E a, o \in Blocks : Stands(a, o)'
    <3>1. PICK a \in Blocks, w \in Blocks : From(a, w) /\ Old(a, w)
      <4>1. CASE pc = "erase"
        BY <4>1 DEF PairInv, Emptying
      <4>2. CASE pc = "write" /\ units < Units
        BY <4>2, Types, Sizes DEF PairInv, Writing
      <4> QED
        BY <2>3, <4>1, <4>2
    <3>2. a # w /\ dir.pair[2] = w
      BY <3>1 DEF From
    <3> QED
      BY <1>1, <2>3, <3>1, <3>2, CrashSpares
  <2> QED
    BY <2>1, <2>2, <2>3 DEF Crash
<1>3. Typed'
  <2>1. 0 \in 0..Units
    BY Sizes
  <2> QED
    BY <1>1, <1>2, <2>1, Types, NoDirTyped, Kinds, TypedNext
<1>4. AtRest'
  BY <1>1, <1>2 DEF AtRest, HandleIn
<1> QED
  BY <1>1, <1>2, <1>3, <1>4, Leads

-----------------------------------------------------------------------------
(* The theorems. *)

LEMMA Stays == ASSUME PairInv, UNCHANGED vars PROVE PairInv' /\ Content' = Content
<1>1. /\ UNCHANGED <<flash, anchor, dir, handle, pc, want, change, units, relocated, clobbered, failed>>
  BY DEF vars, memory
<1>2. /\ Typed' = Typed
      /\ \A a, o \in Blocks : Stands(a, o)' = Stands(a, o) /\ HandleIn(a, o)' = HandleIn(a, o)
  BY <1>1 DEF Typed, TypeOK, Stands, HandleIn
<1>3. \A a, w \in Blocks : From(a, w)' = From(a, w) /\ Old(a, w)' = Old(a, w)
                           /\ Rewritten(a, w)' = Rewritten(a, w)
  BY <1>1, <1>2 DEF From, Old, Rewritten
<1>4. AtRest => AtRest'
  BY <1>1, <1>2 DEF AtRest
<1>5. Appending => Appending'
  BY <1>1, <1>2 DEF Appending, Unfinished, Finished, Spoilt
<1>6. (Compacting => Compacting') /\ (Emptying => Emptying') /\ (Writing => Writing')
  BY <1>1, <1>2, <1>3 DEF Compacting, Emptying, Writing
<1>7. ToldParent => ToldParent'
  BY <1>1, <1>2, <1>3 DEF ToldParent
<1>8. PairInv'
  BY <1>1, <1>2, <1>4, <1>5, <1>6, <1>7 DEF PairInv
<1>9. Content' = Content
  BY <1>1 DEF Content, Entries, Valid, Whole, Active, Newest
<1> QED
  BY <1>8, <1>9

LEMMA StepsKeep == PairInv /\ [Next]_vars => PairInv'
<1> SUFFICES ASSUME PairInv, [Next]_vars PROVE PairInv'
  OBVIOUS
<1>1. ASSUME NEW k \in Keys, NEW v \in Values, Begin(k, v) \/ BeginOpen(k, v) PROVE PairInv'
  BY <1>1, BeginKeeps
<1>2. CASE AppendUnit
  BY <1>2, AppendUnitKeeps
<1>3. CASE AppendEnds
  BY <1>3, AppendEndsKeeps
<1>4. CASE Compact
  BY <1>4, CompactKeeps
<1>5. CASE Erase
  BY <1>5, EraseKeeps
<1>6. CASE Write
  BY <1>6, WriteKeeps
<1>7. CASE WriteEnds
  BY <1>7, WriteEndsKeeps
<1>8. CASE Relocate
  BY <1>8, RelocateKeeps
<1>9. CASE NoSpace
  BY <1>9, NoSpaceKeeps
<1>10. CASE Parent
  BY <1>10, ParentKeeps
<1>11. ASSUME NEW p \in Blocks, NEW q \in Blocks, Create(p, q) PROVE PairInv'
  BY <1>11, CreateKeeps
<1>12. CASE Remove
  BY <1>12, RemoveKeeps
<1>13. CASE Crash
  BY <1>13, CrashKeeps
<1>14. CASE Mount
  BY <1>14, MountKeeps
<1>15. CASE UNCHANGED vars
  BY <1>15, Stays
<1> QED
  BY <1>1, <1>2, <1>3, <1>4, <1>5, <1>6, <1>7, <1>8, <1>9, <1>10, <1>11, <1>12, <1>13, <1>14, <1>15
  DEF Next

LEMMA AlwaysPairInv == Spec => []PairInv
<1>1. Init => PairInv
  BY StartsWell
<1>2. PairInv /\ [Next]_vars => PairInv'
  BY StepsKeep
<1> QED
  BY <1>1, <1>2, PTL DEF Spec

(* Types; and no unit is programmed that is not erased, wherever the power *)
(* fails and whichever units do not hold (lfs.c:1316-1349, 1700-1730).      *)
THEOREM OnlyErasedIsProgrammed == Spec => []ProgOnlyErased
<1>1. PairInv => ProgOnlyErased
  BY DEF PairInv, Typed, ProgOnlyErased
<1> QED
  BY <1>1, AlwaysPairInv, PTL

(* What an open file remembers of its directory is what the flash says,    *)
(* and where it would append the flash is erased, until a commit fails for  *)
(* want of a block (lfs.c:2442-2478).                                       *)
THEOREM HandlesAgree == Spec => []HandleAgrees
<1>1. ASSUME PairInv, Ready, handle # NoDir, ~ failed PROVE AgreesWith(Fetch(anchor))
  <2>1. AtRest
    BY <1>1 DEF PairInv, Ready
  <2>2. anchor # NoPair
    BY <1>1, <2>1 DEF AtRest
  <2>3. PICK a \in Blocks, o \in Blocks :
           Stands(a, o) /\ HandleIn(a, o) /\ (Appendable(handle) => ErasedIn(flash[a]))
    BY <1>1, <2>1, <2>2 DEF AtRest
  <2>4. Fetch(anchor) = [pair |-> <<a, o>>, rev |-> flash[a].rev,
                         off |-> ValidIn(flash[a]), erased |-> ErasedIn(flash[a])]
    BY <1>1, <2>3, Types, ContentIs
  <2>5. handle.pair = <<a, o>> /\ handle.rev = flash[a].rev /\ handle.off = ValidIn(flash[a])
    BY <1>1, <2>3 DEF HandleIn
  <2> QED
    BY <2>3, <2>4, <2>5 DEF AgreesWith
<1>2. PairInv => HandleAgrees
  BY <1>1 DEF HandleAgrees
<1> QED
  BY <1>2, AlwaysPairInv, PTL

(* What each step is, of what was promised. *)
LEMMA Begins ==
  ASSUME Idle, ~ Idle', Content' = Content, want' \in Contents \cup {NoEntries}
  PROVE  Promise!Next
BY DEF Promise!Next, Promise!Begin, Contents, Idle, Broken

LEMMA Succeeds ==
  ASSUME ~ Idle, pc' = "idle", Content' = want PROVE Promise!Next
BY DEF Promise!Next, Promise!Done, Idle, Broken

LEMMA Fails ==
  ASSUME pc' \in {"refused", "off"}, Content' = Content PROVE Promise!Next
BY DEF Promise!Next, Promise!Broken, Idle, Broken

LEMMA Starts ==
  ASSUME pc = "off", pc' = "idle", Content' = Content PROVE Promise!Next
BY DEF Promise!Next, Promise!Recover, Idle, Broken

LEMMA Goes ==
  ASSUME ~ Idle, ~ Idle', Content' \in {Content, want}, want' = want
  PROVE  [Promise!Next]_(Promise!vars)
<1>1. CASE Content' = Content
  BY <1>1 DEF Promise!vars, Idle
<1>2. CASE Content' = want
  BY <1>2 DEF Promise!Next, Promise!TakeEffect, Idle
<1> QED
  BY <1>1, <1>2

LEMMA FlashAlone == ASSUME UNCHANGED <<flash, anchor>> PROVE Content' = Content
BY DEF Content, Entries, Valid, Whole, Active, Newest

LEMMA StepsPromise == PairInv /\ [Next]_vars => [Promise!Next]_(Promise!vars)
<1> SUFFICES ASSUME PairInv, [Next]_vars PROVE [Promise!Next]_(Promise!vars)
  OBVIOUS
<1>1. ASSUME NEW k \in Keys, NEW v \in Values, Begin(k, v) \/ BeginOpen(k, v)
      PROVE  Promise!Next
  <2>1. /\ anchor # NoPair /\ Idle /\ pc' \in {"append", "compact"}
        /\ want' = [Content EXCEPT ![k] = v] /\ UNCHANGED <<flash, anchor>>
    BY <1>1 DEF Begin, BeginOpen, Ready, Idle, Broken
  <2>2. PICK a \in Blocks, o \in Blocks : Stands(a, o)
    BY <2>1, SomeStands
  <2>3. Content \in Contents
    BY <2>2, Types, ContentIs DEF Stands, Counts
  <2>4. want' \in Contents
    BY <2>1, <2>3, Changed
  <2> QED
    BY <2>1, <2>4, FlashAlone, Begins DEF Idle, Broken
<1>2. CASE AppendUnit
  <2>1. /\ pc = "append" /\ pc' = "append" /\ want' = want
    BY <1>2 DEF AppendUnit, Prog
  <2> QED
    BY <1>2, <2>1, AppendUnitKeeps, Goes DEF Idle, Broken
<1>3. CASE AppendEnds
  <2>1. /\ pc = "append" /\ pc' \in {"idle", "compact"} /\ want' = want
        /\ UNCHANGED <<flash, anchor>>
    BY <1>3 DEF AppendEnds, Committed
  <2>2. ASSUME pc' = "idle" PROVE Content = want
    <3>1. Holds(dir.pair[1], dir.off + 1) /\ units = Units /\ Appending
      BY <1>3, <2>1, <2>2 DEF AppendEnds, PairInv
    <3>2. PICK a \in Blocks, o \in Blocks :
             /\ Stands(a, o) /\ dir.pair = <<a, o>>
             /\ Unfinished(a, o, flash[a], dir.off + 1) \/ Finished(flash[a], dir.off + 1)
      BY <3>1 DEF Appending
    <3>3. Finished(flash[a], dir.off + 1)
      BY <3>1, <3>2, Views DEF Unfinished
    <3> QED
      BY <3>2, <3>3, Types, ContentIs DEF Finished
  <2>3. CASE pc' = "idle"
    BY <2>1, <2>2, <2>3, FlashAlone, Succeeds DEF Idle, Broken
  <2>4. CASE pc' = "compact"
    BY <2>1, <2>4, FlashAlone, Goes DEF Idle, Broken
  <2> QED
    BY <2>1, <2>3, <2>4
<1>4. CASE Compact
  <2>1. /\ pc = "compact" /\ pc' \in {"relocate tired", "erase"} /\ want' = want
        /\ UNCHANGED <<flash, anchor>>
    BY <1>4 DEF Compact
  <2> QED
    BY <2>1, FlashAlone, Goes DEF Idle, Broken
<1>5. CASE Erase
  <2>1. pc = "erase" /\ pc' = "write" /\ want' = want
    BY <1>5 DEF Erase
  <2> QED
    BY <1>5, <2>1, EraseKeeps, Goes DEF Idle, Broken
<1>6. CASE Write
  <2>1. pc = "write" /\ pc' = "write" /\ want' = want
    BY <1>6 DEF Write, Prog
  <2> QED
    BY <1>6, <2>1, WriteKeeps, Goes DEF Idle, Broken
<1>7. CASE WriteEnds
  <2>1. /\ pc = "write" /\ pc' \in {"idle", "parent", "relocate bad"} /\ want' = want
        /\ UNCHANGED <<flash, anchor>>
    BY <1>7 DEF WriteEnds, Committed
  <2>2. ASSUME pc' = "idle" PROVE Content = want
    <3>1. Holds(dir.pair[2], 1) /\ ~ relocated /\ units = Units /\ Writing
      BY <1>7, <2>1, <2>2 DEF WriteEnds, PairInv
    <3>2. PICK a \in Blocks, w \in Blocks :
             /\ From(a, w)
             /\ HoldsIn(flash[w], 1, change) => Rewritten(a, w) /\ Stands(w, a)
      BY <3>1 DEF Writing
    <3>3. dir.pair[2] = w
      BY <3>2 DEF From
    <3>4. Rewritten(a, w) /\ Stands(w, a)
      BY <3>1, <3>2, <3>3, Views
    <3> QED
      BY <3>4, Types, ContentIs DEF Rewritten
  <2>3. CASE pc' = "idle"
    BY <2>1, <2>2, <2>3, FlashAlone, Succeeds DEF Idle, Broken
  <2>4. CASE pc' # "idle"
    BY <2>1, <2>4, FlashAlone, Goes DEF Idle, Broken
  <2> QED
    BY <2>3, <2>4
<1>8. CASE Relocate
  <2>1. /\ pc \in {"relocate tired", "relocate bad"} /\ pc' = "erase" /\ want' = want
        /\ UNCHANGED <<flash, anchor>>
    BY <1>8 DEF Relocate
  <2> QED
    BY <2>1, FlashAlone, Goes DEF Idle, Broken
<1>9. CASE NoSpace
  <2>1. pc' = "refused" /\ UNCHANGED <<flash, anchor>>
    BY <1>9 DEF NoSpace
  <2> QED
    BY <2>1, FlashAlone, Fails
<1>10. CASE Parent
  <2>1. pc = "parent" /\ pc' = "idle"
    BY <1>10 DEF Parent
  <2> QED
    BY <1>10, <2>1, ParentKeeps, Succeeds DEF Idle, Broken
<1>11. ASSUME NEW p \in Blocks, NEW q \in Blocks, Create(p, q) PROVE Promise!Next
  <2>1. /\ Idle /\ pc' = "compact" /\ UNCHANGED <<flash, anchor>>
        /\ want' = [k \in Keys |-> Min(Values)]
    BY <1>11 DEF Create, Ready, Idle, Broken
  <2> QED
    BY <2>1, FreshContent, FlashAlone, Begins DEF Idle, Broken
<1>12. CASE Remove
  <2>1. /\ Idle /\ pc' = "parent" /\ UNCHANGED <<flash, anchor>> /\ want' = NoEntries
    BY <1>12 DEF Remove, Ready, Idle, Broken
  <2> QED
    BY <2>1, FlashAlone, Begins DEF Idle, Broken
<1>13. CASE Crash
  <2>1. pc' = "off" /\ Content' = Content
    BY <1>13, CrashKeeps DEF Crash, Unmounted
  <2> QED
    BY <2>1, Fails
<1>14. CASE Mount
  <2>1. pc = "off" /\ pc' = "idle" /\ UNCHANGED <<flash, anchor>>
    BY <1>14 DEF Mount
  <2> QED
    BY <2>1, FlashAlone, Starts
<1>15. CASE UNCHANGED vars
  <2>1. UNCHANGED <<flash, anchor, pc, want>>
    BY <1>15 DEF vars, memory
  <2>2. Content' = Content
    BY <2>1, FlashAlone
  <2> QED
    BY <2>1, <2>2 DEF Idle, Broken, Promise!vars
<1> QED
  BY <1>1, <1>2, <1>3, <1>4, <1>5, <1>6, <1>7, <1>8, <1>9, <1>10, <1>11, <1>12, <1>13, <1>14, <1>15
  DEF Next

(* A change of a directory takes effect at one moment or not at all, and a *)
(* change that is reported done has, wherever the power fails, whichever   *)
(* units fail and whatever the blocks held before: the pair implements     *)
(* module AtomicUpdate (lfs.c:2218-2390, 1916-2090).                        *)
THEOREM PairIsAtomic == Spec => ChangesAreAtomic
<1>1. Init => Promise!Init
  BY FlashAlone DEF Init, Promise!Init, Content, Idle, Broken
<1>2. PairInv /\ [Next]_vars => [Promise!Next]_(Promise!vars)
  BY StepsPromise
<1> QED
  BY <1>1, <1>2, AlwaysPairInv, PTL DEF Spec, ChangesAreAtomic, Promise!Spec
===============================================================================
