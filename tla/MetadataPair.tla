---------------------------- MODULE MetadataPair ----------------------------
(***************************************************************************)
(* A littlefs directory on flash (lfs.c): a pair of blocks, each a log of  *)
(* commits, of which the one with the newer revision counts.  A commit is  *)
(* appended where the log ends in erased flash; else the whole directory   *)
(* is written anew ("compacted") to the other block of the pair, or to     *)
(* another block when that one is worn, and the parent is told.             *)
(*                                                                         *)
(* The flash is programmed a unit at a time (prog_size) and only where it  *)
(* is erased.  Power may fail in the middle of a unit or of an erase, and  *)
(* a unit may fail to hold what is programmed.  A directory's entries are  *)
(* a function from Keys; every commit takes Units units, the last of which *)
(* has the check sum.  The parent's own commit is taken to be atomic, and  *)
(* the pair not to be the superblock's, which is never relocated.           *)
(***************************************************************************)
EXTENDS Integers, FiniteSets, FiniteSetsExt

CONSTANTS
  Blocks, Keys, Values,
  Units,          \* units of a commit
  Commits,        \* commits that fit in a block
  HalfRevs,       \* half the values of the revision count (2^31)
  Cycles,         \* block_cycles
  MaxOps, MaxCrashes, MaxFaults   \* bounds

ASSUME PairAssumption ==
  /\ {Units, Commits, HalfRevs, Cycles} \subseteq Nat \ {0}
  /\ {MaxOps, MaxCrashes, MaxFaults} \subseteq Nat
  /\ Values \subseteq Nat /\ Values # {}

VARIABLES
  flash,          \* the blocks
  anchor,         \* the pair in the parent's entry, or NoPair
  dir,            \* the lfs_mdir_t in memory, of the commit in progress
  handle,         \* the caller's copy of it
  pc,             \* what the file system is doing
  want,           \* the entries after the commit in progress
  change,         \* what is written of them
  units,          \* units of the commit programmed so far
  relocated,
  clobbered,      \* ghost: a unit was programmed that was not erased, other
                  \*   than after a commit that failed
  failed,         \* ghost: a commit failed for want of a block since the start
  ops, crashes, faults

memory == <<dir, handle, pc, want, change, units, relocated>>
counts == <<ops, crashes, faults>>
vars == <<flash, anchor, memory, clobbered, failed, counts>>

Revs == 0..(2 * HalfRevs - 1)
(* Revisions wrap around, and are compared so (lfs_scmp). *)
NextRev(rev) == (rev + 1) % (2 * HalfRevs)

NewerUnsigned(a, b) == a > b
Newer(a, b) == LET d == (a - b) % (2 * HalfRevs) IN d > 0 /\ d < HalfRevs

(* As lfs_dir_needsrelocation says, an odd number; and its multiples. *)
Modulus == IF Cycles % 2 = 0 THEN Cycles + 1 ELSE Cycles + 2
Tired(rev) == (rev + 1) % Modulus = 0
(* lfs_alignup, whose sum wraps around before it is divided. *)
AlignUp(rev) == LET sum == (rev + Modulus - 1) % (2 * HalfRevs) IN sum - (sum % Modulus)

(* A new pair's revision may be that many ahead of what a block held. *)
ASSUME WearAssumption == Modulus < HalfRevs

None == -1
NoEntries == [k \in Keys |-> None]
Unit(kind, sets) == [kind |-> kind, sets |-> sets]
Erased == Unit("erased", NoEntries)
Torn == Unit("torn", NoEntries)
Part == Unit("part", NoEntries)
Crc(sets) == Unit("crc", sets)

ErasedBlock ==
  [rev |-> 2 * HalfRevs - 1, log |-> [c \in 1..Commits |-> [i \in 1..Units |-> Erased]]]

NoPair == <<>>
NoDir == [pair |-> NoPair, rev |-> 0, off |-> 0, erased |-> FALSE]

-----------------------------------------------------------------------------
(* lfs_dir_fetchmatch *)

(* Commits whose check sum is right, counted from the start of the log. *)
Whole(b, c) ==
  /\ \A i \in 1..(Units - 1) : flash[b].log[c][i].kind = "part"
  /\ flash[b].log[c][Units].kind = "crc"
Valid[b \in Blocks] == Max({n \in 0..Commits : \A c \in 1..n : Whole(b, c)})

(* Later commits overrule earlier ones. *)
Entries[b \in Blocks] ==
  [k \in Keys |->
     LET setting == {c \in 1..Valid[b] : flash[b].log[c][Units].sets[k] # None}
     IN IF setting = {} THEN None ELSE flash[b].log[Max(setting)][Units].sets[k]]

(* The log ends in flash that reads as it did when the last commit was     *)
(* made (its "fcrc"), so that another commit can be appended.               *)
EndsInNoTag(b) ==
  Valid[b] < Commits /\ flash[b].log[Valid[b] + 1][1].kind # "part"
EndsErased(b) ==
  Valid[b] < Commits /\ flash[b].log[Valid[b] + 1][1] = Erased

Other(pair, b) == IF b = pair[1] THEN pair[2] ELSE pair[1]

Newest(pair) ==
  IF Newer(flash[pair[2]].rev, flash[pair[1]].rev) THEN pair[2] ELSE pair[1]
Active[pair \in Blocks \X Blocks] ==
  IF Valid[Newest(pair)] > 0 THEN Newest(pair) ELSE Other(pair, Newest(pair))

Fetch(pair) ==
  LET block == Active[pair]
  IN [pair |-> <<block, Other(pair, block)>>, rev |-> flash[block].rev,
      off |-> Valid[block], erased |-> EndsErased(block)]

Content == IF anchor = NoPair THEN NoEntries ELSE Entries[Active[anchor]]

-----------------------------------------------------------------------------
(* The flash. *)

(* lfs_bd_prog of the next unit of the commit. *)
Written(b, c, unit) ==
  LET first == units = 0 /\ pc = "write"
  IN [flash EXCEPT ![b].log[c][units + 1] = unit, ![b].rev = IF first THEN dir.rev ELSE @]

Prog(b, c) ==
  LET unit == IF units + 1 = Units THEN Crc(change) ELSE Part
      was  == flash[b].log[c][units + 1]
  IN /\ clobbered' = (clobbered \/ (was # Erased /\ ~failed))
     /\ \/ /\ flash' = Written(b, c, IF was = Erased THEN unit ELSE Torn)
           /\ UNCHANGED faults
        \/ /\ faults < MaxFaults
           /\ flash' = Written(b, c, Torn)
           /\ faults' = faults + 1
     /\ units' = units + 1
     /\ UNCHANGED <<anchor, dir, handle, pc, want, change, relocated, failed, ops, crashes>>

-----------------------------------------------------------------------------
(* A change of the directory: lfs_dir_commit. *)

(* Not in the middle of a change; the last one may have been refused. *)
Ready == pc \in {"idle", "refused"}

(* "erased" is what the fetch saw, or lfs_dir_alloc set, and no commit      *)
(* changes it: a copy may say so of a log that is full, where the append    *)
(* ends at once in LFS_ERR_NOSPC, and not of one that was just compacted.   *)
Appendable(d) == d.erased /\ d.off < Commits

Begin(k, v) ==
  /\ Ready /\ anchor # NoPair /\ ops < MaxOps
  /\ ops' = ops + 1
  /\ LET fetched == Fetch(anchor)
     IN /\ dir' = fetched /\ handle' = fetched
        /\ pc' = IF Appendable(fetched) THEN "append" ELSE "compact"
  /\ want' = [Content EXCEPT ![k] = v]
  /\ change' = [NoEntries EXCEPT ![k] = v]
  /\ units' = 0 /\ relocated' = FALSE
  /\ UNCHANGED <<flash, anchor, clobbered, failed, crashes, faults>>

(* The same through a file that is open, whose copy of the lfs_mdir_t is   *)
(* kept up to date in the list of open files.                               *)
BeginOpen(k, v) ==
  /\ Ready /\ anchor # NoPair /\ handle # NoDir /\ ops < MaxOps
  /\ ops' = ops + 1
  /\ dir' = handle
  /\ pc' = IF Appendable(handle) THEN "append" ELSE "compact"
  /\ want' = [Content EXCEPT ![k] = v]
  /\ change' = [NoEntries EXCEPT ![k] = v]
  /\ units' = 0 /\ relocated' = FALSE
  /\ UNCHANGED <<flash, anchor, handle, clobbered, failed, crashes, faults>>

(* lfs_dir_relocatingcommit, where the log ends in erased flash. *)
AppendUnit ==
  /\ pc = "append" /\ units < Units
  /\ Prog(dir.pair[1], dir.off + 1)

(* lfs_dir_commitcrc reads back what it wrote. *)
Holds(b, c) ==
  /\ \A i \in 1..(Units - 1) : flash[b].log[c][i].kind = "part"
  /\ flash[b].log[c][Units] = Crc(change)

CommittedUnheard(d) ==
  /\ dir' = d
  /\ pc' = "idle"
  /\ UNCHANGED <<flash, anchor, handle, want, change, units, relocated, clobbered,
                 failed, counts>>

(* The list of open files has a copy only where one is open (lfs_dir_alloc *)
(* puts none there).                                                        *)
Kept(d) == IF handle = NoDir THEN NoDir ELSE d

Committed(d) ==
  /\ dir' = d /\ handle' = Kept(d)
  /\ pc' = "idle"
  /\ UNCHANGED <<flash, anchor, want, change, units, relocated, clobbered, failed, counts>>

AppendEnds ==
  /\ pc = "append" /\ units = Units
  /\ \/ /\ Holds(dir.pair[1], dir.off + 1)
        /\ Committed([dir EXCEPT !.off = @ + 1])
     \/ /\ ~Holds(dir.pair[1], dir.off + 1)
        /\ pc' = "compact"
        /\ UNCHANGED <<flash, anchor, dir, handle, want, change, units, relocated,
                       clobbered, failed, counts>>

(* lfs_dir_compact *)
Compact ==
  /\ pc = "compact"
  /\ dir' = [dir EXCEPT !.rev = NextRev(@)]
  /\ pc' = IF Tired(dir.rev) THEN "relocate tired" ELSE "erase"
  /\ change' = want /\ units' = 0
  /\ UNCHANGED <<flash, anchor, handle, want, relocated, clobbered, failed, counts>>

Erase ==
  /\ pc = "erase"
  /\ flash' = [flash EXCEPT ![dir.pair[2]] = ErasedBlock]
  /\ pc' = "write" /\ units' = 0
  /\ UNCHANGED <<anchor, dir, handle, want, change, relocated, clobbered, failed, counts>>

Write ==
  /\ pc = "write" /\ units < Units
  /\ Prog(dir.pair[2], 1)

WriteEnds ==
  /\ pc = "write" /\ units = Units
  /\ LET swapped == [pair |-> <<dir.pair[2], dir.pair[1]>>, rev |-> dir.rev,
                     off |-> 1, erased |-> dir.erased]
     IN \/ /\ Holds(dir.pair[2], 1) /\ ~relocated
           /\ Committed(swapped)
        \/ /\ Holds(dir.pair[2], 1) /\ relocated
           /\ dir' = swapped /\ handle' = Kept(swapped)
           /\ pc' = "parent"
           /\ UNCHANGED <<flash, anchor, want, change, units, relocated, clobbered, failed, counts>>
        \/ /\ ~Holds(dir.pair[2], 1)
           /\ pc' = "relocate bad"
           /\ UNCHANGED <<flash, anchor, dir, handle, want, change, units, relocated,
                          clobbered, failed, counts>>

PairOf(p) == {p[i] : i \in DOMAIN p}
Free == Blocks \ (PairOf(anchor) \cup PairOf(dir.pair))

(* lfs_alloc of another half.  A pair that is merely tired stays when there *)
(* is none; one that is bad makes the commit fail.  The caller's copy of   *)
(* the lfs_mdir_t then stays as it was, whatever became of the flash.        *)
Relocate ==
  /\ pc \in {"relocate tired", "relocate bad"}
  /\ \/ \E b \in Free : dir' = [dir EXCEPT !.pair[2] = b]
     \/ Free = {} /\ pc = "relocate tired" /\ UNCHANGED dir
  /\ pc' = "erase" /\ relocated' = TRUE
  /\ UNCHANGED <<flash, anchor, handle, want, change, units, clobbered, failed, counts>>

NoSpace ==
  /\ pc = "relocate bad" /\ Free = {}
  /\ pc' = "refused"
  /\ want' = Content /\ failed' = TRUE
  /\ UNCHANGED <<flash, anchor, dir, handle, change, units, relocated, clobbered, counts>>

(* lfs_dir_orphaningcommit, lfs_mkdir_: the parent's entry. *)
Parent ==
  /\ pc = "parent"
  /\ anchor' = dir.pair
  /\ pc' = "idle"
  /\ UNCHANGED <<flash, dir, handle, want, change, units, relocated, clobbered, failed, counts>>

(* lfs_mkdir_ and lfs_dir_alloc: the blocks hold what they held, and the   *)
(* revision goes on from that of the first.                                 *)
Create(p, q) ==
  /\ Ready /\ anchor = NoPair /\ p # q /\ ops < MaxOps
  /\ ops' = ops + 1
  /\ dir' = [pair |-> <<p, q>>, rev |-> AlignUp(flash[p].rev), off |-> 0, erased |-> FALSE]
  /\ pc' = "compact" /\ handle' = NoDir
  /\ want' = [k \in Keys |-> Min(Values)]
  /\ change' = want' /\ units' = 0 /\ relocated' = TRUE
  /\ UNCHANGED <<flash, anchor, clobbered, failed, crashes, faults>>

(* lfs_remove_: the parent's entry goes. *)
Remove ==
  /\ Ready /\ anchor # NoPair /\ ops < MaxOps
  /\ ops' = ops + 1
  /\ dir' = NoDir /\ handle' = NoDir /\ pc' = "parent"
  /\ want' = NoEntries
  /\ UNCHANGED <<flash, anchor, change, units, relocated, clobbered, failed, crashes, faults>>

-----------------------------------------------------------------------------
(* Power fails, in the middle of a unit or an erase or elsewhere. *)

Unmounted ==
  /\ crashes < MaxCrashes
  /\ crashes' = crashes + 1
  /\ dir' = NoDir /\ handle' = NoDir /\ pc' = "off" /\ failed' = FALSE
  /\ want' = NoEntries /\ change' = NoEntries /\ units' = 0 /\ relocated' = FALSE
  /\ UNCHANGED <<anchor, clobbered, ops, faults>>

Garbled(b, slots) ==
  {[rev |-> rev,
    log |-> [c \in 1..Commits |-> [i \in 1..Units |->
               IF <<c, i>> \in slots THEN Torn ELSE flash[b].log[c][i]]]] :
     rev \in IF <<1, 1>> \in slots THEN Revs ELSE {flash[b].rev}}

Crash ==
  /\ pc # "off"
  /\ \/ UNCHANGED flash
     \/ /\ pc = "append" /\ units < Units
        /\ \E block \in Garbled(dir.pair[1], {<<dir.off + 1, units + 1>>}) :
             flash' = [flash EXCEPT ![dir.pair[1]] = block]
     \/ /\ pc = "write" /\ units < Units
        /\ \E block \in Garbled(dir.pair[2], {<<1, units + 1>>}) :
             flash' = [flash EXCEPT ![dir.pair[2]] = block]
     \/ /\ pc = "erase"
        /\ \E slots \in SUBSET ((1..Commits) \X (1..Units)) : \E block \in Garbled(dir.pair[2], slots) :
             flash' = [flash EXCEPT ![dir.pair[2]] = block]
  /\ Unmounted

Mount ==
  /\ pc = "off"
  /\ pc' = "idle" /\ want' = Content
  /\ UNCHANGED <<flash, anchor, dir, handle, change, units, relocated, clobbered, failed, counts>>

Init ==
  /\ flash = [b \in Blocks |-> ErasedBlock]
  /\ anchor = NoPair /\ dir = NoDir /\ handle = NoDir /\ pc = "idle"
  /\ want = NoEntries /\ change = NoEntries /\ units = 0 /\ relocated = FALSE
  /\ clobbered = FALSE /\ failed = FALSE
  /\ ops = 0 /\ crashes = 0 /\ faults = 0

Next ==
  \/ \E k \in Keys, v \in Values : Begin(k, v) \/ BeginOpen(k, v)
  \/ AppendUnit \/ AppendEnds
  \/ Compact \/ Erase \/ Write \/ WriteEnds \/ Relocate \/ NoSpace \/ Parent
  \/ \E p, q \in Blocks : Create(p, q)
  \/ Remove \/ Crash \/ Mount

Spec == Init /\ [][Next]_vars

-----------------------------------------------------------------------------
Dirs == [pair : {NoPair} \cup (Blocks \X Blocks), rev : Revs, off : 0..Commits,
         erased : BOOLEAN]

TypeOK ==
  /\ \A b \in Blocks : flash[b].rev \in Revs
  /\ anchor \in {NoPair} \cup (Blocks \X Blocks)
  /\ dir \in Dirs /\ handle \in Dirs
  /\ units \in 0..Units
  /\ want \in [Keys -> Values \cup {None}] /\ change \in [Keys -> Values \cup {None}]

(* Types, and a unit is programmed only where the flash is erased, power   *)
(* failures and units that do not hold notwithstanding (lfs.c:1316-1349,    *)
(* 1700-1730).                                                              *)
ProgOnlyErased == TypeOK /\ ~clobbered

(* What an open file remembers of its directory, the pair, the revision    *)
(* and the end of the log, is what a reader of the flash would find, and    *)
(* where it would append the flash is erased; or else a commit failed.      *)
AgreesWith(fetched) ==
  /\ <<handle.pair, handle.rev, handle.off>> = <<fetched.pair, fetched.rev, fetched.off>>
  /\ Appendable(handle) => fetched.erased
HandleAgrees == Ready /\ handle # NoDir => failed \/ AgreesWith(Fetch(anchor))

Broken == pc \in {"refused", "off"}
Idle == pc = "idle" \/ Broken
Promise == INSTANCE AtomicUpdate WITH
  Contents <- [Keys -> Values], Absent <- NoEntries,
  content <- Content, wanted <- IF Idle THEN Content ELSE want,
  state <- IF Broken THEN "broken" ELSE IF Idle THEN "idle" ELSE "busy"

(* A change of a directory is atomic wherever the power fails, whichever   *)
(* units fail and whatever the blocks held before.                          *)
ChangesAreAtomic == Promise!Spec
=============================================================================
