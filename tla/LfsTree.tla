------------------------------ MODULE LfsTree ------------------------------
(***************************************************************************)
(* The directory tree of littlefs (lfs.c): mkdir, remove and rename, each  *)
(* of several commits to several metadata pairs, between which the power   *)
(* may fail.                                                                *)
(*                                                                         *)
(* Every directory is a pair of blocks.  It is named twice: by its entry   *)
(* in its parent, and by the tail of its predecessor in a list that all    *)
(* directories are on.  What is half done is written down in the "global   *)
(* state": that there may be orphans, and which entry is being moved.  It  *)
(* is the exclusive or of what all directories on the list store, so that  *)
(* any commit can change it.  Facts being or not being there, an exclusive *)
(* or is a symmetric difference.                                            *)
(*                                                                         *)
(* A commit to one pair is atomic, as MetadataPair shows.  It appends to   *)
(* the pair's newer block, or rewrites the directory in the older one, or, *)
(* that one being worn, in another block: the pair then has a new name     *)
(* ("is relocated"), which its parent and its predecessor must be told.    *)
(* Directories fit in a pair, and the root is the superblock's pair, which *)
(* is never relocated.  No commit fails for want of a block.                *)
(***************************************************************************)
EXTENDS Integers, FiniteSets, FiniteSetsExt, SequencesExt

CONSTANTS
  Blocks, Root,   \* Root: the pair <<block 0, block 1>>
  Names,
  MaxDirs, MaxOps, MaxRewrites, MaxCrashes   \* bounds

ASSUME TreeAssumption ==
  /\ Root \in Blocks \X Blocks /\ Root[1] # Root[2]
  /\ {MaxDirs, MaxOps, MaxRewrites, MaxCrashes} \subseteq Nat

VARIABLES
  flash,          \* the newest commit in each block
  gstate, gdisk,  \* the global state wanted, and as it is on flash
  gdelta,         \* what a directory that is dropped stored of it
  op,             \* the call in progress: the mdirs it holds
  todo,           \* what is left to do of it, first things first
  loop,           \* lfs_dir_orphaningcommit: the pair that was relocated
  scan,           \* lfs_fs_deorphan: how far it is
  taken,          \* blocks allocated by the call
  wanted,         \* ghost: the tree after the call
  ops, rewrites, crashes

gstates == <<gstate, gdisk, gdelta>>
vars == <<flash, gstates, op, todo, loop, scan, taken, wanted, rewrites, ops, crashes>>

None == <<>>
File == <<"file">>
NoPair == <<>>
NoMove == <<>>
IsDir(entry) == Len(entry) = 2

PairOf(p) == ToSet(p)
Same(p, q) == PairOf(p) \cap PairOf(q) # {}     \* lfs_pair_cmp(p, q) == 0
InSync(p, q) == PairOf(p) = PairOf(q)            \* lfs_pair_issync

Xor(s, t) == SymDiff(s, t)
HasOrphans == [pair |-> NoPair, name |-> "orphans"]
Facts(g) ==
  (IF g.orphans > 0 THEN {HasOrphans} ELSE {}) \cup
  (IF g.move # NoMove THEN {g.move} ELSE {})
Clean == [orphans |-> 0, move |-> NoMove]
MoveIn(g, pair) == g.move # NoMove /\ Same(g.move.pair, pair)

NoEntries == [n \in Names |-> None]
ErasedBlock == [rev |-> 0, entries |-> NoEntries, tail |-> NoPair, delta |-> {}]

-----------------------------------------------------------------------------
(* Reading. *)

Pairs == Blocks \X Blocks
Fetch[pair \in Pairs] ==
  LET new == IF flash[pair[2]].rev > flash[pair[1]].rev THEN 2 ELSE 1
      b   == flash[pair[new]]
  IN [pair |-> <<pair[new], pair[3 - new]>>, rev |-> b.rev, entries |-> b.entries,
      tail |-> b.tail, delta |-> b.delta, erased |-> TRUE]
NoDir == [pair |-> NoPair, rev |-> 0, entries |-> NoEntries, tail |-> NoPair,
          delta |-> {}, erased |-> FALSE]

(* The directories on the list. *)
ListFrom[pair \in Pairs \cup {NoPair}, n \in Nat] ==
  IF pair = NoPair \/ n = 0 THEN <<>>
  ELSE <<Fetch[pair]>> \o ListFrom[Fetch[pair].tail, n - 1]
List == ListFrom[Root, Cardinality(Blocks)]

(* lfs_mount_: the state that the directories on the list store together. *)
Stored == FoldLeft(LAMBDA s, d : Xor(s, d.delta), {}, List)
Mounted ==
  LET moves == Stored \ {HasOrphans}
  IN [orphans |-> IF HasOrphans \in Stored THEN 1 ELSE 0,
      move |-> IF moves = {} THEN NoMove ELSE CHOOSE m \in moves : TRUE]

(* An entry that is being moved counts as gone (a "synthetic move"). *)
Hidden(g, pair, n) == MoveIn(g, pair) /\ g.move.name = n

(* lfs_fs_parent, lfs_fs_pred *)
Parents(pair) ==
  LET list == List
  IN {<<i, n>> \in (DOMAIN list) \X Names :
        LET d == list[i]
        IN IsDir(d.entries[n]) /\ Same(d.entries[n], pair) /\ ~Hidden(gdisk, d.pair, n)}
Parent(pair) ==
  LET all == Parents(pair)
      p == CHOOSE p \in all : \A q \in all : p[1] <= q[1]
  IN [dir |-> List[p[1]], name |-> p[2]]
Preds(pair) == {d \in ToSet(List) : d.tail # NoPair /\ Same(d.tail, pair)}
Pred(pair) == SelectSeq(List, LAMBDA d : d.tail # NoPair /\ Same(d.tail, pair))[1]

(* lfs_fs_traverse_ and lfs_alloc *)
Named(d) == {d.tail} \cup {d.entries[n] : n \in {m \in Names : IsDir(d.entries[m])}}
Traversed == PairOf(Root) \cup UNION {UNION {PairOf(p) : p \in Named(d)} : d \in ToSet(List)}
Free == Blocks \ (Traversed \cup taken)

(* The tree as the next start finds it: a set of paths. *)
Seen(g, d) == {n \in Names : d.entries[n] # None /\ ~Hidden(g, d.pair, n)}
Moves == {NoMove} \cup [pair : Pairs, name : Names]
GlobalStates == [orphans : Nat, move : Moves]
Paths == Seq(Names)
Below[g \in GlobalStates, pair \in Pairs, path \in Paths] ==
  UNION {IF ~IsDir(Fetch[pair].entries[n]) THEN {<<Append(path, n), "file">>}
         ELSE {<<Append(path, n), "dir">>} \cup
              IF Len(path) = Cardinality(Blocks) THEN {}
              ELSE Below[g, Fetch[pair].entries[n], Append(path, n)] :
           n \in Seen(g, Fetch[pair])}
Tree == Below[Mounted, Root, <<>>]

-----------------------------------------------------------------------------
(* lfs_dir_relocatingcommit and lfs_dir_compact: d becomes a directory     *)
(* with these entries and this tail, the global state becomes g.            *)

(* lfs->mlist: the call's other mdir is kept up to date. *)
Tracked(o, d, new) == IF Same(o.dir.pair, d.pair) THEN [o EXCEPT !.dir = new] ELSE o

NoOp == [busy |-> FALSE, cwd |-> NoDir, name |-> "", dir |-> NoDir, old |-> NoDir, from |-> ""]
NoLoop == [lpair |-> NoPair, ldir |-> NoDir, hasparent |-> FALSE, orphans |-> FALSE]
Scanning(powerloss) == [pass |-> 0, pdir |-> NoDir, powerloss |-> powerloss, more |-> FALSE]
NoScan == Scanning(FALSE)

Programmed(new) ==
  [flash EXCEPT ![new.pair[1]] = [rev |-> new.rev, entries |-> new.entries,
                                  tail |-> new.tail, delta |-> new.delta]]

(* What can become of a commit: it is appended, or all of the directory is *)
(* written to the other block of the pair or, if that is worn, to a free   *)
(* one; then the global state is not written, and others are to be told.   *)
Outcomes(d, entries, tail, g, stolen) ==
  LET dir   == [d EXCEPT !.entries = entries, !.tail = tail, !.erased = TRUE,
                         !.delta = Xor(@, stolen)]
      whole == [dir EXCEPT !.delta = Xor(@, Xor(Facts(g), Facts(gdisk)))]
      To(b, new) == [new EXCEPT !.rev = @ + 1, !.pair = <<b, d.pair[1]>>]
  IN (IF d.erased THEN {[how |-> "appended", new |-> whole]} ELSE {})
     \cup {[how |-> "compacted", new |-> To(d.pair[2], whole)]}
     \cup {[how |-> "relocated", new |-> To(b, dir)] :
             b \in CASE Same(d.pair, Root) -> {}
                    [] Free = {} -> {d.pair[2]}
                    [] OTHER -> Free}

RelocatingCommit(o, d, g, c) ==
  LET relocated == c.how = "relocated"
      counts    == relocated \/ (c.how = "compacted" /\ d.erased)
  IN /\ rewrites' = IF counts THEN rewrites + 1 ELSE rewrites
     /\ rewrites' <= MaxRewrites
     /\ gstate' = g /\ gdelta' = {}
     /\ gdisk' = IF relocated THEN gdisk ELSE g
     /\ flash' = Programmed(c.new)
     /\ op' = Tracked(o, d, c.new)
     /\ taken' = IF relocated THEN taken \cup {c.new.pair[1]} ELSE taken

Orphans(g, n) == [g EXCEPT !.orphans = @ + n]
Without(entries, g, pair) ==
  IF MoveIn(g, pair) THEN [entries EXCEPT ![g.move.name] = None] ELSE entries
MoveDone(g, pair) == IF MoveIn(g, pair) THEN [g EXCEPT !.move = NoMove] ELSE g

(* lfs_dir_orphaningcommit up to its loop, which "parent" stands for.  By   *)
(* lfs_dir_commit it is followed by lfs_fs_deorphan, if need be.            *)
Looping(lpair, ldir, orphans) ==
  [lpair |-> lpair, ldir |-> ldir, hasparent |-> FALSE, orphans |-> orphans]

Commit(o, d, entries, tail, g, stolen, rest) ==
  \E c \in Outcomes(d, entries, tail, g, stolen) :
    LET relocated == c.how = "relocated"
    IN /\ RelocatingCommit(o, d, g, c)
       /\ todo' = IF relocated THEN <<"parent", "tidy">> \o rest ELSE rest
       /\ loop' = IF relocated THEN Looping(d.pair, c.new, FALSE) ELSE NoLoop
       /\ UNCHANGED scan

-----------------------------------------------------------------------------
(* The loop of lfs_dir_orphaningcommit. *)

Doing(what) == todo # <<>> /\ todo[1] = what /\ UNCHANGED <<wanted, ops, crashes>>

LoopEnds(g) ==
  LET rest == Tail(todo)
      again == rest[1] = "tidy" /\ loop.orphans /\ g.orphans > 0
  IN /\ todo' = IF rest[1] # "tidy" THEN rest
                ELSE IF again THEN <<"scan">> \o Tail(rest) ELSE Tail(rest)
     /\ scan' = IF rest[1] # "tidy" THEN [scan EXCEPT !.more = @ \/ loop.orphans]
                ELSE IF again THEN Scanning(FALSE) ELSE scan
     /\ loop' = NoLoop

TellParent ==
  /\ Doing("parent")
  /\ IF Parents(loop.lpair) = {}
     THEN /\ todo' = <<"pred">> \o Tail(todo)
          /\ UNCHANGED <<flash, gstates, op, loop, scan, taken, rewrites>>
     ELSE LET parent == Parent(loop.lpair)
              pdir == parent.dir
              entries == [Without(pdir.entries, gstate, pdir.pair)
                            EXCEPT ![parent.name] = loop.ldir.pair]
              g == MoveDone(Orphans(gstate, 1), pdir.pair)
          IN \E c \in Outcomes(pdir, entries, pdir.tail, g, gdelta) :
               /\ RelocatingCommit(op, pdir, g, c)
               /\ IF c.how = "relocated"
                  THEN loop' = Looping(pdir.pair, c.new, TRUE) /\ UNCHANGED todo
                  ELSE /\ loop' = [loop EXCEPT !.hasparent = TRUE]
                       /\ todo' = <<"pred">> \o Tail(todo)
               /\ UNCHANGED scan

TellPred ==
  /\ Doing("pred")
  /\ IF Preds(loop.lpair) = {}
     THEN /\ UNCHANGED <<flash, gstates, op, taken, rewrites>>
          /\ LoopEnds(gstate)
     ELSE LET pdir == Pred(loop.lpair)
              fixed == IF gstate.orphans > 0 /\ loop.hasparent THEN Orphans(gstate, -1) ELSE gstate
              g == MoveDone(fixed, pdir.pair)
              entries == Without(pdir.entries, gstate, pdir.pair)
          IN \E c \in Outcomes(pdir, entries, loop.ldir.pair, g, gdelta) :
               /\ RelocatingCommit(op, pdir, g, c)
               /\ IF c.how = "relocated"
                  THEN /\ loop' = Looping(pdir.pair, c.new, loop.orphans)
                       /\ todo' = <<"parent">> \o Tail(todo)
                       /\ UNCHANGED scan
                  ELSE LoopEnds(g)

-----------------------------------------------------------------------------
(* lfs_fs_forceconsistency, with which every call starts. *)

Idle == ~op.busy /\ todo = <<>>

(* lfs_fs_demove *)
Demove ==
  /\ Idle /\ gdisk.move # NoMove
  /\ LET dir == Fetch[gdisk.move.pair]
     IN Commit(op, dir, [dir.entries EXCEPT ![gdisk.move.name] = None], dir.tail,
               [gstate EXCEPT !.move = NoMove], gdelta, <<>>)
  /\ UNCHANGED <<wanted, ops, crashes>>

(* lfs_fs_deorphan after a power failure *)
Deorphan ==
  /\ Idle /\ gdisk.move = NoMove /\ gstate.orphans > 0
  /\ todo' = <<"scan">> /\ scan' = Scanning(TRUE)
  /\ UNCHANGED <<flash, gstates, op, loop, taken, wanted, rewrites, ops, crashes>>

HalfOrphan(pdir) ==
  /\ Parents(pdir.tail) # {}
  /\ LET p == Parent(pdir.tail) IN ~InSync(p.dir.entries[p.name], pdir.tail)
FullOrphan(pdir) == Parents(pdir.tail) = {}

(* The first directory on the list, from pdir on, with such a successor. *)
Faulty(pdir) ==
  \/ scan.pass = 0 /\ HalfOrphan(pdir)
  \/ scan.pass = 1 /\ scan.powerloss /\ FullOrphan(pdir)
Stop(pdir) ==
  LET ahead == <<pdir>> \o ListFrom[pdir.tail, Cardinality(Blocks)]
      found == SelectInSeq(ahead, LAMBDA d : d.tail = NoPair \/ Faulty(d))
  IN ahead[found]

(* The tail of pdir is corrected, or a directory dropped from the list. *)
Mended(pdir, entries, tail, g, stolen) ==
  \E c \in Outcomes(pdir, entries, tail, g, stolen) :
    LET relocated == c.how = "relocated"
    IN /\ RelocatingCommit(op, pdir, g, c)
       /\ scan' = [scan EXCEPT !.pdir = c.new]
       /\ todo' = IF relocated THEN <<"parent">> \o todo ELSE todo
       /\ loop' = IF relocated THEN Looping(pdir.pair, c.new, FALSE) ELSE NoLoop

Scan ==
  /\ Doing("scan")
  /\ LET pdir == Stop(IF scan.pdir = NoDir THEN Fetch[Root] ELSE scan.pdir)
         p == Parent(pdir.tail)
         tail == Fetch[pdir.tail]
     IN \/ /\ pdir.tail # NoPair /\ scan.pass = 0
           /\ Mended(pdir, Without(pdir.entries, gstate, pdir.pair), p.dir.entries[p.name],
                     MoveDone(gstate, pdir.pair), gdelta)
        \/ /\ pdir.tail # NoPair /\ scan.pass = 1
           /\ Mended(pdir, pdir.entries, tail.tail, gstate, Xor(gdelta, tail.delta))
        \/ /\ pdir.tail = NoPair /\ (scan.more \/ scan.pass = 0)
           /\ scan' = [Scanning(scan.powerloss) EXCEPT !.pass = IF scan.more THEN 0 ELSE 1]
           /\ UNCHANGED <<flash, gstates, op, todo, loop, taken, rewrites>>
        \/ /\ pdir.tail = NoPair /\ ~scan.more /\ scan.pass = 1
           /\ scan' = NoScan /\ todo' = Tail(todo)
           /\ gstate' = [gstate EXCEPT !.orphans = 0]
           /\ UNCHANGED <<flash, gdisk, gdelta, op, loop, taken, rewrites>>

-----------------------------------------------------------------------------
(* The calls. *)

Dirs == {<<>>} \cup {x[1] : x \in {y \in Tree : y[2] = "dir"}}
At(path) == FoldLeft(LAMBDA d, n : Fetch[d.entries[n]], Fetch[Root], path)

Call(first) ==
  /\ Idle /\ ops < MaxOps
  /\ gdisk.move = NoMove /\ gstate.orphans = 0
  /\ ops' = ops + 1
  /\ todo' = first
  /\ UNCHANGED <<flash, gdisk, gdelta, loop, scan, rewrites, crashes>>

(* lfs_file_opencfg_ of a new file *)
Create(path, n) ==
  /\ Call(<<"create">>)
  /\ At(path).entries[n] = None
  /\ op' = [NoOp EXCEPT !.busy = TRUE, !.cwd = At(path), !.name = n]
  /\ wanted' = Tree \cup {<<Append(path, n), "file">>}
  /\ UNCHANGED <<gstate, taken>>

CreateEntry ==
  /\ Doing("create")
  /\ Commit(op, op.cwd, [op.cwd.entries EXCEPT ![op.name] = File], op.cwd.tail,
            gstate, gdelta, <<>>)

(* lfs_mkdir_ and lfs_dir_alloc *)
Mkdir(path, n) ==
  /\ Call(<<"mkdir dir", "mkdir cwd">>)
  /\ Cardinality(Dirs) < MaxDirs
  /\ At(path).entries[n] = None
  /\ \E p, q \in Free :
       /\ p # q
       /\ taken' = {p, q}
       /\ op' = [NoOp EXCEPT !.busy = TRUE, !.cwd = At(path), !.name = n,
                    !.dir = [NoDir EXCEPT !.pair = <<p, q>>, !.rev = flash[p].rev]]
  /\ wanted' = Tree \cup {<<Append(path, n), "dir">>}
  /\ UNCHANGED gstate

MkdirDir ==
  /\ Doing("mkdir dir")
  /\ Commit(op, op.dir, NoEntries, op.cwd.tail, gstate, gdelta, Tail(todo))

MkdirCwd ==
  /\ Doing("mkdir cwd")
  /\ Commit(op, op.cwd, [op.cwd.entries EXCEPT ![op.name] = op.dir.pair], op.dir.pair,
            gstate, gdelta, <<>>)

(* What lfs_remove_ and lfs_rename_ do with a directory that goes: it must  *)
(* be empty, the file system is marked as having an orphan; and, in the     *)
(* end, the directory is taken off the list (lfs_dir_drop).                  *)
Empty(entry) == IsDir(entry) => Fetch[entry].entries = NoEntries
Gone(entry) == IF IsDir(entry) THEN Fetch[entry] ELSE NoDir
Marked(g, entry) == IF IsDir(entry) THEN Orphans(g, 1) ELSE g

DropForgetsState ==
  /\ Doing("drop")
  /\ IF gstate.orphans = 0
     THEN todo' = <<>> /\ UNCHANGED <<flash, gstates, op, loop, scan, taken, rewrites>>
     ELSE LET pred == Pred(op.dir.pair)
          IN Commit([op EXCEPT !.dir = NoDir], pred, pred.entries, op.dir.tail,
                    Orphans(gstate, -1), gdelta, <<>>)

Drop ==
  /\ Doing("drop")
  /\ IF gstate.orphans = 0
     THEN todo' = <<>> /\ UNCHANGED <<flash, gstates, op, loop, scan, taken, rewrites>>
     ELSE LET pred == Pred(op.dir.pair)
          IN Commit([op EXCEPT !.dir = NoDir], pred, pred.entries, op.dir.tail,
                    Orphans(gstate, -1), Xor(gdelta, op.dir.delta), <<>>)

(* lfs_remove_ *)
Unlink(path, n) ==
  LET cwd == At(path) IN
  /\ Call(<<"remove", "drop">>)
  /\ cwd.entries[n] # None /\ Empty(cwd.entries[n])
  /\ op' = [NoOp EXCEPT !.busy = TRUE, !.cwd = cwd, !.name = n, !.dir = Gone(cwd.entries[n])]
  /\ gstate' = Marked(gstate, cwd.entries[n])
  /\ wanted' = {x \in Tree : x[1] # Append(path, n)}
  /\ UNCHANGED taken

RemoveEntry ==
  /\ Doing("remove")
  /\ Commit(op, op.cwd, [op.cwd.entries EXCEPT ![op.name] = None], op.cwd.tail,
            gstate, gdelta, Tail(todo))

(* lfs_rename_.  Nothing stops a caller from moving a directory below       *)
(* itself; this one does not.                                               *)
Renamed(from, to) ==
  {IF IsPrefix(from, x[1]) THEN <<to \o SubSeq(x[1], Len(from) + 1, Len(x[1])), x[2]>> ELSE x :
     x \in {y \in Tree : y[1] # to}}

PrepmoveNothing(g, name, pair) == g
Prepmove(g, name, pair) == [g EXCEPT !.move = [pair |-> pair, name |-> name]]

Rename(opath, o, npath, n) ==
  LET oldcwd == At(opath)
      newcwd == At(npath)
      prev == newcwd.entries[n]
      samepair == Same(oldcwd.pair, newcwd.pair)
      marked == Marked(gstate, prev)
  IN /\ Call(<<"rename new", "rename old", "drop">>)
     /\ oldcwd.entries[o] # None
     /\ ~IsPrefix(Append(opath, o), npath) /\ <<opath, o>> # <<npath, n>>
     /\ prev = None \/ (IsDir(prev) = IsDir(oldcwd.entries[o]) /\ Empty(prev))
     /\ op' = [busy |-> TRUE, cwd |-> newcwd, name |-> n, dir |-> Gone(prev),
               old |-> oldcwd, from |-> o]
     /\ gstate' = IF samepair THEN marked ELSE Prepmove(marked, o, oldcwd.pair)
     /\ wanted' = Renamed(Append(opath, o), Append(npath, n))
     /\ UNCHANGED taken

RenameNew ==
  /\ Doing("rename new")
  /\ LET there == [op.cwd.entries EXCEPT ![op.name] = op.old.entries[op.from]]
     IN Commit(op, op.cwd,
               IF Same(op.old.pair, op.cwd.pair) THEN [there EXCEPT ![op.from] = None] ELSE there,
               op.cwd.tail, gstate, gdelta, Tail(todo))

RenameOld ==
  /\ Doing("rename old")
  /\ IF gstate.move = NoMove
     THEN todo' = Tail(todo) /\ UNCHANGED <<flash, gstates, op, loop, scan, taken, rewrites>>
     ELSE Commit(op, op.old, [op.old.entries EXCEPT ![op.from] = None], op.old.tail,
                 [gstate EXCEPT !.move = NoMove], gdelta, Tail(todo))

Done ==
  /\ todo = <<>> /\ op.busy
  /\ op' = NoOp /\ taken' = {} /\ wanted' = {}
  /\ UNCHANGED <<flash, gstates, todo, loop, scan, rewrites, ops, crashes>>

-----------------------------------------------------------------------------
(* The power fails. *)
Crash ==
  /\ crashes < MaxCrashes
  /\ crashes' = crashes + 1
  /\ gstate' = Clean /\ gdisk' = Clean /\ gdelta' = {}
  /\ op' = NoOp /\ todo' = <<"mount">> /\ loop' = NoLoop /\ scan' = NoScan /\ taken' = {}
  /\ wanted' = {}
  /\ UNCHANGED <<flash, rewrites, ops>>

(* lfs_mount_ *)
Mount ==
  /\ Doing("mount")
  /\ gstate' = Mounted /\ gdisk' = Mounted
  /\ todo' = <<>>
  /\ UNCHANGED <<flash, gdelta, op, loop, scan, taken, rewrites>>

Init ==
  /\ flash = [b \in Blocks |-> ErasedBlock]
  /\ gstate = Clean /\ gdisk = Clean /\ gdelta = {}
  /\ op = NoOp /\ todo = <<>> /\ loop = NoLoop /\ scan = NoScan /\ taken = {}
  /\ wanted = {}
  /\ ops = 0 /\ rewrites = 0 /\ crashes = 0

Next ==
  \/ Demove \/ Deorphan \/ Scan \/ TellParent \/ TellPred
  \/ \E path \in Dirs, n \in Names : Create(path, n) \/ Mkdir(path, n) \/ Unlink(path, n)
  \/ \E opath, npath \in Dirs, o, n \in Names : Rename(opath, o, npath, n)
  \/ CreateEntry \/ MkdirDir \/ MkdirCwd \/ RemoveEntry \/ RenameNew \/ RenameOld \/ Drop
  \/ Done \/ Crash \/ Mount

Spec == Init /\ [][Next]_vars

-----------------------------------------------------------------------------
TypeOK ==
  /\ gstate.orphans \in Nat /\ gdisk.orphans \in Nat
  /\ gstate.move \in Moves /\ gdisk.move \in Moves
  /\ Cardinality(Stored \ {HasOrphans}) <= 1

(* Between calls, memory knows what the next start will read of the global *)
(* state; and when no recovery is due, the list and the tree have the same *)
(* directories and name them by the same blocks (lfs.c:4991-5119).           *)
StateIsStored == Stored = Facts(gdisk)
ListIsTree ==
  \A d \in ToSet(List) : d.tail # NoPair =>
    Cardinality(Parents(d.tail)) = 1 /\ ~HalfOrphan(d)
Consistent == TypeOK /\ (Idle => StateIsStored /\ (gstate = Clean => ListIsTree))

Promise == INSTANCE AtomicUpdate WITH
  Contents <- SUBSET (Seq(Names) \X {"file", "dir"}), Absent <- {},
  content <- Tree, wanted <- IF ~op.busy THEN Tree ELSE wanted, 
  state <- IF op.busy THEN "busy" ELSE IF todo = <<"mount">> THEN "broken" ELSE "idle"

(* Wherever the power fails, mkdir, remove and rename change the tree at   *)
(* one moment or not at all, and recovery does not change it.               *)
TreeChangesAreAtomic == Promise!Spec
=============================================================================
