----------------------------- MODULE LittleFile -----------------------------
(***************************************************************************)
(* The files of a littlefs volume (lfs.c), as the ESP-IDF's virtual file   *)
(* system gives them out (esp_littlefs.c).  A file is never changed in     *)
(* place: its words are written to new blocks, and a commit to the         *)
(* directory makes them the file.  Short files are kept in the directory   *)
(* itself ("inline").  Which blocks are free is not recorded anywhere: a   *)
(* scan of the directory and of the open files tells, a window at a time.   *)
(*                                                                         *)
(* Every call holds the volume's lock throughout; power may fail between   *)
(* what it writes and its commit.  A commit is atomic (MetadataPair).      *)
(* What is written is taken to be on the flash at once: the caches only    *)
(* delay it, up to the commit.  Blocks 0 and 1 are the directory.           *)
(***************************************************************************)
EXTENDS CtzList, Integers, Sequences, FiniteSets, FiniteSetsExt, SequencesExt

CONSTANTS
  Names,
  InlineMax,        \* longest inline file
  Window,           \* blocks looked at in a scan (8 * lookahead_size)
  FdCount,          \* descriptors
  Writes,           \* what is written at a time
  Positions,        \* where files are positioned, and their sizes set
  BadBlocks,        \* the sets of blocks that may turn out not to hold data
  Seeds,            \* blocks where a scan may start after a mount
  Volumes,          \* what the volume may hold at first: [flash, dir]
  MaxCalls, MaxRestarts     \* bounds

ASSUME FileAssumption ==
  /\ {BlockCount, BlockSize, InlineMax, Window, FdCount, MaxCalls, MaxRestarts} \subseteq Nat
  /\ BlockCount > 2 /\ BlockSize > 5 /\ InlineMax <= BlockSize /\ Window > 0
  /\ Positions \subseteq Nat /\ Seeds \subseteq Nat
  /\ \A bad \in BadBlocks : bad \subseteq 2..(BlockCount - 1)

VARIABLES
  flash,            \* the blocks
  dir,              \* the directory's entries
  fds,              \* the open files, by descriptor (lfs_file_t)
  lookahead,        \* which blocks of the window are in use
  bad,              \* the blocks that do not hold data
  call,             \* the call that still has to commit, or NoCall
  crowded,          \* ghost: a call ran out of room though there was some
  calls, restarts

vars == <<flash, dir, fds, lookahead, bad, call, crowded, calls, restarts>>

Blocks == 0..(BlockCount - 1)
Fds == 0..(FdCount - 1)

Absent == [absent |-> TRUE]
Inlined(words) == [inline |-> TRUE, words |-> words, head |-> 0, size |-> Len(words)]
Outlined(head, size) == [inline |-> FALSE, words |-> <<>>, head |-> head, size |-> size]

Free == [free |-> TRUE]
LeakedFd(n) == [leaked |-> n]
IsOpen(h) == "name" \in DOMAIN fds[h]

NoCall == [fd |-> 0, then |-> "none"]
(* LFS_BLOCK_INLINE: no block, but one when taken modulo their number. *)
InlineBlock == 2 * BlockCount - 2

-----------------------------------------------------------------------------
(* Which blocks are in use: lfs_fs_traverse_. *)

UsedByEntry(data, entry) ==
  IF entry = Absent \/ entry.inline THEN {} ELSE Chain(data, entry.head, entry.size)
UsedByFile(data, file) ==
  IF file.inline THEN {}
  ELSE (IF file.dirty THEN Chain(data, file.head, file.size) ELSE {})
       \cup (IF file.writing THEN Chain(data, file.block, file.pos) ELSE {})

Used(data, entries, open) ==
  {0, 1} \cup UNION {UsedByEntry(data, entries[n]) : n \in DOMAIN entries}
         \cup UNION {UsedByFile(data, file) : file \in open}

OpenFiles == {fds[h] : h \in {i \in Fds : IsOpen(i)}}

(* A call works on one file, which is not part of "others".  ok tells      *)
(* whether there was room so far.                                           *)
Begin(h) == [flash |-> flash, la |-> lookahead, file |-> fds[h], ok |-> TRUE,
             others |-> {fds[i] : i \in {j \in Fds \ {h} : IsOpen(j)}}, crowded |-> crowded]
InUse(m) == Used(m.flash, dir, m.others \cup {m.file})

Erased == [i \in 1..BlockSize |-> 0]
Starting(words) == words \o SubSeq(Erased, Len(words) + 1, BlockSize)

(* lfs_alloc_ckpoint *)
CkpointForgotten(m) == m
Ckpoint(m) == [m EXCEPT !.la.ckpoint = BlockCount]

(* lfs_alloc_scan *)
Scanned(m, size) ==
  LET start == (m.la.start + m.la.next) % BlockCount
  IN [m EXCEPT !.la = [start |-> start, next |-> 0, size |-> size, ckpoint |-> @.ckpoint,
                       used |-> {(b - start) % BlockCount : b \in InUse(m)} \cap 0..(size - 1)]]
Scan(m) == Scanned(m, Smaller(Window, m.la.ckpoint))

FreeInWindow(la) == la.next..(la.size - 1) \ la.used

(* On to the next free block of the window, or to its end. *)
MovedToSame(la) == la
MovedTo(la) ==
  LET rest == {b \in FreeInWindow(la) : b > la.next}
      to   == IF rest = {} THEN la.size ELSE Min(rest)
  IN [la EXCEPT !.next = to, !.ckpoint = @ - (to - la.next)]

(* lfs_alloc, until the block found can be erased. *)
RECURSIVE Alloc(_)
Alloc(m) ==
  LET free  == FreeInWindow(m.la)
      skip(la, to) == [la EXCEPT !.next = to, !.ckpoint = @ - (to - la.next)]
      here  == skip(m.la, IF free = {} THEN m.la.size ELSE Min(free))
      found == (here.start + here.next) % BlockCount
  IN IF free # {} /\ found \notin bad
     THEN [m EXCEPT !.la = MovedTo(here), !.file.block = found, !.flash[found] = Erased]
     ELSE IF free # {} THEN Alloc([m EXCEPT !.la = MovedTo(here)])
     ELSE IF here.ckpoint > 0 THEN Alloc(Scan([m EXCEPT !.la = here]))
     ELSE [m EXCEPT !.la = here, !.ok = FALSE,
            !.crowded = @ \/ Blocks \ (InUse(m) \cup bad \cup {InlineBlock % BlockCount}) # {}]

-----------------------------------------------------------------------------
(* Writing a file. *)

(* lfs_bd_prog, in a file's block. *)
Programmed(m, word) ==
  IF ~m.ok THEN m
  ELSE Ckpoint([m EXCEPT !.flash[m.file.block][m.file.off + 1] = word,
                         !.file.pos = @ + 1, !.file.off = @ + 1])

(* The block that was asked for starts with these words, if there was one. *)
Begun(m, words) ==
  IF ~m.ok THEN [m EXCEPT !.file.erred = TRUE]
  ELSE [m EXCEPT !.flash[m.file.block] = Starting(words), !.file.off = Len(words),
                 !.file.writing = TRUE, !.file.inline = FALSE]

(* lfs_ctz_extend *)
Extend(m, block) == Begun(Alloc(Ckpoint(m)), Started(m.flash, block, m.file.pos))

(* lfs_file_outline, lfs_file_relocate: to a block what is before the      *)
(* position of a file that was inline.                                      *)
Outline(m) == Begun(Alloc(Ckpoint(m)), SubSeq(m.file.cache, 1, m.file.pos))

Patched(words, pos, word) == SubSeq(words, 1, pos) \o <<word>> \o SubSeq(words, pos + 2, Len(words))

(* A word of lfs_file_flushedwrite. *)
WrittenWord(m, word) ==
  LET f    == m.file
      from == IF ~f.writing /\ f.pos > 0 THEN Find(m.flash, f.head, f.size, f.pos - 1) ELSE f.block
  IN IF ~m.ok THEN m
     ELSE IF f.inline
     THEN [m EXCEPT !.file.cache = Patched(@, f.pos, word), !.file.pos = @ + 1,
                    !.file.writing = TRUE]
     ELSE Programmed(IF f.writing /\ f.off < BlockSize THEN m ELSE Extend(m, from), word)

FlushedWrite(m, data) ==
  LET fits == Larger(m.file.pos + Len(data), m.file.size) <= InlineMax
  IN FoldLeft(WrittenWord, IF m.file.inline /\ ~fits /\ m.ok THEN Outline(m) ELSE m, data)

(* lfs_file_flush: what followed in the file is copied, word by word. *)
Copied(m) ==
  FoldLeft(LAMBDA w, pos : FlushedWrite(w, <<Word(w.flash, m.file.head, m.file.size, pos)>>), m,
           [i \in 1..Larger(0, m.file.size - m.file.pos) |-> m.file.pos + i - 1])

(* f is the file as it was before the copying moved its position. *)
Settled(m, f) ==
  IF ~m.ok THEN m
  ELSE [m EXCEPT !.file = [writing |-> FALSE, dirty |-> TRUE, size |-> Larger(f.pos, f.size),
                           head |-> IF f.inline THEN f.head ELSE m.file.block] @@ f]

Flush(m) ==
  IF ~m.file.writing THEN m ELSE Settled(IF m.file.inline THEN m ELSE Copied(m), m.file)

(* lfs_file_seek_ *)
PutAt(m, pos) == IF m.ok THEN [m EXCEPT !.file.pos = pos] ELSE m
Seek(m, pos) == IF m.file.pos = pos THEN m ELSE PutAt(Flush(m), pos)

(* lfs_file_write_ *)
Zeros(n) == [i \in 1..n |-> 0]
Unerred(m) == IF m.ok THEN [m EXCEPT !.file.erred = FALSE] ELSE m
Write(m, data) ==
  LET f      == m.file
      moved  == [m EXCEPT !.file.pos = IF f.appends /\ @ < f.size THEN f.size ELSE @]
      gap    == IF f.writing THEN 0 ELSE Larger(0, moved.file.pos - f.size)
      padded == FoldLeft(LAMBDA w, zero : FlushedWrite(w, <<zero>>),
                         [moved EXCEPT !.file.pos = @ - gap], Zeros(gap))
  IN Unerred(FlushedWrite(padded, data))

(* lfs_file_size_, lfs_file_truncate_ *)
Size(f) == IF f.writing THEN Larger(f.pos, f.size) ELSE f.size

(* A file that fits the directory again; it was flushed and is at its start. *)
Shortened(m, size) ==
  LET f    == m.file
      kept == IF f.inline THEN SubSeq(f.cache, 1, size)
              ELSE SubSeq(Words(m.flash, f.head, f.size), 1, size)
  IN IF ~m.ok THEN m
     ELSE [m EXCEPT !.file = [f EXCEPT !.inline = TRUE, !.cache = kept, !.head = InlineBlock,
                                       !.size = size, !.dirty = TRUE]]

(* One, flushed, that does not. *)
Cut(m, size) ==
  IF ~m.ok THEN m
  ELSE [m EXCEPT !.file.head = Find(m.flash, @, m.file.size, size - 1),
                 !.file.size = size, !.file.dirty = TRUE]

Grown(m, size) ==
  LET end == Seek(m, Size(m.file))
  IN FoldLeft(LAMBDA w, zero : IF w.ok THEN Write(w, <<zero>>) ELSE w, end,
              Zeros(size - Size(m.file)))

Sized(m, size) ==
  IF size = Size(m.file) THEN m
  ELSE IF size > Size(m.file) THEN Grown(m, size)
  ELSE IF size <= InlineMax THEN Shortened(Seek(m, 0), size)
  ELSE Cut(Flush(m), size)

BackAt(m, pos) == IF m.ok THEN Seek(m, pos) ELSE m
Truncate(m, size) == BackAt(Sized(m, size), m.file.pos)

-----------------------------------------------------------------------------
(* The calls of the virtual file system. *)

Idle == call = NoCall /\ calls < MaxCalls

(* A file that was not changed, and is not the directory's any more, has   *)
(* nothing that keeps its blocks: it may only be closed.                    *)
Usable(h) == Idle /\ IsOpen(h) /\ ~fds[h].stale

Counted == calls' = calls + 1 /\ UNCHANGED restarts

Modes == {"r", "r+", "w", "a"}

Loaded(n, mode, entry) ==
  [name |-> n, reads |-> mode \in {"r", "r+"}, writes |-> mode # "r", appends |-> mode = "a",
   inline |-> entry.inline, cache |-> entry.words, size |-> entry.size,
   head |-> IF entry.inline THEN InlineBlock ELSE entry.head, pos |-> 0, block |-> 0, off |-> 0,
   writing |-> FALSE, dirty |-> mode # "r", erred |-> FALSE, stale |-> FALSE]

(* vfs_littlefs_open, lfs_file_opencfg_.  A file that may be written is     *)
(* synced at once, which also commits its truncation.                        *)
Open(n, mode) ==
  LET free  == {h \in Fds : fds[h] = Free}
      entry == IF mode = "w" \/ dir[n] = Absent THEN Inlined(<<>>) ELSE dir[n]
  IN /\ Idle /\ free # {} /\ (dir[n] # Absent \/ mode \in {"w", "a"})
     /\ dir' = [dir EXCEPT ![n] = IF @ = Absent THEN Inlined(<<>>) ELSE @]
     /\ fds' = [fds EXCEPT ![Min(free)] = Loaded(n, mode, entry)]
     /\ call' = IF mode = "r" THEN NoCall ELSE [fd |-> Min(free), then |-> "open"]
     /\ Counted /\ UNCHANGED <<flash, lookahead, bad, crowded>>

Done(h, m) ==
  /\ flash' = m.flash /\ lookahead' = m.la /\ crowded' = m.crowded
  /\ fds' = [fds EXCEPT ![h] = m.file]

WriteCall(h, data) ==
  /\ Usable(h) /\ fds[h].writes
  /\ Done(h, Write(Begin(h), data))
  /\ Counted /\ UNCHANGED <<dir, bad, call>>

SeekCall(h, pos) ==
  /\ Usable(h) /\ fds[h].pos # pos
  /\ Done(h, Seek(Begin(h), pos))
  /\ Counted /\ UNCHANGED <<dir, bad, call>>

(* lfs_file_read_ of a file with writes to flush. *)
ReadCall(h) ==
  /\ Usable(h) /\ fds[h].reads /\ fds[h].writing
  /\ Done(h, Flush(Begin(h)))
  /\ Counted /\ UNCHANGED <<dir, bad, call>>

TruncateCall(h, size) ==
  /\ Usable(h) /\ fds[h].writes
  /\ Done(h, Truncate(Begin(h), size))
  /\ Counted /\ UNCHANGED <<dir, bad, call>>

(* vfs_littlefs_fsync, lfs_file_sync_ up to its commit. *)
SyncCall(h) ==
  LET m == Flush(Begin(h))
  IN /\ Usable(h) /\ ~fds[h].erred
     /\ Done(h, m)
     /\ call' = IF m.ok /\ m.file.dirty THEN [fd |-> h, then |-> "sync"] ELSE NoCall
     /\ Counted /\ UNCHANGED <<dir, bad>>

(* vfs_littlefs_close, lfs_file_close_: littlefs forgets the file, but if   *)
(* it could not be flushed the descriptor is not given back.                *)
CloseUnsaved(h) ==
  /\ IsOpen(h) /\ Idle /\ (fds[h].erred \/ ~(fds[h].writing \/ fds[h].dirty))
  /\ fds' = [fds EXCEPT ![h] = Free]
  /\ Counted /\ UNCHANGED <<flash, dir, lookahead, bad, call, crowded>>

CloseCall(h) ==
  LET m == Flush(Begin(h))
  IN /\ Usable(h) /\ ~fds[h].erred /\ (fds[h].writing \/ fds[h].dirty)
     /\ \/ m.ok /\ Done(h, m) /\ call' = [fd |-> h, then |-> "close"]
        \/ ~m.ok /\ Done(h, [m EXCEPT !.file = LeakedFd(fds[h].name)]) /\ UNCHANGED call
     /\ Counted /\ UNCHANGED <<dir, bad>>

(* The commit of lfs_file_sync_. *)
Entry(f) == IF f.inline THEN Inlined(SubSeq(f.cache, 1, f.size)) ELSE Outlined(f.head, f.size)
Orphaned(f, n, entry) ==
  f.name = n /\ ~f.dirty /\ ~f.inline /\ f.size > 0 /\ Outlined(f.head, f.size) # entry

Commit ==
  /\ call # NoCall
  /\ LET h == call.fd
         n == fds[h].name
     IN /\ dir' = [dir EXCEPT ![n] = Entry(fds[h])]
        /\ fds' = [i \in Fds |->
             IF i = h THEN (IF call.then = "close" THEN Free ELSE [fds[h] EXCEPT !.dirty = FALSE])
             ELSE IF IsOpen(i) THEN [fds[i] EXCEPT !.stale = @ \/ Orphaned(fds[i], n, Entry(fds[h]))]
             ELSE fds[i]]
  /\ call' = NoCall
  /\ UNCHANGED <<flash, lookahead, bad, crowded, calls, restarts>>

(* esp_littlefs_get_fd_by_name *)
HasFd(n) == \E h \in Fds : IF IsOpen(h) THEN fds[h].name = n ELSE fds[h] = LeakedFd(n)

Rename(n, m) ==
  /\ Idle /\ n # m /\ dir[n] # Absent /\ ~HasFd(n) /\ ~HasFd(m)
  /\ dir' = [dir EXCEPT ![m] = dir[n], ![n] = Absent]
  /\ Counted /\ UNCHANGED <<flash, fds, lookahead, bad, call, crowded>>

Unlink(n) ==
  /\ Idle /\ dir[n] # Absent /\ ~HasFd(n)
  /\ dir' = [dir EXCEPT ![n] = Absent]
  /\ Counted /\ UNCHANGED <<flash, fds, lookahead, bad, call, crowded>>

(* lfs_mount_ *)
Mounted == lookahead' \in {[start |-> s % BlockCount, next |-> 0, size |-> 0,
                            ckpoint |-> BlockCount, used |-> {}] : s \in Seeds}

Restart ==
  /\ restarts < MaxRestarts
  /\ restarts' = restarts + 1
  /\ fds' = [h \in Fds |-> Free] /\ call' = NoCall
  /\ Mounted
  /\ UNCHANGED <<flash, dir, bad, crowded, calls>>

Init ==
  /\ \E volume \in Volumes : flash = volume.flash /\ dir = volume.dir
  /\ fds = [h \in Fds |-> Free] /\ call = NoCall
  /\ lookahead \in {[start |-> s % BlockCount, next |-> 0, size |-> 0, ckpoint |-> BlockCount,
                     used |-> {}] : s \in Seeds}
  /\ bad \in {some \in BadBlocks : some \cap Used(flash, dir, {}) = {}}
  /\ crowded = FALSE /\ calls = 0 /\ restarts = 0

Next ==
  \/ \E n \in Names, mode \in Modes : Open(n, mode)
  \/ \E h \in Fds :
       \/ \E data \in Writes : WriteCall(h, data)
       \/ \E pos \in Positions : SeekCall(h, pos) \/ TruncateCall(h, pos)
       \/ ReadCall(h) \/ SyncCall(h) \/ CloseUnsaved(h) \/ CloseCall(h)
  \/ Commit
  \/ \E n, m \in Names : Rename(n, m)
  \/ \E n \in Names : Unlink(n)
  \/ Restart

Spec == Init /\ [][Next]_vars

-----------------------------------------------------------------------------
TypeOK ==
  /\ \A b \in Blocks : Len(flash[b]) = BlockSize
  /\ \A h \in Fds : IsOpen(h) =>
       /\ fds[h].block \in Blocks /\ fds[h].head \in Blocks \cup {InlineBlock}
       /\ fds[h].off \in 0..BlockSize
       /\ fds[h].inline => fds[h].size <= InlineMax
  /\ lookahead.next \in 0..lookahead.size /\ lookahead.ckpoint \in 0..BlockCount
  /\ lookahead.size \in 0..Window

(* A call reports that the volume is full only when it is.                 *)
RoomIsFound == ~crowded

(* Types, and what the last scan found free, and was not given out since, is free:    *)
(* no block is ever given to two files.                                    *)
FreeIsFree ==
  TypeOK /\ \A b \in FreeInWindow(lookahead) :
    (lookahead.start + b) % BlockCount \notin Used(flash, dir, OpenFiles)

Content(entry) ==
  IF entry = Absent THEN <<-1>>
  ELSE IF entry.inline THEN entry.words ELSE Words(flash, entry.head, entry.size)

(* What a program would read of its file. *)
Held(f) ==
  LET kept == IF f.inline THEN SubSeq(f.cache, 1, f.size) ELSE Words(flash, f.head, f.size)
  IN IF ~f.writing THEN kept
     ELSE IF f.inline THEN SubSeq(f.cache, 1, Larger(f.pos, f.size))
     ELSE Words(flash, f.block, f.pos) \o
          [i \in 1..Larger(0, f.size - f.pos) |-> Word(flash, f.head, f.size, f.pos + i - 1)]

Gone(how) == [gone |-> how]
Copy(h) ==
  IF fds[h] = Free THEN Free
  ELSE IF ~IsOpen(h) THEN Gone("leaked")
  ELSE IF fds[h].stale THEN Gone("lost")
  ELSE [name |-> fds[h].name, content |-> Held(fds[h]), pos |-> fds[h].pos,
        appends |-> fds[h].appends, changed |-> fds[h].writing \/ fds[h].dirty,
        erred |-> fds[h].erred]

Promise == INSTANCE FilePromise WITH
  Absent <- <<-1>>,
  Closed <- Free, Lost <- Gone("lost"), Leaked <- Gone("leaked"),
  saved <- [n \in Names |-> Content(dir[n])], copies <- [h \in Fds |-> Copy(h)]

(* A file is at any time what was last saved, and an open one what was      *)
(* written to it, wherever its words are and whatever else is written.      *)
FilesArePromised == Promise!Spec
=============================================================================
