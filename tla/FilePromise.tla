----------------------------- MODULE FilePromise -----------------------------
(***************************************************************************)
(* What littlefs promises of files.  A program works on a copy of a file   *)
(* that is its own from open to close; it becomes the file when it is      *)
(* synced or closed, all of it at once, or else when power fails is lost.   *)
(* A copy that an error has spoilt is not saved any more until a write has *)
(* succeeded again; one whose file another program has saved since, and    *)
(* which it had not changed, may no longer be used ("Lost").                *)
(***************************************************************************)
EXTENDS Integers, Sequences

CONSTANTS Names, Fds, Writes, Absent, Closed, Lost, Leaked

VARIABLES saved, copies

vars == <<saved, copies>>

Init == copies = [h \in Fds |-> Closed]

IsCopy(c) == c \notin {Closed, Lost, Leaked}
Open(h) == IsCopy(copies[h])

-----------------------------------------------------------------------------
(* What a call may make (d) of the copy (c) it works on. *)

(* content, padded with zeros up to pos and overwritten from there. *)
Overwritten(content, pos, data) ==
  [p \in 1..(IF pos + Len(data) > Len(content) THEN pos + Len(data) ELSE Len(content)) |->
     IF p > pos /\ p <= pos + Len(data) THEN data[p - pos]
     ELSE IF p <= Len(content) THEN content[p] ELSE 0]
Resized(content, size) ==
  IF size <= Len(content) THEN SubSeq(content, 1, size) ELSE Overwritten(content, size, <<>>)

Start(c) == IF c.appends /\ c.pos < Len(c.content) THEN Len(c.content) ELSE c.pos

(* What does not fit is left out, from some word on. *)
Written(c, d, data) ==
  LET upto == d.pos - Start(c)
  IN /\ upto <= Len(data) /\ d.erred = (upto < Len(data))
     /\ d.content = IF upto < 0 THEN Resized(c.content, d.pos)
                    ELSE Overwritten(c.content, Start(c), SubSeq(data, 1, upto))
     /\ Len(d.content) >= Len(c.content)
     /\ d.changed = (c.changed \/ upto > 0)

Moved(c, d) == d = [c EXCEPT !.pos = d.pos]

Truncated(c, d) ==
  /\ d.pos = c.pos /\ d.content = Resized(c.content, Len(d.content))
  /\ d.changed = (c.changed \/ Len(d.content) # Len(c.content))
  /\ d.erred = (c.erred /\ Len(d.content) <= Len(c.content))

(* For want of room what is there cannot be put where it belongs; the      *)
(* position is then anywhere, and a file that was to grow may have done so *)
(* in part.                                                                 *)
Failed(c, d) ==
  /\ d.erred /\ (c.changed => d.changed) /\ Len(d.content) >= Len(c.content)
  /\ d.content = Resized(c.content, Len(d.content))

Worked(c, d) ==
  /\ <<d.name, d.appends>> = <<c.name, c.appends>>
  /\ \/ \E data \in Writes : Written(c, d, data)
     \/ Moved(c, d) \/ Truncated(c, d) \/ Failed(c, d)

Opened(d) ==
  /\ saved'[d.name] # Absent
  /\ d.content \in {saved'[d.name], <<>>} /\ d.pos = 0 /\ ~d.erred
  /\ saved' \in {saved, [saved EXCEPT ![d.name] = IF @ = Absent THEN <<>> ELSE @]}

(* Nothing is to be saved, or an earlier error was reported; or else this  *)
(* call reports one and the descriptor is never used again.                 *)
Discarded(c, d) ==
  \/ d = Closed /\ (IsCopy(c) /\ c.changed => c.erred)
  \/ d = Leaked

-----------------------------------------------------------------------------
Call(h) ==
  /\ \A i \in Fds \ {h} : copies'[i] = copies[i]
  /\ \E c \in {copies[h]}, d \in {copies'[h]} :
       \/ c = Closed /\ IsCopy(d) /\ Opened(d)
       \/ IsCopy(c) /\ IsCopy(d) /\ Worked(c, d) /\ UNCHANGED saved
       \/ c \notin {Closed, Leaked} /\ Discarded(c, d) /\ UNCHANGED saved

Save(h) ==
  /\ Open(h) /\ ~copies[h].erred
  /\ saved' = [saved EXCEPT ![copies[h].name] = copies[h].content]
  /\ copies'[h] \in {[copies[h] EXCEPT !.changed = FALSE], Closed}
  /\ \A i \in Fds \ {h} :
       \/ copies'[i] = copies[i]
       \/ Open(i) /\ copies[i].name = copies[h].name /\ copies'[i] = Lost

NotOpen(n) == \A h \in Fds : Open(h) => copies[h].name # n

Rename(n, m) ==
  /\ n # m /\ saved[n] # Absent /\ NotOpen(n) /\ NotOpen(m)
  /\ saved' = [saved EXCEPT ![m] = saved[n], ![n] = Absent]
  /\ UNCHANGED copies

Unlink(n) ==
  /\ NotOpen(n)
  /\ saved' = [saved EXCEPT ![n] = Absent]
  /\ UNCHANGED copies

PowerFails ==
  /\ copies' = [h \in Fds |-> Closed]
  /\ UNCHANGED saved

Next ==
  \/ \E h \in Fds : Call(h) \/ Save(h)
  \/ \E n, m \in Names : Rename(n, m)
  \/ \E n \in Names : Unlink(n)
  \/ PowerFails

Spec == Init /\ [][Next]_vars
=============================================================================
