------------------------------- MODULE Sizer -------------------------------
(***************************************************************************)
(* Clone-aware sizing: the bytes a set of trees really occupies is the     *)
(* union of the physical extents of its files, taken device by device.     *)
(* A file is an inode: hard links are one file, clones are two files with  *)
(* common extents.  The extents of a file are those F_LOG2PHYS_EXT lists,  *)
(* holes included (start -1), until one of its calls fails: what follows,  *)
(* and all of a file that cannot be read, is an error counted and no more. *)
(***************************************************************************)
EXTENDS Integers, Sequences, FiniteSetsExt

CONSTANTS
    File,
    Device,     \* Device[f]
    Extents,    \* Extents[f]: the sequence of <<start, length>> of f
    Mapped      \* Mapped[f]: how many of them are listed before a call fails

(* What addFileExtents hands to extentSet.add, and what add keeps, of the  *)
(* first n extents.                                                        *)
Listed(f, n) ==
    {[start |-> Extents[f][i][1], end |-> Extents[f][i][1] + Extents[f][i][2]] :
        i \in {j \in DOMAIN Extents[f] : /\ j <= n
                                         /\ Extents[f][j][1] >= 0 /\ Extents[f][j][2] > 0}}

FileExtents(f) == Listed(f, Mapped[f])

ByDev(files, dev) == UNION {FileExtents(f) : f \in {g \in files : Device[g] = dev}}
AnyDev(files, dev) ==    \* mutant: one union for all devices
    IF dev = Device[CHOOSE f \in files : TRUE] THEN UNION {FileExtents(f) : f \in files} ELSE {}

Closed(acc) == IF acc.open THEN acc.sum + acc.end - acc.start ELSE acc.sum

(* One extent of the sorted list: it opens an interval, extends the open   *)
(* one (overlapping or adjacent), or closes it and opens the next.         *)
MergeLast(acc, e) ==    \* mutant: the interval ends where its last extent ends
    IF acc.open /\ e.start <= acc.end THEN [acc EXCEPT !.end = e.end]
    ELSE [sum |-> Closed(acc), open |-> TRUE, start |-> e.start, end |-> e.end]

Merge(acc, e) ==
    IF acc.open /\ e.start <= acc.end
    THEN [acc EXCEPT !.end = IF e.end > acc.end THEN e.end ELSE acc.end]
    ELSE [sum |-> Closed(acc), open |-> TRUE, start |-> e.start, end |-> e.end]

(* The extents of a device by their starts, those of one start in any      *)
(* order: the one that comes last is merged into what all others gave.     *)
Nothing == [sum |-> 0, open |-> FALSE, start |-> 0, end |-> 0]
Furthest(exts) == CHOOSE e \in exts : \A x \in exts : x.start <= e.start
Merged(exts) == MapThenFoldSet(LAMBDA e, acc : Merge(acc, e), Nothing, LAMBDA e : e, Furthest, exts)

TotalOn(exts) == Closed(Merged(exts))

Total(files) == MapThenSumSet(LAMBDA dev : TotalOn(ByDev(files, dev)), {Device[f] : f \in files})

UniqueAllocated(files) == Total(files)

(* The reference: the allocated units of the disks, counted; those that    *)
(* were read of, and all of them.                                          *)
UnitsRead(files) ==
    UNION {UNION {{Device[f]} \X (e.start..(e.end - 1)) : e \in FileExtents(f)} : f \in files}
Units(files) ==
    UNION {UNION {{Device[f]} \X (e.start..(e.end - 1)) :
                     e \in Listed(f, Len(Extents[f]))} : f \in files}

Whole(f) == Mapped[f] >= Len(Extents[f])
=============================================================================
