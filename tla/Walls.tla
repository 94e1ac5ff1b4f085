------------------------------- MODULE Walls -------------------------------
(***************************************************************************)
(* Paths, and the wall between a cleaner and the rest of the disk          *)
(* (internal/core/safety.go).  A path is the sequence of its components;   *)
(* the wall reads the text of a path and follows no link.                  *)
(***************************************************************************)
EXTENDS Integers, Sequences, SequencesExt

alwaysBlocked == {"System", "Library", "usr", "bin", "sbin", "private"}

Inside(root, path) == IsStrictPrefix(root, path)
HasPart(path, names) == \E i \in DOMAIN path : path[i] \in names

(* A Safety is the roots a cleaner may touch and the names it may not.     *)
NewSafety(roots, blocked) == [roots |-> roots, blocked |-> blocked]

(* Mutant: the names the caller blocks are forgotten. *)
NoBlocklist(s, path) ==
    /\ path # <<>> /\ path[1] \notin alwaysBlocked
    /\ \E r \in s.roots : Inside(r, path)

CanDelete(s, path) ==
    /\ path # <<>> /\ path[1] \notin alwaysBlocked
    /\ ~HasPart(path, s.blocked)
    /\ \E r \in s.roots : Inside(r, path)
=============================================================================
