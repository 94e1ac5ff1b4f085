--------------------------- MODULE MCWorktrees ---------------------------
EXTENDS Worktrees

CONSTANTS t1, t2, w1, w3

(* t1 has a detached HEAD; both directories are called the same. *)
MCHome  == [w \in Work |-> IF w = w3 THEN t2 ELSE t1]
MCName  == [t \in Tree |-> "wt"]
=============================================================================
