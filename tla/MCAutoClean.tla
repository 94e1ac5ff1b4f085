---------------------------- MODULE MCAutoClean ----------------------------
(* Small instances of AutoClean for TLC. *)
EXTENDS AutoClean, TLC

CONSTANTS c, m,        \* the consumer goroutine and an RPC goroutine
          leak, tree,  \* a leak directory and a worktree
          repo         \* an idle repository

DailyOnly    == (c :> {"daily"})
AllTriggers  == (c :> {"daily", "pressure"}) @@ (m :> {"manual"})

Kinds == (leak :> "leaks") @@ (tree :> "worktrees") @@ (repo :> "idle_repos")
Emits == [t \in Target |-> Kinds[t]]
Sizes == [t \in Target |-> IF t = tree THEN 2 ELSE 1]

TomlOn  == [enabled |-> TRUE,  acked |-> TRUE]
HandSet == [enabled |-> TRUE,  acked |-> FALSE]
=============================================================================
