----------------------------- MODULE MCOffload -----------------------------
(* Small instances of Offload for TLC. *)
EXTENDS Offload, TLC

CONSTANTS d, c,         \* the daemon and a CLI process
          t1, t2,       \* assets
          f, x,         \* a file write and a same-size edit
          p1, p2        \* destination pins

(* One process relocates at a time, but may be the daemon or the CLI. *)
AnyTrigger == (c :> {"daily", "manual", "apply"})

(* A CLI process beside another one or the daemon's daily tick. *)
TwoAtOnce == (d :> {"daily", "apply"}) @@ (c :> {"manual", "apply"})
=============================================================================
