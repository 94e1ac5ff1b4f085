---------------------------- MODULE SocketOwner ----------------------------
(***************************************************************************)
(* What the instance lock of internal/ipc/server.go promises: "exactly one *)
(* noo-nood may own a socket path" (server.go:84-90).  One process at a    *)
(* time serves; while it serves, and until it withdraws or dies, a client  *)
(* that dials the socket path reaches it and nobody else.  That lasts      *)
(* until the lock is forfeit: from then on nothing is promised.            *)
(***************************************************************************)
CONSTANTS Proc, NoProc

VARIABLES
    owner,      \* the process that serves, or is shutting its server down
    phase,      \* "free", "serving", "stopping" or "forfeit"
    reach       \* the process a client reaches through the socket path

vars == <<owner, phase, reach>>

(* A daemon of an older version may already be serving, without the lock. *)
Init ==
    \/ owner = NoProc /\ phase = "free" /\ reach = NoProc
    \/ owner \in Proc /\ phase = "serving" /\ reach = owner

Bind(p) ==
    /\ phase = "free"
    /\ owner' = p /\ phase' = "serving" /\ reach' = p

Withdraw(p) ==
    /\ owner = p /\ phase = "serving"
    /\ phase' = "stopping" /\ reach' = NoProc /\ UNCHANGED owner

Leave(p) ==
    /\ owner = p /\ phase # "forfeit"
    /\ owner' = NoProc /\ phase' = "free" /\ reach' = NoProc

(* A lock that keeps nobody out is granted. *)
Forfeit ==
    /\ phase # "forfeit" /\ phase' = "forfeit"
    /\ owner' = NoProc /\ reach' = NoProc

Next == Forfeit \/ \E p \in Proc : Bind(p) \/ Withdraw(p) \/ Leave(p)

Spec == Init /\ [][Next]_vars
=============================================================================
