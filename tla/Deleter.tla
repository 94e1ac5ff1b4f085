------------------------------ MODULE Deleter ------------------------------
(***************************************************************************)
(* What an unattended deleter of noo-noo promises: between the moment it   *)
(* turns to a target and the moment it removes it, every fact its proof    *)
(* rests on has been true ("staleness is RE-ESTABLISHED here, at apply     *)
(* time", internal/leaks/module.go:154-158; "the tier is RE-ESTABLISHED    *)
(* here (TOCTOU guard)", internal/worktrees/module.go:137-142).  Not that  *)
(* they are true together, nor that they still are when it strikes.        *)
(***************************************************************************)
CONSTANTS
    Agent,      \* who deletes
    Target,
    Fact,
    Proofs      \* Proofs[t]: the sets of facts that justify removing t

VARIABLES
    holds,      \* [Target -> SUBSET Fact]: what is true now
    here,       \* the targets that exist
    cur,        \* [Agent -> the targets it is about to remove, at most one]
    seen        \* [Agent -> SUBSET Fact]: what has been true since it turned to it

vars == <<holds, here, cur, seen>>

Init ==
    /\ holds \in [Target -> SUBSET Fact] /\ here \subseteq Target
    /\ cur = [a \in Agent |-> {}] /\ seen = [a \in Agent |-> {}]

Witnessed(a) ==
    seen'[a] = IF cur'[a] = {} THEN {}
               ELSE (IF cur[a] = cur'[a] THEN seen[a] ELSE {})
                        \cup UNION {holds'[t] : t \in cur'[a]}

(* The world goes its way and agents turn to targets and from them. *)
World ==
    /\ holds' \in [Target -> SUBSET Fact] /\ here' \subseteq Target
    /\ cur' \in [Agent -> {{}} \cup {{t} : t \in Target}]
    /\ \A a \in Agent : Witnessed(a)

Proven(a, t) == t \in cur[a] /\ \E P \in Proofs[t] : P \subseteq seen[a]

Next ==
    /\ World
    /\ \A t \in here \ here' : \E a \in Agent : Proven(a, t)

Spec == Init /\ [][Next]_vars
=============================================================================
