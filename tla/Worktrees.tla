----------------------------- MODULE Worktrees -----------------------------
(***************************************************************************)
(* The worktree sweeper of noo-noo over the linked worktrees of one        *)
(* repository, and the people and agents who work in them.  A "clean"      *)
(* sweeper (the daemon's auto-clean, `worktrees clean`) removes what it    *)
(* proves dead; a "judge" sweeper (`worktrees judge`) buries what a        *)
(* verdict condemns in a grave (bundle of the commits, tarball of the      *)
(* dirty files) and then removes it by force.                              *)
(*                                                                         *)
(* git is external and modelled from how the sweeper calls it: `worktree   *)
(* remove` refuses locked and dirty trees, `--force` refuses locked ones,  *)
(* `prune` drops every unlocked registration whose directory is missing,   *)
(* `branch -d` refuses unmerged branches.  Work is a piece of someone's    *)
(* work: a path while it is edited or staged, a commit afterwards.         *)
(***************************************************************************)
EXTENDS Naturals

CONSTANTS
    Tree, Work,
    Home,       \* Home[w]: the worktree w is done in
    Ignored,    \* the work git ignores
    Detached,   \* the worktrees with a detached HEAD: no branch holds commits
    Name,       \* Name[t]: the last element of t's path
    Cleaner, Judger,
    None,
    MaxSec,     \* bound: the seconds in which graves are stamped
    MaxFaults,  \* bound: git errors, unreadable probes, crashes
    MaxUser     \* bound: steps of the people working in the trees

Sweeper == Cleaner \cup Judger
Places  == {"none", "edited", "staged", "committed"}
Labels  == {"idle", "next", "prune", "fresh", "status", "contains", "ahead",
            "probe", "remove", "branch", "grave", "tar", "force", "forceBranch"}
Fact    == {"unlocked", "idle", "clean", "contained", "unheld"}

ASSUME WorktreesAssumption ==
    /\ Home \in [Work -> Tree] /\ Ignored \subseteq Work /\ Detached \subseteq Tree
    /\ Cleaner \cap Judger = {} /\ None \notin Tree
    /\ MaxSec \in Nat /\ MaxFaults \in Nat /\ MaxUser \in Nat

VARIABLES
    checkout,   \* [Tree -> there | missing | removed (by a proof) | buried]
    reg,        \* the trees the repository lists
    locked, live,
    fresh,      \* the trees whose idle clock is below min_idle
    branch,     \* the trees whose branch exists
    at,         \* [Work -> Places]
    pushed,     \* the commits some remote-tracking ref reaches
    tracks,     \* the trees whose branch has an upstream
    upstream,   \* the commits the upstream of their own branch reaches
    merged,     \* the commits the HEAD of the main checkout reaches
    grave,      \* [bundle, tar: [Name \X second -> SUBSET Work]]
    sec,
    job,        \* [Sweeper -> what it is doing]
    seen,       \* history: the facts true of job's tree since it was located
    faults, user

refs  == <<pushed, tracks, upstream, merged>>
world == <<checkout, reg, locked, live, fresh, branch, at, refs, grave>>
vars  == <<world, sec, job, seen, faults, user>>

In(t) == {w \in Work : Home[w] = t}
Key   == {Name[t] : t \in Tree} \X (0..MaxSec)
Job(l, todo, t) == [at |-> l, todo |-> todo, tree |-> t, since |-> {}, stamp |-> 0]
NoJob == Job("idle", {}, None)

Init ==
    /\ checkout = [t \in Tree |-> "there"] /\ reg = Tree /\ locked = {}
    /\ live = {} /\ fresh \in SUBSET Tree /\ branch = Tree \ Detached
    /\ at \in [Work -> Places] /\ \A w \in Ignored : at[w] \in {"none", "edited"}
    /\ pushed \in SUBSET {w \in Work : at[w] = "committed"}
    /\ merged \in SUBSET {w \in Work : at[w] = "committed"}
    /\ tracks \in SUBSET (Tree \ Detached)
    /\ upstream \in SUBSET {w \in pushed : Home[w] \in tracks}
    /\ grave = [bundle |-> [k \in Key |-> {}], tar |-> [k \in Key |-> {}]]
    /\ sec = 0 /\ job = [s \in Sweeper |-> NoJob] /\ seen = [s \in Sweeper |-> {}]
    /\ faults = 0 /\ user = 0

-----------------------------------------------------------------------------
(* The facts, as they are in the world. *)

Clean(t)     == \A w \in In(t) \ Ignored : at[w] \notin {"edited", "staged"}
Contained(t) == \A w \in In(t) : at[w] = "committed" => w \in pushed
Committed(t) == {w \in In(t) : at[w] = "committed"}
Level(t)     == t \in tracks => Committed(t) \subseteq upstream

Holds(t) == {f \in Fact : CASE f = "unlocked"  -> t \notin locked
                            [] f = "idle"      -> t \notin fresh
                            [] f = "clean"     -> Clean(t)
                            [] f = "contained" -> Contained(t)
                            [] f = "unheld"    -> t \notin live}

(* The facts, as the sweeper reads them. *)

(* `status --porcelain`: staged, modified and untracked, not ignored. *)
StatusEmpty(t) == \A w \in In(t) \ Ignored : at[w] \notin {"edited", "staged"}
(* Mutants: a branch keeps what is committed to it; -1 is not 0 either.    *)
ContainedInABranch(t) == \A w \in In(t) : at[w] = "committed" => w \in pushed \/ t \in branch
AheadOrUntracked(t)   == t \notin tracks \/ ~(Committed(t) \subseteq upstream)

(* `branch -r --contains HEAD`, and `rev-list --count @{upstream}..HEAD`.   *)
RemoteContained(t) == \A w \in In(t) : at[w] = "committed" => w \in pushed
AheadUpstream(t)   == t \in tracks /\ ~(Committed(t) \subseteq upstream)
Prunable(t) == t \in reg \ locked /\ checkout[t] = "missing"

Class(t) ==
    IF t \notin reg \/ t \in locked THEN "active"
    ELSE IF Prunable(t) THEN "obvious"
    ELSE IF t \in fresh THEN "active"
    ELSE IF ~StatusEmpty(t) \/ ~RemoteContained(t) \/ AheadUpstream(t) THEN "judgment"
    ELSE IF t \in live THEN "active" ELSE "obvious"

-----------------------------------------------------------------------------
(* The sweeper. *)

Goto(s, l) == job' = [job EXCEPT ![s].at = l]

(* Mutant: the next target is turned to with the last one still at hand. *)
LeaveOpen(s) == job' = [job EXCEPT ![s].at = IF job[s].todo = {} THEN "idle" ELSE "next"]

Between(todo) == Job(IF todo = {} THEN "idle" ELSE "next", todo, None)
Leave(s)   == job' = [job EXCEPT ![s] = Between(job[s].todo)]
At(s, l)   == job[s].at = l
Of(s)      == job[s].tree
Frame      == UNCHANGED <<world, sec, faults, user>>

(* Scan and Plan: every obvious tree is planned.  The rows are read one    *)
(* after the other in the code; every one is proved again when its turn    *)
(* comes, so the scan is one step.                                         *)
Scan(s) ==
    /\ s \in Cleaner /\ At(s, "idle")
    /\ LET todo == {t \in Tree : Class(t) = "obvious"} IN
       todo # {} /\ job' = [job EXCEPT ![s] = Between(todo)]
    /\ Frame

(* A judge rules on the judgment tier: keep, remove, an answer that does   *)
(* not parse, --limit, and the confirmation, leave any of them.            *)
Rule(s) ==
    /\ s \in Judger /\ At(s, "idle")
    /\ \E todo \in SUBSET {t \in Tree : Class(t) = "judgment"} :
          todo # {} /\ job' = [job EXCEPT ![s] = Between(todo)]
    /\ Frame

(* locate: the row git lists for the target now. *)
Locate(s) ==
    /\ At(s, "next")
    /\ \E t \in job[s].todo :
          LET rest == job[s].todo \ {t}
          IN  job' = [job EXCEPT ![s] =
                 IF t \notin reg THEN Between(rest)
                 ELSE IF s \in Judger THEN Job("grave", rest, t)
                 ELSE IF t \in locked THEN Between(rest)
                 ELSE Job(IF Prunable(t) THEN "prune" ELSE "fresh", rest, t)]
    /\ Frame

(* Every missing, unlocked registration of the repository goes. *)
Prune(s) ==
    /\ At(s, "prune")
    /\ reg' = {t \in reg : ~Prunable(t)}
    /\ Leave(s)
    /\ UNCHANGED <<checkout, locked, live, fresh, branch, at, refs, grave, sec, faults, user>>

(* Classify at apply time: each read of the proof is a step. *)
ProveUnless(s, here, bad, there) ==
    /\ At(s, here)
    /\ IF bad THEN Leave(s) ELSE Goto(s, there)
    /\ Frame

Freshness(s) == At(s, "fresh")    /\ ProveUnless(s, "fresh", Of(s) \in fresh, "status")
Status(s)    == At(s, "status")   /\ ProveUnless(s, "status", ~StatusEmpty(Of(s)), "contains")
Ahead(s)     == At(s, "ahead")    /\ ProveUnless(s, "ahead", AheadUpstream(Of(s)), "probe")
Probe(s)     == At(s, "probe")    /\ ProveUnless(s, "probe", Of(s) \in live, "remove")

(* What is written once the commits have been looked for is "since". *)
Contains(s) ==
    /\ At(s, "contains")
    /\ IF RemoteContained(Of(s))
       THEN job' = [job EXCEPT ![s].at = "ahead", ![s].since = {}]
       ELSE Leave(s)
    /\ Frame

RemoveTree(t, how) ==
    /\ checkout' = [checkout EXCEPT ![t] = IF @ = "there" THEN how ELSE @]
    /\ reg' = reg \ {t} /\ live' = live \ {t}
    /\ UNCHANGED <<locked, fresh, branch, at, refs, grave, sec, faults, user>>

GitRefuses(t) == t \notin reg \/ t \in locked \/ (checkout[t] = "there" /\ ~Clean(t))

Remove(s) ==
    /\ At(s, "remove")
    /\ IF GitRefuses(Of(s)) THEN Leave(s) /\ Frame
       ELSE /\ RemoveTree(Of(s), "removed")
            /\ IF Of(s) \in Detached THEN Leave(s) ELSE Goto(s, "branch")

(* branch -d: merged into its upstream or, without one, into HEAD.        *)
DeleteAnyway(t) == TRUE    \* mutant: branch -D
MayDeleteBranch(t) == Committed(t) \subseteq IF t \in tracks THEN upstream ELSE merged

DeleteBranch(s) ==
    /\ At(s, "branch")
    /\ branch' = IF MayDeleteBranch(Of(s)) THEN branch \ {Of(s)} ELSE branch
    /\ Leave(s)
    /\ UNCHANGED <<checkout, reg, locked, live, fresh, at, refs, grave, sec, faults, user>>

(* Grave: the bundle of HEAD ... *)
CanBury(t)   == t \in reg /\ checkout[t] = "there"

(* What another judge has buried under the key k goes: for that judge the  *)
(* work of its tree counts as written since.                               *)
Overwrites(s, k, own) ==
    job' = [r \in Sweeper |->
              IF r = s THEN own
              ELSE IF /\ r \in Judger /\ Of(r) \notin {None, Of(s)}
                      /\ <<Name[Of(r)], job[r].stamp>> = k
                   THEN [job[r] EXCEPT !.since = @ \cup In(Of(r))]
                   ELSE job[r]]

Bundle(s) ==
    /\ At(s, "grave") /\ CanBury(Of(s))
    /\ LET k == <<Name[Of(s)], sec>> IN
       /\ grave' = [grave EXCEPT !.bundle[k] = Committed(Of(s))]
       /\ Overwrites(s, k, [job[s] EXCEPT !.at = "tar", !.since = {}, !.stamp = sec])
    /\ UNCHANGED <<checkout, reg, locked, live, fresh, branch, at, refs, sec, faults, user>>

(* ... and the tarball of what `ls-files --others --modified` lists: not   *)
(* what is staged and the same in the worktree; none when it lists nothing.*)
Dirty(t) == {w \in In(t) \ Ignored : at[w] = "edited"}

Tar(s) ==
    /\ At(s, "tar") /\ CanBury(Of(s))
    /\ LET k   == <<Name[Of(s)], job[s].stamp>>
           own == [job[s] EXCEPT !.at = "force", !.since = @ \ Dirty(Of(s))] IN
       IF Dirty(Of(s)) = {} THEN grave' = grave /\ job' = [job EXCEPT ![s] = own]
       ELSE grave' = [grave EXCEPT !.tar[k] = Dirty(Of(s))] /\ Overwrites(s, k, own)
    /\ UNCHANGED <<checkout, reg, locked, live, fresh, branch, at, refs, sec, faults, user>>

(* A tree that cannot be read has no grave, and stays. *)
NoGrave(s) == (At(s, "grave") \/ At(s, "tar")) /\ ~CanBury(Of(s)) /\ Leave(s) /\ Frame

ForceRemove(s) ==
    /\ At(s, "force")
    /\ IF Of(s) \notin reg \/ Of(s) \in locked THEN Leave(s) /\ Frame
       ELSE /\ RemoveTree(Of(s), "buried")
            /\ IF Of(s) \in Detached THEN Leave(s) ELSE Goto(s, "forceBranch")

ForceBranch(s) ==
    /\ At(s, "forceBranch")
    /\ branch' = branch \ {Of(s)}
    /\ Leave(s)
    /\ UNCHANGED <<checkout, reg, locked, live, fresh, at, refs, grave, sec, faults, user>>

Sweep(s) ==
    \/ Scan(s) \/ Rule(s) \/ Locate(s) \/ Prune(s) \/ Freshness(s) \/ Status(s)
    \/ Contains(s) \/ Ahead(s) \/ Probe(s) \/ Remove(s) \/ DeleteBranch(s) \/ Bundle(s)
    \/ Tar(s) \/ NoGrave(s) \/ ForceRemove(s) \/ ForceBranch(s)

(* A git call, the probe or tar fails: the target is left, but a failing   *)
(* rev-list reads as "no upstream"; or the process dies and its list with  *)
(* it.                                                                     *)
Fail(s) ==
    /\ faults < MaxFaults /\ faults' = faults + 1
    /\ ~At(s, "idle")
    /\ \/ Of(s) # None /\ Leave(s)
       \/ At(s, "ahead") /\ Goto(s, "probe")
       \/ job' = [job EXCEPT ![s] = NoJob]
    /\ UNCHANGED <<world, sec, user>>

-----------------------------------------------------------------------------
(* The people and agents working in the trees. *)

Worked(w) == job' = [s \in Sweeper |->
                IF Of(s) = Home[w] THEN [job[s] EXCEPT !.since = @ \cup {w}] ELSE job[s]]

(* Writing a nested file moves none of the three mtimes idleFor reads. *)
Edit(w) ==
    /\ at[w] = "none" /\ checkout[Home[w]] = "there"
    /\ at' = [at EXCEPT ![w] = "edited"] /\ Worked(w)
    /\ fresh' \in {fresh, fresh \cup {Home[w]}}
    /\ UNCHANGED <<checkout, reg, locked, live, branch, refs, grave>>

(* git add, commit, commit -a: the index of the tree is written.          *)
Record(w) ==
    /\ checkout[Home[w]] = "there" /\ Home[w] \in reg /\ w \notin Ignored
    /\ \/ at[w] = "edited" /\ at' \in {[at EXCEPT ![w] = p] : p \in {"staged", "committed"}}
       \/ at[w] = "staged" /\ at' = [at EXCEPT ![w] = "committed"]
    /\ fresh' = fresh \cup {Home[w]} /\ Worked(w)
    /\ UNCHANGED <<checkout, reg, locked, live, branch, refs, grave>>

(* To some remote ref, or (push -u) to the upstream of its branch.         *)
Push(t) ==
    /\ t \in reg /\ checkout[t] = "there"
    /\ pushed' = pushed \cup Committed(t)
    /\ \/ ~Contained(t) /\ UNCHANGED <<tracks, upstream>>
       \/ /\ t \notin Detached /\ ~(Committed(t) \subseteq upstream)
          /\ tracks' = tracks \cup {t} /\ upstream' = upstream \cup Committed(t)
    /\ UNCHANGED <<checkout, reg, locked, live, fresh, branch, at, merged, grave, job>>

(* Into the branch of the main checkout.                                   *)
Merge(t) ==
    /\ t \in reg /\ ~(Committed(t) \subseteq merged)
    /\ merged' = merged \cup Committed(t)
    /\ UNCHANGED <<checkout, reg, locked, live, fresh, branch, at, pushed, tracks, upstream, grave, job>>

GoIdle(t) ==
    /\ t \in fresh /\ fresh' = fresh \ {t}
    /\ UNCHANGED <<checkout, reg, locked, live, branch, at, refs, grave, job>>

OpenOrClose(t) ==
    /\ checkout[t] = "there"
    /\ live' = IF t \in live THEN live \ {t} ELSE live \cup {t}
    /\ UNCHANGED <<checkout, reg, locked, fresh, branch, at, refs, grave, job>>

LockOrUnlock(t) ==
    /\ t \in reg
    /\ locked' = IF t \in locked THEN locked \ {t} ELSE locked \cup {t}
    /\ UNCHANGED <<checkout, reg, live, fresh, branch, at, refs, grave, job>>

(* A volume is unplugged, and plugged in again. *)
ComeOrGo(t) ==
    /\ \/ checkout[t] = "there" /\ checkout' = [checkout EXCEPT ![t] = "missing"]
       \/ checkout[t] = "missing" /\ checkout' = [checkout EXCEPT ![t] = "there"]
    /\ live' = live \ {t}
    /\ UNCHANGED <<reg, locked, fresh, branch, at, refs, grave, job>>

User ==
    /\ user < MaxUser /\ user' = user + 1
    /\ \/ \E w \in Work : Edit(w) \/ Record(w)
       \/ \E t \in Tree : \/ Push(t) \/ Merge(t) \/ GoIdle(t) \/ OpenOrClose(t)
                          \/ LockOrUnlock(t) \/ ComeOrGo(t)
    /\ UNCHANGED <<sec, faults>>

Second == sec < MaxSec /\ sec' = sec + 1 /\ UNCHANGED <<world, job, faults, user>>

-----------------------------------------------------------------------------
Watch == seen' = [s \in Sweeper |->
            IF job'[s].tree = None \/ s \in Judger THEN {}
            ELSE (IF job[s].tree = job'[s].tree THEN seen[s] ELSE {})
                     \cup UNION {Holds(t)' : t \in {x \in Tree : x = job'[s].tree}}]

Next ==
    /\ \/ \E s \in Sweeper : Sweep(s) \/ Fail(s)
       \/ User
       \/ Second
    /\ Watch

Spec == Init /\ [][Next]_vars

(* The daemon's tick comes every day and runs to its end. *)
FairSpec == Spec /\ \A s \in Cleaner : WF_vars(Sweep(s) /\ Watch)

-----------------------------------------------------------------------------
TypeOK ==
    /\ checkout \in [Tree -> {"there", "missing", "removed", "buried"}]
    /\ reg \subseteq Tree /\ locked \subseteq Tree /\ live \subseteq Tree
    /\ fresh \subseteq Tree /\ branch \subseteq Tree \ Detached
    /\ at \in [Work -> Places] /\ pushed \subseteq Work /\ merged \subseteq Work
    /\ tracks \subseteq Tree \ Detached /\ upstream \subseteq pushed
    /\ grave \in [bundle : [Key -> SUBSET Work], tar : [Key -> SUBSET Work]]
    /\ job \in [Sweeper -> [at : Labels, todo : SUBSET Tree, tree : Tree \cup {None},
                            since : SUBSET Work, stamp : 0..MaxSec]]
    /\ \A s \in Sweeper : (Of(s) = None) <=> job[s].at \in {"idle", "next"}
    /\ seen \in [Sweeper -> SUBSET Fact]
    /\ sec \in 0..MaxSec /\ faults \in 0..MaxFaults /\ user \in 0..MaxUser

InGrave(w) == \E k \in Key : w \in grave.bundle[k] \cup grave.tar[k]

(* w can still be found: in its directory, in a ref, or in a grave. *)
Kept(w) ==
    CASE at[w] = "none"      -> TRUE
      [] at[w] = "committed" -> Home[w] \in reg \cup branch \/ w \in pushed \cup merged \/ InGrave(w)
      [] OTHER               -> checkout[Home[w]] \in {"there", "missing"} \/ InGrave(w)

(* The ways the sweeper does lose work, each a hazard of its own: ignored  *)
(* by git, written after the grave or committed to a detached HEAD after   *)
(* the proof, staged when the tarball is made, rooted only in the HEAD of  *)
(* a detached tree whose volume is away, or in a grave that another tree   *)
(* of the same name overwrites within the second.                          *)
Excused(w) ==
    \/ w \in Ignored
    \/ \E s \in Judger : Of(s) = Home[w] /\ w \in job[s].since
    \/ \E s \in Cleaner : Of(s) = Home[w] /\ w \in job[s].since /\ Home[w] \in Detached
    \/ \E s \in Sweeper : Of(s) = Home[w] /\ At(s, "force") /\ at[w] = "staged"
    \/ \E s \in Sweeper : At(s, "prune") /\ Home[w] \in Detached /\ Prunable(Home[w])
    \/ \E s \in Sweeper : /\ At(s, "grave") \/ At(s, "tar")
                          /\ Home[w] # Of(s) /\ Name[Home[w]] = Name[Of(s)] /\ InGrave(w)

(* Neither tier loses work: what is edited, staged, committed or pushed    *)
(* stays in a directory, a ref or a grave ("removes the provably-dead",    *)
(* worktrees/worktrees.go:11-25; module.go:135-179, 203-255), but for the  *)
(* ways above.                                                             *)
WorkKept == [][\A w \in Work : Kept(w) /\ ~Kept(w)' => Excused(w)]_vars

(* A directory is removed without a verdict only when, since the sweeper   *)
(* located it, it has been unlocked, idle, clean, contained in a remote    *)
(* and unheld ("the tier is RE-ESTABLISHED here", module.go:135-163).      *)
Promise == INSTANCE Deleter WITH
    Agent <- Cleaner, Target <- Tree, Proofs <- [t \in Tree |-> {Fact}],
    holds <- [t \in Tree |-> Holds(t)],
    here  <- {t \in Tree : checkout[t] # "removed"},
    cur   <- [s \in Cleaner |-> {Of(s)} \ {None}],
    seen  <- [s \in Cleaner |-> seen[s]]
KeepsPromise == Promise!Spec

Dead(t) == t \in reg /\ checkout[t] = "there" /\ Holds(t) = Fact /\ Level(t)

(* A worktree that is dead (idle, clean, unlocked, unheld, contained in a  *)
(* remote, not ahead of the upstream of its branch if it has one) and      *)
(* stays dead is removed, whatever fails on the way (worktrees.go:11-17;   *)
(* heuristics/worktrees.go:22-63).                                         *)
DeadGoes == \A t \in Tree : ~ <>[] Dead(t)

(* "a remove verdict is applied ONLY after the committed state is          *)
(* grave-bundled and dirty files are archived, so a wrong verdict loses    *)
(* nothing" (worktrees.go:22-25): what was there when the grave was made   *)
(* is kept when the tree is forced away.  Not so: the tarball is of what   *)
(* `ls-files --others --modified` lists, and what is staged is not listed. *)
VerdictLosesNothing ==
    [][\A s \in Judger : ForceRemove(s) =>
          \A w \in In(Of(s)) \ (Ignored \cup job[s].since) : Kept(w) => Kept(w)']_vars

(* "Directory already gone [...] removing the registration is free"        *)
(* (worktrees.go:162-163): a prune loses nobody's work.  Not so: the HEAD  *)
(* of a detached worktree is the only ref to its commits, and the prune is *)
(* of every missing registration of the repository.                        *)
PruneIsFree ==
    [][\A s \in Cleaner : Prune(s) => \A w \in Work : Kept(w) => Kept(w)']_vars

=============================================================================
