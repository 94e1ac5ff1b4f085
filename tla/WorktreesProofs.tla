-------------------------- MODULE WorktreesProofs --------------------------
(***************************************************************************)
(* The worktree sweeper for any number of trees, pieces of work, cleaners  *)
(* and judges, of any length of run: its types, that no directory goes     *)
(* without a proof, and that work is lost in no way but the named ones.    *)
(***************************************************************************)
EXTENDS Worktrees, TLAPS

(* Cleaners and judges keep to their own lines.                            *)
Duties ==
    /\ \A s \in Cleaner : job[s].at \notin {"grave", "tar", "force", "forceBranch"}
    /\ \A s \in Judger  : job[s].at \in {"idle", "next", "grave", "tar", "force", "forceBranch"}

(* What a cleaner has read of the tree at hand was so since it located it. *)
Read(l) ==
    CASE l \in {"fresh", "prune"}   -> {"unlocked"}
      [] l = "status"               -> {"unlocked", "idle"}
      [] l = "contains"             -> {"unlocked", "idle", "clean"}
      [] l \in {"ahead", "probe"}   -> {"unlocked", "idle", "clean", "contained"}
      [] l \in {"remove", "branch"} -> Fact
      [] OTHER                      -> {}
Proof == \A s \in Cleaner : Read(job[s].at) \subseteq seen[s]

SweepInv == TypeOK /\ Duties /\ Proof

-----------------------------------------------------------------------------
(* Where work is while it is taken away. *)

(* A listed tree on a branch has its branch; what is after the tree's      *)
(* removal has no registration any more.                                   *)
Rooted ==
    /\ reg \ Detached \subseteq branch
    /\ \A s \in Sweeper : job[s].at \in {"branch", "forceBranch"} => Of(s) \notin reg

(* A grave holds work of trees of its own name; what is bundled is         *)
(* committed.                                                              *)
Graves ==
    \A k \in Key : /\ \A w \in grave.bundle[k] : Name[Home[w]] = k[1] /\ at[w] = "committed"
                   /\ \A w \in grave.tar[k] : Name[Home[w]] = k[1] /\ at[w] # "none"

(* A proven tree's commits are pushed, or newer than the proof.            *)
Shared ==
    \A s \in Cleaner : job[s].at \in {"ahead", "probe", "remove"} =>
        \A w \in Committed(Of(s)) : w \in pushed \cup job[s].since

(* A condemned tree's work is buried, or newer than the grave.             *)
Stone(s) == <<Name[Of(s)], job[s].stamp>>
Buried ==
    \A s \in Judger :
        /\ job[s].at \in {"tar", "force", "forceBranch"} =>
              \A w \in Committed(Of(s)) : w \in job[s].since \cup grave.bundle[Stone(s)]
        /\ job[s].at = "force" =>
              \A w \in Dirty(Of(s)) : w \in job[s].since \cup grave.tar[Stone(s)]

WorkInv == TypeOK /\ Duties /\ Rooted /\ Graves /\ Shared /\ Buried

-----------------------------------------------------------------------------
(* The types. *)

JobType == [at : Labels, todo : SUBSET Tree, tree : Tree \cup {None},
            since : SUBSET Work, stamp : 0..MaxSec]

(* A sweeper has a tree at hand except between its targets.                *)
Placed(j) == j.tree = None <=> j.at \in {"idle", "next"}

JobOK == /\ job \in [Sweeper -> JobType]
         /\ \A s \in Sweeper : Placed(job[s])

WorldOK ==
    /\ checkout \in [Tree -> {"there", "missing", "removed", "buried"}]
    /\ reg \subseteq Tree /\ locked \subseteq Tree /\ live \subseteq Tree
    /\ fresh \subseteq Tree /\ branch \subseteq Tree \ Detached
    /\ at \in [Work -> Places] /\ pushed \subseteq Work /\ merged \subseteq Work
    /\ tracks \subseteq Tree \ Detached /\ upstream \subseteq pushed
    /\ grave \in [bundle : [Key -> SUBSET Work], tar : [Key -> SUBSET Work]]

Counters == sec \in 0..MaxSec /\ faults \in 0..MaxFaults /\ user \in 0..MaxUser

LEMMA TypeParts ==
    TypeOK <=> WorldOK /\ JobOK /\ Counters /\ seen \in [Sweeper -> SUBSET Fact]
BY DEF TypeOK, WorldOK, JobOK, Counters, JobType, Placed, Of

LEMMA TypePartsNext ==
    TypeOK' <=> WorldOK' /\ JobOK' /\ Counters' /\ seen' \in [Sweeper -> SUBSET Fact]
BY DEF TypeOK, WorldOK, JobOK, Counters, JobType, Placed, Of

(* Giving one sweeper's job a new value of its type keeps the jobs.        *)
LEMMA JobUpdate ==
    ASSUME JobOK, NEW s \in Sweeper, NEW j \in JobType, Placed(j),
           job' = [job EXCEPT ![s] = j]
    PROVE  JobOK'
BY DEF JobOK

LEMMA GotoTypes ==
    ASSUME JobOK, NEW s \in Sweeper, NEW l \in Labels \ {"idle", "next"},
           Of(s) # None, Goto(s, l)
    PROVE  JobOK'
<1>1. [job[s] EXCEPT !.at = l] \in JobType /\ Placed([job[s] EXCEPT !.at = l])
  BY DEF JobOK, JobType, Placed, Of
<1>2. job' = [job EXCEPT ![s] = [job[s] EXCEPT !.at = l]]
  BY DEF JobOK, Goto
<1>. QED
  BY <1>1, <1>2, JobUpdate

LEMMA JobTypes ==
    ASSUME NEW l \in Labels, NEW todo \in SUBSET Tree, NEW t \in Tree \cup {None},
           t = None <=> l \in {"idle", "next"}
    PROVE  Job(l, todo, t) \in JobType /\ Placed(Job(l, todo, t))
BY WorktreesAssumption DEF Job, JobType, Placed

LEMMA NoJobType == NoJob \in JobType /\ Placed(NoJob)
BY JobTypes DEF NoJob, Labels

LEMMA BetweenTypes ==
    ASSUME NEW todo \in SUBSET Tree
    PROVE  Between(todo) \in JobType /\ Placed(Between(todo))
BY JobTypes DEF Between, Labels

LEMMA LeaveTypes ==
    ASSUME JobOK, NEW s \in Sweeper, Leave(s)
    PROVE  JobOK'
<1>1. job[s].todo \in SUBSET Tree
  BY DEF JobOK, JobType
<1>. QED
  BY <1>1, BetweenTypes, JobUpdate DEF Leave

(* What is written since is of no consequence to the place of a job.       *)
LEMMA SinceTypes ==
    ASSUME NEW j \in JobType, Placed(j), NEW S \in SUBSET Work
    PROVE  [j EXCEPT !.since = S] \in JobType /\ Placed([j EXCEPT !.since = S])
BY DEF JobType, Placed

LEMMA WorkedTypes ==
    ASSUME JobOK, NEW w \in Work, Worked(w) PROVE JobOK'
<1>1. ASSUME NEW s \in Sweeper PROVE job'[s] \in JobType /\ Placed(job'[s])
  <2>1. job[s] \in JobType /\ Placed(job[s]) /\ job[s].since \cup {w} \in SUBSET Work
    BY DEF JobOK, JobType
  <2>2. job'[s] = job[s] \/ job'[s] = [job[s] EXCEPT !.since = job[s].since \cup {w}]
    BY DEF Worked
  <2>. QED
    BY <2>1, <2>2, SinceTypes
<1>2. job' \in [Sweeper -> JobType]
  BY <1>1 DEF Worked
<1>. QED
  BY <1>1, <1>2 DEF JobOK

LEMMA OverwritesTypes ==
    ASSUME JobOK, NEW s \in Sweeper, NEW k, NEW own \in JobType, Placed(own),
           Overwrites(s, k, own)
    PROVE  JobOK'
<1>1. ASSUME NEW r \in Sweeper PROVE job'[r] \in JobType /\ Placed(job'[r])
  <2>1. job[r] \in JobType /\ Placed(job[r]) /\ job[r].since \cup In(Of(r)) \in SUBSET Work
    BY DEF JobOK, JobType, In
  <2>2. \/ job'[r] = job[r] \/ job'[r] = own
        \/ job'[r] = [job[r] EXCEPT !.since = job[r].since \cup In(Of(r))]
    BY DEF Overwrites
  <2>. QED
    BY <2>1, <2>2, SinceTypes
<1>2. job' \in [Sweeper -> JobType]
  BY <1>1 DEF Overwrites
<1>. QED
  BY <1>1, <1>2 DEF JobOK

LEMMA SweepJobs ==
    ASSUME TypeOK, NEW s \in Sweeper, Sweep(s) PROVE JobOK'
<1>0. JobOK /\ WorldOK /\ Counters
  BY TypeParts
<1>1. CASE Scan(s)
  <2>1. PICK todo \in SUBSET Tree : job' = [job EXCEPT ![s] = Between(todo)]
    BY <1>1 DEF Scan
  <2>. QED
    BY <1>0, <2>1, BetweenTypes, JobUpdate
<1>2. CASE Rule(s)
  <2>1. PICK todo \in SUBSET Tree : job' = [job EXCEPT ![s] = Between(todo)]
    BY <1>2 DEF Rule
  <2>. QED
    BY <1>0, <2>1, BetweenTypes, JobUpdate
<1>3. CASE Locate(s)
  <2>1. PICK t \in job[s].todo :
           \/ job' = [job EXCEPT ![s] = Between(job[s].todo \ {t})]
           \/ \E l \in {"grave", "prune", "fresh"} :
                 job' = [job EXCEPT ![s] = Job(l, job[s].todo \ {t}, t)]
    BY <1>3 DEF Locate
  <2>2. t \in Tree /\ t # None /\ job[s].todo \ {t} \in SUBSET Tree
    BY <1>0, WorktreesAssumption DEF JobOK, JobType
  <2>3. CASE job' = [job EXCEPT ![s] = Between(job[s].todo \ {t})]
    BY <1>0, <2>2, <2>3, BetweenTypes, JobUpdate
  <2>4. ASSUME NEW l \in {"grave", "prune", "fresh"},
               job' = [job EXCEPT ![s] = Job(l, job[s].todo \ {t}, t)]
        PROVE  JobOK'
    <3>1. l \in Labels \ {"idle", "next"}
      BY <2>4 DEF Labels
    <3>. QED
      BY <1>0, <2>2, <2>4, <3>1, JobTypes, JobUpdate
  <2>. QED
    BY <2>1, <2>3, <2>4
<1>4. CASE Leave(s)
  BY <1>0, <1>4, LeaveTypes
<1>5. ASSUME NEW l \in Labels \ {"idle", "next"}, job[s].at \notin {"idle", "next"},
             Goto(s, l)
      PROVE  JobOK'
  <2>1. Of(s) # None
    BY <1>0, <1>5 DEF JobOK, Placed, Of
  <2>. QED
    BY <1>0, <1>5, <2>1, GotoTypes
<1>6. CASE Contains(s) /\ ~Leave(s)
  <2>. DEFINE j == [job[s] EXCEPT !.at = "ahead", !.since = {}]
  <2>1. j \in JobType /\ Placed(j)
    BY <1>0, <1>6 DEF JobOK, JobType, Placed, Contains, At, Labels
  <2>2. job' = [job EXCEPT ![s] = j]
    BY <1>0, <1>6 DEF Contains, JobOK
  <2>. HIDE DEF j
  <2>. QED
    BY <1>0, <2>1, <2>2, JobUpdate
<1>7. CASE Bundle(s)
  <2>. DEFINE j == [job[s] EXCEPT !.at = "tar", !.since = {}, !.stamp = sec]
  <2>1. j \in JobType /\ Placed(j)
    BY <1>0, <1>7 DEF JobOK, JobType, Placed, Bundle, At, Labels, Counters
  <2>2. Overwrites(s, <<Name[Of(s)], sec>>, j)
    BY <1>7 DEF Bundle
  <2>. HIDE DEF j
  <2>. QED
    BY <1>0, <2>1, <2>2, OverwritesTypes
<1>8. CASE Tar(s)
  <2>. DEFINE j == [job[s] EXCEPT !.at = "force", !.since = @ \ Dirty(Of(s))]
  <2>1. j \in JobType /\ Placed(j)
    BY <1>0, <1>8 DEF JobOK, JobType, Placed, Tar, At, Labels
  <2>2. \/ job' = [job EXCEPT ![s] = j]
        \/ Overwrites(s, <<Name[Of(s)], job[s].stamp>>, j)
    BY <1>8 DEF Tar
  <2>. HIDE DEF j
  <2>. QED
    BY <1>0, <2>1, <2>2, OverwritesTypes, JobUpdate
<1>. QED
  BY <1>1, <1>2, <1>3, <1>4, <1>5, <1>6, <1>7, <1>8
     DEF Sweep, Prune, Freshness, Status, Ahead, Probe, ProveUnless, Contains, Remove,
         DeleteBranch, NoGrave, ForceRemove, ForceBranch, At, Labels

LEMMA StoneIsKey ==
    ASSUME TypeOK, NEW s \in Sweeper, Of(s) # None
    PROVE  Of(s) \in Tree /\ Stone(s) \in Key /\ <<Name[Of(s)], sec>> \in Key
BY DEF TypeOK, Stone, Key, Of

(* The world, refs's types do not depend on the sweeper's line but for the tree  *)
(* at hand.                                                                *)
LEMMA SweepWorld ==
    ASSUME TypeOK, NEW s \in Sweeper, Sweep(s) PROVE WorldOK' /\ Counters'
<1>0. WorldOK /\ Counters
  BY TypeParts
<1>1. CASE Frame
  BY <1>0, <1>1 DEF Frame, world, refs, WorldOK, Counters
<1>2. CASE Prune(s)
  BY <1>0, <1>2 DEF refs, Prune, WorldOK, Counters
<1>3. CASE RemoveTree(Of(s), "removed") \/ RemoveTree(Of(s), "buried")
  BY <1>0, <1>3 DEF refs, RemoveTree, WorldOK, Counters
<1>4. CASE DeleteBranch(s) \/ ForceBranch(s)
  BY <1>0, <1>4 DEF refs, DeleteBranch, ForceBranch, WorldOK, Counters
<1>5. CASE Bundle(s) \/ Tar(s)
  <2>1. Of(s) # None
    BY <1>5 DEF TypeOK, Bundle, Tar, At, Of
  <2>2. /\ Committed(Of(s)) \in SUBSET Work /\ Dirty(Of(s)) \in SUBSET Work
        /\ <<Name[Of(s)], sec>> \in Key /\ <<Name[Of(s)], job[s].stamp>> \in Key
    BY <2>1, StoneIsKey DEF Committed, Dirty, In, Stone
  <2>3. \/ grave' = grave
        \/ grave' = [grave EXCEPT !.bundle[<<Name[Of(s)], sec>>] = Committed(Of(s))]
        \/ grave' = [grave EXCEPT !.tar[<<Name[Of(s)], job[s].stamp>>] = Dirty(Of(s))]
    BY <1>5 DEF Bundle, Tar
  <2>4. grave' \in [bundle : [Key -> SUBSET Work], tar : [Key -> SUBSET Work]]
    BY <1>0, <2>2, <2>3 DEF WorldOK
  <2>. QED
    BY <1>0, <1>5, <2>4 DEF refs, Bundle, Tar, WorldOK, Counters
<1>. QED
  BY <1>1, <1>2, <1>3, <1>4, <1>5
     DEF Sweep, Scan, Rule, Locate, Freshness, Status, Ahead, Probe, ProveUnless, Contains,
         Remove, NoGrave, ForceRemove

Person == \/ \E w \in Work : Edit(w) \/ Record(w)
          \/ \E t \in Tree : \/ Push(t) \/ Merge(t) \/ GoIdle(t) \/ OpenOrClose(t)
                             \/ LockOrUnlock(t) \/ ComeOrGo(t)

LEMMA PersonTypes ==
    ASSUME TypeOK, Person PROVE WorldOK' /\ JobOK'
<1>0. WorldOK /\ JobOK
  BY TypeParts
<1>. USE WorktreesAssumption
<1>1. ASSUME NEW w \in Work, Edit(w) \/ Record(w) PROVE WorldOK' /\ JobOK'
  <2>1. JobOK'
    BY <1>0, <1>1, WorkedTypes DEF Edit, Record
  <2>2. Home[w] \in Tree
    OBVIOUS
  <2>. QED
    BY <1>0, <1>1, <2>1, <2>2 DEF refs, Edit, Record, WorldOK, Places
<1>2. ASSUME NEW t \in Tree, \/ Push(t) \/ Merge(t) \/ GoIdle(t) \/ OpenOrClose(t)
                             \/ LockOrUnlock(t) \/ ComeOrGo(t)
      PROVE  WorldOK' /\ JobOK'
  <2>1. JobOK'
    BY <1>0, <1>2 DEF Push, Merge, GoIdle, OpenOrClose, LockOrUnlock, ComeOrGo, JobOK
  <2>2. Committed(t) \subseteq Work
    BY DEF Committed, In
  <2>. QED
    BY <1>0, <1>2, <2>1, <2>2
       DEF refs, Push, Merge, GoIdle, OpenOrClose, LockOrUnlock, ComeOrGo, WorldOK
<1>. QED
  BY <1>1, <1>2 DEF Person

LEMMA FailJobs ==
    ASSUME TypeOK, NEW s \in Sweeper, Fail(s) PROVE JobOK'
<1>1. CASE At(s, "ahead") /\ Goto(s, "probe")
  BY <1>1, TypeParts, GotoTypes DEF JobOK, Placed, At, Of, Labels
<1>. QED
  BY <1>1, TypeParts, LeaveTypes, JobUpdate, NoJobType DEF Fail

LEMMA WatchTypes ==
    ASSUME TypeOK, Watch PROVE seen' \in [Sweeper -> SUBSET Fact]
<1>1. ASSUME NEW t \in Tree PROVE Holds(t)' \subseteq Fact
  BY DEF Holds
<1>. QED
  BY <1>1 DEF Watch, TypeOK

LEMMA TypesKept == TypeOK /\ [Next]_vars => TypeOK'
<1>1. ASSUME TypeOK, UNCHANGED vars PROVE TypeOK'
  BY <1>1 DEF TypeOK, vars, world, refs, Of
<1>2. ASSUME TypeOK, Next PROVE TypeOK'
  <2>0. WorldOK /\ JobOK /\ Counters /\ seen' \in [Sweeper -> SUBSET Fact]
    BY <1>2, TypeParts, WatchTypes DEF Next
  <2>1. ASSUME NEW s \in Sweeper, Sweep(s) PROVE WorldOK' /\ JobOK' /\ Counters'
    BY <1>2, <2>1, SweepWorld, SweepJobs
  <2>2. ASSUME NEW s \in Sweeper, Fail(s) PROVE WorldOK' /\ JobOK' /\ Counters'
    <3>1. JobOK'
      BY <1>2, <2>2, FailJobs
    <3>. QED
      BY <2>0, <2>2, <3>1, WorktreesAssumption DEF Fail, world, refs, WorldOK, Counters
  <2>3. ASSUME User PROVE WorldOK' /\ JobOK' /\ Counters'
    <3>1. WorldOK' /\ JobOK'
      BY <1>2, <2>3, PersonTypes DEF User, Person
    <3>. QED
      BY <2>0, <2>3, <3>1, WorktreesAssumption DEF User, Counters
  <2>4. ASSUME Second PROVE WorldOK' /\ JobOK' /\ Counters'
    BY <2>0, <2>4, WorktreesAssumption DEF Second, world, refs, WorldOK, JobOK, Counters
  <2>5. WorldOK' /\ JobOK' /\ Counters'
    BY <1>2, <2>1, <2>2, <2>3, <2>4 DEF Next
  <2>. QED
    BY <2>0, <2>5, TypePartsNext
<1>. QED
  BY <1>1, <1>2

LEMMA InitTypes == Init => TypeOK
<1>. SUFFICES ASSUME Init PROVE TypeOK
  OBVIOUS
<1>1. JobOK
  BY NoJobType DEF Init, JobOK
<1>2. WorldOK
  BY DEF Init, WorldOK
<1>3. Counters /\ seen \in [Sweeper -> SUBSET Fact]
  BY WorktreesAssumption DEF Init, Counters
<1>. QED
  BY <1>1, <1>2, <1>3, TypeParts

(* Whatever people and sweepers do, every variable of the sweeper and of   *)
(* the repository keeps its type, and a sweeper has a tree at hand exactly *)
(* while it works on one (worktrees/module.go:135-179).                    *)
THEOREM TypeCorrect == Spec => []TypeOK
BY InitTypes, TypesKept, PTL DEF Spec

-----------------------------------------------------------------------------
(* How a sweeper's line moves. *)

Stays(s)  == job'[s].at = job[s].at /\ job'[s].tree = job[s].tree
Leaves(s) == job'[s].at \in {"idle", "next"}
Moves(s, l, m) == job[s].at = l /\ job'[s].at = m /\ job'[s].tree = job[s].tree

(* What a cleaner does of its own, the world standing still until it       *)
(* strikes.                                                                *)
Reads(s) ==
    /\ UNCHANGED world
    /\ \/ Moves(s, "fresh", "status")   /\ Of(s) \notin fresh
       \/ Moves(s, "status", "contains") /\ StatusEmpty(Of(s))
       \/ Moves(s, "contains", "ahead") /\ RemoteContained(Of(s))
       \/ Moves(s, "ahead", "probe")    /\ job'[s].since = job[s].since
       \/ Moves(s, "probe", "remove")    /\ Of(s) \notin live
                                         /\ job'[s].since = job[s].since
Locates(s) ==
    /\ UNCHANGED world
    /\ job'[s].at \in {"prune", "fresh"} /\ job'[s].tree \in Tree \ locked
Judges(s) ==
    \/ job'[s].at = "grave"
    \/ Moves(s, "grave", "tar") \/ Moves(s, "tar", "force") \/ Moves(s, "force", "forceBranch")

LEMMA OwnMove ==
    ASSUME TypeOK, NEW s \in Sweeper, Sweep(s)
    PROVE  \/ Stays(s) \/ Leaves(s) \/ Reads(s)
           \/ s \in Cleaner /\ Locates(s)
           \/ Moves(s, "remove", "branch")
           \/ (s \in Judger \/ job[s].at \in {"grave", "tar", "force"}) /\ Judges(s)
<1>0. job \in [Sweeper -> JobType]
  BY TypeParts DEF JobOK
<1>. USE <1>0 DEF Stays, Leaves
<1>1. CASE Leave(s)
  BY <1>1 DEF Leave, Between, Job
<1>2. CASE Scan(s) \/ Rule(s)
  BY <1>2 DEF Scan, Rule, Between, Job
<1>3. CASE Locate(s)
  <2>1. PICK t \in job[s].todo :
           \/ job' = [job EXCEPT ![s] = Between(job[s].todo \ {t})]
           \/ s \in Judger /\ job' = [job EXCEPT ![s] = Job("grave", job[s].todo \ {t}, t)]
           \/ /\ s \notin Judger /\ t \notin locked
              /\ \E l \in {"prune", "fresh"} : job' = [job EXCEPT ![s] = Job(l, job[s].todo \ {t}, t)]
    BY <1>3 DEF Locate
  <2>2. t \in Tree
    BY DEF JobType
  <2>. QED
    BY <1>3, <2>1, <2>2 DEF Between, Job, Judges, Locates, Locate, Frame, Sweeper
<1>4. CASE (Freshness(s) \/ Status(s) \/ Contains(s) \/ Ahead(s) \/ Probe(s)) /\ ~Leave(s)
  <2>1. UNCHANGED world
    BY <1>4 DEF Freshness, Status, Contains, Ahead, Probe, ProveUnless, Frame
  <2>2. CASE Contains(s)
    BY <1>4, <2>1, <2>2 DEF Contains, At, Reads, Moves, Of, JobType
  <2>3. CASE Freshness(s) \/ Status(s) \/ Ahead(s) \/ Probe(s)
    <3>1. \/ job[s].at = "fresh" /\ Goto(s, "status") /\ Of(s) \notin fresh
          \/ job[s].at = "status" /\ Goto(s, "contains") /\ StatusEmpty(Of(s))
          \/ job[s].at = "ahead" /\ Goto(s, "probe")
          \/ job[s].at = "probe" /\ Goto(s, "remove") /\ Of(s) \notin live
      BY <1>4, <2>3 DEF Freshness, Status, Ahead, Probe, ProveUnless, At
    <3>. QED
      BY <2>1, <3>1 DEF Goto, Reads, Moves, Of, JobType
  <2>. QED
    BY <1>4, <2>2, <2>3
<1>5. CASE (Remove(s) \/ ForceRemove(s)) /\ ~Leave(s)
  BY <1>5 DEF Remove, ForceRemove, Goto, At, Moves, Judges, Of, JobType
<1>6. CASE Bundle(s) \/ Tar(s)
  <2>1. job[s] \in JobType
    OBVIOUS
  <2>2. CASE Bundle(s)
    <3>1. job[s].at = "grave" /\ job'[s] = [job[s] EXCEPT !.at = "tar", !.since = {}, !.stamp = sec]
      BY <2>2 DEF Bundle, Overwrites, At
    <3>. QED
      BY <2>1, <3>1 DEF Moves, Judges, JobType
  <2>3. CASE Tar(s)
    <3>1. /\ job[s].at = "tar"
          /\ job'[s] = [job[s] EXCEPT !.at = "force", !.since = @ \ Dirty(Of(s))]
      BY <2>3 DEF Tar, Overwrites, At
    <3>. QED
      BY <2>1, <3>1 DEF Moves, Judges, JobType
  <2>. QED
    BY <1>6, <2>2, <2>3
<1>. QED
  BY <1>1, <1>2, <1>3, <1>4, <1>5, <1>6
     DEF Sweep, Prune, DeleteBranch, NoGrave, ForceBranch, Freshness, Status, Ahead, Probe,
         ProveUnless, Contains, Remove, ForceRemove

(* Nobody moves another's line: what others and people write is noted.     *)
LEMMA OthersStay ==
    ASSUME TypeOK, NEW s \in Sweeper,
           \/ \E r \in Sweeper \ {s} : Sweep(r) \/ Fail(r)
           \/ User \/ Second
    PROVE  Stays(s)
<1>0. job \in [Sweeper -> JobType]
  BY TypeParts DEF JobOK
<1>. USE <1>0 DEF Stays
<1>1. ASSUME NEW r \in Sweeper \ {s}, Sweep(r) PROVE Stays(s)
  <2>1. CASE job'[s] = job[s]
    BY <2>1
  <2>2. CASE Bundle(r) \/ Tar(r)
    BY <2>2 DEF Bundle, Tar, Overwrites, JobType
  <2>. QED
    BY <1>1, <2>1, <2>2
       DEF Sweep, Scan, Rule, Locate, Prune, Freshness, Status, Contains, Ahead, Probe, ProveUnless,
           Remove, DeleteBranch, NoGrave, ForceRemove, ForceBranch, Leave, Goto
<1>2. ASSUME NEW r \in Sweeper \ {s}, Fail(r) PROVE Stays(s)
  BY <1>2 DEF Fail, Leave, Goto, JobType
<1>3. CASE User
  <2>1. CASE \E w \in Work : Worked(w)
    BY <2>1 DEF Worked, JobType
  <2>2. CASE job' = job
    BY <2>2
  <2>. QED
    BY <1>3, <2>1, <2>2 DEF User, Edit, Record, Push, Merge, GoIdle, OpenOrClose, LockOrUnlock, ComeOrGo
<1>4. CASE Second
  BY <1>4 DEF Second
<1>. QED
  BY <1>1, <1>2, <1>3, <1>4

LEMMA LineMoves ==
    ASSUME TypeOK, Next, NEW s \in Sweeper
    PROVE  \/ Stays(s) \/ Leaves(s) \/ Reads(s)
           \/ s \in Cleaner /\ Locates(s)
           \/ Moves(s, "remove", "branch")
           \/ (s \in Judger \/ job[s].at \in {"grave", "tar", "force"}) /\ Judges(s)
<1>1. CASE Sweep(s)
  BY <1>1, OwnMove
<1>2. CASE Fail(s)
  <2>1. job \in [Sweeper -> JobType]
    BY TypeParts DEF JobOK
  <2>2. CASE At(s, "ahead") /\ Goto(s, "probe")
    BY <1>2, <2>1, <2>2 DEF Fail, At, Goto, Reads, Moves, JobType
  <2>. QED
    BY <1>2, <2>1, <2>2 DEF Fail, Leave, Between, Job, NoJob, Leaves
<1>. QED
  BY <1>1, <1>2, OthersStay DEF Next

LEMMA DutiesKept == TypeOK /\ Duties /\ [Next]_vars => Duties'
<1>1. ASSUME TypeOK, Duties, Next PROVE Duties'
  BY <1>1, LineMoves, WorktreesAssumption
     DEF Duties, Stays, Leaves, Reads, Moves, Locates, Judges, Sweeper
<1>2. ASSUME Duties, UNCHANGED vars PROVE Duties'
  BY <1>2 DEF Duties, vars
<1>. QED
  BY <1>1, <1>2

-----------------------------------------------------------------------------
(* What a cleaner has seen. *)

LEMMA Remembered ==
    ASSUME TypeOK, Watch, NEW s \in Cleaner, s \notin Judger,
           NEW t \in Tree, job'[s].tree = t
    PROVE  /\ job[s].tree = t => seen'[s] = seen[s] \cup Holds(t)'
           /\ job[s].tree # t => seen'[s] = Holds(t)'
<1>1. t # None /\ {x \in Tree : x = job'[s].tree} = {t}
  BY WorktreesAssumption
<1>2. UNION {Holds(x)' : x \in {x \in Tree : x = job'[s].tree}} = Holds(t)'
  BY <1>1
<1>. QED
  BY <1>1, <1>2 DEF Watch, Sweeper

LEMMA HoldsNext ==
    ASSUME UNCHANGED world, NEW t \in Tree
    PROVE  /\ t \notin locked => "unlocked" \in Holds(t)'
           /\ t \notin fresh => "idle" \in Holds(t)'
           /\ StatusEmpty(t) => "clean" \in Holds(t)'
           /\ RemoteContained(t) => "contained" \in Holds(t)'
           /\ t \notin live => "unheld" \in Holds(t)'
BY DEF world, refs, Holds, Fact, StatusEmpty, Clean, RemoteContained, Contained

LEMMA ProofKept == TypeOK /\ TypeOK' /\ Duties /\ Proof /\ [Next]_vars => Proof'
<1>1. ASSUME TypeOK, TypeOK', Duties, Proof, Next, NEW s \in Cleaner
      PROVE  Read(job'[s].at) \subseteq seen'[s]
  <2>0. s \in Sweeper /\ s \notin Judger
    BY WorktreesAssumption DEF Sweeper
  <2>1. CASE Leaves(s)
    BY <2>1 DEF Leaves, Read
  <2>2. CASE ~Leaves(s)
    <3>1. PICK t \in Tree : job'[s].tree = t /\ t # None
      BY <1>1, <2>0, <2>2, WorktreesAssumption DEF TypeOK, Leaves, Of
    <3>2. /\ job[s].tree = t => seen'[s] = seen[s] \cup Holds(t)'
          /\ job[s].tree # t => seen'[s] = Holds(t)'
      BY <1>1, <2>0, <3>1, Remembered DEF Next
    <3>3. CASE Stays(s)
      BY <1>1, <3>1, <3>2, <3>3 DEF Stays, Proof
    <3>4. CASE Locates(s)
      <4>1. "unlocked" \in Holds(t)'
        BY <3>1, <3>4, HoldsNext DEF Locates
      <4>. QED
        BY <3>2, <3>4, <4>1 DEF Locates, Read
    <3>5. CASE Reads(s)
      <4>1. job[s].tree = t /\ Of(s) = t /\ seen'[s] = seen[s] \cup Holds(t)'
        BY <3>1, <3>2, <3>5 DEF Reads, Moves, Of
      <4>2. Read(job[s].at) \subseteq seen[s]
        BY <1>1 DEF Proof
      <4>3. \/ job[s].at = "fresh" /\ job'[s].at = "status" /\ "idle" \in Holds(t)'
            \/ job[s].at = "status" /\ job'[s].at = "contains" /\ "clean" \in Holds(t)'
            \/ job[s].at = "contains" /\ job'[s].at = "ahead" /\ "contained" \in Holds(t)'
            \/ job[s].at = "ahead" /\ job'[s].at = "probe"
            \/ job[s].at = "probe" /\ job'[s].at = "remove" /\ "unheld" \in Holds(t)'
        BY <3>5, <4>1, HoldsNext DEF Reads, Moves
      <4>. QED
        BY <4>1, <4>2, <4>3 DEF Read, Fact
    <3>6. CASE Moves(s, "remove", "branch")
      BY <1>1, <3>1, <3>2, <3>6 DEF Moves, Proof, Read
    <3>. QED
      BY <1>1, <2>0, <2>2, <3>3, <3>4, <3>5, <3>6, LineMoves DEF Duties
  <2>. QED
    BY <2>1, <2>2
<1>2. ASSUME Proof, UNCHANGED vars PROVE Proof'
  BY <1>2 DEF Proof, vars
<1>. QED
  BY <1>1, <1>2 DEF Proof

LEMMA SweepInvHolds == Spec => []SweepInv
<1>1. Init => SweepInv
  <2>1. ASSUME Init PROVE Duties /\ Proof
    BY <2>1 DEF Init, Duties, Proof, NoJob, Job, Read, Sweeper
  <2>. QED
    BY <2>1, InitTypes DEF SweepInv
<1>2. SweepInv /\ [Next]_vars => SweepInv'
  BY TypesKept, DutiesKept, ProofKept DEF SweepInv
<1>. QED
  BY <1>1, <1>2, PTL DEF Spec

(* The only step that takes a directory without a verdict is the removal   *)
(* by a cleaner whose proof is complete.                                   *)
LEMMA OnlyRemoveTakes ==
    ASSUME SweepInv, Next, NEW t \in Tree, checkout[t] # "removed", checkout'[t] = "removed"
    PROVE  \E s \in Cleaner : Of(s) = t /\ Fact \subseteq seen[s]
<1>0. checkout \in [Tree -> {"there", "missing", "removed", "buried"}]
  BY DEF SweepInv, TypeOK
<1>1. ASSUME NEW s \in Sweeper, Sweep(s), ~(Remove(s) \/ ForceRemove(s)) PROVE checkout' = checkout
  BY <1>1 DEF Sweep, Scan, Rule, Locate, Prune, Freshness, Status, Contains, Ahead, Probe, ProveUnless,
       DeleteBranch, Bundle, Tar, NoGrave, ForceBranch, Frame, world, refs
<1>2. ASSUME NEW s \in Sweeper, Fail(s) PROVE checkout' = checkout
  BY <1>2 DEF Fail, world, refs
<1>4. ASSUME User PROVE checkout'[t] # "removed"
  BY <1>0, <1>4 DEF User, Edit, Record, Push, Merge, GoIdle, OpenOrClose, LockOrUnlock, ComeOrGo
<1>5. ASSUME NEW s \in Sweeper, ForceRemove(s) PROVE checkout'[t] # "removed"
  BY <1>0, <1>5 DEF ForceRemove, RemoveTree, Frame, world, refs
<1>6. PICK s \in Sweeper : Remove(s)
  <2>1. checkout' # checkout
    OBVIOUS
  <2>2. PICK s \in Sweeper : Sweep(s)
    BY <1>2, <1>4, <2>1 DEF Next, Second, world, refs
  <2>3. Remove(s)
    BY <1>1, <1>5, <2>1, <2>2
  <2>. QED
    BY <2>3
<1>7. Of(s) = t
  BY <1>0, <1>6 DEF Remove, RemoveTree, Frame, world, refs
<1>8. s \in Cleaner /\ Fact \subseteq seen[s]
  BY <1>6 DEF SweepInv, Duties, Proof, Read, Remove, At, Sweeper
<1>. QED
  BY <1>7, <1>8

(* The sweeper implements the deleter's promise: no directory goes without *)
(* a verdict unless, since the sweeper located it, it has been unlocked,   *)
(* idle, clean, contained in a remote and unheld ("the tier is             *)
(* RE-ESTABLISHED here", worktrees/module.go:135-163), however people work *)
(* in it meanwhile.                                                        *)
THEOREM Refines == Spec => KeepsPromise
<1>1. Init => Promise!Init
  <2>. SUFFICES ASSUME Init PROVE Promise!Init
    OBVIOUS
  <2>1. \A s \in Cleaner : {Of(s)} \ {None} = {} /\ seen[s] = {}
    BY DEF Init, Of, NoJob, Job, Sweeper
  <2>2. [t \in Tree |-> Holds(t)] \in [Tree -> SUBSET Fact]
    BY DEF Holds
  <2>. QED
    BY <2>1, <2>2 DEF Promise!Init
<1>2. SweepInv /\ SweepInv' /\ [Next]_vars => [Promise!Next]_(Promise!vars)
  <2>1. ASSUME SweepInv, SweepInv', Next PROVE Promise!Next
    <3>1. [t \in Tree |-> Holds(t)]' \in [Tree -> SUBSET Fact]
      BY DEF Holds
    <3>2. [s \in Cleaner |-> {Of(s)} \ {None}]' \in [Cleaner -> {{}} \cup {{t} : t \in Tree}]
      BY <2>1 DEF SweepInv, TypeOK, Of, Sweeper
    <3>3. ASSUME NEW s \in Cleaner PROVE Promise!Witnessed(s)
      <4>0. s \in Sweeper /\ s \notin Judger
        BY WorktreesAssumption DEF Sweeper
      <4>1. CASE job'[s].tree = None
        BY <2>1, <4>0, <4>1 DEF Promise!Witnessed, Next, Watch, Of
      <4>2. ASSUME NEW t \in Tree, job'[s].tree = t PROVE Promise!Witnessed(s)
        <5>1. /\ job[s].tree = t => seen'[s] = seen[s] \cup Holds(t)'
              /\ job[s].tree # t => seen'[s] = Holds(t)'
          BY <2>1, <4>0, <4>2, Remembered DEF SweepInv, Next
        <5>2. t # None /\ {job'[s].tree} \ {None} = {t}
          BY <4>2, WorktreesAssumption
        <5>3. {job[s].tree} \ {None} = {t} <=> job[s].tree = t
          BY <5>2
        <5>4. UNION {[y \in Tree |-> Holds(y)]'[x] : x \in {t}} = Holds(t)'
          OBVIOUS
        <5>. QED
          BY <5>1, <5>2, <5>3, <5>4 DEF Promise!Witnessed, Of
      <4>. QED
        BY <2>1, <4>0, <4>1, <4>2 DEF SweepInv, TypeOK, Of
    <3>4. ASSUME NEW t \in {x \in Tree : checkout[x] # "removed"}
                            \ {x \in Tree : checkout'[x] # "removed"}
          PROVE  \E s \in Cleaner : Promise!Proven(s, t)
      BY <2>1, <3>4, OnlyRemoveTakes, WorktreesAssumption DEF Promise!Proven, Of
    <3>. QED
      BY <3>1, <3>2, <3>3, <3>4 DEF Promise!Next, Promise!World
  <2>2. ASSUME UNCHANGED vars PROVE UNCHANGED Promise!vars
    BY <2>2 DEF vars, world, refs, Promise!vars, Holds, Clean, Contained, Of
  <2>. QED
    BY <2>1, <2>2
<1>. QED
  BY <1>1, <1>2, SweepInvHolds, PTL DEF Spec, KeepsPromise, Promise!Spec

-----------------------------------------------------------------------------
(* How work and graves change. *)

(* No step takes a commit back, unpushes one or lists a tree again, and    *)
(* whoever has the tree of what is written at hand has it noted.           *)
LEMMA WorkGrows ==
    ASSUME TypeOK, Next
    PROVE  /\ reg' \subseteq reg /\ pushed \subseteq pushed'
           /\ \A w \in Work :
                 /\ at[w] = "committed" => at'[w] = "committed"
                 /\ at[w] # "none" => at'[w] # "none"
                 /\ \/ at'[w] = at[w]
                    \/ /\ w \notin Ignored \/ at'[w] = "edited"
                       /\ \A s \in Sweeper : Of(s) = Home[w] => w \in job'[s].since
<1>0. at \in [Work -> Places] /\ reg \subseteq Tree /\ job \in [Sweeper -> JobType]
  BY TypeParts DEF WorldOK, JobOK
<1>1. ASSUME NEW s \in Sweeper, Sweep(s)
      PROVE  reg' \subseteq reg /\ pushed \subseteq pushed' /\ at' = at
  BY <1>1 DEF Sweep, Scan, Rule, Locate, Prune, Freshness, Status, Contains, Ahead, Probe, ProveUnless,
       Remove, RemoveTree, DeleteBranch, Bundle, Tar, NoGrave, ForceRemove, ForceBranch,
       Frame, world, refs
<1>2. ASSUME NEW s \in Sweeper, Fail(s)
      PROVE  reg' \subseteq reg /\ pushed \subseteq pushed' /\ at' = at
  BY <1>2 DEF Fail, world, refs
<1>3. CASE Second
  BY <1>3 DEF Second, world, refs
<1>4. ASSUME NEW w \in Work, Worked(w), NEW s \in Sweeper, Of(s) = Home[w]
      PROVE  w \in job'[s].since
  BY <1>0, <1>4 DEF Worked, JobType
<1>5. ASSUME NEW w \in Work, Edit(w) \/ Record(w)
      PROVE  /\ reg' \subseteq reg /\ pushed \subseteq pushed'
             /\ \A v \in Work :
                   /\ at[v] = "committed" => at'[v] = "committed"
                   /\ at[v] # "none" => at'[v] # "none"
                   /\ \/ at'[v] = at[v]
                      \/ /\ v \notin Ignored \/ at'[v] = "edited"
                         /\ \A s \in Sweeper : Of(s) = Home[v] => v \in job'[s].since
  BY <1>0, <1>4, <1>5 DEF refs, Edit, Record
<1>6. ASSUME NEW t \in Tree, \/ Push(t) \/ Merge(t) \/ GoIdle(t) \/ OpenOrClose(t)
                             \/ LockOrUnlock(t) \/ ComeOrGo(t)
      PROVE  reg' \subseteq reg /\ pushed \subseteq pushed' /\ at' = at
  BY <1>6 DEF refs, Push, Merge, GoIdle, OpenOrClose, LockOrUnlock, ComeOrGo
<1>. QED
  BY <1>1, <1>2, <1>3, <1>5, <1>6 DEF Next, User

(* While a sweeper stays where it is, what it has noted only grows.        *)
LEMMA SinceGrows ==
    ASSUME TypeOK, Next, NEW s \in Sweeper, Stays(s), job[s].at \notin {"idle", "next"}
    PROVE  job[s].since \subseteq job'[s].since /\ job'[s].stamp = job[s].stamp
<1>0. job \in [Sweeper -> JobType]
  BY TypeParts DEF JobOK
<1>1. ASSUME NEW r \in Sweeper, Bundle(r) \/ Tar(r), r # s
      PROVE  job[s].since \subseteq job'[s].since /\ job'[s].stamp = job[s].stamp
  BY <1>0, <1>1 DEF Bundle, Tar, Overwrites, JobType
<1>2. ASSUME NEW w \in Work, Worked(w)
      PROVE  job[s].since \subseteq job'[s].since /\ job'[s].stamp = job[s].stamp
  BY <1>0, <1>2 DEF Worked, JobType
<1>3. CASE job'[s] = job[s]
  BY <1>3
<1>4. ASSUME NEW r \in Sweeper, Sweep(r) \/ Fail(r), r # s
      PROVE  job'[s] = job[s] \/ Bundle(r) \/ Tar(r)
  BY <1>0, <1>4 DEF Sweep, Scan, Rule, Locate, Prune, Freshness, Status, Contains, Ahead, Probe,
       ProveUnless, Remove, DeleteBranch, NoGrave, ForceRemove, ForceBranch, Leave, Goto, Fail
<1>5. ASSUME User \/ Second PROVE job'[s] = job[s] \/ \E w \in Work : Worked(w)
  BY <1>5 DEF User, Edit, Record, Push, Merge, GoIdle, OpenOrClose, LockOrUnlock, ComeOrGo, Second
<1>6. ASSUME Sweep(s) PROVE job'[s] = job[s]
  <2>1. job'[s].at = job[s].at
    BY DEF Stays
  <2>2. CASE Leave(s)
    BY <1>0, <2>1, <2>2 DEF Leave, Between, Job
  <2>3. CASE Scan(s) \/ Rule(s) \/ Locate(s)
    BY <2>3 DEF Scan, Rule, Locate, At
  <2>4. CASE (Bundle(s) \/ Tar(s)) /\ ~Leave(s)
    <3>1. \/ /\ job[s].at = "grave"
             /\ job'[s] = [job[s] EXCEPT !.at = "tar", !.since = {}, !.stamp = sec]
          \/ /\ job[s].at = "tar"
             /\ job'[s] = [job[s] EXCEPT !.at = "force", !.since = @ \ Dirty(Of(s))]
      BY <1>0, <2>4 DEF Bundle, Tar, Overwrites, At
    <3>2. job[s] \in JobType
      BY <1>0
    <3>. QED
      BY <2>1, <3>1, <3>2 DEF JobType
  <2>5. CASE Contains(s) /\ ~Leave(s)
    BY <1>0, <2>1, <2>5 DEF Contains, At, JobType
  <2>6. CASE \/ (Freshness(s) \/ Status(s) \/ Ahead(s) \/ Probe(s)) /\ ~Leave(s)
             \/ (Remove(s) \/ ForceRemove(s)) /\ ~Leave(s)
    <3>1. \E l, m \in Labels : l # m /\ job[s].at = l /\ Goto(s, m)
      BY <2>6 DEF Freshness, Status, Ahead, Probe, ProveUnless, Remove, ForceRemove, At, Labels
    <3>. QED
      BY <1>0, <2>1, <3>1 DEF Goto, JobType
  <2>. QED
    BY <1>6, <2>2, <2>3, <2>4, <2>5, <2>6
       DEF Sweep, Prune, DeleteBranch, NoGrave, ForceBranch
<1>7. ASSUME Fail(s) PROVE FALSE
  BY <1>0, <1>7 DEF Fail, Leave, Between, NoJob, Job, Stays, At, Goto, JobType
<1>. QED
  BY <1>1, <1>2, <1>3, <1>4, <1>5, <1>6, <1>7 DEF Next

(* What a step does to the graves: nothing, a bundle, or a tarball.        *)
Bundles(r) ==
    /\ CanBury(Of(r)) /\ Of(r) \in Tree /\ at' = at
    /\ grave'.tar = grave.tar
    /\ grave'.bundle = [grave.bundle EXCEPT ![<<Name[Of(r)], sec>>] = Committed(Of(r))]
    /\ <<Name[Of(r)], sec>> \in Key
    /\ \A q \in Judger \ {r} : Of(q) \notin {None, Of(r)} /\ Stone(q) = <<Name[Of(r)], sec>>
                               => In(Of(q)) \subseteq job'[q].since
    /\ job'[r].at = "tar" /\ job'[r].tree = Of(r) /\ Stone(r)' = <<Name[Of(r)], sec>>
Tars(r) ==
    /\ job[r].at = "tar" /\ CanBury(Of(r)) /\ Of(r) \in Tree /\ at' = at
    /\ grave'.bundle = grave.bundle
    /\ \/ Dirty(Of(r)) = {} /\ grave'.tar = grave.tar
       \/ /\ Dirty(Of(r)) # {}
          /\ grave'.tar = [grave.tar EXCEPT ![Stone(r)] = Dirty(Of(r))]
          /\ \A q \in Judger \ {r} : Of(q) \notin {None, Of(r)} /\ Stone(q) = Stone(r)
                                     => In(Of(q)) \subseteq job'[q].since
    /\ Stone(r) \in Key
    /\ job'[r].at = "force" /\ job'[r].tree = Of(r) /\ Stone(r)' = Stone(r)
    /\ job'[r].since = job[r].since \ Dirty(Of(r))

LEMMA BundleDoes ==
    ASSUME TypeOK, NEW r \in Sweeper, Bundle(r) PROVE Bundles(r)
<1>0. job \in [Sweeper -> JobType] /\ job[r] \in JobType
  BY TypeParts DEF JobOK
<1>1. Of(r) # None
  BY DEF TypeOK, Bundle, At, Of
<1>2. Of(r) \in Tree /\ <<Name[Of(r)], sec>> \in Key
  BY <1>1, StoneIsKey
<1>3. grave'.tar = grave.tar /\ grave'.bundle = [grave.bundle EXCEPT ![<<Name[Of(r)], sec>>] = Committed(Of(r))]
  BY DEF Bundle, TypeOK
<1>4. job'[r] = [job[r] EXCEPT !.at = "tar", !.since = {}, !.stamp = sec]
  BY <1>0 DEF Bundle, Overwrites
<1>5. job'[r].at = "tar" /\ job'[r].tree = Of(r) /\ job'[r].stamp = sec
  BY <1>0, <1>4 DEF JobType, Of
<1>6. ASSUME NEW q \in Judger \ {r}, Of(q) \notin {None, Of(r)}, Stone(q) = <<Name[Of(r)], sec>>
      PROVE  In(Of(q)) \subseteq job'[q].since
  <2>1. job'[q] = [job[q] EXCEPT !.since = @ \cup In(Of(q))] /\ job[q] \in JobType
    BY <1>0, <1>6 DEF Bundle, Overwrites, Stone, Sweeper
  <2>. QED
    BY <2>1 DEF JobType
<1>. QED
  BY <1>2, <1>3, <1>5, <1>6 DEF Bundles, Bundle, Stone, Of

LEMMA TarDoes ==
    ASSUME TypeOK, NEW r \in Sweeper, Tar(r) PROVE Tars(r)
<1>0. job \in [Sweeper -> JobType] /\ job[r] \in JobType
  BY TypeParts DEF JobOK
<1>1. Of(r) # None
  BY DEF TypeOK, Tar, At, Of
<1>2. Of(r) \in Tree /\ Stone(r) \in Key
  BY <1>1, StoneIsKey
<1>3. job'[r] = [job[r] EXCEPT !.at = "force", !.since = @ \ Dirty(Of(r))]
  BY <1>0 DEF Tar, Overwrites
<1>4. /\ job'[r].at = "force" /\ job'[r].tree = Of(r) /\ job'[r].stamp = job[r].stamp
      /\ job'[r].since = job[r].since \ Dirty(Of(r))
  BY <1>0, <1>3 DEF JobType, Of
<1>5. CASE Dirty(Of(r)) = {}
  BY <1>2, <1>4, <1>5 DEF Tars, Tar, At, Stone, Of
<1>6. CASE Dirty(Of(r)) # {}
  <2>1. /\ grave'.bundle = grave.bundle
        /\ grave'.tar = [grave.tar EXCEPT ![Stone(r)] = Dirty(Of(r))]
    BY <1>6 DEF Tar, TypeOK, Stone
  <2>2. ASSUME NEW q \in Judger \ {r}, Of(q) \notin {None, Of(r)}, Stone(q) = Stone(r)
        PROVE  In(Of(q)) \subseteq job'[q].since
    <3>1. job'[q] = [job[q] EXCEPT !.since = @ \cup In(Of(q))] /\ job[q] \in JobType
      BY <1>0, <1>6, <2>2 DEF Tar, Overwrites, Stone, Sweeper
    <3>. QED
      BY <3>1 DEF JobType
  <2>. QED
    BY <1>2, <1>4, <1>6, <2>1, <2>2 DEF Tars, Tar, At, Stone, Of
<1>. QED
  BY <1>5, <1>6

LEMMA GraveSteps ==
    ASSUME TypeOK, Next
    PROVE  grave' = grave \/ \E r \in Sweeper : Bundles(r) \/ Tars(r)
<1>1. ASSUME NEW s \in Sweeper, Sweep(s) PROVE grave' = grave \/ Bundle(s) \/ Tar(s)
  BY <1>1 DEF Sweep, Scan, Rule, Locate, Prune, Freshness, Status, Contains, Ahead, Probe, ProveUnless,
       Remove, RemoveTree, DeleteBranch, NoGrave, ForceRemove, ForceBranch, Frame, world, refs
<1>2. ASSUME NEW s \in Sweeper, Fail(s) PROVE grave' = grave
  BY <1>2 DEF Fail, world, refs
<1>3. ASSUME User \/ Second PROVE grave' = grave
  BY <1>3 DEF User, Edit, Record, Push, Merge, GoIdle, OpenOrClose, LockOrUnlock, ComeOrGo, Second, world, refs
<1>. QED
  BY <1>1, <1>2, <1>3, BundleDoes, TarDoes DEF Next

(* What the graves hold at a key, after a step. *)
LEMMA GravesNext ==
    ASSUME TypeOK, Next, NEW k \in Key
    PROVE  /\ \/ grave'.bundle[k] = grave.bundle[k]
              \/ \E r \in Sweeper : /\ Bundles(r) /\ k = <<Name[Of(r)], sec>>
                                    /\ grave'.bundle[k] = Committed(Of(r))
           /\ \/ grave'.tar[k] = grave.tar[k]
              \/ \E r \in Sweeper : /\ Tars(r) /\ Dirty(Of(r)) # {} /\ k = Stone(r)
                                    /\ grave'.tar[k] = Dirty(Of(r))
<1>0. grave.bundle \in [Key -> SUBSET Work] /\ grave.tar \in [Key -> SUBSET Work]
  BY DEF TypeOK
<1>1. CASE grave' = grave
  BY <1>1
<1>2. ASSUME NEW r \in Sweeper, Bundles(r)
      PROVE  /\ grave'.tar = grave.tar
             /\ \/ grave'.bundle[k] = grave.bundle[k]
                \/ k = <<Name[Of(r)], sec>> /\ grave'.bundle[k] = Committed(Of(r))
  BY <1>0, <1>2 DEF Bundles
<1>3. ASSUME NEW r \in Sweeper, Tars(r)
      PROVE  /\ grave'.bundle = grave.bundle
             /\ \/ grave'.tar[k] = grave.tar[k]
                \/ Dirty(Of(r)) # {} /\ k = Stone(r) /\ grave'.tar[k] = Dirty(Of(r))
  <2>1. grave'.bundle = grave.bundle
    BY <1>3 DEF Tars
  <2>2. CASE grave'.tar = grave.tar
    BY <2>1, <2>2
  <2>3. CASE Dirty(Of(r)) # {} /\ grave'.tar = [grave.tar EXCEPT ![Stone(r)] = Dirty(Of(r))]
    BY <1>0, <2>1, <2>3
  <2>. QED
    BY <1>3, <2>2, <2>3 DEF Tars
<1>. QED
  BY <1>1, <1>2, <1>3, GraveSteps

LEMMA GravesKept == TypeOK /\ Graves /\ [Next]_vars => Graves'
<1>1. ASSUME TypeOK, Graves, Next, NEW k \in Key
      PROVE  /\ \A w \in grave'.bundle[k] : Name[Home[w]] = k[1] /\ at'[w] = "committed"
             /\ \A w \in grave'.tar[k] : Name[Home[w]] = k[1] /\ at'[w] # "none"
  <2>0. /\ \A w \in grave.bundle[k] : Name[Home[w]] = k[1] /\ at[w] = "committed"
        /\ \A w \in grave.tar[k] : Name[Home[w]] = k[1] /\ at[w] # "none"
        /\ grave.bundle[k] \subseteq Work /\ grave.tar[k] \subseteq Work
    BY <1>1 DEF Graves, TypeOK
  <2>1. ASSUME NEW w \in grave.bundle[k] PROVE Name[Home[w]] = k[1] /\ at'[w] = "committed"
    BY <1>1, <2>0, <2>1, WorkGrows
  <2>2. ASSUME NEW w \in grave.tar[k] PROVE Name[Home[w]] = k[1] /\ at'[w] # "none"
    BY <1>1, <2>0, <2>2, WorkGrows
  <2>3. ASSUME NEW r \in Sweeper, Bundles(r), k = <<Name[Of(r)], sec>>, NEW w \in Committed(Of(r))
        PROVE  Name[Home[w]] = k[1] /\ at'[w] = "committed"
    BY <2>3 DEF Bundles, Committed, In
  <2>4. ASSUME NEW r \in Sweeper, Tars(r), k = Stone(r), NEW w \in Dirty(Of(r))
        PROVE  Name[Home[w]] = k[1] /\ at'[w] # "none"
    BY <2>4 DEF Tars, Dirty, In, Stone
  <2>. QED
    BY <1>1, <2>1, <2>2, <2>3, <2>4, GravesNext
<1>2. ASSUME Graves, UNCHANGED vars PROVE Graves'
  BY <1>2 DEF Graves, vars, world, refs
<1>. QED
  BY <1>1, <1>2 DEF Graves

LEMMA JudgeMoves ==
    ASSUME TypeOK, Duties, Next, NEW s \in Judger
    PROVE  \/ Stays(s) \/ Leaves(s) \/ job'[s].at = "grave"
           \/ Bundles(s) \/ Tars(s)
           \/ /\ Moves(s, "force", "forceBranch") /\ grave' = grave /\ at' = at
              /\ job'[s].since = job[s].since /\ job'[s].stamp = job[s].stamp
<1>0. job \in [Sweeper -> JobType] /\ s \in Sweeper
  BY TypeParts DEF JobOK, Sweeper
<1>1. CASE Sweep(s)
  <2>1. CASE Bundle(s) \/ Tar(s)
    BY <1>0, <2>1, BundleDoes, TarDoes
  <2>2. CASE ForceRemove(s)
    <3>1. CASE Leave(s)
      BY <1>0, <3>1 DEF Leave, Between, Job, Leaves
    <3>2. CASE ~Leave(s)
      <4>1. Goto(s, "forceBranch") /\ job[s].at = "force" /\ grave' = grave /\ at' = at
        BY <2>2, <3>2 DEF ForceRemove, RemoveTree, At
      <4>. QED
        BY <1>0, <4>1 DEF Goto, Moves, JobType
    <3>. QED
      BY <3>1, <3>2
  <2>3. CASE NoGrave(s) \/ ForceBranch(s)
    BY <1>0, <2>3 DEF NoGrave, ForceBranch, Leave, Between, Job, Leaves
  <2>4. CASE Rule(s) \/ Scan(s)
    BY <1>0, <2>4 DEF Rule, Scan, Between, Job, Leaves
  <2>5. CASE Locate(s)
    BY <1>0, <2>5 DEF Locate, Between, Job, Leaves
  <2>. QED
    BY <1>1, <2>1, <2>2, <2>3, <2>4, <2>5
       DEF Sweep, Duties, Prune, Freshness, Status, Contains, Ahead, Probe, Remove, DeleteBranch, At
<1>2. CASE Fail(s)
  BY <1>0, <1>2 DEF Duties, At, Fail, Leave, Between, Job, NoJob, Leaves
<1>. QED
  BY <1>0, <1>1, <1>2, OthersStay DEF Next

LEMMA BuriedKept ==
    TypeOK /\ TypeOK' /\ Duties /\ Buried /\ [Next]_vars => Buried'
<1>1. ASSUME TypeOK, TypeOK', Duties, Buried, Next, NEW s \in Judger
      PROVE  /\ job'[s].at \in {"tar", "force", "forceBranch"} =>
                    \A w \in Committed(Of(s))' : w \in job'[s].since \cup grave'.bundle[Stone(s)']
             /\ job'[s].at = "force" =>
                    \A w \in Dirty(Of(s))' : w \in job'[s].since \cup grave'.tar[Stone(s)']
  <2>0. /\ s \in Sweeper /\ Of(s)' = job'[s].tree /\ Stone(s)' = <<Name[job'[s].tree], job'[s].stamp>>
        /\ \A t : /\ Committed(t)' = {w \in In(t) : at'[w] = "committed"}
                  /\ Dirty(t)' = {w \in In(t) \ Ignored : at'[w] = "edited"}
                  /\ In(t) \subseteq Work
    BY DEF Sweeper, Of, Stone, Committed, Dirty, In
  <2>1. CASE Leaves(s) \/ job'[s].at = "grave"
    BY <2>1 DEF Leaves
  <2>2. CASE Stays(s) /\ job[s].at \in {"tar", "force", "forceBranch"}
    <3>0. /\ job'[s].at = job[s].at /\ job'[s].tree = Of(s) /\ Stone(s)' = Stone(s)
          /\ job[s].since \subseteq job'[s].since
      BY <1>1, <2>0, <2>2, SinceGrows DEF Stays, Of, Stone
    <3>1. Of(s) \in Tree /\ Of(s) # None /\ Stone(s) \in Key
      BY <1>1, <2>0, <2>2, StoneIsKey DEF TypeOK, Of
    <3>2. ASSUME NEW w \in Committed(Of(s))'
          PROVE  w \in job'[s].since \cup grave'.bundle[Stone(s)]
      <4>1. w \in In(Of(s)) /\ at'[w] = "committed" /\ w \in Work /\ Home[w] = Of(s)
        BY <2>0, <3>0, <3>2 DEF In
      <4>2. CASE at'[w] # at[w]
        BY <1>1, <2>0, <4>1, <4>2, WorkGrows
      <4>3. CASE at'[w] = at[w]
        <5>1. w \in Committed(Of(s)) /\ w \in job[s].since \cup grave.bundle[Stone(s)]
          BY <1>1, <2>2, <4>1, <4>3 DEF Buried, Committed
        <5>2. ASSUME NEW r \in Sweeper, Bundles(r), Stone(s) = <<Name[Of(r)], sec>>, Of(r) # Of(s)
              PROVE  w \in job'[s].since
          BY <3>1, <4>1, <5>2 DEF Bundles
        <5>. QED
          BY <1>1, <3>0, <3>1, <5>1, <5>2, GravesNext
      <4>. QED
        BY <4>2, <4>3
    <3>3. ASSUME job[s].at = "force", NEW w \in Dirty(Of(s))'
          PROVE  w \in job'[s].since \cup grave'.tar[Stone(s)]
      <4>1. w \in In(Of(s)) /\ w \notin Ignored /\ at'[w] = "edited" /\ w \in Work /\ Home[w] = Of(s)
        BY <2>0, <3>0, <3>3 DEF In
      <4>2. CASE at'[w] # at[w]
        BY <1>1, <2>0, <4>1, <4>2, WorkGrows
      <4>3. CASE at'[w] = at[w]
        <5>1. w \in Dirty(Of(s)) /\ w \in job[s].since \cup grave.tar[Stone(s)]
          BY <1>1, <3>3, <4>1, <4>3 DEF Buried, Dirty
        <5>2. ASSUME NEW r \in Sweeper, Tars(r), Dirty(Of(r)) # {}, Stone(s) = Stone(r), Of(r) # Of(s)
              PROVE  w \in job'[s].since
          BY <3>1, <4>1, <5>2 DEF Tars
        <5>. QED
          BY <1>1, <3>0, <3>1, <5>1, <5>2, GravesNext
      <4>. QED
        BY <4>2, <4>3
    <3>. QED
      BY <2>0, <3>0, <3>2, <3>3
  <2>3. CASE Stays(s) /\ job[s].at \notin {"tar", "force", "forceBranch"}
    BY <2>3 DEF Stays
  <2>4. CASE Bundles(s)
    <3>0. grave.bundle \in [Key -> SUBSET Work]
      BY <1>1 DEF TypeOK
    <3>1. grave'.bundle[Stone(s)'] = Committed(Of(s)) /\ Committed(Of(s))' = Committed(Of(s))
      BY <2>0, <2>4, <3>0 DEF Bundles, Committed
    <3>. QED
      BY <2>4, <3>1 DEF Bundles
  <2>5. CASE Tars(s)
    <3>1. /\ Committed(Of(s))' = Committed(Of(s)) /\ Dirty(Of(s))' = Dirty(Of(s))
          /\ Committed(Of(s)) \cap Dirty(Of(s)) = {}
      BY <2>0, <2>5 DEF Tars, Committed, Dirty
    <3>2. Dirty(Of(s)) \subseteq grave'.tar[Stone(s)']
      BY <1>1, <2>5 DEF Tars, TypeOK
    <3>3. job[s].at = "tar"
      BY <2>5 DEF Tars
    <3>4. \A w \in Committed(Of(s)) : w \in job[s].since \cup grave.bundle[Stone(s)]
      BY <1>1, <3>3 DEF Buried
    <3>. QED
      BY <2>5, <3>1, <3>2, <3>4 DEF Tars
  <2>6. CASE /\ Moves(s, "force", "forceBranch") /\ grave' = grave /\ at' = at
             /\ job'[s].since = job[s].since /\ job'[s].stamp = job[s].stamp
    <3>1. /\ job'[s].tree = Of(s) /\ Stone(s)' = Stone(s) /\ job[s].at = "force"
          /\ job'[s].at = "forceBranch" /\ Committed(Of(s))' = Committed(Of(s))
      BY <2>0, <2>6 DEF Moves, Stone, Committed, Of
    <3>2. \A w \in Committed(Of(s)) : w \in job[s].since \cup grave.bundle[Stone(s)]
      BY <1>1, <3>1 DEF Buried
    <3>. QED
      BY <2>6, <3>1, <3>2
  <2>. QED
    BY <1>1, <2>1, <2>2, <2>3, <2>4, <2>5, <2>6, JudgeMoves
<1>2. ASSUME Buried, UNCHANGED vars PROVE Buried'
  BY <1>2 DEF Buried, vars, world, refs, Committed, Dirty, Stone, Of
<1>. QED
  BY <1>1, <1>2 DEF Buried

LEMMA SharedKept ==
    TypeOK /\ TypeOK' /\ Duties /\ Shared /\ [Next]_vars => Shared'
<1>1. ASSUME TypeOK, TypeOK', Duties, Shared, Next, NEW s \in Cleaner,
             job'[s].at \in {"ahead", "probe", "remove"}, NEW w \in Committed(Of(s))'
      PROVE  w \in pushed' \cup job'[s].since
  <2>0. /\ s \in Sweeper /\ s \notin Judger
        /\ w \in Work /\ Home[w] = job'[s].tree /\ at'[w] = "committed"
    BY <1>1, WorktreesAssumption DEF Sweeper, Committed, In, Of
  <2>1. CASE Stays(s)
    <3>1. Home[w] = Of(s) /\ job[s].at \in {"ahead", "probe", "remove"} /\ job[s].since \subseteq job'[s].since
      BY <1>1, <2>0, <2>1, SinceGrows DEF Stays, Of
    <3>2. CASE at'[w] = at[w]
      <4>1. w \in pushed \cup job[s].since
        BY <1>1, <2>0, <3>1, <3>2 DEF Shared, Committed, In
      <4>. QED
        BY <1>1, <3>1, <4>1, WorkGrows
    <3>3. CASE at'[w] # at[w]
      BY <1>1, <2>0, <3>1, <3>3, WorkGrows
    <3>. QED
      BY <3>2, <3>3
  <2>2. CASE Reads(s)
    <3>1. Home[w] = Of(s) /\ at' = at /\ pushed' = pushed
      BY <2>0, <2>2 DEF Reads, Moves, Of, world, refs
    <3>2. CASE Moves(s, "contains", "ahead") /\ RemoteContained(Of(s))
      BY <2>0, <3>1, <3>2 DEF RemoteContained, In
    <3>3. CASE /\ Moves(s, "ahead", "probe") \/ Moves(s, "probe", "remove")
               /\ job'[s].since = job[s].since
      BY <1>1, <2>0, <3>1, <3>3 DEF Moves, Shared, Committed, In
    <3>. QED
      BY <1>1, <2>2, <3>2, <3>3 DEF Reads, Moves
  <2>. QED
    BY <1>1, <2>0, <2>1, <2>2, LineMoves DEF Leaves, Locates, Moves, Duties
<1>2. ASSUME Shared, UNCHANGED vars PROVE Shared'
  BY <1>2 DEF Shared, vars, world, refs, Committed, Of
<1>. QED
  BY <1>1, <1>2 DEF Shared

(* A tree's branch is turned to when its registration is gone.             *)
LEMMA BranchComesLast ==
    ASSUME TypeOK, Duties, Next, NEW s \in Sweeper, job'[s].at \in {"branch", "forceBranch"},
           ~Stays(s)
    PROVE  job'[s].tree \notin reg'
<1>0. job \in [Sweeper -> JobType]
  BY TypeParts DEF JobOK
<1>1. ~Leave(s)
  BY <1>0 DEF Leave, Between, Job
<1>2. ~Fail(s)
  BY <1>0 DEF At, Goto, JobType, Fail, Leave, Between, Job, NoJob
<1>3. Sweep(s)
  BY <1>2, OthersStay DEF Next
<1>4. Moves(s, "remove", "branch") \/ Moves(s, "force", "forceBranch")
  BY <1>3, OwnMove DEF Leaves, Reads, Locates, Judges, Moves
<1>5. Remove(s) \/ ForceRemove(s)
  BY <1>1, <1>3, <1>4 DEF Moves, Sweep, Scan, Rule, Locate, Prune, Freshness, Status, Contains,
       Ahead, Probe, ProveUnless, DeleteBranch, Bundle, Tar, NoGrave, ForceBranch, At
<1>6. reg' = reg \ {Of(s)}
  BY <1>1, <1>5 DEF Remove, ForceRemove, RemoveTree
<1>. QED
  BY <1>4, <1>6 DEF Moves, Of

LEMMA BranchSteps ==
    ASSUME TypeOK, Next
    PROVE  \/ branch' = branch
           \/ \E s \in Sweeper : /\ job[s].at \in {"branch", "forceBranch"}
                                 /\ reg' = reg /\ branch' = branch \ {Of(s)}
<1>1. ASSUME NEW s \in Sweeper, Sweep(s)
      PROVE  \/ branch' = branch
             \/ /\ job[s].at \in {"branch", "forceBranch"}
                /\ reg' = reg /\ branch' = branch \ {Of(s)}
  BY <1>1 DEF Sweep, Scan, Rule, Locate, Prune, Freshness, Status, Contains, Ahead, Probe, ProveUnless,
       Remove, RemoveTree, DeleteBranch, Bundle, Tar, NoGrave, ForceRemove, ForceBranch,
       Frame, world, refs, At
<1>2. ASSUME NEW s \in Sweeper, Fail(s) PROVE branch' = branch
  BY <1>2 DEF Fail, world, refs
<1>3. ASSUME User \/ Second PROVE branch' = branch
  BY <1>3 DEF User, Edit, Record, Push, Merge, GoIdle, OpenOrClose, LockOrUnlock, ComeOrGo, Second, world, refs
<1>. QED
  BY <1>1, <1>2, <1>3 DEF Next

LEMMA RootedKept == TypeOK /\ Duties /\ Rooted /\ [Next]_vars => Rooted'
<1>1. ASSUME TypeOK, Duties, Rooted, Next PROVE Rooted'
  <2>1. reg' \subseteq reg
    BY <1>1, WorkGrows
  <2>2. reg' \ Detached \subseteq branch'
    BY <1>1, <2>1, BranchSteps DEF Rooted
  <2>3. ASSUME NEW s \in Sweeper, job'[s].at \in {"branch", "forceBranch"}
        PROVE  job'[s].tree \notin reg'
    <3>1. CASE Stays(s)
      BY <1>1, <2>1, <2>3, <3>1 DEF Stays, Rooted, Of
    <3>. QED
      BY <1>1, <2>3, <3>1, BranchComesLast
  <2>. QED
    BY <2>2, <2>3 DEF Rooted, Of
<1>2. ASSUME Rooted, UNCHANGED vars PROVE Rooted'
  BY <1>2 DEF Rooted, vars, world, refs, Of
<1>. QED
  BY <1>1, <1>2

LEMMA WorkInvHolds == Spec => []WorkInv
<1>1. Init => WorkInv
  <2>. SUFFICES ASSUME Init PROVE WorkInv
    OBVIOUS
  <2>1. \A s \in Sweeper : job[s].at = "idle"
    BY DEF Init, NoJob, Job
  <2>2. Duties /\ Rooted /\ Shared /\ Buried
    BY <2>1 DEF Init, Duties, Rooted, Shared, Buried, Sweeper
  <2>3. Graves
    BY DEF Init, Graves
  <2>. QED
    BY <2>2, <2>3, InitTypes DEF WorkInv
<1>2. WorkInv /\ [Next]_vars => WorkInv'
  BY TypesKept, DutiesKept, RootedKept, GravesKept, SharedKept, BuriedKept DEF WorkInv
<1>. QED
  BY <1>1, <1>2, PTL DEF Spec

-----------------------------------------------------------------------------
(* Where work is lost, one step at a time. *)

LEMMA PeopleKeep ==
    ASSUME TypeOK, User \/ Second, NEW w \in Work, Kept(w) PROVE Kept(w)'
<1>0. /\ at \in [Work -> Places] /\ Home[w] \in Tree
      /\ checkout \in [Tree -> {"there", "missing", "removed", "buried"}]
  BY WorktreesAssumption DEF TypeOK
<1>1. /\ reg' = reg /\ branch' = branch /\ grave' = grave
      /\ pushed \subseteq pushed' /\ merged \subseteq merged'
      /\ checkout[Home[w]] \in {"there", "missing"} => checkout'[Home[w]] \in {"there", "missing"}
      /\ \/ at'[w] = at[w]
         \/ /\ checkout[Home[w]] = "there"
            /\ at'[w] = "committed" => Home[w] \in reg
  BY <1>0 DEF User, Second, world, refs, Edit, Record, Push, Merge, GoIdle, OpenOrClose, LockOrUnlock, ComeOrGo
<1>2. InGrave(w)' <=> InGrave(w)
  BY <1>1 DEF InGrave
<1>. QED
  BY <1>0, <1>1, <1>2 DEF Kept

(* prune drops the registration of every tree whose directory is missing.  *)
LEMMA PruneKeeps ==
    ASSUME WorkInv, NEW s \in Sweeper, Prune(s), NEW w \in Work, Kept(w), ~Kept(w)'
    PROVE  Excused(w)
<1>0. Home[w] \in Tree
  BY WorktreesAssumption
<1>1. /\ reg' = {t \in reg : ~Prunable(t)} /\ At(s, "prune")
      /\ UNCHANGED <<checkout, branch, at, pushed, merged, grave>>
  BY DEF refs, Prune
<1>2. InGrave(w)' <=> InGrave(w)
  BY <1>1 DEF InGrave
<1>3. at[w] = "committed" /\ Home[w] \in reg /\ Home[w] \notin branch /\ Prunable(Home[w])
  BY <1>0, <1>1, <1>2 DEF Kept
<1>4. Home[w] \in Detached
  BY <1>3 DEF WorkInv, Rooted
<1>. QED
  BY <1>1, <1>3, <1>4 DEF Excused

(* `worktree remove` and `worktree remove --force`.                        *)
LEMMA RemoveKeeps ==
    ASSUME WorkInv, NEW s \in Sweeper, Remove(s), NEW w \in Work, Kept(w), ~Kept(w)'
    PROVE  Excused(w)
<1>0. /\ Home[w] \in Tree /\ s \in Cleaner /\ at \in [Work -> Places]
      /\ checkout \in [Tree -> {"there", "missing", "removed", "buried"}]
  BY WorktreesAssumption DEF WorkInv, Duties, Remove, At, Sweeper, TypeOK
<1>1. CASE UNCHANGED world
  BY <1>1 DEF world, refs, Kept, InGrave
<1>2. CASE ~ UNCHANGED world
  <2>1. RemoveTree(Of(s), "removed") /\ ~GitRefuses(Of(s)) /\ job[s].at = "remove"
    BY <1>2 DEF Remove, Frame, At
  <2>2. InGrave(w)' <=> InGrave(w)
    BY <2>1 DEF RemoveTree, InGrave
  <2>3. Home[w] = Of(s)
    BY <1>0, <2>1, <2>2 DEF refs, RemoveTree, Kept
  <2>4. CASE at[w] = "committed"
    <3>1. Home[w] \in reg /\ Home[w] \notin branch /\ w \notin pushed
      BY <2>1, <2>2, <2>4 DEF refs, RemoveTree, Kept
    <3>2. Home[w] \in Detached
      BY <3>1 DEF WorkInv, Rooted
    <3>3. w \in job[s].since
      BY <1>0, <2>1, <2>3, <2>4, <3>1 DEF WorkInv, Shared, Committed, In
    <3>. QED
      BY <1>0, <2>3, <3>2, <3>3 DEF Excused
  <2>5. CASE at[w] # "committed"
    <3>1. at[w] \in {"edited", "staged"}
      BY <1>0, <2>1, <2>5 DEF RemoveTree, Kept, Places
    <3>2. checkout[Of(s)] = "there"
      BY <1>0, <2>1, <2>2, <2>3, <3>1 DEF RemoveTree, Kept
    <3>3. w \in Ignored
      BY <2>1, <2>3, <3>1, <3>2 DEF GitRefuses, Clean, In
    <3>. QED
      BY <3>3 DEF Excused
  <2>. QED
    BY <2>4, <2>5
<1>. QED
  BY <1>1, <1>2

LEMMA InStone ==
    ASSUME TypeOK, NEW s \in Sweeper, Of(s) # None, NEW w,
           w \in grave.bundle[Stone(s)] \/ w \in grave.tar[Stone(s)]
    PROVE  InGrave(w)
BY StoneIsKey DEF InGrave

LEMMA ForceKeeps ==
    ASSUME WorkInv, NEW s \in Sweeper, ForceRemove(s), NEW w \in Work, Kept(w), ~Kept(w)'
    PROVE  Excused(w)
<1>0. /\ Home[w] \in Tree /\ s \in Judger /\ at \in [Work -> Places]
      /\ checkout \in [Tree -> {"there", "missing", "removed", "buried"}]
      /\ job[s].at = "force" /\ Of(s) # None
  BY WorktreesAssumption DEF WorkInv, Duties, ForceRemove, At, Sweeper, TypeOK
<1>1. CASE UNCHANGED world
  BY <1>1 DEF world, refs, Kept, InGrave
<1>2. CASE ~ UNCHANGED world
  <2>1. RemoveTree(Of(s), "buried")
    BY <1>2 DEF ForceRemove, Frame
  <2>2. InGrave(w)' <=> InGrave(w)
    BY <2>1 DEF RemoveTree, InGrave
  <2>3. Home[w] = Of(s)
    BY <1>0, <2>1, <2>2 DEF refs, RemoveTree, Kept
  <2>4. ~InGrave(w) /\ at[w] # "none"
    BY <2>1, <2>2 DEF RemoveTree, Kept
  <2>5. w \notin grave.bundle[Stone(s)] /\ w \notin grave.tar[Stone(s)]
    BY <1>0, <2>4, InStone DEF WorkInv
  <2>6. CASE at[w] = "committed"
    <3>1. w \in job[s].since
      BY <1>0, <2>3, <2>5, <2>6 DEF WorkInv, Buried, Committed, In
    <3>. QED
      BY <1>0, <2>3, <3>1 DEF Excused
  <2>7. CASE at[w] = "edited"
    <3>1. w \in Ignored \/ w \in job[s].since
      BY <1>0, <2>3, <2>5, <2>7 DEF WorkInv, Buried, Dirty, In
    <3>. QED
      BY <1>0, <2>3, <3>1 DEF Excused
  <2>8. CASE at[w] = "staged"
    BY <1>0, <2>3, <2>8 DEF Excused, At
  <2>. QED
    BY <1>0, <2>4, <2>6, <2>7, <2>8 DEF Places
<1>. QED
  BY <1>1, <1>2

(* A branch goes when what it holds is pushed, or buried.                  *)
LEMMA BranchKeeps ==
    ASSUME WorkInv, NEW s \in Sweeper, DeleteBranch(s) \/ ForceBranch(s),
           NEW w \in Work, Kept(w), ~Kept(w)'
    PROVE  Excused(w)
<1>1. /\ UNCHANGED <<checkout, reg, at, pushed, merged, grave>>
      /\ branch' = branch \/ branch' = branch \ {Of(s)}
  BY DEF refs, DeleteBranch, ForceBranch
<1>2. InGrave(w)' <=> InGrave(w)
  BY <1>1 DEF InGrave
<1>3. at[w] = "committed" /\ Home[w] = Of(s) /\ w \notin pushed \cup merged /\ ~InGrave(w) /\ branch' # branch
  BY <1>1, <1>2 DEF Kept
<1>4. ForceBranch(s)
  BY <1>3 DEF DeleteBranch, MayDeleteBranch, Committed, In, WorkInv, TypeOK
<1>5. s \in Judger /\ job[s].at = "forceBranch" /\ Of(s) # None
  BY <1>4 DEF WorkInv, Duties, ForceBranch, At, Sweeper, TypeOK
<1>6. w \notin grave.bundle[Stone(s)]
  BY <1>3, <1>5, InStone DEF WorkInv
<1>7. w \in job[s].since
  BY <1>3, <1>5, <1>6 DEF WorkInv, Buried, Committed, In
<1>. QED
  BY <1>3, <1>5, <1>7 DEF Excused

(* A grave is lost to another tree of the same name only.                  *)
LEMMA GraveKeeps ==
    ASSUME WorkInv, Next, NEW s \in Sweeper, Bundle(s) \/ Tar(s), NEW w \in Work,
           Kept(w), ~Kept(w)'
    PROVE  Excused(w)
<1>0. /\ UNCHANGED <<checkout, reg, branch, at, pushed, merged>> /\ at \in [Work -> Places]
      /\ CanBury(Of(s)) /\ TypeOK /\ (At(s, "grave") \/ At(s, "tar"))
  BY DEF refs, Bundle, Tar, WorkInv, TypeOK
<1>1. InGrave(w) /\ ~InGrave(w)' /\ at[w] # "none"
  BY <1>0 DEF Kept
<1>2. Home[w] # Of(s)
  BY <1>0, <1>1 DEF Kept, CanBury
<1>3. PICK k \in Key : w \in grave.bundle[k] \cup grave.tar[k]
  BY <1>1 DEF InGrave
<1>4. Name[Home[w]] = k[1]
  BY <1>3 DEF WorkInv, Graves
<1>5. w \notin grave'.bundle[k] /\ w \notin grave'.tar[k]
  BY <1>1 DEF InGrave
<1>6. k = <<Name[Of(s)], sec>> \/ k = Stone(s)
  <2>0. grave.bundle \in [Key -> SUBSET Work] /\ grave.tar \in [Key -> SUBSET Work]
    BY <1>0 DEF TypeOK
  <2>1. CASE Bundle(s)
    <3>1. Bundles(s)
      BY <1>0, <2>1, BundleDoes
    <3>. QED
      BY <1>3, <1>5, <2>0, <3>1 DEF Bundles
  <2>2. CASE Tar(s)
    <3>1. Tars(s)
      BY <1>0, <2>2, TarDoes
    <3>2. k # Stone(s) => grave'.tar[k] = grave.tar[k] /\ grave'.bundle[k] = grave.bundle[k]
      BY <2>0, <3>1 DEF Tars
    <3>. QED
      BY <1>3, <1>5, <3>2
  <2>. QED
    BY <2>1, <2>2
<1>7. Name[Home[w]] = Name[Of(s)]
  BY <1>4, <1>6 DEF Stone
<1>. QED
  BY <1>0, <1>1, <1>2, <1>7 DEF Excused

(* Neither tier of the sweeper loses work but in the named ways: what is   *)
(* edited, staged, committed or pushed stays in a directory, a ref or a    *)
(* grave, however the sweepers' calls, their failures and people's work    *)
(* interleave (worktrees/module.go:135-179, 203-255).                      *)
THEOREM WorkIsKept == Spec => WorkKept
<1>1. WorkInv /\ [Next]_vars => [\A w \in Work : Kept(w) /\ ~Kept(w)' => Excused(w)]_vars
  <2>. SUFFICES ASSUME WorkInv, Next, NEW w \in Work, Kept(w), ~Kept(w)' PROVE Excused(w)
    OBVIOUS
  <2>1. CASE UNCHANGED world
    BY <2>1 DEF world, refs, Kept, InGrave
  <2>2. CASE User \/ Second
    BY <2>2, PeopleKeep DEF WorkInv
  <2>3. ASSUME NEW s \in Sweeper, Fail(s) PROVE UNCHANGED world
    BY <2>3 DEF Fail
  <2>4. ASSUME NEW s \in Sweeper, Sweep(s)
        PROVE  \/ UNCHANGED world \/ Prune(s) \/ Remove(s) \/ ForceRemove(s)
               \/ DeleteBranch(s) \/ ForceBranch(s) \/ Bundle(s) \/ Tar(s)
    BY <2>4 DEF Sweep, Scan, Rule, Locate, Freshness, Status, Contains, Ahead, Probe, ProveUnless,
         NoGrave, Frame
  <2>. QED
    BY <2>1, <2>2, <2>3, <2>4, PruneKeeps, RemoveKeeps, ForceKeeps, BranchKeeps, GraveKeeps DEF Next
<1>. QED
  BY <1>1, WorkInvHolds, PTL DEF Spec, WorkKept
=============================================================================
